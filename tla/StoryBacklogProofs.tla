------------------------- MODULE StoryBacklogProofs -------------------------
(***************************************************************************)
(* Theorems about StoryBacklog, for any number of stories, repositories    *)
(* and commands, whatever crashes.  First what holds however the commands  *)
(* overlap: the shape of every artifact, and that the committed updated    *)
(* state follows from the results it was computed from.  Then what holds   *)
(* as long as commands are run one after the other: every change of a      *)
(* story has a cause.                                                      *)
(***************************************************************************)
EXTENDS StoryBacklog, TLAPS

-----------------------------------------------------------------------------
(* What the adoption engine computes. *)

LEMMA ReconcileType ==
    ASSUME NEW st, NEW results
    PROVE  reconcile(st, results) \in [Repos -> Reconciliations]
<1>1. \A r \in Repos : determineReconciliationStatus(st, results, r) \in Reconciliations
  BY DEF determineReconciliationStatus, Reconciliations
<1> QED BY <1>1 DEF reconcile

\* inputByPrompt finds a result whenever there is one: statuses are ordered.
LEMMA InputExists ==
    ASSUME NEW results \in SUBSET Results, NEW pr, resultsOf(results, pr) # {}
    PROVE  inputByPrompt(results, pr) \in resultsOf(results, pr)
<1> DEFINE R == resultsOf(results, pr)
<1>1. \A x \in R : x.status \in {"success", "failed", "not_run"}
  BY DEF resultsOf, Results
<1>2. /\ statusOrder["failed"] = 1 /\ statusOrder["not_run"] = 2
      /\ statusOrder["success"] = 3
  BY DEF statusOrder
<1> HIDE DEF R
<1>3. \E x \in R : \A y \in R : statusOrder[y.status] <= statusOrder[x.status]
  <2>0. R # {}
    BY DEF R
  <2>1. CASE \E x \in R : x.status = "success"
    BY <1>1, <1>2, <2>1
  <2>2. CASE /\ \A x \in R : x.status # "success"
             /\ \E x \in R : x.status = "not_run"
    BY <1>1, <1>2, <2>2
  <2>3. CASE \A x \in R : x.status = "failed"
    BY <1>1, <1>2, <2>0, <2>3
  <2> QED BY <1>1, <2>1, <2>2, <2>3
<1> QED BY <1>3 DEF inputByPrompt, R

LEMMA OutcomeCases ==
    ASSUME NEW st, NEW results \in SUBSET Results, NEW pr
    PROVE  comparePromptOutcome(st, results, pr)
             \in {"success", "failed", "not_run", "mismatch", "partial_success"}
<1>1. declaredStatus(results, pr) \in {"success", "failed", "not_run"}
  BY InputExists DEF declaredStatus, resultsOf, Results
<1> QED BY <1>1 DEF comparePromptOutcome

\* A repository is completed as planned only when it had prompts, the last was observed to
\* have led where it should, and none failed, drifted or was left unverified.
LEMMA CompletedAsPlanned ==
    ASSUME NEW st, NEW results \in SUBSET Results, NEW r,
           determineReconciliationStatus(st, results, r) = "completed_as_planned"
    PROVE  /\ promptsOf(st, r) # {}
           /\ observedTo(st, results, topPrompt(st, r)) = topPrompt(st, r).to
           /\ \A pr \in promptsOf(st, r) :
                 comparePromptOutcome(st, results, pr) \in {"success", "not_run"}
<1>1. /\ promptsOf(st, r) # {}
      /\ observedTo(st, results, topPrompt(st, r)) = topPrompt(st, r).to
      /\ repoStatus(st, results, r) \notin {"not_run", "mismatch", "failed", "partial_success"}
  BY DEF determineReconciliationStatus
<1>2. \A pr \in promptsOf(st, r) :
         comparePromptOutcome(st, results, pr) \notin {"mismatch", "failed", "partial_success"}
  BY <1>1 DEF repoStatus
<1> QED BY <1>1, <1>2, OutcomeCases

LEMMA ReceiptMeansAll ==
    ASSUME NEW repos \in [Repos -> Reconciliations], receiptCompleted(repos)
    PROVE  \A r \in Repos : repos[r] = "completed_as_planned"
BY DEF receiptCompleted, completedRepos, needsReview

-----------------------------------------------------------------------------
(* Types. *)

BacklogOps == {"create", "status", "promoteCandidate", "promoteStory", "route"}
Computing  == {"reference", "outcome", "receipt", "stageUpdated", "commitUpdated", "lifecycle"}

\* What a command at a step holds: the arguments of its operation, and from the moment the
\* control loop has run an updated state that follows from its basis.
Follows(u) == u \in UpdatedState /\ u.repos = reconcile(u.basis.stage, u.basis.results)

Holds(step, m) ==
    /\ m.op \in BacklogOps => m.story \in Stories
    /\ m.op = "status" => m.status \in Statuses
    /\ m.op = "promoteStory" => m.fp \in Fingerprints
    /\ step = "read" => m.op \in BacklogOps
    /\ step = "candidates" => m.op = "promoteCandidate"
    /\ step \in {"logRead", "logWrite"} => m.op = "promoteStory"
    /\ step \in {"dispatch", "work", "build", "reference"} => m.op \in {"bridge", "ingest"}
    /\ step \in Computing => Follows(m.updated)

IInv ==
    /\ TypeOK
    /\ \A p \in Procs : Holds(pc[p], mem[p])
    /\ stagedUpdated # NoUpdated => Follows(stagedUpdated)
    /\ updated # NoUpdated => Follows(updated)

LEMMA BlankType == Blank \in Memory /\ Holds("idle", Blank)
<1>1. NoStories \in Backlog
  BY DEF NoStories, Backlog
<1> QED BY <1>1 DEF Blank, Memory, Holds, BacklogOps, Computing

LEMMA NewStoryType ==
    ASSUME NEW fp \in Fingerprints \union {None}
    PROVE  NewStory(fp) \in Story
BY DEF NewStory, Story, Statuses

LEMMA GotoHolds ==
    ASSUME IInv, NEW p \in Procs, NEW step \in Steps, NEW m \in Memory, Holds(step, m),
           Goto(p, step, m)
    PROVE  /\ pc' \in [Procs -> Steps] /\ mem' \in [Procs -> Memory] /\ exit' \in [Procs -> Exits]
           /\ \A q \in Procs : Holds(pc'[q], mem'[q])
<1>1. /\ pc' = [pc EXCEPT ![p] = step] /\ mem' = [mem EXCEPT ![p] = m]
      /\ exit' = [exit EXCEPT ![p] = "none"]
  BY DEF Goto
<1>2. /\ pc \in [Procs -> Steps] /\ mem \in [Procs -> Memory] /\ exit \in [Procs -> Exits]
      /\ \A q \in Procs : Holds(pc[q], mem[q])
  BY DEF IInv, TypeOK
<1>3. "none" \in Exits
  BY DEF Exits
<1> QED BY <1>1, <1>2, <1>3

LEMMA EndHolds ==
    ASSUME IInv, NEW p \in Procs, NEW result \in Exits, End(p, result)
    PROVE  /\ pc' \in [Procs -> Steps] /\ mem' \in [Procs -> Memory] /\ exit' \in [Procs -> Exits]
           /\ \A q \in Procs : Holds(pc'[q], mem'[q])
<1>1. /\ pc' = [pc EXCEPT ![p] = "idle"] /\ mem' = [mem EXCEPT ![p] = Blank]
      /\ exit' = [exit EXCEPT ![p] = result]
  BY DEF End
<1>2. /\ pc \in [Procs -> Steps] /\ mem \in [Procs -> Memory] /\ exit \in [Procs -> Exits]
      /\ \A q \in Procs : Holds(pc[q], mem[q])
  BY DEF IInv, TypeOK
<1>3. "idle" \in Steps
  BY DEF Steps
<1> QED BY <1>1, <1>2, <1>3, BlankType

\* The part of the invariant that a step which moves a command and touches no artifact keeps.
LEMMA ArtifactsKept ==
    ASSUME IInv, UNCHANGED <<backlogVars, planVars, stage, adoptionVars, bounds>>,
           /\ pc' \in [Procs -> Steps] /\ mem' \in [Procs -> Memory] /\ exit' \in [Procs -> Exits]
           /\ \A q \in Procs : Holds(pc'[q], mem'[q])
    PROVE  IInv'
BY DEF IInv, TypeOK, backlogVars, planVars, adoptionVars, bounds

LEMMA InitInv == Init => IInv
<1> SUFFICES ASSUME Init PROVE IInv
  OBVIOUS
<1>1. Absent \in Story \union {Absent} /\ ReadyStory \in Story /\ ClosedStory \in Story
  BY DEF ReadyStory, ClosedStory, NewStory, Story, Statuses
<1>2. stories \in Backlog /\ NoStories \in Backlog
  BY <1>1 DEF Init, Backlog, NoStories
<1>3. stage \in [Repos -> Stages]
  BY StoryConstants DEF Init
<1>4. /\ pc \in [Procs -> Steps] /\ mem \in [Procs -> Memory] /\ exit \in [Procs -> Exits]
      /\ \A q \in Procs : Holds(pc[q], mem[q])
  BY BlankType DEF Init, Steps, Exits
<1>5. outcome \in Outcome
  BY DEF Init, Outcome, EmptyOutcome
<1>6. /\ commands \in 0..MaxCommands /\ adoptions \in 0..MaxAdoptions
      /\ crashes \in 0..MaxCrashes
  BY StoryConstants DEF Init
<1>7. staged \in [StagedPaths -> Backlog] /\ log \subseteq PromotionReceipt
  BY <1>2 DEF Init
<1> QED BY <1>2, <1>3, <1>4, <1>5, <1>6, <1>7 DEF Init, IInv, TypeOK

\* A command that is about to stage a backlog.
LEMMA StageNextHolds ==
    ASSUME IInv, NEW p \in Procs, NEW b \in Backlog, NEW valid \in BOOLEAN, StageNext(p, b, valid),
           UNCHANGED <<backlogVars, planVars, stage, adoptionVars, bounds>>
    PROVE  IInv'
<1> DEFINE m == [mem[p] EXCEPT !.backlog = b, !.valid = valid]
<1>1. mem[p] \in Memory /\ Holds(pc[p], mem[p])
  BY DEF IInv, TypeOK
<1>2. m \in Memory
  BY <1>1 DEF Memory
<1>3. /\ m.op = mem[p].op /\ m.story = mem[p].story /\ m.status = mem[p].status
      /\ m.fp = mem[p].fp
  BY <1>1 DEF Memory
<1> HIDE DEF m
<1>4. Holds("stage", m)
  BY <1>1, <1>3 DEF Holds, Computing
<1>5. Goto(p, "stage", m)
  BY DEF StageNext, m
<1>6. "stage" \in Steps
  BY DEF Steps
<1> QED BY <1>2, <1>4, <1>5, <1>6, GotoHolds, ArtifactsKept

LEMMA LinkType ==
    ASSUME NEW b \in Backlog, NEW s \in Stories, statusWhenPlanned(b[s]) # "unchanged"
    PROVE  linkStoryToPlan(b, s) \in Backlog
<1>1. b[s] \in Story
  BY DEF statusWhenPlanned, Backlog, Absent
<1>2. [b[s] EXCEPT !.status = "in_progress", !.recon = "in_progress"] \in Story
  BY <1>1 DEF Story, Statuses
<1>3. linkStoryToPlan(b, s) = [b EXCEPT ![s] = [b[s] EXCEPT !.status = "in_progress",
                                                           !.recon = "in_progress"]]
  BY DEF linkStoryToPlan, statusWhenPlanned, Backlog
<1> QED BY <1>2, <1>3 DEF Backlog

LEMMA ReconciledType ==
    ASSUME NEW b \in Backlog, NEW s \in Stories, Exists(b, s)
    PROVE  reconcileStoryExecution(b, s) \in Backlog
<1>1. b[s] \in Story
  BY DEF Exists, Backlog
<1> DEFINE st == statusWhenCompleted(b[s])
<1>2. st \in Statuses
  BY <1>1 DEF statusWhenCompleted, Story, Statuses
<1> HIDE DEF st
<1>3. [b[s] EXCEPT !.status = st, !.recon = "completed", !.receipted = TRUE] \in Story
  BY <1>1, <1>2 DEF Story
<1>4. [b EXCEPT ![s].status = st, ![s].recon = "completed", ![s].receipted = TRUE]
        = [b EXCEPT ![s] = [b[s] EXCEPT !.status = st, !.recon = "completed", !.receipted = TRUE]]
  BY DEF Backlog
<1> QED BY <1>3, <1>4 DEF reconcileStoryExecution, Backlog, st

LEMMA StartInv ==
    ASSUME IInv, NEW p \in Procs, Start(p)
    PROVE  IInv'
<1>1. PICK op \in Commands :
         /\ adoptions' = adoptions + (IF op \in {"bridge", "ingest"} THEN 1 ELSE 0)
         /\ adoptions' <= MaxAdoptions
         /\ \E s \in IF op \in BacklogOps THEN Stories ELSE {None},
               st \in IF op = "status" THEN SetStatuses ELSE {"none"},
               fp \in IF op = "promoteStory" THEN Fingerprints ELSE {None} :
              Goto(p, FirstStep(op),
                   [Blank EXCEPT !.op = op, !.story = s, !.status = st, !.fp = fp])
  BY DEF Start, BacklogOps
<1>2. PICK s \in IF op \in BacklogOps THEN Stories ELSE {None},
           st \in IF op = "status" THEN SetStatuses ELSE {"none"},
           fp \in IF op = "promoteStory" THEN Fingerprints ELSE {None} :
         Goto(p, FirstStep(op), [Blank EXCEPT !.op = op, !.story = s, !.status = st, !.fp = fp])
  BY <1>1
<1> DEFINE m == [Blank EXCEPT !.op = op, !.story = s, !.status = st, !.fp = fp]
<1>3. op \in AllCommands /\ SetStatuses \subseteq Statuses
  BY StoryConstants
<1>4. m \in Memory
  BY <1>3, BlankType DEF Memory
<1>5. m.op = op /\ m.story = s /\ m.status = st /\ m.fp = fp
  BY DEF Blank
<1>6. FirstStep(op) \in Steps /\ Holds(FirstStep(op), m)
  BY <1>3, <1>5 DEF FirstStep, Steps, Holds, AllCommands, BacklogOps, Computing
<1> HIDE DEF m
<1>7. /\ pc' \in [Procs -> Steps] /\ mem' \in [Procs -> Memory] /\ exit' \in [Procs -> Exits]
      /\ \A q \in Procs : Holds(pc'[q], mem'[q])
  BY <1>2, <1>4, <1>6, GotoHolds DEF m
<1>8. /\ commands' \in 0..MaxCommands /\ adoptions' \in 0..MaxAdoptions
      /\ crashes' \in 0..MaxCrashes
  BY <1>1, StoryConstants DEF Start, IInv, TypeOK
<1> QED BY <1>7, <1>8 DEF Start, IInv, TypeOK, backlogVars, planVars, adoptionVars

LEMMA ReadInv ==
    ASSUME IInv, NEW p \in Procs,
           \/ ReadToCreate(p) \/ ReadToSetStatus(p) \/ ReadToPromoteCandidate(p)
           \/ GenerateCandidates(p) \/ ReadToPromoteStory(p) \/ ReadToRoute(p)
    PROVE  IInv'
<1>a. /\ mem[p] \in Memory /\ Holds(pc[p], mem[p]) /\ stories \in Backlog
      /\ mem[p].backlog \in Backlog
  BY DEF IInv, TypeOK, Memory
<1>b. \A b \in Backlog, s \in Stories, fp \in Fingerprints \union {None} :
         [b EXCEPT ![s] = NewStory(fp)] \in Backlog
  BY NewStoryType DEF Backlog
<1>1. CASE ReadToCreate(p)
  <2>1. mem[p].story \in Stories
    BY <1>1, <1>a DEF ReadToCreate, Holds, BacklogOps
  <2>2. [stories EXCEPT ![mem[p].story] = NewStory(None)] \in Backlog
    BY <1>a, <1>b, <2>1
  <2> QED BY <1>1, <2>2, StageNextHolds DEF ReadToCreate
<1>2. CASE ReadToSetStatus(p)
  <2> DEFINE s == mem[p].story
             b == [stories EXCEPT ![s].status = mem[p].status]
  <2>1. s \in Stories /\ mem[p].status \in Statuses
    BY <1>2, <1>a DEF ReadToSetStatus, Holds, BacklogOps
  <2>2. Exists(stories, s) => b \in Backlog
    <3> SUFFICES ASSUME Exists(stories, s) PROVE b \in Backlog
      OBVIOUS
    <3>1. stories[s] \in Story
      BY <1>a, <2>1 DEF Backlog, Exists
    <3>2. [stories[s] EXCEPT !.status = mem[p].status] \in Story
      BY <2>1, <3>1 DEF Story
    <3> QED BY <1>a, <2>1, <3>2 DEF Backlog
  <2> HIDE DEF b
  <2> QED BY <1>2, <1>a, <2>2, StageNextHolds DEF ReadToSetStatus, b
<1>3. CASE ReadToPromoteCandidate(p)
  <2> DEFINE m == [mem[p] EXCEPT !.backlog = stories]
  <2>1. m \in Memory
    BY <1>a DEF Memory
  <2>2. Holds("candidates", m)
    BY <1>3, <1>a DEF ReadToPromoteCandidate, Holds, Computing, Memory
  <2> HIDE DEF m
  <2>3. Goto(p, "candidates", m) /\ "candidates" \in Steps
    BY <1>3 DEF ReadToPromoteCandidate, m, Steps
  <2> QED BY <1>3, <2>1, <2>2, <2>3, GotoHolds, ArtifactsKept DEF ReadToPromoteCandidate
<1>4. CASE GenerateCandidates(p)
  <2>1. mem[p].story \in Stories
    BY <1>4, <1>a DEF GenerateCandidates, At, Holds, BacklogOps
  <2>2. [mem[p].backlog EXCEPT ![mem[p].story] = NewStory(None)] \in Backlog
    BY <1>a, <1>b, <2>1
  <2> QED BY <1>4, <1>a, <2>2, StageNextHolds DEF GenerateCandidates
<1>5. CASE ReadToPromoteStory(p)
  <2> DEFINE s     == mem[p].story
             check == withStoryConflictCheck(stories, s, mem[p].fp)
             b     == IF check = "promoted" THEN [stories EXCEPT ![s] = NewStory(mem[p].fp)]
                      ELSE stories
             m     == [mem[p] EXCEPT !.outcome = check, !.backlog = b]
  <2>1. s \in Stories /\ mem[p].fp \in Fingerprints
    BY <1>5, <1>a DEF ReadToPromoteStory, Holds, BacklogOps
  <2>2. check \in {"promoted", "noop", "conflict"}
    BY DEF withStoryConflictCheck
  <2>3. b \in Backlog
    BY <1>a, <1>b, <2>1
  <2>4. Goto(p, "stage", m) /\ "stage" \in Steps
    BY <1>5 DEF ReadToPromoteStory, Steps
  <2> HIDE DEF check, b
  <2>5. m \in Memory
    BY <1>a, <2>2, <2>3 DEF Memory
  <2>6. Holds("stage", m)
    BY <1>a DEF Holds, Computing, Memory
  <2> HIDE DEF m
  <2> QED BY <1>5, <2>4, <2>5, <2>6, GotoHolds, ArtifactsKept DEF ReadToPromoteStory
<1>6. CASE ReadToRoute(p)
  <2> DEFINE m == [mem[p] EXCEPT !.backlog = stories]
  <2>1. m \in Memory
    BY <1>a DEF Memory
  <2>2. Holds("stagePlan", m)
    BY <1>6, <1>a DEF ReadToRoute, Holds, Computing, Memory
  <2>3. Goto(p, "stagePlan", m) \/ End(p, "failure")
    BY <1>6 DEF ReadToRoute
  <2>4. "stagePlan" \in Steps /\ "failure" \in Exits
    BY DEF Steps, Exits
  <2> HIDE DEF m
  <2> QED BY <1>6, <2>1, <2>2, <2>3, <2>4, GotoHolds, EndHolds, ArtifactsKept DEF ReadToRoute
<1> QED BY <1>1, <1>2, <1>3, <1>4, <1>5, <1>6

LEMMA BacklogWriteInv ==
    ASSUME IInv, NEW p \in Procs,
           StageStories(p) \/ CommitStories(p) \/ ReadLog(p) \/ WriteLog(p)
    PROVE  IInv'
<1>a. /\ mem[p] \in Memory /\ Holds(pc[p], mem[p]) /\ staged \in [StagedPaths -> Backlog]
      /\ mem[p].backlog \in Backlog /\ log \subseteq PromotionReceipt
  BY DEF IInv, TypeOK, Memory
<1>b. stagedPathOf(mem[p].op) \in StagedPaths
  BY DEF stagedPathOf, StagedPaths
<1>c. {"commit", "logRead", "logWrite"} \subseteq Steps /\ {"ok", "failure", "blocked"} \subseteq Exits
  BY DEF Steps, Exits
<1>1. CASE StageStories(p)
  <2>1. Goto(p, "commit", mem[p]) \/ End(p, "blocked")
    BY <1>1 DEF StageStories
  <2>2. Holds("commit", mem[p])
    BY <1>a DEF Holds, Computing
  <2>3. /\ pc' \in [Procs -> Steps] /\ mem' \in [Procs -> Memory] /\ exit' \in [Procs -> Exits]
        /\ \A q \in Procs : Holds(pc'[q], mem'[q])
    BY <1>a, <1>c, <2>1, <2>2, GotoHolds, EndHolds
  <2>4. staged' \in [StagedPaths -> Backlog]
    BY <1>1, <1>a, <1>b DEF StageStories
  <2> QED BY <1>1, <2>3, <2>4 DEF StageStories, IInv, TypeOK, planVars, adoptionVars, bounds
<1>2. CASE CommitStories(p)
  <2>1. (mem[p].op = "promoteStory" /\ Goto(p, "logRead", mem[p])) \/ End(p, "ok")
    BY <1>2 DEF CommitStories
  <2>2. mem[p].op = "promoteStory" => Holds("logRead", mem[p])
    BY <1>a DEF Holds, Computing
  <2>3. /\ pc' \in [Procs -> Steps] /\ mem' \in [Procs -> Memory] /\ exit' \in [Procs -> Exits]
        /\ \A q \in Procs : Holds(pc'[q], mem'[q])
    BY <1>a, <1>c, <2>1, <2>2, GotoHolds, EndHolds
  <2>4. stories' \in Backlog
    BY <1>2, <1>a, <1>b DEF CommitStories
  <2> QED BY <1>2, <2>3, <2>4 DEF CommitStories, IInv, TypeOK, planVars, adoptionVars, bounds
<1>3. CASE ReadLog(p)
  <2> DEFINE m == [mem[p] EXCEPT !.log = log]
  <2>1. m \in Memory
    BY <1>a DEF Memory
  <2>2. Holds("logWrite", m)
    BY <1>3, <1>a DEF ReadLog, At, Holds, Computing, Memory
  <2> HIDE DEF m
  <2>3. Goto(p, "logWrite", m)
    BY <1>3 DEF ReadLog, m
  <2> QED BY <1>3, <1>c, <2>1, <2>2, <2>3, GotoHolds, ArtifactsKept DEF ReadLog
<1>4. CASE WriteLog(p)
  <2>1. mem[p].op = "promoteStory"
    BY <1>4, <1>a DEF WriteLog, At, Holds
  <2>2. mem[p].story \in Stories /\ mem[p].fp \in Fingerprints
        /\ mem[p].outcome \in {"promoted", "noop", "conflict"} /\ mem[p].log \subseteq PromotionReceipt
    BY <1>a, <2>1 DEF Holds, BacklogOps, Memory
  <2>3. log' \subseteq PromotionReceipt
    BY <1>4, <2>2 DEF WriteLog, PromotionReceipt
  <2>4. End(p, "failure") \/ End(p, "ok")
    BY <1>4 DEF WriteLog
  <2>5. /\ pc' \in [Procs -> Steps] /\ mem' \in [Procs -> Memory] /\ exit' \in [Procs -> Exits]
        /\ \A q \in Procs : Holds(pc'[q], mem'[q])
    BY <1>c, <2>4, EndHolds
  <2> QED BY <1>4, <2>3, <2>5 DEF WriteLog, IInv, TypeOK, planVars, adoptionVars, bounds
<1> QED BY <1>1, <1>2, <1>3, <1>4

LEMMA PlanInv ==
    ASSUME IInv, NEW p \in Procs, StagePlan(p) \/ CommitPlan(p)
    PROVE  IInv'
<1>a. /\ mem[p] \in Memory /\ Holds(pc[p], mem[p]) /\ mem[p].backlog \in Backlog
      /\ mem[p].story \in Stories \union {None} /\ stagedPlan \in Stories \union {None}
  BY DEF IInv, TypeOK, Memory
<1>1. CASE StagePlan(p)
  <2>1. Goto(p, "commitPlan", mem[p]) /\ "commitPlan" \in Steps
    BY <1>1 DEF StagePlan, Steps
  <2>2. Holds("commitPlan", mem[p])
    BY <1>a DEF Holds, Computing
  <2>3. /\ pc' \in [Procs -> Steps] /\ mem' \in [Procs -> Memory] /\ exit' \in [Procs -> Exits]
        /\ \A q \in Procs : Holds(pc'[q], mem'[q])
    BY <1>a, <2>1, <2>2, GotoHolds
  <2> QED BY <1>1, <1>a, <2>3 DEF StagePlan, IInv, TypeOK, backlogVars, adoptionVars, bounds
<1>2. CASE CommitPlan(p)
  <2> DEFINE s == mem[p].story
             b == linkStoryToPlan(mem[p].backlog, s)
             m == [mem[p] EXCEPT !.backlog = b, !.valid = TRUE]
  <2>1. \/ End(p, "ok")
        \/ /\ s # None /\ statusWhenPlanned(mem[p].backlog[s]) # "unchanged"
           /\ Goto(p, "stage", m)
    BY <1>2 DEF CommitPlan, StageNext
  <2>2. CASE End(p, "ok")
    <3>1. /\ pc' \in [Procs -> Steps] /\ mem' \in [Procs -> Memory] /\ exit' \in [Procs -> Exits]
          /\ \A q \in Procs : Holds(pc'[q], mem'[q])
      BY <2>2, EndHolds DEF Exits
    <3> QED BY <1>2, <1>a, <3>1 DEF CommitPlan, IInv, TypeOK, backlogVars, adoptionVars, bounds
  <2>3. CASE /\ s # None /\ statusWhenPlanned(mem[p].backlog[s]) # "unchanged"
             /\ Goto(p, "stage", m)
    <3>1. b \in Backlog
      BY <1>a, <2>3, LinkType
    <3> HIDE DEF b
    <3>2. m \in Memory
      BY <1>a, <3>1 DEF Memory
    <3>3. Holds("stage", m)
      BY <1>a DEF Holds, Computing, Memory
    <3> HIDE DEF m
    <3>4. /\ pc' \in [Procs -> Steps] /\ mem' \in [Procs -> Memory] /\ exit' \in [Procs -> Exits]
          /\ \A q \in Procs : Holds(pc'[q], mem'[q])
      BY <2>3, <3>2, <3>3, GotoHolds DEF Steps
    <3> QED BY <1>2, <1>a, <3>4 DEF CommitPlan, IInv, TypeOK, backlogVars, adoptionVars, bounds
  <2> QED BY <2>1, <2>2, <2>3
<1> QED BY <1>1, <1>2

LEMMA ComputedFollows ==
    ASSUME NEW results \in SUBSET Results, stage \in [Repos -> Stages]
    PROVE  Follows(Computed(results))
<1>1. reconcile(stage, results) \in [Repos -> Reconciliations]
  BY ReconcileType
<1> QED BY <1>1 DEF Computed, Follows, UpdatedState

LEMMA WorkersInv ==
    ASSUME IInv, NEW p \in Procs,
           \/ Dispatch(p) \/ Work(p) \/ HandIn(p) \/ AdapterFails(p)
           \/ BuildExecutionControlLoop(p)
    PROVE  IInv'
<1>a. /\ mem[p] \in Memory /\ Holds(pc[p], mem[p]) /\ stage \in [Repos -> Stages]
      /\ mem[p].results \subseteq Results /\ mem[p].todo \subseteq Prompts
  BY DEF IInv, TypeOK, Memory
<1>b. {"work", "build", "reference"} \subseteq Steps /\ {"failure", "refused"} \subseteq Exits
  BY DEF Steps, Exits
<1>1. CASE Dispatch(p)
  <2> DEFINE t == codexPrompts(stage)
             m == [mem[p] EXCEPT !.todo = t]
  <2>1. t \subseteq Prompts
    BY DEF codexPrompts
  <2>2. Goto(p, "work", m)
    BY <1>1 DEF Dispatch
  <2> HIDE DEF t
  <2>3. m \in Memory
    BY <1>a, <2>1 DEF Memory
  <2>4. Holds("work", m)
    BY <1>1, <1>a DEF Dispatch, At, Holds, Computing, Memory
  <2> HIDE DEF m
  <2> QED BY <1>1, <1>b, <2>2, <2>3, <2>4, GotoHolds, ArtifactsKept DEF Dispatch
<1>2. CASE Work(p)
  <2>1. PICK x \in Results, advanced \in BOOLEAN :
           /\ stage' = IF advanced THEN [stage EXCEPT ![x.prompt.repo] = x.prompt.to] ELSE stage
           /\ Goto(p, "work", [mem[p] EXCEPT !.todo = @ \ {x.prompt}, !.results = @ \union {x}])
    BY <1>2 DEF Work
  <2> DEFINE m == [mem[p] EXCEPT !.todo = @ \ {x.prompt}, !.results = @ \union {x}]
  <2>2. m \in Memory
    BY <1>a DEF Memory
  <2>3. Holds("work", m)
    BY <1>2, <1>a DEF Work, At, Holds, Computing, Memory
  <2> HIDE DEF m
  <2>4. /\ pc' \in [Procs -> Steps] /\ mem' \in [Procs -> Memory] /\ exit' \in [Procs -> Exits]
        /\ \A q \in Procs : Holds(pc'[q], mem'[q])
    BY <1>b, <2>1, <2>2, <2>3, GotoHolds DEF m
  <2>5. x.prompt.repo \in Repos /\ x.prompt.to \in Stages
    BY DEF Results, Prompts
  <2>6. stage' \in [Repos -> Stages]
    BY <1>a, <2>1, <2>5
  <2> QED BY <1>2, <2>4, <2>6
          DEF Work, IInv, TypeOK, backlogVars, planVars, adoptionVars, bounds
<1>3. CASE HandIn(p)
  <2> DEFINE m == [mem[p] EXCEPT !.todo = {}]
  <2>1. m \in Memory
    BY <1>a DEF Memory
  <2>2. Holds("build", m)
    BY <1>3, <1>a DEF HandIn, At, Holds, Computing, Memory
  <2> HIDE DEF m
  <2>3. Goto(p, "build", m)
    BY <1>3 DEF HandIn, m
  <2> QED BY <1>3, <1>b, <2>1, <2>2, <2>3, GotoHolds, ArtifactsKept DEF HandIn
<1>4. CASE AdapterFails(p)
  BY <1>4, <1>b, EndHolds, ArtifactsKept DEF AdapterFails
<1>5. CASE BuildExecutionControlLoop(p)
  <2> DEFINE u == Computed(mem[p].results)
             m == [mem[p] EXCEPT !.updated = u]
  <2>1. Follows(u)
    BY <1>a, ComputedFollows
  <2>2. Goto(p, "reference", m) \/ End(p, "refused")
    BY <1>5 DEF BuildExecutionControlLoop
  <2> HIDE DEF u
  <2>3. m \in Memory
    BY <1>a, <2>1 DEF Memory, Follows
  <2>4. m.updated = u /\ m.op = mem[p].op /\ m.story = mem[p].story /\ m.status = mem[p].status
        /\ m.fp = mem[p].fp
    BY <1>a DEF Memory
  <2> HIDE DEF m
  <2>5. Holds("reference", m)
    BY <1>5, <1>a, <2>1, <2>4 DEF BuildExecutionControlLoop, At, Holds
  <2> QED BY <1>5, <1>b, <2>2, <2>3, <2>5, GotoHolds, EndHolds, ArtifactsKept
          DEF BuildExecutionControlLoop
<1> QED BY <1>1, <1>2, <1>3, <1>4, <1>5

LEMMA FollowsWith ==
    ASSUME NEW u, Follows(u), NEW s \in Stories \union {None}
    PROVE  Follows([u EXCEPT !.story = s]) /\ Follows([u EXCEPT !.keys = "sorted"])
<1>1. /\ [u EXCEPT !.story = s] \in UpdatedState /\ [u EXCEPT !.keys = "sorted"] \in UpdatedState
  BY DEF Follows, UpdatedState
<1>2. /\ [u EXCEPT !.story = s].repos = u.repos /\ [u EXCEPT !.keys = "sorted"].repos = u.repos
      /\ [u EXCEPT !.story = s].basis = u.basis /\ [u EXCEPT !.keys = "sorted"].basis = u.basis
  BY DEF Follows, UpdatedState
<1> QED BY <1>1, <1>2 DEF Follows

LEMMA FollowsIsState ==
    ASSUME NEW u, Follows(u)
    PROVE  u \in UpdatedState /\ u \in UpdatedState \union {NoUpdated}
BY DEF Follows

LEMMA ReceiptInv ==
    ASSUME IInv, NEW p \in Procs,
           \/ LoadStoryReference(p) \/ WriteOutcome(p) \/ WriteReceipt(p)
           \/ StageUpdated(p) \/ CommitUpdated(p)
    PROVE  IInv'
<1>a. /\ mem[p] \in Memory /\ Holds(pc[p], mem[p])
      /\ mem[p].results \subseteq Results /\ mem[p].story \in Stories \union {None}
      /\ plan \in Stories \union {None}
  BY DEF IInv, TypeOK, Memory
<1>b. Computing \subseteq Steps /\ "ok" \in Exits
  BY DEF Steps, Exits, Computing
<1>c. pc[p] \in Computing
  BY DEF LoadStoryReference, WriteOutcome, WriteReceipt, StageUpdated, CommitUpdated, At, Computing
<1>d. Follows(mem[p].updated)
  BY <1>a, <1>c DEF Holds
<1>e. \A step \in Computing \ {"reference"} : Holds(step, mem[p])
  BY <1>a, <1>d DEF Holds, Computing
<1>1. CASE LoadStoryReference(p)
  <2> DEFINE u == [mem[p].updated EXCEPT !.story = plan]
             m == [mem[p] EXCEPT !.story = plan, !.updated = u]
  <2>1. Follows(u)
    BY <1>a, <1>d, FollowsWith
  <2>2. Goto(p, "outcome", m)
    BY <1>1, <1>a DEF LoadStoryReference, Memory
  <2>3. mem[p].op \in {"bridge", "ingest"}
    BY <1>1, <1>a DEF LoadStoryReference, At, Holds
  <2> HIDE DEF u
  <2>4. m \in Memory
    BY <1>a, <2>1 DEF Memory, Follows
  <2>5. m.updated = u /\ m.op = mem[p].op
    BY <1>a DEF Memory
  <2> HIDE DEF m
  <2>6. Holds("outcome", m)
    BY <2>1, <2>3, <2>5 DEF Holds, BacklogOps
  <2> QED BY <1>1, <1>b, <2>2, <2>4, <2>6, GotoHolds, ArtifactsKept
          DEF LoadStoryReference, Computing
<1>2. CASE WriteOutcome(p)
  <2>1. /\ pc' \in [Procs -> Steps] /\ mem' \in [Procs -> Memory] /\ exit' \in [Procs -> Exits]
        /\ \A q \in Procs : Holds(pc'[q], mem'[q])
    BY <1>2, <1>a, <1>b, <1>e, GotoHolds DEF WriteOutcome, Computing
  <2>2. outcome' \in Outcome
    BY <1>2, <1>a DEF WriteOutcome, Outcome
  <2> QED BY <1>2, <2>1, <2>2 DEF WriteOutcome, IInv, TypeOK, backlogVars, planVars, bounds
<1>3. CASE WriteReceipt(p)
  <2>1. /\ pc' \in [Procs -> Steps] /\ mem' \in [Procs -> Memory] /\ exit' \in [Procs -> Exits]
        /\ \A q \in Procs : Holds(pc'[q], mem'[q])
    BY <1>3, <1>a, <1>b, <1>e, GotoHolds DEF WriteReceipt, Computing
  <2> QED BY <1>3, <2>1 DEF WriteReceipt, IInv, TypeOK, backlogVars, planVars, bounds
<1>4. CASE StageUpdated(p)
  <2>1. /\ pc' \in [Procs -> Steps] /\ mem' \in [Procs -> Memory] /\ exit' \in [Procs -> Exits]
        /\ \A q \in Procs : Holds(pc'[q], mem'[q])
    BY <1>4, <1>a, <1>b, <1>e, GotoHolds DEF StageUpdated, Computing
  <2>2. Follows(stagedUpdated') /\ stagedUpdated' \in UpdatedState \union {NoUpdated}
    BY <1>4, <1>a, <1>d, FollowsWith, FollowsIsState DEF StageUpdated
  <2> QED BY <1>4, <2>1, <2>2 DEF StageUpdated, IInv, TypeOK, backlogVars, planVars, bounds
<1>5. CASE CommitUpdated(p)
  <2>1. End(p, "ok") \/ Goto(p, "lifecycle", mem[p])
    BY <1>5 DEF CommitUpdated
  <2>2. /\ pc' \in [Procs -> Steps] /\ mem' \in [Procs -> Memory] /\ exit' \in [Procs -> Exits]
        /\ \A q \in Procs : Holds(pc'[q], mem'[q])
    BY <1>a, <1>b, <1>e, <2>1, GotoHolds, EndHolds DEF Computing
  <2> QED BY <1>5, <2>2 DEF CommitUpdated, IInv, TypeOK, backlogVars, planVars, bounds
<1> QED BY <1>1, <1>2, <1>3, <1>4, <1>5

LEMMA LastInv ==
    ASSUME IInv, NEW p \in Procs,
           PromoteStoryLifecycle(p) \/ ReadForStatusUpdated(p) \/ Replay(p) \/ Crash(p)
    PROVE  IInv'
<1>a. /\ mem[p] \in Memory /\ Holds(pc[p], mem[p]) /\ mem[p].story \in Stories \union {None}
      /\ stories \in Backlog /\ stage \in [Repos -> Stages] /\ outcome \in Outcome
  BY DEF IInv, TypeOK, Memory
<1>b. {"ok", "failure", "matched", "mismatch", "crashed"} \subseteq Exits
  BY DEF Exits
<1>1. CASE PromoteStoryLifecycle(p)
  <2> DEFINE s == mem[p].story
             b == reconcileStoryExecution(stories, s)
  <2>1. \/ End(p, "ok")
        \/ s # None /\ Exists(stories, s) /\ StageNext(p, b, TRUE)
    BY <1>1 DEF PromoteStoryLifecycle
  <2>2. CASE End(p, "ok")
    BY <1>1, <1>b, <2>2, EndHolds, ArtifactsKept DEF PromoteStoryLifecycle
  <2>3. CASE s # None /\ Exists(stories, s) /\ StageNext(p, b, TRUE)
    <3>1. b \in Backlog
      BY <1>a, <2>3, ReconciledType
    <3> QED BY <1>1, <2>3, <3>1, StageNextHolds DEF PromoteStoryLifecycle
  <2> QED BY <2>1, <2>2, <2>3
<1>2. CASE ReadForStatusUpdated(p)
  <2> DEFINE u == Computed(outcome.results)
             m == [mem[p] EXCEPT !.results = outcome.results, !.updated = u]
  <2>1. outcome.results \in SUBSET Results
    BY <1>a DEF Outcome
  <2>2. Follows(u)
    BY <1>a, <2>1, ComputedFollows
  <2>3. Goto(p, "stageUpdated", m) /\ "stageUpdated" \in Steps
    BY <1>2 DEF ReadForStatusUpdated, Steps
  <2> HIDE DEF u
  <2>4. m \in Memory
    BY <1>a, <2>1, <2>2 DEF Memory, Follows
  <2>5. m.updated = u /\ m.op = mem[p].op /\ m.story = mem[p].story /\ m.status = mem[p].status
        /\ m.fp = mem[p].fp
    BY <1>a DEF Memory
  <2> HIDE DEF m
  <2>6. Holds("stageUpdated", m)
    BY <1>a, <2>2, <2>5 DEF Holds
  <2> QED BY <1>2, <2>3, <2>4, <2>6, GotoHolds, ArtifactsKept DEF ReadForStatusUpdated
<1>3. CASE Replay(p)
  <2>1. End(p, "failure") \/ End(p, "matched") \/ End(p, "mismatch")
    BY <1>3 DEF Replay
  <2> QED BY <1>3, <1>b, <2>1, EndHolds, ArtifactsKept DEF Replay
<1>4. CASE Crash(p)
  <2>1. /\ pc' \in [Procs -> Steps] /\ mem' \in [Procs -> Memory] /\ exit' \in [Procs -> Exits]
        /\ \A q \in Procs : Holds(pc'[q], mem'[q])
    BY <1>4, <1>b, EndHolds DEF Crash
  <2>2. crashes' \in 0..MaxCrashes
    BY <1>4, StoryConstants DEF Crash, IInv, TypeOK
  <2> QED BY <1>4, <2>1, <2>2 DEF Crash, IInv, TypeOK, backlogVars, planVars, adoptionVars
<1> QED BY <1>1, <1>2, <1>3, <1>4

LEMMA NextInv == IInv /\ [Next]_vars => IInv'
<1> SUFFICES ASSUME IInv, [Next]_vars PROVE IInv'
  OBVIOUS
<1>1. CASE UNCHANGED vars
  BY <1>1 DEF vars, backlogVars, planVars, adoptionVars, bounds, IInv, TypeOK
<1>2. ASSUME NEW p \in Procs, Step(p) PROVE IInv'
  BY <1>2, ReadInv, BacklogWriteInv, PlanInv, WorkersInv, ReceiptInv, LastInv DEF Step
<1> QED BY <1>1, <1>2, StartInv, LastInv DEF Next

\* Every story, plan, outcome and updated state keeps the shape its schema gives it, committed,
\* staged and in memory, for any number of overlapping and crashing commands.
THEOREM TypeCorrect == Spec => []TypeOK
<1>1. IInv => TypeOK
  BY DEF IInv
<1> QED BY <1>1, InitInv, NextInv, PTL DEF Spec

\* No result is forgotten between the receipt and the next queue, for any fleet, any set of
\* results, and however `receipt ingest`, the worker bridge and `status updated` overlap.
THEOREM ResultsNeverForgotten == Spec => []NothingForgotten
<1>1. IInv => NothingForgotten
  <2> SUFFICES ASSUME IInv, updated # NoUpdated,
                      NEW r \in Repos \ (needsReview(updated.repos)
                                          \union {q.repo : q \in nextQueue(updated.repos)})
               PROVE  LET b == updated.basis IN
                      /\ promptsOf(b.stage, r) # {}
                      /\ LET top == topPrompt(b.stage, r)
                         IN  observedTo(b.stage, b.results, top) = top.to
                      /\ \A pr \in promptsOf(b.stage, r) :
                            comparePromptOutcome(b.stage, b.results, pr) \in {"success", "not_run"}
    BY DEF NothingForgotten
  <2>1. /\ updated.repos \in [Repos -> Reconciliations]
        /\ updated.basis.results \in SUBSET Results
        /\ updated.repos = reconcile(updated.basis.stage, updated.basis.results)
    BY DEF IInv, Follows, UpdatedState
  <2>2. r \notin needsReview(updated.repos) /\ r \notin needsRetry(updated.repos)
    <3>1. r \in needsRetry(updated.repos) =>
             [repo |-> r, action |-> "retry"] \in nextQueue(updated.repos)
      BY DEF nextQueue
    <3>2. [repo |-> r, action |-> "retry"].repo = r
      OBVIOUS
    <3> QED BY <3>1, <3>2
  <2>3. updated.repos[r] = "completed_as_planned"
    BY <2>1, <2>2 DEF needsReview, needsRetry, Reconciliations
  <2>4. determineReconciliationStatus(updated.basis.stage, updated.basis.results, r)
          = "completed_as_planned"
    BY <2>1, <2>3 DEF reconcile
  <2> QED BY <2>1, <2>4, CompletedAsPlanned
<1> QED BY <1>1, InitInv, NextInv, PTL DEF Spec

-----------------------------------------------------------------------------
(* Commands one after the other. *)

\* No two commands run at the same time.  The staged paths are shared and nothing locks them, so
\* two commands that overlap may commit each other's backlog: the rest needs this.
Sole == \A p, q \in Procs : p = q

\* Every state of the backlog b has a cause: what operators set, what was planned and what was
\* completed.
Caused(b, set, plans, receipts) ==
    \A s \in Stories :
        /\ b[s].status = "done" => <<s, "done">> \in set \/ s \in receipts
        /\ Exists(b, s) /\ b[s].recon = "completed" => s \in receipts
        /\ b[s].status = "in_progress" => <<s, "in_progress">> \in set \/ s \in plans

\* What operators will have set once the command with memory m commits.
Declared(m, set) == IF m.op = "status" THEN set \union {<<m.story, m.status>>} ELSE set

\* The closed stories of b are still closed in the backlog a command proposes.
Keeps(b, m) ==
    \A s \in Stories :
        /\ b[s].status \in {"done", "archived"} /\ m.backlog[s].status # b[s].status
        => m.op = "status" /\ m.story = s

Completes(u) == \A r \in Repos : u.repos[r] = "completed_as_planned"

\* What the command of p remembers is still true, and what it is about to commit has a cause.
Intends(p) ==
    /\ At(p, "candidates") \/ (pc[p] \in {"stagePlan", "commitPlan"} /\ mem[p].story # None)
         => mem[p].backlog = stories
    /\ At(p, "commitPlan") => stagedPlan = mem[p].story
    /\ pc[p] \in {"stage", "commit"} /\ mem[p].valid =>
         /\ Caused(mem[p].backlog, Declared(mem[p], setByOperator), planned, completed)
         /\ Keeps(stories, mem[p])
    /\ At(p, "commit") => mem[p].valid /\ staged[stagedPathOf(mem[p].op)] = mem[p].backlog
    /\ At(p, "readStatus") => mem[p].story = None
    /\ pc[p] \in Computing \ {"reference"} => mem[p].updated.story = mem[p].story
    /\ At(p, "commitUpdated") => stagedUpdated = [mem[p].updated EXCEPT !.keys = "sorted"]
    /\ At(p, "lifecycle") /\ mem[p].story # None /\ Completes(mem[p].updated)
         => mem[p].story \in completed

CInv ==
    /\ Caused(stories, setByOperator, planned, completed)
    /\ \A p \in Procs : Intends(p)

\* The steps at which a command proposes nothing yet and remembers nothing that can go stale.
Quiet == {"idle", "read", "logRead", "logWrite", "dispatch", "work", "build", "reference",
         "replayRead"}

LEMMA Moved ==
    ASSUME IInv, NEW p \in Procs, NEW step, NEW m
    PROVE  /\ Goto(p, step, m) => pc'[p] = step /\ mem'[p] = m
           /\ \A result : End(p, result) => pc'[p] = "idle"
BY DEF Goto, End, IInv, TypeOK

\* At most steps a command intends nothing yet.
LEMMA NothingIntended ==
    ASSUME NEW p \in Procs, pc'[p] \in Quiet
    PROVE  Intends(p)'
BY DEF Intends, Quiet, At, Computing

LEMMA CausedMore ==
    ASSUME NEW b, NEW set, NEW plans, NEW receipts, Caused(b, set, plans, receipts),
           NEW set2, NEW plans2, NEW receipts2,
           set \subseteq set2, plans \subseteq plans2, receipts \subseteq receipts2
    PROVE  Caused(b, set2, plans2, receipts2)
BY DEF Caused

\* A step to one at which nothing is intended yet.
LEMMA Harmless ==
    ASSUME Sole, CInv, NEW p \in Procs, pc'[p] \in Quiet, stories' = stories,
           setByOperator \subseteq setByOperator', planned \subseteq planned',
           completed \subseteq completed'
    PROVE  CInv'
<1>1. Caused(stories', setByOperator', planned', completed')
  BY CausedMore DEF CInv
<1>2. \A q \in Procs : Intends(q)'
  BY NothingIntended DEF Sole
<1> QED BY <1>1, <1>2 DEF CInv

\* A command stages a backlog whose every change from the committed one has a cause.
LEMMA Proposes ==
    ASSUME Sole, IInv, CInv, NEW p \in Procs, NEW b \in Backlog, NEW valid \in BOOLEAN, NEW m,
           m \in Memory, m.backlog = b, m.valid = valid, Goto(p, "stage", m),
           valid => Caused(b, Declared(m, setByOperator), planned', completed),
           valid => Keeps(stories, m),
           stories' = stories, setByOperator' = setByOperator, planned \subseteq planned',
           completed' = completed
    PROVE  CInv'
<1>1. Caused(stories', setByOperator', planned', completed')
  BY CausedMore DEF CInv
<1>2. pc'[p] = "stage" /\ mem'[p] = m
  BY Moved
<1>3. Intends(p)'
  BY <1>2 DEF Intends, At, Computing
<1>4. \A q \in Procs : Intends(q)'
  BY <1>3 DEF Sole
<1> QED BY <1>1, <1>4 DEF CInv

LEMMA StageNextProposes ==
    ASSUME Sole, IInv, CInv, NEW p \in Procs, NEW b \in Backlog, NEW valid \in BOOLEAN,
           StageNext(p, b, valid),
           valid => Caused(b, Declared(mem[p], setByOperator), planned', completed),
           valid => \A s \in Stories :
                      /\ stories[s].status \in {"done", "archived"} /\ b[s].status # stories[s].status
                      => mem[p].op = "status" /\ mem[p].story = s,
           stories' = stories, setByOperator' = setByOperator, planned \subseteq planned',
           completed' = completed
    PROVE  CInv'
<1> DEFINE m == [mem[p] EXCEPT !.backlog = b, !.valid = valid]
<1>0. mem[p] \in Memory
  BY DEF IInv, TypeOK
<1>1. m \in Memory /\ m.backlog = b /\ m.valid = valid /\ m.op = mem[p].op
      /\ m.story = mem[p].story /\ m.status = mem[p].status
  BY <1>0 DEF Memory
<1>2. Goto(p, "stage", m)
  BY DEF StageNext
<1> HIDE DEF m
<1>3. Declared(m, setByOperator) = Declared(mem[p], setByOperator)
  BY <1>1 DEF Declared
<1>4. valid => Keeps(stories, m)
  BY <1>1 DEF Keeps
<1> QED BY <1>1, <1>2, <1>3, <1>4, Proposes

-----------------------------------------------------------------------------
(* What each command proposes. *)

\* A story that is new in b is proposed: it needs no cause and closes or reopens nothing.
LEMMA CausedNew ==
    ASSUME NEW b \in Backlog, NEW s \in Stories, NEW fp \in Fingerprints \union {None},
           NEW set, NEW plans, NEW receipts, Caused(b, set, plans, receipts)
    PROVE  Caused([b EXCEPT ![s] = NewStory(fp)], set, plans, receipts)
BY DEF Caused, Backlog, NewStory, Exists

LEMMA CausedStatus ==
    ASSUME NEW b \in Backlog, NEW s \in Stories, Exists(b, s), NEW st \in Statuses,
           NEW set, NEW plans, NEW receipts, Caused(b, set, plans, receipts)
    PROVE  Caused([b EXCEPT ![s].status = st], set \union {<<s, st>>}, plans, receipts)
<1> DEFINE c == [b EXCEPT ![s].status = st]
<1>0. b[s] \in Story
  BY DEF Exists, Backlog
<1>1. c[s].status = st /\ c[s].recon = b[s].recon
  BY <1>0 DEF Backlog, Story
<1>2. \A t \in Stories : t # s => c[t] = b[t]
  BY DEF Backlog
<1> HIDE DEF c
<1>3. ASSUME NEW t \in Stories
      PROVE  /\ c[t].status = "done" => <<t, "done">> \in set \union {<<s, st>>} \/ t \in receipts
             /\ Exists(c, t) /\ c[t].recon = "completed" => t \in receipts
             /\ c[t].status = "in_progress" =>
                  <<t, "in_progress">> \in set \union {<<s, st>>} \/ t \in plans
  BY <1>1, <1>2 DEF Caused, Exists
<1> QED BY <1>3 DEF Caused, c

\* Linking a ready story to a plan that refers to it.
LEMMA CausedLink ==
    ASSUME NEW b \in Backlog, NEW s \in Stories, statusWhenPlanned(b[s]) # "unchanged",
           NEW set, NEW plans, NEW receipts, Caused(b, set, plans, receipts), s \in plans
    PROVE  /\ Caused(linkStoryToPlan(b, s), set, plans, receipts)
           /\ b[s].status = "ready"
           /\ \A t \in Stories : t # s => linkStoryToPlan(b, s)[t] = b[t]
<1> DEFINE c == linkStoryToPlan(b, s)
<1>0. b[s] \in Story /\ b[s].status = "ready"
  BY DEF statusWhenPlanned, Backlog, Absent
<1>1. c[s].status = "in_progress" /\ c[s].recon = "in_progress"
  BY <1>0 DEF linkStoryToPlan, statusWhenPlanned, Backlog, Story
<1>2. \A t \in Stories : t # s => c[t] = b[t]
  BY DEF linkStoryToPlan, Backlog
<1> HIDE DEF c
<1>3. Caused(c, set, plans, receipts)
  BY <1>1, <1>2 DEF Caused, Exists
<1> QED BY <1>0, <1>2, <1>3 DEF c

\* Reconciling a story with a completed receipt.
LEMMA CausedReconciled ==
    ASSUME NEW b \in Backlog, NEW s \in Stories, Exists(b, s),
           NEW set, NEW plans, NEW receipts, Caused(b, set, plans, receipts), s \in receipts
    PROVE  /\ Caused(reconcileStoryExecution(b, s), set, plans, receipts)
           /\ \A t \in Stories :
                 b[t].status \in {"done", "archived"} =>
                   reconcileStoryExecution(b, s)[t].status = b[t].status
<1> DEFINE st == statusWhenCompleted(b[s])
           c  == [b EXCEPT ![s].status = st, ![s].recon = "completed", ![s].receipted = TRUE]
<1>0. b[s] \in Story
  BY DEF Exists, Backlog
<1>a. /\ st = "done" \/ st = b[s].status
      /\ b[s].status \in {"done", "archived"} => st = b[s].status
  BY DEF statusWhenCompleted
<1> HIDE DEF st
<1>1. c[s].status = st /\ c[s].recon = "completed"
  BY <1>0 DEF Backlog, Story
<1>2. \A t \in Stories : t # s => c[t] = b[t]
  BY DEF Backlog
<1>b. reconcileStoryExecution(b, s) = b \/ reconcileStoryExecution(b, s) = c
  BY DEF reconcileStoryExecution, st
<1> HIDE DEF c
<1>3. Caused(c, set, plans, receipts)
  BY <1>a, <1>1, <1>2 DEF Caused, Exists
<1>4. \A t \in Stories : b[t].status \in {"done", "archived"} => c[t].status = b[t].status
  BY <1>a, <1>1, <1>2
<1> QED BY <1>b, <1>3, <1>4

LEMMA ReadCaused ==
    ASSUME Sole, IInv, CInv, NEW p \in Procs,
           \/ ReadToCreate(p) \/ ReadToSetStatus(p) \/ ReadToPromoteCandidate(p)
           \/ GenerateCandidates(p) \/ ReadToPromoteStory(p) \/ ReadToRoute(p)
    PROVE  CInv'
<1>a. /\ mem[p] \in Memory /\ Holds(pc[p], mem[p]) /\ stories \in Backlog
      /\ mem[p].backlog \in Backlog /\ mem[p].valid \in BOOLEAN
  BY DEF IInv, TypeOK, Memory
<1>b. Caused(stories, setByOperator, planned, completed) /\ Intends(p)
  BY DEF CInv
<1>c. /\ stories' = stories /\ setByOperator' = setByOperator /\ planned' = planned
      /\ completed' = completed
  BY DEF ReadToCreate, ReadToSetStatus, ReadToPromoteCandidate, GenerateCandidates,
         ReadToPromoteStory, ReadToRoute, backlogVars, history
<1>d. Caused(stories, Declared(mem[p], setByOperator), planned, completed)
  BY <1>b, CausedMore DEF Declared
<1>e. \A b \in Backlog, s \in Stories, fp \in Fingerprints \union {None} :
         [b EXCEPT ![s] = NewStory(fp)] \in Backlog
  BY NewStoryType DEF Backlog
\* A record put where the backlog had none leaves every closed story alone.
<1>f. \A s \in Stories, fp \in Fingerprints \union {None}, t \in Stories :
         ~Exists(stories, s) /\ stories[t].status \in {"done", "archived"} =>
           [stories EXCEPT ![s] = NewStory(fp)][t].status = stories[t].status
  BY <1>a DEF Backlog, Exists, Absent
<1>1. CASE ReadToCreate(p)
  <2> DEFINE b     == [stories EXCEPT ![mem[p].story] = NewStory(None)]
             valid == ~Exists(stories, mem[p].story)
  <2>1. mem[p].story \in Stories
    BY <1>1, <1>a DEF ReadToCreate, Holds, BacklogOps
  <2>2. b \in Backlog /\ valid \in BOOLEAN /\ StageNext(p, b, valid)
    BY <1>1, <1>a, <1>e, <2>1 DEF ReadToCreate
  <2>3. Caused(b, Declared(mem[p], setByOperator), planned', completed)
    BY <1>a, <1>c, <1>d, <2>1, CausedNew
  <2>4. valid => \A t \in Stories :
                   stories[t].status \in {"done", "archived"} => b[t].status = stories[t].status
    BY <1>f, <2>1
  <2> HIDE DEF b, valid
  <2> QED BY <1>c, <2>2, <2>3, <2>4, StageNextProposes
<1>2. CASE ReadToSetStatus(p)
  <2> DEFINE s == mem[p].story
             b == [stories EXCEPT ![s].status = mem[p].status]
  <2>1. s \in Stories /\ mem[p].status \in Statuses /\ mem[p].op = "status"
    BY <1>2, <1>a DEF ReadToSetStatus, Holds, BacklogOps
  <2>2. CASE Exists(stories, s) /\ StageNext(p, b, TRUE)
    <3>1. stories[s] \in Story
      BY <1>a, <2>1, <2>2 DEF Backlog, Exists
    <3>2. [stories[s] EXCEPT !.status = mem[p].status] \in Story
      BY <2>1, <3>1 DEF Story
    <3>3. b \in Backlog
      BY <1>a, <2>1, <3>2 DEF Backlog
    <3>4. Caused(b, Declared(mem[p], setByOperator), planned', completed)
      BY <1>a, <1>b, <1>c, <2>1, <2>2, CausedStatus DEF Declared
    <3>5. \A t \in Stories : b[t].status # stories[t].status => t = s
      BY <1>a DEF Backlog
    <3> HIDE DEF b
    <3> QED BY <1>c, <2>1, <2>2, <3>3, <3>4, <3>5, StageNextProposes
  <2>3. CASE StageNext(p, stories, FALSE)
    BY <1>a, <1>c, <2>3, StageNextProposes
  <2> QED BY <1>2, <2>2, <2>3 DEF ReadToSetStatus
<1>3. CASE ReadToPromoteCandidate(p)
  <2> DEFINE m == [mem[p] EXCEPT !.backlog = stories]
  <2>1. m.backlog = stories
    BY <1>a DEF Memory
  <2>2. pc'[p] = "candidates" /\ mem'[p] = m
    BY <1>3, Moved DEF ReadToPromoteCandidate
  <2> HIDE DEF m
  <2>3. Intends(p)'
    BY <1>c, <2>1, <2>2 DEF Intends, At, Computing
  <2>4. \A q \in Procs : Intends(q)'
    BY <2>3 DEF Sole
  <2> QED BY <1>b, <1>c, <2>4 DEF CInv
<1>4. CASE GenerateCandidates(p)
  <2> DEFINE s == mem[p].story
             b == [stories EXCEPT ![s] = NewStory(None)]
  <2>1. s \in Stories /\ mem[p].backlog = stories
    BY <1>4, <1>a, <1>b DEF GenerateCandidates, At, Holds, BacklogOps, Intends
  <2>2. \/ ~Exists(stories, s) /\ StageNext(p, b, TRUE)
        \/ StageNext(p, stories, FALSE)
    BY <1>4, <2>1 DEF GenerateCandidates
  <2>3. b \in Backlog
    BY <1>a, <1>e, <2>1
  <2>4. Caused(b, Declared(mem[p], setByOperator), planned', completed)
    BY <1>a, <1>c, <1>d, <2>1, CausedNew
  <2>5. ~Exists(stories, s) => \A t \in Stories :
           stories[t].status \in {"done", "archived"} => b[t].status = stories[t].status
    BY <1>f, <2>1
  <2> HIDE DEF b
  <2> QED BY <1>a, <1>c, <2>2, <2>3, <2>4, <2>5, StageNextProposes
<1>5. CASE ReadToPromoteStory(p)
  <2> DEFINE s     == mem[p].story
             check == withStoryConflictCheck(stories, s, mem[p].fp)
             b     == IF check = "promoted" THEN [stories EXCEPT ![s] = NewStory(mem[p].fp)]
                      ELSE stories
             m     == [mem[p] EXCEPT !.outcome = check, !.backlog = b]
  <2>1. s \in Stories /\ mem[p].fp \in Fingerprints
    BY <1>5, <1>a DEF ReadToPromoteStory, Holds, BacklogOps
  <2>2. /\ check \in {"promoted", "noop", "conflict"}
        /\ check = "promoted" => ~Exists(stories, s)
    BY DEF withStoryConflictCheck
  <2>3. b \in Backlog
    BY <1>a, <1>e, <2>1
  <2>4. Caused(b, Declared(mem[p], setByOperator), planned', completed)
    BY <1>a, <1>c, <1>d, <2>1, CausedNew
  <2>5. \A t \in Stories :
           stories[t].status \in {"done", "archived"} => b[t].status = stories[t].status
    BY <1>f, <2>1, <2>2
  <2>6. Goto(p, "stage", m)
    BY <1>5 DEF ReadToPromoteStory
  <2> HIDE DEF check, b
  <2>7. /\ m \in Memory /\ m.backlog = b /\ m.valid = mem[p].valid /\ m.op = mem[p].op
        /\ m.story = mem[p].story /\ m.status = mem[p].status
    BY <1>a, <2>2, <2>3 DEF Memory
  <2> HIDE DEF m
  <2>8. Declared(m, setByOperator) = Declared(mem[p], setByOperator) /\ Keeps(stories, m)
    BY <2>5, <2>7 DEF Declared, Keeps
  <2> QED BY <1>a, <1>c, <2>3, <2>4, <2>6, <2>7, <2>8, Proposes
<1>6. CASE ReadToRoute(p)
  <2> DEFINE m == [mem[p] EXCEPT !.backlog = stories]
  <2>1. m.backlog = stories
    BY <1>a DEF Memory
  <2>2. CASE pc'[p] = "stagePlan" /\ mem'[p] = m
    <3> HIDE DEF m
    <3>1. Intends(p)'
      BY <1>c, <2>1, <2>2 DEF Intends, At, Computing
    <3>2. \A q \in Procs : Intends(q)'
      BY <3>1 DEF Sole
    <3> QED BY <1>b, <1>c, <3>2 DEF CInv
  <2>3. CASE pc'[p] = "idle"
    BY <1>c, <2>3, Harmless DEF Quiet
  <2> QED BY <1>6, <2>2, <2>3, Moved DEF ReadToRoute
<1> QED BY <1>1, <1>2, <1>3, <1>4, <1>5, <1>6

LEMMA WriteCaused ==
    ASSUME Sole, IInv, CInv, NEW p \in Procs,
           StageStories(p) \/ CommitStories(p) \/ ReadLog(p) \/ WriteLog(p)
    PROVE  CInv'
<1>a. /\ mem[p] \in Memory /\ staged \in [StagedPaths -> Backlog]
      /\ stagedPathOf(mem[p].op) \in StagedPaths
  BY DEF IInv, TypeOK, stagedPathOf, StagedPaths
<1>b. Caused(stories, setByOperator, planned, completed) /\ Intends(p)
  BY DEF CInv
<1>1. CASE StageStories(p)
  <2>1. /\ stories' = stories /\ setByOperator' = setByOperator /\ planned' = planned
        /\ completed' = completed
        /\ staged' = [staged EXCEPT ![stagedPathOf(mem[p].op)] = mem[p].backlog]
        /\ pc[p] = "stage"
    BY <1>1 DEF StageStories, history, At
  <2>2. CASE mem[p].valid /\ pc'[p] = "commit" /\ mem'[p] = mem[p]
    <3>1. staged'[stagedPathOf(mem[p].op)] = mem[p].backlog
      BY <1>a, <2>1
    <3>2. Intends(p)'
      BY <1>b, <2>1, <2>2, <3>1 DEF Intends, At, Computing
    <3>3. \A q \in Procs : Intends(q)'
      BY <3>2 DEF Sole
    <3> QED BY <1>b, <2>1, <3>3 DEF CInv
  <2>3. CASE pc'[p] = "idle"
    BY <2>1, <2>3, Harmless DEF Quiet
  <2> QED BY <1>1, <2>2, <2>3, Moved DEF StageStories
<1>2. CASE CommitStories(p)
  <2>1. /\ stories' = mem[p].backlog /\ setByOperator' = Declared(mem[p], setByOperator)
        /\ planned' = planned /\ completed' = completed /\ pc[p] = "commit" /\ mem[p].valid
    BY <1>2, <1>b DEF CommitStories, Intends, At, Declared
  <2>2. pc'[p] \in Quiet
    BY <1>2, Moved DEF CommitStories, Quiet
  <2>3. Caused(stories', setByOperator', planned', completed')
    BY <1>b, <2>1 DEF Intends
  <2>4. \A q \in Procs : Intends(q)'
    BY <2>2, NothingIntended DEF Sole
  <2> QED BY <2>3, <2>4 DEF CInv
<1>3. CASE ReadLog(p)
  BY <1>3, Moved, Harmless DEF ReadLog, Quiet, backlogVars, history
<1>4. CASE WriteLog(p)
  BY <1>4, Moved, Harmless DEF WriteLog, Quiet, history
<1> QED BY <1>1, <1>2, <1>3, <1>4

LEMMA PlanCaused ==
    ASSUME Sole, IInv, CInv, NEW p \in Procs, StagePlan(p) \/ CommitPlan(p)
    PROVE  CInv'
<1>a. /\ mem[p] \in Memory /\ stories \in Backlog /\ mem[p].story \in Stories \union {None}
  BY DEF IInv, TypeOK, Memory
<1>b. Caused(stories, setByOperator, planned, completed) /\ Intends(p)
  BY DEF CInv
<1>c. stories' = stories /\ setByOperator' = setByOperator /\ completed' = completed
  BY DEF StagePlan, CommitPlan, backlogVars, history
<1>1. CASE StagePlan(p)
  <2>1. /\ pc'[p] = "commitPlan" /\ mem'[p] = mem[p] /\ pc[p] = "stagePlan"
        /\ stagedPlan' = mem[p].story /\ planned' = planned
    BY <1>1, Moved DEF StagePlan, At, history
  <2>2. Intends(p)'
    BY <1>b, <1>c, <2>1 DEF Intends, At, Computing
  <2>3. \A q \in Procs : Intends(q)'
    BY <2>2 DEF Sole
  <2> QED BY <1>b, <1>c, <2>1, <2>3 DEF CInv
<1>2. CASE CommitPlan(p)
  <2> DEFINE s == mem[p].story
             b == linkStoryToPlan(mem[p].backlog, s)
  <2>1. planned' = planned \union ({s} \ {None}) /\ (s # None => mem[p].backlog = stories)
    BY <1>2, <1>b DEF CommitPlan, Intends, At
  <2>2. CASE s # None /\ statusWhenPlanned(mem[p].backlog[s]) # "unchanged" /\ StageNext(p, b, TRUE)
    <3>1. s \in Stories /\ s \in planned' /\ mem[p].backlog = stories
      BY <1>a, <2>1, <2>2
    <3>2. b \in Backlog
      BY <1>a, <2>2, <3>1, LinkType
    <3>3. Caused(stories, Declared(mem[p], setByOperator), planned', completed)
      BY <1>b, <2>1, CausedMore DEF Declared
    <3>4. /\ Caused(b, Declared(mem[p], setByOperator), planned', completed)
          /\ stories[s].status = "ready"
          /\ \A t \in Stories : t # s => b[t] = stories[t]
      BY <1>a, <2>2, <3>1, <3>3, CausedLink
    <3> HIDE DEF b
    <3> QED BY <1>c, <2>1, <2>2, <3>2, <3>4, StageNextProposes
  <2>3. CASE End(p, "ok")
    BY <1>c, <2>1, <2>3, Moved, Harmless DEF Quiet
  <2> QED BY <1>2, <2>2, <2>3 DEF CommitPlan
<1> QED BY <1>1, <1>2

LEMMA WorkersCaused ==
    ASSUME Sole, IInv, CInv, NEW p \in Procs,
           \/ Dispatch(p) \/ Work(p) \/ HandIn(p) \/ AdapterFails(p)
           \/ BuildExecutionControlLoop(p) \/ Replay(p) \/ Crash(p)
    PROVE  CInv'
<1>1. /\ stories' = stories /\ setByOperator' = setByOperator /\ planned' = planned
      /\ completed' = completed
  BY DEF Dispatch, Work, HandIn, AdapterFails, BuildExecutionControlLoop, Replay, Crash,
         backlogVars, history
<1>2. pc'[p] \in Quiet
  BY Moved DEF Dispatch, Work, HandIn, AdapterFails, BuildExecutionControlLoop, Replay, Crash, Quiet
<1> QED BY <1>1, <1>2, Harmless

\* The updated state that is committed is the one computed for the story of the plan, so a
\* completed one is behind the story before the story is closed.
LEMMA ReceiptCaused ==
    ASSUME Sole, IInv, CInv, NEW p \in Procs,
           \/ LoadStoryReference(p) \/ WriteOutcome(p) \/ WriteReceipt(p)
           \/ StageUpdated(p) \/ CommitUpdated(p) \/ ReadForStatusUpdated(p)
    PROVE  CInv'
<1>a. mem[p] \in Memory /\ Holds(pc[p], mem[p])
  BY DEF IInv, TypeOK
<1>b. Caused(stories, setByOperator, planned, completed) /\ Intends(p)
  BY DEF CInv
<1>c. stories' = stories /\ setByOperator' = setByOperator /\ planned' = planned
  BY DEF LoadStoryReference, WriteOutcome, WriteReceipt, StageUpdated, CommitUpdated,
         ReadForStatusUpdated, backlogVars, history
<1>d. ~CommitUpdated(p) => completed' = completed
  BY DEF LoadStoryReference, WriteOutcome, WriteReceipt, StageUpdated, ReadForStatusUpdated, history
<1>e. pc[p] \in Computing => mem[p].updated \in UpdatedState
  BY <1>a DEF Holds, Follows
<1>1. ASSUME Intends(p)', completed \subseteq completed' PROVE CInv'
  <2>1. Caused(stories', setByOperator', planned', completed')
    BY <1>b, <1>c, <1>1, CausedMore
  <2>2. \A q \in Procs : Intends(q)'
    BY <1>1 DEF Sole
  <2> QED BY <2>1, <2>2 DEF CInv
<1>2. CASE LoadStoryReference(p)
  <2> DEFINE m == [mem[p] EXCEPT !.story = plan, !.updated.story = plan]
  <2>1. pc'[p] = "outcome" /\ mem'[p] = m
    BY <1>2, Moved DEF LoadStoryReference
  <2>2. mem[p].updated \in UpdatedState
    BY <1>2, <1>e DEF LoadStoryReference, At, Computing
  <2>3. m.updated = [mem[p].updated EXCEPT !.story = plan] /\ m.story = plan
    BY <1>a DEF Memory
  <2> HIDE DEF m
  <2>4. m.updated.story = m.story
    BY <2>2, <2>3 DEF UpdatedState
  <2>5. Intends(p)'
    BY <2>1, <2>4 DEF Intends, At
  <2> QED BY <1>1, <1>2, <1>d, <2>1, <2>5 DEF CommitUpdated, At, LoadStoryReference
<1>3. CASE WriteOutcome(p)
  <2>1. pc'[p] = "receipt" /\ mem'[p] = mem[p] /\ pc[p] = "outcome"
    BY <1>3, Moved DEF WriteOutcome, At
  <2>2. Intends(p)'
    BY <1>b, <2>1 DEF Intends, At, Computing
  <2> QED BY <1>1, <1>d, <2>1, <2>2 DEF CommitUpdated, At
<1>4. CASE WriteReceipt(p)
  <2>1. pc'[p] = "stageUpdated" /\ mem'[p] = mem[p] /\ pc[p] = "receipt"
    BY <1>4, Moved DEF WriteReceipt, At
  <2>2. Intends(p)'
    BY <1>b, <2>1 DEF Intends, At, Computing
  <2> QED BY <1>1, <1>d, <2>1, <2>2 DEF CommitUpdated, At
<1>5. CASE StageUpdated(p)
  <2>1. /\ pc'[p] = "commitUpdated" /\ mem'[p] = mem[p] /\ pc[p] = "stageUpdated"
        /\ stagedUpdated' = [mem[p].updated EXCEPT !.keys = "sorted"]
    BY <1>5, Moved DEF StageUpdated, At
  <2>2. Intends(p)'
    BY <1>b, <2>1 DEF Intends, At, Computing
  <2> QED BY <1>1, <1>d, <2>1, <2>2 DEF CommitUpdated, At
<1>6. CASE CommitUpdated(p)
  <2> DEFINE u == mem[p].updated
  <2>1. /\ u \in UpdatedState /\ u.story = mem[p].story /\ pc[p] = "commitUpdated"
        /\ stagedUpdated = [u EXCEPT !.keys = "sorted"]
    BY <1>6, <1>b, <1>e DEF CommitUpdated, Intends, At, Computing
  <2>2. stagedUpdated.story = mem[p].story /\ stagedUpdated.repos = u.repos
    BY <2>1 DEF UpdatedState
  <2>3. /\ completed \subseteq completed'
        /\ mem[p].story # None /\ Completes(u) => mem[p].story \in completed'
    BY <1>6, <2>2 DEF CommitUpdated, Completes
  <2>4. CASE pc'[p] = "lifecycle" /\ mem'[p] = mem[p]
    <3>1. Intends(p)'
      BY <2>1, <2>3, <2>4 DEF Intends, At, Computing, Completes
    <3> QED BY <1>1, <2>3, <3>1
  <2>5. CASE pc'[p] = "idle"
    BY <1>c, <2>3, <2>5, Harmless DEF Quiet
  <2> QED BY <1>6, <2>4, <2>5, Moved DEF CommitUpdated
<1>7. CASE ReadForStatusUpdated(p)
  <2> DEFINE u == Computed(outcome.results)
             m == [mem[p] EXCEPT !.results = outcome.results, !.updated = u]
  <2>1. pc'[p] = "stageUpdated" /\ mem'[p] = m /\ pc[p] = "readStatus"
    BY <1>7, Moved DEF ReadForStatusUpdated, At
  <2>2. u.story = None
    BY DEF Computed
  <2> HIDE DEF u
  <2>3. m.updated = u /\ m.story = mem[p].story /\ mem[p].story = None
    BY <1>a, <1>b, <2>1 DEF Memory, Intends, At
  <2> HIDE DEF m
  <2>4. Intends(p)'
    BY <2>1, <2>2, <2>3 DEF Intends, At, Computing
  <2> QED BY <1>1, <1>d, <2>1, <2>4 DEF CommitUpdated, At
<1> QED BY <1>2, <1>3, <1>4, <1>5, <1>6, <1>7

LEMMA LifecycleCaused ==
    ASSUME Sole, IInv, CInv, NEW p \in Procs, PromoteStoryLifecycle(p)
    PROVE  CInv'
<1> DEFINE s == mem[p].story
           b == reconcileStoryExecution(stories, s)
<1>a. /\ mem[p] \in Memory /\ Holds(pc[p], mem[p]) /\ stories \in Backlog
      /\ s \in Stories \union {None} /\ pc[p] = "lifecycle"
  BY DEF IInv, TypeOK, Memory, PromoteStoryLifecycle, At
<1>b. Caused(stories, setByOperator, planned, completed) /\ Intends(p)
  BY DEF CInv
<1>c. /\ stories' = stories /\ setByOperator' = setByOperator /\ planned' = planned
      /\ completed' = completed
  BY DEF PromoteStoryLifecycle, backlogVars, history
<1>d. mem[p].updated.repos \in [Repos -> Reconciliations]
  BY <1>a DEF Holds, Computing, Follows, UpdatedState
<1>1. CASE /\ s # None /\ Exists(stories, s) /\ receiptCompleted(mem[p].updated.repos)
           /\ StageNext(p, b, TRUE)
  <2>1. s \in Stories /\ s \in completed
    BY <1>1, <1>a, <1>b, <1>d, ReceiptMeansAll DEF Intends, At, Completes
  <2>2. b \in Backlog
    BY <1>1, <1>a, <2>1, ReconciledType
  <2>3. Caused(stories, Declared(mem[p], setByOperator), planned', completed)
    BY <1>b, <1>c, CausedMore DEF Declared
  <2>4. /\ Caused(b, Declared(mem[p], setByOperator), planned', completed)
        /\ \A t \in Stories :
              stories[t].status \in {"done", "archived"} => b[t].status = stories[t].status
    BY <1>1, <1>a, <2>1, <2>3, CausedReconciled
  <2> HIDE DEF b
  <2> QED BY <1>1, <1>c, <2>2, <2>4, StageNextProposes
<1>2. CASE End(p, "ok")
  BY <1>2, <1>c, Moved, Harmless DEF Quiet
<1> QED BY <1>1, <1>2 DEF PromoteStoryLifecycle

LEMMA StartCaused ==
    ASSUME Sole, IInv, CInv, NEW p \in Procs, Start(p)
    PROVE  CInv'
<1>0. /\ stories' = stories /\ setByOperator' = setByOperator /\ planned' = planned
      /\ completed' = completed
  BY DEF Start, backlogVars, history
<1>1. PICK op \in Commands :
         \E s \in IF op \in BacklogOps THEN Stories ELSE {None},
            st \in IF op = "status" THEN SetStatuses ELSE {"none"},
            fp \in IF op = "promoteStory" THEN Fingerprints ELSE {None} :
           Goto(p, FirstStep(op), [Blank EXCEPT !.op = op, !.story = s, !.status = st, !.fp = fp])
  BY DEF Start, BacklogOps
<1>2. PICK s \in IF op \in BacklogOps THEN Stories ELSE {None},
           st \in IF op = "status" THEN SetStatuses ELSE {"none"},
           fp \in IF op = "promoteStory" THEN Fingerprints ELSE {None} :
         Goto(p, FirstStep(op), [Blank EXCEPT !.op = op, !.story = s, !.status = st, !.fp = fp])
  BY <1>1
<1> DEFINE m == [Blank EXCEPT !.op = op, !.story = s, !.status = st, !.fp = fp]
<1>3. m.story = s /\ (op \notin BacklogOps => s = None)
  BY DEF Blank
<1>4. pc'[p] = FirstStep(op) /\ mem'[p] = m
  BY <1>2, Moved
<1> HIDE DEF m
<1>5. op \in AllCommands
  BY StoryConstants
<1>6. FirstStep(op) \in Quiet \/ (op \notin BacklogOps /\ FirstStep(op) \in {"stagePlan", "readStatus"})
  BY <1>5 DEF FirstStep, AllCommands, Quiet, BacklogOps
<1>7. Intends(p)'
  BY <1>3, <1>4, <1>6, NothingIntended DEF Intends, At, Computing
<1>8. \A q \in Procs : Intends(q)'
  BY <1>7 DEF Sole
<1> QED BY <1>0, <1>8 DEF CInv

LEMMA InitCaused == Init => CInv
<1> SUFFICES ASSUME Init PROVE CInv
  OBVIOUS
<1>1. \A s \in Stories : stories[s] \in {Absent, ReadyStory, ClosedStory}
  BY DEF Init
<1>2. /\ ClosedStory.status = "done" /\ ClosedStory.recon = "completed"
      /\ ReadyStory.status = "ready" /\ ReadyStory.recon = "none" /\ Absent.status = "absent"
  BY DEF ClosedStory, ReadyStory, Absent, NewStory
<1>3. \A s \in Stories : s \in completed <=> stories[s] = ClosedStory
  BY DEF Init
<1>4. Caused(stories, setByOperator, planned, completed)
  BY <1>1, <1>2, <1>3 DEF Caused, Exists
<1>5. \A p \in Procs : Intends(p)
  BY DEF Init, Intends, At, Computing
<1> QED BY <1>4, <1>5 DEF CInv

LEMMA NextCaused == Sole /\ IInv /\ CInv /\ [Next]_vars => CInv'
<1> SUFFICES ASSUME Sole, IInv, CInv, [Next]_vars PROVE CInv'
  OBVIOUS
<1>1. CASE UNCHANGED vars
  <2>1. /\ pc' = pc /\ mem' = mem /\ stories' = stories /\ staged' = staged
        /\ stagedPlan' = stagedPlan /\ stagedUpdated' = stagedUpdated
        /\ setByOperator' = setByOperator /\ planned' = planned /\ completed' = completed
    BY <1>1 DEF vars, backlogVars, planVars, adoptionVars, history
  <2>2. \A p \in Procs : Intends(p)'
    BY <2>1 DEF CInv, Intends, At
  <2> QED BY <2>1, <2>2 DEF CInv
<1>2. ASSUME NEW p \in Procs, Step(p) PROVE CInv'
  BY <1>2, ReadCaused, WriteCaused, PlanCaused, WorkersCaused, ReceiptCaused, LifecycleCaused
     DEF Step
<1> QED BY <1>1, <1>2, StartCaused, WorkersCaused DEF Next

\* With one command at a time a story is done only if an operator set it so or a committed and
\* completed updated state refers to it, for any fleet, whatever crashes between the receipt,
\* the updated state and the backlog.
THEOREM ClosedByReceipt == Sole => (Spec => []CompletionBacked)
<1> SUFFICES ASSUME Sole PROVE Spec => []CompletionBacked
  OBVIOUS
<1>1. CInv => CompletionBacked
  BY DEF CInv, Caused, CompletionBacked
<1>2. IInv /\ CInv /\ [Next]_vars => CInv'
  BY NextCaused
<1> QED BY <1>1, <1>2, InitInv, NextInv, InitCaused, PTL DEF Spec

\* With one command at a time a story is in progress only if an operator set it so or a plan
\* that refers to it was committed, also when `route` crashed between the two.
THEOREM PlannedBeforeProgress == Sole => (Spec => []PlanPrecedesProgress)
<1> SUFFICES ASSUME Sole PROVE Spec => []PlanPrecedesProgress
  OBVIOUS
<1>1. CInv => PlanPrecedesProgress
  BY DEF CInv, Caused, PlanPrecedesProgress
<1>2. IInv /\ CInv /\ [Next]_vars => CInv'
  BY NextCaused
<1> QED BY <1>1, <1>2, InitInv, NextInv, InitCaused, PTL DEF Spec

\* The backlog is written by CommitStories alone.
LEMMA OnlyCommit ==
    ASSUME [Next]_vars, stories' # stories
    PROVE  \E p \in Procs : CommitStories(p)
<1>1. ~UNCHANGED vars
  BY DEF vars, backlogVars
<1>2. ASSUME NEW p \in Procs, Start(p) PROVE FALSE
  BY <1>2 DEF Start, backlogVars
<1>3. ASSUME NEW p \in Procs, Crash(p) PROVE FALSE
  BY <1>3 DEF Crash, backlogVars
<1>4. ASSUME NEW p \in Procs, Step(p) PROVE CommitStories(p)
  <2>1. ~( \/ ReadToCreate(p) \/ ReadToSetStatus(p) \/ ReadToPromoteCandidate(p)
           \/ GenerateCandidates(p) \/ ReadToPromoteStory(p) \/ ReadToRoute(p)
           \/ StageStories(p) \/ ReadLog(p) \/ WriteLog(p))
    BY DEF ReadToCreate, ReadToSetStatus, ReadToPromoteCandidate, GenerateCandidates,
           ReadToPromoteStory, ReadToRoute, StageStories, ReadLog, WriteLog, backlogVars
  <2>2. ~( \/ StagePlan(p) \/ CommitPlan(p) \/ Dispatch(p) \/ Work(p) \/ HandIn(p)
           \/ AdapterFails(p) \/ BuildExecutionControlLoop(p) \/ LoadStoryReference(p))
    BY DEF StagePlan, CommitPlan, Dispatch, Work, HandIn, AdapterFails,
           BuildExecutionControlLoop, LoadStoryReference, backlogVars
  <2>3. ~( \/ WriteOutcome(p) \/ WriteReceipt(p) \/ StageUpdated(p) \/ CommitUpdated(p)
           \/ PromoteStoryLifecycle(p) \/ ReadForStatusUpdated(p) \/ Replay(p))
    BY DEF WriteOutcome, WriteReceipt, StageUpdated, CommitUpdated, PromoteStoryLifecycle,
           ReadForStatusUpdated, Replay, backlogVars
  <2> QED BY <1>4, <2>1, <2>2, <2>3 DEF Step
<1> QED BY <1>1, <1>2, <1>3, <1>4 DEF Next

\* With one command at a time only `story status`, for that story, reopens a story that is done
\* or archived: planning, receipts and promotions leave it closed.
THEOREM ReopenedByOperatorOnly == Sole => (Spec => ClosedStaysClosed)
<1> SUFFICES ASSUME Sole PROVE Spec => ClosedStaysClosed
  OBVIOUS
<1>1. IInv /\ CInv /\ [Next]_vars =>
        [\A s \in Stories :
            /\ stories[s].status \in {"done", "archived"}
            /\ stories'[s].status # stories[s].status
            => \E p \in Procs : mem[p].op = "status" /\ mem[p].story = s]_vars
  <2> SUFFICES ASSUME IInv, CInv, [Next]_vars, NEW s \in Stories,
                      stories[s].status \in {"done", "archived"},
                      stories'[s].status # stories[s].status
               PROVE  \E p \in Procs : mem[p].op = "status" /\ mem[p].story = s
    OBVIOUS
  <2>1. PICK p \in Procs : CommitStories(p)
    BY OnlyCommit
  <2>2. /\ pc[p] = "commit" /\ mem[p].valid /\ stories' = mem[p].backlog /\ Keeps(stories, mem[p])
    BY <2>1 DEF CommitStories, At, CInv, Intends
  <2> QED BY <2>2 DEF Keeps
<1>2. IInv /\ CInv /\ [Next]_vars => CInv'
  BY NextCaused
<1> QED BY <1>1, <1>2, InitInv, NextInv, InitCaused, PTL DEF Spec, ClosedStaysClosed
=============================================================================
