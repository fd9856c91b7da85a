---------------------------- MODULE StoryBacklog ----------------------------
(***************************************************************************)
(* The story backlog and the adoption loop that closes its stories:        *)
(* `playbook story create | status | promote | plan` (cli/src/commands/    *)
(* story.ts), `route` (route.ts), `promote story` (promote.ts), `execute   *)
(* --worker-adapter` (execution/run.ts), `receipt ingest | replay`         *)
(* (receipt.ts) and `status updated` (status.ts), over engine/src/story    *)
(* and the governed write of cli/src/lib/workflowPromotion.ts: an artifact *)
(* is written to a staged path that every command of its kind shares,      *)
(* validated in memory, and the staged file is copied over the committed   *)
(* one.  Each read, staging and copy is a step, and a command may crash    *)
(* between two of them.                                                    *)
(***************************************************************************)
EXTENDS FleetAdoption, FiniteSets

CONSTANTS
    Procs,          \* command processes that may overlap
    Stories,        \* story ids
    Fingerprints,   \* fingerprints of promotion candidates
    SetStatuses,    \* statuses an operator sets with `story status`
    Fleets,         \* readiness the repositories may start from
    Commands,       \* the commands that are run
    None,           \* no such file, no reference, no fingerprint
    MaxResults,     \* bound on the results a retried worker adds to
    MaxCommands,    \* bound on commands ...
    MaxAdoptions,   \* ... and on those that hand prompts to workers
    MaxCrashes      \* bound on crashes

Statuses == {"proposed", "ready", "in_progress", "blocked", "done", "archived"}

AllCommands == {"create", "status", "promoteCandidate", "promoteStory", "route", "routeTask",
                "bridge", "ingest", "statusUpdated", "replay"}

ASSUME StoryConstants ==
    /\ SetStatuses \subseteq Statuses /\ Fleets \subseteq [Repos -> Stages]
    /\ Commands \subseteq AllCommands
    /\ None \notin Stories \union Fingerprints
    /\ MaxResults \in Nat /\ MaxCommands \in Nat /\ MaxAdoptions \in Nat /\ MaxCrashes \in Nat

\* A story: its status, the reconciliation it records, whether its receipt and updated-state
\* references are set (always to the same two paths), and the fingerprint of its provenance.
Story == [status : Statuses, recon : {"none", "in_progress", "completed"},
          receipted : BOOLEAN, fp : Fingerprints \union {None}]
Absent == [status |-> "absent"]
Backlog == [Stories -> Story \union {Absent}]

\* Mutant: a new story is given no status.
NewStoryUnset(fp) == [status |-> "unset", recon |-> "none", receipted |-> FALSE, fp |-> fp]

\* createStoryRecord and the records promotions make: proposed, never reconciled.
NewStory(fp) == [status |-> "proposed", recon |-> "none", receipted |-> FALSE, fp |-> fp]

Outcome == [results : SUBSET Results, story : Stories \union {None}]

\* execution-updated-state.json.  keys is the order its object keys are written in; basis is
\* a history: the readiness and the results it was computed from.
UpdatedState == [repos : [Repos -> Reconciliations], story : Stories \union {None},
                 keys : {"inserted", "sorted"},
                 basis : [stage : [Repos -> Stages], results : SUBSET Results]]
NoUpdated == [repos |-> None]

\* Where `story`, `route` and `receipt` stage the backlog, and where `promote` does.
StagedPaths == {"stories.staged", "staged/promotions/stories"}

PromotionReceipt == [story : Stories, fp : Fingerprints,
                     outcome : {"promoted", "noop", "conflict"}]

Steps == {"idle", "read", "candidates", "stage", "commit", "logRead", "logWrite", "stagePlan",
          "commitPlan", "dispatch", "work", "build", "reference", "outcome", "receipt",
          "stageUpdated", "commitUpdated", "lifecycle", "readStatus", "replayRead"}

Memory == [op : Commands \union {"none"}, story : Stories \union {None},
           status : Statuses \union {"none"}, fp : Fingerprints \union {None},
           backlog : Backlog, valid : BOOLEAN, outcome : {"promoted", "noop", "conflict"},
           log : SUBSET PromotionReceipt, todo : SUBSET Prompts, results : SUBSET Results,
           updated : UpdatedState \union {NoUpdated}]

NoStories == [s \in Stories |-> Absent]

Blank == [op |-> "none", story |-> None, status |-> "none", fp |-> None,
          backlog |-> NoStories, valid |-> TRUE, outcome |-> "promoted", log |-> {},
          todo |-> {}, results |-> {}, updated |-> NoUpdated]

Exits == {"none", "ok", "failure", "blocked", "refused", "crashed", "mismatch", "matched"}

VARIABLES
    stories,        \* .playbook/stories.json
    staged,         \* the two staged copies of the backlog
    plan,           \* story_reference of .playbook/execution-plan.json
    stagedPlan,     \* the staged plan's story_reference
    stage,          \* readiness of every repository
    outcome,        \* .playbook/execution-outcome-input.json
    receipt,        \* .playbook/execution-receipt.json: the status of every repository
    stagedUpdated,  \* the staged updated state
    updated,        \* .playbook/execution-updated-state.json
    log,            \* .playbook/promotion-receipts.json
    pc, mem, exit,
    commands, adoptions, crashes,
    setByOperator,  \* history: pairs of a story and a status `story status` committed
    planned,        \* history: stories a committed execution plan referred to
    completed       \* history: stories a committed, completed updated state referred to

backlogVars  == <<stories, staged, log>>
planVars     == <<plan, stagedPlan>>
adoptionVars == <<outcome, receipt, stagedUpdated, updated>>
history      == <<setByOperator, planned, completed>>
bounds       == <<commands, adoptions, crashes>>
vars == <<backlogVars, planVars, stage, adoptionVars, pc, mem, exit, bounds, history>>

EmptyOutcome == [results |-> {}, story |-> None]
NoReceipt    == [r \in Repos |-> "none"]

\* Stories the backlog may start with: one an operator made ready, and one that an earlier
\* receipt closed, whose run artifacts have been cleaned up since.
ReadyStory  == [NewStory(None) EXCEPT !.status = "ready"]
ClosedStory == [NewStory(None) EXCEPT !.status = "done", !.recon = "completed", !.receipted = TRUE]

Init ==
    /\ stories \in [Stories -> {Absent, ReadyStory, ClosedStory}]
    /\ setByOperator = {s \in Stories : stories[s] # Absent} \X {"ready"}
    /\ planned = {s \in Stories : stories[s] = ClosedStory} /\ completed = planned
    /\ staged = [f \in StagedPaths |-> NoStories] /\ log = {}
    /\ plan = None /\ stagedPlan = None
    /\ stage \in Fleets
    /\ outcome = EmptyOutcome /\ receipt = NoReceipt
    /\ stagedUpdated = NoUpdated /\ updated = NoUpdated
    /\ pc = [p \in Procs |-> "idle"] /\ mem = [p \in Procs |-> Blank]
    /\ exit = [p \in Procs |-> "none"]
    /\ commands = 0 /\ adoptions = 0 /\ crashes = 0

At(p, step)      == pc[p] = step
Goto(p, step, m) == pc' = [pc EXCEPT ![p] = step] /\ mem' = [mem EXCEPT ![p] = m]
                    /\ exit' = [exit EXCEPT ![p] = "none"]
End(p, result)   == pc' = [pc EXCEPT ![p] = "idle"] /\ mem' = [mem EXCEPT ![p] = Blank]
                    /\ exit' = [exit EXCEPT ![p] = result]

-----------------------------------------------------------------------------
(* The story lifecycle. *)

Exists(b, s) == b[s] # Absent

\* deriveStoryLifecycleStatus for the event planned; "unchanged" where it returns null.
statusWhenPlanned(story) == IF story.status = "ready" THEN "in_progress" ELSE "unchanged"

\* deriveStoryLifecycleStatus for the event receipt_completed, or the status as it was.
statusWhenCompleted(story) == IF story.status = "in_progress" THEN "done" ELSE story.status

linkStoryToPlan(b, s) ==
    [b EXCEPT ![s].status = statusWhenPlanned(b[s]), ![s].recon = "in_progress"]

\* Mutant: reconciling closes the story whatever its status and whatever was reconciled.
reconcileForcibly(b, s) ==
    [b EXCEPT ![s].status = "done", ![s].recon = "completed", ![s].receipted = TRUE]

\* reconcileStoryExecution for receipt_completed: a noop once the references are set.
reconcileStoryExecution(b, s) ==
    IF b[s].receipted THEN b
    ELSE [b EXCEPT ![s].status = statusWhenCompleted(b[s]), ![s].recon = "completed",
                   ![s].receipted = TRUE]

\* withStoryConflictCheck: the stored fingerprint decides between noop and conflict.
withStoryConflictCheck(b, s, fp) ==
    IF ~Exists(b, s) THEN "promoted" ELSE IF b[s].fp = fp THEN "noop" ELSE "conflict"

stagedPathOf(op) == IF op = "promoteStory" THEN "staged/promotions/stories" ELSE "stories.staged"

-----------------------------------------------------------------------------
(* Commands that change the backlog. *)

FirstStep(op) ==
    CASE op = "routeTask"            -> "stagePlan"
      [] op \in {"bridge", "ingest"} -> "dispatch"
      [] op = "statusUpdated"        -> "readStatus"
      [] op = "replay"               -> "replayRead"
      [] OTHER                       -> "read"

\* A command starts, with the arguments its operation takes.
Start(p) ==
    /\ At(p, "idle") /\ commands < MaxCommands
    /\ \E op \in Commands :
         /\ adoptions' = adoptions + IF op \in {"bridge", "ingest"} THEN 1 ELSE 0
         /\ adoptions' <= MaxAdoptions
         /\ \E s \in IF op \in {"create", "status", "promoteCandidate", "promoteStory", "route"}
                     THEN Stories ELSE {None},
               st \in IF op = "status" THEN SetStatuses ELSE {"none"},
               fp \in IF op = "promoteStory" THEN Fingerprints ELSE {None} :
              Goto(p, FirstStep(op),
                   [Blank EXCEPT !.op = op, !.story = s, !.status = st, !.fp = fp])
    /\ commands' = commands + 1
    /\ UNCHANGED <<backlogVars, planVars, stage, adoptionVars, crashes, history>>

StageNext(p, b, valid) ==
    Goto(p, "stage", [mem[p] EXCEPT !.backlog = b, !.valid = valid])

\* runStory create: an existing id is an error, but the artifact that is staged holds the
\* new record in its place.
ReadToCreate(p) ==
    /\ At(p, "read") /\ mem[p].op = "create"
    /\ StageNext(p, [stories EXCEPT ![mem[p].story] = NewStory(None)],
                 ~Exists(stories, mem[p].story))
    /\ UNCHANGED <<backlogVars, planVars, stage, adoptionVars, bounds, history>>

\* runStory status: any status may be set, an unknown id stages the backlog unchanged.
ReadToSetStatus(p) ==
    LET s == mem[p].story IN
    /\ At(p, "read") /\ mem[p].op = "status"
    /\ IF Exists(stories, s)
       THEN StageNext(p, [stories EXCEPT ![s].status = mem[p].status], TRUE)
       ELSE StageNext(p, stories, FALSE)
    /\ UNCHANGED <<backlogVars, planVars, stage, adoptionVars, bounds, history>>

\* runStory promote reads the backlog, then generateStoryCandidates reads it again and leaves
\* out the candidates it already holds.
ReadToPromoteCandidate(p) ==
    /\ At(p, "read") /\ mem[p].op = "promoteCandidate"
    /\ Goto(p, "candidates", [mem[p] EXCEPT !.backlog = stories])
    /\ UNCHANGED <<backlogVars, planVars, stage, adoptionVars, bounds, history>>

GenerateCandidates(p) ==
    LET s == mem[p].story IN
    /\ At(p, "candidates")
    /\ \E derived \in BOOLEAN :
         IF derived /\ ~Exists(stories, s)
         THEN StageNext(p, [mem[p].backlog EXCEPT ![s] = NewStory(None)], TRUE)
         ELSE StageNext(p, mem[p].backlog, FALSE)
    /\ UNCHANGED <<backlogVars, planVars, stage, adoptionVars, bounds, history>>

\* materializeStoryFromSource, once its candidate or pattern is found: a noop and a conflict
\* stage and commit the backlog as it was read.
ReadToPromoteStory(p) ==
    LET s     == mem[p].story
        check == withStoryConflictCheck(stories, s, mem[p].fp)
    IN
    /\ At(p, "read") /\ mem[p].op = "promoteStory"
    /\ Goto(p, "stage",
            [mem[p] EXCEPT !.outcome = check,
                           !.backlog = IF check = "promoted"
                                       THEN [stories EXCEPT ![s] = NewStory(mem[p].fp)]
                                       ELSE stories])
    /\ UNCHANGED <<backlogVars, planVars, stage, adoptionVars, bounds, history>>

\* Mutant: the story is linked before its plan is written.
RouteStoryFirst(p) ==
    LET s == mem[p].story IN
    /\ At(p, "read") /\ mem[p].op = "route"
    /\ IF Exists(stories, s) /\ stories[s].status = "ready"
       THEN StageNext(p, linkStoryToPlan(stories, s), TRUE)
       ELSE End(p, "failure")
    /\ UNCHANGED <<backlogVars, planVars, stage, adoptionVars, bounds, history>>

\* runRoute --story: a story that is not found fails the command.
ReadToRoute(p) ==
    /\ At(p, "read") /\ mem[p].op = "route"
    /\ IF Exists(stories, mem[p].story)
       THEN Goto(p, "stagePlan", [mem[p] EXCEPT !.backlog = stories])
       ELSE End(p, "failure")
    /\ UNCHANGED <<backlogVars, planVars, stage, adoptionVars, bounds, history>>

\* stageWorkflowArtifact: the artifact is written to the staged path, and then validated.
StageStories(p) ==
    /\ At(p, "stage")
    /\ staged' = [staged EXCEPT ![stagedPathOf(mem[p].op)] = mem[p].backlog]
    /\ IF mem[p].valid THEN Goto(p, "commit", mem[p]) ELSE End(p, "blocked")
    /\ UNCHANGED <<stories, log, planVars, stage, adoptionVars, bounds, history>>

\* promoteWorkflowArtifact: the staged file, whoever wrote it last, becomes the committed one.
CommitStories(p) ==
    /\ At(p, "commit")
    /\ stories' = staged[stagedPathOf(mem[p].op)]
    /\ setByOperator' = IF mem[p].op = "status"
                        THEN setByOperator \union {<<mem[p].story, mem[p].status>>}
                        ELSE setByOperator
    /\ IF mem[p].op = "promoteStory" THEN Goto(p, "logRead", mem[p]) ELSE End(p, "ok")
    /\ UNCHANGED <<staged, log, planVars, stage, adoptionVars, bounds, planned, completed>>

\* emitPromotionReceipt: the log is read, extended and written back.
ReadLog(p) ==
    /\ At(p, "logRead")
    /\ Goto(p, "logWrite", [mem[p] EXCEPT !.log = log])
    /\ UNCHANGED <<backlogVars, planVars, stage, adoptionVars, bounds, history>>

WriteLog(p) ==
    /\ At(p, "logWrite")
    /\ log' = mem[p].log \union {[story |-> mem[p].story, fp |-> mem[p].fp,
                                  outcome |-> mem[p].outcome]}
    /\ End(p, IF mem[p].outcome = "conflict" THEN "failure" ELSE "ok")
    /\ UNCHANGED <<stories, staged, planVars, stage, adoptionVars, bounds, history>>

-----------------------------------------------------------------------------
(* Route: the plan first, then the story it is for. *)

StagePlan(p) ==
    /\ At(p, "stagePlan")
    /\ stagedPlan' = mem[p].story
    /\ Goto(p, "commitPlan", mem[p])
    /\ UNCHANGED <<backlogVars, plan, stage, adoptionVars, bounds, history>>

\* promoteStoryTransition: the backlog as read before the plan was written, with the story
\* linked to it, unless the event planned changes nothing.
CommitPlan(p) ==
    LET s == mem[p].story IN
    /\ At(p, "commitPlan")
    /\ plan' = stagedPlan
    /\ planned' = planned \union ({stagedPlan} \ {None})
    /\ IF s # None /\ statusWhenPlanned(mem[p].backlog[s]) # "unchanged"
       THEN StageNext(p, linkStoryToPlan(mem[p].backlog, s), TRUE)
       ELSE End(p, "ok")
    /\ UNCHANGED <<backlogVars, stagedPlan, stage, adoptionVars, bounds, setByOperator, completed>>

-----------------------------------------------------------------------------
(* The adoption loop. *)

\* The plan of the current readiness is handed to workers: by runWorkerBridge one prompt after
\* the other to the adapter, by the operator from `status execute --json`.
Dispatch(p) ==
    /\ At(p, "dispatch")
    /\ Goto(p, "work", [mem[p] EXCEPT !.todo = codexPrompts(stage)])
    /\ UNCHANGED <<backlogVars, planVars, stage, adoptionVars, bounds, history>>

\* A worker, outside Playbook, may bring its repository to the stage its prompt leads to, and
\* reports a status and perhaps the stage it observed.  An operator's worker may be tried again,
\* and what it did not run is left out of the results.
Work(p) ==
    /\ At(p, "work")
    /\ \E x \in Results, advanced \in BOOLEAN :
         /\ \/ x.prompt \in mem[p].todo
            \/ /\ mem[p].op = "ingest" /\ Cardinality(mem[p].results) < MaxResults
               /\ x.prompt \in {y.prompt : y \in mem[p].results}
               /\ \A y \in mem[p].results : y.prompt = x.prompt => y.status # x.status
         /\ x.status = "not_run" => mem[p].op = "bridge"
         /\ x.observed # Unobserved => x.status = "success" /\ x.observed >= x.prompt.to
         /\ advanced => x.observed = x.prompt.to /\ stage[x.prompt.repo] = x.prompt.to - 1
         /\ stage' = IF advanced THEN [stage EXCEPT ![x.prompt.repo] = x.prompt.to] ELSE stage
         /\ Goto(p, "work", [mem[p] EXCEPT !.todo = @ \ {x.prompt},
                                           !.results = @ \union {x}])
    /\ UNCHANGED <<backlogVars, planVars, adoptionVars, bounds, history>>

\* The bridge asks every prompt's worker; an operator hands in the results there are.
HandIn(p) ==
    /\ At(p, "work")
    /\ mem[p].op = "bridge" => mem[p].todo = {}
    /\ Goto(p, "build", [mem[p] EXCEPT !.todo = {}])
    /\ UNCHANGED <<backlogVars, planVars, stage, adoptionVars, bounds, history>>

\* The adapter fails, or its answer is not for the prompt it was given.
AdapterFails(p) ==
    /\ At(p, "work") /\ mem[p].op = "bridge" /\ mem[p].todo # {}
    /\ End(p, "failure")
    /\ UNCHANGED <<backlogVars, planVars, stage, adoptionVars, bounds, history>>

Computed(results) ==
    [repos |-> reconcile(stage, results), story |-> None, keys |-> "inserted",
     basis |-> [stage |-> stage, results |-> results]]

\* buildExecutionControlLoop plans again from the readiness there is now; a result for a
\* prompt this plan does not have is an error.
BuildExecutionControlLoop(p) ==
    /\ At(p, "build")
    /\ IF \A x \in mem[p].results : x.prompt \in codexPrompts(stage)
       THEN Goto(p, "reference", [mem[p] EXCEPT !.updated = Computed(mem[p].results)])
       ELSE End(p, "refused")
    /\ UNCHANGED <<backlogVars, planVars, stage, adoptionVars, bounds, history>>

LoadStoryReference(p) ==
    /\ At(p, "reference")
    /\ Goto(p, "outcome", [mem[p] EXCEPT !.story = plan, !.updated.story = plan])
    /\ UNCHANGED <<backlogVars, planVars, stage, adoptionVars, bounds, history>>

WriteOutcome(p) ==
    /\ At(p, "outcome")
    /\ outcome' = [results |-> mem[p].results, story |-> mem[p].story]
    /\ Goto(p, "receipt", mem[p])
    /\ UNCHANGED <<backlogVars, planVars, stage, receipt, stagedUpdated, updated, bounds, history>>

WriteReceipt(p) ==
    /\ At(p, "receipt")
    /\ receipt' = LET b == mem[p].updated.basis IN
                  [r \in Repos |-> repoStatus(b.stage, b.results, r)]
    /\ Goto(p, "stageUpdated", mem[p])
    /\ UNCHANGED <<backlogVars, planVars, stage, outcome, stagedUpdated, updated, bounds, history>>

\* stageWorkflowArtifact writes its artifact with the keys of every object sorted.
StageUpdated(p) ==
    /\ At(p, "stageUpdated")
    /\ stagedUpdated' = [mem[p].updated EXCEPT !.keys = "sorted"]
    /\ Goto(p, "commitUpdated", mem[p])
    /\ UNCHANGED <<backlogVars, planVars, stage, outcome, receipt, updated, bounds, history>>

CommitUpdated(p) ==
    /\ At(p, "commitUpdated")
    /\ updated' = stagedUpdated
    /\ completed' = IF /\ stagedUpdated.story # None
                       /\ \A r \in Repos : stagedUpdated.repos[r] = "completed_as_planned"
                    THEN completed \union {stagedUpdated.story} ELSE completed
    /\ IF mem[p].op = "statusUpdated" THEN End(p, "ok") ELSE Goto(p, "lifecycle", mem[p])
    /\ UNCHANGED <<backlogVars, planVars, stage, outcome, receipt, stagedUpdated, bounds,
                   setByOperator, planned>>

\* promoteStoryLifecycle: nothing to do without a story, without a completed updated state, and
\* for a story already reconciled.
PromoteStoryLifecycle(p) ==
    LET s == mem[p].story IN
    /\ At(p, "lifecycle")
    /\ IF /\ s # None
          /\ Exists(stories, s)
          /\ receiptCompleted(mem[p].updated.repos)
          /\ reconcileStoryExecution(stories, s) # stories
       THEN StageNext(p, reconcileStoryExecution(stories, s), TRUE)
       ELSE End(p, "ok")
    /\ UNCHANGED <<backlogVars, planVars, stage, adoptionVars, bounds, history>>

\* toUpdatedStateStatusResult: the updated state is computed again from the readiness and the
\* last outcome input, without its story, and committed.
ReadForStatusUpdated(p) ==
    /\ At(p, "readStatus")
    /\ Goto(p, "stageUpdated", [mem[p] EXCEPT !.results = outcome.results,
                                              !.updated = Computed(outcome.results)])
    /\ UNCHANGED <<backlogVars, planVars, stage, adoptionVars, bounds, history>>

\* compareArtifacts: the two texts, keys in the order each object has them.
sameText(artifact, baseline) ==
    /\ baseline # NoUpdated
    /\ artifact.keys = baseline.keys
    /\ artifact.repos = baseline.repos /\ artifact.story = baseline.story

\* replayExecutionOutcomeInput: computed again from the outcome input, and compared with the
\* committed updated state and with the queue that follows from it.
Replay(p) ==
    /\ At(p, "replayRead")
    /\ IF outcome = EmptyOutcome THEN End(p, "failure")
       ELSE LET again == Computed(outcome.results) IN
            IF sameText(again, updated) /\ nextQueue(again.repos) = nextQueue(updated.repos)
            THEN End(p, "matched") ELSE End(p, "mismatch")
    /\ UNCHANGED <<backlogVars, planVars, stage, adoptionVars, bounds, history>>

-----------------------------------------------------------------------------

\* A command is killed between two of its steps.
Crash(p) ==
    /\ ~At(p, "idle") /\ crashes < MaxCrashes
    /\ crashes' = crashes + 1
    /\ End(p, "crashed")
    /\ UNCHANGED <<backlogVars, planVars, stage, adoptionVars, commands, adoptions, history>>

Step(p) ==
    \/ ReadToCreate(p) \/ ReadToSetStatus(p) \/ ReadToPromoteCandidate(p)
    \/ GenerateCandidates(p) \/ ReadToPromoteStory(p) \/ ReadToRoute(p)
    \/ StageStories(p) \/ CommitStories(p) \/ ReadLog(p) \/ WriteLog(p)
    \/ StagePlan(p) \/ CommitPlan(p)
    \/ Dispatch(p) \/ Work(p) \/ HandIn(p) \/ AdapterFails(p)
    \/ BuildExecutionControlLoop(p) \/ LoadStoryReference(p)
    \/ WriteOutcome(p) \/ WriteReceipt(p) \/ StageUpdated(p) \/ CommitUpdated(p)
    \/ PromoteStoryLifecycle(p) \/ ReadForStatusUpdated(p) \/ Replay(p)

Next == \E p \in Procs : Start(p) \/ Step(p) \/ Crash(p)

Spec == Init /\ [][Next]_vars

-----------------------------------------------------------------------------
(* Properties. *)

\* Stories, plans, outcomes and updated states have the shape their schemas give them,
\* committed, staged and in the memory of every command.
TypeOK ==
    /\ stories \in Backlog /\ staged \in [StagedPaths -> Backlog]
    /\ log \subseteq PromotionReceipt
    /\ plan \in Stories \union {None} /\ stagedPlan \in Stories \union {None}
    /\ stage \in [Repos -> Stages]
    /\ outcome \in Outcome
    /\ updated \in UpdatedState \union {NoUpdated}
    /\ stagedUpdated \in UpdatedState \union {NoUpdated}
    /\ pc \in [Procs -> Steps] /\ mem \in [Procs -> Memory] /\ exit \in [Procs -> Exits]
    /\ commands \in 0..MaxCommands /\ adoptions \in 0..MaxAdoptions /\ crashes \in 0..MaxCrashes

\* A story is done only if an operator set it so or a committed updated state, for a plan that
\* referred to it, has every repository completed as planned; a story recorded as reconciled
\* always has such a state behind it.
CompletionBacked ==
    \A s \in Stories :
        /\ stories[s].status = "done" => <<s, "done">> \in setByOperator \/ s \in completed
        /\ Exists(stories, s) /\ stories[s].recon = "completed" => s \in completed

\* A story is in progress only if an operator set it so or an execution plan that refers to it
\* was committed before, also when the command that routed it crashed half way.
PlanPrecedesProgress ==
    \A s \in Stories :
        stories[s].status = "in_progress" =>
            <<s, "in_progress">> \in setByOperator \/ s \in planned

\* Only `story status` takes a story out of done or archived: planning it again, a late or
\* repeated receipt, creating or promoting it again leave it there.
ClosedStaysClosed ==
    [][\A s \in Stories :
          /\ stories[s].status \in {"done", "archived"}
          /\ stories'[s].status # stories[s].status
          => \E p \in Procs : mem[p].op = "status" /\ mem[p].story = s]_vars

\* A repository that the committed updated state neither retries, replans nor reviews was
\* observed at the stage its last prompt leads to, and none of its prompts ended in failure or
\* at another stage: no result a worker returned is lost between the receipt and the next queue.
NothingForgotten ==
    updated # NoUpdated =>
      LET b == updated.basis
          ended(pr) == comparePromptOutcome(b.stage, b.results, pr)
      IN \A r \in Repos \ (needsReview(updated.repos) \union {q.repo : q \in nextQueue(updated.repos)}) :
           /\ promptsOf(b.stage, r) # {}
           /\ LET top == topPrompt(b.stage, r) IN observedTo(b.stage, b.results, top) = top.to
           /\ \A pr \in promptsOf(b.stage, r) : ended(pr) \in {"success", "not_run"}
=============================================================================
