---------------------------- MODULE TestAutofix -----------------------------
(***************************************************************************)
(* The bounded self-repair of failing tests in CI: the repeat policy of    *)
(* `playbook test-autofix` (cli/src/commands/testAutofix.ts) over the      *)
(* remediation history (engine/src/testAutofix/remediationHistory.ts), and *)
(* the transport that keeps that history between CI runs: a run starts     *)
(* from a fresh checkout, merges the histories in the newest artifact      *)
(* archives of other runs (.github/scripts/hydrate-remediation-history     *)
(* .cjs), runs test-autofix, and uploads its workspace as a new archive.   *)
(* CI runs may overlap, fail half way and lose their runner.  A run may    *)
(* also be run again: a re-run keeps the run id and its inputs, and the    *)
(* policy gates (evaluate-ci-remediation-policy.cjs) admit it only if the  *)
(* run was dispatched with the retry override.                             *)
(*                                                                         *)
(* A finding of the failure log is its stable signature.  The triage, fix  *)
(* plan, apply and result artifacts of a run stay in its own workspace and *)
(* decide nothing later; only the history is kept as a file.               *)
(***************************************************************************)
EXTENDS Naturals, Sequences, FiniteSets, FiniteSetsExt, Functions

CONSTANTS
    Jobs,           \* CI runners, each with a workspace of its own
    Signatures,     \* failure signatures
    kindOf,         \* failure kind of a signature
    Located,        \* signatures whose finding names a test file
    Logs,           \* failure logs, as sets of signatures
    Threshold,      \* confidence threshold, in thousandths
    Lookback,       \* number of archives a run merges
    Dispatches,     \* what CI runs are dispatched with: retry override, and mode
    NoHistory,      \* no test-autofix-history.json
    MaxRuns,        \* bound on runs of test-autofix
    MaxMishaps      \* bound on attempts that do not reach test-autofix, failed steps, lost
                    \* runners, overlaps and listings without an archive, together

LowRiskMapping ==
    [snapshot_drift  |-> "snapshot_refresh",
     stale_assertion |-> "stale_assertion_update",
     fixture_drift   |-> "fixture_normalization",
     ordering_drift  |-> "deterministic_ordering_stabilization"]

preferredKinds == {"snapshot_drift", "stale_assertion", "ordering_drift"}

Classes == {LowRiskMapping[k] : k \in DOMAIN LowRiskMapping}

\* The mode follows from the ref of the run: a protected one gets a dry run.
Modes == {"apply", "dry_run"}

Dispatch == [override : BOOLEAN, mode : Modes]

ASSUME AutofixConstants ==
    /\ kindOf \in [Signatures -> STRING] /\ Located \subseteq Signatures
    /\ Logs \subseteq SUBSET Signatures /\ IsFiniteSet(Signatures)
    /\ Threshold \in 0..1000 /\ Lookback \in Nat \ {0}
    /\ Dispatches \subseteq Dispatch
    /\ MaxRuns \in Nat /\ MaxMishaps \in Nat

FinalStatuses == {"fixed", "partially_fixed", "not_fixed", "blocked",
                  "blocked_low_confidence", "review_required_only"}

Entry == [run_id : Nat \ {0}, original_run_id : Nat \ {0}, signatures : SUBSET Signatures,
          classes : SUBSET Classes, final_status : FinalStatuses]

History == Seq(Entry)

ASSUME NoHistoryAssumption == NoHistory \notin History

Archive == [run_id : Nat \ {0}, history : History \union {NoHistory}]

VARIABLES
    ci,             \* the CI runs, by run id: what each was dispatched with
    archives,       \* the uploaded archives, newest first
    history,        \* test-autofix-history.json in each workspace
    pc,             \* the step a CI run is at
    run,            \* its run id, failure log, and the history it decided from
    status,         \* final_status of its test-autofix
    runs, others, crashes,
    overlaps,       \* CI runs started while another one was under way
    retries,        \* re-runs that reached test-autofix
    unlisted,       \* runs that were shown no archive though there were some
    failed,         \* history variable: repairs attempted in vain, by signature and class
    stopped         \* history variable: runs that ended without repair, likewise

bounds == <<runs, others, crashes, overlaps, retries, unlisted>>

mishaps == others + crashes + overlaps + unlisted

vars == <<ci, archives, history, pc, run, status, bounds, failed, stopped>>

Idle == [id |-> 0, log |-> {}, before |-> << >>]

None == [p \in Signatures \X Classes |-> 0]

Init ==
    /\ ci = << >> /\ archives = << >>
    /\ history = [j \in Jobs |-> NoHistory]
    /\ pc = [j \in Jobs |-> "idle"]
    /\ run = [j \in Jobs |-> Idle]
    /\ status = [j \in Jobs |-> "blocked"]
    /\ runs = 0 /\ others = 0 /\ crashes = 0 /\ overlaps = 0
    /\ retries = 0 /\ unlisted = 0
    /\ failed = None /\ stopped = None

-----------------------------------------------------------------------------
(* Planning: which findings become repair tasks. *)

\* A low-risk finding with a test file becomes a task, any other one is excluded.
tasks(log) == {s \in log : kindOf[s] \in DOMAIN LowRiskMapping /\ s \in Located}

excluded(log) == log \ tasks(log)

repairClasses(log) == {LowRiskMapping[kindOf[s]] : s \in tasks(log)}

-----------------------------------------------------------------------------
(* The repeat policy.  Runs are told apart by their run_id. *)

entriesOf(h) == {h[i] : i \in DOMAIN h}

listRunsByFailureSignature(h, s) == {e \in entriesOf(h) : s \in e.signatures}

FailedStatuses == {"blocked", "blocked_low_confidence", "not_fixed"}

repeatedFailures(h, s, c) ==
    {e.run_id : e \in {d \in listRunsByFailureSignature(h, s) :
                         d.final_status \in FailedStatuses /\ c \in d.classes}}

matchingRuns(h, log) ==
    UNION {{e.run_id : e \in listRunsByFailureSignature(h, s)} : s \in log}

priorSuccessfulClasses(h, log) ==
    UNION {e.classes : e \in {d \in entriesOf(h) :
                                /\ d.run_id \in matchingRuns(h, log)
                                /\ d.final_status \in {"fixed", "partially_fixed"}}}

failedAttemptThreshold == 2

\* Mutant: one attempt more than the threshold.
failedTooOftenLate(h, log) ==
    \E s \in log, c \in repairClasses(log) :
      Cardinality(repeatedFailures(h, s, c)) > failedAttemptThreshold

failedTooOften(h, log) ==
    \E s \in log, c \in repairClasses(log) :
      Cardinality(repeatedFailures(h, s, c)) >= failedAttemptThreshold

evaluateRepeatRemediationPolicy(h, log) ==
    IF matchingRuns(h, log) = {} THEN "no_history"
    ELSE IF failedTooOften(h, log) THEN "blocked_repeat_failure"
    ELSE IF repairClasses(log) \intersect priorSuccessfulClasses(h, log) # {}
         THEN "allow_with_preferred_repair_class"
    ELSE IF \/ Cardinality(repairClasses(log)) > 1
            \/ Cardinality({s \in log : listRunsByFailureSignature(h, s) # {}}) > 1
         THEN "review_required_repeat_failure"
    ELSE "allow_repair"

\* The confidence in thousandths, rounded to two decimals and at most 0.95.
computeAutofixConfidence(h, log) ==
    LET decision == evaluateRepeatRemediationPolicy(h, log)
        failures == MapThenSumSet(LAMBDA p : Cardinality(repeatedFailures(h, p[1], p[2])),
                                  log \X repairClasses(log))
        kinds    == IF log # {} /\ \A s \in log : kindOf[s] \in preferredKinds THEN 350 ELSE 100
        success  == IF priorSuccessfulClasses(h, log) # {} THEN 200 ELSE 0
        admitted == IF log = {} THEN 0
                    ELSE (150 * Cardinality(tasks(log))) \div Cardinality(log)
        policy   == IF decision = "allow_with_preferred_repair_class" THEN 100 ELSE 0
        minus    == Min({300, 100 * failures})
                      + IF decision = "review_required_repeat_failure" THEN 150 ELSE 0
        score    == 250 + kinds + success + admitted + policy - minus
    IN  IF decision = "blocked_repeat_failure" THEN 0
        ELSE Min({950, ((score + 5) \div 10) * 10})

\* Why a run stops before any change, or "go".
classifyStopWithoutMutation(h, log) ==
    LET decision == evaluateRepeatRemediationPolicy(h, log)
    IN  IF log = {} THEN "blocked"
        ELSE IF tasks(log) = {} /\ \A s \in log : kindOf[s] \notin DOMAIN LowRiskMapping
             THEN "review_required_only"
        ELSE IF decision = "blocked_repeat_failure" THEN "blocked"
        ELSE IF decision = "review_required_repeat_failure" THEN "review_required_only"
        ELSE IF tasks(log) = {} THEN "blocked"
        ELSE "go"

\* What a run decides from the history it read: a final status, or "go" to apply.
decide(h, log, mode) ==
    LET stop == classifyStopWithoutMutation(h, log)
    IN  IF stop # "go" THEN stop
        ELSE IF mode = "dry_run" THEN "blocked"
        ELSE IF computeAutofixConfidence(h, log) < Threshold THEN "blocked_low_confidence"
        ELSE "go"

-----------------------------------------------------------------------------
(* The history and its transport. *)

\* Mutant: run ids start from zero.
zeroBasedRunId(h) == Len(h)

nextRemediationHistoryRunId(h) == Len(h) + 1

\* Every entry of a run is labelled with the run id as its original id; the rest of its
\* provenance is the same for all.
historyEntry(h, log, st) ==
    [run_id |-> nextRemediationHistoryRunId(h),
     original_run_id |-> nextRemediationHistoryRunId(h),
     signatures |-> log, classes |-> repairClasses(log), final_status |-> st]

\* Where the histories hold an entry.
places(as) == UNION {{i} \X DOMAIN as[i] : i \in DOMAIN as}

\* Entries are sorted by original id, then by run id, then in the order of the sources.
sortsFirst(as, p, q) ==
    \/ as[p[1]][p[2]].run_id < as[q[1]][q[2]].run_id
    \/ /\ as[p[1]][p[2]].run_id = as[q[1]][q[2]].run_id
       /\ p[1] < q[1] \/ (p[1] = q[1] /\ p[2] <= q[2])

originalIds(as) == {as[p[1]][p[2]].original_run_id : p \in places(as)}

placesWith(as, o) == {p \in places(as) : as[p[1]][p[2]].original_run_id = o}

firstWith(as, o) ==
    CHOOSE p \in placesWith(as, o) : \A q \in placesWith(as, o) : sortsFirst(as, p, q)

nth(ids, i) == CHOOSE o \in ids : Cardinality({k \in ids : k <= o}) = i

\* Mutant: the sources are put one after the other, repeated entries included.
mergedWithRepetitions(as) ==
    LET all == FoldFunction(LAMBDA h, rest : h \o rest, << >>, as)
    IN  [i \in DOMAIN all |-> [all[i] EXCEPT !.run_id = i]]

\* Of the entries with one original id the first is kept; run ids are given out anew.
mergeRemediationHistoryArtifacts(as) ==
    [i \in 1..Cardinality(originalIds(as)) |->
       LET p == firstWith(as, nth(originalIds(as), i))
       IN  [as[p[1]][p[2]] EXCEPT !.run_id = i]]

ofOtherRuns(as, r) == {i \in DOMAIN as : as[i].run_id # r}

\* The places of the archives that hydration looks at: the newest that run r did not upload.
\* GitHub lists the newest artifacts of any name that have not expired, of the archives the
\* first n.
listArtifacts(as, r, n) ==
    {i \in ofOtherRuns(as, r) :
       i <= n /\ Cardinality({k \in ofOtherRuns(as, r) : k <= i}) <= Lookback}

sources(as, r, n) == [i \in listArtifacts(as, r, n) |-> as[i].history]

-----------------------------------------------------------------------------
(* A CI run. *)

\* The workspace goes with the runner.
Discard(j) ==
    /\ pc' = [pc EXCEPT ![j] = "idle"]
    /\ run' = [run EXCEPT ![j] = Idle]
    /\ history' = [history EXCEPT ![j] = NoHistory]
    /\ status' = [status EXCEPT ![j] = "blocked"]

Active == {j \in Jobs : pc[j] # "idle"}

\* A new CI run has the next run id; a run may be run again when no attempt is under way.
nextAttempts == (1..(Len(ci) + 1)) \ {run[j].id : j \in Active}

\* The CI runs when an attempt of run r has begun: a re-run has the inputs of the first one.
begun(r) == IF r \in DOMAIN ci THEN {ci} ELSE {Append(ci, d) : d \in Dispatches}

\* Of the policy gates the one that tells attempts apart: with one attempt allowed for a
\* commit, a re-run needs the override.  The other gates are passed or not (OtherRun).
attemptLimitReached(r) == r \in DOMAIN ci

\* Tests failed, the policy gates let test-autofix run.
Checkout(j) ==
    /\ pc[j] = "idle" /\ runs < MaxRuns
    /\ \E r \in nextAttempts, log \in Logs :
         /\ ci' \in begun(r)
         /\ attemptLimitReached(r) => ci'[r].override
         /\ run' = [run EXCEPT ![j] = [id |-> r, log |-> log, before |-> << >>]]
         /\ retries' = retries + IF attemptLimitReached(r) THEN 1 ELSE 0
    /\ pc' = [pc EXCEPT ![j] = "hydrate"]
    /\ runs' = runs + 1
    /\ Active # {} => mishaps < MaxMishaps
    /\ overlaps' = overlaps + IF Active # {} THEN 1 ELSE 0
    /\ UNCHANGED <<archives, history, status, others, crashes, unlisted, failed, stopped>>

\* The histories of the archives listed are merged, if there are any.  One without a
\* history fails the step: extractHistoryFromZip exits with 2, which the script would pass
\* over if the error's message held "exit status 2", but that of Node's execFileSync reads
\* "Command failed: " and the command line, so the error is thrown on.
Hydrate(j) ==
    /\ pc[j] = "hydrate"
    /\ \E n \in 0..Len(archives) :
         LET as     == sources(archives, run[j].id, n)
             hidden == DOMAIN as = {} /\ ofOtherRuns(archives, run[j].id) # {}
         IN  /\ IF \E i \in DOMAIN as : as[i] = NoHistory
                THEN pc' = [pc EXCEPT ![j] = "upload"] /\ UNCHANGED history
                ELSE /\ pc' = [pc EXCEPT ![j] = "decide"]
                     /\ history' = IF DOMAIN as = {} THEN history
                                   ELSE [history EXCEPT ![j] = mergeRemediationHistoryArtifacts(as)]
             /\ hidden => mishaps < MaxMishaps
             /\ unlisted' = unlisted + IF hidden THEN 1 ELSE 0
    /\ UNCHANGED <<ci, archives, run, status, runs, others, crashes, overlaps, retries, failed,
                   stopped>>

readHistoryArtifact(j) == IF history[j] = NoHistory THEN << >> ELSE history[j]

\* One more for every signature of the log and every class of its plan.
counted(f, log) ==
    [p \in Signatures \X Classes |-> f[p] + IF p \in log \X repairClasses(log) THEN 1 ELSE 0]

Decide(j) ==
    /\ pc[j] = "decide"
    /\ LET h == readHistoryArtifact(j)
           d == decide(h, run[j].log, ci[run[j].id].mode)
       IN  /\ run' = [run EXCEPT ![j].before = h]
           /\ IF d = "go" THEN /\ pc' = [pc EXCEPT ![j] = "apply"]
                               /\ UNCHANGED <<status, stopped>>
              ELSE /\ pc' = [pc EXCEPT ![j] = "record"]
                   /\ status' = [status EXCEPT ![j] = d]
                   /\ stopped' = IF d \in FailedStatuses THEN counted(stopped, run[j].log)
                                 ELSE stopped
    /\ UNCHANGED <<ci, archives, history, bounds, failed>>

\* The status of a run that went through apply --from-plan and the rerun commands.
statusAfterApply(log, ok, applied, verified) ==
    IF ~ok THEN "blocked"
    ELSE IF verified THEN (IF excluded(log) # {} THEN "partially_fixed" ELSE "fixed")
    ELSE IF applied THEN "partially_fixed"
    ELSE "not_fixed"

Apply(j) ==
    /\ pc[j] = "apply"
    /\ \E ok, applied, verified \in BOOLEAN :
         LET st == statusAfterApply(run[j].log, ok, applied, verified)
         IN  /\ status' = [status EXCEPT ![j] = st]
             /\ failed' = IF st \in FailedStatuses THEN counted(failed, run[j].log) ELSE failed
    /\ pc' = [pc EXCEPT ![j] = "record"]
    /\ UNCHANGED <<ci, archives, history, run, bounds, stopped>>

Record(j) ==
    /\ pc[j] = "record"
    /\ history' = [history EXCEPT ![j] =
                     Append(run[j].before, historyEntry(run[j].before, run[j].log, status[j]))]
    /\ pc' = [pc EXCEPT ![j] = "upload"]
    /\ UNCHANGED <<ci, archives, run, status, bounds, failed, stopped>>

Upload(j) ==
    /\ pc[j] = "upload"
    /\ archives' = <<[run_id |-> run[j].id, history |-> history[j]]>> \o archives
    /\ Discard(j)
    /\ UNCHANGED <<ci, bounds, failed, stopped>>

\* A step fails: the rest is skipped, but artifacts are uploaded in any case.
StepFails(j) ==
    /\ pc[j] \in {"hydrate", "decide", "apply", "record"} /\ mishaps < MaxMishaps
    /\ pc' = [pc EXCEPT ![j] = "upload"]
    /\ crashes' = crashes + 1
    /\ UNCHANGED <<ci, archives, history, run, status, runs, others, overlaps, retries,
                   unlisted, failed, stopped>>

\* The runner is lost, with everything in its workspace.
RunnerLost(j) ==
    /\ pc[j] # "idle" /\ mishaps < MaxMishaps
    /\ Discard(j)
    /\ crashes' = crashes + 1
    /\ UNCHANGED <<ci, archives, runs, others, overlaps, retries, unlisted, failed, stopped>>

\* A CI run or re-run whose tests pass, or that the policy gates block, uploads no history.
OtherRun ==
    /\ mishaps < MaxMishaps
    /\ \E r \in nextAttempts :
         /\ ci' \in begun(r)
         /\ archives' = <<[run_id |-> r, history |-> NoHistory]>> \o archives
    /\ others' = others + 1
    /\ UNCHANGED <<history, pc, run, status, runs, crashes, overlaps, retries, unlisted, failed,
                   stopped>>

Next ==
    \/ \E j \in Jobs : \/ Checkout(j) \/ Hydrate(j) \/ Decide(j) \/ Apply(j) \/ Record(j)
                       \/ Upload(j) \/ StepFails(j) \/ RunnerLost(j)
    \/ OtherRun

Spec == Init /\ [][Next]_vars

-----------------------------------------------------------------------------
(* Properties. *)

\* Histories hold entries of their schema, wherever they are, and belong to known CI runs.
TypeOK ==
    /\ ci \in Seq(Dispatch)
    /\ archives \in Seq(Archive) /\ \A i \in DOMAIN archives : archives[i].run_id \in DOMAIN ci
    /\ history \in [Jobs -> History \union {NoHistory}]
    /\ pc \in [Jobs -> {"idle", "hydrate", "decide", "apply", "record", "upload"}]
    /\ run \in [Jobs -> [id : Nat, log : SUBSET Signatures, before : History]]
    /\ \A j \in Active : run[j].id \in DOMAIN ci
    /\ status \in [Jobs -> FinalStatuses]
    /\ runs \in Nat /\ others \in Nat /\ crashes \in Nat /\ overlaps \in Nat
    /\ retries \in Nat /\ unlisted \in Nat
    /\ failed \in [Signatures \X Classes -> Nat] /\ stopped \in [Signatures \X Classes -> Nat]

numbered(h) == \A i \in DOMAIN h : h[i].run_id = i /\ h[i].original_run_id = i

\* In every history, uploaded, merged or in the making, the runs are numbered 1, 2, 3 ... by
\* run id and by original id: repeated failures are counted by distinct run ids
\* (remediationHistory.ts:157) and merged by original id (:92-96), so a gap or a
\* duplicate would make a failure vanish or count twice.
RunsNumbered ==
    /\ \A i \in DOMAIN archives : archives[i].history # NoHistory => numbered(archives[i].history)
    /\ \A j \in Jobs : /\ history[j] # NoHistory => numbered(history[j])
                       /\ numbered(run[j].before)

\* A repair class is attempted in vain at most twice for one signature, however often CI runs:
\* the history survives upload, archives out of sight, and merging.  Attempts may come on top
\* only where a failed step, a lost runner or an overlapping run cost a record; for each
\* re-run with the retry override, which does not see what earlier attempts of its own run
\* uploaded (hydrate-remediation-history.cjs:55); and where GitHub's page of artifacts shows
\* none of the archives (:42, :54-57), so that the count starts again.
KnownBadStops ==
    \A p \in Signatures \X Classes :
      failed[p] <= failedAttemptThreshold * (unlisted + 1) + crashes + overlaps + retries

\* A run is blocked for a repair class that failed too often only if two different runs
\* really ended without repair for one of its signatures and that class: merging
\* archives that repeat one another's entries never counts a run twice.
BlockedForCause ==
    \A j \in Jobs :
      pc[j] = "decide"
        /\ evaluateRepeatRemediationPolicy(readHistoryArtifact(j), run[j].log)
             = "blocked_repeat_failure"
      => \E p \in run[j].log \X repairClasses(run[j].log) :
           failed[p] + stopped[p] >= failedAttemptThreshold

\* docs/commands/test-autofix.md: "Each run stores stable failure signatures ...".  As long as
\* no step fails of itself and no runner is lost, a CI run the policy gates let through ends
\* with its test-autofix recorded in the history it uploads.
AdmittedRunRecorded ==
    \A j \in Jobs : pc[j] = "upload" /\ crashes = 0 =>
      /\ history[j] # NoHistory
      /\ history[j] = Append(run[j].before, historyEntry(run[j].before, run[j].log, status[j]))
=============================================================================
