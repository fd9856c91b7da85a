---------------------------- MODULE FleetAdoption ----------------------------
(***************************************************************************)
(* What engine/src/adoption computes: from the readiness of a fleet of     *)
(* repositories the prompts to hand to workers, and from the workers'      *)
(* results the receipt, the updated state and the next queue.  The stages  *)
(* of readiness are numbered: 1 playbook_not_detected, 2 index pending,    *)
(* 3 plan pending, 4 apply pending, 5 ready; a repository of the observer  *)
(* registry is always connected (loadFleet).                               *)
(***************************************************************************)
EXTENDS Naturals

CONSTANT Repos      \* the repositories of the fleet

Ready  == 5
Stages == 1..Ready
Waves  == 1..2

\* No observed_transition in a worker's result.
Unobserved == 0

\* A prompt id names its wave, its lane, which fixes the stage it leads to, and its repository.
Prompts == [repo : Repos, wave : Waves, to : Stages]
Results == [prompt : Prompts, status : {"success", "failed", "not_run"},
            observed : Stages \union {Unobserved}]

-----------------------------------------------------------------------------
(* Queue and plan. *)

\* toPendingActions: one action for every stage a repository still has to reach,
\* each depending on the one before it.
pendingActions(stage) == {a \in [repo : Repos, to : Stages] : a.to > stage[a.repo]}

dependencies(stage, a) == {d \in pendingActions(stage) : d.repo = a.repo /\ d.to = a.to - 1}

\* buildFleetCodexExecutionPlan: wave 1 depends on nothing, wave 2 on wave 1 alone;
\* the rest are blocked_followups and get no prompt.
codexPrompts(stage) ==
    {pr \in Prompts :
        LET a    == [repo |-> pr.repo, to |-> pr.to]
            deps == dependencies(stage, a) IN
        /\ a \in pendingActions(stage)
        /\ \/ pr.wave = 1 /\ deps = {}
           \/ pr.wave = 2 /\ deps # {} /\ \A d \in deps : dependencies(stage, d) = {}}

promptsOf(stage, r) == {pr \in codexPrompts(stage) : pr.repo = r}

-----------------------------------------------------------------------------
(* The receipt. *)

\* sortResults orders the results of one prompt by their status, and the map that is
\* built from them keeps the last.
statusOrder == [failed |-> 1, not_run |-> 2, success |-> 3]

resultsOf(results, pr) == {x \in results : x.prompt = pr}

inputByPrompt(results, pr) ==
    CHOOSE x \in resultsOf(results, pr) :
        \A y \in resultsOf(results, pr) : statusOrder[y.status] <= statusOrder[x.status]

declaredStatus(results, pr) ==
    IF resultsOf(results, pr) = {} THEN "not_run" ELSE inputByPrompt(results, pr).status

\* observedTransitionForPrompt: what the worker observed, else what readiness says now.
observedTo(stage, results, pr) ==
    IF resultsOf(results, pr) # {} /\ inputByPrompt(results, pr).observed # Unobserved
    THEN inputByPrompt(results, pr).observed
    ELSE stage[pr.repo]

verificationPassed(stage, results, pr) ==
    /\ resultsOf(results, pr) # {}
    /\ inputByPrompt(results, pr).status = "success"
    /\ inputByPrompt(results, pr).observed # Unobserved
    /\ observedTo(stage, results, pr) = pr.to

comparePromptOutcome(stage, results, pr) ==
    LET declared == declaredStatus(results, pr)
        observed == observedTo(stage, results, pr)
    IN  IF declared # "success" THEN declared
        ELSE IF verificationPassed(stage, results, pr) THEN "success"
        ELSE IF observed # pr.to THEN "mismatch"
        ELSE "partial_success"

\* Mutant: one successful prompt makes the repository successful.
repoStatusOptimistic(stage, results, r) ==
    LET outcomes == {comparePromptOutcome(stage, results, pr) : pr \in promptsOf(stage, r)}
    IN  IF "success" \in outcomes THEN "success"
        ELSE IF "mismatch" \in outcomes THEN "mismatch"
        ELSE IF "failed" \in outcomes THEN "failed"
        ELSE IF "partial_success" \in outcomes THEN "partial_success"
        ELSE "not_run"

\* repo_results: the worst of the repository's prompts; not_run only when all are.
repoStatus(stage, results, r) ==
    LET outcomes == {comparePromptOutcome(stage, results, pr) : pr \in promptsOf(stage, r)}
    IN  IF "mismatch" \in outcomes THEN "mismatch"
        ELSE IF "failed" \in outcomes THEN "failed"
        ELSE IF "partial_success" \in outcomes THEN "partial_success"
        ELSE IF outcomes \subseteq {"not_run"} THEN "not_run"
        ELSE "success"

\* The last of the repository's prompts in prompt order, if it has one.
topPrompt(stage, r) ==
    CHOOSE pr \in promptsOf(stage, r) : \A other \in promptsOf(stage, r) : other.wave <= pr.wave

-----------------------------------------------------------------------------
(* The updated state and the next queue. *)

Reconciliations == {"completed_as_planned", "completed_with_drift", "partial", "failed",
                    "not_run", "stale_plan_or_superseded"}

\* determineReconciliationStatus.  Results from a command line carry no blockers, so the
\* status blocked and the event receipt_blocked that follows from it do not occur.
determineReconciliationStatus(stage, results, r) ==
    LET status  == repoStatus(stage, results, r)
        top     == topPrompt(stage, r)
        updated == observedTo(stage, results, top)
    IN  IF promptsOf(stage, r) = {} THEN "stale_plan_or_superseded"
        ELSE IF status = "not_run" THEN "not_run"
        ELSE IF status = "mismatch"
             THEN IF updated = stage[r] THEN "stale_plan_or_superseded" ELSE "completed_with_drift"
        ELSE IF status = "failed" THEN "failed"
        ELSE IF status = "partial_success" THEN "partial"
        ELSE IF updated # top.to THEN "completed_with_drift"
        ELSE "completed_as_planned"

reconcile(stage, results) == [r \in Repos |-> determineReconciliationStatus(stage, results, r)]

\* determineActionState.
needsRetry(repos)  == {r \in Repos : repos[r] \in {"partial", "failed", "not_run"}}
needsReplan(repos) == {r \in Repos : repos[r] = "stale_plan_or_superseded"}
needsReview(repos) == {r \in Repos : repos[r] \in {"completed_with_drift",
                                                   "stale_plan_or_superseded"}}

\* deriveNextAdoptionQueueFromUpdatedState: a retry or a replan for every repository that is
\* not completed.
nextQueue(repos) ==
    {[repo |-> r, action |-> "replan"] : r \in needsReplan(repos)}
      \union {[repo |-> r, action |-> "retry"] : r \in needsRetry(repos)}

completedRepos(repos) == {r \in Repos : repos[r] \in {"completed_as_planned", "completed_with_drift"}}

\* Mutant: one completed repository is enough, whatever is left to retry.
receiptCompletedOnce(repos) ==
    completedRepos(repos) # {} /\ needsReplan(repos) = {} /\ needsReview(repos) = {}

\* determineStoryLifecycleEvent: whether the updated state is the event receipt_completed.
receiptCompleted(repos) ==
    /\ Repos # {} /\ completedRepos(repos) = Repos
    /\ needsRetry(repos) = {} /\ needsReplan(repos) = {} /\ needsReview(repos) = {}
=============================================================================
