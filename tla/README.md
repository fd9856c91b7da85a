# TLA+ models of Playbook's governed execution loop

Playbook is a command line tool that governs changes to a repository: it plans
work, splits it into lanes, authorises workers to take them, records what they
did, promotes what was learned, repairs failing tests within bounds, and hands
bounded requests to an external runtime (Lifeline). It is a TypeScript monorepo
(`packages/cli`, `engine`, `core`, `contracts`, `node`). There is no server and
no database. **All state is JSON files under `.playbook/`, every command is a
process of its own, and no command takes a lock.** Correctness is therefore a
question of what is read, what is written, in which order, and what happens when
a process dies or another one runs in between. That is what these modules
model: one action is one file read or one file write of one process.

## 1. The system

### Components that are modelled

| Component | State | Operations | Talks to |
|---|---|---|---|
| `execute` (`cli/.../execution/run.ts`) | its own locals | validate workset and launch plan, run every lane not yet completed, finalize, report; `--worker-adapter`: hand adoption prompts to an adapter | the supervisor, merge guards, workset, launch plan, interop registry; the adoption loop |
| Supervisor (`engine/.../execution/supervisor.ts`) | `execution-state.json`, the two telemetry files | `startExecution`, `updateLaneState`, `recordWorkerResult`, `finalizeExecution` | run-state, merge guards; reads `execution-plan.json` of `route` |
| Durable run-state (`orchestrationRunState.ts`) | `execution-runs/<run-id>.json` | reconcile from fingerprint, atomic replace | written by the supervisor only |
| Merge guards (`mergeGuards.ts`) | `execution-merge-guards.json` | evaluate every run file against the launch plan on disk | run-state, launch plan, receipt files |
| Workset planner, `orchestrate` | `workset-plan.json`, `lane-state.json` | compile a workset, derive its lanes | read by every lane and worker command |
| Lane state, `lanes` | `lane-state.json` | derive, `start`, `complete` | workset, worker results |
| Worker results, assignments, launch plan, `workers` | `worker-results.json`, `worker-assignments.json`, `worker-launch-plan.json` | `assign`, `launch-plan`, `submit` | lane state, change scope, verify and policy reports |
| Change scope | `change-scope.json` | declared by `plan`, `analyze-pr`, `ai propose`; overwritten by `workers launch-plan` | launch plan |
| Interop runtime, `interop` | `lifeline-interop-runtime.json`, `interop-updated-truth.json` | `register`, `emit`, `emit-fitness-plan`, `draft`, `run-mock`, `reconcile` | rendezvous manifest, `plan.json`, contract mirror, Lifeline |
| Rendezvous | `rendezvous-manifest.json` | `create` | remediation artifacts, git HEAD |
| Stories (`engine/src/story`, `story`, `route`, `promote story`) | `stories.json`, `execution-plan.json` | create, status, promote, plan; linked by `route`, closed by receipts | workflow promotion, the adoption loop |
| Adoption loop (`engine/src/adoption`, `receipt`, `status updated`) | `execution-outcome-input.json`, `execution-receipt.json`, `execution-updated-state.json` | queue and prompts from readiness; ingest, bridge, replay | workers outside Playbook, readiness of the repositories, stories |
| Workflow promotion (`workflowPromotion.ts`) | staged artifacts, `promotion-receipts.json` | stage, validate, copy over the committed artifact, log a receipt | every governed write |
| Patterns (`promotion.ts`, `promote`) | the global `patterns.json` | promote, retire, demote, recall, supersede | workflow promotion |
| Knowledge (`memory/knowledge.ts`, `memory`) | `memory/candidates.json`, one knowledge file per kind | promote, retire, supersede, prune | replay candidates |
| Test autofix (`testAutofix.ts`, `remediationHistory.ts`, `testFixPlan.ts`) | `test-autofix-history.json` | triage, plan, repeat policy, confidence, apply, record | `apply --from-plan`, CI |
| CI transport (`.github/scripts`, `playbook-ci` action, `ci.yml`) | uploaded artifact archives | policy gates, hydrate and merge histories, upload | test autofix |

What is hard here: overlapping commands that read, change and rewrite the same
file; a command that dies between two of its writes; a file rewritten in place
and left truncated; a staged path that several commands share; two files that
describe the same thing and are written one after the other; ids that are reused
(lane ids), truncated (run ids), repeated (knowledge ids, run numbers of
overlapping CI runs) or derived from content (result ids); decisions taken on a
copy that has become stale. `PROJECT.json` lists each such place with its line
under `hazards`.

### What makes each of them correct

* *Managed execution*: an interrupted run resumes without relaunching what is
  completed and eventually completes; the run-state never claims what has no
  receipt; success and merge eligibility are only reported for lanes that were
  executed under the plan in question.
* *Lanes and workers*: dependency gates are strict; `merge_ready` and launch
  eligibility stand for work really done.
* *Interop*: nothing is real without a receipt; one request per idempotency key,
  executed once; the updated truth is derived from receipts and final; every
  request is eventually settled.
* *Stories and adoption*: a story moves for a reason (a plan, a completed
  receipt, an operator), a closed one stays closed, and every repository that did
  not end as planned is in the next queue or under review.
* *Patterns*: supersession is linked in both directions; the log explains the store.
* *Knowledge*: one active entry per fingerprint, which pruning keeps and
  retirement finds.
* *Test autofix*: a known-bad repair is not repeated, nothing is blocked for a
  failure that did not happen, and every admitted run is recorded.

### Not modelled

Each of these is listed in `PROJECT.json` with its sources and the reason:

* *only read*: `index`, `query`, `ask`, `explain`, `graph`, `verify`, the other
  views of `status`, `remediation-status`, interop follow-ups, the observer's views;
* *arithmetic*: telemetry and learning summaries in floating point;
* *edits*: the fixers behind `apply` change arbitrary files; whether they applied
  and verified is an input of `TestAutofix`;
* *library without a caller*: the runtime lifecycle store and the scheduler, whose
  transitions no command drives;
* *advisory*: the session store, which no governed decision reads;
* *composition in one process*: `cycle` runs other commands in sequence; its own
  state file is read by reports and improvement proposals;
* *generated*: `cli-wrapper` is a build of the packages above, file by file.

These make up most of the repository by lines: schemas, views, renderers,
analysers and the generated copy. The map covers the parts in which the order of
steps decides.

## 2. Modules

| Module | What it is |
|---|---|
| `ManagedExecution` | `execute`, supervisor, run-state, merge guards, telemetry |
| `ResumableRun` | what `execute` promises: an abstract specification that `ManagedExecution` implements |
| `LaneOrchestration` | `orchestrate --tasks-file`, `lanes`, `workers`, change scope |
| `LifelineInterop` | `interop`, the interop runtime, `rendezvous` |
| `FleetAdoption` | the pure functions of the adoption loop |
| `StoryBacklog` | stories, `route --story`, `receipt`, the worker bridge, `status updated`; composes `FleetAdoption` with the governed writes |
| `PatternPromotion` | the global pattern store and its receipt log |
| `MemoryKnowledge` | promoted knowledge |
| `TestAutofix` | test-autofix and its history across CI runs |
| `MC...` | small instances for TLC, with one `.cfg` per run |
| `...Proofs`, `ManagedExecutionRefinement` | theorems, checked by TLAPS |

All but `FleetAdoption` and `ResumableRun` follow one pattern. `pc[p]` is where
process `p` stands, `mem[p]` its local variables, among them the copies of the
files it has read; a file variable holds the parsed content or `None`/`NoFile`.
`Start`/`Invoke` begin a command, `Step` holds the reads and writes, `Crash` ends
a process between any two of them, `End` forgets its memory. Pure functions of
the engine are operators with the same name (`reconcileOrchestrationRunState`,
`deriveLaneState`, `emitBoundedInteropActionRequest`, ...). The `map` of
`PROJECT.json` gives the source lines of each definition. Operators commented
as *Mutant* are deliberately wrong versions of the definition that follows
them, used to see that the properties notice.

### ManagedExecution and ResumableRun

| Action | Code |
|---|---|
| `Invoke`, `ValidateLaunchPlan` | `runExecution` up to `validateLaunchPlan` and the capability authorization |
| `ReadPriorRun`, `WriteReconciledRun`, `WriteStartedExecution` | `startExecution` |
| `ReadForUpdate`, `ReadForRecord`, `ReadForFinalize`, `WriteExecution`, `ReadRun`, `WriteRun` | the shared shape of `updateLaneState`, `recordWorkerResult`, `finalizeExecution`: execution-state first, then the run it names |
| `ReadTelemetry`, `TruncateTelemetry`, `WriteTelemetry` | the telemetry of `recordWorkerResult`; `fs.writeFileSync` truncates and then writes |
| `ReadGuardInputs`, `WriteGuards` | `evaluateExecutionMergeGuards` at the end of each call |
| `Return`, `Report` | the loop of `run.ts` and its last report |
| `Orchestrate`, `WriteLaunchPlan`, `RecordReceipt`, `RegisterCapability`, `Route` | the commands that write what `execute` reads |

A launch plan is a record of what the supervisor and the guards read of it,
including `rev` for everything else; equality of records stands for equality of
SHA-256 fingerprints. `RunIdOf` need not be injective, because a run id keeps
12 hex digits. Run-state files and `execution-state.json` are written to a
temporary file that is renamed (`orchestrationRunState.ts:69`, `artifactIO.ts:146`),
so neither is ever torn and a write is one step. `executed` is a history
variable: which lanes a process authorised by a plan has executed. `run.ts`
itself only records completed results; the supervisor's interface also takes
failed ones, and `Outcomes` says which a run allows.

`ResumableRun` knows no files: a run has an owner (a plan) and a set of lanes
done, both reset together when another plan takes the run id over; lanes are done
one at a time; a judgement of mergeability may only name finished runs. In
`ManagedExecution` the owner is the fingerprint of the run file, the lanes done
are those it calls completed, and the judgement is the guards file
(`ImplementsResumableRun`).

### LaneOrchestration

A workset is a record of the lane attributes later commands read: levels
(`dependency_edges` run from every lower to every higher level), worker
readiness, conflicts, protected-doc stage, surfaces, tasks. Lane ids are reused
from workset to workset, as in the code. `Begin...` start a command with its
arguments, `ReadResults`, `ReadState`, `CheckScope` and `ReadScope` are its
reads, `Transition` is `applyLaneLifecycleTransition` on the copy, `Write...`
its writes in the order of the code. `Rank` is the order of result ids, which
are content hashes: any injective order. `worked` (what was really completed) is
a history variable.

### LifelineInterop

The runtime file is a record of registrations, the list of requests and the set
of receipts. `Begin...` read it, `Apply` does the command's work on the copy
(`Register`, `Emit`, `RunMock`, `Reconcile`, `Create`) and ends the process when
a check throws, `WriteTruth`, `WriteRuntime` and `WriteManifest` are the writes,
truth before runtime as in the code. `LifelineReturns` is the external runtime,
`HeadMoves` git and `MirrorSynced` the contract mirror: they are outside this
repository and modelled from how it uses them. An idempotency key is the pair
of action and remediation id. `executed` counts how often a key was executed.

### FleetAdoption and StoryBacklog

`FleetAdoption` is the chain of pure functions from readiness to the next queue:
`codexPrompts` (work queue and execution plan), `comparePromptOutcome` and
`repoStatus` (receipt), `determineReconciliationStatus` (updated state),
`nextQueue`, and `receiptCompleted`, the lifecycle event a story waits for. A
repository's readiness is a stage from 1 to 5; a prompt leads it one stage up.

| Action of `StoryBacklog` | Code |
|---|---|
| `ReadToCreate`, `ReadToSetStatus`, `ReadToPromoteCandidate`, `GenerateCandidates`, `ReadToPromoteStory` | what `story` and `promote story` make of the backlog they read |
| `StageStories`, `CommitStories` | `stageWorkflowArtifact`: write the staged path, validate, copy; `CommitStories` copies what the path holds by then |
| `ReadLog`, `WriteLog` | `emitPromotionReceipt` |
| `ReadToRoute`, `StagePlan`, `CommitPlan` | `route`, which writes the plan first and then the story as it was read before |
| `Dispatch`, `Work`, `HandIn`, `AdapterFails` | the prompts handed to workers by the bridge or by an operator; `Work` is outside Playbook |
| `BuildExecutionControlLoop`, `LoadStoryReference`, `WriteOutcome`, `WriteReceipt`, `StageUpdated`, `CommitUpdated`, `PromoteStoryLifecycle` | `receipt ingest` and the end of the bridge |
| `ReadForStatusUpdated`, `Replay` | `status updated`, `receipt replay` |

`setByOperator`, `planned`, `completed` and the `basis` of an updated state are
history: what an operator decided, which plans and which completions were
committed, and what an updated state was computed from.

### PatternPromotion

`Prepare...` read the store and compute the next one, `Stage` and `Commit` go
through the staged path shared by all commands, `ReadLog` and `WriteLog` add the
receipt. A receipt's id hashes its other fields, so the log is a set. `overlapped`
is a history variable: the log can be incomplete once commands overlapped.

### MemoryKnowledge

A knowledge id is derived from the candidate, so the candidate stands for it, and
promoting it again makes a second entry with the same id; a file is the set of
its entries, because files are kept sorted by promotion time. `afterPromote`,
`afterRetire`, `afterSupersede` and `afterPrune` are the operations on the entries
read; each is a read step and a write step, and pruning visits the kinds' files
one after the other. Promotion timestamps are taken to increase strictly
(`clock`): the code reads the wall clock in milliseconds.

### TestAutofix

| Action | Code |
|---|---|
| `Checkout` | tests failed and the policy gates (`evaluate-ci-remediation-policy.cjs`) let test-autofix run, for a protected target as a dry run; a re-run passes `attemptLimitReached` only with the retry override |
| `Hydrate` | `hydrate-remediation-history.cjs`: list the newest archives of other runs (`listArtifacts`) and merge their histories; an archive without a history fails the step |
| `Decide`, `Apply`, `Record` | `runTestAutofix`: repeat policy and confidence; outcome of apply and rerun; history entry |
| `Upload` | the `if: always()` upload of `ci.yml` |
| `StepFails`, `RunnerLost`, `OtherRun` | a step that throws (artifacts are still uploaded), a lost runner, a CI run or re-run that never gets to test-autofix |

`ci` holds what each CI run was dispatched with, by run id. An attempt belongs to a
new run or is a re-run of an earlier one, none of whose attempts is under way: it
keeps the run id and the inputs, in particular the retry override. Archives carry
their run id, and hydration passes over those of its own run
(`hydrate-remediation-history.cjs:55`). GitHub shows one page of artifacts of any
name, without the expired ones (`:42`, `:54-57`): `Hydrate` chooses how many of the
newest archives the page holds. `retries` counts the re-runs that reach test-autofix,
`unlisted` the hydrations that were shown no archive of another run though there was one.

A failure log is the set of its stable signatures; confidence is computed in
thousandths with the code's rounding. `failed` and `stopped` are history
variables that count what really happened, by signature and repair class. An
archive is taken to hold what the upload step names. All entries carry the same
source id, path and generation time (`testAutofix.ts:367`, `:398`), so entries are
told apart by their original run id alone, which is what `sortsFirst` and
`firstWith` model.

## 3. Runs

Run with `tlc -workers 2 -config <cfg> <module>`.

| Run | Cfg | Question | States |
|---|---|---|---|
| `exec_single` | `ManagedExecution_single` | Does one invocation at a time implement the abstract run and keep the guards and the telemetry right, with crashes, colliding run ids and failed results? | 1,081,027 |
| `exec_concurrent` | `ManagedExecution_concurrent` | Do two overlapping invocations of one plan keep the run-state coherent and the guards sound? | 625,844 |
| `exec_resume` | `ManagedExecution_resume` | Do repeated invocations complete a settled plan in spite of crashes? | 14,078 |
| `lanes_overlap` | `LaneOrchestration_overlap` | Do overlapping lane and worker commands keep the dependency order, and do `merge_ready` and launch eligibility stand for work done? | 1,988,963 |
| `lanes_stale` | `LaneOrchestration_stale` | ... also for the lanes of a second workset? **Violated** | |
| `interop_mock` | `LifelineInterop_mock` | Is the request/receipt loop sound with the mock runtime, changing artifacts and crashes, and does every request settle? | 140,656 |
| `interop_returned` | `LifelineInterop_returned` | ... with an external runtime that answers at any time? | 163,478 |
| `stories` | `StoryBacklog_single` | Do stories move for a reason, and is every worker result accounted for, with crashes anywhere? | 2,773,702 |
| `patterns` | `PatternPromotion_overlap` | Does the pattern store stay linked when commands overlap on the staged path? Does the log explain it? | 1,878,463 |
| `memory` | `MemoryKnowledge_overlap` | Does a fingerprint keep one active entry that prune keeps and retire finds, under overlap? | 693,556 |
| `autofix` | `TestAutofix_ci` | Does the history, merged from archives of runs that overlap, fail, are lost or are run again, stop known-bad repairs and nothing else, re-runs included? | 2,340,306 |
| `autofix_bare` | `TestAutofix_bare` | Is every admitted run recorded after a CI run that left no history? **Violated** | |

### Properties

* `ReceiptBacked`: a run-state backs every completed or failed lane with a
  receipt ref and has the status its lanes derive to, under any interleaving.
* `ImplementsResumableRun`: the refinement of `ResumableRun`; in particular a
  completed lane stays completed as long as its file belongs to the same plan, so
  a resume never relaunches it, and the guards judge only finished runs mergeable.
* `MergeOnlyExecuted`: a run the guards call mergeable had every eligible lane
  executed under that very plan.
* `SuccessMeansCompleted`: success is reported only over a completed run-state.
* `TelemetryFirst`: a completed lane has its telemetry.
* `ResumeCompletes`: once an authorising plan stays put, its run completes.
* `DependencyOrder`: no lane runs or is complete before the lanes it depends on.
* `MergeReadyWorked`, `LaunchAfterDependencies`: merge readiness and launch
  eligibility rest on work done for the tasks the lanes now carry.
* `RealOnlyWithReceipt`, `OneRequestPerKey`, `StateIsOutcome`, `ExecutedOnce`:
  the request/receipt loop is sound.
* `TruthBacked`, `TruthIsFinal`: the updated truth comes from receipts and does
  not change its mind.
* `EveryRequestSettles`: every request ends with its outcome in the truth.
* `CompletionBacked`, `PlanPrecedesProgress`: a story is done, reconciled or in
  progress only with a committed completion or plan for it, or by an operator.
* `ClosedStaysClosed`: only `story status` takes a story out of done or archived.
* `NothingForgotten`: a repository in neither the next queue nor review was observed
  where its last prompt leads, and none of its prompts failed or drifted.
* `SupersessionLinked`: `superseded_by` and `supersedes` agree in the committed store.
* `Auditable`: the receipt log explains every pattern, without overlap and crash.
* `OneActive`, `PruneKeepsActive`, `ActiveCanBeRetired`, `SuccessorListed`: the
  knowledge files keep one active entry per fingerprint, reachable and linked.
* `RunsNumbered`: every history numbers its runs 1, 2, 3 ...
* `KnownBadStops`: a repair class fails at most twice per signature, and once more for
  each record lost to a failed step, a lost runner or an overlap, once more for each
  re-run with the retry override, and twice more for each listing that shows none of
  the archives. None of these terms can be spared: TLC finds the property violated
  in the same instance when one of them is dropped.
* `BlockedForCause`: a block for repeated failure rests on two runs that did fail.
* `AdmittedRunRecorded`: a CI run the gates let through records its test-autofix.

Each module has one `TypeOK`. Every property of a passing run has a mutant in
`PROJECT.json`, a plausible bug in the code that makes TLC report it.

### Bounds, and why they are enough

* `ManagedExecution`: two lanes are the least with a first and a second round of
  the loop; three plans (`exec_single`) give two plans for one workset, which
  share a run id, and one that is never authorised; `MaxEnv` = 5 changes by other
  commands allow a workset, a plan, a second plan and two further changes;
  `MaxCrashes` = 2 allows a crash in the recovery from a crash. With two
  processes one lane and one plan suffice: the races are on whole files.
* `LaneOrchestration`: two lanes on two levels are the least with a dependency;
  six commands are what it takes to plan, launch, submit, launch, submit and
  derive again, which reaches `merge_ready`. The second workset has a conflict,
  a pending protected doc and a blocked task. Tasks have two values so that a
  re-planned lane can carry something new (`lanes_stale`).
* `LifelineInterop`: two actions, one of which the mock runtime blocks; two
  contents of a remediation artifact, two heads; `MaxRuns` bounds everything
  that adds something, `run-mock` and `reconcile` are unbounded.
* `StoryBacklog`: one story, which may be absent, ready or closed at the start;
  two repositories, both a stage from ready, or one with a prompt in each wave
  beside one that is ready; four commands, one of which hands out prompts,
  allow route, work and ingest with one command in between. One command at a
  time: under overlap the shared staged path undoes any of these (section 5).
* `PatternPromotion`: three patterns give chains of supersession, two
  fingerprints a conflict, three commands a third one that runs on what two
  overlapping ones left.
* `MemoryKnowledge`: two candidates of one kind with one fingerprint, one of
  another kind with the same fingerprint, and an open question; five operations
  allow promote, retire and promote again beside an overlapping prune.
* `TestAutofix`: two low-risk findings of different repair classes and one that needs
  review, in two logs; runs that may be run again and dry runs that may not; a
  look-back of two archives (the workflow's is five); a confidence threshold of 0.45,
  under which a repair is attempted again after one failure (at 0.7, the default of the
  workflow's variable, one failure stops a repair that never succeeded). `MaxRuns` = 3 attempts reach
  test-autofix, one more than the policy allows a known-bad repair; `MaxMishaps` = 2
  allows for any two of an overlap, a failed step, a lost runner, a listing without
  archives and a run that never reaches test-autofix. Re-runs are not mishaps: any of
  the attempts may be one.
* Symmetry is used over processes, patterns, fingerprints and like candidates in
  safety runs only. Deadlock is checked in `ManagedExecution` and
  `LifelineInterop`; in the other modules nothing can happen once the bounded
  number of commands has been run.

### Fairness

* `ManagedExecution!FairSpec`: a running process keeps running (weak fairness of
  `Step`, the scheduler's doing), and an invocation that has ended is followed by
  another (weak fairness of `Invoke`: the documented way to resume is to run
  `execute` again). Crashes are bounded, other commands need never come.
  `exec_resume` leaves out `route` and a crash inside a telemetry write, because
  either stops every later invocation (section 5).
* `LifelineInterop!FairSpec`: weak fairness of `Step`; strong fairness of starting
  `run-mock` and `reconcile`, the two commands an operator repeats to drain the
  queue. Strong, because other commands may occupy the process in between. The
  external runtime has no fairness: nothing in this repository makes it answer.
  `EveryRequestSettles` is conditional on a mirror that knows every action, since
  reconcile throws otherwise.
* The other modules state no fairness: nothing in them has to happen by itself.
  Stories, patterns and knowledge move only when somebody runs a command, and CI
  runs only when somebody pushes.

## 4. Proofs

The proof modules hold for every number of processes, lanes, plans, receipts,
stories, repositories, patterns, candidates, archives, crashes and commands. The
assumptions are those of the modules: the shape of the constants
(`ConstantsAssumption`, `LaneConstants`, `InteropConstants`, `StoryConstants`,
`PatternConstants`, `MemoryConstants`, `AutofixConstants`) and that `None` and
`NoHistory` are not among the values they stand apart from (`SentinelsAssumption`,
`LaneSentinels`, `InteropSentinels`, `NoHistoryAssumption`). TLC evaluates them in
every run. Proofs about knowledge also rest on the strictly increasing `clock` of
the model.

Every invariant and every action property of a passing run is stated by a theorem:

| Module | Theorem | Under | Property |
|---|---|---|---|
| `ManagedExecutionProofs` | `TypeCorrect`, `RunsBacked` | | `TypeOK`, `ReceiptBacked` |
| `ManagedExecutionRefinement` | `ExecutionImplementsRun` | `Sole` | `ImplementsResumableRun` |
| | `MergeableWasExecuted` | `Sole \/ OnePlan` | `MergeOnlyExecuted` |
| | `SuccessIsCompletion`, `TelemetryPrecedesRun` | `Sole` | `SuccessMeansCompleted`, `TelemetryFirst` |
| `LaneOrchestrationProofs` | `LaneTypes`, `LanesOrdered` | | `TypeOK`, `DependencyOrder` |
| | `MergeReadyMeansWork`, `LaunchedInOrder` | `LanesKeepTasks` | `MergeReadyWorked`, `LaunchAfterDependencies` |
| `LifelineInteropProofs` | `InteropTypes`, `RealWithReceipt`, `OneRequest` | | `TypeOK`, `RealOnlyWithReceipt`, `OneRequestPerKey` |
| | `StateFollowsReceipt` | `OneRuntime` | `StateIsOutcome` |
| | `TruthIsBacked` | `Sole` | `TruthBacked` |
| | `TruthFinal` | `OneRuntime /\ Sole` | `TruthIsFinal` |
| | `KeysExecutedOnce` | `Sole /\ Returned = {}` | `ExecutedOnce` |
| `StoryBacklogProofs` | `TypeCorrect`, `ResultsNeverForgotten` | | `TypeOK`, `NothingForgotten` |
| | `ClosedByReceipt`, `PlannedBeforeProgress`, `ReopenedByOperatorOnly` | `Sole` | `CompletionBacked`, `PlanPrecedesProgress`, `ClosedStaysClosed` |
| `PatternPromotionProofs` | `TypeCorrect`, `SupersessionAlwaysLinked`, `StoreAuditable` | | `TypeOK`, `SupersessionLinked`, `Auditable` |
| `MemoryKnowledgeProofs` | `TypeCorrect`, `AtMostOneActive`, `PruningKeepsActive`, `ActiveAlwaysRetirable`, `SuccessorAlwaysListed` | | `TypeOK`, `OneActive`, `PruneKeepsActive`, `ActiveCanBeRetired`, `SuccessorListed` |
| `TestAutofixProofs` | `TypeCorrect`, `RunsAlwaysNumbered`, `KnownBadRepairsStop`, `BlockedWithCause` | | `TypeOK`, `RunsNumbered`, `KnownBadStops`, `BlockedForCause` |

The hypotheses mark the limits of what the code guarantees:

* `Sole`, no two commands at once (one may die and be followed by another).
  Overlapping `execute` invocations lose updates of run-state and telemetry; an
  overlapping interop command brings back an executed request and removes receipts
  the truth rests on; overlapping `story` and `route` commands commit what the other
  has staged. Section 5 describes each of these.
* `OnePlan`, one launch plan: any number of invocations may then overlap, because
  whatever run `execution-state.json` names belongs to that plan.
* `LanesKeepTasks`, a lane id stands for the same tasks in every workset it occurs in.
  `lanes_stale` shows what happens otherwise.
* `OneRuntime`, requests are executed by the mock runtime or by the external one: a
  request both have answered keeps the state of one and the receipt of the other.
  `Returned = {}` says that the external one is absent, whose executions the
  repository cannot count.

### Invariants of one file: snapshots

Properties of *one file* that every operation preserves *on the copy it works on*
hold of every copy and of every file, whoever writes last: a stale copy is
outdated, never incoherent. So the inductive invariant `IInv` says of the file *and
of each process's copy* what the property says of the file.

* Managed execution: the run-state read is backed, the one a reconcile or
  `ChangedRun` makes of it is backed.
* Lanes: every lane-state a process holds is `Ordered`, because `deriveLaneState`
  gates on the overrides it is given, whatever they are.
* Interop: `Good(rt)`, that is typed, `Receipted` and `IdempotentRequests`, is kept
  by each operation of the runtime. `FInv` adds that a receipt and its request agree
  on the outcome (`Settled`), for `StateIsOutcome`.
* Stories: every updated state, committed, staged or in memory, is what
  `FleetAdoption` derives from its basis, and what is derived forgets nothing.
* Patterns: the store, the staged file and every artifact in memory are `Linked`.
* Knowledge: in every snapshot an active entry is the *latest* promotion of its
  fingerprint (`Latest`) and superseded by nothing (`Clean`). `OneActive` alone is
  not inductive: pruning keeps the latest entry of a fingerprint, and retiring looks
  at the latest of an id, so it has to be known that the latest is the active one.
* Autofix: when every source is numbered 1, 2, ... by original id, their original
  ids form an interval, so the merge is numbered too.

The rest of each `IInv` ties `pc[p]` to what `mem[p]` must hold there, without
which the typing of a write could not be shown.

### Relations between files, and between a file and history

These compare a file with what happened (`executed`, `worked`, `completed`,
`failed`, the log) or with another file, so a stale copy can break them.

* *History only grows* (`EInv`, `WInv`). What a copy says was done was done and stays
  done, so copies may be stale, provided every step credits work to whom it belongs:
  the run a process writes to is of its own plan (`OwnRun`, hence `Sole` or
  `OnePlan`), and the tasks of a receipt's lane are those of the lane it completes
  (hence `LanesKeepTasks`). `WInv` says so of lane-state, results, launch plan and
  each process's copies.
* *Nothing is stale with one process* (`SInv`, `RInv`, `MInv`; interop `TInv`, `AInv`,
  `XInv`; stories `CInv`). These add to `IInv` what the one process knows at each label:
  its copies are current; the lanes ahead of it are not completed and those behind it
  are (`Reflects`); the telemetry it has still to write is that of the lane in hand
  (`Measured`); the truth is behind both the file and the copy that will replace it;
  the requests it is about to count as executed are pending in the file; the staged
  backlog is its own, and what it intends has its cause (`Intends`).
* *The log explains the store* (`AuditInv`, patterns): between copy and receipt
  the store is explained by the log together with the receipt about to be logged. Once
  commands overlapped or one crashed, nothing is claimed.
* *Every forgotten failure is paid for* (`KInv`, autofix). `failed` is the number of
  real attempts, a history may count fewer. `Price` adds up what the lost records,
  the re-runs and the empty listings have paid for. For each signature and repair class
  there is a number `b` of failures, at most two, that no history in use falls short of
  (`Bounded`): with no run active `failed <= b + Price`; with runs active, `failed` and the
  number of `Clean` runs, those with no failure of their own to record, are together
  at most one more. An attempt that fails makes its run no longer clean, and when the
  last active run uploads a failure `b` rises by one. What a run will read is the newest
  archive of *other* runs, and that knows `b` failures too (`AllKnow`), but for a re-run of
  the run that uploaded last (`Behind`): it misses the one failure its own archive has
  added, so `b` falls by one and the re-run pays. A run shown no archive starts `b`
  anew and pays two. A repair is attempted only if the history read counts fewer than
  two, so `b < 2` then. The lemmas below it say that a merge counts at least what its
  newest archive counts, and counts only runs some archive holds.
* *No failure is counted that did not happen* (`CInv`, autofix): the distinct entries
  recorded for a signature and class, and those about to be, are no more than the
  attempts that ended without repair, so merging cannot invent a second failure.

The refinement proof uses `SInv`: the run file belongs to the process's plan from the
reconcile on, the lanes still to be done are not completed, and the runs about to be
judged mergeable are finished (`Current`). Then a write of the run-state is a `Start`
or a `Complete` of the abstract run or leaves it unchanged, a write of the guards is
a `Judge`, and every other step a stutter.

Only model-checked: liveness under fairness, which is out of the prover's reach
(`ResumeCompletes`, `EveryRequestSettles`). No module declares a RECURSIVE operator.

## 5. Where the code and its documentation disagree

Shown by a run (details and quotations in `PROJECT.json`, `findings`):

1. `lanes_stale`: receipts are matched by lane id only, so those of an earlier
   workset complete lanes of the next.
2. `autofix_bare`: one archive without a history makes hydration throw, because
   the message it looks for ("exit status 2") is not the one Node produces; the
   run is skipped and leaves another such archive, until they expire after 14
   days. A fix that skips such archives should do so before `slice(0, limit)`
   (`hydrate-remediation-history.cjs:57`), or five ordinary runs push the history
   out of sight.

Seen in the models as well, and kept here as notes for a reader of the code.

*Managed execution*

* With `execution-plan.json` present (after any `route`), `recordWorkerResult` throws
  on every lane, because the execution-state is read without unwrapping its envelope
  (`supervisor.ts:433`); no run completes any more, although
  `docs/commands/README.md:384` says that interrupted runs can resume. Set
  `RouteMayRun` in `ManagedExecution_resume.cfg`.
* Supervisor calls write to the run named by the *shared* `execution-state.json`
  (`supervisor.ts:454`); with overlapping invocations of different plans, results are
  credited to another invocation's run, which the guards then release, against
  `docs/commands/README.md:387` ("fails closed"). An instance of two
  processes and two plans shows it.
* A crash inside a telemetry rewrite leaves a file every later
  `recordWorkerResult` fails to parse (set `CrashMidTelemetry` in `exec_resume`).
* Overlapping invocations of one plan may both report success although a stale
  copy has left the run-state uncompleted; a resumed invocation clears the
  worker metadata of lanes completed before.

*Lanes and workers*

* `workers launch-plan` overwrites the declared scope with every surface asked for
  (`changeScope.ts:164`); run twice, it launches what the scope excluded, against
  `docs/PLAYBOOK_PRODUCT_ROADMAP.md:42` ("bounded by those declared surfaces").
* Overlapping `workers submit` commands may lose an accepted receipt; of two
  receipts for a lane the content hash decides which counts; a plain `lanes`
  discards `start` and `complete`; `lanes complete` leaves dependents blocked,
  because their recorded status is carried along as an override.

*Interop*

* Nothing writes `rendezvous-status.json`, and its absence counts as release-ready
  (`interop.ts:296`), so stale and incomplete manifests release requests, against
  `docs/architecture/playbook-lifeline-interop.md:32`.
* An overlapping interop command may bring back a request already executed, which
  is then executed again, and may remove receipts the truth was derived from; a
  failed request is never retried, since its key has a request already.

*Stories and adoption*

* The bridge and `receipt ingest` plan again from the readiness the workers have just
  changed (`receiptIngest.ts:255`); a result for a prompt of the earlier plan that
  the new one lacks refuses the whole batch. A worker that really advanced its
  repository can thus make its own result unacceptable.
* `receipt replay` compares the recomputed artifacts with keys in insertion order
  against a file whose keys were sorted when it was staged (`replay.ts:61-92`), so a
  replay of an unchanged outcome does not match.
* A story taken out of `in_progress` before its receipt is recorded as reconciled
  without being done; a repository that is ready from the start counts as stale
  and keeps every story of its fleet from completing; `status updated` commits the
  updated state without its story reference and passes over unknown prompts; of
  several results for one prompt success wins; the statuses `partial_success` and
  `blocked` cannot come about from results given on the command line.
* `story` and `route` share a staged path: an overlapping command commits what
  another one staged, blocked artifacts included.

*Patterns*

* Overlapping commands lose updates and receipts. A crash between copy and receipt
  leaves a transition unexplained, and running the command again logs a "noop".
* `pattern-supersede` may also reactivate the successor, which no receipt mentions;
  two patterns may supersede one another; `pattern-recall` keeps `superseded_by`.

*Knowledge*

* Promoting a candidate again makes a second entry with its id, and turns retired
  entries with an active one's id into superseded ones; a stale write can bring a
  retired entry back; once one file was pruned, later files are rewritten although
  unchanged; no command calls supersede or prune; files are rewritten in place.

*Test autofix*

* A re-run keeps its run id, and hydration passes over the archives of its own run
  (`hydrate-remediation-history.cjs:55`), so with the retry override
  (`evaluate-ci-remediation-policy.cjs:75`, `:115`) it never sees what its earlier attempts
  recorded: a repair that has failed twice is attempted a third and a fourth time, with
  no overlap and no fault. `docs/commands/test-autofix.md:96` says that the repeat policy
  "prevents replaying known-bad repairs", and `:129` that an override bypasses "only
  that transport-level retry suppression". `KnownBadStops` allows one attempt for each
  such re-run; leave `retries` out of it and TLC shows the trace.
* Artifacts are looked for on one page of the newest 20 of any name (`:42`). When other
  uploads fill it, or the archives have expired after 14 days, hydration is a no-op, the
  count of failures starts again, and a known-bad repair gets two more attempts.
* Overlapping CI runs give their entries the same original id, and merging keeps one.
* Dry runs and low-confidence stops count as failed attempts of repairs nobody
  attempted; a repair that applies without verifying is `partially_fixed`, counts as
  a success and is never blocked.
* test-autofix exits with an error for a dry run or a block, which skips the
  remediation-status step; its result is written before its history; local
  invocations that overlap share `test-fix-plan.json` (not modelled).

## 6. What the models leave out

Formatting, ids and timestamps; patch budgets, risk levels and tests of a change
scope; worker types and prompts; append-only statuses and the heartbeat of the
interop runtime, which no command reads back; how the planner packs tasks into
lanes and how protected-doc stages are computed (inputs of a workset); torn
writes of files other than telemetry; validation of single fields of a draft; the
release evaluation of a rendezvous, which is only printed; the files behind a
repository's readiness; titles, rationale and priorities of stories; how a
failure log is parsed into findings; expiry of candidates by age (pruning drops
any set of them).

Of the CI transport: an attempt number is kept only as whether the run has begun
before, since the workflow allows one attempt per commit; the other gates (event,
branch, source of a pull request, clean worktree, failure layer) are passed or not,
whatever the run. The label `playbook:retry-autofix` overrides like the dispatch input,
but `ci.yml:50` enables autofix for `workflow_dispatch` only, where no pull request is
at hand. A re-run may fail with another log than the attempt before it. A run that
`cancel-in-progress` (`ci.yml:26`) ends is a lost runner or a failed step.

## 7. What could follow

1. *Composition* of the launch plan `LaneOrchestration` writes with the one
   `ManagedExecution` validates: `validateLaunchPlan` wants every lane eligible,
   while a workset with dependency edges has lanes that are not.
2. The planner's packing of tasks into lanes as an algorithm against a reference
   definition.
3. What overlapping commands leave intact where a theorem now assumes `Sole`: for
   instance which stories overlapping `story status` commands may close, and how many
   executions of a key overlapping interop commands may cause.
