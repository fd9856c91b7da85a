-------------------------- MODULE ManagedExecution --------------------------
(***************************************************************************)
(* `playbook execute` and its supervisor: the command                      *)
(* (cli/src/commands/execution/run.ts), the lane supervisor                *)
(* (engine/src/execution/supervisor.ts), the durable run-state             *)
(* (orchestrationRunState.ts) and the merge guards (mergeGuards.ts).       *)
(*                                                                         *)
(* Every piece of state is a file under .playbook/, and every invocation   *)
(* is a process of its own; nothing locks.  One action is therefore one    *)
(* file read or one file write of one process, and a process may die       *)
(* between any two of them.  Lane ids are numbers, because the code        *)
(* visits lanes in sorted order.  A launch plan is a record of what the    *)
(* supervisor reads of it, so equality of plans is equality of their       *)
(* SHA-256 fingerprints; a run id is a 12 digit prefix of the fingerprint, *)
(* so RunIdOf need not be injective.                                       *)
(***************************************************************************)
EXTENDS Naturals, FiniteSets

CONSTANTS
    Procs,              \* invocations of `playbook execute` that may overlap
    Lanes,              \* lane ids, in localeCompare order
    Worksets,           \* the lane sets `playbook orchestrate` may plan
    Plans,              \* the launch plans `workers launch-plan` may write
    RunIds, RunIdOf,    \* deriveOrchestrationRunId
    Artifacts,          \* receipt files a launch plan may require
    Capabilities,       \* runtime capabilities a lane may require
    Outcomes,           \* worker results; run.ts only ever records "completed"
    RouteMayRun,        \* whether `playbook route` may write execution-plan.json
    CrashMidTelemetry,  \* whether a crash may hit a truncated telemetry file
    MaxCrashes,         \* bound on crashes
    None,               \* no such file
    MaxEnv              \* bound on changes other commands make

LaunchPlan == [lanes : SUBSET Lanes, eligible : SUBSET Lanes,
               unresolved : SUBSET Lanes, receipts : SUBSET Artifacts,
               caps : SUBSET Capabilities, rev : Nat]

ASSUME ConstantsAssumption ==
    /\ Lanes \subseteq Nat
    /\ Worksets \subseteq SUBSET Lanes
    /\ Plans \subseteq LaunchPlan
    /\ \A pl \in Plans : pl.eligible \subseteq pl.lanes
    /\ RunIdOf \in [Plans -> RunIds]
    /\ Outcomes \subseteq {"completed", "failed"}
    /\ RouteMayRun \in BOOLEAN /\ CrashMidTelemetry \in BOOLEAN
    /\ MaxCrashes \in Nat /\ MaxEnv \in Nat

ASSUME SentinelsAssumption ==
    None \notin Worksets /\ None \notin Plans

(***************************************************************************)
(* The artifacts.  A lane record is "absent" when the JSON map has no such *)
(* key.  A run-state file keeps, per lane, its status and whether it has a *)
(* receipt ref; eligible_lanes is written together with the fingerprint    *)
(* and is a function of it.                                                *)
(***************************************************************************)
LaneRunStatus == {"absent", "pending", "running", "completed", "failed", "blocked"}
LaneState     == {"absent", "ready", "running", "completed", "failed", "blocked"}
RunStatus     == {"running", "completed", "failed"}

RunState  == [fp : Plans, status : RunStatus,
              lanes : [Lanes -> LaneRunStatus], receipts : SUBSET Lanes]
ExecState == [run : RunIds, status : RunStatus,
              lanes : [Lanes -> LaneState], workers : SUBSET Lanes]

NoFile == [status |-> "missing"]
Telemetry == {"outcome", "process"}

\* The variables of a running process: the supervisor call it is in, the plan it
\* validated, the lanes left in its loop, the lane and the worker result at hand,
\* the telemetry file being merged, and its copies of the files it has read.
Memory == [op : {"start", "update", "record", "finalize", "report"},
           plan : Plans \union {None}, todo : SUBSET Lanes, lane : Lanes \union {0},
           result : {"completed", "failed"}, file : Telemetry,
           exec : ExecState \union {NoFile}, run : RunState \union {NoFile},
           tel : SUBSET Lanes, seen : SUBSET (RunIds \X Plans)]

Blank == [op |-> "start", plan |-> None, todo |-> {}, lane |-> 0, result |-> "completed",
          file |-> "outcome", exec |-> NoFile, run |-> NoFile, tel |-> {}, seen |-> {}]

VARIABLES
    workset,     \* .playbook/workset-plan.json
    launchPlan,  \* .playbook/worker-launch-plan.json
    artifacts,   \* receipt files that exist
    registered,  \* capabilities registered and sound in lifeline-interop-runtime.json
    routed,      \* whether .playbook/execution-plan.json exists
    exec,        \* .playbook/execution-state.json
    runs,        \* .playbook/execution-runs/<run-id>.json
    guards,      \* mergeEligible entries of execution-merge-guards.json, each
                 \* with the launch plan it was evaluated against
    telemetry,   \* outcome- and process-telemetry.json: lanes recorded, torn?
    pc, mem,     \* where each process is, and what it remembers
    exit,        \* how the last invocation ended
    crashes, env,
    executed     \* history: lanes a process authorised by a plan has executed

inputs == <<workset, launchPlan, artifacts, registered, routed>>
budget == <<crashes, env>>
vars   == <<inputs, exec, runs, guards, telemetry, pc, mem, exit, budget, executed>>

-----------------------------------------------------------------------------
(* Pure helpers of the supervisor and of the merge guards. *)

StatusesOf(lanes) == {lanes[l] : l \in Lanes} \ {"absent"}

deriveRunStatus(lanes) ==
    IF "failed" \in StatusesOf(lanes) THEN "failed"
    ELSE IF StatusesOf(lanes) \subseteq {"completed", "blocked"} THEN "completed"
    ELSE "running"

\* Mutant: a failed lane does not fail the execution.
finalStatusIgnoringFailures(lanes) ==
    IF StatusesOf(lanes) \subseteq {"completed", "failed"} THEN "completed" ELSE "running"

\* finalizeExecution's own rule: a blocked lane keeps the execution running.
finalStatus(lanes) ==
    IF "failed" \in StatusesOf(lanes) THEN "failed"
    ELSE IF StatusesOf(lanes) \subseteq {"completed"} THEN "completed"
    ELSE "running"

\* evaluateRuntimeCapabilityAuthorization: what the plan needs is registered and sound.
runtimeCapabilitiesAuthorized(pl) == pl.caps \subseteq registered

\* validateLaunchPlan, with the runtime capability authorization it ends in.
Authorized(ws, pl) ==
    /\ pl # None
    /\ ws = pl.lanes
    /\ pl.eligible = pl.lanes
    /\ pl.eligible # {}
    /\ runtimeCapabilitiesAuthorized(pl)

\* Mutant: a restart forgets what the prior run-state says of a lane.
reconciledStatusAnew(pl, prior, l) ==
    IF l \notin pl.lanes THEN "absent" ELSE IF l \in pl.eligible THEN "pending" ELSE "blocked"

\* The status a lane enters a (re)started run with.
reconciledStatus(pl, prior, l) ==
    IF l \notin pl.lanes THEN "absent"
    ELSE IF prior # NoFile /\ prior.lanes[l] \in {"completed", "failed", "running", "blocked"}
         THEN prior.lanes[l]
    ELSE IF l \in pl.eligible THEN "pending" ELSE "blocked"

\* Mutant: the prior run-state is trusted without comparing fingerprints.
reconcileAnyPrior(pl, read) ==
    LET prior == IF read = NoFile THEN NoFile ELSE [read EXCEPT !.fp = pl]
        lanes == [l \in Lanes |-> reconciledStatus(pl, prior, l)]
    IN  [fp |-> pl, status |-> deriveRunStatus(lanes), lanes |-> lanes,
         receipts |-> IF prior = NoFile THEN {} ELSE prior.receipts]

\* Mutant: a restart keeps the lane statuses but not their receipt refs.
reconcileWithoutReceipts(pl, read) ==
    LET prior == IF read # NoFile /\ read.fp = pl THEN read ELSE NoFile
        lanes == [l \in Lanes |-> reconciledStatus(pl, prior, l)]
    IN  [fp |-> pl, status |-> deriveRunStatus(lanes), lanes |-> lanes, receipts |-> {}]

\* reconcileOrchestrationRunState; prior is what was read, NoFile if unreadable.
reconcileOrchestrationRunState(pl, read) ==
    LET prior == IF read # NoFile /\ read.fp = pl THEN read ELSE NoFile
        lanes == [l \in Lanes |-> reconciledStatus(pl, prior, l)]
    IN  [fp       |-> pl,
         status   |-> deriveRunStatus(lanes),
         lanes    |-> lanes,
         receipts |-> IF prior = NoFile THEN {} ELSE prior.receipts \cap pl.lanes]

\* Mutant: the lanes found running are taken for another process's work.
lanesToRunPendingOnly(pl, run) == {l \in pl.eligible : run.lanes[l] = "pending"}

\* The lanes run.ts executes: every eligible one that is not completed already.
lanesToRun(pl, run) == {l \in pl.eligible : run.lanes[l] # "completed"}

\* Mutant: the run-state's statuses are copied as they are.
startedLanesCopied(pl, run) == run.lanes

\* The lane map startExecution writes to execution-state.json.
startedLanes(pl, run) ==
    [l \in Lanes |->
        IF l \notin pl.lanes THEN "absent"
        ELSE IF run.lanes[l] \in {"completed", "failed", "running"} THEN run.lanes[l]
        ELSE IF l \in pl.eligible THEN "ready" ELSE "blocked"]

\* Mutant: nothing checks that the eligible lanes completed.
evaluateRunAnyLanes(run, pl) ==
    /\ run.fp = pl
    /\ StatusesOf(run.lanes) \cap {"failed", "blocked"} = {}
    /\ pl.unresolved = {}
    /\ pl.receipts \subseteq artifacts

\* evaluateRun: no blocking reason is left for this run.
evaluateRun(run, pl) ==
    LET statuses == StatusesOf(run.lanes)
        terminal == statuses \subseteq {"completed", "failed", "blocked"}
    IN  /\ run.fp = pl
        /\ terminal => run.status # "running"
        /\ ~terminal => run.status = "running"
        /\ \A l \in pl.eligible : run.lanes[l] = "completed"
        /\ statuses \cap {"failed", "blocked"} = {}
        /\ pl.unresolved = {}
        /\ pl.receipts \subseteq artifacts

\* evaluateExecutionMergeGuards: every run file against the plan on disk.
evaluateExecutionMergeGuards ==
    IF launchPlan = None THEN {}
    ELSE {<<r, launchPlan>> : r \in {x \in RunIds : runs[x] # NoFile
                                            /\ evaluateRun(runs[x], launchPlan)}}

-----------------------------------------------------------------------------
Init ==
    /\ workset = None /\ launchPlan = None
    /\ artifacts = {} /\ registered = {} /\ routed = FALSE
    /\ exec = NoFile
    /\ runs = [r \in RunIds |-> NoFile]
    /\ guards = {}
    /\ telemetry = [f \in Telemetry |-> [torn |-> FALSE, lanes |-> {}]]
    /\ pc = [p \in Procs |-> "idle"]
    /\ mem = [p \in Procs |-> Blank]
    /\ exit = [p \in Procs |-> "none"]
    /\ crashes = 0 /\ env = 0
    /\ executed = [pl \in Plans |-> {}]

-----------------------------------------------------------------------------
(* Other commands that write what execute reads. *)

Environment ==
    /\ env < MaxEnv
    /\ env' = env + 1
    /\ UNCHANGED <<exec, runs, guards, telemetry, pc, mem, exit, crashes, executed>>

\* `playbook orchestrate` writes a new workset plan.
Orchestrate(ws) ==
    /\ workset' = ws
    /\ UNCHANGED <<launchPlan, artifacts, registered, routed>>
    /\ Environment

\* `playbook workers launch-plan` authorises lanes of the current workset; blocked
\* tasks add sentinel lanes, so the plan may have more lanes than the workset.
WriteLaunchPlan(pl) ==
    /\ workset # None
    /\ workset \subseteq pl.lanes
    /\ launchPlan' = pl
    /\ UNCHANGED <<workset, artifacts, registered, routed>>
    /\ Environment

\* A required receipt file (a worker fragment, an assignment) is recorded.
RecordReceipt(a) ==
    /\ a \notin artifacts
    /\ artifacts' = artifacts \union {a}
    /\ UNCHANGED <<workset, launchPlan, registered, routed>>
    /\ Environment

\* `playbook interop register` makes a capability sound, or stale or conflicted.
RegisterCapability(c) ==
    /\ registered' = IF c \in registered THEN registered \ {c} ELSE registered \union {c}
    /\ UNCHANGED <<workset, launchPlan, artifacts, routed>>
    /\ Environment

\* `playbook route` promotes .playbook/execution-plan.json.
Route ==
    /\ RouteMayRun /\ ~routed
    /\ routed' = TRUE
    /\ UNCHANGED <<workset, launchPlan, artifacts, registered>>
    /\ Environment

-----------------------------------------------------------------------------
(* Control flow of one invocation. *)

At(p, label) == pc[p] = label

Goto(p, label) == pc' = [pc EXCEPT ![p] = label] /\ UNCHANGED exit

\* The process ends and its memory is gone.
End(p, how) ==
    /\ pc' = [pc EXCEPT ![p] = "idle"]
    /\ mem' = [mem EXCEPT ![p] = Blank]
    /\ exit' = [exit EXCEPT ![p] = how]

\* runExecution: read the workset plan; todo holds its lanes until validation.
Invoke(p) ==
    /\ At(p, "idle")
    /\ IF workset = None
       THEN End(p, "refused")
       ELSE /\ pc' = [pc EXCEPT ![p] = "validate"]
            /\ mem' = [mem EXCEPT ![p].todo = workset]
            /\ exit' = [exit EXCEPT ![p] = "none"]
    /\ UNCHANGED <<inputs, exec, runs, guards, telemetry, budget, executed>>

\* runExecution: read the launch plan and the capability registry and validate.
ValidateLaunchPlan(p) ==
    /\ At(p, "validate")
    /\ IF Authorized(mem[p].todo, launchPlan)
       THEN /\ mem' = [mem EXCEPT ![p].plan = launchPlan]
            /\ Goto(p, "reconcile")
       ELSE End(p, "refused")
    /\ UNCHANGED <<inputs, exec, runs, guards, telemetry, budget, executed>>

\* startExecution, first half: read the prior run-state.
ReadPriorRun(p) ==
    /\ At(p, "reconcile")
    /\ mem' = [mem EXCEPT ![p].run = runs[RunIdOf[mem[p].plan]]]
    /\ Goto(p, "writeReconciled")
    /\ UNCHANGED <<inputs, exec, runs, guards, telemetry, budget, executed>>

\* ... write the reconciled run-state; the lanes not completed in it are run.
WriteReconciledRun(p) ==
    LET pl  == mem[p].plan
        run == reconcileOrchestrationRunState(pl, mem[p].run)
    IN  /\ At(p, "writeReconciled")
        /\ runs' = [runs EXCEPT ![RunIdOf[pl]] = run]
        /\ mem' = [mem EXCEPT ![p].run = run,
                              ![p].todo = lanesToRun(pl, run)]
        /\ Goto(p, "writeStarted")
        /\ UNCHANGED <<inputs, exec, guards, telemetry, budget, executed>>

\* ... and a fresh execution-state, without the workers of earlier invocations.
WriteStartedExecution(p) ==
    /\ At(p, "writeStarted")
    /\ exec' = [run |-> RunIdOf[mem[p].plan], status |-> "running",
                lanes |-> startedLanes(mem[p].plan, mem[p].run), workers |-> {}]
    /\ Goto(p, "guardsRead")
    /\ UNCHANGED <<inputs, runs, guards, telemetry, mem, budget, executed>>

-----------------------------------------------------------------------------
(* updateLaneState, recordWorkerResult and finalizeExecution share their    *)
(* shape: read execution-state, change and write it, read the run-state it  *)
(* names, change and write that, evaluate the merge guards.                 *)

\* updateLaneState of the next lane of the sorted loop reads execution-state.
ReadForUpdate(p) ==
    /\ At(p, "readExec")
    /\ mem[p].op = "update"
    /\ \E l \in mem[p].todo :
          /\ \A m \in mem[p].todo : l <= m
          /\ mem' = [mem EXCEPT ![p].exec = exec, ![p].lane = l, ![p].todo = @ \ {l}]
    /\ Goto(p, "writeExec")
    /\ UNCHANGED <<inputs, exec, runs, guards, telemetry, budget, executed>>

\* recordWorkerResult reads execution-state; the worker's result is its argument.
ReadForRecord(p) ==
    /\ At(p, "readExec")
    /\ mem[p].op = "record"
    /\ \E o \in Outcomes : mem' = [mem EXCEPT ![p].exec = exec, ![p].result = o]
    /\ Goto(p, "telRead")
    /\ UNCHANGED <<inputs, exec, runs, guards, telemetry, budget, executed>>

\* finalizeExecution reads execution-state and returns at once if it is not its run's.
ReadForFinalize(p) ==
    /\ At(p, "readExec")
    /\ mem[p].op = "finalize"
    /\ mem' = [mem EXCEPT ![p].exec = exec]
    /\ Goto(p, IF exec.run = RunIdOf[mem[p].plan] THEN "writeExec" ELSE "guardsDone")
    /\ UNCHANGED <<inputs, exec, runs, guards, telemetry, budget, executed>>

\* What the call makes of the execution-state it read.
ChangedExecution(m) ==
    CASE m.op = "update"   -> [m.exec EXCEPT !.lanes[m.lane] = "running"]
      [] m.op = "record"   -> [m.exec EXCEPT !.lanes[m.lane] = m.result,
                                             !.workers = @ \union {m.lane}]
      [] m.op = "finalize" -> [m.exec EXCEPT !.status = finalStatus(m.exec.lanes)]

WriteExecution(p) ==
    /\ At(p, "writeExec")
    /\ exec' = ChangedExecution(mem[p])
    /\ executed' = IF mem[p].op = "record" /\ mem[p].result = "completed"
                   THEN [executed EXCEPT ![mem[p].plan] = @ \union {mem[p].lane}]
                   ELSE executed
    /\ Goto(p, "readRun")
    /\ UNCHANGED <<inputs, runs, guards, telemetry, mem, budget>>

\* Read the run-state the execution-state names; an unreadable one is skipped.
ReadRun(p) ==
    LET run == runs[mem[p].exec.run]
    IN  /\ At(p, "readRun")
        /\ mem' = [mem EXCEPT ![p].run = run]
        /\ Goto(p, IF run = NoFile THEN "guardsRead" ELSE "writeRun")
        /\ UNCHANGED <<inputs, exec, runs, guards, telemetry, budget, executed>>

\* Mutant: recording a result sets the lane but adds no receipt ref.
ChangedRunNoReceipt(m) ==
    LET lanes == CASE m.op = "update"   -> [m.run.lanes EXCEPT ![m.lane] = "running"]
                   [] m.op = "record"   -> [m.run.lanes EXCEPT ![m.lane] = m.result]
                   [] m.op = "finalize" -> m.run.lanes
    IN  [m.run EXCEPT !.lanes = lanes, !.status = deriveRunStatus(lanes)]

\* What the call makes of the run-state it read.
ChangedRun(m) ==
    LET lanes == CASE m.op = "update"   -> [m.run.lanes EXCEPT ![m.lane] = "running"]
                   [] m.op = "record"   -> [m.run.lanes EXCEPT ![m.lane] = m.result]
                   [] m.op = "finalize" -> m.run.lanes
    IN  [m.run EXCEPT !.lanes = lanes,
                      !.status = deriveRunStatus(lanes),
                      !.receipts = IF m.op = "record" THEN @ \union {m.lane} ELSE @]

WriteRun(p) ==
    /\ At(p, "writeRun")
    /\ runs' = [runs EXCEPT ![mem[p].exec.run] = ChangedRun(mem[p])]
    /\ Goto(p, "guardsRead")
    /\ UNCHANGED <<inputs, exec, guards, telemetry, mem, budget, executed>>

-----------------------------------------------------------------------------
(* Telemetry of recordWorkerResult: read, merge and rewrite each file in    *)
(* place.  A truncated file does not parse, which fails the invocation; the *)
(* router metric is computed from the raw execution-state envelope, which   *)
(* has no lanes, and fails the invocation whenever an execution plan exists.*)

TelemetryUnreadable(f) ==
    \/ telemetry[f].torn
    \/ f = "process" /\ (routed \/ telemetry["outcome"].torn)

ReadTelemetry(p) ==
    /\ At(p, "telRead")
    /\ IF TelemetryUnreadable(mem[p].file)
       THEN End(p, "error")
       ELSE /\ mem' = [mem EXCEPT ![p].tel = telemetry[mem[p].file].lanes]
            /\ Goto(p, "telTruncate")
    /\ UNCHANGED <<inputs, exec, runs, guards, telemetry, budget, executed>>

\* fs.writeFileSync opens the file with truncation ...
TruncateTelemetry(p) ==
    /\ At(p, "telTruncate")
    /\ telemetry' = [telemetry EXCEPT ![mem[p].file] = [torn |-> TRUE, lanes |-> {}]]
    /\ Goto(p, "telWrite")
    /\ UNCHANGED <<inputs, exec, runs, guards, mem, budget, executed>>

\* Mutant: the records of earlier lanes are overwritten.
mergedTelemetryOverwritten(m) == {m.lane}

\* The telemetry records of the file read, with the lane's own.
mergedTelemetry(m) == m.tel \union {m.lane}

\* ... and then writes the merged records; the process file follows the outcome file.
WriteTelemetry(p) ==
    /\ At(p, "telWrite")
    /\ telemetry' = [telemetry EXCEPT ![mem[p].file] =
                        [torn |-> FALSE, lanes |-> mergedTelemetry(mem[p])]]
    /\ mem' = [mem EXCEPT ![p].file = "process"]
    /\ Goto(p, IF mem[p].file = "outcome" THEN "telRead" ELSE "writeExec")
    /\ UNCHANGED <<inputs, exec, runs, guards, budget, executed>>

-----------------------------------------------------------------------------
(* Merge guards, evaluated at the end of every supervisor call. *)

ReadGuardInputs(p) ==
    /\ At(p, "guardsRead")
    /\ mem' = [mem EXCEPT ![p].seen = evaluateExecutionMergeGuards]
    /\ Goto(p, "guardsWrite")
    /\ UNCHANGED <<inputs, exec, runs, guards, telemetry, budget, executed>>

WriteGuards(p) ==
    /\ At(p, "guardsWrite")
    /\ guards' = mem[p].seen
    /\ Goto(p, "guardsDone")
    /\ UNCHANGED <<inputs, exec, runs, telemetry, mem, budget, executed>>

\* The call run.ts makes once the call in m.op has returned.
NextOp(m) ==
    CASE m.op = "update"   -> "record"
      [] m.op = "finalize" -> "report"
      [] OTHER -> IF m.todo = {} THEN "finalize" ELSE "update"

\* The supervisor call returns: its locals are gone and run.ts makes the next call.
Return(p) ==
    /\ At(p, "guardsDone")
    /\ mem[p].op # "report"
    /\ mem' = [mem EXCEPT ![p] = [Blank EXCEPT !.op = NextOp(mem[p]), !.plan = mem[p].plan,
                                               !.todo = mem[p].todo, !.lane = mem[p].lane]]
    /\ Goto(p, IF NextOp(mem[p]) = "report" THEN "guardsRead" ELSE "readExec")
    /\ UNCHANGED <<inputs, exec, runs, guards, telemetry, budget, executed>>

\* The last merge-guard evaluation is reported with the execution-state's status.
Report(p) ==
    /\ At(p, "guardsDone")
    /\ mem[p].op = "report"
    /\ End(p, IF exec.status = "completed" THEN "success" ELSE "failure")
    /\ UNCHANGED <<inputs, exec, runs, guards, telemetry, budget, executed>>

\* The process is killed between two file operations.
Crash(p) ==
    /\ ~At(p, "idle")
    /\ crashes < MaxCrashes
    /\ CrashMidTelemetry \/ ~At(p, "telWrite")
    /\ crashes' = crashes + 1
    /\ End(p, "crashed")
    /\ UNCHANGED <<inputs, exec, runs, guards, telemetry, env, executed>>

-----------------------------------------------------------------------------
Step(p) ==
    \/ ValidateLaunchPlan(p)
    \/ ReadPriorRun(p)
    \/ WriteReconciledRun(p)
    \/ WriteStartedExecution(p)
    \/ ReadForUpdate(p)
    \/ ReadForRecord(p)
    \/ ReadForFinalize(p)
    \/ WriteExecution(p)
    \/ ReadRun(p)
    \/ WriteRun(p)
    \/ ReadTelemetry(p)
    \/ TruncateTelemetry(p)
    \/ WriteTelemetry(p)
    \/ ReadGuardInputs(p)
    \/ WriteGuards(p)
    \/ Return(p)
    \/ Report(p)

OtherCommand ==
    \/ \E ws \in Worksets : Orchestrate(ws)
    \/ \E pl \in Plans : WriteLaunchPlan(pl)
    \/ \E a \in Artifacts : RecordReceipt(a)
    \/ \E c \in Capabilities : RegisterCapability(c)
    \/ Route

Next ==
    \/ OtherCommand
    \/ \E p \in Procs : Invoke(p) \/ Step(p) \/ Crash(p)

Spec == Init /\ [][Next]_vars

\* A running process keeps running, and an operator whose invocation ended runs
\* the command again.
FairSpec == Spec /\ \A p \in Procs : WF_vars(Step(p)) /\ WF_vars(Invoke(p))

-----------------------------------------------------------------------------
(* Properties *)

\* Every artifact and every process-local copy has the shape of its schema.
TypeOK ==
    /\ workset \in Worksets \union {None}
    /\ launchPlan \in Plans \union {None}
    /\ artifacts \in SUBSET Artifacts
    /\ registered \in SUBSET Capabilities
    /\ routed \in BOOLEAN
    /\ exec \in ExecState \union {NoFile}
    /\ runs \in [RunIds -> RunState \union {NoFile}]
    /\ guards \in SUBSET (RunIds \X Plans)
    /\ telemetry \in [Telemetry -> [torn : BOOLEAN, lanes : SUBSET Lanes]]
    /\ pc \in [Procs -> {"idle", "validate", "reconcile", "writeReconciled", "writeStarted",
                         "guardsRead", "guardsWrite", "guardsDone", "readExec", "writeExec",
                         "readRun", "writeRun", "telRead", "telTruncate", "telWrite"}]
    /\ mem \in [Procs -> Memory]
    /\ exit \in [Procs -> {"none", "refused", "success", "failure", "error", "crashed"}]
    /\ crashes \in 0..MaxCrashes
    /\ env \in 0..MaxEnv
    /\ executed \in [Plans -> SUBSET Lanes]

\* A run-state file backs every lane it calls completed or failed with a receipt
\* ref, and its status is the one its lanes derive to, whatever reads, writes and
\* crashes of whatever invocations came in between.
Backed(run) ==
    /\ \A l \in Lanes : run.lanes[l] \in {"completed", "failed"} => l \in run.receipts
    /\ run.status = deriveRunStatus(run.lanes)

ReceiptBacked == \A r \in RunIds : runs[r] # NoFile => Backed(runs[r])

\* One invocation after the other, crashed or not, implements ResumableRun: restarting keeps
\* the lanes that completed, none is run twice or lost, and the merge guards are evaluated on
\* runs that are finished at that moment.
Run == INSTANCE ResumableRun WITH
    Runs      <- RunIds,
    owner     <- [r \in RunIds |-> IF runs[r] = NoFile THEN None ELSE runs[r].fp],
    done      <- [r \in RunIds |-> IF runs[r] = NoFile THEN {}
                                   ELSE {l \in Lanes : runs[r].lanes[l] = "completed"}],
    mergeable <- guards

ImplementsResumableRun == Run!Spec

\* The merge guards call a run mergeable only if a process authorised by that
\* run's launch plan has executed every eligible lane of it.
MergeOnlyExecuted ==
    \A g \in guards : g[2].eligible \subseteq executed[g[2]]

\* When an invocation reports success, the canonical run-state of its plan has
\* every lane completed.
SuccessMeansCompleted ==
    [][\A p \in Procs : (exit[p] # "success" /\ exit'[p] = "success") =>
          LET pl  == mem[p].plan
              run == runs[RunIdOf[pl]]
          IN  run.fp = pl /\ \A l \in pl.lanes : run.lanes[l] = "completed"]_vars

\* Every lane a run-state calls completed is in both telemetry files, which
\* recordWorkerResult writes first.
TelemetryFirst ==
    \A r \in RunIds : \A l \in Lanes : \A f \in Telemetry :
        (runs[r] # NoFile /\ runs[r].lanes[l] = "completed" /\ ~telemetry[f].torn
            /\ \A p \in Procs : pc[p] # "telWrite")
          => l \in telemetry[f].lanes

\* The run-state of a launch plan is there and says completed.
RunCompleted(pl) ==
    /\ runs[RunIdOf[pl]] # NoFile
    /\ runs[RunIdOf[pl]].fp = pl
    /\ runs[RunIdOf[pl]].status = "completed"

\* Once the launch plan stays put and authorises its workset, repeated invocations
\* complete its run, crashes notwithstanding.
ResumeCompletes == <>[](Authorized(workset, launchPlan) => RunCompleted(launchPlan))

=============================================================================
