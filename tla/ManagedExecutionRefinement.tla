--------------------- MODULE ManagedExecutionRefinement ---------------------
(***************************************************************************)
(* ManagedExecution implements ResumableRun when invocations do not        *)
(* overlap: proved for any number of lanes, plans, crashes and changes by  *)
(* other commands.  The argument adds to the invariant of                  *)
(* ManagedExecutionProofs what a process may rely on while no other runs:  *)
(* its copies of the files are current, the run belongs to its plan, and   *)
(* the lanes it has still to do are not completed.  The parts that follow  *)
(* build on it: only executed lanes are let through to merging, a success  *)
(* reported is a completed run, and telemetry is written before the run    *)
(* file that rests on it.                                                  *)
(***************************************************************************)
EXTENDS ManagedExecutionProofs

USE ConstantsAssumption, SentinelsAssumption

\* No two invocations run at the same time: there is one process, which may crash and be
\* started again.
Sole == \A p, q \in Procs : p = q

Resuming == Locations \ {"idle", "validate", "reconcile", "writeReconciled"}
Started  == Resuming \ {"writeStarted"}
Recording == {"readExec", "telRead", "telTruncate", "telWrite", "writeExec", "readRun", "writeRun"}

\* Lane l of plan pl is to be done, and not done in the run-state rs has for the plan.
Undone(rs, pl, l) == l \in pl.eligible /\ rs[RunIdOf[pl]].lanes[l] # "completed"

FinishedRun(rs, g) ==
    /\ rs[g[1]] # NoFile /\ rs[g[1]].fp = g[2]
    /\ \A l \in g[2].eligible : rs[g[1]].lanes[l] = "completed"

\* What a process at a label, with memory m, knows of the run files rs and of execution-state ex.
Current(label, m, rs, ex) ==
    /\ label \notin Started => m.op = "start"
    /\ label = "writeReconciled" => m.run = rs[RunIdOf[m.plan]]
    /\ label \in Resuming =>
         /\ rs[RunIdOf[m.plan]] # NoFile /\ rs[RunIdOf[m.plan]].fp = m.plan
         /\ \A l \in m.todo : Undone(rs, m.plan, l)
    /\ label \in Started => ex.run = RunIdOf[m.plan]
    /\ label \in Recording \ {"readExec"} => m.exec.run = RunIdOf[m.plan]
    /\ label = "writeRun" => m.run = rs[RunIdOf[m.plan]]
    /\ (m.op = "update" /\ label \in Started \ {"readExec"}) =>
         m.lane \notin m.todo /\ Undone(rs, m.plan, m.lane)
    /\ (m.op = "record" /\ label \in Recording) =>
         m.lane \notin m.todo /\ Undone(rs, m.plan, m.lane)
    /\ label = "guardsWrite" => \A g \in m.seen : FinishedRun(rs, g)

\* A run-state completes lanes of its own plan only.
OwnLanes(rs) ==
    \A r \in RunIds : rs[r] # NoFile =>
        \A l \in Lanes : rs[r].lanes[l] = "completed" => l \in rs[r].fp.lanes

SInv ==
    /\ IInv
    /\ OwnLanes(runs)
    /\ \A p \in Procs : Current(pc[p], mem[p], runs, exec)

-----------------------------------------------------------------------------
(* Keeping the invariant. *)

\* The one process there is has a type-correct memory and what ControlOK says.
LEMMA Facts ==
    ASSUME SInv, NEW p \in Procs
    PROVE  /\ IInv /\ OwnLanes(runs) /\ Current(pc[p], mem[p], runs, exec) /\ ControlOK(p)
           /\ mem[p] \in Memory /\ pc[p] \in Locations
           /\ pc \in [Procs -> Locations] /\ mem \in [Procs -> Memory]
           /\ runs \in [RunIds -> RunState \union {NoFile}]
BY DEF SInv, IInv, TypeOK, Locations

\* With one process it is enough to look at that process.
LEMMA SoleKeeps ==
    ASSUME Sole, IInv', NEW p \in Procs, OwnLanes(runs'),
           Current(pc'[p], mem'[p], runs', exec')
    PROVE  SInv'
<1>1. \A q \in Procs : q = p
  BY DEF Sole
<1>2. \A q \in Procs : Current(pc'[q], mem'[q], runs', exec')
  BY <1>1
<1> QED BY <1>2 DEF SInv, OwnLanes, Current, Undone, FinishedRun

\* A process that is idle or not past validation needs to know nothing.
LEMMA EarlyCurrent ==
    ASSUME NEW label \in {"idle", "validate", "reconcile"}, NEW m, m.op = "start", NEW rs, NEW ex
    PROVE  Current(label, m, rs, ex)
BY DEF Current, Started, Resuming, Recording, Locations

\* The process ends, whatever it was doing.
LEMMA EndCurrent ==
    ASSUME Sole, SInv, IInv', NEW p \in Procs, NEW how, End(p, how), UNCHANGED runs
    PROVE  SInv'
<1>1. pc'[p] = "idle" /\ mem'[p] = Blank
  BY Facts DEF End
<1>2. Blank.op = "start"
  BY DEF Blank
<1>3. Current(pc'[p], mem'[p], runs', exec')
  BY <1>1, <1>2, EarlyCurrent
<1> QED BY <1>3, Facts, SoleKeeps

\* Steps before the run is reconciled.
LEMMA EarlySteps ==
    ASSUME Sole, SInv, IInv', NEW p \in Procs,
           Invoke(p) \/ ValidateLaunchPlan(p) \/ ReadPriorRun(p)
    PROVE  SInv'
<1>0. Current(pc[p], mem[p], runs, exec) /\ OwnLanes(runs) /\ mem[p] \in Memory
  BY Facts
<1>1. CASE Invoke(p)
  <2>1. CASE workset = None
    BY <1>1, <2>1, EndCurrent DEF Invoke
  <2>2. CASE workset # None
    <3>1. /\ pc'[p] = "validate" /\ mem'[p] = [mem[p] EXCEPT !.todo = workset]
          /\ At(p, "idle") /\ UNCHANGED <<runs, exec>>
      BY <1>1, <2>2, Facts DEF Invoke
    <3>2. mem[p].op = "start"
      BY <1>0, <3>1 DEF Current, At, Started, Resuming
    <3>3. mem'[p].op = "start"
      BY <1>0, <3>1, <3>2 DEF Memory
    <3>4. Current(pc'[p], mem'[p], runs', exec')
      BY <3>1, <3>3 DEF Current, Started, Resuming, Recording
    <3>5. OwnLanes(runs')
      BY <1>0, <3>1
    <3> QED BY <3>4, <3>5, SoleKeeps
  <2> QED BY <2>1, <2>2
<1>2. CASE ValidateLaunchPlan(p)
  <2>1. CASE End(p, "refused")
    BY <1>2, <2>1, EndCurrent DEF ValidateLaunchPlan
  <2>2. CASE mem' = [mem EXCEPT ![p].plan = launchPlan] /\ Goto(p, "reconcile")
    <3>1. /\ pc'[p] = "reconcile" /\ mem'[p] = [mem[p] EXCEPT !.plan = launchPlan]
          /\ At(p, "validate") /\ UNCHANGED <<runs, exec>>
      BY <1>2, <2>2, Facts DEF ValidateLaunchPlan, Goto
    <3>2. mem[p].op = "start"
      BY <1>0, <3>1 DEF Current, At, Started, Resuming
    <3>3. mem'[p].op = "start"
      BY <1>0, <3>1, <3>2 DEF Memory
    <3>4. Current(pc'[p], mem'[p], runs', exec')
      BY <3>1, <3>3 DEF Current, Started, Resuming, Recording
    <3>5. OwnLanes(runs')
      BY <1>0, <3>1
    <3> QED BY <3>4, <3>5, SoleKeeps
  <2> QED BY <1>2, <2>1, <2>2 DEF ValidateLaunchPlan
<1>3. CASE ReadPriorRun(p)
  <2>1. /\ pc'[p] = "writeReconciled"
        /\ mem'[p] = [mem[p] EXCEPT !.run = runs[RunIdOf[mem[p].plan]]]
        /\ At(p, "reconcile") /\ UNCHANGED <<runs, exec>>
    BY <1>3, Facts DEF ReadPriorRun, Goto
  <2>2. mem[p].op = "start"
    BY <1>0, <2>1 DEF Current, At, Started, Resuming
  <2>3. /\ mem'[p].op = "start" /\ mem'[p].plan = mem[p].plan
        /\ mem'[p].run = runs[RunIdOf[mem[p].plan]]
    BY <1>0, <2>1, <2>2 DEF Memory
  <2>4. Current(pc'[p], mem'[p], runs', exec')
    BY <2>1, <2>3 DEF Current, Started, Resuming, Recording
  <2> QED BY <1>0, <2>1, <2>4, SoleKeeps
<1> QED BY <1>1, <1>2, <1>3

\* The steps within a supervisor call that change no run file and no more of the memory than
\* its copies: what is new in it must be current.
LEMMA InnerKeeps ==
    ASSUME Sole, SInv, IInv', NEW p \in Procs, NEW label \in Started,
           pc[p] \in Started, pc'[p] = label,
           mem'[p].op = mem[p].op, mem'[p].plan = mem[p].plan,
           mem'[p].todo = mem[p].todo, mem'[p].lane = mem[p].lane,
           runs' = runs, exec'.run = exec.run,
           pc[p] = "readExec" => mem[p].op # "update",
           label \in Recording => pc[p] \in Recording,
           label \in Recording \ {"readExec"} => mem'[p].exec.run = RunIdOf[mem[p].plan],
           label = "writeRun" => mem'[p].run = runs[RunIdOf[mem[p].plan]],
           label = "guardsWrite" => \A g \in mem'[p].seen : FinishedRun(runs, g)
    PROVE  SInv'
<1>1. Current(pc[p], mem[p], runs, exec) /\ OwnLanes(runs)
  BY Facts
<1>2. label \in Resuming /\ pc[p] \in Resuming /\ label # "writeReconciled"
  BY DEF Started, Resuming
<1>3. Current(label, mem'[p], runs', exec')
  BY <1>1, <1>2 DEF Current
<1> QED BY <1>1, <1>3, SoleKeeps

\* What the process knows in the middle of a supervisor call.
LEMMA InnerFacts ==
    ASSUME SInv, NEW p \in Procs, pc[p] \in Started
    PROVE  /\ exec.run = RunIdOf[mem[p].plan] /\ exec \in ExecState
           /\ runs[RunIdOf[mem[p].plan]] # NoFile
           /\ runs[RunIdOf[mem[p].plan]] \in RunState
           /\ runs[RunIdOf[mem[p].plan]].fp = mem[p].plan
           /\ mem[p] \in Memory /\ mem[p].plan \in Plans /\ RunIdOf[mem[p].plan] \in RunIds
           /\ \A l \in mem[p].todo : Undone(runs, mem[p].plan, l)
           /\ pc[p] \in Recording \ {"readExec"} => mem[p].exec.run = RunIdOf[mem[p].plan]
<1>1. Current(pc[p], mem[p], runs, exec) /\ ControlOK(p) /\ mem[p] \in Memory
  BY Facts
<1>2. pc[p] \in Resuming /\ pc[p] \notin {"idle", "validate", "reconcile", "writeReconciled",
                                          "writeStarted"}
  BY DEF Started, Resuming
<1>3. mem[p].plan \in Plans /\ exec \in ExecState
  BY <1>1, <1>2 DEF ControlOK
<1>4. runs \in [RunIds -> RunState \union {NoFile}]
  BY Facts
<1>5. RunIdOf[mem[p].plan] \in RunIds
  BY <1>3
<1>6. /\ runs[RunIdOf[mem[p].plan]] # NoFile
      /\ runs[RunIdOf[mem[p].plan]].fp = mem[p].plan
      /\ \A l \in mem[p].todo : Undone(runs, mem[p].plan, l)
  BY <1>1, <1>2 DEF Current
<1>7. /\ exec.run = RunIdOf[mem[p].plan]
      /\ pc[p] \in Recording \ {"readExec"} => mem[p].exec.run = RunIdOf[mem[p].plan]
  BY <1>1 DEF Current
<1>8. runs[RunIdOf[mem[p].plan]] \in RunState
  BY <1>4, <1>5, <1>6
<1> QED BY <1>1, <1>3, <1>5, <1>6, <1>7, <1>8

\* Reading execution-state for a worker's result or for the final status.
LEMMA ReadExecutionSteps ==
    ASSUME Sole, SInv, IInv', NEW p \in Procs, ReadForRecord(p) \/ ReadForFinalize(p)
    PROVE  SInv'
<1>0. mem \in [Procs -> Memory] /\ pc \in [Procs -> Locations]
  BY Facts
<1>1. /\ pc[p] = "readExec" /\ mem[p].op \in {"record", "finalize"} /\ UNCHANGED <<exec, runs>>
      /\ pc[p] \in Started /\ pc[p] \in Recording
  BY DEF ReadForRecord, ReadForFinalize, At, Started, Resuming, Recording, Locations
<1>2. exec.run = RunIdOf[mem[p].plan] /\ exec \in ExecState /\ mem[p] \in Memory
  BY <1>1, InnerFacts
<1>3. CASE ReadForRecord(p)
  <2>1. PICK o \in Outcomes : mem' = [mem EXCEPT ![p].exec = exec, ![p].result = o]
    BY <1>3 DEF ReadForRecord
  <2>2. /\ mem'[p].op = mem[p].op /\ mem'[p].plan = mem[p].plan /\ mem'[p].todo = mem[p].todo
        /\ mem'[p].lane = mem[p].lane /\ mem'[p].exec = exec
    BY <1>0, <2>1 DEF Memory
  <2>3. pc'[p] = "telRead" /\ "telRead" \in Started
    BY <1>0, <1>3 DEF ReadForRecord, Goto, Started, Resuming, Locations
  <2> QED BY <1>1, <1>2, <2>2, <2>3, InnerKeeps
<1>4. CASE ReadForFinalize(p)
  <2>1. /\ mem'[p].op = mem[p].op /\ mem'[p].plan = mem[p].plan /\ mem'[p].todo = mem[p].todo
        /\ mem'[p].lane = mem[p].lane /\ mem'[p].exec = exec
    BY <1>0, <1>4 DEF ReadForFinalize, Memory
  <2>2. pc'[p] = "writeExec" /\ "writeExec" \in Started
    BY <1>0, <1>2, <1>4 DEF ReadForFinalize, Goto, Started, Resuming, Locations
  <2>3. mem[p].op = "finalize"
    BY <1>4 DEF ReadForFinalize
  <2> QED BY <1>1, <1>2, <2>1, <2>2, <2>3, InnerKeeps
<1> QED BY <1>3, <1>4

\* Writing execution-state leaves the run it names; the run-state read is that run's.
LEMMA ExecutionSteps ==
    ASSUME Sole, SInv, IInv', NEW p \in Procs, WriteExecution(p) \/ ReadRun(p)
    PROVE  SInv'
<1>0. mem \in [Procs -> Memory] /\ pc \in [Procs -> Locations] /\ ControlOK(p)
  BY Facts
<1>1. pc[p] \in {"writeExec", "readRun"} /\ runs' = runs /\ pc[p] \in Started /\ pc[p] \in Recording
  BY DEF WriteExecution, ReadRun, At, Started, Resuming, Recording, Locations
<1>2. /\ exec.run = RunIdOf[mem[p].plan] /\ exec \in ExecState /\ mem[p] \in Memory
      /\ mem[p].exec.run = RunIdOf[mem[p].plan] /\ runs[RunIdOf[mem[p].plan]] # NoFile
  BY <1>1, InnerFacts
<1>3. CASE WriteExecution(p)
  <2>1. mem'[p] = mem[p] /\ pc'[p] = "readRun" /\ "readRun" \in Started
    BY <1>0, <1>3 DEF WriteExecution, Goto, Started, Resuming, Locations
  <2>2. mem[p].exec \in ExecState /\ mem[p].op \in {"update", "record", "finalize"}
    BY <1>0, <1>1 DEF ControlOK
  <2>3. exec'.run = mem[p].exec.run
    <3>1. exec' = ChangedExecution(mem[p])
      BY <1>3 DEF WriteExecution
    <3> QED BY <2>2, <3>1 DEF ChangedExecution, ExecState
  <2> QED BY <1>1, <1>2, <2>1, <2>3, InnerKeeps
<1>4. CASE ReadRun(p)
  <2>1. /\ mem'[p].op = mem[p].op /\ mem'[p].plan = mem[p].plan /\ mem'[p].todo = mem[p].todo
        /\ mem'[p].lane = mem[p].lane /\ mem'[p].exec = mem[p].exec
        /\ mem'[p].run = runs[RunIdOf[mem[p].plan]]
    BY <1>0, <1>2, <1>4 DEF ReadRun, Memory
  <2>2. pc'[p] = "writeRun" /\ "writeRun" \in Started /\ exec' = exec
    BY <1>0, <1>2, <1>4 DEF ReadRun, Goto, Started, Resuming, Locations
  <2> QED BY <1>1, <1>2, <2>1, <2>2, InnerKeeps
<1> QED BY <1>3, <1>4

\* Telemetry has no part in the refinement.
LEMMA TelemetrySteps ==
    ASSUME Sole, SInv, IInv', NEW p \in Procs,
           ReadTelemetry(p) \/ TruncateTelemetry(p) \/ WriteTelemetry(p)
    PROVE  SInv'
<1>0. mem \in [Procs -> Memory] /\ pc \in [Procs -> Locations]
  BY Facts
<1>1. /\ pc[p] \in {"telRead", "telTruncate", "telWrite"} /\ UNCHANGED <<exec, runs>>
      /\ pc[p] \in Started /\ pc[p] \in Recording
  BY DEF ReadTelemetry, TruncateTelemetry, WriteTelemetry, At, Started, Resuming, Recording,
         Locations
<1>2. mem[p] \in Memory /\ mem[p].exec.run = RunIdOf[mem[p].plan]
  BY <1>1, InnerFacts
<1>3. CASE End(p, "error")
  BY <1>1, <1>3, EndCurrent
<1>4. CASE ~End(p, "error")
  <2>1. pc'[p] \in {"telTruncate", "telWrite", "telRead", "writeExec"}
    BY <1>0, <1>4 DEF ReadTelemetry, TruncateTelemetry, WriteTelemetry, Goto
  <2>2. /\ mem'[p].op = mem[p].op /\ mem'[p].plan = mem[p].plan /\ mem'[p].todo = mem[p].todo
        /\ mem'[p].lane = mem[p].lane /\ mem'[p].exec = mem[p].exec
    BY <1>0, <1>2, <1>4 DEF ReadTelemetry, TruncateTelemetry, WriteTelemetry, Memory
  <2>3. pc'[p] \in Started
    BY <2>1 DEF Started, Resuming, Locations
  <2> QED BY <1>1, <1>2, <2>1, <2>2, <2>3, InnerKeeps
<1> QED BY <1>3, <1>4

\* The merge guards name the finished runs of the plan on disk.
LEMMA GuardSteps ==
    ASSUME Sole, SInv, IInv', NEW p \in Procs, ReadGuardInputs(p) \/ WriteGuards(p)
    PROVE  SInv'
<1>0. mem \in [Procs -> Memory] /\ pc \in [Procs -> Locations]
  BY Facts
<1>1. /\ pc[p] \in {"guardsRead", "guardsWrite"} /\ UNCHANGED <<exec, runs>> /\ pc[p] \in Started
  BY DEF ReadGuardInputs, WriteGuards, At, Started, Resuming, Locations
<1>2. CASE ReadGuardInputs(p)
  <2>1. /\ mem'[p].op = mem[p].op /\ mem'[p].plan = mem[p].plan /\ mem'[p].todo = mem[p].todo
        /\ mem'[p].lane = mem[p].lane /\ mem'[p].seen = evaluateExecutionMergeGuards
    BY <1>0, <1>2 DEF ReadGuardInputs, Memory
  <2>2. pc'[p] = "guardsWrite" /\ "guardsWrite" \in Started /\ "guardsWrite" \notin Recording
    BY <1>0, <1>2 DEF ReadGuardInputs, Goto, Started, Resuming, Locations, Recording
  <2>3. \A g \in evaluateExecutionMergeGuards : FinishedRun(runs, g)
    BY DEF evaluateExecutionMergeGuards, evaluateRun, FinishedRun
  <2> QED BY <1>1, <2>1, <2>2, <2>3, InnerKeeps
<1>3. CASE WriteGuards(p)
  <2>1. mem'[p] = mem[p] /\ pc'[p] = "guardsDone"
    BY <1>0, <1>3 DEF WriteGuards, Goto
  <2>2. "guardsDone" \in Started /\ "guardsDone" \notin Recording
    BY DEF Started, Resuming, Locations, Recording
  <2> QED BY <1>1, <2>1, <2>2, InnerKeeps
<1> QED BY <1>2, <1>3

\* The reconciled run-state belongs to the plan, keeps exactly the completed lanes of a prior
\* run of the same plan, and completes lanes of the plan only.
LEMMA Reconciled ==
    ASSUME NEW pl \in Plans, NEW read \in RunState \union {NoFile},
           NEW run, run = reconcileOrchestrationRunState(pl, read)
    PROVE  /\ run.fp = pl
           /\ \A l \in Lanes : run.lanes[l] = "completed" <=>
                /\ l \in pl.lanes /\ read # NoFile /\ read.fp = pl
                /\ read.lanes[l] = "completed"
<1> DEFINE prior == IF read # NoFile /\ read.fp = pl THEN read ELSE NoFile
           lanes == [l \in Lanes |-> reconciledStatus(pl, prior, l)]
<1>1. run.fp = pl /\ run.lanes = lanes
  BY DEF reconcileOrchestrationRunState
<1>2. \A l \in Lanes : run.lanes[l] = reconciledStatus(pl, prior, l)
  BY <1>1
<1>3. \A l \in Lanes : reconciledStatus(pl, prior, l) = "completed" <=>
         l \in pl.lanes /\ prior # NoFile /\ prior.lanes[l] = "completed"
  <2> HIDE DEF prior
  <2> QED BY DEF reconciledStatus
<1> QED BY <1>1, <1>2, <1>3

\* Reconciling claims the run for the plan; the lanes to run are those not completed.
LEMMA ReconcileStep ==
    ASSUME Sole, SInv, IInv', NEW p \in Procs, WriteReconciledRun(p)
    PROVE  SInv'
<1> DEFINE pl == mem[p].plan
           run == reconcileOrchestrationRunState(pl, mem[p].run)
<1>1. /\ mem[p] \in Memory /\ mem \in [Procs -> Memory] /\ pc \in [Procs -> Locations]
      /\ runs \in [RunIds -> RunState \union {NoFile}] /\ OwnLanes(runs)
      /\ Current(pc[p], mem[p], runs, exec) /\ ControlOK(p)
  BY Facts
<1>2. /\ pc[p] = "writeReconciled" /\ runs' = [runs EXCEPT ![RunIdOf[pl]] = run]
      /\ mem'[p] = [mem[p] EXCEPT !.run = run, !.todo = lanesToRun(pl, run)]
      /\ pc'[p] = "writeStarted" /\ exec' = exec
  BY <1>1 DEF WriteReconciledRun, At, Goto
<1>3. pl \in Plans /\ RunIdOf[pl] \in RunIds /\ mem[p].run \in RunState \union {NoFile}
  BY <1>1, <1>2 DEF ControlOK, Memory
<1>4. mem[p].op = "start"
  BY <1>1, <1>2 DEF Current, Started, Resuming
<1>5. run \in RunState /\ run # NoFile
  <2>1. mem[p].run # NoFile => Backed(mem[p].run)
    BY DEF SInv, IInv
  <2> QED BY <1>3, <2>1, ReconcileBacked, NoFileType
<1>6. run.fp = pl /\ \A l \in Lanes : run.lanes[l] = "completed" => l \in pl.lanes
  BY <1>3, Reconciled
<1>7. lanesToRun(pl, run) = {l \in pl.eligible : run.lanes[l] # "completed"}
  BY DEF lanesToRun
<1> HIDE DEF run
<1>8. /\ mem'[p].op = "start" /\ mem'[p].plan = pl /\ mem'[p].todo = lanesToRun(pl, run)
  BY <1>1, <1>2, <1>4 DEF Memory
<1>9. runs'[RunIdOf[pl]] = run
  BY <1>1, <1>2, <1>3
<1>10. OwnLanes(runs')
  <2> SUFFICES ASSUME NEW r \in RunIds, runs'[r] # NoFile, NEW l \in Lanes,
                      runs'[r].lanes[l] = "completed"
               PROVE  l \in runs'[r].fp.lanes
    BY DEF OwnLanes
  <2>1. CASE r = RunIdOf[pl]
    BY <1>6, <1>9, <2>1
  <2>2. CASE r # RunIdOf[pl]
    <3>1. runs'[r] = runs[r]
      BY <1>1, <1>2, <2>2
    <3> QED BY <1>1, <3>1 DEF OwnLanes
  <2> QED BY <2>1, <2>2
<1>11. \A l \in mem'[p].todo : Undone(runs', pl, l)
  BY <1>7, <1>8, <1>9 DEF Undone
<1>12. /\ "writeStarted" \notin Started /\ "writeStarted" \in Resuming
       /\ "writeStarted" \notin Recording
  BY DEF Started, Resuming, Recording, Locations
<1>13. Current("writeStarted", mem'[p], runs', exec')
  <2> HIDE DEF pl
  <2> QED BY <1>5, <1>6, <1>8, <1>9, <1>11, <1>12 DEF Current
<1> QED BY <1>2, <1>10, <1>13, SoleKeeps

\* From here on execution-state names the run of the plan.
LEMMA StartStep ==
    ASSUME Sole, SInv, IInv', NEW p \in Procs, WriteStartedExecution(p)
    PROVE  SInv'
<1>1. Current(pc[p], mem[p], runs, exec) /\ OwnLanes(runs) /\ pc \in [Procs -> Locations]
  BY Facts
<1>2. /\ pc[p] = "writeStarted" /\ pc'[p] = "guardsRead" /\ mem' = mem /\ runs' = runs
      /\ exec'.run = RunIdOf[mem[p].plan]
  BY <1>1 DEF WriteStartedExecution, At, Goto
<1>3. /\ "writeStarted" \in Resuming /\ "guardsRead" \in Started /\ "guardsRead" \in Resuming
      /\ "guardsRead" \notin Recording /\ "writeStarted" \notin Started
  BY DEF Started, Resuming, Recording, Locations
<1>4. mem[p].op = "start"
  BY <1>1, <1>2, <1>3 DEF Current
<1>5. Current("guardsRead", mem[p], runs, exec')
  BY <1>1, <1>2, <1>3, <1>4 DEF Current
<1> QED BY <1>1, <1>2, <1>5, SoleKeeps

\* The lane updateLaneState takes from the loop is one that is not completed.
LEMMA UpdateStep ==
    ASSUME Sole, SInv, IInv', NEW p \in Procs, ReadForUpdate(p)
    PROVE  SInv'
<1>1. /\ OwnLanes(runs) /\ pc \in [Procs -> Locations] /\ mem \in [Procs -> Memory]
      /\ mem[p] \in Memory
  BY Facts
<1>2. PICK l \in mem[p].todo :
         mem' = [mem EXCEPT ![p].exec = exec, ![p].lane = l, ![p].todo = @ \ {l}]
  BY DEF ReadForUpdate
<1>3. /\ pc[p] = "readExec" /\ pc'[p] = "writeExec" /\ UNCHANGED <<runs, exec>>
      /\ mem[p].op = "update"
  BY <1>1 DEF ReadForUpdate, At, Goto
<1>4. /\ mem'[p].op = "update" /\ mem'[p].plan = mem[p].plan /\ mem'[p].lane = l
      /\ mem'[p].todo = mem[p].todo \ {l} /\ mem'[p].exec = exec
  BY <1>1, <1>2, <1>3 DEF Memory
<1>5. /\ "writeExec" \in Started /\ "writeExec" \in Resuming /\ "writeExec" \in Recording
      /\ pc[p] \in Started
  BY <1>3 DEF Started, Resuming, Recording, Locations
<1>6. /\ exec.run = RunIdOf[mem[p].plan] /\ runs[RunIdOf[mem[p].plan]] # NoFile
      /\ runs[RunIdOf[mem[p].plan]].fp = mem[p].plan
      /\ \A k \in mem[p].todo : Undone(runs, mem[p].plan, k)
  BY <1>5, InnerFacts
<1>7. Current("writeExec", mem'[p], runs, exec)
  BY <1>4, <1>5, <1>6 DEF Current
<1> QED BY <1>1, <1>3, <1>7, SoleKeeps

\* What a supervisor call makes of a run-state: it moves the lane at hand, no other.
LEMMA ChangedRunLanes ==
    ASSUME NEW m \in Memory, m.run \in RunState,
           m.op \in {"update", "record", "finalize"}
    PROVE  /\ ChangedRun(m).fp = m.run.fp
           /\ \A l \in Lanes :
                 ChangedRun(m).lanes[l] =
                    IF l # m.lane THEN m.run.lanes[l]
                    ELSE CASE m.op = "update"   -> "running"
                           [] m.op = "record"   -> m.result
                           [] m.op = "finalize" -> m.run.lanes[l]
<1>1. m.run.lanes \in [Lanes -> LaneRunStatus]
  BY DEF RunState
<1>2. CASE m.op = "update"
  BY <1>1, <1>2 DEF ChangedRun, RunState
<1>3. CASE m.op = "record"
  BY <1>1, <1>3 DEF ChangedRun, RunState
<1>4. CASE m.op = "finalize"
  BY <1>1, <1>4 DEF ChangedRun, RunState
<1> QED BY <1>2, <1>3, <1>4

\* What WriteRun does to the run of the plan when the copy it changes is current.
LEMMA WriteRunFacts ==
    ASSUME SInv, NEW p \in Procs, WriteRun(p)
    PROVE  /\ mem[p].op \in {"update", "record", "finalize"} /\ mem[p] \in Memory
           /\ pc[p] = "writeRun" /\ pc[p] \in Started /\ RunIdOf[mem[p].plan] \in RunIds
           /\ mem[p].run = runs[RunIdOf[mem[p].plan]] /\ mem[p].run \in RunState
           /\ mem[p].run.fp = mem[p].plan
           /\ runs' = [runs EXCEPT ![RunIdOf[mem[p].plan]] = ChangedRun(mem[p])]
           /\ runs'[RunIdOf[mem[p].plan]] = ChangedRun(mem[p])
           /\ ChangedRun(mem[p]) \in RunState
           /\ mem[p].op # "finalize" =>
                 mem[p].lane \in Lanes /\ mem[p].lane \notin mem[p].todo
                 /\ Undone(runs, mem[p].plan, mem[p].lane)
<1>1. /\ Current(pc[p], mem[p], runs, exec) /\ ControlOK(p) /\ mem[p] \in Memory
      /\ runs \in [RunIds -> RunState \union {NoFile}]
  BY Facts
<1>2. /\ pc[p] = "writeRun" /\ pc[p] \in Started /\ pc[p] \in Recording \ {"readExec"}
  BY DEF WriteRun, At, Started, Resuming, Recording, Locations
<1>3. /\ RunIdOf[mem[p].plan] \in RunIds /\ mem[p].exec.run = RunIdOf[mem[p].plan]
      /\ runs[RunIdOf[mem[p].plan]].fp = mem[p].plan
  BY <1>2, InnerFacts
<1>4. mem[p].op \in {"update", "record", "finalize"} /\ mem[p].run \in RunState
  BY <1>1, <1>2 DEF ControlOK
<1>5. mem[p].run = runs[RunIdOf[mem[p].plan]]
  BY <1>1, <1>2 DEF Current
<1>6. mem[p].op # "finalize" => mem[p].lane \in Lanes
  BY <1>1, <1>2, <1>4 DEF ControlOK
<1>7. mem[p].op # "finalize" => mem[p].lane \notin mem[p].todo
                                 /\ Undone(runs, mem[p].plan, mem[p].lane)
  BY <1>1, <1>2, <1>4 DEF Current
<1>8. runs' = [runs EXCEPT ![RunIdOf[mem[p].plan]] = ChangedRun(mem[p])]
  BY <1>3 DEF WriteRun
<1>9. ChangedRun(mem[p]) \in RunState
  <2>1. Backed(mem[p].run)
    BY <1>4, NoFileType DEF SInv, IInv
  <2> QED BY <1>1, <1>4, <1>6, <2>1, ChangedRunBacked
<1>10. runs'[RunIdOf[mem[p].plan]] = ChangedRun(mem[p])
  BY <1>1, <1>3, <1>8
<1> QED BY <1>1, <1>2, <1>3, <1>4, <1>5, <1>6, <1>7, <1>8, <1>9, <1>10

\* Writing the run-state completes at most the lane at hand, which has left the loop.
LEMMA WriteRunStep ==
    ASSUME Sole, SInv, IInv', NEW p \in Procs, WriteRun(p)
    PROVE  SInv'
<1> DEFINE pl == mem[p].plan
           l0 == mem[p].lane
           run == ChangedRun(mem[p])
<1>1. /\ OwnLanes(runs) /\ pc \in [Procs -> Locations] /\ mem[p] \in Memory
      /\ runs \in [RunIds -> RunState \union {NoFile}]
  BY Facts
<1>2. /\ mem[p].op \in {"update", "record", "finalize"} /\ pc[p] \in Started
      /\ mem[p].run = runs[RunIdOf[pl]] /\ mem[p].run.fp = pl /\ mem[p].run \in RunState
      /\ runs' = [runs EXCEPT ![RunIdOf[pl]] = run]
      /\ runs'[RunIdOf[pl]] = run /\ run \in RunState
      /\ mem[p].op # "finalize" =>
            l0 \in Lanes /\ l0 \notin mem[p].todo /\ Undone(runs, pl, l0)
  BY WriteRunFacts
<1>3. /\ run.fp = pl
      /\ \A l \in Lanes :
            run.lanes[l] = IF l # l0 THEN mem[p].run.lanes[l]
                           ELSE CASE mem[p].op = "update"   -> "running"
                                  [] mem[p].op = "record"   -> mem[p].result
                                  [] mem[p].op = "finalize" -> mem[p].run.lanes[l]
  BY <1>1, <1>2, ChangedRunLanes
<1>4. pc'[p] = "guardsRead" /\ mem' = mem /\ exec' = exec
  BY <1>1 DEF WriteRun, Goto
<1>5. /\ exec.run = RunIdOf[pl] /\ pl \in Plans /\ RunIdOf[pl] \in RunIds
      /\ \A l \in mem[p].todo : Undone(runs, pl, l)
  BY <1>2, InnerFacts
<1>6. pl.eligible \subseteq pl.lanes /\ mem[p].todo \subseteq Lanes
  BY <1>1, <1>5 DEF Memory
<1> HIDE DEF run
<1>7. OwnLanes(runs')
  <2> SUFFICES ASSUME NEW r \in RunIds, runs'[r] # NoFile, NEW l \in Lanes,
                      runs'[r].lanes[l] = "completed"
               PROVE  l \in runs'[r].fp.lanes
    BY DEF OwnLanes
  <2>1. CASE r = RunIdOf[pl] /\ (l # l0 \/ mem[p].op = "finalize")
    <3>1. runs[r].lanes[l] = "completed" /\ runs[r] # NoFile
      BY <1>2, <1>3, <2>1, NoFileType
    <3> QED BY <1>1, <1>2, <1>3, <2>1, <3>1 DEF OwnLanes
  <2>2. CASE r = RunIdOf[pl] /\ l = l0 /\ mem[p].op # "finalize"
    BY <1>2, <1>3, <1>6, <2>2 DEF Undone
  <2>3. CASE r # RunIdOf[pl]
    <3>1. runs'[r] = runs[r]
      BY <1>1, <1>2, <2>3
    <3> QED BY <1>1, <3>1 DEF OwnLanes
  <2> QED BY <2>1, <2>2, <2>3
<1>8. \A l \in mem[p].todo : Undone(runs', pl, l)
  <2> SUFFICES ASSUME NEW l \in mem[p].todo PROVE Undone(runs', pl, l)
    OBVIOUS
  <2>1. l \in Lanes /\ l \in pl.eligible /\ mem[p].run.lanes[l] # "completed"
    BY <1>2, <1>5, <1>6 DEF Undone
  <2>2. run.lanes[l] # "completed"
    BY <1>2, <1>3, <2>1
  <2> QED BY <1>2, <2>1, <2>2 DEF Undone
<1>9. mem[p].op = "update" => l0 \notin mem[p].todo /\ Undone(runs', pl, l0)
  BY <1>2, <1>3 DEF Undone
<1>10. /\ "guardsRead" \in Started /\ "guardsRead" \in Resuming /\ "guardsRead" \notin Recording
  BY DEF Started, Resuming, Recording, Locations
<1>11. run # NoFile
  BY <1>2, NoFileType
<1>12. Current("guardsRead", mem[p], runs', exec)
  <2> HIDE DEF pl, l0
  <2>1. /\ runs'[RunIdOf[mem[p].plan]] # NoFile /\ runs'[RunIdOf[mem[p].plan]].fp = mem[p].plan
        /\ \A l \in mem[p].todo : Undone(runs', mem[p].plan, l)
        /\ exec.run = RunIdOf[mem[p].plan]
        /\ mem[p].op = "update" => mem[p].lane \notin mem[p].todo
                                   /\ Undone(runs', mem[p].plan, mem[p].lane)
    BY <1>2, <1>3, <1>5, <1>8, <1>9, <1>11 DEF pl, l0
  <2> QED BY <1>10, <2>1 DEF Current
<1> QED BY <1>4, <1>7, <1>12, SoleKeeps

\* The next supervisor call goes on with the lanes left, a record with the updated lane.
LEMMA ReturnStep ==
    ASSUME Sole, SInv, IInv', NEW p \in Procs, Return(p)
    PROVE  SInv'
<1>1. /\ OwnLanes(runs) /\ pc \in [Procs -> Locations] /\ mem[p] \in Memory
      /\ mem \in [Procs -> Memory] /\ Current(pc[p], mem[p], runs, exec)
  BY Facts
<1>2. /\ pc[p] = "guardsDone" /\ mem[p].op # "report" /\ UNCHANGED <<runs, exec>>
      /\ mem'[p] = [Blank EXCEPT !.op = NextOp(mem[p]), !.plan = mem[p].plan,
                                 !.todo = mem[p].todo, !.lane = mem[p].lane]
      /\ pc'[p] = IF NextOp(mem[p]) = "report" THEN "guardsRead" ELSE "readExec"
  BY <1>1 DEF Return, At, Goto
<1>3. /\ NextOp(mem[p]) \in {"update", "record", "finalize", "report"}
      /\ NextOp(mem[p]) = "record" => mem[p].op = "update"
      /\ NextOp(mem[p]) = "update" => pc'[p] = "readExec"
  BY <1>1, <1>2 DEF NextOp, Memory
<1>4. /\ mem'[p].op = NextOp(mem[p]) /\ mem'[p].plan = mem[p].plan
      /\ mem'[p].todo = mem[p].todo /\ mem'[p].lane = mem[p].lane
  BY <1>2 DEF Blank
<1>5. pc'[p] \in {"guardsRead", "readExec"}
  BY <1>2
<1>6. /\ {"guardsRead", "readExec"} \subseteq Started /\ {"guardsRead", "readExec"} \subseteq Resuming
      /\ "guardsRead" \notin Recording /\ pc[p] \in Started /\ pc[p] # "readExec"
  BY <1>2 DEF Started, Resuming, Recording, Locations
<1>7. /\ exec.run = RunIdOf[mem[p].plan] /\ runs[RunIdOf[mem[p].plan]] # NoFile
      /\ runs[RunIdOf[mem[p].plan]].fp = mem[p].plan
      /\ \A k \in mem[p].todo : Undone(runs, mem[p].plan, k)
  BY <1>6, InnerFacts
<1>8. mem[p].op = "update" => mem[p].lane \notin mem[p].todo
                              /\ Undone(runs, mem[p].plan, mem[p].lane)
  BY <1>1, <1>6 DEF Current
<1>9. Current(pc'[p], mem'[p], runs, exec)
  BY <1>3, <1>4, <1>5, <1>6, <1>7, <1>8 DEF Current
<1> QED BY <1>1, <1>2, <1>9, SoleKeeps

\* A process that does nothing yet knows nothing.
LEMMA InitSInv == Init => SInv
<1> SUFFICES ASSUME Init PROVE SInv
  OBVIOUS
<1>1. \A p \in Procs : pc[p] = "idle" /\ mem[p] = Blank
  BY DEF Init
<1>2. \A p \in Procs : Current(pc[p], mem[p], runs, exec)
  BY <1>1 DEF Current, Started, Resuming, Recording, Blank
<1>3. OwnLanes(runs)
  BY DEF Init, OwnLanes
<1> QED BY <1>2, <1>3, InitIInv DEF SInv

\* While invocations do not overlap, every step keeps the invariant.
LEMMA NextSInv == Sole /\ SInv /\ [Next]_vars => SInv'
<1> SUFFICES ASSUME Sole, SInv, [Next]_vars PROVE SInv'
  OBVIOUS
<1>1. IInv'
  BY NextKeeps DEF SInv
<1>2. CASE OtherCommand \/ UNCHANGED vars
  <2>1. UNCHANGED <<runs, exec, pc, mem>>
    BY <1>2 DEF OtherCommand, Orchestrate, WriteLaunchPlan, RecordReceipt, RegisterCapability,
                Route, Environment, vars
  <2>2. OwnLanes(runs') /\ \A q \in Procs : Current(pc'[q], mem'[q], runs', exec')
    BY <2>1 DEF SInv
  <2> QED BY <1>1, <2>2 DEF SInv
<1>3. ASSUME NEW p \in Procs, Invoke(p) \/ Step(p) \/ Crash(p)
      PROVE  SInv'
  <2>1. CASE Crash(p)
    BY <1>1, <2>1, EndCurrent DEF Crash
  <2>2. CASE Report(p)
    BY <1>1, <2>2, EndCurrent DEF Report
  <2>3. CASE Invoke(p) \/ ValidateLaunchPlan(p) \/ ReadPriorRun(p)
    BY <1>1, <2>3, EarlySteps
  <2> QED BY <1>1, <1>3, <2>1, <2>2, <2>3, ReconcileStep, StartStep, UpdateStep,
             ReadExecutionSteps, ExecutionSteps, WriteRunStep, TelemetrySteps, GuardSteps,
             ReturnStep DEF Step
<1> QED BY <1>2, <1>3 DEF Next

-----------------------------------------------------------------------------
(* Every step is a step of ResumableRun, or leaves its variables alone. *)

Owner(rs) == [r \in RunIds |-> IF rs[r] = NoFile THEN None ELSE rs[r].fp]
CompletedLanes(run) == {l \in Lanes : run.lanes[l] = "completed"}
Done(rs)  == [r \in RunIds |-> IF rs[r] = NoFile THEN {} ELSE CompletedLanes(rs[r])]

\* The abstract actions, on the files they stand for.
StartRun(r, pl) ==
    /\ Owner(runs)[r] # pl
    /\ Owner(runs') = [Owner(runs) EXCEPT ![r] = pl]
    /\ Done(runs') = [Done(runs) EXCEPT ![r] = {}]
    /\ guards' = guards

CompleteLane(r, l) ==
    /\ Owner(runs)[r] # None
    /\ l \in Owner(runs)[r].eligible \ Done(runs)[r]
    /\ Done(runs') = [Done(runs) EXCEPT ![r] = @ \union {l}]
    /\ Owner(runs') = Owner(runs) /\ guards' = guards

JudgeRuns ==
    /\ \A g \in guards' : /\ g[1] \in RunIds /\ g[2] \in Plans
                          /\ Owner(runs)[g[1]] = g[2]
                          /\ g[2].eligible \subseteq Done(runs)[g[1]]
    /\ Owner(runs') = Owner(runs) /\ Done(runs') = Done(runs)

AbstractStep ==
    \/ \E r \in RunIds, pl \in Plans : StartRun(r, pl) \/ \E l \in pl.eligible : CompleteLane(r, l)
    \/ JudgeRuns
    \/ Owner(runs') = Owner(runs) /\ Done(runs') = Done(runs) /\ guards' = guards

\* Rewriting one run file changes the owner and the completed lanes of that run only.
LEMMA OneRun ==
    ASSUME NEW r \in RunIds, NEW run \in RunState, runs \in [RunIds -> RunState \union {NoFile}],
           runs' = [runs EXCEPT ![r] = run]
    PROVE  /\ Owner(runs') = [Owner(runs) EXCEPT ![r] = run.fp]
           /\ Done(runs') = [Done(runs) EXCEPT ![r] = CompletedLanes(run)]
<1>1. run # NoFile /\ runs'[r] = run /\ \A x \in RunIds : x # r => runs'[x] = runs[x]
  BY NoFileType
<1>2. Owner(runs') = [Owner(runs) EXCEPT ![r] = run.fp]
  BY <1>1 DEF Owner
<1>3. Done(runs') = [Done(runs) EXCEPT ![r] = CompletedLanes(run)]
  BY <1>1 DEF Done
<1> QED BY <1>2, <1>3

\* Reconciling keeps the run's completed lanes, or begins the run of another plan.
LEMMA ReconcileRefines ==
    ASSUME SInv, NEW p \in Procs, WriteReconciledRun(p)
    PROVE  AbstractStep
<1> DEFINE pl == mem[p].plan
           r == RunIdOf[pl]
           run == reconcileOrchestrationRunState(pl, mem[p].run)
<1>1. /\ mem[p] \in Memory /\ runs \in [RunIds -> RunState \union {NoFile}] /\ OwnLanes(runs)
      /\ Current(pc[p], mem[p], runs, exec) /\ ControlOK(p)
  BY Facts
<1>2. /\ pc[p] = "writeReconciled" /\ runs' = [runs EXCEPT ![r] = run] /\ guards' = guards
  BY DEF WriteReconciledRun, At
<1>3. pl \in Plans /\ r \in RunIds /\ mem[p].run = runs[r]
  BY <1>1, <1>2 DEF ControlOK, Current
<1>4. run \in RunState
  <2>1. mem[p].run # NoFile => Backed(mem[p].run)
    BY DEF SInv, IInv
  <2> QED BY <1>1, <1>3, <2>1, ReconcileBacked
<1>5. /\ run.fp = pl
      /\ \A l \in Lanes : run.lanes[l] = "completed" <=>
            l \in pl.lanes /\ runs[r] # NoFile /\ runs[r].fp = pl
            /\ runs[r].lanes[l] = "completed"
  BY <1>1, <1>3, Reconciled
<1> HIDE DEF run
<1>6. /\ Owner(runs') = [Owner(runs) EXCEPT ![r] = pl]
      /\ Done(runs') = [Done(runs) EXCEPT ![r] = CompletedLanes(run)]
  <2> HIDE DEF r
  <2>1. r \in RunIds /\ run \in RunState /\ runs' = [runs EXCEPT ![r] = run]
    BY <1>2, <1>3, <1>4
  <2>2. /\ Owner(runs') = [Owner(runs) EXCEPT ![r] = run.fp]
        /\ Done(runs') = [Done(runs) EXCEPT ![r] = CompletedLanes(run)]
    BY <1>1, <2>1, OneRun
  <2> QED BY <1>5, <2>2
<1>7. CASE runs[r] # NoFile /\ runs[r].fp = pl
  <2>1. CompletedLanes(run) = CompletedLanes(runs[r])
    BY <1>1, <1>3, <1>5, <1>7 DEF OwnLanes, CompletedLanes
  <2>2. Owner(runs)[r] = pl /\ Done(runs)[r] = CompletedLanes(runs[r])
    BY <1>3, <1>7 DEF Owner, Done, CompletedLanes
  <2>3. Owner(runs') = Owner(runs)
    BY <1>6, <2>2 DEF Owner
  <2>4. Done(runs') = Done(runs)
    BY <1>6, <2>1, <2>2 DEF Done
  <2> QED BY <1>2, <2>3, <2>4 DEF AbstractStep
<1>8. CASE ~(runs[r] # NoFile /\ runs[r].fp = pl)
  <2>1. CompletedLanes(run) = {}
    BY <1>5, <1>8 DEF CompletedLanes
  <2>2. Owner(runs)[r] # pl
    BY <1>3, <1>8 DEF Owner
  <2>3. StartRun(r, pl)
    BY <1>2, <1>6, <2>1, <2>2 DEF StartRun
  <2> QED BY <1>3, <2>3 DEF AbstractStep
<1> QED BY <1>7, <1>8

\* Writing back a run-state completes the lane at hand, which was not, or no lane.
LEMMA WriteRunRefines ==
    ASSUME SInv, NEW p \in Procs, WriteRun(p)
    PROVE  AbstractStep
<1> DEFINE pl == mem[p].plan
           r == RunIdOf[pl]
           l0 == mem[p].lane
           run == ChangedRun(mem[p])
<1>1. /\ mem[p] \in Memory /\ runs \in [RunIds -> RunState \union {NoFile}]
      /\ guards' = guards
  BY Facts DEF WriteRun
<1>2. /\ mem[p].op \in {"update", "record", "finalize"} /\ pc[p] \in Started
      /\ mem[p].run = runs[r] /\ mem[p].run.fp = pl /\ mem[p].run \in RunState
      /\ runs' = [runs EXCEPT ![r] = run] /\ run \in RunState /\ r \in RunIds
      /\ mem[p].op # "finalize" => l0 \in Lanes /\ Undone(runs, pl, l0)
  BY WriteRunFacts
<1>3. /\ run.fp = pl
      /\ \A l \in Lanes :
            run.lanes[l] = IF l # l0 THEN mem[p].run.lanes[l]
                           ELSE CASE mem[p].op = "update"   -> "running"
                                  [] mem[p].op = "record"   -> mem[p].result
                                  [] mem[p].op = "finalize" -> mem[p].run.lanes[l]
  BY <1>1, <1>2, ChangedRunLanes
<1>4. pl \in Plans
  BY <1>2, InnerFacts
<1> HIDE DEF run
<1>5. /\ Owner(runs') = [Owner(runs) EXCEPT ![r] = pl]
      /\ Done(runs') = [Done(runs) EXCEPT ![r] = CompletedLanes(run)]
  <2> HIDE DEF r
  <2>1. r \in RunIds /\ run \in RunState /\ runs' = [runs EXCEPT ![r] = run]
    BY <1>2
  <2>2. /\ Owner(runs') = [Owner(runs) EXCEPT ![r] = run.fp]
        /\ Done(runs') = [Done(runs) EXCEPT ![r] = CompletedLanes(run)]
    BY <1>1, <2>1, OneRun
  <2> QED BY <1>3, <2>2
<1>6. Owner(runs)[r] = pl /\ Done(runs)[r] = CompletedLanes(mem[p].run)
  BY <1>2, NoFileType DEF Owner, Done
<1>7. Owner(runs') = Owner(runs)
  BY <1>5, <1>6 DEF Owner
<1>8. CASE mem[p].op = "record" /\ mem[p].result = "completed"
  <2>1. l0 \in Lanes /\ l0 \in pl.eligible /\ mem[p].run.lanes[l0] # "completed"
    BY <1>2, <1>8 DEF Undone
  <2>2. CompletedLanes(run) = Done(runs)[r] \union {l0}
    BY <1>3, <1>6, <1>8, <2>1 DEF CompletedLanes
  <2>3. Owner(runs)[r] # None /\ l0 \in Owner(runs)[r].eligible \ Done(runs)[r]
    BY <1>4, <1>6, <2>1 DEF CompletedLanes
  <2>4. CompleteLane(r, l0)
    BY <1>1, <1>5, <1>7, <2>2, <2>3 DEF CompleteLane
  <2> QED BY <1>2, <1>4, <2>1, <2>4 DEF AbstractStep
<1>9. CASE ~(mem[p].op = "record" /\ mem[p].result = "completed")
  <2>1. mem[p].op # "finalize" => mem[p].run.lanes[l0] # "completed"
    BY <1>2 DEF Undone
  <2>2. \A l \in Lanes : run.lanes[l] = "completed" <=> mem[p].run.lanes[l] = "completed"
    BY <1>2, <1>3, <1>9, <2>1
  <2>3. CompletedLanes(run) = Done(runs)[r]
    <3>1. CompletedLanes(run) = CompletedLanes(mem[p].run)
      BY <2>2, Zenon DEF CompletedLanes
    <3> QED BY <1>6, <3>1
  <2>4. Done(runs') = Done(runs)
    BY <1>5, <2>3 DEF Done
  <2> QED BY <1>1, <1>7, <2>4 DEF AbstractStep
<1> QED BY <1>8, <1>9

\* The guards written name runs that are finished at that moment.
LEMMA WriteGuardsRefines ==
    ASSUME SInv, NEW p \in Procs, WriteGuards(p)
    PROVE  AbstractStep
<1>1. /\ mem[p] \in Memory /\ Current(pc[p], mem[p], runs, exec)
      /\ pc[p] = "guardsWrite" /\ guards' = mem[p].seen /\ runs' = runs
  BY Facts DEF WriteGuards, At
<1>2. \A g \in mem[p].seen : FinishedRun(runs, g)
  BY <1>1 DEF Current
<1>3. \A g \in mem[p].seen : g[1] \in RunIds /\ g[2] \in Plans
  BY <1>1 DEF Memory
<1>4. \A pl \in Plans : pl.eligible \subseteq Lanes
  BY DEF LaunchPlan
<1>5. \A g \in mem[p].seen : /\ Owner(runs)[g[1]] = g[2]
                             /\ g[2].eligible \subseteq Done(runs)[g[1]]
  BY <1>2, <1>3, <1>4 DEF FinishedRun, Owner, Done, CompletedLanes
<1>6. JudgeRuns
  BY <1>1, <1>3, <1>5 DEF JudgeRuns
<1> QED BY <1>6 DEF AbstractStep

\* No other step touches a run file or the merge guards.
LEMMA StepRefines == SInv /\ [Next]_vars => AbstractStep
<1> SUFFICES ASSUME SInv, [Next]_vars PROVE AbstractStep
  OBVIOUS
<1>1. CASE UNCHANGED <<runs, guards>>
  BY <1>1 DEF AbstractStep
<1>2. CASE ~UNCHANGED <<runs, guards>>
  <2>1. PICK p \in Procs : Invoke(p) \/ Step(p) \/ Crash(p)
    BY <1>2 DEF Next, vars, OtherCommand, Orchestrate, WriteLaunchPlan, RecordReceipt,
         RegisterCapability, Route, Environment
  <2>2. ~Invoke(p) /\ ~Crash(p)
    BY <1>2 DEF Invoke, Crash
  <2>3. ~ValidateLaunchPlan(p) /\ ~ReadPriorRun(p) /\ ~WriteStartedExecution(p)
    BY <1>2 DEF ValidateLaunchPlan, ReadPriorRun, WriteStartedExecution
  <2>4. ~ReadForUpdate(p) /\ ~ReadForRecord(p) /\ ~ReadForFinalize(p) /\ ~WriteExecution(p)
    BY <1>2 DEF ReadForUpdate, ReadForRecord, ReadForFinalize, WriteExecution
  <2>5. ~ReadRun(p) /\ ~ReadTelemetry(p) /\ ~TruncateTelemetry(p) /\ ~WriteTelemetry(p)
    BY <1>2 DEF ReadRun, ReadTelemetry, TruncateTelemetry, WriteTelemetry
  <2>6. ~ReadGuardInputs(p) /\ ~Return(p) /\ ~Report(p)
    BY <1>2 DEF ReadGuardInputs, Return, Report
  <2>7. WriteReconciledRun(p) \/ WriteRun(p) \/ WriteGuards(p)
    BY <2>1, <2>2, <2>3, <2>4, <2>5, <2>6 DEF Step
  <2> QED BY <2>7, ReconcileRefines, WriteRunRefines, WriteGuardsRefines
<1> QED BY <1>1, <1>2

-----------------------------------------------------------------------------
\* As long as invocations do not overlap, `playbook execute` implements ResumableRun: for any
\* lanes, plans, run ids, crashes and changes of the inputs, a restart keeps what is completed,
\* no lane completes twice, and mergeable is only said of runs that are finished.
THEOREM ExecutionImplementsRun == Sole => (Spec => ImplementsResumableRun)
<1> SUFFICES ASSUME Sole PROVE Spec => ImplementsResumableRun
  OBVIOUS
<1>1. Init => Run!Init
  BY DEF Init, Run!Init
<1>2. AbstractStep => [Run!Next]_(Run!vars)
  <2> SUFFICES ASSUME AbstractStep PROVE [Run!Next]_(Run!vars)
    OBVIOUS
  <2>1. ASSUME NEW r \in RunIds, NEW pl \in Plans, StartRun(r, pl)
        PROVE  Run!Start(r, pl)
    BY <2>1 DEF StartRun, Run!Start, Owner, Done, CompletedLanes
  <2>2. ASSUME NEW r \in RunIds, NEW l, CompleteLane(r, l)
        PROVE  Run!Complete(r, l)
    BY <2>2 DEF CompleteLane, Run!Complete, Owner, Done, CompletedLanes
  <2>3. JudgeRuns => Run!Judge
    BY DEF JudgeRuns, Run!Judge, Run!Finished, Owner, Done, CompletedLanes
  <2>4. (Owner(runs') = Owner(runs) /\ Done(runs') = Done(runs) /\ guards' = guards)
           => UNCHANGED Run!vars
    BY DEF Run!vars, Owner, Done, CompletedLanes
  <2> QED BY <2>1, <2>2, <2>3, <2>4 DEF AbstractStep, Run!Next
<1>3. SInv /\ [Next]_vars => SInv' /\ [Run!Next]_(Run!vars)
  BY <1>2, NextSInv, StepRefines
<1> QED BY <1>1, <1>3, InitSInv, PTL DEF Spec, ImplementsResumableRun, Run!Spec

-----------------------------------------------------------------------------
(***************************************************************************)
(* Mergeable runs were executed.  This holds for one invocation at a time, *)
(* and for overlapping ones as long as there is one launch plan; with two  *)
(* plans, a process records its lane in whatever run execution-state names *)
(* at that moment.                                                         *)
(***************************************************************************)
OnePlan == \A a, b \in Plans : a = b

\* The lanes a run-state calls completed were executed under its plan; x is executed.
DoneIn(run, x) == \A l \in Lanes : run.lanes[l] = "completed" => l \in x[run.fp]

GuardsIn(gs, x) == \A g \in gs : g[2].eligible \subseteq x[g[2]]

\* What a process with memory m at a label may write is backed by the executions in x.
Performed(label, m, x) ==
    /\ m.run # NoFile => DoneIn(m.run, x)
    /\ label \in {"readRun", "writeRun"} /\ m.op = "record" /\ m.result = "completed"
         => m.lane \in x[m.plan]
    /\ GuardsIn(m.seen, x)

EInv ==
    /\ \A r \in RunIds : runs[r] # NoFile => DoneIn(runs[r], executed)
    /\ \A p \in Procs : Performed(pc[p], mem[p], executed)
    /\ GuardsIn(guards, executed)

\* A process writes back the run-state of its own plan.
OwnRun(p) == pc[p] = "writeRun" => mem[p].run.fp = mem[p].plan


\* Processes share files only.
LEMMA OthersStay ==
    ASSUME IInv, NEW p \in Procs, Invoke(p) \/ Step(p) \/ Crash(p), NEW q \in Procs, q # p
    PROVE  pc'[q] = pc[q] /\ mem'[q] = mem[q]
<1>1. pc \in [Procs -> Locations] /\ mem \in [Procs -> Memory]
  BY DEF IInv, TypeOK, Locations
<1>2. ASSUME NEW how, End(p, how) PROVE pc'[q] = pc[q] /\ mem'[q] = mem[q]
  BY <1>1, <1>2 DEF End
<1>3. CASE Invoke(p) \/ ValidateLaunchPlan(p) \/ ReadTelemetry(p) \/ Report(p) \/ Crash(p)
  BY <1>1, <1>2, <1>3 DEF Invoke, ValidateLaunchPlan, ReadTelemetry, Report, Crash, Goto
<1>4. CASE \/ ReadPriorRun(p) \/ WriteReconciledRun(p) \/ WriteStartedExecution(p)
           \/ ReadForUpdate(p) \/ ReadForRecord(p) \/ ReadForFinalize(p)
  BY <1>1, <1>4 DEF ReadPriorRun, WriteReconciledRun, WriteStartedExecution, ReadForUpdate,
       ReadForRecord, ReadForFinalize, Goto
<1>5. CASE \/ WriteExecution(p) \/ ReadRun(p) \/ WriteRun(p) \/ TruncateTelemetry(p)
           \/ WriteTelemetry(p) \/ ReadGuardInputs(p) \/ WriteGuards(p) \/ Return(p)
  BY <1>1, <1>5 DEF WriteExecution, ReadRun, WriteRun, TruncateTelemetry, WriteTelemetry,
       ReadGuardInputs, WriteGuards, Return, Goto
<1> QED BY <1>3, <1>4, <1>5 DEF Step

\* Executing more never takes back what a run-state, a guard or a memory rests on.
LEMMA MoreExecuted ==
    ASSUME NEW x, NEW y, \A pl \in Plans : x[pl] \subseteq y[pl]
    PROVE  /\ \A run \in RunState : DoneIn(run, x) => DoneIn(run, y)
           /\ \A gs \in SUBSET (RunIds \X Plans) : GuardsIn(gs, x) => GuardsIn(gs, y)
BY DEF DoneIn, GuardsIn, RunState

LEMMA MorePerformed ==
    ASSUME NEW x, NEW y, \A pl \in Plans : x[pl] \subseteq y[pl],
           NEW label, NEW m \in Memory, label \in {"readRun", "writeRun"} => m.plan \in Plans,
           Performed(label, m, x)
    PROVE  Performed(label, m, y)
<1>1. m.run \in RunState \union {NoFile} /\ m.seen \in SUBSET (RunIds \X Plans)
  BY DEF Memory
<1> QED BY <1>1, MoreExecuted DEF Performed

LEMMA PerformedKeeps ==
    ASSUME IInv, EInv, NEW p \in Procs, Invoke(p) \/ Step(p) \/ Crash(p),
           \A pl \in Plans : executed[pl] \subseteq executed'[pl],
           Performed(pc'[p], mem'[p], executed'),
           \A r \in RunIds : runs'[r] # NoFile => runs'[r] = runs[r] \/ DoneIn(runs'[r], executed'),
           guards' = guards \/ GuardsIn(guards', executed')
    PROVE  EInv'
<1>1. \A q \in Procs : q # p => pc'[q] = pc[q] /\ mem'[q] = mem[q]
  BY OthersStay
<1>2. /\ \A q \in Procs : /\ mem[q] \in Memory
                          /\ pc[q] \in {"readRun", "writeRun"} => mem[q].plan \in Plans
      /\ \A r \in RunIds : runs[r] # NoFile => runs[r] \in RunState
      /\ guards \in SUBSET (RunIds \X Plans)
  BY DEF IInv, TypeOK, ControlOK
<1>3. /\ \A q \in Procs : Performed(pc[q], mem[q], executed)
      /\ \A r \in RunIds : runs[r] # NoFile => DoneIn(runs[r], executed)
      /\ GuardsIn(guards, executed)
  BY DEF EInv
<1>4. \A q \in Procs : Performed(pc'[q], mem'[q], executed')
  BY <1>1, <1>2, <1>3, MorePerformed
<1>5. \A r \in RunIds : runs'[r] # NoFile => DoneIn(runs'[r], executed')
  BY <1>2, <1>3, MoreExecuted
<1>6. GuardsIn(guards', executed')
  BY <1>2, <1>3, MoreExecuted
<1> QED BY <1>4, <1>5, <1>6 DEF EInv

\* Steps that take up no run-state and no guards, and end elsewhere than in the middle of
\* writing a run-state.
LEMMA QuietSteps ==
    ASSUME IInv, EInv, NEW p \in Procs,
           \/ Invoke(p) \/ ValidateLaunchPlan(p) \/ WriteStartedExecution(p) \/ ReadForUpdate(p)
           \/ ReadForRecord(p) \/ ReadForFinalize(p) \/ ReadTelemetry(p) \/ TruncateTelemetry(p)
           \/ WriteTelemetry(p) \/ Return(p) \/ Report(p) \/ Crash(p)
    PROVE  EInv'
<1>1. pc \in [Procs -> Locations] /\ mem \in [Procs -> Memory]
  BY DEF IInv, TypeOK, Locations
<1>2. runs' = runs /\ guards' = guards /\ executed' = executed
  BY DEF Invoke, ValidateLaunchPlan, WriteStartedExecution, ReadForUpdate, ReadForRecord,
         ReadForFinalize, ReadTelemetry, TruncateTelemetry, WriteTelemetry, Return, Report, Crash
<1>3. Blank.run = NoFile /\ Blank.seen = {}
  BY DEF Blank
<1>4. /\ pc'[p] \notin {"readRun", "writeRun"}
      /\ mem'[p].run \in {mem[p].run, NoFile} /\ mem'[p].seen \in {mem[p].seen, {}}
  <2>1. ASSUME NEW how, End(p, how)
        PROVE  pc'[p] = "idle" /\ mem'[p].run = NoFile /\ mem'[p].seen = {}
    BY <1>1, <1>3, <2>1 DEF End
  <2>2. CASE Invoke(p) \/ ValidateLaunchPlan(p) \/ ReadTelemetry(p) \/ Report(p) \/ Crash(p)
    BY <1>1, <2>1, <2>2 DEF Invoke, ValidateLaunchPlan, ReadTelemetry, Report, Crash, Goto, Memory
  <2>3. CASE WriteStartedExecution(p) \/ ReadForUpdate(p) \/ ReadForRecord(p) \/ ReadForFinalize(p)
    <3>1. CASE WriteStartedExecution(p)
      BY <1>1, <3>1 DEF WriteStartedExecution, Goto
    <3>2. CASE ReadForUpdate(p)
      <4>1. PICK l \in mem[p].todo :
               mem' = [mem EXCEPT ![p].exec = exec, ![p].lane = l, ![p].todo = @ \ {l}]
        BY <3>2 DEF ReadForUpdate
      <4>2. mem'[p].run = mem[p].run /\ mem'[p].seen = mem[p].seen
        BY <1>1, <4>1 DEF Memory
      <4>3. pc'[p] = "writeExec"
        BY <1>1, <3>2 DEF ReadForUpdate, Goto
      <4> QED BY <4>2, <4>3
    <3>3. CASE ReadForRecord(p)
      <4>1. PICK o \in Outcomes : mem' = [mem EXCEPT ![p].exec = exec, ![p].result = o]
        BY <3>3 DEF ReadForRecord
      <4>2. mem'[p].run = mem[p].run /\ mem'[p].seen = mem[p].seen
        BY <1>1, <4>1 DEF Memory
      <4>3. pc'[p] = "telRead"
        BY <1>1, <3>3 DEF ReadForRecord, Goto
      <4> QED BY <4>2, <4>3
    <3>4. CASE ReadForFinalize(p)
      BY <1>1, <3>4 DEF ReadForFinalize, Goto, Memory
    <3> QED BY <2>3, <3>1, <3>2, <3>3, <3>4
  <2>4. CASE TruncateTelemetry(p) \/ WriteTelemetry(p)
    BY <1>1, <2>4 DEF TruncateTelemetry, WriteTelemetry, Goto, Memory
  <2>5. CASE Return(p)
    BY <1>1, <1>3, <2>5 DEF Return, Goto, Blank
  <2> QED BY <2>2, <2>3, <2>4, <2>5
<1>5. Performed(pc[p], mem[p], executed)
  BY DEF EInv
<1>6. Performed(pc'[p], mem'[p], executed')
  BY <1>2, <1>4, <1>5 DEF Performed, GuardsIn
<1> QED BY <1>2, <1>6, PerformedKeeps DEF Step

\* Steps that take up a run-state or the guards.
LEMMA ReadingSteps ==
    ASSUME IInv, EInv, NEW p \in Procs,
           ReadPriorRun(p) \/ ReadRun(p) \/ ReadGuardInputs(p) \/ WriteGuards(p)
    PROVE  EInv'
<1>1. /\ pc \in [Procs -> Locations] /\ mem \in [Procs -> Memory] /\ ControlOK(p)
      /\ runs \in [RunIds -> RunState \union {NoFile}]
  BY DEF IInv, TypeOK, Locations
<1>2. runs' = runs /\ executed' = executed
  BY DEF ReadPriorRun, ReadRun, ReadGuardInputs, WriteGuards
<1>3. /\ Performed(pc[p], mem[p], executed) /\ GuardsIn(guards, executed)
      /\ \A r \in RunIds : runs[r] # NoFile => DoneIn(runs[r], executed)
  BY DEF EInv
<1>4. CASE ReadPriorRun(p)
  <2>1. mem[p].plan \in Plans /\ RunIdOf[mem[p].plan] \in RunIds
    BY <1>1, <1>4 DEF ReadPriorRun, At, ControlOK
  <2>2. /\ pc'[p] = "writeReconciled" /\ guards' = guards
        /\ mem'[p].run = runs[RunIdOf[mem[p].plan]] /\ mem'[p].seen = mem[p].seen
    BY <1>1, <1>4 DEF ReadPriorRun, Goto, Memory
  <2>3. Performed(pc'[p], mem'[p], executed')
    BY <1>2, <1>3, <2>1, <2>2 DEF Performed
  <2> QED BY <1>2, <1>4, <2>2, <2>3, PerformedKeeps DEF Step
<1>5. CASE ReadRun(p)
  <2>1. mem[p].exec \in ExecState /\ mem[p].exec.run \in RunIds /\ pc[p] = "readRun"
    BY <1>1, <1>5 DEF ReadRun, At, ControlOK, ExecState
  <2>2. /\ mem'[p].run = runs[mem[p].exec.run] /\ mem'[p].seen = mem[p].seen /\ guards' = guards
        /\ mem'[p].op = mem[p].op /\ mem'[p].result = mem[p].result
        /\ mem'[p].lane = mem[p].lane /\ mem'[p].plan = mem[p].plan
    BY <1>1, <1>5 DEF ReadRun, Goto, Memory
  <2>3. Performed(pc'[p], mem'[p], executed')
    BY <1>2, <1>3, <2>1, <2>2 DEF Performed
  <2> QED BY <1>2, <1>5, <2>2, <2>3, PerformedKeeps DEF Step
<1>6. CASE ReadGuardInputs(p)
  <2>1. GuardsIn(evaluateExecutionMergeGuards, executed)
    <3> SUFFICES ASSUME NEW g \in evaluateExecutionMergeGuards
                 PROVE  g[2].eligible \subseteq executed[g[2]]
      BY DEF GuardsIn
    <3>1. launchPlan # None /\ launchPlan \in Plans
      BY DEF evaluateExecutionMergeGuards, IInv, TypeOK
    <3>2. PICK r \in RunIds : /\ g = <<r, launchPlan>> /\ runs[r] # NoFile
                              /\ evaluateRun(runs[r], launchPlan)
      BY <3>1 DEF evaluateExecutionMergeGuards
    <3>3. runs[r].fp = launchPlan /\ \A l \in launchPlan.eligible : runs[r].lanes[l] = "completed"
      BY <3>2 DEF evaluateRun
    <3>4. launchPlan.eligible \subseteq Lanes
      BY <3>1 DEF LaunchPlan
    <3> QED BY <1>3, <3>2, <3>3, <3>4 DEF DoneIn
  <2>2. /\ pc'[p] = "guardsWrite" /\ mem'[p].run = mem[p].run /\ guards' = guards
        /\ mem'[p].seen = evaluateExecutionMergeGuards
    BY <1>1, <1>6 DEF ReadGuardInputs, Goto, Memory
  <2>3. Performed(pc'[p], mem'[p], executed')
    BY <1>2, <1>3, <2>1, <2>2 DEF Performed
  <2> QED BY <1>2, <1>6, <2>2, <2>3, PerformedKeeps DEF Step
<1>7. CASE WriteGuards(p)
  <2>1. pc'[p] = "guardsDone" /\ mem'[p] = mem[p] /\ guards' = mem[p].seen
    BY <1>1, <1>7 DEF WriteGuards, Goto
  <2>2. Performed(pc'[p], mem'[p], executed') /\ GuardsIn(guards', executed')
    BY <1>2, <1>3, <2>1 DEF Performed
  <2> QED BY <1>2, <1>7, <2>1, <2>2, PerformedKeeps DEF Step
<1> QED BY <1>4, <1>5, <1>6, <1>7

\* Steps that write: reconciling completes no lane, executing one is recorded first, and
\* writing back the run-state of the process's own plan completes that lane alone.
LEMMA WritingSteps ==
    ASSUME IInv, EInv, NEW p \in Procs, OwnRun(p),
           WriteReconciledRun(p) \/ WriteExecution(p) \/ WriteRun(p)
    PROVE  EInv'
<1>1. /\ pc \in [Procs -> Locations] /\ mem \in [Procs -> Memory] /\ ControlOK(p)
      /\ mem[p] \in Memory /\ runs \in [RunIds -> RunState \union {NoFile}]
      /\ executed \in [Plans -> SUBSET Lanes]
  BY DEF IInv, TypeOK, Locations
<1>2. Performed(pc[p], mem[p], executed)
  BY DEF EInv
<1>3. CASE WriteReconciledRun(p)
  <2> DEFINE pl == mem[p].plan
             run == reconcileOrchestrationRunState(pl, mem[p].run)
  <2>1. pl \in Plans /\ RunIdOf[pl] \in RunIds /\ mem[p].run \in RunState \union {NoFile}
    BY <1>1, <1>3 DEF WriteReconciledRun, At, ControlOK, Memory
  <2>2. /\ run.fp = pl
        /\ \A l \in Lanes : run.lanes[l] = "completed" =>
              mem[p].run # NoFile /\ mem[p].run.fp = pl /\ mem[p].run.lanes[l] = "completed"
    BY <2>1, Reconciled
  <2>3. /\ runs' = [runs EXCEPT ![RunIdOf[pl]] = run] /\ pc'[p] = "writeStarted"
        /\ guards' = guards /\ executed' = executed
        /\ mem' = [mem EXCEPT ![p].run = run, ![p].todo = lanesToRun(pl, run)]
    BY <1>1, <1>3 DEF WriteReconciledRun, Goto
  <2> HIDE DEF run
  <2>4. mem'[p].run = run /\ mem'[p].seen = mem[p].seen
    BY <1>1, <2>3 DEF Memory
  <2>5. DoneIn(run, executed)
    BY <1>2, <2>2 DEF Performed, DoneIn
  <2>6. Performed(pc'[p], mem'[p], executed')
    BY <1>2, <2>3, <2>4, <2>5 DEF Performed
  <2>7. \A r \in RunIds : runs'[r] = runs[r] \/ runs'[r] = run
    BY <1>1, <2>3
  <2> QED BY <1>3, <2>3, <2>5, <2>6, <2>7, PerformedKeeps DEF Step
<1>4. CASE WriteExecution(p)
  <2>1. /\ pc[p] = "writeExec" /\ pc'[p] = "readRun" /\ mem'[p] = mem[p]
        /\ runs' = runs /\ guards' = guards
    BY <1>1, <1>4 DEF WriteExecution, At, Goto
  <2>2. mem[p].plan \in Plans
    BY <1>1, <2>1 DEF ControlOK
  <2>3. /\ \A pl \in Plans : executed[pl] \subseteq executed'[pl]
        /\ mem[p].op = "record" /\ mem[p].result = "completed"
             => mem[p].lane \in executed'[mem[p].plan]
    BY <1>1, <1>4, <2>2 DEF WriteExecution
  <2>4. Performed("writeExec", mem[p], executed')
    BY <1>1, <1>2, <2>1, <2>3, MorePerformed
  <2>5. Performed("readRun", mem[p], executed')
    BY <2>3, <2>4 DEF Performed
  <2> QED BY <1>4, <2>1, <2>3, <2>5, PerformedKeeps DEF Step
<1>5. CASE WriteRun(p)
  <2> DEFINE run == ChangedRun(mem[p])
  <2>1. /\ pc[p] = "writeRun" /\ pc'[p] = "guardsRead" /\ mem'[p] = mem[p]
        /\ runs' = [runs EXCEPT ![mem[p].exec.run] = run]
        /\ guards' = guards /\ executed' = executed
    BY <1>1, <1>5 DEF WriteRun, At, Goto
  <2>2. /\ mem[p].run \in RunState /\ mem[p].op \in {"update", "record", "finalize"}
        /\ mem[p].run.fp = mem[p].plan
    BY <1>1, <2>1 DEF ControlOK, OwnRun
  <2>3. /\ run.fp = mem[p].run.fp
        /\ \A l \in Lanes :
              run.lanes[l] = IF l # mem[p].lane THEN mem[p].run.lanes[l]
                             ELSE CASE mem[p].op = "update"   -> "running"
                                    [] mem[p].op = "record"   -> mem[p].result
                                    [] mem[p].op = "finalize" -> mem[p].run.lanes[l]
    BY <1>1, <2>2, ChangedRunLanes
  <2> HIDE DEF run
  <2>4. /\ DoneIn(mem[p].run, executed)
        /\ mem[p].op = "record" /\ mem[p].result = "completed" => mem[p].lane \in executed[mem[p].plan]
    BY <1>2, <2>1, <2>2, NoFileType DEF Performed
  <2>5. DoneIn(run, executed)
    BY <2>2, <2>3, <2>4 DEF DoneIn
  <2>6. Performed(pc'[p], mem'[p], executed')
    BY <1>2, <2>1 DEF Performed
  <2>7. \A r \in RunIds : runs'[r] = runs[r] \/ runs'[r] = run
    BY <1>1, <2>1
  <2> QED BY <1>5, <2>1, <2>5, <2>6, <2>7, PerformedKeeps DEF Step
<1> QED BY <1>3, <1>4, <1>5

LEMMA NextPerformed ==
    ASSUME IInv, EInv, \A p \in Procs : OwnRun(p), [Next]_vars
    PROVE  EInv'
<1>1. CASE OtherCommand \/ UNCHANGED vars
  <2>1. UNCHANGED <<runs, pc, mem, guards, executed>>
    BY <1>1 DEF OtherCommand, Orchestrate, WriteLaunchPlan, RecordReceipt, RegisterCapability,
                Route, Environment, vars
  <2>2. /\ \A q \in Procs : Performed(pc'[q], mem'[q], executed')
        /\ \A r \in RunIds : runs'[r] # NoFile => DoneIn(runs'[r], executed')
        /\ GuardsIn(guards', executed')
    BY <2>1 DEF EInv
  <2> QED BY <2>2 DEF EInv
<1>2. ASSUME NEW p \in Procs, Invoke(p) \/ Step(p) \/ Crash(p) PROVE EInv'
  BY <1>2, QuietSteps, ReadingSteps, WritingSteps DEF Step
<1> QED BY <1>1, <1>2 DEF Next

LEMMA InitPerformed == Init => EInv
<1> SUFFICES ASSUME Init PROVE EInv
  OBVIOUS
<1>1. Blank.run = NoFile /\ Blank.seen = {}
  BY DEF Blank
<1>2. \A p \in Procs : Performed(pc[p], mem[p], executed)
  BY <1>1 DEF Init, Performed, GuardsIn
<1> QED BY <1>2 DEF Init, EInv, GuardsIn

\* The merge guards call a run mergeable only if a process authorised by its plan executed
\* every eligible lane: for any lanes, run ids (colliding ones too) and crashes, with one
\* invocation at a time, and with any number of overlapping ones for one launch plan.
THEOREM MergeableWasExecuted == Sole \/ OnePlan => (Spec => []MergeOnlyExecuted)
<1>1. EInv => MergeOnlyExecuted
  BY DEF EInv, GuardsIn, MergeOnlyExecuted
<1>2. ASSUME Sole PROVE Spec => []MergeOnlyExecuted
  <2>1. SInv => \A p \in Procs : OwnRun(p)
    <3> SUFFICES ASSUME SInv, NEW p \in Procs, pc[p] = "writeRun"
                 PROVE  mem[p].run.fp = mem[p].plan
      BY DEF OwnRun
    <3>1. pc[p] \in Started /\ Current(pc[p], mem[p], runs, exec)
      BY Facts DEF Started, Resuming, Locations
    <3> QED BY <3>1, InnerFacts DEF Current
  <2>2. SInv /\ EInv /\ [Next]_vars => SInv' /\ EInv'
    BY <1>2, <2>1, NextSInv, NextPerformed DEF SInv
  <2> QED BY <1>1, <2>2, InitSInv, InitPerformed, PTL DEF Spec
<1>3. ASSUME OnePlan PROVE Spec => []MergeOnlyExecuted
  <2>1. IInv => \A p \in Procs : OwnRun(p)
    <3> SUFFICES ASSUME IInv, NEW p \in Procs, pc[p] = "writeRun"
                 PROVE  mem[p].run.fp = mem[p].plan
      BY DEF OwnRun
    <3>1. mem[p].run \in RunState /\ mem[p].plan \in Plans
      BY DEF IInv, ControlOK
    <3> QED BY <1>3, <3>1 DEF OnePlan, RunState
  <2>2. IInv /\ EInv /\ [Next]_vars => IInv' /\ EInv'
    BY <2>1, NextKeeps, NextPerformed
  <2> QED BY <1>1, <2>2, InitIInv, InitPerformed, PTL DEF Spec
<1> QED BY <1>2, <1>3

-----------------------------------------------------------------------------
(* Success means completed. *)

\* Whether execution-state has been given its final status.
Concluded(label, m) ==
    m.op = "report" \/ (m.op = "finalize" /\ label \notin {"readExec", "writeExec"})

\* The lane whose result is written to execution-state and not yet to the run-state.
Ahead(label, m, l) ==
    /\ label \in {"readRun", "writeRun"} /\ m.op = "record"
    /\ m.result = "completed" /\ m.lane = l

\* Execution-state ex reflects the run-state of the plan: the copy a call changes is current
\* until it is written back, ex is ahead of the run-state by at most the lane at hand, and
\* its status is running until it is concluded.
Reflects(label, m, rs, ex) ==
    /\ label = "writeStarted" => m.run = rs[RunIdOf[m.plan]]
    /\ label \in Started =>
         /\ label \in {"telRead", "telTruncate", "telWrite", "writeExec"} => m.exec = ex
         /\ \A l \in m.plan.lanes :
              /\ ex.lanes[l] # "absent"
              /\ ex.lanes[l] = "completed" =>
                   rs[RunIdOf[m.plan]].lanes[l] = "completed" \/ Ahead(label, m, l)
         /\ IF Concluded(label, m)
            THEN ex.status = "completed" => \A l \in m.plan.lanes : ex.lanes[l] = "completed"
            ELSE ex.status = "running"

RInv == \A p \in Procs : Reflects(pc[p], mem[p], runs, exec)

LEMMA ReflectsSame ==
    ASSUME NEW rs, NEW ex, NEW label, NEW m, Reflects(label, m, rs, ex), label \in Started,
           NEW label2 \in Started, NEW m2, m2.plan = m.plan,
           label2 \in {"telRead", "telTruncate", "telWrite", "writeExec"} => m2.exec = ex,
           \A l : Ahead(label, m, l) => Ahead(label2, m2, l),
           Concluded(label2, m2) <=> Concluded(label, m)
    PROVE  Reflects(label2, m2, rs, ex)
<1>1. label2 # "writeStarted"
  BY DEF Started
<1> QED BY <1>1 DEF Reflects

LEMMA SoleReflects ==
    ASSUME Sole, NEW p \in Procs, Reflects(pc'[p], mem'[p], runs', exec')
    PROVE  RInv'
<1>1. \A q \in Procs : Reflects(pc'[q], mem'[q], runs', exec')
  BY DEF Sole
<1> QED BY <1>1 DEF RInv

LEMMA NotStarted ==
    /\ {"idle", "validate", "reconcile", "writeReconciled", "writeStarted"} \cap Started = {}
    /\ {"guardsRead", "guardsWrite", "guardsDone", "readExec", "writeExec", "readRun", "writeRun",
        "telRead", "telTruncate", "telWrite"} \subseteq Started
BY DEF Started, Resuming, Locations

\* Before the run is started there is nothing to reflect, and a process that ends forgets it.
LEMMA EarlyReflects ==
    ASSUME Sole, SInv, NEW p \in Procs,
           \/ Invoke(p) \/ ValidateLaunchPlan(p) \/ ReadPriorRun(p) \/ Report(p) \/ Crash(p)
           \/ End(p, "error")
    PROVE  RInv'
<1>1. pc'[p] \in {"idle", "validate", "reconcile", "writeReconciled"}
  BY Facts DEF Invoke, ValidateLaunchPlan, ReadPriorRun, Report, Crash, End, Goto
<1>2. Reflects(pc'[p], mem'[p], runs', exec')
  BY <1>1, NotStarted DEF Reflects
<1> QED BY <1>2, SoleReflects

LEMMA ReconcileReflects ==
    ASSUME Sole, SInv, NEW p \in Procs, WriteReconciledRun(p)
    PROVE  RInv'
<1> DEFINE run == reconcileOrchestrationRunState(mem[p].plan, mem[p].run)
<1>1. /\ mem \in [Procs -> Memory] /\ pc \in [Procs -> Locations] /\ ControlOK(p)
      /\ runs \in [RunIds -> RunState \union {NoFile}]
  BY Facts
<1>2. /\ pc'[p] = "writeStarted" /\ runs' = [runs EXCEPT ![RunIdOf[mem[p].plan]] = run]
      /\ mem' = [mem EXCEPT ![p].run = run, ![p].todo = lanesToRun(mem[p].plan, run)]
  BY <1>1 DEF WriteReconciledRun, Goto
<1>3. RunIdOf[mem[p].plan] \in RunIds
  BY <1>1 DEF WriteReconciledRun, At, ControlOK
<1> HIDE DEF run
<1>4. mem'[p].run = run /\ mem'[p].plan = mem[p].plan
  BY <1>1, <1>2 DEF Memory
<1>5. runs'[RunIdOf[mem[p].plan]] = run
  BY <1>1, <1>2, <1>3
<1>6. Reflects(pc'[p], mem'[p], runs', exec')
  BY <1>2, <1>4, <1>5, NotStarted DEF Reflects
<1> QED BY <1>6, SoleReflects

LEMMA StartReflects ==
    ASSUME Sole, SInv, RInv, NEW p \in Procs, WriteStartedExecution(p)
    PROVE  RInv'
<1>1. /\ mem \in [Procs -> Memory] /\ pc \in [Procs -> Locations] /\ ControlOK(p)
      /\ Current(pc[p], mem[p], runs, exec)
  BY Facts
<1>2. /\ pc[p] = "writeStarted" /\ pc'[p] = "guardsRead" /\ mem' = mem /\ runs' = runs
      /\ exec'.status = "running" /\ exec'.lanes = startedLanes(mem[p].plan, mem[p].run)
  BY <1>1 DEF WriteStartedExecution, At, Goto
<1>3. mem[p].run = runs[RunIdOf[mem[p].plan]]
  BY <1>2 DEF RInv, Reflects
<1>4. mem[p].plan \in Plans /\ mem[p].plan.lanes \subseteq Lanes /\ mem[p].op = "start"
  BY <1>1, <1>2, NotStarted DEF ControlOK, LaunchPlan, Current
<1>5. \A l \in mem[p].plan.lanes :
         /\ exec'.lanes[l] # "absent"
         /\ exec'.lanes[l] = "completed" => mem[p].run.lanes[l] = "completed"
  BY <1>2, <1>4 DEF startedLanes
<1>6. Reflects("guardsRead", mem[p], runs', exec')
  BY <1>2, <1>3, <1>4, <1>5 DEF Reflects, Concluded
<1> QED BY <1>2, <1>6, SoleReflects

\* Steps of a supervisor call that write neither file.
LEMMA ReadReflects ==
    ASSUME Sole, SInv, RInv, NEW p \in Procs,
           \/ ReadForUpdate(p) \/ ReadForRecord(p) \/ ReadForFinalize(p) \/ ReadRun(p)
           \/ ReadTelemetry(p) \/ TruncateTelemetry(p) \/ WriteTelemetry(p)
           \/ ReadGuardInputs(p) \/ WriteGuards(p) \/ Return(p)
    PROVE  RInv'
<1>1. /\ mem \in [Procs -> Memory] /\ pc \in [Procs -> Locations] /\ mem[p] \in Memory
      /\ Current(pc[p], mem[p], runs, exec) /\ ControlOK(p)
  BY Facts
<1>2. UNCHANGED <<runs, exec>>
  BY DEF ReadForUpdate, ReadForRecord, ReadForFinalize, ReadRun, ReadTelemetry,
         TruncateTelemetry, WriteTelemetry, ReadGuardInputs, WriteGuards, Return
<1>3. Reflects(pc[p], mem[p], runs, exec)
  BY DEF RInv
<1>4. pc[p] \in Started
  BY NotStarted DEF ReadForUpdate, ReadForRecord, ReadForFinalize, ReadRun, ReadTelemetry,
         TruncateTelemetry, WriteTelemetry, ReadGuardInputs, WriteGuards, Return, At
<1>5. /\ exec.run = RunIdOf[mem[p].plan] /\ runs[RunIdOf[mem[p].plan]] # NoFile
      /\ pc[p] \in Recording \ {"readExec"} => mem[p].exec.run = RunIdOf[mem[p].plan]
  BY <1>4, InnerFacts
<1>6. SUFFICES ASSUME ~End(p, "error")
               PROVE  /\ pc'[p] \in Started /\ mem'[p].plan = mem[p].plan
                      /\ pc'[p] \in {"telRead", "telTruncate", "telWrite", "writeExec"}
                           => mem'[p].exec = exec
                      /\ \A l : Ahead(pc[p], mem[p], l) => Ahead(pc'[p], mem'[p], l)
                      /\ Concluded(pc'[p], mem'[p]) <=> Concluded(pc[p], mem[p])
  BY <1>2, <1>3, <1>4, ReflectsSame, SoleReflects, EarlyReflects
<1>7. CASE ReadForUpdate(p)
  <2>1. PICK l \in mem[p].todo :
           mem' = [mem EXCEPT ![p].exec = exec, ![p].lane = l, ![p].todo = @ \ {l}]
    BY <1>7 DEF ReadForUpdate
  <2>2. mem'[p].op = mem[p].op /\ mem'[p].plan = mem[p].plan /\ mem'[p].exec = exec
    BY <1>1, <2>1 DEF Memory
  <2>3. pc[p] = "readExec" /\ pc'[p] = "writeExec" /\ mem[p].op = "update"
    BY <1>1, <1>7 DEF ReadForUpdate, At, Goto
  <2> QED BY <2>2, <2>3, NotStarted DEF Ahead, Concluded
<1>8. CASE ReadForRecord(p)
  <2>1. PICK o \in Outcomes : mem' = [mem EXCEPT ![p].exec = exec, ![p].result = o]
    BY <1>8 DEF ReadForRecord
  <2>2. mem'[p].op = mem[p].op /\ mem'[p].plan = mem[p].plan /\ mem'[p].exec = exec
    BY <1>1, <2>1 DEF Memory
  <2>3. pc[p] = "readExec" /\ pc'[p] = "telRead" /\ mem[p].op = "record"
    BY <1>1, <1>8 DEF ReadForRecord, At, Goto
  <2> QED BY <2>2, <2>3, NotStarted DEF Ahead, Concluded
<1>9. CASE ReadForFinalize(p)
  <2>1. mem'[p].op = mem[p].op /\ mem'[p].plan = mem[p].plan /\ mem'[p].exec = exec
    BY <1>1, <1>9 DEF ReadForFinalize, Memory
  <2>2. pc[p] = "readExec" /\ pc'[p] = "writeExec" /\ mem[p].op = "finalize"
    BY <1>1, <1>5, <1>9 DEF ReadForFinalize, At, Goto
  <2> QED BY <2>1, <2>2, NotStarted DEF Ahead, Concluded
<1>10. CASE ReadRun(p)
  <2>1. pc[p] = "readRun" /\ pc[p] \in Recording \ {"readExec"}
    BY <1>10 DEF ReadRun, At, Recording
  <2>2. pc'[p] = "writeRun"
    BY <1>1, <1>5, <1>10, <2>1 DEF ReadRun, Goto
  <2>3. /\ mem'[p].op = mem[p].op /\ mem'[p].plan = mem[p].plan /\ mem'[p].lane = mem[p].lane
        /\ mem'[p].result = mem[p].result
    BY <1>1, <1>10 DEF ReadRun, Memory
  <2> QED BY <2>1, <2>2, <2>3, NotStarted DEF Ahead, Concluded
<1>11. CASE ReadTelemetry(p) \/ TruncateTelemetry(p) \/ WriteTelemetry(p)
  <2>1. pc[p] \in {"telRead", "telTruncate", "telWrite"}
    BY <1>11 DEF ReadTelemetry, TruncateTelemetry, WriteTelemetry, At
  <2>2. mem[p].op = "record" /\ mem[p].exec = exec
    BY <1>1, <1>3, <1>4, <2>1 DEF ControlOK, Reflects
  <2>3. pc'[p] \in {"telRead", "telTruncate", "telWrite", "writeExec"}
    BY <1>1, <1>6, <1>11 DEF ReadTelemetry, TruncateTelemetry, WriteTelemetry, Goto
  <2>4. mem'[p].op = mem[p].op /\ mem'[p].plan = mem[p].plan /\ mem'[p].exec = mem[p].exec
    BY <1>1, <1>6, <1>11 DEF ReadTelemetry, TruncateTelemetry, WriteTelemetry, Memory
  <2> QED BY <2>1, <2>2, <2>3, <2>4, NotStarted DEF Ahead, Concluded
<1>12. CASE ReadGuardInputs(p) \/ WriteGuards(p)
  <2>1. pc[p] \in {"guardsRead", "guardsWrite"}
    BY <1>12 DEF ReadGuardInputs, WriteGuards, At
  <2>2. pc'[p] \in {"guardsWrite", "guardsDone"}
    BY <1>1, <1>12 DEF ReadGuardInputs, WriteGuards, Goto
  <2>3. mem'[p].op = mem[p].op /\ mem'[p].plan = mem[p].plan
    BY <1>1, <1>12 DEF ReadGuardInputs, WriteGuards, Memory
  <2> QED BY <2>1, <2>2, <2>3, NotStarted DEF Ahead, Concluded
<1>13. CASE Return(p)
  <2>1. /\ pc[p] = "guardsDone" /\ mem[p].op # "report"
        /\ mem'[p] = [Blank EXCEPT !.op = NextOp(mem[p]), !.plan = mem[p].plan,
                                   !.todo = mem[p].todo, !.lane = mem[p].lane]
        /\ pc'[p] = IF NextOp(mem[p]) = "report" THEN "guardsRead" ELSE "readExec"
    BY <1>1, <1>13 DEF Return, At, Goto
  <2>2. mem'[p].op = NextOp(mem[p]) /\ mem'[p].plan = mem[p].plan
    BY <2>1 DEF Blank
  <2>3. /\ NextOp(mem[p]) \in {"update", "record", "finalize", "report"}
        /\ NextOp(mem[p]) = "report" <=> mem[p].op = "finalize"
    BY <1>1, <2>1 DEF NextOp, Memory
  <2> QED BY <2>1, <2>2, <2>3, NotStarted DEF Ahead, Concluded
<1> QED BY <1>7, <1>8, <1>9, <1>10, <1>11, <1>12, <1>13

\* The final status is completed only when every lane there is is completed.
LEMMA FinalCompleted ==
    ASSUME NEW lanes, finalStatus(lanes) = "completed"
    PROVE  \A l \in Lanes : lanes[l] \in {"completed", "absent"}
BY DEF finalStatus, StatusesOf

LEMMA WriteExecutionReflects ==
    ASSUME Sole, SInv, RInv, NEW p \in Procs, WriteExecution(p)
    PROVE  RInv'
<1> DEFINE m == mem[p]
<1>1. /\ mem \in [Procs -> Memory] /\ pc \in [Procs -> Locations] /\ m \in Memory /\ ControlOK(p)
  BY Facts
<1>2. /\ pc[p] = "writeExec" /\ pc'[p] = "readRun" /\ mem' = mem /\ runs' = runs
      /\ exec' = ChangedExecution(m)
  BY <1>1 DEF WriteExecution, At, Goto
<1>3. /\ m.op \in {"update", "record", "finalize"} /\ m.exec \in ExecState /\ m.plan \in Plans
      /\ m.op # "finalize" => m.lane \in Lanes
  BY <1>1, <1>2 DEF ControlOK
<1>4. /\ m.exec = exec
      /\ \A l \in m.plan.lanes :
           /\ exec.lanes[l] # "absent"
           /\ exec.lanes[l] = "completed" => runs[RunIdOf[m.plan]].lanes[l] = "completed"
      /\ exec.status = "running"
  BY <1>2, <1>3, NotStarted DEF RInv, Reflects, Ahead, Concluded
<1>5. m.plan.lanes \subseteq Lanes /\ exec.lanes \in [Lanes -> LaneState]
      /\ m.result \in {"completed", "failed"}
  BY <1>1, <1>3, <1>4 DEF LaunchPlan, ExecState, Memory
<1>6. CASE m.op = "update"
  <2>1. exec'.status = "running" /\ exec'.lanes = [exec.lanes EXCEPT ![m.lane] = "running"]
    BY <1>2, <1>3, <1>4, <1>6 DEF ChangedExecution, ExecState
  <2>2. \A l \in m.plan.lanes :
           /\ exec'.lanes[l] # "absent"
           /\ exec'.lanes[l] = "completed" => runs[RunIdOf[m.plan]].lanes[l] = "completed"
    BY <1>4, <1>5, <2>1
  <2>3. Reflects("readRun", m, runs, exec')
    BY <1>6, <2>1, <2>2 DEF Reflects, Concluded
  <2> QED BY <1>2, <2>3, SoleReflects
<1>7. CASE m.op = "record"
  <2>1. exec'.status = "running" /\ exec'.lanes = [exec.lanes EXCEPT ![m.lane] = m.result]
    BY <1>2, <1>3, <1>4, <1>7 DEF ChangedExecution, ExecState
  <2>2. \A l \in m.plan.lanes :
           /\ exec'.lanes[l] # "absent"
           /\ exec'.lanes[l] = "completed" =>
                runs[RunIdOf[m.plan]].lanes[l] = "completed" \/ Ahead("readRun", m, l)
    BY <1>4, <1>5, <1>7, <2>1 DEF Ahead
  <2>3. Reflects("readRun", m, runs, exec')
    BY <1>7, <2>1, <2>2 DEF Reflects, Concluded
  <2> QED BY <1>2, <2>3, SoleReflects
<1>8. CASE m.op = "finalize"
  <2>1. exec'.status = finalStatus(exec.lanes) /\ exec'.lanes = exec.lanes
    BY <1>2, <1>3, <1>4, <1>8 DEF ChangedExecution, ExecState
  <2>2. exec'.status = "completed" => \A l \in m.plan.lanes : exec'.lanes[l] = "completed"
    <3>1. exec'.status = "completed" => \A l \in Lanes : exec.lanes[l] \in {"completed", "absent"}
      BY <2>1, FinalCompleted
    <3> QED BY <1>4, <1>5, <2>1, <3>1
  <2>3. Reflects("readRun", m, runs, exec')
    BY <1>4, <1>8, <2>1, <2>2 DEF Reflects, Concluded
  <2> QED BY <1>2, <2>3, SoleReflects
<1> QED BY <1>3, <1>6, <1>7, <1>8

LEMMA WriteRunReflects ==
    ASSUME Sole, SInv, RInv, NEW p \in Procs, WriteRun(p)
    PROVE  RInv'
<1> DEFINE m == mem[p]
           run == ChangedRun(m)
           r == RunIdOf[m.plan]
<1>1. /\ m.op \in {"update", "record", "finalize"} /\ m \in Memory /\ pc[p] = "writeRun"
      /\ m.run = runs[r] /\ m.run \in RunState /\ runs'[r] = run
      /\ m.op # "finalize" => Undone(runs, m.plan, m.lane)
  BY WriteRunFacts
<1>2. \A l \in Lanes :
         run.lanes[l] = IF l # m.lane THEN m.run.lanes[l]
                        ELSE CASE m.op = "update"   -> "running"
                               [] m.op = "record"   -> m.result
                               [] m.op = "finalize" -> m.run.lanes[l]
  BY <1>1, ChangedRunLanes
<1>3. pc'[p] = "guardsRead" /\ mem' = mem /\ exec' = exec
  BY Facts DEF WriteRun, Goto
<1>4. Reflects("writeRun", m, runs, exec) /\ m.plan \in Plans
  BY <1>1, InnerFacts, NotStarted DEF RInv
<1>5. m.plan.lanes \subseteq Lanes /\ m.result \in {"completed", "failed"}
  BY <1>1, <1>4 DEF LaunchPlan, Memory
<1> HIDE DEF run
<1>6. \A l \in m.plan.lanes :
         /\ exec.lanes[l] # "absent"
         /\ exec.lanes[l] = "completed" => runs[r].lanes[l] = "completed" \/ Ahead("writeRun", m, l)
  BY <1>4, NotStarted DEF Reflects
<1>7. \A l \in m.plan.lanes : exec.lanes[l] = "completed" => run.lanes[l] = "completed"
  <2> SUFFICES ASSUME NEW l \in m.plan.lanes, exec.lanes[l] = "completed"
               PROVE  run.lanes[l] = "completed"
    OBVIOUS
  <2>1. l \in Lanes /\ (runs[r].lanes[l] = "completed" \/ Ahead("writeRun", m, l))
    BY <1>5, <1>6
  <2>2. CASE Ahead("writeRun", m, l)
    BY <1>2, <2>1, <2>2 DEF Ahead
  <2>3. CASE runs[r].lanes[l] = "completed"
    BY <1>1, <1>2, <2>1, <2>3 DEF Undone
  <2> QED BY <2>1, <2>2, <2>3
<1>8. Concluded("guardsRead", m) <=> Concluded("writeRun", m)
  BY DEF Concluded
<1>9. IF Concluded("writeRun", m)
      THEN exec.status = "completed" => \A l \in m.plan.lanes : exec.lanes[l] = "completed"
      ELSE exec.status = "running"
  BY <1>4, NotStarted DEF Reflects
<1>10. Reflects("guardsRead", m, runs', exec)
  BY <1>1, <1>6, <1>7, <1>8, <1>9 DEF Reflects
<1> QED BY <1>3, <1>10, SoleReflects

LEMMA InitReflects == Init => RInv
BY NotStarted DEF Init, RInv, Reflects

LEMMA NextReflects == Sole /\ SInv /\ RInv /\ [Next]_vars => RInv'
<1> SUFFICES ASSUME Sole, SInv, RInv, [Next]_vars PROVE RInv'
  OBVIOUS
<1>1. CASE OtherCommand \/ UNCHANGED vars
  <2>1. UNCHANGED <<runs, exec, pc, mem>>
    BY <1>1 DEF OtherCommand, Orchestrate, WriteLaunchPlan, RecordReceipt, RegisterCapability,
                Route, Environment, vars
  <2>2. \A q \in Procs : Reflects(pc'[q], mem'[q], runs', exec')
    BY <2>1 DEF RInv
  <2> QED BY <2>2 DEF RInv
<1>2. ASSUME NEW p \in Procs, Invoke(p) \/ Step(p) \/ Crash(p) PROVE RInv'
  BY <1>2, EarlyReflects, ReconcileReflects, StartReflects, ReadReflects, WriteExecutionReflects,
     WriteRunReflects DEF Step
<1> QED BY <1>1, <1>2 DEF Next

\* Only Report ends an invocation in success, when execution-state says completed.
LEMMA OnlyReport ==
    ASSUME IInv, [Next]_vars, NEW p \in Procs, exit[p] # "success", exit'[p] = "success"
    PROVE  Report(p) /\ exec.status = "completed"
<1>1. exit \in [Procs -> {"none", "refused", "success", "failure", "error", "crashed"}]
  BY DEF IInv, TypeOK
<1>2. ~UNCHANGED exit
  OBVIOUS
<1>3. PICK q \in Procs : Invoke(q) \/ ValidateLaunchPlan(q) \/ ReadTelemetry(q) \/ Report(q) \/ Crash(q)
  BY <1>2 DEF Next, vars, OtherCommand, Orchestrate, WriteLaunchPlan, RecordReceipt,
       RegisterCapability, Route, Environment, Step, ReadPriorRun, WriteReconciledRun,
       WriteStartedExecution, ReadForUpdate, ReadForRecord, ReadForFinalize, WriteExecution,
       ReadRun, WriteRun, TruncateTelemetry, WriteTelemetry, ReadGuardInputs, WriteGuards,
       Return, Goto
<1>4. ASSUME NEW how, End(q, how) PROVE q = p /\ how = "success"
  BY <1>1, <1>4 DEF End
<1>5. CASE Invoke(q)
  BY <1>1, <1>4, <1>5 DEF Invoke
<1>6. CASE ValidateLaunchPlan(q) \/ ReadTelemetry(q) \/ Crash(q)
  BY <1>2, <1>4, <1>6 DEF ValidateLaunchPlan, ReadTelemetry, Crash, Goto
<1>7. CASE Report(q)
  BY <1>4, <1>7 DEF Report
<1> QED BY <1>3, <1>5, <1>6, <1>7

\* With one invocation at a time, success is reported only when the canonical run-state of the
\* plan, not just the execution-state the status is read from, has every lane completed: for
\* any lanes, plans and run ids, and whatever earlier invocations left behind when they died.
THEOREM SuccessIsCompletion == Sole => (Spec => SuccessMeansCompleted)
<1> SUFFICES ASSUME Sole PROVE Spec => SuccessMeansCompleted
  OBVIOUS
<1>1. SInv /\ RInv /\ [Next]_vars =>
        [\A p \in Procs : (exit[p] # "success" /\ exit'[p] = "success") =>
           LET pl  == mem[p].plan
               run == runs[RunIdOf[pl]]
           IN  run.fp = pl /\ \A l \in pl.lanes : run.lanes[l] = "completed"]_vars
  <2> SUFFICES ASSUME SInv, RInv, [Next]_vars, NEW p \in Procs,
                      exit[p] # "success", exit'[p] = "success"
               PROVE  /\ runs[RunIdOf[mem[p].plan]].fp = mem[p].plan
                      /\ \A l \in mem[p].plan.lanes :
                            runs[RunIdOf[mem[p].plan]].lanes[l] = "completed"
    OBVIOUS
  <2>1. pc[p] = "guardsDone" /\ mem[p].op = "report" /\ exec.status = "completed"
    BY OnlyReport DEF SInv, Report, At
  <2>2. pc[p] \in Started
    BY <2>1, NotStarted
  <2>3. runs[RunIdOf[mem[p].plan]].fp = mem[p].plan
    BY <2>2, InnerFacts
  <2>4. \A l \in mem[p].plan.lanes : runs[RunIdOf[mem[p].plan]].lanes[l] = "completed"
    BY <2>1, <2>2 DEF RInv, Reflects, Concluded, Ahead
  <2> QED BY <2>3, <2>4
<1>2. SInv /\ RInv /\ [Next]_vars => SInv' /\ RInv'
  BY NextSInv, NextReflects
<1> QED BY <1>1, <1>2, InitSInv, InitReflects, PTL DEF Spec, SuccessMeansCompleted

-----------------------------------------------------------------------------
(* Telemetry first. *)

\* The lanes completed in any run.
EverDone(rs) == {l \in Lanes : \E r \in RunIds : rs[r] # NoFile /\ rs[r].lanes[l] = "completed"}

\* File f of the telemetry t, if it can be read, has the lanes S.
Has(t, f, S) == ~t[f].torn => S \subseteq t[f].lanes

\* What a process at a label knows of the telemetry: the records it merges are those on file,
\* and the lane it is about to record as completed is in both files.
Measured(label, m, rs, t) ==
    /\ label = "readExec" => m.file = "outcome"
    /\ label = "telTruncate" => ~t[m.file].torn /\ m.tel = t[m.file].lanes
    /\ label = "telWrite" => EverDone(rs) \subseteq m.tel
    /\ label \in {"telRead", "telTruncate", "telWrite"} /\ m.file = "process"
         => Has(t, "outcome", {m.lane})
    /\ label \in {"writeExec", "readRun", "writeRun"} /\ m.op = "record"
         => \A f \in Telemetry : Has(t, f, {m.lane})

MInv ==
    /\ \A f \in Telemetry : Has(telemetry, f, EverDone(runs))
    /\ \A p \in Procs : Measured(pc[p], mem[p], runs, telemetry)

LEMMA SoleMeasured ==
    ASSUME Sole, NEW p \in Procs, \A f \in Telemetry : Has(telemetry', f, EverDone(runs')),
           Measured(pc'[p], mem'[p], runs', telemetry')
    PROVE  MInv'
<1>1. \A q \in Procs : Measured(pc'[q], mem'[q], runs', telemetry')
  BY DEF Sole
<1> QED BY <1>1 DEF MInv

\* Steps that write no telemetry and complete no lane, and take up none of the telemetry.
LEMMA UnmeasuredSteps ==
    ASSUME Sole, SInv, MInv, NEW p \in Procs,
           \/ Invoke(p) \/ ValidateLaunchPlan(p) \/ ReadPriorRun(p) \/ WriteStartedExecution(p)
           \/ ReadGuardInputs(p) \/ WriteGuards(p) \/ Return(p) \/ Report(p) \/ Crash(p)
    PROVE  MInv'
<1>1. mem \in [Procs -> Memory] /\ pc \in [Procs -> Locations]
  BY Facts
<1>2. runs' = runs /\ telemetry' = telemetry
  BY DEF Invoke, ValidateLaunchPlan, ReadPriorRun, WriteStartedExecution, ReadGuardInputs,
         WriteGuards, Return, Report, Crash
<1>3. pc'[p] \in {"idle", "validate", "reconcile", "writeReconciled", "guardsRead",
                  "guardsWrite", "guardsDone", "readExec"}
  BY <1>1 DEF Invoke, ValidateLaunchPlan, ReadPriorRun, WriteStartedExecution, ReadGuardInputs,
         WriteGuards, Return, Report, Crash, End, Goto
<1>4. pc'[p] = "readExec" => mem'[p].file = "outcome"
  <2>1. pc'[p] = "readExec" => Return(p)
    BY <1>1 DEF Invoke, ValidateLaunchPlan, ReadPriorRun, WriteStartedExecution, ReadGuardInputs,
         WriteGuards, Report, Crash, End, Goto
  <2>2. ASSUME Return(p) PROVE mem'[p].file = "outcome"
    <3> DEFINE m == [Blank EXCEPT !.op = NextOp(mem[p]), !.plan = mem[p].plan,
                                  !.todo = mem[p].todo, !.lane = mem[p].lane]
    <3>1. m.file = "outcome"
      BY DEF Blank
    <3>2. mem' = [mem EXCEPT ![p] = m]
      BY <2>2 DEF Return
    <3> HIDE DEF m
    <3> QED BY <1>1, <3>1, <3>2
  <2> QED BY <2>1, <2>2
<1>5. Measured(pc'[p], mem'[p], runs', telemetry')
  BY <1>3, <1>4 DEF Measured
<1>6. \A f \in Telemetry : Has(telemetry', f, EverDone(runs'))
  BY <1>2 DEF MInv
<1> QED BY <1>5, <1>6, SoleMeasured

\* Reconciling and reading the run-state, and every write of execution-state.
LEMMA RunMeasured ==
    ASSUME Sole, SInv, MInv, NEW p \in Procs,
           \/ WriteReconciledRun(p) \/ ReadForUpdate(p) \/ ReadForRecord(p) \/ ReadForFinalize(p)
           \/ WriteExecution(p) \/ ReadRun(p)
    PROVE  MInv'
<1>1. /\ mem \in [Procs -> Memory] /\ pc \in [Procs -> Locations] /\ mem[p] \in Memory
      /\ Current(pc[p], mem[p], runs, exec) /\ ControlOK(p)
      /\ runs \in [RunIds -> RunState \union {NoFile}]
  BY Facts
<1>2. telemetry' = telemetry
  BY DEF WriteReconciledRun, ReadForUpdate, ReadForRecord, ReadForFinalize, WriteExecution, ReadRun
<1>3. /\ \A f \in Telemetry : Has(telemetry, f, EverDone(runs))
      /\ Measured(pc[p], mem[p], runs, telemetry)
  BY DEF MInv
<1>4. CASE WriteReconciledRun(p)
  <2> DEFINE pl  == mem[p].plan
             run == reconcileOrchestrationRunState(pl, mem[p].run)
  <2>1. /\ pc[p] = "writeReconciled" /\ pc'[p] = "writeStarted"
        /\ runs' = [runs EXCEPT ![RunIdOf[pl]] = run]
    BY <1>1, <1>4 DEF WriteReconciledRun, At, Goto
  <2>2. /\ pl \in Plans /\ RunIdOf[pl] \in RunIds /\ mem[p].run = runs[RunIdOf[pl]]
        /\ mem[p].run \in RunState \union {NoFile}
    BY <1>1, <2>1 DEF ControlOK, Current, Memory
  <2>3. \A l \in Lanes : run.lanes[l] = "completed" =>
           mem[p].run # NoFile /\ mem[p].run.lanes[l] = "completed"
    BY <2>2, Reconciled
  <2> HIDE DEF run
  <2>4. \A r \in RunIds : runs'[r] = IF r = RunIdOf[pl] THEN run ELSE runs[r]
    BY <1>1, <2>1
  <2>5. EverDone(runs') \subseteq EverDone(runs)
    BY <2>2, <2>3, <2>4 DEF EverDone
  <2>6. \A f \in Telemetry : Has(telemetry', f, EverDone(runs'))
    BY <1>2, <1>3, <2>5 DEF Has
  <2>7. Measured(pc'[p], mem'[p], runs', telemetry')
    BY <2>1 DEF Measured
  <2> QED BY <2>6, <2>7, SoleMeasured
<1>5. CASE ReadForUpdate(p) \/ ReadForRecord(p) \/ ReadForFinalize(p)
  <2>1. pc[p] = "readExec" /\ runs' = runs /\ mem[p].file = "outcome"
    BY <1>3, <1>5 DEF ReadForUpdate, ReadForRecord, ReadForFinalize, At, Measured
  <2>2. CASE ReadForUpdate(p)
    <3>1. PICK l \in mem[p].todo :
             mem' = [mem EXCEPT ![p].exec = exec, ![p].lane = l, ![p].todo = @ \ {l}]
      BY <2>2 DEF ReadForUpdate
    <3>2. mem'[p].op = "update" /\ pc'[p] = "writeExec"
      BY <1>1, <2>2, <3>1 DEF ReadForUpdate, Goto, Memory
    <3>3. Measured(pc'[p], mem'[p], runs', telemetry')
      BY <3>2 DEF Measured
    <3> QED BY <1>2, <1>3, <2>1, <3>3, SoleMeasured
  <2>3. CASE ReadForRecord(p)
    <3>1. PICK o \in Outcomes : mem' = [mem EXCEPT ![p].exec = exec, ![p].result = o]
      BY <2>3 DEF ReadForRecord
    <3>2. mem'[p].file = mem[p].file /\ pc'[p] = "telRead"
      BY <1>1, <2>3, <3>1 DEF ReadForRecord, Goto, Memory
    <3>3. Measured(pc'[p], mem'[p], runs', telemetry')
      BY <2>1, <3>2 DEF Measured
    <3> QED BY <1>2, <1>3, <2>1, <3>3, SoleMeasured
  <2>4. CASE ReadForFinalize(p)
    <3>1. mem'[p].op = "finalize" /\ pc'[p] \in {"writeExec", "guardsDone"}
      BY <1>1, <2>4 DEF ReadForFinalize, Goto, Memory
    <3>2. Measured(pc'[p], mem'[p], runs', telemetry')
      BY <3>1 DEF Measured
    <3> QED BY <1>2, <1>3, <2>1, <3>2, SoleMeasured
  <2> QED BY <1>5, <2>2, <2>3, <2>4
<1>6. CASE WriteExecution(p) \/ ReadRun(p)
  <2>1. /\ pc[p] \in {"writeExec", "readRun"} /\ runs' = runs
        /\ pc'[p] \in {"readRun", "writeRun", "guardsRead"}
    BY <1>1, <1>6 DEF WriteExecution, ReadRun, At, Goto
  <2>2. mem'[p].op = mem[p].op /\ mem'[p].lane = mem[p].lane
    BY <1>1, <1>6 DEF WriteExecution, ReadRun, Memory
  <2>3. Measured(pc'[p], mem'[p], runs', telemetry')
    BY <1>2, <1>3, <2>1, <2>2 DEF Measured
  <2> QED BY <1>2, <1>3, <2>1, <2>3, SoleMeasured
<1> QED BY <1>4, <1>5, <1>6

\* Writing the run-state completes at most the lane that is in both files.
LEMMA WriteRunMeasured ==
    ASSUME Sole, SInv, MInv, NEW p \in Procs, WriteRun(p)
    PROVE  MInv'
<1> DEFINE m   == mem[p]
           run == ChangedRun(m)
           r0  == RunIdOf[m.plan]
<1>1. /\ m.op \in {"update", "record", "finalize"} /\ m \in Memory /\ pc[p] = "writeRun"
      /\ m.run = runs[r0] /\ m.run \in RunState /\ r0 \in RunIds
      /\ runs' = [runs EXCEPT ![r0] = run]
  BY WriteRunFacts
<1>2. \A l \in Lanes :
         run.lanes[l] = IF l # m.lane THEN m.run.lanes[l]
                        ELSE CASE m.op = "update"   -> "running"
                               [] m.op = "record"   -> m.result
                               [] m.op = "finalize" -> m.run.lanes[l]
  BY <1>1, ChangedRunLanes
<1>3. pc'[p] = "guardsRead" /\ telemetry' = telemetry
      /\ runs \in [RunIds -> RunState \union {NoFile}]
  BY Facts DEF WriteRun, Goto
<1> HIDE DEF run
<1>4. \A r \in RunIds : runs'[r] = IF r = r0 THEN run ELSE runs[r]
  BY <1>1, <1>3
<1>5. ASSUME NEW l \in EverDone(runs') PROVE l \in EverDone(runs) \/ (m.op = "record" /\ l = m.lane)
  <2>1. PICK r \in RunIds : runs'[r] # NoFile /\ runs'[r].lanes[l] = "completed" /\ l \in Lanes
    BY <1>5 DEF EverDone
  <2>2. CASE r # r0
    BY <1>4, <2>1, <2>2 DEF EverDone
  <2>3. CASE r = r0
    <3>1. run.lanes[l] = "completed" /\ runs[r0] # NoFile
      BY <1>1, <1>4, <2>1, <2>3, NoFileType
    <3>2. m.run.lanes[l] = "completed" \/ (m.op = "record" /\ l = m.lane)
      BY <1>1, <1>2, <2>1, <3>1
    <3> QED BY <1>1, <2>1, <3>1, <3>2 DEF EverDone
  <2> QED BY <2>2, <2>3
<1>6. /\ \A f \in Telemetry : Has(telemetry, f, EverDone(runs))
      /\ m.op = "record" => \A f \in Telemetry : Has(telemetry, f, {m.lane})
  BY <1>1 DEF MInv, Measured
<1>7. \A f \in Telemetry : Has(telemetry', f, EverDone(runs'))
  BY <1>3, <1>5, <1>6 DEF Has
<1>8. Measured(pc'[p], mem'[p], runs', telemetry')
  BY <1>3 DEF Measured
<1> QED BY <1>7, <1>8, SoleMeasured

\* Each telemetry file is read whole, truncated, and written with what was read and the lane.
LEMMA TelemetryMeasured ==
    ASSUME Sole, SInv, MInv, NEW p \in Procs,
           ReadTelemetry(p) \/ TruncateTelemetry(p) \/ WriteTelemetry(p)
    PROVE  MInv'
<1> DEFINE m == mem[p]
           f0 == mem[p].file
<1>1. /\ mem \in [Procs -> Memory] /\ pc \in [Procs -> Locations] /\ m \in Memory
      /\ telemetry \in [Telemetry -> [torn : BOOLEAN, lanes : SUBSET Lanes]]
      /\ f0 \in Telemetry /\ runs' = runs /\ Telemetry = {"outcome", "process"}
  BY Facts DEF IInv, TypeOK, Memory, ReadTelemetry, TruncateTelemetry, WriteTelemetry, Telemetry
<1>2. /\ \A f \in Telemetry : Has(telemetry, f, EverDone(runs))
      /\ Measured(pc[p], m, runs, telemetry)
  BY DEF MInv
<1>3. CASE ReadTelemetry(p)
  <2>1. pc[p] = "telRead" /\ telemetry' = telemetry
    BY <1>3 DEF ReadTelemetry, At
  <2>2. CASE End(p, "error")
    <3>1. pc'[p] = "idle"
      BY <1>1, <2>2 DEF End
    <3>2. Measured(pc'[p], mem'[p], runs', telemetry')
      BY <3>1 DEF Measured
    <3> QED BY <1>1, <1>2, <2>1, <3>2, SoleMeasured
  <2>3. CASE ~End(p, "error")
    <3>1. /\ ~telemetry[f0].torn /\ pc'[p] = "telTruncate"
          /\ mem'[p].tel = telemetry[f0].lanes /\ mem'[p].file = f0 /\ mem'[p].lane = m.lane
      BY <1>1, <1>3, <2>3 DEF ReadTelemetry, TelemetryUnreadable, Goto, Memory
    <3>2. Measured(pc'[p], mem'[p], runs', telemetry')
      BY <1>1, <1>2, <2>1, <3>1 DEF Measured
    <3> QED BY <1>1, <1>2, <2>1, <3>2, SoleMeasured
  <2> QED BY <2>2, <2>3
<1>4. CASE TruncateTelemetry(p)
  <2>1. /\ pc[p] = "telTruncate" /\ pc'[p] = "telWrite" /\ mem'[p] = m
        /\ telemetry' = [telemetry EXCEPT ![f0] = [torn |-> TRUE, lanes |-> {}]]
    BY <1>1, <1>4 DEF TruncateTelemetry, At, Goto
  <2>2. EverDone(runs) \subseteq m.tel
    BY <1>1, <1>2, <2>1 DEF Measured, Has
  <2>3. telemetry'[f0].torn /\ \A f \in Telemetry : f # f0 => telemetry'[f] = telemetry[f]
    BY <1>1, <2>1
  <2>4. \A f \in Telemetry : Has(telemetry', f, EverDone(runs'))
    BY <1>1, <1>2, <2>3 DEF Has
  <2>5. Measured(pc'[p], mem'[p], runs', telemetry')
    BY <1>1, <1>2, <2>1, <2>2, <2>3 DEF Measured, Has
  <2> QED BY <2>4, <2>5, SoleMeasured
<1>5. CASE WriteTelemetry(p)
  <2>1. /\ pc[p] = "telWrite" /\ mem'[p].file = "process" /\ mem'[p].lane = m.lane
        /\ pc'[p] = IF f0 = "outcome" THEN "telRead" ELSE "writeExec"
        /\ telemetry' = [telemetry EXCEPT ![f0] = [torn |-> FALSE, lanes |-> m.tel \union {m.lane}]]
    BY <1>1, <1>5 DEF WriteTelemetry, At, Goto, Memory, mergedTelemetry
  <2>2. EverDone(runs) \subseteq m.tel
    BY <1>2, <2>1 DEF Measured
  <2>3. /\ telemetry'[f0].lanes = m.tel \union {m.lane}
        /\ \A f \in Telemetry : f # f0 => telemetry'[f] = telemetry[f]
    BY <1>1, <2>1
  <2>4. \A f \in Telemetry : Has(telemetry', f, EverDone(runs'))
    BY <1>1, <1>2, <2>2, <2>3 DEF Has
  <2>5. Has(telemetry', f0, {m.lane})
    BY <2>3 DEF Has
  <2>6. CASE f0 = "outcome"
    <3>1. Measured(pc'[p], mem'[p], runs', telemetry')
      BY <2>1, <2>5, <2>6 DEF Measured
    <3> QED BY <2>4, <3>1, SoleMeasured
  <2>7. CASE f0 = "process"
    <3>1. Has(telemetry', "outcome", {m.lane})
      BY <1>1, <1>2, <2>1, <2>3, <2>7 DEF Measured, Has
    <3>2. \A f \in Telemetry : Has(telemetry', f, {mem'[p].lane})
      BY <1>1, <2>1, <2>5, <2>7, <3>1
    <3>3. Measured(pc'[p], mem'[p], runs', telemetry')
      BY <2>1, <2>7, <3>2 DEF Measured
    <3> QED BY <2>4, <3>3, SoleMeasured
  <2> QED BY <1>1, <2>6, <2>7
<1> QED BY <1>3, <1>4, <1>5

LEMMA InitMeasured == Init => MInv
BY DEF Init, MInv, Measured, EverDone, Has

LEMMA NextMeasured == Sole /\ SInv /\ MInv /\ [Next]_vars => MInv'
<1> SUFFICES ASSUME Sole, SInv, MInv, [Next]_vars PROVE MInv'
  OBVIOUS
<1>1. CASE OtherCommand \/ UNCHANGED vars
  <2>1. UNCHANGED <<runs, telemetry, pc, mem>>
    BY <1>1 DEF OtherCommand, Orchestrate, WriteLaunchPlan, RecordReceipt, RegisterCapability,
                Route, Environment, vars
  <2>2. /\ \A f \in Telemetry : Has(telemetry', f, EverDone(runs'))
        /\ \A q \in Procs : Measured(pc'[q], mem'[q], runs', telemetry')
    BY <2>1 DEF MInv
  <2> QED BY <2>2 DEF MInv
<1>2. ASSUME NEW p \in Procs, Invoke(p) \/ Step(p) \/ Crash(p) PROVE MInv'
  BY <1>2, UnmeasuredSteps, RunMeasured, WriteRunMeasured, TelemetryMeasured DEF Step
<1> QED BY <1>1, <1>2 DEF Next

\* With one invocation at a time, every lane any run-state calls completed is in both telemetry
\* files that can be read, whatever a crash between truncating and writing one left behind.
THEOREM TelemetryPrecedesRun == Sole => (Spec => []TelemetryFirst)
<1> SUFFICES ASSUME Sole PROVE Spec => []TelemetryFirst
  OBVIOUS
<1>1. MInv => TelemetryFirst
  BY DEF MInv, TelemetryFirst, Has, EverDone
<1>2. SInv /\ MInv /\ [Next]_vars => SInv' /\ MInv'
  BY NextSInv, NextMeasured
<1> QED BY <1>1, <1>2, InitSInv, InitMeasured, PTL DEF Spec
=============================================================================
