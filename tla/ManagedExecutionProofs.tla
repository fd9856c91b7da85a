----------------------- MODULE ManagedExecutionProofs -----------------------
(* TLAPS proofs about ManagedExecution, for every value of its constants. *)
EXTENDS ManagedExecution, TLAPS

USE ConstantsAssumption, SentinelsAssumption

\* What a process has at hand at each point of its control flow.
ControlOK(p) ==
    /\ pc[p] \notin {"idle", "validate"} => mem[p].plan \in Plans
    /\ pc[p] = "writeStarted" => mem[p].run \in RunState
    /\ pc[p] \notin {"idle", "validate", "reconcile", "writeReconciled", "writeStarted"}
         => exec \in ExecState
    /\ pc[p] \in {"telRead", "telTruncate", "telWrite"} => mem[p].op = "record"
    /\ pc[p] \in {"readExec", "writeExec", "readRun", "writeRun"}
         => mem[p].op \in {"update", "record", "finalize"}
    /\ pc[p] \in {"telRead", "telTruncate", "telWrite", "writeExec", "readRun", "writeRun"}
         => mem[p].exec \in ExecState
    /\ pc[p] = "writeRun" => mem[p].run \in RunState
    /\ (mem[p].op = "record" \/ (mem[p].op = "update" /\ pc[p] # "readExec"))
         => mem[p].lane \in Lanes

\* The inductive invariant: types, control, and Backed for every run-state file and
\* for every copy of one a process may still write back.
IInv ==
    /\ TypeOK
    /\ \A p \in Procs : ControlOK(p)
    /\ \A r \in RunIds : runs[r] # NoFile => Backed(runs[r])
    /\ \A p \in Procs : mem[p].run # NoFile => Backed(mem[p].run)


-----------------------------------------------------------------------------
(* The helpers of the supervisor. *)

\* A missing file is no run-state and no execution-state.
LEMMA NoFileType == NoFile \notin RunState /\ NoFile \notin ExecState
BY DEF NoFile, RunState, ExecState, RunStatus

\* deriveRunStatus and finalStatus return run statuses.
LEMMA StatusType ==
    ASSUME NEW lanes
    PROVE  deriveRunStatus(lanes) \in RunStatus /\ finalStatus(lanes) \in RunStatus
BY DEF deriveRunStatus, finalStatus, RunStatus

\* Reconciling keeps every completed or failed lane together with its receipt.
LEMMA ReconcileBacked ==
    ASSUME NEW pl \in Plans, NEW read \in RunState \union {NoFile},
           read # NoFile => Backed(read)
    PROVE  /\ reconcileOrchestrationRunState(pl, read) \in RunState
           /\ Backed(reconcileOrchestrationRunState(pl, read))
<1> DEFINE prior == IF read # NoFile /\ read.fp = pl THEN read ELSE NoFile
           lanes == [l \in Lanes |-> reconciledStatus(pl, prior, l)]
           receipts == IF prior = NoFile THEN {} ELSE prior.receipts \cap pl.lanes
<1>1. prior \in RunState \union {NoFile} /\ (prior # NoFile => Backed(prior))
  OBVIOUS
<1>2. pl.lanes \subseteq Lanes
  BY DEF LaunchPlan
<1>3. ASSUME NEW l \in Lanes
      PROVE  /\ reconciledStatus(pl, prior, l) \in LaneRunStatus
             /\ reconciledStatus(pl, prior, l) \in {"completed", "failed"} => l \in receipts
  <2> HIDE DEF prior
  <2>1. CASE prior = NoFile
    BY <2>1 DEF reconciledStatus, LaneRunStatus
  <2>2. CASE prior # NoFile
    BY <1>1, <2>2 DEF reconciledStatus, LaneRunStatus, RunState, Backed
  <2> QED BY <2>1, <2>2
<1>4. lanes \in [Lanes -> LaneRunStatus]
  BY <1>3
<1>5. receipts \in SUBSET Lanes
  BY <1>2
<1>6. reconcileOrchestrationRunState(pl, read) =
        [fp |-> pl, status |-> deriveRunStatus(lanes), lanes |-> lanes, receipts |-> receipts]
  BY DEF reconcileOrchestrationRunState
<1> HIDE DEF lanes, receipts
<1>7. reconcileOrchestrationRunState(pl, read) \in RunState
  BY <1>4, <1>5, <1>6, StatusType DEF RunState
<1>8. \A l \in Lanes : lanes[l] \in {"completed", "failed"} => l \in receipts
  BY <1>3 DEF lanes
<1> QED BY <1>6, <1>7, <1>8 DEF Backed

\* Every change a supervisor call makes to a backed run-state leaves it backed.
LEMMA ChangedRunBacked ==
    ASSUME NEW m \in Memory, m.run \in RunState, Backed(m.run),
           m.op \in {"update", "record", "finalize"},
           m.op # "finalize" => m.lane \in Lanes
    PROVE  ChangedRun(m) \in RunState /\ Backed(ChangedRun(m))
<1> DEFINE lanes == CASE m.op = "update"   -> [m.run.lanes EXCEPT ![m.lane] = "running"]
                      [] m.op = "record"   -> [m.run.lanes EXCEPT ![m.lane] = m.result]
                      [] m.op = "finalize" -> m.run.lanes
           receipts == IF m.op = "record" THEN m.run.receipts \union {m.lane}
                       ELSE m.run.receipts
<1>1. /\ m.run.lanes \in [Lanes -> LaneRunStatus]
      /\ m.run.receipts \in SUBSET Lanes
      /\ m.run.fp \in Plans
      /\ m.result \in {"completed", "failed"}
  BY DEF RunState, Memory
<1>2. ChangedRun(m) = [m.run EXCEPT !.lanes = lanes, !.status = deriveRunStatus(lanes),
                                    !.receipts = receipts]
  BY DEF ChangedRun
<1>3. /\ lanes \in [Lanes -> LaneRunStatus]
      /\ receipts \in SUBSET Lanes
      /\ \A l \in Lanes : lanes[l] \in {"completed", "failed"} => l \in receipts
  <2>1. CASE m.op = "update"
    BY <1>1, <2>1 DEF LaneRunStatus, Backed
  <2>2. CASE m.op = "record"
    BY <1>1, <2>2 DEF LaneRunStatus, Backed
  <2>3. CASE m.op = "finalize"
    BY <1>1, <2>3 DEF LaneRunStatus, Backed
  <2> QED BY <2>1, <2>2, <2>3
<1> HIDE DEF lanes, receipts
<1>4. deriveRunStatus(lanes) \in RunStatus
  BY StatusType
<1>5. /\ ChangedRun(m) \in RunState
      /\ ChangedRun(m).lanes = lanes
      /\ ChangedRun(m).status = deriveRunStatus(lanes)
      /\ ChangedRun(m).receipts = receipts
  BY <1>2, <1>3, <1>4 DEF RunState
<1> QED BY <1>3, <1>5 DEF Backed

\* Every change a supervisor call makes to an execution-state is one.
LEMMA ChangedExecutionType ==
    ASSUME NEW m \in Memory, m.exec \in ExecState,
           m.op \in {"update", "record", "finalize"},
           m.op # "finalize" => m.lane \in Lanes
    PROVE  ChangedExecution(m) \in ExecState
<1>1. m.result \in {"completed", "failed"}
  BY DEF Memory
<1>2. CASE m.op = "update"
  BY <1>2 DEF ChangedExecution, ExecState, LaneState
<1>3. CASE m.op = "record"
  BY <1>1, <1>3 DEF ChangedExecution, ExecState, LaneState
<1>4. CASE m.op = "finalize"
  BY <1>4, StatusType DEF ChangedExecution, ExecState
<1> QED BY <1>2, <1>3, <1>4

\* startExecution writes an execution-state.
LEMMA StartedType ==
    ASSUME NEW pl \in Plans, NEW run \in RunState
    PROVE  startedLanes(pl, run) \in [Lanes -> LaneState]
BY DEF startedLanes, RunState, LaneRunStatus, LaneState

\* The merge guards only name runs and the launch plan they were evaluated against.
LEMMA GuardsType ==
    ASSUME launchPlan \in Plans \union {None}
    PROVE  evaluateExecutionMergeGuards \in SUBSET (RunIds \X Plans)
BY DEF evaluateExecutionMergeGuards

-----------------------------------------------------------------------------
(* The inductive invariant. *)

\* A process that starts has no copy of any file.
LEMMA BlankType == Blank \in Memory /\ Blank.run = NoFile
BY DEF Blank, Memory, Telemetry

\* The invariant holds of an empty .playbook directory.
LEMMA InitIInv == Init => IInv
<1> SUFFICES ASSUME Init PROVE IInv
  OBVIOUS
<1>1. mem \in [Procs -> Memory] /\ \A p \in Procs : mem[p] = Blank /\ pc[p] = "idle"
  BY BlankType DEF Init
<1>2. \A p \in Procs : ControlOK(p)
  BY <1>1 DEF ControlOK, Blank
<1>a. /\ runs \in [RunIds -> RunState \union {NoFile}]
      /\ telemetry \in [Telemetry -> [torn : BOOLEAN, lanes : SUBSET Lanes]]
      /\ executed \in [Plans -> SUBSET Lanes]
  BY DEF Init
<1>b. /\ pc \in [Procs -> {"idle"}] /\ exit \in [Procs -> {"none"}]
      /\ crashes \in 0..MaxCrashes /\ env \in 0..MaxEnv
  BY DEF Init
<1>3. TypeOK
  BY <1>1, <1>a, <1>b DEF Init, TypeOK
<1>4. \A r \in RunIds : runs[r] = NoFile
  BY DEF Init
<1> QED BY <1>1, <1>2, <1>3, <1>4, BlankType DEF IInv

\* The locations of a process.
Locations == {"idle", "validate", "reconcile", "writeReconciled", "writeStarted",
              "guardsRead", "guardsWrite", "guardsDone", "readExec", "writeExec",
              "readRun", "writeRun", "telRead", "telTruncate", "telWrite"}

Exits == {"none", "refused", "success", "failure", "error", "crashed"}

\* What a step of process p must establish for the invariant to be kept: the files
\* it writes are well formed and backed, and so is what it goes on with.
LEMMA StepKeeps ==
    ASSUME IInv, NEW p \in Procs, NEW label \in Locations, NEW m \in Memory,
           pc' = [pc EXCEPT ![p] = label],
           mem' = [mem EXCEPT ![p] = m],
           m.run # NoFile => Backed(m.run),
           exec' = exec \/ exec' \in ExecState,
           \/ runs' = runs
           \/ \E r \in RunIds, run \in RunState :
                 runs' = [runs EXCEPT ![r] = run] /\ Backed(run),
           exit' = exit \/ \E how \in Exits : exit' = [exit EXCEPT ![p] = how],
           guards' \in SUBSET (RunIds \X Plans),
           telemetry' \in [Telemetry -> [torn : BOOLEAN, lanes : SUBSET Lanes]],
           executed' \in [Plans -> SUBSET Lanes],
           crashes' \in 0..MaxCrashes,
           UNCHANGED <<inputs, env>>,
           ControlOK(p)'
    PROVE  IInv'
<1>1. pc' \in [Procs -> Locations] /\ mem' \in [Procs -> Memory] /\ mem'[p] = m
  BY DEF IInv, TypeOK, Locations
<1>2. exec' \in ExecState \union {NoFile} /\ exit' \in [Procs -> Exits]
  BY DEF IInv, TypeOK, Exits
<1>3. /\ runs' \in [RunIds -> RunState \union {NoFile}]
      /\ \A r \in RunIds : runs'[r] # NoFile => Backed(runs'[r])
  <2>1. \A r \in RunIds : runs'[r] = runs[r] \/ (runs'[r] \in RunState /\ Backed(runs'[r]))
    BY DEF IInv, TypeOK
  <2>2. runs' \in [RunIds -> RunState \union {NoFile}]
    BY DEF IInv, TypeOK
  <2> QED BY <2>1, <2>2 DEF IInv, TypeOK
<1>4. TypeOK'
  BY <1>1, <1>2, <1>3 DEF IInv, TypeOK, inputs, Locations, Exits
<1>5. ASSUME NEW q \in Procs, q # p
      PROVE  ControlOK(q)' /\ (mem'[q].run # NoFile => Backed(mem'[q].run))
  <2>1. pc'[q] = pc[q] /\ mem'[q] = mem[q] /\ (exec \in ExecState => exec' \in ExecState)
    BY <1>5 DEF IInv, TypeOK
  <2> QED BY <2>1 DEF IInv, ControlOK
<1>6. (\A r \in RunIds : runs[r] # NoFile => Backed(runs[r]))'
  BY <1>3 DEF Backed, deriveRunStatus, StatusesOf
<1>7. (\A q \in Procs : mem[q].run # NoFile => Backed(mem[q].run))'
  BY <1>1, <1>5
<1> QED BY <1>4, <1>5, <1>6, <1>7 DEF IInv

-----------------------------------------------------------------------------
(* Every action keeps the invariant. *)

\* A step that changes neither the processes nor the files execute writes keeps the
\* invariant if it keeps the types.
LEMMA UnchangedKeeps ==
    ASSUME IInv, TypeOK', UNCHANGED <<exec, runs, pc, mem>>
    PROVE  IInv'
<1>1. (\A p \in Procs : ControlOK(p))'
  BY DEF IInv, ControlOK
<1>3. (\A r \in RunIds : runs[r] # NoFile => Backed(runs[r]))'
  BY DEF IInv
<1>4. (\A p \in Procs : mem[p].run # NoFile => Backed(mem[p].run))'
  BY DEF IInv
<1> QED BY <1>1, <1>3, <1>4 DEF IInv

\* The other commands write only what execute reads.
LEMMA EnvironmentKeeps == IInv /\ OtherCommand => IInv'
<1> SUFFICES ASSUME IInv, OtherCommand PROVE IInv'
  OBVIOUS
<1>1. /\ UNCHANGED <<exec, runs, guards, telemetry, pc, mem, exit, crashes, executed>>
      /\ env' \in 0..MaxEnv
  BY DEF OtherCommand, Orchestrate, WriteLaunchPlan, RecordReceipt, RegisterCapability, Route,
         Environment, IInv, TypeOK
<1>2. /\ workset' \in Worksets \union {None}
      /\ launchPlan' \in Plans \union {None}
      /\ artifacts' \in SUBSET Artifacts
      /\ registered' \in SUBSET Capabilities
      /\ routed' \in BOOLEAN
  <2>1. CASE \E ws \in Worksets : Orchestrate(ws)
    BY <2>1 DEF Orchestrate, IInv, TypeOK
  <2>2. CASE \E pl \in Plans : WriteLaunchPlan(pl)
    BY <2>2 DEF WriteLaunchPlan, IInv, TypeOK
  <2>3. CASE \E a \in Artifacts : RecordReceipt(a)
    BY <2>3 DEF RecordReceipt, IInv, TypeOK
  <2>4. CASE \E c \in Capabilities : RegisterCapability(c)
    BY <2>4 DEF RegisterCapability, IInv, TypeOK
  <2>5. CASE Route
    BY <2>5 DEF Route, IInv, TypeOK
  <2> QED BY <2>1, <2>2, <2>3, <2>4, <2>5 DEF OtherCommand
<1>3. TypeOK'
  BY <1>1, <1>2 DEF IInv, TypeOK
<1> QED BY <1>1, <1>3, UnchangedKeeps

\* A process that ends, for whatever reason, leaves only its files behind.
LEMMA EndKeeps ==
    ASSUME IInv, NEW p \in Procs, NEW how \in Exits, End(p, how),
           UNCHANGED <<inputs, exec, runs, guards, telemetry, env, executed>>,
           crashes' \in 0..MaxCrashes
    PROVE  IInv'
<1>1. ControlOK(p)'
  BY DEF End, ControlOK, Blank, IInv, TypeOK
<1>2. /\ pc' = [pc EXCEPT ![p] = "idle"] /\ mem' = [mem EXCEPT ![p] = Blank]
      /\ exit' = [exit EXCEPT ![p] = how]
  BY DEF End
<1>3. /\ guards' \in SUBSET (RunIds \X Plans)
      /\ telemetry' \in [Telemetry -> [torn : BOOLEAN, lanes : SUBSET Lanes]]
      /\ executed' \in [Plans -> SUBSET Lanes]
  BY DEF IInv, TypeOK
<1>4. "idle" \in Locations
  BY DEF Locations
<1> QED BY <1>1, <1>2, <1>3, <1>4, BlankType, StepKeeps

\* A new invocation remembers the workset it has read.
LEMMA InvokeKeeps == ASSUME IInv, NEW p \in Procs, Invoke(p) PROVE IInv'
<1>0. crashes' \in 0..MaxCrashes
  BY DEF Invoke, budget, IInv, TypeOK
<1>1. CASE workset = None
  BY <1>0, <1>1, EndKeeps DEF Invoke, Exits, budget
<1>2. CASE workset # None
  <2> DEFINE m == [mem[p] EXCEPT !.todo = workset]
  <2>1. mem[p] \in Memory /\ workset \in SUBSET Lanes
    BY <1>2 DEF IInv, TypeOK
  <2>2. m \in Memory /\ m.run = mem[p].run
    BY <2>1 DEF Memory
  <2>3. /\ pc' = [pc EXCEPT ![p] = "validate"] /\ mem' = [mem EXCEPT ![p] = m]
        /\ exit' = [exit EXCEPT ![p] = "none"]
        /\ UNCHANGED <<inputs, exec, runs, guards, telemetry, env, executed>>
    BY <1>2 DEF Invoke, budget
  <2>4. ControlOK(p)'
    BY <2>1, <2>3 DEF ControlOK, IInv, TypeOK, Memory, Invoke, At
  <2>5. /\ guards' \in SUBSET (RunIds \X Plans)
        /\ telemetry' \in [Telemetry -> [torn : BOOLEAN, lanes : SUBSET Lanes]]
        /\ executed' \in [Plans -> SUBSET Lanes]
    BY <2>3 DEF IInv, TypeOK
  <2>6. m.run # NoFile => Backed(m.run)
    BY <2>2 DEF IInv
  <2>7. "validate" \in Locations /\ "none" \in Exits
    BY DEF Locations, Exits
  <2> HIDE DEF m
  <2> QED BY <1>0, <2>2, <2>3, <2>4, <2>5, <2>6, <2>7, StepKeeps
<1> QED BY <1>1, <1>2

\* A step that writes no file.
LEMMA ReadKeeps ==
    ASSUME IInv, NEW p \in Procs, NEW label \in Locations, NEW m \in Memory,
           Goto(p, label),
           mem' = [mem EXCEPT ![p] = m],
           m.run # NoFile => Backed(m.run),
           UNCHANGED <<inputs, exec, runs, guards, telemetry, budget, executed>>,
           ControlOK(p)'
    PROVE  IInv'
<1>1. /\ guards' \in SUBSET (RunIds \X Plans)
      /\ telemetry' \in [Telemetry -> [torn : BOOLEAN, lanes : SUBSET Lanes]]
      /\ executed' \in [Plans -> SUBSET Lanes]
      /\ crashes' \in 0..MaxCrashes
      /\ UNCHANGED env
  BY DEF IInv, TypeOK, budget
<1> QED BY <1>1, StepKeeps DEF Goto

\* Validation ends the process or leaves it with a plan.
LEMMA ValidateKeeps == ASSUME IInv, NEW p \in Procs, ValidateLaunchPlan(p) PROVE IInv'
<1>1. CASE Authorized(mem[p].todo, launchPlan)
  <2> DEFINE m == [mem[p] EXCEPT !.plan = launchPlan]
  <2>1. mem[p] \in Memory /\ launchPlan \in Plans
    BY <1>1 DEF IInv, TypeOK, Authorized
  <2>2. m \in Memory /\ m.run = mem[p].run /\ m.plan \in Plans
    BY <2>1 DEF Memory
  <2>3. Goto(p, "reconcile") /\ mem' = [mem EXCEPT ![p] = m]
    BY <1>1 DEF ValidateLaunchPlan
  <2>4. ControlOK(p)'
    BY <2>1, <2>3 DEF ControlOK, IInv, TypeOK, Memory, Goto, ValidateLaunchPlan, At
  <2>5. (m.run # NoFile => Backed(m.run)) /\ "reconcile" \in Locations
    BY <2>2 DEF IInv, Locations
  <2> HIDE DEF m
  <2> QED BY <2>2, <2>3, <2>4, <2>5, ReadKeeps DEF ValidateLaunchPlan
<1>2. CASE ~Authorized(mem[p].todo, launchPlan)
  BY <1>2, EndKeeps DEF ValidateLaunchPlan, Exits, budget, IInv, TypeOK
<1> QED BY <1>1, <1>2

\* The prior run-state read by startExecution is backed.
LEMMA ReadPriorKeeps == ASSUME IInv, NEW p \in Procs, ReadPriorRun(p) PROVE IInv'
<1> DEFINE m == [mem[p] EXCEPT !.run = runs[RunIdOf[mem[p].plan]]]
<1>1. mem[p] \in Memory /\ mem[p].plan \in Plans /\ RunIdOf[mem[p].plan] \in RunIds
  BY DEF IInv, TypeOK, ControlOK, ReadPriorRun, At
<1>2. m \in Memory /\ m.run = runs[RunIdOf[mem[p].plan]]
  BY <1>1 DEF Memory, IInv, TypeOK
<1>3. Goto(p, "writeReconciled") /\ mem' = [mem EXCEPT ![p] = m]
  BY DEF ReadPriorRun
<1>4. ControlOK(p)'
  BY <1>1, <1>3 DEF ControlOK, IInv, TypeOK, Memory, Goto, ReadPriorRun, At
<1>5. (m.run # NoFile => Backed(m.run)) /\ "writeReconciled" \in Locations
  BY <1>1, <1>2 DEF IInv, Locations
<1> HIDE DEF m
<1> QED BY <1>2, <1>3, <1>4, <1>5, ReadKeeps DEF ReadPriorRun

\* The reconciled run-state is backed, whatever was read.
LEMMA WriteReconciledKeeps == ASSUME IInv, NEW p \in Procs, WriteReconciledRun(p) PROVE IInv'
<1> DEFINE pl == mem[p].plan
           run == reconcileOrchestrationRunState(pl, mem[p].run)
           todo == lanesToRun(pl, run)
           m == [mem[p] EXCEPT !.run = run, !.todo = todo]
<1>1. mem[p] \in Memory /\ pl \in Plans /\ RunIdOf[pl] \in RunIds /\ pl.eligible \subseteq Lanes
  BY DEF IInv, TypeOK, ControlOK, WriteReconciledRun, At, LaunchPlan
<1>2. run \in RunState /\ Backed(run)
  <2>1. mem[p].run \in RunState \union {NoFile} /\ (mem[p].run # NoFile => Backed(mem[p].run))
    BY <1>1 DEF Memory, IInv
  <2> QED BY <1>1, <2>1, ReconcileBacked
<1>3. todo \in SUBSET Lanes
  BY <1>1 DEF lanesToRun
<1>4. /\ Goto(p, "writeStarted") /\ mem' = [mem EXCEPT ![p] = m]
      /\ runs' = [runs EXCEPT ![RunIdOf[pl]] = run]
      /\ UNCHANGED <<inputs, exec, guards, telemetry, budget, executed>>
  BY DEF WriteReconciledRun
<1>5. At(p, "writeReconciled")
  BY DEF WriteReconciledRun
<1> HIDE DEF run, todo
<1>6. m \in Memory /\ m.run = run /\ m.plan = pl /\ m.op = mem[p].op /\ m.lane = mem[p].lane
  BY <1>1, <1>2, <1>3 DEF Memory
<1> HIDE DEF m
<1>7. mem'[p] = m /\ pc'[p] = "writeStarted"
  BY <1>4 DEF IInv, TypeOK, Goto
<1>8. ControlOK(p)'
  BY <1>1, <1>2, <1>5, <1>6, <1>7 DEF ControlOK, IInv, At
<1>9. /\ guards' \in SUBSET (RunIds \X Plans)
      /\ telemetry' \in [Telemetry -> [torn : BOOLEAN, lanes : SUBSET Lanes]]
      /\ executed' \in [Plans -> SUBSET Lanes]
      /\ crashes' \in 0..MaxCrashes
      /\ UNCHANGED env
      /\ "writeStarted" \in Locations
  BY <1>4 DEF IInv, TypeOK, budget, Locations
<1> QED BY <1>1, <1>2, <1>4, <1>6, <1>8, <1>9, StepKeeps DEF Goto

\* startExecution leaves an execution-state.
LEMMA WriteStartedKeeps == ASSUME IInv, NEW p \in Procs, WriteStartedExecution(p) PROVE IInv'
<1> DEFINE new == [run |-> RunIdOf[mem[p].plan], status |-> "running",
                   lanes |-> startedLanes(mem[p].plan, mem[p].run), workers |-> {}]
<1>1. /\ mem[p] \in Memory /\ mem[p].plan \in Plans /\ RunIdOf[mem[p].plan] \in RunIds
      /\ mem[p].run \in RunState
  BY DEF IInv, TypeOK, ControlOK, WriteStartedExecution, At
<1>2. new \in ExecState
  BY <1>1, StartedType DEF ExecState, RunStatus
<1>3. /\ Goto(p, "guardsRead") /\ UNCHANGED mem /\ exec' = new
      /\ UNCHANGED <<inputs, runs, guards, telemetry, budget, executed>>
      /\ At(p, "writeStarted")
  BY DEF WriteStartedExecution
<1> HIDE DEF new
<1>4. mem' = [mem EXCEPT ![p] = mem[p]] /\ mem'[p] = mem[p] /\ pc'[p] = "guardsRead"
  BY <1>3 DEF IInv, TypeOK, Goto
<1>5. ControlOK(p)'
  BY <1>1, <1>2, <1>3, <1>4 DEF ControlOK, IInv, At
<1>6. /\ guards' \in SUBSET (RunIds \X Plans)
      /\ telemetry' \in [Telemetry -> [torn : BOOLEAN, lanes : SUBSET Lanes]]
      /\ executed' \in [Plans -> SUBSET Lanes]
      /\ crashes' \in 0..MaxCrashes
      /\ UNCHANGED env
      /\ "guardsRead" \in Locations
      /\ mem[p].run # NoFile => Backed(mem[p].run)
  BY <1>3 DEF IInv, TypeOK, budget, Locations
<1> QED BY <1>1, <1>2, <1>3, <1>4, <1>5, <1>6, StepKeeps DEF Goto

\* updateLaneState and its siblings read an execution-state that startExecution
\* of this very process has put there.
LEMMA ReadForUpdateKeeps == ASSUME IInv, NEW p \in Procs, ReadForUpdate(p) PROVE IInv'
<1>1. PICK l \in mem[p].todo :
         mem' = [mem EXCEPT ![p].exec = exec, ![p].lane = l, ![p].todo = @ \ {l}]
  BY DEF ReadForUpdate
<1> DEFINE m == [mem[p] EXCEPT !.exec = exec, !.lane = l, !.todo = mem[p].todo \ {l}]
<1>2. /\ mem[p] \in Memory /\ l \in Lanes /\ mem[p].plan \in Plans /\ exec \in ExecState
      /\ mem[p].op = "update" /\ At(p, "readExec") /\ Goto(p, "writeExec")
      /\ UNCHANGED <<inputs, exec, runs, guards, telemetry, budget, executed>>
  BY DEF IInv, TypeOK, ControlOK, ReadForUpdate, At, Memory
<1>3. /\ m \in Memory /\ m.run = mem[p].run /\ m.plan = mem[p].plan /\ m.op = mem[p].op
      /\ m.exec = exec /\ m.lane = l
  BY <1>2 DEF Memory
<1>4. mem' = [mem EXCEPT ![p] = m] /\ mem'[p] = m
  BY <1>1 DEF IInv, TypeOK
<1> HIDE DEF m
<1>5. pc'[p] = "writeExec" /\ exec' = exec
  BY <1>2 DEF Goto, IInv, TypeOK
<1>6. ControlOK(p)'
  BY <1>2, <1>3, <1>4, <1>5 DEF ControlOK
<1>7. (m.run # NoFile => Backed(m.run)) /\ "writeExec" \in Locations
  BY <1>3 DEF IInv, Locations
<1> QED BY <1>2, <1>3, <1>4, <1>6, <1>7, ReadKeeps

\* recordWorkerResult reads an execution-state, and its lane is the updated one.
LEMMA ReadForRecordKeeps == ASSUME IInv, NEW p \in Procs, ReadForRecord(p) PROVE IInv'
<1>1. PICK o \in Outcomes : mem' = [mem EXCEPT ![p].exec = exec, ![p].result = o]
  BY DEF ReadForRecord
<1> DEFINE m == [mem[p] EXCEPT !.exec = exec, !.result = o]
<1>2. /\ mem[p] \in Memory /\ mem[p].plan \in Plans /\ exec \in ExecState
      /\ mem[p].op = "record" /\ mem[p].lane \in Lanes
      /\ At(p, "readExec") /\ Goto(p, "telRead")
      /\ UNCHANGED <<inputs, exec, runs, guards, telemetry, budget, executed>>
  BY DEF IInv, TypeOK, ControlOK, ReadForRecord, At, Memory
<1>3. /\ m \in Memory /\ m.run = mem[p].run /\ m.plan = mem[p].plan /\ m.op = mem[p].op
      /\ m.exec = exec /\ m.lane = mem[p].lane
  BY <1>2 DEF Memory
<1>4. mem' = [mem EXCEPT ![p] = m] /\ mem'[p] = m
  BY <1>1 DEF IInv, TypeOK
<1> HIDE DEF m
<1>5. pc'[p] = "telRead" /\ exec' = exec
  BY <1>2 DEF Goto, IInv, TypeOK
<1>6. ControlOK(p)'
  BY <1>2, <1>3, <1>4, <1>5 DEF ControlOK
<1>7. (m.run # NoFile => Backed(m.run)) /\ "telRead" \in Locations
  BY <1>3 DEF IInv, Locations
<1> QED BY <1>2, <1>3, <1>4, <1>6, <1>7, ReadKeeps

\* finalizeExecution either goes on with the execution-state or returns at once.
LEMMA ReadForFinalizeKeeps == ASSUME IInv, NEW p \in Procs, ReadForFinalize(p) PROVE IInv'
<1> DEFINE m == [mem[p] EXCEPT !.exec = exec]
           label == IF exec.run = RunIdOf[mem[p].plan] THEN "writeExec" ELSE "guardsDone"
<1>2. /\ mem[p] \in Memory /\ mem[p].plan \in Plans /\ exec \in ExecState
      /\ mem[p].op = "finalize" /\ Goto(p, label)
      /\ UNCHANGED <<inputs, exec, runs, guards, telemetry, budget, executed>>
  BY DEF IInv, TypeOK, ControlOK, ReadForFinalize, At
<1>3. /\ m \in Memory /\ m.run = mem[p].run /\ m.plan = mem[p].plan /\ m.op = mem[p].op
      /\ m.exec = exec /\ m.lane = mem[p].lane
  BY <1>2 DEF Memory
<1>4. mem' = [mem EXCEPT ![p] = m] /\ mem'[p] = m
  BY DEF ReadForFinalize, IInv, TypeOK
<1> HIDE DEF m
<1>5. pc'[p] = label /\ exec' = exec /\ label \in {"writeExec", "guardsDone"}
  BY <1>2 DEF Goto, IInv, TypeOK
<1> HIDE DEF label
<1>6. ControlOK(p)'
  BY <1>2, <1>3, <1>4, <1>5 DEF ControlOK
<1>7. (m.run # NoFile => Backed(m.run)) /\ label \in Locations
  BY <1>3, <1>5 DEF IInv, Locations
<1> QED BY <1>2, <1>3, <1>4, <1>6, <1>7, ReadKeeps

\* The execution-state a call writes back is one, whatever others have written.
LEMMA WriteExecutionKeeps == ASSUME IInv, NEW p \in Procs, WriteExecution(p) PROVE IInv'
<1>1. /\ mem[p] \in Memory /\ mem[p].plan \in Plans /\ mem[p].exec \in ExecState
      /\ mem[p].op \in {"update", "record", "finalize"}
      /\ mem[p].op # "finalize" => mem[p].lane \in Lanes
      /\ Goto(p, "readRun") /\ UNCHANGED <<inputs, runs, guards, telemetry, mem, budget>>
      /\ exec' = ChangedExecution(mem[p])
  BY DEF IInv, TypeOK, ControlOK, WriteExecution, At
<1>2. exec' \in ExecState
  BY <1>1, ChangedExecutionType
<1>3. executed' \in [Plans -> SUBSET Lanes]
  BY <1>1 DEF WriteExecution, IInv, TypeOK
<1>4. mem' = [mem EXCEPT ![p] = mem[p]] /\ mem'[p] = mem[p] /\ pc'[p] = "readRun"
  BY <1>1 DEF IInv, TypeOK, Goto
<1>5. ControlOK(p)'
  BY <1>1, <1>2, <1>4 DEF ControlOK
<1>6. /\ guards' \in SUBSET (RunIds \X Plans)
      /\ telemetry' \in [Telemetry -> [torn : BOOLEAN, lanes : SUBSET Lanes]]
      /\ crashes' \in 0..MaxCrashes
      /\ UNCHANGED env
      /\ "readRun" \in Locations
      /\ mem[p].run # NoFile => Backed(mem[p].run)
  BY <1>1 DEF IInv, TypeOK, budget, Locations
<1> QED BY <1>1, <1>2, <1>3, <1>4, <1>5, <1>6, StepKeeps DEF Goto

\* The copy of a run-state a call reads is as backed as the file.
LEMMA ReadRunKeeps == ASSUME IInv, NEW p \in Procs, ReadRun(p) PROVE IInv'
<1> DEFINE run == runs[mem[p].exec.run]
           m == [mem[p] EXCEPT !.run = run]
           label == IF run = NoFile THEN "guardsRead" ELSE "writeRun"
<1>1. /\ mem[p] \in Memory /\ mem[p].plan \in Plans /\ mem[p].exec \in ExecState
      /\ exec \in ExecState
      /\ mem[p].op \in {"update", "record", "finalize"}
      /\ mem[p].op # "finalize" => mem[p].lane \in Lanes
      /\ Goto(p, label)
      /\ UNCHANGED <<inputs, exec, runs, guards, telemetry, budget, executed>>
  BY DEF IInv, TypeOK, ControlOK, ReadRun, At
<1>2. mem[p].exec.run \in RunIds
  BY <1>1 DEF ExecState
<1>3. run \in RunState \union {NoFile} /\ (run # NoFile => Backed(run))
  BY <1>2 DEF IInv, TypeOK
<1>4. label \in {"guardsRead", "writeRun"} /\ (label = "writeRun" => run \in RunState)
  BY <1>3
<1>5. mem' = [mem EXCEPT ![p] = m] /\ mem'[p] = m /\ pc'[p] = label
  BY <1>1 DEF ReadRun, IInv, TypeOK, Goto
<1> HIDE DEF run, label
<1>6. /\ m \in Memory /\ m.run = run /\ m.plan = mem[p].plan /\ m.op = mem[p].op
      /\ m.exec = mem[p].exec /\ m.lane = mem[p].lane
  BY <1>1, <1>3 DEF Memory
<1> HIDE DEF m
<1>7. ControlOK(p)'
  BY <1>1, <1>4, <1>5, <1>6 DEF ControlOK
<1>8. label \in Locations
  BY <1>4 DEF Locations
<1> QED BY <1>1, <1>3, <1>5, <1>6, <1>7, <1>8, ReadKeeps

\* A run-state written back from a copy, however stale, is backed.
LEMMA WriteRunKeeps == ASSUME IInv, NEW p \in Procs, WriteRun(p) PROVE IInv'
<1>1. /\ mem[p] \in Memory /\ mem[p].plan \in Plans /\ mem[p].exec \in ExecState
      /\ exec \in ExecState
      /\ mem[p].run \in RunState
      /\ mem[p].op \in {"update", "record", "finalize"}
      /\ mem[p].op # "finalize" => mem[p].lane \in Lanes
      /\ Goto(p, "guardsRead")
      /\ UNCHANGED <<inputs, exec, guards, telemetry, mem, budget, executed>>
      /\ runs' = [runs EXCEPT ![mem[p].exec.run] = ChangedRun(mem[p])]
  BY DEF IInv, TypeOK, ControlOK, WriteRun, At
<1>2. mem[p].exec.run \in RunIds /\ Backed(mem[p].run)
  BY <1>1, NoFileType DEF ExecState, IInv
<1>3. ChangedRun(mem[p]) \in RunState /\ Backed(ChangedRun(mem[p]))
  BY <1>1, <1>2, ChangedRunBacked
<1>4. mem' = [mem EXCEPT ![p] = mem[p]] /\ mem'[p] = mem[p] /\ pc'[p] = "guardsRead"
  BY <1>1 DEF IInv, TypeOK, Goto
<1>5. ControlOK(p)'
  BY <1>1, <1>4 DEF ControlOK
<1>6. /\ guards' \in SUBSET (RunIds \X Plans)
      /\ telemetry' \in [Telemetry -> [torn : BOOLEAN, lanes : SUBSET Lanes]]
      /\ executed' \in [Plans -> SUBSET Lanes]
      /\ crashes' \in 0..MaxCrashes
      /\ UNCHANGED env
      /\ "guardsRead" \in Locations
  BY <1>1 DEF IInv, TypeOK, budget, Locations
<1> QED BY <1>1, <1>2, <1>3, <1>4, <1>5, <1>6, StepKeeps DEF Goto

\* An unreadable telemetry file ends the process, a readable one is copied.
LEMMA ReadTelemetryKeeps == ASSUME IInv, NEW p \in Procs, ReadTelemetry(p) PROVE IInv'
<1>1. CASE TelemetryUnreadable(mem[p].file)
  BY <1>1, EndKeeps DEF ReadTelemetry, Exits, budget, IInv, TypeOK
<1>2. CASE ~TelemetryUnreadable(mem[p].file)
  <2> DEFINE m == [mem[p] EXCEPT !.tel = telemetry[mem[p].file].lanes]
  <2>1. /\ mem[p] \in Memory /\ mem[p].plan \in Plans /\ mem[p].exec \in ExecState
        /\ exec \in ExecState /\ mem[p].op = "record" /\ mem[p].lane \in Lanes
        /\ telemetry[mem[p].file].lanes \in SUBSET Lanes
        /\ Goto(p, "telTruncate")
        /\ UNCHANGED <<inputs, exec, runs, guards, telemetry, budget, executed>>
    BY <1>2, SMTT(40) DEF IInv, TypeOK, ControlOK, ReadTelemetry, At, Memory
  <2>2. /\ m \in Memory /\ m.run = mem[p].run /\ m.plan = mem[p].plan /\ m.op = mem[p].op
        /\ m.exec = mem[p].exec /\ m.lane = mem[p].lane
    BY <2>1 DEF Memory
  <2>3. mem' = [mem EXCEPT ![p] = m] /\ mem'[p] = m /\ pc'[p] = "telTruncate"
    BY <1>2, <2>1 DEF ReadTelemetry, Goto, IInv, TypeOK
  <2> HIDE DEF m
  <2>4. ControlOK(p)'
    BY <2>1, <2>2, <2>3 DEF ControlOK
  <2>5. (m.run # NoFile => Backed(m.run)) /\ "telTruncate" \in Locations
    BY <2>2 DEF IInv, Locations
  <2> QED BY <2>1, <2>2, <2>3, <2>4, <2>5, ReadKeeps
<1> QED BY <1>1, <1>2

\* Truncating a telemetry file touches nothing else.
LEMMA TruncateTelemetryKeeps == ASSUME IInv, NEW p \in Procs, TruncateTelemetry(p) PROVE IInv'
<1>1. /\ mem[p] \in Memory /\ mem[p].plan \in Plans /\ mem[p].exec \in ExecState
      /\ exec \in ExecState /\ mem[p].op = "record" /\ mem[p].lane \in Lanes
      /\ Goto(p, "telWrite")
      /\ UNCHANGED <<inputs, exec, runs, guards, mem, budget, executed>>
      /\ telemetry' = [telemetry EXCEPT ![mem[p].file] = [torn |-> TRUE, lanes |-> {}]]
  BY DEF IInv, TypeOK, ControlOK, TruncateTelemetry, At
<1>2. telemetry' \in [Telemetry -> [torn : BOOLEAN, lanes : SUBSET Lanes]]
  BY <1>1 DEF IInv, TypeOK
<1>3. mem' = [mem EXCEPT ![p] = mem[p]] /\ mem'[p] = mem[p] /\ pc'[p] = "telWrite"
  BY <1>1 DEF IInv, TypeOK, Goto
<1>4. ControlOK(p)'
  BY <1>1, <1>3 DEF ControlOK
<1>5. /\ guards' \in SUBSET (RunIds \X Plans)
      /\ executed' \in [Plans -> SUBSET Lanes]
      /\ crashes' \in 0..MaxCrashes
      /\ UNCHANGED env
      /\ "telWrite" \in Locations
      /\ mem[p].run # NoFile => Backed(mem[p].run)
  BY <1>1 DEF IInv, TypeOK, budget, Locations
<1> QED BY <1>1, <1>2, <1>3, <1>4, <1>5, StepKeeps DEF Goto

\* Writing a telemetry file adds the lane, and the process goes on to the next file.
LEMMA WriteTelemetryKeeps == ASSUME IInv, NEW p \in Procs, WriteTelemetry(p) PROVE IInv'
<1> DEFINE m == [mem[p] EXCEPT !.file = "process"]
           label == IF mem[p].file = "outcome" THEN "telRead" ELSE "writeExec"
           new == [torn |-> FALSE, lanes |-> mergedTelemetry(mem[p])]
<1>1. /\ mem[p] \in Memory /\ mem[p].plan \in Plans /\ mem[p].exec \in ExecState
      /\ exec \in ExecState /\ mem[p].op = "record" /\ mem[p].lane \in Lanes
      /\ Goto(p, label)
      /\ UNCHANGED <<inputs, exec, runs, guards, budget, executed>>
      /\ telemetry' = [telemetry EXCEPT ![mem[p].file] = new]
  BY DEF IInv, TypeOK, ControlOK, WriteTelemetry, At
<1>2. new \in [torn : BOOLEAN, lanes : SUBSET Lanes]
  BY <1>1 DEF Memory, mergedTelemetry
<1> HIDE DEF new
<1>3. telemetry' \in [Telemetry -> [torn : BOOLEAN, lanes : SUBSET Lanes]]
  BY <1>1, <1>2 DEF IInv, TypeOK
<1>4. mem' = [mem EXCEPT ![p] = m] /\ mem'[p] = m /\ pc'[p] = label
  BY <1>1 DEF WriteTelemetry, IInv, TypeOK, Goto
<1>5. label \in {"telRead", "writeExec"}
  OBVIOUS
<1> HIDE DEF label
<1>6. /\ m \in Memory /\ m.run = mem[p].run /\ m.plan = mem[p].plan /\ m.op = mem[p].op
      /\ m.exec = mem[p].exec /\ m.lane = mem[p].lane
  BY <1>1 DEF Memory, Telemetry
<1> HIDE DEF m
<1>7. ControlOK(p)'
  BY <1>1, <1>4, <1>5, <1>6 DEF ControlOK
<1>8. /\ guards' \in SUBSET (RunIds \X Plans)
      /\ executed' \in [Plans -> SUBSET Lanes]
      /\ crashes' \in 0..MaxCrashes
      /\ UNCHANGED env
      /\ label \in Locations
      /\ m.run # NoFile => Backed(m.run)
  BY <1>1, <1>5, <1>6 DEF IInv, TypeOK, budget, Locations
<1> QED BY <1>1, <1>3, <1>4, <1>6, <1>7, <1>8, StepKeeps DEF Goto

\* Evaluating the merge guards changes no file.
LEMMA ReadGuardInputsKeeps == ASSUME IInv, NEW p \in Procs, ReadGuardInputs(p) PROVE IInv'
<1> DEFINE seen == evaluateExecutionMergeGuards
           m == [mem[p] EXCEPT !.seen = seen]
<1>1. /\ mem[p] \in Memory /\ mem[p].plan \in Plans /\ exec \in ExecState
      /\ At(p, "guardsRead") /\ Goto(p, "guardsWrite")
      /\ UNCHANGED <<inputs, exec, runs, guards, telemetry, budget, executed>>
  BY DEF IInv, TypeOK, ControlOK, ReadGuardInputs, At
<1>2. seen \in SUBSET (RunIds \X Plans)
  BY GuardsType DEF IInv, TypeOK
<1>3. mem' = [mem EXCEPT ![p] = m] /\ mem'[p] = m /\ pc'[p] = "guardsWrite"
  BY <1>1 DEF ReadGuardInputs, Goto, IInv, TypeOK
<1> HIDE DEF seen
<1>4. /\ m \in Memory /\ m.run = mem[p].run /\ m.plan = mem[p].plan /\ m.op = mem[p].op
      /\ m.lane = mem[p].lane
  BY <1>1, <1>2 DEF Memory
<1> HIDE DEF m
<1>5. ControlOK(p)'
  BY <1>1, <1>3, <1>4 DEF ControlOK, IInv, At
<1>6. (m.run # NoFile => Backed(m.run)) /\ "guardsWrite" \in Locations
  BY <1>4 DEF IInv, Locations
<1> QED BY <1>1, <1>3, <1>4, <1>5, <1>6, ReadKeeps

\* Writing the merge guards publishes what was evaluated.
LEMMA WriteGuardsKeeps == ASSUME IInv, NEW p \in Procs, WriteGuards(p) PROVE IInv'
<1>1. /\ mem[p] \in Memory /\ mem[p].plan \in Plans /\ exec \in ExecState
      /\ At(p, "guardsWrite") /\ Goto(p, "guardsDone")
      /\ UNCHANGED <<inputs, exec, runs, telemetry, mem, budget, executed>>
      /\ guards' = mem[p].seen
  BY DEF IInv, TypeOK, ControlOK, WriteGuards, At
<1>2. guards' \in SUBSET (RunIds \X Plans)
  BY <1>1 DEF Memory
<1>3. mem' = [mem EXCEPT ![p] = mem[p]] /\ mem'[p] = mem[p] /\ pc'[p] = "guardsDone"
  BY <1>1 DEF IInv, TypeOK, Goto
<1>4. ControlOK(p)'
  BY <1>1, <1>3 DEF ControlOK, IInv, At
<1>5. /\ telemetry' \in [Telemetry -> [torn : BOOLEAN, lanes : SUBSET Lanes]]
      /\ executed' \in [Plans -> SUBSET Lanes]
      /\ crashes' \in 0..MaxCrashes
      /\ UNCHANGED env
      /\ "guardsDone" \in Locations
      /\ mem[p].run # NoFile => Backed(mem[p].run)
  BY <1>1 DEF IInv, TypeOK, budget, Locations
<1> QED BY <1>1, <1>2, <1>3, <1>4, <1>5, StepKeeps DEF Goto

\* Returning from a supervisor call forgets every copy of a file.
LEMMA ReturnKeeps == ASSUME IInv, NEW p \in Procs, Return(p) PROVE IInv'
<1> DEFINE op == NextOp(mem[p])
           m == [Blank EXCEPT !.op = op, !.plan = mem[p].plan,
                              !.todo = mem[p].todo, !.lane = mem[p].lane]
           label == IF op = "report" THEN "guardsRead" ELSE "readExec"
<1>1. /\ mem[p] \in Memory /\ mem[p].plan \in Plans /\ exec \in ExecState
      /\ At(p, "guardsDone") /\ mem[p].op # "report" /\ Goto(p, label)
      /\ UNCHANGED <<inputs, exec, runs, guards, telemetry, budget, executed>>
  BY DEF IInv, TypeOK, ControlOK, Return, At
<1>2. mem' = [mem EXCEPT ![p] = m] /\ mem'[p] = m /\ pc'[p] = label
  BY <1>1 DEF Return, Goto, IInv, TypeOK
<1>3. /\ op \in {"update", "record", "finalize", "report"}
      /\ op = "record" => mem[p].op = "update"
      /\ label \in {"guardsRead", "readExec"}
      /\ label = "guardsRead" <=> op = "report"
  BY <1>1 DEF NextOp, Memory
<1> HIDE DEF op, label
<1>4. /\ m \in Memory /\ m.run = NoFile /\ m.plan = mem[p].plan /\ m.op = op
      /\ m.lane = mem[p].lane
  BY <1>1, <1>3, BlankType DEF Memory, Blank
<1> HIDE DEF m
<1>5. mem[p].op = "update" => mem[p].lane \in Lanes
  BY <1>1 DEF IInv, ControlOK, At
<1>6. ControlOK(p)'
  BY <1>1, <1>2, <1>3, <1>4, <1>5 DEF ControlOK
<1>7. label \in Locations
  BY <1>3 DEF Locations
<1> QED BY <1>1, <1>2, <1>4, <1>6, <1>7, ReadKeeps

\* One step of a process keeps the invariant, ...
LEMMA ProcessKeeps ==
    ASSUME IInv, NEW p \in Procs, Step(p) PROVE IInv'
<1>1. CASE Report(p)
  <2>1. (IF exec.status = "completed" THEN "success" ELSE "failure") \in Exits
    BY DEF Exits
  <2> QED BY <1>1, <2>1, EndKeeps DEF Report, budget, IInv, TypeOK
<1> QED BY <1>1, ValidateKeeps, ReadPriorKeeps, WriteReconciledKeeps, WriteStartedKeeps,
           ReadForUpdateKeeps, ReadForRecordKeeps, ReadForFinalizeKeeps,
           WriteExecutionKeeps, ReadRunKeeps, WriteRunKeeps, ReadTelemetryKeeps,
           TruncateTelemetryKeeps, WriteTelemetryKeeps, ReadGuardInputsKeeps,
           WriteGuardsKeeps, ReturnKeeps DEF Step

\* ... and so does the death of one.
LEMMA CrashKeeps == ASSUME IInv, NEW p \in Procs, Crash(p) PROVE IInv'
<1>1. crashes' \in 0..MaxCrashes
  BY DEF Crash, IInv, TypeOK
<1> QED BY <1>1, EndKeeps DEF Crash, Exits

\* The invariant is inductive.
LEMMA NextKeeps == IInv /\ [Next]_vars => IInv'
<1> SUFFICES ASSUME IInv, [Next]_vars PROVE IInv'
  OBVIOUS
<1>1. CASE Next
  BY <1>1, EnvironmentKeeps, InvokeKeeps, ProcessKeeps, CrashKeeps DEF Next
<1>2. CASE UNCHANGED vars
  <2>1. TypeOK'
    BY <1>2 DEF vars, inputs, budget, IInv, TypeOK
  <2> QED BY <1>2, <2>1, UnchangedKeeps DEF vars
<1> QED BY <1>1, <1>2

-----------------------------------------------------------------------------
\* Every artifact and every process-local copy keeps its shape, for any number of
\* overlapping invocations, lanes, plans and crashes, colliding run ids included.
THEOREM TypeCorrect == Spec => []TypeOK
<1>1. IInv => TypeOK
  BY DEF IInv
<1> QED BY <1>1, InitIInv, NextKeeps, PTL DEF Spec

\* Every durable run-state is backed by receipts and has the status of its lanes,
\* for any number of overlapping invocations, lanes, plans and crashes.
THEOREM RunsBacked == Spec => []ReceiptBacked
<1>1. IInv => ReceiptBacked
  BY DEF IInv, ReceiptBacked
<1> QED BY <1>1, InitIInv, NextKeeps, PTL DEF Spec

=============================================================================
