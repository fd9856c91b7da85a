----------------------- MODULE LaneOrchestrationProofs -----------------------
(***************************************************************************)
(* Proofs about LaneOrchestration, for every value of its constants.  The  *)
(* first part needs only what the derivations guarantee of any overrides;  *)
(* the second follows the work behind a completed lane through the results *)
(* file, the lane-state and the copies of it that processes hold.          *)
(***************************************************************************)
EXTENDS LaneOrchestration, TLAPS

USE LaneConstants, LaneSentinels

StatusMap == [AllLanes -> Statuses \union {"absent"}]

Locations == {"idle", "checkScope", "readResults", "readState", "transition",
              "writeResults", "writeWorkset", "writeState", "writeAssignments",
              "readScope", "writeLaunch", "writeScope"}

Exits == {"none", "ok", "refused", "crashed"}

\* What a process has at hand at each point of its control flow.
ControlOK(p) ==
    /\ pc[p] # "idle" => mem[p].ws \in Worksets
    /\ (pc[p] # "idle" /\ mem[p].op = "submit") => mem[p].result \in Results
    /\ pc[p] \in {"checkScope", "writeResults"} => mem[p].op = "submit"
    /\ pc[p] \in {"transition", "writeState", "writeAssignments", "readScope"}
         \union {"writeWorkset", "writeResults"} => mem[p].state \in LaneState
    /\ pc[p] \in {"writeLaunch", "writeScope"} => mem[p].launch \in LaunchPlan

\* The inductive invariant: types, control, and Ordered for lane-state.json and for
\* every copy of it a process may still write back.
IInv ==
    /\ TypeOK
    /\ \A p \in Procs : ControlOK(p)
    /\ laneState # NoFile => Ordered(laneState)
    /\ \A p \in Procs : mem[p].state # NoFile => Ordered(mem[p].state)

-----------------------------------------------------------------------------
(* The derivations. *)

\* A missing file is neither a lane-state nor a launch plan.
LEMMA NoFileType == NoFile \notin LaneState /\ NoFile \notin LaunchPlan
BY DEF NoFile, LaneState, LaunchPlan

\* Dependencies are transitive, because they follow the levels.
LEMMA GatesTransitive ==
    ASSUME NEW ws \in Worksets, NEW l \in ws.lanes, NEW d \in dependencyGates(ws, l)
    PROVE  d \in ws.lanes /\ dependencyGates(ws, d) \subseteq dependencyGates(ws, l)
<1>1. ws.lanes \subseteq Lanes /\ ws.level \in [Lanes -> Levels]
  BY DEF Workset
<1>2. \A k \in Lanes : LevelOrder(ws.level[k]) \in Nat
  BY <1>1 DEF LevelOrder, Levels
<1> QED BY <1>1, <1>2 DEF dependencyGates

\* Whatever the overrides, the statuses deriveLaneState gives out are ordered.
LEMMA DeriveOrdered ==
    ASSUME NEW ws \in Worksets, NEW overrides
    PROVE  Ordered(deriveLaneState(ws, overrides))
<1> DEFINE derived == [l \in ws.lanes |-> determineStatus(ws, overrides, l)]
           state == deriveLaneState(ws, overrides)
<1>1. ws.lanes \subseteq Lanes /\ Sentinel \notin ws.lanes
  BY DEF Workset
<1>2. state.ws = ws
  BY DEF deriveLaneState
<1>3. ASSUME NEW l \in ws.lanes
      PROVE  /\ state.status[l] \in {derived[l], "merge_ready"}
             /\ state.status[l] = "merge_ready" => derived[l] \in {"completed", "merge_ready"}
  <2>1. l \in AllLanes /\ l # Sentinel
    BY <1>1 DEF AllLanes
  <2>2. state.status[l] = IF mergeReady(ws, derived, l) THEN "merge_ready" ELSE derived[l]
    BY <2>1 DEF deriveLaneState
  <2> QED BY <2>2 DEF mergeReady
<1>4. SUFFICES ASSUME NEW l \in ws.lanes, state.status[l] \in {"running"} \union Done,
                      NEW d \in dependencyGates(ws, l)
               PROVE  state.status[d] \in Done
  BY <1>2 DEF Ordered
<1>5. derived[l] # "blocked" /\ derived[l] = determineStatus(ws, overrides, l)
  BY <1>3, <1>4 DEF Done
<1>6. dependenciesSatisfied(ws, overrides, l)
  BY <1>5 DEF determineStatus
<1>7. d \in ws.lanes /\ dependenciesSatisfied(ws, overrides, d)
  BY <1>6, GatesTransitive DEF dependenciesSatisfied
<1>8. /\ overrideOf(ws, overrides, d) \in {"completed", "merge_ready"}
      /\ d \in ws.worker_ready
  BY <1>6 DEF dependenciesSatisfied
<1>9. derived[d] = "completed"
  BY <1>7, <1>8 DEF determineStatus
<1> QED BY <1>3, <1>7, <1>9 DEF Done

\* From well-formed overrides deriveLaneState builds a lane-state.
LEMMA DeriveType ==
    ASSUME NEW ws \in Worksets, NEW overrides \in StatusMap
    PROVE  deriveLaneState(ws, overrides) \in LaneState
<1> DEFINE derived == [l \in ws.lanes |-> determineStatus(ws, overrides, l)]
           status == [l \in AllLanes |->
            IF l = Sentinel THEN (IF ws.blocked_tasks THEN "blocked" ELSE "absent")
            ELSE IF l \notin ws.lanes THEN "absent"
            ELSE IF mergeReady(ws, derived, l) THEN "merge_ready" ELSE derived[l]]
<1>1. \A l \in ws.lanes : l \in AllLanes
  BY DEF Workset, AllLanes
<1>2. \A l \in ws.lanes : determineStatus(ws, overrides, l) \in Statuses
  BY <1>1 DEF determineStatus, overrideOf, StatusMap, Statuses
<1>3. \A l \in ws.lanes : derived[l] \in Statuses
  BY <1>2
<1> HIDE DEF derived
<1>4. status \in StatusMap
  BY <1>3 DEF StatusMap, Statuses
<1>5. deriveLaneState(ws, overrides) = [ws |-> ws, status |-> status]
  BY DEF deriveLaneState, derived
<1> HIDE DEF status
<1> QED BY <1>4, <1>5 DEF LaneState, StatusMap

\* Worker results give well-formed overrides.
LEMMA ResultOverridesType ==
    ASSUME NEW rs \in SUBSET Results
    PROVE  laneStatusOverridesFromWorkerResults(rs) \in StatusMap
<1>1. ASSUME NEW l \in AllLanes, lastResult(rs, l) # {}
      PROVE  statusOfResult(CHOOSE r \in lastResult(rs, l) : TRUE) \in Statuses
  <2>1. PICK r \in Results : r = CHOOSE x \in lastResult(rs, l) : TRUE
    BY <1>1 DEF lastResult
  <2>2. r.completion_status \in {"in_progress", "completed", "blocked"}
    BY DEF WorkerResult
  <2> QED BY <2>1, <2>2 DEF statusOfResult, Statuses
<1> QED BY <1>1 DEF laneStatusOverridesFromWorkerResults, StatusMap

\* A launch plan built from a lane-state is one.
LEMMA LaunchType ==
    ASSUME NEW state \in LaneState, NEW allowed, NEW blocked
    PROVE  buildWorkerLaunchPlan(state, allowed, blocked) \in LaunchPlan
<1>1. state.ws \in Worksets /\ state.ws.surfaces \in [Lanes -> SUBSET Surfaces]
  BY DEF LaneState, Workset
<1>2. assigned(state) \subseteq Lanes
  BY DEF assigned
<1> QED BY <1>1, <1>2 DEF buildWorkerLaunchPlan, LaunchPlan

\* The scope a launch plan declares is a set of surfaces.
LEMMA LaunchScopeType ==
    ASSUME NEW launch \in LaunchPlan
    PROVE  launchPlanScope(launch) \in SUBSET Surfaces
<1>1. launch.ws \in Worksets /\ launch.ws.lanes \subseteq Lanes
      /\ launch.ws.surfaces \in [Lanes -> SUBSET Surfaces]
  BY DEF LaunchPlan, Workset
<1> QED BY <1>1 DEF launchPlanScope

-----------------------------------------------------------------------------
(* The inductive invariant. *)

\* A process that starts has no copy of any file.
LEMMA BlankType == Blank \in Memory /\ Blank.state = NoFile
BY DEF Blank, Memory, AllLanes

\* The invariant holds of an empty .playbook directory.
LEMMA InitIInv == Init => IInv
<1> SUFFICES ASSUME Init PROVE IInv
  OBVIOUS
<1>1. mem \in [Procs -> Memory] /\ \A p \in Procs : mem[p] = Blank /\ pc[p] = "idle"
  BY BlankType DEF Init
<1>2. \A p \in Procs : ControlOK(p)
  BY <1>1 DEF ControlOK
<1>3. /\ pc \in [Procs -> {"idle"}] /\ exit \in [Procs -> {"none"}]
      /\ runs \in 0..MaxRuns
  BY DEF Init
<1>4. TypeOK
  BY <1>1, <1>3 DEF Init, TypeOK
<1> QED BY <1>1, <1>2, <1>4, BlankType DEF IInv, Init

\* What a step of process p must establish for the invariant to be kept.
LEMMA StepKeeps ==
    ASSUME IInv, NEW p \in Procs, NEW label \in Locations, NEW m \in Memory,
           pc' = [pc EXCEPT ![p] = label],
           mem' = [mem EXCEPT ![p] = m],
           m.state # NoFile => Ordered(m.state),
           exit' = exit \/ \E how \in Exits : exit' = [exit EXCEPT ![p] = how],
           runs' \in 0..MaxRuns,
           workset' = workset \/ workset' \in Worksets,
           laneState' = laneState \/ (laneState' \in LaneState /\ Ordered(laneState')),
           results' \in SUBSET Results,
           assignments' \in SUBSET Lanes,
           launchPlan' = launchPlan \/ launchPlan' \in LaunchPlan,
           scope' = scope \/ scope' \in SUBSET Surfaces,
           worked' \in SUBSET (Lanes \X Tasks),
           UNCHANGED blockers,
           ControlOK(p)'
    PROVE  IInv'
<1>1. pc' \in [Procs -> Locations] /\ mem' \in [Procs -> Memory] /\ mem'[p] = m
  BY DEF IInv, TypeOK, Locations
<1>2. exit' \in [Procs -> Exits]
  BY DEF IInv, TypeOK, Exits
<1>3. TypeOK'
  BY <1>1, <1>2 DEF IInv, TypeOK, Locations, Exits
<1>4. ASSUME NEW q \in Procs, q # p
      PROVE  ControlOK(q)' /\ (mem'[q].state # NoFile => Ordered(mem'[q].state))
  <2>1. pc'[q] = pc[q] /\ mem'[q] = mem[q]
    BY <1>4 DEF IInv, TypeOK
  <2> QED BY <2>1 DEF IInv, ControlOK
<1>5. (laneState # NoFile => Ordered(laneState))'
  BY DEF IInv
<1>6. (\A q \in Procs : mem[q].state # NoFile => Ordered(mem[q].state))'
  BY <1>1, <1>4
<1> QED BY <1>3, <1>4, <1>5, <1>6 DEF IInv

\* A step that writes no file and completes no work.
LEMMA ReadKeeps ==
    ASSUME IInv, NEW p \in Procs, NEW label \in Locations, NEW m \in Memory,
           pc' = [pc EXCEPT ![p] = label],
           mem' = [mem EXCEPT ![p] = m],
           m.state # NoFile => Ordered(m.state),
           exit' = exit \/ \E how \in Exits : exit' = [exit EXCEPT ![p] = how],
           runs' \in 0..MaxRuns,
           UNCHANGED <<files, worked>>,
           ControlOK(p)'
    PROVE  IInv'
<1>1. /\ UNCHANGED <<workset, laneState, results, assignments, launchPlan, scope, blockers>>
      /\ UNCHANGED worked
  BY DEF files
<1>2. /\ results' \in SUBSET Results /\ assignments' \in SUBSET Lanes
      /\ worked' \in SUBSET (Lanes \X Tasks)
  BY <1>1 DEF IInv, TypeOK
<1> QED BY <1>1, <1>2, StepKeeps

\* A command that starts knows the workset it has read.
LEMMA BeginKeeps ==
    ASSUME IInv, NEW p \in Procs, NEW label \in Locations, NEW m \in Memory,
           Begin(p, label, m),
           m.ws \in Worksets,
           m.op = "submit" => m.result \in Results,
           label \in {"writeWorkset", "readResults", "readState", "checkScope"},
           label = "checkScope" => m.op = "submit",
           label = "writeWorkset" => m.state \in LaneState,
           m.state # NoFile => Ordered(m.state)
    PROVE  IInv'
<1>1. /\ pc' = [pc EXCEPT ![p] = label] /\ mem' = [mem EXCEPT ![p] = m]
      /\ exit' = [exit EXCEPT ![p] = "none"] /\ UNCHANGED <<files, worked>>
      /\ "none" \in Exits
  BY DEF Begin, Exits
<1>2. runs' \in 0..MaxRuns
  BY DEF Begin, IInv, TypeOK
<1>3. mem'[p] = m /\ pc'[p] = label
  BY <1>1 DEF IInv, TypeOK
<1>4. ControlOK(p)'
  BY <1>3 DEF ControlOK
<1> QED BY <1>1, <1>2, <1>4, ReadKeeps

\* Starting a command keeps the invariant.
LEMMA StartKeeps == ASSUME IInv, NEW p \in Procs, Start(p) PROVE IInv'
<1>0. {"writeWorkset", "readResults", "readState", "checkScope"} \subseteq Locations
  BY DEF Locations
<1>1. ASSUME NEW ws \in Worksets, BeginOrchestrate(p, ws) PROVE IInv'
  <2> DEFINE state == deriveLaneState(ws, NoOverrides)
             m == [Blank EXCEPT !.op = "orchestrate", !.ws = ws, !.state = state]
  <2>1. state \in LaneState /\ Ordered(state)
    BY DeriveType, DeriveOrdered DEF NoOverrides, StatusMap
  <2>2. Begin(p, "writeWorkset", m)
    BY <1>1 DEF BeginOrchestrate
  <2> HIDE DEF state
  <2>3. "orchestrate" \in Commands
    BY <2>2 DEF Begin, Blank
  <2>4. m \in Memory /\ m.ws = ws /\ m.op = "orchestrate" /\ m.state = state
    BY <2>1, <2>3, BlankType DEF Memory, Blank
  <2> HIDE DEF m
  <2> QED BY <1>0, <2>1, <2>2, <2>4, BeginKeeps
<1>2. ASSUME NEW op \in {"lanes", "assign", "launch"}, BeginDerive(p, op) PROVE IInv'
  <2> DEFINE m == [Blank EXCEPT !.op = op, !.ws = workset]
  <2>1. workset \in Worksets /\ Begin(p, "readResults", m)
    BY <1>2 DEF BeginDerive, IInv, TypeOK
  <2>2. op \in Commands
    BY <2>1 DEF Begin, Blank
  <2>3. m \in Memory /\ m.ws = workset /\ m.op = op /\ m.state = NoFile
    BY <2>1, <2>2, BlankType DEF Memory, Blank
  <2> HIDE DEF m
  <2> QED BY <1>0, <2>1, <2>3, BeginKeeps
<1>3. ASSUME NEW op \in {"start", "complete"}, NEW l \in AllLanes, BeginTransition(p, op, l)
      PROVE  IInv'
  <2> DEFINE m == [Blank EXCEPT !.op = op, !.ws = workset, !.lane = l]
  <2>1. workset \in Worksets /\ Begin(p, "readState", m)
    BY <1>3 DEF BeginTransition, IInv, TypeOK
  <2>2. op \in Commands
    BY <2>1 DEF Begin, Blank
  <2>3. m \in Memory /\ m.ws = workset /\ m.op = op /\ m.state = NoFile
    BY <2>1, <2>2, BlankType DEF Memory, Blank
  <2> HIDE DEF m
  <2> QED BY <1>0, <2>1, <2>3, BeginKeeps
<1>4. ASSUME NEW r \in Results, BeginSubmit(p, r) PROVE IInv'
  <2> DEFINE m == [Blank EXCEPT !.op = "submit", !.ws = workset, !.result = r]
  <2>1. workset \in Worksets /\ Begin(p, "checkScope", m)
    BY <1>4 DEF BeginSubmit, IInv, TypeOK
  <2>2. "submit" \in Commands
    BY <2>1 DEF Begin, Blank
  <2>3. m \in Memory /\ m.ws = workset /\ m.op = "submit" /\ m.state = NoFile /\ m.result = r
    BY <2>1, <2>2, BlankType DEF Memory, Blank
  <2> HIDE DEF m
  <2> QED BY <1>0, <2>1, <2>3, BeginKeeps
<1> QED BY <1>1, <1>2, <1>3, <1>4 DEF Start

\* A process that ends, for whatever reason, leaves only its files behind.
LEMMA EndKeeps ==
    ASSUME IInv, NEW p \in Procs, NEW how \in Exits,
           pc' = [pc EXCEPT ![p] = "idle"],
           mem' = [mem EXCEPT ![p] = Blank],
           exit' = [exit EXCEPT ![p] = how],
           runs' \in 0..MaxRuns,
           laneState' = laneState \/ (laneState' \in LaneState /\ Ordered(laneState')),
           assignments' \in SUBSET Lanes,
           scope' = scope \/ scope' \in SUBSET Surfaces,
           UNCHANGED <<workset, results, launchPlan, blockers, worked>>
    PROVE  IInv'
<1>1. ControlOK(p)'
  BY DEF ControlOK, IInv, TypeOK
<1>2. "idle" \in Locations
  BY DEF Locations
<1>3. results' \in SUBSET Results /\ worked' \in SUBSET (Lanes \X Tasks)
  BY DEF IInv, TypeOK
<1> QED BY <1>1, <1>2, <1>3, BlankType, StepKeeps

\* The scope check ends the submission or lets it go on.
LEMMA CheckScopeKeeps == ASSUME IInv, NEW p \in Procs, CheckScope(p) PROVE IInv'
<1>0. /\ mem[p] \in Memory /\ runs \in 0..MaxRuns /\ assignments \in SUBSET Lanes
      /\ ControlOK(p) /\ At(p, "checkScope")
      /\ mem[p].state # NoFile => Ordered(mem[p].state)
  BY DEF IInv, TypeOK, CheckScope
<1>1. CASE withinScope(launchPlan, mem[p].result)
  <2>1. /\ pc' = [pc EXCEPT ![p] = "readResults"] /\ UNCHANGED <<exit, runs, mem>>
        /\ UNCHANGED <<files, worked>> /\ "readResults" \in Locations
    BY <1>1 DEF CheckScope, Goto, Locations
  <2>2. mem' = [mem EXCEPT ![p] = mem[p]] /\ mem'[p] = mem[p] /\ pc'[p] = "readResults"
    BY <2>1 DEF IInv, TypeOK
  <2>3. ControlOK(p)'
    BY <1>0, <2>2 DEF ControlOK, At
  <2> QED BY <1>0, <2>1, <2>2, <2>3, ReadKeeps
<1>2. CASE ~withinScope(launchPlan, mem[p].result)
  BY <1>0, <1>2, EndKeeps DEF CheckScope, End, Exits, files
<1> QED BY <1>1, <1>2

\* What is derived from the worker results is ordered, whatever they are.
LEMMA ReadResultsKeeps == ASSUME IInv, NEW p \in Procs, ReadResults(p) PROVE IInv'
<1> DEFINE rs == mergedResults(mem[p], results)
           state == deriveLaneState(mem[p].ws, laneStatusOverridesFromWorkerResults(rs))
<1>1. /\ mem[p] \in Memory /\ runs \in 0..MaxRuns /\ ControlOK(p) /\ At(p, "readResults")
      /\ mem[p].ws \in Worksets /\ UNCHANGED <<files, worked>>
  BY DEF IInv, TypeOK, ReadResults, ControlOK, At
<1>2. rs \in SUBSET Results
  BY <1>1 DEF IInv, TypeOK, ControlOK, At, mergedResults
<1>3. state \in LaneState /\ Ordered(state)
  <2> HIDE DEF rs
  <2> QED BY <1>1, <1>2, ResultOverridesType, DeriveType, DeriveOrdered
<1>4. CASE mem[p].op \in {"start", "complete"}
  <2> DEFINE m == [mem[p] EXCEPT !.state = state]
  <2>1. /\ pc' = [pc EXCEPT ![p] = "transition"] /\ mem' = [mem EXCEPT ![p] = m]
        /\ UNCHANGED <<exit, runs>> /\ "transition" \in Locations
    BY <1>4 DEF ReadResults, Goto, Locations
  <2> HIDE DEF state
  <2>2. m \in Memory /\ m.ws = mem[p].ws /\ m.op = mem[p].op /\ m.state = state
        /\ m.result = mem[p].result
    BY <1>1, <1>3 DEF Memory
  <2> HIDE DEF m
  <2>3. mem'[p] = m /\ pc'[p] = "transition"
    BY <2>1 DEF IInv, TypeOK
  <2>4. ControlOK(p)'
    BY <1>1, <1>3, <1>4, <2>2, <2>3 DEF ControlOK
  <2> QED BY <1>1, <1>3, <2>1, <2>2, <2>4, ReadKeeps
<1>5. CASE mem[p].op \notin {"start", "complete"}
  <2> DEFINE m == [mem[p] EXCEPT !.state = state, !.results = rs]
             label == IF mem[p].op = "submit" THEN "writeResults" ELSE "writeState"
  <2>a. mem' = [mem EXCEPT ![p] = m] /\ Goto(p, label)
    <3>1. /\ mem' = [mem EXCEPT ![p].state = state, ![p].results = rs]
          /\ Goto(p, label)
      BY <1>5 DEF ReadResults
    <3> HIDE DEF state, rs, label
    <3> QED BY <3>1 DEF IInv, TypeOK
  <2>b. /\ label \in {"writeResults", "writeState"} /\ label \in Locations
        /\ label = "writeResults" => mem[p].op = "submit"
    BY DEF Locations
  <2>1. pc' = [pc EXCEPT ![p] = label] /\ UNCHANGED <<exit, runs>>
    BY <2>a DEF Goto
  <2> HIDE DEF state, rs, label
  <2>2. m \in Memory /\ m.ws = mem[p].ws /\ m.op = mem[p].op /\ m.state = state
        /\ m.result = mem[p].result
    BY <1>1, <1>2, <1>3 DEF Memory
  <2> HIDE DEF m
  <2>3. mem'[p] = m /\ pc'[p] = label
    BY <2>a, <2>1 DEF IInv, TypeOK
  <2>4. ControlOK(p)'
    BY <1>1, <1>3, <2>b, <2>2, <2>3 DEF ControlOK, At
  <2> QED BY <1>1, <1>3, <2>a, <2>b, <2>1, <2>2, <2>4, ReadKeeps
<1> QED BY <1>4, <1>5

\* The copy of lane-state.json a transition works on is as ordered as the file.
LEMMA ReadStateKeeps == ASSUME IInv, NEW p \in Procs, ReadState(p) PROVE IInv'
<1> DEFINE m == [mem[p] EXCEPT !.state = laneState]
           label == IF laneState = NoFile THEN "readResults" ELSE "transition"
<1>1. /\ mem[p] \in Memory /\ runs \in 0..MaxRuns /\ ControlOK(p) /\ At(p, "readState")
      /\ mem[p].ws \in Worksets /\ UNCHANGED <<files, worked>>
      /\ laneState \in LaneState \union {NoFile}
      /\ laneState # NoFile => Ordered(laneState)
  BY DEF IInv, TypeOK, ReadState, ControlOK, At
<1>2. /\ pc' = [pc EXCEPT ![p] = label] /\ mem' = [mem EXCEPT ![p] = m]
      /\ UNCHANGED <<exit, runs>> /\ label \in {"readResults", "transition"}
      /\ label = "transition" => laneState \in LaneState
      /\ label \in Locations
  BY <1>1 DEF ReadState, Goto, Locations
<1>3. /\ m \in Memory /\ m.ws = mem[p].ws /\ m.op = mem[p].op /\ m.state = laneState
      /\ m.result = mem[p].result
  BY <1>1 DEF Memory
<1> HIDE DEF m, label
<1>4. mem'[p] = m /\ pc'[p] = label
  BY <1>2 DEF IInv, TypeOK
<1>5. ControlOK(p)'
  BY <1>1, <1>2, <1>3, <1>4 DEF ControlOK, At
<1> QED BY <1>1, <1>2, <1>3, <1>5, ReadKeeps

\* A transition derives the lane-state anew, or leaves the copy as it is.
LEMMA TransitionKeeps == ASSUME IInv, NEW p \in Procs, Transition(p) PROVE IInv'
<1> DEFINE n == mem[p]
           overrides == [n.state.status EXCEPT ![n.lane] =
                            IF n.op = "start" THEN "running" ELSE "completed"]
           next == transitioned(n.ws, n.state, n.op, n.lane)
           goal == IF n.op = "start" THEN {"running"} ELSE {"completed", "merge_ready"}
           allowed == transitionAllowed(n.state, n.op, n.lane)
           m == IF allowed THEN [n EXCEPT !.state = next, !.applied = next.status[n.lane] \in goal]
                ELSE [n EXCEPT !.applied = FALSE]
<1>1. /\ n \in Memory /\ runs \in 0..MaxRuns /\ ControlOK(p) /\ At(p, "transition")
      /\ n.ws \in Worksets /\ n.state \in LaneState /\ Ordered(n.state)
      /\ UNCHANGED files
  BY NoFileType DEF IInv, TypeOK, Transition, ControlOK, At
<1>2. overrides \in StatusMap
  BY <1>1 DEF LaneState, StatusMap, Statuses, Memory
<1>3. next \in LaneState /\ Ordered(next)
  BY <1>1, <1>2, DeriveType, DeriveOrdered DEF transitioned
<1>a. /\ pc' = [pc EXCEPT ![p] = "writeState"]
      /\ UNCHANGED <<exit, runs>> /\ "writeState" \in Locations
  BY DEF Transition, Goto, Locations
<1>b. mem' = [mem EXCEPT ![p] = m]
  <2> DEFINE done == next.status[n.lane] \in goal
  <2>1. CASE allowed
    <3>1. mem' = [mem EXCEPT ![p].state = next, ![p].applied = done]
      BY <2>1 DEF Transition
    <3>2. m = [n EXCEPT !.state = next, !.applied = done]
      BY <2>1
    <3> HIDE DEF next, done, m
    <3> QED BY <3>1, <3>2 DEF IInv, TypeOK
  <2>2. CASE ~allowed
    BY <2>2 DEF Transition
  <2> QED BY <2>1, <2>2
<1>5. worked' \in SUBSET (Lanes \X Tasks)
  <2>1. n.lane \in n.ws.lanes => n.lane \in Lanes /\ n.ws.tasks[n.lane] \in Tasks
    BY <1>1 DEF Workset
  <2>2. worked' = worked \/ (n.lane \in n.ws.lanes
                             /\ worked' = worked \union {<<n.lane, n.ws.tasks[n.lane]>>})
    BY DEF Transition
  <2> QED BY <2>1, <2>2 DEF IInv, TypeOK
<1> HIDE DEF next, allowed
<1>6. /\ m \in Memory /\ m.ws = n.ws /\ m.op = n.op /\ m.result = n.result
      /\ m.state \in LaneState /\ Ordered(m.state)
  <2> DEFINE done == next.status[n.lane] \in goal
  <2>0. done \in BOOLEAN
    OBVIOUS
  <2> HIDE DEF done
  <2>1. CASE allowed
    <3>1. m = [n EXCEPT !.state = next, !.applied = done]
      BY <2>1 DEF done
    <3> HIDE DEF m
    <3> QED BY <1>1, <1>3, <2>0, <3>1 DEF Memory
  <2>2. CASE ~allowed
    BY <1>1, <2>2 DEF Memory
  <2> QED BY <2>1, <2>2
<1> HIDE DEF m
<1>7. mem'[p] = m /\ pc'[p] = "writeState"
  BY <1>a, <1>b DEF IInv, TypeOK
<1>8. ControlOK(p)'
  BY <1>1, <1>6, <1>7 DEF ControlOK, At
<1>9. /\ UNCHANGED <<workset, laneState, results, assignments, launchPlan, scope, blockers>>
      /\ results' \in SUBSET Results /\ assignments' \in SUBSET Lanes
  BY <1>1 DEF files, IInv, TypeOK
<1> QED BY <1>1, <1>a, <1>b, <1>5, <1>6, <1>8, <1>9, StepKeeps

\* What a process knows when it is about to write.
LEMMA WriterKnows ==
    ASSUME IInv, NEW p \in Procs, ~At(p, "idle")
    PROVE  /\ mem[p] \in Memory /\ runs \in 0..MaxRuns /\ ControlOK(p)
           /\ mem[p].ws \in Worksets
           /\ mem[p].state # NoFile => Ordered(mem[p].state)
           /\ mem = [mem EXCEPT ![p] = mem[p]]
           /\ \A label : pc' = [pc EXCEPT ![p] = label] => pc'[p] = label
           /\ results \in SUBSET Results /\ assignments \in SUBSET Lanes
           /\ worked \in SUBSET (Lanes \X Tasks)
BY DEF IInv, TypeOK, ControlOK, At

\* The results written are results, and completed ones count as work.
LEMMA WriteResultsKeeps == ASSUME IInv, NEW p \in Procs, WriteResults(p) PROVE IInv'
<1>1. At(p, "writeResults") /\ ~At(p, "idle")
  BY DEF WriteResults, At
<1>2. /\ pc' = [pc EXCEPT ![p] = "writeState"] /\ UNCHANGED <<exit, runs, mem>>
      /\ results' = mem[p].results /\ "writeState" \in Locations
      /\ UNCHANGED <<workset, laneState, assignments, launchPlan, scope, blockers>>
  BY DEF WriteResults, Goto, Locations
<1>3. mem[p].result \in Results /\ mem[p].results \in SUBSET Results /\ mem[p].state \in LaneState
  BY <1>1, WriterKnows DEF ControlOK, At, Memory
<1>4. worked' \in SUBSET (Lanes \X Tasks)
  <2>1. mem[p].result.lane \in Lanes /\ mem[p].result.tasks \in Tasks
    BY <1>3 DEF WorkerResult
  <2> QED BY <1>1, <2>1, WriterKnows DEF WriteResults
<1>5. ControlOK(p)'
  BY <1>1, <1>2, <1>3, WriterKnows DEF ControlOK, At
<1> QED BY <1>1, <1>2, <1>3, <1>4, <1>5, WriterKnows, StepKeeps

\* `orchestrate` writes the workset it has compiled.
LEMMA WriteWorksetKeeps == ASSUME IInv, NEW p \in Procs, WriteWorkset(p) PROVE IInv'
<1>1. At(p, "writeWorkset") /\ ~At(p, "idle")
  BY DEF WriteWorkset, At
<1>2. /\ pc' = [pc EXCEPT ![p] = "writeState"] /\ UNCHANGED <<exit, runs, mem>>
      /\ workset' = mem[p].ws /\ "writeState" \in Locations
      /\ UNCHANGED <<laneState, results, assignments, launchPlan, scope, blockers>>
      /\ UNCHANGED worked
  BY DEF WriteWorkset, Goto, Locations
<1>3. ControlOK(p)'
  BY <1>1, <1>2, WriterKnows DEF ControlOK, At
<1> QED BY <1>1, <1>2, <1>3, WriterKnows, StepKeeps

\* The lane-state written is the ordered copy the process holds.
LEMMA WriteStateKeeps == ASSUME IInv, NEW p \in Procs, WriteState(p) PROVE IInv'
<1>1. At(p, "writeState") /\ ~At(p, "idle")
  BY DEF WriteState, At
<1>2. mem[p].state \in LaneState /\ Ordered(mem[p].state)
      /\ (mem[p].op = "submit" => mem[p].result \in Results)
  BY <1>1, WriterKnows, NoFileType DEF ControlOK, At
<1>3. /\ laneState' \in LaneState /\ Ordered(laneState')
      /\ UNCHANGED <<workset, results, assignments, launchPlan, scope, blockers, worked>>
  BY <1>1, <1>2, WriterKnows DEF WriteState
<1>4. CASE mem[p].op \in {"assign", "launch"}
  <2>1. /\ pc' = [pc EXCEPT ![p] = "writeAssignments"] /\ UNCHANGED <<exit, runs, mem>>
        /\ "writeAssignments" \in Locations
    BY <1>4 DEF WriteState, Goto, Locations
  <2>2. ControlOK(p)'
    BY <1>1, <1>2, <1>4, <2>1, WriterKnows DEF ControlOK, At
  <2> QED BY <1>1, <1>3, <2>1, <2>2, WriterKnows, StepKeeps
<1>5. CASE mem[p].op \notin {"assign", "launch"}
  <2> DEFINE how == IF mem[p].applied THEN "ok" ELSE "refused"
  <2>1. End(p, how) /\ how \in Exits
    BY <1>5 DEF WriteState, Exits
  <2> HIDE DEF how
  <2> QED BY <1>1, <1>3, <2>1, WriterKnows, EndKeeps DEF End
<1> QED BY <1>4, <1>5

\* Assignments name lanes.
LEMMA WriteAssignmentsKeeps == ASSUME IInv, NEW p \in Procs, WriteAssignments(p) PROVE IInv'
<1>1. At(p, "writeAssignments") /\ ~At(p, "idle")
  BY DEF WriteAssignments, At
<1>2. /\ assignments' \in SUBSET Lanes
      /\ UNCHANGED <<workset, laneState, results, launchPlan, scope, blockers>>
      /\ UNCHANGED worked
  BY DEF WriteAssignments, assigned
<1>3. CASE mem[p].op = "launch"
  <2>1. /\ pc' = [pc EXCEPT ![p] = "readScope"] /\ UNCHANGED <<exit, runs, mem>>
        /\ "readScope" \in Locations
    BY <1>3 DEF WriteAssignments, Goto, Locations
  <2>2. ControlOK(p)'
    BY <1>1, <1>3, <2>1, WriterKnows DEF ControlOK, At
  <2> QED BY <1>1, <1>2, <2>1, <2>2, WriterKnows, StepKeeps
<1>4. CASE mem[p].op # "launch"
  <2>1. End(p, "ok") /\ "ok" \in Exits
    BY <1>4 DEF WriteAssignments, Exits
  <2> QED BY <1>1, <1>2, <2>1, WriterKnows, EndKeeps DEF End
<1> QED BY <1>3, <1>4

\* The launch plan is built in memory ...
LEMMA ReadScopeKeeps == ASSUME IInv, NEW p \in Procs, ReadScope(p) PROVE IInv'
<1> DEFINE launch == buildWorkerLaunchPlan(mem[p].state, scope, blockers)
           m == [mem[p] EXCEPT !.launch = launch]
<1>1. At(p, "readScope") /\ ~At(p, "idle")
  BY DEF ReadScope, At
<1>2. mem[p].state \in LaneState
  BY <1>1, WriterKnows DEF ControlOK, At
<1>3. launch \in LaunchPlan
  BY <1>2, LaunchType
<1>4. /\ pc' = [pc EXCEPT ![p] = "writeLaunch"] /\ UNCHANGED <<exit, runs>>
      /\ mem' = [mem EXCEPT ![p] = m] /\ "writeLaunch" \in Locations
      /\ UNCHANGED <<files, worked>>
  BY DEF ReadScope, Goto, Locations
<1> HIDE DEF launch
<1>5. /\ m \in Memory /\ m.ws = mem[p].ws /\ m.op = mem[p].op /\ m.state = mem[p].state
      /\ m.result = mem[p].result /\ m.launch = launch
  BY <1>1, <1>3, WriterKnows DEF Memory
<1> HIDE DEF m
<1>6. mem'[p] = m /\ pc'[p] = "writeLaunch"
  BY <1>4 DEF IInv, TypeOK
<1>7. ControlOK(p)'
  BY <1>1, <1>2, <1>3, <1>5, <1>6, WriterKnows DEF ControlOK, At
<1> QED BY <1>1, <1>4, <1>5, <1>7, WriterKnows, ReadKeeps

\* ... written ...
LEMMA WriteLaunchPlanKeeps == ASSUME IInv, NEW p \in Procs, WriteLaunchPlan(p) PROVE IInv'
<1>1. At(p, "writeLaunch") /\ ~At(p, "idle")
  BY DEF WriteLaunchPlan, At
<1>2. /\ pc' = [pc EXCEPT ![p] = "writeScope"] /\ UNCHANGED <<exit, runs, mem>>
      /\ launchPlan' = mem[p].launch /\ "writeScope" \in Locations
      /\ UNCHANGED <<workset, laneState, results, assignments, scope, blockers>>
      /\ UNCHANGED worked
  BY DEF WriteLaunchPlan, Goto, Locations
<1>3. mem[p].launch \in LaunchPlan
  BY <1>1, WriterKnows DEF ControlOK, At
<1>4. ControlOK(p)'
  BY <1>1, <1>2, <1>3, WriterKnows DEF ControlOK, At
<1> QED BY <1>1, <1>2, <1>3, <1>4, WriterKnows, StepKeeps

\* ... and followed by the change scope made from it.
LEMMA WriteScopeKeeps == ASSUME IInv, NEW p \in Procs, WriteScope(p) PROVE IInv'
<1>1. At(p, "writeScope") /\ ~At(p, "idle")
  BY DEF WriteScope, At
<1>2. scope' \in SUBSET Surfaces
  <2>1. mem[p].launch \in LaunchPlan
    BY <1>1, WriterKnows DEF ControlOK, At
  <2> QED BY <2>1, LaunchScopeType DEF WriteScope
<1>3. /\ UNCHANGED <<workset, laneState, results, assignments, launchPlan, blockers>>
      /\ UNCHANGED worked
      /\ End(p, "ok") /\ "ok" \in Exits
  BY DEF WriteScope, Exits
<1> QED BY <1>1, <1>2, <1>3, WriterKnows, EndKeeps DEF End

\* A process that is killed leaves its files as they are.
LEMMA CrashKeeps == ASSUME IInv, NEW p \in Procs, Crash(p) PROVE IInv'
<1>1. /\ UNCHANGED <<workset, laneState, results, assignments, launchPlan, scope, blockers>>
      /\ UNCHANGED worked
      /\ ~At(p, "idle") /\ "crashed" \in Exits
  BY DEF Crash, files, Exits
<1>2. runs' \in 0..MaxRuns
  BY DEF Crash, IInv, TypeOK
<1> QED BY <1>1, <1>2, WriterKnows, EndKeeps DEF Crash

\* A step that touches neither lanes nor processes keeps the invariant.
LEMMA UnchangedKeeps ==
    ASSUME IInv, TypeOK', UNCHANGED <<laneState, pc, mem>>
    PROVE  IInv'
<1>1. (\A p \in Procs : ControlOK(p))'
  BY DEF IInv, ControlOK
<1>2. (laneState # NoFile => Ordered(laneState))'
  BY DEF IInv
<1>3. (\A p \in Procs : mem[p].state # NoFile => Ordered(mem[p].state))'
  BY DEF IInv
<1> QED BY <1>1, <1>2, <1>3 DEF IInv

\* The invariant is inductive.
LEMMA NextKeeps == IInv /\ [Next]_vars => IInv'
<1> SUFFICES ASSUME IInv, [Next]_vars PROVE IInv'
  OBVIOUS
<1>1. ASSUME NEW p \in Procs, Step(p) PROVE IInv'
  BY <1>1, CheckScopeKeeps, ReadResultsKeeps, ReadStateKeeps, TransitionKeeps,
     WriteResultsKeeps, WriteWorksetKeeps, WriteStateKeeps, WriteAssignmentsKeeps,
     ReadScopeKeeps, WriteLaunchPlanKeeps, WriteScopeKeeps DEF Step
<1>2. ASSUME NEW p \in Procs, Start(p) \/ Crash(p) PROVE IInv'
  BY <1>2, StartKeeps, CrashKeeps
<1>3. ASSUME NEW s \in Scopes, DeclareScope(s) PROVE IInv'
  <2>1. TypeOK'
    BY <1>3 DEF DeclareScope, IInv, TypeOK
  <2> QED BY <1>3, <2>1, UnchangedKeeps DEF DeclareScope
<1>4. CASE Verify
  <2>1. TypeOK'
    BY <1>4 DEF Verify, IInv, TypeOK
  <2> QED BY <1>4, <2>1, UnchangedKeeps DEF Verify
<1>5. CASE UNCHANGED vars
  <2>1. TypeOK'
    BY <1>5 DEF vars, files, IInv, TypeOK
  <2> QED BY <1>5, <2>1, UnchangedKeeps DEF vars, files
<1> QED BY <1>1, <1>2, <1>3, <1>4, <1>5 DEF Next

-----------------------------------------------------------------------------
\* Every orchestration artifact keeps its shape, for any number of overlapping
\* commands and crashes.
THEOREM LaneTypes == Spec => []TypeOK
<1>1. IInv => TypeOK
  BY DEF IInv
<1> QED BY <1>1, InitIInv, NextKeeps, PTL DEF Spec

\* No lane runs or is complete in lane-state.json before the lanes it depends on, for
\* any worksets, worker results, overlapping commands and crashes.
THEOREM LanesOrdered == Spec => []DependencyOrder
<1>1. IInv => DependencyOrder
  BY DEF IInv, DependencyOrder
<1> QED BY <1>1, InitIInv, NextKeeps, PTL DEF Spec

-----------------------------------------------------------------------------
(* Completion means work.  Lane ids are reused from workset to workset, so *)
(* this holds only while a lane id stands for the same tasks in each.      *)

LanesKeepTasks ==
    \A a, b \in Worksets : \A l \in a.lanes \intersect b.lanes : a.tasks[l] = b.tasks[l]

\* In lane-state s a lane is complete only for work in w, merge ready only if all lanes are
\* complete, and ready only if the lanes it depends on are.
Backed(s, w) ==
    /\ \A l \in Lanes : s.status[l] \in Done => l \in s.ws.lanes /\ <<l, s.ws.tasks[l]>> \in w
    /\ (\E l \in s.ws.lanes : s.status[l] = "merge_ready")
         => \A l \in s.ws.lanes : s.status[l] \in Done
    /\ \A l \in Lanes : s.status[l] = "ready" =>
         l \in s.ws.lanes /\ \A d \in dependencyGates(s.ws, l) : s.status[d] \in Done

\* A worker result is for the tasks of its lane, and a completed one is work in w.
ResultBacked(r, w) ==
    /\ \E ws \in Worksets : validSubmission(ws, r)
    /\ r.completion_status = "completed" => <<r.lane, r.tasks>> \in w

LaunchBacked(launch, w) ==
    \A l \in launch.eligible : \A d \in dependencyGates(launch.ws, l) :
        <<d, launch.ws.tasks[d]>> \in w

\* The work a submission is about to put on record.
Credit(label, m) ==
    IF label = "writeResults" /\ m.result.completion_status = "completed"
    THEN {<<m.result.lane, m.result.tasks>>} ELSE {}

\* What a process at a label holds in its memory m.
ProcBacked(label, m, w) ==
    /\ m.state # NoFile => Backed(m.state, w \union Credit(label, m))
    /\ label = "writeResults" =>
         \A r \in m.results : ResultBacked(r, w \union Credit(label, m))
    /\ label # "idle" /\ m.op = "submit" => validSubmission(m.ws, m.result)
    /\ label \in {"readState", "transition"} => m.op \in {"start", "complete"}
    /\ m.launch # NoFile => LaunchBacked(m.launch, w)

WInv ==
    /\ laneState # NoFile => Backed(laneState, worked)
    /\ \A r \in results : ResultBacked(r, worked)
    /\ launchPlan # NoFile => LaunchBacked(launchPlan, worked)
    /\ \A p \in Procs : ProcBacked(pc[p], mem[p], worked)

\* More work on record takes nothing away.
LEMMA BackedMonotone ==
    ASSUME NEW w, NEW v, w \subseteq v
    PROVE  /\ \A s : Backed(s, w) => Backed(s, v)
           /\ \A r : ResultBacked(r, w) => ResultBacked(r, v)
           /\ \A launch : LaunchBacked(launch, w) => LaunchBacked(launch, v)
           /\ \A label, m : ProcBacked(label, m, w) => ProcBacked(label, m, v)
<1>1. ASSUME NEW x, NEW y, x \subseteq y
      PROVE  /\ \A s : Backed(s, x) => Backed(s, y)
             /\ \A r : ResultBacked(r, x) => ResultBacked(r, y)
             /\ \A launch : LaunchBacked(launch, x) => LaunchBacked(launch, y)
  BY <1>1 DEF Backed, ResultBacked, LaunchBacked
<1>2. ASSUME NEW label, NEW m, ProcBacked(label, m, w)
      PROVE  ProcBacked(label, m, v)
  <2> DEFINE c == Credit(label, m)
  <2>1. (w \union c) \subseteq (v \union c)
    OBVIOUS
  <2>2. /\ m.state # NoFile => Backed(m.state, w \union c)
        /\ label = "writeResults" => \A r \in m.results : ResultBacked(r, w \union c)
        /\ label # "idle" /\ m.op = "submit" => validSubmission(m.ws, m.result)
        /\ label \in {"readState", "transition"} => m.op \in {"start", "complete"}
        /\ m.launch # NoFile => LaunchBacked(m.launch, w)
    BY <1>2 DEF ProcBacked
  <2> HIDE DEF c
  <2>3. /\ m.state # NoFile => Backed(m.state, v \union c)
        /\ label = "writeResults" => \A r \in m.results : ResultBacked(r, v \union c)
    BY <1>1, <2>1, <2>2
  <2>4. m.launch # NoFile => LaunchBacked(m.launch, v)
    BY <1>1, <2>2
  <2> QED BY <2>2, <2>3, <2>4 DEF ProcBacked, c
<1> QED BY <1>1, <1>2

\* What deriveLaneState makes of overrides that are backed by work is backed by it.
LEMMA DeriveBacked ==
    ASSUME NEW ws \in Worksets, NEW overrides \in StatusMap, NEW w,
           \A l \in ws.lanes : overrides[l] \in Done => <<l, ws.tasks[l]>> \in w
    PROVE  Backed(deriveLaneState(ws, overrides), w)
<1> DEFINE derived == [l \in ws.lanes |-> determineStatus(ws, overrides, l)]
           state == deriveLaneState(ws, overrides)
<1>1. ws.lanes \subseteq Lanes /\ Sentinel \notin ws.lanes /\ Lanes \subseteq AllLanes
  BY DEF Workset, AllLanes
<1>2. state.ws = ws
  BY DEF deriveLaneState
<1>3. ASSUME NEW l \in Lanes
      PROVE  state.status[l] = IF l \notin ws.lanes THEN "absent"
                               ELSE IF mergeReady(ws, derived, l) THEN "merge_ready"
                               ELSE derived[l]
  <2>1. l \in AllLanes /\ l # Sentinel
    BY <1>1
  <2> QED BY <2>1 DEF deriveLaneState
<1>4. ASSUME NEW l \in ws.lanes, overrideOf(ws, overrides, l) \in Done
      PROVE  <<l, ws.tasks[l]>> \in w
  BY <1>4 DEF overrideOf, Done
<1>5. ASSUME NEW l \in ws.lanes, derived[l] \in Done
      PROVE  overrideOf(ws, overrides, l) \in Done
  BY <1>5 DEF determineStatus, Done
<1>6. ASSUME NEW l \in Lanes, state.status[l] \in Done
      PROVE  l \in ws.lanes /\ derived[l] \in Done /\ <<l, ws.tasks[l]>> \in w
  <2>1. l \in ws.lanes
    BY <1>3, <1>6 DEF Done
  <2>2. derived[l] \in Done
    BY <1>3, <1>6, <2>1 DEF mergeReady, Done
  <2> QED BY <1>4, <1>5, <2>1, <2>2
<1>7. ASSUME NEW l \in ws.lanes, state.status[l] = "merge_ready", NEW k \in ws.lanes
      PROVE  state.status[k] \in Done
  <2>1. derived[l] # "merge_ready"
    BY DEF determineStatus
  <2>2. mergeReady(ws, derived, l)
    BY <1>1, <1>3, <1>7, <2>1
  <2>3. derived[k] = "completed"
    BY <2>2 DEF mergeReady
  <2> QED BY <1>1, <1>3, <2>3 DEF Done
<1>8. ASSUME NEW l \in Lanes, state.status[l] = "ready"
      PROVE  l \in ws.lanes /\ \A d \in dependencyGates(ws, l) : state.status[d] \in Done
  <2>1. l \in ws.lanes /\ derived[l] = "ready"
    BY <1>3, <1>8
  <2>2. dependenciesSatisfied(ws, overrides, l)
    BY <2>1 DEF determineStatus
  <2>3. ASSUME NEW d \in dependencyGates(ws, l)
        PROVE  state.status[d] \in Done
    <3>1. d \in ws.lanes /\ dependenciesSatisfied(ws, overrides, d)
      BY <2>1, <2>2, GatesTransitive DEF dependenciesSatisfied
    <3>2. /\ overrideOf(ws, overrides, d) \in {"completed", "merge_ready"}
          /\ d \in ws.worker_ready
      BY <2>2 DEF dependenciesSatisfied
    <3>3. derived[d] = "completed"
      BY <3>1, <3>2 DEF determineStatus
    <3> QED BY <1>1, <1>3, <3>1, <3>3 DEF Done
  <2> QED BY <2>1, <2>3
<1> HIDE DEF state, derived
<1>9. Backed(state, w)
  BY <1>1, <1>2, <1>6, <1>7, <1>8 DEF Backed
<1> QED BY <1>9 DEF state

\* Worker results that are backed give overrides that are.
LEMMA ResultOverridesBacked ==
    ASSUME LanesKeepTasks, NEW rs \in SUBSET Results, NEW w, \A r \in rs : ResultBacked(r, w),
           NEW ws \in Worksets
    PROVE  \A l \in ws.lanes : laneStatusOverridesFromWorkerResults(rs)[l] \in Done =>
             <<l, ws.tasks[l]>> \in w
<1> SUFFICES ASSUME NEW l \in ws.lanes, laneStatusOverridesFromWorkerResults(rs)[l] \in Done
             PROVE  <<l, ws.tasks[l]>> \in w
  OBVIOUS
<1>1. l \in AllLanes
  BY DEF Workset, AllLanes
<1> DEFINE r == CHOOSE x \in lastResult(rs, l) : TRUE
<1>2. lastResult(rs, l) # {} /\ statusOfResult(r) \in Done
  BY <1>1 DEF laneStatusOverridesFromWorkerResults, Done
<1>3. r \in lastResult(rs, l)
  BY <1>2
<1>4. r \in rs /\ r.lane = l
  BY <1>3 DEF lastResult
<1> HIDE DEF r
<1>5. r.completion_status = "completed"
  <2>1. r.completion_status \in {"in_progress", "completed", "blocked"}
    BY <1>4 DEF WorkerResult
  <2> QED BY <1>2, <2>1 DEF statusOfResult, Done
<1>6. <<l, r.tasks>> \in w /\ \E a \in Worksets : l \in a.lanes /\ r.tasks = a.tasks[l]
  BY <1>4, <1>5 DEF ResultBacked, validSubmission
<1> QED BY <1>6 DEF LanesKeepTasks

\* So do the statuses of a lane-state that is backed, of whatever workset it is.
LEMMA StateOverridesBacked ==
    ASSUME LanesKeepTasks, NEW s \in LaneState, NEW w, Backed(s, w), NEW ws \in Worksets
    PROVE  \A l \in ws.lanes : s.status[l] \in Done => <<l, ws.tasks[l]>> \in w
<1> SUFFICES ASSUME NEW l \in ws.lanes, s.status[l] \in Done
             PROVE  <<l, ws.tasks[l]>> \in w
  OBVIOUS
<1>1. s.ws \in Worksets /\ l \in Lanes
  BY DEF LaneState, Workset
<1>2. l \in s.ws.lanes /\ <<l, s.ws.tasks[l]>> \in w
  BY <1>1 DEF Backed
<1> QED BY <1>1, <1>2 DEF LanesKeepTasks

\* What a step of process p must establish.
LEMMA WorkKeeps ==
    ASSUME IInv, WInv, NEW p \in Procs, NEW label, NEW m,
           pc' = [pc EXCEPT ![p] = label], mem' = [mem EXCEPT ![p] = m],
           worked \subseteq worked',
           ProcBacked(label, m, worked'),
           laneState' = laneState \/ Backed(laneState', worked'),
           results' = results \/ \A r \in results' : ResultBacked(r, worked'),
           launchPlan' = launchPlan \/ LaunchBacked(launchPlan', worked')
    PROVE  WInv'
<1>1. \A q \in Procs : /\ pc'[q] = IF q = p THEN label ELSE pc[q]
                       /\ mem'[q] = IF q = p THEN m ELSE mem[q]
  BY DEF IInv, TypeOK
<1>2. \A q \in Procs : ProcBacked(pc'[q], mem'[q], worked')
  BY <1>1, BackedMonotone DEF WInv
<1>3. laneState' # NoFile => Backed(laneState', worked')
  BY BackedMonotone DEF WInv
<1>4. \A r \in results' : ResultBacked(r, worked')
  BY BackedMonotone DEF WInv
<1>5. launchPlan' # NoFile => LaunchBacked(launchPlan', worked')
  BY BackedMonotone DEF WInv
<1> QED BY <1>2, <1>3, <1>4, <1>5 DEF WInv

\* A process that ends holds nothing.
LEMMA BlankBacked == \A w : ProcBacked("idle", Blank, w)
BY DEF ProcBacked, Blank

LEMMA EndBacked ==
    ASSUME IInv, WInv, NEW p \in Procs,
           pc' = [pc EXCEPT ![p] = "idle"], mem' = [mem EXCEPT ![p] = Blank],
           worked' = worked, results' = results,
           laneState' = laneState \/ Backed(laneState', worked'), launchPlan' = launchPlan
    PROVE  WInv'
BY BlankBacked, WorkKeeps

\* A process that goes on with the memory it has, neither reading nor writing the results.
LEMMA GoOnBacked ==
    ASSUME IInv, WInv, NEW p \in Procs, NEW label, pc' = [pc EXCEPT ![p] = label],
           mem' = mem, worked' = worked, results' = results,
           pc[p] \notin {"idle", "writeResults"},
           label \notin {"writeResults", "readState", "transition"},
           laneState' = laneState \/ Backed(laneState', worked'),
           launchPlan' = launchPlan \/ LaunchBacked(launchPlan', worked')
    PROVE  WInv'
<1>1. mem' = [mem EXCEPT ![p] = mem[p]]
  BY DEF IInv, TypeOK
<1>2. ProcBacked(pc[p], mem[p], worked)
  BY DEF WInv
<1>3. ProcBacked(label, mem[p], worked')
  BY <1>2 DEF ProcBacked, Credit
<1> QED BY <1>1, <1>3, WorkKeeps

LEMMA StartBacked == ASSUME IInv, WInv, NEW p \in Procs, Start(p) PROVE WInv'
<1>0. ASSUME NEW label, NEW m, Begin(p, label, m), label # "writeResults",
             m.op = "submit" => validSubmission(m.ws, m.result),
             label \in {"readState", "transition"} => m.op \in {"start", "complete"},
             m.state # NoFile => Backed(m.state, worked), m.launch = NoFile
      PROVE  WInv'
  <2>1. /\ pc' = [pc EXCEPT ![p] = label] /\ mem' = [mem EXCEPT ![p] = m] /\ worked' = worked
        /\ UNCHANGED <<laneState, results, launchPlan>>
    BY <1>0 DEF Begin, files
  <2>2. Credit(label, m) = {} /\ worked \union {} = worked
    BY <1>0 DEF Credit
  <2>3. ProcBacked(label, m, worked)
    BY <1>0, <2>2 DEF ProcBacked
  <2> QED BY <2>1, <2>3, WorkKeeps
<1>1. ASSUME NEW ws \in Worksets, BeginOrchestrate(p, ws) PROVE WInv'
  <2> DEFINE state == deriveLaneState(ws, NoOverrides)
             m == [Blank EXCEPT !.op = "orchestrate", !.ws = ws, !.state = state]
  <2>1. NoOverrides \in StatusMap /\ \A l \in ws.lanes : NoOverrides[l] \notin Done
    BY DEF NoOverrides, StatusMap, Done, Workset, AllLanes
  <2>2. Backed(state, worked)
    BY <2>1, DeriveBacked
  <2>3. Begin(p, "writeWorkset", m)
    BY <1>1 DEF BeginOrchestrate
  <2> HIDE DEF state
  <2>4. m.op = "orchestrate" /\ m.state = state /\ m.launch = NoFile
    BY DEF Blank
  <2> HIDE DEF m
  <2> QED BY <1>0, <2>2, <2>3, <2>4
<1>2. ASSUME NEW op \in {"lanes", "assign", "launch"}, BeginDerive(p, op) PROVE WInv'
  <2> DEFINE m == [Blank EXCEPT !.op = op, !.ws = workset]
  <2>1. Begin(p, "readResults", m)
    BY <1>2 DEF BeginDerive
  <2>2. m.op = op /\ m.state = NoFile /\ m.launch = NoFile
    BY DEF Blank
  <2> HIDE DEF m
  <2> QED BY <1>0, <2>1, <2>2
<1>3. ASSUME NEW op \in {"start", "complete"}, NEW l \in AllLanes, BeginTransition(p, op, l)
      PROVE  WInv'
  <2> DEFINE m == [Blank EXCEPT !.op = op, !.ws = workset, !.lane = l]
  <2>1. Begin(p, "readState", m)
    BY <1>3 DEF BeginTransition
  <2>2. m.op = op /\ m.state = NoFile /\ m.launch = NoFile
    BY DEF Blank
  <2> HIDE DEF m
  <2> QED BY <1>0, <2>1, <2>2
<1>4. ASSUME NEW r \in Results, BeginSubmit(p, r) PROVE WInv'
  <2> DEFINE m == [Blank EXCEPT !.op = "submit", !.ws = workset, !.result = r]
  <2>1. Begin(p, "checkScope", m) /\ validSubmission(workset, r)
    BY <1>4 DEF BeginSubmit
  <2>2. m.ws = workset /\ m.result = r /\ m.state = NoFile /\ m.launch = NoFile
    BY DEF Blank
  <2> HIDE DEF m
  <2> QED BY <1>0, <2>1, <2>2
<1> QED BY <1>1, <1>2, <1>3, <1>4 DEF Start

LEMMA CheckScopeBacked == ASSUME IInv, WInv, NEW p \in Procs, CheckScope(p) PROVE WInv'
<1>1. pc[p] = "checkScope" /\ UNCHANGED <<laneState, results, launchPlan, worked>>
  BY DEF CheckScope, At, files
<1>2. CASE withinScope(launchPlan, mem[p].result)
  <2>1. pc' = [pc EXCEPT ![p] = "readResults"] /\ mem' = mem
    BY <1>2 DEF CheckScope, Goto
  <2> QED BY <1>1, <2>1, GoOnBacked
<1>3. CASE ~withinScope(launchPlan, mem[p].result)
  BY <1>1, <1>3, EndBacked DEF CheckScope, End
<1> QED BY <1>2, <1>3

\* What is derived from the results on disk, and from the one submitted.
LEMMA ReadResultsBacked ==
    ASSUME LanesKeepTasks, IInv, WInv, NEW p \in Procs, ReadResults(p)
    PROVE  WInv'
<1> DEFINE n == mem[p]
           rs == mergedResults(n, results)
           overrides == laneStatusOverridesFromWorkerResults(rs)
           state == deriveLaneState(n.ws, overrides)
           label == IF n.op \in {"start", "complete"} THEN "transition"
                    ELSE IF n.op = "submit" THEN "writeResults" ELSE "writeState"
           m == IF n.op \in {"start", "complete"} THEN [n EXCEPT !.state = state]
                ELSE [n EXCEPT !.state = state, !.results = rs]
           w == worked \union Credit(label, n)
<1>1. /\ n \in Memory /\ n.ws \in Worksets /\ pc[p] = "readResults"
      /\ UNCHANGED <<laneState, results, launchPlan, worked>>
      /\ n.op = "submit" => n.result \in Results
  BY DEF IInv, TypeOK, ReadResults, ControlOK, At, files
<1>2. ProcBacked("readResults", n, worked)
  BY <1>1 DEF WInv
<1>3. rs \in SUBSET Results
  BY <1>1 DEF IInv, TypeOK, mergedResults
<1>4. \A r \in rs : ResultBacked(r, w)
  <2>1. \A r \in results : ResultBacked(r, w)
    BY BackedMonotone DEF WInv
  <2>2. n.op = "submit" => ResultBacked(n.result, w)
    <3> SUFFICES ASSUME n.op = "submit" PROVE ResultBacked(n.result, w)
      OBVIOUS
    <3>1. validSubmission(n.ws, n.result)
      BY <1>2 DEF ProcBacked
    <3>2. n.result.completion_status = "completed" => <<n.result.lane, n.result.tasks>> \in w
      BY DEF Credit
    <3> QED BY <1>1, <3>1, <3>2 DEF ResultBacked
  <2> HIDE DEF w
  <2> QED BY <2>1, <2>2 DEF mergedResults
<1>5. Backed(state, w)
  <2> HIDE DEF w, rs
  <2>1. overrides \in StatusMap
    BY <1>3, ResultOverridesType
  <2>2. \A l \in n.ws.lanes : overrides[l] \in Done => <<l, n.ws.tasks[l]>> \in w
    BY <1>1, <1>3, <1>4, ResultOverridesBacked
  <2> QED BY <1>1, <2>1, <2>2, DeriveBacked
<1>6. pc' = [pc EXCEPT ![p] = label] /\ mem' = [mem EXCEPT ![p] = m]
  <2>1. CASE n.op \in {"start", "complete"}
    BY <2>1 DEF ReadResults, Goto
  <2>2. CASE n.op \notin {"start", "complete"}
    <3>1. mem' = [mem EXCEPT ![p].state = state, ![p].results = rs]
      BY <2>2 DEF ReadResults
    <3>2. m = [n EXCEPT !.state = state, !.results = rs]
      BY <2>2
    <3>3. pc' = [pc EXCEPT ![p] = label]
      BY <2>2 DEF ReadResults, Goto
    <3> HIDE DEF state, rs, m
    <3> QED BY <3>1, <3>2, <3>3 DEF IInv, TypeOK
  <2> QED BY <2>1, <2>2
<1> HIDE DEF state, rs
<1>7. /\ m.ws = n.ws /\ m.op = n.op /\ m.result = n.result /\ m.launch = n.launch
      /\ m.state = state
      /\ label = "writeResults" => m.results = rs
  BY <1>1 DEF Memory
<1> HIDE DEF m
<1>8. Credit(label, m) = Credit(label, n)
  BY <1>7 DEF Credit
<1>9. ProcBacked(label, m, worked)
  <2>1. n.op = "submit" => validSubmission(n.ws, n.result)
    BY <1>2 DEF ProcBacked
  <2>2. n.launch # NoFile => LaunchBacked(n.launch, worked)
    BY <1>2 DEF ProcBacked
  <2>3. label \in {"readState", "transition"} => n.op \in {"start", "complete"}
    OBVIOUS
  <2>4. \A r \in rs : ResultBacked(r, worked \union Credit(label, m))
    BY <1>4, <1>8
  <2>5. Backed(m.state, worked \union Credit(label, m))
    BY <1>5, <1>7, <1>8
  <2> HIDE DEF label
  <2> QED BY <1>7, <2>1, <2>2, <2>3, <2>4, <2>5 DEF ProcBacked
<1> HIDE DEF label
<1> QED BY <1>1, <1>6, <1>9, WorkKeeps

LEMMA ReadStateBacked == ASSUME IInv, WInv, NEW p \in Procs, ReadState(p) PROVE WInv'
<1> DEFINE label == IF laneState = NoFile THEN "readResults" ELSE "transition"
           m == [mem[p] EXCEPT !.state = laneState]
<1>1. /\ mem[p] \in Memory /\ pc[p] = "readState"
      /\ UNCHANGED <<laneState, results, launchPlan, worked>>
      /\ pc' = [pc EXCEPT ![p] = label] /\ mem' = [mem EXCEPT ![p] = m]
  BY DEF IInv, TypeOK, ReadState, At, Goto, files
<1>2. /\ m.ws = mem[p].ws /\ m.op = mem[p].op /\ m.result = mem[p].result
      /\ m.launch = mem[p].launch /\ m.state = laneState
  BY <1>1 DEF Memory
<1>3. ProcBacked("readState", mem[p], worked)
  BY <1>1 DEF WInv
<1>4. label \in {"readResults", "transition"}
  OBVIOUS
<1> HIDE DEF m, label
<1>5. Credit(label, m) = {} /\ worked \union {} = worked
  BY <1>4 DEF Credit
<1>6. ProcBacked(label, m, worked)
  BY <1>2, <1>3, <1>4, <1>5 DEF ProcBacked, WInv
<1> QED BY <1>1, <1>6, WorkKeeps

\* `lanes complete` puts the work on record that its new state rests on.
LEMMA TransitionBacked ==
    ASSUME LanesKeepTasks, IInv, WInv, NEW p \in Procs, Transition(p)
    PROVE  WInv'
<1> DEFINE n == mem[p]
           to == IF n.op = "start" THEN "running" ELSE "completed"
           overrides == [n.state.status EXCEPT ![n.lane] = to]
           next == transitioned(n.ws, n.state, n.op, n.lane)
           done == next.status[n.lane]
                     \in (IF n.op = "start" THEN {"running"} ELSE {"completed", "merge_ready"})
           allowed == transitionAllowed(n.state, n.op, n.lane)
           m == IF allowed THEN [n EXCEPT !.state = next, !.applied = done]
                ELSE [n EXCEPT !.applied = FALSE]
<1>1. /\ n \in Memory /\ n.ws \in Worksets /\ n.state \in LaneState /\ pc[p] = "transition"
      /\ UNCHANGED <<laneState, results, launchPlan>> /\ n.lane \in AllLanes
  BY DEF IInv, TypeOK, Transition, ControlOK, At, files, Memory
<1>2. ProcBacked("transition", n, worked)
  BY <1>1 DEF WInv
<1>3. worked \subseteq worked'
  BY DEF Transition
<1>4. Backed(n.state, worked')
  <2>1. Credit("transition", n) = {} /\ worked \union {} = worked
    BY DEF Credit
  <2>2. Backed(n.state, worked)
    BY <1>1, <1>2, <2>1, NoFileType DEF ProcBacked
  <2> QED BY <1>3, <2>2, BackedMonotone
<1>5. allowed => Backed(next, worked')
  <2> SUFFICES ASSUME allowed PROVE Backed(next, worked')
    OBVIOUS
  <2>1. overrides \in StatusMap
    BY <1>1 DEF LaneState, StatusMap, Statuses
  <2>2. ASSUME NEW l \in n.ws.lanes, overrides[l] \in Done
        PROVE  <<l, n.ws.tasks[l]>> \in worked'
    <3>0. l \in AllLanes /\ n.state.status \in StatusMap
      BY <1>1 DEF Workset, AllLanes, LaneState, StatusMap
    <3>1. CASE l = n.lane
      <4>1. n.op # "start"
        BY <1>1, <2>2, <3>0, <3>1 DEF Done, StatusMap
      <4>2. n.op = "complete"
        BY <1>2, <4>1 DEF ProcBacked
      <4> QED BY <3>1, <4>2 DEF Transition
    <3>2. CASE l # n.lane
      <4>1. n.state.status[l] \in Done
        BY <2>2, <3>0, <3>2 DEF StatusMap
      <4> QED BY <1>1, <1>4, <4>1, StateOverridesBacked
    <3> QED BY <3>1, <3>2
  <2> HIDE DEF overrides
  <2>3. Backed(deriveLaneState(n.ws, overrides), worked')
    BY <1>1, <2>1, <2>2, DeriveBacked
  <2> QED BY <2>3 DEF transitioned, overrides
<1>6. pc' = [pc EXCEPT ![p] = "writeState"] /\ mem' = [mem EXCEPT ![p] = m]
  <2>0. pc' = [pc EXCEPT ![p] = "writeState"]
    BY DEF Transition, Goto
  <2>1. CASE allowed
    <3>1. mem' = [mem EXCEPT ![p].state = next, ![p].applied = done]
      BY <2>1 DEF Transition
    <3>2. m = [n EXCEPT !.state = next, !.applied = done]
      BY <2>1
    <3> HIDE DEF next, done, m
    <3> QED BY <2>0, <3>1, <3>2 DEF IInv, TypeOK
  <2>2. CASE ~allowed
    BY <2>0, <2>2 DEF Transition
  <2> QED BY <2>1, <2>2
<1> HIDE DEF next, allowed, done
<1>7. /\ m.ws = n.ws /\ m.op = n.op /\ m.result = n.result /\ m.launch = n.launch
      /\ m.state = IF allowed THEN next ELSE n.state
  BY <1>1 DEF Memory
<1> HIDE DEF m
<1>8. Credit("writeState", m) = {} /\ worked' \union {} = worked'
  BY DEF Credit
<1>9. ProcBacked("writeState", m, worked')
  <2>1. n.launch # NoFile => LaunchBacked(n.launch, worked')
    BY <1>2, <1>3, BackedMonotone DEF ProcBacked
  <2> QED BY <1>2, <1>4, <1>5, <1>7, <1>8, <2>1 DEF ProcBacked
<1> QED BY <1>1, <1>3, <1>6, <1>9, WorkKeeps

\* A submission puts its work on record with its result.
LEMMA WriteResultsBacked == ASSUME IInv, WInv, NEW p \in Procs, WriteResults(p) PROVE WInv'
<1> DEFINE n == mem[p]
<1>1. /\ pc[p] = "writeResults" /\ results' = n.results
      /\ pc' = [pc EXCEPT ![p] = "writeState"] /\ mem' = [mem EXCEPT ![p] = n]
      /\ UNCHANGED <<laneState, launchPlan>>
  BY DEF IInv, TypeOK, WriteResults, At, Goto
<1>2. worked' = worked \union Credit("writeResults", n)
  BY DEF WriteResults, Credit
<1>3. ProcBacked("writeResults", n, worked)
  BY <1>1 DEF WInv
<1>4. \A r \in results' : ResultBacked(r, worked')
  BY <1>1, <1>2, <1>3 DEF ProcBacked
<1>5. ProcBacked("writeState", n, worked')
  <2>1. Credit("writeState", n) = {} /\ worked' \union {} = worked'
    BY DEF Credit
  <2>2. n.launch # NoFile => LaunchBacked(n.launch, worked')
    BY <1>2, <1>3, BackedMonotone DEF ProcBacked
  <2>3. n.state # NoFile => Backed(n.state, worked')
    BY <1>2, <1>3 DEF ProcBacked
  <2> QED BY <1>3, <2>1, <2>2, <2>3 DEF ProcBacked
<1> QED BY <1>1, <1>2, <1>4, <1>5, WorkKeeps

LEMMA WriteStateBacked == ASSUME IInv, WInv, NEW p \in Procs, WriteState(p) PROVE WInv'
<1>1. /\ pc[p] = "writeState" /\ laneState' = mem[p].state
      /\ UNCHANGED <<results, launchPlan, worked>>
  BY DEF WriteState, At
<1>2. Backed(laneState', worked')
  <2>1. mem[p].state \in LaneState /\ ProcBacked("writeState", mem[p], worked)
    BY <1>1 DEF WInv, IInv, ControlOK
  <2>2. Credit("writeState", mem[p]) = {} /\ worked \union {} = worked
    BY DEF Credit
  <2> QED BY <1>1, <2>1, <2>2, NoFileType DEF ProcBacked
<1>3. CASE mem[p].op \in {"assign", "launch"}
  <2>1. pc' = [pc EXCEPT ![p] = "writeAssignments"] /\ mem' = mem
    BY <1>3 DEF WriteState, Goto
  <2> QED BY <1>1, <1>2, <2>1, GoOnBacked
<1>4. CASE mem[p].op \notin {"assign", "launch"}
  BY <1>1, <1>2, <1>4, EndBacked DEF WriteState, End
<1> QED BY <1>3, <1>4

\* A launch plan makes ready lanes eligible, which wait for none.
LEMMA ReadScopeBacked == ASSUME IInv, WInv, NEW p \in Procs, ReadScope(p) PROVE WInv'
<1> DEFINE n == mem[p]
           launch == buildWorkerLaunchPlan(n.state, scope, blockers)
           m == [n EXCEPT !.launch = launch]
<1>1. /\ n \in Memory /\ n.state \in LaneState /\ pc[p] = "readScope"
      /\ UNCHANGED <<laneState, results, launchPlan, worked>>
      /\ pc' = [pc EXCEPT ![p] = "writeLaunch"] /\ mem' = [mem EXCEPT ![p] = m]
  BY DEF IInv, TypeOK, ControlOK, ReadScope, At, Goto, files
<1>2. ProcBacked("readScope", n, worked)
  BY <1>1 DEF WInv
<1>3. Backed(n.state, worked)
  <2>1. Credit("readScope", n) = {} /\ worked \union {} = worked
    BY DEF Credit
  <2> QED BY <1>1, <1>2, <2>1, NoFileType DEF ProcBacked
<1>4. LaunchBacked(launch, worked)
  <2>1. launch.ws = n.state.ws /\ launch.eligible \subseteq assigned(n.state)
    BY DEF buildWorkerLaunchPlan
  <2> HIDE DEF launch
  <2>2. SUFFICES ASSUME NEW l \in launch.eligible, NEW d \in dependencyGates(launch.ws, l)
                 PROVE  <<d, launch.ws.tasks[d]>> \in worked
    BY DEF LaunchBacked
  <2>3. l \in Lanes /\ n.state.status[l] = "ready"
    BY <2>1 DEF assigned
  <2>4. n.state.status[d] \in Done
    BY <1>3, <2>1, <2>3 DEF Backed
  <2>5. d \in Lanes
    BY <1>1, <2>1 DEF dependencyGates, LaneState, Workset
  <2> QED BY <1>3, <2>1, <2>4, <2>5 DEF Backed
<1> HIDE DEF launch
<1>5. /\ m.ws = n.ws /\ m.op = n.op /\ m.result = n.result /\ m.state = n.state
      /\ m.launch = launch
  BY <1>1 DEF Memory
<1> HIDE DEF m
<1>6. ProcBacked("writeLaunch", m, worked)
  <2>1. Credit("writeLaunch", m) = {} /\ worked \union {} = worked
    BY DEF Credit
  <2> QED BY <1>2, <1>3, <1>4, <1>5, <2>1 DEF ProcBacked
<1> QED BY <1>1, <1>6, WorkKeeps

\* The other writes change nothing the work is about, or write what was built from it.
LEMMA OtherWritesBacked ==
    ASSUME IInv, WInv, NEW p \in Procs,
           WriteWorkset(p) \/ WriteAssignments(p) \/ WriteLaunchPlan(p) \/ WriteScope(p) \/ Crash(p)
    PROVE  WInv'
<1>1. CASE WriteWorkset(p)
  BY <1>1, GoOnBacked DEF WriteWorkset, At, Goto
<1>2. CASE WriteAssignments(p) /\ mem[p].op = "launch"
  BY <1>2, GoOnBacked DEF WriteAssignments, At, Goto
<1>3. CASE WriteAssignments(p) /\ mem[p].op # "launch"
  BY <1>3, EndBacked DEF WriteAssignments, End
<1>4. CASE WriteLaunchPlan(p)
  <2>1. mem[p].launch \in LaunchPlan /\ pc[p] = "writeLaunch" /\ launchPlan' = mem[p].launch
        /\ worked' = worked
    BY <1>4 DEF WriteLaunchPlan, At, IInv, ControlOK
  <2>2. LaunchBacked(launchPlan', worked')
    BY <2>1, NoFileType DEF WInv, ProcBacked
  <2> QED BY <1>4, <2>1, <2>2, GoOnBacked DEF WriteLaunchPlan, Goto
<1>5. CASE WriteScope(p)
  BY <1>5, EndBacked DEF WriteScope, End
<1>6. CASE Crash(p)
  BY <1>6, EndBacked DEF Crash, files
<1> QED BY <1>1, <1>2, <1>3, <1>4, <1>5, <1>6

LEMMA InitBacked == Init => WInv
BY BlankBacked DEF Init, WInv

LEMMA NextBacked == LanesKeepTasks /\ IInv /\ WInv /\ [Next]_vars => WInv'
<1> SUFFICES ASSUME LanesKeepTasks, IInv, WInv, [Next]_vars PROVE WInv'
  OBVIOUS
<1>1. ASSUME NEW p \in Procs, Start(p) \/ Step(p) \/ Crash(p) PROVE WInv'
  BY <1>1, StartBacked, CheckScopeBacked, ReadResultsBacked, ReadStateBacked, TransitionBacked,
     WriteResultsBacked, WriteStateBacked, ReadScopeBacked, OtherWritesBacked DEF Step
<1>2. CASE UNCHANGED <<laneState, results, launchPlan, pc, mem, worked>>
  BY <1>2 DEF WInv
<1>3. ASSUME NEW s \in Scopes, DeclareScope(s) PROVE WInv'
  BY <1>2, <1>3 DEF DeclareScope
<1>4. CASE Verify
  BY <1>2, <1>4 DEF Verify
<1>5. CASE UNCHANGED vars
  BY <1>2, <1>5 DEF vars, files
<1> QED BY <1>1, <1>3, <1>4, <1>5 DEF Next

\* As long as a lane id stands for the same tasks in every workset, a merge-ready lane means
\* that every lane of its workset has been completed by an accepted worker result or by
\* `lanes complete`, whatever commands overlap, crash or work from stale copies
\* (deriveLaneState, applyLaneLifecycleTransition, laneStatusOverridesFromWorkerResults).
THEOREM MergeReadyMeansWork == LanesKeepTasks => (Spec => []MergeReadyWorked)
<1> SUFFICES ASSUME LanesKeepTasks PROVE Spec => []MergeReadyWorked
  OBVIOUS
<1>1. IInv /\ WInv => MergeReadyWorked
  <2> SUFFICES ASSUME IInv, WInv, laneState # NoFile,
                      \E l \in laneState.ws.lanes : laneState.status[l] = "merge_ready",
                      NEW l \in laneState.ws.lanes
               PROVE  <<l, laneState.ws.tasks[l]>> \in worked
    BY DEF MergeReadyWorked
  <2>1. laneState \in LaneState /\ Backed(laneState, worked)
    BY DEF IInv, TypeOK, WInv
  <2>2. l \in Lanes
    BY <2>1 DEF LaneState, Workset
  <2> QED BY <2>1, <2>2 DEF Backed
<1>2. IInv /\ WInv /\ [Next]_vars => WInv'
  BY NextBacked
<1> QED BY <1>1, <1>2, InitIInv, NextKeeps, InitBacked, PTL DEF Spec

\* Under the same condition `workers launch-plan` makes a lane eligible only after the lanes
\* it depends on have really been completed (buildWorkerLaunchPlan over assignWorkersToLanes).
THEOREM LaunchedInOrder == LanesKeepTasks => (Spec => []LaunchAfterDependencies)
<1> SUFFICES ASSUME LanesKeepTasks PROVE Spec => []LaunchAfterDependencies
  OBVIOUS
<1>1. WInv => LaunchAfterDependencies
  BY DEF WInv, LaunchBacked, LaunchAfterDependencies
<1>2. IInv /\ WInv /\ [Next]_vars => WInv'
  BY NextBacked
<1> QED BY <1>1, <1>2, InitIInv, NextKeeps, InitBacked, PTL DEF Spec
==============================================================================
