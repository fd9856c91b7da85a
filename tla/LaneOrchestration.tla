-------------------------- MODULE LaneOrchestration --------------------------
(***************************************************************************)
(* Lanes and their workers: `playbook orchestrate --tasks-file`, `lanes`   *)
(* [start|complete] and `workers` assign|launch-plan|submit, with the      *)
(* derivations they share (engine/src/orchestration/worksetPlan.ts,        *)
(* laneState.ts, workerResults.ts, workerAssignments.ts,                   *)
(* workerLaunchPlan.ts, engine/src/changeScope.ts and                      *)
(* engine/src/execution/workerScopeAuthorization.ts).                      *)
(*                                                                         *)
(* Every command is a process that reads and rewrites whole files under    *)
(* .playbook/ without a lock; one action is one file read or write.  What  *)
(* the planner makes of a task is a property of the workset, so a workset  *)
(* is a record of the lane attributes later commands read.                 *)
(***************************************************************************)
EXTENDS Naturals, FiniteSets

CONSTANTS
    Procs,       \* command processes that may overlap
    Lanes,       \* lane-1, lane-2, ...: ids are reused from workset to workset
    Tasks,       \* the task lists a lane may carry
    Surfaces,    \* write surfaces
    Worksets,    \* the workset plans `orchestrate` may compile
    Results,     \* the worker results that may be submitted
    Rank,        \* the order sortResults puts the results of a lane in
    Scopes,      \* the change scopes `plan`, `analyze-pr` or `ai propose` may declare
    Commands,    \* the commands that are run
    None,        \* no such file
    MaxRuns      \* bound on the commands run and the crashes together

Levels   == {"low", "medium", "high"}
Stages   == {"not_applicable", "pending", "blocked", "plan_ready", "applied"}
Statuses == {"blocked", "ready", "running", "completed", "merge_ready"}

\* The lane id of a blocked task, which is listed but never runs.
Sentinel == 0
AllLanes == Lanes \union {Sentinel}

Workset == [lanes : SUBSET Lanes, level : [Lanes -> Levels], worker_ready : SUBSET Lanes,
            conflicts : SUBSET Lanes, stage : [Lanes -> Stages], blocked_tasks : BOOLEAN,
            surfaces : [Lanes -> SUBSET Surfaces], tasks : [Lanes -> Tasks]]

WorkerResult == [lane : Lanes, tasks : Tasks, targets : SUBSET Surfaces,
                 completion_status : {"in_progress", "completed", "blocked"}]

ASSUME LaneConstants ==
    /\ Sentinel \notin Lanes
    /\ Worksets \subseteq Workset
    /\ Results \subseteq WorkerResult
    /\ Rank \in [Results -> Nat]
    /\ \A r, s \in Results : Rank[r] = Rank[s] => r = s
    /\ Scopes \subseteq SUBSET Surfaces
    /\ Commands \subseteq {"lanes", "start", "complete", "assign", "launch", "submit",
                           "orchestrate"}
    /\ MaxRuns \in Nat

ASSUME LaneSentinels == None \notin Worksets /\ \A s \in SUBSET Surfaces : s # None

\* lane-state.json: the workset it was derived from and the status of every lane.
LaneState == [ws : Worksets, status : [AllLanes -> Statuses \union {"absent"}]]

\* worker-launch-plan.json: the lanes, the eligible ones, and what each may write.
LaunchPlan == [ws : Worksets, eligible : SUBSET Lanes, enforced : BOOLEAN,
               allowed : [Lanes -> SUBSET Surfaces]]

NoFile == [ws |-> None]

Memory == [op : Commands \union {"none"}, ws : Worksets \union {None},
           lane : AllLanes, result : Results \union {None}, results : SUBSET Results,
           state : LaneState \union {NoFile}, launch : LaunchPlan \union {NoFile},
           applied : BOOLEAN]

Blank == [op |-> "none", ws |-> None, lane |-> Sentinel, result |-> None, results |-> {},
          state |-> NoFile, launch |-> NoFile, applied |-> TRUE]

VARIABLES
    workset,      \* .playbook/workset-plan.json
    laneState,    \* .playbook/lane-state.json
    results,      \* .playbook/worker-results.json
    assignments,  \* .playbook/worker-assignments.json: the lanes assigned
    launchPlan,   \* .playbook/worker-launch-plan.json
    scope,        \* .playbook/change-scope.json: the files it allows
    blockers,     \* whether verify-report.json or policy-evaluation.json block
    pc, mem, exit,
    runs,         \* commands run, and crashes
    worked        \* history: <<lane, tasks>> completed by a worker or an operator

files   == <<workset, laneState, results, assignments, launchPlan, scope, blockers>>
vars    == <<files, pc, mem, exit, runs, worked>>

-----------------------------------------------------------------------------
(* Derivations. *)

LevelOrder(level) == CASE level = "low" -> 1 [] level = "medium" -> 2 [] level = "high" -> 3

\* dependency_edges: every lane of a lower level comes first.
dependencyGates(ws, l) ==
    {d \in ws.lanes : LevelOrder(ws.level[d]) < LevelOrder(ws.level[l])}

\* The override in force: the caller's, else ready or blocked by worker_ready.
overrideOf(ws, overrides, l) ==
    IF overrides[l] # "absent" THEN overrides[l]
    ELSE IF l \in ws.worker_ready THEN "ready" ELSE "blocked"

\* Mutant: a dependency that is only running satisfies the gate.
dependenciesStarted(ws, overrides, l) ==
    \A d \in dependencyGates(ws, l) :
        /\ overrideOf(ws, overrides, d) \in {"running", "completed", "merge_ready"}
        /\ d \in ws.worker_ready

dependenciesSatisfied(ws, overrides, l) ==
    \A d \in dependencyGates(ws, l) :
        /\ overrideOf(ws, overrides, d) \in {"completed", "merge_ready"}
        /\ d \in ws.worker_ready

determineStatus(ws, overrides, l) ==
    IF ~dependenciesSatisfied(ws, overrides, l) \/ l \notin ws.worker_ready THEN "blocked"
    ELSE IF overrideOf(ws, overrides, l) = "merge_ready" THEN "completed"
    ELSE overrideOf(ws, overrides, l)

\* Mutant: a completed lane is merge ready whatever the other lanes are.
mergeReadyAlone(ws, status, l) ==
    status[l] = "completed" /\ l \notin ws.conflicts /\ ~ws.blocked_tasks

\* recomputeMergeReadyStatuses, for a lane of the workset.
mergeReady(ws, status, l) ==
    /\ status[l] = "completed"
    /\ l \notin ws.conflicts
    /\ ~ws.blocked_tasks
    /\ \A k \in ws.lanes : status[k] = "completed"
    /\ ws.stage[l] \in {"not_applicable", "applied"}

deriveLaneState(ws, overrides) ==
    LET derived == [l \in ws.lanes |-> determineStatus(ws, overrides, l)]
    IN  [ws     |-> ws,
         status |-> [l \in AllLanes |->
            IF l = Sentinel THEN (IF ws.blocked_tasks THEN "blocked" ELSE "absent")
            ELSE IF l \notin ws.lanes THEN "absent"
            ELSE IF mergeReady(ws, derived, l) THEN "merge_ready" ELSE derived[l]]]

NoOverrides == [l \in AllLanes |-> "absent"]

\* laneStatusOverridesFromWorkerResults: of a lane's results the one that sorts last wins.
lastResult(rs, l) ==
    {r \in rs : r.lane = l /\ \A s \in rs : s.lane = l => Rank[s] <= Rank[r]}

\* Mutant: the receipt's own vocabulary is not translated to lane statuses.
statusOfResultRaw(r) == r.completion_status

statusOfResult(r) ==
    IF r.completion_status = "in_progress" THEN "running" ELSE r.completion_status

laneStatusOverridesFromWorkerResults(rs) ==
    [l \in AllLanes |-> IF lastResult(rs, l) = {} THEN "absent"
                        ELSE statusOfResult(CHOOSE r \in lastResult(rs, l) : TRUE)]

\* applyLaneLifecycleTransition: the state it asks for, and whether it was applied.
transitionAllowed(state, op, l) ==
    /\ l # Sentinel
    /\ state.status[l] = (IF op = "start" THEN "ready" ELSE "running")

transitioned(ws, state, op, l) ==
    deriveLaneState(ws, [state.status EXCEPT ![l] = IF op = "start" THEN "running"
                                                    ELSE "completed"])

\* Mutant: every lane that has not begun is assigned.
assignedUnlessBegun(state) == {l \in Lanes : state.status[l] \in {"ready", "blocked"}}

\* assignWorkersToLanes: a lane is assigned when it is ready.
assigned(state) == {l \in Lanes : state.status[l] = "ready"}

\* buildWorkerLaunchPlan, under the change scope on disk if there is one.
scopeBlocksLane(ws, files_, l) ==
    files_ # None /\ ws.surfaces[l] # {} /\ ws.surfaces[l] \cap files_ = {}

buildWorkerLaunchPlan(state, files_, blocked) ==
    LET ws == state.ws
    IN  [ws       |-> ws,
         eligible |-> {l \in assigned(state) :
                          /\ ~blocked
                          /\ ws.stage[l] \in {"not_applicable", "applied"}
                          /\ ~scopeBlocksLane(ws, files_, l)},
         enforced |-> files_ # None,
         allowed  |-> [l \in Lanes |->
                          IF l \notin ws.lanes THEN {}
                          ELSE IF files_ = None THEN ws.surfaces[l]
                          ELSE ws.surfaces[l] \cap files_]]

\* buildChangeScopeBundleFromWorkerLaunchPlan: every surface any lane asked for,
\* whether or not the scope in force allowed it.
launchPlanScope(launch) == UNION {launch.ws.surfaces[l] : l \in launch.ws.lanes}

\* validateWorkerResultInput and validateWorkerSubmitAgainstScope.
validSubmission(ws, r) == r.lane \in ws.lanes /\ r.tasks = ws.tasks[r.lane]

withinScope(launch, r) ==
    /\ launch # NoFile
    /\ r.lane \in launch.ws.lanes
    /\ launch.allowed[r.lane] # {}
    /\ r.targets \subseteq launch.allowed[r.lane]
    /\ launch.enforced => Cardinality(r.targets) <= Cardinality(launch.allowed[r.lane])

-----------------------------------------------------------------------------
Init ==
    /\ workset = None /\ laneState = NoFile /\ results = {} /\ assignments = {}
    /\ launchPlan = NoFile /\ scope = None /\ blockers = FALSE
    /\ pc = [p \in Procs |-> "idle"]
    /\ mem = [p \in Procs |-> Blank]
    /\ exit = [p \in Procs |-> "none"]
    /\ runs = 0
    /\ worked = {}

At(p, label) == pc[p] = label

Goto(p, label) == pc' = [pc EXCEPT ![p] = label] /\ UNCHANGED <<exit, runs>>

End(p, how) ==
    /\ pc' = [pc EXCEPT ![p] = "idle"]
    /\ mem' = [mem EXCEPT ![p] = Blank]
    /\ exit' = [exit EXCEPT ![p] = how]
    /\ UNCHANGED runs

\* A command starts; the memory m holds its arguments.
Begin(p, label, m) ==
    /\ At(p, "idle")
    /\ m.op \in Commands
    /\ runs < MaxRuns
    /\ runs' = runs + 1
    /\ pc' = [pc EXCEPT ![p] = label]
    /\ mem' = [mem EXCEPT ![p] = m]
    /\ exit' = [exit EXCEPT ![p] = "none"]
    /\ UNCHANGED <<files, worked>>

\* `orchestrate --tasks-file` has compiled a workset and derived its lane-state,
\* without looking at worker results.
BeginOrchestrate(p, ws) ==
    Begin(p, "writeWorkset", [Blank EXCEPT !.op = "orchestrate", !.ws = ws,
                                           !.state = deriveLaneState(ws, NoOverrides)])

\* `lanes` and `workers assign | launch-plan` read the workset.
BeginDerive(p, op) ==
    /\ workset # None
    /\ Begin(p, "readResults", [Blank EXCEPT !.op = op, !.ws = workset])

\* `lanes start | complete <lane>`.
BeginTransition(p, op, l) ==
    /\ workset # None
    /\ Begin(p, "readState", [Blank EXCEPT !.op = op, !.ws = workset, !.lane = l])

\* `workers submit --from <result>`: the input is checked against the workset ...
BeginSubmit(p, r) ==
    /\ workset # None
    /\ validSubmission(workset, r)
    /\ Begin(p, "checkScope", [Blank EXCEPT !.op = "submit", !.ws = workset, !.result = r])

\* ... and against the launch plan.
CheckScope(p) ==
    /\ At(p, "checkScope")
    /\ IF withinScope(launchPlan, mem[p].result)
       THEN Goto(p, "readResults") /\ UNCHANGED mem
       ELSE End(p, "refused")
    /\ UNCHANGED <<files, worked>>

\* mergeWorkerResult: a submission adds its result to those on disk.
mergedResults(m, rs) == IF m.op = "submit" THEN rs \union {m.result} ELSE rs

\* readWorkerResultsArtifact, and what the command derives from it.
ReadResults(p) ==
    LET rs == mergedResults(mem[p], results)
        state == deriveLaneState(mem[p].ws, laneStatusOverridesFromWorkerResults(rs))
    IN  /\ At(p, "readResults")
        /\ IF mem[p].op \in {"start", "complete"}
           THEN /\ mem' = [mem EXCEPT ![p].state = state]
                /\ Goto(p, "transition")
           ELSE /\ mem' = [mem EXCEPT ![p].state = state, ![p].results = rs]
                /\ Goto(p, IF mem[p].op = "submit" THEN "writeResults" ELSE "writeState")
        /\ UNCHANGED <<files, worked>>

\* `lanes start | complete` reads the lane-state, or derives one if there is none.
ReadState(p) ==
    /\ At(p, "readState")
    /\ mem' = [mem EXCEPT ![p].state = laneState]
    /\ Goto(p, IF laneState = NoFile THEN "readResults" ELSE "transition")
    /\ UNCHANGED <<files, worked>>

\* applyLaneLifecycleTransition on the copy: a refused one is written back as it is.
Transition(p) ==
    LET m    == mem[p]
        next == transitioned(m.ws, m.state, m.op, m.lane)
        goal == IF m.op = "start" THEN {"running"} ELSE {"completed", "merge_ready"}
    IN  /\ At(p, "transition")
        /\ IF transitionAllowed(m.state, m.op, m.lane)
           THEN mem' = [mem EXCEPT ![p].state = next,
                                   ![p].applied = next.status[m.lane] \in goal]
           ELSE mem' = [mem EXCEPT ![p].applied = FALSE]
        /\ worked' = IF /\ m.op = "complete"
                        /\ transitionAllowed(m.state, m.op, m.lane)
                        /\ m.lane \in m.ws.lanes
                     THEN worked \union {<<m.lane, m.ws.tasks[m.lane]>>}
                     ELSE worked
        /\ Goto(p, "writeState")
        /\ UNCHANGED files

\* writeWorkerResultsArtifact.
WriteResults(p) ==
    /\ At(p, "writeResults")
    /\ results' = mem[p].results
    /\ worked' = IF mem[p].result.completion_status = "completed"
                 THEN worked \union {<<mem[p].result.lane, mem[p].result.tasks>>}
                 ELSE worked
    /\ Goto(p, "writeState")
    /\ UNCHANGED <<workset, laneState, assignments, launchPlan, scope, blockers, mem>>

WriteWorkset(p) ==
    /\ At(p, "writeWorkset")
    /\ workset' = mem[p].ws
    /\ Goto(p, "writeState")
    /\ UNCHANGED <<laneState, results, assignments, launchPlan, scope, blockers, mem, worked>>

\* writeLaneState, the last write of every command but assign and launch-plan.
WriteState(p) ==
    /\ At(p, "writeState")
    /\ laneState' = mem[p].state
    /\ IF mem[p].op \in {"assign", "launch"}
       THEN Goto(p, "writeAssignments") /\ UNCHANGED mem
       ELSE End(p, IF mem[p].applied THEN "ok" ELSE "refused")
    /\ UNCHANGED <<workset, results, assignments, launchPlan, scope, blockers, worked>>

WriteAssignments(p) ==
    /\ At(p, "writeAssignments")
    /\ assignments' = assigned(mem[p].state)
    /\ IF mem[p].op = "launch" THEN Goto(p, "readScope") /\ UNCHANGED mem ELSE End(p, "ok")
    /\ UNCHANGED <<workset, laneState, results, launchPlan, scope, blockers, worked>>

\* buildWorkerLaunchPlan reads verify, policy and change scope.
ReadScope(p) ==
    /\ At(p, "readScope")
    /\ mem' = [mem EXCEPT ![p].launch = buildWorkerLaunchPlan(mem[p].state, scope, blockers)]
    /\ Goto(p, "writeLaunch")
    /\ UNCHANGED <<files, worked>>

WriteLaunchPlan(p) ==
    /\ At(p, "writeLaunch")
    /\ launchPlan' = mem[p].launch
    /\ Goto(p, "writeScope")
    /\ UNCHANGED <<workset, laneState, results, assignments, scope, blockers, mem, worked>>

\* writeChangeScopeArtifact replaces whatever scope there was.
WriteScope(p) ==
    /\ At(p, "writeScope")
    /\ scope' = launchPlanScope(mem[p].launch)
    /\ End(p, "ok")
    /\ UNCHANGED <<workset, laneState, results, assignments, launchPlan, blockers, worked>>

\* `plan`, `analyze-pr` or `ai propose` declares a change scope.
DeclareScope(s) ==
    /\ runs < MaxRuns /\ runs' = runs + 1
    /\ scope' = s
    /\ UNCHANGED <<workset, laneState, results, assignments, launchPlan, blockers,
                   pc, mem, exit, worked>>

\* `verify` or policy evaluation finds or clears blockers.
Verify ==
    /\ runs < MaxRuns /\ runs' = runs + 1
    /\ blockers' = ~blockers
    /\ UNCHANGED <<workset, laneState, results, assignments, launchPlan, scope,
                   pc, mem, exit, worked>>

\* A process is killed between two file operations.
Crash(p) ==
    /\ ~At(p, "idle")
    /\ runs < MaxRuns
    /\ pc' = [pc EXCEPT ![p] = "idle"]
    /\ mem' = [mem EXCEPT ![p] = Blank]
    /\ exit' = [exit EXCEPT ![p] = "crashed"]
    /\ runs' = runs + 1
    /\ UNCHANGED <<files, worked>>

Start(p) ==
    \/ \E ws \in Worksets : BeginOrchestrate(p, ws)
    \/ \E op \in {"lanes", "assign", "launch"} : BeginDerive(p, op)
    \/ \E op \in {"start", "complete"}, l \in AllLanes : BeginTransition(p, op, l)
    \/ \E r \in Results : BeginSubmit(p, r)

Step(p) ==
    \/ CheckScope(p) \/ ReadResults(p) \/ ReadState(p) \/ Transition(p)
    \/ WriteResults(p) \/ WriteWorkset(p) \/ WriteState(p) \/ WriteAssignments(p)
    \/ ReadScope(p) \/ WriteLaunchPlan(p) \/ WriteScope(p)

Next ==
    \/ \E p \in Procs : Start(p) \/ Step(p) \/ Crash(p)
    \/ \E s \in Scopes : DeclareScope(s)
    \/ Verify

Spec == Init /\ [][Next]_vars

-----------------------------------------------------------------------------
(* Properties *)

\* Every artifact and every process-local copy has the shape of its schema.
TypeOK ==
    /\ workset \in Worksets \union {None}
    /\ laneState \in LaneState \union {NoFile}
    /\ results \in SUBSET Results
    /\ assignments \in SUBSET Lanes
    /\ launchPlan \in LaunchPlan \union {NoFile}
    /\ scope = None \/ scope \in SUBSET Surfaces
    /\ blockers \in BOOLEAN
    /\ pc \in [Procs -> {"idle", "checkScope", "readResults", "readState", "transition",
                         "writeResults", "writeWorkset", "writeState", "writeAssignments",
                         "readScope", "writeLaunch", "writeScope"}]
    /\ mem \in [Procs -> Memory]
    /\ exit \in [Procs -> {"none", "ok", "refused", "crashed"}]
    /\ runs \in 0..MaxRuns
    /\ worked \in SUBSET (Lanes \X Tasks)

Done == {"completed", "merge_ready"}

\* Dependency gates are strict: in lane-state.json no lane runs or is complete while
\* a lane it depends on is not, whichever commands, crashes and stale copies led there.
Ordered(state) ==
    \A l \in state.ws.lanes : state.status[l] \in {"running"} \union Done =>
        \A d \in dependencyGates(state.ws, l) : state.status[d] \in Done

DependencyOrder == laneState # NoFile => Ordered(laneState)

\* A merge-ready lane means work: every lane of its workset has been completed, by an
\* accepted worker result or by `lanes complete`, for the tasks it now carries.
MergeReadyWorked ==
    laneState # NoFile =>
        ((\E l \in laneState.ws.lanes : laneState.status[l] = "merge_ready") =>
            \A l \in laneState.ws.lanes : <<l, laneState.ws.tasks[l]>> \in worked)

\* `workers launch-plan` makes a lane eligible only after the lanes it depends on
\* have really been completed.
LaunchAfterDependencies ==
    launchPlan # NoFile =>
        \A l \in launchPlan.eligible : \A d \in dependencyGates(launchPlan.ws, l) :
            <<d, launchPlan.ws.tasks[d]>> \in worked
=============================================================================
