---------------------------- MODULE LifelineInterop ----------------------------
(***************************************************************************)
(* The bounded request/receipt loop between Playbook and the Lifeline      *)
(* runtime: `playbook interop register | emit | emit-fitness-plan | draft  *)
(* | run-mock | reconcile` (cli/src/commands/interop.ts) over              *)
(* engine/src/interop/playbookLifelineInterop.ts, and the rendezvous       *)
(* manifest that releases a request (cli/src/commands/rendezvous.ts,       *)
(* engine/src/testAutofix/rendezvousManifest.ts).                          *)
(*                                                                         *)
(* Every command is a process that reads a whole file, changes the copy    *)
(* and writes it back without a lock.  Request ids are positions in the    *)
(* requests list; an idempotency key is a pair of action and remediation   *)
(* id, because a capability's key prefix is a function of its action.      *)
(* The append-only statuses and the heartbeat, which no command reads      *)
(* back, are left out.                                                     *)
(***************************************************************************)
EXTENDS Naturals, Sequences

CONSTANTS
    Procs,          \* command processes that may overlap
    Capabilities,   \* capability ids
    Actions,        \* action kinds of the Fitness contract
    Required,       \* artifact ids a rendezvous manifest requires
    Autofix,        \* the one of them that holds the latest test-autofix run
    Contents,       \* contents such an artifact may have ...
    Sound,          \* ... and those verifyArtifact passes
    Heads,          \* git commits HEAD may be at
    PlanId,         \* remediation id of a request derived from plan.json
    Commands,       \* the commands that are run
    Returned,       \* outcomes the external Lifeline runtime may return
    None,           \* no such file
    MaxRuns         \* bound on commands that add something, changes and crashes

ASSUME InteropConstants ==
    /\ Sound \subseteq Contents
    /\ Autofix \in Required /\ Capabilities # {} /\ Actions # {} /\ Heads # {}
    /\ Commands \subseteq {"register", "emit", "emitPlan", "emitDraft", "runMock",
                           "reconcile", "create"}
    /\ Returned \subseteq {"completed", "blocked", "failed"}
    /\ MaxRuns \in Nat

ASSUME InteropSentinels ==
    /\ None \notin Actions /\ None \notin Contents
    /\ PlanId \notin Contents \union {None}

Outcomes == {"completed", "blocked", "failed"}

\* A remediation id comes from the latest test-autofix artifact or from the plan.
Remediations == Contents \union {None, PlanId}

Request  == [action : Actions, rem : Remediations, cap : Capabilities,
             state : Outcomes \union {"pending"}]
Receipt  == [id : Nat, action : Actions, outcome : Outcomes]
Runtime  == [caps : [Capabilities -> Actions \union {None}], requests : Seq(Request),
             receipts : SUBSET Receipt]
Manifest == [sha : Heads, rem : Remediations, artifacts : [Required -> Contents \union {None}]]
Draft    == [cap : Capabilities, action : Actions]

NoManifest == [sha |-> None]
NoDraft    == [cap |-> None]

EmptyRuntime == [caps |-> [c \in Capabilities |-> None], requests |-> <<>>, receipts |-> {}]

\* What an idempotency key stands for.
Keys == Actions \X Remediations

Memory == [op : Commands \union {"none"}, cap : Capabilities \union {None},
           action : Actions \union {None}, approved : BOOLEAN, rt : Runtime,
           truth : SUBSET Receipt, manifest : Manifest \union {NoManifest},
           ran : SUBSET Keys]

Blank == [op |-> "none", cap |-> None, action |-> None, approved |-> FALSE,
          rt |-> EmptyRuntime, truth |-> {}, manifest |-> NoManifest, ran |-> {}]

VARIABLES
    artifacts,  \* the remediation artifacts on disk
    head,       \* git HEAD
    manifest,   \* .playbook/rendezvous-manifest.json
    plan,       \* whether .playbook/plan.json exists
    draft,      \* .playbook/interop-request-draft.json
    mirror,     \* actions of the canonical Fitness contract mirror
    runtime,    \* .playbook/lifeline-interop-runtime.json
    truth,      \* updates of .playbook/interop-updated-truth.json
    pc, mem, exit,
    runs,
    executed    \* history: how often a runtime executed a key: 0, 1 or 2 for more

inputs == <<artifacts, head, plan, draft, mirror>>
vars   == <<inputs, manifest, runtime, truth, pc, mem, exit, runs, executed>>

-----------------------------------------------------------------------------
(* Rendezvous. *)

\* deriveRemediationId: from the test-autofix artifact, if it is readable.
remediationOf(arts) == IF arts[Autofix] \in Sound THEN arts[Autofix] ELSE None

buildRendezvousManifest ==
    [sha |-> head, rem |-> remediationOf(artifacts), artifacts |-> artifacts]

-----------------------------------------------------------------------------
(* The interop runtime. *)

\* registerInteropCapability: one registration per capability id.
registerInteropCapability(rt, c, a) == [rt EXCEPT !.caps[c] = a]

keyOf(request) == <<request.action, request.rem>>

existingRequests(rt, a, rem) == {i \in DOMAIN rt.requests : keyOf(rt.requests[i]) = <<a, rem>>}

\* Mutant: a request is emitted whether or not its key has one.
emitAlways(rt, a, rem, c) ==
    [rt EXCEPT !.requests = Append(@, [action |-> a, rem |-> rem, cap |-> c, state |-> "pending"])]

\* Mutant: emitting a key again makes its request pending again.
emitRearming(rt, a, rem, c) ==
    IF existingRequests(rt, a, rem) = {} THEN emitAlways(rt, a, rem, c)
    ELSE [rt EXCEPT !.requests = [i \in DOMAIN rt.requests |->
            IF i \in existingRequests(rt, a, rem)
            THEN [rt.requests[i] EXCEPT !.state = "pending"] ELSE rt.requests[i]]]

\* emitBoundedInteropActionRequest, once its capability is registered.
emitBoundedInteropActionRequest(rt, a, rem, c) ==
    IF existingRequests(rt, a, rem) # {} THEN rt
    ELSE [rt EXCEPT !.requests =
            Append(@, [action |-> a, rem |-> rem, cap |-> c, state |-> "pending"])]

\* readPlanDerivedReadiness: the manifest if there is one, else the approved plan.
readyFor(op, approved) ==
    \/ manifest # NoManifest
    \/ op # "emit" /\ plan /\ approved

remediationFor == IF manifest # NoManifest THEN manifest.rem ELSE PlanId

receiptsOf(rt, i) == {r \in rt.receipts : r.id = i}

mockOutcome(a) == IF a = "revise_weekly_goal_plan" THEN "blocked" ELSE "completed"

\* Mutant: a blocked request is taken again.
isNextUnlessCompleted(rt, i) ==
    /\ i \in DOMAIN rt.requests
    /\ rt.requests[i].state # "completed"
    /\ \A j \in DOMAIN rt.requests : rt.requests[j].state # "completed" => i <= j

\* The request the mock runtime takes: the first that is pending.
isNext(rt, i) ==
    /\ i \in DOMAIN rt.requests
    /\ rt.requests[i].state = "pending"
    /\ \A j \in DOMAIN rt.requests : rt.requests[j].state = "pending" => i <= j

\* Mutant: the request is left running.
runMockLeftRunning(rt, i) == [rt EXCEPT !.requests[i].state = "running"]

\* Mutant: the request is settled without a receipt.
runMockUnreceipted(rt, i) ==
    [rt EXCEPT !.requests[i].state = mockOutcome(rt.requests[i].action)]

\* runLifelineMockRuntimeOnce on request i; a receipt that is there already is kept.
runLifelineMockRuntimeOnce(rt, i) ==
    LET a == rt.requests[i].action
    IN  [rt EXCEPT !.requests[i].state = mockOutcome(a),
                   !.receipts = IF receiptsOf(rt, i) # {} THEN @
                                ELSE @ \union {[id |-> i, action |-> a,
                                                outcome |-> mockOutcome(a)]}]

\* What reconcile insists on before it changes anything.
reconcilable(rt) ==
    \A r \in rt.receipts : r.id \in DOMAIN rt.requests =>
        r.action = rt.requests[r.id].action /\ r.action \in mirror

\* Mutant: any receipt completes its request.
reconcileAsCompleted(rt) ==
    [rt EXCEPT !.requests = [i \in DOMAIN rt.requests |->
        IF receiptsOf(rt, i) = {} THEN rt.requests[i]
        ELSE [rt.requests[i] EXCEPT !.state = "completed"]]]

\* reconcileInteropRuntime: the state of every request with a receipt is its outcome.
reconcileInteropRuntime(rt) ==
    [rt EXCEPT !.requests = [i \in DOMAIN rt.requests |->
        IF receiptsOf(rt, i) = {} THEN rt.requests[i]
        ELSE [rt.requests[i] EXCEPT !.state = (CHOOSE r \in receiptsOf(rt, i) : TRUE).outcome]]]

\* Mutant: the truth is derived from the requests, as if each were completed.
updatesOfRequests(rt) ==
    {[id |-> i, action |-> rt.requests[i].action, outcome |-> "completed"] :
        i \in DOMAIN rt.requests}

\* Mutant: only completed receipts are carried into the truth.
updatesOfCompleted(rt) == {r \in rt.receipts : r.outcome = "completed"}

\* The entries of the updated truth.
updatesOf(rt) == {r \in rt.receipts : r.id \in DOMAIN rt.requests}

-----------------------------------------------------------------------------
Init ==
    /\ artifacts = [a \in Required |-> None]
    /\ head \in Heads
    /\ manifest = NoManifest /\ plan = FALSE /\ draft = NoDraft /\ mirror = Actions
    /\ runtime = EmptyRuntime /\ truth = {}
    /\ pc = [p \in Procs |-> "idle"]
    /\ mem = [p \in Procs |-> Blank]
    /\ exit = [p \in Procs |-> "none"]
    /\ runs = 0
    /\ executed = [k \in Keys |-> 0]

At(p, label) == pc[p] = label

Goto(p, label) == pc' = [pc EXCEPT ![p] = label] /\ UNCHANGED exit

End(p, how) ==
    /\ pc' = [pc EXCEPT ![p] = "idle"]
    /\ mem' = [mem EXCEPT ![p] = Blank]
    /\ exit' = [exit EXCEPT ![p] = how]

\* The keys in ks are executed once more.
Counted(ks) ==
    [k \in Keys |-> IF k \in ks /\ executed[k] < 2 THEN executed[k] + 1 ELSE executed[k]]

Bounded == runs < MaxRuns /\ runs' = runs + 1

\* A command starts by reading the runtime file; m holds its arguments.
Begin(p, m) ==
    /\ At(p, "idle")
    /\ m.op \in Commands
    /\ pc' = [pc EXCEPT ![p] = "apply"]
    /\ mem' = [mem EXCEPT ![p] = [m EXCEPT !.rt = runtime]]
    /\ exit' = [exit EXCEPT ![p] = "none"]
    /\ UNCHANGED <<inputs, manifest, runtime, truth, executed>>

\* `interop register | emit | emit-fitness-plan --capability c --action a`.
BeginWithAction(p, op, c, a, approved) ==
    /\ Bounded
    /\ Begin(p, [Blank EXCEPT !.op = op, !.cap = c, !.action = a, !.approved = approved])

\* `interop emit-fitness-plan --from-draft`: the draft names capability and action.
BeginFromDraft(p, approved) ==
    /\ Bounded
    /\ draft # NoDraft
    /\ Begin(p, [Blank EXCEPT !.op = "emitDraft", !.cap = draft.cap,
                              !.action = draft.action, !.approved = approved])

\* `rendezvous create`.
BeginCreate(p) == Bounded /\ Begin(p, [Blank EXCEPT !.op = "create"])

\* `interop run-mock` and `interop reconcile`.
BeginPlain(p, op) == Begin(p, [Blank EXCEPT !.op = op]) /\ UNCHANGED runs

-----------------------------------------------------------------------------
(* The command's work on its copy; a failed check ends it without a write. *)

Register(p) ==
    /\ mem[p].op = "register"
    /\ mem' = [mem EXCEPT ![p].rt = registerInteropCapability(@, mem[p].cap, mem[p].action)]
    /\ Goto(p, "write")

\* A request emitted before under the same key is returned as it is; a draft is
\* refused when that request names another capability.
Emit(p) ==
    LET m   == mem[p]
        rem == remediationFor
        old == existingRequests(m.rt, m.action, rem)
    IN  /\ m.op \in {"emit", "emitPlan", "emitDraft"}
        /\ IF /\ readyFor(m.op, m.approved)
              /\ m.rt.caps[m.cap] = m.action
              /\ m.op = "emitDraft" => \A i \in old : m.rt.requests[i].cap = m.cap
           THEN /\ mem' = [mem EXCEPT ![p].rt =
                              emitBoundedInteropActionRequest(@, m.action, rem, m.cap)]
                /\ Goto(p, "write")
           ELSE End(p, "error")

RunMock(p) ==
    LET rt == mem[p].rt
    IN  /\ mem[p].op = "runMock"
        /\ \/ /\ \A i \in DOMAIN rt.requests : ~isNext(rt, i)
              /\ UNCHANGED mem
           \/ \E i \in DOMAIN rt.requests :
                 /\ isNext(rt, i)
                 /\ mem' = [mem EXCEPT ![p].rt = runLifelineMockRuntimeOnce(@, i),
                                       ![p].ran = {keyOf(rt.requests[i])}]
        /\ Goto(p, "write")

Reconcile(p) ==
    /\ mem[p].op = "reconcile"
    /\ IF reconcilable(mem[p].rt)
       THEN /\ mem' = [mem EXCEPT ![p].rt = reconcileInteropRuntime(@),
                                  ![p].truth = updatesOf(mem[p].rt)]
            /\ Goto(p, "writeTruth")
       ELSE End(p, "error")

Create(p) ==
    /\ mem[p].op = "create"
    /\ mem' = [mem EXCEPT ![p].manifest = buildRendezvousManifest]
    /\ Goto(p, "writeManifest")

Apply(p) ==
    /\ At(p, "apply")
    /\ Register(p) \/ Emit(p) \/ RunMock(p) \/ Reconcile(p) \/ Create(p)
    /\ UNCHANGED <<inputs, manifest, runtime, truth, runs, executed>>

\* writeInteropUpdatedTruthArtifact, before the runtime is written.
WriteTruth(p) ==
    /\ At(p, "writeTruth")
    /\ truth' = mem[p].truth
    /\ Goto(p, "write")
    /\ UNCHANGED <<inputs, manifest, runtime, mem, runs, executed>>

\* writeInteropRuntime.
WriteRuntime(p) ==
    /\ At(p, "write")
    /\ runtime' = mem[p].rt
    /\ executed' = Counted(mem[p].ran)
    /\ End(p, "ok")
    /\ UNCHANGED <<inputs, manifest, truth, runs>>

WriteManifest(p) ==
    /\ At(p, "writeManifest")
    /\ manifest' = mem[p].manifest
    /\ End(p, "ok")
    /\ UNCHANGED <<inputs, runtime, truth, runs, executed>>

\* A process is killed between two file operations.
Crash(p) ==
    /\ ~At(p, "idle")
    /\ Bounded
    /\ End(p, "crashed")
    /\ UNCHANGED <<inputs, manifest, runtime, truth, executed>>

-----------------------------------------------------------------------------
(* Everything around the loop. *)

\* The external Lifeline runtime executes a request and returns its receipt.
LifelineReturns(i, outcome) ==
    /\ i \in DOMAIN runtime.requests
    /\ runtime.requests[i].state = "pending"
    /\ receiptsOf(runtime, i) = {}
    /\ runtime' = [runtime EXCEPT !.receipts =
                     @ \union {[id |-> i, action |-> runtime.requests[i].action,
                                outcome |-> outcome]}]
    /\ executed' = Counted({keyOf(runtime.requests[i])})
    /\ UNCHANGED <<inputs, manifest, truth, pc, mem, exit, runs>>

Around == Bounded /\ UNCHANGED <<manifest, runtime, truth, pc, mem, exit, executed>>

\* Another command rewrites a remediation artifact.
ArtifactChanges(a, content) ==
    /\ artifacts[a] # content
    /\ artifacts' = [artifacts EXCEPT ![a] = content]
    /\ UNCHANGED <<head, plan, draft, mirror>>
    /\ Around

HeadMoves(h) ==
    /\ h # head
    /\ head' = h
    /\ UNCHANGED <<artifacts, plan, draft, mirror>>
    /\ Around

PlanWritten ==
    /\ ~plan
    /\ plan' = TRUE
    /\ UNCHANGED <<artifacts, head, draft, mirror>>
    /\ Around

\* `interop draft` compiles an AI proposal.
CompileInteropRequestDraft(d) ==
    /\ draft' = d
    /\ UNCHANGED <<artifacts, head, plan, mirror>>
    /\ Around

\* The contract mirror is synced with a source that dropped or regained an action.
MirrorSynced(a) ==
    /\ mirror' = IF a \in mirror THEN mirror \ {a} ELSE mirror \union {a}
    /\ UNCHANGED <<artifacts, head, plan, draft>>
    /\ Around

-----------------------------------------------------------------------------
Start(p) ==
    \/ \E op \in {"register", "emit"}, c \in Capabilities, a \in Actions :
          BeginWithAction(p, op, c, a, FALSE)
    \/ \E c \in Capabilities, a \in Actions, approved \in BOOLEAN :
          BeginWithAction(p, "emitPlan", c, a, approved)
    \/ \E approved \in BOOLEAN : BeginFromDraft(p, approved)
    \/ BeginCreate(p)
    \/ \E op \in {"runMock", "reconcile"} : BeginPlain(p, op)

Step(p) == Apply(p) \/ WriteTruth(p) \/ WriteRuntime(p) \/ WriteManifest(p)

Lifeline == \E i \in DOMAIN runtime.requests, o \in Returned : LifelineReturns(i, o)

Other ==
    \/ \E a \in Required, content \in Contents : ArtifactChanges(a, content)
    \/ \E h \in Heads : HeadMoves(h)
    \/ PlanWritten
    \/ \E d \in Draft : CompileInteropRequestDraft(d)
    \/ \E a \in Actions : MirrorSynced(a)

Next == Lifeline \/ Other \/ \E p \in Procs : Start(p) \/ Step(p) \/ Crash(p)

Spec == Init /\ [][Next]_vars

\* A running process keeps running, and an operator runs the mock runtime and
\* reconciles again and again.
FairSpec ==
    /\ Spec
    /\ \A p \in Procs : /\ WF_vars(Step(p))
                        /\ SF_vars(BeginPlain(p, "runMock"))
                        /\ SF_vars(BeginPlain(p, "reconcile"))

-----------------------------------------------------------------------------
(* Properties *)

\* Every artifact and every process-local copy has the shape of its schema.
TypeOK ==
    /\ artifacts \in [Required -> Contents \union {None}]
    /\ head \in Heads
    /\ manifest \in Manifest \union {NoManifest}
    /\ plan \in BOOLEAN
    /\ draft \in Draft \union {NoDraft}
    /\ mirror \in SUBSET Actions
    /\ runtime \in Runtime
    /\ truth \in SUBSET Receipt
    /\ pc \in [Procs -> {"idle", "apply", "write", "writeTruth", "writeManifest"}]
    /\ mem \in [Procs -> Memory]
    /\ exit \in [Procs -> {"none", "ok", "error", "crashed"}]
    /\ runs \in 0..MaxRuns
    /\ executed \in [Keys -> 0..2]

\* No action is real without a receipt: every request in the runtime file that is no
\* longer pending has a receipt for its own action, no request has two, and every
\* receipt belongs to a request.
Receipted(rt) ==
    /\ \A i \in DOMAIN rt.requests : rt.requests[i].state # "pending" => receiptsOf(rt, i) # {}
    /\ \A r \in rt.receipts : r.id \in DOMAIN rt.requests
                                /\ r.action = rt.requests[r.id].action
    /\ \A r, s \in rt.receipts : r.id = s.id => r = s

RealOnlyWithReceipt == Receipted(runtime)

\* Emission is idempotent: no two requests have the same action and remediation.
IdempotentRequests(rt) ==
    \A i, j \in DOMAIN rt.requests : keyOf(rt.requests[i]) = keyOf(rt.requests[j]) => i = j

OneRequestPerKey == IdempotentRequests(runtime)

\* A request that is no longer pending has the outcome its receipt reports.
StateIsOutcome ==
    \A r \in runtime.receipts :
        runtime.requests[r.id].state \in {"pending", r.outcome}

\* A key is executed at most once, however often it is emitted, run and reconciled.
ExecutedOnce == \A k \in DOMAIN executed : executed[k] <= 1

\* The updated truth is derived from receipts of the runtime: none of its entries is
\* unknown there.
TruthBacked == truth \subseteq runtime.receipts

\* A reconciled outcome never changes while it stays in the updated truth and the
\* runtime: a request in the truth keeps its state.
TruthIsFinal ==
    [][\A r \in truth : (r \in truth' /\ r.id \in DOMAIN runtime'.requests
                         /\ runtime.requests[r.id].state = r.outcome)
           => runtime'.requests[r.id].state = r.outcome]_vars

\* While the contract mirror knows every action, each emitted request ends up
\* reconciled: its outcome is its state and is in the updated truth.
EveryRequestSettles ==
    <>[](mirror = Actions =>
            \A i \in DOMAIN runtime.requests :
                \E r \in truth : r.id = i /\ runtime.requests[i].state = r.outcome)
=============================================================================
