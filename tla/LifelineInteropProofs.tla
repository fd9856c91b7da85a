------------------------ MODULE LifelineInteropProofs ------------------------
(***************************************************************************)
(* What holds of the interop runtime file for every set of processes,      *)
(* capabilities, actions and artifacts.  Processes overwrite each other's  *)
(* whole files, so the argument is about snapshots: the file and the copy  *)
(* of every process are each the result of operations that keep a runtime  *)
(* good, starting from the empty one, and a write replaces one good        *)
(* snapshot by another.  The second part follows the truth a command       *)
(* writes beside the runtime file; there the copy has to be current, and   *)
(* most of it is stated for one runtime or one process at a time.          *)
(***************************************************************************)
EXTENDS LifelineInterop, TLAPS

Good(rt) == rt \in Runtime /\ Receipted(rt) /\ IdempotentRequests(rt)

\* A process's memory: its copy is good, and a command that needs a capability and an
\* action has them.
GoodMemory(m) ==
    /\ m \in Memory
    /\ Good(m.rt)
    /\ m.op \in {"register", "emit", "emitPlan", "emitDraft"} =>
          m.cap \in Capabilities /\ m.action \in Actions

IInv ==
    /\ TypeOK
    /\ Good(runtime)
    /\ \A p \in Procs : GoodMemory(mem[p])

-----------------------------------------------------------------------------
(* Operations keep a runtime good. *)

LEMMA EmptyGood == Good(EmptyRuntime)
<1>1. EmptyRuntime \in Runtime
  BY DEF EmptyRuntime, Runtime
<1>2. DOMAIN EmptyRuntime.requests = {} /\ EmptyRuntime.receipts = {}
  BY DEF EmptyRuntime
<1> QED BY <1>1, <1>2 DEF Good, Receipted, IdempotentRequests

\* Registering touches the capabilities only.
LEMMA RegisterGood ==
  ASSUME NEW rt, Good(rt), NEW c \in Capabilities, NEW a \in Actions
  PROVE  Good(registerInteropCapability(rt, c, a))
<1> DEFINE new == registerInteropCapability(rt, c, a)
<1>1. /\ new.requests = rt.requests /\ new.receipts = rt.receipts
      /\ new \in Runtime
  BY DEF registerInteropCapability, Good, Runtime
<1> HIDE DEF new
<1>2. Good(new)
  BY <1>1 DEF Good, Receipted, IdempotentRequests, receiptsOf
<1> QED BY <1>2 DEF new

\* A new request is pending, has a key of its own and no receipt yet.
LEMMA EmitGood ==
  ASSUME NEW rt, Good(rt), NEW c \in Capabilities, NEW a \in Actions, NEW rem \in Remediations
  PROVE  Good(emitBoundedInteropActionRequest(rt, a, rem, c))
<1> DEFINE q == [action |-> a, rem |-> rem, cap |-> c, state |-> "pending"]
           s == rt.requests
           new == [rt EXCEPT !.requests = Append(s, q)]
<1>1. CASE existingRequests(rt, a, rem) # {}
  BY <1>1 DEF emitBoundedInteropActionRequest
<1>2. CASE existingRequests(rt, a, rem) = {}
  <2>1. s \in Seq(Request) /\ rt \in Runtime /\ q \in Request /\ rt.receipts \in SUBSET Receipt
    BY DEF Good, Runtime, Request
  <2>2. Append(s, q) \in Seq(Request) /\ Len(Append(s, q)) = Len(s) + 1
    BY <2>1
  <2>3. \A i \in 1..Len(s) : Append(s, q)[i] = s[i]
    BY <2>1
  <2>4. Append(s, q)[Len(s) + 1] = q
    BY <2>1
  <2>5. DOMAIN s = 1..Len(s) /\ DOMAIN Append(s, q) = 1..(Len(s) + 1) /\ Len(s) \in Nat
    BY <2>1, <2>2
  <2>6. new.requests = Append(s, q) /\ new.receipts = rt.receipts /\ new \in Runtime
    BY <2>1, <2>2 DEF Runtime
  <2>7. \A i \in 1..Len(s) : keyOf(s[i]) # keyOf(q)
    BY <1>2, <2>5 DEF existingRequests, keyOf
  <2> DEFINE t == Append(s, q)
  <2> HIDE DEF new
  <2>8. Receipted(new)
    <3>1. ASSUME NEW i \in 1..(Len(s) + 1), t[i].state # "pending" PROVE receiptsOf(rt, i) # {}
      <4>1. i # Len(s) + 1
        BY <2>4, <3>1
      <4> QED BY <4>1, <2>3, <2>5, <3>1 DEF Good, Receipted
    <3>2. ASSUME NEW r \in rt.receipts PROVE r.id \in 1..(Len(s) + 1) /\ r.action = t[r.id].action
      BY <2>3, <2>5 DEF Good, Receipted
    <3> QED BY <2>5, <2>6, <3>1, <3>2 DEF Good, Receipted, receiptsOf
  <2>9. IdempotentRequests(new)
    <3>1. ASSUME NEW i \in 1..(Len(s) + 1), NEW j \in 1..(Len(s) + 1), keyOf(t[i]) = keyOf(t[j])
          PROVE  i = j
      <4>1. CASE i \in 1..Len(s) /\ j \in 1..Len(s)
        BY <2>3, <2>5, <3>1, <4>1 DEF Good, IdempotentRequests
      <4>2. CASE i \in 1..Len(s) /\ j = Len(s) + 1
        BY <2>3, <2>4, <2>7, <3>1, <4>2
      <4>3. CASE i = Len(s) + 1 /\ j \in 1..Len(s)
        BY <2>3, <2>4, <2>7, <3>1, <4>3
      <4> QED BY <2>5, <4>1, <4>2, <4>3
    <3> QED BY <2>5, <2>6, <3>1 DEF IdempotentRequests
  <2>10. emitBoundedInteropActionRequest(rt, a, rem, c) = new
    BY <1>2 DEF emitBoundedInteropActionRequest, new
  <2> QED BY <2>6, <2>8, <2>9, <2>10 DEF Good
<1> QED BY <1>1, <1>2

\* Changing states only, where there are receipts, and adding receipts for requests
\* that have none, keeps a runtime good.
LEMMA SettleGood ==
  ASSUME NEW rt, Good(rt), NEW new \in Runtime,
         DOMAIN new.requests = DOMAIN rt.requests,
         \A i \in DOMAIN rt.requests :
             /\ new.requests[i].action = rt.requests[i].action
             /\ new.requests[i].rem = rt.requests[i].rem
             /\ new.requests[i].state # "pending" =>
                   rt.requests[i].state # "pending" \/ receiptsOf(new, i) # {},
         rt.receipts \subseteq new.receipts,
         \A r \in new.receipts \ rt.receipts :
             /\ r.id \in DOMAIN rt.requests /\ r.action = rt.requests[r.id].action
             /\ receiptsOf(rt, r.id) = {}
             /\ \A s \in new.receipts \ rt.receipts : s = r
  PROVE  Good(new)
<1>1. ASSUME NEW i \in DOMAIN new.requests, new.requests[i].state # "pending"
      PROVE  receiptsOf(new, i) # {}
  <2>1. CASE rt.requests[i].state # "pending"
    <3>1. PICK r \in rt.receipts : r.id = i
      BY <1>1, <2>1 DEF Good, Receipted, receiptsOf
    <3> QED BY <3>1 DEF receiptsOf
  <2> QED BY <1>1, <2>1
<1>2. ASSUME NEW r \in new.receipts
      PROVE  r.id \in DOMAIN new.requests /\ r.action = new.requests[r.id].action
  <2>1. CASE r \in rt.receipts
    BY <2>1 DEF Good, Receipted
  <2>2. CASE r \notin rt.receipts
    BY <1>2, <2>2
  <2> QED BY <2>1, <2>2
<1>3. ASSUME NEW r \in new.receipts, NEW s \in new.receipts, r.id = s.id PROVE r = s
  <2>1. CASE r \in rt.receipts /\ s \in rt.receipts
    BY <1>3, <2>1 DEF Good, Receipted
  <2>2. CASE r \notin rt.receipts /\ s \notin rt.receipts
    BY <2>2
  <2>3. CASE r \in rt.receipts /\ s \notin rt.receipts
    BY <1>3, <2>3 DEF receiptsOf
  <2>4. CASE r \notin rt.receipts /\ s \in rt.receipts
    BY <1>3, <2>4 DEF receiptsOf
  <2> QED BY <2>1, <2>2, <2>3, <2>4
<1>4. Receipted(new)
  BY <1>1, <1>2, <1>3 DEF Receipted
<1>5. IdempotentRequests(new)
  BY DEF Good, IdempotentRequests, keyOf
<1> QED BY <1>4, <1>5 DEF Good

\* The mock runtime settles one request and writes its receipt.
LEMMA RunMockGood ==
  ASSUME NEW rt, Good(rt), NEW i \in DOMAIN rt.requests
  PROVE  Good(runLifelineMockRuntimeOnce(rt, i))
<1> DEFINE a == rt.requests[i].action
           o == mockOutcome(a)
           x == [id |-> i, action |-> a, outcome |-> o]
           s == rt.requests
           reqs == [s EXCEPT ![i].state = o]
           recs == IF receiptsOf(rt, i) # {} THEN rt.receipts ELSE rt.receipts \union {x}
           new == [rt EXCEPT !.requests = reqs, !.receipts = recs]
<1>1. /\ rt \in Runtime /\ s \in Seq(Request) /\ rt.receipts \in SUBSET Receipt
      /\ i \in Nat /\ s[i] \in Request /\ DOMAIN s = 1..Len(s) /\ Len(s) \in Nat
  BY DEF Good, Runtime
<1>2. o \in Outcomes /\ a \in Actions
  BY <1>1 DEF mockOutcome, Outcomes, Request
<1>3. x \in Receipt
  BY <1>1, <1>2 DEF Receipt
<1>4. /\ DOMAIN reqs = DOMAIN s
      /\ \A j \in DOMAIN s : j # i => reqs[j] = s[j]
      /\ reqs[i] = [s[i] EXCEPT !.state = o]
  BY <1>1
<1>5. reqs[i] \in Request /\ reqs[i].action = s[i].action /\ reqs[i].rem = s[i].rem
  BY <1>1, <1>2, <1>4 DEF Request
<1>6. reqs \in Seq(Request)
  <2>1. ASSUME NEW j \in DOMAIN s PROVE reqs[j] \in Request
    BY <1>1, <1>4, <1>5
  <2>2. reqs \in [1..Len(s) -> Request]
    <3> HIDE DEF o
    <3> QED BY <1>1, <1>4, <2>1
  <2> QED BY <1>1, <2>2
<1>7. recs \in SUBSET Receipt /\ rt.receipts \subseteq recs
  BY <1>1, <1>3
<1>8. \E r \in recs : r.id = i
  <2>1. CASE receiptsOf(rt, i) # {}
    BY <2>1 DEF receiptsOf
  <2>2. CASE receiptsOf(rt, i) = {}
    <3>1. x \in recs
      BY <2>2
    <3>2. x.id = i
      OBVIOUS
    <3> QED BY <3>1, <3>2
  <2> QED BY <2>1, <2>2
<1>9. \A r \in recs \ rt.receipts : r = x /\ receiptsOf(rt, i) = {}
  OBVIOUS
<1>10. x.id = i /\ x.action = s[i].action
  OBVIOUS
<1> HIDE DEF reqs, recs, x, o, a
<1>11. new \in Runtime /\ new.requests = reqs /\ new.receipts = recs
  BY <1>1, <1>6, <1>7 DEF Runtime
<1>12. runLifelineMockRuntimeOnce(rt, i) = new
  BY DEF runLifelineMockRuntimeOnce, reqs, recs, x, o, a
<1> HIDE DEF new
<1>13. receiptsOf(new, i) # {}
  BY <1>8, <1>11 DEF receiptsOf
<1>14. ASSUME NEW j \in DOMAIN s
       PROVE  /\ new.requests[j].action = s[j].action /\ new.requests[j].rem = s[j].rem
              /\ new.requests[j].state # "pending" =>
                    s[j].state # "pending" \/ receiptsOf(new, j) # {}
  <2>1. CASE j = i
    BY <1>5, <1>11, <1>13, <2>1
  <2>2. CASE j # i
    BY <1>4, <1>11, <2>2
  <2> QED BY <2>1, <2>2
<1>15. \A r \in new.receipts \ rt.receipts :
           /\ r.id \in DOMAIN s /\ r.action = s[r.id].action
           /\ receiptsOf(rt, r.id) = {}
           /\ \A t \in new.receipts \ rt.receipts : t = r
  BY <1>9, <1>10, <1>11
<1>16. DOMAIN new.requests = DOMAIN s /\ rt.receipts \subseteq new.receipts
  BY <1>4, <1>7, <1>11
<1>17. Good(new)
  BY <1>11, <1>14, <1>15, <1>16, SettleGood, ZenonT(60)
<1> QED BY <1>12, <1>17

\* Reconciling changes the states of requests with receipts.
LEMMA ReconcileGood ==
  ASSUME NEW rt, Good(rt)
  PROVE  Good(reconcileInteropRuntime(rt))
<1> DEFINE s == rt.requests
           to(i) == (CHOOSE r \in receiptsOf(rt, i) : TRUE).outcome
           reqs == [i \in DOMAIN s |-> IF receiptsOf(rt, i) = {} THEN s[i]
                                       ELSE [s[i] EXCEPT !.state = to(i)]]
           new == [rt EXCEPT !.requests = reqs]
<1>1. /\ rt \in Runtime /\ s \in Seq(Request) /\ rt.receipts \in SUBSET Receipt
      /\ DOMAIN s = 1..Len(s) /\ Len(s) \in Nat
  BY DEF Good, Runtime
<1>2. ASSUME NEW i \in DOMAIN s, receiptsOf(rt, i) # {} PROVE to(i) \in Outcomes
  <2>1. (CHOOSE r \in receiptsOf(rt, i) : TRUE) \in receiptsOf(rt, i)
    BY <1>2
  <2> QED BY <1>1, <2>1 DEF receiptsOf, Receipt
<1> HIDE DEF to
<1>3. ASSUME NEW i \in DOMAIN s
      PROVE  /\ reqs[i] \in Request /\ reqs[i].action = s[i].action /\ reqs[i].rem = s[i].rem
             /\ receiptsOf(rt, i) = {} => reqs[i] = s[i]
  <2>1. s[i] \in Request
    BY <1>1
  <2> QED BY <1>2, <2>1 DEF Request
<1>4. DOMAIN reqs = DOMAIN s
  OBVIOUS
<1> HIDE DEF reqs
<1>5. reqs \in Seq(Request)
  <2>1. reqs \in [1..Len(s) -> Request]
    BY <1>1, <1>3, <1>4 DEF reqs
  <2> QED BY <1>1, <2>1
<1>6. new \in Runtime /\ new.requests = reqs /\ new.receipts = rt.receipts
  BY <1>1, <1>5 DEF Runtime
<1>7. reconcileInteropRuntime(rt) = new
  BY DEF reconcileInteropRuntime, reqs, to
<1> HIDE DEF new
<1>8. \A i \in DOMAIN s : receiptsOf(new, i) = receiptsOf(rt, i)
  BY <1>6 DEF receiptsOf
<1>9. ASSUME NEW i \in DOMAIN s
      PROVE  /\ new.requests[i].action = s[i].action /\ new.requests[i].rem = s[i].rem
             /\ new.requests[i].state # "pending" =>
                   s[i].state # "pending" \/ receiptsOf(new, i) # {}
  BY <1>3, <1>6, <1>8
<1>10. DOMAIN new.requests = DOMAIN s /\ rt.receipts \subseteq new.receipts
  BY <1>4, <1>6
<1>11. \A r \in new.receipts \ rt.receipts : FALSE
  BY <1>6
<1>12. Good(new)
  BY <1>6, <1>9, <1>10, <1>11, SettleGood
<1> QED BY <1>7, <1>12

\* A receipt the Lifeline runtime returns is for a request that has none.
LEMMA ReturnGood ==
  ASSUME NEW rt, Good(rt), NEW i \in DOMAIN rt.requests, receiptsOf(rt, i) = {},
         NEW o \in Outcomes
  PROVE  Good([rt EXCEPT !.receipts = @ \union
                  {[id |-> i, action |-> rt.requests[i].action, outcome |-> o]}])
<1> DEFINE x == [id |-> i, action |-> rt.requests[i].action, outcome |-> o]
           new == [rt EXCEPT !.receipts = rt.receipts \union {x}]
<1>1. rt \in Runtime /\ rt.requests \in Seq(Request) /\ rt.receipts \in SUBSET Receipt
      /\ i \in Nat /\ rt.requests[i] \in Request
  BY DEF Good, Runtime
<1>2. x \in Receipt /\ x.id = i /\ x.action = rt.requests[i].action
  BY <1>1 DEF Receipt, Request
<1> HIDE DEF x
<1>3. /\ new \in Runtime /\ new.requests = rt.requests
      /\ new.receipts = rt.receipts \union {x}
  BY <1>1, <1>2 DEF Runtime
<1> HIDE DEF new
<1>4. Good(new)
  BY <1>2, <1>3, SettleGood
<1> QED BY <1>4 DEF new, x

-----------------------------------------------------------------------------
(* The parts of a step. *)

LEMMA BlankGood == GoodMemory(Blank)
<1>1. EmptyRuntime \in Runtime /\ Good(EmptyRuntime)
  BY EmptyGood DEF Good
<1> HIDE DEF EmptyRuntime
<1> QED BY <1>1 DEF GoodMemory, Blank, Memory

\* Replacing one process's memory by a good one.
LEMMA MemoryKept ==
  ASSUME IInv, NEW p \in Procs, NEW m, GoodMemory(m), mem' = [mem EXCEPT ![p] = m]
  PROVE  mem' \in [Procs -> Memory] /\ \A q \in Procs : GoodMemory(mem'[q])
<1>1. mem \in [Procs -> Memory] /\ \A q \in Procs : GoodMemory(mem[q])
  BY DEF IInv, TypeOK
<1>2. m \in Memory
  BY DEF GoodMemory
<1>3. \A q \in Procs : mem'[q] = IF q = p THEN m ELSE mem[q]
  BY <1>1
<1> QED BY <1>1, <1>2, <1>3

\* Replacing one process's copy by a good one.
LEMMA CopyGood ==
  ASSUME NEW m, GoodMemory(m), NEW rt, Good(rt)
  PROVE  GoodMemory([m EXCEPT !.rt = rt])
BY DEF GoodMemory, Memory, Good

LEMMA CountedTyped ==
  ASSUME TypeOK, NEW ks
  PROVE  Counted(ks) \in [Keys -> 0..2]
BY DEF TypeOK, Counted

LEMMA EndKept ==
  ASSUME IInv, NEW p \in Procs, NEW how \in {"ok", "error", "crashed"}, End(p, how)
  PROVE  /\ pc' \in [Procs -> {"idle", "apply", "write", "writeTruth", "writeManifest"}]
         /\ exit' \in [Procs -> {"none", "ok", "error", "crashed"}]
         /\ mem' \in [Procs -> Memory] /\ \A q \in Procs : GoodMemory(mem'[q])
<1>1. mem' = [mem EXCEPT ![p] = Blank]
  BY DEF End
<1>2. mem' \in [Procs -> Memory] /\ \A q \in Procs : GoodMemory(mem'[q])
  BY <1>1, BlankGood, MemoryKept
<1>3. /\ pc' \in [Procs -> {"idle", "apply", "write", "writeTruth", "writeManifest"}]
      /\ exit' \in [Procs -> {"none", "ok", "error", "crashed"}]
  BY DEF End, IInv, TypeOK
<1> QED BY <1>2, <1>3

LEMMA GotoKept ==
  ASSUME IInv, NEW p \in Procs, NEW label \in {"write", "writeTruth", "writeManifest"},
         Goto(p, label)
  PROVE  /\ pc' \in [Procs -> {"idle", "apply", "write", "writeTruth", "writeManifest"}]
         /\ exit' \in [Procs -> {"none", "ok", "error", "crashed"}]
BY DEF Goto, IInv, TypeOK

LEMMA BoundedKept ==
  ASSUME IInv, Bounded
  PROVE  runs' \in 0..MaxRuns
BY InteropConstants DEF Bounded, IInv, TypeOK

-----------------------------------------------------------------------------
(* Commands start with a copy of the file. *)

LEMMA BeginKeeps ==
  ASSUME IInv, NEW p \in Procs, NEW m, GoodMemory(m), Begin(p, m), runs' \in 0..MaxRuns
  PROVE  IInv'
<1>1. GoodMemory([m EXCEPT !.rt = runtime])
  BY CopyGood DEF IInv
<1>2. mem' \in [Procs -> Memory] /\ \A q \in Procs : GoodMemory(mem'[q])
  BY <1>1, MemoryKept DEF Begin
<1>3. /\ pc' \in [Procs -> {"idle", "apply", "write", "writeTruth", "writeManifest"}]
      /\ exit' \in [Procs -> {"none", "ok", "error", "crashed"}]
  BY DEF Begin, IInv, TypeOK
<1>4. runtime' = runtime /\ UNCHANGED <<artifacts, head, plan, draft, mirror, manifest, truth, executed>>
  BY DEF Begin, inputs
<1>5. TypeOK'
  BY <1>2, <1>3, <1>4 DEF IInv, TypeOK
<1> QED BY <1>2, <1>4, <1>5 DEF IInv

LEMMA StartKeeps ==
  ASSUME IInv, NEW p \in Procs, Start(p)
  PROVE  IInv'
<1> DEFINE m(op, c, a, approved) == [Blank EXCEPT !.op = op, !.cap = c, !.action = a,
                                                  !.approved = approved]
<1>1. ASSUME NEW op \in Commands, NEW c \in Capabilities, NEW a \in Actions,
             NEW approved \in BOOLEAN
      PROVE  GoodMemory(m(op, c, a, approved))
  BY BlankGood DEF GoodMemory, Memory
<1>2. ASSUME NEW op \in Commands, op \notin {"register", "emit", "emitPlan", "emitDraft"}
      PROVE  GoodMemory([Blank EXCEPT !.op = op])
  BY <1>2, BlankGood DEF GoodMemory, Memory
<1> HIDE DEF m
<1>3. ASSUME NEW op, NEW c \in Capabilities, NEW a \in Actions, NEW approved \in BOOLEAN,
             Begin(p, m(op, c, a, approved)), Bounded
      PROVE  IInv'
  <2>1. op \in Commands
    BY <1>3 DEF Begin, m, Blank
  <2>2. GoodMemory(m(op, c, a, approved)) /\ runs' \in 0..MaxRuns
    BY <1>1, <1>3, <2>1, BoundedKept
  <2> QED BY <1>3, <2>2, BeginKeeps
<1>4. ASSUME NEW op \in {"runMock", "reconcile", "create"}, Begin(p, [Blank EXCEPT !.op = op]),
             runs' \in 0..MaxRuns
      PROVE  IInv'
  <2>1. op \in Commands
    BY <1>4 DEF Begin, Blank
  <2>2. GoodMemory([Blank EXCEPT !.op = op])
    BY <1>2, <2>1
  <2> QED BY <1>4, <2>2, BeginKeeps
<1>5. CASE \E op \in {"register", "emit"}, c \in Capabilities, a \in Actions :
              BeginWithAction(p, op, c, a, FALSE)
  BY <1>3, <1>5 DEF BeginWithAction, m
<1>6. CASE \E c \in Capabilities, a \in Actions, approved \in BOOLEAN :
              BeginWithAction(p, "emitPlan", c, a, approved)
  BY <1>3, <1>6 DEF BeginWithAction, m
<1>7. CASE \E approved \in BOOLEAN : BeginFromDraft(p, approved)
  <2>1. PICK approved \in BOOLEAN : BeginFromDraft(p, approved)
    BY <1>7
  <2>2. draft.cap \in Capabilities /\ draft.action \in Actions
    BY <2>1 DEF BeginFromDraft, IInv, TypeOK, Draft
  <2> QED BY <1>3, <2>1, <2>2 DEF BeginFromDraft, m
<1>8. CASE BeginCreate(p)
  BY <1>4, <1>8, BoundedKept DEF BeginCreate
<1>9. CASE \E op \in {"runMock", "reconcile"} : BeginPlain(p, op)
  BY <1>4, <1>9 DEF BeginPlain, IInv, TypeOK
<1> QED BY <1>5, <1>6, <1>7, <1>8, <1>9 DEF Start

-----------------------------------------------------------------------------
(* The work on the copy, and the writes. *)

\* What an operation on the copy has to establish.
LEMMA CopyKeeps ==
  ASSUME IInv, NEW p \in Procs, NEW m, GoodMemory(m), mem' = [mem EXCEPT ![p] = m],
         NEW label \in {"write", "writeTruth", "writeManifest"}, Goto(p, label),
         UNCHANGED <<inputs, manifest, runtime, truth, runs, executed>>
  PROVE  IInv'
<1>1. mem' \in [Procs -> Memory] /\ \A q \in Procs : GoodMemory(mem'[q])
  BY MemoryKept
<1>2. /\ pc' \in [Procs -> {"idle", "apply", "write", "writeTruth", "writeManifest"}]
      /\ exit' \in [Procs -> {"none", "ok", "error", "crashed"}]
  BY GotoKept
<1>3. TypeOK'
  BY <1>1, <1>2 DEF IInv, TypeOK, inputs
<1> QED BY <1>1, <1>3 DEF IInv

\* A command that ends leaves the rest alone, or replaces the manifest or the file.
LEMMA EndKeeps ==
  ASSUME IInv, NEW p \in Procs, NEW how \in {"ok", "error", "crashed"}, End(p, how),
         UNCHANGED <<inputs, truth>>, Good(runtime'), manifest' \in Manifest \union {NoManifest},
         runs' \in 0..MaxRuns, executed' \in [Keys -> 0..2]
  PROVE  IInv'
<1>1. /\ pc' \in [Procs -> {"idle", "apply", "write", "writeTruth", "writeManifest"}]
      /\ exit' \in [Procs -> {"none", "ok", "error", "crashed"}]
      /\ mem' \in [Procs -> Memory] /\ \A q \in Procs : GoodMemory(mem'[q])
  BY EndKept
<1>2. runtime' \in Runtime
  BY DEF Good
<1>3. TypeOK'
  BY <1>1, <1>2 DEF IInv, TypeOK, inputs
<1> QED BY <1>1, <1>3 DEF IInv

LEMMA ApplyKeeps ==
  ASSUME IInv, NEW p \in Procs, Apply(p)
  PROVE  IInv'
<1>1. /\ GoodMemory(mem[p]) /\ Good(mem[p].rt) /\ mem \in [Procs -> Memory]
      /\ mem[p] \in Memory
  BY DEF IInv, TypeOK, GoodMemory
<1>2. UNCHANGED <<inputs, manifest, runtime, truth, runs, executed>>
  BY DEF Apply
<1>3. ASSUME NEW how \in {"ok", "error", "crashed"}, End(p, how) PROVE IInv'
  BY <1>2, <1>3, EndKeeps DEF IInv, TypeOK
<1>4. CASE Register(p)
  <2> DEFINE rt == registerInteropCapability(mem[p].rt, mem[p].cap, mem[p].action)
             m == [mem[p] EXCEPT !.rt = rt]
  <2>1. Good(rt)
    BY <1>1, <1>4, RegisterGood DEF Register, GoodMemory
  <2> HIDE DEF rt
  <2>2. GoodMemory(m)
    BY <1>1, <2>1, CopyGood
  <2>3. mem' = [mem EXCEPT ![p] = m]
    BY <1>1, <1>4 DEF Register, rt
  <2> HIDE DEF m
  <2> QED BY <1>2, <1>4, <2>2, <2>3, CopyKeeps DEF Register
<1>5. CASE Emit(p)
  <2> DEFINE rt == emitBoundedInteropActionRequest(mem[p].rt, mem[p].action, remediationFor,
                                                   mem[p].cap)
             m == [mem[p] EXCEPT !.rt = rt]
  <2>1. CASE End(p, "error")
    BY <1>3, <2>1
  <2>2. CASE mem' = [mem EXCEPT ![p].rt = rt] /\ Goto(p, "write")
    <3>1. remediationFor \in Remediations
      BY DEF remediationFor, Remediations, Manifest, IInv, TypeOK
    <3>2. Good(rt)
      BY <1>1, <1>5, <3>1, EmitGood DEF Emit, GoodMemory
    <3> HIDE DEF rt
    <3>3. GoodMemory(m)
      BY <1>1, <3>2, CopyGood
    <3>4. mem' = [mem EXCEPT ![p] = m]
      BY <1>1, <2>2
    <3> HIDE DEF m
    <3> QED BY <1>2, <2>2, <3>3, <3>4, CopyKeeps
  <2>3. (mem' = [mem EXCEPT ![p].rt = rt] /\ Goto(p, "write")) \/ End(p, "error")
    BY <1>5 DEF Emit
  <2> QED BY <2>1, <2>2, <2>3
<1>6. CASE RunMock(p)
  <2> DEFINE rt == mem[p].rt
  <2>1. CASE UNCHANGED mem
    <3>1. mem' = [mem EXCEPT ![p] = mem[p]]
      BY <1>1, <2>1
    <3> QED BY <1>1, <1>2, <1>6, <3>1, CopyKeeps DEF RunMock
  <2>2. ASSUME NEW i \in DOMAIN rt.requests,
               mem' = [mem EXCEPT ![p].rt = runLifelineMockRuntimeOnce(rt, i),
                                  ![p].ran = {keyOf(rt.requests[i])}]
        PROVE  IInv'
    <3> DEFINE new == runLifelineMockRuntimeOnce(rt, i)
               ran == {keyOf(rt.requests[i])}
               m == [mem[p] EXCEPT !.rt = new, !.ran = ran]
    <3>1. Good(new) /\ new \in Runtime
      BY <1>1, RunMockGood DEF Good
    <3>2. ran \in SUBSET Keys
      <4>1. rt.requests \in Seq(Request)
        BY <1>1 DEF Good, Runtime
      <4>2. rt.requests[i] \in Request
        BY <4>1
      <4> QED BY <4>2 DEF keyOf, Keys, Request
    <3> HIDE DEF new, ran
    <3>3. GoodMemory(m)
      BY <1>1, <3>1, <3>2 DEF GoodMemory, Memory
    <3>4. mem' = [mem EXCEPT ![p] = m]
      BY <1>1, <2>2 DEF new, ran
    <3> HIDE DEF m
    <3> QED BY <1>2, <1>6, <3>3, <3>4, CopyKeeps DEF RunMock
  <2> QED BY <1>6, <2>1, <2>2 DEF RunMock
<1>7. CASE Reconcile(p)
  <2> DEFINE new == reconcileInteropRuntime(mem[p].rt)
             updates == updatesOf(mem[p].rt)
             m == [mem[p] EXCEPT !.rt = new, !.truth = updates]
  <2>1. CASE End(p, "error")
    BY <1>3, <2>1
  <2>2. CASE /\ mem' = [mem EXCEPT ![p].rt = new, ![p].truth = updates]
             /\ Goto(p, "writeTruth")
    <3>1. Good(new) /\ new \in Runtime
      BY <1>1, ReconcileGood DEF Good
    <3>2. updates \in SUBSET Receipt
      BY <1>1 DEF updatesOf, Good, Runtime
    <3> HIDE DEF new, updates
    <3>3. GoodMemory(m)
      BY <1>1, <3>1, <3>2 DEF GoodMemory, Memory
    <3>4. mem' = [mem EXCEPT ![p] = m]
      BY <1>1, <2>2
    <3> HIDE DEF m
    <3> QED BY <1>2, <2>2, <3>3, <3>4, CopyKeeps
  <2> QED BY <1>7, <2>1, <2>2 DEF Reconcile
<1>8. CASE Create(p)
  <2> DEFINE b == buildRendezvousManifest
             m == [mem[p] EXCEPT !.manifest = b]
  <2>1. b \in Manifest
    <3>1. remediationOf(artifacts) \in Remediations
      BY InteropConstants DEF remediationOf, Remediations
    <3> QED BY <3>1 DEF buildRendezvousManifest, Manifest, IInv, TypeOK
  <2> HIDE DEF b
  <2>2. GoodMemory(m)
    BY <1>1, <2>1 DEF GoodMemory, Memory
  <2>3. mem' = [mem EXCEPT ![p] = m]
    BY <1>1, <1>8 DEF Create, b
  <2> HIDE DEF m
  <2> QED BY <1>2, <1>8, <2>2, <2>3, CopyKeeps DEF Create
<1> QED BY <1>4, <1>5, <1>6, <1>7, <1>8 DEF Apply

LEMMA WriteTruthKeeps ==
  ASSUME IInv, NEW p \in Procs, WriteTruth(p)
  PROVE  IInv'
<1>1. mem[p].truth \in SUBSET Receipt
  BY DEF IInv, TypeOK, Memory
<1>2. /\ pc' \in [Procs -> {"idle", "apply", "write", "writeTruth", "writeManifest"}]
      /\ exit' \in [Procs -> {"none", "ok", "error", "crashed"}]
  BY GotoKept DEF WriteTruth
<1>3. TypeOK'
  BY <1>1, <1>2 DEF WriteTruth, IInv, TypeOK, inputs
<1> QED BY <1>3 DEF WriteTruth, IInv

\* The write that replaces one good snapshot by another.
LEMMA WriteRuntimeKeeps ==
  ASSUME IInv, NEW p \in Procs, WriteRuntime(p)
  PROVE  IInv'
<1>1. Good(runtime')
  BY DEF WriteRuntime, IInv, GoodMemory
<1>2. executed' \in [Keys -> 0..2]
  BY CountedTyped DEF WriteRuntime, IInv
<1> QED BY <1>1, <1>2, EndKeeps DEF WriteRuntime, IInv, TypeOK

LEMMA WriteManifestKeeps ==
  ASSUME IInv, NEW p \in Procs, WriteManifest(p)
  PROVE  IInv'
<1>1. manifest' \in Manifest \union {NoManifest}
  BY DEF WriteManifest, IInv, TypeOK, Memory
<1> QED BY <1>1, EndKeeps DEF WriteManifest, IInv, TypeOK

LEMMA CrashKeeps ==
  ASSUME IInv, NEW p \in Procs, Crash(p)
  PROVE  IInv'
BY EndKeeps, BoundedKept DEF Crash, IInv, TypeOK

-----------------------------------------------------------------------------
(* Everything around the loop. *)

LEMMA LifelineKeeps ==
  ASSUME IInv, NEW i, NEW o \in Returned, LifelineReturns(i, o)
  PROVE  IInv'
<1>1. Good(runtime')
  BY ReturnGood, InteropConstants DEF LifelineReturns, IInv, Outcomes
<1>2. executed' \in [Keys -> 0..2]
  BY CountedTyped DEF LifelineReturns, IInv
<1>3. TypeOK'
  BY <1>1, <1>2 DEF LifelineReturns, IInv, TypeOK, Good, inputs
<1> QED BY <1>1, <1>3 DEF LifelineReturns, IInv

LEMMA OtherKeeps ==
  ASSUME IInv, Other
  PROVE  IInv'
<1>1. Around
  BY DEF Other, ArtifactChanges, HeadMoves, PlanWritten, CompileInteropRequestDraft, MirrorSynced
<1>2. runs' \in 0..MaxRuns
  BY <1>1, BoundedKept DEF Around
<1>3. /\ artifacts' \in [Required -> Contents \union {None}] /\ head' \in Heads
      /\ plan' \in BOOLEAN /\ draft' \in Draft \union {NoDraft} /\ mirror' \in SUBSET Actions
  <2>1. CASE \E a \in Required, content \in Contents : ArtifactChanges(a, content)
    BY <2>1 DEF ArtifactChanges, IInv, TypeOK
  <2>2. CASE \E h \in Heads : HeadMoves(h)
    BY <2>2 DEF HeadMoves, IInv, TypeOK
  <2>3. CASE PlanWritten
    BY <2>3 DEF PlanWritten, IInv, TypeOK
  <2>4. CASE \E d \in Draft : CompileInteropRequestDraft(d)
    BY <2>4 DEF CompileInteropRequestDraft, IInv, TypeOK
  <2>5. CASE \E a \in Actions : MirrorSynced(a)
    BY <2>5 DEF MirrorSynced, IInv, TypeOK
  <2> QED BY <2>1, <2>2, <2>3, <2>4, <2>5 DEF Other
<1>4. TypeOK'
  BY <1>1, <1>2, <1>3 DEF Around, IInv, TypeOK
<1> QED BY <1>1, <1>4 DEF Around, IInv

LEMMA InitGood == Init => IInv
<1> SUFFICES ASSUME Init PROVE IInv
  OBVIOUS
<1>1. Good(EmptyRuntime) /\ EmptyRuntime \in Runtime /\ GoodMemory(Blank) /\ Blank \in Memory
  BY EmptyGood, BlankGood DEF Good, GoodMemory
<1> HIDE DEF EmptyRuntime, Blank
<1>2. /\ artifacts \in [Required -> Contents \union {None}] /\ head \in Heads
      /\ manifest \in Manifest \union {NoManifest} /\ plan \in BOOLEAN
      /\ draft \in Draft \union {NoDraft} /\ mirror \in SUBSET Actions
  BY DEF Init
<1>3. /\ runtime \in Runtime /\ truth \in SUBSET Receipt
      /\ pc \in [Procs -> {"idle", "apply", "write", "writeTruth", "writeManifest"}]
      /\ exit \in [Procs -> {"none", "ok", "error", "crashed"}]
      /\ mem \in [Procs -> Memory]
  BY <1>1 DEF Init
<1>4. runs \in 0..MaxRuns /\ executed \in [Keys -> 0..2]
  BY InteropConstants DEF Init
<1>5. TypeOK
  BY <1>2, <1>3, <1>4 DEF TypeOK
<1> QED BY <1>1, <1>5 DEF Init, IInv

\* IInv is inductive.
LEMMA Inductive == IInv /\ [Next]_vars => IInv'
<1> SUFFICES ASSUME IInv, [Next]_vars PROVE IInv'
  OBVIOUS
<1>1. CASE Next
  BY <1>1, LifelineKeeps, OtherKeeps, StartKeeps, ApplyKeeps, WriteTruthKeeps,
     WriteRuntimeKeeps, WriteManifestKeeps, CrashKeeps DEF Next, Lifeline, Step
<1>2. CASE UNCHANGED vars
  BY <1>2 DEF vars, inputs, IInv, TypeOK
<1> QED BY <1>1, <1>2

\* Every artifact the interop and rendezvous commands write, and every copy a process
\* holds, has the shape of its schema, however processes overlap or die.
THEOREM InteropTypes == Spec => []TypeOK
<1>1. IInv => TypeOK
  BY DEF IInv
<1> QED BY <1>1, InitGood, Inductive, PTL DEF Spec

\* No action is real without a receipt: whatever the processes overwrite, a request that
\* left the pending state has exactly one receipt, for its own action.
THEOREM RealWithReceipt == Spec => []RealOnlyWithReceipt
<1>1. IInv => RealOnlyWithReceipt
  BY DEF IInv, Good, RealOnlyWithReceipt
<1> QED BY <1>1, InitGood, Inductive, PTL DEF Spec

\* Emission is idempotent for any number of overlapping emitters: two requests in the
\* runtime file never share an idempotency key.
THEOREM OneRequest == Spec => []OneRequestPerKey
<1>1. IInv => OneRequestPerKey
  BY DEF IInv, Good, OneRequestPerKey
<1> QED BY <1>1, InitGood, Inductive, PTL DEF Spec

-----------------------------------------------------------------------------
(* What one runtime at a time, and one command at a time, add.  A request is *)
(* executed by the mock runtime or by the external one; runs that mix the    *)
(* two have no common outcome for a request.                                 *)

OneRuntime == "runMock" \in Commands => Returned = {}

\* One command at a time.
Sole == \A p, q \in Procs : p = q

\* Every receipt agrees with its request, and a mock receipt has the outcome of its action.
Settled(rt) ==
    \A r \in rt.receipts :
        /\ rt.requests[r.id].state \in {"pending", r.outcome}
        /\ "runMock" \in Commands => r.outcome = mockOutcome(r.action)

FInv == Settled(runtime) /\ \A p \in Procs : Settled(mem[p].rt)

\* The updated truth is behind the file, and behind the copy that will replace it.
TInv ==
    /\ truth \subseteq runtime.receipts
    /\ \A p \in Procs :
         /\ pc[p] # "idle" => truth \subseteq mem[p].rt.receipts
         /\ pc[p] = "apply" => mem[p].rt.receipts \subseteq runtime.receipts
         /\ pc[p] = "writeTruth" =>
              mem[p].truth \subseteq mem[p].rt.receipts /\ mem[p].truth \subseteq runtime.receipts

\* The requests of new are those of old and perhaps one more, none of them undone.
Advances(old, new) ==
    \A i \in DOMAIN old :
        /\ i \in DOMAIN new /\ keyOf(new[i]) = keyOf(old[i])
        /\ old[i].state # "pending" => new[i].state = old[i].state

\* The copy that will replace the file undoes no request of it.
AInv ==
    \A p \in Procs :
        /\ pc[p] = "apply" => mem[p].rt.requests = runtime.requests
        /\ pc[p] \in {"write", "writeTruth"} => Advances(runtime.requests, mem[p].rt.requests)

\* The requests of a file that are executed, by their keys.
Executed(requests, k) ==
    \E i \in DOMAIN requests : keyOf(requests[i]) = k /\ requests[i].state # "pending"

\* A key counted as executed has a request that shows it, and what a process is about to count
\* is not executed in the file but is in its copy.
XInv ==
    /\ \A k \in Keys : executed[k] # 0 => executed[k] = 1 /\ Executed(runtime.requests, k)
    /\ \A p \in Procs :
         /\ pc[p] \in {"apply", "writeTruth"} => mem[p].ran = {}
         /\ pc[p] = "write" => \A k \in mem[p].ran : /\ ~Executed(runtime.requests, k)
                                                     /\ Executed(mem[p].rt.requests, k)

-----------------------------------------------------------------------------
(* What the operations do to requests and receipts. *)

LEMMA EmitFacts ==
  ASSUME NEW rt, Good(rt), NEW c \in Capabilities, NEW a \in Actions, NEW rem \in Remediations
  PROVE  LET new == emitBoundedInteropActionRequest(rt, a, rem, c)
         IN  /\ new.receipts = rt.receipts
             /\ \A i \in DOMAIN rt.requests :
                   i \in DOMAIN new.requests /\ new.requests[i] = rt.requests[i]
<1> DEFINE q == [action |-> a, rem |-> rem, cap |-> c, state |-> "pending"]
           s == rt.requests
           new == [rt EXCEPT !.requests = Append(s, q)]
<1>1. rt \in Runtime /\ s \in Seq(Request) /\ q \in Request
  BY DEF Good, Runtime, Request
<1>2. CASE existingRequests(rt, a, rem) # {}
  BY <1>2 DEF emitBoundedInteropActionRequest
<1>3. CASE existingRequests(rt, a, rem) = {}
  <2>1. emitBoundedInteropActionRequest(rt, a, rem, c) = new
    BY <1>3 DEF emitBoundedInteropActionRequest
  <2>2. new.requests = Append(s, q) /\ new.receipts = rt.receipts
    BY <1>1 DEF Runtime
  <2>3. \A i \in DOMAIN s : i \in DOMAIN Append(s, q) /\ Append(s, q)[i] = s[i]
    BY <1>1
  <2> QED BY <2>1, <2>2, <2>3
<1> QED BY <1>2, <1>3

LEMMA MockFacts ==
  ASSUME NEW rt, Good(rt), NEW i \in DOMAIN rt.requests
  PROVE  LET new == runLifelineMockRuntimeOnce(rt, i)
             s == rt.requests
             x == [id |-> i, action |-> s[i].action, outcome |-> mockOutcome(s[i].action)]
         IN  /\ DOMAIN new.requests = DOMAIN s
             /\ \A j \in DOMAIN s : j # i => new.requests[j] = s[j]
             /\ keyOf(new.requests[i]) = keyOf(s[i])
             /\ new.requests[i].state = mockOutcome(s[i].action)
             /\ rt.receipts \subseteq new.receipts /\ new.receipts \subseteq rt.receipts \union {x}
<1> DEFINE s == rt.requests
           o == mockOutcome(s[i].action)
           x == [id |-> i, action |-> s[i].action, outcome |-> o]
           reqs == [s EXCEPT ![i].state = o]
           recs == IF receiptsOf(rt, i) # {} THEN rt.receipts ELSE rt.receipts \union {x}
           new == [rt EXCEPT !.requests = reqs, !.receipts = recs]
<1>1. rt \in Runtime /\ s \in Seq(Request) /\ s[i] \in Request
  BY DEF Good, Runtime
<1>2. runLifelineMockRuntimeOnce(rt, i) = new
  BY DEF runLifelineMockRuntimeOnce
<1>3. /\ DOMAIN reqs = DOMAIN s /\ \A j \in DOMAIN s : j # i => reqs[j] = s[j]
      /\ reqs[i] = [s[i] EXCEPT !.state = o]
  BY <1>1
<1>4. keyOf(reqs[i]) = keyOf(s[i]) /\ reqs[i].state = o
  BY <1>1, <1>3 DEF keyOf, Request
<1>5. rt.receipts \subseteq recs /\ recs \subseteq rt.receipts \union {x}
  OBVIOUS
<1> HIDE DEF reqs, recs, o, x
<1>6. new.requests = reqs /\ new.receipts = recs
  BY <1>1 DEF Runtime
<1> HIDE DEF new
<1> QED BY <1>2, <1>3, <1>4, <1>5, <1>6 DEF x, o

LEMMA ReconcileFacts ==
  ASSUME NEW rt, Good(rt)
  PROVE  LET new == reconcileInteropRuntime(rt)
             s == rt.requests
         IN  /\ DOMAIN new.requests = DOMAIN s /\ new.receipts = rt.receipts
             /\ \A i \in DOMAIN s : /\ keyOf(new.requests[i]) = keyOf(s[i])
                                    /\ receiptsOf(rt, i) = {} => new.requests[i] = s[i]
             /\ \A r \in rt.receipts : new.requests[r.id].state = r.outcome
<1> DEFINE s == rt.requests
           to(i) == (CHOOSE r \in receiptsOf(rt, i) : TRUE).outcome
           reqs == [i \in DOMAIN s |-> IF receiptsOf(rt, i) = {} THEN s[i]
                                       ELSE [s[i] EXCEPT !.state = to(i)]]
           new == [rt EXCEPT !.requests = reqs]
<1>1. rt \in Runtime /\ s \in Seq(Request) /\ \A i \in DOMAIN s : s[i] \in Request
  BY DEF Good, Runtime
<1>2. ASSUME NEW r \in rt.receipts
      PROVE  r.id \in DOMAIN s /\ receiptsOf(rt, r.id) # {} /\ to(r.id) = r.outcome
  <2>1. receiptsOf(rt, r.id) = {r} /\ r.id \in DOMAIN s
    BY DEF Good, Receipted, receiptsOf
  <2> QED BY <2>1
<1> HIDE DEF to
<1>3. DOMAIN reqs = DOMAIN s
  OBVIOUS
<1>4. ASSUME NEW i \in DOMAIN s
      PROVE  /\ keyOf(reqs[i]) = keyOf(s[i])
             /\ receiptsOf(rt, i) = {} => reqs[i] = s[i]
             /\ receiptsOf(rt, i) # {} => reqs[i].state = to(i)
  BY <1>1 DEF keyOf, Request
<1> HIDE DEF reqs
<1>5. reconcileInteropRuntime(rt) = new
  BY DEF reconcileInteropRuntime, reqs, to
<1>6. new.requests = reqs /\ new.receipts = rt.receipts
  BY <1>1 DEF Runtime
<1> HIDE DEF new
<1> QED BY <1>2, <1>3, <1>4, <1>5, <1>6

-----------------------------------------------------------------------------
(* A step, seen from the runtime file, the truth and the processes' copies. *)

\* What a command's work makes of its memory, and where it goes with it.
Worked(m, n, label) ==
    \/ /\ label = "write" /\ n.ran = m.ran /\ n.rt.receipts = m.rt.receipts
       /\ \A i \in DOMAIN m.rt.requests :
             i \in DOMAIN n.rt.requests /\ n.rt.requests[i] = m.rt.requests[i]
    \/ /\ label = "write" /\ "runMock" \in Commands
       /\ \E i \in DOMAIN m.rt.requests :
             /\ m.rt.requests[i].state = "pending"
             /\ n.rt = runLifelineMockRuntimeOnce(m.rt, i)
             /\ n.ran = {keyOf(m.rt.requests[i])}
    \/ /\ label = "writeTruth" /\ n.ran = m.ran
       /\ n.rt = reconcileInteropRuntime(m.rt) /\ n.truth = updatesOf(m.rt)
    \/ label = "writeManifest" /\ n.rt = m.rt

\* Process p goes to a label with memory m; the files are as they were.
Moves(p, label, m) ==
    /\ pc' = [pc EXCEPT ![p] = label] /\ mem' = [mem EXCEPT ![p] = m]
    /\ UNCHANGED <<runtime, truth, executed>>

BeginStep(p)   == \E m \in Memory : m.rt = runtime /\ m.ran = {} /\ Moves(p, "apply", m)
EndStep(p)     == Moves(p, "idle", Blank)
WorkStep(p)    == /\ pc[p] = "apply"
                  /\ \E m \in Memory, label \in {"write", "writeTruth", "writeManifest"} :
                        Worked(mem[p], m, label) /\ Moves(p, label, m)
TruthStep(p)   == /\ pc[p] = "writeTruth" /\ pc' = [pc EXCEPT ![p] = "write"]
                  /\ truth' = mem[p].truth /\ UNCHANGED <<runtime, executed, mem>>
RuntimeStep(p) == /\ pc[p] = "write" /\ pc' = [pc EXCEPT ![p] = "idle"]
                  /\ mem' = [mem EXCEPT ![p] = Blank]
                  /\ runtime' = mem[p].rt /\ executed' = Counted(mem[p].ran) /\ UNCHANGED truth
ReturnStep     == /\ Lifeline /\ UNCHANGED <<truth, pc, mem>>
QuietStep      == UNCHANGED <<runtime, truth, executed, pc, mem>>

Seen == \/ ReturnStep \/ QuietStep
        \/ \E p \in Procs : BeginStep(p) \/ EndStep(p) \/ WorkStep(p) \/ TruthStep(p)
                            \/ RuntimeStep(p)

LEMMA BeginSeen ==
  ASSUME IInv, NEW p \in Procs, Start(p)
  PROVE  BeginStep(p)
<1>1. ASSUME NEW m, Begin(p, m), m \in Memory, m.ran = {} PROVE BeginStep(p)
  <2> DEFINE n == [m EXCEPT !.rt = runtime]
  <2>1. n \in Memory /\ n.rt = runtime /\ n.ran = {}
    BY <1>1 DEF Memory, IInv, TypeOK
  <2>2. Moves(p, "apply", n)
    BY <1>1 DEF Begin, Moves
  <2> QED BY <2>1, <2>2 DEF BeginStep
<1>2. Blank \in Memory /\ Blank.ran = {}
  BY BlankGood DEF GoodMemory, Blank
<1> HIDE DEF Blank
<1>3. ASSUME NEW op \in Commands, NEW c \in Capabilities, NEW a \in Actions,
             NEW approved \in BOOLEAN,
             Begin(p, [Blank EXCEPT !.op = op, !.cap = c, !.action = a, !.approved = approved])
      PROVE  BeginStep(p)
  <2> DEFINE m == [Blank EXCEPT !.op = op, !.cap = c, !.action = a, !.approved = approved]
  <2>1. m \in Memory /\ m.ran = {}
    BY <1>2 DEF Memory
  <2> QED BY <1>1, <1>3, <2>1
<1>4. ASSUME NEW op \in Commands, Begin(p, [Blank EXCEPT !.op = op])
      PROVE  BeginStep(p)
  <2> DEFINE m == [Blank EXCEPT !.op = op]
  <2>1. m \in Memory /\ m.ran = {}
    BY <1>2 DEF Memory
  <2> QED BY <1>1, <1>4, <2>1
<1>5. CASE \E op \in {"register", "emit"}, c \in Capabilities, a \in Actions :
              BeginWithAction(p, op, c, a, FALSE)
  <2>1. PICK op \in {"register", "emit"}, c \in Capabilities, a \in Actions :
           BeginWithAction(p, op, c, a, FALSE)
    BY <1>5
  <2>2. op \in Commands
    BY <2>1, <1>2 DEF BeginWithAction, Begin, Memory
  <2> QED BY <1>3, <2>1, <2>2 DEF BeginWithAction
<1>6. CASE \E c \in Capabilities, a \in Actions, approved \in BOOLEAN :
              BeginWithAction(p, "emitPlan", c, a, approved)
  <2>1. PICK c \in Capabilities, a \in Actions, approved \in BOOLEAN :
           BeginWithAction(p, "emitPlan", c, a, approved)
    BY <1>6
  <2>2. "emitPlan" \in Commands
    BY <2>1, <1>2 DEF BeginWithAction, Begin, Memory
  <2> QED BY <1>3, <2>1, <2>2 DEF BeginWithAction
<1>7. CASE \E approved \in BOOLEAN : BeginFromDraft(p, approved)
  <2>1. PICK approved \in BOOLEAN : BeginFromDraft(p, approved)
    BY <1>7
  <2>2. draft.cap \in Capabilities /\ draft.action \in Actions
    BY <2>1 DEF BeginFromDraft, IInv, TypeOK, Draft
  <2>3. "emitDraft" \in Commands
    BY <2>1, <1>2 DEF BeginFromDraft, Begin, Memory
  <2> QED BY <1>3, <2>1, <2>2, <2>3 DEF BeginFromDraft
<1>8. CASE BeginCreate(p)
  <2>1. "create" \in Commands
    BY <1>2, <1>8 DEF BeginCreate, Begin, Memory
  <2> QED BY <1>4, <1>8, <2>1 DEF BeginCreate
<1>9. CASE \E op \in {"runMock", "reconcile"} : BeginPlain(p, op)
  <2>1. PICK op \in {"runMock", "reconcile"} : BeginPlain(p, op)
    BY <1>9
  <2>2. op \in Commands
    BY <1>2, <2>1 DEF BeginPlain, Begin, Memory
  <2> QED BY <1>4, <2>1, <2>2 DEF BeginPlain
<1> QED BY <1>5, <1>6, <1>7, <1>8, <1>9 DEF Start

LEMMA ApplySeen ==
  ASSUME IInv, NEW p \in Procs, Apply(p)
  PROVE  WorkStep(p) \/ EndStep(p)
<1>1. /\ GoodMemory(mem[p]) /\ Good(mem[p].rt) /\ mem \in [Procs -> Memory]
      /\ mem[p] \in Memory /\ mem[p].rt \in Runtime
  BY DEF IInv, TypeOK, GoodMemory, Good
<1>2. pc[p] = "apply" /\ UNCHANGED <<runtime, truth, executed>>
  BY DEF Apply, At
<1>a. IInv'
  BY ApplyKeeps
<1>b. mem'[p] \in Memory
  BY <1>a DEF IInv, TypeOK
<1>3. ASSUME NEW label \in {"write", "writeTruth", "writeManifest"}, Goto(p, label), NEW m,
             mem' = [mem EXCEPT ![p] = m], Worked(mem[p], m, label)
      PROVE  WorkStep(p)
  <2>1. m \in Memory
    BY <1>1, <1>3, <1>b
  <2> QED BY <1>2, <1>3, <2>1 DEF WorkStep, Moves, Goto
<1>4. ASSUME NEW how, End(p, how) PROVE EndStep(p)
  BY <1>2, <1>4 DEF End, EndStep, Moves
<1>5. CASE Register(p)
  <2> DEFINE rt == registerInteropCapability(mem[p].rt, mem[p].cap, mem[p].action)
             m == [mem[p] EXCEPT !.rt = rt]
  <2>1. rt.requests = mem[p].rt.requests /\ rt.receipts = mem[p].rt.receipts
    BY <1>1 DEF registerInteropCapability, Runtime
  <2> HIDE DEF rt
  <2>2. mem' = [mem EXCEPT ![p] = m] /\ Goto(p, "write")
    BY <1>1, <1>5 DEF Register, rt
  <2>3. m.rt = rt /\ m.ran = mem[p].ran
    BY <1>1 DEF Memory
  <2> HIDE DEF m
  <2>4. Worked(mem[p], m, "write")
    BY <2>1, <2>3 DEF Worked
  <2> QED BY <1>3, <2>2, <2>4
<1>6. CASE Emit(p)
  <2> DEFINE rt == emitBoundedInteropActionRequest(mem[p].rt, mem[p].action, remediationFor,
                                                   mem[p].cap)
             m == [mem[p] EXCEPT !.rt = rt]
  <2>1. CASE End(p, "error")
    BY <1>4, <2>1
  <2>2. CASE mem' = [mem EXCEPT ![p].rt = rt] /\ Goto(p, "write")
    <3>1. remediationFor \in Remediations
      BY DEF remediationFor, Remediations, Manifest, IInv, TypeOK
    <3>2. mem[p].cap \in Capabilities /\ mem[p].action \in Actions
      BY <1>1, <1>6 DEF Emit, GoodMemory
    <3>3. /\ rt.receipts = mem[p].rt.receipts
          /\ \A i \in DOMAIN mem[p].rt.requests :
                i \in DOMAIN rt.requests /\ rt.requests[i] = mem[p].rt.requests[i]
      BY <1>1, <3>1, <3>2, EmitFacts
    <3> HIDE DEF rt
    <3>4. mem' = [mem EXCEPT ![p] = m]
      BY <1>1, <2>2
    <3>5. m.rt = rt /\ m.ran = mem[p].ran
      BY <1>1 DEF Memory
    <3> HIDE DEF m
    <3>6. Worked(mem[p], m, "write")
      BY <3>3, <3>5 DEF Worked
    <3> QED BY <1>3, <2>2, <3>4, <3>6
  <2>3. (mem' = [mem EXCEPT ![p].rt = rt] /\ Goto(p, "write")) \/ End(p, "error")
    BY <1>6 DEF Emit
  <2> QED BY <2>1, <2>2, <2>3
<1>7. CASE RunMock(p)
  <2> DEFINE rt == mem[p].rt
  <2>1. Goto(p, "write") /\ "runMock" \in Commands
    BY <1>1, <1>7 DEF RunMock, Memory
  <2>2. CASE UNCHANGED mem
    <3>1. mem' = [mem EXCEPT ![p] = mem[p]]
      BY <1>1, <2>2
    <3>2. Worked(mem[p], mem[p], "write")
      BY DEF Worked
    <3> QED BY <1>3, <2>1, <3>1, <3>2
  <2>3. ASSUME NEW i \in DOMAIN rt.requests, isNext(rt, i),
               mem' = [mem EXCEPT ![p].rt = runLifelineMockRuntimeOnce(rt, i),
                                  ![p].ran = {keyOf(rt.requests[i])}]
        PROVE  WorkStep(p)
    <3> DEFINE new == runLifelineMockRuntimeOnce(rt, i)
               ran == {keyOf(rt.requests[i])}
               m == [mem[p] EXCEPT !.rt = new, !.ran = ran]
    <3>1. rt.requests[i].state = "pending"
      BY <2>3 DEF isNext
    <3> HIDE DEF new, ran
    <3>2. mem' = [mem EXCEPT ![p] = m]
      BY <1>1, <2>3 DEF new, ran
    <3>3. m.rt = new /\ m.ran = ran
      BY <1>1 DEF Memory
    <3> HIDE DEF m
    <3>4. Worked(mem[p], m, "write")
      BY <2>1, <3>1, <3>3 DEF Worked, new, ran
    <3> QED BY <1>3, <2>1, <3>2, <3>4
  <2> QED BY <1>7, <2>2, <2>3 DEF RunMock
<1>8. CASE Reconcile(p)
  <2> DEFINE new == reconcileInteropRuntime(mem[p].rt)
             updates == updatesOf(mem[p].rt)
             m == [mem[p] EXCEPT !.rt = new, !.truth = updates]
  <2>1. CASE End(p, "error")
    BY <1>4, <2>1
  <2>2. CASE /\ mem' = [mem EXCEPT ![p].rt = new, ![p].truth = updates]
             /\ Goto(p, "writeTruth")
    <3> HIDE DEF new, updates
    <3>1. mem' = [mem EXCEPT ![p] = m]
      BY <1>1, <2>2
    <3>2. m.rt = new /\ m.truth = updates /\ m.ran = mem[p].ran
      BY <1>1 DEF Memory
    <3> HIDE DEF m
    <3>3. Worked(mem[p], m, "writeTruth")
      BY <3>2 DEF Worked, new, updates
    <3> QED BY <1>3, <2>2, <3>1, <3>3
  <2> QED BY <1>8, <2>1, <2>2 DEF Reconcile
<1>9. CASE Create(p)
  <2> DEFINE b == buildRendezvousManifest
             m == [mem[p] EXCEPT !.manifest = b]
  <2> HIDE DEF b
  <2>1. mem' = [mem EXCEPT ![p] = m] /\ Goto(p, "writeManifest")
    BY <1>1, <1>9 DEF Create, b
  <2>2. m.rt = mem[p].rt
    BY <1>1 DEF Memory
  <2> HIDE DEF m
  <2> QED BY <1>3, <2>1, <2>2 DEF Worked
<1> QED BY <1>5, <1>6, <1>7, <1>8, <1>9 DEF Apply

LEMMA StepSeen ==
  ASSUME IInv, [Next]_vars
  PROVE  Seen
<1>1. CASE Lifeline
  BY <1>1 DEF Lifeline, LifelineReturns, ReturnStep, Seen
<1>2. CASE Other \/ UNCHANGED vars
  <2>1. QuietStep
    BY <1>2 DEF Other, ArtifactChanges, HeadMoves, PlanWritten, CompileInteropRequestDraft,
                MirrorSynced, Around, vars, QuietStep
  <2> QED BY <2>1 DEF Seen
<1>3. ASSUME NEW p \in Procs, Start(p) \/ Step(p) \/ Crash(p) PROVE Seen
  <2>1. CASE Start(p)
    BY <2>1, BeginSeen DEF Seen
  <2>2. CASE Apply(p)
    BY <2>2, ApplySeen DEF Seen
  <2>3. CASE WriteTruth(p)
    <3>1. TruthStep(p)
      BY <2>3 DEF WriteTruth, At, Goto, TruthStep
    <3> QED BY <3>1 DEF Seen
  <2>4. CASE WriteRuntime(p)
    <3>1. RuntimeStep(p)
      BY <2>4 DEF WriteRuntime, At, End, RuntimeStep
    <3> QED BY <3>1 DEF Seen
  <2>5. CASE WriteManifest(p) \/ Crash(p)
    <3>1. EndStep(p)
      BY <2>5 DEF WriteManifest, Crash, End, EndStep, Moves
    <3> QED BY <3>1 DEF Seen
  <2> QED BY <1>3, <2>1, <2>2, <2>3, <2>4, <2>5 DEF Step
<1> QED BY <1>1, <1>2, <1>3 DEF Next

-----------------------------------------------------------------------------
(* A request and its receipt agree, for any number of processes. *)

\* Replacing one process's memory leaves the others' alone.
LEMMA OneMoves ==
  ASSUME IInv, NEW p \in Procs, NEW label, NEW m, Moves(p, label, m)
  PROVE  /\ pc'[p] = label /\ mem'[p] = m
         /\ \A q \in Procs : q # p => pc'[q] = pc[q] /\ mem'[q] = mem[q]
BY DEF Moves, IInv, TypeOK

LEMMA BlankRuntime == Blank.rt.receipts = {} /\ Blank.rt.requests = <<>> /\ Blank.ran = {}
BY DEF Blank, EmptyRuntime

\* The work on a copy keeps it settled.
LEMMA WorkedSettled ==
  ASSUME NEW m, Good(m.rt), Settled(m.rt), NEW n, NEW label, Worked(m, n, label)
  PROVE  Settled(n.rt)
<1> DEFINE s == m.rt.requests
<1>1. \A r \in m.rt.receipts : r.id \in DOMAIN s /\ r.action = s[r.id].action
  BY DEF Good, Receipted
<1>2. CASE /\ n.rt.receipts = m.rt.receipts
           /\ \A i \in DOMAIN s : i \in DOMAIN n.rt.requests /\ n.rt.requests[i] = s[i]
  BY <1>1, <1>2 DEF Settled
<1>3. ASSUME NEW i \in DOMAIN s, s[i].state = "pending", "runMock" \in Commands,
             n.rt = runLifelineMockRuntimeOnce(m.rt, i)
      PROVE  Settled(n.rt)
  <2> DEFINE x == [id |-> i, action |-> s[i].action, outcome |-> mockOutcome(s[i].action)]
  <2>1. /\ \A j \in DOMAIN s : j # i => n.rt.requests[j] = s[j]
        /\ n.rt.requests[i].state = mockOutcome(s[i].action)
        /\ n.rt.receipts \subseteq m.rt.receipts \union {x}
    BY <1>3, MockFacts
  <2>2. ASSUME NEW r \in n.rt.receipts
        PROVE  n.rt.requests[r.id].state \in {"pending", r.outcome} /\ r.outcome = mockOutcome(r.action)
    <3>1. CASE r \in m.rt.receipts /\ r.id = i
      BY <1>1, <1>3, <2>1, <3>1 DEF Settled
    <3>2. CASE r \in m.rt.receipts /\ r.id # i
      BY <1>1, <1>3, <2>1, <3>2 DEF Settled
    <3>3. CASE r = x
      BY <2>1, <3>3
    <3> QED BY <2>1, <3>1, <3>2, <3>3
  <2> QED BY <2>2 DEF Settled
<1>4. CASE n.rt = reconcileInteropRuntime(m.rt)
  BY <1>4, ReconcileFacts DEF Settled
<1>5. CASE n.rt = m.rt
  BY <1>5
<1> QED BY <1>2, <1>3, <1>4, <1>5 DEF Worked

\* A returned receipt is for a pending request, and there is no mock runtime beside it.
LEMMA ReturnSettled ==
  ASSUME OneRuntime, Good(runtime), Settled(runtime), Lifeline
  PROVE  Settled(runtime') /\ runtime'.requests = runtime.requests
         /\ runtime.receipts \subseteq runtime'.receipts
<1>1. PICK i \in DOMAIN runtime.requests, o \in Returned : LifelineReturns(i, o)
  BY DEF Lifeline
<1> DEFINE x == [id |-> i, action |-> runtime.requests[i].action, outcome |-> o]
<1>2. runtime \in Runtime
  BY DEF Good
<1>3. /\ runtime'.requests = runtime.requests /\ runtime'.receipts = runtime.receipts \union {x}
      /\ runtime.requests[i].state = "pending"
  BY <1>1, <1>2 DEF LifelineReturns, Runtime
<1>4. "runMock" \notin Commands
  BY DEF OneRuntime
<1>5. x.id = i
  OBVIOUS
<1> HIDE DEF x
<1> QED BY <1>3, <1>4, <1>5 DEF Settled

LEMMA FInductive == OneRuntime /\ IInv /\ FInv /\ [Next]_vars => FInv'
<1> SUFFICES ASSUME OneRuntime, IInv, FInv, [Next]_vars PROVE FInv'
  OBVIOUS
<1>1. /\ Good(runtime) /\ Settled(runtime)
      /\ \A p \in Procs : Good(mem[p].rt) /\ Settled(mem[p].rt)
  BY DEF IInv, GoodMemory, FInv
<1>2. Settled(Blank.rt)
  BY BlankRuntime DEF Settled
<1>3. ASSUME NEW p \in Procs, NEW label, NEW m, Settled(m.rt), Moves(p, label, m) PROVE FInv'
  <2>1. runtime' = runtime /\ \A q \in Procs : mem'[q] = m \/ mem'[q] = mem[q]
    BY <1>3, OneMoves DEF Moves
  <2>2. Settled(runtime') /\ \A q \in Procs : Settled(mem'[q].rt)
    BY <1>1, <1>3, <2>1
  <2> QED BY <2>2 DEF FInv, Settled
<1>4. CASE ReturnStep
  <2>1. Settled(runtime') /\ \A q \in Procs : Settled(mem'[q].rt)
    BY <1>1, <1>4, ReturnSettled DEF ReturnStep
  <2> QED BY <2>1 DEF FInv, Settled
<1>5. CASE QuietStep
  BY <1>5 DEF QuietStep, FInv, Settled
<1>6. ASSUME NEW p \in Procs, BeginStep(p) PROVE FInv'
  BY <1>1, <1>3, <1>6 DEF BeginStep
<1>7. ASSUME NEW p \in Procs, EndStep(p) PROVE FInv'
  BY <1>2, <1>3, <1>7 DEF EndStep
<1>8. ASSUME NEW p \in Procs, WorkStep(p) PROVE FInv'
  BY <1>1, <1>3, <1>8, WorkedSettled DEF WorkStep
<1>9. ASSUME NEW p \in Procs, TruthStep(p) PROVE FInv'
  BY <1>9 DEF TruthStep, FInv, Settled
<1>10. ASSUME NEW p \in Procs, RuntimeStep(p) PROVE FInv'
  <2>1. runtime' = mem[p].rt /\ \A q \in Procs : mem'[q] = Blank \/ mem'[q] = mem[q]
    BY <1>10 DEF RuntimeStep, IInv, TypeOK
  <2>2. Settled(runtime') /\ \A q \in Procs : Settled(mem'[q].rt)
    BY <1>1, <1>2, <2>1
  <2> QED BY <2>2 DEF FInv, Settled
<1> QED BY <1>4, <1>5, <1>6, <1>7, <1>8, <1>9, <1>10, StepSeen DEF Seen

LEMMA FInit == Init => FInv
<1> SUFFICES ASSUME Init PROVE FInv
  OBVIOUS
<1>1. runtime.receipts = {} /\ \A p \in Procs : mem[p].rt.receipts = {}
  BY BlankRuntime DEF Init, EmptyRuntime
<1> QED BY <1>1 DEF FInv, Settled

\* Where requests are executed by one runtime, the mock or the external one, a request that left
\* the pending state has the outcome of its receipt, for any number of overlapping commands.
THEOREM StateFollowsReceipt == OneRuntime => (Spec => []StateIsOutcome)
<1> SUFFICES ASSUME OneRuntime PROVE Spec => []StateIsOutcome
  OBVIOUS
<1>1. FInv => StateIsOutcome
  BY DEF FInv, Settled, StateIsOutcome
<1>2. IInv /\ FInv /\ [Next]_vars => FInv'
  BY FInductive
<1> QED BY <1>1, <1>2, InitGood, Inductive, FInit, PTL DEF Spec

-----------------------------------------------------------------------------
(* One command at a time: the truth is backed. *)

LEMMA WorkedReceipts ==
  ASSUME NEW m, Good(m.rt), NEW n, NEW label, Worked(m, n, label)
  PROVE  /\ m.rt.receipts \subseteq n.rt.receipts
         /\ label = "writeTruth" => n.truth \subseteq m.rt.receipts
<1>1. ASSUME NEW i \in DOMAIN m.rt.requests, n.rt = runLifelineMockRuntimeOnce(m.rt, i)
      PROVE  m.rt.receipts \subseteq n.rt.receipts
  BY <1>1, MockFacts
<1>2. ASSUME n.rt = reconcileInteropRuntime(m.rt)
      PROVE  m.rt.receipts \subseteq n.rt.receipts
  BY <1>2, ReconcileFacts
<1> QED BY <1>1, <1>2 DEF Worked, updatesOf

\* With one process it is enough to look at the process that moves.
LEMMA SoleMoves ==
  ASSUME Sole, IInv, NEW p \in Procs, NEW label, NEW m, Moves(p, label, m)
  PROVE  /\ \A q \in Procs : q = p /\ pc'[q] = label /\ mem'[q] = m
         /\ runtime' = runtime /\ truth' = truth /\ executed' = executed
<1>1. runtime' = runtime /\ truth' = truth /\ executed' = executed
  BY DEF Moves
<1>2. pc'[p] = label /\ mem'[p] = m
  BY OneMoves
<1>3. \A q \in Procs : q = p
  BY DEF Sole
<1> QED BY <1>1, <1>2, <1>3

\* An external receipt is added to the file, and nothing else happens to it.
LEMMA ReturnFacts ==
  ASSUME Good(runtime), Lifeline
  PROVE  runtime'.requests = runtime.requests /\ runtime.receipts \subseteq runtime'.receipts
<1>1. PICK i \in DOMAIN runtime.requests, o \in Returned : LifelineReturns(i, o)
  BY DEF Lifeline
<1>2. runtime \in Runtime
  BY DEF Good
<1> QED BY <1>1, <1>2 DEF LifelineReturns, Runtime

LEMMA TInductive == Sole /\ IInv /\ TInv /\ [Next]_vars => TInv'
<1> SUFFICES ASSUME Sole, IInv, TInv, [Next]_vars PROVE TInv'
  OBVIOUS
<1>1. Good(runtime) /\ \A p \in Procs : Good(mem[p].rt)
  BY DEF IInv, GoodMemory
<1>2. CASE ReturnStep
  BY <1>1, <1>2, ReturnFacts DEF ReturnStep, TInv
<1>3. CASE QuietStep
  BY <1>3 DEF QuietStep, TInv
<1>4. ASSUME NEW p \in Procs, BeginStep(p) PROVE TInv'
  <2>1. PICK m \in Memory : m.rt = runtime /\ m.ran = {} /\ Moves(p, "apply", m)
    BY <1>4 DEF BeginStep
  <2>2. /\ \A q \in Procs : pc'[q] = "apply" /\ mem'[q] = m
        /\ runtime' = runtime /\ truth' = truth
    BY <2>1, SoleMoves
  <2> QED BY <2>1, <2>2 DEF TInv
<1>5. ASSUME NEW p \in Procs, EndStep(p) PROVE TInv'
  <2>1. (\A q \in Procs : pc'[q] = "idle") /\ runtime' = runtime /\ truth' = truth
    BY <1>5, SoleMoves DEF EndStep
  <2> QED BY <2>1 DEF TInv
<1>6. ASSUME NEW p \in Procs, WorkStep(p) PROVE TInv'
  <2>1. PICK m \in Memory, label \in {"write", "writeTruth", "writeManifest"} :
           Worked(mem[p], m, label) /\ Moves(p, label, m)
    BY <1>6 DEF WorkStep
  <2>2. /\ mem[p].rt.receipts \subseteq m.rt.receipts
        /\ label = "writeTruth" => m.truth \subseteq mem[p].rt.receipts
    BY <1>1, <2>1, WorkedReceipts
  <2>3. /\ \A q \in Procs : pc'[q] = label /\ mem'[q] = m
        /\ runtime' = runtime /\ truth' = truth
    BY <2>1, SoleMoves
  <2>4. pc[p] = "apply"
    BY <1>6 DEF WorkStep
  <2> QED BY <2>2, <2>3, <2>4 DEF TInv
<1>7. ASSUME NEW p \in Procs, TruthStep(p) PROVE TInv'
  <2>1. (\A q \in Procs : q = p /\ pc'[q] = "write") /\ pc[p] = "writeTruth"
    BY <1>7 DEF TruthStep, Sole, IInv, TypeOK
  <2>2. runtime' = runtime /\ truth' = mem[p].truth /\ mem' = mem
    BY <1>7 DEF TruthStep
  <2> QED BY <2>1, <2>2 DEF TInv
<1>8. ASSUME NEW p \in Procs, RuntimeStep(p) PROVE TInv'
  <2>1. (\A q \in Procs : pc'[q] = "idle") /\ pc[p] = "write"
    BY <1>8 DEF RuntimeStep, Sole, IInv, TypeOK
  <2>2. runtime' = mem[p].rt /\ truth' = truth
    BY <1>8 DEF RuntimeStep
  <2> QED BY <2>1, <2>2 DEF TInv
<1> QED BY <1>2, <1>3, <1>4, <1>5, <1>6, <1>7, <1>8, StepSeen DEF Seen

\* As long as commands do not overlap, every entry of the updated truth is a receipt of the
\* runtime file, wherever a command dies between its two writes.
THEOREM TruthIsBacked == Sole => (Spec => []TruthBacked)
<1> SUFFICES ASSUME Sole PROVE Spec => []TruthBacked
  OBVIOUS
<1>1. Init => TInv
  BY DEF Init, TInv, EmptyRuntime
<1>2. IInv /\ TInv /\ [Next]_vars => TInv'
  BY TInductive
<1>3. TInv => TruthBacked
  BY DEF TInv, TruthBacked
<1> QED BY <1>1, <1>2, <1>3, InitGood, Inductive, PTL DEF Spec

-----------------------------------------------------------------------------
(* One command at a time: no request is undone. *)

LEMMA WorkedAdvances ==
  ASSUME NEW m, Good(m.rt), Settled(m.rt), NEW n, NEW label, Worked(m, n, label),
         label # "writeManifest"
  PROVE  Advances(m.rt.requests, n.rt.requests)
<1> DEFINE s == m.rt.requests
<1>1. CASE \A i \in DOMAIN s : i \in DOMAIN n.rt.requests /\ n.rt.requests[i] = s[i]
  BY <1>1 DEF Advances
<1>2. ASSUME NEW i \in DOMAIN s, s[i].state = "pending",
             n.rt = runLifelineMockRuntimeOnce(m.rt, i)
      PROVE  Advances(s, n.rt.requests)
  <2>1. /\ DOMAIN n.rt.requests = DOMAIN s
        /\ \A j \in DOMAIN s : j # i => n.rt.requests[j] = s[j]
        /\ keyOf(n.rt.requests[i]) = keyOf(s[i])
    BY <1>2, MockFacts
  <2> QED BY <1>2, <2>1 DEF Advances
<1>3. CASE n.rt = reconcileInteropRuntime(m.rt)
  <2>1. /\ DOMAIN n.rt.requests = DOMAIN s
        /\ \A i \in DOMAIN s : /\ keyOf(n.rt.requests[i]) = keyOf(s[i])
                               /\ receiptsOf(m.rt, i) = {} => n.rt.requests[i] = s[i]
        /\ \A r \in m.rt.receipts : n.rt.requests[r.id].state = r.outcome
    BY <1>3, ReconcileFacts
  <2>2. ASSUME NEW i \in DOMAIN s, s[i].state # "pending"
        PROVE  n.rt.requests[i].state = s[i].state
    <3>1. PICK r \in m.rt.receipts : r.id = i
      BY <2>2 DEF Good, Receipted, receiptsOf
    <3>2. s[i].state = r.outcome
      BY <2>2, <3>1 DEF Settled
    <3> QED BY <2>1, <3>1, <3>2
  <2> QED BY <2>1, <2>2 DEF Advances
<1> QED BY <1>1, <1>2, <1>3 DEF Worked

LEMMA AInductive == Sole /\ IInv /\ FInv /\ AInv /\ [Next]_vars => AInv'
<1> SUFFICES ASSUME Sole, IInv, FInv, AInv, [Next]_vars PROVE AInv'
  OBVIOUS
<1>1. Good(runtime) /\ \A p \in Procs : Good(mem[p].rt) /\ Settled(mem[p].rt)
  BY DEF IInv, GoodMemory, FInv
<1>2. CASE ReturnStep
  <2>1. runtime'.requests = runtime.requests /\ pc' = pc /\ mem' = mem
    BY <1>1, <1>2, ReturnFacts DEF ReturnStep
  <2> QED BY <2>1 DEF AInv, Advances
<1>3. CASE QuietStep
  BY <1>3 DEF QuietStep, AInv, Advances
<1>4. ASSUME NEW p \in Procs, BeginStep(p) PROVE AInv'
  <2>1. PICK m \in Memory : m.rt = runtime /\ m.ran = {} /\ Moves(p, "apply", m)
    BY <1>4 DEF BeginStep
  <2>2. (\A q \in Procs : pc'[q] = "apply" /\ mem'[q] = m) /\ runtime' = runtime
    BY <2>1, SoleMoves
  <2> QED BY <2>1, <2>2 DEF AInv
<1>5. ASSUME NEW p \in Procs, EndStep(p) PROVE AInv'
  <2>1. \A q \in Procs : pc'[q] = "idle"
    BY <1>5, SoleMoves DEF EndStep
  <2> QED BY <2>1 DEF AInv
<1>6. ASSUME NEW p \in Procs, WorkStep(p) PROVE AInv'
  <2>1. PICK m \in Memory, label \in {"write", "writeTruth", "writeManifest"} :
           Worked(mem[p], m, label) /\ Moves(p, label, m)
    BY <1>6 DEF WorkStep
  <2>2. mem[p].rt.requests = runtime.requests
    BY <1>6 DEF WorkStep, AInv
  <2>3. label # "writeManifest" => Advances(runtime.requests, m.rt.requests)
    BY <1>1, <2>1, <2>2, WorkedAdvances
  <2>4. (\A q \in Procs : pc'[q] = label /\ mem'[q] = m) /\ runtime' = runtime
    BY <2>1, SoleMoves
  <2> QED BY <2>3, <2>4 DEF AInv, Advances
<1>7. ASSUME NEW p \in Procs, TruthStep(p) PROVE AInv'
  <2>1. (\A q \in Procs : q = p /\ pc'[q] = "write") /\ pc[p] = "writeTruth"
    BY <1>7 DEF TruthStep, Sole, IInv, TypeOK
  <2>2. runtime' = runtime /\ mem' = mem
    BY <1>7 DEF TruthStep
  <2> QED BY <2>1, <2>2 DEF AInv, Advances
<1>8. ASSUME NEW p \in Procs, RuntimeStep(p) PROVE AInv'
  <2>1. \A q \in Procs : pc'[q] = "idle"
    BY <1>8 DEF RuntimeStep, Sole, IInv, TypeOK
  <2> QED BY <2>1 DEF AInv
<1> QED BY <1>2, <1>3, <1>4, <1>5, <1>6, <1>7, <1>8, StepSeen DEF Seen

\* What a step does to the requests of the file: it undoes none of them.
LEMMA FileAdvances ==
  ASSUME IInv, AInv, [Next]_vars
  PROVE  Advances(runtime.requests, runtime'.requests)
<1>1. CASE runtime'.requests = runtime.requests
  BY <1>1 DEF Advances
<1>2. CASE ReturnStep
  BY <1>1, <1>2, ReturnFacts DEF ReturnStep, IInv
<1>3. ASSUME NEW p \in Procs, RuntimeStep(p) PROVE Advances(runtime.requests, runtime'.requests)
  BY <1>3 DEF RuntimeStep, AInv
<1>4. ASSUME NEW p \in Procs, BeginStep(p) \/ EndStep(p) \/ WorkStep(p) \/ TruthStep(p)
      PROVE  runtime'.requests = runtime.requests
  BY <1>4 DEF BeginStep, EndStep, WorkStep, TruthStep, Moves
<1>5. CASE QuietStep
  BY <1>1, <1>5 DEF QuietStep
<1> QED BY <1>1, <1>2, <1>3, <1>4, <1>5, StepSeen DEF Seen

\* Where requests are executed by one runtime and commands do not overlap, a reconciled outcome
\* is final: no step changes the state of a request whose outcome the truth reports.
THEOREM TruthFinal == OneRuntime /\ Sole => (Spec => TruthIsFinal)
<1> SUFFICES ASSUME OneRuntime, Sole PROVE Spec => TruthIsFinal
  OBVIOUS
<1> DEFINE Final == \A r \in truth : (r \in truth' /\ r.id \in DOMAIN runtime'.requests
                                     /\ runtime.requests[r.id].state = r.outcome)
                        => runtime'.requests[r.id].state = r.outcome
<1>1. Init => AInv
  BY DEF Init, AInv
<1>2. IInv /\ FInv /\ AInv /\ [Next]_vars => AInv'
  BY AInductive
<1>3. IInv /\ FInv /\ [Next]_vars => FInv'
  BY FInductive
<1>4. Init => TInv
  BY DEF Init, TInv, EmptyRuntime
<1>5. IInv /\ TInv /\ [Next]_vars => TInv'
  BY TInductive
<1>6. IInv /\ TInv /\ AInv /\ [Next]_vars => Final
  <2> SUFFICES ASSUME IInv, TInv, AInv, [Next]_vars, NEW r \in truth,
                      runtime.requests[r.id].state = r.outcome
               PROVE  runtime'.requests[r.id].state = r.outcome
    OBVIOUS
  <2>1. r \in runtime.receipts /\ r \in Receipt
    BY DEF TInv, IInv, TypeOK
  <2>2. r.id \in DOMAIN runtime.requests /\ r.outcome # "pending"
    BY <2>1 DEF IInv, Good, Receipted, Receipt, Outcomes
  <2> QED BY <2>2, FileAdvances DEF Advances
<1>7. Final => [Final]_vars
  OBVIOUS
<1> QED BY <1>1, <1>2, <1>3, <1>4, <1>5, <1>6, <1>7, InitGood, Inductive, FInit, PTL
        DEF Spec, TruthIsFinal

-----------------------------------------------------------------------------
(* One command at a time, with the mock runtime: no key is executed twice. *)

LEMMA AdvancesExecuted ==
  ASSUME NEW old, NEW new, Advances(old, new), NEW k, Executed(old, k)
  PROVE  Executed(new, k)
BY DEF Advances, Executed

LEMMA MockNotPending == \A a : mockOutcome(a) # "pending"
BY DEF mockOutcome

LEMMA XInductive ==
  Sole /\ Returned = {} /\ IInv /\ AInv /\ XInv /\ [Next]_vars => XInv'
<1> SUFFICES ASSUME Sole, Returned = {}, IInv, AInv, XInv, [Next]_vars PROVE XInv'
  OBVIOUS
<1>1. /\ Good(runtime) /\ executed \in [Keys -> 0..2]
      /\ \A p \in Procs : Good(mem[p].rt) /\ mem[p] \in Memory
  BY DEF IInv, GoodMemory, TypeOK
<1>2. CASE ReturnStep
  BY <1>2 DEF ReturnStep, Lifeline
<1>3. CASE QuietStep
  BY <1>3 DEF QuietStep, XInv, Executed
<1>4. ASSUME NEW p \in Procs, BeginStep(p) PROVE XInv'
  <2>1. PICK m \in Memory : m.rt = runtime /\ m.ran = {} /\ Moves(p, "apply", m)
    BY <1>4 DEF BeginStep
  <2>2. /\ \A q \in Procs : pc'[q] = "apply" /\ mem'[q] = m
        /\ runtime' = runtime /\ executed' = executed
    BY <2>1, SoleMoves
  <2> QED BY <2>1, <2>2 DEF XInv, Executed
<1>5. ASSUME NEW p \in Procs, EndStep(p) PROVE XInv'
  <2>1. (\A q \in Procs : pc'[q] = "idle") /\ runtime' = runtime /\ executed' = executed
    BY <1>5, SoleMoves DEF EndStep
  <2> QED BY <2>1 DEF XInv, Executed
<1>6. ASSUME NEW p \in Procs, WorkStep(p) PROVE XInv'
  <2>1. PICK m \in Memory, label \in {"write", "writeTruth", "writeManifest"} :
           Worked(mem[p], m, label) /\ Moves(p, label, m)
    BY <1>6 DEF WorkStep
  <2>2. mem[p].rt.requests = runtime.requests /\ mem[p].ran = {}
    BY <1>6 DEF WorkStep, AInv, XInv
  <2>3. /\ \A q \in Procs : pc'[q] = label /\ mem'[q] = m
        /\ runtime' = runtime /\ executed' = executed
    BY <2>1, SoleMoves
  <2>4. CASE m.ran = {}
    BY <2>2, <2>3, <2>4 DEF XInv, Executed
  <2>5. ASSUME NEW i \in DOMAIN runtime.requests, runtime.requests[i].state = "pending",
               label = "write", m.rt = runLifelineMockRuntimeOnce(mem[p].rt, i),
               m.ran = {keyOf(runtime.requests[i])}
        PROVE  XInv'
    <3> DEFINE k == keyOf(runtime.requests[i])
    <3>1. ~Executed(runtime.requests, k)
      BY <1>1, <2>5 DEF Executed, Good, IdempotentRequests
    <3>2. /\ i \in DOMAIN m.rt.requests /\ keyOf(m.rt.requests[i]) = k
          /\ m.rt.requests[i].state # "pending"
      BY <1>1, <2>2, <2>5, MockFacts, MockNotPending
    <3>3. Executed(m.rt.requests, k)
      BY <3>2 DEF Executed
    <3> HIDE DEF k
    <3>4. \A x \in m.ran : ~Executed(runtime.requests, x) /\ Executed(m.rt.requests, x)
      BY <2>5, <3>1, <3>3 DEF k
    <3> QED BY <2>3, <2>5, <3>4 DEF XInv, Executed
  <2>6. label = "writeManifest" => XInv'
    BY <2>3 DEF XInv, Executed
  <2> QED BY <2>1, <2>2, <2>4, <2>5, <2>6 DEF Worked
<1>7. ASSUME NEW p \in Procs, TruthStep(p) PROVE XInv'
  <2>1. (\A q \in Procs : q = p /\ pc'[q] = "write") /\ pc[p] = "writeTruth"
    BY <1>7 DEF TruthStep, Sole, IInv, TypeOK
  <2>2. runtime' = runtime /\ mem' = mem /\ executed' = executed
    BY <1>7 DEF TruthStep
  <2> QED BY <2>1, <2>2 DEF XInv, Executed
<1>8. ASSUME NEW p \in Procs, RuntimeStep(p) PROVE XInv'
  <2>1. (\A q \in Procs : pc'[q] = "idle") /\ pc[p] = "write"
    BY <1>8 DEF RuntimeStep, Sole, IInv, TypeOK
  <2>2. runtime' = mem[p].rt /\ executed' = Counted(mem[p].ran)
    BY <1>8 DEF RuntimeStep
  <2>3. Advances(runtime.requests, mem[p].rt.requests)
    BY <2>1 DEF AInv
  <2>4. ASSUME NEW k \in Keys, executed'[k] # 0
        PROVE  executed'[k] = 1 /\ Executed(mem[p].rt.requests, k)
    <3>1. CASE k \in mem[p].ran
      <4>1. executed[k] = 0 /\ Executed(mem[p].rt.requests, k)
        BY <2>1, <3>1 DEF XInv
      <4> QED BY <2>2, <3>1, <4>1 DEF Counted
    <3>2. CASE k \notin mem[p].ran
      <4>1. executed'[k] = executed[k]
        BY <2>2, <3>2 DEF Counted
      <4>2. executed[k] = 1 /\ Executed(runtime.requests, k)
        BY <2>4, <4>1 DEF XInv
      <4> QED BY <2>3, <4>1, <4>2, AdvancesExecuted
    <3> QED BY <3>1, <3>2
  <2> QED BY <2>1, <2>2, <2>4 DEF XInv, Executed
<1> QED BY <1>2, <1>3, <1>4, <1>5, <1>6, <1>7, <1>8, StepSeen DEF Seen

\* As long as commands do not overlap, the mock runtime executes a key at most once, however
\* often it is emitted, run and reconciled, and wherever commands die.
THEOREM KeysExecutedOnce == Sole /\ Returned = {} => (Spec => []ExecutedOnce)
<1> SUFFICES ASSUME Sole, Returned = {} PROVE Spec => []ExecutedOnce
  OBVIOUS
<1>1. OneRuntime
  BY DEF OneRuntime
<1>2. Init => AInv /\ XInv
  BY DEF Init, AInv, XInv
<1>3. IInv /\ FInv /\ [Next]_vars => FInv'
  BY <1>1, FInductive
<1>4. IInv /\ FInv /\ AInv /\ [Next]_vars => AInv'
  BY AInductive
<1>5. IInv /\ AInv /\ XInv /\ [Next]_vars => XInv'
  BY XInductive
<1>6. IInv /\ XInv => ExecutedOnce
  BY DEF IInv, TypeOK, XInv, ExecutedOnce
<1> QED BY <1>2, <1>3, <1>4, <1>5, <1>6, InitGood, Inductive, FInit, PTL DEF Spec

=============================================================================
