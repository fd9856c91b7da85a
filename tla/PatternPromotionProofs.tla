----------------------- MODULE PatternPromotionProofs -----------------------
(***************************************************************************)
(* Proofs about PatternPromotion for every number of processes, patterns   *)
(* and commands.  The argument is one of snapshots: a command writes what  *)
(* it computed from one read of the store, so it is enough that each       *)
(* operation keeps a linked store linked, and that the staged file and     *)
(* every artifact in memory are linked too.                                *)
(***************************************************************************)
EXTENDS PatternPromotion, TLAPS

\* Every artifact a process holds between its read and its end is linked, and so is the file
\* that any of them may commit.
Snapshots ==
    /\ Linked(patterns) /\ Linked(staged)
    /\ \A p \in Procs : Linked(mem[p].artifact)

\* The parameters a command carries are those its operation takes.
Arguments ==
    \A p \in Procs :
      /\ pc[p] = "read" => mem[p].id \in Patterns
      /\ pc[p] = "read" /\ mem[p].op = "promote" => mem[p].fp \in Fingerprints
      /\ pc[p] = "read" /\ mem[p].op = "supersede" => mem[p].by \in Patterns
      /\ pc[p] = "logWrite" => mem[p].id \in Patterns /\ mem[p].op \in Operations
      /\ pc[p] \in {"stage", "commit", "logRead"} =>
           mem[p].id \in Patterns /\ mem[p].op \in Operations

IInv == TypeOK /\ Arguments /\ Snapshots

-----------------------------------------------------------------------------
(* The operations on a store. *)

\* A record that is not Absent is a Pattern.
LEMMA ExistingIsPattern ==
    ASSUME NEW b \in Store, NEW i \in Patterns, Exists(b, i)
    PROVE  b[i] \in Pattern
BY DEF Store, Exists

\* A new pattern is a record of its own kind, so it is not Absent.
LEMMA NewPatternType ==
    ASSUME NEW fp \in Fingerprints
    PROVE  NewPattern(fp) \in Pattern /\ NewPattern(fp) # Absent
BY DEF NewPattern, Pattern, Absent

\* No record of a pattern is Absent.
LEMMA PatternNotAbsent ==
    ASSUME NEW r \in Pattern
    PROVE  r # Absent
BY DEF Pattern, Absent

\* The empty store is linked.
LEMMA EmptyLinked == NoPatterns \in Store /\ Linked(NoPatterns)
BY DEF NoPatterns, Store, Linked, Exists

\* Promoting keeps a store linked: the new record names nobody, and a record that exists stays.
LEMMA MaterializeLinked ==
    ASSUME NEW b \in Store, Linked(b), NEW i \in Patterns, NEW fp \in Fingerprints
    PROVE  materialize(b, i, fp) \in Store /\ Linked(materialize(b, i, fp))
<1> DEFINE n == materialize(b, i, fp)
<1>1. CASE Exists(b, i)
  BY <1>1 DEF materialize
<1>2. CASE ~Exists(b, i)
  <2>1. n = [b EXCEPT ![i] = NewPattern(fp)]
    BY <1>2 DEF materialize
  <2>2. n \in Store
    BY <2>1, NewPatternType DEF Store
  <2>3. /\ n[i] = NewPattern(fp)
        /\ \A k \in Patterns : k # i => n[k] = b[k]
    BY <2>1 DEF Store
  <2>4. \A k \in Patterns : Exists(b, k) => Exists(n, k) /\ n[k] = b[k]
    BY <1>2, <2>3 DEF Exists
  <2>5. ASSUME NEW k \in Patterns, Exists(n, k)
        PROVE  /\ n[k].superseded_by # None =>
                    Exists(n, n[k].superseded_by) /\ k \in n[n[k].superseded_by].supersedes
               /\ n[k].status = "superseded" => n[k].superseded_by # None
               /\ \A j \in n[k].supersedes : j # k /\ Exists(n, j)
    <3>1. CASE k = i
      BY <2>3, <3>1 DEF NewPattern
    <3>2. CASE k # i
      <4>1. Exists(b, k) /\ n[k] = b[k]
        BY <2>3, <2>5, <3>2 DEF Exists
      <4>2. b[k] \in Pattern
        BY <4>1, ExistingIsPattern
      <4>3. b[k].superseded_by # None => b[k].superseded_by \in Patterns
        BY <4>2 DEF Pattern
      <4>4. b[k].supersedes \subseteq Patterns
        BY <4>2 DEF Pattern
      <4> QED BY <4>1, <4>3, <4>4, <2>4 DEF Linked
    <3> QED BY <3>1, <3>2
  <2> QED BY <2>2, <2>5 DEF Linked
<1> QED BY <1>1, <1>2

\* Retiring, demoting and recalling keep a store linked: they change one status, to one that
\* needs no successor.
LEMMA TransitionLinked ==
    ASSUME NEW b \in Store, Linked(b), NEW i \in Patterns, Exists(b, i), NEW op \in Lifecycle
    PROVE  transition(b, i, op) \in Store /\ Linked(transition(b, i, op))
<1> DEFINE n == transition(b, i, op)
<1>1. b[i] \in Pattern
  BY ExistingIsPattern
<1>2. statusAfter(op) \in {"active", "retired", "demoted"}
  BY DEF statusAfter, Lifecycle
<1> DEFINE r == [b[i] EXCEPT !.status = statusAfter(op)]
<1>3. /\ r \in Pattern /\ r.status = statusAfter(op)
      /\ r.superseded_by = b[i].superseded_by /\ r.supersedes = b[i].supersedes
  BY <1>1, <1>2 DEF Pattern
<1>4. n = [b EXCEPT ![i] = r]
  BY DEF transition
<1>5. n[i] = r /\ \A k \in Patterns : k # i => n[k] = b[k]
  BY <1>4 DEF Store
<1>6. n \in Store
  BY <1>3, <1>4 DEF Store
<1>7. \A k \in Patterns : /\ Exists(n, k) <=> Exists(b, k)
  BY <1>3, <1>5, PatternNotAbsent DEF Exists
<1>8. \A k \in Patterns : Exists(b, k) =>
        /\ n[k].superseded_by = b[k].superseded_by /\ n[k].supersedes = b[k].supersedes
        /\ n[k].status = "superseded" => b[k].status = "superseded"
  BY <1>2, <1>3, <1>5
<1>9. ASSUME NEW k \in Patterns, Exists(n, k)
      PROVE  /\ n[k].superseded_by # None =>
                  Exists(n, n[k].superseded_by) /\ k \in n[n[k].superseded_by].supersedes
             /\ n[k].status = "superseded" => n[k].superseded_by # None
             /\ \A j \in n[k].supersedes : j # k /\ Exists(n, j)
  <2>1. Exists(b, k) /\ b[k] \in Pattern
    BY <1>7, <1>9, ExistingIsPattern
  <2>2. b[k].superseded_by # None => b[k].superseded_by \in Patterns
    BY <2>1 DEF Pattern
  <2>3. b[k].supersedes \subseteq Patterns
    BY <2>1 DEF Pattern
  <2> QED BY <2>1, <2>2, <2>3, <1>7, <1>8 DEF Linked
<1>10. Linked(n)
  <2> HIDE DEF n
  <2> QED BY <1>9 DEF Linked
<1> QED BY <1>6, <1>10

\* Superseding keeps a store linked: the old pattern and its successor change together.
LEMMA SupersedeLinked ==
    ASSUME NEW b \in Store, Linked(b), NEW i \in Patterns, NEW j \in Patterns, i # j,
           Exists(b, i), Exists(b, j)
    PROVE  supersede(b, i, j) \in Store /\ Linked(supersede(b, i, j))
<1> DEFINE n == supersede(b, i, j)
           s == [b[i] EXCEPT !.status = "superseded", !.superseded_by = j]
           t == [b[j] EXCEPT !.status = IF @ \in {"retired", "demoted"} THEN "active" ELSE @,
                             !.supersedes = @ \union {i}]
<1>1. b[i] \in Pattern /\ b[j] \in Pattern
  BY ExistingIsPattern
<1>2. /\ s \in Pattern /\ s.superseded_by = j /\ s.supersedes = b[i].supersedes
  BY <1>1 DEF Pattern
<1>3. /\ t \in Pattern /\ t.superseded_by = b[j].superseded_by
      /\ t.supersedes = b[j].supersedes \union {i}
      /\ t.status = "superseded" => b[j].status = "superseded"
  BY <1>1 DEF Pattern
<1>4. n = [b EXCEPT ![i] = s, ![j] = t]
  BY DEF supersede, Store
<1>5. n[i] = s /\ n[j] = t /\ \A k \in Patterns : k # i /\ k # j => n[k] = b[k]
  BY <1>4 DEF Store
<1>6. n \in Store
  BY <1>2, <1>3, <1>4 DEF Store
<1>7. \A k \in Patterns : Exists(n, k) <=> Exists(b, k)
  BY <1>2, <1>3, <1>5, PatternNotAbsent DEF Exists
<1>8. \A k \in Patterns : Exists(b, k) => b[k].supersedes \subseteq n[k].supersedes
  BY <1>2, <1>3, <1>5
<1>9. ASSUME NEW k \in Patterns, Exists(n, k)
      PROVE  /\ n[k].superseded_by # None =>
                  Exists(n, n[k].superseded_by) /\ k \in n[n[k].superseded_by].supersedes
             /\ n[k].status = "superseded" => n[k].superseded_by # None
             /\ \A l \in n[k].supersedes : l # k /\ Exists(n, l)
  <2>1. Exists(b, k) /\ b[k] \in Pattern
    BY <1>7, <1>9, ExistingIsPattern
  <2>2. b[k].superseded_by # None => b[k].superseded_by \in Patterns
    BY <2>1 DEF Pattern
  <2>3. b[k].supersedes \subseteq Patterns
    BY <2>1 DEF Pattern
  <2>4. /\ b[k].superseded_by # None =>
             /\ Exists(b, b[k].superseded_by) /\ k \in b[b[k].superseded_by].supersedes
        /\ b[k].status = "superseded" => b[k].superseded_by # None
        /\ \A l \in b[k].supersedes : l # k /\ Exists(b, l)
    BY <2>1 DEF Linked
  <2>5. CASE k = i
    <3>1. j # None
      BY PatternConstants
    <3>2. i \in n[j].supersedes /\ Exists(n, j)
      BY <1>3, <1>5, <1>7
    <3> QED BY <2>3, <2>4, <2>5, <3>1, <3>2, <1>2, <1>5, <1>7
  <2>6. CASE k = j
    <3>1. n[k].superseded_by = b[k].superseded_by /\ n[k].supersedes = b[k].supersedes \union {i}
      BY <2>6, <1>3, <1>5
    <3>2. n[k].status = "superseded" => b[k].status = "superseded"
      BY <2>6, <1>3, <1>5
    <3>3. n[k].superseded_by # None =>
            Exists(n, n[k].superseded_by) /\ k \in n[n[k].superseded_by].supersedes
      BY <3>1, <2>2, <2>4, <1>7, <1>8
    <3>4. \A l \in n[k].supersedes : l # k /\ Exists(n, l)
      BY <3>1, <2>3, <2>4, <2>6, <1>7
    <3> QED BY <3>1, <3>2, <3>3, <3>4, <2>4
  <2>7. CASE k # i /\ k # j
    <3>1. n[k] = b[k]
      BY <2>7, <1>5
    <3> QED BY <3>1, <2>2, <2>3, <2>4, <1>7, <1>8
  <2> QED BY <2>5, <2>6, <2>7
<1>10. Linked(n)
  <2> HIDE DEF n
  <2> QED BY <1>9 DEF Linked
<1> QED BY <1>6, <1>10

-----------------------------------------------------------------------------
(* The steps. *)

\* What a process holds when it is idle.
LEMMA BlankType == Blank \in Memory /\ Blank.artifact = NoPatterns
BY EmptyLinked DEF Blank, Memory, Outcomes

\* A step that keeps the committed and the staged store linked and leaves one process with a
\* linked artifact and proper arguments keeps the invariant.
LEMMA StepKeeps ==
    ASSUME IInv, NEW p \in Procs, NEW step, NEW m \in Memory, Goto(p, step, m),
           step \in {"idle", "read", "stage", "commit", "logRead", "logWrite"},
           Linked(m.artifact),
           patterns' \in Store, Linked(patterns'), staged' \in Store, Linked(staged'),
           log' \in SUBSET Receipt, commands' \in Nat, crashes' \in Nat,
           overlapped' \in BOOLEAN,
           step # "idle" => m.id \in Patterns /\ m.op \in Operations,
           step = "read" /\ m.op = "promote" => m.fp \in Fingerprints,
           step = "read" /\ m.op = "supersede" => m.by \in Patterns
    PROVE  IInv'
<1>1. /\ pc' = [pc EXCEPT ![p] = step] /\ mem' = [mem EXCEPT ![p] = m]
      /\ pc \in [Procs -> {"idle", "read", "stage", "commit", "logRead", "logWrite"}]
      /\ mem \in [Procs -> Memory]
  BY DEF Goto, IInv, TypeOK
<1>2. /\ pc'[p] = step /\ mem'[p] = m
      /\ \A q \in Procs : q # p => pc'[q] = pc[q] /\ mem'[q] = mem[q]
  BY <1>1
<1>3. TypeOK'
  BY <1>1 DEF TypeOK
<1>4. Arguments'
  BY <1>2 DEF IInv, Arguments
<1>5. Snapshots'
  <2>1. \A q \in Procs : Linked(mem'[q].artifact)
    BY <1>2 DEF IInv, Snapshots
  <2>2. Linked(patterns)' /\ Linked(staged)'
    BY DEF Linked, Exists
  <2>3. \A q \in Procs : Linked(mem[q].artifact)'
    BY <2>1 DEF Linked, Exists
  <2> QED BY <2>2, <2>3 DEF Snapshots
<1> QED BY <1>3, <1>4, <1>5 DEF IInv

\* The invariant holds initially: no record of Init names another.
LEMMA InitInv == Init => IInv
<1> SUFFICES ASSUME Init PROVE IInv
  OBVIOUS
<1>1. patterns \in Store
  BY NewPatternType DEF Init, Store
<1>2. ASSUME NEW i \in Patterns, Exists(patterns, i)
      PROVE  /\ patterns[i].superseded_by = None /\ patterns[i].supersedes = {}
             /\ patterns[i].status = "active"
  BY <1>2 DEF Init, Exists, NewPattern
<1>3. Linked(patterns)
  BY <1>2 DEF Linked
<1>4. log \in SUBSET Receipt
  BY DEF Init, Receipt, Operations, Outcomes
<1>5. TypeOK
  BY <1>1, <1>4, EmptyLinked, BlankType DEF Init, TypeOK
<1>6. Arguments
  BY DEF Init, Arguments
<1>7. Snapshots
  BY <1>3, EmptyLinked, BlankType DEF Init, Snapshots
<1> QED BY <1>5, <1>6, <1>7 DEF IInv

\* Every step keeps the invariant.
LEMMA NextInv == IInv /\ [Next]_vars => IInv'
<1> SUFFICES ASSUME IInv, [Next]_vars PROVE IInv'
  OBVIOUS
<1>a. /\ patterns \in Store /\ staged \in Store /\ log \in SUBSET Receipt
      /\ commands \in Nat /\ crashes \in Nat /\ overlapped \in BOOLEAN
      /\ \A p \in Procs : mem[p] \in Memory
      /\ Linked(patterns) /\ Linked(staged) /\ \A p \in Procs : Linked(mem[p].artifact)
  BY DEF IInv, TypeOK, Snapshots
<1>b. ASSUME NEW p \in Procs, ~At(p, "idle")
      PROVE  /\ mem[p].id \in Patterns
             /\ At(p, "read") /\ mem[p].op = "promote" => mem[p].fp \in Fingerprints
             /\ At(p, "read") /\ mem[p].op = "supersede" => mem[p].by \in Patterns
             /\ ~At(p, "read") => mem[p].op \in Operations
  BY <1>b DEF IInv, TypeOK, Arguments, At
<1>c. ASSUME NEW p \in Procs, End(p), patterns' \in Store, Linked(patterns'),
             staged' = staged, log' \in SUBSET Receipt, commands' \in Nat,
             crashes' \in Nat, overlapped' \in BOOLEAN
      PROVE  IInv'
  BY <1>a, <1>c, BlankType, EmptyLinked, StepKeeps DEF End
<1>1. ASSUME NEW p \in Procs, Start(p)
      PROVE  IInv'
  <2>1. PICK op \in Operations, i \in Patterns :
          \E by \in IF op = "supersede" THEN Patterns ELSE {None},
             fp \in IF op = "promote" THEN Fingerprints ELSE {None} :
            Goto(p, "read", [Blank EXCEPT !.op = op, !.id = i, !.by = by, !.fp = fp])
    BY <1>1 DEF Start
  <2>2. PICK by \in IF op = "supersede" THEN Patterns ELSE {None},
             fp \in IF op = "promote" THEN Fingerprints ELSE {None} :
            Goto(p, "read", [Blank EXCEPT !.op = op, !.id = i, !.by = by, !.fp = fp])
    BY <2>1
  <2> DEFINE m == [Blank EXCEPT !.op = op, !.id = i, !.by = by, !.fp = fp]
  <2>3. /\ m \in Memory /\ m.op = op /\ m.id = i /\ m.by = by /\ m.fp = fp
        /\ m.artifact = NoPatterns
    BY BlankType DEF Memory, Blank
  <2>4. Goto(p, "read", m)
    BY <2>2
  <2>5. /\ UNCHANGED <<patterns, staged, log, crashes>> /\ commands' \in Nat
        /\ overlapped' \in BOOLEAN
    BY <1>1, <1>a DEF Start
  <2> HIDE DEF m
  <2> QED BY <1>a, <2>3, <2>4, <2>5, EmptyLinked, StepKeeps
<1>d. ASSUME NEW p \in Procs, At(p, "read"), mem[p].op \in Operations,
             NEW a \in Store, Linked(a), NEW o \in Outcomes, Prepare(p, a, o),
             UNCHANGED <<patterns, staged, log, commands, crashes, overlapped>>
      PROVE  IInv'
  <2> DEFINE m == [mem[p] EXCEPT !.artifact = a, !.outcome = o]
  <2>1. m \in Memory /\ m.artifact = a /\ m.id = mem[p].id /\ m.op = mem[p].op
    BY <1>a DEF Memory
  <2>2. Goto(p, "stage", m)
    BY <1>d DEF Prepare
  <2>3. mem[p].id \in Patterns
    BY <1>b, <1>d DEF At
  <2> HIDE DEF m
  <2> QED BY <1>a, <1>d, <2>1, <2>2, <2>3, StepKeeps
<1>2. ASSUME NEW p \in Procs, PreparePromote(p)
      PROVE  IInv'
  <2>1. /\ At(p, "read") /\ mem[p].op = "promote" /\ mem[p].id \in Patterns
        /\ mem[p].fp \in Fingerprints
    BY <1>2, <1>b DEF PreparePromote, At
  <2>2. withPatternConflictCheck(patterns, mem[p].id, mem[p].fp) \in Outcomes
    BY DEF withPatternConflictCheck, Outcomes
  <2> QED BY <1>2, <1>a, <1>d, <2>1, <2>2, MaterializeLinked DEF PreparePromote, Operations
<1>3. ASSUME NEW p \in Procs, PrepareTransition(p)
      PROVE  IInv'
  <2>1. At(p, "read") /\ mem[p].op \in Lifecycle /\ mem[p].id \in Patterns
    BY <1>3, <1>b DEF PrepareTransition, At
  <2>2. CASE End(p)
    BY <1>3, <1>a, <1>c, <2>2 DEF PrepareTransition
  <2>3. CASE Prepare(p, patterns, "noop")
    BY <1>3, <1>a, <1>d, <2>1, <2>3 DEF PrepareTransition, Operations, Outcomes
  <2>4. CASE /\ Exists(patterns, mem[p].id)
             /\ Prepare(p, transition(patterns, mem[p].id, mem[p].op), "promoted")
    BY <1>3, <1>a, <1>d, <2>1, <2>4, TransitionLinked
       DEF PrepareTransition, Operations, Outcomes
  <2> QED BY <1>3, <2>2, <2>3, <2>4 DEF PrepareTransition
<1>4. ASSUME NEW p \in Procs, PrepareSupersede(p)
      PROVE  IInv'
  <2>1. /\ At(p, "read") /\ mem[p].op = "supersede" /\ mem[p].id \in Patterns
        /\ mem[p].by \in Patterns
    BY <1>4, <1>b DEF PrepareSupersede, At
  <2>2. CASE End(p)
    BY <1>4, <1>a, <1>c, <2>2 DEF PrepareSupersede
  <2>3. CASE Prepare(p, patterns, "noop")
    BY <1>4, <1>a, <1>d, <2>1, <2>3 DEF PrepareSupersede, Operations, Outcomes
  <2>4. CASE /\ Exists(patterns, mem[p].id) /\ Exists(patterns, mem[p].by)
             /\ mem[p].id # mem[p].by
             /\ Prepare(p, supersede(patterns, mem[p].id, mem[p].by), "promoted")
    BY <1>4, <1>a, <1>d, <2>1, <2>4, SupersedeLinked
       DEF PrepareSupersede, Operations, Outcomes
  <2> QED BY <1>4, <2>2, <2>3, <2>4 DEF PrepareSupersede
<1>5. ASSUME NEW p \in Procs, Stage(p)
      PROVE  IInv'
  <2>1. mem[p].artifact \in Store
    BY <1>a DEF Memory
  <2> QED BY <1>5, <1>a, <1>b, <2>1, StepKeeps DEF Stage, At
<1>6. ASSUME NEW p \in Procs, Commit(p)
      PROVE  IInv'
  BY <1>6, <1>a, <1>b, StepKeeps DEF Commit, At
<1>7. ASSUME NEW p \in Procs, ReadLog(p)
      PROVE  IInv'
  <2> DEFINE m == [mem[p] EXCEPT !.log = log]
  <2>1. m \in Memory /\ m.artifact = mem[p].artifact /\ m.id = mem[p].id /\ m.op = mem[p].op
    BY <1>a DEF Memory
  <2>2. Goto(p, "logWrite", m)
    BY <1>7 DEF ReadLog
  <2> HIDE DEF m
  <2> QED BY <1>7, <1>a, <1>b, <2>1, <2>2, StepKeeps DEF ReadLog, At
<1>8. ASSUME NEW p \in Procs, WriteLog(p)
      PROVE  IInv'
  <2>1. mem[p].id \in Patterns /\ mem[p].op \in Operations
    BY <1>8, <1>b DEF WriteLog, At
  <2>2. mem[p].outcome \in Outcomes /\ mem[p].log \in SUBSET Receipt
    BY <1>a DEF Memory
  <2>3. log' \in SUBSET Receipt
    BY <1>8, <2>1, <2>2 DEF WriteLog, withReceipt, Receipt
  <2> QED BY <1>8, <1>a, <1>c, <2>3 DEF WriteLog
<1>9. ASSUME NEW p \in Procs, Crash(p)
      PROVE  IInv'
  BY <1>9, <1>a, <1>c DEF Crash
<1>10. CASE UNCHANGED vars
  <2>1. /\ patterns' = patterns /\ staged' = staged /\ log' = log /\ pc' = pc /\ mem' = mem
        /\ commands' = commands /\ crashes' = crashes /\ overlapped' = overlapped
    BY <1>10 DEF vars
  <2> QED BY <2>1 DEF IInv, TypeOK, Arguments, Snapshots, Linked, Exists
<1> QED BY <1>1, <1>2, <1>3, <1>4, <1>5, <1>6, <1>7, <1>8, <1>9, <1>10 DEF Next, Step

\* PatternPromotion is type-correct for any number of overlapping commands and crashes.
THEOREM TypeCorrect == Spec => []TypeOK
<1>1. IInv => TypeOK
  BY DEF IInv
<1> QED BY <1>1, InitInv, NextInv, PTL DEF Spec

\* However many `promote` commands share the staged path and wherever they crash, the committed
\* pattern store is linked: who is superseded has a successor that exists and lists it.
THEOREM SupersessionAlwaysLinked == Spec => []SupersessionLinked
<1>1. IInv => SupersessionLinked
  BY DEF IInv, Snapshots, SupersessionLinked
<1> QED BY <1>1, InitInv, NextInv, PTL DEF Spec

-----------------------------------------------------------------------------
(* The receipt log explains the store.  Between the commit and the end of a command the store is *)
(* ahead of the log by the receipt the command holds, so the invariant speaks of that receipt.   *)

receiptOf(m) == [op |-> m.op, id |-> m.id, outcome |-> m.outcome]

\* Receipts in entries account for every pattern of store b and for its status.
Explained(b, entries) ==
    \A i \in Patterns : Exists(b, i) =>
        LET promoted(op) == [op |-> op, id |-> i, outcome |-> "promoted"] \in entries IN
        /\ promoted("promote")
        /\ b[i].status = "retired" => promoted("retire")
        /\ b[i].status = "demoted" => promoted("demote")
        /\ b[i].status = "superseded" => promoted("supersede")

Serial == ~overlapped /\ crashes = 0

\* What a command at a step holds, when the store is st, the staged one sg and the log lg.
Accounted(step, m, st, sg, lg) ==
    /\ step \in {"idle", "read", "stage", "commit"} => Explained(st, lg)
    /\ step \in {"stage", "commit"} => Explained(m.artifact, lg \union {receiptOf(m)})
    /\ step = "commit" => sg = m.artifact
    /\ step \in {"logRead", "logWrite"} => Explained(st, lg \union {receiptOf(m)})
    /\ step = "logWrite" => m.log = lg

\* At most one command is under way, and it accounts for the store.
AuditInv ==
    Serial =>
      /\ \A p, q \in Procs : ~At(p, "idle") /\ ~At(q, "idle") => p = q
      /\ (\A p \in Procs : At(p, "idle")) => Explained(patterns, log)
      /\ \A p \in Procs : ~At(p, "idle") => Accounted(pc[p], mem[p], patterns, staged, log)

LEMMA ExplainedMore ==
    ASSUME NEW b, NEW L, NEW M, Explained(b, L), L \subseteq M
    PROVE  Explained(b, M)
BY DEF Explained

\* Promoting is explained by its receipt, or changes nothing.
LEMMA MaterializeExplained ==
    ASSUME NEW b \in Store, NEW i \in Patterns, NEW fp \in Fingerprints, NEW L, Explained(b, L)
    PROVE  Explained(materialize(b, i, fp),
                     L \union {[op |-> "promote", id |-> i,
                                outcome |-> withPatternConflictCheck(b, i, fp)]})
<1> DEFINE n == materialize(b, i, fp)
           x == [op |-> "promote", id |-> i, outcome |-> withPatternConflictCheck(b, i, fp)]
<1>1. CASE Exists(b, i)
  BY <1>1, ExplainedMore DEF materialize
<1>2. CASE ~Exists(b, i)
  <2>1. x = [op |-> "promote", id |-> i, outcome |-> "promoted"]
    BY <1>2 DEF withPatternConflictCheck
  <2>2. n = [b EXCEPT ![i] = NewPattern(fp)]
    BY <1>2 DEF materialize
  <2>3. n[i].status = "active" /\ \A k \in Patterns : k # i => n[k] = b[k]
    BY <2>2 DEF Store, NewPattern
  <2> HIDE DEF n, x
  <2>4. Explained(n, L \union {x})
    BY <2>1, <2>3 DEF Explained, Exists
  <2> QED BY <2>4 DEF n, x
<1> QED BY <1>1, <1>2

\* A change of status is explained by its receipt.
LEMMA TransitionExplained ==
    ASSUME NEW b \in Store, NEW i \in Patterns, Exists(b, i), NEW op \in Lifecycle,
           NEW L, Explained(b, L)
    PROVE  Explained(transition(b, i, op), L \union {[op |-> op, id |-> i, outcome |-> "promoted"]})
<1> DEFINE n == transition(b, i, op)
           r == [b[i] EXCEPT !.status = statusAfter(op)]
           x == [op |-> op, id |-> i, outcome |-> "promoted"]
<1>1. b[i] \in Pattern
  BY ExistingIsPattern
<1>2. r.status = statusAfter(op)
  BY <1>1 DEF Pattern
<1>3. n = [b EXCEPT ![i] = r]
  BY DEF transition
<1>4. n[i].status = statusAfter(op) /\ \A k \in Patterns : k # i => n[k] = b[k]
  BY <1>2, <1>3 DEF Store
<1>5. /\ statusAfter(op) = "retired" => op = "retire"
      /\ statusAfter(op) = "demoted" => op = "demote"
      /\ statusAfter(op) # "superseded"
  BY DEF statusAfter, Lifecycle
<1> HIDE DEF n, r
<1>6. ASSUME NEW k \in Patterns, Exists(n, k)
      PROVE  /\ [op |-> "promote", id |-> k, outcome |-> "promoted"] \in L
             /\ n[k].status = "retired" =>
                  [op |-> "retire", id |-> k, outcome |-> "promoted"] \in L \union {x}
             /\ n[k].status = "demoted" =>
                  [op |-> "demote", id |-> k, outcome |-> "promoted"] \in L \union {x}
             /\ n[k].status = "superseded" =>
                  [op |-> "supersede", id |-> k, outcome |-> "promoted"] \in L
  <2>1. CASE k = i
    BY <2>1, <1>4, <1>5 DEF Explained
  <2>2. CASE k # i
    BY <1>4, <1>6, <2>2 DEF Explained, Exists
  <2> QED BY <2>1, <2>2
<1> HIDE DEF x
<1>7. Explained(n, L \union {x})
  BY <1>6 DEF Explained
<1> QED BY <1>7 DEF n, x

\* Superseding is explained by its receipt: the successor's status changes to active at most.
LEMMA SupersedeExplained ==
    ASSUME NEW b \in Store, NEW i \in Patterns, NEW j \in Patterns, i # j,
           Exists(b, i), Exists(b, j), NEW L, Explained(b, L)
    PROVE  Explained(supersede(b, i, j),
                     L \union {[op |-> "supersede", id |-> i, outcome |-> "promoted"]})
<1> DEFINE n == supersede(b, i, j)
           s == [b[i] EXCEPT !.status = "superseded", !.superseded_by = j]
           t == [b[j] EXCEPT !.status = IF @ \in {"retired", "demoted"} THEN "active" ELSE @,
                             !.supersedes = @ \union {i}]
           x == [op |-> "supersede", id |-> i, outcome |-> "promoted"]
<1>1. b[i] \in Pattern /\ b[j] \in Pattern
  BY ExistingIsPattern
<1>2. s.status = "superseded" /\ t.status \in {"active", b[j].status}
  BY <1>1 DEF Pattern
<1>3. n = [b EXCEPT ![i] = s, ![j] = t]
  BY DEF supersede, Store
<1>4. n[i] = s /\ n[j] = t /\ \A k \in Patterns : k # i /\ k # j => n[k] = b[k]
  BY <1>3 DEF Store
<1> HIDE DEF n, s, t
<1>5. ASSUME NEW k \in Patterns, Exists(n, k)
      PROVE  /\ [op |-> "promote", id |-> k, outcome |-> "promoted"] \in L
             /\ n[k].status = "retired" =>
                  [op |-> "retire", id |-> k, outcome |-> "promoted"] \in L
             /\ n[k].status = "demoted" =>
                  [op |-> "demote", id |-> k, outcome |-> "promoted"] \in L
             /\ n[k].status = "superseded" =>
                  [op |-> "supersede", id |-> k, outcome |-> "promoted"] \in L \union {x}
  <2>1. CASE k = i
    BY <2>1, <1>2, <1>4 DEF Explained
  <2>2. CASE k = j
    BY <2>2, <1>2, <1>4 DEF Explained
  <2>3. CASE k # i /\ k # j
    BY <1>4, <1>5, <2>3 DEF Explained, Exists
  <2> QED BY <2>1, <2>2, <2>3
<1> HIDE DEF x
<1>6. Explained(n, L \union {x})
  BY <1>5 DEF Explained
<1> QED BY <1>6 DEF n, x

\* A step of the one command under way, to a step at which it accounts for the store.
LEMMA AuditStep ==
    ASSUME IInv, AuditInv, NEW p \in Procs, NEW step, NEW m, Goto(p, step, m),
           Serial' => /\ \A q \in Procs : q # p => At(q, "idle")
                      /\ step = "idle" => Explained(patterns', log')
                      /\ step # "idle" => Accounted(step, m, patterns', staged', log')
    PROVE  AuditInv'
<1> SUFFICES ASSUME Serial' PROVE AuditInv'
  BY DEF AuditInv
<1>1. /\ pc'[p] = step /\ mem'[p] = m
      /\ \A q \in Procs : q # p => pc'[q] = "idle"
  BY DEF Goto, IInv, TypeOK, At
<1>2. (\A q \in Procs : pc'[q] = "idle") => Explained(patterns', log')
  BY <1>1
<1>3. \A q \in Procs : pc'[q] # "idle" => Accounted(pc'[q], mem'[q], patterns', staged', log')
  BY <1>1
<1>4. Explained(patterns', log') => Explained(patterns, log)'
  BY DEF Explained, Exists
<1>5. \A q \in Procs : Accounted(pc'[q], mem'[q], patterns', staged', log')
                       => Accounted(pc[q], mem[q], patterns, staged, log)'
  BY DEF Accounted, Explained, Exists, receiptOf
<1> QED BY <1>1, <1>2, <1>3, <1>4, <1>5 DEF AuditInv, At

LEMMA NextAudit == IInv /\ AuditInv /\ [Next]_vars => AuditInv'
<1> SUFFICES ASSUME IInv, AuditInv, [Next]_vars PROVE AuditInv'
  OBVIOUS
<1>a. /\ patterns \in Store /\ log \in SUBSET Receipt /\ crashes \in Nat
      /\ \A p \in Procs : mem[p] \in Memory
  BY DEF IInv, TypeOK
<1>b. ASSUME NEW p \in Procs, ~At(p, "idle"), Serial
      PROVE  /\ \A q \in Procs : q # p => At(q, "idle")
             /\ Accounted(pc[p], mem[p], patterns, staged, log)
  BY <1>b DEF AuditInv
<1>1. ASSUME NEW p \in Procs, Start(p) PROVE AuditInv'
  <2>1. PICK m : Goto(p, "read", m)
    BY <1>1 DEF Start
  <2>2. UNCHANGED <<patterns, staged, log, crashes>>
    BY <1>1 DEF Start
  <2>3. Serial' => Serial /\ \A q \in Procs : At(q, "idle")
    BY <1>1, <2>2 DEF Start, Serial
  <2>4. Serial' => Explained(patterns, log)
    BY <2>3 DEF AuditInv
  <2>5. Serial' => Accounted("read", m, patterns', staged', log')
    BY <2>2, <2>4 DEF Accounted
  <2> QED BY <2>1, <2>3, <2>5, AuditStep
\* A command that reads prepares an artifact explained by the log and its own receipt.
<1>c. ASSUME NEW p \in Procs, At(p, "read"), NEW b, NEW o, Prepare(p, b, o),
             Serial => Explained(b, log \union {[op |-> mem[p].op, id |-> mem[p].id, outcome |-> o]}),
             UNCHANGED <<patterns, staged, log, commands, crashes, overlapped>>
      PROVE  AuditInv'
  <2> DEFINE m == [mem[p] EXCEPT !.artifact = b, !.outcome = o]
  <2>1. m.artifact = b /\ receiptOf(m) = [op |-> mem[p].op, id |-> mem[p].id, outcome |-> o]
    BY <1>a DEF Memory, receiptOf
  <2>2. Goto(p, "stage", m)
    BY <1>c DEF Prepare
  <2> HIDE DEF m
  <2>3. Serial' => Serial
    BY <1>c DEF Serial
  <2>4. Serial => Explained(patterns, log) /\ \A q \in Procs : q # p => At(q, "idle")
    BY <1>b, <1>c DEF At, Accounted
  <2>5. Serial => Accounted("stage", m, patterns, staged, log)
    BY <1>c, <2>1, <2>4 DEF Accounted
  <2>6. Serial => Accounted("stage", m, patterns', staged', log')
    BY <1>c, <2>5
  <2> QED BY <2>2, <2>3, <2>4, <2>6, AuditStep
<1>d. ASSUME NEW p \in Procs, At(p, "read"), End(p),
             UNCHANGED <<patterns, staged, log, commands, crashes, overlapped>>
      PROVE  AuditInv'
  <2>1. Serial' => Serial
    BY <1>d DEF Serial
  <2>2. Serial => Explained(patterns, log) /\ \A q \in Procs : q # p => At(q, "idle")
    BY <1>b, <1>d DEF At, Accounted
  <2>3. Serial => Explained(patterns', log')
    BY <1>d, <2>2
  <2> QED BY <1>d, <2>1, <2>2, <2>3, AuditStep DEF End
<1>e. ASSUME NEW p \in Procs, At(p, "read"), Serial PROVE Explained(patterns, log)
  BY <1>b, <1>e DEF At, Accounted
<1>f. ASSUME NEW p \in Procs, At(p, "read"), Prepare(p, patterns, "noop"),
             UNCHANGED <<patterns, staged, log, commands, crashes, overlapped>>
      PROVE  AuditInv'
  <2>1. Serial => Explained(patterns, log \union {[op |-> mem[p].op, id |-> mem[p].id,
                                                    outcome |-> "noop"]})
    BY <1>e, <1>f, ExplainedMore
  <2> QED BY <1>c, <1>f, <2>1
<1>2. ASSUME NEW p \in Procs, PreparePromote(p) PROVE AuditInv'
  <2>1. /\ At(p, "read") /\ mem[p].op = "promote" /\ mem[p].id \in Patterns
        /\ mem[p].fp \in Fingerprints
    BY <1>2 DEF PreparePromote, At, IInv, Arguments
  <2> DEFINE b == materialize(patterns, mem[p].id, mem[p].fp)
             o == withPatternConflictCheck(patterns, mem[p].id, mem[p].fp)
  <2>2. Serial => Explained(b, log \union {[op |-> mem[p].op, id |-> mem[p].id, outcome |-> o]})
    BY <1>a, <1>e, <2>1, MaterializeExplained
  <2>3. Prepare(p, b, o) /\ UNCHANGED <<patterns, staged, log, commands, crashes, overlapped>>
    BY <1>2 DEF PreparePromote
  <2> HIDE DEF b, o
  <2> QED BY <1>c, <2>1, <2>2, <2>3
<1>3. ASSUME NEW p \in Procs, PrepareTransition(p) PROVE AuditInv'
  <2>1. /\ At(p, "read") /\ mem[p].op \in Lifecycle /\ mem[p].id \in Patterns
        /\ UNCHANGED <<patterns, staged, log, commands, crashes, overlapped>>
    BY <1>3 DEF PrepareTransition, At, IInv, Arguments
  <2> DEFINE b == transition(patterns, mem[p].id, mem[p].op)
  <2>2. CASE Exists(patterns, mem[p].id) /\ Prepare(p, b, "promoted")
    <3>1. Serial => Explained(b, log \union {[op |-> mem[p].op, id |-> mem[p].id,
                                              outcome |-> "promoted"]})
      BY <1>a, <1>e, <2>1, <2>2, TransitionExplained
    <3> HIDE DEF b
    <3> QED BY <1>c, <2>1, <2>2, <3>1
  <2> QED BY <1>3, <1>d, <1>f, <2>1, <2>2 DEF PrepareTransition
<1>4. ASSUME NEW p \in Procs, PrepareSupersede(p) PROVE AuditInv'
  <2>1. /\ At(p, "read") /\ mem[p].op = "supersede" /\ mem[p].id \in Patterns
        /\ mem[p].by \in Patterns
        /\ UNCHANGED <<patterns, staged, log, commands, crashes, overlapped>>
    BY <1>4 DEF PrepareSupersede, At, IInv, Arguments
  <2> DEFINE b == supersede(patterns, mem[p].id, mem[p].by)
  <2>2. CASE /\ Exists(patterns, mem[p].id) /\ Exists(patterns, mem[p].by)
             /\ mem[p].id # mem[p].by /\ Prepare(p, b, "promoted")
    <3>1. Serial => Explained(b, log \union {[op |-> mem[p].op, id |-> mem[p].id,
                                              outcome |-> "promoted"]})
      BY <1>a, <1>e, <2>1, <2>2, SupersedeExplained
    <3> HIDE DEF b
    <3> QED BY <1>c, <2>1, <2>2, <3>1
  <2> QED BY <1>4, <1>d, <1>f, <2>1, <2>2 DEF PrepareSupersede
<1>5. ASSUME NEW p \in Procs, Stage(p) PROVE AuditInv'
  <2>1. /\ pc[p] = "stage" /\ staged' = mem[p].artifact /\ Goto(p, "commit", mem[p])
        /\ patterns' = patterns /\ log' = log /\ (Serial' => Serial)
    BY <1>5 DEF Stage, At, Serial
  <2>2. Serial => /\ \A q \in Procs : q # p => At(q, "idle")
                  /\ Accounted("stage", mem[p], patterns, staged, log)
    BY <1>b, <2>1 DEF At
  <2>3. Serial => Accounted("commit", mem[p], patterns', staged', log')
    BY <2>1, <2>2 DEF Accounted
  <2> QED BY <2>1, <2>2, <2>3, AuditStep
<1>6. ASSUME NEW p \in Procs, Commit(p) PROVE AuditInv'
  <2>1. /\ pc[p] = "commit" /\ patterns' = staged /\ Goto(p, "logRead", mem[p])
        /\ staged' = staged /\ log' = log /\ (Serial' => Serial)
    BY <1>6 DEF Commit, At, Serial
  <2>2. Serial => /\ \A q \in Procs : q # p => At(q, "idle")
                  /\ Accounted("commit", mem[p], patterns, staged, log)
    BY <1>b, <2>1 DEF At
  <2>3. Serial => Accounted("logRead", mem[p], patterns', staged', log')
    BY <2>1, <2>2 DEF Accounted
  <2> QED BY <2>1, <2>2, <2>3, AuditStep
<1>7. ASSUME NEW p \in Procs, ReadLog(p) PROVE AuditInv'
  <2> DEFINE m == [mem[p] EXCEPT !.log = log]
  <2>1. /\ pc[p] = "logRead" /\ Goto(p, "logWrite", m)
        /\ patterns' = patterns /\ staged' = staged /\ log' = log /\ (Serial' => Serial)
    BY <1>7 DEF ReadLog, At, Serial
  <2>2. m.log = log /\ receiptOf(m) = receiptOf(mem[p])
    BY <1>a DEF Memory, receiptOf
  <2> HIDE DEF m
  <2>3. Serial => /\ \A q \in Procs : q # p => At(q, "idle")
                  /\ Accounted("logRead", mem[p], patterns, staged, log)
    BY <1>b, <2>1 DEF At
  <2>4. Serial => Accounted("logWrite", m, patterns', staged', log')
    BY <2>1, <2>2, <2>3 DEF Accounted
  <2> QED BY <2>1, <2>3, <2>4, AuditStep
<1>8. ASSUME NEW p \in Procs, WriteLog(p) PROVE AuditInv'
  <2>1. /\ pc[p] = "logWrite" /\ End(p) /\ patterns' = patterns /\ (Serial' => Serial)
        /\ log' = mem[p].log \union {receiptOf(mem[p])}
    BY <1>8 DEF WriteLog, At, Serial, withReceipt, receiptOf
  <2>2. Serial => /\ \A q \in Procs : q # p => At(q, "idle")
                  /\ Accounted("logWrite", mem[p], patterns, staged, log)
    BY <1>b, <2>1 DEF At
  <2>3. Serial => Explained(patterns', log')
    BY <2>1, <2>2 DEF Accounted
  <2> QED BY <2>1, <2>2, <2>3, AuditStep DEF End
<1>9. ASSUME NEW p \in Procs, Crash(p) PROVE AuditInv'
  BY <1>9, <1>a DEF Crash, AuditInv, Serial
<1>10. CASE UNCHANGED vars
  <2>1. /\ patterns' = patterns /\ staged' = staged /\ log' = log /\ pc' = pc /\ mem' = mem
        /\ crashes' = crashes /\ overlapped' = overlapped
    BY <1>10 DEF vars
  <2>2. (Serial' <=> Serial) /\ (Explained(patterns', log') <=> Explained(patterns, log))
    BY <2>1 DEF Serial
  <2>3. \A q \in Procs : Accounted(pc'[q], mem'[q], patterns', staged', log')
                           <=> Accounted(pc[q], mem[q], patterns, staged, log)
    BY <2>1
  <2> QED BY <2>1, <2>2, <2>3 DEF AuditInv, At
<1> QED BY <1>1, <1>2, <1>3, <1>4, <1>5, <1>6, <1>7, <1>8, <1>9, <1>10 DEF Next, Step

LEMMA InitAudit == Init => AuditInv
<1> SUFFICES ASSUME Init PROVE AuditInv
  OBVIOUS
<1>1. \A i \in Patterns : Exists(patterns, i) =>
         /\ patterns[i].status = "active"
         /\ [op |-> "promote", id |-> i, outcome |-> "promoted"] \in log
  BY DEF Init, Exists, NewPattern
<1>2. Explained(patterns, log)
  BY <1>1 DEF Explained
<1> QED BY <1>2 DEF Init, AuditInv, At

\* As long as no two `promote` commands overlapped and none crashed, the receipt log explains
\* every pattern of the store whenever no command is under way.
THEOREM StoreAuditable == Spec => []Auditable
<1>1. AuditInv => Auditable
  BY DEF AuditInv, Auditable, Serial, Explained
<1> QED BY <1>1, InitInv, NextInv, InitAudit, NextAudit, PTL DEF Spec
=============================================================================
