----------------------- MODULE MemoryKnowledgeProofs ------------------------
(***************************************************************************)
(* Proofs about MemoryKnowledge for any processes, candidates, kinds and   *)
(* commands.  The key is that an active entry is the latest promotion of   *)
(* its fingerprint in whatever snapshot it is seen: only a promotion makes *)
(* an entry active, it takes its timestamp after it read the file, and it  *)
(* supersedes what was active there.  This is kept by every operation on a *)
(* snapshot, hence by writing stale snapshots back.                        *)
(***************************************************************************)
EXTENDS MemoryKnowledge, TLAPS

USE MemoryConstants

Filed(S, k, t) == S \subseteq Entry /\ \A e \in S : kindOf[e.id] = k /\ e.at < t

\* An active entry is later than every other entry with its fingerprint.
Latest(S) ==
    \A e, f \in S : e.status = "active" /\ sameFingerprint(f, e.id) => f = e \/ f.at < e.at

Clean(S) == \A e \in S : e.status = "active" => e.supersededBy = {}

Listed(S) ==
    \A e \in S :
        /\ e.status = "superseded" => e.supersededBy # {}
        /\ \A c \in e.supersededBy \ {e.id} : \E f \in withId(S, c) : e.id \in f.supersedes

\* Entries that may be in the file of kind k at time t.
Snapshot(S, k, t) == Filed(S, k, t) /\ Latest(S) /\ Clean(S) /\ Listed(S)

\* What a process holds at each of its steps.
Holds(p) ==
    /\ pc[p] = "read" => mem[p].id \in Candidates
    /\ pc[p] = "read" /\ mem[p].op = "supersede" => mem[p].by \in Candidates
    /\ pc[p] = "write" => /\ mem[p].id \in Candidates /\ kindOf[mem[p].id] \in Kinds
                          /\ Snapshot(mem[p].entries, kindOf[mem[p].id], clock)
    /\ pc[p] \in {"pruneRead", "pruneWrite"} => mem[p].visiting \in 1..Len(KindOrder)
    /\ pc[p] = "pruneWrite" => Snapshot(mem[p].entries, KindOrder[mem[p].visiting], clock)
    /\ pc[p] = "candidates" => mem[p].visiting = 1

IInv ==
    /\ TypeOK
    /\ \A k \in Kinds : Snapshot(knowledge[k], k, clock)
    /\ \A p \in Procs : Holds(p)

-----------------------------------------------------------------------------
(* The operations on a snapshot. *)

\* A snapshot stays one as time passes.
LEMMA SnapshotLater ==
    ASSUME NEW S, NEW k, NEW t \in Nat, Snapshot(S, k, t)
    PROVE  Snapshot(S, k, t + 1)
BY DEF Snapshot, Filed, Entry

\* Changing entries one by one, without activating one or changing id or timestamp, keeps the
\* latest promotion latest.
LEMMA MapLatest ==
    ASSUME NEW S, NEW k, NEW t \in Nat, Snapshot(S, k, t), NEW g \in [S -> Entry],
           \A e \in S : g[e].id = e.id /\ g[e].at = e.at /\ (g[e].status = "active" => g[e] = e)
    PROVE  /\ Filed({g[e] : e \in S}, k, t) /\ Latest({g[e] : e \in S})
           /\ Clean({g[e] : e \in S})
<1> DEFINE T == {g[e] : e \in S}
<1>1. S \subseteq Entry /\ \A e \in S : kindOf[e.id] = k /\ e.at < t
  BY DEF Snapshot, Filed
<1>2. Filed(T, k, t)
  BY <1>1 DEF Filed
<1>3. Clean(T)
  BY DEF Snapshot, Clean
<1>4. ASSUME NEW e \in S, NEW f \in S, g[e].status = "active", sameFingerprint(g[f], g[e].id)
      PROVE  g[f] = g[e] \/ g[f].at < g[e].at
  <2>1. g[e] = e /\ sameFingerprint(f, e.id) /\ e.status = "active"
    BY <1>4 DEF sameFingerprint
  <2>2. f = e \/ f.at < e.at
    BY <2>1 DEF Snapshot, Latest
  <2> QED BY <2>1, <2>2
<1>5. Latest(T)
  BY <1>4 DEF Latest
<1> QED BY <1>2, <1>3, <1>5

\* Superseding an entry changes its status and its successors only.
LEMMA SupersededFields ==
    ASSUME NEW e \in Entry, NEW c \in Candidates
    PROVE  /\ superseded(e, c) \in Entry
           /\ superseded(e, c).id = e.id /\ superseded(e, c).at = e.at
           /\ superseded(e, c).supersedes = e.supersedes
           /\ superseded(e, c).supersededBy = e.supersededBy \union {c}
           /\ superseded(e, c).status = "superseded"
BY DEF superseded, Entry

\* A promotion makes a snapshot of the next instant.
LEMMA PromoteSnapshot ==
    ASSUME NEW c \in Candidates, NEW S, NEW k, k = kindOf[c], NEW t \in Nat,
           Snapshot(S, k, t)
    PROVE  Snapshot(afterPromote(S, c, t), k, t + 1)
<1> DEFINE ids == {e.id : e \in matchingActive(S, c)}
           g == [e \in S |-> IF e.id \in ids THEN superseded(e, c) ELSE e]
           T == {g[e] : e \in S}
           n == [id |-> c, at |-> t, status |-> "active", supersedes |-> ids,
                 supersededBy |-> {}]
           R == T \union {n}
<1>1. S \subseteq Entry
  BY DEF Snapshot, Filed
<1>2. ids \subseteq Candidates
  BY <1>1 DEF matchingActive, Entry
<1>3. n \in Entry /\ n.id = c /\ n.at = t /\ n.supersedes = ids /\ n.supersededBy = {}
      /\ n.status = "active"
  BY <1>2 DEF Entry
<1>4. afterPromote(S, c, t) = R
  BY DEF afterPromote
<1>5. /\ g \in [S -> Entry]
      /\ \A e \in S : /\ g[e].id = e.id /\ g[e].at = e.at /\ g[e].supersedes = e.supersedes
                      /\ g[e].status = "active" => g[e] = e /\ e.id \notin ids
                      /\ e.id \in ids => g[e].supersededBy = e.supersededBy \union {c}
                      /\ e.id \notin ids => g[e] = e
  BY <1>1, SupersededFields
<1> HIDE DEF g
<1>6. Filed(T, k, t) /\ Latest(T) /\ Clean(T)
  <2>1. \A e \in S : /\ g[e].id = e.id /\ g[e].at = e.at
                     /\ g[e].status = "active" => g[e] = e
    BY <1>5
  <2>2. g \in [S -> Entry]
    BY <1>5
  <2> QED BY <2>1, <2>2, MapLatest, SMTT(30)
<1>7. Filed(R, k, t + 1)
  BY <1>3, <1>6 DEF Filed, Entry
<1>8. Clean(R)
  BY <1>3, <1>6 DEF Clean
<1>9. \A f \in T : f.at < t
  BY <1>6 DEF Filed
<1>10. ASSUME NEW f \in T, f.status = "active", sameFingerprint(f, c)
       PROVE  FALSE
  <2>1. PICK e \in S : f = g[e]
    OBVIOUS
  <2>2. f = e /\ e.id \notin ids
    BY <2>1, <1>5, <1>10
  <2>3. e \in matchingActive(S, c)
    BY <2>2, <1>10 DEF matchingActive
  <2> QED BY <2>2, <2>3
<1>11. Latest(R)
  <2>1. SUFFICES ASSUME NEW e \in R, NEW f \in R, e.status = "active", sameFingerprint(f, e.id)
                 PROVE  f = e \/ f.at < e.at
    BY DEF Latest
  <2>2. CASE e = n
    BY <2>2, <1>3, <1>9
  <2>3. CASE e # n /\ f = n
    BY <2>1, <2>3, <1>3, <1>10 DEF sameFingerprint
  <2>4. CASE e # n /\ f # n
    BY <2>1, <2>4, <1>6 DEF Latest
  <2> QED BY <2>2, <2>3, <2>4
<1>12. Listed(R)
  <2>1. ASSUME NEW e \in S
        PROVE  /\ g[e].status = "superseded" => g[e].supersededBy # {}
               /\ \A d \in g[e].supersededBy \ {g[e].id} :
                     \E f \in withId(R, d) : g[e].id \in f.supersedes
    <3>1. /\ e.status = "superseded" => e.supersededBy # {}
          /\ \A d \in e.supersededBy \ {e.id} : \E f \in withId(S, d) : e.id \in f.supersedes
      BY DEF Snapshot, Listed
    <3>2. ASSUME NEW d \in e.supersededBy \ {e.id}
          PROVE  \E f \in withId(R, d) : e.id \in f.supersedes
      <4>1. PICK f \in S : f.id = d /\ e.id \in f.supersedes
        BY <3>1 DEF withId
      <4>2. g[f] \in R /\ g[f].id = d /\ e.id \in g[f].supersedes
        BY <4>1, <1>5
      <4> QED BY <4>2 DEF withId
    <3>3. e.id \in ids => n \in withId(R, c) /\ e.id \in n.supersedes
      BY <1>3 DEF withId
    <3>4. CASE e.id \in ids
      <4>1. g[e].id = e.id /\ g[e].supersededBy = e.supersededBy \union {c}
        BY <1>5, <3>4
      <4>2. \A d \in g[e].supersededBy \ {e.id} : d = c \/ d \in e.supersededBy \ {e.id}
        BY <4>1
      <4> HIDE DEF R, n, ids
      <4> QED BY <3>2, <3>3, <3>4, <4>1, <4>2
    <3>5. CASE e.id \notin ids
      <4>1. g[e] = e
        BY <1>5, <3>5
      <4> HIDE DEF R, n, ids
      <4> QED BY <3>1, <3>2, <4>1
    <3> QED BY <3>4, <3>5
  <2> QED BY <2>1, <1>3 DEF Listed
<1> QED BY <1>4, <1>7, <1>8, <1>11, <1>12 DEF Snapshot

\* Retiring makes a snapshot.
LEMMA RetireSnapshot ==
    ASSUME NEW c \in Candidates, NEW S, NEW k, NEW t \in Nat, Snapshot(S, k, t)
    PROVE  Snapshot(afterRetire(S, c), k, t)
<1> DEFINE g == [e \in S |-> IF e.id = c THEN [e EXCEPT !.status = "retired"] ELSE e]
           T == {g[e] : e \in S}
<1>1. S \subseteq Entry
  BY DEF Snapshot, Filed
<1>2. afterRetire(S, c) = T
  BY DEF afterRetire
<1>3. /\ g \in [S -> Entry]
      /\ \A e \in S : /\ g[e].id = e.id /\ g[e].at = e.at /\ g[e].supersedes = e.supersedes
                      /\ g[e].supersededBy = e.supersededBy
                      /\ g[e].status \in {"active", "superseded"} => g[e] = e
  BY <1>1 DEF Entry
<1> HIDE DEF g
<1>4. Filed(T, k, t) /\ Latest(T) /\ Clean(T)
  <2>1. \A e \in S : /\ g[e].id = e.id /\ g[e].at = e.at
                     /\ g[e].status = "active" => g[e] = e
    BY <1>3
  <2> QED BY <1>3, <2>1, MapLatest, SMTT(40)
<1>5. Listed(T)
  <2>1. ASSUME NEW e \in S
        PROVE  /\ g[e].status = "superseded" => g[e].supersededBy # {}
               /\ \A d \in g[e].supersededBy \ {g[e].id} :
                     \E f \in withId(T, d) : g[e].id \in f.supersedes
    <3>1. /\ e.status = "superseded" => e.supersededBy # {}
          /\ \A d \in e.supersededBy \ {e.id} : \E f \in withId(S, d) : e.id \in f.supersedes
      BY DEF Snapshot, Listed
    <3>2. ASSUME NEW d \in e.supersededBy \ {e.id}
          PROVE  \E f \in withId(T, d) : e.id \in f.supersedes
      <4>1. PICK f \in S : f.id = d /\ e.id \in f.supersedes
        BY <3>1 DEF withId
      <4> QED BY <4>1, <1>3 DEF withId
    <3> QED BY <3>1, <3>2, <1>3
  <2> QED BY <2>1 DEF Listed
<1> QED BY <1>2, <1>4, <1>5 DEF Snapshot

\* Superseding makes a snapshot, provided the successor is in it.
LEMMA SupersedeSnapshot ==
    ASSUME NEW c \in Candidates, NEW by \in Candidates, NEW S, NEW k, NEW t \in Nat,
           Snapshot(S, k, t), withId(S, by) # {}
    PROVE  Snapshot(afterSupersede(S, c, by), k, t)
<1> DEFINE g == [e \in S |-> CASE e.id = c -> superseded(e, by)
                               [] e.id = by /\ by # c -> [e EXCEPT !.supersedes = @ \union {c}]
                               [] OTHER -> e]
           T == {g[e] : e \in S}
<1>1. S \subseteq Entry
  BY DEF Snapshot, Filed
<1>2. afterSupersede(S, c, by) = T
  BY DEF afterSupersede
<1>3. ASSUME NEW e \in S
      PROVE  /\ g[e] \in Entry /\ g[e].id = e.id /\ g[e].at = e.at
             /\ e.supersedes \subseteq g[e].supersedes
             /\ e.id = c => g[e].supersededBy = e.supersededBy \union {by}
             /\ e.id # c => g[e].supersededBy = e.supersededBy /\ g[e].status = e.status
             /\ e.id = c => g[e].status = "superseded"
             /\ e.id = by /\ by # c => c \in g[e].supersedes
  <2>1. CASE e.id = c
    BY <1>1, <2>1, SupersededFields
  <2>2. CASE e.id = by /\ by # c
    <3>1. g[e] = [e EXCEPT !.supersedes = @ \union {c}]
      BY <2>2
    <3> QED BY <3>1, <2>2, <1>1 DEF Entry
  <2>3. CASE e.id # c /\ e.id # by
    BY <1>1, <2>3
  <2> QED BY <2>1, <2>2, <2>3
<1>4. g \in [S -> Entry]
  BY <1>3
<1> HIDE DEF g
<1>5. Filed(T, k, t)
  BY <1>1, <1>3 DEF Snapshot, Filed
<1>6. Clean(T)
  BY <1>3 DEF Snapshot, Clean
<1>7. ASSUME NEW e \in S, NEW f \in S, g[e].status = "active", sameFingerprint(g[f], g[e].id)
      PROVE  g[f] = g[e] \/ g[f].at < g[e].at
  <2>1. e.status = "active" /\ sameFingerprint(f, e.id)
    BY <1>3, <1>7 DEF sameFingerprint
  <2>2. f = e \/ f.at < e.at
    BY <2>1 DEF Snapshot, Latest
  <2> QED BY <2>2, <1>3
<1>8. Latest(T)
  BY <1>7 DEF Latest
<1>9. Listed(T)
  <2>1. ASSUME NEW e \in S
        PROVE  /\ g[e].status = "superseded" => g[e].supersededBy # {}
               /\ \A d \in g[e].supersededBy \ {g[e].id} :
                     \E f \in withId(T, d) : g[e].id \in f.supersedes
    <3>1. /\ e.status = "superseded" => e.supersededBy # {}
          /\ \A d \in e.supersededBy \ {e.id} : \E f \in withId(S, d) : e.id \in f.supersedes
      BY DEF Snapshot, Listed
    <3>2. ASSUME NEW d \in e.supersededBy \ {e.id}
          PROVE  \E f \in withId(T, d) : e.id \in f.supersedes
      <4>1. PICK f \in S : f.id = d /\ e.id \in f.supersedes
        BY <3>1 DEF withId
      <4> QED BY <4>1, <1>3 DEF withId
    <3>3. ASSUME e.id = c, by # c
          PROVE  \E f \in withId(T, by) : e.id \in f.supersedes
      <4>1. PICK f \in S : f.id = by
        BY DEF withId
      <4> QED BY <4>1, <3>3, <1>3 DEF withId
    <3>4. /\ g[e].id = e.id
          /\ e.id = c => g[e].supersededBy = e.supersededBy \union {by}
          /\ e.id # c => g[e].supersededBy = e.supersededBy /\ g[e].status = e.status
      BY <1>3
    <3>5. \A d \in g[e].supersededBy \ {e.id} :
             d \in e.supersededBy \ {e.id} \/ (e.id = c /\ d = by /\ by # c)
      BY <3>4
    <3> HIDE DEF T
    <3> QED BY <3>1, <3>2, <3>3, <3>4, <3>5
  <2> QED BY <2>1 DEF Listed
<1> QED BY <1>2, <1>5, <1>6, <1>8, <1>9 DEF Snapshot

\* Pruning makes a snapshot: what it keeps has no successor to look for.
LEMMA PruneSnapshot ==
    ASSUME NEW S, NEW k, NEW t \in Nat, Snapshot(S, k, t)
    PROVE  Snapshot(afterPrune(S), k, t)
<1>1. /\ afterPrune(S) \subseteq S
      /\ \A e \in afterPrune(S) : e.supersededBy = {} /\ e.status # "superseded"
  BY DEF afterPrune, collapseByFingerprint, withoutSuperseded
<1>2. Filed(afterPrune(S), k, t) /\ Latest(afterPrune(S)) /\ Clean(afterPrune(S))
  BY <1>1 DEF Snapshot, Filed, Latest, Clean
<1>3. Listed(afterPrune(S))
  BY <1>1 DEF Listed
<1> QED BY <1>2, <1>3 DEF Snapshot

-----------------------------------------------------------------------------
(* The steps. *)

Locations == {"idle", "read", "write", "candidates", "pruneRead", "pruneWrite"}

\* What a process holds when it is idle.
LEMMA BlankType == Blank \in Memory /\ Blank.visiting = 1
BY DEF Blank, Memory

\* A step that leaves the files snapshots, and its process with what its next step needs,
\* keeps the invariant.
LEMMA StepKeeps ==
    ASSUME IInv, NEW p \in Procs, NEW step \in Locations, NEW m \in Memory, Goto(p, step, m),
           candidates' \in SUBSET Candidates, commands' \in Nat, crashes' \in Nat,
           clock' \in {clock, clock + 1},
           knowledge' \in [Kinds -> SUBSET Entry],
           \A k \in Kinds : Snapshot(knowledge'[k], k, clock'),
           step = "read" => m.id \in Candidates,
           step = "read" /\ m.op = "supersede" => m.by \in Candidates,
           step = "write" => /\ m.id \in Candidates /\ kindOf[m.id] \in Kinds
                             /\ Snapshot(m.entries, kindOf[m.id], clock'),
           step \in {"pruneRead", "pruneWrite"} => m.visiting \in 1..Len(KindOrder),
           step = "pruneWrite" => Snapshot(m.entries, KindOrder[m.visiting], clock'),
           step = "candidates" => m.visiting = 1
    PROVE  IInv'
<1>1. /\ pc' = [pc EXCEPT ![p] = step] /\ mem' = [mem EXCEPT ![p] = m]
      /\ pc \in [Procs -> Locations] /\ mem \in [Procs -> Memory] /\ clock \in Nat
  BY DEF Goto, IInv, TypeOK, Locations
<1>2. /\ pc'[p] = step /\ mem'[p] = m
      /\ \A q \in Procs : q # p => pc'[q] = pc[q] /\ mem'[q] = mem[q]
  BY <1>1
<1>3. \A k \in Kinds : \A e \in knowledge'[k] : kindOf[e.id] = k
  BY DEF Snapshot, Filed
<1>4. clock' \in Nat /\ pc' \in [Procs -> Locations] /\ mem' \in [Procs -> Memory]
  BY <1>1
<1>5. TypeOK'
  BY <1>3, <1>4 DEF TypeOK, Locations
<1>6. \A S, k : Snapshot(S, k, clock) => Snapshot(S, k, clock')
  BY <1>1, SnapshotLater
<1>7. ASSUME NEW q \in Procs
      PROVE  Holds(q)'
  <2>1. CASE q = p
    BY <1>2, <2>1 DEF Holds, Snapshot, Filed, Latest, Clean, Listed
  <2>2. CASE q # p
    <3>1. Holds(q)
      BY DEF IInv
    <3>2. pc'[q] = pc[q] /\ mem'[q] = mem[q]
      BY <1>2, <2>2
    <3>3. /\ pc[q] = "write" => Snapshot(mem[q].entries, kindOf[mem[q].id], clock')
          /\ pc[q] = "pruneWrite" => Snapshot(mem[q].entries, KindOrder[mem[q].visiting], clock')
      BY <1>6, <3>1 DEF Holds
    <3> QED BY <3>1, <3>2, <3>3 DEF Holds
  <2> QED BY <2>1, <2>2
<1> QED BY <1>5, <1>7 DEF IInv

\* Initially there is no knowledge.
LEMMA InitInv == Init => IInv
<1> SUFFICES ASSUME Init PROVE IInv
  OBVIOUS
<1>1. TypeOK
  BY BlankType DEF Init, TypeOK
<1>2. \A k \in Kinds : Snapshot(knowledge[k], k, clock)
  BY DEF Init, Snapshot, Filed, Latest, Clean, Listed
<1>3. \A p \in Procs : Holds(p)
  BY DEF Init, Holds
<1> QED BY <1>1, <1>2, <1>3 DEF IInv

\* Every step keeps the invariant.
LEMMA NextInv == IInv /\ [Next]_vars => IInv'
<1> SUFFICES ASSUME IInv, [Next]_vars PROVE IInv'
  OBVIOUS
<1>a. /\ candidates \in SUBSET Candidates /\ knowledge \in [Kinds -> SUBSET Entry]
      /\ clock \in Nat /\ commands \in Nat /\ crashes \in Nat
      /\ \A p \in Procs : mem[p] \in Memory
      /\ \A k \in Kinds : Snapshot(knowledge[k], k, clock)
  BY DEF IInv, TypeOK
<1>b. \A p \in Procs : Holds(p)
  BY DEF IInv
<1>c. ASSUME NEW p \in Procs, End(p), candidates' = candidates, commands' \in Nat,
             crashes' \in Nat, clock' = clock, knowledge' \in [Kinds -> SUBSET Entry],
             \A k \in Kinds : Snapshot(knowledge'[k], k, clock)
      PROVE  IInv'
  BY <1>c, <1>a, BlankType, StepKeeps DEF End, Locations
<1>d. ASSUME NEW p \in Procs, NEW k \in Kinds, NEW S, Snapshot(S, k, clock),
             knowledge' = [knowledge EXCEPT ![k] = S]
      PROVE  /\ knowledge' \in [Kinds -> SUBSET Entry]
             /\ \A l \in Kinds : Snapshot(knowledge'[l], l, clock)
  <2>1. S \subseteq Entry
    BY <1>d DEF Snapshot, Filed
  <2>2. \A l \in Kinds : knowledge'[l] = IF l = k THEN S ELSE knowledge[l]
    BY <1>a, <1>d
  <2> QED BY <2>1, <2>2, <1>a, <1>d
<1>e. \A n \in 1..Len(KindOrder) : KindOrder[n] \in Kinds
  BY DEF Kinds
<1>1. ASSUME NEW p \in Procs, Start(p)
      PROVE  IInv'
  <2>0. UNCHANGED <<candidates, knowledge, clock, crashes>> /\ commands' \in Nat
    <3>1. UNCHANGED <<candidates, knowledge, clock, crashes>> /\ commands' = commands + 1
      BY <1>1, Zenon DEF Start
    <3> QED BY <3>1, <1>a
  <2>1. CASE \E c \in Candidates, op \in {"promote", "retire"} :
               Goto(p, "read", [Blank EXCEPT !.op = op, !.id = c])
    <3>1. PICK c \in Candidates, op \in {"promote", "retire"} :
               Goto(p, "read", [Blank EXCEPT !.op = op, !.id = c])
      BY <2>1
    <3> DEFINE m == [Blank EXCEPT !.op = op, !.id = c]
    <3>2. m \in Memory /\ m.id = c /\ m.op = op
      BY DEF Blank, Memory, Operations
    <3>3. Goto(p, "read", m)
      BY <3>1
    <3> HIDE DEF m
    <3> QED BY <2>0, <3>2, <3>3, <1>a, StepKeeps DEF Locations
  <2>2. CASE \E c, by \in Candidates :
               Goto(p, "read", [Blank EXCEPT !.op = "supersede", !.id = c, !.by = by])
    <3>1. PICK c \in Candidates, by \in Candidates :
               Goto(p, "read", [Blank EXCEPT !.op = "supersede", !.id = c, !.by = by])
      BY <2>2
    <3> DEFINE m == [Blank EXCEPT !.op = "supersede", !.id = c, !.by = by]
    <3>2. m \in Memory /\ m.id = c /\ m.op = "supersede" /\ m.by = by
      BY DEF Blank, Memory, Operations
    <3>3. Goto(p, "read", m)
      BY <3>1
    <3> HIDE DEF m
    <3> QED BY <2>0, <3>2, <3>3, <1>a, StepKeeps DEF Locations
  <2>3. CASE Goto(p, "candidates", [Blank EXCEPT !.op = "prune"])
    <3> DEFINE m == [Blank EXCEPT !.op = "prune"]
    <3>1. m \in Memory /\ m.visiting = 1
      BY DEF Blank, Memory, Operations
    <3>2. Goto(p, "candidates", m)
      BY <2>3
    <3> HIDE DEF m
    <3> QED BY <2>0, <3>1, <3>2, <1>a, StepKeeps DEF Locations
  <2> QED BY <1>1, <2>1, <2>2, <2>3 DEF Start
<1>f. ASSUME NEW p \in Procs, mem[p].id \in Candidates, kindOf[mem[p].id] \in Kinds,
             NEW S, clock' \in {clock, clock + 1}, Snapshot(S, kindOf[mem[p].id], clock'),
             Goto(p, "write", [mem[p] EXCEPT !.entries = S]),
             UNCHANGED <<candidates, knowledge, commands, crashes>>
      PROVE  IInv'
  <2> DEFINE m == [mem[p] EXCEPT !.entries = S]
  <2>1. S \subseteq Entry
    BY <1>f DEF Snapshot, Filed
  <2>2. m \in Memory /\ m.id = mem[p].id /\ m.entries = S
    BY <2>1, <1>a DEF Memory
  <2>3. Goto(p, "write", m)
    BY <1>f
  <2>4. \A k \in Kinds : Snapshot(knowledge'[k], k, clock')
    BY <1>a, <1>f, SnapshotLater
  <2> HIDE DEF m
  <2> QED BY <2>2, <2>3, <2>4, <1>a, <1>f, StepKeeps DEF Locations
<1>2. ASSUME NEW p \in Procs, ReadToPromote(p)
      PROVE  IInv'
  <2>1. mem[p].id \in Candidates
    BY <1>2, <1>b DEF ReadToPromote, At, Holds
  <2> DEFINE c == mem[p].id  S == afterPromote(knowledge[kindOf[c]], c, clock)
  <2>2. CASE promotable(c)
    <3>1. kindOf[c] \in Kinds
      BY <2>1, <2>2 DEF promotable
    <3>2. Snapshot(S, kindOf[c], clock + 1)
      <4>1. Snapshot(knowledge[kindOf[c]], kindOf[c], clock)
        BY <3>1, <1>a
      <4> QED BY <2>1, <4>1, <1>a, PromoteSnapshot
    <3>3. /\ Goto(p, "write", [mem[p] EXCEPT !.entries = S]) /\ clock' = clock + 1
          /\ UNCHANGED <<candidates, knowledge, commands, crashes>>
      BY <1>2, <2>2 DEF ReadToPromote, resolveKnowledgePath
    <3>4. clock' \in {clock, clock + 1} /\ Snapshot(S, kindOf[mem[p].id], clock')
      BY <3>2, <3>3
    <3> HIDE DEF S
    <3> QED BY <2>1, <3>1, <3>3, <3>4, <1>f, SMTT(60)
  <2>3. CASE ~promotable(c)
    BY <1>2, <2>3, <1>a, <1>c DEF ReadToPromote
  <2> QED BY <2>2, <2>3
<1>3. ASSUME NEW p \in Procs, ReadToRetire(p)
      PROVE  IInv'
  <2>1. mem[p].id \in Candidates
    BY <1>3, <1>b DEF ReadToRetire, At, Holds
  <2> DEFINE c == mem[p].id  S == afterRetire(knowledge[kindOf[c]], c)
  <2>2. CASE End(p)
    BY <1>3, <2>2, <1>a, <1>c DEF ReadToRetire
  <2>3. CASE kindOf[c] \in Kinds /\ Goto(p, "write", [mem[p] EXCEPT !.entries = S])
    <3>1. Snapshot(S, kindOf[c], clock)
      BY <2>1, <2>3, <1>a, RetireSnapshot
    <3>2. UNCHANGED <<candidates, knowledge, clock, commands, crashes>>
      BY <1>3 DEF ReadToRetire
    <3>3. /\ UNCHANGED <<candidates, knowledge, commands, crashes>>
          /\ clock' \in {clock, clock + 1} /\ Snapshot(S, kindOf[mem[p].id], clock')
      BY <3>1, <3>2
    <3> HIDE DEF S
    <3> QED BY <2>1, <2>3, <3>3, <1>f, SMTT(60)
  <2> QED BY <1>3, <2>2, <2>3 DEF ReadToRetire, resolveKnowledgePath
<1>4. ASSUME NEW p \in Procs, ReadToSupersede(p)
      PROVE  IInv'
  <2>1. mem[p].id \in Candidates /\ mem[p].by \in Candidates
    BY <1>4, <1>b DEF ReadToSupersede, At, Holds
  <2> DEFINE c == mem[p].id  S == afterSupersede(knowledge[kindOf[c]], c, mem[p].by)
  <2>2. CASE End(p)
    BY <1>4, <2>2, <1>a, <1>c DEF ReadToSupersede
  <2>3. CASE /\ kindOf[c] \in Kinds /\ withId(knowledge[kindOf[c]], mem[p].by) # {}
             /\ Goto(p, "write", [mem[p] EXCEPT !.entries = S])
    <3>1. Snapshot(S, kindOf[c], clock)
      BY <2>1, <2>3, <1>a, SupersedeSnapshot
    <3>2. UNCHANGED <<candidates, knowledge, clock, commands, crashes>>
      BY <1>4 DEF ReadToSupersede
    <3>3. /\ UNCHANGED <<candidates, knowledge, commands, crashes>>
          /\ clock' \in {clock, clock + 1} /\ Snapshot(S, kindOf[mem[p].id], clock')
      BY <3>1, <3>2
    <3> HIDE DEF S
    <3> QED BY <2>1, <2>3, <3>3, <1>f, SMTT(60)
  <2> QED BY <1>4, <2>2, <2>3 DEF ReadToSupersede, resolveKnowledgePath
<1>5. ASSUME NEW p \in Procs, WriteKnowledge(p)
      PROVE  IInv'
  <2>1. /\ kindOf[mem[p].id] \in Kinds
        /\ Snapshot(mem[p].entries, kindOf[mem[p].id], clock)
    BY <1>5, <1>b DEF WriteKnowledge, At, Holds
  <2>2. /\ knowledge' \in [Kinds -> SUBSET Entry]
        /\ \A l \in Kinds : Snapshot(knowledge'[l], l, clock)
    BY <1>5, <1>d, <2>1 DEF WriteKnowledge, resolveKnowledgePath
  <2> QED BY <1>5, <1>a, <1>c, <2>2 DEF WriteKnowledge
<1>6. ASSUME NEW p \in Procs, PruneCandidates(p)
      PROVE  IInv'
  <2>1. mem[p].visiting = 1
    BY <1>6, <1>b DEF PruneCandidates, At, Holds
  <2>2. candidates' \in SUBSET Candidates
    BY <1>6, <1>a DEF PruneCandidates
  <2>3. 1 \in 1..Len(KindOrder)
    OBVIOUS
  <2> QED BY <1>6, <1>a, <2>1, <2>2, <2>3, StepKeeps DEF PruneCandidates, Locations
<1>g. ASSUME NEW p \in Procs, NEW m \in Memory, m.visiting \in 1..Len(KindOrder),
             NextFile(p, m), candidates' = candidates, commands' = commands,
             crashes' = crashes, clock' = clock, knowledge' \in [Kinds -> SUBSET Entry],
             \A k \in Kinds : Snapshot(knowledge'[k], k, clock)
      PROVE  IInv'
  <2>1. CASE End(p)
    BY <2>1, <1>a, <1>c, <1>g
  <2>2. CASE /\ m.visiting < Len(KindOrder)
             /\ Goto(p, "pruneRead", [m EXCEPT !.visiting = @ + 1, !.entries = {}])
    <3> DEFINE n == [m EXCEPT !.visiting = @ + 1, !.entries = {}]
    <3>0. m.visiting \in Nat /\ m.visiting + 1 \in Nat /\ {} \in SUBSET Entry
      BY DEF Memory
    <3>1. n \in Memory /\ n.visiting = m.visiting + 1
      BY <3>0 DEF Memory
    <3>2. n.visiting \in 1..Len(KindOrder)
      BY <2>2, <3>1, <1>g
    <3>3. Goto(p, "pruneRead", n)
      BY <2>2
    <3> HIDE DEF n
    <3> QED BY <3>1, <3>2, <3>3, <1>a, <1>g, StepKeeps DEF Locations
  <2> QED BY <1>g, <2>1, <2>2 DEF NextFile
<1>7. ASSUME NEW p \in Procs, PruneRead(p)
      PROVE  IInv'
  <2> DEFINE k == KindOrder[mem[p].visiting]
             m == [mem[p] EXCEPT !.entries = afterPrune(knowledge[k]),
                       !.pruned = @ \/ withoutSuperseded(knowledge[k]) # knowledge[k]]
  <2>1. mem[p].visiting \in 1..Len(KindOrder) /\ k \in Kinds
    BY <1>7, <1>b, <1>e DEF PruneRead, At, Holds
  <2>2. Snapshot(afterPrune(knowledge[k]), k, clock)
    BY <2>1, <1>a, PruneSnapshot
  <2>3. afterPrune(knowledge[k]) \subseteq Entry
    BY <2>2 DEF Snapshot, Filed
  <2>4. /\ m \in Memory /\ m.visiting = mem[p].visiting
        /\ m.entries = afterPrune(knowledge[k])
    BY <2>3, <1>a DEF Memory
  <2>5. /\ Goto(p, "pruneWrite", m) \/ NextFile(p, m)
        /\ UNCHANGED <<candidates, knowledge, clock, commands, crashes>>
    BY <1>7 DEF PruneRead
  <2> HIDE DEF m
  <2>6. CASE Goto(p, "pruneWrite", m)
    <3>1. Snapshot(m.entries, KindOrder[m.visiting], clock')
      BY <2>2, <2>4, <2>5
    <3> HIDE DEF k
    <3> QED BY <2>1, <2>4, <2>5, <2>6, <3>1, <1>a, StepKeeps DEF Locations
  <2>7. CASE NextFile(p, m)
    BY <2>1, <2>4, <2>5, <2>7, <1>a, <1>g
  <2> QED BY <2>5, <2>6, <2>7
<1>8. ASSUME NEW p \in Procs, PruneWrite(p)
      PROVE  IInv'
  <2> DEFINE k == KindOrder[mem[p].visiting]
  <2>1. /\ mem[p].visiting \in 1..Len(KindOrder) /\ k \in Kinds
        /\ Snapshot(mem[p].entries, k, clock)
    BY <1>8, <1>b, <1>e DEF PruneWrite, At, Holds
  <2>2. /\ knowledge' \in [Kinds -> SUBSET Entry]
        /\ \A l \in Kinds : Snapshot(knowledge'[l], l, clock)
    BY <1>8, <1>d, <2>1 DEF PruneWrite
  <2> QED BY <1>8, <1>a, <1>g, <2>1, <2>2 DEF PruneWrite
<1>9. ASSUME NEW p \in Procs, Crash(p)
      PROVE  IInv'
  BY <1>9, <1>a, <1>c DEF Crash
<1>10. CASE UNCHANGED vars
  <2>1. /\ candidates' = candidates /\ knowledge' = knowledge /\ clock' = clock
        /\ pc' = pc /\ mem' = mem /\ commands' = commands /\ crashes' = crashes
    BY <1>10 DEF vars
  <2> QED BY <2>1 DEF IInv, TypeOK, Holds
<1> QED BY <1>1, <1>2, <1>3, <1>4, <1>5, <1>6, <1>7, <1>8, <1>9, <1>10 DEF Next, Step

\* MemoryKnowledge is type-correct: each file holds entries of its own kind.
THEOREM TypeCorrect == Spec => []TypeOK
<1>1. IInv => TypeOK
  BY DEF IInv
<1> QED BY <1>1, InitInv, NextInv, PTL DEF Spec

\* However promotions, retirements, supersessions and prunings overlap, no fingerprint ever has
\* two active entries in a knowledge file.
THEOREM AtMostOneActive == Spec => []OneActive
<1>1. IInv => OneActive
  <2>1. SUFFICES ASSUME IInv, NEW k \in Kinds, NEW e \in knowledge[k], NEW f \in knowledge[k],
                        e.status = "active", f.status = "active", sameFingerprint(e, f.id)
                 PROVE  e = f
    BY DEF OneActive
  <2>2. Latest(knowledge[k]) /\ knowledge[k] \subseteq Entry
    BY <2>1 DEF IInv, Snapshot, Filed
  <2>3. sameFingerprint(f, e.id)
    BY <2>1 DEF sameFingerprint
  <2>4. e = f \/ (f.at < e.at /\ e.at < f.at)
    BY <2>1, <2>2, <2>3 DEF Latest
  <2> QED BY <2>2, <2>4 DEF Entry
<1> QED BY <1>1, InitInv, NextInv, PTL DEF Spec

\* At any time, pruning a knowledge file would keep every active entry in it.
THEOREM PruningKeepsActive == Spec => []PruneKeepsActive
<1>1. IInv => PruneKeepsActive
  <2>1. SUFFICES ASSUME IInv, NEW k \in Kinds, NEW e \in knowledge[k], e.status = "active"
                 PROVE  e \in afterPrune(knowledge[k])
    BY DEF PruneKeepsActive
  <2>2. /\ Latest(knowledge[k]) /\ Clean(knowledge[k]) /\ knowledge[k] \subseteq Entry
    BY <2>1 DEF IInv, Snapshot, Filed
  <2>3. e \in withoutSuperseded(knowledge[k])
    BY <2>1, <2>2 DEF withoutSuperseded, Clean
  <2>4. \A f \in knowledge[k] : sameFingerprint(f, e.id) => f.at <= e.at
    BY <2>1, <2>2 DEF Latest, Entry
  <2> QED BY <2>3, <2>4 DEF afterPrune, collapseByFingerprint, withoutSuperseded
<1> QED BY <1>1, InitInv, NextInv, PTL DEF Spec

\* At any time, `memory retire` of an id with an active entry is not refused: the entry it
\* finds first is the active one.
THEOREM ActiveAlwaysRetirable == Spec => []ActiveCanBeRetired
<1>1. IInv => ActiveCanBeRetired
  <2>1. SUFFICES ASSUME IInv, NEW k \in Kinds, NEW e \in knowledge[k], e.status = "active"
                 PROVE  retirable(knowledge[k], e.id)
    BY DEF ActiveCanBeRetired
  <2>2. Latest(knowledge[k]) /\ knowledge[k] \subseteq Entry
    BY <2>1 DEF IInv, Snapshot, Filed
  <2>3. \A f \in withId(knowledge[k], e.id) : f = e \/ f.at < e.at
    BY <2>1, <2>2 DEF Latest, withId, sameFingerprint
  <2>4. e \in withId(knowledge[k], e.id)
        /\ \A f \in withId(knowledge[k], e.id) : f.at <= e.at
    BY <2>2, <2>3 DEF withId, Entry
  <2> DEFINE x == found(knowledge[k], e.id)
  <2>5. x \in withId(knowledge[k], e.id) /\ e.at <= x.at
    BY <2>4, Zenon DEF found
  <2> HIDE DEF x
  <2>6. x = e \/ x.at < e.at
    BY <2>3, <2>5
  <2>7. x.at \in Nat /\ e.at \in Nat
    BY <2>2, <2>5 DEF withId, Entry
  <2>8. x = e
    BY <2>5, <2>6, <2>7
  <2> QED BY <2>1, <2>4, <2>8 DEF retirable, x
<1> QED BY <1>1, InitInv, NextInv, PTL DEF Spec

\* An entry that was superseded always has its successor beside it, listing it.
THEOREM SuccessorAlwaysListed == Spec => []SuccessorListed
<1>1. IInv => SuccessorListed
  BY DEF IInv, Snapshot, Listed, SuccessorListed
<1> QED BY <1>1, InitInv, NextInv, PTL DEF Spec
=============================================================================
