------------------------- MODULE TestAutofixProofs --------------------------
(***************************************************************************)
(* Proofs about TestAutofix, for any number of CI runners, signatures and  *)
(* archives.  Merging is the crux: when the sources are numbered 1, 2, ... *)
(* by original id, so is the merge, since its ids are then an interval.    *)
(* The counts of failures rest on that: a merge counts the failures of the *)
(* newest archive at least, and only failures that some archive holds.     *)
(***************************************************************************)
EXTENDS TestAutofix, FiniteSetTheorems, SequenceTheorems,
        WellFoundedInduction, TLAPS

-----------------------------------------------------------------------------
(* Sets of naturals. *)

\* A set of naturals that is not empty has a least member.
LEMMA LeastNatural ==
    ASSUME NEW T \in SUBSET Nat, T # {}
    PROVE  \E x \in T : \A y \in T : x <= y
<1> DEFINE R == {ss \in Nat \X Nat : ss[1] < ss[2]}
<1>1. OpToRel(<, Nat) = R
  BY DEF OpToRel
<1>2. IsWellFoundedOn(R, Nat)
  BY <1>1, NatLessThanWellFounded
<1>3. \E x \in T : \A y \in T : ~ (<<y, x>> \in R)
  <2> HIDE DEF R
  <2> QED  BY <1>2, WFMin
<1>4. PICK x \in T : \A y \in T : ~ (<<y, x>> \in R)
  BY <1>3
<1>5. \A y \in T : x <= y
  <2> TAKE y \in T
  <2>1. x \in Nat /\ y \in Nat
    OBVIOUS
  <2>2. ~ (y < x)
    BY <1>4, <2>1
  <2> QED  BY <2>1, <2>2
<1> QED  BY <1>5

\* What a sequence is indexed by and holds.
LEMMA SequenceFacts ==
    ASSUME NEW S, NEW s \in Seq(S)
    PROVE  /\ Len(s) \in Nat /\ DOMAIN s = 1..Len(s)
           /\ \A i \in DOMAIN s : i \in Nat \ {0} /\ s[i] \in S
OBVIOUS

\* A sequence that is not empty has a first element.
LEMMA FirstOfSome ==
    ASSUME NEW S, NEW s \in Seq(S), s # << >>
    PROVE  1 \in DOMAIN s
<1>1. Len(s) \in Nat /\ DOMAIN s = 1..Len(s)
  BY SequenceFacts
<1>2. Len(s) # 0
  BY EmptySeq
<1> QED  BY <1>1, <1>2

\* In a set of positive naturals without gaps a member is its own rank.
LEMMA RankOfMember ==
    ASSUME NEW ids \in SUBSET (Nat \ {0}),
           \A o \in ids : \A k \in 1..o : k \in ids
    PROVE  \A o \in ids : Cardinality({k \in ids : k <= o}) = o
<1> TAKE o \in ids
<1>1. {k \in ids : k <= o} = 1..o
  <2>0. o \in Nat \ {0} /\ (\A k \in 1..o : k \in ids)
    OBVIOUS
  <2>1. ASSUME NEW k \in ids, k <= o
        PROVE  k \in 1..o
    <3>1. k \in Nat \ {0}
      OBVIOUS
    <3> QED  BY <2>0, <2>1, <3>1
  <2>2. \A k \in 1..o : k <= o
    BY <2>0
  <2> QED  BY <2>0, <2>1, <2>2
<1>2. Cardinality(1..o) = o
  BY FS_Interval
<1> QED  BY <1>1, <1>2

\* A finite such set is the interval from 1 to its cardinality, so that its nth member is n.
LEMMA NthMember ==
    ASSUME NEW ids \in SUBSET (Nat \ {0}), IsFiniteSet(ids),
           \A o \in ids : \A k \in 1..o : k \in ids,
           NEW i \in 1..Cardinality(ids)
    PROVE  i \in ids /\ nth(ids, i) = i
<1>0. Cardinality(ids) \in Nat
  BY FS_CardinalityType
<1>1. i \in ids
  <2> SUFFICES ASSUME i \notin ids PROVE FALSE
    OBVIOUS
  <2>1. ids \in SUBSET (1..(i - 1))
    BY <1>0
  <2>2. IsFiniteSet(1..(i - 1)) /\ Cardinality(1..(i - 1)) = i - 1
    <3>1. 1 \in Int /\ i - 1 \in Int
      BY <1>0
    <3>2. Cardinality(1..(i - 1)) = IF 1 > i - 1 THEN 0 ELSE (i - 1) - 1 + 1
      BY <3>1, FS_Interval
    <3> QED  BY <3>1, <3>2, <1>0, FS_Interval
  <2>3. Cardinality(ids) <= i - 1
    <3> DEFINE J == 1..(i - 1)
    <3>1. IsFiniteSet(J) /\ Cardinality(J) = i - 1 /\ ids \in SUBSET J
      BY <2>1, <2>2
    <3>2. Cardinality(ids) <= Cardinality(J)
      <4> HIDE DEF J
      <4> QED  BY <3>1, FS_Subset
    <3> QED  BY <3>1, <3>2
  <2> QED  BY <2>3, <1>0
<1>2. \A o \in ids : Cardinality({k \in ids : k <= o}) = o
  BY RankOfMember
<1> QED  BY <1>1, <1>2 DEF nth

-----------------------------------------------------------------------------
(* Merging. *)

\* Sources of a merge: finitely many numbered histories, in some order.
NumberedSources(as) ==
    /\ DOMAIN as \in SUBSET (Nat \ {0}) /\ IsFiniteSet(DOMAIN as)
    /\ \A i \in DOMAIN as : as[i] \in History /\ numbered(as[i])

Least(T, f) == f \in T /\ \A i \in T : f <= i

\* What a numbered list of archives holds, and where.
LEMMA PlacesOfNumbered ==
    ASSUME NEW as, NumberedSources(as)
    PROVE  /\ \A p \in places(as) :
                /\ p = <<p[1], p[2]>> /\ p[1] \in DOMAIN as
                /\ as[p[1]] \in History /\ p[2] \in DOMAIN as[p[1]]
                /\ p[1] \in Nat /\ p[2] \in Nat \ {0}
                /\ as[p[1]][p[2]] \in Entry
                /\ as[p[1]][p[2]].run_id = p[2]
                /\ as[p[1]][p[2]].original_run_id = p[2]
           /\ \A i \in DOMAIN as :
                \A k \in DOMAIN as[i] : <<i, k>> \in places(as)
<1>1. ASSUME NEW p \in places(as)
      PROVE  /\ p = <<p[1], p[2]>> /\ p[1] \in DOMAIN as
             /\ as[p[1]] \in History /\ p[2] \in DOMAIN as[p[1]]
             /\ p[1] \in Nat /\ p[2] \in Nat \ {0}
             /\ as[p[1]][p[2]] \in Entry
             /\ as[p[1]][p[2]].run_id = p[2]
             /\ as[p[1]][p[2]].original_run_id = p[2]
  <2>1. PICK i \in DOMAIN as : p \in {i} \X DOMAIN as[i]
    BY <1>1 DEF places
  <2>2. p = <<p[1], p[2]>> /\ p[1] = i /\ p[2] \in DOMAIN as[i]
    <3> DEFINE K == DOMAIN as[i]
    <3>1. p \in {i} \X K
      BY <2>1
    <3> HIDE DEF K
    <3>2. p = <<p[1], p[2]>> /\ p[1] = i /\ p[2] \in K
      BY <3>1
    <3> QED  BY <3>2 DEF K
  <2>3. i \in Nat /\ as[i] \in History
    BY <2>1 DEF NumberedSources
  <2>4. p[2] \in Nat \ {0} /\ as[i][p[2]] \in Entry
    <3> DEFINE h == as[i]
    <3>1. h \in Seq(Entry) /\ p[2] \in DOMAIN h
      BY <2>2, <2>3 DEF History
    <3> HIDE DEF h
    <3>2. p[2] \in Nat \ {0} /\ h[p[2]] \in Entry
      BY <3>1, SequenceFacts
    <3> QED  BY <3>2 DEF h
  <2>5. as[i][p[2]].run_id = p[2] /\ as[i][p[2]].original_run_id = p[2]
    BY <2>1, <2>2 DEF NumberedSources, numbered
  <2> QED  BY <2>1, <2>2, <2>3, <2>4, <2>5
<1>2. ASSUME NEW i \in DOMAIN as, NEW k \in DOMAIN as[i]
      PROVE  <<i, k>> \in places(as)
  <2> DEFINE K == DOMAIN as[i]
  <2>1. <<i, k>> \in {i} \X K
    <3> HIDE DEF K
    <3>1. k \in K
      BY DEF K
    <3> QED  BY <3>1
  <2> QED  BY <1>2, <2>1 DEF places
<1> QED  BY <1>1, <1>2

\* The original ids of numbered archives are positive, without gaps, and finitely many.
LEMMA IdsOfNumbered ==
    ASSUME NEW as, NumberedSources(as)
    PROVE  /\ originalIds(as) \in SUBSET (Nat \ {0})
           /\ \A o \in originalIds(as) : \A k \in 1..o : k \in originalIds(as)
           /\ IsFiniteSet(originalIds(as))
<1> DEFINE Sources == DOMAIN as
           f == [i \in Sources |-> DOMAIN as[i]]
           Ranges == {f[i] : i \in Sources}
<1>1. \A p \in places(as) : as[p[1]][p[2]].original_run_id = p[2] /\ p[2] \in Nat \ {0}
  BY PlacesOfNumbered
<1>2. originalIds(as) \in SUBSET (Nat \ {0})
  BY <1>1 DEF originalIds
<1>3. ASSUME NEW o \in originalIds(as), NEW k \in 1..o
      PROVE  k \in originalIds(as)
  <2>1. PICK p \in places(as) : o = as[p[1]][p[2]].original_run_id
    BY DEF originalIds
  <2>2. /\ p[1] \in DOMAIN as /\ as[p[1]] \in History
        /\ p[2] \in DOMAIN as[p[1]] /\ p[2] = o
    BY <2>1, PlacesOfNumbered
  <2>3. k \in DOMAIN as[p[1]]
    <3> DEFINE L == Len(as[p[1]])
    <3>1. L \in Nat /\ DOMAIN as[p[1]] = 1..L
      BY <2>2, SequenceFacts DEF History
    <3>2. o \in 1..L
      BY <2>2, <3>1
    <3>3. k \in 1..L
      <4> HIDE DEF L
      <4> QED  BY <3>1, <3>2
    <3> QED  BY <3>1, <3>3
  <2>4. <<p[1], k>> \in places(as)
    BY <2>2, <2>3, PlacesOfNumbered
  <2>5. as[p[1]][k].original_run_id = k
    BY <2>2, <2>3 DEF NumberedSources, numbered
  <2> DEFINE q == <<p[1], k>>
  <2>6. q \in places(as) /\ as[q[1]][q[2]].original_run_id = k
    BY <2>4, <2>5
  <2> QED  BY <2>6 DEF originalIds
<1>4. IsFiniteSet(originalIds(as))
  <2>1. IsFiniteSet(Sources)
    BY DEF NumberedSources
  <2>2. f \in Surjection(Sources, Ranges)
    BY DEF Surjection
  <2>3. IsFiniteSet(Ranges)
    <3> HIDE DEF f, Ranges, Sources
    <3> QED  BY <2>1, <2>2, FS_Surjection DEF ExistsSurjection
  <2>4. \A T \in Ranges : IsFiniteSet(T)
    <3> TAKE T \in Ranges
    <3>1. PICK i \in Sources : T = DOMAIN as[i]
      OBVIOUS
    <3>2. as[i] \in History
      BY DEF NumberedSources
    <3>3. T = 1..Len(as[i]) /\ Len(as[i]) \in Nat
      BY <3>1, <3>2, SequenceFacts DEF History
    <3>4. 1 \in Int /\ Len(as[i]) \in Int
      BY <3>3
    <3> QED  BY <3>3, <3>4, FS_Interval
  <2>5. IsFiniteSet(UNION Ranges)
    <3> HIDE DEF Ranges
    <3> QED  BY <2>3, <2>4, FS_UNION
  <2>6. originalIds(as) \in SUBSET UNION Ranges
    <3>1. ASSUME NEW o \in originalIds(as)
          PROVE  o \in UNION Ranges
      <4>1. PICK p \in places(as) : o = as[p[1]][p[2]].original_run_id
        BY DEF originalIds
      <4>2. p[1] \in Sources /\ o \in DOMAIN as[p[1]]
        BY <4>1, PlacesOfNumbered
      <4> QED  BY <4>2
    <3> QED  BY <3>1
  <2> QED  BY <2>5, <2>6, FS_Subset
<1> QED  BY <1>2, <1>3, <1>4

\* No id exceeds the number of ids.
LEMMA IdBelowCardinality ==
    ASSUME NEW as, NumberedSources(as), NEW o \in originalIds(as)
    PROVE  o \in 1..Cardinality(originalIds(as))
<1> DEFINE ids == originalIds(as)
<1>1. ids \in SUBSET (Nat \ {0}) /\ IsFiniteSet(ids) /\ \A k \in 1..o : k \in ids
  BY IdsOfNumbered
<1>2. Cardinality(1..o) = o
  <2>1. o \in Nat \ {0}
    BY <1>1
  <2> QED  BY <2>1, FS_Interval
<1>3. 1..o \in SUBSET ids
  BY <1>1
<1>4. Cardinality(ids) \in Nat
  BY <1>1, FS_CardinalityType
<1>5. Cardinality(1..o) <= Cardinality(ids)
  <2> DEFINE J == 1..o
  <2>1. J \in SUBSET ids
    BY <1>3
  <2> HIDE DEF J, ids
  <2>2. Cardinality(J) <= Cardinality(ids)
    BY <1>1, <2>1, FS_Subset
  <2> QED  BY <2>2 DEF J
<1>6. o \in Nat \ {0}
  BY <1>1
<1> HIDE DEF ids
<1>7. o \in 1..Cardinality(ids)
  BY <1>2, <1>4, <1>5, <1>6
<1> QED  BY <1>7 DEF ids

\* Of the places of an original id one sorts first.
LEMMA FirstIsFirst ==
    ASSUME NEW as, NumberedSources(as), NEW o \in originalIds(as)
    PROVE  \E p \in placesWith(as, o) : \A q \in placesWith(as, o) : sortsFirst(as, p, q)
<1> DEFINE T == {p[1] : p \in placesWith(as, o)}
<1>1. \A p \in placesWith(as, o) :
        /\ p[2] = o /\ p[1] \in Nat /\ o \in Nat /\ as[p[1]][p[2]].run_id = o
  <2> TAKE p \in placesWith(as, o)
  <2>1. p \in places(as) /\ as[p[1]][p[2]].original_run_id = o
    BY DEF placesWith
  <2>2. /\ p[1] \in Nat /\ p[2] \in Nat \ {0}
        /\ as[p[1]][p[2]].run_id = p[2] /\ as[p[1]][p[2]].original_run_id = p[2]
    BY <2>1, PlacesOfNumbered
  <2> QED  BY <2>1, <2>2
<1>2. T \in SUBSET Nat
  BY <1>1
<1>3. T # {}
  BY DEF placesWith, originalIds
<1>4. PICK x \in T : \A y \in T : x <= y
  <2> HIDE DEF T
  <2> QED  BY <1>2, <1>3, LeastNatural
<1>5. PICK p \in placesWith(as, o) : p[1] = x
  OBVIOUS
<1>6. \A q \in placesWith(as, o) : sortsFirst(as, p, q)
  <2> TAKE q \in placesWith(as, o)
  <2>1. p[1] <= q[1]
    BY <1>4, <1>5
  <2>2. p[1] \in Nat /\ q[1] \in Nat /\ p[2] = o /\ q[2] = o /\ o \in Nat
    BY <1>1
  <2>3. as[p[1]][p[2]].run_id = o /\ as[q[1]][q[2]].run_id = o
    BY <1>1
  <2> QED  BY <2>1, <2>2, <2>3 DEF sortsFirst
<1> QED  BY <1>5, <1>6

LEMMA FirstExists ==
    ASSUME NEW as, NumberedSources(as), NEW o \in originalIds(as)
    PROVE  firstWith(as, o) \in placesWith(as, o)
BY FirstIsFirst DEF firstWith

\* The merge of numbered histories is a numbered history.
LEMMA MergeNumbered ==
    ASSUME NEW as, NumberedSources(as)
    PROVE  /\ mergeRemediationHistoryArtifacts(as) \in History
           /\ numbered(mergeRemediationHistoryArtifacts(as))
<1> DEFINE ids == originalIds(as)
           n == Cardinality(ids)
           m == mergeRemediationHistoryArtifacts(as)
<1>0. n \in Nat
  BY IdsOfNumbered, FS_CardinalityType
<1>1. ASSUME NEW i \in 1..n
      PROVE  m[i] \in Entry /\ m[i].run_id = i /\ m[i].original_run_id = i
  <2> DEFINE p == firstWith(as, nth(ids, i))
             e == as[p[1]][p[2]]
  <2>1. i \in ids /\ nth(ids, i) = i
    BY IdsOfNumbered, NthMember
  <2>2. p \in placesWith(as, i)
    BY <2>1, FirstExists
  <2>3. e \in Entry /\ e.original_run_id = i
    BY <2>2, PlacesOfNumbered DEF placesWith
  <2>4. m[i] = [e EXCEPT !.run_id = i]
    BY DEF mergeRemediationHistoryArtifacts
  <2>5. i \in Nat \ {0}
    BY <1>0
  <2> HIDE DEF e, m, n
  <2> QED  BY <2>3, <2>4, <2>5 DEF Entry
<1>2. DOMAIN m = 1..n
  BY DEF mergeRemediationHistoryArtifacts
<1>3. m = [i \in 1..n |-> m[i]]
  BY DEF mergeRemediationHistoryArtifacts
<1>4. m \in Seq(Entry)
  <2> HIDE DEF m, n
  <2>1. m \in [1..n -> Entry]
    BY <1>1, <1>2, <1>3
  <2> QED  BY <2>1, <1>0
<1> QED
  <2> HIDE DEF m, n
  <2>1. m \in History
    BY <1>4 DEF History
  <2>2. numbered(m)
    BY <1>1, <1>2 DEF numbered
  <2> QED  BY <2>1, <2>2 DEF m

-----------------------------------------------------------------------------
(* The values that actions compute. *)

\* Uploading puts an archive in front of the others.
Uploaded(x, as) == <<x>> \o as

LEMMA UploadedIs ==
    ASSUME NEW S, NEW y \in S, NEW s \in Seq(S), NEW n \in Nat, n = Len(s)
    PROVE  /\ Uploaded(y, s) \in Seq(S) /\ DOMAIN Uploaded(y, s) = 1..(n + 1)
           /\ \A k \in 1..(n + 1) : Uploaded(y, s)[k] = IF k <= 1 THEN y ELSE s[k - 1]
<1> DEFINE u == <<y>>
           us == u \o s
           bs == Uploaded(y, s)
<1>1. u \in Seq(S) /\ Len(u) = 1 /\ u[1] = y
  OBVIOUS
<1> HIDE DEF u, bs
<1>2. /\ bs \in Seq(S) /\ Len(bs) = Len(u) + Len(s)
      /\ \A i \in 1..(Len(u) + Len(s)) :
           bs[i] = IF i <= Len(u) THEN u[i] ELSE s[i - Len(u)]
  <2>1. /\ us \in Seq(S) /\ Len(us) = Len(u) + Len(s)
        /\ \A i \in 1..(Len(u) + Len(s)) :
             us[i] = IF i <= Len(u) THEN u[i] ELSE s[i - Len(u)]
    BY <1>1, ConcatProperties
  <2>2. bs = us
    BY DEF us, u, bs, Uploaded
  <2> HIDE DEF us
  <2> QED  BY <2>1, <2>2
<1>3. Len(u) + Len(s) = n + 1
  <2>1. Len(u) = 1 /\ Len(s) = n
    BY <1>1, Zenon
  <2>2. 1 + n = n + 1
    OBVIOUS
  <2> QED  BY <2>1, <2>2, Zenon
<1>4. /\ Len(bs) = n + 1
      /\ \A i \in 1..(n + 1) : bs[i] = IF i <= 1 THEN u[i] ELSE s[i - 1]
  BY <1>1, <1>2, <1>3, Zenon
<1>5. DOMAIN bs = 1..(n + 1)
  <2>1. DOMAIN bs = 1..Len(bs)
    BY <1>2, SequenceFacts, Zenon
  <2> QED  BY <1>4, <2>1, Zenon
<1>6. \A k \in 1..(n + 1) : k <= 1 => k = 1
  OBVIOUS
<1> QED  BY <1>1, <1>2, <1>4, <1>5, <1>6, Zenon DEF bs

LEMMA UploadedFirst ==
    ASSUME NEW S, NEW y \in S, NEW s \in Seq(S)
    PROVE  Uploaded(y, s) \in Seq(S) /\ 1 \in DOMAIN Uploaded(y, s) /\ Uploaded(y, s)[1] = y
<1>1. PICK n \in Nat : n = Len(s)
  BY SequenceFacts, Zenon
<1>2. 1 \in 1..(n + 1) /\ 1 <= 1
  OBVIOUS
<1> QED  BY <1>1, <1>2, UploadedIs

LEMMA UploadedMoves ==
    ASSUME NEW S, NEW y \in S, NEW s \in Seq(S), NEW k \in DOMAIN s
    PROVE  k + 1 \in DOMAIN Uploaded(y, s) /\ Uploaded(y, s)[k + 1] = s[k]
<1>1. PICK n \in Nat : n = Len(s) /\ DOMAIN s = 1..n
  BY SequenceFacts, Zenon
<1>2. k \in 1..n
  BY <1>1, Zenon
<1>3. k + 1 \in 1..(n + 1) /\ ~(k + 1 <= 1) /\ (k + 1) - 1 = k
  BY <1>2
<1> QED  BY <1>1, <1>3, UploadedIs

LEMMA UploadedOthers ==
    ASSUME NEW S, NEW y \in S, NEW s \in Seq(S), NEW k \in DOMAIN Uploaded(y, s), k # 1
    PROVE  k - 1 \in DOMAIN s /\ Uploaded(y, s)[k] = s[k - 1]
<1>1. PICK n \in Nat : n = Len(s) /\ DOMAIN s = 1..n
  BY SequenceFacts, Zenon
<1>2. k \in 1..(n + 1)
  BY <1>1, UploadedIs
<1>3. k - 1 \in 1..n /\ ~(k <= 1)
  BY <1>2
<1> QED  BY <1>1, <1>2, <1>3, UploadedIs, Zenon

\* Recording a run keeps a history numbered.
LEMMA AppendNumbered ==
    ASSUME NEW h \in History, numbered(h),
           NEW log \in SUBSET Signatures, NEW st \in FinalStatuses
    PROVE  /\ Append(h, historyEntry(h, log, st)) \in History
           /\ numbered(Append(h, historyEntry(h, log, st)))
<1> DEFINE e == historyEntry(h, log, st)
           n == Len(h)
<1>1. h \in Seq(Entry) /\ n \in Nat /\ DOMAIN h = 1..n
  BY SequenceFacts DEF History
<1>2. repairClasses(log) \in SUBSET Classes
  BY DEF repairClasses, tasks, Classes
<1>3. e \in Entry /\ e.run_id = n + 1 /\ e.original_run_id = n + 1
  <2>1. e = [run_id |-> n + 1, original_run_id |-> n + 1, signatures |-> log,
             classes |-> repairClasses(log), final_status |-> st]
    BY DEF historyEntry, nextRemediationHistoryRunId
  <2> HIDE DEF e, n
  <2>2. n + 1 \in Nat \ {0}
    BY <1>1
  <2> QED  BY <1>2, <2>1, <2>2 DEF Entry
<1> HIDE DEF e
<1>4. /\ Append(h, e) \in Seq(Entry) /\ DOMAIN Append(h, e) = 1..(n + 1)
      /\ \A i \in 1..(n + 1) : Append(h, e)[i] = IF i = n + 1 THEN e ELSE h[i]
  BY <1>1, <1>3
<1>5. ASSUME NEW i \in DOMAIN Append(h, e)
      PROVE  Append(h, e)[i].run_id = i /\ Append(h, e)[i].original_run_id = i
  <2>1. i \in 1..(n + 1) /\ Append(h, e)[i] = IF i = n + 1 THEN e ELSE h[i]
    BY <1>4
  <2>2. i # n + 1 => i \in DOMAIN h
    <3> HIDE DEF n
    <3> QED  BY <1>1, <2>1
  <2>3. CASE i = n + 1
    BY <1>3, <2>1, <2>3
  <2>4. CASE i # n + 1
    BY <2>1, <2>2, <2>4 DEF numbered
  <2> QED  BY <2>3, <2>4
<1> QED  BY <1>4, <1>5 DEF e, History, numbered

LEMMA DecideTyped ==
    ASSUME NEW h, NEW log, NEW mode, decide(h, log, mode) # "go"
    PROVE  decide(h, log, mode) \in FinalStatuses
BY DEF decide, classifyStopWithoutMutation, FinalStatuses

LEMMA StatusTyped ==
    ASSUME NEW log, NEW ok \in BOOLEAN, NEW applied \in BOOLEAN, NEW verified \in BOOLEAN
    PROVE  statusAfterApply(log, ok, applied, verified) \in FinalStatuses
BY DEF statusAfterApply, FinalStatuses

LEMMA CountedTyped ==
    ASSUME NEW f \in [Signatures \X Classes -> Nat], NEW log
    PROVE  counted(f, log) \in [Signatures \X Classes -> Nat]
BY DEF counted

-----------------------------------------------------------------------------
(* The invariant is inductive as it stands. *)

IInv == TypeOK /\ RunsNumbered

LEMMA InitGood == Init => IInv
<1> SUFFICES ASSUME Init PROVE IInv
  OBVIOUS
<1>1. << >> \in History /\ << >> \in Seq(Archive) /\ << >> \in Seq(Dispatch)
  BY DEF History
<1>2. DOMAIN archives = {} /\ Active = {}
  BY DEF Init, Active
<1>3. run \in [Jobs -> [id : Nat, log : SUBSET Signatures, before : History]]
  <2>1. Idle \in [id : Nat, log : SUBSET Signatures, before : History]
    BY <1>1 DEF Idle
  <2> QED  BY <2>1 DEF Init
<1>4. TypeOK
  BY <1>1, <1>2, <1>3 DEF Init, TypeOK, FinalStatuses, None
<1>5. numbered(<< >>)
  BY DEF numbered
<1>6. RunsNumbered
  BY <1>2, <1>5 DEF Init, RunsNumbered, Idle
<1> QED  BY <1>4, <1>6 DEF IInv

\* Throwing a workspace away.
LEMMA DiscardKeeps ==
    ASSUME IInv, NEW j \in Jobs, Discard(j)
    PROVE  /\ history' \in [Jobs -> History \union {NoHistory}]
           /\ pc' \in [Jobs -> {"idle", "hydrate", "decide", "apply", "record", "upload"}]
           /\ run' \in [Jobs -> [id : Nat, log : SUBSET Signatures, before : History]]
           /\ status' \in [Jobs -> FinalStatuses]
           /\ \A i \in Jobs : /\ history'[i] # NoHistory => numbered(history'[i])
                              /\ numbered(run'[i].before)
           /\ \A i \in Active' : i \in Active /\ run'[i] = run[i]
<1>1. << >> \in History /\ numbered(<< >>)
  BY DEF History, numbered
<1>2. Idle \in [id : Nat, log : SUBSET Signatures, before : History] /\ Idle.before = << >>
  BY <1>1 DEF Idle
<1>3. pc' \in [Jobs -> {"idle", "hydrate", "decide", "apply", "record", "upload"}]
  BY DEF IInv, TypeOK, Discard
<1>4. history' \in [Jobs -> History \union {NoHistory}]
  BY DEF IInv, TypeOK, Discard
<1>5. run' \in [Jobs -> [id : Nat, log : SUBSET Signatures, before : History]]
  BY <1>2 DEF IInv, TypeOK, Discard
<1>6. status' \in [Jobs -> FinalStatuses]
  BY DEF IInv, TypeOK, Discard, FinalStatuses
<1>7. ASSUME NEW i \in Jobs
      PROVE  /\ history'[i] # NoHistory => numbered(history'[i])
             /\ numbered(run'[i].before)
  <2>1. CASE i = j
    BY <1>1, <1>2, <2>1 DEF IInv, TypeOK, Discard
  <2>2. CASE i # j
    BY <2>2 DEF IInv, TypeOK, RunsNumbered, Discard
  <2> QED  BY <2>1, <2>2
<1>8. \A i \in Active' : i \in Active /\ run'[i] = run[i]
  BY DEF IInv, TypeOK, Discard, Active
<1> QED  BY <1>3, <1>4, <1>5, <1>6, <1>7, <1>8

\* Putting an archive in front.
LEMMA ArchiveKeeps ==
    ASSUME IInv, NEW x \in Archive, x.history # NoHistory => numbered(x.history),
           archives' = Uploaded(x, archives)
    PROVE  /\ archives' \in Seq(Archive)
           /\ \A i \in DOMAIN archives' :
                \/ archives'[i] = x
                \/ \E k \in DOMAIN archives : archives'[i] = archives[k]
           /\ \A i \in DOMAIN archives' :
                archives'[i].history # NoHistory => numbered(archives'[i].history)
<1>1. archives \in Seq(Archive)
  BY DEF IInv, TypeOK
<1>2. archives' \in Seq(Archive) /\ archives'[1] = x
  BY <1>1, UploadedFirst
<1>3. \A i \in DOMAIN archives' :
        i = 1 \/ (i - 1 \in DOMAIN archives /\ archives'[i] = archives[i - 1])
  BY <1>1, UploadedOthers
<1>4. \A k \in DOMAIN archives : archives[k].history # NoHistory => numbered(archives[k].history)
  BY DEF IInv, RunsNumbered
<1> QED  BY <1>2, <1>3, <1>4

\* When an attempt of a run begins, the run is known, and others keep their dispatch.
LEMMA BegunFacts ==
    ASSUME IInv, NEW r \in nextAttempts, ci' \in begun(r)
    PROVE  /\ ci' \in Seq(Dispatch) /\ DOMAIN ci \in SUBSET DOMAIN ci'
           /\ r \in Nat \ {0} /\ r \in DOMAIN ci' /\ \A j \in Active : run[j].id # r
<1>1. ci \in Seq(Dispatch) /\ Len(ci) \in Nat /\ DOMAIN ci = 1..Len(ci)
  BY SequenceFacts DEF IInv, TypeOK
<1>2. r \in 1..(Len(ci) + 1) /\ \A j \in Active : run[j].id # r
  BY DEF nextAttempts
<1>3. CASE r \in DOMAIN ci
  BY <1>1, <1>2, <1>3 DEF begun
<1>4. CASE r \notin DOMAIN ci
  <2>1. PICK d \in Dispatches : ci' = Append(ci, d)
    BY <1>4 DEF begun
  <2>2. d \in Dispatch
    BY AutofixConstants
  <2>3. ci' \in Seq(Dispatch) /\ DOMAIN ci' = 1..(Len(ci) + 1)
    BY <1>1, <2>1, <2>2
  <2> QED  BY <1>1, <1>2, <2>3
<1> QED  BY <1>3, <1>4

-----------------------------------------------------------------------------
(* One lemma per action. *)

LEMMA CheckoutKeeps == ASSUME IInv, NEW j \in Jobs, Checkout(j) PROVE IInv'
<1>1. PICK r \in nextAttempts, log \in Logs :
        /\ ci' \in begun(r)
        /\ run' = [run EXCEPT ![j] = [id |-> r, log |-> log, before |-> << >>]]
        /\ retries' = retries + IF attemptLimitReached(r) THEN 1 ELSE 0
  BY DEF Checkout
<1>2. << >> \in History /\ numbered(<< >>)
  BY DEF History, numbered
<1>3. ci' \in Seq(Dispatch) /\ DOMAIN ci \in SUBSET DOMAIN ci' /\ r \in Nat /\ r \in DOMAIN ci'
  BY <1>1, BegunFacts
<1>4. run' \in [Jobs -> [id : Nat, log : SUBSET Signatures, before : History]]
  <2>1. [id |-> r, log |-> log, before |-> << >>]
          \in [id : Nat, log : SUBSET Signatures, before : History]
    BY <1>2, <1>3, AutofixConstants
  <2> QED  BY <1>1, <2>1 DEF IInv, TypeOK
<1>5. overlaps' \in Nat /\ runs' \in Nat /\ retries' \in Nat
  BY <1>1 DEF IInv, TypeOK, Checkout
<1>6. pc' \in [Jobs -> {"idle", "hydrate", "decide", "apply", "record", "upload"}]
  BY DEF IInv, TypeOK, Checkout
<1>7. \A i \in Active' : run'[i].id \in DOMAIN ci'
  <2> TAKE i \in Active'
  <2>1. CASE i = j
    BY <1>1, <1>3, <2>1 DEF IInv, TypeOK
  <2>2. CASE i # j
    <3>1. i \in Active /\ run'[i] = run[i]
      BY <1>1, <2>2 DEF IInv, TypeOK, Active, Checkout
    <3> QED  BY <1>3, <3>1 DEF IInv, TypeOK
  <2> QED  BY <2>1, <2>2
<1>8. \A i \in DOMAIN archives' : archives'[i].run_id \in DOMAIN ci'
  BY <1>3 DEF IInv, TypeOK, Checkout
<1>9. TypeOK'
  BY <1>3, <1>4, <1>5, <1>6, <1>7, <1>8 DEF IInv, TypeOK, Checkout
<1>10. \A i \in Jobs : numbered(run'[i].before)
  <2> TAKE i \in Jobs
  <2>1. CASE i = j
    BY <1>1, <1>2, <2>1 DEF IInv, TypeOK
  <2>2. CASE i # j
    BY <1>1, <2>2 DEF IInv, TypeOK, RunsNumbered
  <2> QED  BY <2>1, <2>2
<1>11. RunsNumbered'
  BY <1>10 DEF IInv, RunsNumbered, Checkout
<1> QED  BY <1>9, <1>11 DEF IInv

\* The archives listed, and that they are sources of a merge if each holds a history.
LEMMA ListedFacts ==
    ASSUME IInv, NEW r, NEW n
    PROVE  /\ DOMAIN sources(archives, r, n) \in SUBSET ofOtherRuns(archives, r)
           /\ ofOtherRuns(archives, r) \in SUBSET DOMAIN archives
           /\ DOMAIN archives \in SUBSET (Nat \ {0}) /\ IsFiniteSet(DOMAIN archives)
           /\ \A i \in DOMAIN sources(archives, r, n) :
                /\ sources(archives, r, n)[i] = archives[i].history
                /\ sources(archives, r, n)[i] # NoHistory
                     => /\ sources(archives, r, n)[i] \in History
                        /\ numbered(sources(archives, r, n)[i])
<1>1. archives \in Seq(Archive)
  BY DEF IInv, TypeOK
<1>2. /\ Len(archives) \in Nat /\ DOMAIN archives = 1..Len(archives)
      /\ \A i \in DOMAIN archives : i \in Nat \ {0} /\ archives[i] \in Archive
  BY <1>1, SequenceFacts, Zenon
<1>3. IsFiniteSet(DOMAIN archives)
  <2>1. 1 \in Int /\ Len(archives) \in Int
    BY <1>2
  <2> QED  BY <1>2, <2>1, FS_Interval
<1>4. /\ DOMAIN sources(archives, r, n) = listArtifacts(archives, r, n)
      /\ \A i \in listArtifacts(archives, r, n) :
           sources(archives, r, n)[i] = archives[i].history
  BY DEF sources
<1>5. /\ listArtifacts(archives, r, n) \in SUBSET ofOtherRuns(archives, r)
      /\ ofOtherRuns(archives, r) \in SUBSET DOMAIN archives
  BY DEF listArtifacts, ofOtherRuns
<1>6. \A i \in DOMAIN archives : archives[i].history # NoHistory
        => archives[i].history \in History /\ numbered(archives[i].history)
  BY <1>2 DEF Archive, IInv, RunsNumbered
<1> QED  BY <1>2, <1>3, <1>4, <1>5, <1>6

LEMMA SourcesNumbered ==
    ASSUME IInv, NEW r, NEW n,
           \A i \in DOMAIN sources(archives, r, n) : sources(archives, r, n)[i] # NoHistory
    PROVE  NumberedSources(sources(archives, r, n))
<1> DEFINE D == DOMAIN sources(archives, r, n)
<1>1. /\ D \in SUBSET DOMAIN archives /\ DOMAIN archives \in SUBSET (Nat \ {0})
      /\ IsFiniteSet(DOMAIN archives)
  BY ListedFacts
<1>2. IsFiniteSet(D)
  <2> HIDE DEF D
  <2> QED  BY <1>1, FS_Subset
<1> QED  BY <1>1, <1>2, ListedFacts DEF NumberedSources

LEMMA HydrateKeeps == ASSUME IInv, NEW j \in Jobs, Hydrate(j) PROVE IInv'
<1>1. PICK n \in 0..Len(archives) :
        LET as     == sources(archives, run[j].id, n)
            hidden == DOMAIN as = {} /\ ofOtherRuns(archives, run[j].id) # {}
        IN  /\ IF \E i \in DOMAIN as : as[i] = NoHistory
               THEN pc' = [pc EXCEPT ![j] = "upload"] /\ UNCHANGED history
               ELSE /\ pc' = [pc EXCEPT ![j] = "decide"]
                    /\ history' = IF DOMAIN as = {} THEN history
                                  ELSE [history EXCEPT ![j] = mergeRemediationHistoryArtifacts(as)]
            /\ hidden => mishaps < MaxMishaps
            /\ unlisted' = unlisted + IF hidden THEN 1 ELSE 0
  BY DEF Hydrate
<1> DEFINE as == sources(archives, run[j].id, n)
           m == mergeRemediationHistoryArtifacts(as)
           merging == \A i \in DOMAIN as : as[i] # NoHistory
<1>2. merging => m \in History /\ numbered(m)
  BY SourcesNumbered, MergeNumbered
<1>3. history' = history \/ (merging /\ history' = [history EXCEPT ![j] = m])
  BY <1>1
<1>4. unlisted' \in Nat
  BY <1>1 DEF IInv, TypeOK
<1>5. pc' = [pc EXCEPT ![j] = "upload"] \/ pc' = [pc EXCEPT ![j] = "decide"]
  BY <1>1
<1> HIDE DEF m, merging
<1>6. history' \in [Jobs -> History \union {NoHistory}]
  BY <1>2, <1>3 DEF IInv, TypeOK
<1>7. \A i \in Jobs : history'[i] # NoHistory => numbered(history'[i])
  BY <1>2, <1>3 DEF IInv, TypeOK, RunsNumbered
<1>8. pc' \in [Jobs -> {"idle", "hydrate", "decide", "apply", "record", "upload"}]
  BY <1>5 DEF IInv, TypeOK
<1>9. Active' = Active
  BY <1>5 DEF IInv, TypeOK, Hydrate, Active
<1>10. TypeOK'
  BY <1>4, <1>6, <1>8, <1>9 DEF IInv, TypeOK, Hydrate
<1>11. RunsNumbered'
  BY <1>7 DEF IInv, RunsNumbered, Hydrate
<1> QED  BY <1>10, <1>11 DEF IInv

LEMMA DecideKeeps == ASSUME IInv, NEW j \in Jobs, Decide(j) PROVE IInv'
<1> DEFINE h == readHistoryArtifact(j)
           d == decide(h, run[j].log, ci[run[j].id].mode)
<1>1. h \in History /\ numbered(h)
  <2>1. << >> \in History /\ numbered(<< >>)
    BY DEF History, numbered
  <2> QED  BY <2>1 DEF readHistoryArtifact, IInv, TypeOK, RunsNumbered
<1>2. d # "go" => d \in FinalStatuses
  BY DecideTyped
<1>3. run' = [run EXCEPT ![j].before = h]
  BY DEF Decide
<1>4. /\ pc' = [pc EXCEPT ![j] = "apply"] \/ pc' = [pc EXCEPT ![j] = "record"]
      /\ status' = status \/ (d # "go" /\ status' = [status EXCEPT ![j] = d])
      /\ stopped' = stopped \/ stopped' = counted(stopped, run[j].log)
  BY DEF Decide
<1> HIDE DEF h, d
<1>5. run' \in [Jobs -> [id : Nat, log : SUBSET Signatures, before : History]]
  BY <1>1, <1>3 DEF IInv, TypeOK
<1>6. \A i \in Jobs : numbered(run'[i].before)
  <2> TAKE i \in Jobs
  <2>1. CASE i = j
    BY <1>1, <1>3, <2>1 DEF IInv, TypeOK
  <2>2. CASE i # j
    BY <1>3, <2>2 DEF IInv, TypeOK, RunsNumbered
  <2> QED  BY <2>1, <2>2
<1>7. pc' \in [Jobs -> {"idle", "hydrate", "decide", "apply", "record", "upload"}]
  BY <1>4 DEF IInv, TypeOK
<1>8. status' \in [Jobs -> FinalStatuses]
  BY <1>2, <1>4 DEF IInv, TypeOK
<1>9. stopped' \in [Signatures \X Classes -> Nat]
  <2>1. stopped \in [Signatures \X Classes -> Nat]
    BY DEF IInv, TypeOK
  <2>2. counted(stopped, run[j].log) \in [Signatures \X Classes -> Nat]
    BY <2>1, CountedTyped
  <2> QED  BY <1>4, <2>1, <2>2
<1>10. \A i \in Active' : i \in Active /\ run'[i].id = run[i].id
  BY <1>3, <1>4 DEF IInv, TypeOK, Decide, Active
<1>11. TypeOK'
  BY <1>5, <1>7, <1>8, <1>9, <1>10 DEF IInv, TypeOK, Decide, bounds
<1>12. RunsNumbered'
  BY <1>6 DEF IInv, RunsNumbered, Decide
<1> QED  BY <1>11, <1>12 DEF IInv

LEMMA ApplyKeeps == ASSUME IInv, NEW j \in Jobs, Apply(j) PROVE IInv'
<1>1. PICK ok \in BOOLEAN, applied \in BOOLEAN, verified \in BOOLEAN :
        LET st == statusAfterApply(run[j].log, ok, applied, verified)
        IN  /\ status' = [status EXCEPT ![j] = st]
            /\ failed' = IF st \in FailedStatuses THEN counted(failed, run[j].log) ELSE failed
  BY DEF Apply
<1>2. status' \in [Jobs -> FinalStatuses]
  BY <1>1, StatusTyped DEF IInv, TypeOK
<1>3. failed' \in [Signatures \X Classes -> Nat]
  BY <1>1, CountedTyped DEF IInv, TypeOK
<1>4. pc' \in [Jobs -> {"idle", "hydrate", "decide", "apply", "record", "upload"}]
  BY DEF IInv, TypeOK, Apply, bounds
<1>5. Active' = Active
  BY DEF IInv, TypeOK, Apply, Active
<1>6. TypeOK'
  BY <1>2, <1>3, <1>4, <1>5 DEF IInv, TypeOK, Apply, bounds
<1>7. RunsNumbered'
  BY DEF IInv, RunsNumbered, Apply
<1> QED  BY <1>6, <1>7 DEF IInv

LEMMA RecordKeeps == ASSUME IInv, NEW j \in Jobs, Record(j) PROVE IInv'
<1> DEFINE h == Append(run[j].before, historyEntry(run[j].before, run[j].log, status[j]))
<1>1. /\ run[j].before \in History /\ numbered(run[j].before)
      /\ run[j].log \in SUBSET Signatures /\ status[j] \in FinalStatuses
  BY DEF IInv, TypeOK, RunsNumbered
<1>2. h \in History /\ numbered(h)
  BY <1>1, AppendNumbered
<1>3. history' = [history EXCEPT ![j] = h]
  BY DEF Record
<1> HIDE DEF h
<1>4. history' \in [Jobs -> History \union {NoHistory}]
  BY <1>2, <1>3 DEF IInv, TypeOK
<1>5. \A i \in Jobs : history'[i] # NoHistory => numbered(history'[i])
  BY <1>2, <1>3 DEF IInv, TypeOK, RunsNumbered
<1>6. pc' \in [Jobs -> {"idle", "hydrate", "decide", "apply", "record", "upload"}]
  BY DEF IInv, TypeOK, Record, bounds
<1>7. Active' = Active
  BY DEF IInv, TypeOK, Record, Active
<1>8. TypeOK'
  BY <1>4, <1>6, <1>7 DEF IInv, TypeOK, Record, bounds
<1>9. RunsNumbered'
  BY <1>5 DEF IInv, RunsNumbered, Record
<1> QED  BY <1>8, <1>9 DEF IInv

LEMMA UploadKeeps == ASSUME IInv, NEW j \in Jobs, Upload(j) PROVE IInv'
<1> DEFINE x == [run_id |-> run[j].id, history |-> history[j]]
<1>1. /\ history[j] \in History \union {NoHistory}
      /\ history[j] # NoHistory => numbered(history[j])
  BY DEF IInv, TypeOK, RunsNumbered
<1>2. archives' = Uploaded(x, archives) /\ Discard(j) /\ pc[j] = "upload" /\ ci' = ci
  BY DEF Upload, Uploaded
<1>3. run[j].id \in DOMAIN ci /\ run[j].id \in Nat \ {0}
  <2>1. ci \in Seq(Dispatch) /\ run[j].id \in DOMAIN ci
    BY <1>2 DEF IInv, TypeOK, Active
  <2> QED  BY <2>1, SequenceFacts
<1>4. x \in Archive /\ (x.history # NoHistory => numbered(x.history)) /\ x.run_id \in DOMAIN ci
  BY <1>1, <1>3 DEF Archive
<1> HIDE DEF x
<1>5. /\ archives' \in Seq(Archive)
      /\ \A i \in DOMAIN archives' :
           archives'[i] = x \/ \E k \in DOMAIN archives : archives'[i] = archives[k]
      /\ \A i \in DOMAIN archives' :
           archives'[i].history # NoHistory => numbered(archives'[i].history)
  BY <1>2, <1>4, ArchiveKeeps
<1>6. \A i \in DOMAIN archives' : archives'[i].run_id \in DOMAIN ci
  BY <1>4, <1>5 DEF IInv, TypeOK
<1>7. \A i \in Active' : i \in Active /\ run'[i] = run[i]
  BY <1>2, DiscardKeeps
<1>8. TypeOK'
  BY <1>2, <1>5, <1>6, <1>7, DiscardKeeps DEF IInv, TypeOK, Upload, bounds
<1>9. RunsNumbered'
  BY <1>2, <1>5, DiscardKeeps DEF RunsNumbered
<1> QED  BY <1>8, <1>9 DEF IInv

LEMMA StepFailsKeeps == ASSUME IInv, NEW j \in Jobs, StepFails(j) PROVE IInv'
<1>1. pc' \in [Jobs -> {"idle", "hydrate", "decide", "apply", "record", "upload"}]
  BY DEF IInv, TypeOK, StepFails
<1>2. Active' = Active
  BY DEF IInv, TypeOK, StepFails, Active
<1>3. TypeOK'
  BY <1>1, <1>2 DEF IInv, TypeOK, StepFails
<1>4. RunsNumbered'
  BY DEF IInv, RunsNumbered, StepFails
<1> QED  BY <1>3, <1>4 DEF IInv

LEMMA RunnerLostKeeps == ASSUME IInv, NEW j \in Jobs, RunnerLost(j) PROVE IInv'
<1>1. Discard(j)
  BY DEF RunnerLost
<1>2. TypeOK'
  BY <1>1, DiscardKeeps DEF IInv, TypeOK, RunnerLost
<1>3. RunsNumbered'
  BY <1>1, DiscardKeeps DEF IInv, RunsNumbered, RunnerLost
<1> QED  BY <1>2, <1>3 DEF IInv

LEMMA OtherRunKeeps == ASSUME IInv, OtherRun PROVE IInv'
<1>1. PICK r \in nextAttempts :
        /\ ci' \in begun(r)
        /\ archives' = Uploaded([run_id |-> r, history |-> NoHistory], archives)
  BY DEF OtherRun, Uploaded
<1> DEFINE x == [run_id |-> r, history |-> NoHistory]
<1>2. /\ ci' \in Seq(Dispatch) /\ DOMAIN ci \in SUBSET DOMAIN ci'
      /\ r \in Nat \ {0} /\ r \in DOMAIN ci'
  BY <1>1, BegunFacts
<1>3. x \in Archive /\ x.history = NoHistory /\ x.run_id = r
  BY <1>2 DEF Archive
<1>4. archives' = Uploaded(x, archives)
  BY <1>1
<1> HIDE DEF x
<1>5. /\ archives' \in Seq(Archive)
      /\ \A i \in DOMAIN archives' :
           archives'[i] = x \/ \E k \in DOMAIN archives : archives'[i] = archives[k]
      /\ \A i \in DOMAIN archives' :
           archives'[i].history # NoHistory => numbered(archives'[i].history)
  BY <1>3, <1>4, ArchiveKeeps
<1>6. \A i \in DOMAIN archives' : archives'[i].run_id \in DOMAIN ci'
  BY <1>2, <1>3, <1>5 DEF IInv, TypeOK
<1>7. Active' = Active
  BY DEF OtherRun, Active
<1>8. TypeOK'
  BY <1>2, <1>5, <1>6, <1>7 DEF IInv, TypeOK, OtherRun
<1>9. RunsNumbered'
  BY <1>5 DEF IInv, RunsNumbered, OtherRun
<1> QED  BY <1>8, <1>9 DEF IInv

LEMMA Inductive == IInv /\ [Next]_vars => IInv'
<1> SUFFICES ASSUME IInv, [Next]_vars PROVE IInv'
  OBVIOUS
<1>1. CASE Next
  <2>1. CASE OtherRun
    BY <2>1, OtherRunKeeps
  <2>2. CASE \E j \in Jobs : \/ Checkout(j) \/ Hydrate(j) \/ Decide(j) \/ Apply(j) \/ Record(j)
                             \/ Upload(j) \/ StepFails(j) \/ RunnerLost(j)
    BY <2>2, CheckoutKeeps, HydrateKeeps, DecideKeeps, ApplyKeeps, RecordKeeps, UploadKeeps,
       StepFailsKeeps, RunnerLostKeeps
  <2> QED  BY <1>1, <2>1, <2>2 DEF Next
<1>2. CASE UNCHANGED vars
  BY <1>2 DEF IInv, TypeOK, RunsNumbered, Active, vars, bounds
<1> QED  BY <1>1, <1>2

\* Every history a CI run reads, writes or uploads has the history schema, whatever the
\* archives merged and the order of concurrent runs (remediationHistory.ts,
\* hydrate-remediation-history.cjs).
THEOREM TypeCorrect == Spec => []TypeOK
<1>1. IInv => TypeOK
  BY DEF IInv
<1> QED  BY InitGood, Inductive, <1>1, PTL DEF Spec

\* In every history the runs are numbered 1, 2, 3 ... without gap or duplicate, for any
\* number of archives merged, of overlapping runs, failed steps and lost runners
\* (mergeRemediationHistoryArtifacts, nextRemediationHistoryRunId).
THEOREM RunsAlwaysNumbered == Spec => []RunsNumbered
<1>1. IInv => RunsNumbered
  BY DEF IInv
<1> QED  BY InitGood, Inductive, <1>1, PTL DEF Spec

-----------------------------------------------------------------------------
(* Repairs attempted in vain.  The invariant speaks of one signature and   *)
(* class, p, and of a number b of failures that no history in use may      *)
(* fall short of.  A run under way is clean as long as it has not added a  *)
(* failure of p to b: each overlap pays for one run that may be forgotten, *)
(* and the last of several overlapping runs raises b if it is not clean.   *)
(* What the newest archive of others holds a run will know, but for the    *)
(* run that uploaded last: run again, it does not see the failure it added *)
(* itself, so that b falls by one, which the re-run pays for.  A run shown *)
(* no archive starts b anew, and pays for it all.                          *)

\* The repairs a run on this log stands for.
Tried(log) == log \X repairClasses(log)

Failures(h, p) == repeatedFailures(h, p[1], p[2])

Count(h, p) == Cardinality(Failures(h, p))

\* A run at a label, with workspace history h, run record r and status st, has a failure of p
\* to record, or has recorded it.
Dirty(label, h, r, st, p, b) ==
    \/ label = "record" /\ st \in FailedStatuses /\ p \in Tried(r.log)
    \/ label = "upload" /\ h # NoHistory /\ b < Count(h, p)

\* What a run knows of the failures of p.
Knows(label, h, r, p, b) ==
    /\ label = "idle" => h = NoHistory
    /\ h # NoHistory => b <= Count(h, p)
    /\ label = "decide" /\ h = NoHistory => b = 0
    /\ label \in {"apply", "record"} => b <= Count(r.before, p)
    /\ label = "apply" /\ p \in Tried(r.log) => Count(r.before, p) <= 1

Clean(p, b) ==
    {j \in Jobs : pc[j] # "idle" /\ ~Dirty(pc[j], history[j], run[j], status[j], p, b)}

Running == {run[j].id : j \in Active}

\* The run that uploaded last, if it is over, would not see what it uploaded.
Behind(r) == archives # << >> /\ archives[1].run_id = r /\ r \notin Running

\* The newest archive of others decides what a run will know at least.
ArchivesKnow(as, r, p, b) ==
    /\ ofOtherRuns(as, r) = {} => b <= 0
    /\ \A f : Least(ofOtherRuns(as, r), f) /\ as[f].history # NoHistory
                => b <= Count(as[f].history, p)

AllKnow(p, b) ==
    \A r \in Nat \ {0} : ArchivesKnow(archives, r, p, IF Behind(r) THEN b - 1 ELSE b)

\* What has been paid for.
Price == failedAttemptThreshold * unlisted + crashes + overlaps + retries

Bounded(p, b) ==
    /\ b <= failedAttemptThreshold
    /\ AllKnow(p, b)
    /\ \A j \in Jobs : Knows(pc[j], history[j], run[j], p, b)
    /\ Active = {} => failed[p] <= b + Price
    /\ Active # {} => failed[p] + Cardinality(Clean(p, b)) <= b + Price + 1

KInv ==
    /\ IsFiniteSet(Active)
    /\ KnownBadStops
    /\ \A p \in Signatures \X Classes : \E b \in Nat : Bounded(p, b)

-----------------------------------------------------------------------------
(* What is counted, in a history, in one more entry, and in a merge. *)

Fails(e, p) == p[1] \in e.signatures /\ e.final_status \in FailedStatuses /\ p[2] \in e.classes

\* In a numbered history the failed runs of p are the places of its failing entries.
LEMMA FailuresAre ==
    ASSUME NEW h \in History, numbered(h), NEW p
    PROVE  /\ Failures(h, p) = {o \in DOMAIN h : Fails(h[o], p)}
           /\ IsFiniteSet(Failures(h, p)) /\ Count(h, p) \in Nat
           /\ Len(h) \in Nat /\ DOMAIN h = 1..Len(h)
<1>1. Len(h) \in Nat /\ DOMAIN h = 1..Len(h)
  BY SequenceFacts DEF History
<1>2. \A o : o \in Failures(h, p) <=> \E i \in DOMAIN h : o = h[i].run_id /\ Fails(h[i], p)
  BY DEF Failures, repeatedFailures, listRunsByFailureSignature, entriesOf, Fails
<1>3. \A i \in DOMAIN h : h[i].run_id = i
  BY DEF numbered
<1>4. Failures(h, p) = {o \in DOMAIN h : Fails(h[o], p)}
  BY <1>2, <1>3
<1>5. IsFiniteSet(1..Len(h))
  <2>1. 1 \in Int /\ Len(h) \in Int
    BY <1>1
  <2> QED  BY <2>1, FS_Interval
<1>6. Failures(h, p) \in SUBSET (1..Len(h))
  BY <1>1, <1>4
<1>7. IsFiniteSet(Failures(h, p))
  BY <1>5, <1>6, FS_Subset
<1> QED  BY <1>1, <1>4, <1>7, FS_CardinalityType DEF Count

\* An empty history counts nothing.
LEMMA FailuresOfNone ==
    ASSUME NEW p
    PROVE  << >> \in History /\ numbered(<< >>) /\ Failures(<< >>, p) = {} /\ Count(<< >>, p) = 0
<1>1. << >> \in History /\ numbered(<< >>)
  BY DEF History, numbered
<1>2. Failures(<< >>, p) = {}
  BY <1>1, FailuresAre
<1> QED  BY <1>1, <1>2, FS_EmptySet DEF Count

\* Recording a run adds its own number, if it is a failure of p, and nothing else.
LEMMA FailuresOfAppend ==
    ASSUME NEW h \in History, numbered(h), NEW log \in SUBSET Signatures,
           NEW st \in FinalStatuses, NEW p \in Signatures \X Classes
    PROVE  LET g == Append(h, historyEntry(h, log, st))
               k == st \in FailedStatuses /\ p \in Tried(log)
           IN  /\ k => /\ Failures(g, p) = Failures(h, p) \union {Len(h) + 1}
                       /\ Count(g, p) = Count(h, p) + 1
               /\ ~k => Failures(g, p) = Failures(h, p) /\ Count(g, p) = Count(h, p)
<1> DEFINE e == historyEntry(h, log, st)
           g == Append(h, e)
           k == st \in FailedStatuses /\ p \in Tried(log)
           n == Len(h)
<1>1. g \in History /\ numbered(g)
  BY AppendNumbered
<1>2. n \in Nat /\ DOMAIN h = 1..n /\ h \in Seq(Entry)
  BY FailuresAre DEF History
<1>3. p = <<p[1], p[2]>> /\ p[1] \in Signatures /\ p[2] \in Classes
  OBVIOUS
<1>4. Fails(e, p) <=> k
  <2>1. e.signatures = log /\ e.classes = repairClasses(log) /\ e.final_status = st
    BY DEF historyEntry
  <2> DEFINE R == repairClasses(log)
  <2>2. p \in log \X R <=> p[1] \in log /\ p[2] \in R
    <3> HIDE DEF R
    <3> QED  BY <1>3
  <2> HIDE DEF e
  <2> QED  BY <2>1, <2>2 DEF Fails, Tried
<1> HIDE DEF e, k
<1>5. DOMAIN g = 1..(n + 1) /\ \A i \in 1..(n + 1) : g[i] = IF i = n + 1 THEN e ELSE h[i]
  BY <1>2
<1>6. Failures(h, p) = {o \in 1..n : Fails(h[o], p)}
  BY <1>2, FailuresAre
<1>7. Failures(g, p) = {o \in 1..(n + 1) : Fails(g[o], p)}
  BY <1>1, <1>5, FailuresAre
<1> HIDE DEF g, n
<1>8. k => Failures(g, p) = Failures(h, p) \union {n + 1}
  BY <1>2, <1>4, <1>5, <1>6, <1>7
<1>9. ~k => Failures(g, p) = Failures(h, p)
  BY <1>2, <1>4, <1>5, <1>6, <1>7
<1>10. n + 1 \notin Failures(h, p)
  BY <1>2, <1>6
<1>11. k => Cardinality(Failures(g, p)) = Cardinality(Failures(h, p)) + 1
  BY <1>8, <1>10, FailuresAre, FS_AddElement
<1> QED  BY <1>8, <1>9, <1>11 DEF e, g, k, n, Count

\* A merge takes each entry from some source, and from the first one as far as that goes.
LEMMA MergedEntries ==
    ASSUME NEW as, NumberedSources(as)
    PROVE  LET m == mergeRemediationHistoryArtifacts(as)
           IN  \A o \in DOMAIN m :
                 \E i \in DOMAIN as :
                   /\ o \in DOMAIN as[i] /\ m[o] = [as[i][o] EXCEPT !.run_id = o]
                   /\ \A f : Least(DOMAIN as, f) /\ o \in DOMAIN as[f] => i = f
<1> DEFINE ids == originalIds(as)
           n == Cardinality(ids)
           m == mergeRemediationHistoryArtifacts(as)
<1>0. n \in Nat /\ DOMAIN m = 1..n
  BY IdsOfNumbered, FS_CardinalityType DEF mergeRemediationHistoryArtifacts
<1> SUFFICES ASSUME NEW o \in 1..n
             PROVE  \E i \in DOMAIN as :
                      /\ o \in DOMAIN as[i] /\ m[o] = [as[i][o] EXCEPT !.run_id = o]
                      /\ \A f : Least(DOMAIN as, f) /\ o \in DOMAIN as[f] => i = f
  BY <1>0
<1> DEFINE q == firstWith(as, o)
<1>1. o \in ids /\ nth(ids, o) = o
  BY IdsOfNumbered, NthMember
<1>2. q \in placesWith(as, o)
  BY <1>1, FirstExists
<1>3. m[o] = [as[q[1]][q[2]] EXCEPT !.run_id = o]
  BY <1>1 DEF mergeRemediationHistoryArtifacts
<1>4. /\ q = <<q[1], q[2]>> /\ q[1] \in DOMAIN as /\ q[2] \in DOMAIN as[q[1]]
      /\ q[2] = o /\ as[q[1]][q[2]].run_id = o
  BY <1>2, PlacesOfNumbered DEF placesWith
<1>5. ASSUME NEW f, Least(DOMAIN as, f), o \in DOMAIN as[f]
      PROVE  q[1] = f
  <2> DEFINE s == <<f, o>>
  <2>1. f \in DOMAIN as /\ f <= q[1]
    BY <1>4, <1>5 DEF Least
  <2>2. s \in placesWith(as, o) /\ as[s[1]][s[2]].run_id = o
    BY <1>5, <2>1, PlacesOfNumbered DEF placesWith
  <2>3. \E x \in placesWith(as, o) : \A y \in placesWith(as, o) : sortsFirst(as, x, y)
    BY <1>1, FirstIsFirst
  <2>4. sortsFirst(as, q, s)
    BY <2>2, <2>3 DEF firstWith
  <2>5. q[1] \in Nat \ {0} /\ f \in Nat \ {0}
    BY <1>4, <2>1 DEF NumberedSources
  <2>6. o \in Nat
    BY <1>0
  <2>7. s[1] = f /\ s[2] = o
    OBVIOUS
  <2> HIDE DEF s, q
  <2> QED  BY <1>4, <2>1, <2>2, <2>4, <2>5, <2>6, <2>7 DEF sortsFirst
<1> QED  BY <1>3, <1>4, <1>5

\* So it counts the failures of the first source at least, and only failures of some source.
LEMMA FailuresOfMerge ==
    ASSUME NEW as, NumberedSources(as), NEW p
    PROVE  LET m == mergeRemediationHistoryArtifacts(as)
           IN  /\ \A o \in Failures(m, p) : \E i \in DOMAIN as : o \in Failures(as[i], p)
               /\ \A f : Least(DOMAIN as, f) => Count(as[f], p) <= Count(m, p)
<1> DEFINE m == mergeRemediationHistoryArtifacts(as)
<1>1. m \in History /\ numbered(m)
  BY MergeNumbered
<1>2. Failures(m, p) = {o \in DOMAIN m : Fails(m[o], p)}
  BY <1>1, FailuresAre
<1>3. \A i \in DOMAIN as : /\ as[i] \in History
                           /\ Failures(as[i], p) = {o \in DOMAIN as[i] : Fails(as[i][o], p)}
  BY FailuresAre DEF NumberedSources
<1>4. \A o \in DOMAIN m :
        \E i \in DOMAIN as : /\ o \in DOMAIN as[i] /\ m[o] = [as[i][o] EXCEPT !.run_id = o]
                             /\ \A f : Least(DOMAIN as, f) /\ o \in DOMAIN as[f] => i = f
  BY MergedEntries
<1>5. ASSUME NEW e \in Entry, NEW o
      PROVE  Fails([e EXCEPT !.run_id = o], p) <=> Fails(e, p)
  BY DEF Fails, Entry
<1>6. \A i \in DOMAIN as : \A o \in DOMAIN as[i] : as[i][o] \in Entry
  BY <1>3, SequenceFacts DEF History
<1>7. ASSUME NEW f \in DOMAIN as, NEW o \in DOMAIN as[f]
      PROVE  o \in DOMAIN m
  <2>1. <<f, o>> \in placesWith(as, o)
    <3> DEFINE s == <<f, o>>
    <3>1. s \in places(as) /\ s[1] = f /\ s[2] = o
      BY PlacesOfNumbered
    <3>2. as[s[1]][s[2]].original_run_id = o
      BY <3>1, PlacesOfNumbered
    <3> QED  BY <3>1, <3>2 DEF placesWith
  <2>2. o \in originalIds(as)
    BY <2>1 DEF placesWith, originalIds
  <2> QED  BY <2>2, IdBelowCardinality DEF mergeRemediationHistoryArtifacts
<1> HIDE DEF m
<1>8. \A o \in Failures(m, p) : \E i \in DOMAIN as : o \in Failures(as[i], p)
  <2> TAKE o \in Failures(m, p)
  <2>1. o \in DOMAIN m /\ Fails(m[o], p)
    BY <1>2
  <2>2. PICK i \in DOMAIN as : o \in DOMAIN as[i] /\ m[o] = [as[i][o] EXCEPT !.run_id = o]
    BY <1>4, <2>1
  <2>3. Fails(as[i][o], p)
    BY <1>5, <1>6, <2>1, <2>2
  <2> QED  BY <1>3, <2>2, <2>3
<1>9. ASSUME NEW f, Least(DOMAIN as, f)
      PROVE  Count(as[f], p) <= Count(m, p)
  <2>1. f \in DOMAIN as
    BY <1>9 DEF Least
  <2>2. Failures(as[f], p) \in SUBSET Failures(m, p)
    <3> SUFFICES ASSUME NEW o \in Failures(as[f], p)
                 PROVE  o \in Failures(m, p)
      OBVIOUS
    <3>1. o \in DOMAIN as[f] /\ Fails(as[f][o], p)
      BY <1>3, <2>1
    <3>2. o \in DOMAIN m
      BY <1>7, <2>1, <3>1
    <3>3. m[o] = [as[f][o] EXCEPT !.run_id = o]
      BY <1>4, <1>9, <3>1, <3>2
    <3>4. Fails(m[o], p)
      <4>1. as[f][o] \in Entry
        BY <1>6, <2>1, <3>1
      <4>2. Fails([as[f][o] EXCEPT !.run_id = o], p)
        BY <1>5, <3>1, <4>1
      <4> QED  BY <3>3, <4>2
    <3> QED  BY <1>2, <3>2, <3>4
  <2>3. IsFiniteSet(Failures(m, p))
    BY <1>1, FailuresAre
  <2> QED  BY <2>2, <2>3, FS_Subset DEF Count
<1> QED  BY <1>8, <1>9 DEF m

\* A run goes on to apply only with at most one failure of each of its repairs on record.
LEMMA GoMeansFew ==
    ASSUME NEW h \in History, numbered(h), NEW log, NEW mode, decide(h, log, mode) = "go",
           NEW p \in Tried(log)
    PROVE  Count(h, p) <= 1
<1>1. evaluateRepeatRemediationPolicy(h, log) # "blocked_repeat_failure"
  BY DEF decide, classifyStopWithoutMutation
<1>2. p[1] \in log /\ p[2] \in repairClasses(log)
  <2> DEFINE R == repairClasses(log)
  <2>1. p \in log \X R
    BY DEF Tried
  <2> HIDE DEF R
  <2>2. p[1] \in log /\ p[2] \in R
    BY <2>1
  <2> QED  BY <2>2 DEF R
<1>3. Count(h, p) \in Nat
  BY FailuresAre
<1>4. CASE matchingRuns(h, log) = {}
  <2>1. listRunsByFailureSignature(h, p[1]) = {}
    <3> SUFFICES ASSUME NEW e \in listRunsByFailureSignature(h, p[1])
                 PROVE  FALSE
      OBVIOUS
    <3>1. e.run_id \in matchingRuns(h, log)
      BY <1>2 DEF matchingRuns
    <3> QED  BY <1>4, <3>1
  <2>2. Failures(h, p) = {}
    BY <2>1 DEF Failures, repeatedFailures
  <2> QED  BY <2>2, FS_EmptySet DEF Count
<1>5. CASE matchingRuns(h, log) # {}
  <2>1. ~failedTooOften(h, log)
    BY <1>1, <1>5 DEF evaluateRepeatRemediationPolicy
  <2>2. ~(Count(h, p) >= failedAttemptThreshold)
    BY <1>2, <2>1 DEF failedTooOften, Count, Failures
  <2> QED  BY <1>3, <2>2 DEF failedAttemptThreshold
<1> QED  BY <1>4, <1>5

-----------------------------------------------------------------------------
(* Sets that grow or shrink by one. *)

LEMMA SmallChanges ==
    ASSUME NEW A, IsFiniteSet(A), NEW x
    PROVE  /\ Cardinality(A) \in Nat
           /\ \A B \in SUBSET A : /\ IsFiniteSet(B) /\ Cardinality(B) \in Nat
                                  /\ Cardinality(B) <= Cardinality(A)
           /\ \A B \in SUBSET (A \union {x}) : /\ IsFiniteSet(B) /\ Cardinality(B) \in Nat
                                               /\ Cardinality(B) <= Cardinality(A) + 1
           /\ \A B \in SUBSET (A \ {x}) : x \in A => Cardinality(B) + 1 <= Cardinality(A)
<1>1. Cardinality(A) \in Nat
  BY FS_CardinalityType
<1>2. ASSUME NEW B \in SUBSET A
      PROVE  IsFiniteSet(B) /\ Cardinality(B) \in Nat /\ Cardinality(B) <= Cardinality(A)
  BY FS_Subset, FS_CardinalityType
<1>3. ASSUME NEW B \in SUBSET (A \union {x})
      PROVE  IsFiniteSet(B) /\ Cardinality(B) \in Nat /\ Cardinality(B) <= Cardinality(A) + 1
  <2> DEFINE C == A \union {x}
  <2>1. IsFiniteSet(C) /\ (Cardinality(C) = Cardinality(A) \/ Cardinality(C) = Cardinality(A) + 1)
    BY FS_AddElement
  <2>2. B \in SUBSET C
    OBVIOUS
  <2> HIDE DEF C
  <2>3. IsFiniteSet(B) /\ Cardinality(B) \in Nat /\ Cardinality(B) <= Cardinality(C)
    BY <2>1, <2>2, FS_Subset, FS_CardinalityType
  <2> QED  BY <1>1, <2>1, <2>3
<1>4. ASSUME NEW B \in SUBSET (A \ {x}), x \in A
      PROVE  Cardinality(B) + 1 <= Cardinality(A)
  <2> DEFINE C == A \ {x}
  <2>1. IsFiniteSet(C) /\ Cardinality(C) = Cardinality(A) - 1
    BY <1>4, FS_RemoveElement
  <2>2. B \in SUBSET C
    OBVIOUS
  <2> HIDE DEF C
  <2>3. Cardinality(B) \in Nat /\ Cardinality(B) <= Cardinality(C)
    BY <2>1, <2>2, FS_Subset, FS_CardinalityType
  <2> QED  BY <1>1, <2>1, <2>3
<1> QED  BY <1>1, <1>2, <1>3, <1>4

-----------------------------------------------------------------------------
(* One lemma per action that the bound is kept. *)

\* The newest of the archives listed, if any, is the newest archive of other runs.
LEMMA ListedNewest ==
    ASSUME IInv, NEW r, NEW n \in Nat, DOMAIN sources(archives, r, n) # {}
    PROVE  \E f : /\ Least(ofOtherRuns(archives, r), f)
                  /\ Least(DOMAIN sources(archives, r, n), f)
<1> DEFINE O == ofOtherRuns(archives, r)
           D == DOMAIN sources(archives, r, n)
<1>1. D \in SUBSET O /\ O \in SUBSET (Nat \ {0})
  BY ListedFacts
<1>2. D = {i \in O : i <= n /\ Cardinality({k \in O : k <= i}) <= Lookback}
  BY DEF sources, listArtifacts
<1> HIDE DEF O
<1>3. PICK f \in O : \A i \in O : f <= i
  <2>1. O \in SUBSET Nat /\ O # {}
    BY <1>1
  <2> QED  BY <2>1, LeastNatural
<1>4. PICK i \in D : i \in O /\ i <= n
  BY <1>2
<1>5. f <= n
  <2>1. f \in Nat /\ i \in Nat /\ f <= i
    BY <1>1, <1>3, <1>4
  <2> QED  BY <1>4, <2>1
<1>6. {k \in O : k <= f} = {f}
  <2>1. \A k \in O : k \in Nat /\ f \in Nat /\ f <= k
    BY <1>1, <1>3
  <2>2. \A k \in O : k <= f => k = f
    BY <2>1
  <2> QED  BY <1>3, <2>1, <2>2
<1>7. Cardinality({k \in O : k <= f}) <= Lookback
  <2>1. Cardinality({f}) = 1
    BY FS_Singleton
  <2> QED  BY <1>6, <2>1, AutofixConstants
<1>8. f \in D
  BY <1>2, <1>3, <1>5, <1>7
<1> QED  BY <1>1, <1>3, <1>8 DEF Least, O

\* A run that uploads an archive does not come to know it, others do.
LEMMA OwnArchive ==
    ASSUME NEW as \in Seq(Archive), NEW x \in Archive, NEW bs, bs = Uploaded(x, as),
           NEW r, r = x.run_id, NEW p, NEW b, ArchivesKnow(as, r, p, b)
    PROVE  ArchivesKnow(bs, r, p, b)
<1>1. DOMAIN as \in SUBSET (Nat \ {0})
  BY SequenceFacts, Zenon
<1>2. /\ bs \in Seq(Archive) /\ bs[1] = x
      /\ \A i \in DOMAIN as : i + 1 \in DOMAIN bs /\ bs[i + 1] = as[i]
      /\ \A i \in DOMAIN bs : i = 1 \/ (i - 1 \in DOMAIN as /\ bs[i] = as[i - 1])
  <2>1. bs \in Seq(Archive) /\ bs[1] = x
    BY UploadedFirst
  <2>2. \A i \in DOMAIN as : i + 1 \in DOMAIN bs /\ bs[i + 1] = as[i]
    BY UploadedMoves
  <2>3. \A i \in DOMAIN bs : i = 1 \/ (i - 1 \in DOMAIN as /\ bs[i] = as[i - 1])
    BY UploadedOthers, ZenonT(40)
  <2> QED  BY <2>1, <2>2, <2>3
<1>3. DOMAIN bs \in SUBSET Nat
  BY <1>2, SequenceFacts, Zenon
<1>4. \A i \in ofOtherRuns(as, r) : i + 1 \in ofOtherRuns(bs, r) /\ i \in Nat \ {0}
  BY <1>1, <1>2 DEF ofOtherRuns
<1>5. ASSUME NEW i \in ofOtherRuns(bs, r)
      PROVE  i \in Nat /\ i - 1 \in ofOtherRuns(as, r) /\ bs[i] = as[i - 1]
  <2>1. i \in DOMAIN bs /\ i # 1
    BY <1>2, <1>5 DEF ofOtherRuns
  <2> QED  BY <1>2, <1>3, <1>5, <2>1 DEF ofOtherRuns
<1>6. ofOtherRuns(bs, r) = {} => ofOtherRuns(as, r) = {}
  BY <1>4
<1>7. ASSUME NEW f, Least(ofOtherRuns(bs, r), f)
      PROVE  Least(ofOtherRuns(as, r), f - 1) /\ bs[f] = as[f - 1]
  <2>1. f \in Nat /\ f - 1 \in ofOtherRuns(as, r) /\ bs[f] = as[f - 1]
    BY <1>5, <1>7 DEF Least
  <2>2. ASSUME NEW i \in ofOtherRuns(as, r)
        PROVE  f - 1 <= i
    <3>1. i + 1 \in ofOtherRuns(bs, r) /\ i \in Nat
      BY <1>4
    <3>2. f <= i + 1
      BY <1>7, <3>1 DEF Least
    <3> QED  BY <2>1, <3>1, <3>2
  <2> QED  BY <2>1, <2>2 DEF Least
<1> QED  BY <1>6, <1>7 DEF ArchivesKnow

LEMMA OtherArchive ==
    ASSUME NEW as \in Seq(Archive), NEW x \in Archive, NEW bs, bs = Uploaded(x, as),
           NEW q, q # x.run_id, NEW p, NEW b, x.history # NoHistory => b <= Count(x.history, p)
    PROVE  ArchivesKnow(bs, q, p, b)
<1>1. bs \in Seq(Archive) /\ bs[1] = x /\ 1 \in DOMAIN bs
  BY UploadedFirst
<1>2. DOMAIN bs \in SUBSET (Nat \ {0})
  BY <1>1, SequenceFacts, Zenon
<1>3. 1 \in ofOtherRuns(bs, q) /\ ofOtherRuns(bs, q) \in SUBSET (Nat \ {0})
  BY <1>1, <1>2 DEF ofOtherRuns
<1>4. ASSUME NEW f, Least(ofOtherRuns(bs, q), f)
      PROVE  f = 1
  <2>1. f \in Nat \ {0} /\ f <= 1
    BY <1>3, <1>4 DEF Least
  <2> QED  BY <2>1
<1> QED  BY <1>1, <1>3, <1>4 DEF ArchivesKnow

\* A lower bound is known as well.
LEMMA KnowLess ==
    ASSUME IInv, NEW r, NEW p, NEW b \in Int, NEW a \in Int, a <= b,
           ArchivesKnow(archives, r, p, b)
    PROVE  ArchivesKnow(archives, r, p, a)
<1>1. ASSUME NEW f, Least(ofOtherRuns(archives, r), f), archives[f].history # NoHistory
      PROVE  a <= Count(archives[f].history, p)
  <2>1. b <= Count(archives[f].history, p)
    BY <1>1 DEF ArchivesKnow
  <2>2. f \in DOMAIN archives
    BY <1>1 DEF Least, ofOtherRuns
  <2>3. archives[f].history \in History /\ numbered(archives[f].history)
    <3>1. archives[f] \in Archive
      <4>1. archives \in Seq(Archive)
        BY DEF IInv, TypeOK
      <4> QED  BY <2>2, <4>1, SequenceFacts
    <3> QED  BY <1>1, <2>2, <3>1 DEF Archive, IInv, RunsNumbered
  <2>4. Count(archives[f].history, p) \in Nat
    BY <2>3, FailuresAre
  <2> DEFINE c == Count(archives[f].history, p)
  <2> HIDE DEF c
  <2> QED  BY <2>1, <2>4 DEF c
<1> QED  BY <1>1 DEF ArchivesKnow

LEMMA ZeroKnown ==
    ASSUME IInv, NEW r, NEW p, NEW a \in Int, a <= 0
    PROVE  ArchivesKnow(archives, r, p, a)
<1>1. ASSUME NEW f, Least(ofOtherRuns(archives, r), f), archives[f].history # NoHistory
      PROVE  a <= Count(archives[f].history, p)
  <2>1. f \in DOMAIN archives
    BY <1>1 DEF Least, ofOtherRuns
  <2>2. archives[f].history \in History /\ numbered(archives[f].history)
    <3>1. archives[f] \in Archive
      <4>1. archives \in Seq(Archive)
        BY DEF IInv, TypeOK
      <4> QED  BY <2>1, <4>1, SequenceFacts
    <3> QED  BY <1>1, <2>1, <3>1 DEF Archive, IInv, RunsNumbered
  <2>3. Count(archives[f].history, p) \in Nat
    BY <2>2, FailuresAre
  <2> DEFINE c == Count(archives[f].history, p)
  <2> HIDE DEF c
  <2> QED  BY <2>3 DEF c
<1> QED  BY <1>1 DEF ArchivesKnow

\* As long as no archive is added, a bound is still known if no run ceases to be behind.
LEMMA StillKnown ==
    ASSUME IInv, NEW p, NEW b \in Nat, AllKnow(p, b), archives' = archives,
           \A r : Behind(r) => Behind(r)'
    PROVE  AllKnow(p, b)'
<1> SUFFICES ASSUME NEW r \in Nat \ {0}
             PROVE  ArchivesKnow(archives, r, p, IF Behind(r)' THEN b - 1 ELSE b)
  BY DEF AllKnow
<1>1. ArchivesKnow(archives, r, p, IF Behind(r) THEN b - 1 ELSE b)
  BY DEF AllKnow
<1>2. b - 1 \in Int /\ b \in Int /\ b - 1 <= b
  OBVIOUS
<1>3. CASE Behind(r) <=> Behind(r)'
  BY <1>1, <1>3
<1>4. CASE ~Behind(r) /\ Behind(r)'
  BY <1>1, <1>2, <1>4, KnowLess
<1> QED  BY <1>3, <1>4

\* The bound on failures, in terms of what has been paid for.
LEMMA PriceFacts ==
    ASSUME IInv
    PROVE  /\ Price \in Nat
           /\ KnownBadStops <=> \A p \in Signatures \X Classes : failed[p] <= 2 + Price
<1>1. unlisted \in Nat /\ crashes \in Nat /\ overlaps \in Nat /\ retries \in Nat
  BY DEF IInv, TypeOK
<1>2. Price = 2 * unlisted + crashes + overlaps + retries
  BY DEF Price, failedAttemptThreshold
<1>3. 2 * (unlisted + 1) + crashes + overlaps + retries = 2 + Price
  BY <1>1, <1>2
<1>4. KnownBadStops <=> \A p \in Signatures \X Classes : failed[p] <= 2 + Price
  BY <1>3 DEF KnownBadStops, failedAttemptThreshold
<1>5. Price \in Nat
  BY <1>1, <1>2
<1> QED  BY <1>4, <1>5, Zenon

LEMMA NextPriceFacts ==
    ASSUME IInv'
    PROVE  /\ Price' \in Nat
           /\ KnownBadStops' <=> \A p \in Signatures \X Classes : failed'[p] <= 2 + Price'
<1>1. unlisted' \in Nat /\ crashes' \in Nat /\ overlaps' \in Nat /\ retries' \in Nat
  BY DEF IInv, TypeOK
<1>2. Price' = 2 * unlisted' + crashes' + overlaps' + retries'
  BY DEF Price, failedAttemptThreshold
<1>3. 2 * (unlisted' + 1) + crashes' + overlaps' + retries' = 2 + Price'
  BY <1>1, <1>2
<1>4. KnownBadStops' <=> \A p \in Signatures \X Classes : failed'[p] <= 2 + Price'
  BY <1>3 DEF KnownBadStops, failedAttemptThreshold
<1>5. Price' \in Nat
  <2>1. \A a, b, c, d \in Nat : 2 * a + b + c + d \in Nat
    OBVIOUS
  <2> QED  BY <1>1, <1>2, <2>1
<1> QED  BY <1>4, <1>5, Zenon

\* More paid for leaves the bound on failures far enough.
LEMMA MorePaid ==
    ASSUME IInv, IInv', KnownBadStops, failed' = failed, Price <= Price'
    PROVE  KnownBadStops'
<1>1. /\ Price \in Nat /\ Price' \in Nat
      /\ \A p \in Signatures \X Classes : failed[p] \in Nat /\ failed[p] <= 2 + Price
  BY PriceFacts, NextPriceFacts DEF IInv, TypeOK
<1>2. \A p \in Signatures \X Classes : failed'[p] <= 2 + Price'
  BY <1>1
<1>3. KnownBadStops' <=> \A p \in Signatures \X Classes : failed'[p] <= 2 + Price'
  BY NextPriceFacts
<1> QED  BY <1>2, <1>3

LEMMA CrashPays ==
    ASSUME IInv, crashes' = crashes + 1, overlaps' = overlaps, retries' = retries,
           unlisted' = unlisted
    PROVE  Price' = Price + 1
<1>1. unlisted \in Nat /\ crashes \in Nat /\ overlaps \in Nat /\ retries \in Nat
  BY DEF IInv, TypeOK
<1> QED  BY <1>1 DEF Price, failedAttemptThreshold

OthersSame(j) ==
    \A i \in Jobs \ {j} : /\ pc'[i] = pc[i] /\ history'[i] = history[i]
                          /\ run'[i] = run[i] /\ status'[i] = status[i]

\* What every action needs of the types.
LEMMA JobFacts ==
    ASSUME IInv, NEW j \in Jobs
    PROVE  /\ pc[j] \in {"idle", "hydrate", "decide", "apply", "record", "upload"}
           /\ history[j] # NoHistory => history[j] \in History /\ numbered(history[j])
           /\ run[j].before \in History /\ numbered(run[j].before)
           /\ run[j].log \in SUBSET Signatures /\ status[j] \in FinalStatuses
           /\ pc = [i \in Jobs |-> pc[i]] /\ history = [i \in Jobs |-> history[i]]
           /\ run = [i \in Jobs |-> run[i]] /\ status = [i \in Jobs |-> status[i]]
           /\ Price \in Nat
           /\ \A p \in Signatures \X Classes : failed[p] \in Nat /\ stopped[p] \in Nat
BY PriceFacts DEF IInv, TypeOK, RunsNumbered

\* How the sets of active and of clean runs change in a step of one run.
LEMMA CleanChanges ==
    ASSUME KInv, NEW j \in Jobs, OthersSame(j), NEW p, NEW b
    PROVE  /\ IsFiniteSet(Clean(p, b)) /\ Clean(p, b) \in SUBSET Active
           /\ Clean(p, b)' \in SUBSET (Clean(p, b) \union {j})
           /\ Active' \in SUBSET (Active \union {j})
           /\ pc'[j] = "idle" => j \notin Clean(p, b)' /\ j \notin Active'
           /\ pc[j] # "idle" => j \in Active
           /\ pc'[j] # "idle" => j \in Active'
<1>1. Clean(p, b) \in SUBSET Active
  BY DEF Clean, Active
<1>2. IsFiniteSet(Clean(p, b))
  BY <1>1, FS_Subset DEF KInv
<1>3. Clean(p, b)' \in SUBSET (Clean(p, b) \union {j})
  BY DEF Clean, OthersSame
<1> QED  BY <1>1, <1>2, <1>3 DEF Clean, Active, OthersSame

\* What is known of a bound is known of a lower one, and fewer runs are clean.
LEMMA LowerBound ==
    ASSUME IInv, NEW p, NEW b \in Nat, NEW c \in Nat, c <= b
    PROVE  /\ \A j \in Jobs : Knows(pc[j], history[j], run[j], p, b)
                                => Knows(pc[j], history[j], run[j], p, c)
           /\ Clean(p, c) \in SUBSET Clean(p, b)
<1>1. ASSUME NEW j \in Jobs
      PROVE  /\ history[j] # NoHistory => Count(history[j], p) \in Nat
             /\ Count(run[j].before, p) \in Nat
  BY JobFacts, FailuresAre
<1>2. ASSUME NEW j \in Jobs, Knows(pc[j], history[j], run[j], p, b)
      PROVE  Knows(pc[j], history[j], run[j], p, c)
  <2> DEFINE x == Count(history[j], p)
             y == Count(run[j].before, p)
  <2>1. (history[j] # NoHistory => x \in Nat) /\ y \in Nat
    BY <1>1
  <2>2. /\ history[j] # NoHistory => b <= x
        /\ pc[j] = "decide" /\ history[j] = NoHistory => b = 0
        /\ pc[j] \in {"apply", "record"} => b <= y
    BY <1>2 DEF Knows
  <2> HIDE DEF x, y
  <2>3. /\ history[j] # NoHistory => c <= x
        /\ pc[j] = "decide" /\ history[j] = NoHistory => c = 0
        /\ pc[j] \in {"apply", "record"} => c <= y
    BY <2>1, <2>2
  <2> QED  BY <1>2, <2>3 DEF Knows, x, y
<1>3. ASSUME NEW j \in Clean(p, c)
      PROVE  j \in Clean(p, b)
  <2>1. j \in Jobs /\ pc[j] # "idle" /\ ~Dirty(pc[j], history[j], run[j], status[j], p, c)
    BY DEF Clean
  <2> DEFINE x == Count(history[j], p)
  <2>2. history[j] # NoHistory => x \in Nat
    BY <1>1, <2>1
  <2> HIDE DEF x
  <2>3. history[j] # NoHistory /\ b < x => c < x
    BY <2>2
  <2>4. ~Dirty(pc[j], history[j], run[j], status[j], p, b)
    BY <2>1, <2>3 DEF Dirty, x
  <2> QED  BY <2>1, <2>4 DEF Clean
<1> QED  BY <1>2, <1>3

\* A step of one run keeps the bound if it leaves the archives, and the run is no more to be
\* reckoned with than before, or that has been paid for.
LEMMA StepBounded ==
    ASSUME IInv, IInv', KInv, NEW j \in Jobs, OthersSame(j), pc[j] # "idle", pc'[j] # "idle",
           run'[j].id = run[j].id, archives' = archives,
           NEW p \in Signatures \X Classes, NEW b \in Nat, Bounded(p, b),
           Knows(pc'[j], history'[j], run'[j], p, b),
           \/ /\ failed'[p] = failed[p] /\ Price' = Price
              /\ j \in Clean(p, b) \/ j \notin Clean(p, b)'
           \/ failed'[p] = failed[p] /\ Price' = Price + 1
           \/ /\ failed'[p] = failed[p] + 1 /\ Price' = Price
              /\ j \in Clean(p, b) /\ j \notin Clean(p, b)'
    PROVE  Bounded(p, b)'
<1> DEFINE C == Clean(p, b)
           D == Clean(p, b)'
<1>1. /\ IsFiniteSet(C) /\ D \in SUBSET (C \union {j})
      /\ Active # {} /\ Active' # {}
  BY CleanChanges
<1>2. failed[p] \in Nat /\ failed'[p] \in Nat /\ Price \in Nat /\ Price' \in Nat
  BY PriceFacts, NextPriceFacts DEF IInv, TypeOK
<1>3. failed[p] + Cardinality(C) <= b + Price + 1
  BY <1>1 DEF Bounded
<1>4. failed'[p] + Cardinality(D) <= b + Price' + 1
  <2> HIDE DEF C, D
  <2>1. Cardinality(C) \in Nat /\ Cardinality(D) \in Nat /\ Cardinality(D) <= Cardinality(C) + 1
    BY <1>1, SmallChanges
  <2>2. CASE D \in SUBSET C /\ failed'[p] = failed[p] /\ Price' = Price
    <3>1. Cardinality(D) <= Cardinality(C)
      BY <1>1, <2>2, SmallChanges
    <3> QED  BY <1>2, <1>3, <2>1, <2>2, <3>1
  <2>3. CASE failed'[p] = failed[p] /\ Price' = Price + 1
    BY <1>2, <1>3, <2>1, <2>3
  <2>4. CASE j \in C /\ j \notin D /\ failed'[p] = failed[p] + 1 /\ Price' = Price
    <3>1. D \in SUBSET (C \ {j})
      BY <1>1, <2>4
    <3>2. Cardinality(D) + 1 <= Cardinality(C)
      BY <1>1, <2>4, <3>1, SmallChanges
    <3> QED  BY <1>2, <1>3, <2>1, <2>4, <3>2
  <2>5. (j \in C \/ j \notin D) => D \in SUBSET C
    BY <1>1
  <2> QED  BY <2>2, <2>3, <2>4, <2>5 DEF C, D
<1>5. \A i \in Jobs : Knows(pc'[i], history'[i], run'[i], p, b)
  BY DEF Bounded, OthersSame
<1>6. AllKnow(p, b)'
  <2>1. Active' = Active /\ \A i \in Active : run'[i].id = run[i].id
    BY DEF Active, OthersSame
  <2>2. Running' = Running
    BY <2>1 DEF Running
  <2>3. \A r : Behind(r) => Behind(r)'
    BY <2>2 DEF Behind
  <2> QED  BY <2>3, StillKnown DEF Bounded
<1> QED  BY <1>1, <1>4, <1>5, <1>6 DEF Bounded

\* The bound for all signatures and classes, and the finitely many active runs.
LEMMA ActiveFinite ==
    ASSUME KInv, NEW j \in Jobs, OthersSame(j)
    PROVE  IsFiniteSet(Active')
<1>1. Active' \in SUBSET (Active \union {j})
  BY CleanChanges
<1> QED  BY <1>1, SmallChanges DEF KInv

\* A re-run lowers the bound by one, and pays for it.
LEMMA CheckoutBounded == ASSUME IInv, IInv', KInv, NEW j \in Jobs, Checkout(j) PROVE KInv'
<1>1. /\ OthersSame(j) /\ pc[j] = "idle" /\ pc'[j] = "hydrate" /\ history' = history
      /\ failed' = failed /\ archives' = archives
  BY JobFacts DEF Checkout, OthersSame
<1>2. PICK r \in nextAttempts :
        /\ ci' \in begun(r) /\ run'[j].id = r
        /\ retries' = retries + IF attemptLimitReached(r) THEN 1 ELSE 0
  BY JobFacts DEF Checkout
<1> DEFINE again == IF r \in DOMAIN ci THEN 1 ELSE 0
           over == IF Active # {} THEN 1 ELSE 0
<1>3. Price' = Price + again + over
  <2>1. /\ unlisted' = unlisted /\ crashes' = crashes /\ overlaps' = overlaps + over
        /\ retries' = retries + again
    BY <1>2 DEF Checkout, attemptLimitReached
  <2>2. unlisted \in Nat /\ crashes \in Nat /\ overlaps \in Nat /\ retries \in Nat
    BY DEF IInv, TypeOK
  <2> QED  BY <2>1, <2>2 DEF Price, failedAttemptThreshold
<1>4. r \in Nat \ {0} /\ r \notin Running
  BY <1>2, BegunFacts DEF Running
<1>5. Running' = Running \union {r}
  <2>1. Active' = Active \union {j} /\ j \notin Active
    BY <1>1 DEF Active, OthersSame
  <2>2. \A i \in Active : run'[i].id = run[i].id
    BY <1>1, <2>1 DEF Active, OthersSame
  <2> QED  BY <1>2, <2>1, <2>2 DEF Running
<1>6. ASSUME NEW p \in Signatures \X Classes, NEW b \in Nat, Bounded(p, b)
      PROVE  \E c \in Nat : Bounded(p, c)'
  <2>0. PICK c \in Nat : c = IF r \in DOMAIN ci /\ b # 0 THEN b - 1 ELSE b
    OBVIOUS
  <2>1. c <= b /\ b <= c + again
    BY <2>0
  <2>2. b <= 2 /\ c <= failedAttemptThreshold
    BY <1>6, <2>1 DEF Bounded, failedAttemptThreshold
  <2>3. AllKnow(p, c)'
    <3> SUFFICES ASSUME NEW q \in Nat \ {0}
                 PROVE  ArchivesKnow(archives, q, p, IF Behind(q)' THEN c - 1 ELSE c)
      BY <1>1 DEF AllKnow
    <3>1. ArchivesKnow(archives, q, p, IF Behind(q) THEN b - 1 ELSE b)
      BY <1>6 DEF Bounded, AllKnow
    <3>2. CASE q # r
      <4>1. Behind(q) <=> Behind(q)'
        BY <1>1, <1>5, <3>2 DEF Behind
      <4> DEFINE x == IF Behind(q) THEN b - 1 ELSE b
                 y == IF Behind(q) THEN c - 1 ELSE c
      <4>2. x \in Int /\ y \in Int /\ y <= x
        BY <2>1
      <4> HIDE DEF x, y
      <4>3. ArchivesKnow(archives, q, p, x)
        BY <3>1 DEF x
      <4>4. ArchivesKnow(archives, q, p, y)
        BY <4>2, <4>3, KnowLess
      <4> QED  BY <4>1, <4>4 DEF y
    <3>3. CASE q = r /\ Behind(r)
      <4>1. ~Behind(r)'
        BY <1>5 DEF Behind
      <4>2. r \in DOMAIN ci
        <5>1. archives \in Seq(Archive) /\ archives # << >> /\ archives[1].run_id = r
          BY <3>3 DEF IInv, TypeOK, Behind
        <5>2. 1 \in DOMAIN archives
          BY <5>1, FirstOfSome
        <5> QED  BY <5>1, <5>2 DEF IInv, TypeOK
      <4>3. CASE b = 0
        <5>1. ArchivesKnow(archives, r, p, 0)
          BY ZeroKnown
        <5> QED  BY <2>0, <3>3, <4>1, <4>3, <5>1
      <4>4. CASE b # 0
        BY <2>0, <3>1, <3>3, <4>1, <4>2, <4>4
      <4> QED  BY <4>3, <4>4
    <3>4. CASE q = r /\ ~Behind(r)
      <4>1. ~Behind(r)'
        BY <1>5 DEF Behind
      <4>2. ArchivesKnow(archives, r, p, b) /\ b \in Int /\ c \in Int
        BY <2>1, <3>1, <3>4
      <4>3. ArchivesKnow(archives, r, p, c)
        BY <2>1, <4>2, KnowLess
      <4> QED  BY <3>4, <4>1, <4>3
    <3> QED  BY <3>2, <3>3, <3>4
  <2> HIDE DEF again
  <2>4. \A i \in Jobs : Knows(pc'[i], history'[i], run'[i], p, c)
    <3>1. \A i \in Jobs : Knows(pc[i], history[i], run[i], p, c)
      BY <1>6, <2>1, LowerBound DEF Bounded
    <3>2. Knows(pc'[j], history'[j], run'[j], p, c)
      <4>1. history[j] = NoHistory
        BY <1>1, <3>1 DEF Knows
      <4> QED  BY <1>1, <4>1 DEF Knows
    <3> QED  BY <1>1, <3>1, <3>2 DEF OthersSame
  <2>5. Active' # {} /\ failed'[p] + Cardinality(Clean(p, c)') <= c + Price' + 1
    <3> DEFINE B == Clean(p, b)
               C == Clean(p, c)
               D == Clean(p, c)'
    <3>1. /\ IsFiniteSet(B) /\ B \in SUBSET Active
          /\ C \in SUBSET B /\ D \in SUBSET (C \union {j}) /\ Active' # {}
      BY <1>1, <2>1, CleanChanges, LowerBound
    <3>2. D \in SUBSET (B \union {j})
      BY <3>1
    <3> HIDE DEF B, C, D
    <3>3. Cardinality(B) \in Nat /\ Cardinality(D) \in Nat /\ Cardinality(D) <= Cardinality(B) + 1
      BY <3>1, <3>2, SmallChanges
    <3>4. failed[p] + Cardinality(B) <= b + Price + over
      <4>1. CASE Active = {}
        <5>1. Cardinality(B) = 0
          BY <3>1, <4>1, FS_EmptySet
        <5>2. failed[p] <= b + Price /\ failed[p] \in Nat /\ Price \in Nat
          BY <1>6, <4>1, JobFacts DEF Bounded
        <5> QED  BY <4>1, <5>1, <5>2
      <4>2. CASE Active # {}
        BY <1>6, <4>2 DEF Bounded, B
      <4> QED  BY <4>1, <4>2
    <3>5. failed[p] \in Nat /\ Price \in Nat /\ over \in Nat /\ again \in Nat
      BY JobFacts DEF again
    <3> HIDE DEF over
    <3>6. failed'[p] + Cardinality(D) <= c + Price' + 1
      BY <1>1, <1>3, <2>1, <3>3, <3>4, <3>5
    <3> QED  BY <3>1, <3>6 DEF D
  <2>6. Bounded(p, c)'
    BY <2>2, <2>3, <2>4, <2>5 DEF Bounded
  <2> QED  BY <2>1, <2>6
<1>7. KnownBadStops'
  <2>1. Price <= Price'
    <3>1. again \in Nat /\ over \in Nat /\ Price \in Nat
      BY JobFacts
    <3> HIDE DEF again, over
    <3> QED  BY <1>3, <3>1
  <2> QED  BY <1>1, <2>1, MorePaid DEF KInv
<1> QED  BY <1>1, <1>6, <1>7, ActiveFinite DEF KInv

\* A run that is shown no archive though there are some starts the bound anew, and pays.
LEMMA HiddenBounded ==
    ASSUME IInv, IInv', KInv, NEW j \in Jobs, OthersSame(j), pc[j] = "hydrate",
           pc'[j] = "decide", history'[j] = history[j], run' = run, archives' = archives,
           failed' = failed, Price' = Price + 2,
           NEW p \in Signatures \X Classes, NEW b \in Nat, Bounded(p, b)
    PROVE  Bounded(p, 0)'
<1> DEFINE B == Clean(p, b)
           C == Clean(p, 0)
           D == Clean(p, 0)'
<1>1. /\ IsFiniteSet(B) /\ C \in SUBSET B /\ D \in SUBSET (C \union {j})
      /\ Active # {} /\ Active' # {}
  BY CleanChanges, LowerBound
<1>2. D \in SUBSET B
  <2>1. j \in C
    BY DEF Clean, Dirty
  <2> HIDE DEF B, C, D
  <2> QED  BY <1>1, <2>1
<1>3. failed[p] + Cardinality(B) <= b + Price + 1 /\ b <= 2
  BY <1>1 DEF Bounded, failedAttemptThreshold
<1>4. failed[p] \in Nat /\ Price \in Nat
  BY JobFacts
<1>5. failed'[p] + Cardinality(D) <= 0 + Price' + 1
  <2> HIDE DEF B, C, D
  <2>1. Cardinality(B) \in Nat /\ Cardinality(D) \in Nat /\ Cardinality(D) <= Cardinality(B)
    BY <1>1, <1>2, SmallChanges
  <2> QED  BY <1>3, <1>4, <2>1
<1>6. \A i \in Jobs : Knows(pc'[i], history'[i], run'[i], p, 0)
  <2>1. \A i \in Jobs : Knows(pc[i], history[i], run[i], p, 0)
    BY LowerBound DEF Bounded
  <2>2. Knows(pc'[j], history'[j], run'[j], p, 0)
    BY <2>1 DEF Knows
  <2> QED  BY <2>1, <2>2 DEF OthersSame
<1>7. AllKnow(p, 0)'
  <2> SUFFICES ASSUME NEW r \in Nat \ {0}
               PROVE  ArchivesKnow(archives, r, p, IF Behind(r)' THEN 0 - 1 ELSE 0)
    BY DEF AllKnow
  <2>1. ArchivesKnow(archives, r, p, 0) /\ ArchivesKnow(archives, r, p, 0 - 1)
    BY ZeroKnown
  <2> QED  BY <2>1
<1>8. 0 <= failedAttemptThreshold
  BY DEF failedAttemptThreshold
<1> QED  BY <1>1, <1>5, <1>6, <1>7, <1>8 DEF Bounded

LEMMA HydrateBounded == ASSUME IInv, IInv', KInv, NEW j \in Jobs, Hydrate(j) PROVE KInv'
<1>1. /\ OthersSame(j) /\ pc[j] = "hydrate" /\ pc'[j] \in {"decide", "upload"}
      /\ failed' = failed /\ archives' = archives /\ run' = run
      /\ crashes' = crashes /\ overlaps' = overlaps /\ retries' = retries
  BY JobFacts DEF Hydrate, OthersSame
<1> DEFINE r == run[j].id
<1>2. PICK n \in 0..Len(archives) :
        LET as     == sources(archives, r, n)
            hidden == DOMAIN as = {} /\ ofOtherRuns(archives, r) # {}
        IN  /\ IF \E i \in DOMAIN as : as[i] = NoHistory
               THEN pc' = [pc EXCEPT ![j] = "upload"] /\ UNCHANGED history
               ELSE /\ pc' = [pc EXCEPT ![j] = "decide"]
                    /\ history' = IF DOMAIN as = {} THEN history
                                  ELSE [history EXCEPT ![j] = mergeRemediationHistoryArtifacts(as)]
            /\ hidden => mishaps < MaxMishaps
            /\ unlisted' = unlisted + IF hidden THEN 1 ELSE 0
  BY DEF Hydrate
<1> DEFINE as == sources(archives, r, n)
           m == mergeRemediationHistoryArtifacts(as)
           hidden == DOMAIN as = {} /\ ofOtherRuns(archives, r) # {}
<1>3. hidden => pc'[j] = "decide" /\ history'[j] = history[j]
  BY <1>1, <1>2, JobFacts
<1>4. \/ hidden
      \/ history'[j] = history[j] /\ (pc'[j] = "decide" => ofOtherRuns(archives, r) = {})
      \/ /\ \A i \in DOMAIN as : as[i] # NoHistory
         /\ DOMAIN as # {} /\ history'[j] = m
  BY <1>2, JobFacts
<1>5. Price' = Price + IF hidden THEN 2 ELSE 0
  <2>1. unlisted \in Nat /\ crashes \in Nat /\ overlaps \in Nat /\ retries \in Nat
    BY DEF IInv, TypeOK
  <2>2. unlisted' = unlisted + IF hidden THEN 1 ELSE 0
    BY <1>2
  <2> HIDE DEF hidden
  <2> QED  BY <1>1, <2>1, <2>2 DEF Price, failedAttemptThreshold
<1>6. r \in Running /\ r \in Nat \ {0} /\ n \in Nat
  <2>1. j \in Active
    BY <1>1 DEF Active
  <2>2. r \in DOMAIN ci /\ ci \in Seq(Dispatch) /\ archives \in Seq(Archive)
    BY <2>1 DEF IInv, TypeOK
  <2>3. r \in Nat \ {0} /\ Len(archives) \in Nat
    BY <2>2, SequenceFacts
  <2> QED  BY <2>1, <2>3 DEF Running
<1> HIDE DEF r
<1>7. ASSUME NEW p \in Signatures \X Classes, NEW b \in Nat, Bounded(p, b)
      PROVE  \E c \in Nat : Bounded(p, c)'
  <2>1. CASE hidden
    <3>1. Bounded(p, 0)'
      BY <1>1, <1>3, <1>5, <1>7, <2>1, HiddenBounded
    <3> QED  BY <3>1
  <2>2. CASE ~hidden
    <3>1. ArchivesKnow(archives, r, p, b)
      BY <1>6, <1>7 DEF Bounded, AllKnow, Behind
    <3>2. Knows(pc'[j], history'[j], run'[j], p, b)
      <4>1. CASE /\ history'[j] = history[j]
                 /\ pc'[j] = "decide" => ofOtherRuns(archives, r) = {}
        BY <1>1, <1>7, <3>1, <4>1 DEF Bounded, Knows, ArchivesKnow
      <4>2. CASE /\ \A i \in DOMAIN as : as[i] # NoHistory
                 /\ DOMAIN as # {} /\ history'[j] = m
        <5>1. NumberedSources(as)
          BY <4>2, SourcesNumbered
        <5>2. m \in History /\ numbered(m) /\ m # NoHistory
          BY <5>1, MergeNumbered, NoHistoryAssumption
        <5>3. PICK f : Least(ofOtherRuns(archives, r), f) /\ Least(DOMAIN as, f)
          BY <1>6, <4>2, ListedNewest
        <5>4. Count(as[f], p) <= Count(m, p)
          BY <5>1, <5>3, FailuresOfMerge
        <5>5. f \in DOMAIN as /\ as[f] = archives[f].history /\ as[f] # NoHistory
          BY <4>2, <5>3, ListedFacts DEF Least
        <5>6. b <= Count(as[f], p)
          BY <3>1, <5>3, <5>5 DEF ArchivesKnow
        <5>7. Count(m, p) \in Nat /\ Count(as[f], p) \in Nat
          BY <5>1, <5>2, <5>5, FailuresAre DEF NumberedSources
        <5>8. b <= Count(m, p)
          <6> DEFINE u == Count(as[f], p)
                     v == Count(m, p)
          <6>1. u <= v /\ b <= u /\ u \in Nat /\ v \in Nat
            BY <5>4, <5>6, <5>7
          <6> HIDE DEF u, v
          <6>2. b <= v
            BY <6>1
          <6> QED  BY <6>2 DEF v
        <5> HIDE DEF m, as
        <5> QED  BY <1>1, <4>2, <5>2, <5>8 DEF Knows
      <4> QED  BY <1>4, <2>2, <4>1, <4>2
    <3>3. j \in Clean(p, b)
      BY <1>1 DEF Clean, Dirty
    <3>4. Price' = Price
      BY <1>5, <2>2, JobFacts
    <3>5. Bounded(p, b)'
      BY <1>1, <1>7, <3>2, <3>3, <3>4, StepBounded
    <3> QED  BY <3>5
  <2> QED  BY <2>1, <2>2
<1>8. KnownBadStops'
  <2>1. Price <= Price'
    <3>1. Price \in Nat
      BY JobFacts
    <3> HIDE DEF hidden
    <3> QED  BY <1>5, <3>1
  <2> QED  BY <1>1, <2>1, MorePaid DEF KInv
<1> QED  BY <1>1, <1>7, <1>8, ActiveFinite DEF KInv

LEMMA DecideBounded == ASSUME IInv, IInv', KInv, NEW j \in Jobs, Decide(j) PROVE KInv'
<1> DEFINE h == readHistoryArtifact(j)
           d == decide(h, run[j].log, ci[run[j].id].mode)
<1>1. /\ OthersSame(j) /\ pc[j] = "decide" /\ pc'[j] = IF d = "go" THEN "apply" ELSE "record"
      /\ failed' = failed /\ Price' = Price /\ archives' = archives /\ history' = history
      /\ run'[j].before = h /\ run'[j].log = run[j].log /\ run'[j].id = run[j].id
  BY JobFacts DEF Decide, OthersSame, Price, bounds
<1>2. h \in History /\ numbered(h)
  BY JobFacts, FailuresOfNone DEF readHistoryArtifact
<1>3. ASSUME NEW p \in Signatures \X Classes, NEW b \in Nat, Bounded(p, b)
      PROVE  Bounded(p, b)'
  <2>1. Knows(pc[j], history[j], run[j], p, b)
    BY <1>3 DEF Bounded
  <2>2. b <= Count(h, p)
    BY <1>1, <2>1, FailuresOfNone DEF readHistoryArtifact, Knows
  <2>3. d = "go" /\ p \in Tried(run[j].log) => Count(h, p) <= 1
    BY <1>2, GoMeansFew
  <2> HIDE DEF h, d
  <2>4. Knows(pc'[j], history'[j], run'[j], p, b)
    BY <1>1, <2>1, <2>2, <2>3 DEF Knows
  <2>5. j \in Clean(p, b)
    BY <1>1 DEF Clean, Dirty
  <2>6. pc[j] # "idle" /\ pc'[j] # "idle" /\ failed'[p] = failed[p]
    BY <1>1
  <2> QED  BY <1>1, <1>3, <2>4, <2>5, <2>6, StepBounded
<1>4. KnownBadStops'
  BY <1>1, JobFacts, MorePaid DEF KInv
<1> QED  BY <1>1, <1>3, <1>4, ActiveFinite DEF KInv

LEMMA ApplyBounded == ASSUME IInv, IInv', KInv, NEW j \in Jobs, Apply(j) PROVE KInv'
<1>1. /\ OthersSame(j) /\ pc[j] = "apply" /\ pc'[j] = "record"
      /\ Price' = Price /\ archives' = archives /\ history' = history /\ run' = run
  BY JobFacts DEF Apply, OthersSame, Price, bounds
<1>2. PICK ok \in BOOLEAN, applied \in BOOLEAN, verified \in BOOLEAN :
        LET st == statusAfterApply(run[j].log, ok, applied, verified)
        IN  /\ status' = [status EXCEPT ![j] = st]
            /\ failed' = IF st \in FailedStatuses THEN counted(failed, run[j].log) ELSE failed
  BY DEF Apply
<1> DEFINE k(p) == status'[j] \in FailedStatuses /\ p \in Tried(run[j].log)
<1>3. \A p \in Signatures \X Classes : failed'[p] = failed[p] + IF k(p) THEN 1 ELSE 0
  <2> TAKE p \in Signatures \X Classes
  <2>1. failed[p] \in Nat
    BY JobFacts
  <2>2. failed' = IF status'[j] \in FailedStatuses THEN counted(failed, run[j].log) ELSE failed
    BY <1>2, JobFacts
  <2>3. counted(failed, run[j].log)[p] = failed[p] + IF p \in Tried(run[j].log) THEN 1 ELSE 0
    BY DEF counted, Tried
  <2> QED  BY <2>1, <2>2, <2>3
<1>4. ASSUME NEW p \in Signatures \X Classes, NEW b \in Nat, Bounded(p, b)
      PROVE  Bounded(p, b)' /\ failed'[p] <= 2 + Price'
  <2>1. Knows(pc[j], history[j], run[j], p, b)
    BY <1>4 DEF Bounded
  <2>2. Knows(pc'[j], history'[j], run'[j], p, b)
    BY <1>1, <2>1 DEF Knows
  <2>3. j \in Clean(p, b)
    BY <1>1 DEF Clean, Dirty
  <2>4. k(p) => j \notin Clean(p, b)'
    BY <1>1 DEF Clean, Dirty
  <2>5. failed[p] \in Nat /\ Price \in Nat
    BY JobFacts
  <2>6. pc[j] # "idle" /\ pc'[j] # "idle"
    BY <1>1
  <2>7. \/ failed'[p] = failed[p]
        \/ failed'[p] = failed[p] + 1 /\ k(p)
    BY <1>3, <2>5
  <2> HIDE DEF k
  <2>8. Bounded(p, b)'
    BY <1>1, <1>4, <2>2, <2>3, <2>4, <2>6, <2>7, StepBounded
  <2>9. CASE failed'[p] = failed[p]
    BY <1>1, <2>8, <2>9, PriceFacts DEF KInv
  <2>10. CASE failed'[p] = failed[p] + 1 /\ k(p)
    <3>1. b <= Count(run[j].before, p) /\ Count(run[j].before, p) <= 1
      BY <1>1, <2>1, <2>10 DEF Knows, k
    <3>2. Count(run[j].before, p) \in Nat
      BY JobFacts, FailuresAre
    <3>3. failed[p] + Cardinality(Clean(p, b)) <= b + Price + 1
      BY <1>1, <1>4, CleanChanges DEF Bounded
    <3>4. Cardinality(Clean(p, b)) \in Nat /\ Cardinality(Clean(p, b)) >= 1
      <4>1. IsFiniteSet(Clean(p, b))
        BY <1>1, CleanChanges
      <4>2. Cardinality(Clean(p, b)) \in Nat /\ Cardinality({}) + 1 <= Cardinality(Clean(p, b))
        BY <2>3, <4>1, SmallChanges
      <4> QED  BY <4>2, FS_EmptySet
    <3>5. b <= 1
      BY <3>1, <3>2
    <3> DEFINE c == Cardinality(Clean(p, b))
    <3>6. c \in Nat /\ c >= 1 /\ failed[p] + c <= b + Price + 1
      BY <3>3, <3>4
    <3> HIDE DEF c
    <3>7. failed[p] + 1 <= 2 + Price
      BY <2>5, <3>5, <3>6
    <3> QED  BY <1>1, <2>8, <2>10, <3>7
  <2> QED  BY <2>7, <2>9, <2>10
<1>5. KnownBadStops'
  <2>1. \A p \in Signatures \X Classes : failed'[p] <= 2 + Price'
    BY <1>4 DEF KInv
  <2>2. KnownBadStops' <=> \A p \in Signatures \X Classes : failed'[p] <= 2 + Price'
    BY NextPriceFacts
  <2> QED  BY <2>1, <2>2
<1> QED  BY <1>1, <1>4, <1>5, ActiveFinite DEF KInv

LEMMA RecordBounded == ASSUME IInv, IInv', KInv, NEW j \in Jobs, Record(j) PROVE KInv'
<1> DEFINE h == run[j].before
           g == Append(h, historyEntry(h, run[j].log, status[j]))
<1>1. /\ OthersSame(j) /\ pc[j] = "record" /\ pc'[j] = "upload"
      /\ Price' = Price /\ archives' = archives
      /\ failed' = failed /\ run' = run /\ status' = status /\ history'[j] = g
  BY JobFacts DEF Record, OthersSame, Price, bounds
<1>2. /\ h \in History /\ numbered(h) /\ run[j].log \in SUBSET Signatures
      /\ status[j] \in FinalStatuses
  BY JobFacts
<1>3. g \in History /\ numbered(g) /\ g # NoHistory
  BY <1>2, AppendNumbered, NoHistoryAssumption
<1>4. ASSUME NEW p \in Signatures \X Classes, NEW b \in Nat, Bounded(p, b)
      PROVE  Bounded(p, b)'
  <2> DEFINE k == status[j] \in FailedStatuses /\ p \in Tried(run[j].log)
  <2>1. b <= Count(h, p)
    BY <1>1, <1>4 DEF Bounded, Knows
  <2>2. Count(h, p) \in Nat /\ Count(g, p) \in Nat
    BY <1>2, <1>3, FailuresAre
  <2>3. Count(g, p) = Count(h, p) + IF k THEN 1 ELSE 0
    BY <1>2, <2>2, FailuresOfAppend
  <2> HIDE DEF g, h
  <2>4. b <= Count(g, p) /\ (k => b < Count(g, p))
    <3> HIDE DEF k
    <3> QED  BY <2>1, <2>2, <2>3
  <2>5. Knows(pc'[j], history'[j], run'[j], p, b)
    BY <1>1, <2>4 DEF Knows
  <2>6. j \in Clean(p, b) \/ j \notin Clean(p, b)'
    <3>1. k => j \notin Clean(p, b)'
      BY <1>1, <1>3, <2>4 DEF Clean, Dirty
    <3>2. ~k => j \in Clean(p, b)
      BY <1>1 DEF Clean, Dirty
    <3> QED  BY <3>1, <3>2
  <2>7. pc[j] # "idle" /\ pc'[j] # "idle" /\ failed'[p] = failed[p]
    BY <1>1
  <2> QED  BY <1>1, <1>4, <2>5, <2>6, <2>7, StepBounded
<1>5. KnownBadStops'
  BY <1>1, JobFacts, MorePaid DEF KInv
<1> QED  BY <1>1, <1>4, <1>5, ActiveFinite DEF KInv

LEMMA StepFailsBounded == ASSUME IInv, IInv', KInv, NEW j \in Jobs, StepFails(j) PROVE KInv'
<1>1. /\ OthersSame(j) /\ pc[j] # "idle" /\ pc'[j] = "upload" /\ history' = history /\ run' = run
      /\ archives' = archives /\ failed' = failed
  BY JobFacts DEF StepFails, OthersSame
<1>2. Price' = Price + 1
  BY CrashPays DEF StepFails
<1>3. ASSUME NEW p \in Signatures \X Classes, NEW b \in Nat, Bounded(p, b)
      PROVE  Bounded(p, b)'
  <2>1. Knows(pc'[j], history'[j], run'[j], p, b)
    BY <1>1, <1>3 DEF Bounded, Knows
  <2> QED  BY <1>1, <1>2, <1>3, <2>1, StepBounded
<1>4. KnownBadStops'
  BY <1>1, <1>2, JobFacts, MorePaid DEF KInv
<1> QED  BY <1>1, <1>3, <1>4, ActiveFinite DEF KInv

\* When a run ends, its workspace gone, a bound that the archives keep is kept if a crash has
\* been paid for, other runs are under way, or the run was clean.
LEMMA EndBounded ==
    ASSUME IInv, IInv', KInv, NEW j \in Jobs, Discard(j), pc[j] # "idle", failed' = failed,
           NEW p \in Signatures \X Classes, NEW b \in Nat, Bounded(p, b), AllKnow(p, b)',
           \/ Price' = Price + 1
           \/ Price' = Price /\ (Active' # {} \/ j \in Clean(p, b))
    PROVE  Bounded(p, b)'
<1>1. OthersSame(j) /\ pc'[j] = "idle" /\ history'[j] = NoHistory
  BY JobFacts DEF Discard, OthersSame
<1> DEFINE C == Clean(p, b)
           D == Clean(p, b)'
<1>2. /\ IsFiniteSet(C) /\ D \in SUBSET (C \union {j}) /\ j \notin D /\ Active # {}
  BY <1>1, CleanChanges
<1>3. failed[p] \in Nat /\ Price \in Nat
  BY JobFacts
<1>4. failed[p] + Cardinality(C) <= b + Price + 1
  BY <1>2 DEF Bounded
<1>5. /\ failed'[p] + Cardinality(D) <= b + Price' + 1
      /\ Active' = {} => failed'[p] <= b + Price'
  <2> HIDE DEF C, D
  <2>1. D \in SUBSET C
    BY <1>2
  <2>2. Cardinality(C) \in Nat /\ Cardinality(D) \in Nat /\ Cardinality(D) <= Cardinality(C)
    BY <1>2, <2>1, SmallChanges
  <2>3. failed'[p] + Cardinality(D) <= b + Price' + 1
    BY <1>3, <1>4, <2>2
  <2>4. CASE Price' = Price + 1
    BY <1>3, <1>4, <2>2, <2>3, <2>4
  <2>5. CASE Price' = Price /\ j \in C
    <3>1. Cardinality({}) + 1 <= Cardinality(C) /\ Cardinality({}) = 0
      BY <1>2, <2>5, SmallChanges, FS_EmptySet
    <3>2. Cardinality(C) >= 1
      BY <2>2, <3>1
    <3> QED  BY <1>3, <1>4, <2>2, <2>3, <2>5, <3>2
  <2> QED  BY <2>3, <2>4, <2>5 DEF C
<1>6. \A i \in Jobs : Knows(pc'[i], history'[i], run'[i], p, b)
  <2>1. Knows(pc'[j], history'[j], run'[j], p, b)
    BY <1>1 DEF Knows
  <2> QED  BY <1>1, <2>1 DEF Bounded, OthersSame
<1> QED  BY <1>5, <1>6 DEF Bounded

LEMMA RunnerLostBounded == ASSUME IInv, IInv', KInv, NEW j \in Jobs, RunnerLost(j) PROVE KInv'
<1>1. Discard(j) /\ pc[j] # "idle" /\ archives' = archives /\ failed' = failed
  BY DEF RunnerLost
<1>2. Price' = Price + 1
  BY CrashPays DEF RunnerLost
<1>3. \A r : Behind(r) => Behind(r)'
  <2>1. Running' \in SUBSET Running
    BY <1>1, DiscardKeeps DEF Running
  <2> QED  BY <1>1, <2>1 DEF Behind
<1>4. ASSUME NEW p \in Signatures \X Classes, NEW b \in Nat, Bounded(p, b)
      PROVE  Bounded(p, b)'
  <2>1. AllKnow(p, b)'
    BY <1>1, <1>3, <1>4, StillKnown DEF Bounded
  <2> QED  BY <1>1, <1>2, <1>4, <2>1, EndBounded
<1>5. KnownBadStops'
  BY <1>1, <1>2, JobFacts, MorePaid DEF KInv
<1>6. OthersSame(j)
  BY <1>1, JobFacts DEF Discard, OthersSame
<1> QED  BY <1>4, <1>5, <1>6, ActiveFinite DEF KInv

LEMMA UploadBounded == ASSUME IInv, IInv', KInv, NEW j \in Jobs, Upload(j) PROVE KInv'
<1>0. PICK r : r = run[j].id
  OBVIOUS
<1> DEFINE x == [run_id |-> r, history |-> history[j]]
<1>1. /\ Discard(j) /\ pc[j] = "upload" /\ failed' = failed /\ Price' = Price
      /\ archives' = Uploaded(x, archives)
  BY <1>0 DEF Upload, Uploaded, Price, bounds
<1>2. OthersSame(j) /\ pc'[j] = "idle"
  BY <1>1, JobFacts DEF Discard, OthersSame
<1>3. r \in Running /\ r \in Nat \ {0} /\ Running' \in SUBSET Running
  <2>1. j \in Active
    BY <1>1 DEF Active
  <2>2. r \in DOMAIN ci /\ ci \in Seq(Dispatch)
    BY <1>0, <2>1 DEF IInv, TypeOK
  <2>3. r \in Nat \ {0}
    BY <2>2, SequenceFacts
  <2>4. Running' \in SUBSET Running
    BY <1>1, DiscardKeeps DEF Running
  <2> QED  BY <1>0, <2>1, <2>3, <2>4 DEF Running
<1>4. x \in Archive /\ x.run_id = r /\ x.history = history[j] /\ archives \in Seq(Archive)
  <2>1. history[j] \in History \union {NoHistory} /\ archives \in Seq(Archive)
    BY DEF IInv, TypeOK
  <2> QED  BY <1>3, <2>1 DEF Archive
<1> HIDE DEF x
<1>5. archives' # << >> /\ archives'[1].run_id = r
  <2>1. archives'[1] = x /\ 1 \in DOMAIN archives'
    BY <1>1, <1>4, UploadedFirst
  <2> QED  BY <1>4, <2>1
\* What the archives make known of b they make known, with the run's own one, of a, unless
\* the run, seen as over, is expected to know more than b.
<1>6. ASSUME NEW p \in Signatures \X Classes, NEW b \in Nat, Bounded(p, b), NEW a \in Nat,
             history[j] # NoHistory => a <= Count(history[j], p),
             a = b \/ (a = b + 1 /\ Active' = {})
      PROVE  AllKnow(p, a)'
  <2> SUFFICES ASSUME NEW q \in Nat \ {0}
               PROVE  ArchivesKnow(archives', q, p, IF Behind(q)' THEN a - 1 ELSE a)
    BY DEF AllKnow
  <2>1. CASE q # r
    <3>1. ~Behind(q)'
      BY <1>5, <2>1 DEF Behind
    <3>2. ArchivesKnow(archives', q, p, a)
      BY <1>1, <1>4, <1>6, <2>1, OtherArchive
    <3> QED  BY <3>1, <3>2
  <2>2. CASE q = r
    <3>1. ArchivesKnow(archives, r, p, b)
      BY <1>3, <1>6 DEF Bounded, AllKnow, Behind
    <3>2. a = b + 1 => Behind(r)'
      <4>1. Active' = {} => Running' = {}
        BY DEF Running
      <4> QED  BY <1>5, <1>6, <4>1 DEF Behind
    <3>0. PICK c \in Int : c = IF Behind(r)' THEN a - 1 ELSE a
      BY <1>6
    <3>3. c \in Int /\ b \in Int /\ c <= b
      BY <1>6, <3>0, <3>2
    <3>4. ArchivesKnow(archives, r, p, c)
      BY <3>1, <3>3, KnowLess
    <3>5. ArchivesKnow(archives', r, p, c)
      BY <1>1, <1>4, <3>4, OwnArchive
    <3> QED  BY <2>2, <3>0, <3>5
  <2> QED  BY <2>1, <2>2
<1>7. ASSUME NEW p \in Signatures \X Classes, NEW b \in Nat, Bounded(p, b)
      PROVE  \E a \in Nat : Bounded(p, a)'
  <2>1. history[j] # NoHistory => b <= Count(history[j], p)
    BY <1>7 DEF Bounded, Knows
  <2>2. AllKnow(p, b)'
    BY <1>6, <1>7, <2>1
  <2>3. CASE Active' # {} \/ j \in Clean(p, b)
    <3>1. pc[j] # "idle"
      BY <1>1
    <3>2. Bounded(p, b)'
      BY <1>1, <1>7, <2>2, <2>3, <3>1, EndBounded
    <3> QED  BY <3>2
  <2>4. CASE Active' = {} /\ j \notin Clean(p, b)
    <3> DEFINE a == IF b < 2 THEN b + 1 ELSE b
    <3>1. history[j] # NoHistory /\ b < Count(history[j], p) /\ Count(history[j], p) \in Nat
      <4>1. history[j] # NoHistory /\ b < Count(history[j], p)
        BY <1>1, <2>4 DEF Clean, Dirty
      <4> QED  BY <4>1, JobFacts, FailuresAre
    <3>2. b <= 2
      BY <1>7 DEF Bounded, failedAttemptThreshold
    <3>3. a \in Nat /\ a <= 2 /\ a <= Count(history[j], p) /\ (a = b \/ a = b + 1)
      <4> DEFINE c == Count(history[j], p)
      <4>1. b < c /\ c \in Nat
        BY <3>1
      <4> HIDE DEF c
      <4>2. a \in Nat /\ a <= 2 /\ a <= c /\ (a = b \/ a = b + 1)
        BY <3>2, <4>1
      <4> QED  BY <4>2 DEF c
    <3>4. failed[p] <= a + Price
      <4>1. failed[p] <= 2 + Price
        BY PriceFacts DEF KInv
      <4> DEFINE c == Cardinality(Clean(p, b))
      <4>2. failed[p] + c <= b + Price + 1
        BY <1>1, <1>2, <1>7, CleanChanges DEF Bounded
      <4>3. IsFiniteSet(Clean(p, b))
        BY <1>2, CleanChanges
      <4>4. c \in Nat /\ failed[p] \in Nat /\ Price \in Nat
        BY <4>3, FS_CardinalityType, JobFacts
      <4> HIDE DEF c
      <4> QED  BY <3>2, <4>1, <4>2, <4>4
    <3> HIDE DEF a
    <3>5. AllKnow(p, a)'
      BY <1>6, <1>7, <2>4, <3>3
    <3>6. \A i \in Jobs : Knows(pc'[i], history'[i], run'[i], p, a)
      <4> TAKE i \in Jobs
      <4>1. pc'[i] = "idle"
        BY <2>4 DEF Active
      <4>2. history'[i] = NoHistory
        BY <1>1, <1>2, <1>7, <4>1, JobFacts DEF Discard, Bounded, Knows, OthersSame
      <4> QED  BY <4>1, <4>2 DEF Knows
    <3>7. Bounded(p, a)'
      BY <1>1, <2>4, <3>3, <3>4, <3>5, <3>6 DEF Bounded, failedAttemptThreshold
    <3> QED  BY <3>3, <3>7
  <2> QED  BY <2>3, <2>4
<1>8. KnownBadStops'
  BY <1>1, JobFacts, MorePaid DEF KInv
<1> QED  BY <1>2, <1>7, <1>8, ActiveFinite DEF KInv

LEMMA OtherRunBounded == ASSUME IInv, IInv', KInv, OtherRun PROVE KInv'
<1>1. PICK r \in nextAttempts :
        /\ ci' \in begun(r)
        /\ archives' = Uploaded([run_id |-> r, history |-> NoHistory], archives)
  BY DEF OtherRun, Uploaded
<1> DEFINE x == [run_id |-> r, history |-> NoHistory]
<1>2. UNCHANGED <<history, pc, run, status, failed>> /\ Price' = Price
  BY DEF OtherRun, Price
<1>3. r \in Nat \ {0} /\ r \notin Running
  BY <1>1, BegunFacts DEF Running
<1>4. /\ x \in Archive /\ x.run_id = r /\ x.history = NoHistory
      /\ archives' = Uploaded(x, archives) /\ archives \in Seq(Archive)
  BY <1>1, <1>3 DEF Archive, IInv, TypeOK
<1> HIDE DEF x
<1>5. archives' # << >> /\ archives'[1].run_id = r /\ Active' = Active /\ Running' = Running
  <2>1. archives'[1] = x /\ 1 \in DOMAIN archives'
    BY <1>4, UploadedFirst
  <2> QED  BY <1>2, <1>4, <2>1 DEF Active, Running
<1>6. ASSUME NEW p \in Signatures \X Classes, NEW b \in Nat, Bounded(p, b)
      PROVE  Bounded(p, b)'
  <2>1. AllKnow(p, b)'
    <3> SUFFICES ASSUME NEW q \in Nat \ {0}
                 PROVE  ArchivesKnow(archives', q, p, IF Behind(q)' THEN b - 1 ELSE b)
      BY DEF AllKnow
    <3>1. CASE q # r
      <4>1. ~Behind(q)'
        BY <1>5, <3>1 DEF Behind
      <4>2. ArchivesKnow(archives', q, p, b)
        BY <1>4, <3>1, OtherArchive
      <4> QED  BY <4>1, <4>2
    <3>2. CASE q = r
      <4>1. Behind(r)'
        BY <1>3, <1>5 DEF Behind
      <4>2. ArchivesKnow(archives, r, p, IF Behind(r) THEN b - 1 ELSE b)
        BY <1>3, <1>6 DEF Bounded, AllKnow
      <4>3. b \in Int /\ b - 1 \in Int /\ b - 1 <= b
        OBVIOUS
      <4>4. ArchivesKnow(archives, r, p, b - 1)
        BY <4>2, <4>3, KnowLess
      <4>5. ArchivesKnow(archives', r, p, b - 1)
        BY <1>4, <4>4, OwnArchive
      <4> QED  BY <3>2, <4>1, <4>5
    <3> QED  BY <3>1, <3>2
  <2>2. Clean(p, b)' = Clean(p, b)
    BY <1>2 DEF Clean
  <2> QED  BY <1>2, <1>5, <1>6, <2>1, <2>2 DEF Bounded
<1>7. KnownBadStops'
  BY <1>2, PriceFacts, MorePaid DEF KInv
<1> QED  BY <1>5, <1>6, <1>7 DEF KInv

LEMMA InitBounded == Init => KInv
<1> SUFFICES ASSUME Init PROVE KInv
  OBVIOUS
<1>1. Active = {}
  BY DEF Init, Active
<1>2. Price = 0 /\ archives = << >>
  BY DEF Init, Price, failedAttemptThreshold
<1>3. ASSUME NEW p \in Signatures \X Classes
      PROVE  failed[p] = 0 /\ Bounded(p, 0)
  <2>1. failed[p] = 0
    BY DEF Init, None
  <2>2. \A j \in Jobs : Knows(pc[j], history[j], run[j], p, 0)
    BY DEF Init, Knows
  <2>3. AllKnow(p, 0)
    <3> SUFFICES ASSUME NEW r \in Nat \ {0}
                 PROVE  ArchivesKnow(archives, r, p, IF Behind(r) THEN 0 - 1 ELSE 0)
      BY DEF AllKnow
    <3>1. ~Behind(r) /\ ofOtherRuns(archives, r) = {}
      BY <1>2 DEF Behind, ofOtherRuns
    <3>2. ArchivesKnow(archives, r, p, 0)
      BY <3>1 DEF ArchivesKnow, Least
    <3> QED  BY <3>1, <3>2
  <2>4. 0 <= failedAttemptThreshold
    BY DEF failedAttemptThreshold
  <2> QED  BY <1>1, <1>2, <2>1, <2>2, <2>3, <2>4 DEF Bounded
<1>4. IsFiniteSet(Active)
  BY <1>1, FS_EmptySet
<1>5. KnownBadStops
  <2>1. Init => /\ unlisted = 0 /\ crashes = 0 /\ overlaps = 0 /\ retries = 0
    BY DEF Init
  <2> QED  BY <1>3, <2>1 DEF KnownBadStops, failedAttemptThreshold
<1> QED  BY <1>3, <1>4, <1>5 DEF KInv

LEMMA BoundInductive == IInv /\ IInv' /\ KInv /\ [Next]_vars => KInv'
<1> SUFFICES ASSUME IInv, IInv', KInv, [Next]_vars PROVE KInv'
  OBVIOUS
<1>1. CASE OtherRun
  BY <1>1, OtherRunBounded
<1>2. CASE \E j \in Jobs : \/ Checkout(j) \/ Hydrate(j) \/ Decide(j) \/ Apply(j) \/ Record(j)
                           \/ Upload(j) \/ StepFails(j) \/ RunnerLost(j)
  BY <1>2, CheckoutBounded, HydrateBounded, DecideBounded, ApplyBounded, RecordBounded,
     UploadBounded, StepFailsBounded, RunnerLostBounded
<1>3. CASE UNCHANGED vars
  <2>1. /\ archives' = archives /\ history' = history /\ pc' = pc /\ run' = run
        /\ status' = status /\ failed' = failed /\ Price' = Price
    BY <1>3 DEF vars, bounds, Price
  <2>2. Active' = Active /\ Running' = Running
    BY <2>1 DEF Active, Running
  <2>3. KnownBadStops'
    BY <1>3 DEF vars, bounds, KInv, KnownBadStops
  <2>4. ASSUME NEW p \in Signatures \X Classes, NEW b \in Nat, Bounded(p, b)
        PROVE  Bounded(p, b)'
    <3>1. Clean(p, b)' = Clean(p, b)
      BY <2>1 DEF Clean
    <3>2. AllKnow(p, b)'
      <4>1. \A r : Behind(r) <=> Behind(r)'
        BY <2>1, <2>2 DEF Behind
      <4> QED  BY <2>1, <2>4, <4>1 DEF Bounded, AllKnow
    <3> QED  BY <2>1, <2>2, <2>4, <3>1, <3>2 DEF Bounded
  <2> QED  BY <2>2, <2>3, <2>4 DEF KInv
<1> QED  BY <1>1, <1>2, <1>3 DEF Next

\* A repair class is attempted in vain at most twice for one signature, and at most once more
\* for each failed step, lost runner, overlap and re-run, and twice more for each listing that
\* shows no archive: for any number of runners, runs, signatures and archives looked at, in
\* whatever order they upload (evaluateRepeatRemediationPolicy over the hydrated history).
THEOREM KnownBadRepairsStop == Spec => []KnownBadStops
<1>1. KInv => KnownBadStops
  BY DEF KInv
<1> QED  BY InitGood, Inductive, InitBounded, BoundInductive, <1>1, PTL DEF Spec

-----------------------------------------------------------------------------
(* Runs that ended without repair. *)

\* The histories there are.
Kept ==
    ({archives[i].history : i \in DOMAIN archives} \union {history[j] : j \in Jobs}
       \union {run[j].before : j \in Jobs}) \ {NoHistory}

\* The runs, by id, some history says failed to repair p.
Recorded(p) == UNION {Failures(h, p) : h \in Kept}

\* The runs that have a failure of p still to record.
Pending(p) ==
    {j \in Jobs : pc[j] = "record" /\ status[j] \in FailedStatuses /\ p \in Tried(run[j].log)}

CInv ==
    \A p \in Signatures \X Classes :
      /\ IsFiniteSet(Recorded(p)) /\ IsFiniteSet(Pending(p))
      /\ Cardinality(Recorded(p)) + Cardinality(Pending(p)) <= failed[p] + stopped[p]

\* A run is pending only after a step of its own.
LEMMA PendingChanges ==
    ASSUME NEW j \in Jobs, OthersSame(j), NEW p
    PROVE  /\ Pending(p)' \in SUBSET (Pending(p) \union {j})
           /\ pc'[j] # "record" => Pending(p)' \in SUBSET (Pending(p) \ {j})
BY DEF Pending, OthersSame

\* The three ways the two sides of the inequality change.
LEMMA CauseKept ==
    ASSUME IInv, IInv', CInv, NEW j, NEW x, NEW p \in Signatures \X Classes,
           \/ /\ Recorded(p)' \in SUBSET Recorded(p) /\ Pending(p)' \in SUBSET Pending(p)
              /\ failed'[p] = failed[p] /\ stopped'[p] = stopped[p]
           \/ /\ Recorded(p)' \in SUBSET Recorded(p)
              /\ Pending(p)' \in SUBSET (Pending(p) \union {j})
              /\ \/ failed'[p] = failed[p] + 1 /\ stopped'[p] = stopped[p]
                 \/ failed'[p] = failed[p] /\ stopped'[p] = stopped[p] + 1
           \/ /\ Recorded(p)' \in SUBSET (Recorded(p) \union {x})
              /\ j \in Pending(p) /\ Pending(p)' \in SUBSET (Pending(p) \ {j})
              /\ failed'[p] = failed[p] /\ stopped'[p] = stopped[p]
    PROVE  /\ IsFiniteSet(Recorded(p)') /\ IsFiniteSet(Pending(p)')
           /\ Cardinality(Recorded(p)') + Cardinality(Pending(p)') <= failed'[p] + stopped'[p]
<1> DEFINE R == Recorded(p)
           P == Pending(p)
           R1 == Recorded(p)'
           P1 == Pending(p)'
<1>1. IsFiniteSet(R) /\ IsFiniteSet(P) /\ Cardinality(R) + Cardinality(P) <= failed[p] + stopped[p]
  BY DEF CInv
<1>2. failed[p] \in Nat /\ stopped[p] \in Nat
  BY DEF IInv, TypeOK
<1> HIDE DEF R, P, R1, P1
<1>3. Cardinality(R) \in Nat /\ Cardinality(P) \in Nat
  BY <1>1, FS_CardinalityType
<1>4. CASE /\ R1 \in SUBSET R /\ P1 \in SUBSET P
           /\ failed'[p] = failed[p] /\ stopped'[p] = stopped[p]
  <2>1. /\ IsFiniteSet(R1) /\ Cardinality(R1) \in Nat /\ Cardinality(R1) <= Cardinality(R)
        /\ IsFiniteSet(P1) /\ Cardinality(P1) \in Nat /\ Cardinality(P1) <= Cardinality(P)
    BY <1>1, <1>4, SmallChanges
  <2>2. Cardinality(R1) + Cardinality(P1) <= failed'[p] + stopped'[p]
    BY <1>1, <1>2, <1>3, <1>4, <2>1
  <2> QED  BY <2>1, <2>2 DEF R1, P1
<1>5. CASE /\ R1 \in SUBSET R /\ P1 \in SUBSET (P \union {j})
           /\ \/ failed'[p] = failed[p] + 1 /\ stopped'[p] = stopped[p]
              \/ failed'[p] = failed[p] /\ stopped'[p] = stopped[p] + 1
  <2>1. /\ IsFiniteSet(R1) /\ Cardinality(R1) \in Nat /\ Cardinality(R1) <= Cardinality(R)
        /\ IsFiniteSet(P1) /\ Cardinality(P1) \in Nat /\ Cardinality(P1) <= Cardinality(P) + 1
    BY <1>1, <1>5, SmallChanges
  <2>2. Cardinality(R1) + Cardinality(P1) <= failed'[p] + stopped'[p]
    BY <1>1, <1>2, <1>3, <1>5, <2>1
  <2> QED  BY <2>1, <2>2 DEF R1, P1
<1>6. CASE /\ R1 \in SUBSET (R \union {x}) /\ j \in P /\ P1 \in SUBSET (P \ {j})
           /\ failed'[p] = failed[p] /\ stopped'[p] = stopped[p]
  <2>1. P1 \in SUBSET P
    BY <1>6
  <2>2. /\ IsFiniteSet(R1) /\ Cardinality(R1) \in Nat /\ Cardinality(R1) <= Cardinality(R) + 1
        /\ IsFiniteSet(P1) /\ Cardinality(P1) \in Nat /\ Cardinality(P1) + 1 <= Cardinality(P)
    BY <1>1, <1>6, <2>1, SmallChanges
  <2>3. Cardinality(R1) + Cardinality(P1) <= failed'[p] + stopped'[p]
    BY <1>1, <1>2, <1>3, <1>6, <2>2
  <2> QED  BY <2>2, <2>3 DEF R1, P1
<1> QED  BY <1>4, <1>5, <1>6 DEF R, P, R1, P1

\* Whatever histories there are after a step, their failures were recorded, or are x.
LEMMA RecordedFrom ==
    ASSUME NEW p, NEW X, \A h \in Kept' : Failures(h, p) \in SUBSET (Recorded(p) \union X)
    PROVE  Recorded(p)' \in SUBSET (Recorded(p) \union X)
BY DEF Recorded

\* A history that is kept, or empty, adds nothing.
LEMMA OldAddNothing ==
    ASSUME NEW p, \A h \in Kept' : h \in Kept \/ h = << >>
    PROVE  Recorded(p)' \in SUBSET Recorded(p)
<1>1. \A h \in Kept : Failures(h, p) \in SUBSET Recorded(p)
  BY DEF Recorded
<1>2. Failures(<< >>, p) = {}
  BY FailuresOfNone
<1>3. \A h \in Kept' : Failures(h, p) \in SUBSET (Recorded(p) \union {})
  BY <1>1, <1>2
<1>4. Recorded(p)' \in SUBSET (Recorded(p) \union {})
  BY <1>3, RecordedFrom
<1> QED  BY <1>4

\* A step after which every history was kept before, or is empty, no further run is pending
\* and nothing more is counted.
LEMMA QuietCause ==
    ASSUME IInv, IInv', CInv, \A h \in Kept' : h \in Kept \/ h = << >>,
           \A p \in Signatures \X Classes : Pending(p)' \in SUBSET Pending(p),
           failed' = failed, stopped' = stopped
    PROVE  CInv'
<1> SUFFICES ASSUME NEW p \in Signatures \X Classes
             PROVE  /\ IsFiniteSet(Recorded(p)') /\ IsFiniteSet(Pending(p)')
                    /\ Cardinality(Recorded(p)') + Cardinality(Pending(p)')
                         <= failed'[p] + stopped'[p]
  BY DEF CInv
<1>1. Recorded(p)' \in SUBSET Recorded(p)
  BY OldAddNothing
<1> QED  BY <1>1, CauseKept

LEMMA CheckoutCause == ASSUME IInv, IInv', CInv, NEW j \in Jobs, Checkout(j) PROVE CInv'
<1>1. /\ OthersSame(j) /\ pc'[j] = "hydrate" /\ history' = history /\ archives' = archives
      /\ failed' = failed /\ stopped' = stopped /\ run'[j].before = << >>
  BY JobFacts DEF Checkout, OthersSame
<1>2. \A h \in Kept' : h \in Kept \/ h = << >>
  BY <1>1 DEF Kept, OthersSame
<1>3. \A p \in Signatures \X Classes : Pending(p)' \in SUBSET Pending(p)
  BY <1>1, PendingChanges
<1> QED  BY <1>1, <1>2, <1>3, QuietCause

LEMMA HydrateCause == ASSUME IInv, IInv', CInv, NEW j \in Jobs, Hydrate(j) PROVE CInv'
<1>1. /\ OthersSame(j) /\ pc'[j] # "record" /\ archives' = archives /\ run' = run
      /\ failed' = failed /\ stopped' = stopped
  BY JobFacts DEF Hydrate, OthersSame
<1>2. PICK n \in 0..Len(archives) :
        LET as == sources(archives, run[j].id, n)
        IN  history' = history
              \/ /\ \A i \in DOMAIN as : as[i] # NoHistory
                 /\ history' = [history EXCEPT ![j] = mergeRemediationHistoryArtifacts(as)]
  BY DEF Hydrate
<1> DEFINE as == sources(archives, run[j].id, n)
           m == mergeRemediationHistoryArtifacts(as)
<1>3. history'[j] = history[j] \/ ((\A i \in DOMAIN as : as[i] # NoHistory) /\ history'[j] = m)
  BY <1>2, JobFacts
<1> SUFFICES ASSUME NEW p \in Signatures \X Classes
             PROVE  /\ IsFiniteSet(Recorded(p)') /\ IsFiniteSet(Pending(p)')
                    /\ Cardinality(Recorded(p)') + Cardinality(Pending(p)')
                         <= failed'[p] + stopped'[p]
  BY DEF CInv
<1>4. \A h \in Kept : Failures(h, p) \in SUBSET Recorded(p)
  BY DEF Recorded
<1>5. history'[j] # history[j] => Failures(m, p) \in SUBSET Recorded(p)
  <2> SUFFICES ASSUME history'[j] # history[j], NEW o \in Failures(m, p)
               PROVE  o \in Recorded(p)
    OBVIOUS
  <2>1. NumberedSources(as)
    BY <1>3, SourcesNumbered
  <2>2. PICK i \in DOMAIN as : o \in Failures(as[i], p)
    BY <2>1, FailuresOfMerge
  <2>3. as[i] = archives[i].history /\ i \in DOMAIN archives
    BY ListedFacts
  <2>4. as[i] \in Kept
    BY <1>3, <2>3 DEF Kept
  <2> QED  BY <1>4, <2>2, <2>4
<1>6. \A h \in Kept' : h \in Kept \/ (history'[j] # history[j] /\ h = m)
  <2> HIDE DEF m
  <2> QED  BY <1>1, <1>3 DEF Kept, OthersSame
<1>7. \A h \in Kept' : Failures(h, p) \in SUBSET (Recorded(p) \union {})
  <2> HIDE DEF m
  <2> QED  BY <1>4, <1>5, <1>6
<1>8. Recorded(p)' \in SUBSET (Recorded(p) \union {})
  BY <1>7, RecordedFrom
<1>9. Recorded(p)' \in SUBSET Recorded(p) /\ Pending(p)' \in SUBSET Pending(p)
  BY <1>1, <1>8, PendingChanges
<1> QED  BY <1>1, <1>9, CauseKept

LEMMA DecideCause == ASSUME IInv, IInv', CInv, NEW j \in Jobs, Decide(j) PROVE CInv'
<1> DEFINE h == readHistoryArtifact(j)
           d == decide(h, run[j].log, ci[run[j].id].mode)
<1>1. /\ OthersSame(j) /\ pc'[j] = IF d = "go" THEN "apply" ELSE "record"
      /\ failed' = failed /\ archives' = archives /\ history' = history
      /\ run'[j].before = h /\ run'[j].log = run[j].log
      /\ d # "go" => status'[j] = d
      /\ d = "go" => stopped' = stopped
      /\ d # "go" => stopped' = IF d \in FailedStatuses THEN counted(stopped, run[j].log)
                                ELSE stopped
  BY JobFacts DEF Decide, OthersSame
<1>2. h = << >> \/ (h = history[j] /\ h # NoHistory)
  BY DEF readHistoryArtifact
<1> HIDE DEF h, d
<1>3. \A g \in Kept' : g \in Kept \/ g = << >>
  BY <1>1, <1>2 DEF Kept, OthersSame
<1> SUFFICES ASSUME NEW p \in Signatures \X Classes
             PROVE  /\ IsFiniteSet(Recorded(p)') /\ IsFiniteSet(Pending(p)')
                    /\ Cardinality(Recorded(p)') + Cardinality(Pending(p)')
                         <= failed'[p] + stopped'[p]
  BY DEF CInv
<1>4. Recorded(p)' \in SUBSET Recorded(p)
  BY <1>3, OldAddNothing
<1>5. CASE d # "go" /\ d \in FailedStatuses /\ p \in Tried(run[j].log)
  <2>1. stopped'[p] = stopped[p] + 1
    BY <1>1, <1>5 DEF counted, Tried
  <2>2. Pending(p)' \in SUBSET (Pending(p) \union {j})
    BY <1>1, PendingChanges
  <2> QED  BY <1>1, <1>4, <2>1, <2>2, CauseKept
<1>6. CASE ~(d # "go" /\ d \in FailedStatuses /\ p \in Tried(run[j].log))
  <2>1. stopped'[p] = stopped[p]
    <3>1. stopped[p] \in Nat
      BY JobFacts
    <3>2. p \notin Tried(run[j].log) => counted(stopped, run[j].log)[p] = stopped[p]
      BY <3>1 DEF counted, Tried
    <3> QED  BY <1>1, <1>6, <3>2
  <2>2. j \notin Pending(p)'
    BY <1>1, <1>6 DEF Pending
  <2>3. Pending(p)' \in SUBSET Pending(p)
    BY <1>1, <2>2, PendingChanges
  <2> QED  BY <1>1, <1>4, <2>1, <2>3, CauseKept
<1> QED  BY <1>5, <1>6

LEMMA ApplyCause == ASSUME IInv, IInv', CInv, NEW j \in Jobs, Apply(j) PROVE CInv'
<1>1. /\ OthersSame(j) /\ pc'[j] = "record" /\ archives' = archives
      /\ history' = history /\ run' = run /\ stopped' = stopped
  BY JobFacts DEF Apply, OthersSame
<1>2. PICK ok \in BOOLEAN, applied \in BOOLEAN, verified \in BOOLEAN :
        LET st == statusAfterApply(run[j].log, ok, applied, verified)
        IN  /\ status' = [status EXCEPT ![j] = st]
            /\ failed' = IF st \in FailedStatuses THEN counted(failed, run[j].log) ELSE failed
  BY DEF Apply
<1>3. failed' = IF status'[j] \in FailedStatuses THEN counted(failed, run[j].log) ELSE failed
  BY <1>2, JobFacts
<1> SUFFICES ASSUME NEW p \in Signatures \X Classes
             PROVE  /\ IsFiniteSet(Recorded(p)') /\ IsFiniteSet(Pending(p)')
                    /\ Cardinality(Recorded(p)') + Cardinality(Pending(p)')
                         <= failed'[p] + stopped'[p]
  BY DEF CInv
<1>4. Recorded(p)' \in SUBSET Recorded(p)
  BY <1>1 DEF Recorded, Kept
<1>5. CASE status'[j] \in FailedStatuses /\ p \in Tried(run[j].log)
  <2>1. failed'[p] = failed[p] + 1
    BY <1>3, <1>5 DEF counted, Tried
  <2>2. Pending(p)' \in SUBSET (Pending(p) \union {j})
    BY <1>1, PendingChanges
  <2> QED  BY <1>1, <1>4, <2>1, <2>2, CauseKept
<1>6. CASE ~(status'[j] \in FailedStatuses /\ p \in Tried(run[j].log))
  <2>1. failed'[p] = failed[p]
    <3>1. failed[p] \in Nat
      BY JobFacts
    <3>2. p \notin Tried(run[j].log) => counted(failed, run[j].log)[p] = failed[p]
      BY <3>1 DEF counted, Tried
    <3> QED  BY <1>3, <1>6, <3>2
  <2>2. j \notin Pending(p)'
    BY <1>1, <1>6 DEF Pending
  <2>3. Pending(p)' \in SUBSET Pending(p)
    BY <1>1, <2>2, PendingChanges
  <2> QED  BY <1>1, <1>4, <2>1, <2>3, CauseKept
<1> QED  BY <1>5, <1>6

LEMMA RecordCause == ASSUME IInv, IInv', CInv, NEW j \in Jobs, Record(j) PROVE CInv'
<1> DEFINE h == run[j].before
           g == Append(h, historyEntry(h, run[j].log, status[j]))
<1>1. /\ OthersSame(j) /\ pc[j] = "record" /\ pc'[j] = "upload" /\ archives' = archives
      /\ failed' = failed /\ stopped' = stopped /\ run' = run /\ history'[j] = g
  BY JobFacts DEF Record, OthersSame
<1>2. /\ h \in History /\ numbered(h) /\ run[j].log \in SUBSET Signatures
      /\ status[j] \in FinalStatuses
  BY JobFacts
<1>3. h \in Kept
  BY <1>2, NoHistoryAssumption DEF Kept
<1> SUFFICES ASSUME NEW p \in Signatures \X Classes
             PROVE  /\ IsFiniteSet(Recorded(p)') /\ IsFiniteSet(Pending(p)')
                    /\ Cardinality(Recorded(p)') + Cardinality(Pending(p)')
                         <= failed'[p] + stopped'[p]
  BY DEF CInv
<1> DEFINE k == status[j] \in FailedStatuses /\ p \in Tried(run[j].log)
           X == IF k THEN {Len(h) + 1} ELSE {}
<1>4. Failures(g, p) = Failures(h, p) \union X
  <2>1. /\ k => Failures(g, p) = Failures(h, p) \union {Len(h) + 1}
        /\ ~k => Failures(g, p) = Failures(h, p)
    BY <1>2, FailuresOfAppend
  <2> HIDE DEF g, h, k
  <2> QED  BY <2>1
<1>5. k <=> j \in Pending(p)
  BY <1>1 DEF Pending
<1>6. \A f \in Kept : Failures(f, p) \in SUBSET Recorded(p)
  BY DEF Recorded
<1>7. Recorded(p)' \in SUBSET (Recorded(p) \union X)
  <2> HIDE DEF g, h, X
  <2>1. \A f \in Kept' : f \in Kept \/ f = g
    BY <1>1 DEF Kept, OthersSame
  <2>2. \A f \in Kept' : Failures(f, p) \in SUBSET (Recorded(p) \union X)
    BY <1>3, <1>4, <1>6, <2>1
  <2> QED  BY <2>2, RecordedFrom
<1>8. Pending(p)' \in SUBSET (Pending(p) \ {j})
  BY <1>1, PendingChanges
<1> HIDE DEF h
<1>9. CASE k
  BY <1>1, <1>5, <1>7, <1>8, <1>9, CauseKept
<1>10. CASE ~k
  <2>1. Recorded(p)' \in SUBSET Recorded(p) /\ Pending(p)' \in SUBSET Pending(p)
    BY <1>7, <1>8, <1>10
  <2> QED  BY <1>1, <2>1, CauseKept
<1> QED  BY <1>9, <1>10

\* A run that ends leaves no history in its workspace.
LEMMA EndCause ==
    ASSUME IInv, IInv', CInv, NEW j \in Jobs, Discard(j), failed' = failed, stopped' = stopped,
           \A i \in DOMAIN archives' : \/ archives'[i].history = history[j]
                                       \/ \E k \in DOMAIN archives : archives'[i] = archives[k]
    PROVE  CInv'
<1>1. /\ OthersSame(j) /\ pc'[j] = "idle" /\ history'[j] = NoHistory /\ run'[j].before = << >>
  BY JobFacts DEF Discard, OthersSame, Idle
<1>2. \A h \in Kept' : h \in Kept \/ h = << >>
  BY <1>1 DEF Kept, OthersSame
<1>3. \A p \in Signatures \X Classes : Pending(p)' \in SUBSET Pending(p)
  BY <1>1, PendingChanges
<1> QED  BY <1>2, <1>3, QuietCause

LEMMA UploadCause == ASSUME IInv, IInv', CInv, NEW j \in Jobs, Upload(j) PROVE CInv'
<1> DEFINE x == [run_id |-> run[j].id, history |-> history[j]]
<1>1. /\ Discard(j) /\ failed' = failed /\ stopped' = stopped
      /\ archives' = Uploaded(x, archives) /\ pc[j] = "upload"
  BY DEF Upload, Uploaded
<1>2. ci \in Seq(Dispatch) /\ run[j].id \in DOMAIN ci
  BY <1>1 DEF IInv, TypeOK, Active
<1>3. x \in Archive /\ (x.history # NoHistory => numbered(x.history))
  <2>1. run[j].id \in Nat \ {0}
    BY <1>2, SequenceFacts
  <2>2. history[j] \in History \union {NoHistory}
    BY DEF IInv, TypeOK
  <2> QED  BY <2>1, <2>2 DEF Archive, IInv, RunsNumbered
<1>4. x.history = history[j]
  OBVIOUS
<1> HIDE DEF x
<1>5. \A i \in DOMAIN archives' : \/ archives'[i].history = history[j]
                                  \/ \E k \in DOMAIN archives : archives'[i] = archives[k]
  BY <1>1, <1>3, <1>4, ArchiveKeeps
<1> QED  BY <1>1, <1>5, EndCause

LEMMA StepFailsCause == ASSUME IInv, IInv', CInv, NEW j \in Jobs, StepFails(j) PROVE CInv'
<1>1. /\ OthersSame(j) /\ pc'[j] = "upload" /\ archives' = archives /\ history' = history
      /\ run' = run /\ failed' = failed /\ stopped' = stopped
  BY JobFacts DEF StepFails, OthersSame
<1>2. \A h \in Kept' : h \in Kept \/ h = << >>
  BY <1>1 DEF Kept
<1>3. \A p \in Signatures \X Classes : Pending(p)' \in SUBSET Pending(p)
  BY <1>1, PendingChanges
<1> QED  BY <1>1, <1>2, <1>3, QuietCause

LEMMA RunnerLostCause == ASSUME IInv, IInv', CInv, NEW j \in Jobs, RunnerLost(j) PROVE CInv'
<1>1. Discard(j) /\ failed' = failed /\ stopped' = stopped /\ archives' = archives
  BY DEF RunnerLost
<1> QED  BY <1>1, EndCause

LEMMA OtherRunCause == ASSUME IInv, IInv', CInv, OtherRun PROVE CInv'
<1>1. PICK r \in nextAttempts :
        /\ ci' \in begun(r)
        /\ archives' = Uploaded([run_id |-> r, history |-> NoHistory], archives)
  BY DEF OtherRun, Uploaded
<1>2. /\ pc' = pc /\ history' = history /\ run' = run /\ status' = status
      /\ failed' = failed /\ stopped' = stopped
  BY DEF OtherRun, Uploaded
<1> DEFINE x == [run_id |-> r, history |-> NoHistory]
<1>3. x \in Archive /\ x.history = NoHistory
  <2>1. r \in Nat \ {0}
    BY <1>1, BegunFacts
  <2> QED  BY <2>1 DEF Archive
<1>4. archives' = Uploaded(x, archives)
  BY <1>1
<1> HIDE DEF x
<1>5. \A i \in DOMAIN archives' : \/ archives'[i].history = NoHistory
                                  \/ \E k \in DOMAIN archives : archives'[i] = archives[k]
  BY <1>3, <1>4, ArchiveKeeps
<1>6. \A h \in Kept' : h \in Kept \/ h = << >>
  BY <1>2, <1>5 DEF Kept
<1>7. \A p \in Signatures \X Classes : Pending(p)' \in SUBSET Pending(p)
  BY <1>2 DEF Pending
<1> QED  BY <1>2, <1>6, <1>7, QuietCause

LEMMA InitCause == Init => CInv
<1> SUFFICES ASSUME Init, NEW p \in Signatures \X Classes
             PROVE  /\ IsFiniteSet(Recorded(p)) /\ IsFiniteSet(Pending(p))
                    /\ Cardinality(Recorded(p)) + Cardinality(Pending(p))
                         <= failed[p] + stopped[p]
  BY DEF CInv
<1>1. \A h \in Kept : h = << >>
  BY DEF Init, Kept, Idle
<1>2. Recorded(p) = {}
  BY <1>1, FailuresOfNone DEF Recorded
<1>3. Pending(p) = {}
  BY DEF Init, Pending
<1>4. failed[p] = 0 /\ stopped[p] = 0
  BY DEF Init, None
<1>5. IsFiniteSet({}) /\ Cardinality({}) = 0
  BY FS_EmptySet
<1> QED  BY <1>2, <1>3, <1>4, <1>5

LEMMA CauseInductive == IInv /\ IInv' /\ CInv /\ [Next]_vars => CInv'
<1> SUFFICES ASSUME IInv, IInv', CInv, [Next]_vars PROVE CInv'
  OBVIOUS
<1>1. CASE OtherRun
  BY <1>1, OtherRunCause
<1>2. CASE \E j \in Jobs : \/ Checkout(j) \/ Hydrate(j) \/ Decide(j) \/ Apply(j) \/ Record(j)
                           \/ Upload(j) \/ StepFails(j) \/ RunnerLost(j)
  BY <1>2, CheckoutCause, HydrateCause, DecideCause, ApplyCause, RecordCause,
     UploadCause, StepFailsCause, RunnerLostCause
<1>3. CASE UNCHANGED vars
  BY <1>3 DEF vars, CInv, Recorded, Kept, Pending
<1> QED  BY <1>1, <1>2, <1>3 DEF Next

\* What blocks a run is on record, and everything on record happened.
LEMMA BlockedHasCause == IInv /\ CInv => BlockedForCause
<1> SUFFICES ASSUME IInv, CInv, NEW j \in Jobs,
                    evaluateRepeatRemediationPolicy(readHistoryArtifact(j), run[j].log)
                      = "blocked_repeat_failure"
             PROVE  \E p \in run[j].log \X repairClasses(run[j].log) :
                      failed[p] + stopped[p] >= failedAttemptThreshold
  BY DEF BlockedForCause
<1> DEFINE h == readHistoryArtifact(j)
           log == run[j].log
<1>1. failedTooOften(h, log)
  BY DEF evaluateRepeatRemediationPolicy
<1>2. PICK s \in log, c \in repairClasses(log) :
        Cardinality(repeatedFailures(h, s, c)) >= failedAttemptThreshold
  BY <1>1 DEF failedTooOften
<1> DEFINE p == <<s, c>>
<1>3. log \in SUBSET Signatures /\ repairClasses(log) \in SUBSET Classes
  BY JobFacts DEF repairClasses, tasks, Classes
<1>4. p \in log \X repairClasses(log) /\ p \in Signatures \X Classes
  BY <1>2, <1>3
<1>5. Count(h, p) >= 2
  BY <1>2 DEF Count, Failures, failedAttemptThreshold
<1>6. h = << >> \/ h \in Kept
  BY DEF readHistoryArtifact, Kept
<1>7. h # << >>
  BY <1>5, FailuresOfNone
<1> HIDE DEF h, p, log
<1>8. Failures(h, p) \in SUBSET Recorded(p)
  BY <1>6, <1>7 DEF Recorded
<1>9. /\ IsFiniteSet(Recorded(p)) /\ IsFiniteSet(Pending(p))
      /\ Cardinality(Recorded(p)) + Cardinality(Pending(p)) <= failed[p] + stopped[p]
  BY <1>4 DEF CInv
<1>10. /\ Cardinality(Recorded(p)) \in Nat /\ Cardinality(Pending(p)) \in Nat
       /\ Count(h, p) \in Nat /\ Count(h, p) <= Cardinality(Recorded(p))
  BY <1>8, <1>9, FS_Subset, FS_CardinalityType DEF Count
<1>11. failed[p] \in Nat /\ stopped[p] \in Nat
  BY <1>4, JobFacts
<1>12. failed[p] + stopped[p] >= failedAttemptThreshold
  BY <1>5, <1>9, <1>10, <1>11 DEF failedAttemptThreshold
<1> QED  BY <1>4, <1>12 DEF log

\* A run is blocked for repeated failure only if two runs really ended without repair for one
\* of its signatures and repair classes, however the archives that hold them repeat and
\* contradict one another (mergeRemediationHistoryArtifacts, countRepeatedFailures).
THEOREM BlockedWithCause == Spec => []BlockedForCause
<1> QED  BY InitGood, Inductive, InitCause, CauseInductive, BlockedHasCause, PTL DEF Spec
=============================================================================
