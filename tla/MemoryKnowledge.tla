-------------------------- MODULE MemoryKnowledge ---------------------------
(***************************************************************************)
(* The repository's promoted knowledge: one file per kind under            *)
(* .playbook/memory/knowledge, changed by `memory promote` and `memory     *)
(* retire` (cli/src/commands/memory.ts) and by the engine's supersede and  *)
(* prune (engine/src/memory/knowledge.ts), which no command calls yet.     *)
(* Every operation reads a whole file, computes the new entries in memory  *)
(* and writes the whole file back; operations of two processes may overlap *)
(* and each may crash.                                                     *)
(*                                                                         *)
(* A knowledge id is a hash of candidate and fingerprint, prefixed with    *)
(* the kind, so that the candidate itself stands for it: promoting a       *)
(* candidate twice makes two entries with one id.  An entry's fingerprint  *)
(* and kind are its candidate's.                                           *)
(***************************************************************************)
EXTENDS Naturals, Sequences

CONSTANTS
    Procs,          \* processes that may overlap
    Candidates,     \* replay candidates
    kindOf,         \* kind of a candidate
    fpOf,           \* fingerprint of a candidate
    KindOrder,      \* the knowledge kinds, in the order their files are visited
    None,           \* no candidate
    MaxCommands,    \* bound on operations
    MaxCrashes      \* bound on crashes

Kinds == {KindOrder[n] : n \in 1..Len(KindOrder)}

ASSUME MemoryConstants ==
    /\ None \notin Candidates
    /\ KindOrder \in Seq(STRING) /\ Len(KindOrder) > 0
    /\ kindOf \in [Candidates -> Kinds \union {"open_question"}]
    /\ DOMAIN fpOf = Candidates
    /\ MaxCommands \in Nat /\ MaxCrashes \in Nat

Entry == [id : Candidates, at : Nat, status : {"active", "superseded", "retired"},
          supersedes : SUBSET Candidates, supersededBy : SUBSET Candidates]

Operations == {"promote", "retire", "supersede", "prune"}

Memory == [op : Operations \union {"none"}, id : Candidates \union {None},
           by : Candidates \union {None}, entries : SUBSET Entry,
           visiting : Nat, pruned : BOOLEAN]

Blank == [op |-> "none", id |-> None, by |-> None, entries |-> {}, visiting |-> 1,
          pruned |-> FALSE]

VARIABLES
    candidates,     \* .playbook/memory/candidates.json
    knowledge,      \* the knowledge file of every kind, as a set: files are kept sorted
    clock,          \* later than every timestamp taken so far
    pc, mem,
    commands, crashes

vars == <<candidates, knowledge, clock, pc, mem, commands, crashes>>

Init ==
    /\ candidates = Candidates
    /\ knowledge = [k \in Kinds |-> {}]
    /\ clock = 0
    /\ pc = [p \in Procs |-> "idle"] /\ mem = [p \in Procs |-> Blank]
    /\ commands = 0 /\ crashes = 0

At(p, step)      == pc[p] = step
Goto(p, step, m) == pc' = [pc EXCEPT ![p] = step] /\ mem' = [mem EXCEPT ![p] = m]
End(p)           == Goto(p, "idle", Blank)

-----------------------------------------------------------------------------
(* What each operation makes of the entries it read. *)

\* Mutant: every kind goes to one file.
resolvesToOneFile(c) == KindOrder[1]

\* resolveKnowledgePath: the file that holds a candidate's knowledge.
resolveKnowledgePath(c) == kindOf[c]

withId(entries, c) == {e \in entries : e.id = c}

\* Mutant: the entry promoted first is found first.
foundEarliest(entries, c) == CHOOSE e \in withId(entries, c) :
                                \A f \in withId(entries, c) : e.at <= f.at

\* entries.find by id: files are sorted with the latest promotion first (sortEntries).
found(entries, c) == CHOOSE e \in withId(entries, c) :
                        \A f \in withId(entries, c) : f.at <= e.at

sameFingerprint(e, c) == fpOf[e.id] = fpOf[c]

matchingActive(entries, c) == {e \in entries : sameFingerprint(e, c) /\ e.status = "active"}

superseded(e, c) == [e EXCEPT !.status = "superseded", !.supersededBy = @ \union {c}]

\* Mutant: only an active entry of the same candidate is superseded.
afterPromoteSameCandidate(entries, c, now) ==
    LET ids == {e.id : e \in matchingActive(entries, c)} \intersect {c}
    IN {IF e.id \in ids THEN superseded(e, c) ELSE e : e \in entries}
       \union {[id |-> c, at |-> now, status |-> "active", supersedes |-> ids,
                supersededBy |-> {}]}

\* promoteMemoryCandidate: every entry with the id of an active one is superseded, retired
\* entries with that id included.
afterPromote(entries, c, now) ==
    LET ids == {e.id : e \in matchingActive(entries, c)}
    IN {IF e.id \in ids THEN superseded(e, c) ELSE e : e \in entries}
       \union {[id |-> c, at |-> now, status |-> "active", supersedes |-> ids,
                supersededBy |-> {}]}

\* retirePromotedKnowledge
afterRetire(entries, c) ==
    {IF e.id = c THEN [e EXCEPT !.status = "retired"] ELSE e : e \in entries}

\* Mutant: the successor is not told.
afterSupersedeOneSided(entries, c, by) ==
    {IF e.id = c THEN superseded(e, by) ELSE e : e \in entries}

\* supersedePromotedKnowledge: an entry may supersede itself, which only marks it superseded.
afterSupersede(entries, c, by) ==
    {CASE e.id = c  -> superseded(e, by)
       [] e.id = by /\ by # c -> [e EXCEPT !.supersedes = @ \union {c}]
       [] OTHER     -> e : e \in entries}

withoutSuperseded(entries) == {e \in entries : e.status # "superseded" /\ e.supersededBy = {}}

\* Mutant: the earliest promotion of a fingerprint is kept.
collapseToEarliest(entries) ==
    {e \in entries : \A f \in entries : sameFingerprint(f, e.id) => e.at <= f.at}

\* collapseByFingerprint: of the entries with one fingerprint the latest promotion is kept.
collapseByFingerprint(entries) ==
    {e \in entries : \A f \in entries : sameFingerprint(f, e.id) => f.at <= e.at}

afterPrune(entries) == collapseByFingerprint(withoutSuperseded(entries))

-----------------------------------------------------------------------------
(* Operations. *)

Start(p) ==
    /\ At(p, "idle") /\ commands < MaxCommands
    /\ \/ \E c \in Candidates, op \in {"promote", "retire"} :
            Goto(p, "read", [Blank EXCEPT !.op = op, !.id = c])
       \/ \E c, by \in Candidates :
            Goto(p, "read", [Blank EXCEPT !.op = "supersede", !.id = c, !.by = by])
       \/ Goto(p, "candidates", [Blank EXCEPT !.op = "prune"])
    /\ commands' = commands + 1
    /\ UNCHANGED <<candidates, knowledge, clock, crashes>>

\* A candidate ensureCandidateComplete accepts; an open question is not promoted.
promotable(c) == c \in candidates /\ kindOf[c] # "open_question"

\* promoteMemoryCandidate takes its timestamp after it read the file.
ReadToPromote(p) ==
    LET c == mem[p].id IN
    /\ At(p, "read") /\ mem[p].op = "promote"
    /\ IF promotable(c)
       THEN /\ Goto(p, "write", [mem[p] EXCEPT !.entries =
                        afterPromote(knowledge[resolveKnowledgePath(c)], c, clock)])
            /\ clock' = clock + 1
       ELSE End(p) /\ UNCHANGED clock
    /\ UNCHANGED <<candidates, knowledge, commands, crashes>>

\* The entry find returns decides whether the knowledge is retired already.
retirable(entries, c) ==
    withId(entries, c) # {} /\ found(entries, c).status # "retired"

\* Only the file of the id's own kind can hold it.
ReadToRetire(p) ==
    LET c == mem[p].id IN
    /\ At(p, "read") /\ mem[p].op = "retire"
    /\ IF kindOf[c] \in Kinds /\ retirable(knowledge[resolveKnowledgePath(c)], c)
       THEN Goto(p, "write", [mem[p] EXCEPT !.entries =
                    afterRetire(knowledge[resolveKnowledgePath(c)], c)])
       ELSE End(p)
    /\ UNCHANGED <<candidates, knowledge, clock, commands, crashes>>

\* Unknown ids and ids of two kinds are errors.
ReadToSupersede(p) ==
    LET c == mem[p].id  by == mem[p].by IN
    /\ At(p, "read") /\ mem[p].op = "supersede"
    /\ IF /\ kindOf[c] \in Kinds /\ kindOf[c] = kindOf[by]
          /\ withId(knowledge[resolveKnowledgePath(c)], c) # {}
          /\ withId(knowledge[resolveKnowledgePath(c)], by) # {}
       THEN Goto(p, "write", [mem[p] EXCEPT !.entries =
                    afterSupersede(knowledge[resolveKnowledgePath(c)], c, by)])
       ELSE End(p)
    /\ UNCHANGED <<candidates, knowledge, clock, commands, crashes>>

WriteKnowledge(p) ==
    /\ At(p, "write")
    /\ knowledge' = [knowledge EXCEPT ![resolveKnowledgePath(mem[p].id)] = mem[p].entries]
    /\ End(p)
    /\ UNCHANGED <<candidates, clock, commands, crashes>>

\* pruneMemoryKnowledge drops stale candidates, keeps the first of each fingerprint, and goes
\* on to the knowledge files.
PruneCandidates(p) ==
    /\ At(p, "candidates")
    /\ \E kept \in SUBSET candidates :
         /\ \A c, d \in kept : fpOf[c] = fpOf[d] => c = d
         /\ candidates' = kept
    /\ Goto(p, "pruneRead", mem[p])
    /\ UNCHANGED <<knowledge, clock, commands, crashes>>

NextFile(p, m) ==
    IF m.visiting < Len(KindOrder)
    THEN Goto(p, "pruneRead", [m EXCEPT !.visiting = @ + 1, !.entries = {}])
    ELSE End(p)

\* Once some file had a superseded entry, every later file is written, changed or not.
PruneRead(p) ==
    LET entries == knowledge[KindOrder[mem[p].visiting]]
        m == [mem[p] EXCEPT !.entries = afterPrune(entries),
                            !.pruned = @ \/ withoutSuperseded(entries) # entries]
    IN
    /\ At(p, "pruneRead")
    /\ IF m.pruned \/ m.entries # withoutSuperseded(entries)
       THEN Goto(p, "pruneWrite", m) ELSE NextFile(p, m)
    /\ UNCHANGED <<candidates, knowledge, clock, commands, crashes>>

PruneWrite(p) ==
    /\ At(p, "pruneWrite")
    /\ knowledge' = [knowledge EXCEPT ![KindOrder[mem[p].visiting]] = mem[p].entries]
    /\ NextFile(p, mem[p])
    /\ UNCHANGED <<candidates, clock, commands, crashes>>

Crash(p) ==
    /\ ~At(p, "idle") /\ crashes < MaxCrashes
    /\ crashes' = crashes + 1
    /\ End(p)
    /\ UNCHANGED <<candidates, knowledge, clock, commands>>

Step(p) ==
    \/ ReadToPromote(p) \/ ReadToRetire(p) \/ ReadToSupersede(p) \/ WriteKnowledge(p)
    \/ PruneCandidates(p) \/ PruneRead(p) \/ PruneWrite(p)

Next == \E p \in Procs : Start(p) \/ Step(p) \/ Crash(p)

Spec == Init /\ [][Next]_vars

-----------------------------------------------------------------------------
(* Properties. *)

\* Every entry lies in a file of its kind: promotion, retirement, supersession and pruning
\* never write an entry into another kind's file.
TypeOK ==
    /\ candidates \in SUBSET Candidates
    /\ knowledge \in [Kinds -> SUBSET Entry]
    /\ \A k \in Kinds : \A e \in knowledge[k] : kindOf[e.id] = k
    /\ clock \in Nat
    /\ pc \in [Procs -> {"idle", "read", "write", "candidates", "pruneRead", "pruneWrite"}]
    /\ mem \in [Procs -> Memory]
    /\ commands \in Nat /\ crashes \in Nat

\* A fingerprint has at most one active entry: promoting it again, from whatever candidate,
\* supersedes the one before, also when promotions overlap.
OneActive ==
    \A k \in Kinds : \A e, f \in knowledge[k] :
        e.status = "active" /\ f.status = "active" /\ sameFingerprint(e, f.id) => e = f

\* Pruning, whenever it runs, keeps every active entry: none of them is taken for superseded
\* and none is collapsed into an older or retired entry with its fingerprint.
PruneKeepsActive ==
    \A k \in Kinds : \A e \in knowledge[k] :
        e.status = "active" => e \in afterPrune(knowledge[k])

\* `memory retire` can always withdraw what is active: it looks at one entry of the id, and
\* refuses if that one is retired, yet an id may have several.
ActiveCanBeRetired ==
    \A k \in Kinds : \A e \in knowledge[k] :
        e.status = "active" => retirable(knowledge[k], e.id)

\* An entry superseded by another id finds an entry of that id, in its own file, that lists it.
SuccessorListed ==
    \A k \in Kinds : \A e \in knowledge[k] :
        /\ e.status = "superseded" => e.supersededBy # {}
        /\ \A c \in e.supersededBy \ {e.id} :
              \E f \in withId(knowledge[k], c) : e.id \in f.supersedes
=============================================================================
