-------------------------- MODULE PatternPromotion --------------------------
(***************************************************************************)
(* The global pattern store: `playbook promote pattern` and `playbook      *)
(* promote pattern-retire | -demote | -recall | -supersede`                *)
(* (cli/src/commands/promote.ts) over engine/src/promotion.ts.  A command  *)
(* reads patterns.json, prepares a new artifact, writes it to the one      *)
(* staged path all of them share, copies the staged file over the          *)
(* committed one (workflowPromotion.ts) and then reads, extends and        *)
(* rewrites the log of promotion receipts.  Nothing is locked: commands of *)
(* two processes may overlap at every step, and each may crash.            *)
(***************************************************************************)
EXTENDS Naturals

CONSTANTS
    Procs,          \* command processes that may overlap
    Patterns,       \* pattern ids
    Fingerprints,   \* fingerprints of the candidates promoted
    None,           \* no successor, no fingerprint
    MaxCommands,    \* bound on commands
    MaxCrashes      \* bound on crashes

ASSUME PatternConstants ==
    /\ None \notin Patterns \union Fingerprints
    /\ MaxCommands \in Nat /\ MaxCrashes \in Nat

Lifecycle  == {"retire", "demote", "recall"}
Operations == Lifecycle \union {"promote", "supersede"}

\* A promoted pattern: superseded_by is kept until another supersede, also by a recall.
Pattern == [status : {"active", "retired", "demoted", "superseded"},
            superseded_by : Patterns \union {None}, supersedes : SUBSET Patterns,
            fp : Fingerprints]
Absent == [status |-> "absent"]
Store  == [Patterns -> Pattern \union {Absent}]

Outcomes == {"promoted", "noop", "conflict"}
Receipt  == [op : Operations, id : Patterns, outcome : Outcomes]

Memory == [op : Operations \union {"none"}, id : Patterns \union {None},
           by : Patterns \union {None}, fp : Fingerprints \union {None},
           artifact : Store, outcome : Outcomes, log : SUBSET Receipt]

NoPatterns == [i \in Patterns |-> Absent]

Blank == [op |-> "none", id |-> None, by |-> None, fp |-> None, artifact |-> NoPatterns,
          outcome |-> "noop", log |-> {}]

VARIABLES
    patterns,       \* .playbook/patterns.json
    staged,         \* staged/promotions/patterns.json
    log,            \* .playbook/promotion-receipts.json
    pc, mem,
    commands, crashes,
    overlapped      \* history: two commands were under way at the same time

vars == <<patterns, staged, log, pc, mem, commands, crashes, overlapped>>

\* Mutant: the status older versions of the store used.
NewPatternLegacy(fp) == [status |-> "promoted", superseded_by |-> None, supersedes |-> {}, fp |-> fp]

\* The record materializePatternFromCandidate makes.
NewPattern(fp) == [status |-> "active", superseded_by |-> None, supersedes |-> {}, fp |-> fp]

Exists(b, i) == b[i] # Absent

\* Patterns may have been promoted before, each with its receipt.
Init ==
    /\ patterns \in [Patterns -> {Absent} \union {NewPattern(fp) : fp \in Fingerprints}]
    /\ log = {[op |-> "promote", id |-> i, outcome |-> "promoted"] :
                 i \in {j \in Patterns : Exists(patterns, j)}}
    /\ staged = NoPatterns
    /\ pc = [p \in Procs |-> "idle"] /\ mem = [p \in Procs |-> Blank]
    /\ commands = 0 /\ crashes = 0 /\ overlapped = FALSE

At(p, step)      == pc[p] = step
Goto(p, step, m) == pc' = [pc EXCEPT ![p] = step] /\ mem' = [mem EXCEPT ![p] = m]
End(p)           == Goto(p, "idle", Blank)

-----------------------------------------------------------------------------
(* What each operation prepares. *)

withPatternConflictCheck(b, i, fp) ==
    IF ~Exists(b, i) THEN "promoted" ELSE IF b[i].fp = fp THEN "noop" ELSE "conflict"

\* materializePatternFromCandidate: a noop and a conflict leave the artifact as it was read.
materialize(b, i, fp) ==
    IF Exists(b, i) THEN b ELSE [b EXCEPT ![i] = NewPattern(fp)]

statusAfter(op) ==
    CASE op = "retire" -> "retired" [] op = "demote" -> "demoted" [] op = "recall" -> "active"

\* transitionPatternLifecycle for retire, demote and recall.
transition(b, i, op) == [b EXCEPT ![i].status = statusAfter(op)]

alreadySuperseded(b, i, j) ==
    b[i].status = "superseded" /\ b[i].superseded_by = j /\ i \in b[j].supersedes

\* Mutant: the successor is left as it is when it is active already.
supersedeOneSided(b, i, j) ==
    IF b[j].status = "active"
    THEN [b EXCEPT ![i].status = "superseded", ![i].superseded_by = j]
    ELSE [b EXCEPT ![i].status = "superseded", ![i].superseded_by = j,
                   ![j].status = "active", ![j].supersedes = @ \union {i}]

\* transitionPatternLifecycle for supersede: a retired or demoted successor becomes active.
supersede(b, i, j) ==
    [b EXCEPT ![i].status = "superseded", ![i].superseded_by = j,
              ![j].status = IF @ \in {"retired", "demoted"} THEN "active" ELSE @,
              ![j].supersedes = @ \union {i}]

-----------------------------------------------------------------------------
(* Commands. *)

Start(p) ==
    /\ At(p, "idle") /\ commands < MaxCommands
    /\ \E op \in Operations, i \in Patterns :
       \E by \in IF op = "supersede" THEN Patterns ELSE {None},
          fp \in IF op = "promote" THEN Fingerprints ELSE {None} :
         Goto(p, "read", [Blank EXCEPT !.op = op, !.id = i, !.by = by, !.fp = fp])
    /\ commands' = commands + 1
    /\ overlapped' = (overlapped \/ \E q \in Procs : ~At(q, "idle"))
    /\ UNCHANGED <<patterns, staged, log, crashes>>

Prepare(p, artifact, outcome) ==
    Goto(p, "stage", [mem[p] EXCEPT !.artifact = artifact, !.outcome = outcome])

PreparePromote(p) ==
    LET m == mem[p] IN
    /\ At(p, "read") /\ m.op = "promote"
    /\ Prepare(p, materialize(patterns, m.id, m.fp),
               withPatternConflictCheck(patterns, m.id, m.fp))
    /\ UNCHANGED <<patterns, staged, log, commands, crashes, overlapped>>

PrepareTransition(p) ==
    LET m == mem[p] IN
    /\ At(p, "read") /\ m.op \in Lifecycle
    /\ IF ~Exists(patterns, m.id) THEN End(p)
       ELSE IF patterns[m.id].status = statusAfter(m.op) THEN Prepare(p, patterns, "noop")
       ELSE Prepare(p, transition(patterns, m.id, m.op), "promoted")
    /\ UNCHANGED <<patterns, staged, log, commands, crashes, overlapped>>

\* A pattern that does not exist, or is its own successor, is an error.
PrepareSupersede(p) ==
    LET m == mem[p] IN
    /\ At(p, "read") /\ m.op = "supersede"
    /\ IF ~Exists(patterns, m.id) \/ m.id = m.by \/ ~Exists(patterns, m.by) THEN End(p)
       ELSE IF alreadySuperseded(patterns, m.id, m.by) THEN Prepare(p, patterns, "noop")
       ELSE Prepare(p, supersede(patterns, m.id, m.by), "promoted")
    /\ UNCHANGED <<patterns, staged, log, commands, crashes, overlapped>>

\* stageWorkflowArtifact: noops and conflicts are staged and committed too.
Stage(p) ==
    /\ At(p, "stage")
    /\ staged' = mem[p].artifact
    /\ Goto(p, "commit", mem[p])
    /\ UNCHANGED <<patterns, log, commands, crashes, overlapped>>

\* promoteWorkflowArtifact copies what the staged path holds by now.
Commit(p) ==
    /\ At(p, "commit")
    /\ patterns' = staged
    /\ Goto(p, "logRead", mem[p])
    /\ UNCHANGED <<staged, log, commands, crashes, overlapped>>

ReadLog(p) ==
    /\ At(p, "logRead")
    /\ Goto(p, "logWrite", [mem[p] EXCEPT !.log = log])
    /\ UNCHANGED <<patterns, staged, log, commands, crashes, overlapped>>

\* Mutant: the receipt replaces every earlier one of its pattern.
receiptsKeyedByTarget(entries, receipt) == {x \in entries : x.id # receipt.id} \union {receipt}

\* The receipt replaces an equal one: receipt_id is a hash of its other fields.
withReceipt(entries, receipt) == entries \union {receipt}

\* emitPromotionReceipt
WriteLog(p) ==
    LET m == mem[p] IN
    /\ At(p, "logWrite")
    /\ log' = withReceipt(m.log, [op |-> m.op, id |-> m.id, outcome |-> m.outcome])
    /\ End(p)
    /\ UNCHANGED <<patterns, staged, commands, crashes, overlapped>>

Crash(p) ==
    /\ ~At(p, "idle") /\ crashes < MaxCrashes
    /\ crashes' = crashes + 1
    /\ End(p)
    /\ UNCHANGED <<patterns, staged, log, commands, overlapped>>

Step(p) ==
    \/ PreparePromote(p) \/ PrepareTransition(p) \/ PrepareSupersede(p)
    \/ Stage(p) \/ Commit(p) \/ ReadLog(p) \/ WriteLog(p)

Next == \E p \in Procs : Start(p) \/ Step(p) \/ Crash(p)

Spec == Init /\ [][Next]_vars

-----------------------------------------------------------------------------
(* Properties. *)

\* Patterns and receipts have the shape their schemas give them, committed, staged and in
\* the memory of every command.
TypeOK ==
    /\ patterns \in Store /\ staged \in Store /\ log \in SUBSET Receipt
    /\ pc \in [Procs -> {"idle", "read", "stage", "commit", "logRead", "logWrite"}]
    /\ mem \in [Procs -> Memory]
    /\ commands \in Nat /\ crashes \in Nat /\ overlapped \in BOOLEAN

\* Every pattern that names a successor finds it in the same store, listing it under supersedes;
\* a superseded pattern names one.
Linked(b) ==
    \A i \in Patterns : Exists(b, i) =>
        /\ b[i].superseded_by # None =>
             /\ Exists(b, b[i].superseded_by)
             /\ i \in b[b[i].superseded_by].supersedes
        /\ b[i].status = "superseded" => b[i].superseded_by # None
        /\ \A j \in b[i].supersedes : j # i /\ Exists(b, j)

\* The committed store is linked in both directions, however commands overlap on the staged
\* path and wherever they crash: readers may follow superseded_by without checking.
SupersessionLinked == Linked(patterns)

\* docs/commands/promote.md: promotion "remains auditable through a deterministic receipt log".
\* As long as no two commands overlapped and none crashed, the log explains every pattern: the
\* promotion that made it, and for a status other than active the transition that set it.
Auditable ==
    (~overlapped /\ crashes = 0 /\ \A p \in Procs : At(p, "idle")) =>
      \A i \in {j \in Patterns : Exists(patterns, j)} :
        LET promoted(op) == [op |-> op, id |-> i, outcome |-> "promoted"] \in log IN
        /\ promoted("promote")
        /\ patterns[i].status = "retired" => promoted("retire")
        /\ patterns[i].status = "demoted" => promoted("demote")
        /\ patterns[i].status = "superseded" => promoted("supersede")

=============================================================================
