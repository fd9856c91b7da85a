------------------------ MODULE MCLaneOrchestration ------------------------
(* Small instances of LaneOrchestration for TLC. *)
EXTENDS LaneOrchestration, TLC

CONSTANTS p1, p2

\* A workset in which every lane is ready for a worker and has a surface of its own.
Plain(level, tasks) ==
    [lanes |-> DOMAIN level, level |-> level, worker_ready |-> DOMAIN level,
     conflicts |-> {}, stage |-> [l \in DOMAIN level |-> "not_applicable"],
     blocked_tasks |-> FALSE, surfaces |-> [l \in DOMAIN level |-> {l}],
     tasks |-> [l \in DOMAIN level |-> tasks]]

Flat   == Plain([l \in Lanes |-> "low"], "t1")
Chain  == Plain([l \in Lanes |-> IF l = 1 THEN "low" ELSE IF l = 2 THEN "medium" ELSE "high"], "t1")
Replan == [Chain EXCEPT !.tasks = [l \in Lanes |-> "t2"]]
Guarded == [Chain EXCEPT !.stage[1] = "pending", !.conflicts = {2}, !.blocked_tasks = TRUE]

FlatOnly    == {Flat}
TwoWorksets == {Chain, Replan}
AllWorksets == {Chain, Guarded}

Result(l, tasks, status) ==
    [lane |-> l, tasks |-> tasks, targets |-> {l}, completion_status |-> status]

CompletedResults == {Result(l, "t1", "completed") : l \in Lanes}
AllResults == CompletedResults \union {Result(1, "t1", "in_progress"), Result(1, "t1", "blocked")}

\* Some order of result ids, which are hashes.
StatusRank(r) == CASE r.completion_status = "blocked" -> 0
                   [] r.completion_status = "completed" -> 1
                   [] r.completion_status = "in_progress" -> 2
SomeRank == [r \in Results |-> 10 * r.lane + StatusRank(r)]

ProcSymmetry == Permutations({p1, p2})
=============================================================================
