---------------------------- MODULE ResumableRun ----------------------------
(***************************************************************************)
(* What `playbook execute` promises about its runs, without files, reads   *)
(* or crashes: a run belongs to a launch plan; starting it again for the   *)
(* same plan keeps every lane done so far and starting it for another plan *)
(* begins anew; lanes are done one at a time, each once; and runs are      *)
(* called mergeable only at a moment when all lanes of theirs are done.    *)
(***************************************************************************)
CONSTANTS
    Runs,       \* run ids
    Plans,      \* launch plans, records with a set of eligible lanes
    None        \* no plan

VARIABLES
    owner,      \* the plan a run belongs to
    done,       \* its lanes that are done
    mergeable   \* pairs of a run and a plan it was called mergeable for

vars == <<owner, done, mergeable>>

Init ==
    /\ owner = [r \in Runs |-> None] /\ done = [r \in Runs |-> {}]
    /\ mergeable = {}

Start(r, pl) ==
    /\ owner[r] # pl
    /\ owner' = [owner EXCEPT ![r] = pl]
    /\ done' = [done EXCEPT ![r] = {}]
    /\ UNCHANGED mergeable

Complete(r, l) ==
    /\ owner[r] # None
    /\ l \in owner[r].eligible \ done[r]
    /\ done' = [done EXCEPT ![r] = @ \union {l}]
    /\ UNCHANGED <<owner, mergeable>>

Finished(r, pl) == owner[r] = pl /\ pl.eligible \subseteq done[r]

Judge ==
    /\ \A g \in mergeable' : g[1] \in Runs /\ g[2] \in Plans /\ Finished(g[1], g[2])
    /\ UNCHANGED <<owner, done>>

Next ==
    \/ \E r \in Runs, pl \in Plans : Start(r, pl) \/ \E l \in pl.eligible : Complete(r, l)
    \/ Judge

Spec == Init /\ [][Next]_vars
=============================================================================
