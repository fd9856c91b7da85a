------------------------ MODULE MCManagedExecution ------------------------
(* Small instances of ManagedExecution for TLC. *)
EXTENDS ManagedExecution, TLC

CONSTANTS p1, p2

PlanOf(lanes, eligible, receipts, caps, rev) ==
    [lanes |-> lanes, eligible |-> eligible, unresolved |-> {}, receipts |-> receipts,
     caps |-> caps, rev |-> rev]

\* Two executable plans for the same workset, one of which needs a worker fragment
\* and a capability, and one plan with a blocked lane.
PlanA == PlanOf({1, 2}, {1, 2}, {}, {}, 0)
PlanB == PlanOf({1, 2}, {1, 2}, {"fragment"}, {"cap"}, 1)
PlanC == PlanOf({1, 2}, {1}, {}, {}, 2)
PlanD == PlanOf({1}, {1}, {}, {}, 3)

ThreePlans == {PlanA, PlanB, PlanC}
SmallPlan  == {PlanD}
TwoPlans   == {PlanA, PlanD}

\* Run ids are a truncated hash: distinct for distinct plans, or two of them collide.
DistinctRunIds == [pl \in Plans |-> pl.rev]
CollidingRunIds == [pl \in Plans |-> IF pl = PlanB THEN PlanA.rev ELSE pl.rev]

ProcSymmetry == Permutations({p1, p2})
=============================================================================
