------------------------- MODULE MCLifelineInterop -------------------------
(* Small instances of LifelineInterop for TLC. *)
EXTENDS LifelineInterop, TLC

CONSTANTS p1, p2

ProcSymmetry == Permutations({p1, p2})
=============================================================================
