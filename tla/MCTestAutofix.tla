--------------------------- MODULE MCTestAutofix ----------------------------
(* Small instances of TestAutofix for TLC. *)
EXTENDS TestAutofix, TLC

CONSTANTS j1, j2, s1, s2, s3

\* Two low-risk findings of different repair classes and one that needs review.
MCKindOf == (s1 :> "snapshot_drift") @@ (s2 :> "fixture_drift") @@ (s3 :> "contract_drift")

\* Runs that may be run again, and dry runs that may not.
MCDispatches == {[override |-> TRUE, mode |-> "apply"], [override |-> FALSE, mode |-> "dry_run"]}

Symm == Permutations({j1, j2})
=============================================================================
