------------------------- MODULE MCPatternPromotion -------------------------
(* Small instances of PatternPromotion for TLC. *)
EXTENDS PatternPromotion, TLC

CONSTANTS p1, p2, a, b, c, f1, f2

MCProcs    == {p1, p2}
MCPatterns == {a, b, c}

Symm == Permutations(MCProcs) \union Permutations(MCPatterns) \union Permutations({f1, f2})
=============================================================================
