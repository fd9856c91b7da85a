------------------------- MODULE MCMemoryKnowledge --------------------------
(* Small instances of MemoryKnowledge for TLC. *)
EXTENDS MemoryKnowledge, TLC

CONSTANTS p1, p2, c1, c2, c3, q

\* Two candidates with one fingerprint, a third of another kind, and an open question.
MCCandidates == {c1, c2, c3, q}
MCKindOf == (c1 :> "decision") @@ (c2 :> "decision") @@ (c3 :> "pattern") @@ (q :> "open_question")
MCFpOf   == (c1 :> "f") @@ (c2 :> "f") @@ (c3 :> "f") @@ (q :> "g")

MCKindOrder == <<"decision", "pattern">>

Symm == Permutations({p1, p2}) \union Permutations({c1, c2})
=============================================================================
