--------------------------- MODULE MCStoryBacklog ---------------------------
(* Small instances of StoryBacklog for TLC. *)
EXTENDS StoryBacklog, TLC

CONSTANTS p1, s1, r1, r2

Fleet(a, b) == (r1 :> a) @@ (r2 :> b)

\* Two repositories a step from ready; one with a prompt in each wave beside a ready one.
MCFleets == {Fleet(4, 4), Fleet(3, 5)}
=============================================================================
