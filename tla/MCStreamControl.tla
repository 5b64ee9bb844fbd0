-------------------------- MODULE MCStreamControl --------------------------
(***************************************************************************)
(* Constants for model checking StreamControl: two processes, a few        *)
(* frames, triggers up to two frames ahead.                                *)
(***************************************************************************)
EXTENDS StreamControl, TLC

CONSTANTS p1, p2

Two == {p1, p2}
Either == Permutations(Two)
=============================================================================
