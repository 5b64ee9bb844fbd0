--------------------------- MODULE MCCardServices ---------------------------
(***************************************************************************)
(* Constants for model checking CardServices: two processes, one of which  *)
(* does more than transfer; one that sleeps, for it does not meet others;  *)
(* two cards, one place for a deck device.                                 *)
(***************************************************************************)
EXTENDS CardServices, TLC

CONSTANTS p, q, c, d

Two      == {p, q}
JustP    == {p}
TwoCards == {c, d}
Either   == Permutations(TwoCards)
=============================================================================
