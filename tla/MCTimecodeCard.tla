--------------------------- MODULE MCTimecodeCard ---------------------------
(***************************************************************************)
(* Constants for model checking Timecode: two callers, a rate the card     *)
(* knows beside the one set up first and one it does not, and a validation *)
(* byte that comes round during the run; a PCI and a PCIe card, and places *)
(* for them and the test device.                                           *)
(***************************************************************************)
EXTENDS Timecode, TLC

CONSTANTS p1, p2, c1, c2

Two == {p1, p2}
Either == Permutations(Two)
SomeRates == {24, 60}

TwoCards == {c1, c2}
OnePCIe == {c2}
=============================================================================
