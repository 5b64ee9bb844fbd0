--------------------------- MODULE MCSlaveBuffer ---------------------------
(***************************************************************************)
(* Constants for model checking SlaveBuffer: a ring of three slots, twice  *)
(* as many packets as it has slots, two processes that may read it one     *)
(* after the other or side by side.                                        *)
(***************************************************************************)
EXTENDS SlaveBuffer

CONSTANTS f1, f2

Two  == {f1, f2}
Some == {1, 4}
\* Several readers with packets to spare; an open meanwhile with one reader.
Cases == {{}, {"overflow"}, {"overflow", "sharing"}, {"openMeanwhile"}}
=============================================================================
