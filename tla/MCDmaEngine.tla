---------------------------- MODULE MCDmaEngine ----------------------------
(***************************************************************************)
(* Constants for model checking DmaEngine: pages of two words and a        *)
(* largest merged entry of two pages.  The pages of one process lie side   *)
(* by side but for the last, those of the other in reverse.                *)
(***************************************************************************)
EXTENDS DmaEngine

CONSTANTS a, b

Two == {a, b}

Layout ==
    [p \in Procs |->
        IF p = a THEN [v \in 0 .. 7 |-> IF v < 5 THEN v + 10 ELSE v + 20]
        ELSE [v \in 0 .. 7 |-> 40 - v]]

\* Within one page; from the middle of a page over four more; neither the
\* beginning nor the end on a whole word; and two that are refused, too many pages
\* and too short.
Buffers ==
    {[data |-> 8, size |-> 8, cadd |-> 0], [data |-> 12, size |-> 36, cadd |-> 64],
     [data |-> 10, size |-> 19, cadd |-> 64],
     [data |-> 8, size |-> 48, cadd |-> 0], [data |-> 16, size |-> 4, cadd |-> 0]}
=============================================================================
