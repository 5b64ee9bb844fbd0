--------------------------- MODULE MCStreamPages ---------------------------
(***************************************************************************)
(* Constants for model checking StreamPages.  Divisor 2 makes speed 1 half *)
(* speed (0.5x) and speed 4 a bump of one frame in every interval (2x).    *)
(***************************************************************************)
EXTENDS StreamPages

PlayOne == {[mode |-> "Playback", pagect |-> MaxPages, chans |-> 1]}
PlayTwo == {[mode |-> "Playback", pagect |-> MaxPages, chans |-> 2]}
CapTwo  == {[mode |-> "Capture", pagect |-> MaxPages, chans |-> 2]}
\* Both directions, one after the other.
TwoChannels == PlayTwo \cup CapTwo
Mixed   == PlayOne \cup CapTwo

Careful   == {}
Careless  == {"anyPage", "anyRole", "anyChan", "emptyPop", "anyInit"}

Slow    == {1, 2}       \* 0.5x, 1x
Fast    == {1, 2, 4}    \* 0.5x, 1x, 2x
Any     == {-1, 0, 1}   \* a negative speed is taken for a huge one, 0 stands still
=============================================================================
