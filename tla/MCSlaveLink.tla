---------------------------- MODULE MCSlaveLink ----------------------------
(***************************************************************************)
(* Constants for model checking SlaveLink: a command the kernel passes on  *)
(* (play), one it answers from the deck (timecode sense) and the edit      *)
(* command that goes up with the timecode.                                 *)
(***************************************************************************)
EXTENDS SlaveLink

Play == AddChecksum(<<\h20, \h01>>)
AskTc == AddChecksum(<<\h61, \h0C, \h01>>)
Edit == AddChecksum(<<\h20, \h64>>)
AskSpeed == AddChecksum(<<\h60, \h2E>>)

Zero == <<0, 0, 0, 0>>
Smpte0 == [timecode |-> Zero, userbits |-> Zero]
At(h) ==
    [id |-> Zero, status |-> [i \in 1 .. 16 |-> 0], speed |-> <<h, 0, 0, 0>>,
     tcgen |-> Smpte0, tc |-> [timecode |-> <<h, h, h, h>>, userbits |-> Zero],
     preroll |-> Smpte0, in |-> Smpte0, out |-> Smpte0, ain |-> Smpte0, aout |-> Smpte0]

OneDeck == {At(1)}
TwoDecks == {At(1), At(2)}
Commands == {Play, AskTc}
Senses == {AskTc}
Plays == {Play, AskSpeed}
=============================================================================
