-------------------------- MODULE MCSlaveRequests --------------------------
(***************************************************************************)
(* Constants for model checking SlaveRequests: every command the kernel    *)
(* answers or passes on, some it does not know, and two decks.             *)
(***************************************************************************)
EXTENDS SlaveRequests

W(n) == <<n, n + 1, n + 2, n + 3>>
T(n) == [timecode |-> W(n), userbits |-> W(n + 4)]

\* Two decks in which no two fields have a byte in common.
Deck(n) ==
    [id |-> W(n), status |-> [i \in 1 .. 16 |-> n + 3 + i], speed |-> W(n + 20),
     tcgen |-> T(n + 30), tc |-> T(n + 40), preroll |-> T(n + 50),
     in |-> T(n + 60), out |-> T(n + 70), ain |-> T(n + 80), aout |-> T(n + 90)]

Types == {\h00, \h01, \h02, \h03, \h04, \h10, \h11, \h20, \h22, \h30, \h33, \hFF}
Slices == {\h00, \h01, \h0F, \h18, \h79, \hF1}

\* Every command the kernel knows, and some it does not know.
Commands ==
    {AddChecksum(<<\h00, b>>) : b \in {\h0C, \h11}}
        \cup {AddChecksum(<<\h20, b>>) : b \in {\h00, \h01, \h64, \h65}}
        \cup {AddChecksum(<<\h60, b>>) : b \in {\h10, \h11, \h12, \h13, \h2E, \h31, \h36, \h40}}
        \cup {AddChecksum(<<\h61, b, t>>) : b \in {\h0A, \h0C}, t \in Types}
        \cup {AddChecksum(<<\h61, \h20, t>>) : t \in Slices}
        \cup {AddChecksum(<<\h44, \h14, 1, 2, 3, 4>>), AddChecksum(<<\h8F, \h00>> \o [i \in 1 .. 15 |-> 255])}

TwoDecks == {Deck(0), Deck(128)}
=============================================================================
