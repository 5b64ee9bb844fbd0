--------------------------- MODULE SlaveRequests ---------------------------
(***************************************************************************)
(* SlaveProtocol put to packets as a controller sends them, and to each of *)
(* them with one byte garbled on the line.  The packet is taken as it is   *)
(* when its last byte is in; the packet machine that collects it           *)
(* (SlaveLink) rests meanwhile.                                            *)
(***************************************************************************)
EXTENDS SlaveLink

VARIABLES pkt, garbled

RequestVars == <<pkt, garbled, vars>>

RequestInit ==
    /\ Init /\ manner = "prompt"
    /\ pkt \in {r \in Requests : ChecksumGood(r)}
    /\ garbled = FALSE

\* One byte arrives wrong; the size of the packet is still what it was.
Garble ==
    /\ ~garbled
    /\ garbled' = TRUE
    /\ \E i \in DOMAIN pkt, b \in Byte :
         /\ b # pkt[i]
         /\ i = 1 => b % 16 = pkt[1] % 16
         /\ pkt' = [pkt EXCEPT ![i] = b]
    /\ UNCHANGED vars

RequestSpec == RequestInit /\ [][Garble]_RequestVars

\* Whatever the packet, the answer is as long as its first byte says and ends
\* in its checksum, the constant NAK included (p2slave_main.c:276-463).
AnswerWellFormed ==
    LET r == Reply(pkt, deck) IN Len(r) = PktSize(r) /\ ChecksumGood(r)

\* One wrong byte, the checksum included, and the packet is refused: it is
\* neither obeyed nor shown to user space (p2slave_main.c:281-285).
GarbledRefused ==
    garbled => Reply(pkt, deck) = Nak /\ Forward(pkt, deck) = <<>>

\* The kernel and user space do not both answer for a command: what is answered
\* with data stays in the kernel, but for the status sense, which user space
\* is to see (p2slave_main.c:291-455).
OneAnswers ==
    (Forward(pkt, deck) # <<>> /\ Cmd(pkt) # StatusSense) =>
        Reply(pkt, deck) = AddChecksum(Ack)

\* Every packet gets a well formed answer, and a garbled one only that: the kernel
\* and user space do not both answer (p2slave_main.c:276-463).
OneGoodAnswer == AnswerWellFormed /\ GarbledRefused /\ OneAnswers
=============================================================================
