---------------------------- MODULE PacketQueue ----------------------------
(***************************************************************************)
(* What a program that has /dev/p2slave open may rely on: the packets the  *)
(* slave passes on, from the open on, each of them once and in order.      *)
(***************************************************************************)
EXTENDS Naturals, Sequences

CONSTANT Packet

VARIABLES queue, got

Init == queue = <<>> /\ got = <<>>

Push(p) == queue' = Append(queue, p) /\ UNCHANGED got

\* A read takes some of what is there, oldest first.
Read(n) ==
    /\ n \in 1 .. Len(queue)
    /\ got' = got \o SubSeq(queue, 1, n)
    /\ queue' = SubSeq(queue, n + 1, Len(queue))

\* The device is opened again.
Open == queue' = <<>> /\ UNCHANGED got

Next ==
    \/ \E p \in Packet : Push(p)
    \/ \E n \in 1 .. Len(queue) : Read(n)
    \/ Open

Spec == Init /\ [][Next]_<<queue, got>>
=============================================================================
