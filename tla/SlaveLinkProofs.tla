-------------------------- MODULE SlaveLinkProofs --------------------------
(***************************************************************************)
(* Proofs about SlaveLink, for every set of requests, every deck and FIFOs *)
(* of every size.                                                          *)
(*                                                                         *)
(* For an exchange it is enough that the bytes of an answer are members of *)
(* Octet, whatever they are; what a checksum is comes at the end.          *)
(***************************************************************************)
EXTENDS SlaveRequests, SequenceTheorems, WellFoundedInduction, TLAPS

-----------------------------------------------------------------------------
(* Sequences that move from one place to the next. *)

LEMMA NotEmpty ==
    ASSUME NEW T, NEW s \in Seq(T)
    PROVE  /\ Len(s) \in Nat
           /\ s # <<>> <=> Len(s) > 0
<1>1. Len(s) \in Nat /\ (s # <<>> => Len(s) \in Nat \ {0})
    BY EmptySeq, LenProperties
<1>2. Len(<<>>) = 0
    BY EmptySeq
<1> QED BY <1>1, <1>2

LEMMA OneMoves ==
    ASSUME NEW T, NEW a \in Seq(T), NEW b \in Seq(T), b # <<>>
    PROVE  /\ Append(a, Head(b)) \in Seq(T) /\ Tail(b) \in Seq(T)
           /\ Append(a, Head(b)) \o Tail(b) = a \o b
<1> DEFINE l == Append(a, Head(b)) \o Tail(b)
           r == a \o b
<1>1. /\ Head(b) \in T /\ Tail(b) \in Seq(T) /\ Len(Tail(b)) = Len(b) - 1
      /\ \A i \in 1 .. Len(Tail(b)) : Tail(b)[i] = b[i + 1]
      /\ Head(b) = b[1]
    BY HeadTailProperties
<1>2. Len(a) \in Nat /\ Len(b) \in Nat /\ Len(b) > 0
    BY NotEmpty
<1>3. /\ Append(a, Head(b)) \in Seq(T) /\ Len(Append(a, Head(b))) = Len(a) + 1
      /\ \A i \in 1 .. Len(a) + 1 : Append(a, Head(b))[i] = IF i <= Len(a) THEN a[i] ELSE b[1]
    BY <1>1, <1>2
<1>4. /\ l \in Seq(T) /\ Len(l) = Len(a) + Len(b)
      /\ \A i \in 1 .. Len(a) + Len(b) :
             l[i] = IF i <= Len(a) + 1 THEN Append(a, Head(b))[i] ELSE Tail(b)[i - (Len(a) + 1)]
    BY <1>1, <1>2, <1>3, ConcatProperties
<1>5. /\ r \in Seq(T) /\ Len(r) = Len(a) + Len(b)
      /\ \A i \in 1 .. Len(a) + Len(b) : r[i] = IF i <= Len(a) THEN a[i] ELSE b[i - Len(a)]
    BY ConcatProperties
<1>6. ASSUME NEW i \in 1 .. Len(a) + Len(b) PROVE l[i] = r[i]
    <2>1. CASE i <= Len(a)
        BY <1>2, <1>3, <1>4, <1>5, <2>1
    <2>2. CASE i = Len(a) + 1
        BY <1>2, <1>3, <1>4, <1>5, <2>2
    <2>3. CASE i > Len(a) + 1
        <3>1. l[i] = Tail(b)[i - (Len(a) + 1)] /\ r[i] = b[i - Len(a)]
            BY <1>2, <1>4, <1>5, <2>3
        <3>2. i - (Len(a) + 1) \in 1 .. Len(Tail(b)) /\ (i - (Len(a) + 1)) + 1 = i - Len(a)
            BY <1>1, <1>2, <2>3
        <3> QED BY <1>1, <3>1, <3>2
    <2> QED BY <1>2, <2>1, <2>2, <2>3
<1> QED BY <1>1, <1>3, <1>4, <1>5, <1>6, SeqEqual

Regroups(a, b, c) == (a \o b) \o c = a \o (b \o c)

LEMMA Regroup ==
    ASSUME NEW T, NEW a \in Seq(T), NEW b \in Seq(T), NEW c \in Seq(T)
    PROVE  Regroups(a, b, c)
    BY ConcatAssociative DEF Regroups

\* The first n of b go to the end of a.
Moves(T, a, b, n) ==
    /\ a \o SubSeq(b, 1, n) \in Seq(T) /\ SubSeq(b, n + 1, Len(b)) \in Seq(T)
    /\ Len(a \o SubSeq(b, 1, n)) = Len(a) + n
    /\ Len(SubSeq(b, n + 1, Len(b))) = Len(b) - n
    /\ (a \o SubSeq(b, 1, n)) \o SubSeq(b, n + 1, Len(b)) = a \o b

LEMMA SomeMove ==
    ASSUME NEW T, NEW a \in Seq(T), NEW b \in Seq(T), NEW n \in 0 .. Len(b)
    PROVE  Moves(T, a, b, n)
<1>1. Len(b) \in Nat /\ \A i \in 1 .. Len(b) : b[i] \in T
    BY NotEmpty, ElementOfSeq
<1>2. SubSeq(b, 1, n) \in Seq(T) /\ Len(SubSeq(b, 1, n)) = n
    <2>1. /\ SubSeq(b, 1, n) \in Seq(T)
          /\ Len(SubSeq(b, 1, n)) = IF 1 <= n THEN n - 1 + 1 ELSE 0
        BY <1>1, SubSeqProperties
    <2> QED BY <1>1, <2>1
<1>3. SubSeq(b, n + 1, Len(b)) \in Seq(T) /\ Len(SubSeq(b, n + 1, Len(b))) = Len(b) - n
    <2>1. /\ SubSeq(b, n + 1, Len(b)) \in Seq(T)
          /\ Len(SubSeq(b, n + 1, Len(b))) = IF n + 1 <= Len(b) THEN Len(b) - (n + 1) + 1 ELSE 0
        BY <1>1, SubSeqProperties
    <2> QED BY <1>1, <2>1
<1>4. SubSeq(b, 1, n) \o SubSeq(b, n + 1, Len(b)) = b
    <2>1. SubSeq(b, 1, n) \o SubSeq(b, n + 1, Len(b)) = SubSeq(b, 1, Len(b))
        <3>1. 1 \in 1 .. Len(b) + 1 /\ n \in 1 - 1 .. Len(b) /\ Len(b) \in n .. Len(b)
            BY <1>1
        <3> QED BY <3>1, ConcatAdjacentSubSeq
    <2> QED BY <2>1, SubSeqFull
<1>5. a \o SubSeq(b, 1, n) \in Seq(T) /\ Len(a \o SubSeq(b, 1, n)) = Len(a) + n
    BY <1>2, ConcatProperties
<1>6. (a \o SubSeq(b, 1, n)) \o SubSeq(b, n + 1, Len(b)) = a \o b
    <2>1. PICK u \in Seq(T), v \in Seq(T) : u = SubSeq(b, 1, n) /\ v = SubSeq(b, n + 1, Len(b))
        BY <1>2, <1>3, Zenon
    <2>2. (a \o u) \o v = a \o (u \o v)
        BY SMTT(30), ConcatAssociative
    <2> QED BY <1>4, <2>1, <2>2, Zenon
<1> QED BY <1>3, <1>5, <1>6 DEF Moves

-----------------------------------------------------------------------------
(* Packets. *)

LEMMA ByteIsNumber == \A x \in Byte : x \in Nat
    BY DEF Byte

LEMMA Sizes ==
    ASSUME NEW p, p[1] \in Nat
    PROVE  DataSize(p) \in 0 .. 15 /\ PktSize(p) \in 3 .. 18
    BY DEF DataSize, PktSize

\* Whatever comes first decides how long the packet is.
LEMMA SealedIsPacket ==
    ASSUME NEW b, b[1] \in Nat
    PROVE  \E T : /\ AddChecksum(b) \in Seq(T) /\ AddChecksum(b) # <<>>
                  /\ Len(AddChecksum(b)) = PktSize(AddChecksum(b))
<1> DEFINE n == DataSize(b) + 2
           T == {b[i] : i \in 1 .. n} \cup {Sum8(Body(b))}
<1>1. n \in 2 .. 17
    BY Sizes
<1>2. /\ Body(b) \in Seq(T) /\ Len(Body(b)) = n
      /\ Body(b)[1] = b[1]
    <2>1. \A i \in 1 .. n : b[i] \in T
        OBVIOUS
    <2>2. /\ SubSeq(b, 1, n) \in Seq(T) /\ Len(SubSeq(b, 1, n)) = IF 1 <= n THEN n - 1 + 1 ELSE 0
          /\ \A i \in 1 .. n - 1 + 1 : SubSeq(b, 1, n)[i] = b[1 + i - 1]
        BY <1>1, <2>1, SubSeqProperties
    <2>3. SubSeq(b, 1, n)[1] = b[1 + 1 - 1]
        BY <1>1, <2>2
    <2> QED BY <1>1, <2>2, <2>3 DEF Body
<1>3. Sum8(Body(b)) \in T
    OBVIOUS
<1> HIDE DEF T, n
<1>4. /\ Append(Body(b), Sum8(Body(b))) \in Seq(T)
      /\ Len(Append(Body(b), Sum8(Body(b)))) = n + 1
      /\ Append(Body(b), Sum8(Body(b)))[1] = b[1]
    BY <1>1, <1>2, <1>3
<1>5. AddChecksum(b) \in Seq(T) /\ Len(AddChecksum(b)) = n + 1 /\ AddChecksum(b)[1] = b[1]
    BY <1>4 DEF AddChecksum
<1>6. PktSize(AddChecksum(b)) = n + 1
    BY <1>1, <1>5 DEF PktSize, DataSize, n
<1>7. AddChecksum(b) # <<>>
    BY <1>1, <1>5, NotEmpty
<1> QED BY <1>5, <1>6, <1>7

LEMMA TwoFirst ==
    ASSUME NEW x, NEW y, NEW s, NEW t, NEW T, s \in Seq(T), t \in Seq(T)
    PROVE  (<<x, y>> \o s)[1] = x /\ (<<x, y>> \o s \o t)[1] = x
<1> DEFINE U == T \cup {x, y}
<1>1. s \in Seq(U) /\ t \in Seq(U)
    BY SeqMonotonic
<1>2. <<x, y>> \in Seq(U) /\ Len(<<x, y>>) = 2 /\ <<x, y>>[1] = x
    OBVIOUS
<1> HIDE DEF U
<1>3. Len(s) \in Nat /\ Len(t) \in Nat
    BY NotEmpty
<1>4. <<x, y>> \o s \in Seq(U) /\ Len(<<x, y>> \o s) = 2 + Len(s) /\ (<<x, y>> \o s)[1] = x
    BY <1>1, <1>2, <1>3, ConcatProperties
<1>5. ((<<x, y>> \o s) \o t)[1] = (<<x, y>> \o s)[1]
    <2>1. 1 \in 1 .. Len(<<x, y>> \o s) + Len(t) /\ 1 <= Len(<<x, y>> \o s)
        BY <1>3, <1>4
    <2> QED BY <1>1, <1>4, <2>1, ConcatProperties
<1> QED BY <1>4, <1>5

LEMMA Headed ==
    ASSUME NEW s \in Seq(Byte), NEW t \in Seq(Byte)
    PROVE  \A x \in Byte, y \in Byte :
               (<<x, y>> \o s)[1] \in Nat /\ (<<x, y>> \o s \o t)[1] \in Nat
<1> SUFFICES ASSUME NEW x \in Byte, NEW y \in Byte
             PROVE  (<<x, y>> \o s)[1] \in Nat /\ (<<x, y>> \o s \o t)[1] \in Nat
    OBVIOUS
<1> DEFINE T == Byte
<1>1. s \in Seq(T) /\ t \in Seq(T) /\ x \in Nat
    BY DEF Byte
<1> HIDE DEF T
<1>2. (<<x, y>> \o s)[1] = x /\ (<<x, y>> \o s \o t)[1] = x
    BY <1>1, TwoFirst
<1> QED BY <1>1, <1>2

LEMMA WordSeq == \A w \in Word : w \in Seq(Byte)
<1> SUFFICES ASSUME NEW w \in Word PROVE w \in Seq(Byte)
    OBVIOUS
<1>1. w \in [1 .. 4 -> Byte]
    BY DEF Word
<1> HIDE DEF Byte
<1>2. w \in UNION {[1 .. n -> Byte] : n \in Nat}
    BY <1>1
<1> QED BY <1>2, SeqDef

LEMMA DeckWords ==
    ASSUME NEW d \in DeckData
    PROVE  /\ d.id \in Word /\ d.speed \in Word
           /\ \A s \in {d.tcgen, d.tc, d.preroll, d.in, d.out, d.ain, d.aout} :
                  s.timecode \in Seq(Byte) /\ s.userbits \in Seq(Byte)
<1>1. \A s \in {d.tcgen, d.tc, d.preroll, d.in, d.out, d.ain, d.aout} : s \in Smpte
    BY DEF DeckData
<1>2. \A s \in Smpte : s.timecode \in Word /\ s.userbits \in Word
    BY DEF Smpte
<1> QED BY <1>1, <1>2, WordSeq DEF DeckData

LEMMA Codes ==
    /\ \h74 \in Byte /\ \h78 \in Byte
    /\ \h00 \in Byte /\ \h04 \in Byte /\ \h05 \in Byte
    /\ \h06 \in Byte /\ \h07 \in Byte /\ \h08 \in Byte /\ \h09 \in Byte
    BY DEF Byte

\* What follows two bytes does not hide the first.
FirstStays(s) ==
    \A x \in Byte, y \in Byte : /\ (<<x, y>> \o s.timecode)[1] \in Nat
                                /\ (<<x, y>> \o s.userbits)[1] \in Nat
                                /\ (<<x, y>> \o s.timecode \o s.userbits)[1] \in Nat

LEMMA TimecodeFirst ==
    ASSUME NEW type, NEW s, FirstStays(s)
    PROVE  TcGenBody(type, s)[1] \in Nat /\ TcBody(type, s)[1] \in Nat
<1>1. Ack[1] \in Nat
    BY DEF Ack
<1>2. /\ (<<\h74, \h08>> \o s.timecode)[1] \in Nat /\ (<<\h74, \h09>> \o s.userbits)[1] \in Nat
      /\ (<<\h78, \h08>> \o s.timecode \o s.userbits)[1] \in Nat
    BY Codes, Zenon DEF FirstStays
<1>3. /\ (<<\h74, \h04>> \o s.timecode)[1] \in Nat /\ (<<\h74, \h06>> \o s.timecode)[1] \in Nat
      /\ (<<\h74, \h00>> \o s.timecode)[1] \in Nat
    BY Codes, Zenon DEF FirstStays
<1>4. (<<\h74, \h05>> \o s.userbits)[1] \in Nat /\ (<<\h74, \h07>> \o s.userbits)[1] \in Nat
    BY Codes, Zenon DEF FirstStays
<1>5. /\ (<<\h78, \h04>> \o s.timecode \o s.userbits)[1] \in Nat
      /\ (<<\h78, \h06>> \o s.timecode \o s.userbits)[1] \in Nat
    BY Codes, Zenon DEF FirstStays
<1>6. TcGenBody(type, s)[1] \in Nat
    BY <1>1, <1>2 DEF TcGenBody
<1>7. TcBody(type, s)[1] \in Nat
    <2>1. TcBody(type, s) \in
              {<<\h74, \h04>> \o s.timecode, <<\h74, \h06>> \o s.timecode, <<\h74, \h00>> \o s.timecode,
               <<\h74, \h05>> \o s.userbits, <<\h74, \h07>> \o s.userbits,
               <<\h78, \h04>> \o s.timecode \o s.userbits,
               <<\h78, \h06>> \o s.timecode \o s.userbits, Ack}
        BY DEF TcBody
    <2> QED BY <1>1, <1>3, <1>4, <1>5, <2>1, Zenon
<1> QED BY <1>6, <1>7

LEMMA ReplyBodyFirst ==
    ASSUME NEW p, p[3] \in Byte, NEW d \in DeckData
    PROVE  ReplyBody(p, d)[1] \in Nat
<1>1. ASSUME NEW type, NEW s, s.timecode \in Seq(Byte), s.userbits \in Seq(Byte)
      PROVE  TcGenBody(type, s)[1] \in Nat /\ TcBody(type, s)[1] \in Nat
    <2>1. FirstStays(s)
        BY <1>1, Headed DEF FirstStays
    <2> QED BY <2>1, TimecodeFirst
<1>2. StatusBody(p[3], d.status)[1] \in Nat
    <2> DEFINE start == p[3] \div 16
               len == p[3] % 16
               slice == SubSeq(d.status, start + 1, start + len)
    <2>1. start \in Int /\ len \in 0 .. 15
        BY DEF Byte
    <2>2. \E T : slice \in Seq(T)
        <3> DEFINE T == {d.status[i] : i \in start + 1 .. start + len}
        <3>1. \A i \in start + 1 .. start + len : d.status[i] \in T
            OBVIOUS
        <3> HIDE DEF T
        <3> QED BY <2>1, <3>1, SubSeqProperties
    <2>3. \h70 + len \in Byte /\ \h20 \in Byte
        BY <2>1 DEF Byte
    <2> HIDE DEF len, slice
    <2>4. (<<\h70 + len, \h20>> \o slice)[1] = \h70 + len
        BY <2>2, <2>3, TwoFirst
    <2> QED BY <2>3, <2>4 DEF StatusBody, slice, len, Byte
<1>3. ReplyBody(p, d)[1] \in Nat
    <2>1. \A s \in {d.in, d.out, d.ain, d.aout, d.preroll}, y \in Byte :
              (<<\h74, y>> \o s.timecode)[1] \in Nat
        <3>1. \h74 \in Byte
            BY DEF Byte
        <3> QED BY <3>1, DeckWords, Headed
    <2>2. TcGenBody(p[3], d.tcgen)[1] \in Nat /\ TcBody(p[3], d.tc)[1] \in Nat
        BY <1>1, DeckWords
    <2>3. \A y : /\ <<\h12, \h11, y, d.id[1]>>[1] \in Nat /\ <<\h71, \h2E, y>>[1] \in Nat
                 /\ <<\h71, \h36, y>>[1] \in Nat
        OBVIOUS
    <2>4. Ack[1] \in Nat
        BY DEF Ack
    <2> QED BY <1>2, <2>1, <2>2, <2>3, <2>4 DEF ReplyBody, Byte
<1> QED BY <1>3

\* Whatever is asked, the answer is as long as its first byte says.
LEMMA ReplyIsPacket ==
    ASSUME NEW p, p[3] \in Byte, NEW d \in DeckData
    PROVE  \E T : /\ Reply(p, d) \in Seq(T) /\ Reply(p, d) # <<>>
                  /\ Len(Reply(p, d)) = PktSize(Reply(p, d))
<1>1. CASE ChecksumGood(p)
    BY <1>1, ReplyBodyFirst, SealedIsPacket DEF Reply
<1>2. CASE ~ChecksumGood(p)
    <2>1. Nak \in Seq(Nat) /\ Nak # <<>> /\ Len(Nak) = PktSize(Nak)
        BY DEF Nak, PktSize, DataSize
    <2> QED BY <1>2, <2>1 DEF Reply
<1> QED BY <1>1, <1>2

-----------------------------------------------------------------------------
(* The invariant. *)

\* What a byte on its way to the controller may be.
Octet == Byte \cup {Reply(p, d)[i] : p \in Seq(Byte), d \in Decks, i \in Nat}

LinkTyped ==
    /\ pktin \in Seq(Byte) /\ rx \in Seq(Byte) /\ line \in Seq(Byte)
    /\ pktout \in Seq(Octet) /\ tx \in Seq(Octet) /\ heard \in Seq(Octet)
    /\ Len(tx) <= TxRoom
    /\ state \in {"Rx", "Tx"} /\ deck \in Decks /\ seen \subseteq Decks
    /\ asked \in Requests \cup {<<>>}

\* What user space gets of a request.
Passed(d) == IF Forward(asked, d) = <<>> THEN <<>> ELSE <<Forward(asked, d)>>

\* A clean exchange: at first what was asked is spread over the packet, the FIFO
\* and the line; then the answer is spread over the FIFO and what is left to send.
Collecting ==
    /\ state = "Rx" /\ heard = <<>> /\ tx = <<>> /\ pushed = <<>>
    /\ pktin \o rx \o line = asked
    /\ deck \in seen

Answering ==
    /\ line = <<>> /\ rx = <<>>
    /\ \E d \in seen : heard \o tx \o pktout = Reply(asked, d) /\ pushed = Passed(d)

Exchange == Clean => Collecting \/ Answering

LinkInv == LinkTyped /\ InputBounded /\ Exchange

LEMMA ReplyType ==
    ASSUME NEW p \in Seq(Byte), Len(p) >= 3, NEW d \in Decks
    PROVE  /\ Reply(p, d) \in Seq(Octet) /\ Reply(p, d) # <<>>
           /\ Len(Reply(p, d)) = PktSize(Reply(p, d))
<1>1. Len(p) \in Nat /\ 3 \in 1 .. Len(p)
    BY NotEmpty
<1>2. p[3] \in Byte
    BY <1>1, ElementOfSeq
<1>3. d \in DeckData
    BY DeckAssumption
<1> DEFINE r == Reply(p, d)
<1>4. PICK T : r \in Seq(T) /\ r # <<>> /\ Len(r) = PktSize(r)
    BY <1>2, <1>3, ReplyIsPacket
<1>5. \A i \in Nat : r[i] \in Octet
    BY DEF Octet
<1> HIDE DEF r
<1>6. Len(r) \in Nat /\ r \in [1 .. Len(r) -> T]
    BY <1>4, LenProperties
<1>7. r \in [1 .. Len(r) -> Octet]
    BY <1>5, <1>6
<1>8. r \in UNION {[1 .. n -> Octet] : n \in Nat}
    BY <1>6, <1>7
<1>9. r \in Seq(Octet)
    BY <1>8, SeqDef
<1> QED BY <1>4, <1>9 DEF r

\* The packet that starts with what was asked is what was asked.
LEMMA CompleteIsAll ==
    ASSUME NEW a \in Seq(Byte), NEW b \in Seq(Byte), a # <<>>, a \o b \in Requests, Complete(a)
    PROVE  a = a \o b /\ b = <<>>
<1>1. Len(a) \in Nat /\ Len(b) \in Nat /\ Len(a) > 0
    BY NotEmpty
<1>2. Len(a \o b) = Len(a) + Len(b) /\ (a \o b)[1] = a[1]
    BY <1>1, ConcatProperties
<1>3. Len(a \o b) = PktSize(a \o b)
    BY RequestAssumption
<1>4. PktSize(a \o b) = PktSize(a)
    BY <1>2 DEF PktSize, DataSize
<1>5. Len(a) >= PktSize(a)
    BY DEF Complete
<1>6. Len(b) = 0
    <2>1. PktSize(a) = Len(a) + Len(b)
        BY <1>2, <1>3, <1>4
    <2> QED BY <1>1, <1>5, <2>1
<1>7. b = <<>>
    BY <1>6, NotEmpty
<1> QED BY <1>7, ConcatEmptySeq

LEMMA Sending ==
    ASSUME tx \in Seq(Octet), Len(tx) <= TxRoom,
           NEW in, NEW out \in Seq(Octet), out # <<>>, NEW stamp, Transmit(in, out, stamp)
    PROVE  /\ tx' \in Seq(Octet) /\ Len(tx') <= TxRoom
           /\ pktout' \in Seq(Octet) /\ tx' \o pktout' = tx \o out
           /\ \/ state' = "Rx" /\ pktin' = <<>> /\ pktout' = <<>>
              \/ state' = "Tx" /\ pktin' = in /\ pktout' # <<>>
<1> DEFINE room == TxRoom - Len(tx)
           n == IF Len(out) <= room THEN Len(out) ELSE room
<1>1. Len(tx) \in Nat /\ Len(out) \in Nat /\ TxRoom \in Nat
    BY NotEmpty, RoomAssumption
<1>2. n \in 0 .. Len(out) /\ n <= room
    BY <1>1
<1>3. /\ tx' = tx \o SubSeq(out, 1, n)
      /\ IF n = Len(out) THEN ResetPkt
         ELSE pktout' = SubSeq(out, n + 1, Len(out)) /\ pktin' = in /\ state' = "Tx"
    BY DEF Transmit
<1> HIDE DEF n
<1>4. /\ tx \o SubSeq(out, 1, n) \in Seq(Octet) /\ SubSeq(out, n + 1, Len(out)) \in Seq(Octet)
      /\ Len(tx \o SubSeq(out, 1, n)) = Len(tx) + n
      /\ Len(SubSeq(out, n + 1, Len(out))) = Len(out) - n
      /\ (tx \o SubSeq(out, 1, n)) \o SubSeq(out, n + 1, Len(out)) = tx \o out
    <2>1. n \in 0 .. Len(out)
        BY <1>2
    <2>2. Moves(Octet, tx, out, n)
        BY <2>1, SomeMove
    <2> QED BY <2>2 DEF Moves
<1>5. tx' \in Seq(Octet) /\ Len(tx') <= TxRoom
    BY <1>1, <1>2, <1>3, <1>4
<1>6. CASE n = Len(out)
    <2>1. SubSeq(out, n + 1, Len(out)) = <<>>
        BY <1>1, <1>4, <1>6, NotEmpty
    <2>2. pktout' = <<>> /\ pktin' = <<>> /\ state' = "Rx"
        BY <1>3, <1>6 DEF ResetPkt
    <2> QED BY <1>3, <1>4, <1>5, <2>1, <2>2
<1>7. CASE n # Len(out)
    <2>1. Len(SubSeq(out, n + 1, Len(out))) # 0
        BY <1>1, <1>2, <1>4, <1>7
    <2>2. SubSeq(out, n + 1, Len(out)) # <<>>
        BY <2>1, EmptySeq
    <2> QED BY <1>3, <1>4, <1>5, <1>7, <2>2
<1> QED BY <1>6, <1>7

\* What is received is never more than the packet has room for, and the answer
\* to a complete packet is sent; the exchange is as far as it was, or answered.
LEMMA RxBytesStep ==
    ASSUME LinkInv, state = "Rx", RxBytes,
           UNCHANGED <<line, deck>>
    PROVE  LinkInv'
<1> DEFINE room == Max32 - Len(pktin)
           n == IF Len(rx) <= room THEN Len(rx) ELSE room
           in == pktin \o SubSeq(rx, 1, n)
           rest == SubSeq(rx, n + 1, Len(rx))
<1>1. /\ pktin \in Seq(Byte) /\ rx \in Seq(Byte) /\ rx # <<>> /\ line \in Seq(Byte) /\ tx \in Seq(Octet)
      /\ Len(tx) <= TxRoom /\ deck \in Decks /\ seen \subseteq Decks
      /\ pktout = <<>> /\ (pktin = <<>> \/ ~Complete(pktin))
    BY DEF LinkInv, LinkTyped, InputBounded, RxBytes
<1>2. /\ Len(pktin) \in Nat /\ Len(pktin) < 18 /\ Len(rx) \in Nat /\ Len(rx) > 0
    <2>1. Len(pktin) \in Nat /\ Len(rx) \in Nat /\ Len(rx) > 0
        BY <1>1, NotEmpty
    <2>2. CASE pktin = <<>>
        BY <2>1, <2>2, EmptySeq
    <2>3. CASE pktin # <<>>
        <3>1. 1 \in 1 .. Len(pktin)
            BY <1>1, <2>1, <2>3, NotEmpty
        <3>2. pktin[1] \in Byte
            BY <1>1, <3>1, ElementOfSeq
        <3>3. PktSize(pktin) \in 3 .. 18
            BY <3>2, Sizes DEF Byte
        <3> QED BY <1>1, <2>1, <2>3, <3>3 DEF Complete
    <2> QED BY <2>1, <2>2, <2>3
<1>3. n \in 0 .. Len(rx) /\ n > 0 /\ Len(pktin) + n <= 32
    BY <1>2 DEF Max32
<1>4. /\ rx' = rest
      /\ IF Complete(in) THEN Transmit(in, Reply(in, deck), 0) /\ PushPkt(Forward(in, deck))
         ELSE pktin' = in /\ UNCHANGED <<pktout, state, tx, pushed>>
      /\ UNCHANGED <<asked, heard, seen, line, deck>>
    BY DEF RxBytes
<1> HIDE DEF n
<1>5. /\ in \in Seq(Byte) /\ rest \in Seq(Byte) /\ Len(in) = Len(pktin) + n /\ in \o rest = pktin \o rx
    <2>1. Moves(Byte, pktin, rx, n)
        BY <1>1, <1>3, SomeMove
    <2> QED BY <2>1 DEF Moves
<1> HIDE DEF in, rest
<1>6. in # <<>> /\ Len(in) <= Max32 /\ in[1] \in Byte
    <2>1. Len(in) \in Nat /\ Len(in) > 0 /\ Len(in) <= 32
        BY <1>2, <1>3, <1>5
    <2> QED BY <1>5, <2>1, NotEmpty, ElementOfSeq DEF Max32
<1>7. Clean => Collecting /\ in \o (rest \o line) = asked
    <2> SUFFICES ASSUME Clean PROVE Collecting /\ in \o (rest \o line) = asked
        OBVIOUS
    <2>1. Collecting
        BY <1>1 DEF LinkInv, Exchange, Answering
    <2>2. Regroups(in, rest, line)
        BY <1>1, <1>5, Regroup
    <2> QED BY <1>5, <2>1, <2>2 DEF Collecting, Regroups
<1>8. CASE Complete(in)
    <2> DEFINE r == Reply(in, deck)
    <2>1. Len(in) >= 3
        <3>1. in[1] \in Nat
            BY <1>6, ByteIsNumber
        <3>2. PktSize(in) \in 3 .. 18
            BY <3>1, Sizes
        <3>3. Len(in) \in Nat
            BY <1>5, NotEmpty
        <3> QED BY <1>8, <3>2, <3>3 DEF Complete
    <2>2. r \in Seq(Octet) /\ r # <<>>
        BY <1>1, <1>5, <2>1, ReplyType
    <2>3. Transmit(in, r, 0)
        BY <1>4, <1>8
    <2> HIDE DEF r
    <2>4. /\ tx' \in Seq(Octet) /\ Len(tx') <= TxRoom
          /\ pktout' \in Seq(Octet) /\ tx' \o pktout' = tx \o r
          /\ \/ state' = "Rx" /\ pktin' = <<>> /\ pktout' = <<>>
             \/ state' = "Tx" /\ pktin' = in /\ pktout' # <<>>
        BY <1>1, <2>2, <2>3, Sending
    <2>5. LinkTyped'
        BY <1>4, <1>5, <2>4, EmptySeq DEF LinkInv, LinkTyped
    <2>6. InputBounded'
        <3>1. Len(<<>>) = 0 /\ Len(in) \in Nat
            BY <1>5, NotEmpty, EmptySeq
        <3> QED BY <1>6, <2>1, <2>4, <3>1 DEF InputBounded, Max32
    <2>7. Clean => Answering'
        <3> SUFFICES ASSUME Clean PROVE Answering'
            OBVIOUS
        <3>1. in = asked /\ rest \o line = <<>>
            <4>1. rest \o line \in Seq(Byte)
                BY <1>1, <1>5, ConcatProperties
            <4>2. in \o (rest \o line) \in Requests
                BY <1>7 DEF LinkInv, LinkTyped, Clean
            <4> QED BY <1>5, <1>6, <1>7, <1>8, <4>1, <4>2, CompleteIsAll
        <3>2. rest = <<>> /\ line = <<>>
            BY <1>1, <1>5, <3>1, ConcatEqualIffEmpty
        <3>3. heard' = <<>> /\ tx' \o pktout' = r
            BY <1>4, <1>7, <2>2, <2>4, ConcatEmptySeq DEF Collecting
        <3>4. heard' \o tx' \o pktout' = r
            BY <2>4, <3>3, ConcatEmptySeq
        <3>5. pushed' = IF Forward(asked, deck) = <<>> THEN <<>> ELSE <<Forward(asked, deck)>>
            <4>1. PushPkt(Forward(asked, deck)) /\ pushed = <<>>
                BY <1>4, <1>7, <1>8, <3>1 DEF Collecting
            <4> QED BY <4>1 DEF PushPkt
        <3>6. deck \in seen'
            BY <1>4, <1>7 DEF Collecting
        <3> QED BY <1>4, <3>1, <3>2, <3>4, <3>5, <3>6 DEF Answering, Passed, r
    <2> QED BY <1>4, <2>5, <2>6, <2>7 DEF LinkInv, Exchange, Clean
<1>9. CASE ~Complete(in)
    <2>1. LinkTyped'
        BY <1>4, <1>5, <1>9 DEF LinkInv, LinkTyped
    <2>2. InputBounded'
        BY <1>1, <1>4, <1>6, <1>9 DEF InputBounded, Complete
    <2>3. Clean => Collecting'
        <3>1. Regroups(in, rest, line)
            BY <1>1, <1>5, Regroup
        <3> QED BY <1>4, <1>7, <1>9, <3>1 DEF Collecting, Regroups
    <2> QED BY <1>4, <2>1, <2>2, <2>3 DEF LinkInv, Exchange, Clean
<1> QED BY <1>8, <1>9

\* What ends an exchange and leaves nothing in the packet.
LEMMA SpoiltStep ==
    ASSUME LinkTyped', InputBounded', Spoil
    PROVE  LinkInv'
    BY DEF LinkInv, Exchange, Clean, Spoil

LEMMA RxIrqStep ==
    ASSUME LinkInv, RxIrq
    PROVE  LinkInv'
<1>1. CASE state = "Tx" /\ UNCHANGED <<driver, rx, tx, rxError, enabled, talk>>
    BY <1>1 DEF RxIrq, LinkInv, LinkTyped, InputBounded, Exchange, Clean, Collecting, Answering,
                Passed, Complete, PktSize, DataSize, driver, talk, wire
<1>2. CASE state = "Rx" /\ RxFails
    <2>1. LinkTyped'
        BY <1>2, EmptySeq DEF RxIrq, RxFails, ResetPkt, SwitchOff, Spoil, LinkInv, LinkTyped, wire
    <2>2. InputBounded'
        BY <1>2, EmptySeq DEF RxFails, ResetPkt, InputBounded, Max32
    <2> QED BY <1>2, <2>1, <2>2, SpoiltStep DEF RxFails
<1>3. CASE state = "Rx" /\ RxBytes
    BY <1>3, RxBytesStep DEF RxIrq, wire
<1> QED BY <1>1, <1>2, <1>3 DEF RxIrq

LEMMA TxIrqStep ==
    ASSUME LinkInv, TxIrq
    PROVE  LinkInv'
<1>1. CASE state = "Tx"
    <2>1. /\ tx \in Seq(Octet) /\ Len(tx) <= TxRoom /\ pktout \in Seq(Octet) /\ pktout # <<>>
          /\ heard \in Seq(Octet)
          /\ Transmit(pktin, pktout, age) /\ Len(pktin) >= 3 /\ Len(pktin) <= Max32
          /\ UNCHANGED <<rx, line, deck, asked, heard, seen, pushed>>
        BY <1>1 DEF TxIrq, LinkInv, LinkTyped, InputBounded, wire, talk
    <2>2. /\ tx' \in Seq(Octet) /\ Len(tx') <= TxRoom
          /\ pktout' \in Seq(Octet) /\ tx' \o pktout' = tx \o pktout
          /\ \/ state' = "Rx" /\ pktin' = <<>> /\ pktout' = <<>>
             \/ state' = "Tx" /\ pktin' = pktin /\ pktout' # <<>>
        BY <2>1, Sending
    <2>3. LinkTyped'
        BY <2>1, <2>2, EmptySeq DEF LinkInv, LinkTyped
    <2>4. InputBounded'
        BY <2>1, <2>2, EmptySeq DEF InputBounded, Max32
    <2>5. ASSUME Clean PROVE Answering'
        <3>1. Answering
            BY <1>1, <2>5 DEF LinkInv, Exchange, Collecting
        <3>2. heard \o tx' \o pktout' = heard \o tx \o pktout
            <4>1. Regroups(heard, tx, pktout) /\ Regroups(heard, tx', pktout')
                BY <2>1, <2>2, Regroup
            <4> QED BY <2>2, <4>1 DEF Regroups
        <3> QED BY <2>1, <3>1, <3>2 DEF Answering, Passed
    <2> QED BY <2>1, <2>3, <2>4, <2>5 DEF LinkInv, Exchange, Clean
<1>2. CASE state # "Tx"
    BY <1>2 DEF TxIrq, LinkInv, LinkTyped, InputBounded, Exchange, Clean, Collecting, Answering,
                Passed, Complete, PktSize, DataSize, talk, wire
<1> QED BY <1>1, <1>2

LEMMA AudioWrapStep ==
    ASSUME LinkInv, AudioWrap
    PROVE  LinkInv'
<1>1. CASE TimedOut
    <2>1. LinkTyped'
        BY <1>1, EmptySeq DEF AudioWrap, ResetPkt, SwitchOff, Spoil, LinkInv, LinkTyped, wire
    <2>2. InputBounded'
        BY <1>1, EmptySeq DEF AudioWrap, ResetPkt, InputBounded, Max32
    <2> QED BY <1>1, <2>1, <2>2, SpoiltStep DEF AudioWrap
<1>2. CASE ~TimedOut
    BY <1>2 DEF AudioWrap, LinkInv, LinkTyped, InputBounded, Exchange, Clean, Collecting, Answering,
                Passed, Complete, PktSize, DataSize, talk, wire
<1> QED BY <1>1, <1>2

LEMMA ArriveStep ==
    ASSUME LinkInv, Arrive
    PROVE  LinkInv'
<1>1. /\ line \in Seq(Byte) /\ line # <<>> /\ line' = Tail(line) /\ Tail(line) \in Seq(Byte)
      /\ rx \in Seq(Byte) /\ pktin \in Seq(Byte)
      /\ UNCHANGED <<driver, deck, tx>>
    <2>1. line \in Seq(Byte) /\ line # <<>>
        BY DEF Arrive, Gone, LinkInv, LinkTyped
    <2>2. Tail(line) \in Seq(Byte)
        BY <2>1, HeadTailProperties
    <2> QED BY <2>1, <2>2 DEF Arrive, Gone, LinkInv, LinkTyped
<1>2. InputBounded'
    BY <1>1 DEF LinkInv, InputBounded, Complete, PktSize, DataSize, driver
<1>3. CASE Len(rx) < RxRoom
    <2>1. /\ Append(rx, Head(line)) \in Seq(Byte)
          /\ Append(rx, Head(line)) \o Tail(line) = rx \o line
        BY <1>1, OneMoves
    <2>2. rx' = Append(rx, Head(line)) /\ UNCHANGED talk
        BY <1>3 DEF Arrive
    <2>3. LinkTyped'
        BY <1>1, <2>1, <2>2 DEF LinkInv, LinkTyped, driver, talk
    <2>4. ASSUME Clean PROVE Collecting'
        <3>1. Collecting
            BY <1>1, <2>4 DEF LinkInv, Exchange, Answering
        <3>2. pktin \o rx' \o line' = pktin \o rx \o line
            <4>1. Regroups(pktin, rx, line) /\ Regroups(pktin, rx', line')
                BY <1>1, <2>1, <2>2, Regroup
            <4> QED BY <1>1, <2>1, <2>2, <4>1 DEF Regroups
        <3> QED BY <1>1, <2>2, <3>1, <3>2 DEF Collecting, driver, talk
    <2> QED BY <1>2, <2>2, <2>3, <2>4 DEF LinkInv, Exchange, Clean, talk
<1>4. CASE ~(Len(rx) < RxRoom)
    <2>1. LinkTyped' /\ Spoil
        BY <1>1, <1>4, EmptySeq DEF Arrive, Spoil, LinkInv, LinkTyped, driver
    <2> QED BY <1>2, <2>1, SpoiltStep
<1> QED BY <1>3, <1>4

LEMMA ShiftStep ==
    ASSUME LinkInv, Shift
    PROVE  LinkInv'
<1>1. /\ tx \in Seq(Octet) /\ tx # <<>> /\ tx' = Tail(tx) /\ heard \in Seq(Octet) /\ pktout \in Seq(Octet)
      /\ heard' = IF Clean THEN Append(heard, Head(tx)) ELSE heard
      /\ UNCHANGED <<driver, deck, rx, line, asked, seen, pushed>>
    BY DEF Shift, LinkInv, LinkTyped, wire
<1>2. /\ Append(heard, Head(tx)) \in Seq(Octet) /\ Tail(tx) \in Seq(Octet)
      /\ Append(heard, Head(tx)) \o Tail(tx) = heard \o tx
    BY <1>1, OneMoves
<1>3. Len(tx') <= TxRoom
    <2>1. Len(tx) \in Nat /\ Len(Tail(tx)) = Len(tx) - 1
        BY <1>1, NotEmpty, HeadTailProperties
    <2> QED BY <1>1, <2>1, RoomAssumption DEF LinkInv, LinkTyped
<1>4. LinkTyped'
    BY <1>1, <1>2, <1>3 DEF LinkInv, LinkTyped, driver
<1>5. InputBounded'
    BY <1>1 DEF LinkInv, InputBounded, Complete, PktSize, DataSize, driver
<1>6. Clean => Answering'
    BY <1>1, <1>2 DEF LinkInv, Exchange, Collecting, Answering, Passed, driver
<1> QED BY <1>1, <1>4, <1>5, <1>6 DEF LinkInv, Exchange, Clean

LEMMA AskStep ==
    ASSUME LinkInv, NEW r \in Requests, Ask(r)
    PROVE  LinkInv'
<1>1. /\ pktin = <<>> /\ state = "Rx" /\ rx = <<>> /\ tx = <<>> /\ r \in Seq(Byte)
      /\ line' = r /\ asked' = r /\ heard' = <<>> /\ seen' = {deck} /\ pushed' = <<>>
      /\ UNCHANGED <<driver, deck, chip>>
    BY RequestAssumption DEF Ask, AtRest
<1>2. LinkTyped'
    BY <1>1, EmptySeq DEF LinkInv, LinkTyped, driver, chip
<1>3. InputBounded'
    BY <1>1 DEF LinkInv, InputBounded, Complete, PktSize, DataSize, driver
<1>4. Collecting'
    <2>1. <<>> \o <<>> = <<>> /\ <<>> \o r = r
        BY <1>1, ConcatEmptySeq, EmptySeq
    <2> QED BY <1>1, <2>1 DEF Collecting, driver, chip
<1> QED BY <1>2, <1>3, <1>4 DEF LinkInv, Exchange

LEMMA SetDeckStep ==
    ASSUME LinkInv, NEW d \in Decks, SetDeck(d)
    PROVE  LinkInv'
<1>1. /\ deck' = d /\ seen' = IF Waiting THEN seen \cup {d} ELSE seen
      /\ UNCHANGED <<driver, rx, tx, line, asked, heard, pushed>>
    BY DEF SetDeck, chip, wire
<1>2. LinkTyped' /\ InputBounded'
    BY <1>1 DEF LinkInv, LinkTyped, InputBounded, Complete, PktSize, DataSize, driver
<1>3. Clean /\ Collecting => Collecting'
    BY <1>1 DEF Collecting, Waiting, Answered, driver
<1>4. Answering => Answering'
    BY <1>1 DEF Answering, Passed, driver
<1> QED BY <1>1, <1>2, <1>3, <1>4 DEF LinkInv, Exchange, Clean

LEMMA LinkStep ==
    ASSUME LinkInv, [Next]_vars
    PROVE  LinkInv'
<1>1. CASE RxIrq
    BY <1>1, RxIrqStep
<1>2. CASE TxIrq
    BY <1>2, TxIrqStep
<1>3. CASE ClearIrq
    BY <1>3 DEF ClearIrq, LinkInv, LinkTyped, InputBounded, Exchange, Clean, Collecting, Answering,
                Passed, Complete, PktSize, DataSize, driver, talk, wire
<1>4. CASE AudioWrap
    BY <1>4, AudioWrapStep
<1>5. CASE Arrive
    BY <1>5, ArriveStep
<1>6. CASE LoseByte \/ ParityError
    <2>1. /\ line # <<>> /\ line' = Tail(line) /\ Spoil
          /\ UNCHANGED <<driver, deck, rx, tx>>
        BY <1>6 DEF LoseByte, ParityError, Gone, chip
    <2>2. Tail(line) \in Seq(Byte)
        BY <2>1, HeadTailProperties DEF LinkInv, LinkTyped
    <2>3. LinkTyped'
        BY <2>1, <2>2, EmptySeq DEF LinkInv, LinkTyped, Spoil, driver
    <2>4. InputBounded'
        BY <2>1 DEF LinkInv, InputBounded, Complete, PktSize, DataSize, driver
    <2> QED BY <2>1, <2>3, <2>4, SpoiltStep
<1>7. CASE Shift
    BY <1>7, ShiftStep
<1>8. ASSUME NEW r \in Requests, Ask(r) PROVE LinkInv'
    BY <1>8, AskStep
<1>9. ASSUME NEW r \in Requests, AskHastily(r) PROVE LinkInv'
    <2>1. /\ line' = r /\ r \in Seq(Byte) /\ Spoil
          /\ UNCHANGED <<driver, deck, rx, tx>>
        BY <1>9, RequestAssumption DEF AskHastily, chip
    <2>2. LinkTyped'
        BY <2>1, EmptySeq DEF LinkInv, LinkTyped, Spoil, driver
    <2>3. InputBounded'
        BY <2>1 DEF LinkInv, InputBounded, Complete, PktSize, DataSize, driver
    <2> QED BY <2>1, <2>2, <2>3, SpoiltStep
<1>10. ASSUME NEW d \in Decks, SetDeck(d) PROVE LinkInv'
    BY <1>10, SetDeckStep
<1>11. CASE UNCHANGED vars
    BY <1>11 DEF LinkInv, LinkTyped, InputBounded, Exchange, Clean, Collecting, Answering,
                 Passed, Complete, PktSize, DataSize, vars, driver, chip, wire, talk
<1> QED BY <1>1, <1>2, <1>3, <1>4, <1>5, <1>6, <1>7, <1>8, <1>9, <1>10, <1>11 DEF Next, Driver

LEMMA LinkInit ==
    ASSUME Init
    PROVE  LinkInv
<1>1. LinkTyped
    BY EmptySeq, RoomAssumption DEF Init, LinkTyped
<1>2. InputBounded
    BY EmptySeq DEF Init, InputBounded, Max32
<1> QED BY <1>1, <1>2 DEF LinkInv, Exchange, Clean, Init

THEOREM LinkInvariant == Spec => []LinkInv
<1> QED BY LinkInit, LinkStep, PTL DEF Spec

-----------------------------------------------------------------------------
(* What follows. *)

\* Whatever arrives, the packet does not outgrow the room the driver gives it,
\* and it is complete exactly when it has been answered (aja.c:1841-1853).
THEOREM InputStaysBounded == Spec => []InputBounded
<1> QED BY LinkInvariant, PTL DEF LinkInv

\* A request that goes well is answered by its own reply, byte by byte, with data
\* the deck had while the request was on its way (aja.c:1813-1862).
LEMMA AnsweredRight ==
    ASSUME LinkInv
    PROVE  AnswerRight
<1> SUFFICES ASSUME Clean
             PROVE  \E d \in seen : IF Waiting THEN IsPrefix(heard, Reply(asked, d))
                                    ELSE heard = Reply(asked, d)
    BY DEF AnswerRight
<1>1. asked \in Seq(Byte) /\ Len(asked) >= 3
    <2>1. asked \in Seq(Byte) \ {<<>>} /\ Len(asked) = PktSize(asked)
        BY RequestAssumption DEF LinkInv, LinkTyped, Clean
    <2>2. asked[1] \in Nat
        <3>1. 1 \in 1 .. Len(asked)
            BY <2>1, NotEmpty
        <3>2. asked[1] \in Byte
            BY <2>1, <3>1, ElementOfSeq
        <3> QED BY <3>2, ByteIsNumber
    <2> QED BY SMTT(30), <2>1, <2>2, Sizes
<1>2. CASE Collecting
    <2>1. \A s : IsPrefix(<<>>, s) <=> Len(<<>>) <= Len(s) /\ SubSeq(<<>>, 1, 0) = SubSeq(s, 1, 0)
        BY EmptySeq DEF IsPrefix
    <2>2. Reply(asked, deck) \in Seq(Octet)
        BY <1>1, ReplyType DEF LinkInv, LinkTyped
    <2>3. Len(Reply(asked, deck)) \in Nat /\ Len(<<>>) = 0
        BY <2>2, NotEmpty, EmptySeq
    <2>4. SubSeq(<<>>, 1, 0) = <<>> /\ SubSeq(Reply(asked, deck), 1, 0) = <<>>
        BY SubSeqEmpty
    <2>5. IsPrefix(<<>>, Reply(asked, deck))
        BY <2>1, <2>3, <2>4
    <2> QED BY <1>2, <2>5 DEF Collecting, Waiting, Answered
<1>3. CASE Answering
    <2>1. PICK d \in seen : heard \o tx \o pktout = Reply(asked, d)
        BY <1>3 DEF Answering
    <2> DEFINE r == Reply(asked, d)
               left == tx \o pktout
    <2>2. heard \in Seq(Octet) /\ left \in Seq(Octet)
        BY ConcatProperties DEF LinkInv, LinkTyped
    <2>3. heard \o left = r
        <3>1. Regroups(heard, tx, pktout)
            BY Regroup DEF LinkInv, LinkTyped
        <3> QED BY <2>1, <3>1 DEF Regroups
    <2>4. r \in Seq(Octet) /\ r # <<>> /\ Len(r) = PktSize(r)
        BY <1>1, ReplyType DEF LinkInv, LinkTyped
    <2> HIDE DEF r, left
    <2>5. /\ Len(heard) \in Nat /\ Len(left) \in Nat /\ Len(r) = Len(heard) + Len(left)
          /\ \A i \in 1 .. Len(heard) : r[i] = heard[i]
        <3>1. Len(heard) \in Nat /\ Len(left) \in Nat
            BY <2>2, NotEmpty
        <3>2. /\ Len(heard \o left) = Len(heard) + Len(left)
              /\ \A i \in 1 .. Len(heard) + Len(left) :
                     (heard \o left)[i] = IF i <= Len(heard) THEN heard[i] ELSE left[i - Len(heard)]
            BY <2>2, ConcatProperties
        <3> QED BY <2>3, <3>1, <3>2
    <2>6. CASE Waiting
        <3>1. SubSeq(r, 1, Len(heard)) = SubSeq(heard, 1, Len(heard))
            <4>1. \A i \in 1 .. Len(heard) : heard[i] \in Octet /\ r[i] \in Octet
                BY <2>2, <2>5, ElementOfSeq
            <4>2. /\ SubSeq(r, 1, Len(heard)) \in Seq(Octet) /\ SubSeq(heard, 1, Len(heard)) \in Seq(Octet)
                  /\ Len(SubSeq(r, 1, Len(heard))) = IF 1 <= Len(heard) THEN Len(heard) - 1 + 1 ELSE 0
                  /\ Len(SubSeq(heard, 1, Len(heard))) = IF 1 <= Len(heard) THEN Len(heard) - 1 + 1 ELSE 0
                  /\ \A i \in 1 .. Len(heard) - 1 + 1 : SubSeq(r, 1, Len(heard))[i] = r[1 + i - 1]
                  /\ \A i \in 1 .. Len(heard) - 1 + 1 : SubSeq(heard, 1, Len(heard))[i] = heard[1 + i - 1]
                BY <2>5, <4>1, SubSeqProperties
            <4>3. \A i \in 1 .. Len(SubSeq(r, 1, Len(heard))) :
                      SubSeq(r, 1, Len(heard))[i] = SubSeq(heard, 1, Len(heard))[i]
                BY <2>5, <4>2
            <4> QED BY <4>2, <4>3, SeqEqual
        <3>2. IsPrefix(heard, r)
            BY <2>5, <3>1 DEF IsPrefix
        <3> QED BY <2>6, <3>2 DEF r
    <2>7. CASE ~Waiting
        <3>1. heard # <<>> /\ Len(heard) = PktSize(heard)
            BY <2>7 DEF Waiting, Answered
        <3>2. r[1] = heard[1]
            BY <2>2, <2>5, <3>1, NotEmpty
        <3>3. PktSize(r) = PktSize(heard)
            BY <3>2 DEF PktSize, DataSize
        <3>4. left = <<>>
            <4>1. Len(r) = Len(heard)
                BY <2>4, <3>1, <3>3
            <4>2. Len(left) = 0
                BY <2>5, <4>1
            <4> QED BY <2>2, <4>2, NotEmpty
        <3>5. heard = r
            BY <2>2, <2>3, <3>4, ConcatEmptySeq
        <3> QED BY <2>7, <3>5 DEF r
    <2> QED BY <2>6, <2>7
<1> QED BY <1>2, <1>3 DEF LinkInv, Exchange

THEOREM AnswersAreRight == Spec => []AnswerRight
<1> QED BY LinkInvariant, AnsweredRight, PTL

\* A request that goes well reaches user space at most once, and before the answer
\* goes out if user space has to see it (p2slave_main.c:460-464).
THEOREM ExchangePassesOnOnce == Spec => []PassedOnOnce
<1>1. ASSUME LinkInv PROVE PassedOnOnce
    <2> SUFFICES ASSUME Clean, Forward(asked, deck) # <<>>
                 PROVE  \/ pushed = <<>> /\ heard = <<>>
                        \/ \E d \in seen : pushed = <<Forward(asked, d)>>
        BY DEF PassedOnOnce
    <2>1. CASE Collecting
        BY <2>1 DEF Collecting
    <2>2. CASE Answering
        <3>1. PICK d \in seen : pushed = Passed(d)
            BY <2>2 DEF Answering
        <3>2. Forward(asked, d) # <<>>
            <4>1. CASE Usersend(asked)
                BY <4>1 DEF Forward
            <4>2. CASE ~Usersend(asked)
                <5>1. Forward(asked, d) = <<\h24, asked[2]>> \o d.tc.timecode
                    BY <4>2 DEF Forward
                <5>2. d.tc.timecode \in Seq(Byte)
                    BY <1>1, DeckAssumption, DeckWords DEF LinkInv, LinkTyped
                <5>3. (<<\h24, asked[2]>> \o d.tc.timecode) # <<>>
                    <6> DEFINE T == Byte \cup {asked[2]}
                    <6>1. /\ <<\h24, asked[2]>> \in Seq(T) /\ Len(<<\h24, asked[2]>>) = 2
                          /\ d.tc.timecode \in Seq(T)
                        BY <5>2, SeqMonotonic DEF Byte
                    <6> HIDE DEF T
                    <6> QED BY <6>1, ConcatEqualIffEmpty, EmptySeq
                <5> QED BY <5>1, <5>3
            <4> QED BY <4>1, <4>2
        <3> QED BY <3>1, <3>2 DEF Passed
    <2> QED BY <1>1, <2>1, <2>2 DEF LinkInv, Exchange
<1> QED BY <1>1, LinkInvariant, PTL

-----------------------------------------------------------------------------
(* The checksum: what the fold does, step by step. *)

Less == {ss \in Nat \X Nat : ss[1] < ss[2]}

LEMMA SetInduction ==
    ASSUME NEW S, 0 \in S, \A n \in Nat : n \in S => n + 1 \in S
    PROVE  \A n \in Nat : n \in S
<1> DEFINE T == Nat \ S
<1>1. SUFFICES ASSUME T # {} PROVE FALSE
    OBVIOUS
<1>2. T \subseteq Nat
    OBVIOUS
<1>3. IsWellFoundedOn(Less, Nat)
    BY NatLessThanWellFounded DEF OpToRel, Less
<1> HIDE DEF T
<1>4. PICK x \in T : \A y \in T : <<y, x>> \notin Less
    BY <1>1, <1>2, <1>3, WFMin
<1>5. x \in Nat /\ x \notin S
    BY <1>4 DEF T
<1>6. x - 1 \in Nat /\ (x - 1) + 1 = x
    BY <1>5
<1>7. x - 1 \in T
    BY <1>5, <1>6 DEF T
<1>8. <<x - 1, x>> \in Less
    BY <1>5, <1>6 DEF Less
<1> QED BY <1>4, <1>7, <1>8

LEMMA LastIndex ==
    ASSUME NEW n \in Nat, NEW S \in SUBSET (1 .. n), n \in S
    PROVE  Max(S) = n
<1>1. \A x \in S : x \in 1 .. n
    OBVIOUS
<1>2. \A x \in S : (\A y \in S : x >= y) => x = n
    BY <1>1
<1>3. \A y \in S : n >= y
    BY <1>1
<1>4. Max(S) \in S /\ \A y \in S : Max(S) >= y
    BY <1>3 DEF Max
<1> QED BY <1>2, <1>4

\* f adds up the bytes of s at any set of places, the last one last.
AddsUp(f, s, D) ==
    f = [S \in SUBSET D |-> IF S = {} THEN 0 ELSE (f[S \ {Max(S)}] + s[Max(S)]) % 256]

LEMMA SomeAddsUp ==
    ASSUME NEW s
    PROVE  \A n \in Nat : \E f : AddsUp(f, s, 1 .. n)
<1> DEFINE N == {n \in Nat : \E f : AddsUp(f, s, 1 .. n)}
<1>1. 0 \in N
    <2> DEFINE f == [S \in SUBSET (1 .. 0) |-> 0]
    <2>1. \A S \in SUBSET (1 .. 0) : S = {}
        OBVIOUS
    <2>2. AddsUp(f, s, 1 .. 0)
        BY <2>1 DEF AddsUp
    <2> QED BY <2>2
<1>2. ASSUME NEW n \in Nat, n \in N
      PROVE  n + 1 \in N
    <2>1. PICK f : AddsUp(f, s, 1 .. n)
        BY <1>2
    <2> DEFINE D == 1 .. n
               E == 1 .. n + 1
               g == [S \in SUBSET E |->
                        IF n + 1 \in S THEN (f[S \ {n + 1}] + s[n + 1]) % 256 ELSE f[S]]
    <2>2. \A S \in SUBSET D : f[S] = IF S = {} THEN 0 ELSE (f[S \ {Max(S)}] + s[Max(S)]) % 256
        BY <2>1, Zenon DEF AddsUp
    <2>3. /\ \A S \in SUBSET E : n + 1 \in S => S \ {n + 1} \in SUBSET D /\ Max(S) = n + 1 /\ S # {}
          /\ \A S \in SUBSET E : n + 1 \notin S => S \in SUBSET D
          /\ \A S \in SUBSET D : S \in SUBSET E /\ n + 1 \notin S /\ \A x : S \ {x} \in SUBSET D
        <3>1. \A x \in E : x # n + 1 => x \in D
            OBVIOUS
        <3>2. \A x \in D : x \in E /\ x # n + 1
            OBVIOUS
        <3>3. \A S \in SUBSET E : n + 1 \in S => Max(S) = n + 1
            BY LastIndex
        <3> QED BY <3>1, <3>2, <3>3
    <2>4. g = [S \in SUBSET E |-> g[S]]
        BY Zenon
    <2>5. \A S \in SUBSET E :
             g[S] = IF n + 1 \in S THEN (f[S \ {n + 1}] + s[n + 1]) % 256 ELSE f[S]
        OBVIOUS
    <2> HIDE DEF D, E, g
    <2>6. \A S \in SUBSET E : g[S] = IF S = {} THEN 0 ELSE (g[S \ {Max(S)}] + s[Max(S)]) % 256
        <3> SUFFICES ASSUME NEW S \in SUBSET E
                     PROVE  g[S] = IF S = {} THEN 0 ELSE (g[S \ {Max(S)}] + s[Max(S)]) % 256
            OBVIOUS
        <3>1. CASE n + 1 \in S
            <4>1. S \ {n + 1} \in SUBSET D /\ Max(S) = n + 1 /\ S # {}
                BY <2>3, <3>1
            <4>2. g[S \ {n + 1}] = f[S \ {n + 1}]
                BY <2>3, <2>5, <4>1
            <4> QED BY <2>5, <3>1, <4>1, <4>2
        <3>2. CASE n + 1 \notin S
            <4>1. S \in SUBSET D /\ S \ {Max(S)} \in SUBSET D
                BY <2>3, <3>2
            <4>2. g[S] = f[S] /\ g[S \ {Max(S)}] = f[S \ {Max(S)}]
                BY <2>3, <2>5, <4>1
            <4> QED BY <2>2, <4>1, <4>2
        <3> QED BY <3>1, <3>2
    <2>7. AddsUp(g, s, E)
        BY <2>4, <2>6, Zenon DEF AddsUp
    <2> QED BY <2>7 DEF E
<1> HIDE DEF N
<1>3. \A n \in Nat : n \in N
    BY <1>1, <1>2, SetInduction
<1> QED BY <1>3 DEF N

\* f[k] is the sum of the first k bytes of s.
Sums(f, s, n) ==
    f[0] = 0 /\ \A k \in 1 .. n : f[k] = (f[k - 1] + s[k]) % 256

LEMMA SumIsLast ==
    ASSUME NEW s, NEW n \in Nat, DOMAIN s = 1 .. n
    PROVE  \E f : Sums(f, s, n) /\ Sum8(s) = f[n]
<1> DEFINE a == CHOOSE f : AddsUp(f, s, 1 .. n)
           f == [k \in 0 .. n |-> a[1 .. k]]
<1>1. Sum8(s) = a[1 .. n]
    BY DEF Sum8, FoldLeft, MapThenFoldSet, AddsUp
<1>2. AddsUp(a, s, 1 .. n)
    BY SomeAddsUp
<1> HIDE DEF a
<1>3. \A S \in SUBSET (1 .. n) : a[S] = IF S = {} THEN 0 ELSE (a[S \ {Max(S)}] + s[Max(S)]) % 256
    BY <1>2, Zenon DEF AddsUp
<1>4. a[1 .. 0] = 0
    <2>1. 1 .. 0 = {} /\ {} \in SUBSET (1 .. n)
        OBVIOUS
    <2> QED BY <1>3, <2>1
<1>5. ASSUME NEW k \in 1 .. n
      PROVE  a[1 .. k] = (a[1 .. k - 1] + s[k]) % 256
    <2>1. 1 .. k \in SUBSET (1 .. n) /\ 1 .. k # {} /\ (1 .. k) \ {k} = 1 .. k - 1
        OBVIOUS
    <2>2. Max(1 .. k) = k
        <3>1. k \in Nat /\ k \in 1 .. k /\ 1 .. k \in SUBSET (1 .. k)
            OBVIOUS
        <3> QED BY <3>1, LastIndex
    <2>3. a[1 .. k] = (a[(1 .. k) \ {k}] + s[k]) % 256
        BY <1>3, <2>1, <2>2, Zenon
    <2> QED BY <2>1, <2>3
<1>6. f[0] = 0 /\ f[n] = a[1 .. n]
    BY <1>4
<1>7. ASSUME NEW k \in 1 .. n
      PROVE  f[k] = (f[k - 1] + s[k]) % 256
    <2>1. k \in 0 .. n /\ k - 1 \in 0 .. n
        OBVIOUS
    <2> QED BY <1>5, <2>1
<1> QED BY <1>1, <1>6, <1>7 DEF Sums

-----------------------------------------------------------------------------
(* Good answers, and damaged requests. *)

LEMMA ByteSum ==
    ASSUME NEW x \in 0 .. 255, NEW u \in 0 .. 255
    PROVE  (x + u) % 256 \in 0 .. 255
OBVIOUS

\* One byte changed changes the sum, whatever the others are.
LEMMA OneByteCounts ==
    ASSUME NEW n \in Nat, NEW s \in [1 .. n -> Byte], NEW t \in [1 .. n -> Byte],
           NEW j \in 1 .. n, s[j] # t[j], \A i \in 1 .. n : i # j => s[i] = t[i]
    PROVE  Sum8(s) # Sum8(t)
<1>1. PICK f : Sums(f, s, n) /\ Sum8(s) = f[n]
    BY SumIsLast
<1>2. PICK g : Sums(g, t, n) /\ Sum8(t) = g[n]
    BY SumIsLast
<1> DEFINE Apart(k) == /\ f[k] \in Byte /\ g[k] \in Byte
                       /\ k < j => f[k] = g[k]
                       /\ k >= j => f[k] # g[k]
           S == {k \in Nat : k <= n => Apart(k)}
<1>3. 0 \in S
    BY <1>1, <1>2 DEF Sums, Byte
<1>4. ASSUME NEW k \in Nat, k \in S
      PROVE  k + 1 \in S
    <2>1. SUFFICES ASSUME k + 1 <= n
                   PROVE  Apart(k + 1)
        OBVIOUS
    <2>2. PICK m \in 1 .. n : m = k + 1
        BY <2>1
    <2>3. m - 1 = k /\ Apart(k)
        BY <1>4, <2>1, <2>2
    <2>4. f[m] = (f[m - 1] + s[m]) % 256 /\ g[m] = (g[m - 1] + t[m]) % 256
        BY <1>1, <1>2, <2>3 DEF Sums
    <2>5. f[k] \in 0 .. 255 /\ g[k] \in 0 .. 255 /\ s[m] \in 0 .. 255 /\ t[m] \in 0 .. 255
        BY <2>3 DEF Byte
    <2>6. PICK x \in 0 .. 255, y \in 0 .. 255, u \in 0 .. 255, v \in 0 .. 255 :
              x = f[k] /\ y = g[k] /\ u = s[m] /\ v = t[m]
        BY <2>5
    <2>7. f[m] = (x + u) % 256 /\ g[m] = (y + v) % 256
        BY <2>3, <2>4, <2>6
    <2>8. f[m] \in Byte /\ g[m] \in Byte
        <3>1. (x + u) % 256 \in 0 .. 255
            BY ByteSum
        <3>2. (y + v) % 256 \in 0 .. 255
            BY ByteSum
        <3> QED BY <2>7, <3>1, <3>2 DEF Byte
    <2>9. ASSUME (x = y) # (u = v)
           PROVE  f[m] # g[m]
        <3> DEFINE Wrapped(i) == IF i < 256 THEN i ELSE i - 256
        <3>1. \A i \in 0 .. 510 : i % 256 = Wrapped(i)
            OBVIOUS
        <3>2. x + u \in 0 .. 510 /\ y + v \in 0 .. 510
            OBVIOUS
        <3>3. Wrapped(x + u) # Wrapped(y + v)
            BY <2>9
        <3> HIDE DEF Wrapped
        <3>4. (x + u) % 256 = Wrapped(x + u) /\ (y + v) % 256 = Wrapped(y + v)
            BY <3>1, <3>2
        <3> QED BY <2>7, <3>3, <3>4
    <2> HIDE DEF S
    <2>10. ASSUME m < j
          PROVE  Apart(m)
        <3>1. f[k] = g[k] /\ s[m] = t[m] /\ ~(m >= j)
            BY <2>3, <2>10
        <3>2. f[m] = g[m]
            BY <2>7, <2>6, <3>1
        <3> QED BY <2>8, <3>1, <3>2
    <2>11. ASSUME m = j
          PROVE  Apart(m)
        <3>1. f[k] = g[k] /\ s[m] # t[m] /\ ~(m < j)
            BY <2>3, <2>11
        <3>2. f[m] # g[m]
            BY <2>6, <2>9, <3>1
        <3> QED BY <2>8, <3>1, <3>2
    <2>12. ASSUME m > j
          PROVE  Apart(m)
        <3>1. f[k] # g[k] /\ s[m] = t[m] /\ ~(m < j)
            BY <2>3, <2>12
        <3>2. f[m] # g[m]
            BY <2>6, <2>9, <3>1
        <3> QED BY <2>8, <3>1, <3>2
    <2>13. m \in Int /\ j \in Int
        BY <2>3
    <2>14. Apart(m)
        BY <2>10, <2>11, <2>12, <2>13
    <2> QED BY <2>2, <2>14
<1> HIDE DEF S
<1>5. \A k \in Nat : k \in S
    BY <1>3, <1>4, SetInduction
<1>6. n \in S
    BY <1>5
<1>7. Apart(n)
    BY <1>6 DEF S
<1> QED BY <1>1, <1>2, <1>7

LEMMA BodyIs ==
    ASSUME NEW p, p[1] \in Nat
    PROVE  Body(p) = [i \in 1 .. DataSize(p) + 2 |-> p[i]]
<1> DEFINE n == DataSize(p) + 2
           T == {p[i] : i \in 1 .. n}
<1>1. n \in 2 .. 17
    BY Sizes
<1>2. \A i \in 1 .. n : p[i] \in T
    OBVIOUS
<1> HIDE DEF T, n
<1>3. /\ SubSeq(p, 1, n) \in Seq(T) /\ Len(SubSeq(p, 1, n)) = IF 1 <= n THEN n - 1 + 1 ELSE 0
      /\ \A i \in 1 .. n - 1 + 1 : SubSeq(p, 1, n)[i] = p[1 + i - 1]
    BY <1>1, <1>2, SubSeqProperties
<1>4. SubSeq(p, 1, n) = [i \in 1 .. n |-> SubSeq(p, 1, n)[i]]
    <2>1. Len(SubSeq(p, 1, n)) = n
        BY <1>1, <1>3
    <2> QED BY <1>3, <2>1, LenProperties
<1>5. \A i \in 1 .. n : SubSeq(p, 1, n)[i] = p[i]
    BY <1>1, <1>3
<1>6. SubSeq(p, 1, n) = [i \in 1 .. n |-> p[i]]
    BY <1>4, <1>5
<1> QED BY <1>6 DEF Body, n

LEMMA SealedIsGood ==
    ASSUME NEW b, b[1] \in Nat
    PROVE  ChecksumGood(AddChecksum(b))
<1> DEFINE a == AddChecksum(b)
           n == DataSize(b) + 2
           sum == Sum8(Body(b))
           T == {b[i] : i \in 1 .. n} \cup {sum}
<1>1. n \in 2 .. 17
    BY Sizes
<1>2. Body(b) = [i \in 1 .. n |-> b[i]]
    BY BodyIs
<1>3. [i \in 1 .. n |-> b[i]] \in Seq(T) /\ Len([i \in 1 .. n |-> b[i]]) = n /\ sum \in T
    BY <1>1
<1> HIDE DEF T, sum
<1>4. a = Append(Body(b), sum)
    BY DEF AddChecksum, sum
<1> HIDE DEF a, n
<1>5. a[n + 1] = sum /\ \A i \in 1 .. n : a[i] = b[i]
    <2> DEFINE c == [i \in 1 .. n |-> b[i]]
    <2>1. c \in Seq(T) /\ Len(c) = n /\ \A i \in 1 .. n : c[i] = b[i]
        BY <1>3
    <2> HIDE DEF c
    <2>2. Append(c, sum)[n + 1] = sum /\ \A i \in 1 .. n : Append(c, sum)[i] = b[i]
        BY <1>1, <1>3, <2>1, AppendProperties
    <2>3. Body(b) = c
        BY <1>2 DEF c
    <2> QED BY <1>4, <2>2, <2>3
<1>6. a[1] = b[1]
    BY <1>1, <1>5
<1>7. DataSize(a) + 2 = n /\ PktSize(a) = n + 1
    BY <1>1, <1>6 DEF DataSize, PktSize, n
<1>8. Body(a) = [i \in 1 .. n |-> a[i]]
    BY <1>6, <1>7, BodyIs
<1>9. Body(a) = Body(b)
    BY <1>2, <1>5, <1>8
<1> QED BY <1>5, <1>7, <1>9 DEF ChecksumGood, sum, a

\* The checksum in the constant is its own.
LEMMA NakIsGood == ChecksumGood(Nak)
<1>1. Nak[1] = 17 /\ Nak[2] = 18 /\ Nak[3] = 4 /\ Nak[4] = 39
    BY DEF Nak
<1>2. DataSize(Nak) = 1 /\ PktSize(Nak) = 4
    BY <1>1 DEF DataSize, PktSize
<1>3. Body(Nak) = [i \in 1 .. DataSize(Nak) + 2 |-> Nak[i]]
    BY <1>1, BodyIs
<1>4. DOMAIN Body(Nak) = 1 .. 3 /\ \A k \in 1 .. 3 : Body(Nak)[k] = Nak[k]
    BY <1>2, <1>3
<1>5. PICK f : Sums(f, Body(Nak), 3) /\ Sum8(Body(Nak)) = f[3]
    BY <1>4, SumIsLast
<1>6. f[0] = 0 /\ \A k \in 1 .. 3 : f[k] = (f[k - 1] + Nak[k]) % 256
    BY <1>4, <1>5 DEF Sums
<1>7. f[1] = (f[0] + 17) % 256 /\ f[2] = (f[1] + 18) % 256 /\ f[3] = (f[2] + 4) % 256
    BY <1>1, <1>6
<1>8. f[3] = 39
    BY <1>6, <1>7
<1> QED BY <1>1, <1>2, <1>5, <1>8 DEF ChecksumGood

LEMMA ReplyIsGood ==
    ASSUME NEW p, p[3] \in Byte, NEW d \in DeckData
    PROVE  Len(Reply(p, d)) = PktSize(Reply(p, d)) /\ ChecksumGood(Reply(p, d))
<1>1. Len(Reply(p, d)) = PktSize(Reply(p, d))
    BY ReplyIsPacket
<1>2. CASE ChecksumGood(p)
    BY <1>1, <1>2, ReplyBodyFirst, SealedIsGood DEF Reply
<1>3. CASE ~ChecksumGood(p)
    BY <1>1, <1>3, NakIsGood DEF Reply
<1> QED BY <1>2, <1>3

Packets == {p \in Seq(Byte) : p # <<>> /\ Len(p) = PktSize(p)}

\* p is r with one byte garbled.
OneWrong(r, p) ==
    \E i \in DOMAIN r, b \in Byte :
        /\ b # r[i]
        /\ i = 1 => b % 16 = r[1] % 16
        /\ p = [r EXCEPT ![i] = b]

LEMMA PacketShape ==
    ASSUME NEW p \in Packets
    PROVE  /\ p[1] \in Byte /\ p[3] \in Byte /\ PktSize(p) \in 3 .. 18
           /\ PktSize(p) = DataSize(p) + 3
           /\ p \in [1 .. PktSize(p) -> Byte]
<1>1. p \in Seq(Byte) /\ p # <<>> /\ Len(p) = PktSize(p)
    BY DEF Packets
<1>2. Len(p) \in Nat /\ Len(p) > 0 /\ p \in [1 .. Len(p) -> Byte]
    BY <1>1, NotEmpty, LenProperties
<1>3. p[1] \in Byte
    BY <1>2
<1>4. p[1] \in Nat
    BY <1>3, ByteIsNumber
<1>5. PktSize(p) \in 3 .. 18
    BY <1>4, Sizes
<1>6. p[3] \in Byte
    BY <1>1, <1>2, <1>5
<1> QED BY <1>1, <1>2, <1>3, <1>5, <1>6 DEF PktSize

LEMMA WrongIsBad ==
    ASSUME NEW r \in Packets, ChecksumGood(r), NEW p, OneWrong(r, p)
    PROVE  p \in Packets /\ ~ChecksumGood(p)
<1> DEFINE n == DataSize(r) + 2
<1>1. PICK i \in DOMAIN r, b \in Byte :
        b # r[i] /\ (i = 1 => b % 16 = r[1] % 16) /\ p = [r EXCEPT ![i] = b]
    BY DEF OneWrong
<1>2. /\ r \in [1 .. n + 1 -> Byte] /\ n \in 2 .. 17 /\ PktSize(r) = n + 1 /\ r[1] \in Byte
    <2>1. DataSize(r) \in Nat /\ PktSize(r) = DataSize(r) + 3 /\ PktSize(r) \in 3 .. 18
        <3>1. r[1] \in Nat
            BY PacketShape, ByteIsNumber
        <3> QED BY <3>1, PacketShape, Sizes
    <2>2. r \in [1 .. PktSize(r) -> Byte] /\ r[1] \in Byte
        BY PacketShape
    <2>3. PktSize(r) = n + 1 /\ n \in 2 .. 17
        BY <2>1
    <2> QED BY <2>2, <2>3
<1> HIDE DEF n
<1>3. /\ i \in 1 .. n + 1 /\ p \in [1 .. n + 1 -> Byte] /\ p[i] = b
      /\ \A j \in 1 .. n + 1 : j # i => p[j] = r[j]
    BY <1>1, <1>2
<1>4. p[1] % 16 = r[1] % 16 /\ p[1] \in Nat /\ r[1] \in Nat
    <2>1. p[1] \in Byte /\ r[1] \in Byte
        BY <1>2, <1>3
    <2>2. p[1] % 16 = r[1] % 16
        BY <1>1, <1>2, <1>3
    <2> QED BY <2>1, <2>2, ByteIsNumber
<1>5. DataSize(p) + 2 = n /\ PktSize(p) = n + 1 /\ PktSize(r) = n + 1 /\ DataSize(r) + 2 = n
    BY <1>2, <1>4 DEF DataSize, PktSize, n
<1>6. p \in Packets
    <2>1. p \in Seq(Byte)
        BY <1>2, <1>3, SeqDef
    <2>2. Len(p) = n + 1
        BY <1>2, <1>3, <2>1, LenProperties
    <2>3. p # <<>>
        BY <1>2, <2>1, <2>2, NotEmpty
    <2> QED BY <1>5, <2>1, <2>2, <2>3 DEF Packets
<1>7. Body(p) = [j \in 1 .. n |-> p[j]] /\ Body(r) = [j \in 1 .. n |-> r[j]]
    BY <1>4, <1>5, BodyIs
<1>8. r[n + 1] = Sum8(Body(r))
    BY <1>5 DEF ChecksumGood
<1>9. p[n + 1] # Sum8(Body(p))
    <2>1. CASE i = n + 1
        <3>1. \A j \in 1 .. n : p[j] = r[j]
            BY <1>2, <1>3, <2>1
        <3>2. Body(p) = Body(r)
            BY <1>7, <3>1
        <3> QED BY <1>1, <1>3, <1>8, <2>1, <3>2
    <2>2. CASE i # n + 1
        <3>1. n \in Nat /\ i \in 1 .. n /\ p[n + 1] = r[n + 1]
            BY <1>2, <1>3, <2>2
        <3>2. Body(p) \in [1 .. n -> Byte] /\ Body(r) \in [1 .. n -> Byte]
            BY <1>2, <1>3, <1>7
        <3>3. \A j \in 1 .. n : Body(p)[j] = p[j] /\ Body(r)[j] = r[j] /\ (j # i => p[j] = r[j])
            BY <1>2, <1>3, <1>7
        <3>5. Body(p)[i] # Body(r)[i]
            BY <1>1, <1>3, <3>1, <3>3
        <3>4. Sum8(Body(p)) # Sum8(Body(r))
            BY <3>1, <3>2, <3>3, <3>5, OneByteCounts
        <3> QED BY <1>8, <3>1, <3>4
    <2> QED BY <2>1, <2>2
<1> QED BY <1>5, <1>6, <1>9 DEF ChecksumGood

\* What goes up is not answered with data, the status apart.
LEMMA ForwardedIsAcked ==
    ASSUME NEW p, NEW d, Forward(p, d) # <<>>, Cmd(p) # StatusSense
    PROVE  Reply(p, d) = AddChecksum(Ack)
<1>1. ChecksumGood(p)
    BY DEF Forward
<1>2. Cmd(p) \notin Private
    <2>1. Usersend(p) \/ Cmd(p) \in Edits
        BY DEF Forward
    <2>2. Edits \cap Private = {}
        BY DEF Edits, Private, EditOn, EditOff, DeviceType, TcGenSense, TcSense, InSense, OutSense,
               AudInSense, AudOutSense, SpeedSense, PrerollSense, TimerMode
    <2> QED BY <2>1, <2>2 DEF Usersend
<1>3. ReplyBody(p, d) = Ack
    BY <1>2 DEF ReplyBody, Private
<1> QED BY <1>1, <1>3 DEF Reply

-----------------------------------------------------------------------------
(* Every request, and each of them damaged. *)

RequestInv ==
    /\ deck \in Decks
    /\ \E r \in Requests :
         /\ r \in Packets /\ ChecksumGood(r)
         /\ IF garbled THEN OneWrong(r, pkt) ELSE pkt = r

LEMMA RequestInvHolds == RequestSpec => []RequestInv
<1>1. RequestInit => RequestInv
    BY RequestAssumption DEF RequestInit, Init, RequestInv, Packets
<1>2. RequestInv /\ [Garble]_RequestVars => RequestInv'
    <2> SUFFICES ASSUME RequestInv, [Garble]_RequestVars
                 PROVE  RequestInv'
        OBVIOUS
    <2>1. CASE Garble
        <3>1. PICK r \in Requests : r \in Packets /\ ChecksumGood(r) /\ pkt = r
            BY <2>1 DEF RequestInv, Garble
        <3>2. OneWrong(r, pkt') /\ garbled' = TRUE /\ deck' = deck
            BY <2>1, <3>1 DEF Garble, OneWrong, vars
        <3> QED BY <3>1, <3>2 DEF RequestInv
    <2>2. CASE UNCHANGED RequestVars
        BY <2>2 DEF RequestInv, RequestVars, vars
    <2> QED BY <2>1, <2>2
<1> QED BY <1>1, <1>2, PTL DEF RequestSpec

\* For every set of requests and every deck: an answer is as long as its first
\* byte says and ends in its checksum; a packet with one wrong byte is refused, and
\* not shown to user space; and kernel and user space do not both answer
\* (p2slave_main.c:276-463).
THEOREM AnswersAreGood == RequestSpec => []OneGoodAnswer
<1>1. RequestInv => OneGoodAnswer
    <2> SUFFICES ASSUME RequestInv
                 PROVE  OneGoodAnswer
        OBVIOUS
    <2>1. PICK r \in Requests : /\ r \in Packets /\ ChecksumGood(r)
                                /\ IF garbled THEN OneWrong(r, pkt) ELSE pkt = r
        BY DEF RequestInv
    <2>2. pkt \in Packets /\ (garbled => ~ChecksumGood(pkt))
        BY <2>1, WrongIsBad
    <2>3. deck \in DeckData /\ pkt[3] \in Byte
        BY <2>2, DeckAssumption, PacketShape DEF RequestInv
    <2>4. AnswerWellFormed
        BY <2>3, ReplyIsGood DEF AnswerWellFormed
    <2>5. GarbledRefused
        BY <2>2 DEF GarbledRefused, Nak, Reply, Forward
    <2>6. OneAnswers
        BY ForwardedIsAcked DEF OneAnswers
    <2> QED BY <2>4, <2>5, <2>6 DEF OneGoodAnswer
<1> QED BY <1>1, RequestInvHolds, PTL
=============================================================================
