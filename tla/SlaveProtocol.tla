--------------------------- MODULE SlaveProtocol ---------------------------
(***************************************************************************)
(* What the P2 slave makes of one packet (p2slave_handle_pkt,              *)
(* src/src/p2slave_main.c:213-467): the packet it answers with and the     *)
(* packets it passes on to user space.                                     *)
(*                                                                         *)
(* A packet is a sequence of bytes; the low half of the first byte is the  *)
(* number of data bytes between the two command bytes and the checksum.    *)
(* `deck' is the dev->data the getters read, each under datalock: a        *)
(* timecode is kept as the two words timecode_to_smpte makes of it, a word *)
(* as its four bytes, lowest first.                                        *)
(***************************************************************************)
EXTENDS Integers, Sequences, SequencesExt

Byte == 0 .. 255
Word == [1 .. 4 -> Byte]
Smpte == [timecode : Word, userbits : Word]

DeckData ==
    [id : Word, status : [1 .. 16 -> Byte], speed : Word,
     tcgen : Smpte, tc : Smpte, preroll : Smpte,
     in : Smpte, out : Smpte, ain : Smpte, aout : Smpte]

DataSize(p) == p[1] % 16
PktSize(p)  == DataSize(p) + 3

\* Faulty variant: the sum is one bit short.
NarrowSum8(s) == FoldLeft(LAMBDA sum, byte : (sum + byte) % 128, 0, s)

Body(p) == SubSeq(p, 1, DataSize(p) + 2)
Sum8(s) == FoldLeft(LAMBDA sum, byte : (sum + byte) % 256, 0, s)

ChecksumGood(p) == p[PktSize(p)] = Sum8(Body(p))
AddChecksum(p)  == Append(Body(p), Sum8(Body(p)))

Ack == <<\h10, \h01>>
\* The checksum is part of this constant.
Nak == <<\h11, \h12, \h04, \h27>>

\* The switch is on the high half of the first byte and the second byte.
Cmd(p) == <<p[1] \div 16, p[2]>>
DeviceType   == <<\h0, \h11>>
TcGenSense   == <<\h6, \h0A>>
TcSense      == <<\h6, \h0C>>
InSense      == <<\h6, \h10>>
OutSense     == <<\h6, \h11>>
AudInSense   == <<\h6, \h12>>
AudOutSense  == <<\h6, \h13>>
StatusSense  == <<\h6, \h20>>
SpeedSense   == <<\h6, \h2E>>
PrerollSense == <<\h6, \h31>>
TimerMode    == <<\h6, \h36>>
EditOn       == <<\h2, \h64>>
EditOff      == <<\h2, \h65>>
Edits == {EditOn, EditOff}

TcGenBody(type, stc) ==
    CASE type = \h01 -> <<\h74, \h08>> \o stc.timecode
      [] type = \h10 -> <<\h74, \h09>> \o stc.userbits
      [] type = \h11 -> <<\h78, \h08>> \o stc.timecode \o stc.userbits
      [] OTHER -> Ack

TcBody(type, stc) ==
    CASE type \in {\h01, \h03} -> <<\h74, \h04>> \o stc.timecode
      [] type = \h02           -> <<\h74, \h06>> \o stc.timecode
      [] type = \h04           -> <<\h74, \h00>> \o stc.timecode
      [] type \in {\h10, \h30} -> <<\h74, \h05>> \o stc.userbits
      [] type = \h20           -> <<\h74, \h07>> \o stc.userbits
      [] type \in {\h11, \h33} -> <<\h78, \h04>> \o stc.timecode \o stc.userbits
      [] type = \h22           -> <<\h78, \h06>> \o stc.timecode \o stc.userbits
      [] OTHER -> Ack

\* The slice of the status that the request names, kept inside the structure.
StatusBody(arg, status) ==
    LET start == arg \div 16  len == arg % 16 IN
    <<\h70 + len, \h20>> \o SubSeq(status, start + 1, start + len)

\* The speed is an int and the reply has room for its lowest byte.
ReplyBody(p, deck) ==
    LET cmd == Cmd(p) IN
    CASE cmd = DeviceType   -> <<\h12, \h11, deck.id[2], deck.id[1]>>
      [] cmd = TcGenSense   -> TcGenBody(p[3], deck.tcgen)
      [] cmd = TcSense      -> TcBody(p[3], deck.tc)
      [] cmd = InSense      -> <<\h74, \h10>> \o deck.in.timecode
      [] cmd = OutSense     -> <<\h74, \h11>> \o deck.out.timecode
      [] cmd = AudInSense   -> <<\h74, \h12>> \o deck.ain.timecode
      [] cmd = AudOutSense  -> <<\h74, \h13>> \o deck.aout.timecode
      [] cmd = StatusSense  -> StatusBody(p[3], deck.status)
      [] cmd = SpeedSense   -> <<\h71, \h2E, deck.speed[1]>>
      [] cmd = PrerollSense -> <<\h74, \h31>> \o deck.preroll.timecode
      [] cmd = TimerMode    -> <<\h71, \h36, \h00>>
      [] OTHER -> Ack

Reply(p, deck) == IF ChecksumGood(p) THEN AddChecksum(ReplyBody(p, deck)) ELSE Nak

\* Answered in the kernel, and no business of user space.
Private == {DeviceType, TcGenSense, TcSense, InSense, OutSense, AudInSense, AudOutSense,
            SpeedSense, PrerollSense, TimerMode}

\* The flag of that name; the edit commands clear it and send a packet of
\* their own.
Usersend(p) == Cmd(p) \notin Private \cup Edits

\* An edit command goes up with the timecode at which it came, as six bytes
\* without a checksum; everything else that is not private goes up as it is.
Forward(p, deck) ==
    IF ~ChecksumGood(p) THEN <<>>
    ELSE IF Usersend(p) THEN SubSeq(p, 1, PktSize(p))
    ELSE IF Cmd(p) \in Edits THEN <<\h24, p[2]>> \o deck.tc.timecode
    ELSE <<>>
=============================================================================
