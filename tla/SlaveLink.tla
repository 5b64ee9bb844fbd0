----------------------------- MODULE SlaveLink -----------------------------
(***************************************************************************)
(* The P2 slave on the AJA card's UART (src/src/aja.c:1762-1862 and the    *)
(* UART parts of aja_irq_service, 2219-2260): a controller (an edit        *)
(* controller at the other end of the RS-422 line) asks, the interrupt     *)
(* handler collects the bytes of a packet, has p2slave_handle_pkt make the *)
(* answer and sends it through the transmit FIFO.                          *)
(*                                                                         *)
(* The line, the controller and the UART chip are external and modelled    *)
(* from how the driver uses them.  A byte may be lost or arrive damaged    *)
(* (MaxFaults times); the receive FIFO overruns at RxRoom bytes.  The      *)
(* interrupt request bits are latches the handler clears after it has      *)
(* served them; in a racing behaviour the chip moves in between as well,   *)
(* and what happens then raises no interrupt.  In a prompt one the bytes   *)
(* of an exchange that goes well do not take three wraps of the audio      *)
(* buffer.                                                                 *)
(***************************************************************************)
EXTENDS SlaveProtocol

CONSTANTS
    Requests,   \* the packets the controller sends
    Decks,      \* the states of dev->data considered
    RxRoom,     \* bytes in the receive FIFO
    TxRoom,     \* bytes in the transmit FIFO
    MaxFaults   \* bound of the model: line faults and hasty requests

ASSUME RoomAssumption == RxRoom \in Nat \ {0} /\ TxRoom \in Nat \ {0}
ASSUME FaultAssumption == MaxFaults \in Nat
\* The controller speaks the protocol: what it sends are packets.
ASSUME RequestAssumption ==
    \A r \in Requests : r \in Seq(Byte) \ {<<>>} /\ Len(r) = PktSize(r)
ASSUME DeckAssumption == Decks \subseteq DeckData

VARIABLES
    \* card->slavepkt and card->flags
    pktin,      \* in[0 .. inpt - 1]
    pktout,     \* out[outpt .. outsize - 1], what is left to send
    state,      \* "Rx" or "Tx"
    age,        \* irqcount[AJA_AudioWrap] - tstamp, while there is input
    resetUart,  \* flags & AJA_ResetUART
    service,    \* where the interrupt handler is: "idle", "rx", "tx"
    \* dev->data
    deck,
    \* the chip
    enabled,    \* both directions are switched together
    rx, tx,     \* its FIFOs
    rxError,    \* parity error or overrun
    rxIrq, txIrq,
    \* the line and the controller
    manner,     \* constant of the behaviour: "prompt", "slow" or "racing"
    line,       \* bytes sent to the card that have not arrived
    faults,
    \* history of an exchange in which nothing went wrong so far
    asked,      \* the request, sent to a link at rest
    heard,      \* the bytes of its answer that have arrived
    seen,       \* the decks there were while it was on its way
    pushed      \* the packets given to user space meanwhile

driver == <<pktin, pktout, state, age, resetUart>>
irqs   == <<rxIrq, txIrq>>
chip   == <<enabled, rx, tx, rxError, irqs>>
wire   == <<line, faults, manner>>
talk   == <<asked, heard, seen, pushed>>
vars   == <<driver, service, deck, chip, wire, talk>>

Init ==
    /\ pktin = <<>> /\ pktout = <<>> /\ state = "Rx"
    /\ age = 0 /\ resetUart = FALSE /\ service = "idle"
    /\ deck \in Decks
    /\ enabled = TRUE       \* aja_irqset(card, 1) by the first open
    /\ rx = <<>> /\ tx = <<>> /\ rxError = FALSE
    /\ rxIrq = FALSE /\ txIrq = FALSE
    /\ line = <<>> /\ faults = 0 /\ manner \in {"prompt", "slow", "racing"}
    /\ asked = <<>> /\ heard = <<>> /\ seen = {} /\ pushed = <<>>

races == manner = "racing"

AtRest ==
    /\ pktin = <<>> /\ state = "Rx" /\ enabled /\ ~resetUart /\ service = "idle"
    /\ rx = <<>> /\ tx = <<>> /\ ~rxError /\ ~rxIrq /\ line = <<>>

Answered(h) == h # <<>> /\ Len(h) = PktSize(h)
Clean   == asked # <<>>
Waiting == Clean /\ ~Answered(heard)

\* The exchange goes wrong: the controller's own timeout will end it.
Spoil == asked' = <<>> /\ heard' = <<>> /\ seen' = {} /\ pushed' = <<>>

Max32 == 32   \* the room the driver gives the packet in in[]

-----------------------------------------------------------------------------
(* Faulty variants of the operations below. *)

\* An error switches the UART off and nobody is told to switch it on.
RxOff ==
    /\ rxError \/ rx = <<>>
    /\ rxError' = FALSE
    /\ pktin' = <<>> /\ pktout' = <<>> /\ state' = "Rx" /\ age' = 0
    /\ rx' = <<>> /\ enabled' = FALSE
    /\ asked' = <<>> /\ heard' = <<>> /\ seen' = {} /\ pushed' = <<>>
    /\ UNCHANGED <<tx, resetUart>>

\* The packet is taken for complete a byte too late.
LateComplete(in) == Len(in) > PktSize(in)

\* The input of the packet that was answered is not reset.
KeepInput == pktin' = pktin /\ pktout' = <<>> /\ state' = "Rx" /\ age' = 0

\* outpt does not advance: the answer starts again at every interrupt.
TransmitAgain(in, out, stamp) ==
    LET room == TxRoom - Len(tx)
        n == IF Len(out) <= room THEN Len(out) ELSE room IN
    /\ tx' = tx \o SubSeq(out, 1, n)
    /\ pktin' = IF n = Len(out) THEN <<>> ELSE in
    /\ pktout' = IF n = Len(out) THEN <<>> ELSE out
    /\ state' = IF n = Len(out) THEN "Rx" ELSE "Tx"
    /\ age' = IF n = Len(out) THEN 0 ELSE stamp

\* A packet goes to user space twice.
PushTwice(p) == pushed' = IF Clean /\ p # <<>> THEN pushed \o <<p, p>> ELSE pushed

-----------------------------------------------------------------------------
(* aja_slavepkt_*, called by the interrupt handler. *)

ResetPkt == pktin' = <<>> /\ pktout' = <<>> /\ state' = "Rx" /\ age' = 0

\* Send what the transmit FIFO takes; the last byte makes room for a packet.  Until
\* then the packet's age is what it was when this was called.
Transmit(in, out, stamp) ==
    LET room == TxRoom - Len(tx)
        n == IF Len(out) <= room THEN Len(out) ELSE room IN
    /\ tx' = tx \o SubSeq(out, 1, n)
    /\ IF n = Len(out) THEN ResetPkt
       ELSE /\ pktout' = SubSeq(out, n + 1, Len(out))
            /\ pktin' = in
            /\ state' = "Tx"
            /\ age' = stamp

\* What is in the receive FIFO when it is switched off may stay or may go.
SwitchOff == rx' \in {rx, <<>>}

RxFails ==
    /\ rxError \/ rx = <<>>
    /\ rxError' = FALSE
    /\ ResetPkt
    /\ SwitchOff /\ enabled' = FALSE /\ resetUart' = TRUE
    /\ Spoil
    /\ UNCHANGED tx

Complete(in) == Len(in) >= PktSize(in)

PushPkt(p) == pushed' = IF Clean /\ p # <<>> THEN Append(pushed, p) ELSE pushed

RxBytes ==
    /\ ~rxError /\ rx # <<>>
    /\ LET room == Max32 - Len(pktin)
           n == IF Len(rx) <= room THEN Len(rx) ELSE room
           in == pktin \o SubSeq(rx, 1, n) IN
       /\ rx' = SubSeq(rx, n + 1, Len(rx))
       /\ IF Complete(in)
          THEN /\ Transmit(in, Reply(in, deck), 0)
               /\ PushPkt(Forward(in, deck))
          ELSE /\ pktin' = in
               /\ age' = 0
               /\ UNCHANGED <<pktout, state, tx, pushed>>
    /\ UNCHANGED <<rxError, resetUart, enabled, asked, heard, seen>>

\* aja_slavepkt_rx; the request bit is cleared afterwards.
RxIrq ==
    /\ service = "idle" /\ rxIrq
    /\ service' = "rx"
    /\ \/ state = "Tx" /\ UNCHANGED <<driver, rx, tx, rxError, enabled, talk>>
       \/ state = "Rx" /\ RxFails
       \/ state = "Rx" /\ RxBytes
    /\ UNCHANGED <<deck, irqs, wire>>

TxIrq ==
    /\ service = "idle" /\ txIrq
    /\ service' = "tx"
    /\ IF state = "Tx" THEN Transmit(pktin, pktout, age)
       ELSE UNCHANGED <<pktin, pktout, state, age, tx>>
    /\ UNCHANGED <<resetUart, enabled, rx, rxError, irqs, deck, wire, talk>>

ClearIrq ==
    /\ service # "idle"
    /\ service' = "idle"
    /\ rxIrq' = (rxIrq /\ service # "rx")
    /\ txIrq' = (txIrq /\ service # "tx")
    /\ UNCHANGED <<driver, deck, enabled, rx, tx, rxError, wire, talk>>

\* The third wrap of the audio buffer since the last input: the packet times
\* out and the UART is switched off.
TimedOut == pktin # <<>> /\ age + 1 > 2

\* Whatever asked for the UART to be reset, it is on again after the wrap.
AudioWrap ==
    /\ service = "idle"
    /\ (manner = "prompt" /\ Waiting) => ~TimedOut
    /\ IF TimedOut
       THEN ResetPkt /\ SwitchOff /\ Spoil
       ELSE /\ age' = IF pktin = <<>> THEN 0 ELSE age + 1
            /\ UNCHANGED <<pktin, pktout, state, rx, talk>>
    /\ resetUart' = FALSE
    /\ enabled' = (TimedOut \/ resetUart \/ enabled)
    /\ UNCHANGED <<service, deck, tx, rxError, irqs, wire>>

-----------------------------------------------------------------------------
(* The chip, the line, the controller and the ioctls that set dev->data. *)

ChipMoves == enabled /\ (service = "idle" \/ races)

Gone == line # <<>> /\ line' = Tail(line) /\ UNCHANGED manner

\* A byte arrives, into a FIFO that has room or not.
Arrive ==
    /\ Gone /\ ChipMoves
    /\ IF Len(rx) < RxRoom
       THEN rx' = Append(rx, Head(line)) /\ UNCHANGED <<rxError, talk>>
       ELSE rxError' = TRUE /\ Spoil /\ UNCHANGED rx
    /\ rxIrq' = TRUE
    /\ UNCHANGED <<driver, service, deck, enabled, tx, txIrq, faults>>

\* A byte does not arrive: the receiver is off, or the line lost it.
LoseByte ==
    /\ Gone
    /\ IF enabled THEN faults < MaxFaults /\ faults' = faults + 1 ELSE UNCHANGED faults
    /\ Spoil
    /\ UNCHANGED <<driver, service, deck, chip>>

ParityError ==
    /\ Gone /\ ChipMoves
    /\ faults < MaxFaults /\ faults' = faults + 1
    /\ rxError' = TRUE /\ rxIrq' = TRUE
    /\ Spoil
    /\ UNCHANGED <<driver, service, deck, enabled, rx, tx, txIrq>>

\* A byte leaves the transmit FIFO, which asks for more when it is empty.
Shift ==
    /\ tx # <<>> /\ ChipMoves
    /\ tx' = Tail(tx)
    /\ txIrq' = (txIrq \/ Len(tx) = 1)
    /\ heard' = IF Clean THEN Append(heard, Head(tx)) ELSE heard
    /\ UNCHANGED <<driver, service, deck, enabled, rx, rxError, rxIrq, wire, asked, seen, pushed>>

Ask(r) ==
    /\ AtRest /\ ~Waiting
    /\ line' = r /\ UNCHANGED manner
    /\ asked' = r /\ heard' = <<>> /\ seen' = {deck} /\ pushed' = <<>>
    /\ UNCHANGED <<driver, service, deck, chip, faults>>

\* The controller has given up on an answer and asks again, in whatever state
\* the link is.
AskHastily(r) ==
    /\ line = <<>> /\ line' = r /\ UNCHANGED manner
    /\ faults < MaxFaults /\ faults' = faults + 1
    /\ Spoil
    /\ UNCHANGED <<driver, service, deck, chip>>

\* A setter, each one under datalock.
SetDeck(d) ==
    /\ deck' = d
    /\ seen' = IF Waiting THEN seen \cup {d} ELSE seen
    /\ UNCHANGED <<driver, service, chip, wire, asked, heard, pushed>>

Driver == RxIrq \/ TxIrq \/ ClearIrq

Next ==
    \/ Driver \/ AudioWrap
    \/ Arrive \/ LoseByte \/ ParityError \/ Shift
    \/ \E r \in Requests : Ask(r) \/ AskHastily(r)
    \/ \E d \in Decks : SetDeck(d)

Spec == Init /\ [][Next]_vars

\* The audio buffer goes round as long as the card lives, an interrupt that
\* began is acknowledged, and every invocation looks for the wrap first.
WrapSpec == Spec /\ WF_vars(ClearIrq) /\ SF_vars(AudioWrap)

\* Where no interrupt gets lost, moreover, they are served and the chip works;
\* nobody has to ask.
FairSpec ==
    /\ WrapSpec
    /\ WF_vars(~races /\ Driver) /\ WF_vars(~races /\ Arrive) /\ WF_vars(~races /\ Shift)

-----------------------------------------------------------------------------
(* Properties *)

\* Type correctness of the packet machine and the UART (aja_slavepkt_t,
\* aja.c:364-376).
TypeOK ==
    /\ pktin \in Seq(Byte) /\ pktout \in Seq(Byte)
    /\ state \in {"Rx", "Tx"} /\ age \in 0 .. 2
    /\ service \in {"idle", "rx", "tx"}
    /\ rx \in Seq(Byte) /\ tx \in Seq(Byte) /\ Len(rx) <= RxRoom /\ Len(tx) <= TxRoom
    /\ resetUart \in BOOLEAN /\ enabled \in BOOLEAN /\ rxError \in BOOLEAN
    /\ rxIrq \in BOOLEAN /\ txIrq \in BOOLEAN
    /\ deck \in Decks

\* The packet never outgrows the room the driver gives it, and what is kept
\* while receiving is a packet that is not complete (aja.c:1841-1853).
InputBounded ==
    /\ Len(pktin) <= Max32
    /\ state = "Rx" => (pktin = <<>> \/ ~Complete(pktin)) /\ pktout = <<>>
    /\ state = "Tx" => pktout # <<>> /\ Len(pktin) >= 3

\* A request sent to a link at rest, on a line without faults, is answered by
\* its own reply with data the deck had meanwhile, byte by byte in order,
\* whatever the interrupts and the FIFOs made of it (aja.c:1813-1862).
AnswerRight ==
    Clean => \E d \in seen :
        IF Waiting THEN IsPrefix(heard, Reply(asked, d)) ELSE heard = Reply(asked, d)

\* Such a request reaches user space once if it is one user space has to see,
\* and before its answer goes out (p2slave_main.c:460-464).
PassedOnOnce ==
    LET passed == {<<Forward(asked, d)>> : d \in seen} IN
    (Clean /\ Forward(asked, deck) # <<>>) =>
        (pushed = <<>> /\ heard = <<>>) \/ pushed \in passed

\* While the wraps go on, the slave is ready to listen again and again:
\* neither a lost interrupt nor an error parks it in transmission or with the
\* UART off (aja.c:2223-2237).
ListensAgain == []<>(state = "Rx" /\ enabled)

\* Where no interrupt gets lost and bytes take no three wraps of the audio
\* buffer, the answer comes, unless a fault or an overrun ends the exchange: the
\* driver waits for no byte that the controller has not to send, and sends what
\* it has (aja.c:1813-1862).
AnswerComes == (Waiting /\ manner = "prompt") ~> ~Waiting
=============================================================================
