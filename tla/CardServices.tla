---------------------------- MODULE CardServices ----------------------------
(***************************************************************************)
(* What the AJA driver does for a card besides streams, transfers and the  *)
(* deck: writing registers that several write (R), waking who sleeps for   *)
(* an interrupt (S), counting out frames of sound (A), and the coming and  *)
(* going of cards (L).  The four share no state of the driver, so they are *)
(* checked one at a time: which picks the one that moves.                  *)
(***************************************************************************)
EXTENDS Integers

CONSTANTS
    Procs, Admins, Handler, Nobody, Arrivals, Ids,     \* CardRegisters
    Sleepers, Types, NewField, Frame, MaxIrqs,         \* IrqSleep
    MaxAdd,                                            \* AudioFrames
    Cards, Slots, MaxCards, Freedoms                   \* CardLifecycle

ASSUME HandlerAssumption == Handler \notin Procs
ASSUME AdminsAssumption == Admins \subseteq Procs
ASSUME BoundAssumption == MaxAdd \in Nat
ASSUME NobodyAssumption == Nobody \notin Cards \cup Procs \cup {Handler}

VARIABLES
    which,
    reg, latched, fpga, bkl, fwid, phase, writes, mid, rd, pos, eng, ended, asked, capture,
    count, owing, pc, src, cirq, declared, signals, since,
    careless, frames, running, reset, todo, added, heard,
    unlucky, slave, module, globals, cards, tried, at, step, held, index, deck,
    devs, hand, open, deckopen

R == INSTANCE CardRegisters
S == INSTANCE IrqSleep WITH Procs <- Sleepers
A == INSTANCE AudioFrames
L == INSTANCE CardLifecycle

registers == <<reg, latched, fpga, bkl, fwid, phase, writes, mid, rd, pos, eng, ended, asked, capture>>
sleep     == <<count, owing, pc, src, cirq, declared, signals, since>>
audio     == <<careless, frames, running, reset, todo, added, heard>>
lifecycle == <<unlucky, slave, module, globals, cards, tried, at, step, held, index, deck,
               devs, hand, open, deckopen>>
vars == <<which, registers, sleep, audio, lifecycle>>

Init ==
    /\ which \in {"registers", "sleep", "audio", "lifecycle"}
    /\ R!Init /\ S!Init /\ A!Init /\ L!Init
    /\ careless => which = "audio"

Registers ==
    which = "registers" /\ R!Next /\ UNCHANGED <<which, sleep, audio, lifecycle>>

Sleep ==
    which = "sleep" /\ S!Next /\ UNCHANGED <<which, registers, audio, lifecycle>>

Audio ==
    which = "audio" /\ A!Next /\ UNCHANGED <<which, registers, sleep, lifecycle>>

Lifecycle ==
    which = "lifecycle" /\ L!Next /\ UNCHANGED <<which, registers, sleep, audio>>

Next == Registers \/ Sleep \/ Audio \/ Lifecycle

Spec == Init /\ [][Next]_vars

-----------------------------------------------------------------------------
(* The properties are those of the parts. *)

\* Type correctness of the four (aja.c:462-486, 1260-1290, 2116-2127, 2403-2534).
TypeOK == R!TypeOK /\ S!TypeOK /\ L!TypeOK

\* An engine is started and stopped by writes of its own bit (aja.c:481-485).
EnginesOwnTheirBits == R!EnginesOwnTheirBits

\* Interrupts are enabled as was asked last, and by starts of captures (aja.c:509-533,
\* 564).
EnablesAsAsked == R!EnablesAsAsked

\* No engine and no interrupt while a card is programmed, but for the one a capture
\* enables in the handler; the firmware id is that of the firmware in the card
\* (aja.c:1141-1177, 1215, 2065-2068).
LoadsCleanly == R!LoadsCleanly

\* The next interrupt wakes who waits for one (aja.c:1260-1275).
NextInterruptWakes == S!NextInterruptWakes

\* Who waits for a frame misses none (aja.c:1283-1290).
NoFrameMissed == S!NoFrameMissed

\* Sound plays for as many frames as were added (aja.c:2117-2127).
PlaysWhatWasAdded == A!PlaysWhatWasAdded

\* A card that is gone has nothing left (aja.c:2507-2549).
CardsLeaveNothing == L!CardsLeaveNothing

\* Handler and files use what is there (aja.c:2525-2549).
CardsUsedLive == L!CardsUsedLive

\* Cards have device numbers of their own (aja.c:755, 2449, 2494).
NumbersDistinct == L!NumbersDistinct
=============================================================================
