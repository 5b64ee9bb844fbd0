------------------------------ MODULE Timecode ------------------------------
(***************************************************************************)
(* Timecode from the card to its readers: the registers of one LTC card    *)
(* and who uses them (TimecodeCard), and the coming and going of the       *)
(* devices and of their cards (TimecodeDevices).  What TimecodeCard has of *)
(* it, one card's registration around its readers, is the part that the    *)
(* two share; they are checked one at a time, and which picks the one.     *)
(***************************************************************************)
EXTENDS TimecodeCard

CONSTANTS Cards, PCIe, Test, Slots, Nobody     \* TimecodeDevices

ASSUME DevicesAssumption ==
    PCIe \subseteq Cards /\ Test \notin Cards /\ Nobody \notin Cards \cup {Test}

VARIABLES which, misfortune, tcio, pcitc, class, probed, cardct, at, step, held, devs,
          reading, found

D == INSTANCE TimecodeDevices WITH unlucky <- misfortune, Freedoms <- {"map", "stale"}

devices == <<misfortune, tcio, pcitc, class, probed, cardct, at, step, held, devs,
             reading, found>>

OneInit ==
    /\ which \in {"card", "devices"} /\ Init /\ D!Init
    /\ which = "devices" => bus = "pci"

CardMoves == which = "card" /\ Next /\ UNCHANGED <<which, devices>>
DevicesMove == which = "devices" /\ D!Next /\ UNCHANGED <<which, vars>>

OneSpec == OneInit /\ [][CardMoves \/ DevicesMove]_<<which, vars, devices>>

\* A device that is gone has nothing left (pcitc_main.c:118-133, 668-727,
\* tcio.c:161-172).
DevicesLeaveNothing == D!DevicesLeaveNothing

\* Who reads a device's files, or found it, finds what is behind it (tcio.c:153-172,
\* pcitc_main.c:669-678, 710).
DevicesUsedLive == D!DevicesUsedLive
=============================================================================
