--------------------------- MODULE CardRegisters ---------------------------
(***************************************************************************)
(* Writes to the AJA card's registers by several at once (src/src/aja.c:   *)
(* 462-533, 562-572, 1030-1086, 1088-1216, 1674-1679, 2065-2070, 2145-2274  *)
(* and 2287-2293).                                                         *)
(* aja_prset reads a register, changes the bits of a field and writes it   *)
(* back, under the spin lock spin_reg.  The card itself takes no lock: an  *)
(* engine that ends clears its bit at any time.                            *)
(*                                                                         *)
(* Users are the processes and the interrupt handler.  Processes in an     *)
(* ioctl exclude each other (big kernel lock, bkl), but for the ones that  *)
(* sleep; so does open() up to 2.6.26.  One thing is left to luck: an      *)
(* engine may end between the reading and the writing of the register that *)
(* holds its go bit (ended); then it is set going again.                   *)
(***************************************************************************)
EXTENDS RegisterMap, Sequences, SequencesExt

CONSTANTS
    Procs,
    Admins,        \* the processes that do more than open and transfer
    Handler,       \* the interrupt handler, not a process
    Nobody,
    Arrivals,      \* the interrupts that come besides those of the engines, by
                   \* their places in Irqs
    Ids            \* firmware ids, not 0

Users   == Procs \cup {Handler}
Engines == 1 .. 3

VARIABLES
    \* the card (external): the bits its registers hold, the interrupts it asks
    \* for, the firmware in it; in register 48 an engine's bit is set while it runs
    reg, latched, fpga,
    bkl,        \* who holds the big kernel lock
    fwid,
    phase,      \* what a user is doing
    writes,     \* the writes it still has to do
    mid,        \* the users between reading and writing a register
    rd,         \* the register as they read it
    pos,        \* the handler's place among the interrupts
    eng,        \* the engine of a process in aja_dma, 0 without
    \* history
    ended,      \* the engines that ended between the reading and the writing
    asked,      \* the value of the last irqset that was completed
    capture     \* who started a capture since DMA 3's interrupt was switched off

card    == <<reg, latched, fpga>>
prset   == <<writes, mid, rd>>
history == <<ended, asked, capture>>
vars    == <<card, bkl, fwid, phase, prset, pos, eng, history>>

\* A write of 0 or 1 to a field.
W(field, value) == <<field, value>>

Field(u) == Head(writes[u])[1]

Init ==
    /\ reg = [r \in {20, 48, 49} |-> {}] /\ latched = {} /\ fpga = 0
    /\ bkl = Nobody
    /\ fwid = 0
    /\ phase = [u \in Users |-> "idle"]
    /\ writes = [u \in Users |-> <<>>] /\ mid = {} /\ rd = [u \in Users |-> {}]
    /\ pos = 1
    /\ eng = [p \in Procs |-> 0]
    /\ ended = {} /\ asked = 0 /\ capture = Nobody

\* The fields aja_irqset writes, in its order; on a card with a UART its
\* fields follow.
EnableFields ==
    <<BusError.irqenable, Dma[1].irqenable, Dma[2].irqenable, Dma[3].irqenable,
      Output.irqenable, Input1.irqenable, Input2.irqenable, AudioWrap.irqenable>>

\* The order in which the handler looks at the interrupts; those behind Dma[1]
\* only if VIV is high.
Irqs == <<BusError, Dma[4], Dma[3], Dma[2], Dma[1],
          Output, Input1, Input2, AudioWrap, UartTx, UartRx,
      Audio, AplayWrap, AcapWrap>>

\* Of what aja_acap_start writes the first goes to a register of others.
CaptureIrq == W(Dma[3].irqenable, 1)

-----------------------------------------------------------------------------
(* Faulty variants. *)

\* prset does not wait for the lock.
NoLock == TRUE

\* The loader gives up and keeps the id.
KeepId == UNCHANGED fwid

\* Whoever waited in vain stops the first engine.
FirstEngine(p) == 1

-----------------------------------------------------------------------------
(* aja_prset *)

\* What the card does with a write: bits that clear interrupts do so, the
\* other read-only bits are ignored, and the bits of register 48 start and
\* stop the engines.  Bits that are [Write Only] read as 0.
CardWrite(r, bits) ==
    /\ reg' = [reg EXCEPT ![r] = bits \cap (0 .. 8)]
    /\ latched' = {i \in latched : ~(Reg(Irqs[i].irqclear) = r /\ Bits(Irqs[i].irqclear) \subseteq bits)}
    /\ UNCHANGED fpga

Changed(bits, w) ==
    (bits \ Bits(w[1])) \cup (IF w[2] = 1 THEN Bits(w[1]) ELSE {})

\* spin_reg is free.
LockFree == mid = {}

PrsetRead(u) ==
    /\ writes[u] # <<>> /\ u \notin mid
    /\ LockFree
    /\ mid' = mid \cup {u}
    /\ rd' = [rd EXCEPT ![u] = reg[Reg(Field(u))]]
    /\ UNCHANGED <<card, bkl, fwid, phase, writes, pos, eng, history>>

PrsetWrite(u) ==
    /\ u \in mid
    /\ CardWrite(Reg(Field(u)), Changed(rd[u], Head(writes[u])))
    /\ writes' = [writes EXCEPT ![u] = Tail(@)]
    /\ mid' = mid \ {u}
    /\ rd' = [rd EXCEPT ![u] = {}]
    /\ ended' = {}
    /\ capture' = CASE Head(writes[u]) = W(Dma[3].irqenable, 0) -> Nobody
                    [] Head(writes[u]) = CaptureIrq /\ phase[u] \in {"capture", "irq"} -> u
                    [] OTHER -> capture
    /\ UNCHANGED <<bkl, fwid, phase, pos, eng, asked>>

-----------------------------------------------------------------------------
(* The ioctls, and open. *)

Ready(p) == phase[p] = "idle"

\* A call that writes registers before it goes on or returns.
Enter(p, a, ws) ==
    /\ Ready(p) /\ bkl = Nobody
    /\ bkl' = p
    /\ phase' = [phase EXCEPT ![p] = a]
    /\ writes' = [writes EXCEPT ![p] = ws]
    /\ UNCHANGED <<card, mid, rd, pos, history>>

Wrote(p, a) == phase[p] = a /\ writes[p] = <<>>

Leave(p) ==
    /\ phase' = [phase EXCEPT ![p] = "idle"]
    /\ bkl' = IF bkl = p THEN Nobody ELSE bkl

\* aja_irqset
StopEngines(v) == IF v = 0 THEN [e \in Engines |-> W(Dma[e].go, 0)] ELSE <<>>

IrqSet(v) == StopEngines(v) \o [i \in DOMAIN EnableFields |-> W(EnableFields[i], v)]

IrqEnable(p, v) ==
    /\ Enter(p, IF v = 0 THEN "off" ELSE "on", IrqSet(v))
    /\ UNCHANGED <<fwid, eng>>

Open(p) == IrqEnable(p, 1)

IrqSetDone(p) ==
    /\ Wrote(p, "on") \/ Wrote(p, "off")
    /\ asked' = IF phase[p] = "on" THEN 1 ELSE 0
    /\ Leave(p)
    /\ UNCHANGED <<card, fwid, prset, pos, eng, ended, capture>>

AcapStart(p) ==
    /\ Enter(p, "capture", <<CaptureIrq>>)
    /\ UNCHANGED <<fwid, eng>>

AcapDone(p) ==
    /\ Wrote(p, "capture")
    /\ Leave(p)
    /\ UNCHANGED <<card, fwid, prset, pos, eng, history>>

-----------------------------------------------------------------------------
(* aja_firmware_load.  A load whose data cannot be copied changes nothing.   *)

LoadBegin(p, id) ==
    /\ Enter(p, "load", IrqSet(0))
    /\ fwid' = id
    /\ UNCHANGED eng

\* The card is put into programming mode.
LoadErase(p) ==
    /\ Wrote(p, "load")
    /\ fpga' = 0
    /\ asked' = 0
    /\ phase' = [phase EXCEPT ![p] = "ready"]
    /\ UNCHANGED <<reg, latched, bkl, fwid, prset, pos, eng, ended, capture>>

LoadUpload(p) ==
    /\ phase[p] = "ready"
    /\ phase' = [phase EXCEPT ![p] = "done"]
    /\ UNCHANGED <<card, bkl, fwid, prset, pos, eng, history>>

LoadReset(p) ==
    /\ phase[p] = "done"
    /\ fpga' = fwid
    /\ phase' = [phase EXCEPT ![p] = "alive"]
    /\ UNCHANGED <<reg, latched, bkl, fwid, prset, pos, eng, history>>

LoadAlive(p) ==
    /\ phase[p] = "alive"
    /\ phase' = [phase EXCEPT ![p] = "on"]
    /\ writes' = [writes EXCEPT ![p] = IrqSet(1)]
    /\ UNCHANGED <<card, bkl, fwid, mid, rd, pos, eng, history>>

ForgetId == fwid' = 0

\* One of the three waits runs out.  The interrupts stay off.
LoadGivesUp(p) ==
    /\ phase[p] \in {"ready", "done", "alive"}
    /\ ForgetId
    /\ Leave(p)
    /\ UNCHANGED <<card, prset, pos, eng, history>>

-----------------------------------------------------------------------------
(* aja_dma, as far as it writes registers that others write: the go bit.  A  *)
(* process sleeps without the big kernel lock.                               *)

FreeEngines == {e \in Engines : \A p \in Procs : eng[p] # e}

Running(e) == Bits(Dma[e].go) \subseteq reg[48]

DmaGo(p) ==
    \E e \in FreeEngines :
        /\ \A d \in FreeEngines : e <= d
        /\ Enter(p, "go", <<W(Dma[e].go, 1)>>)
        /\ eng' = [eng EXCEPT ![p] = e]
        /\ UNCHANGED fwid

DmaSleeps(p) ==
    /\ Wrote(p, "go")
    /\ phase' = [phase EXCEPT ![p] = "sleep"]
    /\ bkl' = Nobody
    /\ UNCHANGED <<card, fwid, prset, pos, eng, history>>

EngineOf(p) == eng[p]

DmaTimeOut(p) ==
    /\ phase[p] = "sleep" /\ bkl = Nobody
    /\ bkl' = p
    /\ phase' = [phase EXCEPT ![p] = "stop"]
    /\ writes' = [writes EXCEPT ![p] = <<W(Dma[EngineOf(p)].go, 0)>>]
    /\ UNCHANGED <<card, fwid, mid, rd, pos, eng, history>>

DmaReturns(p) ==
    /\ \/ phase[p] = "sleep" /\ bkl = Nobody /\ ~Running(eng[p])
       \/ Wrote(p, "stop")
    /\ Leave(p)
    /\ eng' = [eng EXCEPT ![p] = 0]
    /\ UNCHANGED <<card, fwid, prset, pos, history>>

-----------------------------------------------------------------------------
(* The card and the interrupt handler. *)

Arrive(i) ==
    /\ latched' = latched \cup {i}
    /\ UNCHANGED <<reg, fpga, bkl, fwid, phase, prset, pos, eng, history>>

EngineEnds(e) ==
    /\ Running(e)
    /\ reg' = [reg EXCEPT ![48] = @ \ Bits(Dma[e].go)]
    /\ latched' = latched \cup {6 - e}
    /\ ended' = IF mid = {} THEN {} ELSE ended \cup {e}
    /\ UNCHANGED <<fpga, bkl, fwid, phase, prset, pos, eng, asked, capture>>

HandlerEnters ==
    /\ phase[Handler] = "idle" /\ latched # {}
    /\ phase' = [phase EXCEPT ![Handler] = "irq"]
    /\ UNCHANGED <<card, bkl, fwid, prset, pos, eng, history>>

Pending == {i \in pos .. Len(Irqs) : i \in latched}

\* A frame that comes out may be the one that starts a capture (atrig).
AtFrame(i) == IF Irqs[i] = Output THEN <<CaptureIrq>> ELSE <<>>

HandlerServes ==
    /\ Wrote(Handler, "irq")
    /\ \E i \in Pending :
         /\ \A j \in Pending : i <= j
         /\ pos' = i + 1
         /\ \E more \in {<<>>, AtFrame(i)} :
              writes' = [writes EXCEPT ![Handler] = <<W(Irqs[i].irqclear, 1)>> \o more]
    /\ UNCHANGED <<card, bkl, fwid, phase, mid, rd, eng, history>>

\* All done, or VIV is low.
HandlerLeaves ==
    /\ Wrote(Handler, "irq")
    /\ \A i \in Pending : i > 5
    /\ phase' = [phase EXCEPT ![Handler] = "idle"]
    /\ pos' = 1
    /\ UNCHANGED <<card, bkl, fwid, prset, eng, history>>

-----------------------------------------------------------------------------
Load(p) ==
    \/ \E id \in Ids : LoadBegin(p, id)
    \/ LoadErase(p) \/ LoadUpload(p) \/ LoadReset(p) \/ LoadAlive(p) \/ LoadGivesUp(p)

Transfer(p) == DmaGo(p) \/ DmaSleeps(p) \/ DmaTimeOut(p) \/ DmaReturns(p)

Process(p) == Open(p) \/ IrqSetDone(p) \/ Transfer(p)

Admin(p) ==
    \/ \E v \in {0, 1} : IrqEnable(p, v)
    \/ AcapStart(p) \/ AcapDone(p)
    \/ Load(p)

Next ==
    \/ \E p \in Procs : Process(p)
    \/ \E p \in Admins : Admin(p)
    \/ \E u \in Users : PrsetRead(u) \/ PrsetWrite(u)
    \/ \E i \in Arrivals : Arrive(i)
    \/ \E e \in Engines : EngineEnds(e)
    \/ HandlerEnters \/ HandlerServes \/ HandlerLeaves

Spec == Init /\ [][Next]_vars

-----------------------------------------------------------------------------
(* Properties *)

\* Type correctness of the card's registers and their users (aja.c:462-486).
TypeOK ==
    /\ reg \in [{20, 48, 49} -> SUBSET (0 .. 8)]
    /\ latched \subseteq DOMAIN Irqs
    /\ bkl \in Procs \cup {Nobody}
    /\ fwid \in Ids \cup {0} /\ fpga \in Ids \cup {0}
    /\ mid \subseteq Users
    /\ pos \in 1 .. Len(Irqs) + 1
    /\ eng \in [Procs -> Engines \cup {0}]
    /\ ended \subseteq Engines /\ asked \in {0, 1} /\ capture \in Users \cup {Nobody}

\* A user's write has just reached the card.
Writes(u, w) == u \in mid /\ u \notin mid' /\ Head(writes[u]) = w

\* The go bits of all engines share a register that is read and written back
\* for each of them: an engine that runs stops by itself, or is stopped by the
\* process that uses it or by a call that stops them all, and one that has ended
\* or was stopped is not set going again but by who got it, unless it ended just
\* between another's reading and writing (aja.c:481-485, 1066-1070).
Stops(p, e) ==
    Writes(p, W(Dma[e].go, 0)) /\ (eng[p] = e \/ phase[p] \in {"off", "load"})

OwnWritesOnly ==
    \A e \in Engines :
        /\ (Running(e) /\ ~Running(e)') => mid' = mid \/ \E p \in Procs : Stops(p, e)
        /\ (~Running(e) /\ Running(e)' /\ e \notin ended) =>
              \E p \in Procs : Writes(p, W(Dma[e].go, 1)) /\ eng[p] = e

EnginesOwnTheirBits == [][OwnWritesOnly]_vars

\* The bits that enable interrupts, register by register.
EnableBits ==
    [r \in {20, 49} |-> UNION {Bits(f) : f \in {g \in Range(EnableFields) : Reg(g) = r}}]

Settling == \E p \in Procs : phase[p] \in {"on", "off", "load"}

\* What is enabled: everything or nothing, but for the interrupt of DMA 3 when a
\* capture was started since it was switched off.
Enabled(r) ==
    IF asked = 1 THEN EnableBits[r]
    ELSE IF r = 49 /\ capture # Nobody THEN Bits(Dma[3].irqenable) ELSE {}

\* The enables are what the last call asked for, and a capture enabled, whatever
\* interrupts the handler cleared in the same registers meanwhile (aja.c:509-533,
\* 564, 2065-2068, 2145-2274); nothing is lost of what user space wrote there.
EnablesAsAsked ==
    ~Settling => \A r \in {20, 49} : reg[r] \cap EnableBits[r] = Enabled(r)

Programming == \E p \in Procs : phase[p] \in {"ready", "done", "alive"}

\* While the card is programmed no engine runs, and no interrupt is enabled but
\* by the handler, which may start a capture on DMA 3 without the big kernel lock
\* (aja.c:1146-1166, 2065-2068).
QuietWhileProgrammed ==
    Programming =>
        /\ \A e \in Engines : ~Running(e)
        /\ \A r \in {20, 49} :
             reg[r] \cap EnableBits[r] =
                 IF r = 49 /\ capture = Handler THEN Bits(Dma[3].irqenable) ELSE {}

\* The firmware id the driver reports is that of the firmware in the card,
\* after loads that failed half way too (aja.c:1147, 1175, 1215).
FwidTrue == (bkl = Nobody /\ fwid # 0) => fpga = fwid

\* A load disturbs no transfer under way and tells no lies about its outcome
\* (aja.c:1141-1177, 1215).
LoadsCleanly == QuietWhileProgrammed /\ FwidTrue
=============================================================================
