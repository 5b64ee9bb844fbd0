------------------------- MODULE CardServicesProofs -------------------------
(***************************************************************************)
(* Theorems about the services of an AJA card, for any number of           *)
(* processes, interrupts, frames of sound, cards and places for decks.     *)
(*                                                                         *)
(* Sleeping: whoever has declared itself asleep is between its declaration *)
(* and its schedule(), and has seen no interrupt since, or is about to be  *)
(* woken; the handler takes the next interrupt only when it has woken all  *)
(* whom it owes it.                                                        *)
(*                                                                         *)
(* Registers: the engines whose go bits share a register do not stop or    *)
(* start one another, and the registers that are theirs alone do not       *)
(* overlap.                                                                *)
(*                                                                         *)
(* Coming and going: how far a probe or a removal has got bounds what the  *)
(* card holds, from above (nothing is left behind) and from below (nothing *)
(* is used that is not there).                                             *)
(***************************************************************************)
EXTENDS CardServices, SequenceTheorems, TLAPS

M == INSTANCE RegisterMap

-----------------------------------------------------------------------------
(* Sleeping for an interrupt or a frame (src/src/aja.c:1252-1310) *)

\* Who is declared asleep sleeps, or is about to, a waiter for a frame after one
\* more look; and it has missed nothing.
DeclaredInTime(p) ==
    p \in declared =>
        /\ pc[p] \in {"check", "schedule", "asleep"}
        /\ pc[p] = "check" => src[p] = Frame
        /\ count[src[p]] = since[p] \/ src[p] \in owing

\* For a frame: once it has checked, nothing has happened since it was called.
CheckedInTime(p) ==
    (p \in declared /\ src[p] = Frame /\ pc[p] \in {"schedule", "asleep"}) =>
        count[Frame] = cirq[p] \/ Frame \in owing

SleepInv ==
    /\ S!TypeOK
    /\ \A p \in Sleepers : DeclaredInTime(p) /\ CheckedInTime(p)

LEMMA SleepTypes == S!TypeOK /\ S!Next => S!TypeOK'
<1> SUFFICES ASSUME S!TypeOK, S!Next PROVE S!TypeOK'
    OBVIOUS
<1> USE DEF S!TypeOK, S!Sources, S!process, S!Goto
<1>1. CASE \E t \in Types, first \in BOOLEAN : S!Interrupt(t, first)
    BY <1>1 DEF S!Interrupt, S!Counted, S!Owed
<1>2. CASE \E s \in S!Sources : S!WakeUpAll(s)
    BY <1>2 DEF S!WakeUpAll
<1>3. ASSUME NEW p \in Sleepers, S!Process(p) PROVE S!TypeOK'
    <2>1. CASE \E s \in S!Sources : S!Call(p, s)
        BY <2>1 DEF S!Call
    <2>2. CASE S!Queue(p) \/ S!Declare(p) \/ S!Check(p)
        BY <2>2 DEF S!Queue, S!Declare, S!Check, S!LoopsTo
    <2>3. CASE S!Happened(p) \/ S!GiveWay(p) \/ S!TimeOut(p)
        BY <2>3 DEF S!Happened, S!GiveWay, S!TimeOut, S!Leave
    <2>4. CASE S!Schedule(p) \/ S!WakesUp(p) \/ S!Signal(p)
        BY <2>4 DEF S!Schedule, S!WakesUp, S!Signal, S!LoopsTo
    <2> QED BY <1>3, <2>1, <2>2, <2>3, <2>4 DEF S!Process, S!Runs
<1> QED BY <1>1, <1>2, <1>3 DEF S!Next

\* An interrupt is owed to whoever sleeps for it, and comes only when nothing is
\* owed.
LEMMA SleepInterrupt ==
    ASSUME SleepInv, NEW t \in Types, NEW first \in BOOLEAN, S!Interrupt(t, first)
    PROVE  \A p \in Sleepers : (DeclaredInTime(p) /\ CheckedInTime(p))'
<1> TAKE p \in Sleepers
<1>1. src[p] \in S!Sources /\ UNCHANGED <<pc, src, cirq, declared, since>> /\ Frame \in S!Sources
    BY DEF SleepInv, S!TypeOK, S!Interrupt, S!process, S!Sources
<1>2. \A s \in S!Sources : count'[s] = count[s] \/ s \in owing'
    BY DEF SleepInv, S!TypeOK, S!Interrupt, S!Owed
<1> QED BY <1>1, <1>2 DEF SleepInv, S!Interrupt, DeclaredInTime, CheckedInTime

\* Whoever is on the queue of the interrupt is no longer declared asleep.
LEMMA SleepWakeUp ==
    ASSUME SleepInv, NEW s \in S!Sources, S!WakeUpAll(s)
    PROVE  \A p \in Sleepers : (DeclaredInTime(p) /\ CheckedInTime(p))'
BY DEF SleepInv, S!WakeUpAll, S!Waits, DeclaredInTime, CheckedInTime

LEMMA SleepStep == SleepInv /\ S!Next => SleepInv'
<1> SUFFICES ASSUME SleepInv, S!Next PROVE SleepInv'
    OBVIOUS
<1>1. S!TypeOK'
    BY SleepTypes DEF SleepInv
<1>2. ASSUME NEW p \in Sleepers, S!Process(p)
      PROVE  \A q \in Sleepers : (DeclaredInTime(q) /\ CheckedInTime(q))'
    <2> USE DEF SleepInv, S!TypeOK, S!Goto, DeclaredInTime, CheckedInTime
    <2>1. CASE \E s \in S!Sources : S!Call(p, s)
        BY <2>1 DEF S!Call
    <2>2. CASE S!Queue(p) \/ S!Schedule(p) \/ S!WakesUp(p)
        BY <2>2 DEF S!Queue, S!Schedule, S!WakesUp, S!LoopsTo
    <2>3. CASE S!Declare(p)
        BY <2>3 DEF S!Declare
    <2>4. CASE S!Check(p)
        BY <2>4 DEF S!Check, S!Same
    <2>5. CASE S!Happened(p) \/ S!GiveWay(p) \/ S!TimeOut(p)
        BY <2>5 DEF S!Happened, S!GiveWay, S!TimeOut, S!Leave
    <2>6. CASE S!Signal(p)
        BY <2>6 DEF S!Signal
    <2> QED BY <1>2, <2>1, <2>2, <2>3, <2>4, <2>5, <2>6 DEF S!Process, S!Runs
<1> QED BY <1>1, <1>2, SleepInterrupt, SleepWakeUp DEF SleepInv, S!Next

\* The sleepers of a card stay in step with its interrupts.
LEMMA SleepAlways == Spec => []SleepInv
<1>1. Init => SleepInv
    BY DEF Init, S!Init, SleepInv, S!TypeOK, S!Sources, DeclaredInTime, CheckedInTime
<1>2. SleepInv /\ UNCHANGED sleep => SleepInv'
    BY DEF sleep, SleepInv, S!TypeOK, DeclaredInTime, CheckedInTime
<1>3. SleepInv /\ [Next]_vars => SleepInv'
    BY <1>2, SleepStep DEF Next, Registers, Sleep, Audio, Lifecycle, vars
<1> QED BY <1>1, <1>3, PTL DEF Spec

\* For any number of processes and types of interrupts: a process that sleeps for
\* an interrupt has missed none since it declared itself asleep, or is about to be
\* woken (aja_ioctl_irqsleep, aja.c:1260-1275).
THEOREM NextInterruptAlwaysWakes == Spec => []NextInterruptWakes
<1>1. SleepInv => NextInterruptWakes
    BY DEF SleepInv, DeclaredInTime, NextInterruptWakes, S!NextInterruptWakes, S!FastAsleep
<1> QED BY <1>1, SleepAlways, PTL

\* For any number of processes: who sleeps in aja_wait_for_frame has missed no
\* frame since it was called, or is about to be woken (aja.c:1283-1290).
THEOREM NoFrameEverMissed == Spec => []NoFrameMissed
<1>1. SleepInv => NoFrameMissed
    BY DEF SleepInv, CheckedInTime, NoFrameMissed, S!NoFrameMissed, S!FastAsleep
<1> QED BY <1>1, SleepAlways, PTL

-----------------------------------------------------------------------------
(* Frames of sound (src/src/aja.c:2116-2127) *)

\* While the handler counts a frame down it was heard and is not yet taken off;
\* it stops sound it has counted down, and starts only what has not started.
Accounts ==
    /\ todo = "idle"  => heard + frames = added /\ running = 1 - reset /\ (reset = 0 => frames > 0)
    /\ todo = "count" => heard + frames = added + 1 /\ running = 1 /\ reset = 0 /\ frames > 0
    /\ todo = "stop"  => heard + frames = added
    /\ todo = "start" => heard + frames = added /\ frames > 0

AudioTypes ==
    /\ frames \in Int /\ added \in Int /\ heard \in Int
    /\ running \in {0, 1} /\ reset \in {0, 1}
    /\ todo \in {"idle", "count", "stop", "start"}

Thrifty == ~careless => frames >= 0 /\ Accounts

LEMMA AudioStep ==
    ASSUME MaxAdd \in Nat, AudioTypes, Thrifty, A!Next
    PROVE  (AudioTypes /\ Thrifty)'
<1> USE DEF AudioTypes, Thrifty, Accounts
<1>1. CASE A!Tick
    <2>1. CASE frames = 0
        BY <1>1, <2>1 DEF A!Tick, A!Playing, A!Begin
    <2>2. CASE frames # 0 /\ running = 1
        BY <1>1, <2>2 DEF A!Tick, A!Playing, A!Begin
    <2>3. CASE frames # 0 /\ running = 0
        BY <1>1, <2>3 DEF A!Tick, A!Playing, A!Begin
    <2> QED BY <2>1, <2>2, <2>3
<1>2. CASE A!CountDown
    BY <1>2 DEF A!CountDown
<1>3. CASE A!Stop \/ A!Start
    BY <1>3 DEF A!Stop, A!Start
<1>4. ASSUME NEW n \in -1 .. MaxAdd, A!Add(n) PROVE (AudioTypes /\ Thrifty)'
    BY <1>4 DEF A!Add
<1>5. ASSUME NEW on \in BOOLEAN, A!Playback(on) PROVE (AudioTypes /\ Thrifty)'
    BY <1>5 DEF A!Playback
<1> QED BY <1>1, <1>2, <1>3, <1>4, <1>5 DEF A!Next, A!Handle

\* However many frames are added and whenever they are: a program that only adds
\* hears what it added, no frame less and none twice (aja.c:2117-2127).
THEOREM SoundIsCounted == Spec => []PlaysWhatWasAdded
<1>1. Init => AudioTypes /\ Thrifty
    BY DEF Init, A!Init, AudioTypes, Thrifty, Accounts
<1>2. AudioTypes /\ Thrifty /\ UNCHANGED audio => (AudioTypes /\ Thrifty)'
    BY DEF audio, AudioTypes, Thrifty, Accounts
<1>3. AudioTypes /\ Thrifty /\ [Next]_vars => (AudioTypes /\ Thrifty)'
    BY <1>2, AudioStep, BoundAssumption DEF Next, Registers, Sleep, Audio, Lifecycle, vars
<1>4. AudioTypes /\ Thrifty => PlaysWhatWasAdded
    BY DEF AudioTypes, Thrifty, Accounts, PlaysWhatWasAdded, A!PlaysWhatWasAdded, A!Playing
<1> QED BY <1>1, <1>3, <1>4, PTL DEF Spec

-----------------------------------------------------------------------------
(* The registers (src/src/aja.c:462-533) *)

E == 1 .. 3

-----------------------------------------------------------------------------
(* The fields. *)

\* The fields of irqset and of the handler.
Enables == {R!EnableFields[i] : i \in 1 .. 8}
Clears  == {R!Irqs[i].irqclear : i \in 1 .. 14}
Others  == Enables \cup Clears

LEMMA EnableFieldsElsewhere ==
    ASSUME NEW i \in 1 .. 8
    PROVE  R!Reg(R!EnableFields[i]) \in {20, 49}
BY DEF R!EnableFields, R!Reg, R!BusError, R!Dma, R!Output, R!Input1, R!Input2, R!AudioWrap, R!Bit

LEMMA ClearFieldsElsewhere ==
    ASSUME NEW i \in 1 .. 14
    PROVE  R!Reg(R!Irqs[i].irqclear) \in {20, 49}
BY DEF R!Irqs, R!Reg, R!BusError, R!Dma, R!Output, R!Input1, R!Input2, R!AudioWrap, R!Audio,
       R!AplayWrap, R!AcapWrap, R!UartTx, R!UartRx, R!Bit

LEMMA OthersElsewhere == \A f \in Others : R!Reg(f) \in {20, 49}
BY EnableFieldsElsewhere, ClearFieldsElsewhere DEF Others, Enables, Clears

LEMMA GoBits ==
    ASSUME NEW e \in E
    PROVE  R!Reg(R!Dma[e].go) = 48 /\ R!Bits(R!Dma[e].go) = {e - 1}
BY DEF E, R!Dma, R!Reg, R!Bits, R!Bit
-----------------------------------------------------------------------------
(* The engines' bits. *)

Users == Procs \cup {Handler}

\* The field a capture writes.
DmaIrq == R!Dma[3].irqenable

LEMMA CaptureEnables ==
    /\ R!CaptureIrq = <<DmaIrq, 1>> /\ DmaIrq \in Enables
    /\ R!Reg(DmaIrq) = 49 /\ R!Bits(DmaIrq) = {2}
<1>1. R!EnableFields[4] = DmaIrq
    BY DEF R!EnableFields, DmaIrq
<1>2. R!CaptureIrq = <<DmaIrq, 1>>
    BY DEF R!CaptureIrq, R!W, DmaIrq
<1>3. R!Reg(DmaIrq) = 49 /\ R!Bits(DmaIrq) = {2}
    BY DEF DmaIrq, R!Dma, R!Reg, R!Bits, R!Bit
<1> QED BY <1>1, <1>2, <1>3 DEF Enables

\* The writes of aja_irqset.
Sets(v) == (Enables \X {v}) \cup (IF v = 0 THEN {<<R!Dma[d].go, 0>> : d \in E} ELSE {})

\* The writes that a user in phase a, with engine e, may have before it.
Fits(a, e) ==
    (IF a = "irq" THEN Clears \X {1} ELSE {})
      \cup (IF a \in {"irq", "capture"} THEN {R!CaptureIrq} ELSE {})
      \cup (IF a = "on" THEN Sets(1) ELSE {})
      \cup (IF a \in {"off", "load"} THEN Sets(0) ELSE {})
      \cup (IF a \in {"go", "stop"} THEN {<<R!Dma[e].go, v>> : v \in {0, 1}} ELSE {})

LEMMA WhatFits ==
    ASSUME NEW a, NEW e, NEW w, w \in Fits(a, e)
    PROVE  \/ w \in Others \X {0, 1}
           \/ a \in {"off", "load"} /\ \E d \in E : w = <<R!Dma[d].go, 0>>
           \/ a \in {"go", "stop"} /\ \E v \in {0, 1} : w = <<R!Dma[e].go, v>>
<1>1. R!CaptureIrq \in Others \X {0, 1}
    BY CaptureEnables DEF Others
<1> QED BY <1>1 DEF Fits, Sets, Others

Writing  == {"on", "off", "load", "go", "stop", "capture", "irq"}
Phases   == Writing \cup {"idle", "ready", "done", "alive", "sleep"}
EngOf(u) == IF u \in Procs THEN eng[u] ELSE 0

Shapes ==
    /\ reg \in [{20, 48, 49} -> SUBSET Int]
    /\ phase \in [Users -> Phases]
    /\ writes = [u \in Users |-> writes[u]]
    /\ rd = [u \in Users |-> rd[u]]
    /\ eng \in [Procs -> E \cup {0}]
    /\ mid \subseteq Users
    /\ pos \in Nat \ {0}

\* What a user writes fits what it is doing.
Fitting ==
    /\ \A u \in Users : writes[u] \in Seq(Fits(phase[u], EngOf(u)))
    /\ \A u \in Users : phase[u] \notin Writing => writes[u] = <<>>
    /\ \A p \in Procs : phase[p] \in {"go", "sleep", "stop"} => eng[p] \in E
    /\ phase[Handler] \in {"idle", "irq"}

\* One user is between reading and writing.  An engine that it has read not
\* to run has not begun to run since, and one that it has read to run and that
\* does not run any more has ended by itself since.
Reads48(u) ==
    R!Reg(R!Field(u)) = 48 =>
        \A e \in E :
            /\ e - 1 \in reg[48] => e - 1 \in rd[u]
            /\ e - 1 \in rd[u] /\ e - 1 \notin reg[48] => e \in ended

Window ==
    /\ \A u, v \in mid : u = v
    /\ \A u \in mid : writes[u] # <<>> /\ Reads48(u)

RInv == Shapes /\ Fitting /\ Window

\* What a user is about to write.
LEMMA HeadFits ==
    ASSUME Fitting, NEW u \in Users, writes[u] # <<>>
    PROVE  /\ Head(writes[u]) \in Fits(phase[u], EngOf(u))
           /\ Tail(writes[u]) \in Seq(Fits(phase[u], EngOf(u)))
<1>1. writes[u] \in Seq(Fits(phase[u], EngOf(u)))
    BY DEF Fitting
<1> QED BY <1>1, HeadTailProperties

\* Register 48 is only written for the go bits.
LEMMA WhoWrites48 ==
    ASSUME Handler \notin Procs, Shapes, Fitting, NEW u \in Users, writes[u] # <<>>,
           R!Reg(R!Field(u)) = 48
    PROVE  /\ u \in Procs
           /\ \E e \in E, v \in {0, 1} :
                /\ Head(writes[u]) = <<R!Dma[e].go, v>>
                /\ R!Field(u) = R!Dma[e].go
                /\ v = 0 => eng[u] = e \/ phase[u] \in {"off", "load"}
                /\ v = 1 => eng[u] = e
<1> DEFINE w == Head(writes[u])
<1>1. w \in Fits(phase[u], EngOf(u)) /\ R!Reg(w[1]) = 48 /\ R!Field(u) = w[1]
    BY HeadFits DEF R!Field
<1>2. w \notin Others \X {0, 1}
    BY <1>1, OthersElsewhere
<1>3. phase[u] \in {"off", "load", "go", "stop"}
    BY <1>1, <1>2, WhatFits
<1>4. u \in Procs
    BY <1>3 DEF Fitting, Users
<1>5. CASE phase[u] \in {"off", "load"}
    BY <1>1, <1>2, <1>4, <1>5, WhatFits
<1>6. CASE phase[u] \in {"go", "stop"}
    <2>1. PICK v \in {0, 1} : w = <<R!Dma[eng[u]].go, v>>
        BY <1>1, <1>2, <1>4, <1>6, WhatFits DEF EngOf
    <2>2. eng[u] \in E
        BY <1>4, <1>6 DEF Fitting
    <2> QED BY <1>1, <1>4, <2>1, <2>2
<1> QED BY <1>3, <1>4, <1>5, <1>6

\* The writes of a call.
LEMMA IrqSetFits ==
    ASSUME NEW v \in {0, 1}, NEW a, a = "on" => v = 1, a \in {"off", "load"} => v = 0, a \in {"on", "off", "load"}, NEW e
    PROVE  R!IrqSet(v) \in Seq(Fits(a, e))
<1> DEFINE F == Fits(a, e)
           one == R!StopEngines(v)
           two == [i \in 1 .. 8 |-> R!W(R!EnableFields[i], v)]
<1>1. one \in Seq(F)
    <2>1. CASE v = 0 /\ a \in {"off", "load"}
        <3>1. \A d \in 1 .. 3 : <<R!Dma[d].go, 0>> \in F
            BY <2>1 DEF Fits, Sets, E
        <3>2. one = [d \in 1 .. 3 |-> <<R!Dma[d].go, 0>>]
            BY <2>1 DEF R!StopEngines, R!W, R!Engines
        <3> QED BY <3>1, <3>2, IsASeq
    <2>2. CASE v = 1
        BY <2>2 DEF R!StopEngines
    <2> QED BY <2>1, <2>2
<1>2. two \in Seq(F)
    <2>1. \A i \in 1 .. 8 : R!W(R!EnableFields[i], v) \in F
        BY DEF R!W, Fits, Sets, Enables
    <2> QED BY <2>1, IsASeq
<1>3. DOMAIN R!EnableFields = 1 .. 8
    BY DEF R!EnableFields
<1>4. R!IrqSet(v) = one \o two
    BY <1>3 DEF R!IrqSet
<1> QED BY <1>1, <1>2, <1>4, ConcatProperties
-----------------------------------------------------------------------------
(* The steps. *)

\* A user who has nothing left to write goes on to something else.
LEMMA GoesOn ==
    ASSUME RInv, Handler \notin Procs,
           NEW u \in Users, writes[u] = <<>>, NEW a \in Phases, NEW ws, NEW e \in E \cup {0},
           phase' = [phase EXCEPT ![u] = a],
           writes' = [writes EXCEPT ![u] = ws],
           u \in Procs => eng' = [eng EXCEPT ![u] = e],
           u = Handler => eng' = eng /\ e = 0 /\ a \in {"idle", "irq"},
           ws \in Seq(Fits(a, e)),
           a \notin Writing => ws = <<>>,
           a \in {"go", "sleep", "stop"} => e \in E,
           pos' \in Nat \ {0},
           UNCHANGED <<ended, reg, mid, rd>>
    PROVE  RInv'
<1>1. /\ phase'[u] = a /\ writes'[u] = ws /\ EngOf(u)' = e
      /\ \A v \in Users \ {u} : phase'[v] = phase[v] /\ writes'[v] = writes[v] /\ EngOf(v)' = EngOf(v)
    BY DEF RInv, Shapes, EngOf, Users
<1>2. Shapes'
    <2>1. phase' \in [Users -> Phases] /\ writes' = [v \in Users |-> writes'[v]]
        BY DEF RInv, Shapes
    <2>2. eng' \in [Procs -> E \cup {0}]
        BY DEF RInv, Shapes, Users
    <2> QED BY <2>1, <2>2 DEF RInv, Shapes
<1>3. Fitting'
    <2>1. \A v \in Users : writes'[v] \in Seq(Fits(phase'[v], EngOf(v)')) /\ (phase'[v] \notin Writing => writes'[v] = <<>>)
        BY <1>1 DEF RInv, Fitting
    <2>2. \A p \in Procs : phase'[p] \in {"go", "sleep", "stop"} => eng'[p] \in E
        BY <1>1 DEF RInv, Fitting, EngOf, Users
    <2>3. phase'[Handler] \in {"idle", "irq"}
        BY <1>1 DEF RInv, Fitting, Users
    <2> QED BY <2>1, <2>2, <2>3 DEF Fitting, Fits
<1>4. Window'
    <2>1. \A v \in mid : v # u /\ writes'[v] = writes[v]
        BY <1>1 DEF RInv, Window, Shapes
    <2> QED BY <2>1 DEF RInv, Window, Reads48, R!Field
<1> QED BY <1>2, <1>3, <1>4 DEF RInv

\* The register is read.
LEMMA ReadKeeps ==
    ASSUME RInv, NEW u \in Users, R!PrsetRead(u)
    PROVE  RInv'
<1>1. /\ mid = {} /\ mid' = {u} /\ writes[u] # <<>>
      /\ rd' = [rd EXCEPT ![u] = reg[R!Reg(R!Field(u))]]
      /\ UNCHANGED <<ended, reg, phase, writes, eng, pos>>
    BY DEF R!PrsetRead, R!LockFree, R!card, R!history
<1>2. rd'[u] = reg[R!Reg(R!Field(u))]
    BY <1>1 DEF RInv, Shapes
<1>3. Shapes'
    <2>1. rd' = [v \in Users |-> rd'[v]]
        BY <1>1 DEF RInv, Shapes
    <2> QED BY <1>1, <2>1 DEF RInv, Shapes
<1>4. Fitting'
    <2>1. \A v \in Users : EngOf(v)' = EngOf(v) /\ Fits(phase[v], EngOf(v))' = Fits(phase[v], EngOf(v))
        BY <1>1 DEF EngOf, Fits
    <2> QED BY <1>1, <2>1 DEF RInv, Fitting
<1>5. Window'
    BY <1>1, <1>2 DEF Window, Reads48, R!Field
<1> QED BY <1>3, <1>4, <1>5 DEF RInv

\* Register 48 after a write of an engine's bit.
LEMMA WrittenBits ==
    ASSUME RInv, NEW u \in mid, R!PrsetWrite(u)
    PROVE  /\ mid' = {} /\ ended' = {} /\ UNCHANGED <<phase, eng, pos>>
           /\ writes' = [writes EXCEPT ![u] = Tail(@)]
           /\ rd' = [rd EXCEPT ![u] = {}]
           /\ R!Reg(R!Field(u)) \in {20, 48, 49} =>
                reg' = [reg EXCEPT ![R!Reg(R!Field(u))] = R!Changed(rd[u], Head(writes[u])) \cap (0 .. 8)]
BY DEF RInv, Window, R!PrsetWrite, R!CardWrite

\* Whatever is written, it is a field of one of the three registers.
LEMMA WhichRegister ==
    ASSUME Shapes, Fitting, NEW u \in Users, writes[u] # <<>>
    PROVE  R!Reg(R!Field(u)) \in {20, 48, 49}
<1>1. Head(writes[u]) \in Fits(phase[u], EngOf(u))
    BY HeadFits
<1>2. ASSUME Head(writes[u]) \in Others \X {0, 1} PROVE R!Reg(R!Field(u)) \in {20, 48, 49}
    BY <1>2, OthersElsewhere DEF R!Field
<1>3. ASSUME Head(writes[u]) \notin Others \X {0, 1} PROVE R!Reg(R!Field(u)) \in {20, 48, 49}
    <2>1. PICK d \in E, v \in {0, 1} : Head(writes[u]) = <<R!Dma[d].go, v>>
        <3>1. CASE phase[u] \in {"off", "load"}
            BY <1>1, <1>3, <3>1, WhatFits
        <3>2. CASE phase[u] \in {"go", "stop"}
            <4>1. u \in Procs /\ eng[u] \in E
                BY <3>2 DEF Fitting, Users
            <4> QED BY <1>1, <1>3, <3>2, <4>1, WhatFits DEF EngOf
        <3> QED BY <1>1, <1>3, <3>1, <3>2, WhatFits
    <2> QED BY <2>1, GoBits DEF R!Field
<1> QED BY <1>2, <1>3

LEMMA WriteKeeps ==
    ASSUME RInv, NEW u \in mid, R!PrsetWrite(u)
    PROVE  RInv'
<1>1. u \in Users /\ writes[u] # <<>>
    BY DEF RInv, Shapes, Window
<1>2. reg' \in [{20, 48, 49} -> SUBSET Int]
    <2>1. R!Changed(rd[u], Head(writes[u])) \cap (0 .. 8) \in SUBSET Int
        OBVIOUS
    <2>2. reg' = [reg EXCEPT ![R!Reg(R!Field(u))] = R!Changed(rd[u], Head(writes[u])) \cap (0 .. 8)]
        BY <1>1, WrittenBits, WhichRegister DEF RInv
    <2> QED BY <1>1, <2>1, <2>2, WhichRegister DEF RInv, Shapes
<1>3. Shapes'
    BY <1>1, <1>2, WrittenBits DEF RInv, Shapes
<1>4. Fitting'
    <2>1. writes'[u] = Tail(writes[u]) /\ \A v \in Users \ {u} : writes'[v] = writes[v]
        BY <1>1, WrittenBits DEF RInv, Shapes
    <2>2. Tail(writes[u]) \in Seq(Fits(phase[u], EngOf(u)))
        BY <1>1, HeadFits DEF RInv
    <2>3. phase[u] \in Writing
        BY <1>1 DEF RInv, Fitting
    <2>4. UNCHANGED <<phase, eng>>
        BY WrittenBits
    <2>5. \A v \in Users : EngOf(v)' = EngOf(v) /\ Fits(phase[v], EngOf(v))' = Fits(phase[v], EngOf(v))
        BY <2>4 DEF EngOf, Fits
    <2>6. \A v \in Users : writes'[v] \in Seq(Fits(phase'[v], EngOf(v)'))
        BY <2>1, <2>2, <2>4, <2>5 DEF RInv, Fitting
    <2>7. \A v \in Users : phase'[v] \notin Writing => writes'[v] = <<>>
        BY <2>1, <2>3, <2>4 DEF RInv, Fitting
    <2> QED BY <2>4, <2>6, <2>7 DEF RInv, Fitting, Fits
<1>5. Window'
    BY WrittenBits DEF Window
<1> QED BY <1>3, <1>4, <1>5 DEF RInv

\* An engine ends by itself.
LEMMA EndKeeps ==
    ASSUME RInv, NEW e \in E, R!EngineEnds(e)
    PROVE  RInv'
<1>1. /\ UNCHANGED <<phase, writes, mid, rd, eng, pos>>
      /\ reg' = [reg EXCEPT ![48] = @ \ {e - 1}]
      /\ mid # {} => ended' = ended \cup {e}
    BY GoBits DEF R!EngineEnds, R!prset
<1>2. reg'[48] = reg[48] \ {e - 1}
    BY <1>1 DEF RInv, Shapes
<1>3. Shapes' /\ Fitting'
    BY <1>1 DEF RInv, Shapes, Fitting, EngOf, Fits
<1>4. ASSUME NEW u \in mid PROVE Reads48(u)'
    <2>1. Reads48(u)
        BY DEF RInv, Window
    <2> QED BY <1>1, <1>2, <2>1 DEF Reads48, R!Field, E
<1> QED BY <1>1, <1>3, <1>4 DEF RInv, Window
\* Having nothing to write.
LEMMA NothingLeft ==
    ASSUME RInv, NEW u \in Users, writes[u] = <<>>
    PROVE  /\ writes = [writes EXCEPT ![u] = <<>>]
           /\ \A a, e : <<>> \in Seq(Fits(a, e))
           /\ u \in Procs => eng[u] \in E \cup {0} /\ eng = [eng EXCEPT ![u] = eng[u]]
<1>1. writes = [writes EXCEPT ![u] = <<>>]
    BY DEF RInv, Shapes
<1>2. u \in Procs => eng[u] \in E \cup {0} /\ eng = [eng EXCEPT ![u] = eng[u]]
    BY DEF RInv, Shapes
<1> QED BY <1>1, <1>2

\* A process goes on, and has written all it had to.
LEMMA ProcGoesOn ==
    ASSUME RInv, Handler \notin Procs, NEW p \in Procs, writes[p] = <<>>,
           NEW a \in Phases \ {"go", "stop"},
           phase' = [phase EXCEPT ![p] = a], a = "sleep" => eng[p] \in E,
           UNCHANGED <<ended, reg, writes, mid, rd, eng, pos>>
    PROVE  RInv'
<1>1. p \in Users
    BY DEF Users
<1> QED BY <1>1, NothingLeft, GoesOn DEF RInv, Shapes

\* An ioctl, or open, that sets the enables of all interrupts.
LEMMA EnablesKeep ==
    ASSUME RInv, Handler \notin Procs, NEW p \in Procs, writes[p] = <<>>,
           NEW v \in {0, 1}, NEW a \in {"on", "off", "load"}, v = IF a = "on" THEN 1 ELSE 0,
           phase' = [phase EXCEPT ![p] = a], writes' = [writes EXCEPT ![p] = R!IrqSet(v)],
           UNCHANGED <<ended, reg, mid, rd, eng, pos>>
    PROVE  RInv'
<1>1. p \in Users /\ a \in Phases /\ a \in Writing /\ a \notin {"go", "sleep", "stop"}
    BY DEF Users, Phases, Writing
<1>2. R!IrqSet(v) \in Seq(Fits(a, eng[p]))
    <2>1. (a = "on" => v = 1) /\ (a \in {"off", "load"} => v = 0)
        OBVIOUS
    <2> QED BY <2>1, IrqSetFits
<1> QED BY <1>1, <1>2, NothingLeft, GoesOn DEF RInv, Shapes

LEMMA ProcessKeeps ==
    ASSUME RInv, Handler \notin Procs, NEW p \in Procs, R!Process(p) \/ R!Admin(p)
    PROVE  RInv'
<1> p \in Users
    BY DEF Users
<1>1. ASSUME NEW v \in {0, 1}, R!IrqEnable(p, v) PROVE RInv'
    <2> DEFINE a == IF v = 0 THEN "off" ELSE "on"
    <2>1. /\ writes[p] = <<>> /\ phase' = [phase EXCEPT ![p] = a]
          /\ writes' = [writes EXCEPT ![p] = R!IrqSet(v)]
          /\ UNCHANGED <<ended, reg, mid, rd, eng, pos>>
        BY <1>1 DEF R!IrqEnable, R!Enter, R!Ready, R!card, R!history, RInv, Fitting, Writing
    <2> QED BY <2>1, EnablesKeep
<1>2. ASSUME NEW id, R!LoadBegin(p, id) PROVE RInv'
    <2>1. /\ writes[p] = <<>> /\ phase' = [phase EXCEPT ![p] = "load"]
          /\ writes' = [writes EXCEPT ![p] = R!IrqSet(0)]
          /\ UNCHANGED <<ended, reg, mid, rd, eng, pos>>
        BY <1>2 DEF R!LoadBegin, R!Enter, R!Ready, R!card, R!history, RInv, Fitting, Writing
    <2> QED BY <2>1, EnablesKeep
<1>3. CASE R!LoadAlive(p)
    <2>1. /\ writes[p] = <<>> /\ phase' = [phase EXCEPT ![p] = "on"]
          /\ writes' = [writes EXCEPT ![p] = R!IrqSet(1)]
          /\ UNCHANGED <<ended, reg, mid, rd, eng, pos>>
        BY <1>3 DEF R!LoadAlive, R!card, R!history, RInv, Fitting, Writing
    <2> QED BY <2>1, EnablesKeep
<1>4. CASE \/ R!IrqSetDone(p) \/ R!LoadErase(p) \/ R!LoadUpload(p) \/ R!LoadReset(p)
           \/ R!LoadGivesUp(p) \/ R!DmaSleeps(p) \/ R!AcapDone(p)
    <2>1. /\ writes[p] = <<>> /\ UNCHANGED <<ended, reg, writes, mid, rd, eng, pos>>
          /\ \E a \in {"idle", "ready", "done", "alive", "sleep"} :
               /\ phase' = [phase EXCEPT ![p] = a]
               /\ a = "sleep" => phase[p] = "go"
        BY <1>4 DEF R!IrqSetDone, R!LoadErase, R!LoadUpload, R!LoadReset, R!LoadGivesUp, R!DmaSleeps,
                    R!AcapDone,
                    R!Wrote, R!Leave, R!card, R!history, R!prset, RInv, Fitting, Writing
    <2> QED BY <2>1, ProcGoesOn DEF Phases, Writing, RInv, Shapes, RInv, Fitting
<1>5. CASE R!DmaGo(p)
    <2>1. PICK e \in E :
            /\ writes[p] = <<>> /\ phase' = [phase EXCEPT ![p] = "go"]
            /\ writes' = [writes EXCEPT ![p] = <<<<R!Dma[e].go, 1>>>>]
            /\ eng' = [eng EXCEPT ![p] = e]
            /\ UNCHANGED <<ended, reg, mid, rd, pos>>
        BY <1>5 DEF R!DmaGo, R!FreeEngines, R!Engines, R!Enter, R!Ready, R!W, R!card, R!history, RInv,
                    Fitting, Writing, E
    <2>2. <<<<R!Dma[e].go, 1>>>> \in Seq(Fits("go", e))
        BY DEF Fits
    <2> QED BY <2>1, <2>2, GoesOn DEF Phases, Writing, RInv, Shapes
<1>6. CASE R!DmaTimeOut(p)
    <2>1. /\ writes[p] = <<>> /\ phase' = [phase EXCEPT ![p] = "stop"]
          /\ writes' = [writes EXCEPT ![p] = <<<<R!Dma[eng[p]].go, 0>>>>]
          /\ eng[p] \in E
          /\ UNCHANGED <<ended, reg, mid, rd, eng, pos>>
        BY <1>6 DEF R!DmaTimeOut, R!EngineOf, R!W, R!card, R!history, RInv, Fitting, Writing
    <2>2. <<<<R!Dma[eng[p]].go, 0>>>> \in Seq(Fits("stop", eng[p]))
        BY DEF Fits
    <2> QED BY <2>1, <2>2, NothingLeft, GoesOn DEF Phases, Writing, RInv, Shapes
<1>7. CASE R!DmaReturns(p)
    <2>1. /\ writes[p] = <<>> /\ phase' = [phase EXCEPT ![p] = "idle"]
          /\ eng' = [eng EXCEPT ![p] = 0]
          /\ UNCHANGED <<ended, reg, writes, mid, rd, pos>>
        BY <1>7 DEF R!DmaReturns, R!Leave, R!Wrote, R!card, R!history, R!prset, RInv, Fitting, Writing
    <2>2. writes' = [writes EXCEPT ![p] = <<>>] /\ <<>> \in Seq(Fits("idle", 0))
        BY <2>1, NothingLeft
    <2> QED BY <2>1, <2>2, GoesOn DEF Phases, Writing, RInv, Shapes
<1>8. CASE R!AcapStart(p)
    <2>1. /\ writes[p] = <<>> /\ phase' = [phase EXCEPT ![p] = "capture"]
          /\ writes' = [writes EXCEPT ![p] = <<R!CaptureIrq>>]
          /\ UNCHANGED <<ended, reg, mid, rd, eng, pos>>
        BY <1>8 DEF R!AcapStart, R!Enter, R!Ready, R!card, R!history, RInv, Fitting, Writing
    <2>2. <<R!CaptureIrq>> \in Seq(Fits("capture", eng[p]))
        BY DEF Fits
    <2> QED BY <2>1, <2>2, NothingLeft, GoesOn DEF Phases, Writing, RInv, Shapes
<1> QED BY <1>1, <1>2, <1>3, <1>4, <1>5, <1>6, <1>7, <1>8
        DEF R!Process, R!Open, R!Transfer, R!Admin, R!Load

LEMMA HandlerKeeps ==
    ASSUME RInv, Handler \notin Procs, R!HandlerEnters \/ R!HandlerServes \/ R!HandlerLeaves
    PROVE  RInv'
<1> Handler \in Users
    BY DEF Users
<1>1. CASE R!HandlerEnters \/ R!HandlerLeaves
    <2>1. PICK a \in {"idle", "irq"} :
            /\ writes[Handler] = <<>> /\ phase' = [phase EXCEPT ![Handler] = a]
            /\ UNCHANGED <<ended, reg, writes, mid, rd, eng>> /\ pos' \in Nat \ {0}
        <3>1. CASE R!HandlerEnters
            <4>1. writes[Handler] = <<>>
                BY <3>1 DEF R!HandlerEnters, RInv, Fitting, Writing
            <4> QED BY <3>1, <4>1 DEF R!HandlerEnters, R!card, R!history, R!prset, RInv, Shapes
        <3>2. CASE R!HandlerLeaves
            BY <3>2 DEF R!HandlerLeaves, R!Wrote, R!card, R!history, R!prset
        <3> QED BY <1>1, <3>1, <3>2
    <2>2. writes' = [writes EXCEPT ![Handler] = <<>>] /\ <<>> \in Seq(Fits(a, 0))
        BY <2>1, NothingLeft
    <2> QED BY <2>1, <2>2, GoesOn DEF Phases, Writing
<1>2. CASE R!HandlerServes
    <2>1. DOMAIN R!Irqs = 1 .. 14 /\ Len(R!Irqs) = 14
        BY DEF R!Irqs
    <2>2. PICK i \in 1 .. 14, more \in {<<>>, <<R!CaptureIrq>>} :
            /\ phase[Handler] = "irq" /\ writes[Handler] = <<>>
            /\ writes' = [writes EXCEPT ![Handler] = <<R!W(R!Irqs[i].irqclear, 1)>> \o more]
            /\ UNCHANGED <<ended, reg, phase, mid, rd, eng>> /\ pos' = i + 1
        <3>1. PICK i \in R!Pending : pos' = i + 1 /\ \E m \in {<<>>, R!AtFrame(i)} :
                writes' = [writes EXCEPT ![Handler] = <<R!W(R!Irqs[i].irqclear, 1)>> \o m]
            BY <1>2 DEF R!HandlerServes
        <3>2. i \in 1 .. 14
            BY <2>1 DEF R!Pending, RInv, Shapes
        <3>3. R!AtFrame(i) \in {<<>>, <<R!CaptureIrq>>}
            BY DEF R!AtFrame
        <3> QED BY <1>2, <3>1, <3>2, <3>3 DEF R!HandlerServes, R!Wrote, R!card, R!history
    <2>3. phase' = [phase EXCEPT ![Handler] = "irq"]
        BY <2>2 DEF RInv, Shapes
    <2>4. <<R!W(R!Irqs[i].irqclear, 1)>> \o more \in Seq(Fits("irq", 0))
        <3> DEFINE w == R!W(R!Irqs[i].irqclear, 1)
        <3>1. <<w>> \in Seq(Fits("irq", 0))
            <4>1. w \in Clears \X {1}
                BY DEF Clears, R!W
            <4>2. Clears \X {1} \subseteq Fits("irq", 0)
                BY DEF Fits
            <4>3. w \in Fits("irq", 0)
                BY <4>1, <4>2
            <4> HIDE DEF w
            <4> QED BY <4>3
        <3>2. more \in Seq(Fits("irq", 0))
            <4>1. R!CaptureIrq \in Fits("irq", 0)
                BY DEF Fits
            <4>2. <<>> \in Seq(Fits("irq", 0)) /\ <<R!CaptureIrq>> \in Seq(Fits("irq", 0))
                BY <4>1
            <4> QED BY <4>2, Zenon
        <3> QED BY <3>1, <3>2, ConcatProperties
    <2>5. "irq" \in Phases /\ "irq" \in Writing /\ pos' \in Nat \ {0}
        BY <2>2 DEF Phases, Writing
    <2> QED BY <2>2, <2>3, <2>4, <2>5, GoesOn
<1> QED BY <1>1, <1>2
\* Nothing of the registers' users changes.
LEMMA StandsStill ==
    ASSUME RInv, UNCHANGED <<ended, reg, phase, writes, mid, rd, eng, pos>>
    PROVE  RInv' /\ R!OwnWritesOnly
<1>1. Shapes'
    BY DEF RInv, Shapes
<1>2. Fitting'
    BY DEF RInv, Fitting, EngOf, Fits
<1>3. Window'
    BY DEF RInv, Window, Reads48, R!Field
<1>4. R!OwnWritesOnly
    BY DEF R!OwnWritesOnly, R!Running
<1> QED BY <1>1, <1>2, <1>3, <1>4 DEF RInv

-----------------------------------------------------------------------------
(* An engine stops or starts by a write of its own bit, or by itself. *)

LEMMA WriteOwns ==
    ASSUME RInv, Handler \notin Procs, NEW u \in mid, R!PrsetWrite(u)
    PROVE  R!OwnWritesOnly
<1> DEFINE f == R!Field(u)
           r == R!Reg(f)
           w == Head(writes[u])
<1>1. u \in Users /\ writes[u] # <<>> /\ r \in {20, 48, 49} /\ mid' = {}
    BY WhichRegister, WrittenBits DEF RInv, Shapes, Window
<1>2. reg' = [reg EXCEPT ![r] = R!Changed(rd[u], w) \cap (0 .. 8)]
    BY <1>1, WrittenBits
<1>3. CASE r # 48
    <2>1. reg'[48] = reg[48]
        BY <1>1, <1>2, <1>3 DEF RInv, Shapes
    <2> QED BY <2>1 DEF R!OwnWritesOnly, R!Running
<1>4. CASE r = 48
    <2>1. u \in Procs
        BY <1>1, <1>4, WhoWrites48 DEF RInv
    <2>2. PICK d \in E, v \in {0, 1} :
            /\ w = <<R!Dma[d].go, v>> /\ f = R!Dma[d].go
            /\ v = 0 => eng[u] = d \/ phase[u] \in {"off", "load"}
            /\ v = 1 => eng[u] = d
        BY <1>1, <1>4, WhoWrites48 DEF RInv
    <2>3. reg'[48] = ((rd[u] \ {d - 1}) \cup (IF v = 1 THEN {d - 1} ELSE {})) \cap (0 .. 8)
        BY <1>1, <1>2, <1>4, <2>2, GoBits DEF R!Changed, RInv, Shapes
    <2>4. ASSUME NEW e \in E
          PROVE  /\ e - 1 \in reg[48] => e - 1 \in rd[u]
                 /\ e - 1 \in rd[u] /\ e - 1 \notin reg[48] => e \in ended
        BY <1>4 DEF RInv, Window, Reads48
    <2>5. ASSUME NEW e \in E, R!Running(e), ~R!Running(e)'
          PROVE  \E p \in Procs : R!Stops(p, e)
        <3>1. e - 1 \in reg[48] /\ e - 1 \notin reg'[48]
            BY <2>5, GoBits DEF R!Running
        <3>2. e = d /\ v = 0
            BY <2>2, <2>3, <2>4, <3>1 DEF E
        <3> QED BY <1>1, <2>1, <2>2, <3>2 DEF R!Stops, R!Writes, R!W
    <2>6. ASSUME NEW e \in E, ~R!Running(e), R!Running(e)', e \notin ended
          PROVE  \E p \in Procs : R!Writes(p, R!W(R!Dma[e].go, 1)) /\ eng[p] = e
        <3>1. e - 1 \notin reg[48] /\ e - 1 \in reg'[48]
            BY <2>6, GoBits DEF R!Running
        <3>2. e = d /\ v = 1
            BY <2>3, <2>4, <2>6, <3>1 DEF E
        <3> QED BY <1>1, <2>1, <2>2, <3>2 DEF R!Writes, R!W
    <2> QED BY <2>5, <2>6 DEF R!OwnWritesOnly, R!Engines, E
<1> QED BY <1>3, <1>4

LEMMA EndOwns ==
    ASSUME RInv, NEW e \in E, R!EngineEnds(e)
    PROVE  R!OwnWritesOnly
<1>1. mid' = mid /\ reg'[48] \subseteq reg[48]
    BY DEF R!EngineEnds, R!prset, RInv, Shapes
<1> QED BY <1>1 DEF R!OwnWritesOnly, R!Running

LEMMA RegistersStep ==
    ASSUME RInv, Handler \notin Procs, Admins \subseteq Procs, R!Next
    PROVE  RInv' /\ R!OwnWritesOnly
<1>1. ASSUME NEW p \in Procs, R!Process(p) \/ R!Admin(p) PROVE RInv' /\ R!OwnWritesOnly
    <2>1. reg' = reg
        BY <1>1 DEF R!Process, R!Admin, R!Open, R!IrqEnable, R!IrqSetDone, R!Transfer, R!DmaGo, R!DmaSleeps,
                    R!DmaTimeOut, R!DmaReturns, R!Load, R!LoadBegin, R!LoadErase, R!LoadUpload, R!LoadReset,
                    R!LoadAlive, R!LoadGivesUp, R!AcapStart, R!AcapDone, R!Enter, R!card, R!history
    <2> QED BY <1>1, <2>1, ProcessKeeps DEF R!OwnWritesOnly, R!Running
<1>2. ASSUME NEW u \in R!Users, R!PrsetRead(u) PROVE RInv' /\ R!OwnWritesOnly
    <2>1. u \in Users /\ reg' = reg
        BY <1>2 DEF R!PrsetRead, R!card, R!history, R!Users, Users
    <2> QED BY <1>2, <2>1, ReadKeeps DEF R!OwnWritesOnly, R!Running
<1>3. ASSUME NEW u \in R!Users, R!PrsetWrite(u) PROVE RInv' /\ R!OwnWritesOnly
    <2>1. u \in mid
        BY <1>3 DEF R!PrsetWrite
    <2> QED BY <1>3, <2>1, WriteKeeps, WriteOwns
<1>4. ASSUME NEW i, R!Arrive(i) PROVE RInv' /\ R!OwnWritesOnly
    BY <1>4, StandsStill DEF R!Arrive, R!prset, R!history
<1>5. ASSUME NEW e \in E, R!EngineEnds(e) PROVE RInv' /\ R!OwnWritesOnly
    BY <1>5, EndKeeps, EndOwns
<1>6. CASE R!HandlerEnters \/ R!HandlerServes \/ R!HandlerLeaves
    <2>1. reg' = reg
        BY <1>6 DEF R!HandlerEnters, R!HandlerServes, R!HandlerLeaves, R!card, R!history
    <2> QED BY <1>6, <2>1, HandlerKeeps DEF R!OwnWritesOnly, R!Running
<1> QED BY <1>1, <1>2, <1>3, <1>4, <1>5, <1>6 DEF R!Next, R!Engines, E

-----------------------------------------------------------------------------
LEMMA RegistersInit ==
    ASSUME Init
    PROVE  RInv
<1>1. Shapes
    BY DEF Init, R!Init, R!Users, Shapes, Users, Phases, E
<1>2. \A u \in Users : phase[u] = "idle" /\ writes[u] = <<>>
    BY DEF Init, R!Init, R!Users, Users
<1>3. Fitting
    <2>1. \A u \in Users : writes[u] \in Seq(Fits(phase[u], EngOf(u)))
        <3> SUFFICES ASSUME NEW u \in Users PROVE writes[u] \in Seq(Fits(phase[u], EngOf(u)))
            OBVIOUS
        <3>1. <<>> \in Seq(Fits(phase[u], EngOf(u)))
            OBVIOUS
        <3> QED BY <1>2, <3>1
    <2>2. phase[Handler] = "idle" /\ \A p \in Procs : phase[p] = "idle"
        BY <1>2 DEF Users
    <2> QED BY <1>2, <2>1, <2>2 DEF Fitting
<1>4. Window
    BY DEF Init, R!Init, Window
<1> QED BY <1>1, <1>3, <1>4 DEF RInv

LEMMA RegistersNext ==
    ASSUME RInv, [Next]_vars
    PROVE  RInv' /\ R!OwnWritesOnly
<1>1. CASE UNCHANGED registers
    BY <1>1, StandsStill DEF registers
<1>2. CASE Registers
    BY <1>2, RegistersStep, HandlerAssumption, AdminsAssumption DEF Registers
<1> QED BY <1>1, <1>2 DEF Next, Sleep, Audio, Lifecycle, vars

\* The engines' go bits share a register that is read, changed and written back
\* by transfers, ioctls and the loader, for any number of them: none stops an
\* engine that is not its own to stop, and none sets one going again but one that
\* ended just while somebody had the register half written (aja.c:481-485, 1066-1070).
THEOREM EnginesStayApart == Spec => EnginesOwnTheirBits
<1>1. Init => RInv
    BY RegistersInit
<1>2. RInv /\ [Next]_vars => RInv' /\ [R!OwnWritesOnly]_(R!vars)
    BY RegistersNext
<1> QED BY <1>1, <1>2, PTL DEF Spec, EnginesOwnTheirBits, R!EnginesOwnTheirBits

-----------------------------------------------------------------------------
(* The enables and the firmware loader (src/src/aja.c:509-533, 1088-1216)   *)
(*                                                                         *)
(* Every write of a call is done or still to be done (Setting), because    *)
(* nobody else writes these bits meanwhile: other processes wait for the   *)
(* big kernel lock (OneHolder), and the handler writes back what is there  *)
(* (Fresh).  One write may be undone: the handler may start a capture, and *)
(* enable the interrupt of DMA 3 that a call has just disabled.  The       *)
(* interrupt stays enabled for who started the capture (Captured).         *)

\* The phases of a process that has the big kernel lock.
Setters == {"on", "off", "load"}
Loaders == {"ready", "done", "alive"}
Holding == Setters \cup Loaders \cup {"go", "stop", "capture"}

OneHolder == \A p \in Procs : phase[p] # "irq" /\ (phase[p] \in Holding => bkl = p)

Narrow == reg \in [{20, 48, 49} -> SUBSET (0 .. 8)]

\* What was read of a register without go bits is still there.
Fresh == \A u \in mid : R!Reg(R!Field(u)) # 48 => rd[u] = reg[R!Reg(R!Field(u))]

\* The bits of a register after a write.
Has(bits, w) ==
    IF w[2] = 1 THEN R!Bits(w[1]) \subseteq bits ELSE R!Bits(w[1]) \cap bits = {}

Done(p, w) ==
    /\ Has(reg[R!Reg(w[1])], w)
    /\ p \in mid /\ R!Reg(R!Field(p)) = R!Reg(w[1]) => Has(rd[p], w)

Ahead(p, w) == \E i \in 1 .. Len(writes[p]) : writes[p][i] = w

Value(a) == IF a = "on" THEN 1 ELSE 0

Setting ==
    \A p \in Procs : phase[p] \in Setters =>
        \A w \in Sets(Value(phase[p])) :
            Done(p, w) \/ Ahead(p, w) \/ (w = <<DmaIrq, 0>> /\ capture = Handler)

Captured ==
    /\ capture \in Users \cup {Nobody}
    /\ capture # Nobody => 2 \in reg[49]

NoEngine == \A e \in E : e - 1 \notin reg[48]

Quiet ==
    \A p \in Procs : phase[p] \in Loaders => asked = 0 /\ NoEngine /\ capture \in {Nobody, Handler}

\* The enables are set, or cleared but for a capture.
Settled(v) ==
    \A r \in {20, 49} :
        reg[r] \cap R!EnableBits[r] =
            IF v = 1 THEN R!EnableBits[r] ELSE IF r = 49 /\ capture # Nobody THEN {2} ELSE {}

\* The firmware id is right but for a load before its reset.
Known ==
    (\A p \in Procs : phase[p] \notin {"load", "ready", "done"}) => (fwid # 0 => fpga = fwid)

LoadInv == OneHolder /\ Narrow /\ Fresh /\ Setting /\ Captured /\ Quiet /\ R!EnablesAsAsked /\ Known

LEMMA AskedIsSettled == R!EnablesAsAsked <=> (~R!Settling => Settled(asked))
<1>1. R!Bits(R!Dma[3].irqenable) = {2}
    BY CaptureEnables DEF DmaIrq
<1> QED BY <1>1 DEF R!EnablesAsAsked, R!Enabled, Settled

\* What is enabled depends on the registers and the history only.
LEMMA EnabledSame ==
    ASSUME \A r \in {20, 49} : reg'[r] = reg[r], UNCHANGED <<asked, capture, phase>>
    PROVE  R!EnablesAsAsked' <=> R!EnablesAsAsked
BY DEF R!EnablesAsAsked, R!Enabled, R!Settling

-----------------------------------------------------------------------------
(* The fields of aja_irqset and of the handler. *)

LEMMA EnablesOf ==
    R!EnableBits = [r \in {20, 49} |-> UNION {R!Bits(f) : f \in {g \in Enables : R!Reg(g) = r}}]
<1>1. DOMAIN R!EnableFields = 1 .. 8
    BY DEF R!EnableFields
<1> QED BY <1>1 DEF R!EnableBits, R!Range, Enables

LEMMA EnableIsLow ==
    ASSUME NEW f \in Enables
    PROVE  R!Bits(f) \subseteq 0 .. 8 /\ R!Reg(f) \in {20, 49}
<1>1. PICK i \in 1 .. 8 : f = R!EnableFields[i]
    BY DEF Enables
<1> QED BY <1>1 DEF R!EnableFields, R!Reg, R!Bits, R!BusError, R!Dma, R!Output, R!Input1, R!Input2,
                    R!AudioWrap, R!Bit

\* The other enables are other bits; DMA 3's is among the enables of its register.
LEMMA OtherEnables ==
    /\ \A f \in Enables : f # DmaIrq /\ R!Reg(f) = 49 => 2 \notin R!Bits(f)
    /\ 2 \in R!EnableBits[49]
<1>1. ASSUME NEW f \in Enables, f # DmaIrq, R!Reg(f) = 49 PROVE 2 \notin R!Bits(f)
    <2>1. PICK i \in 1 .. 8 : f = R!EnableFields[i]
        BY DEF Enables
    <2> QED BY <1>1, <2>1 DEF R!EnableFields, R!Reg, R!Bits, R!BusError, R!Dma, R!Output, R!Input1,
                    R!Input2, R!AudioWrap, R!Bit, DmaIrq
<1>2. 2 \in R!EnableBits[49]
    <2>1. R!EnableBits[49] = UNION {R!Bits(f) : f \in {g \in Enables : R!Reg(g) = 49}}
        BY EnablesOf
    <2> QED BY <2>1, CaptureEnables
<1> QED BY <1>1, <1>2

LEMMA ClearIsHigh ==
    ASSUME NEW f \in Clears
    PROVE  R!Bits(f) \cap (0 .. 8) = {} /\ R!Reg(f) \in {20, 49}
<1>1. PICK i \in 1 .. 14 : f = R!Irqs[i].irqclear
    BY DEF Clears
<1> QED BY <1>1 DEF R!Irqs, R!Reg, R!Bits, R!BusError, R!Dma, R!Output, R!Input1, R!Input2, R!AudioWrap,
                    R!Audio, R!AplayWrap, R!AcapWrap, R!UartTx, R!UartRx, R!Bit

LEMMA SetIsLow ==
    ASSUME NEW v \in {0, 1}, NEW w \in Sets(v)
    PROVE  w[2] = v /\ R!Bits(w[1]) \subseteq 0 .. 8 /\ R!Reg(w[1]) \in {20, 48, 49}
<1>1. CASE w \in Enables \X {v}
    BY <1>1, EnableIsLow
<1>2. CASE \E d \in E : w = <<R!Dma[d].go, 0>> /\ v = 0
    <2>1. PICK d \in E : w = <<R!Dma[d].go, 0>> /\ v = 0
        BY <1>2
    <2>2. {d - 1} \subseteq 0 .. 8
        BY DEF E
    <2> QED BY <2>1, <2>2, GoBits
<1> QED BY <1>1, <1>2 DEF Sets

\* A write of a call does what it is for, and undoes no other of the call.
LEMMA WriteSets ==
    ASSUME NEW v \in {0, 1}, NEW x \in Sets(v), NEW w \in Sets(v), NEW bits
    PROVE  /\ Has(R!Changed(bits, x) \cap (0 .. 8), x)
           /\ Has(bits, w) => Has(R!Changed(bits, x) \cap (0 .. 8), w)
<1>1. /\ x[2] = v /\ R!Bits(x[1]) \subseteq 0 .. 8
      /\ w[2] = v /\ R!Bits(w[1]) \subseteq 0 .. 8
    BY SetIsLow
<1> QED BY <1>1 DEF Has, R!Changed

\* All that aja_irqset is to write is in its script.
LEMMA IrqSetHasAll ==
    ASSUME NEW v \in {0, 1}, NEW w \in Sets(v)
    PROVE  \E i \in 1 .. Len(R!IrqSet(v)) : R!IrqSet(v)[i] = w
<1> DEFINE one == R!StopEngines(v)
           two == [i \in 1 .. 8 |-> <<R!EnableFields[i], v>>]
           U   == {R!EnableFields[i] : i \in 1 .. 8} \cup {R!Dma[e].go : e \in E}
           T   == U \X {0, 1}
<1>1. one \in Seq(T) /\ Len(one) = (IF v = 0 THEN 3 ELSE 0)
      /\ (v = 0 => \A d \in 1 .. 3 : one[d] = <<R!Dma[d].go, 0>>)
    <2>1. CASE v = 0
        <3>1. one = [d \in 1 .. 3 |-> <<R!Dma[d].go, 0>>]
            BY <2>1 DEF R!StopEngines, R!W, R!Engines
        <3>2. \A d \in 1 .. 3 : <<R!Dma[d].go, 0>> \in T
            BY DEF E
        <3>3. one \in Seq(T)
            BY <3>1, <3>2, IsASeq
        <3>4. Len(one) = 3
            BY <3>1
        <3> QED BY <2>1, <3>1, <3>3, <3>4
    <2>2. CASE v = 1
        BY <2>2 DEF R!StopEngines
    <2> QED BY <2>1, <2>2
<1>2. two \in Seq(T) /\ Len(two) = 8 /\ \A k \in 1 .. 8 : two[k] = <<R!EnableFields[k], v>>
    <2>1. \A i \in 1 .. 8 : <<R!EnableFields[i], v>> \in T
        OBVIOUS
    <2> QED BY <2>1, IsASeq
<1>3. R!IrqSet(v) = one \o two
    <2>1. DOMAIN R!EnableFields = 1 .. 8
        BY DEF R!EnableFields
    <2> QED BY <2>1 DEF R!IrqSet, R!W
<1> HIDE DEF one, two, T
<1>4. /\ Len(one \o two) = Len(one) + 8
      /\ \A i \in 1 .. Len(one) + 8 :
           (one \o two)[i] = IF i <= Len(one) THEN one[i] ELSE two[i - Len(one)]
    <2>1. one \in Seq(T) /\ two \in Seq(T)
        BY <1>1, <1>2
    <2>2. /\ Len(one \o two) = Len(one) + Len(two)
          /\ \A i \in 1 .. Len(one) + Len(two) :
               (one \o two)[i] = IF i <= Len(one) THEN one[i] ELSE two[i - Len(one)]
        BY <2>1, ConcatProperties, Zenon
    <2>3. Len(two) = 8
        BY <1>2
    <2> QED BY <2>2, <2>3
<1>5. CASE w \in Enables \X {v}
    <2>1. PICK k \in 1 .. 8 : w = <<R!EnableFields[k], v>>
        BY <1>5 DEF Enables
    <2>2. Len(one) + k \in 1 .. Len(one) + 8 /\ ~(Len(one) + k <= Len(one)) /\ Len(one) + k - Len(one) = k
        BY <1>1
    <2>3. (one \o two)[Len(one) + k] = w
        BY <1>2, <1>4, <2>1, <2>2
    <2> QED BY <1>3, <1>4, <2>2, <2>3
<1>6. ASSUME NEW d \in E, w = <<R!Dma[d].go, 0>>, v = 0
      PROVE  \E i \in 1 .. Len(R!IrqSet(v)) : R!IrqSet(v)[i] = w
    <2>1. d \in 1 .. Len(one) + 8 /\ d <= Len(one) /\ one[d] = w
        BY <1>1, <1>6 DEF E
    <2> QED BY <1>3, <1>4, <2>1
<1> QED BY <1>5, <1>6 DEF Sets

-----------------------------------------------------------------------------
(* Who writes what. *)

LEMMA ProcWrites ==
    ASSUME RInv, OneHolder, Handler \notin Procs, NEW u \in Procs, writes[u] # <<>>
    PROVE  bkl = u /\ phase[u] \in Setters \cup {"go", "stop", "capture"}
<1>1. phase[u] \in Writing
    BY DEF RInv, Fitting, Users
<1> QED BY <1>1 DEF OneHolder, Writing, Holding, Setters

\* The handler writes to clear interrupts, and to start a capture.
LEMMA HandlerClears ==
    ASSUME RInv, Handler \notin Procs, writes[Handler] # <<>>
    PROVE  /\ phase[Handler] = "irq"
           /\ Head(writes[Handler]) \in (Clears \X {1}) \cup {R!CaptureIrq}
<1>1. Handler \in Users /\ EngOf(Handler) = 0
    BY DEF Users, EngOf
<1>2. phase[Handler] = "irq"
    BY <1>1 DEF RInv, Fitting, Writing
<1>3. Head(writes[Handler]) \in Fits("irq", 0)
    BY <1>1, <1>2, HeadFits DEF RInv
<1>4. Fits("irq", 0) = (Clears \X {1}) \cup {R!CaptureIrq}
    BY DEF Fits
<1> QED BY <1>2, <1>3, <1>4

\* A process that starts a capture writes what that takes.
LEMMA CaptureWrites ==
    ASSUME RInv, NEW p \in Procs, writes[p] # <<>>, phase[p] = "capture"
    PROVE  Head(writes[p]) = R!CaptureIrq
<1>1. p \in Users
    BY DEF Users
<1>2. Head(writes[p]) \in Fits("capture", EngOf(p))
    BY <1>1, HeadFits DEF RInv
<1>3. Fits("capture", EngOf(p)) = {R!CaptureIrq}
    BY DEF Fits
<1> QED BY <1>2, <1>3

\* A process that sets the enables writes what aja_irqset writes.
LEMMA SetterWrites ==
    ASSUME RInv, NEW p \in Procs, writes[p] # <<>>, phase[p] \in Setters
    PROVE  Head(writes[p]) \in Sets(Value(phase[p]))
<1>1. p \in Users
    BY DEF Users
<1>2. Head(writes[p]) \in Fits(phase[p], EngOf(p))
    BY <1>1, HeadFits DEF RInv
<1> QED BY <1>2 DEF Fits, Setters, Value

\* One that does not writes register 48.
LEMMA DmaWrites48 ==
    ASSUME RInv, Handler \notin Procs, NEW p \in Procs, writes[p] # <<>>, phase[p] \in {"go", "stop"}
    PROVE  R!Reg(R!Field(p)) = 48
<1>1. p \in Users /\ EngOf(p) = eng[p] /\ eng[p] \in E
    BY DEF Users, EngOf, RInv, Fitting
<1>2. Head(writes[p]) \in Fits(phase[p], eng[p])
    BY <1>1, HeadFits DEF RInv
<1>3. PICK v \in {0, 1} : Head(writes[p]) = <<R!Dma[eng[p]].go, v>>
    BY <1>2 DEF Fits
<1> QED BY <1>1, <1>3, GoBits DEF R!Field

\* Only one process has the lock.
LEMMA OthersFree ==
    ASSUME OneHolder, Nobody \notin Procs, NEW p \in Procs, bkl \in {Nobody, p}
    PROVE  \A q \in Procs \ {p} : phase[q] \notin Holding
BY DEF OneHolder

\* When all is written the enables are as wanted, and engines are off if asked.
LEMMA AllSet ==
    ASSUME NEW v \in {0, 1}, Captured, Handler # Nobody,
           \A w \in Sets(v) :
               Has(reg[R!Reg(w[1])], w) \/ (w = <<DmaIrq, 0>> /\ capture = Handler)
    PROVE  Settled(v) /\ (v = 0 => NoEngine /\ capture \in {Nobody, Handler})
<1>1. ASSUME NEW f \in Enables, v = 1 \/ f # DmaIrq \/ capture # Handler
      PROVE  IF v = 1 THEN R!Bits(f) \subseteq reg[R!Reg(f)] ELSE R!Bits(f) \cap reg[R!Reg(f)] = {}
    <2>1. <<f, v>> \in Sets(v) /\ ~(<<f, v>> = <<DmaIrq, 0>> /\ capture = Handler)
        BY <1>1 DEF Sets
    <2>2. Has(reg[R!Reg(f)], <<f, v>>)
        BY <2>1
    <2> QED BY <2>2 DEF Has
<1>2. v = 0 => capture \in {Nobody, Handler}
    <2> SUFFICES ASSUME v = 0, capture \notin {Nobody, Handler} PROVE FALSE
        OBVIOUS
    <2>1. 2 \in reg[49]
        BY DEF Captured
    <2> QED BY <1>1, <2>1, CaptureEnables
<1>3. Settled(v)
    <2> SUFFICES ASSUME NEW r \in {20, 49}
                 PROVE  reg[r] \cap R!EnableBits[r] =
                          IF v = 1 THEN R!EnableBits[r]
                          ELSE IF r = 49 /\ capture # Nobody THEN {2} ELSE {}
        BY DEF Settled
    <2>1. R!EnableBits[r] = UNION {R!Bits(f) : f \in {g \in Enables : R!Reg(g) = r}}
        BY EnablesOf
    <2>2. CASE v = 1
        BY <1>1, <2>1, <2>2
    <2>3. CASE v = 0 /\ capture = Nobody
        BY <1>1, <2>1, <2>3
    <2>4. CASE v = 0 /\ capture = Handler
        <3>1. 2 \in reg[49]
            BY <2>4 DEF Captured
        <3>2. \A f \in Enables : f # DmaIrq => R!Bits(f) \cap reg[R!Reg(f)] = {}
            BY <1>1, <2>4
        <3>3. CASE r = 20
            <4>1. \A f \in Enables : R!Reg(f) = 20 => f # DmaIrq
                BY CaptureEnables
            <4> QED BY <2>1, <2>4, <3>2, <3>3, <4>1
        <3>4. CASE r = 49
            <4>1. reg[49] \cap R!EnableBits[49] \subseteq {2}
                BY <2>1, <3>2, <3>4, CaptureEnables
            <4> QED BY <2>4, <3>1, <3>4, <4>1, OtherEnables
        <3> QED BY <3>3, <3>4
    <2> QED BY <1>2, <2>2, <2>3, <2>4
<1>4. ASSUME v = 0, NEW e \in E PROVE e - 1 \notin reg[48]
    <2>1. <<R!Dma[e].go, 0>> \in Sets(0)
        BY DEF Sets
    <2>2. <<R!Dma[e].go, 0>> # <<DmaIrq, 0>>
        BY GoBits, CaptureEnables
    <2>3. Has(reg[48], <<R!Dma[e].go, 0>>)
        BY <1>4, <2>1, <2>2, GoBits
    <2> QED BY <2>3, GoBits DEF Has
<1> QED BY <1>2, <1>3, <1>4 DEF NoEngine

-----------------------------------------------------------------------------
(* The steps. *)

LEMMA LoadRead ==
    ASSUME RInv, LoadInv, NEW u \in Users, R!PrsetRead(u)
    PROVE  LoadInv'
<1>1. /\ mid = {} /\ mid' = {u} /\ rd' = [rd EXCEPT ![u] = reg[R!Reg(R!Field(u))]]
      /\ UNCHANGED <<reg, fpga, bkl, fwid, phase, writes, asked, capture>>
    BY DEF R!PrsetRead, R!LockFree, R!card, R!history
<1>2. rd'[u] = reg[R!Reg(R!Field(u))]
    BY <1>1 DEF RInv, Shapes
<1>3. OneHolder' /\ Narrow' /\ Captured' /\ Quiet' /\ R!EnablesAsAsked' /\ Known'
    BY <1>1 DEF LoadInv, OneHolder, Narrow, Captured, Quiet, NoEngine, R!EnablesAsAsked, R!Enabled, R!Settling, Known
<1>4. Fresh'
    BY <1>1, <1>2 DEF Fresh, R!Field
<1>5. Setting'
    <2> SUFFICES ASSUME NEW p \in Procs, phase[p] \in Setters, NEW w \in Sets(Value(phase[p]))
                 PROVE  Done(p, w)' \/ Ahead(p, w)' \/ (w = <<DmaIrq, 0>> /\ capture' = Handler)
        BY <1>1 DEF Setting
    <2>1. CASE Ahead(p, w)
        BY <1>1, <2>1 DEF Ahead
    <2>2. CASE Done(p, w)
        BY <1>1, <1>2, <2>2 DEF Done, R!Field
    <2> QED BY <1>1, <2>1, <2>2 DEF LoadInv, Setting
<1> QED BY <1>3, <1>4, <1>5 DEF LoadInv

\* Who started the capture, after a write.
LEMMA WhoCaptures ==
    ASSUME NEW u \in mid, R!PrsetWrite(u)
    PROVE  capture' = IF Head(writes[u]) = <<DmaIrq, 0>> THEN Nobody
                      ELSE IF Head(writes[u]) = <<DmaIrq, 1>> /\ phase[u] \in {"capture", "irq"} THEN u
                      ELSE capture
<1>1. R!W(R!Dma[3].irqenable, 0) = <<DmaIrq, 0>> /\ R!CaptureIrq = <<DmaIrq, 1>>
    BY CaptureEnables DEF R!W, DmaIrq
<1> QED BY <1>1 DEF R!PrsetWrite

\* A capture adds its interrupt to what is enabled.
LEMMA CaptureAdds ==
    ASSUME Narrow, R!EnablesAsAsked, reg' = [reg EXCEPT ![49] = reg[49] \cup {2}],
           capture' # Nobody, UNCHANGED <<asked, phase>>
    PROVE  R!EnablesAsAsked'
<1>1. reg'[20] = reg[20] /\ reg'[49] = reg[49] \cup {2}
    BY DEF Narrow
<1>2. ~R!Settling' => Settled(asked)
    BY AskedIsSettled DEF R!Settling
<1>3. ASSUME Settled(asked), NEW r \in {20, 49} PROVE reg'[r] \cap R!EnableBits[r] = R!Enabled(r)'
    <2>1. R!Bits(R!Dma[3].irqenable) = {2}
        BY CaptureEnables DEF DmaIrq
    <2>2. CASE r = 20
        BY <1>1, <1>3, <2>2 DEF Settled, R!Enabled
    <2>3. CASE r = 49
        BY <1>1, <1>3, <2>1, <2>3, OtherEnables DEF Settled, R!Enabled
    <2> QED BY <2>2, <2>3
<1> QED BY <1>2, <1>3 DEF R!EnablesAsAsked

\* The handler writes back what is there, but for the interrupt of a capture.
LEMMA HandlerWrites ==
    ASSUME RInv, LoadInv, Handler \notin Procs, Handler \in mid, R!PrsetWrite(Handler)
    PROVE  \/ reg' = reg /\ capture' = capture
           \/ reg' = [reg EXCEPT ![49] = reg[49] \cup {2}] /\ capture' = Handler
<1> DEFINE x == Head(writes[Handler])
           r == R!Reg(R!Field(Handler))
<1>1. Handler \in Users /\ writes[Handler] # <<>>
    BY DEF Users, RInv, Window
<1>2. phase[Handler] = "irq" /\ x \in (Clears \X {1}) \cup {R!CaptureIrq}
    BY <1>1, HandlerClears
<1>3. r \in {20, 49} /\ r = R!Reg(x[1])
    BY <1>2, ClearIsHigh, CaptureEnables DEF R!Field
<1>4. rd[Handler] = reg[r] /\ reg[r] \subseteq 0 .. 8 /\ reg = [reg EXCEPT ![r] = reg[r]]
    BY <1>3 DEF LoadInv, Fresh, Narrow
<1>5. reg' = [reg EXCEPT ![r] = R!Changed(reg[r], x) \cap (0 .. 8)]
    BY <1>3, <1>4, WrittenBits
<1>6. CASE x \in Clears \X {1}
    <2>1. R!Bits(x[1]) \cap (0 .. 8) = {} /\ x[2] = 1
        BY <1>6, ClearIsHigh
    <2>2. R!Changed(reg[r], x) \cap (0 .. 8) = reg[r]
        BY <1>4, <2>1 DEF R!Changed
    <2>3. x # <<DmaIrq, 0>> /\ x # <<DmaIrq, 1>>
        BY <2>1, CaptureEnables
    <2> QED BY <1>4, <1>5, <2>2, <2>3, WhoCaptures
<1>7. CASE x = R!CaptureIrq
    <2>1. x = <<DmaIrq, 1>> /\ r = 49 /\ R!Bits(x[1]) = {2}
        BY <1>3, <1>7, CaptureEnables
    <2>2. R!Changed(reg[r], x) \cap (0 .. 8) = reg[49] \cup {2}
        BY <1>4, <2>1 DEF R!Changed
    <2>3. capture' = Handler
        BY <1>2, <2>1, WhoCaptures
    <2> QED BY <1>5, <2>1, <2>2, <2>3
<1> QED BY <1>2, <1>6, <1>7

\* A process writes only what is its own to write.
LEMMA ProcWrite ==
    ASSUME RInv, LoadInv, Handler \notin Procs, Nobody \notin Procs, NEW u \in Procs, u \in mid, R!PrsetWrite(u)
    PROVE  Setting' /\ Captured' /\ R!EnablesAsAsked' /\ Quiet' /\ Narrow'
<1> DEFINE r == R!Reg(R!Field(u))
           x == Head(writes[u])
           v == Value(phase[u])
<1>1. /\ u \in Users /\ writes[u] # <<>> /\ r \in {20, 48, 49} /\ mid' = {}
      /\ UNCHANGED <<phase, eng, fwid, bkl, asked, fpga>>
      /\ reg' = [reg EXCEPT ![r] = R!Changed(rd[u], x) \cap (0 .. 8)]
      /\ writes' = [writes EXCEPT ![u] = Tail(@)]
    BY WhichRegister, WrittenBits DEF Users, RInv, Window, R!PrsetWrite, R!CardWrite
<1>2. bkl = u /\ phase[u] \in Setters \cup {"go", "stop", "capture"}
    BY <1>1, ProcWrites DEF LoadInv
<1>3. reg'[r] = R!Changed(rd[u], x) \cap (0 .. 8) /\ \A s \in {20, 48, 49} \ {r} : reg'[s] = reg[s]
    BY <1>1 DEF LoadInv, Narrow
<1>4. Narrow'
    BY <1>1 DEF LoadInv, Narrow
<1>5. \A p \in Procs : phase[p] \in Holding => p = u
    BY <1>2 DEF LoadInv, OneHolder
<1>6. Quiet'
    BY <1>1, <1>2, <1>5 DEF Quiet, Holding, Setters, Loaders
<1>7. r = R!Reg(x[1]) /\ (r # 48 => rd[u] = reg[r] /\ reg[r] \subseteq 0 .. 8)
    BY <1>1 DEF LoadInv, Fresh, Narrow, R!Field
<1>8. phase[u] \in {"go", "stop"} => r = 48
    BY <1>1, DmaWrites48
<1>9. phase[u] = "capture" => x = <<DmaIrq, 1>> /\ r = 49
    BY <1>1, <1>7, CaptureWrites, CaptureEnables
<1>10. phase[u] \in Setters => v \in {0, 1} /\ x \in Sets(v) /\ x[2] = v /\ x = <<x[1], x[2]>>
    BY <1>1, SetterWrites, SetIsLow DEF Value, Sets
<1>11. r # 48 => x[1] \in Enables /\ x = <<x[1], x[2]>> /\ x[2] \in {0, 1}
    <2>1. CASE phase[u] \in Setters
        <3>1. r # 48 => x \notin {<<R!Dma[d].go, 0>> : d \in E}
            BY <1>7, GoBits
        <3> QED BY <1>10, <2>1, <3>1 DEF Sets
    <2> QED BY <1>2, <1>8, <1>9, <2>1, CaptureEnables
<1>12. r # 49 => capture' = capture
    BY <1>7, WhoCaptures, CaptureEnables
<1>13. Captured'
    <2>1. CASE r # 49
        BY <1>1, <1>3, <1>12, <2>1 DEF LoadInv, Captured
    <2>2. CASE r = 49
        <3>1. reg'[49] = R!Changed(reg[49], x) \cap (0 .. 8)
            BY <1>3, <1>7, <2>2
        <3>2. CASE x = <<DmaIrq, 0>>
            BY <3>2, WhoCaptures DEF Captured
        <3>3. CASE x = <<DmaIrq, 1>>
            <4>1. 2 \in reg'[49]
                BY <3>1, <3>3, CaptureEnables DEF R!Changed
            <4> QED BY <1>1, <3>3, <4>1, WhoCaptures DEF LoadInv, Captured
        <3>4. CASE x # <<DmaIrq, 0>> /\ x # <<DmaIrq, 1>>
            <4>1. x[1] \in Enables /\ x[1] # DmaIrq
                BY <1>11, <2>2, <3>4
            <4>2. 2 \notin R!Bits(x[1])
                BY <1>7, <2>2, <4>1, OtherEnables
            <4>3. 2 \in reg[49] => 2 \in reg'[49]
                BY <3>1, <4>2 DEF R!Changed
            <4> QED BY <3>4, <4>3, WhoCaptures DEF LoadInv, Captured
        <3> QED BY <3>2, <3>3, <3>4
    <2> QED BY <2>1, <2>2
<1>14. R!EnablesAsAsked'
    <2>1. CASE phase[u] \in Setters
        BY <1>1, <2>1 DEF R!EnablesAsAsked, R!Settling, Setters
    <2>2. CASE phase[u] \in {"go", "stop"}
        <3>1. r = 48
            BY <1>8, <2>2
        <3>2. reg'[20] = reg[20] /\ reg'[49] = reg[49] /\ capture' = capture
            BY <1>3, <1>12, <3>1
        <3> QED BY <1>1, <3>2, EnabledSame DEF LoadInv
    <2>3. CASE phase[u] = "capture"
        <3>1. R!Changed(rd[u], x) \cap (0 .. 8) = reg[49] \cup {2}
            BY <1>7, <1>9, <2>3, CaptureEnables DEF R!Changed
        <3>2. capture' = u
            BY <1>9, <2>3, WhoCaptures
        <3>3. reg' = [reg EXCEPT ![49] = reg[49] \cup {2}]
            BY <1>1, <1>9, <2>3, <3>1
        <3> QED BY <1>1, <3>2, <3>3, CaptureAdds DEF LoadInv
    <2> QED BY <1>2, <2>1, <2>2, <2>3
<1>15. Setting'
    <2> SUFFICES ASSUME phase[u] \in Setters, NEW w \in Sets(v)
                 PROVE  Done(u, w)' \/ Ahead(u, w)' \/ (w = <<DmaIrq, 0>> /\ capture' = Handler)
        BY <1>1, <1>5 DEF Setting, Holding
    <2>1. v \in {0, 1} /\ x \in Sets(v)
        BY <1>10
    <2>2. R!Reg(w[1]) \in {20, 48, 49} /\ r = R!Reg(x[1])
        BY <1>7, <2>1, SetIsLow
    <2>3. Has(reg'[R!Reg(w[1])], w) => Done(u, w)'
        BY <1>1 DEF Done
    <2>4. w = x => Done(u, w)'
        <3>1. Has(R!Changed(rd[u], x) \cap (0 .. 8), x)
            BY <2>1, WriteSets
        <3> QED BY <1>3, <2>2, <2>3, <3>1
    <2>5. CASE Done(u, w)
        <3>1. CASE R!Reg(w[1]) = r
            <4>1. Has(rd[u], w)
                BY <2>5, <3>1 DEF Done
            <4> QED BY <1>3, <2>1, <2>3, <3>1, <4>1, WriteSets
        <3>2. CASE R!Reg(w[1]) # r
            BY <1>3, <2>2, <2>3, <2>5, <3>2 DEF Done
        <3> QED BY <3>1, <3>2
    <2>6. CASE Ahead(u, w)
        <3>1. PICK i \in 1 .. Len(writes[u]) : writes[u][i] = w
            BY <2>6 DEF Ahead
        <3>2. writes[u] \in Seq(Fits(phase[u], EngOf(u)))
            BY <1>1 DEF RInv, Fitting
        <3>3. CASE i = 1
            <4>1. w = x
                BY <1>1, <3>1, <3>2, <3>3, HeadTailProperties
            <4> QED BY <2>4, <4>1
        <3>4. CASE i # 1
            <4>1. /\ Len(Tail(writes[u])) = Len(writes[u]) - 1
                  /\ \A k \in 1 .. Len(Tail(writes[u])) : Tail(writes[u])[k] = writes[u][k + 1]
                BY <1>1, <3>2, HeadTailProperties
            <4>2. Len(writes[u]) \in Nat /\ i - 1 \in 1 .. Len(Tail(writes[u]))
                BY <3>1, <3>2, <3>4, <4>1
            <4>3. Tail(writes[u])[i - 1] = w
                BY <3>1, <4>1, <4>2
            <4>4. writes'[u] = Tail(writes[u])
                BY <1>1 DEF RInv, Shapes
            <4> QED BY <4>2, <4>3, <4>4 DEF Ahead
        <3> QED BY <3>3, <3>4
    <2>7. CASE w = <<DmaIrq, 0>> /\ capture = Handler
        <3>1. v = 0
            BY <2>7, SetIsLow, <2>1
        <3>2. x # <<DmaIrq, 1>>
            BY <1>10, <3>1
        <3>3. x # <<DmaIrq, 0>> => capture' = Handler
            BY <2>7, <3>2, WhoCaptures
        <3> QED BY <2>4, <2>7, <3>3
    <2> QED BY <2>5, <2>6, <2>7 DEF LoadInv, Setting
<1> QED BY <1>4, <1>6, <1>13, <1>14, <1>15

LEMMA LoadWrite ==
    ASSUME RInv, LoadInv, Handler \notin Procs, NEW u \in mid, R!PrsetWrite(u)
    PROVE  LoadInv'
<1>1. u \in Users /\ mid' = {} /\ UNCHANGED <<phase, fwid, bkl, asked, fpga>>
    BY WrittenBits DEF RInv, Shapes, R!PrsetWrite, R!CardWrite
<1>2. OneHolder' /\ Fresh' /\ Known'
    BY <1>1 DEF LoadInv, OneHolder, Fresh, Known
<1>3. CASE u \in Procs
    BY <1>2, <1>3, ProcWrite, NobodyAssumption DEF LoadInv
<1>4. CASE u = Handler
    <2>1. \A p \in Procs : writes'[p] = writes[p]
        <3>1. writes' = [writes EXCEPT ![Handler] = Tail(@)]
            BY <1>4, WrittenBits
        <3> QED BY <3>1 DEF RInv, Shapes, Users
    <2>2. CASE reg' = reg /\ capture' = capture
        <3>1. Narrow' /\ Captured' /\ Quiet' /\ R!EnablesAsAsked'
            BY <1>1, <2>2, EnabledSame DEF LoadInv, Narrow, Captured, Quiet, NoEngine
        <3>2. Setting'
            BY <1>1, <2>1, <2>2 DEF LoadInv, Setting, Done, Ahead
        <3> QED BY <1>2, <3>1, <3>2 DEF LoadInv
    <2>3. CASE reg' = [reg EXCEPT ![49] = reg[49] \cup {2}] /\ capture' = Handler
        <3>1. reg'[49] = reg[49] \cup {2} /\ reg'[48] = reg[48] /\ reg'[20] = reg[20]
            BY <2>3 DEF LoadInv, Narrow
        <3>2. Narrow'
            BY <2>3 DEF LoadInv, Narrow
        <3>3. Captured' /\ Quiet'
            BY <1>1, <2>3, <3>1 DEF LoadInv, Captured, Quiet, NoEngine, Users
        <3>4. R!EnablesAsAsked'
            BY <1>1, <2>3, CaptureAdds, NobodyAssumption DEF LoadInv
        <3>5. Setting'
            <4> SUFFICES ASSUME NEW p \in Procs, phase[p] \in Setters, NEW w \in Sets(Value(phase[p])),
                                Done(p, w), w # <<DmaIrq, 0>>
                         PROVE  Done(p, w)'
                BY <1>1, <2>1, <2>3 DEF LoadInv, Setting, Ahead
            <4>1. R!Reg(w[1]) \in {20, 48, 49} /\ w[2] = Value(phase[p]) /\ Value(phase[p]) \in {0, 1}
                BY SetIsLow DEF Value
            <4>2. CASE R!Reg(w[1]) # 49
                BY <1>1, <3>1, <4>1, <4>2 DEF Done, Has
            <4>3. CASE R!Reg(w[1]) = 49
                <5>1. w[1] \in Enables /\ w = <<w[1], w[2]>>
                    BY <4>3, GoBits DEF Sets
                <5>2. w[2] = 0 => 2 \notin R!Bits(w[1])
                    BY <4>3, <5>1, OtherEnables
                <5>3. Has(reg'[49], w)
                    BY <3>1, <4>1, <4>3, <5>2 DEF Done, Has
                <5> QED BY <1>1, <4>3, <5>3 DEF Done
            <4> QED BY <4>2, <4>3
        <3> QED BY <1>2, <3>2, <3>3, <3>4, <3>5 DEF LoadInv
    <2> QED BY <1>4, <2>2, <2>3, HandlerWrites
<1> QED BY <1>1, <1>3, <1>4 DEF Users

LEMMA LoadEnd ==
    ASSUME RInv, LoadInv, NEW e \in E, R!EngineEnds(e)
    PROVE  LoadInv'
<1>1. /\ UNCHANGED <<fpga, bkl, fwid, phase, writes, mid, rd, asked, capture>>
      /\ reg' = [reg EXCEPT ![48] = @ \ {e - 1}]
    BY GoBits DEF R!EngineEnds, R!prset
<1>2. reg'[48] = reg[48] \ {e - 1} /\ reg'[20] = reg[20] /\ reg'[49] = reg[49]
    BY <1>1 DEF LoadInv, Narrow
<1>3. OneHolder' /\ Known' /\ Captured' /\ R!EnablesAsAsked' /\ Quiet'
    BY <1>1, <1>2, EnabledSame DEF LoadInv, OneHolder, Known, Captured, Quiet, NoEngine
<1>4. Narrow'
    BY <1>1 DEF LoadInv, Narrow
<1>5. Fresh'
    <2> SUFFICES ASSUME NEW u \in mid, R!Reg(R!Field(u)) # 48
                 PROVE  rd[u] = reg'[R!Reg(R!Field(u))]
        BY <1>1 DEF Fresh, R!Field
    <2>1. u \in Users /\ writes[u] # <<>>
        BY DEF RInv, Shapes, Window
    <2>2. R!Reg(R!Field(u)) \in {20, 49}
        BY <2>1, WhichRegister DEF RInv
    <2> QED BY <1>2, <2>2 DEF LoadInv, Fresh
<1>6. Setting'
    <2> SUFFICES ASSUME NEW p \in Procs, phase[p] \in Setters, NEW w \in Sets(Value(phase[p])), Done(p, w)
                 PROVE  Done(p, w)'
        BY <1>1 DEF LoadInv, Setting, Ahead
    <2>1. R!Reg(w[1]) \in {20, 48, 49} /\ w[2] = Value(phase[p]) /\ Value(phase[p]) \in {0, 1}
        BY SetIsLow DEF Value
    <2>2. CASE R!Reg(w[1]) # 48
        BY <1>1, <1>2, <2>1, <2>2 DEF Done, R!Field
    <2>3. CASE R!Reg(w[1]) = 48
        <3>1. w[2] = 0
            BY <2>1, <2>3, EnableIsLow DEF Sets
        <3>2. Has(reg'[48], w)
            BY <1>2, <2>3, <3>1 DEF Done, Has
        <3> QED BY <1>1, <2>3, <3>2 DEF Done, R!Field
    <2> QED BY <2>2, <2>3
<1> QED BY <1>3, <1>4, <1>5, <1>6 DEF LoadInv

\* A process goes on to phase a, with ws to write.
LEMMA LoadGoes ==
    ASSUME RInv, LoadInv, Nobody \notin Procs, NEW p \in Procs, writes[p] = <<>>, bkl \in {Nobody, p},
           NEW a \in Phases \ {"irq"}, NEW ws,
           phase' = [phase EXCEPT ![p] = a], writes' = [writes EXCEPT ![p] = ws],
           UNCHANGED <<reg, mid, rd, capture>>,
           a \in Holding => bkl' = p,
           a \in Setters => ws = R!IrqSet(Value(a)),
           a \in Loaders => asked' = 0 /\ NoEngine /\ capture \in {Nobody, Handler},
           a \notin Setters => Settled(asked'),
           a \notin {"load", "ready", "done"} => (fwid' # 0 => fpga' = fwid')
    PROVE  LoadInv'
<1>1. \A q \in Procs \ {p} : phase[q] \notin Holding
    BY OthersFree DEF LoadInv
<1>2. /\ p \in Users /\ phase'[p] = a /\ writes'[p] = ws
      /\ \A q \in Users \ {p} : phase'[q] = phase[q] /\ writes'[q] = writes[q]
    BY DEF RInv, Shapes, Users
<1>3. \A q \in Procs : phase'[q] \in Holding => q = p
    BY <1>1, <1>2 DEF Users
<1>4. OneHolder'
    BY <1>2, <1>3 DEF LoadInv, OneHolder, Users
<1>5. Narrow' /\ Captured' /\ Quiet' /\ Known'
    <2>1. Quiet'
        BY <1>2, <1>3 DEF Quiet, NoEngine, Holding
    <2>2. Known'
        BY <1>2 DEF Known
    <2> QED BY <2>1, <2>2 DEF LoadInv, Narrow, Captured
<1>6. Fresh'
    <2>1. \A u \in mid : u \in Users /\ u # p
        BY DEF RInv, Shapes, Window
    <2> QED BY <1>2, <2>1 DEF LoadInv, Fresh, R!Field
<1>7. R!EnablesAsAsked'
    BY <1>2, CaptureEnables DEF DmaIrq, R!EnablesAsAsked, R!Enabled, R!Settling, Settled, Setters
<1>8. Setting'
    <2> SUFFICES ASSUME a \in Setters, NEW w \in Sets(Value(a)) PROVE Ahead(p, w)'
        BY <1>2, <1>3 DEF Setting, Holding
    <2>1. Value(a) \in {0, 1}
        BY DEF Value
    <2> QED BY <1>2, <2>1, IrqSetHasAll DEF Ahead
<1> QED BY <1>4, <1>5, <1>6, <1>7, <1>8 DEF LoadInv

\* What holds when nobody else has the lock.
LEMMA LoadKnows ==
    ASSUME RInv, LoadInv, Nobody \notin Procs, NEW p \in Procs, writes[p] = <<>>, bkl \in {Nobody, p}
    PROVE  /\ phase[p] \notin Setters => Settled(asked)
           /\ phase[p] \in Setters => Settled(Value(phase[p]))
           /\ phase[p] \in {"off", "load"} => NoEngine /\ capture \in {Nobody, Handler}
           /\ phase[p] \in Loaders => asked = 0 /\ NoEngine /\ capture \in {Nobody, Handler}
           /\ phase[p] \notin {"load", "ready", "done"} => (fwid # 0 => fpga = fwid)
<1>1. \A q \in Procs \ {p} : phase[q] \notin Holding
    BY OthersFree DEF LoadInv
<1>2. phase[p] \notin Setters => Settled(asked)
    BY <1>1, AskedIsSettled DEF LoadInv, R!Settling, Setters, Holding
<1>3. ASSUME phase[p] \in Setters
      PROVE  /\ Settled(Value(phase[p]))
             /\ phase[p] \in {"off", "load"} => NoEngine /\ capture \in {Nobody, Handler}
    <2>1. Value(phase[p]) \in {0, 1} /\ (phase[p] \in {"off", "load"} => Value(phase[p]) = 0)
        BY DEF Value
    <2>2. \A w \in Sets(Value(phase[p])) :
              Has(reg[R!Reg(w[1])], w) \/ (w = <<DmaIrq, 0>> /\ capture = Handler)
        BY <1>3 DEF LoadInv, Setting, Done, Ahead
    <2> QED BY <2>1, <2>2, AllSet, NobodyAssumption DEF LoadInv
<1>4. phase[p] \in Loaders => asked = 0 /\ NoEngine /\ capture \in {Nobody, Handler}
    BY DEF LoadInv, Quiet
<1>5. phase[p] \notin {"load", "ready", "done"} => (fwid # 0 => fpga = fwid)
    BY <1>1 DEF LoadInv, Known, Holding, Setters, Loaders
<1> QED BY <1>2, <1>3, <1>4, <1>5 DEF Setters

LEMMA LoadProcess ==
    ASSUME RInv, LoadInv, Nobody \notin Procs, NEW p \in Procs, R!Process(p) \/ R!Admin(p)
    PROVE  LoadInv'
<1> USE DEF Setters, Loaders, Holding
<1>0. p \in Users /\ phase[p] \in Phases
    BY DEF Users, RInv, Shapes
<1>1. writes[p] = <<>> /\ bkl \in {Nobody, p}
    <2>1. phase[p] \notin Writing => writes[p] = <<>>
        BY <1>0 DEF RInv, Fitting
    <2>2. phase[p] \in Holding => bkl = p
        BY DEF LoadInv, OneHolder
    <2>3. /\ phase[p] \notin Writing \/ writes[p] = <<>>
          /\ phase[p] \in Holding \/ bkl = Nobody
        BY DEF R!Process, R!Admin, R!Open, R!IrqEnable, R!IrqSetDone, R!Transfer, R!DmaGo, R!DmaSleeps,
               R!DmaTimeOut, R!DmaReturns, R!Load, R!LoadBegin, R!LoadErase, R!LoadUpload, R!LoadReset,
               R!LoadAlive, R!LoadGivesUp, R!AcapStart, R!AcapDone, R!Enter, R!Ready, R!Wrote, Writing
    <2> QED BY <2>1, <2>2, <2>3
<1>2. /\ phase[p] \notin Setters => Settled(asked)
      /\ phase[p] \in Setters => Settled(Value(phase[p]))
      /\ phase[p] \in {"off", "load"} => NoEngine /\ capture \in {Nobody, Handler}
      /\ phase[p] \in Loaders => asked = 0 /\ NoEngine /\ capture \in {Nobody, Handler}
      /\ phase[p] \notin {"load", "ready", "done"} => (fwid # 0 => fpga = fwid)
    BY <1>1, LoadKnows
<1>3. UNCHANGED writes => writes' = [writes EXCEPT ![p] = <<>>]
    BY <1>0, <1>1, NothingLeft
<1>4. ASSUME NEW v \in {0, 1}, R!IrqEnable(p, v) PROVE LoadInv'
    <2> DEFINE a == IF v = 0 THEN "off" ELSE "on"
    <2>1. /\ phase' = [phase EXCEPT ![p] = a] /\ writes' = [writes EXCEPT ![p] = R!IrqSet(v)]
          /\ bkl' = p /\ UNCHANGED <<reg, mid, rd, capture, fwid, fpga>> /\ phase[p] = "idle"
        BY <1>4 DEF R!IrqEnable, R!Enter, R!Ready, R!card, R!history
    <2>2. a \in {"on", "off"} /\ v = Value(a)
        BY DEF Value
    <2> HIDE DEF a
    <2> QED BY <1>1, <1>2, <2>1, <2>2, LoadGoes DEF Phases, Writing
<1>5. ASSUME NEW id, R!LoadBegin(p, id) PROVE LoadInv'
    <2>1. /\ phase' = [phase EXCEPT ![p] = "load"] /\ writes' = [writes EXCEPT ![p] = R!IrqSet(0)]
          /\ bkl' = p /\ UNCHANGED <<reg, mid, rd, capture>>
        BY <1>5 DEF R!LoadBegin, R!Enter, R!Ready, R!card, R!history
    <2>2. Value("load") = 0
        BY DEF Value
    <2> QED BY <1>1, <2>1, <2>2, LoadGoes DEF Phases, Writing
<1>6. CASE R!LoadAlive(p)
    <2>1. /\ phase' = [phase EXCEPT ![p] = "on"] /\ writes' = [writes EXCEPT ![p] = R!IrqSet(1)]
          /\ bkl' = bkl /\ UNCHANGED <<reg, mid, rd, capture, fwid, fpga>> /\ phase[p] = "alive"
        BY <1>6 DEF R!LoadAlive, R!card, R!history
    <2>2. Value("on") = 1 /\ bkl' = p
        BY <2>1 DEF Value, LoadInv, OneHolder
    <2> QED BY <1>1, <1>2, <2>1, <2>2, LoadGoes DEF Phases, Writing
<1>7. CASE R!IrqSetDone(p)
    <2>1. /\ phase' = [phase EXCEPT ![p] = "idle"] /\ UNCHANGED <<reg, mid, rd, capture, fwid, fpga, writes>>
          /\ phase[p] \in {"on", "off"} /\ asked' = Value(phase[p])
        BY <1>7 DEF R!IrqSetDone, R!Wrote, R!Leave, R!card, R!history, R!prset, Value
    <2> QED BY <1>1, <1>2, <1>3, <2>1, LoadGoes DEF Phases, Writing
<1>8. CASE R!LoadErase(p)
    <2>1. /\ phase' = [phase EXCEPT ![p] = "ready"] /\ UNCHANGED <<reg, mid, rd, capture, bkl, writes>>
          /\ phase[p] = "load" /\ asked' = 0
        BY <1>8 DEF R!LoadErase, R!Wrote, R!prset
    <2>2. Settled(asked') /\ bkl' = p
        BY <1>2, <2>1 DEF LoadInv, OneHolder, Value
    <2> QED BY <1>1, <1>2, <1>3, <2>1, <2>2, LoadGoes DEF Phases, Writing
<1>9. CASE R!LoadUpload(p) \/ R!LoadReset(p)
    <2>1. PICK a \in {"done", "alive"} :
             /\ phase' = [phase EXCEPT ![p] = a] /\ UNCHANGED <<reg, mid, rd, capture, bkl, writes, asked, fwid>>
             /\ phase[p] \in {"ready", "done"} /\ (a = "alive" => fpga' = fwid)
        BY <1>9 DEF R!LoadUpload, R!LoadReset, R!prset, R!card, R!history
    <2>2. bkl' = p
        BY <2>1 DEF LoadInv, OneHolder
    <2> QED BY <1>1, <1>2, <1>3, <2>1, <2>2, LoadGoes DEF Phases, Writing
<1>10. CASE R!LoadGivesUp(p)
    <2>1. /\ phase' = [phase EXCEPT ![p] = "idle"] /\ UNCHANGED <<reg, mid, rd, capture, writes, asked>>
          /\ phase[p] \in {"ready", "done", "alive"} /\ fwid' = 0
        BY <1>10 DEF R!LoadGivesUp, R!ForgetId, R!Leave, R!prset, R!card, R!history
    <2> QED BY <1>1, <1>2, <1>3, <2>1, LoadGoes DEF Phases, Writing
<1>11. ASSUME R!Transfer(p) PROVE LoadInv'
    <2>1. PICK a \in {"go", "sleep", "stop", "idle"} :
             /\ phase' = [phase EXCEPT ![p] = a] /\ \E ws : writes' = [writes EXCEPT ![p] = ws]
             /\ UNCHANGED <<reg, mid, rd, capture, asked, fwid, fpga>>
             /\ a \in {"go", "stop"} => bkl' = p
             /\ phase[p] \in {"idle", "go", "sleep", "stop"}
        <3>1. CASE R!DmaGo(p)
            BY <3>1 DEF R!DmaGo, R!Enter, R!Ready, R!card, R!history
        <3>2. CASE R!DmaSleeps(p)
            BY <1>3, <3>2 DEF R!DmaSleeps, R!Wrote, R!card, R!history, R!prset
        <3>3. CASE R!DmaTimeOut(p)
            BY <3>3 DEF R!DmaTimeOut, R!card, R!history
        <3>4. CASE R!DmaReturns(p)
            BY <1>3, <3>4 DEF R!DmaReturns, R!Wrote, R!Leave, R!card, R!history, R!prset
        <3> QED BY <1>11, <3>1, <3>2, <3>3, <3>4 DEF R!Transfer
    <2> QED BY <1>1, <1>2, <2>1, LoadGoes DEF Phases, Writing
<1>12. CASE R!AcapStart(p)
    <2>1. /\ phase' = [phase EXCEPT ![p] = "capture"] /\ writes' = [writes EXCEPT ![p] = <<R!CaptureIrq>>]
          /\ bkl' = p /\ UNCHANGED <<reg, mid, rd, capture, asked, fwid, fpga>> /\ phase[p] = "idle"
        BY <1>12 DEF R!AcapStart, R!Enter, R!Ready, R!card, R!history
    <2> QED BY <1>1, <1>2, <2>1, LoadGoes DEF Phases, Writing
<1>13. CASE R!AcapDone(p)
    <2>1. /\ phase' = [phase EXCEPT ![p] = "idle"] /\ phase[p] = "capture"
          /\ UNCHANGED <<reg, mid, rd, capture, asked, fwid, fpga, writes>>
        BY <1>13 DEF R!AcapDone, R!Wrote, R!Leave, R!card, R!prset, R!history
    <2> QED BY <1>1, <1>2, <1>3, <2>1, LoadGoes DEF Phases, Writing
<1> QED BY <1>4, <1>5, <1>6, <1>7, <1>8, <1>9, <1>10, <1>11, <1>12, <1>13 DEF R!Process, R!Open, R!Admin, R!Load

\* The handler has other things to write.
LEMMA LoadHandler ==
    ASSUME RInv, LoadInv, Handler \notin Procs, R!HandlerEnters \/ R!HandlerServes \/ R!HandlerLeaves
    PROVE  LoadInv'
<1>1. /\ UNCHANGED <<reg, fpga, bkl, fwid, mid, rd, asked, capture>>
      /\ \A p \in Procs : phase'[p] = phase[p] /\ writes'[p] = writes[p]
      /\ \A u \in mid : writes'[u] = writes[u]
    <2>1. CASE R!HandlerEnters \/ R!HandlerLeaves
        BY <2>1 DEF R!HandlerEnters, R!HandlerLeaves, R!card, R!history, R!prset, RInv, Shapes, Users
    <2>2. CASE R!HandlerServes
        <3>1. /\ UNCHANGED <<reg, fpga, bkl, fwid, mid, rd, asked, capture, phase>> /\ writes[Handler] = <<>>
              /\ \E ws : writes' = [writes EXCEPT ![Handler] = ws]
            BY <2>2 DEF R!HandlerServes, R!Wrote, R!card, R!history
        <3>2. \A u \in mid : u \in Users /\ u # Handler
            BY <3>1 DEF RInv, Shapes, Window
        <3>3. \A u \in Users \ {Handler} : writes'[u] = writes[u]
            BY <3>1 DEF RInv, Shapes
        <3> QED BY <3>1, <3>2, <3>3 DEF Users
    <2> QED BY <2>1, <2>2
<1>2. OneHolder' /\ Narrow' /\ Captured' /\ Quiet' /\ R!EnablesAsAsked' /\ Known'
    BY <1>1 DEF LoadInv, OneHolder, Narrow, Captured, Quiet, NoEngine, R!EnablesAsAsked, R!Enabled,
                R!Settling, Known
<1>3. Fresh'
    BY <1>1 DEF LoadInv, Fresh, R!Field
<1>4. Setting'
    BY <1>1 DEF LoadInv, Setting, Done, Ahead, R!Field
<1> QED BY <1>2, <1>3, <1>4 DEF LoadInv

LEMMA LoadRests ==
    ASSUME LoadInv, UNCHANGED <<reg, fpga, bkl, fwid, phase, writes, mid, rd, asked, capture>>
    PROVE  LoadInv'
<1>1. OneHolder' /\ Narrow' /\ Captured' /\ Quiet' /\ R!EnablesAsAsked' /\ Known'
    BY DEF LoadInv, OneHolder, Narrow, Captured, Quiet, NoEngine, R!EnablesAsAsked, R!Enabled,
                R!Settling, Known
<1>2. Fresh' /\ Setting'
    BY DEF LoadInv, Fresh, Setting, Done, Ahead, R!Field
<1> QED BY <1>1, <1>2 DEF LoadInv

LEMMA LoadStep ==
    ASSUME RInv, LoadInv, [Next]_vars
    PROVE  LoadInv'
<1>1. CASE UNCHANGED registers
    BY <1>1, LoadRests DEF registers
<1>2. CASE R!Next
    <2>1. ASSUME NEW p \in Procs, R!Process(p) \/ R!Admin(p) PROVE LoadInv'
        BY <2>1, LoadProcess, NobodyAssumption
    <2>2. ASSUME NEW u \in R!Users, R!PrsetRead(u) PROVE LoadInv'
        BY <2>2, LoadRead DEF R!Users, Users
    <2>3. ASSUME NEW u \in R!Users, R!PrsetWrite(u) PROVE LoadInv'
        <3>1. u \in mid
            BY <2>3 DEF R!PrsetWrite
        <3> QED BY <2>3, <3>1, LoadWrite, HandlerAssumption
    <2>4. ASSUME NEW i, R!Arrive(i) PROVE LoadInv'
        BY <2>4, LoadRests DEF R!Arrive, R!prset, R!history
    <2>5. ASSUME NEW e \in E, R!EngineEnds(e) PROVE LoadInv'
        BY <2>5, LoadEnd
    <2>6. CASE R!HandlerEnters \/ R!HandlerServes \/ R!HandlerLeaves
        BY <2>6, LoadHandler, HandlerAssumption
    <2> QED BY <1>2, <2>1, <2>2, <2>3, <2>4, <2>5, <2>6, AdminsAssumption DEF R!Next, R!Engines, E
<1> QED BY <1>1, <1>2 DEF Next, Registers, Sleep, Audio, Lifecycle, vars

LEMMA LoadInit ==
    ASSUME Init
    PROVE  LoadInv
<1>1. /\ reg = [r \in {20, 48, 49} |-> {}] /\ mid = {} /\ fwid = 0 /\ asked = 0 /\ capture = Nobody
      /\ \A p \in Procs : phase[p] = "idle"
    BY DEF Init, R!Init, R!Users
<1>2. OneHolder /\ Narrow /\ Fresh /\ Setting /\ Captured /\ Quiet /\ Known
    BY <1>1 DEF OneHolder, Narrow, Fresh, Setting, Captured, Quiet, Known, Holding, Setters, Loaders
<1>3. R!EnablesAsAsked
    BY <1>1 DEF R!EnablesAsAsked, R!Enabled
<1> QED BY <1>2, <1>3 DEF LoadInv

-----------------------------------------------------------------------------
\* For any number of processes that open, transfer, load firmware and switch
\* interrupts and start captures, the enables are what the last call asked for, and
\* the interrupt of a capture started since, whatever the handler cleared in the
\* same registers meanwhile (aja.c:509-533, 564, 2065-2068, 2145-2274).
THEOREM EnablesFollow == Spec => []EnablesAsAsked
<1>1. Init => RInv /\ LoadInv
    BY RegistersInit, LoadInit
<1>2. RInv /\ LoadInv /\ [Next]_vars => (RInv /\ LoadInv)'
    BY RegistersNext, LoadStep
<1>3. LoadInv => EnablesAsAsked
    BY DEF LoadInv, EnablesAsAsked
<1> QED BY <1>1, <1>2, <1>3, PTL DEF Spec

\* For any number of processes and firmware ids: no engine and no interrupt while
\* the card is programmed, but the one of DMA 3 if the handler started a capture;
\* and the id reported is that of the firmware in the card, after loads that
\* failed too (aja.c:1141-1177, 1215, 2065-2068).
THEOREM LoadsAreClean == Spec => []LoadsCleanly
<1>1. Init => RInv /\ LoadInv
    BY RegistersInit, LoadInit
<1>2. RInv /\ LoadInv /\ [Next]_vars => (RInv /\ LoadInv)'
    BY RegistersNext, LoadStep
<1>3. ASSUME LoadInv PROVE LoadsCleanly
    <2>1. R!QuietWhileProgrammed
        <3> SUFFICES ASSUME NEW p \in Procs, phase[p] \in Loaders
                     PROVE  /\ \A e \in E : ~R!Running(e)
                            /\ \A r \in {20, 49} :
                                 reg[r] \cap R!EnableBits[r] =
                                   IF r = 49 /\ capture = Handler THEN R!Bits(R!Dma[3].irqenable) ELSE {}
            BY DEF R!QuietWhileProgrammed, R!Programming, Loaders, R!Engines, E
        <3>1. asked = 0 /\ NoEngine /\ capture \in {Nobody, Handler}
            BY <1>3 DEF LoadInv, Quiet
        <3>2. ~R!Settling
            BY <1>3 DEF LoadInv, OneHolder, Holding, Setters, Loaders, R!Settling
        <3>3. \A e \in E : ~R!Running(e)
            BY <3>1, GoBits DEF NoEngine, R!Running
        <3> QED BY <1>3, <3>1, <3>2, <3>3, NobodyAssumption DEF LoadInv, R!EnablesAsAsked, R!Enabled
    <2>2. R!FwidTrue
        BY <1>3, NobodyAssumption DEF LoadInv, OneHolder, Known, R!FwidTrue, Holding, Setters, Loaders
    <2> QED BY <2>1, <2>2 DEF LoadsCleanly, R!LoadsCleanly
<1> QED BY <1>1, <1>2, <1>3, PTL DEF Spec

-----------------------------------------------------------------------------
\* The registers from which an engine takes its list are its own, so that lists
\* are handed to one engine while others run (aja.c:1058-1064).
LEMMA ListRegistersApart ==
    ASSUME NEW d \in E, NEW e \in E, d # e
    PROVE  \A a \in DOMAIN M!ListRegs[d], b \in DOMAIN M!ListRegs[e] :
               M!Reg(M!ListRegs[d][a]) # M!Reg(M!ListRegs[e][b])
BY DEF E, M!ListRegs, M!Reg, M!Whole

-----------------------------------------------------------------------------
(* The coming and going of cards (src/src/aja.c:2116-2127, 2403-2549) *)

Enabled == {"enabled"}
Region  == Enabled \cup {"region"}
Mapped  == Region \cup {"map"}
Made    == Mapped \cup {"card", "lists"}
Served  == Made \cup {"irq"}
Noded   == Served \cup {"node"}
Opens   == Noded \cup {"cdev"}
Slotted == Opens \cup {"slot"}
Decked  == Slotted \cup {"dnode"}
All     == Decked \cup {"dcdev"}

\* What a card may hold, by the piece that comes next.
ProbeMay(s) ==
    CASE s = "enabled" -> {}
      [] s = "region"  -> Enabled
      [] s = "map"     -> Region
      [] s = "card"    -> Mapped
      [] s = "irq"     -> Made
      [] s = "node"    -> Served
      [] s = "cdev"    -> Noded
      [] s = "slot"    -> Opens
      [] s = "dnode"   -> Slotted
      [] s = "dcdev"   -> Decked
      [] s = "count"   -> All

UndoMay(s) ==
    CASE s = "card"    -> Made
      [] s = "map"     -> Mapped
      [] s = "region"  -> Region
      [] s = "enabled" -> Enabled
      [] s = "end"     -> {}

RemoveMay(s) ==
    CASE s = "dnode"   -> All
      [] s = "dcdev"   -> All \ {"dnode"}
      [] s = "slot"    -> Slotted
      [] s = "node"    -> Opens
      [] s = "cdev"    -> Opens \ {"node"}
      [] s = "irq"     -> Served
      [] s = "map"     -> Made
      [] s = "region"  -> Made \ {"map"}
      [] s = "enabled" -> {"enabled", "card", "lists"}
      [] s = "card"    -> {"card", "lists"}
      [] s = "end"     -> {}

ProbeSteps  == {"enabled", "region", "map", "card", "irq", "node", "cdev", "slot", "dnode", "dcdev", "count"}
UndoSteps   == {"card", "map", "region", "enabled", "end"}
RemoveSteps == {"dnode", "dcdev", "slot", "node", "cdev", "irq", "map", "region", "enabled", "card", "end"}

-----------------------------------------------------------------------------
(* The inductive invariant. *)

LifeTypes ==
    /\ globals \in {{}, {"class", "driver"}}
    /\ cards \in Nat
    /\ at \in [Cards -> {"absent", "probe", "undo", "bound", "remove"}]
    /\ step \in [Cards -> ProbeSteps \cup {"end"}]
    /\ held \in [Cards -> SUBSET All]
    /\ index \in [Cards -> Nat]
    /\ devs \in [Slots -> Cards \cup {Nobody}]
    /\ hand \in [Cards -> {"out", "in", "deck"}]

DeckType == deck \in [Cards -> BOOLEAN]

\* What a card holds at most.
AtMost(c) ==
    /\ at[c] = "absent" => held[c] = {}
    /\ at[c] = "probe"  => step[c] \in ProbeSteps /\ held[c] \subseteq ProbeMay(step[c])
    /\ at[c] = "undo"   => step[c] \in UndoSteps /\ held[c] \subseteq UndoMay(step[c])
    /\ at[c] = "remove" => step[c] \in RemoveSteps /\ held[c] \subseteq RemoveMay(step[c])

\* What it holds at least.
AtLeast(c) ==
    /\ at[c] = "probe" /\ step[c] \notin {"enabled", "region", "map"} => "map" \in held[c]
    /\ at[c] = "probe" /\ step[c] \notin {"enabled", "region", "map", "card"} => "card" \in held[c]
    /\ at[c] = "probe" /\ step[c] \in {"dnode", "dcdev", "count"} => "slot" \in held[c]
    /\ at[c] = "bound" => {"map", "card"} \subseteq held[c]
    /\ "irq" \in held[c] => {"map", "card"} \subseteq held[c]
    /\ "card" \in held[c] => "lists" \in held[c] \/ "lists" \in unlucky
    /\ deck[c] => at[c] \in {"bound", "remove"}
    /\ at[c] = "bound" /\ deck[c] => "slot" \in held[c]

InTable(c) == \A s \in Slots : devs[s] = c => "slot" \in held[c]

InModule ==
    /\ module = "out" => globals = {} /\ \A c \in Cards : at[c] = "absent"
    /\ module = "init" => globals = {"class", "driver"}
    /\ \A c \in Cards : at[c] # "absent" => globals = {"class", "driver"}

LifeInv ==
    /\ LifeTypes /\ DeckType
    /\ \A c \in Cards : AtMost(c)
    /\ \A c \in Cards : AtLeast(c)
    /\ \A c \in Cards : InTable(c)
    /\ InModule

LEMMA LifeTypesStep == LifeTypes /\ (\A c \in Cards : AtMost(c)) /\ L!Next => LifeTypes'
<1> SUFFICES ASSUME LifeTypes, \A c \in Cards : AtMost(c), L!Next PROVE LifeTypes'
    OBVIOUS
<1> USE DEF LifeTypes, All, Decked, Slotted, Opens, Noded, Served, Made, Mapped, Region, Enabled, ProbeSteps
<1>1. CASE L!Modules
    <2>1. globals' \in {globals, {}, {"class", "driver"}} /\ cards' \in {0, cards} /\ UNCHANGED <<at, step, held, index, devs, hand>>
        BY <1>1 DEF L!Modules, L!SlaveInit, L!SlaveExit, L!AjaInit, L!AjaInitFails, L!ProbedAll,
            L!AjaExit, L!Cleanup, L!card
    <2> QED BY <2>1
<1>2. ASSUME NEW c \in Cards, L!Kernel(c) PROVE LifeTypes'
    BY <1>2 DEF L!Kernel, L!ProbeNext, L!Unregister, L!Bind, L!Unbind, L!Remove, L!Start, L!modules
<1>3. ASSUME NEW c \in Cards, L!Probe(c) PROVE LifeTypes'
    <2>1. CASE L!TakePiece(c)
        BY <1>3, <2>1 DEF L!TakePiece, L!Take, L!TakeNext, L!modules
    <2>2. CASE L!TakeCard(c)
        BY <2>2 DEF L!TakeCard, L!Take, L!TakeNext, L!modules
    <2>3. CASE L!TakeSlot(c)
        BY <2>3 DEF L!TakeSlot, L!Take, L!TakeNext, L!modules
    <2>4. CASE L!Undo(c) \/ L!GoOnWithout(c)
        BY <2>4 DEF L!Undo, L!GoOnWithout, L!UndoFirst, L!modules
    <2>5. CASE L!NoDeck(c) \/ L!Bound(c)
        BY <2>5 DEF L!NoDeck, L!Bound, L!Cleared, L!modules
    <2> QED BY <1>3, <2>1, <2>2, <2>3, <2>4, <2>5 DEF L!Probe
<1>4. ASSUME NEW c \in Cards, L!GiveBack(c) PROVE LifeTypes'
    <2>1. UNCHANGED <<globals, cards, at, index, hand>>
        BY <1>4 DEF L!GiveBack, L!Counted, L!modules
    <2>2. held' \in [Cards -> SUBSET All]
        BY <1>4 DEF L!GiveBack
    <2>3. devs' \in [Slots -> Cards \cup {Nobody}]
        BY <1>4 DEF L!GiveBack, L!Cleared
    <2>4. CASE at[c] = "undo"
        <3>1. L!UndoNext[step[c]] \in ProbeSteps \cup {"end"}
            BY <1>4, <2>4 DEF L!GiveBack, L!GivingBack, L!UndoNext, AtMost, UndoSteps
        <3> QED BY <1>4, <2>1, <2>2, <2>3, <2>4, <3>1 DEF L!GiveBack
    <2>5. CASE at[c] = "remove"
        <3>1. L!RemoveNext[step[c]] \in ProbeSteps \cup {"end"}
            BY <1>4, <2>5 DEF L!GiveBack, L!GivingBack, L!RemoveNext, AtMost, RemoveSteps
        <3> QED BY <1>4, <2>1, <2>2, <2>3, <2>5, <3>1 DEF L!GiveBack
    <2> QED BY <1>4, <2>4, <2>5 DEF L!GiveBack, L!GivingBack
<1>5. ASSUME NEW c \in Cards, L!Gone(c) \/ L!Handling(c) \/ L!Files(c) PROVE LifeTypes'
    BY <1>5 DEF L!Gone, L!Handling, L!HandlerEnters, L!HandlerLooks, L!HandlerLeaves, L!Files,
        L!Open, L!Release, L!DeckOpen, L!DeckRelease, L!modules, L!card
<1> QED BY <1>1, <1>2, <1>3, <1>4, <1>5 DEF L!Next

LEMMA DeckTypeStep == DeckType /\ L!Next => DeckType'
<1> SUFFICES ASSUME DeckType, L!Next PROVE DeckType'
    OBVIOUS
<1> USE DEF DeckType
<1>1. CASE L!Modules
    BY <1>1 DEF L!Modules, L!SlaveInit, L!SlaveExit, L!AjaInit, L!AjaInitFails, L!ProbedAll,
        L!AjaExit, L!Cleanup, L!card
<1>2. ASSUME NEW c \in Cards, L!Kernel(c) \/ L!GiveBack(c) \/ L!Handling(c) \/ L!Files(c) PROVE DeckType'
    BY <1>2 DEF L!Kernel, L!ProbeNext, L!Unregister, L!Bind, L!Unbind, L!Remove, L!Start, L!GiveBack,
        L!Handling, L!HandlerEnters, L!HandlerLooks, L!HandlerLeaves, L!Files, L!Open, L!Release,
        L!DeckOpen, L!DeckRelease, L!card
<1>3. ASSUME NEW c \in Cards, L!Probe(c) PROVE DeckType'
    BY <1>3 DEF L!Probe, L!TakePiece, L!TakeCard, L!TakeSlot, L!Undo, L!GoOnWithout, L!NoDeck, L!Bound
<1>4. ASSUME NEW c \in Cards, L!Gone(c) PROVE DeckType'
    BY <1>4 DEF L!Gone
<1> QED BY <1>1, <1>2, <1>3, <1>4 DEF L!Next

-----------------------------------------------------------------------------
(* What a card holds. *)

LEMMA TakeKeeps ==
    ASSUME LifeInv, NEW c \in Cards, L!TakePiece(c) \/ L!TakeCard(c) \/ L!TakeSlot(c)
    PROVE  \A d \in Cards : AtMost(d)'
<1> TAKE d \in Cards
<1> USE DEF LifeInv, LifeTypes, AtMost, L!modules
<1>1. UNCHANGED at /\ at[c] = "probe" /\ (d # c => step'[d] = step[d] /\ held'[d] = held[d])
    BY DEF L!TakePiece, L!TakeCard, L!TakeSlot, L!Take, L!Probing
<1>2. CASE d # c
    BY <1>1, <1>2
<1>3. CASE d = c
    <2>1. step'[c] = L!TakeNext[step[c]] /\ held'[c] \subseteq held[c] \cup {step[c]}
             \cup (IF step[c] = "card" THEN {"lists"} ELSE {}) /\ step[c] \in ProbeSteps \ {"count"}
        BY DEF L!TakePiece, L!TakeCard, L!TakeSlot, L!Take, ProbeSteps
    <2>2. held[c] \subseteq ProbeMay(step[c])
        BY <1>1
    <2>3. step'[c] \in ProbeSteps /\ held'[c] \subseteq ProbeMay(step'[c])
        BY <2>1, <2>2 DEF L!TakeNext, ProbeSteps, ProbeMay, All, Decked, Slotted, Opens, Noded,
            Served, Made, Mapped, Region, Enabled
    <2> QED BY <1>1, <1>3, <2>3
<1> QED BY <1>2, <1>3

LEMMA UndoKeeps ==
    ASSUME LifeInv, NEW c \in Cards, L!Undo(c) \/ L!GoOnWithout(c) \/ L!NoDeck(c) \/ L!Bound(c)
    PROVE  \A d \in Cards : AtMost(d)'
<1> TAKE d \in Cards
<1> USE DEF LifeInv, LifeTypes, AtMost, L!modules
<1>1. d # c => at'[d] = at[d] /\ step'[d] = step[d] /\ held'[d] = held[d]
    BY DEF L!Undo, L!GoOnWithout, L!NoDeck, L!Bound
<1>2. CASE d # c
    BY <1>1, <1>2
<1>3. CASE d = c
    <2>1. at[c] = "probe" /\ step[c] \in ProbeSteps /\ held[c] \subseteq ProbeMay(step[c])
        BY DEF L!Undo, L!GoOnWithout, L!NoDeck, L!Bound, L!Probing
    <2>2. CASE L!Undo(c)
        BY <1>3, <2>1, <2>2 DEF L!Undo, L!UndoFirst, UndoSteps, UndoMay, ProbeMay,
            Made, Mapped, Region, Enabled
    <2>3. CASE L!GoOnWithout(c)
        BY <1>3, <2>1, <2>3 DEF L!GoOnWithout, ProbeSteps, ProbeMay, Opens, Noded
    <2>4. CASE L!NoDeck(c) \/ L!Bound(c)
        BY <1>3, <2>4 DEF L!NoDeck, L!Bound
    <2> QED BY <2>2, <2>3, <2>4
<1> QED BY <1>2, <1>3

LEMMA RemoveKeeps ==
    ASSUME LifeInv, NEW c \in Cards, L!GiveBack(c)
    PROVE  \A d \in Cards : AtMost(d)'
<1> TAKE d \in Cards
<1> USE DEF LifeInv, LifeTypes, AtMost, L!modules
<1>1. UNCHANGED at /\ (d # c => step'[d] = step[d] /\ held'[d] = held[d]) /\ held'[c] = held[c] \ L!Piece(c)
    BY DEF L!GiveBack
<1>2. CASE d # c
    BY <1>1, <1>2
<1>3. CASE at[c] = "undo"
    <2>1. step[c] \in UndoSteps \ {"end"} /\ step'[c] = L!UndoNext[step[c]] /\ held[c] \subseteq UndoMay(step[c])
        BY <1>3 DEF L!GiveBack, L!GivingBack
    <2>2. step'[c] \in UndoSteps /\ held'[c] \subseteq UndoMay(step'[c])
        BY <1>1, <2>1 DEF L!UndoNext, L!Piece, UndoSteps, UndoMay, Made, Mapped, Region, Enabled
    <2> QED BY <1>1, <1>2, <1>3, <2>2
<1>4. CASE at[c] = "remove"
    <2>1. step[c] \in RemoveSteps \ {"end"} /\ step'[c] = L!RemoveNext[step[c]] /\ held[c] \subseteq RemoveMay(step[c])
        BY <1>4 DEF L!GiveBack, L!GivingBack
    <2>2. step'[c] \in RemoveSteps /\ held'[c] \subseteq RemoveMay(step'[c])
        BY <1>1, <2>1 DEF L!RemoveNext, L!Piece, RemoveSteps, RemoveMay, All, Decked, Slotted, Opens, Noded,
            Served, Made, Mapped, Region, Enabled
    <2> QED BY <1>1, <1>2, <1>4, <2>2
<1> QED BY <1>3, <1>4 DEF L!GiveBack, L!GivingBack

\* Whatever happens to a card, it holds no more than its stage allows.
LEMMA AtMostStep == LifeInv /\ L!Next => \A d \in Cards : AtMost(d)'
<1> SUFFICES ASSUME LifeInv, L!Next, NEW d \in Cards PROVE AtMost(d)'
    OBVIOUS
<1> USE DEF LifeInv, LifeTypes, AtMost, L!modules, L!card
<1>1. CASE L!Modules
    BY <1>1 DEF L!Modules, L!SlaveInit, L!SlaveExit, L!AjaInit, L!AjaInitFails, L!ProbedAll,
        L!AjaExit, L!Cleanup
<1>2. ASSUME NEW c \in Cards, L!ProbeNext(c) \/ L!Bind(c) PROVE AtMost(d)'
    BY <1>2 DEF L!ProbeNext, L!Bind, L!Start, ProbeSteps
<1>3. ASSUME NEW c \in Cards, L!Unregister(c) \/ L!Unbind(c) PROVE AtMost(d)'
    BY <1>3 DEF L!Unregister, L!Unbind, L!Remove, RemoveSteps, RemoveMay
<1>4. ASSUME NEW c \in Cards, L!Handling(c) \/ L!Files(c) PROVE AtMost(d)'
    BY <1>4 DEF L!Handling, L!HandlerEnters, L!HandlerLooks, L!HandlerLeaves, L!Files, L!Open, L!Release,
        L!DeckOpen, L!DeckRelease
<1>5. ASSUME NEW c \in Cards, L!Gone(c) PROVE AtMost(d)'
    BY <1>5 DEF L!Gone, UndoMay, RemoveMay
<1> QED BY <1>1, <1>2, <1>3, <1>4, <1>5, TakeKeeps, UndoKeeps, RemoveKeeps DEF L!Next, L!Kernel, L!Probe

\* A probe's pieces are there when the next ones use them, and while an interrupt
\* is had.
LEMMA AtLeastProbe ==
    ASSUME LifeInv, NEW c \in Cards, L!Probe(c)
    PROVE  \A d \in Cards : AtLeast(d)'
<1> TAKE d \in Cards
<1> USE DEF LifeInv, LifeTypes, AtLeast, L!modules, L!Probing
<1>1. CASE L!TakePiece(c)
    BY <1>1 DEF L!TakePiece, L!Take, L!TakeNext, DeckType
<1>2. CASE L!TakeCard(c)
    <2>1. at[c] = "probe" /\ step[c] = "card" /\ "map" \in held[c] /\ step' = [step EXCEPT ![c] = "irq"]
        BY <1>2 DEF L!TakeCard, L!Take, L!TakeNext
    <2>2. PICK lists \in BOOLEAN :
            /\ L!Risk("lists", ~lists)
            /\ held' = [held EXCEPT ![c] = @ \cup IF lists THEN {"card", "lists"} ELSE {"card"}]
        BY <1>2 DEF L!TakeCard, L!Take
    <2>3. unlucky \subseteq unlucky' /\ (~lists => "lists" \in unlucky')
        BY <2>2 DEF L!Risk
    <2> QED BY <1>2, <2>1, <2>2, <2>3 DEF L!TakeCard
<1>3. CASE L!TakeSlot(c)
    BY <1>3 DEF L!TakeSlot, L!Take, L!TakeNext
<1>4. CASE L!Undo(c)
    <2>1. at' = [at EXCEPT ![c] = "undo"] /\ at[c] = "probe" /\ UNCHANGED <<unlucky, held, deck>>
        BY <1>4 DEF L!Undo
    <2>2. d # c => step'[d] = step[d]
        BY <1>4 DEF L!Undo
    <2> QED BY <2>1, <2>2
<1>5. CASE L!GoOnWithout(c)
    BY <1>5 DEF L!GoOnWithout
<1>6. CASE L!NoDeck(c)
    BY <1>6 DEF L!NoDeck
<1>7. CASE L!Bound(c)
    <2>1. at[c] = "probe" /\ step[c] = "count" /\ {"map", "card", "slot"} \subseteq held[c]
        BY <1>7 DEF L!Bound
    <2>2. at' = [at EXCEPT ![c] = "bound"] /\ (d # c => step'[d] = step[d]) /\ UNCHANGED <<unlucky, held>>
        BY <1>7 DEF L!Bound
    <2>3. d # c => deck'[d] = deck[d]
        BY <1>7 DEF L!Bound, DeckType
    <2> QED BY <2>1, <2>2, <2>3
<1> QED BY <1>1, <1>2, <1>3, <1>4, <1>5, <1>6, <1>7 DEF L!Probe

\* Registers and card go after the interrupt.
LEMMA AtLeastRemove ==
    ASSUME LifeInv, NEW c \in Cards, L!GiveBack(c) \/ L!Gone(c)
    PROVE  \A d \in Cards : AtLeast(d)'
<1> TAKE d \in Cards
<1> USE DEF LifeInv, LifeTypes, AtLeast, L!modules
<1>1. CASE L!GiveBack(c)
    <2>1. at[c] \in {"undo", "remove"} /\ UNCHANGED <<at, deck>> /\ held' = [held EXCEPT ![c] = @ \ L!Piece(c)]
              /\ (d # c => step'[d] = step[d]) /\ unlucky \subseteq unlucky'
        BY <1>1 DEF L!GiveBack, L!GivingBack
    <2>2. step[c] \in {"map", "card"} => "irq" \notin held[c]
        BY <2>1 DEF AtMost, UndoMay, RemoveMay, Made, Mapped, Region, Enabled
    <2>3. "lists" \in L!Piece(c) => "card" \in L!Piece(c)
        BY DEF L!Piece, ProbeSteps
    <2>4. {"map", "card"} \cap L!Piece(c) # {} => step[c] \in {"map", "card"}
        BY DEF L!Piece
    <2> QED BY <2>1, <2>2, <2>3, <2>4
<1>2. CASE L!Gone(c)
    <2>1. at[c] \in {"undo", "remove"} /\ at' = [at EXCEPT ![c] = "absent"] /\ UNCHANGED <<step, held, unlucky>>
        BY <1>2 DEF L!Gone
    <2>2. d # c => deck'[d] = deck[d]
        BY <1>2 DEF L!Gone, DeckType
    <2>3. ~deck'[c]
        BY <1>2 DEF L!Gone, DeckType
    <2> QED BY <2>1, <2>2, <2>3
<1> QED BY <1>1, <1>2

LEMMA AtLeastStep == LifeInv /\ L!Next => \A d \in Cards : AtLeast(d)'
<1> SUFFICES ASSUME LifeInv, L!Next, NEW d \in Cards PROVE AtLeast(d)'
    OBVIOUS
<1> USE DEF LifeInv, LifeTypes, AtLeast, L!modules, L!card
<1>1. CASE L!Modules
    BY <1>1 DEF L!Modules, L!SlaveInit, L!SlaveExit, L!AjaInit, L!AjaInitFails, L!ProbedAll,
        L!AjaExit, L!Cleanup, L!Risk
<1>2. ASSUME NEW c \in Cards, L!ProbeNext(c) \/ L!Bind(c) PROVE AtLeast(d)'
    <2>1. unlucky \subseteq unlucky'
        BY <1>2 DEF L!ProbeNext, L!Bind, L!Risk
    <2>2. /\ at[c] = "absent" /\ at' = [at EXCEPT ![c] = "probe"] /\ step' = [step EXCEPT ![c] = "enabled"]
          /\ UNCHANGED <<held, deck>>
        BY <1>2 DEF L!ProbeNext, L!Bind, L!Start
    <2>3. CASE d = c
        BY <2>1, <2>2, <2>3
    <2>4. CASE d # c
        BY <2>1, <2>2, <2>4
    <2> QED BY <2>3, <2>4
<1>3. ASSUME NEW c \in Cards, L!Unregister(c) \/ L!Unbind(c) PROVE AtLeast(d)'
    BY <1>3 DEF L!Unregister, L!Unbind, L!Remove, L!Risk
<1>4. ASSUME NEW c \in Cards, L!Handling(c) \/ L!Files(c) PROVE AtLeast(d)'
    BY <1>4 DEF L!Handling, L!HandlerEnters, L!HandlerLooks, L!HandlerLeaves, L!Files, L!Open, L!Release,
        L!DeckOpen, L!DeckRelease, L!Risk
<1> QED BY <1>1, <1>2, <1>3, <1>4, AtLeastProbe, AtLeastRemove DEF L!Next, L!Kernel

\* A card has a place in the table of deck devices only while it holds one.
LEMMA InTableStep == Nobody \notin Cards /\ LifeInv /\ L!Next => \A d \in Cards : InTable(d)'
<1> SUFFICES ASSUME Nobody \notin Cards, LifeInv, L!Next, NEW d \in Cards PROVE InTable(d)'
    OBVIOUS
<1> USE DEF LifeInv, LifeTypes, InTable, L!modules, L!card
<1>1. CASE L!Modules
    BY <1>1 DEF L!Modules, L!SlaveInit, L!SlaveExit, L!AjaInit, L!AjaInitFails, L!ProbedAll,
        L!AjaExit, L!Cleanup
<1>2. ASSUME NEW c \in Cards, L!Kernel(c) \/ L!Handling(c) \/ L!Files(c) \/ L!Gone(c) PROVE InTable(d)'
    <2>1. UNCHANGED <<held, devs>>
        BY <1>2 DEF L!Kernel, L!ProbeNext, L!Bind, L!Start, L!Unregister, L!Unbind, L!Remove, L!Gone,
            L!Handling, L!HandlerEnters, L!HandlerLooks, L!HandlerLeaves, L!Files, L!Open, L!Release,
            L!DeckOpen, L!DeckRelease
    <2> QED BY <2>1
<1>3. ASSUME NEW c \in Cards, L!TakePiece(c) \/ L!TakeCard(c) \/ L!Undo(c) \/ L!GoOnWithout(c) \/ L!Bound(c)
      PROVE  InTable(d)'
    <2>1. UNCHANGED devs /\ held[d] \subseteq held'[d]
        BY <1>3 DEF L!TakePiece, L!TakeCard, L!Take, L!Undo, L!GoOnWithout, L!Bound
    <2> QED BY <2>1
<1>4. ASSUME NEW c \in Cards, L!TakeSlot(c) PROVE InTable(d)'
    BY <1>4 DEF L!TakeSlot, L!Take
<1>5. ASSUME NEW c \in Cards, L!NoDeck(c) PROVE InTable(d)'
    BY <1>5 DEF L!NoDeck, L!Cleared
<1>6. ASSUME NEW c \in Cards, L!GiveBack(c) PROVE InTable(d)'
    <2>1. CASE step[c] = "slot"
        BY <1>6, <2>1 DEF L!GiveBack, L!Cleared
    <2>2. CASE step[c] # "slot"
        BY <1>6, <2>2 DEF L!GiveBack, L!Piece
    <2> QED BY <2>1, <2>2
<1> QED BY <1>1, <1>2, <1>3, <1>4, <1>5, <1>6 DEF L!Next, L!Probe

\* Cards come and go only while the driver has its class.
LEMMA InModuleStep == LifeInv /\ L!Next => InModule'
<1> SUFFICES ASSUME LifeInv, L!Next PROVE InModule'
    OBVIOUS
<1> USE DEF LifeInv, LifeTypes, InModule, L!modules, L!card
<1>1. CASE L!Modules
    BY <1>1 DEF L!Modules, L!SlaveInit, L!SlaveExit, L!AjaInit, L!AjaInitFails, L!ProbedAll,
        L!AjaExit, L!Cleanup
<1>2. ASSUME NEW c \in Cards, L!ProbeNext(c) \/ L!Bind(c) PROVE InModule'
    BY <1>2 DEF L!ProbeNext, L!Bind, L!Start
<1>3. ASSUME NEW c \in Cards, L!Unregister(c) \/ L!Unbind(c) \/ L!Gone(c) PROVE InModule'
    BY <1>3 DEF L!Unregister, L!Unbind, L!Remove, L!Gone
<1>4. ASSUME NEW c \in Cards, L!Handling(c) \/ L!Files(c) \/ L!GiveBack(c) PROVE InModule'
    BY <1>4 DEF L!Handling, L!HandlerEnters, L!HandlerLooks, L!HandlerLeaves, L!Files, L!Open, L!Release,
        L!DeckOpen, L!DeckRelease, L!GiveBack
<1>5. ASSUME NEW c \in Cards, L!Probe(c) PROVE InModule'
    BY <1>5 DEF L!Probe, L!Probing, L!TakePiece, L!TakeCard, L!TakeSlot, L!Undo, L!GoOnWithout, L!NoDeck, L!Bound
<1> QED BY <1>1, <1>2, <1>3, <1>4, <1>5 DEF L!Next, L!Kernel

-----------------------------------------------------------------------------
LEMMA LifeStep == Nobody \notin Cards /\ LifeInv /\ L!Next => LifeInv'
BY LifeTypesStep, DeckTypeStep, AtMostStep, AtLeastStep, InTableStep, InModuleStep DEF LifeInv

LEMMA LifeInit == Nobody \notin Cards /\ L!Init => LifeInv
BY DEF L!Init, LifeInv, LifeTypes, DeckType, AtMost, AtLeast, InTable, InModule, ProbeSteps

LEMMA LifeRests == LifeInv /\ UNCHANGED lifecycle => LifeInv'
BY DEF lifecycle, LifeInv, LifeTypes, DeckType, AtMost, AtLeast, InTable, InModule

LEMMA LifeAlways == Spec => []LifeInv
<1>1. Init => LifeInv
    BY LifeInit, NobodyAssumption DEF Init
<1>2. LifeInv /\ [Next]_vars => LifeInv'
    BY LifeStep, LifeRests, NobodyAssumption DEF Next, Registers, Sleep, Audio, Lifecycle, vars
<1> QED BY <1>1, <1>2, PTL DEF Spec

\* For any number of cards and of places in the table, whichever piece a probe
\* fails at and whoever still uses the card: what was taken is given back (the
\* errors of aja_pci_probe, aja.c:2507-2519, and aja_pci_remove, 2525-2549).
THEOREM NothingIsLeft == Spec => []CardsLeaveNothing
<1>1. LifeInv => CardsLeaveNothing
    BY DEF LifeInv, AtMost, InTable, InModule, CardsLeaveNothing, L!CardsLeaveNothing
<1> QED BY <1>1, LifeAlways, PTL

-----------------------------------------------------------------------------
(* Who uses a card. *)

\* The handler has its interrupt, and with it card and registers; it finds the
\* deck, or came for a card that goes.
HandlerLive(c) ==
    /\ hand[c] # "out" => "irq" \in held[c]
    /\ hand[c] # "out" /\ deck[c] => "slot" \in held[c] \/ "late" \in unlucky
    /\ hand[c] = "deck" => deck[c]

\* A file is open on a card that stays, and one of the deck device as long as
\* that has its place in the table.
FilesLive(c) ==
    /\ c \in open => \/ "unbind" \in unlucky \/ at[c] = "bound"
                     \/ at[c] = "probe" /\ step[c] \in {"slot", "dnode", "dcdev", "count"}
    /\ c \in deckopen => \/ "deck" \in unlucky
                         \/ at[c] \in {"bound", "remove"} /\ "slot" \in held[c]
                         \/ at[c] = "probe" /\ step[c] = "count"

UseInv == LifeInv /\ \A c \in Cards : HandlerLive(c) /\ FilesLive(c)

LEMMA UseProbe ==
    ASSUME UseInv, NEW c \in Cards, L!Probe(c)
    PROVE  \A d \in Cards : (HandlerLive(d) /\ FilesLive(d))'
<1> TAKE d \in Cards
<1> USE DEF UseInv, LifeInv, LifeTypes, HandlerLive, FilesLive, L!Probing
<1>1. unlucky \subseteq unlucky' /\ UNCHANGED <<hand, open, deckopen>> /\ at[c] = "probe"
    BY DEF L!Probe, L!TakePiece, L!TakeCard, L!TakeSlot, L!Undo, L!GoOnWithout, L!NoDeck, L!Bound, L!Risk
<1>2. CASE d # c
    <2>1. at'[d] = at[d] /\ step'[d] = step[d] /\ held'[d] = held[d]
        BY <1>2 DEF L!Probe, L!TakePiece, L!TakeCard, L!TakeSlot, L!Take, L!Undo, L!GoOnWithout, L!NoDeck, L!Bound
    <2>2. deck'[d] = deck[d]
        BY <1>2 DEF L!Probe, L!TakePiece, L!TakeCard, L!TakeSlot, L!Undo, L!GoOnWithout, L!NoDeck,
            L!Bound, DeckType
    <2> QED BY <1>1, <2>1, <2>2
<1>3. CASE d = c
    <2> USE DEF L!modules
    <2>1. ~deck[c]
        BY <1>1 DEF AtLeast
    <2>2. CASE L!TakePiece(c) \/ L!TakeCard(c) \/ L!TakeSlot(c)
        BY <1>1, <1>3, <2>1, <2>2 DEF L!TakePiece, L!TakeCard, L!TakeSlot, L!Take, L!TakeNext
    <2>3. CASE L!Undo(c)
        BY <1>1, <1>3, <2>1, <2>3 DEF L!Undo, L!UndoFirst
    <2>4. CASE L!GoOnWithout(c)
        BY <1>1, <1>3, <2>1, <2>4 DEF L!GoOnWithout
    <2>5. CASE L!NoDeck(c)
        BY <1>1, <1>3, <2>1, <2>5 DEF L!NoDeck
    <2>6. CASE L!Bound(c)
        <3>1. "slot" \in held[c] /\ UNCHANGED held /\ at'[c] = "bound" /\ hand[c] # "deck"
            BY <1>1, <2>1, <2>6 DEF L!Bound, AtLeast
        <3> QED BY <1>1, <1>3, <3>1
    <2> QED BY <2>2, <2>3, <2>4, <2>5, <2>6 DEF L!Probe
<1> QED BY <1>2, <1>3

\* Freeing the interrupt waits for the handler; freeing the deck waits for
\* nobody.
LEMMA UseRemove ==
    ASSUME UseInv, NEW c \in Cards, L!GiveBack(c)
    PROVE  \A d \in Cards : (HandlerLive(d) /\ FilesLive(d))'
<1> TAKE d \in Cards
<1> USE DEF UseInv, LifeInv, LifeTypes, HandlerLive, FilesLive
<1>1. /\ unlucky' = unlucky \cup L!AtRisk(c) /\ at[c] \in {"undo", "remove"}
      /\ UNCHANGED <<at, deck, hand, open, deckopen>>
      /\ held' = [held EXCEPT ![c] = @ \ L!Piece(c)] /\ (d # c => step'[d] = step[d])
    BY DEF L!GiveBack, L!GivingBack
<1>2. CASE d # c
    BY <1>1, <1>2
<1>3. CASE d = c
    <2>1. "irq" \in L!Piece(c) => hand[c] = "out"
        BY DEF L!Piece, L!GiveBack
    <2>2. "slot" \in L!Piece(c) => step[c] = "slot"
        BY DEF L!Piece
    <2>3. step[c] = "slot" =>
            /\ hand[c] # "out" => "late" \in unlucky'
            /\ c \in deckopen => "deck" \in unlucky'
        BY <1>1 DEF L!AtRisk, L!Dangers
    <2>4. hand[c] # "out" => "irq" \in held'[c]
        BY <1>1, <2>1
    <2>5. "slot" \in held[c] => "slot" \in held'[c] \/ step[c] = "slot"
        BY <1>1, <2>2
    <2>6. unlucky \subseteq unlucky' /\ at' = at /\ hand' = hand /\ open' = open /\ deckopen' = deckopen
             /\ at[c] \in {"undo", "remove"}
        BY <1>1
    <2>7. FilesLive(c)'
        BY <2>3, <2>5, <2>6
    <2>8. deck' = deck
        BY <1>1
    <2>9. HandlerLive(c)'
        BY <2>3, <2>4, <2>5, <2>6, <2>8
    <2> QED BY <1>3, <2>7, <2>9
<1> QED BY <1>2, <1>3

LEMMA UseStep == Nobody \notin Cards /\ UseInv /\ L!Next => UseInv'
<1> SUFFICES ASSUME Nobody \notin Cards, UseInv, L!Next, NEW d \in Cards PROVE HandlerLive(d)' /\ FilesLive(d)'
    BY LifeStep DEF UseInv
<1> USE DEF UseInv, LifeInv, LifeTypes, HandlerLive, FilesLive, L!modules, L!card
<1>1. CASE L!Modules
    BY <1>1 DEF L!Modules, L!SlaveInit, L!SlaveExit, L!AjaInit, L!AjaInitFails, L!ProbedAll,
        L!AjaExit, L!Cleanup, L!Risk
<1>2. ASSUME NEW c \in Cards, L!ProbeNext(c) \/ L!Bind(c) PROVE HandlerLive(d)' /\ FilesLive(d)'
    BY <1>2 DEF L!ProbeNext, L!Bind, L!Start, L!Risk
<1>3. ASSUME NEW c \in Cards, L!Unregister(c) \/ L!Unbind(c) PROVE HandlerLive(d)' /\ FilesLive(d)'
    <2>1. (c \in open => "unbind" \in unlucky') /\ unlucky \subseteq unlucky'
        BY <1>3 DEF L!Unregister, L!Unbind, L!Remove, L!Risk
    <2> QED BY <1>3, <2>1 DEF L!Unregister, L!Unbind, L!Remove
<1>4. ASSUME NEW c \in Cards, L!HandlerEnters(c) PROVE HandlerLive(d)' /\ FilesLive(d)'
    <2>1. deck[c] => "slot" \in held[c] \/ "late" \in unlucky'
        BY <1>4 DEF L!HandlerEnters, L!Risk, AtLeast
    <2>2. unlucky \subseteq unlucky' /\ "irq" \in held[c] /\ hand' = [hand EXCEPT ![c] = "in"]
        BY <1>4 DEF L!HandlerEnters, L!Risk
    <2> QED BY <1>4, <2>1, <2>2 DEF L!HandlerEnters
<1>5. ASSUME NEW c \in Cards, L!HandlerLooks(c) \/ L!HandlerLeaves(c) PROVE HandlerLive(d)' /\ FilesLive(d)'
    BY <1>5 DEF L!HandlerLooks, L!HandlerLeaves
<1>6. ASSUME NEW c \in Cards, L!Open(c) PROVE HandlerLive(d)' /\ FilesLive(d)'
    <2>1. \/ "unbind" \in unlucky' \/ at[c] = "bound"
          \/ at[c] = "probe" /\ step[c] \in {"slot", "dnode", "dcdev", "count"}
        <3>1. "cdev" \in held[c] /\ (at[c] = "remove" => "unbind" \in unlucky')
            BY <1>6 DEF L!Open, L!Risk
        <3>2. at[c] = "undo" => "cdev" \notin held[c]
            BY DEF AtMost, UndoMay, UndoSteps, Made, Mapped, Region, Enabled
        <3>3. at[c] = "probe" /\ "cdev" \in held[c] => step[c] \in {"slot", "dnode", "dcdev", "count"}
            BY DEF AtMost, ProbeMay, ProbeSteps, Noded, Served, Made, Mapped, Region, Enabled
        <3> QED BY <3>1, <3>2, <3>3 DEF AtMost
    <2>2. unlucky \subseteq unlucky'
        BY <1>6 DEF L!Open, L!Risk
    <2> QED BY <1>6, <2>1, <2>2 DEF L!Open
<1>7. ASSUME NEW c \in Cards, L!DeckOpen(c) PROVE HandlerLive(d)' /\ FilesLive(d)'
    <2>1. \/ at[c] \in {"bound", "remove"} /\ "slot" \in held[c]
          \/ at[c] = "probe" /\ step[c] = "count"
        <3>1. {"dcdev", "slot"} \subseteq held[c]
            BY <1>7 DEF L!DeckOpen, InTable
        <3>2. at[c] = "undo" => "dcdev" \notin held[c]
            BY DEF AtMost, UndoMay, UndoSteps, Made, Mapped, Region, Enabled
        <3>3. at[c] = "probe" /\ "dcdev" \in held[c] => step[c] = "count"
            BY DEF AtMost, ProbeMay, ProbeSteps, Decked, Slotted, Opens, Noded, Served, Made, Mapped, Region, Enabled
        <3> QED BY <3>1, <3>2, <3>3 DEF AtMost
    <2> QED BY <1>7, <2>1 DEF L!DeckOpen
<1>8. ASSUME NEW c \in Cards, L!Release(c) \/ L!DeckRelease(c) PROVE HandlerLive(d)' /\ FilesLive(d)'
    BY <1>8 DEF L!Release, L!DeckRelease
<1>9. ASSUME NEW c \in Cards, L!Gone(c) PROVE HandlerLive(d)' /\ FilesLive(d)'
    <2>1. /\ at[c] \in {"undo", "remove"} /\ at' = [at EXCEPT ![c] = "absent"]
          /\ UNCHANGED <<unlucky, step, held, hand, open, deckopen>>
        BY <1>9 DEF L!Gone
    <2>2. held[c] = {}
        BY <1>9 DEF L!Gone, AtMost, UndoMay, RemoveMay
    <2>3. d # c => deck'[d] = deck[d]
        BY <1>9 DEF L!Gone
    <2> QED BY <2>1, <2>2, <2>3
<1> QED BY <1>1, <1>2, <1>3, <1>4, <1>5, <1>6, <1>7, <1>8, <1>9, UseProbe, UseRemove
        DEF L!Next, L!Kernel, L!Handling, L!Files

\* For any number of cards: the handler of a card always has the card and its
\* registers, and a file has them unless its card was taken away under it; only
\* the deck device may go under its users (aja.c:2525-2549).
THEOREM UsedIsThere == Spec => []CardsUsedLive
<1>1. Init => UseInv
    BY LifeInit, NobodyAssumption DEF Init, L!Init, UseInv, HandlerLive, FilesLive
<1>2. UseInv /\ UNCHANGED lifecycle => UseInv'
    BY LifeRests DEF lifecycle, UseInv, HandlerLive, FilesLive
<1>3. UseInv /\ [Next]_vars => UseInv'
    BY UseStep, NobodyAssumption, <1>2 DEF Next, Registers, Sleep, Audio, Lifecycle, vars
<1>4. UseInv => CardsUsedLive
    <2> SUFFICES ASSUME UseInv PROVE L!CardsUsedLive
        BY DEF CardsUsedLive
    <2> USE DEF UseInv, LifeInv, LifeTypes
    <2> SUFFICES ASSUME NEW c \in Cards
                 PROVE  /\ hand[c] # "out" => {"card", "map", "irq"} \subseteq held[c]
                        /\ hand[c] = "deck" => "slot" \in held[c] \/ "late" \in unlucky
                        /\ c \in open => {"card", "map"} \subseteq held[c] \/ "unbind" \in unlucky
                        /\ c \in open => "lists" \in held[c] \/ unlucky \cap {"unbind", "lists"} # {}
                        /\ c \in deckopen => "slot" \in held[c] \/ "deck" \in unlucky
                        /\ {"node", "cdev"} \cap held[c] # {} => {"class", "driver"} \subseteq globals
        BY DEF L!CardsUsedLive
    <2>1. hand[c] # "out" => {"card", "map", "irq"} \subseteq held[c]
        BY DEF HandlerLive, AtLeast
    <2>2. hand[c] = "deck" => "slot" \in held[c] \/ "late" \in unlucky
        BY DEF HandlerLive
    <2>3. c \in open => {"card", "map"} \subseteq held[c] \/ "unbind" \in unlucky
        BY DEF FilesLive, AtLeast
    <2>4. c \in open => "lists" \in held[c] \/ unlucky \cap {"unbind", "lists"} # {}
        BY <2>3 DEF AtLeast
    <2>5. c \in deckopen => "slot" \in held[c] \/ "deck" \in unlucky
        BY DEF FilesLive, AtLeast
    <2>6. {"node", "cdev"} \cap held[c] # {} => {"class", "driver"} \subseteq globals
        BY DEF AtMost, InModule
    <2> QED BY <2>1, <2>2, <2>3, <2>4, <2>5, <2>6
<1> QED BY <1>1, <1>3, <1>4, PTL DEF Spec

-----------------------------------------------------------------------------
(* Device numbers (src/src/aja.c:755, 2449, 2494) *)

Coming(c) == at[c] \in {"probe", "undo"}

\* While cards are probed one at a time: a card that came has a number below the
\* count of cards, and one that is coming has the count.
Numbered ==
    "together" \notin unlucky =>
        /\ \A c \in Cards : "card" \in held[c] =>
              IF Coming(c) THEN index[c] = cards ELSE index[c] < cards
        /\ \A c, d \in Cards : Coming(c) /\ Coming(d) => c = d
        /\ \A c, d \in Cards : c # d /\ {"card"} \subseteq held[c] \cap held[d] => index[c] # index[d]

LEMMA NumberedStep == LifeInv /\ Numbered /\ L!Next => Numbered'
<1> SUFFICES ASSUME LifeInv, Numbered, L!Next, "together" \notin unlucky' PROVE Numbered'
    BY DEF Numbered
<1> USE DEF LifeInv, LifeTypes, Numbered, Coming, L!modules, L!card
<1>1. CASE L!Modules
    <2>1. UNCHANGED <<at, held, index>> /\ "together" \notin unlucky
        BY <1>1 DEF L!Modules, L!SlaveInit, L!SlaveExit, L!AjaInit, L!AjaInitFails, L!ProbedAll,
            L!AjaExit, L!Cleanup, L!Risk
    <2>2. cards' = cards \/ \A c \in Cards : at[c] = "absent"
        BY <1>1 DEF L!Modules, L!SlaveInit, L!SlaveExit, L!AjaInit, L!AjaInitFails, L!ProbedAll,
            L!AjaExit, L!Cleanup, InModule
    <2> QED BY <2>1, <2>2 DEF AtMost
<1>2. ASSUME NEW c \in Cards, L!ProbeNext(c) \/ L!Bind(c) PROVE Numbered'
    <2>1. UNCHANGED <<held, index, cards>> /\ "together" \notin unlucky /\ at[c] = "absent"
             /\ at' = [at EXCEPT ![c] = "probe"]
        BY <1>2 DEF L!ProbeNext, L!Bind, L!Start, L!Risk
    <2>2. \A d \in Cards : ~Coming(d)
        BY <1>2 DEF L!ProbeNext, L!Bind, L!Risk, L!Moving
    <2>3. held[c] = {}
        BY <2>1 DEF AtMost
    <2> QED BY <2>1, <2>2, <2>3
<1>3. ASSUME NEW c \in Cards, L!Unregister(c) \/ L!Unbind(c) PROVE Numbered'
    BY <1>3 DEF L!Unregister, L!Unbind, L!Remove, L!Risk
<1>4. ASSUME NEW c \in Cards, L!Handling(c) \/ L!Files(c) PROVE Numbered'
    BY <1>4 DEF L!Handling, L!HandlerEnters, L!HandlerLooks, L!HandlerLeaves, L!Files, L!Open, L!Release,
        L!DeckOpen, L!DeckRelease, L!Risk
<1>5. ASSUME NEW c \in Cards, L!TakePiece(c) \/ L!TakeSlot(c) \/ L!Undo(c) \/ L!GoOnWithout(c) PROVE Numbered'
    <2>1. UNCHANGED <<unlucky, index, cards>> /\ \A d \in Cards : Coming(d)' = Coming(d)
        BY <1>5 DEF L!TakePiece, L!TakeSlot, L!Undo, L!GoOnWithout, L!Probing
    <2>2. \A d \in Cards : "card" \in held'[d] => "card" \in held[d]
        BY <1>5 DEF L!TakePiece, L!TakeSlot, L!Take, L!Undo, L!GoOnWithout
    <2> QED BY <2>1, <2>2
<1>6. ASSUME NEW c \in Cards, L!TakeCard(c) PROVE Numbered'
    <2>1. UNCHANGED <<at, cards>> /\ at[c] = "probe" /\ "together" \notin unlucky
             /\ index' = [index EXCEPT ![c] = cards]
        BY <1>6 DEF L!TakeCard, L!Probing, L!Risk
    <2>2. \A d \in Cards \ {c} : held'[d] = held[d]
        BY <1>6 DEF L!TakeCard, L!Take
    <2> QED BY <2>1, <2>2
<1>7. ASSUME NEW c \in Cards, L!NoDeck(c) \/ L!Bound(c) PROVE Numbered'
    <2>1. /\ at[c] = "probe" /\ at' = [at EXCEPT ![c] = "bound"] /\ cards' = cards + 1
          /\ UNCHANGED <<unlucky, index>>
        BY <1>7 DEF L!NoDeck, L!Bound, L!Probing
    <2>2. \A d \in Cards : held'[d] \subseteq held[d]
        BY <1>7 DEF L!NoDeck, L!Bound
    <2> QED BY <2>1, <2>2
<1>8. ASSUME NEW c \in Cards, L!GiveBack(c) PROVE Numbered'
    <2>1. UNCHANGED <<at, index, cards>> /\ unlucky \subseteq unlucky' /\ \A d \in Cards : held'[d] \subseteq held[d]
        BY <1>8 DEF L!GiveBack, L!Counted
    <2> QED BY <2>1
<1>9. ASSUME NEW c \in Cards, L!Gone(c) PROVE Numbered'
    <2>1. UNCHANGED <<unlucky, cards, held>> /\ at' = [at EXCEPT ![c] = "absent"] /\ index' = [index EXCEPT ![c] = 0]
        BY <1>9 DEF L!Gone
    <2>2. held[c] = {}
        BY <1>9 DEF L!Gone, AtMost, UndoMay, RemoveMay
    <2> QED BY <2>1, <2>2
<1> QED BY <1>1, <1>2, <1>3, <1>4, <1>5, <1>6, <1>7, <1>8, <1>9 DEF L!Next, L!Kernel, L!Probe

\* For any number of cards, as long as two are not probed at once: cards have
\* numbers of their own, however many came, failed to come and went before.
THEOREM NumbersAreDistinct == Spec => []NumbersDistinct
<1>1. Init => LifeInv /\ Numbered
    BY LifeInit, NobodyAssumption DEF Init, L!Init, Numbered, Coming
<1>2. LifeInv /\ Numbered /\ UNCHANGED lifecycle => (LifeInv /\ Numbered)'
    BY LifeRests DEF lifecycle, Numbered, Coming
<1>3. LifeInv /\ Numbered /\ [Next]_vars => (LifeInv /\ Numbered)'
    BY <1>2, LifeStep, NumberedStep, NobodyAssumption DEF Next, Registers, Sleep, Audio, Lifecycle, vars
<1>4. Numbered => NumbersDistinct
    BY DEF Numbered, NumbersDistinct, L!NumbersDistinct
<1> QED BY <1>1, <1>3, <1>4, PTL DEF Spec
=============================================================================
