------------------------------ MODULE IrqSleep ------------------------------
(***************************************************************************)
(* Sleeping for an interrupt and for a frame (src/src/aja.c:454-460,       *)
(* 1252-1310 and 2132-2284): aja_ioctl_irqsleep has a wait loop of its     *)
(* own, which looks at the count before it declares itself asleep;         *)
(* aja_wait_for_frame has the kernel's, which does it the other way round. *)
(* The handler, on another processor, counts an interrupt, serves it and   *)
(* wakes who sleeps for it.                                                *)
(*                                                                         *)
(* What is waited for is a source: a type of interrupt, or Frame, the      *)
(* frames counted by the first field of an Output interrupt.               *)
(***************************************************************************)
EXTENDS Integers

CONSTANTS
    Procs,
    Types,       \* the types of interrupts (AJA_BusError .. AJA_UART_RX)
    NewField,    \* the one of a new field (AJA_Output)
    Frame,       \* not a type
    MaxIrqs      \* bound of the model: interrupts of each type

Sources == Types \cup {Frame}

VARIABLES
    count,      \* irqcount, and frame.id
    owing,      \* the handler has counted these and not yet woken their sleepers
    pc,         \* "user", "read", "check", "declare", "schedule", "asleep"
    src,        \* what a process waits for
    cirq,       \* the count it found when it was called (cirq, cid)
    declared,   \* the processes in TASK_INTERRUPTIBLE
    signals,    \* the processes that have a signal to handle
    \* history
    since       \* the count when the process last declared itself asleep

process == <<pc, src, cirq, declared, signals, since>>
vars    == <<count, owing, process>>

Init ==
    /\ count = [s \in Sources |-> 0] /\ owing = {}
    /\ pc = [p \in Procs |-> "user"] /\ src = [p \in Procs |-> Frame]
    /\ cirq = [p \in Procs |-> 0] /\ since = [p \in Procs |-> 0]
    /\ declared = {} /\ signals = {}

Goto(p, l) == pc' = [pc EXCEPT ![p] = l]

-----------------------------------------------------------------------------
(* Faulty variants. *)

\* A process is put on the queue only when it sleeps.
QueuedLate(p, s) == src[p] = s /\ pc[p] = "asleep"

\* The sleepers for a frame are forgotten.
OnlyIrq(t, first) == {t}

-----------------------------------------------------------------------------
(* The interrupt handler *)

\* On the wait queue of s.
Waits(p, s) == src[p] = s /\ pc[p] \in {"check", "declare", "schedule", "asleep"}

Counted(t, first) == IF t = NewField /\ first THEN {t, Frame} ELSE {t}

Owed(t, first) == Counted(t, first)

Interrupt(t, first) ==
    /\ owing = {} /\ count[t] < MaxIrqs
    /\ count' = [s \in Sources |-> IF s \in Counted(t, first) THEN count[s] + 1 ELSE count[s]]
    /\ owing' = Owed(t, first)
    /\ UNCHANGED process

\* wake_up_all; the sleepers for the frame come first.
WakeUpAll(s) ==
    /\ s \in owing
    /\ s = NewField => Frame \notin owing
    /\ declared' = declared \ {p \in Procs : Waits(p, s)}
    /\ owing' = owing \ {s}
    /\ UNCHANGED <<count, pc, src, cirq, signals, since>>

-----------------------------------------------------------------------------
(* aja_ioctl_irqsleep: check, declare, schedule, and check again.            *)
(* aja_wait_for_frame: declare, check, schedule, and declare again.          *)

Call(p, s) ==
    /\ pc[p] = "user"
    /\ Goto(p, "read")
    /\ src' = [src EXCEPT ![p] = s]
    /\ cirq' = [cirq EXCEPT ![p] = count[s]]
    /\ UNCHANGED <<count, owing, declared, signals, since>>

\* The first step of the loop, which is also the one after waking up.
LoopsTo(p) == IF src[p] = Frame THEN "declare" ELSE "check"

Queue(p) ==
    /\ pc[p] = "read"
    /\ Goto(p, LoopsTo(p))
    /\ UNCHANGED <<count, owing, src, cirq, declared, signals, since>>

Leave(p) ==
    /\ Goto(p, "user")
    /\ declared' = declared \ {p}
    /\ signals' = signals \ {p}
    /\ UNCHANGED <<count, owing, src, cirq, since>>

Declare(p) ==
    /\ pc[p] = "declare"
    /\ declared' = declared \cup {p}
    /\ since' = [since EXCEPT ![p] = count[src[p]]]
    /\ Goto(p, IF src[p] = Frame THEN "check" ELSE "schedule")
    /\ UNCHANGED <<count, owing, src, cirq, signals>>

Same(p) == count[src[p]] = cirq[p]

Check(p) ==
    /\ pc[p] = "check"
    /\ Same(p)
    /\ Goto(p, IF src[p] = Frame THEN "schedule" ELSE "declare")
    /\ UNCHANGED <<count, owing, src, cirq, declared, signals, since>>

Happened(p) ==
    /\ pc[p] = "check"
    /\ ~Same(p)
    /\ Leave(p)

\* schedule() returns at once if somebody woke the process meanwhile.
Schedule(p) ==
    /\ pc[p] = "schedule"
    /\ p \notin signals
    /\ Goto(p, IF p \in declared THEN "asleep" ELSE LoopsTo(p))
    /\ UNCHANGED <<count, owing, src, cirq, declared, signals, since>>

GiveWay(p) == pc[p] = "schedule" /\ p \in signals /\ Leave(p)

WakesUp(p) ==
    /\ pc[p] = "asleep" /\ p \notin declared
    /\ Goto(p, LoopsTo(p))
    /\ UNCHANGED <<count, owing, src, cirq, declared, signals, since>>

Signal(p) ==
    /\ pc[p] # "user" /\ p \notin signals
    /\ signals' = signals \cup {p}
    /\ declared' = declared \ {p}
    /\ UNCHANGED <<count, owing, pc, src, cirq, since>>

\* Only the wait for a frame has a timeout.
TimeOut(p) == pc[p] = "asleep" /\ src[p] = Frame /\ Leave(p)

Runs(p) ==
    \/ Queue(p) \/ Declare(p) \/ Check(p) \/ Happened(p)
    \/ Schedule(p) \/ GiveWay(p) \/ WakesUp(p)

Process(p) == (\E s \in Sources : Call(p, s)) \/ Runs(p) \/ Signal(p) \/ TimeOut(p)

Next ==
    \/ \E t \in Types, first \in BOOLEAN : Interrupt(t, first)
    \/ \E s \in Sources : WakeUpAll(s)
    \/ \E p \in Procs : Process(p)

Spec == Init /\ [][Next]_vars

-----------------------------------------------------------------------------
(* Properties *)

\* Type correctness of the counts and the processes (aja.c:1260-1290).
TypeOK ==
    /\ count \in [Sources -> Nat]
    /\ owing \in SUBSET Sources
    /\ pc \in [Procs -> {"user", "read", "check", "declare", "schedule", "asleep"}]
    /\ src \in [Procs -> Sources]
    /\ cirq \in [Procs -> Nat] /\ since \in [Procs -> Nat]
    /\ declared \in SUBSET Procs /\ signals \in SUBSET Procs

FastAsleep(p) == pc[p] = "asleep" /\ p \in declared

\* irqsleep can miss an interrupt that comes between its look at the count and
\* its sleep (aja.c:1267-1270), but never two: who sleeps has seen nothing happen
\* since it declared itself asleep, or is about to be woken.
NextInterruptWakes ==
    \A p \in Procs :
        FastAsleep(p) => count[src[p]] = since[p] \/ src[p] \in owing

\* The wait for a frame misses none: who sleeps has seen no frame since it was
\* called, or is about to be woken (aja.c:1283-1290, 2046, 2107).
NoFrameMissed ==
    \A p \in Procs :
        (FastAsleep(p) /\ src[p] = Frame) => count[Frame] = cirq[p] \/ Frame \in owing
=============================================================================
