----------------------------- MODULE DmaEngine -----------------------------
(***************************************************************************)
(* DMA transfers of the AJA driver (src/src/aja.c:858-1086, the DMA parts  *)
(* of aja_irq_service, 2155-2184, and aja_irqset): processes transfer      *)
(* their buffers through the first engine that is free, sleep until the    *)
(* engine has stopped, or until a signal or the timeout.                   *)
(*                                                                         *)
(* The engine is external and modelled from how the driver uses it: it     *)
(* walks the list it is given, clears its go bit and asks for an           *)
(* interrupt; it may also hang.  Three things can go wrong, and a          *)
(* behaviour may have any of these `Mishaps' (unlucky):                    *)
(*   "signal"  a signal reaches a process that waits for its engine        *)
(*   "irqoff"  a process switches the card's interrupts off                *)
(*   "fault"   pages of a buffer cannot be had or cannot be mapped         *)
(***************************************************************************)
EXTENDS DmaList, FiniteSets

CONSTANTS
    Procs,
    EngineCount,   \* AJA_DMA_COUNT
    Table,         \* the page table of each process
    Requests       \* the transfers asked for: data, size, cadd

ASSUME EngineAssumption == EngineCount \in Nat \ {0}
ASSUME RequestAssumption == Requests \subseteq [data : Nat, size : Nat, cadd : Nat]

\* Every page of a buffer has a frame.
ASSUME TableAssumption ==
    \A p \in Procs, r \in Requests : ~Refused(r) => \A v \in Pages(r) : Table[p][v] \in Nat

Engines == 0 .. EngineCount - 1
Mishaps == {"signal", "irqoff", "fault"}
None == EngineCount      \* no engine
NoRequest == [data |-> 0, size |-> 0, cadd |-> 0]

VARIABLES
    unlucky,    \* constant of the behaviour
    \* a process in AJACTL_DMA
    pc,         \* "user", "init", "program", "check", "sleep", "cleanup"
    req,        \* dmainfo
    engine,     \* the engine it locked
    pinned,     \* the pages it holds
    leaked,     \* history: some call returned and left pages pinned
    outcome,    \* what the call returns: "ok", "error", "busy", "timeout"
    \* an engine
    locked,     \* the mutexes
    go,         \* its go bit
    hw,         \* the list it still has to walk
    moved,      \* history: words moved since it was started
    irq,        \* the engine asks for an interrupt
    irqs,       \* the interrupts of the card are enabled
    woken       \* the processes a wake_up reached

call   == <<pc, req, engine, outcome>>
pages  == <<pinned, leaked>>
chip   == <<go, hw, moved, irq>>
vars   == <<unlucky, call, pages, locked, chip, irqs, woken>>

Init ==
    /\ unlucky \in SUBSET Mishaps
    /\ pc = [p \in Procs |-> "user"]
    /\ req = [p \in Procs |-> NoRequest]
    /\ engine = [p \in Procs |-> None]
    /\ pinned = [p \in Procs |-> {}] /\ leaked = FALSE
    /\ outcome = [p \in Procs |-> "ok"]
    /\ locked = {}
    /\ go = [e \in Engines |-> FALSE]
    /\ hw = [e \in Engines |-> <<>>]
    /\ moved = [e \in Engines |-> {}]
    /\ irq = {}
    /\ irqs = TRUE
    /\ woken = {}

FramesOf(p) == {Table[p][v] : v \in Pages(req[p])}

\* The list of each transfer, and the words it is to move.
Lists  == [p \in Procs |-> [r \in Requests |-> CardList(r, Table[p])]]
Wanted == [p \in Procs |-> [r \in Requests |-> BufferWords(r, Table[p])]]

Goto(p, l) == pc' = [pc EXCEPT ![p] = l]
Returns(p, o) == outcome' = [outcome EXCEPT ![p] = o]

-----------------------------------------------------------------------------
(* Faulty variants. *)

\* The engine is left running when the time is over.
LeaveRunning(p) ==
    /\ pc' = [pc EXCEPT ![p] = "cleanup"]
    /\ outcome' = [outcome EXCEPT ![p] = "timeout"]
    /\ UNCHANGED go

\* The wait has no timeout.
WaitForEver(p) == FALSE /\ UNCHANGED vars

-----------------------------------------------------------------------------
(* aja_dma *)

FreeEngines == Engines \ locked

\* down_trylock on one mutex after the other.
TakeEngine(p, r) ==
    /\ pc[p] = "user"
    /\ req' = [req EXCEPT ![p] = r]
    /\ \E e \in FreeEngines :
         /\ \A d \in FreeEngines : e <= d
         /\ locked' = locked \cup {e}
         /\ engine' = [engine EXCEPT ![p] = e]
    /\ Goto(p, "init")
    /\ UNCHANGED <<unlucky, pages, outcome, chip, irqs, woken>>

AllBusy(p) ==
    /\ pc[p] = "user"
    /\ FreeEngines = {}
    /\ Returns(p, "busy")
    /\ UNCHANGED <<unlucky, pc, req, engine, pages, locked, chip, irqs, woken>>

Unlock(p) ==
    /\ locked' = locked \ {engine[p]}
    /\ engine' = [engine EXCEPT ![p] = None]
    /\ req' = [req EXCEPT ![p] = NoRequest]
    /\ Goto(p, "user")

\* aja_dma_init fails.  What it pinned before it failed stays pinned.
InitFails(p) ==
    /\ pc[p] = "init"
    /\ \/ Refused(req[p]) /\ UNCHANGED leaked
       \/ ~Refused(req[p]) /\ "fault" \in unlucky /\ leaked' \in BOOLEAN
    /\ Returns(p, "error")
    /\ Unlock(p)
    /\ UNCHANGED <<unlucky, pinned, chip, irqs, woken>>

InitDone(p) ==
    /\ pc[p] = "init"
    /\ ~Refused(req[p])
    /\ pinned' = [pinned EXCEPT ![p] = FramesOf(p)]
    /\ Goto(p, "program")
    /\ UNCHANGED <<unlucky, leaked, req, engine, outcome, locked, chip, irqs, woken>>

\* The registers take the head of the list and the engine is started.
Start(p) ==
    /\ pc[p] = "program"
    /\ LET e == engine[p] IN
       /\ hw' = [hw EXCEPT ![e] = Lists[p][req[p]]]
       /\ moved' = [moved EXCEPT ![e] = {}]
       /\ go' = [go EXCEPT ![e] = TRUE]
    /\ Goto(p, "check")
    /\ UNCHANGED <<unlucky, req, engine, outcome, pages, locked, irq, irqs, woken>>

\* The condition of the wait.  A wake-up only makes the process look again.
Finished(p) ==
    /\ pc[p] = "check"
    /\ ~go[engine[p]]
    /\ Goto(p, "cleanup")
    /\ Returns(p, "ok")
    /\ UNCHANGED <<unlucky, req, engine, pages, locked, chip, irqs, woken>>

FallAsleep(p) ==
    /\ pc[p] = "check"
    /\ go[engine[p]]
    /\ Goto(p, "sleep")
    /\ UNCHANGED <<unlucky, req, engine, outcome, pages, locked, chip, irqs, woken>>

WakeUp(p) ==
    /\ pc[p] = "sleep"
    /\ p \in woken
    /\ Goto(p, "check")
    /\ woken' = woken \ {p}
    /\ UNCHANGED <<unlucky, req, engine, outcome, pages, locked, chip, irqs>>

\* A signal: the wait returns -ERESTARTSYS, which is not zero either, unless it
\* finds the engine stopped.
Interrupted(p) ==
    /\ pc[p] \in {"check", "sleep"}
    /\ "signal" \in unlucky
    /\ Goto(p, "cleanup")
    /\ Returns(p, "ok")
    /\ woken' = woken \ {p}
    /\ UNCHANGED <<unlucky, req, engine, pages, locked, chip, irqs>>

Expire(p) ==
    /\ Goto(p, "cleanup")
    /\ Returns(p, "timeout")
    /\ go' = [go EXCEPT ![engine[p]] = FALSE]

\* The time is over, and the engine may have finished just now.
TimeOut(p) ==
    /\ pc[p] = "sleep"
    /\ Expire(p)
    /\ woken' = woken \ {p}
    /\ UNCHANGED <<unlucky, req, engine, pages, locked, hw, moved, irq, irqs>>

Unpin(p) == pinned' = [pinned EXCEPT ![p] = {}]

Cleanup(p) ==
    /\ pc[p] = "cleanup"
    /\ Unpin(p)
    /\ Unlock(p)
    /\ UNCHANGED <<unlucky, outcome, leaked, chip, irqs, woken>>

-----------------------------------------------------------------------------
(* The engine, and the interrupt it asks for. *)

Move(e) ==
    /\ go[e]
    /\ hw[e] # <<>>
    /\ moved' = [moved EXCEPT ![e] = @ \cup EntryWords(Head(hw[e]))]
    /\ hw' = [hw EXCEPT ![e] = Tail(@)]
    /\ go' = [go EXCEPT ![e] = Len(hw[e]) > 1]
    /\ irq' = IF Len(hw[e]) = 1 THEN irq \cup {e} ELSE irq
    /\ UNCHANGED <<unlucky, call, pages, locked, irqs, woken>>

Sleepers(e) == {p \in Procs : pc[p] = "sleep" /\ engine[p] = e}

DmaIrq(e) ==
    /\ irqs /\ e \in irq
    /\ irq' = irq \ {e}
    /\ woken' = woken \cup Sleepers(e)
    /\ UNCHANGED <<unlucky, call, pages, locked, go, hw, moved, irqs>>

\* AJACTL_IRQENABLE, or an open: without interrupts no engine may run.
IrqSet(v) ==
    /\ v \/ "irqoff" \in unlucky
    /\ irqs' = v
    /\ go' = IF v THEN go ELSE [e \in Engines |-> FALSE]
    /\ UNCHANGED <<unlucky, call, pages, locked, hw, moved, irq, woken>>

-----------------------------------------------------------------------------
Runs(p) ==
    \/ InitFails(p) \/ InitDone(p) \/ Start(p)
    \/ Finished(p) \/ FallAsleep(p) \/ WakeUp(p) \/ Cleanup(p)

Process(p) ==
    \/ \E r \in Requests : TakeEngine(p, r)
    \/ AllBusy(p) \/ Runs(p) \/ Interrupted(p) \/ TimeOut(p)

Next ==
    \/ \E p \in Procs : Process(p)
    \/ \E e \in Engines : Move(e) \/ DmaIrq(e)
    \/ \E v \in BOOLEAN : IrqSet(v)

Spec == Init /\ [][Next]_vars

\* A process that can run does, and time passes; the engine may hang.
FairSpec == Spec /\ \A p \in Procs : WF_vars(Runs(p)) /\ WF_vars(TimeOut(p))

-----------------------------------------------------------------------------
(* Properties *)

\* Type correctness of the engines and their users (aja_dma_t, aja.c:300-323).
TypeOK ==
    /\ unlucky \in SUBSET Mishaps
    /\ pc \in [Procs -> {"user", "init", "program", "check", "sleep", "cleanup"}]
    /\ req \in [Procs -> Requests \cup {NoRequest}]
    /\ engine \in [Procs -> Engines \cup {None}]
    /\ \A p \in Procs : pinned[p] \subseteq {Table[p][v] : v \in DOMAIN Table[p]}
    /\ leaked \in BOOLEAN
    /\ outcome \in [Procs -> {"ok", "error", "busy", "timeout"}]
    /\ locked \in SUBSET Engines
    /\ go \in [Engines -> BOOLEAN]
    /\ \A e \in Engines : \A i \in DOMAIN hw[e] : hw[e][i].count \in Nat
    /\ irq \in SUBSET Engines /\ irqs \in BOOLEAN
    /\ woken \in SUBSET Procs

\* What the two comments of aja_dma say, "block until we get word that the DMA
\* has finished" and "Engine timed out or was interrupted.  Aborted."
\* (aja.c:1068, 1071): while an engine runs, the process that holds it still
\* holds every page of the buffer.
RunsOnPinnedPages ==
    \A e \in Engines : go[e] =>
        \E p \in Procs : engine[p] = e /\ pc[p] # "cleanup" /\ FramesOf(p) \subseteq pinned[p]

\* The same where no signal reaches a waiting process.
PinnedWhileRunning == "signal" \notin unlucky => RunsOnPinnedPages

\* An engine belongs to one process, whatever signals and timeouts do to the
\* calls before (aja.c:1037-1043, 1083).
OneOwner ==
    \A p, q \in Procs : (p # q /\ engine[p] # None) => engine[p] # engine[q]

\* A call that reports success has moved every word of its buffer to its place
\* and nothing else, however the pages lie in memory and the pieces were
\* merged (aja.c:892-955, 1069).  A process that switches the interrupts off
\* stops the engines without a word to their users, and of a buffer that does not
\* begin with a whole word every page leaves bytes out.
SuccessMovedAll ==
    \A p \in Procs :
        (/\ pc[p] = "cleanup" /\ outcome[p] = "ok" /\ req[p].data % 4 = 0
         /\ unlucky \cap {"signal", "irqoff"} = {}) =>
            moved[engine[p]] = Wanted[p][req[p]]

\* The count of an entry is in words, the addresses and what was merged in
\* bytes: wherever a buffer begins and ends, and whatever mishaps end the call, its
\* engine moves no byte beyond the buffer and none to another's place
\* (aja.c:892-947).
OnlyItsBuffer ==
    \A p \in Procs : pc[p] \in {"check", "sleep", "cleanup"} =>
        \A w \in moved[engine[p]] : InBuffer(w, req[p], Table[p])

\* Every call ends, even if the engine hangs or its interrupt is off
\* (aja.c:1069-1073).
CallEnds == \A p \in Procs : pc[p] # "user" ~> pc[p] = "user"
=============================================================================
