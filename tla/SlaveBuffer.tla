---------------------------- MODULE SlaveBuffer ----------------------------
(***************************************************************************)
(* The ring in which the P2 slave keeps packets for user space             *)
(* (src/src/p2slave_main.c:213-227 and 507-590): the AJA interrupt handler *)
(* pushes, processes open, read, poll and close.  Nothing locks the ring:  *)
(* each load and each store of a pointer is a step, and so is the copying  *)
(* of a packet, which may be torn while the slot is stored to.             *)
(*                                                                         *)
(* A packet is its number.  Three things the code leaves to luck, and a    *)
(* behaviour may have some of them (unlucky):                              *)
(*   "overflow"       packets come although the ring is full               *)
(*   "sharing"        the device is open more than once                    *)
(*   "openMeanwhile"  an open falls into the push of a packet, or into a   *)
(*                    read by another process                              *)
(***************************************************************************)
EXTENDS Integers, Sequences, FiniteSets

CONSTANTS
    Files,      \* the open files there may be, one reader each
    Size,       \* P2SLAVE_BUFSIZE
    Wants,      \* how many packets the buffers given to read() hold
    Fortunes,   \* what may come together of the things left to luck
    MaxPkts     \* bound of the model: packets pushed

ASSUME SizeAssumption == Size \in Nat /\ Size > 1
ASSUME BoundAssumption == MaxPkts \in Nat
ASSUME WantAssumption == Wants \subseteq Nat \ {0}

Slot == 0 .. Size - 1
Packet == 1 .. MaxPkts
Luck == {"overflow", "sharing", "openMeanwhile"}

ASSUME LuckAssumption == Fortunes \subseteq SUBSET Luck

Torn == -1      \* part of one packet and part of another

VARIABLES
    unlucky,    \* constant of the behaviour
    \* dev->buffer; atomic dev->opens is the number of files that are open
    read, write, buf,
    \* the interrupt handler
    push,       \* "idle", "load", "store", "point": what it does next
    count,      \* packets stored
    wp,         \* its local write pointer, -1 without
    \* the readers
    at,         \* "closed", "user", "check", "sleep", "start", "test", "copy", "end"
    woken,      \* the readers a wake_up reached
    rp,         \* the local read pointer
    want,       \* how many packets fit
    batch,      \* the packets copied by this read
    \* history
    got,        \* the packets read() returned to one process at a time
    since       \* packets stored before the last open

ring    == <<read, write, buf>>
handler == <<push, count, wp>>
locals  == <<rp, want, batch>>
history == <<got, since>>
vars    == <<ring, handler, at, woken, locals, history, unlucky>>

Init ==
    /\ unlucky \in Fortunes
    /\ read = 0 /\ write = 0 /\ buf = [i \in Slot |-> 0]
    /\ push = "idle" /\ count = 0 /\ wp = -1
    /\ at = [f \in Files |-> "closed"]
    /\ woken = {}
    /\ rp = [f \in Files |-> 0] /\ want = [f \in Files |-> 0] /\ batch = [f \in Files |-> <<>>]
    /\ got = <<>> /\ since = 0

IsOpen == \E f \in Files : at[f] # "closed"

Inc(i) == IF i + 1 >= Size THEN 0 ELSE i + 1

-----------------------------------------------------------------------------
(* Faulty variants. *)

\* The reader is not woken.
WakeNobody == UNCHANGED woken

\* The read pointer moves one packet too few.
StayBehind(f) == read' = IF rp[f] = 0 THEN Size - 1 ELSE rp[f] - 1

-----------------------------------------------------------------------------
(* p2slave_pushpkt: the packet is stored, then the pointer, then the readers *)
(* are woken.                                                                *)

Room == Inc(write) # read

\* Without a reader the packet is dropped.
PushBegin ==
    /\ push = "idle"
    /\ count < MaxPkts
    /\ IsOpen
    /\ Room \/ "overflow" \in unlucky
    /\ push' = "load"
    /\ UNCHANGED <<ring, count, wp, at, woken, locals, history, unlucky>>

PushLoad ==
    /\ push = "load"
    /\ push' = "store" /\ wp' = write
    /\ UNCHANGED <<ring, count, at, woken, locals, history, unlucky>>

\* From the load on the slot is being stored to; now all of it is.
PushStore ==
    /\ push = "store"
    /\ push' = "point"
    /\ count' = count + 1
    /\ buf' = [buf EXCEPT ![wp] = count + 1]
    /\ UNCHANGED <<read, write, wp, at, woken, locals, history, unlucky>>

Wake == woken' = {f \in Files : at[f] = "sleep"}

PushDone ==
    /\ push = "point"
    /\ push' = "idle" /\ wp' = -1
    /\ write' = Inc(wp)
    /\ Wake
    /\ UNCHANGED <<read, buf, count, at, locals, history, unlucky>>

\* A faulty variant: the pointer is stored before the packet.
PushPointerFirst ==
    \/ PushBegin \/ PushLoad
    \/ /\ push = "store"
       /\ push' = "point" /\ count' = count + 1 /\ write' = Inc(wp)
       /\ UNCHANGED <<read, buf, wp, at, woken, locals, history, unlucky>>
    \/ /\ push = "point"
       /\ push' = "idle" /\ buf' = [buf EXCEPT ![wp] = count] /\ wp' = -1 /\ Wake
       /\ UNCHANGED <<read, write, count, at, locals, history, unlucky>>

Push == PushBegin \/ PushLoad \/ PushStore \/ PushDone

-----------------------------------------------------------------------------
(* The file operations. *)

Empty == read = write

\* A reader that has loaded the read pointer.
Copying == {"test", "copy", "end"}

Open(f) ==
    /\ at[f] = "closed"
    /\ IsOpen => "sharing" \in unlucky
    /\ (push = "idle" /\ \A g \in Files : at[g] \notin Copying) \/ "openMeanwhile" \in unlucky
    /\ read' = 0 /\ write' = 0
    /\ at' = [at EXCEPT ![f] = "user"]
    /\ since' = count
    /\ UNCHANGED <<buf, handler, woken, locals, got, unlucky>>

Release(f) ==
    /\ at[f] = "user"
    /\ at' = [at EXCEPT ![f] = "closed"]
    /\ UNCHANGED <<ring, handler, woken, locals, history, unlucky>>

Read(f, n) ==
    /\ at[f] = "user"
    /\ at' = [at EXCEPT ![f] = "check"]
    /\ want' = [want EXCEPT ![f] = n]
    /\ UNCHANGED <<ring, handler, woken, rp, batch, history, unlucky>>

Return(f) ==
    /\ at' = [at EXCEPT ![f] = "user"]
    /\ want' = [want EXCEPT ![f] = 0]
    /\ rp' = [rp EXCEPT ![f] = 0]
    /\ batch' = [batch EXCEPT ![f] = <<>>]

\* Nothing there: a file that does not block returns, the others sleep; a
\* reader wakes up to look again.
ReadCheck(f) ==
    /\ at[f] = "check" \/ (at[f] = "sleep" /\ f \in woken)
    /\ IF Empty
       THEN at' = [at EXCEPT ![f] = "sleep"]
       ELSE at' = [at EXCEPT ![f] = "start"]
    /\ woken' = woken \ {f}
    /\ UNCHANGED <<ring, handler, locals, history, unlucky>>

\* O_NONBLOCK, or a signal while asleep.
ReadFails(f) ==
    /\ (at[f] = "check" /\ Empty) \/ at[f] = "sleep"
    /\ woken' = woken \ {f}
    /\ Return(f)
    /\ UNCHANGED <<ring, handler, history, unlucky>>

ReadStart(f) ==
    /\ at[f] = "start"
    /\ at' = [at EXCEPT ![f] = "test"]
    /\ rp' = [rp EXCEPT ![f] = read]
    /\ UNCHANGED <<ring, handler, woken, want, batch, history, unlucky>>

More(f) == rp[f] # write /\ Len(batch[f]) < want[f]

ReadTest(f) ==
    /\ at[f] = "test"
    /\ at' = [at EXCEPT ![f] = IF More(f) THEN "copy" ELSE "end"]
    /\ UNCHANGED <<ring, handler, woken, locals, history, unlucky>>

\* What a copy of a slot may come to.
Seen(i) == {buf[i]} \cup (IF push = "store" /\ wp = i THEN {Torn} ELSE {})

\* The packet is copied as it is then, whatever it was at the test.
ReadCopy(f) ==
    /\ at[f] = "copy"
    /\ at' = [at EXCEPT ![f] = "test"]
    /\ \E p \in Seen(rp[f]) : batch' = [batch EXCEPT ![f] = Append(batch[f], p)]
    /\ rp' = [rp EXCEPT ![f] = Inc(rp[f])]
    /\ UNCHANGED <<ring, handler, woken, want, history, unlucky>>

\* copy_to_user fails: the packets of this read stay in the ring.
ReadFault(f) ==
    /\ at[f] = "copy"
    /\ Return(f)
    /\ UNCHANGED <<ring, handler, woken, history, unlucky>>

StoreRead(f) == read' = rp[f]

ReadDone(f) ==
    /\ at[f] = "end"
    /\ StoreRead(f)
    /\ got' = IF "sharing" \in unlucky THEN got ELSE got \o batch[f]
    /\ Return(f)
    /\ UNCHANGED <<write, buf, handler, woken, since, unlucky>>

\* What a reader does by itself once it called read().
Reader(f) == ReadCheck(f) \/ ReadStart(f) \/ ReadTest(f) \/ ReadCopy(f) \/ ReadDone(f)

Process(f) ==
    \/ Open(f) \/ Release(f)
    \/ \E n \in Wants : Read(f, n)
    \/ Reader(f) \/ ReadFails(f) \/ ReadFault(f)

Next == Push \/ \E f \in Files : Process(f)

Spec == Init /\ [][Next]_vars

\* A push that began ends, a process that can run does.
FairSpec == Spec /\ WF_vars(PushLoad \/ PushStore \/ PushDone) /\ \A f \in Files : WF_vars(Reader(f))

-----------------------------------------------------------------------------
(* Properties *)

\* Type correctness of the ring and its users (p2slave_buffer_t,
\* p2slave_main.c:92-96).
TypeOK ==
    /\ unlucky \in Fortunes
    /\ read \in Slot /\ write \in Slot
    /\ buf \in [Slot -> 0 .. MaxPkts]
    /\ push \in {"idle", "load", "store", "point"}
    /\ count \in 0 .. MaxPkts /\ wp \in -1 .. Size - 1
    /\ at \in [Files -> {"closed", "user", "check", "sleep", "start"} \cup Copying]
    /\ woken \in SUBSET Files
    /\ rp \in [Files -> Slot] /\ want \in [Files -> Wants \cup {0}]
    /\ batch \in [Files -> Seq(-1 .. MaxPkts)]
    /\ got \in Seq(-1 .. MaxPkts) /\ since \in 0 .. count

\* The packets between two pointers of the ring.
Between(i, j) ==
    [k \in 1 .. (IF i <= j THEN j - i ELSE j + Size - i) |-> buf[(i + k - 1) % Size]]

PQ == INSTANCE PacketQueue WITH
    queue <- IF unlucky = {} THEN Between(read, write) ELSE <<>>,
    got <- IF unlucky = {} THEN got ELSE <<>>

\* With one reader at a time that keeps up and no bad luck, the ring is a queue:
\* every packet passed on while the device is open is read once and in order, and
\* an error in the middle of a read loses none (p2slave_main.c:213-227, 532-555).
ImplementsPacketQueue == PQ!Spec

\* Nothing in s is a whole round of the ring older than something before it.
InRound(s) ==
    \A i, j \in 1 .. Len(s) : (i < j /\ s[i] # Torn /\ s[j] # Torn) => s[i] < s[j] + Size

\* When packets come faster than they are read, or several readers move one
\* another's read pointer, a slot may be stored to between the test of the write
\* pointer and the copy: a reader then sees a packet early, older ones after it, and
\* itself once more.  It never goes a whole round back, and it sees nothing
\* from before the last open (p2slave_main.c:224, 543-552).  (An open in the middle of
\* a push or of another's read shows old packets again.)
InOrderButOneRound ==
    "openMeanwhile" \notin unlucky =>
        /\ InRound(got)
        /\ \A f \in Files :
             /\ InRound(batch[f])
             /\ \A i \in 1 .. Len(batch[f]) : batch[f][i] = Torn \/ batch[f][i] > since

\* However many packets come too many, one reader at a time sees none of them more
\* than twice: once early and once in its turn (p2slave_main.c:543-552).
AtMostTwice ==
    unlucky \subseteq {"overflow"} =>
        \A i, j, k \in 1 .. Len(got) :
            (i < j /\ j < k /\ got[i] # Torn) => ~(got[i] = got[j] /\ got[j] = got[k])

\* A reader that sleeps while there is something to read is on its way to wake
\* up (p2slave_main.c:226, 537-541), unless another reader put the packets back
\* that it sleeps on.
SleeperWakes ==
    \A f \in Files :
        (at[f] = "sleep" /\ ~Empty /\ "sharing" \notin unlucky) ~> (at[f] # "sleep" \/ Empty)
=============================================================================
