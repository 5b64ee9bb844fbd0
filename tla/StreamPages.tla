---------------------------- MODULE StreamPages ----------------------------
(***************************************************************************)
(* The page allocator, the page FIFO and the frame handler of the AJA      *)
(* driver's video stream (src/src/aja.c): a client process issues ioctls,  *)
(* the card's frame interrupt takes pages from the FIFO (playback) or fills *)
(* it (capture).  The two run on different processors and exclude one      *)
(* another only inside the sections locked by spin_reg, so one step of the *)
(* interrupt handler is one such section, or one access to the stream's    *)
(* unlocked fields, together with the code up to the next one.             *)
(*                                                                         *)
(* A page is an index of pagealloc[]; NULL is the null pointer.  `Freedoms' *)
(* names what the driver leaves to the good behaviour of its client:       *)
(*   "anyPage"   free or queue a page the client does not hold             *)
(*   "anyRole"   pop from a playback queue, feed a capture queue           *)
(*   "anyChan"   queue pages with any channel in their metadata            *)
(*   "emptyPop"  pop without looking at the FIFO level first               *)
(*   "anyInit"   initialise a stream that runs or whose handler is active  *)
(* Divisor stands for AJA_SPEED_DIVISOR: speed Divisor is one frame per    *)
(* frame interval.                                                         *)
(***************************************************************************)
EXTENDS Integers, Sequences, FiniteSets

CONSTANTS
    MaxPages,       \* AJA_MAXPAGES
    NULL,           \* the null pointer of the page list
    Setups,         \* the parameters of the STREAM_INIT calls considered
    SpeedRequests,  \* the arguments of the STREAM_SETSPEED calls considered
    Divisor,        \* AJA_SPEED_DIVISOR
    MaxSpeed,       \* max_play_speed
    Freedoms,       \* what the client does that a careful one would not
    Slack           \* bound of the model: ioctls move fifo in -Slack..MaxPages+Slack

Page  == 0 .. MaxPages - 1
Chans == 0 .. 1
Modes == {"None", "Playback", "Capture"}

Setup == [mode : Modes, pagect : 0 .. MaxPages, chans : 0 .. 2]
NoSetup == [mode |-> "None", pagect |-> 0, chans |-> 0]

ASSUME PagesAssumption == MaxPages \in Nat \ {0}
ASSUME NullAssumption == NULL \notin Int
ASSUME SpeedAssumption ==
    /\ Divisor \in Nat \ {0}
    /\ MaxSpeed \in Nat
    /\ SpeedRequests \subseteq Int
ASSUME SetupAssumption ==
    \A s \in Setups : s \in Setup /\ s.mode # "None" /\ s.pagect > 0 /\ s.chans > 0
ASSUME FreedomAssumption ==
    Freedoms \subseteq {"anyPage", "anyRole", "anyChan", "emptyPop", "anyInit"}
ASSUME BoundAssumption == Slack \in Nat

VARIABLES
    \* card->stream
    inuse,      \* pagealloc[p].inuse
    next,       \* pagealloc[p].next
    prev,       \* pagealloc[p].prev
    pfirst,     \* the head of the FIFO list
    plast,      \* its tail
    fifo,       \* the FIFO level that is reported and tested
    lastType,   \* last[c].type: what the handler did with channel c one frame ago
    lastPage,   \* lastPage[c]
    mode,       \* flags & (AJA_Playback | AJA_Capture)
    pagect,
    chans,
    running,
    speed,
    spdct,
    chan,       \* meta[p].chan
    \* the two actors
    step,       \* where the frame handler is
    ch,         \* its locals: the channel it is at,
    hchans,     \*   stream.chans as it was read,
    bumps,      \*   the frames still to bump over,
    srun,       \*   running as it was read,
    newp,       \*   the page of the master channel
    call,       \* the ioctl the client is in
    req,        \* the argument of STREAM_INIT
    woken,      \* a frame has begun since the client waits for one
    held,       \* the pages the client has been given and has not given back
    turn,       \* the channel of the next page a careful client queues
    \* history
    fq,         \* the pages queued and not yet taken, oldest first
    outcome     \* what the last frame interval of a running stream came to

list   == <<next, prev, pfirst, plast, fifo, fq>>
config == <<mode, pagect, chans>>
pace   == <<speed, spdct>>
last   == <<lastType, lastPage>>
locals == <<hchans, bumps, srun, newp>>
irq    == <<step, ch, locals>>
wait   == <<call, req, woken>>
user   == <<wait, held, turn>>
vars   == <<inuse, list, last, config, running, pace, chan, irq, user, outcome>>

\* A card that has just been created: the structure is zero and nothing can be
\* allocated (pagect = 0) until STREAM_INIT clears and configures the stream.
Init ==
    /\ inuse = [p \in Page |-> FALSE]
    /\ next = [p \in Page |-> NULL]
    /\ prev = [p \in Page |-> NULL]
    /\ pfirst = NULL /\ plast = NULL /\ fifo = 0
    /\ lastType = [c \in Chans |-> "none"] /\ lastPage = [c \in Chans |-> 0]
    /\ mode = "None" /\ pagect = 0 /\ chans = 0
    /\ running = FALSE
    /\ speed = 0 /\ spdct = 0
    /\ chan = [p \in Page |-> 0]
    /\ step = "idle" /\ ch = 0
    /\ hchans = 0 /\ bumps = 0 /\ srun = FALSE /\ newp = 0
    /\ call = "none" /\ req = NoSetup /\ woken = FALSE
    /\ held = {}
    /\ turn = 0
    /\ fq = <<>>
    /\ outcome = "none"

-----------------------------------------------------------------------------
(* Faulty variants of the operations below: each is a slip that the code could *)
(* contain and that one of the properties has to notice.                      *)

\* page_alloc forgets to look at inuse.
AllPagesFree == {p \in Page : p < pagect}

\* page_free forgets to mark the page.
ReleaseForgotten(p) == UNCHANGED inuse

\* fifo_push at the wrong end of the list.
PushFront(p) ==
    /\ next' = [next EXCEPT ![p] = pfirst]
    /\ prev' = IF pfirst = NULL THEN [prev EXCEPT ![p] = NULL]
                                ELSE [prev EXCEPT ![pfirst] = p, ![p] = NULL]
    /\ pfirst' = p
    /\ plast' = IF plast = NULL THEN p ELSE plast
    /\ fifo' = fifo + 1
    /\ fq' = Append(fq, p)

\* fifo_push counts only the pages it appends to a list.
PushFirstUncounted(p) ==
    /\ next' = IF plast = NULL THEN [next EXCEPT ![p] = NULL]
                               ELSE [next EXCEPT ![plast] = p, ![p] = NULL]
    /\ prev' = [prev EXCEPT ![p] = plast]
    /\ pfirst' = IF plast = NULL THEN p ELSE pfirst
    /\ plast' = p
    /\ fifo' = IF plast = NULL THEN fifo ELSE fifo + 1
    /\ fq' = Append(fq, p)

\* fifo_pop of the only page leaves the tail where it was.
UnlinkKeepsTail ==
    /\ pfirst' = next[pfirst]
    /\ fq' = IF next[pfirst] = NULL \/ fq = <<>> THEN <<>> ELSE Tail(fq)
    /\ UNCHANGED <<plast, prev>>

\* One page is taken for a frame, or a frame more than there is.
AnyQueued == fifo > 0
MoreQueued == fifo > chans

-----------------------------------------------------------------------------
(* The operations on the page table and the FIFO, each one locked section. *)

FreePages == {p \in Page : p < pagect /\ ~inuse[p]}

\* The scan of page_alloc stops at the first page that is not in use.
Lowest(p) == p \in FreePages /\ \A q \in FreePages : p <= q

TakePage(p) ==
    /\ Lowest(p)
    /\ inuse' = [inuse EXCEPT ![p] = TRUE]
    /\ next' = [next EXCEPT ![p] = NULL]
    /\ prev' = [prev EXCEPT ![p] = NULL]
    /\ UNCHANGED <<pfirst, plast, fifo, fq>>

ReleasePage(p) == inuse' = [inuse EXCEPT ![p] = FALSE]

Push(p) ==
    /\ next' = IF plast = NULL THEN [next EXCEPT ![p] = NULL]
                               ELSE [next EXCEPT ![plast] = p, ![p] = NULL]
    /\ prev' = [prev EXCEPT ![p] = plast]
    /\ pfirst' = IF plast = NULL THEN p ELSE pfirst
    /\ plast' = p
    /\ fifo' = fifo + 1
    /\ fq' = Append(fq, p)

\* The page taken is the old pfirst; an empty list gives none, and the level
\* falls all the same.
Unlink ==
    LET np == next[pfirst] IN
    /\ pfirst' = np
    /\ plast' = IF np = NULL THEN NULL ELSE plast
    /\ prev' = IF np = NULL THEN prev ELSE [prev EXCEPT ![np] = NULL]
    /\ fq' = IF np = NULL \/ fq = <<>> THEN <<>> ELSE Tail(fq)

Pop ==
    /\ IF pfirst = NULL THEN UNCHANGED <<pfirst, plast, prev, fq>> ELSE Unlink
    /\ fifo' = fifo - 1
    /\ UNCHANGED next

-----------------------------------------------------------------------------
(* The frame interrupt: aja_handle_frame for field 0, cut at its accesses to *)
(* shared state.                                                             *)

At(s) == step = s

Go(s, c) ==
    /\ step' = s
    /\ ch' = c

GoOn(s, c) == Go(s, c) /\ UNCHANGED locals

\* The handler returns and its locals are gone.
Return ==
    /\ Go("idle", 0)
    /\ hchans' = 0 /\ bumps' = 0 /\ srun' = FALSE /\ newp' = 0

\* A frame begins: running is sampled, frame.id changes for those who wait.
FrameIrq ==
    /\ At("idle")
    /\ Go("freeup", 0)
    /\ srun' = running
    /\ woken' = (call \in {"start", "stop"})
    /\ UNCHANGED <<inuse, list, last, config, running, pace, chan, hchans, bumps, newp,
                   call, req, held, turn, outcome>>

FreeupDone ==
    IF ch = 0 THEN GoOn("freeup", 1)
    ELSE IF srun THEN GoOn("playback", 0) ELSE Return

\* What was played on the channel is free again, what was captured is queued.
\* Only the handler and STREAM_INIT touch last[].
Freeup ==
    /\ At("freeup")
    /\ \/ /\ lastType[ch] = "none"
          /\ UNCHANGED <<inuse, list>>
       \/ /\ lastType[ch] = "Playback"
          /\ ReleasePage(lastPage[ch])
          /\ UNCHANGED list
       \/ /\ lastType[ch] = "Capture"
          /\ Push(lastPage[ch])
          /\ UNCHANGED inuse
    /\ lastType' = [lastType EXCEPT ![ch] = "none"]
    /\ FreeupDone
    /\ UNCHANGED <<lastPage, config, running, pace, chan, user, outcome>>

Drop == outcome' = "dropped"

\* The level test of playback and of TSO bumping.
EnoughQueued == fifo >= chans

\* aja_stream_speedcount: how many frames this interval is worth.
Frames == (spdct + speed) \div Divisor
SpeedCount == spdct' = (spdct + speed) - Frames * Divisor

PlaybackOff ==
    /\ At("playback") /\ mode # "Playback"
    /\ GoOn("capture", 0)
    /\ UNCHANGED <<inuse, list, last, config, running, pace, chan, user, outcome>>

PlaybackDrop ==
    /\ At("playback") /\ mode = "Playback"
    /\ ~EnoughQueued
    /\ Drop
    /\ GoOn("capture", 0)
    /\ UNCHANGED <<inuse, list, last, config, running, pace, chan, user>>

\* Nothing to do in this interval when the speed adds up to no frame; more
\* than one frame is a bump.
PlaybackSpeed ==
    /\ At("playback") /\ mode = "Playback"
    /\ EnoughQueued
    /\ SpeedCount
    /\ \/ /\ Frames = 0
          /\ GoOn("capture", 0)
          /\ outcome' = "skipped"
       \/ /\ Frames > 0
          /\ Go(IF Frames = 1 THEN "load" ELSE "bump", 0)
          /\ hchans' = chans /\ bumps' = Frames - 1
          /\ UNCHANGED <<srun, newp, outcome>>
    /\ UNCHANGED <<inuse, list, last, config, running, speed, chan, user>>

BumpCheck ==
    /\ At("bump")
    /\ IF EnoughQueued
       THEN GoOn(IF hchans > 0 THEN "bumpPop" ELSE "load", 0) /\ UNCHANGED outcome
       ELSE GoOn("capture", 0) /\ Drop
    /\ UNCHANGED <<inuse, list, last, config, running, pace, chan, user>>

\* The page that is bumped over is taken from the FIFO and that is all.
BumpPop ==
    /\ At("bumpPop")
    /\ Pop
    /\ IF pfirst = NULL
       THEN GoOn("capture", 0) /\ outcome' = "lost"
       ELSE /\ UNCHANGED outcome
            /\ IF ch + 1 < hchans THEN GoOn("bumpPop", ch + 1)
               ELSE /\ Go(IF bumps > 1 THEN "bump" ELSE "load", 0)
                    /\ bumps' = bumps - 1
                    /\ UNCHANGED <<hchans, srun, newp>>
    /\ UNCHANGED <<inuse, last, config, running, pace, chan, user>>

RightChannel == chan[pfirst] = ch

\* aja_stream_playback_frame for the next channel.
LoadFrame ==
    /\ At("load") /\ ch < hchans
    /\ Pop
    /\ IF pfirst # NULL /\ RightChannel
       THEN /\ lastType' = [lastType EXCEPT ![ch] = "Playback"]
            /\ lastPage' = [lastPage EXCEPT ![ch] = pfirst]
            /\ Go("load", ch + 1)
            /\ newp' = IF ch = 0 THEN pfirst ELSE newp
            /\ UNCHANGED <<hchans, bumps, srun, outcome>>
       ELSE /\ GoOn("capture", 0)
            /\ outcome' = "lost"
            /\ UNCHANGED last
    /\ UNCHANGED <<inuse, config, running, pace, chan, user>>

\* The metadata of the master page is zeroed.
LoadDone ==
    /\ At("load") /\ ch >= hchans
    /\ chan' = [chan EXCEPT ![newp] = 0]
    /\ outcome' = "shown"
    /\ GoOn("capture", 0)
    /\ UNCHANGED <<inuse, list, last, config, running, pace, user>>

CaptureOff ==
    /\ At("capture") /\ mode # "Capture"
    /\ Return
    /\ UNCHANGED <<inuse, list, last, config, running, pace, chan, user, outcome>>

RoomToCapture == pagect - fifo > chans

CaptureDrop ==
    /\ At("capture") /\ mode = "Capture"
    /\ ~RoomToCapture
    /\ Drop
    /\ Return
    /\ UNCHANGED <<inuse, list, last, config, running, pace, chan, user>>

CaptureSpeed ==
    /\ At("capture") /\ mode = "Capture"
    /\ RoomToCapture
    /\ SpeedCount
    /\ Go("fill", 0)
    /\ hchans' = chans
    /\ UNCHANGED <<inuse, list, last, config, running, speed, chan, bumps, srun, newp,
                   user, outcome>>

\* aja_stream_capture_frame for the next channel.
FillFrame ==
    /\ At("fill") /\ ch < hchans
    /\ \E p \in Page :
         /\ TakePage(p)
         /\ lastType' = [lastType EXCEPT ![ch] = "Capture"]
         /\ lastPage' = [lastPage EXCEPT ![ch] = p]
         /\ chan' = [chan EXCEPT ![p] = ch]
    /\ GoOn("fill", ch + 1)
    /\ UNCHANGED <<config, running, pace, user, outcome>>

FillFails ==
    /\ At("fill") /\ ch < hchans
    /\ FreePages = {}
    /\ outcome' = "lost"
    /\ Return
    /\ UNCHANGED <<inuse, list, last, config, running, pace, chan, user>>

FillDone ==
    /\ At("fill") /\ ch >= hchans
    /\ outcome' = "captured"
    /\ Return
    /\ UNCHANGED <<inuse, list, last, config, running, pace, chan, user>>

Handler ==
    \/ Freeup
    \/ PlaybackOff \/ PlaybackDrop \/ PlaybackSpeed
    \/ BumpCheck \/ BumpPop \/ LoadFrame \/ LoadDone
    \/ CaptureOff \/ CaptureDrop \/ CaptureSpeed
    \/ FillFrame \/ FillFails \/ FillDone

-----------------------------------------------------------------------------
(* The client: one ioctl at a time. *)

Free(f) == f \in Freedoms
AtUser == call = "none"

ReturnToUser ==
    /\ call' = "none" /\ req' = NoSetup
    /\ woken' = FALSE

\* aja_wait_for_frame: frame.id has to change while the client is in it.
WaitForFrame(c) ==
    /\ call' = c
    /\ UNCHANGED <<req, woken>>

\* STREAM_INIT is two steps: the locked clear, then the new parameters.
InitClear(s) ==
    /\ AtUser
    /\ Free("anyInit") \/ (~running /\ At("idle"))
    /\ call' = "init" /\ req' = s
    /\ inuse' = [p \in Page |-> FALSE]
    /\ next' = [p \in Page |-> NULL]
    /\ prev' = [p \in Page |-> NULL]
    /\ pfirst' = NULL /\ plast' = NULL /\ fifo' = 0 /\ fq' = <<>>
    /\ lastType' = [c \in Chans |-> "none"] /\ lastPage' = [c \in Chans |-> 0]
    /\ pagect' = 0 /\ chans' = 0
    /\ running' = FALSE
    /\ speed' = Divisor /\ spdct' = 0
    /\ held' = {} /\ turn' = 0
    /\ UNCHANGED <<mode, chan, irq, woken, outcome>>

InitConfigure ==
    /\ call = "init"
    /\ mode' = req.mode
    /\ pagect' = req.pagect
    /\ chans' = req.chans
    /\ outcome' = "none"
    /\ ReturnToUser
    /\ UNCHANGED <<inuse, list, last, running, pace, chan, irq, held, turn>>

\* STREAM_START resets the speed, waits for a frame to begin, then runs.
StreamStart ==
    /\ AtUser
    /\ ~running
    /\ speed' = Divisor /\ spdct' = 0
    /\ WaitForFrame("start")
    /\ UNCHANGED <<inuse, list, last, config, running, chan, irq, held, turn, outcome>>

StreamStop ==
    /\ AtUser
    /\ WaitForFrame("stop")
    /\ UNCHANGED <<inuse, list, last, config, running, pace, chan, irq, held, turn, outcome>>

FrameSeen ==
    /\ call \in {"start", "stop"} /\ woken
    /\ running' = (call = "start")
    /\ ReturnToUser
    /\ UNCHANGED <<inuse, list, last, config, pace, chan, irq, held, turn, outcome>>

\* The wait times out or a signal ends it: -ETIMEDOUT, -EINTR.
WaitFails ==
    /\ call \in {"start", "stop"}
    /\ ReturnToUser
    /\ UNCHANGED <<inuse, list, last, config, running, pace, chan, irq, held, turn, outcome>>

\* int against unsigned int: a negative speed compares as a huge one.
Clamp(s) == IF s < 0 \/ s > MaxSpeed THEN MaxSpeed ELSE s

SetSpeed(s) ==
    /\ AtUser
    /\ speed' = Clamp(s)
    /\ UNCHANGED <<inuse, list, last, config, running, spdct, chan, irq, user, outcome>>

PageAlloc(p) ==
    /\ AtUser
    /\ mode = "Playback" \/ Free("anyRole")
    /\ TakePage(p)
    /\ held' = held \cup {p}
    /\ UNCHANGED <<last, config, running, pace, chan, irq, wait, turn, outcome>>

Mine(p) == p \in held \/ (Free("anyPage") /\ mode # "None")

PageFree(p) ==
    /\ AtUser
    /\ Mine(p)
    /\ ReleasePage(p)
    /\ held' = held \ {p}
    /\ UNCHANGED <<list, last, config, running, pace, chan, irq, wait, turn, outcome>>

SetMeta(p, c) ==
    /\ AtUser
    /\ mode = "Playback"
    /\ Mine(p)
    /\ c < chans \/ Free("anyChan")
    /\ chan' = [chan EXCEPT ![p] = c]
    /\ UNCHANGED <<inuse, list, last, config, running, pace, irq, user, outcome>>

NextTurn == IF turn + 1 < chans THEN turn + 1 ELSE 0

FifoPush(p) ==
    /\ AtUser
    /\ Mine(p)
    /\ mode = "Playback" \/ Free("anyRole")
    /\ chan[p] = turn \/ Free("anyChan")
    /\ fifo < MaxPages + Slack
    /\ Push(p)
    /\ held' = held \ {p}
    /\ turn' = NextTurn
    /\ UNCHANGED <<inuse, last, config, running, pace, chan, irq, wait, outcome>>

FifoPop ==
    /\ AtUser
    /\ mode = "Capture" \/ Free("anyRole")
    /\ fifo > 0 \/ (Free("emptyPop") /\ fifo > -Slack)
    /\ Pop
    /\ held' = IF pfirst = NULL THEN held ELSE held \cup {pfirst}
    /\ UNCHANGED <<inuse, last, config, running, pace, chan, irq, wait, turn, outcome>>

Client ==
    \/ \E s \in Setups : InitClear(s)
    \/ InitConfigure
    \/ StreamStart \/ StreamStop \/ FrameSeen \/ WaitFails
    \/ \E s \in SpeedRequests : SetSpeed(s)
    \/ \E p \in Page :
         \/ PageAlloc(p)
         \/ PageFree(p)
         \/ FifoPush(p)
         \/ \E c \in Chans : SetMeta(p, c)
    \/ FifoPop

Next == FrameIrq \/ Handler \/ Client

Spec == Init /\ [][Next]_vars

\* The card interrupts at every frame and a handler that began runs to its
\* end; nothing is assumed of the client.
FairSpec == Spec /\ WF_vars(FrameIrq) /\ WF_vars(Handler)

-----------------------------------------------------------------------------
(* Properties *)

Queued == {fq[i] : i \in DOMAIN fq}
Busy   == {c \in Chans : lastType[c] # "none"}
OnCard == {lastPage[c] : c \in Busy}

ListTypeOK ==
    /\ next \in [Page -> Page \cup {NULL}]
    /\ prev \in [Page -> Page \cup {NULL}]
    /\ pfirst \in Page \cup {NULL}
    /\ plast \in Page \cup {NULL}
    /\ fifo \in Int
    /\ fq \in Seq(Page)

PageTypeOK ==
    /\ inuse \in [Page -> BOOLEAN]
    /\ chan \in [Page -> Chans]
    /\ lastType \in [Chans -> {"none", "Playback", "Capture"}]
    /\ lastPage \in [Chans -> Page]

StreamTypeOK ==
    /\ mode \in Modes
    /\ pagect \in 0 .. MaxPages
    /\ chans \in 0 .. 2
    /\ speed \in 0 .. (IF MaxSpeed > Divisor THEN MaxSpeed ELSE Divisor)
    /\ spdct \in 0 .. Divisor - 1

HandlerTypeOK ==
    /\ step \in {"idle", "freeup", "playback", "bump", "bumpPop", "load", "capture", "fill"}
    /\ ch \in 0 .. 2 /\ (ch = 2 => step \in {"load", "fill"})
    /\ hchans \in 0 .. 2
    /\ bumps \in Nat /\ (step \in {"bump", "bumpPop"} => bumps > 0)
    /\ newp \in Page

ClientTypeOK ==
    /\ call \in {"none", "init", "start", "stop"}
    /\ req \in Setups \cup {NoSetup}
    /\ held \in SUBSET Page
    /\ turn \in Chans
    /\ outcome \in {"none", "shown", "captured", "skipped", "dropped", "lost"}

FlagsTypeOK ==
    /\ running \in BOOLEAN
    /\ srun \in BOOLEAN
    /\ woken \in BOOLEAN

\* Type correctness of the stream structure, the handler and the client
\* (aja_stream_t, aja.c:346-366).
TypeOK == ListTypeOK /\ PageTypeOK /\ StreamTypeOK /\ HandlerTypeOK /\ ClientTypeOK /\ FlagsTypeOK

\* The handler works for a stream that ran when the frame began, and none does
\* while the stream is being initialised.
RunPhases ==
    /\ call = "init" => ~running /\ ~srun
    /\ step = "idle" => ~srun
    /\ step \notin {"idle", "freeup"} => srun

\* Where the handler is tells what it has put on the card: the frame before is
\* off both channels once freeup is done, and the new one fills them in order.
CardPhases ==
    /\ call = "init" => Busy = {}
    /\ (step = "freeup" /\ ch = 1) => lastType[0] = "none"
    /\ step \in {"playback", "bump", "bumpPop"} => Busy = {}
    /\ step \in {"load", "fill"} => \A c \in Chans : c >= ch => lastType[c] = "none"
    /\ step \in {"bump", "bumpPop", "load"} => mode = "Playback"
    /\ (step = "capture" /\ mode = "Capture") => Busy = {}

Phases == RunPhases /\ CardPhases

\* No page is queued twice.
NoTwice == \A i, j \in 1 .. Len(fq) : fq[i] = fq[j] => i = j

\* The doubly linked list that the driver keeps through next and prev is, at
\* every moment the lock is free, exactly the queue of the pages pushed and not
\* yet popped (fifo_push, fifo_pop, page_alloc, aja.c:1351-1439).
ListIsQueue ==
    /\ pfirst = IF fq = <<>> THEN NULL ELSE fq[1]
    /\ plast = IF fq = <<>> THEN NULL ELSE fq[Len(fq)]
    /\ \A i \in 1 .. Len(fq) :
         /\ next[fq[i]] = IF i = Len(fq) THEN NULL ELSE fq[i + 1]
         /\ prev[fq[i]] = IF i = 1 THEN NULL ELSE fq[i - 1]

\* A page is in one place: held by the client, once in the FIFO, or on one
\* channel of the card, and then it is marked in use, so no other allocation
\* can hand it out, whatever the interleaving of ioctls and interrupt.
OnePlace ==
    /\ NoTwice
    /\ \A c, d \in Busy : lastPage[c] = lastPage[d] => c = d
    /\ held \cap Queued = {} /\ held \cap OnCard = {} /\ Queued \cap OnCard = {}
    /\ \A p \in held \cup Queued \cup OnCard : inuse[p]

\* A page in use is somewhere: the stream does not run out of pages because
\* pages got lost on an error or a drop path (aja.c:1900-1990).
NoPageLost == \A p \in Page : inuse[p] => p \in held \cup Queued \cup OnCard

\* The level that STREAM_FIFO reports, and that playback and capture decide on,
\* is the number of pages queued (aja.c:1398, 1429, 1596).
LevelExact == fifo = Len(fq)

\* At up to normal speed, a client that queues the pages of a frame in channel
\* order never sees half a frame go out: once the level was enough, the pops of
\* the same interval succeed and find the right channel (aja.c:1932-1966).
FramesWhole == mode = "Playback" => outcome # "lost"

\* Between two interrupts a playback queue starts with channel 0 and its
\* channels take turns, however many frames were dropped or bumped.
ChannelsInStep ==
    (At("idle") /\ mode = "Playback" /\ chans > 0) =>
        \A i \in 1 .. Len(fq) : chan[fq[i]] = (i - 1) % chans

\* Frames go out whole, and so do the next ones (aja.c:1932-1966).
FramesInStep == FramesWhole /\ ChannelsInStep

\* However careless the client, the head and the tail of the list agree on
\* whether it is empty, so push and pop never follow a null pointer.
EndsAgree == (pfirst = NULL) <=> (plast = NULL)

\* However careless the client, the speed counter keeps less than one frame
\* and no interval is worth more than max_play_speed allows (aja.c:1864).
PaceBounded ==
    /\ spdct \in 0 .. Divisor - 1
    /\ Frames * Divisor < MaxSpeed + 2 * Divisor

\* Page ownership as PageFifo knows it.
Owner(p) ==
    IF ~inuse[p] THEN "free"
    ELSE IF p \in held THEN "client"
    ELSE IF p \in Queued THEN "queue"
    ELSE IF p \in OnCard THEN "card" ELSE "lost"

PF == INSTANCE PageFifo WITH owner <- [p \in Page |-> Owner(p)], queue <- fq

\* The driver's stream implements the abstract one: every page goes round its
\* cycle of owners and the queue is first in, first out.
ImplementsPageFifo == PF!Spec

\* A queued frame is played in the end, or the stream is stopped: the handler
\* and the client cannot wait for one another (aja.c:1925-1981).
QueuedFramePlays ==
    \A p \in Page :
        (running /\ mode = "Playback" /\ fq # <<>> /\ pfirst = p /\ Len(fq) >= chans)
            ~> (~running \/ p \notin Queued)
=============================================================================
