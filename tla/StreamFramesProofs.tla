------------------------ MODULE StreamFramesProofs ------------------------
(***************************************************************************)
(* Theorems about StreamPages that need more of the client than            *)
(* StreamPagesProofs does: that no page is lost, that the level is exact,  *)
(* that frames leave the card whole and in channel order, and that the     *)
(* stream implements PageFifo.  They extend PlacesInv of that module.      *)
(***************************************************************************)
EXTENDS StreamPagesProofs
-----------------------------------------------------------------------------
(* Frames: a client that plays and captures as the stream was initialised, *)
(* queues its pages in channel order and asks for no more than normal      *)
(* speed.  Then no interval is worth more than one frame, and what keeps   *)
(* pages and channels together is that everything the handler decides on   *)
(* stays as it was while it works.                                         *)

Orderly ==
    /\ Disciplined
    /\ "anyRole" \notin Freedoms /\ "anyChan" \notin Freedoms
    /\ \A s \in SpeedRequests : Clamp(s) <= Divisor

\* The channel at place k of a playback queue that starts with channel 0.
ChannelAt(k) == IF chans = 2 THEN k % 2 ELSE 0

\* The channel of the next page the handler takes.
Loaded == IF step = "load" /\ ch < chans THEN ch ELSE 0

\* A stream is initialised at rest, and then it has channels.
Settled ==
    /\ call = "init" => /\ req \in Setups
                        /\ chans = 0 /\ turn = 0
                        /\ fq = <<>> /\ fifo = 0
    /\ (call # "init" /\ mode # "None") => chans > 0

Paced == speed <= Divisor /\ step \notin {"bump", "bumpPop"}

\* What the handler read is still so; the card is used in the stream's
\* direction; the metadata that is cleared in the end is the master page's.
Working ==
    /\ step \in {"load", "fill"} => hchans = chans /\ ch <= hchans
    /\ step = "fill" => mode = "Capture"
    /\ \A c \in Busy : lastType[c] = mode
    /\ (step = "load" /\ ch > 0) => 0 \in Busy /\ newp = lastPage[0]

\* The level is exact, but for the pops from an empty capture queue; what was
\* enough for a frame stays enough.
Levelled ==
    /\ (mode = "Playback" \/ "emptyPop" \notin Freedoms) => LevelExact
    /\ step = "load" => fifo >= hchans - ch

\* The channels take turns, from the handler's next page to the client's.
InTurn ==
    (mode = "Playback" /\ chans > 0) =>
        /\ \A i \in 1 .. Len(fq) : chan[fq[i]] = ChannelAt(Loaded + i - 1)
        /\ turn = ChannelAt(Loaded + Len(fq))

FramesInv ==
    /\ Orderly /\ PlacesInv
    /\ Settled /\ Paced /\ Working /\ Levelled /\ InTurn
    /\ FramesWhole
    /\ NoPageLost

LEMMA ChannelAtStep ==
    ASSUME chans \in 1 .. 2, NEW k \in Nat
    PROVE  /\ ChannelAt(k) \in Chans /\ ChannelAt(k) < chans
           /\ ChannelAt(k + 1) = IF ChannelAt(k) + 1 < chans THEN ChannelAt(k) + 1 ELSE 0
           /\ k < chans => ChannelAt(k) = k
    BY DEF ChannelAt, Chans

LEMMA ChannelAtRound ==
    ASSUME chans \in 1 .. 2, NEW c \in Chans, c < chans, NEW k \in Nat
    PROVE  ChannelAt((IF c + 1 < chans THEN c + 1 ELSE 0) + k) = ChannelAt(c + k + 1)
    BY DEF ChannelAt, Chans

\* Up to normal speed an interval is worth one frame at most.
LEMMA OneFrame ==
    ASSUME StreamTypeOK, Paced
    PROVE  Frames \in {0, 1}
    <1>1. Divisor \in Nat \ {0} /\ spdct \in Nat /\ speed \in Nat
          /\ spdct < Divisor /\ speed <= Divisor
        BY SpeedAssumption DEF StreamTypeOK, Paced
    <1>2. Frames \in Nat /\ Frames * Divisor <= spdct + speed
        BY SpeedCountBounds
    <1>3. ASSUME NEW n \in Nat, NEW d \in Nat \ {0}, n > 1
          PROVE  n * d >= d + d
      <2>1. n * d = (n - 2) * d + d + d /\ (n - 2) * d >= 0
          BY <1>3
      <2> QED BY <1>3, <2>1
    <1>4. Frames > 1 => FALSE
      <2> HAVE Frames > 1
      <2>1. Frames * Divisor >= Divisor + Divisor
          BY <1>1, <1>2, <1>3
      <2> DEFINE t == Frames * Divisor
      <2>2. t >= Divisor + Divisor /\ t <= spdct + speed /\ t \in Int
          BY <1>1, <1>2, <2>1
      <2> HIDE DEF t
      <2> QED BY <1>1, <2>2
    <1> QED BY <1>2, <1>4

\* What every step of the handler leaves alone.
LEMMA HandlerLeaves ==
    Handler => UNCHANGED <<config, running, speed, user>> /\ step # "idle"
    BY DEF Handler, Freeup, PlaybackOff, PlaybackDrop, PlaybackSpeed, BumpCheck, BumpPop,
           LoadFrame, LoadDone, CaptureOff, CaptureDrop, CaptureSpeed, FillFrame, FillFails,
           FillDone, pace, At

\* While the stream is initialised the handler only passes by.
LEMMA InitUndisturbed ==
    ASSUME FramesInv, Handler, call = "init"
    PROVE  Freeup /\ UNCHANGED list
    <1>1. step = "freeup" /\ Busy = {}
        BY HandlerLeaves DEF FramesInv, PlacesInv, Phases, RunPhases, CardPhases
    <1>2. Freeup
        BY <1>1 DEF Handler, PlaybackOff, PlaybackDrop, PlaybackSpeed, BumpCheck, BumpPop,
           LoadFrame, LoadDone, CaptureOff, CaptureDrop, CaptureSpeed, FillFrame, FillFails,
           FillDone, At
    <1>3. ch \in Chans
        BY <1>1 DEF FramesInv, PlacesInv, TypeOK, HandlerTypeOK, Chans
    <1>4. lastType[ch] = "none"
        BY <1>1, <1>3 DEF Busy
    <1> QED BY <1>2, <1>4 DEF Freeup

LEMMA NextSettled == FramesInv /\ [Next]_vars => Settled'
    <1> SUFFICES ASSUME FramesInv, [Next]_vars PROVE Settled' OBVIOUS
    <1>0. Settled /\ ClientTypeOK
        BY DEF FramesInv, PlacesInv, TypeOK
    <1>1. CASE Handler
      <2>1. UNCHANGED <<call, req, chans, turn, mode>>
          BY <1>1, HandlerLeaves DEF config, user, wait
      <2>2. call = "init" => UNCHANGED <<fq, fifo>>
          BY <1>1, InitUndisturbed DEF list
      <2> QED BY <1>0, <2>1, <2>2 DEF Settled
    <1>2. CASE \E s \in Setups : InitClear(s)
        BY <1>2 DEF InitClear, Settled
    <1>3. CASE InitConfigure
      <2>1. req \in Setups /\ call' = "none" /\ chans' = req.chans
          BY <1>0, <1>3 DEF InitConfigure, ReturnToUser, Settled
      <2> QED BY <2>1, SetupAssumption DEF Settled
    <1>4. CASE FrameIrq \/ Control \/ FifoPop \/ UNCHANGED vars \/ \E p \in Page : PageCall(p)
      <2>1. UNCHANGED <<mode, chans>>
          BY <1>4 DEF FrameIrq, Control, StreamStart, StreamStop, FrameSeen, WaitFails,
                      SetSpeed, FifoPop, PageCall, PageAlloc, PageFree, FifoPush, SetMeta,
                      vars, config
      <2>2. \/ UNCHANGED <<call, req, turn, fq, fifo>>
            \/ call # "init" /\ call' # "init"
          BY <1>4 DEF FrameIrq, Control, StreamStart, StreamStop, FrameSeen, WaitFails,
                      SetSpeed, FifoPop, PageCall, PageAlloc, PageFree, FifoPush, SetMeta,
                      vars, user, wait, list, WaitForFrame, ReturnToUser, AtUser
      <2> QED BY <1>0, <2>1, <2>2 DEF Settled
    <1> QED BY <1>1, <1>2, <1>3, <1>4 DEF Next, Client, Control, PageCall

LEMMA NextPaced == FramesInv /\ [Next]_vars => Paced'
    <1> SUFFICES ASSUME FramesInv, [Next]_vars PROVE Paced' OBVIOUS
    <1>0. Paced /\ StreamTypeOK /\ Frames \in {0, 1}
        BY OneFrame DEF FramesInv, PlacesInv, TypeOK
    <1>1. speed' <= Divisor
      <2>1. Divisor <= Divisor /\ speed <= Divisor
          BY <1>0, SpeedAssumption DEF Paced
      <2>2. \A s \in SpeedRequests : Clamp(s) <= Divisor
          BY DEF FramesInv, Orderly
      <2>3. CASE Handler
          BY <2>1, <2>3, HandlerLeaves
      <2>4. CASE Client
          BY <2>1, <2>2, <2>4
          DEF Client, InitClear, InitConfigure, StreamStart, StreamStop, FrameSeen,
              WaitFails, SetSpeed, PageAlloc, PageFree, FifoPush, SetMeta, FifoPop, pace
      <2> QED BY <2>1, <2>3, <2>4 DEF Next, FrameIrq, vars, pace
    <1>2. step' \notin {"bump", "bumpPop"}
      <2>1. CASE Handler
          BY <1>0, <2>1
          DEF Paced, Handler, Freeup, FreeupDone, PlaybackOff, PlaybackDrop, PlaybackSpeed,
              BumpCheck, BumpPop, LoadFrame, LoadDone, CaptureOff, CaptureDrop,
              CaptureSpeed, FillFrame, FillFails, FillDone, At, GoOn, Go, Return
      <2>2. CASE Client
          BY <1>0, <2>2
          DEF Paced, Client, InitClear, InitConfigure, StreamStart, StreamStop, FrameSeen,
              WaitFails, SetSpeed, PageAlloc, PageFree, FifoPush, SetMeta, FifoPop, irq
      <2> QED BY <1>0, <2>1, <2>2 DEF Paced, Next, FrameIrq, Go, vars, irq
    <1> QED BY <1>1, <1>2 DEF Paced

\* Every step of the client and the beginning of a frame leave the handler, the
\* card and the parameters alone, but while nothing is on the card.
LEMMA HandlerLeft ==
    ASSUME FramesInv, FrameIrq \/ Client \/ UNCHANGED vars
    PROVE  \/ UNCHANGED <<step, ch, hchans, newp, last, config>>
           \/ /\ step' \in {"idle", "freeup"}
              /\ UNCHANGED <<last, config>> \/ Busy' = {}
    <1>0. "anyInit" \notin Freedoms /\ RunPhases /\ CardPhases
        BY DEF FramesInv, Orderly, Disciplined, PlacesInv, Phases
    <1>1. CASE FrameIrq
        BY <1>1 DEF FrameIrq, Go
    <1>2. CASE \E s \in Setups : InitClear(s)
      <2>1. step = "idle" /\ step' = step /\ lastType' = [c \in Chans |-> "none"]
          BY <1>0, <1>2 DEF InitClear, Free, At, irq
      <2> QED BY <2>1 DEF Busy
    <1>3. CASE InitConfigure
      <2>1. step \in {"idle", "freeup"} /\ Busy = {}
          BY <1>0, <1>3 DEF InitConfigure, RunPhases, CardPhases
      <2>2. step' = step /\ UNCHANGED last
          BY <1>3 DEF InitConfigure, irq
      <2> QED BY <2>1, <2>2, CardKept
    <1>4. CASE Control \/ FifoPop \/ UNCHANGED vars \/ \E p \in Page : PageCall(p)
        BY <1>4 DEF Control, StreamStart, StreamStop, FrameSeen, WaitFails,
                    SetSpeed, FifoPop, PageCall, PageAlloc, PageFree, FifoPush, SetMeta,
                    vars, irq, locals
    <1> QED BY <1>1, <1>2, <1>3, <1>4 DEF Client, Control, PageCall

LEMMA NextWorking == FramesInv /\ [Next]_vars => Working'
    <1> SUFFICES ASSUME FramesInv, [Next]_vars PROVE Working' OBVIOUS
    <1>0. /\ Working /\ CardPhases /\ PageTypeOK /\ HandlerTypeOK
          /\ StreamTypeOK /\ Frames \in {0, 1} /\ Paced
        BY OneFrame DEF FramesInv, PlacesInv, TypeOK, Phases
    <1>1. CASE FrameIrq \/ Client \/ UNCHANGED vars
      <2>1. CASE UNCHANGED <<step, ch, hchans, newp, last, config>>
          BY <1>0, <2>1, CardKept DEF Working, last, config
      <2>2. CASE step' \in {"idle", "freeup"} /\ UNCHANGED <<last, config>>
          BY <1>0, <2>2, CardKept DEF Working, last, config
      <2>3. CASE step' \in {"idle", "freeup"} /\ Busy' = {}
          BY <2>3 DEF Working
      <2> QED BY <1>1, <2>1, <2>2, <2>3, HandlerLeft
    <1>2. ASSUME Handler PROVE UNCHANGED <<mode, chans>>
        BY <1>2, HandlerLeaves DEF config
    <1>3. CASE Freeup
      <2>1. step' \notin {"load", "fill"}
          BY <1>3 DEF Freeup, FreeupDone, GoOn, Go, Return
      <2>2. ch \in Chans /\ lastType' = [lastType EXCEPT ![ch] = "none"]
          BY <1>0, <1>3 DEF Freeup, At, HandlerTypeOK, Chans
      <2>3. \A c \in Busy' : c \in Busy /\ lastType'[c] = lastType[c]
          BY <1>0, <2>2 DEF Busy, PageTypeOK
      <2> QED BY <1>0, <1>2, <1>3, <2>1, <2>3 DEF Working, Handler
    <1>4. CASE Decide \/ LoadDone
      <2>1. step' \notin {"load", "fill"} /\ UNCHANGED last
          BY <1>0, <1>4
          DEF Paced, Decide, PlaybackOff, PlaybackDrop, BumpCheck, CaptureOff, CaptureDrop,
              FillFails, FillDone, LoadDone, At, GoOn, Go, Return
      <2> QED BY <1>0, <1>2, <1>4, <2>1, CardKept DEF Working, Handler, Decide, last
    <1>5. CASE PlaybackSpeed
      <2>1. mode = "Playback" /\ step' # "fill" /\ UNCHANGED last
          BY <1>5 DEF PlaybackSpeed, GoOn, Go
      <2>2. step' = "load" => ch' = 0 /\ hchans' = chans
          BY <1>5 DEF PlaybackSpeed, GoOn, Go
      <2> QED BY <1>0, <1>2, <1>5, <2>1, <2>2, CardKept
              DEF Working, Handler, last, StreamTypeOK
    <1>6. CASE CaptureSpeed
      <2>1. mode = "Capture" /\ step' = "fill" /\ ch' = 0 /\ hchans' = chans /\ UNCHANGED last
          BY <1>6 DEF CaptureSpeed, Go
      <2> QED BY <1>0, <1>2, <1>6, <2>1, CardKept DEF Working, Handler, last, StreamTypeOK
    <1>7. CASE LoadFrame
      <2>0. ch \in Chans /\ step = "load" /\ mode = "Playback" /\ ch < hchans /\ ch \in 0 .. 2
          BY <1>0, <1>7, NextChannel DEF LoadFrame, At, CardPhases, HandlerTypeOK
      <2>1. CASE pfirst # NULL /\ RightChannel
        <3>1. /\ lastType' = [lastType EXCEPT ![ch] = "Playback"]
              /\ lastPage' = [lastPage EXCEPT ![ch] = pfirst]
              /\ step' = "load" /\ ch' = ch + 1 /\ hchans' = hchans
              /\ newp' = IF ch = 0 THEN pfirst ELSE newp
            BY <1>7, <2>1 DEF LoadFrame, Go
        <3>2. \A c \in Busy' : lastType'[c] = mode
            BY <1>0, <2>0, <3>1 DEF Busy, PageTypeOK, Working
        <3>3. 0 \in Busy' /\ newp' = lastPage'[0]
          <4>1. CASE ch = 0
              BY <1>0, <2>0, <3>1, <4>1 DEF Busy, PageTypeOK, Chans
          <4>2. CASE ch = 1
            <5>1. 0 \in Busy /\ newp = lastPage[0] /\ 0 \in Chans
                BY <1>0, <2>0, <4>2 DEF Working, Chans
            <5> QED BY <1>0, <2>0, <3>1, <4>2, <5>1 DEF Busy, PageTypeOK, Chans
          <4> QED BY <2>0, <4>1, <4>2 DEF Chans
        <3>4. hchans' = chans /\ ch' <= hchans'
            BY <1>0, <2>0, <3>1 DEF Working, HandlerTypeOK
        <3> QED BY <1>2, <1>7, <2>0, <3>1, <3>2, <3>3, <3>4 DEF Working, Handler
      <2>2. CASE ~(pfirst # NULL /\ RightChannel)
        <3>1. step' = "capture" /\ UNCHANGED last
            BY <1>7, <2>2 DEF LoadFrame, GoOn, Go
        <3> QED BY <1>0, <1>2, <1>7, <3>1, CardKept DEF Working, Handler, last
      <2> QED BY <2>1, <2>2
    <1>8. CASE FillFrame
      <2>0. ch \in Chans /\ step = "fill" /\ mode = "Capture" /\ ch < hchans /\ ch \in 0 .. 2
          BY <1>0, <1>8, NextChannel DEF FillFrame, At, Working, HandlerTypeOK
      <2>1. /\ lastType' = [lastType EXCEPT ![ch] = "Capture"]
            /\ step' = "fill" /\ ch' = ch + 1 /\ hchans' = hchans
          BY <1>8 DEF FillFrame, GoOn, Go, locals
      <2>2. \A c \in Busy' : lastType'[c] = mode
          BY <1>0, <2>0, <2>1 DEF Busy, PageTypeOK, Working
      <2>3. hchans' = chans /\ ch' <= hchans'
          BY <1>0, <2>0, <2>1 DEF Working, HandlerTypeOK
      <2> QED BY <1>2, <1>8, <2>0, <2>1, <2>2, <2>3 DEF Working, Handler
    <1>9. ~BumpPop
        BY <1>0 DEF BumpPop, At, Paced
    <1> QED BY <1>1, <1>3, <1>4, <1>5, <1>6, <1>7, <1>8, <1>9 DEF Next, Handler, Decide

\* The queue after fifo_push and fifo_pop, place by place.
LEMMA PushPlaces ==
    ASSUME ListTypeOK, NEW p \in Page, Push(p)
    PROVE  /\ Len(fq) \in Nat /\ Len(fq') = Len(fq) + 1 /\ fifo' = fifo + 1
           /\ \A i \in 1 .. Len(fq) : fq'[i] = fq[i] /\ fq[i] \in Page
           /\ fq'[Len(fq) + 1] = p
    <1>1. fq \in Seq(Page) /\ fq' = Append(fq, p) /\ fifo' = fifo + 1
        BY DEF ListTypeOK, Push
    <1>2. Len(fq) \in Nat /\ \A i \in 1 .. Len(fq) : fq[i] \in Page
        BY <1>1
    <1> QED BY <1>1, <1>2, AppendProperties

LEMMA PopPlaces ==
    ASSUME ListTypeOK, QueueOK, Pop, pfirst # NULL
    PROVE  /\ Len(fq) \in Nat \ {0} /\ Len(fq') = Len(fq) - 1 /\ fifo' = fifo - 1
           /\ \A i \in 1 .. Len(fq) - 1 : fq'[i] = fq[i + 1]
           /\ pfirst = fq[1] /\ pfirst \in Page
    <1>1. fq # <<>> /\ pfirst = fq[1] /\ fq' = Tail(fq)
        BY PopTail
    <1>2. Len(fq) \in Nat \ {0} /\ pfirst \in Page
        BY <1>1, NonEmptyQueue DEF QueueOK
    <1>3. fifo' = fifo - 1
        BY DEF Pop
    <1> QED BY <1>1, <1>2, <1>3, HeadTailProperties DEF ListTypeOK

\* The list is empty when the level says so, where the level is exact.
LEMMA EmptyLevel ==
    ASSUME ListTypeOK, QueueOK, LevelExact
    PROVE  fifo > 0 <=> pfirst # NULL
    <1>1. Len(fq) \in Nat /\ (fq = <<>> <=> Len(fq) = 0)
        BY EmptySeq DEF ListTypeOK
    <1>2. fq = <<>> <=> pfirst = NULL
        BY NonEmptyQueue, NullIsNoPage DEF QueueOK, ListIsQueue
    <1> QED BY <1>1, <1>2 DEF LevelExact

\* In a stream that plays the channels are one or two, and the handler takes the
\* page that is for its channel.
LEMMA LoadTakes ==
    ASSUME FramesInv, LoadFrame
    PROVE  /\ mode = "Playback" /\ step = "load" /\ call # "init"
           /\ chans \in 1 .. 2 /\ hchans = chans
           /\ ch \in Chans /\ ch < chans /\ Loaded = ch
           /\ pfirst # NULL /\ RightChannel /\ pfirst \notin OnCard
           /\ pfirst \in Queued /\ Queued' = Queued \ {pfirst}
    <1>1. mode = "Playback" /\ step = "load" /\ call # "init"
        BY DEF LoadFrame, At, FramesInv, PlacesInv, Phases, CardPhases, RunPhases
    <1>2. chans \in 1 .. 2 /\ hchans = chans
        BY <1>1 DEF FramesInv, Settled, Working, PlacesInv, TypeOK, StreamTypeOK
    <1>3. ch \in Chans /\ ch < chans
        BY <1>2, NextChannel DEF LoadFrame, FramesInv, PlacesInv, TypeOK
    <1>4. Loaded = ch
        BY <1>1, <1>3 DEF Loaded
    <1>5. LevelExact /\ fifo >= hchans - ch
        BY <1>1 DEF FramesInv, Levelled
    <1>6. pfirst # NULL
        BY <1>2, <1>3, <1>5, EmptyLevel DEF FramesInv, PlacesInv, TypeOK, ListTypeOK, Chans
    <1>7. pfirst = fq[1] /\ Len(fq) \in Nat \ {0}
        BY <1>6, PopPlaces DEF LoadFrame, FramesInv, PlacesInv, TypeOK
    <1>8. chan[fq[1]] = ChannelAt(Loaded + 1 - 1)
        BY <1>1, <1>2, <1>7 DEF FramesInv, InTurn
    <1>9. RightChannel
      <2>1. Loaded + 1 - 1 = ch /\ ch \in Nat
          BY <1>3, <1>4 DEF Chans
      <2> QED BY <1>2, <1>3, <1>7, <1>8, <2>1, ChannelAtStep DEF RightChannel
    <1>10. pfirst \in Queued /\ Queued' = Queued \ {pfirst}
        BY <1>6, PopQueue DEF LoadFrame, FramesInv, PlacesInv, TypeOK
    <1>11. pfirst \notin OnCard
        BY <1>10 DEF FramesInv, PlacesInv, OnePlace
    <1> QED BY <1>1, <1>2, <1>3, <1>4, <1>6, <1>9, <1>10, <1>11

\* A frame that was captured is queued, by a stream that captures.
LEMMA FreeupCaptures ==
    ASSUME FramesInv, Freeup
    PROVE  \/ UNCHANGED list
           \/ /\ mode = "Capture" /\ lastType[ch] = "Capture"
              /\ lastPage[ch] \in Page /\ Push(lastPage[ch])
    <1>1. ch \in Chans
        BY DEF FramesInv, PlacesInv, TypeOK, HandlerTypeOK, Freeup, At, Chans
    <1>2. lastType[ch] # "none" => lastType[ch] = mode
        BY <1>1 DEF FramesInv, Working, Busy
    <1> QED BY <1>1, <1>2 DEF Freeup, FramesInv, PlacesInv, TypeOK, PageTypeOK

\* The steps by what they do to the list.
LEMMA ListSteps ==
    ASSUME FramesInv, [Next]_vars
    PROVE  \/ UNCHANGED <<fq, fifo, pfirst>>
           \/ mode = "Capture" /\ mode' = mode /\ chans' = chans /\ \E p \in Page : Push(p)
           \/ mode = "Playback" /\ mode' = mode /\ chans' = chans /\ \E p \in Page : FifoPush(p)
           \/ mode = "Capture" /\ mode' = mode /\ chans' = chans /\ FifoPop
           \/ LoadFrame
           \/ call' = "init" /\ fq' = <<>> /\ fifo' = 0 /\ pfirst' = NULL
    <1>1. CASE Handler
      <2>1. mode' = mode /\ chans' = chans
          BY <1>1, HandlerLeaves DEF config
      <2>2. ~BumpPop
          BY DEF BumpPop, At, FramesInv, Paced
      <2>3. CASE Freeup
          BY <2>1, <2>3, FreeupCaptures DEF list
      <2>4. CASE FillFrame
          BY <2>4 DEF FillFrame, TakePage
      <2>5. CASE Decide \/ PlaybackSpeed \/ LoadDone \/ CaptureSpeed
          BY <2>5
          DEF Decide, PlaybackOff, PlaybackDrop, BumpCheck, CaptureOff, CaptureDrop,
              FillFails, FillDone, PlaybackSpeed, LoadDone, CaptureSpeed, list
      <2> QED BY <1>1, <2>2, <2>3, <2>4, <2>5 DEF Handler, Decide
    <1>2. CASE Client
      <2>1. CASE \E p \in Page : FifoPush(p)
          BY <2>1 DEF FifoPush, Free, FramesInv, Orderly, config
      <2>2. CASE FifoPop
          BY <2>2 DEF FifoPop, Free, FramesInv, Orderly, config
      <2>3. CASE \E s \in Setups : InitClear(s)
          BY <2>3 DEF InitClear
      <2>4. CASE \/ InitConfigure \/ Control
                 \/ \E p \in Page : PageAlloc(p) \/ PageFree(p) \/ \E c \in Chans : SetMeta(p, c)
          BY <2>4
          DEF InitConfigure, Control, StreamStart, StreamStop, FrameSeen, WaitFails,
              SetSpeed, PageAlloc, PageFree, SetMeta, TakePage, list
      <2> QED BY <1>2, <2>1, <2>2, <2>3, <2>4 DEF Client, Control
    <1> QED BY <1>1, <1>2 DEF Next, FrameIrq, vars, list

LEMMA NextExact ==
    FramesInv /\ [Next]_vars =>
        ((mode' = "Playback" \/ "emptyPop" \notin Freedoms) => LevelExact')
    <1> SUFFICES ASSUME FramesInv, [Next]_vars, mode' = "Playback" \/ "emptyPop" \notin Freedoms
                 PROVE  LevelExact'
        OBVIOUS
    <1>0. ListTypeOK /\ QueueOK
        BY DEF FramesInv, PlacesInv, TypeOK
    <1>1. mode' = mode => LevelExact
        BY DEF FramesInv, Levelled
    <1>2. CASE UNCHANGED <<fq, fifo>>
      <2>1. CASE mode' = mode
          BY <1>1, <1>2, <2>1 DEF LevelExact
      <2>2. CASE mode' # mode
        <3>1. call = "init"
            BY <2>2, HandlerLeaves
            DEF Next, Client, FrameIrq, InitClear, InitConfigure, StreamStart, StreamStop,
                FrameSeen, WaitFails, SetSpeed, PageAlloc, PageFree, FifoPush, SetMeta,
                FifoPop, config, vars
        <3>2. fq = <<>> /\ fifo = 0 /\ Len(<<>>) = 0
            BY <3>1 DEF FramesInv, Settled
        <3> QED BY <1>2, <3>2 DEF LevelExact
      <2> QED BY <2>1, <2>2
    <1>3. ASSUME mode' = mode, NEW p \in Page, Push(p)
          PROVE  LevelExact'
        BY <1>0, <1>1, <1>3, PushPlaces DEF LevelExact
    <1>4. ASSUME mode' = mode, Pop, pfirst # NULL
          PROVE  LevelExact'
        BY <1>0, <1>1, <1>4, PopPlaces DEF LevelExact
    <1>5. CASE mode = "Capture" /\ mode' = mode /\ FifoPop
      <2>1. "emptyPop" \notin Freedoms /\ LevelExact /\ fifo > 0
          BY <1>1, <1>5 DEF FifoPop, Free
      <2> QED BY <1>0, <1>4, <1>5, <2>1, EmptyLevel DEF FifoPop
    <1>6. CASE LoadFrame
        BY <1>4, <1>6, LoadTakes DEF LoadFrame, config
    <1>7. CASE fq' = <<>> /\ fifo' = 0
        BY <1>7 DEF LevelExact
    <1>8. \A p \in Page : FifoPush(p) => Push(p)
        BY DEF FifoPush
    <1> QED BY <1>2, <1>3, <1>5, <1>6, <1>7, <1>8, ListSteps

LEMMA NextLevelled == FramesInv /\ [Next]_vars => Levelled'
    <1> SUFFICES ASSUME FramesInv, [Next]_vars PROVE Levelled' OBVIOUS
    <1>0. ListTypeOK /\ QueueOK /\ HandlerTypeOK /\ CardPhases /\ Levelled
        BY DEF FramesInv, PlacesInv, TypeOK, Phases
    <1>1. step' = "load" => fifo' >= hchans' - ch'
      <2> SUFFICES ASSUME step' = "load" PROVE fifo' >= hchans' - ch'
          OBVIOUS
      <2>1. CASE LoadFrame
        <3>1. fifo' = fifo - 1 /\ ch' = ch + 1 /\ hchans' = hchans /\ fifo >= hchans - ch
            BY <1>0, <2>1, LoadTakes DEF LoadFrame, Go, Pop, Levelled
        <3> QED BY <1>0, <3>1 DEF HandlerTypeOK, ListTypeOK
      <2>2. CASE PlaybackSpeed
        <3>1. hchans' = chans /\ ch' = 0 /\ fifo >= chans /\ fifo' = fifo
            BY <2>2 DEF PlaybackSpeed, EnoughQueued, GoOn, Go, list
        <3> QED BY <3>1 DEF FramesInv, PlacesInv, TypeOK, StreamTypeOK
      <2>3. CASE FrameIrq \/ Client \/ UNCHANGED vars
        <3>1. UNCHANGED <<step, ch, hchans>>
            BY <2>3, HandlerLeft
        <3>2. mode = "Playback"
            BY <1>0, <3>1 DEF CardPhases
        <3>3. call # "init" /\ ~(\E s \in Setups : InitClear(s))
            BY <3>1 DEF FramesInv, PlacesInv, Phases, RunPhases, InitClear, Free, At,
                        Orderly, Disciplined
        <3>4. fifo' = fifo \/ fifo' = fifo + 1
            BY <2>3, <3>2, <3>3
            DEF FrameIrq, Client, InitConfigure, StreamStart, StreamStop, FrameSeen,
                WaitFails, SetSpeed, PageAlloc, PageFree, FifoPush, SetMeta, FifoPop,
                TakePage, Push, Free, FramesInv, Orderly, list, vars
        <3> QED BY <1>0, <3>1, <3>4 DEF Levelled, ListTypeOK, HandlerTypeOK
      <2>4. ~(BumpCheck \/ BumpPop)
          BY DEF BumpCheck, BumpPop, At, FramesInv, Paced
      <2>5. ~(\/ Freeup \/ PlaybackOff \/ PlaybackDrop \/ LoadDone \/ CaptureOff
              \/ CaptureDrop \/ CaptureSpeed \/ FillFrame \/ FillFails \/ FillDone)
          BY DEF Freeup, FreeupDone, PlaybackOff, PlaybackDrop, LoadDone, CaptureOff,
                 CaptureDrop, CaptureSpeed, FillFrame, FillFails, FillDone, GoOn, Go, Return
      <2> QED BY <2>1, <2>2, <2>3, <2>4, <2>5 DEF Next, Handler
    <1> QED BY <1>1, NextExact DEF Levelled

\* The turns are kept where pages, places and the turn stay as they are.
LEMMA TurnsKept ==
    ASSUME FramesInv, mode' = "Playback", mode' = mode, chans' = chans, chans > 0,
           fq' = fq, turn' = turn, Loaded' = Loaded,
           \A i \in 1 .. Len(fq) : chan'[fq[i]] = chan[fq[i]]
    PROVE  InTurn'
    BY DEF FramesInv, InTurn, ChannelAt

\* A page that is not queued may get another channel.
LEMMA ChannelElsewhere ==
    ASSUME ListTypeOK, PageTypeOK, NEW p \in Page, NEW c, p \notin Queued,
           chan' = [chan EXCEPT ![p] = c]
    PROVE  \A i \in 1 .. Len(fq) : chan'[fq[i]] = chan[fq[i]]
    <1>1. \A i \in 1 .. Len(fq) : fq[i] # p
        BY DEF Queued, ListTypeOK
    <1> QED BY <1>1 DEF PageTypeOK

LEMMA PushTurn ==
    ASSUME FramesInv, NEW p \in Page, FifoPush(p), mode = "Playback", chans > 0
    PROVE  InTurn'
    <1>1. ListTypeOK /\ InTurn /\ HandlerTypeOK /\ StreamTypeOK
        BY DEF FramesInv, PlacesInv, TypeOK
    <1>2. /\ Push(p) /\ chan[p] = turn /\ chan' = chan /\ turn' = NextTurn
          /\ UNCHANGED <<step, ch, chans, mode>>
        BY DEF FifoPush, Free, FramesInv, Orderly, config, irq
    <1>3. chans \in 1 .. 2 /\ Loaded \in Nat /\ Loaded' = Loaded
        BY <1>1, <1>2 DEF StreamTypeOK, Loaded, HandlerTypeOK
    <1> DEFINE n == Len(fq)
    <1>4. /\ n \in Nat /\ Len(fq') = n + 1 /\ fq'[n + 1] = p
          /\ \A i \in 1 .. n : fq'[i] = fq[i]
        BY <1>1, <1>2, PushPlaces
    <1>5. /\ \A i \in 1 .. n : chan[fq[i]] = ChannelAt(Loaded + i - 1)
          /\ turn = ChannelAt(Loaded + n)
        BY <1>1 DEF InTurn
    <1> HIDE DEF n
    <1>6. \A k : ChannelAt(k)' = ChannelAt(k)
        BY <1>2 DEF ChannelAt
    <1>7. \A i \in 1 .. n + 1 : chan'[fq'[i]] = ChannelAt(Loaded + i - 1)
      <2> TAKE i \in 1 .. n + 1
      <2>1. CASE i = n + 1
        <3>1. Loaded + i - 1 = Loaded + n
            BY <1>3, <1>4, <2>1
        <3> QED BY <1>2, <1>4, <1>5, <2>1, <3>1
      <2>2. CASE i # n + 1
        <3>1. i \in 1 .. n
            BY <1>4, <2>2
        <3> QED BY <1>2, <1>4, <1>5, <3>1
      <2> QED BY <2>1, <2>2
    <1>8. turn' = ChannelAt(Loaded + (n + 1))
      <2>1. Loaded + n \in Nat /\ Loaded + (n + 1) = (Loaded + n) + 1
          BY <1>3, <1>4
      <2>2. turn' = IF ChannelAt(Loaded + n) + 1 < chans THEN ChannelAt(Loaded + n) + 1 ELSE 0
          BY <1>2, <1>5 DEF NextTurn
      <2> QED BY <1>3, <2>1, <2>2, ChannelAtStep
    <1> QED BY <1>3, <1>4, <1>6, <1>7, <1>8 DEF InTurn

LEMMA LoadTurn ==
    ASSUME FramesInv, LoadFrame
    PROVE  InTurn'
    <1>0. ListTypeOK /\ QueueOK /\ InTurn
        BY DEF FramesInv, PlacesInv, TypeOK
    <1>1. /\ mode = "Playback" /\ chans \in 1 .. 2 /\ hchans = chans
          /\ ch \in Chans /\ ch < chans /\ Loaded = ch
          /\ pfirst # NULL /\ RightChannel
        BY LoadTakes
    <1>2. /\ Pop /\ step' = "load" /\ ch' = ch + 1
          /\ UNCHANGED <<chan, turn, chans, mode>>
        BY <1>1 DEF LoadFrame, Go, config, user
    <1> DEFINE n == Len(fq)
               next1 == IF ch + 1 < chans THEN ch + 1 ELSE 0
    <1>3. Loaded' = next1
        BY <1>2 DEF Loaded
    <1>4. /\ n \in Nat \ {0} /\ Len(fq') = n - 1
          /\ \A i \in 1 .. n - 1 : fq'[i] = fq[i + 1]
        BY <1>0, <1>1, <1>2, PopPlaces
    <1>5. /\ \A i \in 1 .. n : chan[fq[i]] = ChannelAt(ch + i - 1)
          /\ turn = ChannelAt(ch + n)
        BY <1>0, <1>1 DEF InTurn
    <1>6. \A k : ChannelAt(k)' = ChannelAt(k)
        BY <1>2 DEF ChannelAt
    <1>7. \A k \in Nat : ChannelAt(next1 + k) = ChannelAt(ch + k + 1)
        BY <1>1, ChannelAtRound
    <1>8. next1 \in Nat /\ ch \in Nat
        BY <1>1 DEF Chans
    <1> HIDE DEF n, next1
    <1>9. \A i \in 1 .. n - 1 : chan'[fq'[i]] = ChannelAt(next1 + i - 1)
      <2> TAKE i \in 1 .. n - 1
      <2>1. i - 1 \in Nat /\ i + 1 \in 1 .. n /\ next1 + i - 1 = next1 + (i - 1)
            /\ ch + (i - 1) + 1 = ch + (i + 1) - 1
          BY <1>4, <1>8
      <2>2. chan[fq[i + 1]] = ChannelAt(ch + (i + 1) - 1)
          BY <1>5, <2>1
      <2>3. ChannelAt(next1 + (i - 1)) = ChannelAt(ch + (i - 1) + 1)
          BY <1>7, <2>1
      <2> QED BY <1>2, <1>4, <2>1, <2>2, <2>3
    <1>10. turn' = ChannelAt(next1 + (n - 1))
      <2>1. n - 1 \in Nat /\ ch + (n - 1) + 1 = ch + n
          BY <1>4, <1>8
      <2> QED BY <1>2, <1>5, <1>7, <2>1
    <1> QED BY <1>3, <1>4, <1>6, <1>9, <1>10 DEF InTurn, n

LEMMA NextInTurn == FramesInv /\ [Next]_vars => InTurn'
    <1> SUFFICES ASSUME FramesInv, [Next]_vars, mode' = "Playback", chans' > 0
                 PROVE  InTurn'
        BY DEF InTurn
    <1>0. /\ ListTypeOK /\ PageTypeOK /\ StreamTypeOK /\ HandlerTypeOK /\ InTurn
          /\ Phases /\ Settled /\ Working
        BY DEF FramesInv, PlacesInv, TypeOK
    <1>1. CASE LoadFrame BY <1>1, LoadTurn
    <1>2. CASE \E p \in Page : FifoPush(p)
      <2>1. mode = "Playback" /\ chans > 0
          BY <1>2 DEF FifoPush, Free, FramesInv, Orderly, config
      <2> QED BY <1>2, <2>1, PushTurn
    <1>3. CASE LoadDone
      <2>1. /\ mode = "Playback" /\ step = "load" /\ chans > 0 /\ hchans = chans /\ ch = hchans
            /\ call # "init"
          BY <1>0, <1>3
          DEF LoadDone, At, Phases, CardPhases, RunPhases, Settled, Working, HandlerTypeOK,
              StreamTypeOK
      <2>2. newp = lastPage[0] /\ 0 \in Busy
          BY <1>0, <2>1 DEF Working
      <2>3. newp \in Page /\ newp \notin Queued
          BY <1>0, <2>2 DEF OnCard, FramesInv, PlacesInv, OnePlace, PageTypeOK, Chans
      <2>4. chan' = [chan EXCEPT ![newp] = 0] /\ step' = "capture"
            /\ UNCHANGED <<fq, turn, chans, mode>>
          BY <1>3 DEF LoadDone, GoOn, Go, list, user, config
      <2>5. Loaded = 0 /\ Loaded' = 0
          BY <1>0, <2>1, <2>4 DEF Loaded, StreamTypeOK
      <2> QED BY <1>0, <2>1, <2>3, <2>4, <2>5, ChannelElsewhere, TurnsKept
    <1>4. CASE \E p \in Page, c \in Chans : SetMeta(p, c)
      <2>1. PICK p \in Page, c \in Chans : SetMeta(p, c)
          BY <1>4
      <2>2. p \notin Queued /\ chan' = [chan EXCEPT ![p] = c]
            /\ UNCHANGED <<fq, turn, chans, mode, step, ch>>
          BY <2>1, MineIsHeld DEF SetMeta, FramesInv, list, user, config, irq
      <2>3. Loaded' = Loaded
          BY <2>2 DEF Loaded
      <2> QED BY <1>0, <2>2, <2>3, ChannelElsewhere, TurnsKept
    <1>5. CASE InitConfigure
      <2>1. /\ call = "init" /\ fq = <<>> /\ turn = 0 /\ step \in {"idle", "freeup"}
            /\ UNCHANGED <<fq, turn, step, ch>>
          BY <1>0, <1>5 DEF InitConfigure, Settled, Phases, RunPhases, list, irq
      <2>2. Loaded' = 0 /\ Len(fq') = 0 /\ turn' = 0
          BY <2>1 DEF Loaded
      <2>3. ChannelAt(0)' = 0
          BY DEF ChannelAt
      <2> QED BY <2>2, <2>3 DEF InTurn
    <1>6. CASE \/ FrameIrq \/ UNCHANGED vars \/ Control
               \/ \E p \in Page : PageAlloc(p) \/ PageFree(p)
      <2>1. UNCHANGED <<fq, turn, chans, mode, chan>>
          BY <1>6 DEF FrameIrq, vars, Control, StreamStart, StreamStop, FrameSeen, WaitFails,
                      SetSpeed, PageAlloc, PageFree, TakePage, user, list, config
      <2>2. Loaded' = Loaded
        <3>1. UNCHANGED <<step, ch>> \/ (step = "idle" /\ step' = "freeup")
            BY <1>6 DEF FrameIrq, vars, Control, StreamStart, StreamStop, FrameSeen, At, Go,
                      WaitFails, SetSpeed, PageAlloc, PageFree, irq
        <3> QED BY <2>1, <3>1 DEF Loaded
      <2> QED BY <1>0, <2>1, <2>2, TurnsKept
    <1>7. CASE Handler /\ ~LoadFrame /\ ~LoadDone
      <2>1. mode = "Playback" /\ chans > 0 /\ UNCHANGED <<turn, chans, mode>>
          BY <1>7, HandlerLeaves DEF config, user
      <2>2. ~(\/ BumpCheck \/ BumpPop \/ CaptureDrop \/ CaptureSpeed
              \/ FillFrame \/ FillFails \/ FillDone)
          BY <1>0, <2>1
          DEF BumpCheck, BumpPop, CaptureDrop, CaptureSpeed, FillFrame, FillFails, FillDone,
              At, Working, FramesInv, Paced
      <2>3. UNCHANGED <<fq, chan>>
          BY <1>7, <2>1, <2>2, FreeupCaptures
          DEF Handler, Freeup, PlaybackOff, PlaybackDrop, PlaybackSpeed, CaptureOff, list
      <2>4. Loaded = 0 /\ Loaded' = 0
        <3>1. step # "load" /\ (step' = "load" => ch' = 0)
            BY <1>7, <2>2
            DEF Handler, Freeup, FreeupDone, PlaybackOff, PlaybackDrop, PlaybackSpeed,
                CaptureOff, At, GoOn, Go, Return
        <3> QED BY <3>1 DEF Loaded
      <2> QED BY <2>1, <2>3, <2>4, TurnsKept
    <1>8. CASE \E s \in Setups : InitClear(s)
      <2>1. chans' = 0
          BY <1>8 DEF InitClear
      <2> QED BY <2>1
    <1>9. CASE FifoPop
        BY <1>9 DEF FifoPop, Free, FramesInv, Orderly, config
    <1> QED BY <1>1, <1>2, <1>3, <1>4, <1>5, <1>6, <1>7, <1>8, <1>9
            DEF Next, Client, Control

LEMMA NextWhole == FramesInv /\ [Next]_vars => FramesWhole'
    <1> SUFFICES ASSUME FramesInv, [Next]_vars, mode' = "Playback"
                 PROVE  outcome' # "lost"
        BY DEF FramesWhole
    <1>0. FramesWhole /\ Working
        BY DEF FramesInv
    <1>1. CASE Handler
      <2>1. mode = "Playback"
          BY <1>1, HandlerLeaves DEF config
      <2>2. ~BumpPop /\ ~FillFails
          BY <1>0, <2>1 DEF BumpPop, FillFails, At, Working, FramesInv, Paced
      <2> QED BY <1>0, <1>1, <2>1, <2>2, LoadTakes
          DEF FramesWhole, Handler, Freeup, PlaybackOff, PlaybackDrop, PlaybackSpeed,
              BumpCheck, LoadFrame, LoadDone, CaptureOff, CaptureDrop, CaptureSpeed,
              FillFrame, FillDone, Drop
    <1>2. CASE InitConfigure
        BY <1>2 DEF InitConfigure
    <1>3. CASE Client /\ ~InitConfigure
        BY <1>0, <1>3
        DEF FramesWhole, Client, InitClear, StreamStart, StreamStop, FrameSeen, WaitFails,
            SetSpeed, PageAlloc, PageFree, FifoPush, SetMeta, FifoPop, config
    <1> QED BY <1>0, <1>1, <1>2, <1>3 DEF FramesWhole, Next, FrameIrq, vars, config

LEMMA NextNoPageLost == FramesInv /\ [Next]_vars => NoPageLost'
    <1> SUFFICES ASSUME FramesInv, [Next]_vars PROVE NoPageLost' OBVIOUS
    <1>0. NoPageLost /\ PlacesInv /\ ListTypeOK /\ PageTypeOK /\ QueueOK /\ OnePlace /\ CardPhases
        BY DEF FramesInv, PlacesInv, TypeOK, Phases
    <1>1. CASE Freeup
      <2> DEFINE p == lastPage[ch]
      <2>0. ch \in Chans /\ p \in Page /\ held' = held
          BY <1>1 DEF FramesInv, PlacesInv, TypeOK, HandlerTypeOK, PageTypeOK, Freeup, At,
                      Chans, user
      <2>1. /\ ch \in Busy => OnCard' = OnCard \ {p} /\ p \in OnCard
            /\ ch \notin Busy => OnCard' = OnCard
          BY <1>0, <1>1, <2>0, CardGives DEF Freeup
      <2>2. CASE lastType[ch] = "none" /\ UNCHANGED <<inuse, list>>
          BY <1>0, <2>0, <2>1, <2>2 DEF NoPageLost, Busy, Queued, list
      <2>3. CASE lastType[ch] = "Playback" /\ ReleasePage(p) /\ UNCHANGED list
          BY <1>0, <2>0, <2>1, <2>3 DEF NoPageLost, Busy, Queued, list, ReleasePage, PageTypeOK
      <2>4. CASE lastType[ch] = "Capture" /\ Push(p) /\ UNCHANGED inuse
        <3>1. p \notin Queued /\ ch \in Busy
            BY <1>0, <2>0, <2>1, <2>4 DEF Busy, OnePlace
        <3>2. Queued' = Queued \cup {p}
            BY <1>0, <2>0, <2>4, <3>1, PushQueue
        <3> QED BY <1>0, <2>0, <2>1, <2>4, <3>1, <3>2 DEF NoPageLost
      <2> QED BY <1>1, <2>2, <2>3, <2>4 DEF Freeup
    <1>2. CASE LoadFrame
      <2>0. /\ ch \in Chans /\ ch < chans /\ pfirst # NULL /\ RightChannel /\ step = "load"
            /\ Queued' = Queued \ {pfirst}
          BY <1>2, LoadTakes
      <2>1. pfirst \in Page /\ ch \notin Busy
          BY <1>0, <2>0 DEF ListTypeOK, CardPhases, Busy, Chans
      <2>2. OnCard' = OnCard \cup {pfirst}
          BY <1>0, <1>2, <2>0, <2>1, CardTakes DEF LoadFrame
      <2>3. UNCHANGED <<inuse, held>>
          BY <1>2 DEF LoadFrame, user
      <2> QED BY <1>0, <2>0, <2>2, <2>3 DEF NoPageLost
    <1>3. CASE FillFrame
      <2>0. ch \in Chans /\ ch \notin Busy /\ held' = held
          BY <1>0, <1>3, NextChannel
          DEF FramesInv, PlacesInv, TypeOK, FillFrame, At, CardPhases, Busy, Chans, user
      <2>1. PICK p \in Page :
                /\ TakePage(p)
                /\ lastType' = [lastType EXCEPT ![ch] = "Capture"]
                /\ lastPage' = [lastPage EXCEPT ![ch] = p]
          BY <1>3 DEF FillFrame
      <2>2. OnCard' = OnCard \cup {p} /\ Queued' = Queued
          BY <1>0, <2>0, <2>1, CardTakes, TakePlaces
      <2>3. \A q \in Page \ {p} : inuse'[q] = inuse[q]
          BY <1>0, <2>1 DEF TakePage, PageTypeOK
      <2> QED BY <1>0, <2>0, <2>2, <2>3 DEF NoPageLost
    <1>4. CASE \E p \in Page : PageAlloc(p)
      <2>1. PICK p \in Page : TakePage(p) /\ held' = held \cup {p} /\ UNCHANGED last
          BY <1>4 DEF PageAlloc
      <2>2. OnCard' = OnCard /\ Queued' = Queued
          BY <1>0, <2>1, CardKept, TakePlaces
      <2>3. \A q \in Page \ {p} : inuse'[q] = inuse[q]
          BY <1>0, <2>1 DEF TakePage, PageTypeOK
      <2> QED BY <1>0, <2>1, <2>2, <2>3 DEF NoPageLost
    <1>5. CASE \E p \in Page : PageFree(p)
      <2>1. PICK p \in Page : ReleasePage(p) /\ held' = held \ {p} /\ UNCHANGED <<list, last>>
          BY <1>5 DEF PageFree
      <2> QED BY <1>0, <2>1, CardKept DEF NoPageLost, ReleasePage, PageTypeOK, Queued, list
    <1>6. CASE \E p \in Page : FifoPush(p)
      <2>1. PICK p \in Page : /\ Push(p) /\ held' = held \ {p} /\ UNCHANGED <<inuse, last>>
                              /\ Mine(p)
          BY <1>6 DEF FifoPush
      <2>2. Queued' = Queued \cup {p}
          BY <1>0, <2>1, MineIsHeld, PushQueue
      <2> QED BY <1>0, <2>1, <2>2, CardKept DEF NoPageLost
    <1>7. CASE FifoPop
      <2>1. /\ Pop /\ held' = (IF pfirst = NULL THEN held ELSE held \cup {pfirst})
            /\ UNCHANGED <<inuse, last>>
          BY <1>7 DEF FifoPop
      <2> QED BY <1>0, <2>1, CardKept, PopQueue DEF NoPageLost
    <1>8. CASE \E s \in Setups : InitClear(s)
        BY <1>8 DEF InitClear, NoPageLost
    <1>9. CASE \/ FrameIrq \/ Decide \/ PlaybackSpeed \/ LoadDone \/ CaptureSpeed
               \/ InitConfigure \/ Control
               \/ \E p \in Page, c \in Chans : SetMeta(p, c)
               \/ UNCHANGED vars
      <2>1. UNCHANGED <<list, inuse, last, held>>
          BY <1>9
          DEF FrameIrq, Decide, PlaybackOff, PlaybackDrop, BumpCheck, CaptureOff,
              CaptureDrop, FillFails, FillDone, PlaybackSpeed, LoadDone, CaptureSpeed,
              InitConfigure, Control, StreamStart, StreamStop, FrameSeen, WaitFails,
              SetSpeed, SetMeta, user, vars
      <2> QED BY <1>0, <2>1, CardKept DEF NoPageLost, Queued, list
    <1>10. ~BumpPop
        BY DEF BumpPop, At, FramesInv, Paced
    <1> QED
        BY <1>1, <1>2, <1>3, <1>4, <1>5, <1>6, <1>7, <1>8, <1>9, <1>10
        DEF Next, Handler, Client, Decide, Control

LEMMA InitFrames == Orderly /\ Init => FramesInv
    <1> SUFFICES ASSUME Orderly, Init PROVE FramesInv OBVIOUS
    <1>1. PlacesInv
        BY InitPlaces DEF Orderly
    <1>2. Busy = {} /\ Len(fq) = 0
        BY DEF Init, Busy
    <1>3. 0 <= Divisor
        BY SpeedAssumption
    <1>4. Settled /\ Paced /\ Working /\ Levelled /\ InTurn /\ FramesWhole /\ NoPageLost
        BY <1>2, <1>3
        DEF Init, Settled, Paced, Working, Levelled, LevelExact, InTurn, FramesWhole,
            NoPageLost
    <1> QED BY <1>1, <1>4 DEF FramesInv

LEMMA NextFramesInv == FramesInv /\ [Next]_vars => FramesInv'
    <1> SUFFICES ASSUME FramesInv, [Next]_vars PROVE FramesInv' OBVIOUS
    <1>1. PlacesInv' /\ Orderly'
        BY NextPlacesInv DEF FramesInv, Orderly, Disciplined, Clamp
    <1> QED
        BY <1>1, NextSettled, NextPaced, NextWorking, NextLevelled, NextInTurn, NextWhole,
           NextNoPageLost
        DEF FramesInv

LEMMA FramesInStepFollows == FramesInv => FramesInStep
    <1> SUFFICES ASSUME FramesInv, At("idle"), mode = "Playback", chans > 0,
                        NEW i \in 1 .. Len(fq)
                 PROVE  chan[fq[i]] = (i - 1) % chans
        BY DEF FramesInStep, ChannelsInStep, FramesInv
    <1>1. Loaded = 0 /\ chans \in 1 .. 2
        BY DEF At, Loaded, FramesInv, PlacesInv, TypeOK, StreamTypeOK
    <1>2. chan[fq[i]] = ChannelAt(0 + i - 1)
        BY <1>1 DEF FramesInv, InTurn
    <1>3. Len(fq) \in Nat
        BY DEF FramesInv, PlacesInv, TypeOK, ListTypeOK
    <1>4. 0 + i - 1 = i - 1 /\ i - 1 \in Nat
        BY <1>3
    <1>5. CASE chans = 1
        BY <1>2, <1>4, <1>5 DEF ChannelAt
    <1>6. CASE chans = 2
        BY <1>2, <1>4, <1>6 DEF ChannelAt
    <1> QED BY <1>1, <1>5, <1>6

\* At up to normal speed no page is ever lost: whatever is in use is held by the
\* client, queued or on the card, however many frames are dropped or skipped
\* (aja.c:1872-2032).  Above normal speed the code does lose pages.
THEOREM NoPageEverLost == Orderly /\ Spec => []NoPageLost
    <1>1. FramesInv => NoPageLost
        BY DEF FramesInv
    <1> QED BY <1>1, InitFrames, NextFramesInv, PTL DEF Spec

\* Frames go out whole and the channels stay in step, between the unlocked test
\* of the level and the pops, one locked section per channel.
THEOREM FramesStayInStep == Orderly /\ Spec => []FramesInStep
    <1> QED BY FramesInStepFollows, InitFrames, NextFramesInv, PTL DEF Spec

\* The level reported is the number of pages queued, for a client that looks at
\* it before it pops.
THEOREM LevelAlwaysExact ==
    Orderly /\ "emptyPop" \notin Freedoms /\ Spec => []LevelExact
    <1> SUFFICES ASSUME "emptyPop" \notin Freedoms PROVE Orderly /\ Spec => []LevelExact
        OBVIOUS
    <1>1. FramesInv => LevelExact
        BY DEF FramesInv, Levelled
    <1> QED BY <1>1, InitFrames, NextFramesInv, PTL DEF Spec

-----------------------------------------------------------------------------
(* The stream implements PageFifo, the owner of a page being where it is. *)

Place(p, h, q, o) ==
    IF p \in h THEN "client" ELSE IF p \in q THEN "queue" ELSE IF p \in o THEN "card" ELSE "free"

LEMMA OwnerIsPlace ==
    ASSUME FramesInv, NEW p \in Page
    PROVE  Owner(p) = Place(p, held, Queued, OnCard)
    BY DEF FramesInv, PlacesInv, OnePlace, NoPageLost, Owner, Place

LEMMA OwnerIsPlaceThen ==
    ASSUME FramesInv', NEW p \in Page
    PROVE  Owner(p)' = Place(p, held', Queued', OnCard')
    BY DEF FramesInv, PlacesInv, OnePlace, NoPageLost, Owner, Place

\* A page changes hands, and no other page does.
LEMMA OneHand ==
    ASSUME FramesInv, FramesInv', NEW p \in Page, NEW from, NEW to,
           Place(p, held, Queued, OnCard) = from,
           Place(p, held', Queued', OnCard') = to,
           \A q \in Page \ {p} :
               Place(q, held', Queued', OnCard') = Place(q, held, Queued, OnCard)
    PROVE  PF!Hand(p, from, to)
    <1>1. Owner(p) = from /\ Owner(p)' = to
        BY OwnerIsPlace, OwnerIsPlaceThen
    <1>2. \A q \in Page \ {p} : Owner(q)' = Owner(q)
        BY OwnerIsPlace, OwnerIsPlaceThen
    <1>3. [q \in Page |-> Owner(q)]' = [[q \in Page |-> Owner(q)] EXCEPT ![p] = to]
        BY <1>1, <1>2
    <1> QED BY <1>1, <1>3 DEF PF!Hand

LEMMA NoHand ==
    ASSUME FramesInv, FramesInv', UNCHANGED <<held, fq, last>>
    PROVE  UNCHANGED PF!vars
    <1>1. Queued' = Queued /\ OnCard' = OnCard
        BY CardKept DEF Queued
    <1>2. \A q \in Page : Owner(q)' = Owner(q)
        BY <1>1, OwnerIsPlace, OwnerIsPlaceThen
    <1> QED BY <1>2 DEF PF!vars

\* The oldest page leaves the queue for another place.
LEMMA QueueHand ==
    ASSUME FramesInv, FramesInv', Pop, pfirst # NULL, NEW to,
           Place(pfirst, held', Queued', OnCard') = to,
           \A q \in Page \ {pfirst} :
               Place(q, held', Queued', OnCard') = Place(q, held, Queued, OnCard)
    PROVE  PF!Dequeue(to)
    <1>0. ListTypeOK /\ QueueOK /\ OnePlace
        BY DEF FramesInv, PlacesInv, TypeOK
    <1>1. fq # <<>> /\ pfirst = Head(fq) /\ fq' = Tail(fq) /\ pfirst \in Page
        BY <1>0, PopTail DEF ListTypeOK
    <1>2. pfirst \in Queued /\ pfirst \notin held
        BY <1>0, PopQueue DEF OnePlace
    <1>3. Place(pfirst, held, Queued, OnCard) = "queue"
        BY <1>2 DEF Place
    <1>4. PF!Hand(pfirst, "queue", to)
        BY <1>1, <1>3, OneHand
    <1> QED BY <1>1, <1>4 DEF PF!Dequeue

LEMMA FreeupHand ==
    ASSUME FramesInv, FramesInv', Freeup
    PROVE  PF!Next \/ UNCHANGED PF!vars
    <1> DEFINE p == lastPage[ch]
    <1>0. ListTypeOK /\ PageTypeOK /\ QueueOK /\ OnePlace
        BY DEF FramesInv, PlacesInv, TypeOK
    <1>1. ch \in Chans /\ p \in Page /\ held' = held
        BY <1>0 DEF FramesInv, PlacesInv, TypeOK, HandlerTypeOK, PageTypeOK, Freeup, At,
                    Chans, user
    <1>2. /\ ch \in Busy => OnCard' = OnCard \ {p} /\ p \in OnCard
          /\ ch \notin Busy => OnCard' = OnCard
        BY <1>0, <1>1, CardGives DEF Freeup
    <1>3. CASE ch \notin Busy
      <2>1. UNCHANGED list
          BY <1>1, <1>3 DEF Freeup, Busy
      <2>2. Queued' = Queued /\ fq' = fq
          BY <2>1 DEF list, Queued
      <2>3. \A q \in Page : Owner(q)' = Owner(q)
          BY <1>1, <1>2, <1>3, <2>2, OwnerIsPlace, OwnerIsPlaceThen
      <2> QED BY <2>2, <2>3 DEF PF!vars
    <1>4. ASSUME ch \in Busy PROVE p \notin held /\ p \notin Queued
        BY <1>0, <1>2, <1>4 DEF OnePlace
    <1>5. CASE ch \in Busy /\ UNCHANGED list
      <2>1. Queued' = Queued /\ fq' = fq
          BY <1>5 DEF list, Queued
      <2>2. PF!Hand(p, "card", "free")
          BY <1>1, <1>2, <1>4, <1>5, <2>1, OneHand DEF Place
      <2> QED BY <1>1, <2>1, <2>2 DEF PF!CardPlayed, PF!Next
    <1>6. CASE ch \in Busy /\ Push(p)
      <2>1. Queued' = Queued \cup {p} /\ fq' = Append(fq, p)
          BY <1>0, <1>1, <1>4, <1>6, PushQueue DEF Push
      <2>2. PF!Hand(p, "card", "queue")
          BY <1>1, <1>2, <1>4, <1>6, <2>1, OneHand DEF Place
      <2> QED BY <1>1, <2>1, <2>2 DEF PF!CardCaptured, PF!Enqueue, PF!Next
    <1> QED BY <1>3, <1>5, <1>6 DEF Freeup

LEMMA LoadHand ==
    ASSUME FramesInv, FramesInv', LoadFrame
    PROVE  PF!CardPlay
    <1>0. ListTypeOK /\ PageTypeOK /\ CardPhases
        BY DEF FramesInv, PlacesInv, TypeOK, Phases
    <1>1. /\ ch \in Chans /\ pfirst # NULL /\ RightChannel /\ step = "load"
          /\ pfirst \in Queued /\ Queued' = Queued \ {pfirst}
        BY LoadTakes
    <1>2. pfirst \in Page /\ ch \notin Busy /\ held' = held /\ Pop
        BY <1>0, <1>1 DEF LoadFrame, ListTypeOK, CardPhases, Busy, Chans, user
    <1>3. OnCard' = OnCard \cup {pfirst}
        BY <1>0, <1>1, <1>2, CardTakes DEF LoadFrame
    <1>4. pfirst \notin held
        BY <1>1 DEF FramesInv, PlacesInv, OnePlace
    <1>5. PF!Dequeue("card")
        BY <1>1, <1>2, <1>3, <1>4, QueueHand DEF Place
    <1> QED BY <1>5 DEF PF!CardPlay

LEMMA FifoPopHand ==
    ASSUME FramesInv, FramesInv', FifoPop
    PROVE  PF!ClientPop \/ UNCHANGED PF!vars
    <1>0. ListTypeOK /\ QueueOK
        BY DEF FramesInv, PlacesInv, TypeOK
    <1>1. /\ Pop /\ held' = (IF pfirst = NULL THEN held ELSE held \cup {pfirst})
          /\ UNCHANGED last
        BY DEF FifoPop
    <1>2. CASE pfirst = NULL
        BY <1>0, <1>1, <1>2, PopTail, NoHand
    <1>3. CASE pfirst # NULL
      <2>1. Queued' = Queued \ {pfirst} /\ OnCard' = OnCard
          BY <1>0, <1>1, <1>3, PopQueue, CardKept
      <2>2. PF!Dequeue("client")
          BY <1>1, <1>3, <2>1, QueueHand DEF Place
      <2> QED BY <2>2 DEF PF!ClientPop
    <1> QED BY <1>2, <1>3

LEMMA FillHand ==
    ASSUME FramesInv, FramesInv', FillFrame
    PROVE  \E p \in Page : PF!CardCapture(p)
    <1>0. PlacesInv /\ PageTypeOK
        BY DEF FramesInv, PlacesInv, TypeOK
    <1>1. ch \in Chans /\ ch \notin Busy /\ held' = held
        BY NextChannel DEF FramesInv, PlacesInv, TypeOK, FillFrame, At, Phases, CardPhases,
                           Busy, Chans, user
    <1>2. PICK p \in Page :
              /\ TakePage(p)
              /\ lastType' = [lastType EXCEPT ![ch] = "Capture"]
              /\ lastPage' = [lastPage EXCEPT ![ch] = p]
        BY DEF FillFrame
    <1>3. OnCard' = OnCard \cup {p} /\ Queued' = Queued /\ fq' = fq
        BY <1>0, <1>1, <1>2, CardTakes, TakePlaces DEF TakePage
    <1>4. p \notin held \cup Queued \cup OnCard
        BY <1>0, <1>2, TakePlaces
    <1>5. PF!Hand(p, "free", "card")
        BY <1>1, <1>3, <1>4, OneHand DEF Place
    <1> QED BY <1>3, <1>5 DEF PF!CardCapture

LEMMA PageCallHand ==
    ASSUME FramesInv, FramesInv', NEW p \in Page, PageCall(p)
    PROVE  PF!Next \/ UNCHANGED PF!vars
    <1>0. PlacesInv /\ ListTypeOK /\ QueueOK
        BY DEF FramesInv, PlacesInv, TypeOK
    <1>1. UNCHANGED last
        BY DEF PageCall, PageAlloc, PageFree, FifoPush, SetMeta
    <1>2. OnCard' = OnCard
        BY <1>1, CardKept
    <1>3. CASE PageAlloc(p)
      <2>1. TakePage(p) /\ held' = held \cup {p} /\ fq' = fq
          BY <1>3 DEF PageAlloc, TakePage
      <2>2. p \notin held \cup Queued \cup OnCard /\ Queued' = Queued
          BY <1>0, <2>1, TakePlaces
      <2>3. PF!Hand(p, "free", "client")
          BY <1>2, <2>1, <2>2, OneHand DEF Place
      <2> QED BY <2>1, <2>3 DEF PF!ClientAlloc, PF!Next
    <1>4. CASE PageFree(p)
      <2>1. held' = held \ {p} /\ fq' = fq /\ Queued' = Queued
          BY <1>4 DEF PageFree, list, Queued
      <2>2. p \in held /\ p \notin Queued /\ p \notin OnCard
          BY <1>0, <1>4, MineIsHeld DEF PageFree
      <2>3. PF!Hand(p, "client", "free")
          BY <1>2, <2>1, <2>2, OneHand DEF Place
      <2> QED BY <2>1, <2>3 DEF PF!ClientFree, PF!Next
    <1>5. CASE FifoPush(p)
      <2>1. p \in held /\ p \notin Queued /\ p \notin OnCard
          BY <1>0, <1>5, MineIsHeld DEF FifoPush
      <2>2. held' = held \ {p} /\ fq' = Append(fq, p) /\ Queued' = Queued \cup {p}
          BY <1>0, <1>5, <2>1, PushQueue DEF FifoPush, Push
      <2>3. PF!Hand(p, "client", "queue")
          BY <1>2, <2>1, <2>2, OneHand DEF Place
      <2> QED BY <2>2, <2>3 DEF PF!ClientPush, PF!Enqueue, PF!Next
    <1>6. CASE \E c \in Chans : SetMeta(p, c)
        BY <1>6, NoHand DEF SetMeta, user, list
    <1> QED BY <1>3, <1>4, <1>5, <1>6 DEF PageCall

LEMMA ClearHand ==
    ASSUME FramesInv, FramesInv', NEW s \in Setups, InitClear(s)
    PROVE  PF!Reset
    <1>1. fq' = <<>> /\ held' = {} /\ lastType' = [c \in Chans |-> "none"]
        BY DEF InitClear
    <1>2. Queued' = {} /\ OnCard' = {}
        BY <1>1 DEF Queued, OnCard, Busy
    <1>3. \A p \in Page : Owner(p)' = "free"
        BY <1>1, <1>2, OwnerIsPlaceThen DEF Place
    <1> QED BY <1>1, <1>3 DEF PF!Reset

LEMMA NextImplements ==
    ASSUME FramesInv, FramesInv', [Next]_vars
    PROVE  PF!Next \/ UNCHANGED PF!vars
    <1>1. CASE Freeup BY <1>1, FreeupHand
    <1>2. CASE LoadFrame BY <1>2, LoadHand DEF PF!Next
    <1>3. CASE FillFrame BY <1>3, FillHand DEF PF!Next
    <1>4. CASE \E p \in Page : PageCall(p) BY <1>4, PageCallHand
    <1>5. CASE FifoPop BY <1>5, FifoPopHand DEF PF!Next
    <1>6. CASE \E s \in Setups : InitClear(s) BY <1>6, ClearHand DEF PF!Next
    <1>7. CASE \/ FrameIrq \/ Decide \/ PlaybackSpeed \/ LoadDone \/ CaptureSpeed
               \/ InitConfigure \/ Control \/ UNCHANGED vars
      <2>1. UNCHANGED <<list, last, held>>
          BY <1>7
          DEF FrameIrq, Decide, PlaybackOff, PlaybackDrop, BumpCheck, CaptureOff,
              CaptureDrop, FillFails, FillDone, PlaybackSpeed, LoadDone, CaptureSpeed,
              InitConfigure, Control, StreamStart, StreamStop, FrameSeen, WaitFails,
              SetSpeed, user, vars
      <2> QED BY <2>1, NoHand DEF list
    <1>8. ~BumpPop
        BY DEF BumpPop, At, FramesInv, Paced
    <1> QED
        BY <1>1, <1>2, <1>3, <1>4, <1>5, <1>6, <1>7, <1>8
        DEF Next, Handler, Client, Decide, Control, PageCall

\* The stream implements the abstract one: pages go round their cycle of owners
\* and the queue is first in, first out, whatever the interleaving of ioctls and
\* frames.
THEOREM StreamImplementsPageFifo == Orderly /\ Spec => ImplementsPageFifo
    <1>1. Init => PF!Init
        BY DEF Init, PF!Init, Owner
    <1>2. FramesInv /\ FramesInv' /\ [Next]_vars => [PF!Next]_(PF!vars)
        BY NextImplements
    <1> QED BY <1>1, <1>2, InitFrames, NextFramesInv, PTL DEF Spec, ImplementsPageFifo, PF!Spec
=============================================================================
