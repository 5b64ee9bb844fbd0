------------------------- MODULE StreamPagesProofs -------------------------
(***************************************************************************)
(* Proofs about StreamPages, for every number of pages, every stream and   *)
(* every speed.                                                            *)
(***************************************************************************)
EXTENDS StreamPages, SequenceTheorems, TLAPS

-----------------------------------------------------------------------------
(* Operators *)

\* The division of aja_stream_speedcount keeps less than one frame back, and
\* hands out no more than was there.
LEMMA Division ==
    ASSUME NEW a \in Nat, NEW d \in Nat \ {0}
    PROVE  /\ a \div d \in Nat
           /\ a - (a \div d) * d \in 0 .. d - 1
           /\ (a \div d) * d <= a
    BY SMT

\* The number of frames of an interval, and what is left after it.
LEMMA SpeedCountBounds ==
    ASSUME StreamTypeOK
    PROVE  /\ Frames \in Nat
           /\ (spdct + speed) - Frames * Divisor \in 0 .. Divisor - 1
           /\ Frames * Divisor <= spdct + speed
    <1>1. Divisor \in Nat \ {0} /\ spdct + speed \in Nat
        BY SpeedAssumption DEF StreamTypeOK
    <1> QED BY <1>1, Division DEF Frames

LEMMA PageZero == 0 \in Page
    BY PagesAssumption DEF Page

LEMMA NullIsNoPage == NULL \notin Page
    BY NullAssumption DEF Page

\* The list operations keep the list well typed.
LEMMA PushType ==
    ASSUME ListTypeOK, NEW p \in Page, Push(p)
    PROVE  ListTypeOK'
    <1>1. fq' \in Seq(Page) /\ fifo' \in Int
        BY DEF ListTypeOK, Push
    <1>2. pfirst' \in Page \cup {NULL} /\ plast' \in Page \cup {NULL}
        BY DEF ListTypeOK, Push
    <1>3. prev' \in [Page -> Page \cup {NULL}]
        BY DEF ListTypeOK, Push
    <1>4. next' \in [Page -> Page \cup {NULL}]
        BY DEF ListTypeOK, Push
    <1> QED BY <1>1, <1>2, <1>3, <1>4 DEF ListTypeOK

LEMMA PopType ==
    ASSUME ListTypeOK, Pop
    PROVE  ListTypeOK'
    <1>1. CASE pfirst = NULL
        BY <1>1 DEF ListTypeOK, Pop
    <1>2. CASE pfirst # NULL
        <2>1. next[pfirst] \in Page \cup {NULL}
            BY <1>2 DEF ListTypeOK
        <2>2. fq # <<>> => Tail(fq) \in Seq(Page)
            BY DEF ListTypeOK
        <2>3. fq' = <<>> \/ (fq' = Tail(fq) /\ fq # <<>>)
            BY <1>2 DEF Pop, Unlink
        <2>4. fq' \in Seq(Page)
            BY <2>2, <2>3, EmptySeq
        <2> QED BY <1>2, <2>1, <2>4 DEF ListTypeOK, Pop, Unlink
    <1> QED BY <1>1, <1>2

LEMMA TakeType ==
    ASSUME ListTypeOK, PageTypeOK, NEW p \in Page, TakePage(p)
    PROVE  ListTypeOK' /\ inuse' \in [Page -> BOOLEAN]
    BY DEF ListTypeOK, PageTypeOK, TakePage

-----------------------------------------------------------------------------
(* Type correctness, for careful and careless clients. *)

LEMMA InitTypeOK == Init => TypeOK
    <1> SUFFICES ASSUME Init PROVE TypeOK OBVIOUS
    <1> USE DEF Init
    <1>1. ListTypeOK
        BY DEF ListTypeOK
    <1>2. PageTypeOK
        BY PageZero DEF PageTypeOK, Chans
    <1>3. StreamTypeOK
        BY PagesAssumption, SpeedAssumption DEF StreamTypeOK, Modes
    <1>4. HandlerTypeOK
        BY PageZero DEF HandlerTypeOK
    <1>5. ClientTypeOK
        BY DEF ClientTypeOK, Chans
    <1>6. FlagsTypeOK
        BY DEF FlagsTypeOK
    <1> QED BY <1>1, <1>2, <1>3, <1>4, <1>5, <1>6 DEF TypeOK

\* The return of the handler, and a step that only moves it on.
LEMMA ReturnType ==
    ASSUME Return
    PROVE  HandlerTypeOK' /\ srun' = FALSE
    BY PageZero DEF Return, Go, HandlerTypeOK

\* What a step leaves alone stays well typed.
LEMMA TypeKept ==
    /\ ListTypeOK /\ UNCHANGED list => ListTypeOK'
    /\ PageTypeOK /\ UNCHANGED <<inuse, chan, last>> => PageTypeOK'
    /\ StreamTypeOK /\ UNCHANGED <<config, running, pace>> => StreamTypeOK'
    /\ HandlerTypeOK /\ UNCHANGED irq => HandlerTypeOK'
    /\ ClientTypeOK /\ UNCHANGED <<user, outcome>> => ClientTypeOK'
    /\ FlagsTypeOK /\ UNCHANGED <<running, srun, woken>> => FlagsTypeOK'
    <1>1. ListTypeOK /\ UNCHANGED list => ListTypeOK'
        BY DEF ListTypeOK, list
    <1>2. PageTypeOK /\ UNCHANGED <<inuse, chan, last>> => PageTypeOK'
        BY DEF PageTypeOK, last
    <1>3. StreamTypeOK /\ UNCHANGED <<config, running, pace>> => StreamTypeOK'
        BY DEF StreamTypeOK, config, pace
    <1>4. HandlerTypeOK /\ UNCHANGED irq => HandlerTypeOK'
        BY DEF HandlerTypeOK, irq, locals
    <1>5. ClientTypeOK /\ UNCHANGED <<user, outcome>> => ClientTypeOK'
        BY DEF ClientTypeOK, user, wait
    <1>6. FlagsTypeOK /\ UNCHANGED <<running, srun, woken>> => FlagsTypeOK'
        BY DEF FlagsTypeOK
    <1> QED BY <1>1, <1>2, <1>3, <1>4, <1>5, <1>6

LEMMA FrameIrqType == TypeOK /\ FrameIrq => TypeOK'
    <1> SUFFICES ASSUME TypeOK, FrameIrq PROVE TypeOK' OBVIOUS
    <1>1. HandlerTypeOK'
        BY DEF TypeOK, HandlerTypeOK, FrameIrq, Go
    <1>2. ClientTypeOK'
        BY DEF TypeOK, ClientTypeOK, FrameIrq
    <1>3. FlagsTypeOK'
        BY DEF TypeOK, FlagsTypeOK, FrameIrq
    <1> QED BY <1>1, <1>2, <1>3, TypeKept DEF TypeOK, FrameIrq

LEMMA FreeupType == TypeOK /\ Freeup => TypeOK'
    <1> SUFFICES ASSUME TypeOK, Freeup PROVE TypeOK' OBVIOUS
    <1>0. ch \in Chans
        BY DEF TypeOK, HandlerTypeOK, Freeup, At, Chans
    <1>1. HandlerTypeOK'
      <2>1. CASE Return
        BY <2>1, ReturnType
      <2>2. CASE GoOn("freeup", 1) \/ GoOn("playback", 0)
        BY <2>2 DEF TypeOK, HandlerTypeOK, GoOn, Go, locals
      <2> QED BY <2>1, <2>2 DEF Freeup, FreeupDone
    <1>2. FlagsTypeOK'
        BY DEF TypeOK, FlagsTypeOK, Freeup, FreeupDone, GoOn, locals, Return, user, wait
    <1>3. PageTypeOK'
      <2>1. lastType' \in [Chans -> {"none", "Playback", "Capture"}]
        BY DEF TypeOK, PageTypeOK, Freeup
      <2>2. inuse' \in [Page -> BOOLEAN]
        BY DEF TypeOK, PageTypeOK, Freeup, ReleasePage
      <2> QED BY <2>1, <2>2 DEF TypeOK, PageTypeOK, Freeup
    <1>4. ListTypeOK'
      <2>1. Push(lastPage[ch]) => ListTypeOK'
        BY <1>0, PushType DEF TypeOK, PageTypeOK
      <2> QED BY <2>1, TypeKept DEF TypeOK, Freeup
    <1> QED BY <1>1, <1>2, <1>3, <1>4, TypeKept DEF TypeOK, Freeup

\* The steps that only decide where the handler goes next.
Decide ==
    \/ PlaybackOff \/ PlaybackDrop \/ BumpCheck
    \/ CaptureOff \/ CaptureDrop \/ FillFails \/ FillDone

LEMMA DecideType == TypeOK /\ Decide => TypeOK'
    <1> SUFFICES ASSUME TypeOK, Decide PROVE TypeOK' OBVIOUS
    <1>1. UNCHANGED <<list, inuse, chan, last, config, running, pace, user>>
        BY DEF Decide, PlaybackOff, PlaybackDrop, BumpCheck, CaptureOff, CaptureDrop,
               FillFails, FillDone
    <1>2. outcome' \in {outcome, "dropped", "lost", "captured"}
        BY DEF Decide, PlaybackOff, PlaybackDrop, BumpCheck, CaptureOff, CaptureDrop,
               FillFails, FillDone, Drop
    <1>3. ClientTypeOK'
        BY <1>1, <1>2 DEF TypeOK, ClientTypeOK, user, wait
    <1>4. \/ Return
          \/ \E s \in {"capture", "load"} : GoOn(s, 0)
          \/ step = "bump" /\ GoOn("bumpPop", 0)
        BY DEF At, Decide, PlaybackOff, PlaybackDrop, BumpCheck, CaptureOff, CaptureDrop,
               FillFails, FillDone
    <1>5. HandlerTypeOK'
      <2>1. ASSUME NEW s \in {"capture", "load"}, GoOn(s, 0)
            PROVE  HandlerTypeOK'
        BY <2>1 DEF TypeOK, HandlerTypeOK, GoOn, Go, locals
      <2>2. CASE step = "bump" /\ GoOn("bumpPop", 0)
        BY <2>2 DEF TypeOK, HandlerTypeOK, GoOn, Go, locals
      <2> QED BY <1>4, <2>1, <2>2, ReturnType
    <1>6. FlagsTypeOK'
      <2>1. srun' \in BOOLEAN
        BY <1>4, ReturnType DEF TypeOK, FlagsTypeOK, GoOn, locals
      <2> QED BY <1>1, <2>1 DEF TypeOK, FlagsTypeOK, user, wait
    <1> QED BY <1>1, <1>3, <1>5, <1>6, TypeKept DEF TypeOK

LEMMA PlaybackSpeedType == TypeOK /\ PlaybackSpeed => TypeOK'
    <1> SUFFICES ASSUME TypeOK, PlaybackSpeed PROVE TypeOK' OBVIOUS
    <1>1. Frames \in Nat /\ spdct' \in 0 .. Divisor - 1
        BY SpeedCountBounds DEF TypeOK, PlaybackSpeed, SpeedCount
    <1>2. StreamTypeOK'
        BY <1>1 DEF TypeOK, StreamTypeOK, PlaybackSpeed, config
    <1>3. HandlerTypeOK'
      <2>1. CASE GoOn("capture", 0)
        BY <2>1 DEF TypeOK, HandlerTypeOK, GoOn, Go, locals
      <2>2. CASE Frames > 0 /\ ~GoOn("capture", 0)
        BY <1>1, <2>2 DEF TypeOK, HandlerTypeOK, StreamTypeOK, PlaybackSpeed, Go
      <2> QED BY <2>1, <2>2 DEF PlaybackSpeed
    <1>4. ClientTypeOK'
        BY DEF TypeOK, ClientTypeOK, PlaybackSpeed, user, wait
    <1>5. FlagsTypeOK'
        BY DEF TypeOK, FlagsTypeOK, PlaybackSpeed, GoOn, locals, user, wait
    <1> QED BY <1>2, <1>3, <1>4, <1>5, TypeKept DEF TypeOK, PlaybackSpeed

LEMMA BumpPopType == TypeOK /\ BumpPop => TypeOK'
    <1> SUFFICES ASSUME TypeOK, BumpPop PROVE TypeOK' OBVIOUS
    <1>1. ListTypeOK'
        BY PopType DEF TypeOK, BumpPop
    <1>2. HandlerTypeOK'
      <2>1. CASE GoOn("capture", 0)
        BY <2>1 DEF TypeOK, HandlerTypeOK, GoOn, Go, locals
      <2>2. CASE ch + 1 < hchans /\ GoOn("bumpPop", ch + 1)
        BY <2>2 DEF BumpPop, At, TypeOK, HandlerTypeOK, GoOn, Go, locals
      <2>3. CASE Go(IF bumps > 1 THEN "bump" ELSE "load", 0) /\ bumps' = bumps - 1
                 /\ UNCHANGED <<hchans, srun, newp>>
        <3>1. bumps \in Nat \ {0}
            BY DEF TypeOK, HandlerTypeOK, BumpPop, At
        <3> QED BY <2>3, <3>1 DEF TypeOK, HandlerTypeOK, Go
      <2> QED BY <2>1, <2>2, <2>3 DEF BumpPop
    <1>3. ClientTypeOK'
        BY DEF TypeOK, ClientTypeOK, BumpPop, user, wait
    <1>4. FlagsTypeOK'
        BY DEF TypeOK, FlagsTypeOK, BumpPop, GoOn, locals, user, wait
    <1> QED BY <1>1, <1>2, <1>3, <1>4, TypeKept DEF TypeOK, BumpPop

\* The chosen channel of LoadFrame and FillFrame is one of the two.
LEMMA NextChannel ==
    ASSUME HandlerTypeOK, ch < hchans
    PROVE  ch \in Chans /\ ch + 1 \in 0 .. 2
    BY DEF HandlerTypeOK, Chans

LEMMA LoadFrameType == TypeOK /\ LoadFrame => TypeOK'
    <1> SUFFICES ASSUME TypeOK, LoadFrame PROVE TypeOK' OBVIOUS
    <1>1. ListTypeOK'
        BY PopType DEF TypeOK, LoadFrame
    <1>2. CASE pfirst # NULL /\ RightChannel
      <2>1. pfirst \in Page
        BY <1>2 DEF TypeOK, ListTypeOK
      <2>2. HandlerTypeOK'
        BY <1>2, <2>1, NextChannel DEF TypeOK, HandlerTypeOK, LoadFrame, Go
      <2>3. PageTypeOK'
        BY <1>2, <2>1, NextChannel DEF TypeOK, PageTypeOK, LoadFrame
      <2>4. ClientTypeOK'
        BY <1>2 DEF TypeOK, ClientTypeOK, LoadFrame, user, wait
      <2>5. FlagsTypeOK'
        BY <1>2 DEF TypeOK, FlagsTypeOK, LoadFrame, user, wait
      <2> QED BY <1>1, <2>2, <2>3, <2>4, <2>5, TypeKept DEF TypeOK, LoadFrame
    <1>3. CASE ~(pfirst # NULL /\ RightChannel)
      <2>1. GoOn("capture", 0) /\ outcome' = "lost" /\ UNCHANGED last
        BY <1>3 DEF LoadFrame
      <2>2. HandlerTypeOK'
        BY <2>1 DEF TypeOK, HandlerTypeOK, GoOn, Go, locals
      <2>3. ClientTypeOK'
        BY <2>1 DEF TypeOK, ClientTypeOK, LoadFrame, user, wait
      <2>4. FlagsTypeOK'
        BY <2>1 DEF TypeOK, FlagsTypeOK, LoadFrame, GoOn, locals, user, wait
      <2> QED BY <1>1, <2>1, <2>2, <2>3, <2>4, TypeKept DEF TypeOK, LoadFrame
    <1> QED BY <1>2, <1>3

LEMMA LoadDoneType == TypeOK /\ LoadDone => TypeOK'
    <1> SUFFICES ASSUME TypeOK, LoadDone PROVE TypeOK' OBVIOUS
    <1>1. PageTypeOK'
        BY DEF TypeOK, PageTypeOK, HandlerTypeOK, LoadDone, last, Chans
    <1>2. HandlerTypeOK'
        BY DEF TypeOK, HandlerTypeOK, LoadDone, GoOn, Go, locals
    <1>3. ClientTypeOK'
        BY DEF TypeOK, ClientTypeOK, LoadDone, user, wait
    <1>4. FlagsTypeOK'
        BY DEF TypeOK, FlagsTypeOK, LoadDone, GoOn, locals, user, wait
    <1> QED BY <1>1, <1>2, <1>3, <1>4, TypeKept DEF TypeOK, LoadDone

LEMMA CaptureSpeedType == TypeOK /\ CaptureSpeed => TypeOK'
    <1> SUFFICES ASSUME TypeOK, CaptureSpeed PROVE TypeOK' OBVIOUS
    <1>1. Frames \in Nat /\ spdct' \in 0 .. Divisor - 1
        BY SpeedCountBounds DEF TypeOK, CaptureSpeed, SpeedCount
    <1>2. StreamTypeOK'
        BY <1>1 DEF TypeOK, StreamTypeOK, CaptureSpeed, config
    <1>3. HandlerTypeOK'
        BY DEF TypeOK, HandlerTypeOK, StreamTypeOK, CaptureSpeed, Go
    <1>4. FlagsTypeOK'
        BY DEF TypeOK, FlagsTypeOK, CaptureSpeed, user, wait
    <1> QED BY <1>2, <1>3, <1>4, TypeKept DEF TypeOK, CaptureSpeed

LEMMA FillFrameType == TypeOK /\ FillFrame => TypeOK'
    <1> SUFFICES ASSUME TypeOK, FillFrame PROVE TypeOK' OBVIOUS
    <1>0. ch \in Chans /\ ch + 1 \in 0 .. 2
        BY NextChannel DEF TypeOK, FillFrame
    <1>1. PICK p \in Page :
              /\ TakePage(p)
              /\ lastType' = [lastType EXCEPT ![ch] = "Capture"]
              /\ lastPage' = [lastPage EXCEPT ![ch] = p]
              /\ chan' = [chan EXCEPT ![p] = ch]
        BY DEF FillFrame
    <1>2. ListTypeOK' /\ inuse' \in [Page -> BOOLEAN]
        BY <1>1, TakeType DEF TypeOK
    <1>3. PageTypeOK'
        BY <1>0, <1>1, <1>2 DEF TypeOK, PageTypeOK
    <1>4. HandlerTypeOK'
        BY <1>0 DEF TypeOK, HandlerTypeOK, FillFrame, GoOn, Go, locals
    <1>5. FlagsTypeOK'
        BY DEF TypeOK, FlagsTypeOK, FillFrame, GoOn, locals, user, wait
    <1> QED BY <1>2, <1>3, <1>4, <1>5, TypeKept DEF TypeOK, FillFrame

LEMMA InitClearType ==
    ASSUME TypeOK, NEW s \in Setups, InitClear(s)
    PROVE  TypeOK'
    <1>1. ListTypeOK'
        BY EmptySeq DEF InitClear, ListTypeOK
    <1>2. PageTypeOK'
        BY PageZero DEF InitClear, TypeOK, PageTypeOK
    <1>3. StreamTypeOK'
        BY PagesAssumption, SpeedAssumption DEF InitClear, TypeOK, StreamTypeOK
    <1>4. ClientTypeOK'
        BY DEF InitClear, TypeOK, ClientTypeOK, Chans
    <1>5. FlagsTypeOK'
        BY DEF InitClear, TypeOK, FlagsTypeOK, irq, locals
    <1>6. HandlerTypeOK'
        BY TypeKept DEF InitClear, TypeOK
    <1> QED BY <1>1, <1>2, <1>3, <1>4, <1>5, <1>6 DEF TypeOK

LEMMA InitConfigureType == TypeOK /\ InitConfigure => TypeOK'
    <1> SUFFICES ASSUME TypeOK, InitConfigure PROVE TypeOK' OBVIOUS
    <1>1. req \in Setup
      <2>1. NoSetup \in Setup
        BY PagesAssumption DEF NoSetup, Setup, Modes
      <2> QED BY <2>1, SetupAssumption DEF TypeOK, ClientTypeOK
    <1>2. StreamTypeOK'
        BY <1>1 DEF TypeOK, StreamTypeOK, InitConfigure, Setup, pace
    <1>3. ClientTypeOK'
        BY DEF TypeOK, ClientTypeOK, InitConfigure, ReturnToUser
    <1>4. FlagsTypeOK'
        BY DEF TypeOK, FlagsTypeOK, InitConfigure, ReturnToUser, irq, locals
    <1> QED BY <1>2, <1>3, <1>4, TypeKept DEF TypeOK, InitConfigure

\* The calls that start, stop and pace the stream.
Control ==
    \/ StreamStart \/ StreamStop \/ FrameSeen \/ WaitFails
    \/ \E s \in SpeedRequests : SetSpeed(s)

LEMMA ControlType == TypeOK /\ Control => TypeOK'
    <1> SUFFICES ASSUME TypeOK, Control PROVE TypeOK' OBVIOUS
    <1> USE DEF Control, StreamStart, StreamStop, FrameSeen, WaitFails, SetSpeed
    <1>1. UNCHANGED <<inuse, list, last, config, chan, irq, held, turn, outcome>>
        BY DEF user
    <1>2. ClientTypeOK'
        BY <1>1 DEF TypeOK, ClientTypeOK, WaitForFrame, ReturnToUser, user, wait
    <1>3. FlagsTypeOK'
        BY <1>1 DEF TypeOK, FlagsTypeOK, WaitForFrame, ReturnToUser, user, wait, irq, locals
    <1>4. StreamTypeOK'
      <2>1. \A s \in SpeedRequests : Clamp(s) \in 0 .. MaxSpeed
        BY SpeedAssumption DEF Clamp
      <2>2. spdct' \in {spdct, 0} /\ (speed' \in 0 .. MaxSpeed \/ speed' \in {speed, Divisor})
        BY <2>1 DEF pace
      <2> QED BY <1>1, <2>2, SpeedAssumption DEF TypeOK, StreamTypeOK, config
    <1> QED BY <1>1, <1>2, <1>3, <1>4, TypeKept DEF TypeOK

\* The calls on pages.
PageCall(p) ==
    \/ PageAlloc(p) \/ PageFree(p) \/ FifoPush(p)
    \/ \E c \in Chans : SetMeta(p, c)

LEMMA PageCallType ==
    ASSUME TypeOK, NEW p \in Page, PageCall(p)
    PROVE  TypeOK'
    <1> USE DEF PageCall, PageAlloc, PageFree, FifoPush, SetMeta
    <1>1. UNCHANGED <<last, config, running, pace, irq, wait, outcome>>
        BY DEF user
    <1>2. ListTypeOK'
        BY TakeType, PushType, TypeKept DEF TypeOK
    <1>3. inuse' \in [Page -> BOOLEAN]
      <2>1. CASE \E q \in Page : TakePage(q)
        BY <2>1, TakeType DEF TypeOK
      <2>2. CASE ReleasePage(p)
        BY <2>2 DEF ReleasePage, TypeOK, PageTypeOK
      <2>3. CASE UNCHANGED inuse
        BY <2>3 DEF TypeOK, PageTypeOK
      <2> QED BY <2>1, <2>2, <2>3
    <1>4. chan' \in [Page -> Chans]
        BY DEF TypeOK, PageTypeOK
    <1>5. PageTypeOK'
        BY <1>1, <1>3, <1>4 DEF TypeOK, PageTypeOK, last
    <1>6. turn' \in Chans
      <2>1. turn' \in {turn, NextTurn}
        BY DEF user
      <2>2. NextTurn \in Chans
        BY DEF NextTurn, TypeOK, ClientTypeOK, StreamTypeOK, Chans
      <2> QED BY <2>1, <2>2 DEF TypeOK, ClientTypeOK
    <1>7. held' \in SUBSET Page
        BY DEF TypeOK, ClientTypeOK, user
    <1>8. ClientTypeOK'
        BY <1>1, <1>6, <1>7 DEF TypeOK, ClientTypeOK, wait
    <1>9. FlagsTypeOK'
        BY <1>1 DEF TypeOK, FlagsTypeOK, irq, locals, wait
    <1> QED BY <1>1, <1>2, <1>5, <1>8, <1>9, TypeKept DEF TypeOK

LEMMA FifoPopType == TypeOK /\ FifoPop => TypeOK'
    <1> SUFFICES ASSUME TypeOK, FifoPop PROVE TypeOK' OBVIOUS
    <1>1. ListTypeOK'
        BY PopType DEF TypeOK, FifoPop
    <1>2. held' \in SUBSET Page
        BY DEF TypeOK, ListTypeOK, ClientTypeOK, FifoPop
    <1>3. ClientTypeOK'
        BY <1>2 DEF TypeOK, ClientTypeOK, FifoPop, wait
    <1>4. FlagsTypeOK'
        BY DEF TypeOK, FlagsTypeOK, FifoPop, irq, locals, wait
    <1> QED BY <1>1, <1>3, <1>4, TypeKept DEF TypeOK, FifoPop

LEMMA StutterType == TypeOK /\ UNCHANGED vars => TypeOK'
    <1> SUFFICES ASSUME TypeOK, UNCHANGED vars PROVE TypeOK' OBVIOUS
    <1>1. UNCHANGED <<running, srun, woken>>
        BY DEF vars, irq, locals, user, wait
    <1> QED BY <1>1, TypeKept DEF TypeOK, vars

LEMMA NextType == TypeOK /\ [Next]_vars => TypeOK'
    <1> SUFFICES ASSUME TypeOK, [Next]_vars PROVE TypeOK' OBVIOUS
    <1>1. CASE FrameIrq BY <1>1, FrameIrqType
    <1>2. CASE Freeup BY <1>2, FreeupType
    <1>3. CASE Decide BY <1>3, DecideType
    <1>4. CASE PlaybackSpeed BY <1>4, PlaybackSpeedType
    <1>5. CASE BumpPop BY <1>5, BumpPopType
    <1>6. CASE LoadFrame BY <1>6, LoadFrameType
    <1>7. CASE LoadDone BY <1>7, LoadDoneType
    <1>8. CASE CaptureSpeed BY <1>8, CaptureSpeedType
    <1>9. CASE FillFrame BY <1>9, FillFrameType
    <1>10. CASE \E s \in Setups : InitClear(s) BY <1>10, InitClearType
    <1>11. CASE InitConfigure BY <1>11, InitConfigureType
    <1>12. CASE Control BY <1>12, ControlType
    <1>13. CASE \E p \in Page : PageCall(p) BY <1>13, PageCallType
    <1>14. CASE FifoPop BY <1>14, FifoPopType
    <1>15. CASE UNCHANGED vars BY <1>15, StutterType
    <1> QED
        BY <1>1, <1>2, <1>3, <1>4, <1>5, <1>6, <1>7, <1>8, <1>9, <1>10, <1>11, <1>12,
           <1>13, <1>14, <1>15
        DEF Next, Handler, Client, Decide, Control, PageCall

\* The stream structure, the handler and the client stay well typed, whatever
\* the client does: pointers are null or point into the page table, channels
\* index last[], and the speed counter holds less than one frame.
THEOREM TypeCorrect == Spec => []TypeOK
    <1> QED BY InitTypeOK, NextType, PTL DEF Spec

-----------------------------------------------------------------------------
(* What holds for every client *)

LEMMA PaceFromType == TypeOK => PaceBounded
    <1> SUFFICES ASSUME TypeOK PROVE PaceBounded OBVIOUS
    <1>1. Frames \in Nat /\ Frames * Divisor <= spdct + speed
        BY SpeedCountBounds DEF TypeOK
    <1>2. spdct + speed < MaxSpeed + 2 * Divisor /\ spdct + speed \in Nat
        BY SpeedAssumption DEF TypeOK, StreamTypeOK
    <1>3. Frames * Divisor \in Int
        BY <1>1, SpeedAssumption
    <1>4. Frames * Divisor < MaxSpeed + 2 * Divisor
      <2> DEFINE total == Frames * Divisor
      <2>1. total \in Int /\ total <= spdct + speed
        BY <1>1, <1>3
      <2> HIDE DEF total
      <2>2. total < MaxSpeed + 2 * Divisor
        BY <1>2, <2>1, SpeedAssumption
      <2> QED BY <2>2 DEF total
    <1> QED BY <1>4 DEF PaceBounded, TypeOK, StreamTypeOK

\* The speed counter stays below one frame and no interval is worth more than
\* max_play_speed allows, whatever speeds are asked for and however the
\* requests and the frames interleave.
THEOREM PaceAlwaysBounded == Spec => []PaceBounded
    <1> QED BY TypeCorrect, PaceFromType, PTL

LEMMA PushEnds ==
    ASSUME EndsAgree, NEW p \in Page, Push(p)
    PROVE  EndsAgree'
    BY NullIsNoPage DEF EndsAgree, Push

LEMMA PopEnds ==
    ASSUME EndsAgree, Pop
    PROVE  EndsAgree'
    <1>1. CASE pfirst = NULL
        BY <1>1 DEF EndsAgree, Pop
    <1>2. CASE pfirst # NULL
        BY <1>2 DEF EndsAgree, Pop, Unlink
    <1> QED BY <1>1, <1>2

LEMMA NextEnds == TypeOK /\ EndsAgree /\ [Next]_vars => EndsAgree'
    <1> SUFFICES ASSUME TypeOK, EndsAgree, [Next]_vars PROVE EndsAgree' OBVIOUS
    <1>1. CASE UNCHANGED list
        BY <1>1 DEF EndsAgree, list
    <1>2. CASE \E p \in Page : Push(p)
        BY <1>2, PushEnds
    <1>3. CASE Pop
        BY <1>3, PopEnds
    <1>4. CASE \E p \in Page : TakePage(p)
        BY <1>4 DEF EndsAgree, TakePage
    <1>5. CASE \E s \in Setups : InitClear(s)
        BY <1>5 DEF EndsAgree, InitClear
    <1>6. Freeup => UNCHANGED list \/ \E p \in Page : Push(p)
      <2>1. Freeup => ch \in Chans
        BY DEF TypeOK, HandlerTypeOK, Freeup, At, Chans
      <2> QED BY <2>1 DEF Freeup, TypeOK, PageTypeOK
    <1>7. Handler => \/ UNCHANGED list \/ Pop \/ \E p \in Page : Push(p) \/ TakePage(p)
        BY <1>6
        DEF Handler, PlaybackOff, PlaybackDrop, PlaybackSpeed, BumpCheck, BumpPop,
            LoadFrame, LoadDone, CaptureOff, CaptureDrop, CaptureSpeed, FillFrame,
            FillFails, FillDone
    <1>8. Client => \/ UNCHANGED list \/ Pop \/ \E p \in Page : Push(p) \/ TakePage(p)
                    \/ \E s \in Setups : InitClear(s)
        BY DEF Client, InitConfigure, StreamStart, StreamStop, FrameSeen, WaitFails,
               SetSpeed, PageAlloc, PageFree, FifoPush, SetMeta, FifoPop
    <1> QED BY <1>1, <1>2, <1>3, <1>4, <1>5, <1>7, <1>8 DEF Next, FrameIrq, vars

\* The list never has a head without a tail: neither fifo_push nor fifo_pop
\* can follow a null pointer, whatever pages the client frees or queues.
THEOREM EndsAlwaysAgree == Spec => []EndsAgree
    <1>1. Init => EndsAgree
        BY DEF Init, EndsAgree
    <1> QED BY <1>1, TypeCorrect, NextEnds, PTL DEF Spec

-----------------------------------------------------------------------------
(* The queue and the places of the pages, for a client that frees and queues *)
(* only pages it holds and initialises only a stream that is at rest.        *)

QueueOK == ListIsQueue /\ NoTwice

\* The links of a queued page.
LEMMA Links ==
    ASSUME ListIsQueue, NEW i \in 1 .. Len(fq)
    PROVE  /\ next[fq[i]] = IF i = Len(fq) THEN NULL ELSE fq[i + 1]
           /\ prev[fq[i]] = IF i = 1 THEN NULL ELSE fq[i - 1]
    BY DEF ListIsQueue

\* A queue that is not empty has a length, a head and a tail.
LEMMA NonEmptyQueue ==
    ASSUME ListTypeOK, ListIsQueue, fq # <<>>
    PROVE  /\ Len(fq) \in Nat \ {0}
           /\ pfirst = fq[1] /\ plast = fq[Len(fq)]
           /\ pfirst \in Page /\ plast \in Page
    <1>1. Len(fq) \in Nat \ {0} /\ fq \in [1 .. Len(fq) -> Page]
        BY EmptySeq, LenProperties DEF ListTypeOK
    <1>2. pfirst = fq[1] /\ plast = fq[Len(fq)]
        BY DEF ListIsQueue
    <1> QED BY <1>1, <1>2

\* fifo_push of a page that is not in the queue.
LEMMA PushQueue ==
    ASSUME ListTypeOK, QueueOK, NEW p \in Page, p \notin Queued, Push(p)
    PROVE  QueueOK' /\ Queued' = Queued \cup {p}
    <1> DEFINE n == Len(fq)
    <1>0. n \in Nat /\ fq \in [1 .. n -> Page] /\ fq' = Append(fq, p)
        BY DEF ListTypeOK, Push
    <1>1. /\ Len(fq') = n + 1
          /\ \A i \in 1 .. n : fq'[i] = fq[i]
          /\ fq'[n + 1] = p
        BY <1>0, AppendProperties DEF ListTypeOK
    <1>2. \A i \in 1 .. n : fq[i] # p /\ fq[i] \in Page
        BY <1>0 DEF Queued
    <1> HIDE DEF n
    <1>3. NoTwice'
        BY <1>0, <1>1, <1>2 DEF QueueOK, NoTwice, n
    <1>4. Queued' = Queued \cup {p}
      <2>1. DOMAIN fq = 1 .. n /\ DOMAIN fq' = 1 .. n + 1
        BY <1>0, <1>1 DEF ListTypeOK, n
      <2> QED BY <1>0, <1>1, <2>1 DEF Queued
    <1>5. CASE fq = <<>>
      <2>1. n = 0 /\ plast = NULL
        BY <1>5 DEF n, QueueOK, ListIsQueue
      <2>2. pfirst' = p /\ plast' = p /\ next'[p] = NULL /\ prev'[p] = NULL
        BY <2>1 DEF Push, ListTypeOK
      <2> QED BY <1>0, <1>1, <1>3, <1>4, <2>1, <2>2 DEF QueueOK, ListIsQueue
    <1>6. CASE fq # <<>>
      <2>1. n \in Nat \ {0} /\ plast = fq[n] /\ plast \in Page /\ plast # p
        BY <1>2, <1>6, NonEmptyQueue DEF n, QueueOK
      <2>2. /\ pfirst' = pfirst /\ plast' = p
            /\ next'[p] = NULL /\ next'[plast] = p
            /\ prev'[p] = plast
            /\ \A q \in Page \ {p, plast} : next'[q] = next[q]
            /\ \A q \in Page \ {p} : prev'[q] = prev[q]
        BY <2>1, NullIsNoPage DEF Push, ListTypeOK
      <2>3. \A i \in 1 .. n : fq[i] = plast => i = n
        BY <2>1 DEF QueueOK, NoTwice, n
      <2>4. \A i \in 1 .. n + 1 :
              /\ next'[fq'[i]] = IF i = n + 1 THEN NULL ELSE fq'[i + 1]
              /\ prev'[fq'[i]] = IF i = 1 THEN NULL ELSE fq'[i - 1]
        <3> TAKE i \in 1 .. n + 1
        <3>1. CASE i = n + 1
            BY <1>1, <2>1, <2>2, <3>1
        <3>2. CASE i = n
            <4>1. prev[fq[n]] = IF n = 1 THEN NULL ELSE fq[n - 1]
                <5>1. Len(fq) \in 1 .. Len(fq)
                    BY <2>1 DEF n
                <5> QED BY <5>1, Links DEF QueueOK, n
            <4> QED BY <1>1, <1>2, <2>1, <2>2, <3>2, <4>1
        <3>3. CASE i < n
            <4>1. /\ next[fq[i]] = fq[i + 1]
                  /\ prev[fq[i]] = IF i = 1 THEN NULL ELSE fq[i - 1]
                BY <2>1, <3>3 DEF QueueOK, ListIsQueue, n
            <4>2. fq[i] \in Page \ {p, plast}
                BY <1>2, <2>1, <2>3, <3>3
            <4> QED BY <1>1, <2>1, <2>2, <3>3, <4>1, <4>2
        <3> QED BY <2>1, <3>1, <3>2, <3>3
      <2>5. fq' # <<>> /\ fq'[1] = fq[1]
        BY <1>1, <2>1 
      <2>6. ListIsQueue'
        BY <1>1, <1>6, <2>1, <2>2, <2>4, <2>5 DEF QueueOK, ListIsQueue
      <2> QED BY <1>3, <1>4, <2>6 DEF QueueOK
    <1> QED BY <1>5, <1>6

\* fifo_pop takes the head of the queue, or nothing from an empty one.
LEMMA PopTail ==
    ASSUME ListTypeOK, QueueOK, Pop
    PROVE  /\ pfirst = NULL => fq = <<>> /\ fq' = fq
           /\ pfirst # NULL => fq # <<>> /\ pfirst = fq[1] /\ fq' = Tail(fq)
    <1>1. CASE pfirst = NULL
      <2>1. fq # <<>> => pfirst \in Page
          BY NonEmptyQueue DEF QueueOK
      <2> QED BY <1>1, <2>1, NullIsNoPage DEF Pop
    <1>2. CASE pfirst # NULL
      <2> DEFINE n == Len(fq)
      <2>1. fq # <<>> /\ pfirst = fq[1] /\ n \in Nat \ {0} /\ pfirst \in Page
        <3>1. fq # <<>>
            BY <1>2 DEF QueueOK, ListIsQueue
        <3> QED BY <3>1, NonEmptyQueue DEF QueueOK
      <2>0. fq \in [1 .. n -> Page] /\ n >= 1
          BY <2>1 DEF ListTypeOK
      <2>2. next[pfirst] = IF n = 1 THEN NULL ELSE fq[2]
          BY <2>0, <2>1 DEF QueueOK, ListIsQueue
      <2>3. Tail(fq) \in Seq(Page) /\ Len(Tail(fq)) = n - 1
          BY <2>1, HeadTailProperties DEF ListTypeOK
      <2>4. CASE n = 1
        <3>1. fq' = <<>>
            BY <1>2, <2>2, <2>4 DEF Pop, Unlink
        <3>2. Tail(fq) = <<>>
          <4>1. Tail(fq) # <<>> => Len(Tail(fq)) \in Nat \ {0}
              BY <2>3, EmptySeq
          <4> QED BY <2>3, <2>4, <4>1
        <3> QED BY <1>2, <2>1, <3>1, <3>2
      <2>5. CASE n # 1
        <3>1. fq[2] \in Page
            BY <2>0, <2>1, <2>5
        <3>2. next[pfirst] # NULL
            BY <2>2, <2>5, <3>1, NullIsNoPage
        <3> QED BY <1>2, <2>1, <3>2 DEF Pop, Unlink
      <2> QED BY <2>4, <2>5
    <1> QED BY <1>1, <1>2

\* fifo_pop: the head goes, or the list is empty.
LEMMA PopQueue ==
    ASSUME ListTypeOK, QueueOK, Pop
    PROVE  /\ QueueOK'
           /\ pfirst = NULL => Queued' = Queued
           /\ pfirst # NULL => pfirst \in Queued /\ Queued' = Queued \ {pfirst}
    <1> DEFINE n == Len(fq)
    <1>0. n \in Nat /\ fq \in [1 .. n -> Page] /\ DOMAIN fq = 1 .. n
        BY DEF ListTypeOK
    <1>1. CASE pfirst = NULL
        BY <1>1 DEF Pop, QueueOK, ListIsQueue, NoTwice, Queued
    <1>2. CASE pfirst # NULL
      <2>1. fq # <<>> /\ pfirst = fq[1] /\ n >= 1 /\ pfirst \in Page
        <3>1. fq # <<>>
            BY <1>2 DEF QueueOK, ListIsQueue
        <3> QED BY <3>1, NonEmptyQueue DEF QueueOK
      <2>2. next[pfirst] = IF n = 1 THEN NULL ELSE fq[2]
        BY <2>1, <1>0 DEF QueueOK, ListIsQueue
      <2>3. /\ Tail(fq) \in Seq(Page) /\ Len(Tail(fq)) = n - 1
            /\ \A i \in 1 .. n - 1 : Tail(fq)[i] = fq[i + 1]
        BY <2>1, HeadTailProperties DEF ListTypeOK
      <2>4. n # 1 => fq[2] \in Page
        BY <1>0, <2>1
      <2>5. fq' = Tail(fq)
        BY <1>2, PopTail
      <2> HIDE DEF n
      <2>6. /\ Len(fq') = n - 1
            /\ \A i \in 1 .. n - 1 : fq'[i] = fq[i + 1]
            /\ DOMAIN fq' = 1 .. n - 1
        BY <2>3, <2>5
      <2>7. NoTwice'
        BY <1>0, <2>1, <2>6 DEF QueueOK, NoTwice, n
      <2>8. pfirst \in Queued /\ Queued' = Queued \ {pfirst}
        <3>1. \A i \in 1 .. n : fq[i] = pfirst => i = 1
            BY <1>0, <2>1 DEF QueueOK, NoTwice, n
        <3>2. \A x \in Queued' : x \in Queued /\ x # pfirst
            BY <1>0, <2>1, <2>6, <3>1 DEF Queued
        <3>3. \A x \in Queued \ {pfirst} : x \in Queued'
            <4> TAKE x \in Queued \ {pfirst}
            <4>1. PICK i \in 1 .. n : x = fq[i]
                BY <1>0 DEF Queued
            <4>2. i # 1 /\ i - 1 \in 1 .. n - 1
                BY <1>0, <2>1, <4>1
            <4> QED BY <1>0, <2>6, <4>1, <4>2 DEF Queued
        <3>4. pfirst \in Queued
            <4>1. 1 \in DOMAIN fq
                BY <1>0, <2>1
            <4> QED BY <2>1, <4>1 DEF Queued
        <3> QED BY <3>2, <3>3, <3>4
      <2>9. ListIsQueue'
        <3>1. CASE n = 1
            <4>1. pfirst' = NULL /\ plast' = NULL /\ fq' = <<>>
                BY <1>2, <2>1, <2>2, <2>5, <2>3, <3>1, EmptySeq DEF Pop, Unlink
            <4> QED BY <4>1 DEF ListIsQueue
        <3>2. CASE n # 1
            <4>1. /\ pfirst' = fq[2] /\ plast' = plast /\ next' = next
                  /\ prev' = [prev EXCEPT ![fq[2]] = NULL]
                BY <1>2, <2>2, <2>4, <3>2, NullIsNoPage DEF Pop, Unlink
            <4>2. n - 1 >= 1 /\ fq' # <<>>
                BY <1>0, <2>1, <2>6, <3>2
            <4>3. pfirst' = fq'[1] /\ plast' = fq'[Len(fq')]
              <5>1. plast = fq[n]
                BY <2>1 DEF QueueOK, ListIsQueue, n
              <5> QED BY <1>0, <2>6, <4>1, <4>2, <5>1
            <4>4. \A i \in 1 .. n - 1 :
                    /\ next'[fq'[i]] = IF i = n - 1 THEN NULL ELSE fq'[i + 1]
                    /\ prev'[fq'[i]] = IF i = 1 THEN NULL ELSE fq'[i - 1]
              <5> TAKE i \in 1 .. n - 1
              <5>1. fq'[i] = fq[i + 1] /\ fq[i + 1] \in Page
                BY <1>0, <2>6
              <5>2. /\ next[fq[i + 1]] = IF i + 1 = n THEN NULL ELSE fq[i + 2]
                    /\ prev[fq[i + 1]] = fq[i]
                <6>1. i \in Nat /\ i + 1 \in 1 .. n /\ i + 1 # 1 /\ (i + 1) - 1 = i
                      /\ (i + 1) + 1 = i + 2
                    BY <1>0, <4>2
                <6> QED BY <6>1, Links DEF QueueOK, n
              <5>3. i # 1 => fq[i + 1] # fq[2]
                BY <1>0, <4>2 DEF QueueOK, NoTwice, n
              <5>4. prev'[fq[i + 1]] = IF i = 1 THEN NULL ELSE fq[i]
                BY <4>1, <5>1, <5>2, <5>3 DEF ListTypeOK
              <5> QED BY <1>0, <2>6, <4>1, <4>2, <5>1, <5>2, <5>4
            <4> QED BY <2>6, <4>2, <4>3, <4>4 DEF ListIsQueue
        <3> QED BY <3>1, <3>2
      <2> QED BY <1>2, <2>7, <2>8, <2>9 DEF QueueOK
    <1> QED BY <1>1, <1>2

\* page_alloc resets the links of its page, which is not in the queue.
LEMMA TakeQueue ==
    ASSUME ListTypeOK, QueueOK, NEW p \in Page, p \notin Queued, TakePage(p)
    PROVE  QueueOK' /\ Queued' = Queued
    <1>1. UNCHANGED <<pfirst, plast, fq>>
        BY DEF TakePage
    <1>2. \A i \in 1 .. Len(fq) : fq[i] # p
        BY DEF Queued, ListTypeOK
    <1>3. \A i \in 1 .. Len(fq) : next'[fq[i]] = next[fq[i]] /\ prev'[fq[i]] = prev[fq[i]]
        BY <1>2 DEF TakePage, ListTypeOK
    <1> QED BY <1>1, <1>3 DEF QueueOK, ListIsQueue, NoTwice, Queued

\* A channel gets a page, a channel is done with its page.
LEMMA CardTakes ==
    ASSUME PageTypeOK, NEW c \in Chans, NEW p \in Page, NEW t \in {"Playback", "Capture"},
           lastType' = [lastType EXCEPT ![c] = t],
           lastPage' = [lastPage EXCEPT ![c] = p],
           c \notin Busy
    PROVE  Busy' = Busy \cup {c} /\ OnCard' = OnCard \cup {p}
    <1>1. Busy' = Busy \cup {c}
        BY DEF PageTypeOK, Busy
    <1>2. lastPage'[c] = p /\ \A d \in Busy : lastPage'[d] = lastPage[d]
        BY DEF PageTypeOK, Busy
    <1> QED BY <1>1, <1>2 DEF OnCard

LEMMA CardGives ==
    ASSUME PageTypeOK, OnePlace, NEW c \in Chans,
           lastType' = [lastType EXCEPT ![c] = "none"], lastPage' = lastPage
    PROVE  /\ Busy' = Busy \ {c}
           /\ c \in Busy => OnCard' = OnCard \ {lastPage[c]} /\ lastPage[c] \in OnCard
           /\ c \notin Busy => OnCard' = OnCard
    <1>1. Busy' = Busy \ {c}
        BY DEF PageTypeOK, Busy
    <1> QED BY <1>1 DEF OnCard, OnePlace

LEMMA CardKept ==
    UNCHANGED last => Busy' = Busy /\ OnCard' = OnCard
    BY DEF last, Busy, OnCard

\* OnePlace in the terms in which the steps change it.
Places(h, q, o, u) ==
    /\ h \cap q = {} /\ h \cap o = {} /\ q \cap o = {}
    /\ \A p \in h \cup q \cup o : u[p]

OneChannel == \A c, d \in Busy : lastPage[c] = lastPage[d] => c = d

LEMMA OnePlaceParts ==
    OnePlace <=> NoTwice /\ OneChannel /\ Places(held, Queued, OnCard, inuse)
    BY DEF OnePlace, OneChannel, Places

Disciplined == "anyPage" \notin Freedoms /\ "anyInit" \notin Freedoms

PlacesInv ==
    /\ Disciplined
    /\ TypeOK
    /\ Phases
    /\ QueueOK
    /\ OnePlace

\* The part that every step has to re-establish; Phases comes separately.
PlacesNow == QueueOK /\ OnePlace

LEMMA PlacesThen ==
    QueueOK' /\ OneChannel' /\ Places(held, Queued, OnCard, inuse)' => PlacesNow'
    BY DEF PlacesNow, QueueOK, OnePlace, OneChannel, Places

LEMMA PlacesKept ==
    ASSUME PlacesInv, UNCHANGED <<list, inuse, last, held>>
    PROVE  PlacesNow'
    <1>1. Queued' = Queued /\ QueueOK'
        BY DEF list, Queued, QueueOK, ListIsQueue, NoTwice, PlacesInv
    <1>2. OneChannel'
        BY CardKept, OnePlaceParts DEF last, OneChannel, PlacesInv
    <1>3. Places(held, Queued, OnCard, inuse)'
        BY <1>1, CardKept, OnePlaceParts DEF PlacesInv, Places
    <1> QED BY <1>1, <1>2, <1>3, PlacesThen

LEMMA FreeupPlaces == PlacesInv /\ Freeup => PlacesNow'
    <1> SUFFICES ASSUME PlacesInv, Freeup PROVE PlacesNow' OBVIOUS
    <1> DEFINE p == lastPage[ch]
    <1>0. ch \in Chans /\ p \in Page
        BY DEF PlacesInv, TypeOK, HandlerTypeOK, PageTypeOK, Freeup, At, Chans
    <1>1. /\ Busy' = Busy \ {ch} /\ lastPage' = lastPage /\ held' = held
          /\ ch \in Busy => OnCard' = OnCard \ {p} /\ p \in OnCard
          /\ ch \notin Busy => OnCard' = OnCard
        BY <1>0, CardGives DEF PlacesInv, TypeOK, Freeup, user
    <1>2. OneChannel'
        BY <1>1, OnePlaceParts DEF PlacesInv, OneChannel
    <1>3. Places(held, Queued, OnCard, inuse) /\ QueueOK /\ NoTwice
        BY OnePlaceParts DEF PlacesInv
    <1>4. CASE lastType[ch] = "none" /\ UNCHANGED <<inuse, list>>
      <2>1. Queued' = Queued /\ QueueOK'
        BY <1>4, <1>3 DEF list, Queued, QueueOK, ListIsQueue, NoTwice
      <2>2. OnCard' = OnCard
        BY <1>1, <1>4 DEF Busy
      <2>3. Places(held, Queued, OnCard, inuse)'
        BY <1>1, <1>3, <1>4, <2>1, <2>2 DEF Places
      <2> QED BY <1>2, <2>1, <2>3, PlacesThen
    <1>5. CASE lastType[ch] = "Playback" /\ ReleasePage(p) /\ UNCHANGED list
      <2>1. Queued' = Queued /\ QueueOK'
        BY <1>5, <1>3 DEF list, Queued, QueueOK, ListIsQueue, NoTwice
      <2>2. OnCard' = OnCard \ {p} /\ p \in OnCard
        BY <1>0, <1>1, <1>5 DEF Busy
      <2>3. \A q \in Page \ {p} : inuse'[q] = inuse[q]
        BY <1>5 DEF ReleasePage, PlacesInv, TypeOK, PageTypeOK
      <2>4. held \cup Queued \cup OnCard \subseteq Page
        BY DEF PlacesInv, TypeOK, PageTypeOK, ClientTypeOK, ListTypeOK, Queued, OnCard, Busy
      <2>5. Places(held, Queued, OnCard, inuse)'
        BY <1>1, <1>3, <2>1, <2>2, <2>3, <2>4 DEF Places
      <2> QED BY <1>2, <2>1, <2>5, PlacesThen
    <1>6. CASE lastType[ch] = "Capture" /\ Push(p) /\ UNCHANGED inuse
      <2>1. OnCard' = OnCard \ {p} /\ p \in OnCard
        BY <1>0, <1>1, <1>6 DEF Busy
      <2>2. p \notin Queued
        BY <1>3, <2>1 DEF Places
      <2>3. QueueOK' /\ Queued' = Queued \cup {p}
        BY <1>0, <1>3, <1>6, <2>2, PushQueue DEF PlacesInv, TypeOK
      <2>4. Places(held, Queued, OnCard, inuse)'
        BY <1>1, <1>3, <1>6, <2>1, <2>3 DEF Places
      <2> QED BY <1>2, <2>3, <2>4, PlacesThen
    <1> QED BY <1>4, <1>5, <1>6 DEF Freeup

LEMMA BumpPopPlaces == PlacesInv /\ BumpPop => PlacesNow'
    <1> SUFFICES ASSUME PlacesInv, BumpPop PROVE PlacesNow' OBVIOUS
    <1>1. UNCHANGED <<inuse, last, held>>
        BY DEF BumpPop, user
    <1>2. QueueOK' /\ Queued' \subseteq Queued
        BY PopQueue DEF PlacesInv, TypeOK, BumpPop
    <1>3. OneChannel' /\ Places(held, Queued, OnCard, inuse)'
        BY <1>1, <1>2, CardKept, OnePlaceParts DEF PlacesInv, OneChannel, Places, last
    <1> QED BY <1>2, <1>3, PlacesThen

LEMMA LoadFramePlaces == PlacesInv /\ LoadFrame => PlacesNow'
    <1> SUFFICES ASSUME PlacesInv, LoadFrame PROVE PlacesNow' OBVIOUS
    <1>0. ch \in Chans
        BY NextChannel DEF PlacesInv, TypeOK, LoadFrame
    <1>1. UNCHANGED <<inuse, held>>
        BY DEF LoadFrame, user
    <1>2. /\ QueueOK' /\ Queued' \subseteq Queued
          /\ pfirst # NULL => pfirst \in Queued /\ Queued' = Queued \ {pfirst}
        BY PopQueue DEF PlacesInv, TypeOK, LoadFrame
    <1>3. OneChannel /\ Places(held, Queued, OnCard, inuse)
        BY OnePlaceParts DEF PlacesInv
    <1>4. CASE pfirst # NULL /\ RightChannel
      <2>1. ch \notin Busy
        BY <1>0 DEF PlacesInv, Phases, CardPhases, LoadFrame, At, Busy, TypeOK, HandlerTypeOK
      <2>2. pfirst \in Page
        BY <1>4 DEF PlacesInv, TypeOK, ListTypeOK
      <2>3. Busy' = Busy \cup {ch} /\ OnCard' = OnCard \cup {pfirst}
        BY <1>0, <1>4, <2>1, <2>2, CardTakes DEF PlacesInv, TypeOK, LoadFrame
      <2>4. Places(held, Queued, OnCard, inuse)'
        BY <1>1, <1>2, <1>3, <1>4, <2>3 DEF Places
      <2>5. lastPage' = [lastPage EXCEPT ![ch] = pfirst]
        BY <1>4 DEF LoadFrame
      <2>6. pfirst \notin OnCard
        BY <1>2, <1>3, <1>4 DEF Places
      <2>7. OneChannel'
        BY <1>0, <1>3, <2>1, <2>3, <2>5, <2>6 
        DEF OneChannel, OnCard, Busy, PlacesInv, TypeOK, PageTypeOK
      <2> QED BY <1>2, <2>4, <2>7, PlacesThen
    <1>5. CASE ~(pfirst # NULL /\ RightChannel)
      <2>1. UNCHANGED last
        BY <1>5 DEF LoadFrame
      <2>2. OneChannel' /\ Places(held, Queued, OnCard, inuse)'
        BY <1>1, <1>2, <1>3, <2>1, CardKept DEF OneChannel, Places, last
      <2> QED BY <1>2, <2>2, PlacesThen
    <1> QED BY <1>4, <1>5

\* A page that page_alloc finds free is in no place, and then it is in use.
LEMMA TakePlaces ==
    ASSUME PlacesInv, NEW p \in Page, TakePage(p)
    PROVE  /\ p \notin held \cup Queued \cup OnCard
           /\ QueueOK' /\ Queued' = Queued
           /\ inuse'[p] /\ \A q \in Page : inuse[q] => inuse'[q]
    <1>1. p \notin held \cup Queued \cup OnCard
        BY DEF PlacesInv, OnePlace, TakePage, Lowest, FreePages
    <1>2. QueueOK' /\ Queued' = Queued
        BY <1>1, TakeQueue DEF PlacesInv, TypeOK
    <1>3. inuse'[p] /\ \A q \in Page : inuse[q] => inuse'[q]
        BY DEF TakePage, PlacesInv, TypeOK, PageTypeOK
    <1> QED BY <1>1, <1>2, <1>3

LEMMA FillFramePlaces == PlacesInv /\ FillFrame => PlacesNow'
    <1> SUFFICES ASSUME PlacesInv, FillFrame PROVE PlacesNow' OBVIOUS
    <1>0. ch \in Chans /\ ch \notin Busy /\ held' = held
      <2>1. ch \in Chans
        BY NextChannel DEF PlacesInv, TypeOK, FillFrame
      <2> QED BY <2>1 DEF PlacesInv, Phases, CardPhases, FillFrame, At, Busy, user, TypeOK, HandlerTypeOK
    <1>1. PICK p \in Page :
              /\ TakePage(p)
              /\ lastType' = [lastType EXCEPT ![ch] = "Capture"]
              /\ lastPage' = [lastPage EXCEPT ![ch] = p]
        BY DEF FillFrame
    <1>2. /\ p \notin held \cup Queued \cup OnCard
          /\ QueueOK' /\ Queued' = Queued
          /\ inuse'[p] /\ \A q \in Page : inuse[q] => inuse'[q]
        BY <1>1, TakePlaces
    <1>3. Busy' = Busy \cup {ch} /\ OnCard' = OnCard \cup {p}
        BY <1>0, <1>1, CardTakes DEF PlacesInv, TypeOK
    <1>4. OneChannel /\ Places(held, Queued, OnCard, inuse)
        BY OnePlaceParts DEF PlacesInv
    <1>5. OneChannel'
        BY <1>0, <1>1, <1>2, <1>3, <1>4
        DEF OneChannel, OnCard, Busy, PlacesInv, TypeOK, PageTypeOK
    <1>6. held \cup Queued \cup OnCard \subseteq Page
        BY DEF PlacesInv, TypeOK, PageTypeOK, ClientTypeOK, ListTypeOK, Queued, OnCard, Busy
    <1>7. Places(held, Queued, OnCard, inuse)'
        BY <1>0, <1>2, <1>3, <1>4, <1>6 DEF Places
    <1> QED BY <1>2, <1>5, <1>7, PlacesThen

LEMMA InitClearPlaces ==
    ASSUME PlacesInv, NEW s \in Setups, InitClear(s)
    PROVE  PlacesNow'
    <1>1. fq' = <<>> /\ held' = {} /\ pfirst' = NULL /\ plast' = NULL
          /\ lastType' = [c \in Chans |-> "none"]
        BY DEF InitClear
    <1>2. Queued' = {} /\ QueueOK'
        BY <1>1 DEF Queued, QueueOK, ListIsQueue, NoTwice
    <1>3. Busy' = {} /\ OnCard' = {}
        BY <1>1 DEF Busy, OnCard
    <1>4. OneChannel' /\ Places(held, Queued, OnCard, inuse)'
        BY <1>1, <1>2, <1>3 DEF OneChannel, Places
    <1> QED BY <1>2, <1>4, PlacesThen

LEMMA PageAllocPlaces ==
    ASSUME PlacesInv, NEW p \in Page, PageAlloc(p)
    PROVE  PlacesNow'
    <1>1. TakePage(p) /\ held' = held \cup {p} /\ UNCHANGED last
        BY DEF PageAlloc
    <1>2. /\ p \notin held \cup Queued \cup OnCard
          /\ QueueOK' /\ Queued' = Queued
          /\ inuse'[p] /\ \A q \in Page : inuse[q] => inuse'[q]
        BY <1>1, TakePlaces
    <1>3. OnCard' = OnCard /\ OneChannel'
        BY <1>1, CardKept, OnePlaceParts DEF PlacesInv, OneChannel, last
    <1>4. held \cup Queued \cup OnCard \subseteq Page
        BY DEF PlacesInv, TypeOK, PageTypeOK, ClientTypeOK, ListTypeOK, Queued, OnCard, Busy
    <1>5. Places(held, Queued, OnCard, inuse)'
        BY <1>1, <1>2, <1>3, <1>4, OnePlaceParts DEF PlacesInv, Places
    <1> QED BY <1>2, <1>3, <1>5, PlacesThen

\* A careful client frees and queues what it holds.
LEMMA MineIsHeld ==
    ASSUME PlacesInv, NEW p \in Page, Mine(p)
    PROVE  p \in held /\ p \notin Queued /\ p \notin OnCard
    BY DEF PlacesInv, Disciplined, Mine, Free, OnePlace

LEMMA PageFreePlaces ==
    ASSUME PlacesInv, NEW p \in Page, PageFree(p)
    PROVE  PlacesNow'
    <1>1. ReleasePage(p) /\ held' = held \ {p} /\ UNCHANGED <<list, last>>
        BY DEF PageFree
    <1>2. p \in held /\ p \notin Queued /\ p \notin OnCard
        BY MineIsHeld DEF PageFree
    <1>3. Queued' = Queued /\ QueueOK'
        BY <1>1 DEF list, Queued, QueueOK, ListIsQueue, NoTwice, PlacesInv
    <1>4. OnCard' = OnCard /\ OneChannel'
        BY <1>1, CardKept, OnePlaceParts DEF PlacesInv, OneChannel, last
    <1>5. \A q \in Page \ {p} : inuse'[q] = inuse[q]
        BY <1>1 DEF ReleasePage, PlacesInv, TypeOK, PageTypeOK
    <1>6. held \cup Queued \cup OnCard \subseteq Page
        BY DEF PlacesInv, TypeOK, PageTypeOK, ClientTypeOK, ListTypeOK, Queued, OnCard, Busy
    <1>7. Places(held, Queued, OnCard, inuse)'
        BY <1>1, <1>2, <1>3, <1>4, <1>5, <1>6, OnePlaceParts DEF PlacesInv, Places
    <1> QED BY <1>3, <1>4, <1>7, PlacesThen

LEMMA FifoPushPlaces ==
    ASSUME PlacesInv, NEW p \in Page, FifoPush(p)
    PROVE  PlacesNow'
    <1>1. Push(p) /\ held' = held \ {p} /\ UNCHANGED <<inuse, last>>
        BY DEF FifoPush
    <1>2. p \in held /\ p \notin Queued /\ p \notin OnCard
        BY MineIsHeld DEF FifoPush
    <1>3. Queued' = Queued \cup {p} /\ QueueOK'
        BY <1>1, <1>2, PushQueue DEF PlacesInv, TypeOK
    <1>4. OnCard' = OnCard /\ OneChannel'
        BY <1>1, CardKept, OnePlaceParts DEF PlacesInv, OneChannel, last
    <1>5. Places(held, Queued, OnCard, inuse)'
        BY <1>1, <1>2, <1>3, <1>4, OnePlaceParts DEF PlacesInv, Places
    <1> QED BY <1>3, <1>4, <1>5, PlacesThen

LEMMA FifoPopPlaces == PlacesInv /\ FifoPop => PlacesNow'
    <1> SUFFICES ASSUME PlacesInv, FifoPop PROVE PlacesNow' OBVIOUS
    <1>1. UNCHANGED <<inuse, last>>
        BY DEF FifoPop
    <1>2. /\ QueueOK'
          /\ pfirst = NULL => Queued' = Queued
          /\ pfirst # NULL => pfirst \in Queued /\ Queued' = Queued \ {pfirst}
        BY PopQueue DEF PlacesInv, TypeOK, FifoPop
    <1>3. OnCard' = OnCard /\ OneChannel'
        BY <1>1, CardKept, OnePlaceParts DEF PlacesInv, OneChannel, last
    <1>4. held' = IF pfirst = NULL THEN held ELSE held \cup {pfirst}
        BY DEF FifoPop
    <1>5. Places(held, Queued, OnCard, inuse)'
        BY <1>1, <1>2, <1>3, <1>4, OnePlaceParts DEF PlacesInv, Places
    <1> QED BY <1>2, <1>3, <1>5, PlacesThen

\* Every step keeps the queue and the places of the pages.
LEMMA NextPlaces == PlacesInv /\ [Next]_vars => PlacesNow'
    <1> SUFFICES ASSUME PlacesInv, [Next]_vars PROVE PlacesNow' OBVIOUS
    <1>1. CASE Freeup BY <1>1, FreeupPlaces
    <1>2. CASE BumpPop BY <1>2, BumpPopPlaces
    <1>3. CASE LoadFrame BY <1>3, LoadFramePlaces
    <1>4. CASE FillFrame BY <1>4, FillFramePlaces
    <1>5. CASE \E s \in Setups : InitClear(s) BY <1>5, InitClearPlaces
    <1>6. CASE FifoPop BY <1>6, FifoPopPlaces
    <1>7. CASE \E p \in Page : PageAlloc(p) \/ PageFree(p) \/ FifoPush(p)
        BY <1>7, PageAllocPlaces, PageFreePlaces, FifoPushPlaces
    <1>8. CASE \/ FrameIrq \/ Decide \/ PlaybackSpeed \/ LoadDone \/ CaptureSpeed
               \/ InitConfigure \/ Control
               \/ \E p \in Page, c \in Chans : SetMeta(p, c)
               \/ UNCHANGED vars
        <2>1. UNCHANGED <<list, inuse, last, held>>
            BY <1>8
            DEF FrameIrq, Decide, PlaybackOff, PlaybackDrop, BumpCheck, CaptureOff,
                CaptureDrop, FillFails, FillDone, PlaybackSpeed, LoadDone, CaptureSpeed,
                InitConfigure, Control, StreamStart, StreamStop, FrameSeen, WaitFails,
                SetSpeed, SetMeta, user, vars
        <2> QED BY <2>1, PlacesKept
    <1> QED
        BY <1>1, <1>2, <1>3, <1>4, <1>5, <1>6, <1>7, <1>8
        DEF Next, Handler, Client, Decide, Control

LEMMA NextRunPhases == PlacesInv /\ [Next]_vars => RunPhases'
    <1> SUFFICES ASSUME PlacesInv, [Next]_vars PROVE RunPhases' OBVIOUS
    <1>0. RunPhases /\ FlagsTypeOK /\ "anyInit" \notin Freedoms
        BY DEF PlacesInv, Phases, TypeOK, Disciplined
    <1>1. CASE FrameIrq
      <2>1. step' = "freeup" /\ srun' = running /\ running' = running /\ call' = call
        BY <1>1 DEF FrameIrq, Go
      <2>2. call' = "init" => ~running' /\ ~srun'
        <3> SUFFICES ASSUME call' = "init" PROVE ~running' /\ ~srun' OBVIOUS
        <3>1. ~running
            BY <1>0, <2>1 DEF RunPhases
        <3> QED BY <2>1, <3>1, Zenon
      <2>3. step' = "freeup"
        BY <2>1
      <2> QED BY <2>2, <2>3 DEF RunPhases
    <1>2. CASE Handler
      <2>1. UNCHANGED <<call, running>>
        BY <1>2
        DEF Handler, Freeup, PlaybackOff, PlaybackDrop, PlaybackSpeed, BumpCheck, BumpPop,
            LoadFrame, LoadDone, CaptureOff, CaptureDrop, CaptureSpeed, FillFrame,
            FillFails, FillDone, user, wait
      <2>2. (step' = "idle" /\ srun' = FALSE) \/ (step' # "idle" /\ srun' = srun)
        BY <1>2
        DEF Handler, Freeup, FreeupDone, PlaybackOff, PlaybackDrop, PlaybackSpeed,
            BumpCheck, BumpPop, LoadFrame, LoadDone, CaptureOff, CaptureDrop, CaptureSpeed,
            FillFrame, FillFails, FillDone, GoOn, Go, Return, locals
      <2>3. step = "freeup" => step' \in {"idle", "freeup"} \/ srun
        BY <1>2
        DEF Handler, Freeup, FreeupDone, PlaybackOff, PlaybackDrop, PlaybackSpeed,
            BumpCheck, BumpPop, LoadFrame, LoadDone, CaptureOff, CaptureDrop, CaptureSpeed,
            FillFrame, FillFails, FillDone, GoOn, Go, Return, At
      <2>4. step # "idle"
        BY <1>2
        DEF Handler, Freeup, PlaybackOff, PlaybackDrop, PlaybackSpeed, BumpCheck, BumpPop,
            LoadFrame, LoadDone, CaptureOff, CaptureDrop, CaptureSpeed, FillFrame,
            FillFails, FillDone, At
      <2> QED BY <1>0, <2>1, <2>2, <2>3, <2>4 DEF RunPhases
    <1>3. CASE \E s \in Setups : InitClear(s)
      <2>1. At("idle") /\ running' = FALSE /\ UNCHANGED irq
        BY <1>0, <1>3 DEF InitClear, Free
      <2>2. step = "idle" /\ step' = "idle" /\ srun' = srun
        BY <2>1 DEF irq, locals, At
      <2> QED BY <1>0, <2>1, <2>2 DEF RunPhases
    <1>4. CASE InitConfigure \/ Control \/ FifoPop \/ UNCHANGED vars
               \/ \E p \in Page : PageCall(p)
      <2>1. UNCHANGED <<step, srun>>
        BY <1>4 DEF InitConfigure, Control, StreamStart, StreamStop, FrameSeen, WaitFails,
                    SetSpeed, FifoPop, PageCall, PageAlloc, PageFree, FifoPush, SetMeta,
                    vars, irq, locals
      <2>2. UNCHANGED <<call, running>> \/ call' # "init"
        BY <1>4 DEF InitConfigure, Control, StreamStart, StreamStop, FrameSeen, WaitFails,
                    SetSpeed, FifoPop, PageCall, PageAlloc, PageFree, FifoPush, SetMeta,
                    vars, user, wait, WaitForFrame, ReturnToUser
      <2> QED BY <1>0, <2>1, <2>2 DEF RunPhases
    <1> QED BY <1>1, <1>2, <1>3, <1>4 DEF Next, Client, Control, PageCall

LEMMA NextCardPhases == PlacesInv /\ [Next]_vars => CardPhases'
    <1> SUFFICES ASSUME PlacesInv, [Next]_vars PROVE CardPhases' OBVIOUS
    <1>0. CardPhases /\ RunPhases /\ HandlerTypeOK /\ PageTypeOK /\ "anyInit" \notin Freedoms
        BY DEF PlacesInv, Phases, TypeOK, Disciplined
    <1>1. CASE FrameIrq
      <2>1. step' = "freeup" /\ ch' = 0 /\ UNCHANGED <<last, call, mode>>
        BY <1>1 DEF FrameIrq, Go, config
      <2> QED BY <1>0, <2>1, CardKept DEF CardPhases
    <1>2. CASE Freeup
      <2>1. ch \in Chans /\ UNCHANGED <<call, mode, lastPage>>
        BY <1>0, <1>2 DEF Freeup, At, HandlerTypeOK, Chans, config, user, wait
      <2>2. lastType' = [lastType EXCEPT ![ch] = "none"]
        BY <1>2 DEF Freeup
      <2>3. Busy' = Busy \ {ch}
        BY <1>0, <2>1, <2>2 DEF Busy, PageTypeOK
      <2>4. CASE ch = 0 /\ GoOn("freeup", 1)
        BY <1>0, <2>1, <2>2, <2>3, <2>4 DEF GoOn, Go, CardPhases, PageTypeOK
      <2>5. CASE ch = 1 /\ (GoOn("playback", 0) \/ Return)
        <3>1. Busy' = {}
            BY <1>0, <1>2, <2>3, <2>5 DEF Busy, Chans, CardPhases, Freeup, At
        <3>2. step' \in {"playback", "idle"}
            BY <2>5 DEF GoOn, Go, Return
        <3> QED BY <3>1, <3>2 DEF CardPhases
      <2> QED BY <1>2, <2>1, <2>4, <2>5 DEF Freeup, FreeupDone, Chans
    <1>3. CASE Decide
      <2>1. UNCHANGED <<call, mode, last>>
        BY <1>3 DEF Decide, PlaybackOff, PlaybackDrop, BumpCheck, CaptureOff, CaptureDrop,
                    FillFails, FillDone, config, user, wait
      <2>2. CASE Return
        BY <1>0, <2>1, <2>2, CardKept DEF Return, Go, CardPhases
      <2>3. CASE (PlaybackOff \/ PlaybackDrop \/ BumpCheck) /\ GoOn("capture", 0)
        <3>1. Busy = {} /\ step' = "capture"
            BY <1>0, <2>3
            DEF PlaybackOff, PlaybackDrop, BumpCheck, At, CardPhases, GoOn, Go
        <3> QED BY <1>0, <2>1, <3>1, CardKept DEF CardPhases
      <2>4. CASE BumpCheck /\ GoOn(IF hchans > 0 THEN "bumpPop" ELSE "load", 0)
        <3>1. Busy = {} /\ mode = "Playback" /\ step' \in {"bumpPop", "load"}
            BY <1>0, <2>4 DEF BumpCheck, At, CardPhases, GoOn, Go
        <3>2. \A c \in Chans : lastType'[c] = "none"
            BY <2>1, <3>1 DEF Busy, last
        <3> QED BY <1>0, <2>1, <3>1, <3>2, CardKept DEF CardPhases
      <2> QED BY <1>3, <2>2, <2>3, <2>4
              DEF Decide, PlaybackOff, PlaybackDrop, BumpCheck, CaptureOff, CaptureDrop,
                  FillFails, FillDone
    <1>4. CASE PlaybackSpeed
      <2>1. Busy = {} /\ mode = "Playback" /\ UNCHANGED <<call, mode, last>>
        BY <1>0, <1>4 DEF PlaybackSpeed, At, CardPhases, config, user, wait
      <2>2. step' \in {"capture", "load", "bump"}
        BY <1>4 DEF PlaybackSpeed, GoOn, Go
      <2>3. \A c \in Chans : lastType'[c] = "none"
        BY <2>1 DEF Busy, last
      <2> QED BY <1>0, <2>1, <2>2, <2>3, CardKept DEF CardPhases
    <1>5. CASE BumpPop
      <2>1. Busy = {} /\ mode = "Playback" /\ UNCHANGED <<call, mode, last>>
        BY <1>0, <1>5 DEF BumpPop, At, CardPhases, config, user, wait
      <2>2. step' \in {"capture", "bumpPop", "bump", "load"}
        BY <1>5 DEF BumpPop, GoOn, Go
      <2>3. \A c \in Chans : lastType'[c] = "none"
        BY <2>1 DEF Busy, last
      <2> QED BY <1>0, <2>1, <2>2, <2>3, CardKept DEF CardPhases
    <1>6. CASE LoadFrame
      <2>0. mode = "Playback" /\ step = "load" /\ ch \in Chans /\ UNCHANGED <<call, mode>>
        BY <1>0, <1>6, NextChannel DEF LoadFrame, At, CardPhases, config, user, wait
      <2>1. call # "init"
        BY <1>0, <2>0 DEF RunPhases
      <2>2. CASE pfirst # NULL /\ RightChannel
        <3>1. lastType' = [lastType EXCEPT ![ch] = "Playback"]
              /\ step' = "load" /\ ch' = ch + 1
            BY <1>6, <2>2 DEF LoadFrame, Go
        <3>2. \A c \in Chans : c >= ch + 1 => lastType'[c] = "none"
            BY <1>0, <2>0, <3>1 DEF CardPhases, PageTypeOK, Chans
        <3> QED BY <2>0, <2>1, <3>1, <3>2 DEF CardPhases
      <2>3. CASE ~(pfirst # NULL /\ RightChannel)
        <3>1. step' = "capture"
            BY <1>6, <2>3 DEF LoadFrame, GoOn, Go
        <3> QED BY <2>0, <2>1, <3>1 DEF CardPhases
      <2> QED BY <2>2, <2>3
    <1>7. CASE LoadDone
      <2>1. mode = "Playback" /\ step' = "capture" /\ UNCHANGED <<call, mode, last>>
        BY <1>0, <1>7 DEF LoadDone, At, CardPhases, GoOn, Go, config, user, wait
      <2> QED BY <1>0, <2>1, CardKept DEF CardPhases
    <1>8. CASE CaptureSpeed
      <2>1. Busy = {} /\ step' = "fill" /\ UNCHANGED <<call, mode, last>>
        BY <1>0, <1>8 DEF CaptureSpeed, At, CardPhases, Go, config, user, wait
      <2>2. \A c \in Chans : lastType'[c] = "none"
        BY <2>1 DEF Busy, last
      <2> QED BY <1>0, <2>1, <2>2, CardKept DEF CardPhases
    <1>9. CASE FillFrame
      <2>0. step = "fill" /\ ch \in Chans /\ UNCHANGED <<call, mode>>
        BY <1>0, <1>9, NextChannel DEF FillFrame, At, config, user, wait
      <2>1. call # "init"
        BY <1>0, <2>0 DEF RunPhases
      <2>2. lastType' = [lastType EXCEPT ![ch] = "Capture"]
            /\ step' = "fill" /\ ch' = ch + 1
        BY <1>9 DEF FillFrame, GoOn, Go
      <2>3. \A c \in Chans : c >= ch + 1 => lastType'[c] = "none"
        BY <1>0, <2>0, <2>2 DEF CardPhases, PageTypeOK, Chans
      <2> QED BY <2>0, <2>1, <2>2, <2>3 DEF CardPhases
    <1>10. CASE \E s \in Setups : InitClear(s)
      <2>1. step' = "idle" /\ lastType' = [c \in Chans |-> "none"]
        BY <1>0, <1>10 DEF InitClear, Free, At, irq
      <2> QED BY <2>1 DEF CardPhases, Busy
    <1>11. CASE InitConfigure
      <2>1. UNCHANGED <<step, ch, last>> /\ Busy = {} /\ step \in {"idle", "freeup"}
            /\ call' # "init"
        BY <1>0, <1>11 DEF InitConfigure, irq, RunPhases, CardPhases, ReturnToUser
      <2> QED BY <1>0, <2>1, CardKept DEF CardPhases, last
    <1>12. CASE Control \/ FifoPop \/ UNCHANGED vars \/ \E p \in Page : PageCall(p)
      <2>1. UNCHANGED <<step, ch, mode, last>> /\ (call' = call \/ call' # "init")
        BY <1>12 DEF Control, StreamStart, StreamStop, FrameSeen, WaitFails, SetSpeed,
                     FifoPop, PageCall, PageAlloc, PageFree, FifoPush, SetMeta,
                     vars, irq, user, wait, config, WaitForFrame, ReturnToUser
      <2> QED BY <1>0, <2>1, CardKept DEF CardPhases, last
    <1> QED
        BY <1>1, <1>2, <1>3, <1>4, <1>5, <1>6, <1>7, <1>8, <1>9, <1>10, <1>11, <1>12
        DEF Next, Handler, Client, Decide, Control, PageCall

LEMMA InitPlaces == Disciplined /\ Init => PlacesInv
    <1> SUFFICES ASSUME Disciplined, Init PROVE PlacesInv OBVIOUS
    <1>1. Busy = {} /\ OnCard = {} /\ Queued = {}
        BY DEF Init, Busy, OnCard, Queued
    <1>2. Phases
        BY <1>1 DEF Init, Phases, RunPhases, CardPhases
    <1>3. QueueOK
        BY DEF Init, QueueOK, ListIsQueue, NoTwice
    <1>4. OnePlace
        BY <1>1, <1>3 DEF Init, OnePlace, QueueOK
    <1> QED BY <1>2, <1>3, <1>4, InitTypeOK DEF PlacesInv

LEMMA NextPlacesInv == PlacesInv /\ [Next]_vars => PlacesInv'
    <1> SUFFICES ASSUME PlacesInv, [Next]_vars PROVE PlacesInv' OBVIOUS
    <1>1. TypeOK'
        BY NextType DEF PlacesInv
    <1>2. Disciplined'
        BY DEF PlacesInv, Disciplined
    <1>3. PlacesNow' /\ Phases'
        BY NextPlaces, NextRunPhases, NextCardPhases DEF Phases
    <1> QED BY <1>1, <1>2, <1>3 DEF PlacesInv, PlacesNow

\* A page is in one place at every moment, and in use there: between a client
\* that frees and queues only its own pages and the frame handler no page is
\* ever handed out twice, at any speed and with channels in any order.
THEOREM PagesInOnePlace == Disciplined /\ Spec => []OnePlace
    <1>1. PlacesInv => OnePlace
        BY DEF PlacesInv
    <1> QED BY <1>1, InitPlaces, NextPlacesInv, PTL DEF Spec

\* For such a client the linked list is the queue of the pages pushed and not
\* yet popped, whatever the interleaving of fifo_push and fifo_pop.
THEOREM ListAlwaysQueue == Disciplined /\ Spec => []ListIsQueue
    <1>1. PlacesInv => ListIsQueue
        BY DEF PlacesInv, QueueOK
    <1> QED BY <1>1, InitPlaces, NextPlacesInv, PTL DEF Spec
=============================================================================
