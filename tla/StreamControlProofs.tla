------------------------ MODULE StreamControlProofs ------------------------
(***************************************************************************)
(* Theorems about starting and stopping the stream, for any number of      *)
(* processes: nobody sleeps through a frame, a trigger lies ahead, clock   *)
(* and sound follow the stream, and the stream does not outlive its owner. *)
(***************************************************************************)
EXTENDS StreamControl, TLAPS

\* What the processes do, in two parts: calls and their ends, and the steps of a
\* call that has been made.
Calls(p) ==
    \/ Open(p) \/ Release(p) \/ (\E f \in BOOLEAN : StreamInit(p, f))
    \/ StreamStart(p) \/ StreamStop(p)
    \/ (\E t \in id .. id + MaxLead : SetTrig(p, t)) \/ WaitFails(p)

-----------------------------------------------------------------------------
(* Types, where the proofs need them. *)

Numbers ==
    /\ id \in Nat /\ trigger \in Nat /\ trig \in Nat
    /\ arg \in [Procs -> Nat] /\ cid \in [Procs -> Nat]

Places ==
    /\ hpc \in {"idle", "count", "check", "clock", "streams", "sound", "wake"}
    /\ at \in [Procs -> {"closed", "user", "arm", "look", "asleep", "fields", "clock", "sound"}]
    /\ call \in [Procs -> {"none", "start", "stop", "close"}]

LEMMA NumbersStep == Numbers /\ Next => Numbers'
<1> SUFFICES ASSUME Numbers, Next PROVE Numbers'
    OBVIOUS
<1> USE DEF Numbers, procs, stream, handler
<1>1. CASE FrameIrq \/ Handler
    BY <1>1 DEF FrameIrq, Handler, Count, NextFrame, TriggerFires, StartFields, ClockOn, NoTrigger, Streams,
        SoundOn, Wake
<1>2. ASSUME NEW p \in Procs, Calls(p) PROVE Numbers'
    BY <1>2, BoundsAssumption DEF Calls, Open, Release, StreamInit, StreamStart, StreamStop, WaitForFrame, SetTrig,
        WaitFails, Return
<1>3. ASSUME NEW p \in Procs, InCall(p) PROVE Numbers'
    BY <1>3 DEF InCall, Look, Fields, StartFields, StopFields, StartedClock, StoppedClock, StoppedSound, Arm,
        Return
<1> QED BY <1>1, <1>2, <1>3 DEF Next, Process, Calls

LEMMA PlacesStep == Places /\ Next => Places'
<1> SUFFICES ASSUME Places, Next PROVE Places'
    OBVIOUS
<1> USE DEF Places, Goto, procs, handler
<1>1. CASE FrameIrq \/ Handler
    BY <1>1 DEF FrameIrq, Handler, Count, TriggerFires, ClockOn, NoTrigger, Streams, SoundOn, Wake, WakeAll
<1>2. ASSUME NEW p \in Procs, Calls(p) PROVE Places'
    BY <1>2 DEF Calls, Open, Release, StreamInit, StreamStart, StreamStop, WaitForFrame, SetTrig, WaitFails, Return
<1>3. ASSUME NEW p \in Procs, InCall(p) PROVE Places'
    BY <1>3 DEF InCall, Look, Fields, StartedClock, StoppedClock, StoppedSound, Arm, Return
<1> QED BY <1>1, <1>2, <1>3 DEF Next, Process, Calls

-----------------------------------------------------------------------------
(* Sleepers (src/src/aja.c:1283-1290, 2106) *)

\* Once the frame is counted, the handler is on its way to wake who sleeps.
Sleepers ==
    \A p \in Procs : at[p] = "asleep" => cid[p] = id \/ hpc \notin {"idle", "count"}

SleeperInv == Places /\ Numbers /\ Sleepers

LEMMA SleepersStep == SleeperInv /\ Next => Sleepers'
<1> SUFFICES ASSUME SleeperInv, Next PROVE Sleepers'
    OBVIOUS
<1> USE DEF SleeperInv, Places, Numbers, Sleepers, Goto, procs, handler
<1>1. CASE FrameIrq \/ Handler
    BY <1>1 DEF FrameIrq, Handler, Count, TriggerFires, ClockOn, NoTrigger, Streams, SoundOn, Wake, WakeAll
<1>2. ASSUME NEW p \in Procs, Calls(p) PROVE Sleepers'
    BY <1>2 DEF Calls, Open, Release, StreamInit, StreamStart, StreamStop, WaitForFrame, SetTrig, WaitFails, Return
<1>3. ASSUME NEW p \in Procs, InCall(p) PROVE Sleepers'
    BY <1>3 DEF InCall, Look, Fields, StartedClock, StoppedClock, StoppedSound, Arm, Return
<1> QED BY <1>1, <1>2, <1>3 DEF Next, Process, Calls

\* For any number of processes: between the frames, whoever sleeps for a frame
\* waits for the next one (aja_wait_for_frame, aja.c:1283-1290).
THEOREM NobodySleepsThrough == Spec => []SleepersUpToDate
<1>1. Init => SleeperInv
    BY DEF Init, SleeperInv, Places, Numbers, Sleepers
<1>2. SleeperInv /\ UNCHANGED vars => SleeperInv'
    BY DEF vars, stream, handler, procs, SleeperInv, Places, Numbers, Sleepers
<1>3. SleeperInv /\ [Next]_vars => SleeperInv'
    BY <1>2, PlacesStep, NumbersStep, SleepersStep DEF SleeperInv
<1>4. SleeperInv => SleepersUpToDate
    BY DEF SleeperInv, Sleepers, SleepersUpToDate
<1> QED BY <1>1, <1>3, <1>4, PTL DEF Spec

-----------------------------------------------------------------------------
(* The trigger (src/src/aja.c:1617, 2037-2052) *)

\* While the handler is at work no process stores anything; its copy of the
\* trigger is the trigger until it has looked at it.
Ahead ==
    "midFrame" \notin taken =>
        /\ hpc # "idle" => \A p \in Procs : ~Storing(p)
        /\ hpc \in {"count", "check"} => trig = trigger
        /\ hpc = "check" /\ trigger # 0 => trigger >= id
        /\ trigger # 0 /\ hpc # "check" => trigger > id
        /\ \A p \in Procs : at[p] = "arm" => arg[p] > id

AheadInv == Places /\ Numbers /\ Ahead

LEMMA AheadStep == AheadInv /\ Next => Ahead'
<1> SUFFICES ASSUME AheadInv, Next, "midFrame" \notin taken PROVE Ahead'
    BY DEF Ahead, Next, FrameIrq, Handler, Count, TriggerFires, ClockOn, NoTrigger, Streams, SoundOn, Wake,
        Process, InCall, Open, Release, StreamInit, StreamStart, StreamStop, SetTrig, WaitFails,
        Look, Fields, StartedClock, StoppedClock, StoppedSound, Arm
<1> USE DEF AheadInv, Places, Numbers, Ahead, Storing, Goto, stream, procs, handler
<1>1. CASE FrameIrq
    BY <1>1 DEF FrameIrq
<1>2. CASE Count
    BY <1>2 DEF Count, NextFrame
<1>3. CASE TriggerFires \/ NoTrigger
    BY <1>3 DEF TriggerFires, StartFields, NoTrigger
<1>4. CASE ClockOn \/ Streams \/ SoundOn
    BY <1>4 DEF ClockOn, Streams, SoundOn
<1>5. CASE Wake
    BY <1>5 DEF Wake, WakeAll
<1>6. ASSUME NEW p \in Procs, Calls(p) PROVE Ahead'
    <2>1. CASE Open(p) \/ StreamStart(p) \/ StreamStop(p) \/ WaitFails(p)
        BY <2>1 DEF Open, StreamStart, StreamStop, WaitForFrame, WaitFails, Return
    <2>2. CASE Release(p)
        BY <2>2 DEF Release, Undisturbed
    <2>3. CASE \E f \in BOOLEAN : StreamInit(p, f)
        BY <2>3 DEF StreamInit, Undisturbed
    <2>4. CASE \E t \in id .. id + MaxLead : SetTrig(p, t)
        BY <2>4, BoundsAssumption DEF SetTrig, Undisturbed, Passed
    <2> QED BY <1>6, <2>1, <2>2, <2>3, <2>4 DEF Calls
<1>7. ASSUME NEW p \in Procs, InCall(p) PROVE Ahead'
    <2>1. CASE Look(p)
        BY <2>1 DEF Look, Undisturbed
    <2>2. CASE Fields(p)
        BY <2>2 DEF Fields, Undisturbed, StartFields, StopFields
    <2>3. CASE StartedClock(p) \/ StoppedClock(p) \/ StoppedSound(p)
        BY <2>3 DEF StartedClock, StoppedClock, StoppedSound, Undisturbed, Return
    <2>4. CASE Arm(p)
        BY <2>4 DEF Arm, Undisturbed
    <2> QED BY <1>7, <2>1, <2>2, <2>3, <2>4 DEF InCall
<1> QED BY <1>1, <1>2, <1>3, <1>4, <1>5, <1>6, <1>7 DEF Next, Handler, Process, Calls

LEMMA AheadAlways == Spec => []AheadInv
<1>1. Init => AheadInv
    BY DEF Init, AheadInv, Places, Numbers, Ahead, Storing
<1>2. AheadInv /\ UNCHANGED vars => AheadInv'
    BY DEF vars, stream, handler, procs, AheadInv, Places, Numbers, Ahead, Storing
<1>3. AheadInv /\ [Next]_vars => AheadInv'
    BY <1>2, PlacesStep, NumbersStep, AheadStep DEF AheadInv
<1> QED BY <1>1, <1>3, PTL DEF Spec

\* For any number of processes: as long as the stores of an ioctl and of the
\* handler do not mix, a trigger that is set will be met (aja.c:1617, 2037-2052).
THEOREM TriggerStaysAhead == Spec => []TriggerAhead
<1>1. AheadInv => TriggerAhead
    BY DEF AheadInv, Ahead, TriggerAhead
<1> QED BY <1>1, AheadAlways, PTL

-----------------------------------------------------------------------------
(* The owner (src/src/aja.c:1550-1570, 2287-2304) *)

\* Who is in a call is where that call is.
InPlace(p) ==
    /\ at[p] \in {"closed", "user", "arm"} => call[p] = "none"
    /\ at[p] \in {"look", "asleep"} => call[p] \in {"start", "stop"}
    /\ at[p] \in {"fields", "clock"} => call[p] # "none"
    /\ at[p] = "sound" => call[p] \in {"stop", "close"}

\* Only the owner starts the stream or sets its trigger; it leaves a stream that
\* neither runs nor is to run.
Owned ==
    taken = {} =>
        /\ running \/ trigger # 0 => owner \in Procs /\ at[owner] # "closed"
        /\ \A p \in Procs :
             /\ call[p] \in {"start", "close"} \/ at[p] = "arm" => owner = p
             /\ call[p] = "close" => trigger = 0 /\ (at[p] # "fields" => ~running)

OwnedInv == AheadInv /\ (\A p \in Procs : InPlace(p)) /\ Owned

LEMMA InPlaceStep == OwnedInv /\ Next => \A p \in Procs : InPlace(p)'
<1> SUFFICES ASSUME OwnedInv, Next PROVE \A p \in Procs : InPlace(p)'
    OBVIOUS
<1> USE DEF OwnedInv, AheadInv, Places, InPlace, Goto, procs
<1>1. CASE FrameIrq \/ Handler
    BY <1>1 DEF FrameIrq, Handler, Count, TriggerFires, ClockOn, NoTrigger, Streams, SoundOn, Wake, WakeAll
<1>2. ASSUME NEW p \in Procs, Calls(p) PROVE \A q \in Procs : InPlace(q)'
    BY <1>2 DEF Calls, Open, Release, StreamInit, StreamStart, StreamStop, WaitForFrame, SetTrig, WaitFails, Return
<1>3. ASSUME NEW p \in Procs, InCall(p) PROVE \A q \in Procs : InPlace(q)'
    BY <1>3 DEF InCall, Look, Fields, StartedClock, StoppedClock, StoppedSound, Arm, Return
<1> QED BY <1>1, <1>2, <1>3 DEF Next, Process, Calls

LEMMA TakenStays == Next => taken' = taken
BY DEF Next, FrameIrq, Handler, Count, TriggerFires, ClockOn, NoTrigger, Streams, SoundOn, Wake,
    Process, InCall, Open, Release, StreamInit, StreamStart, StreamStop, SetTrig, WaitFails,
    Look, Fields, StartedClock, StoppedClock, StoppedSound, Arm

LEMMA OwnedStep == OwnedInv /\ Next => Owned'
<1> SUFFICES ASSUME OwnedInv, Next, taken = {} PROVE Owned'
    BY TakenStays DEF Owned
<1> USE DEF OwnedInv, AheadInv, Places, Numbers, Owned, InPlace, Goto, stream, procs, handler
<1>1. CASE FrameIrq \/ Count \/ ClockOn \/ NoTrigger \/ Streams \/ SoundOn
    BY <1>1 DEF FrameIrq, Count, ClockOn, NoTrigger, Streams, SoundOn
<1>2. CASE TriggerFires
    <2>1. trigger # 0 /\ \A p \in Procs : ~Storing(p)
        BY <1>2 DEF TriggerFires, Ahead
    <2> QED BY <1>2, <2>1 DEF TriggerFires, StartFields, Storing
<1>3. CASE Wake
    BY <1>3 DEF Wake, WakeAll
<1>4. ASSUME NEW p \in Procs, Calls(p) PROVE Owned'
    <2>1. CASE Open(p) \/ StreamStop(p)
        BY <2>1 DEF Open, StreamStop, WaitForFrame
    <2>2. CASE StreamStart(p)
        BY <2>2 DEF StreamStart, WaitForFrame, MayStart
    <2>3. CASE WaitFails(p)
        BY <2>3 DEF WaitFails, Return
    <2>4. CASE Release(p)
        BY <2>4 DEF Release, OwnsRunning
    <2>5. CASE \E f \in BOOLEAN : StreamInit(p, f)
        BY <2>5 DEF StreamInit, AtRest
    <2>6. CASE \E t \in id .. id + MaxLead : SetTrig(p, t)
        BY <2>6 DEF SetTrig, MayStart
    <2> QED BY <1>4, <2>1, <2>2, <2>3, <2>4, <2>5, <2>6 DEF Calls
<1>5. ASSUME NEW p \in Procs, InCall(p) PROVE Owned'
    <2>1. CASE Look(p) \/ StartedClock(p) \/ StoppedClock(p) \/ StoppedSound(p)
        BY <2>1 DEF Look, StartedClock, StoppedClock, StoppedSound, Return
    <2>2. CASE Fields(p)
        BY <2>2 DEF Fields, StartFields, StopFields
    <2>3. CASE Arm(p)
        BY <2>3 DEF Arm
    <2> QED BY <1>5, <2>1, <2>2, <2>3 DEF InCall
<1> QED BY <1>1, <1>2, <1>3, <1>4, <1>5 DEF Next, Handler, Process, Calls

LEMMA OwnedAlways == Spec => []OwnedInv
<1>1. Init => OwnedInv
    BY DEF Init, OwnedInv, AheadInv, Places, Numbers, Ahead, Storing, InPlace, Owned
<1>2. OwnedInv /\ UNCHANGED vars => OwnedInv'
    BY DEF vars, stream, handler, procs, OwnedInv, AheadInv, Places, Numbers, Ahead, Storing, InPlace, Owned
<1>3. OwnedInv /\ [Next]_vars => OwnedInv'
    BY <1>2, PlacesStep, NumbersStep, AheadStep, InPlaceStep, OwnedStep DEF OwnedInv, AheadInv
<1> QED BY <1>1, <1>3, PTL DEF Spec

\* For any number of processes that take no liberties: a stream that runs has an
\* owner, who has the device open (aja_release, aja.c:2298-2302).
THEOREM StreamEndsWithOwner == Spec => []NoOrphan
<1>1. OwnedInv => NoOrphan
    BY DEF OwnedInv, Owned, NoOrphan
<1> QED BY <1>1, OwnedAlways, PTL

-----------------------------------------------------------------------------
(* Clock and sound (src/src/aja.c:1441-1464, 2052-2070) *)

\* Who starts the stream stores alone.
Alone ==
    taken = {} =>
        \A p, q \in Procs :
            p # q /\ at[p] \in {"fields", "clock"} /\ call[p] = "start" => ~Storing(q)

Switches == running \in BOOLEAN /\ clock \in BOOLEAN /\ sound \in BOOLEAN /\ atrig \in BOOLEAN /\ audio \in BOOLEAN

\* On the way of a start the stream runs and the clock is to follow, on the way of
\* a stop the other way round.
ClockFollows ==
    taken = {} =>
        /\ hpc = "clock" => running
        /\ hpc # "clock" /\ (\A p \in Procs : at[p] # "clock") => (clock <=> running)
        /\ \A p \in Procs :
             /\ at[p] = "clock" /\ call[p] = "start" => running
             /\ at[p] \in {"clock", "sound"} /\ call[p] # "start" => ~running

Stopping(p) == at[p] \in {"clock", "sound"} /\ call[p] # "start"

\* Sound is on with a stream that wants it, or with one being stopped; while it is
\* off it is due.
SoundFollows ==
    taken = {} =>
        /\ hpc = "sound" => running /\ audio
        /\ atrig => running /\ audio
        /\ sound => audio /\ (running \/ \E p \in Procs : Stopping(p))
        /\ running /\ audio /\ ~sound => atrig

FollowInv == OwnedInv /\ Alone /\ Switches /\ ClockFollows /\ SoundFollows

LEMMA AloneStep == OwnedInv /\ Alone /\ Next => Alone'
<1> SUFFICES ASSUME OwnedInv, Alone, Next, taken = {} PROVE Alone'
    BY TakenStays DEF Alone
<1> USE DEF OwnedInv, AheadInv, Places, Alone, Storing, Goto, procs, handler
<1>1. CASE FrameIrq \/ Handler
    BY <1>1 DEF FrameIrq, Handler, Count, TriggerFires, ClockOn, NoTrigger, Streams, SoundOn, Wake, WakeAll
<1>2. ASSUME NEW p \in Procs, Calls(p) PROVE Alone'
    <2>1. CASE Open(p) \/ StreamStart(p) \/ StreamStop(p) \/ WaitFails(p) \/ \E f \in BOOLEAN : StreamInit(p, f)
        BY <2>1 DEF Open, StreamStart, StreamStop, WaitForFrame, WaitFails, Return, StreamInit
    <2>2. CASE Release(p)
        BY <2>2 DEF Release, OwnsRunning, Owned
    <2>3. CASE \E t \in id .. id + MaxLead : SetTrig(p, t)
        BY <2>3 DEF SetTrig, OthersInIoctl, InPlace
    <2> QED BY <1>2, <2>1, <2>2, <2>3 DEF Calls
<1>3. ASSUME NEW p \in Procs, InCall(p) PROVE Alone'
    <2>1. CASE Look(p)
        <3>1. \A q \in Procs \ {p} : Storing(q) => call[q] = "close"
            BY <2>1 DEF Look, OthersInIoctl
        <3>2. call[p] = "start" => \A q \in Procs \ {p} : call[q] # "close"
            BY DEF Owned
        <3> QED BY <2>1, <3>1, <3>2 DEF Look
    <2>2. CASE Fields(p) \/ StartedClock(p) \/ StoppedClock(p) \/ StoppedSound(p) \/ Arm(p)
        BY <2>2 DEF Fields, StartedClock, StoppedClock, StoppedSound, Arm, Return
    <2> QED BY <1>3, <2>1, <2>2 DEF InCall
<1> QED BY <1>1, <1>2, <1>3 DEF Next, Process, Calls

LEMMA SwitchesStep == Switches /\ Next => Switches'
<1> SUFFICES ASSUME Switches, Next PROVE Switches'
    OBVIOUS
<1> USE DEF Switches, stream
<1>1. CASE FrameIrq \/ Handler
    BY <1>1 DEF FrameIrq, Handler, Count, TriggerFires, StartFields, ClockOn, NoTrigger, Streams, SoundOn, Wake
<1>2. ASSUME NEW p \in Procs, Calls(p) PROVE Switches'
    BY <1>2 DEF Calls, Open, Release, StreamInit, StreamStart, StreamStop, SetTrig, WaitFails
<1>3. ASSUME NEW p \in Procs, InCall(p) PROVE Switches'
    BY <1>3 DEF InCall, Look, Fields, StartFields, StopFields, StartedClock, StoppedClock, StopClock, StoppedSound,
        StopSound, Arm
<1> QED BY <1>1, <1>2, <1>3 DEF Next, Process, Calls

\* A frame stores nothing while a process does.
LEMMA FrameFollows ==
    ASSUME FollowInv, taken = {}, FrameIrq \/ Handler
    PROVE  ClockFollows' /\ SoundFollows'
<1> USE DEF FollowInv, OwnedInv, AheadInv, Places, Switches, ClockFollows, SoundFollows, Stopping, procs, handler, stream
<1>1. hpc # "idle" => \A p \in Procs : ~Storing(p)
    BY DEF Ahead
<1>2. CASE FrameIrq \/ Count
    BY <1>2 DEF FrameIrq, Count
<1>3. CASE TriggerFires
    BY <1>1, <1>3 DEF TriggerFires, StartFields, Storing
<1>4. CASE ClockOn \/ NoTrigger
    BY <1>1, <1>4 DEF ClockOn, NoTrigger, Storing
<1>5. CASE Streams \/ SoundOn
    BY <1>1, <1>5 DEF Streams, SoundOn, Storing
<1>6. CASE Wake
    BY <1>1, <1>6 DEF Wake, WakeAll, Storing
<1> QED BY <1>2, <1>3, <1>4, <1>5, <1>6 DEF Handler

LEMMA CallsFollow ==
    ASSUME FollowInv, taken = {}, NEW p \in Procs, Calls(p)
    PROVE  ClockFollows' /\ SoundFollows'
<1> USE DEF FollowInv, OwnedInv, AheadInv, Places, Switches, ClockFollows, SoundFollows, Stopping, Goto, procs, handler, stream
<1>1. CASE Open(p) \/ StreamStart(p) \/ StreamStop(p) \/ WaitFails(p)
    BY <1>1 DEF Open, StreamStart, StreamStop, WaitForFrame, WaitFails, Return
<1>2. CASE Release(p)
    BY <1>2 DEF Release
<1>3. CASE \E f \in BOOLEAN : StreamInit(p, f)
    <2>1. \A q \in Procs : ~Storing(q)
        BY <1>3 DEF StreamInit, AtRest, OthersInIoctl, Storing
    <2>2. ~running /\ ~sound /\ ~atrig
        BY <1>3, <2>1 DEF StreamInit, Storing
    <2> QED BY <1>3, <2>1, <2>2 DEF StreamInit, Storing
<1>4. CASE \E t \in id .. id + MaxLead : SetTrig(p, t)
    BY <1>4 DEF SetTrig
<1> QED BY <1>1, <1>2, <1>3, <1>4 DEF Calls

LEMMA InCallFollows ==
    ASSUME FollowInv, taken = {}, NEW p \in Procs, InCall(p)
    PROVE  ClockFollows' /\ SoundFollows'
<1> USE DEF FollowInv, OwnedInv, AheadInv, Places, Switches, ClockFollows, SoundFollows, Stopping, Goto, procs, handler, stream
<1>1. CASE Look(p) \/ Arm(p)
    BY <1>1 DEF Look, Arm
<1>2. CASE Fields(p) /\ call[p] = "start"
    <2>1. \A q \in Procs \ {p} : ~Storing(q)
        BY <1>2 DEF Fields, Alone
    <2> QED BY <1>2, <2>1 DEF Fields, StartFields, Storing, Undisturbed
<1>3. CASE Fields(p) /\ call[p] # "start"
    <2>1. \A q \in Procs : at[q] = "clock" => call[q] # "start"
        BY <1>3 DEF Fields, Alone, Storing
    <2> QED BY <1>3, <2>1 DEF Fields, StopFields, Undisturbed
<1>4. CASE StartedClock(p)
    BY <1>4 DEF StartedClock, Return, Alone, Storing
<1>5. CASE StoppedClock(p)
    BY <1>5 DEF StoppedClock, StopClock
<1>6. CASE StoppedSound(p)
    BY <1>6 DEF StoppedSound, StopSound, Return, InPlace
<1> QED BY <1>1, <1>2, <1>3, <1>4, <1>5, <1>6 DEF InCall

\* For any number of processes that take no liberties: the timecode generator runs
\* while the stream does, and the sound goes with it (aja.c:1441-1464, 2052-2070).
THEOREM ClockAndSoundFollow == Spec => []FollowStream
<1>1. Init => FollowInv
    <2> SUFFICES ASSUME Init PROVE FollowInv
        OBVIOUS
    <2>1. OwnedInv
        BY DEF Init, OwnedInv, AheadInv, Places, Numbers, Ahead, Storing, InPlace, Owned
    <2>2. Alone /\ Switches
        BY DEF Init, Alone, Storing, Switches
    <2>3. ClockFollows /\ SoundFollows
        BY DEF Init, ClockFollows, SoundFollows, Stopping
    <2> QED BY <2>1, <2>2, <2>3 DEF FollowInv
<1>2. FollowInv /\ Next => FollowInv'
    <2> SUFFICES ASSUME FollowInv, Next PROVE FollowInv'
        OBVIOUS
    <2>1. OwnedInv' /\ Alone' /\ Switches'
        BY PlacesStep, NumbersStep, AheadStep, InPlaceStep, OwnedStep, AloneStep, SwitchesStep
        DEF FollowInv, OwnedInv, AheadInv
    <2>2. CASE taken = {}
        BY <2>1, <2>2, FrameFollows, CallsFollow, InCallFollows DEF FollowInv, Next, Process, Calls
    <2>3. CASE taken # {}
        BY <2>1, <2>3, TakenStays DEF FollowInv, ClockFollows, SoundFollows
    <2> QED BY <2>2, <2>3
<1>3. FollowInv /\ UNCHANGED vars => FollowInv'
    BY DEF vars, stream, handler, procs, FollowInv, OwnedInv, AheadInv, Places, Numbers, Ahead, Storing, InPlace,
        Owned, Alone, Switches, ClockFollows, SoundFollows, Stopping
<1>4. FollowInv => FollowStream
    BY DEF FollowInv, OwnedInv, AheadInv, Places, Switches, ClockFollows, SoundFollows, Stopping, FollowStream,
        ClockInStep, SoundInStep, Quiet, Storing
<1> QED BY <1>1, <1>2, <1>3, <1>4, PTL DEF Spec
=============================================================================
