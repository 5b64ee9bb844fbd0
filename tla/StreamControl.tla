--------------------------- MODULE StreamControl ---------------------------
(***************************************************************************)
(* Starting and stopping the AJA driver's stream (src/src/aja.c): the      *)
(* frame interrupt counts frames and starts the stream at its trigger;     *)
(* processes initialise, start, stop, set the trigger and go away.  With   *)
(* the stream go the timecode generator and, on request, the card's audio. *)
(*                                                                         *)
(* The handler and the processes run on different processors.  None of     *)
(* these fields is locked, so a step is a few stores that nobody else      *)
(* looks at in between.  What the code leaves to luck and good behaviour   *)
(* (`Liberties'), and a behaviour may take any of it (taken):              *)
(*   "midFrame"   the stores of an ioctl and those of the handler mix; else *)
(*                an ioctl that a frame woke ends before the next frame    *)
(*   "anyTime"    STREAM_INIT of a stream that runs, or is being started   *)
(*   "orphan"     a process closes the device with its trigger set, or     *)
(*                starts a stream that is not its own                      *)
(***************************************************************************)
EXTENDS Integers, FiniteSets

CONSTANTS
    Procs,
    NoOne,      \* owner of a stream nobody initialised
    MaxId,      \* bound of the model: frames
    MaxLead     \* bound of the model: frames a trigger is set ahead

ASSUME OwnerAssumption == NoOne \notin Procs
ASSUME BoundsAssumption == MaxId \in Nat /\ MaxLead \in Nat

Liberties == {"midFrame", "anyTime", "orphan"}

VARIABLES
    taken,      \* constant of the behaviour
    id,         \* frame.id
    \* stream
    owner,      \* pid
    audio,      \* flags & AJA_TriggerAudio
    trigger, running, atrig,
    \* tcg.flags & AJA_TCG_Running, and whether the card's audio runs
    clock, sound,
    \* the handler
    hpc,        \* "idle", "count", "check", "clock", "streams", "sound", "wake"
    trig, srun, \* its local copies
    \* the processes
    at,         \* "closed", "user", "arm", "look", "asleep", "fields", "clock", "sound"
    call,       \* the call a process is in: "start", "stop", "close"
    cid,        \* the frame it began to wait in
    arg         \* the trigger it sets

stream  == <<owner, audio, trigger, running, atrig>>
handler == <<hpc, trig, srun>>
procs   == <<at, call, cid, arg>>
vars    == <<taken, id, stream, clock, sound, handler, procs>>

Init ==
    /\ taken \in SUBSET Liberties
    /\ id = 0
    /\ owner = NoOne /\ audio = FALSE
    /\ trigger = 0 /\ running = FALSE /\ atrig = FALSE
    /\ clock = FALSE /\ sound = FALSE
    /\ hpc = "idle" /\ trig = 0 /\ srun = FALSE
    /\ at = [p \in Procs |-> "closed"]
    /\ call = [p \in Procs |-> "none"]
    /\ cid = [p \in Procs |-> 0] /\ arg = [p \in Procs |-> 0]

Storing(p) == at[p] \in {"arm", "fields", "clock", "sound"}

\* The kernel lets one ioctl run at a time, until it sleeps (struct
\* file_operations.ioctl); the release of a file is not an ioctl.
OthersInIoctl(p) == \E q \in Procs \ {p} : Storing(q) /\ call[q] # "close"

\* A process gets to store something.
Undisturbed == hpc = "idle" \/ "midFrame" \in taken

Goto(p, l) == at' = [at EXCEPT ![p] = l]

-----------------------------------------------------------------------------
(* Faulty variants. *)

\* A trigger for this very frame is accepted.
TriggerPassed(t) == id > t

\* The clock is left running when the stream stops.
LeaveClock == UNCHANGED clock

\* The owner is taken for a stranger.
OwnsOther(p) == running /\ owner # p

\* Nobody is woken for a frame without a stream.
WakeIfRunning ==
    at' = [p \in Procs |-> IF at[p] = "asleep" /\ srun THEN "look" ELSE at[p]]

-----------------------------------------------------------------------------
(* aja_stream_start, called by the handler and by the ioctl. *)

StartFields == trigger' = 0 /\ atrig' = audio /\ running' = TRUE
StopFields  == trigger' = 0 /\ atrig' = FALSE /\ running' = FALSE

-----------------------------------------------------------------------------
(* aja_handle_frame, for the first field of a frame. *)

FrameIrq ==
    /\ hpc = "idle"
    /\ id < MaxId
    /\ "midFrame" \in taken \/ \A p \in Procs : ~Storing(p) /\ at[p] # "look"
    /\ trig' = trigger
    /\ srun' = running
    /\ hpc' = "count"
    /\ UNCHANGED <<taken, id, stream, clock, sound, procs>>

NextFrame == id' = id + 1

Count ==
    /\ hpc = "count"
    /\ NextFrame
    /\ hpc' = "check"
    /\ UNCHANGED <<taken, stream, clock, sound, trig, srun, procs>>

TriggerFires ==
    /\ hpc = "check"
    /\ trig # 0 /\ trig = id
    /\ StartFields
    /\ hpc' = "clock"
    /\ UNCHANGED <<taken, id, owner, audio, clock, sound, trig, srun, procs>>

ClockOn ==
    /\ hpc = "clock"
    /\ clock' = TRUE
    /\ hpc' = "streams"
    /\ UNCHANGED <<taken, id, stream, sound, trig, srun, procs>>

NoTrigger ==
    /\ hpc = "check"
    /\ trig = 0 \/ trig # id
    /\ hpc' = "streams"
    /\ UNCHANGED <<taken, id, stream, clock, sound, trig, srun, procs>>

\* The audio goes with a stream that ran when the frame began.
Streams ==
    /\ hpc = "streams"
    /\ hpc' = IF srun /\ atrig THEN "sound" ELSE "wake"
    /\ UNCHANGED <<taken, id, stream, clock, sound, trig, srun, procs>>

SoundOn ==
    /\ hpc = "sound"
    /\ sound' = TRUE
    /\ atrig' = FALSE
    /\ hpc' = "wake"
    /\ UNCHANGED <<taken, id, owner, audio, trigger, running, clock, trig, srun, procs>>

WakeAll == at' = [p \in Procs |-> IF at[p] = "asleep" THEN "look" ELSE at[p]]

Wake ==
    /\ hpc = "wake"
    /\ WakeAll
    /\ hpc' = "idle" /\ trig' = 0 /\ srun' = FALSE
    /\ UNCHANGED <<taken, id, stream, clock, sound, call, cid, arg>>

Handler ==
    Count \/ TriggerFires \/ ClockOn \/ NoTrigger \/ Streams \/ SoundOn \/ Wake

-----------------------------------------------------------------------------
(* The processes. *)

AtRest == \A p \in Procs : call[p] \notin {"start", "close"} /\ at[p] # "arm"

Open(p) ==
    /\ at[p] = "closed"
    /\ Goto(p, "user")
    /\ UNCHANGED <<taken, id, stream, clock, sound, handler, call, cid, arg>>

\* aja_stream_clear and the new flags.  atrig, the clock and the audio are not
\* touched.
StreamInit(p, f) ==
    /\ at[p] = "user" /\ Undisturbed /\ ~OthersInIoctl(p)
    /\ "anyTime" \in taken \/ (~running /\ trigger = 0 /\ AtRest)
    /\ owner' = p /\ audio' = f
    /\ running' = FALSE /\ trigger' = 0
    /\ UNCHANGED <<taken, id, atrig, clock, sound, handler, procs>>

MayStart(p) == owner = p \/ "orphan" \in taken

WaitForFrame(p, c) ==
    /\ ~OthersInIoctl(p)
    /\ cid' = [cid EXCEPT ![p] = id]
    /\ call' = [call EXCEPT ![p] = c]
    /\ Goto(p, "look")

\* A stream that runs is not started again, as far as one can tell before the
\* wait.
StreamStart(p) ==
    /\ at[p] = "user" /\ MayStart(p)
    /\ ~running
    /\ WaitForFrame(p, "start")
    /\ UNCHANGED <<taken, id, stream, clock, sound, handler, arg>>

StreamStop(p) ==
    /\ at[p] = "user"
    /\ WaitForFrame(p, "stop")
    /\ UNCHANGED <<taken, id, stream, clock, sound, handler, arg>>

\* wait_event: awake, the process looks for a new frame.
Look(p) ==
    /\ at[p] = "look" /\ ~OthersInIoctl(p)
    /\ IF id # cid[p] THEN Undisturbed /\ Goto(p, "fields") ELSE Goto(p, "asleep")
    /\ UNCHANGED <<taken, id, stream, clock, sound, handler, call, cid, arg>>

Return(p) ==
    /\ Goto(p, IF call[p] = "close" THEN "closed" ELSE "user")
    /\ call' = [call EXCEPT ![p] = "none"]
    /\ cid' = [cid EXCEPT ![p] = 0]

\* A signal, or a quarter of a second without a frame.
WaitFails(p) ==
    /\ at[p] \in {"look", "asleep"}
    /\ Return(p)
    /\ UNCHANGED <<taken, id, stream, clock, sound, handler, arg>>

Fields(p) ==
    /\ at[p] = "fields" /\ Undisturbed
    /\ IF call[p] = "start" THEN StartFields ELSE StopFields
    /\ Goto(p, "clock")
    /\ UNCHANGED <<taken, id, owner, audio, clock, sound, handler, call, cid, arg>>

StopClock == clock' = FALSE

\* aja_timecode_setflags and clrflags.
StartedClock(p) ==
    /\ at[p] = "clock" /\ call[p] = "start" /\ Undisturbed
    /\ clock' = TRUE
    /\ Return(p)
    /\ UNCHANGED <<taken, id, stream, sound, handler, arg>>

StoppedClock(p) ==
    /\ at[p] = "clock" /\ call[p] # "start" /\ Undisturbed
    /\ StopClock
    /\ Goto(p, "sound")
    /\ UNCHANGED <<taken, id, stream, sound, handler, call, cid, arg>>

StopSound == sound' = (sound /\ ~audio)

StoppedSound(p) ==
    /\ at[p] = "sound" /\ Undisturbed
    /\ StopSound
    /\ Return(p)
    /\ UNCHANGED <<taken, id, stream, clock, handler, arg>>

Passed(t) == id >= t

SetTrig(p, t) ==
    /\ at[p] = "user" /\ Undisturbed /\ ~OthersInIoctl(p) /\ MayStart(p)
    /\ ~Passed(t)
    /\ arg' = [arg EXCEPT ![p] = t]
    /\ Goto(p, "arm")
    /\ UNCHANGED <<taken, id, stream, clock, sound, handler, call, cid>>

Arm(p) ==
    /\ at[p] = "arm" /\ Undisturbed
    /\ trigger' = arg[p]
    /\ arg' = [arg EXCEPT ![p] = 0]
    /\ Goto(p, "user")
    /\ UNCHANGED <<taken, id, owner, audio, running, atrig, clock, sound, handler, call, cid>>

OwnsRunning(p) == running /\ owner = p

\* The process that owns a running stream takes it along.
Release(p) ==
    /\ at[p] = "user" /\ Undisturbed
    /\ "orphan" \in taken \/ owner # p \/ trigger = 0
    /\ IF OwnsRunning(p)
       THEN call' = [call EXCEPT ![p] = "close"] /\ Goto(p, "fields")
       ELSE Goto(p, "closed") /\ UNCHANGED call
    /\ UNCHANGED <<taken, id, stream, clock, sound, handler, cid, arg>>

\* What a call does once it was made.
InCall(p) ==
    Look(p) \/ Fields(p) \/ StartedClock(p) \/ StoppedClock(p) \/ StoppedSound(p) \/ Arm(p)

Process(p) ==
    \/ Open(p) \/ Release(p)
    \/ \E f \in BOOLEAN : StreamInit(p, f)
    \/ StreamStart(p) \/ StreamStop(p)
    \/ \E t \in id .. id + MaxLead : SetTrig(p, t)
    \/ InCall(p) \/ WaitFails(p)

Next == FrameIrq \/ Handler \/ \E p \in Procs : Process(p)

Spec == Init /\ [][Next]_vars

-----------------------------------------------------------------------------
(* Properties *)

\* Type correctness of the stream's control fields (aja_stream_t, aja.c:339-362).
TypeOK ==
    /\ taken \subseteq Liberties
    /\ id \in 0 .. MaxId
    /\ owner \in Procs \cup {NoOne}
    /\ audio \in BOOLEAN /\ running \in BOOLEAN /\ atrig \in BOOLEAN
    /\ trigger \in 0 .. MaxId + MaxLead
    /\ clock \in BOOLEAN /\ sound \in BOOLEAN
    /\ hpc \in {"idle", "count", "check", "clock", "streams", "sound", "wake"}
    /\ trig \in 0 .. MaxId + MaxLead /\ srun \in BOOLEAN
    /\ at \in [Procs -> {"closed", "user", "arm", "look", "asleep", "fields", "clock", "sound"}]
    /\ call \in [Procs -> {"none", "start", "stop", "close"}]
    /\ cid \in [Procs -> 0 .. MaxId] /\ arg \in [Procs -> 0 .. MaxId + MaxLead]

Quiet == hpc = "idle" /\ \A p \in Procs : ~Storing(p)

\* Between the frames a trigger that is set lies ahead: it has not been passed
\* over and will be met (aja.c:1617, 2037-2052).
TriggerAhead ==
    ("midFrame" \notin taken /\ hpc = "idle" /\ trigger # 0) => trigger > id

\* The timecode generator runs while the stream does and not longer, whoever
\* started or stopped it (aja.c:1446, 1455, 2052).
ClockInStep ==
    (Quiet /\ taken = {}) => clock = running

\* The audio that was to go with the stream does not outlast it, and is on from
\* the frame after the start (aja.c:1443, 1457-1460, 2067-2070).
SoundInStep ==
    (Quiet /\ taken = {}) =>
        IF sound THEN running /\ audio ELSE (running /\ audio) => atrig

\* Clock and audio follow the stream (aja.c:1441-1464, 2052-2070).
FollowStream == ClockInStep /\ SoundInStep

\* A stream does not outlive the process that owns it (aja.c:2298-2302).
NoOrphan ==
    (Quiet /\ running /\ taken = {}) =>
        owner \in Procs /\ at[owner] # "closed"

\* Nobody sleeps through a frame: between the frames, whoever sleeps waits for
\* the next one, however its call and the handler interleave (aja.c:1283-1290,
\* 2106).
SleepersUpToDate ==
    hpc = "idle" => \A p \in Procs : at[p] = "asleep" => cid[p] = id
=============================================================================
