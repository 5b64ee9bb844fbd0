---------------------------- MODULE AudioFrames ----------------------------
(***************************************************************************)
(* Playing a number of frames of sound (src/src/aja.c:546-559, 1681-1690   *)
(* and 2116-2127): user space adds to a count of frames; the handler       *)
(* starts playback at the first frame it finds a count, counts down by one *)
(* with each frame after that, and stops playback at zero.  The count is   *)
(* atomic, but looking at it, counting down and starting or stopping are   *)
(* steps of their own, and additions come in between.                      *)
(*                                                                         *)
(* What only a careless program does: take frames back with a negative     *)
(* addition, or start and stop playback itself.                            *)
(***************************************************************************)
EXTENDS Integers

CONSTANTS
    MaxAdd        \* bound of the model: frames added in all, or taken back

VARIABLES
    careless,
    frames,      \* aplay.frames
    running,     \* aplay.running
    reset,       \* the card's aplayreset: while 1, no sound
    todo,        \* what the handler is about to do
    \* history, of programs that are not careless
    added,       \* frames of sound added
    heard        \* frames of sound that could be heard

vars == <<careless, frames, running, reset, todo, added, heard>>

Init ==
    /\ careless \in BOOLEAN
    /\ frames = 0 /\ running = 0 /\ reset = 1
    /\ todo = "idle"
    /\ added = 0 /\ heard = 0

Playing == reset = 0

-----------------------------------------------------------------------------
(* Faulty variants. *)

\* The frame that starts playback is counted already.
EagerStart == todo' = "start" /\ frames' = frames - 1

-----------------------------------------------------------------------------
(* aja_handle_frame, the start of a frame *)

Begin == todo' = "start" /\ UNCHANGED frames

\* One more frame has passed; the handler looks at the count, and at running.
Tick ==
    /\ todo = "idle" /\ frames > -MaxAdd
    /\ heard' = IF Playing /\ ~careless THEN heard + 1 ELSE heard
    /\ CASE frames = 0 -> UNCHANGED <<todo, frames>>
         [] frames # 0 /\ running = 1 -> todo' = "count" /\ UNCHANGED frames
         [] frames # 0 /\ running = 0 -> Begin
    /\ UNCHANGED <<careless, running, reset, added>>

\* atomic_dec_and_test
CountDown ==
    /\ todo = "count"
    /\ frames' = frames - 1
    /\ todo' = IF frames = 1 THEN "stop" ELSE "idle"
    /\ UNCHANGED <<careless, running, reset, added, heard>>

\* running is cleared, then aja_aplay_stop.
Stop ==
    /\ todo = "stop"
    /\ running' = 0
    /\ reset' = 1
    /\ todo' = "idle"
    /\ UNCHANGED <<careless, frames, added, heard>>

\* running is set, then aja_aplay_start: a pulse of reset.
Start ==
    /\ todo = "start"
    /\ running' = 1
    /\ reset' = 0
    /\ todo' = "idle"
    /\ UNCHANGED <<careless, frames, added, heard>>

Handle == CountDown \/ Stop \/ Start

-----------------------------------------------------------------------------
(* aja_ioctl_aframe_add, and the ioctls of playback *)

Add(n) ==
    /\ IF careless THEN frames + n \in -MaxAdd .. MaxAdd ELSE n > 0 /\ added + n <= MaxAdd
    /\ frames' = frames + n
    /\ added' = IF careless THEN added ELSE added + n
    /\ UNCHANGED <<careless, running, reset, todo, heard>>

Playback(on) ==
    /\ careless
    /\ reset' = IF on THEN 0 ELSE 1
    /\ UNCHANGED <<careless, frames, running, todo, added, heard>>

Next ==
    \/ Tick \/ Handle
    \/ \E n \in -1 .. MaxAdd : Add(n)
    \/ \E on \in BOOLEAN : Playback(on)

Spec == Init /\ [][Next]_vars

-----------------------------------------------------------------------------
(* Properties *)

\* No frame that was added is lost and none is heard twice, however the
\* additions fall between the handler's steps: what was heard and what is still
\* to come make up what was added, and sound is on only while some is to come
\* (aja.c:2117-2127).
PlaysWhatWasAdded ==
    (todo = "idle" /\ ~careless) =>
        /\ heard + frames = added
        /\ Playing => frames > 0
=============================================================================
