------------------------------ MODULE PageFifo ------------------------------
(***************************************************************************)
(* What the video stream of the AJA driver promises about its page         *)
(* buffers, without saying how.  A page has one owner at a time:           *)
(*                                                                         *)
(*   playback   free -> client -> queue -> card -> free                    *)
(*   capture    free -> card -> queue -> client -> free                    *)
(*                                                                         *)
(* and the pages of the queue leave it in the order in which they entered. *)
(* StreamPages is the driver's implementation of this module.              *)
(***************************************************************************)
EXTENDS Sequences

CONSTANT Page

VARIABLES
    owner,      \* who may touch a page: "free", "client", "queue" or "card"
    queue       \* the pages waiting, oldest first

vars == <<owner, queue>>

Owners == {"free", "client", "queue", "card"}

Init ==
    /\ owner = [p \in Page |-> "free"]
    /\ queue = <<>>

Hand(p, from, to) ==
    /\ owner[p] = from
    /\ owner' = [owner EXCEPT ![p] = to]

Enqueue(p, from) ==
    /\ Hand(p, from, "queue")
    /\ queue' = Append(queue, p)

Dequeue(to) ==
    /\ queue # <<>>
    /\ Hand(Head(queue), "queue", to)
    /\ queue' = Tail(queue)

\* The client asks for a page, gives one back, queues one, takes one.
ClientAlloc(p) == Hand(p, "free", "client") /\ UNCHANGED queue
ClientFree(p)  == Hand(p, "client", "free") /\ UNCHANGED queue
ClientPush(p)  == Enqueue(p, "client")
ClientPop      == Dequeue("client")

\* The frame handler takes the oldest page for output or a free page for
\* input, and at the next frame gives it back or queues it.
CardPlay       == Dequeue("card")
CardPlayed(p)  == Hand(p, "card", "free") /\ UNCHANGED queue
CardCapture(p) == Hand(p, "free", "card") /\ UNCHANGED queue
CardCaptured(p) == Enqueue(p, "card")

\* A new stream forgets everything.
Reset ==
    /\ owner' = [p \in Page |-> "free"]
    /\ queue' = <<>>

Next ==
    \/ \E p \in Page :
         \/ ClientAlloc(p)
         \/ ClientFree(p)
         \/ ClientPush(p)
         \/ CardPlayed(p)
         \/ CardCapture(p)
         \/ CardCaptured(p)
    \/ ClientPop
    \/ CardPlay
    \/ Reset

Spec == Init /\ [][Next]_vars

-----------------------------------------------------------------------------
\* Type correctness of the abstract stream: every page has one known owner and
\* only pages are queued (the stream's page table and FIFO, aja.c:423-453).
TypeOK ==
    /\ owner \in [Page -> Owners]
    /\ queue \in Seq(Page)
=============================================================================
