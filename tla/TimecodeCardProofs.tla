------------------------- MODULE TimecodeCardProofs -------------------------
(***************************************************************************)
(* Theorems about the LTC card, for any number of callers: its registers   *)
(* are mapped whenever they are touched, a reading that the validation     *)
(* bytes let pass is one frame's, and what a write or a run reports was    *)
(* done.  And about the devices, for any number of cards: one that is gone *)
(* has left nothing, and who uses one finds it.                            *)
(***************************************************************************)
EXTENDS Timecode, Integers, SequenceTheorems, TLAPS

\* A caller between its call and its return, and what it was called for.
In(p, kinds) == pc[p] \notin {"idle", "return"} /\ job[p].kind \in kinds

Kinds     == {"none", "read", "write", "run", "sync", "probe", "remove"}
Reading   == {"signal", "first", "tcode", "ubits", "second"}
Mailbox   == {"quiet", "post", "answer", "drain", "clear", "poke"}
Attaching == {"register", "add", "unregister", "drained"}

-----------------------------------------------------------------------------
(* Where callers are. *)

Jobs ==
    /\ pc \in [Callers -> {"idle", "return"} \cup Reading \cup Mailbox \cup Attaching]
    /\ job \in [Callers -> [kind : Kinds, part : {"none", "serial", "setup", "load"}, fps : Rates \cup {0}, arg : Codes \cup {0, 1}]]
    /\ \A p \in Callers :
         /\ pc[p] # "idle" => job[p].kind # "none"
         /\ pc[p] \in Reading => job[p].kind = "read"
         /\ pc[p] \in Mailbox => job[p].kind \in Commanding
         /\ pc[p] \in Attaching => job[p].kind \in {"probe", "remove"}

LEMMA ScriptStarts == ASSUME NEW s PROVE FirstStep(s) \in {"quiet", "poke"}
BY DEF FirstStep

\* A script that goes on stays with the mailbox; one that ends returns, and a
\* probe registers the card.
LEMMA PartEndsJobs ==
    ASSUME Jobs, NEW p \in Callers, pc[p] \in Mailbox, NEW good, PartEnds(p, good)
    PROVE  /\ Jobs'
           /\ \A q \in Callers : job'[q].kind = job[q].kind
           /\ \A q \in Callers \ {p} : pc'[q] = pc[q]
           /\ pc'[p] \in Mailbox \cup {"register", "return"}
           /\ pc'[p] = "register" => job[p].kind = "probe"
<1>1. PICK part \in {"none", "serial", "setup", "load"}, l \in {"quiet", "poke", "register", "return"} :
         /\ pc' = [pc EXCEPT ![p] = l]
         /\ job' = job \/ job' = [job EXCEPT ![p].part = part]
         /\ l = "register" => job[p].kind = "probe"
    <2>1. CASE job[p].part = "serial"
        BY <2>1, ScriptStarts DEF PartEnds, Begin, Goto, Jobs
    <2>2. CASE job[p].part = "setup" /\ job[p].kind = "probe"
        BY <2>2 DEF PartEnds, Goto, Jobs
    <2>3. CASE job[p].part = "setup" /\ job[p].kind = "write"
        BY <2>3, ScriptStarts DEF PartEnds, Begin, Goto, Jobs
    <2>4. CASE job[p].part # "serial" /\ ~(job[p].part = "setup" /\ job[p].kind \in {"probe", "write"})
        BY <2>4 DEF PartEnds, Returns, Goto, Jobs
    <2> QED BY <2>1, <2>2, <2>3, <2>4
<1>2. \A q \in Callers : job'[q].kind = job[q].kind
    BY <1>1 DEF Jobs
<1>3. job' \in [Callers -> [kind : Kinds, part : {"none", "serial", "setup", "load"}, fps : Rates \cup {0}, arg : Codes \cup {0, 1}]]
    BY <1>1 DEF Jobs
<1>4. pc' \in [Callers -> {"idle", "return"} \cup Reading \cup Mailbox \cup Attaching]
    BY <1>1 DEF Jobs, Mailbox, Attaching
<1>5. \A q \in Callers \ {p} : pc'[q] = pc[q]
    BY <1>1 DEF Jobs
<1>6. /\ pc'[p] \in {"quiet", "poke", "register", "return"}
      /\ pc'[p] = "register" => job[p].kind = "probe"
    BY <1>1 DEF Jobs
<1>7. job[p].kind \in Commanding /\ job[p].kind # "none"
    BY DEF Jobs, Commanding
<1>8. ASSUME NEW q \in Callers
      PROVE  /\ pc'[q] # "idle" => job'[q].kind # "none"
             /\ pc'[q] \in Reading => job'[q].kind = "read"
             /\ pc'[q] \in Mailbox => job'[q].kind \in Commanding
             /\ pc'[q] \in Attaching => job'[q].kind \in {"probe", "remove"}
    <2>1. CASE q = p
        BY <2>1, <1>2, <1>6, <1>7 DEF Mailbox, Reading, Attaching
    <2>2. CASE q # p
        BY <2>2, <1>2, <1>5 DEF Jobs
    <2> QED BY <2>1, <2>2
<1> QED BY <1>2, <1>3, <1>4, <1>5, <1>6, <1>8 DEF Jobs, Mailbox
-----------------------------------------------------------------------------
(* Who keeps the registers mapped. *)

\* A probe or a removal that is under way is alone with the card, and until it
\* registers the card, or once it has drained it, nobody can read.
NoReader == \A q \in Callers : pc[q] \notin Reading
Owner(p) == In(p, {"probe", "remove"})

Attached ==
    /\ mapped \in BOOLEAN /\ files \in BOOLEAN /\ handle \in BOOLEAN
    /\ handle => mapped
    /\ files => mapped
    /\ \A p \in Callers : pc[p] \in Reading \cup Mailbox => mapped
    /\ \A p \in Callers : Owner(p) =>
         /\ mapped /\ ~handle
         /\ \A q \in Callers \ {p} : ~Owner(q) /\ pc[q] \notin Mailbox
    /\ \A p \in Callers : Owner(p) /\ pc[p] \in Mailbox \cup {"register", "drained"} => ~files /\ NoReader

MInv == Jobs /\ Attached

\* A step of one caller that stays with what it does, or returns.
LEMMA CallGoesOn ==
    ASSUME MInv, NEW p \in Callers, Jobs',
           pc[p] \in Reading \cup Mailbox,
           \A q \in Callers : job'[q].kind = job[q].kind,
           \A q \in Callers \ {p} : pc'[q] = pc[q],
           pc[p] \in Reading => pc'[p] \in Reading \cup {"return"},
           pc[p] \in Mailbox => pc'[p] \in Mailbox \cup {"register", "return"},
           UNCHANGED <<mapped, files, handle>>
    PROVE  MInv'
<1>1. \A q \in Callers : Owner(q)' => Owner(q)
    BY DEF Owner, In, Reading, Mailbox
<1>2. \A q \in Callers : pc'[q] \in Reading => pc[q] \in Reading
    BY DEF Reading, Mailbox
<1>3. \A q \in Callers : pc'[q] \in Mailbox => pc[q] \in Mailbox
    BY DEF Reading, Mailbox
<1>4. \A q \in Callers : pc'[q] \in Mailbox \cup {"register", "drained"} => pc[q] \in Mailbox \cup {"register", "drained"}
    BY DEF Reading, Mailbox
<1>5. NoReader => NoReader'
    BY <1>2 DEF NoReader
<1> QED BY <1>1, <1>2, <1>3, <1>4, <1>5 DEF MInv, Attached

\* What the mailbox's steps do to a caller: it goes on, registers, or returns.
LEMMA MailboxMoves ==
    ASSUME Jobs, NEW p \in Callers, Poll(p) \/ GiveUp(p) \/ PostCommand(p) \/ WriteDone(p)
    PROVE  /\ pc[p] \in Mailbox /\ Jobs'
           /\ \A q \in Callers : job'[q].kind = job[q].kind
           /\ \A q \in Callers \ {p} : pc'[q] = pc[q]
           /\ pc'[p] \in Mailbox \cup {"register", "return"}
<1>1. pc[p] \in Mailbox
    BY DEF Poll, GiveUp, PostCommand, WriteDone, Follows, Mailbox
<1>2. CASE \E l \in Mailbox : Goto(p, l) /\ job' = job
    BY <1>1, <1>2 DEF Jobs, Goto, Mailbox, Reading, Attaching
<1>3. CASE \E good \in BOOLEAN : PartEnds(p, good)
    BY <1>1, <1>3, PartEndsJobs
<1>4. CASE Poll(p)
    <2>1. PICK l \in {pc[p], Follows[pc[p]]} : Goto(p, l) /\ job' = job
        BY <1>4 DEF Poll
    <2>2. l \in Mailbox
        BY <1>4 DEF Poll, Follows, Mailbox
    <2> QED BY <1>2, <2>1, <2>2
<1>5. CASE GiveUp(p)
    BY <1>3, <1>5 DEF GiveUp
<1>6. CASE PostCommand(p)
    BY <1>2, <1>6 DEF PostCommand, Mailbox
<1>7. CASE WriteDone(p)
    <2>1. CASE Len(todo[p]) > 1
        <3>1. Goto(p, FirstStep(Tail(todo[p]))) /\ job' = job
            BY <1>7, <2>1 DEF WriteDone, StepDone
        <3>2. FirstStep(Tail(todo[p])) \in Mailbox
            BY ScriptStarts DEF Mailbox
        <3> QED BY <1>2, <3>1, <3>2
    <2>2. CASE ~(Len(todo[p]) > 1)
        BY <1>3, <1>7, <2>2 DEF WriteDone, StepDone
    <2> QED BY <2>1, <2>2
<1> QED BY <1>4, <1>5, <1>6, <1>7

LEMMA MailboxStep ==
    ASSUME MInv, NEW p \in Callers, Poll(p) \/ GiveUp(p) \/ PostCommand(p) \/ WriteDone(p)
    PROVE  MInv'
<1>1. UNCHANGED <<mapped, files, handle>>
    BY DEF Poll, GiveUp, PostCommand, WriteDone, device
<1> QED BY <1>1, MailboxMoves, CallGoesOn DEF MInv, Mailbox, Reading

LEMMA ReadingStep ==
    ASSUME MInv, NEW p \in Callers, ReadSignal(p) \/ ReadField(p) \/ ReadCheck(p)
    PROVE  MInv'
<1>1. pc[p] \in Reading /\ UNCHANGED <<mapped, files, handle, job>>
    BY DEF ReadSignal, ReadField, ReadCheck, Reading, device
<1>2. PICK l \in Reading \cup {"return"} : pc' = [pc EXCEPT ![p] = l]
    <2>1. CASE ReadSignal(p)
        BY <2>1 DEF ReadSignal, Goto, Returns, Reading
    <2>2. CASE ReadField(p)
        BY <2>2 DEF ReadField, Goto, Reading
    <2>3. CASE ReadCheck(p)
        <3>1. Goto(p, "return") \/ Goto(p, "first")
            BY <2>3 DEF ReadCheck, Returns
        <3> QED BY <3>1 DEF Goto, Reading
    <2> QED BY <2>1, <2>2, <2>3
<1>3. Jobs'
    BY <1>1, <1>2 DEF MInv, Jobs, Reading, Mailbox, Attaching
<1> QED BY <1>1, <1>2, <1>3, CallGoesOn DEF MInv, Jobs, Reading, Mailbox

-----------------------------------------------------------------------------
(* Calls begin and end. *)

\* A call begins: only who calls changes what it does.
LEMMA CallBegins ==
    ASSUME Jobs, NEW p \in Callers, NEW l \in Reading \cup Mailbox \cup Attaching,
           NEW j \in [kind : Kinds, part : {"none", "serial", "setup", "load"}, fps : Rates \cup {0}, arg : Codes \cup {0, 1}],
           j.kind # "none",
           l \in Reading => j.kind = "read",
           l \in Mailbox => j.kind \in Commanding,
           l \in Attaching => j.kind \in {"probe", "remove"},
           pc' = [pc EXCEPT ![p] = l], job' = [job EXCEPT ![p] = j]
    PROVE  Jobs'
BY DEF Jobs, Reading, Mailbox, Attaching

LEMMA ReadBegins ==
    ASSUME MInv, NEW p \in Callers, Read(p)
    PROVE  MInv'
<1> DEFINE j == [Nothing EXCEPT !.kind = "read"]
<1>1. /\ files /\ UNCHANGED <<mapped, files, handle>>
      /\ pc[p] = "idle" /\ pc' = [pc EXCEPT ![p] = "signal"] /\ job' = [job EXCEPT ![p] = j]
    BY DEF Read, Enter, Goto, device
<1>2. Jobs'
    <2>1. /\ j.kind = "read"
          /\ j \in [kind : Kinds, part : {"none", "serial", "setup", "load"}, fps : Rates \cup {0}, arg : Codes \cup {0, 1}]
        BY DEF Nothing, Kinds
    <2> HIDE DEF j
    <2> QED BY <1>1, <2>1, CallBegins DEF MInv, Reading, Mailbox, Attaching
<1>3. pc'[p] = "signal" /\ job'[p].kind = "read" /\ \A q \in Callers \ {p} : pc'[q] = pc[q] /\ job'[q] = job[q]
    BY <1>1 DEF MInv, Jobs, Nothing
<1>4. \A q \in Callers : Owner(q)' => q # p /\ Owner(q)
    BY <1>3 DEF Owner, In
<1>5. \A q \in Callers : pc'[q] \in Mailbox \cup {"register", "drained"} => q # p /\ pc'[q] = pc[q]
    BY <1>3 DEF Mailbox
<1>6. \A q \in Callers : pc'[q] \in Reading \cup Mailbox => q = p \/ pc'[q] = pc[q]
    BY <1>3
<1> QED BY <1>1, <1>2, <1>4, <1>5, <1>6 DEF MInv, Attached

LEMMA CommandBegins ==
    ASSUME MInv, NEW p \in Callers,
           (\E fps \in Rates, code \in Codes : Write(p, fps, code))
             \/ (\E val \in {0, 1} : RunOrSync(p, "run", val)) \/ RunOrSync(p, "sync", 1)
    PROVE  MInv'
<1> DEFINE Fits(j) ==
        /\ j \in [kind : Kinds, part : {"none", "serial", "setup", "load"}, fps : Rates \cup {0}, arg : Codes \cup {0, 1}]
        /\ j.kind \in {"write", "run", "sync"}
       Begins(j, l) == pc' = [pc EXCEPT ![p] = l] /\ job' = [job EXCEPT ![p] = j]
<1>1. handle /\ UNCHANGED <<mapped, files, handle>> /\ pc[p] = "idle"
    BY DEF Write, RunOrSync, Enter, device
<1>2. PICK j, l : Fits(j) /\ l \in {"quiet", "poke"} /\ Begins(j, l)
    <2>1. ASSUME NEW fps \in Rates, NEW code \in Codes, Write(p, fps, code)
          PROVE  \E j, l : Fits(j) /\ l \in {"quiet", "poke"} /\ Begins(j, l)
        <3> DEFINE j == [kind |-> "write", fps |-> fps, arg |-> code,
                         part |-> IF NeedsSetup(fps) THEN "setup" ELSE "load"]
                   s == IF NeedsSetup(fps) THEN SetupScript(fps) ELSE LoadScript(code)
        <3>1. Begins(j, FirstStep(s))
            BY <2>1 DEF Write, Goto
        <3>2. FirstStep(s) \in {"quiet", "poke"}
            BY ScriptStarts
        <3>3. Fits(j)
            BY DEF Kinds
        <3> HIDE DEF j, s, Fits, Begins
        <3> QED BY <3>1, <3>2, <3>3
    <2>2. ASSUME NEW kind \in {"run", "sync"}, NEW val \in {0, 1}, RunOrSync(p, kind, val)
          PROVE  \E j, l : Fits(j) /\ l \in {"quiet", "poke"} /\ Begins(j, l)
        <3> DEFINE j == [Nothing EXCEPT !.kind = kind, !.arg = val]
                   s == IF kind = "run" THEN <<Command("run", val)>> ELSE <<Poke("sync", val)>>
        <3>1. Begins(j, FirstStep(s))
            BY <2>2 DEF RunOrSync, Goto
        <3>2. FirstStep(s) \in {"quiet", "poke"}
            BY ScriptStarts
        <3>3. Fits(j)
            BY DEF Kinds, Nothing
        <3> HIDE DEF j, s, Fits, Begins
        <3> QED BY <3>1, <3>2, <3>3
    <2> QED BY <2>1, <2>2
<1>3. Jobs'
    BY <1>2, CallBegins DEF MInv, Reading, Mailbox, Attaching, Commanding
<1>4. pc'[p] \in Mailbox /\ job'[p].kind \notin {"probe", "remove"} /\ \A q \in Callers \ {p} : pc'[q] = pc[q] /\ job'[q] = job[q]
    BY <1>2 DEF MInv, Jobs, Mailbox
<1>5. \A q \in Callers : ~Owner(q)'
    BY <1>1, <1>4 DEF Owner, In, MInv, Attached
<1> QED BY <1>1, <1>3, <1>5 DEF MInv, Attached
LEMMA OwnerBegins ==
    ASSUME MInv, NEW p \in Callers, Probe(p) \/ Remove(p)
    PROVE  MInv'
<1>1. CASE Probe(p)
    <2> DEFINE j == [Nothing EXCEPT !.kind = "probe", !.part = "serial"]
    <2>1. /\ ~mapped /\ mapped' = TRUE /\ UNCHANGED <<files, handle>>
          /\ pc[p] = "idle" /\ pc' = [pc EXCEPT ![p] = "quiet"] /\ job' = [job EXCEPT ![p] = j]
        BY <1>1 DEF Probe, Enter, Goto
    <2>2. Jobs'
        <3>1. /\ j.kind = "probe"
              /\ j \in [kind : Kinds, part : {"none", "serial", "setup", "load"}, fps : Rates \cup {0}, arg : Codes \cup {0, 1}]
            BY DEF Nothing, Kinds
        <3> HIDE DEF j
        <3> QED BY <2>1, <3>1, CallBegins DEF MInv, Reading, Mailbox, Attaching, Commanding
    <2>3. pc'[p] = "quiet" /\ \A q \in Callers \ {p} : pc'[q] = pc[q] /\ job'[q] = job[q]
        BY <2>1 DEF MInv, Jobs
    <2>4. ~files /\ ~handle /\ \A q \in Callers : pc[q] \notin Reading \cup Mailbox /\ ~Owner(q)
        BY <2>1 DEF MInv, Attached
    <2>5. \A q \in Callers \ {p} : ~Owner(q)' /\ pc'[q] \notin Reading \cup Mailbox
        BY <2>3, <2>4 DEF Owner, In
    <2>6. NoReader'
        BY <2>3, <2>5 DEF NoReader, Reading
    <2> QED BY <2>1, <2>2, <2>4, <2>5, <2>6 DEF MInv, Attached
<1>2. CASE Remove(p)
    <2> DEFINE j == [Nothing EXCEPT !.kind = "remove"]
    <2>1. /\ handle /\ handle' = FALSE /\ UNCHANGED <<mapped, files>>
          /\ pc[p] = "idle" /\ pc' = [pc EXCEPT ![p] = "unregister"] /\ job' = [job EXCEPT ![p] = j]
          /\ \A q \in Callers : pc[q] # "idle" => job[q].kind \notin Commanding
        BY <1>2 DEF Remove, Goto, Doing, Busy
    <2>2. Jobs'
        <3>1. /\ j.kind = "remove"
              /\ j \in [kind : Kinds, part : {"none", "serial", "setup", "load"}, fps : Rates \cup {0}, arg : Codes \cup {0, 1}]
            BY DEF Nothing, Kinds
        <3> HIDE DEF j
        <3> QED BY <2>1, <3>1, CallBegins DEF MInv, Reading, Mailbox, Attaching, Commanding
    <2>3. pc'[p] = "unregister" /\ \A q \in Callers \ {p} : pc'[q] = pc[q] /\ job'[q] = job[q]
        BY <2>1 DEF MInv, Jobs
    <2>4. \A q \in Callers : pc[q] \notin Mailbox /\ ~Owner(q)
        BY <2>1 DEF MInv, Attached, Jobs, Mailbox
    <2>5. \A q \in Callers \ {p} : ~Owner(q)' /\ pc'[q] \notin Mailbox
        BY <2>3, <2>4 DEF Owner, In
    <2>6. pc'[p] \notin Reading \cup Mailbox \cup {"register", "drained"}
        BY <2>3 DEF Reading, Mailbox
    <2>7. mapped
        BY <2>1 DEF MInv, Attached
    <2> QED BY <2>1, <2>2, <2>3, <2>5, <2>6, <2>7 DEF MInv, Attached
<1> QED BY <1>1, <1>2

\* A probe registers the card, a removal takes the registration back.
LEMMA Registration ==
    ASSUME MInv, NEW p \in Callers,
           CreateFiles(p) \/ AddDevice(p) \/ Unregister(p) \/ Unmap(p)
    PROVE  MInv'
<1>1. /\ pc[p] \in {"register", "add", "unregister", "drained"} /\ UNCHANGED job
      /\ pc[p] = "register" => CreateFiles(p)
      /\ pc[p] = "add" => AddDevice(p)
      /\ pc[p] = "unregister" => Unregister(p)
      /\ pc[p] = "drained" => Unmap(p)
    BY DEF CreateFiles, AddDevice, Unregister, Unmap
<1>2. /\ Owner(p) /\ mapped /\ ~handle
      /\ \A q \in Callers \ {p} : ~Owner(q) /\ pc[q] \notin Mailbox
    <2>1. Owner(p)
        BY <1>1 DEF MInv, Jobs, Owner, In, Attaching
    <2> QED BY <2>1 DEF MInv, Attached
<1>3. PICK l \in {"return", "add", "unregister", "drained"} : pc' = [pc EXCEPT ![p] = l]
    <2>1. CASE pc' = pc
        BY <1>1, <2>1 DEF MInv, Jobs, CreateFiles, AddDevice, Goto, Returns
    <2>2. CASE \E l \in {"return", "add", "unregister", "drained"} : Goto(p, l)
        BY <2>2 DEF Goto
    <2> QED BY <1>1, <2>1, <2>2 DEF CreateFiles, AddDevice, Unregister, Unmap, Returns
<1>4. pc'[p] = l /\ \A q \in Callers \ {p} : pc'[q] = pc[q]
    BY <1>3 DEF MInv, Jobs
<1>5. Jobs'
    BY <1>1, <1>3 DEF MInv, Jobs, Reading, Mailbox, Attaching
<1>6. \A q \in Callers \ {p} : ~Owner(q)' /\ pc'[q] \notin Mailbox
    BY <1>1, <1>2, <1>4 DEF Owner, In
<1>7. pc'[p] \notin Reading \cup Mailbox \cup {"register"}
    BY <1>4 DEF Reading, Mailbox
<1>8. \A q \in Callers : pc'[q] \in Reading => pc[q] \in Reading
    BY <1>4, <1>7
<1>9. CASE pc[p] = "register"
    <2>1. UNCHANGED <<mapped, handle>> /\ files' \in BOOLEAN /\ l \in {"add", "drained"} /\ (l = "drained" => ~files')
        BY <1>1, <1>4, <1>9 DEF CreateFiles, Goto, MInv, Jobs
    <2>2. NoReader'
        BY <1>2, <1>8, <1>9 DEF MInv, Attached, NoReader
    <2> QED BY <1>2, <1>4, <1>5, <1>6, <1>7, <2>1, <2>2 DEF MInv, Attached
<1>10. CASE pc[p] = "add"
    <2>1. UNCHANGED <<mapped, files>> /\ handle' \in BOOLEAN /\ l \in {"return", "unregister"} /\ (l # "return" => ~handle')
        BY <1>1, <1>4, <1>10 DEF AddDevice, Goto, Returns, MInv, Jobs
    <2>2. Owner(p)' => ~handle'
        BY <1>4, <2>1 DEF Owner, In
    <2> QED BY <1>2, <1>4, <1>5, <1>6, <1>7, <2>1, <2>2 DEF MInv, Attached
<1>11. CASE pc[p] = "unregister"
    <2>1. UNCHANGED <<mapped, handle>> /\ ~files' /\ files' \in BOOLEAN
        BY <1>1, <1>11 DEF Unregister
    <2>2. l = "drained" => Doing({"read"}) = {}
        BY <1>1, <1>4, <1>11 DEF Unregister, Goto
    <2>3. l = "drained" => NoReader'
        BY <1>8, <2>2 DEF Doing, Busy, MInv, Jobs, NoReader, Reading
    <2> QED BY <1>2, <1>4, <1>5, <1>6, <1>7, <2>1, <2>3 DEF MInv, Attached
<1>12. CASE pc[p] = "drained"
    <2>1. UNCHANGED <<handle, files>> /\ mapped' = FALSE /\ pc' = [pc EXCEPT ![p] = "return"]
        BY <1>1, <1>12 DEF Unmap, Returns, Goto
    <2>2. ~files /\ NoReader
        BY <1>2, <1>12 DEF MInv, Attached
    <2>3. pc'[p] = "return"
        BY <2>1 DEF MInv, Jobs
    <2>4. \A q \in Callers : ~Owner(q)' /\ pc'[q] \notin Reading \cup Mailbox
        BY <1>6, <1>7, <1>8, <2>2, <2>3 DEF Owner, In, NoReader
    <2> QED BY <1>2, <1>5, <2>1, <2>2, <2>4 DEF MInv, Attached
<1> QED BY <1>1, <1>9, <1>10, <1>11, <1>12

\* Nobody's place changes.
LEMMA NobodyMoves ==
    ASSUME MInv, UNCHANGED <<pc, job, mapped, files, handle>>
    PROVE  MInv'
BY DEF MInv, Jobs, Attached, Owner, In, NoReader

LEMMA CallEnds ==
    ASSUME MInv, NEW p \in Callers, Return(p)
    PROVE  MInv'
<1>1. /\ pc' = [pc EXCEPT ![p] = "idle"] /\ job' = [job EXCEPT ![p] = Nothing]
      /\ UNCHANGED <<mapped, files, handle>>
    BY DEF Return, Goto, device
<1>2. pc'[p] = "idle" /\ \A q \in Callers \ {p} : pc'[q] = pc[q] /\ job'[q] = job[q]
    BY <1>1 DEF MInv, Jobs
<1>3. Nothing \in [kind : Kinds, part : {"none", "serial", "setup", "load"}, fps : Rates \cup {0}, arg : Codes \cup {0, 1}]
    BY DEF Nothing, Kinds
<1>4. Jobs'
    BY <1>1, <1>2, <1>3 DEF MInv, Jobs, Reading, Mailbox, Attaching
<1>5. \A q \in Callers : Owner(q)' => q # p /\ Owner(q)
    BY <1>2 DEF Owner, In
<1>6. \A q \in Callers : pc'[q] \in Reading \cup Mailbox \cup {"register", "drained"} => q # p /\ pc'[q] = pc[q]
    BY <1>2 DEF Reading, Mailbox
<1>7. NoReader => NoReader'
    BY <1>6 DEF NoReader
<1> QED BY <1>1, <1>4, <1>5, <1>6, <1>7 DEF MInv, Attached

-----------------------------------------------------------------------------
\* Whoever touches the registers keeps them mapped, initially and after every step.
LEMMA MInvHolds == (Init => MInv) /\ (MInv /\ [Next]_vars => MInv')
<1>1. Init => MInv
    <2> SUFFICES ASSUME Init PROVE MInv
        OBVIOUS
    <2>1. Nothing \in [kind : Kinds, part : {"none", "serial", "setup", "load"}, fps : Rates \cup {0}, arg : Codes \cup {0, 1}]
        BY DEF Nothing, Kinds
    <2>2. Jobs
        BY <2>1 DEF Init, Jobs, Reading, Mailbox, Attaching
    <2>3. Attached
        BY DEF Init, Attached, Owner, In, Reading, Mailbox, NoReader
    <2> QED BY <2>2, <2>3 DEF MInv
<1>2. MInv /\ [Next]_vars => MInv'
    <2> SUFFICES ASSUME MInv, [Next]_vars PROVE MInv'
        OBVIOUS
    <2>1. CASE UNCHANGED vars
        BY <2>1, NobodyMoves DEF vars, device, caller
    <2>2. CASE Frame \/ Obey
        BY <2>2, NobodyMoves DEF Frame, Obey, device, caller
    <2>3. ASSUME NEW p \in Callers, Post(p) PROVE MInv'
        BY <2>3, NobodyMoves DEF Post, device
    <2>4. ASSUME NEW p \in Callers, Poll(p) \/ GiveUp(p) \/ PostCommand(p) \/ WriteDone(p)
          PROVE  MInv'
        BY <2>4, MailboxStep
    <2>5. ASSUME NEW p \in Callers, ReadSignal(p) \/ ReadField(p) \/ ReadCheck(p)
          PROVE  MInv'
        BY <2>5, ReadingStep
    <2>6. ASSUME NEW p \in Callers, Read(p) PROVE MInv'
        BY <2>6, ReadBegins
    <2>7. ASSUME NEW p \in Callers,
                 (\E fps \in Rates, code \in Codes : Write(p, fps, code))
                   \/ (\E val \in {0, 1} : RunOrSync(p, "run", val)) \/ RunOrSync(p, "sync", 1)
          PROVE  MInv'
        BY <2>7, CommandBegins
    <2>8. ASSUME NEW p \in Callers, Return(p) PROVE MInv'
        BY <2>8, CallEnds
    <2>9. ASSUME NEW p \in Callers, Probe(p) \/ Remove(p) PROVE MInv'
        BY <2>9, OwnerBegins
    <2>10. ASSUME NEW p \in Callers, CreateFiles(p) \/ AddDevice(p) \/ Unregister(p) \/ Unmap(p)
           PROVE  MInv'
        BY <2>10, Registration
    <2> QED BY <2>1, <2>2, <2>3, <2>4, <2>5, <2>6, <2>7, <2>8, <2>9, <2>10 DEF Next
<1> QED BY <1>1, <1>2

\* The registers are mapped whenever they are touched: by whoever reads the
\* timecode file, by writers, and by the probe itself, whatever goes wrong
\* with the card or its registration (pcitc_main.c:592-706, tcio.c:100-172).
THEOREM MappedWhenTouched == Spec => []MappedWhileUsed
<1>1. MInv => MappedWhileUsed
    <2> SUFFICES ASSUME MInv, NEW p \in Callers, Want(p) # NoWord PROVE mapped
        BY DEF MappedWhileUsed
    <2>1. pc[p] \in Reading \cup Mailbox
        BY DEF Want, Reads, Reading, Mailbox
    <2> QED BY <2>1 DEF MInv, Attached
<1> QED BY <1>1, MInvHolds, PTL DEF Spec

-----------------------------------------------------------------------------
(* A reading that the validation bytes let pass is one frame's. *)

\* Numbers less than W apart that agree modulo W are equal.
LEMMA SameByteSameFrame ==
    ASSUME NEW W \in Nat \ {0}, NEW x \in Nat, NEW y \in Nat,
           x <= y, y < x + W, x % W = y % W
    PROVE  x = y
<1> DEFINE a == x \div W
           b == y \div W
<1>1. x = W * a + (x % W) /\ y = W * b + (y % W)
    OBVIOUS
<1>2. a \in Int /\ b \in Int
    OBVIOUS
<1>3. W * b - W * a < W /\ 0 <= W * b - W * a
    BY <1>1
<1> HIDE DEF a, b
<1>4. W * b - W * a = W * (b - a)
    BY <1>2
<1>5. CASE b - a >= 1
    BY <1>2, <1>3, <1>4, <1>5
<1>6. CASE b - a <= -1
    BY <1>2, <1>3, <1>4, <1>6
<1>7. CASE b - a = 0
    BY <1>1, <1>2, <1>7
<1> QED BY <1>2, <1>5, <1>6, <1>7

\* Neither has the bus failed nor have callers been in each other's way.
Clean == unlucky \cap {"bus", "overlap"} = {}
Using(p) == pc[p] # "idle" /\ job[p].kind # "remove"

\* Alone with the SD controller, a caller finds its own word there.
Solo ==
    bus = "pcie" /\ "overlap" \notin unlucky =>
        /\ \A p, q \in Callers : Using(p) /\ Using(q) => p = q
        /\ \A p \in Callers : posted[p] => Want(p) # NoWord /\ word = Want(p)

Consistent(p) ==
    LET g == got[p]
    IN  /\ pc[p] \in {"tcode", "ubits", "second"} =>
             g.since <= now /\ now < g.since + Wrap /\ g.d1 = g.since % Wrap
        /\ pc[p] \in {"ubits", "second"} => g.since <= g.tcode /\ g.tcode <= now
        /\ pc[p] = "second" => g.since <= g.ubits /\ g.ubits <= now
        /\ pc[p] = "return" /\ job[p].kind = "read" /\ result[p] = "ok" =>
             g.tcode = g.ubits /\ g.since <= g.tcode /\ g.tcode <= now

Shapes ==
    /\ now \in Nat /\ bus \in {"pci", "pcie"}
    /\ got \in [Callers -> [since : Nat, d1 : Nat, tcode : Nat, ubits : Nat, tries : Nat]]
    /\ posted \in [Callers -> BOOLEAN]
    /\ todo = [q \in Callers |-> todo[q]]
    /\ result = [q \in Callers |-> result[q]]

OInv == MInv /\ Shapes /\ Solo /\ (Clean => \A p \in Callers : Consistent(p))

LEMMA WantUses ==
    ASSUME Jobs, NEW p \in Callers
    PROVE  /\ Want(p) # NoWord => pc[p] \in Reading \cup Mailbox
           /\ pc[p] \in Reading \cup Mailbox => Using(p)
BY DEF Want, Reads, Jobs, Reading, Mailbox, Using, Commanding

\* Whoever uses the card goes on or ends, and takes its word along.
LEMMA SoloGoesOn ==
    ASSUME MInv, Solo, NEW p \in Callers, pc[p] \in Reading \cup Mailbox,
           \A q \in Callers : job'[q].kind = job[q].kind,
           \A q \in Callers \ {p} : pc'[q] = pc[q],
           bus = "pcie" => \A q \in Callers : posted'[q] => posted[q] /\ q # p,
           bus' = bus, unlucky \subseteq unlucky'
    PROVE  Solo'
<1> SUFFICES ASSUME bus = "pcie", "overlap" \notin unlucky'
             PROVE  /\ \A q, r \in Callers : Using(q)' /\ Using(r)' => q = r
                    /\ \A q \in Callers : ~posted'[q]
    BY DEF Solo
<1>1. Using(p)
    BY WantUses DEF MInv
<1>2. \A q \in Callers : Using(q)' => Using(q)
    BY <1>1 DEF Using
<1>3. \A q, r \in Callers : Using(q) /\ Using(r) => q = r
    BY DEF Solo
<1>4. ASSUME NEW q \in Callers, posted'[q] PROVE FALSE
    <2>1. posted[q] /\ q # p
        BY <1>4
    <2>2. Using(q)
        BY <2>1, WantUses DEF Solo, MInv
    <2> QED BY <1>1, <1>3, <2>1, <2>2
<1> QED BY <1>2, <1>3, <1>4

LEMMA SoloEnters ==
    ASSUME MInv, Solo, NEW p \in Callers, NEW kind, Enter(p, kind),
           \A q \in Callers \ {p} : pc'[q] = pc[q]
    PROVE  Solo'
<1> SUFFICES ASSUME bus = "pcie", "overlap" \notin unlucky'
             PROVE  /\ \A q, r \in Callers : Using(q)' /\ Using(r)' => q = r
                    /\ \A q \in Callers : ~posted'[q]
    BY DEF Solo, Enter
<1>1. Busy = {} /\ unlucky' = unlucky /\ posted' = posted
    BY DEF Enter
<1>2. \A q \in Callers : pc[q] = "idle"
    BY <1>1 DEF Busy
<1>3. \A q \in Callers : Using(q)' => q = p
    BY <1>2 DEF Using
<1>4. \A q \in Callers : Want(q) = NoWord
    BY <1>2, WantUses DEF MInv, Reading, Mailbox
<1>5. \A q \in Callers : ~posted[q]
    BY <1>1, <1>4 DEF Solo
<1> QED BY <1>1, <1>3, <1>5

LEMMA SoloElse ==
    ASSUME MInv, Solo, NEW p \in Callers, pc[p] \notin Reading \cup Mailbox,
           \A q \in Callers \ {p} : pc'[q] = pc[q] /\ job'[q] = job[q],
           Using(p)' => Using(p),
           UNCHANGED <<bus, unlucky, word, posted, todo>>
    PROVE  Solo'
<1> SUFFICES ASSUME bus = "pcie", "overlap" \notin unlucky
             PROVE  /\ \A q, r \in Callers : Using(q)' /\ Using(r)' => q = r
                    /\ \A q \in Callers : posted[q] => Want(q)' # NoWord /\ word = Want(q)'
    BY DEF Solo, NoWord
<1>1. \A q \in Callers : Using(q)' => Using(q)
    BY DEF Using
<1>2. ~posted[p]
    BY WantUses DEF Solo, MInv
<1>3. \A q \in Callers \ {p} : Want(q)' = Want(q)
    BY DEF Want, Reads, NoWord
<1> QED BY <1>1, <1>2, <1>3 DEF Solo

\* What a caller who is alone, or on the PCI card, reads is what the card gives.
LEMMA ReadsTheCard ==
    ASSUME Solo, NEW p \in Callers, NEW v, Access(p, v), Clean'
    PROVE  v = Value(Want(p)) /\ Clean /\ "overlap" \notin unlucky
<1>1. Clean /\ "overlap" \notin unlucky
    BY DEF Access, Clean
<1>2. v = Value(Want(p)) \/ (bus = "pcie" /\ posted[p] /\ v = Value(word))
    BY DEF Access, Clean
<1> QED BY <1>1, <1>2 DEF Solo
\* Other callers' readings are left alone.
LEMMA ConsistentElse ==
    ASSUME Clean => \A q \in Callers : Consistent(q), Clean' => Clean,
           NEW p \in Callers, now' = now,
           \A q \in Callers \ {p} :
               pc'[q] = pc[q] /\ job'[q].kind = job[q].kind /\ got'[q] = got[q] /\ result'[q] = result[q],
           pc'[p] \notin {"tcode", "ubits", "second"},
           pc'[p] = "return" => job'[p].kind # "read"
    PROVE  Clean' => \A q \in Callers : Consistent(q)'
BY DEF Consistent

LEMMA AccessShapes ==
    ASSUME Shapes, NEW p \in Callers, NEW v, Access(p, v)
    PROVE  /\ posted' \in [Callers -> BOOLEAN]
           /\ now' = now /\ bus' = bus /\ unlucky \subseteq unlucky'
           /\ bus = "pcie" => \A q \in Callers : posted'[q] => posted[q] /\ q # p
<1>1. now' = now /\ bus' = bus /\ unlucky \subseteq unlucky'
    BY DEF Access
<1>2. posted' = posted \/ posted' = [posted EXCEPT ![p] = FALSE]
    BY DEF Access
<1>3. bus = "pcie" => posted' = [posted EXCEPT ![p] = FALSE]
    BY DEF Access
<1> QED BY <1>1, <1>2, <1>3, Zenon DEF Shapes

LEMMA CleanBefore == ASSUME unlucky \subseteq unlucky' PROVE Clean' => Clean
BY DEF Clean

LEMMA MailboxKeeps ==
    ASSUME OInv, MInv', NEW p \in Callers, Poll(p) \/ GiveUp(p) \/ PostCommand(p) \/ WriteDone(p)
    PROVE  OInv'
<1>1. pc[p] \in Mailbox /\ got' = got
    BY DEF Poll, GiveUp, PostCommand, WriteDone, Follows, Mailbox
<1>2. /\ \A q \in Callers : job'[q].kind = job[q].kind
      /\ \A q \in Callers \ {p} : pc'[q] = pc[q]
      /\ pc'[p] \in Mailbox \cup {"register", "return"}
    BY MailboxMoves DEF OInv, MInv
<1>3. /\ posted' \in [Callers -> BOOLEAN]
      /\ now' = now /\ bus' = bus /\ unlucky \subseteq unlucky'
      /\ bus = "pcie" => \A q \in Callers : posted'[q] => posted[q] /\ q # p
    <2>1. CASE \E v \in Values : Access(p, v)
        BY <2>1, AccessShapes DEF OInv
    <2>2. CASE GiveUp(p)
        BY <2>2 DEF GiveUp, OInv, Shapes
    <2> QED BY <2>1, <2>2 DEF Poll, PostCommand, WriteDone
<1>4. /\ todo' = todo \/ \E s : todo' = [todo EXCEPT ![p] = s]
      /\ result' = result \/ \E r : result' = [result EXCEPT ![p] = r]
    <2>1. ASSUME NEW good, PartEnds(p, good)
          PROVE  /\ todo' = todo \/ \E s : todo' = [todo EXCEPT ![p] = s]
                 /\ result' = result \/ \E r : result' = [result EXCEPT ![p] = r]
        BY <2>1 DEF PartEnds, Begin, Returns
    <2>2. CASE Poll(p) \/ PostCommand(p)
        BY <2>2 DEF Poll, PostCommand
    <2>3. CASE GiveUp(p)
        BY <2>1, <2>3 DEF GiveUp
    <2>4. CASE WriteDone(p)
        BY <2>1, <2>4 DEF WriteDone, StepDone
    <2> QED BY <2>2, <2>3, <2>4
<1>5. Shapes' /\ \A q \in Callers \ {p} : result'[q] = result[q]
    BY <1>1, <1>3, <1>4 DEF OInv, Shapes
<1>6. Solo'
    BY <1>1, <1>2, <1>3, SoloGoesOn DEF OInv
<1>7. job[p].kind # "read"
    BY <1>1 DEF OInv, MInv, Jobs, Commanding
<1>8. Clean' => \A q \in Callers : Consistent(q)'
    <2>1. Clean' => Clean
        BY <1>3, CleanBefore
    <2>2. pc'[p] \notin {"tcode", "ubits", "second"}
        BY <1>2 DEF Mailbox
    <2> QED BY <1>1, <1>2, <1>3, <1>5, <1>7, <2>1, <2>2, ConsistentElse DEF OInv
<1> QED BY <1>5, <1>6, <1>8 DEF OInv
\* What the registers of a reading hold.
LEMMA WhatIsRead ==
    ASSUME NEW p \in Callers
    PROVE  /\ pc[p] \in {"first", "second"} => Value(Want(p)) = now % Wrap
           /\ pc[p] \in {"tcode", "ubits"} => Value(Want(p)) = now
BY DEF Want, Reads, Value

LEMMA ReadingKeeps ==
    ASSUME OInv, MInv', NEW p \in Callers, MaxNow \in Nat,
           ReadSignal(p) \/ ReadField(p) \/ ReadCheck(p)
    PROVE  OInv'
<1>1. PICK v \in Values :
         /\ Access(p, v)
         /\ pc[p] = "first" => got' = [got EXCEPT ![p].d1 = v, ![p].since = now]
         /\ pc[p] = "tcode" => got' = [got EXCEPT ![p].tcode = v]
         /\ pc[p] = "ubits" => got' = [got EXCEPT ![p].ubits = v]
         /\ pc[p] = "signal" => got' = got
         /\ pc[p] = "second" => got' = got \/ got' = [got EXCEPT ![p].tries = @ + 1]
         /\ pc[p] = "second" /\ ~Goto(p, "first") =>
              \/ Returns(p, "ok") /\ Validated(p, v) /\ got' = got
              \/ Returns(p, "again")
         /\ pc[p] = "second" => Goto(p, "first") \/ Goto(p, "return")
         /\ pc[p] = "signal" => Goto(p, "first") \/ Returns(p, "notconn")
         /\ pc[p] = "first" => Goto(p, "tcode")
         /\ pc[p] = "tcode" => Goto(p, "ubits")
         /\ pc[p] = "ubits" => Goto(p, "second")
         /\ pc[p] \in Reading
         /\ UNCHANGED <<device, job, todo>>
         /\ result' = result \/ \E r : result' = [result EXCEPT ![p] = r]
    <2>1. CASE ReadSignal(p)
        BY <2>1 DEF ReadSignal, Returns, Reading
    <2>2. CASE ReadField(p)
        BY <2>2 DEF ReadField, Reading
    <2>3. CASE ReadCheck(p)
        BY <2>3 DEF ReadCheck, Returns, Reading
    <2> QED BY <2>1, <2>2, <2>3
<1>2. v \in Nat
    BY DEF Values
<1>3. /\ posted' \in [Callers -> BOOLEAN]
      /\ now' = now /\ bus' = bus /\ unlucky \subseteq unlucky'
      /\ bus = "pcie" => \A q \in Callers : posted'[q] => posted[q] /\ q # p
    BY <1>1, AccessShapes DEF OInv
<1>4. /\ got' \in [Callers -> [since : Nat, d1 : Nat, tcode : Nat, ubits : Nat, tries : Nat]]
      /\ \A q \in Callers \ {p} : got'[q] = got[q]
    BY SMTT(30), <1>1, <1>2 DEF OInv, Shapes, Reading
<1>5. Shapes' /\ \A q \in Callers \ {p} : result'[q] = result[q]
    BY <1>1, <1>3, <1>4 DEF OInv, Shapes
<1>6. /\ job' = job
      /\ \A q \in Callers \ {p} : pc'[q] = pc[q]
    BY <1>1 DEF Goto, Returns, Reading, OInv, MInv, Jobs
<1>7. Solo'
    BY <1>1, <1>3, <1>6, SoloGoesOn DEF OInv
<1>8. ASSUME Clean' PROVE Consistent(p)'
    <2>1. v = Value(Want(p)) /\ Clean
        BY <1>1, <1>8, ReadsTheCard DEF OInv
    <2>2. Consistent(p)
        BY <2>1 DEF OInv
    <2>3. CASE pc[p] = "signal" \/ Goto(p, "first")
        <3>1. pc'[p] = "first" \/ (pc'[p] = "return" /\ result'[p] = "notconn")
            BY <1>1, <2>3 DEF Goto, Returns, OInv, MInv, Jobs, Shapes
        <3> QED BY <3>1 DEF Consistent
    <2>4. CASE pc[p] = "first"
        <3>1. pc'[p] = "tcode" /\ got'[p].since = now /\ got'[p].d1 = now % Wrap
            BY <1>1, <2>1, <2>4, WhatIsRead DEF Goto, OInv, MInv, Jobs, Shapes
        <3> QED BY <1>3, <3>1, WrapAssumption DEF Consistent, OInv, Shapes
    <2>5. CASE pc[p] = "tcode"
        <3>1. /\ pc'[p] = "ubits" /\ got'[p].since = got[p].since /\ got'[p].d1 = got[p].d1
              /\ got'[p].tcode = now
            BY <1>1, <2>1, <2>5, WhatIsRead DEF Goto, OInv, MInv, Jobs, Shapes
        <3> QED BY <1>3, <2>2, <2>5, <3>1 DEF Consistent, OInv, Shapes
    <2>6. CASE pc[p] = "ubits"
        <3>1. /\ pc'[p] = "second" /\ got'[p].since = got[p].since /\ got'[p].d1 = got[p].d1
              /\ got'[p].tcode = got[p].tcode /\ got'[p].ubits = now
            BY <1>1, <2>1, <2>6, WhatIsRead DEF Goto, OInv, MInv, Jobs, Shapes
        <3> QED BY <1>3, <2>2, <2>6, <3>1 DEF Consistent, OInv, Shapes
    <2>7. CASE pc[p] = "second" /\ ~Goto(p, "first") /\ Returns(p, "ok")
        <3> DEFINE g == got[p]
        <3>1. /\ g.since \in Nat /\ g.tcode \in Nat /\ g.ubits \in Nat /\ now \in Nat
              /\ g.since <= now /\ now < g.since + Wrap /\ g.d1 = g.since % Wrap
              /\ g.since <= g.tcode /\ g.tcode <= now /\ g.since <= g.ubits /\ g.ubits <= now
            BY <2>2, <2>7 DEF Consistent, OInv, Shapes
        <3>2. pc'[p] = "return" /\ result'[p] = "ok"
            BY <2>7 DEF Returns, Goto, OInv, MInv, Jobs, Shapes
        <3>3. g.d1 = now % Wrap /\ got'[p] = g
            <4>1. "ok" # "again"
                OBVIOUS
            <4>2. ~Returns(p, "again")
                BY <3>2, <4>1 DEF Returns, OInv, Shapes
            <4> QED BY <1>1, <2>1, <2>7, <4>2, WhatIsRead DEF Validated
        <3>4. g.since = now
            <4> HIDE DEF g
            <4> QED BY <3>1, <3>3, SameByteSameFrame, WrapAssumption
        <3> QED BY <1>3, <3>1, <3>2, <3>3, <3>4 DEF Consistent
    <2>8. CASE pc[p] = "second" /\ Returns(p, "again")
        <3>1. pc'[p] = "return" /\ result'[p] = "again"
            BY <2>8 DEF Returns, Goto, OInv, MInv, Jobs, Shapes
        <3> QED BY <3>1 DEF Consistent
    <2> QED BY <1>1, <2>3, <2>4, <2>5, <2>6, <2>7, <2>8 DEF Reading
<1>9. Clean' => \A q \in Callers : Consistent(q)'
    <2>1. Clean' => \A q \in Callers : Consistent(q)
        BY <1>3, CleanBefore DEF OInv
    <2>2. \A q \in Callers \ {p} : Consistent(q) => Consistent(q)'
        BY <1>3, <1>4, <1>5, <1>6 DEF Consistent
    <2> QED BY <1>8, <2>1, <2>2
<1> QED BY <1>5, <1>7, <1>9 DEF OInv
\* A call that begins has read nothing yet.
LEMMA CallKeeps ==
    ASSUME OInv, MInv', NEW p \in Callers, NEW kind, Enter(p, kind),
           NEW l \in {"signal", "quiet", "poke"}, pc' = [pc EXCEPT ![p] = l],
           \A q \in Callers \ {p} : job'[q] = job[q],
           got' = got \/ got' = [got EXCEPT ![p] = NoReading],
           todo' = todo \/ (\E s : todo' = [todo EXCEPT ![p] = s]),
           result' = result
    PROVE  OInv'
<1>1. now' = now /\ bus' = bus /\ posted' = posted /\ unlucky \subseteq unlucky'
    BY DEF Enter
<1>2. pc'[p] = l /\ \A q \in Callers \ {p} : pc'[q] = pc[q]
    BY DEF OInv, MInv, Jobs
<1>3. /\ got' \in [Callers -> [since : Nat, d1 : Nat, tcode : Nat, ubits : Nat, tries : Nat]]
      /\ \A q \in Callers \ {p} : got'[q] = got[q]
    <2>1. NoReading \in [since : Nat, d1 : Nat, tcode : Nat, ubits : Nat, tries : Nat]
        BY DEF NoReading
    <2> QED BY <2>1 DEF OInv, Shapes
<1>4. Shapes'
    BY <1>1, <1>3 DEF OInv, Shapes
<1>5. Solo'
    BY <1>2, SoloEnters DEF OInv
<1>6. Clean' => Clean
    BY <1>1, CleanBefore
<1>7. Clean' => \A q \in Callers : Consistent(q)'
    BY <1>1, <1>2, <1>3, <1>6, ConsistentElse DEF OInv
<1> QED BY <1>4, <1>5, <1>7 DEF OInv

\* Neither registration nor removal, nor the end of a call, reads anything.
LEMMA ElseKeeps ==
    ASSUME OInv, MInv', NEW p \in Callers,
           CreateFiles(p) \/ AddDevice(p) \/ Remove(p) \/ Unregister(p) \/ Unmap(p) \/ Return(p)
    PROVE  OInv'
<1>1. UNCHANGED <<bus, unlucky, now, word, posted, todo>>
    BY DEF CreateFiles, AddDevice, Remove, Unregister, Unmap, Return, mishap
<1>2. pc[p] \in {"register", "add", "idle", "unregister", "drained", "return"}
    BY DEF CreateFiles, AddDevice, Remove, Unregister, Unmap, Return
<1>3. pc' = pc \/ \E l \in {"return", "add", "unregister", "drained", "idle"} : pc' = [pc EXCEPT ![p] = l]
    BY DEF CreateFiles, AddDevice, Remove, Unregister, Unmap, Return, Returns, Goto
<1>4. /\ job' = job \/ job' = [job EXCEPT ![p] = Nothing] \/ job' = [job EXCEPT ![p] = [Nothing EXCEPT !.kind = "remove"]]
      /\ got' = got \/ got' = [got EXCEPT ![p] = NoReading]
      /\ result' = result \/ \E r : result' = [result EXCEPT ![p] = r]
    BY DEF CreateFiles, AddDevice, Remove, Unregister, Unmap, Return, Returns
<1>5. /\ got' \in [Callers -> [since : Nat, d1 : Nat, tcode : Nat, ubits : Nat, tries : Nat]]
      /\ result' = [q \in Callers |-> result'[q]]
      /\ \A q \in Callers \ {p} : pc'[q] = pc[q] /\ job'[q] = job[q] /\ got'[q] = got[q] /\ result'[q] = result[q]
    <2>1. NoReading \in [since : Nat, d1 : Nat, tcode : Nat, ubits : Nat, tries : Nat]
        BY DEF NoReading
    <2>2. \A q \in Callers \ {p} : pc'[q] = pc[q] /\ job'[q] = job[q]
        BY <1>3, <1>4 DEF OInv, MInv, Jobs
    <2>3. result' = [q \in Callers |-> result'[q]] /\ \A q \in Callers \ {p} : result'[q] = result[q]
        BY <1>4 DEF OInv, Shapes
    <2> QED BY <1>4, <2>1, <2>2, <2>3 DEF OInv, Shapes
<1>6. Shapes'
    BY <1>1, <1>5 DEF OInv, Shapes
<1>7. Using(p)' => Using(p)
    <2>1. CASE Return(p)
        BY <2>1 DEF Return, Goto, Using, OInv, MInv, Jobs
    <2>2. CASE Remove(p)
        BY <2>2 DEF Remove, Using, OInv, MInv, Jobs, Nothing
    <2>3. CASE CreateFiles(p) \/ AddDevice(p) \/ Unregister(p) \/ Unmap(p)
        BY <2>3 DEF CreateFiles, AddDevice, Unregister, Unmap, Using
    <2> QED BY <2>1, <2>2, <2>3
<1>8. Solo'
    BY <1>1, <1>2, <1>5, <1>7, SoloElse DEF OInv, Reading, Mailbox
<1>9. /\ pc'[p] \notin {"tcode", "ubits", "second"}
      /\ pc'[p] = "return" => job'[p].kind # "read"
    <2>1. CASE pc[p] \in {"register", "add", "unregister", "drained"}
        <3>1. job' = job /\ job[p].kind \in {"probe", "remove"}
            BY <2>1 DEF CreateFiles, AddDevice, Remove, Unregister, Unmap, Return, OInv, MInv, Jobs, Attaching
        <3> QED BY <1>3, <2>1, <3>1 DEF OInv, MInv, Jobs
    <2>2. CASE pc[p] = "idle"
        BY <2>2 DEF CreateFiles, AddDevice, Remove, Unregister, Unmap, Return, Goto, OInv, MInv, Jobs
    <2>3. CASE pc[p] = "return"
        BY <2>3 DEF CreateFiles, AddDevice, Remove, Unregister, Unmap, Return, Goto, OInv, MInv, Jobs
    <2> QED BY <1>2, <2>1, <2>2, <2>3
<1>10. Clean' => \A q \in Callers : Consistent(q)'
    <2>1. Clean' => Clean
        BY <1>1 DEF Clean
    <2> QED BY <1>1, <1>5, <1>9, <2>1, ConsistentElse DEF OInv
<1> QED BY <1>6, <1>8, <1>10 DEF OInv

LEMMA PostKeeps ==
    ASSUME OInv, MInv', NEW p \in Callers, Post(p)
    PROVE  OInv'
<1>1. /\ UNCHANGED <<bus, unlucky, now, pc, job, todo, got, result>>
      /\ posted' = [posted EXCEPT ![p] = TRUE] /\ word' = Want(p) /\ Want(p) # NoWord
    BY DEF Post, mishap
<1>2. posted' \in [Callers -> BOOLEAN] /\ \A q \in Callers \ {p} : posted'[q] = posted[q]
    BY <1>1, Zenon DEF OInv, Shapes
<1>3. Shapes'
    BY <1>1, <1>2 DEF OInv, Shapes
<1>4. Solo'
    <2> SUFFICES ASSUME bus = "pcie", "overlap" \notin unlucky
                 PROVE  /\ \A q, r \in Callers : Using(q) /\ Using(r) => q = r
                        /\ \A q \in Callers : posted'[q] => Want(q) # NoWord /\ word' = Want(q)
        BY <1>1 DEF Solo, Using, Want
    <2>1. \A q \in Callers \ {p} : ~posted[q]
        BY <1>1, WantUses DEF OInv, Solo, MInv
    <2> QED BY <1>1, <1>2, <2>1 DEF OInv, Solo
<1>5. Clean' => \A q \in Callers : Consistent(q)'
    BY <1>1 DEF OInv, Clean, Consistent
<1> QED BY <1>3, <1>4, <1>5 DEF OInv

\* The card goes on: a frame is only received before the validation byte has
\* come round for any reader.
LEMMA CardKeeps ==
    ASSUME OInv, MInv', Frame \/ Obey
    PROVE  OInv'
<1>1. /\ UNCHANGED <<bus, unlucky, word, pc, job, todo, posted, got, result>>
      /\ \/ now' = now
         \/ /\ now' = now + 1
            /\ \A p \in Callers : pc[p] \in {"tcode", "ubits", "second"} => now - got[p].since < Wrap - 1
    BY DEF Frame, Obey, mishap, caller
<1>2. Shapes'
    BY <1>1 DEF OInv, Shapes
<1>3. Solo'
    BY <1>1 DEF OInv, Solo, Using, Want
<1>4. ASSUME Clean', NEW p \in Callers PROVE Consistent(p)'
    <2>1. Consistent(p)
        BY <1>1, <1>4 DEF OInv, Clean
    <2>2. got[p] \in [since : Nat, d1 : Nat, tcode : Nat, ubits : Nat, tries : Nat] /\ now \in Nat /\ Wrap \in Nat
        BY WrapAssumption DEF OInv, Shapes
    <2> QED BY <1>1, <2>1, <2>2 DEF Consistent
<1> QED BY <1>2, <1>3, <1>4 DEF OInv

LEMMA CallsKeep ==
    ASSUME OInv, MInv', NEW p \in Callers,
           Read(p) \/ Probe(p) \/ (\E fps \in Rates, code \in Codes : Write(p, fps, code))
             \/ (\E val \in {0, 1} : RunOrSync(p, "run", val)) \/ RunOrSync(p, "sync", 1)
    PROVE  OInv'
<1>1. ASSUME NEW j, job' = [job EXCEPT ![p] = j]
      PROVE  \A q \in Callers \ {p} : job'[q] = job[q]
    BY <1>1 DEF OInv, MInv, Jobs
<1>2. CASE Read(p)
    <2>1. /\ Enter(p, "read") /\ pc' = [pc EXCEPT ![p] = "signal"]
          /\ got' = [got EXCEPT ![p] = NoReading] /\ UNCHANGED <<todo, result>>
        BY <1>2 DEF Read, Goto
    <2>2. \A q \in Callers \ {p} : job'[q] = job[q]
        BY <1>1, <1>2 DEF Read
    <2> QED BY <2>1, <2>2, CallKeeps
<1>3. CASE Probe(p)
    <2>1. /\ Enter(p, "probe") /\ pc' = [pc EXCEPT ![p] = "quiet"]
          /\ \E s : todo' = [todo EXCEPT ![p] = s]
          /\ UNCHANGED <<got, result>>
        BY <1>3 DEF Probe, Goto
    <2>2. \A q \in Callers \ {p} : job'[q] = job[q]
        BY <1>1, <1>3 DEF Probe
    <2> QED BY <2>1, <2>2, CallKeeps
<1>4. ASSUME NEW fps \in Rates, NEW code \in Codes, Write(p, fps, code) PROVE OInv'
    <2> DEFINE s == IF NeedsSetup(fps) THEN SetupScript(fps) ELSE LoadScript(code)
    <2>1. /\ Enter(p, "write") /\ pc' = [pc EXCEPT ![p] = FirstStep(s)]
          /\ todo' = [todo EXCEPT ![p] = s] /\ UNCHANGED <<got, result>>
        BY <1>4 DEF Write, Goto
    <2>2. \A q \in Callers \ {p} : job'[q] = job[q]
        BY <1>1, <1>4 DEF Write
    <2> HIDE DEF s
    <2>3. FirstStep(s) \in {"signal", "quiet", "poke"}
        BY ScriptStarts
    <2> QED BY <2>1, <2>2, <2>3, CallKeeps
<1>5. ASSUME NEW kind, NEW val, RunOrSync(p, kind, val) PROVE OInv'
    <2> DEFINE s == IF kind = "run" THEN <<Command("run", val)>> ELSE <<Poke("sync", val)>>
    <2>1. /\ Enter(p, kind) /\ pc' = [pc EXCEPT ![p] = FirstStep(s)]
          /\ todo' = [todo EXCEPT ![p] = s] /\ UNCHANGED <<got, result>>
        BY <1>5 DEF RunOrSync, Goto
    <2>2. \A q \in Callers \ {p} : job'[q] = job[q]
        BY <1>1, <1>5 DEF RunOrSync
    <2> HIDE DEF s
    <2>3. FirstStep(s) \in {"signal", "quiet", "poke"}
        BY ScriptStarts
    <2> QED BY <2>1, <2>2, <2>3, CallKeeps
<1> QED BY <1>2, <1>3, <1>4, <1>5

-----------------------------------------------------------------------------
\* Readings in progress are consistent, and who is alone finds its own word.
LEMMA OInvHolds == (Init => OInv) /\ (OInv /\ [Next]_vars => OInv')
<1>1. Init => OInv
    <2> SUFFICES ASSUME Init PROVE OInv
        OBVIOUS
    <2>1. NoReading \in [since : Nat, d1 : Nat, tcode : Nat, ubits : Nat, tries : Nat]
        BY DEF NoReading
    <2>2. Shapes
        BY <2>1 DEF Init, Shapes
    <2>3. Solo /\ \A p \in Callers : Consistent(p)
        BY DEF Init, Solo, Using, Consistent
    <2> QED BY <2>2, <2>3, MInvHolds DEF OInv
<1>2. OInv /\ [Next]_vars => OInv'
    <2> SUFFICES ASSUME OInv, [Next]_vars, MInv' PROVE OInv'
        BY MInvHolds DEF OInv
    <2>1. CASE UNCHANGED vars
        BY <2>1 DEF vars, mishap, device, caller, OInv, Shapes, Solo, Using, Want, Clean, Consistent
    <2>2. CASE Frame \/ Obey
        BY <2>2, CardKeeps
    <2>3. ASSUME NEW p \in Callers, Post(p) PROVE OInv'
        BY <2>3, PostKeeps
    <2>4. ASSUME NEW p \in Callers, Poll(p) \/ GiveUp(p) \/ PostCommand(p) \/ WriteDone(p)
          PROVE  OInv'
        BY <2>4, MailboxKeeps
    <2>5. ASSUME NEW p \in Callers, ReadSignal(p) \/ ReadField(p) \/ ReadCheck(p)
          PROVE  OInv'
        BY <2>5, ReadingKeeps, BoundAssumption
    <2>6. ASSUME NEW p \in Callers,
                 Read(p) \/ Probe(p) \/ (\E fps \in Rates, code \in Codes : Write(p, fps, code))
                   \/ (\E val \in {0, 1} : RunOrSync(p, "run", val)) \/ RunOrSync(p, "sync", 1)
          PROVE  OInv'
        BY <2>6, CallsKeep
    <2>7. ASSUME NEW p \in Callers,
                 CreateFiles(p) \/ AddDevice(p) \/ Remove(p) \/ Unregister(p) \/ Unmap(p) \/ Return(p)
          PROVE  OInv'
        BY <2>7, ElseKeeps
    <2> QED BY <2>1, <2>2, <2>3, <2>4, <2>5, <2>6, <2>7 DEF Next
<1> QED BY <1>1, <1>2

\* A reading that the validation bytes let pass is one frame's timecode and user
\* bits, for any number of readers, of writers beside them and of values of the
\* validation byte, as long as the byte does not come round while one reading
\* is taken (pcitc_main.c:529-539).
THEOREM ReadingsAreOneFrame == Spec => []OneReading
<1>1. OInv => OneReading
    <2> SUFFICES ASSUME OInv, NEW p \in Callers,
                        pc[p] = "return" /\ job[p].kind = "read" /\ result[p] = "ok",
                        unlucky \cap {"bus", "overlap"} = {}
                 PROVE  got[p].tcode = got[p].ubits /\ got[p].tcode \in got[p].since .. now
        BY DEF OneReading
    <2>1. Consistent(p)
        BY DEF OInv, Clean
    <2>2. got[p].since \in Nat /\ got[p].tcode \in Nat /\ now \in Nat
        BY DEF OInv, Shapes
    <2> QED BY <2>1, <2>2 DEF Consistent
<1> QED BY <1>1, OInvHolds, PTL DEF Spec

-----------------------------------------------------------------------------
(* The mailbox: one caller at a time commands the card, and what an        *)
(* earlier one left behind in the slot is done before its first command is *)
(* posted.                                                                 *)

\* Who uses the mailbox or the generator's registers.
Commands(p) == pc[p] # "idle" /\ job[p].kind \in Commanding

Alone == \A p, q \in Callers : Commands(p) /\ Commands(q) => p = q

Number == Codes \cup {0, 1} \cup Supported
Pair   == [1 .. 2 -> Number]
Named  == {"none", "next", "serial", "rate", "ltc", "load", "output", "run"}
Idle   == {"none", "next"}

CardType ==
    card \in [slot : Named \X Number, answered : BOOLEAN, rate : Number, run : Number,
              regs : Pair, gen : Pair]

Steps == [reg : {"slot", "gen", "bits", "sync"}, val : (Named \cup {"code"}) \X Number]

\* The steps of a setup but for its first.
Plain ==
    {Command("ltc", 0), Poke("gen", 0), Poke("bits", 0), Command("load", 0),
     Command("output", 0), Command("run", 0)}

\* What may be left to do of a setup.
SetupRest(j, s) ==
    /\ s \in Seq(Steps) /\ s # <<>>
    /\ s[1] \in Plain \/ s[1] = Command("rate", IF j.kind = "probe" THEN 30 ELSE j.fps)
    /\ \A i \in 2 .. Len(s) : s[i] \in Plain

\* What may be left to do of a part of a call.
Rest(j, s) ==
    \/ j.part = "serial" /\ s = <<Command("serial", 0)>>
    \/ j.part = "setup" /\ SetupRest(j, s)
    \/ j.part = "load" /\ s \in {LoadScript(j.arg), Tail(LoadScript(j.arg)), <<Command("load", 0)>>}
    \/ j.kind = "run" /\ s = <<Command("run", j.arg)>>
    \/ j.kind = "sync" /\ s = <<Poke("sync", j.arg)>>

\* What the parts of a call are, and its arguments.
Parts(j) ==
    /\ \/ j.kind = "probe" /\ j.part \in {"serial", "setup"}
       \/ j.kind = "write" /\ j.part \in {"setup", "load"}
       \/ j.kind \in {"run", "sync"} /\ j.part = "none"
    /\ j.kind = "write" /\ j.part = "setup" => j.fps \in Supported
    /\ j.arg \in Codes \cup {0, 1}

\* The card has done what the command says.
Effected(c) ==
    /\ c[1] = "rate" => card.rate = c[2]
    /\ c[1] = "load" => card.gen = card.regs
    /\ c[1] = "run" => card.run = c[2]

\* The caller is at a step of its script, and the card as far as the step.
Sending(p) ==
    LET step1 == todo[p][1]
    IN  /\ Rest(job[p], todo[p])
        /\ pc[p] = "poke" <=> step1.reg # "slot"
        /\ pc[p] = "post" => card.slot[1] = "none"
        /\ pc[p] \in {"answer", "drain"} =>
             card.slot = step1.val \/ (card.slot[1] = "none" /\ Effected(step1.val))
        /\ pc[p] = "clear" => card.slot[1] = "none" /\ Effected(step1.val)

\* The registers hold what the script has put there.
Loading(p) ==
    job[p].part = "load" =>
        /\ Len(todo[p]) < 3 => card.regs[1] = job[p].arg
        /\ Len(todo[p]) < 2 => card.regs[2] = job[p].arg

\* If nothing was slow, the card runs at the rate of a setup from its second step on.
Setting(p) ==
    unlucky = {} /\ job[p].part = "setup" /\ todo[p][1] \in Plain =>
        /\ card.slot[1] # "rate"
        /\ job[p].kind = "write" => card.rate = job[p].fps

\* A write loads its timecode when the driver has recorded its rate.
Recorded(p) ==
    (/\ unlucky = {} /\ job[p].kind = "write" /\ job[p].fps \in Supported
     /\ pc[p] = "return" \/ job[p].part = "load") => cfps = job[p].fps

\* What a good result means.
Done(p) ==
    result[p] = "ok" =>
        /\ job[p].kind \in {"run", "write"} => card.slot[1] \in Idle
        /\ job[p].kind = "run" => card.run = job[p].arg
        /\ job[p].kind = "write" => card.gen = <<job[p].arg, job[p].arg>>

Right(p) ==
    Commands(p) =>
        /\ Parts(job[p])
        /\ pc[p] \in Mailbox => Sending(p) /\ Loading(p) /\ Setting(p)
        /\ Recorded(p)
        /\ pc[p] = "return" => Done(p)

SettingUp(p) == pc[p] \in Mailbox /\ job[p].part = "setup"

\* Between setups the driver knows the rate of the card.
RateKnown ==
    (unlucky = {} /\ \A p \in Callers : ~SettingUp(p)) =>
        /\ card.slot[1] # "rate"
        /\ cfps # 0 => card.rate = cfps

\* A probe sets the card up without telling the driver the rate.
Unset == \A p \in Callers : Commands(p) /\ job[p].kind = "probe" => cfps = 0

EState ==
    CardType /\ cfps \in {0} \cup Supported /\ Alone /\ Unset /\ RateKnown /\ \A p \in Callers : Right(p)

\* The bus has not failed and the callers were not in each other's way.
EInv == Clean => EState

-----------------------------------------------------------------------------
(* Scripts. *)

Sent == {"serial", "rate", "ltc", "load", "output", "run"}

\* A command goes into the mailbox, a poke to its own register.
LEMMA StepOf ==
    ASSUME NEW c, NEW v
    PROVE  /\ Command(c, v).reg = "slot" /\ Command(c, v).val = <<c, v>>
           /\ Poke(c, v).reg = c /\ Poke(c, v).val = <<"code", v>>
           /\ <<c, v>>[1] = c /\ <<c, v>>[2] = v
BY DEF Command, Poke

LEMMA IsStep ==
    ASSUME NEW v \in Number
    PROVE  /\ \A c \in Named : Command(c, v) \in Steps
           /\ \A r \in {"gen", "bits", "sync"} : Poke(r, v) \in Steps
BY DEF Command, Poke, Steps

LEMMA PlainSteps ==
    ASSUME NEW w \in Plain
    PROVE  /\ w \in Steps
           /\ w.reg = "slot" => w.val[1] \in Sent \ {"rate"}
           /\ w.reg = "slot" \/ w \in {Poke("gen", 0), Poke("bits", 0)}
<1>1. w.reg = "slot" => w.val[1] \in Sent \ {"rate"}
    BY StepOf DEF Plain, Sent
<1>2. w.reg = "slot" \/ w \in {Poke("gen", 0), Poke("bits", 0)}
    BY StepOf DEF Plain
<1>3. w \in Steps
    BY IsStep DEF Plain, Named, Number
<1> QED BY <1>1, <1>2, <1>3

LEMMA LoadSteps ==
    ASSUME NEW a
    PROVE  /\ LoadScript(a) = <<Poke("gen", a), Poke("bits", a), Command("load", 0)>>
           /\ Len(LoadScript(a)) = 3 /\ Head(LoadScript(a)) = Poke("gen", a)
           /\ Tail(LoadScript(a)) = <<Poke("bits", a), Command("load", 0)>>
           /\ Len(Tail(LoadScript(a))) = 2 /\ Head(Tail(LoadScript(a))) = Poke("bits", a)
           /\ Tail(Tail(LoadScript(a))) = <<Command("load", 0)>>
BY DEF LoadScript

LEMMA HeadIsFirst ==
    ASSUME NEW T, NEW s \in Seq(T), s # <<>>
    PROVE  Head(s) = s[1] /\ s[1] \in T /\ Len(s) \in Nat \ {0}
<1>1. Len(s) \in Nat \ {0}
    BY EmptySeq
<1>2. s[1] \in T
    BY <1>1, ElementOfSeq
<1> QED BY <1>1, <1>2

\* A setup begins with its rate, and the rest is the same for every rate.
LEMMA SetupSteps ==
    ASSUME NEW f \in Supported, NEW j, f = IF j.kind = "probe" THEN 30 ELSE j.fps
    PROVE  SetupRest(j, SetupScript(f)) /\ Head(SetupScript(f)) = Command("rate", f)
<1> DEFINE u == <<Command("rate", f), Command("ltc", 0)>>
           l == <<Poke("gen", 0), Poke("bits", 0), Command("load", 0)>>
           w == <<Command("output", 0), Command("run", 0)>>
           s == (u \o l) \o w
<1>1. SetupScript(f) = s
    BY DEF SetupScript, LoadScript
<1>2. Plain \subseteq Steps /\ Command("rate", f) \in Steps
    BY PlainSteps, IsStep DEF Number, Named
<1>3. /\ u \in Seq(Steps) /\ l \in Seq(Steps) /\ w \in Seq(Steps)
      /\ Len(u) = 2 /\ Len(l) = 3 /\ Len(w) = 2
      /\ u[1] = Command("rate", f) /\ u[2] \in Plain
      /\ \A i \in 1 .. 3 : l[i] \in Plain
      /\ \A i \in 1 .. 2 : w[i] \in Plain
    BY <1>2 DEF Plain
<1> HIDE DEF u, l, w
<1> DEFINE v == u \o l
<1>4. /\ v \in Seq(Steps) /\ Len(v) = 5
      /\ \A i \in 1 .. 5 : v[i] = IF i <= 2 THEN u[i] ELSE l[i - 2]
    <2>1. /\ v \in Seq(Steps) /\ Len(v) = Len(u) + Len(l)
          /\ \A i \in 1 .. Len(u) + Len(l) : v[i] = IF i <= Len(u) THEN u[i] ELSE l[i - Len(u)]
        BY <1>3, ConcatProperties
    <2> HIDE DEF v
    <2> QED BY <2>1, <1>3
<1> HIDE DEF v
<1>5. /\ s \in Seq(Steps) /\ Len(s) = 7
      /\ \A i \in 1 .. 7 : s[i] = IF i <= 5 THEN v[i] ELSE w[i - 5]
    <2>1. /\ s \in Seq(Steps) /\ Len(s) = Len(v) + Len(w)
          /\ \A i \in 1 .. Len(v) + Len(w) : s[i] = IF i <= Len(v) THEN v[i] ELSE w[i - Len(v)]
        BY <1>3, <1>4, ConcatProperties DEF v
    <2> HIDE DEF s
    <2> QED BY <2>1, <1>3, <1>4
<1> HIDE DEF s
<1>6. s[1] = Command("rate", f)
    BY <1>3, <1>4, <1>5
<1>7. ASSUME NEW i \in 2 .. 7 PROVE s[i] \in Plain
    <2>1. CASE i = 2
        BY <2>1, <1>3, <1>4, <1>5
    <2>2. CASE i \in 3 .. 5
        <3>1. s[i] = l[i - 2] /\ i - 2 \in 1 .. 3
            BY <2>2, <1>4, <1>5
        <3> QED BY <3>1, <1>3
    <2>3. CASE i \in 6 .. 7
        <3>1. s[i] = w[i - 5] /\ i - 5 \in 1 .. 2
            BY <2>3, <1>5
        <3> QED BY <3>1, <1>3
    <2> QED BY <2>1, <2>2, <2>3
<1>8. s # <<>> /\ Head(s) = s[1]
    <2>1. Len(s) # 0 /\ s \in Seq(Steps)
        BY <1>5
    <2> QED BY <2>1, HeadIsFirst, EmptySeq
<1> QED BY <1>1, <1>5, <1>6, <1>7, <1>8 DEF SetupRest

\* The step a script is at is a command the card knows, or a poke.
LEMMA RestSteps ==
    ASSUME NEW j, NEW s, Parts(j), Rest(j, s)
    PROVE  /\ s \in Seq(Steps) /\ s # <<>> /\ Head(s) = s[1] /\ s[1] \in Steps
           /\ s[1].reg = "slot" => s[1].val[1] \in Sent
           /\ j.part # "setup" => s[1].val[1] # "rate"
<1>1. CASE j.part = "setup" /\ SetupRest(j, s)
    <2>1. s[1] \in Steps /\ Head(s) = s[1]
        BY <1>1, HeadIsFirst DEF SetupRest
    <2>2. s[1].reg = "slot" => s[1].val[1] \in Sent
        BY <1>1, PlainSteps, StepOf DEF SetupRest, Sent
    <2> QED BY <1>1, <2>1, <2>2 DEF SetupRest
<1>2. CASE ~(j.part = "setup" /\ SetupRest(j, s))
    <2> DEFINE a == j.arg
    <2>1. /\ a \in Number /\ 0 \in Number
          /\ s \in {<<Command("serial", 0)>>, <<Command("load", 0)>>, <<Command("run", a)>>, <<Poke("sync", a)>>,
                    <<Poke("bits", a), Command("load", 0)>>, <<Poke("gen", a), Poke("bits", a), Command("load", 0)>>}
        BY <1>2, LoadSteps DEF Rest, Parts, Number
    <2>2. {Command("serial", 0), Command("load", 0), Command("run", a), Poke("sync", a), Poke("bits", a), Poke("gen", a)} \subseteq Steps
        BY <2>1, IsStep DEF Named
    <2> DEFINE H == {Command("serial", 0), Command("load", 0), Command("run", a), Poke("sync", a), Poke("bits", a), Poke("gen", a)}
    <2>3. s \in Seq(Steps) /\ s # <<>> /\ Head(s) = s[1] /\ s[1] \in H
        <3>1. ASSUME NEW x \in Steps, s = <<x>> PROVE s \in Seq(Steps) /\ s # <<>> /\ Head(s) = s[1] /\ s[1] = x
            BY <3>1
        <3>2. ASSUME NEW x \in Steps, NEW y \in Steps, s = <<x, y>>
              PROVE  s \in Seq(Steps) /\ s # <<>> /\ Head(s) = s[1] /\ s[1] = x
            BY <3>2
        <3>3. ASSUME NEW x \in Steps, NEW y \in Steps, NEW z \in Steps, s = <<x, y, z>>
              PROVE  s \in Seq(Steps) /\ s # <<>> /\ Head(s) = s[1] /\ s[1] = x
            BY <3>3
        <3> QED BY <2>1, <2>2, <3>1, <3>2, <3>3
    <2>4. s[1].val[1] # "rate" /\ (s[1].reg = "slot" => s[1].val[1] \in Sent)
        BY <2>3, StepOf DEF Sent
    <2> QED BY <2>2, <2>3, <2>4
<1> QED BY <1>1, <1>2

\* What is left after a step.
LEMMA RestAfter ==
    ASSUME NEW j, NEW s, Parts(j), Rest(j, s), Len(s) > 1
    PROVE  /\ Rest(j, Tail(s)) /\ j.part \in {"setup", "load"}
           /\ j.part = "setup" => Head(Tail(s)) \in Plain
           /\ j.part = "load" =>
                \/ Len(s) = 3 /\ Len(Tail(s)) = 2 /\ Head(s) = Poke("gen", j.arg)
                \/ Len(s) = 2 /\ Len(Tail(s)) = 1 /\ Head(s) = Poke("bits", j.arg)
<1>1. CASE j.part = "setup"
    <2>1. SetupRest(j, s)
        BY <1>1 DEF Rest, Parts
    <2> DEFINE t == Tail(s)
    <2>2. /\ t \in Seq(Steps) /\ Len(t) = Len(s) - 1 /\ Len(s) \in Nat
          /\ \A i \in 1 .. Len(t) : t[i] = s[i + 1]
        BY <2>1, HeadTailProperties, LenProperties DEF SetupRest
    <2> HIDE DEF t
    <2>3. t # <<>> /\ Head(t) = t[1]
        <3>1. Len(t) # 0
            BY <2>2
        <3> QED BY <2>2, <3>1, HeadIsFirst, EmptySeq
    <2>4. \A i \in 1 .. Len(t) : t[i] \in Plain
        BY <2>1, <2>2 DEF SetupRest
    <2>5. t[1] \in Plain
        BY <2>2, <2>4
    <2>6. SetupRest(j, t)
        BY <2>2, <2>3, <2>4, <2>5 DEF SetupRest
    <2> QED BY <1>1, <2>3, <2>5, <2>6 DEF Rest, t
<1>2. CASE j.part = "load"
    <2>1. s \in {LoadScript(j.arg), Tail(LoadScript(j.arg)), <<Command("load", 0)>>}
        BY <1>2 DEF Rest, Parts
    <2> DEFINE s1 == <<Command("load", 0)>>
               s3 == LoadScript(j.arg)
               s2 == Tail(s3)
    <2>2. Len(s1) = 1
        OBVIOUS
    <2>3. /\ Len(s3) = 3 /\ Len(s2) = 2 /\ Tail(s2) = s1
          /\ Head(s3) = Poke("gen", j.arg) /\ Head(s2) = Poke("bits", j.arg)
        BY LoadSteps
    <2>4. Rest(j, s1) /\ Rest(j, s2) /\ s2 = Tail(s3)
        BY <1>2 DEF Rest
    <2>5. s \in {s1, s2, s3}
        BY <2>1
    <2> HIDE DEF s1, s2, s3
    <2>6. s # s1
        <3> SUFFICES ASSUME s = s1 PROVE FALSE
            OBVIOUS
        <3> DEFINE n == Len(s)
        <3>1. n = 1 /\ n > 1
            BY <2>2
        <3> QED BY <3>1
    <2> QED BY <1>2, <2>2, <2>3, <2>4, <2>5, <2>6
<1>3. CASE j.part \notin {"setup", "load"}
    BY <1>3 DEF Rest
<1> QED BY <1>1, <1>2, <1>3

-----------------------------------------------------------------------------
(* The card. *)

\* A write to the mailbox is there, a write to a register too; a read changes nothing.
LEMMA CardAfter ==
    ASSUME CardType, NEW a, card' = After(a),
           \/ a \in Steps /\ (a.reg = "slot" => a.val[1] \in Named)
           \/ a.reg \in {"none", "valid", "tcode", "ubits", "signal", "status"}
    PROVE  /\ CardType' /\ card'.rate = card.rate /\ card'.run = card.run /\ card'.gen = card.gen
           /\ card'.slot = IF a.reg = "slot" THEN a.val ELSE card.slot
           /\ card'.regs[1] = IF a.reg = "gen" THEN a.val[2] ELSE card.regs[1]
           /\ card'.regs[2] = IF a.reg = "bits" THEN a.val[2] ELSE card.regs[2]
           /\ a.reg \notin {"gen", "bits"} => card'.regs = card.regs
           /\ a.reg \notin {"slot", "gen", "bits"} => card' = card
<1>1. CASE a.reg = "slot"
    <2>1. card' = [card EXCEPT !.slot = a.val] /\ a.val \in Named \X Number
        BY <1>1 DEF After, Steps
    <2> QED BY <1>1, <2>1 DEF CardType
<1>2. CASE a.reg = "gen"
    <2>1. card' = [card EXCEPT !.regs[1] = a.val[2]] /\ a.val[2] \in Number
        BY <1>2 DEF After, Steps
    <2> QED BY <1>2, <2>1 DEF CardType, Pair
<1>3. CASE a.reg = "bits"
    <2>1. card' = [card EXCEPT !.regs[2] = a.val[2]] /\ a.val[2] \in Number
        BY <1>3 DEF After, Steps
    <2> QED BY <1>3, <2>1 DEF CardType, Pair
<1>4. CASE a.reg \notin {"slot", "gen", "bits"}
    BY <1>4 DEF After, CardType
<1> QED BY <1>1, <1>2, <1>3, <1>4

\* The card does what is in the mailbox.
LEMMA CardObeys ==
    ASSUME CardType, Obey
    PROVE  /\ CardType' /\ card.slot[1] # "none" /\ card'.slot[1] = "none" /\ card'.regs = card.regs
           /\ card'.rate = IF card.slot[1] = "rate" THEN card.slot[2] ELSE card.rate
           /\ card'.run = IF card.slot[1] = "run" THEN card.slot[2] ELSE card.run
           /\ card'.gen = IF card.slot[1] = "load" THEN card.regs ELSE card.gen
<1> DEFINE cmd == card.slot
           done == [card EXCEPT !.slot = <<"none", 0>>, !.answered = cmd[1] # "next"]
<1>1. /\ cmd[1] # "none" /\ cmd[2] \in Number
      /\ card' = CASE cmd[1] = "rate" -> [done EXCEPT !.rate = cmd[2]]
                   [] cmd[1] = "load" -> [done EXCEPT !.gen = card.regs]
                   [] cmd[1] = "run" -> [done EXCEPT !.run = cmd[2]]
                   [] OTHER -> done
    BY DEF Obey, CardType
<1>2. /\ done \in [slot : Named \X Number, answered : BOOLEAN, rate : Number, run : Number,
                   regs : Pair, gen : Pair]
      /\ done.slot[1] = "none" /\ done.rate = card.rate /\ done.run = card.run
      /\ done.regs = card.regs /\ done.gen = card.gen
    <2>1. <<"none", 0>> \in Named \X Number /\ <<"none", 0>>[1] = "none" /\ (cmd[1] # "next") \in BOOLEAN
        BY DEF Named, Number
    <2> QED BY <2>1 DEF CardType
<1> HIDE DEF done
<1>3. CASE cmd[1] = "rate"
    <2>1. card' = [done EXCEPT !.rate = cmd[2]]
        BY <1>1, <1>3
    <2> QED BY <1>1, <1>2, <1>3, <2>1 DEF CardType
<1>4. CASE cmd[1] = "load"
    <2>1. card' = [done EXCEPT !.gen = card.regs]
        BY <1>1, <1>4
    <2> QED BY <1>1, <1>2, <1>4, <2>1 DEF CardType
<1>5. CASE cmd[1] = "run"
    <2>1. card' = [done EXCEPT !.run = cmd[2]]
        BY <1>1, <1>5
    <2> QED BY <1>1, <1>2, <1>5, <2>1 DEF CardType
<1>6. CASE cmd[1] \notin {"rate", "load", "run"}
    <2>1. card' = done
        BY <1>1, <1>6
    <2> QED BY <1>1, <1>2, <1>6, <2>1 DEF CardType
<1> QED BY <1>3, <1>4, <1>5, <1>6

\* Alone, a caller does to the card what it wants to.
LEMMA AccessDoes ==
    ASSUME Solo, NEW p \in Callers, NEW v, Access(p, v), Clean'
    PROVE  v = Value(Want(p)) /\ card' = After(Want(p)) /\ unlucky' = unlucky
<1>1. Clean /\ "overlap" \notin unlucky
    BY DEF Access, Clean
<1>2. \/ v = Value(Want(p)) /\ card' = After(Want(p)) /\ unlucky' = unlucky
      \/ bus = "pcie" /\ posted[p] /\ v = Value(word) /\ card' = After(word) /\ unlucky' = unlucky
    BY DEF Access, Clean
<1> QED BY <1>1, <1>2 DEF Solo

\* What is wanted at each place.
LEMMA Wanted ==
    ASSUME NEW p \in Callers
    PROVE  /\ pc[p] \in Reading => Want(p).reg \in {"valid", "tcode", "ubits", "signal"}
           /\ pc[p] \in {"quiet", "answer", "drain"} => Want(p).reg = "status"
           /\ pc[p] \in {"post", "poke"} => Want(p) = Head(todo[p])
           /\ pc[p] = "clear" => Want(p) = Command("next", 0)
<1>1. /\ DOMAIN Reads = Reading \cup {"quiet", "answer", "drain"}
      /\ \A l \in Reading : Reads[l] \in {"valid", "tcode", "ubits", "signal"}
      /\ \A l \in {"quiet", "answer", "drain"} : Reads[l] = "status"
    BY DEF Reads, Reading
<1>2. CASE pc[p] \in DOMAIN Reads
    <2>1. pc[p] \notin {"post", "poke", "clear"}
        BY <1>1, <1>2 DEF Reading
    <2>2. Want(p) = [reg |-> Reads[pc[p]], val |-> <<"none", 0>>]
        BY <1>2, <2>1 DEF Want
    <2> QED BY <1>1, <2>1, <2>2 DEF Reading
<1>3. CASE pc[p] \notin DOMAIN Reads
    BY <1>1, <1>3 DEF Want, Command, Reading
<1> QED BY <1>2, <1>3

\* What the loops on the status learn.
LEMMA StatusTells ==
    ASSUME NEW l, l \in {"quiet", "drain"}, NEW a, a.reg = "status"
    PROVE  Satisfied(l, Value(a)) => card.slot[1] = "none"
<1> DEFINE v == Value(a)
<1>1. v \in {0, 1, 4, 5} /\ (card.slot[1] # "none" => v \in {4, 5})
    BY DEF Value
<1> HIDE DEF v
<1>2. v \in {4, 5} => (v \div 4) % 2 = 1
    OBVIOUS
<1> QED BY <1>1, <1>2 DEF v, Satisfied, Bit

-----------------------------------------------------------------------------
(* Steps that leave the mailbox alone. *)

LEMMA NothingMoves ==
    ASSUME EState, UNCHANGED <<unlucky, card, cfps, pc, job, todo, result>>
    PROVE  EState'
<1>1. CardType' /\ (cfps \in {0} \cup Supported)' /\ Alone' /\ Unset' /\ RateKnown'
    BY DEF EState, CardType, Alone, Commands, Unset, RateKnown, SettingUp
<1>2. ASSUME NEW p \in Callers PROVE Right(p)'
    BY DEF EState, Right, Commands, Sending, Effected, Loading, Setting, Recorded, Done
<1> QED BY <1>1, <1>2 DEF EState

\* Only who commands may be setting the card up.
LEMMA SettersCommand == ASSUME Jobs, NEW p \in Callers, SettingUp(p) PROVE Commands(p)
BY DEF Jobs, SettingUp, Commands, Mailbox

\* The others do not command the card while one does.
LEMMA OthersRight ==
    ASSUME MInv, EState, NEW p \in Callers, Commands(p),
           \A q \in Callers \ {p} : pc'[q] = pc[q] /\ job'[q] = job[q]
    PROVE  \A q \in Callers \ {p} : ~Commands(q) /\ ~Commands(q)' /\ ~SettingUp(q) /\ ~SettingUp(q)' /\ Right(q)'
<1> SUFFICES ASSUME NEW q \in Callers \ {p}
             PROVE  ~Commands(q) /\ ~Commands(q)' /\ ~SettingUp(q) /\ ~SettingUp(q)' /\ Right(q)'
    OBVIOUS
<1>1. ~Commands(q)
    BY DEF EState, Alone
<1>2. ~Commands(q)'
    BY <1>1 DEF Commands
<1>3. ~SettingUp(q)
    BY <1>1, SettersCommand DEF MInv
<1>4. ~SettingUp(q)'
    BY <1>3 DEF SettingUp
<1> QED BY <1>1, <1>2, <1>3, <1>4 DEF Right

LEMMA CommanderMoves ==
    ASSUME MInv, EState, NEW p \in Callers, Commands(p),
           \A q \in Callers \ {p} : pc'[q] = pc[q] /\ job'[q] = job[q],
           CardType', cfps' \in {0} \cup Supported, RateKnown', Right(p)',
           Commands(p)' /\ job'[p].kind = "probe" => cfps' = 0
    PROVE  EState'
<1>1. \A q \in Callers \ {p} : ~Commands(q)' /\ Right(q)'
    BY OthersRight
<1>2. \A q \in Callers : Right(q)'
    BY <1>1
<1>3. Alone' /\ Unset'
    BY <1>1 DEF Alone, Unset
<1> QED BY <1>2, <1>3 DEF EState

\* Readers and removals do not command the card.
LEMMA BystanderMoves ==
    ASSUME MInv, MInv', EState, NEW p \in Callers, ~Commands(p), ~Commands(p)',
           UNCHANGED <<unlucky, card, cfps>>,
           \A q \in Callers \ {p} :
               pc'[q] = pc[q] /\ job'[q] = job[q] /\ todo'[q] = todo[q] /\ result'[q] = result[q]
    PROVE  EState'
<1>1. \A q \in Callers \ {p} : Commands(q)' <=> Commands(q)
    BY DEF Commands
<1>2. \A q \in Callers \ {p} : SettingUp(q)' <=> SettingUp(q)
    BY DEF SettingUp
<1>3. ~SettingUp(p) /\ ~SettingUp(p)'
    <2>1. ~(pc[p] \in Mailbox) /\ ~(pc'[p] \in Mailbox)
        BY DEF MInv, Jobs, Commands, Mailbox
    <2> QED BY <2>1 DEF SettingUp
<1>4. CardType' /\ (cfps \in {0} \cup Supported)' /\ Alone' /\ Unset'
    BY <1>1 DEF EState, CardType, Alone, Unset
<1>5. RateKnown'
    BY <1>2, <1>3 DEF EState, RateKnown
<1>6. ASSUME NEW q \in Callers PROVE Right(q)'
    <2>1. CASE q = p
        BY <2>1 DEF Right
    <2>2. CASE q # p
        <3>1. Right(q)
            BY DEF EState
        <3> QED BY <2>2, <3>1 DEF Right, Commands, Sending, Effected, Loading, Setting, Recorded, Done
    <2> QED BY <2>1, <2>2
<1> QED BY <1>4, <1>5, <1>6 DEF EState

\* What the reads of a reader find changes nothing.
LEMMA ReadsRight ==
    ASSUME OInv, MInv', EState, Clean', NEW p \in Callers,
           Read(p) \/ ReadSignal(p) \/ ReadField(p) \/ ReadCheck(p)
    PROVE  EState'
<1>1. /\ \A q \in Callers \ {p} :
            pc'[q] = pc[q] /\ job'[q] = job[q] /\ todo'[q] = todo[q] /\ result'[q] = result[q]
      /\ cfps' = cfps
    <2>1. \E l : pc' = [pc EXCEPT ![p] = l]
        BY DEF Read, ReadSignal, ReadField, ReadCheck, Goto, Returns
    <2>2. job' = job \/ \E j : job' = [job EXCEPT ![p] = j]
        BY DEF Read, ReadSignal, ReadField, ReadCheck
    <2>3. todo' = todo /\ cfps' = cfps
        BY DEF Read, ReadSignal, ReadField, ReadCheck, device
    <2>4. result' = result \/ \E r : result' = [result EXCEPT ![p] = r]
        BY DEF Read, ReadSignal, ReadField, ReadCheck, Returns
    <2> QED BY <2>1, <2>2, <2>3, <2>4 DEF OInv, MInv, Jobs, Shapes
<1>2. ~Commands(p) /\ ~Commands(p)'
    <2>1. CASE Read(p)
        <3>1. pc[p] = "idle" /\ pc' = [pc EXCEPT ![p] = "signal"]
            BY <2>1 DEF Read, Enter, Goto
        <3>2. pc'[p] \in Reading
            BY <3>1 DEF OInv, MInv, Jobs, Reading
        <3>3. job'[p].kind = "read"
            BY <3>2 DEF MInv, Jobs
        <3> QED BY <3>1, <3>3 DEF Commands, Commanding
    <2>2. CASE ReadSignal(p) \/ ReadField(p) \/ ReadCheck(p)
        <3>1. pc[p] \in Reading /\ job' = job
            BY <2>2 DEF ReadSignal, ReadField, ReadCheck, Reading
        <3> QED BY <3>1 DEF OInv, MInv, Jobs, Commands, Commanding
    <2> QED BY <2>1, <2>2
<1>3. card' = card /\ unlucky' = unlucky
    <2>1. CASE Read(p)
        BY <2>1 DEF Read, Enter, Clean
    <2>2. CASE ReadSignal(p) \/ ReadField(p) \/ ReadCheck(p)
        <3>1. /\ \E v \in Values : Access(p, v)
              /\ Want(p).reg \in {"valid", "tcode", "ubits", "signal"}
            <4>1. pc[p] \in Reading /\ \E v \in Values : Access(p, v)
                BY <2>2 DEF ReadSignal, ReadField, ReadCheck, Reading
            <4> QED BY <4>1, Wanted
        <3>2. card' = After(Want(p)) /\ unlucky' = unlucky
            BY <3>1, AccessDoes DEF OInv
        <3> QED BY <3>1, <3>2, CardAfter DEF EState
    <2> QED BY <2>1, <2>2
<1> QED BY <1>1, <1>2, <1>3, BystanderMoves DEF OInv

\* A card comes and goes, and a call returns.
LEMMA RestRight ==
    ASSUME OInv, MInv', EState, NEW p \in Callers,
           CreateFiles(p) \/ AddDevice(p) \/ Remove(p) \/ Unregister(p) \/ Unmap(p) \/ Return(p)
    PROVE  EState'
<1>1. /\ UNCHANGED <<unlucky, card, cfps, todo>>
      /\ \A q \in Callers \ {p} : pc'[q] = pc[q] /\ job'[q] = job[q] /\ result'[q] = result[q]
    <2>1. UNCHANGED <<unlucky, card, cfps, todo>>
        BY DEF CreateFiles, AddDevice, Remove, Unregister, Unmap, Return, mishap, device
    <2>2. pc' = pc \/ \E l : pc' = [pc EXCEPT ![p] = l]
        BY DEF CreateFiles, AddDevice, Remove, Unregister, Unmap, Return, Goto, Returns
    <2>3. job' = job \/ \E j : job' = [job EXCEPT ![p] = j]
        BY DEF CreateFiles, AddDevice, Remove, Unregister, Unmap, Return
    <2>4. result' = result \/ \E r : result' = [result EXCEPT ![p] = r]
        BY DEF CreateFiles, AddDevice, Remove, Unregister, Unmap, Return, Returns
    <2> QED BY <2>1, <2>2, <2>3, <2>4 DEF OInv, MInv, Jobs, Shapes
<1>2. /\ pc[p] \in {"idle", "return"} \cup Attaching
      /\ pc'[p] \in {"idle", "return"} \cup Attaching
    <2>1. pc[p] \in {"idle", "return"} \cup Attaching
        BY DEF CreateFiles, AddDevice, Remove, Unregister, Unmap, Return, Attaching
    <2>2. pc' = pc \/ \E l \in {"idle", "return"} \cup Attaching : pc' = [pc EXCEPT ![p] = l]
        BY DEF CreateFiles, AddDevice, Remove, Unregister, Unmap, Return, Goto, Returns, Attaching
    <2> QED BY <2>1, <2>2 DEF OInv, MInv, Jobs
<1>3. pc[p] \notin Mailbox /\ pc'[p] \notin Mailbox
    BY <1>2 DEF Mailbox, Attaching
<1>4. CASE ~Commands(p)
    <2>1. ~Commands(p)'
        <3>1. CASE Remove(p)
            <4>1. job' = [job EXCEPT ![p] = [Nothing EXCEPT !.kind = "remove"]]
                BY <3>1 DEF Remove
            <4>2. job'[p].kind = "remove"
                BY <4>1 DEF OInv, MInv, Jobs, Nothing
            <4> QED BY <4>2 DEF Commands, Commanding
        <3>2. CASE Return(p)
            BY <3>2 DEF Return, Goto, Commands, OInv, MInv, Jobs
        <3>3. CASE CreateFiles(p) \/ AddDevice(p) \/ Unregister(p) \/ Unmap(p)
            <4>1. pc[p] # "idle" /\ job' = job
                BY <3>3 DEF CreateFiles, AddDevice, Unregister, Unmap
            <4> QED BY <1>4, <4>1 DEF Commands
        <3> QED BY <3>1, <3>2, <3>3
    <2> QED BY <1>1, <1>4, <2>1, BystanderMoves DEF OInv
<1>5. CASE Commands(p)
    <2>1. RateKnown'
        <3>1. ~SettingUp(p) /\ ~SettingUp(p)'
            BY <1>3 DEF SettingUp
        <3>2. \A q \in Callers \ {p} : SettingUp(q)' <=> SettingUp(q)
            BY <1>1 DEF SettingUp
        <3> QED BY <1>1, <3>1, <3>2 DEF EState, RateKnown
    <2>2. CASE Return(p)
        <3>1. ~Commands(p)'
            BY <2>2 DEF Return, Goto, Commands, OInv, MInv, Jobs
        <3> QED BY <1>1, <1>5, <2>1, <3>1, CommanderMoves DEF OInv, Right, EState, CardType
    <2>3. CASE ~Return(p)
        <3>1. ~Remove(p)
            BY <1>5 DEF Remove, Commands
        <3>2. pc[p] \in Attaching /\ job' = job
            BY <2>3, <3>1 DEF CreateFiles, AddDevice, Unregister, Unmap, Attaching
        <3>3. job[p].kind = "probe" /\ Parts(job[p]) /\ cfps = 0
            BY <1>5, <3>2 DEF OInv, MInv, Jobs, EState, Right, Unset, Commands, Commanding
        <3>4. Right(p)'
            BY <1>1, <1>3, <3>2, <3>3 DEF Right, Recorded, Done
        <3> QED BY <1>1, <1>5, <2>1, <3>3, <3>4, CommanderMoves DEF OInv, EState, CardType
    <2> QED BY <2>2, <2>3
<1> QED BY <1>4, <1>5

-----------------------------------------------------------------------------
(* Calls that command the card begin. *)

LEMMA RateIsNotPlain == ASSUME NEW v PROVE Command("rate", v) \notin Plain
BY PlainSteps, StepOf DEF Sent

LEMMA ScriptBegins ==
    ASSUME NEW s, NEW l, l = FirstStep(s), Head(s) = s[1]
    PROVE  l \in {"quiet", "poke"} /\ (l = "poke" <=> s[1].reg # "slot")
BY DEF FirstStep

\* A part of a call that begins has nothing of the card to know but its rate.
LEMMA PartBegins ==
    ASSUME NEW p \in Callers, Parts(job'[p]), Rest(job'[p], todo'[p]), Head(todo'[p]) = todo'[p][1],
           pc'[p] = FirstStep(todo'[p]), job'[p].part = "load" => Len(todo'[p]) = 3,
           job'[p].part = "setup" => todo'[p][1] \notin Plain,
           Recorded(p)'
    PROVE  Right(p)'
<1>1. pc'[p] \in {"quiet", "poke"} /\ (pc'[p] = "poke" <=> todo'[p][1].reg # "slot")
    BY ScriptBegins
<1>2. Sending(p)'
    BY <1>1 DEF Sending
<1>3. Loading(p)'
    <2> DEFINE n == Len(todo'[p])
    <2>1. n = 3 => ~(n < 3) /\ ~(n < 2)
        OBVIOUS
    <2> QED BY <2>1 DEF Loading
<1>4. Setting(p)'
    BY DEF Setting
<1> QED BY <1>1, <1>2, <1>3, <1>4 DEF Right

\* A caller begins when nobody commands the card.
LEMMA CommandEnters ==
    ASSUME OInv, OInv', EState, Clean', NEW p \in Callers, NEW kind \in Commanding, Enter(p, kind),
           NEW j, NEW s, Parts(j), Rest(j, s), Head(s) = s[1], j.kind = kind,
           j.part = "load" => Len(s) = 3, j.part = "setup" => s[1] \notin Plain,
           j.kind = "write" /\ j.fps \in Supported /\ j.part = "load" => cfps' = j.fps,
           job' = [job EXCEPT ![p] = j], todo' = [todo EXCEPT ![p] = s],
           pc' = [pc EXCEPT ![p] = FirstStep(s)], result' = result,
           cfps' = cfps \/ (cfps' = 0 /\ kind = "probe"),
           kind = "probe" => cfps' = 0
    PROVE  EState'
<1>1. pc[p] = "idle" /\ unlucky' = unlucky /\ card' = card /\ \A q \in Callers : ~Commands(q)
    BY DEF Enter, Clean, Doing, Busy, Commands
<1>2. /\ pc'[p] = FirstStep(s) /\ job'[p] = j /\ todo'[p] = s
      /\ \A q \in Callers \ {p} : pc'[q] = pc[q] /\ job'[q] = job[q]
    BY DEF OInv, MInv, Jobs, Shapes
<1>3. Right(p)'
    <2>1. pc'[p] # "return"
        BY <1>2 DEF FirstStep
    <2>2. Recorded(p)'
        BY <1>2, <2>1 DEF Recorded
    <2> QED BY <1>2, <2>2, PartBegins
<1>4. \A q \in Callers \ {p} : ~Commands(q)'
    BY <1>1, <1>2 DEF Commands
<1>5. \A q \in Callers : Right(q)'
    BY <1>3, <1>4 DEF Right
<1>6. Alone' /\ Unset'
    BY <1>2, <1>4 DEF Alone, Unset
<1>7. RateKnown'
    <2>1. \A q \in Callers : ~SettingUp(q)
        BY <1>1, SettersCommand DEF OInv, MInv
    <2> QED BY <1>1, <2>1 DEF EState, RateKnown
<1>8. CardType' /\ cfps' \in {0} \cup Supported
    BY <1>1 DEF EState, CardType
<1> QED BY <1>5, <1>6, <1>7, <1>8 DEF EState

LEMMA CommandsRight ==
    ASSUME OInv, OInv', EState, Clean', NEW p \in Callers,
           Probe(p) \/ (\E fps \in Rates, code \in Codes : Write(p, fps, code))
             \/ (\E val \in {0, 1} : RunOrSync(p, "run", val)) \/ RunOrSync(p, "sync", 1)
    PROVE  EState'
<1>1. CASE Probe(p)
    <2> DEFINE j == [Nothing EXCEPT !.kind = "probe", !.part = "serial"]
               s == <<Command("serial", 0)>>
    <2>1. /\ Enter(p, "probe") /\ cfps' = 0 /\ result' = result
          /\ job' = [job EXCEPT ![p] = j] /\ todo' = [todo EXCEPT ![p] = s]
          /\ pc' = [pc EXCEPT ![p] = "quiet"]
        BY <1>1 DEF Probe, Goto
    <2>2. j.kind = "probe" /\ j.part = "serial" /\ Parts(j)
        BY DEF Nothing, Parts
    <2>3. Head(s) = s[1] /\ s[1] = Command("serial", 0)
        OBVIOUS
    <2>4. Rest(j, s) /\ FirstStep(s) = "quiet"
        BY <2>2, <2>3, StepOf DEF Rest, FirstStep
    <2> HIDE DEF j, s
    <2> QED BY <2>1, <2>2, <2>3, <2>4, CommandEnters DEF Commanding
<1>2. ASSUME NEW fps \in Rates, NEW code \in Codes, Write(p, fps, code) PROVE EState'
    <2> DEFINE part == IF NeedsSetup(fps) THEN "setup" ELSE "load"
               j == [kind |-> "write", fps |-> fps, arg |-> code, part |-> part]
               s == IF NeedsSetup(fps) THEN SetupScript(fps) ELSE LoadScript(code)
    <2>1. /\ Enter(p, "write") /\ cfps' = cfps /\ result' = result
          /\ job' = [job EXCEPT ![p] = j] /\ todo' = [todo EXCEPT ![p] = s]
          /\ pc' = [pc EXCEPT ![p] = FirstStep(s)]
        BY <1>2 DEF Write, Goto, device
    <2>2. /\ j.kind = "write" /\ j.fps = fps /\ j.arg = code
          /\ j.part = part /\ Parts(j)
        BY DEF Parts, NeedsSetup
    <2>3. CASE NeedsSetup(fps)
        <3>1. fps \in Supported /\ j.part = "setup" /\ s = SetupScript(fps)
            BY <2>2, <2>3 DEF NeedsSetup
        <3> HIDE DEF j, s, part
        <3>2. SetupRest(j, s) /\ Head(s) = Command("rate", fps)
            BY <2>2, <3>1, SetupSteps
        <3>3. Rest(j, s)
            BY <3>1, <3>2 DEF Rest
        <3>4. Head(s) = s[1] /\ s[1] \notin Plain
            BY <2>2, <3>2, <3>3, RestSteps, RateIsNotPlain
        <3> QED BY <2>1, <2>2, <3>1, <3>3, <3>4, CommandEnters DEF Commanding
    <2>4. CASE ~NeedsSetup(fps)
        <3>1. j.part = "load" /\ s = LoadScript(code) /\ (fps \in Supported => cfps = fps)
            BY <2>2, <2>4 DEF NeedsSetup
        <3> HIDE DEF j, s, part
        <3>2. Rest(j, s) /\ Len(s) = 3
            BY <2>2, <3>1, LoadSteps DEF Rest
        <3>3. Head(s) = s[1]
            BY <2>2, <3>2, RestSteps
        <3> QED BY <2>1, <2>2, <3>1, <3>2, <3>3, CommandEnters DEF Commanding
    <2> QED BY <2>3, <2>4
<1>3. ASSUME NEW kind \in {"run", "sync"}, NEW val \in {0, 1}, RunOrSync(p, kind, val) PROVE EState'
    <2> DEFINE j == [Nothing EXCEPT !.kind = kind, !.arg = val]
               s == IF kind = "run" THEN <<Command("run", val)>> ELSE <<Poke("sync", val)>>
    <2>1. /\ Enter(p, kind) /\ cfps' = cfps /\ result' = result
          /\ job' = [job EXCEPT ![p] = j] /\ todo' = [todo EXCEPT ![p] = s]
          /\ pc' = [pc EXCEPT ![p] = FirstStep(s)]
        BY <1>3 DEF RunOrSync, Goto, device
    <2>2. j.kind = kind /\ j.arg = val /\ j.part = "none" /\ Parts(j)
        BY DEF Parts, Nothing
    <2>3. Rest(j, s)
        BY <2>2 DEF Rest
    <2> HIDE DEF j, s
    <2>4. Head(s) = s[1]
        BY <2>2, <2>3, RestSteps
    <2> QED BY <2>1, <2>2, <2>3, <2>4, CommandEnters DEF Commanding
<1> QED BY <1>1, <1>2, <1>3

-----------------------------------------------------------------------------
(* Steps of the mailbox. *)

\* A part of a call ends: after a good end the card has done all of it.
LEMMA PartRight ==
    ASSUME OInv, OInv', EState, CardType', NEW p \in Callers, pc[p] \in Mailbox,
           NEW good \in BOOLEAN, PartEnds(p, good),
           ~good => unlucky' # {},
           good /\ unlucky' = {} =>
               /\ unlucky = {} /\ card'.slot[1] # "rate"
               /\ job[p].part = "setup" /\ job[p].kind = "write" => card'.rate = job[p].fps
               /\ job[p].part # "setup" => card'.rate = card.rate,
           good /\ job[p].kind = "run" => card'.slot[1] \in Idle /\ card'.run = job[p].arg,
           good /\ job[p].part = "load" => card'.slot[1] \in Idle /\ card'.gen = <<job[p].arg, job[p].arg>>
    PROVE  EState'
<1>1. Commands(p) /\ Right(p) /\ Parts(job[p])
    BY DEF OInv, MInv, Jobs, Mailbox, Commands, EState, Right
<1>2. CASE job[p].part = "serial"
    <2> DEFINE s == SetupScript(30)
    <2>1. /\ job' = [job EXCEPT ![p].part = "setup"] /\ todo' = [todo EXCEPT ![p] = s]
          /\ pc' = [pc EXCEPT ![p] = FirstStep(s)] /\ cfps' = cfps
        BY <1>2 DEF PartEnds, Begin, Goto
    <2>2. /\ job'[p].part = "setup" /\ job'[p].kind = "probe" /\ job'[p].arg = job[p].arg
          /\ todo'[p] = s /\ pc'[p] = FirstStep(s)
          /\ \A q \in Callers \ {p} : pc'[q] = pc[q] /\ job'[q] = job[q]
        BY <1>1, <1>2, <2>1 DEF OInv, MInv, Jobs, Shapes, Parts
    <2>3. Parts(job'[p])
        BY <1>1, <2>2 DEF Parts
    <2>4. SetupRest(job'[p], s) /\ Head(s) = Command("rate", 30)
        BY <2>2, SetupSteps DEF Supported
    <2>5. Rest(job'[p], s)
        BY <2>2, <2>4 DEF Rest
    <2> HIDE DEF s
    <2>6. Head(s) = s[1] /\ s[1] \notin Plain
        BY <2>3, <2>4, <2>5, RestSteps, RateIsNotPlain
    <2>7. Recorded(p)'
        BY <2>2 DEF Recorded
    <2>8. Right(p)'
        BY <2>2, <2>3, <2>5, <2>6, <2>7, PartBegins
    <2>9. SettingUp(p)'
        BY <2>2 DEF SettingUp, FirstStep, Mailbox
    <2>10. RateKnown' /\ cfps' = 0
        BY <1>1, <2>1, <2>2, <2>9 DEF RateKnown, EState, Unset, Parts
    <2> QED BY <1>1, <2>1, <2>2, <2>8, <2>10, CommanderMoves DEF OInv, EState
<1>3. CASE job[p].part = "setup" /\ job[p].kind = "probe"
    <2>1. pc' = [pc EXCEPT ![p] = "register"] /\ job' = job /\ cfps' = cfps
        BY <1>3 DEF PartEnds, Goto
    <2>2. pc'[p] = "register" /\ \A q \in Callers \ {p} : pc'[q] = pc[q]
        BY <2>1 DEF OInv, MInv, Jobs
    <2>3. Right(p)'
        BY <1>1, <1>3, <2>1, <2>2 DEF Right, Mailbox, Recorded
    <2>4. cfps = 0
        BY <1>1, <1>3 DEF EState, Unset
    <2>5. RateKnown'
        BY <2>1, <2>4 DEF RateKnown
    <2> QED BY <1>1, <2>1, <2>2, <2>3, <2>4, <2>5, CommanderMoves DEF OInv, EState
<1>4. CASE job[p].part = "setup" /\ job[p].kind = "write"
    <2> DEFINE s == LoadScript(job[p].arg)
    <2>1. /\ job' = [job EXCEPT ![p].part = "load"] /\ todo' = [todo EXCEPT ![p] = s]
          /\ pc' = [pc EXCEPT ![p] = FirstStep(s)] /\ cfps' = IF good THEN job[p].fps ELSE cfps
        BY <1>4 DEF PartEnds, Begin, Goto
    <2>2. /\ job'[p].part = "load" /\ job'[p].kind = "write" /\ job'[p].arg = job[p].arg /\ job'[p].fps = job[p].fps
          /\ todo'[p] = s /\ pc'[p] = FirstStep(s)
          /\ \A q \in Callers \ {p} : pc'[q] = pc[q] /\ job'[q] = job[q]
        BY <1>1, <1>4, <2>1 DEF OInv, MInv, Jobs, Shapes, Parts
    <2>3. Parts(job'[p]) /\ job[p].fps \in Supported
        BY <1>1, <1>4, <2>2 DEF Parts
    <2>4. Rest(job'[p], s) /\ Len(s) = 3
        BY <2>2, LoadSteps DEF Rest
    <2> HIDE DEF s
    <2>5. Head(s) = s[1]
        BY <2>3, <2>4, RestSteps
    <2>6. Recorded(p)'
        BY <2>1, <2>2 DEF Recorded
    <2>7. Right(p)'
        BY <2>2, <2>3, <2>4, <2>5, <2>6, PartBegins
    <2>8. RateKnown'
        BY <1>4, <2>1 DEF RateKnown
    <2>9. cfps' \in {0} \cup Supported
        BY <2>1, <2>3 DEF EState
    <2> QED BY <1>1, <2>2, <2>7, <2>8, <2>9, CommanderMoves DEF OInv
<1>5. CASE job[p].part # "serial" /\ ~(job[p].part = "setup" /\ job[p].kind \in {"probe", "write"})
    <2>1. /\ pc' = [pc EXCEPT ![p] = "return"] /\ job' = job /\ cfps' = cfps
          /\ result' = [result EXCEPT ![p] = IF good THEN "ok" ELSE "error"]
        BY <1>5 DEF PartEnds, Returns, Goto
    <2>2. /\ pc'[p] = "return" /\ \A q \in Callers \ {p} : pc'[q] = pc[q]
          /\ result'[p] = IF good THEN "ok" ELSE "error"
        BY <2>1 DEF OInv, MInv, Jobs, Shapes
    <2>3. job[p].part # "setup" /\ (job[p].kind = "write" => job[p].part = "load")
        BY <1>1, <1>5 DEF Parts
    <2>4. Done(p)'
        BY <2>1, <2>2, <2>3 DEF Done
    <2>5. Recorded(p)'
        BY <1>1, <2>1, <2>2, <2>3 DEF Right, Recorded
    <2>6. Right(p)'
        BY <1>1, <2>1, <2>2, <2>4, <2>5 DEF Right, Mailbox
    <2>7. RateKnown'
        <3>1. \A q \in Callers : ~SettingUp(q)
            <4>1. \A q \in Callers \ {p} : ~SettingUp(q)
                BY <1>1, <2>1, <2>2, OthersRight DEF OInv
            <4>2. ~SettingUp(p)
                BY <2>3 DEF SettingUp
            <4> QED BY <4>1, <4>2
        <3>2. unlucky' = {} => good
            OBVIOUS
        <3> QED BY <2>1, <2>3, <3>1, <3>2 DEF EState, RateKnown
    <2> QED BY <1>1, <2>1, <2>2, <2>6, <2>7, CommanderMoves DEF OInv, EState, Unset
<1> QED BY <1>2, <1>3, <1>4, <1>5

\* A step of the mailbox that does not end its part.
LEMMA StaysRight ==
    ASSUME OInv, EState, CardType', NEW p \in Callers, pc[p] \in Mailbox, pc'[p] \in Mailbox,
           \A q \in Callers \ {p} : pc'[q] = pc[q],
           UNCHANGED <<unlucky, cfps, job>>,
           Sending(p)', Loading(p)', Setting(p)',
           job[p].part # "setup" /\ unlucky = {} => card'.slot[1] # "rate" /\ card'.rate = card.rate
    PROVE  EState'
<1>1. Commands(p) /\ Right(p)
    BY DEF OInv, MInv, Jobs, Mailbox, Commands, EState
<1>2. Right(p)'
    <2>1. Recorded(p)'
        BY <1>1 DEF Right, Recorded, Mailbox
    <2> QED BY <1>1, <2>1 DEF Right, Mailbox
<1>3. RateKnown'
    <2> SUFFICES ASSUME unlucky = {}, \A q \in Callers : ~SettingUp(q)'
                 PROVE  card'.slot[1] # "rate" /\ (cfps # 0 => card'.rate = cfps)
        BY DEF RateKnown
    <2>1. job[p].part # "setup"
        BY DEF SettingUp
    <2>2. \A q \in Callers : ~SettingUp(q)
        <3>1. \A q \in Callers \ {p} : ~SettingUp(q)
            BY <1>1, OthersRight DEF OInv
        <3> QED BY <2>1, <3>1 DEF SettingUp
    <2> QED BY <2>1, <2>2 DEF EState, RateKnown
<1> QED BY <1>1, <1>2, <1>3, CommanderMoves DEF OInv, EState, Unset

\* The step that a script is at.
LEMMA AtStep ==
    ASSUME OInv, EState, NEW p \in Callers, pc[p] \in Mailbox
    PROVE  /\ Parts(job[p]) /\ Sending(p) /\ Loading(p) /\ Setting(p)
           /\ Rest(job[p], todo[p]) /\ Head(todo[p]) = todo[p][1] /\ todo[p][1] \in Steps
           /\ todo[p][1].reg = "slot" => todo[p][1].val[1] \in Sent
           /\ job[p].part # "setup" => todo[p][1].val[1] # "rate"
<1>1. Commands(p) /\ Right(p)
    BY DEF OInv, MInv, Jobs, Mailbox, Commands, EState
<1>2. Parts(job[p]) /\ Sending(p) /\ Loading(p) /\ Setting(p) /\ Rest(job[p], todo[p])
    BY <1>1 DEF Right, Sending
<1> QED BY <1>2, RestSteps

LEMMA PollRight ==
    ASSUME OInv, EState, Clean', NEW p \in Callers, Poll(p)
    PROVE  EState'
<1>1. /\ pc[p] \in {"quiet", "answer", "drain"} /\ UNCHANGED <<cfps, job, todo>>
      /\ pc' = [pc EXCEPT ![p] = pc'[p]] /\ pc'[p] \in {pc[p], Follows[pc[p]]}
    <2>1. PICK l \in {pc[p], Follows[pc[p]]} : pc' = [pc EXCEPT ![p] = l]
        BY DEF Poll, Goto
    <2>2. pc'[p] = l
        BY <2>1 DEF OInv, MInv, Jobs
    <2> QED BY <2>1, <2>2 DEF Poll, Follows, device
<1>2. PICK v : Access(p, v) /\ pc'[p] = IF Satisfied(pc[p], v) THEN Follows[pc[p]] ELSE pc[p]
    BY DEF Poll, Goto, OInv, MInv, Jobs
<1>3. /\ Want(p).reg = "status" /\ v = Value(Want(p))
      /\ card' = card /\ unlucky' = unlucky
    <2>1. Want(p).reg = "status"
        BY <1>1, Wanted
    <2>2. v = Value(Want(p)) /\ card' = After(Want(p)) /\ unlucky' = unlucky
        BY <1>2, AccessDoes DEF OInv
    <2> QED BY <2>1, <2>2, CardAfter DEF EState
<1>4. \A q \in Callers \ {p} : pc'[q] = pc[q]
    BY <1>1 DEF OInv, MInv, Jobs
<1>5. pc[p] \in Mailbox
    BY <1>1 DEF Mailbox
<1>6. /\ Sending(p) /\ Loading(p) /\ Setting(p) /\ todo[p][1].reg = "slot"
      /\ todo[p][1].val[1] \in Sent
    BY <1>1, <1>5, AtStep DEF Sending
<1>7. \/ pc'[p] = pc[p]
      \/ pc[p] = "quiet" /\ pc'[p] = "post" /\ card.slot[1] = "none"
      \/ pc[p] = "answer" /\ pc'[p] = "drain"
      \/ pc[p] = "drain" /\ pc'[p] = "clear" /\ card.slot[1] = "none"
    BY <1>1, <1>2, <1>3, StatusTells DEF Follows
<1>8. Sending(p)'
    BY <1>1, <1>3, <1>6, <1>7 DEF Sending, Effected, Sent
<1>9. Loading(p)' /\ Setting(p)'
    BY <1>1, <1>3, <1>6 DEF Loading, Setting
<1>10. job[p].part # "setup" /\ unlucky = {} => card'.slot[1] # "rate"
    <2> SUFFICES ASSUME job[p].part # "setup", unlucky = {} PROVE card.slot[1] # "rate"
        BY <1>3
    <2>1. \A q \in Callers : ~SettingUp(q)
        <3>1. Commands(p)
            BY <1>5 DEF OInv, MInv, Jobs, Mailbox, Commands
        <3>2. \A q \in Callers \ {p} : ~SettingUp(q)
            BY <1>1, <1>4, <3>1, OthersRight DEF OInv
        <3> QED BY <3>2 DEF SettingUp
    <2> QED BY <2>1 DEF EState, RateKnown
<1>11. pc'[p] \in Mailbox
    BY <1>1, <1>7 DEF Mailbox
<1> QED BY <1>1, <1>3, <1>4, <1>5, <1>8, <1>9, <1>10, <1>11, StaysRight DEF EState, CardType

LEMMA PostRight ==
    ASSUME OInv, EState, Clean', NEW p \in Callers, PostCommand(p)
    PROVE  EState'
<1> DEFINE a == todo[p][1]
<1>1. /\ pc[p] = "post" /\ pc' = [pc EXCEPT ![p] = "answer"] /\ UNCHANGED <<cfps, job, todo>>
      /\ pc[p] \in Mailbox
    BY DEF PostCommand, Goto, device, Mailbox
<1>2. pc'[p] = "answer" /\ \A q \in Callers \ {p} : pc'[q] = pc[q]
    BY <1>1 DEF OInv, MInv, Jobs
<1>3. /\ Sending(p) /\ Loading(p) /\ Setting(p) /\ a \in Steps /\ Head(todo[p]) = a
      /\ a.reg = "slot" /\ a.val[1] \in Sent /\ (job[p].part # "setup" => a.val[1] # "rate")
    BY <1>1, AtStep DEF Sending
<1>4. card' = After(a) /\ unlucky' = unlucky
    BY <1>1, <1>3, Wanted, AccessDoes DEF PostCommand, OInv
<1>5. CardType' /\ card'.slot = a.val /\ card'.rate = card.rate /\ card'.regs = card.regs
    BY <1>3, <1>4, CardAfter DEF EState, Sent, Named
<1> HIDE DEF a
<1>6. Sending(p)'
    BY <1>1, <1>2, <1>3, <1>5 DEF Sending, a
<1>7. Loading(p)'
    BY <1>1, <1>3, <1>5 DEF Loading
<1>8. Setting(p)'
    <2>1. a \in Plain => a.val[1] # "rate"
        BY <1>3, PlainSteps
    <2> QED BY <1>1, <1>3, <1>4, <1>5, <2>1 DEF Setting, a
<1>9. pc'[p] \in Mailbox
    BY <1>2 DEF Mailbox
<1> QED BY <1>1, <1>2, <1>3, <1>4, <1>5, <1>6, <1>7, <1>8, <1>9, StaysRight

\* What a step that ends leaves in the card.
LEMMA StepEnds ==
    ASSUME OInv, EState, Clean', NEW p \in Callers, pc[p] \in {"clear", "poke"}, NEW v, Access(p, v)
    PROVE  LET a == todo[p][1]
           IN  /\ CardType' /\ unlucky' = unlucky
               /\ card'.rate = card.rate /\ card'.run = card.run /\ card'.gen = card.gen
               /\ card'.slot[1] = IF pc[p] = "clear" THEN "next" ELSE card.slot[1]
               /\ a.reg = "slot" => pc[p] = "clear" /\ Effected(a.val) /\ card'.regs = card.regs
               /\ a.reg # "slot" => pc[p] = "poke"
               /\ card'.regs[1] = IF a.reg = "gen" THEN a.val[2] ELSE card.regs[1]
               /\ card'.regs[2] = IF a.reg = "bits" THEN a.val[2] ELSE card.regs[2]
<1> DEFINE a == todo[p][1]
<1>1. card' = After(Want(p)) /\ unlucky' = unlucky
    BY AccessDoes DEF OInv
<1>2. pc[p] \in Mailbox
    BY DEF Mailbox
<1>3. Sending(p) /\ a \in Steps /\ Head(todo[p]) = a
    BY <1>2, AtStep
<1>4. CASE pc[p] = "clear"
    <2>1. a.reg = "slot" /\ Effected(a.val)
        BY <1>3, <1>4 DEF Sending
    <2> DEFINE n == Command("next", 0)
    <2>2. Want(p) = n
        BY <1>4, Wanted
    <2>3. n \in Steps /\ n.reg = "slot" /\ n.val = <<"next", 0>> /\ n.val[1] = "next"
        BY IsStep, StepOf DEF Named, Number
    <2> HIDE DEF n, a
    <2>4. /\ CardType' /\ card'.slot = n.val /\ card'.regs = card.regs
          /\ card'.rate = card.rate /\ card'.run = card.run /\ card'.gen = card.gen
        BY <1>1, <2>2, <2>3, CardAfter DEF EState, Named
    <2> QED BY <1>1, <1>4, <2>1, <2>3, <2>4 DEF a
<1>5. CASE pc[p] = "poke"
    <2>1. a.reg # "slot"
        BY <1>3, <1>5 DEF Sending
    <2>2. Want(p) = a
        BY <1>3, <1>5, Wanted
    <2> HIDE DEF a
    <2>3. /\ CardType' /\ card'.slot = card.slot
          /\ card'.rate = card.rate /\ card'.run = card.run /\ card'.gen = card.gen
          /\ card'.regs[1] = IF a.reg = "gen" THEN a.val[2] ELSE card.regs[1]
          /\ card'.regs[2] = IF a.reg = "bits" THEN a.val[2] ELSE card.regs[2]
        BY <1>1, <1>3, <2>1, <2>2, CardAfter DEF EState
    <2> QED BY <1>1, <1>5, <2>1, <2>3 DEF a
<1> QED BY <1>4, <1>5

\* A step of a setup that ends leaves the card at the rate of the setup.
LEMMA SetupStepEnds ==
    ASSUME OInv, EState, Clean', NEW p \in Callers, pc[p] \in {"clear", "poke"}, NEW v, Access(p, v), unlucky = {}
    PROVE  /\ card'.slot[1] # "rate"
           /\ job[p].part = "setup" /\ job[p].kind = "write" => card'.rate = job[p].fps
           /\ job[p].part # "setup" => card'.rate = card.rate
<1> DEFINE a == todo[p][1]
<1>1. /\ pc[p] \in Mailbox
      /\ Parts(job[p]) /\ Sending(p) /\ Setting(p) /\ Rest(job[p], todo[p])
    BY AtStep DEF Mailbox
<1>2. /\ card'.rate = card.rate
      /\ card'.slot[1] = IF pc[p] = "clear" THEN "next" ELSE card.slot[1]
      /\ a.reg = "slot" => Effected(a.val)
      /\ pc[p] = "poke" => a.reg # "slot"
    BY <1>1, StepEnds DEF Sending
<1>3. CASE job[p].part = "setup"
    <2>1. a \in Plain \/ a = Command("rate", IF job[p].kind = "probe" THEN 30 ELSE job[p].fps)
        BY <1>1, <1>3 DEF Rest, Parts, SetupRest
    <2>2. CASE a \in Plain
        BY <1>1, <1>2, <1>3, <2>2 DEF Setting
    <2>3. CASE a = Command("rate", IF job[p].kind = "probe" THEN 30 ELSE job[p].fps)
        <3>1. /\ a.reg = "slot" /\ pc[p] # "poke"
              /\ a.val[1] = "rate" /\ (job[p].kind = "write" => a.val[2] = job[p].fps)
            BY <1>2, <2>3, StepOf
        <3> QED BY <1>2, <1>3, <3>1 DEF Effected
    <2> QED BY <2>1, <2>2, <2>3
<1>4. CASE job[p].part # "setup"
    <2>1. card.slot[1] # "rate"
        <3>1. Commands(p)
            BY <1>1 DEF OInv, MInv, Jobs, Mailbox, Commands
        <3>2. \A q \in Callers : ~SettingUp(q)
            BY <1>4, <3>1, SettersCommand DEF OInv, MInv, EState, Alone, SettingUp
        <3> QED BY <3>2 DEF EState, RateKnown
    <2> QED BY <1>2, <1>4, <2>1
<1> QED BY <1>3, <1>4

LEMMA WriteRight ==
    ASSUME OInv, OInv', EState, Clean', NEW p \in Callers, WriteDone(p)
    PROVE  EState'
<1> DEFINE a == todo[p][1]
<1>1. pc[p] \in {"clear", "poke"} /\ pc[p] \in Mailbox
    BY DEF WriteDone, Mailbox
<1>2. PICK v : Access(p, v)
    BY DEF WriteDone
<1>3. /\ Parts(job[p]) /\ Sending(p) /\ Loading(p) /\ Setting(p)
      /\ Rest(job[p], todo[p]) /\ Head(todo[p]) = a
    BY <1>1, AtStep
<1>4. /\ CardType' /\ unlucky' = unlucky
      /\ card'.rate = card.rate /\ card'.run = card.run /\ card'.gen = card.gen
      /\ card'.slot[1] = IF pc[p] = "clear" THEN "next" ELSE card.slot[1]
      /\ a.reg = "slot" => pc[p] = "clear" /\ Effected(a.val) /\ card'.regs = card.regs
      /\ card'.regs[1] = IF a.reg = "gen" THEN a.val[2] ELSE card.regs[1]
      /\ card'.regs[2] = IF a.reg = "bits" THEN a.val[2] ELSE card.regs[2]
    BY <1>1, <1>2, StepEnds
<1>5. unlucky = {} =>
          /\ card'.slot[1] # "rate"
          /\ job[p].part = "setup" /\ job[p].kind = "write" => card'.rate = job[p].fps
          /\ job[p].part # "setup" => card'.rate = card.rate
    BY <1>1, <1>2, SetupStepEnds
<1> DEFINE n == Len(todo[p])
           t == Tail(todo[p])
<1>6. CASE n > 1
    <2>1. /\ todo' = [todo EXCEPT ![p] = t] /\ pc' = [pc EXCEPT ![p] = FirstStep(t)]
          /\ UNCHANGED <<cfps, job, result>>
        <3>1. StepDone(p)
            BY DEF WriteDone
        <3> QED BY <1>6, <3>1 DEF StepDone, Goto
    <2>2. /\ todo'[p] = t /\ pc'[p] = FirstStep(t)
          /\ \A q \in Callers \ {p} : pc'[q] = pc[q]
        BY <2>1 DEF OInv, MInv, Jobs, Shapes
    <2>3. /\ Rest(job[p], t) /\ job[p].part \in {"setup", "load"}
          /\ job[p].part = "load" =>
               \/ n = 3 /\ Len(t) = 2 /\ a = Poke("gen", job[p].arg)
               \/ n = 2 /\ Len(t) = 1 /\ a = Poke("bits", job[p].arg)
        BY <1>3, <1>6, RestAfter
    <2>4. Head(t) = t[1]
        BY <1>3, <2>3, RestSteps
    <2> DEFINE m == Len(t)
    <2>5. job[p].part = "load" => /\ m < 3 => card'.regs[1] = job[p].arg
                                  /\ m < 2 => card'.regs[2] = job[p].arg
        <3> SUFFICES ASSUME job[p].part = "load"
                     PROVE  /\ m < 3 => card'.regs[1] = job[p].arg
                            /\ m < 2 => card'.regs[2] = job[p].arg
            OBVIOUS
        <3>1. n < 3 => card.regs[1] = job[p].arg
            BY <1>3 DEF Loading
        <3> HIDE DEF n, m, a
        <3>2. CASE n = 3 /\ m = 2 /\ a = Poke("gen", job[p].arg)
            BY <1>4, <3>2, StepOf
        <3>3. CASE n = 2 /\ m = 1 /\ a = Poke("bits", job[p].arg)
            BY <1>4, <3>1, <3>3, StepOf
        <3> QED BY <2>3, <3>2, <3>3 DEF m
    <2> HIDE DEF t, n
    <2>6. pc'[p] \in {"quiet", "poke"} /\ (pc'[p] = "poke" <=> t[1].reg # "slot")
        BY <2>2, <2>4, ScriptBegins
    <2>7. Sending(p)'
        BY <2>1, <2>2, <2>3, <2>6 DEF Sending
    <2>8. Loading(p)'
        BY <2>1, <2>2, <2>5 DEF Loading
    <2>9. Setting(p)'
        BY <1>4, <1>5, <2>1 DEF Setting
    <2>10. pc'[p] \in Mailbox
        BY <2>6 DEF Mailbox
    <2> QED BY <1>1, <1>4, <1>5, <2>1, <2>2, <2>7, <2>8, <2>9, <2>10, StaysRight
<1>7. CASE ~(n > 1)
    <2>1. PartEnds(p, TRUE)
        BY <1>7 DEF WriteDone, StepDone
    <2>2. job[p].kind = "run" => card'.slot[1] \in Idle /\ card'.run = job[p].arg
        <3> SUFFICES ASSUME job[p].kind = "run" PROVE card'.slot[1] \in Idle /\ card'.run = job[p].arg
            OBVIOUS
        <3>1. todo[p] = <<Command("run", job[p].arg)>>
            BY <1>3 DEF Rest, Parts
        <3>2. a = Command("run", job[p].arg)
            BY <3>1
        <3>3. a.reg = "slot" /\ a.val[1] = "run" /\ a.val[2] = job[p].arg
            BY <3>2, StepOf
        <3> QED BY <1>4, <3>3 DEF Effected, Idle
    <2>3. job[p].part = "load" => card'.slot[1] \in Idle /\ card'.gen = <<job[p].arg, job[p].arg>>
        <3> SUFFICES ASSUME job[p].part = "load"
                     PROVE  card'.slot[1] \in Idle /\ card'.gen = <<job[p].arg, job[p].arg>>
            OBVIOUS
        <3>1. todo[p] \in {LoadScript(job[p].arg), Tail(LoadScript(job[p].arg)), <<Command("load", 0)>>}
            BY <1>3 DEF Rest, Parts
        <3>2. todo[p] = <<Command("load", 0)>>
            <4>1. todo[p] # LoadScript(job[p].arg)
                <5> SUFFICES ASSUME todo[p] = LoadScript(job[p].arg) PROVE FALSE
                    OBVIOUS
                <5>1. n = 3
                    BY LoadSteps
                <5> HIDE DEF n
                <5> QED BY <1>7, <5>1
            <4>2. todo[p] # Tail(LoadScript(job[p].arg))
                <5> SUFFICES ASSUME todo[p] = Tail(LoadScript(job[p].arg)) PROVE FALSE
                    OBVIOUS
                <5>1. n = 2
                    BY LoadSteps
                <5> HIDE DEF n
                <5> QED BY <1>7, <5>1
            <4> QED BY <3>1, <4>1, <4>2
        <3>3. a = Command("load", 0) /\ n = 1
            BY <3>2
        <3>4. card.gen = card.regs /\ pc[p] = "clear"
            BY <1>4, <3>3, StepOf DEF Effected
        <3>5. card.regs[1] = job[p].arg /\ card.regs[2] = job[p].arg /\ card.regs \in Pair
            BY <1>3, <3>3 DEF Loading, EState, CardType
        <3>6. card.regs = <<job[p].arg, job[p].arg>>
            BY <3>5 DEF Pair
        <3> QED BY <1>4, <3>4, <3>6 DEF Idle
    <2> QED BY <1>1, <1>4, <1>5, <2>1, <2>2, <2>3, PartRight
<1> QED BY <1>6, <1>7

LEMMA GiveUpRight ==
    ASSUME OInv, OInv', EState, NEW p \in Callers, GiveUp(p)
    PROVE  EState'
<1>1. pc[p] \in Mailbox /\ PartEnds(p, FALSE) /\ unlucky' # {} /\ card' = card
    BY DEF GiveUp, Follows, Mailbox
<1>2. CardType'
    BY <1>1 DEF EState, CardType
<1> QED BY <1>1, <1>2, PartRight

\* The card does what it was told, and what it was told before.
LEMMA ObeyRight ==
    ASSUME OInv, EState, Obey
    PROVE  EState'
<1>1. UNCHANGED <<unlucky, cfps, pc, job, todo, result>>
    BY DEF Obey, mishap, device, caller
<1>2. /\ CardType' /\ card.slot[1] # "none" /\ card'.slot[1] = "none" /\ card'.regs = card.regs
      /\ card'.rate = IF card.slot[1] = "rate" THEN card.slot[2] ELSE card.rate
      /\ card'.run = IF card.slot[1] = "run" THEN card.slot[2] ELSE card.run
      /\ card'.gen = IF card.slot[1] = "load" THEN card.regs ELSE card.gen
    BY CardObeys DEF EState
<1>3. cfps' \in {0} \cup Supported /\ Alone' /\ Unset'
    BY <1>1 DEF EState, Alone, Commands, Unset
<1>4. RateKnown'
    BY <1>1, <1>2 DEF EState, RateKnown, SettingUp
<1>5. ASSUME NEW p \in Callers PROVE Right(p)'
    <2>1. Right(p)
        BY DEF EState
    <2>2. pc[p] \in Mailbox /\ Sending(p) => Sending(p)'
        BY <1>1, <1>2 DEF Sending, Effected
    <2>3. Loading(p) => Loading(p)'
        BY <1>1, <1>2 DEF Loading
    <2>4. Setting(p) => Setting(p)'
        BY <1>1, <1>2 DEF Setting
    <2>5. Recorded(p) => Recorded(p)'
        BY <1>1 DEF Recorded
    <2>6. Done(p) => Done(p)'
        BY <1>1, <1>2 DEF Done, Idle
    <2> QED BY <1>1, <2>1, <2>2, <2>3, <2>4, <2>5, <2>6 DEF Right, Commands
<1> QED BY <1>2, <1>3, <1>4, <1>5 DEF EState

\* What went wrong is not forgotten.
LEMMA Grows == ASSUME [Next]_vars PROVE unlucky \subseteq unlucky'
<1>1. CASE UNCHANGED vars
    BY <1>1 DEF vars, mishap
<1>2. ASSUME NEW p \in Callers, NEW v, Access(p, v) PROVE unlucky \subseteq unlucky'
    BY <1>2 DEF Access
<1>3. ASSUME NEW p \in Callers, NEW kind, Enter(p, kind) PROVE unlucky \subseteq unlucky'
    BY <1>3 DEF Enter
<1>4. ASSUME NEW p \in Callers,
             \/ Poll(p) \/ PostCommand(p) \/ WriteDone(p)
             \/ ReadSignal(p) \/ ReadField(p) \/ ReadCheck(p)
      PROVE  unlucky \subseteq unlucky'
    BY <1>2, <1>4 DEF Poll, PostCommand, WriteDone, ReadSignal, ReadField, ReadCheck
<1>5. ASSUME NEW p \in Callers,
             \/ Read(p) \/ Probe(p) \/ \E fps \in Rates, code \in Codes : Write(p, fps, code)
             \/ \E kind, val : RunOrSync(p, kind, val)
      PROVE  unlucky \subseteq unlucky'
    <2>1. \E kind : Enter(p, kind)
        BY <1>5 DEF Read, Probe, Write, RunOrSync
    <2> QED BY <1>3, <2>1
<1>6. ASSUME NEW p \in Callers,
             \/ Post(p) \/ GiveUp(p) \/ Return(p) \/ CreateFiles(p) \/ AddDevice(p)
             \/ Remove(p) \/ Unregister(p) \/ Unmap(p)
      PROVE  unlucky \subseteq unlucky'
    BY <1>6 DEF Post, GiveUp, Return, CreateFiles, AddDevice, Remove, Unregister, Unmap, mishap
<1>7. CASE Frame \/ Obey
    BY <1>7 DEF Frame, Obey, mishap
<1> QED BY <1>1, <1>4, <1>5, <1>6, <1>7 DEF Next

-----------------------------------------------------------------------------
\* A write or run that reports success was carried out by the card, for any number
\* of callers, timecodes and rates: late answers of commands given up may still be
\* under way, but not past the next command; and if none was given up, the rate
\* is the one asked for (pcitc_main.c:315-357, 559-592).
THEOREM SuccessIsDone == Spec => []SuccessTookEffect
<1>1. Init => EInv
    <2> SUFFICES ASSUME Init PROVE EState
        BY DEF EInv
    <2>1. \A p \in Callers : ~Commands(p) /\ ~SettingUp(p)
        BY DEF Init, Commands, SettingUp, Mailbox
    <2>2. CardType
        <3>1. /\ <<"none", 0>> \in Named \X Number /\ <<0, 0>> \in Pair /\ 0 \in Number
            BY DEF Named, Number, Pair
        <3> QED BY <3>1 DEF Init, CardType
    <2>3. RateKnown /\ cfps = 0
        BY DEF Init, RateKnown
    <2> QED BY <2>1, <2>2, <2>3 DEF EState, Alone, Unset, Right
<1>2. OInv /\ OInv' /\ EInv /\ [Next]_vars => EInv'
    <2> SUFFICES ASSUME OInv, OInv', EInv, [Next]_vars, Clean' PROVE EState'
        BY DEF EInv
    <2>1. EState /\ MInv'
        <3>1. unlucky \subseteq unlucky'
            BY Grows
        <3> QED BY <3>1, CleanBefore DEF EInv, OInv
    <2>2. CASE UNCHANGED vars
        BY <2>1, <2>2, NothingMoves DEF vars, mishap, device, caller
    <2>3. CASE Frame
        BY <2>1, <2>3, NothingMoves DEF Frame, mishap, device, caller
    <2>4. CASE Obey
        BY <2>1, <2>4, ObeyRight
    <2>5. ASSUME NEW p \in Callers, Post(p) PROVE EState'
        BY <2>1, <2>5, NothingMoves DEF Post, mishap, device
    <2>6. ASSUME NEW p \in Callers, Poll(p) \/ GiveUp(p) \/ PostCommand(p) \/ WriteDone(p)
          PROVE  EState'
        BY <2>1, <2>6, PollRight, GiveUpRight, PostRight, WriteRight
    <2>7. ASSUME NEW p \in Callers, Read(p) \/ ReadSignal(p) \/ ReadField(p) \/ ReadCheck(p)
          PROVE  EState'
        BY <2>1, <2>7, ReadsRight
    <2>8. ASSUME NEW p \in Callers,
                 Probe(p) \/ (\E fps \in Rates, code \in Codes : Write(p, fps, code))
                   \/ (\E val \in {0, 1} : RunOrSync(p, "run", val)) \/ RunOrSync(p, "sync", 1)
          PROVE  EState'
        BY <2>1, <2>8, CommandsRight
    <2>9. ASSUME NEW p \in Callers,
                 CreateFiles(p) \/ AddDevice(p) \/ Remove(p) \/ Unregister(p) \/ Unmap(p) \/ Return(p)
          PROVE  EState'
        BY <2>1, <2>9, RestRight
    <2> QED BY <2>2, <2>3, <2>4, <2>5, <2>6, <2>7, <2>8, <2>9 DEF Next
<1>3. OInv /\ EInv => SuccessTookEffect
    <2> SUFFICES ASSUME OInv, EInv, NEW p \in Callers, pc[p] = "return", result[p] = "ok", Clean
                 PROVE  /\ job[p].kind = "run" => card.run = job[p].arg
                        /\ job[p].kind = "write" =>
                             /\ card.gen = <<job[p].arg, job[p].arg>>
                             /\ unlucky = {} /\ job[p].fps \in Supported => card.rate = job[p].fps
        BY DEF SuccessTookEffect, Clean
    <2> SUFFICES ASSUME job[p].kind \in {"run", "write"}
                 PROVE  /\ job[p].kind = "run" => card.run = job[p].arg
                        /\ job[p].kind = "write" =>
                             /\ card.gen = <<job[p].arg, job[p].arg>>
                             /\ unlucky = {} /\ job[p].fps \in Supported => card.rate = job[p].fps
        OBVIOUS
    <2>1. EState /\ Commands(p)
        BY DEF EInv, Commands, Commanding
    <2>2. Done(p) /\ Recorded(p)
        BY <2>1 DEF EState, Right
    <2>3. ASSUME unlucky = {}, job[p].kind = "write", job[p].fps \in Supported PROVE card.rate = job[p].fps
        <3>1. cfps = job[p].fps /\ cfps # 0
            BY <2>2, <2>3 DEF Recorded, Supported
        <3>2. \A q \in Callers : ~SettingUp(q)
            <4>1. ASSUME NEW q \in Callers, SettingUp(q) PROVE FALSE
                <5>1. q = p
                    BY <2>1, <4>1, SettersCommand DEF OInv, MInv, EState, Alone
                <5> QED BY <4>1, <5>1 DEF SettingUp, Mailbox
            <4> QED BY <4>1
        <3> QED BY <2>1, <2>3, <3>1, <3>2 DEF EState, RateKnown
    <2> QED BY <2>2, <2>3 DEF Done
<1> QED BY <1>1, <1>2, <1>3, OInvHolds, PTL DEF Spec

-----------------------------------------------------------------------------
(* The devices and their cards. *)

Listed    == {"memory"}
Switched  == Listed \cup {"enabled"}
Reserved  == Switched \cup {"region"}
Behind    == Reserved \cup {"map", "reset", "clock"}
Placed    == Behind \cup {"slot"}
Shown     == {"slot", "node", "files", "cdev"}
AllPieces == Behind \cup Shown

\* What a device may hold, by the piece that comes next.
AddMay(s) ==
    CASE s = "memory"  -> {}
      [] s = "enabled" -> Listed
      [] s = "region"  -> Switched
      [] s = "map"     -> Reserved
      [] s = "reset"   -> Reserved \cup {"map"}
      [] s = "clock"   -> Reserved \cup {"map", "reset"}
      [] s = "slot"    -> Behind
      [] s = "node"    -> Placed
      [] s = "files"   -> Placed \cup {"node"}
      [] s = "cdev"    -> Placed \cup {"node", "files"}
      [] s = "end"     -> AllPieces

DropMay(s) ==
    CASE s = "files"   -> AllPieces
      [] s = "node"    -> Placed \cup {"node", "cdev"}
      [] s = "cdev"    -> Placed \cup {"cdev"}
      [] s = "slot"    -> Placed
      [] s = "map"     -> Behind
      [] s = "region"  -> Reserved
      [] s = "enabled" -> Switched
      [] s = "memory"  -> Listed
      [] s = "end"     -> {}

AddSteps  == AllPieces \cup {"end"}
DropSteps == {"files", "node", "cdev", "slot", "map", "region", "enabled", "memory", "end"}

\* A card whose registers could not be mapped keeps its region.
Lost == IF "map" \in misfortune THEN {"region"} ELSE {}

DevTypes ==
    /\ at \in [D!Devices -> {"absent", "add", "drop", "there"}]
    /\ step \in [D!Devices -> AddSteps]
    /\ held \in [D!Devices -> SUBSET AllPieces]
    /\ devs \in [Slots -> D!Devices \cup {Nobody}]
    /\ reading \subseteq D!Devices /\ found \subseteq D!Devices

\* What a device holds at most; the test device has no card.
HoldsAtMost(d) ==
    /\ at[d] = "absent" => held[d] \subseteq Lost
    /\ at[d] = "add"    => held[d] \subseteq AddMay(step[d]) \cup Lost
    /\ at[d] = "drop"   => step[d] \in DropSteps /\ held[d] \subseteq DropMay(step[d]) \cup Lost
    /\ d = Test => held[d] \subseteq Shown /\ (at[d] = "add" => step[d] \in Shown \cup {"end"})

\* What it holds at least.
HoldsAtLeast(d) ==
    /\ at[d] = "add" /\ d \in Cards /\ step[d] \notin {"memory", "enabled", "region", "map"} => "map" \in held[d]
    /\ at[d] = "add" /\ d \in PCIe /\ step[d] \in {"slot", "end"} \cup Shown => "clock" \in held[d]
    /\ at[d] = "add" /\ step[d] \in {"node", "files", "cdev"} => "slot" \in held[d]
    /\ "files" \in held[d] =>
         "slot" \in held[d] /\ (d \in Cards => "map" \in held[d]) /\ (d \in PCIe => "clock" \in held[d])
    /\ d \in reading => "files" \in held[d]

\* Its place in the table, and who found it there.
InDevs(d) ==
    /\ \A s \in Slots : devs[s] = d => "slot" \in held[d]
    /\ d \in found => "slot" \in held[d] \/ "stale" \in misfortune

\* Devices come and go while tcio is there, cards while pcitc is.
InModules ==
    /\ class = (tcio # "out")
    /\ tcio # "in" => pcitc = "out"
    /\ tcio = "out" => at[Test] = "absent"
    /\ pcitc = "out" => \A c \in Cards : at[c] = "absent"

DevInv ==
    /\ DevTypes
    /\ \A d \in D!Devices : HoldsAtMost(d) /\ HoldsAtLeast(d) /\ InDevs(d)
    /\ InModules

-----------------------------------------------------------------------------

Moves(c) == D!Take(c) \/ D!Allocate(c) \/ D!NoFiles(c) \/ D!Fail(c) \/ D!Added(c) \/ D!GiveBack(c) \/ D!Gone(c)

Starts(c) == (c = Test /\ D!TcioInit) \/ (c \in Cards /\ D!Probe(c))

Leaves(c) == (c = Test /\ D!TcioExit /\ at[Test] = "there") \/ (c \in Cards /\ D!Remove(c))

Users == \/ \E d \in D!Devices : D!Read(d) \/ D!ReadDone(d) \/ D!Forget(d)
         \/ \E s \in Slots : D!Find(s)

\* The modules that come and go without a device.
Quiet == (D!TcioExit /\ at[Test] # "there") \/ D!TcioCleanup \/ D!PcitcInit \/ D!Probed
         \/ D!PcitcExit \/ D!PcitcCleanup

LEMMA DevCases ==
    ASSUME DevTypes, D!Next
    PROVE  Quiet \/ Users \/ \E c \in D!Devices : Moves(c) \/ Starts(c) \/ Leaves(c)
BY DEF D!Next, D!Modules, D!Kernel, D!Devices, Quiet, Users, Moves, Starts, Leaves, DevTypes

LEMMA QuietSame == ASSUME Quiet PROVE UNCHANGED <<misfortune, at, step, held, devs, reading, found>>
BY DEF Quiet, D!TcioExit, D!TcioCleanup, D!PcitcInit, D!Probed, D!PcitcExit, D!PcitcCleanup, D!device

LEMMA UsersSame == ASSUME Users PROVE UNCHANGED <<misfortune, tcio, pcitc, class, at, step, held, devs>>
BY DEF Users, D!Read, D!ReadDone, D!Forget, D!Find, D!device, D!modules

\* What a device's step leaves alone: the others.
Others(c) ==
    \A d \in D!Devices \ {c} : at'[d] = at[d] /\ step'[d] = step[d] /\ held'[d] = held[d]

LEMMA StartSame ==
    ASSUME NEW c \in D!Devices, DevTypes, Starts(c)
    PROVE  /\ UNCHANGED <<misfortune, held, devs, reading, found>> /\ at[c] = "absent"
           /\ at' = [at EXCEPT ![c] = "add"] /\ step' = [step EXCEPT ![c] = D!First(c)]
           /\ Others(c)
BY DEF Starts, D!TcioInit, D!Probe, D!Add, Others, DevTypes

LEMMA LeaveSame ==
    ASSUME NEW c \in D!Devices, DevTypes, Leaves(c)
    PROVE  /\ UNCHANGED <<misfortune, held, devs, reading, found>> /\ at[c] = "there"
           /\ at' = [at EXCEPT ![c] = "drop"] /\ step' = [step EXCEPT ![c] = "files"]
           /\ Others(c)
BY DEF Leaves, D!TcioExit, D!Remove, D!Drop, Others, DevTypes, D!modules

LEMMA MoveSame ==
    ASSUME NEW c \in D!Devices, DevTypes, Moves(c)
    PROVE  /\ Others(c) /\ misfortune \subseteq misfortune'
           /\ UNCHANGED <<reading, found, tcio, pcitc, class>>
BY DEF Moves, D!Take, D!Allocate, D!NoFiles, D!Fail, D!Added, D!GiveBack, D!Gone, D!Risk, Others,
       DevTypes, D!modules

LEMMA DevTypesStep == DevInv /\ D!Next => DevTypes'
<1> SUFFICES ASSUME DevInv, D!Next PROVE DevTypes'
    OBVIOUS
<1> USE DEF DevInv, DevTypes, AddSteps, AllPieces, Behind, Reserved, Switched, Listed, Shown
<1>1. CASE Quiet
    BY <1>1, QuietSame
<1>2. CASE Users
    <2>1. reading' \subseteq D!Devices /\ found' \subseteq D!Devices
        BY <1>2 DEF Users, D!Read, D!ReadDone, D!Forget, D!Find
    <2> QED BY <1>2, <2>1, UsersSame
<1>3. ASSUME NEW c \in D!Devices, Starts(c) PROVE DevTypes'
    BY <1>3, StartSame DEF D!First
<1>4. ASSUME NEW c \in D!Devices, Leaves(c) PROVE DevTypes'
    BY <1>4, LeaveSame
<1>5. ASSUME NEW c \in D!Devices, Moves(c) PROVE DevTypes'
    <2>1. CASE D!Take(c)
        BY <2>1 DEF D!Take, D!After, D!TakeNext
    <2>2. CASE D!Allocate(c)
        BY <2>2 DEF D!Allocate
    <2>3. CASE D!NoFiles(c) \/ D!Added(c) \/ D!Gone(c)
        BY <2>3 DEF D!NoFiles, D!Added, D!Gone
    <2>4. CASE D!Fail(c)
        BY <2>4 DEF D!Fail, D!UndoFirst
    <2>5. CASE D!GiveBack(c)
        <3>1. step[c] \in DropSteps \ {"end"}
            BY <2>5 DEF D!GiveBack, HoldsAtMost
        <3>2. step'[c] \in AddSteps
            BY <2>5, <3>1 DEF D!GiveBack, D!DropNext, DropSteps
        <3>3. held' \in [D!Devices -> SUBSET AllPieces] /\ UNCHANGED <<at, reading, found>>
            BY <2>5 DEF D!GiveBack
        <3>4. devs' \in [Slots -> D!Devices \cup {Nobody}]
            BY <2>5 DEF D!GiveBack
        <3>5. step' \in [D!Devices -> AddSteps]
            BY <2>5, <3>2 DEF D!GiveBack
        <3> QED BY <3>3, <3>4, <3>5
    <2> QED BY <1>5, <2>1, <2>2, <2>3, <2>4, <2>5 DEF Moves
<1> QED BY <1>1, <1>2, <1>3, <1>4, <1>5, DevCases

LEMMA HoldsAtMostStep == DevInv /\ D!Next => \A d \in D!Devices : HoldsAtMost(d)'
<1> SUFFICES ASSUME DevInv, D!Next, NEW d \in D!Devices PROVE HoldsAtMost(d)'
    OBVIOUS
<1> USE DEF DevInv
<1>1. DevTypes /\ HoldsAtMost(d)
    OBVIOUS
<1>2. CASE UNCHANGED <<misfortune, at, step, held>>
    BY <1>1, <1>2 DEF HoldsAtMost, Lost
<1>3. ASSUME NEW c \in D!Devices, Starts(c) PROVE HoldsAtMost(d)'
    <2>1. CASE d # c
        BY <1>1, <1>3, <2>1, StartSame DEF HoldsAtMost, Lost, Others
    <2>2. CASE d = c
        <3>1. at'[d] = "add" /\ step'[d] = D!First(d) /\ held'[d] = held[d] /\ held[d] \subseteq Lost /\ Lost' = Lost
            BY <1>1, <1>3, <2>2, StartSame DEF HoldsAtMost, Lost, DevTypes
        <3> QED BY <1>1, <3>1 DEF HoldsAtMost, D!First, AddMay, Shown
    <2> QED BY <2>1, <2>2
<1>4. ASSUME NEW c \in D!Devices, Leaves(c) PROVE HoldsAtMost(d)'
    <2>1. CASE d # c
        BY <1>1, <1>4, <2>1, LeaveSame DEF HoldsAtMost, Lost, Others
    <2>2. CASE d = c
        <3>1. at'[d] = "drop" /\ step'[d] = "files" /\ held'[d] = held[d] /\ held[d] \subseteq AllPieces
            BY <1>1, <1>4, <2>2, LeaveSame DEF DevTypes
        <3> QED BY <1>1, <3>1 DEF HoldsAtMost, DropMay, DropSteps
    <2> QED BY <2>1, <2>2
<1>5. ASSUME NEW c \in D!Devices, Moves(c) PROVE HoldsAtMost(d)'
    <2>0. Lost \subseteq Lost'
        BY <1>1, <1>5, MoveSame DEF Lost
    <2>1. CASE d # c
        BY <1>1, <1>5, <2>0, <2>1, MoveSame DEF HoldsAtMost, Others
    <2>2. CASE d = c
        <3> USE DEF AddMay, AllPieces, Placed, Behind, Reserved, Switched, Listed, Shown
        <3>1. CASE D!Take(d)
            <4>1. /\ at[d] = "add" /\ at'[d] = "add" /\ step[d] \in AddSteps \ {"slot", "end"}
                  /\ held'[d] = held[d] \cup {step[d]} /\ step'[d] = D!After(d)
                BY <1>1, <3>1 DEF D!Take, DevTypes
            <4>2. held[d] \subseteq AddMay(step[d]) \cup Lost
                BY <1>1, <4>1 DEF HoldsAtMost
            <4>3. held'[d] \subseteq AddMay(step'[d]) \cup Lost
                BY <4>1, <4>2 DEF D!After, D!TakeNext, AddSteps
            <4>4. d = Test => step'[d] \in Shown \cup {"end"} /\ held'[d] \subseteq Shown
                BY <1>1, <4>1 DEF HoldsAtMost, D!After, D!TakeNext
            <4> QED BY <2>0, <4>1, <4>3, <4>4 DEF HoldsAtMost
        <3>2. CASE D!Allocate(d)
            <4>1. /\ at[d] = "add" /\ at'[d] = "add" /\ step[d] = "slot" /\ step'[d] = "node"
                  /\ held'[d] = held[d] \cup {"slot"}
                BY <1>1, <3>2 DEF D!Allocate, DevTypes
            <4> QED BY <1>1, <2>0, <4>1 DEF HoldsAtMost
        <3>3. CASE D!NoFiles(d)
            <4>1. /\ at[d] = "add" /\ at'[d] = "add" /\ step[d] = "files" /\ step'[d] = "cdev"
                  /\ held'[d] = held[d]
                BY <1>1, <3>3 DEF D!NoFiles, DevTypes
            <4> QED BY <1>1, <2>0, <4>1 DEF HoldsAtMost
        <3>4. CASE D!Added(d)
            <4>1. /\ at'[d] = "there" /\ held'[d] = held[d]
                BY <1>1, <3>4 DEF D!Added, DevTypes
            <4> QED BY <1>1, <2>0, <4>1 DEF HoldsAtMost
        <3>5. CASE D!Gone(d)
            <4>1. at[d] = "drop" /\ step[d] = "end" /\ at'[d] = "absent" /\ held'[d] = held[d]
                BY <1>1, <3>5 DEF D!Gone, DevTypes
            <4> QED BY <1>1, <2>0, <4>1 DEF HoldsAtMost, DropMay
        <3>6. CASE D!Fail(d)
            <4>1. /\ at[d] = "add" /\ at'[d] = "drop" /\ step[d] \in AddSteps \ {"files", "end"}
                  /\ held'[d] = held[d] /\ step'[d] = D!UndoFirst[step[d]]
                  /\ step[d] = "map" => "map" \in misfortune'
                BY <1>1, <3>6 DEF D!Fail, D!UndoFirst, D!Risk, DevTypes, AddSteps
            <4>2. held[d] \subseteq AddMay(step[d]) \cup Lost
                BY <1>1, <4>1 DEF HoldsAtMost
            <4>3. step[d] = "map" => "region" \in Lost'
                BY <4>1 DEF Lost
            <4>4. step'[d] \in DropSteps /\ held'[d] \subseteq DropMay(step'[d]) \cup Lost'
                BY <2>0, <4>1, <4>2, <4>3 DEF D!UndoFirst, DropMay, DropSteps, AddSteps
            <4>5. d = Test => held'[d] \subseteq Shown
                BY <1>1, <4>1 DEF HoldsAtMost
            <4> QED BY <4>1, <4>4, <4>5 DEF HoldsAtMost
        <3>7. CASE D!GiveBack(d)
            <4>1. /\ at[d] = "drop" /\ at'[d] = "drop" /\ step[d] # "end"
                  /\ held'[d] = held[d] \ D!Piece(d)
                  /\ step'[d] = IF D!Last(d) THEN "end" ELSE D!DropNext[step[d]]
                BY <1>1, <3>7 DEF D!GiveBack, DevTypes
            <4>2. step[d] \in DropSteps /\ held[d] \subseteq DropMay(step[d]) \cup Lost
                BY <1>1, <4>1 DEF HoldsAtMost
            <4>3. d = Test => held[d] \subseteq Shown
                BY <1>1 DEF HoldsAtMost
            <4>4. step'[d] \in DropSteps /\ held'[d] \subseteq DropMay(step'[d]) \cup Lost
                <5>1. CASE D!Last(d)
                    BY <4>1, <4>2, <4>3, <5>1 DEF D!Last, D!Piece, DropMay, DropSteps
                <5>2. CASE ~D!Last(d)
                    BY <4>1, <4>2, <5>2 DEF D!Piece, D!DropNext, DropMay, DropSteps
                <5> QED BY <5>1, <5>2
            <4> QED BY <2>0, <4>1, <4>3, <4>4 DEF HoldsAtMost
        <3> QED BY <1>5, <2>2, <3>1, <3>2, <3>3, <3>4, <3>5, <3>6, <3>7 DEF Moves
    <2> QED BY <2>1, <2>2
<1> QED BY <1>2, <1>3, <1>4, <1>5, DevCases, QuietSame, UsersSame

LEMMA HoldsAtLeastStep == DevInv /\ D!Next => \A d \in D!Devices : HoldsAtLeast(d)'
<1> SUFFICES ASSUME DevInv, D!Next, NEW d \in D!Devices PROVE HoldsAtLeast(d)'
    OBVIOUS
<1>1. DevTypes /\ HoldsAtLeast(d) /\ HoldsAtMost(d)
    BY DEF DevInv
<1>2. CASE Quiet
    BY <1>1, <1>2, QuietSame DEF HoldsAtLeast
<1>3. CASE Users
    <2>1. d \in reading' => d \in reading \/ "files" \in held[d]
        BY <1>3 DEF Users, D!Read, D!ReadDone, D!Forget, D!Find
    <2> QED BY <1>1, <1>3, <2>1, UsersSame DEF HoldsAtLeast
<1>4. ASSUME NEW c \in D!Devices, Starts(c) PROVE HoldsAtLeast(d)'
    <2>1. CASE d # c
        BY <1>1, <1>4, <2>1, StartSame DEF HoldsAtLeast, Others
    <2>2. CASE d = c
        <3>1. step'[d] = D!First(d) /\ held'[d] = held[d] /\ reading' = reading
            BY <1>1, <1>4, <2>2, StartSame DEF DevTypes
        <3>2. d \in Cards => step'[d] = "memory"
            BY <3>1, DevicesAssumption DEF D!First
        <3>3. d \in PCIe => d \in Cards
            BY DevicesAssumption
        <3>4. step'[d] \in {"slot", "memory"}
            BY <3>1 DEF D!First
        <3> QED BY <1>1, <3>1, <3>2, <3>3, <3>4 DEF HoldsAtLeast, Shown
    <2> QED BY <2>1, <2>2
<1>5. ASSUME NEW c \in D!Devices, Leaves(c) PROVE HoldsAtLeast(d)'
    <2>1. CASE d # c
        BY <1>1, <1>5, <2>1, LeaveSame DEF HoldsAtLeast, Others
    <2>2. CASE d = c
        <3>1. at'[d] = "drop" /\ held'[d] = held[d] /\ reading' = reading
            BY <1>1, <1>5, <2>2, LeaveSame DEF DevTypes
        <3> QED BY <1>1, <3>1 DEF HoldsAtLeast
    <2> QED BY <2>1, <2>2
<1>6. ASSUME NEW c \in D!Devices, Moves(c) PROVE HoldsAtLeast(d)'
    <2>0. reading' = reading
        BY <1>1, <1>6, MoveSame
    <2>1. CASE d # c
        BY <1>1, <1>6, <2>1, MoveSame DEF HoldsAtLeast, Others
    <2>2. CASE d = c
        <3>1. CASE D!Take(d)
            <4>1. /\ at[d] = "add" /\ step[d] \in AddSteps \ {"slot", "end"}
                  /\ held'[d] = held[d] \cup {step[d]} /\ step'[d] = D!After(d)
                BY <1>1, <3>1 DEF D!Take, DevTypes
            <4>2. d \in PCIe => d \in Cards
                BY DevicesAssumption
            <4>3. d \in Cards /\ step'[d] \notin {"memory", "enabled", "region", "map"} => "map" \in held'[d]
                BY <1>1, <4>1 DEF HoldsAtLeast, D!After, D!TakeNext, AddSteps, AllPieces, Behind,
                                  Reserved, Switched, Listed, Shown
            <4>4. d \in PCIe /\ step'[d] \in {"slot", "end"} \cup Shown => "clock" \in held'[d]
                BY <1>1, <4>1 DEF HoldsAtLeast, D!After, D!TakeNext, AddSteps, AllPieces, Behind,
                                  Reserved, Switched, Listed, Shown
            <4>5. step'[d] \in {"node", "files", "cdev"} => "slot" \in held'[d]
                BY <1>1, <4>1 DEF HoldsAtLeast, D!After, D!TakeNext, AddSteps, AllPieces, Behind,
                                  Reserved, Switched, Listed, Shown
            <4>6. step[d] = "files" =>
                    "slot" \in held[d] /\ (d \in Cards => "map" \in held[d]) /\ (d \in PCIe => "clock" \in held[d])
                BY <1>1, <4>1 DEF HoldsAtLeast, Shown
            <4> QED BY <1>1, <2>0, <4>1, <4>3, <4>4, <4>5, <4>6 DEF HoldsAtLeast
        <3>2. CASE D!Allocate(d)
            <4>1. /\ at[d] = "add" /\ at'[d] = "add" /\ step[d] = "slot" /\ step'[d] = "node"
                  /\ held'[d] = held[d] \cup {"slot"}
                BY <1>1, <3>2 DEF D!Allocate, DevTypes
            <4> QED BY <1>1, <2>0, <4>1 DEF HoldsAtLeast, Shown
        <3>3. CASE D!NoFiles(d)
            <4>1. /\ at[d] = "add" /\ at'[d] = "add" /\ step[d] = "files" /\ step'[d] = "cdev"
                  /\ held'[d] = held[d]
                BY <1>1, <3>3 DEF D!NoFiles, DevTypes
            <4> QED BY <1>1, <2>0, <4>1 DEF HoldsAtLeast, Shown
        <3>4. CASE D!Added(d) \/ D!Gone(d) \/ D!Fail(d)
            <4>1. at'[d] # "add" /\ held'[d] = held[d]
                BY <1>1, <3>4 DEF D!Added, D!Gone, D!Fail, DevTypes
            <4> QED BY <1>1, <2>0, <4>1 DEF HoldsAtLeast
        <3>5. CASE D!GiveBack(d)
            <4>1. /\ at[d] = "drop" /\ at'[d] = "drop" /\ step[d] # "end"
                  /\ held'[d] = held[d] \ D!Piece(d)
                  /\ step[d] = "files" => d \notin reading
                BY <1>1, <3>5 DEF D!GiveBack, DevTypes
            <4>2. step[d] \in {"slot", "map"} => "files" \notin held[d]
                BY <1>1, <4>1 DEF HoldsAtMost, DropMay, Lost, Placed, Behind, Reserved, Switched, Listed
            <4>3. {"slot", "map", "clock"} \cap D!Piece(d) # {} => step[d] \in {"slot", "map"}
                <5>1. step[d] # "clock"
                    BY <1>1, <4>1 DEF HoldsAtMost, DropSteps
                <5> QED BY <5>1 DEF D!Piece
            <4>4. "files" \in D!Piece(d) => step[d] = "files"
                BY DEF D!Piece
            <4> QED BY <1>1, <2>0, <4>1, <4>2, <4>3, <4>4 DEF HoldsAtLeast
        <3> QED BY <1>6, <2>2, <3>1, <3>2, <3>3, <3>4, <3>5 DEF Moves
    <2> QED BY <2>1, <2>2
<1> QED BY <1>1, <1>2, <1>3, <1>4, <1>5, <1>6, DevCases

\* A device is in the table, and can be found, only while it has its place.
LEMMA InDevsStep == DevInv /\ D!Next => \A d \in D!Devices : InDevs(d)'
<1> SUFFICES ASSUME DevInv, D!Next, NEW d \in D!Devices PROVE InDevs(d)'
    OBVIOUS
<1>1. DevTypes /\ \A c \in D!Devices : InDevs(c)
    BY DEF DevInv
<1>0. d # Nobody
    BY DevicesAssumption DEF D!Devices
<1>2. CASE UNCHANGED <<misfortune, held, devs, found>>
    BY <1>1, <1>2 DEF InDevs
<1>3. CASE Users
    <2>1. d \in found' => d \in found \/ \E s \in Slots : devs[s] = d
        BY <1>3 DEF Users, D!Read, D!ReadDone, D!Forget, D!Find
    <2> QED BY <1>1, <1>3, <2>1, UsersSame DEF InDevs
<1>4. ASSUME NEW c \in D!Devices, Moves(c) PROVE InDevs(d)'
    <2>1. /\ misfortune \subseteq misfortune' /\ found' = found
          /\ d # c => held'[d] = held[d]
        BY <1>1, <1>4, MoveSame DEF Others
    <2>2. CASE D!Take(c) \/ D!NoFiles(c) \/ D!Fail(c) \/ D!Added(c) \/ D!Gone(c)
        <3>1. devs' = devs /\ held[d] \subseteq held'[d]
            BY <1>1, <2>2 DEF D!Take, D!NoFiles, D!Fail, D!Added, D!Gone, D!modules, DevTypes
        <3> QED BY <1>1, <2>1, <3>1 DEF InDevs
    <2>3. CASE D!Allocate(c)
        <3>1. \A s \in Slots : devs'[s] = d => d = c \/ devs[s] = d
            BY <1>1, <2>3 DEF D!Allocate, DevTypes
        <3>2. held'[c] = held[c] \cup {"slot"}
            BY <1>1, <2>3 DEF D!Allocate, DevTypes
        <3> QED BY <1>1, <2>1, <3>1, <3>2 DEF InDevs
    <2>4. CASE D!GiveBack(c)
        <3>1. CASE step[c] = "slot"
            <4>1. /\ \A s \in Slots : devs'[s] = IF devs[s] = c THEN Nobody ELSE devs[s]
                  /\ c \in found => "stale" \in misfortune'
                BY <2>4, <3>1 DEF D!GiveBack, D!Risk
            <4> QED BY <1>0, <1>1, <2>1, <4>1 DEF InDevs
        <3>2. CASE step[c] # "slot"
            <4>1. devs' = devs /\ ("slot" \in held[d] => "slot" \in held'[d])
                BY <1>1, <2>1, <2>4, <3>2 DEF D!GiveBack, D!Piece, DevTypes
            <4> QED BY <1>1, <2>1, <4>1 DEF InDevs
        <3> QED BY <3>1, <3>2
    <2> QED BY <1>4, <2>2, <2>3, <2>4 DEF Moves
<1> QED BY <1>1, <1>2, <1>3, <1>4, DevCases, QuietSame, StartSame, LeaveSame

LEMMA InModulesStep == DevInv /\ D!Next => InModules'
<1> SUFFICES ASSUME DevInv, D!Next PROVE InModules'
    OBVIOUS
<1>1. DevTypes /\ InModules /\ Test \in D!Devices /\ Cards \subseteq D!Devices /\ Test \notin Cards
    BY DevicesAssumption DEF DevInv, D!Devices
<1>2. CASE Quiet
    <2>1. UNCHANGED at
        BY <1>2, QuietSame
    <2>2. CASE D!TcioExit /\ at[Test] # "there"
        BY <1>1, <2>1, <2>2 DEF InModules, D!TcioExit
    <2>3. CASE D!TcioCleanup
        BY <1>1, <2>1, <2>3 DEF InModules, D!TcioCleanup
    <2>4. CASE D!PcitcInit \/ D!Probed \/ D!PcitcExit \/ D!PcitcCleanup
        BY <1>1, <2>1, <2>4 DEF InModules, D!PcitcInit, D!Probed, D!PcitcExit, D!PcitcCleanup
    <2> QED BY <1>2, <2>2, <2>3, <2>4 DEF Quiet
<1>3. CASE Users
    BY <1>1, <1>3, UsersSame DEF InModules
<1>4. ASSUME NEW c \in D!Devices, Starts(c) PROVE InModules'
    <2>1. at' = [at EXCEPT ![c] = "add"]
        BY <1>1, <1>4, StartSame
    <2>2. CASE c = Test /\ D!TcioInit
        BY <1>1, <2>1, <2>2 DEF InModules, D!TcioInit, DevTypes
    <2>3. CASE c \in Cards /\ D!Probe(c)
        BY <1>1, <2>1, <2>3 DEF InModules, D!Probe, DevTypes
    <2> QED BY <1>4, <2>2, <2>3 DEF Starts
<1>5. ASSUME NEW c \in D!Devices, Leaves(c) PROVE InModules'
    <2>1. at' = [at EXCEPT ![c] = "drop"] /\ at[c] = "there"
        BY <1>1, <1>5, LeaveSame
    <2>2. CASE c = Test /\ D!TcioExit
        BY <1>1, <2>1, <2>2 DEF InModules, D!TcioExit, DevTypes
    <2>3. CASE c \in Cards /\ D!Remove(c)
        BY <1>1, <2>1, <2>3 DEF InModules, D!Remove, D!Drop, D!modules, DevTypes
    <2> QED BY <1>5, <2>2, <2>3 DEF Leaves
<1>6. ASSUME NEW c \in D!Devices, Moves(c) PROVE InModules'
    <2>1. UNCHANGED <<tcio, pcitc, class>> /\ \A d \in D!Devices \ {c} : at'[d] = at[d]
        BY <1>1, <1>6, MoveSame DEF Others
    <2>2. at[c] # "absent"
        BY <1>6 DEF Moves, D!Take, D!Allocate, D!NoFiles, D!Fail, D!Added, D!GiveBack, D!Gone
    <2> QED BY <1>1, <2>1, <2>2 DEF InModules
<1> QED BY <1>1, <1>2, <1>3, <1>4, <1>5, <1>6, DevCases

-----------------------------------------------------------------------------
LEMMA DevInit == D!Init => DevInv
<1> SUFFICES ASSUME D!Init PROVE DevInv
    OBVIOUS
<1>1. DevTypes
    BY DEF D!Init, DevTypes, AddSteps
<1>2. ASSUME NEW d \in D!Devices PROVE HoldsAtMost(d) /\ HoldsAtLeast(d) /\ InDevs(d)
    <2>1. d # Nobody
        BY DevicesAssumption DEF D!Devices
    <2>2. at[d] = "absent" /\ held[d] = {} /\ d \notin reading /\ d \notin found
          /\ \A s \in Slots : devs[s] # d
        BY <2>1 DEF D!Init
    <2> QED BY <2>2 DEF HoldsAtMost, HoldsAtLeast, InDevs
<1>3. InModules
    BY DEF D!Init, InModules, D!Devices
<1> QED BY <1>1, <1>2, <1>3 DEF DevInv

LEMMA DevRests == DevInv /\ UNCHANGED devices => DevInv'
BY DEF devices, DevInv, DevTypes, HoldsAtMost, HoldsAtLeast, InDevs, InModules, Lost

LEMMA DevAlways == OneSpec => []DevInv
<1>1. OneInit => DevInv
    BY DevInit DEF OneInit
<1>2. DevInv /\ [CardMoves \/ DevicesMove]_<<which, vars, devices>> => DevInv'
    <2>1. DevInv /\ D!Next => DevInv'
        BY DevTypesStep, HoldsAtMostStep, HoldsAtLeastStep, InDevsStep, InModulesStep DEF DevInv
    <2> QED BY <2>1, DevRests DEF CardMoves, DevicesMove
<1> QED BY <1>1, <1>2, PTL DEF OneSpec

\* For any number of cards and of places in the table, at whichever piece an
\* addition fails: a device that is gone has nothing left but the region of a
\* card that could not be mapped (pcitc_main.c:118-133, 668-727, tcio.c:161-172).
THEOREM GoneLeavesNothing == OneSpec => []DevicesLeaveNothing
<1>1. DevInv => DevicesLeaveNothing
    <2> SUFFICES ASSUME DevInv, NEW d \in D!Devices, at[d] = "absent"
                 PROVE  /\ held[d] = {} \/ ("map" \in misfortune /\ held[d] = {"region"})
                        /\ \A s \in Slots : devs[s] # d
        BY DEF DevicesLeaveNothing, D!DevicesLeaveNothing
    <2>1. held[d] \subseteq Lost
        BY DEF DevInv, HoldsAtMost
    <2>2. "slot" \notin held[d]
        BY <2>1 DEF Lost
    <2> QED BY <2>1, <2>2 DEF DevInv, InDevs, Lost
<1> QED BY <1>1, DevAlways, PTL

\* Likewise: readers of a device's files have the device and a mapped card whose
\* controller runs, finders the device, and nodes their class
\* (tcio.c:153-172, 231, pcitc_main.c:669-678, 710).
THEOREM UsersFindDevices == OneSpec => []DevicesUsedLive
<1>1. DevInv => DevicesUsedLive
    <2> SUFFICES ASSUME DevInv PROVE D!DevicesUsedLive
        BY DEF DevicesUsedLive
    <2>1. \A d \in reading : /\ "slot" \in held[d]
                             /\ d \in Cards => "map" \in held[d]
                             /\ d \in PCIe => "clock" \in held[d]
        BY DEF DevInv, DevTypes, HoldsAtLeast
    <2>2. ASSUME NEW d \in D!Devices, "node" \in held[d] PROVE class
        <3>1. at[d] # "absent"
            BY <2>2 DEF DevInv, HoldsAtMost, Lost
        <3> QED BY <3>1 DEF DevInv, InModules, D!Devices
    <2>3. found \subseteq D!Devices
        BY DEF DevInv, DevTypes
    <2> QED BY <2>1, <2>2, <2>3 DEF DevInv, InDevs, D!DevicesUsedLive
<1> QED BY <1>1, DevAlways, PTL
=============================================================================
