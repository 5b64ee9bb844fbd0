---------------------------- MODULE TimecodeCard ----------------------------
(***************************************************************************)
(* The LTC timecode card (src/src/pcitc_main.c) and its registration as a  *)
(* timecode device (src/src/tcio.c): callers read the timecode through     *)
(* sysfs and write, run and synchronise the generator through the handle,  *)
(* one register access at a time and without a lock, while the card counts *)
(* frames and works off its mailbox; probe and remove go on around them.   *)
(*                                                                         *)
(* On the PCI card an access is one port read or write.  On the PCIe card  *)
(* it is a command to an SD controller: the word that says what to do is   *)
(* posted, and the answer fetched later.  Things that can go wrong, and a  *)
(* behaviour may have any that Freedoms allows (unlucky records them, and  *)
(* the bus fails at most once):                                            *)
(*   "bus"      a command of the SD controller fails, and a read gives 0   *)
(*   "slow"     the card takes longer than MBOX_DELAY for its mailbox      *)
(*   "overlap"  two callers use the SD controller, or the mailbox, at once *)
(* A word of 32 bits is read and written in one access.                    *)
(***************************************************************************)
EXTENDS Naturals, Sequences

CONSTANTS
    Callers,    \* processes and the PCI core
    Rates,      \* frame rates asked for, supported or not
    Codes,      \* timecodes written
    Wrap,       \* values of the card's validation byte (256)
    MaxNow,     \* bound: frames that reach the card
    ReadTries,  \* READ_TRIES
    Freedoms

Supported == {24, 25, 30}
Mishaps == {"bus", "slow", "overlap"}

ASSUME FreedomAssumption == Freedoms \subseteq Mishaps
ASSUME BoundAssumption == MaxNow \in Nat
ASSUME WrapAssumption == Wrap \in Nat \ {0, 1}

VARIABLES
    bus,        \* "pci" or "pcie"
    unlucky,
    \* the card
    now,        \* number of the frame of timecode last received
    card,       \* its mailbox and its generator
    word,       \* PCIe: what the SD controller is to do
    \* the driver
    cfps,       \* card->cfps
    mapped,     \* card->reg is mapped
    files,      \* the sysfs files of the timecode device are there
    handle,     \* tcio_register has returned the handle
    \* a caller
    pc,
    job,        \* what it was called for
    todo,       \* the register writes and mailbox commands still to do
    posted,     \* PCIe: its word is posted
    got,        \* what it read so far
    result      \* what its last call returned

mishap == <<bus, unlucky>>
device == <<cfps, mapped, files, handle>>
caller == <<pc, job, todo, posted, got, result>>
vars == <<mishap, now, card, word, device, caller>>

Nothing == [kind |-> "none", part |-> "none", fps |-> 0, arg |-> 0]
NoReading == [since |-> 0, d1 |-> 0, tcode |-> 0, ubits |-> 0, tries |-> 0]
NoWord == [reg |-> "none", val |-> <<"none", 0>>]

Init ==
    /\ bus \in {"pci", "pcie"} /\ unlucky = {}
    /\ now = 0
    /\ card = [slot |-> <<"none", 0>>, answered |-> FALSE, rate |-> 0, run |-> 0,
               regs |-> <<0, 0>>, gen |-> <<0, 0>>]
    /\ word = NoWord
    /\ cfps = 0 /\ mapped = FALSE /\ files = FALSE /\ handle = FALSE
    /\ pc = [p \in Callers |-> "idle"]
    /\ job = [p \in Callers |-> Nothing]
    /\ todo = [p \in Callers |-> <<>>]
    /\ posted = [p \in Callers |-> FALSE]
    /\ got = [p \in Callers |-> NoReading]
    /\ result = [p \in Callers |-> "ok"]

Goto(p, l) == pc' = [pc EXCEPT ![p] = l]
Returns(p, r) == Goto(p, "return") /\ result' = [result EXCEPT ![p] = r]
Busy == {p \in Callers : pc[p] # "idle"}
Doing(kinds) == {p \in Busy : job[p].kind \in kinds}
Commanding == {"probe", "write", "run", "sync"}

-----------------------------------------------------------------------------
(* One register access. *)

Reads == [first |-> "valid", tcode |-> "tcode", ubits |-> "ubits", second |-> "valid",
          signal |-> "signal", quiet |-> "status", answer |-> "status", drain |-> "status"]

\* The access that a caller is about to make.
Want(p) ==
    CASE pc[p] \in DOMAIN Reads -> [reg |-> Reads[pc[p]], val |-> <<"none", 0>>]
      [] pc[p] \in {"post", "poke"} -> Head(todo[p])
      [] pc[p] = "clear" -> [reg |-> "slot", val |-> <<"next", 0>>]
      [] OTHER -> NoWord

\* What a read of the register gives: bit 2 of the status says that the mailbox
\* is full, bit 0 that it has an answer; bit 4 that timecode is received.
Value(a) ==
    CASE a.reg = "status" ->
           (IF card.slot[1] = "none" THEN 0 ELSE 4) + (IF card.answered THEN 1 ELSE 0)
      [] a.reg \in {"tcode", "ubits"} -> now
      [] a.reg = "valid" -> now % Wrap
      [] a.reg = "signal" -> IF now > 0 THEN 16 ELSE 0
      [] OTHER -> 0

\* The card after the access.
After(a) ==
    CASE a.reg = "slot" -> [card EXCEPT !.slot = a.val]
      [] a.reg = "gen" -> [card EXCEPT !.regs[1] = a.val[2]]
      [] a.reg = "bits" -> [card EXCEPT !.regs[2] = a.val[2]]
      [] OTHER -> card

Bit(v, weight) == (v \div weight) % 2 = 1

\* pcitc_sdrw up to the start of the command.
Post(p) ==
    /\ bus = "pcie" /\ ~posted[p] /\ Want(p) # NoWord
    /\ word' = Want(p)
    /\ posted' = [posted EXCEPT ![p] = TRUE]
    /\ UNCHANGED <<mishap, now, card, device, pc, job, todo, got, result>>

\* The rest of the access, which gives v.  A command that fails gives 0 and
\* nobody looks at the status; a PCIe access is whatever was posted last.
Access(p, v) ==
    /\ UNCHANGED <<bus, now>>
    /\ word' = IF \E q \in Callers \ {p} : posted[q] THEN word ELSE NoWord
    /\ \/ /\ bus = "pci"
          /\ v = Value(Want(p)) /\ card' = After(Want(p))
          /\ UNCHANGED <<unlucky, posted>>
       \/ /\ bus = "pcie" /\ posted[p]
          /\ v = Value(word) /\ card' = After(word)
          /\ posted' = [posted EXCEPT ![p] = FALSE]
          /\ UNCHANGED unlucky
       \/ /\ bus = "pcie" /\ posted[p] /\ "bus" \in Freedoms \ unlucky
          /\ v = 0
          /\ posted' = [posted EXCEPT ![p] = FALSE]
          /\ unlucky' = unlucky \cup {"bus"} /\ UNCHANGED card

Values == 0 .. MaxNow \cup {0, 1, 4, 5, 16}

-----------------------------------------------------------------------------
(* Scripts of register writes and mailbox commands. *)

Poke(reg, v) == [reg |-> reg, val |-> <<"code", v>>]
Command(c, v) == [reg |-> "slot", val |-> <<c, v>>]

LoadScript(code) == <<Poke("gen", code), Poke("bits", code), Command("load", 0)>>
SetupScript(fps) ==
    <<Command("rate", fps), Command("ltc", 0)>> \o LoadScript(0)
        \o <<Command("output", 0), Command("run", 0)>>

FirstStep(script) == IF Head(script).reg = "slot" THEN "quiet" ELSE "poke"

Begin(p, part, script) ==
    /\ job' = [job EXCEPT ![p].part = part]
    /\ todo' = [todo EXCEPT ![p] = script]
    /\ Goto(p, FirstStep(script))

\* A part of the call has ended, with or without success.  A probe goes on
\* whatever came of it; a write goes on with the old cfps if the setup failed.
PartEnds(p, good) ==
    CASE job[p].part = "serial" ->
           Begin(p, "setup", SetupScript(30)) /\ UNCHANGED <<cfps, result>>
      [] job[p].part = "setup" /\ job[p].kind = "probe" ->
           /\ Goto(p, "register") /\ todo' = [todo EXCEPT ![p] = <<>>]
           /\ UNCHANGED <<cfps, job, result>>
      [] job[p].part = "setup" /\ job[p].kind = "write" ->
           /\ cfps' = IF good THEN job[p].fps ELSE cfps
           /\ Begin(p, "load", LoadScript(job[p].arg)) /\ UNCHANGED result
      [] OTHER ->
           /\ Returns(p, IF good THEN "ok" ELSE "error")
           /\ todo' = [todo EXCEPT ![p] = <<>>] /\ UNCHANGED <<cfps, job>>

\* On to the next step of the script.
StepDone(p) ==
    IF Len(todo[p]) > 1
    THEN /\ todo' = [todo EXCEPT ![p] = Tail(@)] /\ Goto(p, FirstStep(Tail(todo[p])))
         /\ UNCHANGED <<cfps, job, result>>
    ELSE PartEnds(p, TRUE)

-----------------------------------------------------------------------------
(* Faulty variants. *)

\* The status is not read again before the next command.
NoDrain == [quiet |-> "post", answer |-> "clear", drain |-> "clear"]

\* Validation bytes that differ are taken for a good reading.
AnyReading(p, v) == TRUE

\* The card is unmapped before its timecode device is unregistered.
UnmapFirst(p) ==
    /\ pc[p] = "unregister"
    /\ files' = FALSE /\ mapped' = FALSE
    /\ IF Doing({"read"}) = {} THEN Goto(p, "drained") ELSE UNCHANGED pc
    /\ UNCHANGED <<mishap, now, card, word, cfps, handle, job, todo, posted, got, result>>

-----------------------------------------------------------------------------
(* pcitc_mailbox_send *)

\* What each loop on the status waits for, and what follows it.
Satisfied(l, v) == IF l = "answer" THEN Bit(v, 1) ELSE ~Bit(v, 4)
Follows == [quiet |-> "post", answer |-> "drain", drain |-> "clear"]

Poll(p) ==
    /\ pc[p] \in DOMAIN Follows
    /\ \E v \in Values :
         /\ Access(p, v)
         /\ Goto(p, IF Satisfied(pc[p], v) THEN Follows[pc[p]] ELSE pc[p])
    /\ UNCHANGED <<device, job, todo, got, result>>

\* More than MBOX_DELAY tries: what was posted stays with the card.
GiveUp(p) ==
    /\ "slow" \in Freedoms
    /\ pc[p] \in DOMAIN Follows /\ ~posted[p]
    /\ ~Satisfied(pc[p], Value(Want(p)))
    /\ unlucky' = unlucky \cup {"slow"}
    /\ PartEnds(p, FALSE)
    /\ UNCHANGED <<bus, now, card, word, mapped, files, handle, posted, got>>

PostCommand(p) ==
    /\ pc[p] = "post"
    /\ \E v \in Values : Access(p, v)
    /\ Goto(p, "answer")
    /\ UNCHANGED <<device, job, todo, got, result>>

\* Writing zero ends a command; a plain register write needs no mailbox.
WriteDone(p) ==
    /\ pc[p] \in {"clear", "poke"}
    /\ \E v \in Values : Access(p, v)
    /\ StepDone(p)
    /\ UNCHANGED <<mapped, files, handle, got>>

-----------------------------------------------------------------------------
(* Calls *)

\* Nothing keeps callers from one another.
Enter(p, kind) ==
    /\ pc[p] = "idle"
    /\ LET overlap == \/ bus = "pcie" /\ Busy # {}
                      \/ kind \in Commanding /\ Doing(Commanding) # {}
       IN  /\ overlap => "overlap" \in Freedoms
           /\ unlucky' = IF overlap THEN unlucky \cup {"overlap"} ELSE unlucky
    /\ UNCHANGED <<bus, now, card, word, posted>>

\* pcitc_read, called by whoever reads the timecode file.
Read(p) ==
    /\ files
    /\ Enter(p, "read")
    /\ job' = [job EXCEPT ![p] = [Nothing EXCEPT !.kind = "read"]]
    /\ got' = [got EXCEPT ![p] = NoReading]
    /\ Goto(p, "signal")
    /\ UNCHANGED <<device, todo, result>>

ReadSignal(p) ==
    /\ pc[p] = "signal"
    /\ \E v \in Values :
         /\ Access(p, v)
         /\ IF Bit(v, 16) THEN Goto(p, "first") /\ UNCHANGED result
            ELSE Returns(p, "notconn")
    /\ UNCHANGED <<device, job, todo, got>>

ReadField(p) ==
    /\ pc[p] \in {"first", "tcode", "ubits"}
    /\ \E v \in Values :
         /\ Access(p, v)
         /\ got' = CASE pc[p] = "first" -> [got EXCEPT ![p].d1 = v, ![p].since = now]
                     [] pc[p] = "tcode" -> [got EXCEPT ![p].tcode = v]
                     [] pc[p] = "ubits" -> [got EXCEPT ![p].ubits = v]
    /\ Goto(p, CASE pc[p] = "first" -> "tcode" [] pc[p] = "tcode" -> "ubits"
                 [] pc[p] = "ubits" -> "second")
    /\ UNCHANGED <<device, job, todo, result>>

Validated(p, v) == got[p].d1 = v

\* The second validation byte; the rate of the reader is fetched after it.
ReadCheck(p) ==
    /\ pc[p] = "second"
    /\ \E v \in Values :
         /\ Access(p, v)
         /\ IF Validated(p, v) THEN Returns(p, "ok") /\ UNCHANGED got
            ELSE /\ got' = [got EXCEPT ![p].tries = @ + 1]
                 /\ IF got[p].tries + 1 = ReadTries THEN Returns(p, "again")
                    ELSE Goto(p, "first") /\ UNCHANGED result
    /\ UNCHANGED <<device, job, todo>>

\* A setup for a rate that the card does not know fails before its first command.
NeedsSetup(fps) == fps # cfps /\ fps \in Supported

\* pcitc_write: a setup when the rate changes, and the load in any case.
Write(p, fps, code) ==
    /\ handle
    /\ Enter(p, "write")
    /\ LET setup == NeedsSetup(fps)
           script == IF setup THEN SetupScript(fps) ELSE LoadScript(code)
       IN  /\ job' = [job EXCEPT ![p] = [kind |-> "write", fps |-> fps, arg |-> code,
                                         part |-> IF setup THEN "setup" ELSE "load"]]
           /\ todo' = [todo EXCEPT ![p] = script]
           /\ Goto(p, FirstStep(script))
    /\ UNCHANGED <<device, got, result>>

RunOrSync(p, kind, val) ==
    /\ handle
    /\ Enter(p, kind)
    /\ job' = [job EXCEPT ![p] = [Nothing EXCEPT !.kind = kind, !.arg = val]]
    /\ LET script == IF kind = "run" THEN <<Command("run", val)>> ELSE <<Poke("sync", val)>>
       IN  todo' = [todo EXCEPT ![p] = script] /\ Goto(p, FirstStep(script))
    /\ UNCHANGED <<device, got, result>>

Return(p) ==
    /\ pc[p] = "return"
    /\ Goto(p, "idle")
    /\ got' = [got EXCEPT ![p] = NoReading]
    /\ job' = [job EXCEPT ![p] = Nothing]
    /\ result' = [result EXCEPT ![p] = "ok"]
    /\ UNCHANGED <<mishap, now, card, word, device, todo, posted>>

-----------------------------------------------------------------------------
(* pcitc_pci_probe, pcitc_pci_remove *)

\* The kernel probes and removes a card once at a time.  A probe that fails before
\* the registers are used leaves nothing behind.
Probe(p) ==
    /\ ~mapped /\ Doing({"probe", "remove"}) = {}
    /\ Enter(p, "probe")
    /\ mapped' = TRUE /\ cfps' = 0
    /\ job' = [job EXCEPT ![p] = [Nothing EXCEPT !.kind = "probe", !.part = "serial"]]
    /\ todo' = [todo EXCEPT ![p] = <<Command("serial", 0)>>]
    /\ Goto(p, "quiet")
    /\ UNCHANGED <<files, handle, got, result>>

\* tcio_register: the files appear before the device can be added, and either
\* can fail.
CreateFiles(p) ==
    /\ pc[p] = "register"
    /\ \/ files' = TRUE /\ Goto(p, "add")
       \/ files' = FALSE /\ Goto(p, "drained")
    /\ UNCHANGED <<mishap, now, card, word, cfps, mapped, handle, job, todo, posted, got, result>>

AddDevice(p) ==
    /\ pc[p] = "add"
    /\ \/ handle' = TRUE /\ Returns(p, "ok")
       \/ handle' = FALSE /\ Goto(p, "unregister") /\ UNCHANGED result
    /\ UNCHANGED <<mishap, now, card, word, cfps, mapped, files, job, todo, posted, got>>

\* Whoever holds the handle has let go of it: tcio_find gives it out uncounted.
Remove(p) ==
    /\ pc[p] = "idle"
    /\ handle /\ Doing(Commanding \cup {"remove"}) = {}
    /\ handle' = FALSE
    /\ job' = [job EXCEPT ![p] = [Nothing EXCEPT !.kind = "remove"]]
    /\ Goto(p, "unregister")
    /\ UNCHANGED <<mishap, now, card, word, cfps, mapped, files, todo, posted, got, result>>

\* tcio_unregister takes the files away and waits for their readers.
Unregister(p) ==
    /\ pc[p] = "unregister"
    /\ files' = FALSE
    /\ IF Doing({"read"}) = {} THEN Goto(p, "drained") ELSE UNCHANGED pc
    /\ UNCHANGED <<mishap, now, card, word, cfps, mapped, handle, job, todo, posted, got, result>>

\* The card's cleanup unmaps its registers.
Unmap(p) ==
    /\ pc[p] = "drained"
    /\ mapped' = FALSE
    /\ Returns(p, IF job[p].kind = "probe" THEN "error" ELSE "ok")
    /\ UNCHANGED <<mishap, now, card, word, cfps, files, handle, job, todo, posted, got>>

-----------------------------------------------------------------------------
(* The card *)

\* A frame of timecode arrives; those that nobody reads are left out.  A reading
\* takes less time than the validation byte needs to come round.
Frame ==
    /\ now < MaxNow /\ Doing({"read"}) # {}
    /\ \A p \in Callers : pc[p] \in {"tcode", "ubits", "second"} => now - got[p].since < Wrap - 1
    /\ now' = now + 1
    /\ UNCHANGED <<mishap, card, word, device, caller>>

\* The card takes a command from its mailbox, does it and answers.
Obey ==
    /\ card.slot[1] # "none"
    /\ card' = LET cmd == card.slot
                   done == [card EXCEPT !.slot = <<"none", 0>>, !.answered = cmd[1] # "next"]
               IN  CASE cmd[1] = "rate" -> [done EXCEPT !.rate = cmd[2]]
                     [] cmd[1] = "load" -> [done EXCEPT !.gen = card.regs]
                     [] cmd[1] = "run" -> [done EXCEPT !.run = cmd[2]]
                     [] OTHER -> done
    /\ UNCHANGED <<mishap, now, word, device, caller>>

Next ==
    \/ \E p \in Callers :
         \/ Post(p) \/ Poll(p) \/ GiveUp(p) \/ PostCommand(p) \/ WriteDone(p)
         \/ Read(p) \/ ReadSignal(p) \/ ReadField(p) \/ ReadCheck(p)
         \/ \E fps \in Rates, code \in Codes : Write(p, fps, code)
         \/ \E val \in {0, 1} : RunOrSync(p, "run", val)
         \/ RunOrSync(p, "sync", 1)
         \/ Return(p)
         \/ Probe(p) \/ CreateFiles(p) \/ AddDevice(p)
         \/ Remove(p) \/ Unregister(p) \/ Unmap(p)
    \/ Frame \/ Obey

Spec == Init /\ [][Next]_vars

-----------------------------------------------------------------------------
(* Properties *)

\* Callers, card and driver stay well typed (pcitc_main.c:69-84, tcio.c:61-69).
TypeOK ==
    /\ bus \in {"pci", "pcie"} /\ unlucky \subseteq Freedoms
    /\ now \in 0 .. MaxNow
    /\ card.answered \in BOOLEAN /\ card.rate \in {0} \cup Supported /\ card.run \in {0, 1}
    /\ cfps \in {0} \cup Supported
    /\ mapped \in BOOLEAN /\ files \in BOOLEAN /\ handle \in BOOLEAN
    /\ posted \in [Callers -> BOOLEAN]
    /\ got \in [Callers -> [since : Nat, d1 : Values, tcode : Values, ubits : Values,
                            tries : 0 .. ReadTries]]
    /\ result \in [Callers -> {"ok", "error", "notconn", "again"}]
    /\ \A p \in Callers :
         /\ pc[p] \in {"post", "clear", "poke"} \cup DOMAIN Follows => todo[p] # <<>>
         /\ posted[p] => Want(p) # NoWord

\* A reading that is returned is one frame's timecode and user bits, and of a
\* frame that was current during the last try: the validation bytes see to that,
\* with writers at work or not, unless the bus fails or callers share the SD
\* controller (pcitc_main.c:529-539).
OneReading ==
    \A p \in Callers :
        (pc[p] = "return" /\ job[p].kind = "read" /\ result[p] = "ok"
            /\ unlucky \cap {"bus", "overlap"} = {}) =>
        got[p].tcode = got[p].ubits /\ got[p].tcode \in got[p].since .. now

\* A write or run that returned success has been carried out by the card, also
\* when earlier commands timed out and their answers came late; and if none
\* did, the card runs at the rate asked for, provided it knows it
\* (pcitc_main.c:315-357, 559-592).
SuccessTookEffect ==
    \A p \in Callers :
        (pc[p] = "return" /\ result[p] = "ok" /\ unlucky \cap {"bus", "overlap"} = {}) =>
        /\ job[p].kind = "run" => card.run = job[p].arg
        /\ job[p].kind = "write" =>
             /\ card.gen = <<job[p].arg, job[p].arg>>
             /\ unlucky = {} /\ job[p].fps \in Supported => card.rate = job[p].fps

\* Registers are only touched while they are mapped, also by readers of the
\* timecode file when the card is removed or its registration fails
\* (pcitc_main.c:669-678, tcio.c:161-172).
MappedWhileUsed == \A p \in Callers : Want(p) # NoWord => mapped
=============================================================================
