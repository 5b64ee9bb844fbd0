-------------------------- MODULE TimecodeDevices --------------------------
(***************************************************************************)
(* Timecode devices and the cards behind them, from the loading of the     *)
(* modules to their unloading (src/src/tcio.c:55-299,                      *)
(* src/src/pcitc_main.c:108-133, 225-313 and 668-800).  tcio keeps a table *)
(* of devices and gives them a node, sysfs files and a character device;   *)
(* it registers one device of its own for tests, which can do nothing.     *)
(* pcitc registers one for each LTC card whose registers it could set up.  *)
(*                                                                         *)
(* Things that can go wrong, of which a behaviour may have one kind that   *)
(* Freedoms allows (unlucky records it):                                   *)
(*   "map"    the registers cannot be mapped                               *)
(*   "stale"  a device that tcio_find gave out is unregistered             *)
(***************************************************************************)
EXTENDS Naturals

CONSTANTS
    Cards,       \* the LTC cards in the machine
    PCIe,        \* those with an SD controller
    Test,        \* tcio's own device
    Slots,       \* of the table
    Nobody,
    Freedoms

Devices == Cards \cup {Test}

VARIABLES
    unlucky,
    tcio,        \* the module tcio: "out", "in" or "exit"
    pcitc,       \* the module pcitc: "out", "init", "in" or "exit"
    class,       \* tcio has its class and its device numbers
    probed,      \* the cards that pcitc_init has probed
    cardct,      \* the cards that got as far as to have a number
    at,          \* "absent", "add", "drop" or "there"
    step,        \* the piece to be taken or given back next
    held,        \* the pieces a device has
    devs,        \* the table
    reading,     \* the devices whose sysfs files somebody reads
    found        \* the devices that tcio_find gave out

modules == <<tcio, pcitc, class, probed, cardct>>
device  == <<at, step, held, devs>>
vars    == <<unlucky, modules, device, reading, found>>

Risk(what, cond) ==
    /\ cond => what \in Freedoms /\ unlucky \subseteq {what}
    /\ unlucky' = IF cond THEN unlucky \cup {what} ELSE unlucky

Init ==
    /\ unlucky = {}
    /\ tcio = "out" /\ pcitc = "out" /\ class = FALSE /\ probed = {} /\ cardct = 0
    /\ at = [d \in Devices |-> "absent"] /\ step = [d \in Devices |-> "end"]
    /\ held = [d \in Devices |-> {}]
    /\ devs = [s \in Slots |-> Nobody]
    /\ reading = {} /\ found = {}

-----------------------------------------------------------------------------
(* Faulty variants. *)

\* A controller that does not get stable is not unmapped.
KeepMap ==
    [memory |-> "end", enabled |-> "enabled", region |-> "enabled", map |-> "enabled",
     reset |-> "enabled", clock |-> "enabled", slot |-> "map", node |-> "cdev", cdev |-> "files"]

\* The files go last.
FilesLate ==
    [files |-> "map", node |-> "cdev", cdev |-> "slot", slot |-> "files", map |-> "region",
     region |-> "enabled", enabled |-> "memory", memory |-> "end"]

-----------------------------------------------------------------------------
(* The order of the pieces.  "reset" and "clock" are the SD controller       *)
(* answering and its clock being stable; "slot" is a device's place in the   *)
(* table and its memory.                                                     *)

\* pcitc_pci_probe, pcitc_pci_init, pcitc_pcie_init, tcio_register
TakeNext ==
    [memory |-> "enabled", enabled |-> "region", region |-> "map", map |-> "reset",
     reset |-> "clock", clock |-> "slot", slot |-> "node", node |-> "files",
     files |-> "cdev", cdev |-> "end"]

\* Where the undoing begins, by the piece that failed: pcitc_device_cleanup
\* unmaps and releases only what is mapped.
UndoFirst ==
    [memory |-> "end", enabled |-> "enabled", region |-> "enabled", map |-> "enabled",
     reset |-> "map", clock |-> "map", slot |-> "map", node |-> "cdev", cdev |-> "files"]

\* tcio_unregister, pcitc_device_cleanup
DropNext ==
    [files |-> "node", node |-> "cdev", cdev |-> "slot", slot |-> "map", map |-> "region",
     region |-> "enabled", enabled |-> "memory", memory |-> "end"]

-----------------------------------------------------------------------------
(* Adding a device. *)

First(d) == IF d = Test THEN "slot" ELSE "memory"

Add(d) ==
    /\ at[d] = "absent"
    /\ at' = [at EXCEPT ![d] = "add"]
    /\ step' = [step EXCEPT ![d] = First(d)]
    /\ UNCHANGED <<held, devs, reading, found>>

After(d) == IF step[d] = "map" /\ d \notin PCIe THEN "slot" ELSE TakeNext[step[d]]

\* What a card was left with cannot be had again.
Take(d) ==
    /\ at[d] = "add" /\ step[d] \notin {"slot", "end"} \cup held[d]
    /\ held' = [held EXCEPT ![d] = @ \cup {step[d]}]
    /\ step' = [step EXCEPT ![d] = After(d)]
    /\ cardct' = IF step[d] = "memory" THEN cardct + 1 ELSE cardct
    /\ UNCHANGED <<unlucky, tcio, pcitc, class, probed, at, devs, reading, found>>

\* tcio_allocate
Allocate(d) ==
    /\ at[d] = "add" /\ step[d] = "slot"
    /\ \E s \in Slots :
         /\ devs[s] = Nobody /\ \A r \in Slots : devs[r] = Nobody => s <= r
         /\ devs' = [devs EXCEPT ![s] = d]
    /\ held' = [held EXCEPT ![d] = @ \cup {"slot"}]
    /\ step' = [step EXCEPT ![d] = "node"]
    /\ UNCHANGED <<unlucky, modules, at, reading, found>>

\* Sysfs files that cannot be had are gone without.
NoFiles(d) ==
    /\ at[d] = "add" /\ step[d] = "files"
    /\ step' = [step EXCEPT ![d] = "cdev"]
    /\ UNCHANGED <<unlucky, modules, at, held, devs, reading, found>>

Fail(d) ==
    /\ at[d] = "add" /\ step[d] \in DOMAIN UndoFirst
    /\ Risk("map", step[d] = "map")
    /\ at' = [at EXCEPT ![d] = "drop"]
    /\ step' = [step EXCEPT ![d] = UndoFirst[step[d]]]
    /\ UNCHANGED <<modules, held, devs, reading, found>>

Added(d) ==
    /\ at[d] = "add" /\ step[d] = "end"
    /\ at' = [at EXCEPT ![d] = "there"]
    /\ UNCHANGED <<unlucky, modules, step, held, devs, reading, found>>

-----------------------------------------------------------------------------
(* Dropping it. *)

Drop(d) ==
    /\ at[d] = "there"
    /\ at' = [at EXCEPT ![d] = "drop"]
    /\ step' = [step EXCEPT ![d] = "files"]
    /\ UNCHANGED <<unlucky, modules, held, devs, reading, found>>

\* The test device has no card.
Last(d) == d = Test /\ step[d] = "slot"

\* The controller's state goes with the mapping.
Piece(d) == IF step[d] = "map" THEN {"map", "reset", "clock"} ELSE {step[d]}

\* Taking files away waits for who reads them.
GiveBack(d) ==
    /\ at[d] = "drop" /\ step[d] # "end"
    /\ step[d] = "files" => d \notin reading
    /\ Risk("stale", step[d] = "slot" /\ d \in found)
    /\ held' = [held EXCEPT ![d] = @ \ Piece(d)]
    /\ devs' = IF step[d] = "slot" THEN [s \in Slots |-> IF devs[s] = d THEN Nobody ELSE devs[s]] ELSE devs
    /\ step' = [step EXCEPT ![d] = IF Last(d) THEN "end" ELSE DropNext[step[d]]]
    /\ UNCHANGED <<modules, at, reading, found>>

Gone(d) ==
    /\ at[d] = "drop" /\ step[d] = "end"
    /\ at' = [at EXCEPT ![d] = "absent"]
    /\ UNCHANGED <<unlucky, modules, step, held, devs, reading, found>>

-----------------------------------------------------------------------------
(* tcio_init, tcio_exit, pcitc_init, pcitc_exit *)

Idle == \A d \in Devices : at[d] \in {"absent", "there"}

\* An init without a class or numbers leaves nothing.
TcioInit ==
    /\ tcio = "out"
    /\ tcio' = "in" /\ class' = TRUE
    /\ Add(Test)
    /\ UNCHANGED <<unlucky, pcitc, probed, cardct>>

TcioExit ==
    /\ tcio = "in" /\ pcitc = "out" /\ Idle /\ found = {}
    /\ tcio' = "exit"
    /\ IF at[Test] = "there"
       THEN at' = [at EXCEPT ![Test] = "drop"] /\ step' = [step EXCEPT ![Test] = "files"]
       ELSE UNCHANGED <<at, step>>
    /\ UNCHANGED <<unlucky, pcitc, class, probed, cardct, held, devs, reading, found>>

TcioCleanup ==
    /\ tcio = "exit" /\ at[Test] = "absent"
    /\ tcio' = "out" /\ class' = FALSE
    /\ UNCHANGED <<unlucky, pcitc, probed, cardct, device, reading, found>>

PcitcInit ==
    /\ tcio = "in" /\ pcitc = "out" /\ Idle
    /\ pcitc' = "init"
    /\ UNCHANGED <<unlucky, tcio, class, probed, cardct, device, reading, found>>

\* A card that was given a number counts, whatever becomes of it.
Probe(d) ==
    /\ pcitc = "init" /\ Idle /\ d \notin probed
    /\ probed' = probed \cup {d}
    /\ Add(d)
    /\ UNCHANGED <<unlucky, tcio, pcitc, class, cardct>>

\* A machine may have fewer cards than Cards; without any
\* that counts, the module goes.
Probed ==
    /\ pcitc = "init" /\ Idle
    /\ pcitc' = IF cardct = 0 THEN "exit" ELSE "in"
    /\ UNCHANGED <<unlucky, tcio, class, probed, cardct, device, reading, found>>

PcitcExit ==
    /\ pcitc = "in" /\ Idle
    /\ pcitc' = "exit"
    /\ UNCHANGED <<unlucky, tcio, class, probed, cardct, device, reading, found>>

\* Cards go with the module, or before it.
Remove(d) == pcitc \in {"in", "exit"} /\ Drop(d)

PcitcCleanup ==
    /\ pcitc = "exit" /\ \A d \in Cards : at[d] = "absent"
    /\ pcitc' = "out" /\ probed' = {} /\ cardct' = 0
    /\ UNCHANGED <<unlucky, tcio, class, device, reading, found>>

-----------------------------------------------------------------------------
(* Users. *)

Read(d) ==
    /\ "files" \in held[d]
    /\ reading' = reading \cup {d}
    /\ UNCHANGED <<unlucky, modules, device, found>>

ReadDone(d) ==
    /\ d \in reading
    /\ reading' = reading \ {d}
    /\ UNCHANGED <<unlucky, modules, device, found>>

\* tcio_find: whatever is in the table, complete or not, and uncounted.
Find(s) ==
    /\ tcio = "in" /\ devs[s] # Nobody
    /\ found' = found \cup {devs[s]}
    /\ UNCHANGED <<unlucky, modules, device, reading>>

Forget(d) ==
    /\ d \in found
    /\ found' = found \ {d}
    /\ UNCHANGED <<unlucky, modules, device, reading>>

Modules == TcioInit \/ TcioExit \/ TcioCleanup \/ PcitcInit \/ Probed \/ PcitcExit \/ PcitcCleanup

Kernel(d) ==
    \/ Take(d) \/ Allocate(d) \/ NoFiles(d) \/ Fail(d) \/ Added(d)
    \/ GiveBack(d) \/ Gone(d)

Next ==
    \/ Modules
    \/ \E d \in Cards : Probe(d) \/ Remove(d)
    \/ \E d \in Devices : Kernel(d) \/ Read(d) \/ ReadDone(d) \/ Forget(d)
    \/ \E s \in Slots : Find(s)

Spec == Init /\ [][Next]_vars

-----------------------------------------------------------------------------
(* Properties *)

Pieces == DOMAIN TakeNext

\* Type correctness of the modules and the devices (tcio.c:56-69).
TypeOK ==
    /\ unlucky \in SUBSET {"map", "stale"}
    /\ tcio \in {"out", "in", "exit"} /\ pcitc \in {"out", "init", "in", "exit"}
    /\ class \in BOOLEAN /\ probed \in SUBSET Cards /\ cardct \in Nat
    /\ at \in [Devices -> {"absent", "add", "drop", "there"}]
    /\ step \in [Devices -> Pieces \cup {"end"}]
    /\ held \in [Devices -> SUBSET Pieces]
    /\ devs \in [Slots -> Devices \cup {Nobody}]
    /\ reading \in SUBSET Devices /\ found \in SUBSET Devices

\* A device that is gone, or could not be added, has nothing left: no piece but
\* for the region of a card that could not be mapped, no place in the table
\* (pcitc_main.c:118-133, 668-727, tcio.c:161-172, 214-217).
DevicesLeaveNothing ==
    \A d \in Devices :
        at[d] = "absent" =>
            /\ held[d] = {} \/ ("map" \in unlucky /\ held[d] = {"region"})
            /\ \A s \in Slots : devs[s] # d

\* Whoever reads a device's files finds the device, and behind it a mapped card
\* whose controller runs; whoever found a device in the table finds it there
\* still, unless it was unregistered under him (tcio.c:153-172, 231,
\* pcitc_main.c:669-678, 710).
DevicesUsedLive ==
    /\ \A d \in reading :
         /\ "slot" \in held[d]
         /\ d \in Cards => "map" \in held[d]
         /\ d \in PCIe => "clock" \in held[d]
    /\ \A d \in found : "slot" \in held[d] \/ "stale" \in unlucky
    /\ \A d \in Devices : "node" \in held[d] => class
=============================================================================
