--------------------------- MODULE CardLifecycle ---------------------------
(***************************************************************************)
(* The coming and going of the AJA cards, of their deck devices and of the *)
(* two modules (src/src/aja.c:742-855, 2287-2304 and 2363-2670,            *)
(* src/src/p2slave_main.c:470-530 and 619-708).  A probe takes what the    *)
(* card needs piece by piece, and any piece may fail; removal gives the    *)
(* pieces back, while the interrupt handler and open files still use them. *)
(*                                                                         *)
(* Things that can go wrong, of which a behaviour may have one kind that   *)
(* Freedoms allows (unlucky records it):                                   *)
(*   "early"    the class or the device numbers cannot be had, and the     *)
(*              driver is unregistered without ever having been registered *)
(*   "lists"    a DMA list cannot be had, which the probe only logs        *)
(*   "together" two cards are probed at once                               *)
(*   "late"     the interrupt handler runs for a card being removed        *)
(*   "unbind"   a card is removed while a file of it is open               *)
(*   "deck"     a card is removed while a file of its deck device is open, *)
(*              which keeps the module p2slave but not the card's module   *)
(***************************************************************************)
EXTENDS Naturals

CONSTANTS
    Cards,       \* in the machine
    Slots,       \* of the table of deck devices (1 .. MAX_DEVS)
    Nobody,
    MaxCards,    \* bound of the model: cards counted by aja_cards
    Freedoms

VARIABLES
    unlucky,
    slave,       \* the module p2slave is loaded
    module,      \* the module ajadriver: "out", "init", "live" or "exit"
    globals,     \* what it holds of the kernel: its class, its driver
    cards,       \* aja_cards
    tried,       \* the cards pci_register_driver has probed
    at,          \* "absent", "probe", "undo", "bound" or "remove"
    step,        \* the piece to be taken or given back next
    held,        \* the pieces a card has
    index,       \* card->index
    deck,        \* card->p2slave is set
    devs,        \* the table of deck devices
    hand,        \* the handler: "out", "in", or "deck" when it will use the deck
    open,        \* the cards with an open file
    deckopen     \* the cards with an open file of the deck device

modules == <<slave, module, globals, tried>>
card    == <<at, step, held, index, deck>>
vars    == <<unlucky, modules, cards, card, devs, hand, open, deckopen>>

Mishaps == {"early", "lists", "together", "late", "unbind", "deck"}

\* A step that is harmless unless cond; then it needs the freedom.
Risk(what, cond) ==
    /\ cond => what \in Freedoms /\ unlucky \subseteq {what}
    /\ unlucky' = IF cond THEN unlucky \cup {what} ELSE unlucky

Init ==
    /\ unlucky = {}
    /\ slave = FALSE /\ module = "out" /\ globals = {} /\ tried = {}
    /\ cards = 0
    /\ at = [c \in Cards |-> "absent"] /\ step = [c \in Cards |-> "end"]
    /\ held = [c \in Cards |-> {}] /\ index = [c \in Cards |-> 0]
    /\ deck = [c \in Cards |-> FALSE]
    /\ devs = [s \in Slots |-> Nobody]
    /\ hand = [c \in Cards |-> "out"]
    /\ open = {} /\ deckopen = {}

-----------------------------------------------------------------------------
(* Faulty variants. *)

\* err1 is skipped when the registers cannot be mapped.
SkipRegion == [enabled |-> "end", region |-> "enabled", map |-> "enabled", card |-> "map", irq |-> "card"]

\* The interrupt is given back when the registers are unmapped already.
IrqLast ==
    [dnode |-> "dcdev", dcdev |-> "slot", slot |-> "node", node |-> "cdev",
     cdev |-> "map", map |-> "irq", irq |-> "region", region |-> "enabled",
     enabled |-> "card", card |-> "end"]

\* Removal counts the cards down.
Uncount(c) == cards' = IF step[c] = "card" THEN cards - 1 ELSE cards

-----------------------------------------------------------------------------
(* The order of the pieces.  "dnode" and "dcdev" are those of the deck       *)
(* device, "slot" its place in the table and its memory; "enabled" stands    *)
(* for the PCI device's private data as well.                                *)

\* aja_pci_probe, aja_device_create, p2slave_register
TakeNext ==
    [enabled |-> "region", region |-> "map", map |-> "card", card |-> "irq",
     irq |-> "node", node |-> "cdev", cdev |-> "slot",
     slot |-> "dnode", dnode |-> "dcdev", dcdev |-> "count"]

\* Where err0 to err3 begin, by the piece that failed, and how they go on.
UndoFirst == [enabled |-> "end", region |-> "enabled", map |-> "region", card |-> "map", irq |-> "card"]
UndoNext == [card |-> "map", map |-> "region", region |-> "enabled", enabled |-> "end"]

\* aja_pci_remove, p2slave_unregister, aja_device_destroy
RemoveNext ==
    [dnode |-> "dcdev", dcdev |-> "slot", slot |-> "node", node |-> "cdev",
     cdev |-> "irq", irq |-> "map", map |-> "region", region |-> "enabled",
     enabled |-> "card", card |-> "end"]

-----------------------------------------------------------------------------
(* aja_pci_probe *)

Probing(c) == at[c] = "probe"

Start(c) ==
    /\ at[c] = "absent"
    /\ at' = [at EXCEPT ![c] = "probe"]
    /\ step' = [step EXCEPT ![c] = "enabled"]
    /\ UNCHANGED <<cards, held, index, deck, devs, hand, open, deckopen>>

Take(c, pieces) ==
    /\ held' = [held EXCEPT ![c] = @ \cup pieces]
    /\ step' = [step EXCEPT ![c] = TakeNext[step[c]]]

\* A piece that needs no more than taking.
TakePiece(c) ==
    /\ Probing(c) /\ step[c] \in {"enabled", "region", "map", "irq", "node", "cdev", "dnode", "dcdev"}
    /\ Take(c, {step[c]})
    /\ UNCHANGED <<unlucky, modules, cards, at, index, deck, devs, hand, open, deckopen>>

\* aja_card_create
TakeCard(c) ==
    /\ Probing(c) /\ step[c] = "card"
    /\ \E lists \in BOOLEAN :
         /\ Risk("lists", ~lists)
         /\ Take(c, IF lists THEN {"card", "lists"} ELSE {"card"})
    /\ index' = [index EXCEPT ![c] = cards]
    /\ UNCHANGED <<modules, cards, at, deck, devs, hand, open, deckopen>>

\* p2slave_allocate
TakeSlot(c) ==
    /\ Probing(c) /\ step[c] = "slot"
    /\ \E s \in Slots :
         /\ devs[s] = Nobody /\ \A r \in Slots : devs[r] = Nobody => s <= r
         /\ devs' = [devs EXCEPT ![s] = c]
    /\ Take(c, {"slot"})
    /\ UNCHANGED <<unlucky, modules, cards, at, index, deck, hand, open, deckopen>>

\* What the probe cannot do without.
Undo(c) ==
    /\ Probing(c) /\ step[c] \in DOMAIN UndoFirst
    /\ step' = [step EXCEPT ![c] = UndoFirst[step[c]]]
    /\ at' = [at EXCEPT ![c] = "undo"]
    /\ UNCHANGED <<unlucky, modules, cards, held, index, deck, devs, hand, open, deckopen>>

\* What it can: no node, no character device either.
GoOnWithout(c) ==
    /\ Probing(c) /\ step[c] \in {"node", "cdev"}
    /\ step' = [step EXCEPT ![c] = "slot"]
    /\ UNCHANGED <<unlucky, modules, cards, at, held, index, deck, devs, hand, open, deckopen>>

Cleared(c) == [s \in Slots |-> IF devs[s] = c THEN Nobody ELSE devs[s]]

\* p2slave_register fails and cleans up after itself.
NoDeck(c) ==
    /\ Probing(c) /\ step[c] \in {"slot", "dnode", "dcdev"}
    /\ held' = [held EXCEPT ![c] = @ \ {"dnode", "slot"}]
    /\ devs' = Cleared(c)
    /\ at' = [at EXCEPT ![c] = "bound"] /\ step' = [step EXCEPT ![c] = "end"]
    /\ cards' = cards + 1
    /\ UNCHANGED <<unlucky, modules, index, deck, hand, open, deckopen>>

Bound(c) ==
    /\ Probing(c) /\ step[c] = "count"
    /\ deck' = [deck EXCEPT ![c] = TRUE]
    /\ at' = [at EXCEPT ![c] = "bound"] /\ step' = [step EXCEPT ![c] = "end"]
    /\ cards' = cards + 1
    /\ UNCHANGED <<unlucky, modules, held, index, devs, hand, open, deckopen>>

-----------------------------------------------------------------------------
(* aja_pci_remove, and what follows a failed probe. *)

\* The module's files keep it in, but not its cards.
Remove(c) ==
    /\ at[c] = "bound"
    /\ Risk("unbind", c \in open)
    /\ at' = [at EXCEPT ![c] = "remove"]
    /\ step' = [step EXCEPT ![c] = "dnode"]
    /\ UNCHANGED <<modules, cards, held, index, deck, devs, hand, open, deckopen>>

GivingBack(c) == at[c] \in {"undo", "remove"} /\ step[c] # "end"

\* "lists" goes with "card".
Piece(c) == IF step[c] = "card" THEN {"card", "lists"} ELSE {step[c]}

Dangers(c) ==
    (IF hand[c] # "out" THEN {"late"} ELSE {}) \cup (IF c \in deckopen THEN {"deck"} ELSE {})

\* Who uses the deck when it goes.
AtRisk(c) == IF step[c] = "slot" THEN Dangers(c) ELSE {}

Counted(c) == UNCHANGED cards

\* free_irq waits for the handler.
GiveBack(c) ==
    /\ GivingBack(c)
    /\ step[c] = "irq" => hand[c] = "out"
    /\ \A what \in AtRisk(c) : what \in Freedoms /\ AtRisk(c) \cup unlucky = {what}
    /\ unlucky' = unlucky \cup AtRisk(c)
    /\ held' = [held EXCEPT ![c] = @ \ Piece(c)]
    /\ devs' = IF step[c] = "slot" THEN Cleared(c) ELSE devs
    /\ step' = [step EXCEPT ![c] = IF at[c] = "undo" THEN UndoNext[step[c]] ELSE RemoveNext[step[c]]]
    /\ Counted(c)
    /\ UNCHANGED <<modules, at, index, deck, hand, open, deckopen>>

Gone(c) ==
    /\ at[c] \in {"undo", "remove"} /\ step[c] = "end"
    /\ at' = [at EXCEPT ![c] = "absent"]
    /\ index' = [index EXCEPT ![c] = 0] /\ deck' = [deck EXCEPT ![c] = FALSE]
    /\ UNCHANGED <<unlucky, modules, cards, step, held, devs, hand, open, deckopen>>

-----------------------------------------------------------------------------
(* aja_init, aja_exit, aja_cleanup, p2slave_init, p2slave_exit.  The device  *)
(* numbers are left out: of 255 taken, 256 are given back.                   *)

Moving == {c \in Cards : at[c] \notin {"absent", "bound"}}

\* A load that fails leaves nothing.
SlaveInit ==
    /\ ~slave /\ slave' = TRUE
    /\ UNCHANGED <<unlucky, module, globals, tried, cards, card, devs, hand, open, deckopen>>

\* The driver ajadriver uses p2slave, and so do open files.
SlaveExit ==
    /\ slave /\ module = "out" /\ deckopen = {}
    /\ slave' = FALSE
    /\ UNCHANGED <<unlucky, module, globals, tried, cards, card, devs, hand, open, deckopen>>

AjaInit ==
    /\ module = "out" /\ slave
    /\ module' = "init" /\ globals' = {"class", "driver"} /\ cards' = 0
    /\ UNCHANGED <<unlucky, slave, tried, card, devs, hand, open, deckopen>>

\* Without a class the module stays, with nothing; without numbers it does not.
AjaInitFails ==
    /\ module = "out" /\ slave
    /\ Risk("early", TRUE)
    /\ module' \in {"live", "out"} /\ cards' = 0
    /\ UNCHANGED <<slave, tried, globals, card, devs, hand, open, deckopen>>

ProbeNext(c) ==
    /\ module = "init" /\ Moving = {} /\ c \notin tried
    /\ tried' = tried \cup {c}
    /\ Start(c)
    /\ UNCHANGED <<unlucky, slave, module, globals>>

\* The driver wants at least one card.
ProbedAll ==
    /\ module = "init" /\ Moving = {} /\ tried = Cards
    /\ module' = IF cards = 0 THEN "exit" ELSE "live"
    /\ tried' = {}
    /\ UNCHANGED <<unlucky, slave, globals, cards, card, devs, hand, open, deckopen>>

AjaExit ==
    /\ module = "live" /\ open = {} /\ Moving = {}
    /\ module' = "exit"
    /\ UNCHANGED <<unlucky, slave, globals, tried, cards, card, devs, hand, open, deckopen>>

Unregister(c) ==
    /\ module = "exit" /\ Moving = {}
    /\ Remove(c)

Cleanup ==
    /\ module = "exit" /\ \A c \in Cards : at[c] = "absent"
    /\ module' = "out" /\ globals' = {} /\ cards' = 0
    /\ UNCHANGED <<unlucky, slave, tried, card, devs, hand, open, deckopen>>

\* The files bind and unbind of the driver in sysfs.
Bind(c) ==
    /\ module = "live" /\ "driver" \in globals /\ cards < MaxCards
    /\ Risk("together", \E d \in Cards : at[d] \in {"probe", "undo"})
    /\ Start(c)
    /\ UNCHANGED modules

Unbind(c) == module = "live" /\ Remove(c)

-----------------------------------------------------------------------------
(* The interrupt handler, and files. *)

HandlerEnters(c) ==
    /\ "irq" \in held[c] /\ hand[c] = "out"
    /\ Risk("late", at[c] = "remove")
    /\ hand' = [hand EXCEPT ![c] = "in"]
    /\ UNCHANGED <<modules, cards, card, devs, open, deckopen>>

\* A byte, or a new frame: the deck's pointer is looked at, and then used.
HandlerLooks(c) ==
    /\ hand[c] = "in" /\ deck[c]
    /\ hand' = [hand EXCEPT ![c] = "deck"]
    /\ UNCHANGED <<unlucky, modules, cards, card, devs, open, deckopen>>

HandlerLeaves(c) ==
    /\ hand[c] # "out"
    /\ hand' = [hand EXCEPT ![c] = "out"]
    /\ UNCHANGED <<unlucky, modules, cards, card, devs, open, deckopen>>

\* aja_open, as long as the module does not go.
Open(c) ==
    /\ "cdev" \in held[c] /\ module \in {"init", "live"}
    /\ Risk("unbind", at[c] = "remove")
    /\ open' = open \cup {c}
    /\ UNCHANGED <<modules, cards, card, devs, hand, deckopen>>

Release(c) ==
    /\ c \in open /\ open' = open \ {c}
    /\ UNCHANGED <<unlucky, modules, cards, card, devs, hand, deckopen>>

\* p2slave_open finds the device by its minor.
DeckOpen(c) ==
    /\ "dcdev" \in held[c] /\ \E s \in Slots : devs[s] = c
    /\ deckopen' = deckopen \cup {c}
    /\ UNCHANGED <<unlucky, modules, cards, card, devs, hand, open>>

DeckRelease(c) ==
    /\ c \in deckopen /\ deckopen' = deckopen \ {c}
    /\ UNCHANGED <<unlucky, modules, cards, card, devs, hand, open>>

Probe(c) ==
    \/ TakePiece(c) \/ TakeCard(c) \/ TakeSlot(c)
    \/ Undo(c) \/ GoOnWithout(c) \/ NoDeck(c) \/ Bound(c)

Handling(c) == HandlerEnters(c) \/ HandlerLooks(c) \/ HandlerLeaves(c)

Files(c) == Open(c) \/ Release(c) \/ DeckOpen(c) \/ DeckRelease(c)

Kernel(c) == ProbeNext(c) \/ Unregister(c) \/ Bind(c) \/ Unbind(c)

Modules == SlaveInit \/ SlaveExit \/ AjaInit \/ AjaInitFails \/ ProbedAll \/ AjaExit \/ Cleanup

Next ==
    \/ Modules
    \/ \E c \in Cards : Kernel(c) \/ Probe(c) \/ GiveBack(c) \/ Gone(c) \/ Handling(c) \/ Files(c)

Spec == Init /\ [][Next]_vars

-----------------------------------------------------------------------------
(* Properties *)

\* Type correctness of the modules and the cards (aja.c:2403-2534, 2577-2640).
TypeOK ==
    /\ unlucky \in SUBSET Mishaps
    /\ slave \in BOOLEAN /\ module \in {"out", "init", "live", "exit"}
    /\ globals \in SUBSET {"class", "driver"}
    /\ cards \in Nat /\ tried \in SUBSET Cards
    /\ at \in [Cards -> {"absent", "probe", "undo", "bound", "remove"}]
    /\ step \in [Cards -> DOMAIN TakeNext \cup {"count", "end"}]
    /\ held \in [Cards -> SUBSET (DOMAIN TakeNext \cup {"lists"})]
    /\ index \in [Cards -> Nat]
    /\ deck \in [Cards -> BOOLEAN]
    /\ devs \in [Slots -> Cards \cup {Nobody}]
    /\ hand \in [Cards -> {"out", "in", "deck"}]
    /\ open \in SUBSET Cards /\ deckopen \in SUBSET Cards

\* Whichever piece a probe failed at, and however a card went, nothing of it is
\* left: no piece held, no place in the table of deck devices; and the driver
\* leaves no class behind when it is unloaded (aja.c:2507-2519, 2525-2549).
CardsLeaveNothing ==
    /\ \A c \in Cards : at[c] = "absent" => held[c] = {} /\ \A s \in Slots : devs[s] # c
    /\ module = "out" => globals = {} /\ \A c \in Cards : held[c] = {}

\* What is used is there: the handler's card and registers always; what only
\* bad luck takes away, otherwise (aja.c:2525-2549).
CardsUsedLive ==
    \A c \in Cards :
        /\ hand[c] # "out" => {"card", "map", "irq"} \subseteq held[c]
        /\ hand[c] = "deck" => "slot" \in held[c] \/ "late" \in unlucky
        /\ c \in open => {"card", "map"} \subseteq held[c] \/ "unbind" \in unlucky
        /\ c \in open => "lists" \in held[c] \/ unlucky \cap {"unbind", "lists"} # {}
        /\ c \in deckopen => "slot" \in held[c] \/ "deck" \in unlucky
        /\ {"node", "cdev"} \cap held[c] # {} => {"class", "driver"} \subseteq globals

\* No two cards have the same device number, although cards come and go and
\* probes fail: aja_cards counts up only, and only successes (aja.c:755, 2449, 2494).
NumbersDistinct ==
    "together" \notin unlucky =>
        \A c, d \in Cards :
            (c # d /\ {"card"} \subseteq held[c] \cap held[d]) => index[c] # index[d]
=============================================================================
