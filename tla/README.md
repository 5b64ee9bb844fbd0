# A verification development for the SpectSoft RaveHD drivers

This directory holds TLA+ models of the Linux kernel modules in this repository, the TLC configurations that check
them on small instances, and theorems that TLAPS proves for instances of every size. Paths such as `aja.c:1351` are
files of `src/src/`.

The repository is three drivers that together make a disk recorder look like a video tape recorder:

* `aja.c` drives AJA video boards: it plays and captures video frame by frame from pages of the card's memory,
  moves data by DMA, and runs the RS-422 UART of the card;
* `p2slave_main.c` implements the device side of the Sony 9-pin (P2) machine control protocol on that UART;
* `pcitc_main.c` and `tcio.c` drive Adrienne LTC timecode boards and present them as timecode devices.

## 1. Inventory

### Components, state, operations

| component | state | operations | hard because |
|---|---|---|---|
| video stream: pages and frames (`aja.c:1322-1439, 1563-1582, 1864-2076`) | `pagealloc[]` (inuse, next, prev), list ends, FIFO level, `last[]` per channel, speed counter | allocate, free, push, pop, set metadata, set speed, STREAM_INIT; in the interrupt: free up, play (with bumping, "TSO"), capture | the handler and the client's ioctls run on two processors and share only short locked sections; a frame takes several of them |
| stream control (`aja.c:1283-1290, 1441-1531, 1611-1625, 2034-2107, 2290-2310`) | frame id, owner, trigger, running, atrig, generator and audio bits | start, stop, set trigger, wait for a frame, close; in the interrupt: count, start at the trigger, start the audio, wake | nothing is locked; several processes and the handler store the same fields |
| DMA (`aja.c:858-1086, 2155-2184`) | engine mutexes, go bits, lists, pinned pages, wait queue | transfer; interrupt; timeout; signal; interrupts off | a call sleeps while hardware uses its pages; four events end the sleep |
| P2 packet machine (`aja.c:1762-1862, 2219-2260`) | input and output packet, Rx/Tx state, reset flag, timestamp | receive, transmit, acknowledge, time out at an audio wrap | bytes arrive singly, interrupts are latches, lines lose bytes |
| P2 protocol (`p2slave_main.c:100-465`) | the data of the deck | check, answer, pass on | some sixty cases with sizes and checksums of their own |
| P2 packet ring (`p2slave_main.c:213-228, 507-560`) | ring, two pointers, opens, wait queue | push in the interrupt; open, read, poll, close | no lock between interrupt and reader |
| LTC card (`pcitc_main.c:69-740`) | registers and mailbox of the card, `cfps` | read, write, run, sync, probe, remove | no lock; the card changes registers by itself; timeouts and late answers |
| timecode devices (`tcio.c`, `pcitc_main.c:108-133, 225-313, 668-800`) | table of devices, sysfs files, the pieces of each card | register, unregister, find, dispatch; load and unload | readers come and go around removal; every piece may fail |
| registers and flags (`aja.c:462-533, 657-700, 1674-1679`) | the card's registers, which several write bit by bit; `spin_reg` | prset, prget, irqset, IRQENABLE, open, setflags, clrflags | read-modify-write by processes and handler, of registers the card changes by itself |
| interrupt service and irqsleep (`aja.c:454-460, 1252-1310, 2132-2284`) | interrupt counts, frame id, wait queues | count, serve, clear, wake; irqsleep; wait for a frame | one of the two wait loops looks before it declares itself asleep |
| firmware loader (`aja.c:1088-1216`) | firmware id, firmware in the card | erase, upload, reset, three waits | the card must be quiet while it is programmed; each wait may run out |
| audio (`aja.c:542-559, 1681-1690, 2116-2127`) | count of frames, running | add; count down, start, stop | looking, counting down and stopping are steps of their own |
| timecode generator (`aja.c:584-722, 2076-2099`) | generator bits | run, copy | its link to the LTC card needs a symbol no module exports |
| probe, remove, init, exit (`aja.c:742-855, 2363-2670`, `p2slave_main.c:470-505, 619-708`) | pieces of a card, its number, the table of decks, open files | take piece by piece, undo, give back; load and unload | every piece may fail; handler and open files use the card while it goes |
| mmap, LUTs, register tables, headers | none that changes, but for the layout of shared registers | | |

### Interaction

The card interrupts. `aja_irq_service` looks at every source in turn: the frame (`aja_handle_frame`, which works on
the stream, the trigger and the waiting processes), the DMA engines, the UART (which calls `p2slave_handle_pkt`, which
pushes into the packet ring) and the audio wrap (which times packets out). Processes come in by ioctl, read and poll.
Handler and process exclude one another only where the code takes `spin_reg`. The old kernels this code is for hold
one lock around every `.ioctl`, which a process gives up while it sleeps, but not around `release`; `StreamControl`
models that lock (`OthersInIoctl`), `StreamPages` has one client.

### What makes them correct

Pages: each is in one place, none is lost, the list and the level agree, frames go out whole and in channel order, a
queued frame plays. Control: a trigger fires, clock and audio follow the stream, nothing outlives its owner, nobody
sleeps through a frame. DMA: the engine runs on pinned pages, success means that the data moved, no other memory is touched, every call ends.
P2: answers are well formed and right, damaged commands are refused, every command reaches user space once, the slave
keeps listening. Ring: first in, first out. LTC: readings are whole, success means done. Registers: an engine's bit is written
by its own user only, enables are what was asked for. Loader: nothing runs while the card is programmed, the id reported is that of the firmware in it. Sleepers: the next
interrupt wakes, no frame is missed. Audio: what was added is heard. Cards and devices: nothing is left of what is gone, what is used is there,
numbers are distinct.
`PROJECT.json` lists the hazards behind these at the lines where they bite.

## 2. Modules

| module | models | uses |
|---|---|---|
| `PageFifo` | abstract: the cycle of owners of a page and the queue | |
| `StreamPages` | pages, FIFO and frame handler | refines `PageFifo` |
| `StreamPagesProofs` | theorems about `StreamPages`: types, ends, places | |
| `StreamFramesProofs` | theorems about `StreamPages`: pages, level, frames, refinement | `StreamPagesProofs` |
| `StreamControl`, `StreamControlProofs` | starting, stopping, trigger, close; theorems | |
| `DmaList` | the scatter-gather list as functions of the buffer | |
| `DmaEngine`, `DmaEngineProofs` | `aja_dma`, interrupt, timeout; theorems | `DmaList` |
| `SlaveProtocol` | `p2slave_handle_pkt` as functions | |
| `SlaveRequests` | every command, whole and garbled, put to them while the packet machine rests; theorem in `SlaveLinkProofs` | `SlaveLink` |
| `SlaveLink`, `SlaveLinkProofs` | UART, packet machine, line, controller; theorems | `SlaveProtocol` |
| `PacketQueue` | abstract: the queue of packets | |
| `SlaveBuffer`, `SlaveBufferProofs` | the ring and its file operations; theorems | refines `PacketQueue` |
| `TimecodeCard` | LTC card, its callers, registration, removal | |
| `TimecodeDevices` | modules, table of devices, the pieces of LTC cards | |
| `Timecode`, `TimecodeCardProofs` | the two above; theorems | `TimecodeCard`, `TimecodeDevices` |
| `RegisterMap` | the fields of shared registers, and the list registers of the DMA engines | |
| `CardRegisters` | register writes of ioctls, transfers, loader and handler | `RegisterMap` |
| `IrqSleep` | counts of interrupts and the two waits | |
| `AudioFrames` | counted playback | |
| `CardLifecycle` | probe, removal, deck devices, both modules, handler and files | |
| `CardServices` | the four above, of one driver | `CardRegisters`, `IrqSleep`, `AudioFrames`, `CardLifecycle` |
| `CardServicesProofs` | theorems about it | `CardServices` |
| `MC...` | the constants of the runs | |

How state and actions correspond to code:

* **StreamPages.** `inuse`, `next`, `prev`, `pfirst`, `plast`, `fifo`, `lastType/lastPage`, `spdct` and so on are the
  fields of `aja_stream_t`. An action of the handler is one section locked by `spin_reg`, or one access to an unlocked
  field, with the code up to the next one: `FrameIrq`, `Freeup`, `PlaybackDrop`, `BumpPop`, `LoadFrame`, `FillFrame`, ...
  An action of the client is one ioctl, or one step of one that sleeps (`StreamStart`, `FrameSeen`, `WaitFails`).
  `fq` and `held` are history: what was queued, and what the client was given.
* **StreamControl.** A step is a few stores that nobody else looks at in between: `at[p]` and `hpc` are places in the
  code. A step that waits for the next frame is `arm`, `look`, `asleep`.
* **DmaEngine.** `TakeEngine` is the row of `down_trylock`, `InitDone`/`InitFails` the pinning and mapping, then
  program, check, sleep (which an interrupt, a signal or the timeout ends) and clean up. The list that is programmed is
  computed by `DmaList`, with its merging, from the page table of the process. The engine is external.
* **SlaveProtocol, SlaveLink.** Packets are sequences of bytes with the real sizes and checksums, since the properties are
  about them. `SlaveLink` has an action for every branch of the handler (receive, transmit, acknowledge, audio wrap);
  the chip, the line and the controller are external.
* **SlaveBuffer.** The loads and stores of the ring are steps: the test of the write pointer and the copy of a slot in a read (544, 547), the load of the write pointer, the packet and the
  store of the pointer in a push (216, 219, 224). A copy of a slot that is being stored to may be `Torn`. Only the comparison of the two pointers in the empty test (537) is one step, and so is what open
  resets. Packets are numbers.
* **TimecodeCard.** Every register access is a step on PCI and two (post the word, fetch the answer) on PCIe. A call is a
  script of register writes and mailbox commands; mailbox, generator and incoming timecode are external.
* **TimecodeDevices, CardLifecycle.** What a probe takes is a row of pieces (`TakeNext`); taking one, failing at one (`UndoFirst`, `UndoNext`),
  giving one back (`RemoveNext`, `DropNext`) are steps, and `held[c]` is what a card has. The loops over cards of `pci_register_driver` and
  `pci_unregister_driver`, and binding by hand, are the kernel's. `hand[c]` is the interrupt handler on its way to the deck, `open` and `deckopen` are files;
  `reading` and `found` are users of timecode devices.
* **CardRegisters.** `PrsetRead` and `PrsetWrite` are the two halves of `aja_prset` under `spin_reg`; a call puts the writes it makes into `writes[u]` and goes on when they are
  done (`Wrote`). `reg` holds the bits of registers 20, 48 and 49, `latched` the pending interrupts; a write of an `irqclear` bit clears them. An engine that ends
  clears its bit of register 48 without any lock. `bkl` is the lock around ioctls, given up in the sleep of a transfer. `AcapStart` is the ioctl that starts an audio capture, of which the model has
  the write to register 49 (the enable of DMA 3's interrupt); the handler makes the same write when a triggered capture begins with a frame (`AtFrame`), and holds no `bkl`. Histories: `ended` (engines that
  ended between the reading and the writing of a register), `asked` (the last completed `aja_irqset`) and `capture` (who started a capture since the interrupt of DMA 3 was last switched off).
* **IrqSleep.** Looking at the count, declaring oneself asleep and sleeping are steps, in the order of `aja_ioctl_irqsleep` (look, declare, sleep) or of the kernel's
  `wait_event` (declare, look, sleep). The handler counts and then wakes.
* **AudioFrames.** `Begin` looks at the count and at `running`; `CountDown`, `Stop` and `Start` follow; `Add` comes at any time.
* **CardServices.** The four parts share no state of the driver, and so a behaviour has one of them move (`which`); the theorems are about this module. For the same reason
  `Timecode` has the devices beside the card. This is a way of putting independent
  questions into one run, not a composition: where parts do share state, one module has both (handler and ioctls in `StreamPages` and `StreamControl`, UART,
  packet machine and protocol in `SlaveLink`, registration and readers in `TimecodeCard`, ioctls, transfers, loader and handler in `CardRegisters`).

### What the code leaves to luck, and how the models say so

Several properties hold only of a well-behaved client or a kind schedule. Nothing of this is assumed silently: the
model contains the bad behaviour, and a constant or a variable names it, so that a property can say which of it it needs
absent.

| module | name | kinds |
|---|---|---|
| `StreamPages` | constant `Freedoms` | `anyPage` free or queue a page not held; `anyRole` pop from a playback queue; `anyChan`; `emptyPop`; `anyInit` initialise a running stream |
| `StreamControl` | variable `taken` | `midFrame` ioctl and handler stores mix; `anyTime`; `orphan` |
| `DmaEngine` | variable `unlucky` | `signal`, `irqoff`, `fault` |
| `SlaveBuffer` | constant `Fortunes`, variable `unlucky` | `overflow`; `sharing` the device is open more than once; `openMeanwhile` an open falls into a push or into another's read |
| `SlaveLink` | variable `manner` | `racing` the chip moves between service and acknowledgement of an interrupt; `slow` an exchange may take three wraps of the audio buffer; `prompt` neither |
| `TimecodeCard` | constant `Freedoms`, variable `unlucky` | `bus`, `slow`, `overlap` |
| `TimecodeDevices` | constant `Freedoms`, variable `unlucky` | `map` the ports of a card cannot be mapped; `stale` a device that `tcio_find` gave out is unregistered |
| `AudioFrames` | variable `careless` | a program takes frames back with a negative number, or starts and stops playback itself |
| `CardLifecycle` | constant `Freedoms`, variable `unlucky` | `early` class or numbers cannot be had, and a driver that was never registered is unregistered; `lists` no DMA list; `together` two probes at once; `late` the handler runs for a card being removed; `unbind` removal under an open file; `deck` removal under an open deck device |

## 3. Runs

| run | checks | shows |
|---|---|---|
| `stream_pages` | `ListIsQueue`, `OnePlace`, `NoPageLost`, `LevelExact`, `FramesInStep`, `ImplementsPageFifo` | two channels, playback and capture one after the other, half and normal speed, frames that cannot be stored, careful client |
| `stream_live` | `QueuedFramePlays` | one channel at half and full speed under fairness |
| `stream_careless` | `EndsAgree` | what is left when the client does anything at all |
| `stream_tso_leak` | `NoPageLost` is **violated** | above normal speed the pages bumped over are never freed |
| `stream_control` | `TriggerAhead`, `FollowStream`, `NoOrphan`, `SleepersUpToDate` | two processes around the frame interrupt |
| `dma_transfer` | `PinnedWhileRunning`, `SuccessMovedAll`, `OnlyItsBuffer`, `CallEnds` | two processes, one engine, buffers over five pages, one of them not in whole words, every mishap |
| `dma_signal` | `RunsOnPinnedPages` is **violated** | a signal unpins the pages of a running engine and reports success |
| `slave_requests` | `OneGoodAnswer` | each command, and each with every wrong byte |
| `slave_buffer` | `InOrderButOneRound`, `AtMostTwice`, `ImplementsPacketQueue`, `SleeperWakes` | two readers, one after the other or side by side, against the interrupt, wrap-around, failing copies, overrun |
| `slave_link` | `InputBounded`, `AnswerRight`, `PassedOnOnce`, `AnswerComes`, `ListensAgain` | a faulty line, small FIFOs, racing interrupts |
| `timecode_card` | `OneReading`, `SuccessTookEffect`, `MappedWhileUsed`, `DevicesLeaveNothing`, `DevicesUsedLive` | reader and writer, timeouts and late answers, failing registration, removal; two cards and the test device from load to unload |
| `card_services` | `EnginesOwnTheirBits`, `EnablesAsAsked`, `LoadsCleanly`, `NextInterruptWakes`, `NoFrameMissed`, `PlaysWhatWasAdded`, `CardsLeaveNothing`, `CardsUsedLive`, `NumbersDistinct` | register writers side by side; a sleeper; counted sound; two cards from load to unload |

`FramesInStep` says that frames go out whole and with their channels in order, `FollowStream` that clock and sound follow the stream. `TypeOK` of `StreamPages` is
proved for every instance; those of the other modules say what the variables hold, and no run spends time on them.

### Bounds

* Streams: three pages (two channels need two for a frame; the third makes the list longer than a frame and lets
  allocation, queue and card all hold pages at once); `Divisor` is 2, so speed 1 is half speed, 2 normal, 4 double:
  below one, one and above one frame in an interval are the three cases of the division. The careless client has one page,
  which is enough to make both ends of the list disagree (a page pushed twice), negative speeds and standstill. `Slack` bounds the
  level, which a careless client moves beyond both ends.
* Control: three frames (`MaxId`) and triggers up to two frames ahead: a trigger for the next frame, one beyond it, and time
  for stop or close to overtake either. Two processes, symmetric.
* DMA: pages of two words, at most five in a list, largest entry two pages: buffers that start in the middle of a page,
  merge, stop merging at the limit and at a gap, or are refused; one begins and ends within a word, so that
  each of its pages leaves bytes out. One engine for two processes, so that they collide.
* Link: a receive FIFO of three bytes and a transmit FIFO of two, both smaller than a packet, so that every packet takes
  several interrupts; one fault. The deck changes between two states while an answer is on its way.
* Ring: three slots, hence two packets before it is full, and six packets, so the pointers go round twice: no bad luck, overflow alone and with two readers, and opens in between (`Cases`; the theorems are about all). Two readers: with three, the third would meet what the two do to each other (theorem: any number).
* LTC: two callers, a validation byte of two values that comes round within three frames, two tries; one bus failure; rates 24 (known, and
  different from the first setup) and 60 (unknown). The run leaves `overlap` out, since no property of a reading survives it and the states
  multiply. A reading is assumed to take less time than the validation byte needs to come round (256 frames in the code).
* Devices: a PCI and a PCIe LTC card and tcio's test device in a table of three; the run reaches every piece failing, and the readers around every removal.
* Registers: two processes, one of which loads firmware, switches interrupts and starts captures, while the other opens, transfers and may time out; three engines; one kind of
  other interrupt, that of the output, with which the handler may start a capture. One process beside the loader is enough for every pair of writers; the theorem is for any number.
* Sleeps: one sleeper, for it does not meet others (theorem: any number), three interrupts of each of two types: one missed, one that wakes, one more. Audio: five frames added.
* Cards: two cards, one place for a deck, so that one card has none; `MaxCards` is the number of cards that get a number.

Symmetry is used in the safety runs whose properties treat processes or cards alike (`stream_control`, `timecode_card`, `card_services`), not where liveness is checked.

### Fairness

* `stream_live`: the card interrupts at every frame, and a handler that began runs to its end. Nothing is assumed of the client.
* `slave_buffer`: a push that began ends, a process that can run does.
* `slave_link`: the audio buffer goes round for ever, as it does once the card's interrupts are on (strong fairness, since the branch waits for its turn in the handler);
  unless the behaviour is `racing`, latched interrupts are served and bytes move. With races an interrupt may be lost for good, and
  only `ListensAgain` is claimed. `AnswerComes` is for `prompt` behaviours: in the others the packet timeout may end any exchange.
* `dma_transfer`: processes run and time passes (the wait has a timeout). Nothing is assumed of the engine, which may hang.

## 4. Proofs

`StreamPagesProofs` proves, for every number of pages, all parameters of a stream, all speeds and any channel order:

* `TypeCorrect`, `EndsAlwaysAgree`, `PaceAlwaysBounded` (`PaceBounded`, which no run spends time on: an interval is never worth more than the maximum) for **any** client. `TypeOK` is inductive, one lemma for each action;
  `EndsAgree` is inductive with it; the pace follows from `TypeOK` and the division lemma.
* `PagesInOnePlace` and `ListAlwaysQueue` for clients without `anyPage` and `anyInit` (`Disciplined`). Neither is inductive. `PlacesInv`
  adds to them that no page is queued twice, and what the handler knows at each of its places: when the master channel's page
  is still the one shown, which channels have already been loaded in this frame, that a captured page is nobody's until it is pushed.
  `RunPhases` and `CardPhases` hold this knowledge. The heart is `PushQueue` and `PopQueue`: the pointer updates of
  `aja.c:1381-1439` do to the linked list what `Append` and `Tail` do to a sequence.

`StreamFramesProofs` adds to these, for a client that is `Orderly`: disciplined, with channels and roles as the stream was initialised, and speeds up to normal. Above normal speed
`NoPageLost` is false (run `stream_tso_leak`), and so the bound on the speed is not one of the proof.

* `NoPageEverLost`, `FramesStayInStep`, and `LevelAlwaysExact` if the client does not pop an empty queue either. `FramesInv` adds to `PlacesInv` that an interval is worth at most one frame (`Paced`), that what the
  handler decided on when it began a frame is still so while it works (`Working`: what is queued of the frame, who owns its pages), the level (`Levelled`), and which channel the next page
  in the queue is of (`InTurn`).
* `StreamImplementsPageFifo`: every step is one of `PageFifo`, or a stutter, also of a client that polls by popping the empty queue (`emptyPop`), which `stream_pages` does not do. One lemma for each action; the owner of a page in `PageFifo` is read off the places of `PlacesInv`.

`DmaEngineProofs` proves for any number of processes, engines and requests, all mishaps included:

* `EngineHasOneOwner`: no two calls use the same engine.
* `RunningPagesPinned`: without signals an engine runs on pinned pages. The invariant says who holds an engine (`Holds`), when the
  pages of a call are pinned (`Pinned`) and that an engine that runs is awaited by its owner (`Awaited`). `Awaited` is what a
  signal breaks, and so the proof shows that the signal is the only thing that can.
* `SuccessMeansMoved`: a call that succeeds without signals and interrupts switched off, of a buffer that begins with a whole word, has moved every word of it and no other. The list comes from `DmaList` as functions of the
  number of the page, about which set induction proves that the entries cover the pages in order (no operator is a parameter there). `MoveInv` says what an engine has moved and what is left of its list.
* `EngineStaysInBuffer`: for every address and length, and whatever ends the call, an engine moves only bytes of the buffer it works for, each to its own place. `AccFits` says this of the list
  after each piece, `LastFits` that what the pieces of the last entry left out lies before the end that the next one is compared with, so that merging never reaches too far; `Fitting` carries it to the engines. The engine, which is
  external, is taken to use the addresses and counts of its list as they are; an entry of count 0 (a piece shorter than a word) moves nothing.

`StreamControlProofs`, for any number of processes and frames:

* `NobodySleepsThrough` (`Sleepers`: a process that has looked and not yet slept will be woken by the count that it did not see).
* `TriggerStaysAhead`: `Ahead` adds what the handler's copy of the trigger is worth at each of its places.
* `StreamEndsWithOwner`: `Owned` says that only the owner starts or sets triggers and that one who closes leaves a stream that neither runs nor is to run.
* `ClockAndSoundFollow`: the starts and stops under way are named (`ClockFollows`, `SoundFollows`), and that who starts stores alone (`Alone`). All but the first
  are for behaviours without the liberties they name.

`SlaveBufferProofs`, for a ring of any size and any number of readers:

* `PacketsReadInRound`. The packets stored since the open lie in the ring by age, counted back from the slot stored to last (`Aged`), so that any of them is among the last `Size`. What a reader is about to copy has
  been stored to since the open, for the write pointer has come past it (`Round`). So a copy is less than a round older than the last packet stored, and hence than whatever was read before.
* `NoPacketSeenThrice`. A packet is seen early when its slot is stored to between a reader's test and its copy, and again in its turn. `Calm` says that what lies in front of a pointer was not read twice yet, nor the packet
  in the slot that the write pointer is about to leave; `CalmAll`, of a reader whose slot the write pointer has come round to, that nothing in the ring was.
* `RingIsQueue`: as long as nothing unlucky happens, the ring implements `PacketQueue`. What waits is `Span`, the slots from the read pointer to the write pointer; a push makes it longer by one, a read
  takes a beginning of it, and an open empties it (`QueueInv`). A reader that copies is then never at the write pointer, and so what it copies is whole.

`SlaveLinkProofs`, for every set of requests, every deck, every size of the two FIFOs and all faults:

* `InputStaysBounded`: the packet under way never outgrows the longest command.
* `AnswersAreRight` and `ExchangePassesOnOnce`: in an undisturbed exchange what the controller has heard is a beginning of the reply to what it asked, of the deck as it was asked, and the command is in the queue once and before the answer is. `LinkInv`
  says where the bytes of the exchange are: on the line, in a FIFO, in the packet, heard, and that put together they are the request or the reply. Tables of sizes are proved from the code's cases.
* `AnswersAreGood`, about `SlaveRequests`: every answer ends in its checksum, and one wrong byte anywhere makes the slave refuse a packet. The checksum is a fold over the bytes of a packet; `SomeAddsUp` shows, by
  induction over the set of numbers for which it holds (no operator is a parameter), that the function it chooses exists, `SumIsLast` that it is the sum byte by byte, and `OneByteCounts` that two packets
  which differ in one byte have different sums (from there on the sums stay apart, modulo 256).

`TimecodeCardProofs`, for any number of callers, both buses and all mishaps:

* `MappedWhenTouched`: a probe or a removal is alone with the card, and until the card is registered, or once its readers are drained, nobody can read (`Attached`).
* `ReadingsAreOneFrame` for any size of the validation byte: a reading in progress knows between which frames it is (`Consistent`); `SameByteSameFrame` says that two numbers less than the
  byte's size apart are the same when the bytes are. It uses `MappedWhenTouched`'s invariant: on PCIe a caller is alone (`Solo`).
* `SuccessIsDone`, on a bus that does not fail and for callers who are not in each other's way: a command left in the mailbox by a caller that gave up is done before the next one is posted, and the wait for an empty mailbox makes up
  for an answer that was the earlier one's. `EState` says, for the place a caller is at, what is left of its script (`Rest`), whether the card has done the step (`Sending`), what the registers hold (`Loading`), and
  between setups that the driver knows the rate of the card (`RateKnown`).
* `GoneLeavesNothing` and `UsersFindDevices`, for any number of cards and places in the table: as for the AJA cards below, the step a device is at bounds what it holds from above and from below (`DevInv`).

`CardServicesProofs`, for any number of processes, sleepers, interrupts, frames of sound, cards and places for decks:

* `NextInterruptAlwaysWakes` and `NoFrameEverMissed`: what each loop knows when it has declared itself asleep, or has looked.
* `SoundIsCounted` (`Accounts`: what was heard, is counted and is on its way makes up what was added).
* `EnginesStayApart`. What a user is about to write fits what it is doing (`Fitting`); one user is between reading and writing, and what it has read of register 48 is still true,
  but for the engines that have ended by themselves since (`Window`, `ended`). `ListRegistersApart` (a lemma) says that the registers from which the engines take their lists do not overlap.
* `EnablesFollow` and `LoadsAreClean`. `LoadInv` says that one process holds the lock of the ioctls (`OneHolder`), that what lies between reading and writing is still what the register holds, but for
  the bits being written (`Fresh`), that clearing an interrupt leaves no bit (`Narrow`), that every write of `aja_irqset` is done or still to come, but for the one that the handler undoes when it starts a capture (`Setting`), that the interrupt of DMA 3 stays enabled once a capture was started (`Captured`), that only that one can be enabled while firmware goes in (`Quiet`), and that the id
  is that of the firmware in the card but between a load and its reset (`Known`).
* `NothingIsLeft` (`AtMost`: what a card can hold at each step of taking, undoing and giving back), `UsedIsThere` (with `AtLeast` and
  what the handler and the files of a card imply) and `NumbersAreDistinct` (a card that is there has a number below the count of cards, or is the only one coming).

Assumptions are the named `ASSUME`s of the modules: positive counts, a null pointer that is no page, parameters of the types the
ioctls have, pages of whole words, commands and decks of bytes, an interrupt handler that is no process, and a mark for "nobody" that is no process and no card. One hypothesis is in the statements:
`Orderly` in `StreamFramesProofs`.

Model-checked only: everything about time (`QueuedFramePlays`, `CallEnds`, `AnswerComes`, `ListensAgain`, `SleeperWakes`), because
liveness under fairness is out of the prover's reach. Every other property of a passing run is a theorem.

## 5. Disagreements met

Two have runs of their own (`stream_tso_leak`, `dma_signal`). The others, met while modelling, are in the models as behaviour:

* A TSO bump can leave less than a frame queued and the next one is loaded without a new test: half a frame or none goes out, uncounted
  (`aja.c:1943-1966`; `aja_ioctls.h:295` calls the counter "Number of dropped frames"). Captured frames for which no page is free are not counted either.
* Below half speed the page shown is freed while it is shown (`aja.c:1884`).
* Popping an empty FIFO makes the level negative (`aja.c:1429`).
* A trigger set between the handler's look at it and the count is passed over for ever (`aja.c:2037`); a stop that
  returns early from its wait leaves the handler to start the stream, or its audio, afterwards; STREAM_INIT of a running stream leaves clock and audio on; a second
  start restarts the audio; a trigger outlives its owner's close.
* A DMA whose initialisation fails leaves pages pinned; switching interrupts off stops engines, whose users time out or take it for success; `dmainfo.engine`
  is documented as "DMA Engine to use" (`aja_ioctls.h:204`) and ignored; buffers and lengths that are no multiple of four lose bytes.
* The comment on `usersend` (`p2slave_main.c:276`) says the opposite of the code at 461.
* When packets come faster than they are read, the slot under the reader is stored to between test and copy (`p2slave_main.c:544`, 547): a read brings packets out of order, twice, or half of one and half of another.
* Two readers of one P2 slave can both pass the empty test: one returns 0 bytes or both the same packets. The slower one stores an old read pointer: packets come again, packets are lost in a ring that was never full
  (once the write pointer has reached the old place), and a reader sleeps on packets that were put back (`p2slave_main.c:537-552`). An open during a push or another's read shows old packets again.
* A packet interrupt that comes between service and acknowledgement is lost; the audio wrap recovers the slave.
* A failed read on the PCIe timecode card is taken for the value 0, also by both validation bytes; two callers of that card take one another's data;
  a setup that fails half way leaves `cfps` with the old rate, so that a later write succeeds at the wrong one.
* `tcio_register` and the P2 slave's registration call `cdev_del` on a device that was never initialised when an early step fails.
* `aja.c` looks for `pcitc_register`, which no module exports: its link to the LTC card is dead code.
* `irqsleep` looks at the count and then declares itself asleep (`aja.c:1267-1270`): an interrupt in between is waited for until the next one comes. The copying back of the flags ioctls does not match their names (673-685).
* Starting a capture enables the interrupt of DMA 3 (`aja.c:564`), also after IRQENABLE 0, and also while the card is programmed when it is the handler that starts it (2066-2068): nothing takes that back but the next `aja_irqset`.
  `EnablesAsAsked` and `LoadsCleanly` say that this is the only exception.
* An engine that ends while another's go bit is being written is set going again by what was read before (`aja.c:480-483`).
* `aja_prset` shifts a value without masking it, so IRQENABLE with a value above 1 writes other bits (`aja.c:482`, 1677).
* A negative AFRAME_ADD makes the count negative, and the sound endless (`aja.c:1684`).
* A DMA list that cannot be had is only logged, and the card goes on without (`aja.c:780`); a class that cannot be created, or one list of numbers, makes `aja_init` unregister a driver it never registered,
  and the former returns success (`aja.c:2611-2614`). 255 device numbers are taken and 256 given back (2620, 2583).
* The deck device of a removed card is freed under an open file of it, and a handler that is still running may use it (`aja.c:2532-2533`).
* The LTC probe's failure path disables the PCI device also when it could not be enabled (`pcitc_main.c:729`), and a card whose ports cannot be mapped keeps its I/O region (118-133).

## 6. Not modelled, and why

* Look-up tables, `SETREGISTER` and the register reads: single accesses on behalf of one caller, who says what is written. The flags ioctls of the generator copy in the wrong direction.
* Timecode generator: its start and stop are in `StreamControl`; the rest copies registers, and its link to the LTC card is dead.
* Audio capture but for its write to a register that others write (`CardRegisters`), and the positions: accesses of registers of their own. Audio data passes the driver only as DMA and mmap.
* mmap and the sysfs files of the AJA card: addresses and numbers handed to the kernel.
* Register tables: `RegisterMap` has what several write, and the DMA engines' list registers; the rest of the 2000 constants, the strings that name them, the generator that writes them
  and the headers for kernel versions have no behaviour. They are more than a third of the lines of the repository.
* From 2.6.27 on `open` no longer takes the big kernel lock; an open in the middle of a firmware load would then switch the interrupts on. `CardRegisters` is the driver up to 2.6.26,
  for which most of the code is written.
* Within the modelled parts: message texts, frame buffer addresses, the 64-bit registers and direction of DMA, the reset sequence of the PCIe timecode controller, wire formats of timecodes.

## 7. Plan

1. Done: stream pages and control, DMA, P2 protocol, link and ring, LTC card and timecode devices, registers and loader, sleeps, audio, lifecycle of cards;
   inductive invariants of all of it, and both refinements.
2. Left to prove: the lemmas that the compositions of item 3 will need.
3. Left to compose: `SlaveLink` with `SlaveBuffer` (a packet reaches user space before its answer is on the line), and `StreamControl` with `StreamPages` (a frame is played only while the stream
   runs), on smaller bounds.
4. Left to model: `overlap` of two callers of a PCIe timecode card, once a property of it is worth stating.
