# The gateway of fiitap in TLA+

fiitap is a LoRa@FIIT gateway: a packet converter between end devices (over an
SX1301 concentrator) and the STIOT server (JSON over TLS). This directory
models its core in TLA+, checks it with TLC and proves part of it with TLAPS.

Contents: 1 inventory, 2 modules, 3 runs and bounds, 4 fairness, 5 proofs,
6 disagreements found, 7 abstractions, 8 not modelled, 9 plan.

Paths are relative to the repository: `MessageConverter.cpp` and its
neighbours are in `PacketConverter/src`, `loragw_*.c` in
`lora_gateway/libloragw/src`.

## 1. Inventory

| Component | State | Operations | Talks to |
|---|---|---|---|
| `DevicesTable` | map of `EndDevice` (session key, DH half, check flag, radio settings, timer), three air-time counters | queries, `addDevice`, `updateDevice`, `setSessionkey`, `setSessionKeyCheck`, `setPacket`, `reduceDutyCycle`, `updateByTimer` | called by the three converter threads; one static mutex, not taken by `resetDutyCycle`, and pointers leave it |
| `MessageConverter` | two queues, cache `oldData`, run flags | `fromLora`, `fromStiot`, `timerFunction`, `addBulk`, `addToQueue`, `stop`, `join` | table, connection, concentrator |
| `ConcentratorController` | downlink queue, two run flags, two `std::thread`s | `startConcentrator`, `stop`, `join`, `processStiot`, `receiveHal`, `sendHal` | libloragw, converter |
| `ConnectionController` | queue to the server, TLS socket | `send`, `process`, `start`, `stop` | server, converter |
| `MainApp` | signal handler | `shutDown`, `main` | stops and joins all others |
| `Message`, `Encryption`, `DiffieHellman`, `base64.h`, `json.hpp` | none | frame and JSON codec, block cipher, key agreement | converter, connection |
| libloragw HAL | static configuration, `lgw_is_started`; the chip behind it | `lgw_*_setconf`, `lgw_start`, `lgw_stop`, `lgw_receive`, `lgw_send`, `lgw_status` | registers, SPI |
| GPS (`loragw_gps.c`) | the last fix with its validity flags, two aberration flags; the client keeps the reference | `lgw_gps_enable`, `lgw_parse_nmea`, `lgw_gps_get`, `lgw_gps_sync`, `lgw_cnt2utc`, `lgw_utc2cnt` | a serial line; not used by the gateway |
| tools (`util_*`) | what each `main` keeps | packet logger, transmission test, continuous transmission, SPI stress test | libloragw, its registers, SPI |
| registers, SPI | SPI handle, the page believed selected (`lgw_regpage`); no mutex | `lgw_connect`, `lgw_disconnect`, `lgw_soft_reset`, reads and writes | called by three threads; the chip's page and bytes |

The threads: `fromLora`, `fromStiot` and the timer of the converter; the
receiving and the sending thread of the concentrator; the connection's thread;
`main`. The signal handler runs on whichever thread the signal reaches.

A registration: a device sends its DH half (REGISTER_UP), the gateway adds the
device and sends REGR, the server answers REGA, the gateway computes the key and
transmits its own half. A data frame is decrypted, its MIC checked, and
forwarded as RXL; the first frame under a key also makes the gateway deposit
the key with the server (KEYS). A frame without a key is cached while KEYR asks
the server, whose KEYA brings the key back, after a restart of the gateway for
example. TXL is a downlink. SETA configures and (re)starts the concentrator.

What is hard: keys and entries change under a thread that has just looked at
them; notifications race with tests of flags and queues; restarts lose all
memory; counters are refilled without the mutex; start, stop and join interleave
on three mutexes; the library's calls come in any order around a chip with a
memory of its own. `PROJECT.json` lists each hazard at its line, with the
properties that watch it or the reason none does.

What makes each component correct:

- converter: no frame is lost or doubled inside; cached frames are served when
  their key comes; a key counted as checked is recoverable after a restart;
  answers of the server find their device; keys are dereferenced only while
  they exist;
- work queues: no wake-up is lost, items come out once and in order, a stop ends
  the consumer;
- concentrator: downlinks in order, none over another, restart and exit work;
- connection: messages to the server leave once and in order, those of the server
  arrive whole, and what must end ends;
- counters: approved air time stays within the budget;
- codecs: what one side has made the other gets back, and what the line has
  garbled is refused;
- channel plan: a started concentrator listens on its plan and on nothing else;
- library: packets are reported on the channel they came in on, transmissions
  use calibrated radios, tables are valid;
- registers: an access reaches the page it means, a register keeps its value;
- GPS: a time is of one good fix, and the reference follows the fixes but not a
  wrong one;
- tools: they log, send and report what they say.

## 2. Modules

Threads, with a module that has them all as actions:

| Module | Models | State and grain |
|---|---|---|
| `DevicesTable` | `DevicesTable.cpp`: keys, entries, sequence numbers, flush | pure operators on a map `Device -> EndDevice or NoEntry`; a key is the pair of halves it was made from, so a stale half gives a different key |
| `MessageConverter` | the converter's threads on the table, devices, server, restarts | one step per call another thread can observe; `loraPtr`/`stiotPtr` record whether the entry a thread has looked at, or holds a pointer into, has been erased since; a use of a null or dangling pointer sets `fault`, and only a restart follows |
| `Mailbox` | what a queue promises | items in order, at most once, end after close |
| `WorkQueue` | `getFromLoraData` and `getFromStiotData` with `addBulk`/`addToQueue`, KEYA's notification and `stop` | one step per lock, test, wait and notification; who holds a mutex follows from the program counters |
| `Concentrator` | `ConcentratorController.cpp` and the end of `MainApp.cpp` | one program counter per thread, `owner` of each of the three mutexes |
| `Connection` | `ConnectionController.cpp` with its users, `main`, the timer, and `shutDown`, its three stops in turn, on whichever thread takes the signal | one step per critical section; `queueMutex` is kept while messages are written; the concentrator's `stop()`, of `shutDown` or of a second SETA, comes back or never does |
| `DutyCycle` | the counters of the table | load and store of each subtraction are separate steps, as is the refill of each counter |
| `Registers` | `loragw_reg.c` on `loragw_spi.native.c`: connection, reset, pagination, accesses by name | one step per transaction on the bus, from three threads; page, bytes and handle on one side, `lgw_regpage` on the other |

The library and its clients, one call at a time:

| Module | Models | State and grain |
|---|---|---|
| `Hal` | the calls of `loragw_hal.c` over the chip, by any client | each call one step; the chip has its own configuration and FIFO |
| `Startup` | what `startConcentrator` makes of a SETA; extends `Hal` | one library call per step; the plan is a sequence of mentions, distributed by frequency over radios, IF chains and special demodulators |
| `Sx125x` | the radio behind its SPI master, PLL words, loading a firmware | operators shared by the next two |
| `ChipStart` | inside `lgw_start` and `lgw_send`: radios and their lock, calibration, AGC dialogue, packet metadata | one step per phase; `attempts`, `mcu` and the gains the AGC has acknowledged |
| `Reception` | inside `lgw_start` and `lgw_receive`: a channel's registers, the FIFO's metadata, the report and the time correction | one packet at a time, on the air, in the FIFO, reported |
| `PacketLogger` | `util_pkt_logger.c` on `Hal` | section by section, fetch by fetch, file by file |
| `TxTest`, `TxContinuous`, `SpiStress` | `main` and signal handler of the three test tools (the first on `Hal`) | options, set-up phases, waits; a signal between any two |

Algorithms and formats:

| Module | Models | State and grain |
|---|---|---|
| `Frame` | a frame from `fromHal` to the server's message and back to `toHal` (`Message.cpp`, the conversions of `ConcentratorController.cpp`) | a frame is a sequence of cells, the cipher a box that opens with its key |
| `JsonLexer`, `JsonText` | `json.hpp` as the gateway uses it: the lexer's automaton with its buffer and marker; parser, `operator[]`, `dump` | a text is a sequence of bytes; a message is built, dumped, perhaps garbled, and parsed |
| `Base64`, `Encryption`, `DiffieHellman` | `base64.h`, `Encryption.cpp` with `createCheck`, `DiffieHellman.cpp` | the arithmetic word by word, on smaller words |
| `Nmea`, `TimeReference` | `loragw_gps.c` | a sentence is a label and cells; a time is seconds and nanoseconds, a double a quotient of integers |

`MC*` modules give TLC its constants; `MCSequential` puts all parts that run in
one thread side by side (a variable `part` says which one a behaviour is about)
and states what several of them promise as one property. `MCUnlocked` does the
same with the two pieces of state that threads share without a mutex, `DutyCycle`
and `Registers`. `*_proofs` hold theorems.

How they fit. `MessageConverter` extends `DevicesTable`. `WorkQueue` and
`Connection` instantiate `Mailbox` (`box <- queue`, `ended <- (cpc = "done")`,
and `box <- hand \o endDeviceData`). `WorkQueue` is the detail behind the
single step in which `MessageConverter` queues and notifies: there a frame can
be queued only while `fromLora` waits (it holds `loraDataMutex` otherwise, its
second of sleep included), and a queued frame leaves `woken` set. `Startup`
implements `Hal`'s client (`GatewayIsClient`, proved), so what is proved of
every client holds of the gateway; the packet logger and the transmission test
are two more clients, and `StartedGains` is the gateway's alone, for it depends
on how a client takes a refusal. `ChipStart` and `Reception` are the detail
behind `StartSucceeds`, `lgw_send`, `Arrive` and `lgw_receive`. `Frame` takes
the cipher as a whole, `Encryption` opens it; `Frame`'s messages are values,
`JsonText` their texts.

`Registers` is the detail behind the calls `Hal` takes to be atomic. Its threads
are `ctl` (`lgw_start`, `lgw_stop`), `receive` (`lgw_receive`) and `send`
(`lgw_send`, `lgw_status`). `lgw_stop` runs under the two others, because
`join` joins nobody (`Concentrator`, section 6). `disturbed` is set by what the
code makes no provision for: a page write that is lost (`page_switch` and
`lgw_soft_reset` do not look at the result), a failed read inside a
read-modify-write (the write goes on with zeros), a reset or a change of the
handle under a thread at work. It is cleared by the next reset with no thread
about, so the properties claim recovery too. A use of a freed handle, or
`std::terminate` on the second start, ends the process.

The names of definitions follow the source; operators
marked "Mutant" are not part of the specification: they are the plausible wrong
versions of the definition that follows them, used to see that each property
can fail.

## 3. Runs

| Run | Instance | Shows |
|---|---|---|
| `conv_safety` | one device, 2 registrations, 2 data frames, 1 downlink, may be flushed, any number of restarts | `UplinkConservation`, `CheckedKeyKnownToServer`, `NoStrandedCache`, `FaultNeedsErase`, `SeqNotBehind`, `TypeOK` |
| `conv_live` | two devices, one of which may be flushed; 1 registration and 1 frame each | `AnswerFindsDevice`, `CacheServed`, `UplinkSettles` |
| `wq` | 2 producers with 2 items each, 2 KEYAs, 1 stopper; both kinds of queue | refinement of `Mailbox` with its fairness, `NoLostWakeup`, `StopEndsConsumer`, `KeyLookedAt` |
| `connection` | a bulk of 2 and a single message, 2 messages of the server in one or two records, 1 signal from outside, the link lost at any time | refinement of `Mailbox` (`UplinkInOrder`), `DownlinkInOrder`, `DownlinkArrives`, `Ends`, `TypeOK` |
| `conc` | 2 SETAs, 2 downlinks, 1 poll with a result, CTRL+C | `InOrder`, `NoLostWakeup`, `NoOverrun`, `DownlinkSent`, `TypeOK` |
| `conc_restart`, `conc_exit` | as above | violated: section 6 |
| `unlocked` | counters: 2 channels of two bands, 2 downlinks of three sizes at SF12, 1 refill; registers: five of them on two pages and the two buffer windows, one value for each written one, one failing transaction, any number of starts and stops | `ChargedWithinBudget`; `PageInSync`, `AccessOnItsPage`, `RegistersKeepValues`, `TypeOK` |
| `duty_band` | the counters of `unlocked` | violated: section 6 |
| `sequential` | every single-threaded part, below; 185 680 states | `StartedGains`, `ReportedAsHeard`, `SentCalibrated`, `SetaInPlace`, `BothSidesAgree`, `DeviceReads`, `ServerReads`, `Logged`, `ChipReady`, `OnAir`, `ToolsRight`, `TimeAndPlace` |
| `logger_local`, `tools_quit` | as `sequential` | violated: section 6 |

In `sequential`, `StartedGains` and `SetaInPlace` (`PlanInPlace`, `NothingElse`
and `FaultNeedsEmptyPlan`) are properties of `Startup`, `ReportedAsHeard` and
`SentCalibrated` of `Hal`, `BothSidesAgree` of `DiffieHellman`, `ChipReady` and
`OnAir` of `ChipStart`, as they stand there. The others are conjunctions over
parts, each conjunct a property of a module: `DeviceReads` is what `Frame`,
`Base64`, `Encryption` and `JsonText` promise a reader of what has been written,
`ServerReads` what `Frame` promises the server and `Reception` reports to it;
`ToolsRight` and `TimeAndPlace` gather the tools and the GPS.

Why the bounds are enough to meet the interesting cases. Two registrations of
one device give an old and a new key, an erased and a fresh entry, and a KEYA
that crosses a REGA; two frames give one cached and one fresh; a device may
start enrolled with the server from an earlier life of the gateway, so KEYA
recovery is met from the first state. Two producers and two items give a
notification spent on a consumer that is already awake. A bulk of two and two
messages of the server give a message in hand behind one in the queue, a record
that holds two and one that waits. Two SETAs are the
shortest restart; two downlinks are needed for order and overrun. At SF12 the
three sizes take 1 646 ms, 2 138 ms and about nine seconds: the 0.1 % counter
(3 600 ms) pays for two of the first or for one of the second, and refuses
the largest, which the 1 % counter pays for. Two messages and a refill
let a subtraction span the refill. In `Registers` two fields share a byte (one
written by `ctl`, one by `send`), one register takes two bytes and is
signed, one is a signed byte; the last two and one of the shared fields are
written with a value other than their default, so a lost or misplaced byte
shows; one failure is enough to part `lgw_regpage` from the chip. What happens
once `disturbed` is set is explored too (most states are of that kind), for the
recovery by the next start.

The parts of `sequential`:

- `Hal` alone: two settings of a radio, a radio never configured, a std chain on
  either radio or off, good and empty gain tables, one packet in the FIFO, any calls.
- `Startup`: plans that fill the ten chains, that have one frequency more or
  less, with spreading factors and bandwidths given and not, that repeat a
  frequency, and the empty one; a gain table with a bad entry behind a good one;
  three SETAs, the second and third into what the ones before have left.
- `ChipStart`: both radios, TX on or off, frequencies at which the PLL words
  round, tables of one, two and of all five gains, LoRa packets of all rates and FSK;
  one configuration with all packets, all configurations with one packet.
- `Reception`: each modem, both radios, offsets that round both ways, payloads
  around the block sizes of every spreading factor, a counter about to wrap.
- `PacketLogger`: 2 files with radios and channels on, off, wrong or absent, 2
  ticks, 2 fetched packets, 2 logs, the clock looked at every 2nd time, arrays
  of 1. A file that rotates within its second needs two fetches and two logs.
- Tools: each option at and beyond its limits; `TxTest` with words of 4 instead
  of 65 536 counts and at most 6 packets, so its counter wraps; `SpiStress`
  with values 0 and 1, two repeats and two garbled transfers, the fewest that
  can undo each other.
- `Frame`: payloads around each block boundary and up to the 255 bytes of a
  packet; network data of every number of frequencies from none to one too many;
  unknown names, missing fields.
- `JsonText`: five kinds of members under two keys; every number of up to
  five of the bytes the number states tell apart, all first bytes of a UTF-8
  class with the bytes at the edges of their followers, all pairs of escapes,
  all sequences of three tokens inside an array or a member and of two behind a
  repeated key; every loss of a byte, of the end, and every change of one to a
  NUL, a quote or a comma. Integers have 8 bits.
- `Base64`: all texts of up to five characters of both ends of the alphabet, of
  its middle, padding and none of these. `Encryption`: words of 8 bits, one to
  three of them, keys of equal and of different words. `DiffieHellman`: words of
  3 bits with all their primes.
- `Nmea`, `TimeReference`: a complete, an incomplete and a fixless sentence of
  each kind and one too long; counts of 20 a second wrapping at 128, tolerance
  10 % for 10 ppm, crystals exact, slow and fast, wrong fixes on both sides,
  twelve seconds. A wrap unseen between two fixes, and three wrong fixes in a
  row, fit into that.

Every bound is a constant, or a guard that names it (`MaxReg`, `MaxData`,
`MaxTxl`, `MaxPut`, `BulkSize`, `MaxRecord`, `MaxSignal`, `MaxPoke`, `MaxSeta`,
`MaxDown`, `MaxRx`, `MaxMsg`, `MaxRefill`, `FifoSize`, `MaxFail`, `Val`,
`MaxTime`, `MaxFetched`, `MaxLogs`, `MaxSent`, `MaxCycle`, `MaxFault`,
`MaxMembers`).

Deadlock is checked in the converter runs. The work
queue's consumer ends, the programs of `Concentrator`, `Connection` and
`Registers` exit or die, the counters are at rest when the bounds are reached,
and most parts of `sequential` are over at some time,
so those runs say `CHECK_DEADLOCK FALSE`; that what should still move does move
is a property there (`StopEndsConsumer`, `DownlinkSent`, `Ends`, `SignalExits`).

No run uses symmetry: the liveness runs may not, and the others have one device
or producers whose order matters.


## 4. Fairness

- `MessageConverter`: weak fairness of `fromLora` (a notified wait returns),
  `fromStiot` and the connection; `Restart` of a process that has faulted
  (`packet_converter.service`: `Restart=always`). Nothing is assumed of
  devices, the clock, spurious wake-ups or flushes. The step with which
  `fromStiot` locks `loraDataMutex` is covered by weak fairness because
  `fromLora` waits for good unless a frame or notification arrives, and the
  bounds end those.
- `WorkQueue`: weak fairness of the consumer and of each notification that is
  due; strong fairness of the two locks of `dataMutex` inside KEYA and `stop`,
  since the mutex is free again and again: `std::mutex` does not promise it,
  the kernel's futex does in practice. No one is obliged to call anything.
- `Concentrator`: strong fairness per thread for the same reason, weak fairness
  of the radio ending its transmission. SETAs, downlinks and the signal are not
  fair. `SignalExits` is violated although all threads run.
- `Connection`: weak fairness of `main`, of the timer's timeout and of the
  producers' `addBulk`; weak fairness of `process` except while it writes on a
  link that is gone, where `BIO_write` may be retried for ever; strong fairness
  of the handler on each thread: `processMutex`, which `process` takes and gives
  back in turn, and the data mutexes it finds free in the end. The server need
  not send, the link need not stay or break, and no signal need come. `Ends`
  says that what was told to end ends, and that the handler comes back, but for
  three cases the code has no way out of: `StuckWriting` (`send` keeps
  `queueMutex` while it retries), `SelfDeadlock` (a signal on `main` inside its
  own critical section), and `StuckStopping` (the concentrator's `stop()` does
  not come back, section 6.2: called last by the handler, or by `fromStiot` for
  a second SETA, which keeps the data mutex the handler's first stop needs).
  The end of the process is an exception too.

## 5. Proofs

Each module of threads has its theorems in `<module>_proofs`; `Startup_proofs`
has those of `Hal` too, and `Sequential_proofs` those of `DiffieHellman` and
`ChipStart`. A proof module starts with the named parts of its inductive
invariant, or has them before the step they are for; TLC has checked each of
them on the module's run. What a property
lacks to be inductive is said here.

| Module | Holds for every | Theorems |
|---|---|---|
| `MessageConverter_proofs` | non-empty set of devices, bounds | `BaseInvariant`, `KeysInvariant`, `NumbersInvariant`, `TypeCorrect`, `FaultsNeedErase`, `AnswersFindTheirDevice`, `CheckedKeysAreKnown`, `NoCacheIsStranded`, `NumbersDoNotFallBehind`, `UplinkIsConserved` |
| `WorkQueue_proofs` | sets of producers, pokers, stoppers, bounds, kind of queue | `InductiveInvariant`, `NoWakeupIsLost`, `ImplementsMailbox` |
| `Concentrator_proofs` | bounds | `ControllerInvariant`, `TypeCorrect`, `DownlinksInOrder`, `SenderIsWoken`, `NeverOverruns`, `OneStopAtATime`, `RestartWaitsForNobody` |
| `Connection_proofs` | bounds | `ConnectionInvariant`, `TypeCorrect`, `DownlinksInOrder`, `ImplementsMailbox` |
| `DutyCycle_proofs` | channels, sizes, settings, bounds | `CountersInvariant`, `BudgetKept`, `ReportedIsLeft` |
| `Registers_proofs` | values written, number of failures | `PageInvariant`, `TypeCorrect`, `PageIsKnown`, `AccessesReachTheirPage`, `ValuesAreKept` |
| `Startup_proofs` | radios, channels, settings, FIFO size | `LibraryInvariant`, `PacketsReportedAsHeard`, `SendsOnlyCalibrated` |
| `Startup_proofs` | the same, plans, configuration files | `GatewayIsClient`, `GatewayReportsAsHeard`, `StartedWithGoodGains`, `StartedOnItsPlan` |
| `Sequential_proofs` | width of a word, primes, generators, private keys | `SessionKeyAgreed` |
| `Sequential_proofs` | configurations, packets, size of the gain table | `StartLeavesChipReady`, `PacketsGoOutAsAsked` |

**Converter.** Four layers, each using those before.

- `Base`: the types (`TypeOK`), what each step has in hand (`InHand`), what an
  entry is (`Entries`), and for both threads what their pointer says of the table
  (`LoraPointer`, `StiotPointer`): while it is "seen" or "held" the entry is
  there, and with its key where the code has looked for one. `FaultNeedsErase`
  follows, and with `Answering` (a device asked about is the gateway's own)
  `AnswerFindsDevice`.
- `Keys`: where each key comes from. No key in use has an exponent still to be
  drawn (`UsedKeys`, so a new key differs from every old one), a KEYA carries a
  key the server keeps (`AnsweredKeys`), a cached frame whose key is in the
  table got it from the server (`CachedKeys`), and the key a cached frame was
  verified under is still there unless the device is noted as raced
  (`VerifiedKey`). `CheckedKeyKnownToServer` needs all four.
- `SkippedHasNoKey`: of the cached frames that a pass has skipped, or that a
  sleeping `fromLora` has, none has a key from the server, unless `fromStiot`
  has the notification still to give. `NoStrandedCache` is its case for the
  sleeping thread.
- `Numbers`: a device's frames stand in order over cache, pass and queue
  (`FrameOrder`), what has been read is below what is to be read
  (`VerifiedBelow`), and a number loaded to be written back is not behind
  (`NumberInHand`). `SeqNotBehind` follows.
- `Conserved` counts, for each device and number, the holders of the frame
  (queue, pass, cache, on its way) and its fates (delivered, given up): once
  sent, exactly one. The lemmas `OccAppend`, `OccRemove`, `OccConcat` and their
  like say how each operation on a sequence changes such a count; every step is
  then one of a dozen moves (`UplinkMove`). `UplinkConservation` is `Conserved`
  for the numbers sent.

**Work queue.** `NoLostWakeup` speaks of a sleeping consumer and is not
inductive: the step into the wait needs to know that what the consumer tested is
still so. The strengthening follows the locks. Between the test of the flag and
the wait the consumer holds the data mutex, so the queue stays empty
(`EmptyBeforeWait`), and who has cleared the flag or set a key since is still
before its lock of that mutex (`StopBeforeWait`, `KeyBeforeWait`); once it gets
the lock the consumer sleeps, and its notification is still to come. The
refinement of `Mailbox` maps `Take` to `TakeOne` or `TakeAll`, `StopClear` to
`Close`, reaching "done" to `End`, and all else to stuttering.

**Concentrator.** `Control` says who owns `queueMutex` (`QueueOwner`), that no
worker is created over one that is attached (`WorkersJoinable`: the second start
crashes instead), and where a downlink is in hand (`MsgInHand`). `InOrder` then
needs that numbers come off the front (`SentSoFar`), `NoLostWakeup` that who has
cleared the flag since the sender's test still has to lock `queueMutex`
(`StopBeforeWait`), `NoOverrun` that only the sender puts the transmitter to work
(`EmitsIntoSilence`). A second invariant, `Restart`, shows that one thread at a
time is in `stop()` and that a restart's `join()` joins no one, in every
behaviour: the cause of the first disagreement of section 6.

**Connection.** `send` has one message in hand while it writes and none otherwise
(`InHand`), the thread is created once, and it ends only after a stop, be it the
one its own handler makes for a link that is gone, which it waits for
(`Lifetime`); and what has been read but not parsed continues where the
converter is, record for record, up to a record that is no message (`InStep`).
`ImplementsMailbox` maps what a producer queues to `Put` or `PutAll`, the end of
a write to `TakeOne`, a stop or a link found gone to `Close`, the end of the
thread to `End`, and all else to stuttering.

**Counters.** The invariant says what each counter may hold while a subtraction
is under way (`NeverOvergrants`) and what a loaded value may be (`LoadedBound`):
the race with the refill can lose the refill but not the subtraction, because a
lost refill writes back a smaller value and a refill between load and store also
starts a new count. `ToldIsLeft`, what `remainingDutyCycle` reports, follows and
is not in a run.

**Registers.** No mutex covers a page switch and the access behind it. What
replaces it is that, as long as nothing has been disturbed, one call at a time
depends on the page (`OnePaged`): `ctl` is alone while it configures
(`Apart`), and the receiver uses no paged register at all. So a call about to
select a page has it in `lgw_regpage` (`Selecting`), one behind its selection is
on its page (`OnPage`), and without one under way library and chip agree
(`InSync`). For the values, a byte read to be written back is still the chip's
(`Fresh`), although a field of another thread shares it; the rest is arithmetic:
two fields of a byte do not touch each other (`MixedGain`, `MixedSwap`), and a
number cut into bytes is put together with its sign (`WordReads`). `ValuesAreKept`
has the hypothesis `ValuesFit`: the library cuts a value that does not fit its
register. The run's values fit.

**Library and plan.** `Hal`'s invariant needs that a chip that is off holds no
packets (`FifoWhenOn`) and that a failed start, which leaves `lgw_is_started` set
over a chip that has been reset, leaves the configuration alone (`ChipMatches`,
`SentEnabled`). `GatewayIsClient` (`StartSpec => Spec`) shows that
`startConcentrator`, call by call, is one of `Hal`'s clients; it needs that the
plan in hand is one the server may send and that the position in it is one the
library accepts (`PlanKnown`). `StartedWithGoodGains` does not hold of every
client: by the time of `lgw_start` a table whose every entry has been looked at
is in place (`GainsInv`), because the gateway gives up when `lgw_txgain_setconf`
refuses one.

`StartedOnItsPlan` goes the way of the algorithm. A plan has finitely many
frequencies (`FreqsFinite`), so each rank has one (`Ranks`, `AtRanks`); the
groups of `ifChainCount` ranks cover them (`GroupsCover`, `InGroup`); a radio is
tuned to the middle frequency of its group (`Tuned`), the first to one the plan
names (`FirstRadio`); and the frequencies of a plan that fits get chains of
their own (`ChainsApart`). `PlanInv` adds to the invariants above
how far a SETA has got: the radios set so far are the plan's, the chains below
the position are, and those above it are off (`Unset`, `Setting`), and a
started library has all of it (`Started`). That a call may fail at any point,
that a later SETA finds what an earlier one left, and that a plan without a
frequency makes the library divide by zero (`FaultNeedsEmptyPlan`) are cases of
the same induction.

**Key exchange.** `SessionKeyAgreed` has a plain invariant (`ExchangeInv`: half
and key are the powers the two calls compute) and rests on what the operators
compute for every input. `powerMod` and `multiplyMod` recurse over the bits of a
number, so the induction has to be had first: the provers cannot use the
library's induction theorems, whose parameter is an operator, and the module
proves them again for sets and functions (`Induction`, `StrongInduction`,
`Recursion`), from the existence of least elements. With these `multiplyMod` is
the product (`Multiplies`; `Doubles` and `Adds` say that no doubling or sum
leaves its word), `powerMod` the power (`PowerIsPower`, by halving the exponent),
and powers of powers multiply their exponents, whichever comes first
(`ProductOfExponents`), so both sides have one key.

**Start of the chip.** `StartLeavesChipReady` takes each of the three parts of
`ChipReady` on its own way.

- `RadioInv`: the radio being set up and those after it are in a state the
  setup starts from, and of those before it each is tuned if its setup returned
  0. A radio keeps what is written to it until the same register is written
  again (`WritesStay`, by induction over the writes); `PllIsNear` says that the
  three bytes of a PLL word are the frequency to one step.
- `SameNetwork` follows the order of the phases: the sync word is set before the
  firmware is loaded, and a dialogue begins only with the firmware in place
  (both in `FirmwareInv`).
- `AgcHasTable`: as long as the dialogue goes on, the AGC has heard every pair so
  far (`FirmwareInv`), because a pair it missed leaves a status other than the
  expected one and ends the start. That is so at every line but one
  (`LineHeard`): behind a table of a single gain the ABORT is answered with the
  status that gain has left, so a missed ABORT is not noticed there. What is
  said next is then taken as a gain, and the status shows it at that line. The
  argument needs a table of at least five entries (16 in the code): with four the
  status of a gain could pass for that of a later word.

**Packets on the air.** `PacketsGoOutAsAsked` adds that nothing goes out before
the start and that the metadata is that of the packet (`AirInv`), and uses
`RadioInv` and `FirmwareInv` for what the chip knows by then. The sixteen bytes are
six lists put behind each other; `SixLists` finds a cell of the whole in its list,
`MetadataBytes` says which byte holds what, and one lemma per part of `OnAir`
reads it back:

- `FrequencySaid`: the two highest bits of the PLL word give way to the filters,
  and the firmware puts back the 3 it was told at the start. So the frequency must
  be one whose word begins with them (the antecedent of `OnFrequency`), and then
  `PllIsNear` gives it to one step.
- `RadioSaid`: power, modulation and radio share a byte (`PlaceOfPacket`). The
  index in it is an index in the table the chip was told at the start
  (`AgcDone`), and its gain is the greatest not above the power (`GainChosen`).
- `TimeSaid`: taking the delay from the lower word borrows from the upper one,
  and wraps at 2^32 (`TimeOfTrigger`).
- `ModulationSaid`: rate, coding and CRC share a byte, bandwidth, header, polarity
  and the mark of slow symbols another (`ModemOfLora`); the mark is there when a
  symbol lasts 16 ms or longer (`SlowSymbols`).

The theorems rest on the named assumptions of the constants and on nothing else;
TLC evaluates those assumptions in every run. Beyond types and bounds they are:
there is a device (`DeviceAssumption`), radios are numbered from 0 without gaps,
the std chain is above the multi chains and a group has a positive size
(`BoardAssumption`), no frequency of a plan is below 8 Hz
(`FrequencyAssumption`: `lgw_start` divides by the first radio's, counted in
steps of 8 Hz), the moduli of the exchange fit their word
(`ExchangeAssumption`), and `ChipAssumption` says what `lgw_txgain_setconf` lets
into the gain table and that a radio's frequency is one its PLL words can hold
(section 7). `PacketAssumption` is for packets only: they pass the checks of
`lgw_send`, the table has at most the 16 rows four bits can name, and its rows
ascend in power. The code does not check the last; its search from the top of the
table takes it for granted, and the tables of the configuration files are so.

Only model-checked:

- liveness: `CacheServed`, `UplinkSettles`, `StopEndsConsumer`, `KeyLookedAt`,
  `DownlinkArrives`, `Ends`, `DownlinkSent`, and the liveness part of `Mailbox`
  in `wq`. TLAPS proves neither `ENABLED` nor anything under fairness.
- `DeviceReads`, `ServerReads`: the codecs are operators on sequences that
  recurse or fold; the cipher needs `Bitwise`, `JsonText` declares RECURSIVE
  operators, and the proof system takes neither. For `Frame` the way is that of
  `DiffieHellman`, recursive functions and induction over sets; it is not gone.
- `Logged`, `ToolsRight`, `TimeAndPlace`: not proved. Each is a property of
  several modules; what is in the way is listed in section 9.

## 6. Disagreements between code and documents

1. `RestartSurvives` (`conc_restart`): a second SETA ends the program.
   `stop()` clears the flags `join()` asks, so no thread is joined and the next
   start assigns to a joinable `std::thread` (`ConcentratorController.cpp:223`),
   against the intention at `MessageConverter.cpp:142`. The same skipped join
   lets `main` return while the threads are attached.
2. `SignalExits` (`conc_exit`): `stop()` and `processStiot` lock `sendMutex` and
   `queueMutex` in opposite orders; CTRL+C may leave the program hanging,
   against `PacketConverter/README.md:23`.
3. `SentWithinBudget` (`duty_band`): a downlink is charged to a band other than
   the one it is sent in when the device is heard on another channel between
   `setPacket` and `reduceDutyCycle`.
4. `LocalOverwrites` (`logger_local`): a radio the packet logger's local file
   switches off stays on, because the library refuses the empty structure and the
   logger goes on, against `util_pkt_logger/readme.md:52`.
5. `QuitLeavesHardware` (`tools_quit`): SIGQUIT "terminates without shutting down
   the hardware" (`util_tx_continuous.c:76`, `util_tx_test.c:58`), but both tools
   call `lgw_stop` whichever signal came (`util_tx_continuous.c:566`,
   `util_tx_test.c:390`): nothing after the loops tells the two flags apart.

## 7. Abstractions

The converter:

- A frame is its kind, device, number and the key it was made with; a MIC is
  good when the keys agree, or may fail when the key is being replaced while it
  is read (`MicOutcomes`: the copy of the key's bytes is not atomic).
- `hasSessionKey && isMine` is one step: the gateway never changes an entry's
  `myDevice`, and an erasure between the two has the outcome of one before both.
  `updateDevice` and `hasSessionKeyCheck` are two, for a KEYA or REGA in between
  changes the answer. `getSessionKey` and the use of its pointer are two steps,
  as are `getDh` and its use; only for a KEYS they are one, with `getSeq`, whose
  number no property depends on. The debug output of a REGA reads the half
  again and is left out.
- The server keeps keys it is told, answers KEYR with the latest and REGR with
  REGA if it likes. It, the devices, the radio and the clock are external.
- JSON bodies that lack a field are dropped by the code and never sent here;
  `Frame` has them.
- The wait of `fromLora` returns without data when the cache is not empty; a
  wake-up with both empty goes back to the wait.
- `DutyCycle`: air time is exact integer arithmetic in milliseconds, truncated
  as the conversion to `long` does; sizes and settings are such that the
  doubles of the code are exact and the unsigned difference does not wrap. An
  entry that vanished leaves the downlink's frequency uninitialised: any.

Concentrator and connection:

- `Concentrator`: one queued packet at a time in `sendHal`; a failing
  configuration or `lgw_start` leaves everything as it was. Unlocking a mutex
  one does not hold is undefined; it is modelled as freeing it, which is what
  the platform's mutexes do. `halStatus` is uninitialised when the loop ends by
  its flag, so `ReceiveEnd` may or may not raise the signal.
- `Connection`: `BIO_read` returns at most one TLS record. The bytes read are
  handed on when they are one JSON text and end the process when they are not
  (`json::parse` throws and nobody catches), so a server that glues two messages
  into one record stops the gateway. Writing on a lost link retries for ever or
  ends by SIGPIPE. A `send` that does not end blocks `fromLora` and `fromStiot`,
  and with them the converter's `stop`, so the handler hangs too. The
  handshake is one step that may fail.
- `Connection` has of the concentrator only its `stop()`, which returns or
  does not (`Concentrator` shows how). It can hang only where a SETA has started
  the sending thread, so not before the server has sent something; a call that
  hangs keeps `sendMutex`, so no other comes back after it. A second SETA either
  hangs there or ends the process (6.1). A signal that arrives while a handler
  runs on the same thread is left out.
- A process that has ended is started again by `start.sh`, which pulls the reset
  pin; started by hand it finds the chip as it was. `NewProcess` of `Hal` has
  both, `Respawn` of `Startup` the first.
- Since a second SETA after a successful start ends the process (6.1), the
  channels left by an earlier plan are met after a failed `startConcentrator`.

The library:

- `Hal`: calls are atomic, single-threaded use of the library; of a gain only
  `mix_gain` and `rf_power` matter, of `lgw_board_setconf` nothing. A register
  access is assumed to succeed once connected. A start can fail before or after
  the chip has been loaded.
- `ChipStart`: the radios' registers are the words written to them, the MCUs
  answer as the firmware's protocol has it or with a wrong version or checksum.
  The firmware takes the two high bits of a TX frequency word to be 3, so a
  frequency outside 768–1024 MHz (SX1257) or 384–512 MHz (SX1255) is sent
  elsewhere; an SX1255 above 512 MHz overflows the byte of the PLL. Neither is
  checked by `lgw_rxrf_setconf`: `OnFrequency`, a part of `OnAir`, has the first as
  an antecedent; the inputs of the run and `ChipAssumption` keep within the second.
- `Reception`: `count_us` is corrected with an unsigned comparison
  (`loragw_hal.c:1299`), so the property about the time is limited to payloads of
  at least three bytes, for which it holds. RSSI and SNR are left out.
- `Registers`: eight rows of the register table. A transaction reaches the chip
  or not, and reports success only if it did; a burst is one transaction,
  although `lgw_spi_wb` sends it in chunks. A stray write is recorded, its
  effect on the other page is not followed. Accesses the code refuses before
  the first transaction have no effect and are left out, as is
  `lgw_reg_check`. `TIMESTAMP` is read by a mutant only: the gateway does not
  ask for the time.

Codecs:

- `Frame`: bytes that mean something are cells with their field's name. The
  cipher opens with the key it was closed with; any other key opens to cells that
  fail the check word (by chance they pass once in 2^32, which is ignored).
  Network data is exact for up to 15 frequencies, multiples of 100 kHz from 863 to
  888.5 MHz, and powers of 0 to 15. A REGA with an incomplete entry sends no
  network data at all. KEYS announces the number before the last one heard, -1
  for the first.
- `JsonText`: `parse` of a string, `operator[]`, `dump`. Text after a NUL is
  ignored; of a repeated key the last value stays; an integer that does not fit
  becomes a floating number and one that is infinite is written as null; `dump`
  does not look at the encoding, and `parse` refuses what comes of a bad one. A
  lone surrogate passes the scanner and is refused when the string is taken.
  Conversion between text and double is exact.
- `DiffieHellman` and `Encryption` keep every operation and shrink the word.

GPS and tools:

- `PacketLogger`: the clock does not go back. A file is opened for appending and
  gets its header each time. `-r -1`, described as switching rotation off,
  rotates at every look at the clock; it is among the options modelled.
- `TxTest`, `TxContinuous`: an option that reads an argument it does not have
  ends the program. The kind of radio is concluded from the frequency. A size above
  255 is refused by `lgw_send`, after which the tool leaves without `lgw_stop`.
  The error exits of `TxContinuous` leave the radio in its TX mode, but no
  amplifier on. Its frequency goes through a `float` (`AsFloat`), so it is met to
  two steps of the PLL, not to one; the bit rate is taken as exact. `TxTest`
  takes frequencies up to 3 GHz; those modelled end near 2.1 GHz, at TLC's integers.
- `SpiStress`: a garbled transfer may show in the value or not.
- `Nmea`: longitude is treated as latitude is and left out, and so is the quality
  field of GGA, which the code does not look at. A sentence is chopped in
  place, so a second parse of it is refused.
- `TimeReference`: a double is a quotient of integers; the conversion of a
  negative one to `uint32_t` is undefined and has the two outcomes of common
  machines. `lgw_gps_sync` never looks at `systime`, though `loragw_gps.h:147` has it
  start the first synchronisation; that takes three fixes.

## 8. Not modelled

- `MainApp.cpp`: option parsing and the offline mode with its canned REGA.
- `removeFromMap`, `lgw_abort_tx`, `lgw_get_trigcnt`: no caller.
- `lgw_board_setconf` is a choice of initial states in `Hal`; RSSI and SNR are
  floating point corrections from tables of measurements.
- `lgw_reg_check`, the FTDI driver, delays, the test programs of libloragw:
  straight-line code without state of their own.
- The rest of `json.hpp`: reading from streams, pretty printing, CBOR and
  MessagePack, pointers, patches, iterators. The gateway calls none of it.
- `parson.c` and the firmware images: third-party, and microcontroller code.

## 9. Plan

Built, most important first: converter and table, work queues with their
refinement proof, concentrator life cycle, connection, duty cycle, library and
the gateway's use of it, what is inside its calls, registers, frames and texts,
cipher and key agreement, GPS, tools.

Proved: every safety property of the threads, those of the library and of the
gateway's use of it, the key exchange, what a start leaves in the chip, and what
goes out in front of a packet. Left to prove:

1. `TxTest` and `PacketLogger` as clients of `Hal`, as `Startup` is
   (`GatewayIsClient`), after which what `Startup_proofs` says of every client
   holds of them; then `Logged` and the transmission test's part of `ToolsRight`.
2. `Frame` with recursive functions; the arithmetic of `TimeReference` on one fix.
