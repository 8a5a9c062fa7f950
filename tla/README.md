# A verification development for LATENTRED

LATENTRED is an open hardware Ethernet switch: line cards of 24 gigabit ports, an
FPGA that buffers and switches frames (SystemVerilog under `src/rtl`), and a
management processor with its firmware, and a supervisor microcontroller on each line
card (C++ under `src/firmware`).  This directory
holds TLA+ modules that model the parts with logic of their own, TLC configurations
that check them on small instances, and TLAPS proofs of what matters most for every
size.  `PROJECT.json` is the index: components, runs, mutants, the map from each
definition to the lines it models, findings, hazards and theorems.

Contents: 1 the system, 2 what makes it hard, 3 the modules, 4 the runs,
5 assumptions and fairness, 6 what is proved, 7 what disagrees with the source's own
words, 8 what is not modelled, 9 plan.

## 1. The system

Frames go through the FPGA in this order:

    port MAC + VLAN tag decoder (submodules)
      -> GigabitIngressFIFO          one per port, writes the port's RAM
      -> LineCardInputBuffering      the 24 RAMs, link resets, clock crossings
      -> LineCardFIFOReader          takes frames out, asks where they go, forwards
           <-> MACAddressTable       by way of two clock crossings in SwitchFabric
      -> crossbar and exit queues    (comments in SwitchFabric.sv, not written yet)

| component (source) | state | operations | interacts through | what makes it correct |
|---|---|---|---|---|
| Ingress FIFO controller (`rtl/engine/input/GigabitIngressFIFO.sv`) | input register stage, write pointers (running, committed, start of frame), write state, header fields, RAM write port | take a beat; pack two beats to a word; roll back a bad frame; write the header; publish; link reset | AXI-Stream beats from the tag decoder; RAM; `rd_ptr` from the reader, published pointer to it | the reader sees good frames only, whole, in order; nothing overwritten before it is read; nothing lost; ready again whenever there is room |
| Line card input buffering (`rtl/engine/input/LineCardInputBuffering.sv`) | the RAMs' ports, synchronised link state | connect, reset pointers on link loss, `xbar_ready` | all of the above | pointers of a port reset together |
| FIFO reader (`rtl/engine/fabric/LineCardFIFOReader.sv`) | per port: state, header, first two words, prefetched words, destination; round robin pointer; forwarding state and byte counters; metadata of reads in flight | fetch header and words, look up, prefetch, forward, move the read pointer, react to a reply | RAM reads that return after a fixed latency; MAC table requests and replies; AXI-Stream to the crossbar | every frame reaches the crossbar whole, once, in order, with its own VLAN and destination; no port starves |
| MAC address table (`rtl/engine/fabric/MACAddressTable.sv`) | rows of ways (valid, mark, MAC, VLAN, port); two lookup pipelines; learning queue and its write request; mark refresh; collector state; management port | look up, learn, refresh a mark, collect garbage, read/delete for management | requests with a transaction ID; one memory port shared by fixed priority | never invents an address; every entry in its row; learning not lost or doubled; collections complete and end; nobody starves when traffic pauses |
| Switch fabric (`rtl/engine/fabric/SwitchFabric.sv`) | none of its own | wiring | the two above | - |
| PHY polling (`firmware/lcbringup/main/LatentRedPhyPollTask.*`, `PortState.*`) | current PHY, poll state, change flag; interface table; LED registers | timer, one register per main loop pass | MDIO controller and cooperative mutex, shared with the command line | transactions never collide; table, log and LEDs follow the links |
| Command line (`firmware/lcbringup/main/LatentRedCLISessionContext.*`) | per session: host name; globals: user name, IP configuration | show, configure, commit, rollback, reload, zeroize | MDIO controller; key-value store; TCP/IP and SSH stacks | what was committed is what comes back |
| SSH server (`firmware/lcbringup/main/LatentRedSSHTransportServer.*`) | host key, user name, one session context per connection | find or create the host key; load the user name; start and end sessions | key-value store; SSH transport (submodule) | one matching host key pair |
| Management network (`LatentRedTCPProtocol.*`, `LatentRedUDPProtocol.*`, `bsp/FPGATask.*`, `main/globals.cpp`) | frames waiting, link flag and what was made of it, TCP entries and the servers' own tables | take a frame, follow the link, accept, refuse, close and age connections | Ethernet controller in the FPGA; stack (submodule); SSH and iperf servers | servers hold only entries that are theirs; the stack knows the link |
| Boot, main loop, exceptions (`main/Init.cpp`, `main/vectors.cpp`, `bl/*`, `bsp/hwinit.cpp`, `main/LocalConsoleTask.h`) | where the core is, enabled interrupts, PHYs and sensors set up, the UART's transmit FIFO | boot loader or update, boot step by step, one pass of the main loop, interrupts, exception reports, restart | I2C sensors, PHYs, console, everything above | the main loop is reached only with working PHYs; readings are what they are called; nothing waits for ever; a crash is reported |
| Line card supervisor (`firmware/linecard/super`) | rails, reset lines, three LEDs, button, interrupts and the SPI receive FIFO | boot, power on, power off, release resets, answer the button, give up, handle interrupts and exceptions | rails, button, SPI bus; power supervisor class (submodule) | order of rails and resets; a fault is safe and shown; LEDs are honest; a press counts once; the card comes up |
| Control registers (`rtl/engine/fabric/LineCardControlRegisters.sv`) | per-port registers | APB read and write | host bus | reads return what was written |

The boards (`src/pcb`), the mechanics, the testbenches and the top levels have no
behaviour of their own to model; the testbenches were read for what legal inputs are.

## 2. What makes it hard

The FPGA modules are pipelines: state is read in one clock, decided on in the next and
written two or more clocks later, while other agents go on.  Nearly all hazards listed
in `PROJECT.json` are of three kinds:

* a value used clocks after it was read (`tready` before the words in the pipeline
  land, a mark refresh that writes back a whole entry, learn-or-not decided on an old
  row, the collector's read and write);
* overlaps of neighbouring transactions (a new frame starting in the clock in which the
  old one is published or sent, a queue slot cleared while another is chosen);
* widths and boundaries (wrap bits, transaction IDs, byte counts that are multiples of
  eight, lengths around the prefetch depth).

The firmware is cooperative on one core: what is hard there is who holds the MDIO
controller across main loop passes, the answer found in its single untagged data
register, and whether a waiter lets the holder make progress.  Its configuration is
many objects in one flash: power fails between two writes, the log fills up, and
sessions keep copies.  Sensors keep a register pointer that outlives a restart;
connections end by peers, refusals, `exit` and timeouts in any order; keyword tables and
the switches that answer them are written apart; after a crash no interrupt empties the
UART any more.  The supervisor's power-ups take many passes of the main loop, while rails
fail, the button is pressed and the firmware crashes.

## 3. The modules

In the FPGA modules **one step is one clock edge** of the fabric clock: `Clock` is the
conjunction of one operator per `always_ff` concern, each giving the next value of
its registers from the present values of all the others, exactly as nonblocking
assignments do.  The disjuncts inside are the states of the code's `case` statements,
and the inputs (a beat offered or not, a lookup, a link event) are chosen with `\E`.
Where the source assigns a register twice in one block the last assignment wins in the
model too.

**`FrameQueue`** is an abstract specification: what a port FIFO promises its reader.
A queue of words that grows by a whole frame (header and all its data), shrinks by one
word, or is emptied.

**`IngressFIFO`** models `GigabitIngressFIFO.sv` with the RAM write port.  `Source` is
the AXI-Stream master, `InputStage` the registered beat, `WrIdle .. WrHeader`, `BadLast`
and `GoodLast` the write state machine, `Commit` the pointer publication, `ReadWord` the
reader (any clock, any time, at most one word), `LinkReset` the link loss.  A 32-bit
half word is the pair of frame and beat it came from.  `owed` is a history variable: the
words of good frames taken from the bus and not yet fetched.

**`MACTable`** models `MACAddressTable.sv` completely: `Arrival` (requests at least
`Gap` clocks apart), `Pipeline` and `Reply` (port A), `PortB` (the fixed-priority
arbiter with its memory operation), `RefreshStage`, `Learning` (`CheckSource`,
`PendingSet`, `PopPending`), `Collector` and `MgmtPort`.  A *station* is a MAC address in
a VLAN; `Hash` is a constant function, so nothing depends on the hash chosen.
`taught` (what was ever seen in a source address) and `swept` (what a collection visited)
are history variables.

**`FIFOReader`** models `LineCardFIFOReader.sv`: `PortStates`, `RoundRobin`, `Issue`
(which read the RAM is asked for), `ReadPointers` (every place that moves a read pointer),
`Storage` (where a word that comes back goes, by the metadata that travels with it),
`Lookup`/`Answer`, and the forwarding engine `FwdIdle .. FwdStart`.  In front of it each
port has a FIFO as `FrameQueue` describes it, so this module starts where `IngressFIFO`
ends.  The MAC table answers in order after any delay, with the transaction ID as far as the
table keeps it (`Echo`: the two bits of `MACAddressTable.sv:267`, to which
`SwitchFabric.sv:59-129` connects the reader).

**`PhyPoll`** models `LatentRedPhyPollTask` and the command `show hardware`: `PollIdle ..
PollExtStat` are the cases of its switch, one per main loop pass, `OnTimer` the restart,
`SpinOnMutex` the loop in which the command runs the poll task until the mutex is free.
The MDIO controller, the PHYs (with the latching link bit) and the timer run beside it.

The poll task is the `m_pollTask` of each `LineCardState` (`PortState.h:89`), which `show
hardware` runs; `App_Init` has its registration with the main loop commented out at
this commit (`Init.cpp:158`), and the model has it registered.

**`ManagementConfig`** models the configuration: the objects in flash (`kvs`, and `used`,
the length of its log), their running values (`ram`), each session's own host name, and
what the processor is doing (`task`).  `UseStoredKey .. StorePrivateKey` are the
constructor of `LatentRedSSHTransportServer`, `LoadConfig` the loaders that follow,
`OpenSession` and `Exit` the sessions, `SetHostname`, `Set`, `RemoveFlashKey`, `Compact`,
`OnRollback`, `OnReload` and `Zeroize` one command each.  A commit is `OnCommit` followed
by one `CommitStep` per object in the order of the code, so that power can fail in
between.  `edited` and `promise` are history variables: the objects set and not stored
or loaded since, and what the last commit that reported no error stored.

**`LineCardSupervisor`** models the firmware of a line card's supervisor.  `at` is the task
or boot step the core is in; `LEDTask`, `ButtonTask` with `ButtonSampled` (the button is read
twice in one pass) and `Supervise` are the entries of `g_tasks`; `SwitchRailOn`,
`RailSeenGood`, `RailTimesOut` and `PowerIsOn` walk `g_powerSequence`, called from `App_Init`
and from the button; `OnPowerOn`, `OnPowerOff` and `OnFault` are the hooks this code gives
the base class, whose `PowerOn`, `PowerOff`, `PanicShutdown` and `Iteration` are external and
modelled from the descriptors.  `Interrupt` goes through `vectorTable`; `HardFault_Handler`
strikes anywhere, and `Environment` is rails, button, timer and bus traffic.

**`ManagementProcessor`** composes three modules on one core: **`CommandLine`** (every
keyword table of `LatentRedCLISessionContext.cpp` as a function from keyword to identifier or
next table, so that `Lines` is the set of lines the editor accepts, and the switches that
answer them as `OnExecuteRoot`), **`SensorBus`** (sensors with a register pointer, the set-up
of `Init.cpp` and the reads of `show hardware`) and **`ManagementNetwork`** (`FPGATask`, and
the dispatch of `LatentRedTCPProtocol`).  `at` walks from `bootloader` through the boot steps
to the passes of the main loop: a frame, the three reads of the link flag, aging, the
console.  A line runs to its end inside the console or inside the frame that brought it.
`Exception` may strike at any place, `PrintReport` is its report with the lengths of what it
prints between two flushes, `PowerCycled`, `reload` and `zeroize` restart everything but what
outlives a restart (sensor pointers, frames in the controller, the link).  What commands do
to the configuration is `ManagementConfig`'s, and the poll task is `PhyPoll`'s: composing
these too would only multiply states, as they share no variable with the modules here.

`MC*` modules only give constants their values and, for two of them, a VIEW.
`IngressFIFO_proofs` and `IngressQueue_proofs` (which extends it), `MACTable_proofs`,
`FIFOReader_proofs`, `PhyPoll_proofs`, `ManagementConfig_proofs`, `LineCardSupervisor_proofs` and
`ManagementProcessor_proofs` hold the theorems.

A definition whose comment says `mutant` is not part of the model: it is a plausible
bug, listed under `mutants`, that must make the named property fail.

## 4. The runs

| run | instance | shows |
|---|---|---|
| `IngressFIFO_frames` | RAM of 8 words, five frames (good and bad, ending in either half of a word, one with an empty last beat), link resets | what is published is exactly the oldest good frames, whole and in order, and a word being fetched is still there (`PublishedIntact`); nothing taken is left behind or overrun (`NothingLost`); the controller implements `FrameQueue` (`IsFrameQueue`) |
| `IngressFIFO_wrap` | the same controller, errors on any lap | violation, see 7.1 |
| `IngressFIFO_ready` | RAM of 4 words, the smallest frame, fair reader | violation, see 7.2 |
| `MACTable_learning` | 2 rows, 2 ways, a queue of 2, two stations and a group address, a request in any clock | nothing is made up (`OnlyTaughtAddresses`), nothing waits twice, no slot of the queue is freed before its address is in the memory, and a pending write is not replaced (`WrittenThenCleared`) |
| `MACTable_sweep` | requests at least 6 clocks apart, collections, management reads and deletes | entries are in their rows; once traffic pauses the queue drains, management is served, and a collection ends having visited everything (`PortBServesAll`); silent stations age out |
| `MACTable_row` | requests 5 clocks apart | violation, see 7.3 |
| `FIFOReader_frames` | three ports, two with frames longer than what is prefetched and one with short ones, queued at any time, RAMs of 16 words, the real RAM latency of 7 clocks | each frame is sent whole, once, in order with its own VLAN and destination (`FramesIntact`), the read pointer of an idle port is on the header of its next frame and requests to the table belong to the frame that waits (`KeepsItsPlace`), no port starves (`EveryFrameSent`) |
| `FIFOReader_overlap` | a frame that may start in the clock in which a long one ends | violation, see 7.4 |
| `PhyPoll_poll` | four PHYs in two packages, three link changes, commands at any time | poll walk and temperature reads never overlap and the mutex is neither lost nor leaked (`MDIOExclusive`), each finds its own answer (`AnswerIsMine`), no command is overwritten on the wire, the log keeps up with the table, table and LEDs settle on the truth (`TableAndLedSettle`), a command that waits is served |
| `ManagementConfig_store` | console and one SSH session, two values, room for five records, three configuration commands, two boots besides the first | neither power failure nor a full flash puts the host key together from two keys (`HostKeysMatch`); settings nobody touched agree with the flash (`CleanIsStored`); what a commit stored without an error comes back at the next boot (`CommittedComesBack`) |
| `LineCardSupervisor_power` | the three rails and four reset lines of the code, two presses, two arrivals on the buses, one restart, a receive FIFO of one | rails and resets are in order across faults, power-offs and renewed power-ups (`SequencesKept`); whenever the supervisor gives up the card is dark and says so (`FaultIsSafe`); `LedsAreHonest`; a press toggles the power at most once (`OncePerPress`); a lost rail takes the card down (`LostRailShutsDown`) and a card left alone comes up (`SystemComesUp`), whatever arrives on the buses |
| `ManagementProcessor_boot` | one temperature sensor, one power monitor, two peers for one SSH slot, one frame buffer, four lines on the console and two over SSH, four events (failures, frames, lines, link changes, crashes, restarts) | the main loop needs both PHYs (`TypeOK`); `ServersKnowTheirSockets`; `StackKnowsLink`; a voltage, a current and a temperature come from their own register (`ReadingsAreTrue`); every line the tables accept has a handler of its own (`CommandsAreAnswered`); lines and frames are taken (`NothingWaitsForEver`); crash reports end (`CrashIsReported`) |

Why the bounds are enough:

* *IngressFIFO*: 8 words hold one of these frames and part of the next, so wrap, full,
  rollback into the previous frame's neighbourhood and publish-while-starting all
  happen within two laps; pointers are modulo twice the depth, so the state space closes
  and every number of laps is covered.  The frames end in each of the ways the state
  machine distinguishes.
* *MACTable*: all stations hash to row 1, so every pair conflicts and a row address lost
  to 0 is seen; two ways make one full row with three addresses; a queue of two is filled.
  The clock distance `Gap` = 1 is the worst traffic, `Gap` = 6 the densest
  for which the row defect (7.3) does not show; `MACTable_row` shows that 5 is too little.
* *FIFOReader*: three ports are the fewest where one forwards while two others fetch and
  wait; a frame of 59 bytes is sent from what is prefetched, 69 and 77 need body reads, so
  one long frame is fetched while another is in its body.  Each port has one length; the
  theorems cover any mix on any port.  `TIDS` is the code's 4, which tells three ports apart.
  Latency is the real one, because the prefetch depth and forwarding are timed against it.
* *PhyPoll*: four PHYs have both parities and two packages (LED swap, temperatures); three
  changes let a link come up, go and come back, and are the only thing bounded.
* *ManagementConfig*: two sessions are enough for one to hold an old host name; the five
  records (two of them the host key's) are less than three commands with commits and
  removals need, so every write of a commit is reached with and without room; three
  commands (`MaxEdits`) set an object, set another and undo the first; two restarts
  (`MaxBoots`) let power fail during the creation of the key and again during a commit.
  The proofs have no such bounds.
* *LineCardSupervisor*: two presses switch a card off that came up by itself and on again;
  a receive FIFO of one is full after one event and the second must be thrown away; one
  restart at any point shows what a boot finds.  The proofs have no such bounds.
* *ManagementProcessor*: `MaxEvents` = 4 lets a connection open, a second one be refused, the
  first end and another follow; or a set-up fail half way, a restart succeed, and a
  command show the reading; all of `Lines` (every path through the tables) is looked at by
  `CommandsAreAnswered`, only the four with different effects are typed.  One sensor of each
  kind is enough because sensors do not share their pointers.

`VIEW Live` (IngressFIFO and FIFOReader) leaves out registers that are written again
before they are read and RAM words outside the part in use, and turns a RAM so that it
begins at the read pointer.  States it identifies have the same successors up to the same
identification and agree on every property, so nothing is hidden, liveness included.

## 5. Assumptions and fairness

*IngressFIFO.*  The source holds a beat until it is taken, as AXI-Stream asks, and shows
`tlast` low while idle; `tuser` is held one clock after the last beat (the tag decoder is
a submodule).  Frames have at least two beats and fit the RAM.  A link reset also ends the
frame at the source.  The reader takes at most one word per clock and its RAM read happens one clock
later.  In `IngressFIFO_frames`, `ErrorsAnywhere = FALSE`: a bad frame starts only while
the wrap bit is zero, because of 7.1; everything else is unrestricted.  `FairSpec`, used
by `IngressFIFO_ready` only, gives the clock and the reader weak fairness: both are free
running hardware.

*MACTable.*  The management client is outside the table; it holds its request until it
is acknowledged, then drops it.  `FairSpec` is weak fairness of the clock while
anything is left to do.  Nothing is assumed of traffic or of the host; the liveness
properties say so themselves by their condition `TrafficStops`: under a request in every
clock port B is never free and neither learning nor collection has a claim to progress.

*FIFOReader.*  `tready` of the crossbar is one, as `SwitchFabric.sv:137` ties it;
`xbar_ready` is any value in any clock.  A RAM word is captured when its read is issued;
`PublishedIntact` of `IngressFIFO` is what allows that.  The passing run, and the theorems
but the one on types, keep out what the code does not get right:

* frames are longer than 56 bytes.  An untagged frame is (at least 60 without its FCS); a
  tagged one of minimum size has 56 once FCS and tag are off, and belongs to the frames of
  section 7 that leave the read pointer in the wrong place;
* in the run and in `ReaderFramesIntact`, lengths are not multiples of eight (section 7);
* no frame starts in the clock that sends the last word of another (`MayStart`): `xbar_ready`
  would have to be low in that clock, and `LineCardInputBuffering.sv:317` does not see to
  that.  `FIFOReader_overlap` drops this and shows 7.4;
* there are no more ports than transaction IDs (`NUM_PORTS <= TIDS`; section 7);
* a link goes down only while its port is idle with nothing left to read (hazard at line 479).

`FairSpec`: the clock runs; the MAC table answers; and a port whose turn comes again and
again finds the crossbar ready at some of those turns (strong fairness: without it the
code lets a port wait for ever, because `xbar_ready` is sampled once per round).

*PhyPoll.*  One core; a command runs to completion.  All sessions are alike, so one
suffices.  The controller, the PHYs, the timer and `CooperativeMutex` are outside `src`.  The
status register's link bit stays low until it is read, and a link changes speed only by
going down.  Writing an LED register waits for its completion.
`FairSpec`: the core runs, the controller finishes what it started, the timer expires.
Nobody has to type a command or to change a link.

*ManagementConfig.*  One core, so a command runs to completion before another session
is heard; only power can come between two writes.  The store is a submodule: modelled as a
log in which a write of one object takes one record and is atomic, a write without room fails and
changes nothing, compaction and wiping are atomic, and an absent object reads as
its default.  The key manager and NTP use the same store; `OnCommit` does not look at their
results, so `CommittedComesBack` promises only the objects whose result it does.  Somebody
who removes half of the host key with `no flash` can bring about a pair that does not match
(the next boot stores a new public half and power fails before the private one):
`Removable` excludes that.  No fairness: all its properties are about safety.

*LineCardSupervisor.*  `PanicShutdown` switches all rails off and calls `OnFault`; whether it
asserts the reset lines is left open; `PowerOff` does both; `Iteration` looks for a lost rail
and releases the next reset line when the delay of the one before is over.  A rail that is
enabled may come up at any time, or not before the time-out.  An interrupt comes before
the task it finds.  `OnFault`'s empty loop does not crash.  Nothing is ever queued for sending on the
SPI bus (the server is commented out, `Init.cpp:131`), so the transmit half of `SPI1_Handler` is
left out.  `FairSpec`: the core never stops
(nothing in the code halts it; the loop of `OnFault` has no step) and the log timer counts.
Rails need not come up: `SystemComesUp` is about cards whose power stays on.

*ManagementProcessor.*  A transaction with a sensor that fails may still have moved its
pointer.  An entry of the TCP table that was freed keeps its port until it is read a few
lines later (`LatentRedTCPProtocol.cpp:84-88`): both run in one step.  The SSH server refuses
a connection it has no room for and forgets one that said `exit`.  An SSH packet ends at the
first complete line.  The sensors have different addresses (`SensorsAssumption`; in the code
0x90, 0x92 and 0x94 for the temperatures, `Init.cpp:102-104`).  A frame arrives only while the link is up.  When an exception strikes the
transmit FIFO is empty or full.  Interrupts are off in the boot loader until the application
enables them.  `FairSpec`: the core never stops; nobody has to type, connect or restart.

## 6. What is proved

TLAPS checks these for every value of the constants that satisfies the modules' ASSUMEs.

`IngressFIFO_proofs` and `IngressQueue_proofs`, for every `DEPTH` and every set of frames that
fit it:

* `IngressTypeCorrect`: `Spec => []TypeOK`, with errors on any lap.  It needs to know in
  addition that the VLAN register holds the VLAN of some frame.
* `RollsBackBelowTheWrap`: `Spec => RollsBackToStart` if `ErrorsAnywhere` is `FALSE`.  Together
  with the run `IngressFIFO_wrap`, which violates the same property without that hypothesis,
  this says that the missing wrap bit of 7.1 is all that is wrong with the rollback.
* `PublishedIsIntact` (`PublishedIntact`), `NothingIsLost` (`NothingLost`) and
  `ImplementsFrameQueue` (`IsFrameQueue`: initial states map to initial states, every clock to a
  step of `FrameQueue` or a stutter), under the same hypothesis, without which none of them
  holds.  None is inductive: a frame is on its way for as many clocks as it has beats.
  The inductive invariant `QueueInv` has these parts:
  - `StreamInv`, the write state and the beat counter against the beat in the input register
    and the position of the source in its frame;
  - `WriteInv`, the write pointer against its committed copy, `SpaceInv`, no more words than
    the RAM has, those still in the pipeline included, and `StartInv`, what 7.1 would break:
    the saved start of a frame is the pointer while a frame that may be bad is on its way;
  - `ContentInv`, which words of the frame coming in are in the RAM, which is in the word
    register, and what the header write will put in front of them;
  - `Published`, the words between read and published pointer are the oldest of `owed`, and
    a read in flight brings the word it was issued for.

  Under them are lemmas on pointers with a wrap bit (`Ptr`, `Addr` and differences of them)
  that need no more than arithmetic modulo `2 * DEPTH`.

`FIFOReader_proofs`, for any RAM and any traffic:

* `ReaderTypeCorrect`: `Spec => []TypeOK`, with any number of ports, any latency, overlapping
  frames and flapping links.  It needs in addition that the prefetched word being sent is one of the five.
* The other theorems assume `Setting`, what the reader can work with (section 5): `LATENCY = 7`,
  the cascade of the source, against which the prefetch depth and the start of the body are
  timed; `NUM_PORTS <= TIDS`, as many ports as the MAC table tells apart, four with its two bits
  (most of the source's 24 would not get their own replies);
  `Overlap = FALSE`, without which `FIFOReader_overlap` violates `FramesIntact` (7.4);
  `FlapsBusy = FALSE`, links go down only with nothing left to read; and frames of more than 56
  bytes, in any mix of short and long ones, on any port, queued at any time.
  - `ReaderFramesInOrder`: every frame is sent complete, once, in order, with its own VLAN and
    destination and `tlast` on its last word, multiples of eight included; the strobes are those
    of the code.
  - `ReaderFramesIntact` (`FramesIntact`): when in addition no length is a multiple of eight
    (`NoFullLastWord`), the strobes are right too.  Together the two say that the strobes of a full
    last word (end of section 7) are all that goes wrong with such frames.
  - `ReaderKeepsItsPlace` (`KeepsItsPlace`).
  - `ReaderNeverPauses`, an action property (`WordAfterWord`): each clock of a frame but the last is
    followed by the next word of the same frame.  This is what the prefetch is for.
  - `ReaderUsesFrameQueues`: seen from the reader, each port's FIFO is a `FrameQueue`: with `q` the
    words from the read pointer on, initial states map to initial states, every clock to a step
    or a stutter; a word is never taken from an empty FIFO.  `ImplementsFrameQueue` is the other
    side: the queue the reader relies on is the queue the ingress controller implements.

  None is inductive: a word is asked for seven clocks before it is sent, by a pointer that
  other frames share.  The inductive invariant `Inv` has these parts:
  - `LaidInv`: each port's RAM holds, from the read pointer on, what remains of the frames it
    owes, one behind the other, and nothing else.  `Passed` says how many words of the first
    one the pointer is past, by state and counters; `Layout` where each frame lies;
  - `FetchInv`: a port that fetches is at one of nine stages, the only one to fetch, and the
    reads of its stages so far are at their places of the pipe; `PipeInv`: other fetched words
    on their way are prefetched ones that arrive before their turn on the bus (`Due`);
  - `KeptInv`: what a waiting or sending port has of its frame, in a register or on its way;
  - `ForwardInv`: the engine's state and byte counters against the number of words sent, and
    the words of the body it has asked for at their places of the pipe;
  - `BusInv`, the word on the bus against the frame it belongs to, `OwedInv`, a busy
    port owes a frame, and `LookupInv`, one request per waiting port.

  The lemmas `LaidHead`, `LaidRead`, `LaidDone` and `LaidMore` say what reading a word,
  finishing a frame and queueing one do to a layout, for pointers that wrap; `ViewPassed` and
  `ViewJoined` say the same of the words seen as a sequence.

`MACTable_proofs`:

* `MACTableTypeCorrect`: `Spec => []TypeOK`, for every geometry, hash, traffic and set of
  management requests.
* `MACTableOnlyTaught`: `Spec => []OnlyTaughtAddresses`.  The property alone is not
  inductive, because an entry reaches the memory from a register that read it clocks ago.
  The inductive invariant is `TypeOK` with one conjunct per place an address can be on
  its way: `MemoryGenuine`, `ReadsGenuine` (the output registers of both memory ports),
  `WritesGenuine` (learning and refresh write requests, the collector's data),
  `QueueGenuine`, `RequestsCounted` (a request in the pipeline is already in `taught`) and
  `RepliesGenuine`.  There is one lemma per pipeline stage.
* `MACTablePendingDistinct` (`PendingDistinct`), from the type invariant: insertion looks at all
  slots, the one being cleared included.
* `MACTableWrittenThenCleared` (`WrittenThenCleared`), an action property.  The invariant is
  `SlotHeld`: while a write waits it is that of the slot to be cleared, and in the clock of its
  acknowledge the entry is in the memory.
* `MACTableEntryInItsRow`: `Gap >= 6` implies `Spec => []EntryInItsRow`; with five it is false
  (7.3).  Why six are enough is the invariant: `Timing` (how many clocks ago the last request
  came decides which stage of the pipeline can be busy), `OneAtATime` (so at most one slot is
  taken), and `RefreshInRow` and `CollectorInRow`, by which the other writers of port B put an
  entry back where they found it.

`PhyPoll_proofs`:

* `PhyPollTypeCorrect`, `PhyPollExclusive` (`MDIOExclusive`), `PhyPollAnswers`
  (`AnswerIsMine`), `PhyPollLogs` (`LogKeepsUp`): for every even number of PHYs, every
  list of PHYs whose temperature is read and any number of link changes.
  The inductive invariant is the four together and two facts that link them: while
  polling, the current PHY is one of the table (not one past it), and the controller is
  busy only while the mutex is taken.
* `PhyPollNeverInterrupts` (`NeverInterrupted`), an action property, from the same invariant.

`ManagementConfig_proofs`, for any number of sessions, any values, any room and any number
of commands and boots:

* `ConfigTypeCorrect`, `ConfigHostKeysMatch`, `ConfigCleanIsStored` and the action property
  `ConfigCommittedComesBack`.  The inductive invariant `IInv` adds what holds half
  way: `KeySteps` (the private half is not in flash before its step, and the public half is
  that of the key in use if there is still room), `CommitSoFar` (while no write has failed, the
  checked objects before the current step are stored), `PromiseKept` (what was promised is
  still in flash, and nothing is promised during a commit) and `LogHoldsObjects` (the log
  has a record for each object present, so compaction always fits).

`LineCardSupervisor_proofs`, for any receive FIFO and any number of presses, arrivals and
restarts:

* `SupervisorTypeCorrect`, `SupervisorSequencesKept`, `SupervisorFaultIsSafe`,
  `SupervisorLedsAreHonest` and `SupervisorOncePerPress`.  The inductive invariant `IInv` is
  these together with `RailsFollow` (while the sequence runs, the rails before `step` are up
  and those after it off; outside it a card that is not on has all rails off) and
  `PressCounted` (a press that is down, not yet remembered and not yet acted on has not been
  counted), which hold at every place of the core what the properties say at some.
* `SupervisorNoStrayInterrupt` (every interrupt that is ever enabled has an entry in the vector
  table, so none restarts the controller) and `SupervisorNoAutoRestart` (after a fault no step
  but a restart changes a rail or an LED), which are too plain to spend a run's time on.

`ManagementProcessor_proofs`, for any servers' sizes, peers, buffers, transmit FIFO, sensors and
number of events:

* `TypeCorrect` (`TypeOK`), `ReadingsCorrect` (`ReadingsAreTrue`), `SocketsCorrect`
  (`ServersKnowTheirSockets`) and `LinkCorrect` (`StackKnowsLink`).  Each rests on an invariant of
  its own over one on where the core is (`CoreInv`; its `Progress` says which PHYs and sensors
  have been looked at before a place is reached).  `SensorInv`: the sensors prepared so far have
  their pointers on the temperature, and nothing is shown before set-up is over.
  `NetworkInv`: a server's entry is open on its port at every place, the middle of
  opening and closing included.  `LinkInv`: what the stack was told against what the task
  remembers, at the place between its reads.
* `CommandsAnswered` (`CommandsAreAnswered`): every line the keyword tables accept has a handler of
  its own.  No variable occurs in it, so there is nothing to induct on; the difficulty is the
  tables, which are functions from keyword to identifier or next table.  `Handlers` lists the
  lines that have a handler, `Token1` to `Token5` follow the tables one token at a time (a table reached after a
  prefix of handled lines leads only to such prefixes or to complete lines),
  `AcceptedLines` concludes that the editor accepts no other line, and `Answers` takes each line
  through the switches, whatever host name or address it carries.

Only model-checked: liveness (`PortBServesAll`, `SilentHostsAgeOut`, `EveryFrameSent`,
`TableAndLedSettle`, `CommandServed`, `LostRailShutsDown`, `SystemComesUp`, `NothingWaitsForEver`
and `CrashIsReported`), because fairness and ENABLED are out of the prover's reach.  Every
invariant and every action property of a passing run is a theorem.  No module has a RECURSIVE
operator.

## 7. Where the code and its own words disagree

Each of these has a run that shows it, and quotes the words in `PROJECT.json`.

1. `GigabitIngressFIFO.sv:223,256`: the saved start pointer lacks the wrap bit, so rolling
   back a bad frame on every second lap leaves the write pointer a whole RAM away.
2. `GigabitIngressFIFO.sv:108,143`: a last beat offered while the FIFO is full holds
   `tready` low for ever.
3. `MACAddressTable.sv:745`: a learning write that waits a clock for the memory port loses
   its row address and goes to row 0.
4. `LineCardFIFOReader.sv:429,851`: a frame may start in the clock in which a long one
   sends its last word, and replaces it.

Seen while modelling, without a run of their own because nothing in the source promises
otherwise, or no run has both sides (the models contain the behaviour unless noted):

* transaction IDs are cut to two bits (`MACAddressTable.sv:267`; line 86 says the TID is echoed),
  so with 24 ports the reply for port 5 goes to port 1; no run has more ports than `TIDS`;
* a last word that is full goes out with no valid bytes (`LineCardFIFOReader.sv:547`), so
  a frame whose length is a multiple of eight loses its last word (`ReaderFramesInOrder` proves
  that nothing else is wrong with it);
* the supervisor's `HardFault_Handler` prints before its first flush
  (`linecard/super/main/vectors.cpp:202`): with a full transmit FIFO it never gets further
  and the card stays powered;
* a press of the supervisor's button that begins between the two reads of one pass is
  remembered but not acted on (`ButtonTask.h:49,58`);
* the supervisor's `InitGPIOs` says it turns all LEDs off and leaves the power-good LED
  (`bsp/hwinit.cpp:126`);
* a temperature sensor whose set-up fails at its second write shows its configuration
  register from then on, whether or not the processor restarts (`main/Init.cpp:116`);
* a link flag that changes between the three reads of one `FPGATask` pass is recorded
  without the stack being told (`FPGATask.cpp:44-57`);
* what comes after the link to the other FPGA waits a second for it and "hopes for the best"
  (`main/Init.cpp:217`), although it depends on it (146); accesses without the link are not modelled;
* the QSFP pins are `INIT_DEFERRED`, and `DeferredInit` is called for the LEDs only
  (`lcbringup/bsp/hwinit.cpp:98,266`; pins are not modelled);
* a new station looked up twice within six clocks gets two entries (`MACAddressTable.sv:310,686`);
* the collector erases or overwrites an entry that was refreshed or replaced between its
  read and its write (840, 856), and a refresh that loses arbitration when requests are
  close is dropped (414);
* a management request held longer than its acknowledgement is served again (527);
* only destination hits set the mark (326), although line 76 speaks of an entry that is used;
* frames of 56 bytes or less, among them tagged frames of minimum size, leave the read pointer
  one word too far (`LineCardFIFOReader.sv:447`), and a link that flaps in the middle of a frame resets
  the pointer under it (479);
* a control register write stores the read data (`LineCardControlRegisters.sv:159`);
* `commit` stores the committing session's copy of the host name, so a session opened
  before another one renamed the switch writes the old name back
  (`LatentRedCLISessionContext.cpp:433`);
* `SwitchFabric.sv` leaves `xbar_fifo_wsize` of the input buffering unconnected.

## 8. What is not modelled

* The crossbar and the exit queues do not exist in the source;
  `LineCardDestinationDecoder.sv` is instantiated nowhere.
* MACs, tag decoders, clock crossings, the TCP/IP stack, the SSH transport, the key-value
  store and the supervisor base class are submodules whose source is not in the tree; of
  each the models have what section 5 says.
* UDP dispatch (`LatentRedUDPProtocol.cpp`) hands NTP and iperf datagrams on and keeps nothing.
* Pins, clocks, PLL settings and the FPGA flash registers are written once and never decided on.
* Vendor primitives and top levels instantiate blocks that are not in the tree.
* The control registers are one APB completer whose writes have never worked (see 7).

## 9. Plan

Order: the data path first, because every frame depends on it, then the table, then the
firmware.  These steps are done.

1. `FrameQueue`, `IngressFIFO`, and the refinement between them.
2. `MACTable`, with its type and authenticity theorems.
3. `FIFOReader` over `FrameQueue`s.
4. `PhyPoll`, with its safety theorems.
5. `ManagementConfig`: the configuration commands of several sessions over the key-value store,
   with power loss between two stores, and its safety theorems.
6. `LineCardSupervisor`, with its safety theorems.
7. `ManagementProcessor`: `CommandLine`, `SensorBus` and `ManagementNetwork` on one core, from
   the boot loader to the main loop, with restarts and crashes.
8. Theorems: for `IngressFIFO` all its safety properties and the step simulation for
   `FrameQueue`; for `MACTable` `PendingDistinct`, `WrittenThenCleared` and `EntryInItsRow`; for
   `ManagementProcessor` the safety of sensors, connections and link.
9. Theorems for `FIFOReader`: type correctness, order and completeness of frames, `KeepsItsPlace`,
   no pause within a frame, and the refinement of `FrameQueue` per port.
10. `CommandsAnswered` for the command language.

Left: `InputBuffering`, `IngressFIFO` and `FIFOReader` composed for one port.  The two
refinements of `FrameQueue` meet in the middle; what the composition would add is a link that flaps
while a frame is read, which the source does not handle.  `ControlRegisters`, once its writes work.
