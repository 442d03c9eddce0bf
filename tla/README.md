# gbarecomp: specifications and proofs

gbarecomp is a static recompiler for the Game Boy Advance with a runtime that
can run several consoles in one process, join them by a cable or a wireless
adapter, and play them over a network with rollback. This directory holds TLA+
models of the parts of it whose correctness depends on the order of events,
TLC configurations that check them on small instances, and TLAPS proofs for
every instance.

Paths below are relative to the repository.

## The system

| Part | Source | State it keeps | Operations | What is hard | Status |
|---|---|---|---|---|---|
| Link cable hub | `src/gba/gba_link_hub.*`, `gba_serial_device.*` | per port a clock, SIOCNT, RCNT, send and receive words; one transfer in flight | register reads and writes, tick, plug, save, load | ports reach the end of a transfer at different moments; a transfer is dropped half way; snapshots in mid-transfer | `LinkHub`, `CableExchange` |
| Session scheduler | `src/runtime/multiplayer_session.*`, `runtime_bus_bridge.cpp` | session clock, per console a CPU clock and HALT | `run_frame`, `run_until`, save, load | CPUs run ahead of devices and of each other; timed DMA writes registers while devices are ticked one by one | `CableSession` |
| Netplay rollback host | `src/runtime/multiplayer_netplay.*` | next tick, published row, snapshot ring, pinned boundary, recovery candidate, state cache, checkpoint request, output | driver callbacks, run tick, pin, retain, copy, restore, output | predicted input is taken back: everything derived from it must go too | `NetplayHost` |
| Self-heal loader | `src/runtime/overlay_loader.*` | native, in-flight, failed, parked and pooled functions; two queues; stop flag | request, drain, adopt, playback, shutdown; worker | two threads, two mutexes and a condition variable; results apply at recorded boundaries | `OverlayLoader` |
| Wireless adapters | `src/gba/gba_wireless.*` | per adapter a command exchange, role, children, payloads, deadlines | register writes, commands, radio service | associations seen from both ends; disconnection, notices, changes of role | `WirelessRadio` |
| Checkpoint agreement | `src/runtime/multiplayer_checkpoint.*` | phase, copied checkpoint, proposal, receipts | `begin`, `poll` | loss, delay, a seat that leaves or times out between two phases | `CheckpointAgreement` |
| Match | `src/runtime/multiplayer_match.*` | phase, boundary, quiescence, finish | `begin`, `poll`, `request_checkpoint`, `fail` | a request seen at different times by seats that run ahead; a driver that still corrects | `NetplayMatch` |
| Startup barrier | `src/runtime/multiplayer_startup.*` | phase, uploads, assembly, replies | `begin`, `poll` | seats that time out or leave while others have counted them | `NetplayStartup` |
| Save durability | `src/debug/file_replace.cpp`, `src/debug/snapshot.cpp`, `src/runtime/suspend_guard.h`, `src/runtime/runtime.cpp` | battery file, state file, marker; dirty flag and counters | flush, autosave, suspend, mark, resume, exit | a crash or a failing operation between any two steps | `SaveDurability` |
| Diagnostic replay and its writer | `src/runtime/diagnostic_replay.*`, `src/debug/replay_writer.*` | open segment, gap, queue, files; playback position | frame boundary, worker, playback | a full queue in the middle of a group of records; restores; kills | `DiagnosticReplay` |
| IO registers | `src/gba/gba_io.*`, timers, DMA, IRQ | registers, timers, one DMA channel, flags | reads, writes, ticks | simultaneous events, cycles stolen by DMA | `Devices` |
| Lazy device catch-up | `src/runtime/runtime_bus_bridge.cpp` | cycles pending, cycles to the next event | `runtime_tick`, register access, idle loops, `pump_idle` | devices behind the clock, seen or changed too early or too late | `LazyClock`, `EagerClock` |
| Checkpoint file | `src/runtime/multiplayer_checkpoint_file.cpp` | files | write, read | crash between two steps | not modelled |
| Save chips | `src/gba/gba_save.*` | chip contents, command state, dirty flag | byte writes, bit streams | interrupted command sequences | not modelled |
| Heal gate | `src/runtime/heal_gate.*` | epochs and hashes of RAM code | validate, revoke | stale code | not modelled |
| Clock, GPIO, sensors | `src/gba/gba_rtc.*`, `gba_gpio.*`, `gba_gyro.*`, `gba_solar.*` | bit-serial protocol state | pin writes | interrupted commands | not modelled |
| Picture, sound, bus, BIOS services, processor, recompiler, host window, mods, debugging tools, presentation | the rest of `src/` | | | arithmetic, input and output, or batch programs | not modelled, see `PROJECT.json` |

How the modelled parts interact:

    netplay driver (library) --callbacks--> NetplayHost --run_frame--> session
    session (run_until) --register writes of CPUs and DMA, tick--> hub
    hub --request_irq--> console i --wakes--> session
    game thread --request, drain--> loader <--two queues--> worker thread
    recorder / player --adopt, set active--> loader
    recorder --bounded queue--> writer thread --segments--> player
    match --begin, poll--> checkpoint agreement, startup barrier --messages--> other seats
    match --next tick, watermark, quiesce--> netplay driver
    game thread --flush, suspend, mark--> files --next launch--> game thread
    processor (runtime_tick) --pending cycles--> devices --interrupts, stolen cycles--> processor

A whole session is one deterministic value to the netplay host, so the host is
modelled over an opaque simulation (the sequence of inputs it was fed), and the
session in detail by `CableSession`, which extends `LinkHub`.

## Modules

**`CableExchange`** is what the cable promises to programs: an exchange takes
all data at one instant and gives it to all participants at one later instant,
or gives nothing. It knows no clocks, modes or control bits.

**`LinkHub`** is `GbaLinkHub`. A 16-bit word is two bytes of a small set, since
8-bit transfers and 8-bit register writes move bytes apart. SIOCNT keeps the
bits the hub reads; RCNT its two mode bits. `WriteControl` is the whole branch
of `Endpoint::write16` for 0x128, with `Interrupts` and `Disarmed` for
`cancel()`, `StartMulti` for `start()` and `StartNormal` for `start_normal()`,
evaluated on SIOCNT as it stands at that point of the code. `Tick` contains
`complete_if_ready`, which clears BUSY, delivers and raises interrupts in one
step. A C++ throw sets `fault` and nothing happens afterwards, as the match
above the session fails. Its `Spec` has an owner that does anything in any
order. Two substitutions are made: bits nobody reads are dropped, and 64-bit
overflow of clocks (34 thousand years) is not modelled.

**`CableSession`** is `run_until`: phases `cpu` (lines 170-213), scheduling
(216-237), `devices` (239-261), and `display` for the part of `tick_devices`
after the serial tick of one machine, where a timed DMA may write registers.
A step is one machine's turn. A program is any sequence of instructions. An
instruction that touches a device ends a batch before it runs
(`runtime_should_yield`, `multiplayer_slice_safe`), so writes happen at the
session clock; instructions that touch none may be batched up to the deadline.
Timers and sound are periodic device events like the display and are
represented by it.

**`NetplayHost`** is `GbaNetplayHost`. The value of the simulation is the
sequence of inputs it has been fed, so two states are equal exactly when their
histories are. `rows`, `base` and `planned` are history variables. The driver
is external: it opens a correction (`resim_begin`), loads a snapshot, drops
what is after it, replays, and closes it; other calls come where the driver and
the match make them.

**`OverlayLoader`** has one action per region between two points where the
other thread can intervene: `s_work_mtx` is held by the worker from `test` to
`block`, so `Push` waits, while the stop flag and `notify_*` need no mutex.
`wait` may return spuriously. Keys are split by what the code does with them:
compiled by the worker, compiled on the spot in every adoption mode
(`MissCompiledNow`), or of unknown image.

**`WirelessRadio`** is the radio side of `GbaWirelessDomain`: one record per
adapter with the fields of `Port` that commands and the radio use. There is one
action per command code that changes something, evaluated when its last word
has arrived (a refused command changes nothing), and one each for the radio's
service (`Radio`, that is `transmit`), the deadline of a wait (`Timeout`), the
console taking its notice (`ReadNotice`), the reset pin and the console coming
off or on. `Disconnected` and `Noticed` are `disconnect` and `notify`. The waits
begin in the code with the reply's last word and here with the command; a
notice that comes between is kept in both. A payload is its size. The constants
`Programs`, `Setups`, `Sizes` and `Masks` say what the consoles command, how they
set their adapters up, how much they send and which slots they disconnect;
`Plugging` whether they come off.

**`CheckpointAgreement`** is `GbaNetplayCheckpointAgreement::poll`, one action
per branch of each role's phases: `Capture`, `ProbeArrival`, `TakeArrival`,
`Propose`, `TakeReceipt`, `ProbeReady`, `TakeReady` of seat zero and
`AnswerArrival`, `TakeProposal`, `SendReceipt`, `ReceiptAcked`, `AnswerReady` of
a guest, with the exits common to all (`TimesOut`, `SeesGone`). The transport is
modelled from what `poll` asks of it: a probe that every guest answers or not, a
broadcast proposal, a receipt per guest, and acknowledgements that need never
come. `Reach` and `Correct` stand for the rollback driver, which may still
change what a seat has at the boundary until it is quiet.

**`NetplayStartup`** is the cold start of a match: a packet of save and clock
uploaded by every seat, assembled by the first and applied by all, then a start
probe. `Delivered` is the transport's acknowledgement of an assembly.

**`NetplayMatch`** extends `CheckpointAgreement` with `GbaNetplayMatch::poll`: a
seat runs ticks, its driver confirms rows as they come, a request for a
checkpoint is a row, and `Looked` is the test at lines 105-115 that turns the
first confirmed request into a boundary. `Construct`, `PollAgreement`,
`Followed` and `Finish` are the settling of the driver, the agreement,
quiescence and the last comparison. Of the agreement it uses the actions
themselves, so the run composes both. A boundary planned from the start
(`planned_finish_tick`) is left out.

**`SaveDurability`** keeps a list of the calls a session has still to make
(`calls`) and a position in the first of them (`at`); a file operation is a
step, and a session can be killed between any two or find that one fails. Save
contents are the number of the guest write that made them; torn writes and
missing files are contents too. `MoveOver` ... `DropParked` are the steps of
`replace_file_preserving`. Where the code does not look whether an operation
succeeded (the two removals of a parked copy, the removal of the marker), the
model goes on either way. `stuck` is a history variable: with no battery in
place, a flush could not remove a parked one, and went on.

**`DiagnosticReplay`** is recorder, queue, worker, files and player. A machine
is a frame number of the history `past`, which says from what and with what
input it came, and the player reruns by looking there; a machine nobody has been
in is `Lost`. Handlers put a list of commands in `todo`, and each is accepted or
refused by the queue in a step of its own, as `enqueue` is called for each.

**`Devices`** has the events of timers, serial port, picture and one DMA channel
as functions of one record, each from its code in `gba_io.cpp` and
`gba_ppu.cpp`, and `Ticked`, the loop of `tick_devices` (a recursive function
`After` of the number of cycles). **`EagerClock`** is a machine that ticks its
devices with every instruction and charges stolen cycles at once; what devices
it has, and what time, stores and loads do with them, are operators it takes as
parameters. **`LazyClock`** is the code: `Tick` is `runtime_tick`, `Read` and
`Write` bracket an access with `runtime_mmio_catch_up` and
`runtime_resync_horizon`, `Elide` is the skip of an idle loop, `Idle` is
`pump_idle` (whose cap on a chunk, the rest of the caller's budget, is left out:
a capped chunk is followed by another). It implements `EagerClock` by the
mapping that takes the devices to `Now`, the devices ticked up to the present.

`MCLinkHub`, `MCCableSession`, `MCWirelessRadio`, `MCBarriers` and `MCLazyClock`
give the constants values. `MCNetplay` (rollback host, match), `MCMachineCode`
(lazy clock, loader) and `MCHostServices` (saves, replay, wireless adapters) put
components that share no state into one run, and some others put two instances
of one component there: a variable that never changes (`owner`, `program`,
`cold`, `side`, `part`, `service`) says which of them a behaviour is of, and the
rest stays as it begins, so the states are the sum of the parts and not their
product.
`CableSessionProofs` (of the hub and of the scheduler that drives it),
`WirelessProofs`, `CheckpointProofs` (of the agreement and of the match around
it), `StartupProofs`, `HostServicesProofs` (of the battery save and of the
overlay loader), `NetplayHostProofs`, `ClockProofs` and `ReplayProofs` (of the
diagnostic replay) hold theorems.
Operators whose name ends in an underscore and a description
(`Complete_LiveWords`) are mutants: a plausible bug in the operator they are
named after. No specification uses them.

## Runs

| Run | Question | Bounds |
|---|---|---|
| `LinkHub` | Does every reachable state load, does data move as `CableExchange` says, do clock drivers ever disagree? | two ports; multiplayer with clocks to 3 and one machine unplugged at a time, or normal 8- and 32-bit transfers with clocks to 2; durations 1 to 3 |
| `SessionRing` | Does the scheduler keep the hub's contract; do transfers end and halted machines wake? | clock to 10 (two frames of 5), display event every 3, lookahead 2, transfers of 3 and 4 |
| `Netplay` | Does anything survive a rollback that should not? Do all seats stop at one boundary, in time, and keep what was agreed? | host: 3 ticks, ring of 2, two inputs of which one asks for a checkpoint, recovery to a state of length 1; match: two seats, 7 ticks, input delay 1, one tick ahead of confirmation, boundary 3 ticks after a request, with rollback and without |
| `Barriers` | Is success, once told to anybody, true of everybody; do both barriers end? | three seats, two states and boundaries, one seat leaves |
| `HostServices` | Is a save ever taken back or lost; does a recording rerun; do both ends of every wireless association agree, without cycles; does what a child sends arrive, and has a dropped child a notice to read? | three writes, five failures or kills; a queue of 8 units, three frames, segments of one frame of which two are kept, one restore; three adapters with all roles and no payloads, or a host and a child with every command and sizes 16, 17 and 88 |
| `MachineCode` | Is the lazy clock the eager one? Is every function in exactly one place, does a capture log what it installs, is every request answered? | lines of 6 cycles, two timers of two bits, a transfer of 3, DMA of 2 cycles, instructions of 1 and 3, two register stores; two worker functions, one compiled on the spot, one unknown |
| `IdleWake` | Does a halted machine wake with its interrupt? | picture interrupts only (violated) |
| `DiagnosticHoles` | Does a reported match cover all segments? | segments of one frame, three kept (violated) |
| `OverlayShutdown` | Does a shutdown end? | one function (violated) |
| `OverlayPlayback` | Does a playback run natively only what was recorded? | one worker function, one compiled on the spot (violated) |
| `WirelessSnapshot` | Does every reachable state load? | three adapters (violated) |
| `SaveRollback` | Does what a session plays ever fall behind the battery file? | three writes, six failures or kills (violated) |

Why the bounds are enough. On the cable every rule is about a port and its
lower neighbour, or about all ports at once, so two ports reach every case, and
clocks up to the longest transfer let two transfers follow one another. In the
session, one frame boundary lies inside the bound with transfers across it; the
lookahead is shorter than the shortest transfer, and instructions are as long as
the lookahead or longer. In the netplay host three ticks over a ring of two allow
eviction, a correction behind a pinned boundary, and a second correction. Two
functions in the loader make both queues longer than one. Three adapters are a
chain of a child, a host that is a child itself, and a host; or a host with two
children, in its first two slots, the only ones a disconnect has to name;
payloads of two children do not meet (each has its slot), so one child is enough
for them, and sizes on either side of each limit tell the limits apart.
At the barriers, with two guests one can be done while the other is not, or
gone; more guests are further ones of these. In a match, the two seats are one
that learns of the request first and one that learns last, and the lead is the
smallest with which a request is confirmed in time by a seat that may run ahead
(`LeadAssumption`), so the real 64 has slack where the model has none. A match
without rollback runs only confirmed rows, and its copies never change; both
kinds are initial states of the run. Three writes are a save
that is on disk, one that is in a suspend state, and one that is in neither.
Five losses are a battery parked (a refused rename) by a session that is killed,
and then a flush whose rename, removal of the parked copy and second rename all
fail, so that the copy is put back; three are a failed operation, a failed
repair and a kill. The sixth of `SaveRollback` is the failure or kill before all
that, which leaves a marker of an older battery. A queue of 8
units fills up in the middle of a boundary's commands, and three frames in
segments of one make the oldest be removed while the newest is opened. Lines of
six cycles put picture, timer, serial and DMA events in every order, and at one
cycle, within two stores. The proofs below remove the bounds for the safety
properties of the cable, the session, the adapters, both barriers, the match,
the save files, the rollback host, the loader and the lazy clock.

Not every type invariant is a property of a run: those of `NetplayHost`,
`OverlayLoader`, `NetplayMatch` and `SaveDurability` are proved instead
(`HostTypeCorrect`, `OverlayTypeCorrect`, `MatchTypeCorrect`, `SaveTypes`), and
`ReplayTypeOK` is kept beside its specification as documentation.

**Deadlock** is not checked (`CHECK_DEADLOCK FALSE`): a session ends at its
bound or in a throw, a loader that has shut down is off, an adapter asleep waits
for its console, an agreement is done or has failed, a playback is over.

**Fairness.** `CableSession` has weak fairness of its next-state relation: it is
a loop on one thread, with a host that calls `run_frame` for ever. In
`OverlayLoader` both threads run (weak fairness of each), and a thread that
waits for a mutex is granted it eventually although the other may take it again
(strong fairness of `Push`). Nothing is assumed of spurious wakeups. The two
liveness properties of the session are stated inside its clock bound; that the
bound ends time is not a property of the program. At the barriers every seat
polls for ever while its machine runs (weak fairness of each seat's steps);
nothing is assumed of acknowledgements, which may be lost, and nobody has to
time out or leave.

## What was found

* `OverlayShutdown`: `overlay_loader_shutdown` (overlay_loader.cpp:502) sets
  `s_stop` and notifies without `s_work_mtx`. When both fall between the
  worker's test of its predicate and its wait, the worker sleeps for ever and
  `join` with it; the comment on line 504 calls it bounded.
* `IdleWake`: `pump_idle` (runtime.cpp:2271) asks lagging devices for their
  next event. A store to HALTCNT leaves its own cycles pending, so the first
  chunk passes the event by that many and the machine wakes late. The comment at
  runtime_bus_bridge.cpp:852 calls the wake exact with respect to the oracle,
  which ticks its devices with every instruction. For the devices nothing
  changes: `IsEager` holds with idle chunks of any length.
* `DiagnosticHoles`: `start_segment` takes the next segment number before its
  commands are in the queue (diagnostic_replay.cpp:249). If the end of the old
  segment is accepted and the beginning of the new one refused, no `G` is
  written, a number is skipped, and playback, which opens the next number only,
  reports a match and stops with frames left.
* `WirelessSnapshot`: an adapter that hosts children may connect to another
  host (gba_wireless.cpp:276-284). It stops hosting and keeps its children, and
  `load_state` refuses that (398). One that sent up to 87 bytes as a host and
  then connects keeps `tx_size` (283), which `load_state` refuses of a child
  (384). In both cases a snapshot of the session cannot be restored any more,
  which rollback and docs/WIRELESS.md:21 rely on.

* `SaveRollback`: `replace_file_preserving` goes on when it could not remove an
  older `.bak` (file_replace.cpp:19) and may then put that one back (31). The
  trace: the battery is missing, and an autosave stores save 1, not yet flushed,
  with a marker that says so. Save 2 is flushed and the autosave that
  would refresh the marker fails, or the session is killed before it. The flush
  of save 3 finds its rename refused, parks battery 2, and the session is killed.
  The next launch finds no battery, as the marker says, and resumes save 1. Its
  flush finds the rename refused, cannot remove the parked battery 2, is refused
  the second rename too, and puts battery 2 in place. The session plays save 1
  and overwrites battery 2 with its next flush. The comment at
  runtime.cpp:4227-4229 says that resuming "can never roll back a newer save".
  It takes six failures and kills, and short of them `NothingRolledBack` holds:
  it excepts the behaviours in which a flush that finds no battery in place
  could not remove a parked one. `CleanMeansOnDisk` excepts them too, for in
  them a resumed save that counts as clean can meet an older battery put back.
* `OverlayPlayback`: `overlay_request_compile` compiles code of RAM, and with
  synchronous healing all code, and makes it native at lines 539-563, before it
  looks at the adoption mode (571). A playback therefore adopts functions that
  the recording does not list, against overlay_loader.h:97-98 and
  docs/DIAGNOSTIC_REPLAY.md:129-131. What the mode does keep a playback from is
  the worker: it hands it nothing.

Not checked, but met on the way: `runtime.cpp` 4520-4527 has an `else` that
binds to the inner `if`, so the message about recording appears in the wrong
case; and a result parked by a capture may be requested and compiled again,
which costs time and nothing else. After a marker that could not be written, a
kill between parking a battery file and putting the new one in place leaves no
battery file and a resumable state whose save counts as clean;
`CleanMeansOnDisk` therefore allows a missing file. A state has such a parked
copy as well, and an older state put back under a newer marker does no harm: the
marker names a battery which either is lost or which the older state continues
(`Continues` below).

## What is proved

`CableSessionProofs`, of the hub, for every number of ports from two to four, all
positive durations, and any byte values:

* `HubInvariant`: `Spec => []HubInv`. The inductive invariant is `TypeOK`, the
  conditions of `load_state` (`LoadAccepts`), `NoClockConflict` and the fact
  they rest on: port zero is armed in every normal transfer (`DriverArmed`).
  Without it a second start could meet a transfer whose driver it is not.
  There is one lemma per action, and one (`SoundKept`) for register writes that
  start nothing.
* `HubTypes`, `HubSnapshotsLoad`, `HubNoConflict` follow.
* `HubImplementsExchange`: the hub implements `CableExchange`. Each step is
  sorted by what it does to registers, interrupts and the transfer (`IsStutter`,
  `IsAbort`, `IsLocal`, `IsAcknowledge`, `IsBeginRing`, `IsBeginChain`,
  `IsDeliver`). `WriteControlRefines` is the long one: a write of SIOCNT starts an
  exchange, drops one or leaves it alone. A write that drops one and starts
  another has both in one step, which counts as the beginning. The invariant is
  needed for the participants of a transfer in flight, and to exclude the throw
  for disagreeing clock drivers.

`CableSessionProofs`, of the scheduler, for any programs, instruction costs, event period, wake
latency and lookahead shorter than every transfer (`LookaheadAssumption`):

* `SessionInvariant`: `SessionSpec => []SessionInv`. `NeverCrosses` is not
  inductive: one has to know where each port's clock stands in the middle of a
  pass (`ClocksFollow`), that the pass goes no further than the target, the
  transfer's completion or any running CPU (`PassIsShort`), and how far ahead a
  batch may have begun (`BatchesAreShort`).
* `SessionNeverCrosses`, `SessionCpuStarts`, `SessionNoInterruptBehind` and
  `SessionBoundaryLoads` follow.
* `SessionOwnsHub`: the scheduler is one of the owners `LinkHub` allows, so the
  theorems about the hub hold under it; with the refinement,
  `SessionExchanges`.

`WirelessProofs`, for any number of adapters up to 256, any programs and
payloads:

* `RadioInv` is `RadioTypeOK`, `AssociationsAgree`, `NoCycle` and `AcceptingIsRoot`:
  who accepts children has no parent. A new child's host is therefore the top
  of its tree, which keeps trees trees. Every step keeps all links (`Kept`),
  cuts some at both ends (`Cut`), or adds one (`Linked`); one lemma for each
  says it keeps the invariant, and the actions are sorted into the three.
  `DisconnectedLinks` computes which links `disconnect` cuts and needs
  `NoCycle` itself: an adapter is not its own grandparent.
* `Associations`, `Acyclic` and `RadioTypes` follow.
* `HostsAreRoots` adds `HostIsRoot` to the invariant: a host has no parent, so an
  adapter that clears what it sends as a host loses no payload it had as a
  child. With it every step of an adapter is `Honest`: it tells whomever it
  drops and takes away no payload that was not delivered. The action properties
  `DropsNoticed` and `PayloadsKept` follow.

`CheckpointProofs`, for any guests, boundaries and states, with seats that leave
or time out and drivers that correct the past at any moment:

* `AgreementInv` is the types, `HostIsLast` and what a phase says of the messages
  before it: who has copied what (`Copied`), who has answered the arrival
  (`Answers`), how far seat zero may be (`Stages`), and that a receipt is only
  given for the state seat zero holds (`Receipts`). `DoneMeansAllHold` alone is
  not inductive: a seat is done after a message of seat zero, which is right
  because seat zero has all receipts, and a receipt is right because of the
  proposal.
* `AgreementIsShared`, `AgreementHostLast` and `AgreementStallsNobody` follow.
* `MatchInvariant`: the same agreement inside a match, with or without rollback,
  for any input delay, any number of ticks a seat may run ahead of confirmation,
  and any lead that is longer by two (`LeadAssumption`; the code has 64).
  `MatchInv` adds to `AgreementInv` what confirmation means (`Watermarks`: every
  seat has sampled what one has confirmed), that whoever has planned knew of the
  earliest request (`Planned`), that whoever has not is still short of it
  (`InTime`), and which copies can no longer change (`StillCopied`). `Watermarks`
  excludes that a later request is for an earlier tick than one somebody has
  planned from, which is what `Planned` needs.
* `MatchPlansTogether`, `MatchIsNeverTooLate`, `MatchStopsTogether`,
  `MatchSavesAgreed` and `MatchTypeCorrect` follow.

`StartupProofs`, for any players and packets: `StartupInv` has what the first
seat has collected (`CollectedIsApplied`), what an acknowledged assembly means
(`AppliedIsComplete`) and the order of the phases (`InOrder`); `StartupIsShared`
follows. The assumption is that the first seat is not one of the others.

`HostServicesProofs`, of the save, for any delays, any number of writes, failures
and kills:

* `SaveInv` says of a marker that names a battery that this battery is lost for
  good, in place, parked and in the chip (`Gone`), or that the suspend state, a
  parked one that may come back, and the chip continue it (`Continues`); both
  until `stuck`. `NothingRolledBack` is not inductive without it: a resume trusts
  the marker, the marker was written long before, and in between files were
  replaced half way, put back, and sessions killed.
  `InFlight` says what a replacement has got to, `Planned` that a marker's call
  only comes right after that of its state, `Timely` how late a flush can be.
  There is one lemma per action; `Untouched`, `GoesOn`, `FailedKeeps`,
  `WrittenKeeps`, `Rescheduled` and `NewPlan` are the kinds of step they share.
* `Guarded`, on top of `SaveInv`, is for `CrashGuardHolds`: as long as nothing
  has failed, each planned flush of a dirty save is followed in the plan by a
  call that puts the marker right or removes it (`Settled`), and the marker is
  as it should be unless such a call is still ahead. It is an invariant of
  plans, since between a flush and the marker's call the property is false.
  `SaveCrashGuard` follows.
* `SaveNotRolledBack`, `SaveCleanIsOnDisk`, `SaveFlushedInTime`, `SaveTypes` and
  the action property `SaveReplaceLosesNothing` follow. The first two say nothing
  of a behaviour after it is `stuck`; `SaveRollback` shows why. It is assumed
  that the delays are ordered as in the code (`DelaysAssumption`) and the bounds
  are numbers.

`NetplayHostProofs`, for any input rows, ring depth and length of a match:

* `HostInvariant`: `Spec => []HostInv`. The history variables give every
  boundary of the current timeline a state (`StateAt`) and an earliest request;
  the invariant says that all the code stores agrees with them: the simulation
  (`Fed`, but for a frame that threw), the request (`Asked`), a cache still
  marked fresh (`CacheFollows`), snapshots (`RingFollows`), the pinned boundary
  (`PinFollows`) and the recovery candidate. The ring may hold an abandoned
  future only between the load of a snapshot and the driver's `snap_drop_after`
  (`Correcting`); a rollback shortens the history without changing the rest of
  it (`SameHistory`, `SameRequests`).
* `CandidateFollows`, `CacheFollowsWorld`, `PinSurvives`, `RequestFollows`,
  `CheckpointsFollow` and, with bounds on the lengths of states, the types
  `HostTypeCorrect` follow.

`HostServicesProofs`, of the loader, for any functions:

* `OverlayInvariant`: `LoaderSpec => []OverlayInv`. A function in flight is
  pushed, queued, being compiled or finished (`InSomePlace`), in only one of these
  (`OnePlace`) and there once (`OncePerPlace`).
* `InflightAccounted` (by counting the places), `CaptureIsComplete` and
  `OverlayTypeCorrect` follow.

`ClockProofs`, for any prescalers, timer width, lines of a picture, durations,
DMA cost and register stores (`DevicesAssumption`: they are positive where the
hardware's are, and a line has a visible part and a rest), any instruction
lengths but zero and any wake latency (`CostsAssumption`):

* What a chunk of the loop does to each register (`ChunkIs`), and that a chunk
  that ends before the next event raises nothing, steals nothing, and may be cut
  in two (`QuietChunk`, `QuietThen`) with the event that much nearer
  (`QuietHorizon`). The timers are the hard part: a prescaler that counts in two
  parts counts the same (`SplitCount`), a timer in cascade counts the overflows
  of the first, and a timer that has just been reconfigured may be past its
  event, which the code rounds up to a cycle.
* `AfterDefined`: the loop over chunks ends, because each takes a cycle at least.
  No induction theorem with an operator as parameter is available, so the
  function is built below any bound and a smallest counterexample is excluded
  (`LeastExists`). `TickedAdds`: time passes at once or bit by bit, to the same
  devices. `TickedAside`: stolen cycles and the halt have no part in it, so they
  can be charged afterwards.
* Each function of the runtime takes a valid clock to a valid clock and its value,
  the devices ticked up to now, to what `EagerClock` makes of it (`FlushedIs`,
  `DrainedIs`, `AdvancedIs`, `WokenIs`, `TickIs`), and there is one lemma per
  action. A clock is valid when what is pending falls short of the next event
  and the budget promises no more than is left until then; the second half is
  what makes the first inductive, as the code looks at the budget alone.
* `ClockFiresNothing` and `ClockIsEager` follow.

`ReplayProofs`, of the diagnostic replay, for any bounds of the queue, the
segments and the session (`QueueAssumption`: positive numbers, and half the queue
holds more than three commands):

* `RecordingHolds`: `ReplaySpec => []RecordingInv`. What playback meets was
  decided long before, so the invariant is about the whole stream of records:
  those of the open file, then the commands in the queue, then those the
  recorder is about to give (`Stream`).
  `Grammar` says of each item what it may follow: an input is given to the
  machine of the snapshot or fingerprint before it, and a fingerprint is that of
  the only frame that came of this machine and input; if it takes over the hash
  of the save, the one before it has the same save. `Joins` says of each segment
  that begins without a restore that the one before it ends with a gap or with
  the machine this one begins with, or is not there; `JoinedFile` says the same
  of files, and `Ascends` that segments are numbered upwards. `Before` says that
  no fingerprint is of an input yet to be polled, which is why a frame is known
  by what it came of even after a restore.
* The worker takes from the front of the stream (`Cut`, `Opened`) and may replace
  a command by its record (`Written`), which the grammar cannot tell apart; the
  game only adds to the end. What it may add depends on what the stream ends with
  and on the recorder's flags: `TipInv` has one part for each point of the
  protocol between two boundaries (`InputNext`, `AwaitsFrame`, `FrameRan`,
  `HalfWay`, `PrintNext`). A command that the queue refuses leaves the stream
  without an end, and then nothing follows until a gap and a new segment
  (`RecorderInv`, `Batch`); `NumbersInv` keeps such an unfinished segment's number
  from being taken for a predecessor.
* A kill leaves a file cut off anywhere; the grammar of a beginning is the grammar
  of the whole. After a failure of the worker nothing is claimed of the queue.
* `RecordingRerunsHolds`: playback holds the machine that the record at its
  position is given to (`PlayInv`), so no comparison it makes fails.

Model-checked only: the properties found violated, where the run shows the
counterexample, and all liveness, which is outside the prover's reach.

## Not modelled, and plan

The source has 78 thousand lines, most of them generated tables, vendored
headers, rendering, sound, the recompiler and host windows; the models are of
the parts whose correctness depends on order, failure or time.

Within modelled parts: save slots, rewind, imports and the backup of a battery
file of another size; timing, native-code and advisory records of the replay and
the byte budget of its checkpoints; audio and the other DMA channels in
`Devices`; the words on the serial port of the wireless adapters.

Next: the serial side of the wireless adapters; the heal gate; save chips; the
browser's save store.
