# SDR Town: TLA+ models, checks and proofs

SDR Town is a desktop receiver suite: several workflows (listening, P25, satcom
scanning, Inmarsat, aircraft, SSTV) share a set of software-defined radios. This
directory holds TLA+ models of the parts of the program that share state between
threads, the TLC runs that check them on small instances, and TLAPS proofs of
the properties that matter most. Paths below are relative to the repository.

    tlc -config MCDuo.cfg MCDeviceLeases.tla         # a run
    tlapm DeviceLeases_proofs.tla                    # the proofs of a module

## 1. Inventory

### 1.1 Components, state and operations

**Lease book** (`include/DeviceOwnership.h`). Who may use which radio. State:
the endpoints (identity key and physical domain of every discovered radio), the
reservations of identities for workflows, the lease of an index (a token with
generation, unique id, owner and client), the announced stops, the permits of
commands in flight. Operations: bind, append, setAssignments, claim, release,
beginStop/endStop, beginControl/endControl. A plain class without a lock of its
own: `DeviceManager::leaseMutex_` protects it.

**Device control plane** (`src/DeviceManager.cpp`, `claimDevice` to
`restoreDevice`, `enumerateDevices`). State: the discovered devices, the streams,
the tune requests, the assignment file, and the lease book. Called by the GUI
thread, by workflow worker threads, and by the detached threads that open native
hardware. The lease lock is never held across a driver call or a condition wait,
so a call is several critical sections and calls of different threads interleave.

**Receive stream lifecycle** (`src/DeviceManager.cpp`, `startStreamingImpl`,
`stopStreamingImpl`, `rxThreadFunc`, `launchRxWorkers`, the cleanup records).
State of a stream: session generation, stop flag, runtime label, native handles,
worker thread objects, the IQ ring, the centre frequency with its request and
applied numbers. A start publishes a synthetic stream at once and opens the
hardware in a detached thread, which hands over later; a driver call may never
return, so stop detaches workers after 300 ms.

**Driver I/O lock** (`include/DriverIoMutex.h`). A ticket lock for each native
radio: receive loop, tuning, settings and teardown take it, closing a transmitter
tries it.

**Satellite engines** (`src/SatcomScannerEngine.cpp`, `src/InmarsatEngine.cpp`)
borrow a radio that the main receiver (Listen) may be on and give it back. State:
the run flag, the worker, the lease, the previous state of the radio, the lease
under which Listen was parked, and whether a pass is armed. Operations: start,
stop, arm and disarm a pass, the worker's loop, and the cleanup that a failed
worker queues for the GUI thread.
**Receiver takeover sessions** (`include/ReceiverTakeoverSessions.h`, called by
`MainWindow`): what was parked on a radio and under which lease, so that only its
borrower brings it back.
**Workflow radio session** (`src/WorkflowRadioSession.cpp`): on its owner's thread
claim, configure, tune, start, wait up to ten seconds for live hardware at the
right frequency, stop on failure.

**P25 follow** (`P25FollowStateMachine.cpp`, timer in `MainWindow.cpp`): decides
when a radio that left the control channel for a call stays and when it returns.
**P25 traffic channel processor** (`P25TrafficChannelProcessor.cpp`): folds each
decoded batch of bursts into what is known of the call, read by other threads.
**P25 rolling IQ and voice path** (`P25RollingIq.h`, `MainWindowP25Voice.cpp`,
`MainWindowP25Orchestration.cpp`): the DSP thread keeps a rolling window of IQ
for each receiver session, hands chunks to a decode worker one at a time, and
publishes, holds or rolls back what comes back.
**P25 transmit** (`P25TxSession.cpp`) is the push-to-talk decision function; the
decoders are signal processing.

**SSTV input** (`SstvReceiverFeed.cpp`, `SstvLiveInput.cpp`,
`SstvLiveSession.cpp`, `SstvStreamWorker.cpp`): the receive loop publishes blocks
without ever waiting; a bounded queue with gap markers carries them to the
session's thread and its decoder process.
**IQ ring and readers** (`DeviceManager.cpp`, `SatcomIqCursor.h`,
`SatcomScannerEngine.cpp`): the sample ring of a stream with epochs and floors,
receivers that pull through cursors, snapshots, and the satellite engine's
exactly-once cursor over snapshots.
**Satcom log** (`SatcomAsyncLog.cpp`): a drop-oldest ring with a writer thread.
**Control server** (`ControlEventLog.cpp`, `ControlSnapshotPager.h`): bounded
event indices and a snapshot cache.
**Front end**, **Inmarsat**, **aircraft**, **audio**, **GUI**, **CLI**,
**diagnostics and updates**, **analogue decoders**, **vendored code**: listed in
`PROJECT.json` with the reason each is not modelled (yet).

### 1.2 Interaction

    GUI thread, workers --claim/command/tune/stop--> control plane --> lease book
    control plane --start/stop--> stream lifecycle --> receive worker, native open
    native open --startup permit, readiness--> control plane
    receive worker, commands --each driver call--> driver I/O lock --> driver
    receive worker --IQ ring, tune numbers--> demodulators, P25, satcom, ...
    demodulator --blocks, gaps--> SSTV feed --> queue --> session --> image decoder
    user's click --start/arm/stop--> satellite engine --claim, tune, restore--> control plane
    engine call --begin/end takeover--> GUI host --park, restore--> Listen's receiver
    engine worker --queued cleanup--> GUI thread;  Listen --tune, apply, stop unused--> control plane
    satellite engine <--snapshots, cursor-- IQ ring;  engine --events--> log writer
    P25 DSP thread <--pulls-- IQ ring;  DSP thread --chunks--> worker --results--> DSP thread
    worker --bursts--> traffic channel observer --> follow evaluation (GUI timer) --> return

### 1.3 Hard behaviours, and what makes each component correct

| component | hard behaviour | correct when |
|---|---|---|
| lease book | tokens kept past their lease; two tuners that are one radio; reservations edited under leases | a dead token stays dead; one lease and one command per physical radio; a lease agrees with its reservation |
| control plane | calls split by unlocks and waits; rescans that renumber radios; native opens that outlive their session | a command finishes under the lease it was admitted under; teardown is alone; a radio in use keeps its identity; stops finish |
| stream lifecycle | driver calls that never return; late hand-offs; stub and hardware sharing the tune state | consumers see only the current session; no second native handle; reported tunes are real; the control lock is freed |
| driver lock | lost wake-ups, barging | exclusive, in order, nobody waits for ever |
| radio takeover | Listen retuned, moved or switched off during a session; a radio lost at any step; cleanups that arrive after the next start | nobody takes another's carrier for its own; Listen is back when the radio is; no lease, parked receiver or stream is left over |
| SSTV feed | a producer that may not wait, against attach, finish, detach and a slow reader | every loss is seen as a gap; closed queues only drain; control calls get in; Finish ends |
| satcom log | a full ring that drops its oldest event under the writer; stop | every event is accounted for once; the file is in order; the writer leaves |
| IQ ring | losses, retunes, resets and overruns under cursors that are older | nothing is taken for continuous that is not |
| voice path | results that come back for windows that were cleared, sessions that were replaced, late, held or failed | one chunk in flight; the cursor never passes IQ that nobody decoded; labels stay true; a held chunk is tried again |
| P25 follow | batches that overlap, stall and repeat; nested time limits | only a real teardown ends a call at once; a gap does not; a dead channel is left |

`PROJECT.json` lists every hazard at its source line with the properties that
cover it, or why none does yet.

## 2. Modules

| module | models | state and actions |
|---|---|---|
| `DeviceOwnership` | the lease book | a variable per member; an action per member function that changes state |
| `DeviceLeases` | the control plane (extends the book) | `pc`/`call` hold where each thread is and its locals; a critical section of `leaseMutex_` is one action; the stream of an index is its phase, the device it was started on, and the native open in flight |
| `RxLifecycle` | one receive stream | one control thread, one native open, the receive worker of each session, a tuning caller; an action runs from one synchronisation point to the next |
| `RadioTakeover` | how the satellite engines borrow Listen's radio | the engine call on the GUI thread as a program, the workers, the queue of cleanups, Listen's operations, a workflow on its own thread |
| `DriverIoMutex` | the ticket lock | an action per critical section; sleeping and notifying are separate |
| `FifoLock` | what the ticket lock promises | a queue of requests and whether its head is admitted |
| `SstvFeed` | feed, queue and session of live SSTV | the receive loop, the session threads and a diagnostics thread; the queue is a record on which the calls of `SstvLiveInput` are functions |
| `SatcomLog` | the event log | producers in `tryPush`, the writer, stop; a slot of the ring holds an event's number |
| `IqRing` | the sample ring and who reads it | the radio's actions under the ring's lock, a reader's loop in the steps between its looks, the satellite engine |
| `P25Voice` | rolling windows, submission and publication | radio, receiver session, DSP thread and worker; `RollingIqWindow`'s members are operators on a record |
| `TrafficChannel` | the observer of a followed call | the fold over a batch and what it changes, as operators |
| `P25Follow` | a follow (extends `TrafficChannel`) | what is on the air, the decoder's batches, the GUI's timer with `evaluateP25Follow` |
| `DeviceLeases_proofs` (with the book), `RxLifecycle_proofs`, `RadioTakeover_proofs`, `DriverIoMutex_proofs`, `SatcomLog_proofs`, `SstvFeed_proofs`, `IqRing_proofs`, `P25Voice_proofs` | theorems | section 5 |
| `MC...` | small instances | lists of radios, frequencies, and the uses of a component |

Definitions keep the names of the code. `PROJECT.json` maps each to its lines.
A definition whose name continues another's after an underscore (for example
`allowed_DuringCommand`) is a plausible bug in that definition; it is used by no
specification, only to show that the properties notice it.

### 2.1 The lease book

`SameRadio` is the heart of the exclusions: two indices are one radio if they are
equal or share a non-empty domain. `allowed` is the admission rule, with the code's
conditions as conjuncts. Generation and id of a token are unbounded naturals; in
the code both are 64 bit counters that only grow. `issued` is a history variable,
the tokens handed out so far: any of them may be presented again at any time.
The `std::map` keyed by identity becomes a function on keys with `None` for absent.

### 2.2 The control plane

`DeviceLeases` extends the book, so its next-state relation is the control
plane's and the book's own (`OwnershipSpec`) becomes its abstract specification:
run `twins` checks, and `LeasesImplementBook` proves, that every step is a step of
the book or leaves it alone. A call that blocks (`stopDevice`, `restoreDevice`,
a command around a driver call) puts its thread at a program counter; the
condition variable is the guard of the next step. The native open of
`startStreamingImpl` is a process of its own per identity (`opener`).

Abstracted: the centre frequency is the number of the request that set it;
failures of the driver are choices; the four-second poll of `restoreDevice` may
give up at any look; a stream is only its phase (its threads are in `RxLifecycle`).

### 2.3 The receive stream

A native handle is named by the session that opened it. The IQ ring is the set of
(session, handle) pairs written since the last reset, which is all that the
fences protect. `native` follows each handle through open, close pending
(`retired`), close failed and closed, which is what the quarantine of
`rxCleanupPending` looks at. Worker steps separate the reads of the request
number and of the centre frequency from the driver call and from the report,
because that is where the tune races are. Callers may tune at any time, also while
the stub session runs and the device is being opened. `overwritten` is a history
variable: the stub's loop has put an older centre over the last request.

### 2.4 The ticket lock

`next` and `serving` are read and written under a mutex: `lock`, `try_lock` and
`unlock` are atomic, but `unlock` notifies after it has let go, and a thread that
was notified looks again in a step of its own.

### 2.5 The SSTV feed

The receive loop makes numbered blocks; a block is its number in the source, its
epoch and its first sample, which is what `SstvLiveInput::tryPush` compares.
`Refused`/`Missed` and `PushContended`/`NoteContention` are two steps each: the
loss is noted after the lock was refused, and the reader may run in between.
Blocks have one size, so `SlotCount` stands for the slot limit and the two-second
budget. The decoder is the last block its helper process was fed.

### 2.6 The satcom log

A critical section of `ringMutex_` is one or two actions, so that a producer that
fails its `try_lock` can be seen to do so. Showing, counting and writing a line
are one step of the writer.

### 2.7 The IQ ring

`stream` is everything appended since the last reset and the ring its newest
`Capacity` samples; a sample is the number the antenna gave it, which skips what
was lost. A listener compares the window with the cursor and epoch it read
*before* the call, and the operator may reset the receiver between the two
(`ResetCursor`, `ResetSeenEpoch` are two writes without the ring's lock).

Pulling is not hearing. `getNewIQWindowForReceiver` moves the cursor and leaves the
window in the loop's hand; only then does the loop try the receiver's lock
(`src/MainWindowP25Orchestration.cpp:1062`). If it is free the window is fed, if not
it is thrown away with what was known of its gap (`Discard`). What is fed depends on
the mode. AM, SSB and CW filters are reset if the window does not begin where the loop
expected it (`FeedFilters`). WFM and NFM look at an overrun alone, by design
(932-934: resetting their audio filters on every lag made them chop), so that of
them the model takes the data decoders (RDS, CTCSS, DCS), which compare the window with a
mark of their own (`mark`: `rdsIqEpoch`, `rdsNextIq`) and are told nothing while they
are not wanted (`FeedDecoders`). An SSTV session has no lag budget and no lock, and looks
at overruns and epochs. `heard`, `got`, `satHeard` and `satGot` record what was fed, and
`missed` and `excused` the discarded windows, for the properties.

### 2.8 The voice path

Positions are absolute sample numbers in blocks. The DSP thread's loop is cut
where it reads state that others change: drain, publish, tick, look, prepare,
pull, take, submit, mark. In particular the session key is read again in
`Prepare`, `Submit` and `Mark`, as the code does, and an `Arm`, a replacement or a
return may fall between. Three fields of a window are not in the code: `heard`
(all IQ up to it has been in a chunk that was published as consumed, or was given up by
trimming in one of the two situations that `NothingSkipped` excepts), `alien` (a
job of another session, or of what the window held before it was cleared, has
moved its marks) and `torn` (a hole too long to be filled was closed). `Use.busy`
admits the paths in which the receiver's lock is taken and the GUI or the DSP
thread goes on without it.

### 2.9 The followed call

`TrafficChannel` is the observer: the fold over a batch in capture order, the
merge with what was known, the holds of an ended call. `P25Follow` puts it into
the loop that drives it: half a second of air, a decode of all bursts since the
last one and the overlap (in any order, shifted as another equaliser eye would
place them), possibly late, and the GUI's timer. The air follows a script, phases
with the kinds of bursts that may occur and how long; `truth` keeps what really
was on the air, for the properties. Counts of bursts and code words are reduced
to whether there are enough; every threshold and time limit of
`evaluateP25Follow` that a clear Phase 2 call meets is kept in milliseconds.

### 2.10 Borrowing a radio

`RadioTakeover` stands on the control plane and the stream lifecycle, reduced to
what a borrower sees of a radio: whether its stream is off, opening, live or
simulated, the centre it has, the centre asked for, who holds it and whether it is
being stopped. A centre is named by who asked for it. Engine calls run on the GUI
thread, one at a time: `gui.at` is where the call is, and between its steps the
radio, the workers and a workflow's thread move, but neither Listen nor the queue
of cleanups (`posted`), which the GUI thread serves in order when it is idle. A
token is the number of its lease.

`listen` and `excuses` are history variables: what the user last asked of Listen
and which radios it started, and which of the situations of section 4 have
occurred that the properties must except (`mode`, `cold`, `overtaken`, `torn`).
The GUI host's refusals that depend on state outside the model (a P25 session on
the radio) are a choice in `Refused`.

Left out: a change of an engine's radio between sessions, radio lists that shrink
at a rescan (a Satcom worker whose index is gone leaves without a cleanup), the
failure of a thread's creation, the enabled marks of the device list, band plan and
channel selection (a stop and a start), several Inmarsat engines, what the owners of
workflow sessions do with their radio (the aircraft map, SSTV reception, the command
line), and shutdown.

### 2.11 Several uses in one run

`SstvFeed`, `IqRing`, `P25Voice`, `P25Follow` and `RadioTakeover` have a constant set `Use` of
records, one for each way to use the component, and a variable `use` that `Init`
chooses from it and no step changes. One run thus checks the same properties for
all of them, and each record can spend its bounds on one question.

## 3. Runs

| run | question | bounds |
|---|---|---|
| `duo` | exclusion across the two tuners of one radio, replacement during a command, dead tokens | 2 indices in one domain, 2 leases, 1 caller's command plus startup permits, 1 discovery in either order |
| `twins` | identities across rescans, teardown, reservations and rollback, refinement of the book | 2 radios that may come back under one identity or vanish, 2 plans, readable or unreadable file, 2 workflows, 1 lease, 1 command, 2 rescans |
| `stops` | stops finish | 1 radio, 2 commands, 1 tune, 1 lease, 1 rescan |
| `stream` | publication, handles, thread objects, reported tunes, the lifecycle lock | 5 generations (three sessions, two stops), 2 tunes, 2 frequencies, also while the device opens; any driver call of a worker or an open may hang |
| `driverlock` | the ticket lock | 3 threads, 5 tickets |
| `takeover` | borrowing and returning radios | six uses (`MCRadioTakeover`): both engines after one radio, each engine with a radio that fails, is rescanned and listened to, the mode box and Apply, Listen moving between two borrowed radios, a workflow after the same radio; 2 or 3 engine calls, 1 or 2 faults, up to 2 edits, 1 rescan, 2 workflow sessions |
| `sstv` | gaps, closing and liveness of live SSTV | a queue of 2; one session with 4 blocks (overflow, then a gap, then more), one with 3 and rejected blocks, two sessions with 1 |
| `satcom_log` | accounting, order, shutdown of the log | a ring of 3 slots, 2 producers, 6 events: the ring wraps twice |
| `iq` | continuity of what filters, data decoders, SSTV sessions and the satellite engine are fed | a ring of 4; seven uses (`MCIqRing`): AM filters (more samples or more events), the data decoders of NFM, a listener moved from another radio, an SSTV session, the satellite engine, snapshots of the current tuning; 3 to 9 samples, 1 to 3 losses, retunes near or far, or resets, 1 time that a listener's lock is taken by the GUI besides the operator's resets |
| `voice` | the voice path | seven uses (`MCP25Voice`): a follow decision while chunks are on their way, a decoder that does not hear, a retune, a restart, both with a busy lock, a window four times too large, a long first chunk that is protected, and the program's proportions with a first chunk that is not (`cold`) |
| `follow` | observer and follow | forty-eight follows in half-seconds: heard and broken by 4.5 to 5.5 s gaps, ended in every order of bursts, entered late, never heard; after 1 or 20 s of speech alive without voice for a minute, and after 1 s alive for 10 to 35 s and then dead |
| `voice_hold` | a disagreement of section 4 | one use with the program's proportions in blocks of 240 ms: a first chunk and a window of 720 ms, later chunks of at most 240, 280 protected before the cursor |

Why the bounds are enough for the question: a stale token needs one lease that
ends and another that begins (two leases); a command that is overtaken needs the
command and one competitor; a rescan hazard needs a list that changes once and,
for what is loaded at the first bind, a second rescan; a late open needs its own
session, the stop and the replacement, each of which takes a generation. The
number of workers matters little since every step of a call is taken by the
thread's program counter and the GUI thread competes with the worker; permits,
leases and stops of the same radio are exercised by both. In `takeover` a late cleanup needs the
session that failed, its replacement and the replacement's end, three calls and a
fault; everything else takes two calls. In `sstv` an overflow
needs one block more than slots, and its gap is only consumed if another block
follows. In `iq` a window can span a boundary if a block is larger than one
sample, and an overrun needs more samples than the ring holds. In `voice` a
result can be overtaken by one decision or one event of the radio, since only
one chunk is on its way (which `SingleFlight` shows); what is left in a window
after that is seen by the next chunk. In `follow` the longest limit that a clear
call meets is 45 s and the longest hold 40 s after the last speech: a tail of a minute
passes all. In `iq` a window is thrown away and the next one fed with a loss, a retune
or an overrun in front, between or behind them. In `voice` the use `cold` has the
program's proportions in blocks of 240 ms: a first chunk of three, one protected.

Run `duo` declares its two tuners symmetric: the lists of `DuoLists` and the plan
are closed under swapping them, and it checks invariants only, so this is sound.
Deadlock checking is off in every run: the bounds on counters, and a program in
which nobody calls anything, legitimately stop the models. The type invariants
`TypeOK` of the lease book, the control plane, the ticket lock, the log and the
SSTV feed, and `IndicesInRange`, are proved (section 5) and not model-checked again.
So are `MutualExclusion` and `ReservationHonoured`, which hold of every
implementation of `FifoLock` and of the book (`ServedInOrder`, `OwnershipSpec`).

### Fairness

`DeviceLeases!Fairness`: a thread that is inside a call keeps running and the
driver calls made by commands return; a native open ends one way or the other.
No caller is obliged to call. `StopsFinish` rests on this and on the book, which
admits no new command to a radio that is stopping, so weak fairness of the
waiting stop is enough although callers compete.

`RxLifecycle!Fairness`: only the control thread and the hand-off run fairly. No
step of a worker or of an open before its hand-off is fair: those driver calls
may hang for ever, which is the situation the 300 ms join limit exists for. One
driver call is assumed to return: the close made inside `stopStreamingImpl` and
the hand-off themselves, under `lifecycleMutex`; the code has no time-out for it.

`DriverIoMutex!FairSpec`: the holder leaves and notified threads run.

`SstvFeed!Fairness`: the receive loop, the diagnostics thread and each session's
thread run on; nobody has to press Start, Finish or Cancel. A control call takes
the feed's lock from a receive loop that publishes without pause: weak fairness
suffices because the announcement keeps new publications out, which is the point
of `ControlAdmitted`.

`SatcomLog!Fairness`: the writer runs, and a producer inside `tryPush` finishes.

`RadioTakeover!Fairness`: the GUI thread goes on with a call it is in and with its
queue, since every wait of a call has a deadline except the join; and a worker, for
which the join waits, looks at its radio and its run flag on every turn. Nothing
makes a radio open, apply a tune or fail, and no user acts. This carries
`FailedSessionsLetGo`.

`P25Voice` and `P25Follow` state no fairness: `P25Follow` counts time, so that its
liveness is a bound (`DeadFollowEnds`, `SpokenFollowEnds`) and thus an invariant.

## 4. Where code and words disagree

One is a run that TLC ends with a counterexample: `voice_hold` /
`HeldIsRetried`. A decoded chunk in which no voice was heard is held so that the
same IQ is tried again (`src/MainWindowP25Orchestration.cpp:144-148`, "do NOT purge
newer publish/jobs"). When it was the cold first chunk, which is longer than any
later one, no later chunk covers the held range (79-118): every result of the
session is dropped at publication with all newer work, and the range is never
published. Run `voice` checks the same property for chunks that do cover.

The others were met while modelling, by reading the source next to the documents:

- **Rescan.** `enumerateDevices` stops the streams it saw in a first pass, "to
  avoid index/device identity mismatch" (`src/DeviceManager.cpp:473`), and empties
  the book in a second. A start admitted in between survives (489), at an index
  that then names another device.
- **Retune.** `docs/DECISIONS.md:1057` has a command in flight "reject competing
  claims/tunes". `retuneWithLease` (2554-2576) unlocks between the claim and the
  tune and then checks only who holds the lease.
- **Stub tune.** The stub loop (3973-3990) writes back a centre frequency it read
  before appending its block. A tune queued in between is overwritten, and the
  hand-off reports it as applied with the old frequency;
  `docs/AUDIT_20260924.md:191-192`: "advance success only after driver acceptance".
  The trace: the stub's worker reads 100 MHz; a caller asks for 101, which is stored
  and numbered; the worker appends its block and stores 100; the open thread reads the
  number of the request and then the centre, opens the device at 100 and reports the
  number as applied. `AppliedMeansTuned` excepts a request that was written over in
  this way (`overwritten`), until the next one, and holds of all others, those that
  meet an open included. Without the exception run `stream` finds this trace.
- **Ready.** A receive worker that fails during startup control has already fallen
  back to the stub when the open thread publishes "live hardware" (1615-1620);
  `docs/WORKFLOW_DEVICES.md:31-32`: "synthetic/stub IQ does not qualify as reception".
- **SSTV finish** (`src/SstvReceiverFeed.cpp:39`). A block turned away just before
  Finish, or because Finish is waiting, makes `finishFeed` invalidate the queue and
  lose what is in it; `docs/DECISIONS.md:2956-2957`: "Finish quiesces publication,
  drains the existing queue".
- **Log shutdown** (`src/SatcomAsyncLog.cpp:142`). The writer tests the run flag
  after it saw an empty ring: an event stored in between is never written;
  `docs/DECISIONS.md:965`, `tests/test_satcom.cpp:744` expect written plus dropped.
- **IQ ring, discarded windows.** A listener's loop pulls, which moves the cursor, and
  then does without the window if the receiver's lock is taken
  (`src/MainWindowP25Orchestration.cpp:1062-1066`), by the GUI for instance. The
  discarded window's gap mark goes with it, and the window behind starts where the
  loop now expects it: AM, SSB and CW filters are not reset (1232-1235) and join
  samples that are not neighbours, against "preserve gap evidence for stateful HF
  filters" (947-949). `GapsAreSeen` excepts the one window that follows a discarded
  one. The data decoders are not affected: they compare with what they were fed last.
- **IQ ring, moved receivers.** A receiver moved to another radio keeps cursor and epoch
  (`src/MainWindow.cpp:8618`), and if they happen to fit, nothing marks the change;
  `GapsAreSeen` excepts it.
- **IQ ring, current tuning.** `markStreamRetune` moves the floor of the current tuning
  only for moves of more than 25 kHz, so that after a shorter one a snapshot has
  samples of the centre before under the new label (`src/DeviceManager.cpp:1066`,
  against `include/DeviceManager.h:179`; `WindowsArePure` asks for less).
- **Satellite cursor.** "Exactly-once" by its header (`include/SatcomIqCursor.h:9-10`), it
  hands a snapshot on whole after a retune, with samples it handed on before, marked
  as a gap (48). And a snapshot taken after a retune of more than 25 kHz and before the
  first sample of the new centre has the new epoch and only older samples: the cursor
  takes over the epoch with them, so that the cut behind is not marked (58), against
  "explicitly mark the decoder gap" (64). The scan lock meets this: it resets its input,
  asks for a tune to the peak that is applied later, and pulls
  (`src/SatcomScannerEngine.cpp:2123-2124`). `SatelliteStream` excepts what follows such
  a snapshot (`early`) and holds of everything else, however far the radio is moved.
- **Armed pass.** `SatcomScannerEngine::start` joins and cleans up a session that failed
  ("complete that old lease before opening a replacement session",
  `src/SatcomScannerEngine.cpp:900-902`); `armPass` (1259-1277) does so only if the
  scan still runs. Armed before the queued cleanup has run, it is refused by its own
  lease and forgets the state to restore; the cleanup then finds nothing to give
  back, and the receiver stays parked (`overtaken`).
- **Mode box.** A change of mode during a takeover makes the parked receiver active on
  any radio that streams (`src/MainWindow.cpp:5068-5076`), so that Listen plays the
  satellite carrier; `docs/INMARSAT.md:54-55` has it parked (`mode`).
- **Late cleanup.** The cleanup an Inmarsat worker queues asks only whether a session
  runs (`src/InmarsatEngine.cpp:1088-1090`), not which: after a quick restart that
  failed too, it is the new session's radio that is given back, under the cleanup of
  the old one, while the worker of the new one may still be on its way out ("an
  old end cannot unpark Listen after a new Start", 1086). Satcom's cleanup carries its lease. The new
  session has failed as well, so no property is violated.
- **Capture.** The state to restore is read before the claim, so that a workflow's
  stream that ends in between is taken for Listen's, and is left streaming with
  no owner when the engine gives the radio back (`torn`).
- **Apply after a session.** A radio that was off before a session keeps the satellite
  centre as its last request, and Apply starts it there
  (`src/DeviceManager.cpp:1195-1201`, `cold`).
- **Start during an open.** A session started while Listen's radio still opens is
  refused by `startDevice`, and the restore stops the radio: Listen stays off although
  nothing was borrowed. `ListenComesBack` counts it as a radio that was not restored.
- **Voice.** A result over the time budget is published whatever else made it
  stale (`src/MainWindowP25Voice.cpp:890-950`, against the comment at 194-196). A
  handoff or discontinuity that finds the receiver's lock taken does not reset the
  session, although the log line promises a retry
  (`src/MainWindowP25Orchestration.cpp:678`). A hole longer than the join limit is
  stitched over without a fill (`torn`). Marks may be moved by a job of an earlier
  session (`alien`). The emergency trim may drop a held range.
- **Trimming.** A first chunk takes 720 ms
  (`kP25Phase2VoiceDecodeFirstColdEyeSeconds`), which is also all the window holds
  until the call is locked. Trimming counts submitted IQ as decoded and protects the
  280 ms before its end (`include/P25RollingIq.h:222-247`), so IQ appended while that
  chunk is decoded moves the cursor up to 440 ms past IQ that a rollback or a hold
  ought to have tried again, against 218-221 ("never discards undecoded RF") and
  `docs/DECISIONS.md:5136` ("Hard-cap must not jump the decode cursor while undecoded
  RF is protected"). Later chunks (80 to 240 ms) are shorter than what is protected.
  The trace, in blocks of 240 ms: a first chunk of three blocks is taken and submitted
  up to 3; a fourth block arrives while it is decoded, and the window, which may hold
  three, is trimmed to begin at 1 and its cursor moved there; the chunk comes back
  stale and is rolled back, to 1 and not to 0. `NothingSkipped` excepts the IQ that is
  given up in this way (`Overreached`) and in a window four times too large, and nothing
  else; without the exception the use `cold` of run `voice` finds this trace.
- **Voice after a return.** After a return
  that finds the worker's lock taken, a dropped chunk's successor may be published
  until the next tick drops the windows.
- **Inactive follow.** A channel that carries only framing of the followed slot
  renews the observer's activity (`src/P25TrafficChannelProcessor.cpp:257`) and, as long as
  nothing was heard, with it the follow's: every limit starts again and the radio never
  returns, which `src/P25FollowStateMachine.cpp:75-78` means to prevent ("This fixes "stuck on
  inactive talk groups""). `SpokenFollowEnds` speaks of calls that were heard.
- **Spoken follow.** DEC-0056 (`docs/DECISIONS.md:3724-3745`) decides against a "root hang" of
  45 to 60 s after clear speech: "After clear speech, no-VCW return in **12 s tuned / 6 s
  silence**", "carrier-acquire hold only in early acquire", and the code says "so dead
  traffic channels return to CC in ~6–12s instead of 45–60s"
  (`src/P25FollowStateMachine.cpp:336-337`, also 92-96). What the limits come to, for a
  clear grant:

  | after the last voice | the radio is kept |
  |---|---|
  | nothing decoded | 13 to 16 s after it |
  | framing of the followed slot | 45 s after tuning: `stillAcquiring` (254-288) asks for progress of the acquisition, which framing is, and its limit is 45 s whether or not the call was heard |
  | idle or hang-time messages | 51 s after tuning, as messages renew the follow until `stillAcquiring` ends and 6 s of silence follow; or 40 s after the last voice, the speaker grace that structure and messages extend (107-124) |
  | messages of the companion slot | for ever |

  The trace of the second: a clear grant, a second of speech, then framing; every
  other limit of `evaluateP25Follow` asks for `~stillAcquiring` or for a channel without
  progress. `SpokenFollowEnds` states these bounds, and not those of the decision:
  45 s and 50.5 s in place of 45.5 and 51 are violated in run `follow`.
- **Follow limits.** The observer counts its own construction as activity, so a dead park
  on a grant of unknown kind is left after about 16 s, not the "~8s" of
  `docs/DECISIONS.md:3489`; very short overs leave after about 16 s instead of 6 to
  12 (`docs/DECISIONS.md:3724`). An end followed by voice without a beginning in
  one batch stays ended, in two batches it reopens (`docs/DECISIONS.md:871-905`).
  Voice of the companion slot with messages keeps every limit from applying
  (`src/P25FollowStateMachine.cpp:375`, `:388`). A decoder that stalls just after
  voice leaves the voice count positive, so no limit applies until it runs again.
  A deferred clear does not check whose follow it clears
  (`src/MainWindow.cpp:1706-1716`), a cached status of the previous call can end
  the next one (`src/P25VoiceDecode.cpp:3851-3858`), and a follow that
  stays on the same frequency keeps the decoder's IQ, with the end of the call
  before in it.
- **Call end.** `m_callEnded` is stored before `m_endedMs`
  (`src/P25TrafficChannelProcessor.cpp:228-232`), and the GUI reads both without
  the lock they are written under. The model takes the observation as one step.

## 5. Proofs

TLAPS proves the following for every value of the constants (any number of
radios, identities, domains, threads, tokens, commands).

**Lease book** (`DeviceLeases_proofs`, first part). `OwnershipSafe` proves the inductive
invariant `OwnershipInv`: the type invariant, `IndicesInRange`, `LeaseExclusive`,
`PermitExclusive`, `ReservationHonoured` and `TokensConsistent`. The last is the
strengthening: leases are issued tokens, ids and permit numbers never exceed
their counters, and the token stored at an index names that index. Without it
neither exclusivity nor uniqueness of tokens is inductive: `claim` would need to
know that its id is new. `BookTokensStayDead` is an action property: a token that
is issued and not valid is not valid after any step, since a new lease has an id
above every issued one.

**Control plane** (`DeviceLeases_proofs`). `LeasesImplementBook` shows
`Spec => OwnershipSpec`: each action of the control plane performs exactly one
book operation or none, so everything proved of the book holds of the control
plane (`LeasesExclusive`, `CommandsExclusive`, `LeasesHonourBook`,
`LeaseTokensStayDead`). The locals of suspended calls have to be well typed for
that, `LocalsOK`, which gives `LeasesTypeCorrect`.

The next three say what the book alone cannot: a caller remembers, in its locals,
an admission that was made before an unlock, a wait or a driver call. `ControlInv`
ties those locals to the book. `PermitsInv`: the permit of each command in flight is
stored at its index, no two commands share one, and the radio carries the lease the
command was admitted under, or none. `StopsInv`: a thread in `stopDevice` has its
index announced and without a lease, and once past its wait no command runs on the
physical radio. `ListsInv`: the book's endpoints are the discovered devices, except
inside a rescan, where they are none. None of the three is inductive alone: a rescan
may empty the book, which ends every lease, only because it is deferred while a permit
or a stop is there, and an announced stop keeps new permits off the radio, which is why the wait, once
over, stays over. Every operation of the book but `bind` is shown to be `Courteous`
(it adds a lease or permit only to a radio without command and stop), so that
suspended calls are carried past it by one lemma. `CommandsFinishFirst`
(`NoReplacementDuringCommand`), `TeardownsAreAlone` and `PinnedRadiosStay` follow.

**Receive stream** (`RxLifecycle_proofs`). `RxInv` adds to the types what the session
generation protects: who owns the lifecycle lock (`LifecycleOwned`); that a native
device is named by the session it was opened for and read by workers of the next
(`GensInv`); that a stream is real exactly while it has a handle (`StreamInv`); that
an open device is the stream's or the open thread's, never both's (`DevicesInv`,
`FaultsInv`); and that a worker that is not cancelled reads the published device
(`FenceInv`). Hence `TypesHold`, `ConsumersSeeOneSession`, `OneNativeHandle` and
`ThreadsAreLaunchedOnce` (an action property), for any number of sessions, with driver
calls that never return. `AppliedIsTuned` needs `TuneInv` besides: as long as the centre
on record is the one asked for (`OnRecord`), what a worker or an open has read of the
request is the last one, or a later one is pending, also while callers tune during the
open. And nothing but the stub's write takes the centre off the record (`RecordStep`):
a start writes back what it read, but its permit keeps callers out in between.

**Borrowing a radio** (`RadioTakeover_proofs`). `TakeoverSafe` proves `TakeoverInv`, for any
radios, any assignment of them to the engines, the workflow and Listen, and any number of
calls, faults, edits and rescans. Its parts follow a lease and what hangs on it. Every
token in use was given out, so the next is new (`TokensIssued`); no two holders have the
same (`TokensApart`), and one that is found on a radio or a parked receiver is found on its
holder's radio (`TokensInPlace`). What a step of a call relies on was left there by the
step before (`CallShape`), even though rescans, faults and a workflow come in between: they
may take the lease away but never give it to another without a new token. `Settled` is what
`armPass` over an unfinished session breaks: lease and parked receiver go together, and
whoever has a lease knows what to restore.

- `EveryoneHearsItsOwn` needs three things at once: a radio in an engine's hands has no
  active receiver on it (`ParkedQuiet`), a radio out of them is on no satellite, and an engine
  will not put it back on one (`StreamsClean`: what was captured while nobody owned the radio
  is clean, and only such a capture is ever claimed); and a session that runs, and a workflow
  that was told so, are where they asked to be (`EnginesTuned`, `FlowTuned`).
- `ListenIsGivenBack` needs that a parked receiver is remembered as it is set now and as the
  user last wanted it, while its radio is borrowed and while it is given back
  (`ParkedIntact`): the user can reach it only by the mode box, which is excepted, since
  every other operation refuses a radio it cannot use.
- `NothingStaysBehind` needs `LeasesHeld` and `SessionsHeld`, and of the streams that one
  found on and left on is one the user asked for (`StreamsWanted`).

The steps are grouped by what they share (`WorkerStep`, `StreamStep`, `CallStep`, `EditStep`,
`RestoreStep`, `ClaimStep`): that a group keeps the invariant, and that each action is in its
group, are two lemmas. Each part was checked by TLC on the instance of run `takeover` before
it was proved. Which of the four exceptions (section 4) a part needs is its hypothesis
`Without(...)`; the tokens, the shape of the calls and what sessions and workflows hear need none.

**Ticket lock** (`DriverIoMutex_proofs`). `LockInv` is `TypeOK /\ TicketsOwned`:
each number from `serving` to `next - 1` is the ticket of exactly one thread that
waits or holds, and a holder has the served one. `DriverCallsExclude` follows at
once. `LockServesInOrder` proves the refinement of `FifoLock`: the queue is the
active threads in the order of their tickets.

**Satcom log** (`SatcomLog_proofs`). `LogAccounts` proves `[]Accounting` for any
number of producers and any capacity: no event is lost or counted twice although a
full ring moves `tail` under the writer. The inductive invariant adds to it the
types and who holds the lock: at most one producer is inside `tryPush`, and the
writer reads the ring only while it holds the lock; without it two producers
could each see room for the same slot. `LogKeepsOrder` proves that the file is in
order. `OrderInv` lines up file, writer's hand and ring: each event of one precedes
those of the next, and all are below the number a producer is about to store.
`Place` is the slot of the k-th waiting event, with the wrap.

**SSTV feed** (`SstvFeed_proofs`). `ClosedQueuesDrain` proves that a queue whose input
was finished or stopped never gets another block, for any number of sessions and
any size of the queue; `FeedTyped` gives the types it needs. The strengthening is
`Carries`: the receive loop has a block in hand exactly while it publishes one, and
its numbers are those of its source. The property does not rest on `attached_`,
which a push passes long before it reaches the queue, but on the queue's own flag,
looked at again under the queue's lock (`PushTyped`). `NothingIsRefused` and
`NothingIsSpliced` rest on `SpliceInv`: a queue holds neighbours in the source
(`QueueInv`); what the helper was fed last is followed by the queue's first block,
unless a gap of a later generation is still to be taken (`LinkInv`); and a block is as
far from the beginning of its epoch in the source as in the count of samples
(`Agrees`). The last is what makes the comparison in `tryPush` see every loss.

**IQ ring** (`IqRing_proofs`). `RingInv`: above the floor of the last loss, retune or
reset nothing is missing in the ring, and what comes next continues it.
`WindowsStayPure` follows, since no window and no snapshot of the current tuning
begins below the floor (`Begins`, `RecentBegins`). `GapsReachTheReader` rests on
`GapsInv`, which says for each kind of reader which of its positions is `Tied` to the
sample it heard last, that is, stands right behind it if it is of this epoch: the
cursor of a session (`SessionInv`); the cursor of a listener, and the one its loop
looked at before the call, until the window is in its hand, and then the hand itself
(`FilterInv`); the mark of the data decoders (`DecoderInv`), whatever is thrown away and
whatever becomes of the cursor. Of another epoch nothing is known, and nothing has to
be: the reader sees the change. That a listener compares with what it read *before* the
call is what makes this inductive under the operator's two writes without a lock; that
it does not compare with what its filters were fed is why a discarded window has to be
excepted. `EngineHearsAStream` rests on `SatInv`: the engine's cursor and the snapshot on
its way fit each other whenever their epochs agree (`SnapContinues`), and a cursor or
snapshot of this epoch has reached a sample of it unless it is `early`.

**Voice path** (`P25Voice_proofs`). `VoiceInv`: windows, jobs and queues are well
formed, the DSP thread has in hand what its place in the loop needs, and the three
queues and the worker hold one chunk between them. `OneChunkAtATime` and `LabelsHold`
follow, for every size of ring, chunk, overlap and join. `CursorPassesNothing` needs
`CursorInv` besides: unless a foreign job moved its marks, the cursor of a window has
passed only what was heard or given up, and what it counts as submitted is on its way
from a place that was (`Safe`), however long the chunk; and a session key
that is current when the marks are moved was current when the chunk was taken
(`SameReceiver`, `ChunkFlies`). A rollback or a dropped result then finds its IQ still
there.

What is assumed are the assumptions named in the modules (`OwnershipAssumption`,
`LeasesAssumption`, `RxAssumption`, `MutexAssumption`, `LogAssumption`,
`FeedAssumption`, `RingAssumption`, `VoiceAssumption`, `NamesAssumption`, `TakeoverAssumption`): null values outside the sets
they extend, natural bounds, discovery lists no longer than the bound, sizes that are
not zero. Two theorems state a hypothesis of their own:

- `GapsReachTheReader`, `WindowsStayPure`: `RingSizes`. A latency budget holds at least one
  pull (`src/MainWindowP25Orchestration.cpp:620`, 25 ms of samples, against half a
  second or 65536 at 935-951; `src/CwRfSession.cpp:75-77`, a tenth of a second against
  two seconds), and the silence after an overrun, 256 samples, fits into half of the ring
  of 2^25 (`src/DeviceManager.cpp:1046`, `:3136`). The instances of run `iq` satisfy it
  (`SizesHold`).

Only model-checked, not proved: liveness under fairness (`StopsFinish`,
`LifecycleIsFreed`, `WaitersAdmitted`, `ControlAdmitted`, `FinishEnds`,
`WriterLeaves`, `FailedSessionsLetGo`), which is beyond the prover; `HeldIsRetried`,
which needs the lengths of successive chunks besides `CursorInv`; and everything
in `TrafficChannel` and `P25Follow`. What the observer knows is a fold over a sorted batch: that
it agrees with the truth (`TeardownIsReal`, `ObserverInOrder`) is induction over the batch, and
the bounds of a follow (`GapIsBridged`, `DeadFollowEnds`, `SpokenFollowEnds`) rest on what such
batches leave behind, half-second after half-second. Neither is within the prover's reach.

## 6. Not modelled

Inside the modelled components:

- Control plane and stream: diversity composites and `append` through them, TX
  open and close, settings persistence, the spectrum worker, the lock table.
- SSTV: recorded files, the image decoder and its archive; sample rates and modes
  (a block that the queue rejects is one kind of event).
- IQ ring: HF diversity, the wide-band ring for the waterfall, sample values; the audio
  filters of WFM and NFM, which by design take gaps other than an overrun as they come;
  the second tone decoder of a repeater's input, which keeps a mark like the first one's.
- Satcom and Inmarsat: the scan plan, pass tracking but for its end, the decoders; and
  what section 2.10 leaves out.
- Voice path: the probe of the other slot, Phase 1, the speaker queues behind
  publication, the sample-index mode of the rolling window (windows of the program
  are always labelled), more than one receiver at a time.
- Follow: encrypted returns, Phase 1, the renewal by a second SDR's grants
  (`MainWindow.cpp:3155`), what the GUI does when the receiver's lock is taken. The
  observer counts only masked voice, so `tdmaVcwNoSuperframeTimeout` cannot fire
  and is left out.

The contents of IQ, decoders, filters and orbits are real-valued signal
processing and geometry, out of a model checker's reach. Most of the program's
lines are of that kind, or windows, wording, network I/O, command line tools and
vendored code, which keep no state that several threads share beyond what is
modelled here. `PROJECT.json` gives the reason for each component.

## 7. Plan

1. `P25Follow` and `TrafficChannel`: a statement of the observer's clocks that does without the
   fold over a batch (the earliest and the latest burst of each kind), so that
   `ObserverInOrder` can be proved of it.
2. `HeldIsRetried` of `P25Voice` where later chunks cover a held one.
3. `RadioTakeover`: several Inmarsat engines at once, a change of an engine's radio,
   radio lists that shrink at a rescan; the loops of the aircraft map and of SSTV
   reception around a workflow session.
4. `P25TxSession`: every key-down ends. `ControlEventLog`, `ControlSnapshotPager`:
   index arithmetic, cache accounting.
5. The encrypted returns of the follow; TX teardown and the diversity composite in
   the control plane.
