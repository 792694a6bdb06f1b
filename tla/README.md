# Verification of the smart water flow and pressure monitor firmware

TLA+ models, TLC runs and TLAPS proofs of the firmware in
`src/2.firmware/src` (paths below are relative to it). The firmware is a
cooperative main loop: interrupts and services post events into one bounded
queue, a loop with budgets dispatches them to the owners of state, a mode
manager gates what the device does, drivers talk to devices over shared buses,
and volumes and telemetry records survive resets and lost links by protocols of
their own.

- [1. The system](#1-the-system): components, state, interactions, what is hard
- [2. The modules](#2-the-modules): what models what
- [3. The runs](#3-the-runs): questions, bounds, results
- [4. Disagreements](#4-disagreements-between-code-and-documents)
- [5. Fairness](#5-fairness)
- [6. The proofs](#6-the-proofs)
- [7. What is not modelled](#7-what-is-not-modelled)

How to run: `tlc -config EventQueue.cfg MCEventQueue`, and likewise for every
run of section 3 (module and configuration are in its table); `tlapm M.tla` on each of
the modules whose name ends in `Proof`.

## 1. The system

### Components

| component | source | state | operations | correct when |
|---|---|---|---|---|
| event queue | `infrastructure/queues/app_event_queue.c` | ring of pending events, fairness counter, overflow counters | `post` (admit, coalesce, refuse, escalate), `try_get` | the critical share stays free of background events, events of one priority stay in order, a LEVEL signal shows its latest value, nobody above BACKGROUND starves |
| monotonic scheduler | `infrastructure/time/monotonic_scheduler.c` | table of jobs with deadline, generation, pending flag | schedule, cancel, acknowledge, dispatch due | one outstanding event per job, no burst of missed periods, nothing meant for a cancelled job touches its replacement |
| system mode manager | `app/system_fsm.c`, `app/mode_guard.c` | mode, generation, pending entry actions, guard evidence | dispatch an event, publish guards | entry actions run only in their mode, late completions are harmless, a critical error always lands in ERROR |
| event loop, mediator, executor | `infrastructure/event/*.c` | budgets of the turn, events due | `run_once` | what it publishes is current, a turn is bounded, nothing is lost between owners |
| data repository | `infrastructure/repositories/*.c` | two snapshot buffers, version, writer flag | begin, write, commit, abort, copy | a reader sees one committed snapshot, never a mixture |
| storage service | `services/storage/storage_service.c`, `protocols/storage/*.c` | commit/restore state, candidate, one pending candidate, reply | submit, tick, port completion, restore | an acknowledged record survives everything that follows |
| FRAM driver | `drivers/storage/fram_driver.c` | the operation in progress | submit read/write, bus completion, cancel | exactly one completion per operation |
| volume accumulator, checkpoint policy | `services/volume/*.c`, `services/storage/checkpoint_policy.c` | volumes, checkpoint sequence, in-flight flag | consume flow, prepare and complete a checkpoint, restore | numbering agrees with the medium |
| telemetry queue, cellular delivery | `services/connectivity/*.c` | 64 records, in-flight mark, delivery state | enqueue, dequeue, acknowledge, expire, attempt, complete, tick | a record leaves by an answer or by policy, and is tried again |
| reporting schedule | `services/connectivity/reporting_schedule.c` | two daily windows, last accepted slot | next due, slot identity, apply | every slot is reported once |
| measurement manager, MAX35103 and ZSSC3241 drivers, flow and pressure services | `services/measurement`, `drivers`, `services/processing` | driver states, mailboxes, pipeline state | handlers of sample, completion, raw-ready and timeout events | results belong to the sample they name, and all results of a sample are committed together |
| bus managers | `infrastructure/bus/*.c` | active and pending transactions, bus generation | submit, complete, tick, cancel, recover | one transaction at a time, one notification each, none for another's answer |
| leak detection | `services/leak/*.c` | four evidence trackers, leak state | evaluate, apply configuration, reset | the state agrees with its trackers, a leak is raised and cleared by evidence of full duration |
| power | `services/power`, `facades/power` | filtered voltage, health | sample, publish | a change of health reaches consumers |
| time, calibration, configuration, numeric | `services/time` ... | configuration and conversions | pure or nearly so | ranges |
| simulator and adapters | `platform/*`, `simulation/*`, `apps/linux_sim` | virtual clock, action heap, device peers | host scaffolding | actions in deadline order |
| STM32 board project | `src/3.stm32` | register-level drivers | not linked with the firmware | - |

### Interactions

Interrupt handlers and services call `app_event_queue_post`; the loop is the
only consumer. `app_event_loop_run_once` asks the scheduler for due jobs, posts
their events, dequeues within `max_service_steps`, `max_events_per_turn` and
`max_exec_us`, hands each event to its owner (the mode manager for the FSM
events), acknowledges deadline events to the scheduler, and spends the steps
left over on the mode manager's pending actions. A transition is published in
the repository, where everybody else reads the mode. The storage service is
completed by callbacks of the FRAM driver, which in
turn is a client of the I2C bus manager. The delivery service pulls from the
telemetry queue and is completed by the modem.

Two of these parts need to be ticked and are not: neither `app_event_loop_run_once`
nor the composition, the run controller or `main.c` calls `StorageService_Tick` or
`i2c_bus_tick`; only the tests do. Section 4 says what follows and section 5 what is
assumed.

### What is hard

- Interleavings of interrupts with the steps of a turn, of the owner's calls
  with the storage machine, of the producer of records with an attempt.
- Late and repeated answers: due events of cancelled jobs, completions of an
  earlier mode, of an abandoned transfer, of a lost delivery.
- Resets between any two writes to the medium, torn and lost writes.
- Wrap of sequence numbers; bounded queue, table, record buffer.
- Budgets that end a turn early again and again; overload of the queue.
- Callbacks that submit the next transfer before the bus has picked its own next one;
  timeouts, cancels and recoveries with an answer still to come.
- A reader of the snapshot preempted in the middle of its copy while commits reuse
  the buffer.
- Several candidates computed from one sample, any of which may fail.

The places that matter most are, each with its line, under "hazards" in `PROJECT.json`,
with the properties that watch it or the reason why none does.

## 2. The modules

| module | models | uses |
|---|---|---|
| `EventQueue` | the queue; `Post` and `TryGet` | - |
| `MCEventQueue` | event catalogues for it | EventQueue |
| `Scheduler` | the job table, and the loop of its dispatch one iteration at a time | - |
| `SystemFsm` | transition table, dispatch, entry actions | - |
| `EventLoop` | `run_once`, composing the three, and its surroundings | Scheduler, SystemFsm (EXTENDS), EventQueue (INSTANCE) |
| `MCEventLoop` | catalogues, jobs and evidence for it | EventLoop |
| `StorageService` | the commit and restore machine, its port and its medium | - |
| `CheckpointStore` | an owner that keeps the interface's discipline | StorageService, DurableStore (refined) |
| `DurableStore` | abstract: a store of one durable record | - |
| `VolumeCheckpoint` | the owner that the firmware provides for volumes | StorageService |
| `Telemetry` | telemetry queue and delivery service | - |
| `I2cBus` | I2C bus manager, F-RAM driver, pressure client and port, composed | StoragePort (refined) |
| `StoragePort` | abstract: the port the storage service relies on | - |
| `Repository` | snapshot buffers, write transactions, preempted readers | SnapshotRegister (refined) |
| `SnapshotRegister` | abstract: a register that is changed and read at once | - |
| `MCRepository` | symmetry of the writers | Repository |
| `FlowChain` | MAX35103 driver, flow service, manager, accumulator | - |
| `MCFlowChain` | rates in both directions for it | FlowChain |
| `PressureChain` | ZSSC3241 driver, sensor, manager, transfers | - |
| `LeakDetection` | leak state and its two flow trackers | - |
| `MCLeakDetection` | two configurations and six flows for it | LeakDetection |

Each of `EventQueueProof`, `EventLoopProof`, `TelemetryProof`, `RepositoryProof`,
`LeakProof`, `I2cBusProof` EXTENDS the module it is about; `StorageProof` is about
`CheckpointStore`, `MeasurementProof` about `FlowChain` and `PressureChain`.

How the modules meet: `EventLoop` dispatches from the queue that `EventQueue` specifies.
`StorageService` assumes of its port what `StoragePort` says (at most one answer for each
accepted operation, success only after the last chunk), and `I2cBus` shows that the
F-RAM driver on the shared bus provides that. That there is an answer in the end is assumed
by the liveness properties of `CheckpointStore` and not shown of the bus. `PressureChain` assumes of the bus that
an accepted transaction is answered once and in order for one client, which are
`OneNotice` and `Before` of `I2cBus`. `FlowChain` publishes in one step what
`Repository` shows to be one step for every reader.

**EventQueue.** `buffer` is the ring from head to tail; the positions in the
C array and the modulo arithmetic are abstracted. `Post` has one disjunct for
each result the code can return. `IsSelected` is the scan of `try_get`. Two
history variables (`latest`, `bypassed`) serve the properties only. Each call is
atomic, as inside the critical section that the hooks would bind.

**Scheduler, SystemFsm, EventLoop.** One iteration of the loop of
`scheduler_dispatch_due` is `Passes` (nothing to do), `Skips` (a deadline is dropped)
or `Fires` (a due event is handed out); `NextPosition` moves the cursor, which stays
where it is when a one-shot job was removed under it. `TransitionTable` is the
table of `system_fsm.c` row by row, `Dispatch` its first-match search with the
stale check, `Attempted` the executor's loop. A turn is split where an
interrupt can come in between: `BeginTurn` (call the scheduler), `ScanJob` (one
iteration over the table), `PostDue` (post one event), `DispatchOne` (dequeue, route, acknowledge), `EndTurn` (run
actions; a reset restarts everything) and `BudgetElapsed`. `Produce` is any
interrupt or service; `ScheduleJob`, `CancelJob` and `PublishGuards` are what
handlers of the main thread do between dispatches. `published` is the mode field
of the repository's snapshot: `data_repository_init` zeroes it, so before the
first transition readers see INIT with generation 0 while the manager is at 1.
`HandleFsmEvent` follows `fsm_event_handler` into its failures: a begin that is refused
loses the event, a write or a commit that fails leaves the mode changed and the snapshot
old. Each needs a transaction that another owner left open, which none of the firmware's
owners does between two events; `WriteFaults` says which of the two a run lets happen. With
refused begins `CriticalErrorIsHandled` would fail, as the error event itself is lost.

**StorageService.** `state`, `candidate`, `target`, `offset`, `readback`,
`scan` and `ioByte` are the fields of the C context; `Tick` is one call of
`StorageService_Tick`, one disjunct per kind of work. A slot is a commit byte
and `NChunks` body chunks; a chunk carries the record it was written from, so
the CRC holds exactly when all chunks agree. The port executes one operation;
it can refuse, fail with the write partly done, or acknowledge a write that the
medium lost. `LateCompletion` repeats the answer of an operation that is over.
`Crash` may strike at any step and leaves an interrupted write undone, torn or
complete. Token, state and mailbox checks are those of the code.

**CheckpointStore / VolumeCheckpoint.** The first is the owner that the
documents ask for (restore first, number upwards from what was restored and
never reuse a number); the second uses `VolumeAccumulator` and
`CheckpointPolicy` as the source has them. Separating the two shows that the
protocol is right and where its provided owner falls short.

**Telemetry.** `entries`, `count`, `tail`, `hasInFlight`, `inFlightIdx` are the
fields of the queue; the actions are the functions of the two services plus a
modem that connects, disconnects and owes an outcome for each attempt.

**I2cBus.** A handler is one step together with the callbacks it makes and with what
those submit, in the order of the code: `Release` notifies the client first, and the
F-RAM driver's callback submits its next chunk (`NextChunkStarts`) before `start_next`
looks at the pending transactions. `StartNext` is the whole loop of `start_next`: the
transactions in `refused` are the best ones, which the port did not take and whose
clients heard FAILED, then one is on the wire. The driver's operation is `fram`, its
addresses and lengths a number of chunks. `Tick` is the deadline, `CancelGeneration` is
`fram_cancel_generation` with the walk over the pending array that it triggers,
`Recover` is `i2c_bus_recover`. The port may forget a request it gave up, keep it, or,
as the Linux provider does after a recovery, complete it later (`LateCompletion`).
`notices` and `carried` are histories for the properties.

**Repository.** Copies go word by word and a reader may be preempted before each; the
version is one of the words, since `snapshot_version` lies inside the buffer. A begin
and a commit are split at their writes (`Begin`, `BeginCopies`, `BeginEnds`;
`CommitStamps`, `CommitPublishes`). Writers run in one context, so two begins do not
interleave, but an owner may begin, abort, or misuse its transaction at any time.
`CommitsPerCopy` is how many commits one attempt of a reader may live through. The
design asks readers to be quick (`1.docs/05_firmware/00_core/04_data_model_and_ownership.md`
§12.3: two buffers require a bounded reader lifetime), and the proof names that
assumption `QuickReaders`: with two commits inside one copy the torn copy passes both
checks of `data_repository_snapshot_copy`, as the version is compared with itself.

**FlowChain.** Each event of the chain is handled in one turn, as in
`measurement_manager_process_event`: `OnIrq`, `OnSpiCompletion`, `OnTimeout` and
`OnRawReady`, each with the post it makes, which the shared queue may refuse. `Update` computes flow,
volume and leak candidates, commits them and then installs them. `Paired` is the check
of the flow service that a usable temperature is close enough. A leak
evaluation, a write or the commit that fails has the same outcome as a volume that is
rejected, `Discard`: the transaction is aborted and the candidates are forgotten; a begin
that is refused is, for the sample, a raw-ready event that the queue refused. Rates are whole volumes
per unit of time: remainders and saturation are left out. The histories `publications` and
`discarded` (after which publications a sample was taken in vain) serve the volume property.

**PressureChain.** The handlers of the ZSSC3241 driver with the submission that the
manager makes for them, the transfers in the order in which they were accepted, and the
sensor, which is busy until its conversion ends. A transfer moves its data
(`BusCarries`) before its completion is handled (`BusAnswers`), so a later read may
overwrite the shared response buffer in between. `sensor.sample` is the sample whose
start reached the sensor: the data the published result must carry. Due events come at
any time, also while a sample is under way, and a sensor that is busy may ignore a start.
The history `rested` holds the samples whose start was submitted while no earlier start,
conversion or signal of its end was left (`AtRest`): of the others the code promises
nothing, see section 4.

**LeakDetection.** `Tracked` is `LeakTracker_Evaluate`, one operator for each phase;
`Raised`, `Settled`, `Released` are the three tests of `build_result` in their order.
Flows and thresholds are numbers, compared as `LeakDetection_Evaluate` does, for any
configuration that `LeakConfig_Validate` accepts (`IsValid`). Of a sample's number only
equality with the last one matters, so two numbers are enough, which also makes old samples
come back. `Samples` contains unusable ones although the manager evaluates usable ones only:
they are part of the function's contract. Two histories serve the clear property:
`clearing` is when the run of samples began that meet the continuous rule's clear condition,
`broken` whether an unusable or a reverse sample came into that run.

## 3. The runs

| run | module, configuration | states | shows |
|---|---|---|---|
| `queue` | MCEventQueue, EventQueue.cfg | 148 k | share, order, latest value, bounded bypass, service of urgent signals |
| `storage` | CheckpointStore, CheckpointStore.cfg | 376 k | the protocol implements `DurableStore`; commits end; pending candidates are promoted |
| `volume_fault` | VolumeCheckpoint, VolumeCheckpoint_fault.cfg | - | violation: after one failed transfer two checkpoints have one number |
| `telemetry` | Telemetry, Telemetry.cfg | 41 k | one record in flight, one entry per record, settlement of every record |
| `control_modes` | MCEventLoop, EventLoop_modes.cfg | 729 k | entry actions fit their mode, a critical error reaches ERROR, also when the publication fails |
| `control_jobs` | MCEventLoop, EventLoop_jobs.cfg | 7.8 M | pending flags and period grid under cancellation and refusal |
| `bus` | I2cBus, I2cBus.cfg | 384 k | one answer per transaction, agreement of port, manager and driver, priority of a new operation, `StoragePort` |
| `snapshot` | MCRepository, Repository.cfg | 3.0 M | whole published snapshots only; the buffers implement `SnapshotRegister` |
| `flow` | MCFlowChain, FlowChain.cfg | 3.1 M | each interval between publications is charged once at a published rate; the three results are of one sample |
| `flow_gap` | MCFlowChain, FlowChain_gap.cfg | - | violation: a sample beyond the gap does not become the anchor |
| `pressure` | PressureChain, PressureChain.cfg | 3.2 M | the pressure of a sample started at rest was measured for it |
| `leak` | MCLeakDetection, LeakDetection.cfg | 651 k | state and trackers agree; a suspicion is cleared by evidence only |

Bounds, and why they are enough:

- *Queue*: capacity 3 with one slot closed to background gives every outcome of
  `post` (coalesced, admitted, refused, escalated) at every fill level, and five
  kinds give equal and different priorities and a LEVEL signal beside an edge of
  its own priority; the budget of 4 is the code's own.
  Counters wrap at 2 to exercise the wrap.
- *Storage*: two chunks are the 64-byte volume slot; sequences run modulo 8
  from 6, so they wrap within three commits; two faults and one reset, in any
  order and place, cover every pair of failures that the A/B scheme must survive
  (a fault in a commit and one in its retry; a fault around a reset); four initial
  images: blank, one record, a newer schema, a torn commit byte. The violation
  needs one fault and no reset.
- *Telemetry*: capacity 2, four records, a clock to 3 with a time-to-live of 2 and a
  retry delay of 1: overflow, expiry, equal timestamps and reuse of a slot all happen.
- *Control*: a queue of two, a turn of two steps, nine FSM events that reach and
  leave all six modes, generations up to 4 (a reset restarts them), with commits that fail;
  jobs of all kinds with a table of two, so that it fills, cancelled and rescheduled once each,
  periods of 1 on a clock to 2, so that a turn is late by a whole period, with begins that
  are refused. OWNER_SPECIFIC behaves as SIGNAL_ONCE in the code
  and gets no job of its own.
- *Bus*: two pending places, so that both clients wait at once and the third
  submission is refused; three transfers of the sensor and two operations of up to two
  chunks, so that a chained chunk meets waiting transfers and a second operation meets
  the answers of the first; two aborts (recovery or new driver generation), which may hit
  a transfer and its successor.
- *Snapshot*: two writers, one reader with its three attempts, three commits: each
  attempt may see the index move, and both buffers are written twice. Two words besides
  the version show a mixture. Readers do not influence each other or the writers.
- *Flow*: four interrupts on a clock to 3 with a maximum gap and age of 1, rates in
  both directions: duplicates, reversal, equal times, gaps taken and refused. Two
  events of the chain in the queue, so that a frame meets the next interrupt.
- *Pressure*: three samples, four events, three transfers: a start with two reads behind
  it, events of a sample that outlive it, and a sample that starts while one is under way
  with another behind it.
- *Leak*: a clock to 7 fits an entry (1 or 2), a confirmation, a gap and a clear; six flows
  lie below, between and above the thresholds in both directions; of the two configurations
  one has the burst's clear threshold below, one above the continuous entry, and they
  differ in clear durations and gap.

Names of the bounds: `MaxNumber`, `MaxVersion`, `MaxFaults`, `MaxCrashes`
(storage), `MaxRecords`, `MaxTime` (telemetry), `MaxTime`, `MaxGeneration`,
`MaxJobGeneration` (control), `MaxOperations`, `MaxTransfers`, `MaxAborts`, `MaxLength`
(bus), `MaxCommits` (snapshot), `MaxIrqs`, `MaxTime`, `Room` (flow), `MaxSamples`,
`MaxTransfers`, `PressureRoom` (pressure), `MaxTime`, `MaxGeneration` (leak). They stop producers
and the clock, never a handler; `Room` and
`PressureRoom` only add refusals that the shared queue may give
anyway. The deadlock check is off where a run may end because its bounds are used up:
`telemetry`, `bus`, `flow`, `pressure`, `leak`.

## 4. Disagreements between code and documents

Two are runs that find a violation, with the quotation under "findings" in
`PROJECT.json`:

- A commit that was answered with an error but had reached the medium is retried
  under the same sequence with other volumes; the two slots then conflict and the
  next boot restores nothing (`volume_fault`, `volume_accumulator.c:228`).
- A sample beyond the maximum gap re-anchors a candidate accumulator that the manager
  throws away, because the status says that the time was rejected: the old anchor stays,
  and every later sample is beyond the gap too (`flow_gap`, `measurement_manager.c:286`;
  `18_volume_accumulation.md:217`, FW-VOL-REQ-020).

The others were met while modelling. The models contain the behaviour as the code has
it; no property asks for the opposite.

- *Nothing ticks.* `i2c_bus_tick` (`i2c_bus_manager.c:271`) is the only way out of a transfer whose
  completion is lost, and `StorageService_Tick` the only thing that moves a commit or a
  restore on. Nothing in the firmware calls either (section 1), so a lost completion would
  block the shared bus for ever and a submitted checkpoint is never written. The models
  contain both ticks, as their interfaces define them.
- *Low power ahead of a critical error.* When the fairness budget is spent, the head of the
  queue is dispatched whatever it is: a LOW_POWER_REQUEST at the head goes ahead of a pending
  CRITICAL_ERROR and the mode becomes LOW_POWER first (`app_event_queue.c:176`; against
  FW-FSM-REQ-020, `03_system_fsm_binding.md:149`, and the example at :840).
  `CriticalErrorIsHandled` asks that an admitted error is handled in the end.

- *BACKGROUND starvation.* A steady stream of CONFIG events starves a BACKGROUND event,
  since each of them resets the fairness budget (`app_event_queue.c:201`;
  `app_event_queue.h:95`; `02_event_model_and_scheduler.md:172`, FW-EVT-REQ-003).
  `UrgentSignalsServed` is stated for the priorities above BACKGROUND.
- *SKIP job, double event.* A SKIP job that falls due while its event is still queued
  loses its pending flag and posts a second event a period later
  (`monotonic_scheduler.c:182`, against "Prevents duplicate due posts before acknowledge."
  in `scheduler.h:46`). The composition's power sample is such a job.
- *Forgotten reset.* A controlled reinitialization is in INIT before its reset action
  runs; a transition in the same turn replaces the requested actions, the reset among
  them (`system_fsm.c:194`; `03_system_fsm_binding.md:505`, TR-SYS-051).
- *Telemetry overwrite.* A full queue drops the oldest waiting record but writes over the
  entry at the tail, which may be the one in flight (`telemetry_queue.c:53`; against
  "The entry remains in the queue until Ack succeeds or policy drops it.",
  `telemetry_queue.h:51`).
- *Telemetry retry.* After a failed attempt the record stays in flight, so the automatic
  retry is refused by `Dequeue` and the queue is blocked until the record expires
  (`cellular_delivery.c:95`; `23_telemetry_queue.md:34`, DEC-COM-003).
- *Late frame.* An SPI completion is compared neither with the driver's state nor with a
  correlation: a frame that completes after the next interrupt is filed under the newer
  one's time and number (`max35103.c:101`). The volume still is that of the published flow.
- *Two samples at one time.* The second does not replace the anchor: the interval that
  follows is charged at the rate of the first (`volume_accumulator.c`, the zero interval;
  `18_volume_accumulation.md:727` replaces the anchor). `VolumeIsOfPublishedFlow` allows either.
- *A refused sample* leaves the anchor alone: the interval across it is integrated, unlike
  FW-VOL-REQ-015 (`18_volume_accumulation.md:212`, :701-711). `VolumeIsOfPublishedFlow`
  allows that interval to count or not to count, but not in part.
- *Pressure start while starting.* `zssc3241_on_sample_due` skips a busy driver (the comment
  "Busy — skip"), but the manager then submits a start whenever the state is STARTING, also
  for a sample that was skipped there (`measurement_manager.c:110-116`): a conversion under way
  can be filed under the new number. More generally, a start that meets an earlier start, conversion, poll or end of
  conversion may be given the earlier data. `PressureIsOfItsSample` is stated for
  samples that were started with the chain at rest.
- *Pressure poll.* Two polls of one conversion may publish it twice; an end of conversion
  that is handled before the completion of the start loses the sample. From RECOVERY,
  TIMEOUT and a refused raw-ready event only a late event of the old sample leads back:
  no event resets the driver (`12_pressure` document, :857-868, :891, :1004, and
  FW-PRESS-REQ-031 at :218).
- *One spike can confirm a burst.* PENDING, then CLEAR_PENDING, then a flow between the
  thresholds makes a tracker ACTIVE without the entry duration (`leak_tracker.c:58`, against
  FW-LEAK-REQ-010, `17_leak_detection.md:152`). Such a tracker has no counted activation, so
  a long gap resets it, and a confirmed leak becomes NORMAL by an unusable sample (against :731).
  `SuspicionClearsByEvidence` is stated for trackers with a counted activation.
- *Clear of a confirmed leak.* The document has it cleared by `confirmed_clear_duration_us`
  (:724). No code reads that field: a confirmed leak clears when every tracker has
  cleared by its own rule. No property is stated about that duration.
- *Clear timers* run on while a tracker is suspended (:728, :732), and reverse flow clears
  (:149, FW-LEAK-REQ-007, and :712). `SuspicionClearsByEvidence` makes these two its only
  exception, recorded in `broken`, and even then the sample that clears must be usable.
- *Leak configuration.* `LeakDetection_ApplyConfig` resets the trackers of a suspicion and
  keeps the state; the next evaluation, also of an unusable sample, makes it NORMAL.
- *Leak samples.* A sample older than the last is taken as new; and the manager
  evaluates usable samples only, so the policy for gaps never runs there.
- *Reporting schedule.* The next slot of a window that crosses midnight is searched on the
  day that `now` is in, so that after midnight its remaining slots are skipped
  (`reporting_schedule.c:118-151`; `02_event_model_and_scheduler.md:656`, :675).
- *Bus priority.* A chunk that the F-RAM driver submits from its callback goes ahead of a
  waiting pressure transfer (`i2c_bus_manager.c:239`; `22_persistent_storage.md:934`).
  `PressureGoesFirst` states what remains: a waiting transfer waits for at most one operation.
- *Action heap.* `linux_scheduled_action_queue.c:88-113` moves the last action into a
  cancelled one's place and sifts it down only; when it belongs above, a later deadline is
  dispatched first.

## 5. Fairness

- `EventQueue`: weak fairness of `TryGet`, because the main loop polls for ever.
  Producers owe nothing.
- `EventLoop`: weak fairness of the steps of a turn; `DispatchOne` is strongly
  fair, since the execution budget is first looked at after the posting of at most
  a few due events, which does not eat the whole budget in every turn. Nothing is assumed
  of producers, owners or the clock.
- `CheckpointStore`: its owner ticks, polls mailboxes and restores at boot, and the port
  answers each operation in the end. Both are what the interfaces ask of their users
  (`storage_service.h`, `storage_port.h`), not what the composition does today: nothing
  there calls `StorageService_Tick` (section 4). Nothing is assumed of `Submit`.
- `Telemetry`: ticks and attempts are called from the loop, the modem reports an
  outcome, reconnects, and stays connected often enough for an attempt (strong
  fairness of `StartAttempt`), and time passes.

The other modules, `I2cBus` among them, have safety properties only: an answer in the end
would need a caller of `i2c_bus_tick`, and the firmware has none.

## 6. The proofs

All theorems hold for every value of the constants that satisfies the modules'
assumptions; none depends on the bounds of section 3.

`EventQueueProof` (assumptions: `SizesAssumption`, `CatalogueAssumption`,
`OnePriorityPerSignal` of `EventQueue`):

- `TypeCorrect`. The type invariant is inductive by itself.
- `HeadBypassIsBounded`: the inductive invariant `BypassesAreCounted` ties the
  history counter to the code's budget: while the head waits, each dequeue that
  passed over it has either consumed budget or been forced to take the head, so
  the counter never exceeds `consecutive`, and the budget ends the bypassing.
- `LevelIsLatest`: `PendingLevelIsLatest` is inductive with `TypeOK`. A coalescing
  replaces the one pending event of its signal and its latest payload together; a
  removal only shifts (lemmas `RemoveAtShifts`, `OriginOfSurvivor`).
- `BackgroundShareIsBounded`: a cardinality argument over the set of background
  positions. Coalescing keeps the set because a signal has one priority; admission
  adds one position below the limit; a removal maps the rest injectively.
- `FifoIsKept`: the scan of `try_get` and the fair dequeue both select the first pending
  event of the priority they choose, and no admission takes anything out.

`EventLoopProof`. The theorem about the mode manager needs no assumption on sizes,
catalogues or jobs:

- `ActionsFitMode`: `PendingActionsFitMode` is inductive, since every row of the
  table requests only entry actions of the mode it enters
  (`RowsRequestEntryActions`) and a commit replaces the mask.

The three about the scheduler build on each other (assumptions: `SchedulerAssumption`,
`LoopAssumption`, and `CatalogueAssumption`, that only the scheduler makes deadline events):

- `TypeCorrect`: `TypeInv` adds to `TypeOK` the types of the counters that steps compare.
  Its hard part is the cursor of `ScanJob`, which stays in the table although one-shot
  jobs are removed under it, and stops when the caller's array is full.
- `NoBurst`: `GridInv` says that identifiers are distinct and that the next deadline
  of a periodic job lies beyond the slot it fired in last (`DeadlineAfterFiring`).
  `NextAnchoredIsLater` and `MovedJobOnGrid` are the arithmetic of the division in
  `next_anchored`; skipped deadlines move on along the same grid.
- `PendingIsOutstanding`: `PendingInv` says that the generations of scheduled jobs and of
  due events are the owner's last ones, those of queued events no later (so the
  events of a cancelled job belong to no job), and counts the events of a job in `due` and
  in `buffer`. Each step is followed through these counts (`CountWhenAppended`,
  `CountWhenTakenOut`): a fire adds one, a post moves one or loses it to a refusal, a
  dispatch removes one and acknowledges exactly that generation.

`TelemetryProof` (assumption: `SizesAssumption` of `Telemetry`):

- `OnlyOneInFlight` and `NoDuplicateRecords` come from one inductive invariant,
  `QueueInv`: an entry enters only when no live entry has its record, and is handed
  out only when none is in flight. Its hard part is that the code's scan for the
  oldest entry returns a live one whenever there is one (`OldestIsMember`, from the
  well-foundedness of the naturals in `LeastNatural`), so that overwriting frees the
  slot it claims to free (`DroppedEntries`).
- `TypeCorrect`: the live records are at most `count` many (`Counted`), so `count` is
  positive whenever one leaves and the `uint16_t` never wraps below zero. Entries never
  written pass for waiting ones in the scan of a full queue without having been counted; they
  lie from the tail on until the ring has wrapped once (`BlankAhead`), so a full queue has
  none and gives up counted records only.
- `NoSecondAttempt`: `attempts` never exceeds one, whatever `MaxRetries` is. The record of a
  failed attempt keeps the in-flight mark that `Dequeue` wants free, so the retry limit is out of
  reach (*Telemetry retry* in section 4).

`RepositoryProof` (assumptions: `WordsAssumption`, `BoundAssumption`, and for the theorems about
readers `QuickReaders == CommitsPerCopy <= 1`; `TypeCorrect` does without it):

- The writers: whatever was aborted before, a transaction works in the inactive buffer,
  the buffer it was begun for holds what it intends as far as its copy has come, and
  the active one the snapshot of its version. `ActiveIsWhole` and `WritersStayOut` follow.
- The readers: between the load of the index and the check, either nothing was
  published and the copied words are those of the snapshot that was current; or one
  commit was, and then the index has moved and the attempt is refused. With two commits
  the index may have come back, hence `QuickReaders`. `ReadersGetPublished` follows.
- `RepositoryIsARegister`: the step simulation of `SnapshotRegister`. `CommitPublishes`
  is `Publish`, the load of an index is `Fix`, a check that succeeds is `Give`, the rest
  stutters; the proof uses both invariants in the step.

`LeakProof` (assumption: `ConfigsAssumption`): `StateFits` is inductive with the types of the trackers and
the state. `ClearNeedsEvidence` needs that the clear timer is never older than the run of clearing samples in the history,
unless that run is `broken`: the timer is set when the run begins or later, and a flow
between the thresholds takes the tracker out of CLEAR_PENDING. And an unusable sample never
gives up a tracker that was counted.

`MeasurementProof` (assumptions: `SizesAssumption` and `NoneAssumption` of `FlowChain`; none for
the pressure chain):

- `ResultsOfOneSample` is inductive with the types. Its one hard action is
  `OnRawReady`: `Consume` succeeds only with an accumulator that took the sample's
  number and version (lemmas on `Anchored` and `Consume`).
- `VolumeIsTheIntegral`. The property relates neighbouring publications. The inductive
  invariant `VolumeInv` adds that the accumulator stands at the last publication: its anchor
  has that sample's time and a rate that was published for this time (`AtLastPublication`),
  so what the next sample counts is among the `Charges`. A discarded sample changes
  nothing but `discarded` (`NothingPublished`).
- `PublishedIsMeasured` follows the data back. The mailbox holds data of its own
  sample (`MailboxIsCurrent`), because the buffer does while anything of the present
  sample may read (`BufferIsCurrent`), because the sensor holds the present sample from
  the moment there is evidence that its start arrived (`SensorIsCurrent`, `Evident`), all
  for a sample that was started at rest (`IsRested`). `Numbered` keeps answers of earlier
  samples apart, `PastSamples` says that samples are numbered upwards, and `StartIsCurrent` that
  no start but the sample's own can reach the sensor before the next.

`StorageProof` (assumptions: those of `StorageService` on geometry, sequences, cells and
bounds; `SlotAssumption` says that "no target" is not a slot): six theorems from one
inductive invariant, `Inv`. The four properties are not inductive because nothing in
them says what the machine has established about the medium by the time it writes:

- `TargetIsFree`, `BodyIsInvalid`, `BodyIsVerified`: from the choice of the target until
  the commit byte may have landed, the target is neither current nor foreign; its commit
  byte is invalid while the body is written, because it was read back; and when it is
  made valid again every chunk is the candidate, because those were read back. So each
  interrupted, lost or torn write leaves either an invalid slot that nobody
  selects or the whole candidate (`WriteLeaves`, `MediumAfter`).
- `Ages`: records on the medium, the candidate, the pending record and the owner's
  counters are ordered in number and content alike. `SequenceOrder` takes the numbers
  through the wrap of the sequence, so a candidate that lands is current
  (`GreaterIsCurrent`), and one that does not changes nothing (`EraseKeepsCurrent`).
- `PortMatches`, `ScanMatches`, `Phases`, `ViewMatches`: the port executes only what the
  state asks for, the scan buffers are the medium when they are used, and the mailboxes
  follow the state.

`StoreIsDurable` is the step simulation of `DurableStore` with that invariant:
`PrepareCandidate` is `Begin`, a commit byte that lands is `Land` (in a reset, part of
`Crash`), `FinishCommit` is `Answer`, the end of a restore is `Look`, and the rest is hidden.

`I2cBusProof` (assumptions: `SizesAssumption`, `NoneAssumption` of `I2cBus`):
`ClientsToldOnce`, `AllSidesAgree` and `PressureIsServedFirst` come from one inductive
invariant, `IInv`. Beside the two properties it says that the active transaction is
stamped with the present generation and every late answer with an earlier one
(`Stamped`), which is what lets a late answer be told from the awaited one, and that
transaction identifiers are fresh and suffice, as an operation draws at most one per
chunk (`Drawn`). The pending order has a first member (`BestIsFirst`), so an idle bus
with waiting work starts something or reports a refusal for each until one starts. Every
way a transaction ends (completion, timeout, cancellation, recovery) goes through one
lemma, `EndKeeps`, that follows the client's callback into its next submission.

`PressureIsServedFirst` is about the first chunk of an operation only; later chunks, which the
driver's callback submits, go ahead of waiting transfers (*Bus priority* in section 4).

`DriverIsAPort` is the step simulation of `StoragePort` by the same invariant: every
step is one of the port's or changes nothing there. It needs that a transfer of the F-RAM client
carries the correlation of an operation, and that the idle driver has none (`Tokens`), so
that a transfer that was given up is never taken for one of the operation in progress.

Every safety property and every action property of section 3 that TLC finds to hold is
proved. Only model-checked is what holds under fairness, which the prover cannot treat:
`UrgentSignalsServed`, `CommitTerminates`, `PendingIsPromoted`, `RecordsAreSettled`,
`CriticalErrorIsHandled`.

## 7. What is not modelled

- Vendored HAL and CMSIS, the board project `src/3.stm32`, thin adapters and pure
  formatting: no protocol of this firmware. They are most of the repository's lines.
- Calibration, configuration checks, fixed-point arithmetic, remainders and saturation of the volume
  counters: pure functions at full 64-bit width, which unit tests reach better than a bounded model.
- The reporting schedule: pure functions of the time of day and one accepted slot. Its
  defect is in section 4.
- The SPI bus manager: nothing in the firmware creates one. The MAX35103's events come
  from the port adapter, as in `FlowChain`.
- Power and time service: one value with thresholds or an expiry.
- Of the loop: `run_once_raw`, which drives the same steps without the scheduler,
  and `is_idle`, which changes nothing.
- Of the measurement manager: the ready events it posts after a commit, which nothing consumes,
  and its statistics.
- Of leak detection: the two pressure trackers, which only set flags of the result, and the
  result's metadata.
- The checkpoint policy's thresholds: the composition does not wire the policy to the
  storage service.
- The simulator: providers, peers, scenarios and the action heap, whose defect is in section 4.
- Interrupts inside `post` and `try_get`. The composition binds no critical section; what
  two interleaved posts do to the ring without one is a lost event and a wrong count,
  and binding the hooks is the remedy.
