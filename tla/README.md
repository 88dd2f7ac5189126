# A TLA+ model of the Metal miner

`src/` is a miner for a distributed Ising-annealing service: a session (crate
`quip-solver-core`, not in the repository) hands it jobs and leases, and it
answers each with spin readings. The program anneals on Apple GPUs through Metal
and, for small jobs, on the Neural Engine (ANE) through worker processes. This
directory models its concurrent core in TLA+ and model-checks it with TLC; it also
proves with TLAPS, for every size, the safety properties the runs check, all but one
(`LayoutSound`) of its components' own. Paths below are relative to the
repository's root (`src/resident.rs` is the main crate's `resident.rs`,
`crates/` is beside it).

## 1. Inventory

| Component | Source | State | Operations | Hard part |
|---|---|---|---|---|
| Resident runner | `src/resident.rs` 1241–1557, `Pool::harvest` 339–500 | a unit in hand, two pools, end-of-input flag, a copy of the settings | fill, harvest, admit, rebuild, full-budget run, step, flush, drain | single thread, but every send may block and everything around it changes between two of its steps |
| Preparation | `src/resident.rs` 880–1105 | 8 worker queues, a cursor, replies in order of submission | submit, collect in order, prepare | workers finish in any order; the runner waits for the oldest |
| Answers and rejection | `src/resident.rs` 185–254, 1115–1179 | none of their own | answer, reject or cancel, drain | one answer per unit, with the receiver perhaps gone |
| Slot pools | `src/slots.rs` | per slot the resident unit, its leg and its schedule's storage; one command buffer | build, admit, step, wait, take checkpoints, read back, release | host and GPU share the slots; a command is cut by four limits at once |
| Segment schedules | `src/cascade.rs` 812–1066, `src/sampler.rs` 479–501 | a cache of prepared schedules | cut, prepare | storage is shared by equal schedules, and storage that was freed is used again |
| Lease feeding | `src/lib.rs` 339–500 | per lease a reporting thread, a feeder, `fed`, `feeding`, a stop flag; `lease_round`, `runner_live` | `sample_lease`, `report_lease` | three threads, two counters, a bounded channel into a runner that may have gone |
| Lease turns | `src/lease_turn.rs` | a queue of turn ids | join, wait, release, drop | any lease may leave the queue at any position |
| Cascade controller | `src/cascade.rs`, `src/cutoff.rs`, `src/model_checks.rs` | epochs, plan, per-stage cutoffs and audit lanes, report ranges, yield check | admit, checkpoint, finish, enter round or topology, refresh | tickets outlive the epoch, plan and settings they were cut under |
| Batch stream | `src/streaming.rs`, `src/sampler.rs` | two batches that alternate, a job put aside, buffer pool, cached topology | form, encode, commit the next chunk, harvest, cancel, yield | cancellation in the middle of a batch, buffers still in use by the GPU, waiting with a batch in hand |
| Engine router | `src/combined.rs` 494–739 | a queue, per engine a reservation, alive or dead | route, collect, reconfigure, drain | an engine thread that ends with jobs reserved for it |
| ANE worker process | `crates/ane-miner/src/process.rs`, `worker.rs` | a child process and a directory per job, a cached sampler | open, spawn, poll, cancel, kill, reap | exit of the child races poll, kill and the death of the miner |
| ANE programs | `crates/ane-miner/src/solver.rs`, `native/ane_bridge.m` | two banks of thresholds, two spin surfaces | stage, submit, finish, release | the host stages a block while the dispatch before it runs |
| Utilisation governor | `src/iokit_gov.rs`, `src/combined.rs` | knobs as single atomics, a parked poll thread | reconfigure, poll, report, read scale, stop | every knob is read and written on its own; stop races the park |
| Topology and coloring | `src/topology.rs`, `src/sampler.rs` | none | build rows, colour, fill | loops, repeated edges, an unstable sort |
| Nonce draw | `src/draw.rs` | none | pure functions | numeric only |
| Device and kernels | `src/metal_device.rs`, `src/kernels/` | handles | I/O and GPU arithmetic | outside the model |
| Entry points | `src/lib.rs`, `src/bin/` | none | argument parsing, wiring | outside the model |

How they interact:

```
                 ┌────────┐ try_send ┌─────────────────────────────┐
  session ─jobs─▶│ router │─────────▶│ Metal engine: runner (MSA)  │──▶ GPU
     ▲  ◀results─│        │◀─results─│          or batch stream    │◀──
     │           │        │          └─────────────────────────────┘
     │           │        │─────────▶┌────────────┐ spawn ┌─────────┐
     │           └────────┘◀─────────│ ANE engine │──────▶│ worker  │──▶ ANE
     │                               └────────────┘ poll  └─────────┘
  lease threads ──feeders──salts──▶ runner ──▶ 8 preparation workers
     ▲  (one feeds at a time)          │
     └───────── outcomes ──────────────┘      governor: scale, throttle ──▶ both streams
```

What makes each part correct:

* **runner**: every unit it takes is in exactly one place and is answered exactly
  once; abandoned units get no reads; slots change only at rest; after end of
  input, a closed output or a fault it returns and leaves nothing unanswered;
* **slots and schedules**: what is read at a checkpoint is exactly the anneal the
  checkpoint stands for, on the unit's own schedule;
* **layout**: nodes updated together share no edge, and each node sees each
  neighbour with the sum of their couplings;
* **leases**: one feeds at a time, in the order they joined; a lease is complete
  only when every salt is reported; rounds grow over reseeds; open leases return;
* **controller**: a unit is judged under the plan its schedule was cut for, at the
  stage its slot reached, in its topology's epoch; ranges and yields count
  only units of their own round and target;
* **router**: every job in one hand; credits are never exceeded; a job goes only
  where settings in force since it was picked up allow; one engine's trouble does
  not hold up the other's jobs;
* **batch stream**: reads come from the job's own region, topology and whole
  schedule; no wait for input with a batch in hand; the GPU is idle at the end;
* **ANE**: reads went through every sweep in order; nothing is released under a
  dispatch; processes and directories are cleaned up; an orphan ends;
* **governor**: GPU time counted once, a floor under the scale, settings arrive,
  stop does not wait.

The hazards, each at its line and with the properties that cover it, are in
`PROJECT.json`.

## 2. Modules

| Module | What it is | Uses |
|---|---|---|
| `StreamContract` | abstract: what a stream promises the session and the leases | |
| `Resident` | the runner, its preparation workers, both pools and their callers | implements `StreamContract` |
| `Schedule` | pure: legs, checkpoints and betas of a segment schedule | |
| `Layout` | pure: rows, places, colours and couplings of a graph | |
| `SlotPool` | one pool in detail: storage, upload, commands, checkpoints, device time | `Layout`, `Schedule` |
| `LeaseFeed` | leases, feeders, the turn queue, what they see of the runner | |
| `Controller` | plans, tickets, verdicts, rounds, yield check | |
| `Dispatch` | pure: reads, batch sizes, governor share, chunk plan | |
| `StreamBatch` | `run_stream`: two batches, chunks, pooled buffers | `Dispatch`, implements `StreamContract` |
| `Router` | `Router::run` and the two engine threads | implements `StreamContract` |
| `AneProgram` | one solve: blocks, banks, surfaces, dispatches | |
| `AneWorker` | the ANE engine, the worker process, its watchdog | `AneProgram`, implements `StreamContract` |
| `Governor` | knobs, poll thread, settings, stop | |
| `ResidentProofs` | theorems about `Resident`: shape, custody, pools and commands, the end and the contract | |
| `LeaseFeedProofs`, `ControllerProofs`, `RouterProofs`, `StreamBatchProofs`, `AneWorkerProofs`, `GovernorProofs`, `SlotPoolProofs` | theorems about the module of that name | |
| `MC…` | the instances for TLC | |

`StreamContract` ties the parts together. Below the router are streams that keep
it (`Resident` or `StreamBatch` on the Metal side, `AneWorker` on the other), and
the router, which relies on no more than that an engine answers or dies, keeps it
towards the session.

### StreamContract

Units are accepted, answered at most once, abandoned; the output may close; the
stream ends only when no accepted job is without an answer. A unit that is
abandoned before its outcome is fixed gets neither reads nor an error; a unit is
reported cancelled only if it was abandoned or nobody listens any more. `Lossy`
says whether a stream may drop what it holds when its output is closed, which
`Resident` does not do and the others do.

### Resident

One action is one turn of one of the runner's loops, so that senders, workers,
the GPU and cancellation can step between any two units it handles. `pc` names
the loop:

| `pc` | Code in `run` or what it calls |
|---|---|
| `start`, `top` | start of the workers; test for a closed output |
| `fill`, `refill` | the two calls of `Preparation::fill` |
| `harvest`, `sweep`, `judge`, `read`, `reply` | `Pool::harvest`: wait and checkpoints, abandoned units, verdicts, read-back, answers |
| `admit`, `next`, `place`, `slot`, `fallback` | the admission loop: output test, take a unit, decide, upload, full-budget run |
| `exit`, `throttle`, `yield`, `step` | exit test, governor gate, `commit_step` |
| `flush`, `drainReady`, `drainPending`, `drainJobs`, `drainSalts`, `done` | shutdown, `reject_preparation`, `reject_tail` |

State and code: `jobs`, `permits` and `outLen` are the tokio channels (a reserved
place is a permit and can be used after `close`); `salts` is the intake channel;
`work`, `ready` and `reply` are the worker queues, the ordered list of replies and
the reply channels of `Preparation`; `pending` is the local of that name; `shape`
the topology, read count and stride of the pools; `live`, `cmd` and `steps` the
slots, the command buffer and what it will advance; `marks`, `done` and `cursor`
the locals of `harvest`; `answers` and `sent` are history.

Abstractions, and why they keep what matters:

* **Energies.** What the controller says at a checkpoint is a choice among going
  on, reading back and screening out, within what the kind of checkpoint allows.
* **Schedules.** A unit has a length under each settings value, and one command
  moves it one position; positions carry gates and observe points. `SlotPool`
  has the legs, slices and restarts that stand in one position here.
* **Sends.** The outcome of a unit is fixed before its send, and the send may
  block. `Answer` records the outcome and puts it in the hand of the runner;
  `Unblocked` keeps the runner from going on while that result waits for a full
  open channel, hence `outLen` up to `OutCap + 1`.
* **Errors of `release` and `commit_step`.** Both fail only on a busy pool, an
  unknown slot or a slot at its end. `HostAtRest` and `RoomToStep` show that the
  runner never meets these cases, so the model has no branch for them.
* **Polls of two channels.** `fill` tries a channel and, if that is empty, the
  other. The two `try_recv` are one action: the other channel's content only
  grows between them, and an item missed is found by a later fill.
* **Time.** Idle sleeps, the once-a-second settings check and the throttle's
  deadline are choices without clocks; the governor's share of slots is any
  number from 1 to the pool's size, what `scale_budget` returns.
* **Left out:** the best ten reads of a lease, utilisation windows, statistics.

### SlotPool, Schedule, Layout

`Schedule` cuts a unit's work into legs as `segment_schedule` does: legs up to
`ReheatThrough` sweeps continue one anneal, reheated at each checkpoint; longer
ones start afresh. A beta is the name of its rung, so that two schedules are equal
when their rungs are. `AnnealAt` says, from the stages alone, which anneal a
checkpoint stands for; `Betas` and `Checkpoints` are what the code lays out.

In `SlotPool` a schedule lives at a *place*; `held` is what a slot believes its
region holds, `store` what is at each place and `betas` what is in each region. A
place nobody refers to may be used again with other contents, as an allocator
does. `CommitStep` takes the least of slice, checkpoint, observe point, restart
and dispatch room, and the kernel's effect is in `Complete`: it continues
or restarts, and writes the output when asked. A command may fail; the pool is
then flushed and dropped. The build of a pool chooses a graph and any layout that
the unstable sort allows; `LayoutSound` is about that layout. Device time is
divided among the slots in equal shares, the remainder going to the first ones.

### LeaseFeed

`lease[l]` is where the thread of `sample_lease` stands, `feeder[l]` where the
feeder it spawned stands; `waiting` is the queue of `LeaseTurns`. The runner is
reduced to what a lease sees of it: it takes salts, answers each with an outcome,
and on its way out answers what it holds and what is in the channel, clears
`runner_live` and returns. `Resident` shows that it is at least as good
(`Served`, `Settled`). `fed` and `index` are separate steps of the feeder because
the reporter reads `fed` between the send and the count. The session may stop one
lease, a reseed stops all open ones; `fresh` and `need` record, for the round
properties, the round that a lease should read.

### Controller

The runner calls the controller from one thread, so each call is one action;
what interleaves are the session's `Configure` messages, the workers that cut
schedules under older settings (`Submit`), and units that finish long after the
plan, topology, round or target they were admitted under has been replaced.
`at[u]` is where a unit is, `cut[u]` the sweep counts of its checkpoints and
`next[u]` the one its slot reaches next, `ticket[u]` its `Ticket`. `plans` holds
every `StagePlan` made so far, since a ticket keeps its plan alive. `UsePlan`,
`AimYield` and `EnterRound` are the parts of an admission, `Verdicts` what
`checkpoint` may answer, `Finish` and `LeaveUnread` how a unit leaves (one that was
abandoned before its read-back has no best energy), `ObserveTransition` and `Learnt` what the plan learns.

Abstractions: a cutoff keeps nothing before it has `MinSamples`, then it may keep
or reject any energy (`MayKeep`); kept energies and audit observations are the
sets of units they come from; an index past the end of a plan's arrays is a step
to `panicked`; reports, load updates and the corrections of `model_checks.rs`
(which move a cutoff, and so change nothing that is not already a choice) are left
out. `Fits` is what `Resident` does in detail: pools of one topology, rebuilt only
when empty. That the rounds of arriving salts do not fall is `TurnOrder` of
`LeaseFeed`.

### StreamBatch, Dispatch

`pc` walks through `run_stream`: forming a batch (`form`, `paused`, `gated`,
`seed`, `fill`, `sift`, `encode`), sending results (`send`), the loop over the two
batches (`loop`, `wait`). A batch knows its jobs, its buffer, its topology, the
rungs of a chunk and its commands. Buffers come from a pool with whatever they
hold: `memory` says, region by region, whose state is there, on which topology and
through how many rungs. The first chunk writes each region in full, later ones go
on from it; a batch that is dropped gives its buffer back unless the GPU is at
it. The device's memory decides whether a topology can be encoded.

`Dispatch` computes what the code computes: rounded reads, the threadgroup
budget, batch sizes, the governor's share, the estimated rate with its measured
curve, and the chunks. Rates are in 10^7 updates per second and fractions are
floored, where the code has floating point; the limits it yields may be one rung
off at a boundary, which no property depends on.

For SA and Gibbs the buffers are new and zeroed, which is `PoolCap = 0`.

### Router

`active[e]` are the jobs reserved for engine e, `inbox`, `held` and `outbox` where
they are on that side, `pending` the router's queue with the settings an entry was
last scanned under. The Metal engine holds up to its declared width, the ANE one
job. A pass over the queue handles each job in three steps, between which the
session may cancel it or change the settings: `PickUp` looks at cancellation
(`combined.rs:628`), `ReadSettings` copies the settings and scans the graph without
the lock unless the entry remembers a scan under the same settings (638–652), and
`ScanAssign`, `ScanRefuse` or `ScanWait` acts on what was found (653–708). The history
`since` keeps the settings that were in force since the pick-up and the jobs
cancelled before it. `RoutedAsConfigured` is stated with it, and cannot say more:
TLC finds jobs routed by settings that were replaced just before the `try_send`, and
jobs that were cancelled just before it, which the engine then answers as cancelled.
Engines may fail to start, panic, or answer with a fatal error. Which engines
a job's graph suits is a constant, since it does not change; whether they are
enabled does. Leases, which let the Metal engine start without a job, are left out
here.

### AneWorker, AneProgram

The engine's thread (`pc`) opens the sampler with a startup check, spawns a
child per job, polls it, kills and reaps it, and decides by its receipt. Each system
call may fail, within `MaxFaults`. The child boots, starts its watchdog,
and solves: `AneProgram` has the solver's blocks, the bank that is staged, the
surface that is read and the one that is written, and a dispatch that completes,
fails or hangs. A spin surface is the sequence of sweeps its spins went through.
If the miner dies, the child is inherited by init and its watchdog ends it.

### Governor

Each load and store of an atomic is a step. Threads that take the Metal sampler
start the governor or reconfigure it; `apply_config` stores the settings and
pushes them to a governor that runs; a runner reads ceiling, yielding and loads in
turn for `budget_scale`; the poll thread samples accelerators, drains the busy
counter and parks with a token. Percentages are integers.

## 3. Runs

| Run | Instance | Distinct states | Shows |
|---|---|---|---|
| `resident_mixed` | a job and a salt of different shape, every preparation result, one slot per pool, fair | 303,036 | `OwnershipInv`, `HostAtRest`, `Settled`, `ImplementsContract`, `Served` |
| `resident_pools` | two salts of two leases, two slots per pool, a gate, two settings | 886,468 | `GpuOwnsSlots`, `CanFinish`, `Custody` |
| `slots` | four units, each of another schedule, two slots, four places, failing commands, 319 graphs | 108,800 | `SlotInv`, `CheckpointsAnnealed`, `ObservedInTime`, `LayoutSound` |
| `lease_feed` | two leases of one salt, one stream, fair | 170,421 | `FeedInv`, `LeaseEnds` |
| `lease_round` | three leases, of two salts and of one, two reseeds, before any stream | 567,247 | `RoundAfterReseed`, `TurnOrder` |
| `controller_plans` | a chain salt and two plain ones, stages or keep change | 1,662,015 | `CutByPlan`, `LearntInv`, while gates stay closed |
| `controller_rounds` | a job, two salts, two rounds, two topologies, rates and gates change | 1,503,655 | `RangeOfRound`, `LiveInEpoch`, `TicketInv`, `YieldOfAim` |
| `controller_opened` | a chain salt, gates opened | – | `CutByPlan` is violated (section 5) |
| `router_route` | jobs for Metal, ANE and both, two settings, one event, fair | 414,300 | `RouterInv`, `RoutedAsConfigured`, `ImplementsContract`, `Served` |
| `stream_batches` | five jobs, two topologies and an empty one, two watermarks, two devices, one event, fair | 414,994 | `BatchInv`, `ReadsAnnealed`, `IdleAtEnd`, `ImplementsContract`, `Served` |
| `ane_worker` | three jobs, two faults, one event, fair | 64,002 | `WorkerInv`, `Annealed`, `CleanedUp`, `ImplementsContract`, `Served`, `OrphanExits` |
| `governor_knobs` | two openers, two accelerators, a change of settings, two reports, fair | 1,157,903 | `KnobInv`, `SettingsReach`, `StopJoins` |

`RouterInv`, `BatchInv`, `SlotInv`, `FeedInv`, `KnobInv`, `WorkerInv`, `TicketInv`,
`LearntInv` and `OwnershipInv` are conjunctions of a type invariant or book-keeping
with the properties named in them, each stated with a comment of its own.

**Bounds and why they are enough.**

* *Resident*: only units grow. Two are enough for each conflict two units can
  have: different pools, the same pool, different shapes, one in hand while the
  other is resident, one with a worker while the other waits in order, one blocked
  in the result channel while the other is answered. Two slots per pool give a
  live one beside one that is read back; two workers answer out of order;
  capacities of one make every send block.
* *SlotPool*: two slots and four kinds of schedule (reheated, with a deep leg, with
  neither, empty), a slice shorter than a leg and a dispatch room that binds before it,
  an observe interval that is no checkpoint; four places, so that storage is freed
  and used again; `BusyGraphs` keeps the graphs with units on them few, and all
  319 are laid out in pools of their own.
* *LeaseFeed*: two leases give a front and a waiter, a third one that leaves from
  the middle; `MaxStreams` 0 in `lease_round` keeps salts in the channel, which is
  where order shows, and gives a lease two salts; `lease_feed` needs one each.
* *Controller*: one change of settings (`MaxConfigures`), one new round
  (`MaxRound`); one unit admitted before a change and one after it are what a
  stale plan, epoch, round or yield check needs. Energies are at the target and above
  it. The two plain salts of `controller_plans` are symmetric: no definition of
  `Controller` chooses among units.
* *Router*: three jobs of three kinds, two with Metal at once; one event among
  cancellation, settings, failure and closed output (`MaxEvents`), at any step, so
  also between any two of the three steps of a pass.
* *StreamBatch*: the threadgroup budget gives batches of two when the governor
  grants half of it, sweeps per rung make chunks of one rung for two jobs and
  of two for one; a pool of two buffers and two batches in flight.
* *AneWorker*: one job of three dispatches (both banks used again), one refused,
  one with no sweeps; two faults, since the leaks of section 5 need two.
* *Governor*: two openers, so that one is overtaken; a window of no length.

**Fairness** is stated where liveness is claimed, and only for what the code's
scheduling gives: threads run (weak fairness of the whole step of the
runner, the host loop, the router, an engine, a worker, the poll thread), GPU and
ANE commands end (except that an ANE dispatch may hang), and the session reads
results. Nothing forces a job, a lease, a cancellation or the end of the
input, and nothing obliges the ANE engine to finish a job in `Router` (`MetalPasses`
holds without it). Weak fairness is enough because no thread competes for a
guard that another can take away for ever: in `StreamBatch` that is why the pause
of the governor is bounded. `StopJoins` needs no poll interval to end.

**Deadlock** is checked in every run but `lease_feed`, `lease_round` and `slots`,
where the system has nothing left to do once leases have returned or units are
done; the others have an explicit last state (`Finished`, `Stopped`, `Over`).

**Mutants.** An operator after a comment `Mutant:` is the next definition with a
plausible mistake (a lost reset, a missing wait, a dropped guard). No specification
uses them. `PROJECT.json` names the property each one breaks.

## 4. Proofs

| Module | Theorem | Says |
|---|---|---|
| `ResidentProofs` | `TypeCorrect`, `ShapeInvariant` | `[]TypeOK`, `[]ShapeInv` |
| | `Ownership`, `UnitsInCustody` | `[]OwnershipInv`, `[]Custody` |
| | `OneAnswer`, `ReplyOwed` | `[]AnsweredOnce`, `[]RepliesAwaited` |
| | `HostWorksAtRest`, `GpuKeepsItsSlots` | `[]HostAtRest`, `[]GpuOwnsSlots` |
| | `ResidentsCanFinish` | `[]CanFinish` |
| | `EverythingSettled`, `KeepsContract` | `[]Settled`, `ImplementsContract` |
| `LeaseFeedProofs` | `LeasesConserve` | `[]FeedInv` |
| | `LeasesInTurn`, `RoundsRise` | `[]TurnOrder`, `[]RoundAfterReseed` |
| `GovernorProofs` | `KnobsBounded`, `SettingsArrive` | `[]KnobInv`, `[]SettingsReach` |
| `ControllerProofs` | `TicketsCount`, `NobodyLeftBehind` | `[]TicketInv`, `[]LiveInEpoch` |
| | `RangesAreOfTheirRound`, `YieldIsOfItsAim` | `[]RangeOfRound`, `[]YieldOfAim` |
| | `SchedulesFollowPlans`, `PlansLearnTruly` | `[]CutByPlan`, `[]LearntInv`, with closed gates |
| `RouterProofs` | `JobsInOneHand` | `[]RouterInv` |
| | `RoutesByItsPass`, `RouterIsAStream` | `RoutedAsConfigured`, `ImplementsContract` |
| `StreamBatchProofs` | `BatchInduction`, `BatchCorrect` | `[]IInv`, `[]BatchInv` |
| | `BatchAnneals`, `BatchIdle` | `[]ReadsAnnealed`, `[]IdleAtEnd` |
| | `BatchKeepsContract` | `ImplementsContract` |
| `AneWorkerProofs` | `WorkerCorrect`, `WorkerAnneals` | `[]WorkerInv`, `[]Annealed` |
| | `WorkerCleansUp`, `WorkerKeepsContract` | `[]CleanedUp`, `ImplementsContract` |
| `SlotPoolProofs` | `SlotInduction`, `SlotsCorrect` | `[]IInv`, `[]SlotInv` |
| | `CheckpointsAre`, `ObservedOnTime` | `[]CheckpointsAnnealed`, `[]ObservedInTime` |

Each is `Spec => ...` for every value of the constants that the module's
assumptions allow. The bounds of the models (`MaxEvents`, `MaxConfigures`,
`MaxRound` and so on) are constants too, so they bound no theorem.

**Assumptions** stand in the module that declares the constants, and TLC evaluates
them in every run.

* `Resident`: jobs and salts are disjoint and each salt has a lease
  (`UnitsAssumption`), bounds are positive (`BoundsAssumption`), each unit has a
  positive length under each setting (`PlanAssumption`), and `None` is none of the
  values it stands beside (`NoneAssumption`).
* `LeaseFeed`: each lease has a positive number of salts; capacities are positive.
* `Governor`: ceilings are percentages from 1 to 100, busy time is not negative,
  and there are finitely many accelerators, the busiest of which is taken.
* `Controller`: stages are sequences of positive numbers, energies are integers,
  each unit has a number of sweeps, and `None` is no target, energy, range, ticket
  or check. Nothing is assumed of which units keep, miss or are audited.
* `Router`: widths and capacities are positive, each job has a set of engines it
  suits, and `None` is no outcome and no settings.
* `Dispatch`, `StreamBatch`: cores, sweeps per command and capacities are positive,
  the governor's shares are percentages above zero, each job has a key and a number
  of reads, each key a number of nodes and a degree, and `None` is no job or batch.
  Nothing is assumed of how many reads, nodes or neighbours there are, or of what
  the device can hold.
* `AneProgram`, `AneWorker`: a block takes 1 to 8 sweeps, as the native programs do,
  each job has a number of sweeps and a positive number of sweeps per rung, and
  `None` is no dispatch. Nothing is assumed of which system calls fail.
* `SlotPool`: capacity, stride, dispatch room, slices and the observe interval are
  positive; the stages of a unit rise, as `CascadeSettings::merge` demands
  (`src/cascade.rs:224`) and the chain's gates do; `None` is no place, resident, cache
  entry or run. `Places > Ahead + Capacity` says that an allocation succeeds: the
  cache, the slots and the units prepared keep no more places than that. Nothing is
  assumed of a unit's sweeps, of where the stages lie, of which of them the reheats
  take in, or of what an observe interval divides.

`CutByPlan` and `LearntInv` have one hypothesis more, that no settings open the
gates. It is needed: with it dropped, `controller_opened` violates `CutByPlan`
(section 5). Gates are closed unless a user opens them, and the hypothesis holds in
`controller_plans`, where stages, keep rates and topologies change all the same.

### Resident

**Shape.** `TypeOK` is not inductive: taking a unit in `place` or reading back
`Head(done)` needs that the hand is full and that `done` lists live slots.
`ShapeInv` adds `HandInv` (the runner's hand is full or empty where its code
unwraps or overwrites it) and `DoneInv` (slots for read-back are live, distinct
and behind the cursor). One lemma per group of actions.

**Ownership.** `Place` maps each of seven places (job channel, intake, workers,
replies, hand, slots, answered) to the set of units in it. `Custody` says that
these sets divide `sent` and that no place holds a unit twice. It is not inductive
alone: a worker's answer must not overwrite another's reply, a job
must not be sent twice on one permit, a collected reply must be the head of
`ready`. `OwnershipInv` adds `RepliesAwaited` (the ordered list is exactly the units
with the workers and in replies), `PermitsUnsent` and `ReplyOwn`. Then every
action is one of four moves: nothing changes place (`Untouched`), a unit enters
(`EnterDivides`), one unit goes from one place to another (`MoveDivides`), or
residents only advance. The step lemmas say which; `Divides` is opaque outside
three lemmas about it. `AnsweredOnce` follows since a unit being answered is in
another place, so its list of answers is empty.

**Pools.** `PoolInv` has three parts. `CommandInv` says where the commands are: none
for the pool in hand from the end of its harvest to its next step, none without
pools, and a command that runs was committed for exactly the live slots, of which
there is one. `FitInv` adds the unit about to be placed to `SlotsFitPools`: the
decision to place it and its upload are separate actions. `ProgressInv` says that
a resident unit has schedule left, or is one that the harvest in progress has marked
as at its last checkpoint and will read back or free (`ToRead`). `RoomToStep`
alone says nothing of the turn of the loop in which the unit arrives there. With
these three theorems the error branches that the model leaves out (`release` and
`commit_step` on a busy pool, an unknown slot or a finished one) are out of
reach for all sizes.

**Contract.** `ContractInv` adds to `OwnershipInv` what is already empty at each stage
of the shutdown and stays so (`WindDown`), that resident units are flushed only after
a fault or when nobody reads (`FlushInv`), and that only a salt reaches a gate
(`GateInv`), so that a job is never screened out. `Settled` follows: at `done` all
places but the intake are empty, and by custody every unit sent is in one. For the
refinement, each action has a lemma that names the step of
`StreamContract` it is; one that answers needs from custody that the unit was
accepted and has no answer yet (`Owes`).

### LeaseFeed

`LeaseInv` is `FeedInv` with four parts. `QueueInv`: turns stand in the order of their ids,
ids are unique, and a lease that has its turn joined before all that queue; that
is what makes the removal of a place from the middle safe. `ThreadInv`: where
the two threads of a lease may stand together, and what `feeding`, `fed` and the
result are there, so that a reporter that reads the two sees the final count.
`SaltInv`: salts are sent once, and what the runner holds is older than what is
in the channel. `FedInTurn` itself is needed for that. The salts of a lease are
counted by cardinalities; `Balanced` turns the sums into numbers that the step
lemmas can add up.

`RoundInv` is for the rounds: if a round that a lease needs is not reached yet, it is
one away, and a cancelled lease that joined before it still has to count its
cancellation, and will do so before it leaves the queue (`WillCount`). A
lease cannot get its turn before that one has left, so it reads the newer round.

### Governor

`KnobsInv` types the local of every thread and bounds what the reader holds
at each of its steps: a ceiling read, then a scale in its bounds, whatever is stored
in between. The load is the greatest that an accelerator answers, and that a finite
set of integers has a greatest element is a lemma by well-founded order, not by
induction (`Greatest`). `ReachInv` says that a knob
without the session's setting has someone who will store it: the thread that applies
the settings, or an opener that has not read them yet, or one that read the present
ones. `overtaken` is the case in which there is none.

### Controller

`ControllerInv` is `ShapeInv` (plans are sequences of records whose
learnt parts are indexed by their stages; a plan never changes its stages) and
`UnitsInv` (a unit is prepared once; a running unit has a ticket of a plan and no
final energy). On it stand four separate arguments:

* *epochs*: a change of topology moves the epoch, and `Fits` admits a unit of
  another topology only when nothing runs (`LiveInEpoch` is inductive then);
* *rounds*: `RoundsInv` says that salts wait in the order of their rounds and no
  ticket is ahead of the present round. Without the order of the queue a late salt
  could bring an old round back and its energies into the range. That order
  is what `TurnOrder` gives;
* *aims*: `AimsInv` says that a ticket of the present yield epoch was cut under the
  present target and rate. Every change of either moves the epoch;
* *gates*: `GatesInv` (no plan is open, schedules have one checkpoint per gate
  and the final one, a ticket is never past its last) and `MarksInv` (a ticket's
  mark tells whether the stage before chose the unit for an audit, and
  nothing is recorded of a stage that a unit has not reached).

### Router

`JobsInv` is `TypeOK` with two parts. `HandsInv`: the five places of a job (`Hand`:
channel, queue, either engine, session) are apart, within `sent`, and miss no job while
somebody reads (`Kept`); every action moves one job, a set, or nothing
(`KeptMoved` and its kin). `RoomInv`: what is in an engine's channel, in its hands and
in its result channel is apart, is reserved, and is no more than the reservations,
which are no more than the limit; hence `try_send` finds room and no engine
waits to answer. `EngineRoom` alone is not inductive: it does not say that the
three are apart, so a job taken from one might be in another already.

`RoutedAsConfigured` does not follow from the guard of `ScanAssign`, which knows
only what an entry remembers. `RoutingInv` carries the rest over a pass: what is
remembered is what a scan under the remembered settings finds; from the pick-up on
the present settings are among `since` and the job is not one cancelled before; at
`route` the remembered settings are among them too. The engine is then eligible
under those (`FoundFit`), and a refused job had no live one (`NextRefuses`). For the
contract, `EndInv` says what is known where (an end of input means an empty channel; the loop
ends when nobody reads or nothing is left) and `OutcomeInv` when an outcome is
fixed: not while a job is with the session, in the queue or with an engine that has not
answered. So a step that fixes one finds none fixed, and the end of the stream
finds all of them fixed. `FixingResponds`, `Unseen` and `JoinedEnds` are the three
kinds of steps: a response, a stutter, an end.

### StreamBatch

`IInv` has five parts. `TypeInv` types the whole state, regions and batches included.
`ShapeInv` says what `forming`, `current` and `queue` are at each place in the code
(a batch in hand where the code unwraps one, one or two where it alternates).
`CustodyInv` is a ledger: each job sent is in the channel, put aside, being formed, in
one of the two batches, or answered, and in no two of them. `BatchesInv` says of every
batch what it is made of, that its chunks are the first ones of its plan with all but
the last completed, that region i of its buffer holds the rungs of those chunks for
job i (one chunk more or less while a command runs), and that no two batches, and no
batch and the pool, have the same buffer. `TimeInv` accounts for the GPU time that
the governor was not told of. Neither `BatchInv` nor `ReadsAnnealed` is
inductive without the disjointness of the buffers: a buffer that went back to the pool
too early would be written by the next batch.

The lemmas below it are about `Dispatch` (a scaled batch is never empty and never over
the threadgroup's budget, a chunk is never longer than the rungs left, the chunks of
a plan end where the schedule ends), about sequences (what `Kept` leaves of a list),
and about the pool, where a finite set has a subset of each smaller size. For the
contract each action is an acceptance, one answer to a job that is still owed
one, an event, the end, or a stutter; the end needs that the ledger is empty but for
answered jobs unless nobody reads any more.

### AneWorker

The child solves while its parent polls, so the invariant is a program's and a worker's.
Of the program: `HoldInv` says that a dispatch in flight has a state surface, a
handle and a pending flag, so nothing is released under it; `CountInv` counts sweeps
against dispatches (every block but the last is full); `LaidInv` says that what the
surfaces went through, with the block being laid out, is the walk up to where the host
is, and that the bank in flight is the other one than the bank being staged. Of the
worker: `ChildInv` says at each place of the engine's thread what is left of child and
directory, and that a second attempt or a stray child needs as many faults;
`VerdictInv` and `JobsInv` are about the receipt and the answers; `ReplyInv` carries a
solved reply from the child's memory to the session. That the two nested loops of
the solver visit each sweep once and in order is `WalkIs`, for every number of sweeps
and of sweeps per rung. It is an induction over the rungs, and the form it takes is
in the next paragraph.

### SlotPool

A checkpoint is right for two reasons, and the proof has two halves. The first is about
`Schedule` alone. The budgets that `segment_schedule` keeps rise, each leg of its own is
laid behind the legs before it (`EndsAre`), so checkpoints rise too and the last one is
the end (`EndsRise`); from this `AnnealLies`: the rungs from where the anneal of a leg
starts to the leg's checkpoint are the anneal that `AnnealAt` derives from the stages,
for every list of stages, every number of sweeps and either choice about the reheats.

The second is the invariant `IInv`, of eight parts. `TypeInv` types the state.
`StoreInv` says whose schedule is at each place that someone keeps, and that the region
of a slot starts with the schedule at the place it holds: more cannot be said, since a
shorter schedule leaves the end of a longer one behind it. `LiveInv` adds that the
place a live slot holds has its own unit's schedule, that its coefficients are
that unit's, and that no unit is in two slots. `LegsInv` puts each slot within the leg
to its next checkpoint. `CommandInv` says that a step of the command in flight ends in
that leg, is written out when it ends at its checkpoint or at an observe point, crosses
no observe point otherwise, and restarts just where a leg of its own begins.
`SpinsInv` says what the spins went through: from the start of the anneal to the
position, in terms of the region of the slot. `OutputInv` says the same of what was last
written out, which may lie behind the spins but not by an observe interval. `FoundInv`
ties what is found to both. `CheckpointsAnnealed` alone is not inductive: it speaks of
slots at a checkpoint, and what their spins are depends on each slice before.

That an upload finds a free place is a count: the places kept are an image of the cache
and the slots and units that keep one, so there are fewer than `Places` (`ImageBound`,
`FreePlace`). `RegionHolds` needs `KeptBy` to name all of these, or a place would be
written while a slot still trusts it. `TimeShared` is an invariant by itself next to
`IInv`: the shares of a command add up to `DeviceTime` (`SharesCover`, from
`TotalShares`, an induction over the slots in their order), so `TakeCheckpoints` adds as
much to the bills as to the time to be billed, and a release takes the same from both.

**Induction.** The library's induction theorems take an operator as a parameter, which
the provers cannot instantiate. Where a proof needs one over numbers (the walk,
flattened lists, plans, legs, sums, subsets of a size) it is by a least counterexample: `LeastNat`,
from well-founded order, gives the least element of a set of numbers. A recursive
function is a `CHOOSE`; its equation is proved by giving the function explicitly
(`Joins`, `FlattenIs`).

### Only model-checked

* **Liveness** (`Served`, `LeaseEnds`, `StopJoins`, `OrphanExits`): under fairness it
  is out of the prover's reach.
* **`LayoutSound`**: colouring and filling are folds over sequences of any length, of
  operators that take two arguments, and the sorted orders are permutations; what
  they yield for every graph would be an induction over each. TLC checks it on 319
  graphs with every layout of each.

## 5. Where code and documents disagree

With a run of its own:

* **A chain salt may run under a plan that was not made for it.**
  `src/cascade.rs:614` says "Queued jobs must use the current gate plan", but the
  schedule is cut again only if the configured stages changed, while the plan also
  depends on `open_gates`. A chain salt prepared before a `Configure` message that
  opens the gates, and admitted after it, keeps the 15 chain checkpoints under
  a plan of (by default) two stages (`controller_opened`). It is then judged at
  other sweep counts than the plan names, and at its fourth checkpoint
  `audit_unavailable_logged[stage]` (`cascade.rs:421`) is past the end: the
  runner panics. `CutByPlan` and `NoPanic` (in `LearntInv`) hold if the gates are
  not opened, whatever else changes (`controller_plans`).

Met while modelling, and visible in the models, without a run of their own:

* **A lease may not stop waiting on a runner that has exited.** `src/lib.rs:250`
  says that `runner_live` is cleared "so a lease stops waiting on it". The
  reporter stops, but its scope joins the feeder, and the feeder may be blocked in
  `salts_tx.send` (`lib.rs:476`): the intake is full and its only receiver belongs
  to the sampler, so the channel never disconnects. That is why `LeaseEnds` makes
  an exception of `runner = "off"`.
* **A unit may be refused because it does not fit.** `docs/cascade.md:33` says
  "A job that needs more schedule space also drains both pools before
  replacement". The test uses the length cut at preparation; admission cuts the
  schedule again under newer settings, and a longer one fails. It is answered as
  failed, so no unit is lost (`Custody`, `CanFinish`).
* **The yield check counts stream jobs.** `docs/cascade.md:97` speaks of "new
  lease units", `src/resident.rs:1436` says that plain jobs "leave the yield check
  alone"; `admit_prepared` counts every unit, and `finish` compares a job's energy
  with the leases' target. `YieldOfAim` therefore speaks of units, not of salts.
* **A job may be refused by an engine that was never asked.** The Metal engine
  looks for a first job and then for the end of the input
  (`src/combined.rs:430`). When the last job and the end of the input come between
  the two, it returns with the job in its channel, which the router answers
  as failed.
* **The pause of the governor does not leave the device idle.**
  `src/streaming.rs:343` says that `yield_gate` is called where "no GPU work of
  ours is queued"; the overlap path forms a second batch, and pauses, while the
  first one's chunk is on the GPU.
* **A governor may keep old knobs.** A thread that takes the Metal sampler reads
  the settings and stores them after a `Configure` message has stored newer ones
  (`src/combined.rs:83` against `246`); they stay until the next stream or
  lease. `SettingsReach` makes an exception of it (`overtaken`).
* **`external_utilization` is not `utilization - self_utilization`** at all times
  (`src/iokit_gov.rs:123`): the three are stored one by one, and a reader sees
  values of two windows. `ScaleBounded` shows that the scale stays in its bounds.
* **Two failing system calls leak a worker.** `stop_and_reap` fails and `Drop`
  tries once more (`crates/ane-miner/src/process.rs:112` and `204`): if both
  fail, the child is never reaped. `CleanedUp` says that one failure does not.
* Smaller: `src/lib.rs:254` promises more of a reseed than `RoundAfterReseed` (a
  reseed that finds only leases whose last salt is queued is counted by none);
  `src/resident.rs:1541` says that channels are empty at a normal end of input (a
  salt fed between the last fill and the exit test is still there, and is
  answered as failed: `Settled`); the open-gates branch of `checkpoint`
  (`cascade.rs:689`) leaves an audit mark of the stage before in place, which is
  why `AuditsSelected` is checked with gates that stay closed.

## 6. Not modelled

* Energies, spins, RNG streams, GPU kernels, ANE program text and weights, the
  random draws: arithmetic with no interleaving, tested against references in the
  repository.
* Values of cutoffs, and the load, drift, audit and yield corrections to them:
  statistics on floating point; what they can decide is a choice in `Controller`.
* The blocking `sample` calls outside a stream (`src/sampler.rs` 1572–1650): one
  batch through the same encode, commit and harvest, with no other actor.
* Device discovery, argument parsing, logging, statistics: input and output.
* `quip-solver-core`, tokio and Metal: outside the repository; modelled by what the
  code relies on (the `external` entries of the map).

## 7. Plan

1. `LayoutSound` for every graph: colouring and filling as recursive functions of one
   argument, whose equations can be proved as those of the schedules are.
2. The lease's best ten (`src/resident.rs` 65–112) against a reference definition.
