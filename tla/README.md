# The railway block control system in TLA+

A verification development for the programs in this repository: the
DeadlockManager, which owns the blocks of a railway, TrainController, and the
train processes that TrainController starts.  It is written from the code at the
line numbers that `PROJECT.json` ("map") lists for every definition.

## 1. The system

Two QNX programs and one process per train exchange synchronous messages.

| Part | Code | State | Operations |
|---|---|---|---|
| DeadlockManager | `DeadlockManager/src/main.c` | `active_trains`, `active_train_count`, `train_request_states`, `track_list`, `tick_count` | `MSG_REQUEST_TRACK`, `MSG_RELEASE_TRACK`, timer pulse: position updates, clean-up, deadlock check and rollback |
| Track configuration | `load_track_data` in the same file | `track_list`, `track_count` | read once, at start-up |
| Resource manager | `resource_manager.c` | `track_table` | `init_resource_manager`, `request_track`, `release_track` |
| Deadlock detector | `deadlock_detector.c` | none (the records belong to the manager) | request records, stuck test, graph, depth-first search, reroute suggestion |
| Physics engine | `physics_engine.c` | positions in the train records | moves positions, tells collisions, occupancy, clearance, arrival |
| TrainController | `TrainController/src/main.c:32-88, 290-361` | `train_list`, `train_mutex` | reads its configuration, registers and forks trains, answers `MSG_GET_TRAIN_DATA`, waits for the trains |
| Train process | `TrainController/src/main.c:90-288` | local variables of `run_train_process` | admission, update, retry, request, finish, give up, abort |
| Protocol and limits | `Common/*.h` | - | message types, `MAX_TRAINS`, `MAX_TRACKS`, `TRACK_COUNT` |
| Alternate demo | `train_state_machine.c`, `ipc_client.c` | - | an earlier single-track loop that `main.c` never calls |

**How they interact.**  A train sends the manager a request or a release and is
blocked until the reply.  The manager handles one message or pulse at a time.
For a train it has no record of, it asks TrainController and waits for the
answer, which does not come while TrainController holds `train_mutex` to read its
file.  At each tick (10 ms) it sends every train it has a record of a position
update and waits, train by train, for the reply; every tenth tick it then looks
for a deadlock.  A train decides what to send next only from those updates.

**What is hard.**

- The ownership of a block is written down four times: in `track_table`, as the
  `track_id` of a train's record, as the `currently_holds_track` of its request
  record, and in the track's list of train pointers.  They are updated in
  different places, and the train itself has a fifth copy, `current_track`.
- Records are found by id in two arrays that are compacted when a train is gone;
  pointers into the first array are not adjusted.
- A block is taken from a train by a rollback; the train hears of it at the next
  update, and may have sent something in the meantime.
- Sends in both directions are blocking, and trains are forked and ask while the
  configuration is still being read.
- Three limits (denials, stuck timeout, no progress) decide when a train that
  waits frees its block, so that others can go on.
- A train may die at any time, a fork may fail, the manager may be stopped, and
  TrainController may be run again under the manager with its old records.
- Tracks are stored by id but counted by line.

**What makes each part correct.**  Resource manager: a block has one owner and
changes hands only through being free.  Manager: the copies of ownership agree;
no train's block is lost or left to a train that ended; no two trains on a block;
a rollback hits only a train in a cycle.  Detector: a cycle is reported exactly
when there is one, and the reported train is on it.  Configuration: a file without
gaps is seen in full.  Physics: the helpers agree with what the trains cover and
with when they leave.  Trains: each one ends, whatever the others do, and nobody
waits for somebody who waits for him.  TrainController: it returns, and a train it
registered is served.

`PROJECT.json` ("hazards") lists, line by line, where these could go wrong and
which properties would show it.

## 2. Modules

    TrackConfiguration   DeadlockDetector   ResourceManager      PhysicsEngine
          |        \____________|_______________/                      |
          |                     |                                  MCPhysics
     MCDetector          DeadlockManager  --refines-->  BlockReservation
    (also extends               |      \
     the detector)       RailwaySystem  MCDeadlockManager
                                |
                            MCRailway

The modules with proofs, each extending the modules it is about and the one above it:

    IterationFacts ----------------------------------- PhysicsProofs    (MCPhysics)
          |
    DetectorProofs ----------------------------------- ConfigurationProofs (MCDetector)
          |
    DeadlockManagerProofs  (DeadlockManager)
          |
    RailwayProofs          (RailwaySystem)
          |
    RegistryProofs
          |
    TrainProofs

- **TrackConfiguration**: `LoadTracks` is what `load_track_data` makes of the lines of
  a file, a line being the sequence of its numbers.  A line is stored at its id and
  counted; `VisitedIds` is what a loop over the first `track_count` entries then meets.
- **ResourceManager**: `RequestGranted`, `TableAfterRelease`, `ListedAfterRelease`
  are what `request_track` and `release_track` decide and do.  A track's train list
  has at most one entry, because a grant resets it; it is kept as the slot it points to.
- **DeadlockDetector**: the request records, the stuck test, and the search.
  `Visit` is the depth-first search as a recursive function of colourings, early
  returns included; `Explore` is the body of one call, given what the calls it makes
  return.  `Points` is what one node points to and `LeadsTo` a way of one or more such
  edges; `WaitsFor` and `OnWaitCycle` say what a cycle is without a search.  `request_time_ns` is the number of ticks waited.
- **DeadlockManager**: one action per outcome of a message handler (`DenyNoData`,
  `DenyHeadOn`, `Grant`, `DenyBusy`, `Release`), each the whole handler, and one per
  step of a tick.  `cursor` is the loop index of `send_position_updates`, because the
  manager stops there until a train replies; it is `Idle` in `MsgReceive`.  The
  environment is any train sending anything in `Requestable`.  `listed` keeps the
  *slot* a track points to, so that the compaction of the array changes what the
  pointer shows, as in the code.
- **RailwaySystem**: the manager with TrainController and the real train processes.
  `SkipLine`, `LaunchTrain`, `FinishLoading`, `ControllerExit` are TrainController's
  main; `controller = "loading"` is the time it holds `train_mutex`, in which the
  manager cannot take the request of a train it has no record of.  `pc[id]` is where a
  train is in its loop; a `pc` in `Sending` is a train blocked on the manager, and the
  manager's receive and reply is one joint step of both.  Which of several blocked
  senders and pulses comes next is left open, which covers every priority and arrival
  order.  Faults are actions: `Crash`, the failing fork in `LaunchTrain`,
  `ManagerStops` with `SendFails`, and `Rerun`.  `SysSpec` lets ticks come at any time;
  `TimelySpec` adds the timing below.
- **PhysicsEngine**: the functions of `physics_engine.c` over integers, a duration
  being scaled so that its division is exact; the loops over a track's trains are
  recursive functions of the number of trains looked at.  MCPhysics is one block and the
  slots of `active_trains`, with the calls `main.c` makes: ticks, grants here and
  elsewhere, denials (which may set `track_id` to -1), releases, rollbacks and removals,
  which shift the slots under the block's list.  A release unlists a train only if the
  manager takes it for the owner and the list shows its id, stale pointers included.  What
  the ownership table and the request records decide is left open, and a tick is split into
  its steps; both only add behaviours.  `update_trains_on_track`, `init_train_on_track` and
  the predictions are called by nobody; they are there as the header offers them.
- **BlockReservation**: the abstract promise.  A train is on one block or none; it goes
  only to a vacant block; moving is one step.
- **MC\*** instantiate these for TLC; **\*Proofs** hold the theorems.

Beside some definitions stands a "Mutated form": the same operation with a
plausible bug.  They are used by no specification; they show that each
property can fail.

**Abstractions.**  In the manager and the system, positions and the amount of speed are
left out: no decision reads them, except whether the speed is positive (`moving`).  A
train's counters are kept relative to its last update and capped where the code's
comparisons no longer change.  `tick_count` is kept modulo the check interval.  A line of
a configuration is its numbers; a track's direction is left out, its endpoints are a set.

## 3. Runs

| Run | Instance | Question and answer |
|---|---|---|
| `detector_inputs` | all books of 4 trains over all configurations of up to 3 lines and tracks, with gaps, repetitions and bad lines | the search finds a cycle iff there is one (no track held twice), and never reports a train that only waits behind one; files without gaps are seen in full |
| `manager_open` | 2 trains, 3 blocks, any message at any time, both starting on block 0 | types, aligned arrays, ownership off the start block, records that agree with the table, reroutes onto free blocks, no take-over |
| `manager_ring` | 3 trains around a triangle, admitted onto free blocks, asking and leaving at any time | no block shared anywhere; implements `BlockReservation`; a rollback hits only a train on a cycle |
| `demo` | the demo configuration (4 trains) from its reading to TrainController's exit; train 2 may not be forked or may die at any moment | blocks exclusive, cycles found, nobody waits for a waiter, only dead trains are reported stuck, TrainController returns |
| `swap_untimely` | the head-on pair of `examples/`, ticks at any time, a death, the manager stopped | releases match what the manager believes; no block orphaned or lost, no harmful stale pointer (two trains, see `demo_leak` for more), even when trains are late |
| `startup` | the ring's 3 trains, registry and cache of 2, reruns, a death, the manager stopped, impatient trains | a registered train is never refused a record; TrainController returns from every run; no send blocks for ever |
| `physics` | 2 trains of different speed and length in 2 slots, granted, denied, released, rolled back, removed and admitted again on a block of 3, 5 time steps, a clock that may fail | collision, occupancy, arrival and clearance agree with the positions of the trains listed |
| `shared_start` (violation) | two trains configured on one block | both are admitted to it |
| `demo_leak` (violation) | the demo with the code's tick ratios | a waiting train's block is lost after a slot shift |
| `wedge` (violation) | head-on pair, ticks at any time | manager and train blocked on each other |
| `apart` (violation) | head-on pair on blocks that are not neighbours | left unresolved although no neighbours |
| `standstill` (violation) | a train configured with speed 0 | it is never ended, and TrainController never returns |

The violations are the "findings" of `PROJECT.json`, each with the comment or
document it contradicts.

`SearchIsExact` is stated for books in which no track is held twice.  Otherwise the
search may return -1 with a cycle present, because the back edge enters a *track*
node; in the system two trains hold one track only after a shared start.

**Bounds.**  A tick of the model is ten of the code (`REQUEST_RETRY_TICKS` and the check
interval), so the code's limits are 4 (request), 2 (complete), 1 (retry), 1 (check), 8
denials, 50 (stuck), 120 (no progress).  The passing runs use 2, 1, 1, 1, 3, 4, 6: the
same order of events (a train moves before it asks, denials run out before the stuck
timeout, and that before no progress) in fewer states.  `demo_leak` uses 4, 2, 1, 1, 8,
10, 12; there, the order of a completion and a denial matters and the smaller numbers
hide it.  The properties about lost and orphaned blocks (`NoOrphanedBlock`,
`VacatedIsReleased`, `ShiftsAreHarmless`) are therefore not checked in `demo`: on its
routes they fail with the code's ratios, and a pass with smaller limits would mean nothing.
`startup` uses no progress after 3 and 5 denials, so that trains abort: that
path is unreachable with the code's constants, where eight denials in a row take 80
ticks and no progress 1200.
`MAX_TRAINS` is the number of trains, or 2 for three trains in `startup`, so that both
limits are met; the code has 5.  `TRACK_COUNT` is 6 as in the code where real
configurations are used and 3 in the open environments.  Two trains suffice in
`manager_open` because its properties relate at most two trains; cycles that are
rolled back need three and are met in `manager_ring` and `demo`.  `detector_inputs` has 3
tracks, hence cycles of up to three trains, and a fourth train that waits behind one or
holds a track twice.  A check every second tick (`manager_ring`, `swap_untimely`) lets
messages arrive between a tick without check and one with it.  In `physics` the horizon
lets both trains run off the block's end.

**Timing and fairness.**  `TimelyTick` says that when a tick is handled the configuration
has been read and every train has dealt with the previous tick: a train's work for an
update is a few message exchanges on one machine, the interval 10 ms.
`TimelyControllerStep` says that no train is launched inside a tick.  The code enforces
neither, and `wedge` shows what happens without; `swap_untimely` checks what holds
regardless.  Fairness is only used with that timing: the periodic timer fires; the
manager, which waits for nothing but a train's reply, finishes a tick it began;
TrainController, which waits for nothing but its trains, goes on; every train process
is scheduled.  No fairness is assumed for deaths, reruns or the stop of the manager, so
liveness holds whether or not they happen.

`swap_untimely` and `startup` have no deadlock check, because the system does stop
there: in the first the senders may block each other (`wedge`), in both the manager may
be stopped, and then TrainController may be left waiting for trains that wait for their
next update.

## 4. Theorems

All are proved for every number of trains, slots and blocks, every configuration and
every value of the limits, under the hypotheses they name.  Every safety invariant and
action property of the passing runs is a theorem.

`IterationFacts`: induction up to a bound and complete induction, for a property given as
the set of numbers that have it (both from the least counterexample), and that a recursive
definition of a loop has a solution.  The proofs about the search and about the loops of
the physics engine rest on these.

`DetectorProofs`, for every book of records and every list of tracks:

- `SearchIsSound`: a train the search reports is on a cycle of waits.  The colours left
  by earlier searches never make it blame a train that only waits behind a cycle.
- `SearchIsComplete`: if no track is held twice (`HeldOnce`), a search that reports nobody
  leaves no train on a cycle.

`Visit` is a recursion over colourings, so that it *has* a value is shown first: a call on a
WHITE node looks only at calls with fewer WHITE nodes (`Rank`, `VisitExists`).  What a call
does (`Answer`) is then shown by induction on their number: it colours BLACK what it could
reach, or names a node it found GREY, which is on the path of the open calls (`OnPath`).
`HeldOnce` is needed where the search drops the name it found: a back edge that enters a
track node names a train only if that track leads to one train.

`ConfigurationProofs`:

- `DetectorReportsOnCycle`, `DetectorIsExact`: the same as invariants of the inputs that
  MCDetector explores, for any number of trains and any size of `track_list`;
- `GaplessFilesAreSeen`: a file whose ids have no gap and are not repeated is met in full
  by the loops over the first `track_count` entries, because a line only ever fills the
  entry of its own id (`LineInPlace`).

`DeadlockManagerProofs`, for trains that send anything at any time:

- `ManagerTypeOK`, `ManagerSlotsAligned`, `ManagerExclusive`, `ManagerHoldsAreOwned`,
  `ManagerNoTakeover`: properties of `manager_open`;
- `AdmittedExclusive`: `Exclusive`, for trains admitted onto free first blocks.

They rest on one inductive invariant,

    IInv(T) == TypeOK /\ SlotsAligned /\ ExclusiveOn(T) /\ HoldsOwnedOn(T)

for a set `T` of blocks.  `ExclusiveOn` alone is not inductive: a rollback gives up
the block its *request record* names, and a handler writes to the slot it finds by id,
so the records must agree with the table and the two arrays with each other.  The
parameter `T` is where the code's weak spot sits: a record fetched from TrainController
is located on its start block before it owns it, so the invariant holds on the blocks
where nobody starts (`ManagerInvariant`), and on all blocks only if a new train finds
its first block free (`AdmittedExclusive`).  `shared_start` is the counterexample
without that premise.  `SlotStep` shows once that a handler which rewrites one aligned
slot, and leaves other trains' blocks alone, preserves `IInv(T)`; `LookupFacts` that every
handler finds or makes such a slot; one lemma per action supplies the rest, and
`NextIInv` combines them.

- `ManagerRollbackOnlyOnCycle`: the check takes a block only from a train on a cycle of
  waits, whatever the trains send.  Needed besides `IInv` and `SearchIsSound`: no train
  waits for the block it is on (`NoSelfWish`), because the head-on test looks away from it.
- `AdmittedCycleIsReported`: with trains admitted onto free first blocks no cycle goes
  unreported when a check is due.  Exclusive locations give `HeldOnce` only on blocks of
  the ownership table; that trains are on no others is `OnBlocks`.
- `AdmittedReservesBlocks`: with such admissions the manager implements
  `BlockReservation`.  Since `SlotsAligned` gives a train one slot, `LocatedAt` is a
  function of the relation "located on", which every action changes for one train at
  most; that the block it enters is vacant is `ExclusiveOn(Blocks)`.
- `ManagerRerouteIsFree`: where the lines of the configuration name the ids 0, 1, ..
  without gap or repetition (`GaplessFile`), the proposed block is nobody's.  That the
  entries the loops meet are then those of their index (`GaplessIds`) is shown by induction
  over the lines (`FileFills`).  The invariant is `OwnedIsListed`: an owned block has a
  train in its list, a stale one perhaps.  That is why stale pointers, which lose blocks
  in `demo_leak`, do no harm here.

`RailwayProofs`, for TrainController and the trains as they are, untimely ticks, deaths,
reruns and stops included:

- `SystemImplementsManager`: `SysSpec => Spec`.  The manager's theorems are about trains
  that name only tracks in `Requestable`; the real ones do because a train releases the
  track it believes to be on, which it has from an update, which carries what the manager
  granted.  `SysInv` says so for the two processes together.
- `SystemExclusive`, `SystemNoTakeover`: what follows for the system.
- `SystemTypeOK`: the system's types; that denials never pass their limit needs that a
  train looks at them between any two requests (`Hopeful`), that the registry stays
  within `MAX_TRAINS` needs the lines yet unread to be of trains not yet started.
- `TimelyNoMutualSend`: with timely ticks no two sends block each other.  The invariant
  is `Quiet`: the trains the update loop has not reached are waiting for it.

`RegistryProofs`:

- `SystemRegisteredNotRefused`: a registered train is never refused for want of a record.
  A full cache would have to hold `MAX_TRAINS` trains other than it; but only trains that
  every run registers are ever cached (`Caches`), because what is registered depends only
  on how far the file is read (`Reads`), and there are at most `MAX_TRAINS` of them.
- `SystemRollbackOnlyOnCycle`: `ManagerRollbackOnlyOnCycle` in the running system.
- `TimelyAdmits`: with timely ticks, distinct first blocks (`DistinctStarts`) and one run of
  TrainController (`~ Reruns`), every train is admitted onto a free first block: the premise
  of the manager's `Admitted...` theorems, derived.  The invariant (`Admission`) says who can
  own a first block before its train is admitted: nobody, because no train gets away from
  its own before the first tick, and no tick comes before all trains have asked.
  `demo` satisfies the hypotheses, `shared_start` the negation of the first.
- `TimelyExclusive`, `TimelyCycleIsReported`, `TimelyReservesBlocks`: what follows.

`TrainProofs`:

- `SystemReleaseMatchesLocation`: the manager never frees a block another train stands on;
  whoever releases a track is located on it or nowhere.  Train and manager differ only
  between a grant and the next update; the danger is a train that gives up its old block
  just after it was granted the next.  It does not (`Informed`): the grant has set its
  denials to 0, and its standstill cannot have reached the no-progress limit because its
  denials would have ended it before.  Hypothesis: `MAX_CONSECUTIVE_DENIES *
  REQUEST_RETRY_TICKS < MAX_NO_PROGRESS_TICKS`; 8 * 10 < 1200 in the code, 3 * 1 < 6 in
  `swap_untimely`.
- `TimelyOnlyKilledTrainsGetStuck`: only a train that was killed is reported stuck.  A wish
  is no older than the denials it met (`Patient`), and these end it before the timeout.
  Hypotheses: the one above, those of `TimelyAdmits`, and
  `(MAX_CONSECUTIVE_DENIES - 1) * REQUEST_RETRY_TICKS <= StuckAfter`; 7 * 10 <= 500 in the
  code, 2 * 1 <= 4 in `demo`.
- `SystemKeepsBlocks`, `SystemVacatedIsReleased`: `NoOrphanedBlock` and `VacatedIsReleased`,
  with late ticks, rollbacks, deaths and a manager that is stopped, **as long as
  `ShiftsAreHarmless`**.  Without that they are no theorems of the code: a removal
  moves the later records down and leaves the tracks' pointers where they are, so a
  denial may mark a train inactive on a block it owns, which is then lost (`demo_leak`).
  `ShiftsAreHarmless` says that no removal moves a train down that is on a block and may
  yet be denied: it has arrived, has ended, or has no rival for its destination.  The
  theorems thus say that stale pointers are the *only* way to lose a block.
- `SystemShiftsAreHarmless`, `FewRivalsKeepBlocks`: that premise, and the two
  properties without it, for two trains, and for trains none of which starts on or goes to
  another's destination (`FewRivals`).  A record is removed when its train has ended and
  owns nothing, so that the only train that could deny another its destination is out of
  the way.

The invariant of these four is `KInv`.  For each train: it is located on every block it
owns, hence owns one at most (`Stands`); the list of that block shows it, or no denial will
look at the list (`Safe`); and once it ended of its own accord it owns nothing
(`LeftNothing`).  The first two need each other: a denial keeps a train on its block if
some list shows the train, and a list is written by a grant and emptied only with its block
freed.  The third needs
`Informed`: what a train releases is the block it is located on.  Rivals never
increase (`RivalsStay`) because a train that ended stays so (`EndedForGood`), hence
`~ Reruns`.  The hypotheses besides that and the limit of denials above are
`RoutesAreSeen`: destinations are blocks, and the blocks of the routes are among the
first `track_count` entries, the only ones whose lists `train_is_on_any_track` looks at.
`swap_untimely` satisfies all of these and `FewRivals`, and checks `ShiftsAreHarmless`.  The
demo's routes do not satisfy `FewRivals`; with the code's ratios of limits the premise
fails there (`demo_leak`), and the properties with it.

`PhysicsProofs`, for any number of trains, any speeds, lengths and blocks:

- `PhysicsInvariant`: the rear of a train is not ahead of its front, no train entered in the
  future, the speed is 0 or the configured one, and the block's list points to no slot twice.
  Slot shifts and releases through stale pointers are among the steps (`UnlistedFacts`).
  `update_trains_on_track` compacts the array in place and may give up half way; it does so
  only at a time (0, a failed clock) at which no train it moved before has left, so nothing
  is written in the wrong place (`DropFacts`, `NoneLeftAtZero`, `CompactedFacts`).  The
  theorem does not say that a list shows only trains that are on the track: in the program
  that is not so (`demo_leak`).
- `CollisionIsExact`, `ArrivalIsExact`, `ClearanceIsPredicted`: the results agree with the
  intervals the trains cover and with the first moment at which something is true.
  Durations are exact because `Scale` is a multiple of every speed (`DurationFacts`).
- `OccupancyIsExact`: the sum over the trains is the number of covered units, or more where
  trains overlap; by induction over the track (`TotalFacts`, `PartIsInside`).

The assumptions are the named ASSUMEs of the modules: ids are natural numbers, limits are
positive, a train's messages name its first track and its destination, the configuration
names each train once, and trains and blocks have the lengths the two programs give them
(not negative, and positive).

**Only model-checked.**  Liveness (`ControllerReturns`, `SendsReturn`): the prover does not
reach it.

**Not claimed.**  `ShiftsAreHarmless`, `NoOrphanedBlock` and `VacatedIsReleased` for more than
two trains that start on or go to each other's destinations, as in the demo: there they
depend on which of several limits a train meets first, and `demo_leak` shows them fail.

## 5. Not modelled

- The alternate demo loop (`train_state_machine.c`, `ipc_client.c`): nothing calls it, and
  it attaches to a channel id the manager is not given.
- A second configuration under a running manager, and a restart of the manager under
  running trains: the configuration is a constant, and the manager loses all its state.
- A configuration that names a train twice: two processes would share one channel name.
- `get_distance_between_trains`, `compute_distance`, which compute one difference, and
  all printing and logging.
- The lengths of blocks in the manager: a line of seven numbers is taken as the code takes
  it, by its first six, and nothing that is decided reads the length.

Observed and covered by no property: on a rerun a train may be refused because its first
block is still owned by a train of the earlier run that was killed.

## 6. Plan

Done: all components but the alternate demo, the runs and the theorems above.  Open:

1. Three trains with untimely ticks, on a smaller ring.
2. A second configuration under a running manager, by making `Start` and `Powered`
   variables that a rerun changes.
