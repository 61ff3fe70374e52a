# hems, specified

TLA+ models of hems, a home energy management system, with the TLC runs that
check them on small instances and theorems that TLAPS proves for every value of
their constants. Every definition is translated from the Rust source; the
field `map` of `PROJECT.json` names the lines each one stands for.

To check one run, or the proofs of one module:

    tlc -workers 2 -config RegisterLane.cfg MCRegisterLane
    tlapm RegisterLaneProofs.tla

## 1. The system

A household runs one process, **hemsd**, on a small box. Its control loop ticks
every second: it reads the devices, obeys the ceiling a network operator or an
EEBUS energy guard has set (§ 14a EnWG), bounds and shares what power there is,
tells the devices, and writes what happened to a local store. A planner beside
it asks the fleet for prices and weather and publishes a plan. A manager of the
household's may drive devices over S2. The outbox takes the record to a fleet
of services over the household's internet line. The services may be down for
days and the box may lose power at any instant.

| Part | State it keeps | Operations | Interacts with | Modelled |
|---|---|---|---|---|
| hemsd store (`services/hemsd/src/store.rs`) | redb tables: registers, events, owed queues, outbound rows, failsafe, learned models, trust | one redb transaction per operation, under one mutex | control loop, outbox, API, planner | partly |
| hemsd control loop (`runtime/control.rs`) | `Carried`, in memory: the slot and its tallies, the local day, the evidence recorder, phase state, previous commands, the failsafe | tick, close a quarter hour, close a day, deliver, record | store, drivers, hems-realtime, hems-grid, planner, S2 | partly |
| hemsd outbox (`runtime/outbox.rs`) | a snapshot per lane per round | three lanes, drained one after another: events and registers to histd, reports to obsd | store, histd and obsd over HTTP | each lane |
| hemsd planner (`runtime/planner.rs`, `fleet.rs`) | what the fleet last answered, the published prices and plan | rounds on a timer: ask, publish the prices, solve, publish the plan | tariffd, forecastd, optimizer, control loop | rounds |
| hems-realtime guard and allocation | none; the verdict of a tick | bound every device by every rule, share what is scarce | control loop | most of it |
| hems-realtime arbiter | none; carried by the loop | desires, ramp, deadband, messages | guard, phases, control loop | partly |
| hems-realtime phases | phase state per charge point, carried by the loop | decide | arbiter | yes |
| hems-grid evidence (`evidence.rs`) | the open control event, the last sample | observe, close | control loop | yes |
| hems-grid rules (§ 14a, § 9, MiSpeL, sharing) | none | calendars and arithmetic | guard, histd | § 14a budget, § 9 cap |
| hems-drv Modbus (`modbus/`) | discovery, one pending request, a partial measurement, commands to write and confirm | on_link, on_bytes, on_timeout, command | transport, registry | yes |
| hems-drv EEBUS | sessions of an external crate | readings, limits, failsafe | registry | the failsafe only |
| hemsd transports (`runtime/transport.rs`, `ship.rs`) | connection, backoff, trust list | connect, reconnect, pump, trust | drivers | the Modbus one |
| hems-flex and S2 (`session.rs`, `runtime/s2.rs`) | sessions, the instruction in force, owed aborts | offer, select, instruct, revoke, report, abort | a manager, control loop | one control type |
| hemsd overrides (`runtime/overrides.rs`) | a map with expiries | set, clear, expire | API, control loop | no |
| tariffd | a cache by slot with provenance, a poller's schedule | poll, merge, prune, serve | price sources, planner | yes, without parsing |
| forecastd | the last weather run, a schedule | poll, serve | planner | no |
| histd | `quarter_hour` versions, `control_event` rows | batch insert, event insert, daily prune, reads | outbox, settlement | writes |
| obsd | `site_day`, one row per site and day | verify a signature, replace by date, prune, aggregates | outbox | writes |
| fleetd | registry of boxes, credentials, configurations, releases | enrol, configure, release | boxes | no |
| agentd | none the house depends on | read and write text | other services | no |
| hems-events, hems-service | none | CloudEvents, webhook signatures, HTTP shell | all services | window and timeout |
| hems-core | value types | envelopes, modes, slots | all | where they are used |
| hems-forecast, hems-optimizer, hems-sim, xtask | none | statistics, a linear programme, simulation, tooling | planner, tests | no |

### What is hard

- **Several tasks, one lock each, no lock across a wait.** The outbox snapshots
  what is owed, posts, and marks afterwards; the planner publishes in pieces;
  the S2 tasks and the loop meet in a map; the transports and the loop meet in
  the registry. What was read before a wait is used after it.
- **A call whose outcome is not known.** A lost answer, or a request that
  outlives its caller's timeout, is handled later, or twice, or is answered
  when another request is out.
- **A crash between any two steps.** redb transactions survive; what the loop
  carries, the recorder, the planner and tariffd's cache do not, and the devices
  keep what they were told.
- **A wall clock that is corrected.** Slots, days, retention, sampling,
  signatures and dwell are differences of it, and there are two clocks.
- **Part of a step failing.** A round stops or skips, a driver takes the first
  of two commands, a source answers for half a day, the store fails after the
  value was remembered.
- **Many bounds on one value.** Ratings, stores, shares, fuses, conductors,
  ramps and the least a charge point can do all narrow a setpoint, in an order,
  and the sum of what is left must still fit.

### What makes a component correct

- *Record legs*: what is no longer owed is what the fleet has; nothing owed is
  lost except to its retention or a document that was read and refused;
  everything owed arrives.
- *Evidence*: each reduction has one record that begins with it, tells each
  ceiling, the first effective tick and an uninterrupted trace.
- *Guard*: what is left to the devices respects, between them, the operator's
  ceiling, each fuse, the feed-in cap and the conductors.
- *Delivery*: what the loop believes it commanded lags behind the devices by a
  stated amount; a rule of the guard is always told; a ramp arrives; the
  operator's failsafe outlives a restart.
- *Phase switching*: a mode is held for the dwell, and changes exactly when the
  conditions have been confirmed throughout the window.
- *Drivers*: nothing stale is measured, nothing is confirmed that the device
  does not do, a fault costs a delay.
- *Manager*: a word ends with the manager; each instruction has a story; what
  was accepted is begun, what is overridden is told.
- *Planner and prices*: what is followed is as young as it says, no priced
  quarter hour is lost, the best price stands whatever the order of answers,
  and both come back after a fault.

`PROJECT.json` lists each of the hazards at the line where it bites.

## 2. The models

Each action is what one task does between taking a lock and releasing it, or
what one service or device does with one request. Instants are small integers
or, in `Modbus`, `Planner` and `Prices`, ages and what is left of a deadline,
so that no behaviour ends at a bound of the clock. Documents, registers and
ceilings are model values or small numbers.

| Module | Models | State | Actions |
|---|---|---|---|
| `AtLeastOnce` | the abstract leg | owed, taken, due | Write, Take, Acknowledge, Release, Elapse |
| `RegisterLane` | quarter-hour registers, from the loop to histd | `carried`, `REGISTERS`, its forwarded marks and `REGISTERS_OWED`, the round, stray requests, histd's versions, both clocks | Meter, CloseQuarterHour, SweepRegisters; PostBatch, PostFails, PostStraggles, AnswerArrives, AnswerLost, MarkForwarded, MarkFails; Restart; FleetTakes, FleetPrunes and the strays |
| `EventLane` | control events, one request each | the open event, `EVENTS`, its marks, `EVENTS_OWED`, the round with what was accepted so far, histd's row counts | Receive, Release (with its prune); StartRound, EventAnswered, PostFails, AnswerLost, MarkForwarded, ...; EventTaken, FleetPrunes |
| `ReportLane` | day reports to obsd | the local day, `OUTBOUND`, `OUTBOUND_OWED`, the round and its instant, obsd's `site_day` | CloseTheDay; BeginRound, ReadBacklog, AnswerTaken, AnswerRefused, MarkSent, StoreFails; Crash, Start; ReportTaken, ReportRefused, FleetPrunes |
| `Evidence` | the recorder, the loop's call of it, the store's insert and prune | open event, last sample, stored events, and the ticks of the reduction as history | Watch, Close, Quiet, PowerCut |
| `Phases` | `favoured_mode`, `decide`, `decide_all` and the carrying of their state | phase state per charge point, the clock, and history of ticks and decisions | Tick, SetClock, Restart |
| `Allocation` | `allocate`, `allocate_indivisible` as operators | none | none |
| `Guard` | a tick of the guard and the arbiter over a house: `flows`, `verdict` with its stages, the conductor choice, `apply_modes`, and what the devices make of it | draw of each device, rest of the house, sun, who is measured, stores, operator's limits, modes, envelopes | Tick; SunMoves, HouseholdChanges, Switches, Stops, StoreReaches, GoesSilent, IsHeardAgain, MeterComesAndGoes, OperatorSays |
| `ControlLoop` | from what is asked of a device to what it was told: ramp, realisable values, deadband, messages, refusals, the failsafe record | what is asked, `previous`, what was told, the failsafe in force, reported, remembered and kept | LoopTick, AskChanges, OperatorWrites, LoopRestart |
| `Modbus` | the SunSpec and the declared-map driver, the transport, the registry's entry, and the loop's second | the driver's state, the connection, requests on the wire, the device, the entry, the loop's turn | Connected, DialFails, Dial, Park, Wake, Close; AnswersPromptly, Holds, AnswersLate, Refuses, Garbles; Observe, Command, NoCommand, Tick |
| `Manager` | S2 sessions, `serve`, the shared map, the loop's read and its telling | each session, `Held`, the loop's place in a tick, and what was said as history | Connect, Handshake, Select, Deselect, Instruct, InstructBadly, Revoke, Ignore, Breach, ReportTick, Apply, Lost, Finish; LoopReads, LoopTells; Tick |
| `Planner` | the planner's rounds beside the loop that follows the plan and prices the registers | timers, the round, what was answered, what is published, what the loop carries | RoundBegins, Refresh, Attempt, SolveEnds; Tick; Advance, FleetChanges, ProblemChanges, Restart |
| `Prices` | tariffd's fetch loop, poller and cache, and a box's curve | each source's deadline and failures, the round, the sleep, the cache, what the box keeps | AskingBegins, Fetch, AskingEnds; BoxAsks; TimePasses, SourceChanges, ServiceRestarts |

Composition. The three lanes are instances of one promise: each has
`Leg == INSTANCE AtLeastOnce` with its own items, what the fleet holds of them
as `taken`, and what a retention or a refusal has released as `due`. `Evidence`
composes the recorder, the loop's `record` and the store; `Guard` extends
`Allocation` and composes the guard, the arbiter's choice of conductors and the
devices; `ControlLoop` starts from any sequence of what `Guard` and `Phases` may
leave; `Modbus` composes driver, transport, registry, device and loop;
`Manager` the sessions, their tasks and the loop; `Planner` the planner and the
loop; `Prices` the service and the box. The lanes of one round are not composed
with each other, as no lane reads what another writes. `ControlLoop`, `Prices`
and `Guard` name their parts differently from `Phases`, `Planner` and `Evidence`
(`LoopTick`, `TimePasses`, `GuardNext`), so that one proof module can extend both
of a pair.

Abstractions that matter:

- A batch, a snapshot or a request carries the document as it was read, so a
  late request delivers the old one. `strays` is the set of requests nobody
  waits for; each may be handled at any later time or never.
- In `RegisterLane` the answer and the mark are separate steps, because the loop
  may run between them. In the other lanes the same separation is there per
  request.
- obsd, histd and tariffd are under `src/` and are modelled from it; HTTP is
  modelled by what a call can come to.
- No round is bounded in time by anything but its requests: in `ReportLane` it may
  outlast obsd's tolerance, and in `Planner` the timer, which keeps its own time
  (what goes off meanwhile is made up for once, and the rest skipped).
  `RoundMost` in `Planner` names the bound of that instance.
- `Evidence` keeps the stored records as a set: two that are alike in everything
  count as one.
- Powers in `Phases`, `Guard`, `Allocation` and `ControlLoop` are whole units.
  Where the code divides, the model rounds the share down once, at the last
  pour, which is why a bound that holds to the watt in the code holds to the
  unit here.
- `Guard` has one tick after at most `MaxChanges` changes of the house, so that
  every verdict is about readings that may be as old as the tick.
- In `Modbus` a device's registers are the models it publishes; a value is the
  setpoint it has in force or a reading, which is `tainted` when it was asked
  for before its round, its socket or its request.
- In `Planner` the optimizer is whether it finds a plan; in `Prices` a price is
  its provenance: the source's trust, its resolution and which came later.
- The definitions marked *Mutant* are not part of any specification. They are
  plausible mistakes, each of which breaks a property of a run.

## 3. The runs

### That hold

| Run | Shows | Bounds, and why they are enough |
|---|---|---|
| `RegisterLane` | what is forwarded is the newest and there is no hole while the clock only runs on; every step is one of `AtLeastOnce`; what is owed is forwarded | 3 slots against batches of 2 (a batch that is full and one that is not), one correction of the clock (restates a register and empties a retention of 2), 2 lost calls (a stray and a lost answer together) |
| `EventLane` | oldest first; duplicates have a lost call behind them; refinement; what no refused event precedes is forwarded | 3 events, the second refused, batches of 2 (a round stops half way with one accepted), retention of 1 in 3 instants (rows pruned under a round), one correction, one lost call |
| `ReportLane` | what is given up on was read and refused, or came up in a round that had outlasted the tolerance; refinement; what is queued is reported, but for those | 3 days of 2 instants, the first refused, batches of 2, tolerance 1 and rounds as long as they like (a report refused unread), obsd's window 1 day, one correction, one lost call |
| `Evidence` | ceilings and effect are told as they were; the trace has no gap; records do not overlap | 5 instants, strides of 1 or 2 against a sampling interval of 2 (a sample on time and a late one), 2 ceilings (there and back), retention of 2, refused rows, cuts, one correction backwards |
| `Phases` | a mode is held for the dwell; it switches exactly when due | 7 instants, strides of 1 or 2, dwell 3, windows 1 and 2 (a confirmation shorter and longer than a tick, inside and outside the dwell), a level on each side of every threshold, a switchable and a fixed charge point, one restart, one correction |
| `Guard` | the operator's ceiling, the fuses, the feed-in cap and the conductors hold after every tick | a car on one conductor or three that can feed back, a battery, a roof, a heat pump and a hot-water tank that is on or off; units of 1.38 kW, so that the car's least current is 1 or 3 of them; a connection of 10, a circuit of 12 that carries the whole site (and is skipped) and one of 9 beneath it; the operator's ceilings on or off; one trouble (a silent device or meter, a full or empty store) at a time and one change between two ticks: with two the state space is beyond a run's time, and one suffices for each mutant |
| `ControlLoop` | the lag of what was told is bounded; the guard has the last word; the operator's failsafe survives; a ramp arrives | a charge point with least values 2 and 6 under a ramp of 3 and a deadband of 1 (a ramp that cannot start in one step, a creep of two steps inside the deadband), a battery through zero, a hot-water tank of 3 that is left all of it or not, 2 changes of what is asked, 2 writes of the failsafe, one fault (a refusal, a failed write or a restart) |
| `Modbus` | nothing stale is measured; what is confirmed is in force; an inverter is read again | either driver; an inverter on the second base with two models, a map of two points; a period and a timeout of 1, backoff up to 2, one held request and one queued command; time has no bound |
| `Manager` | nobody else's word is in force; statuses tell a story; what is accepted is answered; an override is told | one connection after another, 3 instructions of which 2 may wait, instructions that last 1 of 4 instants |
| `Planner` | what is followed is fresh; a priced quarter hour loses its register only to a round that begins in the next one before the close; the box plans again | quarter hours of 7 periods and a timer of 2 that does not divide them, so that it goes at every phase; rounds of up to 3, longer than the timer's period; a horizon of 2 slots, answers for none or all of it, plans good for 6 periods, one restart; time has no bound. A round so late that its whole horizon is over does not occur here, only in the theorem |
| `Prices` | the best price seen stands; no source is forgotten; nothing is unlearned; the box has a price again | 2 sources, the more trusted one at two resolutions; the running slot and the next; interval 2, rounds of up to 2, backoff capped at 5 after 2 doublings (capped before the count is), one restart; time has no bound |

`CHECK_DEADLOCK` is on everywhere. No run replaces a definition of a module.
The heat pumps that are told a contact rather than a power (`ByContact`) are in
`ControlLoop`'s definitions and proofs, and not in its instance.

### That finds a disagreement

| Run | What the source says | What happens |
|---|---|---|
| `Guard_silent` | to overstate the surplus is "the one direction a guard may never be wrong in" (`guard.rs:536`) | a controllable device that measures nothing is assumed at its nameplate, and that is subtracted from what the meter shows (`guard.rs:541`): the rest of the house comes out too small and the § 14a budget of the others too large |

`OperatorsLimitHolds` states what holds in its place. What it and the other
properties of `Guard` are conditional on is what the guard cannot see or does not
promise, each found by a counterexample of TLC's or a step that could not be
proved:

- `RestIsSeen`: the grid meter is fresh, or there is no load it alone would see.
- `OthersKeepUp`, `RoofsKeepUp`: nothing outside § 14a is told, in the very tick
  the budget is drawn up in, to draw more, or to produce less than was counted.
- `CommandedAreHeard`: the disagreement above. A silent roof is no part of it,
  since nothing is lent against it.
- `NoneIsLentTwice`: no store outside § 14a discharges (see below).
- in `FusesHold`, that the § 14a devices are heard, for the connection and not for
  the fuses: a nameplate assumed of them is again taken off what the meter shows.
  What a § 14a device draws that cannot be commanded is not counted there, and a
  circuit that carries the whole site (`CarriesTheSite`) is none of the circuits it
  speaks of, since the guard skips it (`guard.rs:656`);
- `FeedersAreHeard`: what feeds in without a control path is heard and is not
  under § 14a, as `uncontrollable_generation` counts no other.
- in `ConductorsHold`, that the other devices on one conductor are heard and stay
  as they are: each is bounded against what the others were measured to do.

### Observed without a run

Each of these was met while modelling and is visible in the module named; none
is asserted by a property.

Record legs and evidence:

- `RegisterLane`: a register restated while its batch is in flight loses the
  debt the restatement raised (`store.rs:1057` against `:666`);
  `NewestWhileSteady` is what holds. A retry is a new version in histd, since
  `recorded_at` is taken per request (`histd/src/api.rs:122` against
  `histd/src/store.rs:137`).
- `ReportLane`: the answer to a day's first document closes the row that holds
  the amended one (`store.rs:1019` against `:881`). A report is signed with the
  instant the round began (`outbox.rs:381` against `services.md:450`). One round
  posts up to 50 events, a batch of registers and 50 reports one after another,
  each for up to 30 s (`http.rs:116`), and obsd's tolerance is five minutes: what
  comes up later is refused unread and given up, under a comment that says "Read
  and refused" (`outbox.rs:188`). `GivenUpIsReadOrLate` says that this is the only
  other way to give one up.
- `EventLane`: histd inserts an event again when its answer was lost.
- `Evidence`: the effect is stamped on what was decided and not on what a driver
  took (`control.rs:582` against `evidence.rs:302`). A power cut loses the open
  record, and a refused row is not written again (`control.rs:404`, `:557`
  against `evidence.rs:10`). After a clock is set back no sample is due until
  the last one's instant has come round again.
- `Phases`: a restart forgets the mode and the dwell with it (`control.rs:393`
  against `phases.rs:51` and the test at `:706`).

Guard and delivery:

- `Guard`: the connection's headroom leaves out what a § 14a device draws that
  cannot be commanded (`guard.rs:641`), and a circuit that carries the whole site
  is skipped because it "adds nothing the connection has not already said"
  (`guard.rs:658`): such a draw is bounded by neither. Two single-phase devices that move in
  the same tick are each given the whole unbalance limit. The § 14a budget
  counts the production of controllable roofs that it may curtail. Feed-in is
  lent against draws that a store, a mode or a share stops in the same tick.
  The discharge of a store that can be commanded and is not under § 14a raises
  the § 14a budget twice: `flows` adds it to `generation` (`guard.rs:499`, under a
  comment at `:490` that it "is deliberately kept out of the surplus"), and
  `lend_generation` lends it (`:973`), and the budget is made of both (`:617`).
  With `Participating = {"car", "pump"}` in `Guard.cfg` and without
  `NoneIsLentTwice`, TLC finds the car above the operator's ceiling by the whole
  discharge.
- `ControlLoop`: changes inside the deadband add up unsent, as each is measured
  from the last value decided (`control.rs:1146`, `arbiter.rs:425`). A switch of
  conductors at an unmoved power is not sent. A ramp smaller than the charge
  point's least power never starts it, nor does one smaller than its rating start
  a hot-water tank (`RampArrives` is about the others), and one no larger than the deadband is
  never sent until the guard holds the value. A refused command is not retried
  inside the deadband, and a refused phase count may stand with a current that
  was taken. The failsafe is remembered before it is written
  (`control.rs:1031`). A heat pump behind a contact that is given back to its
  own thermostat is told to limit itself, since its rating binds at that value.

Drivers and managers:

- `Modbus`: a device with a declared map that leaves one request unanswered on
  an open socket is not asked again (`registers.rs:473` against
  `transport.rs:40`), since the driver is then `Stale` and polls only while it
  is usable; a frame the SunSpec driver cannot read while nothing else is due
  leaves it without a deadline. A refused header ends the walk. A command sent
  while another is being confirmed replaces it, and commands pile up while the
  link is down.
- `Manager`: an abort may be about the instruction before, as the loop tells of
  what it read a tick ago (`s2.rs:233`); a second connection for the asset may
  take the abort, and clears the map of the first when it ends (`s2.rs:264`);
  the acknowledgement of the message that breaks the protocol is never sent.

Planner and prices:

- `Planner`: a stale plan is counted as a plan (`control.rs:1399`). Bands and
  prices are published before the solve, so that a failed one leaves bands that
  are not the standing plan's, and a quarter hour is scored against the bands
  that stand when it ends (`control.rs:964` against `day.rs:50`). A register is
  lost when a round of the planner's begins in the new quarter hour before the
  loop has closed the old one, and is priced at the fallback where the day's prices end inside the horizon.
- `Prices`: a restarted tariffd answers 200 with nothing, and the box takes that
  for its curve. tariffd holds the cache's lock for all of a round
  (`tariffd/src/main.rs:164`), so that a box waits for the slowest source.
  A clock set back refuses corrections and puts off sources.

## 4. Fairness

Fairness is stated only for what the code schedules: tasks on timers, requests
with timeouts, and a line or device that does not fail every time.

- *Lanes*. The outbox is a timer that always fires again, so a round that can
  start starts (weak fairness; strong in `ReportLane`, where a crash disables it
  again and again). A request has a time limit, so a call that is out ends
  (`PostFails`, weak). A line that fails a call does not fail every call:
  whatever is tried again and again is taken, answered and marked in the end
  (strong). Somebody plugs the box in again (`Start`, weak). Nothing is assumed
  of the control loop, of strays or of the sweeps, and crashes are not excluded.
  Calls whose outcome is lost are bounded; calls that merely fail are not.
- *ControlLoop*. The tick is on a timer and in the end goes well
  (`GoodTick`, weak); faults are bounded.
- *Modbus*. The transport's and the loop's tasks run (weak), time passes whatever
  a task is busy with, and a device that can answer does so in the end (strong:
  the transport looks at the socket before its deadline). Faults are not
  excluded: the property says that the inverter is read as often as it fails.
- *Manager*. Tasks that can go on do (weak) and the reports' interval fires for
  ever (strong, as any message may come first). No message of the manager's is
  assumed.
- *Planner*. The planner's step, the loop's tick and time are fair (weak), as
  each request and each solve has a timeout. What is answered or solved is not:
  `PlannedAgain` assumes from some instant on that the fleet answers and that
  there is a plan to find.
- *Prices*. The poller and time are fair (weak); the box asks on a timer and
  finds the lock free between rounds (strong). No source answers by fairness:
  `PricedAgain` assumes one that does from some instant on.

`UnobstructedIsForwarded` promises nothing of an event that waits behind a
refused one: the code stops the round there, each time.

## 5. What is proved

Each theorem is of the specification, for every value of the constants that
satisfies their assumptions.

| Module | Theorems | Along |
|---|---|---|
| `RegisterLaneProofs` | `TypeCorrect`, `TablesAlwaysAgree`, `ForwardedAlwaysHeld`, `NewestAlwaysCurrent`, `NeverAHole`, `LaneIsAtLeastOnce` | `ReachInv`, `SteadyInv`, `UntilSet` |
| `EventLaneProofs` | `TypeCorrect`, `TablesAlwaysAgree`, `ForwardedAlwaysHeld`, `DuplicatesAlwaysHaveACause`, `OldestAlwaysFirst`, `LaneIsAtLeastOnce` | `ReachInv`, `CountInv`, `OrderInv` |
| `ReportLaneProofs` | `TypeCorrect`, `TablesAlwaysAgree`, `SentAlwaysHeld`, `GivenUpAlwaysReadOrLate`, `LaneIsAtLeastOnce` | `TypeInv`, `ReachInv`, `GiveUpInv` |
| `GridProofs`, of `Evidence` | `TypeCorrect`, `TracesAreGapless`, `RecordsStayApart`, `RecordsAreTrue` | `IInv` with `Past` and `Tracing`, `RecordInv` |
| `GridProofs`, of `Allocation` | `AllocateFits`, `AllocateIsFair`, `AllocateIsMonotone`, `AllocateIndivisibleFits` | what is poured, how high (`Fair`, `Reached`), what is shed |
| `GridProofs`, of `Guard` | `HouseStays`, `GuardTypeCorrect`, `TheOperatorsLimitHolds`, `FusesAlwaysHold`, `TheFeedInHolds`, `ConductorsAlwaysHold` | `HouseInv`, and `Bounded` from `VerdictFits` to `TickBounds` |
| `RealtimeProofs`, of `Phases` | `TypeCorrect`, `ModesAreHeld`, `PendingOrAlwaysBest`, `SwitchedExactlyWhenDue` | `DwellInv`, `BestInv`, `WindowInv` |
| `RealtimeProofs`, of `ControlLoop` | `LoopTypeCorrect`, `LagsAreBounded`, `GuardsLastWord`, `OperatorsWordIsKept` | `LoopInv` with `Lagging` and `WordKept` |
| `PlannerProofs`, of `Planner` | `TypeCorrect`, `FollowedAreFresh`, `LostOnlyToRounds` | `IInv` with `Turns`, `ReadWithin` and `OfferStands` |
| `PlannerProofs`, of `Prices` | `PricesTypeCorrect`, `TheBestIsKept`, `NothingsUnlearned`, `AskedInItsTurn` | `PricesInv` with `Told`, `TurnInv` |
| `ModbusProofs` | `SaidInOneGo`, `ConfirmedWhatIsInForce` | `SocketInv`, that is `World`, `Sound` (`Untainted`, `Asked`) and the type of the registry's entry |
| `ManagerProofs` | `TypeCorrect`, `TheWordIsTheDrivers`, `StatusesAreAStory` | `ManagerInv`, that is `TypeOK`, `Kept`, `InForce`, `Abortable` and `Tells` |

The three `LaneIsAtLeastOnce` are the refinements: initial states map to initial
states, and each step of a lane to a step of the leg or a stutter.

Why the strengthenings are needed:

- *Forwarded is held* is not inductive: the mark is taken on the strength of
  what the batch in flight has reached. `HandledIsHeld` (registers) and
  `RoundIsHonest` (events, reports) carry that fact through the round.
- *Newest is current* and *no hole* hold while the clock only runs on, and need
  that nothing in flight, stray or stored differs from the box's row
  (`Faithful`, `FaithfulHistory`), that a closed slot is not written again
  (`PastIsClosed`) and that a batch is the oldest of what is owed. `UntilSet`
  says: these hold, or the clock has been set.
- *Duplicates have a cause* counts. `Budget` adds to the rows of an event the
  stray and the post that can still become one, and charges each to a lost call;
  `Unheard` and `RoundShape` say when a post is outstanding.
- *Oldest first* compares identifiers, while the index is by the instant of
  receipt: `InOrder` says that the two orders agree until the clock is set. What
  is owed is then younger than everything that is not, and than what the round
  has had accepted or has still to post (`YoungestOwed`).
- *Given up is read or late* and the refinement of the report lane need that a
  refusal the box has yet to act on has its cause (`RefusalHasCause`): the report
  is one obsd will not have, or one whose signature it could not take for fresh.
  A round only gets older and the day it began at does not change, so that what
  was too late when obsd saw it still is when the box marks it; `RoundHasBegun`
  keeps its age a number above nothing. Nothing is assumed of how long a round
  lasts or how far the clocks are apart.
- *Traces are gapless* needs, of the open record, that its last sample is the
  recorder's and is younger than the sampling interval (`Tracing`); *records
  stay apart* that nothing stored ends after the clock (`Past`). *Records are
  true* needs only that a record is open exactly when ticks stand behind it;
  the work is in the lemmas on what one more tick adds to the ceilings the
  history holds (`ChangesUpTo`).
- *An allocation fits its budget* is about sums over a set of devices, and the
  library's induction theorems cannot be used. The proofs do without: a set of
  naturals, or of subsets, that has every member whose predecessors it has is the
  whole set (`EveryNatural`, `EverySubset`, from the library's theorem that every
  set of naturals has a least element), and a recursive function on subsets exists
  because for each size there is one that is right up to it (`Descent`). With these
  the fold of the community modules is shown to add up (`Folded`, `TotalRemove`),
  and the rest is arithmetic of sums (`TotalSplit`, `TotalScaled`, ...). The water
  filling keeps what is left at nothing or more while it fills the tightest claims
  (`SatisfiedLeaves`), so that the last pour, rounded down, fits (`PourFits`).
- *An allocation is fair* is what `allocate.rs` calls the rule (`:9`) and its tests
  sample. `Fair` is the reference definition, of the grants alone: floors and wants
  are kept, whoever is short is filled above its floor, per weight, as high as
  anybody up to the unit that rounding costs, and less than a unit per claim is
  left over. The water filling never compares two claims that are full; that it is
  fair all the same needs `Reached`: the level, what is left per weight, only rises
  (`LevelRises`), so that whoever was filled early is below it at the end.
  *Monotone* (`allocate.rs:588` tests it for one set of claims) compares two
  budgets: the last levels are ordered as the budgets are (`LevelFollows`, by
  counting what either pour gives away before rounding), and so are their quotients.
  With `allocate_indivisible` a larger budget may well take away: it brings back a
  device that had been shed.
- *Every device may rest* is what makes the stages of the verdict compose.
  `MayRest` says that a device's bounds are within its ratings and include zero,
  and `Rested` that all are so; every stage keeps that, only tightens
  (`Tightens`), and after the feed-in cap leaves the floors alone (`SameFloors`).
  The budget a stage has kept is therefore still kept after the last one, though
  the stages share different budgets over overlapping sets of devices: `Bounded`
  collects them, `VerdictFits` has it of the verdict, `ApplyModesFit` and
  `TickBounds` of the bounds that are sent.
- `HouseInv` adds to the types that a roof never draws, that what cannot be
  commanded draws no more than its nameplate, that a charge point never
  feeds in (no command lets it, whatever its ratings), and that no bound excludes zero. The
  types would be kept without; the properties need the rest, since what the guard
  assumes of a silent device covers it only because of the nameplate, and a roof
  it hears nothing of is no load only because it never draws.
- From the bounds to the house: what a device may draw after a tick is its ceiling
  or what it drew anyway (`AfterTick`, `TickSums`), and what the guard takes the
  rest of the house for is no less than it is (`OtherCovers`, `OtherIsTrue`) and
  what it takes it to consume no more (`MeteredIs`). The operator's ceiling also
  needs that what a store lends it then feeds in (`LentIsFed`), which `PinnedRests`,
  the floors that no later stage raises and what a device obeys (`TickObeys`)
  give.
- *Modes are held* relates what the policy carries to what was really decided
  (`Remembers`), and needs that no stamp lies ahead of the clock
  (`NothingIsAhead`). *Switched exactly when due* is about the history of ticks,
  of which the policy keeps two instants: `WindowInv` says that these two recall
  it (`Recalls`). `Due` counts the tick a mode was entered at into the window,
  since the first tick of a process can do both.
- *Lags are bounded* concerns devices that took their last message: `Lagging`
  says that each of those has been told something once anything was decided, and
  then how far it lags. *The operator's word* needs that what is remembered is
  in the record or among the writes the store failed to take (`WordKept`).
- *Followed are fresh* needs that a plan's readings are no older than the plan
  (`ReadWithin`), from the instant they are read in a round. *Lost only to
  a round* needs that a round which did not begin in the new quarter hour is at
  least a period old while the old one is open (`Turns`), so that the prices it
  publishes begin before the end, and that prices once offered for the slot still
  cover it while the slot is open (`OfferStands`). Neither depends on how long a
  round lasts, nor on how the timer and the quarter hour divide.
- *The best is kept* needs that what stands was told (`Told`) and that no price
  is overtaken; *nothing is unlearned* that a merge and a prune leave every
  slot from the running one on (from `Ahead * PriceLen + AskingMost <= Retention`).
  *Asked in its turn* has two bounds (`TurnInv`): between rounds no deadline is
  further behind than the sleep that is left allows, and within one a source
  that was asked is set ahead while the others may fall behind by the round's
  age. It rests on two facts about numbers that are proved from the library: a
  power of two is positive, since it counts the subsets of a set, and the
  deadlines have a least one.
- *Said in one go* needs that no answer is taken for another's: a request that
  bears the outstanding identifier is the outstanding one, and no older than the
  measurement its answer goes into (`Own`), because an identifier is given to
  nobody twice while somebody holds it (`TransactionIsFresh`). What is in the
  making is then of this socket and of nothing old (`Untainted`). *Confirmed is in
  force* follows from the same, one step at a time.
- *The word is the driver's* needs that whoever's word is in force drives, or
  has the clearing of the map ahead of it (`Drives`, `InForce`), and that what
  waits or is about to enter the map is of its own connection (`Kept`). *Statuses
  are a story* needs how far each instruction has come where it is held: what
  waits was agreed, what is about to enter the map has begun, each of them once
  (`Kept`), and what may still be aborted has begun and does not begin again
  (`Abortable`). That the queue is in the order of its instants makes what is
  due a prefix of it (`UntilIs`).

Assumptions: the types of the constants (in `Guard`, also that there are finitely
many devices, that the order of their identifiers is total and that a weight is
above zero; `None` is no number), that the markers for "nothing" are not
values, and an order between constants where the code's bounds or its shipped
configuration give one: the retention above in `Prices`; a guard that leaves a
charge point or a tank no less than nothing in `ControlLoop`; periods, timeouts
and backoffs above zero in `Modbus` and `Prices`, and a horizon of more than one
quarter hour in `Planner`, as the code's are. TLC evaluates all of them in every
run.

## 6. What is only model-checked, and what is not modelled

Model-checked only:

- liveness under fairness, which the provers do not reach: `EventuallyForwarded`,
  `UnobstructedIsForwarded`, `EventuallyReported`, `AcceptedIsAnswered`,
  `OverrideIsTold`, `SunSpecReadsAgain`, `RampArrives`, `PlannedAgain`,
  `PricedAgain`.

Every invariant and every action property of a run is a theorem, with
`SilenceIsSafe`, which the code violates, for exception. That `allocate` is fair and
monotone is proved of the operator and part of no run. Not shown of `Guard` is what
no run checks either: that its stages together hold nothing back that the house
would have allowed.

Not modelled, with the reason:

- the optimizer and the forecasts: real arithmetic and statistics. They, the
  configuration, the scenarios, the simulation and the tests are the greater part
  of the repository's lines, which is why the mapped share of it is small;
- statutory calendars, settlement tables, price formats, encodings and message
  authentication: what they compute is a table or a parse, with no state;
- EEBUS sessions, whose protocol lives in a crate that is not in the repository;
  SHIP pairing and the trust list, which are a person's decisions written down
  one at a time;
- household overrides, the local API and its access list: a map under one lock;
- the aggregates of histd and obsd: reads; agentd: no state the house depends on;
- forecastd: tariffd's schedule over one source, without a merge;
- fleetd: a registry of one row per box, each written in one transaction before
  it is answered.

## 7. Plan

1. What the guard's stages may hold back together, each being fair on its own; of
   `Modbus`, the types of the whole state.
2. `Planner` with the bands a quarter hour is scored against; `ControlLoop` with
   a heat pump behind a contact beside the charge point.
3. fleetd's enrolment against a lost answer.
