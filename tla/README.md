# A verification of the Tinkle irrigation controller

Tinkle waters the zones of a farm's high tunnels.  An ESP32 runs one
cooperative loop and an asynchronous web server, an ATtiny85 holds a safety
relay in the pump's supply, and a phone is the only user interface.  The
guiding rule is "fail dry".  This directory holds TLA+ models of the code, the
TLC configurations that check them and the proofs TLAPS checks.  Paths below
are relative to `src/` of the firmware unless they say otherwise.

## 1. The system

| part | code | state it keeps | operations |
|---|---|---|---|
| valve driver | core/valve_driver | output levels, one travel timer per zone and one for the legs | openZone, closeZone, setDiverter, pumpOn/Off, safeState, tick |
| run controller | core/run_controller | the run state machine, the queue, the latched fault, the pre-open gate, the OTA inhibit, the history | requestRun, stop, raiseFault, abortRun, clearFault, setters, tick |
| watchdog, ESP32 half | core/watchdog | heartbeat line, qualification of the trip line | begin, tick |
| watchdog, ATtiny | core/watchdog_trip.h, attiny/main.cpp | Disarmed / Armed / Lockout, the last edge, the armed time | begin, tick |
| fault manager | core/fault_manager | the fault log ring, the conditions, the last fault seen | tick, note, setConditionActive, requestClear, serialize |
| run history | core/run_log | a ring of 32 rows | push, head, at, serialize, deserialize |
| flow monitor, flow faults, drain gate, valve rest | core/flow_monitor, flow_fault_detector, drain_gate.h, valve_rest_monitor | rates, grace and idle windows, flags | update / tick, setMuted |
| calibration | core/calibration_controller | its phase, pulse baseline and tally | start, tick, finish, cancel |
| scheduler and clock | core/scheduler, core/clock | the entries, the last minute evaluated, the auto-fert slot, the cycles fired today; the anchor of the wall clock | tick, evalNow, add, clear, setDistributed; tick |
| missed cycles | core/dist_summary | none | computeDistSummary, nextMissedCycle |
| main loop | esp32/main.cpp | the statics of one pass (edges, debounces, feed key) | setup, loop |
| HTTP layer | esp32/web_server.h, core/api | the mutex, the upload's owner, refusal and restart deadline | one handler per endpoint; otaChunk, otaFinish, onDisconnect |
| persistence | core/persistence, esp32/preferences_store.h | NVS keys | load and save per key |
| Wi-Fi manager and link monitor | esp32/wifi_manager.h, core/wifi_link_monitor.h | the mode, the deadline of the join, the baselines of an outage | begin, tick, update |
| nightly reboot | core/nightly_reboot.h | the day of the last one | due |
| telemetry | esp32/poopdeck_publisher | the queue, what was replayed | enqueue, the task |

**How they interact.**  `loop()` reads `millis()` once, takes the web server's
mutex, calls every module in a fixed order and releases the mutex.  An HTTP
handler takes the same mutex, reads its own `millis()` and calls into the same
modules, so a pass and a handler are atomic against each other, in any order.
The run controller is the only commander of the valve driver; everyone else
asks it (`requestRun`, `stop`, `raiseFault`, `abortRun`).  The ATtiny shares
two wires with the ESP32: the heartbeat, which beats only while the pump is
commanded, and the trip line.

**What is hard.**  Handlers between any two passes and, because the pass reads
its clock before it takes the mutex, handlers with a later time than the pass;
faults, aborts, stops and restarts at every state of a run; valves that still
move when the software has forgotten them; two processors with their own
clocks, stalls and restarts; ceilings and windows measured across several
runs; uploads that break off, contend or come back under an old request's
pointer while only a part of their handlers holds the mutex; a network that
goes, comes back, or is not there yet when the power returns.  `PROJECT.json` lists the hazards line by line, with the properties that
would catch each one going wrong.

**What makes each part correct.**

| part | correct when |
|---|---|
| valve driver | a relay is released only after the travel it was energised for; the pump's line has no other writer than `pumpOn`, `pumpOff` and `safeState` |
| run controller | the pump turns only behind a path that has settled, physically; at rest everything is off; an accepted request ends in one history row; no run starts in an upload; the dwell after a run is the one its pump run earned; a latched fault admits nothing |
| both halves of the watchdog | a stalled ESP32 loses the pump; only a real lockout aborts a run; every run gets its own full ceiling; the pump comes back without a person |
| scheduler, clock | a cycle of the distributed plan runs once a day and, if the box was awake for its minute and the controller had room, runs; the day's fertilizer goes to the first run; no pass goes back in time |
| missed cycles | a cycle without a run is reported once, and never one that ran |
| logs, flash, telemetry | the newest rows survive wraps and resets; a latch has an entry; the broker sees rows in order, once |
| flow detectors, drain gate, valve rest | a dry run and a flood are found within their windows; the tail of a run that ended is nobody's fault; a flag names the zone that leaks |
| calibration | it never stops or faults a run it did not start; the tally is its own run's water, all of it and no other |
| HTTP layer | one upload owns the slot; the inhibit is held for exactly as long as an upload needs it |
| Wi-Fi | retries keep the pace of the header, indefinitely; the name is announced after an outage and after no blip; the box can always be found again |
| nightly reboot | once a night, only at rest, nothing lost |
| wall clock | a box that had the time has it again (it does not: section 4) |

## 2. The modules and the plan

| module | models | built on |
|---|---|---|
| `ValveDriver` | the driver and, beside it, the travel of the valves themselves | |
| `RunController` | the controller with every handler, detector call and restart | `ValveDriver` |
| `RunJobs` | the abstract promise of the controller: a job waits, runs, is logged | implemented by `RunController` |
| `Watchdog` | heartbeat emission and trip qualification, operators on a record | |
| `WatchdogTrip` | the ATtiny's trip logic, operators on a record | |
| `PumpBackstop` | controller, both halves and the two wires, each with its own clock of passes and polls | all of the above |
| `WateringPlan` | the plan arithmetic: when cycle *k* starts, which slots are active | |
| `Scheduler` | clock, scheduler, the two handlers that edit, restarts | `WateringPlan` |
| `MissedCycles` | scheduler, queue, history and power losses of one day, and the scan | `WateringPlan` |
| `RunLog` | the ring under both logs, operators on a record | |
| `Records` | a pass in its sections: history, fault log, flash, feed, publisher, clears, resets | `RunLog`, twice |
| `DrainGate` | the drain gate, operators on a record | |
| `FlowWatch` | the rate window, the flow-fault detector, the valve monitor | `DrainGate`, twice |
| `Calibration` | the bucket test: phases, baseline and tally on a counter that wraps | |
| `OtaUpload` | the upload: each request's connection, the shared state, the handler past its gate | |
| `Tenants` | who may have the box: runs, calibration, upload, the two restarts the program asks for | `Calibration`, `OtaUpload` |
| `WifiLink` | the join at boot, the access point, the monitor of the joined link, the radio | |
| `Connectivity` | stored credentials, network, wall clock and nights, through boots | `WifiLink` |
| `PumpBackstop_proofs`, `Scheduler_proofs`, `MissedCycles_proofs`, `RunLog_proofs`, `Records_proofs`, `FlowWatch_proofs`, `Tenants_proofs`, `Connectivity_proofs` | theorems | the modules they name; `PumpBackstop_proofs` is about `RunController` too, `Scheduler_proofs` about `WateringPlan` |
| `MC...` | values of the constants for TLC | |

The order was that of the harm a mistake does: first what can drive the pump
against a closed valve (`ValveDriver`, `RunController`, then the hardware
backstop around it), then what decides that water runs at all (`Scheduler`),
then what tells the operator that it did not (`MissedCycles`, `Records`,
`FlowWatch`), then who else lays claim to the box (`Tenants`) and what it needs
of the network (`Connectivity`).  **Still planned**, in this order:

1. A stall of the loop that resumes instead of ending in a restart
   (`watchdog_trip.h:65`), and the boot that judges the tail of a lost run
   (`flow_fault_detector.h:90`).
2. `LoopPass`: one pass of `loop()` as the composition of the controller, the
   detectors and the records, in place of the local abstractions `Records`,
   `FlowWatch` and `Tenants` make of the controller.

## 3. How the models read the code

**Time.**  `now` is a small integer that only grows in a step of its own
(`Elapse`); a pass of `loop()` takes no time and is one action, except in
`Records`, where a reset may come between its sections, and `PumpBackstop`,
where the watchdog call is a step of its own.  Timers are kept as the time left
or the time elapsed up to the threshold the code compares with, which is all
the code can tell.  Every comparison keeps its `>=` or `>`.  `millis()` wraps
after 49 days; the unsigned differences of the code are right across the wrap
as long as the intervals are short, so the wrap itself is left out, with two
exceptions.  A difference that is *negative* becomes huge: that is `ahead` in
`RunController`, how much later than the pass's `now` a handler's stamp is,
because the pass reads its clock before it takes the mutex.  And an outage of
the network has no bound: `WifiLink` keeps absolute readings modulo `Wrap`, as
the code does, and so does `Calibration` with the counter of pulses.

**Valves.**  `ValveDriver` has what the software believes (levels and timers,
cleared by a restart) and what the water sees (positions that go on moving).
The safety properties are about the second.

**Runs.**  A `RunRequest` is a zone, whether it is fertilized and how long; the
history row is the zone and the outcome.  Names of states, faults and
operations are the code's.

**What each variable is** stands beside its declaration, with the member it
models; variables no code keeps (physical positions, what was earned, what was
pushed) are declared apart and named as such.  The `map` of `PROJECT.json`
gives the lines of every definition.

**Operators whose name has an underscore and a second word** (`push_NoLap`)
are variants of the definition that follows, each a plausible mistake in that
code.  No specification uses them; they show that the properties would notice.

**Abstractions that matter.**

- `PumpBackstop`: the ATtiny polls at least once after each watchdog call and
  in each unit of time; a stall of the loop ends in a restart.  Noise on the
  trip line is a sequence of transients, each shorter than `tripConfirmMs` (what
  that time is for).  Any number of passes may read one, it may lie over a
  lockout, and the next may begin as soon as one pass has read the line
  released; two that follow each other with no such read between are one to the
  program, and then it is their common length that must be short.  A pass takes
  no time between its stamp and its read of the line.  For the per-run ceiling `TimingAssumption` has the travel no
  shorter than the heartbeat's timeout (10 s and 2 s in the code) and the beats
  of a live loop closer than it: otherwise the gap between two runs does not
  disarm the ATtiny.
- `RunController` keeps the logged dwell in whole seconds and caps it where the
  code's field ends.  `DurationsFit` says that the longest run that may be
  asked for fits the field, as it does (16 bits of seconds, and a ceiling of
  30 minutes); only what is said of logged dwells needs it.
- `Scheduler` runs in minutes of local time, at least one pass each; the
  controller takes the first `room` requests of a pass.  An edit after midnight
  has been crossed backwards leaves the ghost `fired` with an older day's
  cycles, which only weakens `EveryCycleFires`.
- `MissedCycles` is one day and leaves out a last cycle that ends at 24:00, as
  the code does (`dist_summary` looks at today's slots).  `SlotsAreApart`, that
  the slots of its plan do not overlap, is what `PlanIsBookended` proves of
  every plan the code accepts; TLC evaluates it for the plan of the run.
- `Records` numbers the rows, keeps of their fields only whether the start time
  is valid, and reduces the controller to Idle, Active, Settle and Fault.  The
  empty row of an array that was never written is none of the rows.
- `Tenants` keeps of the controller whether it is at rest, at work, in the
  dwell or faulted, how many runs wait and whose the run is.  A pass is four
  steps, because the calibration is told of the state read before the
  detectors; handlers under the mutex come between passes, the unlocked parts
  of the upload's handlers anywhere.  A form carries one file.  K is in range
  or not; a tally of zero is not.
- A calibration that has *strayed* is exempt from what is said of its tally
  and of others' runs: the flow detector may latch a fault after the pass has
  read the state (`main.cpp:435`), and a handler may clear it before the next
  pass, so that the calibration never learns that its run is over.  It then
  counts the next run's water, and a number entered for it stops that run.
  `strayed` marks exactly this path and nothing else.
- `Connectivity` has two clocks: milliseconds for the link, coarse units for
  the night.  A coarse unit does not pass within a join.  The radio goes on
  with the credentials it was given at boot (`granted`); stored ones are joined
  at the next boot, and a power cut between the two writes mixes them.
- `FlowWatch` samples once per unit, leaves the durations of a run open, and
  lets handlers clear a fault at any time (the gate in front of a clear is in
  `Records`); stale fields nobody reads are normalised so that states that
  behave alike are one state.  Of the counter of pulses it keeps differences,
  which is all the code compares: how far the newest sample is ahead of the
  others, and what an idle or rest window has counted.  `FlowAssumption` orders
  the times as the seeds of the three `Config`s do: the samples of the rate fill
  within the grace, the idle window is no longer than the drain's cap and the
  quiet time no longer than the rest window.  The last two hold for the
  simulation (`TINKLE_SIM`) as well, the first does not: its grace of 3 s is
  shorter than the 7 s the samples span, so what is said of a dry run, and that
  no sample of an earlier run counts (`NoFlowIsEarned`), is said of the shipped
  seeds alone.

## 4. What the runs check

| run | system | properties |
|---|---|---|
| `controller` | `RunController`, two zones | `PumpBehindSettledValves` (no pressure on a moving path, physically), `RestIsDry`, `NothingRunsDuringOta`, `EveryRunIsLogged`, `DwellMatchesPump`, the refinement `ServesJobs` of `RunJobs`; with fairness `WaterStops` (no run lasts for ever) and `HeadIsServed` (the head of the queue starts or is dropped by someone) |
| `backstop` | `PumpBackstop`, one zone | `EachRunGetsItsCeiling`, `StalledLoopLosesPump`, `ConfirmedTripIsLockout`, `LockoutReleases` |
| `scheduler` | `Scheduler`, two days of four minutes | `CycleFiresOnce`, `EveryCycleFires`, `FirstAutoRunFertigates`, `PlanFits` |
| `missed_cycles` | `MissedCycles`, a day of five minutes | `SlotMarkedOnce`, `MarkedSlotIsDry`, `MissesAreReported` |
| `records` | `Records` | `RingsKeepNewest`, `FlashIsCurrent`, `LatchIsLogged`, `FedInOrder`, `ClearIsSafe`, `NightlyKeepsRecords` |
| `flow_watch` | `FlowWatch`, symmetric zones | `DryRunIsCaught`, `FloodIsCaught`, `LeakIsFlagged`, `NoFlowIsEarned`, `TailIsSpared`, `FlagIsTheZonesOwn`, `HealIsEarned` |
| `tenants` | `Tenants`, two uploads | `TallyIsItsOwn`, `InhibitIsExact` (neither leaked nor lifted under another's image), `CalibrationSparesOthers`, `RestartsFindNothing` |
| `connectivity` | `Connectivity` | `RetriesKeepPace`, `AnnounceMatchesOutage`, `OncePerNight`; with fairness `NeverStranded` (once the network is back for good, and the power, the box is found on it or on its own access point) |

Each property is stated in words above its definition.  For each of them the
project keeps a mutated operator of the code under which the same run finds it
violated.  The type invariants (`TypeOK` and the like) say what each variable
may hold; they are proved for every component, and no
run spends a property on them.

**Bounds, and why they are enough.**  Every bound is a constant of the `.cfg`
and is named where the guard uses it.

| run | bounds | the code has | the cases they reach |
|---|---|---|---|
| `controller` | zone travel 2, diverter travel 1, settle 1, `WdWait` 2, queue 2, ring 1, `RunCap` 9, `MaxDwell` 9, `MaxLag` 1, two requests that are accepted (one fertigates) | 10 s, 10 s, 1 s, 60 s, 4, 32, the software maximum | every state with each handler in its first, middle and last unit; a full queue; a run that logs twice; a valve re-opened while it closes; a pass that is late by one |
| `backstop` | travel 2 and 1, `HbTimeout` 2, `TripConfirm` 2, `HardMax` 3, `RunCap` 3, one request as long as is allowed, no dwell | 10 s, 2 s, 100 ms, 30 min | a run that ends before, at and after the ceiling; two runs in sequence, after an abort and without; a lockout that is confirmed in mid-run and one that releases in the next run; a transient read by passes of two units, over a lockout, and one right after another |
| `scheduler` | two days of four minutes up to `LastMinute` 5, corrections of -1 and +2 | 1440 minutes a day | midnight crossed once forwards and, by a correction, backwards; two entries in one minute; a minute skipped and a minute repeated; the first auto run of a second day |
| `missed_cycles` | two cycles of two zones fired in the order `<<1, 0>>`, queue 2, ring 5, one manual row | 6 cycles, 4, 32 | a run late into the next cycle's slot; runs queued behind a manual one; a cycle missed whole and in part; power lost at any point |
| `records` | rings of 2 and 1, queue 2, 3 rows, 2 entries | 32, 16, 40 | both rings wrapped; the queue overflowed by a replay |
| `flow_watch` | grace 2, window 3 samples, drain cap 4, idle and rest windows 2, up to 2 pulses a unit | 20 s, 8 samples, 60 s, 5 s and 10 s | every window ended by its last unit, by one less, and cut by a run |
| `tenants` | `Wrap` 3, queue 1, two uploads | 2^32, 4, any number | the counter's turn within a test; a run chained behind the calibration's; every step of one upload against every step of another, of a handler and of a pass; a pointer that comes back |
| `connectivity` | `GraceMs` 2, retry interval 3, join 2, `Wrap` 8, `MaxLag` 1; a day of 3 units with a window of 1, uptime 2; posts of the farm's network or of none | 8 s, 15 s, 20 s, 2^32; 24 h, 60 min, 2 h | several retries in an outage and the counter's turn in every place of it; a network that comes too late for the join; credentials half written; a night with other resets before and after the reboot |

The comparisons of the code involve at most two timers at a time; the values
are the smallest in which each pair can expire in either order.  Zones are
interchangeable to the controller and the monitor, so two zones show every
case of "this one and another".

**Fairness.**  `RunController` assumes weak fairness of `Elapse` (clocks run)
and of `Tick` (`loop()` is called for ever: Arduino's main does nothing else,
and a `loop()` that hangs is the business of `PumpBackstop`).  No handler, no
fault and no restart is fair, and neither is a trip line that releases.
`PumpBackstop` assumes that both processors go on executing: weak fairness of
the steps of a pass and of the ATtiny's poll, and strong fairness of time,
because calls that take no time could otherwise follow each other for ever
within one unit.  `Connectivity` assumes weak fairness of the pass, of the two
clocks, and strong fairness of `Associates` and `Sntp`: an attempt to join may
come to nothing any number of times, but of attempts made for ever one finds a
network that is there, and a link that keeps coming is answered by a time
server.  Those are assumptions about the radio and the network; that attempts
*are* made for ever is what the code is checked for.  Nobody's reset is fair or
unfair.  The other modules state safety only and assume nothing.  In
`Tenants` this is a choice: nothing in the sources bounds how long a stalled
upload's connection stays open, so that the inhibit is lifted *eventually* is
not claimed.

**Findings.**  Four runs show a statement of the repository that the code does
not keep; `PROJECT.json` quotes each.

| run | the statement | the code |
|---|---|---|
| `one_row` | "each run pushes a RunEntry at SETTLE (and on a fault)" | a stop in the dwell enters SETTLE again and logs the run a second time, as Stopped (`run_controller.cpp:108`) |
| `entry_once` | "idempotent per (entry, minute)" | an edit re-evaluates the current minute, as `docs/DECISIONS.md` means it to, but entries keep no record of having been asked for: one the controller has taken in this minute is asked for again (`scheduler.cpp:36`) |
| `latched_misses` | one missed row per cycle and zone a latch suppressed | the scan runs at rest and for the current day, so a latch that lasts over midnight hides them (`main.cpp:354`) |
| `autonomy` | "LOCAL AUTONOMY: nothing here gates watering" (`wifi_manager.h:18`) | the power comes back before the farm's network does: the join gives up after `STA_TIMEOUT_MS` and the box stays an access point until a person restarts it (`wifi_manager.h:61`); without a network the clock is never valid, the scheduler evaluates nothing (`scheduler.cpp:19`), and the nightly reboot, which would join again, is never due (`nightly_reboot.h:42`) |

Observed and without a run of their own: a request that overtakes the pass in
the mutex has a later stamp, so that in `WdWait` the difference wraps and the
run is skipped at once rather than "only past wdWaitMs"
(`run_controller.cpp:231`); the API accepts a software maximum equal to the
ATtiny's ceiling (`api.h:59`), which starts to count earlier, where
`docs/tinkle_firmware_spec.md` wants it "shorter"; the day of the last nightly reboot is kept in RAM and
lost in the very restart it is kept for, so that once a night rests on the
minimum uptime (2 h) being longer than the window (60 min); the turn of the
millisecond counter in a long outage costs at most one more grace, and the
lateness of one more pass, in the interval it falls in and in no other (with
less of an allowance in `RetriesKeepPace` TLC refutes it; the lateness shows only where a pass may be late by two, `MaxLag`
2); two runs that follow each other share one armed window of the ATtiny if the
travel is shorter than the heartbeat's timeout: the fence of `main.cpp:69`
counts the travel twice, but after a fault and a clear, or a restart, only the
opening of the next run keeps the line quiet (TLC shows it for a travel of 1
and a timeout of 2, the simulation's times; the shipped 10 s are long enough);
a form with a
second file part meets its own inhibit at the gate, is refused and forgets the
image it had begun, and nothing lifts the inhibit then (`web_server.h:202`; the
box's own page sends one part); a second upload in the 750 ms before the
restart is refused with 409; the fault that lets a calibration stray
(section 3); a fault that is latched and cleared
by handlers between two passes is never logged; a history head that a marker
covers within one pass, or that the first pass after boot takes as its seed,
reaches the broker only by a later replay, although `main.cpp:395` says every
new head is caught; the restart after an upload flushes nothing; after a crash
in a run, boot's idle window judges the tail of that run without a gate
(`flow_fault_detector.h:90`); a run whose valve never opened counts as closed
like any other, so its zone is watched and charged with what drains from the
zone before (`main.cpp:484`); a last cycle that ends at 24:00 is never judged
missed, because the minute of the day never reaches 1440
(`dist_summary.cpp:24`); a run that ends before RUNNING has no start time, so
its slot is reported missed beside the row of its fault (`dist_summary.cpp:30`).

## 5. What is proved

TLAPS checks these for every value of the constants that satisfies the named
assumptions.

**`PumpBackstop_proofs`, the controller.**  `RunInvariant`: `RunInv` is an
invariant, where `RunInv` is the type invariant with `PathInv`.  No safety
property is inductive alone: that the valves have ended their travel when the
relay closes follows from what the driver's timer says about them while the
zone opens.  `OpeningCovers`, a part of `PathInv`, states it: in `OPEN_ZONE` no
valve and no leg has longer to travel than the timer of the run's zone has to
run.  The other parts say where in a run the relay, the FETs and the legs
stand.  From it: `TypeCorrect`, `PumpNeverLoadsAMovingPath`, `RestIsAlwaysDry`,
`NothingEverRunsDuringOta`, `NoRunGoesUnlogged`.  The driver's constants are
assumed with the legs no slower than a zone valve, because after a handler's
early stamp the code waits for the zone alone (both are 10 s).
`ControllerServesJobs` is the refinement: the initial state maps to one of
`RunJobs`, and each action to a job's step or a stutter.  `LoggedDwellIsTrue`:
under `DurationsFit`, every row of a run tells how long its pump ran, to the
second and the lag of a pass.  Its invariant `DwellInv` has the ghost `wet` beside the elapsed time
of `RUNNING` while the pump is on, and beside the frozen dwell afterwards.

**`PumpBackstop_proofs`, the composition.**  `BackstopKeepsRunInv` carries
`RunInv` over: each of its steps is a step of the controller or leaves the
controller alone, so `BackstopLoadsNoMovingPath` needs no new argument.
`BackstopTypes` adds the two halves and the wires between them (`WireTypeOK`).
`StalledLoopAlwaysLosesPump` rests on `StallInv`, which bounds how old the last
edge can be while the ATtiny still supplies the pump.  `OnlyLockoutsAreConfirmed`
shows that trip qualification is never fooled by noise that does not last,
however many passes read it.  Its invariant `ConfirmInv`: an assertion in which
no pass has read the lockout is one transient, and how long it has been read and
how long it may yet last are together no more than `TripConfirm`, so that it is
over before it is confirmed.
`EachRunHasItsCeiling` is about both clocks and both state machines at once:
`CeilingInv` follows the edge of the line from the last beat of a run through
the dry opening of the next one (`DryBefore`, `QuietBefore`), where the
ATtiny's timeout runs out, to the first beat and the arming it causes
(`FirstBeat`, `Measured`), after which the armed time is the time the pump has
had.  `TimingAssumption` is used there and nowhere else.

**`Scheduler_proofs`.**  First the plan: `PlanIsBookended`, for every
configuration and number of zones the cycles lie in the window, in order and
apart, the first begins with it, and no run is below the floor, by lemmas about
the quotients of the integer division.  Then `SchedulerInvariant` (`IInv`), and
from it `SchedulerTypes`, `CyclesFireOnce`, `FertilizerGoesFirst`, `PlansFit`,
`PassesAreForward`.  `IInv` ties the ghosts of a day to what the code keeps for
as long as no edit has gone back over midnight: the last minute evaluated is
the newest (`OrderInv`), what fired on the newest day is in that day's mask
(`CycleInv`), and the auto-fert slot is marked with that day exactly when an
auto run was taken on it (`FertInv`).  `CyclesAllFire` adds `TodayInv`: on a
day every minute of which was evaluated the mask holds nothing that was not
fired on it, so no cycle is mistaken for done.

**`MissedCycles_proofs`.**  `MissedInvariant` has for both rings, the one in
memory and the one in flash, that a marker stands for a slot that is over, and
was over before the run in progress began: the row of that run, which is yet to
be logged, can then not belong to the slot.  From it, and from the slots being
apart: `MarkedAtMostOnce`, `MarkedIsDry`, and with what the scan of a pass
visits `MissesGetReported`, at every depth of the ring and for any order of the
zones.

**`RunLog_proofs`, `Records_proofs`.**  `PushRemembers` and `FlashRoundTrip`
say that the array with its head and count *is* a sequence that forgets its
oldest row: they rest on the shape `IsRing` (until the array is full its rows
begin at place 0) and on where the k-th oldest row stands.  `Records` uses them
twice, once per log.  `RecordsInv` has three parts that do not touch: each log
with its copy in flash, and the latch with the edge detector (which knows of no
latch older than the last clear) and the condition (which, while an unexpected
flow is latched, is the flow itself wherever a handler can look).  From it:
`RingsAlwaysKeepNewest`, `FlashIsAlwaysCurrent`, `LatchesAreLogged`,
`ClearsAreSafe`, `NightlyLosesNothing`.  `RowsGoOutInOrder` rests on `FeedInv`:
what was sent, what the task has in hand and what waits rise strictly and end
at the newest row at the latest, and once the newest row is among them, a feed
that is seeded has it as its key and does not take it a second time.  The
replay at boot builds its queue by a recursive function over the blob; that it
rises (`BacklogHolds`) is an induction over the steps of that function, by the
well-founded order on a set of numbers (`Inductive`).  `ReplayIsWhole`: the same
function leaves no stamped row of the blob out, because the queue is no
shallower than the ring.  `RecordsTypes` collects the types.

**`FlowWatch_proofs`.**  `FlowInvariant` (`FlowInv`) says of each timer, gate and
count what it stands for on the meter: the ghost `past` has the pulses of the
last units, and the rate's samples, the idle window, the drain gate and the
rest window are sums of it over the time each has been open.  From it the three
promises of detection, `DryRunsAreCaught`, `FloodsAreCaught` and
`LeaksAreFlagged`, and the four that say nobody is charged wrongly,
`NoFlowIsAlwaysEarned`, `TailsAreSpared`, `FlagsAreTheZonesOwn`,
`HealsAreEarned`, for any grace, windows, thresholds and number of zones.

**`Tenants_proofs`.**  `TenantsInvariant` (`Inv`) has three parts.  The
upload's, `OtaInv`: whoever owns the shared state is streaming (so whoever
claims finds it nobody's, even under an old pointer), of a handler past its
gate, an image begun and a restart asked for there is at most one, and the
inhibit is held exactly while there is one.  The controller's, `RunInv`: the
inhibit means rest, an idle controller is nobody's, and a calibration that runs
unstrayed holds the run and has not been left by it for longer than a pass
takes to tell it.  The tally's, `TallyInv`: what is counted around the
counter's range is what the run has poured, by `OneMore`, a lemma on
differences modulo the range.  From it: `TenantsTypes`, `TallyIsOwn`,
`InhibitIsHeldExactly`, `OthersAreSpared`, `RestartsAreClean`.

**`Connectivity_proofs`.**  `LinkInvariant` says what the monitor's two
baselines stand for.  Until the first attempt of an outage both measure the
outage itself (`FirstGrace`).  From then on only the baseline of the attempts
is right (`RetryPace`): the other one turns with the counter, and an attempt
whose interval is over is withheld for as long as it reads less than the grace,
which is once per turn.  From it: `RetriesAlwaysKeepPace`,
`AnnouncesMatchOutages`, `ConnectivityTypes`.  The proof of the first corrected
the property: an attempt after a turn may be late by two passes, not one.
`RebootsOncePerNight` follows from `NightInv`: since the night's reboot the box
has been up for no longer than the night is old.  The window is shorter than
the minimum uptime by assumption, as it is in the code.

**Only model-checked.**  `WaterStops`, `HeadIsServed`, `LockoutReleases` and
`NeverStranded`: liveness under fairness is beyond this prover.  Of induction
over data it can do what is stated of a *set* of numbers; the library's
theorems that take the induction hypothesis as an operator cannot be used.  The
four violations of section 4 are counterexamples and need no proof.

## 6. What is not modelled, and why

- The GET handlers, the collection of request bodies and, of `postSettings`,
  everything but the credentials, the ceiling and the override: single reads
  and writes under the mutex.
- The throttle of the clock's polls and the loop monitor: statistics and wear.
- JSON, validation and formatting (`core/api`, `web_server.h`): pure functions
  without state.  Bounds they impose appear as the assumptions on constants.
- Packing, defaults and migration of the NVS keys; the civil calendar and DST
  rules: data.
- GPIO, the flow sensor's interrupt, the radio, flash writes, TLS and MQTT:
  libraries and hardware, modelled as the environment that may do anything.
- Loop statistics, the alive light, the single-page interface: no control.

## 7. Running it

`tlc -config MCRunController.cfg MCRunController.tla` and likewise for the
other configurations; `tlapm Scheduler_proofs.tla` and likewise for the proof
modules.  `PROJECT.json` lists the runs with their configuration, the mutated
operators, the map to the sources, the hazards and the theorems.
