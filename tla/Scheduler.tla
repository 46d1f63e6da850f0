----------------------------- MODULE Scheduler -----------------------------
(***************************************************************************)
(* The scheduler and the wall clock it reads.  Every pass of the loop lets *)
(* the clock poll its source and then evaluates the schedule if the local  *)
(* minute is one not evaluated before; saving a schedule or a distributed  *)
(* configuration evaluates the current minute at once.  Both run under the *)
(* web server's mutex.                                                     *)
(*                                                                         *)
(* Time is counted in local minutes.  The clock runs free from the last    *)
(* reading it took; the source it polls may meanwhile have been corrected  *)
(* or have changed between winter and summer time.  The run controller is  *)
(* the sink: it takes the first requests of an evaluation, as many as it   *)
(* has room for, and refuses the rest (all of them when faulted).          *)
(***************************************************************************)
EXTENDS WateringPlan, Sequences, FiniteSets

CONSTANTS
  ZoneCount,        \* the live zones
  Schedules,        \* the schedules POST /api/schedule may save
  Configs,          \* the configurations POST /api/distributed may save
  MaxEntries,       \* MAX_ENTRIES
  ResyncInterval,   \* RESYNC_INTERVAL_MS, in minutes
  Steps,            \* corrections of the source, in minutes
  MaxRoom,          \* the most requests the sink takes at once
  LastMinute        \* where the model stops the clock

Overrides == {"Auto", "On", "Off"}
ScheduleEntry == [zone : Nat, minute : Nat, days : SUBSET (0 .. 6),
                  fert : Overrides, enabled : BOOLEAN]
Never == 0 - 1      \* no minute evaluated, no day marked

ASSUME SchedulerAssumption ==
  /\ ZoneCount \in Nat \ {0}
  /\ Schedules \subseteq Seq(ScheduleEntry)
  /\ Configs \subseteq DistributedConfig
  /\ MaxEntries \in Nat
  /\ ResyncInterval \in Nat \ {0}
  /\ Steps \subseteq Int
  /\ MaxRoom \in Nat
  /\ LastMinute \in Nat

VARIABLES
  source,           \* the local minute the source would answer
  ready,            \* the source has the time (NTP has answered)
  synced,           \* synced_
  clock,            \* epoch() in minutes: the reading, free-running; 0 if not synced
  sinceSync,        \* time since lastAttemptMs_
  passed,           \* the loop has made a pass in this minute
  entries,          \* entries_, count_
  dist,             \* dist_
  lastEval,         \* lastEvalMin_, Never until evaledOnce_
  autoFertDay,      \* autoFertDay_, Never until autoFertUsed_
  firedDay,         \* distFiredDay_
  firedMask,        \* distFiredMask_
  \* What has been asked of the sink since boot; no code keeps it.
  newest,           \* the newest minute evaluated
  rewound,          \* an edit has evaluated an older minute since
  recrossed,        \* an edit has evaluated a minute of an older day since newest's day began
  fired,            \* the cycles fired on newest's day
  firedAgain,       \* one was fired a second time and midnight was not recrossed
  autoRun,          \* an auto run was taken on newest's day
  fertOdd,          \* an auto run had fertilizer and was not that day's first, or lacked it
  takenNow,         \* the entries taken in the minute lastEval, in all its evaluations
  askedAgain,       \* the last evaluation has asked for one of them again
  steady            \* every minute of this day evaluated, by passes, with no edit

clockVars == <<source, ready, synced, clock, sinceSync, passed>>
scheduleVars == <<entries, dist>>
evalVars == <<lastEval, autoFertDay, firedDay, firedMask>>
askVars == <<takenNow, askedAgain>>
ghostVars == <<newest, rewound, recrossed, fired, firedAgain, autoRun, fertOdd, askVars,
               steady>>
vars == <<clockVars, scheduleVars, evalVars, ghostVars>>

DayOf(m) == m \div DayMinutes
MinuteOf(m) == m % DayMinutes
\* Day 0 of the epoch is a Thursday.
WeekdayOf(m) == (DayOf(m) + 4) % 7

Minutes == 0 .. LastMinute
Days == {Never} \cup 0 .. DayOf(LastMinute)

TypeOK ==
  /\ source \in Minutes
  /\ ready \in BOOLEAN
  /\ synced \in BOOLEAN
  /\ clock \in Minutes
  /\ sinceSync \in 0 .. ResyncInterval
  /\ passed \in BOOLEAN
  /\ entries \in Seq(ScheduleEntry)
  /\ Len(entries) <= MaxEntries
  /\ dist \in DistributedConfig
  /\ lastEval \in {Never} \cup Minutes
  /\ autoFertDay \in Days
  /\ firedDay \in Days
  /\ firedMask \subseteq 0 .. MaxRuns - 1

-----------------------------------------------------------------------------
Disabled == [enabled |-> FALSE, windowStart |-> 0, windowEnd |-> 0,
             perZone |-> 0, fertCount |-> 0]

Init ==
  /\ source = 0 /\ ready = FALSE
  /\ synced = FALSE /\ clock = 0 /\ sinceSync = 0 /\ passed = FALSE
  /\ entries = <<>>
  /\ dist = Disabled
  /\ lastEval = Never /\ autoFertDay = Never /\ firedDay = Never
  /\ firedMask = {}
  /\ newest = Never /\ rewound = FALSE /\ recrossed = FALSE
  /\ fired = {} /\ firedAgain = FALSE /\ autoRun = FALSE /\ fertOdd = FALSE
  /\ takenNow = {} /\ askedAgain = FALSE
  /\ steady = FALSE

\* Clock::tick with resync: tried on every pass until the first answer, then
\* once an interval.  What it leaves in synced, clock and sinceSync.
ClockTick ==
  IF synced /\ sinceSync < ResyncInterval
    THEN UNCHANGED <<synced, clock, sinceSync>>
    ELSE /\ sinceSync' = 0
         /\ synced' = (synced \/ ready)
         /\ clock' = IF ready THEN source ELSE clock

\* The places in schedule es of the fixed entries due in minute m; they are
\* asked for in this order.
Due(es, m) ==
  {i \in DOMAIN es : /\ es[i].enabled
                     /\ es[i].minute = MinuteOf(m)
                     /\ WeekdayOf(m) \in es[i].days}

\* Those the sink takes when it has this much room.
Taken(due, room) == {i \in due : Cardinality({j \in due : j < i}) < room}

AutoAmong(es, places) == {i \in places : es[i].fert = "Auto"}

\* The auto entries whose request uses up the day's fertilizer: those taken.
ConsumesSlot_Refused(es, due, taken) == AutoAmong(es, due)

ConsumesSlot(es, due, taken) == AutoAmong(es, taken)

\* resolveFert for place i: the day's fertilizer has gone neither in an
\* earlier evaluation nor to one of the users before i in this one.
ResolveFert(es, i, users, day) ==
  \/ es[i].fert = "On"
  \/ es[i].fert = "Auto" /\ autoFertDay # day /\ \A j \in users : i <= j

\* What was fired and taken before on the day being evaluated, as far as the
\* ghosts know: nothing yet if it is a new one.
NewDay(m) == DayOf(m) > DayOf(newest)
Fired(m)  == IF NewDay(m) THEN {} ELSE fired
AutoRun(m) == ~NewDay(m) /\ autoRun

\* The entries taken in minute m by the evaluations before this one.
TakenIn(m) == IF m = lastEval THEN takenNow ELSE {}

\* The fixed-entry half of evaluate.
FireEntries(es, m, room) ==
  LET day   == DayOf(m)
      taken == Taken(Due(es, m), room)
      users == ConsumesSlot(es, Due(es, m), taken)
      autos == AutoAmong(es, taken)
      odd(i) == ResolveFert(es, i, users, day) #
                  (~AutoRun(m) /\ \A j \in autos : i <= j)
  IN
    /\ autoFertDay' = IF users # {} THEN day ELSE autoFertDay
    /\ autoRun' = (AutoRun(m) \/ autos # {})
    /\ fertOdd' = (fertOdd \/ (~recrossed' /\ \E i \in autos : odd(i)))
    /\ takenNow' = TakenIn(m) \cup {es[i] : i \in taken}
    /\ askedAgain' = (\E i \in Due(es, m) : es[i] \in TakenIn(m))
    /\ fired' = Fired(m)
    /\ UNCHANGED <<firedDay, firedMask, firedAgain>>

\* The cycles marked as fired on a day: a new day forgets the last one's.
FiredOn_NoReset(day) == firedMask

FiredOn(day) == IF firedDay = day THEN firedMask ELSE {}

\* The cycles of a plan evaluateDistributed fires in minute m.
Firing_Unmarked(cfg, m) ==
  {i \in Cycles(cfg) : CycleStart(cfg, ZoneCount, i) = MinuteOf(m)}

Firing(cfg, m) ==
  {i \in Cycles(cfg) \ FiredOn(DayOf(m)) :
     CycleStart(cfg, ZoneCount, i) = MinuteOf(m)}

\* evaluateDistributed: a cycle is marked on the attempt, taken or refused.
FireCycles(cfg, m) ==
  LET day == DayOf(m) IN
    /\ firedDay' = day
    /\ firedMask' = FiredOn(day) \cup Firing(cfg, m)
    /\ fired' = Fired(m) \cup Firing(cfg, m)
    /\ firedAgain' = (firedAgain \/ (~recrossed' /\ Firing(cfg, m) \cap Fired(m) # {}))
    /\ autoRun' = AutoRun(m)
    /\ takenNow' = TakenIn(m)
    /\ askedAgain' = FALSE
    /\ UNCHANGED <<autoFertDay, fertOdd>>

\* evaluate: the plan replaces the entries when it is schedulable; one that
\* is enabled and is not leaves the entries in force.
Evaluate(es, cfg, m, room) ==
  /\ lastEval' = m
  /\ newest' = IF m > newest THEN m ELSE newest
  /\ recrossed' = (~NewDay(m) /\ (recrossed \/ DayOf(m) < DayOf(newest)))
  /\ IF Schedulable(cfg, ZoneCount) THEN FireCycles(cfg, m)
                                    ELSE FireEntries(es, m, room)

\* The guard of Scheduler::tick: strictly newer than the last minute evaluated.
NewMinute(m) == lastEval < m

\* Scheduler::tick, with the clock as this pass has left it.
SchedulerTick(room) ==
  IF synced' /\ NewMinute(clock')
    THEN /\ Evaluate(entries, dist, clock', room)
         /\ rewound' = (rewound /\ clock' <= newest)
         /\ steady' = IF MinuteOf(clock') = 0 THEN TRUE
                                              ELSE steady /\ clock' = lastEval + 1
    ELSE UNCHANGED <<evalVars, ghostVars>>

\* The part of a pass of loop() this module is about.
Pass ==
  /\ ClockTick
  /\ passed' = TRUE
  /\ \E room \in 0 .. MaxRoom : SchedulerTick(room)
  /\ UNCHANGED <<source, ready, scheduleVars>>

\* Scheduler::evalNow, after a handler has stored es and cfg.
EvalNow(es, cfg, room) ==
  IF synced
    THEN /\ Evaluate(es, cfg, clock, room)
         /\ rewound' = (rewound \/ clock < newest)
         /\ steady' = FALSE
    ELSE /\ steady' = FALSE
         /\ UNCHANGED <<evalVars, newest, rewound, recrossed, fired, firedAgain,
                        autoRun, fertOdd, askVars>>

\* The array takes no more entries.
FitsArray(es) == Len(es) <= MaxEntries

\* POST /api/schedule replaces the schedule as a whole.  A faulted controller
\* refuses the request, so whoever gets here may find room.
PostSchedule(es) ==
  /\ FitsArray(es)
  /\ entries' = es
  /\ \E room \in 0 .. MaxRoom : EvalNow(es, dist, room)
  /\ UNCHANGED <<dist, clockVars>>

\* POST /api/distributed: enabling takes a whole configuration and only a
\* schedulable one; disabling keeps what was set.
Staged(cfg) == IF cfg.enabled THEN cfg ELSE [dist EXCEPT !.enabled = FALSE]

PostDistributed(cfg) ==
  /\ cfg.enabled => Schedulable(cfg, ZoneCount)
  /\ dist' = Staged(cfg)
  /\ \E room \in 0 .. MaxRoom : EvalNow(entries, dist', room)
  /\ UNCHANGED <<entries, clockVars>>

\* setup() after a reset: the schedule and the configuration come back from
\* flash, everything else is new.  The stored configuration is not validated
\* there; one whose record was torn may be any.  The clock takes its first
\* reading at once if the source still has the time.
Restart ==
  /\ ready' \in BOOLEAN
  /\ synced' = ready'
  /\ clock' = IF ready' THEN source ELSE 0
  /\ sinceSync' = 0 /\ passed' = FALSE
  /\ dist' \in Configs \cup {dist}
  /\ UNCHANGED <<source, entries>>
  /\ lastEval' = Never /\ autoFertDay' = Never /\ firedDay' = Never
  /\ firedMask' = {}
  /\ newest' = Never /\ rewound' = FALSE /\ recrossed' = FALSE
  /\ fired' = {} /\ firedAgain' = FALSE /\ autoRun' = FALSE /\ fertOdd' = FALSE
  /\ takenNow' = {} /\ askedAgain' = FALSE
  /\ steady' = FALSE

\* NTP answers for the first time.
SourceReady ==
  /\ ~ready
  /\ ready' = TRUE
  /\ UNCHANGED <<source, synced, clock, sinceSync, passed, scheduleVars, evalVars, ghostVars>>

\* The source is corrected or changes between summer and winter time.
SourceSteps(n) ==
  /\ ready
  /\ source + n \in Minutes
  /\ source' = source + n
  /\ UNCHANGED <<ready, synced, clock, sinceSync, passed, scheduleVars, evalVars, ghostVars>>

\* A minute goes by; the loop makes at least one pass in each.
Minute ==
  /\ passed
  /\ source < LastMinute /\ clock < LastMinute
  /\ source' = source + 1
  /\ clock' = IF synced THEN clock + 1 ELSE clock
  /\ sinceSync' = IF sinceSync < ResyncInterval THEN sinceSync + 1 ELSE sinceSync
  /\ passed' = FALSE
  /\ UNCHANGED <<ready, synced, scheduleVars, evalVars, ghostVars>>

Next ==
  \/ Pass
  \/ \E es \in Schedules : PostSchedule(es)
  \/ \E cfg \in Configs : PostDistributed(cfg)
  \/ Restart
  \/ SourceReady
  \/ \E n \in Steps : SourceSteps(n)
  \/ Minute

Spec == Init /\ [][Next]_vars

-----------------------------------------------------------------------------
(* Properties. *)

\* A pass never evaluates a minute it or an earlier pass has evaluated,
\* however the source nudges the clock back, unless an edit has evaluated an
\* older minute in between.  (The forward-only guard of Scheduler::tick.)
PassesGoForward ==
  [][Pass /\ lastEval' # lastEval => lastEval' > newest \/ rewound]_vars

\* A cycle is fired at most once on its day: not by a pass and an edit in the
\* same minute, not after the plan was changed or switched off and on, not
\* after the clock stepped back within the day.  Only an edit on the far side
\* of midnight forgets what was fired.  (distFiredMask_ in evaluateDistributed.)
CycleFiresOnce == ~firedAgain

\* On a day whose every minute a pass evaluated and nobody edited, each cycle
\* of the plan has been fired by the minute it was due.  (The new-day reset of
\* the mask and the routing of evaluate.)
EveryCycleFires ==
  steady /\ Schedulable(dist, ZoneCount) =>
    \A i \in Cycles(dist) :
      CycleStart(dist, ZoneCount, i) <= MinuteOf(lastEval) =>
        i \in fired

\* Since boot, the first auto run the controller takes on a day has fertilizer
\* and no later one has, whatever was refused before it and whatever was
\* edited.  (resolveFert and the slot's use on success.)
FirstAutoRunFertigates == ~fertOdd

\* A schedulable plan on any day: the cycles begin in the window's order, do
\* not overlap, end inside the window, the first begins with it, and no run is
\* shorter than the floor.  (computeDistributedPlan.)
PlanFits == Schedulable(dist, ZoneCount) => Bookended(dist, ZoneCount)

\* No evaluation asks for an entry that the controller has taken in the same
\* minute.  (core/clock.h:80-81: "the scheduler must be idempotent per (entry,
\* minute): a re-eval of an already-started run must be a no-op".)
EntryFiresOncePerMinute == ~askedAgain
=============================================================================
