---------------------------- MODULE MissedCycles ----------------------------
(***************************************************************************)
(* The scan for missed cycles of distributed watering.  The scheduler      *)
(* fires each cycle of the day's plan into the controller, the controller  *)
(* logs every run that ends in the history ring, and the loop, while the   *)
(* controller is at rest, looks once a second through the day's elapsed    *)
(* slots for one without a row and marks it with a row of its own.  Runs   *)
(* are late behind other runs, are stopped, faulted or skipped; a latched  *)
(* fault refuses them; power is lost and takes what the debounce has not   *)
(* written to flash.                                                       *)
(*                                                                         *)
(* Time is counted in local minutes.  The clock is right once it is        *)
(* synced; its corrections are Scheduler's subject.                        *)
(***************************************************************************)
EXTENDS WateringPlan, Sequences, FiniteSets

CONSTANTS
  FireOrder,        \* kFireOrder, the live zones in the order they are fired
  Config,           \* the distributed configuration in force
  MaxQueue,         \* MAX_QUEUE
  RunlogDepth,      \* RUNLOG_DEPTH
  Manual,           \* the zones POST /api/run may ask for
  ManualRows,       \* it asks for none once the ring has this many rows (a bound)
  LastMinute        \* where the model stops the clock

ZoneCount == Len(FireOrder)
Zones == 0 .. ZoneCount - 1
Never == 0 - 1

ASSUME MissedAssumption ==
  /\ FireOrder \in Seq(Nat)
  /\ {FireOrder[k] : k \in DOMAIN FireOrder} = Zones
  /\ Config \in DistributedConfig
  /\ Schedulable(Config, ZoneCount)
  /\ MaxQueue \in Nat /\ ZoneCount <= MaxQueue
  /\ RunlogDepth \in Nat \ {0}
  /\ Manual \subseteq Zones
  /\ ManualRows \in Nat
  /\ LastMinute \in Nat

\* What the scan relies on.  A schedulable configuration has it, whatever its
\* numbers: PlanIsBookended of Scheduler_proofs.
ASSUME SlotsAreApart == Bookended(Config, ZoneCount)

\* A row of the history.  A marker is a faulted row with the code MissedCycle;
\* of the rows of runs the scan does not tell the results apart.
RunEntry == [zone : Zones, start : 0 .. LastMinute, stamped : BOOLEAN,
             marker : BOOLEAN]
NoRun == [zone |-> 0, stage |-> "None", since |-> 0, stamped |-> FALSE]

VARIABLES
  now,              \* the local minute
  up,               \* the box has power
  valid,            \* wallClock.valid()
  lastEval,         \* the scheduler's lastEvalMin_
  fired,            \* the cycles fired today since boot
  queue,            \* the zones waiting for their run
  run,              \* the run in progress: its zone, stage and stamp
  latched,          \* a fault is latched
  log,              \* the history ring, oldest row first
  saved             \* its copy in flash

vars == <<now, up, valid, lastEval, fired, queue, run, latched, log, saved>>

DayOf(m) == m \div DayMinutes
MinuteOf(m) == m % DayMinutes
RunLen == (RunLenSec(Config) + MinuteSec - 1) \div MinuteSec

TypeOK ==
  /\ now \in 0 .. LastMinute
  /\ up \in BOOLEAN /\ valid \in BOOLEAN /\ latched \in BOOLEAN
  /\ lastEval \in {Never} \cup 0 .. LastMinute
  /\ fired \subseteq Cycles(Config)
  /\ queue \in Seq(Zones) /\ Len(queue) <= MaxQueue
  /\ run \in [zone : Zones, stage : {"None", "Opening", "Running"},
              since : 0 .. LastMinute, stamped : BOOLEAN]
  /\ log \in Seq(RunEntry) /\ Len(log) <= RunlogDepth
  /\ saved \in Seq(RunEntry) /\ Len(saved) <= RunlogDepth

Init ==
  /\ now = 0 /\ up = TRUE /\ valid = FALSE /\ lastEval = Never
  /\ fired = {} /\ queue = <<>> /\ run = NoRun /\ latched = FALSE
  /\ log = <<>> /\ saved = <<>>

-----------------------------------------------------------------------------
(* The scan. *)

\* slotWindow: the minutes of the day that belong to cycle c, cut at midnight.
SlotStart(c) == CycleStart(Config, ZoneCount, c)
SlotEnd(c) ==
  LET e == SlotStart(c) + CycleSpan(Config, ZoneCount) IN
  IF e > DayMinutes THEN DayMinutes ELSE e

\* entryInSlot: row e is of zone z and began in cycle c of the day.
InSlot_AfterStart(e, z, c, day) ==
  /\ e.stamped /\ e.zone = z
  /\ DayOf(e.start) = day
  /\ MinuteOf(e.start) > SlotStart(c) /\ MinuteOf(e.start) < SlotEnd(c)

InSlot(e, z, c, day) ==
  /\ e.stamped /\ e.zone = z
  /\ DayOf(e.start) = day
  /\ MinuteOf(e.start) >= SlotStart(c) /\ MinuteOf(e.start) < SlotEnd(c)

\* The slot has a row, of whatever result.
Logged(z, c, day) == \E k \in DOMAIN log : InSlot(log[k], z, c, day)

\* The slot has elapsed.
Elapsed_Started(c, minute) == minute >= SlotStart(c)

Elapsed(c, minute) == minute >= SlotEnd(c)

\* The slots the scan visits: cycles in order until one has not elapsed.
Visited_First(minute) == {c \in Cycles(Config) : c = 0 /\ Elapsed(c, minute)}

Visited(minute) == {c \in Cycles(Config) : \A b \in 0 .. c : Elapsed(b, minute)}

\* nextMissedCycle: the first of them without a row, cycles before zones.
MissedSlots ==
  {s \in Visited(MinuteOf(now)) \X Zones : ~Logged(s[2], s[1], DayOf(now))}
NextMissed ==
  CHOOSE s \in MissedSlots : \A t \in MissedSlots :
    s[1] < t[1] \/ (s[1] = t[1] /\ s[2] <= t[2])

\* RunLog::push.
Push(e) == log' = IF Len(log) < RunlogDepth THEN Append(log, e) ELSE Append(Tail(log), e)

\* The loop scans only while the controller is idle with an empty queue; a
\* latched fault is not idle.
AtRest == up /\ valid /\ run.stage = "None" /\ queue = <<>> /\ ~latched

Scan ==
  /\ AtRest
  /\ MissedSlots # {}
  /\ Push([zone |-> NextMissed[2], stamped |-> TRUE, marker |-> TRUE,
           start |-> DayOf(now) * DayMinutes + SlotStart(NextMissed[1])])
  /\ UNCHANGED <<now, up, valid, lastEval, fired, queue, run, latched, saved>>

-----------------------------------------------------------------------------
(* The scheduler and the controller, as far as the scan sees them. *)

\* The queue takes what it has room for and refuses the rest.
Queued(zs) ==
  LET room == MaxQueue - Len(queue)
  IN  queue \o SubSeq(zs, 1, IF Len(zs) < room THEN Len(zs) ELSE room)

\* A pass in a minute not evaluated yet: the cycles that start now and have
\* not fired today are fired, one run per zone; a latched fault refuses them
\* all, and they count as fired.
Evaluate ==
  LET today == IF lastEval # Never /\ DayOf(lastEval) = DayOf(now) THEN fired ELSE {}
      due   == {c \in Cycles(Config) \ today : SlotStart(c) = MinuteOf(now)}
  IN
    /\ up /\ valid /\ lastEval < now
    /\ lastEval' = now
    /\ fired' = today \cup due
    /\ queue' = IF due # {} /\ ~latched THEN Queued(FireOrder) ELSE queue
    /\ UNCHANGED <<now, up, valid, run, latched, log, saved>>

\* POST /api/run.
RequestRun(z) ==
  /\ up /\ ~latched
  /\ Len(queue) < MaxQueue /\ Len(log) < ManualRows
  /\ queue' = Append(queue, z)
  /\ UNCHANGED <<now, up, valid, lastEval, fired, run, latched, log, saved>>

StartNext ==
  /\ up /\ run.stage = "None" /\ queue # <<>>
  /\ run' = [zone |-> Head(queue), stage |-> "Opening", since |-> now, stamped |-> FALSE]
  /\ queue' = Tail(queue)
  /\ UNCHANGED <<now, up, valid, lastEval, fired, latched, log, saved>>

\* The edge into RUNNING stamps the row to come with the wall clock, if it is
\* valid.
ReachRunning ==
  /\ run.stage = "Opening"
  /\ run' = [run EXCEPT !.stage = "Running", !.since = now, !.stamped = valid]
  /\ UNCHANGED <<now, up, valid, lastEval, fired, queue, latched, log, saved>>

\* The run's row: without its stamp, a run that never reached RUNNING has no
\* place in the day.
LogRun ==
  Push([zone |-> run.zone, stamped |-> run.stamped, marker |-> FALSE,
        start |-> IF run.stamped THEN run.since ELSE 0])

\* The run ends: it completes its length; a stop ends it and drops the queue;
\* an abort or a skip spares the queue; a fault latches and drops the queue.
EndRun(rest) ==
  /\ LogRun
  /\ run' = NoRun
  /\ queue' = rest
  /\ UNCHANGED <<now, up, valid, lastEval, fired, saved>>

Complete ==
  /\ run.stage = "Running" /\ now >= run.since + RunLen
  /\ EndRun(queue)
  /\ UNCHANGED latched

\* (A stop in the dwell after a run repeats the run's row, RunController's
\* OneRowPerRun; a repeated row fills no other slot.)
Stop ==
  /\ run.stage # "None"
  /\ EndRun(<<>>)
  /\ UNCHANGED latched

Abort ==
  /\ run.stage # "None"
  /\ EndRun(queue)
  /\ UNCHANGED latched

RaiseFault ==
  /\ run.stage # "None"
  /\ EndRun(<<>>)
  /\ latched' = TRUE

\* A fault at rest latches and logs nothing.
RaiseIdleFault ==
  /\ up /\ ~latched /\ run.stage = "None"
  /\ latched' = TRUE /\ queue' = <<>>
  /\ UNCHANGED <<now, up, valid, lastEval, fired, run, log, saved>>

ClearFault ==
  /\ up /\ latched
  /\ latched' = FALSE
  /\ UNCHANGED <<now, up, valid, lastEval, fired, queue, run, log, saved>>

-----------------------------------------------------------------------------
(* Flash, power and time. *)

\* The ring has been quiet for the debounce.
Save ==
  /\ up /\ saved # log
  /\ saved' = log
  /\ UNCHANGED <<now, up, valid, lastEval, fired, queue, run, latched, log>>

PowerOff ==
  /\ up
  /\ up' = FALSE /\ valid' = FALSE /\ lastEval' = Never /\ fired' = {}
  /\ queue' = <<>> /\ run' = NoRun /\ latched' = FALSE
  /\ log' = saved
  /\ UNCHANGED <<now, saved>>

PowerOn ==
  /\ ~up
  /\ up' = TRUE
  /\ UNCHANGED <<now, valid, lastEval, fired, queue, run, latched, log, saved>>

Sync ==
  /\ up /\ ~valid
  /\ valid' = TRUE
  /\ UNCHANGED <<now, up, lastEval, fired, queue, run, latched, log, saved>>

\* A minute goes by.  The loop makes many passes in it: the minute has been
\* evaluated, a run that was due to start, to open or to end has done so, the
\* ring has been written, and a controller at rest has been scanned until
\* nothing was found.
Minute ==
  /\ now < LastMinute
  /\ up => /\ valid => lastEval = now
           /\ run.stage = "None" => queue = <<>>
           /\ run.stage # "Opening"
           /\ run.stage = "Running" => now < run.since + RunLen
           /\ saved = log
  /\ AtRest => MissedSlots = {}
  /\ now' = now + 1
  /\ UNCHANGED <<up, valid, lastEval, fired, queue, run, latched, log, saved>>

Next ==
  \/ Evaluate \/ Scan
  \/ \E z \in Manual : RequestRun(z)
  \/ StartNext \/ ReachRunning
  \/ Complete \/ Stop \/ Abort \/ RaiseFault \/ RaiseIdleFault \/ ClearFault
  \/ Save \/ PowerOff \/ PowerOn \/ Sync \/ Minute

Spec == Init /\ [][Next]_vars

-----------------------------------------------------------------------------
(* Properties. *)

\* The slot a marker stands for.
Marks(e, z, c, day) ==
  e.marker /\ e.zone = z /\ e.start = day * DayMinutes + SlotStart(c)

\* A slot is marked at most once, however often the box restarts and whatever
\* it has lost, as long as the ring holds the day.  (dist_summary.h: "reboots
\* and re-runs never double-report a miss".)
SlotMarkedOnce ==
  \A k, l \in DOMAIN log :
    k # l /\ log[k].marker /\ log[l].marker
      => log[k].zone # log[l].zone \/ log[k].start # log[l].start

\* A slot is never marked beside a run that began in it: the scan neither
\* comes too early nor overlooks a row, even one logged after the marker.
MarkedSlotIsDry ==
  \A c \in Cycles(Config), z \in Zones, day \in 0 .. DayOf(now) :
    (\E k \in DOMAIN log : Marks(log[k], z, c, day))
      => \A k \in DOMAIN log :
           InSlot(log[k], z, c, day) => log[k].marker

\* Elapsed slots of the day that ends in this step, without a row.
UnreportedAtMidnight ==
  {s \in Cycles(Config) \X Zones :
     /\ SlotEnd(s[1]) < DayMinutes
     /\ ~\E k \in DOMAIN log :
          log[k].stamped /\ log[k].zone = s[2] /\ DayOf(log[k].start) = DayOf(now)
          /\ MinuteOf(log[k].start) \in SlotStart(s[1]) .. SlotEnd(s[1]) - 1}

MidnightPasses == now' # now /\ DayOf(now') # DayOf(now)

\* A day that ends with the controller at rest leaves no slot without a row
\* or a marker, if the slot ended before midnight.  (DEC-025: any cycle and
\* zone whose window has fully elapsed with no run logged.)
MissesAreReported == [][MidnightPasses /\ AtRest => UnreportedAtMidnight = {}]_vars

\* core/run_controller.h:146-148: a marker stands for a cycle that never ran
\* because "the box was off, or a latch suppressed the rest of the day".
LatchedMissesAreReported ==
  [][MidnightPasses /\ Len(log) < RunlogDepth /\ up /\ valid /\ latched
       => UnreportedAtMidnight = {}]_vars
=============================================================================
