---------------------------- MODULE WateringPlan ----------------------------
(***************************************************************************)
(* The plan of a day of distributed watering, derived from the operator's  *)
(* window, minutes per zone and fertilizer count.  The scheduler fires by  *)
(* it, the missed-cycle scan judges the history by it, the API previews it.*)
(* Pure: minutes of the day in, minutes of the day out.                    *)
(***************************************************************************)
EXTENDS Integers

CONSTANTS
  DayMinutes,       \* minutes of a day, 1440
  MinuteSec,        \* seconds of a minute, 60
  RunFloor,         \* DIST_RUN_FLOOR_MIN
  MaxRuns,          \* DIST_MAX_RUNS
  RunOverhead,      \* DIST_RUN_OVERHEAD_SEC
  MaxPerZone        \* DIST_MAX_PERZONE_MIN

ASSUME PlanAssumption ==
  /\ DayMinutes \in Nat \ {0}
  /\ MinuteSec \in Nat \ {0}
  /\ RunFloor \in Nat \ {0}
  /\ MaxRuns \in Nat \ {0}
  /\ RunOverhead \in Nat
  /\ MaxPerZone \in Nat

DistributedConfig ==
  [enabled : BOOLEAN, windowStart : Nat, windowEnd : Nat, perZone : Nat,
   fertCount : Nat]

Window(cfg) == cfg.windowEnd - cfg.windowStart

\* As many runs as fit above the floor, capped.
Runs(cfg) ==
  LET fit == cfg.perZone \div RunFloor IN IF fit > MaxRuns THEN MaxRuns ELSE fit

RunLenSec(cfg) == (cfg.perZone * MinuteSec) \div Runs(cfg)

\* One cycle: every zone back to back with its overhead, rounded up to minutes.
CycleSpan(cfg, zones) ==
  (zones * (RunLenSec(cfg) + RunOverhead) + MinuteSec - 1) \div MinuteSec

\* The plan is valid: the window lies in the day, the minutes in their range
\* and the cycles fit.
Schedulable(cfg, zones) ==
  /\ cfg.enabled
  /\ zones > 0
  /\ cfg.windowStart < DayMinutes
  /\ cfg.windowEnd <= DayMinutes
  /\ cfg.windowStart < cfg.windowEnd
  /\ cfg.perZone >= RunFloor
  /\ cfg.perZone <= MaxPerZone
  /\ Runs(cfg) * CycleSpan(cfg, zones) <= Window(cfg)

Cycles(cfg) == 0 .. Runs(cfg) - 1

\* The window divided by the cycles, as if the last one took no time.
CycleGap_WholeWindow(cfg, zones) == Window(cfg) \div (Runs(cfg) - 1)

\* Bookended: the first cycle begins with the window, the last ends with it.
\* A plan of one cycle has no gap and begins with the window.
CycleGap(cfg, zones) == (Window(cfg) - CycleSpan(cfg, zones)) \div (Runs(cfg) - 1)

CycleStart(cfg, zones, i) ==
  cfg.windowStart + (IF i = 0 THEN 0 ELSE i * CycleGap(cfg, zones))

\* The cycles of a plan lie in the window, one after the other and without
\* overlap, the first begins with it, and no run is shorter than the floor.
Bookended(cfg, zones) ==
  LET span == CycleSpan(cfg, zones) IN
  /\ Cycles(cfg) # {} /\ span \in 1 .. Window(cfg)
  /\ RunLenSec(cfg) >= RunFloor * MinuteSec
  /\ CycleStart(cfg, zones, 0) = cfg.windowStart
  /\ \A i \in Cycles(cfg) :
       /\ CycleStart(cfg, zones, i) \in cfg.windowStart .. cfg.windowEnd - span
       /\ \A j \in Cycles(cfg) :
            i < j => CycleStart(cfg, zones, i) + span <= CycleStart(cfg, zones, j)
=============================================================================
