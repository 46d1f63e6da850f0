---------------------------- MODULE MCScheduler ----------------------------
(* Values for checking Scheduler with TLC. *)
EXTENDS Scheduler

Entry(z, m, f) == [zone |-> z, minute |-> m, days |-> 0 .. 6, fert |-> f, enabled |-> TRUE]

\* Two auto entries in the last minute of a day, one and a forced one, of
\* Thursdays, in the first; and a schedule with one entry too many.
SomeSchedules ==
  { <<Entry(0, 3, "Auto"), Entry(1, 3, "Auto"),
      Entry(0, 0, "Auto"), [Entry(1, 0, "On") EXCEPT !.days = {4}]>>,
    [i \in 1 .. MaxEntries + 1 |-> Entry(0, 1, "Off")] }

\* Two cycles over the whole day, one cycle in the middle of it, one
\* configuration that does not fit and is only met in flash, and the switch off.
SomeConfigs ==
  { [enabled |-> TRUE, windowStart |-> 0, windowEnd |-> 4, perZone |-> 2, fertCount |-> 1],
    [enabled |-> TRUE, windowStart |-> 1, windowEnd |-> 3, perZone |-> 1, fertCount |-> 0],
    [enabled |-> TRUE, windowStart |-> 1, windowEnd |-> 3, perZone |-> 2, fertCount |-> 0],
    [enabled |-> FALSE, windowStart |-> 0, windowEnd |-> 0, perZone |-> 0, fertCount |-> 0] }

\* A nudge back over the edge of a minute and a jump forward.
SomeSteps == {0 - 1, 2}
=============================================================================
