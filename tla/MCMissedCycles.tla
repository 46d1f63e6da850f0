--------------------------- MODULE MCMissedCycles ---------------------------
(* Values for checking MissedCycles with TLC. *)
EXTENDS MissedCycles

\* Two cycles of two zones that end a minute before midnight.
TwoCycles ==
  [enabled |-> TRUE, windowStart |-> 0, windowEnd |-> 4, perZone |-> 2, fertCount |-> 0]
TwoZones == <<1, 0>>
=============================================================================
