-------------------------- MODULE MCRunController --------------------------
(* Values for checking RunController with TLC. *)
EXTENDS RunController

\* A plain and a fertigating run on two zones, a zone that is not wired up and
\* a run of no length.
SomeRequests ==
  { [zone |-> 0, dur |-> 1, fert |-> FALSE],
    [zone |-> 1, dur |-> 2, fert |-> TRUE],
    [zone |-> 2, dur |-> 1, fert |-> FALSE],
    [zone |-> 0, dur |-> 0, fert |-> TRUE] }
\* The two that are not refused.
TwoRequests == {req \in SomeRequests : req.zone \in Zones /\ req.dur > 0}

ASSUME LogHoldsThem == DurationsFit
=============================================================================
