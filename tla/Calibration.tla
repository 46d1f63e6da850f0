---------------------------- MODULE Calibration ----------------------------
(***************************************************************************)
(* CalibrationController: a bucket test that measures the K of the flow    *)
(* sensor.  It runs water through the run controller like anyone else and  *)
(* keeps its own tally of the cumulative pulse counter.  The operators     *)
(* below are its calls; what they ask of the run controller is in the      *)
(* module that composes the two.                                           *)
(*                                                                         *)
(* Of K = tally / gallons only the tally is kept: a measurement is in      *)
(* range or it is not, and no tally of zero is.  A K in range goes to      *)
(* flash and to the flow monitor, whose readers are not in this model.     *)
(***************************************************************************)
EXTENDS Naturals

CONSTANTS
  Wrap              \* the pulse counter counts modulo this (2^32)

ASSUME CalibrationAssumption == Wrap \in Nat \ {0, 1}

VARIABLES
  pulses,           \* the sensor's cumulative counter
  phase,            \* phase_
  baseline,         \* baseline_, the counter at the start
  tally             \* tally_

calVars == <<phase, baseline, tally>>

Phases == {"Idle", "Running", "Awaiting"}

CalTypeOK ==
  /\ pulses \in 0 .. Wrap - 1
  /\ phase \in Phases
  /\ baseline \in 0 .. Wrap - 1
  /\ tally \in 0 .. Wrap - 1

CalInit == pulses = 0 /\ phase = "Idle" /\ baseline = 0 /\ tally = 0

\* The counter since the baseline: unsigned arithmetic survives its wrap.
Counted == (pulses + Wrap - baseline) % Wrap

CalActive == phase # "Idle"

\* The rest of start(), once the controller has taken the run.
CalStart ==
  /\ phase = "Idle"
  /\ phase' = "Running"
  /\ baseline' = pulses
  /\ tally' = 0

\* tick() with the run state the pass has read: a fault voids the test, the
\* dwell or the rest after its run freezes the tally.
Freezes_AtRest(runState) == runState = "Idle"

Freezes(runState) == runState \in {"Settle", "Idle"}

CalTick(runState) ==
  IF phase # "Running" THEN UNCHANGED calVars
  ELSE /\ phase' = IF runState = "Fault" THEN "Idle"
                   ELSE IF Freezes(runState) THEN "Awaiting" ELSE "Running"
       /\ tally' = IF runState = "Fault" THEN 0 ELSE Counted
       /\ UNCHANGED baseline

\* finish(): mid-run the tally is what has been counted so far.
FinalTally == IF phase = "Running" THEN Counted ELSE tally

CalFinish(inRange) ==
  /\ CalActive
  /\ inRange => FinalTally # 0
  /\ phase' = "Idle"
  /\ tally' = FinalTally
  /\ UNCHANGED baseline

CalCancel ==
  /\ phase' = "Idle"
  /\ tally' = 0
  /\ UNCHANGED baseline
=============================================================================
