----------------------------- MODULE WatchdogTrip -----------------------------
(***************************************************************************)
(* The ATtiny's half: it polls the heartbeat line on its own clock and     *)
(* holds the safety relay closed (Armed) while edges keep coming and the   *)
(* armed time is below the ceiling.  Quiet disarms silently; the ceiling   *)
(* locks the relay open and asserts the trip line until the line is quiet. *)
(***************************************************************************)
EXTENDS Naturals

CONSTANTS
  HbTimeout,        \* hbTimeoutMs
  HardMax           \* hardMaxMs

ASSUME TripAssumption == HbTimeout \in Nat \ {0} /\ HardMax \in Nat \ {0}

VARIABLES
  trip,             \* state_
  lastLevel,        \* lastLevel_
  edgeAge,          \* time since lastEdgeMs_, up to HbTimeout
  armAge            \* time since armStartMs_ while Armed, else 0

tripVars == <<trip, lastLevel, edgeAge, armAge>>

TripTypeOK ==
  /\ trip \in {"Disarmed", "Armed", "Lockout"}
  /\ lastLevel \in BOOLEAN
  /\ edgeAge \in 0 .. HbTimeout
  /\ armAge \in 0 .. HardMax

TripInit == trip = "Disarmed" /\ lastLevel = FALSE /\ edgeAge = 0 /\ armAge = 0

\* Power-up or reset: the level the line has now is no edge.
TripBegin(hb) ==
  /\ trip' = "Disarmed"
  /\ lastLevel' = hb
  /\ edgeAge' = 0
  /\ armAge' = 0

armed   == trip = "Armed"
tripped == trip = "Lockout"

\* edgeAge' is the age this poll leaves, 0 on an edge.
FollowLine(hb) ==
  /\ lastLevel' = hb
  /\ edgeAge' = IF hb # lastLevel THEN 0 ELSE edgeAge

TripDisarmed(hb) ==
  /\ trip = "Disarmed"
  /\ trip' = IF hb # lastLevel THEN "Armed" ELSE "Disarmed"
  /\ armAge' = 0

\* Never tells a quiet line from a beating one.
TripArmed_NoTimeout ==
  /\ trip = "Armed"
  /\ trip' = IF armAge >= HardMax THEN "Lockout" ELSE "Armed"
  /\ armAge' = IF trip' = "Armed" THEN armAge ELSE 0

\* The ceiling first, then the timeout.
TripArmed ==
  /\ trip = "Armed"
  /\ trip' = IF armAge >= HardMax THEN "Lockout"
             ELSE IF edgeAge' >= HbTimeout THEN "Disarmed" ELSE "Armed"
  /\ armAge' = IF trip' = "Armed" THEN armAge ELSE 0

\* Releases on the next beat, not on quiet.
TripLockout_NextBeat ==
  /\ trip = "Lockout"
  /\ trip' = IF edgeAge' = 0 THEN "Disarmed" ELSE "Lockout"
  /\ armAge' = 0

TripLockout ==
  /\ trip = "Lockout"
  /\ trip' = IF edgeAge' >= HbTimeout THEN "Disarmed" ELSE "Lockout"
  /\ armAge' = 0

TripTick(hb) ==
  /\ FollowLine(hb)
  /\ TripDisarmed(hb) \/ TripArmed \/ TripLockout

TripElapse ==
  /\ edgeAge' = IF edgeAge < HbTimeout THEN edgeAge + 1 ELSE edgeAge
  /\ armAge' = IF armed /\ armAge < HardMax THEN armAge + 1 ELSE armAge
  /\ UNCHANGED <<trip, lastLevel>>
=============================================================================
