----------------------------- MODULE ValveDriver -----------------------------
(***************************************************************************)
(* The low-level actuation of Tinkle: one low-side FET per zone valve, the *)
(* two diverter legs driven together, the pump relay, and one software     *)
(* travel timer per actuator.  Nothing here decides when to actuate; the   *)
(* run controller, which is the only commander, uses these actions.        *)
(*                                                                         *)
(* A timer is kept as the time LEFT, 0 when it is not active: the driver's *)
(* tick releases it in the first pass at which its travel has elapsed.     *)
(*                                                                         *)
(* Beside the driver's own memory the module keeps the plumbing it drives: *)
(* a valve starts to move when the level of its FET changes and may be     *)
(* mid-travel for as long as the configured travel window.  The driver     *)
(* never reads these two variables; properties compare them with what the  *)
(* software believes.                                                      *)
(***************************************************************************)
EXTENDS Integers

CONSTANTS
  ZoneCount,        \* zone valves wired up (zoneCount)
  ZoneTravel,       \* zoneTravelMs, in time units
  DiverterTravel    \* diverterTravelMs, in time units

\* The pump is only held back for a zone's travel after the diverter was left
\* to return on its own, so the legs must not be slower than a zone valve.
ASSUME TravelAssumption ==
  /\ ZoneCount \in Nat \ {0}
  /\ ZoneTravel \in Nat \ {0}
  /\ DiverterTravel \in Nat \ {0}
  /\ DiverterTravel <= ZoneTravel

VARIABLES
  pumpOn,           \* level of the pump relay
  energized,        \* the zones whose FET is high
  diverterFert,     \* commanded leg state, FALSE = plain (both legs at rest)
  zoneTimer,        \* zone -> travel time left
  divTimer,         \* the legs' travel time left
  zoneMoving,       \* zone -> how long the valve itself may still be moving
  legsMoving        \* how long the legs themselves may still be moving

driverVars == <<pumpOn, energized, diverterFert, zoneTimer, divTimer>>
plantVars  == <<zoneMoving, legsMoving>>
valveVars  == <<pumpOn, energized, diverterFert, zoneTimer, divTimer,
                zoneMoving, legsMoving>>

Zones == 0 .. ZoneCount - 1

ValveTypeOK ==
  /\ pumpOn \in BOOLEAN
  /\ energized \subseteq Zones
  /\ diverterFert \in BOOLEAN
  /\ zoneTimer \in [Zones -> 0 .. ZoneTravel]
  /\ divTimer \in 0 .. DiverterTravel
  /\ zoneMoving \in [Zones -> 0 .. ZoneTravel]
  /\ legsMoving \in 0 .. DiverterTravel

-----------------------------------------------------------------------------
\* The valves of S, whose FETs change level now, start to move.
ZonesMove(S) ==
  zoneMoving' = [z \in Zones |-> IF z \in S THEN ZoneTravel ELSE zoneMoving[z]]

LegsMove(fert) ==
  legsMoving' = IF fert = diverterFert THEN legsMoving ELSE DiverterTravel

ValveInit ==
  /\ pumpOn = FALSE
  /\ energized = {}
  /\ diverterFert = FALSE
  /\ zoneTimer = [z \in Zones |-> 0]
  /\ divTimer = 0
  /\ zoneMoving = [z \in Zones |-> 0]
  /\ legsMoving = 0

OpenZone(z) ==
  /\ energized' = energized \cup {z}
  /\ zoneTimer' = [zoneTimer EXCEPT ![z] = ZoneTravel]
  /\ ZonesMove({z} \ energized)
  /\ UNCHANGED <<pumpOn, diverterFert, divTimer, legsMoving>>

CloseZone(z) ==
  /\ energized' = energized \ {z}
  /\ zoneTimer' = [zoneTimer EXCEPT ![z] = ZoneTravel]
  /\ ZonesMove({z} \cap energized)
  /\ UNCHANGED <<pumpOn, diverterFert, divTimer, legsMoving>>

\* left is the travel the timer will still read: the full window, or 0 when
\* the caller's stamp lies ahead of the time of the pass that reads it next.
SetDiverter(fert, left) ==
  /\ diverterFert' = fert
  /\ divTimer' = left
  /\ LegsMove(fert)
  /\ UNCHANGED <<pumpOn, energized, zoneTimer, zoneMoving>>

PumpOn ==
  /\ pumpOn' = TRUE
  /\ UNCHANGED <<energized, diverterFert, zoneTimer, divTimer, plantVars>>

PumpOff ==
  /\ pumpOn' = FALSE
  /\ UNCHANGED <<energized, diverterFert, zoneTimer, divTimer, plantVars>>

\* Everything to its rest level at once; the timers are dropped although the
\* valves that were open now start to close.
SafeState ==
  /\ pumpOn' = FALSE
  /\ energized' = {}
  /\ diverterFert' = FALSE
  /\ zoneTimer' = [z \in Zones |-> 0]
  /\ divTimer' = 0
  /\ ZonesMove(energized)
  /\ LegsMove(FALSE)

-----------------------------------------------------------------------------
Less(t) == IF t > 0 THEN t - 1 ELSE 0

\* One unit of time.
ValveElapse ==
  /\ zoneTimer' = [z \in Zones |-> Less(zoneTimer[z])]
  /\ divTimer' = Less(divTimer)
  /\ zoneMoving' = [z \in Zones |-> Less(zoneMoving[z])]
  /\ legsMoving' = Less(legsMoving)
  /\ UNCHANGED <<pumpOn, energized, diverterFert>>

zoneBusy(z)  == zoneTimer[z] > 0
diverterBusy == divTimer > 0
=============================================================================
