------------------------------- MODULE Watchdog -------------------------------
(***************************************************************************)
(* The ESP32 half of the safety handshake.  It toggles the heartbeat line  *)
(* while the pump is commanded, parks it low otherwise, and turns the trip *)
(* line of the ATtiny into a qualified level: an assertion counts once it  *)
(* has been read without a gap for TripConfirm.                            *)
(*                                                                         *)
(* A stamp is kept as the time since it was taken, up to the bound it is   *)
(* compared with.                                                          *)
(***************************************************************************)
EXTENDS Naturals

CONSTANTS
  HeartbeatPeriod,  \* heartbeatMs
  TripConfirm       \* tripConfirmMs

ASSUME WatchdogAssumption == HeartbeatPeriod \in Nat /\ TripConfirm \in Nat \ {0}

VARIABLES
  emitting,         \* emitting_
  level,            \* level_, the heartbeat line
  toggleAge,        \* time since lastToggleMs_ while emitting, else 0
  tripSeen,         \* tripSeen_
  tripAge,          \* time since tripStartMs_ while tripSeen, else 0
  tripConfirmed     \* tripConfirmed_

watchdogVars == <<emitting, level, toggleAge, tripSeen, tripAge, tripConfirmed>>

WatchdogTypeOK ==
  /\ emitting \in BOOLEAN /\ level \in BOOLEAN
  /\ toggleAge \in 0 .. HeartbeatPeriod
  /\ tripSeen \in BOOLEAN /\ tripConfirmed \in BOOLEAN
  /\ tripAge \in 0 .. TripConfirm

WatchdogInit ==
  /\ emitting = FALSE /\ level = FALSE /\ toggleAge = 0
  /\ tripSeen = FALSE /\ tripAge = 0 /\ tripConfirmed = FALSE

\* After a restart: the members are fresh and begin() parks the line.
WatchdogBegin ==
  /\ emitting' = FALSE /\ level' = FALSE /\ toggleAge' = 0
  /\ tripSeen' = FALSE /\ tripAge' = 0 /\ tripConfirmed' = FALSE

\* Beats through the whole of a run.
PumpCommanded_AnyActive(st) == st \notin {"Idle", "Fault"}

PumpCommanded(st) == st \in {"StartPump", "Running"}

\* The line starts with an edge, toggles every period and is parked low.
Beat(st) ==
  \/ /\ PumpCommanded(st)
     /\ emitting' = TRUE
     /\ IF ~emitting \/ toggleAge >= HeartbeatPeriod
          THEN level' = ~level /\ toggleAge' = 0
          ELSE UNCHANGED <<level, toggleAge>>
  \/ /\ ~PumpCommanded(st)
     /\ emitting' = FALSE
     /\ toggleAge' = 0
     /\ level' = IF emitting THEN FALSE ELSE level

\* A released read leaves the clock running.
Qualify_NoRestart(asserted) ==
  /\ tripSeen' = (tripSeen \/ asserted)
  /\ tripAge' = IF tripSeen THEN tripAge ELSE 0
  /\ tripConfirmed' = (asserted /\ tripAge' >= TripConfirm)

\* Any released read restarts the clock.
Qualify(asserted) ==
  /\ tripSeen' = asserted
  /\ tripAge' = IF asserted /\ tripSeen THEN tripAge ELSE 0
  /\ tripConfirmed' = (asserted /\ tripAge' >= TripConfirm)

WatchdogTick(st, asserted) == Beat(st) /\ Qualify(asserted)

\* The verdict of a tick, read right after it.
AbortVerdict(st) == tripConfirmed /\ st \notin {"Idle", "Fault"}

WatchdogElapse ==
  /\ toggleAge' = IF emitting /\ toggleAge < HeartbeatPeriod THEN toggleAge + 1 ELSE toggleAge
  /\ tripAge' = IF tripSeen /\ tripAge < TripConfirm THEN tripAge + 1 ELSE tripAge
  /\ UNCHANGED <<emitting, level, tripSeen, tripConfirmed>>
=============================================================================
