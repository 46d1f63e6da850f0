----------------------------- MODULE FlowWatch -----------------------------
(***************************************************************************)
(* Those who read the flow meter: the rate over a sliding window, the      *)
(* detector of missing and of unexpected flow, and the monitor of valves   *)
(* that do not rest closed.  A pass of the loop calls them one after the   *)
(* other, the first two with the run state as the controller's tick left   *)
(* it, the last with the state after the verdicts.                         *)
(*                                                                         *)
(* Of the run controller its states are kept, with the times it stays in   *)
(* them left open; of the water, how many pulses a unit of time brings,    *)
(* which is anyone's too.  A pass takes no time and there is at least one  *)
(* in each unit.                                                           *)
(***************************************************************************)
EXTENDS DrainGate

CONSTANTS
  Zones,            \* zone indices
  NoZone,           \* no zone
  Surge,            \* the most pulses of a unit (a bound)
  Grace,            \* graceMs
  RateSamples,      \* RATE_SAMPLES
  MinRunning,       \* minRunningGPM, in pulses per unit
  IdleWindow,       \* idleWindowMs
  IdleFaultPulses,  \* idleFaultPulses
  RestWindow,       \* windowMs of the valve monitor
  MaxRestPulses     \* maxRestPulses

\* The seeds of the three Configs are so ordered.  TINKLE_SIM's are too but for
\* its grace of 3 s, in which the samples, 7 s apart at the ends, do not all fall.
ASSUME FlowAssumption ==
  /\ NoZone \notin Zones
  /\ {Surge, Grace, IdleWindow, RestWindow} \subseteq Nat \ {0}
  /\ {MinRunning, IdleFaultPulses, MaxRestPulses} \subseteq Nat
  /\ RateSamples \in Nat /\ RateSamples > 1 /\ RateSamples - 1 <= Grace
  /\ IdleWindow <= DrainCap /\ QuietTime <= RestWindow

VARIABLES
  state,            \* the run controller; Path is PREP_DIVERTER and OPEN_ZONE
  zone,             \* of the current, or the last, run
  fault,            \* the latched fault
  muted,            \* the flow override, in flash
  \* FlowMonitor: the time from the oldest sample to the newest, and how many
  \* pulses the newest is ahead of the one i before it, or of the oldest.
  span, window,
  \* FlowFaultDetector.
  prevState, runAge, draining, gate, idleAge, idlePulses,
  \* ValveRestMonitor.
  restPrev, phase, restZone, restGate, restAge, restPulses, flagged,
  \* No code keeps these.
  past,             \* past[n]: pulses of the last n units
  sincePump,        \* units since the pump was last on, since boot
  calm,             \* since then the meter has been quiet for a while
  running, dry, flood, leak, \* units a condition has lasted; see Witness
  closed            \* the zone closed last, if the pump has not run since

monitorVars == <<span, window>>
detectorVars == <<prevState, runAge, draining, gate, idleAge, idlePulses>>
restVars == <<restPrev, phase, restZone, restGate, restAge, restPulses, flagged>>
ghostVars == <<past, sincePump, calm, running, dry, flood, leak, closed>>
vars == <<state, zone, fault, muted, monitorVars, detectorVars, restVars, ghostVars>>

States == {"Idle", "Path", "StartPump", "Running", "StopPump", "CloseZone", "Settle", "Fault"}
Faults == {"None", "NoFlow", "UnexpectedFlow", "CalRange"}
Pumping == {"StartPump", "Running"}
Resting == {"Settle", "Idle"}

Longer(a, b) == IF a > b THEN a ELSE b

\* Long enough ago for any check.
LongAgo == DrainCap + Longer(IdleWindow, RestWindow)
History == Longer(Longer(QuietTime, RestWindow), RateSamples - 1)
FloodLimit == DrainCap + IdleWindow

\* Differences that end now, of a counter that is p ahead dt units later.
None(limit) == [n \in 0 .. limit |-> 0]
Later(diff, dt, p) ==
  IF dt = 0 THEN diff
  ELSE [n \in DOMAIN diff |-> IF n = 0 THEN 0 ELSE diff[n - 1] + p]

TypeOK ==
  /\ state \in States /\ prevState \in States /\ restPrev \in States
  /\ zone \in Zones /\ restZone \in Zones /\ closed \in Zones \cup {NoZone}
  /\ fault \in Faults /\ (state = "Fault" <=> fault # "None")
  /\ muted \in BOOLEAN /\ draining \in BOOLEAN /\ calm \in BOOLEAN
  /\ span \in 0 .. RateSamples - 1 /\ window \in [0 .. RateSamples - 1 -> Nat]
  /\ past \in [0 .. History -> Nat]
  /\ runAge \in 0 .. Grace
  /\ gate \in Gates /\ restGate \in Gates
  /\ idleAge \in 0 .. IdleWindow - 1 /\ idlePulses \in 0 .. IdleFaultPulses + 1
  /\ phase \in {"Idle", "Draining", "Watching"}
  /\ restAge \in 0 .. RestWindow - 1 /\ restPulses \in 0 .. MaxRestPulses
  /\ flagged \in SUBSET Zones
  /\ sincePump \in 0 .. LongAgo
  /\ running \in 0 .. Grace /\ dry \in 0 .. RateSamples - 1
  /\ flood \in 0 .. FloodLimit /\ leak \in -1 .. DrainCap

Init ==
  /\ state = "Idle" /\ zone \in Zones /\ fault = "None" /\ muted \in BOOLEAN
  /\ span = 0 /\ window = None(RateSamples - 1)
  /\ prevState = "Idle" /\ runAge = 0 /\ draining = FALSE /\ gate = Done(FALSE)
  /\ idleAge = 0 /\ idlePulses = 0
  /\ restPrev = "Idle" /\ phase = "Idle" /\ restZone = zone /\ restGate = Done(FALSE)
  /\ restAge = 0 /\ restPulses = 0 /\ flagged = {}
  /\ past = None(History) /\ sincePump = LongAgo /\ calm = TRUE
  /\ running = 0 /\ dry = 0 /\ flood = 0 /\ leak = -1 /\ closed = NoZone

-----------------------------------------------------------------------------
(* FlowMonitor. *)

\* tick, dt units and p pulses later, and resetAccumulation on the edge into
\* RUNNING: one sample per unit, the oldest forgotten.
Sampled(dt, p) ==
  /\ span' = UpTo(RateSamples - 1, span + dt)
  /\ window' = Later(window, dt, p)

resetAccumulation == span' = 0 /\ window' = None(RateSamples - 1)

Entering(s, prev, now) == now = s /\ prev # s

Sample(s, dt, p) ==
  IF Entering("Running", prevState, s) THEN resetAccumulation ELSE Sampled(dt, p)

\* rateGPM() <= minRunningGPM.
TooLittle_Strictly(w, units) == w[RateSamples - 1] < MinRunning * units

TooLittle(w, units) == w[RateSamples - 1] <= MinRunning * units

-----------------------------------------------------------------------------
(* FlowFaultDetector::update. *)

RunAge_Kept(s, dt) == UpTo(Grace, runAge + dt)

RunAge(s, dt) ==
  IF Entering("Running", prevState, s) THEN 0 ELSE UpTo(Grace, runAge + dt)

NoFlowNow(s, dt) == s = "Running" /\ ~muted /\ RunAge(s, dt) >= Grace /\ TooLittle(window', span')

\* At rest the check waits for the gate, which opens on the edge.
ArmingEdge_AfterRun(s) == s = "Idle" /\ prevState = "Settle"

ArmingEdge(s) == Entering("Idle", prevState, s)

WaitForDrain(s, dt, p) ==
  LET g == IF ArmingEdge(s) THEN open ELSE drained(gate, dt, p) IN
    /\ gate' = g
    /\ draining' = ~g.done
    /\ idleAge' = 0 /\ idlePulses' = 0

\* The tumbling window, which goes on whether muted or not.
WindowEnds(dt) == idleAge + dt >= IdleWindow

CountIdle(dt, p) ==
  /\ idleAge' = IF WindowEnds(dt) THEN 0 ELSE idleAge + dt
  /\ idlePulses' = IF WindowEnds(dt) THEN 0 ELSE UpTo(IdleFaultPulses + 1, idlePulses + p)
  /\ UNCHANGED <<draining, gate>>

Unarmed(s) == draining \/ ArmingEdge(s)

UnexpectedNow_Rebased(s, dt, p) ==
  /\ s = "Idle" /\ ~Unarmed(s) /\ ~muted
  /\ WindowEnds(dt) /\ p > IdleFaultPulses

UnexpectedNow(s, dt, p) ==
  /\ s = "Idle" /\ ~Unarmed(s) /\ ~muted
  /\ WindowEnds(dt) /\ idlePulses + p > IdleFaultPulses

\* Away from rest the check is not looked at; the edge begins it anew, so
\* what it holds until then is of no account.
DropIdle == draining' = FALSE /\ gate' = Done(FALSE) /\ idleAge' = 0 /\ idlePulses' = 0

DetectFlow(s, dt, p) ==
  /\ prevState' = s
  /\ runAge' = RunAge(s, dt)
  /\ CASE s = "Idle" /\ Unarmed(s)  -> WaitForDrain(s, dt, p)
       [] s = "Idle" /\ ~Unarmed(s) -> CountIdle(dt, p)
       [] s # "Idle"                -> DropIdle

Verdict(s, dt, p) ==
  CASE NoFlowNow(s, dt)        -> "NoFlow"
    [] UnexpectedNow(s, dt, p) -> "UnexpectedFlow"
    [] OTHER                   -> "None"

-----------------------------------------------------------------------------
(* ValveRestMonitor::tick. *)

\* An ended phase leaves nothing behind but the flags.
RestIdle ==
  /\ phase' = "Idle" /\ restGate' = Done(FALSE) /\ restAge' = 0 /\ restPulses' = 0
  /\ UNCHANGED restZone

Flag == RestIdle /\ flagged' = flagged \cup {restZone}

\* A zone has just been closed.
BeginRest_Undrained(z) ==
  /\ phase' = "Watching" /\ restZone' = z /\ restGate' = Done(FALSE)
  /\ restAge' = 0 /\ restPulses' = 0 /\ UNCHANGED flagged

BeginRest(z) ==
  /\ phase' = "Draining" /\ restZone' = z /\ restGate' = open
  /\ UNCHANGED <<restAge, restPulses, flagged>>

\* Still passing water when the cap is reached is the very failure sought.
DrainRest_CapIgnored(dt, p) ==
  LET g == drained(restGate, dt, p) IN
    /\ restGate' = g
    /\ phase' = IF g.done THEN "Watching" ELSE phase
    /\ UNCHANGED <<restZone, restAge, restPulses, flagged>>

DrainRest(dt, p) ==
  LET g == drained(restGate, dt, p) IN
    \/ /\ g.done /\ g.capped
       /\ Flag
    \/ /\ g.done /\ ~g.capped
       /\ phase' = "Watching" /\ restAge' = 0 /\ restPulses' = 0
       /\ restGate' = g
       /\ UNCHANGED <<restZone, flagged>>
    \/ /\ ~g.done
       /\ restGate' = g
       /\ UNCHANGED <<phase, restZone, restAge, restPulses, flagged>>

WatchRest(dt, p) ==
  \/ restPulses + p > MaxRestPulses /\ Flag
  \/ /\ restPulses + p <= MaxRestPulses /\ restAge + dt >= RestWindow
     /\ RestIdle /\ flagged' = flagged \ {restZone}
  \/ /\ restPulses + p <= MaxRestPulses /\ restAge + dt < RestWindow
     /\ restAge' = restAge + dt /\ restPulses' = restPulses + p
     /\ UNCHANGED <<phase, restZone, restGate, flagged>>

StillResting_NoFault(s) == s # "Fault"

StillResting(s) == s \in Resting

WatchValves(s, z, dt, p) ==
  /\ restPrev' = s
  /\ IF Entering("Settle", restPrev, s) THEN BeginRest(z)
     ELSE CASE phase = "Idle" -> RestIdle /\ UNCHANGED flagged
            [] phase # "Idle" /\ ~StillResting(s) -> RestIdle /\ UNCHANGED flagged
            [] phase = "Draining" /\ StillResting(s) -> DrainRest(dt, p)
            [] phase = "Watching" /\ StillResting(s) -> WatchRest(dt, p)

-----------------------------------------------------------------------------
(* A pass. *)

\* RunController::tick and the scheduler's: where the controller may be then.
After(s) ==
  CASE s = "Idle"      -> {"Idle", "Path"}
    [] s = "Path"      -> {"Path", "StartPump", "StopPump"}
    [] s = "StartPump" -> {"Running"}
    [] s = "Running"   -> {"Running", "StopPump"}
    [] s = "StopPump"  -> {"CloseZone"}
    [] s = "CloseZone" -> {"CloseZone", "Settle"}
    [] s = "Settle"    -> {"Settle", "Idle", "Path"}
    [] s = "Fault"     -> {"Fault"}

RunZones(s) == IF s = "Path" /\ state # "Path" THEN Zones ELSE {zone}

\* raiseFault, or the watchdog's abortRun.
Final(s, verdict) ==
  IF verdict # "None" THEN {"Fault"}
  ELSE {s} \cup (IF s \in {"Path"} \cup Pumping THEN {"StopPump"} ELSE {})

\* What a reader with a stopwatch would note of a pass that left the tick in s
\* and ended in t.
Witness(s, t, dt, p) ==
  LET wet == dt = 0 \/ p > QuietPulses IN
    /\ past' = Later(past, dt, p)
    /\ sincePump' = IF s \in Pumping THEN 0 ELSE UpTo(LongAgo, sincePump + dt)
    /\ calm' = /\ s \notin Pumping
               /\ \/ calm
                  \/ /\ sincePump' >= QuietTime
                     /\ past'[QuietTime] <= QuietPulses
    /\ running' = IF state = "Running" /\ s = "Running" THEN UpTo(Grace, running + dt) ELSE 0
    /\ dry' = IF state = "Running" /\ t = "Running" /\ ~muted /\ p <= MinRunning
                THEN UpTo(RateSamples - 1, dry + dt) ELSE 0
    /\ flood' = IF /\ {prevState, state, t} = {"Idle"} /\ ~muted
                   /\ wet /\ (dt = 0 \/ p * IdleWindow > IdleFaultPulses)
                  THEN UpTo(FloodLimit, flood + dt) ELSE 0
    /\ leak' = CASE Entering("Settle", restPrev, t) -> 0
                 [] ~Entering("Settle", restPrev, t) /\ t \in Resting /\ leak >= 0 /\ wet
                      -> UpTo(DrainCap, leak + dt)
                 [] OTHER -> -1
    /\ closed' = CASE s \in Pumping -> NoZone
                   [] s \notin Pumping /\ Entering("Settle", restPrev, t) -> zone'
                   [] OTHER -> closed

\* A pass dt units after the last one; the meter has counted p pulses since.
Pass(dt, p) ==
  \E s \in After(state) :
    LET verdict == Verdict(s, dt, p) IN
      /\ zone' \in RunZones(s)
      /\ Sample(s, dt, p)
      /\ DetectFlow(s, dt, p)
      /\ fault' = IF verdict # "None" THEN verdict ELSE fault
      /\ \E t \in Final(s, verdict) :
           /\ state' = t
           /\ WatchValves(t, zone', dt, p)
           /\ Witness(s, t, dt, p)
      /\ UNCHANGED muted

-----------------------------------------------------------------------------
(* Handlers, between two passes, and resets. *)

PostRun(z) ==
  /\ state = "Idle" /\ state' = "Path" /\ zone' = z
  /\ UNCHANGED <<fault, muted, monitorVars, detectorVars, restVars, ghostVars>>

PostStop ==
  /\ state \notin {"Idle", "Fault"} /\ state' = "StopPump"
  /\ UNCHANGED <<zone, fault, muted, monitorVars, detectorVars, restVars, ghostVars>>

\* A calibration finished out of range, of a run still on or of one long over.
PostCalFinish ==
  /\ state \notin {"Settle", "Fault"}
  /\ state' = "Fault" /\ fault' = "CalRange"
  /\ UNCHANGED <<zone, muted, monitorVars, detectorVars, restVars, ghostVars>>

\* The gate in front of a clear is in Records; here a clear may come any time.
PostFaultClear ==
  /\ state = "Fault" /\ state' = "Idle" /\ fault' = "None"
  /\ UNCHANGED <<zone, muted, monitorVars, detectorVars, restVars, ghostVars>>

\* POST /api/settings: the override, which clears a flow fault.
PostSettings(on) ==
  /\ muted' = on
  /\ IF on /\ fault \in {"NoFlow", "UnexpectedFlow"}
       THEN state' = "Idle" /\ fault' = "None"
       ELSE UNCHANGED <<state, fault>>
  /\ UNCHANGED <<zone, monitorVars, detectorVars, restVars, ghostVars>>

\* setup() after a reset anywhere: all but the override is new.
Reset ==
  /\ state' = "Idle" /\ fault' = "None"
  /\ resetAccumulation
  /\ prevState' = "Idle" /\ runAge' = 0 /\ draining' = FALSE /\ gate' = Done(FALSE)
  /\ idleAge' = 0 /\ idlePulses' = 0
  /\ restPrev' = "Idle" /\ phase' = "Idle" /\ restGate' = Done(FALSE)
  /\ restAge' = 0 /\ restPulses' = 0 /\ flagged' = {}
  /\ sincePump' = LongAgo /\ calm' = TRUE
  /\ running' = 0 /\ dry' = 0 /\ flood' = 0 /\ leak' = -1 /\ closed' = NoZone
  /\ UNCHANGED <<zone, muted, restZone, past>>

Next ==
  \/ Pass(0, 0)
  \/ \E p \in 0 .. Surge : Pass(1, p)
  \/ \E z \in Zones : PostRun(z)
  \/ PostStop \/ PostCalFinish \/ PostFaultClear
  \/ \E on \in BOOLEAN : PostSettings(on)
  \/ Reset

Spec == Init /\ [][Next]_vars

-----------------------------------------------------------------------------
(* Properties. *)

\* A run is accused of having no flow only when this very run has pumped for
\* the whole grace and the meter has stood still for the span of the rate.
NoFlowIsEarned ==
  [][fault' = "NoFlow" /\ fault # "NoFlow" =>
       /\ running' >= Grace
       /\ past'[RateSamples - 1] <= MinRunning * (RateSamples - 1)]_vars

\* A pump that runs dry is caught when its grace ends, and if the water stops
\* later, within the span of the rate.
DryRunIsCaught == state = "Running" => running < Grace \/ dry < RateSamples - 1

\* The tail of a run is never called unexpected: between the pump and such a
\* verdict lies a whole window, and before that a quiet span or the cap.
\* (A boot counts as long after any run: see the hazards.)
TailIsSpared ==
  [][fault' = "UnexpectedFlow" /\ fault # "UnexpectedFlow" =>
       sincePump' >= IdleWindow + (IF calm' THEN QuietTime ELSE DrainCap)]_vars

\* Flow through a controller at rest is caught within the cap and a window.
\* (FlowFaultDetector::Config: "worst-case detection latency is drainCapMs +
\* idleWindowMs".)
FloodIsCaught == flood < FloodLimit

\* A zone is flagged on its own water only: it was the last to be closed, no
\* pump has run since, and the meter counts.
FlagIsTheZonesOwn ==
  [][\A z \in Zones : z \in flagged' \ flagged =>
       z = closed' /\ past'[RestWindow] > 0]_vars

\* A flag goes down only after the zone has rested, past its drain, for a
\* whole window with no more than a dribble.
HealIsEarned ==
  [][\A z \in Zones : z \in flagged \ flagged' /\ ~Reset =>
       /\ z = closed' /\ sincePump' >= QuietTime + RestWindow
       /\ past'[RestWindow] <= MaxRestPulses]_vars

\* A valve that goes on passing water from its close to the cap is flagged by
\* then, before the other detector latches and takes the line over.
LeakIsFlagged == leak >= DrainCap => closed \in flagged
=============================================================================
