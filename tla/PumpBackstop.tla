----------------------------- MODULE PumpBackstop -----------------------------
(***************************************************************************)
(* The run controller with both halves of the safety handshake: the ESP32  *)
(* loop beats while it commands the pump, the ATtiny feeds the pump only   *)
(* while it hears the beat, and its trip line comes back into the loop.    *)
(*                                                                         *)
(* A pass of the loop holds the mutex from its Tick to its last call; the  *)
(* phase says how far it has come.  Handlers run while the phase is free.  *)
(* The ATtiny polls far more often than the line toggles: at least once    *)
(* after every call of the watchdog and once in every unit of time.  What  *)
(* it polls changes in that call alone, which is also the only one to read *)
(* the trip line, so its polls are placed between the passes.              *)
(***************************************************************************)
EXTENDS RunController, Watchdog, WatchdogTrip

CONSTANT
  Raised            \* the latching faults the detectors and handlers raise

ASSUME BackstopAssumption == Raised \subseteq Latching

\* A zone travels for longer than the ATtiny waits for an edge, and a live loop
\* beats faster than that: 10 s, 2 s and a quarter of one.  The fence in main.cpp
\* counts the travel twice, for a run that follows one of the queue; after a
\* fault and a clear only the opening of the next run keeps the line quiet.
ASSUME TimingAssumption ==
  /\ HbTimeout <= ZoneTravel
  /\ HeartbeatPeriod # 0
  /\ HeartbeatPeriod + MaxLag <= HbTimeout
  /\ HardMax <= RunCap

VARIABLES
  phase,            \* "free", or the call the pass makes next
  hung,             \* the loop has stalled and only a restart revives it
  stall,            \* how long it has, up to HbTimeout + 1
  polled,           \* the ATtiny has polled since the last beat or unit of time
  tinyRestarted,    \* the ATtiny has restarted since the pump was last off
  transient,        \* time a transient may yet last on the trip line; 0 if there is none
  heard             \* what the passes have read the trip line asserted by since they
                    \* last read it released: nothing, a transient, or a lockout too

noiseVars == <<transient, heard>>
envVars == <<phase, hung, stall, polled, tinyRestarted, noiseVars>>
backstopVars == <<vars, watchdogVars, tripVars, envVars>>

BackstopTypeOK ==
  /\ TypeOK
  /\ WatchdogTypeOK
  /\ TripTypeOK
  /\ phase \in {"free", "watchdog", "abort"}
  /\ hung \in BOOLEAN
  /\ stall \in 0 .. HbTimeout + 1
  /\ polled \in BOOLEAN
  /\ tinyRestarted \in BOOLEAN
  /\ transient \in 0 .. TripConfirm
  /\ heard \in {"nothing", "transient", "lockout"}

BackstopInit ==
  /\ Init /\ WatchdogInit /\ TripInit
  /\ phase = "free" /\ hung = FALSE /\ stall = 0
  /\ polled = FALSE /\ tinyRestarted = FALSE
  /\ transient = 0 /\ heard = "nothing"

-----------------------------------------------------------------------------
(* The ESP32                                                               *)

Handler ==
  /\ phase = "free"
  /\ \/ \E req \in Requests, early \in BOOLEAN : RequestRun(req, early)
     \/ Stop
     \/ \E code \in Raised : RaiseFault(code)
     \/ ClearFault
     \/ \E sec \in SwMaxValues : SetSwMaxRuntimeSec(sec)
     \/ PostOtaBegin
     \/ OtaAbort
  /\ UNCHANGED <<watchdogVars, tripVars, envVars>>

BeginPass ==
  /\ phase = "free" /\ ~hung /\ polled
  /\ Tick
  /\ phase' = "watchdog"
  /\ UNCHANGED <<watchdogVars, tripVars, hung, stall, polled, tinyRestarted, noiseVars>>

\* The scheduler and the detectors, between the controller and the watchdog.
InPass ==
  /\ phase = "watchdog" /\ ~hung
  /\ \/ \E req \in Requests : RequestRun(req, FALSE)
     \/ \E code \in Raised : RaiseFault(code)
  /\ UNCHANGED <<watchdogVars, tripVars, envVars>>

\* The transients there may be on the line as it is read, by the time they may
\* yet last: none, the one there was, or a new one.  Each lasts for less than
\* TripConfirm, in which many passes may read it; the next may come as soon as a
\* pass has read the line released, or at once on a lockout.
Transients == {0, transient} \cup IF heard = "transient" THEN {} ELSE {TripConfirm}

\* The state is read afresh; the gate gets the confirmed level.  noise: the
\* transient that pulls the trip line low, as the ATtiny does in its lockout.
CallWatchdog(noise) ==
  LET wdTrip == tripped \/ noise # 0 IN
    /\ phase = "watchdog" /\ ~hung
    /\ noise \in Transients
    /\ transient' = noise
    /\ WatchdogTick(state, wdTrip)
    /\ SetWatchdogTripped(tripConfirmed')
    /\ heard' = IF ~wdTrip THEN "nothing"
                ELSE IF tripped \/ heard = "lockout" THEN "lockout" ELSE "transient"
    /\ phase' = "abort"
    /\ polled' = FALSE
    /\ UNCHANGED <<tripVars, hung, stall, tinyRestarted>>

EndPass ==
  /\ phase = "abort" /\ ~hung
  /\ IF AbortVerdict(state) /\ Abortable THEN AbortRun("Watchdog") ELSE UNCHANGED vars
  /\ phase' = "free"
  /\ UNCHANGED <<watchdogVars, tripVars, hung, stall, polled, tinyRestarted, noiseVars>>

Hang ==
  /\ ~hung
  /\ hung' = TRUE
  /\ UNCHANGED <<vars, watchdogVars, tripVars, phase, stall, polled, tinyRestarted, noiseVars>>

Restart ==
  /\ Boot
  /\ WatchdogBegin
  /\ phase' = "free" /\ hung' = FALSE /\ stall' = 0 /\ polled' = FALSE
  /\ heard' = "nothing"
  /\ UNCHANGED <<tripVars, tinyRestarted, transient>>

-----------------------------------------------------------------------------
(* The ATtiny, the lines and time                                          *)

Poll ==
  /\ phase = "free" \/ hung
  /\ TripTick(level)
  /\ polled' = TRUE
  /\ UNCHANGED <<vars, watchdogVars, phase, hung, stall, tinyRestarted, noiseVars>>

TinyRestart ==
  /\ phase = "free" \/ hung
  /\ TripBegin(level)
  /\ tinyRestarted' = TRUE
  /\ UNCHANGED <<vars, watchdogVars, phase, hung, stall, polled, noiseVars>>

TransientElapse == transient' = IF transient # 0 THEN transient - 1 ELSE 0

Clock ==
  /\ phase = "free" /\ ~hung /\ polled
  /\ Elapse
  /\ WatchdogElapse
  /\ TripElapse
  /\ TransientElapse
  /\ polled' = FALSE
  /\ tinyRestarted' = (tinyRestarted /\ pumpOn)
  /\ UNCHANGED <<phase, hung, stall, heard>>

\* While the loop stalls only the ATtiny measures time.
StalledClock ==
  /\ hung /\ polled
  /\ TripElapse
  /\ TransientElapse
  /\ stall' = IF stall <= HbTimeout THEN stall + 1 ELSE stall
  /\ polled' = FALSE
  /\ UNCHANGED <<vars, watchdogVars, phase, hung, tinyRestarted, heard>>

BackstopNext ==
  \/ Handler \/ BeginPass \/ InPass
  \/ \E noise \in 0 .. TripConfirm : CallWatchdog(noise)
  \/ EndPass \/ Hang \/ Restart
  \/ Poll \/ TinyRestart \/ Clock \/ StalledClock

\* Both processors run for ever, and time goes on whatever is called: no number
\* of passes or restarts fits into one unit of it.
BackstopFairness ==
  /\ WF_backstopVars(BeginPass)
  /\ WF_backstopVars(\E noise \in 0 .. TripConfirm : CallWatchdog(noise))
  /\ WF_backstopVars(EndPass)
  /\ WF_backstopVars(Poll)
  /\ SF_backstopVars(Clock \/ StalledClock)

BackstopSpec == BackstopInit /\ [][BackstopNext]_backstopVars /\ BackstopFairness

-----------------------------------------------------------------------------
(* What must hold                                                          *)

\* Section 9 and #101: the ceiling is a ceiling of the run.  While the relay
\* feeds a commanded pump, the ATtiny has measured this run and nothing of the
\* runs before it: neither a queue nor a fault, a clear and a new run chain
\* into one armed window.  Unless the ATtiny itself restarted meanwhile, it
\* has measured all of it, so no run is fed for longer than HardMax.
EachRunGetsItsCeiling ==
  armed /\ pumpOn /\ ~hung /\ phase = "free" /\ polled =>
    /\ armAge <= wet
    /\ tinyRestarted \/ wet = armAge

\* Section 9: a stalled loop loses the pump within HB_TIMEOUT, wherever in the
\* pass it stalls and whatever the pump's own FET still says.
StalledLoopLosesPump == stall > HbTimeout => ~armed

\* DEC-023: transients on the trip line, each shorter than TripConfirm, neither
\* end a run nor hold one at the gate, however many passes read each of them and
\* however closely they follow: by the time a trip is confirmed, a pass has read
\* the ATtiny's lockout, and every one since has read the line asserted.
ConfirmedTripIsLockout == tripConfirmed \/ wdTripped => heard = "lockout"

\* The header of watchdog_trip.h: a lockout ends; the aborted run's silence
\* releases it, and so does a dead loop.
LockoutReleases == tripped ~> ~tripped

=============================================================================
