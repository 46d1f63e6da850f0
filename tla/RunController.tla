---------------------------- MODULE RunController ----------------------------
(***************************************************************************)
(* The run state machine, the only commander of the valve driver.  The     *)
(* main loop calls Tick once per pass; between two passes the HTTP         *)
(* handlers, and inside a pass the scheduler and the detectors, call the   *)
(* other actions.  Each call runs under the web server's mutex, so it is   *)
(* one atomic step.  Time passes in Elapse, one unit at a time.            *)
(*                                                                         *)
(* The pass reads its clock BEFORE it takes the mutex, while a handler     *)
(* reads its own after taking it: a handler that wins the mutex in between *)
(* can stamp a time the coming pass has not reached.  The elapsed time is  *)
(* an unsigned difference, which then reads as almost 2^32 ms for that one *)
(* pass.  The variable ahead says that stateStartMs_ is such a stamp.      *)
(***************************************************************************)
EXTENDS ValveDriver, Sequences

CONSTANTS
  Requests,         \* the run requests callers may make, refused ones included
  MaxQueue,         \* MAX_QUEUE
  SettleDwell,      \* settleMs
  WdWait,           \* wdWaitMs
  Second,           \* time units per second
  MaxDwell,         \* the largest value of the log's 16-bit duration field
  SwMaxDefault,     \* swMaxRuntimeSec at boot, in seconds; 0 = no cap
  SwMaxValues,      \* the values POST /api/settings may set it to
  RunlogDepth,      \* entries of the history ring
  MaxLag,           \* the longest time between two passes of the loop
  RunCap            \* where the model stops counting how long a pump runs

Faults == {"None", "NoFlow", "UnexpectedFlow", "Watchdog", "CalRange", "Clock",
           "ValveRest", "MissedCycle"}
Outcomes == {"Completed", "Stopped", "Faulted"}
States == {"Idle", "PrepDiverter", "OpenZone", "StartPump", "Running",
           "StopPump", "CloseZone", "Settle", "Fault"}

RunRequest == [zone : Nat, dur : Nat, fert : BOOLEAN]
RunEntry   == [zone : Nat, dur : Nat, fert : BOOLEAN,
               result : Outcomes, fault : Faults]
NoRequest  == [zone |-> 0, dur |-> 0, fert |-> FALSE]

ASSUME RunAssumption ==
  /\ Requests \subseteq RunRequest
  /\ MaxQueue \in Nat \ {0}
  /\ SettleDwell \in Nat
  /\ WdWait \in Nat
  /\ Second \in Nat \ {0}
  /\ MaxDwell \in Nat
  /\ SwMaxDefault \in Nat
  /\ SwMaxValues \subseteq Nat
  /\ RunlogDepth \in Nat \ {0}
  /\ MaxLag \in Nat \ {0}
  /\ RunCap \in Nat

\* The log's field holds the longest run that may be asked for, and the lag of
\* the pass that ends it: only what is said of the logged dwells needs that.
DurationsFit ==
  \A req \in Requests : req.dur * Second + MaxLag <= (MaxDwell + 1) * Second

VARIABLES
  state,            \* state_
  fault,            \* fault_, the latched fault
  current,          \* current_, the run in progress (or the last one)
  queue,            \* queue_, qHead_, qCount_: the waiting requests, oldest first
  stateAge,         \* time since stateStartMs_, where the code reads it
  ahead,            \* stateStartMs_ lies ahead of the coming pass's time
  runAge,           \* time since runStartMs_ while Running, 0 otherwise
  actualRun,        \* actualRunSec_, the frozen Running dwell in seconds
  stopping,         \* stopping_
  pendingFault,     \* pendingRunFault_
  wdTripped,        \* watchdogTripped_
  otaActive,        \* otaActive_
  swMax,            \* cfg_.swMaxRuntimeSec
  rows,             \* the entries of the history ring pushed since this run began
  wet,              \* how long the pump has been on since this run began
  lag               \* time since the loop's last pass

runVars == <<state, fault, current, queue, stateAge, ahead, runAge, actualRun,
             stopping, pendingFault, wdTripped, otaActive, swMax, rows, wet, lag>>
vars == <<runVars, valveVars>>

AgeCap == IF WdWait > SettleDwell THEN WdWait ELSE SettleDwell

TypeOK ==
  /\ ValveTypeOK
  /\ state \in States
  /\ fault \in Faults
  /\ current \in RunRequest
  /\ queue \in Seq(RunRequest)
  /\ Len(queue) <= MaxQueue
  /\ stateAge \in 0 .. AgeCap
  /\ ahead \in BOOLEAN
  /\ runAge \in Nat
  /\ actualRun \in 0 .. MaxDwell
  /\ stopping \in BOOLEAN
  /\ pendingFault \in Faults
  /\ wdTripped \in BOOLEAN
  /\ otaActive \in BOOLEAN
  /\ swMax \in Nat
  /\ rows \in Seq(RunEntry)
  /\ Len(rows) <= RunlogDepth
  /\ wet \in Nat
  /\ lag \in 0 .. MaxLag

-----------------------------------------------------------------------------
\* min(duration, software ceiling); a ceiling of zero is no ceiling.
EffectiveDuration ==
  Second * (IF swMax > 0 /\ current.dur > swMax THEN swMax ELSE current.dur)

\* freezeActualDuration: what actualRun becomes when the state is left.
FrozenDwell_Requested == IF state = "Running" THEN current.dur ELSE actualRun

FrozenDwell ==
  IF state = "Running"
    THEN LET sec == runAge \div Second IN IF sec > MaxDwell THEN MaxDwell ELSE sec
    ELSE actualRun

\* logRun pushes the run with the dwell frozen so far; a full ring loses its
\* oldest entry.
LogRun(result, code, dwell) ==
  LET row == [zone |-> current.zone, dur |-> dwell, fert |-> current.fert,
              result |-> result, fault |-> code]
  IN  rows' = IF Len(rows) < RunlogDepth THEN Append(rows, row)
                                         ELSE Append(Tail(rows), row)

\* The part of enter() common to every state.
Enter(s) ==
  /\ actualRun' = FrozenDwell
  /\ state' = s
  /\ stateAge' = 0
  /\ runAge' = 0

\* requestRun and startNext begin a run alike: the metrics are reset, then
\* enter(PrepDiverter) drives the legs if they are not where this run wants
\* them.  early: the caller's stamp lies ahead of the coming pass.
StartRun(req, early) ==
  /\ current' = req
  /\ stopping' = FALSE
  /\ pendingFault' = "None"
  /\ rows' = <<>>
  /\ wet' = 0
  /\ actualRun' = 0
  /\ state' = "PrepDiverter"
  /\ stateAge' = 0
  /\ runAge' = 0
  /\ IF diverterFert # req.fert
       THEN SetDiverter(req.fert, IF early THEN 0 ELSE DiverterTravel)
       ELSE UNCHANGED valveVars
  /\ UNCHANGED <<fault, wdTripped, otaActive, swMax>>

Init ==
  /\ ValveInit
  /\ state = "Idle"
  /\ fault = "None"
  /\ current = NoRequest
  /\ queue = <<>>
  /\ stateAge = 0
  /\ ahead = FALSE
  /\ runAge = 0
  /\ actualRun = 0
  /\ stopping = FALSE
  /\ pendingFault = "None"
  /\ wdTripped = FALSE
  /\ otaActive = FALSE
  /\ swMax = SwMaxDefault
  /\ rows = <<>>
  /\ wet = 0
  /\ lag = 0

-----------------------------------------------------------------------------
(* Calls made by the handlers, the scheduler and the detectors             *)

Acceptable_IgnoresOta(req) ==
  /\ state # "Fault"
  /\ req.zone \in Zones
  /\ req.dur > 0

Acceptable(req) ==
  /\ state # "Fault"
  /\ ~otaActive
  /\ req.zone \in Zones
  /\ req.dur > 0

QueueHasRoom == Len(queue) < MaxQueue

\* early: the request comes from a handler that overtook the pass.
RequestRun(req, early) ==
  /\ Acceptable(req)
  /\ \/ /\ state = "Idle"
        /\ StartRun(req, early)
        /\ ahead' = early
        /\ UNCHANGED <<queue, lag>>
     \/ /\ state # "Idle"
        /\ ~early
        /\ QueueHasRoom
        /\ queue' = Append(queue, req)
        /\ UNCHANGED <<state, fault, current, stateAge, ahead, runAge, actualRun,
                       stopping, pendingFault, wdTripped, otaActive, swMax, rows,
                       wet, lag, valveVars>>

Stop ==
  /\ state \notin {"Idle", "Fault"}
  /\ queue' = <<>>
  /\ stopping' = TRUE
  /\ pendingFault' = "None"
  /\ Enter("StopPump")
  /\ PumpOff
  /\ UNCHANGED <<fault, current, ahead, wdTripped, otaActive, swMax, rows, wet, lag>>

\* ValveRest is log-only and Watchdog goes through AbortRun: both are refused.
Latching == Faults \ {"None", "ValveRest", "Watchdog"}

\* A run in its dwell is in the ring already, and at rest there is no run.
NothingToLog_Closing == state \in {"CloseZone", "Settle", "Idle"}

NothingToLog == state \in {"Settle", "Idle"}

RaiseFault(code) ==
  /\ code \in Latching
  /\ state # "Fault"
  /\ SafeState
  /\ fault' = code
  /\ queue' = <<>>
  /\ IF NothingToLog THEN UNCHANGED rows ELSE LogRun("Faulted", code, FrozenDwell)
  /\ Enter("Fault")
  /\ UNCHANGED <<current, ahead, stopping, pendingFault, wdTripped, otaActive,
                 swMax, wet, lag>>

Abortable ==
  /\ state \notin {"Idle", "Fault", "Settle", "PrepDiverter"}
  /\ pendingFault = "None"

\* This and the next one are called inside a pass only, after its Tick.
AbortRun(code) ==
  /\ ~ahead
  /\ code # "None"
  /\ Abortable
  /\ pendingFault' = code
  /\ IF state \in {"StopPump", "CloseZone"}
       THEN UNCHANGED <<state, stateAge, runAge, actualRun, valveVars>>
       ELSE Enter("StopPump") /\ PumpOff
  /\ UNCHANGED <<fault, current, queue, ahead, stopping, wdTripped, otaActive,
                 swMax, rows, wet, lag>>

ClearFault ==
  /\ state = "Fault"
  /\ fault' = "None"
  /\ state' = "Idle"
  /\ UNCHANGED <<current, queue, stateAge, ahead, runAge, actualRun, stopping,
                 pendingFault, wdTripped, otaActive, swMax, rows, wet, lag, valveVars>>

SetWatchdogTripped(tripped) ==
  /\ ~ahead
  /\ wdTripped' = tripped
  /\ UNCHANGED <<state, fault, current, queue, stateAge, ahead, runAge, actualRun,
                 stopping, pendingFault, otaActive, swMax, rows, wet, lag, valveVars>>

SetSwMaxRuntimeSec(sec) ==
  /\ swMax' = sec
  /\ UNCHANGED <<state, fault, current, queue, stateAge, ahead, runAge, actualRun,
                 stopping, pendingFault, wdTripped, otaActive, rows, wet, lag, valveVars>>

\* The API's gate in front of setOtaActive(true), and the inhibit's release.
PostOtaBegin ==
  /\ ~otaActive
  /\ state \in {"Idle", "Fault"}
  /\ queue = <<>>
  /\ otaActive' = TRUE
  /\ UNCHANGED <<state, fault, current, queue, stateAge, ahead, runAge, actualRun,
                 stopping, pendingFault, wdTripped, swMax, rows, wet, lag, valveVars>>

OtaAbort ==
  /\ otaActive
  /\ otaActive' = FALSE
  /\ UNCHANGED <<state, fault, current, queue, stateAge, ahead, runAge, actualRun,
                 stopping, pendingFault, wdTripped, swMax, rows, wet, lag, valveVars>>

-----------------------------------------------------------------------------
(* One pass of the loop: at most one transition                            *)

Pass == lag' = 0 /\ ahead' = FALSE

Wait == UNCHANGED <<state, fault, current, queue, stateAge, runAge, actualRun,
                    stopping, pendingFault, wdTripped, otaActive, swMax, rows,
                    wet, valveVars>>

\* A transition that only changes the state and commands the driver.
Advance(s, Command) ==
  /\ Enter(s)
  /\ Command
  /\ UNCHANGED <<fault, current, queue, stopping, pendingFault, wdTripped,
                 otaActive, swMax, rows, wet>>

TickRests == state \in {"Idle", "Fault"} /\ Wait

HoldIsOver_NoLimit == FALSE

HoldIsOver == ahead \/ stateAge >= WdWait

\* Hold while the trip line is confirmed; past WdWait skip this run alone.
TickPrepDiverter ==
  /\ state = "PrepDiverter"
  /\ IF diverterBusy THEN Wait
     ELSE IF ~wdTripped THEN Advance("OpenZone", OpenZone(current.zone))
     ELSE IF ~HoldIsOver THEN Wait
     ELSE /\ pendingFault' = "Watchdog"
          /\ Enter("StopPump")
          /\ PumpOff
          /\ UNCHANGED <<fault, current, queue, stopping, wdTripped, otaActive,
                         swMax, rows, wet>>

TickOpenZone_NoWait == state = "OpenZone" /\ Advance("StartPump", PumpOn)

TickOpenZone ==
  /\ state = "OpenZone"
  /\ IF zoneBusy(current.zone) THEN Wait ELSE Advance("StartPump", PumpOn)

TickStartPump == state = "StartPump" /\ Advance("Running", UNCHANGED valveVars)

TickRunning_Exactly ==
  /\ state = "Running"
  /\ IF runAge # EffectiveDuration THEN Wait ELSE Advance("StopPump", PumpOff)

TickRunning ==
  /\ state = "Running"
  /\ IF runAge < EffectiveDuration THEN Wait ELSE Advance("StopPump", PumpOff)

TickStopPump == state = "StopPump" /\ Advance("CloseZone", CloseZone(current.zone))

Outcome_StopFirst == IF stopping THEN "Stopped"
                     ELSE IF pendingFault # "None" THEN "Faulted" ELSE "Completed"

Outcome == IF pendingFault # "None" THEN "Faulted"
           ELSE IF stopping THEN "Stopped" ELSE "Completed"

LegsGoHome_Completed == queue = <<>> /\ diverterFert /\ ~stopping

LegsGoHome == queue = <<>> /\ diverterFert

\* Entering Settle logs the run and sends the legs home unless a run waits.
TickCloseZone ==
  /\ state = "CloseZone"
  /\ IF zoneBusy(current.zone) THEN Wait
     ELSE /\ Enter("Settle")
          /\ LogRun(Outcome, pendingFault, actualRun)
          /\ pendingFault' = "None"
          /\ IF LegsGoHome
               THEN SetDiverter(FALSE, DiverterTravel)
               ELSE UNCHANGED valveVars
          /\ UNCHANGED <<fault, current, queue, stopping, wdTripped, otaActive,
                         swMax, wet>>

TickSettle ==
  /\ state = "Settle"
  /\ IF stateAge < SettleDwell THEN Wait
     ELSE IF queue = <<>>
       THEN /\ state' = "Idle"
            /\ stateAge' = 0
            /\ UNCHANGED <<fault, current, queue, runAge, actualRun, stopping,
                           pendingFault, wdTripped, otaActive, swMax, rows, wet,
                           valveVars>>
       ELSE /\ queue' = Tail(queue)
            /\ StartRun(Head(queue), FALSE)

Tick ==
  /\ Pass
  /\ \/ TickRests
     \/ TickPrepDiverter
     \/ TickOpenZone
     \/ TickStartPump
     \/ TickRunning
     \/ TickStopPump
     \/ TickCloseZone
     \/ TickSettle

-----------------------------------------------------------------------------
(* The environment                                                         *)

\* stateAge counts only where the code reads stateStartMs_, and up to AgeCap;
\* runAge and wet up to RunCap, past every duration a request may ask for.
TimePasses ==
  /\ stateAge' = IF state \in {"PrepDiverter", "Settle"} /\ stateAge < AgeCap
                   THEN stateAge + 1 ELSE stateAge
  /\ runAge' = IF state = "Running" /\ runAge < RunCap THEN runAge + 1 ELSE runAge
  /\ wet' = IF pumpOn /\ wet < RunCap THEN wet + 1 ELSE wet
  /\ ValveElapse
  /\ UNCHANGED <<state, fault, current, queue, ahead, actualRun, stopping,
                 pendingFault, wdTripped, otaActive, swMax, rows>>

Elapse == lag < MaxLag /\ lag' = lag + 1 /\ TimePasses

\* Power loss, crash, nightly or OTA restart: everything but the settings and
\* the ring is in RAM, and begin() forces the safe state.
Boot ==
  /\ SafeState
  /\ state' = "Idle"
  /\ fault' = "None"
  /\ current' = NoRequest
  /\ queue' = <<>>
  /\ stateAge' = 0
  /\ ahead' = FALSE
  /\ runAge' = 0
  /\ actualRun' = 0
  /\ stopping' = FALSE
  /\ pendingFault' = "None"
  /\ wdTripped' = FALSE
  /\ otaActive' = FALSE
  /\ rows' = <<>>
  /\ wet' = 0
  /\ lag' = 0
  /\ UNCHANGED swMax

Next ==
  \/ Elapse
  \/ Tick
  \/ \E req \in Requests, early \in BOOLEAN : RequestRun(req, early)
  \/ Stop
  \/ \E code \in Faults : RaiseFault(code)
  \/ AbortRun("Watchdog")
  \/ ClearFault
  \/ \E tripped \in BOOLEAN : SetWatchdogTripped(tripped)
  \/ \E sec \in SwMaxValues : SetSwMaxRuntimeSec(sec)
  \/ PostOtaBegin
  \/ OtaAbort
  \/ Boot

\* loop() is called for ever and the clock runs; nothing else is owed a turn.
Fairness == WF_vars(Elapse) /\ WF_vars(Tick)

Spec == Init /\ [][Next]_vars /\ Fairness

-----------------------------------------------------------------------------
(* What must hold                                                          *)

\* Section 4, step 2: the pump never loads against a closed or moving path.
\* While the relay is on, the zone of the run is the only one energized, its
\* valve and every other zone's have ended their travel, and the legs stand
\* where the run wants them, whatever faults, clears and restarts came before
\* and although safeState drops the timers of valves that still move.
PumpBehindSettledValves ==
  pumpOn => /\ energized = {current.zone}
            /\ diverterFert = current.fert
            /\ \A z \in Zones : zoneMoving[z] = 0
            /\ legsMoving = 0

\* Sections 5 and 14, DEC-021: at rest nothing is energized and nothing waits;
\* the legs are plain again after every way a run can end.
RestIsDry ==
  state \in {"Idle", "Fault"} =>
    ~pumpOn /\ energized = {} /\ ~diverterFert /\ queue = <<>>

\* #126: from the moment an image starts to stream until it fails or the box
\* restarts, no run is active or waiting.
NothingRunsDuringOta ==
  otaActive => state \in {"Idle", "Fault"} /\ queue = <<>>

\* DEC-018: a run that is over has left a row in the ring, and a run that has
\* not closed its valve has left none yet unless it was logged before and
\* stopped again in its dwell.
EveryRunIsLogged ==
  /\ state \in {"Idle", "Settle", "Fault"} /\ current # NoRequest => rows # <<>>
  /\ state \in {"PrepDiverter", "OpenZone", "StartPump", "Running"} => rows = <<>>

\* #160: the logged duration is the time the pump really ran, up to the one
\* pass between the relay closing and the Running stamp; 0 if it never ran.
DwellMatchesPump ==
  \A i \in DOMAIN rows :
    /\ rows[i].dur * Second <= wet
    /\ wet < rows[i].dur * Second + Second + MaxLag

\* Header of abortRun, DEC-018: each run is logged once.
OneRowPerRun == Len(rows) <= 1

\* Water never stays on: whatever the callers do, a pump that is on is off
\* later.
WaterStops == pumpOn ~> ~pumpOn

\* A run that waits at the head of the queue begins, unless the queue is
\* dropped by a stop, a fault or a restart: neither a trip line stuck asserted
\* nor an abort of the run before it holds it back for ever.
HeadIsServed ==
  \A req \in Requests :
    queue # <<>> /\ Head(queue) = req
      ~> queue = <<>> \/ (state = "PrepDiverter" /\ current = req)

-----------------------------------------------------------------------------
(* The controller serves jobs as RunJobs promises                          *)

JobPhase ==
  IF pumpOn THEN "wet"
  ELSE IF state \in {"Idle", "Fault"} THEN "rest"
  ELSE IF state \in {"PrepDiverter", "OpenZone"} THEN "opening"
  ELSE "closing"

JobInService == IF JobPhase = "rest" THEN NoRequest ELSE current

\* Once logged, the verdict is the one in the ring.
JobVerdict ==
  IF JobPhase = "rest" THEN "None"
  ELSE IF state = "Settle" THEN rows[Len(rows)].result
  ELSE IF pendingFault # "None" THEN "Faulted"
  ELSE IF stopping THEN "Stopped" ELSE "Completed"

RJ == INSTANCE RunJobs WITH
  Jobs <- {req \in Requests : req.zone \in Zones /\ req.dur > 0},
  NoJob <- NoRequest,
  MaxWaiting <- MaxQueue,
  phase <- JobPhase,
  job <- JobInService,
  waiting <- queue,
  verdict <- JobVerdict

\* Jobs are served one at a time in the order accepted, watered at most once,
\* and recorded with the verdict of what ended them; only a stop, a fault or a
\* restart drops the jobs that wait, never an abort or a skip.
ServesJobs == RJ!JobSpec
=============================================================================
