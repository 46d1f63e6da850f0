------------------------- MODULE PumpBackstop_proofs -------------------------
(***************************************************************************)
(* Proofs about the run controller and, in the second half, about the      *)
(* controller together with the safety handshake: for any number of zones, *)
(* any travel windows with legs no slower than a zone valve, any queue     *)
(* length, any requests and any lag of the loop, any heartbeat period,     *)
(* timeout, ceiling and confirmation time.                                 *)
(*                                                                         *)
(* PumpBehindSettledValves is not inductive: that the valves have ended    *)
(* their travel when the relay closes follows from what the driver's timer *)
(* says about them while the zone opens, which is what OpeningCovers       *)
(* states.  The other parts say where in a run the outputs stand where.    *)
(*                                                                         *)
(* Every step of the composition is a step of the run controller or leaves *)
(* it alone, so what is shown of the controller holds there.               *)
(* StalledLoopLosesPump is not inductive: StallInv adds that the line is   *)
(* frozen while the loop is stalled, and that the time since the last edge *)
(* has grown with the stall.                                               *)
(*                                                                         *)
(* DwellInv keeps for each state what the dwell under way was earned by.   *)
(* CeilingInv rests on the gap between two runs: the travel takes longer   *)
(* than the heartbeat's timeout, so the ATtiny has disarmed before the     *)
(* next run's pump turns.                                                  *)
(***************************************************************************)
EXTENDS PumpBackstop, TLAPS

-----------------------------------------------------------------------------
(* The run controller                                                      *)

Served == {"OpenZone", "StartPump", "Running"}

\* The relay is closed in two states only.
PumpFollowsState == pumpOn <=> state \in {"StartPump", "Running"}

\* The FETs: the run's zone alone from OpenZone on, none before and after.
ZonesFollowState ==
  /\ state \in Served => energized = {current.zone}
  /\ state = "StopPump" => energized \subseteq {current.zone}
  /\ state \notin Served \cup {"StopPump"} => energized = {}

\* The legs: the run's until the run is over, plain once nothing waits.
LegsFollowState ==
  /\ state \in Served \cup {"PrepDiverter"} => diverterFert = current.fert
  /\ state = "Settle" /\ queue = <<>> => ~diverterFert
  /\ state \in {"Idle", "Fault"} => ~diverterFert /\ queue = <<>>

\* Only wired zones are ever served or wait.
ZonesAreWired ==
  /\ state \notin {"Idle", "Fault"} => current.zone \in Zones
  /\ \A i \in 1 .. Len(queue) : queue[i].zone \in Zones

\* While the zone opens, no valve and no leg outlasts the zone's own timer.
OpeningCovers ==
  state = "OpenZone" =>
    /\ \A z \in Zones : zoneMoving[z] <= zoneTimer[current.zone]
    /\ legsMoving <= zoneTimer[current.zone]

\* Once it is open everything has settled.
ServingIsSettled ==
  state \in {"StartPump", "Running"} =>
    /\ \A z \in Zones : zoneMoving[z] = 0
    /\ legsMoving = 0

PathInv ==
  /\ PumpFollowsState
  /\ ZonesFollowState
  /\ LegsFollowState
  /\ ZonesAreWired
  /\ OpeningCovers
  /\ ServingIsSettled

-----------------------------------------------------------------------------
(* Types                                                                   *)

LEMMA AgeCapType == AgeCap \in Nat
  BY RunAssumption DEF AgeCap

\* What freezeActualDuration leaves fits the log's 16-bit field.
LEMMA FrozenDwellType == ASSUME TypeOK PROVE FrozenDwell \in 0 .. MaxDwell
<1>1. runAge \div Second \in Nat
  BY RunAssumption DEF TypeOK
<1>. QED
  BY <1>1, RunAssumption DEF TypeOK, FrozenDwell

\* A push keeps the ring a ring, and never leaves it empty.
LEMMA LogRunType ==
  ASSUME TypeOK, NEW result \in Outcomes, NEW code \in Faults,
         NEW dwell \in 0 .. MaxDwell, LogRun(result, code, dwell)
  PROVE  /\ rows' \in Seq(RunEntry)
         /\ Len(rows') <= RunlogDepth
         /\ rows' # <<>>
<1>. DEFINE row == [zone |-> current.zone, dur |-> dwell, fert |-> current.fert,
                    result |-> result, fault |-> code]
<1>1. row \in RunEntry
  BY RunAssumption DEF TypeOK, RunRequest, RunEntry
<1>2. rows' = IF Len(rows) < RunlogDepth THEN Append(rows, row)
                                         ELSE Append(Tail(rows), row)
  BY DEF LogRun
<1>3. rows \in Seq(RunEntry) /\ Len(rows) <= RunlogDepth /\ RunlogDepth \in Nat \ {0}
  BY RunAssumption DEF TypeOK
<1>. HIDE DEF row
<1>4. CASE Len(rows) < RunlogDepth
  BY <1>1, <1>2, <1>3, <1>4
<1>5. CASE ~(Len(rows) < RunlogDepth)
  <2>1. Tail(rows) \in Seq(RunEntry) /\ Len(Tail(rows)) = Len(rows) - 1
    BY <1>3, <1>5
  <2>. QED
    BY <1>1, <1>2, <1>3, <1>5, <2>1
<1>. QED
  BY <1>4, <1>5

\* Each command of the driver keeps the driver's types.
LEMMA CommandTypes ==
  ASSUME ValveTypeOK,
         \/ \E z \in Zones : OpenZone(z) \/ CloseZone(z)
         \/ \E fert \in BOOLEAN, left \in {0, DiverterTravel} : SetDiverter(fert, left)
         \/ PumpOn \/ PumpOff \/ SafeState \/ ValveElapse \/ UNCHANGED valveVars
  PROVE  ValveTypeOK'
<1>. USE TravelAssumption DEF ValveTypeOK, plantVars, ZonesMove, LegsMove
<1>1. CASE \E z \in Zones : OpenZone(z) \/ CloseZone(z)
  BY <1>1 DEF OpenZone, CloseZone
<1>2. CASE \E fert \in BOOLEAN, left \in {0, DiverterTravel} : SetDiverter(fert, left)
  BY <1>2 DEF SetDiverter
<1>3. CASE PumpOn \/ PumpOff
  BY <1>3 DEF PumpOn, PumpOff
<1>4. CASE SafeState
  <2>1. \A z \in Zones : zoneTimer'[z] = 0 /\ 0 \in 0 .. ZoneTravel
    BY <1>4 DEF SafeState
  <2>2. zoneTimer' \in [Zones -> 0 .. ZoneTravel] /\ divTimer' \in 0 .. DiverterTravel
    BY <1>4, <2>1 DEF SafeState
  <2>3. /\ zoneMoving' \in [Zones -> 0 .. ZoneTravel]
        /\ legsMoving' \in 0 .. DiverterTravel
    BY <1>4 DEF SafeState
  <2>. QED
    BY <1>4, <2>2, <2>3 DEF SafeState
<1>5. CASE ValveElapse
  BY <1>5 DEF ValveElapse, Less
<1>6. CASE UNCHANGED valveVars
  BY <1>6 DEF valveVars
<1>. QED
  BY <1>1, <1>2, <1>3, <1>4, <1>5, <1>6

\* Beginning a run keeps every type but the queue's, which its callers touch.
LEMMA StartRunType ==
  ASSUME TypeOK, NEW req \in RunRequest, NEW early \in BOOLEAN,
         StartRun(req, early), ahead' \in BOOLEAN, lag' \in 0 .. MaxLag,
         queue' \in Seq(RunRequest), Len(queue') <= MaxQueue
  PROVE  TypeOK'
<1>1. ValveTypeOK'
  BY CommandTypes DEF TypeOK, StartRun, RunRequest
<1>2. /\ state' \in States /\ fault' \in Faults /\ pendingFault' \in Faults
      /\ stopping' \in BOOLEAN /\ wdTripped' \in BOOLEAN /\ otaActive' \in BOOLEAN
  BY DEF TypeOK, StartRun, States, Faults
<1>3. /\ current' \in RunRequest
      /\ stateAge' \in 0 .. AgeCap /\ runAge' \in Nat /\ actualRun' \in 0 .. MaxDwell
      /\ swMax' \in Nat /\ wet' \in Nat
  BY RunAssumption, AgeCapType DEF TypeOK, StartRun
<1>4. rows' \in Seq(RunEntry) /\ Len(rows') <= RunlogDepth
  BY RunAssumption DEF StartRun
<1>. QED
  BY <1>1, <1>2, <1>3, <1>4 DEF TypeOK

\* So does a pass, whatever state it finds.
LEMMA TickType == ASSUME TypeOK, ZonesAreWired, Tick PROVE TypeOK'
<1>1. FrozenDwell \in 0 .. MaxDwell
  BY FrozenDwellType
<1>2. lag' \in 0 .. MaxLag /\ ahead' \in BOOLEAN
  <2>1. lag' = 0 /\ ahead' = FALSE
    BY Zenon DEF Tick, Pass
  <2>2. lag' \in 0 .. MaxLag
    BY <2>1, RunAssumption
  <2>. QED
    BY <2>1, <2>2
<1>3. CASE Wait
  <2>1. ValveTypeOK'
    BY <1>3, CommandTypes DEF Wait, TypeOK
  <2>. QED
    BY <1>2, <1>3, <2>1 DEF Wait, TypeOK
<1>4. ASSUME NEW s \in States, Enter(s), ValveTypeOK',
             pendingFault' \in Faults, rows' \in Seq(RunEntry), Len(rows') <= RunlogDepth,
             UNCHANGED <<fault, current, queue, stopping, wdTripped, otaActive, swMax, wet>>
      PROVE  TypeOK'
  <2>1. state' \in States /\ stateAge' \in 0 .. AgeCap /\ runAge' \in Nat
        /\ actualRun' \in 0 .. MaxDwell
    BY <1>1, <1>4, AgeCapType DEF Enter
  <2>. QED
    BY <1>2, <1>4, <2>1 DEF TypeOK
<1>5. CASE TickPrepDiverter /\ ~Wait
  <2>1. CASE Advance("OpenZone", OpenZone(current.zone))
    <3>1. ValveTypeOK'
      BY <1>5, <2>1, CommandTypes DEF TickPrepDiverter, Advance, TypeOK, ZonesAreWired
    <3>. QED
      BY <1>4, <2>1, <3>1 DEF Advance, States, TypeOK
  <2>2. CASE pendingFault' = "Watchdog" /\ Enter("StopPump") /\ PumpOff
             /\ UNCHANGED <<fault, current, queue, stopping, wdTripped, otaActive,
                            swMax, rows, wet>>
    <3>1. ValveTypeOK'
      BY <2>2, CommandTypes DEF TypeOK
    <3>. QED
      BY <1>4, <2>2, <3>1 DEF TypeOK, States, Faults
  <2>. QED
    BY <1>5, <2>1, <2>2 DEF TickPrepDiverter
<1>6. CASE (TickOpenZone \/ TickStartPump \/ TickRunning \/ TickStopPump) /\ ~Wait
  <2>1. ValveTypeOK'
    BY <1>6, CommandTypes
       DEF TickOpenZone, TickStartPump, TickRunning, TickStopPump, Advance, TypeOK,
           ZonesAreWired
  <2>2. /\ \E s \in States : Enter(s)
        /\ UNCHANGED <<fault, current, queue, stopping, pendingFault, wdTripped,
                       otaActive, swMax, rows, wet>>
    BY <1>6 DEF TickOpenZone, TickStartPump, TickRunning, TickStopPump, Advance, States
  <2>. QED
    BY <1>4, <2>1, <2>2 DEF TypeOK
<1>7. CASE TickCloseZone /\ ~Wait
  <2>1. ValveTypeOK'
    BY <1>7, CommandTypes DEF TickCloseZone, TypeOK
  <2>2. rows' \in Seq(RunEntry) /\ Len(rows') <= RunlogDepth
    BY <1>7, LogRunType DEF TickCloseZone, Outcome, TypeOK, Outcomes, Faults
  <2>. QED
    BY <1>4, <1>7, <2>1, <2>2 DEF TickCloseZone, States, Faults
<1>8. CASE TickSettle /\ ~Wait
  <2>1. CASE queue = <<>>
    <3>1. /\ state' = "Idle" /\ stateAge' = 0
          /\ UNCHANGED <<fault, current, queue, runAge, actualRun, stopping,
                         pendingFault, wdTripped, otaActive, swMax, rows, wet, valveVars>>
      BY <1>8, <2>1 DEF TickSettle
    <3>2. ValveTypeOK'
      BY <3>1, CommandTypes DEF TypeOK
    <3>. QED
      BY <1>2, <3>1, <3>2, AgeCapType DEF TypeOK, States
  <2>2. CASE queue # <<>>
    <3>1. queue' = Tail(queue) /\ StartRun(Head(queue), FALSE)
      BY <1>8, <2>2 DEF TickSettle
    <3>2. /\ Head(queue) \in RunRequest
          /\ Tail(queue) \in Seq(RunRequest) /\ Len(Tail(queue)) <= MaxQueue
      BY <2>2, RunAssumption DEF TypeOK
    <3>. QED
      BY <1>2, <3>1, <3>2, StartRunType
  <2>. QED
    BY <2>1, <2>2
<1>. QED
  BY <1>3, <1>5, <1>6, <1>7, <1>8 DEF Tick, TickRests

LEMMA InitType == Init => TypeOK
<1>. SUFFICES ASSUME Init PROVE TypeOK
  OBVIOUS
<1>1. ValveTypeOK
  <2>1. 0 \in 0 .. ZoneTravel /\ 0 \in 0 .. DiverterTravel
    BY TravelAssumption
  <2>2. \A S : 0 \in S => [z \in Zones |-> 0] \in [Zones -> S]
    BY Zenon
  <2>3. /\ zoneTimer \in [Zones -> 0 .. ZoneTravel] /\ divTimer \in 0 .. DiverterTravel
        /\ zoneMoving \in [Zones -> 0 .. ZoneTravel] /\ legsMoving \in 0 .. DiverterTravel
    BY <2>1, <2>2, Zenon DEF Init, ValveInit
  <2>. QED
    BY <2>3 DEF Init, ValveInit, ValveTypeOK
<1>2. /\ current \in RunRequest
      /\ queue \in Seq(RunRequest) /\ Len(queue) <= MaxQueue
      /\ rows \in Seq(RunEntry) /\ Len(rows) <= RunlogDepth
  BY RunAssumption DEF Init, NoRequest, RunRequest
<1>3. swMax \in Nat /\ actualRun \in 0 .. MaxDwell /\ lag \in 0 .. MaxLag
  BY RunAssumption DEF Init
<1>4. stateAge \in 0 .. AgeCap /\ runAge \in Nat /\ wet \in Nat
  BY AgeCapType DEF Init
<1>. QED
  BY <1>1, <1>2, <1>3, <1>4 DEF Init, TypeOK, States, Faults

\* No step of the system leaves the types, provided the zone served is wired.
LEMMA NextType == ASSUME TypeOK, ZonesAreWired, [Next]_vars PROVE TypeOK'
<1>1. FrozenDwell \in 0 .. MaxDwell
  BY FrozenDwellType
<1>2. CASE Elapse
  <2>1. ValveTypeOK'
    BY <1>2, CommandTypes DEF Elapse, TimePasses, TypeOK
  <2>2. stateAge' \in 0 .. AgeCap
    BY <1>2, AgeCapType DEF Elapse, TimePasses, TypeOK
  <2>3. lag' \in 0 .. MaxLag
    BY <1>2, RunAssumption DEF Elapse, TimePasses, TypeOK
  <2>. QED
    BY <1>2, <2>1, <2>2, <2>3 DEF Elapse, TimePasses, TypeOK
<1>3. CASE Tick
  BY <1>3, TickType
<1>4. ASSUME NEW req \in Requests, NEW early \in BOOLEAN, RequestRun(req, early)
      PROVE  TypeOK'
  <2>1. req \in RunRequest
    BY RunAssumption
  <2>2. CASE state = "Idle"
    <3>1. StartRun(req, early) /\ ahead' = early /\ UNCHANGED <<queue, lag>>
      BY <1>4, <2>2 DEF RequestRun
    <3>. QED
      BY <2>1, <3>1, StartRunType DEF TypeOK
  <2>3. CASE state # "Idle"
    <3>1. /\ Len(queue) < MaxQueue /\ queue' = Append(queue, req)
          /\ UNCHANGED <<state, fault, current, stateAge, ahead, runAge, actualRun,
                         stopping, pendingFault, wdTripped, otaActive, swMax, rows,
                         wet, lag, valveVars>>
      BY <1>4, <2>3 DEF RequestRun, QueueHasRoom
    <3>2. queue' \in Seq(RunRequest) /\ Len(queue') <= MaxQueue
      BY <2>1, <3>1, RunAssumption DEF TypeOK
    <3>3. ValveTypeOK'
      BY <3>1, CommandTypes DEF TypeOK
    <3>. QED
      BY <3>1, <3>2, <3>3 DEF TypeOK
  <2>. QED
    BY <2>2, <2>3
<1>5. CASE Stop
  <2>1. ValveTypeOK'
    BY <1>5, CommandTypes DEF Stop, TypeOK
  <2>2. queue' \in Seq(RunRequest) /\ Len(queue') <= MaxQueue
    BY <1>5, RunAssumption DEF Stop
  <2>3. stateAge' \in 0 .. AgeCap /\ runAge' \in Nat /\ actualRun' \in 0 .. MaxDwell
    BY <1>1, <1>5, AgeCapType DEF Stop, Enter
  <2>. QED
    BY <1>5, <2>1, <2>2, <2>3 DEF Stop, Enter, TypeOK, States, Faults
<1>6. ASSUME NEW code \in Faults, RaiseFault(code) PROVE TypeOK'
  <2>1. ValveTypeOK'
    BY <1>6, CommandTypes DEF RaiseFault, TypeOK
  <2>2. queue' \in Seq(RunRequest) /\ Len(queue') <= MaxQueue
    BY <1>6, RunAssumption DEF RaiseFault
  <2>3. stateAge' \in 0 .. AgeCap /\ runAge' \in Nat /\ actualRun' \in 0 .. MaxDwell
    BY <1>1, <1>6, AgeCapType DEF RaiseFault, NothingToLog, Enter
  <2>4. rows' \in Seq(RunEntry) /\ Len(rows') <= RunlogDepth
    BY <1>1, <1>6, LogRunType DEF RaiseFault, NothingToLog, TypeOK, Outcomes
  <2>. QED
    BY <1>6, <2>1, <2>2, <2>3, <2>4 DEF RaiseFault, NothingToLog, Enter, TypeOK, States
<1>7. CASE AbortRun("Watchdog")
  <2>1. ValveTypeOK'
    BY <1>7, CommandTypes DEF AbortRun, Abortable, TypeOK
  <2>2. stateAge' \in 0 .. AgeCap /\ runAge' \in Nat /\ actualRun' \in 0 .. MaxDwell
    BY <1>1, <1>7, AgeCapType DEF AbortRun, Abortable, Enter, TypeOK
  <2>. QED
    BY <1>7, <2>1, <2>2 DEF AbortRun, Abortable, Enter, TypeOK, States, Faults
<1>8. CASE ClearFault \/ (\E confirmed \in BOOLEAN : SetWatchdogTripped(confirmed))
           \/ (\E sec \in SwMaxValues : SetSwMaxRuntimeSec(sec))
           \/ PostOtaBegin \/ OtaAbort \/ UNCHANGED vars
  <2>1. ValveTypeOK'
    BY <1>8, CommandTypes DEF ClearFault, SetWatchdogTripped, SetSwMaxRuntimeSec,
                              PostOtaBegin, OtaAbort, vars, TypeOK
  <2>2. UNCHANGED <<current, queue, stateAge, ahead, runAge, actualRun, stopping,
                    pendingFault, rows, wet, lag>>
    BY <1>8 DEF ClearFault, SetWatchdogTripped, SetSwMaxRuntimeSec, PostOtaBegin,
                OtaAbort, vars, runVars
  <2>3. state' \in States /\ fault' \in Faults
    BY <1>8 DEF ClearFault, SetWatchdogTripped, SetSwMaxRuntimeSec, PostOtaBegin,
                OtaAbort, vars, runVars, TypeOK, States, Faults
  <2>4. swMax' \in Nat
    BY <1>8, RunAssumption
       DEF ClearFault, SetWatchdogTripped, SetSwMaxRuntimeSec, PostOtaBegin,
           OtaAbort, vars, runVars, TypeOK
  <2>5. wdTripped' \in BOOLEAN /\ otaActive' \in BOOLEAN
    BY <1>8 DEF ClearFault, SetWatchdogTripped, SetSwMaxRuntimeSec, PostOtaBegin,
                OtaAbort, vars, runVars, TypeOK
  <2>. QED
    BY <2>1, <2>2, <2>3, <2>4, <2>5 DEF TypeOK
<1>9. CASE Boot
  <2>1. ValveTypeOK'
    BY <1>9, CommandTypes DEF Boot, TypeOK
  <2>2. /\ current' \in RunRequest
        /\ queue' \in Seq(RunRequest) /\ Len(queue') <= MaxQueue
        /\ rows' \in Seq(RunEntry) /\ Len(rows') <= RunlogDepth
    BY <1>9, RunAssumption DEF Boot, NoRequest, RunRequest
  <2>3. actualRun' \in 0 .. MaxDwell /\ lag' \in 0 .. MaxLag
    BY <1>9, RunAssumption DEF Boot
  <2>4. stateAge' \in 0 .. AgeCap /\ runAge' \in Nat /\ wet' \in Nat
    BY <1>9, AgeCapType DEF Boot
  <2>. QED
    BY <1>9, <2>1, <2>2, <2>3, <2>4 DEF Boot, TypeOK, States, Faults
<1>. QED
  BY <1>2, <1>3, <1>4, <1>5, <1>6, <1>7, <1>8, <1>9 DEF Next

-----------------------------------------------------------------------------
(* Where the outputs stand                                                 *)

\* A wired run that begins with nothing energized stands as PrepDiverter says.
LEMMA StartRunPath ==
  ASSUME ~pumpOn, energized = {}, NEW req \in RunRequest, req.zone \in Zones,
         NEW early \in BOOLEAN, StartRun(req, early), diverterFert \in BOOLEAN,
         \A i \in 1 .. Len(queue') : queue'[i].zone \in Zones
  PROVE  PathInv'
<1>1. pumpOn' = FALSE /\ energized' = {} /\ diverterFert' = req.fert
  BY DEF StartRun, SetDiverter, valveVars, RunRequest
<1>2. state' = "PrepDiverter" /\ current' = req
  BY DEF StartRun
<1>. QED
  BY <1>1, <1>2 DEF PathInv, PumpFollowsState, ZonesFollowState, LegsFollowState,
                    ZonesAreWired, OpeningCovers, ServingIsSettled, Served

\* The parts that concern the path being opened say nothing of other states.
LEMMA OutsideServed ==
  ASSUME state' \notin Served
  PROVE  OpeningCovers' /\ ServingIsSettled'
BY DEF OpeningCovers, ServingIsSettled, Served

\* The state may change between the two rests, the outputs and the queue not.
LEMMA RestPath ==
  ASSUME PathInv, UNCHANGED <<queue, current, pumpOn, energized, diverterFert>>,
         state \in {"Idle", "Fault"}, state' \in {"Idle", "Fault"}
  PROVE  PathInv'
<1>. USE DEF PathInv, Served
<1>1. PumpFollowsState' /\ ZonesFollowState' /\ LegsFollowState' /\ ZonesAreWired'
  BY DEF PumpFollowsState, ZonesFollowState, LegsFollowState, ZonesAreWired, Zones
<1>. QED
  BY <1>1, OutsideServed

\* The safe state is the path of a controller at rest with nothing waiting.
LEMMA SafePath ==
  ASSUME SafeState, queue' = <<>>, state' \in {"Idle", "Fault"}
  PROVE  PathInv'
<1>1. pumpOn' = FALSE /\ energized' = {} /\ diverterFert' = FALSE
  BY DEF SafeState
<1>2. ZonesAreWired'
  BY DEF ZonesAreWired
<1>. QED
  BY <1>1, <1>2 DEF PathInv, PumpFollowsState, ZonesFollowState, LegsFollowState,
                    OpeningCovers, ServingIsSettled, Served

\* Switching the relay off on the way to StopPump, from any step of a run.
LEMMA UnwindPath ==
  ASSUME PathInv, state \notin {"Idle", "Fault"},
         state' = "StopPump", PumpOff, current' = current,
         queue' = queue \/ queue' = <<>>
  PROVE  PathInv'
<1>1. pumpOn' = FALSE /\ energized' = energized /\ diverterFert' = diverterFert
  BY DEF PumpOff
<1>2. energized \subseteq {current.zone}
  BY DEF PathInv, ZonesFollowState
<1>3. ZonesAreWired'
  BY DEF PathInv, ZonesAreWired, Zones
<1>4. PumpFollowsState' /\ ZonesFollowState' /\ LegsFollowState'
  BY <1>1, <1>2 DEF PumpFollowsState, ZonesFollowState, LegsFollowState, Served
<1>. QED
  BY <1>3, <1>4, OutsideServed DEF PathInv, Served

\* One pass, one step per state it may find.
LEMMA TickPath == ASSUME TypeOK, PathInv, Tick PROVE PathInv'
<1>. USE DEF PathInv, Served
<1>1. CASE Wait
  <2>1. UNCHANGED <<state, current, queue, pumpOn, energized, diverterFert, zoneTimer,
                    zoneMoving, legsMoving>>
    BY <1>1 DEF Wait, valveVars
  <2>. QED
    BY <2>1 DEF PumpFollowsState, ZonesFollowState, LegsFollowState, ZonesAreWired,
                OpeningCovers, ServingIsSettled, Zones
<1>2. CASE TickPrepDiverter /\ ~Wait
  <2>1. CASE Advance("OpenZone", OpenZone(current.zone))
    <3>1. /\ state' = "OpenZone" /\ current' = current /\ queue' = queue
          /\ pumpOn' = pumpOn /\ diverterFert' = diverterFert
          /\ energized' = {current.zone}
      BY <1>2, <2>1 DEF TickPrepDiverter, Advance, Enter, OpenZone, ZonesFollowState
    <3>2. current.zone \in Zones
      BY <1>2 DEF TickPrepDiverter, ZonesAreWired
    <3>3. zoneTimer'[current.zone] = ZoneTravel
      BY <2>1, <3>2 DEF Advance, OpenZone, TypeOK, ValveTypeOK
    <3>4. \A z \in Zones : zoneMoving'[z] <= ZoneTravel
      BY <2>1, TravelAssumption DEF Advance, OpenZone, ZonesMove, TypeOK, ValveTypeOK
    <3>5. legsMoving' <= ZoneTravel
      BY <2>1, TravelAssumption DEF Advance, OpenZone, TypeOK, ValveTypeOK
    <3>6. OpeningCovers'
      BY <3>1, <3>3, <3>4, <3>5 DEF OpeningCovers, Zones
    <3>7. PumpFollowsState' /\ ZonesFollowState' /\ LegsFollowState' /\ ServingIsSettled'
      BY <1>2, <3>1 DEF TickPrepDiverter, PumpFollowsState, ZonesFollowState,
                        LegsFollowState, ServingIsSettled
    <3>8. ZonesAreWired'
      BY <3>1, <3>2 DEF ZonesAreWired, Zones
    <3>. QED
      BY <3>6, <3>7, <3>8
  <2>2. CASE Enter("StopPump") /\ PumpOff /\ UNCHANGED <<current, queue>>
    BY <1>2, <2>2, UnwindPath DEF TickPrepDiverter, Enter
  <2>. QED
    BY <1>2, <2>1, <2>2 DEF TickPrepDiverter
<1>3. CASE TickOpenZone /\ ~Wait
  <2>1. /\ state = "OpenZone" /\ state' = "StartPump" /\ pumpOn' = TRUE
        /\ ~zoneBusy(current.zone)
        /\ UNCHANGED <<current, queue, energized, diverterFert, zoneMoving, legsMoving>>
    BY <1>3 DEF TickOpenZone, Advance, Enter, PumpOn, plantVars
  <2>2. zoneTimer[current.zone] = 0
    BY <2>1 DEF zoneBusy, ZonesAreWired, TypeOK, ValveTypeOK
  <2>3. ServingIsSettled'
    BY <2>1, <2>2 DEF OpeningCovers, ServingIsSettled, TypeOK, ValveTypeOK, Zones
  <2>4. PumpFollowsState' /\ ZonesFollowState' /\ LegsFollowState' /\ OpeningCovers'
    BY <2>1 DEF PumpFollowsState, ZonesFollowState, LegsFollowState, OpeningCovers
  <2>5. ZonesAreWired'
    BY <2>1 DEF ZonesAreWired, Zones
  <2>. QED
    BY <2>3, <2>4, <2>5
<1>4. CASE TickStartPump
  <2>1. /\ state = "StartPump" /\ state' = "Running"
        /\ UNCHANGED <<current, queue, pumpOn, energized, diverterFert, zoneMoving,
                       legsMoving>>
    BY <1>4 DEF TickStartPump, Advance, Enter, valveVars
  <2>. QED
    BY <2>1 DEF PumpFollowsState, ZonesFollowState, LegsFollowState, ZonesAreWired,
                OpeningCovers, ServingIsSettled, Zones
<1>5. CASE TickRunning /\ ~Wait
  BY <1>5, UnwindPath DEF TickRunning, Advance, Enter
<1>6. CASE TickStopPump
  <2>1. /\ state = "StopPump" /\ state' = "CloseZone"
        /\ energized' = energized \ {current.zone}
        /\ UNCHANGED <<current, queue, pumpOn, diverterFert>>
    BY <1>6 DEF TickStopPump, Advance, Enter, CloseZone
  <2>2. PumpFollowsState' /\ ZonesFollowState' /\ LegsFollowState'
    BY <2>1 DEF PumpFollowsState, ZonesFollowState, LegsFollowState
  <2>3. ZonesAreWired'
    BY <2>1 DEF ZonesAreWired, Zones
  <2>. QED
    BY <2>1, <2>2, <2>3, OutsideServed
<1>7. CASE TickCloseZone /\ ~Wait
  <2>1. /\ state = "CloseZone" /\ state' = "Settle"
        /\ UNCHANGED <<current, queue>>
    BY <1>7 DEF TickCloseZone, Enter
  <2>2. UNCHANGED <<pumpOn, energized>>
    BY <1>7 DEF TickCloseZone, SetDiverter, valveVars
  <2>3. queue = <<>> => ~diverterFert'
    BY <1>7 DEF TickCloseZone, LegsGoHome, SetDiverter, valveVars
  <2>4. PumpFollowsState' /\ ZonesFollowState' /\ LegsFollowState'
    BY <2>1, <2>2, <2>3 DEF PumpFollowsState, ZonesFollowState, LegsFollowState
  <2>5. ZonesAreWired'
    BY <2>1 DEF ZonesAreWired, Zones
  <2>. QED
    BY <2>1, <2>4, <2>5, OutsideServed
<1>8. CASE TickSettle /\ ~Wait
  <2>1. ~pumpOn /\ energized = {} /\ state = "Settle"
    BY <1>8 DEF TickSettle, PumpFollowsState, ZonesFollowState
  <2>2. CASE queue = <<>>
    <3>1. /\ state' = "Idle"
          /\ UNCHANGED <<current, queue, pumpOn, energized, diverterFert>>
      BY <1>8, <2>2 DEF TickSettle, valveVars
    <3>2. PumpFollowsState' /\ ZonesFollowState' /\ LegsFollowState'
      BY <2>1, <2>2, <3>1 DEF PumpFollowsState, ZonesFollowState, LegsFollowState
    <3>3. ZonesAreWired'
      BY <3>1 DEF ZonesAreWired, Zones
    <3>. QED
      BY <3>1, <3>2, <3>3, OutsideServed
  <2>3. CASE queue # <<>>
    <3>1. queue' = Tail(queue) /\ StartRun(Head(queue), FALSE)
      BY <1>8, <2>3 DEF TickSettle
    <3>2. Head(queue) \in RunRequest /\ Head(queue).zone \in Zones
      BY <2>3 DEF TypeOK, ZonesAreWired
    <3>3. \A i \in 1 .. Len(Tail(queue)) : Tail(queue)[i].zone \in Zones
      <4>1. /\ Len(Tail(queue)) = Len(queue) - 1
            /\ \A i \in 1 .. Len(Tail(queue)) : Tail(queue)[i] = queue[i + 1]
        BY <2>3 DEF TypeOK
      <4>. QED
        BY <2>3, <4>1 DEF TypeOK, ZonesAreWired
    <3>. QED
      BY <2>1, <3>1, <3>2, <3>3, StartRunPath DEF TypeOK, ValveTypeOK
  <2>. QED
    BY <2>2, <2>3
<1>. QED
  BY <1>1, <1>2, <1>3, <1>4, <1>5, <1>6, <1>7, <1>8 DEF Tick, TickRests

LEMMA NextPath == ASSUME TypeOK, PathInv, [Next]_vars PROVE PathInv'
<1>1. CASE Elapse
  <2>1. /\ UNCHANGED <<state, current, queue, pumpOn, energized, diverterFert>>
        /\ zoneTimer' = [z \in Zones |-> Less(zoneTimer[z])]
        /\ zoneMoving' = [z \in Zones |-> Less(zoneMoving[z])]
        /\ legsMoving' = Less(legsMoving)
    BY <1>1 DEF Elapse, TimePasses, ValveElapse
  <2>2. \A a, b \in Nat : a <= b => Less(a) <= Less(b)
    BY DEF Less
  <2>3. /\ \A z \in Zones : zoneTimer[z] \in Nat /\ zoneMoving[z] \in Nat
        /\ legsMoving \in Nat
    BY TravelAssumption DEF TypeOK, ValveTypeOK
  <2>4. OpeningCovers'
    <3>. SUFFICES ASSUME state = "OpenZone"
                  PROVE  /\ \A z \in Zones : zoneMoving'[z] <= zoneTimer'[current.zone]
                         /\ legsMoving' <= zoneTimer'[current.zone]
      BY <2>1 DEF OpeningCovers, Zones
    <3>1. current.zone \in Zones
      BY DEF PathInv, ZonesAreWired
    <3>. QED
      BY <2>1, <2>2, <2>3, <3>1 DEF PathInv, OpeningCovers
  <2>5. ServingIsSettled'
    BY <2>1 DEF PathInv, ServingIsSettled, Less, Zones
  <2>6. PumpFollowsState' /\ ZonesFollowState' /\ LegsFollowState'
    BY <2>1 DEF PathInv, PumpFollowsState, ZonesFollowState, LegsFollowState
  <2>7. ZonesAreWired'
    BY <2>1 DEF PathInv, ZonesAreWired, Zones
  <2>. QED
    BY <2>4, <2>5, <2>6, <2>7 DEF PathInv
<1>2. CASE Tick
  BY <1>2, TickPath
<1>3. ASSUME NEW req \in Requests, NEW early \in BOOLEAN, RequestRun(req, early)
      PROVE  PathInv'
  <2>1. req \in RunRequest /\ req.zone \in Zones
    BY <1>3, RunAssumption DEF RequestRun, Acceptable
  <2>2. CASE state = "Idle"
    <3>1. StartRun(req, early) /\ queue' = queue
      BY <1>3, <2>2 DEF RequestRun
    <3>2. ~pumpOn /\ energized = {}
      BY <2>2 DEF PathInv, PumpFollowsState, ZonesFollowState, Served
    <3>3. \A i \in 1 .. Len(queue') : queue'[i].zone \in Zones
      BY <3>1 DEF PathInv, ZonesAreWired
    <3>. QED
      BY <2>1, <3>1, <3>2, <3>3, StartRunPath DEF TypeOK, ValveTypeOK
  <2>3. CASE state # "Idle"
    <3>1. /\ queue' = Append(queue, req) /\ state # "Fault"
          /\ UNCHANGED <<state, current, pumpOn, energized, diverterFert, zoneTimer,
                         zoneMoving, legsMoving>>
      BY <1>3, <2>3 DEF RequestRun, Acceptable, valveVars
    <3>2. queue' # <<>> /\ \A i \in 1 .. Len(queue') : queue'[i].zone \in Zones
      BY <2>1, <3>1 DEF TypeOK, PathInv, ZonesAreWired
    <3>3. PumpFollowsState' /\ ZonesFollowState' /\ LegsFollowState'
      BY <2>3, <3>1, <3>2 DEF PathInv, PumpFollowsState, ZonesFollowState,
                              LegsFollowState
    <3>4. ZonesAreWired'
      BY <3>1, <3>2 DEF PathInv, ZonesAreWired, Zones
    <3>5. OpeningCovers' /\ ServingIsSettled'
      BY <3>1 DEF PathInv, OpeningCovers, ServingIsSettled, Zones
    <3>. QED
      BY <3>3, <3>4, <3>5 DEF PathInv
  <2>. QED
    BY <2>2, <2>3
<1>4. CASE Stop
  BY <1>4, UnwindPath DEF Stop, Enter
<1>5. ASSUME NEW code \in Faults, RaiseFault(code) PROVE PathInv'
  BY <1>5, SafePath DEF RaiseFault, NothingToLog, Enter
<1>6. CASE AbortRun("Watchdog")
  <2>1. CASE UNCHANGED <<state, valveVars>>
    <3>1. UNCHANGED <<state, current, queue, pumpOn, energized, diverterFert, zoneTimer,
                      zoneMoving, legsMoving>>
      BY <1>6, <2>1 DEF AbortRun, Abortable, valveVars
    <3>. QED
      BY <3>1 DEF PathInv, PumpFollowsState, ZonesFollowState, LegsFollowState,
                  ZonesAreWired, OpeningCovers, ServingIsSettled, Zones
  <2>2. CASE Enter("StopPump") /\ PumpOff
    BY <1>6, <2>2, UnwindPath DEF AbortRun, Abortable, Enter
  <2>. QED
    BY <1>6, <2>1, <2>2 DEF AbortRun, Abortable
<1>7. CASE ClearFault
  BY <1>7, RestPath DEF ClearFault, valveVars
<1>8. CASE (\E confirmed \in BOOLEAN : SetWatchdogTripped(confirmed))
           \/ (\E sec \in SwMaxValues : SetSwMaxRuntimeSec(sec))
           \/ PostOtaBegin \/ OtaAbort \/ UNCHANGED vars
  <2>1. UNCHANGED <<state, current, queue, pumpOn, energized, diverterFert, zoneTimer,
                    zoneMoving, legsMoving>>
    BY <1>8 DEF SetWatchdogTripped, SetSwMaxRuntimeSec, PostOtaBegin, OtaAbort, vars,
                runVars, valveVars
  <2>. QED
    BY <2>1 DEF PathInv, PumpFollowsState, ZonesFollowState, LegsFollowState,
                ZonesAreWired, OpeningCovers, ServingIsSettled, Zones
<1>9. CASE Boot
  BY <1>9, SafePath DEF Boot
<1>. QED
  BY <1>1, <1>2, <1>3, <1>4, <1>5, <1>6, <1>7, <1>8, <1>9 DEF Next

LEMMA InitPath == Init => PathInv
  BY DEF Init, ValveInit, PathInv, PumpFollowsState, ZonesFollowState, LegsFollowState,
         ZonesAreWired, OpeningCovers, ServingIsSettled, Served

-----------------------------------------------------------------------------
(* The theorems                                                            *)

RunInv == TypeOK /\ PathInv

\* The inductive invariant: types and the path hold in every reachable state.
THEOREM RunInvariant == Spec => []RunInv
<1>1. Init => RunInv
  BY InitType, InitPath DEF RunInv
<1>2. RunInv /\ [Next]_vars => RunInv'
  BY NextType, NextPath DEF RunInv, PathInv
<1>. QED
  BY <1>1, <1>2, PTL DEF Spec

\* Every variable of the controller and the driver keeps its type; the queue
\* and the ring never outgrow their arrays, the logged dwell its field.
THEOREM TypeCorrect == Spec => []TypeOK
<1>1. RunInv => TypeOK
  BY DEF RunInv
<1>. QED
  BY <1>1, RunInvariant, PTL

\* The pump never loads against a closed, a moving or a wrong path.
THEOREM PumpNeverLoadsAMovingPath == Spec => []PumpBehindSettledValves
<1>1. RunInv => PumpBehindSettledValves
  BY DEF RunInv, PathInv, PumpFollowsState, ZonesFollowState, LegsFollowState,
         ServingIsSettled, Served, PumpBehindSettledValves
<1>. QED
  BY <1>1, RunInvariant, PTL

\* Whichever way the last run ended, a controller at rest is dry and plain.
THEOREM RestIsAlwaysDry == Spec => []RestIsDry
<1>1. RunInv => RestIsDry
  BY DEF RunInv, PathInv, PumpFollowsState, ZonesFollowState, LegsFollowState,
         Served, RestIsDry
<1>. QED
  BY <1>1, RunInvariant, PTL
-----------------------------------------------------------------------------
(* What is logged, and the inhibit of an upload                            *)

LEMMA NextLogged ==
  ASSUME TypeOK, EveryRunIsLogged, [Next]_vars
  PROVE  EveryRunIsLogged'
<1>. DEFINE Over == {"Idle", "Settle", "Fault"}
            Ahead == {"PrepDiverter", "OpenZone", "StartPump", "Running"}
<1>1. FrozenDwell \in 0 .. MaxDwell /\ actualRun \in 0 .. MaxDwell
  BY FrozenDwellType DEF TypeOK
<1>2. ASSUME UNCHANGED <<state, current, rows>> PROVE EveryRunIsLogged'
  BY <1>2 DEF EveryRunIsLogged
<1>3. ASSUME state' = "StopPump" PROVE EveryRunIsLogged'
  BY <1>3 DEF EveryRunIsLogged
<1>4. ASSUME NEW req, NEW early, StartRun(req, early) PROVE EveryRunIsLogged'
  BY <1>4 DEF EveryRunIsLogged, StartRun
<1>5. ASSUME state \in Over, state' \in Over, UNCHANGED <<current, rows>>
      PROVE  EveryRunIsLogged'
  BY <1>5 DEF EveryRunIsLogged
<1>6. ASSUME state \in Ahead, state' \in Ahead, UNCHANGED rows
      PROVE  EveryRunIsLogged'
  BY <1>6 DEF EveryRunIsLogged
<1>7. ASSUME NEW result \in Outcomes, NEW code \in Faults, NEW dwell \in 0 .. MaxDwell,
             LogRun(result, code, dwell), state' \in Over
      PROVE  EveryRunIsLogged'
  BY <1>7, LogRunType DEF EveryRunIsLogged
<1>8. CASE Tick
  <2>1. CASE Wait
    BY <1>2, <2>1 DEF Wait
  <2>2. CASE (TickPrepDiverter \/ TickOpenZone \/ TickStartPump \/ TickRunning) /\ ~Wait
    BY <1>3, <1>6, <2>2
       DEF TickPrepDiverter, TickOpenZone, TickStartPump, TickRunning, Advance, Enter
  <2>3. CASE TickStopPump
    BY <2>3 DEF TickStopPump, Advance, Enter, EveryRunIsLogged
  <2>4. CASE TickCloseZone /\ ~Wait
    <3>1. pendingFault \in Faults /\ "None" \in Faults
          /\ {"Faulted", "Stopped", "Completed"} \subseteq Outcomes
      BY DEF TypeOK, Faults, Outcomes
    <3>. QED
      BY <1>1, <1>7, <2>4, <3>1 DEF TickCloseZone, Outcome, Enter
  <2>5. CASE TickSettle /\ ~Wait
    BY <1>4, <1>5, <2>5 DEF TickSettle
  <2>. QED
    BY <1>8, <2>1, <2>2, <2>3, <2>4, <2>5 DEF Tick, TickRests
<1>9. ASSUME NEW code \in Faults, RaiseFault(code) PROVE EveryRunIsLogged'
  <2>1. CASE state \in {"Settle", "Idle"}
    BY <1>5, <1>9, <2>1 DEF RaiseFault, NothingToLog, Enter
  <2>2. CASE state \notin {"Settle", "Idle"}
    BY <1>1, <1>7, <1>9, <2>2 DEF RaiseFault, NothingToLog, Enter, Outcomes
  <2>. QED
    BY <2>1, <2>2
<1>10. ASSUME NEW req \in Requests, NEW early \in BOOLEAN, RequestRun(req, early)
       PROVE  EveryRunIsLogged'
  BY <1>2, <1>4, <1>10 DEF RequestRun
<1>11. CASE Stop
  BY <1>3, <1>11 DEF Stop, Enter
<1>12. CASE AbortRun("Watchdog")
  BY <1>2, <1>3, <1>12 DEF AbortRun, Abortable, Enter
<1>13. CASE ClearFault
  BY <1>5, <1>13 DEF ClearFault
<1>14. CASE Boot
  BY <1>14 DEF Boot, EveryRunIsLogged
<1>15. CASE Elapse \/ (\E confirmed \in BOOLEAN : SetWatchdogTripped(confirmed))
            \/ (\E sec \in SwMaxValues : SetSwMaxRuntimeSec(sec))
            \/ PostOtaBegin \/ OtaAbort \/ UNCHANGED vars
  BY <1>2, <1>15 DEF Elapse, TimePasses, SetWatchdogTripped, SetSwMaxRuntimeSec, PostOtaBegin,
                     OtaAbort, vars, runVars
<1>. QED
  BY <1>8, <1>9, <1>10, <1>11, <1>12, <1>13, <1>14, <1>15 DEF Next

\* No run ends, however it ends, without a row in the history, and no row is
\* written before the run is over.
THEOREM NoRunGoesUnlogged == Spec => []EveryRunIsLogged
<1>1. Init => EveryRunIsLogged
  BY DEF Init, EveryRunIsLogged
<1>2. RunInv /\ EveryRunIsLogged /\ [Next]_vars => EveryRunIsLogged'
  BY NextLogged DEF RunInv
<1>. QED
  BY <1>1, <1>2, RunInvariant, PTL DEF Spec

LEMMA NextOta ==
  ASSUME TypeOK, NothingRunsDuringOta, [Next]_vars
  PROVE  NothingRunsDuringOta'
<1>1. CASE Tick
  <2>1. otaActive' = otaActive
    BY <1>1 DEF Tick, TickRests, TickPrepDiverter, TickOpenZone, TickStartPump,
                TickRunning, TickStopPump, TickCloseZone, TickSettle, Wait, Advance,
                StartRun
  <2>2. CASE state \in {"Idle", "Fault"}
    BY <1>1, <2>1, <2>2
       DEF Tick, TickRests, TickPrepDiverter, TickOpenZone, TickStartPump, TickRunning,
           TickStopPump, TickCloseZone, TickSettle, Wait, NothingRunsDuringOta
  <2>3. CASE state \notin {"Idle", "Fault"}
    BY <2>1, <2>3 DEF NothingRunsDuringOta
  <2>. QED
    BY <2>2, <2>3
<1>2. ASSUME NEW req \in Requests, NEW early \in BOOLEAN, RequestRun(req, early)
      PROVE  NothingRunsDuringOta'
  BY <1>2 DEF RequestRun, Acceptable, StartRun, NothingRunsDuringOta
<1>3. CASE Stop \/ (\E code \in Faults : RaiseFault(code)) \/ ClearFault
  BY <1>3 DEF Stop, RaiseFault, ClearFault, Enter, NothingRunsDuringOta
<1>4. CASE AbortRun("Watchdog") \/ Elapse \/ PostOtaBegin \/ OtaAbort \/ Boot
  BY <1>4 DEF AbortRun, Abortable, Elapse, TimePasses, PostOtaBegin, OtaAbort, Boot,
              NothingRunsDuringOta
<1>5. CASE (\E confirmed \in BOOLEAN : SetWatchdogTripped(confirmed))
           \/ (\E sec \in SwMaxValues : SetSwMaxRuntimeSec(sec)) \/ UNCHANGED vars
  BY <1>5 DEF SetWatchdogTripped, SetSwMaxRuntimeSec, vars, runVars,
              NothingRunsDuringOta
<1>. QED
  BY <1>1, <1>2, <1>3, <1>4, <1>5 DEF Next

\* While an image streams to flash nothing is served and nothing waits.
THEOREM NothingEverRunsDuringOta == Spec => []NothingRunsDuringOta
<1>1. Init => NothingRunsDuringOta
  BY DEF Init, NothingRunsDuringOta
<1>2. RunInv /\ NothingRunsDuringOta /\ [Next]_vars => NothingRunsDuringOta'
  BY NextOta DEF RunInv
<1>. QED
  BY <1>1, <1>2, RunInvariant, PTL DEF Spec
-----------------------------------------------------------------------------
(* The dwell that is logged                                                *)

\* The time the pump ran, and the whole seconds of it that are logged.
Fits(dwell, water) ==
  dwell * Second <= water /\ water < dwell * Second + Second + MaxLag

Asked(req) == req \in Requests /\ req.dur > 0

RunsAreAsked ==
  /\ state \notin {"Idle", "Fault"} => Asked(current)
  /\ \A i \in 1 .. Len(queue) : Asked(queue[i])

\* Until Running only the pass between the relay and the stamp runs the pump;
\* while Running the dwell trails the pump by no more than that pass, and the
\* first pass past the duration ends it.
DwellSoFar ==
  /\ state \in {"PrepDiverter", "OpenZone", "StartPump"} => actualRun = 0
  /\ state \in {"PrepDiverter", "OpenZone"} => wet = 0
  /\ state = "StartPump" => wet <= lag
  /\ state = "Running" =>
       /\ runAge <= wet /\ wet <= runAge + MaxLag
       /\ runAge < current.dur * Second + lag

\* Afterwards the frozen dwell and every row of the run tell the same time.
DwellsFit ==
  /\ state # "Running" => Fits(actualRun, wet)
  /\ \A i \in 1 .. Len(rows) : Fits(rows[i].dur, wet)

DwellInv == wet <= RunCap /\ RunsAreAsked /\ DwellSoFar /\ DwellsFit

LEMMA WholeSeconds ==
  ASSUME NEW t \in Nat
  PROVE  /\ t \div Second \in Nat
         /\ (t \div Second) * Second <= t
         /\ t < (t \div Second) * Second + Second
<1>1. Second \in Nat \ {0}
  BY RunAssumption
<1>. QED
  BY <1>1, SMT

\* What is frozen when a state is left is what the pump ran.
LEMMA FrozenDwellFits ==
  ASSUME TypeOK, DurationsFit, DwellInv
  PROVE  Fits(FrozenDwell, wet)
<1>1. CASE state # "Running"
  BY <1>1 DEF DwellInv, DwellsFit, FrozenDwell
<1>2. CASE state = "Running"
  <2>. DEFINE sec == runAge \div Second
  <2>1. /\ runAge \in Nat /\ wet \in Nat /\ lag \in 0 .. MaxLag /\ current.dur \in Nat
        /\ Second \in Nat \ {0} /\ MaxDwell \in Nat /\ MaxLag \in Nat
    BY RunAssumption DEF TypeOK, RunRequest
  <2>2. sec \in Nat /\ sec * Second <= runAge /\ runAge < sec * Second + Second
    BY <2>1, WholeSeconds
  <2>3. runAge <= wet /\ wet <= runAge + MaxLag /\ runAge < current.dur * Second + lag
    BY <1>2 DEF DwellInv, DwellSoFar
  <2>4. current.dur * Second + MaxLag <= (MaxDwell + 1) * Second
    BY <1>2 DEF DwellInv, RunsAreAsked, Asked, DurationsFit
  <2>5. FrozenDwell = IF sec > MaxDwell THEN MaxDwell ELSE sec
    BY <1>2 DEF FrozenDwell
  <2>. HIDE DEF sec
  <2>6. sec * Second < (MaxDwell + 1) * Second
    BY <2>1, <2>2, <2>3, <2>4
  <2>7. ~(sec > MaxDwell)
    <3>1. ASSUME MaxDwell + 1 <= sec PROVE (MaxDwell + 1) * Second <= sec * Second
      BY <2>1, <2>2, <3>1, SMT
    <3>2. (MaxDwell + 1) * Second \in Nat /\ sec * Second \in Nat
      BY <2>1, <2>2
    <3>. QED
      BY <2>1, <2>2, <2>6, <3>1, <3>2
  <2>. QED
    BY <2>1, <2>2, <2>3, <2>5, <2>7 DEF Fits
<1>. QED
  BY <1>1, <1>2

\* A row that fits joins rows that fit.
LEMMA LoggedDwellFits ==
  ASSUME TypeOK, DwellInv, NEW result \in Outcomes, NEW code \in Faults,
         NEW dwell \in 0 .. MaxDwell, LogRun(result, code, dwell), Fits(dwell, wet)
  PROVE  \A i \in 1 .. Len(rows') : Fits(rows'[i].dur, wet)
<1>. DEFINE row == [zone |-> current.zone, dur |-> dwell, fert |-> current.fert,
                    result |-> result, fault |-> code]
<1>1. row \in RunEntry /\ row.dur = dwell
  BY RunAssumption DEF TypeOK, RunRequest, RunEntry
<1>2. rows' = IF Len(rows) < RunlogDepth THEN Append(rows, row)
                                         ELSE Append(Tail(rows), row)
  BY DEF LogRun
<1>3. rows \in Seq(RunEntry) /\ Len(rows) <= RunlogDepth /\ RunlogDepth \in Nat \ {0}
  BY RunAssumption DEF TypeOK
<1>. HIDE DEF row
<1>4. ASSUME NEW s \in Seq(RunEntry), NEW i \in 1 .. Len(Append(s, row))
      PROVE  Append(s, row)[i] = row \/ (i \in 1 .. Len(s) /\ Append(s, row)[i] = s[i])
  BY <1>1, <1>4
<1>5. Len(rows) >= RunlogDepth =>
        /\ Tail(rows) \in Seq(RunEntry)
        /\ \A i \in 1 .. Len(Tail(rows)) : Tail(rows)[i] = rows[i + 1]
                                           /\ i + 1 \in 1 .. Len(rows)
  BY <1>3
<1>6. \A i \in 1 .. Len(rows) : Fits(rows[i].dur, wet)
  BY DEF DwellInv, DwellsFit
<1>7. ASSUME NEW i \in 1 .. Len(rows') PROVE Fits(rows'[i].dur, wet)
  <2>1. CASE Len(rows) < RunlogDepth
    <3>1. rows' = Append(rows, row)
      BY <1>2, <2>1
    <3>2. rows'[i] = row \/ (i \in 1 .. Len(rows) /\ rows'[i] = rows[i])
      BY <1>3, <1>4, <1>7, <3>1
    <3>. QED
      BY <1>1, <1>6, <3>2
  <2>2. CASE ~(Len(rows) < RunlogDepth)
    <3>1. rows' = Append(Tail(rows), row) /\ Tail(rows) \in Seq(RunEntry)
          /\ \A j \in 1 .. Len(Tail(rows)) : Tail(rows)[j] = rows[j + 1]
                                             /\ j + 1 \in 1 .. Len(rows)
      BY <1>2, <1>3, <1>5, <2>2
    <3>2. rows'[i] = row \/ (i \in 1 .. Len(Tail(rows)) /\ rows'[i] = Tail(rows)[i])
      BY <1>4, <1>7, <3>1
    <3>. QED
      BY <1>1, <1>6, <3>1, <3>2
  <2>. QED
    BY <2>1, <2>2
<1>. QED
  BY <1>7

\* Leaving a run's earlier states: the dwell is frozen, the pump's time stands.
LEMMA LeavingFits ==
  ASSUME TypeOK, DurationsFit, DwellInv, actualRun' = FrozenDwell,
         state' \in {"StopPump", "CloseZone", "Settle", "Fault"},
         state' = "Fault" \/ state \notin {"Idle", "Fault"},
         UNCHANGED <<current, wet>>, queue' = queue \/ queue' = <<>>,
         \A i \in 1 .. Len(rows') : Fits(rows'[i].dur, wet)
  PROVE  DwellInv'
<1>1. RunsAreAsked'
  <2>1. state' \notin {"Idle", "Fault"} => Asked(current')
    BY DEF DwellInv, RunsAreAsked
  <2>2. \A i \in 1 .. Len(queue') : Asked(queue'[i])
    BY DEF DwellInv, RunsAreAsked
  <2>. QED
    BY <2>1, <2>2 DEF RunsAreAsked, Asked
<1>2. DwellSoFar'
  BY DEF DwellSoFar
<1>3. DwellsFit'
  BY FrozenDwellFits DEF DwellsFit
<1>. QED
  BY <1>1, <1>2, <1>3 DEF DwellInv

\* A step that the run does not notice, time apart.
LEMMA DwellKept ==
  ASSUME DwellInv, UNCHANGED <<state, current, queue, runAge, actualRun, rows, wet>>,
         state \in {"StartPump", "Running"} => lag' = lag
  PROVE  DwellInv'
<1>1. RunsAreAsked' /\ DwellsFit' /\ wet' <= RunCap
  BY DEF DwellInv, RunsAreAsked, DwellsFit
<1>2. DwellSoFar'
  BY DEF DwellInv, DwellSoFar
<1>. QED
  BY <1>1, <1>2 DEF DwellInv

\* A run that begins has logged nothing and run nothing.
LEMMA DwellBegins ==
  ASSUME DwellInv, NEW req, NEW early, Asked(req), StartRun(req, early),
         \A i \in 1 .. Len(queue') : Asked(queue'[i])
  PROVE  DwellInv'
<1>1. /\ state' = "PrepDiverter" /\ current' = req /\ actualRun' = 0 /\ wet' = 0
      /\ rows' = <<>>
  BY DEF StartRun
<1>2. RunsAreAsked' /\ DwellSoFar'
  BY <1>1 DEF RunsAreAsked, DwellSoFar
<1>3. Fits(0, 0) /\ 0 <= RunCap
  BY RunAssumption DEF Fits
<1>. QED
  BY <1>1, <1>2, <1>3 DEF DwellInv, DwellsFit

LEMMA TimeFits ==
  ASSUME TypeOK, PathInv, EveryRunIsLogged, DwellInv, Elapse
  PROVE  DwellInv'
<1>1. /\ UNCHANGED <<state, current, queue, actualRun, rows>>
      /\ runAge' = IF state = "Running" /\ runAge < RunCap THEN runAge + 1 ELSE runAge
      /\ wet' = IF pumpOn /\ wet < RunCap THEN wet + 1 ELSE wet
      /\ lag < MaxLag /\ lag' = lag + 1
  BY DEF Elapse, TimePasses
<1>2. /\ runAge \in Nat /\ wet \in Nat /\ lag \in Nat /\ current.dur \in Nat
      /\ Second \in Nat \ {0} /\ MaxLag \in Nat /\ RunCap \in Nat /\ wet <= RunCap
  BY RunAssumption DEF TypeOK, RunRequest, DwellInv
<1>3. CASE state \notin {"StartPump", "Running"}
  <2>1. wet' = wet /\ runAge' = runAge
    BY <1>1, <1>3 DEF PathInv, PumpFollowsState
  <2>. QED
    BY <1>1, <1>3, <2>1, DwellKept
<1>4. CASE state \in {"StartPump", "Running"}
  <2>1. RunsAreAsked'
    BY <1>1 DEF DwellInv, RunsAreAsked
  <2>2. rows' = <<>>
    BY <1>1, <1>4 DEF EveryRunIsLogged
  <2>3. CASE state = "StartPump"
    <3>1. actualRun = 0 /\ wet <= lag
      BY <2>3 DEF DwellInv, DwellSoFar
    <3>2. wet' \in Nat /\ wet' <= RunCap /\ wet' <= lag' /\ lag' <= MaxLag
      BY <1>1, <1>2, <3>1
    <3>3. Fits(actualRun', wet')
      BY <1>1, <1>2, <3>1, <3>2 DEF Fits
    <3>. QED
      BY <1>1, <2>1, <2>2, <2>3, <3>1, <3>2, <3>3 DEF DwellInv, DwellSoFar, DwellsFit
  <2>4. CASE state = "Running"
    <3>1. runAge <= wet /\ wet <= runAge + MaxLag /\ runAge < current.dur * Second + lag
      BY <2>4 DEF DwellInv, DwellSoFar
    <3>2. /\ runAge' <= wet' /\ wet' <= runAge' + MaxLag /\ wet' <= RunCap
          /\ runAge' < current.dur * Second + lag'
      <4>1. current.dur * Second \in Nat
        BY <1>2
      <4>2. runAge' \in Nat /\ wet' \in Nat
        BY <1>1, <1>2
      <4>3. runAge' <= wet'
        BY <1>1, <1>2, <2>4, <3>1 DEF PathInv, PumpFollowsState
      <4>4. wet' <= runAge' + MaxLag /\ wet' <= RunCap
        BY <1>1, <1>2, <2>4, <3>1
      <4>5. runAge' < current.dur * Second + lag'
        BY <1>1, <1>2, <4>1, <3>1
      <4>. QED
        BY <4>3, <4>4, <4>5
    <3>. QED
      BY <1>1, <2>1, <2>2, <2>4, <3>2 DEF DwellInv, DwellSoFar, DwellsFit
  <2>. QED
    BY <1>4, <2>3, <2>4
<1>. QED
  BY <1>3, <1>4

LEMMA TickFits ==
  ASSUME TypeOK, PathInv, EveryRunIsLogged, DurationsFit, DwellInv, Tick
  PROVE  DwellInv'
<1>1. /\ runAge \in Nat /\ wet \in Nat /\ lag \in 0 .. MaxLag /\ current.dur \in Nat
      /\ swMax \in Nat /\ Second \in Nat \ {0} /\ MaxLag \in Nat
      /\ queue \in Seq(RunRequest)
  BY RunAssumption DEF TypeOK, RunRequest
<1>2. lag' = 0
  BY DEF Tick, Pass
<1>3. /\ \A i \in 1 .. Len(rows) : Fits(rows[i].dur, wet)
      /\ wet <= RunCap /\ RunsAreAsked
  BY DEF DwellInv, DwellsFit
<1>4. ASSUME NEW s, Advance(s, TRUE)
      PROVE  /\ state' = s /\ actualRun' = FrozenDwell /\ runAge' = 0
             /\ UNCHANGED <<current, queue, rows, wet>>
  BY <1>4 DEF Advance, Enter
<1>5. CASE Wait /\ state \notin {"StartPump", "Running"}
  BY <1>5, DwellKept DEF Wait
<1>6. CASE TickPrepDiverter /\ ~Wait
  <2>1. CASE Advance("OpenZone", OpenZone(current.zone))
    <3>1. /\ state = "PrepDiverter" /\ state' = "OpenZone" /\ actualRun' = actualRun
          /\ UNCHANGED <<current, queue, rows, wet>>
      BY <1>6, <2>1 DEF TickPrepDiverter, Advance, Enter, FrozenDwell
    <3>2. RunsAreAsked' /\ DwellSoFar' /\ DwellsFit'
      BY <1>3, <3>1 DEF DwellInv, RunsAreAsked, DwellSoFar, DwellsFit
    <3>. QED
      BY <1>3, <3>1, <3>2 DEF DwellInv
  <2>2. CASE Enter("StopPump") /\ UNCHANGED <<current, queue, rows, wet>>
    BY <1>3, <1>6, <2>2, LeavingFits DEF TickPrepDiverter, Enter
  <2>. QED
    BY <1>6, <2>1, <2>2 DEF TickPrepDiverter
<1>7. CASE TickOpenZone /\ ~Wait
  <2>1. /\ state = "OpenZone" /\ state' = "StartPump" /\ actualRun' = actualRun
        /\ UNCHANGED <<current, queue, rows, wet>>
    BY <1>7 DEF TickOpenZone, Advance, Enter, FrozenDwell
  <2>2. actualRun = 0 /\ wet = 0 /\ Fits(actualRun, wet)
    BY <2>1 DEF DwellInv, DwellSoFar, DwellsFit
  <2>3. RunsAreAsked' /\ DwellsFit'
    BY <1>3, <2>1, <2>2 DEF RunsAreAsked, DwellsFit
  <2>4. DwellSoFar'
    BY <1>2, <2>1, <2>2 DEF DwellSoFar
  <2>. QED
    BY <1>3, <2>1, <2>3, <2>4 DEF DwellInv
<1>8. CASE TickStartPump
  <2>1. /\ state = "StartPump" /\ state' = "Running" /\ runAge' = 0
        /\ UNCHANGED <<current, queue, rows, wet>>
    BY <1>8 DEF TickStartPump, Advance, Enter
  <2>2. wet <= MaxLag /\ 0 < current.dur
    BY <1>1, <2>1 DEF DwellInv, DwellSoFar, RunsAreAsked, Asked
  <2>3. 0 < current.dur * Second
    BY <1>1, <2>2, SMT
  <2>4. RunsAreAsked' /\ DwellsFit'
    BY <1>3, <2>1 DEF RunsAreAsked, DwellsFit
  <2>5. DwellSoFar'
    BY <1>1, <1>2, <2>1, <2>2, <2>3 DEF DwellSoFar
  <2>. QED
    BY <1>3, <2>1, <2>4, <2>5 DEF DwellInv
<1>9. CASE TickRunning
  <2>1. CASE runAge < EffectiveDuration
    <3>1. /\ state = "Running"
          /\ UNCHANGED <<state, current, queue, runAge, actualRun, rows, wet>>
      BY <1>9, <2>1 DEF TickRunning, Wait
    <3>2. runAge < current.dur * Second
      <4>1. \E d \in Nat : d <= current.dur /\ EffectiveDuration = Second * d
        BY <1>1 DEF EffectiveDuration
      <4>2. PICK d \in Nat : d <= current.dur /\ EffectiveDuration = Second * d
        BY <4>1
      <4>3. Second * d <= current.dur * Second
        BY <1>1, <4>2, SMT
      <4>4. Second * d \in Nat /\ current.dur * Second \in Nat
        BY <1>1, <4>2
      <4>. QED
        BY <1>1, <2>1, <4>2, <4>3, <4>4
    <3>3. RunsAreAsked' /\ DwellsFit'
      BY <1>3, <3>1 DEF RunsAreAsked, DwellsFit
    <3>4. DwellSoFar'
      BY <1>1, <1>2, <3>1, <3>2 DEF DwellInv, DwellSoFar
    <3>. QED
      BY <1>3, <3>1, <3>3, <3>4 DEF DwellInv
  <2>2. CASE ~(runAge < EffectiveDuration)
    <3>1. /\ state = "Running" /\ state' = "StopPump" /\ actualRun' = FrozenDwell
          /\ UNCHANGED <<current, queue, rows, wet>>
      BY <1>9, <2>2 DEF TickRunning, Advance, Enter
    <3>. QED
      BY <1>3, <3>1, LeavingFits
  <2>. QED
    BY <2>1, <2>2
<1>10. CASE TickStopPump
  <2>1. /\ state = "StopPump" /\ state' = "CloseZone" /\ actualRun' = FrozenDwell
        /\ UNCHANGED <<current, queue, rows, wet>>
    BY <1>10 DEF TickStopPump, Advance, Enter
  <2>. QED
    BY <1>3, <2>1, LeavingFits
<1>11. CASE TickCloseZone /\ ~Wait
  <2>1. /\ state = "CloseZone" /\ state' = "Settle" /\ actualRun' = FrozenDwell
        /\ LogRun(Outcome, pendingFault, actualRun) /\ UNCHANGED <<current, queue, wet>>
    BY <1>11 DEF TickCloseZone, Enter
  <2>2. /\ actualRun \in 0 .. MaxDwell /\ pendingFault \in Faults /\ Outcome \in Outcomes
    BY DEF TypeOK, Outcome, Outcomes
  <2>3. Fits(actualRun, wet)
    BY <2>1 DEF DwellInv, DwellsFit
  <2>4. \A i \in 1 .. Len(rows') : Fits(rows'[i].dur, wet)
    BY <2>1, <2>2, <2>3, LoggedDwellFits
  <2>. QED
    BY <2>1, <2>4, LeavingFits
<1>12. CASE TickSettle /\ ~Wait
  <2>1. CASE queue = <<>>
    <3>1. /\ state = "Settle" /\ state' = "Idle"
          /\ UNCHANGED <<current, queue, actualRun, rows, wet>>
      BY <1>12, <2>1 DEF TickSettle
    <3>2. RunsAreAsked' /\ DwellSoFar' /\ DwellsFit'
      BY <1>3, <3>1 DEF DwellInv, RunsAreAsked, DwellSoFar, DwellsFit
    <3>. QED
      BY <1>3, <3>1, <3>2 DEF DwellInv
  <2>2. CASE queue # <<>>
    <3>1. queue' = Tail(queue) /\ StartRun(Head(queue), FALSE)
      BY <1>12, <2>2 DEF TickSettle
    <3>2. /\ Len(Tail(queue)) = Len(queue) - 1 /\ Head(queue) = queue[1]
          /\ 1 \in 1 .. Len(queue)
          /\ \A i \in 1 .. Len(Tail(queue)) : Tail(queue)[i] = queue[i + 1]
                                              /\ i + 1 \in 1 .. Len(queue)
      BY <1>1, <2>2
    <3>3. Asked(Head(queue)) /\ \A i \in 1 .. Len(queue') : Asked(queue'[i])
      BY <1>3, <3>1, <3>2 DEF RunsAreAsked
    <3>. QED
      BY <3>1, <3>3, DwellBegins
  <2>. QED
    BY <2>1, <2>2
<1>13. CASE Wait /\ state = "StartPump"
  BY <1>8, <1>13 DEF Tick, TickRests, TickPrepDiverter, TickOpenZone, TickRunning,
                     TickStopPump, TickCloseZone, TickSettle
<1>14. CASE Wait /\ state = "Running"
  BY <1>9, <1>14 DEF Tick, TickRests, TickPrepDiverter, TickOpenZone, TickStartPump,
                     TickStopPump, TickCloseZone, TickSettle
<1>. QED
  BY <1>5, <1>6, <1>7, <1>8, <1>9, <1>10, <1>11, <1>12, <1>13, <1>14
     DEF Tick, TickRests, TickOpenZone

LEMMA NextFits ==
  ASSUME TypeOK, PathInv, EveryRunIsLogged, DurationsFit, DwellInv, [Next]_vars
  PROVE  DwellInv'
<1>1. CASE Elapse
  BY <1>1, TimeFits
<1>2. CASE Tick
  BY <1>2, TickFits
<1>3. ASSUME NEW req \in Requests, NEW early \in BOOLEAN, RequestRun(req, early)
      PROVE  DwellInv'
  <2>1. Asked(req)
    BY <1>3 DEF RequestRun, Acceptable, Asked
  <2>2. \A i \in 1 .. Len(queue) : Asked(queue[i])
    BY DEF DwellInv, RunsAreAsked
  <2>3. CASE state = "Idle"
    <3>1. StartRun(req, early) /\ queue' = queue
      BY <1>3, <2>3 DEF RequestRun
    <3>. QED
      BY <2>1, <2>2, <3>1, DwellBegins
  <2>4. CASE state # "Idle"
    <3>1. /\ queue' = Append(queue, req)
          /\ UNCHANGED <<state, current, runAge, actualRun, rows, wet, lag>>
      BY <1>3, <2>4 DEF RequestRun
    <3>2. queue \in Seq(RunRequest) /\ req \in RunRequest
      BY RunAssumption DEF TypeOK
    <3>3. \A i \in 1 .. Len(queue') :
            queue'[i] = req \/ (i \in 1 .. Len(queue) /\ queue'[i] = queue[i])
      BY <3>1, <3>2
    <3>4. RunsAreAsked'
      BY <2>1, <3>1, <3>3 DEF DwellInv, RunsAreAsked
    <3>5. DwellSoFar' /\ DwellsFit' /\ wet' <= RunCap
      BY <3>1 DEF DwellInv, DwellSoFar, DwellsFit
    <3>. QED
      BY <3>4, <3>5 DEF DwellInv
  <2>. QED
    BY <2>3, <2>4
<1>4. \A i \in 1 .. Len(rows) : Fits(rows[i].dur, wet)
  BY DEF DwellInv, DwellsFit
<1>5. CASE Stop
  BY <1>4, <1>5, LeavingFits DEF Stop, Enter
<1>6. ASSUME NEW code \in Faults, RaiseFault(code) PROVE DwellInv'
  <2>1. /\ actualRun' = FrozenDwell /\ state' = "Fault" /\ queue' = <<>>
        /\ UNCHANGED <<current, wet>>
    BY <1>6 DEF RaiseFault, NothingToLog, Enter
  <2>2. \A i \in 1 .. Len(rows') : Fits(rows'[i].dur, wet)
    <3>1. CASE rows' = rows
      BY <1>4, <3>1
    <3>2. CASE LogRun("Faulted", code, FrozenDwell)
      <4>1. FrozenDwell \in 0 .. MaxDwell /\ Fits(FrozenDwell, wet)
        BY FrozenDwellType, FrozenDwellFits
      <4>. QED
        BY <3>2, <4>1, LoggedDwellFits DEF Outcomes
    <3>. QED
      BY <1>6, <3>1, <3>2 DEF RaiseFault, NothingToLog
  <2>. QED
    BY <2>1, <2>2, LeavingFits
<1>7. CASE AbortRun("Watchdog")
  <2>1. CASE UNCHANGED <<state, runAge, actualRun>>
    BY <1>7, <2>1, DwellKept DEF AbortRun, Abortable
  <2>2. CASE Enter("StopPump")
    BY <1>4, <1>7, <2>2, LeavingFits DEF AbortRun, Abortable, Enter
  <2>. QED
    BY <1>7, <2>1, <2>2 DEF AbortRun, Abortable
<1>8. CASE ClearFault
  <2>1. /\ state = "Fault" /\ state' = "Idle"
        /\ UNCHANGED <<current, queue, actualRun, rows, wet>>
    BY <1>8 DEF ClearFault
  <2>2. RunsAreAsked' /\ DwellSoFar' /\ DwellsFit' /\ wet' <= RunCap
    BY <2>1 DEF DwellInv, RunsAreAsked, DwellSoFar, DwellsFit
  <2>. QED
    BY <2>2 DEF DwellInv
<1>9. CASE (\E confirmed \in BOOLEAN : SetWatchdogTripped(confirmed))
           \/ (\E sec \in SwMaxValues : SetSwMaxRuntimeSec(sec))
           \/ PostOtaBegin \/ OtaAbort \/ UNCHANGED vars
  <2>1. UNCHANGED <<state, current, queue, runAge, actualRun, rows, wet, lag>>
    BY <1>9 DEF SetWatchdogTripped, SetSwMaxRuntimeSec, PostOtaBegin, OtaAbort, vars,
                runVars
  <2>. QED
    BY <2>1, DwellKept
<1>10. CASE Boot
  <2>1. /\ state' = "Idle" /\ queue' = <<>> /\ rows' = <<>> /\ actualRun' = 0 /\ wet' = 0
    BY <1>10 DEF Boot
  <2>2. Fits(0, 0) /\ 0 <= RunCap
    BY RunAssumption DEF Fits
  <2>. QED
    BY <2>1, <2>2 DEF DwellInv, RunsAreAsked, DwellSoFar, DwellsFit
<1>. QED
  BY <1>1, <1>2, <1>3, <1>5, <1>6, <1>7, <1>8, <1>9, <1>10 DEF Next

\* What the log says a run lasted is what the pump ran, whatever ended it and
\* whenever the software ceiling was changed under it.
THEOREM LoggedDwellIsTrue == DurationsFit => (Spec => []DwellMatchesPump)
<1>. SUFFICES ASSUME DurationsFit PROVE Spec => []DwellMatchesPump
  OBVIOUS
<1>1. Init => DwellInv
  <2>1. Fits(0, 0) /\ 0 <= RunCap
    BY RunAssumption DEF Fits
  <2>. QED
    BY <2>1 DEF Init, DwellInv, RunsAreAsked, DwellSoFar, DwellsFit
<1>2. RunInv /\ EveryRunIsLogged /\ DwellInv /\ [Next]_vars => DwellInv'
  BY NextFits DEF RunInv
<1>3. RunInv /\ DwellInv => DwellMatchesPump
  <2>. SUFFICES ASSUME RunInv, DwellInv, NEW i \in DOMAIN rows
                PROVE  Fits(rows[i].dur, wet)
    BY DEF DwellMatchesPump, Fits
  <2>1. i \in 1 .. Len(rows)
    BY DEF RunInv, TypeOK
  <2>. QED
    BY <2>1 DEF DwellInv, DwellsFit
<1>. QED
  BY <1>1, <1>2, <1>3, RunInvariant, NoRunGoesUnlogged, PTL DEF Spec
-----------------------------------------------------------------------------
(* The controller implements RunJobs                                       *)

\* A push leaves its own row on top of the ring.
LEMMA LastRow ==
  ASSUME TypeOK, NEW result \in Outcomes, NEW code \in Faults,
         NEW dwell \in 0 .. MaxDwell, LogRun(result, code, dwell)
  PROVE  rows'[Len(rows')].result = result
<1>. DEFINE row == [zone |-> current.zone, dur |-> dwell, fert |-> current.fert,
                    result |-> result, fault |-> code]
<1>1. row \in RunEntry /\ row.result = result
  BY RunAssumption DEF TypeOK, RunRequest, RunEntry
<1>2. rows' = IF Len(rows) < RunlogDepth THEN Append(rows, row)
                                         ELSE Append(Tail(rows), row)
  BY DEF LogRun
<1>3. rows \in Seq(RunEntry) /\ Len(rows) <= RunlogDepth /\ RunlogDepth \in Nat \ {0}
  BY RunAssumption DEF TypeOK
<1>. HIDE DEF row
<1>4. \A s \in Seq(RunEntry) : Append(s, row)[Len(Append(s, row))] = row
  BY <1>1
<1>5. Len(rows) >= RunlogDepth => Tail(rows) \in Seq(RunEntry)
  BY <1>3
<1>. QED
  BY <1>1, <1>2, <1>3, <1>4, <1>5

\* The abstract state, read off the states of the controller.
LEMMA Phases ==
  ASSUME TypeOK, PathInv
  PROVE  /\ state \in {"Idle", "Fault"} => JobPhase = "rest"
         /\ state \in {"PrepDiverter", "OpenZone"} => JobPhase = "opening"
         /\ state \in {"StartPump", "Running"} => JobPhase = "wet"
         /\ state \in {"StopPump", "CloseZone", "Settle"} => JobPhase = "closing"
BY DEF TypeOK, States, PathInv, PumpFollowsState, JobPhase
\* How a step looks to those who asked for water: nothing happened if the
\* phase, the run, the queue and the verdict stand.
LEMMA Unseen ==
  ASSUME UNCHANGED <<JobPhase, JobInService, queue, JobVerdict>>
  PROVE  UNCHANGED RJ!jobVars
BY DEF RJ!jobVars

LEMMA TickServes ==
  ASSUME TypeOK, PathInv, TypeOK', PathInv', Tick
  PROVE  [RJ!JobNext]_RJ!jobVars
<1>. USE Phases
<1>0. /\ state' \in {"Idle", "Fault"} => JobPhase' = "rest"
      /\ state' \in {"PrepDiverter", "OpenZone"} => JobPhase' = "opening"
      /\ state' \in {"StartPump", "Running"} => JobPhase' = "wet"
      /\ state' \in {"StopPump", "CloseZone", "Settle"} => JobPhase' = "closing"
  BY DEF TypeOK, States, PathInv, PumpFollowsState, JobPhase
<1>1. CASE Wait
  <2>1. UNCHANGED <<state, pumpOn, current, queue, rows, pendingFault, stopping>>
    BY <1>1 DEF Wait, valveVars
  <2>. QED
    BY <2>1, Unseen DEF JobPhase, JobInService, JobVerdict
<1>2. CASE TickPrepDiverter /\ ~Wait
  <2>1. CASE Advance("OpenZone", OpenZone(current.zone))
    <3>1. /\ state = "PrepDiverter" /\ state' = "OpenZone"
          /\ UNCHANGED <<current, queue, rows, pendingFault, stopping>>
      BY <1>2, <2>1 DEF TickPrepDiverter, Advance, Enter
    <3>. QED
      BY <1>0, <3>1, Unseen DEF JobInService, JobVerdict
  <2>2. CASE pendingFault' = "Watchdog" /\ Enter("StopPump") /\ PumpOff
             /\ UNCHANGED <<fault, current, queue, stopping, wdTripped, otaActive,
                            swMax, rows, wet>>
    <3>1. /\ state = "PrepDiverter" /\ state' = "StopPump" /\ pendingFault' = "Watchdog"
          /\ UNCHANGED <<current, queue>>
      BY <1>2, <2>2 DEF TickPrepDiverter, Enter
    <3>2. RJ!Abort
      BY <1>0, <3>1 DEF JobInService, JobVerdict, RJ!Abort
    <3>. QED
      BY <3>2 DEF RJ!JobNext
  <2>. QED
    BY <1>2, <2>1, <2>2 DEF TickPrepDiverter
<1>3. CASE TickOpenZone /\ ~Wait
  <2>1. /\ state = "OpenZone" /\ state' = "StartPump"
        /\ UNCHANGED <<current, queue, rows, pendingFault, stopping>>
    BY <1>3 DEF TickOpenZone, Advance, Enter
  <2>2. RJ!Water
    BY <1>0, <2>1 DEF JobInService, JobVerdict, RJ!Water
  <2>. QED
    BY <2>2 DEF RJ!JobNext
<1>4. CASE TickStartPump
  <2>1. /\ state = "StartPump" /\ state' = "Running"
        /\ UNCHANGED <<current, queue, rows, pendingFault, stopping>>
    BY <1>4 DEF TickStartPump, Advance, Enter
  <2>. QED
    BY <1>0, <2>1, Unseen DEF JobInService, JobVerdict
<1>5. CASE TickRunning /\ ~Wait
  <2>1. /\ state = "Running" /\ state' = "StopPump"
        /\ UNCHANGED <<current, queue, rows, pendingFault, stopping>>
    BY <1>5 DEF TickRunning, Advance, Enter
  <2>2. RJ!Dry
    BY <1>0, <2>1 DEF JobInService, JobVerdict, RJ!Dry
  <2>. QED
    BY <2>2 DEF RJ!JobNext
<1>6. CASE TickStopPump
  <2>1. /\ state = "StopPump" /\ state' = "CloseZone"
        /\ UNCHANGED <<current, queue, rows, pendingFault, stopping>>
    BY <1>6 DEF TickStopPump, Advance, Enter
  <2>. QED
    BY <1>0, <2>1, Unseen DEF JobInService, JobVerdict
<1>7. CASE TickCloseZone /\ ~Wait
  <2>1. /\ state = "CloseZone" /\ state' = "Settle" /\ UNCHANGED <<current, queue>>
    BY <1>7 DEF TickCloseZone, Enter
  <2>2. rows'[Len(rows')].result = JobVerdict
    <3>1. JobVerdict = Outcome
      BY <2>1 DEF JobVerdict, Outcome
    <3>2. /\ actualRun \in 0 .. MaxDwell /\ pendingFault \in Faults
          /\ Outcome \in Outcomes
      BY DEF TypeOK, Outcome, Outcomes
    <3>3. LogRun(Outcome, pendingFault, actualRun)
      BY <1>7 DEF TickCloseZone
    <3>. QED
      BY <3>1, <3>2, <3>3, LastRow
  <2>3. JobVerdict' = JobVerdict
    BY <1>0, <2>1, <2>2 DEF JobVerdict
  <2>. QED
    BY <1>0, <2>1, <2>3, Unseen DEF JobInService
<1>8. CASE TickSettle /\ ~Wait
  <2>1. CASE queue = <<>>
    <3>1. state = "Settle" /\ state' = "Idle" /\ queue' = <<>>
      BY <1>8, <2>1 DEF TickSettle
    <3>2. RJ!Finish
      BY <1>0, <2>1, <3>1 DEF JobInService, JobVerdict, RJ!Finish
    <3>. QED
      BY <3>2 DEF RJ!JobNext
  <2>2. CASE queue # <<>>
    <3>1. /\ state = "Settle" /\ state' = "PrepDiverter" /\ queue' = Tail(queue)
          /\ current' = Head(queue) /\ pendingFault' = "None" /\ stopping' = FALSE
      BY <1>8, <2>2 DEF TickSettle, StartRun
    <3>2. RJ!Finish
      BY <1>0, <2>2, <3>1 DEF JobInService, JobVerdict, RJ!Finish, RJ!Serve
    <3>. QED
      BY <3>2 DEF RJ!JobNext
  <2>. QED
    BY <2>1, <2>2
<1>. QED
  BY <1>1, <1>2, <1>3, <1>4, <1>5, <1>6, <1>7, <1>8 DEF Tick, TickRests
LEMMA NextServes ==
  ASSUME TypeOK, PathInv, TypeOK', PathInv', [Next]_vars
  PROVE  [RJ!JobNext]_RJ!jobVars
<1>. USE Phases
<1>0. /\ state' \in {"Idle", "Fault"} => JobPhase' = "rest"
      /\ state' \in {"PrepDiverter", "OpenZone"} => JobPhase' = "opening"
      /\ state' \in {"StartPump", "Running"} => JobPhase' = "wet"
      /\ state' \in {"StopPump", "CloseZone", "Settle"} => JobPhase' = "closing"
  BY DEF TypeOK, States, PathInv, PumpFollowsState, JobPhase
<1>1. CASE Tick
  BY <1>1, TickServes
<1>2. ASSUME UNCHANGED <<state, pumpOn, current, queue, rows, pendingFault, stopping>>
      PROVE  UNCHANGED RJ!jobVars
  BY <1>2, Unseen DEF JobPhase, JobInService, JobVerdict
<1>3. CASE Elapse
  BY <1>2, <1>3 DEF Elapse, TimePasses, ValveElapse
<1>4. CASE (\E confirmed \in BOOLEAN : SetWatchdogTripped(confirmed))
           \/ (\E sec \in SwMaxValues : SetSwMaxRuntimeSec(sec))
           \/ PostOtaBegin \/ OtaAbort \/ UNCHANGED vars
  BY <1>2, <1>4 DEF SetWatchdogTripped, SetSwMaxRuntimeSec, PostOtaBegin, OtaAbort,
                    vars, runVars, valveVars
<1>5. ASSUME NEW req \in Requests, NEW early \in BOOLEAN, RequestRun(req, early)
      PROVE  RJ!JobNext
  <2>1. req \in {r \in Requests : r.zone \in Zones /\ r.dur > 0} /\ state # "Fault"
    BY <1>5 DEF RequestRun, Acceptable
  <2>2. RJ!Accept(req)
    <3>1. CASE state = "Idle"
      <4>1. /\ state' = "PrepDiverter" /\ current' = req /\ queue' = queue
            /\ pendingFault' = "None" /\ stopping' = FALSE
        BY <1>5, <3>1 DEF RequestRun, StartRun
      <4>. QED
        BY <1>0, <3>1, <4>1 DEF JobInService, JobVerdict, RJ!Accept, RJ!Serve
    <3>2. CASE state # "Idle"
      <4>1. /\ Len(queue) < MaxQueue /\ queue' = Append(queue, req)
            /\ UNCHANGED <<state, pumpOn, current, rows, pendingFault, stopping>>
        BY <1>5, <3>2 DEF RequestRun, QueueHasRoom, valveVars
      <4>2. JobPhase # "rest"
        BY <2>1, <3>2 DEF TypeOK, States
      <4>. QED
        BY <4>1, <4>2 DEF JobPhase, JobInService, JobVerdict, RJ!Accept
    <3>. QED
      BY <3>1, <3>2
  <2>. QED
    BY <2>1, <2>2 DEF RJ!JobNext
<1>6. CASE Stop
  <2>1. /\ state \notin {"Idle", "Fault"} /\ state' = "StopPump" /\ queue' = <<>>
        /\ current' = current /\ stopping' = TRUE /\ pendingFault' = "None"
    BY <1>6 DEF Stop, Enter
  <2>2. RJ!Cancel
    BY <1>0, <2>1 DEF TypeOK, States, JobInService, JobVerdict, RJ!Cancel
  <2>. QED
    BY <2>2 DEF RJ!JobNext
<1>7. CASE (\E code \in Faults : RaiseFault(code)) \/ Boot
  <2>1. state' \in {"Idle", "Fault"} /\ queue' = <<>>
    BY <1>7 DEF RaiseFault, NothingToLog, Enter, Boot
  <2>2. RJ!Fail
    BY <1>0, <2>1 DEF JobInService, JobVerdict, RJ!Fail
  <2>. QED
    BY <2>2 DEF RJ!JobNext
<1>8. CASE AbortRun("Watchdog")
  <2>1. /\ state \notin {"Idle", "Fault", "Settle", "PrepDiverter"}
        /\ state' \in {"StopPump", "CloseZone"} /\ pendingFault' = "Watchdog"
        /\ UNCHANGED <<current, queue>>
    BY <1>8 DEF AbortRun, Abortable, Enter
  <2>2. RJ!Abort
    BY <1>0, <2>1 DEF TypeOK, States, JobInService, JobVerdict, RJ!Abort
  <2>. QED
    BY <2>2 DEF RJ!JobNext
<1>9. CASE ClearFault
  <2>1. /\ state = "Fault" /\ state' = "Idle" /\ queue' = queue
    BY <1>9 DEF ClearFault
  <2>. QED
    BY <1>0, <2>1, Unseen DEF JobInService, JobVerdict
<1>. QED
  BY <1>1, <1>3, <1>4, <1>5, <1>6, <1>7, <1>8, <1>9 DEF Next

\* Whatever the callers do, the controller serves jobs as RunJobs promises:
\* one at a time, in order, watered at most once, with the verdict of what
\* ended them, and only a stop, a fault or a restart drops those that wait.
THEOREM ControllerServesJobs == Spec => ServesJobs
<1>1. Init => RJ!JobInit
  BY DEF Init, ValveInit, RJ!JobInit, JobPhase, JobInService, JobVerdict
<1>2. RunInv /\ RunInv' /\ [Next]_vars => [RJ!JobNext]_RJ!jobVars
  BY NextServes DEF RunInv
<1>. QED
  BY <1>1, <1>2, RunInvariant, PTL DEF Spec, ServesJobs, RJ!JobSpec

-----------------------------------------------------------------------------
(* The controller and the handshake                                        *)

LEMMA BackstopStepIsControllerStep == [BackstopNext]_backstopVars => [Next]_vars
<1>. SUFFICES ASSUME [BackstopNext]_backstopVars PROVE [Next]_vars
  OBVIOUS
<1>. USE DEF Next
<1>1. CASE Handler
  <2>. Raised \subseteq Faults
    BY BackstopAssumption DEF Latching
  <2>. QED  BY <1>1 DEF Handler
<1>2. CASE BeginPass
  BY <1>2 DEF BeginPass
<1>3. CASE InPass
  <2>. Raised \subseteq Faults
    BY BackstopAssumption DEF Latching
  <2>. QED  BY <1>3 DEF InPass
<1>4. ASSUME NEW noise \in 0 .. TripConfirm, CallWatchdog(noise) PROVE [Next]_vars
  <2>1. tripConfirmed' \in BOOLEAN
    BY <1>4 DEF CallWatchdog, WatchdogTick, Qualify
  <2>. QED  BY <1>4, <2>1 DEF CallWatchdog
<1>5. CASE EndPass
  BY <1>5 DEF EndPass
<1>6. CASE Restart
  BY <1>6 DEF Restart
<1>7. CASE Clock
  BY <1>7 DEF Clock
<1>8. CASE Hang \/ Poll \/ TinyRestart \/ StalledClock \/ UNCHANGED backstopVars
  BY <1>8 DEF Hang, Poll, TinyRestart, StalledClock, backstopVars
<1>. QED
  BY <1>1, <1>2, <1>3, <1>4, <1>5, <1>6, <1>7, <1>8 DEF BackstopNext

\* The safety of the controller carries over: with the handshake around it,
\* stalls, noise on the trip line and restarts of either processor included,
\* it still keeps its invariant.
THEOREM BackstopKeepsRunInv == BackstopSpec => []RunInv
<1>1. BackstopInit => RunInv
  BY InitType, InitPath DEF RunInv, BackstopInit
<1>2. RunInv /\ [BackstopNext]_backstopVars => RunInv'
  BY BackstopStepIsControllerStep, NextType, NextPath DEF RunInv, PathInv
<1>. QED
  BY <1>1, <1>2, PTL DEF BackstopSpec

\* Neither an abort, a stall, a transient nor a restart of either processor
\* ever loads the pump against a closed, moving or wrong path.
THEOREM BackstopLoadsNoMovingPath == BackstopSpec => []PumpBehindSettledValves
<1>1. RunInv => PumpBehindSettledValves
  BY DEF RunInv, PathInv, PumpFollowsState, ZonesFollowState, LegsFollowState,
         ServingIsSettled, Served, PumpBehindSettledValves
<1>. QED
  BY <1>1, BackstopKeepsRunInv, PTL
-----------------------------------------------------------------------------
(* Types of the two halves and of the wires between them                   *)

WireTypeOK ==
  /\ WatchdogTypeOK /\ TripTypeOK
  /\ phase \in {"free", "watchdog", "abort"}
  /\ hung \in BOOLEAN /\ polled \in BOOLEAN /\ tinyRestarted \in BOOLEAN
  /\ stall \in 0 .. HbTimeout + 1
  /\ transient \in 0 .. TripConfirm
  /\ heard \in {"nothing", "transient", "lockout"}

\* Heartbeat and qualification.
LEMMA WatchdogTickType ==
  ASSUME WatchdogTypeOK, NEW st, NEW asserted \in BOOLEAN, WatchdogTick(st, asserted)
  PROVE  WatchdogTypeOK'
<1>1. 0 \in 0 .. HeartbeatPeriod /\ 0 \in 0 .. TripConfirm
  BY WatchdogAssumption
<1>2. emitting' \in BOOLEAN /\ level' \in BOOLEAN /\ toggleAge' \in 0 .. HeartbeatPeriod
  BY <1>1 DEF WatchdogTypeOK, WatchdogTick, Beat
<1>3. /\ tripSeen' = asserted
      /\ tripAge' = IF asserted /\ tripSeen THEN tripAge ELSE 0
      /\ tripConfirmed' = (asserted /\ tripAge' >= TripConfirm)
  BY DEF WatchdogTick, Qualify
<1>4. tripAge' \in 0 .. TripConfirm /\ tripSeen' \in BOOLEAN
  BY <1>1, <1>3 DEF WatchdogTypeOK
<1>5. tripConfirmed' \in BOOLEAN
  BY Zenon, <1>3
<1>. QED
  BY <1>2, <1>4, <1>5 DEF WatchdogTypeOK

LEMMA WatchdogElapseType ==
  ASSUME WatchdogTypeOK, WatchdogElapse
  PROVE  WatchdogTypeOK'
BY WatchdogAssumption DEF WatchdogTypeOK, WatchdogElapse

\* The ATtiny's poll and its clock.
LEMMA TripTickType ==
  ASSUME TripTypeOK, NEW hb \in BOOLEAN, TripTick(hb)
  PROVE  TripTypeOK'
<1>. USE TripAssumption DEF TripTypeOK
<1>1. lastLevel' \in BOOLEAN /\ edgeAge' \in 0 .. HbTimeout
  BY DEF TripTick, FollowLine
<1>2. CASE TripDisarmed(hb)
  BY <1>1, <1>2 DEF TripDisarmed
<1>3. CASE TripArmed
  BY <1>1, <1>3 DEF TripArmed
<1>4. CASE TripLockout
  BY <1>1, <1>4 DEF TripLockout
<1>. QED
  BY <1>2, <1>3, <1>4 DEF TripTick

LEMMA TripElapseType ==
  ASSUME TripTypeOK, TripElapse
  PROVE  TripTypeOK'
BY TripAssumption DEF TripTypeOK, TripElapse

\* The ages a reset leaves are within every window.
LEMMA ZeroAges ==
  0 \in 0 .. HeartbeatPeriod /\ 0 \in 0 .. TripConfirm /\ 0 \in 0 .. HbTimeout + 1
BY WatchdogAssumption, TripAssumption

LEMMA TransientElapseType ==
  ASSUME transient \in 0 .. TripConfirm, TransientElapse
  PROVE  /\ transient' \in 0 .. TripConfirm
         /\ transient # 0 => transient' = transient - 1
         /\ transient = 0 => transient' = 0
BY WatchdogAssumption DEF TransientElapse

LEMMA WireStep ==
  ASSUME WireTypeOK, [BackstopNext]_backstopVars
  PROVE  WireTypeOK'
<1>. USE DEF WireTypeOK
<1>1. UNCHANGED watchdogVars => WatchdogTypeOK'
  BY DEF watchdogVars, WatchdogTypeOK
<1>2. UNCHANGED tripVars => TripTypeOK'
  BY DEF tripVars, TripTypeOK
<1>3. HbTimeout \in Nat /\ level \in BOOLEAN /\ tripped \in BOOLEAN
  BY TripAssumption DEF WatchdogTypeOK, tripped
<1>4. CASE Handler \/ InPass \/ UNCHANGED backstopVars
  BY <1>1, <1>2, <1>4 DEF Handler, InPass, backstopVars, envVars, noiseVars
<1>5. CASE BeginPass \/ EndPass \/ Hang
  BY <1>1, <1>2, <1>5 DEF BeginPass, EndPass, Hang, noiseVars
<1>6. ASSUME NEW noise \in 0 .. TripConfirm, CallWatchdog(noise) PROVE WireTypeOK'
  <2>1. (tripped \/ noise # 0) \in BOOLEAN
    OBVIOUS
  <2>2. WatchdogTypeOK'
    BY <1>6, <2>1, WatchdogTickType DEF CallWatchdog
  <2>3. transient' \in 0 .. TripConfirm /\ heard' \in {"nothing", "transient", "lockout"}
    BY <1>6 DEF CallWatchdog
  <2>. QED
    BY <1>2, <1>6, <2>2, <2>3 DEF CallWatchdog
<1>7. CASE Restart
  <2>0. WatchdogBegin
    BY <1>7 DEF Restart
  <2>1. WatchdogTypeOK'
    BY <2>0, ZeroAges, Zenon DEF WatchdogBegin, WatchdogTypeOK
  <2>2. phase' = "free" /\ hung' = FALSE /\ stall' = 0 /\ polled' = FALSE
        /\ tinyRestarted' = tinyRestarted /\ TripTypeOK'
        /\ heard' = "nothing" /\ transient' = transient
    BY <1>2, <1>7 DEF Restart
  <2>3. /\ phase' \in {"free", "watchdog", "abort"}
        /\ heard' \in {"nothing", "transient", "lockout"}
    BY <2>2
  <2>4. tinyRestarted \in BOOLEAN
    OBVIOUS
  <2>. QED
    BY <2>1, <2>2, <2>3, <2>4, ZeroAges, Zenon
<1>8. CASE Poll
  <2>1. TripTypeOK'
    BY <1>3, <1>8, TripTickType DEF Poll
  <2>. QED
    BY <1>1, <1>8, <2>1 DEF Poll, noiseVars
<1>9. CASE TinyRestart
  <2>1. TripTypeOK'
    BY <1>3, <1>9, TripAssumption DEF TinyRestart, TripBegin, TripTypeOK
  <2>. QED
    BY <1>1, <1>9, <2>1 DEF TinyRestart, noiseVars
<1>10. CASE Clock
  <2>1. WatchdogTypeOK' /\ TripTypeOK'
    BY <1>10, WatchdogElapseType, TripElapseType DEF Clock
  <2>2. tinyRestarted' \in BOOLEAN /\ polled' \in BOOLEAN
    BY <1>10 DEF Clock
  <2>3. transient' \in 0 .. TripConfirm
    BY <1>10, TransientElapseType DEF Clock
  <2>. QED
    BY <1>10, <2>1, <2>2, <2>3 DEF Clock
<1>11. CASE StalledClock
  <2>1. WatchdogTypeOK' /\ TripTypeOK'
    BY <1>1, <1>11, TripElapseType DEF StalledClock
  <2>2. stall' \in 0 .. HbTimeout + 1
    BY <1>3, <1>11 DEF StalledClock
  <2>3. transient' \in 0 .. TripConfirm
    BY <1>11, TransientElapseType DEF StalledClock
  <2>. QED
    BY <1>11, <2>1, <2>2, <2>3 DEF StalledClock
<1>. QED
  BY <1>4, <1>5, <1>6, <1>7, <1>8, <1>9, <1>10, <1>11 DEF BackstopNext

LEMMA WiresKeepTypes == BackstopSpec => []WireTypeOK
<1>1. BackstopInit => WireTypeOK
  <2>. SUFFICES ASSUME BackstopInit PROVE WireTypeOK
    OBVIOUS
  <2>1. WatchdogInit /\ TripInit
    BY DEF BackstopInit
  <2>2. phase = "free" /\ hung = FALSE /\ stall = 0 /\ polled = FALSE
        /\ tinyRestarted = FALSE /\ transient = 0 /\ heard = "nothing"
    BY DEF BackstopInit
  <2>3. WatchdogTypeOK
    BY <2>1, ZeroAges, Zenon DEF WatchdogInit, WatchdogTypeOK
  <2>4. TripTypeOK
    <3>1. trip = "Disarmed" /\ lastLevel = FALSE /\ edgeAge = 0 /\ armAge = 0
      BY <2>1 DEF TripInit
    <3>2. edgeAge \in 0 .. HbTimeout /\ armAge \in 0 .. HardMax
      BY <3>1, TripAssumption
    <3>3. trip \in {"Disarmed", "Armed", "Lockout"}
      BY <3>1
    <3>. QED
      BY <3>1, <3>2, <3>3, Zenon DEF TripTypeOK
  <2>5. /\ phase \in {"free", "watchdog", "abort"}
        /\ heard \in {"nothing", "transient", "lockout"}
    BY <2>2
  <2>. QED
    BY <2>2, <2>3, <2>4, <2>5, ZeroAges, Zenon DEF WireTypeOK
<1>2. WireTypeOK /\ [BackstopNext]_backstopVars => WireTypeOK'
  BY WireStep
<1>. QED
  BY <1>1, <1>2, PTL DEF BackstopSpec

\* Every variable of the composition keeps its type: the ages of the two halves
\* stay within the windows they are compared with.
THEOREM BackstopTypes == BackstopSpec => []BackstopTypeOK
<1>1. RunInv /\ WireTypeOK => BackstopTypeOK
  BY DEF RunInv, WireTypeOK, BackstopTypeOK
<1>. QED
  BY <1>1, WiresKeepTypes, BackstopKeepsRunInv, PTL

-----------------------------------------------------------------------------
(* The stalled loop                                                        *)

\* The types the arguments below rest on.
LineType ==
  /\ level \in BOOLEAN /\ lastLevel \in BOOLEAN
  /\ edgeAge \in 0 .. HbTimeout
  /\ stall \in Nat
  /\ trip \in {"Disarmed", "Armed", "Lockout"}
  /\ hung \in BOOLEAN /\ polled \in BOOLEAN

StallInv ==
  /\ LineType
  /\ stall > 0 => hung /\ lastLevel = level
  /\ polled => lastLevel = level /\ (armed => edgeAge < HbTimeout)
  /\ armed => stall <= edgeAge

\* What a poll leaves: the line is known, and an armed relay has heard of it
\* within the timeout.
LEMMA PollLeaves ==
  ASSUME LineType, TripTick(level)
  PROVE  /\ lastLevel' = level
         /\ edgeAge' = (IF level # lastLevel THEN 0 ELSE edgeAge)
         /\ trip' \in {"Disarmed", "Armed", "Lockout"}
         /\ armed' => edgeAge' < HbTimeout
         /\ armed' /\ ~armed => level # lastLevel
<1>. USE TripAssumption
<1>1. CASE TripDisarmed(level)
  BY <1>1 DEF LineType, TripTick, FollowLine, TripDisarmed, armed
<1>2. CASE TripArmed
  BY <1>2 DEF LineType, TripTick, FollowLine, TripArmed, armed
<1>3. CASE TripLockout
  BY <1>3 DEF LineType, TripTick, FollowLine, TripLockout, armed
<1>. QED
  BY <1>1, <1>2, <1>3 DEF TripTick

\* A step that leaves the line, the ATtiny and the stall alone.
LEMMA StallKept ==
  ASSUME StallInv,
         UNCHANGED <<level, trip, lastLevel, edgeAge, stall>>,
         hung' \in BOOLEAN, polled' \in BOOLEAN,
         hung => hung', polled' => polled
  PROVE  StallInv'
<1>1. LineType'
  BY DEF StallInv, LineType
<1>2. stall' > 0 => hung' /\ lastLevel' = level'
  BY DEF StallInv
<1>3. polled' => lastLevel' = level' /\ (armed' => edgeAge' < HbTimeout)
  BY DEF StallInv, armed
<1>4. armed' => stall' <= edgeAge'
  BY DEF StallInv, armed
<1>. QED
  BY <1>1, <1>2, <1>3, <1>4 DEF StallInv

\* A step of a live loop after which the line is yet to be polled.
LEMMA StallReset ==
  ASSUME StallInv, ~hung,
         UNCHANGED <<trip, lastLevel, stall, hung>>,
         level' \in BOOLEAN, edgeAge' \in 0 .. HbTimeout, polled' = FALSE
  PROVE  StallInv'
<1>1. stall = 0
  BY DEF StallInv, LineType
<1>2. polled' \in BOOLEAN /\ ~polled' /\ stall' = 0
  BY <1>1
<1>3. LineType'
  BY <1>2 DEF StallInv, LineType
<1>4. stall' <= edgeAge'
  BY <1>2, TripAssumption
<1>. QED
  BY <1>2, <1>3, <1>4 DEF StallInv

LEMMA StallStep ==
  ASSUME StallInv, [BackstopNext]_backstopVars
  PROVE  StallInv'
<1>. USE TripAssumption
<1>. hung \in BOOLEAN /\ polled \in BOOLEAN
  BY DEF StallInv, LineType
<1>1. CASE Handler \/ BeginPass \/ InPass \/ EndPass \/ UNCHANGED backstopVars
  <2>1. UNCHANGED <<level, trip, lastLevel, edgeAge, stall, hung, polled>>
    BY <1>1 DEF Handler, BeginPass, InPass, EndPass, backstopVars, watchdogVars,
                tripVars, envVars
  <2>. QED
    BY <2>1, StallKept
<1>2. ASSUME NEW noise \in 0 .. TripConfirm, CallWatchdog(noise) PROVE StallInv'
  <2>1. level' \in BOOLEAN
    BY <1>2 DEF CallWatchdog, WatchdogTick, Beat, StallInv, LineType
  <2>2. UNCHANGED <<trip, lastLevel, edgeAge, hung, stall>> /\ polled' = FALSE /\ ~hung
    BY <1>2 DEF CallWatchdog, tripVars
  <2>. QED
    BY <2>1, <2>2, StallReset DEF StallInv, LineType
<1>3. CASE Hang
  <2>1. UNCHANGED <<level, trip, lastLevel, edgeAge, stall, polled>> /\ hung' = TRUE
    BY <1>3 DEF Hang, watchdogVars, tripVars
  <2>. QED
    BY <2>1, StallKept
<1>4. CASE Restart
  <2>1. UNCHANGED <<trip, lastLevel, edgeAge>> /\ level' \in BOOLEAN
    BY <1>4 DEF Restart, WatchdogBegin, tripVars
  <2>2. polled' = FALSE /\ hung' = FALSE /\ stall' = 0
    BY <1>4 DEF Restart
  <2>3. LineType'
    BY <2>1, <2>2 DEF StallInv, LineType
  <2>4. stall' <= edgeAge'
    BY <2>1, <2>2 DEF StallInv, LineType
  <2>. QED
    BY <2>2, <2>3, <2>4 DEF StallInv
<1>5. CASE Poll
  <2>1. UNCHANGED <<level, hung, stall>> /\ polled'
    BY <1>5 DEF Poll, watchdogVars
  <2>2. TripTick(level) /\ LineType
    BY <1>5 DEF Poll, StallInv
  <2>3. LineType'
    BY <2>1, <2>2, PollLeaves DEF LineType
  <2>4. stall' > 0 => hung' /\ lastLevel' = level'
    BY <2>1, <2>2, PollLeaves DEF StallInv
  <2>5. armed' => edgeAge' < HbTimeout
    BY <2>2, PollLeaves
  <2>6. armed' => stall' <= edgeAge'
    <3>1. CASE level = lastLevel
      BY <3>1, <2>1, <2>2, PollLeaves DEF StallInv
    <3>2. CASE level # lastLevel
      BY <3>2, <2>1, <2>2, PollLeaves DEF StallInv, LineType
    <3>. QED
      BY <3>1, <3>2
  <2>7. lastLevel' = level'
    BY <2>1, <2>2, PollLeaves
  <2>. QED
    BY <2>3, <2>4, <2>5, <2>6, <2>7 DEF StallInv
<1>6. CASE TinyRestart
  <2>1. UNCHANGED <<level, hung, stall, polled>> /\ lastLevel' = level
    BY <1>6 DEF TinyRestart, TripBegin, watchdogVars
  <2>2. trip' = "Disarmed" /\ edgeAge' = 0
    BY <1>6 DEF TinyRestart, TripBegin
  <2>3. LineType'
    BY <2>1, <2>2 DEF StallInv, LineType
  <2>4. ~armed'
    BY <2>2 DEF armed
  <2>. QED
    BY <2>1, <2>3, <2>4 DEF StallInv
<1>7. CASE Clock
  <2>1. UNCHANGED <<level, trip, lastLevel, hung, stall>> /\ polled' = FALSE /\ ~hung
    BY <1>7 DEF Clock, WatchdogElapse, TripElapse
  <2>2. edgeAge' \in 0 .. HbTimeout
    BY <1>7 DEF Clock, TripElapse, StallInv, LineType
  <2>. QED
    BY <2>1, <2>2, StallReset DEF StallInv, LineType
<1>8. CASE StalledClock
  <2>1. UNCHANGED <<level, hung, trip, lastLevel>> /\ hung /\ polled /\ polled' = FALSE
    BY <1>8 DEF StalledClock, TripElapse, watchdogVars
  <2>2. stall' \in Nat /\ stall' <= stall + 1
    BY <1>8 DEF StalledClock, StallInv, LineType
  <2>3. edgeAge' \in 0 .. HbTimeout /\ (edgeAge < HbTimeout => edgeAge' = edgeAge + 1)
    BY <1>8 DEF StalledClock, TripElapse, StallInv, LineType
  <2>4. LineType'
    BY <2>1, <2>2, <2>3 DEF StallInv, LineType
  <2>5. hung' /\ lastLevel' = level'
    BY <2>1 DEF StallInv
  <2>6. armed' => stall' <= edgeAge'
    BY <2>1, <2>2, <2>3 DEF StallInv, LineType, armed
  <2>. QED
    BY <2>1, <2>4, <2>5, <2>6 DEF StallInv
<1>. QED
  BY <1>1, <1>2, <1>3, <1>4, <1>5, <1>6, <1>7, <1>8 DEF BackstopNext

LEMMA InitStalls == ASSUME BackstopInit PROVE StallInv
<1>1. stall = 0 /\ hung = FALSE /\ polled = FALSE
  BY DEF BackstopInit
<1>2. level = FALSE /\ lastLevel = FALSE /\ trip = "Disarmed" /\ edgeAge = 0
  BY DEF BackstopInit, WatchdogInit, TripInit
<1>3. 0 \in 0 .. HbTimeout
  BY TripAssumption
<1>4. LineType
  BY <1>1, <1>2, <1>3 DEF LineType
<1>. QED
  BY <1>1, <1>2, <1>4 DEF StallInv, armed

\* A loop that stalls, wherever in its pass, has lost the pump's power when
\* the heartbeat timeout is over.
THEOREM StalledLoopAlwaysLosesPump == BackstopSpec => []StalledLoopLosesPump
<1>1. BackstopInit => StallInv
  BY InitStalls
<1>2. StallInv => StalledLoopLosesPump
  BY TripAssumption DEF StallInv, LineType, StalledLoopLosesPump
<1>. QED
  BY <1>1, <1>2, StallStep, PTL DEF BackstopSpec
-----------------------------------------------------------------------------
(* The confirmed trip                                                      *)

\* What the loop knows of an assertion beside what has caused it: one that was
\* transients alone is one transient, which will be over before it has been read
\* for TripConfirm.
ConfirmInv ==
  /\ tripSeen <=> heard # "nothing"
  /\ heard = "transient" /\ transient # 0 => tripAge + transient <= TripConfirm
  /\ ConfirmedTripIsLockout

\* No call but the watchdog's tells the gate anything.
LEMMA GateIsKept ==
  ASSUME \/ \E req \in Requests, early \in BOOLEAN : RequestRun(req, early)
         \/ Stop \/ (\E code \in Faults : RaiseFault(code)) \/ AbortRun("Watchdog")
         \/ ClearFault \/ (\E sec \in SwMaxValues : SetSwMaxRuntimeSec(sec))
         \/ PostOtaBegin \/ OtaAbort \/ Tick \/ Elapse \/ UNCHANGED vars
  PROVE  wdTripped' = wdTripped
<1>1. CASE Tick
  BY <1>1 DEF Tick, TickRests, TickPrepDiverter, TickOpenZone, TickStartPump, TickRunning,
              TickStopPump, TickCloseZone, TickSettle, Wait, Advance, StartRun
<1>2. CASE Elapse \/ UNCHANGED vars
  BY <1>2 DEF Elapse, TimePasses, vars, runVars
<1>. QED
  BY <1>1, <1>2 DEF RequestRun, StartRun, Stop, RaiseFault, AbortRun, ClearFault,
                    SetSwMaxRuntimeSec, PostOtaBegin, OtaAbort

LEMMA ConfirmStep ==
  ASSUME WireTypeOK, ConfirmInv, [BackstopNext]_backstopVars
  PROVE  ConfirmInv'
<1>. USE DEF ConfirmInv, ConfirmedTripIsLockout
<1>0. /\ tripAge \in 0 .. TripConfirm /\ transient \in 0 .. TripConfirm
      /\ TripConfirm \in Nat \ {0}
  BY WatchdogAssumption DEF WireTypeOK, WatchdogTypeOK
<1>1. CASE Handler \/ BeginPass \/ InPass \/ EndPass \/ UNCHANGED backstopVars
  <2>1. UNCHANGED <<watchdogVars, noiseVars>>
    BY <1>1 DEF Handler, BeginPass, InPass, EndPass, backstopVars, envVars
  <2>2. wdTripped' = wdTripped
    <3>. Raised \subseteq Faults
      BY BackstopAssumption DEF Latching
    <3>. QED
      BY <1>1, GateIsKept DEF Handler, BeginPass, InPass, EndPass, backstopVars
  <2>. QED
    BY <2>1, <2>2 DEF watchdogVars, noiseVars
<1>2. CASE Hang \/ Poll \/ TinyRestart
  BY <1>2 DEF Hang, Poll, TinyRestart, vars, runVars, watchdogVars, noiseVars
<1>3. ASSUME NEW noise \in 0 .. TripConfirm, CallWatchdog(noise) PROVE ConfirmInv'
  <2>. DEFINE wdTrip == tripped \/ noise # 0
  <2>1. /\ tripSeen' = wdTrip
        /\ tripAge' = IF wdTrip /\ tripSeen THEN tripAge ELSE 0
        /\ tripConfirmed' = (wdTrip /\ tripAge' >= TripConfirm)
        /\ wdTripped' = tripConfirmed'
        /\ heard' = IF ~wdTrip THEN "nothing"
                    ELSE IF tripped \/ heard = "lockout" THEN "lockout" ELSE "transient"
        /\ transient' = noise /\ noise \in Transients
    BY <1>3 DEF CallWatchdog, WatchdogTick, Qualify, SetWatchdogTripped
  <2>2. tripSeen' <=> heard' # "nothing"
    BY <2>1
  <2>3. ASSUME heard' = "transient" PROVE tripAge' + transient' <= TripConfirm
    <3>1. heard # "lockout" /\ noise # 0
      BY <2>1, <2>3
    <3>2. CASE heard = "transient"
      <4>1. noise = transient
        BY <2>1, <3>1, <3>2 DEF Transients
      <4>. QED
        BY <1>0, <2>1, <3>1, <3>2, <4>1
    <3>3. CASE heard # "transient"
      <4>1. ~tripSeen \/ heard \notin {"nothing", "transient", "lockout"}
        BY <3>1, <3>3
      <4>2. tripAge' = 0
        BY <2>1, <4>1 DEF WireTypeOK
      <4>. QED
        BY <1>0, <2>1, <4>2
    <3>. QED
      BY <3>2, <3>3
  <2>4. ASSUME tripConfirmed' PROVE heard' = "lockout"
    <3>1. wdTrip /\ tripAge' >= TripConfirm
      BY <2>1, <2>4
    <3>2. ASSUME heard' = "transient" PROVE FALSE
      <4>1. tripAge' + transient' <= TripConfirm /\ transient' # 0
        BY <2>1, <2>3, <3>2
      <4>. QED
        BY <1>0, <2>1, <3>1, <4>1
    <3>. QED
      BY <2>1, <3>1, <3>2
  <2>. QED
    BY <2>1, <2>2, <2>3, <2>4
<1>4. CASE Restart
  BY <1>4 DEF Restart, Boot, WatchdogBegin
<1>5. CASE Clock
  <2>1. /\ UNCHANGED <<tripSeen, tripConfirmed, heard>> /\ tripAge' <= tripAge + 1
        /\ tripAge' \in Nat
    BY <1>0, <1>5 DEF Clock, WatchdogElapse
  <2>2. wdTripped' = wdTripped
    BY <1>5, GateIsKept DEF Clock
  <2>3. transient' # 0 => transient # 0 /\ transient' = transient - 1
    BY <1>0, <1>5, TransientElapseType DEF Clock
  <2>. QED
    BY <1>0, <2>1, <2>2, <2>3
<1>6. CASE StalledClock
  <2>1. UNCHANGED <<tripSeen, tripConfirmed, tripAge, heard, wdTripped>>
    BY <1>6 DEF StalledClock, vars, runVars, watchdogVars
  <2>2. transient' # 0 => transient # 0 /\ transient' = transient - 1
    BY <1>0, <1>6, TransientElapseType DEF StalledClock
  <2>. QED
    BY <1>0, <2>1, <2>2
<1>. QED
  BY <1>1, <1>2, <1>3, <1>4, <1>5, <1>6 DEF BackstopNext

\* Watchdog::tick: however many passes read the transients on the trip line, a
\* trip is confirmed only in an assertion that a lockout has part in, for every
\* length of the confirmation.
THEOREM OnlyLockoutsAreConfirmed == BackstopSpec => []ConfirmedTripIsLockout
<1>1. BackstopInit => ConfirmInv
  BY DEF BackstopInit, Init, WatchdogInit, ConfirmInv, ConfirmedTripIsLockout
<1>2. WireTypeOK /\ ConfirmInv /\ [BackstopNext]_backstopVars => ConfirmInv'
  BY ConfirmStep
<1>3. ConfirmInv => ConfirmedTripIsLockout
  BY DEF ConfirmInv
<1>. QED
  BY <1>1, <1>2, <1>3, WiresKeepTypes, PTL DEF BackstopSpec
-----------------------------------------------------------------------------
(* One ceiling per run                                                     *)

\* What is known of the pass, and of an armed ATtiny that has just polled.
Heard ==
  /\ emitting \in BOOLEAN /\ tinyRestarted \in BOOLEAN
  /\ toggleAge \in 0 .. HeartbeatPeriod
  /\ armAge \in 0 .. HardMax
  /\ phase \in {"free", "watchdog", "abort"}
  /\ phase # "free" => lag = 0
  /\ phase = "watchdog" => hung \/ polled
  /\ polled /\ armed => armAge < HardMax

\* No water before the relay closes.
DryBefore == state \in {"PrepDiverter", "OpenZone"} => wet = 0

\* While the zone opens the line is quiet, and by the end of its travel that has
\* lasted for the timeout.
QuietBefore ==
  state = "OpenZone" /\ ~hung =>
    \/ zoneTimer[current.zone] = ZoneTravel /\ (phase = "watchdog" \/ ~emitting)
    \/ /\ ~emitting /\ lastLevel = level
       /\ ~armed \/ HbTimeout <= zoneTimer[current.zone] + edgeAge

\* So the first beat finds the ATtiny disarmed, and the run with no water yet.
FirstBeat ==
  pumpOn /\ ~hung /\ ~emitting => phase = "watchdog" /\ wet = 0 /\ ~armed

\* From then on the line is never quiet for the timeout.
Beating ==
  pumpOn /\ ~hung /\ emitting =>
    /\ lastLevel = level =>
         /\ edgeAge < HeartbeatPeriod + (IF phase = "watchdog" THEN MaxLag ELSE lag)
         /\ toggleAge < HeartbeatPeriod => edgeAge <= toggleAge
    /\ lastLevel # level => lag = 0 /\ toggleAge = 0

\* And the ATtiny, armed by that beat, stays armed until its ceiling.
Measured ==
  pumpOn /\ ~hung /\ emitting =>
    /\ armed => armAge <= wet /\ (tinyRestarted \/ wet = armAge)
    /\ trip = "Disarmed" => tinyRestarted \/ (wet = 0 /\ lastLevel # level)

CeilingInv ==
  /\ Heard /\ DryBefore /\ QuietBefore
  /\ FirstBeat /\ Beating /\ Measured

\* What the calls between a pass and the next may do to a run: end it, or let
\* one begin, but never open a zone or close the relay.
Unhelpful ==
  /\ lag' = lag
  /\ state' = "OpenZone" => state = "OpenZone" /\ UNCHANGED <<current, zoneTimer>>
  /\ state' \in {"PrepDiverter", "OpenZone"} =>
       wet' = 0 \/ (wet' = wet /\ state \in {"PrepDiverter", "OpenZone"})
  /\ pumpOn' => pumpOn /\ wet' = wet

LEMMA CallsAreUnhelpful ==
  ASSUME TypeOK, PathInv,
         \/ \E req \in Requests, early \in BOOLEAN : RequestRun(req, early)
         \/ Stop \/ (\E code \in Faults : RaiseFault(code)) \/ AbortRun("Watchdog")
         \/ ClearFault \/ (\E sec \in SwMaxValues : SetSwMaxRuntimeSec(sec))
         \/ (\E trips \in BOOLEAN : SetWatchdogTripped(trips))
         \/ PostOtaBegin \/ OtaAbort \/ UNCHANGED vars
  PROVE  Unhelpful
<1>1. ASSUME NEW req \in Requests, NEW early \in BOOLEAN, RequestRun(req, early)
      PROVE  Unhelpful
  <2>1. CASE state = "Idle"
    <3>1. /\ state' = "PrepDiverter" /\ wet' = 0 /\ lag' = lag /\ pumpOn' = pumpOn
      BY <1>1, <2>1 DEF RequestRun, StartRun, SetDiverter, valveVars
    <3>2. ~pumpOn
      BY <2>1 DEF PathInv, PumpFollowsState
    <3>. QED
      BY <3>1, <3>2 DEF Unhelpful
  <2>2. CASE state # "Idle"
    BY <1>1, <2>2 DEF RequestRun, Unhelpful, valveVars
  <2>. QED
    BY <2>1, <2>2
<1>2. CASE Stop
  BY <1>2 DEF Stop, Enter, PumpOff, Unhelpful
<1>3. CASE \E code \in Faults : RaiseFault(code)
  BY <1>3 DEF RaiseFault, NothingToLog, Enter, SafeState, Unhelpful
<1>4. CASE AbortRun("Watchdog")
  BY <1>4 DEF AbortRun, Abortable, Enter, PumpOff, Unhelpful, valveVars
<1>5. CASE ClearFault
  BY <1>5 DEF ClearFault, Unhelpful, valveVars
<1>6. CASE (\E sec \in SwMaxValues : SetSwMaxRuntimeSec(sec))
           \/ (\E trips \in BOOLEAN : SetWatchdogTripped(trips))
           \/ PostOtaBegin \/ OtaAbort \/ UNCHANGED vars
  BY <1>6 DEF SetSwMaxRuntimeSec, SetWatchdogTripped, PostOtaBegin, OtaAbort, vars,
              runVars, valveVars, Unhelpful
<1>. QED
  BY <1>1, <1>2, <1>3, <1>4, <1>5, <1>6

\* The handshake at rest, such a call leaves the invariant.
LEMMA CeilingKept ==
  ASSUME CeilingInv, Unhelpful,
         UNCHANGED <<watchdogVars, tripVars, hung, polled, tinyRestarted>>,
         phase' = phase \/ (phase = "abort" /\ phase' = "free")
  PROVE  CeilingInv'
<1>1. /\ UNCHANGED <<emitting, level, toggleAge, trip, lastLevel, edgeAge, armAge>>
      /\ armed' = armed
  BY DEF watchdogVars, tripVars, armed
<1>2. Heard'
  BY <1>1 DEF CeilingInv, Heard, Unhelpful
<1>3. DryBefore'
  BY DEF CeilingInv, DryBefore, Unhelpful
<1>4. QuietBefore'
  BY <1>1 DEF CeilingInv, QuietBefore, Unhelpful
<1>5. FirstBeat'
  BY <1>1 DEF CeilingInv, FirstBeat, Unhelpful
<1>6. Beating'
  BY <1>1 DEF CeilingInv, Beating, Unhelpful
<1>7. Measured'
  BY <1>1 DEF CeilingInv, Measured, Unhelpful
<1>. QED
  BY <1>2, <1>3, <1>4, <1>5, <1>6, <1>7 DEF CeilingInv

\* What a pass of the controller may do: open a zone with its whole travel
\* ahead, and close the relay when that has passed.
LEMMA PassOpens ==
  ASSUME TypeOK, PathInv, DryBefore, Tick
  PROVE  /\ lag' = 0
         /\ state' = "OpenZone" =>
              \/ state = "OpenZone" /\ UNCHANGED <<current, zoneTimer>>
              \/ zoneTimer'[current'.zone] = ZoneTravel
         /\ DryBefore'
         /\ pumpOn' => /\ wet' = wet
                       /\ pumpOn \/ (state = "OpenZone" /\ zoneTimer[current.zone] = 0)
<1>. DEFINE Goal ==
       /\ state' = "OpenZone" =>
            \/ state = "OpenZone" /\ UNCHANGED <<current, zoneTimer>>
            \/ zoneTimer'[current'.zone] = ZoneTravel
       /\ DryBefore'
       /\ pumpOn' => /\ wet' = wet
                     /\ pumpOn \/ (state = "OpenZone" /\ zoneTimer[current.zone] = 0)
<1>1. lag' = 0
  BY DEF Tick, Pass
<1>2. ASSUME Wait PROVE Goal
  BY <1>2 DEF Wait, DryBefore, valveVars
<1>3. ASSUME TickPrepDiverter /\ ~Wait PROVE Goal
  <2>1. CASE Advance("OpenZone", OpenZone(current.zone))
    <3>1. /\ state = "PrepDiverter" /\ state' = "OpenZone"
          /\ UNCHANGED <<current, wet, pumpOn>>
          /\ zoneTimer' = [zoneTimer EXCEPT ![current.zone] = ZoneTravel]
      BY <1>3, <2>1 DEF TickPrepDiverter, Advance, Enter, OpenZone
    <3>2. zoneTimer'[current.zone] = ZoneTravel
      BY <3>1 DEF PathInv, ZonesAreWired, TypeOK, ValveTypeOK
    <3>3. ~pumpOn
      BY <3>1 DEF PathInv, PumpFollowsState
    <3>. QED
      BY <3>1, <3>2, <3>3 DEF DryBefore
  <2>2. CASE Enter("StopPump") /\ PumpOff
    BY <2>2 DEF Enter, PumpOff, DryBefore
  <2>. QED
    BY <1>3, <2>1, <2>2 DEF TickPrepDiverter
<1>4. ASSUME TickOpenZone /\ ~Wait PROVE Goal
  <2>1. /\ state = "OpenZone" /\ state' = "StartPump" /\ wet' = wet
        /\ ~(zoneTimer[current.zone] > 0)
    BY <1>4 DEF TickOpenZone, Advance, Enter, zoneBusy
  <2>2. zoneTimer[current.zone] = 0
    BY <2>1 DEF PathInv, ZonesAreWired, TypeOK, ValveTypeOK
  <2>. QED
    BY <2>1, <2>2 DEF DryBefore
<1>5. ASSUME TickStartPump PROVE Goal
  BY <1>5 DEF TickStartPump, Advance, Enter, DryBefore, valveVars
<1>6. ASSUME (TickRunning \/ TickStopPump) /\ ~Wait PROVE Goal
  <2>1. state' \in {"StopPump", "CloseZone"} /\ (pumpOn' => pumpOn) /\ wet' = wet
    BY <1>6 DEF TickRunning, TickStopPump, Advance, Enter, PumpOff, CloseZone
  <2>. QED
    BY <2>1 DEF DryBefore
<1>7. ASSUME TickCloseZone /\ ~Wait PROVE Goal
  <2>1. state' = "Settle" /\ wet' = wet /\ pumpOn' = pumpOn
    BY <1>7 DEF TickCloseZone, Enter, SetDiverter, valveVars
  <2>. QED
    BY <2>1 DEF DryBefore
<1>8. ASSUME TickSettle /\ ~Wait PROVE Goal
  <2>1. state = "Settle" /\ pumpOn' = pumpOn
    BY <1>8 DEF TickSettle, StartRun, SetDiverter, valveVars
  <2>2. ~pumpOn
    BY <2>1 DEF PathInv, PumpFollowsState
  <2>3. state' = "Idle" \/ (state' = "PrepDiverter" /\ wet' = 0)
    BY <1>8 DEF TickSettle, StartRun
  <2>. QED
    BY <2>1, <2>2, <2>3 DEF DryBefore
<1>9. Goal
  BY <1>2, <1>3, <1>4, <1>5, <1>6, <1>7, <1>8 DEF Tick, TickRests
<1>. QED
  BY <1>1, <1>9

\* A pass may begin the beat's work, no more: the watchdog's call is to come.
LEMMA PassKeepsCeiling ==
  ASSUME TypeOK, PathInv, StallInv, CeilingInv, BeginPass
  PROVE  CeilingInv'
<1>1. /\ phase = "free" /\ ~hung /\ polled /\ phase' = "watchdog" /\ hung' = hung
      /\ UNCHANGED <<emitting, level, toggleAge, trip, lastLevel, edgeAge, armAge, polled,
                     tinyRestarted>>
      /\ armed' = armed
  BY DEF BeginPass, watchdogVars, tripVars, armed
<1>2. lastLevel = level /\ (armed => edgeAge < HbTimeout)
  BY <1>1 DEF StallInv
<1>3. /\ lag' = 0
      /\ state' = "OpenZone" =>
           \/ state = "OpenZone" /\ UNCHANGED <<current, zoneTimer>>
           \/ zoneTimer'[current'.zone] = ZoneTravel
      /\ DryBefore'
      /\ pumpOn' => /\ wet' = wet
                    /\ pumpOn \/ (state = "OpenZone" /\ zoneTimer[current.zone] = 0)
  BY PassOpens DEF CeilingInv, BeginPass
<1>4. ZoneTravel \in Nat \ {0} /\ edgeAge \in Nat /\ HbTimeout \in Nat \ {0}
  BY TravelAssumption, TripAssumption DEF StallInv, LineType
<1>5. pumpOn' /\ ~pumpOn => ~emitting /\ ~armed /\ wet = 0
  <2>. SUFFICES ASSUME state = "OpenZone", zoneTimer[current.zone] = 0
                PROVE  ~emitting /\ ~armed /\ wet = 0
    BY <1>3
  <2>1. wet = 0
    BY DEF CeilingInv, DryBefore
  <2>2. ~emitting /\ (~armed \/ HbTimeout <= zoneTimer[current.zone] + edgeAge)
    BY <1>1, <1>4 DEF CeilingInv, QuietBefore
  <2>3. ~armed
    BY <1>2, <1>4, <2>2
  <2>. QED
    BY <2>1, <2>2, <2>3
<1>6. pumpOn /\ ~emitting => FALSE
  BY <1>1 DEF CeilingInv, FirstBeat
<1>7. Heard'
  BY <1>1, <1>3 DEF CeilingInv, Heard
<1>8. QuietBefore'
  BY <1>1, <1>3 DEF CeilingInv, QuietBefore
<1>9. FirstBeat'
  BY <1>1, <1>3, <1>5, <1>6 DEF FirstBeat
<1>10. Beating'
  <2>. SUFFICES ASSUME pumpOn', emitting
                PROVE  /\ edgeAge < HeartbeatPeriod + MaxLag
                       /\ toggleAge < HeartbeatPeriod => edgeAge <= toggleAge
    BY <1>1, <1>2 DEF Beating
  <2>1. /\ edgeAge < HeartbeatPeriod + lag
        /\ toggleAge < HeartbeatPeriod => edgeAge <= toggleAge
    BY <1>1, <1>2, <1>5 DEF CeilingInv, Beating
  <2>2. lag \in 0 .. MaxLag /\ MaxLag \in Nat /\ HeartbeatPeriod \in Nat
    BY RunAssumption, WatchdogAssumption DEF TypeOK
  <2>. QED
    BY <1>4, <2>1, <2>2
<1>11. Measured'
  BY <1>1, <1>2, <1>3, <1>5 DEF CeilingInv, Measured
<1>. QED
  BY <1>3, <1>7, <1>8, <1>9, <1>10, <1>11 DEF CeilingInv

\* The call sends the first beat of a run, keeps the others coming in time, and
\* parks the line when the relay is open.
LEMMA BeatKeepsCeiling ==
  ASSUME TypeOK, PathInv, StallInv, CeilingInv,
         NEW noise \in 0 .. TripConfirm, CallWatchdog(noise)
  PROVE  CeilingInv'
<1>1. /\ phase = "watchdog" /\ ~hung /\ phase' = "abort" /\ hung' = hung /\ polled' = FALSE
      /\ UNCHANGED <<trip, lastLevel, edgeAge, armAge, tinyRestarted>>
      /\ UNCHANGED <<state, current, zoneTimer, pumpOn, wet, lag>>
      /\ Beat(state) /\ armed' = armed
  BY DEF CallWatchdog, WatchdogTick, SetWatchdogTripped, tripVars, valveVars, armed
<1>2. /\ polled /\ lag = 0 /\ emitting \in BOOLEAN
      /\ toggleAge \in 0 .. HeartbeatPeriod
      /\ armAge \in 0 .. HardMax /\ tinyRestarted \in BOOLEAN
  BY <1>1 DEF CeilingInv, Heard
<1>3. lastLevel = level /\ level \in BOOLEAN
  BY <1>2 DEF StallInv, LineType
<1>4. HeartbeatPeriod \in Nat \ {0}
  BY WatchdogAssumption, TimingAssumption
<1>5. Heard'
  <2>1. emitting' \in BOOLEAN /\ (toggleAge' = 0 \/ toggleAge' = toggleAge)
    BY <1>1, Zenon DEF Beat
  <2>2. toggleAge' \in 0 .. HeartbeatPeriod
    BY <1>2, <1>4, <2>1
  <2>. QED
    BY <1>1, <1>2, <2>1, <2>2 DEF Heard
<1>6. DryBefore'
  BY <1>1 DEF CeilingInv, DryBefore
<1>7. QuietBefore'
  <2>. SUFFICES ASSUME state = "OpenZone" PROVE QuietBefore'
    BY <1>1 DEF QuietBefore
  <2>1. ~emitting' /\ (~emitting => level' = level)
    BY <1>1 DEF Beat, PumpCommanded
  <2>. QED
    BY <1>1, <2>1 DEF CeilingInv, QuietBefore
<1>8. pumpOn => emitting' /\ PumpCommanded(state)
  BY <1>1 DEF PathInv, PumpFollowsState, Beat, PumpCommanded
<1>9. FirstBeat'
  BY <1>1, <1>8 DEF FirstBeat
<1>10. Beating' /\ Measured'
  <2>. SUFFICES ASSUME pumpOn PROVE Beating' /\ Measured'
    BY <1>1 DEF Beating, Measured
  <2>1. CASE ~emitting
    <3>1. level' = ~level /\ toggleAge' = 0
      BY <1>1, <1>8, <2>1 DEF Beat
    <3>2. wet = 0 /\ ~armed
      BY <1>1, <2>1 DEF CeilingInv, FirstBeat
    <3>3. lastLevel' # level'
      BY <1>1, <1>3, <3>1
    <3>4. Beating'
      BY <1>1, <1>2, <3>1, <3>3 DEF Beating
    <3>5. wet' = 0 /\ ~armed'
      BY <1>1, <3>2
    <3>. QED
      BY <3>3, <3>4, <3>5 DEF Measured
  <2>2. CASE emitting /\ toggleAge >= HeartbeatPeriod
    <3>1. level' = ~level /\ toggleAge' = 0
      BY <1>1, <1>8, <2>2 DEF Beat
    <3>2. lastLevel' # level'
      BY <1>1, <1>3, <3>1
    <3>3. Beating'
      BY <1>1, <1>2, <3>1, <3>2 DEF Beating
    <3>4. Measured'
      BY <1>1, <1>3, <2>2 DEF CeilingInv, Measured
    <3>. QED
      BY <3>3, <3>4
  <2>3. CASE emitting /\ ~(toggleAge >= HeartbeatPeriod)
    <3>1. level' = level /\ toggleAge' = toggleAge
      BY <1>1, <1>8, <2>3 DEF Beat
    <3>2. toggleAge < HeartbeatPeriod /\ edgeAge <= toggleAge
      BY <1>1, <1>2, <1>3, <1>4, <2>3 DEF CeilingInv, Beating
    <3>3. edgeAge < HeartbeatPeriod + lag /\ edgeAge \in Nat
      BY <1>2, <1>4, <3>2 DEF StallInv, LineType
    <3>4. Beating'
      BY <1>1, <1>3, <3>1, <3>2, <3>3 DEF Beating
    <3>5. Measured'
      BY <1>1, <1>3, <2>3, <3>1 DEF CeilingInv, Measured
    <3>. QED
      BY <3>4, <3>5
  <2>. QED
    BY <1>2, <2>1, <2>2, <2>3
<1>. QED
  BY <1>5, <1>6, <1>7, <1>9, <1>10 DEF CeilingInv

\* A poll arms on the first beat, and neither the timeout nor a release comes
\* between while the run beats.
LEMMA PollKeepsCeiling ==
  ASSUME TypeOK, StallInv, CeilingInv, Poll
  PROVE  CeilingInv'
<1>1. /\ UNCHANGED <<emitting, level, toggleAge, phase, hung, tinyRestarted>>
      /\ UNCHANGED <<state, current, zoneTimer, pumpOn, wet, lag>>
      /\ polled' = TRUE /\ TripTick(level) /\ (phase = "free" \/ hung)
  BY DEF Poll, vars, runVars, valveVars, watchdogVars
<1>2. /\ LineType /\ edgeAge \in Nat /\ HbTimeout \in Nat \ {0} /\ HardMax \in Nat \ {0}
      /\ HeartbeatPeriod \in Nat \ {0} /\ MaxLag \in Nat /\ lag \in 0 .. MaxLag
      /\ wet \in Nat
  BY TripAssumption, WatchdogAssumption, TimingAssumption, RunAssumption
     DEF StallInv, LineType, TypeOK
<1>3. /\ lastLevel' = level
      /\ edgeAge' = (IF level # lastLevel THEN 0 ELSE edgeAge)
      /\ armed' => edgeAge' < HbTimeout
      /\ armed' /\ ~armed => level # lastLevel
  BY <1>1, <1>2, PollLeaves
<1>4. /\ armAge \in 0 .. HardMax /\ armAge' \in 0 .. HardMax
      /\ armed' => armAge' < HardMax
      /\ armed' => armAge' = IF armed THEN armAge ELSE 0
      /\ trip' = "Disarmed" => \/ trip = "Disarmed" /\ level = lastLevel
                               \/ edgeAge' >= HbTimeout
  <2>1. armAge \in 0 .. HardMax
    BY DEF CeilingInv, Heard
  <2>. USE <1>1, <1>2, <2>1 DEF TripTick, FollowLine, armed
  <2>2. CASE TripDisarmed(level)
    BY <2>2 DEF TripDisarmed
  <2>3. CASE TripArmed
    BY <2>3 DEF TripArmed
  <2>4. CASE TripLockout
    BY <2>4 DEF TripLockout
  <2>. QED
    BY <2>2, <2>3, <2>4
<1>5. Heard'
  BY <1>1, <1>4 DEF CeilingInv, Heard
<1>6. DryBefore'
  BY <1>1 DEF CeilingInv, DryBefore
<1>7. QuietBefore'
  <2>. SUFFICES ASSUME state = "OpenZone", ~hung PROVE QuietBefore'
    BY <1>1 DEF QuietBefore
  <2>1. CASE ~emitting /\ lastLevel = level
               /\ (~armed \/ HbTimeout <= zoneTimer[current.zone] + edgeAge)
    BY <1>1, <1>3, <2>1 DEF QuietBefore
  <2>2. CASE zoneTimer[current.zone] = ZoneTravel /\ (phase = "watchdog" \/ ~emitting)
    BY <1>1, <2>2 DEF QuietBefore
  <2>. QED
    BY <2>1, <2>2 DEF CeilingInv, QuietBefore
<1>8. FirstBeat'
  BY <1>1, <1>3 DEF CeilingInv, FirstBeat
<1>. DEFINE Live == pumpOn /\ ~hung /\ emitting
<1>9. Live => edgeAge' < HeartbeatPeriod + lag
              /\ (toggleAge < HeartbeatPeriod => edgeAge' <= toggleAge)
  <2>. SUFFICES ASSUME Live PROVE edgeAge' < HeartbeatPeriod + lag
              /\ (toggleAge < HeartbeatPeriod => edgeAge' <= toggleAge)
    OBVIOUS
  <2>1. CASE lastLevel = level
    BY <1>1, <1>3, <2>1 DEF CeilingInv, Beating
  <2>2. CASE lastLevel # level
    <3>1. edgeAge' = 0 /\ toggleAge \in 0 .. HeartbeatPeriod
      BY <1>3, <2>2 DEF CeilingInv, Heard
    <3>. QED
      BY <1>2, <3>1
  <2>. QED
    BY <2>1, <2>2
<1>10. Beating'
  BY <1>1, <1>3, <1>9 DEF Beating
<1>11. Measured'
  <2>. SUFFICES ASSUME Live
                PROVE  /\ armed' => armAge' <= wet /\ (tinyRestarted \/ wet = armAge')
                       /\ trip' # "Disarmed" \/ tinyRestarted
    BY <1>1 DEF Measured
  <2>1. edgeAge' < HbTimeout /\ edgeAge' \in Nat
    <3>1. edgeAge' \in Nat
      BY <1>2, <1>3
    <3>. QED
      BY <1>2, <1>9, <3>1, TimingAssumption
  <2>2. trip = "Disarmed" => tinyRestarted \/ (wet = 0 /\ lastLevel # level)
    BY DEF CeilingInv, Measured
  <2>3. trip' # "Disarmed" \/ tinyRestarted
    BY <1>2, <1>4, <2>1, <2>2
  <2>4. armed => armAge <= wet /\ (tinyRestarted \/ wet = armAge)
    BY DEF CeilingInv, Measured
  <2>5. armed' /\ ~armed => trip = "Disarmed"
    BY <1>1, <1>2 DEF TripTick, TripDisarmed, TripArmed, TripLockout, armed, LineType
  <2>6. CASE armed' /\ armed
    BY <1>4, <2>3, <2>4, <2>6
  <2>7. CASE armed' /\ ~armed
    <3>1. armAge' = 0 /\ (tinyRestarted \/ wet = 0)
      BY <1>4, <2>2, <2>5, <2>7
    <3>. QED
      BY <1>2, <2>3, <3>1
  <2>. QED
    BY <2>3, <2>6, <2>7
<1>. QED
  BY <1>5, <1>6, <1>7, <1>8, <1>10, <1>11 DEF CeilingInv

\* A restart of the ATtiny disarms it, and says so.
LEMMA TinyRestartKeepsCeiling ==
  ASSUME TypeOK, StallInv, CeilingInv, TinyRestart
  PROVE  CeilingInv'
<1>1. /\ UNCHANGED <<emitting, level, toggleAge, phase, hung, polled>>
      /\ UNCHANGED <<state, current, zoneTimer, pumpOn, wet, lag>>
      /\ trip' = "Disarmed" /\ lastLevel' = level /\ edgeAge' = 0 /\ armAge' = 0
      /\ tinyRestarted' = TRUE /\ ~armed' /\ (phase = "free" \/ hung)
  BY DEF TinyRestart, TripBegin, vars, runVars, valveVars, watchdogVars, armed
<1>2. /\ HardMax \in Nat \ {0} /\ HeartbeatPeriod \in Nat \ {0} /\ lag \in Nat
      /\ toggleAge \in Nat
  BY TripAssumption, WatchdogAssumption, TimingAssumption
     DEF TypeOK, CeilingInv, Heard
<1>3. Heard'
  BY <1>1, <1>2 DEF CeilingInv, Heard
<1>4. DryBefore'
  BY <1>1 DEF CeilingInv, DryBefore
<1>5. QuietBefore'
  BY <1>1 DEF CeilingInv, QuietBefore
<1>6. FirstBeat'
  BY <1>1 DEF CeilingInv, FirstBeat
<1>7. Beating'
  BY <1>1, <1>2 DEF Beating
<1>8. Measured'
  BY <1>1 DEF Measured
<1>. QED
  BY <1>3, <1>4, <1>5, <1>6, <1>7, <1>8 DEF CeilingInv

\* Time counts the same for the run and for the ATtiny that measures it.
LEMMA ClockKeepsCeiling ==
  ASSUME TypeOK, PathInv, StallInv, CeilingInv, Clock
  PROVE  CeilingInv'
<1>1. /\ phase = "free" /\ ~hung /\ polled /\ phase' = phase /\ hung' = hung
      /\ polled' = FALSE
      /\ UNCHANGED <<emitting, level, trip, lastLevel, state, current, pumpOn>>
      /\ armed' = armed
      /\ tinyRestarted' = (tinyRestarted /\ pumpOn)
      /\ zoneTimer' = [z \in Zones |-> Less(zoneTimer[z])]
      /\ toggleAge' = IF emitting /\ toggleAge < HeartbeatPeriod
                        THEN toggleAge + 1 ELSE toggleAge
      /\ edgeAge' = IF edgeAge < HbTimeout THEN edgeAge + 1 ELSE edgeAge
      /\ armAge' = IF armed /\ armAge < HardMax THEN armAge + 1 ELSE armAge
      /\ wet' = IF pumpOn /\ wet < RunCap THEN wet + 1 ELSE wet
      /\ lag < MaxLag /\ lag' = lag + 1
  BY DEF Clock, Elapse, TimePasses, ValveElapse, WatchdogElapse, TripElapse, armed
<1>2. /\ edgeAge \in 0 .. HbTimeout /\ HbTimeout \in Nat \ {0} /\ HardMax \in Nat \ {0}
      /\ HeartbeatPeriod \in Nat \ {0} /\ MaxLag \in Nat /\ lag \in 0 .. MaxLag
      /\ wet \in Nat /\ RunCap \in Nat /\ ZoneTravel \in Nat \ {0}
  BY TripAssumption, WatchdogAssumption, TimingAssumption, RunAssumption,
     TravelAssumption
     DEF StallInv, LineType, TypeOK
<1>3. /\ emitting \in BOOLEAN /\ tinyRestarted \in BOOLEAN
      /\ toggleAge \in 0 .. HeartbeatPeriod /\ armAge \in 0 .. HardMax
      /\ armed => armAge < HardMax
  BY <1>1 DEF CeilingInv, Heard
<1>4. lastLevel = level
  BY <1>1 DEF StallInv
<1>5. Heard'
  <2>1. toggleAge' \in 0 .. HeartbeatPeriod /\ armAge' \in 0 .. HardMax
    BY <1>1, <1>2, <1>3
  <2>2. tinyRestarted' \in BOOLEAN
    BY <1>1
  <2>. QED
    BY <1>1, <1>3, <2>1, <2>2 DEF Heard
<1>6. ~pumpOn \/ state \in {"StartPump", "Running"}
  BY DEF PathInv, PumpFollowsState
<1>7. DryBefore'
  BY <1>1, <1>6 DEF CeilingInv, DryBefore
<1>8. QuietBefore'
  <2>. SUFFICES ASSUME state = "OpenZone"
                PROVE  /\ ~emitting
                       /\ ~armed \/ HbTimeout <= zoneTimer'[current.zone] + edgeAge'
    BY <1>1, <1>4 DEF QuietBefore
  <2>. DEFINE left == zoneTimer[current.zone]
  <2>1. left \in 0 .. ZoneTravel /\ zoneTimer'[current.zone] = Less(left)
    BY <1>1 DEF PathInv, ZonesAreWired, TypeOK, ValveTypeOK
  <2>2. ~emitting
    BY <1>1 DEF CeilingInv, QuietBefore
  <2>3. ~armed \/ HbTimeout <= left + edgeAge
    BY <1>1, <1>2, TimingAssumption DEF CeilingInv, QuietBefore
  <2>. HIDE DEF left
  <2>4. HbTimeout <= left + edgeAge => HbTimeout <= Less(left) + edgeAge'
    BY <1>1, <1>2, <2>1 DEF Less
  <2>. QED
    BY <2>1, <2>2, <2>3, <2>4
<1>9. pumpOn => emitting
  BY <1>1 DEF CeilingInv, FirstBeat
<1>10. FirstBeat'
  BY <1>1, <1>9 DEF FirstBeat
<1>11. Beating'
  <2>. SUFFICES ASSUME pumpOn
                PROVE  /\ edgeAge' < HeartbeatPeriod + lag'
                       /\ toggleAge' < HeartbeatPeriod => edgeAge' <= toggleAge'
    BY <1>1, <1>4 DEF Beating
  <2>1. /\ edgeAge < HeartbeatPeriod + lag
        /\ toggleAge < HeartbeatPeriod => edgeAge <= toggleAge
    BY <1>1, <1>4, <1>9 DEF CeilingInv, Beating
  <2>. QED
    BY <1>1, <1>2, <1>3, <1>9, <2>1
<1>12. Measured'
  <2>. SUFFICES ASSUME pumpOn
                PROVE  /\ armed => armAge' <= wet' /\ (tinyRestarted \/ wet' = armAge')
                       /\ trip = "Disarmed" => tinyRestarted
    BY <1>1 DEF Measured
  <2>1. /\ armed => armAge <= wet /\ (tinyRestarted \/ wet = armAge)
        /\ trip = "Disarmed" => tinyRestarted
    BY <1>1, <1>4, <1>9 DEF CeilingInv, Measured
  <2>2. ASSUME armed PROVE armAge' <= wet' /\ (wet = armAge => wet' = armAge')
    BY <1>1, <1>2, <1>3, <2>1, <2>2, TimingAssumption
  <2>. QED
    BY <2>1, <2>2
<1>. QED
  BY <1>5, <1>7, <1>8, <1>10, <1>11, <1>12 DEF CeilingInv

LEMMA CeilingStep ==
  ASSUME RunInv, StallInv, CeilingInv, [BackstopNext]_backstopVars
  PROVE  CeilingInv'
<1>0. TypeOK /\ PathInv
  BY DEF RunInv
<1>1. CASE Handler
  <2>1. Unhelpful
    <3>. Raised \subseteq Faults
      BY BackstopAssumption DEF Latching
    <3>. QED
      BY <1>0, <1>1, CallsAreUnhelpful DEF Handler
  <2>. QED
    BY <1>1, <2>1, CeilingKept DEF Handler, envVars
<1>2. CASE BeginPass
  BY <1>0, <1>2, PassKeepsCeiling
<1>3. CASE InPass
  <2>1. Unhelpful
    <3>. Raised \subseteq Faults
      BY BackstopAssumption DEF Latching
    <3>. QED
      BY <1>0, <1>3, CallsAreUnhelpful DEF InPass
  <2>. QED
    BY <1>3, <2>1, CeilingKept DEF InPass, envVars
<1>4. ASSUME NEW noise \in 0 .. TripConfirm, CallWatchdog(noise) PROVE CeilingInv'
  BY <1>0, <1>4, BeatKeepsCeiling
<1>5. CASE EndPass
  <2>1. Unhelpful
    BY <1>0, <1>5, CallsAreUnhelpful DEF EndPass
  <2>. QED
    BY <1>5, <2>1, CeilingKept DEF EndPass
<1>6. CASE Hang \/ StalledClock
  <2>1. /\ hung' = TRUE /\ UNCHANGED <<vars, watchdogVars, phase, tinyRestarted, trip>>
        /\ polled' => polled /\ armAge' = armAge /\ edgeAge' = edgeAge
        /\ armAge' \in 0 .. HardMax
    BY <1>6, TripAssumption DEF Hang, StalledClock, TripElapse, tripVars, CeilingInv, Heard
  <2>2. UNCHANGED <<emitting, toggleAge, state, wet, lag>> /\ armed' = armed
    BY <2>1 DEF vars, runVars, watchdogVars, armed
  <2>3. Heard' /\ DryBefore'
    BY <2>1, <2>2 DEF CeilingInv, Heard, DryBefore
  <2>. QED
    BY <2>1, <2>3 DEF CeilingInv, QuietBefore, FirstBeat, Beating, Measured
<1>7. CASE Restart
  <2>1. /\ phase' = "free" /\ polled' = FALSE /\ emitting' = FALSE /\ toggleAge' = 0
        /\ state' = "Idle" /\ pumpOn' = FALSE /\ lag' = 0
        /\ UNCHANGED <<armAge, tinyRestarted>>
    BY <1>7 DEF Restart, Boot, SafeState, WatchdogBegin, tripVars
  <2>2. toggleAge' \in 0 .. HeartbeatPeriod /\ armAge' \in 0 .. HardMax
    BY <2>1, WatchdogAssumption DEF CeilingInv, Heard
  <2>3. tinyRestarted' \in BOOLEAN
    BY <2>1 DEF CeilingInv, Heard
  <2>4. Heard'
    BY <2>1, <2>2, <2>3, Zenon DEF Heard
  <2>. QED
    BY <2>1, <2>4 DEF CeilingInv, DryBefore, QuietBefore, FirstBeat, Beating, Measured
<1>8. CASE Poll
  BY <1>0, <1>8, PollKeepsCeiling
<1>9. CASE TinyRestart
  BY <1>0, <1>9, TinyRestartKeepsCeiling
<1>10. CASE Clock
  BY <1>0, <1>10, ClockKeepsCeiling
<1>11. CASE UNCHANGED backstopVars
  <2>1. UNCHANGED <<vars, watchdogVars, tripVars, envVars>>
    BY <1>11 DEF backstopVars
  <2>2. Unhelpful
    BY <1>0, <2>1, CallsAreUnhelpful
  <2>. QED
    BY <2>1, <2>2, CeilingKept DEF envVars
<1>. QED
  BY <1>1, <1>2, <1>3, <1>4, <1>5, <1>6, <1>7, <1>8, <1>9, <1>10, <1>11 DEF BackstopNext

\* Runs never chain into one armed window, however the one before ended: what
\* the ATtiny measures while it feeds a pump is this run, all of it unless the
\* ATtiny restarted in between.
THEOREM EachRunHasItsCeiling == BackstopSpec => []EachRunGetsItsCeiling
<1>1. BackstopInit => StallInv /\ CeilingInv
  <2>. SUFFICES ASSUME BackstopInit PROVE StallInv /\ CeilingInv
    OBVIOUS
  <2>1. StallInv
    BY InitStalls
  <2>2. /\ state = "Idle" /\ pumpOn = FALSE /\ lag = 0 /\ phase = "free" /\ polled = FALSE
        /\ emitting = FALSE /\ toggleAge = 0 /\ armAge = 0 /\ tinyRestarted = FALSE
    BY DEF BackstopInit, Init, ValveInit, WatchdogInit, TripInit
  <2>3. toggleAge \in 0 .. HeartbeatPeriod /\ armAge \in 0 .. HardMax
    BY <2>2, WatchdogAssumption, TripAssumption
  <2>4. Heard
    BY <2>2, <2>3, Zenon DEF Heard
  <2>. QED
    BY <2>1, <2>2, <2>4 DEF CeilingInv, DryBefore, QuietBefore, FirstBeat, Beating, Measured
<1>2. RunInv /\ StallInv /\ CeilingInv /\ [BackstopNext]_backstopVars
        => StallInv' /\ CeilingInv'
  BY StallStep, CeilingStep
<1>3. CeilingInv => EachRunGetsItsCeiling
  BY DEF CeilingInv, Measured, FirstBeat, EachRunGetsItsCeiling
<1>. QED
  BY <1>1, <1>2, <1>3, BackstopKeepsRunInv, PTL DEF BackstopSpec
=============================================================================
