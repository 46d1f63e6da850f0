------------------------------ MODULE Tenants ------------------------------
(***************************************************************************)
(* Who may have the box when: runs, the calibration, a firmware upload,    *)
(* and the two restarts the program asks for itself.  The main loop and    *)
(* the web server's task share the run controller under one mutex; the     *)
(* calibration and the upload each guard their own state.                  *)
(*                                                                         *)
(* Of the run controller only what the others look at is kept: at rest, at *)
(* work on a run, in the dwell after it, or faulted; how many runs wait;   *)
(* whether the run is being unwound.  When a run ends or a fault is found  *)
(* is anyone's.  Water passes the sensor between two passes of the loop.   *)
(***************************************************************************)
EXTENDS Calibration, OtaUpload

CONSTANTS
  MaxQueue          \* MAX_QUEUE

ASSUME TenantsAssumption ==
  /\ MaxQueue \in Nat \ {0}
  /\ Nobody \notin Uploads /\ "lift" \notin Uploads /\ Nobody # "lift"

VARIABLES
  pc,               \* the loop: "Out" of its pass, or how far it has come in one
  state,            \* "Idle", "Active" (PrepDiverter .. CloseZone), "Settle", "Fault"
  queue,            \* qCount_
  stopping,         \* stopping_
  \* No code keeps these.
  holder,           \* whose the run in progress, in its dwell or cut by the fault is
  own,              \* pulses since the calibration's start that are its own run's
  strayed           \* a fault ended the calibration's run unseen: it was cleared first

runVars == <<state, queue, stopping, holder>>
ghostVars == <<own, strayed>>
vars == <<pc, runVars, pulses, calVars, ghostVars, otaVars>>

Holders == {"none", "cal", "other"}

TypeOK ==
  /\ CalTypeOK
  /\ OtaTypeOK
  /\ pc \in {"Out", "Ticked", "Read", "Judged"}
  /\ state \in {"Idle", "Active", "Settle", "Fault"}
  /\ queue \in 0 .. MaxQueue
  /\ stopping \in BOOLEAN
  /\ holder \in Holders
  /\ own \in 0 .. Wrap - 1
  /\ strayed \in BOOLEAN

Init ==
  /\ CalInit /\ OtaInit
  /\ pc = "Out" /\ state = "Idle" /\ queue = 0 /\ stopping = FALSE
  /\ holder = "none" /\ own = 0 /\ strayed = FALSE

-----------------------------------------------------------------------------
(* The run controller, as relations between what it was and what it is     *)

AtRest == state \in {"Idle", "Fault"} /\ queue = 0

Takes_IgnoresOta == state # "Fault"

\* requestRun's refusals that matter here.
Takes == state # "Fault" /\ ~otaActive

Begins(who) ==
  /\ state' = "Active" /\ holder' = who /\ stopping' = FALSE

\* requestRun by someone other than the calibration.
Request ==
  /\ Takes
  /\ IF state = "Idle" THEN Begins("other") /\ UNCHANGED queue
     ELSE /\ queue < MaxQueue
          /\ queue' = queue + 1
          /\ UNCHANGED <<state, stopping, holder>>

Stop ==
  IF state \in {"Idle", "Fault"} THEN UNCHANGED runVars
  ELSE /\ state' = "Active" /\ stopping' = TRUE /\ queue' = 0
       /\ UNCHANGED holder

Latch == state' = "Fault" /\ queue' = 0 /\ UNCHANGED <<stopping, holder>>

\* RunController::tick: at most one transition.
Advance ==
  \/ UNCHANGED runVars
  \/ /\ state = "Active" /\ state' = "Settle"
     /\ UNCHANGED <<queue, stopping, holder>>
  \/ /\ state = "Settle" /\ queue = 0
     /\ state' = "Idle" /\ holder' = "none"
     /\ UNCHANGED <<queue, stopping>>
  \/ /\ state = "Settle" /\ queue > 0
     /\ queue' = queue - 1 /\ Begins("other")

-----------------------------------------------------------------------------
(* The loop: one pass under the mutex, in the order of its sections        *)

Tick ==
  /\ pc = "Out" /\ pc' = "Ticked"
  /\ Advance
  /\ UNCHANGED <<pulses, calVars, ghostVars, otaVars>>

\* scheduler.tick; then the pass reads the state it will judge by.
Schedule ==
  /\ pc = "Ticked" /\ pc' = "Read"
  /\ Request \/ UNCHANGED runVars
  /\ UNCHANGED <<pulses, calVars, ghostVars, otaVars>>

\* A flow detector may latch a fault; the calibration ticks with the state
\* read before that.
Judge ==
  /\ pc = "Read" /\ pc' = "Judged"
  /\ \/ UNCHANGED runVars
     \/ state \in {"Idle", "Active"} /\ Latch
  /\ CalTick(state)
  /\ UNCHANGED <<pulses, ghostVars, otaVars>>

Unlock ==
  /\ pc = "Judged" /\ pc' = "Out"
  /\ UNCHANGED <<runVars, pulses, calVars, ghostVars, otaVars>>

-----------------------------------------------------------------------------
(* Handlers under the mutex, between two passes                            *)

Handler == pc = "Out" /\ TaskIsFree /\ UNCHANGED pc

PostRun ==
  /\ Handler /\ Request
  /\ UNCHANGED <<pulses, calVars, ghostVars, otaVars>>

\* A calibration in progress is voided first, whatever it waits for.
PostStop ==
  /\ Handler
  /\ Stop
  /\ IF CalActive THEN CalCancel ELSE UNCHANGED calVars
  /\ own' = 0 /\ strayed' = FALSE
  /\ UNCHANGED <<pulses, otaVars>>

PostFaultClear ==
  /\ Handler
  /\ state = "Fault" /\ state' = "Idle" /\ holder' = "none"
  /\ strayed' = (strayed \/ phase = "Running")
  /\ UNCHANGED <<queue, stopping, pulses, calVars, own, otaVars>>

PostCalStart ==
  /\ Handler
  /\ state = "Idle" /\ Takes
  /\ Begins("cal") /\ CalStart
  /\ own' = 0 /\ strayed' = FALSE
  /\ UNCHANGED <<queue, pulses, otaVars>>

\* finish() judges whether a latch could hit another's run: mid-run it takes
\* the run in progress for its own, later it wants the controller at rest.
SafeToFault_Always == TRUE

SafeToFault == phase = "Running" \/ state = "Idle"

PostCalFinish(inRange) ==
  /\ Handler
  /\ state # "Fault"
  /\ CalFinish(inRange)
  /\ IF ~inRange /\ SafeToFault THEN Latch
     ELSE IF phase = "Running" THEN Stop
     ELSE UNCHANGED runVars
  /\ own' = 0 /\ strayed' = FALSE
  /\ UNCHANGED <<pulses, otaVars>>

\* The gate of an upload, in its first chunk's handler.
PostOtaBegin(r) ==
  /\ pc = "Out"
  /\ Claim(r, AtRest)
  /\ UNCHANGED <<pc, runVars, pulses, calVars, ghostVars>>

\* What the upload does without the mutex, its bare release included.
Upload ==
  /\ Lift \/ \E r \in Uploads : UploadStep(r)
  /\ UNCHANGED <<pc, runVars, pulses, calVars, ghostVars>>

-----------------------------------------------------------------------------
(* Water and restarts                                                      *)

\* A pulse: of the run in progress, of a leak, of a tail.  A calibration
\* counts less than a whole turn of the counter; between two of them nobody
\* here reads it.
Pulse ==
  /\ pc = "Out" /\ CalActive
  /\ phase = "Running" => Counted < Wrap - 1
  /\ pulses' = (pulses + 1) % Wrap
  /\ own' = IF phase = "Running" /\ holder = "cal" THEN own + 1 ELSE own
  /\ UNCHANGED <<pc, runVars, calVars, strayed, otaVars>>

\* setup(): all of it is in RAM, and every connection is gone.
Boot ==
  /\ pc' = "Out" /\ state' = "Idle" /\ queue' = 0 /\ stopping' = FALSE
  /\ holder' = "none" /\ own' = 0 /\ strayed' = FALSE
  /\ pulses' = 0 /\ phase' = "Idle" /\ baseline' = 0 /\ tally' = 0
  /\ conn' = [r \in Uploads |-> "closed"]
  /\ owner' = Nobody /\ refused' = FALSE /\ begun' = FALSE
  /\ task' = Nobody /\ otaActive' = FALSE /\ restart' = FALSE /\ image' = {}

PowerLoss == Boot

\* The night and the uptime are Connectivity's; here it may be any pass.
SafeToReboot == state = "Idle" /\ queue = 0 /\ ~otaActive /\ ~CalActive

NightlyReboot == pc = "Judged" /\ SafeToReboot /\ Boot

\* restartDue is read after the mutex is released.
OtaRestart == pc = "Out" /\ restart /\ Boot

Next ==
  \/ Tick \/ Schedule \/ Judge \/ Unlock
  \/ PostRun \/ PostStop \/ PostFaultClear
  \/ PostCalStart \/ \E inRange \in BOOLEAN : PostCalFinish(inRange)
  \/ \E r \in Uploads : PostOtaBegin(r)
  \/ Upload
  \/ Pulse
  \/ PowerLoss \/ NightlyReboot \/ OtaRestart

Spec == Init /\ [][Next]_vars

-----------------------------------------------------------------------------
(* What must hold                                                          *)

\* Header of calibration_controller.h: the tally is the water of the
\* calibration's own run, all of it and nothing of the runs chained behind it,
\* across a turn of the counter.  (Unless it has strayed: the fault that ended
\* its run was cleared before the calibration was told of it.)
TallyIsItsOwn ==
  ~strayed => /\ phase = "Running" => Counted = own
              /\ phase = "Awaiting" => tally = own

\* #144: a number entered for the calibration never stops, faults or robs of
\* its queue a run that is not the calibration's.
CalibrationSparesOthers ==
  [][ (\E inRange \in BOOLEAN : PostCalFinish(inRange)) /\ holder = "other" /\ ~strayed
        => UNCHANGED runVars ]_vars

\* #126: the inhibit is held from an upload's gate until its failure is dealt
\* with or the box restarts, and by nothing else: whoever claims, drops, loses
\* or is turned away, it is neither leaked nor lifted under another's image.
InhibitIsExact == otaActive <=> begun \/ restart \/ task # Nobody

\* A restart the program asks for itself finds the controller at rest with
\* nothing waiting and no image half written; the nightly one no bucket test;
\* the one into a new image boots what one request has sent.
RestartsFindNothing ==
  [][ /\ NightlyReboot \/ OtaRestart => AtRest /\ ~begun /\ task = Nobody
      /\ NightlyReboot => phase = "Idle"
      /\ OtaRestart => \E r \in Uploads : image = {r} ]_vars
=============================================================================
