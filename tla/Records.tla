------------------------------ MODULE Records ------------------------------
(***************************************************************************)
(* What outlives a run and a fault: the run history, the fault log with    *)
(* the gate in front of a clear, their copies in flash and the feed of the *)
(* telemetry publisher.  A pass of the loop touches them in a fixed order; *)
(* HTTP handlers come between two passes, the publisher's task at any      *)
(* time, and a reset anywhere.                                             *)
(*                                                                         *)
(* Of the run controller only what reaches these records is kept: whether  *)
(* a run is in progress, in its dwell, or a fault is latched.  When a run  *)
(* ends, what a detector finds and how fast the broker is, is anyone's.    *)
(***************************************************************************)
EXTENDS RunLog

CONSTANTS
  LogSize,          \* LOG_SIZE of the fault log
  QueueDepth,       \* QUEUE_DEPTH of the publisher
  MaxRows,          \* rows ever pushed (a bound)
  MaxEntries        \* fault entries ever logged (a bound)

\* Rows are numbered as they are pushed.  Of a row's fields, only whether it
\* has a valid start time matters here; the others tell rows apart.
Row == [id : 1 .. MaxRows, stamped : BOOLEAN]
Latching == {"NoFlow", "UnexpectedFlow", "CalRange"}
Noted == {"Watchdog", "ValveRest"}
NoFault == "None"
Nothing == 0

FaultLog == INSTANCE RunLog WITH Depth <- LogSize, EmptyRow <- NoFault

ASSUME RecordsAssumption ==
  /\ LogSize \in Nat \ {0} /\ QueueDepth \in Nat \ {0}
  /\ MaxRows \in Nat \ {0} /\ MaxEntries \in Nat
  /\ Depth <= QueueDepth
  /\ EmptyRow \notin Row

VARIABLES
  pc,               \* how far the pass is: between two passes, or at a step of one
  state,            \* the run controller: Idle, Active, Settle or Fault
  fault,            \* its latched fault
  runlog, runDirty, \* RunController::runlog_, runLogDirty_
  faultlog, faultDirty, \* FaultManager's log_, dirty_
  prevFault,        \* FaultManager::prevFault_
  condition,        \* condActive_[UnexpectedFlow]; nobody sets another
  flowing,          \* rateGPM() > 0 as of the last flowMonitor.tick
  override,         \* the flow override, in flash
  nvsRuns, nvsFaults, \* the blobs in flash
  seeded, lastKey,  \* pdSeeded, the key of the last head fed
  queue,            \* the publisher's queue: ids of rows
  sending,          \* the row its task holds
  \* No code keeps these.
  pushed,           \* rows pushed so far
  logged,           \* fault entries logged so far
  rows, entries,    \* what the rings promise to hold
  sent,             \* the last row published since boot
  unlogged          \* the latched fault has no entry of its own yet

runVars == <<runlog, runDirty, rows, pushed>>
faultVars == <<faultlog, faultDirty, prevFault, entries, logged>>
feedVars == <<seeded, lastKey>>
taskVars == <<queue, sending, sent>>
flashVars == <<nvsRuns, nvsFaults>>
vars == <<pc, state, fault, runVars, faultVars, condition, flowing, override,
          flashVars, feedVars, taskVars, unlogged>>

TypeOK ==
  /\ pc \in {"Out", "Ticked", "Scanned", "Fed", "Stored", "Surfaced"}
  /\ state \in {"Idle", "Active", "Settle", "Fault"}
  /\ fault \in {NoFault} \cup Latching /\ (fault # NoFault <=> state = "Fault")
  /\ runlog \in Rings(Row \cup {EmptyRow}) /\ runDirty \in BOOLEAN
  /\ faultlog \in FaultLog!Rings(Latching \cup Noted \cup {NoFault})
  /\ faultDirty \in BOOLEAN /\ prevFault \in {NoFault} \cup Latching
  /\ condition \in BOOLEAN /\ flowing \in BOOLEAN /\ override \in BOOLEAN
  /\ nvsRuns \in Seq(Row) /\ Len(nvsRuns) <= Depth
  /\ nvsFaults \in Seq(Latching \cup Noted) /\ Len(nvsFaults) <= LogSize
  /\ seeded \in BOOLEAN /\ lastKey \in 0 .. MaxRows
  /\ queue \in Seq(1 .. MaxRows) /\ Len(queue) <= QueueDepth
  /\ sending \in 0 .. MaxRows /\ sent \in 0 .. MaxRows

Init ==
  /\ pc = "Out" /\ state = "Idle" /\ fault = NoFault
  /\ runlog = EmptyRing /\ runDirty = FALSE /\ rows = <<>> /\ pushed = 0
  /\ faultlog = FaultLog!EmptyRing /\ faultDirty = FALSE /\ prevFault = NoFault
  /\ entries = <<>> /\ logged = 0
  /\ condition = FALSE /\ flowing = FALSE /\ override = FALSE
  /\ nvsRuns = <<>> /\ nvsFaults = <<>>
  /\ seeded = FALSE /\ lastKey = Nothing
  /\ queue = <<>> /\ sending = Nothing /\ sent = Nothing
  /\ unlogged = FALSE

-----------------------------------------------------------------------------
(* Operations. *)

\* RunController::logRun and logMissedCycle.
PushRow(stamped) ==
  LET row == [id |-> pushed + 1, stamped |-> stamped] IN
    /\ pushed < MaxRows
    /\ pushed' = pushed + 1
    /\ runlog' = push(runlog, row)
    /\ rows' = Remember(rows, row)
    /\ runDirty' = TRUE

\* FaultManager::append, of a fault or of none.
LogFault(r, code) == IF code = NoFault THEN r ELSE FaultLog!push(r, code)
RememberFault(seq, code) == IF code = NoFault THEN seq ELSE FaultLog!Remember(seq, code)
OneIf(code) == IF code = NoFault THEN 0 ELSE 1

AppendFaults(c1, c2, c3) ==
  /\ logged + OneIf(c1) + OneIf(c2) + OneIf(c3) <= MaxEntries
  /\ logged' = logged + OneIf(c1) + OneIf(c2) + OneIf(c3)
  /\ faultlog' = LogFault(LogFault(LogFault(faultlog, c1), c2), c3)
  /\ entries' = RememberFault(RememberFault(RememberFault(entries, c1), c2), c3)
  /\ faultDirty' = (faultDirty \/ logged' # logged)

\* RunController::raiseFault: the first fault wins; a run in progress leaves
\* its row, one in its dwell has left it, and at rest there is none.
RaiseFault(f) ==
  /\ state # "Fault"
  /\ state' = "Fault" /\ fault' = f
  /\ IF state = "Active" THEN \E s \in BOOLEAN : PushRow(s)
                         ELSE UNCHANGED runVars

\* FaultManager::clearAllowed, for the one fault with a condition.
clearAllowed(cond) == state = "Fault" /\ ~(fault = "UnexpectedFlow" /\ cond)

\* FaultManager::requestClear: the edge detector is reset with the latch.
ResetEdge_Later == prevFault' = prevFault

ResetEdge == prevFault' = NoFault

requestClear ==
  /\ state' = "Idle" /\ fault' = NoFault /\ unlogged' = FALSE
  /\ ResetEdge

\* PoopdeckPublisher::enqueue: a row without a valid start is dropped, and so
\* is one the queue has no room for.
enqueue(q, r) == IF r.stamped /\ Len(q) < QueueDepth THEN Append(q, r.id) ELSE q

\* enqueueBacklog: the ring, oldest first.
Backlog(blob) ==
  LET q[k \in 0 .. Len(blob)] == IF k = 0 THEN <<>> ELSE enqueue(q[k - 1], blob[k])
  IN  q[Len(blob)]

\* The natural key of a row: rows without a start all have the same one.
Key(r) == IF r = EmptyRow \/ ~r.stamped THEN Nothing ELSE r.id

-----------------------------------------------------------------------------
(* A pass of loop(), in the order of its sections. *)

\* The controller's tick: a run ends with its row, a dwell ends, a run begins
\* (its successor, or one of the scheduler's).
Tick ==
  /\ pc = "Out" /\ pc' = "Ticked"
  /\ flowing' \in BOOLEAN
  /\ \/ UNCHANGED <<state, runVars>>
     \/ /\ state = "Active" /\ state' = "Settle"
        /\ \E s \in BOOLEAN : PushRow(s)
     \/ /\ state = "Settle" /\ state' \in {"Idle", "Active"}
        /\ UNCHANGED runVars
     \/ /\ state = "Idle" /\ state' = "Active"
        /\ UNCHANGED runVars
  /\ UNCHANGED <<fault, faultVars, condition, override, flashVars, feedVars, taskVars, unlogged>>

\* The missed-cycle scan, in a controller at rest: at most one marker.
ScanMissed ==
  /\ pc = "Ticked" /\ pc' = "Scanned"
  /\ \/ UNCHANGED runVars
     \/ state = "Idle" /\ PushRow(TRUE)
  /\ UNCHANGED <<state, fault, faultVars, condition, flowing, override, flashVars,
                 feedVars, taskVars, unlogged>>

\* The history's debounced write.
SaveRuns_FlagAlone == nvsRuns' = nvsRuns /\ runDirty' = FALSE

SaveRuns ==
  \/ UNCHANGED <<nvsRuns, runDirty>>
  \/ runDirty /\ nvsRuns' = serialize(runlog) /\ runDirty' = FALSE

\* The feed: the first pass takes the head as known, later ones enqueue a head
\* with another key.
NewHead_Unseeded(h) == h # EmptyRow /\ Key(h) # lastKey

NewHead(h) == seeded /\ h # EmptyRow /\ Key(h) # lastKey

SaveAndFeed ==
  LET h == head(runlog) IN
    /\ pc = "Scanned" /\ pc' = "Fed"
    /\ SaveRuns
    /\ seeded' = TRUE
    /\ lastKey' = Key(h)
    /\ queue' = IF NewHead(h) THEN enqueue(queue, h) ELSE queue
    /\ UNCHANGED <<state, fault, runlog, rows, pushed, faultVars, condition, flowing, override,
                   nvsFaults, sending, sent, unlogged>>

\* The fault log is written as soon as it has changed.
SaveFaults ==
  /\ pc = "Fed" /\ pc' = "Stored"
  /\ nvsFaults' = IF faultDirty THEN FaultLog!serialize(faultlog) ELSE nvsFaults
  /\ faultDirty' = FALSE
  /\ UNCHANGED <<state, fault, runVars, faultlog, prevFault, entries, logged, condition,
                 flowing, override, nvsRuns, feedVars, taskVars, unlogged>>

\* The verdict of the flow detectors; the override mutes it.
Verdict ==
  \/ state = "Idle"   /\ ~override /\ RaiseFault("UnexpectedFlow")
  \/ state = "Active" /\ ~override /\ RaiseFault("NoFlow")
  \/ UNCHANGED <<state, fault, runVars>>

\* setConditionActive(UnexpectedFlow): the rate alone, whatever the state.
Condition_WhenIdle == ~override /\ flowing /\ state' = "Idle"

Condition == ~override /\ flowing

\* FaultManager::tick: the edge into a latch.
LatchEdge == IF fault' # NoFault /\ fault' # prevFault THEN fault' ELSE NoFault

\* The rest of the pass: the verdict, the note of an abort, the condition, the
\* manager's tick and the valve monitor's note.
Surface ==
  /\ pc = "Stored" /\ pc' = "Surfaced"
  /\ Verdict
  /\ condition' = Condition
  /\ \E aborted \in {NoFault, "Watchdog"}, flagged \in {NoFault, "ValveRest"} :
       /\ aborted # NoFault => state' = "Active"
       /\ flagged # NoFault => state' \in {"Settle", "Idle"}
       /\ AppendFaults(aborted, LatchEdge, flagged)
  /\ prevFault' = fault'
  /\ unlogged' = ((unlogged \/ state # state') /\ LatchEdge = NoFault)
  /\ UNCHANGED <<flowing, override, flashVars, feedVars, taskVars>>

Unlock ==
  /\ pc = "Surfaced" /\ pc' = "Out"
  /\ UNCHANGED <<state, fault, runVars, faultVars, condition, flowing, override,
                 flashVars, feedVars, taskVars, unlogged>>

-----------------------------------------------------------------------------
(* Handlers, between two passes. *)

PostRun ==
  /\ pc = "Out" /\ state = "Idle"
  /\ state' = "Active"
  /\ UNCHANGED <<pc, fault, runVars, faultVars, condition, flowing, override,
                 flashVars, feedVars, taskVars, unlogged>>

\* POST /api/fault/clear.
PostFaultClear ==
  /\ pc = "Out" /\ clearAllowed(condition)
  /\ requestClear
  /\ UNCHANGED <<pc, runVars, faultlog, faultDirty, entries, logged, condition,
                 flowing, override, flashVars, feedVars, taskVars>>

\* The override in POST /api/settings: switching it on takes the condition
\* down and clears a latched flow fault.
PostSettings(on) ==
  /\ pc = "Out"
  /\ override' = on
  /\ condition' = (condition /\ ~on)
  /\ IF on /\ fault \in {"NoFlow", "UnexpectedFlow"} /\ clearAllowed(condition')
       THEN requestClear
       ELSE UNCHANGED <<state, fault, unlogged, prevFault>>
  /\ UNCHANGED <<pc, runVars, faultlog, faultDirty, entries, logged, flowing,
                 flashVars, feedVars, taskVars>>

\* POST /api/calibrate/finish with a number out of range.
PostCalFinish ==
  /\ pc = "Out"
  /\ state \in {"Idle", "Active"}
  /\ RaiseFault("CalRange")
  /\ unlogged' = TRUE
  /\ UNCHANGED <<pc, faultVars, condition, flowing, override, flashVars, feedVars, taskVars>>

-----------------------------------------------------------------------------
(* The publisher's task. *)

Receive ==
  /\ sending = Nothing /\ queue # <<>>
  /\ sending' = Head(queue) /\ queue' = Tail(queue)
  /\ UNCHANGED <<pc, state, fault, runVars, faultVars, condition, flowing, override,
                 flashVars, feedVars, sent, unlogged>>

Published ==
  /\ sending # Nothing
  /\ sent' = sending /\ sending' = Nothing
  /\ UNCHANGED <<pc, state, fault, runVars, faultVars, condition, flowing, override,
                 flashVars, feedVars, queue, unlogged>>

\* A missed publish goes back to the front, if there is still room.
Requeue_Back(q, id) == IF Len(q) < QueueDepth THEN Append(q, id) ELSE q

Requeue(q, id) == IF Len(q) < QueueDepth THEN <<id>> \o q ELSE q

NotPublished ==
  /\ sending # Nothing
  /\ queue' = Requeue(queue, sending) /\ sending' = Nothing
  /\ UNCHANGED <<pc, state, fault, runVars, faultVars, condition, flowing, override,
                 flashVars, feedVars, sent, unlogged>>

-----------------------------------------------------------------------------
(* Resets. *)

\* setup(), with these blobs in flash: the rings come back, the latch and the
\* feed are new, the history is enqueued again.
Boot(runs, faults) ==
  /\ pc' = "Out" /\ state' = "Idle" /\ fault' = NoFault /\ unlogged' = FALSE
  /\ runlog' = deserialize(runs) /\ runDirty' = FALSE /\ rows' = runs
  /\ faultlog' = FaultLog!deserialize(faults) /\ faultDirty' = FALSE /\ entries' = faults
  /\ prevFault' = NoFault
  /\ condition' = FALSE /\ flowing' = FALSE
  /\ seeded' = FALSE /\ lastKey' = Nothing
  /\ queue' = Backlog(runs) /\ sending' = Nothing /\ sent' = Nothing
  /\ UNCHANGED <<override, pushed, logged>>

\* Power loss, a crash, or the restart after an upload: nothing is flushed.
Reset ==
  /\ Boot(nvsRuns, nvsFaults)
  /\ UNCHANGED flashVars

\* The nightly reboot of a controller at rest flushes what is dirty.
FlushedRuns == IF runDirty THEN serialize(runlog) ELSE nvsRuns
FlushedFaults_Clean == nvsFaults

FlushedFaults == IF faultDirty THEN FaultLog!serialize(faultlog) ELSE nvsFaults

NightlyReboot ==
  /\ pc = "Surfaced" /\ state = "Idle"
  /\ nvsRuns' = FlushedRuns /\ nvsFaults' = FlushedFaults
  /\ Boot(nvsRuns', nvsFaults')

Next ==
  \/ Tick \/ ScanMissed \/ SaveAndFeed \/ SaveFaults \/ Surface \/ Unlock
  \/ PostRun \/ PostFaultClear \/ PostCalFinish
  \/ \E on \in BOOLEAN : PostSettings(on)
  \/ Receive \/ Published \/ NotPublished
  \/ Reset \/ NightlyReboot

Spec == Init /\ [][Next]_vars

-----------------------------------------------------------------------------
(* Properties. *)

\* Both rings hold exactly the newest of what was pushed since the last boot
\* on top of what came back from flash, however often they have wrapped.
RingsKeepNewest ==
  serialize(runlog) = rows /\ FaultLog!serialize(faultlog) = entries

\* A log that is not marked dirty is in flash as it is in memory.
FlashIsCurrent ==
  /\ ~runDirty => nvsRuns = rows
  /\ ~faultDirty => nvsFaults = entries

\* A pass ends with the latched fault in the fault log: the same fault latched
\* again right after a clear, before the next pass, has an entry of its own.
\* (FaultManager::requestClear: "a re-raise of the SAME code inside the
\* current tick window must still log".)
LatchIsLogged == pc = "Surfaced" => ~unlogged

\* An unexpected flow is cleared only when the last reading showed none, or by
\* an operator who has declared the sensor untrustworthy.
ClearIsSafe ==
  [][(PostFaultClear \/ \E on \in BOOLEAN : PostSettings(on)) /\ fault = "UnexpectedFlow"
       /\ fault' = NoFault => ~flowing \/ override']_vars

\* Between two boots the broker gets the rows in the order they were logged,
\* none twice, through replays of the history, a full queue and failed sends.
FedInOrder ==
  LET line == <<sent>> \o (IF sending = Nothing THEN <<>> ELSE <<sending>>) \o queue
  IN  \A k \in 1 .. Len(line) - 1 : line[k] < line[k + 1]

\* The nightly reboot loses no row and no fault entry.
NightlyKeepsRecords ==
  [][NightlyReboot => rows' = rows /\ entries' = entries]_vars
=============================================================================
