----------------------------- MODULE OtaUpload -----------------------------
(***************************************************************************)
(* POST /api/ota: an image streams into the other flash slot, chunk by     *)
(* chunk, on the web server's task.  The state of an upload is shared by   *)
(* all requests and belongs to one of them at a time.  While it lasts, and *)
(* after a success until the restart, the run controller is inhibited.     *)
(*                                                                         *)
(* A request is the pointer the server hands out, so a later request may   *)
(* have the pointer of an earlier one that is gone.  The web server's task *)
(* runs one handler at a time, but only the gate's part of the first       *)
(* chunk's handler is under the mutex: what comes before and after it      *)
(* interleaves with the loop.  A form carries one file.                    *)
(***************************************************************************)
CONSTANTS
  Uploads,          \* the requests, as pointers
  Nobody            \* nullptr

VARIABLES
  conn,             \* each request: "closed", "open", "streaming" or "answered"
  owner,            \* otaOwner_
  refused,          \* otaRejectCode_ # 0
  begun,            \* otaBegun_
  task,             \* the handler in progress past its gate: a request, "lift", or Nobody
  otaActive,        \* the controller's inhibit
  restart,          \* restartDeadlineMs_ # 0
  image             \* no code keeps it: whose chunks the slot has had since it was erased

otaVars == <<conn, owner, refused, begun, task, otaActive, restart, image>>

OtaTypeOK ==
  /\ conn \in [Uploads -> {"closed", "open", "streaming", "answered"}]
  /\ owner \in Uploads \cup {Nobody}
  /\ refused \in BOOLEAN /\ begun \in BOOLEAN
  /\ task \in Uploads \cup {"lift", Nobody}
  /\ otaActive \in BOOLEAN /\ restart \in BOOLEAN
  /\ image \subseteq Uploads

OtaInit ==
  /\ conn = [r \in Uploads |-> "closed"]
  /\ owner = Nobody /\ refused = FALSE /\ begun = FALSE
  /\ task = Nobody /\ otaActive = FALSE /\ restart = FALSE
  /\ image = {}

TaskIsFree == task = Nobody

Connect(r) ==
  /\ conn[r] = "closed"
  /\ conn' = [conn EXCEPT ![r] = "open"]
  /\ UNCHANGED <<owner, refused, begun, task, otaActive, restart, image>>

-----------------------------------------------------------------------------
(* otaChunk *)

Arrives(r) ==
  /\ TaskIsFree /\ conn[r] = "open"
  /\ conn' = [conn EXCEPT ![r] = "streaming"]

\* Another request owns the state: this one will drain.
Busy_Never(r) == FALSE

Busy(r) == owner \notin {r, Nobody}

ChunkWhileBusy(r) ==
  /\ Arrives(r) /\ Busy(r)
  /\ UNCHANGED <<owner, refused, begun, task, otaActive, restart, image>>

TakeState(r) == owner' = r /\ begun' = FALSE

\* A bad key, or a mutex that could not be had in LOCK_TIMEOUT_MS.
ClaimTurnedAway(r) ==
  /\ Arrives(r) /\ ~Busy(r)
  /\ TakeState(r) /\ refused' = TRUE
  /\ UNCHANGED <<task, otaActive, restart, image>>

\* Api::postOtaBegin under the mutex; safe: at rest or faulted, nothing queued.
GateOpens(safe) == ~otaActive /\ safe

Claim(r, safe) ==
  /\ Arrives(r) /\ ~Busy(r)
  /\ TakeState(r)
  /\ IF GateOpens(safe)
       THEN refused' = FALSE /\ otaActive' = TRUE /\ task' = r
       ELSE refused' = TRUE /\ UNCHANGED <<otaActive, task>>
  /\ UNCHANGED <<restart, image>>

\* Update.begin and the write of the first chunk, outside the mutex.
Begin(r) ==
  /\ task = r
  /\ image' = {r} /\ begun' = TRUE /\ task' = Nobody
  /\ UNCHANGED <<conn, owner, refused, otaActive, restart>>

BeginFails(r) ==
  /\ task = r
  /\ refused' = TRUE /\ begun' = FALSE /\ task' = "lift"
  /\ image' \in {{}, {r}}
  /\ UNCHANGED <<conn, owner, otaActive, restart>>

Streams(r) == r = owner /\ ~refused /\ begun

\* A later chunk; of a request that does not own the state it is drained.
Chunk(r) ==
  /\ TaskIsFree /\ conn[r] = "streaming" /\ Streams(r)
  /\ image' = image \cup {r}
  /\ UNCHANGED <<conn, owner, refused, begun, task, otaActive, restart>>

ChunkFails(r) ==
  /\ TaskIsFree /\ conn[r] = "streaming" /\ Streams(r)
  /\ refused' = TRUE /\ begun' = FALSE /\ task' = "lift"
  /\ UNCHANGED <<conn, owner, otaActive, restart, image>>

\* otaLiftInhibit: with the mutex, or without it past LOCK_TIMEOUT_MS.
Lift ==
  /\ task = "lift"
  /\ otaActive' = FALSE /\ task' = Nobody
  /\ UNCHANGED <<conn, owner, refused, begun, restart, image>>

-----------------------------------------------------------------------------
(* otaFinish and the disconnect *)

Answer(r) ==
  /\ TaskIsFree /\ conn[r] \in {"open", "streaming"}
  /\ conn' = [conn EXCEPT ![r] = "answered"]

\* 409: lost the claim.
FinishLoser(r) ==
  /\ Answer(r) /\ r # owner
  /\ UNCHANGED <<owner, refused, begun, task, otaActive, restart, image>>

\* The refusal's code, or 400 for no image.
FinishRefused(r) ==
  /\ Answer(r) /\ r = owner /\ (refused \/ ~begun)
  /\ owner' = Nobody
  /\ UNCHANGED <<refused, begun, task, otaActive, restart, image>>

FinishFlashed(r) ==
  /\ Answer(r) /\ r = owner /\ ~refused /\ begun
  /\ owner' = Nobody /\ begun' = FALSE /\ restart' = TRUE
  /\ UNCHANGED <<refused, task, otaActive, image>>

FinishInvalid(r) ==
  /\ Answer(r) /\ r = owner /\ ~refused /\ begun
  /\ owner' = Nobody /\ begun' = FALSE /\ task' = "lift"
  /\ UNCHANGED <<refused, otaActive, restart, image>>

\* onDisconnect, at any point of the request's life.
LiftOnDrop == IF begun THEN "lift" ELSE Nobody

Disconnect(r) ==
  /\ TaskIsFree /\ conn[r] # "closed"
  /\ conn' = [conn EXCEPT ![r] = "closed"]
  /\ IF owner = r THEN owner' = Nobody /\ begun' = FALSE /\ task' = LiftOnDrop
                  ELSE UNCHANGED <<owner, begun, task>>
  /\ UNCHANGED <<refused, otaActive, restart, image>>

\* The steps of the web server's task that need no mutex.
UploadStep(r) ==
  \/ Connect(r)
  \/ ChunkWhileBusy(r) \/ ClaimTurnedAway(r)
  \/ Begin(r) \/ BeginFails(r) \/ Chunk(r) \/ ChunkFails(r)
  \/ FinishLoser(r) \/ FinishRefused(r) \/ FinishFlashed(r) \/ FinishInvalid(r)
  \/ Disconnect(r)
=============================================================================
