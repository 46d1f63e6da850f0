--------------------------- MODULE Tenants_proofs ---------------------------
(***************************************************************************)
(* Theorems about Tenants, for every set of uploads, queue and range of    *)
(* the pulse counter.  The invariant has three parts, each inductive with  *)
(* what the others give it: the upload's (whoever owns its state streams,  *)
(* and of a handler past its gate, an image begun and a restart asked for  *)
(* there is at most one), the controller's (an inhibit means rest; a       *)
(* calibration that runs, and has not strayed, holds the run), and the     *)
(* tally's.                                                                *)
(***************************************************************************)
EXTENDS Tenants, TLAPS

OwnerStreams ==
  /\ owner # Nobody => conn[owner] = "streaming"
  /\ begun => owner # Nobody
  /\ task \in Uploads => owner = task

OneHoldsIt ==
  /\ begun => ~restart /\ task = Nobody
  /\ restart => task = Nobody

\* A refusal has given up whatever was begun.
BegunIsLive == begun \/ task \in Uploads => ~refused

ImageIsOnes ==
  /\ begun => image = {owner}
  /\ restart => \E r \in Uploads : image = {r}

OtaInv ==
  OtaTypeOK /\ OwnerStreams /\ OneHoldsIt /\ BegunIsLive /\ ImageIsOnes /\ InhibitIsExact

RunTypeOK ==
  /\ pc \in {"Out", "Ticked", "Read", "Judged"}
  /\ state \in {"Idle", "Active", "Settle", "Fault"}
  /\ queue \in 0 .. MaxQueue
  /\ stopping \in BOOLEAN
  /\ holder \in Holders

InhibitRests == otaActive => AtRest

IdleIsNobodys == state = "Idle" => holder = "none"

RunningIsOwn ==
  phase = "Running" =>
    IF strayed THEN holder # "cal"
    ELSE /\ holder = "cal" /\ state # "Idle"
         /\ state = "Settle" => pc \in {"Ticked", "Read"}

RunInv == RunTypeOK /\ InhibitRests /\ IdleIsNobodys /\ RunningIsOwn

TallyTypeOK == CalTypeOK /\ own \in 0 .. Wrap - 1 /\ strayed \in BOOLEAN

TallyInv == TallyTypeOK /\ TallyIsItsOwn

Inv == OtaInv /\ RunInv /\ TallyInv

-----------------------------------------------------------------------------
(* The counter's arithmetic                                                *)

LEMMA ModSmall ==
  ASSUME NEW x \in Nat, NEW w \in Nat, x < w
  PROVE  x % w = x
  OBVIOUS

LEMMA ModOnce ==
  ASSUME NEW x \in Nat, NEW w \in Nat, w <= x, x < 2 * w
  PROVE  x % w = x - w
  OBVIOUS

\* The distance from a to b around a counter's range.
LEMMA Around ==
  ASSUME NEW a \in Nat, NEW b \in Nat, NEW w \in Nat, a < w, b < w
  PROVE  (b + w - a) % w = IF a <= b THEN b - a ELSE b + w - a
<1>1. CASE a <= b
  <2>1. b + w - a \in Nat /\ w <= b + w - a /\ b + w - a < 2 * w
    BY <1>1
  <2>2. (b + w - a) % w = (b + w - a) - w
    BY <2>1, ModOnce
  <2> QED
    BY <1>1, <2>2
<1>2. CASE ~(a <= b)
  <2>1. b + w - a \in Nat /\ b + w - a < w
    BY <1>2
  <2>2. (b + w - a) % w = b + w - a
    BY <2>1, ModSmall
  <2> QED
    BY <1>2, <2>2
<1> QED
  BY <1>1, <1>2

\* One more pulse is one more counted, across the turn too.
LEMMA OneMore ==
  ASSUME NEW a \in Nat, NEW b \in Nat, NEW w \in Nat, a < w, b < w, 1 < w,
         (b + w - a) % w < w - 1
  PROVE  (((b + 1) % w) + w - a) % w = ((b + w - a) % w) + 1
<1>1. (b + w - a) % w = IF a <= b THEN b - a ELSE b + w - a
  BY Around
<1>2. CASE b + 1 < w
  <2>1. (b + 1) % w = b + 1
    BY <1>2, ModSmall
  <2>2. ((b + 1) + w - a) % w = IF a <= b + 1 THEN (b + 1) - a ELSE (b + 1) + w - a
    <3>1. \A c \in Nat : c < w => (c + w - a) % w = IF a <= c THEN c - a ELSE c + w - a
      BY Around
    <3>2. b + 1 \in Nat
      OBVIOUS
    <3> QED
      BY Zenon, <3>1, <3>2, <1>2
  <2>3. a # b + 1
    <3>1. CASE a <= b
      BY <3>1
    <3>2. CASE ~(a <= b)
      BY <1>1, <3>2
    <3> QED
      BY <3>1, <3>2
  <2> QED
    BY <1>1, <2>1, <2>2, <2>3
<1>3. CASE b + 1 = w
  <2>1. (b + 1) % w = 0
    BY <1>3, ModOnce
  <2>2. (0 + w - a) % w = IF a <= 0 THEN 0 ELSE w - a
    BY Around
  <2>3. a # 0 /\ a <= b
    BY <1>1, <1>3
  <2> QED
    BY <1>1, <1>3, <2>1, <2>2, <2>3
<1> QED
  BY <1>2, <1>3

-----------------------------------------------------------------------------
(* The upload                                                              *)

\* Whoever claims finds the state nobody's, and no image begun.
LEMMA ClaimsTheFree ==
  ASSUME OtaInv, NEW r \in Uploads, Arrives(r), ~Busy(r)
  PROVE  owner = Nobody /\ ~begun /\ task = Nobody
<1>1. conn[r] = "open" /\ task = Nobody
  BY Zenon DEF Arrives, TaskIsFree
<1>2. owner = r \/ owner = Nobody
  BY Zenon DEF Busy
<1>3. owner # r
  BY Zenon, <1>1, TenantsAssumption DEF OtaInv, OwnerStreams
<1> QED
  BY Zenon, <1>1, <1>2, <1>3 DEF OtaInv, OwnerStreams

LEMMA ConnTypes ==
  ASSUME OtaTypeOK, NEW r \in Uploads,
         NEW c \in {"closed", "open", "streaming", "answered"},
         conn' = [conn EXCEPT ![r] = c]
  PROVE  /\ conn' \in [Uploads -> {"closed", "open", "streaming", "answered"}]
         /\ conn'[r] = c
         /\ \A q \in Uploads \ {r} : conn'[q] = conn[q]
  BY DEF OtaTypeOK

OtaRest == <<refused, begun, task, otaActive, restart, image>>

\* A connection of someone who does not own the state is nothing to it.
LEMMA OthersConn ==
  ASSUME OtaInv, NEW r \in Uploads, r # owner,
         NEW c \in {"closed", "open", "streaming", "answered"},
         conn' = [conn EXCEPT ![r] = c], UNCHANGED <<owner, OtaRest>>
  PROVE  OtaInv'
<1>1. /\ conn' \in [Uploads -> {"closed", "open", "streaming", "answered"}]
      /\ \A q \in Uploads \ {r} : conn'[q] = conn[q]
  BY Zenon, ConnTypes DEF OtaInv
<1>2. /\ owner' = owner /\ refused' = refused /\ begun' = begun /\ task' = task
      /\ otaActive' = otaActive /\ restart' = restart /\ image' = image
  BY Zenon DEF OtaRest
<1>3. OtaTypeOK'
  BY Zenon, <1>1, <1>2 DEF OtaInv, OtaTypeOK
<1>4. owner # Nobody => owner \in Uploads \ {r}
  BY Zenon DEF OtaInv, OtaTypeOK
<1>5. OwnerStreams'
  BY Zenon, <1>1, <1>2, <1>4 DEF OtaInv, OwnerStreams
<1>6. OneHoldsIt' /\ BegunIsLive' /\ ImageIsOnes' /\ InhibitIsExact'
  BY Zenon, <1>2 DEF OtaInv, OneHoldsIt, BegunIsLive, ImageIsOnes, InhibitIsExact
<1> QED
  BY Zenon, <1>3, <1>5, <1>6 DEF OtaInv

\* A claim turned away leaves a state without an image.
LEMMA TurnedAway ==
  ASSUME OtaInv, NEW r \in Uploads, Arrives(r), ~Busy(r), TakeState(r), refused' = TRUE,
         UNCHANGED <<task, otaActive, restart, image>>
  PROVE  OtaInv'
<1>1. owner = Nobody /\ ~begun /\ task = Nobody
  BY ClaimsTheFree
<1>2. owner' = r /\ begun' = FALSE /\ conn' = [conn EXCEPT ![r] = "streaming"]
  BY Zenon DEF TakeState, Arrives
<1>3. conn' \in [Uploads -> {"closed", "open", "streaming", "answered"}]
      /\ conn'[r] = "streaming"
  BY Zenon, <1>2, ConnTypes DEF OtaInv
<1>4. OtaTypeOK'
  BY Zenon, <1>2, <1>3 DEF OtaInv, OtaTypeOK
<1>5. OwnerStreams'
  BY Zenon, <1>1, <1>2, <1>3, TenantsAssumption DEF OwnerStreams
<1>6. OneHoldsIt' /\ BegunIsLive' /\ ImageIsOnes' /\ InhibitIsExact'
  BY Zenon, <1>1, <1>2, TenantsAssumption
     DEF OtaInv, OneHoldsIt, BegunIsLive, ImageIsOnes, InhibitIsExact
<1> QED
  BY Zenon, <1>4, <1>5, <1>6 DEF OtaInv

\* The gate opens on a box without an image, a lift to come or a restart.
LEMMA ClaimStep ==
  ASSUME OtaInv, NEW r \in Uploads, NEW safe, Claim(r, safe)
  PROVE  OtaInv'
<1>1. Arrives(r) /\ ~Busy(r) /\ TakeState(r) /\ UNCHANGED <<restart, image>>
  BY Zenon DEF Claim
<1>2. CASE GateOpens(safe)
  <2>1. owner = Nobody /\ ~begun /\ task = Nobody /\ ~restart
    BY Zenon, <1>1, <1>2, ClaimsTheFree DEF GateOpens, OtaInv, InhibitIsExact
  <2>2. /\ owner' = r /\ begun' = FALSE /\ conn' = [conn EXCEPT ![r] = "streaming"]
        /\ refused' = FALSE /\ otaActive' = TRUE /\ task' = r
        /\ restart' = restart /\ image' = image
    BY Zenon, <1>1, <1>2 DEF TakeState, Arrives, Claim
  <2>3. conn' \in [Uploads -> {"closed", "open", "streaming", "answered"}]
        /\ conn'[r] = "streaming"
    BY Zenon, <2>2, ConnTypes DEF OtaInv
  <2>4. OtaTypeOK'
    BY Zenon, <2>2, <2>3 DEF OtaInv, OtaTypeOK
  <2>5. OwnerStreams'
    BY Zenon, <2>2, <2>3 DEF OwnerStreams
  <2>6. task' # Nobody
    BY Zenon, <2>2, TenantsAssumption
  <2>7. OneHoldsIt' /\ BegunIsLive' /\ ImageIsOnes' /\ InhibitIsExact'
    BY Zenon, <2>1, <2>2, <2>6 DEF OneHoldsIt, BegunIsLive, ImageIsOnes, InhibitIsExact
  <2> QED
    BY Zenon, <2>4, <2>5, <2>7 DEF OtaInv
<1>3. CASE ~GateOpens(safe)
  <2>1. refused' = TRUE /\ UNCHANGED <<otaActive, task>>
    BY Zenon, <1>3 DEF Claim
  <2> QED
    BY <1>1, <2>1, TurnedAway
<1> QED
  BY <1>2, <1>3

\* A handler past its gate ends: the slot is erased for its owner, or not.
LEMMA BeginStep == ASSUME OtaInv, NEW r \in Uploads, Begin(r) PROVE OtaInv'
<1>1. /\ task = r /\ image' = {r} /\ begun' = TRUE /\ task' = Nobody
      /\ conn' = conn /\ owner' = owner /\ refused' = refused
      /\ otaActive' = otaActive /\ restart' = restart
  BY Zenon DEF Begin
<1>2. owner = r /\ r # Nobody
  BY Zenon, <1>1, TenantsAssumption DEF OtaInv, OwnerStreams
<1>3. ~restart /\ ~begun /\ otaActive /\ ~refused
  BY Zenon, <1>1, <1>2 DEF OtaInv, OneHoldsIt, BegunIsLive, InhibitIsExact
<1>4. OtaTypeOK'
  <2>1. image' \subseteq Uploads
    BY <1>1
  <2> QED
    BY Zenon, <1>1, <2>1 DEF OtaInv, OtaTypeOK
<1>5. OwnerStreams'
  BY Zenon, <1>1, <1>2, TenantsAssumption DEF OtaInv, OwnerStreams
<1>6. OneHoldsIt' /\ BegunIsLive' /\ ImageIsOnes' /\ InhibitIsExact'
  BY Zenon, <1>1, <1>2, <1>3 DEF OneHoldsIt, BegunIsLive, ImageIsOnes, InhibitIsExact
<1> QED
  BY Zenon, <1>4, <1>5, <1>6 DEF OtaInv

\* Giving up: the lift is still to come, and the inhibit stays until then.
LEMMA GivesUp ==
  ASSUME OtaInv, begun \/ task \in Uploads,
         begun' = FALSE, task' = "lift", UNCHANGED <<otaActive, restart>>,
         refused' \in BOOLEAN, image' \subseteq Uploads,
         conn' \in [Uploads -> {"closed", "open", "streaming", "answered"}],
         owner' \in Uploads \cup {Nobody},
         owner' # Nobody => conn'[owner'] = "streaming"
  PROVE  OtaInv'
<1>1. ~restart /\ otaActive /\ otaActive' = otaActive /\ restart' = restart
  BY Zenon, TenantsAssumption DEF OtaInv, OneHoldsIt, InhibitIsExact
<1>2. OtaTypeOK'
  BY Zenon, <1>1 DEF OtaInv, OtaTypeOK
<1>3. OwnerStreams'
  BY Zenon, TenantsAssumption DEF OwnerStreams
<1>4. ~begun' /\ ~restart' /\ otaActive' /\ task' # Nobody /\ task' \notin Uploads
  <2>1. ~begun'
    OBVIOUS
  <2>2. ~restart' /\ otaActive'
    BY <1>1
  <2>3. task' # Nobody /\ task' \notin Uploads
    BY Zenon, TenantsAssumption
  <2> QED
    BY Zenon, <2>1, <2>2, <2>3
<1>5. OneHoldsIt' /\ BegunIsLive' /\ ImageIsOnes' /\ InhibitIsExact'
  BY Zenon, <1>4 DEF OneHoldsIt, BegunIsLive, ImageIsOnes, InhibitIsExact
<1> QED
  BY Zenon, <1>2, <1>3, <1>5 DEF OtaInv

LEMMA BeginFailsStep == ASSUME OtaInv, NEW r \in Uploads, BeginFails(r) PROVE OtaInv'
<1>1. /\ task \in Uploads /\ begun' = FALSE /\ task' = "lift" /\ refused' = TRUE
      /\ conn' = conn /\ owner' = owner /\ otaActive' = otaActive /\ restart' = restart
  BY Zenon DEF BeginFails
<1>2. image' \subseteq Uploads
  BY DEF BeginFails
<1>3. UNCHANGED <<otaActive, restart>>
  BY Zenon, <1>1
<1>4. /\ conn' \in [Uploads -> {"closed", "open", "streaming", "answered"}]
      /\ owner' \in Uploads \cup {Nobody} /\ refused' \in BOOLEAN
      /\ owner' # Nobody => conn'[owner'] = "streaming"
  BY Zenon, <1>1 DEF OtaInv, OtaTypeOK, OwnerStreams
<1> QED
  BY Zenon, <1>1, <1>2, <1>3, <1>4, GivesUp

\* A chunk is the owner's, into the owner's image.
LEMMA ChunkStep == ASSUME OtaInv, NEW r \in Uploads, Chunk(r) PROVE OtaInv'
<1>1. /\ begun /\ r = owner /\ image' = image \cup {r}
      /\ conn' = conn /\ owner' = owner /\ refused' = refused /\ begun' = begun
      /\ task' = task /\ otaActive' = otaActive /\ restart' = restart
  BY Zenon DEF Chunk, Streams
<1>2. image = {r}
  BY Zenon, <1>1 DEF OtaInv, ImageIsOnes
<1>3. image' = image
  BY <1>1, <1>2
<1> QED
  BY Zenon, <1>1, <1>3
     DEF OtaInv, OtaTypeOK, OwnerStreams, OneHoldsIt, BegunIsLive, ImageIsOnes,
         InhibitIsExact

LEMMA ChunkFailsStep == ASSUME OtaInv, NEW r \in Uploads, ChunkFails(r) PROVE OtaInv'
<1>1. /\ begun /\ begun' = FALSE /\ task' = "lift" /\ refused' = TRUE
      /\ conn' = conn /\ owner' = owner
      /\ otaActive' = otaActive /\ restart' = restart /\ image' = image
  BY Zenon DEF ChunkFails, Streams
<1>2. UNCHANGED <<otaActive, restart>>
  BY Zenon, <1>1
<1>3. /\ conn' \in [Uploads -> {"closed", "open", "streaming", "answered"}]
      /\ owner' \in Uploads \cup {Nobody} /\ refused' \in BOOLEAN /\ image' \subseteq Uploads
      /\ owner' # Nobody => conn'[owner'] = "streaming"
  BY Zenon, <1>1 DEF OtaInv, OtaTypeOK, OwnerStreams
<1> QED
  BY Zenon, <1>1, <1>2, <1>3, GivesUp

LEMMA LiftStep == ASSUME OtaInv, Lift PROVE OtaInv'
<1>1. /\ task = "lift" /\ otaActive' = FALSE /\ task' = Nobody
      /\ conn' = conn /\ owner' = owner /\ refused' = refused /\ begun' = begun
      /\ restart' = restart /\ image' = image
  BY Zenon DEF Lift
<1>2. ~begun /\ ~restart
  BY Zenon, <1>1, TenantsAssumption DEF OtaInv, OneHoldsIt
<1> QED
  BY Zenon, <1>1, <1>2, TenantsAssumption
     DEF OtaInv, OtaTypeOK, OwnerStreams, OneHoldsIt, BegunIsLive, ImageIsOnes,
         InhibitIsExact

\* An answer with nothing of the upload left to undo: a refusal's, or none's.
LEMMA FinishRefusedStep == ASSUME OtaInv, NEW r \in Uploads, FinishRefused(r) PROVE OtaInv'
<1>1. /\ TaskIsFree /\ r = owner /\ owner' = Nobody
      /\ conn' = [conn EXCEPT ![r] = "answered"]
      /\ refused' = refused /\ begun' = begun /\ task' = task
      /\ otaActive' = otaActive /\ restart' = restart /\ image' = image
  BY Zenon DEF FinishRefused, Answer
<1>2. ~begun
  BY Zenon, <1>1 DEF FinishRefused, OtaInv, BegunIsLive
<1>3. conn' \in [Uploads -> {"closed", "open", "streaming", "answered"}]
  BY Zenon, <1>1, ConnTypes DEF OtaInv
<1>4. OtaTypeOK'
  BY Zenon, <1>1, <1>3 DEF OtaInv, OtaTypeOK
<1>5. task' \notin Uploads
  BY Zenon, <1>1, TenantsAssumption DEF TaskIsFree
<1>6. OwnerStreams'
  BY Zenon, <1>1, <1>2, <1>5 DEF OwnerStreams
<1>7. OneHoldsIt' /\ BegunIsLive' /\ ImageIsOnes' /\ InhibitIsExact'
  BY Zenon, <1>1, <1>2 DEF OtaInv, OneHoldsIt, BegunIsLive, ImageIsOnes, InhibitIsExact
<1> QED
  BY Zenon, <1>4, <1>6, <1>7 DEF OtaInv

\* A whole image: the inhibit passes from the upload to the restart.
LEMMA FinishFlashedStep == ASSUME OtaInv, NEW r \in Uploads, FinishFlashed(r) PROVE OtaInv'
<1>1. /\ TaskIsFree /\ begun /\ r = owner /\ owner' = Nobody
      /\ conn' = [conn EXCEPT ![r] = "answered"]
      /\ refused' = refused /\ begun' = FALSE /\ task' = task
      /\ otaActive' = otaActive /\ restart' = TRUE /\ image' = image
  BY Zenon DEF FinishFlashed, Answer
<1>2. otaActive /\ image = {r}
  BY Zenon, <1>1 DEF OtaInv, InhibitIsExact, ImageIsOnes
<1>3. conn' \in [Uploads -> {"closed", "open", "streaming", "answered"}]
  BY Zenon, <1>1, ConnTypes DEF OtaInv
<1>4. OtaTypeOK'
  BY Zenon, <1>1, <1>3 DEF OtaInv, OtaTypeOK
<1>5. task' = Nobody /\ task' \notin Uploads
  BY Zenon, <1>1, TenantsAssumption DEF TaskIsFree
<1>6. OwnerStreams'
  BY Zenon, <1>1, <1>5 DEF OwnerStreams
<1>7. OneHoldsIt' /\ BegunIsLive' /\ ImageIsOnes' /\ InhibitIsExact'
  BY Zenon, <1>1, <1>2, <1>5 DEF OneHoldsIt, BegunIsLive, ImageIsOnes, InhibitIsExact
<1> QED
  BY Zenon, <1>4, <1>6, <1>7 DEF OtaInv

LEMMA FinishInvalidStep == ASSUME OtaInv, NEW r \in Uploads, FinishInvalid(r) PROVE OtaInv'
<1>1. /\ begun /\ begun' = FALSE /\ task' = "lift" /\ owner' = Nobody
      /\ conn' = [conn EXCEPT ![r] = "answered"]
      /\ refused' = refused /\ image' = image
      /\ otaActive' = otaActive /\ restart' = restart
  BY Zenon DEF FinishInvalid, Answer
<1>2. UNCHANGED <<otaActive, restart>>
  BY Zenon, <1>1
<1>3. /\ conn' \in [Uploads -> {"closed", "open", "streaming", "answered"}]
      /\ owner' \in Uploads \cup {Nobody} /\ refused' \in BOOLEAN /\ image' \subseteq Uploads
      /\ owner' # Nobody => conn'[owner'] = "streaming"
  BY Zenon, <1>1, ConnTypes DEF OtaInv, OtaTypeOK
<1> QED
  BY Zenon, <1>1, <1>2, <1>3, GivesUp

\* The owner's connection is gone: its image, if one was begun, is given up.
LEMMA OwnerDrops ==
  ASSUME OtaInv, NEW r \in Uploads, Disconnect(r), owner = r
  PROVE  OtaInv'
<1>1. /\ TaskIsFree /\ owner' = Nobody /\ begun' = FALSE /\ task' = LiftOnDrop
      /\ conn' = [conn EXCEPT ![r] = "closed"]
      /\ refused' = refused /\ image' = image
      /\ otaActive' = otaActive /\ restart' = restart
  BY Zenon DEF Disconnect
<1>2. conn' \in [Uploads -> {"closed", "open", "streaming", "answered"}]
  BY Zenon, <1>1, ConnTypes DEF OtaInv
<1>3. CASE begun
  <2>1. task' = "lift" /\ UNCHANGED <<otaActive, restart>>
    BY Zenon, <1>1, <1>3 DEF LiftOnDrop
  <2>2. /\ owner' \in Uploads \cup {Nobody} /\ refused' \in BOOLEAN /\ image' \subseteq Uploads
        /\ owner' # Nobody => conn'[owner'] = "streaming"
    BY Zenon, <1>1 DEF OtaInv, OtaTypeOK
  <2> QED
    BY Zenon, <1>1, <1>2, <1>3, <2>1, <2>2, GivesUp
<1>4. CASE ~begun
  <2>1. task' = Nobody /\ task = Nobody /\ task' \notin Uploads
    BY Zenon, <1>1, <1>4, TenantsAssumption DEF LiftOnDrop, TaskIsFree
  <2>2. OtaTypeOK'
    BY Zenon, <1>1, <1>2, <2>1 DEF OtaInv, OtaTypeOK
  <2>3. OwnerStreams'
    BY Zenon, <1>1, <2>1 DEF OwnerStreams
  <2>4. OneHoldsIt' /\ BegunIsLive' /\ ImageIsOnes' /\ InhibitIsExact'
    BY Zenon, <1>1, <1>4, <2>1 DEF OtaInv, OneHoldsIt, BegunIsLive, ImageIsOnes, InhibitIsExact
  <2> QED
    BY Zenon, <2>2, <2>3, <2>4 DEF OtaInv
<1> QED
  BY <1>3, <1>4

\* What only moves the connection of one who does not own the state.
LEMMA BystanderStep ==
  ASSUME OtaInv, NEW r \in Uploads,
         \/ Connect(r) \/ ChunkWhileBusy(r) \/ FinishLoser(r)
         \/ Disconnect(r) /\ owner # r
  PROVE  OtaInv'
<1>1. r # owner
  <2>1. CASE Connect(r)
    BY Zenon, <2>1, TenantsAssumption DEF Connect, OtaInv, OwnerStreams
  <2>2. CASE ChunkWhileBusy(r)
    BY Zenon, <2>2 DEF ChunkWhileBusy, Busy
  <2>3. CASE FinishLoser(r)
    BY Zenon, <2>3 DEF FinishLoser
  <2> QED
    BY Zenon, <2>1, <2>2, <2>3
<1>2. UNCHANGED <<owner, OtaRest>>
  BY <1>1 DEF Connect, ChunkWhileBusy, FinishLoser, Disconnect, OtaRest
<1>3. PICK c \in {"closed", "open", "streaming", "answered"} : conn' = [conn EXCEPT ![r] = c]
  BY Zenon DEF Connect, ChunkWhileBusy, FinishLoser, Disconnect, Arrives, Answer
<1> QED
  BY Zenon, <1>1, <1>2, <1>3, OthersConn

LEMMA UploadSteps == ASSUME OtaInv, NEW r \in Uploads, UploadStep(r) PROVE OtaInv'
<1>1. CASE ClaimTurnedAway(r)
  BY Zenon, <1>1, TurnedAway DEF ClaimTurnedAway
<1> QED
  BY Zenon, <1>1, BystanderStep, BeginStep, BeginFailsStep, ChunkStep, ChunkFailsStep,
     FinishRefusedStep, FinishFlashedStep, FinishInvalidStep, OwnerDrops
  DEF UploadStep

-----------------------------------------------------------------------------
(* The controller and whose run it is                                      *)

\* What a step may do to the controller at rest under the inhibit: nothing but
\* latch or clear a fault.
LEMMA RestStays ==
  ASSUME InhibitRests, otaActive' = otaActive,
         Advance \/ Request \/ Stop \/ Latch \/ UNCHANGED runVars
  PROVE  InhibitRests'
<1> SUFFICES ASSUME otaActive PROVE AtRest'
  BY Zenon DEF InhibitRests
<1>1. AtRest
  BY Zenon DEF InhibitRests
<1>2. CASE Advance
  BY <1>1, <1>2 DEF AtRest, Advance, runVars
<1>3. CASE Request
  BY Zenon, <1>3 DEF Request, Takes
<1>4. CASE Stop
  BY <1>1, <1>4 DEF AtRest, Stop, runVars
<1>5. CASE Latch
  BY <1>5 DEF AtRest, Latch
<1>6. CASE UNCHANGED runVars
  BY <1>1, <1>6 DEF AtRest, runVars
<1> QED
  BY <1>2, <1>3, <1>4, <1>5, <1>6

LEMMA RunTypes ==
  ASSUME RunTypeOK, Advance \/ Request \/ Stop \/ Latch \/ UNCHANGED runVars
  PROVE  /\ state' \in {"Idle", "Active", "Settle", "Fault"}
         /\ queue' \in 0 .. MaxQueue /\ stopping' \in BOOLEAN /\ holder' \in Holders
<1> DEFINE States == {"Idle", "Active", "Settle", "Fault"}
           Typed == state' \in States /\ queue' \in 0 .. MaxQueue /\ holder' \in Holders
<1>1. MaxQueue \in Nat \ {0} /\ state \in States /\ queue \in 0 .. MaxQueue /\ holder \in Holders
  BY Zenon, TenantsAssumption DEF RunTypeOK
<1>2. ASSUME Advance PROVE Typed
  BY <1>1, <1>2 DEF Advance, Begins, runVars, Holders
<1>3. ASSUME Request PROVE Typed
  BY <1>1, <1>3 DEF Request, Begins, Holders
<1>4. ASSUME Stop PROVE Typed
  BY <1>1, <1>4 DEF Stop, runVars
<1>5. ASSUME Latch PROVE Typed
  BY <1>1, <1>5 DEF Latch
<1>6. ASSUME UNCHANGED runVars PROVE Typed
  BY <1>1, <1>6 DEF runVars
<1>7. stopping' = stopping \/ stopping' = FALSE \/ stopping' = TRUE
  BY Zenon DEF Advance, Request, Begins, Stop, Latch, runVars
<1>8. stopping' \in BOOLEAN
  BY Zenon, <1>7 DEF RunTypeOK
<1>9. Typed
  BY <1>2, <1>3, <1>4, <1>5, <1>6
<1> QED
  BY Zenon, <1>8, <1>9

LEMMA IdleStays ==
  ASSUME IdleIsNobodys, Advance \/ Request \/ Stop \/ Latch \/ UNCHANGED runVars
  PROVE  IdleIsNobodys'
  BY DEF IdleIsNobodys, Advance, Request, Begins, Stop, Latch, runVars

\* Nobody but the calibration begins a run for the calibration, and a run of
\* its own is not left before its tick has seen it.
LEMMA TickOwn == ASSUME RunInv, Tick PROVE RunningIsOwn'
<1>1. pc = "Out" /\ pc' = "Ticked" /\ phase' = phase /\ strayed' = strayed /\ Advance
  BY DEF Tick, calVars, ghostVars
<1>2. CASE state # "Settle"
  BY <1>1, <1>2 DEF RunInv, RunningIsOwn, Advance, runVars
<1>3. CASE state = "Settle"
  <2>1. phase = "Running" => strayed /\ holder # "cal"
    BY Zenon, <1>1, <1>3, "Out" # "Ticked", "Out" # "Read" DEF RunInv, RunningIsOwn
  <2>2. holder' \in {holder, "none", "other"}
    BY <1>1, <1>3 DEF Advance, Begins, runVars
  <2>3. holder # "cal" => holder' # "cal"
    BY <2>2
  <2> QED
    BY Zenon, <1>1, <2>1, <2>3 DEF RunningIsOwn
<1> QED
  BY <1>2, <1>3

LEMMA RequestOwn ==
  ASSUME RunInv, Request, phase' = phase, strayed' = strayed,
         pc' = pc \/ (pc = "Ticked" /\ pc' = "Read")
  PROVE  RunningIsOwn'
<1>1. CASE state = "Idle"
  <2>1. phase = "Running" => strayed
    BY Zenon, <1>1 DEF RunInv, RunningIsOwn
  <2>2. holder' = "other" /\ holder' # "cal"
    BY <1>1 DEF Request, Begins
  <2> QED
    BY Zenon, <2>1, <2>2 DEF RunningIsOwn
<1>2. CASE state # "Idle"
  <2>1. state' = state /\ holder' = holder
    BY <1>2 DEF Request
  <2>2. pc \in {"Ticked", "Read"} => pc' \in {"Ticked", "Read"}
    BY Zenon
  <2> QED
    BY Zenon, <2>1, <2>2 DEF RunInv, RunningIsOwn
<1> QED
  BY <1>1, <1>2

LEMMA JudgeOwn == ASSUME RunInv, Judge PROVE RunningIsOwn'
<1> SUFFICES ASSUME phase' = "Running"
             PROVE  IF strayed' THEN holder' # "cal"
                    ELSE /\ holder' = "cal" /\ state' # "Idle"
                         /\ state' = "Settle" => pc' \in {"Ticked", "Read"}
  BY Zenon DEF RunningIsOwn
<1>1. strayed' = strayed /\ holder' = holder
  BY DEF Judge, Latch, runVars, ghostVars
<1>2. phase = "Running" /\ state # "Settle" /\ state # "Idle"
  BY DEF Judge, CalTick, Freezes, calVars
<1>3. state' = state \/ state' = "Fault"
  BY DEF Judge, Latch, runVars
<1>4. state' # "Settle" /\ state' # "Idle"
  BY <1>2, <1>3
<1> QED
  BY Zenon, <1>1, <1>2, <1>4 DEF RunInv, RunningIsOwn

LEMMA UnlockOwn == ASSUME RunInv, Unlock PROVE RunningIsOwn'
<1>1. pc = "Judged" /\ state' = state /\ holder' = holder /\ phase' = phase /\ strayed' = strayed
  BY DEF Unlock, runVars, calVars, ghostVars
<1>2. pc \notin {"Ticked", "Read"}
  BY <1>1
<1> QED
  BY Zenon, <1>1, <1>2 DEF RunInv, RunningIsOwn

LEMMA FaultClearOwn == ASSUME RunInv, PostFaultClear PROVE RunningIsOwn'
<1>1. phase' = phase /\ holder' # "cal"
  BY DEF PostFaultClear, calVars
<1>2. phase = "Running" => strayed'
  BY DEF PostFaultClear
<1> QED
  BY Zenon, <1>1, <1>2 DEF RunningIsOwn

LEMMA CalStartOwn == ASSUME RunInv, PostCalStart PROVE RunningIsOwn'
<1>1. ~strayed' /\ holder' = "cal" /\ state' # "Idle" /\ state' # "Settle"
  BY DEF PostCalStart, Begins
<1> QED
  BY Zenon, <1>1 DEF RunningIsOwn

\* A calibration called off or read is not running.
LEMMA CalEnds ==
  ASSUME PostStop \/ \E inRange \in BOOLEAN : PostCalFinish(inRange)
  PROVE  phase' = "Idle"
  BY DEF PostStop, PostCalFinish, CalFinish, CalCancel, CalActive, calVars

-----------------------------------------------------------------------------
(* The invariant's step, action by action                                  *)

\* A boot is Init with the primes on.
LEMMA BootInv == ASSUME Boot PROVE Inv'
<1>1. /\ conn' = [r \in Uploads |-> "closed"] /\ owner' = Nobody /\ refused' = FALSE
      /\ begun' = FALSE /\ task' = Nobody /\ otaActive' = FALSE /\ restart' = FALSE
      /\ image' = {}
  BY Zenon DEF Boot
<1>2. /\ pc' = "Out" /\ state' = "Idle" /\ queue' = 0 /\ stopping' = FALSE
      /\ holder' = "none" /\ own' = 0 /\ strayed' = FALSE
      /\ pulses' = 0 /\ phase' = "Idle" /\ baseline' = 0 /\ tally' = 0
  BY Zenon DEF Boot
<1>3. OtaInv'
  <2>1. OtaTypeOK'
    <3>1. conn' \in [Uploads -> {"closed", "open", "streaming", "answered"}]
          /\ image' \subseteq Uploads
      BY <1>1
    <3> QED
      BY Zenon, <1>1, <3>1 DEF OtaTypeOK
  <2> QED
    BY Zenon, <1>1, <2>1, TenantsAssumption
       DEF OtaInv, OwnerStreams, OneHoldsIt, BegunIsLive, ImageIsOnes, InhibitIsExact
<1>4. RunInv'
  <2>1. queue' \in 0 .. MaxQueue
    BY <1>2, TenantsAssumption
  <2>2. RunTypeOK'
    BY Zenon, <1>2, <2>1 DEF RunTypeOK, Holders
  <2>3. InhibitRests' /\ IdleIsNobodys'
    BY Zenon, <1>1, <1>2 DEF InhibitRests, IdleIsNobodys
  <2>4. RunningIsOwn'
    BY <1>2 DEF RunningIsOwn
  <2> QED
    BY Zenon, <2>2, <2>3, <2>4 DEF RunInv
<1>5. TallyInv'
  <2>1. 0 \in 0 .. Wrap - 1
    BY CalibrationAssumption
  <2>2. TallyTypeOK'
    BY Zenon, <1>2, <2>1 DEF TallyTypeOK, CalTypeOK, Phases
  <2>3. TallyIsItsOwn'
    BY <1>2 DEF TallyIsItsOwn
  <2> QED
    BY Zenon, <2>2, <2>3 DEF TallyInv
<1> QED
  BY Zenon, <1>3, <1>4, <1>5 DEF Inv

LEMMA InitInv == ASSUME Init PROVE Inv
<1>1. /\ conn = [r \in Uploads |-> "closed"] /\ owner = Nobody /\ refused = FALSE
      /\ begun = FALSE /\ task = Nobody /\ otaActive = FALSE /\ restart = FALSE
      /\ image = {}
  BY Zenon DEF Init, OtaInit
<1>2. /\ pc = "Out" /\ state = "Idle" /\ queue = 0 /\ stopping = FALSE
      /\ holder = "none" /\ own = 0 /\ strayed = FALSE
      /\ pulses = 0 /\ phase = "Idle" /\ baseline = 0 /\ tally = 0
  BY Zenon DEF Init, CalInit
<1>3. OtaInv
  <2>1. OtaTypeOK
    <3>1. conn \in [Uploads -> {"closed", "open", "streaming", "answered"}]
          /\ image \subseteq Uploads
      BY <1>1
    <3> QED
      BY Zenon, <1>1, <3>1 DEF OtaTypeOK
  <2> QED
    BY Zenon, <1>1, <2>1, TenantsAssumption
       DEF OtaInv, OwnerStreams, OneHoldsIt, BegunIsLive, ImageIsOnes, InhibitIsExact
<1>4. RunInv
  <2>1. queue \in 0 .. MaxQueue
    BY <1>2, TenantsAssumption
  <2>2. RunTypeOK
    BY Zenon, <1>2, <2>1 DEF RunTypeOK, Holders
  <2>3. InhibitRests /\ IdleIsNobodys
    BY Zenon, <1>1, <1>2 DEF InhibitRests, IdleIsNobodys
  <2>4. RunningIsOwn
    BY <1>2 DEF RunningIsOwn
  <2> QED
    BY Zenon, <2>2, <2>3, <2>4 DEF RunInv
<1>5. TallyInv
  <2>1. 0 \in 0 .. Wrap - 1
    BY CalibrationAssumption
  <2>2. TallyTypeOK
    BY Zenon, <1>2, <2>1 DEF TallyTypeOK, CalTypeOK, Phases
  <2>3. TallyIsItsOwn
    BY <1>2 DEF TallyIsItsOwn
  <2> QED
    BY Zenon, <2>2, <2>3 DEF TallyInv
<1> QED
  BY Zenon, <1>3, <1>4, <1>5 DEF Inv

LEMMA OtaFrame == ASSUME OtaInv, UNCHANGED otaVars PROVE OtaInv'
<1>1. /\ conn' = conn /\ owner' = owner /\ refused' = refused /\ begun' = begun
      /\ task' = task /\ otaActive' = otaActive /\ restart' = restart /\ image' = image
  BY Zenon DEF otaVars
<1> QED
  BY Zenon, <1>1
     DEF OtaInv, OtaTypeOK, OwnerStreams, OneHoldsIt, BegunIsLive, ImageIsOnes, InhibitIsExact

LEMMA TallyFrame ==
  ASSUME TallyInv, UNCHANGED <<pulses, calVars, ghostVars>>
  PROVE  TallyInv'
<1>1. /\ pulses' = pulses /\ phase' = phase /\ baseline' = baseline /\ tally' = tally
      /\ own' = own /\ strayed' = strayed
  BY Zenon DEF calVars, ghostVars
<1>2. TallyTypeOK'
  BY Zenon, <1>1 DEF TallyInv, TallyTypeOK, CalTypeOK
<1>3. Counted' = Counted
  BY <1>1 DEF Counted
<1>4. TallyIsItsOwn'
  BY Zenon, <1>1, <1>3 DEF TallyInv, TallyIsItsOwn
<1> QED
  BY Zenon, <1>2, <1>4 DEF TallyInv

\* A step of the controller's that is one of its calls.
LEMMA RunParts ==
  ASSUME RunInv, Advance \/ Request \/ Stop \/ Latch \/ UNCHANGED runVars,
         pc' \in {"Out", "Ticked", "Read", "Judged"}, otaActive' = otaActive, RunningIsOwn'
  PROVE  RunInv'
<1>1. RunTypeOK /\ InhibitRests /\ IdleIsNobodys
  BY Zenon DEF RunInv
<1>2. RunTypeOK'
  BY Zenon, <1>1, RunTypes DEF RunTypeOK
<1> QED
  BY Zenon, <1>1, <1>2, RestStays, IdleStays DEF RunInv

\* The inhibit comes of a gate that found the controller at rest.
LEMMA GateStep ==
  ASSUME Inv, Upload \/ \E r \in Uploads : PostOtaBegin(r)
  PROVE  Inv'
<1>1. OtaInv'
  BY Zenon, UploadSteps, LiftStep, ClaimStep DEF Inv, Upload, PostOtaBegin
<1>2. UNCHANGED <<pc, runVars, pulses, calVars, ghostVars>>
  BY Zenon DEF Upload, PostOtaBegin
<1>3. /\ pc' = pc /\ state' = state /\ queue' = queue /\ stopping' = stopping
      /\ holder' = holder /\ phase' = phase /\ strayed' = strayed
      /\ UNCHANGED <<pulses, calVars, ghostVars>>
  BY Zenon, <1>2 DEF runVars, calVars, ghostVars
<1>4. TallyInv'
  BY Zenon, <1>3, TallyFrame DEF Inv
<1>5. otaActive' => AtRest
  <2>1. ASSUME NEW r \in Uploads, UploadStep(r) PROVE otaActive' = otaActive
    BY <2>1 DEF UploadStep, Connect, ChunkWhileBusy, ClaimTurnedAway, Begin, BeginFails, Chunk,
                ChunkFails, FinishLoser, FinishRefused, FinishFlashed, FinishInvalid, Disconnect
  <2>2. ASSUME NEW r \in Uploads, PostOtaBegin(r) PROVE otaActive' = otaActive \/ AtRest
    BY Zenon, <2>2 DEF PostOtaBegin, Claim, GateOpens
  <2>3. Lift => otaActive' = FALSE
    BY Zenon DEF Lift
  <2>4. otaActive => AtRest
    BY Zenon DEF Inv, RunInv, InhibitRests
  <2>5. otaActive' = otaActive \/ AtRest \/ otaActive' = FALSE
    BY Zenon, <2>1, <2>2, <2>3 DEF Upload
  <2>6. CASE otaActive' = otaActive
    BY Zenon, <2>4, <2>6
  <2> QED
    BY Zenon, <2>5, <2>6
<1>6. AtRest' <=> AtRest
  BY Zenon, <1>3 DEF AtRest
<1>7. RunInv'
  BY Zenon, <1>3, <1>5, <1>6
     DEF Inv, RunInv, RunTypeOK, InhibitRests, IdleIsNobodys, RunningIsOwn
<1> QED
  BY Zenon, <1>1, <1>4, <1>7 DEF Inv

\* Steps that leave the calibration and the sensor alone.
LEMMA PlainStep == ASSUME Inv, Tick \/ Schedule \/ Unlock \/ PostRun PROVE Inv'
<1>1. UNCHANGED <<pulses, calVars, ghostVars>> /\ UNCHANGED otaVars
  BY Zenon DEF Tick, Schedule, Unlock, PostRun
<1>2. OtaInv' /\ TallyInv'
  BY Zenon, <1>1, OtaFrame, TallyFrame DEF Inv
<1>3. phase' = phase /\ strayed' = strayed /\ otaActive' = otaActive
  BY Zenon, <1>1 DEF calVars, ghostVars, otaVars
<1>4. pc' \in {"Out", "Ticked", "Read", "Judged"}
  BY Zenon DEF Inv, RunInv, RunTypeOK, Tick, Schedule, Unlock, PostRun, Handler
<1>5. RunInv
  BY Zenon DEF Inv
<1>6. CASE Tick
  <2>1. RunningIsOwn' /\ Advance
    BY Zenon, <1>5, <1>6, TickOwn DEF Tick
  <2> QED
    BY Zenon, <1>2, <1>3, <1>4, <1>5, <2>1, RunParts DEF Inv
<1>7. CASE Schedule \/ PostRun
  <2>1. pc' = pc \/ (pc = "Ticked" /\ pc' = "Read")
    BY <1>7 DEF Schedule, PostRun, Handler
  <2>2. CASE Request
    BY Zenon, <1>2, <1>3, <1>4, <1>5, <2>1, <2>2, RequestOwn, RunParts DEF Inv
  <2>3. CASE UNCHANGED runVars
    <3>1. state' = state /\ holder' = holder
      BY Zenon, <2>3 DEF runVars
    <3>2. pc \in {"Ticked", "Read"} => pc' \in {"Ticked", "Read"}
      BY Zenon, <2>1
    <3>3. RunningIsOwn'
      BY Zenon, <1>3, <1>5, <3>1, <3>2 DEF RunInv, RunningIsOwn
    <3> QED
      BY Zenon, <1>2, <1>3, <1>4, <1>5, <2>3, <3>3, RunParts DEF Inv
  <2> QED
    BY Zenon, <1>7, <2>2, <2>3 DEF Schedule, PostRun
<1>8. CASE Unlock
  <2>1. RunningIsOwn' /\ UNCHANGED runVars
    BY Zenon, <1>5, <1>8, UnlockOwn DEF Unlock
  <2> QED
    BY Zenon, <1>2, <1>3, <1>4, <1>5, <2>1, RunParts DEF Inv
<1> QED
  BY Zenon, <1>6, <1>7, <1>8

LEMMA CountedType ==
  ASSUME CalTypeOK
  PROVE  Counted \in 0 .. Wrap - 1 /\ Wrap \in Nat /\ 1 < Wrap /\ pulses \in Nat
         /\ baseline \in Nat /\ pulses < Wrap /\ baseline < Wrap
<1>1. /\ Wrap \in Nat /\ 1 < Wrap /\ pulses \in Nat
      /\ baseline \in Nat /\ pulses < Wrap /\ baseline < Wrap
  BY CalibrationAssumption DEF CalTypeOK
<1>2. Counted = IF baseline <= pulses THEN pulses - baseline ELSE pulses + Wrap - baseline
  BY <1>1, Around DEF Counted
<1> QED
  BY <1>1, <1>2

\* A fault voids the tally, the dwell freezes it as counted.
LEMMA JudgeStep == ASSUME Inv, Judge PROVE Inv'
<1>1. UNCHANGED <<pulses, ghostVars>> /\ UNCHANGED otaVars /\ CalTick(state)
  BY Zenon DEF Judge
<1>2. OtaInv' /\ otaActive' = otaActive
  BY Zenon, <1>1, OtaFrame DEF Inv, otaVars
<1>3. RunInv'
  <2>1. Latch \/ UNCHANGED runVars
    BY Zenon DEF Judge
  <2>2. RunningIsOwn' /\ pc' \in {"Out", "Ticked", "Read", "Judged"}
    BY Zenon, JudgeOwn DEF Inv, Judge
  <2> QED
    BY Zenon, <1>2, <2>1, <2>2, RunParts DEF Inv
<1>4. pulses' = pulses /\ own' = own /\ strayed' = strayed /\ baseline' = baseline
  BY <1>1 DEF ghostVars, CalTick, calVars
<1>5. Counted' = Counted /\ Counted \in 0 .. Wrap - 1 /\ 0 \in 0 .. Wrap - 1
  BY <1>4, CountedType DEF Inv, TallyInv, TallyTypeOK, Counted
<1>6. CASE phase # "Running"
  <2>1. phase' = phase /\ tally' = tally
    BY Zenon, <1>1, <1>6 DEF CalTick, calVars
  <2> QED
    BY Zenon, <1>2, <1>3, <1>4, <1>5, <2>1
       DEF Inv, TallyInv, TallyTypeOK, CalTypeOK, TallyIsItsOwn
<1>7. CASE phase = "Running"
  <2>1. phase' \in {"Idle", "Awaiting", "Running"} /\ tally' \in {0, Counted}
        /\ (phase' # "Idle" => tally' = Counted)
    BY <1>1, <1>7 DEF CalTick
  <2>2. ~strayed => Counted = own
    BY Zenon, <1>7 DEF Inv, TallyInv, TallyIsItsOwn
  <2>3. TallyIsItsOwn'
    <3> SUFFICES ASSUME ~strayed'
                 PROVE  /\ phase' = "Running" => Counted' = own'
                        /\ phase' = "Awaiting" => tally' = own'
      BY Zenon DEF TallyIsItsOwn
    <3>1. Counted = own
      BY Zenon, <1>4, <2>2
    <3> QED
      BY <1>4, <1>5, <2>1, <3>1
  <2>4. tally' \in 0 .. Wrap - 1 /\ phase' \in Phases
    BY <1>5, <2>1 DEF Phases
  <2> QED
    BY Zenon, <1>2, <1>3, <1>4, <2>3, <2>4 DEF Inv, TallyInv, TallyTypeOK, CalTypeOK
<1> QED
  BY <1>6, <1>7

\* A calibration that is over counts for nobody.
LEMMA TallyOver ==
  ASSUME TallyInv, phase' = "Idle", pulses' = pulses, baseline' = baseline,
         tally' \in 0 .. Wrap - 1, own' = 0, strayed' = FALSE
  PROVE  TallyInv'
<1>1. 0 \in 0 .. Wrap - 1
  BY CalibrationAssumption
<1>2. TallyTypeOK'
  BY Zenon, <1>1 DEF TallyInv, TallyTypeOK, CalTypeOK, Phases
<1>3. TallyIsItsOwn'
  BY DEF TallyIsItsOwn
<1> QED
  BY Zenon, <1>2, <1>3 DEF TallyInv

LEMMA CalOverStep ==
  ASSUME Inv, PostStop \/ \E inRange \in BOOLEAN : PostCalFinish(inRange)
  PROVE  Inv'
<1>1. UNCHANGED otaVars /\ pc' = pc /\ pulses' = pulses /\ own' = 0 /\ strayed' = FALSE
      /\ phase' = "Idle"
  BY Zenon, CalEnds DEF PostStop, PostCalFinish, Handler
<1>2. OtaInv' /\ otaActive' = otaActive
  BY Zenon, <1>1, OtaFrame DEF Inv, otaVars
<1>3. baseline' = baseline /\ tally' \in {0, Counted, tally}
  BY DEF PostStop, PostCalFinish, CalFinish, CalCancel, FinalTally, calVars
<1>4. tally' \in 0 .. Wrap - 1
  <2>1. Counted \in 0 .. Wrap - 1 /\ tally \in 0 .. Wrap - 1 /\ 0 \in 0 .. Wrap - 1
    BY CountedType DEF Inv, TallyInv, TallyTypeOK, CalTypeOK
  <2> QED
    BY <1>3, <2>1
<1>5. TallyInv'
  BY Zenon, <1>1, <1>3, <1>4, TallyOver DEF Inv
<1>6. RunInv'
  <2>1. Stop \/ Latch \/ UNCHANGED runVars
    BY Zenon DEF PostStop, PostCalFinish
  <2>2. RunningIsOwn'
    BY <1>1 DEF RunningIsOwn
  <2>3. pc' \in {"Out", "Ticked", "Read", "Judged"}
    BY Zenon, <1>1 DEF Inv, RunInv, RunTypeOK
  <2> QED
    BY Zenon, <1>2, <2>1, <2>2, <2>3, RunParts DEF Inv
<1> QED
  BY Zenon, <1>2, <1>5, <1>6 DEF Inv

LEMMA FaultClearStep == ASSUME Inv, PostFaultClear PROVE Inv'
<1>1. /\ pc' = pc /\ state = "Fault" /\ state' = "Idle" /\ holder' = "none"
      /\ queue' = queue /\ stopping' = stopping
      /\ pulses' = pulses /\ phase' = phase /\ baseline' = baseline /\ tally' = tally
      /\ own' = own /\ UNCHANGED otaVars
  BY DEF PostFaultClear, Handler, calVars
<1>2. OtaInv' /\ otaActive' = otaActive
  BY Zenon, <1>1, OtaFrame DEF Inv, otaVars
<1>3. strayed' = strayed \/ strayed' = TRUE
  BY DEF PostFaultClear, Inv, TallyInv, TallyTypeOK
<1>4. RunInv'
  <2>1. RunningIsOwn'
    BY Zenon, FaultClearOwn DEF Inv
  <2>2. RunTypeOK' /\ IdleIsNobodys'
    BY Zenon, <1>1 DEF Inv, RunInv, RunTypeOK, IdleIsNobodys, Holders
  <2>3. InhibitRests'
    BY Zenon, <1>1, <1>2 DEF Inv, RunInv, InhibitRests, AtRest
  <2> QED
    BY Zenon, <2>1, <2>2, <2>3 DEF RunInv
<1>5. TallyInv'
  <2>1. TallyTypeOK'
    BY Zenon, <1>1, <1>3 DEF Inv, TallyInv, TallyTypeOK, CalTypeOK
  <2>2. Counted' = Counted
    BY <1>1 DEF Counted
  <2>3. TallyIsItsOwn'
    BY Zenon, <1>1, <1>3, <2>2 DEF Inv, TallyInv, TallyIsItsOwn
  <2> QED
    BY Zenon, <2>1, <2>3 DEF TallyInv
<1> QED
  BY Zenon, <1>2, <1>4, <1>5 DEF Inv

LEMMA CalStartStep == ASSUME Inv, PostCalStart PROVE Inv'
<1>1. /\ pc' = pc /\ state' = "Active" /\ holder' = "cal" /\ stopping' = FALSE
      /\ queue' = queue /\ pulses' = pulses /\ phase' = "Running" /\ baseline' = pulses
      /\ tally' = 0 /\ own' = 0 /\ strayed' = FALSE /\ ~otaActive /\ UNCHANGED otaVars
  BY Zenon DEF PostCalStart, Handler, Takes, Begins, CalStart
<1>2. OtaInv' /\ otaActive' = otaActive
  BY Zenon, <1>1, OtaFrame DEF Inv, otaVars
<1>3. RunInv'
  <2>1. RunningIsOwn'
    BY Zenon, CalStartOwn DEF Inv
  <2>2. RunTypeOK'
    BY Zenon, <1>1 DEF Inv, RunInv, RunTypeOK, Holders
  <2>3. InhibitRests'
    BY Zenon, <1>1, <1>2 DEF InhibitRests
  <2>4. IdleIsNobodys'
    BY <1>1 DEF IdleIsNobodys
  <2> QED
    BY Zenon, <2>1, <2>2, <2>3, <2>4 DEF RunInv
<1>4. TallyInv'
  <2>1. Wrap \in Nat /\ pulses \in Nat /\ pulses < Wrap /\ 0 \in 0 .. Wrap - 1
    BY CountedType, CalibrationAssumption DEF Inv, TallyInv, TallyTypeOK
  <2>2. Counted' = 0
    <3>1. (pulses + Wrap - pulses) % Wrap = IF pulses <= pulses THEN pulses - pulses
                                            ELSE pulses + Wrap - pulses
      BY <2>1, Around
    <3> QED
      BY <1>1, <2>1, <3>1 DEF Counted
  <2>3. TallyTypeOK'
    BY Zenon, <1>1, <2>1 DEF Inv, TallyInv, TallyTypeOK, CalTypeOK, Phases
  <2>4. TallyIsItsOwn'
    BY <1>1, <2>2 DEF TallyIsItsOwn
  <2> QED
    BY Zenon, <2>3, <2>4 DEF TallyInv
<1> QED
  BY Zenon, <1>2, <1>3, <1>4 DEF Inv

\* A pulse while the calibration runs is its own run's, unless it has strayed.
LEMMA PulseStep == ASSUME Inv, Pulse PROVE Inv'
<1>1. /\ pulses' = (pulses + 1) % Wrap
      /\ pc' = pc /\ phase' = phase /\ baseline' = baseline /\ tally' = tally
      /\ strayed' = strayed /\ holder' = holder /\ state' = state /\ queue' = queue
      /\ UNCHANGED runVars /\ UNCHANGED otaVars
  BY Zenon DEF Pulse, runVars, calVars
<1>2. OtaInv' /\ otaActive' = otaActive
  BY Zenon, <1>1, OtaFrame DEF Inv, otaVars
<1>3. RunInv'
  <2>1. RunningIsOwn'
    BY Zenon, <1>1 DEF Inv, RunInv, RunningIsOwn
  <2>2. pc' \in {"Out", "Ticked", "Read", "Judged"}
    BY Zenon, <1>1 DEF Inv, RunInv, RunTypeOK
  <2> QED
    BY Zenon, <1>1, <1>2, <2>1, <2>2, RunParts DEF Inv
<1>4. /\ Counted \in 0 .. Wrap - 1 /\ Wrap \in Nat /\ 1 < Wrap
      /\ pulses \in Nat /\ baseline \in Nat /\ pulses < Wrap /\ baseline < Wrap
      /\ own \in 0 .. Wrap - 1
  BY CountedType DEF Inv, TallyInv, TallyTypeOK
<1>5. pulses' \in 0 .. Wrap - 1
  <2>1. CASE pulses + 1 < Wrap
    <3>1. (pulses + 1) % Wrap = pulses + 1
      BY <1>4, <2>1, ModSmall
    <3> QED
      BY <1>1, <1>4, <2>1, <3>1
  <2>2. CASE ~(pulses + 1 < Wrap)
    <3>1. (pulses + 1) % Wrap = pulses + 1 - Wrap
      BY <1>4, <2>2, ModOnce
    <3> QED
      BY <1>1, <1>4, <2>2, <3>1
  <2> QED
    BY <2>1, <2>2
<1>6. CASE phase = "Running" /\ ~strayed
  <2>1. holder = "cal"
    BY Zenon, <1>6 DEF Inv, RunInv, RunningIsOwn
  <2>2. own' = own + 1 /\ Counted < Wrap - 1
    BY Zenon, <1>6, <2>1 DEF Pulse
  <2>3. Counted = own
    BY Zenon, <1>6 DEF Inv, TallyInv, TallyIsItsOwn
  <2>4. (((pulses + 1) % Wrap) + Wrap - baseline) % Wrap
          = ((pulses + Wrap - baseline) % Wrap) + 1
    BY <1>4, <2>2, OneMore DEF Counted
  <2>5. Counted' = Counted + 1
    BY <1>1, <2>4 DEF Counted
  <2>6. Counted' = own' /\ own' \in 0 .. Wrap - 1
    BY <1>4, <2>2, <2>3, <2>5
  <2>7. TallyTypeOK'
    BY Zenon, <1>1, <1>5, <2>6 DEF Inv, TallyInv, TallyTypeOK, CalTypeOK
  <2>8. phase' # "Awaiting"
    BY <1>1, <1>6
  <2>9. TallyIsItsOwn'
    BY Zenon, <2>6, <2>8 DEF TallyIsItsOwn
  <2> QED
    BY Zenon, <1>2, <1>3, <2>7, <2>9 DEF Inv, TallyInv
<1>7. CASE ~(phase = "Running" /\ ~strayed)
  <2>1. phase = "Running" => strayed /\ holder # "cal"
    BY Zenon, <1>7 DEF Inv, RunInv, RunningIsOwn
  <2>2. own' = own
    BY Zenon, <2>1 DEF Pulse
  <2>3. TallyTypeOK'
    BY Zenon, <1>1, <1>5, <2>2 DEF Inv, TallyInv, TallyTypeOK, CalTypeOK
  <2>4. TallyIsItsOwn'
    BY Zenon, <1>1, <1>7, <2>2 DEF Inv, TallyInv, TallyIsItsOwn
  <2> QED
    BY Zenon, <1>2, <1>3, <2>3, <2>4 DEF Inv, TallyInv
<1> QED
  BY <1>6, <1>7

LEMMA StepInv == ASSUME Inv, [Next]_vars PROVE Inv'
<1>1. CASE UNCHANGED vars
  <2>1. /\ UNCHANGED otaVars /\ UNCHANGED <<pulses, calVars, ghostVars>>
        /\ UNCHANGED <<pc, runVars>>
    BY Zenon, <1>1 DEF vars
  <2>2. OtaInv' /\ TallyInv'
    BY Zenon, <2>1, OtaFrame, TallyFrame DEF Inv
  <2>3. /\ pc' = pc /\ state' = state /\ queue' = queue /\ stopping' = stopping
        /\ holder' = holder /\ phase' = phase /\ strayed' = strayed /\ otaActive' = otaActive
    BY Zenon, <2>1 DEF runVars, calVars, ghostVars, otaVars
  <2>4. RunInv'
    BY Zenon, <2>3
       DEF Inv, RunInv, RunTypeOK, InhibitRests, AtRest, IdleIsNobodys, RunningIsOwn
  <2> QED
    BY Zenon, <2>2, <2>4 DEF Inv
<1>2. CASE PowerLoss \/ NightlyReboot \/ OtaRestart
  BY Zenon, <1>2, BootInv DEF PowerLoss, NightlyReboot, OtaRestart
<1> QED
  BY Zenon, <1>1, <1>2, PlainStep, JudgeStep, CalOverStep, FaultClearStep, CalStartStep,
     GateStep, PulseStep DEF Next

THEOREM TenantsInvariant == Spec => []Inv
<1>1. Init => Inv
  BY InitInv
<1>2. Inv /\ [Next]_vars => Inv'
  BY StepInv
<1> QED
  BY <1>1, <1>2, PTL DEF Spec

-----------------------------------------------------------------------------
(* What follows                                                            *)

\* The domains of every variable, whatever the uploads, the queue and the
\* counter's range.
THEOREM TenantsTypes == Spec => []TypeOK
<1>1. Inv => TypeOK
  BY Zenon DEF Inv, OtaInv, RunInv, RunTypeOK, TallyInv, TallyTypeOK, TypeOK
<1> QED
  BY <1>1, TenantsInvariant, PTL

\* CalibrationController::tick and finish: the tally is the water of the
\* calibration's own run, for every range of the counter.
THEOREM TallyIsOwn == Spec => []TallyIsItsOwn
<1>1. Inv => TallyIsItsOwn
  BY Zenon DEF Inv, TallyInv
<1> QED
  BY <1>1, TenantsInvariant, PTL

\* The OTA handlers: the inhibit is neither leaked nor lifted under another's
\* image, however many requests contend for it.
THEOREM InhibitIsHeldExactly == Spec => []InhibitIsExact
<1>1. Inv => InhibitIsExact
  BY Zenon DEF Inv, OtaInv
<1> QED
  BY <1>1, TenantsInvariant, PTL

\* finish() of calibration_controller: what is in progress for another is left
\* as it is, because a calibration that runs unstrayed has the run.
THEOREM OthersAreSpared == Spec => CalibrationSparesOthers
<1>1. ASSUME Inv, NEW inRange \in BOOLEAN, PostCalFinish(inRange), holder = "other", ~strayed
      PROVE  UNCHANGED runVars
  <2>1. holder # "cal" /\ holder # "none"
    BY <1>1
  <2>2. phase # "Running" /\ state # "Idle"
    BY Zenon, <1>1, <2>1 DEF Inv, RunInv, RunningIsOwn, IdleIsNobodys
  <2> QED
    BY Zenon, <1>1, <2>2 DEF PostCalFinish, SafeToFault
<1>2. Inv => [(\E inRange \in BOOLEAN : PostCalFinish(inRange)) /\ holder = "other" /\ ~strayed
                => UNCHANGED runVars]_vars
  BY Zenon, <1>1
<1> QED
  BY <1>2, TenantsInvariant, PTL DEF CalibrationSparesOthers

\* nightly_reboot's and the upload's restart: neither cuts a run, a bucket test
\* or an image, and the new image is one request's.
THEOREM RestartsAreClean == Spec => RestartsFindNothing
<1>1. ASSUME Inv, OtaRestart
      PROVE  AtRest /\ ~begun /\ task = Nobody /\ \E r \in Uploads : image = {r}
  <2>1. restart
    BY Zenon, <1>1 DEF OtaRestart
  <2>2. otaActive
    BY Zenon, <1>1, <2>1 DEF Inv, OtaInv, InhibitIsExact
  <2> QED
    BY Zenon, <1>1, <2>1, <2>2
       DEF Inv, OtaInv, OneHoldsIt, ImageIsOnes, RunInv, InhibitRests
<1>2. ASSUME Inv, NightlyReboot
      PROVE  AtRest /\ ~begun /\ task = Nobody /\ phase = "Idle"
  <2>1. state = "Idle" /\ queue = 0 /\ ~otaActive /\ phase = "Idle"
    BY Zenon, <1>2 DEF NightlyReboot, SafeToReboot, CalActive
  <2>2. ~begun /\ task = Nobody
    BY Zenon, <1>2, <2>1 DEF Inv, OtaInv, InhibitIsExact
  <2> QED
    BY Zenon, <2>1, <2>2 DEF AtRest
<1>3. Inv => [ /\ NightlyReboot \/ OtaRestart => AtRest /\ ~begun /\ task = Nobody
               /\ NightlyReboot => phase = "Idle"
               /\ OtaRestart => \E r \in Uploads : image = {r} ]_vars
  BY Zenon, <1>1, <1>2
<1> QED
  BY <1>3, TenantsInvariant, PTL DEF RestartsFindNothing
=============================================================================
