--------------------------- MODULE Records_proofs ---------------------------
(***************************************************************************)
(* For every depth of the rings: both logs keep the newest rows and their  *)
(* copies in flash are theirs, a latched fault is logged by the end of the *)
(* pass, a clear of an unexpected flow is never premature and the nightly  *)
(* reboot loses nothing; the publisher is fed the rows in their order.     *)
(*                                                                         *)
(* The invariant has three parts that do not touch: the history with its   *)
(* copy in flash, the fault log with its copy, and the latch with the      *)
(* edge and the condition beside it.  Beside it stands FeedInv: what waits *)
(* for the publisher and what it has sent are rows in rising order, none   *)
(* newer than the feed's key.  What the replay at boot puts there is a     *)
(* recursive function over the blob; the induction over its steps is that  *)
(* of the well-founded order on a set of numbers.                          *)
(***************************************************************************)
EXTENDS Records, RunLog_proofs, WellFoundedInduction

FL == INSTANCE RunLog_proofs WITH Depth <- LogSize, EmptyRow <- NoFault

Rows == Row \cup {EmptyRow}
Codes == Latching \cup Noted
Places == Codes \cup {NoFault}

HistoryInv ==
  /\ IsRing(runlog, Rows) /\ serialize(runlog) = rows
  /\ rows \in Seq(Row) /\ Len(rows) <= Depth
  /\ pushed \in 0 .. MaxRows
  /\ nvsRuns \in Seq(Row) /\ Len(nvsRuns) <= Depth
  /\ ~runDirty => nvsRuns = rows

FaultLogInv ==
  /\ FL!IsRing(faultlog, Places) /\ FaultLog!serialize(faultlog) = entries
  /\ entries \in Seq(Codes) /\ Len(entries) <= LogSize
  /\ logged \in Nat
  /\ nvsFaults \in Seq(Codes) /\ Len(nvsFaults) <= LogSize
  /\ ~faultDirty => nvsFaults = entries

\* The edge detector knows of no latch older than the last clear, and a latch
\* it has not seen is still to come by in this pass.
LatchInv ==
  /\ pc \in {"Out", "Ticked", "Scanned", "Fed", "Stored", "Surfaced"}
  /\ fault \in {NoFault} \cup Latching
  /\ fault # NoFault <=> state = "Fault"
  /\ fault = NoFault => prevFault = NoFault
  /\ unlogged => fault # NoFault /\ prevFault = NoFault
  /\ pc = "Surfaced" => ~unlogged

\* While an unexpected flow is latched, the condition that gates its clear is
\* the flow itself wherever a handler can look.
ConditionInv ==
  fault = "UnexpectedFlow" =>
    ~override /\ (pc \in {"Surfaced", "Out"} => (condition <=> flowing))

RecordsInv == HistoryInv /\ FaultLogInv /\ LatchInv /\ ConditionInv

-----------------------------------------------------------------------------
(* The history. *)

LEMMA RingSize == Depth \in Nat \ {0} /\ LogSize \in Nat \ {0}
  BY DepthAssumption, RecordsAssumption

LEMMA HistoryKept ==
  ASSUME HistoryInv, UNCHANGED <<runVars, nvsRuns>>
  PROVE  HistoryInv'
  BY DEF HistoryInv, runVars

\* A sequence of rows is a sequence of what the array may hold.
LEMMA RowsInPlaces ==
  ASSUME NEW s \in Seq(Row)
  PROVE  s \in Seq(Rows)
  BY SeqMonotonic DEF Rows

LEMMA RowRemembered ==
  ASSUME NEW s \in Seq(Row), Len(s) <= Depth, NEW e \in Row
  PROVE  Remember(s, e) \in Seq(Row) /\ Len(Remember(s, e)) <= Depth
  <1>1. /\ Remember(s, e) \in Seq(Row)
        /\ Len(Remember(s, e)) = IF Len(s) = Depth THEN Depth ELSE Len(s) + 1
    BY RememberedRows
  <1>2. Len(s) \in Nat /\ Depth \in Nat
    BY LenProperties, RingSize
  <1> QED BY <1>1, <1>2, SMT

LEMMA HistoryPush ==
  ASSUME HistoryInv, NEW s \in BOOLEAN, PushRow(s), UNCHANGED nvsRuns
  PROVE  HistoryInv'
  <1> DEFINE e == [id |-> pushed + 1, stamped |-> s]
  <1>1. pushed + 1 \in 1 .. MaxRows /\ MaxRows \in Nat
    BY RecordsAssumption, SMT DEF HistoryInv, PushRow
  <1>2. e \in Row /\ e \in Rows
    BY <1>1 DEF Row, Rows
  <1>3. runlog' = push(runlog, e) /\ rows' = Remember(rows, e) /\ runDirty' = TRUE
        /\ pushed' = pushed + 1
    BY DEF PushRow
  <1> HIDE DEF e
  <1>4. IsRing(runlog', Rows)
    BY <1>2, <1>3, PushIsRing DEF HistoryInv
  <1>5. serialize(runlog') = rows'
    BY <1>2, <1>3, PushRemembers DEF HistoryInv
  <1>6. rows' \in Seq(Row) /\ Len(rows') <= Depth
    BY <1>2, <1>3, RowRemembered DEF HistoryInv
  <1>7. pushed' \in 0 .. MaxRows
    BY <1>1, <1>3, SMT
  <1> QED BY <1>3, <1>4, <1>5, <1>6, <1>7 DEF HistoryInv

LEMMA HistorySave ==
  ASSUME HistoryInv, SaveRuns, UNCHANGED <<runlog, rows, pushed>>
  PROVE  HistoryInv'
  BY DEF HistoryInv, SaveRuns

LEMMA HistoryBoot ==
  ASSUME HistoryInv, NEW blob \in Seq(Row), Len(blob) <= Depth,
         runlog' = deserialize(blob), rows' = blob, nvsRuns' = blob,
         UNCHANGED pushed
  PROVE  HistoryInv'
  <1>1. blob \in Seq(Rows) /\ EmptyRow \in Rows
    BY RowsInPlaces DEF Rows
  <1>2. IsRing(runlog', Rows) /\ serialize(runlog') = LastOf(blob)
    BY <1>1, FlashRoundTrip
  <1>3. LastOf(blob) = blob
    BY LastOfShort
  <1> QED BY <1>2, <1>3 DEF HistoryInv

-----------------------------------------------------------------------------
(* The backlog. *)

\* Induction, as a fact about a set of numbers: what is left out would have a
\* least element.
LEMMA Inductive ==
  ASSUME NEW T, 0 \in T, \A n \in Nat : n \in T => n + 1 \in T
  PROVE  Nat \subseteq T
  <1> DEFINE R == {p \in Nat \X Nat : p[1] < p[2]}
             U == Nat \ T
  <1>1. IsWellFoundedOn(R, Nat)
    BY NatLessThanWellFounded DEF OpToRel
  <1>2. ASSUME U # {} PROVE FALSE
    <2>1. PICK x \in U : \A y \in U : <<y, x>> \notin R
      <3> HIDE DEF R
      <3> QED BY <1>1, <1>2, WFMin
    <2>2. x \in Nat /\ x # 0
      BY <2>1
    <2>3. x - 1 \in Nat /\ (x - 1) + 1 = x /\ x - 1 < x
      BY <2>2, SMT
    <2>4. <<x - 1, x>> \in R
      BY <2>2, <2>3
    <2>5. x - 1 \in T
      BY <2>1, <2>3, <2>4
    <2> QED BY <2>1, <2>3, <2>5
  <1> QED BY <1>2

\* The queue after the first k rows of a blob.
IsBacklog(f, blob, n) ==
  f = [k \in 0 .. n |-> IF k = 0 THEN <<>> ELSE enqueue(f[k - 1], blob[k])]

\* Such a function exists for a blob of every length.
LEMMA BacklogExists ==
  ASSUME NEW blob, NEW n \in Nat
  PROVE  \E f : IsBacklog(f, blob, n)
  <1> DEFINE T == {m \in Nat : \E f : IsBacklog(f, blob, m)}
  <1>1. 0 \in T
    <2> DEFINE f == [k \in 0 .. 0 |-> <<>>]
    <2>1. f = [k \in 0 .. 0 |-> IF k = 0 THEN <<>> ELSE enqueue(f[k - 1], blob[k])]
      OBVIOUS
    <2>2. IsBacklog(f, blob, 0)
      BY <2>1 DEF IsBacklog
    <2> QED BY <2>2
  <1>2. ASSUME NEW m \in Nat, m \in T
        PROVE  m + 1 \in T
    <2>1. PICK f : IsBacklog(f, blob, m)
      BY <1>2
    <2> DEFINE g == [k \in 0 .. m + 1 |-> IF k <= m THEN f[k] ELSE enqueue(f[m], blob[k])]
    <2>2. ASSUME NEW k \in 0 .. m + 1
          PROVE  g[k] = IF k = 0 THEN <<>> ELSE enqueue(g[k - 1], blob[k])
      <3>1. CASE k = 0
        <4>1. 0 \in 0 .. m /\ 0 \in 0 .. m + 1 /\ 0 <= m
          BY SMT
        <4>2. g[k] = f[0] /\ f[0] = <<>>
          BY <2>1, <3>1, <4>1 DEF IsBacklog
        <4> QED BY <3>1, <4>2
      <3>2. CASE k # 0 /\ k <= m
        <4>1. k \in 0 .. m /\ k - 1 \in 0 .. m + 1 /\ k - 1 <= m
          BY <3>2, SMT
        <4>2. g[k] = f[k] /\ g[k - 1] = f[k - 1]
          BY <3>2, <4>1
        <4>3. f[k] = enqueue(f[k - 1], blob[k])
          BY <2>1, <3>2, <4>1 DEF IsBacklog
        <4> QED BY <3>2, <4>2, <4>3
      <3>3. CASE ~(k <= m)
        <4>1. k = m + 1 /\ k - 1 = m /\ m \in 0 .. m + 1 /\ m <= m /\ k # 0
          BY <3>3, SMT
        <4>2. g[k] = enqueue(f[m], blob[k]) /\ g[k - 1] = f[m]
          BY <3>3, <4>1
        <4> QED BY <4>1, <4>2
      <3> QED BY <3>1, <3>2, <3>3
    <2>3. g = [k \in 0 .. m + 1 |-> g[k]]
      OBVIOUS
    <2> HIDE DEF g
    <2>4. IsBacklog(g, blob, m + 1)
      BY <2>2, <2>3 DEF IsBacklog
    <2> QED BY <2>4
  <1> HIDE DEF T
  <1>3. Nat \subseteq T
    BY <1>1, <1>2, Inductive
  <1> QED BY <1>3 DEF T

LEMMA BacklogUnfolds ==
  ASSUME NEW blob \in Seq(Row)
  PROVE  \E f : IsBacklog(f, blob, Len(blob)) /\ Backlog(blob) = f[Len(blob)]
  <1> DEFINE f == CHOOSE h : h = [k \in 0 .. Len(blob) |->
                                    IF k = 0 THEN <<>> ELSE enqueue(h[k - 1], blob[k])]
  <1>1. Backlog(blob) = f[Len(blob)]
    BY DEF Backlog
  <1>2. \E h : h = [k \in 0 .. Len(blob) |->
                     IF k = 0 THEN <<>> ELSE enqueue(h[k - 1], blob[k])]
    BY BacklogExists, LenProperties DEF IsBacklog
  <1>3. f = [k \in 0 .. Len(blob) |-> IF k = 0 THEN <<>> ELSE enqueue(f[k - 1], blob[k])]
    BY <1>2
  <1> QED BY <1>1, <1>3 DEF IsBacklog

\* Rows in the order they were pushed, none newer than the last one pushed.
Ordered(s, last) ==
  /\ \A k, l \in 1 .. Len(s) : k < l => s[k].id < s[l].id
  /\ \A k \in 1 .. Len(s) : s[k].id <= last

Rising(q) == \A k, l \in 1 .. Len(q) : k < l => q[k] < q[l]

\* What a queue may hold of the first n rows of a blob.
Holds(q, blob, n) ==
  /\ q \in Seq(Nat) /\ Rising(q)
  /\ \A i \in 1 .. Len(q) : \E j \in 1 .. n : q[i] = blob[j].id /\ blob[j].stamped

\* A number above all of a rising queue goes to its end.
LEMMA RisesOn ==
  ASSUME NEW q \in Seq(Nat), Rising(q), NEW id \in Nat,
         \A i \in 1 .. Len(q) : q[i] < id
  PROVE  Append(q, id) \in Seq(Nat) /\ Rising(Append(q, id))
  <1> DEFINE a == Append(q, id)
  <1>1. /\ a \in Seq(Nat) /\ Len(a) = Len(q) + 1 /\ Len(q) \in Nat
        /\ a[Len(q) + 1] = id /\ \A i \in 1 .. Len(q) : a[i] = q[i]
    BY AppendProperties, LenProperties
  <1> HIDE DEF a
  <1>2. ASSUME NEW k \in 1 .. Len(a), NEW l \in 1 .. Len(a), k < l
        PROVE  a[k] < a[l]
    <2>1. k \in 1 .. Len(q) /\ a[k] = q[k]
      BY <1>1, <1>2, SMT
    <2>2. CASE l = Len(q) + 1
      BY <1>1, <2>1, <2>2
    <2>3. CASE l # Len(q) + 1
      <3>1. l \in 1 .. Len(q) /\ a[l] = q[l]
        BY <1>1, <2>3, SMT
      <3> QED BY <1>2, <2>1, <3>1 DEF Rising
    <2> QED BY <2>2, <2>3
  <1> QED BY <1>1, <1>2 DEF Rising, a

\* PoopdeckPublisher::enqueueBacklog: of an ordered history the queue gets
\* stamped rows, in their order.
LEMMA BacklogHolds ==
  ASSUME NEW blob \in Seq(Row), NEW last, Ordered(blob, last)
  PROVE  Holds(Backlog(blob), blob, Len(blob))
  <1>1. PICK f : IsBacklog(f, blob, Len(blob)) /\ Backlog(blob) = f[Len(blob)]
    BY BacklogUnfolds
  <1>2. Len(blob) \in Nat
    BY LenProperties
  <1> DEFINE T == {n \in Nat : n <= Len(blob) => Holds(f[n], blob, n)}
  <1>3. 0 \in T
    <2>1. 0 \in 0 .. Len(blob)
      BY <1>2, SMT
    <2>2. f[0] = <<>>
      BY <1>1, <2>1 DEF IsBacklog
    <2>3. <<>> \in Seq(Nat) /\ 1 .. Len(<<>>) = {}
      BY EmptySeq, SMT
    <2>4. Holds(f[0], blob, 0)
      BY <2>2, <2>3 DEF Holds, Rising
    <2> QED BY <2>4
  <1>4. ASSUME NEW n \in Nat, n \in T
        PROVE  n + 1 \in T
    <2> SUFFICES ASSUME n + 1 <= Len(blob)
                 PROVE  Holds(f[n + 1], blob, n + 1)
      OBVIOUS
    <2> DEFINE q == f[n]
               r == blob[n + 1]
    <2>1. /\ n + 1 \in 0 .. Len(blob) /\ n + 1 # 0 /\ (n + 1) - 1 = n /\ n <= Len(blob)
          /\ n + 1 \in 1 .. Len(blob) /\ n + 1 \in 1 .. n + 1
      BY <1>2, SMT
    <2>2. f[n + 1] = enqueue(q, r)
      BY <1>1, <2>1 DEF IsBacklog
    <2>3. Holds(q, blob, n)
      BY <1>4, <2>1
    <2>4. r \in Row /\ r.id \in Nat
      <3>1. r \in Row
        BY <2>1, ElementOfSeq
      <3> QED BY <3>1 DEF Row
    <2> HIDE DEF q
    <2>5. \A i \in 1 .. Len(q) : \E j \in 1 .. n + 1 : q[i] = blob[j].id /\ blob[j].stamped
      <3>1. \A j \in 1 .. n : j \in 1 .. n + 1
        BY SMT
      <3> QED BY <2>3, <3>1 DEF Holds
    <2>6. CASE enqueue(q, r) = q
      BY <2>2, <2>3, <2>5, <2>6 DEF Holds
    <2>7. CASE r.stamped /\ enqueue(q, r) = Append(q, r.id)
      <3>1. ASSUME NEW i \in 1 .. Len(q) PROVE q[i] < r.id
        <4>1. PICK j \in 1 .. n : q[i] = blob[j].id
          BY <2>3 DEF Holds
        <4>2. j \in 1 .. Len(blob) /\ j < n + 1
          BY <1>2, <2>1, SMT
        <4> QED BY <2>1, <4>1, <4>2 DEF Ordered
      <3>2. q \in Seq(Nat) /\ Rising(q)
        BY <2>3 DEF Holds
      <3>3. Append(q, r.id) \in Seq(Nat) /\ Rising(Append(q, r.id))
        BY <2>4, <3>1, <3>2, RisesOn
      <3>4. ASSUME NEW i \in 1 .. Len(Append(q, r.id))
            PROVE  \E j \in 1 .. n + 1 : Append(q, r.id)[i] = blob[j].id /\ blob[j].stamped
        <4>1. Len(q) \in Nat /\ Len(Append(q, r.id)) = Len(q) + 1
          BY <2>4, <3>2, AppendProperties, LenProperties
        <4>2. CASE i = Len(q) + 1
          <5>1. Append(q, r.id)[i] = r.id
            BY <2>4, <3>2, <4>2, AppendProperties
          <5> QED BY <2>1, <2>7, <5>1
        <4>3. CASE i # Len(q) + 1
          <5>1. i \in 1 .. Len(q)
            BY <4>1, <4>3, SMT
          <5>2. Append(q, r.id)[i] = q[i]
            BY <2>4, <3>2, <5>1, AppendProperties
          <5> QED BY <2>5, <5>1, <5>2
        <4> QED BY <4>2, <4>3
      <3> QED BY <2>2, <2>7, <3>3, <3>4 DEF Holds
    <2> QED BY <2>6, <2>7 DEF enqueue
  <1> HIDE DEF T
  <1>5. Nat \subseteq T
    BY <1>3, <1>4, Inductive
  <1>6. Len(blob) <= Len(blob) => Holds(f[Len(blob)], blob, Len(blob))
    BY <1>2, <1>5 DEF T
  <1> QED BY <1>1, <1>2, <1>6, SMT

\* A queue with every stamped row of the first n, and no more of them than n.
Whole(q, blob, n) ==
  /\ q \in Seq(Nat) /\ Len(q) <= n
  /\ \A j \in 1 .. n : blob[j].stamped => \E i \in 1 .. Len(q) : q[i] = blob[j].id

\* PoopdeckPublisher::enqueueBacklog: a history that is no longer than the queue
\* is deep is replayed whole; that is why the queue is the deeper of the two.
THEOREM ReplayIsWhole ==
  ASSUME NEW blob \in Seq(Row), Len(blob) <= QueueDepth
  PROVE  Whole(Backlog(blob), blob, Len(blob))
  <1>1. PICK f : IsBacklog(f, blob, Len(blob)) /\ Backlog(blob) = f[Len(blob)]
    BY BacklogUnfolds
  <1>2. Len(blob) \in Nat
    BY LenProperties
  <1> DEFINE T == {n \in Nat : n <= Len(blob) => Whole(f[n], blob, n)}
  <1>3. 0 \in T
    <2>1. 0 \in 0 .. Len(blob) /\ 1 .. 0 = {} /\ 0 <= 0
      BY <1>2, SMT
    <2>2. f[0] = <<>>
      BY <1>1, <2>1 DEF IsBacklog
    <2>3. <<>> \in Seq(Nat) /\ Len(<<>>) = 0
      BY EmptySeq
    <2>4. Whole(f[0], blob, 0)
      BY <2>1, <2>2, <2>3 DEF Whole
    <2> QED BY <2>4
  <1>4. ASSUME NEW n \in Nat, n \in T
        PROVE  n + 1 \in T
    <2> SUFFICES ASSUME n + 1 <= Len(blob)
                 PROVE  Whole(f[n + 1], blob, n + 1)
      OBVIOUS
    <2> DEFINE q == f[n]
               r == blob[n + 1]
    <2>1. /\ n + 1 \in 0 .. Len(blob) /\ n + 1 # 0 /\ (n + 1) - 1 = n /\ n <= Len(blob)
          /\ n + 1 \in 1 .. Len(blob)
          /\ \A j \in 1 .. n + 1 : j = n + 1 \/ j \in 1 .. n
      BY <1>2, SMT
    <2>2. f[n + 1] = enqueue(q, r)
      BY <1>1, <2>1 DEF IsBacklog
    <2>3. Whole(q, blob, n)
      BY <1>4, <2>1
    <2>4. r.id \in Nat
      <3>1. r \in Row
        BY <2>1, ElementOfSeq
      <3> QED BY <3>1 DEF Row
    <2> HIDE DEF q
    <2>5. q \in Seq(Nat) /\ Len(q) \in Nat /\ Len(q) <= n
      BY <2>3, LenProperties DEF Whole
    <2>6. Len(q) < QueueDepth
      BY <1>2, <2>5, RecordsAssumption, SMT
    <2>7. CASE ~r.stamped
      <3>1. enqueue(q, r) = q /\ Len(q) <= n + 1
        BY <2>5, <2>7, SMT DEF enqueue
      <3> QED BY <2>1, <2>2, <2>3, <2>7, <3>1 DEF Whole
    <2>8. CASE r.stamped
      <3> DEFINE a == Append(q, r.id)
      <3>1. enqueue(q, r) = a
        BY <2>6, <2>8 DEF enqueue
      <3>2. /\ a \in Seq(Nat) /\ Len(a) = Len(q) + 1
            /\ a[Len(q) + 1] = r.id /\ \A i \in 1 .. Len(q) : a[i] = q[i]
        BY <2>4, <2>5, AppendProperties
      <3> HIDE DEF a
      <3>3. Len(a) <= n + 1 /\ Len(q) + 1 \in 1 .. Len(a)
            /\ \A i \in 1 .. Len(q) : i \in 1 .. Len(a)
        BY <2>5, <3>2, SMT
      <3>4. ASSUME NEW j \in 1 .. n + 1, blob[j].stamped
            PROVE  \E i \in 1 .. Len(a) : a[i] = blob[j].id
        <4>1. CASE j = n + 1
          BY <3>2, <3>3, <4>1
        <4>2. CASE j # n + 1
          <5>1. PICK i \in 1 .. Len(q) : q[i] = blob[j].id
            BY <2>1, <2>3, <3>4, <4>2 DEF Whole
          <5> QED BY <3>2, <3>3, <5>1
        <4> QED BY <4>1, <4>2
      <3> QED BY <2>2, <3>1, <3>2, <3>3, <3>4 DEF Whole
    <2> QED BY <2>7, <2>8
  <1> HIDE DEF T
  <1>5. Nat \subseteq T
    BY <1>3, <1>4, Inductive
  <1>6. Len(blob) <= Len(blob) => Whole(f[Len(blob)], blob, Len(blob))
    BY <1>2, <1>5 DEF T
  <1> QED BY <1>1, <1>2, <1>6, SMT

-----------------------------------------------------------------------------
(* The fault log. *)

\* Its ring under both of its names.
LEMMA SameRing ==
  /\ \A r, e : FaultLog!push(r, e) = FL!push(r, e)
  /\ \A r : FaultLog!serialize(r) = FL!serialize(r)
  /\ \A b : FaultLog!deserialize(b) = FL!deserialize(b)
  /\ \A s, e : FaultLog!Remember(s, e) = FL!Remember(s, e)
  /\ FaultLog!EmptyRing = FL!EmptyRing
  BY DEF FaultLog!push, FL!push, FaultLog!serialize, FL!serialize, FaultLog!at, FL!at,
         FaultLog!deserialize, FL!deserialize, FaultLog!LastOf, FL!LastOf,
         FaultLog!Remember, FL!Remember, FaultLog!EmptyRing, FL!EmptyRing

\* What the log's ring and the entries it promises to hold have in common.
Agree(r, es) ==
  /\ FL!IsRing(r, Places) /\ FaultLog!serialize(r) = es
  /\ es \in Seq(Codes) /\ Len(es) <= LogSize

LEMMA LogOne ==
  ASSUME NEW r, NEW es, Agree(r, es), NEW c \in Places
  PROVE  Agree(LogFault(r, c), RememberFault(es, c))
  <1>1. CASE c = NoFault
    BY <1>1 DEF LogFault, RememberFault
  <1>2. CASE c # NoFault
    <2>1. c \in Codes
      BY <1>2 DEF Places
    <2>2. LogFault(r, c) = FL!push(r, c) /\ RememberFault(es, c) = FL!Remember(es, c)
      BY <1>2, SameRing DEF LogFault, RememberFault
    <2>3. FL!IsRing(FL!push(r, c), Places)
      BY FL!PushIsRing, RecordsAssumption DEF Agree
    <2>4. FL!serialize(FL!push(r, c)) = FL!Remember(es, c)
      <3>1. FL!serialize(FL!push(r, c)) = FL!Remember(FL!serialize(r), c)
        BY FL!PushRemembers, RecordsAssumption DEF Agree
      <3> QED BY <3>1, SameRing DEF Agree
    <2>5. /\ FL!Remember(es, c) \in Seq(Codes)
          /\ Len(FL!Remember(es, c)) = IF Len(es) = LogSize THEN LogSize ELSE Len(es) + 1
      BY <2>1, FL!RememberedRows, RecordsAssumption DEF Agree
    <2>6. Len(es) \in Nat /\ Len(es) <= LogSize /\ LogSize \in Nat
      BY LenProperties, RingSize DEF Agree
    <2>7. Len(FL!Remember(es, c)) <= LogSize
      BY <2>5, <2>6, SMT
    <2> QED BY <2>2, <2>3, <2>4, <2>5, <2>7, SameRing DEF Agree
  <1> QED BY <1>1, <1>2

LEMMA FaultLogKept ==
  ASSUME FaultLogInv, UNCHANGED <<faultlog, faultDirty, entries, logged, nvsFaults>>
  PROVE  FaultLogInv'
  BY DEF FaultLogInv

LEMMA FaultLogAppend ==
  ASSUME FaultLogInv, NEW c1 \in Places, NEW c2 \in Places, NEW c3 \in Places,
         AppendFaults(c1, c2, c3), UNCHANGED nvsFaults
  PROVE  FaultLogInv'
  <1>1. Agree(faultlog, entries)
    BY DEF FaultLogInv, Agree
  <1>2. Agree(LogFault(faultlog, c1), RememberFault(entries, c1))
    BY <1>1, LogOne
  <1>3. Agree(LogFault(LogFault(faultlog, c1), c2),
              RememberFault(RememberFault(entries, c1), c2))
    BY <1>2, LogOne
  <1>4. Agree(LogFault(LogFault(LogFault(faultlog, c1), c2), c3),
              RememberFault(RememberFault(RememberFault(entries, c1), c2), c3))
    BY <1>3, LogOne
  <1>5. Agree(faultlog', entries')
    BY <1>4 DEF AppendFaults
  <1>6. logged' \in Nat /\ logged' = logged + OneIf(c1) + OneIf(c2) + OneIf(c3)
    BY SMT DEF AppendFaults, FaultLogInv, OneIf
  <1>7. ASSUME ~faultDirty' PROVE nvsFaults' = entries'
    <2>1. ~faultDirty /\ logged' = logged
      BY <1>7 DEF AppendFaults
    <2>2. c1 = NoFault /\ c2 = NoFault /\ c3 = NoFault
      BY <1>6, <2>1, SMT DEF FaultLogInv, OneIf
    <2>3. entries' = entries
      BY <2>2 DEF AppendFaults, RememberFault
    <2> QED BY <2>1, <2>3 DEF FaultLogInv
  <1> QED BY <1>5, <1>6, <1>7 DEF FaultLogInv, Agree

LEMMA FaultLogSave ==
  ASSUME FaultLogInv, UNCHANGED <<faultlog, entries, logged>>, faultDirty' = FALSE,
         nvsFaults' = IF faultDirty THEN FaultLog!serialize(faultlog) ELSE nvsFaults
  PROVE  FaultLogInv'
  BY DEF FaultLogInv

LEMMA FaultLogBoot ==
  ASSUME FaultLogInv, NEW blob \in Seq(Codes), Len(blob) <= LogSize,
         faultlog' = FaultLog!deserialize(blob), entries' = blob, nvsFaults' = blob,
         UNCHANGED logged
  PROVE  FaultLogInv'
  <1>1. blob \in Seq(Places) /\ NoFault \in Places
    BY SeqMonotonic DEF Places
  <1>2. FL!IsRing(faultlog', Places) /\ FL!serialize(faultlog') = FL!LastOf(blob)
    BY <1>1, FL!FlashRoundTrip, SameRing, RecordsAssumption
  <1>3. FL!LastOf(blob) = blob
    BY FL!LastOfShort, RecordsAssumption
  <1> QED BY <1>2, <1>3, SameRing DEF FaultLogInv

-----------------------------------------------------------------------------
(* The invariant. *)

LEMMA InitRecords == Init => RecordsInv
  <1> SUFFICES ASSUME Init PROVE RecordsInv
    OBVIOUS
  <1>1. HistoryInv
    <2>1. IsRing(EmptyRing, Rows) /\ serialize(EmptyRing) = <<>>
      BY EmptyIsRing DEF Rows
    <2>2. <<>> \in Seq(Row) /\ Len(<<>>) <= Depth
      BY RingSize, EmptySeq, SMT
    <2>3. 0 \in 0 .. MaxRows
      BY RecordsAssumption, SMT
    <2> QED BY <2>1, <2>2, <2>3 DEF Init, HistoryInv
  <1>2. FaultLogInv
    <2>1. FL!IsRing(FL!EmptyRing, Places) /\ FL!serialize(FL!EmptyRing) = <<>>
      BY FL!EmptyIsRing, RecordsAssumption DEF Places
    <2>2. <<>> \in Seq(Codes) /\ Len(<<>>) <= LogSize
      BY RingSize, EmptySeq, SMT
    <2> QED BY <2>1, <2>2, SameRing, SMT DEF Init, FaultLogInv
  <1>3. LatchInv /\ ConditionInv
    BY DEF Init, LatchInv, ConditionInv, NoFault, Latching
  <1> QED BY <1>1, <1>2, <1>3 DEF RecordsInv

\* A latch leaves a row or leaves the history alone.
LEMMA RaiseKeepsHistory ==
  ASSUME HistoryInv, NEW f, RaiseFault(f), UNCHANGED nvsRuns
  PROVE  HistoryInv'
  <1>1. CASE state = "Active"
    <2>1. PICK s \in BOOLEAN : PushRow(s)
      BY <1>1 DEF RaiseFault
    <2> QED BY <2>1, HistoryPush
  <1>2. CASE state # "Active"
    BY <1>2, HistoryKept DEF RaiseFault
  <1> QED BY <1>1, <1>2

LEMMA NextKeepsHistory ==
  ASSUME HistoryInv, [Next]_vars
  PROVE  HistoryInv'
  <1>1. CASE Tick
    <2>1. UNCHANGED nvsRuns /\ (UNCHANGED runVars \/ \E s \in BOOLEAN : PushRow(s))
      BY <1>1 DEF Tick, flashVars
    <2> QED BY <2>1, HistoryKept, HistoryPush
  <1>2. CASE ScanMissed
    <2>1. UNCHANGED nvsRuns /\ (UNCHANGED runVars \/ PushRow(TRUE))
      BY <1>2 DEF ScanMissed, flashVars
    <2> QED BY <2>1, HistoryKept, HistoryPush
  <1>3. CASE SaveAndFeed
    <2>1. SaveRuns /\ UNCHANGED <<runlog, rows, pushed>>
      BY <1>3 DEF SaveAndFeed
    <2> QED BY <2>1, HistorySave
  <1>4. CASE Surface
    <2>1. UNCHANGED nvsRuns /\ Verdict
      BY <1>4 DEF Surface, flashVars
    <2>2. UNCHANGED runVars \/ RaiseFault("UnexpectedFlow") \/ RaiseFault("NoFlow")
      BY <2>1 DEF Verdict
    <2> QED BY <2>1, <2>2, HistoryKept, RaiseKeepsHistory
  <1>5. CASE PostCalFinish
    <2>1. UNCHANGED nvsRuns /\ RaiseFault("CalRange")
      BY <1>5 DEF PostCalFinish, flashVars
    <2> QED BY <2>1, RaiseKeepsHistory
  <1>6. CASE Reset
    <2>1. /\ runlog' = deserialize(nvsRuns) /\ rows' = nvsRuns /\ nvsRuns' = nvsRuns
          /\ UNCHANGED pushed
      BY <1>6 DEF Reset, Boot, flashVars
    <2>2. nvsRuns \in Seq(Row) /\ Len(nvsRuns) <= Depth
      BY DEF HistoryInv
    <2> QED BY <2>1, <2>2, HistoryBoot
  <1>7. CASE NightlyReboot
    <2>1. /\ runlog' = deserialize(FlushedRuns) /\ rows' = FlushedRuns
          /\ nvsRuns' = FlushedRuns /\ UNCHANGED pushed
      BY <1>7 DEF NightlyReboot, Boot
    <2>2. FlushedRuns \in Seq(Row) /\ Len(FlushedRuns) <= Depth
      BY DEF HistoryInv, FlushedRuns
    <2> QED BY <2>1, <2>2, HistoryBoot
  <1>8. ASSUME SaveFaults \/ Unlock \/ PostRun \/ PostFaultClear
                 \/ (\E on \in BOOLEAN : PostSettings(on))
                 \/ Receive \/ Published \/ NotPublished \/ UNCHANGED vars
        PROVE  HistoryInv'
    <2>1. UNCHANGED <<runVars, nvsRuns>>
      BY <1>8 DEF SaveFaults, Unlock, PostRun, PostFaultClear, PostSettings, Receive,
                  Published, NotPublished, vars, flashVars
    <2> QED BY <2>1, HistoryKept
  <1> QED BY <1>1, <1>2, <1>3, <1>4, <1>5, <1>6, <1>7, <1>8 DEF Next

LEMMA NextKeepsFaultLog ==
  ASSUME FaultLogInv, LatchInv, [Next]_vars
  PROVE  FaultLogInv'
  <1>1. CASE Surface
    <2>1. PICK aborted \in {NoFault, "Watchdog"}, flagged \in {NoFault, "ValveRest"} :
            AppendFaults(aborted, LatchEdge, flagged)
      BY <1>1 DEF Surface
    <2>2. aborted \in Places /\ flagged \in Places
      BY DEF Places, Codes, Noted
    <2>3. fault' \in {NoFault} \cup Latching
      <3>1. fault' = fault \/ fault' = "UnexpectedFlow" \/ fault' = "NoFlow"
        BY <1>1 DEF Surface, Verdict, RaiseFault
      <3> QED BY <3>1 DEF LatchInv, Latching
    <2>4. LatchEdge \in Places
      BY <2>3 DEF LatchEdge, Places, Codes
    <2>5. UNCHANGED nvsFaults
      BY <1>1 DEF Surface, flashVars
    <2> QED BY <2>1, <2>2, <2>4, <2>5, FaultLogAppend
  <1>2. CASE SaveFaults
    <2>1. /\ UNCHANGED <<faultlog, entries, logged>> /\ faultDirty' = FALSE
          /\ nvsFaults' = IF faultDirty THEN FaultLog!serialize(faultlog) ELSE nvsFaults
      BY <1>2 DEF SaveFaults
    <2> QED BY <2>1, FaultLogSave
  <1>3. CASE Reset
    <2>1. /\ faultlog' = FaultLog!deserialize(nvsFaults) /\ entries' = nvsFaults
          /\ nvsFaults' = nvsFaults /\ UNCHANGED logged
      BY <1>3 DEF Reset, Boot, flashVars
    <2>2. nvsFaults \in Seq(Codes) /\ Len(nvsFaults) <= LogSize
      BY DEF FaultLogInv
    <2> QED BY <2>1, <2>2, FaultLogBoot
  <1>4. CASE NightlyReboot
    <2>1. /\ faultlog' = FaultLog!deserialize(FlushedFaults) /\ entries' = FlushedFaults
          /\ nvsFaults' = FlushedFaults /\ UNCHANGED logged
      BY <1>4 DEF NightlyReboot, Boot
    <2>2. FlushedFaults \in Seq(Codes) /\ Len(FlushedFaults) <= LogSize
      BY DEF FaultLogInv, FlushedFaults
    <2> QED BY <2>1, <2>2, FaultLogBoot
  <1>5. ASSUME Tick \/ ScanMissed \/ SaveAndFeed \/ Unlock \/ PostRun \/ PostFaultClear
                 \/ PostCalFinish \/ (\E on \in BOOLEAN : PostSettings(on))
                 \/ Receive \/ Published \/ NotPublished \/ UNCHANGED vars
        PROVE  FaultLogInv'
    <2>1. UNCHANGED <<faultlog, faultDirty, entries, logged, nvsFaults>>
      BY <1>5 DEF Tick, ScanMissed, SaveAndFeed, Unlock, PostRun, PostFaultClear,
                  PostCalFinish, PostSettings, Receive, Published, NotPublished,
                  vars, flashVars, faultVars
    <2> QED BY <2>1, FaultLogKept
  <1> QED BY <1>1, <1>2, <1>3, <1>4, <1>5 DEF Next

LEMMA NextKeepsLatch ==
  ASSUME LatchInv, [Next]_vars
  PROVE  LatchInv'
  <1> USE DEF LatchInv, NoFault, Latching
  <1>1. CASE Surface
    <2>1. /\ pc' = "Surfaced" /\ prevFault' = fault'
          /\ unlogged' = ((unlogged \/ state # state') /\ LatchEdge = NoFault)
      BY <1>1 DEF Surface
    <2>2. \/ fault' = fault /\ state' = state
          \/ state # "Fault" /\ state' = "Fault" /\ fault' \in Latching
      BY <1>1 DEF Surface, Verdict, RaiseFault
    <2>3. ~unlogged'
      BY <2>1, <2>2 DEF LatchEdge
    <2> QED BY <2>1, <2>2, <2>3
  <1>2. CASE Tick
    <2>1. /\ pc' = "Ticked" /\ fault' = fault /\ prevFault' = prevFault
          /\ unlogged' = unlogged /\ (state = "Fault" <=> state' = "Fault")
      BY <1>2 DEF Tick, faultVars
    <2> QED BY <2>1
  <1>3. CASE PostCalFinish
    <2>1. /\ pc = "Out" /\ pc' = pc /\ state # "Fault" /\ state' = "Fault"
          /\ fault' = "CalRange" /\ prevFault' = prevFault
      BY <1>3 DEF PostCalFinish, RaiseFault, faultVars
    <2> QED BY <2>1
  <1>4. CASE PostFaultClear
    BY <1>4 DEF PostFaultClear, requestClear, ResetEdge
  <1>5. ASSUME NEW on \in BOOLEAN, PostSettings(on) PROVE LatchInv'
    BY <1>5 DEF PostSettings, requestClear, ResetEdge
  <1>6. CASE PostRun
    BY <1>6 DEF PostRun, faultVars
  <1>7. CASE Reset \/ NightlyReboot
    BY <1>7 DEF Reset, NightlyReboot, Boot
  <1>8. ASSUME ScanMissed \/ SaveAndFeed \/ SaveFaults \/ Unlock
                 \/ Receive \/ Published \/ NotPublished \/ UNCHANGED vars
        PROVE  LatchInv'
    <2>1. /\ UNCHANGED <<state, fault, prevFault, unlogged>>
          /\ pc' \in {pc, "Scanned", "Fed", "Stored", "Out"}
      BY <1>8 DEF ScanMissed, SaveAndFeed, SaveFaults, Unlock, Receive, Published,
                  NotPublished, vars, faultVars
    <2> QED BY <2>1
  <1> QED BY <1>1, <1>2, <1>3, <1>4, <1>5, <1>6, <1>7, <1>8 DEF Next

LEMMA NextKeepsCondition ==
  ASSUME LatchInv, ConditionInv, [Next]_vars
  PROVE  ConditionInv'
  <1> USE DEF ConditionInv
  <1>1. CASE Surface
    <2>1. /\ condition' = (~override /\ flowing)
          /\ UNCHANGED <<flowing, override>>
      BY <1>1 DEF Surface, Condition
    <2>2. fault' = "UnexpectedFlow" => fault = "UnexpectedFlow" \/ ~override
      BY <1>1 DEF Surface, Verdict, RaiseFault
    <2> QED BY <2>1, <2>2
  <1>2. CASE Tick
    BY <1>2 DEF Tick
  <1>3. CASE PostCalFinish
    BY <1>3 DEF PostCalFinish, RaiseFault
  <1>4. CASE PostFaultClear
    BY <1>4 DEF PostFaultClear, requestClear, NoFault
  <1>5. ASSUME NEW on \in BOOLEAN, PostSettings(on) PROVE ConditionInv'
    <2>1. /\ pc' = pc /\ override' = on /\ flowing' = flowing
          /\ condition' = (condition /\ ~on)
      BY <1>5 DEF PostSettings
    <2>2. CASE on /\ fault \in {"NoFlow", "UnexpectedFlow"} /\ clearAllowed(condition')
      BY <1>5, <2>2 DEF PostSettings, requestClear, NoFault
    <2>3. CASE ~(on /\ fault \in {"NoFlow", "UnexpectedFlow"} /\ clearAllowed(condition'))
      <3>1. fault' = fault
        BY <1>5, <2>3 DEF PostSettings
      <3>2. on => fault # "UnexpectedFlow"
        BY <2>1, <2>3 DEF clearAllowed, LatchInv, NoFault
      <3> QED BY <2>1, <3>1, <3>2
    <2> QED BY <2>2, <2>3
  <1>6. CASE Reset \/ NightlyReboot
    BY <1>6 DEF Reset, NightlyReboot, Boot, NoFault
  <1>7. ASSUME ScanMissed \/ SaveAndFeed \/ SaveFaults \/ Unlock \/ PostRun
                 \/ Receive \/ Published \/ NotPublished \/ UNCHANGED vars
        PROVE  ConditionInv'
    <2>1. /\ UNCHANGED <<fault, condition, flowing, override>>
          /\ pc' \in {"Surfaced", "Out"} => pc \in {"Surfaced", "Out"}
      BY <1>7 DEF ScanMissed, SaveAndFeed, SaveFaults, Unlock, PostRun, Receive,
                  Published, NotPublished, vars
    <2> QED BY <2>1
  <1> QED BY <1>1, <1>2, <1>3, <1>4, <1>5, <1>6, <1>7 DEF Next

\* The history, the fault log, the latch and its condition are as RecordsInv
\* says after every pass section, handler, publish and reset.
THEOREM RecordsInvariant == Spec => []RecordsInv
  <1>1. Init => RecordsInv
    BY InitRecords
  <1>2. RecordsInv /\ [Next]_vars => RecordsInv'
    BY NextKeepsHistory, NextKeepsFaultLog, NextKeepsLatch, NextKeepsCondition
       DEF RecordsInv
  <1> QED BY <1>1, <1>2, PTL DEF Spec

-----------------------------------------------------------------------------
(* The feed of the publisher. *)

Newest == IF rows = <<>> THEN 0 ELSE rows[Len(rows)].id

InLine(x) == x = sent \/ x = sending \/ \E k \in 1 .. Len(queue) : queue[k] = x

RowsInv == Ordered(rows, pushed) /\ Ordered(nvsRuns, pushed)

\* The published row, the one in hand and the queue rise to the newest row at
\* most; and if that one is among them the feed remembers having fed it.
FeedInv ==
  /\ queue \in Seq(Nat) /\ Rising(queue) /\ sending \in Nat /\ sent \in Nat
  /\ \A k \in 1 .. Len(queue) : sent < queue[k] /\ sending < queue[k] /\ queue[k] <= Newest
  /\ sending # Nothing => sent < sending
  /\ sent <= Newest /\ sending <= Newest
  /\ Newest # 0 /\ InLine(Newest) => rows[Len(rows)].stamped /\ (seeded => lastKey = Newest)

\* The newest row has the greatest number, and it is the ring's head.
LEMMA NewestRow ==
  ASSUME HistoryInv, RowsInv
  PROVE  /\ Newest \in Nat /\ pushed \in Nat /\ Newest <= pushed
         /\ rows = <<>> => Newest = 0 /\ head(runlog) = EmptyRow
         /\ rows # <<>> => /\ Len(rows) \in 1 .. Len(rows)
                           /\ head(runlog) = rows[Len(rows)] /\ head(runlog) \in Row
                           /\ Newest = head(runlog).id /\ Newest # 0
  <1>1. rows \in Seq(Row) /\ pushed \in Nat /\ IsRing(runlog, Rows) /\ rows = serialize(runlog)
        /\ Len(rows) \in Nat
    BY RecordsAssumption, LenProperties, SMT DEF HistoryInv
  <1>2. Len(rows) = runlog.count
    BY <1>1, RowsOf
  <1>3. CASE rows = <<>>
    <2>1. runlog.count = 0
      BY <1>2, <1>3, SMT
    <2>2. head(runlog) = EmptyRow
      BY <2>1, SMT DEF head, at
    <2> QED BY <1>1, <1>3, <2>2, SMT DEF Newest
  <1>4. CASE rows # <<>>
    <2>1. Len(rows) \in 1 .. Len(rows) /\ Len(rows) # 0
      BY <1>1, <1>4, EmptySeq, SMT
    <2>2. rows[Len(rows)] = at(runlog, runlog.count - runlog.count)
      BY <1>1, <1>2, <2>1 DEF serialize
    <2>3. runlog.count - runlog.count = 0
      BY <1>1, <1>2, SMT
    <2>4. head(runlog) = rows[Len(rows)]
      BY <2>2, <2>3 DEF head
    <2>5. rows[Len(rows)] \in Row
      BY <1>1, <2>1, ElementOfSeq
    <2>6. Newest = rows[Len(rows)].id /\ Newest \in 1 .. MaxRows
      BY <1>4, <2>5 DEF Newest, Row
    <2>7. Newest <= pushed
      BY <2>1, <2>6 DEF RowsInv, Ordered
    <2>8. Newest \in Nat /\ Newest # 0
      BY <2>6, RecordsAssumption, SMT
    <2> QED BY <1>1, <1>4, <2>1, <2>4, <2>5, <2>6, <2>7, <2>8
  <1> QED BY <1>3, <1>4

LEMMA OrderedLonger ==
  ASSUME NEW s \in Seq(Row), NEW n \in Nat, Ordered(s, n)
  PROVE  Ordered(s, n + 1)
  <1>1. ASSUME NEW k \in 1 .. Len(s) PROVE s[k].id <= n + 1
    <2>1. s[k] \in Row
      BY ElementOfSeq
    <2>2. s[k].id \in Int /\ s[k].id <= n
      BY <2>1 DEF Row, Ordered
    <2> QED BY <2>2, SMT
  <1> QED BY <1>1 DEF Ordered

\* A new row is newer than all that wait in line.
LEMMA PushKeepsFeed ==
  ASSUME HistoryInv, RowsInv, FeedInv, NEW s \in BOOLEAN, PushRow(s),
         UNCHANGED <<nvsRuns, feedVars, taskVars>>
  PROVE  RowsInv' /\ FeedInv'
  <1> DEFINE e == [id |-> pushed + 1, stamped |-> s]
  <1>1. /\ Newest \in Nat /\ pushed \in Nat /\ Newest <= pushed
        /\ rows \in Seq(Row) /\ nvsRuns \in Seq(Row) /\ Len(rows) <= Depth
        /\ Len(rows) \in Nat /\ Depth \in Nat \ {0}
    BY NewestRow, RingSize, LenProperties DEF HistoryInv
  <1>2. /\ e \in Row /\ e.id = pushed + 1
        /\ rows' = Remember(rows, e) /\ pushed' = pushed + 1
    <2>1. pushed + 1 \in 1 .. MaxRows
      BY <1>1, RecordsAssumption, SMT DEF PushRow
    <2> QED BY <2>1 DEF PushRow, Row
  <1> HIDE DEF e
  <1>3. /\ rows' \in Seq(Row) /\ rows'[Len(rows')] = e
        /\ Len(rows') = IF Len(rows) = Depth THEN Depth ELSE Len(rows) + 1
        /\ \A k \in 1 .. Len(rows') - 1 :
             rows'[k] = IF Len(rows) = Depth THEN rows[k + 1] ELSE rows[k]
    <2> DEFINE t == Remember(rows, e)
    <2>0. rows \in Seq(Row) /\ Len(rows) <= Depth /\ e \in Row
      BY <1>1, <1>2
    <2>1. /\ t \in Seq(Row)
          /\ Len(t) = IF Len(rows) = Depth THEN Depth ELSE Len(rows) + 1
          /\ \A k \in 1 .. Len(t) - 1 :
               t[k] = IF Len(rows) = Depth THEN rows[k + 1] ELSE rows[k]
          /\ t[Len(t)] = e
      BY <2>0, RememberedRows, Zenon
    <2>2. rows' = t
      BY <1>2
    <2> HIDE DEF t
    <2> QED BY <2>1, <2>2, Zenon
  <1>4. Len(rows') \in Nat /\ Len(rows') # 0 /\ rows' # <<>>
    BY <1>1, <1>3, EmptySeq, SMT
  <1>5. Newest' = pushed + 1
    BY <1>2, <1>3, <1>4 DEF Newest
  <1>6. ASSUME NEW k \in 1 .. Len(rows') - 1
        PROVE  \E j \in 1 .. Len(rows) :
                 /\ rows'[k] = rows[j]
                 /\ j = IF Len(rows) = Depth THEN k + 1 ELSE k
    <2>1. CASE Len(rows) = Depth
      <3>1. k + 1 \in 1 .. Len(rows)
        BY <1>1, <1>3, <2>1, SMT
      <3> QED BY <1>3, <2>1, <3>1
    <2>2. CASE Len(rows) # Depth
      <3>1. k \in 1 .. Len(rows)
        BY <1>1, <1>3, <2>2, SMT
      <3> QED BY <1>3, <2>2, <3>1
    <2> QED BY <2>1, <2>2
  <1>7. ASSUME NEW k \in 1 .. Len(rows') - 1
        PROVE  rows'[k].id \in Int /\ rows'[k].id <= pushed
    <2>1. PICK j \in 1 .. Len(rows) : rows'[k] = rows[j]
      BY <1>6
    <2>2. rows[j] \in Row
      BY <1>1, ElementOfSeq
    <2> QED BY <2>1, <2>2 DEF Row, RowsInv, Ordered
  <1>8. Ordered(rows', pushed')
    <2>1. ASSUME NEW k \in 1 .. Len(rows'), NEW l \in 1 .. Len(rows'), k < l
          PROVE  rows'[k].id < rows'[l].id
      <3>1. k \in 1 .. Len(rows') - 1
        BY <1>4, <2>1, SMT
      <3>2. CASE l = Len(rows')
        BY <1>1, <1>2, <1>3, <1>7, <3>1, <3>2, SMT
      <3>3. CASE l # Len(rows')
        <4>1. l \in 1 .. Len(rows') - 1
          BY <1>4, <3>3, SMT
        <4>2. PICK i \in 1 .. Len(rows) :
                rows'[k] = rows[i] /\ i = IF Len(rows) = Depth THEN k + 1 ELSE k
          BY <1>6, <3>1
        <4>3. PICK j \in 1 .. Len(rows) :
                rows'[l] = rows[j] /\ j = IF Len(rows) = Depth THEN l + 1 ELSE l
          BY <1>6, <4>1
        <4>4. i < j
          BY <2>1, <4>2, <4>3, SMT
        <4> QED BY <4>2, <4>3, <4>4 DEF RowsInv, Ordered
      <3> QED BY <3>2, <3>3
    <2>2. ASSUME NEW k \in 1 .. Len(rows') PROVE rows'[k].id <= pushed'
      <3>1. CASE k = Len(rows')
        BY <1>1, <1>2, <1>3, <3>1, SMT
      <3>2. CASE k # Len(rows')
        <4>1. k \in 1 .. Len(rows') - 1
          BY <1>4, <3>2, SMT
        <4> QED BY <1>1, <1>2, <1>7, <4>1, SMT
      <3> QED BY <3>1, <3>2
    <2> QED BY <2>1, <2>2 DEF Ordered
  <1>9. Ordered(nvsRuns', pushed')
    BY <1>1, <1>2, OrderedLonger DEF RowsInv
  <1>10. UNCHANGED <<seeded, lastKey, queue, sending, sent>>
    BY DEF feedVars, taskVars
  <1>11. /\ queue \in Seq(Nat) /\ Rising(queue) /\ sending \in Nat /\ sent \in Nat
         /\ \A k \in 1 .. Len(queue) :
              sent < queue[k] /\ sending < queue[k] /\ queue[k] <= Newest /\ queue[k] \in Nat
         /\ sending # Nothing => sent < sending
         /\ sent <= Newest /\ sending <= Newest
    BY ElementOfSeq DEF FeedInv
  <1>12. /\ sent < Newest' /\ sending < Newest'
         /\ \A k \in 1 .. Len(queue) : queue[k] < Newest'
    <2>1. \A x \in Nat : x <= Newest => x < Newest'
      BY <1>1, <1>5, SMT
    <2> QED BY <1>11, <2>1
  <1>13. ~InLine(Newest)'
    <2>1. Newest' # sent /\ Newest' # sending /\ \A k \in 1 .. Len(queue) : queue[k] # Newest'
      BY <1>1, <1>5, <1>11, <1>12
    <2> QED BY <1>10, <2>1 DEF InLine
  <1>14. /\ sent <= Newest' /\ sending <= Newest'
         /\ \A k \in 1 .. Len(queue) : queue[k] <= Newest'
    <2>1. \A x \in Nat : x < Newest' => x <= Newest'
      BY <1>1, <1>5, SMT
    <2> QED BY <1>11, <1>12, <2>1
  <1> QED BY <1>8, <1>9, <1>10, <1>11, <1>13, <1>14 DEF RowsInv, FeedInv

\* A step that leaves the history, the feed and the line alone.
LEMMA FeedKept ==
  ASSUME RowsInv, FeedInv, UNCHANGED <<runVars, nvsRuns, feedVars, taskVars>>
  PROVE  RowsInv' /\ FeedInv'
  <1>1. UNCHANGED <<rows, pushed, nvsRuns, seeded, lastKey, queue, sending, sent>>
    BY DEF runVars, feedVars, taskVars
  <1>2. RowsInv'
    BY <1>1 DEF RowsInv
  <1>3. Newest' = Newest /\ (InLine(Newest)' <=> InLine(Newest))
    BY <1>1 DEF Newest, InLine
  <1> QED BY <1>1, <1>2, <1>3 DEF FeedInv

\* The first pass takes the head as known; a later one feeds a head it has not
\* fed, and that one is not yet in line.
LEMMA FeedFeeds ==
  ASSUME HistoryInv, RowsInv, FeedInv, SaveAndFeed
  PROVE  RowsInv' /\ FeedInv'
  <1> DEFINE h == head(runlog)
  <1>1. /\ SaveRuns /\ seeded' = TRUE /\ lastKey' = Key(h)
        /\ queue' = IF NewHead(h) THEN enqueue(queue, h) ELSE queue
        /\ UNCHANGED <<runlog, rows, pushed, sending, sent>>
    BY DEF SaveAndFeed
  <1>2. RowsInv'
    <2>1. nvsRuns' = nvsRuns \/ nvsRuns' = rows
      BY <1>1 DEF SaveRuns, HistoryInv
    <2> QED BY <1>1, <2>1 DEF RowsInv
  <1>3. /\ Newest \in Nat
        /\ rows = <<>> => Newest = 0 /\ h = EmptyRow
        /\ rows # <<>> => h = rows[Len(rows)] /\ h \in Row /\ Newest = h.id /\ Newest # 0
    BY NewestRow
  <1> HIDE DEF h
  <1>4. Newest' = Newest
    BY <1>1 DEF Newest
  <1>5. Newest # 0 => /\ rows # <<>> /\ h \in Row /\ h # EmptyRow /\ h.id = Newest
                      /\ rows[Len(rows)] = h /\ (h.stamped => Key(h) = Newest)
    <2>1. h \in Row => h # EmptyRow
      BY RecordsAssumption
    <2> QED BY <1>3, <2>1 DEF Key
  <1>6. CASE queue' = queue
    <2>1. InLine(Newest)' => InLine(Newest)
      BY <1>1, <1>4, <1>6 DEF InLine
    <2>2. Newest # 0 /\ InLine(Newest) => rows[Len(rows)].stamped /\ Key(h) = Newest
      BY <1>5 DEF FeedInv
    <2> QED BY <1>1, <1>2, <1>4, <1>6, <2>1, <2>2 DEF FeedInv
  <1>7. CASE NewHead(h) /\ h.stamped /\ queue' = Append(queue, h.id)
    <2>1. seeded /\ h # EmptyRow /\ Key(h) # lastKey /\ Key(h) = h.id
      BY <1>7 DEF NewHead, Key
    <2>2. rows # <<>> /\ h.id = Newest /\ Newest # 0 /\ rows[Len(rows)] = h
      BY <1>3, <2>1
    <2>3. ~InLine(Newest)
      BY <2>1, <2>2 DEF FeedInv
    <2>4. /\ queue \in Seq(Nat) /\ Rising(queue) /\ sending \in Nat /\ sent \in Nat
          /\ \A k \in 1 .. Len(queue) : queue[k] \in Nat /\ queue[k] <= Newest
          /\ sent <= Newest /\ sending <= Newest
      BY ElementOfSeq DEF FeedInv
    <2>5. sent # Newest /\ sending # Newest /\ \A k \in 1 .. Len(queue) : queue[k] # Newest
      BY <2>3 DEF InLine
    <2>6. \A x \in Nat : x <= Newest /\ x # Newest => x < Newest
      BY <1>3, SMT
    <2>7. sent < Newest /\ sending < Newest /\ \A k \in 1 .. Len(queue) : queue[k] < Newest
      BY <2>4, <2>5, <2>6
    <2>8. queue' \in Seq(Nat) /\ Rising(queue')
      BY <1>3, <1>7, <2>2, <2>4, <2>7, RisesOn
    <2>9. ASSUME NEW k \in 1 .. Len(queue')
          PROVE  sent < queue'[k] /\ sending < queue'[k] /\ queue'[k] <= Newest
      <3>1. Len(queue) \in Nat /\ Len(queue') = Len(queue) + 1
            /\ queue'[Len(queue) + 1] = Newest
            /\ \A i \in 1 .. Len(queue) : queue'[i] = queue[i]
        BY <1>3, <1>7, <2>2, <2>4, AppendProperties, LenProperties
      <3>2. CASE k = Len(queue) + 1
        <4>1. Newest <= Newest
          BY <1>3, SMT
        <4> QED BY <2>7, <3>1, <3>2, <4>1
      <3>3. CASE k # Len(queue) + 1
        <4>1. k \in 1 .. Len(queue)
          BY <3>1, <3>3, SMT
        <4> QED BY <3>1, <4>1 DEF FeedInv
      <3> QED BY <3>2, <3>3
    <2>10. rows'[Len(rows')].stamped /\ lastKey' = Newest
      BY <1>1, <1>7, <2>1, <2>2
    <2> QED BY <1>1, <1>2, <1>4, <2>8, <2>9, <2>10 DEF FeedInv
  <1> QED BY <1>1, <1>6, <1>7 DEF enqueue

\* A row in front of a queue.
LEMMA Prepended ==
  ASSUME NEW x \in Nat, NEW q \in Seq(Nat)
  PROVE  /\ <<x>> \o q \in Seq(Nat) /\ Len(<<x>> \o q) = Len(q) + 1
         /\ (<<x>> \o q)[1] = x
         /\ \A k \in 2 .. Len(q) + 1 : (<<x>> \o q)[k] = q[k - 1] /\ k - 1 \in 1 .. Len(q)
  <1>1. <<x>> \in Seq(Nat) /\ Len(<<x>>) = 1 /\ <<x>>[1] = x /\ Len(q) \in Nat
    OBVIOUS
  <1>2. <<x>> \o q \in Seq(Nat) /\ Len(<<x>> \o q) = Len(q) + 1
    BY <1>1
  <1>3. (<<x>> \o q)[1] = x
    BY <1>1
  <1>4. ASSUME NEW k \in 2 .. Len(q) + 1
        PROVE  (<<x>> \o q)[k] = q[k - 1] /\ k - 1 \in 1 .. Len(q)
    BY <1>1
  <1> QED BY <1>2, <1>3, <1>4

\* The task takes a row in hand, has it published or puts it back, or drops it.
LEMMA TaskKeepsLine ==
  ASSUME RowsInv, FeedInv, HistoryInv, Receive \/ Published \/ NotPublished
  PROVE  RowsInv' /\ FeedInv'
  <1>1. UNCHANGED <<rows, pushed, nvsRuns, seeded, lastKey>>
    BY DEF Receive, Published, NotPublished, runVars, flashVars, feedVars
  <1>2. RowsInv'
    BY <1>1 DEF RowsInv
  <1>3. Newest' = Newest /\ Newest \in Nat
    BY <1>1, NewestRow DEF Newest
  <1>4. /\ queue \in Seq(Nat) /\ Rising(queue) /\ sending \in Nat /\ sent \in Nat
        /\ Len(queue) \in Nat /\ \A k \in 1 .. Len(queue) : queue[k] \in Nat
        /\ \A k \in 1 .. Len(queue) : sent < queue[k] /\ sending < queue[k] /\ queue[k] <= Newest
        /\ sending # Nothing => sent < sending
        /\ sent <= Newest /\ sending <= Newest
    BY ElementOfSeq, LenProperties DEF FeedInv
  \* The new line is of the old one.
  <1>5. SUFFICES
          /\ queue' \in Seq(Nat) /\ Rising(queue') /\ sending' \in Nat /\ sent' \in Nat
          /\ \A k \in 1 .. Len(queue') :
               sent' < queue'[k] /\ sending' < queue'[k] /\ InLine(queue'[k])
          /\ sending' # Nothing => sent' < sending'
          /\ (sent' = 0 \/ InLine(sent')) /\ (sending' = 0 \/ InLine(sending'))
    <2>1. ASSUME NEW x, InLine(x) PROVE x <= Newest
      BY <1>4, <2>1 DEF InLine
    <2>2. 0 <= Newest
      BY <1>3, SMT
    <2>3. Newest # 0 /\ InLine(Newest)' => InLine(Newest)
      BY <1>3, <1>5 DEF InLine
    <2> QED BY <1>1, <1>2, <1>3, <1>5, <2>1, <2>2, <2>3 DEF FeedInv
  <1>6. CASE Receive
    <2>1. sending = 0 /\ queue # <<>> /\ sending' = Head(queue) /\ queue' = Tail(queue)
          /\ sent' = sent
      BY <1>6 DEF Receive, Nothing
    <2>2. /\ Head(queue) = queue[1] /\ queue' \in Seq(Nat) /\ Len(queue') = Len(queue) - 1
          /\ 1 \in 1 .. Len(queue)
          /\ \A k \in 1 .. Len(queue') : queue'[k] = queue[k + 1] /\ k + 1 \in 1 .. Len(queue)
      <3>1. Len(queue) # 0
        BY <1>4, <2>1, EmptySeq
      <3>2. Tail(queue) \in Seq(Nat) /\ Len(Tail(queue)) = Len(queue) - 1
            /\ \A k \in 1 .. Len(Tail(queue)) : Tail(queue)[k] = queue[k + 1]
        BY <1>4, <2>1
      <3>3. Head(queue) = queue[1]
        BY <1>4, <2>1
      <3> QED BY <1>4, <2>1, <3>1, <3>2, <3>3, SMT
    <2>3. ASSUME NEW k \in 1 .. Len(queue'), NEW l \in 1 .. Len(queue'), k < l
          PROVE  queue'[k] < queue'[l]
      <3>1. k + 1 < l + 1
        BY <2>3, SMT
      <3> QED BY <1>4, <2>2, <3>1 DEF Rising
    <2>4. ASSUME NEW k \in 1 .. Len(queue')
          PROVE  sent' < queue'[k] /\ sending' < queue'[k] /\ InLine(queue'[k])
      <3>1. 1 < k + 1
        BY SMT
      <3> QED BY <1>4, <2>1, <2>2, <3>1 DEF Rising, InLine
    <2> QED BY <1>4, <2>1, <2>2, <2>3, <2>4 DEF Rising, InLine
  <1>7. CASE Published
    <2>1. sending # 0 /\ sent' = sending /\ sending' = 0 /\ queue' = queue
      BY <1>7 DEF Published, Nothing
    <2>2. \A k \in 1 .. Len(queue) : 0 < queue[k]
      BY <1>4, SMT
    <2> QED BY <1>4, <2>1, <2>2 DEF InLine, Nothing
  <1>8. CASE NotPublished
    <2>1. sending # 0 /\ sending' = 0 /\ sent' = sent
          /\ (queue' = queue \/ queue' = <<sending>> \o queue)
      BY <1>8 DEF NotPublished, Requeue, Nothing
    <2>2. \A x \in Nat : sent < x => 0 < x
      BY <1>4, SMT
    <2>3. CASE queue' = queue
      BY <1>4, <2>1, <2>2, <2>3 DEF InLine, Nothing
    <2>4. CASE queue' = <<sending>> \o queue
      <3>1. /\ queue' \in Seq(Nat) /\ Len(queue') = Len(queue) + 1 /\ queue'[1] = sending
            /\ \A k \in 2 .. Len(queue) + 1 : queue'[k] = queue[k - 1] /\ k - 1 \in 1 .. Len(queue)
        BY <1>4, <2>4, Prepended
      <3>2. ASSUME NEW k \in 1 .. Len(queue')
            PROVE  k = 1 \/ k \in 2 .. Len(queue) + 1
        BY <1>4, <3>1, SMT
      <3>3. ASSUME NEW k \in 1 .. Len(queue'), NEW l \in 1 .. Len(queue'), k < l
            PROVE  queue'[k] < queue'[l]
        <4>1. l \in 2 .. Len(queue) + 1
          BY <1>4, <3>1, <3>3, SMT
        <4>2. CASE k = 1
          BY <1>4, <3>1, <4>1, <4>2
        <4>3. CASE k # 1
          <5>1. k \in 2 .. Len(queue) + 1 /\ k - 1 < l - 1
            BY <1>4, <3>1, <3>3, <4>3, SMT
          <5> QED BY <1>4, <3>1, <4>1, <5>1 DEF Rising
        <4> QED BY <4>2, <4>3
      <3>4. ASSUME NEW k \in 1 .. Len(queue')
            PROVE  queue'[k] \in Nat /\ sent < queue'[k] /\ InLine(queue'[k])
        <4>1. CASE k = 1
          BY <1>4, <2>1, <3>1, <4>1 DEF InLine, Nothing
        <4>2. CASE k # 1
          BY <1>4, <3>1, <3>2, <4>2 DEF InLine
        <4> QED BY <4>1, <4>2
      <3> QED BY <1>4, <2>1, <2>2, <3>1, <3>3, <3>4 DEF Rising, InLine, Nothing
    <2> QED BY <2>1, <2>3, <2>4
  <1> QED BY <1>6, <1>7, <1>8

\* After a boot the line is the backlog.
LEMMA BootKeepsFeed ==
  ASSUME RowsInv, HistoryInv, NEW runs \in Seq(Row), Ordered(runs, pushed),
         NEW faults, Boot(runs, faults), nvsRuns' = runs
  PROVE  RowsInv' /\ FeedInv'
  <1>1. /\ rows' = runs /\ seeded' = FALSE /\ queue' = Backlog(runs)
        /\ sending' = 0 /\ sent' = 0 /\ pushed' = pushed
    BY DEF Boot, Nothing
  <1>2. RowsInv'
    BY <1>1 DEF RowsInv
  <1>3. Holds(queue', runs, Len(runs)) /\ Len(runs) \in Nat
    BY <1>1, BacklogHolds, LenProperties
  <1>4. ASSUME NEW j \in 1 .. Len(runs)
        PROVE  /\ runs[j].id \in Nat /\ 0 < runs[j].id /\ runs[j].id <= Newest'
               /\ runs[j].id = Newest' => j = Len(runs)
    <2>1. Len(runs) \in 1 .. Len(runs) /\ runs # <<>>
      BY <1>3, EmptySeq, SMT
    <2>2. Newest' = runs[Len(runs)].id
      BY <1>1, <2>1 DEF Newest
    <2>3. runs[j] \in Row /\ runs[Len(runs)] \in Row
      BY <2>1, ElementOfSeq
    <2>4. runs[j].id \in 1 .. MaxRows /\ runs[Len(runs)].id \in 1 .. MaxRows
      BY <2>3 DEF Row
    <2>5. j # Len(runs) => runs[j].id < runs[Len(runs)].id
      <3>1. j # Len(runs) => j < Len(runs)
        BY <1>3, SMT
      <3> QED BY <2>1, <3>1 DEF Ordered
    <2> QED BY <2>2, <2>4, <2>5, RecordsAssumption, SMT
  <1>5. Newest' = 0 \/ Newest' \in Nat
    <2>1. CASE runs = <<>>
      BY <1>1, <2>1 DEF Newest
    <2>2. CASE runs # <<>>
      <3>1. Len(runs) \in 1 .. Len(runs)
        BY <1>3, <2>2, EmptySeq, SMT
      <3> QED BY <1>1, <1>4, <2>2, <3>1 DEF Newest
    <2> QED BY <2>1, <2>2
  <1>6. ASSUME NEW k \in 1 .. Len(queue')
        PROVE  0 < queue'[k] /\ queue'[k] <= Newest'
    BY <1>3, <1>4 DEF Holds
  <1>7. ASSUME Newest' # 0, InLine(Newest)'
        PROVE  rows'[Len(rows')].stamped
    <2>1. PICK k \in 1 .. Len(queue') : queue'[k] = Newest'
      BY <1>1, <1>7 DEF InLine
    <2>2. PICK j \in 1 .. Len(runs) : queue'[k] = runs[j].id /\ runs[j].stamped
      BY <1>3 DEF Holds
    <2>3. j = Len(runs)
      BY <1>4, <2>1, <2>2
    <2> QED BY <1>1, <2>2, <2>3
  <1>8. 0 <= Newest'
    BY <1>5, SMT
  <1>9. queue' \in Seq(Nat) /\ Rising(queue')
    BY <1>3 DEF Holds
  <1> QED BY <1>1, <1>2, <1>6, <1>7, <1>8, <1>9 DEF FeedInv, Nothing

LEMMA RaiseKeepsFeed ==
  ASSUME HistoryInv, RowsInv, FeedInv, NEW f, RaiseFault(f),
         UNCHANGED <<nvsRuns, feedVars, taskVars>>
  PROVE  RowsInv' /\ FeedInv'
  <1>1. CASE state = "Active"
    <2>1. PICK s \in BOOLEAN : PushRow(s)
      BY <1>1 DEF RaiseFault
    <2> QED BY <2>1, PushKeepsFeed
  <1>2. CASE state # "Active"
    BY <1>2, FeedKept DEF RaiseFault
  <1> QED BY <1>1, <1>2

LEMMA NextKeepsFeed ==
  ASSUME HistoryInv, RowsInv, FeedInv, [Next]_vars
  PROVE  RowsInv' /\ FeedInv'
  <1>1. CASE Tick
    <2>1. UNCHANGED <<nvsRuns, feedVars, taskVars>>
          /\ (UNCHANGED runVars \/ \E s \in BOOLEAN : PushRow(s))
      BY <1>1 DEF Tick, flashVars
    <2> QED BY <2>1, FeedKept, PushKeepsFeed
  <1>2. CASE ScanMissed
    <2>1. UNCHANGED <<nvsRuns, feedVars, taskVars>> /\ (UNCHANGED runVars \/ PushRow(TRUE))
      BY <1>2 DEF ScanMissed, flashVars
    <2> QED BY <2>1, FeedKept, PushKeepsFeed
  <1>3. CASE SaveAndFeed
    BY <1>3, FeedFeeds
  <1>4. CASE Surface
    <2>1. UNCHANGED <<nvsRuns, feedVars, taskVars>> /\ Verdict
      BY <1>4 DEF Surface, flashVars
    <2>2. UNCHANGED runVars \/ RaiseFault("UnexpectedFlow") \/ RaiseFault("NoFlow")
      BY <2>1 DEF Verdict
    <2> QED BY <2>1, <2>2, FeedKept, RaiseKeepsFeed
  <1>5. CASE PostCalFinish
    <2>1. UNCHANGED <<nvsRuns, feedVars, taskVars>> /\ RaiseFault("CalRange")
      BY <1>5 DEF PostCalFinish, flashVars
    <2> QED BY <2>1, RaiseKeepsFeed
  <1>6. CASE Reset
    <2>1. Boot(nvsRuns, nvsFaults) /\ nvsRuns' = nvsRuns
      BY <1>6 DEF Reset, flashVars
    <2>2. nvsRuns \in Seq(Row) /\ Ordered(nvsRuns, pushed)
      BY DEF HistoryInv, RowsInv
    <2> QED BY <2>1, <2>2, BootKeepsFeed
  <1>7. CASE NightlyReboot
    <2>1. Boot(FlushedRuns, FlushedFaults) /\ nvsRuns' = FlushedRuns
      BY <1>7 DEF NightlyReboot
    <2>2. FlushedRuns \in Seq(Row) /\ Ordered(FlushedRuns, pushed)
      BY DEF HistoryInv, RowsInv, FlushedRuns
    <2> QED BY <2>1, <2>2, BootKeepsFeed
  <1>8. CASE Receive \/ Published \/ NotPublished
    BY <1>8, TaskKeepsLine
  <1>9. ASSUME SaveFaults \/ Unlock \/ PostRun \/ PostFaultClear
                 \/ (\E on \in BOOLEAN : PostSettings(on)) \/ UNCHANGED vars
        PROVE  RowsInv' /\ FeedInv'
    <2>1. UNCHANGED <<runVars, nvsRuns, feedVars, taskVars>>
      BY <1>9 DEF SaveFaults, Unlock, PostRun, PostFaultClear, PostSettings, vars, flashVars
    <2> QED BY <2>1, FeedKept
  <1> QED BY <1>1, <1>2, <1>3, <1>4, <1>5, <1>6, <1>7, <1>8, <1>9 DEF Next

LEMMA InitFeeds == Init => RowsInv /\ FeedInv
  <1> SUFFICES ASSUME Init PROVE RowsInv /\ FeedInv
    OBVIOUS
  <1>1. /\ rows = <<>> /\ nvsRuns = <<>> /\ queue = <<>> /\ pushed = 0
        /\ sending = 0 /\ sent = 0 /\ Newest = 0
    BY DEF Init, Newest, Nothing
  <1>2. <<>> \in Seq(Nat) /\ 1 .. Len(<<>>) = {}
    BY EmptySeq, SMT
  <1>3. RowsInv
    BY <1>1, <1>2 DEF RowsInv, Ordered
  <1>4. 0 <= 0
    BY SMT
  <1> QED BY <1>1, <1>2, <1>3, <1>4 DEF FeedInv, Rising, Nothing

THEOREM FeedInvariant == Spec => [](RowsInv /\ FeedInv)
  <1>1. Init => RowsInv /\ FeedInv
    BY InitFeeds
  <1>2. RecordsInv /\ RowsInv /\ FeedInv /\ [Next]_vars => (RowsInv /\ FeedInv)'
    BY NextKeepsFeed DEF RecordsInv
  <1> QED BY <1>1, <1>2, RecordsInvariant, PTL DEF Spec

-----------------------------------------------------------------------------
(* Types. *)

\* What the two invariants leave open of the types.
FlagsInv ==
  /\ state \in {"Idle", "Active", "Settle", "Fault"}
  /\ runDirty \in BOOLEAN /\ faultDirty \in BOOLEAN /\ seeded \in BOOLEAN
  /\ condition \in BOOLEAN /\ flowing \in BOOLEAN /\ override \in BOOLEAN
  /\ prevFault \in {NoFault} \cup Latching
  /\ lastKey \in 0 .. MaxRows

QueueFits == Len(queue) <= QueueDepth

LEMMA RaiseFlags ==
  ASSUME runDirty \in BOOLEAN, NEW f, RaiseFault(f)
  PROVE  state' = "Fault" /\ runDirty' \in BOOLEAN
BY DEF RaiseFault, PushRow, runVars

LEMMA NextKeepsFlags ==
  ASSUME HistoryInv, RowsInv, LatchInv', FlagsInv, [Next]_vars
  PROVE  FlagsInv'
  <1> USE DEF FlagsInv
  <1>1. CASE Tick
    <2>1. state' \in {"Idle", "Active", "Settle", "Fault"}
      BY <1>1 DEF Tick
    <2>2. runDirty' \in BOOLEAN
      BY <1>1 DEF Tick, PushRow, runVars
    <2> QED BY <1>1, <2>1, <2>2 DEF Tick, faultVars, feedVars
  <1>2. CASE ScanMissed
    <2>1. runDirty' \in BOOLEAN
      BY <1>2 DEF ScanMissed, PushRow, runVars
    <2> QED BY <1>2, <2>1 DEF ScanMissed, faultVars, feedVars
  <1>3. CASE SaveAndFeed
    <2> DEFINE h == head(runlog)
    <2>1. h \in Rows
      BY NewestRow DEF Rows
    <2>2. Key(h) \in 0 .. MaxRows
      BY <2>1, RecordsAssumption DEF Key, Rows, Row, Nothing
    <2>3. runDirty' \in BOOLEAN /\ lastKey' = Key(h) /\ seeded' = TRUE
      BY <1>3 DEF SaveAndFeed, SaveRuns
    <2> HIDE DEF h
    <2> QED BY <1>3, <2>2, <2>3 DEF SaveAndFeed, faultVars
  <1>4. CASE Surface
    <2>1. state' \in {"Idle", "Active", "Settle", "Fault"} /\ runDirty' \in BOOLEAN
      BY <1>4, RaiseFlags DEF Surface, Verdict, runVars
    <2>2. condition' \in BOOLEAN
      BY <1>4 DEF Surface, Condition
    <2>3. faultDirty' \in BOOLEAN
      BY <1>4 DEF Surface, AppendFaults
    <2>4. prevFault' \in {NoFault} \cup Latching
      BY <1>4 DEF Surface, LatchInv
    <2> QED BY <1>4, <2>1, <2>2, <2>3, <2>4 DEF Surface, feedVars
  <1>5. CASE PostFaultClear
    BY <1>5 DEF PostFaultClear, requestClear, ResetEdge, runVars, feedVars
  <1>6. ASSUME NEW on \in BOOLEAN, PostSettings(on) PROVE FlagsInv'
    <2>1. override' \in BOOLEAN /\ condition' \in BOOLEAN
      BY <1>6 DEF PostSettings
    <2>2. state' \in {"Idle", "Active", "Settle", "Fault"}
          /\ prevFault' \in {NoFault} \cup Latching
      BY <1>6 DEF PostSettings, requestClear, ResetEdge
    <2> QED BY <1>6, <2>1, <2>2 DEF PostSettings, runVars, feedVars
  <1>7. CASE PostCalFinish
    <2>1. state' = "Fault" /\ runDirty' \in BOOLEAN
      BY <1>7, RaiseFlags DEF PostCalFinish
    <2> QED BY <1>7, <2>1 DEF PostCalFinish, faultVars, feedVars
  <1>8. ASSUME NEW runs, NEW faults, Boot(runs, faults) PROVE FlagsInv'
    <2>1. /\ state' = "Idle" /\ runDirty' = FALSE /\ faultDirty' = FALSE /\ seeded' = FALSE
          /\ condition' = FALSE /\ flowing' = FALSE /\ override' = override
          /\ prevFault' = NoFault /\ lastKey' = 0
      BY Zenon, <1>8 DEF Boot, Nothing
    <2>2. 0 \in 0 .. MaxRows
      BY RecordsAssumption, SMT
    <2> QED BY <2>1, <2>2
  <1>9. CASE Reset \/ NightlyReboot
    BY <1>8, <1>9 DEF Reset, NightlyReboot
  <1>10. CASE SaveFaults \/ Unlock \/ PostRun \/ Receive \/ Published \/ NotPublished
                \/ UNCHANGED vars
    BY <1>10 DEF SaveFaults, Unlock, PostRun, Receive, Published, NotPublished, vars,
                 runVars, faultVars, feedVars
  <1> QED BY <1>1, <1>2, <1>3, <1>4, <1>5, <1>6, <1>7, <1>9, <1>10 DEF Next

\* Nothing in the feed, the task or a replay writes past the queue's end.
LEMMA NextKeepsQueue ==
  ASSUME HistoryInv, RowsInv, FeedInv, QueueFits, [Next]_vars
  PROVE  QueueFits'
  <1>1. queue \in Seq(Nat) /\ Len(queue) \in Nat /\ QueueDepth \in Nat
    BY LenProperties, RecordsAssumption DEF FeedInv
  <1>2. ASSUME NEW r, r \in Row PROVE Len(enqueue(queue, r)) <= QueueDepth
    <2>1. r.id \in Nat
      BY <1>2 DEF Row
    <2>2. Len(Append(queue, r.id)) = Len(queue) + 1
      BY <1>1, <2>1, AppendProperties
    <2> QED BY <1>1, <2>2, SMT DEF enqueue, QueueFits
  <1>3. CASE SaveAndFeed
    <2>1. CASE NewHead(head(runlog))
      <3>1. head(runlog) \in Row
        BY <2>1, NewestRow DEF NewHead
      <3> QED BY <1>2, <1>3, <2>1, <3>1 DEF SaveAndFeed, QueueFits
    <2>2. CASE ~NewHead(head(runlog))
      BY <1>3, <2>2 DEF SaveAndFeed, QueueFits
    <2> QED BY <2>1, <2>2
  <1>4. CASE Receive
    <2>1. queue # <<>> /\ queue' = Tail(queue)
      BY <1>4 DEF Receive
    <2>2. Len(queue) # 0
      BY <1>1, <2>1, EmptySeq
    <2>3. Len(Tail(queue)) = Len(queue) - 1
      BY <1>1, <2>1
    <2> QED BY <1>1, <2>1, <2>2, <2>3, SMT DEF QueueFits
  <1>5. CASE NotPublished
    <2>1. Len(<<sending>> \o queue) = Len(queue) + 1
      BY <1>1, Prepended DEF FeedInv
    <2> QED BY <1>1, <1>5, <2>1, SMT DEF NotPublished, Requeue, QueueFits
  <1>6. ASSUME NEW runs \in Seq(Row), NEW faults, Len(runs) <= Depth, Boot(runs, faults)
        PROVE  QueueFits'
    <2>1. Len(runs) \in Nat /\ Depth \in Nat /\ Depth <= QueueDepth
      BY LenProperties, RingSize, RecordsAssumption
    <2>2. Len(runs) <= QueueDepth
      BY <1>1, <1>6, <2>1, SMT
    <2>3. Backlog(runs) \in Seq(Nat) /\ Len(Backlog(runs)) <= Len(runs)
      BY <2>2, ReplayIsWhole DEF Whole
    <2>4. Len(Backlog(runs)) \in Nat
      BY <2>3, LenProperties
    <2>5. queue' = Backlog(runs)
      BY <1>6 DEF Boot
    <2> QED BY <1>1, <2>1, <2>2, <2>3, <2>4, <2>5, SMT DEF QueueFits
  <1>7. CASE Reset
    BY <1>6, <1>7 DEF Reset, HistoryInv
  <1>8. CASE NightlyReboot
    <2>1. FlushedRuns \in Seq(Row) /\ Len(FlushedRuns) <= Depth
      BY DEF HistoryInv, FlushedRuns
    <2> QED BY <1>6, <1>8, <2>1 DEF NightlyReboot
  <1>9. ASSUME Tick \/ ScanMissed \/ SaveFaults \/ Surface \/ Unlock
                 \/ PostRun \/ PostFaultClear \/ PostCalFinish
                 \/ (\E on \in BOOLEAN : PostSettings(on)) \/ Published \/ UNCHANGED vars
        PROVE  QueueFits'
    <2>1. queue' = queue
      BY <1>9 DEF Tick, ScanMissed, SaveFaults, Surface, Unlock, PostRun, PostFaultClear,
                  PostCalFinish, PostSettings, Published, vars, taskVars
    <2> QED BY <2>1 DEF QueueFits
  <1> QED BY <1>3, <1>4, <1>5, <1>7, <1>8, <1>9 DEF Next

\* Every variable keeps its type: no index leaves its array, no queue its
\* buffer, and what flash holds is rows.
THEOREM RecordsTypes == Spec => []TypeOK
  <1>1. Init => FlagsInv /\ QueueFits
    <2>1. 0 \in 0 .. MaxRows /\ Len(<<>>) = 0 /\ 0 <= QueueDepth
      BY RecordsAssumption, EmptySeq, SMT
    <2> QED BY <2>1 DEF Init, FlagsInv, QueueFits, Nothing
  <1>2. RecordsInv /\ RecordsInv' /\ RowsInv /\ FeedInv /\ FlagsInv /\ QueueFits /\ [Next]_vars
          => (FlagsInv /\ QueueFits)'
    BY NextKeepsFlags, NextKeepsQueue DEF RecordsInv
  <1>3. RecordsInv /\ RowsInv /\ FeedInv /\ FlagsInv /\ QueueFits => TypeOK
    <2> SUFFICES ASSUME RecordsInv, RowsInv, FeedInv, FlagsInv, QueueFits
                 PROVE  TypeOK
      OBVIOUS
    <2>1. /\ runlog \in Rings(Row \cup {EmptyRow})
          /\ faultlog \in FaultLog!Rings(Latching \cup Noted \cup {NoFault})
      BY DEF RecordsInv, HistoryInv, FaultLogInv, IsRing, FL!IsRing, Rows, Places, Codes,
             Rings, FaultLog!Rings, FL!Rings
    <2>2. Newest \in Nat /\ Newest <= MaxRows
      <3>1. Newest \in Nat /\ pushed \in 0 .. MaxRows /\ Newest <= pushed
        BY NewestRow DEF RecordsInv, HistoryInv
      <3> QED BY <3>1, RecordsAssumption, SMT
    <2>3. sending \in 0 .. MaxRows /\ sent \in 0 .. MaxRows
      BY <2>2, RecordsAssumption, SMT DEF FeedInv
    <2>4. queue \in Seq(1 .. MaxRows)
      <3>1. ASSUME NEW k \in 1 .. Len(queue) PROVE queue[k] \in 1 .. MaxRows
        <4>1. /\ queue[k] \in Nat /\ sent \in Nat /\ sent < queue[k] /\ queue[k] <= Newest
          BY ElementOfSeq DEF FeedInv
        <4> QED BY <2>2, <4>1, RecordsAssumption, SMT
      <3>2. queue \in [1 .. Len(queue) -> Nat] /\ Len(queue) \in Nat
        BY LenProperties DEF FeedInv
      <3>3. queue \in [1 .. Len(queue) -> 1 .. MaxRows]
        BY <3>1, <3>2
      <3> QED BY <3>2, <3>3, SeqDef
    <2> QED BY <2>1, <2>3, <2>4
            DEF RecordsInv, HistoryInv, FaultLogInv, LatchInv, FlagsInv, QueueFits, TypeOK, Codes
  <1> QED BY <1>1, <1>2, <1>3, RecordsInvariant, FeedInvariant, PTL DEF Spec

-----------------------------------------------------------------------------
(* What follows. *)

\* RunLog::push and FaultManager::append, and their reload at boot: the rings
\* hold the newest rows and nothing else, at every depth.
THEOREM RingsAlwaysKeepNewest == Spec => []RingsKeepNewest
  <1>1. RecordsInv => RingsKeepNewest
    BY DEF RecordsInv, HistoryInv, FaultLogInv, RingsKeepNewest
  <1> QED BY <1>1, RecordsInvariant, PTL

\* The dirty flags: no write is forgotten, whatever the debounce and the resets.
THEOREM FlashIsAlwaysCurrent == Spec => []FlashIsCurrent
  <1>1. RecordsInv => FlashIsCurrent
    BY DEF RecordsInv, HistoryInv, FaultLogInv, FlashIsCurrent
  <1> QED BY <1>1, RecordsInvariant, PTL

\* FaultManager::tick and requestClear: a fault latched as a pass ends has an
\* entry of its own, also when the same one was cleared just before.
THEOREM LatchesAreLogged == Spec => []LatchIsLogged
  <1>1. RecordsInv => LatchIsLogged
    BY DEF RecordsInv, LatchInv, LatchIsLogged
  <1> QED BY <1>1, RecordsInvariant, PTL

\* FaultManager::clearAllowed over the condition main.cpp sets each pass.
THEOREM ClearsAreSafe == Spec => ClearIsSafe
  <1>1. ASSUME RecordsInv,
               PostFaultClear \/ \E on \in BOOLEAN : PostSettings(on),
               fault = "UnexpectedFlow", fault' = NoFault
        PROVE  ~flowing \/ override'
    <2>1. CASE PostFaultClear
      <3>1. pc = "Out" /\ ~condition
        BY <1>1, <2>1 DEF PostFaultClear, clearAllowed
      <3> QED BY <1>1, <3>1 DEF RecordsInv, ConditionInv
    <2>2. ASSUME NEW on \in BOOLEAN, PostSettings(on) PROVE ~flowing \/ override'
      <3>1. override' = on /\ (~on => fault' = fault)
        BY <2>2 DEF PostSettings
      <3> QED BY <1>1, <3>1 DEF NoFault
    <2> QED BY <1>1, <2>1, <2>2
  <1>2. RecordsInv /\ [Next]_vars =>
          [(PostFaultClear \/ \E on \in BOOLEAN : PostSettings(on))
             /\ fault = "UnexpectedFlow" /\ fault' = NoFault => ~flowing \/ override']_vars
    BY <1>1
  <1> QED BY <1>2, RecordsInvariant, PTL DEF Spec, ClearIsSafe

\* The flush in front of the nightly restart.
THEOREM NightlyLosesNothing == Spec => NightlyKeepsRecords
  <1>1. ASSUME RecordsInv, NightlyReboot
        PROVE  rows' = rows /\ entries' = entries
    <2>1. rows' = FlushedRuns /\ entries' = FlushedFaults
      BY <1>1 DEF NightlyReboot, Boot
    <2> QED BY <1>1, <2>1 DEF RecordsInv, HistoryInv, FaultLogInv, FlushedRuns, FlushedFaults
  <1>2. RecordsInv /\ [Next]_vars =>
          [NightlyReboot => rows' = rows /\ entries' = entries]_vars
    BY <1>1
  <1> QED BY <1>2, RecordsInvariant, PTL DEF Spec, NightlyKeepsRecords

\* Every entry of a queue is below the next.
Climbs(q) == \A k \in 1 .. Len(q) - 1 : q[k] < q[k + 1]

LEMMA ClimbsFrom ==
  ASSUME NEW x \in Nat, NEW q \in Seq(Nat), Climbs(q), q # <<>> => x < q[1]
  PROVE  Climbs(<<x>> \o q)
  <1> DEFINE p == <<x>> \o q
  <1>1. /\ Len(q) \in Nat /\ Len(p) = Len(q) + 1 /\ p[1] = x
        /\ \A k \in 2 .. Len(q) + 1 : p[k] = q[k - 1]
    BY Prepended, LenProperties
  <1> HIDE DEF p
  <1>2. ASSUME NEW k \in 1 .. Len(p) - 1 PROVE p[k] < p[k + 1]
    <2>1. k + 1 \in 2 .. Len(q) + 1 /\ (k + 1) - 1 = k /\ Len(q) # 0
      BY <1>1, SMT
    <2>2. p[k + 1] = q[k]
      BY <1>1, <2>1
    <2>3. CASE k = 1
      <3>1. q # <<>>
        BY <2>1, EmptySeq
      <3> QED BY <1>1, <2>2, <2>3, <3>1
    <2>4. CASE k # 1
      <3>1. k \in 2 .. Len(q) + 1 /\ k - 1 \in 1 .. Len(q) - 1 /\ (k - 1) + 1 = k
        BY <1>1, <2>4, SMT
      <3>2. q[k - 1] < q[(k - 1) + 1]
        BY <3>1 DEF Climbs
      <3> QED BY <1>1, <2>2, <3>1, <3>2
    <2> QED BY <2>3, <2>4
  <1> QED BY <1>2 DEF Climbs, p

\* main.cpp's feed, enqueue, enqueueBacklog and the publisher's task: between
\* two boots the rows go out in the order they were logged, none twice, for
\* every depth of the history and of the queue.
THEOREM RowsGoOutInOrder == Spec => []FedInOrder
  <1>1. ASSUME FeedInv PROVE FedInOrder
    <2>1. /\ queue \in Seq(Nat) /\ Len(queue) \in Nat /\ sending \in Nat /\ sent \in Nat
          /\ sending # 0 => sent < sending
          /\ \A k \in 1 .. Len(queue) : sent < queue[k] /\ sending < queue[k]
      BY <1>1, LenProperties DEF FeedInv, Nothing
    <2>2. queue # <<>> => sent < queue[1] /\ sending < queue[1]
      <3>1. queue # <<>> => 1 \in 1 .. Len(queue)
        BY <2>1, EmptySeq, SMT
      <3> QED BY <2>1, <3>1
    <2>3. Climbs(queue)
      <3>1. ASSUME NEW k \in 1 .. Len(queue) - 1 PROVE queue[k] < queue[k + 1]
        <4>1. k \in 1 .. Len(queue) /\ k + 1 \in 1 .. Len(queue) /\ k < k + 1
          BY <2>1, SMT
        <4> QED BY <1>1, <4>1 DEF FeedInv, Rising
      <3> QED BY <3>1 DEF Climbs
    <2>4. CASE sending = 0
      <3>1. Climbs(<<sent>> \o queue)
        BY <2>1, <2>2, <2>3, ClimbsFrom
      <3>2. <<sent>> \o <<>> \o queue = <<sent>> \o queue
        BY <2>1
      <3> QED BY <2>4, <3>1, <3>2 DEF FedInOrder, Climbs, Nothing
    <2>5. CASE sending # 0
      <3> DEFINE q == <<sending>> \o queue
      <3>1. Climbs(q)
        BY <2>1, <2>2, <2>3, ClimbsFrom
      <3>2. q \in Seq(Nat) /\ q[1] = sending
        BY <2>1, Prepended
      <3>3. <<sent>> \o <<sending>> \o queue = <<sent>> \o q
        BY <2>1
      <3> HIDE DEF q
      <3>4. Climbs(<<sent>> \o q)
        BY <2>1, <2>5, <3>1, <3>2, ClimbsFrom
      <3> QED BY <2>5, <3>3, <3>4 DEF FedInOrder, Climbs, Nothing
    <2> QED BY <2>4, <2>5
  <1> QED BY <1>1, FeedInvariant, PTL
=============================================================================
