---------------------------- MODULE RunLog_proofs ----------------------------
(***************************************************************************)
(* The ring is a sequence that forgets its oldest row, for every depth:    *)
(* what push does to the array is what Remember does to the rows, and a    *)
(* ring read back from flash holds the rows that were written.             *)
(***************************************************************************)
EXTENDS RunLog, SequenceTheorems, TLAPS

\* What every ring the code builds satisfies: until the array is full, its
\* rows begin at place 0.
IsRing(r, Row) ==
  /\ r \in Rings(Row)
  /\ r.count > 0 /\ r.count < Depth => r.head = r.count - 1

\* The remainder of a sum of two indices.
LEMMA Wrap ==
  ASSUME NEW i \in 0 .. 2 * Depth - 1
  PROVE  i % Depth = IF i < Depth THEN i ELSE i - Depth
  <1>1. Depth \in Nat /\ Depth > 0
    BY DepthAssumption
  <1>2. CASE i < Depth
    BY <1>1, <1>2, SMT
  <1>3. CASE i >= Depth
    <2>1. i = Depth * 1 + (i - Depth) /\ i - Depth \in 0 .. Depth - 1
      BY <1>1, <1>3, SMT
    <2> QED BY <1>1, <2>1, SMT
  <1> QED BY <1>1, <1>2, <1>3, SMT

LEMMA WrapNext ==
  ASSUME NEW i \in 0 .. Depth - 1
  PROVE  (i + 1) % Depth = IF i + 1 < Depth THEN i + 1 ELSE 0
  <1>1. Depth \in Nat /\ Depth > 0
    BY DepthAssumption
  <1>2. CASE i + 1 < Depth
    BY <1>1, <1>2, SMT
  <1>3. CASE i + 1 >= Depth
    <2>1. i + 1 = Depth * 1 + 0
      BY <1>1, <1>3, SMT
    <2> QED BY <1>1, <2>1, SMT
  <1> QED BY <1>1, <1>2, <1>3, SMT

\* In a full ring, the k-th place after the next head is the place after the
\* k-th, and another than the next head's.
LEMMA NextPlace ==
  ASSUME NEW h \in 0 .. Depth - 1, NEW k \in 1 .. Depth - 1, NEW g, NEW a, NEW b,
         g = IF h + 1 < Depth THEN h + 1 ELSE 0,
         a = IF g + k < Depth THEN g + k ELSE g + k - Depth,
         b = IF h + (k + 1) < Depth THEN h + (k + 1) ELSE h + (k + 1) - Depth
  PROVE  a = b /\ a # g
  <1>1. Depth \in Nat /\ Depth > 0
    BY DepthAssumption
  <1>2. CASE h + 1 < Depth
    BY <1>1, <1>2, SMT
  <1>3. CASE h + 1 = Depth
    BY <1>1, <1>3, SMT
  <1>4. h + 1 < Depth \/ h + 1 = Depth
    BY <1>1, SMT
  <1> QED BY <1>2, <1>3, <1>4

\* Where the k-th oldest row stands.
Place(r, k) == (r.head + Depth - (r.count - k)) % Depth

LEMMA PlaceOf ==
  ASSUME NEW Row, NEW r, IsRing(r, Row), NEW k \in 1 .. r.count
  PROVE  /\ Place(r, k) \in 0 .. Depth - 1
         /\ r.count < Depth => Place(r, k) = k - 1
         /\ r.count = Depth => Place(r, k) = IF r.head + k < Depth THEN r.head + k
                                             ELSE r.head + k - Depth
  <1> DEFINE i == r.head + Depth - (r.count - k)
  <1>1. Depth \in Nat /\ Depth > 0
    BY DepthAssumption
  <1>2. /\ r.head \in 0 .. Depth - 1 /\ r.count \in 0 .. Depth
        /\ r.count < Depth => r.head = r.count - 1
    BY DEF IsRing, Rings
  <1>3. i \in 0 .. 2 * Depth - 1
    BY <1>1, <1>2, SMT
  <1>4. i % Depth = IF i < Depth THEN i ELSE i - Depth
    BY <1>3, Wrap
  <1>5. Place(r, k) = IF i < Depth THEN i ELSE i - Depth
    BY <1>4 DEF Place
  <1> QED BY <1>1, <1>2, <1>5, SMT

\* The newest row stands at the head.
LEMMA HeadIsNewest ==
  ASSUME NEW Row, NEW r, IsRing(r, Row), r.count > 0
  PROVE  r.count \in 1 .. r.count /\ Place(r, r.count) = r.head
  <1>1. Depth \in Nat /\ Depth > 0
    BY DepthAssumption
  <1>2. /\ r.head \in 0 .. Depth - 1 /\ r.count \in 0 .. Depth
        /\ r.count < Depth => r.head = r.count - 1
    BY DEF IsRing, Rings
  <1>3. r.count \in 1 .. r.count
    BY <1>1, <1>2, SMT
  <1>4. /\ r.count < Depth => Place(r, r.count) = r.count - 1
        /\ r.count = Depth => Place(r, r.count) = IF r.head + r.count < Depth
                              THEN r.head + r.count ELSE r.head + r.count - Depth
    BY <1>3, PlaceOf
  <1>5. CASE r.count < Depth
    BY <1>2, <1>3, <1>4, <1>5
  <1>6. CASE r.count = Depth
    <2>1. ~(r.head + Depth < Depth) /\ r.head + Depth - Depth = r.head
      BY <1>1, <1>2, SMT
    <2> QED BY <1>3, <1>4, <1>6, <2>1
  <1>7. r.count < Depth \/ r.count = Depth
    BY <1>1, <1>2, SMT
  <1> QED BY <1>5, <1>6, <1>7

\* The rows of a ring, one by one.
LEMMA RowsOf ==
  ASSUME NEW Row, NEW r, IsRing(r, Row)
  PROVE  /\ serialize(r) \in Seq(Row)
         /\ Len(serialize(r)) = r.count
         /\ \A k \in 1 .. r.count : serialize(r)[k] = r.slot[Place(r, k)]
  <1>1. r.count \in Nat /\ r.slot \in [0 .. Depth - 1 -> Row]
    BY DepthAssumption, SMT DEF IsRing, Rings
  <1>2. ASSUME NEW k \in 1 .. r.count
        PROVE  at(r, r.count - k) = r.slot[Place(r, k)] /\ r.slot[Place(r, k)] \in Row
    <2>1. r.count - k < r.count
      BY <1>1, SMT
    <2>2. Place(r, k) \in 0 .. Depth - 1
      BY PlaceOf
    <2> QED BY <1>1, <2>1, <2>2 DEF at, Place
  <1>3. serialize(r) = [k \in 1 .. r.count |-> r.slot[Place(r, k)]]
    BY <1>2 DEF serialize
  <1>4. serialize(r) \in [1 .. r.count -> Row]
    BY <1>2, <1>3
  <1>5. serialize(r) \in Seq(Row)
    BY <1>1, <1>4, SeqDef
  <1>6. Len(serialize(r)) = r.count
    BY <1>1, <1>4, <1>5, LenProperties, SMT
  <1> QED BY <1>3, <1>5, <1>6

\* The last rows of a blob, one by one.
LEMMA LastOfRows ==
  ASSUME NEW Row, NEW s \in Seq(Row)
  PROVE  /\ LastOf(s) \in Seq(Row)
         /\ Len(LastOf(s)) = IF Len(s) > Depth THEN Depth ELSE Len(s)
         /\ \A k \in 1 .. Len(LastOf(s)) :
              LastOf(s)[k] = s[k + Len(s) - Len(LastOf(s))]
  <1>1. Depth \in Nat /\ Depth > 0 /\ Len(s) \in Nat
    BY DepthAssumption, LenProperties
  <1>2. CASE Len(s) > Depth
    <2> DEFINE m == Len(s) - Depth + 1
    <2>1. m \in Int /\ Len(s) \in Int /\ \A i \in m .. Len(s) : s[i] \in Row
      BY <1>1, <1>2, ElementOfSeq, SMT
    <2>2. LastOf(s) = SubSeq(s, m, Len(s))
      BY <1>2 DEF LastOf
    <2> HIDE DEF m
    <2>3. /\ SubSeq(s, m, Len(s)) \in Seq(Row)
          /\ Len(SubSeq(s, m, Len(s))) = IF m <= Len(s) THEN Len(s) - m + 1 ELSE 0
          /\ \A i \in 1 .. Len(s) - m + 1 : SubSeq(s, m, Len(s))[i] = s[m + i - 1]
      BY <2>1, SubSeqProperties
    <2>4. m = Len(s) - Depth + 1
      BY DEF m
    <2>5. Len(LastOf(s)) = Depth
      BY <1>1, <1>2, <2>2, <2>3, <2>4, SMT
    <2>6. ASSUME NEW k \in 1 .. Depth PROVE LastOf(s)[k] = s[k + Len(s) - Depth]
      <3>1. m + k - 1 = k + Len(s) - Depth /\ k \in 1 .. Len(s) - m + 1
        BY <1>1, <2>4, SMT
      <3> QED BY <2>2, <2>3, <3>1
    <2> QED BY <1>2, <2>2, <2>3, <2>5, <2>6
  <1>3. CASE ~(Len(s) > Depth)
    <2>1. LastOf(s) = s
      BY <1>3 DEF LastOf
    <2>2. \A k \in 1 .. Len(s) : k + Len(s) - Len(s) = k
      BY <1>1, SMT
    <2> QED BY <1>3, <2>1, <2>2
  <1> QED BY <1>2, <1>3

\* Remembering a row, one by one.
LEMMA RememberedRows ==
  ASSUME NEW Row, NEW s \in Seq(Row), Len(s) <= Depth, NEW e \in Row
  PROVE  /\ Remember(s, e) \in Seq(Row)
         /\ Len(Remember(s, e)) = IF Len(s) = Depth THEN Depth ELSE Len(s) + 1
         /\ \A k \in 1 .. Len(Remember(s, e)) - 1 :
              Remember(s, e)[k] = IF Len(s) = Depth THEN s[k + 1] ELSE s[k]
         /\ Remember(s, e)[Len(Remember(s, e))] = e
  <1> DEFINE a == Append(s, e)
  <1>1. Depth \in Nat /\ Depth > 0 /\ Len(s) \in Nat
    BY DepthAssumption, LenProperties
  <1>2. /\ a \in Seq(Row) /\ Len(a) = Len(s) + 1
        /\ \A k \in 1 .. Len(s) : a[k] = s[k]
        /\ a[Len(s) + 1] = e
    BY SMT
  <1>3. Remember(s, e) = LastOf(a)
    BY DEF Remember
  <1> HIDE DEF a
  <1>4. /\ LastOf(a) \in Seq(Row)
        /\ Len(LastOf(a)) = IF Len(a) > Depth THEN Depth ELSE Len(a)
        /\ \A k \in 1 .. Len(LastOf(a)) : LastOf(a)[k] = a[k + Len(a) - Len(LastOf(a))]
    BY <1>2, LastOfRows
  <1>5. CASE Len(s) = Depth
    <2>1. Len(LastOf(a)) = Depth /\ Len(a) = Depth + 1
      BY <1>1, <1>2, <1>4, <1>5, SMT
    <2>2. \A k \in 1 .. Depth : LastOf(a)[k] = a[k + 1]
      <3>1. \A k \in 1 .. Depth : k + (Depth + 1) - Depth = k + 1
        BY <1>1, SMT
      <3> QED BY <1>4, <2>1, <3>1
    <2>3. \A k \in 1 .. Depth - 1 : k + 1 \in 1 .. Len(s) /\ k \in 1 .. Depth
      BY <1>1, <1>5, SMT
    <2>4. Depth \in 1 .. Depth
      BY <1>1, SMT
    <2> QED BY <1>2, <1>3, <1>4, <1>5, <2>1, <2>2, <2>3, <2>4
  <1>6. CASE Len(s) # Depth
    <2>1. Len(LastOf(a)) = Len(a) /\ Len(a) = Len(s) + 1
      BY <1>1, <1>2, <1>4, <1>6, SMT
    <2>2. \A k \in 1 .. Len(a) : LastOf(a)[k] = a[k]
      <3>1. \A k \in 1 .. Len(a) : k + Len(a) - Len(a) = k
        BY <1>1, <2>1, SMT
      <3> QED BY <1>4, <2>1, <3>1
    <2>3. Len(s) + 1 - 1 = Len(s) /\ Len(s) + 1 \in 1 .. Len(s) + 1
          /\ \A k \in 1 .. Len(s) : k \in 1 .. Len(s) + 1
      BY <1>1, SMT
    <2> QED BY <1>2, <1>3, <1>4, <1>6, <2>1, <2>2, <2>3
  <1> QED BY <1>5, <1>6

-----------------------------------------------------------------------------
(* push. *)

LEMMA PushIsRing ==
  ASSUME NEW Row, NEW r, IsRing(r, Row), NEW e \in Row
  PROVE  /\ IsRing(push(r, e), Row)
         /\ push(r, e).count = IF r.count = Depth THEN Depth ELSE r.count + 1
         /\ push(r, e).head \in 0 .. Depth - 1
         /\ r.count < Depth => push(r, e).head = r.count
         /\ r.count = Depth =>
              push(r, e).head = IF r.head + 1 < Depth THEN r.head + 1 ELSE 0
         /\ push(r, e).slot = [r.slot EXCEPT ![push(r, e).head] = e]
  <1> DEFINE h == IF r.count = 0 THEN 0 ELSE (r.head + 1) % Depth
             n == IF r.count < Depth THEN r.count + 1 ELSE Depth
  <1>1. Depth \in Nat /\ Depth > 0
    BY DepthAssumption
  <1>2. /\ r.head \in 0 .. Depth - 1 /\ r.count \in 0 .. Depth
        /\ r.slot \in [0 .. Depth - 1 -> Row]
        /\ r.count > 0 /\ r.count < Depth => r.head = r.count - 1
    BY DEF IsRing, Rings
  <1>3. (r.head + 1) % Depth = IF r.head + 1 < Depth THEN r.head + 1 ELSE 0
    BY <1>2, WrapNext
  <1>4. /\ h \in 0 .. Depth - 1
        /\ r.count < Depth => h = r.count
        /\ r.count = Depth => h = IF r.head + 1 < Depth THEN r.head + 1 ELSE 0
    <2>1. h = IF r.count = 0 THEN 0
              ELSE IF r.head + 1 < Depth THEN r.head + 1 ELSE 0
      BY <1>3
    <2> HIDE DEF h
    <2>2. r.head \in Int /\ r.count \in Int /\ 0 <= r.head /\ 0 <= r.count
          /\ r.head <= Depth - 1 /\ r.count <= Depth
      BY <1>1, <1>2, SMT
    <2>3. h \in Int /\ 0 <= h /\ h <= Depth - 1
      BY <1>1, <2>1, <2>2, SMT
    <2>4. r.count < Depth => h = r.count
      BY <1>1, <1>2, <2>1, <2>2, SMT
    <2>5. r.count = Depth => h = IF r.head + 1 < Depth THEN r.head + 1 ELSE 0
      BY <1>1, <2>1, SMT
    <2> QED BY <1>1, <2>3, <2>4, <2>5, SMT
  <1>5. /\ n \in 0 .. Depth
        /\ n = IF r.count = Depth THEN Depth ELSE r.count + 1
    BY <1>1, <1>2, SMT
  <1>6. push(r, e) = [slot |-> [r.slot EXCEPT ![h] = e], head |-> h, count |-> n]
    BY DEF push
  <1> HIDE DEF h, n
  <1>7. [r.slot EXCEPT ![h] = e] \in [0 .. Depth - 1 -> Row]
    BY <1>2, <1>4
  <1>8. push(r, e) \in Rings(Row)
    BY <1>4, <1>5, <1>6, <1>7 DEF Rings
  <1>9. n > 0 /\ n < Depth => h = n - 1
    BY <1>1, <1>2, <1>4, <1>5, SMT
  <1> QED BY <1>4, <1>5, <1>6, <1>8, <1>9 DEF IsRing

\* A push gives the ring the rows Remember gives the sequence, at every
\* depth and however often the array has wrapped.
THEOREM PushRemembers ==
  ASSUME NEW Row, NEW r, IsRing(r, Row), NEW e \in Row
  PROVE  serialize(push(r, e)) = Remember(serialize(r), e)
  <1> DEFINE p == push(r, e)
             s == serialize(r)
             t == Remember(s, e)
  <1>1. Depth \in Nat /\ Depth > 0 /\ r.count \in 0 .. Depth /\ r.head \in 0 .. Depth - 1
        /\ r.slot \in [0 .. Depth - 1 -> Row]
    BY DepthAssumption DEF IsRing, Rings
  <1>2. /\ IsRing(p, Row)
        /\ p.count = IF r.count = Depth THEN Depth ELSE r.count + 1
        /\ p.head \in 0 .. Depth - 1
        /\ r.count < Depth => p.head = r.count
        /\ r.count = Depth => p.head = IF r.head + 1 < Depth THEN r.head + 1 ELSE 0
        /\ p.slot = [r.slot EXCEPT ![p.head] = e]
    BY PushIsRing
  <1>3. /\ s \in Seq(Row) /\ Len(s) = r.count
        /\ \A k \in 1 .. r.count : s[k] = r.slot[Place(r, k)]
    BY RowsOf
  <1>4. /\ serialize(p) \in Seq(Row) /\ Len(serialize(p)) = p.count
        /\ \A k \in 1 .. p.count : serialize(p)[k] = p.slot[Place(p, k)]
    BY <1>2, RowsOf
  <1>5. Len(s) <= Depth
    BY <1>1, <1>3, SMT
  <1> HIDE DEF p, s
  <1>6. /\ t \in Seq(Row)
        /\ Len(t) = IF Len(s) = Depth THEN Depth ELSE Len(s) + 1
        /\ \A k \in 1 .. Len(t) - 1 : t[k] = IF Len(s) = Depth THEN s[k + 1] ELSE s[k]
        /\ t[Len(t)] = e
    BY <1>3, <1>5, RememberedRows
  <1> HIDE DEF t
  <1>7. Len(t) = p.count /\ p.count \in 1 .. Depth
    BY <1>1, <1>2, <1>3, <1>6, SMT
  <1>8. ASSUME NEW k \in 1 .. p.count
        PROVE  serialize(p)[k] = t[k]
    <2>1. /\ Place(p, k) \in 0 .. Depth - 1
          /\ p.count < Depth => Place(p, k) = k - 1
          /\ p.count = Depth => Place(p, k) = IF p.head + k < Depth THEN p.head + k
                                              ELSE p.head + k - Depth
      BY <1>2, PlaceOf
    <2>2. CASE k = p.count
      <3>1. Place(p, k) = p.head
        <4>1. p.count > 0
          BY <1>1, <1>7, SMT
        <4> QED BY <1>2, <2>2, <4>1, HeadIsNewest
      <3>2. p.slot[p.head] = e
        BY <1>1, <1>2
      <3> QED BY <1>4, <1>6, <1>7, <2>2, <3>1, <3>2
    <2>3. CASE k # p.count /\ r.count = Depth
      <3>1. k + 1 \in 1 .. r.count /\ k \in 1 .. Len(t) - 1
        BY <1>1, <1>2, <1>7, <2>3, SMT
      <3>2. t[k] = r.slot[Place(r, k + 1)]
        BY <1>3, <1>6, <2>3, <3>1
      <3>3. Place(r, k + 1) = IF r.head + (k + 1) < Depth THEN r.head + (k + 1)
                              ELSE r.head + (k + 1) - Depth
        BY <2>3, <3>1, PlaceOf
      <3>4. Place(p, k) = Place(r, k + 1) /\ Place(p, k) # p.head
        <4>1. k \in 1 .. Depth - 1
          BY <1>1, <1>2, <2>3, SMT
        <4>2. r.head \in 0 .. Depth - 1
          BY <1>1
        <4>3. p.count = Depth /\ p.head = IF r.head + 1 < Depth THEN r.head + 1 ELSE 0
          BY <1>2, <2>3, <1>1, SMT
        <4>4. Place(p, k) = IF p.head + k < Depth THEN p.head + k ELSE p.head + k - Depth
          BY <2>1, <4>3
        <4> HIDE DEF Place
        <4> QED BY <3>3, <4>1, <4>2, <4>3, <4>4, NextPlace
      <3> QED BY <1>1, <1>2, <1>4, <2>1, <3>2, <3>4
    <2>4. CASE k # p.count /\ r.count # Depth
      <3>1. k \in 1 .. r.count /\ k \in 1 .. Len(t) - 1
        BY <1>1, <1>2, <1>7, <2>4, SMT
      <3>2. t[k] = r.slot[Place(r, k)]
        BY <1>3, <1>6, <2>4, <3>1
      <3>3. r.count < Depth /\ Place(r, k) = k - 1
        <4>1. r.count < Depth
          BY <1>1, <2>4, SMT
        <4> QED BY <3>1, <4>1, PlaceOf
      <3>4. Place(p, k) = k - 1 /\ k - 1 # p.head
        BY <1>1, <1>2, <1>7, <2>1, <2>4, <3>1, <3>3, SMT
      <3> QED BY <1>1, <1>2, <1>4, <2>1, <3>2, <3>3, <3>4
    <2> QED BY <2>2, <2>3, <2>4
  <1>9. serialize(p) = t
    BY <1>4, <1>6, <1>7, <1>8, SeqEqual
  <1> QED BY <1>9 DEF p, s, t

-----------------------------------------------------------------------------
(* deserialize. *)

\* A ring read back from a blob holds the blob's last rows: what serialize
\* wrote comes back whole.
THEOREM FlashRoundTrip ==
  ASSUME NEW Row, NEW blob \in Seq(Row), EmptyRow \in Row
  PROVE  /\ IsRing(deserialize(blob), Row)
         /\ serialize(deserialize(blob)) = LastOf(blob)
  <1> DEFINE b == LastOf(blob)
             n == Len(b)
             r == deserialize(blob)
  <1>1. Depth \in Nat /\ Depth > 0
    BY DepthAssumption
  <1>2. b \in Seq(Row) /\ n \in 0 .. Depth
    <2>1. b \in Seq(Row) /\ n = IF Len(blob) > Depth THEN Depth ELSE Len(blob)
      BY LastOfRows
    <2>2. Len(blob) \in Nat
      BY LenProperties
    <2> QED BY <1>1, <2>1, <2>2, SMT
  <1>3. r = [slot  |-> [i \in 0 .. Depth - 1 |-> IF i < n THEN b[i + 1] ELSE EmptyRow],
             head  |-> IF n = 0 THEN 0 ELSE n - 1,
             count |-> n]
    BY DEF deserialize
  <1> HIDE DEF b, r
  <1>4. /\ r.count = n
        /\ r.head = IF n = 0 THEN 0 ELSE n - 1
        /\ \A i \in 0 .. Depth - 1 : r.slot[i] = IF i < n THEN b[i + 1] ELSE EmptyRow
    BY <1>3
  <1>5. IsRing(r, Row)
    <2>1. \A i \in 0 .. Depth - 1 : i < n => b[i + 1] \in Row
      <3>1. \A i \in 0 .. Depth - 1 : i < n => i + 1 \in 1 .. n
        BY <1>1, <1>2, SMT
      <3> QED BY <1>2, <3>1, ElementOfSeq
    <2>2. [i \in 0 .. Depth - 1 |-> IF i < n THEN b[i + 1] ELSE EmptyRow]
            \in [0 .. Depth - 1 -> Row]
      BY <2>1
    <2>3. (IF n = 0 THEN 0 ELSE n - 1) \in 0 .. Depth - 1
      BY <1>1, <1>2, SMT
    <2>4. r \in Rings(Row)
      BY <1>2, <1>3, <2>2, <2>3 DEF Rings
    <2>5. n > 0 /\ n < Depth => r.head = n - 1
      BY <1>2, <1>4, SMT
    <2> QED BY <1>4, <2>4, <2>5 DEF IsRing
  <1>6. /\ serialize(r) \in Seq(Row) /\ Len(serialize(r)) = n
        /\ \A k \in 1 .. n : serialize(r)[k] = r.slot[Place(r, k)]
    BY <1>4, <1>5, RowsOf
  <1>7. ASSUME NEW k \in 1 .. n PROVE serialize(r)[k] = b[k]
    <2>1. Place(r, k) = k - 1
      <3>1. /\ n < Depth => Place(r, k) = k - 1
            /\ n = Depth => Place(r, k) = IF r.head + k < Depth THEN r.head + k
                                          ELSE r.head + k - Depth
        BY <1>4, <1>5, PlaceOf
      <3> QED BY <1>1, <1>2, <1>4, <3>1, SMT
    <2>2. k - 1 \in 0 .. Depth - 1 /\ k - 1 < n /\ (k - 1) + 1 = k
      BY <1>1, <1>2, SMT
    <2> QED BY <1>4, <1>6, <2>1, <2>2
  <1>8. serialize(r) = b
    BY <1>2, <1>6, <1>7, SeqEqual
  <1> QED BY <1>5, <1>8 DEF b, r

\* The empty ring of a first boot has no rows.
LEMMA EmptyIsRing ==
  ASSUME NEW Row, EmptyRow \in Row
  PROVE  IsRing(EmptyRing, Row) /\ serialize(EmptyRing) = <<>>
  <1>1. Depth \in Nat /\ Depth > 0 /\ 0 \in 0 .. Depth - 1 /\ 0 \in 0 .. Depth
    BY DepthAssumption, SMT
  <1>2. IsRing(EmptyRing, Row)
    BY <1>1, SMT DEF IsRing, Rings, EmptyRing
  <1>3. EmptyRing.count = 0
    BY DEF EmptyRing
  <1>4. serialize(EmptyRing) \in Seq(Row) /\ Len(serialize(EmptyRing)) = 0
    BY <1>2, <1>3, RowsOf
  <1> QED BY <1>2, <1>4, EmptySeq, SMT

\* A sequence of at most Depth rows is written and read whole.
LEMMA LastOfShort ==
  ASSUME NEW Row, NEW s \in Seq(Row), Len(s) <= Depth
  PROVE  LastOf(s) = s
  <1>1. Len(s) \in Nat /\ Depth \in Nat
    BY LenProperties, DepthAssumption
  <1> QED BY <1>1, SMT DEF LastOf
=============================================================================
