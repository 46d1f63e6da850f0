------------------------- MODULE MissedCycles_proofs -------------------------
(***************************************************************************)
(* The scan for missed cycles, for any plan, any zones, ring and length of *)
(* time.  Its invariant is that every marker in the ring, and in its copy  *)
(* in flash, stands for a slot that is over, and over before the run in    *)
(* progress began: a row that is still to be logged cannot belong to it.   *)
(***************************************************************************)
EXTENDS MissedCycles, WellFoundedInduction, TLAPS

-----------------------------------------------------------------------------
(* The calendar. *)

\* The integer quotient, by its product.
LEMMA Quotient ==
  ASSUME NEW a \in Nat, NEW b \in Nat \ {0}
  PROVE  /\ a \div b \in Nat
         /\ b * (a \div b) <= a
         /\ a < b * (a \div b) + b
  BY SMT

\* A product decides between two quotients.
LEMMA QuotientIsUnique ==
  ASSUME NEW b \in Nat \ {0}, NEW p \in Nat, NEW q \in Nat,
         NEW r \in 0 .. b - 1, NEW t \in 0 .. b - 1,
         b * p + r = b * q + t
  PROVE  p = q /\ r = t
  <1>1. ASSUME NEW x \in Nat, NEW y \in Nat, x < y
        PROVE  b * x + b <= b * y
    <2>1. b * (x + 1) = b * x + b
      BY <1>1, SMT
    <2>2. b * (x + 1) <= b * y
      BY <1>1, SMT
    <2> QED BY <2>1, <2>2
  <1>2. b * p \in Nat /\ b * q \in Nat
    BY SMT
  <1>3. ~(p < q)
    BY <1>1, <1>2, SMT
  <1>4. ~(q < p)
    BY <1>1, <1>2, SMT
  <1>5. p = q
    BY <1>3, <1>4, SMT
  <1> QED BY <1>2, <1>5, SMT

\* The first minute of a day.
Midnight(day) == DayMinutes * day

LEMMA Calendar ==
  ASSUME NEW m \in Nat
  PROVE  /\ DayOf(m) \in Nat
         /\ MinuteOf(m) \in 0 .. DayMinutes - 1
         /\ Midnight(DayOf(m)) \in Nat
         /\ m = Midnight(DayOf(m)) + MinuteOf(m)
  <1>1. m \in Nat /\ DayMinutes \in Nat \ {0}
    BY PlanAssumption
  <1>2. MinuteOf(m) \in 0 .. DayMinutes - 1 /\ m = DayMinutes * DayOf(m) + MinuteOf(m)
    BY <1>1, SMT DEF MinuteOf, DayOf
  <1>3. DayOf(m) \in Nat
    BY <1>1, Quotient DEF DayOf
  <1>4. DayMinutes * DayOf(m) \in Nat
    BY <1>1, <1>3, SMT
  <1> QED BY <1>2, <1>3, <1>4 DEF Midnight

LEMMA CalendarIsUnique ==
  ASSUME NEW day \in Nat, NEW r \in 0 .. DayMinutes - 1
  PROVE  /\ Midnight(day) \in Nat
         /\ day * DayMinutes = Midnight(day)
         /\ DayOf(Midnight(day) + r) = day
         /\ MinuteOf(Midnight(day) + r) = r
  <1> DEFINE m == Midnight(day) + r
  <1>1. DayMinutes \in Nat \ {0}
    BY PlanAssumption
  <1>2. Midnight(day) \in Nat /\ day * DayMinutes = Midnight(day)
    BY <1>1, SMT DEF Midnight
  <1>3. m \in Nat
    BY <1>1, <1>2, SMT
  <1> HIDE DEF m
  <1>4. /\ DayOf(m) \in Nat /\ MinuteOf(m) \in 0 .. DayMinutes - 1
        /\ m = DayMinutes * DayOf(m) + MinuteOf(m)
    BY <1>3, Calendar DEF Midnight
  <1>5. DayMinutes * day + r = DayMinutes * DayOf(m) + MinuteOf(m)
    BY <1>4 DEF m, Midnight
  <1>6. day = DayOf(m) /\ r = MinuteOf(m)
    BY <1>1, <1>4, <1>5, QuotientIsUnique
  <1> QED BY <1>2, <1>6 DEF m

-----------------------------------------------------------------------------
(* The slots. *)

\* A slot has a minute at least and lies in the day.
LEMMA SlotsLieInTheDay ==
  ASSUME NEW c \in Cycles(Config)
  PROVE  /\ SlotStart(c) \in 0 .. DayMinutes - 1 /\ SlotEnd(c) \in 1 .. DayMinutes
         /\ SlotStart(c) < SlotEnd(c)
         /\ SlotEnd(c) = SlotStart(c) + CycleSpan(Config, ZoneCount)
  <1> DEFINE span == CycleSpan(Config, ZoneCount)
  <1>1. /\ Config.windowStart \in Nat /\ Config.windowEnd \in Nat /\ DayMinutes \in Nat \ {0}
        /\ Config.windowEnd <= DayMinutes
    BY PlanAssumption, MissedAssumption DEF DistributedConfig, Schedulable
  <1>2. /\ span \in 1 .. Config.windowEnd - Config.windowStart
        /\ SlotStart(c) \in Config.windowStart .. Config.windowEnd - span
    BY SlotsAreApart DEF Bookended, SlotStart, Window
  <1>3. SlotEnd(c) = IF SlotStart(c) + span > DayMinutes THEN DayMinutes
                     ELSE SlotStart(c) + span
    BY DEF SlotEnd
  <1> HIDE DEF span
  <1>4. SlotEnd(c) = SlotStart(c) + span
    BY <1>1, <1>2, <1>3, SMT
  <1> QED BY <1>1, <1>2, <1>4, SMT DEF span

\* One after the other.
LEMMA SlotsFollowEachOther ==
  ASSUME NEW b \in Cycles(Config), NEW c \in Cycles(Config), b < c
  PROVE  SlotEnd(b) <= SlotStart(c)
  BY SlotsAreApart, SlotsLieInTheDay DEF Bookended, SlotStart

LEMMA CyclesAreNumbers == /\ Cycles(Config) \subseteq Nat
                          /\ \A c \in Cycles(Config) : 0 .. c \subseteq Cycles(Config)
  <1>1. Runs(Config) \in Int
    <2>1. Config.perZone \in Nat /\ RunFloor \in Nat \ {0} /\ MaxRuns \in Nat \ {0}
      BY PlanAssumption, MissedAssumption DEF DistributedConfig
    <2>2. Config.perZone \div RunFloor \in Nat
      BY <2>1, Quotient
    <2> QED BY <2>1, <2>2 DEF Runs
  <1> QED BY <1>1, SMT DEF Cycles

\* A minute belongs to one slot.
LEMMA OneSlotStartsThere ==
  ASSUME NEW b \in Cycles(Config), NEW c \in Cycles(Config), NEW d \in Nat, NEW e \in Nat,
         d * DayMinutes + SlotStart(b) = e * DayMinutes + SlotStart(c)
  PROVE  b = c /\ d = e
  <1>1. /\ SlotStart(b) \in 0 .. DayMinutes - 1 /\ SlotStart(c) \in 0 .. DayMinutes - 1
        /\ SlotStart(b) < SlotEnd(b) /\ SlotStart(c) < SlotEnd(c)
        /\ SlotEnd(b) \in Nat /\ SlotEnd(c) \in Nat
    BY SlotsLieInTheDay
  <1>2. d * DayMinutes = Midnight(d) /\ e * DayMinutes = Midnight(e)
    BY <1>1, CalendarIsUnique
  <1>3. Midnight(d) + SlotStart(b) = Midnight(e) + SlotStart(c)
    BY <1>2
  <1>4. d = e /\ SlotStart(b) = SlotStart(c)
    <2>1. DayOf(Midnight(d) + SlotStart(b)) = d /\ DayOf(Midnight(e) + SlotStart(c)) = e
      BY <1>1, CalendarIsUnique
    <2>2. MinuteOf(Midnight(d) + SlotStart(b)) = SlotStart(b)
          /\ MinuteOf(Midnight(e) + SlotStart(c)) = SlotStart(c)
      BY <1>1, CalendarIsUnique
    <2> QED BY <1>3, <2>1, <2>2
  <1>5. b \in Nat /\ c \in Nat
    BY CyclesAreNumbers
  <1>6. ~(b < c)
    BY <1>1, <1>4, SlotsFollowEachOther, SMT
  <1>7. ~(c < b)
    BY <1>1, <1>4, SlotsFollowEachOther, SMT
  <1> QED BY <1>4, <1>5, <1>6, <1>7, SMT

\* What it is, in minutes, for a row to lie in a slot.
LEMMA InSlotByMinutes ==
  ASSUME NEW e \in RunEntry, NEW z, NEW c \in Cycles(Config), NEW day, InSlot(e, z, c, day)
  PROVE  /\ day \in Nat /\ Midnight(day) \in Nat /\ day * DayMinutes = Midnight(day)
         /\ Midnight(day) + SlotStart(c) <= e.start
         /\ e.start < Midnight(day) + SlotEnd(c)
         /\ e.stamped /\ e.zone = z
  <1>1. e.start \in Nat
    BY MissedAssumption, SMT DEF RunEntry
  <1>2. /\ DayOf(e.start) = day /\ e.stamped /\ e.zone = z
        /\ MinuteOf(e.start) >= SlotStart(c) /\ MinuteOf(e.start) < SlotEnd(c)
    BY DEF InSlot
  <1>3. /\ day \in Nat /\ MinuteOf(e.start) \in 0 .. DayMinutes - 1
        /\ Midnight(day) \in Nat /\ e.start = Midnight(day) + MinuteOf(e.start)
    BY <1>1, <1>2, Calendar
  <1>4. day * DayMinutes = Midnight(day)
    BY <1>3, PlanAssumption, SMT DEF Midnight
  <1>5. SlotStart(c) \in Nat /\ SlotEnd(c) \in Nat
    BY SlotsLieInTheDay
  <1> QED BY <1>2, <1>3, <1>4, <1>5, SMT

\* A row that began when a slot does lies in it.
LEMMA StartLiesInSlot ==
  ASSUME NEW e, e.stamped, NEW c \in Cycles(Config), NEW day \in Nat,
         e.start = day * DayMinutes + SlotStart(c)
  PROVE  InSlot(e, e.zone, c, day)
  <1>1. SlotStart(c) \in 0 .. DayMinutes - 1 /\ SlotStart(c) < SlotEnd(c)
    BY SlotsLieInTheDay
  <1>2. e.start = Midnight(day) + SlotStart(c)
    BY <1>1, CalendarIsUnique
  <1>3. DayOf(e.start) = day /\ MinuteOf(e.start) = SlotStart(c)
    BY <1>1, <1>2, CalendarIsUnique
  <1>4. SlotStart(c) >= SlotStart(c)
    BY <1>1, SMT
  <1> QED BY <1>1, <1>3, <1>4 DEF InSlot

\* The scan's choice exists: cycles before zones is a well-founded order.
LEMMA ScanFinds ==
  ASSUME MissedSlots # {}
  PROVE  NextMissed \in MissedSlots
  <1> DEFINE R == {p \in Nat \X Nat : p[1] < p[2]}
             L == LexPairOrdering(R, R, Nat, Nat)
  <1>1. Zones \subseteq Nat /\ Visited(MinuteOf(now)) \subseteq Nat
    <2>1. Zones \subseteq Nat
      BY SMT DEF Zones
    <2> QED BY <2>1, CyclesAreNumbers DEF Visited
  <1>2. MissedSlots \subseteq Nat \X Nat
    BY <1>1 DEF MissedSlots
  <1>3. IsWellFoundedOn(R, Nat)
    BY NatLessThanWellFounded DEF OpToRel
  <1>4. IsWellFoundedOn(L, Nat \X Nat)
    <2> HIDE DEF R
    <2> QED BY <1>3, WFLexPairOrdering
  <1>5. PICK s \in MissedSlots : \A t \in MissedSlots : ~(<<t, s>> \in L)
    <2> HIDE DEF L
    <2> QED BY <1>2, <1>4, WFMin
  <1>6. ASSUME NEW t \in MissedSlots
        PROVE  s[1] < t[1] \/ (s[1] = t[1] /\ s[2] <= t[2])
    <2>1. /\ s \in Nat \X Nat /\ t \in Nat \X Nat
          /\ s[1] \in Nat /\ s[2] \in Nat /\ t[1] \in Nat /\ t[2] \in Nat
      BY <1>2, <1>5, <1>6
    <2>2. <<t, s>> \notin L
      BY <1>5, <1>6
    <2>3. <<t[1], s[1]>> \notin R /\ (t[1] = s[1] => <<t[2], s[2]>> \notin R)
      <3> HIDE DEF R
      <3> QED BY <2>1, <2>2 DEF LexPairOrdering
    <2>4. ~(t[1] < s[1]) /\ (t[1] = s[1] => ~(t[2] < s[2]))
      BY <2>1, <2>3
    <2> QED BY <2>1, <2>4, SMT
  <1> QED BY <1>5, <1>6 DEF NextMissed

-----------------------------------------------------------------------------
(* The invariant. *)

\* What has begun to run is stamped, nothing else is, and the stamp is past.
RunInv == /\ run.stage = "Running" => run.since <= now
          /\ run.stamped => run.stage = "Running"

\* A row to come begins here or later.
Bound == IF run.stage = "Running" THEN run.since ELSE now

\* Row e is the first minute of a slot that was over at minute b.
PastSlot(e, b) ==
  \E c \in Cycles(Config), day \in Nat :
    /\ e.start = day * DayMinutes + SlotStart(c)
    /\ day * DayMinutes + SlotEnd(c) <= b

MarkersArePast(s, b) ==
  \A k \in 1 .. Len(s) : s[k].marker => s[k].stamped /\ PastSlot(s[k], b)

MarkedOnce(s) ==
  \A k, l \in 1 .. Len(s) :
    k # l /\ s[k].marker /\ s[l].marker => s[k].zone # s[l].zone \/ s[k].start # s[l].start

MarkedDry(s) ==
  \A k, l \in 1 .. Len(s) : \A c \in Cycles(Config), day \in Nat :
    Marks(s[k], s[l].zone, c, day) /\ InSlot(s[l], s[l].zone, c, day) => s[l].marker

Ring(s, b) == MarkersArePast(s, b) /\ MarkedOnce(s) /\ MarkedDry(s)

IInv == TypeOK /\ RunInv /\ Ring(log, Bound) /\ Ring(saved, Bound)

\* Time only makes slots more past.
LEMMA RingLater ==
  ASSUME NEW s \in Seq(RunEntry), NEW b \in Nat, NEW d \in Nat, b <= d, Ring(s, b)
  PROVE  Ring(s, d)
  <1>1. ASSUME NEW k \in 1 .. Len(s), s[k].marker
        PROVE  s[k].stamped /\ PastSlot(s[k], d)
    <2>1. s[k].stamped /\ PastSlot(s[k], b)
      BY <1>1 DEF Ring, MarkersArePast
    <2>2. PICK c \in Cycles(Config), day \in Nat :
            /\ s[k].start = day * DayMinutes + SlotStart(c)
            /\ day * DayMinutes + SlotEnd(c) <= b
      BY <2>1 DEF PastSlot
    <2>3. /\ day * DayMinutes = Midnight(day) /\ Midnight(day) \in Nat /\ SlotEnd(c) \in Nat
      <3>1. SlotStart(c) \in 0 .. DayMinutes - 1 /\ SlotEnd(c) \in Nat
        BY SlotsLieInTheDay
      <3> QED BY <3>1, CalendarIsUnique
    <2>4. day * DayMinutes + SlotEnd(c) <= d
      BY <2>2, <2>3, SMT
    <2> QED BY <2>1, <2>2, <2>4 DEF PastSlot
  <1> QED BY <1>1 DEF Ring, MarkersArePast

\* A marked slot was over at the bound.
LEMMA MarkIsPast ==
  ASSUME NEW s, NEW b, Ring(s, b), NEW k \in 1 .. Len(s),
         NEW z, NEW c \in Cycles(Config), NEW day \in Nat, Marks(s[k], z, c, day)
  PROVE  s[k].stamped /\ day * DayMinutes + SlotEnd(c) <= b
  <1>1. s[k].marker /\ s[k].start = day * DayMinutes + SlotStart(c)
    BY DEF Marks
  <1>2. s[k].stamped /\ PastSlot(s[k], b)
    BY <1>1 DEF Ring, MarkersArePast
  <1>3. PICK e \in Cycles(Config), d \in Nat :
          /\ s[k].start = d * DayMinutes + SlotStart(e)
          /\ d * DayMinutes + SlotEnd(e) <= b
    BY <1>2 DEF PastSlot
  <1>4. c = e /\ day = d
    BY <1>1, <1>3, OneSlotStartsThere
  <1> QED BY <1>2, <1>3, <1>4

-----------------------------------------------------------------------------
(* A row is pushed. *)

\* The ring keeps its rows, or all but the oldest, and has the new one last.
LEMMA PushedRows ==
  ASSUME log \in Seq(RunEntry), Len(log) <= RunlogDepth, NEW e \in RunEntry, Push(e)
  PROVE  /\ log' \in Seq(RunEntry) /\ Len(log') <= RunlogDepth
         /\ \E o \in {0, 1} :
              /\ log'[Len(log')] = e
              /\ \A k \in 1 .. Len(log') :
                   k # Len(log') => k + o \in 1 .. Len(log) /\ log'[k] = log[k + o]
  <1>1. Len(log) \in Nat /\ RunlogDepth \in Nat \ {0}
    BY MissedAssumption
  <1>2. CASE Len(log) < RunlogDepth
    <2>1. log' = Append(log, e)
      BY <1>2 DEF Push
    <2>2. log' \in Seq(RunEntry) /\ Len(log') = Len(log) + 1 /\ log'[Len(log')] = e
      BY <2>1
    <2>3. ASSUME NEW k \in 1 .. Len(log'), k # Len(log')
          PROVE  k + 0 \in 1 .. Len(log) /\ log'[k] = log[k + 0]
      <3>1. k \in 1 .. Len(log) /\ k + 0 = k
        BY <1>1, <2>2, <2>3, SMT
      <3> QED BY <2>1, <3>1
    <2> QED BY <1>1, <1>2, <2>2, <2>3, SMT
  <1>3. CASE ~(Len(log) < RunlogDepth)
    <2> DEFINE t == Tail(log)
    <2>1. log' = Append(t, e) /\ log # <<>>
      BY <1>1, <1>3 DEF Push
    <2>2. t \in Seq(RunEntry) /\ Len(t) = Len(log) - 1
          /\ \A k \in 1 .. Len(log) - 1 : t[k] = log[k + 1]
      BY <2>1
    <2> HIDE DEF t
    <2>3. log' \in Seq(RunEntry) /\ Len(log') = Len(t) + 1 /\ log'[Len(log')] = e
          /\ \A k \in 1 .. Len(t) : log'[k] = t[k]
      BY <2>1, <2>2
    <2>4. ASSUME NEW k \in 1 .. Len(log'), k # Len(log')
          PROVE  k + 1 \in 1 .. Len(log) /\ log'[k] = log[k + 1]
      <3>1. k \in 1 .. Len(t) /\ k \in 1 .. Len(log) - 1 /\ k + 1 \in 1 .. Len(log)
        BY <1>1, <2>2, <2>3, <2>4, SMT
      <3> QED BY <2>2, <2>3, <3>1
    <2>5. Len(log') <= RunlogDepth
      BY <1>1, <2>2, <2>3, SMT
    <2> QED BY <2>3, <2>4, <2>5
  <1> QED BY <1>2, <1>3

\* Of two rows, one is the new one or both are old.
LEMMA PushKeepsRing ==
  ASSUME log \in Seq(RunEntry), Len(log) <= RunlogDepth, NEW e \in RunEntry, Push(e),
         NEW b, Ring(log, b),
         e.marker => e.stamped /\ PastSlot(e, b),
         \A k \in 1 .. Len(log) :
           e.marker /\ log[k].marker => e.zone # log[k].zone \/ e.start # log[k].start,
         \A k \in 1 .. Len(log) : \A c \in Cycles(Config), day \in Nat :
           Marks(e, log[k].zone, c, day) /\ InSlot(log[k], log[k].zone, c, day)
             => log[k].marker,
         \A k \in 1 .. Len(log) : \A c \in Cycles(Config), day \in Nat :
           Marks(log[k], e.zone, c, day) /\ InSlot(e, e.zone, c, day) => e.marker
  PROVE  log' \in Seq(RunEntry) /\ Len(log') <= RunlogDepth /\ Ring(log', b)
  <1> DEFINE n == Len(log')
  <1>1. /\ log' \in Seq(RunEntry) /\ n <= RunlogDepth
        /\ \E o \in {0, 1} :
             /\ log'[n] = e
             /\ \A k \in 1 .. n : k # n => k + o \in 1 .. Len(log) /\ log'[k] = log[k + o]
    BY PushedRows
  <1>2. PICK o \in {0, 1} :
          /\ log'[n] = e
          /\ \A k \in 1 .. n : k # n => k + o \in 1 .. Len(log) /\ log'[k] = log[k + o]
    BY <1>1
  <1> HIDE DEF n
  <1>3. o \in Int
    BY <1>2
  <1>4. MarkersArePast(log, b) /\ MarkedOnce(log) /\ MarkedDry(log)
    BY DEF Ring
  <1>5. ASSUME NEW k \in 1 .. n, log'[k].marker
        PROVE  log'[k].stamped /\ PastSlot(log'[k], b)
    <2>1. CASE k = n
      BY <1>2, <1>5, <2>1
    <2>2. CASE k # n
      BY <1>2, <1>4, <1>5, <2>2 DEF MarkersArePast
    <2> QED BY <2>1, <2>2
  <1>6. ASSUME NEW k \in 1 .. n, NEW l \in 1 .. n, k # l, log'[k].marker, log'[l].marker
        PROVE  log'[k].zone # log'[l].zone \/ log'[k].start # log'[l].start
    <2>1. CASE k = n
      BY <1>2, <1>6, <2>1
    <2>2. CASE l = n
      BY <1>2, <1>6, <2>2
    <2>3. CASE k # n /\ l # n
      <3>1. /\ k + o \in 1 .. Len(log) /\ log'[k] = log[k + o]
            /\ l + o \in 1 .. Len(log) /\ log'[l] = log[l + o]
        BY <1>2, <2>3
      <3>2. k + o # l + o
        BY <1>3, <1>6, SMT
      <3> QED BY <1>4, <1>6, <3>1, <3>2 DEF MarkedOnce
    <2> QED BY <2>1, <2>2, <2>3
  <1>7. ASSUME NEW k \in 1 .. n, NEW l \in 1 .. n, NEW c \in Cycles(Config), NEW day \in Nat,
               Marks(log'[k], log'[l].zone, c, day), InSlot(log'[l], log'[l].zone, c, day)
        PROVE  log'[l].marker
    <2>1. CASE k = n /\ l = n
      BY <1>2, <1>7, <2>1 DEF Marks
    <2>2. CASE k = n /\ l # n
      BY <1>2, <1>7, <2>2
    <2>3. CASE k # n /\ l = n
      BY <1>2, <1>7, <2>3
    <2>4. CASE k # n /\ l # n
      <3>1. /\ k + o \in 1 .. Len(log) /\ log'[k] = log[k + o]
            /\ l + o \in 1 .. Len(log) /\ log'[l] = log[l + o]
        BY <1>2, <2>4
      <3> QED BY <1>4, <1>7, <3>1 DEF MarkedDry
    <2> QED BY <2>1, <2>2, <2>3, <2>4
  <1>8. MarkersArePast(log', b)
    BY <1>5 DEF MarkersArePast, n
  <1>9. MarkedOnce(log')
    BY <1>6 DEF MarkedOnce, n
  <1>10. MarkedDry(log')
    BY <1>7 DEF MarkedDry, n
  <1> QED BY <1>1, <1>8, <1>9, <1>10 DEF Ring, n

-----------------------------------------------------------------------------
(* What is written. *)

\* A run's row begins after every slot that is marked.
LEMMA LoggedRunKeepsRing ==
  ASSUME IInv, LogRun
  PROVE  log' \in Seq(RunEntry) /\ Len(log') <= RunlogDepth /\ Ring(log', Bound)
  <1> DEFINE e == [zone |-> run.zone, stamped |-> run.stamped, marker |-> FALSE,
                   start |-> IF run.stamped THEN run.since ELSE 0]
  <1>1. /\ run.zone \in Zones /\ run.stamped \in BOOLEAN /\ run.since \in 0 .. LastMinute
        /\ log \in Seq(RunEntry) /\ Len(log) <= RunlogDepth
        /\ run.stamped => run.stage = "Running"
        /\ Ring(log, Bound)
    BY DEF IInv, TypeOK, RunInv
  <1>2. Push(e) /\ e.marker = FALSE /\ e.stamped = run.stamped
        /\ (e.stamped => e.start = run.since)
    BY DEF LogRun
  <1>3. 0 \in 0 .. LastMinute
    BY MissedAssumption, SMT
  <1>4. e \in RunEntry
    BY <1>1, <1>3 DEF RunEntry
  <1> HIDE DEF e
  <1>5. ASSUME NEW k \in 1 .. Len(log), NEW c \in Cycles(Config), NEW day \in Nat,
               Marks(log[k], e.zone, c, day), InSlot(e, e.zone, c, day)
        PROVE  FALSE
    <2>1. e.stamped /\ day * DayMinutes = Midnight(day) /\ Midnight(day) \in Nat
          /\ e.start < Midnight(day) + SlotEnd(c)
      BY <1>4, <1>5, InSlotByMinutes
    <2>2. day * DayMinutes + SlotEnd(c) <= Bound
      BY <1>1, <1>5, MarkIsPast
    <2>3. Bound = run.since /\ e.start = run.since
      BY <1>1, <1>2, <2>1 DEF Bound
    <2>4. run.since \in Int /\ SlotEnd(c) \in Nat
      BY <1>1, SlotsLieInTheDay
    <2> QED BY <2>1, <2>2, <2>3, <2>4, SMT
  <1>6. ASSUME NEW k \in 1 .. Len(log), NEW c \in Cycles(Config), NEW day \in Nat
        PROVE  ~Marks(e, log[k].zone, c, day)
    BY <1>2 DEF Marks
  <1> QED BY <1>1, <1>2, <1>4, <1>5, <1>6, PushKeepsRing

\* A marker is the first minute of a slot that is over and has no row.
LEMMA ScanKeepsRing ==
  ASSUME IInv, Scan
  PROVE  log' \in Seq(RunEntry) /\ Len(log') <= RunlogDepth /\ Ring(log', Bound)
  <1> DEFINE c == NextMissed[1]
             z == NextMissed[2]
             today == DayOf(now)
             e == [zone |-> z, stamped |-> TRUE, marker |-> TRUE,
                   start |-> today * DayMinutes + SlotStart(c)]
  <1>1. /\ now \in 0 .. LastMinute /\ now \in Nat /\ LastMinute \in Nat
        /\ log \in Seq(RunEntry) /\ Len(log) <= RunlogDepth /\ Ring(log, Bound)
    BY MissedAssumption, SMT DEF IInv, TypeOK
  <1>2. Push(e) /\ NextMissed \in MissedSlots /\ run.stage = "None"
    BY ScanFinds DEF Scan, AtRest
  <1>3. c \in Visited(MinuteOf(now)) /\ z \in Zones /\ ~Logged(z, c, today)
    BY <1>2 DEF MissedSlots
  <1>4. e.zone = z /\ e.stamped /\ e.marker /\ e.start = today * DayMinutes + SlotStart(c)
    OBVIOUS
  <1>5. e \in RunEntry <=> e.start \in 0 .. LastMinute
    BY <1>3 DEF RunEntry
  <1> HIDE DEF c, z, e
  <1>6. c \in Cycles(Config) /\ c \in Nat /\ (c \in 0 .. c => Elapsed(c, MinuteOf(now)))
    BY <1>3, CyclesAreNumbers DEF Visited
  <1>7. c \in Cycles(Config) /\ MinuteOf(now) >= SlotEnd(c)
    BY <1>6, SMT DEF Elapsed
  <1>8. /\ SlotStart(c) \in 0 .. DayMinutes - 1 /\ SlotStart(c) \in Nat /\ SlotEnd(c) \in Nat
        /\ SlotStart(c) < SlotEnd(c)
    BY <1>7, SlotsLieInTheDay
  <1>9. /\ today \in Nat /\ Midnight(today) \in Nat /\ MinuteOf(now) \in 0 .. DayMinutes - 1
        /\ now = Midnight(today) + MinuteOf(now)
    BY <1>1, Calendar
  <1> HIDE DEF today
  <1>10. today * DayMinutes = Midnight(today)
    BY <1>8, <1>9, CalendarIsUnique
  <1>11. today * DayMinutes + SlotEnd(c) <= now
    BY <1>7, <1>8, <1>9, <1>10, SMT
  <1>12. e.start \in 0 .. LastMinute
    BY <1>1, <1>4, <1>8, <1>9, <1>10, <1>11, SMT
  <1>13. Bound = now
    BY <1>2 DEF Bound
  <1>14. PastSlot(e, Bound)
    BY <1>4, <1>7, <1>9, <1>11, <1>13 DEF PastSlot
  <1>15. ASSUME NEW k \in 1 .. Len(log), InSlot(log[k], z, c, today)
         PROVE  FALSE
    BY <1>1, <1>3, <1>15 DEF Logged
  <1>16. ASSUME NEW k \in 1 .. Len(log), log[k].marker, e.zone = log[k].zone,
                e.start = log[k].start
         PROVE  FALSE
    <2>1. log[k].stamped
      BY <1>1, <1>16 DEF Ring, MarkersArePast
    <2>2. InSlot(log[k], log[k].zone, c, today)
      BY <1>4, <1>7, <1>9, <1>16, <2>1, StartLiesInSlot
    <2> QED BY <1>4, <1>15, <1>16, <2>2
  <1>17. ASSUME NEW k \in 1 .. Len(log), NEW b \in Cycles(Config), NEW day \in Nat,
                Marks(e, log[k].zone, b, day), InSlot(log[k], log[k].zone, b, day)
         PROVE  FALSE
    <2>1. e.zone = log[k].zone /\ e.start = day * DayMinutes + SlotStart(b)
      BY <1>17 DEF Marks
    <2>2. b = c /\ day = today
      BY <1>4, <1>7, <1>9, <2>1, OneSlotStartsThere
    <2> QED BY <1>4, <1>15, <1>17, <2>1, <2>2
  <1> QED BY <1>1, <1>2, <1>4, <1>5, <1>12, <1>14, <1>16, <1>17, PushKeepsRing

-----------------------------------------------------------------------------
(* Every step. *)

LEMMA FireOrderIsZones == FireOrder \in Seq(Zones) /\ 0 \in Zones
  <1>1. /\ FireOrder \in Seq(Nat) /\ \A k \in DOMAIN FireOrder : FireOrder[k] \in Zones
        /\ ZoneCount > 0
    BY MissedAssumption DEF Schedulable
  <1>2. FireOrder = [k \in 1 .. Len(FireOrder) |-> FireOrder[k]]
        /\ DOMAIN FireOrder = 1 .. Len(FireOrder) /\ Len(FireOrder) \in Nat
    BY <1>1
  <1>3. FireOrder \in [1 .. Len(FireOrder) -> Zones]
    BY <1>1, <1>2
  <1> QED BY <1>1, <1>2, <1>3, SMT DEF Zones, ZoneCount

\* The queue keeps to its limit.
LEMMA QueuedFits ==
  ASSUME queue \in Seq(Zones), Len(queue) <= MaxQueue
  PROVE  Queued(FireOrder) \in Seq(Zones) /\ Len(Queued(FireOrder)) <= MaxQueue
  <1> DEFINE room == MaxQueue - Len(queue)
             n == IF Len(FireOrder) < room THEN Len(FireOrder) ELSE room
             part == SubSeq(FireOrder, 1, n)
  <1>1. FireOrder \in Seq(Zones) /\ Len(FireOrder) \in Nat /\ Len(queue) \in Nat
    BY FireOrderIsZones
  <1>2. MaxQueue \in Int
    BY MissedAssumption
  <1>3. n \in 0 .. Len(FireOrder) /\ Len(queue) + n <= MaxQueue
    BY <1>1, <1>2, SMT
  <1> HIDE DEF n
  <1>4. part \in Seq(Zones) /\ Len(part) = n
    BY <1>1, <1>3
  <1>5. Queued(FireOrder) = queue \o part
    BY DEF Queued, n
  <1> HIDE DEF part
  <1>6. queue \o part \in Seq(Zones) /\ Len(queue \o part) = Len(queue) + Len(part)
    BY <1>4
  <1> QED BY <1>3, <1>4, <1>5, <1>6, SMT

LEMMA InitHolds == Init => IInv
  <1> SUFFICES ASSUME Init PROVE IInv
    OBVIOUS
  <1>1. LastMinute \in Nat /\ MaxQueue \in Nat /\ RunlogDepth \in Nat /\ 0 \in Zones
    BY MissedAssumption, FireOrderIsZones
  <1>2. /\ now = 0 /\ up = TRUE /\ valid = FALSE /\ latched = FALSE /\ lastEval = Never
        /\ fired = {} /\ queue = <<>> /\ run = NoRun /\ log = <<>> /\ saved = <<>>
    BY DEF Init
  <1>3. run \in [zone : Zones, stage : {"None", "Opening", "Running"},
                 since : 0 .. LastMinute, stamped : BOOLEAN]
        /\ run.stage = "None" /\ run.stamped = FALSE
    BY <1>1, <1>2 DEF NoRun
  <1>4. /\ queue \in Seq(Zones) /\ Len(queue) = 0
        /\ log \in Seq(RunEntry) /\ Len(log) = 0 /\ saved \in Seq(RunEntry) /\ Len(saved) = 0
    BY <1>2
  <1>5. 0 \in 0 .. LastMinute /\ 0 <= MaxQueue /\ 0 <= RunlogDepth
    BY <1>1, SMT
  <1>6. TypeOK
    BY <1>2, <1>3, <1>4, <1>5 DEF TypeOK
  <1>7. RunInv
    BY <1>3 DEF RunInv
  <1>8. 1 .. Len(log) = {} /\ 1 .. Len(saved) = {}
    BY <1>4, SMT
  <1>9. Ring(log, Bound) /\ Ring(saved, Bound)
    BY <1>8, Zenon DEF Ring, MarkersArePast, MarkedOnce, MarkedDry
  <1> QED BY <1>6, <1>7, <1>9 DEF IInv

\* A step that keeps the types and the run's stamp keeps the invariant if the
\* bound does not fall, the history is a ring and flash holds it or stays.
LEMMA RingsKept ==
  ASSUME IInv, TypeOK', RunInv', Bound <= Bound',
         Ring(log', Bound),
         saved' = saved \/ saved' = log
  PROVE  IInv'
  <1>1. Bound \in Nat /\ Bound' \in Nat
    <2>1. /\ now \in 0 .. LastMinute /\ run.since \in 0 .. LastMinute
          /\ now' \in 0 .. LastMinute /\ run'.since \in 0 .. LastMinute
      BY DEF IInv, TypeOK
    <2>2. \A m \in 0 .. LastMinute : m \in Nat
      BY MissedAssumption, SMT
    <2> QED BY <2>1, <2>2 DEF Bound
  <1>2. /\ log' \in Seq(RunEntry) /\ saved' \in Seq(RunEntry)
        /\ Ring(log, Bound) /\ Ring(saved, Bound)
    BY DEF IInv, TypeOK
  <1>3. Ring(saved', Bound)
    BY <1>2
  <1>4. Ring(log', Bound') /\ Ring(saved', Bound')
    BY <1>1, <1>2, <1>3, RingLater
  <1> QED BY <1>4 DEF IInv

\* What does not touch the run, the clock and the rings.
LEMMA Untouched ==
  ASSUME IInv, TypeOK', UNCHANGED <<now, run, log, saved>>
  PROVE  IInv'
  <1>1. RunInv'
    BY DEF IInv, RunInv
  <1>2. Bound' = Bound
    BY DEF Bound
  <1>3. Ring(log', Bound') /\ Ring(saved', Bound')
    BY <1>2 DEF IInv
  <1> QED BY <1>1, <1>3 DEF IInv

\* A run ends.
LEMMA EndRunKeeps ==
  ASSUME IInv, NEW rest \in Seq(Zones), Len(rest) <= MaxQueue, EndRun(rest),
         latched' \in BOOLEAN
  PROVE  IInv'
  <1>1. log' \in Seq(RunEntry) /\ Len(log') <= RunlogDepth /\ Ring(log', Bound)
    BY LoggedRunKeepsRing DEF EndRun
  <1>2. run' = NoRun /\ queue' = rest
        /\ UNCHANGED <<now, up, valid, lastEval, fired, saved>>
    BY DEF EndRun
  <1>3. run' \in [zone : Zones, stage : {"None", "Opening", "Running"},
                  since : 0 .. LastMinute, stamped : BOOLEAN]
        /\ run'.stage = "None" /\ run'.stamped = FALSE
    <2>1. 0 \in 0 .. LastMinute /\ 0 \in Zones
      BY MissedAssumption, FireOrderIsZones, SMT
    <2> QED BY <1>2, <2>1 DEF NoRun
  <1>4. TypeOK'
    BY <1>1, <1>2, <1>3 DEF IInv, TypeOK
  <1>5. RunInv'
    BY <1>3 DEF RunInv
  <1>6. Bound <= Bound'
    <2>1. Bound' = now
      BY <1>2, <1>3 DEF Bound
    <2>2. now \in Int /\ (run.stage = "Running" => run.since <= now)
      BY DEF IInv, TypeOK, RunInv
    <2>3. Bound <= now
      BY <2>2 DEF Bound
    <2> QED BY <2>1, <2>3
  <1> QED BY <1>1, <1>2, <1>4, <1>5, <1>6, RingsKept

LEMMA NextKeepsInv ==
  ASSUME IInv, [Next]_vars
  PROVE  IInv'
  <1>0. /\ TypeOK /\ RunInv /\ Ring(log, Bound) /\ Ring(saved, Bound)
        /\ queue \in Seq(Zones) /\ Len(queue) <= MaxQueue /\ latched \in BOOLEAN
        /\ now \in 0 .. LastMinute /\ now \in Int
    BY DEF IInv, TypeOK
  <1>1. CASE Evaluate
    <2>1. UNCHANGED <<now, up, valid, run, latched, log, saved>> /\ lastEval' = now
      BY <1>1 DEF Evaluate
    <2>2. fired' \subseteq Cycles(Config)
      BY <1>0, <1>1 DEF Evaluate, TypeOK
    <2>3. queue' = Queued(FireOrder) \/ queue' = queue
      BY <1>1 DEF Evaluate
    <2>4. queue' \in Seq(Zones) /\ Len(queue') <= MaxQueue
      BY <1>0, <2>3, QueuedFits
    <2>5. TypeOK'
      BY <1>0, <2>1, <2>2, <2>4 DEF TypeOK
    <2> QED BY <2>1, <2>5, Untouched
  <1>2. CASE Scan
    <2>1. UNCHANGED <<now, up, valid, lastEval, fired, queue, run, latched, saved>>
      BY <1>2 DEF Scan
    <2>2. log' \in Seq(RunEntry) /\ Len(log') <= RunlogDepth /\ Ring(log', Bound)
      BY <1>2, ScanKeepsRing
    <2>3. TypeOK' /\ RunInv'
      BY <1>0, <2>1, <2>2 DEF TypeOK, RunInv
    <2>4. Bound <= Bound'
      <3>1. Bound' = Bound
        BY <2>1 DEF Bound
      <3>2. Bound \in Int
        BY <1>0 DEF Bound, TypeOK
      <3> QED BY <3>1, <3>2, SMT
    <2> QED BY <2>1, <2>2, <2>3, <2>4, RingsKept
  <1>3. ASSUME NEW z \in Manual, RequestRun(z) PROVE IInv'
    <2>1. UNCHANGED <<now, up, valid, lastEval, fired, run, latched, log, saved>>
          /\ queue' = Append(queue, z) /\ Len(queue) < MaxQueue
      BY <1>3 DEF RequestRun
    <2>2. z \in Zones /\ MaxQueue \in Nat
      BY <1>3, MissedAssumption
    <2>3. queue' \in Seq(Zones) /\ Len(queue') = Len(queue) + 1 /\ Len(queue) \in Nat
      BY <1>0, <2>1, <2>2
    <2>4. Len(queue') <= MaxQueue
      BY <2>1, <2>2, <2>3, SMT
    <2>5. TypeOK'
      BY <1>0, <2>1, <2>3, <2>4 DEF TypeOK
    <2> QED BY <2>1, <2>5, Untouched
  <1>4. CASE StartNext
    <2>1. /\ queue # <<>> /\ queue' = Tail(queue) /\ run.stage = "None"
          /\ run' = [zone |-> Head(queue), stage |-> "Opening", since |-> now, stamped |-> FALSE]
          /\ UNCHANGED <<now, up, valid, lastEval, fired, latched, log, saved>>
      BY <1>4 DEF StartNext
    <2>2. /\ Head(queue) \in Zones /\ queue' \in Seq(Zones)
          /\ Len(queue') = Len(queue) - 1 /\ Len(queue) \in Nat
      BY <1>0, <2>1
    <2>3. Len(queue') <= MaxQueue
      BY <1>0, <2>2, MissedAssumption, SMT
    <2>4. run' \in [zone : Zones, stage : {"None", "Opening", "Running"},
                    since : 0 .. LastMinute, stamped : BOOLEAN]
          /\ run'.stage = "Opening" /\ run'.stamped = FALSE
      BY <1>0, <2>1, <2>2
    <2>5. TypeOK'
      BY <1>0, <2>1, <2>2, <2>3, <2>4 DEF TypeOK
    <2>6. RunInv'
      BY <2>4 DEF RunInv
    <2>7. Bound' = now /\ Bound = now
      BY <2>1, <2>4 DEF Bound
    <2> QED BY <1>0, <2>1, <2>5, <2>6, <2>7, RingsKept
  <1>5. CASE ReachRunning
    <2>1. /\ run.stage = "Opening"
          /\ run' = [run EXCEPT !.stage = "Running", !.since = now, !.stamped = valid]
          /\ UNCHANGED <<now, up, valid, lastEval, fired, queue, latched, log, saved>>
      BY <1>5 DEF ReachRunning
    <2>2. run' \in [zone : Zones, stage : {"None", "Opening", "Running"},
                    since : 0 .. LastMinute, stamped : BOOLEAN]
          /\ run'.stage = "Running" /\ run'.since = now
      BY <1>0, <2>1 DEF TypeOK
    <2>3. TypeOK'
      BY <1>0, <2>1, <2>2 DEF TypeOK
    <2>4. RunInv'
      BY <1>0, <2>1, <2>2, SMT DEF RunInv
    <2>5. Bound' = now /\ Bound = now
      BY <2>1, <2>2 DEF Bound
    <2> QED BY <1>0, <2>1, <2>3, <2>4, <2>5, RingsKept
  <1>6. <<>> \in Seq(Zones) /\ Len(<<>>) <= MaxQueue
    BY MissedAssumption, SMT
  <1>7. CASE Complete
    BY <1>0, <1>7, EndRunKeeps DEF Complete
  <1>8. CASE Stop
    BY <1>0, <1>6, <1>8, EndRunKeeps DEF Stop
  <1>9. CASE Abort
    BY <1>0, <1>9, EndRunKeeps DEF Abort
  <1>10. CASE RaiseFault
    BY <1>0, <1>6, <1>10, EndRunKeeps DEF RaiseFault
  <1>11. CASE RaiseIdleFault
    <2>1. TypeOK'
      BY <1>0, <1>6, <1>11 DEF RaiseIdleFault, TypeOK
    <2> QED BY <1>11, <2>1, Untouched DEF RaiseIdleFault
  <1>12. CASE ClearFault
    <2>1. TypeOK'
      BY <1>0, <1>12 DEF ClearFault, TypeOK
    <2> QED BY <1>12, <2>1, Untouched DEF ClearFault
  <1>13. CASE Save
    <2>1. saved' = log
          /\ UNCHANGED <<now, up, valid, lastEval, fired, queue, run, latched, log>>
      BY <1>13 DEF Save
    <2>2. TypeOK' /\ RunInv'
      BY <1>0, <2>1 DEF TypeOK, RunInv
    <2>3. Bound' = Bound
      BY <2>1 DEF Bound
    <2>4. Ring(log', Bound') /\ Ring(saved', Bound')
      BY <1>0, <2>1, <2>3
    <2> QED BY <2>2, <2>4 DEF IInv
  <1>14. CASE PowerOff
    <2>1. /\ up' = FALSE /\ valid' = FALSE /\ lastEval' = Never /\ fired' = {}
          /\ queue' = <<>> /\ run' = NoRun /\ latched' = FALSE /\ log' = saved
          /\ UNCHANGED <<now, saved>>
      BY <1>14 DEF PowerOff
    <2>2. run' \in [zone : Zones, stage : {"None", "Opening", "Running"},
                    since : 0 .. LastMinute, stamped : BOOLEAN]
          /\ run'.stage = "None" /\ run'.stamped = FALSE
      <3>1. 0 \in 0 .. LastMinute /\ 0 \in Zones
        BY MissedAssumption, FireOrderIsZones, SMT
      <3> QED BY <2>1, <3>1 DEF NoRun
    <2>3. TypeOK'
      BY <1>0, <1>6, <2>1, <2>2 DEF TypeOK
    <2>4. RunInv'
      BY <2>2 DEF RunInv
    <2>5. Bound <= Bound'
      <3>1. Bound' = now
        BY <2>1, <2>2 DEF Bound
      <3>2. Bound <= now
        BY <1>0 DEF Bound, RunInv
      <3> QED BY <3>1, <3>2
    <2> QED BY <1>0, <2>1, <2>3, <2>4, <2>5, RingsKept
  <1>15. CASE PowerOn
    <2>1. TypeOK'
      BY <1>0, <1>15 DEF PowerOn, TypeOK
    <2> QED BY <1>15, <2>1, Untouched DEF PowerOn
  <1>16. CASE Sync
    <2>1. TypeOK'
      BY <1>0, <1>16 DEF Sync, TypeOK
    <2> QED BY <1>16, <2>1, Untouched DEF Sync
  <1>17. CASE Minute
    <2>1. now < LastMinute /\ now' = now + 1
          /\ UNCHANGED <<up, valid, lastEval, fired, queue, run, latched, log, saved>>
      BY <1>17 DEF Minute
    <2>2. now' \in 0 .. LastMinute
      BY <1>0, <2>1, MissedAssumption, SMT
    <2>3. TypeOK'
      BY <1>0, <2>1, <2>2 DEF TypeOK
    <2>4. run.since \in 0 .. LastMinute
      BY <1>0 DEF TypeOK
    <2>5. RunInv'
      BY <1>0, <2>1, <2>4, SMT DEF RunInv
    <2>6. Bound <= Bound'
      BY <1>0, <2>1, <2>4, SMT DEF Bound
    <2> QED BY <1>0, <2>1, <2>3, <2>5, <2>6, RingsKept
  <1>18. CASE UNCHANGED vars
    <2>1. TypeOK'
      BY <1>0, <1>18 DEF vars, TypeOK
    <2> QED BY <1>18, <2>1, Untouched DEF vars
  <1> QED
    BY <1>1, <1>2, <1>3, <1>4, <1>5, <1>7, <1>8, <1>9, <1>10, <1>11, <1>12, <1>13,
       <1>14, <1>15, <1>16, <1>17, <1>18 DEF Next

-----------------------------------------------------------------------------
(* What follows from it. *)

\* Every reachable state satisfies the invariant.
THEOREM MissedInvariant == Spec => []IInv
  <1>1. IInv /\ [Next]_vars => IInv'
    BY NextKeepsInv
  <1> QED BY InitHolds, <1>1, PTL DEF Spec

\* Type correctness: the queue and the rings keep to their limits.
THEOREM MissedTypes == Spec => []TypeOK
  <1>1. IInv => TypeOK
    BY DEF IInv
  <1> QED BY MissedInvariant, <1>1, PTL

\* A slot is marked at most once, however often the box restarts and whatever
\* flash has lost.
THEOREM MarkedAtMostOnce == Spec => []SlotMarkedOnce
  <1>1. ASSUME IInv PROVE SlotMarkedOnce
    <2>1. log \in Seq(RunEntry) /\ MarkedOnce(log)
      BY <1>1 DEF IInv, TypeOK, Ring
    <2>2. DOMAIN log = 1 .. Len(log)
      BY <2>1
    <2> QED BY <2>1, <2>2 DEF MarkedOnce, SlotMarkedOnce
  <1> QED BY MissedInvariant, <1>1, PTL

\* A slot is never marked beside a run that began in it, whichever of the two
\* rows was written first.
THEOREM MarkedIsDry == Spec => []MarkedSlotIsDry
  <1>1. ASSUME IInv PROVE MarkedSlotIsDry
    <2>1. log \in Seq(RunEntry) /\ MarkedDry(log) /\ now \in 0 .. LastMinute
      BY <1>1 DEF IInv, TypeOK, Ring
    <2>2. DOMAIN log = 1 .. Len(log)
      BY <2>1
    <2>3. ASSUME NEW c \in Cycles(Config), NEW z \in Zones, NEW day \in 0 .. DayOf(now),
                 NEW k \in DOMAIN log, Marks(log[k], z, c, day),
                 NEW l \in DOMAIN log, InSlot(log[l], z, c, day)
          PROVE  log[l].marker
      <3>1. day \in Nat
        OBVIOUS
      <3>2. log[l].zone = z
        BY <2>3 DEF InSlot
      <3>3. k \in 1 .. Len(log) /\ l \in 1 .. Len(log)
        BY <2>2
      <3> QED BY <2>1, <2>3, <3>1, <3>2, <3>3 DEF MarkedDry
    <2> QED BY <2>3 DEF MarkedSlotIsDry
  <1> QED BY MissedInvariant, <1>1, PTL

\* Between two days lies the last minute of one.
LEMMA LastMinuteOfTheDay ==
  ASSUME NEW m \in Nat, DayOf(m + 1) # DayOf(m)
  PROVE  MinuteOf(m) = DayMinutes - 1
  <1>1. /\ DayOf(m) \in Nat /\ MinuteOf(m) \in 0 .. DayMinutes - 1
        /\ Midnight(DayOf(m)) \in Nat /\ m = Midnight(DayOf(m)) + MinuteOf(m)
        /\ DayMinutes \in Nat
    BY Calendar, PlanAssumption
  <1>2. ASSUME MinuteOf(m) # DayMinutes - 1 PROVE FALSE
    <2>1. MinuteOf(m) + 1 \in 0 .. DayMinutes - 1
          /\ m + 1 = Midnight(DayOf(m)) + (MinuteOf(m) + 1)
      BY <1>1, <1>2, SMT
    <2>2. DayOf(Midnight(DayOf(m)) + (MinuteOf(m) + 1)) = DayOf(m)
      BY <1>1, <2>1, CalendarIsUnique
    <2> QED BY <2>1, <2>2
  <1> QED BY <1>2

\* Only a minute moves the clock.
LEMMA OnlyMinutesPass ==
  ASSUME Next, now' # now
  PROVE  Minute
  BY Zenon DEF Next, Evaluate, Scan, RequestRun, StartNext, ReachRunning, Complete, Stop,
     Abort, RaiseFault, EndRun, RaiseIdleFault, ClearFault, Save, PowerOff, PowerOn, Sync

\* A day that ends with the controller at rest leaves no slot that ended
\* before midnight without a row or a marker.
THEOREM MissesGetReported == Spec => MissesAreReported
  <1>1. ASSUME IInv, [Next]_vars
        PROVE  [MidnightPasses /\ AtRest => UnreportedAtMidnight = {}]_vars
    <2> SUFFICES ASSUME MidnightPasses, AtRest, NEW s \in UnreportedAtMidnight
                 PROVE  FALSE
      OBVIOUS
    <2> DEFINE c == s[1]
               z == s[2]
    <2>1. now' # now /\ DayOf(now') # DayOf(now)
      BY DEF MidnightPasses
    <2>2. Minute
      BY <1>1, <2>1, OnlyMinutesPass DEF vars
    <2>3. MissedSlots = {} /\ now' = now + 1
      BY <2>2 DEF Minute
    <2>4. now \in Nat /\ log \in Seq(RunEntry)
      BY <1>1, MissedAssumption, SMT DEF IInv, TypeOK
    <2>5. MinuteOf(now) = DayMinutes - 1 /\ DayMinutes \in Nat
      BY <2>1, <2>3, <2>4, LastMinuteOfTheDay, PlanAssumption
    <2>6. /\ c \in Cycles(Config) /\ z \in Zones /\ s = <<c, z>> /\ SlotEnd(c) < DayMinutes
          /\ ~\E k \in DOMAIN log :
               /\ log[k].stamped /\ log[k].zone = z /\ DayOf(log[k].start) = DayOf(now)
               /\ MinuteOf(log[k].start) \in SlotStart(c) .. SlotEnd(c) - 1
      BY DEF UnreportedAtMidnight
    <2> HIDE DEF c, z
    <2>7. SlotStart(c) \in Nat /\ SlotEnd(c) \in Nat
      BY <2>6, SlotsLieInTheDay
    <2>8. ASSUME NEW b \in 0 .. c PROVE Elapsed(b, MinuteOf(now))
      <3>1. b \in Cycles(Config) /\ b \in Nat /\ c \in Nat
        BY <2>6, <2>8, CyclesAreNumbers
      <3>2. SlotEnd(b) \in Nat
        BY <3>1, SlotsLieInTheDay
      <3>3. SlotStart(c) < SlotEnd(c)
        BY <2>6, SlotsLieInTheDay
      <3>4. b < c => SlotEnd(b) <= SlotStart(c)
        BY <2>6, <3>1, SlotsFollowEachOther
      <3>5. b < c \/ b = c
        BY <2>8, <3>1, SMT
      <3>6. SlotEnd(b) <= SlotEnd(c)
        BY <2>7, <3>2, <3>3, <3>4, <3>5, SMT
      <3> QED BY <2>5, <2>6, <2>7, <3>2, <3>6, SMT DEF Elapsed
    <2>9. c \in Visited(MinuteOf(now))
      BY <2>6, <2>8 DEF Visited
    <2>10. ASSUME NEW k \in DOMAIN log, InSlot(log[k], z, c, DayOf(now)) PROVE FALSE
      <3>1. /\ log[k].stamped /\ log[k].zone = z /\ DayOf(log[k].start) = DayOf(now)
            /\ MinuteOf(log[k].start) >= SlotStart(c) /\ MinuteOf(log[k].start) < SlotEnd(c)
        BY <2>10 DEF InSlot
      <3>2. MinuteOf(log[k].start) \in 0 .. DayMinutes - 1
        <4>1. log[k] \in RunEntry
          BY <2>4
        <4>2. log[k].start \in Nat
          BY <4>1, MissedAssumption, SMT DEF RunEntry
        <4> QED BY <4>2, Calendar
      <3>3. MinuteOf(log[k].start) \in SlotStart(c) .. SlotEnd(c) - 1
        BY <2>5, <2>7, <3>1, <3>2, SMT
      <3> QED BY <2>6, <2>10, <3>1, <3>3
    <2>11. s \in MissedSlots
      BY <2>6, <2>9, <2>10 DEF MissedSlots, Logged
    <2> QED BY <2>3, <2>11
  <1> QED BY MissedInvariant, <1>1, PTL DEF Spec, MissesAreReported
=============================================================================
