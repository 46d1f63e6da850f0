-------------------------- MODULE Scheduler_proofs --------------------------
(***************************************************************************)
(* Safety of the scheduler for any day, plan, schedule and source of time. *)
(* The ghosts of a day and what the code keeps of it agree as long as no   *)
(* edit has gone back over midnight; that agreement is the invariant.      *)
(* TodayInv adds what the passes of a day have evaluated, from which every *)
(* cycle whose minute the box was awake for has fired.  Before it come the *)
(* facts about the plan that it needs: a schedulable plan lies within its  *)
(* window and within its day.                                              *)
(***************************************************************************)
EXTENDS Scheduler, TLAPS

-----------------------------------------------------------------------------
(* The plan, for every configuration, any number of zones and any envelope. *)

\* The integer quotient, by its product.
LEMMA Quotient ==
  ASSUME NEW a \in Nat, NEW b \in Nat \ {0}
  PROVE  /\ a \div b \in Nat
         /\ b * (a \div b) <= a
         /\ a < b * (a \div b) + b
  BY SMT

\* A quotient is at least q when q whole divisors fit.
LEMMA QuotientAtLeast ==
  ASSUME NEW a \in Nat, NEW b \in Nat \ {0}, NEW q \in Nat, b * q <= a
  PROVE  q <= a \div b
  <1>1. a \div b \in Nat /\ a < b * (a \div b) + b
    BY Quotient
  <1>2. ASSUME a \div b + 1 <= q PROVE FALSE
    <2>1. b * (a \div b + 1) <= b * q
      BY <1>1, <1>2, SMT
    <2>2. b * (a \div b + 1) = b * (a \div b) + b
      BY <1>1, SMT
    <2> QED BY <1>1, <2>1, <2>2, SMT
  <1> QED BY <1>1, <1>2, SMT

\* The number of runs and their length: as many runs as the cap and the floor
\* allow, none below the floor.
LEMMA RunsFit ==
  ASSUME NEW cfg \in DistributedConfig, cfg.perZone >= RunFloor
  PROVE  /\ Runs(cfg) \in Nat \ {0}
         /\ RunLenSec(cfg) \in Nat
         /\ RunFloor * MinuteSec <= RunLenSec(cfg)
  <1> DEFINE n == Runs(cfg)
             fit == cfg.perZone \div RunFloor
  <1>0. cfg.perZone \in Nat /\ RunFloor \in Nat \ {0} /\ MinuteSec \in Nat \ {0}
        /\ MaxRuns \in Nat \ {0}
    BY PlanAssumption DEF DistributedConfig
  <1>1. fit \in Nat /\ RunFloor * fit <= cfg.perZone
    BY <1>0, Quotient
  <1>2. 1 <= fit
    BY <1>0, QuotientAtLeast, SMT
  <1>3. n \in Nat \ {0} /\ n <= fit
    BY <1>0, <1>1, <1>2, SMT DEF Runs
  <1> HIDE DEF n, fit
  <1>4. n * RunFloor <= cfg.perZone
    <2>1. n * RunFloor <= fit * RunFloor
      BY <1>0, <1>1, <1>3, SMT
    <2> QED BY <1>0, <1>1, <1>3, <2>1, SMT
  <1>5. n * (RunFloor * MinuteSec) <= cfg.perZone * MinuteSec
    <2>1. n * (RunFloor * MinuteSec) = (n * RunFloor) * MinuteSec
      BY <1>0, <1>3, SMT
    <2>2. n * RunFloor \in Nat
      BY <1>0, <1>3, SMT
    <2>3. (n * RunFloor) * MinuteSec <= cfg.perZone * MinuteSec
      BY <1>0, <1>4, <2>2, SMT
    <2> QED BY <2>1, <2>3
  <1>6. cfg.perZone * MinuteSec \in Nat /\ RunFloor * MinuteSec \in Nat
    BY <1>0, SMT
  <1>7. RunFloor * MinuteSec <= (cfg.perZone * MinuteSec) \div n
    BY <1>3, <1>5, <1>6, QuotientAtLeast
  <1>8. (cfg.perZone * MinuteSec) \div n \in Nat
    BY <1>3, <1>6, Quotient
  <1> QED BY <1>3, <1>7, <1>8 DEF n, RunLenSec

\* The span of a cycle is a positive number of minutes.
LEMMA SpanIsPositive ==
  ASSUME NEW cfg \in DistributedConfig, cfg.perZone >= RunFloor, NEW zones \in Nat \ {0}
  PROVE  CycleSpan(cfg, zones) \in Nat \ {0}
  <1> DEFINE len == RunLenSec(cfg) + RunOverhead
             sum == zones * len + MinuteSec - 1
  <1>1. len \in Nat \ {0} /\ MinuteSec \in Nat \ {0}
    <2>1. RunLenSec(cfg) \in Nat /\ RunFloor * MinuteSec <= RunLenSec(cfg)
      BY RunsFit
    <2>2. RunFloor * MinuteSec \in Nat \ {0}
      BY PlanAssumption, SMT
    <2> QED BY <2>1, <2>2, PlanAssumption, SMT
  <1> HIDE DEF len
  <1>2. zones * len \in Nat \ {0}
    BY <1>1, SMT
  <1>3. sum \in Nat /\ MinuteSec * 1 <= sum
    BY <1>1, <1>2, SMT
  <1>4. CycleSpan(cfg, zones) = sum \div MinuteSec
    BY DEF CycleSpan, len
  <1> HIDE DEF sum
  <1>5. sum \div MinuteSec \in Nat /\ 1 <= sum \div MinuteSec
    BY <1>1, <1>3, Quotient, QuotientAtLeast
  <1> QED BY <1>4, <1>5, SMT

\* A schedulable configuration gives a plan that keeps to its window: what
\* computeDistributedPlan claims in its comments, for every configuration,
\* any number of zones and any floor, cap and overhead.
THEOREM PlanIsBookended ==
  ASSUME NEW cfg \in DistributedConfig, NEW zones \in Nat, Schedulable(cfg, zones)
  PROVE  Bookended(cfg, zones)
  <1> DEFINE n == Runs(cfg)
             span == CycleSpan(cfg, zones)
             win == Window(cfg)
             gap == CycleGap(cfg, zones)
             ws == cfg.windowStart
  <1>1. cfg.perZone >= RunFloor /\ ws \in Nat /\ cfg.windowEnd = ws + win
        /\ win \in Nat /\ n * span <= win
    BY SMT DEF Schedulable, DistributedConfig, Window
  <1>2. n \in Nat \ {0} /\ RunFloor * MinuteSec <= RunLenSec(cfg) /\ RunLenSec(cfg) \in Nat
    BY <1>1, RunsFit
  <1>3. span \in Nat \ {0}
    <2>1. zones \in Nat \ {0}
      BY SMT DEF Schedulable
    <2> QED BY <1>1, <2>1, SpanIsPositive
  <1>4. CycleStart(cfg, zones, 0) = ws
    BY <1>1, SMT DEF CycleStart
  <1>5. \A i \in Cycles(cfg) : i \in 0 .. n - 1
    BY DEF Cycles
  <1>6. span <= n * span
    BY <1>2, <1>3, SMT
  <1>7. span \in 1 .. win
    BY <1>1, <1>2, <1>3, <1>6, SMT
  <1>8. ASSUME n > 1
        PROVE  gap \in Nat /\ (n - 1) * gap <= win - span /\ span <= gap
    <2>1. n - 1 \in Nat \ {0}
      BY <1>2, <1>8, SMT
    <2>2. (n - 1) * span + span = n * span
      BY <1>2, <1>3, SMT
    <2>3. (n - 1) * span \in Nat
      BY <1>3, <2>1, SMT
    <2>4. win - span \in Nat /\ (n - 1) * span <= win - span
      BY <1>1, <1>3, <2>2, <2>3, SMT
    <2>5. gap = (win - span) \div (n - 1)
      BY DEF CycleGap
    <2>6. gap \in Nat /\ (n - 1) * gap <= win - span
      BY <2>1, <2>4, <2>5, Quotient
    <2>7. span <= gap
      BY <1>3, <2>1, <2>4, <2>5, QuotientAtLeast
    <2> QED BY <2>6, <2>7
  <1>9. ASSUME NEW i \in 1 .. n - 1
        PROVE  CycleStart(cfg, zones, i) = ws + i * gap
    BY SMT DEF CycleStart
  <1> HIDE DEF n, span, win, gap, ws
  <1>10. ASSUME NEW i \in 1 .. n - 1
         PROVE  /\ i * gap \in Nat /\ span <= i * gap
                /\ i * gap + span <= win
    <2>1. gap \in Nat /\ (n - 1) * gap <= win - span /\ span <= gap
      BY <1>2, <1>8, SMT
    <2>2. i * gap <= (n - 1) * gap /\ i * gap \in Nat /\ (n - 1) * gap \in Nat
      BY <1>2, <2>1, SMT
    <2>3. gap <= i * gap
      BY <2>1, SMT
    <2> QED BY <1>1, <1>3, <2>1, <2>2, <2>3, SMT
  <1>11. ASSUME NEW i \in 1 .. n - 1, NEW j \in 1 .. n - 1, i < j
         PROVE  i * gap + span <= j * gap
    <2>1. gap \in Nat /\ span <= gap
      BY <1>2, <1>8, SMT
    <2>2. i * gap + gap = (i + 1) * gap /\ (i + 1) * gap <= j * gap
      BY <1>11, <2>1, SMT
    <2>3. i * gap \in Nat /\ j * gap \in Nat
      BY <2>1, SMT
    <2> QED BY <1>3, <2>1, <2>2, <2>3, SMT
  <1>12. ASSUME NEW i \in 0 .. n - 1
         PROVE  CycleStart(cfg, zones, i) \in ws .. cfg.windowEnd - span
    <2>1. CASE i = 0
      BY <1>1, <1>4, <1>7, <2>1, SMT
    <2>2. CASE i # 0
      <3>1. i \in 1 .. n - 1
        BY <1>2, <2>2, SMT
      <3>2. CycleStart(cfg, zones, i) = ws + i * gap /\ i * gap \in Nat /\ i * gap + span <= win
        BY <1>9, <1>10, <3>1
      <3> QED BY <1>1, <1>3, <3>2, SMT
    <2> QED BY <2>1, <2>2
  <1>13. ASSUME NEW i \in 0 .. n - 1, NEW j \in 0 .. n - 1, i < j
         PROVE  CycleStart(cfg, zones, i) + span <= CycleStart(cfg, zones, j)
    <2>1. j \in 1 .. n - 1
      BY <1>2, <1>13, SMT
    <2>2. CycleStart(cfg, zones, j) = ws + j * gap /\ j * gap \in Nat /\ span <= j * gap
      BY <1>9, <1>10, <2>1
    <2>3. CASE i = 0
      BY <1>1, <1>3, <1>4, <2>2, <2>3, SMT
    <2>4. CASE i # 0
      <3>1. i \in 1 .. n - 1
        BY <1>2, <2>4, SMT
      <3>2. CycleStart(cfg, zones, i) = ws + i * gap /\ i * gap \in Nat
            /\ i * gap + span <= j * gap
        BY <1>9, <1>10, <1>11, <1>13, <2>1, <3>1
      <3> QED BY <1>1, <1>3, <2>2, <3>2, SMT
    <2> QED BY <2>3, <2>4
  <1>14. Cycles(cfg) # {}
    <2>1. 0 \in Cycles(cfg)
      BY <1>2, SMT DEF Cycles, n
    <2> QED BY <2>1
  <1> QED BY <1>2, <1>4, <1>5, <1>7, <1>12, <1>13, <1>14 DEF Bookended, span, win, ws

-----------------------------------------------------------------------------
(* The invariant. *)

GhostTypeOK ==
  /\ newest \in {Never} \cup Minutes
  /\ rewound \in BOOLEAN
  /\ recrossed \in BOOLEAN
  /\ autoRun \in BOOLEAN

\* Without an edit of an older minute, the last minute evaluated is the newest.
OrderInv == rewound \/ lastEval = newest

\* The cycles fired on the newest day are all in the mask of that day.
CycleInv == ~recrossed /\ fired # {} => /\ firedDay = DayOf(newest)
                                        /\ fired \subseteq firedMask

\* The slot is marked with the newest day exactly when an auto run was taken
\* on it, and with no later day.
FertInv == /\ autoFertDay <= DayOf(newest)
           /\ newest = Never => autoFertDay = Never /\ ~autoRun
           /\ ~recrossed /\ newest # Never => (autoRun <=> autoFertDay = DayOf(newest))

IInv == /\ TypeOK /\ GhostTypeOK
        /\ OrderInv /\ CycleInv /\ FertInv
        /\ ~firedAgain /\ ~fertOdd

-----------------------------------------------------------------------------
\* A minute's day is a day, days follow the minutes, and no day is before Never's.
LEMMA DayOfMinute ==
  ASSUME NEW m \in Minutes
  PROVE  /\ DayOf(m) \in 0 .. DayOf(LastMinute)
         /\ DayOf(m) \in Nat
         /\ DayOf(Never) = Never
  <1>0. m \in Nat /\ LastMinute \in Nat /\ m <= LastMinute /\ DayMinutes \in Nat \ {0}
    BY PlanAssumption, SchedulerAssumption, SMT DEF Minutes
  <1>1. /\ m \div DayMinutes \in Nat /\ DayMinutes * (m \div DayMinutes) <= m
        /\ LastMinute \div DayMinutes \in Nat
    BY <1>0, Quotient
  <1>2. m \div DayMinutes <= LastMinute \div DayMinutes
    <2>1. DayMinutes * (m \div DayMinutes) <= LastMinute
      BY <1>0, <1>1, SMT
    <2> QED BY <1>0, <1>1, <2>1, QuotientAtLeast
  <1>3. (0 - 1) \div DayMinutes = 0 - 1
    BY <1>0, SMT
  <1> QED BY <1>0, <1>1, <1>2, <1>3, SMT DEF DayOf, Never

\* An older minute is not of a newer day.
LEMMA DaysFollowMinutes ==
  ASSUME NEW a \in Minutes, NEW b \in Minutes, a <= b
  PROVE  DayOf(a) <= DayOf(b)
  <1>0. a \in Nat /\ b \in Nat /\ DayMinutes \in Nat \ {0}
    BY PlanAssumption, SMT DEF Minutes
  <1>1. a \div DayMinutes \in Nat /\ DayMinutes * (a \div DayMinutes) <= a
    BY <1>0, Quotient
  <1>2. DayMinutes * (a \div DayMinutes) \in Nat
    BY <1>0, <1>1, SMT
  <1>3. DayMinutes * (a \div DayMinutes) <= b
    BY <1>0, <1>1, <1>2, SMT
  <1>4. a \div DayMinutes <= b \div DayMinutes
    BY <1>0, <1>1, <1>3, QuotientAtLeast
  <1> QED BY <1>4 DEF DayOf

\* The cycles of a schedulable plan have a bit in the mask.
LEMMA CyclesHaveBits ==
  ASSUME NEW cfg \in DistributedConfig, Schedulable(cfg, ZoneCount)
  PROVE  Cycles(cfg) \subseteq 0 .. MaxRuns - 1
  <1>1. cfg.perZone >= RunFloor
    BY DEF Schedulable
  <1>2. Runs(cfg) \in Nat
    BY <1>1, RunsFit
  <1>3. cfg.perZone \div RunFloor \in Nat /\ MaxRuns \in Nat
    BY PlanAssumption, Quotient DEF DistributedConfig
  <1>4. Runs(cfg) <= MaxRuns
    BY <1>3, SMT DEF Runs
  <1> QED BY <1>2, <1>3, <1>4, SMT DEF Cycles

-----------------------------------------------------------------------------
\* What an evaluation leaves alone of the invariant: everything but the order
\* of the minutes, which is its caller's.
LEMMA EvaluateKeepsInv ==
  ASSUME IInv,
         NEW es, NEW cfg \in DistributedConfig, NEW m \in Minutes, NEW room,
         Evaluate(es, cfg, m, room)
  PROVE  /\ lastEval' = m
         /\ newest' = IF m > newest THEN m ELSE newest
         /\ newest' \in Minutes
         /\ autoFertDay' \in Days /\ firedDay' \in Days
         /\ firedMask' \subseteq 0 .. MaxRuns - 1
         /\ recrossed' \in BOOLEAN /\ autoRun' \in BOOLEAN
         /\ CycleInv' /\ FertInv' /\ ~firedAgain' /\ ~fertOdd'
  <1> USE DEF IInv, TypeOK, GhostTypeOK
  <1>1. /\ lastEval' = m
        /\ newest' = IF m > newest THEN m ELSE newest
        /\ recrossed' = (~NewDay(m) /\ (recrossed \/ DayOf(m) < DayOf(newest)))
    BY DEF Evaluate
  <1>2. newest' \in Minutes /\ m \in Nat
    BY <1>1, SMT DEF Minutes, Never
  <1>3. recrossed' \in BOOLEAN
    BY <1>1
  <1>4. /\ DayOf(m) \in 0 .. DayOf(LastMinute) /\ DayOf(m) \in Nat
        /\ DayOf(Never) = Never
    BY DayOfMinute
  <1>5. DayOf(newest) \in Int /\ (newest # Never => DayOf(newest) \in Nat)
    BY <1>4, DayOfMinute, SMT DEF Never
  <1>6. /\ NewDay(m) => DayOf(newest') = DayOf(m)
        /\ ~NewDay(m) => DayOf(newest') = DayOf(newest) /\ newest # Never
    <2>1. CASE newest = Never
      <3>1. DayOf(newest) = Never /\ NewDay(m)
        BY <1>4, <2>1, SMT DEF NewDay, Never
      <3>2. newest' = m
        BY <1>1, <1>2, <2>1, SMT DEF Never
      <3> QED BY <3>1, <3>2 DEF DayOf
    <2>2. CASE newest # Never
      <3>1. newest \in Minutes
        BY <2>2
      <3>2. m <= newest => DayOf(m) <= DayOf(newest)
        BY <3>1, DaysFollowMinutes
      <3>3. newest <= m => DayOf(newest) <= DayOf(m)
        BY <3>1, DaysFollowMinutes
      <3>4. newest \in Nat
        BY <3>1 DEF Minutes
      <3> QED BY <1>1, <1>2, <1>4, <1>5, <2>2, <3>2, <3>3, <3>4, SMT DEF NewDay
    <2> QED BY <2>1, <2>2
  <1>7. ~recrossed' => NewDay(m) \/ (~recrossed /\ DayOf(m) = DayOf(newest))
    <2>1. NewDay(m) \/ DayOf(m) < DayOf(newest) \/ DayOf(m) = DayOf(newest)
      BY <1>4, <1>5, SMT DEF NewDay
    <2> QED BY <1>1, <2>1
  <1>8. CASE Schedulable(cfg, ZoneCount)
    <2>1. FireCycles(cfg, m)
      BY <1>8 DEF Evaluate
    <2>2. /\ firedDay' = DayOf(m)
          /\ firedMask' = FiredOn(DayOf(m)) \cup Firing(cfg, m)
          /\ fired' = Fired(m) \cup Firing(cfg, m)
          /\ firedAgain' = (firedAgain \/ (~recrossed' /\ Firing(cfg, m) \cap Fired(m) # {}))
          /\ autoRun' = AutoRun(m)
          /\ autoFertDay' = autoFertDay /\ fertOdd' = fertOdd
      BY <2>1 DEF FireCycles
    <2>3. Firing(cfg, m) \subseteq 0 .. MaxRuns - 1
      BY <1>8, CyclesHaveBits DEF Firing
    <2>4. firedMask' \subseteq 0 .. MaxRuns - 1
      BY <2>2, <2>3 DEF FiredOn
    <2>5. ~recrossed' => Fired(m) \subseteq FiredOn(DayOf(m))
      BY <1>7 DEF CycleInv, Fired, FiredOn
    <2>6. ~firedAgain'
      BY <2>2, <2>5 DEF Firing
    <2>7. CycleInv'
      <3>1. ~recrossed' => DayOf(newest') = DayOf(m)
        BY <1>6, <1>7
      <3>2. ~recrossed' => fired' \subseteq firedMask'
        BY <2>2, <2>5
      <3> QED BY <2>2, <3>1, <3>2 DEF CycleInv, DayOf
    <2>8. FertInv'
      <3>1. newest' # Never
        BY <1>2, SMT DEF Minutes, Never
      <3>2. autoFertDay' <= DayOf(newest')
        BY <1>4, <1>5, <1>6, <2>2, SMT DEF FertInv, NewDay, Days, Never
      <3>3. ~recrossed' => (autoRun' <=> autoFertDay' = DayOf(newest'))
        <4>1. CASE NewDay(m)
          <5>1. autoFertDay # DayOf(m)
            BY <1>4, <1>5, <4>1, SMT DEF FertInv, NewDay, Days, Never
          <5> QED BY <1>6, <2>2, <4>1, <5>1 DEF AutoRun
        <4>2. CASE ~NewDay(m)
          BY <1>6, <1>7, <2>2, <4>2 DEF AutoRun, FertInv
        <4> QED BY <4>1, <4>2
      <3>4. (autoFertDay <= DayOf(newest))' /\ (newest = Never => autoFertDay = Never /\ ~autoRun)'
        BY <3>1, <3>2 DEF DayOf, Never
      <3>5. (~recrossed /\ newest # Never => (autoRun <=> autoFertDay = DayOf(newest)))'
        BY <3>3 DEF DayOf
      <3> QED BY <3>4, <3>5 DEF FertInv
    <2>9. firedDay' \in Days /\ autoFertDay' \in Days /\ autoRun' \in BOOLEAN
      BY <1>4, <2>2 DEF Days, AutoRun
    <2> QED BY <1>1, <1>2, <1>3, <2>2, <2>4, <2>6, <2>7, <2>8, <2>9
  <1>9. CASE ~Schedulable(cfg, ZoneCount)
    <2> DEFINE taken == Taken(Due(es, m), room)
               users == ConsumesSlot(es, Due(es, m), taken)
               autos == AutoAmong(es, taken)
               odd(i) == ResolveFert(es, i, users, DayOf(m)) #
                           (~AutoRun(m) /\ \A j \in autos : i <= j)
    <2>1. FireEntries(es, m, room)
      BY <1>9 DEF Evaluate
    <2>2. /\ autoFertDay' = IF users # {} THEN DayOf(m) ELSE autoFertDay
          /\ autoRun' = (AutoRun(m) \/ autos # {})
          /\ fertOdd' = (fertOdd \/ (~recrossed' /\ \E i \in autos : odd(i)))
          /\ fired' = Fired(m)
          /\ firedDay' = firedDay /\ firedMask' = firedMask /\ firedAgain' = firedAgain
      BY <2>1 DEF FireEntries
    <2>3. users = autos
      BY DEF ConsumesSlot
    <2>4. ~recrossed' => (AutoRun(m) <=> autoFertDay = DayOf(m))
      <3>1. CASE NewDay(m)
        <4>1. autoFertDay # DayOf(m)
          BY <1>4, <1>5, <3>1, SMT DEF FertInv, NewDay, Days, Never
        <4> QED BY <3>1, <4>1 DEF AutoRun
      <3>2. CASE ~NewDay(m)
        BY <1>6, <1>7, <3>2 DEF AutoRun, FertInv
      <3> QED BY <3>1, <3>2
    <2>5. ASSUME NEW i \in autos, ~recrossed' PROVE ~odd(i)
      <3>1. es[i].fert = "Auto"
        BY DEF AutoAmong
      <3>2. ResolveFert(es, i, users, DayOf(m)) <=>
              (autoFertDay # DayOf(m) /\ \A j \in autos : i <= j)
        BY <2>3, <3>1 DEF ResolveFert
      <3>3. ResolveFert(es, i, users, DayOf(m)) \in BOOLEAN
        BY DEF ResolveFert
      <3> HIDE DEF autos, users
      <3>4. AutoRun(m) \in BOOLEAN
        BY DEF AutoRun
      <3> QED BY <2>4, <2>5, <3>2, <3>3, <3>4
    <2> HIDE DEF taken, users, autos, odd
    <2>6. ~fertOdd'
      BY <2>2, <2>5
    <2>7. CycleInv'
      <3>1. fired' # {} => ~NewDay(m)
        BY <2>2 DEF Fired
      <3>2. fired' # {} /\ ~recrossed' =>
              fired' = fired /\ ~recrossed /\ DayOf(newest') = DayOf(newest)
        BY <1>6, <1>7, <2>2, <3>1 DEF Fired
      <3> QED BY <2>2, <3>2 DEF CycleInv, DayOf
    <2>8. FertInv'
      <3>1. newest' # Never
        BY <1>2, SMT DEF Minutes, Never
      <3>2. DayOf(m) <= DayOf(newest') /\ autoFertDay <= DayOf(newest')
        BY <1>4, <1>5, <1>6, SMT DEF FertInv, NewDay, Days, Never
      <3>3. autoFertDay' <= DayOf(newest')
        BY <2>2, <3>2
      <3>4. ~recrossed' => DayOf(newest') = DayOf(m)
        BY <1>6, <1>7
      <3>5. ~recrossed' => (autoRun' <=> autoFertDay' = DayOf(newest'))
        BY <2>2, <2>3, <2>4, <3>4
      <3>6. (autoFertDay <= DayOf(newest))' /\ (newest = Never => autoFertDay = Never /\ ~autoRun)'
        BY <3>1, <3>3 DEF DayOf, Never
      <3>7. (~recrossed /\ newest # Never => (autoRun <=> autoFertDay = DayOf(newest)))'
        BY <3>5 DEF DayOf
      <3> QED BY <3>6, <3>7 DEF FertInv
    <2>9. firedDay' \in Days /\ autoFertDay' \in Days /\ autoRun' \in BOOLEAN
          /\ firedMask' \subseteq 0 .. MaxRuns - 1 /\ ~firedAgain'
      BY <1>4, <2>2 DEF Days, AutoRun
    <2> QED BY <1>1, <1>2, <1>3, <2>2, <2>6, <2>7, <2>8, <2>9
  <1> QED BY <1>8, <1>9

\* The scheduler's half of a pass, with the clock it has been left.
LEMMA TickKeepsInv ==
  ASSUME IInv, clock' \in Minutes, NEW room, SchedulerTick(room)
  PROVE  /\ lastEval' \in {Never} \cup Minutes
         /\ autoFertDay' \in Days /\ firedDay' \in Days
         /\ firedMask' \subseteq 0 .. MaxRuns - 1
         /\ GhostTypeOK'
         /\ OrderInv' /\ CycleInv' /\ FertInv' /\ ~firedAgain' /\ ~fertOdd'
         /\ lastEval' # lastEval => lastEval' > newest \/ rewound
  <1>1. CASE synced' /\ NewMinute(clock')
    <2>1. Evaluate(entries, dist, clock', room) /\ rewound' = (rewound /\ clock' <= newest)
      BY <1>1 DEF SchedulerTick
    <2>2. dist \in DistributedConfig
      BY DEF IInv, TypeOK
    <2>3. /\ lastEval' = clock'
          /\ newest' = IF clock' > newest THEN clock' ELSE newest
          /\ newest' \in Minutes
          /\ autoFertDay' \in Days /\ firedDay' \in Days
          /\ firedMask' \subseteq 0 .. MaxRuns - 1
          /\ recrossed' \in BOOLEAN /\ autoRun' \in BOOLEAN
          /\ CycleInv' /\ FertInv' /\ ~firedAgain' /\ ~fertOdd'
      BY <2>1, <2>2, EvaluateKeepsInv
    <2>4. rewound' \in BOOLEAN
      BY <2>1
    <2>5. clock' > newest \/ rewound
      BY <1>1 DEF NewMinute, IInv, OrderInv
    <2>6. OrderInv'
      <3>1. CASE clock' > newest
        BY <2>3, <3>1 DEF OrderInv
      <3>2. CASE ~(clock' > newest)
        <4>1. clock' \in Int /\ newest \in Int
          BY DEF IInv, GhostTypeOK, Minutes, Never
        <4>2. clock' <= newest
          BY <3>2, <4>1, SMT
        <4> QED BY <2>1, <2>5, <3>2, <4>2 DEF OrderInv
      <3> QED BY <3>1, <3>2
    <2> QED BY <2>3, <2>4, <2>5, <2>6 DEF GhostTypeOK
  <1>2. CASE ~(synced' /\ NewMinute(clock'))
    <2>1. UNCHANGED <<evalVars, ghostVars>>
      BY <1>2 DEF SchedulerTick
    <2> QED BY <2>1 DEF IInv, TypeOK, GhostTypeOK, OrderInv, CycleInv, FertInv,
                        evalVars, ghostVars, DayOf
  <1> QED BY <1>1, <1>2

\* What a handler's evaluation leaves, whether the clock has the time or not.
LEMMA EvalNowKeepsInv ==
  ASSUME IInv, NEW es, NEW cfg \in DistributedConfig, NEW room, EvalNow(es, cfg, room)
  PROVE  /\ lastEval' \in {Never} \cup Minutes
         /\ autoFertDay' \in Days /\ firedDay' \in Days
         /\ firedMask' \subseteq 0 .. MaxRuns - 1
         /\ GhostTypeOK'
         /\ OrderInv' /\ CycleInv' /\ FertInv' /\ ~firedAgain' /\ ~fertOdd'
  <1>1. CASE synced
    <2>1. Evaluate(es, cfg, clock, room) /\ rewound' = (rewound \/ clock < newest)
      BY <1>1 DEF EvalNow
    <2>2. clock \in Minutes
      BY DEF IInv, TypeOK
    <2>3. /\ lastEval' = clock
          /\ newest' = IF clock > newest THEN clock ELSE newest
          /\ newest' \in Minutes
          /\ autoFertDay' \in Days /\ firedDay' \in Days
          /\ firedMask' \subseteq 0 .. MaxRuns - 1
          /\ recrossed' \in BOOLEAN /\ autoRun' \in BOOLEAN
          /\ CycleInv' /\ FertInv' /\ ~firedAgain' /\ ~fertOdd'
      BY <2>1, <2>2, EvaluateKeepsInv
    <2>4. rewound' \in BOOLEAN
      BY <2>1
    <2>5. clock \in Int /\ newest \in Int
      BY <2>2 DEF IInv, GhostTypeOK, Minutes, Never
    <2>6. OrderInv'
      <3>1. clock < newest \/ newest' = clock
        BY <2>3, <2>5, SMT
      <3> QED BY <2>1, <2>3, <3>1 DEF OrderInv
    <2> QED BY <2>2, <2>3, <2>4, <2>6 DEF GhostTypeOK
  <1>2. CASE ~synced
    <2>1. UNCHANGED <<evalVars, newest, rewound, recrossed, fired, firedAgain,
                      autoRun, fertOdd>>
      BY <1>2 DEF EvalNow
    <2> QED BY <2>1 DEF IInv, TypeOK, GhostTypeOK, OrderInv, CycleInv, FertInv,
                        evalVars, DayOf
  <1> QED BY <1>1, <1>2

LEMMA InitInv == Init => IInv
  <1> SUFFICES ASSUME Init PROVE IInv
    OBVIOUS
  <1> USE DEF Init
  <1>1. 0 \in Minutes
    BY SchedulerAssumption, SMT DEF Minutes
  <1>2. dist \in DistributedConfig
    BY DEF Disabled, DistributedConfig
  <1>3. DayOf(Never) = Never
    BY <1>1, DayOfMinute
  <1>4. 0 \in 0 .. ResyncInterval
    BY SchedulerAssumption, SMT
  <1>5. entries \in Seq(ScheduleEntry) /\ Len(entries) <= MaxEntries
    BY SchedulerAssumption, SMT
  <1>6. TypeOK
    BY <1>1, <1>2, <1>4, <1>5 DEF TypeOK, Days
  <1>7. OrderInv /\ CycleInv /\ FertInv
    BY <1>3 DEF OrderInv, CycleInv, FertInv, Never
  <1> QED BY <1>6, <1>7 DEF IInv, GhostTypeOK

LEMMA NextKeepsInv == IInv /\ [Next]_vars => IInv'
  <1> SUFFICES ASSUME IInv, [Next]_vars PROVE IInv'
    OBVIOUS
  <1> USE SchedulerAssumption
  <1>0. /\ source \in Minutes /\ clock \in Minutes /\ ready \in BOOLEAN
        /\ sinceSync \in 0 .. ResyncInterval /\ synced \in BOOLEAN /\ passed \in BOOLEAN
        /\ entries \in Seq(ScheduleEntry) /\ Len(entries) <= MaxEntries
        /\ dist \in DistributedConfig
    BY DEF IInv, TypeOK
  <1>z. 0 \in Minutes /\ 0 \in 0 .. ResyncInterval
    BY SMT DEF Minutes
  <1>1. CASE Pass
    <2>1. PICK room \in 0 .. MaxRoom : SchedulerTick(room)
      BY <1>1 DEF Pass
    <2>2. clock' \in Minutes /\ sinceSync' \in 0 .. ResyncInterval /\ synced' \in BOOLEAN
      <3>1. ClockTick
        BY <1>1 DEF Pass
      <3> QED BY <1>0, <1>z, <3>1 DEF ClockTick
    <2>3. passed' = TRUE /\ UNCHANGED <<source, ready, entries, dist>>
      BY <1>1 DEF Pass, scheduleVars
    <2> QED BY <1>0, <2>1, <2>2, <2>3, TickKeepsInv DEF IInv, TypeOK
  <1>2. ASSUME NEW es \in Schedules, PostSchedule(es) PROVE IInv'
    <2>1. PICK room \in 0 .. MaxRoom : EvalNow(es, dist, room)
      BY <1>2 DEF PostSchedule
    <2>2. UNCHANGED <<source, ready, synced, clock, sinceSync, passed, dist>>
          /\ entries' = es /\ Len(es) <= MaxEntries
      BY <1>2 DEF PostSchedule, clockVars, FitsArray
    <2>3. es \in Seq(ScheduleEntry)
      OBVIOUS
    <2> QED BY <1>0, <2>1, <2>2, <2>3, EvalNowKeepsInv DEF IInv, TypeOK
  <1>3. ASSUME NEW cfg \in Configs, PostDistributed(cfg) PROVE IInv'
    <2>1. dist' \in DistributedConfig
      <3>1. dist' = Staged(cfg)
        BY <1>3 DEF PostDistributed
      <3>2. cfg \in DistributedConfig
        OBVIOUS
      <3> QED BY <1>0, <3>1, <3>2 DEF Staged, DistributedConfig
    <2>2. PICK room \in 0 .. MaxRoom : EvalNow(entries, dist', room)
      BY <1>3 DEF PostDistributed
    <2>3. UNCHANGED <<source, ready, synced, clock, sinceSync, passed, entries>>
      BY <1>3 DEF PostDistributed, clockVars
    <2> QED BY <1>0, <2>1, <2>2, <2>3, EvalNowKeepsInv DEF IInv, TypeOK
  <1>4. CASE Restart
    <2>1. DayOf(Never) = Never
      BY <1>0, DayOfMinute
    <2>2. dist' \in DistributedConfig
      BY <1>0, <1>4 DEF Restart
    <2>3. (OrderInv /\ CycleInv /\ FertInv)'
      BY <1>4, <2>1 DEF Restart, OrderInv, CycleInv, FertInv, Never, DayOf
    <2>4. TypeOK' /\ GhostTypeOK'
      BY <1>0, <1>z, <1>4, <2>2 DEF Restart, TypeOK, GhostTypeOK, Days
    <2> QED BY <1>4, <2>3, <2>4 DEF Restart, IInv
  <1>5. ASSUME UNCHANGED <<entries, dist, evalVars, ghostVars>>,
               source' \in Minutes, clock' \in Minutes, ready' \in BOOLEAN,
               sinceSync' \in 0 .. ResyncInterval, synced' \in BOOLEAN, passed' \in BOOLEAN
        PROVE  IInv'
    BY <1>5 DEF IInv, TypeOK, GhostTypeOK, OrderInv, CycleInv, FertInv,
                evalVars, ghostVars, DayOf
  <1>6. CASE SourceReady
    BY <1>0, <1>5, <1>6 DEF SourceReady, scheduleVars
  <1>7. ASSUME NEW n \in Steps, SourceSteps(n) PROVE IInv'
    BY <1>0, <1>5, <1>7 DEF SourceSteps, scheduleVars
  <1>8. CASE Minute
    <2>1. source' \in Minutes /\ clock' \in Minutes
      BY <1>0, <1>8, SMT DEF Minute, Minutes
    <2>2. sinceSync' \in 0 .. ResyncInterval
      BY <1>0, <1>8, SMT DEF Minute
    <2> QED BY <1>0, <1>5, <1>8, <2>1, <2>2 DEF Minute, scheduleVars
  <1>9. CASE UNCHANGED vars
    BY <1>0, <1>5, <1>9 DEF vars, clockVars, scheduleVars
  <1> QED BY <1>1, <1>2, <1>3, <1>4, <1>6, <1>7, <1>8, <1>9 DEF Next

-----------------------------------------------------------------------------
(* A day whose every minute a pass evaluated. *)

\* Under a plan the mask is that of the day last evaluated; on a day watched
\* from its first minute on, it marks nothing that was not fired on it.
TodayInv ==
  /\ lastEval <= newest
  /\ lastEval # Never => synced
  /\ lastEval = Never => firedDay = Never /\ ~steady
  /\ lastEval # Never /\ Schedulable(dist, ZoneCount) => firedDay = DayOf(lastEval)
  /\ steady /\ Schedulable(dist, ZoneCount) => firedMask \subseteq fired
  /\ EveryCycleFires

\* A minute is its day's first and the minutes since.
LEMMA MinuteOfDay ==
  ASSUME NEW m \in Minutes
  PROVE  /\ MinuteOf(m) \in 0 .. DayMinutes - 1
         /\ m = DayMinutes * DayOf(m) + MinuteOf(m)
  <1>1. m \in Nat /\ DayMinutes \in Nat \ {0}
    BY PlanAssumption DEF Minutes
  <1> QED BY <1>1, SMT DEF MinuteOf, DayOf

\* What lies before the first minute of a day is of an older one.
LEMMA MidnightIsNew ==
  ASSUME NEW a \in Minutes, NEW m \in Minutes, a < m, MinuteOf(m) = 0
  PROVE  DayOf(a) # DayOf(m)
  <1>1. /\ a = DayMinutes * DayOf(a) + MinuteOf(a) /\ MinuteOf(a) \in Nat
        /\ m = DayMinutes * DayOf(m) /\ DayOf(m) \in Nat /\ DayMinutes \in Nat
    BY MinuteOfDay, DayOfMinute, PlanAssumption, SMT
  <1>2. a \in Nat /\ m \in Nat /\ DayMinutes * DayOf(m) \in Nat
    BY <1>1 DEF Minutes
  <1>3. ASSUME DayOf(a) = DayOf(m) PROVE FALSE
    <2>1. a = DayMinutes * DayOf(m) + MinuteOf(a)
      BY <1>1, <1>3
    <2> QED BY <1>1, <1>2, <2>1, SMT
  <1> QED BY <1>3

\* The next minute is of the same day, but for midnight.
LEMMA NextMinute ==
  ASSUME NEW a \in Minutes, NEW m \in Minutes, m = a + 1, MinuteOf(m) # 0
  PROVE  DayOf(m) = DayOf(a) /\ MinuteOf(m) = MinuteOf(a) + 1
  <1>1. a \in Nat /\ DayMinutes \in Nat \ {0} /\ m = a + 1
    BY PlanAssumption DEF Minutes
  <1>2. /\ a = DayMinutes * DayOf(a) + MinuteOf(a) /\ MinuteOf(a) \in 0 .. DayMinutes - 1
        /\ m = DayMinutes * DayOf(m) + MinuteOf(m) /\ MinuteOf(m) \in 1 .. DayMinutes - 1
        /\ DayOf(a) \in Nat /\ DayOf(m) \in Nat
    <2>1. MinuteOf(m) \in 0 .. DayMinutes - 1 /\ MinuteOf(m) # 0
      BY MinuteOfDay
    <2>2. MinuteOf(m) \in 1 .. DayMinutes - 1
      BY <1>1, <2>1, SMT
    <2> QED BY <2>2, MinuteOfDay, DayOfMinute
  <1> DEFINE d == DayMinutes
             x == DayOf(a)
             y == DayOf(m)
             u == MinuteOf(a)
             v == MinuteOf(m)
  <1>3. d * y + v = d * x + u + 1
    BY <1>1, <1>2
  <1>4. x <= y
    BY <1>1, DaysFollowMinutes, SMT
  <1>5. /\ d \in Nat /\ x \in Nat /\ y \in Nat /\ u \in 0 .. d - 1 /\ v \in 1 .. d - 1
    BY <1>1, <1>2
  <1> HIDE DEF d, x, y, u, v
  <1>6. ASSUME x + 1 <= y PROVE FALSE
    <2>1. d * (x + 1) <= d * y /\ d * (x + 1) = d * x + d
      BY <1>5, <1>6, SMT
    <2>2. d * x \in Nat /\ d * y \in Nat
      BY <1>5, SMT
    <2> QED BY <1>3, <1>5, <2>1, <2>2, SMT
  <1>7. x = y
    BY <1>4, <1>5, <1>6, SMT
  <1>8. d * x \in Nat
    BY <1>5, SMT
  <1> QED BY <1>3, <1>5, <1>7, <1>8, SMT DEF x, y, u, v

\* A cycle begins in some minute of the day.
LEMMA CyclesBegin ==
  ASSUME NEW cfg \in DistributedConfig, Schedulable(cfg, ZoneCount), NEW i \in Cycles(cfg)
  PROVE  CycleStart(cfg, ZoneCount, i) \in Nat
  <1>1. Bookended(cfg, ZoneCount)
    BY PlanIsBookended, SchedulerAssumption
  <1>2. CycleStart(cfg, ZoneCount, i)
          \in cfg.windowStart .. cfg.windowEnd - CycleSpan(cfg, ZoneCount)
    BY <1>1 DEF Bookended
  <1>3. CycleSpan(cfg, ZoneCount) \in 1 .. Window(cfg) /\ cfg.windowStart \in Nat
    BY <1>1 DEF Bookended, DistributedConfig
  <1> QED BY <1>2, <1>3, SMT

\* An evaluation leaves the mask of its day, if there is a plan.
LEMMA EvaluateMarksDay ==
  ASSUME IInv, TodayInv, NEW es, NEW cfg, NEW m \in Minutes, NEW room, Evaluate(es, cfg, m, room)
  PROVE  /\ lastEval' = m /\ m # Never /\ lastEval' <= newest'
         /\ Schedulable(cfg, ZoneCount) =>
              /\ firedDay' = DayOf(m)
              /\ firedMask' = FiredOn(DayOf(m)) \cup Firing(cfg, m)
              /\ fired' = Fired(m) \cup Firing(cfg, m)
  <1>1. lastEval' = m /\ newest' = IF m > newest THEN m ELSE newest
    BY DEF Evaluate
  <1>2. m \in Nat /\ newest \in Int
    BY DEF IInv, GhostTypeOK, Minutes, Never
  <1>3. Schedulable(cfg, ZoneCount) => FireCycles(cfg, m)
    BY DEF Evaluate
  <1> QED BY <1>1, <1>2, <1>3, SMT DEF FireCycles, Never

\* A pass goes on with the day, or begins a new one.
LEMMA TickFires ==
  ASSUME IInv, TodayInv, clock' \in Minutes, dist' = dist, synced => synced',
         NEW room, SchedulerTick(room)
  PROVE  TodayInv'
  <1>1. CASE synced' /\ NewMinute(clock')
    <2> DEFINE m == clock'
               plan == Schedulable(dist, ZoneCount)
    <2>1. Evaluate(entries, dist, m, room) /\ m \in Minutes /\ lastEval < m
          /\ steady' = IF MinuteOf(m) = 0 THEN TRUE ELSE steady /\ m = lastEval + 1
      BY <1>1 DEF SchedulerTick, NewMinute
    <2>2. /\ lastEval' = m /\ m # Never /\ lastEval' <= newest'
          /\ plan => /\ firedDay' = DayOf(m)
                     /\ firedMask' = FiredOn(DayOf(m)) \cup Firing(dist, m)
                     /\ fired' = Fired(m) \cup Firing(dist, m)
      BY <2>1, EvaluateMarksDay
    <2>3. lastEval \in {Never} \cup Minutes /\ dist \in DistributedConfig
      BY DEF IInv, TypeOK
    <2> HIDE DEF m
    <2>4. CASE plan /\ MinuteOf(m) = 0
      <3>1. FiredOn(DayOf(m)) = {}
        <4>1. CASE lastEval = Never
          <5>1. firedDay = Never /\ DayOf(m) \in Nat
            BY <2>1, <4>1, DayOfMinute DEF TodayInv
          <5>2. firedDay # DayOf(m)
            BY <5>1, SMT DEF Never
          <5> QED BY <5>2 DEF FiredOn
        <4>2. CASE lastEval # Never
          <5>1. firedDay = DayOf(lastEval)
            BY <2>4, <4>2 DEF TodayInv
          <5>2. DayOf(lastEval) # DayOf(m)
            BY <2>1, <2>3, <2>4, <4>2, MidnightIsNew
          <5> QED BY <5>1, <5>2 DEF FiredOn
        <4> QED BY <4>1, <4>2
      <3>2. firedMask' \subseteq fired'
        BY <2>2, <2>4, <3>1
      <3>3. ASSUME NEW i \in Cycles(dist), CycleStart(dist, ZoneCount, i) <= MinuteOf(m)
            PROVE  i \in fired'
        <4>1. CycleStart(dist, ZoneCount, i) \in Nat
          BY <2>3, <2>4, CyclesBegin
        <4>2. CycleStart(dist, ZoneCount, i) = MinuteOf(m)
          BY <2>4, <3>3, <4>1, SMT
        <4>3. i \in Firing(dist, m)
          BY <3>1, <4>2 DEF Firing
        <4> QED BY <2>2, <2>4, <4>3
      <3>4. /\ lastEval' = m /\ dist' = dist /\ MinuteOf(lastEval') = MinuteOf(m)
            /\ DayOf(lastEval') = DayOf(m)
        BY <2>2
      <3> QED BY <1>1, <2>2, <2>4, <3>2, <3>3, <3>4
                 DEF TodayInv, EveryCycleFires, MinuteOf, DayOf, Never
    <2>5. CASE plan /\ steady' /\ MinuteOf(m) # 0
      <3>1. steady /\ m = lastEval + 1 /\ lastEval \in Minutes
        <4>1. steady /\ m = lastEval + 1
          BY <2>1, <2>5
        <4> QED BY <2>3, <4>1 DEF TodayInv
      <3>2. DayOf(m) = DayOf(lastEval) /\ MinuteOf(m) = MinuteOf(lastEval) + 1
        BY <2>1, <2>5, <3>1, NextMinute
      <3>3. firedDay = DayOf(m) /\ firedMask \subseteq fired /\ FiredOn(DayOf(m)) = firedMask
        <4>1. lastEval # Never
          BY <3>1, SMT DEF Minutes, Never
        <4> QED BY <2>5, <3>1, <3>2, <4>1 DEF TodayInv, FiredOn
      <3>4. Fired(m) = fired
        <4>1. newest \in Minutes /\ lastEval <= newest
          BY <3>1, SMT DEF IInv, GhostTypeOK, TodayInv, Minutes, Never
        <4>2. DayOf(lastEval) <= DayOf(newest)
          BY <3>1, <4>1, DaysFollowMinutes
        <4>3. DayOf(lastEval) \in Nat /\ DayOf(newest) \in Nat
          BY <3>1, <4>1, DayOfMinute
        <4>4. ~NewDay(m)
          BY <3>2, <4>2, <4>3, SMT DEF NewDay
        <4> QED BY <4>4 DEF Fired
      <3>5. fired' = fired \cup Firing(dist, m) /\ firedMask' = firedMask \cup Firing(dist, m)
        BY <2>2, <2>5, <3>3, <3>4
      <3>6. ASSUME NEW i \in Cycles(dist), CycleStart(dist, ZoneCount, i) <= MinuteOf(m)
            PROVE  i \in fired'
        <4>1. CycleStart(dist, ZoneCount, i) \in Nat /\ MinuteOf(lastEval) \in Nat
          BY <2>3, <2>5, <3>1, CyclesBegin, MinuteOfDay
        <4>2. CASE CycleStart(dist, ZoneCount, i) <= MinuteOf(lastEval)
          <5>1. i \in fired
            BY <2>5, <3>1, <4>2 DEF TodayInv, EveryCycleFires
          <5> QED BY <3>5, <5>1
        <4>3. CASE ~(CycleStart(dist, ZoneCount, i) <= MinuteOf(lastEval))
          <5>1. CycleStart(dist, ZoneCount, i) = MinuteOf(m)
            BY <3>2, <3>6, <4>1, <4>3, SMT
          <5>2. i \in firedMask \/ i \in Firing(dist, m)
            BY <3>3, <5>1 DEF Firing
          <5> QED BY <3>3, <3>5, <5>2
        <4> QED BY <4>2, <4>3
      <3>7. firedMask' \subseteq fired'
        BY <3>3, <3>5
      <3>8. /\ lastEval' = m /\ dist' = dist /\ MinuteOf(lastEval') = MinuteOf(m)
            /\ DayOf(lastEval') = DayOf(m)
        BY <2>2
      <3> QED BY <1>1, <2>2, <2>5, <3>6, <3>7, <3>8
                 DEF TodayInv, EveryCycleFires, MinuteOf, DayOf, Never
    <2>6. CASE ~plan \/ ~steady'
      BY <1>1, <2>2, <2>6 DEF TodayInv, EveryCycleFires, MinuteOf, DayOf, Never
    <2>7. plan \in BOOLEAN /\ steady' \in BOOLEAN
      BY <2>1 DEF Schedulable
    <2> QED BY <2>1, <2>4, <2>5, <2>6
  <1>2. CASE ~(synced' /\ NewMinute(clock'))
    <2>1. UNCHANGED <<evalVars, ghostVars>>
      BY <1>2 DEF SchedulerTick
    <2> QED BY <2>1 DEF TodayInv, EveryCycleFires, evalVars, ghostVars, DayOf, MinuteOf, Never
  <1> QED BY <1>1, <1>2

\* An edit ends the watch over its day.
LEMMA EditFires ==
  ASSUME IInv, TodayInv, NEW es, NEW cfg, NEW room, EvalNow(es, cfg, room),
         dist' = cfg, synced' = synced
  PROVE  TodayInv'
  <1>0. ~steady'
    BY DEF EvalNow
  <1>1. CASE synced
    <2>1. Evaluate(es, cfg, clock, room) /\ clock \in Minutes
      BY <1>1 DEF EvalNow, IInv, TypeOK
    <2> QED BY <1>0, <1>1, <2>1, EvaluateMarksDay
            DEF TodayInv, EveryCycleFires, DayOf, Never
  <1>2. CASE ~synced
    <2>1. UNCHANGED <<evalVars, newest>>
      BY <1>2 DEF EvalNow
    <2>2. lastEval = Never
      BY <1>2 DEF TodayInv
    <2> QED BY <1>0, <1>2, <2>1, <2>2 DEF TodayInv, EveryCycleFires, evalVars, Never
  <1> QED BY <1>1, <1>2

LEMMA TodayInit == Init => TodayInv
  BY SMT DEF Init, TodayInv, EveryCycleFires, Never

LEMMA TodayNext == IInv /\ TodayInv /\ [Next]_vars => TodayInv'
  <1> SUFFICES ASSUME IInv, TodayInv, [Next]_vars PROVE TodayInv'
    OBVIOUS
  <1>1. CASE Pass
    <2>1. PICK room \in 0 .. MaxRoom : SchedulerTick(room)
      BY <1>1 DEF Pass
    <2>2. clock' \in Minutes /\ (synced => synced')
      <3>1. ClockTick
        BY <1>1 DEF Pass
      <3> QED BY <3>1 DEF ClockTick, IInv, TypeOK
    <2>3. dist' = dist
      BY <1>1 DEF Pass, scheduleVars
    <2> QED BY <2>1, <2>2, <2>3, TickFires
  <1>2. ASSUME NEW es \in Schedules, PostSchedule(es) PROVE TodayInv'
    <2>1. PICK room \in 0 .. MaxRoom : EvalNow(es, dist, room)
      BY <1>2 DEF PostSchedule
    <2>2. dist' = dist /\ synced' = synced
      BY <1>2 DEF PostSchedule, clockVars
    <2> QED BY <2>1, <2>2, EditFires
  <1>3. ASSUME NEW cfg \in Configs, PostDistributed(cfg) PROVE TodayInv'
    <2>1. PICK room \in 0 .. MaxRoom : EvalNow(entries, dist', room)
      BY <1>3 DEF PostDistributed
    <2>2. synced' = synced
      BY <1>3 DEF PostDistributed, clockVars
    <2> QED BY <2>1, <2>2, EditFires
  <1>4. CASE Restart
    BY <1>4, SMT DEF Restart, TodayInv, EveryCycleFires, Never
  <1>5. ASSUME UNCHANGED <<dist, synced, evalVars, ghostVars>> PROVE TodayInv'
    BY <1>5 DEF TodayInv, EveryCycleFires, evalVars, ghostVars, DayOf, MinuteOf
  <1>6. CASE SourceReady
    BY <1>5, <1>6 DEF SourceReady, scheduleVars
  <1>7. ASSUME NEW n \in Steps, SourceSteps(n) PROVE TodayInv'
    BY <1>5, <1>7 DEF SourceSteps, scheduleVars
  <1>8. CASE Minute
    BY <1>5, <1>8 DEF Minute, scheduleVars
  <1>9. CASE UNCHANGED vars
    BY <1>5, <1>9 DEF vars, clockVars, scheduleVars
  <1> QED BY <1>1, <1>2, <1>3, <1>4, <1>6, <1>7, <1>8, <1>9 DEF Next

-----------------------------------------------------------------------------
\* The invariant itself.
THEOREM SchedulerInvariant == Spec => []IInv
  BY InitInv, NextKeepsInv, PTL DEF Spec

\* Types: no schedule outgrows its array, no cycle its bit of the mask.
THEOREM SchedulerTypes == Spec => []TypeOK
  <1>1. IInv => TypeOK
    BY DEF IInv
  <1> QED BY <1>1, SchedulerInvariant, PTL

\* The mask and what was fired, on any day.
THEOREM TodayInvariant == Spec => []TodayInv
  BY TodayInit, TodayNext, SchedulerInvariant, PTL DEF Spec

\* On a day whose every minute a pass evaluated, every cycle of the plan in
\* force has been fired by the minute it was due.
THEOREM CyclesAllFire == Spec => []EveryCycleFires
  <1>1. TodayInv => EveryCycleFires
    BY DEF TodayInv
  <1> QED BY <1>1, TodayInvariant, PTL

\* A cycle is fired at most once on its day, whatever edits and corrections
\* of the clock come between, short of an edit on the far side of midnight.
THEOREM CyclesFireOnce == Spec => []CycleFiresOnce
  <1>1. IInv => CycleFiresOnce
    BY DEF IInv, CycleFiresOnce
  <1> QED BY <1>1, SchedulerInvariant, PTL

\* The first auto run taken on a day has fertilizer and no later one has.
THEOREM FertilizerGoesFirst == Spec => []FirstAutoRunFertigates
  <1>1. IInv => FirstAutoRunFertigates
    BY DEF IInv, FirstAutoRunFertigates
  <1> QED BY <1>1, SchedulerInvariant, PTL

\* The plan in force keeps to its window.
THEOREM PlansFit == Spec => []PlanFits
  <1>1. IInv => PlanFits
    BY PlanIsBookended, SchedulerAssumption DEF IInv, TypeOK, PlanFits
  <1> QED BY <1>1, SchedulerInvariant, PTL

\* Passes evaluate newer and newer minutes, however the clock is nudged back.
THEOREM PassesAreForward == Spec => PassesGoForward
  <1>1. IInv /\ [Next]_vars => (Pass /\ lastEval' # lastEval => lastEval' > newest \/ rewound)
    <2> SUFFICES ASSUME IInv, Pass, lastEval' # lastEval
                 PROVE  lastEval' > newest \/ rewound
      OBVIOUS
    <2>1. PICK room \in 0 .. MaxRoom : SchedulerTick(room)
      BY DEF Pass
    <2>2. clock' \in Minutes
      BY DEF Pass, ClockTick, IInv, TypeOK
    <2> QED BY <2>1, <2>2, TickKeepsInv
  <1> QED BY <1>1, SchedulerInvariant, PTL DEF Spec, PassesGoForward
=============================================================================
