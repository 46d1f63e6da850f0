------------------------- MODULE Connectivity_proofs -------------------------
(***************************************************************************)
(* Theorems about Connectivity, for every interval, range of the counter,  *)
(* day, window and set of credentials.                                     *)
(*                                                                         *)
(* The link: reconnects keep their pace in an outage of any length, and    *)
(* the name is announced after an outage and after no blip.  Behind them   *)
(* is what the monitor's two baselines stand for: until the first attempt  *)
(* both measure the outage itself; from then on only lastTryMs_ is to be   *)
(* trusted, because the counter turns, and downSinceMs_ can withhold an    *)
(* attempt for no longer than one more grace.                              *)
(*                                                                         *)
(* The night: the nightly reboot comes once a night although the day of    *)
(* the last one is lost in it.  Since that reboot the box has been up for  *)
(* no longer than the night is old, and the window is shorter than the     *)
(* uptime that a reboot asks for.                                          *)
(***************************************************************************)
EXTENDS Connectivity, Integers, TLAPS

-----------------------------------------------------------------------------
(* Readings of the counter                                                 *)

LEMMA ModSmall ==
  ASSUME NEW x \in Nat, NEW w \in Nat, x < w
  PROVE  x % w = x
OBVIOUS

LEMMA ModOnce ==
  ASSUME NEW x \in Nat, NEW w \in Nat, 0 < w, w <= x, x < 2 * w
  PROVE  x % w = x - w
OBVIOUS

\* The time between two readings, on the circle.
LEMMA Around ==
  ASSUME NEW a \in Nat, NEW b \in Nat, NEW w \in Nat, a < w, b < w
  PROVE  (b + w - a) % w = IF a <= b THEN b - a ELSE b + w - a
<1>1. CASE a <= b
  <2>1. b + w - a \in Nat /\ w <= b + w - a /\ b + w - a < 2 * w /\ 0 < w
    BY <1>1
  <2>2. (b + w - a) % w = (b + w - a) - w
    BY <2>1, ModOnce
  <2> QED
    BY <1>1, <2>2
<1>2. CASE ~(a <= b)
  <2>1. b + w - a \in Nat /\ b + w - a < w
    BY <1>2
  <2>2. (b + w - a) % w = b + w - a
    BY <2>1, ModSmall
  <2> QED
    BY <1>2, <2>2
<1> QED
  BY <1>1, <1>2

-----------------------------------------------------------------------------
(* What the link's invariant says                                          *)

\* Only a joined link is watched.
OnlyStaWatched == mode # "Sta" => connected

\* A link that was up at the last pass owes nothing to an earlier outage.
HealthyIsFresh == connected => ~reconnecting /\ ~stale /\ downFor = 0 /\ quiet = 0

\* Until the first attempt both baselines measure the outage, no pass has seen
\* it as old as the grace, and the interval does not withhold the attempt.
FirstGrace ==
  ~connected /\ ~reconnecting =>
    /\ ~stale /\ downFor = quiet
    /\ quiet < GraceMs + lag
    /\ Since(downSinceMs) = quiet
    /\ Since(lastTryMs) = quiet + RetryIntervalMs

\* From then on the baseline of the attempts is right, the one of the outage is
\* older by a grace unless the counter has turned it over since, and an interval
\* that is over is withheld at most by one grace, after such a turn.
RetryPace ==
  reconnecting =>
    /\ stale
    /\ Since(lastTryMs) = quiet
    /\ Since(downSinceMs) < quiet \/ quiet + GraceMs <= Since(downSinceMs)
    /\ \/ quiet < RetryIntervalMs + lag
       \/ /\ Since(downSinceMs) < GraceMs + lag
          /\ quiet < RetryIntervalMs + MaxLag + Since(downSinceMs)

PaceInv == OnlyStaWatched /\ HealthyIsFresh /\ FirstGrace /\ RetryPace

LinkInv == TypeOK /\ PaceInv

USE WifiLinkAssumption, ConnectivityAssumption

LEMMA SinceNow == ASSUME now \in Instants PROVE Since(now) = 0
<1>1. now \in Nat /\ Wrap \in Nat /\ now < Wrap
  BY DEF Instants
<1>2. (now + Wrap - now) % Wrap = IF now <= now THEN now - now ELSE now + Wrap - now
  BY <1>1, Around
<1> QED
  BY <1>1, <1>2 DEF Since

LEMMA SinceType == ASSUME now \in Instants, NEW t \in Instants PROVE Since(t) \in Instants
<1>1. now \in Nat /\ Wrap \in Nat /\ now < Wrap /\ t \in Nat /\ t < Wrap
  BY DEF Instants
<1>2. (now + Wrap - t) % Wrap = IF t <= now THEN now - t ELSE now + Wrap - t
  BY <1>1, Around
<1> QED
  BY <1>1, <1>2 DEF Since, Instants

\* A reading the retry interval before now, whatever lies between.
LEMMA SinceBack ==
  ASSUME now \in Instants
  PROVE  /\ (now + Wrap - RetryIntervalMs) % Wrap \in Instants
         /\ Since((now + Wrap - RetryIntervalMs) % Wrap) = RetryIntervalMs
<1> DEFINE back == (now + Wrap - RetryIntervalMs) % Wrap
<1>1. /\ now \in Nat /\ Wrap \in Nat /\ now < Wrap
      /\ RetryIntervalMs \in Nat /\ 0 < RetryIntervalMs /\ RetryIntervalMs < Wrap
  BY DEF Instants
<1>2. back = IF RetryIntervalMs <= now THEN now - RetryIntervalMs
             ELSE now + Wrap - RetryIntervalMs
  BY <1>1, Around
<1>3. back \in Nat /\ back < Wrap
  BY <1>1, <1>2
<1> HIDE DEF back
<1>4. (now + Wrap - back) % Wrap = IF back <= now THEN now - back ELSE now + Wrap - back
  BY <1>1, <1>3, Around
<1>5. (now + Wrap - back) % Wrap = RetryIntervalMs
  BY <1>1, <1>2, <1>3, <1>4
<1> QED
  BY <1>3, <1>5 DEF Since, Instants, back

\* A unit later every baseline is a unit older, across the turn too.
LEMMA SinceGrows ==
  ASSUME now \in Instants, NEW t \in Instants, Since(t) + 1 < Wrap
  PROVE  (((now + 1) % Wrap) + Wrap - t) % Wrap = Since(t) + 1
<1> DEFINE next == (now + 1) % Wrap
<1>1. now \in Nat /\ Wrap \in Nat /\ now < Wrap /\ t \in Nat /\ t < Wrap
  BY DEF Instants
<1>2. Since(t) = IF t <= now THEN now - t ELSE now + Wrap - t
  BY <1>1, Around DEF Since
<1>3. next = IF now + 1 < Wrap THEN now + 1 ELSE 0
  <2>1. CASE now + 1 < Wrap
    BY <1>1, <2>1, ModSmall
  <2>2. CASE now + 1 = Wrap
    BY <1>1, <2>2, ModOnce
  <2> QED
    BY <1>1, <2>1, <2>2
<1>4. next \in Nat /\ next < Wrap
  BY <1>1, <1>3
<1> HIDE DEF next
<1>5. (next + Wrap - t) % Wrap = IF t <= next THEN next - t ELSE next + Wrap - t
  BY <1>1, <1>4, Around
<1>6. (next + Wrap - t) % Wrap = Since(t) + 1
  BY <1>1, <1>2, <1>3, <1>5
<1> QED
  BY <1>6 DEF next

\* Unless it is as old as a reading can be: that one is new again.
LEMMA SinceTurns ==
  ASSUME now \in Instants, NEW t \in Instants, ~(Since(t) + 1 < Wrap)
  PROVE  (((now + 1) % Wrap) + Wrap - t) % Wrap = 0
<1>1. now \in Nat /\ Wrap \in Nat /\ 0 < Wrap /\ now < Wrap /\ t \in Nat /\ t < Wrap
  BY DEF Instants
<1>2. Since(t) = IF t <= now THEN now - t ELSE now + Wrap - t
  BY <1>1, Around DEF Since
<1>3. (now + 1) % Wrap = t
  <2>1. CASE t <= now
    <3>1. t = 0 /\ now + 1 = Wrap
      BY <1>1, <1>2, <2>1
    <3> QED
      BY <1>1, <3>1, ModOnce
  <2>2. CASE ~(t <= now)
    <3>1. now + 1 = t
      BY <1>1, <1>2, <2>2
    <3> QED
      BY <1>1, <3>1, ModSmall
  <2> QED
    BY <2>1, <2>2
<1>4. (t + Wrap - t) % Wrap = IF t <= t THEN t - t ELSE t + Wrap - t
  BY <1>1, Around
<1> QED
  BY <1>1, <1>3, <1>4

-----------------------------------------------------------------------------
(* Types                                                                   *)

LEMMA CapIsNat == QuietCap \in Nat
BY DEF QuietCap

LEMMA LinkInit == ASSUME Init PROVE LinkInv
<1>1. /\ now = 0 /\ lag = 0 /\ startMs = 0
      /\ mode \in {"Connecting", "SoftAp"}
      /\ reconnecting = FALSE /\ connected = TRUE /\ downSinceMs = 0 /\ lastTryMs = 0
      /\ up = FALSE /\ kicked \in BOOLEAN /\ granted \in BOOLEAN
      /\ downFor = 0 /\ quiet = 0 /\ stale = FALSE
  <2>1. Begun(ssid # "", ssid = "farm")
    BY Zenon DEF Init
  <2>2. kicked = (ssid # "") /\ granted = (ssid = "farm")
    BY Zenon, <2>1 DEF Begun
  <2>3. kicked \in BOOLEAN /\ granted \in BOOLEAN
    BY Zenon, <2>2
  <2>4. mode \in {"Connecting", "SoftAp"}
    <3>1. mode = IF ssid # "" THEN "Connecting" ELSE "SoftAp"
      BY Zenon, <2>1 DEF Begun
    <3> QED
      BY Zenon, <3>1
  <2> QED
    BY Zenon, <2>1, <2>3, <2>4 DEF Begun
<1>2. /\ ssid \in Words /\ pass \in Words /\ apUp = FALSE /\ sntp = FALSE /\ valid = FALSE
      /\ hour \in 0 .. DayLen - 1 /\ uptime = 0 /\ rebooted = FALSE
  BY Zenon DEF Init
<1>3. 0 \in Instants /\ 0 \in 0 .. MaxLag /\ 0 \in 0 .. QuietCap /\ 0 \in 0 .. MinUptime
  BY CapIsNat DEF Instants
<1>4. TypeOK
  BY <1>1, <1>2, <1>3 DEF TypeOK, LinkTypeOK
<1>5. PaceInv
  BY <1>1 DEF PaceInv, OnlyStaWatched, HealthyIsFresh, FirstGrace, RetryPace
<1> QED
  BY <1>4, <1>5 DEF LinkInv

\* A boot forgets every outage.
LEMMA BootLink ==
  ASSUME TypeOK, NEW name \in Words, NEW word \in Words, NEW keepsTime \in BOOLEAN,
         Boot(name, word, keepsTime),
         ssid' \in Words, pass' \in Words, rebooted' \in BOOLEAN
  PROVE  LinkInv'
<1>1. /\ now' = 0 /\ lag' = 0 /\ startMs' = 0
      /\ mode' \in {"Connecting", "SoftAp"}
      /\ reconnecting' = FALSE /\ connected' = TRUE /\ downSinceMs' = 0 /\ lastTryMs' = 0
      /\ up' = FALSE /\ kicked' \in BOOLEAN /\ granted' \in BOOLEAN
      /\ downFor' = 0 /\ quiet' = 0 /\ stale' = FALSE
  <2>1. Begin(name # "", name = "farm" /\ word = "farm")
    BY Zenon DEF Boot
  <2>2. kicked' = (name # "") /\ granted' = (name = "farm" /\ word = "farm")
    BY Zenon, <2>1 DEF Begin
  <2>3. kicked' \in BOOLEAN /\ granted' \in BOOLEAN
    BY Zenon, <2>2
  <2>4. mode' \in {"Connecting", "SoftAp"}
    <3>1. mode' = IF name # "" THEN "Connecting" ELSE "SoftAp"
      BY Zenon, <2>1 DEF Begin
    <3> QED
      BY Zenon, <3>1
  <2> QED
    BY Zenon, <2>1, <2>3, <2>4 DEF Begin
<1>2. /\ sntp' \in BOOLEAN /\ valid' \in BOOLEAN /\ apUp' = apUp /\ hour' = hour /\ uptime' = 0
  <2>1. /\ sntp' = (sntp /\ keepsTime) /\ valid' = sntp'
        /\ apUp' = apUp /\ hour' = hour /\ uptime' = 0
    BY Zenon DEF Boot
  <2>2. sntp' \in BOOLEAN
    BY Zenon, <2>1
  <2> QED
    BY Zenon, <2>1, <2>2
<1>3. 0 \in Instants /\ 0 \in 0 .. MaxLag /\ 0 \in 0 .. QuietCap /\ 0 \in 0 .. MinUptime
  BY CapIsNat DEF Instants
<1>4. TypeOK'
  BY <1>1, <1>2, <1>3 DEF TypeOK, LinkTypeOK, Instants, QuietCap
<1>5. PaceInv'
  BY <1>1 DEF PaceInv, OnlyStaWatched, HealthyIsFresh, FirstGrace, RetryPace
<1> QED
  BY <1>4, <1>5 DEF LinkInv

-----------------------------------------------------------------------------
(* A pass                                                                  *)

\* What one pass of the watched link does to the monitor, by what it sees.
LEMMA WatchTypes ==
  ASSUME TypeOK, WifiTick
  PROVE  LinkTypeOK'
<1>1. /\ now \in Instants /\ now' = now /\ lag' = 0
      /\ apUp' = apUp /\ granted' = granted /\ up' = up
  BY DEF TypeOK, LinkTypeOK, WifiTick, WatchJoin, WatchLink, radioVars
<1>2. LastTry \in Instants /\ DownSince \in Instants
  BY <1>1, SinceBack DEF TypeOK, LinkTypeOK, LastTry, DownSince
<1>3. /\ mode' \in {"Connecting", "Sta", "SoftAp"} /\ startMs' = startMs
      /\ connected' \in BOOLEAN /\ reconnecting' \in BOOLEAN /\ kicked' \in BOOLEAN
      /\ downSinceMs' \in Instants /\ lastTryMs' \in Instants
  <2>1. CASE WatchJoin
    BY <2>1 DEF WatchJoin, TypeOK, LinkTypeOK, managerVars, monitorVars, radioVars
  <2>2. CASE WatchLink
    <3>1. mode' = mode /\ startMs' = startMs /\ mode = "Sta"
      BY <2>2 DEF WatchLink
    <3>2. connected' \in BOOLEAN /\ downSinceMs' \in Instants /\ lastTryMs' \in Instants
      <4>1. Update
        BY <2>2 DEF WatchLink
      <4> QED
        BY <4>1, <1>1, <1>2 DEF Update, TypeOK, LinkTypeOK
    <3>3. reconnecting' \in BOOLEAN /\ kicked' \in BOOLEAN
      BY <2>2 DEF WatchLink
    <3> QED
      BY <3>1, <3>2, <3>3
  <2>3. CASE mode = "SoftAp" /\ UNCHANGED <<managerVars, radioVars>>
    BY <2>3 DEF TypeOK, LinkTypeOK, managerVars, monitorVars, radioVars
  <2> QED
    BY <2>1, <2>2, <2>3 DEF WifiTick
<1>4. downFor' \in 0 .. QuietCap /\ quiet' \in 0 .. QuietCap /\ stale' \in BOOLEAN
  BY CapIsNat DEF WifiTick, TypeOK, LinkTypeOK
<1>5. 0 \in 0 .. MaxLag
  OBVIOUS
<1> QED
  BY <1>1, <1>3, <1>4, <1>5 DEF TypeOK, LinkTypeOK, Instants, QuietCap

\* The pass of a link that is down at it.
LEMMA DownPass ==
  ASSUME LinkInv, LinkTypeOK', WifiTick, mode = "Sta", ~up
  PROVE  PaceInv'
<1>1. /\ mode' = "Sta" /\ now' = now /\ lag' = 0 /\ connected' = FALSE
      /\ downSinceMs' = DownSince
      /\ lastTryMs' = IF Reconnects THEN now ELSE LastTry
      /\ reconnecting' = (Reconnects \/ reconnecting)
      /\ downFor' = downFor
      /\ quiet' = IF Reconnects THEN 0 ELSE IF connected THEN 0 ELSE quiet
      /\ stale' = (stale \/ downFor >= GraceMs)
  BY DEF WifiTick, WatchJoin, WatchLink, Update
<1>2. /\ now \in Instants /\ downSinceMs \in Instants /\ lastTryMs \in Instants
      /\ quiet \in Nat /\ downFor \in Nat /\ lag \in Nat /\ lag <= MaxLag
  BY CapIsNat DEF LinkInv, TypeOK, LinkTypeOK
<1>3. /\ Since(now) = 0
      /\ Since(downSinceMs) \in Nat /\ Since(lastTryMs) \in Nat
      /\ Since((now + Wrap - RetryIntervalMs) % Wrap) = RetryIntervalMs
  BY <1>2, SinceNow, SinceType, SinceBack DEF Instants
<1>4. Since(DownSince) = (IF connected THEN 0 ELSE Since(downSinceMs))
  BY <1>3 DEF DownSince
<1>5. Since(LastTry) = (IF connected THEN RetryIntervalMs ELSE Since(lastTryMs))
  BY <1>3 DEF LastTry
<1>6. Since(downSinceMs)' = Since(DownSince) /\ Since(lastTryMs)' = Since(lastTryMs')
  BY <1>1 DEF Since
<1>7. Reconnects <=> Since(DownSince) >= GraceMs /\ Since(LastTry) >= RetryIntervalMs
  BY DEF Reconnects
<1>8. OnlyStaWatched' /\ HealthyIsFresh'
  BY <1>1 DEF OnlyStaWatched, HealthyIsFresh
<1>9. CASE Reconnects
  <2>1. quiet' = 0 /\ lastTryMs' = now /\ reconnecting' = TRUE /\ Since(lastTryMs)' = 0
    BY <1>1, <1>3, <1>6, <1>9
  <2>2. stale'
    <3>1. CASE reconnecting
      BY <1>1, <3>1 DEF LinkInv, PaceInv, RetryPace
    <3>2. CASE ~reconnecting
      BY <1>1, <1>2, <1>3, <1>4, <1>7, <1>9, <3>2
         DEF LinkInv, PaceInv, HealthyIsFresh, FirstGrace
    <3> QED
      BY <3>1, <3>2
  <2>3. GraceMs <= Since(downSinceMs)'
    BY <1>6, <1>7, <1>9
  <2> QED
    BY <1>1, <1>8, <2>1, <2>2, <2>3 DEF PaceInv, FirstGrace, RetryPace
<1>10. CASE ~Reconnects
  <2>1. lastTryMs' = LastTry /\ Since(lastTryMs)' = Since(LastTry)
    BY <1>1, <1>6, <1>10
  <2>2. quiet' = (IF connected THEN 0 ELSE quiet) /\ (reconnecting' <=> reconnecting)
    BY Zenon, <1>1, <1>10
  <2>3. CASE ~reconnecting
    <3>1. /\ ~stale /\ downFor = (IF connected THEN 0 ELSE quiet)
          /\ Since(DownSince) = quiet'
          /\ Since(LastTry) = quiet' + RetryIntervalMs
      BY <1>4, <1>5, <2>2, <2>3 DEF LinkInv, PaceInv, HealthyIsFresh, FirstGrace
    <3>2. quiet' \in Nat /\ quiet' < GraceMs
      BY <1>2, <1>7, <1>10, <2>2, <3>1
    <3>3. downFor' = quiet' /\ downFor < GraceMs
      BY <1>1, <1>2, <2>2, <3>1, <3>2
    <3>4. ~stale'
      <4>1. ~(downFor >= GraceMs)
        <5>1. downFor \in Nat /\ downFor < GraceMs
          BY <1>1, <1>2, <3>3
        <5> QED
          BY <5>1
      <4>2. stale' = (stale \/ downFor >= GraceMs)
        BY Zenon, <1>1
      <4> QED
        BY Zenon, <3>1, <4>1, <4>2
    <3>5. FirstGrace'
      <4>1. quiet' < GraceMs + lag'
        BY <1>1, <3>2
      <4>2. Since(downSinceMs)' = quiet' /\ Since(lastTryMs)' = quiet' + RetryIntervalMs
        BY Zenon, <1>6, <2>1, <3>1
      <4> QED
        BY Zenon, <3>3, <3>4, <4>1, <4>2 DEF FirstGrace
    <3> QED
      BY <1>8, <2>2, <2>3, <3>5 DEF PaceInv, RetryPace
  <2>4. CASE reconnecting
    <3>1. ~connected /\ stale /\ Since(lastTryMs) = quiet
      BY <2>4 DEF LinkInv, PaceInv, HealthyIsFresh, RetryPace
    <3>2. stale' /\ quiet' = quiet /\ Since(lastTryMs)' = quiet'
          /\ Since(downSinceMs)' = Since(downSinceMs)
      BY <1>1, <1>4, <1>5, <1>6, <2>1, <2>2, <3>1
    <3>3. \/ quiet < RetryIntervalMs + lag
          \/ quiet < RetryIntervalMs + MaxLag + Since(downSinceMs)
      BY <2>4 DEF LinkInv, PaceInv, RetryPace
    <3>4. quiet < RetryIntervalMs \/ Since(downSinceMs) < GraceMs
      BY <1>2, <1>3, <1>4, <1>5, <1>7, <1>10, <3>1
    <3>5. \/ quiet' < RetryIntervalMs + lag'
          \/ /\ Since(downSinceMs)' < GraceMs + lag'
             /\ quiet' < RetryIntervalMs + MaxLag + Since(downSinceMs)'
      BY <1>1, <1>2, <1>3, <3>2, <3>3, <3>4
    <3>6. \/ Since(downSinceMs)' < quiet'
          \/ quiet' + GraceMs <= Since(downSinceMs)'
      BY <2>4, <3>2 DEF LinkInv, PaceInv, RetryPace
    <3> QED
      BY Zenon, <1>8, <2>2, <2>4, <3>2, <3>5, <3>6 DEF PaceInv, FirstGrace, RetryPace
  <2> QED
    BY <2>3, <2>4
<1> QED
  BY <1>9, <1>10

LEMMA PassPace ==
  ASSUME LinkInv, LinkTypeOK', WifiTick
  PROVE  PaceInv'
<1>1. CASE mode = "Sta" /\ ~up
  BY <1>1, DownPass
<1>2. CASE ~(mode = "Sta" /\ ~up)
  <2>1. connected' = TRUE /\ reconnecting' = FALSE
    BY <1>2 DEF WifiTick, WatchJoin, WatchLink, Update, Reconnects, managerVars, monitorVars,
                LinkInv, PaceInv, OnlyStaWatched, HealthyIsFresh, TypeOK, LinkTypeOK
  <2>2. mode' = "Sta" => up
    BY <1>2 DEF WifiTick, WatchJoin, WatchLink, managerVars
  <2>3. stale' = FALSE /\ downFor' = 0 /\ quiet' = 0
    BY <2>2 DEF WifiTick
  <2> QED
    BY <2>1, <2>3 DEF PaceInv, OnlyStaWatched, HealthyIsFresh, FirstGrace, RetryPace
<1> QED
  BY <1>1, <1>2

-----------------------------------------------------------------------------
(* Time passes                                                             *)

LEMMA ElapsePace ==
  ASSUME LinkInv, Elapse
  PROVE  LinkTypeOK' /\ PaceInv'
<1>1. /\ lag < MaxLag /\ now' = (now + 1) % Wrap /\ lag' = lag + 1
      /\ downFor' = (IF connected THEN 0 ELSE Capped(downFor + 1))
      /\ quiet' = (IF connected THEN 0 ELSE Capped(quiet + 1))
      /\ mode' = mode /\ startMs' = startMs /\ reconnecting' = reconnecting
      /\ connected' = connected /\ downSinceMs' = downSinceMs /\ lastTryMs' = lastTryMs
      /\ apUp' = apUp /\ up' = up /\ kicked' = kicked /\ stale' = stale /\ granted' = granted
  BY DEF Elapse, managerVars, monitorVars, radioVars
<1>2. /\ now \in Instants /\ downSinceMs \in Instants /\ lastTryMs \in Instants
      /\ quiet \in Nat /\ downFor \in Nat /\ lag \in Nat
  BY CapIsNat DEF LinkInv, TypeOK, LinkTypeOK
<1>3. now' \in Instants
  <2>1. now \in Nat /\ now < Wrap /\ Wrap \in Nat /\ 1 < Wrap
    BY <1>2 DEF Instants
  <2>2. CASE now + 1 < Wrap
    BY <1>1, <2>1, <2>2, ModSmall DEF Instants
  <2>3. CASE now + 1 = Wrap
    BY <1>1, <2>1, <2>3, ModOnce DEF Instants
  <2> QED
    BY <2>1, <2>2, <2>3
<1>4. LinkTypeOK'
  <2>1. downFor' \in 0 .. QuietCap /\ quiet' \in 0 .. QuietCap /\ lag' \in 0 .. MaxLag
    BY <1>1, <1>2, CapIsNat DEF Capped
  <2>2. LinkTypeOK
    BY DEF LinkInv, TypeOK
  <2> QED
    BY <1>1, <1>3, <2>1, <2>2 DEF LinkTypeOK, Instants, QuietCap
<1>5. CASE connected
  <2>1. quiet' = 0 /\ downFor' = 0 /\ connected'
    BY <1>1, <1>5
  <2> QED
    BY Zenon, <1>1, <1>4, <1>5, <2>1
       DEF LinkInv, PaceInv, OnlyStaWatched, HealthyIsFresh, FirstGrace, RetryPace
<1>6. CASE ~connected
  <2>1. OnlyStaWatched' /\ HealthyIsFresh'
    BY <1>1, <1>6 DEF LinkInv, PaceInv, OnlyStaWatched, HealthyIsFresh
  <2>2. /\ Since(downSinceMs) \in Nat /\ Since(lastTryMs) \in Nat
        /\ Since(downSinceMs)' = IF Since(downSinceMs) + 1 < Wrap
                                 THEN Since(downSinceMs) + 1 ELSE 0
        /\ Since(lastTryMs) + 1 < Wrap => Since(lastTryMs)' = Since(lastTryMs) + 1
    <3>1. Since(downSinceMs) \in Nat /\ Since(lastTryMs) \in Nat
      BY <1>2, SinceType DEF Instants
    <3>2. /\ Since(downSinceMs)' = (((now + 1) % Wrap) + Wrap - downSinceMs) % Wrap
          /\ Since(lastTryMs)' = (((now + 1) % Wrap) + Wrap - lastTryMs) % Wrap
      BY <1>1 DEF Since
    <3> QED
      BY <1>2, <3>1, <3>2, SinceGrows, SinceTurns
  <2>3. CASE ~reconnecting
    <3>1. /\ ~stale /\ downFor = quiet /\ quiet < GraceMs + lag
          /\ Since(downSinceMs) = quiet /\ Since(lastTryMs) = quiet + RetryIntervalMs
      BY <1>6, <2>3 DEF LinkInv, PaceInv, FirstGrace
    <3>2. quiet < QuietCap /\ quiet + RetryIntervalMs + 1 < Wrap
      BY <1>1, <1>2, <3>1 DEF QuietCap
    <3>3. quiet' = quiet + 1 /\ downFor' = quiet'
      BY <1>1, <1>2, <1>6, <3>1, <3>2, CapIsNat DEF Capped
    <3>4. /\ Since(downSinceMs)' = quiet'
          /\ Since(lastTryMs)' = quiet' + RetryIntervalMs
          /\ quiet' < GraceMs + lag'
      BY <1>1, <1>2, <2>2, <3>1, <3>2, <3>3
    <3> QED
      BY Zenon, <1>1, <1>4, <2>1, <2>3, <3>1, <3>3, <3>4 DEF PaceInv, FirstGrace, RetryPace
  <2>4. CASE reconnecting
    <3>1. quiet < QuietCap /\ quiet + 1 < Wrap /\ Since(lastTryMs) = quiet /\ stale
      BY <1>1, <1>2, <2>2, <2>4 DEF LinkInv, PaceInv, RetryPace, QuietCap
    <3>2. quiet' = quiet + 1 /\ Since(lastTryMs)' = quiet'
      BY <1>1, <1>2, <1>6, <2>2, <3>1, CapIsNat DEF Capped
    <3>3. Since(downSinceMs)' < quiet' \/ quiet' + GraceMs <= Since(downSinceMs)'
      <4>1. Since(downSinceMs) < quiet \/ quiet + GraceMs <= Since(downSinceMs)
        BY <2>4 DEF LinkInv, PaceInv, RetryPace
      <4> QED
        BY <1>2, <2>2, <3>2, <4>1
    <3>4. CASE quiet < RetryIntervalMs + lag
      <4>1. quiet' < RetryIntervalMs + lag'
        BY <1>1, <1>2, <3>2, <3>4
      <4> QED
        BY Zenon, <1>1, <1>4, <2>1, <2>4, <3>1, <3>2, <3>3, <4>1 DEF PaceInv, FirstGrace, RetryPace
    <3>5. CASE /\ Since(downSinceMs) < GraceMs + lag
               /\ quiet < RetryIntervalMs + MaxLag + Since(downSinceMs)
      <4>1. /\ Since(downSinceMs)' < GraceMs + lag'
            /\ quiet' < RetryIntervalMs + MaxLag + Since(downSinceMs)'
        BY <1>1, <1>2, <2>2, <3>2, <3>5
      <4> QED
        BY Zenon, <1>1, <1>4, <2>1, <2>4, <3>1, <3>2, <3>3, <4>1 DEF PaceInv, FirstGrace, RetryPace
    <3> QED
      BY <2>4, <3>4, <3>5 DEF LinkInv, PaceInv, RetryPace
  <2> QED
    BY <2>3, <2>4
<1> QED
  BY <1>4, <1>5, <1>6

-----------------------------------------------------------------------------
(* The invariant of the link                                               *)

LEMMA StillLink ==
  ASSUME LinkInv,
         UNCHANGED <<now, lag, mode, reconnecting, monitorVars, ghostVars>>
  PROVE  PaceInv'
BY DEF LinkInv, PaceInv, OnlyStaWatched, HealthyIsFresh, FirstGrace, RetryPace, Since,
       monitorVars, ghostVars

\* What the radio and the network do, apart from time.
LEMMA RadioTypes ==
  ASSUME LinkTypeOK, ApComes \/ ApGoes \/ LinkDrops \/ Associates \/ Wedges \/ SelfHeals
  PROVE  /\ LinkTypeOK'
         /\ UNCHANGED <<now, lag, mode, reconnecting, monitorVars, ghostVars>>
<1>1. /\ UNCHANGED <<now, lag, managerVars, ghostVars, granted>>
      /\ apUp' \in BOOLEAN /\ up' \in BOOLEAN /\ kicked' \in BOOLEAN
  BY DEF ApComes, ApGoes, LinkDrops, Associates, Wedges, SelfHeals, LinkTypeOK, radioVars
<1> QED
  BY <1>1 DEF LinkTypeOK, Instants, QuietCap, managerVars, monitorVars, ghostVars

LEMMA HourType == ASSUME TypeOK, Hour PROVE hour' \in 0 .. DayLen - 1
<1>1. hour \in Nat /\ DayLen \in Nat /\ hour < DayLen /\ hour' = (hour + 1) % DayLen
  BY DEF Hour, TypeOK
<1>2. CASE hour + 1 < DayLen
  BY <1>1, <1>2, ModSmall
<1>3. CASE hour + 1 = DayLen
  BY <1>1, <1>3, ModOnce
<1> QED
  BY <1>1, <1>2, <1>3

LEMMA LinkStep == ASSUME LinkInv, [Next]_vars PROVE LinkInv'
<1> USE DEF LinkInv
<1>1. CASE Pass
  <2>1. LinkTypeOK'
    BY <1>1, WatchTypes DEF Pass
  <2>2. TypeOK'
    BY <1>1, <2>1 DEF Pass, TypeOK, Synced, nightVars
  <2> QED
    BY <1>1, <2>1, <2>2, PassPace DEF Pass
<1>2. CASE NightlyReboot
  <2>1. ssid' \in Words /\ pass' \in Words /\ rebooted' \in BOOLEAN
    BY <1>2 DEF NightlyReboot, TypeOK
  <2> QED
    BY <1>2, <2>1, BootLink DEF NightlyReboot, TypeOK
<1>3. CASE Reset
  <2>1. ssid' \in Words /\ pass' \in Words /\ rebooted' \in BOOLEAN
    BY <1>3 DEF Reset, TypeOK
  <2> QED
    BY <1>3, <2>1, BootLink DEF Reset, TypeOK
<1>4. ASSUME NEW p \in Posts, PowerLossInPost(p) PROVE LinkInv'
  <2>1. p[1] \in Words
    OBVIOUS
  <2>2. ssid' \in Words /\ pass' \in Words /\ rebooted' \in BOOLEAN /\ pass \in Words
    BY <1>4, <2>1 DEF PowerLossInPost, TypeOK
  <2>3. Boot(p[1], pass, FALSE)
    BY <1>4 DEF PowerLossInPost
  <2> QED
    BY <2>1, <2>2, <2>3, BootLink
<1>5. ASSUME NEW p \in Posts, PostSettings(p) PROVE LinkInv'
  <2>1. p[1] \in Words /\ p[2] \in Words
    OBVIOUS
  <2>2. TypeOK'
    BY <1>5, <2>1
       DEF PostSettings, TypeOK, LinkTypeOK, Instants, QuietCap,
           linkVars, managerVars, monitorVars, radioVars, ghostVars, nightVars
  <2> QED
    BY <1>5, <2>2, StillLink
       DEF PostSettings, linkVars, managerVars, monitorVars, ghostVars
<1>6. CASE Radio
  <2>1. UNCHANGED <<ssid, pass, sntp, valid, nightVars>>
    BY <1>6 DEF Radio
  <2>2. LinkTypeOK' /\ PaceInv'
    <3>1. CASE Elapse
      BY <3>1, ElapsePace
    <3>2. CASE ApComes \/ ApGoes \/ LinkDrops \/ Associates \/ Wedges \/ SelfHeals
      BY <3>2, RadioTypes, StillLink DEF TypeOK
    <3> QED
      BY <1>6, <3>1, <3>2 DEF Radio
  <2> QED
    BY <2>1, <2>2 DEF TypeOK, nightVars
<1>7. CASE Sntp
  <2>1. TypeOK'
    BY <1>7 DEF Sntp, TypeOK, LinkTypeOK, Instants, QuietCap,
                linkVars, managerVars, monitorVars, radioVars, ghostVars, nightVars
  <2> QED
    BY <1>7, <2>1, StillLink DEF Sntp, linkVars, managerVars, monitorVars, ghostVars
<1>8. CASE Hour
  <2>1. hour' \in 0 .. DayLen - 1
    BY <1>8, HourType
  <2>2. uptime' \in 0 .. MinUptime /\ rebooted' \in BOOLEAN
    BY <1>8 DEF Hour, TypeOK
  <2>3. TypeOK'
    BY <1>8, <2>1, <2>2
       DEF Hour, TypeOK, LinkTypeOK, Instants, QuietCap,
           linkVars, managerVars, monitorVars, radioVars, ghostVars
  <2> QED
    BY <1>8, <2>3, StillLink DEF Hour, linkVars, managerVars, monitorVars, ghostVars
<1>9. CASE UNCHANGED vars
  <2>1. TypeOK'
    BY <1>9 DEF vars, TypeOK, LinkTypeOK, Instants, QuietCap,
                linkVars, managerVars, monitorVars, radioVars, ghostVars, nightVars
  <2> QED
    BY <1>9, <2>1, StillLink DEF vars, linkVars, managerVars, monitorVars, ghostVars
<1> QED
  BY <1>1, <1>2, <1>3, <1>4, <1>5, <1>6, <1>7, <1>8, <1>9 DEF Next

\* What the two baselines of the monitor stand for, whatever the network, the
\* operator and the power do, for every range of the counter.
THEOREM LinkInvariant == Spec => []LinkInv
<1>1. Init => LinkInv
  BY LinkInit
<1>2. LinkInv /\ [Next]_vars => LinkInv'
  BY LinkStep
<1> QED
  BY <1>1, <1>2, PTL DEF Spec

-----------------------------------------------------------------------------
(* What follows for the operator                                           *)

LEMMA PaceIsKept ==
  ASSUME LinkInv, mode = "Sta"
  PROVE  LET spacing == IF reconnecting THEN RetryIntervalMs ELSE GraceMs
             since   == IF connected THEN 0 ELSE quiet
             turned  == reconnecting /\ Since(downSinceMs) < since
             turn    == IF turned THEN GraceMs + MaxLag - 1 ELSE 0
         IN  /\ since < spacing + turn + MaxLag
             /\ Reconnects => since >= spacing
<1>1. /\ now \in Instants /\ downSinceMs \in Instants /\ lastTryMs \in Instants
      /\ quiet \in Nat /\ lag \in Nat /\ lag <= MaxLag
  BY CapIsNat DEF LinkInv, TypeOK, LinkTypeOK
<1>2. Since(now) = 0 /\ Since(downSinceMs) \in Nat /\ Since(lastTryMs) \in Nat
  BY <1>1, SinceNow, SinceType DEF Instants
<1>3. CASE connected
  BY <1>2, <1>3 DEF LinkInv, PaceInv, HealthyIsFresh, Reconnects, DownSince
<1>4. CASE ~connected /\ ~reconnecting
  BY <1>1, <1>2, <1>4 DEF LinkInv, PaceInv, FirstGrace, Reconnects, DownSince
<1>5. CASE ~connected /\ reconnecting
  BY <1>1, <1>2, <1>5 DEF LinkInv, PaceInv, RetryPace, Reconnects, LastTry
<1> QED
  BY <1>3, <1>4, <1>5

\* WifiLinkMonitor::update, for every grace, interval and range of the counter:
\* a link that stays down is asked at the grace and then at the interval, for
\* as long as it takes, and never sooner.
THEOREM RetriesAlwaysKeepPace == Spec => RetriesKeepPace
<1>1. LinkInv /\ [Next]_vars =>
        [ LET spacing == IF reconnecting THEN RetryIntervalMs ELSE GraceMs
              since   == IF connected THEN 0 ELSE quiet
              turned  == reconnecting /\ Since(downSinceMs) < since
              turn    == IF turned THEN GraceMs + MaxLag - 1 ELSE 0
          IN  mode = "Sta" =>
                /\ since < spacing + turn + MaxLag
                /\ Pass /\ Reconnects => since >= spacing ]_vars
  BY PaceIsKept
<1> QED
  BY <1>1, LinkInvariant, PTL DEF Spec, RetriesKeepPace

\* WifiManager::tick: on the pass that finds a link back the name is announced
\* if a pass has seen the outage as old as the grace, and not otherwise.
THEOREM AnnouncesMatchOutages == Spec => AnnounceMatchesOutage
<1>1. LinkInv => (mode = "Sta" /\ up => (Announces <=> stale))
  BY DEF LinkInv, PaceInv, HealthyIsFresh, FirstGrace, RetryPace, Announces,
         TypeOK, LinkTypeOK
<1>2. LinkInv => [Pass /\ mode = "Sta" /\ up => (Announces <=> stale)]_vars
  BY <1>1
<1> QED
  BY <1>2, LinkInvariant, PTL DEF AnnounceMatchesOutage

\* Every variable keeps its type; no ghost of an outage outgrows its cap.
THEOREM ConnectivityTypes == Spec => []TypeOK
<1>1. LinkInv => TypeOK
  BY DEF LinkInv
<1> QED
  BY <1>1, LinkInvariant, PTL

-----------------------------------------------------------------------------
(* The night                                                               *)

NightTypeOK ==
  /\ rebooted \in BOOLEAN
  /\ hour \in 0 .. DayLen - 1 /\ uptime \in 0 .. MinUptime

UpSinceReboot == rebooted => uptime <= hour

NightInv == NightTypeOK /\ UpSinceReboot

-----------------------------------------------------------------------------
(* The invariant                                                           *)

LEMMA NightInit == ASSUME Init PROVE NightInv
<1>1. hour \in 0 .. DayLen - 1 /\ uptime = 0 /\ rebooted = FALSE
  BY Zenon DEF Init
<1>2. MinUptime \in Nat
  BY ConnectivityAssumption
<1>3. uptime \in 0 .. MinUptime
  BY <1>1, <1>2
<1> QED
  BY Zenon, <1>1, <1>3 DEF NightInv, NightTypeOK, UpSinceReboot

\* A reset begins a new uptime and leaves the night as it is.
LEMMA BootNight ==
  ASSUME NightInv, NEW name, NEW word, NEW keepsTime, Boot(name, word, keepsTime),
         rebooted' \in BOOLEAN
  PROVE  NightInv'
<1>1. uptime' = 0 /\ hour' = hour
  BY Zenon DEF Boot
<1>2. MinUptime \in Nat
  BY ConnectivityAssumption
<1> QED
  BY <1>1, <1>2 DEF NightInv, NightTypeOK, UpSinceReboot

\* The day's turn forgets the reboot; until then both grow together.
LEMMA HourNight == ASSUME NightInv, Hour PROVE NightInv'
<1>1. hour \in Nat /\ uptime \in Nat /\ DayLen \in Int /\ MinUptime \in Nat
      /\ hour < DayLen /\ uptime <= MinUptime
  BY ConnectivityAssumption DEF NightInv, NightTypeOK
<1>2. CASE hour = DayLen - 1
  <2>1. hour' = 0
    <3>1. hour + 1 = DayLen /\ DayLen > 0
      BY <1>1, <1>2
    <3>2. DayLen % DayLen = 0
      BY <1>1, <3>1
    <3>3. hour' = (hour + 1) % DayLen
      BY Zenon DEF Hour
    <3> QED
      BY <3>1, <3>2, <3>3
  <2>2. rebooted' = FALSE
    BY <2>1 DEF Hour
  <2>3. uptime' \in 0 .. MinUptime
    BY <1>1 DEF Hour
  <2>4. hour' \in 0 .. DayLen - 1
    BY <1>1, <1>2, <2>1
  <2> QED
    BY Zenon, <2>2, <2>3, <2>4 DEF NightInv, NightTypeOK, UpSinceReboot
<1>3. CASE hour # DayLen - 1
  <2>1. hour' = hour + 1
    BY <1>1, <1>3 DEF Hour
  <2>2. rebooted' \in BOOLEAN /\ (rebooted' => rebooted)
    BY DEF Hour, NightInv, NightTypeOK
  <2>3. uptime' \in 0 .. MinUptime /\ uptime' <= uptime + 1
    BY <1>1 DEF Hour
  <2> QED
    BY <1>1, <1>3, <2>1, <2>2, <2>3 DEF NightInv, NightTypeOK, UpSinceReboot
<1> QED
  BY <1>2, <1>3

LEMMA NightStep == ASSUME NightInv, [Next]_vars PROVE NightInv'
<1>1. CASE UNCHANGED nightVars
  BY <1>1 DEF nightVars, NightInv, NightTypeOK, UpSinceReboot
<1>2. CASE NightlyReboot
  BY <1>2, BootNight DEF NightlyReboot
<1>3. CASE Reset
  <2>1. rebooted' \in BOOLEAN
    BY <1>3 DEF Reset, NightInv, NightTypeOK
  <2> QED
    BY <1>3, <2>1, BootNight DEF Reset
<1>4. ASSUME NEW p \in Posts, PowerLossInPost(p) PROVE NightInv'
  <2>1. rebooted' \in BOOLEAN
    BY <1>4 DEF PowerLossInPost, NightInv, NightTypeOK
  <2> QED
    BY <1>4, <2>1, BootNight DEF PowerLossInPost
<1>5. CASE Hour
  BY <1>5, HourNight
<1> QED
  <2>1. ASSUME NEW p \in Posts, PostSettings(p) PROVE UNCHANGED nightVars
    BY <2>1 DEF PostSettings
  <2>2. Pass \/ Radio \/ Sntp \/ UNCHANGED vars => UNCHANGED nightVars
    BY DEF Pass, Radio, Sntp, vars
  <2> QED
    BY <1>1, <1>2, <1>3, <1>4, <1>5, <2>1, <2>2 DEF Next

THEOREM NightInvariant == Spec => []NightInv
<1>1. Init => NightInv
  BY NightInit
<1>2. NightInv /\ [Next]_vars => NightInv'
  BY NightStep
<1> QED
  BY <1>1, <1>2, PTL DEF Spec

-----------------------------------------------------------------------------
(* Once a night                                                            *)

\* Whoever has rebooted in this night has not been up for long enough within
\* the window.
LEMMA RebootIsFirst == ASSUME NightInv, NightlyReboot PROVE ~rebooted
<1>1. uptime >= MinUptime /\ hour < WindowLen
  BY DEF NightlyReboot, Due
<1>2. WindowLen \in Int /\ MinUptime \in Int /\ hour \in Int /\ uptime \in Int
  BY ConnectivityAssumption DEF NightInv, NightTypeOK
<1> QED
  BY <1>1, <1>2, ConnectivityAssumption DEF NightInv, UpSinceReboot

\* NightlyReboot::due, for every window shorter than the minimum uptime: a
\* night sees one reboot of its own, whatever other resets come between.
THEOREM RebootsOncePerNight == Spec => OncePerNight
<1>1. NightInv => [NightlyReboot => ~rebooted]_vars
  BY RebootIsFirst
<1> QED
  BY <1>1, NightInvariant, PTL DEF OncePerNight
=============================================================================
