-------------------------- MODULE FlowWatch_proofs --------------------------
(***************************************************************************)
(* Theorems about FlowWatch, for every rate of flow, threshold, grace,     *)
(* window and cap.  None of its properties is inductive.  What they need   *)
(* is, of each timer and each count of the code, of what it is the time or *)
(* the count: the grace's timer is the time the pump has turned (RunInv),  *)
(* the rate's window is the meter's own last pulses (RateInv), and so is   *)
(* what each of the two gates and the rest window have counted (GateInv,   *)
(* ArmedInv, RestInv).  FloodInv and LeakInv say how far each detector     *)
(* must have come for as long as the flow it looks for has lasted.         *)
(***************************************************************************)
EXTENDS FlowWatch, TLAPS

-----------------------------------------------------------------------------
(* The invariant                                                           *)

\* Differences of a counter: more was counted in a longer time.
Counts(diff, limit) ==
  /\ diff \in [0 .. limit -> Nat] /\ diff[0] = 0
  /\ \A m, n \in 0 .. limit : m <= n => diff[m] <= diff[n]

MeterCounts == Counts(past, History) /\ Counts(window, RateSamples - 1)

\* What a pass may bring.
Beat(dt, p) == dt \in {0, 1} /\ p \in Nat /\ (dt = 0 => p = 0)

\* The detector knows of the pump, and the grace runs from its start.
RunInv ==
  /\ state \in Pumping => prevState = state
  /\ prevState = "Running" => running = runAge

\* A run's window begins with the run, and holds the last pulses.
RateInv ==
  /\ prevState = "Running" => span >= IF runAge < RateSamples - 1 THEN runAge ELSE RateSamples - 1
  /\ \A i \in 0 .. span : window[i] = past[i]

\* Dry units are units of the run without a pulse more than the least rate.
DryInv ==
  /\ dry <= running
  /\ \A n \in 0 .. dry : past[n] <= MinRunning * n

\* What a gate that still waits has seen, a burst at the latest so long ago.
Waiting(g, meter) ==
  /\ ~g.done
  /\ g.quiet < QuietTime /\ g.waited < DrainCap /\ g.quiet <= g.waited
  /\ g.counted = meter[g.quiet] /\ g.counted <= QuietPulses
  /\ g.quiet < g.waited => meter[g.quiet + 1] > 0

\* The idle check waits for its gate, or the run's tail is over.
ArmedInv ==
  prevState = "Idle" =>
    IF draining THEN Waiting(gate, past) /\ sincePump >= gate.waited
    ELSE sincePump >= idleAge + (IF calm THEN QuietTime ELSE DrainCap)

\* Of a flood as old as this, the gate or the window has had its share.
FloodInv ==
  flood > 0 =>
    /\ prevState = "Idle"
    /\ IF draining THEN flood <= gate.waited
       ELSE \/ flood <= idleAge
            \/ /\ flood <= DrainCap + idleAge
               /\ (IdleFaultPulses + 1) * idleAge <= idlePulses * IdleWindow

\* A zone is watched from its close, while the pump rests.
RestInv ==
  /\ phase # "Idle" => closed = restZone
  /\ phase = "Draining" => Waiting(restGate, past) /\ sincePump >= restGate.waited
  /\ phase = "Watching" => restPulses = past[restAge] /\ sincePump >= QuietTime + restAge

\* A leak is as old as the wait of the gate it keeps from opening.
LeakInv ==
  leak >= 0 =>
    /\ closed = restZone
    /\ leak < DrainCap => phase = "Draining" /\ restGate.waited = leak
    /\ leak = DrainCap => phase = "Idle" /\ restZone \in flagged

FlowInv ==
  /\ TypeOK /\ MeterCounts /\ RunInv /\ RateInv /\ DryInv /\ DryRunIsCaught
  /\ ArmedInv /\ FloodInv /\ RestInv /\ LeakInv

-----------------------------------------------------------------------------
(* The meter and the gate                                                  *)

LEMMA Sizes ==
  /\ QuietTime \in Nat \ {0} /\ QuietPulses \in Nat /\ DrainCap \in Nat \ {0}
  /\ QuietTime <= DrainCap
  /\ Surge \in Nat /\ Grace \in Nat \ {0} /\ MinRunning \in Nat
  /\ RateSamples \in Nat /\ RateSamples > 1 /\ RateSamples - 1 <= Grace
  /\ IdleWindow \in Nat \ {0} /\ IdleFaultPulses \in Nat /\ IdleWindow <= DrainCap
  /\ RestWindow \in Nat \ {0} /\ MaxRestPulses \in Nat /\ QuietTime <= RestWindow
  /\ NoZone \notin Zones
BY GateAssumption, FlowAssumption

\* The history is as long as every look back.
LEMMA HistoryCovers ==
  /\ History \in Nat
  /\ QuietTime <= History /\ RestWindow <= History /\ RateSamples - 1 <= History
  /\ LongAgo \in Nat
  /\ DrainCap + IdleWindow <= LongAgo /\ DrainCap + RestWindow <= LongAgo
BY Sizes DEF History, LongAgo, Longer

\* A pass adds its pulses to every difference, and looks further back by its
\* own time.
LEMMA LaterAdds ==
  ASSUME NEW limit \in Nat, NEW diff, Counts(diff, limit), NEW dt, NEW p, Beat(dt, p)
  PROVE  /\ Counts(Later(diff, dt, p), limit)
         /\ \A n \in 0 .. limit : n + dt <= limit => Later(diff, dt, p)[n + dt] = diff[n] + p
<1>1. CASE dt = 0
  BY <1>1 DEF Later, Counts, Beat
<1>2. CASE dt = 1
  <2>. DEFINE next == [n \in 0 .. limit |-> IF n = 0 THEN 0 ELSE diff[n - 1] + p]
  <2>0. /\ p \in Nat /\ diff \in [0 .. limit -> Nat]
        /\ \A m, n \in 0 .. limit : m <= n => diff[m] <= diff[n]
    BY DEF Beat, Counts
  <2>1. Later(diff, dt, p) = next
    BY <1>2, <2>0 DEF Later
  <2>2. next \in [0 .. limit -> Nat] /\ next[0] = 0
    BY <2>0
  <2>3. \A n \in 0 .. limit : n + 1 <= limit => next[n + 1] = diff[n] + p
    BY <2>0
  <2>4. ASSUME NEW m \in 0 .. limit, NEW n \in 0 .. limit, m <= n
        PROVE  next[m] <= next[n]
    <3>1. CASE m = 0
      BY <2>0, <3>1
    <3>2. CASE m > 0
      <4>1. m - 1 \in 0 .. limit /\ n - 1 \in 0 .. limit /\ m - 1 <= n - 1
        BY <2>4, <3>2
      <4>2. diff[m - 1] <= diff[n - 1] /\ diff[m - 1] \in Nat /\ diff[n - 1] \in Nat
        BY <2>0, <4>1
      <4>. QED  BY <2>0, <2>4, <3>2, <4>2
    <3>. QED  BY <3>1, <3>2
  <2>. HIDE DEF next
  <2>5. Counts(next, limit)
    BY <2>2, <2>4 DEF Counts
  <2>. QED  BY <1>2, <2>1, <2>3, <2>5
<1>. QED  BY <1>1, <1>2 DEF Beat

\* A look at a gate that waits: it waits on, or the meter was quiet for its
\* time, or the cap is reached and there was a burst not long ago.
LEMMA GateLooks ==
  ASSUME NEW g \in Gates, ~g.done, g.quiet < QuietTime, g.waited < DrainCap,
         g.counted <= QuietPulses,
         NEW dt \in {0, 1}, NEW p \in Nat
  PROVE  LET n == drained(g, dt, p)
             burst == g.counted + p > QuietPulses
         IN  \/ /\ n.done /\ ~n.capped /\ n = Done(FALSE)
                /\ ~burst /\ g.quiet + dt = QuietTime
             \/ /\ n.done /\ n.capped /\ n = Done(TRUE)
                /\ g.waited + dt = DrainCap
                /\ burst \/ g.quiet + dt < QuietTime
             \/ /\ ~n.done /\ n \in Gates
                /\ n.waited = g.waited + dt /\ n.waited < DrainCap
                /\ n.quiet = (IF burst THEN 0 ELSE g.quiet + dt) /\ n.quiet < QuietTime
                /\ n.counted = (IF burst THEN 0 ELSE g.counted + p)
<1>. DEFINE counted == g.counted + p
            burst == counted > QuietPulses
            quiet == IF burst THEN 0 ELSE g.quiet + dt
            waited == g.waited + dt
            on == [g EXCEPT !.counted = IF burst THEN 0 ELSE counted,
                            !.quiet = quiet, !.waited = waited]
<1>0. g.counted \in 0 .. QuietPulses + 1 /\ g.quiet \in Nat /\ g.waited \in Nat
  BY GateAssumption DEF Gates
<1>1. CASE quiet >= QuietTime
  <2>1. ~(quiet < QuietTime)
    BY <1>0, <1>1, GateAssumption
  <2>3. drained(g, dt, p) = Done(FALSE)
    BY <1>1, <2>1 DEF drained
  <2>2. ~burst /\ g.quiet + dt = QuietTime
    BY <1>0, <1>1, GateAssumption
  <2>4. Done(FALSE).done /\ ~Done(FALSE).capped
    BY DEF Done
  <2>. HIDE DEF quiet, waited, counted, burst, on
  <2>. QED  BY <2>2, <2>3, <2>4, Zenon DEF burst, counted
<1>2. CASE quiet < QuietTime /\ waited >= DrainCap
  <2>1. drained(g, dt, p) = Done(TRUE)
    <3>1. ~(quiet >= QuietTime)
      BY <1>0, <1>2, GateAssumption
    <3>. QED  BY <3>1, <1>2 DEF drained
  <2>2. g.waited + dt = DrainCap /\ (burst \/ g.quiet + dt < QuietTime)
    BY <1>0, <1>2, GateAssumption
  <2>3. Done(TRUE).done /\ Done(TRUE).capped
    BY DEF Done
  <2>. HIDE DEF quiet, waited, counted, burst, on
  <2>. QED  BY <2>1, <2>2, <2>3, Zenon DEF burst, counted
<1>3. CASE quiet < QuietTime /\ waited < DrainCap
  <2>1. ~(quiet >= QuietTime) /\ ~(waited >= DrainCap)
    BY <1>0, <1>3, GateAssumption
  <2>2. drained(g, dt, p) = on
    BY <2>1 DEF drained
  <2>3. on.done = g.done /\ on.waited = waited /\ on.quiet = quiet
        /\ on.counted = IF burst THEN 0 ELSE counted
    BY DEF Gates
  <2>4. on \in Gates
    <3>1. waited \in 0 .. DrainCap /\ quiet \in 0 .. QuietTime
      BY <1>0, <1>3, GateAssumption
    <3>2. (IF burst THEN 0 ELSE counted) \in 0 .. QuietPulses + 1
      BY <1>0, GateAssumption
    <3>. HIDE DEF waited, quiet, counted, burst
    <3>. QED  BY <3>1, <3>2 DEF Gates
  <2>. QED  BY <1>3, <2>2, <2>3, <2>4, Zenon
<1>. QED
  <2>1. quiet \in Int /\ waited \in Int /\ QuietTime \in Int /\ DrainCap \in Int
    BY <1>0, GateAssumption
  <2>2. \/ quiet >= QuietTime
        \/ quiet < QuietTime /\ waited >= DrainCap
        \/ quiet < QuietTime /\ waited < DrainCap
    BY <2>1
  <2>. QED  BY <1>1, <1>2, <1>3, <2>2, Zenon

\* So what a waiting gate knows of the meter stays true while it waits; it
\* opens on a meter that was quiet, or is capped by one that was not.
LEMMA GateWaitsOn ==
  ASSUME NEW g \in Gates, NEW meter, Counts(meter, History), Waiting(g, meter),
         NEW dt, NEW p, Beat(dt, p)
  PROVE  LET n    == drained(g, dt, p)
             next == Later(meter, dt, p)
         IN  \/ /\ ~n.done /\ n \in Gates /\ Waiting(n, next)
                /\ n.waited = g.waited + dt
             \/ /\ n.done /\ ~n.capped /\ n = Done(FALSE)
                /\ QuietTime <= g.waited + dt /\ next[QuietTime] <= QuietPulses
                /\ p <= QuietPulses /\ dt = 1
             \/ /\ n.done /\ n.capped /\ n = Done(TRUE)
                /\ g.waited + dt = DrainCap
                /\ \E k \in 1 .. QuietTime : next[k] > 0
<1>. DEFINE n == drained(g, dt, p)
            next == Later(meter, dt, p)
            burst == g.counted + p > QuietPulses
<1>1. /\ g.counted \in Nat /\ g.quiet \in Nat /\ g.waited \in Nat
      /\ QuietTime \in Nat \ {0} /\ QuietPulses \in Nat /\ DrainCap \in Nat
      /\ QuietTime <= DrainCap /\ History \in Nat /\ QuietTime <= History
  BY Sizes, HistoryCovers DEF Gates
<1>0. dt \in {0, 1} /\ dt \in Nat /\ p \in Nat /\ (dt = 0 => p = 0)
  BY DEF Beat
<1>2. /\ ~g.done /\ g.quiet < QuietTime /\ g.waited < DrainCap /\ g.quiet <= g.waited
      /\ g.counted = meter[g.quiet] /\ g.counted <= QuietPulses
      /\ g.quiet < g.waited => meter[g.quiet + 1] > 0
  BY DEF Waiting
<1>3. /\ Counts(next, History)
      /\ \A m \in 0 .. History : m + dt <= History => next[m + dt] = meter[m] + p
  <2>1. History \in Nat
    BY HistoryCovers
  <2>. QED  BY <2>1, LaterAdds
<1>. HIDE DEF next
<1>10. meter \in [0 .. History -> Nat] /\ meter[0] = 0 /\ next[0] = 0
  BY <1>3 DEF Counts
<1>4. next[g.quiet + dt] = g.counted + p
  <2>1. g.quiet \in 0 .. History /\ g.quiet + dt <= History
    BY <1>0, <1>1, <1>2
  <2>. QED  BY <2>1, <1>2, <1>3, Zenon
<1>5. burst => p > 0 /\ dt = 1 /\ next[1] = p
  <2>1. burst => p > 0 /\ dt = 1
    BY <1>0, <1>1, <1>2
  <2>2. dt = 1 => next[0 + 1] = meter[0] + p
    BY <1>1, <1>3
  <2>. QED  BY <1>0, <1>10, <2>1, <2>2
<1>6. g.quiet < g.waited /\ g.quiet + dt < QuietTime => next[g.quiet + dt + 1] > 0
  <2>. SUFFICES ASSUME g.quiet < g.waited, g.quiet + dt < QuietTime
                PROVE  next[g.quiet + dt + 1] > 0
    OBVIOUS
  <2>1. g.quiet + 1 \in 0 .. History /\ (g.quiet + 1) + dt <= History
    BY <1>0, <1>1
  <2>2. next[(g.quiet + 1) + dt] = meter[g.quiet + 1] + p
    BY <1>3, <2>1, Zenon
  <2>3. meter[g.quiet + 1] \in Nat /\ meter[g.quiet + 1] > 0
    BY <1>2, <1>10, <2>1
  <2>4. next[(g.quiet + 1) + dt] > 0 /\ (g.quiet + 1) + dt = g.quiet + dt + 1
    BY <1>0, <1>1, <2>2, <2>3
  <2>. QED  BY <2>4, Zenon
<1>7. CASE /\ n.done /\ ~n.capped /\ n = Done(FALSE)
           /\ ~burst /\ g.quiet + dt = QuietTime
  <2>1. QuietTime <= g.waited + dt /\ next[QuietTime] <= QuietPulses /\ p <= QuietPulses /\ dt = 1
    BY <1>0, <1>1, <1>2, <1>4, <1>7
  <2>. HIDE DEF n
  <2>. QED  BY <1>7, <2>1, Zenon DEF n, next
<1>8. CASE /\ n.done /\ n.capped /\ n = Done(TRUE)
           /\ g.waited + dt = DrainCap /\ (burst \/ g.quiet + dt < QuietTime)
  <2>. HIDE DEF n
  <2>1. \E k \in 1 .. QuietTime : next[k] > 0
    <3>1. CASE burst
      <4>1. next[1] > 0 /\ 1 \in 1 .. QuietTime
        BY <3>1, <1>0, <1>1, <1>5
      <4>. QED  BY <4>1, Zenon
    <3>2. CASE ~burst /\ g.quiet + dt < QuietTime
      <4>1. g.quiet < g.waited /\ g.quiet + dt + 1 \in 1 .. QuietTime
        <5>1. g.waited + dt = DrainCap
          BY <1>8, Zenon
        <5>. QED  BY <3>2, <5>1, <1>0, <1>1, <1>2
      <4>. QED  BY <3>2, <4>1, <1>6, Zenon
    <3>. QED  BY <1>8, <3>1, <3>2, Zenon
  <2>. QED  BY <1>8, <2>1, Zenon DEF n, next
<1>9. CASE /\ ~n.done /\ n \in Gates
           /\ n.waited = g.waited + dt /\ n.waited < DrainCap
           /\ n.quiet = (IF burst THEN 0 ELSE g.quiet + dt) /\ n.quiet < QuietTime
           /\ n.counted = (IF burst THEN 0 ELSE g.counted + p)
  <2>. HIDE DEF n
  <2>1. CASE burst
    <3>1. n.quiet = 0 /\ n.counted = 0
      BY <1>9, <2>1
    <3>2. next[n.quiet + 1] > 0 /\ n.counted = next[n.quiet]
      BY <3>1, <1>0, <1>5, <1>10, <2>1
    <3>3. n.quiet <= n.waited /\ n.counted <= QuietPulses
      BY <3>1, <1>0, <1>1, <1>9
    <3>. QED  BY <1>9, <3>2, <3>3, Zenon DEF Waiting, n, next
  <2>2. CASE ~burst
    <3>1. n.quiet = g.quiet + dt /\ n.counted = g.counted + p
      BY <1>9, <2>2
    <3>2. n.counted = next[n.quiet] /\ n.quiet <= n.waited /\ n.counted <= QuietPulses
      BY <3>1, <1>0, <1>1, <1>2, <1>4, <1>9, <2>2
    <3>3. n.quiet < n.waited => next[n.quiet + 1] > 0
      <4>1. n.quiet < n.waited => g.quiet < g.waited
        BY <3>1, <1>0, <1>1, <1>9
      <4>. QED  BY <4>1, <3>1, <1>6, <1>9
    <3>. QED  BY <1>9, <3>2, <3>3, Zenon DEF Waiting, n, next
  <2>. QED  BY <2>1, <2>2, Zenon
<1>. QED
  <2>1. \/ /\ n.done /\ ~n.capped /\ n = Done(FALSE)
           /\ ~burst /\ g.quiet + dt = QuietTime
        \/ /\ n.done /\ n.capped /\ n = Done(TRUE)
           /\ g.waited + dt = DrainCap /\ (burst \/ g.quiet + dt < QuietTime)
        \/ /\ ~n.done /\ n \in Gates
           /\ n.waited = g.waited + dt /\ n.waited < DrainCap
           /\ n.quiet = (IF burst THEN 0 ELSE g.quiet + dt) /\ n.quiet < QuietTime
           /\ n.counted = (IF burst THEN 0 ELSE g.counted + p)
    BY <1>0, <1>2, GateLooks, Zenon
  <2>. QED  BY <1>7, <1>8, <1>9, <2>1, Zenon

LEMMA OpenWaits ==
  ASSUME NEW meter, meter[0] = 0
  PROVE  open \in Gates /\ Waiting(open, meter) /\ open.waited = 0
BY Sizes DEF open, Gates, Waiting

LEMMA DoneIsGate == \A capped \in BOOLEAN : Done(capped) \in Gates
BY Sizes DEF Done, Gates

-----------------------------------------------------------------------------
(* A pass                                                                  *)

\* A pass whose tick leaves the controller in s, and which ends in t.
PassTo(s, t, dt, p) ==
  /\ s \in After(state) /\ t \in Final(s, Verdict(s, dt, p))
  /\ zone' \in RunZones(s)
  /\ Sample(s, dt, p)
  /\ DetectFlow(s, dt, p)
  /\ fault' = IF Verdict(s, dt, p) # "None" THEN Verdict(s, dt, p) ELSE fault
  /\ state' = t
  /\ WatchValves(t, zone', dt, p)
  /\ Witness(s, t, dt, p)
  /\ UNCHANGED muted

LEMMA PassGoesTo ==
  ASSUME NEW dt, NEW p, Pass(dt, p)
  PROVE  \E s, t : PassTo(s, t, dt, p)
BY Zenon DEF Pass, PassTo

LEMMA Verdicts ==
  \A s, dt, p : Verdict(s, dt, p) \in {"None", "NoFlow", "UnexpectedFlow"}
BY DEF Verdict

\* Where a pass may lead: the verdicts and the watchdog can only end a run.
LEMMA PassPath ==
  ASSUME TypeOK, RunInv, NEW s, NEW t, NEW dt, NEW p, PassTo(s, t, dt, p)
  PROVE  /\ s \in States /\ t \in States /\ state' = t /\ prevState' = s
         /\ t = s \/ t \in {"StopPump", "Fault"}
         /\ Verdict(s, dt, p) # "None" => t = "Fault"
         /\ (t = "Fault") <=> (Verdict(s, dt, p) # "None" \/ state = "Fault")
         /\ s = "Running" => state \in Pumping
         /\ s = "Running" /\ prevState = "Running" => state = "Running"
         /\ s = "Running" /\ prevState # "Running" => state = "StartPump"
         /\ s \in Pumping => t \notin Resting
<1>1. state \in States /\ s \in After(state) /\ t \in Final(s, Verdict(s, dt, p))
      /\ state' = t /\ prevState' = s
  BY Zenon DEF TypeOK, PassTo, DetectFlow
<1>2. /\ s \in States
      /\ s = "Running" => state \in Pumping
      /\ s = "Fault" <=> state = "Fault"
  BY <1>1 DEF After, States, Pumping
<1>3. /\ t \in States
      /\ t = s \/ t \in {"StopPump", "Fault"}
      /\ Verdict(s, dt, p) # "None" => t = "Fault"
      /\ t = "Fault" => Verdict(s, dt, p) # "None" \/ s = "Fault"
      /\ s = "Fault" => t = "Fault"
  BY <1>1, <1>2 DEF Final, States, Pumping
<1>4. /\ s = "Running" /\ prevState = "Running" => state = "Running"
      /\ s = "Running" /\ prevState # "Running" => state = "StartPump"
  BY <1>2 DEF RunInv, Pumping
<1>. QED  BY <1>1, <1>2, <1>3, <1>4 DEF Pumping, Resting

\* The meter goes on, under both its readers.
LEMMA MeterStep ==
  ASSUME TypeOK, MeterCounts, NEW s, NEW t, NEW dt, NEW p, Beat(dt, p), PassTo(s, t, dt, p)
  PROVE  /\ MeterCounts'
         /\ past' = Later(past, dt, p)
         /\ \A n \in 0 .. History : n + dt <= History => past'[n + dt] = past[n] + p
<1>1. past' = Later(past, dt, p)
  BY Zenon DEF PassTo, Witness
<1>2. Counts(past', History)
      /\ \A n \in 0 .. History : n + dt <= History => past'[n + dt] = past[n] + p
  BY <1>1, LaterAdds, HistoryCovers DEF MeterCounts
<1>3. Counts(window', RateSamples - 1)
  <2>1. RateSamples - 1 \in Nat
    BY Sizes
  <2>2. CASE Entering("Running", prevState, s)
    <3>1. window' = None(RateSamples - 1)
      BY <2>2, Zenon DEF PassTo, Sample, resetAccumulation
    <3>. QED  BY <2>1, <3>1 DEF None, Counts
  <2>3. CASE ~Entering("Running", prevState, s)
    <3>1. window' = Later(window, dt, p)
      BY <2>3, Zenon DEF PassTo, Sample, Sampled
    <3>. QED  BY <2>1, <3>1, LaterAdds DEF MeterCounts
  <2>. QED  BY <2>2, <2>3, Zenon
<1>. QED  BY <1>1, <1>2, <1>3, Zenon DEF MeterCounts

\* The grace.
LEMMA RunStep ==
  ASSUME TypeOK, RunInv, NEW s, NEW t, NEW dt, NEW p, Beat(dt, p), PassTo(s, t, dt, p)
  PROVE  RunInv' /\ runAge' \in 0 .. Grace /\ running' \in 0 .. Grace
<1>1. /\ prevState' = s /\ state' = t /\ (t = s \/ t \in {"StopPump", "Fault"})
      /\ s = "Running" /\ prevState = "Running" => state = "Running"
      /\ s = "Running" /\ prevState # "Running" => state = "StartPump"
  BY PassPath, Zenon
<1>2. runAge' = (IF s = "Running" /\ prevState # "Running" THEN 0 ELSE UpTo(Grace, runAge + dt))
  BY Zenon DEF PassTo, DetectFlow, RunAge, Entering
<1>3. running' = (IF state = "Running" /\ s = "Running" THEN UpTo(Grace, running + dt) ELSE 0)
  BY Zenon DEF PassTo, Witness
<1>4. runAge \in Nat /\ running \in Nat /\ dt \in Nat /\ Grace \in Nat
  BY Sizes DEF TypeOK, Beat
<1>5. UpTo(Grace, runAge + dt) \in 0 .. Grace /\ UpTo(Grace, running + dt) \in 0 .. Grace
  BY <1>4 DEF UpTo
<1>6. runAge' \in 0 .. Grace /\ running' \in 0 .. Grace
  BY <1>2, <1>3, <1>4, <1>5
<1>7. ASSUME t \in Pumping PROVE s = t
  BY <1>1, <1>7 DEF Pumping
<1>8. ASSUME s = "Running" PROVE running' = runAge'
  BY <1>1, <1>2, <1>3, <1>8 DEF RunInv
<1>. QED  BY <1>1, <1>6, <1>7, <1>8 DEF RunInv

\* The rate's window.
LEMMA RateStep ==
  ASSUME TypeOK, MeterCounts, RunInv, RateInv,
         NEW s, NEW t, NEW dt, NEW p, Beat(dt, p), PassTo(s, t, dt, p)
  PROVE  RateInv' /\ span' \in 0 .. RateSamples - 1
<1>0. /\ RateSamples - 1 \in Nat /\ RateSamples - 1 <= History /\ History \in Nat
      /\ span \in 0 .. RateSamples - 1 /\ runAge \in Nat /\ dt \in {0, 1} /\ dt \in Nat
      /\ Grace \in Nat /\ p \in Nat
  BY Sizes, HistoryCovers DEF TypeOK, Beat
<1>1. /\ Counts(past, History) /\ Counts(window, RateSamples - 1)
      /\ past' = Later(past, dt, p) /\ Counts(past', History)
      /\ \A n \in 0 .. History : n + dt <= History => past'[n + dt] = past[n] + p
  BY MeterStep DEF MeterCounts
<1>2. prevState' = s /\ runAge' = RunAge(s, dt)
  BY Zenon DEF PassTo, DetectFlow
<1>3. CASE Entering("Running", prevState, s)
  <2>1. span' = 0 /\ window' = None(RateSamples - 1)
    BY <1>3, Zenon DEF PassTo, Sample, resetAccumulation
  <2>2. runAge' = 0
    BY <1>2, <1>3, Zenon DEF RunAge
  <2>3. window'[0] = 0 /\ past'[0] = 0
    BY <1>0, <1>1, <2>1 DEF None, Counts
  <2>4. \A i \in 0 .. span' : window'[i] = past'[i]
    BY <2>1, <2>3
  <2>. QED  BY <1>0, <2>1, <2>2, <2>4 DEF RateInv
<1>4. CASE ~Entering("Running", prevState, s)
  <2>1. span' = UpTo(RateSamples - 1, span + dt) /\ window' = Later(window, dt, p)
    BY <1>4, Zenon DEF PassTo, Sample, Sampled
  <2>2. /\ Counts(window', RateSamples - 1)
        /\ \A n \in 0 .. RateSamples - 1 :
              n + dt <= RateSamples - 1 => window'[n + dt] = window[n] + p
    BY <1>0, <1>1, <2>1, LaterAdds
  <2>3. span' \in 0 .. RateSamples - 1 /\ span' <= span + dt
        /\ (span' = span + dt \/ span' = RateSamples - 1)
    BY <1>0, <2>1 DEF UpTo
  <2>4. ASSUME NEW i \in 0 .. span'
        PROVE  window'[i] = past'[i]
    <3>1. CASE i < dt
      <4>1. i = 0
        BY <1>0, <2>3, <3>1
      <4>. QED  BY <4>1, <1>1, <2>2 DEF Counts
    <3>2. CASE i >= dt
      <4>. DEFINE j == i - dt
      <4>1. j \in 0 .. span /\ j \in 0 .. RateSamples - 1 /\ j \in 0 .. History
            /\ j + dt <= RateSamples - 1 /\ j + dt <= History /\ j + dt = i
        BY <1>0, <2>3, <3>2
      <4>2. window'[j + dt] = window[j] + p /\ past'[j + dt] = past[j] + p
        BY <1>1, <2>2, <4>1
      <4>3. window[j] = past[j]
        BY <4>1 DEF RateInv
      <4>. QED  BY <4>1, <4>2, <4>3, Zenon
    <3>. QED  BY <1>0, <2>3, <3>1, <3>2
  <2>5. ASSUME s = "Running"
        PROVE  span' >= IF runAge' < RateSamples - 1 THEN runAge' ELSE RateSamples - 1
    <3>1. prevState = "Running"
      BY <1>4, <2>5 DEF Entering
    <3>2. runAge' = UpTo(Grace, runAge + dt)
      BY <1>2, <1>4, Zenon DEF RunAge
    <3>3. span >= IF runAge < RateSamples - 1 THEN runAge ELSE RateSamples - 1
      BY <3>1 DEF RateInv
    <3>. QED  BY <1>0, <2>3, <3>2, <3>3 DEF UpTo
  <2>. QED  BY <1>2, <2>3, <2>4, <2>5 DEF RateInv
<1>. QED  BY <1>3, <1>4, Zenon

\* One more unit without the least rate.
LEMMA OneMoreUnit ==
  ASSUME NEW n \in Nat, n > 0
  PROVE  MinRunning * (n - 1) + MinRunning = MinRunning * n
BY Sizes

\* A dry pump.
LEMMA DryStep ==
  ASSUME TypeOK, MeterCounts, RunInv, DryInv,
         NEW s, NEW t, NEW dt, NEW p, Beat(dt, p), PassTo(s, t, dt, p)
  PROVE  DryInv' /\ dry' \in 0 .. RateSamples - 1
<1>0. /\ RateSamples - 1 \in Nat /\ RateSamples - 1 <= History /\ History \in Nat
      /\ RateSamples - 1 <= Grace
      /\ dry \in 0 .. RateSamples - 1 /\ running \in Nat /\ dt \in {0, 1} /\ dt \in Nat
      /\ Grace \in Nat /\ p \in Nat /\ MinRunning \in Nat
  BY Sizes, HistoryCovers DEF TypeOK, Beat
<1>1. /\ Counts(past, History) /\ Counts(past', History)
      /\ \A n \in 0 .. History : n + dt <= History => past'[n + dt] = past[n] + p
  BY MeterStep DEF MeterCounts
<1>2. running' \in Nat
  BY RunStep
<1>3. CASE ~(state = "Running" /\ t = "Running" /\ ~muted /\ p <= MinRunning)
  <2>1. dry' = 0
    BY <1>3, Zenon DEF PassTo, Witness
  <2>2. past'[0] <= MinRunning * 0
    BY <1>0, <1>1 DEF Counts
  <2>. QED  BY <1>0, <1>2, <2>1, <2>2 DEF DryInv
<1>4. CASE state = "Running" /\ t = "Running" /\ ~muted /\ p <= MinRunning
  <2>1. dry' = UpTo(RateSamples - 1, dry + dt)
    BY <1>4, Zenon DEF PassTo, Witness
  <2>2. s = "Running"
    BY <1>4, PassPath
  <2>3. running' = UpTo(Grace, running + dt)
    BY <1>4, <2>2, Zenon DEF PassTo, Witness
  <2>4. dry' \in 0 .. RateSamples - 1 /\ dry' <= dry + dt
    BY <1>0, <2>1 DEF UpTo
  <2>5. dry' <= running'
    BY <1>0, <2>1, <2>3 DEF UpTo, DryInv
  <2>6. ASSUME NEW n \in 0 .. dry'
        PROVE  past'[n] <= MinRunning * n
    <3>1. CASE n < dt
      <4>1. n = 0
        BY <1>0, <2>4, <3>1
      <4>. QED  BY <4>1, <1>0, <1>1 DEF Counts
    <3>2. CASE dt = 0
      <4>1. n \in 0 .. dry /\ n \in 0 .. History /\ n + 0 = n
        BY <1>0, <2>4, <3>2
      <4>2. past'[n] = past[n] + p /\ p = 0 /\ past[n] \in Nat
        BY <1>0, <1>1, <3>2, <4>1 DEF Counts, Beat
      <4>3. past[n] <= MinRunning * n
        BY <4>1 DEF DryInv
      <4>. QED  BY <4>2, <4>3
    <3>3. CASE n >= dt /\ dt = 1
      <4>. DEFINE m == n - 1
      <4>1. m \in 0 .. dry /\ m \in 0 .. History /\ m + dt = n /\ m + dt <= History
            /\ n \in Nat /\ n > 0
        BY <1>0, <2>4, <3>3
      <4>2. past'[n] = past[m] + p /\ past[m] \in Nat
        BY <1>1, <4>1 DEF Counts
      <4>3. past[m] <= MinRunning * m
        BY <4>1 DEF DryInv
      <4>4. MinRunning * m + MinRunning = MinRunning * n
        BY <4>1, OneMoreUnit
      <4>5. MinRunning * m \in Int /\ MinRunning * n \in Int
        BY <1>0, <4>1
      <4>. HIDE DEF m
      <4>. QED  BY <1>0, <1>4, <4>2, <4>3, <4>4, <4>5
    <3>. QED  BY <1>0, <2>4, <3>1, <3>2, <3>3
  <2>. QED  BY <2>4, <2>5, <2>6 DEF DryInv
<1>. QED  BY <1>3, <1>4, Zenon

\* The time since the pump, and what makes it calm.
LEMMA PumpRests ==
  ASSUME TypeOK, NEW s, NEW t, NEW dt, NEW p, Beat(dt, p), PassTo(s, t, dt, p)
  PROVE  /\ sincePump' \in 0 .. LongAgo /\ calm' \in BOOLEAN
         /\ s \notin Pumping =>
               /\ sincePump' = LongAgo \/ sincePump' = sincePump + dt
               /\ sincePump' <= sincePump + dt
               /\ calm => calm'
               /\ sincePump' >= QuietTime /\ past'[QuietTime] <= QuietPulses => calm'
<1>1. sincePump' = IF s \in Pumping THEN 0 ELSE UpTo(LongAgo, sincePump + dt)
  BY Zenon DEF PassTo, Witness
<1>2. calm' = /\ s \notin Pumping
              /\ calm \/ (sincePump' >= QuietTime /\ past'[QuietTime] <= QuietPulses)
  BY Zenon DEF PassTo, Witness
<1>3. LongAgo \in Nat /\ sincePump \in 0 .. LongAgo /\ dt \in Nat
  BY HistoryCovers DEF TypeOK, Beat
<1>4. /\ sincePump' \in 0 .. LongAgo
      /\ s \notin Pumping =>
            /\ sincePump' = LongAgo \/ sincePump' = sincePump + dt
            /\ sincePump' <= sincePump + dt
  BY <1>1, <1>3 DEF UpTo
<1>. QED  BY <1>2, <1>4, Zenon

\* The three ways of the idle check.
LEMMA IdleWays ==
  ASSUME NEW s, NEW dt, NEW p, DetectFlow(s, dt, p)
  PROVE  \/ s = "Idle" /\ prevState # "Idle" /\ gate' = open /\ draining'
            /\ idleAge' = 0 /\ idlePulses' = 0
         \/ s = "Idle" /\ prevState = "Idle" /\ draining
            /\ gate' = drained(gate, dt, p) /\ draining' = ~drained(gate, dt, p).done
            /\ idleAge' = 0 /\ idlePulses' = 0
         \/ s = "Idle" /\ prevState = "Idle" /\ ~draining /\ CountIdle(dt, p)
         \/ s # "Idle" /\ DropIdle
<1>1. CASE s = "Idle" /\ prevState # "Idle"
  <2>1. ArmingEdge(s) /\ Unarmed(s)
    BY <1>1, Zenon DEF ArmingEdge, Entering, Unarmed
  <2>2. WaitForDrain(s, dt, p)
    BY <1>1, <2>1 DEF DetectFlow
  <2>3. /\ gate' = open /\ draining' = ~open.done
        /\ idleAge' = 0 /\ idlePulses' = 0
    BY <2>1, <2>2 DEF WaitForDrain
  <2>4. ~open.done
    BY DEF open
  <2>. QED  BY <1>1, <2>3, <2>4, Zenon
<1>2. CASE s = "Idle" /\ prevState = "Idle" /\ draining
  <2>1. ~ArmingEdge(s) /\ Unarmed(s)
    BY <1>2, Zenon DEF ArmingEdge, Entering, Unarmed
  <2>2. WaitForDrain(s, dt, p)
    BY <1>2, <2>1 DEF DetectFlow
  <2>3. /\ gate' = drained(gate, dt, p) /\ draining' = ~drained(gate, dt, p).done
        /\ idleAge' = 0 /\ idlePulses' = 0
    BY <2>1, <2>2 DEF WaitForDrain
  <2>. QED  BY <1>2, <2>3, Zenon
<1>3. CASE s = "Idle" /\ prevState = "Idle" /\ ~draining
  <2>1. ~Unarmed(s)
    BY <1>3, Zenon DEF ArmingEdge, Entering, Unarmed
  <2>2. CountIdle(dt, p)
    BY <1>3, <2>1 DEF DetectFlow
  <2>. QED  BY <1>3, <2>2, Zenon
<1>4. CASE s # "Idle"
  <2>1. DropIdle
    BY <1>4 DEF DetectFlow
  <2>. QED  BY <1>4, <2>1, Zenon
<1>. QED  BY <1>1, <1>2, <1>3, <1>4, Zenon

IdleType ==
  /\ draining \in BOOLEAN /\ gate \in Gates
  /\ idleAge \in 0 .. IdleWindow - 1 /\ idlePulses \in 0 .. IdleFaultPulses + 1

\* The idle check is armed past the tail of the run.
LEMMA ArmedStep ==
  ASSUME TypeOK, MeterCounts, RunInv, ArmedInv,
         NEW s, NEW t, NEW dt, NEW p, Beat(dt, p), PassTo(s, t, dt, p)
  PROVE  ArmedInv' /\ IdleType'
<1>0. /\ prevState' = s /\ past' = Later(past, dt, p) /\ past'[0] = 0
      /\ Counts(past, History) /\ DetectFlow(s, dt, p)
  BY MeterStep, PassPath DEF MeterCounts, Counts, PassTo
<1>1. /\ sincePump \in 0 .. LongAgo /\ LongAgo \in Nat /\ dt \in {0, 1} /\ dt \in Nat
      /\ idleAge \in 0 .. IdleWindow - 1 /\ idlePulses \in 0 .. IdleFaultPulses + 1
      /\ p \in Nat /\ QuietTime \in Nat /\ DrainCap \in Nat /\ QuietTime <= DrainCap
      /\ IdleWindow \in Nat \ {0} /\ IdleFaultPulses \in Nat
      /\ DrainCap + IdleWindow <= LongAgo
  BY Sizes, HistoryCovers DEF TypeOK, Beat
<1>2. /\ sincePump' \in 0 .. LongAgo
      /\ s \notin Pumping =>
            /\ sincePump' = LongAgo \/ sincePump' = sincePump + dt
            /\ calm => calm'
            /\ sincePump' >= QuietTime /\ past'[QuietTime] <= QuietPulses => calm'
  BY PumpRests
<1>3. s = "Idle" => s \notin Pumping
  BY DEF Pumping
<1>4. CASE s = "Idle" /\ prevState # "Idle" /\ gate' = open /\ draining'
           /\ idleAge' = 0 /\ idlePulses' = 0
  <2>1. open \in Gates /\ Waiting(open, past') /\ open.waited = 0
    BY <1>0, OpenWaits
  <2>2. gate' \in Gates /\ Waiting(gate', past') /\ gate'.waited = 0
    BY <1>4, <2>1, Zenon
  <2>3. sincePump' >= gate'.waited
    BY <2>2, <1>2
  <2>4. idleAge' \in 0 .. IdleWindow - 1 /\ idlePulses' \in 0 .. IdleFaultPulses + 1
    BY <1>1, <1>4
  <2>5. draining' \in BOOLEAN
    BY <1>4, Zenon DEF DetectFlow
  <2>. QED  BY <1>4, <2>2, <2>3, <2>4, Zenon DEF ArmedInv, IdleType
<1>5. CASE s = "Idle" /\ prevState = "Idle" /\ draining
           /\ gate' = drained(gate, dt, p) /\ draining' = ~drained(gate, dt, p).done
           /\ idleAge' = 0 /\ idlePulses' = 0
  <2>1. gate \in Gates /\ Waiting(gate, past) /\ sincePump >= gate.waited
    BY <1>5, Zenon DEF TypeOK, ArmedInv
  <2>2. \/ /\ ~gate'.done /\ gate' \in Gates /\ Waiting(gate', past')
           /\ gate'.waited = gate.waited + dt
        \/ /\ gate'.done /\ gate' = Done(FALSE)
           /\ QuietTime <= gate.waited + dt /\ past'[QuietTime] <= QuietPulses
        \/ /\ gate'.done /\ gate' = Done(TRUE)
           /\ gate.waited + dt = DrainCap
    BY <1>0, <1>5, <2>1, GateWaitsOn
  <2>3. gate.waited \in Nat
    BY <2>1, <1>1 DEF Gates
  <2>4. idleAge' \in 0 .. IdleWindow - 1 /\ idlePulses' \in 0 .. IdleFaultPulses + 1
    BY <1>1, <1>5
  <2>5. draining' = ~gate'.done /\ draining' \in BOOLEAN
    BY <1>5, Zenon
  <2>6. CASE ~gate'.done /\ gate' \in Gates /\ Waiting(gate', past')
             /\ gate'.waited = gate.waited + dt
    <3>1. sincePump' >= gate'.waited
      <4>1. gate.waited + dt <= DrainCap
        BY <2>1, <2>3, <1>1 DEF Waiting
      <4>2. gate'.waited = gate.waited + dt
        BY <2>6, Zenon
      <4>. QED  BY <4>1, <4>2, <1>1, <1>2, <1>3, <1>5, <2>1, <2>3
    <3>. QED  BY <2>4, <2>5, <2>6, <3>1, Zenon DEF ArmedInv, IdleType
  <2>7. CASE gate'.done /\ gate' = Done(FALSE)
             /\ QuietTime <= gate.waited + dt /\ past'[QuietTime] <= QuietPulses
    <3>1. sincePump' >= QuietTime
      BY <1>1, <1>2, <1>3, <1>5, <2>1, <2>3, <2>7
    <3>2. calm'
      BY <1>2, <1>3, <1>5, <2>7, <3>1, Zenon
    <3>3. sincePump' >= idleAge' + QuietTime
      BY <1>1, <1>5, <1>2, <3>1
    <3>4. gate' \in Gates
      BY <2>7, DoneIsGate
    <3>. QED  BY <2>4, <2>5, <2>7, <3>2, <3>3, <3>4, Zenon DEF ArmedInv, IdleType
  <2>8. CASE gate'.done /\ gate' = Done(TRUE) /\ gate.waited + dt = DrainCap
    <3>1. sincePump' >= idleAge' + DrainCap /\ sincePump' >= idleAge' + QuietTime
      BY <1>1, <1>2, <1>3, <1>5, <2>1, <2>3, <2>8
    <3>2. gate' \in Gates
      BY <2>8, DoneIsGate
    <3>3. sincePump' >= idleAge' + (IF calm' THEN QuietTime ELSE DrainCap)
      BY <3>1, Zenon
    <3>. QED  BY <2>4, <2>5, <2>8, <3>2, <3>3, Zenon DEF ArmedInv, IdleType
  <2>. QED  BY <2>2, <2>6, <2>7, <2>8, Zenon
<1>6. CASE s = "Idle" /\ prevState = "Idle" /\ ~draining /\ CountIdle(dt, p)
  <2>1. /\ idleAge' = (IF WindowEnds(dt) THEN 0 ELSE idleAge + dt)
        /\ idlePulses' = (IF WindowEnds(dt) THEN 0 ELSE UpTo(IdleFaultPulses + 1, idlePulses + p))
        /\ draining' = draining /\ gate' = gate
    BY <1>6, Zenon DEF CountIdle
  <2>2. idleAge' \in 0 .. IdleWindow - 1 /\ idlePulses' \in 0 .. IdleFaultPulses + 1
        /\ idleAge' <= idleAge + dt
    BY <1>1, <2>1 DEF WindowEnds, UpTo
  <2>3. sincePump >= idleAge + (IF calm THEN QuietTime ELSE DrainCap)
    BY <1>6, Zenon DEF ArmedInv
  <2>6. sincePump' = LongAgo \/ sincePump' = sincePump + dt
    BY <1>2, <1>3, <1>6, Zenon
  <2>4. sincePump' >= idleAge' + (IF calm' THEN QuietTime ELSE DrainCap)
    <3>1. CASE calm
      <4>1. calm'
        BY <1>2, <1>3, <1>6, <3>1, Zenon
      <4>2. sincePump >= idleAge + QuietTime
        BY <2>3, <3>1, Zenon
      <4>3. sincePump' >= idleAge' + QuietTime
        BY <1>1, <2>2, <2>6, <4>2
      <4>. QED  BY <4>1, <4>3, Zenon
    <3>2. CASE ~calm
      <4>2. sincePump >= idleAge + DrainCap
        BY <2>3, <3>2, Zenon
      <4>3. sincePump' >= idleAge' + DrainCap /\ sincePump' >= idleAge' + QuietTime
        BY <1>1, <2>2, <2>6, <4>2
      <4>. QED  BY <4>3, Zenon
    <3>. QED  BY <3>1, <3>2, Zenon
  <2>5. gate' \in Gates /\ draining' \in BOOLEAN
    BY <2>1, Zenon DEF TypeOK
  <2>. QED  BY <1>6, <2>1, <2>2, <2>4, <2>5, Zenon DEF ArmedInv, IdleType
<1>7. CASE s # "Idle" /\ DropIdle
  <2>1. draining' = FALSE /\ gate' = Done(FALSE) /\ idleAge' = 0 /\ idlePulses' = 0
    BY <1>7, Zenon DEF DropIdle
  <2>2. gate' \in Gates /\ draining' \in BOOLEAN
    BY <2>1, DoneIsGate
  <2>3. idleAge' \in 0 .. IdleWindow - 1 /\ idlePulses' \in 0 .. IdleFaultPulses + 1
    BY <1>1, <2>1
  <2>. QED  BY <1>0, <1>7, <2>2, <2>3, Zenon DEF ArmedInv, IdleType
<1>. QED  BY <1>0, <1>4, <1>5, <1>6, <1>7, IdleWays, Zenon

\* A unit of flood brings its share of the threshold.
LEMMA FloodShare ==
  ASSUME NEW age \in Nat, NEW pulses \in Nat, NEW p \in Nat,
         (IdleFaultPulses + 1) * age <= pulses * IdleWindow,
         p * IdleWindow > IdleFaultPulses
  PROVE  (IdleFaultPulses + 1) * (age + 1) <= (pulses + p) * IdleWindow
<1>1. (IdleFaultPulses + 1) * (age + 1) = (IdleFaultPulses + 1) * age + (IdleFaultPulses + 1)
  BY Sizes
<1>2. (pulses + p) * IdleWindow = pulses * IdleWindow + p * IdleWindow
  BY Sizes
<1>3. /\ (IdleFaultPulses + 1) * age \in Int /\ pulses * IdleWindow \in Int
      /\ p * IdleWindow \in Int /\ IdleFaultPulses \in Int
  BY Sizes
<1>. QED  BY <1>1, <1>2, <1>3

\* A whole window of such units is above it.
LEMMA FloodFillsWindow ==
  ASSUME NEW pulses \in Nat, (IdleFaultPulses + 1) * IdleWindow <= pulses * IdleWindow
  PROVE  pulses > IdleFaultPulses
<1>. SUFFICES ASSUME pulses <= IdleFaultPulses PROVE FALSE
  BY Sizes
<1>. DEFINE short == IdleFaultPulses - pulses
<1>1. short \in Nat /\ IdleFaultPulses + 1 = pulses + (short + 1)
  BY Sizes
<1>2. short * IdleWindow >= 0
  BY <1>1, Sizes
<1>. HIDE DEF short
<1>3. (pulses + (short + 1)) * IdleWindow = pulses * IdleWindow + (short * IdleWindow + IdleWindow)
  BY <1>1, Sizes
<1>4. pulses * IdleWindow \in Int /\ short * IdleWindow \in Int /\ IdleWindow > 0
  BY <1>1, Sizes
<1>5. (pulses + (short + 1)) * IdleWindow <= pulses * IdleWindow
  BY <1>1, Zenon
<1>. QED  BY <1>2, <1>3, <1>4, <1>5, Sizes

\* Flow at rest: each unit is the gate's or counts in the window, and a full
\* window of it is a verdict.
LEMMA FloodStep ==
  ASSUME TypeOK, MeterCounts, RunInv, ArmedInv, FloodInv,
         NEW s, NEW t, NEW dt, NEW p, Beat(dt, p), PassTo(s, t, dt, p)
  PROVE  FloodInv' /\ flood' \in 0 .. FloodLimit
<1>. DEFINE floods == /\ {prevState, state, t} = {"Idle"} /\ ~muted
                      /\ dt = 0 \/ p > QuietPulses
                      /\ dt = 0 \/ p * IdleWindow > IdleFaultPulses
<1>0. /\ flood \in 0 .. FloodLimit /\ FloodLimit \in Nat /\ dt \in {0, 1} /\ dt \in Nat
      /\ idleAge \in 0 .. IdleWindow - 1 /\ idlePulses \in 0 .. IdleFaultPulses + 1
      /\ p \in Nat /\ DrainCap \in Nat /\ IdleWindow <= DrainCap
      /\ IdleWindow \in Nat \ {0} /\ IdleFaultPulses \in Nat /\ QuietPulses \in Nat
      /\ dt = 0 => p = 0
  BY Sizes DEF TypeOK, Beat, FloodLimit
<1>1. /\ prevState' = s /\ past' = Later(past, dt, p)
      /\ Counts(past, History) /\ DetectFlow(s, dt, p)
  BY MeterStep, PassPath DEF MeterCounts, PassTo
<1>2. flood' = IF floods THEN UpTo(FloodLimit, flood + dt) ELSE 0
  <2>1. flood' = IF /\ {prevState, state, t} = {"Idle"} /\ ~muted
                    /\ (dt = 0 \/ p > QuietPulses) /\ (dt = 0 \/ p * IdleWindow > IdleFaultPulses)
                   THEN UpTo(FloodLimit, flood + dt) ELSE 0
    BY Zenon DEF PassTo, Witness
  <2>. QED  BY <2>1, Zenon
<1>3. CASE ~floods
  <2>1. flood' = 0
    BY <1>2, <1>3, Zenon
  <2>. QED  BY <1>0, <2>1 DEF FloodInv
<1>4. CASE floods
  <2>1. flood' \in 0 .. FloodLimit /\ flood' <= flood + dt
    BY <1>0, <1>2, <1>4 DEF UpTo
  <2>2. s = "Idle" /\ prevState = "Idle" /\ t = "Idle"
    BY <1>4, PassPath
  <2>3. CASE draining /\ gate' = drained(gate, dt, p) /\ draining' = ~drained(gate, dt, p).done
             /\ idleAge' = 0 /\ idlePulses' = 0
    <3>1. gate \in Gates /\ Waiting(gate, past)
      BY <2>2, <2>3, Zenon DEF TypeOK, ArmedInv
    <3>2. gate.waited \in Nat /\ gate.waited < DrainCap
      BY <3>1, Sizes DEF Gates, Waiting
    <3>3. flood <= gate.waited
      BY <2>3, <3>2, <1>0 DEF FloodInv
    <3>4. \/ ~gate'.done /\ gate'.waited = gate.waited + dt
          \/ gate'.done /\ p <= QuietPulses /\ dt = 1
          \/ gate'.done /\ gate.waited + dt = DrainCap
      BY <1>1, <2>3, <3>1, GateWaitsOn
    <3>5. draining' = ~gate'.done
      BY <2>3, Zenon
    <3>6. CASE ~gate'.done /\ gate'.waited = gate.waited + dt
      <4>1. flood' <= gate'.waited
        <5>1. gate'.waited = gate.waited + dt
          BY <3>6, Zenon
        <5>. QED  BY <1>0, <2>1, <3>2, <3>3, <5>1
      <4>. QED  BY <1>1, <2>1, <2>2, <3>5, <3>6, <4>1, Zenon DEF FloodInv
    <3>7. CASE gate'.done /\ p <= QuietPulses /\ dt = 1
      BY <1>0, <1>4, <3>7
    <3>8. CASE gate'.done /\ gate.waited + dt = DrainCap
      <4>1. flood' <= DrainCap + idleAge'
            /\ (IdleFaultPulses + 1) * idleAge' <= idlePulses' * IdleWindow
        BY <1>0, <2>1, <2>3, <3>2, <3>3, <3>8
      <4>. QED  BY <1>1, <2>1, <2>2, <3>5, <3>8, <4>1, Zenon DEF FloodInv
    <3>. QED  BY <3>4, <3>6, <3>7, <3>8, Zenon
  <2>4. CASE ~draining /\ CountIdle(dt, p)
    <3>1. /\ idleAge' = (IF WindowEnds(dt) THEN 0 ELSE idleAge + dt)
          /\ idlePulses' = (IF WindowEnds(dt) THEN 0 ELSE UpTo(IdleFaultPulses + 1, idlePulses + p))
          /\ draining' = draining
      BY <2>4, Zenon DEF CountIdle
    <3>2. \/ flood <= idleAge
          \/ /\ flood <= DrainCap + idleAge
             /\ (IdleFaultPulses + 1) * idleAge <= idlePulses * IdleWindow
      BY <1>0, <2>4 DEF FloodInv
    <3>3. \/ flood' <= idleAge'
          \/ /\ flood' <= DrainCap + idleAge'
             /\ (IdleFaultPulses + 1) * idleAge' <= idlePulses' * IdleWindow
      <4>1. CASE dt = 0
        <5>1. ~WindowEnds(dt)
          BY <1>0, <4>1 DEF WindowEnds
        <5>2. idleAge' = idleAge /\ idlePulses' = idlePulses /\ flood' <= flood
          BY <1>0, <2>1, <3>1, <4>1, <5>1 DEF UpTo
        <5>3. flood \in Int /\ flood' \in Int
          BY <1>0, <2>1
        <5>. QED  BY <1>0, <3>2, <5>2, <5>3
      <4>2. CASE dt = 1 /\ ~WindowEnds(dt)
        <5>1. idleAge' = idleAge + 1 /\ idleAge + 1 < IdleWindow
          BY <1>0, <3>1, <4>2 DEF WindowEnds
        <5>2. CASE flood <= idleAge
          BY <1>0, <2>1, <4>2, <5>1, <5>2
        <5>3. CASE /\ flood <= DrainCap + idleAge
                   /\ (IdleFaultPulses + 1) * idleAge <= idlePulses * IdleWindow
          <6>1. (IdleFaultPulses + 1) * (idleAge + 1) <= (idlePulses + p) * IdleWindow
            BY <1>0, <1>4, <4>2, <5>3, FloodShare
          <6>2. idlePulses' = UpTo(IdleFaultPulses + 1, idlePulses + p)
            BY <3>1, <4>2, Zenon
          <6>3. CASE idlePulses + p > IdleFaultPulses + 1
            <7>1. idlePulses' = IdleFaultPulses + 1
              BY <6>2, <6>3, Zenon DEF UpTo
            <7>2. (IdleFaultPulses + 1) * (idleAge + 1) <= (IdleFaultPulses + 1) * IdleWindow
              <8>. DEFINE rest == IdleWindow - (idleAge + 1)
              <8>1. rest \in Nat /\ IdleWindow = (idleAge + 1) + rest
                BY <1>0, <5>1
              <8>2. (IdleFaultPulses + 1) * rest >= 0
                BY <1>0, <8>1
              <8>. HIDE DEF rest
              <8>3. (IdleFaultPulses + 1) * ((idleAge + 1) + rest)
                      = (IdleFaultPulses + 1) * (idleAge + 1) + (IdleFaultPulses + 1) * rest
                BY <1>0, <8>1
              <8>4. /\ (IdleFaultPulses + 1) * (idleAge + 1) \in Int
                    /\ (IdleFaultPulses + 1) * rest \in Int
                BY <1>0, <8>1
              <8>5. (IdleFaultPulses + 1) * (idleAge + 1)
                      <= (IdleFaultPulses + 1) * ((idleAge + 1) + rest)
                BY <8>2, <8>3, <8>4
              <8>. QED  BY <8>1, <8>5, Zenon
            <7>3. flood' <= DrainCap + idleAge'
              BY <1>0, <2>1, <4>2, <5>1, <5>3
            <7>. QED  BY <5>1, <7>1, <7>2, <7>3, Zenon
          <6>4. CASE ~(idlePulses + p > IdleFaultPulses + 1)
            <7>1. idlePulses' = idlePulses + p
              BY <6>2, <6>4, Zenon DEF UpTo
            <7>3. flood' <= DrainCap + idleAge'
              BY <1>0, <2>1, <4>2, <5>1, <5>3
            <7>. QED  BY <5>1, <6>1, <7>1, <7>3, Zenon
          <6>. QED  BY <6>3, <6>4, Zenon
        <5>. QED  BY <3>2, <5>2, <5>3, Zenon
      <4>3. CASE dt = 1 /\ WindowEnds(dt)
        <5>1. idleAge' = 0 /\ idlePulses' = 0 /\ idleAge + 1 = IdleWindow
          BY <1>0, <3>1, <4>3 DEF WindowEnds
        <5>2. CASE flood <= idleAge
          BY <1>0, <2>1, <4>3, <5>1, <5>2
        <5>3. CASE /\ flood <= DrainCap + idleAge
                   /\ (IdleFaultPulses + 1) * idleAge <= idlePulses * IdleWindow
          <6>1. (IdleFaultPulses + 1) * (idleAge + 1) <= (idlePulses + p) * IdleWindow
            BY <1>0, <1>4, <4>3, <5>3, FloodShare
          <6>2. idlePulses + p > IdleFaultPulses
            BY <1>0, <5>1, <6>1, FloodFillsWindow
          <6>3. UnexpectedNow(s, dt, p)
            BY <1>4, <2>2, <2>4, <4>3, <6>2, Zenon DEF UnexpectedNow, Unarmed, ArmingEdge, Entering
          <6>4. Verdict(s, dt, p) # "None"
            BY <6>3 DEF Verdict
          <6>. QED  BY <2>2, <6>4, PassPath
        <5>. QED  BY <3>2, <5>2, <5>3, Zenon
      <4>. QED  BY <1>0, <4>1, <4>2, <4>3
    <3>. QED  BY <1>1, <2>1, <2>2, <2>4, <3>1, <3>3, Zenon DEF FloodInv
  <2>. QED  BY <1>1, <2>2, <2>3, <2>4, IdleWays, Zenon
<1>. QED  BY <1>3, <1>4, Zenon

\* The four ways of the valve monitor.
LEMMA RestWays ==
  ASSUME NEW t, NEW z, NEW dt, NEW p, WatchValves(t, z, dt, p)
  PROVE  \/ Entering("Settle", restPrev, t) /\ BeginRest(z)
         \/ /\ ~Entering("Settle", restPrev, t) /\ (phase = "Idle" \/ t \notin Resting)
            /\ RestIdle /\ flagged' = flagged
         \/ /\ ~Entering("Settle", restPrev, t) /\ phase # "Idle" /\ t \in Resting
            /\ phase = "Draining" /\ DrainRest(dt, p)
         \/ /\ ~Entering("Settle", restPrev, t) /\ phase # "Idle" /\ t \in Resting
            /\ phase = "Watching" /\ WatchRest(dt, p)
         \/ phase \notin {"Idle", "Draining", "Watching"}
<1>1. CASE Entering("Settle", restPrev, t)
  BY <1>1 DEF WatchValves
<1>2. CASE ~Entering("Settle", restPrev, t) /\ phase = "Idle"
  BY <1>2 DEF WatchValves
<1>3. CASE ~Entering("Settle", restPrev, t) /\ phase # "Idle" /\ t \notin Resting
  <2>1. RestIdle /\ flagged' = flagged
    BY <1>3 DEF WatchValves, StillResting
  <2>. QED  BY <1>3, <2>1, Zenon
<1>4. CASE ~Entering("Settle", restPrev, t) /\ phase = "Draining" /\ t \in Resting
  <2>1. DrainRest(dt, p)
    BY <1>4 DEF WatchValves, StillResting
  <2>. QED  BY <1>4, <2>1
<1>5. CASE ~Entering("Settle", restPrev, t) /\ phase = "Watching" /\ t \in Resting
  <2>1. WatchRest(dt, p)
    BY <1>5 DEF WatchValves, StillResting
  <2>. QED  BY <1>5, <2>1
<1>. QED  BY <1>1, <1>2, <1>3, <1>4, <1>5

\* The zone closed last.
LEMMA ClosedStep ==
  ASSUME TypeOK, RunInv, NEW s, NEW t, NEW dt, NEW p, PassTo(s, t, dt, p)
  PROVE  /\ zone' \in Zones /\ closed' \in Zones \cup {NoZone}
         /\ Entering("Settle", restPrev, t) => closed' = zone'
         /\ ~Entering("Settle", restPrev, t) /\ t \in Resting => closed' = closed
<1>1. zone' \in Zones
  <2>1. zone' \in RunZones(s) /\ zone \in Zones
    BY Zenon DEF PassTo, TypeOK
  <2>. QED  BY <2>1 DEF RunZones
<1>2. closed' = CASE s \in Pumping -> NoZone
                  [] s \notin Pumping /\ Entering("Settle", restPrev, t) -> zone'
                  [] OTHER -> closed
  BY DEF PassTo, Witness
<1>3. s \in Pumping => t \notin Resting
  BY PassPath
<1>4. Entering("Settle", restPrev, t) => t \in Resting
  BY DEF Entering, Resting
<1>5. closed \in Zones \cup {NoZone}
  BY Zenon DEF TypeOK
<1>. QED  BY <1>1, <1>2, <1>3, <1>4, <1>5

RestType ==
  /\ restZone \in Zones /\ restGate \in Gates
  /\ phase \in {"Idle", "Draining", "Watching"}
  /\ restAge \in 0 .. RestWindow - 1 /\ restPulses \in 0 .. MaxRestPulses
  /\ flagged \in SUBSET Zones

\* What the monitor's drain leads to.
LEMMA DrainWays ==
  ASSUME TypeOK, MeterCounts, RestInv, phase = "Draining",
         NEW dt, NEW p, Beat(dt, p), past' = Later(past, dt, p), DrainRest(dt, p)
  PROVE  \/ /\ RestIdle /\ flagged' = flagged \cup {restZone}
            /\ restGate.waited + dt = DrainCap
            /\ \E k \in 1 .. QuietTime : past'[k] > 0
         \/ /\ phase' = "Watching" /\ restAge' = 0 /\ restPulses' = 0
            /\ restZone' = restZone /\ flagged' = flagged /\ restGate' = Done(FALSE)
            /\ QuietTime <= restGate.waited + dt /\ p <= QuietPulses /\ dt = 1
         \/ /\ phase' = phase /\ restAge' = restAge /\ restPulses' = restPulses
            /\ restZone' = restZone /\ flagged' = flagged
            /\ restGate' \in Gates /\ Waiting(restGate', past')
            /\ restGate'.waited = restGate.waited + dt
<1>. DEFINE g == drained(restGate, dt, p)
<1>1. restGate \in Gates /\ Waiting(restGate, past)
  BY Zenon DEF TypeOK, RestInv
<1>2. Counts(past, History)
  BY Zenon DEF MeterCounts
<1>3. \/ ~g.done /\ g \in Gates /\ Waiting(g, past') /\ g.waited = restGate.waited + dt
      \/ /\ g.done /\ ~g.capped /\ g = Done(FALSE)
         /\ QuietTime <= restGate.waited + dt /\ p <= QuietPulses /\ dt = 1
      \/ /\ g.done /\ g.capped
         /\ restGate.waited + dt = DrainCap
         /\ \E k \in 1 .. QuietTime : past'[k] > 0
  BY <1>1, <1>2, GateWaitsOn
<1>4. \/ g.done /\ g.capped /\ Flag
      \/ /\ g.done /\ ~g.capped
         /\ phase' = "Watching" /\ restAge' = 0 /\ restPulses' = 0
         /\ restGate' = g /\ restZone' = restZone /\ flagged' = flagged
      \/ /\ ~g.done /\ restGate' = g
         /\ phase' = phase /\ restAge' = restAge /\ restPulses' = restPulses
         /\ restZone' = restZone /\ flagged' = flagged
  BY DEF DrainRest
<1>. HIDE DEF g
<1>5. CASE g.done /\ g.capped /\ Flag
  BY <1>3, <1>5, Zenon DEF Flag
<1>6. CASE /\ g.done /\ ~g.capped
           /\ phase' = "Watching" /\ restAge' = 0 /\ restPulses' = 0
           /\ restGate' = g /\ restZone' = restZone /\ flagged' = flagged
  BY <1>3, <1>6, Zenon
<1>7. CASE /\ ~g.done /\ restGate' = g
           /\ phase' = phase /\ restAge' = restAge /\ restPulses' = restPulses
           /\ restZone' = restZone /\ flagged' = flagged
  BY <1>3, <1>7, Zenon
<1>. QED  BY <1>4, <1>5, <1>6, <1>7, Zenon

\* A watched zone was closed last, and drains or rests since.
LEMMA RestStep ==
  ASSUME TypeOK, MeterCounts, RunInv, RestInv,
         NEW s, NEW t, NEW dt, NEW p, Beat(dt, p), PassTo(s, t, dt, p)
  PROVE  RestInv' /\ RestType'
<1>0. /\ past' = Later(past, dt, p) /\ past'[0] = 0
      /\ WatchValves(t, zone', dt, p)
  BY MeterStep DEF MeterCounts, Counts, PassTo
<1>1. /\ sincePump \in 0 .. LongAgo /\ LongAgo \in Nat /\ dt \in {0, 1} /\ dt \in Nat
      /\ restAge \in 0 .. RestWindow - 1 /\ restPulses \in 0 .. MaxRestPulses
      /\ p \in Nat /\ QuietTime \in Nat /\ DrainCap \in Nat /\ QuietTime <= DrainCap
      /\ RestWindow \in Nat \ {0} /\ MaxRestPulses \in Nat
      /\ DrainCap + RestWindow <= LongAgo /\ History \in Nat /\ RestWindow <= History
  BY Sizes, HistoryCovers DEF TypeOK, Beat
<1>2. restGate \in Gates /\ restZone \in Zones /\ flagged \subseteq Zones
      /\ phase \in {"Idle", "Draining", "Watching"}
  BY Zenon DEF TypeOK
<1>3. /\ zone' \in Zones
      /\ Entering("Settle", restPrev, t) => closed' = zone'
      /\ ~Entering("Settle", restPrev, t) /\ t \in Resting => closed' = closed
  BY ClosedStep
<1>4. /\ sincePump' \in 0 .. LongAgo
      /\ t \in Resting => sincePump' = LongAgo \/ sincePump' = sincePump + dt
  BY PumpRests, PassPath
<1>5. 0 \in 0 .. RestWindow - 1 /\ 0 \in 0 .. MaxRestPulses
  BY <1>1
<1>6. CASE Entering("Settle", restPrev, t) /\ BeginRest(zone')
  <2>1. /\ phase' = "Draining" /\ restZone' = zone' /\ restGate' = open
        /\ restAge' = restAge /\ restPulses' = restPulses /\ flagged' = flagged
    BY <1>6, Zenon DEF BeginRest
  <2>2. restGate' \in Gates /\ Waiting(restGate', past') /\ restGate'.waited = 0
    BY <1>0, <2>1, OpenWaits
  <2>3. sincePump' >= restGate'.waited
    BY <1>4, <2>2
  <2>. QED  BY <1>1, <1>2, <1>3, <1>6, <2>1, <2>2, <2>3, Zenon DEF RestInv, RestType
<1>7. CASE RestIdle /\ flagged' = flagged
  <2>1. /\ phase' = "Idle" /\ restZone' = restZone /\ restGate' = Done(FALSE)
        /\ restAge' = 0 /\ restPulses' = 0
    BY <1>7, Zenon DEF RestIdle
  <2>2. restGate' \in Gates
    BY <2>1, DoneIsGate
  <2>. QED  BY <1>2, <1>5, <1>7, <2>1, <2>2, Zenon DEF RestInv, RestType
<1>8. CASE /\ ~Entering("Settle", restPrev, t) /\ phase # "Idle" /\ t \in Resting
           /\ phase = "Draining" /\ DrainRest(dt, p)
  <2>0. /\ closed' = restZone /\ sincePump >= restGate.waited /\ Waiting(restGate, past)
        /\ (sincePump' = LongAgo \/ sincePump' = sincePump + dt)
    BY <1>3, <1>4, <1>8, Zenon DEF RestInv
  <2>1. restGate.waited \in Nat /\ restGate.waited < DrainCap
    BY <1>2, <2>0, Sizes DEF Gates, Waiting
  <2>2. CASE RestIdle /\ flagged' = flagged \cup {restZone}
    <3>1. /\ phase' = "Idle" /\ restZone' = restZone /\ restGate' = Done(FALSE)
          /\ restAge' = 0 /\ restPulses' = 0
      BY <2>2, Zenon DEF RestIdle
    <3>2. restGate' \in Gates /\ flagged' \in SUBSET Zones
      BY <1>2, <2>2, <3>1, DoneIsGate
    <3>. QED  BY <1>2, <1>5, <3>1, <3>2, Zenon DEF RestInv, RestType
  <2>3. CASE /\ phase' = "Watching" /\ restAge' = 0 /\ restPulses' = 0
             /\ restZone' = restZone /\ flagged' = flagged /\ restGate' = Done(FALSE)
             /\ QuietTime <= restGate.waited + dt
    <3>1. sincePump' >= QuietTime
      BY <1>1, <2>0, <2>1, <2>3
    <3>2. sincePump' >= QuietTime + restAge' /\ restPulses' = past'[restAge']
      BY <1>0, <1>1, <1>4, <2>3, <3>1
    <3>3. restGate' \in Gates
      BY <2>3, DoneIsGate
    <3>. QED  BY <1>2, <1>5, <2>0, <2>3, <3>2, <3>3, Zenon DEF RestInv, RestType
  <2>4. CASE /\ phase' = phase /\ restAge' = restAge /\ restPulses' = restPulses
             /\ restZone' = restZone /\ flagged' = flagged
             /\ restGate' \in Gates /\ Waiting(restGate', past')
             /\ restGate'.waited = restGate.waited + dt
    <3>1. restGate'.waited = restGate.waited + dt /\ restGate.waited + dt <= DrainCap
      BY <1>1, <2>1, <2>4
    <3>2. sincePump' >= restGate'.waited
      BY <1>1, <2>0, <2>1, <3>1
    <3>. QED  BY <1>1, <1>2, <1>8, <2>0, <2>4, <3>2, Zenon DEF RestInv, RestType
  <2>. QED  BY <1>0, <1>8, <2>2, <2>3, <2>4, DrainWays
<1>9. CASE /\ ~Entering("Settle", restPrev, t) /\ phase # "Idle" /\ t \in Resting
           /\ phase = "Watching" /\ WatchRest(dt, p)
  <2>0. /\ closed' = restZone /\ sincePump >= QuietTime + restAge
        /\ restPulses = past[restAge]
        /\ (sincePump' = LongAgo \/ sincePump' = sincePump + dt)
    BY <1>3, <1>4, <1>9, Zenon DEF RestInv
  <2>1. CASE RestIdle /\ flagged' \in SUBSET Zones
    <3>1. /\ phase' = "Idle" /\ restZone' = restZone /\ restGate' = Done(FALSE)
          /\ restAge' = 0 /\ restPulses' = 0
      BY <2>1, Zenon DEF RestIdle
    <3>2. restGate' \in Gates
      BY <3>1, DoneIsGate
    <3>. QED  BY <1>2, <1>5, <2>1, <3>1, <3>2, Zenon DEF RestInv, RestType
  <2>2. CASE /\ restPulses + p <= MaxRestPulses /\ restAge + dt < RestWindow
             /\ restAge' = restAge + dt /\ restPulses' = restPulses + p
             /\ phase' = phase /\ restZone' = restZone /\ restGate' = restGate
             /\ flagged' = flagged
    <3>1. restAge' \in 0 .. RestWindow - 1 /\ restPulses' \in 0 .. MaxRestPulses
      BY <1>1, <2>2
    <3>2. restPulses' = past'[restAge']
      <4>1. restAge \in 0 .. History /\ restAge + dt <= History
        BY <1>1, <2>2
      <4>2. past'[restAge + dt] = past[restAge] + p
        BY <4>1, MeterStep
      <4>. QED  BY <2>0, <2>2, <4>2
    <3>3. sincePump' >= QuietTime + restAge'
      BY <1>1, <2>0, <2>2
    <3>. QED  BY <1>2, <1>9, <2>0, <2>2, <3>1, <3>2, <3>3, Zenon DEF RestInv, RestType
  <2>3. \/ RestIdle /\ flagged' = flagged \cup {restZone}
        \/ RestIdle /\ flagged' = flagged \ {restZone}
        \/ /\ restPulses + p <= MaxRestPulses /\ restAge + dt < RestWindow
           /\ restAge' = restAge + dt /\ restPulses' = restPulses + p
           /\ phase' = phase /\ restZone' = restZone /\ restGate' = restGate
           /\ flagged' = flagged
    BY <1>9 DEF WatchRest, Flag
  <2>. QED  BY <1>2, <2>1, <2>2, <2>3
<1>. QED
  <2>1. \/ Entering("Settle", restPrev, t) /\ BeginRest(zone')
        \/ RestIdle /\ flagged' = flagged
        \/ /\ ~Entering("Settle", restPrev, t) /\ phase # "Idle" /\ t \in Resting
           /\ phase = "Draining" /\ DrainRest(dt, p)
        \/ /\ ~Entering("Settle", restPrev, t) /\ phase # "Idle" /\ t \in Resting
           /\ phase = "Watching" /\ WatchRest(dt, p)
    BY <1>0, <1>2, RestWays
  <2>. QED  BY <1>6, <1>7, <1>8, <1>9, <2>1, Zenon

\* A leak keeps the gate from opening on a quiet meter, and meets the cap.
LEMMA LeakStep ==
  ASSUME TypeOK, MeterCounts, RunInv, RestInv, LeakInv,
         NEW s, NEW t, NEW dt, NEW p, Beat(dt, p), PassTo(s, t, dt, p)
  PROVE  LeakInv' /\ leak' \in -1 .. DrainCap
<1>. DEFINE wet == dt = 0 \/ p > QuietPulses
            enters == Entering("Settle", restPrev, t)
<1>0. /\ past' = Later(past, dt, p)
      /\ WatchValves(t, zone', dt, p)
  BY MeterStep DEF PassTo
<1>1. /\ leak \in -1 .. DrainCap /\ DrainCap \in Nat \ {0} /\ dt \in {0, 1} /\ p \in Nat
      /\ QuietPulses \in Nat /\ restGate \in Gates
      /\ phase \in {"Idle", "Draining", "Watching"}
  BY Sizes DEF TypeOK, Beat
<1>2. leak' = CASE enters -> 0
                [] ~enters /\ t \in Resting /\ leak >= 0 /\ wet -> UpTo(DrainCap, leak + dt)
                [] OTHER -> -1
  BY DEF PassTo, Witness
<1>3. /\ enters => closed' = zone'
      /\ ~enters /\ t \in Resting => closed' = closed
  BY ClosedStep
<1>. HIDE DEF enters, wet
<1>4. CASE enters
  <2>1. leak' = 0
    BY <1>2, <1>4
  <2>2. phase' = "Draining" /\ restZone' = zone' /\ restGate' = open
    BY <1>0, <1>4 DEF WatchValves, BeginRest, enters
  <2>3. open.waited = 0
    BY DEF open
  <2>. QED  BY <1>1, <1>3, <1>4, <2>1, <2>2, <2>3 DEF LeakInv
<1>5. CASE ~enters /\ t \in Resting /\ leak >= 0 /\ wet
  <2>1. leak' = UpTo(DrainCap, leak + dt)
    BY <1>2, <1>5
  <2>2. closed' = restZone
    BY <1>3, <1>5 DEF LeakInv
  <2>3. CASE leak < DrainCap
    <3>1. phase = "Draining" /\ restGate.waited = leak /\ Waiting(restGate, past)
      BY <1>5, <2>3 DEF LeakInv, RestInv
    <3>2. DrainRest(dt, p)
      BY <1>0, <1>1, <1>5, <3>1, RestWays DEF enters
    <3>3. CASE /\ RestIdle /\ flagged' = flagged \cup {restZone}
               /\ restGate.waited + dt = DrainCap
      <4>1. leak' = DrainCap
        BY <1>1, <2>1, <3>1, <3>3 DEF UpTo
      <4>2. phase' = "Idle" /\ restZone' = restZone /\ restZone' \in flagged'
        BY <3>3 DEF RestIdle
      <4>. QED  BY <1>1, <2>2, <4>1, <4>2 DEF LeakInv
    <3>4. CASE p <= QuietPulses /\ dt = 1
      BY <1>1, <1>5, <3>4 DEF wet
    <3>5. CASE /\ phase' = phase /\ restZone' = restZone
               /\ Waiting(restGate', past') /\ restGate'.waited = restGate.waited + dt
      <4>1. restGate'.waited = leak + dt /\ restGate'.waited < DrainCap
        BY <3>1, <3>5, Zenon DEF Waiting
      <4>2. leak' = leak + dt /\ leak' < DrainCap /\ leak' \in -1 .. DrainCap
        BY <1>1, <1>5, <2>1, <4>1 DEF UpTo
      <4>. QED  BY <1>1, <2>2, <3>1, <3>5, <4>1, <4>2 DEF LeakInv
    <3>. QED  BY <1>0, <3>1, <3>2, <3>3, <3>4, <3>5, DrainWays
  <2>4. CASE leak = DrainCap
    <3>1. phase = "Idle" /\ restZone \in flagged
      BY <1>1, <2>4 DEF LeakInv
    <3>2. RestIdle /\ flagged' = flagged
      BY <1>0, <1>5, <3>1, RestWays DEF enters
    <3>3. phase' = "Idle" /\ restZone' = restZone
      BY <3>2 DEF RestIdle
    <3>4. leak' = DrainCap
      BY <1>1, <2>1, <2>4 DEF UpTo
    <3>. QED  BY <1>1, <2>2, <3>1, <3>2, <3>3, <3>4 DEF LeakInv
  <2>. QED  BY <1>1, <2>3, <2>4
<1>6. CASE ~enters /\ ~(t \in Resting /\ leak >= 0 /\ wet)
  <2>1. leak' = -1
    BY <1>2, <1>6
  <2>. QED  BY <1>1, <2>1 DEF LeakInv
<1>. QED  BY <1>4, <1>5, <1>6, Zenon

\* Past the grace the window is full, and the run's own.
LEMMA WindowIsFull ==
  ASSUME TypeOK, MeterCounts, RunInv, RateInv,
         NEW s, NEW t, NEW dt, NEW p, Beat(dt, p), PassTo(s, t, dt, p),
         s = "Running", runAge' >= Grace
  PROVE  /\ running' = runAge' /\ span' = RateSamples - 1
         /\ window'[RateSamples - 1] = past'[RateSamples - 1]
<1>1. prevState' = "Running"
  BY PassPath
<1>2. running' = runAge' /\ runAge' \in 0 .. Grace
  BY <1>1, RunStep DEF RunInv
<1>3. /\ span' \in 0 .. RateSamples - 1
      /\ span' >= IF runAge' < RateSamples - 1 THEN runAge' ELSE RateSamples - 1
      /\ \A i \in 0 .. span' : window'[i] = past'[i]
  BY <1>1, RateStep DEF RateInv
<1>4. span' = RateSamples - 1
  BY <1>2, <1>3, Sizes
<1>. QED  BY <1>2, <1>3, <1>4, Sizes

LEMMA DryCaughtStep ==
  ASSUME TypeOK, MeterCounts, RunInv, RateInv, DryInv,
         NEW s, NEW t, NEW dt, NEW p, Beat(dt, p), PassTo(s, t, dt, p)
  PROVE  DryRunIsCaught'
<1>. SUFFICES ASSUME t = "Running", running' >= Grace, dry' >= RateSamples - 1
              PROVE  FALSE
  <2>1. state' = t /\ running' \in 0 .. Grace /\ dry' \in 0 .. RateSamples - 1
    BY PassPath, RunStep, DryStep
  <2>. QED  BY <2>1, Sizes DEF DryRunIsCaught
<1>1. s = "Running" /\ prevState' = s
  BY PassPath
<1>2. dry' = RateSamples - 1 /\ dry' > 0
  BY DryStep, Sizes
<1>3. ~muted
  BY <1>2, Sizes DEF PassTo, Witness
<1>4. running' = runAge'
  BY <1>1, RunStep DEF RunInv
<1>5. span' = RateSamples - 1 /\ window'[RateSamples - 1] = past'[RateSamples - 1]
  BY <1>1, <1>4, WindowIsFull
<1>6. past'[RateSamples - 1] <= MinRunning * (RateSamples - 1)
  BY <1>2, DryStep, Sizes DEF DryInv
<1>7. TooLittle(window', span')
  BY <1>5, <1>6, Zenon DEF TooLittle
<1>8. RunAge(s, dt) >= Grace
  <2>1. runAge' = RunAge(s, dt)
    BY Zenon DEF PassTo, DetectFlow
  <2>. QED  BY <1>4, <2>1
<1>9. NoFlowNow(s, dt)
  BY <1>1, <1>3, <1>7, <1>8, Zenon DEF NoFlowNow
<1>10. Verdict(s, dt, p) # "None"
  BY <1>9 DEF Verdict
<1>. QED  BY <1>10, PassPath

LEMMA TypeStep ==
  ASSUME FlowInv, NEW s, NEW t, NEW dt, NEW p, Beat(dt, p), PassTo(s, t, dt, p)
  PROVE  TypeOK'
<1>. USE DEF FlowInv
<1>1. /\ state' \in States /\ prevState' \in States /\ restPrev' \in States
  <2>1. restPrev' = t
    BY Zenon DEF PassTo, WatchValves
  <2>. QED  BY <2>1, PassPath
<1>2. zone' \in Zones /\ closed' \in Zones \cup {NoZone}
  BY ClosedStep
<1>3. fault' \in Faults /\ (state' = "Fault" <=> fault' # "None")
  <2>1. fault' = IF Verdict(s, dt, p) # "None" THEN Verdict(s, dt, p) ELSE fault
    BY Zenon DEF PassTo
  <2>2. /\ state' = t /\ (t = "Fault" <=> (Verdict(s, dt, p) # "None" \/ state = "Fault"))
    BY PassPath
  <2>3. fault \in Faults /\ (state = "Fault" <=> fault # "None")
    BY DEF TypeOK
  <2>4. Verdict(s, dt, p) \in {"None", "NoFlow", "UnexpectedFlow"}
    BY Verdicts
  <2>5. CASE Verdict(s, dt, p) # "None"
    <3>1. fault' = Verdict(s, dt, p) /\ t = "Fault"
      BY <2>1, <2>2, <2>5, Zenon
    <3>. QED  BY <2>2, <2>4, <2>5, <3>1 DEF Faults
  <2>6. CASE Verdict(s, dt, p) = "None"
    <3>1. fault' = fault /\ (t = "Fault" <=> state = "Fault")
      BY <2>1, <2>2, <2>6, Zenon
    <3>. QED  BY <2>2, <2>3, <3>1, Zenon
  <2>. QED  BY <2>5, <2>6
<1>4. muted' \in BOOLEAN
  BY Zenon DEF PassTo, TypeOK
<1>5. calm' \in BOOLEAN /\ sincePump' \in 0 .. LongAgo
  BY PumpRests
<1>6. /\ span' \in 0 .. RateSamples - 1 /\ window' \in [0 .. RateSamples - 1 -> Nat]
      /\ past' \in [0 .. History -> Nat]
  BY RateStep, MeterStep DEF MeterCounts, Counts
<1>7. runAge' \in 0 .. Grace /\ running' \in 0 .. Grace /\ dry' \in 0 .. RateSamples - 1
  BY RunStep, DryStep
<1>8. IdleType'
  BY ArmedStep
<1>9. RestType'
  BY RestStep
<1>10. flood' \in 0 .. FloodLimit /\ leak' \in -1 .. DrainCap
  BY FloodStep, LeakStep
<1>. QED
  BY <1>1, <1>2, <1>3, <1>4, <1>5, <1>6, <1>7, <1>8, <1>9, <1>10, Zenon
  DEF TypeOK, IdleType, RestType

LEMMA PassKeeps ==
  ASSUME FlowInv, NEW dt, NEW p, Beat(dt, p), Pass(dt, p)
  PROVE  FlowInv'
<1>1. PICK s, t : PassTo(s, t, dt, p)
  BY PassGoesTo
<1>2. TypeOK'
  BY <1>1, TypeStep
<1>3. MeterCounts' /\ RunInv' /\ RateInv'
  BY <1>1, MeterStep, RunStep, RateStep DEF FlowInv
<1>4. DryInv' /\ DryRunIsCaught'
  BY <1>1, DryStep, DryCaughtStep DEF FlowInv
<1>5. ArmedInv' /\ FloodInv'
  BY <1>1, ArmedStep, FloodStep DEF FlowInv
<1>6. RestInv' /\ LeakInv'
  BY <1>1, RestStep, LeakStep DEF FlowInv
<1>. QED  BY <1>2, <1>3, <1>4, <1>5, <1>6, Zenon DEF FlowInv

-----------------------------------------------------------------------------
(* The handlers, and a reset                                               *)

\* No handler touches the detectors, and none starts the pump.
LEMMA HandlerKeeps ==
  ASSUME FlowInv,
         UNCHANGED <<monitorVars, detectorVars, restVars, ghostVars>>,
         zone' \in Zones, muted' \in BOOLEAN, state' \in States, fault' \in Faults,
         state' = "Fault" <=> fault' # "None",
         state' \in Pumping => state' = state
  PROVE  FlowInv'
<1>1. /\ span' = span /\ window' = window
      /\ prevState' = prevState /\ runAge' = runAge /\ draining' = draining /\ gate' = gate
      /\ idleAge' = idleAge /\ idlePulses' = idlePulses
      /\ restPrev' = restPrev /\ phase' = phase /\ restZone' = restZone
      /\ restGate' = restGate /\ restAge' = restAge /\ restPulses' = restPulses
      /\ flagged' = flagged
      /\ past' = past /\ sincePump' = sincePump /\ calm' = calm /\ running' = running
      /\ dry' = dry /\ flood' = flood /\ leak' = leak /\ closed' = closed
  BY Zenon DEF monitorVars, detectorVars, restVars, ghostVars
<1>2. TypeOK'
  BY <1>1, Zenon DEF FlowInv, TypeOK
<1>3. MeterCounts' /\ RateInv' /\ DryInv' /\ ArmedInv' /\ FloodInv' /\ RestInv' /\ LeakInv'
  BY <1>1, Zenon DEF FlowInv, MeterCounts, RateInv, DryInv, ArmedInv, FloodInv, RestInv, LeakInv
<1>4. RunInv'
  BY <1>1, Zenon DEF FlowInv, RunInv
<1>5. DryRunIsCaught'
  BY <1>1 DEF FlowInv, DryRunIsCaught, Pumping
<1>. QED  BY <1>2, <1>3, <1>4, <1>5, Zenon DEF FlowInv

LEMMA BootIsFlow ==
  ASSUME NEW limit \in Nat PROVE Counts(None(limit), limit)
BY DEF Counts, None

\* A reset forgets all but the meter.
LEMMA ResetKeeps ==
  ASSUME FlowInv, Reset PROVE FlowInv'
<1>1. /\ state' = "Idle" /\ fault' = "None" /\ zone' = zone /\ muted' = muted
      /\ span' = 0 /\ window' = None(RateSamples - 1)
      /\ prevState' = "Idle" /\ runAge' = 0 /\ draining' = FALSE /\ gate' = Done(FALSE)
      /\ idleAge' = 0 /\ idlePulses' = 0
      /\ restPrev' = "Idle" /\ phase' = "Idle" /\ restGate' = Done(FALSE)
      /\ restAge' = 0 /\ restPulses' = 0 /\ flagged' = {} /\ restZone' = restZone
      /\ sincePump' = LongAgo /\ calm' = TRUE /\ past' = past
      /\ running' = 0 /\ dry' = 0 /\ flood' = 0 /\ leak' = -1 /\ closed' = NoZone
  BY Zenon DEF Reset, resetAccumulation
<1>2. /\ Counts(window', RateSamples - 1) /\ Counts(past', History)
  BY <1>1, BootIsFlow, Sizes DEF FlowInv, MeterCounts
<1>3. TypeOK'
  <2>1. /\ zone' \in Zones /\ muted' \in BOOLEAN /\ restZone' \in Zones
    BY <1>1, Zenon DEF FlowInv, TypeOK
  <2>2. gate' \in Gates /\ restGate' \in Gates
    BY <1>1, DoneIsGate
  <2>3. /\ span' \in 0 .. RateSamples - 1 /\ runAge' \in 0 .. Grace
        /\ idleAge' \in 0 .. IdleWindow - 1 /\ idlePulses' \in 0 .. IdleFaultPulses + 1
        /\ restAge' \in 0 .. RestWindow - 1 /\ restPulses' \in 0 .. MaxRestPulses
        /\ sincePump' \in 0 .. LongAgo
        /\ running' \in 0 .. Grace /\ dry' \in 0 .. RateSamples - 1
        /\ flood' \in 0 .. FloodLimit /\ leak' \in -1 .. DrainCap
    BY <1>1, Sizes, HistoryCovers DEF FloodLimit
  <2>4. /\ state' \in States /\ prevState' \in States /\ restPrev' \in States
        /\ fault' \in Faults /\ (state' = "Fault" <=> fault' # "None")
        /\ phase' \in {"Idle", "Draining", "Watching"}
        /\ flagged' \in SUBSET Zones /\ closed' \in Zones \cup {NoZone}
        /\ draining' \in BOOLEAN /\ calm' \in BOOLEAN
    BY <1>1 DEF States, Faults
  <2>. QED  BY <1>2, <2>1, <2>2, <2>3, <2>4, Zenon DEF TypeOK, Counts
<1>4. RateInv'
  BY <1>1, <1>2, Sizes DEF RateInv, Counts
<1>5. DryInv'
  BY <1>1, <1>2, Sizes DEF DryInv, Counts
<1>6. ArmedInv'
  BY <1>1, Sizes, HistoryCovers DEF ArmedInv
<1>. QED
  BY <1>1, <1>2, <1>3, <1>4, <1>5, <1>6
  DEF FlowInv, MeterCounts, RunInv, DryRunIsCaught, FloodInv, RestInv, LeakInv, Pumping

\* Between passes: what the handlers may do, and that is all.
Handlers ==
  \/ \E z \in Zones : PostRun(z)
  \/ PostStop \/ PostCalFinish \/ PostFaultClear
  \/ \E on \in BOOLEAN : PostSettings(on)

LEMMA HandlersFrame ==
  ASSUME FlowInv, Handlers
  PROVE  /\ UNCHANGED <<monitorVars, detectorVars, restVars, ghostVars>>
         /\ fault' = fault \/ fault' \in {"None", "CalRange"}
         /\ zone' \in Zones /\ muted' \in BOOLEAN /\ state' \in States /\ fault' \in Faults
         /\ state' = "Fault" <=> fault' # "None"
         /\ state' \in Pumping => state' = state
<1>0. /\ state \in States /\ zone \in Zones /\ fault \in Faults /\ muted \in BOOLEAN
      /\ state = "Fault" <=> fault # "None"
  BY DEF FlowInv, TypeOK
<1>1. ASSUME NEW z \in Zones, PostRun(z)
      PROVE  /\ UNCHANGED <<monitorVars, detectorVars, restVars, ghostVars>>
             /\ fault' = fault /\ muted' = muted /\ zone' \in Zones
             /\ state # "Fault" /\ state' = "Path"
  <2>1. /\ UNCHANGED <<monitorVars, detectorVars, restVars, ghostVars>>
        /\ fault' = fault /\ muted' = muted /\ zone' = z /\ state = "Idle" /\ state' = "Path"
    BY <1>1, Zenon DEF PostRun
  <2>. QED  BY <2>1
<1>2. ASSUME PostStop
      PROVE  /\ UNCHANGED <<monitorVars, detectorVars, restVars, ghostVars>>
             /\ fault' = fault /\ muted' = muted /\ zone' = zone
             /\ state # "Fault" /\ state' = "StopPump"
  <2>1. /\ UNCHANGED <<monitorVars, detectorVars, restVars, ghostVars>>
        /\ fault' = fault /\ muted' = muted /\ zone' = zone
        /\ state \notin {"Idle", "Fault"} /\ state' = "StopPump"
    BY <1>2, Zenon DEF PostStop
  <2>. QED  BY <2>1
<1>3. ASSUME PostCalFinish
      PROVE  /\ UNCHANGED <<monitorVars, detectorVars, restVars, ghostVars>>
             /\ fault' = "CalRange" /\ muted' = muted /\ zone' = zone /\ state' = "Fault"
  BY <1>3, Zenon DEF PostCalFinish
<1>4. ASSUME PostFaultClear
      PROVE  /\ UNCHANGED <<monitorVars, detectorVars, restVars, ghostVars>>
             /\ fault' = "None" /\ muted' = muted /\ zone' = zone /\ state' = "Idle"
  BY <1>4, Zenon DEF PostFaultClear
<1>5. ASSUME NEW on \in BOOLEAN, PostSettings(on)
      PROVE  /\ UNCHANGED <<monitorVars, detectorVars, restVars, ghostVars>>
             /\ muted' \in BOOLEAN /\ zone' = zone
             /\ \/ state' = "Idle" /\ fault' = "None"
                \/ state' = state /\ fault' = fault
  <2>1. /\ UNCHANGED <<monitorVars, detectorVars, restVars, ghostVars>>
        /\ muted' = on /\ zone' = zone
        /\ \/ state' = "Idle" /\ fault' = "None"
           \/ state' = state /\ fault' = fault
    BY <1>5, Zenon DEF PostSettings
  <2>. QED  BY <2>1, Zenon
<1>. QED  BY <1>0, <1>1, <1>2, <1>3, <1>4, <1>5 DEF Handlers, States, Faults, Pumping

LEMMA Steps ==
  ASSUME Next
  PROVE  (\E dt, p : Beat(dt, p) /\ Pass(dt, p)) \/ Handlers \/ Reset
<1>1. ASSUME NEW p \in 0 .. Surge, Pass(1, p)
      PROVE  Beat(1, p) /\ Pass(1, p)
  BY <1>1, Sizes DEF Beat
<1>2. Beat(0, 0)
  BY DEF Beat
<1>. QED  BY <1>1, <1>2 DEF Next, Handlers

LEMMA StepKeeps == FlowInv /\ [Next]_vars => FlowInv'
<1>. SUFFICES ASSUME FlowInv, [Next]_vars PROVE FlowInv'
  OBVIOUS
<1>1. ASSUME NEW dt, NEW p, Beat(dt, p), Pass(dt, p) PROVE FlowInv'
  BY <1>1, PassKeeps
<1>2. CASE Handlers
  BY <1>2, HandlersFrame, HandlerKeeps
<1>3. CASE Reset
  BY <1>3, ResetKeeps
<1>4. CASE UNCHANGED vars
  <2>1. /\ UNCHANGED <<monitorVars, detectorVars, restVars, ghostVars>>
        /\ zone' = zone /\ muted' = muted /\ state' = state /\ fault' = fault
    BY <1>4, Zenon DEF vars
  <2>2. /\ state \in States /\ zone \in Zones /\ fault \in Faults /\ muted \in BOOLEAN
        /\ state = "Fault" <=> fault # "None"
    BY DEF FlowInv, TypeOK
  <2>. QED  BY <2>1, <2>2, HandlerKeeps
<1>. QED  BY <1>1, <1>2, <1>3, <1>4, Steps

LEMMA InitKeeps == Init => FlowInv
<1>. SUFFICES ASSUME Init PROVE FlowInv
  OBVIOUS
<1>. USE DEF Init
<1>1. Counts(window, RateSamples - 1) /\ Counts(past, History)
  BY BootIsFlow, Sizes, HistoryCovers
<1>2. TypeOK
  <2>1. gate \in Gates /\ restGate \in Gates
    BY DoneIsGate
  <2>2. /\ span \in 0 .. RateSamples - 1 /\ runAge \in 0 .. Grace
        /\ idleAge \in 0 .. IdleWindow - 1 /\ idlePulses \in 0 .. IdleFaultPulses + 1
        /\ restAge \in 0 .. RestWindow - 1 /\ restPulses \in 0 .. MaxRestPulses
        /\ sincePump \in 0 .. LongAgo
        /\ running \in 0 .. Grace /\ dry \in 0 .. RateSamples - 1
        /\ flood \in 0 .. FloodLimit /\ leak \in -1 .. DrainCap
    BY Sizes, HistoryCovers DEF FloodLimit
  <2>3. /\ state \in States /\ prevState \in States /\ restPrev \in States
        /\ zone \in Zones /\ restZone \in Zones
        /\ fault \in Faults /\ (state = "Fault" <=> fault # "None")
        /\ phase \in {"Idle", "Draining", "Watching"}
        /\ flagged \in SUBSET Zones /\ closed \in Zones \cup {NoZone}
        /\ draining \in BOOLEAN /\ calm \in BOOLEAN /\ muted \in BOOLEAN
    BY DEF States, Faults
  <2>. QED  BY <1>1, <2>1, <2>2, <2>3, Zenon DEF TypeOK, Counts
<1>3. RateInv /\ DryInv
  BY <1>1, Sizes DEF RateInv, DryInv, Counts
<1>4. ArmedInv
  BY Sizes, HistoryCovers DEF ArmedInv
<1>. QED
  BY <1>1, <1>2, <1>3, <1>4
  DEF FlowInv, MeterCounts, RunInv, DryRunIsCaught, FloodInv, RestInv, LeakInv, Pumping

-----------------------------------------------------------------------------
(* The theorems                                                            *)

\* What each timer and each count of the two detectors stands for.
THEOREM FlowInvariant == Spec => []FlowInv
BY InitKeeps, StepKeeps, PTL DEF Spec

\* A pump that turns without water is stopped when the grace ends, and after
\* that within the span of the rate (FlowFaultDetector::update, no-flow).
THEOREM DryRunsAreCaught == Spec => []DryRunIsCaught
<1>1. FlowInv => DryRunIsCaught
  BY DEF FlowInv
<1>. QED  BY <1>1, FlowInvariant, PTL

\* The latency the header of the detector promises for flow at rest, whatever
\* part of it falls into the drain gate and wherever a window begins.
THEOREM FloodsAreCaught == Spec => []FloodIsCaught
<1>1. FlowInv => FloodIsCaught
  <2>. SUFFICES ASSUME FlowInv PROVE FloodIsCaught
    OBVIOUS
  <2>1. /\ flood \in Nat /\ idleAge \in 0 .. IdleWindow - 1
        /\ DrainCap \in Nat /\ IdleWindow \in Nat \ {0}
    BY Sizes DEF FlowInv, TypeOK
  <2>2. CASE flood > 0 /\ draining
    <3>1. prevState = "Idle" /\ flood <= gate.waited
      BY <2>2 DEF FlowInv, FloodInv
    <3>2. gate.waited < DrainCap
      BY <2>2, <3>1, Zenon DEF FlowInv, ArmedInv, Waiting
    <3>3. gate.waited \in Nat
      BY DEF FlowInv, TypeOK, Gates
    <3>. QED  BY <2>1, <3>1, <3>2, <3>3 DEF FloodIsCaught, FloodLimit
  <2>3. CASE flood > 0 /\ ~draining
    <3>1. flood <= idleAge \/ flood <= DrainCap + idleAge
      BY <2>3 DEF FlowInv, FloodInv
    <3>. QED  BY <2>1, <3>1 DEF FloodIsCaught, FloodLimit
  <2>4. CASE ~(flood > 0)
    BY <2>1, <2>4 DEF FloodIsCaught, FloodLimit
  <2>. QED  BY <2>2, <2>3, <2>4, Zenon
<1>. QED  BY <1>1, FlowInvariant, PTL

\* A valve that never stops passing water is flagged when the drain gate meets
\* its cap (ValveRestMonitor::tick).
THEOREM LeaksAreFlagged == Spec => []LeakIsFlagged
<1>1. FlowInv => LeakIsFlagged
  BY Sizes DEF FlowInv, TypeOK, LeakInv, LeakIsFlagged
<1>. QED  BY <1>1, FlowInvariant, PTL

\* Between two passes no detector accuses and no flag moves.
LEMMA OnlyPassesJudge ==
  ASSUME FlowInv, [Next]_vars
  PROVE  \/ \E dt, p, s, t : Beat(dt, p) /\ PassTo(s, t, dt, p)
         \/ /\ fault' = fault \/ fault' \in {"None", "CalRange"}
            /\ flagged' = flagged \/ (Reset /\ flagged' = {})
<1>1. ASSUME NEW dt, NEW p, Beat(dt, p), Pass(dt, p)
      PROVE  \E s, t : PassTo(s, t, dt, p)
  BY <1>1, PassGoesTo
<1>2. CASE Handlers
  <2>1. UNCHANGED restVars /\ (fault' = fault \/ fault' \in {"None", "CalRange"})
    BY <1>2, HandlersFrame, Zenon
  <2>. QED  BY <2>1, Zenon DEF restVars
<1>3. CASE Reset
  <2>1. fault' = "None" /\ flagged' = {}
    BY <1>3, Zenon DEF Reset
  <2>. QED  BY <1>3, <2>1
<1>4. CASE UNCHANGED vars
  BY <1>4, Zenon DEF vars, restVars
<1>. QED  BY <1>1, <1>2, <1>3, <1>4, Steps

\* The grace has passed in this run, and the rate that was too low is that of
\* its last pulses (FlowFaultDetector::update, no-flow).
THEOREM NoFlowIsAlwaysEarned == Spec => NoFlowIsEarned
<1>1. ASSUME FlowInv, NEW s, NEW t, NEW dt, NEW p, Beat(dt, p), PassTo(s, t, dt, p),
             fault' = "NoFlow", fault # "NoFlow"
      PROVE  /\ running' >= Grace
             /\ past'[RateSamples - 1] <= MinRunning * (RateSamples - 1)
  <2>1. Verdict(s, dt, p) = "NoFlow"
    BY <1>1, Zenon DEF PassTo
  <2>2. NoFlowNow(s, dt)
    BY <2>1 DEF Verdict
  <2>3. /\ s = "Running" /\ RunAge(s, dt) >= Grace
        /\ window'[RateSamples - 1] <= MinRunning * span'
    BY <2>2 DEF NoFlowNow, TooLittle
  <2>4. runAge' = RunAge(s, dt)
    BY <1>1, Zenon DEF PassTo, DetectFlow
  <2>5. runAge' >= Grace
    BY <2>3, <2>4
  <2>6. /\ running' = runAge' /\ span' = RateSamples - 1
        /\ window'[RateSamples - 1] = past'[RateSamples - 1]
    BY <1>1, <2>3, <2>5, WindowIsFull DEF FlowInv
  <2>. QED  BY <2>3, <2>5, <2>6
<1>2. FlowInv /\ [Next]_vars =>
        [fault' = "NoFlow" /\ fault # "NoFlow" =>
           /\ running' >= Grace
           /\ past'[RateSamples - 1] <= MinRunning * (RateSamples - 1)]_vars
  BY <1>1, OnlyPassesJudge
<1>. QED  BY <1>2, FlowInvariant, PTL DEF Spec, NoFlowIsEarned

\* A window that accuses lies behind the drain of the last run
\* (FlowFaultDetector::update, unexpected flow, behind its DrainGate).
THEOREM TailsAreSpared == Spec => TailIsSpared
<1>1. ASSUME FlowInv, NEW s, NEW t, NEW dt, NEW p, Beat(dt, p), PassTo(s, t, dt, p),
             fault' = "UnexpectedFlow", fault # "UnexpectedFlow"
      PROVE  sincePump' >= IdleWindow + (IF calm' THEN QuietTime ELSE DrainCap)
  <2>1. UnexpectedNow(s, dt, p)
    <3>1. Verdict(s, dt, p) = "UnexpectedFlow"
      BY <1>1, Zenon DEF PassTo
    <3>. QED  BY <3>1 DEF Verdict
  <2>2. s = "Idle" /\ prevState = "Idle" /\ ~draining /\ idleAge + dt >= IdleWindow
    BY <2>1 DEF UnexpectedNow, Unarmed, ArmingEdge, Entering, WindowEnds
  <2>3. sincePump >= idleAge + (IF calm THEN QuietTime ELSE DrainCap)
    BY <1>1, <2>2, Zenon DEF FlowInv, ArmedInv
  <2>4. /\ sincePump' = LongAgo \/ sincePump' = sincePump + dt
        /\ calm => calm'
    BY <1>1, <2>2, PumpRests DEF FlowInv, Pumping
  <2>5. /\ sincePump \in Nat /\ idleAge \in Nat /\ dt \in Nat /\ LongAgo \in Nat
        /\ QuietTime \in Nat /\ DrainCap \in Nat /\ IdleWindow \in Nat
        /\ QuietTime <= DrainCap /\ DrainCap + IdleWindow <= LongAgo
    BY <1>1, Sizes, HistoryCovers DEF FlowInv, TypeOK, Beat
  <2>6. CASE calm
    <3>1. sincePump >= idleAge + QuietTime
      BY <2>3, <2>6, Zenon
    <3>2. sincePump' >= IdleWindow + QuietTime
      BY <2>2, <2>4, <2>5, <3>1
    <3>. QED  BY <2>4, <2>6, <3>2, Zenon
  <2>7. CASE ~calm
    <3>1. sincePump >= idleAge + DrainCap
      BY <2>3, <2>7, Zenon
    <3>2. sincePump' >= IdleWindow + DrainCap /\ sincePump' >= IdleWindow + QuietTime
      BY <2>2, <2>4, <2>5, <3>1
    <3>. QED  BY <3>2, Zenon
  <2>. QED  BY <2>6, <2>7
<1>2. FlowInv /\ [Next]_vars =>
        [fault' = "UnexpectedFlow" /\ fault # "UnexpectedFlow" =>
           sincePump' >= IdleWindow + (IF calm' THEN QuietTime ELSE DrainCap)]_vars
  BY <1>1, OnlyPassesJudge
<1>. QED  BY <1>2, FlowInvariant, PTL DEF Spec, TailIsSpared

\* What the monitor had counted of the zone it judges.
LEMMA FlagsMove ==
  ASSUME FlowInv, NEW s, NEW t, NEW dt, NEW p, Beat(dt, p), PassTo(s, t, dt, p),
         flagged' # flagged
  PROVE  /\ closed' = restZone /\ History \in Nat /\ Counts(past', History)
         /\ \/ /\ flagged' = flagged \cup {restZone}
               /\ \E k \in 0 .. RestWindow : past'[k] > 0
            \/ /\ flagged' = flagged \ {restZone}
               /\ sincePump' >= QuietTime + RestWindow
               /\ past'[RestWindow] <= MaxRestPulses
<1>0. /\ past' = Later(past, dt, p) /\ Counts(past', History)
      /\ WatchValves(t, zone', dt, p)
      /\ \A n \in 0 .. History : n + dt <= History => past'[n + dt] = past[n] + p
      /\ MeterCounts
  BY MeterStep DEF FlowInv, MeterCounts, PassTo
<1>1. /\ sincePump \in 0 .. LongAgo /\ LongAgo \in Nat /\ dt \in {0, 1} /\ dt \in Nat
      /\ restAge \in 0 .. RestWindow - 1 /\ restPulses \in 0 .. MaxRestPulses
      /\ p \in Nat /\ QuietTime \in Nat /\ DrainCap \in Nat /\ QuietTime <= DrainCap
      /\ RestWindow \in Nat \ {0} /\ MaxRestPulses \in Nat /\ QuietTime <= RestWindow
      /\ DrainCap + RestWindow <= LongAgo /\ History \in Nat /\ RestWindow <= History
  BY Sizes, HistoryCovers DEF FlowInv, TypeOK, Beat
<1>2. /\ ~Entering("Settle", restPrev, t) /\ t \in Resting
      /\ \/ phase = "Draining" /\ DrainRest(dt, p)
         \/ phase = "Watching" /\ WatchRest(dt, p)
  <2>1. phase \in {"Idle", "Draining", "Watching"}
    BY Zenon DEF FlowInv, TypeOK
  <2>. QED  BY <1>0, <2>1, RestWays DEF BeginRest
<1>3. closed' = restZone
  <2>1. closed' = closed
    BY <1>2, ClosedStep DEF FlowInv
  <2>2. closed = restZone
    BY <1>2 DEF FlowInv, RestInv
  <2>. QED  BY <2>1, <2>2
<1>4. sincePump' = LongAgo \/ sincePump' = sincePump + dt
  BY <1>2, PumpRests, PassPath DEF FlowInv
<1>5. CASE phase = "Draining" /\ DrainRest(dt, p)
  <2>1. flagged' = flagged \cup {restZone} /\ \E k \in 1 .. QuietTime : past'[k] > 0
    BY <1>0, <1>5, DrainWays, Zenon DEF FlowInv
  <2>2. \A k \in 1 .. QuietTime : k \in 0 .. RestWindow
    BY <1>1
  <2>. QED  BY <1>0, <1>1, <1>3, <2>1, <2>2, Zenon
<1>6. CASE phase = "Watching" /\ WatchRest(dt, p)
  <2>1. restPulses = past[restAge] /\ sincePump >= QuietTime + restAge
    BY <1>6, Zenon DEF FlowInv, RestInv
  <2>2. past'[restAge + dt] = restPulses + p /\ restAge + dt \in 0 .. RestWindow
    <3>1. restAge \in 0 .. History /\ restAge + dt <= History
          /\ restAge + dt \in 0 .. RestWindow
      BY <1>1
    <3>. QED  BY <1>0, <2>1, <3>1
  <2>3. \/ restPulses + p > MaxRestPulses /\ flagged' = flagged \cup {restZone}
        \/ /\ restPulses + p <= MaxRestPulses /\ restAge + dt >= RestWindow
           /\ flagged' = flagged \ {restZone}
    BY <1>6 DEF WatchRest, Flag
  <2>4. CASE restPulses + p > MaxRestPulses /\ flagged' = flagged \cup {restZone}
    <3>1. past'[restAge + dt] > 0
      BY <1>1, <2>2, <2>4
    <3>. QED  BY <1>0, <1>1, <1>3, <2>2, <2>4, <3>1, Zenon
  <2>5. CASE /\ restPulses + p <= MaxRestPulses /\ restAge + dt >= RestWindow
             /\ flagged' = flagged \ {restZone}
    <3>1. restAge + dt = RestWindow
      BY <1>1, <2>5
    <3>2. sincePump' >= QuietTime + RestWindow
      BY <1>1, <1>4, <2>1, <3>1
    <3>3. past'[RestWindow] <= MaxRestPulses
      BY <2>2, <2>5, <3>1
    <3>. QED  BY <1>0, <1>1, <1>3, <2>5, <3>2, <3>3, Zenon
  <2>. QED  BY <2>3, <2>4, <2>5, Zenon
<1>. QED  BY <1>2, <1>5, <1>6, Zenon

\* The zone flagged is the one the pump last fed and the line last closed
\* (ValveRestMonitor::tick).
THEOREM FlagsAreTheZonesOwn == Spec => FlagIsTheZonesOwn
<1>1. ASSUME FlowInv, NEW s, NEW t, NEW dt, NEW p, Beat(dt, p), PassTo(s, t, dt, p),
             NEW z \in Zones, z \in flagged' \ flagged
      PROVE  z = closed' /\ past'[RestWindow] > 0
  <2>1. /\ closed' = restZone /\ History \in Nat /\ Counts(past', History)
        /\ flagged' = flagged \cup {restZone} \/ flagged' = flagged \ {restZone}
    BY <1>1, FlagsMove
  <2>2. z = closed' /\ flagged' # flagged \ {restZone}
    BY <1>1, <2>1
  <2>3. PICK k \in 0 .. RestWindow : past'[k] > 0
    BY <1>1, <2>2, FlagsMove
  <2>4. RestWindow \in 0 .. History /\ k \in 0 .. History /\ k <= RestWindow
    BY Sizes, HistoryCovers
  <2>5. past'[k] <= past'[RestWindow] /\ past'[k] \in Nat /\ past'[RestWindow] \in Nat
    BY <2>1, <2>4 DEF Counts
  <2>. QED  BY <2>2, <2>3, <2>5
<1>2. FlowInv /\ [Next]_vars =>
        [\A z \in Zones : z \in flagged' \ flagged =>
           z = closed' /\ past'[RestWindow] > 0]_vars
  BY <1>1, OnlyPassesJudge
<1>. QED  BY <1>2, FlowInvariant, PTL DEF Spec, FlagIsTheZonesOwn

\* A flag that goes down without a reset: the rest window ran its length
\* (ValveRestMonitor::tick).
THEOREM HealsAreEarned == Spec => HealIsEarned
<1>1. ASSUME FlowInv, NEW s, NEW t, NEW dt, NEW p, Beat(dt, p), PassTo(s, t, dt, p),
             NEW z \in Zones, z \in flagged \ flagged'
      PROVE  /\ z = closed' /\ sincePump' >= QuietTime + RestWindow
             /\ past'[RestWindow] <= MaxRestPulses
  <2>1. flagged' # flagged /\ flagged' # flagged \cup {restZone}
    BY <1>1
  <2>2. /\ closed' = restZone /\ flagged' = flagged \ {restZone}
        /\ sincePump' >= QuietTime + RestWindow /\ past'[RestWindow] <= MaxRestPulses
    BY <1>1, <2>1, FlagsMove
  <2>. QED  BY <1>1, <2>2
<1>2. FlowInv /\ [Next]_vars =>
        [\A z \in Zones : z \in flagged \ flagged' /\ ~Reset =>
           /\ z = closed' /\ sincePump' >= QuietTime + RestWindow
           /\ past'[RestWindow] <= MaxRestPulses]_vars
  BY <1>1, OnlyPassesJudge
<1>. QED  BY <1>2, FlowInvariant, PTL DEF Spec, HealIsEarned

=============================================================================
