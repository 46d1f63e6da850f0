----------------------------- MODULE DrainGate -----------------------------
(***************************************************************************)
(* The gate that holds a check back until the meter has gone quiet after a *)
(* run, or until it is clear that it never will.  Time is in units; where  *)
(* the code keeps a start time or a count to subtract, a gate keeps the    *)
(* difference, up to the limit it is compared with.                        *)
(***************************************************************************)
EXTENDS Integers

CONSTANTS
  QuietTime,        \* quietMs
  QuietPulses,      \* quietPulses
  DrainCap          \* capMs

ASSUME GateAssumption ==
  /\ QuietTime \in Nat \ {0} /\ QuietPulses \in Nat /\ DrainCap \in Nat \ {0}
  /\ QuietTime <= DrainCap

UpTo(limit, n) == IF n > limit THEN limit ELSE n

Gates == [counted : 0 .. QuietPulses + 1, quiet : 0 .. QuietTime, waited : 0 .. DrainCap,
          done : BOOLEAN, capped : BOOLEAN]

\* A gate nobody has opened, and one whose wait is over: only capped is read.
Done(capped) ==
  [counted |-> 0, quiet |-> 0, waited |-> 0, done |-> TRUE, capped |-> capped]

\* DrainGate::open.
open == [counted |-> 0, quiet |-> 0, waited |-> 0, done |-> FALSE, capped |-> FALSE]

\* DrainGate::drained, dt units and p pulses after the last look.  A burst
\* begins the quiet span again; the cap ends the wait whatever the meter does.
drained(g, dt, p) ==
  LET counted == g.counted + p
      burst   == counted > QuietPulses
      quiet   == IF burst THEN 0 ELSE g.quiet + dt
      waited  == g.waited + dt
  IN  CASE g.done                             -> g
        [] ~g.done /\ quiet >= QuietTime      -> Done(FALSE)
        [] ~g.done /\ quiet < QuietTime /\ waited >= DrainCap -> Done(TRUE)
        [] OTHER -> [g EXCEPT !.counted = IF burst THEN 0 ELSE counted,
                              !.quiet = quiet, !.waited = waited]
=============================================================================
