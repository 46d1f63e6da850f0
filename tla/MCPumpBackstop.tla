---------------------------- MODULE MCPumpBackstop ----------------------------
(* Values for checking PumpBackstop with TLC. *)
EXTENDS PumpBackstop

\* Runs as long as the ATtiny allows: a punctual pass ends one before the
\* ceiling, a late pass after it.
AsLongAsAllowed == { [zone |-> 0, dur |-> HardMax, fert |-> FALSE] }
=============================================================================
