---------------------------- MODULE MCConnectivity ----------------------------
(* Instances of Connectivity for TLC. *)
EXTENDS Connectivity

\* The farm's network, or none; a power cut between the two writes mixes them.
AnyPost == {<<"farm", "farm">>, <<"", "">>}

NoPosts == {}
=============================================================================
