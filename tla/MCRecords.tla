----------------------------- MODULE MCRecords -----------------------------
(* Values for checking Records with TLC. *)
EXTENDS Records

NoRow == [id |-> 0, stamped |-> FALSE]
=============================================================================
