------------------------------ MODULE MCTenants ------------------------------
(* Values for checking Tenants with TLC.                                     *)
EXTENDS Tenants

CONSTANTS r1, r2

TwoUploads == {r1, r2}
=============================================================================
