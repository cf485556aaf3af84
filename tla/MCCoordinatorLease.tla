------------------------- MODULE MCCoordinatorLease -------------------------
(* A small instance of CoordinatorLease for TLC. *)
EXTENDS CoordinatorLease

CONSTANTS d1, d2
=============================================================================
