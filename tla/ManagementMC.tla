--------------------------- MODULE ManagementMC ---------------------------
(* Management for TLC: two threads and three requests.                     *)
EXTENDS Management, TLC
=============================================================================
