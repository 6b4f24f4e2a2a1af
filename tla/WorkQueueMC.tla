----------------------------- MODULE WorkQueueMC -----------------------------
(* WorkQueue for TLC: a sender and up to two receivers created at once.     *)
EXTENDS WorkQueue, TLC
=============================================================================
