---------------------------- MODULE LifecycleMC ----------------------------
(* Lifecycle for TLC: one thread, and every fault or the one in question.  *)
EXTENDS Lifecycle, TLC
=============================================================================
