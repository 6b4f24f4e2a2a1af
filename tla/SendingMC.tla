----------------------------- MODULE SendingMC -----------------------------
(* Sending for TLC: a call of send() and a batch of two messages.          *)
EXTENDS Sending, TLC

SendAndBatch == [s1 |-> <<"m1">>, b |-> <<"m3", "m4">>]
=============================================================================
