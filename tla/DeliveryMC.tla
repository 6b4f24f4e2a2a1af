----------------------------- MODULE DeliveryMC -----------------------------
(* Delivery for TLC: one receiver, recovered under a second name.            *)
EXTENDS Delivery, TLC
=============================================================================
