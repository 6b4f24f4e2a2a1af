------------------------------ MODULE LinksMC ------------------------------
(* Links for TLC.                                                            *)
EXTENDS Links, TLC
=============================================================================
