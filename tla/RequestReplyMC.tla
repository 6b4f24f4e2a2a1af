--------------------------- MODULE RequestReplyMC ---------------------------
(* RequestReply for TLC: two helpers of one thread and one of another.     *)
EXTENDS RequestReply, TLC

CONSTANTS h1, h2, h3, t1, t2

MCHome == h1 :> t1 @@ h2 :> t1 @@ h3 :> t2
=============================================================================
