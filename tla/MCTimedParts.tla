---------------------------- MODULE MCTimedParts ---------------------------
(* One token expires, the other never does. *)
EXTENDS TimedParts, TLC

CONSTANTS expiring, lasting

MCExpiry == expiring :> 2 @@ lasting :> Never
=============================================================================
