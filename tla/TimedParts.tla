----------------------------- MODULE TimedParts ----------------------------
(***************************************************************************)
(* The parts of the gateway that decide by a clock and share no state with *)
(* each other: the limiters of module Limiters, the token check and the    *)
(* traffic analyzer.  They are put side by side, one of them per behaviour.*)
(***************************************************************************)
EXTENDS Limiters, TokenCheck, Autoscaler

VARIABLE part  \* the part whose behaviour this is

allVars == <<part, clock, inUse, bucketVars, windowVars, checkVars, scalerVars>>

AllTypeOK ==
    /\ part \in {"limiter", "tokenCheck", "autoscaler"}
    /\ TypeOK
    /\ CheckTypeOK
    /\ ScalerTypeOK

AllInit ==
    /\ part \in {"limiter", "tokenCheck", "autoscaler"}
    /\ Init
    /\ CheckInit
    /\ ScalerInit
    \* A part that plays no role starts in one state only.
    /\ part # "limiter" => inUse = "tokenBucket"
    /\ part # "tokenCheck" => \A r \in Checks : token[r] = CHOOSE t \in Tokens : TRUE
    /\ part # "autoscaler" => keys = {}

Limiter ==
    /\ part = "limiter"
    /\ Next
    /\ UNCHANGED <<part, checkVars, scalerVars>>

Authentication ==
    /\ part = "tokenCheck"
    /\ \/ CheckNext /\ UNCHANGED clock
       \/ Tick /\ UNCHANGED checkVars
    /\ UNCHANGED <<part, inUse, bucketVars, windowVars, scalerVars>>

Scaling ==
    /\ part = "autoscaler"
    /\ ScalerNext
    /\ UNCHANGED <<part, clock, inUse, bucketVars, windowVars, checkVars>>

AllNext == Limiter \/ Authentication \/ Scaling

AllSpec == AllInit /\ [][AllNext]_allVars
=============================================================================
