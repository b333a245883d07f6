------------------------------ MODULE Limiters -----------------------------
(***************************************************************************)
(* The two limiters that need no sliding-window script: the token bucket a *)
(* gateway falls back to (cmd/gateway/main.go chooses it once, at startup) *)
(* and the fixed-window limiter of pkg/ratelimiter.  A process uses one.   *)
(***************************************************************************)
EXTENDS TokenBucket, FixedWindow

VARIABLE inUse  \* the limiter this process was started with

vars == <<clock, inUse, bucketVars, windowVars>>

TypeOK ==
    /\ clock \in Nat
    /\ inUse \in {"tokenBucket", "fixedWindow"}
    /\ BucketTypeOK
    /\ WindowTypeOK

Init ==
    /\ ClockInit
    /\ inUse \in {"tokenBucket", "fixedWindow"}
    /\ BucketInit
    /\ WindowInit

TimePasses ==
    /\ Tick
    /\ UNCHANGED <<inUse, bucketVars, windowVars>>

Bucket(c) ==
    /\ inUse = "tokenBucket"
    /\ Len(granted[c]) < MaxCalls
    /\ Allow(c)
    /\ UNCHANGED <<clock, inUse, windowVars>>

Fixed(x) ==
    /\ inUse = "fixedWindow"
    /\ Check(x) \/ ReplyLost(x) \/ FailOpen(x)
    /\ UNCHANGED <<clock, inUse, bucketVars>>

Next ==
    \/ TimePasses
    \/ \E c \in Clients : Bucket(c)
    \/ \E x \in Calls : Fixed(x)

Spec == Init /\ [][Next]_vars
=============================================================================
