---------------------------- MODULE TokenBucket ----------------------------
(***************************************************************************)
(* The in-memory rate limiter a gateway process falls back to when Redis   *)
(* does not answer at startup: TokenBucketLimiter.Allow                    *)
(* (internal/ratelimit/limiter.go), made by cmd/gateway/main.go with a     *)
(* rate and a capacity of its own.                                         *)
(*                                                                         *)
(* Allow holds the limiter's mutex from its first line to its last, and    *)
(* reads the clock inside, so one call is one step.  The limit and window  *)
(* it is called with play no part.  Tokens are floats in the code; here a  *)
(* token is Unit units and all arithmetic is exact.                        *)
(***************************************************************************)
EXTENDS Clock, Sequences

CONSTANTS
    Clients,
    Capacity,  \* tokens a full bucket holds
    Unit,      \* units in a token
    Rate,      \* units that flow into a bucket in one tick of the clock
    MaxCalls   \* bound: calls a client is granted

ASSUME BucketTypes == /\ Capacity \in Nat /\ Rate \in Nat /\ MaxCalls \in Nat
                      /\ Unit \in Nat \ {0}

VARIABLES
    buckets,  \* buckets[c]: the bucket of client c, or NoBucket
    granted   \* history: granted[c], the times at which c was allowed

bucketVars == <<buckets, granted>>

NoBucket == [tokens |-> -1, lastRefill |-> 0]

BucketTypeOK ==
    /\ buckets \in [Clients -> [tokens : 0..(Capacity * Unit), lastRefill : 0..clock]
                               \cup {NoBucket}]
    /\ granted \in [Clients -> Seq(0..clock)]

BucketInit ==
    /\ buckets = [c \in Clients |-> NoBucket]
    /\ granted = [c \in Clients |-> << >>]

\* Mutant: the refill is not capped.
RefilledUncapped(c) ==
    IF buckets[c] = NoBucket THEN Capacity * Unit
    ELSE buckets[c].tokens + (clock - buckets[c].lastRefill) * Rate

\* The bucket's content after the refill; a client's first bucket is full.
Refilled(c) ==
    LET filled == buckets[c].tokens + (clock - buckets[c].lastRefill) * Rate
    IN  IF buckets[c] = NoBucket \/ filled > Capacity * Unit
        THEN Capacity * Unit
        ELSE filled

\* Mutant: a call that finds no token still moves lastRefill, and its refill
\* is dropped.
AllowForgetful(c) ==
    LET tokens == Refilled(c)
    IN  IF tokens >= Unit
        THEN /\ buckets' = [buckets EXCEPT ![c] =
                              [tokens |-> tokens - Unit, lastRefill |-> clock]]
             /\ granted' = [granted EXCEPT ![c] = Append(@, clock)]
        ELSE /\ buckets' = [buckets EXCEPT ![c].lastRefill = clock]
             /\ UNCHANGED granted

Allow(c) ==
    LET tokens == Refilled(c)
    IN  IF tokens >= Unit
        THEN /\ buckets' = [buckets EXCEPT ![c] =
                              [tokens |-> tokens - Unit, lastRefill |-> clock]]
             /\ granted' = [granted EXCEPT ![c] = Append(@, clock)]
        ELSE /\ buckets' = [buckets EXCEPT ![c] = [tokens |-> tokens, lastRefill |-> clock]]
             /\ UNCHANGED granted

-----------------------------------------------------------------------------
(* Properties.                                                              *)

\* The reference definition: in no stretch of the calls granted at `times' are
\* there more than a full bucket and what flows in meanwhile would pay for.
WithinBudget(times) ==
    \A i, j \in 1..Len(times) : i <= j =>
        (j - i + 1) * Unit <= Capacity * Unit + Rate * (times[j] - times[i])

\* No client is ever granted more than its budget (limiter.go, refill and cap).
BudgetKept == \A c \in Clients : WithinBudget(granted[c])

\* A call that is turned away would have broken the budget: Allow grants
\* exactly what WithinBudget permits, however calls and pauses alternate.
DeniesOnlyOverBudget ==
    [][\A c \in Clients :
          buckets'[c] # buckets[c] /\ granted'[c] = granted[c] =>
              ~WithinBudget(Append(granted[c], clock))]_<<clock, buckets, granted>>
=============================================================================
