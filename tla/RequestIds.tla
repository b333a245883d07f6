----------------------------- MODULE RequestIds ----------------------------
(***************************************************************************)
(* The ids RequestIDMiddleware (internal/proxy/middleware.go) gives to     *)
(* requests that bring none.  The counter is a plain package variable that *)
(* the goroutines of all requests share: requestIDCounter++ is a load and  *)
(* a store, the id takes the time and then loads the counter once more,    *)
(* and nothing orders those steps of two requests.                         *)
(***************************************************************************)
EXTENDS Integers, FiniteSets

CONSTANTS
    Requests, \* requests that come without an X-Request-Id
    MaxMs,    \* bound of the clock, in milliseconds
    None

VARIABLES
    counter, \* requestIDCounter
    ms,      \* the clock
    step,    \* step[r]: what request r has done of its id
    seen,    \* seen[r]: the counter's value, or the time, that r has read
    id       \* id[r]: its X-Request-Id, <<milliseconds, counter>>

vars == <<counter, ms, step, seen, id>>

TypeOK ==
    /\ counter \in 0..Cardinality(Requests)
    /\ ms \in 0..MaxMs
    /\ step \in [Requests -> {"new", "loaded", "stored", "timed", "stamped"}]
    /\ seen \in [Requests -> Nat]
    /\ id \in [Requests -> {None} \cup ((0..MaxMs) \X (1..Cardinality(Requests)))]

Init ==
    /\ counter = 0
    /\ ms = 0
    /\ step = [r \in Requests |-> "new"]
    /\ seen = [r \in Requests |-> 0]
    /\ id = [r \in Requests |-> None]

Go(r, from, to) == step[r] = from /\ step' = [step EXCEPT ![r] = to]

Load(r) ==
    /\ Go(r, "new", "loaded")
    /\ seen' = [seen EXCEPT ![r] = counter]
    /\ UNCHANGED <<counter, ms, id>>

Store(r) ==
    /\ Go(r, "loaded", "stored")
    /\ counter' = seen[r] + 1
    /\ UNCHANGED <<ms, seen, id>>

TakeTime(r) ==
    /\ Go(r, "stored", "timed")
    /\ seen' = [seen EXCEPT ![r] = ms]
    /\ UNCHANGED <<counter, ms, id>>

Stamp(r) ==
    /\ Go(r, "timed", "stamped")
    /\ id' = [id EXCEPT ![r] = <<seen[r], counter>>]
    /\ UNCHANGED <<counter, ms, seen>>

Tick ==
    /\ ms < MaxMs
    /\ ms' = ms + 1
    /\ UNCHANGED <<counter, step, seen, id>>

Next ==
    \/ \E r \in Requests : Load(r) \/ Store(r) \/ TakeTime(r) \/ Stamp(r)
    \/ Tick

Spec == Init /\ [][Next]_vars

-----------------------------------------------------------------------------
\* "RequestIDMiddleware injects a unique X-Request-Id header into every
\* request" (proxy/middleware.go:43): no two of the ids it makes agree.
UniqueIds ==
    \A r, q \in Requests : r # q /\ id[r] # None => id[r] # id[q]
=============================================================================
