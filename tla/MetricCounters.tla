--------------------------- MODULE MetricCounters --------------------------
(***************************************************************************)
(* What the metrics collector (internal/metrics/handler.go) promises: a    *)
(* request that is recorded counts once in each of its three series, and   *)
(* nothing that was counted is lost.                                       *)
(***************************************************************************)
EXTENDS Integers

CONSTANTS
    Requests,  \* the requests that are recorded
    Series,    \* the families of counters
    Keys,      \* the label sets of a family
    Key,       \* Key[s][r]:    the label set request r counts under in s
    Amount     \* Amount[s][r]: what r adds there

VARIABLES
    counted,   \* the pairs <<series, request>> that were added
    total      \* total[s][k]: the value of counter k of series s

Init ==
    /\ counted = {}
    /\ total = [s \in Series |-> [k \in Keys |-> 0]]

\* Request r counts in series s, at once and for good.
Count(s, r) ==
    /\ <<s, r>> \notin counted
    /\ counted' = counted \cup {<<s, r>>}
    /\ total' = [total EXCEPT ![s][Key[s][r]] = @ + Amount[s][r]]

Next == \E s \in Series, r \in Requests : Count(s, r)

Spec == Init /\ [][Next]_<<counted, total>>
=============================================================================
