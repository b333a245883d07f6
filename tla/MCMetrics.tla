----------------------------- MODULE MCMetrics -----------------------------
(* Requests for two users by their IDs, a number and a UUID, count under    *)
(* one route; r2 asks for a plain path and is answered with status 429.     *)
EXTENDS MeteredRequests, TLC

CONSTANTS r1, r2, users, stats

MCWords == {"GET", "users", "stats", "123", "uuid", "200", "429"}
Word(w) == [text |-> <<w>>, length |-> 5, digits |-> FALSE, hyphen |-> FALSE]
Number == [text |-> <<"123">>, length |-> 3, digits |-> TRUE, hyphen |-> FALSE]
UUID == [text |-> <<"uuid">>, length |-> 36, digits |-> FALSE, hyphen |-> TRUE]
MCSegments == {Word("users"), Word("stats"), Number, UUID}

MCAsked == [r \in Requests |->
    IF r = r2 THEN [method |-> "GET", path |-> <<Word("users"), Word("stats")>>, status |-> "429"]
    ELSE [method |-> "GET", path |-> <<Word("users"), IF r = r1 THEN Number ELSE UUID>>,
          status |-> "200"]]
\* Key users is that of all paths for one user, key stats that of the plain one.
MCRoute == users :> <<"GET", ":", "/", "users", "/", ":", "id">>
        @@ stats :> <<"GET", ":", "/", "users", "/", "stats">>
MCText == <<users :> MCRoute[users] \o <<":", "200">> @@ stats :> MCRoute[stats] \o <<":", "429">>,
            MCRoute, MCRoute>>
MCKey == [s \in 1..3 |-> [r \in Requests |-> IF r = r2 THEN stats ELSE users]]
MCAmount == [s \in 1..3 |-> [r \in Requests |-> IF s = 2 THEN 3 ELSE 1]]

\* What the theorem about the lines of a scrape supposes, holds of these requests.
ASSUME MCRequests ==
    /\ RequestTypes
    /\ KeysOfRequests
    /\ \A r \in Requests : Amount[requestsTotal][r] = 1
=============================================================================
