-------------------------- MODULE MeteredRequests --------------------------
(***************************************************************************)
(* The collector of module Metrics under the keys of module MetricKeys: of *)
(* requests with a method, a path and a status.                            *)
(***************************************************************************)
EXTENDS Metrics, MetricKeys

CONSTANTS
    Words,     \* what text is made of, beside the colon and the slash
    Segments,  \* the segments of paths
    Asked,     \* Asked[r]: the method, path and status of request r
    Text       \* Text[s][k]: the text of key k of series s

\* A path may hold a colon anywhere; net/http takes no method with one.
RequestTypes ==
    /\ {":", "/"} \cap Words = {}
    /\ Segments \subseteq [text : Seq(Words \cup {":"}), length : Nat,
                           digits : BOOLEAN, hyphen : BOOLEAN]
    /\ \A a, b \in Segments : a.text = b.text => a = b
    /\ Asked \in [Requests -> [method : Words, path : Seq(Segments), status : Words]]

\* Each request is counted under the keys that the code builds for it.
KeysOfRequests ==
    /\ \A s \in Series : \A k, m \in Keys : Text[s][k] = Text[s][m] => k = m
    /\ \A r \in Requests :
          /\ Text[requestsTotal][Key[requestsTotal][r]] = CounterKey(Asked[r])
          /\ \A s \in {latencySum, latencyCount} : Text[s][Key[s][r]] = LatencyKey(Asked[r])
          /\ r \in TooMany <=> Asked[r].status = "429"

-----------------------------------------------------------------------------
(* Properties.                                                              *)

\* Two paths are of one route when they differ in segments only that look like
\* IDs, or are ":id" to the letter.
ReadsAsID(segment) == isLikelyID(segment) \/ segment.text = <<":", "id">>

SameRoute(p, q) ==
    /\ Len(p) = Len(q)
    /\ \A i \in DOMAIN p : (ReadsAsID(p[i]) /\ ReadsAsID(q[i])) \/ p[i].text = q[i].text

\* The path has no colon, neither as it was asked nor for an ID.
Plain(path) ==
    \A i \in DOMAIN path : ~isLikelyID(path[i]) /\ ":" \notin Range(path[i].text)

Counted == {r \in Requests : stage[r] > requestsTotal}

\* What a scrape should print for r: its method, its route and its status.
Names(r) == <<<<Asked[r].method>>, normalizePath(Asked[r].path), <<Asked[r].status>>>>
Printed(r) == Labels(Text[requestsTotal][Key[requestsTotal][r]])

\* A line of a scrape is about one method, route and status: its total is the
\* number of requests counted so far that agree on them, however they raced, and
\* it names them as they are when the path has no colon.
LinesMeanRequests ==
    \A r \in Counted :
        LET alike == {q \in Counted :
                        /\ Asked[q].method = Asked[r].method
                        /\ SameRoute(Asked[q].path, Asked[r].path)
                        /\ Asked[q].status = Asked[r].status}
        IN  /\ value[table[requestsTotal][Key[requestsTotal][r]]] = Cardinality(alike)
            /\ Plain(Asked[r].path) => Printed(r) = Names(r)
=============================================================================
