----------------------------- MODULE SelfHealer ----------------------------
(***************************************************************************)
(* Failover of the upstream: the SelfHealer agent (internal/ai/healer.go), *)
(* the key /zengate/upstream in etcd, the goroutine of each gateway that   *)
(* watches it (cmd/gateway/main.go) and the proxy's target                 *)
(* (internal/proxy/handler.go).                                            *)
(*                                                                         *)
(* A healer looks at its node's request counts once per interval and asks  *)
(* the AI brain in a goroutine of its own when too many requests failed.   *)
(* The brain's answer goes to etcd, and back to every node whose watch is  *)
(* open.  A gateway never reads the key except through that watch.         *)
(***************************************************************************)
EXTENDS Integers, Sequences, FiniteSets

CONSTANTS
    Nodes,        \* gateway processes
    Healers,      \* the nodes with AI enabled
    Targets,      \* upstream URLs
    Garbled,      \* values the brain may advise that url.Parse rejects
    Primary,      \* the configured one
    Faults,       \* statuses a bad upstream leads to: 502, 503, ...
    MinRequests,  \* requests an interval needs to be judged (10 in the code)
    FailureLimit, \* percentage of failures that is too much
    Workers,      \* bound: recovery goroutines of a node
    MaxTraffic,   \* bound: requests of a node in an interval
    MaxPending,   \* bound: undelivered events of a watch when advice is taken
    None

ASSUME HealerNodes == Healers \subseteq Nodes
ASSUME PrimaryTarget == Primary \in Targets /\ None \notin Targets
ASSUME ValuesApart == /\ Targets \cap Garbled = {}
                      /\ (Targets \cup Garbled) \cap {"idle", "asking"} = {}
ASSUME FaultStatuses == Faults \subseteq 500..599
ASSUME Bounds == /\ MinRequests \in Nat \ {0} /\ FailureLimit \in 0..100
                 /\ MaxTraffic \in Nat /\ MaxPending \in Nat

VARIABLES
    status,      \* status[t]: what requests to upstream t come back with
    phase,       \* phase[n]: whether the process and its upstream watch run
    target,      \* target[n]: where node n's proxy sends requests
    pending,     \* pending[n]: events n's watch has yet to deliver
    inFlight,    \* inFlight[n]: the target of a request under way, or None
    total,       \* total[n]: requests counted since the last interval
    failed,      \* failed[n]: those of them that count as failed
    proxied,     \* history: those of them that went to the upstream
    failingOver, \* isFailingOver, of each node
    recovery,    \* recovery[n][w]: "idle", "asking", or the value to put
    last,        \* history: the value put last of those url.Parse takes
    heard        \* history: the nodes whose watch was open then, and still is

proxyVars == <<phase, target, pending, heard>>
countVars == <<inFlight, total, failed, proxied>>
healVars == <<failingOver, recovery>>
vars == <<status, phase, target, pending, heard, last,
          inFlight, total, failed, proxied, failingOver, recovery>>

\* What may be put under /zengate/upstream: healer.go:179 only asks for a value
\* that is not empty.
Values == Targets \cup Garbled

TypeOK ==
    /\ status \in [Targets -> {200} \cup Faults]
    /\ phase \in [Nodes -> {"down", "starting", "watching", "deaf"}]
    /\ target \in [Nodes -> Targets]
    /\ pending \in [Nodes -> Seq(Values)]
    /\ inFlight \in [Nodes -> Targets \cup {None}]
    /\ total \in [Nodes -> Nat]
    /\ proxied \in [Nodes -> Nat]
    /\ \A n \in Nodes : /\ failed[n] \in 0..total[n] /\ proxied[n] <= total[n]
    /\ failingOver \in [Nodes -> BOOLEAN]
    /\ recovery \in [Nodes -> [Workers -> {"idle", "asking"} \cup Values]]
    /\ last \in Targets
    /\ heard \subseteq Nodes

Idle == [w \in Workers |-> "idle"]

Init ==
    /\ status = [t \in Targets |-> 200]
    /\ phase = [n \in Nodes |-> "down"]
    /\ target = [n \in Nodes |-> Primary]
    /\ pending = [n \in Nodes |-> << >>]
    /\ inFlight = [n \in Nodes |-> None]
    /\ total = [n \in Nodes |-> 0]
    /\ failed = [n \in Nodes |-> 0]
    /\ proxied = [n \in Nodes |-> 0]
    /\ failingOver = [n \in Nodes |-> FALSE]
    /\ recovery = [n \in Nodes |-> Idle]
    /\ last = Primary
    /\ heard = {}

-----------------------------------------------------------------------------
(* The process, its proxy and its watch.                                    *)

\* main: the proxy is built for the configured upstream.
Boot(n) ==
    /\ phase[n] = "down"
    /\ phase' = [phase EXCEPT ![n] = "starting"]
    /\ UNCHANGED <<status, target, pending, heard, last, countVars, healVars>>

\* The watcher goroutine opens its watch at the present revision; the value
\* the key already has is not read.
OpenWatch(n) ==
    /\ phase[n] = "starting"
    /\ phase' = [phase EXCEPT ![n] = "watching"]
    /\ UNCHANGED <<status, target, pending, heard, last, countVars, healVars>>

\* Where the proxy sends requests once value v was delivered: UpdateTarget, or
\* no change when url.Parse rejects v (the event is logged and skipped).
After(v, old) == IF v \in Targets THEN v ELSE old

\* Mutant: the newest event is taken first.
DeliverNewest(n) ==
    /\ pending[n] # << >>
    /\ target' = [target EXCEPT ![n] = After(pending[n][Len(pending[n])], @)]
    /\ pending' = [pending EXCEPT ![n] = SubSeq(@, 1, Len(@) - 1)]
    /\ UNCHANGED <<status, phase, heard, last, countVars, healVars>>

\* A PUT event arrives.
Deliver(n) ==
    /\ pending[n] # << >>
    /\ target' = [target EXCEPT ![n] = After(Head(pending[n]), @)]
    /\ pending' = [pending EXCEPT ![n] = Tail(@)]
    /\ UNCHANGED <<status, phase, heard, last, countVars, healVars>>

\* The watch channel is closed: the goroutine's range loop ends for good.
CloseWatch(n) ==
    /\ phase[n] = "watching"
    /\ phase' = [phase EXCEPT ![n] = "deaf"]
    /\ pending' = [pending EXCEPT ![n] = << >>]
    /\ heard' = heard \ {n}
    /\ UNCHANGED <<status, target, last, countVars, healVars>>

\* The process ends; the target it failed over to is forgotten.
Crash(n) ==
    /\ phase[n] # "down"
    /\ phase' = [phase EXCEPT ![n] = "down"]
    /\ target' = [target EXCEPT ![n] = Primary]
    /\ pending' = [pending EXCEPT ![n] = << >>]
    /\ heard' = heard \ {n}
    /\ inFlight' = [inFlight EXCEPT ![n] = None]
    /\ total' = [total EXCEPT ![n] = 0]
    /\ failed' = [failed EXCEPT ![n] = 0]
    /\ proxied' = [proxied EXCEPT ![n] = 0]
    /\ failingOver' = [failingOver EXCEPT ![n] = FALSE]
    /\ recovery' = [recovery EXCEPT ![n] = Idle]
    /\ UNCHANGED <<status, last>>

-----------------------------------------------------------------------------
(* Traffic.                                                                 *)

\* ServeHTTP hands a request to the director in force at that moment.
Begin(n) ==
    /\ n \in Healers
    /\ phase[n] # "down"
    /\ inFlight[n] = None
    /\ inFlight' = [inFlight EXCEPT ![n] = target[n]]
    /\ UNCHANGED <<status, proxyVars, last, total, failed, proxied, healVars>>

\* The statuses runLoop counts as failed.
CountsAsFailed(code) == code \in {500, 502, 504}

\* A request to the upstream ends, and is recorded under its status.
Recorded(n, isFailed) ==
    /\ inFlight[n] # None
    /\ total[n] < MaxTraffic
    /\ inFlight' = [inFlight EXCEPT ![n] = None]
    /\ total' = [total EXCEPT ![n] = @ + 1]
    /\ failed' = [failed EXCEPT ![n] = IF isFailed THEN @ + 1 ELSE @]
    /\ proxied' = [proxied EXCEPT ![n] = @ + 1]
    /\ UNCHANGED <<status, proxyVars, last, healVars>>

\* The upstream answers the request.
Finish(n) == Recorded(n, CountsAsFailed(status[inFlight[n]]))

\* The client of a request goes away: the proxy's error handler records a 502,
\* whatever the upstream would have said.
ClientLeaves(n) == Recorded(n, TRUE)

\* A request that the gateway serves itself: /health, /metrics or the policy API,
\* whose answer may be a 500.  It is counted in requests_total like the others.
Elsewhere(n) ==
    /\ n \in Healers
    /\ phase[n] # "down"
    /\ total[n] < MaxTraffic
    /\ total' = [total EXCEPT ![n] = @ + 1]
    /\ \/ UNCHANGED failed
       \/ failed' = [failed EXCEPT ![n] = @ + 1]
    /\ UNCHANGED <<status, proxyVars, last, inFlight, proxied, healVars>>

\* An upstream breaks or is repaired.
Turn(t, code) ==
    /\ status[t] # code
    /\ status' = [status EXCEPT ![t] = code]
    /\ UNCHANGED <<proxyVars, last, countVars, healVars>>

-----------------------------------------------------------------------------
(* The healer.                                                              *)

\* The rate is that of all requests counted, whoever served them.
Breach(n) ==
    /\ total[n] >= MinRequests
    /\ failed[n] * 100 >= FailureLimit * total[n]

\* Mutant: a failover under way does not keep the next one back.
MaySpawnAnyway(n) == Breach(n)

\* evaluateHealth starts a recovery unless one is under way.
MaySpawn(n) == Breach(n) /\ ~failingOver[n]

\* The goroutine a recovery starts in: any of those not in use, they are alike.
FreeWorker(n) == CHOOSE w \in Workers : recovery[n][w] = "idle"

\* Mutant: the failed requests are carried over to the next interval.
IntervalCarryingOver(n) ==
    /\ n \in Healers
    /\ phase[n] # "down"
    /\ total' = [total EXCEPT ![n] = 0]
    /\ proxied' = [proxied EXCEPT ![n] = 0]
    /\ UNCHANGED failed
    /\ IF MaySpawn(n)
       THEN \E w \in Workers :
               /\ recovery[n][w] = "idle"
               /\ w = FreeWorker(n)
               /\ recovery' = [recovery EXCEPT ![n][w] = "asking"]
               /\ failingOver' = [failingOver EXCEPT ![n] = TRUE]
       ELSE UNCHANGED healVars
    /\ UNCHANGED <<status, proxyVars, last, inFlight>>

\* The ticker fires: the counts since the last interval are judged, and start
\* afresh whatever the verdict (also when there were too few requests).
Interval(n) ==
    /\ n \in Healers
    /\ phase[n] # "down"
    /\ total' = [total EXCEPT ![n] = 0]
    /\ failed' = [failed EXCEPT ![n] = 0]
    /\ proxied' = [proxied EXCEPT ![n] = 0]
    /\ IF MaySpawn(n)
       THEN \E w \in Workers :
               /\ recovery[n][w] = "idle"
               /\ w = FreeWorker(n)
               /\ recovery' = [recovery EXCEPT ![n][w] = "asking"]
               /\ failingOver' = [failingOver EXCEPT ![n] = TRUE]
       ELSE UNCHANGED healVars
    /\ UNCHANGED <<status, proxyVars, last, inFlight>>

\* Mutant: queryAIAndRecover returns without the deferred reset.
EndRecoveryFlagged(n, w) ==
    /\ recovery' = [recovery EXCEPT ![n][w] = "idle"]
    /\ UNCHANGED failingOver

\* queryAIAndRecover returns: its deferred function resets isFailingOver.
EndRecovery(n, w) ==
    /\ recovery' = [recovery EXCEPT ![n][w] = "idle"]
    /\ failingOver' = [failingOver EXCEPT ![n] = FALSE]

\* The brain fails, answers no JSON, or advises against a failover.
NoAdvice(n, w) ==
    /\ recovery[n][w] = "asking"
    /\ EndRecovery(n, w)
    /\ UNCHANGED <<status, proxyVars, last, countVars>>

Watching == {n \in Nodes : phase[n] = "watching"}

\* The brain advises some value: any target, even the one that fails, or one
\* that is no URL.  (The bound on undelivered events holds back the advice, so
\* that a Put always goes ahead.)
Advice(n, w, v) ==
    /\ recovery[n][w] = "asking"
    /\ \A m \in Watching : Len(pending[m]) < MaxPending
    /\ recovery' = [recovery EXCEPT ![n][w] = v]
    /\ UNCHANGED <<status, proxyVars, last, countVars, failingOver>>

\* executeFailover: the value is put, and every open watch will deliver it (also
\* when the reply is lost: an error is only logged).
Put(n, w) ==
    LET v == recovery[n][w]
    IN  /\ v \in Values
        /\ pending' = [m \in Nodes |-> IF m \in Watching THEN Append(pending[m], v)
                                       ELSE pending[m]]
        /\ IF v \in Targets THEN last' = v /\ heard' = Watching
                            ELSE UNCHANGED <<last, heard>>
        /\ EndRecovery(n, w)
        /\ UNCHANGED <<status, phase, target, countVars>>

\* The Put fails and writes nothing; executeFailover only logs it.
PutFails(n, w) ==
    /\ recovery[n][w] \in Values
    /\ EndRecovery(n, w)
    /\ UNCHANGED <<status, proxyVars, last, countVars>>

Next ==
    \/ \E n \in Nodes :
          \/ Boot(n) \/ OpenWatch(n) \/ Deliver(n) \/ CloseWatch(n) \/ Crash(n)
          \/ Begin(n) \/ Finish(n) \/ ClientLeaves(n) \/ Elsewhere(n) \/ Interval(n)
    \/ \E n \in Nodes, w \in Workers :
          \/ NoAdvice(n, w) \/ Put(n, w) \/ PutFails(n, w)
          \/ \E v \in Values : Advice(n, w, v)
    \/ \E t \in Targets, code \in {200} \cup Faults : Turn(t, code)

\* The watch goes on; the brain and etcd answer or time out, and if they are
\* asked time and again the brain advises a new target and etcd takes it.
Fairness ==
    \A n \in Nodes :
        /\ WF_vars(Deliver(n))
        /\ \A w \in Workers :
              /\ WF_vars(NoAdvice(n, w) \/ \E v \in Values : Advice(n, w, v))
              /\ WF_vars(Put(n, w) \/ PutFails(n, w))
        /\ SF_vars(\E w \in Workers, t \in Targets \ {Primary} : Advice(n, w, t))
        /\ SF_vars(\E w \in Workers : recovery[n][w] \in Targets \ {Primary} /\ Put(n, w))

Spec == Init /\ [][Next]_vars
FairSpec == Spec /\ Fairness

-----------------------------------------------------------------------------
(* Properties.                                                              *)

\* A node runs at most one recovery, and its flag says whether it does: the
\* flag is set by the loop and reset by the goroutine (healer.go:124-145).
SingleFlight ==
    \A n \in Nodes :
        LET busy == {w \in Workers : recovery[n][w] # "idle"}
        IN  Cardinality(busy) <= 1 /\ (failingOver[n] <=> busy # {})

\* The nodes that heard the latest failover to a value that is a URL, and have
\* nothing left to deliver, all send their requests to its target, whichever
\* healer put it and whatever was put after it that no node can use
\* (main.go:139-154 and UpdateTarget).
DrainedNodesAgree ==
    \A n \in heard : pending[n] = << >> => target[n] = last

\* An interval of node n ends with enough requests, enough of them to the upstream.
Telling(n) ==
    /\ Interval(n)
    /\ total[n] >= MinRequests
    /\ proxied[n] * 100 >= FailureLimit * total[n]

\* If the primary never works again, a healer that stays up, keeps its watch and
\* whose requests are not too many health checks, scrapes and policy calls takes
\* its node off the primary, again and again if the brain sends it back; no error
\* of the brain or of etcd, and no value that is not a URL, leaves it stuck.
LeavesDeadPrimary ==
    \A n \in Healers :
        (/\ <>[](phase[n] = "watching")
         /\ <>[]CountsAsFailed(status[Primary])
         /\ []<><<Telling(n)>>_vars) => []<>(target[n] # Primary)
=============================================================================
