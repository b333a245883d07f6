------------------------------ MODULE Gateway ------------------------------
(***************************************************************************)
(* The life of a request in one gateway process, and of the process:       *)
(* the middleware chain (cmd/gateway/main.go, internal/proxy/middleware.go *)
(* and internal/ratelimit/middleware.go), the reverse proxy                *)
(* (internal/proxy/handler.go), and the graceful shutdown of main.         *)
(*                                                                         *)
(* A request goes in through the layers of the chain to the mux, and out   *)
(* through them again; a layer may answer it and turn it back, and a panic *)
(* skips every layer up to the one that recovers it.  Requests run         *)
(* concurrently and share the metrics (and the id counter: RequestIds).    *)
(*                                                                         *)
(* The rate limiter's verdict is any (SlidingWindow and TokenBucket say    *)
(* which), and of the metrics' lock only this much is kept: a scrape that  *)
(* panics while a request is being recorded jams it (see Metrics).         *)
(***************************************************************************)
EXTENDS Integers, Sequences, FiniteSets, SequencesExt

CONSTANTS
    Requests,      \* bound: the requests of a behaviour
    Clients,       \* identities a token may carry
    Agents,        \* the AI agents main starts, in the order it stops them
    UpstreamCodes, \* statuses an upstream may answer
    None

ASSUME AgentSequence == IsInjective(Agents)
ASSUME RequestBound == IsFiniteSet(Requests)
ASSUME StatusCodes == UpstreamCodes \subseteq 100..999
ASSUME Identities == None \notin Clients /\ "anonymous" \notin Clients

Codes == {200, 204, 401, 404, 429, 500, 502} \cup UpstreamCodes
Kinds == {"preflight", "internal", "scrape", "proxied"}

\* The key AuthMiddleware sets and the one the limiter reads.  (WithIdentity of
\* auth/context.go would set the second; nothing calls it.)
ContextKeys == {"IdentityKey", "ClientIDCtxKey"}

VARIABLES
    server,   \* main: "running", "stopping", "draining", "stopped", "killed"
    loop,     \* loop[i]: the run loop of Agents[i]
    jammed,   \* whether the metrics' lock is held for good
    total,    \* total[c]: requests_total over the keys of status c
    limited,  \* rate_limited_total
    pos,      \* pos[r]: the layer request r is in, 0 before and after
    dir,      \* dir[r]: what it is doing there
    kind,     \* kind[r]: the sort of request
    bearer,   \* bearer[r]: whom its token names, if it has a good one
    context,  \* context[r][key]: the client its context has under key, or None
    judgedAs, \* judgedAs[r]: the client the limiter was asked about
    verdict,  \* verdict[r]: what the limiter said
    sent,     \* sent[r]: the status sent to the client, 0 when none is yet
    panicked  \* history: requests whose handler panicked

processVars == <<server, loop>>
metricVars == <<jammed, total, limited>>
clientVars == <<kind, bearer, context, judgedAs, verdict>>
vars == <<server, loop, jammed, total, limited, pos, dir, kind, bearer,
          context, judgedAs, verdict, sent, panicked>>

-----------------------------------------------------------------------------
(* The chain.                                                               *)

Middlewares ==
    <<"recovery", "requestId", "logging", "cors", "auth", "rateLimit", "metrics">>

\* Mutant: the handler is wrapped by the first middleware first.
ChainForward(handler, middlewares) ==
    FoldLeft(LAMBDA inner, m : <<m>> \o inner, <<handler>>, middlewares)

\* The layers from the outermost in: the last middleware wraps first.
Chain(handler, middlewares) ==
    LET wrappedFrom[i \in 1..(Len(middlewares) + 1)] ==
            IF i > Len(middlewares) THEN <<handler>>
            ELSE <<middlewares[i]>> \o wrappedFrom[i + 1]
    IN  wrappedFrom[1]

Layers == Chain("mux", Middlewares)

-----------------------------------------------------------------------------
TypeOK ==
    /\ server \in {"running", "stopping", "draining", "stopped", "killed"}
    /\ loop \in [DOMAIN Agents -> {"waiting", "stuck", "ended"}]
    /\ jammed \in BOOLEAN
    /\ total \in [Codes -> 0..Cardinality(Requests)]
    /\ limited \in 0..Cardinality(Requests)
    /\ pos \in [Requests -> 0..Len(Layers)]
    /\ dir \in [Requests -> {"new", "in", "upstream", "copying", "panic",
                             "out", "done"}]
    /\ kind \in [Requests -> Kinds]
    /\ bearer \in [Requests -> Clients \cup {None}]
    /\ context \in [Requests -> [ContextKeys -> Clients \cup {None}]]
    /\ judgedAs \in [Requests -> Clients \cup {None, "anonymous"}]
    /\ verdict \in [Requests -> {"none", "allowed", "denied", "error"}]
    /\ sent \in [Requests -> Codes \cup {0}]
    /\ panicked \subseteq Requests

Init ==
    /\ server = "running"
    /\ loop = [i \in DOMAIN Agents |-> "waiting"]
    /\ jammed = FALSE
    /\ total = [c \in Codes |-> 0]
    /\ limited = 0
    /\ pos = [r \in Requests |-> 0]
    /\ dir = [r \in Requests |-> "new"]
    /\ kind = [r \in Requests |-> "internal"]
    /\ bearer = [r \in Requests |-> None]
    /\ context = [r \in Requests |-> [key \in ContextKeys |-> None]]
    /\ judgedAs = [r \in Requests |-> None]
    /\ verdict = [r \in Requests |-> "none"]
    /\ sent = [r \in Requests |-> 0]
    /\ panicked = {}

Up == server \notin {"stopped", "killed"}

\* Request r is on its way in, in the given layer.
Entering(r, layer) ==
    Up /\ dir[r] = "in" /\ Layers[pos[r]] = layer

\* The layer calls the next handler.
CallNext(r) ==
    /\ pos' = [pos EXCEPT ![r] = @ + 1]
    /\ dir' = [dir EXCEPT ![r] = "in"]

\* WriteHeader: the first status is the one that is sent.
Send(r, code) == sent' = [sent EXCEPT ![r] = IF @ = 0 THEN code ELSE @]

\* The layer answers itself, and returns.
Answer(r, code) ==
    /\ Send(r, code)
    /\ dir' = [dir EXCEPT ![r] = "out"]
    /\ UNCHANGED pos

\* The server accepts a request (until Shutdown closes the listener), with or
\* without a good token.
Arrive(r, k, who) ==
    /\ server \in {"running", "stopping"}
    /\ dir[r] = "new"
    /\ pos' = [pos EXCEPT ![r] = 1]
    /\ dir' = [dir EXCEPT ![r] = "in"]
    /\ kind' = [kind EXCEPT ![r] = k]
    /\ bearer' = [bearer EXCEPT ![r] = who]
    /\ UNCHANGED <<processVars, metricVars, context, judgedAs, verdict, sent,
                   panicked>>

\* Layers that on the way in only set the id, wrap the writer or note the time,
\* and CORS for a request that is no preflight.
PassOn(r) ==
    /\ \/ \E layer \in {"recovery", "requestId", "logging", "metrics"} : Entering(r, layer)
       \/ Entering(r, "cors") /\ kind[r] # "preflight"
    /\ CallNext(r)
    /\ UNCHANGED <<processVars, metricVars, clientVars, sent, panicked>>

-----------------------------------------------------------------------------
(* Layers that may turn a request back.                                     *)

\* CORSMiddleware answers an OPTIONS request.
Preflight(r) ==
    /\ Entering(r, "cors")
    /\ kind[r] = "preflight"
    /\ Answer(r, 204)
    /\ UNCHANGED <<processVars, metricVars, clientVars, panicked>>

\* AuthMiddleware puts the identity of a good token under IdentityKey.
Authenticate(r) ==
    /\ Entering(r, "auth")
    /\ bearer[r] # None
    /\ context' = [context EXCEPT ![r]["IdentityKey"] = bearer[r]]
    /\ CallNext(r)
    /\ UNCHANGED <<processVars, metricVars, kind, bearer, judgedAs,
                   verdict, sent, panicked>>

\* It refuses a request without a token, and one the validator fails on: the
\* token is no good, or the blacklist cannot be asked.
Refuse(r) ==
    /\ Entering(r, "auth")
    /\ Answer(r, 401)
    /\ UNCHANGED <<processVars, metricVars, clientVars, panicked>>

\* The limiter is asked about the client under ClientIDCtxKey, or "anonymous".
Judge(r, answer) ==
    LET client == context[r]["ClientIDCtxKey"]
    IN  /\ Entering(r, "rateLimit")
        /\ judgedAs' = [judgedAs EXCEPT
              ![r] = IF client = None THEN "anonymous" ELSE client]
        /\ verdict' = [verdict EXCEPT ![r] = answer]
        /\ UNCHANGED <<processVars, kind, bearer, context, panicked>>

\* A request within its budget goes on; so does one the limiter fails on.
Admit(r) ==
    /\ Judge(r, "allowed") \/ Judge(r, "error")
    /\ CallNext(r)
    /\ UNCHANGED <<metricVars, sent>>

\* Mutant: the limiter counts its denials as well.
DenyCountedTwice(r) ==
    /\ Judge(r, "denied")
    /\ limited' = limited + 2
    /\ Answer(r, 429)
    /\ UNCHANGED <<jammed, total>>

\* Mutant: a denied request is not counted, as the early return comes first.
DenyUncounted(r) ==
    /\ Judge(r, "denied")
    /\ Answer(r, 429)
    /\ UNCHANGED metricVars

\* One over its budget is counted and answered 429.
Deny(r) ==
    /\ Judge(r, "denied")
    /\ limited' = limited + 1
    /\ Answer(r, 429)
    /\ UNCHANGED <<jammed, total>>

-----------------------------------------------------------------------------
(* The mux and the proxy.                                                   *)

\* A path the gateway serves itself, or does not serve: the statuses of its own
\* handlers go the same way, and 200 and 404 stand for all of them.
ServeInternal(r, code) ==
    /\ Entering(r, "mux")
    /\ kind[r] = "internal"
    /\ Answer(r, code)
    /\ UNCHANGED <<processVars, metricVars, clientVars, panicked>>

\* GET /metrics; it waits while the lock is jammed.
Scrape(r) ==
    /\ Entering(r, "mux")
    /\ kind[r] = "scrape"
    /\ ~jammed
    /\ Answer(r, 200)
    /\ UNCHANGED <<processVars, metricVars, clientVars, panicked>>

\* Request q is about to be recorded.
Recording(q) == dir[q] = "out" /\ pos[q] > 1 /\ Layers[pos[q] - 1] = "metrics"

\* GET /metrics panics on a key that is only half created, with the lock held.
ScrapePanics(r) ==
    /\ Entering(r, "mux")
    /\ kind[r] = "scrape"
    /\ ~jammed
    /\ \E q \in Requests : Recording(q)
    /\ jammed' = TRUE
    /\ dir' = [dir EXCEPT ![r] = "panic"]
    /\ panicked' = panicked \cup {r}
    /\ UNCHANGED <<processVars, total, limited, pos, clientVars, sent>>

\* The catch-all route hands the request to the reverse proxy.
Forward(r) ==
    /\ Entering(r, "mux")
    /\ kind[r] = "proxied"
    /\ dir' = [dir EXCEPT ![r] = "upstream"]
    /\ UNCHANGED <<processVars, metricVars, pos, clientVars, sent,
                   panicked>>

\* The upstream's status is sent on, and its body is copied.
UpstreamAnswers(r, code) ==
    /\ Up
    /\ dir[r] = "upstream"
    /\ Send(r, code)
    /\ dir' = [dir EXCEPT ![r] = "copying"]
    /\ UNCHANGED <<processVars, metricVars, pos, clientVars, panicked>>

\* The ErrorHandler: no upstream, no answer in time, or no client any more.
UpstreamFails(r) ==
    /\ Up
    /\ dir[r] = "upstream"
    /\ Answer(r, 502)
    /\ UNCHANGED <<processVars, metricVars, clientVars, panicked>>

CopyDone(r) ==
    /\ Up
    /\ dir[r] = "copying"
    /\ dir' = [dir EXCEPT ![r] = "out"]
    /\ UNCHANGED <<processVars, metricVars, pos, clientVars, sent,
                   panicked>>

\* The body breaks off: the reverse proxy panics with ErrAbortHandler.
CopyFails(r) ==
    /\ Up
    /\ dir[r] = "copying"
    /\ dir' = [dir EXCEPT ![r] = "panic"]
    /\ panicked' = panicked \cup {r}
    /\ UNCHANGED <<processVars, metricVars, pos, clientVars, sent>>

-----------------------------------------------------------------------------
(* The way out.                                                             *)

\* RecordRequest, which waits while the lock is jammed; a 429 of the upstream
\* counts as rate limited too.
Record(r) ==
    /\ ~jammed
    /\ total' = [total EXCEPT ![sent[r]] = @ + 1]
    /\ limited' = IF sent[r] = 429 THEN limited + 1 ELSE limited

\* Layer pos[r] returns to the one around it.  MetricsMiddleware records the
\* request then; the others only log.
Return(r) ==
    /\ Up
    /\ dir[r] = "out"
    /\ IF Recording(r) THEN Record(r) ELSE UNCHANGED <<total, limited>>
    /\ pos' = [pos EXCEPT ![r] = @ - 1]
    /\ dir' = [dir EXCEPT ![r] = IF pos[r] = 1 THEN "done" ELSE "out"]
    /\ UNCHANGED <<processVars, jammed, clientVars, sent, panicked>>

\* Mutant: the panic is logged but not answered.
RecoverSilently(r) ==
    \E p \in 1..pos[r] :
       /\ Up
       /\ dir[r] = "panic"
       /\ Layers[p] = "recovery"
       /\ pos' = [pos EXCEPT ![r] = p]
       /\ dir' = [dir EXCEPT ![r] = "out"]
       /\ UNCHANGED <<processVars, metricVars, clientVars, sent, panicked>>

\* RecoveryMiddleware's deferred function: every layer inside it is skipped.
Recover(r) ==
    \E p \in 1..pos[r] :
       /\ Up
       /\ dir[r] = "panic"
       /\ Layers[p] = "recovery"
       /\ Send(r, 500)
       /\ pos' = [pos EXCEPT ![r] = p]
       /\ dir' = [dir EXCEPT ![r] = "out"]
       /\ UNCHANGED <<processVars, metricVars, clientVars, panicked>>

-----------------------------------------------------------------------------
(* The process.                                                             *)

requestVars == <<metricVars, pos, dir, clientVars, sent, panicked>>

\* A signal arrives: main stops the agents, one after the other.
Signal ==
    /\ server = "running"
    /\ server' = "stopping"
    /\ UNCHANGED <<loop, requestVars>>

\* ListenAndServe fails: os.Exit(1).
ServeFails ==
    /\ server = "running"
    /\ server' = "killed"
    /\ UNCHANGED <<loop, requestVars>>

\* Agent i's ticker fires while the metrics are jammed: its loop asks for a
\* snapshot and gets none.  (Else it gets one, and the state is the same.)
Sample(i) ==
    /\ Up
    /\ loop[i] = "waiting"
    /\ jammed
    /\ loop' = [loop EXCEPT ![i] = "stuck"]
    /\ UNCHANGED <<server, requestVars>>

\* Stop(i) closes shutdownCh once the agents before it have ended; the loop
\* takes notice in its select, and Stop returns.
StopAgent(i) ==
    /\ server = "stopping"
    /\ \A j \in 1..(i - 1) : loop[j] = "ended"
    /\ loop[i] = "waiting"
    /\ loop' = [loop EXCEPT ![i] = "ended"]
    /\ UNCHANGED <<server, requestVars>>

\* server.Shutdown: no new requests, and wait for those under way.
Drain ==
    /\ server = "stopping"
    /\ \A i \in DOMAIN Agents : loop[i] = "ended"
    /\ server' = "draining"
    /\ UNCHANGED <<loop, requestVars>>

UnderWay == {r \in Requests : dir[r] \notin {"new", "done"}}

Drained ==
    /\ server = "draining"
    /\ UnderWay = {}
    /\ server' = "stopped"
    /\ UNCHANGED <<loop, requestVars>>

\* Mutant: Shutdown is given a context without a deadline.
DrainTimeoutNever == FALSE /\ UNCHANGED vars

\* The shutdown context, which ran while the agents were stopped, expires.
DrainTimeout ==
    /\ server = "draining"
    /\ UnderWay # {}
    /\ server' = "killed"
    /\ UNCHANGED <<loop, requestVars>>

Next ==
    \/ \E r \in Requests :
          \/ \E k \in Kinds, who \in Clients \cup {None} : Arrive(r, k, who)
          \/ PassOn(r)
          \/ Preflight(r) \/ Authenticate(r) \/ Refuse(r) \/ Admit(r) \/ Deny(r)
          \/ \E code \in {200, 404} : ServeInternal(r, code)
          \/ Scrape(r) \/ ScrapePanics(r) \/ Forward(r)
          \/ \E code \in UpstreamCodes : UpstreamAnswers(r, code)
          \/ UpstreamFails(r) \/ CopyDone(r) \/ CopyFails(r)
          \/ Return(r) \/ Recover(r)
    \/ \E i \in DOMAIN Agents : Sample(i) \/ StopAgent(i)
    \/ Signal \/ ServeFails \/ Drain \/ Drained \/ DrainTimeout

\* main and the agents' loops go on, and a select that finds shutdownCh closed
\* takes it (between its ticks it finds nothing else).  Of requests nothing is
\* assumed: one may stay with its upstream.
Fairness ==
    /\ \A i \in DOMAIN Agents : WF_vars(StopAgent(i))
    /\ WF_vars(Drain)
    /\ WF_vars(Drained \/ DrainTimeout)

Spec == Init /\ [][Next]_vars
FairSpec == Spec /\ Fairness

-----------------------------------------------------------------------------
(* Properties.                                                              *)

\* Only requests with a good token get past the auth layer (README.md:20): the
\* limiter judges, the upstream sees, and any status but a preflight's and the
\* refusal answers, only requests whose context has the identity of their token
\* (the order of main.go:175-184 and the early returns of auth/middleware.go).
OnlyBearersPass ==
    \A r \in Requests :
        (\/ verdict[r] # "none"
         \/ dir[r] \in {"upstream", "copying"}
         \/ sent[r] \notin {0, 204, 401})
        => bearer[r] # None /\ context[r]["IdentityKey"] = bearer[r]

\* The requests that went past the limiter and whose handler returned.
Served == {r \in Requests \ panicked : verdict[r] \in {"allowed", "error"}}

\* Between requests the counters account for every answer: requests_total has
\* the served requests, each once, under the status it was sent, and no others;
\* rate_limited_total has every 429, of the limiter or of the upstream, once
\* (ratelimit/middleware.go:63-76, proxy/middleware.go:194-206,
\* metrics/handler.go:59).
CountsMatchAnswers ==
    UnderWay = {} =>
        /\ \A c \in Codes : total[c] = Cardinality({r \in Served : sent[r] = c})
        /\ limited = Cardinality({r \in Requests \ panicked : sent[r] = 429})

\* Every request whose handler returned has been sent a status, also when the
\* scrape or the copy of an upstream's body panicked
\* (proxy/middleware.go:133-154).
DoneIsAnswered ==
    \A r \in Requests : dir[r] = "done" => sent[r] # 0

\* Once a signal has arrived the process ends, whatever upstreams and clients
\* do, unless the metrics' lock is jammed: then the agents' loops, and main with
\* them, may wait for good (main.go:213-234).
StopsUnlessJammed ==
    server = "stopping" ~> (server \in {"stopped", "killed"} \/ jammed)
=============================================================================
