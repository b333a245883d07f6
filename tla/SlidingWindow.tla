--------------------------- MODULE SlidingWindow ---------------------------
(***************************************************************************)
(* The distributed rate limiter: RedisSlidingWindowLimiter.Allow           *)
(* (internal/ratelimit/limiter.go) and the Lua script it runs in Redis     *)
(* (internal/ratelimit/scripts/sliding_window.lua).                        *)
(*                                                                         *)
(* A call reads the node's clock, then asks Redis to run the script with   *)
(* that reading; other calls' scripts may run in between.  The script is   *)
(* atomic in Redis.  A client has ONE log, whatever policy its requests    *)
(* match, so scripts with different limits and windows share it.  Redis    *)
(* may lose the cached script (NOSCRIPT), fail, or run the script and lose *)
(* the reply.                                                              *)
(*                                                                         *)
(* An entry of the log is written as the request that put it there: its    *)
(* member is <<timestamp, random suffix>> and its score the timestamp.     *)
(***************************************************************************)
EXTENDS Integers, FiniteSets

CONSTANTS
    Requests,  \* the calls of Allow, each made once
    Clients,   \* client identifiers; the log's key is made of nothing else
    Policies,  \* the policies a request may match
    Limit,     \* Limit[p]:  requests policy p admits ...
    Window,    \* Window[p]: ... in this many milliseconds
    Suffix,    \* Suffix[r]: what math.random() returns in r's run of the script
    Lag,       \* a timestamp is at most this old when its script runs
    Ahead,     \* a node's clock is at most this far ahead of Redis's clock
    Cap,       \* an upper bound of the limits
    Span,      \* a length of time that is bounded, see SpanLimit
    MaxClock   \* bound: Redis's clock stops here

ASSUME FiniteRequests == IsFiniteSet(Requests)
ASSUME PolicyTypes == /\ Limit \in [Policies -> Nat]
                      /\ Window \in [Policies -> Nat]
ASSUME TimingTypes == Lag \in Nat /\ Ahead \in Nat /\ MaxClock \in Nat
ASSUME SpanFits == /\ Cap \in Nat /\ Span \in Nat
                   /\ \A p \in Policies : /\ Limit[p] <= Cap
                                          /\ Span + Lag + Ahead <= Window[p]

VARIABLES
    clock,        \* Redis's clock, in milliseconds
    scriptCached, \* whether Redis still holds the script under its SHA
    log,          \* log[c]: the sorted set at key zg:rl:<c>
    expireAt,     \* expireAt[c]: when that key's TTL runs out
    pc,           \* where each call of Allow is, or what it returned
    call,         \* call[r]: the arguments of the call, once it is made
    logged        \* history: every request that was ever put in a log

vars == <<clock, scriptCached, log, expireAt, pc, call, logged>>

Pending == {"eval", "reload", "retry"}
Answers == {"allowed", "denied", "error"}
Call == [client : Clients, policy : Policies, now : Int]

TypeOK ==
    /\ clock \in Nat
    /\ scriptCached \in BOOLEAN
    /\ log \in [Clients -> SUBSET Requests]
    /\ expireAt \in [Clients -> Nat]
    /\ pc \in [Requests -> {"idle"} \cup Pending \cup Answers]
    /\ call \in [Requests -> Call \cup {<< >>}]
    /\ \A r \in Requests : pc[r] # "idle" => call[r] \in Call
    /\ logged \subseteq {r \in Requests : pc[r] # "idle"}
    /\ \A c \in Clients : log[c] \subseteq logged

-----------------------------------------------------------------------------
(* The script.                                                              *)

Member(r) == <<call[r].now, Suffix[r]>>

\* Redis never shows a script a key whose TTL has run out.
Live(c) == IF clock < expireAt[c] THEN log[c] ELSE {}

\* Mutant: nothing is purged, the TTL alone empties a log.
KeptUnpurged(r) == Live(call[r].client)

\* ZREMRANGEBYSCORE key 0 (now - window): what is left for ZCARD to count.
Kept(r) == {q \in Live(call[r].client) :
                call[q].now > call[r].now - Window[call[r].policy]}

\* Mutant: off by one.
HasRoomForOneMore(r) == Cardinality(Kept(r)) <= Limit[call[r].policy]

\* `current_requests < limit'.
HasRoom(r) == Cardinality(Kept(r)) < Limit[call[r].policy]

\* Mutant: the key is set to expire a window ago.
RunScriptStaleTTL(r) ==
    LET c == call[r].client
    IN  IF HasRoom(r)
        THEN /\ log' = [log EXCEPT ![c] = Kept(r) \cup {r}]
             /\ expireAt' = [expireAt EXCEPT ![c] = clock - Window[call[r].policy]]
             /\ logged' = logged \cup {r}
        ELSE /\ log' = [log EXCEPT ![c] = Kept(r)]
             /\ UNCHANGED <<expireAt, logged>>

\* Mutant: the key expires after as many milliseconds as the window has seconds.
RunScriptTTLInSeconds(r) ==
    LET c == call[r].client
    IN  IF HasRoom(r)
        THEN /\ log' = [log EXCEPT ![c] = Kept(r) \cup {r}]
             /\ expireAt' = [expireAt EXCEPT
                                ![c] = clock + (Window[call[r].policy] \div 1000)]
             /\ logged' = logged \cup {r}
        ELSE /\ log' = [log EXCEPT ![c] = Kept(r)]
             /\ UNCHANGED <<expireAt, logged>>

\* One run of the script for r: purge, then ZADD and PEXPIRE if there is room.
\* ZADD of a member that is already there only moves that member.
RunScript(r) ==
    LET c == call[r].client
        added == {q \in Kept(r) : Member(q) # Member(r)} \cup {r}
    IN  IF HasRoom(r)
        THEN /\ log' = [log EXCEPT ![c] = added]
             /\ expireAt' = [expireAt EXCEPT ![c] = clock + Window[call[r].policy]]
             /\ logged' = logged \cup {r}
        ELSE /\ log' = [log EXCEPT ![c] = Kept(r)]
             /\ UNCHANGED <<expireAt, logged>>

-----------------------------------------------------------------------------
(* Allow, step by step.                                                     *)

\* The call starts: the node reads its own clock.
Begin(r) ==
    /\ pc[r] = "idle"
    /\ \E c \in Clients, p \in Policies, now \in (clock - Lag)..(clock + Ahead) :
          call' = [call EXCEPT ![r] = [client |-> c, policy |-> p, now |-> now]]
    /\ pc' = [pc EXCEPT ![r] = "eval"]
    /\ UNCHANGED <<clock, scriptCached, log, expireAt, logged>>

\* EVALSHA finds the script and runs it, and the reply arrives.
Execute(r) ==
    /\ pc[r] \in {"eval", "retry"}
    /\ scriptCached
    /\ RunScript(r)
    /\ pc' = [pc EXCEPT ![r] = IF HasRoom(r) THEN "allowed" ELSE "denied"]
    /\ UNCHANGED <<clock, scriptCached, call>>

\* The script runs but the node sees a timeout or a broken connection.
ReplyLost(r) ==
    /\ pc[r] \in {"eval", "retry"}
    /\ scriptCached
    /\ RunScript(r)
    /\ pc' = [pc EXCEPT ![r] = "error"]
    /\ UNCHANGED <<clock, scriptCached, call>>

\* The first EVALSHA answers NOSCRIPT: Allow goes on to reload the script.
NoScript(r) ==
    /\ pc[r] = "eval"
    /\ ~scriptCached
    /\ pc' = [pc EXCEPT ![r] = "reload"]
    /\ UNCHANGED <<clock, scriptCached, log, expireAt, call, logged>>

\* SCRIPT LOAD succeeds; the call will be tried once more, with the same now.
Reload(r) ==
    /\ pc[r] = "reload"
    /\ scriptCached' = TRUE
    /\ pc' = [pc EXCEPT ![r] = "retry"]
    /\ UNCHANGED <<clock, log, expireAt, call, logged>>

\* The script is gone again at the second EVALSHA: Allow gives up.
NoScriptAgain(r) ==
    /\ pc[r] = "retry"
    /\ ~scriptCached
    /\ pc' = [pc EXCEPT ![r] = "error"]
    /\ UNCHANGED <<clock, scriptCached, log, expireAt, call, logged>>

\* Any other error of Redis, before the command took effect.
RedisError(r) ==
    /\ pc[r] \in Pending
    /\ pc' = [pc EXCEPT ![r] = "error"]
    /\ UNCHANGED <<clock, scriptCached, log, expireAt, call, logged>>

-----------------------------------------------------------------------------
(* The environment.                                                         *)

\* SCRIPT FLUSH, or a restart of Redis that kept its data.
FlushScripts ==
    /\ scriptCached
    /\ scriptCached' = FALSE
    /\ UNCHANGED <<clock, log, expireAt, pc, call, logged>>

\* Time passes, but no pending timestamp gets older than Lag.
Tick ==
    /\ clock < MaxClock
    /\ \A r \in Requests : pc[r] \in Pending => clock < call[r].now + Lag
    /\ clock' = clock + 1
    /\ UNCHANGED <<scriptCached, log, expireAt, pc, call, logged>>

Init ==
    /\ clock = Lag
    /\ scriptCached = TRUE
    /\ log = [c \in Clients |-> {}]
    /\ expireAt = [c \in Clients |-> 0]
    /\ pc = [r \in Requests |-> "idle"]
    /\ call = [r \in Requests |-> << >>]
    /\ logged = {}

Next ==
    \/ \E r \in Requests :
          \/ Begin(r)
          \/ Execute(r) \/ ReplyLost(r) \/ RedisError(r)
          \/ NoScript(r) \/ Reload(r) \/ NoScriptAgain(r)
    \/ FlushScripts
    \/ Tick

Spec == Init /\ [][Next]_vars

-----------------------------------------------------------------------------
(* Properties.                                                              *)

\* math.random() draws a different number in each run of the script.
DistinctSuffixes == \A q, r \in Requests : q # r => Suffix[q] # Suffix[r]

\* The logged requests of r's client in the span of time that ends at r.
InSpan(r) == {q \in logged : /\ call[q].client = call[r].client
                             /\ call[r].now - Span < call[q].now
                             /\ call[q].now <= call[r].now}

\* However the scripts of a client are delayed, reordered and mixed over
\* policies, no Span that leaves Lag and Ahead free within every window holds
\* more logged requests than the largest limit (sliding_window.lua, and the
\* clock read of limiter.go that comes before it).
SpanLimit == \A r \in logged : Cardinality(InSpan(r)) <= Cap

\* A request leaves its client's log, by a purge or by the key's TTL, only when it
\* is older than Span for every timestamp a script may still come with: no call
\* that is late, ahead, or of another policy makes the log forget one too early
\* (the scripts' ZREMRANGEBYSCORE and PEXPIRE, sliding_window.lua:15-29).
ForgottenOnlyWhenOld ==
    \A q \in logged :
        LET old(t) == call[q].now + Span + Lag <= t
        IN  /\ old(clock) \/ q \in log[call[q].client]
            /\ old(expireAt[call[q].client])

\* A call that is denied now finds Limit requests of its client on record
\* within the window before it.
DeniedAtLimit ==
    \A r \in Requests :
        pc[r] # "denied" /\ pc'[r] = "denied" =>
            Cardinality({q \in logged :
                /\ call[q].client = call[r].client
                /\ call[q].now > call[r].now - Window[call[r].policy]})
              >= Limit[call[r].policy]

\* Allow denies a request only when its client already has Limit requests on
\* record within the window before it: an entry that is too old never costs a
\* client a request, even when no script purged it in time.
NeverDeniedEarly == [][DeniedAtLimit]_vars

\* What the comments of limiter.go:15 and of the script say of one policy: it
\* admits at most its limit in its window.
WindowLimit ==
    \A r \in Requests : pc[r] = "allowed" =>
        Cardinality({q \in Requests :
            /\ pc[q] = "allowed"
            /\ call[q].client = call[r].client
            /\ call[q].policy = call[r].policy
            /\ call[r].now - Window[call[r].policy] < call[q].now
            /\ call[q].now <= call[r].now}) <= Limit[call[r].policy]
=============================================================================
