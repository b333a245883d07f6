------------------------------ MODULE Metrics ------------------------------
(***************************************************************************)
(* The metrics collector of a gateway process (internal/metrics/handler.go)*)
(* under the goroutines that use it: requests that record themselves, and  *)
(* readers that scrape GET /metrics or take a Snapshot for the AI agents.  *)
(*                                                                         *)
(* Counters are atomics reached through three maps.  A missing counter is  *)
(* created under the write lock after a second look (getOrCreate...); the  *)
(* increment itself happens after the lock is released.  A reader holds    *)
(* the read lock over all its loads.  The lock is Go's sync.RWMutex: a     *)
(* writer that waits keeps new readers out.                                *)
(***************************************************************************)
EXTENDS Integers, FiniteSets

CONSTANTS
    Requests,  \* requests, each recorded once
    Readers,   \* goroutines that scrape or snapshot
    Keys,      \* label sets, after normalizePath
    Key,       \* Key[s][r]:    the label set of request r in series s
    Amount,    \* Amount[s][r]: what r adds: 1, or its duration in ms
    TooMany,   \* the requests an upstream answered with status 429
    Rounds,    \* bound: how often a reader reads
    None       \* no counter, or no goroutine

\* The three maps, in the order RecordRequest fills them.
requestsTotal == 1
latencySum == 2
latencyCount == 3
Series == 1..3

\* A counter's address: the series and the request that allocated it.
Counters == Series \X Requests

ASSUME KeyType == Key \in [Series -> [Requests -> Keys]]
ASSUME AmountType == Amount \in [Series -> [Requests -> Nat]]
ASSUME NoneIsNew == None \notin Counters /\ None \notin Requests
ASSUME LimitedRequests == TooMany \subseteq Requests
ASSUME RoundsType == Rounds \in Nat

VARIABLES
    table,      \* table[s][k]: the counter in map s under k, or None
    value,      \* value[c]: the value of the atomic at address c
    rateLimited,\* rateLimitedTotal
    stage,      \* stage[r]: the series request r is at; 4 when past all
    pc,         \* pc[r]: where r is in getOrCreate and Add
    held,       \* held[r]: the address getOrCreate returned
    writer,     \* the goroutine that waits for or holds the write lock
    reading,    \* the readers that hold the read lock
    rc,         \* rc[x]: what reader x does
    left,       \* left[x]: the keys it has yet to load in this pass
    seen,       \* seen[x][k]: the request total of k it loaded last
    rounds      \* rounds[x]: how often it has started

recVars == <<table, value, rateLimited, stage, pc, held, writer>>
readVars == <<reading, rc, left, seen, rounds>>
vars == <<table, value, rateLimited, stage, pc, held, writer, reading, rc, left, seen, rounds>>

TypeOK ==
    /\ table \in [Series -> [Keys -> Counters \cup {None}]]
    /\ value \in [Counters -> Nat]
    /\ rateLimited \in Nat
    /\ stage \in [Requests -> 1..4]
    /\ pc \in [Requests -> {"lookup", "lock", "locked", "add", "limited", "done"}]
    /\ held \in [Requests -> Counters \cup {None}]
    /\ writer \in Requests \cup {None}
    /\ reading \subseteq Readers
    /\ rc \in [Readers -> {"idle", "snapshot", "totals", "latency", "panicked"}]
    /\ left \in [Readers -> SUBSET Keys]
    /\ seen \in [Readers -> [Keys -> Nat]]
    /\ rounds \in [Readers -> Nat]

Present(s) == {k \in Keys : table[s][k] # None}

Init ==
    /\ table = [s \in Series |-> [k \in Keys |-> None]]
    /\ value = [c \in Counters |-> 0]
    /\ rateLimited = 0
    /\ stage = [r \in Requests |-> 1]
    /\ pc = [r \in Requests |-> "lookup"]
    /\ held = [r \in Requests |-> None]
    /\ writer = None
    /\ reading = {}
    /\ rc = [x \in Readers |-> "idle"]
    /\ left = [x \in Readers |-> {}]
    /\ seen = [x \in Readers |-> [k \in Keys |-> 0]]
    /\ rounds = [x \in Readers |-> 0]

-----------------------------------------------------------------------------
(* RecordRequest.                                                           *)

\* getOrCreate*, first look: RLock, read the map, RUnlock.
Lookup(r) ==
    LET found == table[stage[r]][Key[stage[r]][r]]
    IN  /\ pc[r] = "lookup"
        /\ writer = None
        /\ held' = [held EXCEPT ![r] = found]
        /\ pc' = [pc EXCEPT ![r] = IF found = None THEN "lock" ELSE "add"]
        /\ UNCHANGED <<table, value, rateLimited, stage, writer>>
        /\ UNCHANGED readVars

\* Lock: from here on new readers are kept out.
Lock(r) ==
    /\ pc[r] = "lock"
    /\ writer = None
    /\ writer' = r
    /\ pc' = [pc EXCEPT ![r] = "locked"]
    /\ UNCHANGED <<table, value, rateLimited, stage, held>>
    /\ UNCHANGED readVars

\* Mutant: the counter is created without the second look.
CreateUnchecked(r) ==
    LET s == stage[r]
        k == Key[s][r]
    IN  /\ pc[r] = "locked"
        /\ reading = {}
        /\ table' = [table EXCEPT ![s][k] = <<s, r>>]
        /\ held' = [held EXCEPT ![r] = <<s, r>>]
        /\ writer' = None
        /\ pc' = [pc EXCEPT ![r] = "add"]
        /\ UNCHANGED <<value, rateLimited, stage>>
        /\ UNCHANGED readVars

\* Mutant: the early return of the second look does not unlock.
CreateReturnLocked(r) ==
    LET s == stage[r]
        k == Key[s][r]
        counter == IF table[s][k] = None THEN <<s, r>> ELSE table[s][k]
    IN  /\ pc[r] = "locked"
        /\ reading = {}
        /\ table' = [table EXCEPT ![s][k] = counter]
        /\ held' = [held EXCEPT ![r] = counter]
        /\ writer' = IF table[s][k] = None THEN None ELSE writer
        /\ pc' = [pc EXCEPT ![r] = "add"]
        /\ UNCHANGED <<value, rateLimited, stage>>
        /\ UNCHANGED readVars

\* The lock is ours once no reader holds it: look again, allocate the counter
\* if it is still missing, and unlock.
Create(r) ==
    LET s == stage[r]
        k == Key[s][r]
        counter == IF table[s][k] = None THEN <<s, r>> ELSE table[s][k]
    IN  /\ pc[r] = "locked"
        /\ reading = {}
        /\ table' = [table EXCEPT ![s][k] = counter]
        /\ held' = [held EXCEPT ![r] = counter]
        /\ writer' = None
        /\ pc' = [pc EXCEPT ![r] = "add"]
        /\ UNCHANGED <<value, rateLimited, stage>>
        /\ UNCHANGED readVars

AfterAdd(r) ==
    IF stage[r] < latencyCount THEN "lookup"
    ELSE IF r \in TooMany THEN "limited" ELSE "done"

\* Mutant: two series are passed at once.
AddTwice(r) ==
    /\ pc[r] = "add"
    /\ value' = [value EXCEPT ![held[r]] = @ + Amount[stage[r]][r]]
    /\ stage' = [stage EXCEPT ![r] = @ + 2]
    /\ pc' = [pc EXCEPT ![r] = AfterAdd(r)]
    /\ UNCHANGED <<table, rateLimited, held, writer>>
    /\ UNCHANGED readVars

\* The atomic Add on the counter, with no lock held.
Add(r) ==
    /\ pc[r] = "add"
    /\ value' = [value EXCEPT ![held[r]] = @ + Amount[stage[r]][r]]
    /\ stage' = [stage EXCEPT ![r] = @ + 1]
    /\ pc' = [pc EXCEPT ![r] = AfterAdd(r)]
    /\ UNCHANGED <<table, rateLimited, held, writer>>
    /\ UNCHANGED readVars

\* A response with status 429 also counts as rate limited.
AddRateLimited(r) ==
    /\ pc[r] = "limited"
    /\ rateLimited' = rateLimited + 1
    /\ pc' = [pc EXCEPT ![r] = "done"]
    /\ UNCHANGED <<table, value, stage, held, writer>>
    /\ UNCHANGED readVars

RecordRequest(r) == Lookup(r) \/ Lock(r) \/ Create(r) \/ Add(r) \/ AddRateLimited(r)

-----------------------------------------------------------------------------
(* Readers: Snapshot, and ServeHTTP for GET /metrics.                       *)

\* RLock, and the keys of requestsTotal are taken down.
BeginRead(x) ==
    /\ rc[x] = "idle"
    /\ rounds[x] < Rounds
    /\ writer = None
    /\ reading' = reading \cup {x}
    /\ rc' \in {[rc EXCEPT ![x] = op] : op \in {"snapshot", "totals"}}
    /\ left' = [left EXCEPT ![x] = Present(requestsTotal)]
    /\ rounds' = [rounds EXCEPT ![x] = @ + 1]
    /\ UNCHANGED seen
    /\ UNCHANGED recVars

\* Load of one request counter.
LoadTotal(x, k) ==
    /\ rc[x] \in {"snapshot", "totals"}
    /\ k \in left[x]
    /\ seen' = [seen EXCEPT ![x][k] = value[table[requestsTotal][k]]]
    /\ left' = [left EXCEPT ![x] = @ \ {k}]
    /\ UNCHANGED <<reading, rc, rounds>>
    /\ UNCHANGED recVars

\* Snapshot's deferred RUnlock.
EndSnapshot(x) ==
    /\ rc[x] = "snapshot"
    /\ left[x] = {}
    /\ reading' = reading \ {x}
    /\ rc' = [rc EXCEPT ![x] = "idle"]
    /\ UNCHANGED <<left, seen, rounds>>
    /\ UNCHANGED recVars

\* ServeHTTP goes on to the latencies: it takes down the keys of latencySum.
BeginLatency(x) ==
    /\ rc[x] = "totals"
    /\ left[x] = {}
    /\ rc' = [rc EXCEPT ![x] = "latency"]
    /\ left' = [left EXCEPT ![x] = Present(latencySum)]
    /\ UNCHANGED <<reading, seen, rounds>>
    /\ UNCHANGED recVars

\* The sum and the count of one key are loaded (their values go to the output).
LoadLatency(x, k) ==
    /\ rc[x] = "latency"
    /\ k \in left[x] \cap Present(latencyCount)
    /\ left' = [left EXCEPT ![x] = @ \ {k}]
    /\ UNCHANGED <<reading, rc, seen, rounds>>
    /\ UNCHANGED recVars

\* The key has a sum and no count yet: Load on a nil counter panics.  The
\* panic is recovered far up the stack; RUnlock, not deferred, is skipped.
Panic(x, k) ==
    /\ rc[x] = "latency"
    /\ k \in left[x] \ Present(latencyCount)
    /\ rc' = [rc EXCEPT ![x] = "panicked"]
    /\ UNCHANGED <<reading, left, seen, rounds>>
    /\ UNCHANGED recVars

EndScrape(x) ==
    /\ rc[x] = "latency"
    /\ left[x] = {}
    /\ reading' = reading \ {x}
    /\ rc' = [rc EXCEPT ![x] = "idle"]
    /\ UNCHANGED <<left, seen, rounds>>
    /\ UNCHANGED recVars

ReadOn(x) ==
    \/ EndSnapshot(x) \/ BeginLatency(x) \/ EndScrape(x)
    \/ \E k \in Keys : LoadTotal(x, k) \/ LoadLatency(x, k) \/ Panic(x, k)

Next ==
    \/ \E r \in Requests : RecordRequest(r)
    \/ \E x \in Readers : BeginRead(x) \/ ReadOn(x)

\* Goroutines that can run do run; nothing makes a reader start.
Fairness == /\ \A r \in Requests : WF_vars(RecordRequest(r))
            /\ \A x \in Readers : WF_vars(ReadOn(x))

Spec == Init /\ [][Next]_vars
FairSpec == Spec /\ Fairness

-----------------------------------------------------------------------------
(* Properties.                                                              *)

\* Between getOrCreate and Add a request holds the counter that is in the map
\* under its key, and that counter was allocated for this very key: no Add
\* goes to a counter that no reader will see (double-checked locking).
HeldIsMapped ==
    \A r \in Requests : pc[r] = "add" =>
        /\ held[r] # None
        /\ held[r] = table[stage[r]][Key[stage[r]][r]]

\* The collector implements MetricCounters: however first-time creations race,
\* every request counts exactly once in each series, when its Add runs.
Promise == INSTANCE MetricCounters WITH
    counted <- {c \in Counters : c[1] < stage[c[2]]},
    total <- [s \in Series |-> [k \in Keys |->
                IF table[s][k] = None THEN 0 ELSE value[table[s][k]]]]

CountersImplemented == Promise!Spec

\* No reader ever loads a smaller total than it did before: the traffic the
\* analyzer computes from two snapshots is never negative.
TotalsNeverGoBack ==
    [][\A x \in Readers, k \in Keys : seen'[x][k] >= seen[x][k]]_vars

\* Unless a scrape panics, every request gets through RecordRequest.
RecordedUnlessPanic ==
    (\A x \in Readers : [](rc[x] # "panicked")) =>
        \A r \in Requests : <>(pc[r] = "done")

\* RecordRequest records each completed request (handler.go:44).
EveryRequestRecorded == \A r \in Requests : <>(pc[r] = "done")
=============================================================================
