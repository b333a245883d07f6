---------------------------- MODULE PolicyStore ----------------------------
(***************************************************************************)
(* Rate-limit policies: kept in etcd, cached by every gateway node         *)
(* (internal/controlplane/client.go), written by the policy API            *)
(* (controlplane/handler.go), by the prompt translator (ai/translator.go)  *)
(* and by the traffic analyzer, which scales limits (ai/analyzer.go).      *)
(*                                                                         *)
(* etcd is external: it orders all writes in one history, whose length is  *)
(* its revision, and streams to a watch every change from the revision     *)
(* after the one at which the watch was opened.  A node reads all policies *)
(* once, opens its watch in a step of its own, and opens a new one two     *)
(* seconds after a watch was closed.                                       *)
(*                                                                         *)
(* The rate-limit middleware looks for a policy that fits a request with   *)
(* sync.Map.Range (GetMatchingPolicy): ID by ID, in any order, while the   *)
(* watch loop changes the cache.                                           *)
(***************************************************************************)
EXTENDS PolicyHistory, FiniteSets

CONSTANTS
    Nodes,      \* gateway processes
    Limits,     \* the limits that administrators and prompts ask for
    Scalers,    \* the analyzers' queryAIAndScale goroutines, of any node
    Routes,     \* of the requests: the IDs whose policies fit one; an ID keeps
                \* its path, method and tier
    Factor,     \* the factor the AI suggests, more than 1
    MaxRevision \* bound: writes to etcd

ASSUME LimitTypes == Limits \subseteq Nat \ {0}
ASSUME RouteTypes == Routes \subseteq SUBSET Ids
ASSUME FactorType == Factor \in Nat /\ Factor > 1
ASSUME RevisionBound == MaxRevision \in Nat
ASSUME ScalerBound == IsFiniteSet(Scalers)

VARIABLES
    history,   \* etcd's writes
    phase,     \* phase[n]: the state of node n's configuration client
    cache,     \* cache[n][i]: the policy node n enforces under ID i
    position,  \* position[n]: the revision n's watch has delivered
    synced,    \* history: the last revision n has seen without a gap
    gap,       \* history: whether n's watch was opened past a change
    scaling,   \* scaling[s]: what scaler s still has to write
    runs,      \* history: the scalers that have read the policies
    seeking,   \* seeking[n]: whether n looks for a policy, or has
    fitting,   \* fitting[n]: the IDs whose policies fit n's request
    unvisited, \* unvisited[n]: the IDs Range has still to come by
    offers,    \* offers[n][i]: what n has held under ID i since Range began
    begun,     \* history: begun[n], the revision n had seen when it began
    enforced   \* enforced[n]: the policy found; Absent is the tier's default

storeVars == <<history>>
nodeVars == <<phase, cache, position, synced, gap>>
scaleVars == <<scaling, runs>>
lookupVars == <<seeking, fitting, unvisited, offers, begun, enforced>>
vars == <<history, phase, cache, position, synced, gap, scaling, runs,
          seeking, fitting, unvisited, offers, begun, enforced>>

Revision == Len(history)

Stored == Contents(history, Revision)

TypeOK ==
    /\ history \in Seq(Writes)
    /\ phase \in [Nodes -> {"down", "loaded", "watching", "closed", "static"}]
    /\ cache \in [Nodes -> [Ids -> Policy]]
    /\ position \in [Nodes -> 0..Revision]
    /\ synced \in [Nodes -> 0..Revision]
    /\ gap \in [Nodes -> BOOLEAN]
    /\ scaling \in [Scalers -> [Ids -> Nat]]
    /\ runs \subseteq Scalers
    /\ seeking \in [Nodes -> {"idle", "visiting", "found"}]
    /\ fitting \in [Nodes -> SUBSET Ids]
    /\ unvisited \in [Nodes -> SUBSET Ids]
    /\ offers \in [Nodes -> [Ids -> SUBSET Policy]]
    /\ begun \in [Nodes -> 0..Revision]
    /\ enforced \in [Nodes -> Policy]

NoOffers == [i \in Ids |-> {}]

Init ==
    /\ history = << >>
    /\ phase = [n \in Nodes |-> "down"]
    /\ cache = [n \in Nodes |-> Nothing]
    /\ position = [n \in Nodes |-> 0]
    /\ synced = [n \in Nodes |-> 0]
    /\ gap = [n \in Nodes |-> FALSE]
    /\ scaling = [s \in Scalers |-> [i \in Ids |-> 0]]
    /\ runs = {}
    /\ seeking = [n \in Nodes |-> "idle"]
    /\ fitting = [n \in Nodes |-> {}]
    /\ unvisited = [n \in Nodes |-> {}]
    /\ offers = [n \in Nodes |-> NoOffers]
    /\ begun = [n \in Nodes |-> 0]
    /\ enforced = [n \in Nodes |-> Absent]

-----------------------------------------------------------------------------
(* Writers.                                                                 *)

Write(i, limit) ==
    /\ Revision < MaxRevision
    /\ history' = Append(history, [id |-> i, limit |-> limit])

\* POST /api/v1/policies: a valid policy is put under its ID.
SavePolicy(i, limit) ==
    /\ Write(i, limit)
    /\ UNCHANGED <<nodeVars, scaleVars, lookupVars>>

\* DELETE /api/v1/policies: a policy that is not there changes nothing (404).
DeletePolicy(i) ==
    /\ Stored[i] # Absent
    /\ Write(i, 0)
    /\ UNCHANGED <<nodeVars, scaleVars, lookupVars>>

\* POST /api/v1/policies/translate: the model's policy, once it is validated,
\* is put as it stands, whatever is stored under its ID.
Translate(i, limit) ==
    /\ Write(i, limit)
    /\ UNCHANGED <<nodeVars, scaleVars, lookupVars>>

\* executeRateLimitScaling reads all policies ...
ScaleRead(s) ==
    /\ s \notin runs
    /\ runs' = runs \cup {s}
    /\ scaling' = [scaling EXCEPT ![s] = [i \in Ids |-> Stored[i].limit]]
    /\ UNCHANGED <<storeVars, nodeVars, lookupVars>>

\* Mutant: the scaled limit is kept, and scaled again.
ScaleWriteOnAndOn(s, i) ==
    /\ scaling[s][i] > 0
    /\ Write(i, scaling[s][i] * Factor)
    /\ scaling' = [scaling EXCEPT ![s][i] = @ * Factor]
    /\ UNCHANGED <<runs, nodeVars, lookupVars>>

\* ... and puts them back one by one with a scaled limit, in no transaction:
\* what others wrote or deleted since is overwritten.
ScaleWrite(s, i) ==
    /\ scaling[s][i] > 0
    /\ Write(i, scaling[s][i] * Factor)
    /\ scaling' = [scaling EXCEPT ![s][i] = 0]
    /\ UNCHANGED <<runs, nodeVars, lookupVars>>

\* A Put that fails, or finds the five seconds used up, is logged and skipped.
ScaleSkip(s, i) ==
    /\ scaling[s][i] > 0
    /\ scaling' = [scaling EXCEPT ![s][i] = 0]
    /\ UNCHANGED <<runs, storeVars, nodeVars, lookupVars>>

-----------------------------------------------------------------------------
(* Nodes.                                                                   *)

\* Client.Start: Get loads every policy into the empty cache.
Start(n) ==
    /\ phase[n] = "down"
    /\ phase' = [phase EXCEPT ![n] = "loaded"]
    /\ cache' = [cache EXCEPT ![n] = Stored]
    /\ synced' = [synced EXCEPT ![n] = Revision]
    /\ UNCHANGED <<position, gap, storeVars, scaleVars, lookupVars>>

\* Get fails or takes three seconds: the node runs on without a watch loop.
StartFails(n) ==
    /\ phase[n] = "down"
    /\ phase' = [phase EXCEPT ![n] = "static"]
    /\ UNCHANGED <<cache, position, synced, gap, storeVars, scaleVars, lookupVars>>

\* Mutant: a watch replays the whole history.
OpenWatchFromStart(n) ==
    /\ phase[n] \in {"loaded", "closed"}
    /\ phase' = [phase EXCEPT ![n] = "watching"]
    /\ position' = [position EXCEPT ![n] = 0]
    /\ UNCHANGED <<gap, cache, synced, storeVars, scaleVars, lookupVars>>

\* Mutant: a watch starts one revision too late.
OpenWatchLate(n) ==
    /\ phase[n] \in {"loaded", "closed"}
    /\ phase' = [phase EXCEPT ![n] = "watching"]
    /\ position' = [position EXCEPT ![n] = Revision + 1]
    /\ gap' = [gap EXCEPT ![n] = @ \/ synced[n] < Revision]
    /\ UNCHANGED <<cache, synced, storeVars, scaleVars, lookupVars>>

\* watchLoop opens a watch, first or again, with no revision to start from:
\* what changed since Get, or since the last watch, is never delivered.
OpenWatch(n) ==
    /\ phase[n] \in {"loaded", "closed"}
    /\ phase' = [phase EXCEPT ![n] = "watching"]
    /\ position' = [position EXCEPT ![n] = Revision]
    /\ gap' = [gap EXCEPT ![n] = @ \/ synced[n] < Revision]
    /\ UNCHANGED <<cache, synced, storeVars, scaleVars, lookupVars>>

\* Mutant: a DELETE event is ignored.
AppliedPutOnly(n, v) ==
    IF history[v].limit = 0 THEN cache[n]
    ELSE [cache[n] EXCEPT ![history[v].id] = Written(history, v)]

\* updateLocalCache on PUT, deleteFromLocalCache on DELETE.
Applied(n, v) == [cache[n] EXCEPT ![history[v].id] = Written(history, v)]

\* A Range that is under way may see the new mapping of ID i as well.
Offered(n, i) ==
    IF seeking[n] # "visiting" THEN offers[n]
    ELSE [offers[n] EXCEPT ![i] = @ \cup {cache'[n][i]}]

\* The next event of the watch channel.
Deliver(n) ==
    LET v == position[n] + 1
    IN  /\ phase[n] = "watching"
        /\ v <= Revision
        /\ cache' = [cache EXCEPT ![n] = Applied(n, v)]
        /\ position' = [position EXCEPT ![n] = v]
        /\ synced' = [synced EXCEPT ![n] = IF gap[n] THEN @ ELSE v]
        /\ offers' = [offers EXCEPT ![n] = Offered(n, history[v].id)]
        /\ UNCHANGED <<phase, gap, storeVars, scaleVars>>
        /\ UNCHANGED <<seeking, fitting, unvisited, begun, enforced>>

\* The channel is closed, with or without events that were never delivered.
CloseWatch(n) ==
    /\ phase[n] = "watching"
    /\ phase' = [phase EXCEPT ![n] = "closed"]
    /\ UNCHANGED <<cache, position, synced, gap, storeVars, scaleVars, lookupVars>>

-----------------------------------------------------------------------------
(* Lookups.                                                                 *)

Look(n, state, fit, ids, held, revision, policy) ==
    /\ seeking' = [seeking EXCEPT ![n] = state]
    /\ fitting' = [fitting EXCEPT ![n] = fit]
    /\ unvisited' = [unvisited EXCEPT ![n] = ids]
    /\ offers' = [offers EXCEPT ![n] = held]
    /\ begun' = [begun EXCEPT ![n] = revision]
    /\ enforced' = [enforced EXCEPT ![n] = policy]

\* A request arrives at a running node: GetMatchingPolicy begins to Range.
Seek(n, fit) ==
    /\ phase[n] # "down"
    /\ seeking[n] = "idle"
    /\ Look(n, "visiting", fit, Ids, [i \in Ids |-> {cache[n][i]}], synced[n], Absent)
    /\ UNCHANGED <<nodeVars, storeVars, scaleVars>>

\* Mutant: the first policy ends the search, whether it fits or not.
VisitFirst(n, i) ==
    /\ i \in unvisited[n]
    /\ \E p \in offers[n][i] :
          IF p # Absent
          THEN Look(n, "found", fitting[n], {}, NoOffers, begun[n],
                    IF i \in fitting[n] THEN p ELSE Absent)
          ELSE Look(n, "visiting", fitting[n], unvisited[n] \ {i}, offers[n],
                    begun[n], Absent)
    /\ UNCHANGED <<nodeVars, storeVars, scaleVars>>

\* Range comes by ID i, with any mapping it had since the Range began: it
\* passes over a missing policy and one that does not fit, and ends at one
\* that does.
Visit(n, i) ==
    /\ i \in unvisited[n]
    /\ \E p \in offers[n][i] :
          IF p # Absent /\ i \in fitting[n]
          THEN Look(n, "found", fitting[n], {}, NoOffers, begun[n], p)
          ELSE Look(n, "visiting", fitting[n], unvisited[n] \ {i}, offers[n],
                    begun[n], Absent)
    /\ UNCHANGED <<nodeVars, storeVars, scaleVars>>

\* No policy fits: the tier's default is enforced (getDefaultPolicy).
Default(n) ==
    /\ seeking[n] = "visiting"
    /\ unvisited[n] = {}
    /\ Look(n, "found", fitting[n], {}, NoOffers, begun[n], Absent)
    /\ UNCHANGED <<nodeVars, storeVars, scaleVars>>

\* The process stops or crashes; its cache is gone.
Stop(n) ==
    /\ phase[n] # "down"
    /\ phase' = [phase EXCEPT ![n] = "down"]
    /\ cache' = [cache EXCEPT ![n] = Nothing]
    /\ position' = [position EXCEPT ![n] = 0]
    /\ synced' = [synced EXCEPT ![n] = 0]
    /\ gap' = [gap EXCEPT ![n] = FALSE]
    /\ Look(n, "idle", {}, {}, NoOffers, 0, Absent)
    /\ UNCHANGED <<storeVars, scaleVars>>

Next ==
    \/ \E i \in Ids, limit \in Limits : SavePolicy(i, limit) \/ Translate(i, limit)
    \/ \E i \in Ids : DeletePolicy(i)
    \/ \E s \in Scalers :
          \/ ScaleRead(s)
          \/ \E i \in Ids : ScaleWrite(s, i) \/ ScaleSkip(s, i)
    \/ \E n \in Nodes :
          \/ Start(n) \/ StartFails(n) \/ OpenWatch(n) \/ Deliver(n)
          \/ CloseWatch(n) \/ Stop(n) \/ Default(n)
          \/ \E fit \in Routes : Seek(n, fit)
          \/ \E i \in Ids : Visit(n, i)

\* The watch loop runs, and etcd delivers what a watch has pending.
Fairness == \A n \in Nodes : WF_vars(OpenWatch(n)) /\ WF_vars(Deliver(n))

Spec == Init /\ [][Next]_vars
FairSpec == Spec /\ Fairness

-----------------------------------------------------------------------------
(* Properties.                                                              *)

\* A node whose watches left nothing out enforces exactly the policies etcd
\* held at the revision it has seen: one past state of the store, never a mix
\* (load, watch, and the order in which events are applied in client.go).
CacheIsSnapshot ==
    \A n \in Nodes : phase[n] \in {"loaded", "watching", "closed"} /\ ~gap[n] =>
        cache[n] = Contents(history, synced[n])

\* Gap or not, a running node never goes back to an older version of a policy.
CacheNeverRegresses ==
    [][\A n \in Nodes, i \in Ids :
          phase'[n] # "down" /\ cache'[n][i] # Absent =>
              cache'[n][i].revision >= cache[n][i].revision]_vars

\* What a lookup enforces on a node without a gap is true of the store: the
\* policy was stored at some revision the node passed meanwhile, and the default
\* applies only when no fitting policy was there all along (client.go:127-153,
\* a Range that is no snapshot of a cache that trails etcd).
LookupTrueOfStore ==
    \A n \in Nodes : seeking[n] = "found" /\ phase[n] # "static" /\ ~gap[n] =>
        LET held(i) == {At(history, i, v) : v \in begun[n]..synced[n]}
        IN  IF enforced[n] = Absent
            THEN \A i \in fitting[n] : Absent \in held(i)
            ELSE \E i \in fitting[n] : enforced[n] \in held(i)

\* The nodes follow the store the way PolicyFollower promises, restarts and lost
\* changes included.
Follower == INSTANCE PolicyFollower WITH
    mode <- [n \in Nodes |->
        IF phase[n] = "down" THEN "down"
        ELSE IF phase[n] = "static" THEN "without"
        ELSE IF gap[n] THEN "lost" ELSE "following"],
    followed <- [n \in Nodes |->
        IF phase[n] \in {"down", "static"} \/ gap[n] THEN 0 ELSE synced[n]],
    shown <- cache

FollowsStore == Follower!Spec

\* What n scalings raise a limit by: the factor, n times.
Growth(n) ==
    LET growth[i \in 0..n] == IF i = 0 THEN 1 ELSE Factor * growth[i - 1]
    IN  growth[n]

\* Overlapping scalers, deletes and saves never raise a limit above what that
\* many scalings of the largest limit asked for amount to.
GrowthBounded ==
    \A v \in 1..Revision : \E limit \in Limits :
        history[v].limit <= limit * Growth(Cardinality(runs))

\* Once writes stop, every node that watches and missed nothing has the stored
\* policies for good.
SyncedConverge ==
    \A n \in Nodes : <>[](phase[n] = "watching" /\ ~gap[n] => cache[n] = Stored)

\* Once writes stop, every node that watches has the stored policies for good:
\* ARCHITECTURE.md:85, "gateway nodes reload policies instantly via watchers".
WatchersConverge ==
    \A n \in Nodes : <>[](phase[n] = "watching" => cache[n] = Stored)
=============================================================================
