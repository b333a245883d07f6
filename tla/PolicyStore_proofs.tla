------------------------- MODULE PolicyStore_proofs -------------------------
(***************************************************************************)
(* Theorems about the policy store and its caches, for any number of       *)
(* nodes, policies, limits and writes: types, that a cache without a gap   *)
(* is one past state of the store, what a lookup on it finds, that no      *)
(* cache goes back, and that the nodes implement PolicyFollower.           *)
(***************************************************************************)
EXTENDS PolicyStore, WellFoundedInduction, FiniteSetTheorems, TLAPS

-----------------------------------------------------------------------------
(* What a history holds as of a revision.                                   *)

\* Of some of the first revisions, one is the last.
LEMMA LastExists ==
    ASSUME NEW n \in Nat, NEW S \in SUBSET (1..n), S # {}
    PROVE  \E m \in S : \A s \in S : s <= m
<1> DEFINE after == {n - s : s \in S}
<1>1. after \subseteq Nat /\ after # {}
  <2>1. \A s \in S : n - s \in Nat
    OBVIOUS
  <2>2. PICK s \in S : TRUE
    OBVIOUS
  <2> QED
    BY <2>1, <2>2
<1>2. PICK least \in after : \A a \in after : <<a, least>> \notin OpToRel(<, Nat)
  BY <1>1, WFMin, NatLessThanWellFounded, Zenon
<1>3. \A a \in after : ~ a < least
  BY <1>1, <1>2, Zenon DEF OpToRel
<1>4. PICK m \in S : least = n - m
  OBVIOUS
<1>5. ASSUME NEW s \in S
      PROVE  s <= m
  <2>1. ~ n - s < n - m
    BY <1>3, <1>4
  <2> QED
    BY <2>1
<1> QED
  BY <1>5

\* The policy under an ID comes from the last write to it.
LEMMA AtIsWritten ==
    ASSUME NEW h \in Seq(Writes), NEW v \in 0..Len(h), NEW i
    PROVE  \/ At(h, i, v) = Absent /\ \A u \in 1..v : h[u].id # i
           \/ \E u \in 1..v : /\ h[u].id = i /\ At(h, i, v) = Written(h, u)
                              /\ \A w \in 1..v : h[w].id = i => w <= u
<1> DEFINE writes == {u \in 1..v : h[u].id = i}
<1>1. CASE writes = {}
  BY <1>1 DEF At
<1>2. CASE writes # {}
  <2> DEFINE last == CHOOSE u \in writes : \A w \in writes : w <= u
  <2>1. writes \in SUBSET (1..v) /\ v \in Nat
    OBVIOUS
  <2>2. \E u \in writes : \A w \in writes : w <= u
    BY <1>2, <2>1, LastExists
  <2>3. last \in writes /\ \A w \in writes : w <= last
    BY <2>2
  <2>4. At(h, i, v) = Written(h, last)
    BY <1>2 DEF At
  <2> HIDE DEF last
  <2> QED
    BY <2>3, <2>4
<1> QED
  BY <1>1, <1>2

LEMMA AtType ==
    ASSUME NEW h \in Seq(Writes), NEW v \in 0..Len(h), NEW i
    PROVE  At(h, i, v) \in Policy /\ At(h, i, v).revision <= v
<1>1. ASSUME NEW u \in 1..v
      PROVE  Written(h, u) \in Policy /\ Written(h, u).revision <= v
  <2>1. h[u] \in Writes
    OBVIOUS
  <2> QED
    BY <2>1 DEF Written, Writes, Policy, Absent
<1> QED
  BY <1>1, AtIsWritten DEF Policy, Absent

\* A later write leaves alone what the store held before it.
LEMMA AtKept ==
    ASSUME NEW h \in Seq(Writes), NEW e \in Writes, NEW v \in 0..Len(h), NEW i
    PROVE  At(Append(h, e), i, v) = At(h, i, v)
<1> DEFINE g == Append(h, e)
<1>1. \A u \in 1..v : g[u] = h[u]
  OBVIOUS
<1>2. \A u \in 1..v : Written(g, u) = Written(h, u)
  BY <1>1 DEF Written
<1>3. g \in Seq(Writes) /\ v \in 0..Len(g)
  OBVIOUS
<1> HIDE DEF g
<1>4. CASE \A u \in 1..v : h[u].id # i
  <2>1. At(h, i, v) = Absent
    BY <1>4, AtIsWritten
  <2>2. At(g, i, v) = Absent
    BY <1>1, <1>3, <1>4, AtIsWritten
  <2> QED
    BY <2>1, <2>2 DEF g
<1>5. CASE \E u \in 1..v : h[u].id = i
  <2>1. PICK u \in 1..v : /\ h[u].id = i /\ At(h, i, v) = Written(h, u)
                          /\ \A w \in 1..v : h[w].id = i => w <= u
    BY <1>5, AtIsWritten
  <2>2. PICK x \in 1..v : /\ g[x].id = i /\ At(g, i, v) = Written(g, x)
                          /\ \A w \in 1..v : g[w].id = i => w <= x
    BY <1>1, <1>3, <1>5, AtIsWritten
  <2>3. u = x
    BY <1>1, <2>1, <2>2
  <2> QED
    BY <1>2, <2>1, <2>2, <2>3 DEF g
<1> QED
  BY <1>4, <1>5

\* The write of the next revision replaces what was under its ID, and only that.
LEMMA AtNext ==
    ASSUME NEW h \in Seq(Writes), NEW v \in 0..(Len(h) - 1), NEW i
    PROVE  At(h, i, v + 1) = IF h[v + 1].id = i THEN Written(h, v + 1) ELSE At(h, i, v)
<1>1. v \in 0..Len(h) /\ v + 1 \in 0..Len(h) /\ v + 1 \in 1..(v + 1) /\ 1..v \subseteq 1..(v + 1)
  OBVIOUS
<1>2. CASE h[v + 1].id = i
  <2>1. PICK u \in 1..(v + 1) : /\ At(h, i, v + 1) = Written(h, u)
                                /\ \A w \in 1..(v + 1) : h[w].id = i => w <= u
    BY <1>1, <1>2, AtIsWritten
  <2>2. u = v + 1
    BY <1>1, <1>2, <2>1
  <2> QED
    BY <1>2, <2>1, <2>2
<1>3. CASE h[v + 1].id # i
  <2>1. \A u \in 1..(v + 1) : h[u].id = i => u \in 1..v
    BY <1>3
  <2>2. CASE \A u \in 1..v : h[u].id # i
    BY <1>1, <1>3, <2>1, <2>2, AtIsWritten
  <2>3. CASE \E u \in 1..v : h[u].id = i
    <3>1. PICK u \in 1..v : /\ h[u].id = i /\ At(h, i, v) = Written(h, u)
                            /\ \A w \in 1..v : h[w].id = i => w <= u
      BY <1>1, <2>3, AtIsWritten
    <3>2. PICK x \in 1..(v + 1) : /\ h[x].id = i /\ At(h, i, v + 1) = Written(h, x)
                                  /\ \A w \in 1..(v + 1) : h[w].id = i => w <= x
      BY <1>1, <2>3, AtIsWritten
    <3>3. x \in 1..v
      BY <2>1, <3>2
    <3>4. u = x
      BY <1>1, <3>1, <3>2, <3>3
    <3> QED
      BY <1>3, <3>1, <3>2, <3>4
  <2> QED
    BY <2>2, <2>3
<1> QED
  BY <1>2, <1>3

-----------------------------------------------------------------------------
(* The inductive invariant.                                                 *)

\* What the phase of a node says of its cache, its watch and its lookup.
PhaseFits ==
    \A n \in Nodes :
        /\ phase[n] \in {"down", "static"} => cache[n] = Nothing
        /\ phase[n] \in {"down", "loaded", "static"} => ~gap[n]
        /\ phase[n] = "down" => seeking[n] = "idle"
        /\ seeking[n] # "visiting" => unvisited[n] = {}
        /\ phase[n] = "watching" /\ ~gap[n] => synced[n] = position[n]

\* No node has a policy from the future, of the store or of its watch.
CacheFits ==
    \A n \in Nodes, i \in Ids :
        /\ cache[n][i].revision <= Revision
        /\ phase[n] = "watching" => cache[n][i].revision <= position[n]

\* What was stored under ID i at some revision that node n has passed since its
\* lookup began.
Held(n, i) == {At(history, i, v) : v \in begun[n]..synced[n]}

\* A lookup under way may meet only what was stored meanwhile, and has passed
\* over a fitting ID only if it once had no policy.
LookupFits ==
    \A n \in Nodes : phase[n] # "static" /\ ~gap[n] =>
        /\ seeking[n] # "idle" => begun[n] <= synced[n]
        /\ seeking[n] = "visiting" =>
              /\ \A i \in Ids : offers[n][i] \subseteq Held(n, i)
              /\ \A i \in fitting[n] \ unvisited[n] : Absent \in Held(n, i)

IInv ==
    /\ TypeOK
    /\ PhaseFits
    /\ CacheFits
    /\ CacheIsSnapshot
    /\ LookupFits
    /\ LookupTrueOfStore

LEMMA InitIInv == Init => IInv
<1> SUFFICES ASSUME Init PROVE IInv
  OBVIOUS
<1>1. Revision = 0
  BY DEF Init, Revision
<1>2. Nothing \in [Ids -> Policy] /\ \A i \in Ids : Nothing[i].revision = 0
  BY DEF Nothing, Policy, Absent
<1>3. TypeOK
  BY <1>1, <1>2 DEF Init, TypeOK, NoOffers, Policy
<1> QED
  BY <1>1, <1>2, <1>3 DEF IInv, Init, PhaseFits, CacheFits, CacheIsSnapshot, LookupFits,
                          LookupTrueOfStore

-----------------------------------------------------------------------------
(* Types.                                                                   *)

LEMMA StoredType ==
    ASSUME TypeOK
    PROVE  Revision \in Nat /\ Stored \in [Ids -> Policy]
           /\ \A i \in Ids : Stored[i].revision <= Revision
<1>1. history \in Seq(Writes) /\ Revision \in Nat /\ Revision \in 0..Len(history)
  BY DEF TypeOK, Revision
<1> QED
  BY <1>1, AtType DEF Stored, Contents

\* A step appends one write to the history or leaves it.
LEMMA StepWrites ==
    ASSUME TypeOK, [Next]_vars
    PROVE  \/ history' = history
           \/ /\ \E e \in Writes : history' = Append(history, e)
              /\ UNCHANGED <<nodeVars, lookupVars>>
<1>1. ASSUME NEW i \in Ids, NEW limit \in Nat, Write(i, limit)
      PROVE  \E e \in Writes : history' = Append(history, e)
  BY <1>1 DEF Write, Writes
<1>2. ASSUME NEW i \in Ids, NEW limit \in Limits, SavePolicy(i, limit) \/ Translate(i, limit)
      PROVE  (\E e \in Writes : history' = Append(history, e)) /\ UNCHANGED <<nodeVars, lookupVars>>
  BY <1>1, <1>2, LimitTypes DEF SavePolicy, Translate
<1>3. ASSUME NEW i \in Ids, DeletePolicy(i)
      PROVE  (\E e \in Writes : history' = Append(history, e)) /\ UNCHANGED <<nodeVars, lookupVars>>
  BY <1>1, <1>3 DEF DeletePolicy
<1>4. ASSUME NEW s \in Scalers, NEW i \in Ids, ScaleWrite(s, i)
      PROVE  (\E e \in Writes : history' = Append(history, e)) /\ UNCHANGED <<nodeVars, lookupVars>>
  <2>1. scaling[s][i] * Factor \in Nat
    BY FactorType DEF TypeOK
  <2> QED
    BY <1>1, <1>4, <2>1 DEF ScaleWrite
<1>5. CASE \/ UNCHANGED vars
           \/ \E s \in Scalers : ScaleRead(s) \/ \E i \in Ids : ScaleSkip(s, i)
           \/ \E n \in Nodes :
                 \/ Start(n) \/ StartFails(n) \/ OpenWatch(n) \/ Deliver(n)
                 \/ CloseWatch(n) \/ Stop(n) \/ Default(n)
                 \/ \E fit \in Routes : Seek(n, fit)
                 \/ \E i \in Ids : Visit(n, i)
  BY <1>5 DEF vars, ScaleRead, ScaleSkip, Start, StartFails, OpenWatch, Deliver, CloseWatch,
              Stop, Default, Seek, Visit, storeVars
<1> QED
  BY <1>2, <1>3, <1>4, <1>5 DEF Next

\* What a watch applies next is well typed.
LEMMA AppliedType ==
    ASSUME TypeOK, NEW n \in Nodes, position[n] + 1 <= Revision
    PROVE  /\ history[position[n] + 1].id \in Ids
           /\ Written(history, position[n] + 1) \in Policy
           /\ Written(history, position[n] + 1).revision <= position[n] + 1
           /\ Applied(n, position[n] + 1) \in [Ids -> Policy]
<1> DEFINE v == position[n] + 1
<1>1. v \in 1..Len(history)
  BY DEF TypeOK, Revision
<1>2. history[v] \in Writes
  BY <1>1 DEF TypeOK
<1>3. Written(history, v) \in Policy /\ Written(history, v).revision <= v
  BY <1>1, <1>2 DEF Written, Writes, Policy, Absent
<1> QED
  BY <1>2, <1>3 DEF Applied, TypeOK, Writes

LEMMA PolicyFields == \A p \in Policy : p.revision \in Nat /\ p.limit \in Nat
  BY DEF Policy, Absent

\* A step of a lookup keeps the types when what it notes is well typed.
LEMMA LookType ==
    ASSUME TypeOK, NEW n \in Nodes, NEW state \in {"idle", "visiting", "found"},
           NEW fit \in SUBSET Ids, NEW ids \in SUBSET Ids, NEW held \in [Ids -> SUBSET Policy],
           NEW revision \in 0..Revision, NEW policy \in Policy,
           Look(n, state, fit, ids, held, revision, policy),
           UNCHANGED <<nodeVars, storeVars, scaleVars>>
    PROVE  TypeOK'
  BY DEF TypeOK, Look, Revision, nodeVars, storeVars, scaleVars

LEMMA StepKeepsTypes ==
    ASSUME TypeOK, [Next]_vars
    PROVE  TypeOK'
<1> USE DEF TypeOK, Revision
<1>1. Stored \in [Ids -> Policy] /\ Nothing \in [Ids -> Policy]
      /\ NoOffers \in [Ids -> SUBSET Policy] /\ Absent \in Policy
  BY StoredType DEF Nothing, NoOffers, Policy
<1>2. CASE history' # history
  <2>1. PICK e \in Writes : history' = Append(history, e)
    BY <1>2, StepWrites
  <2>2. UNCHANGED <<nodeVars, lookupVars>>
    BY <1>2, StepWrites
  <2>3. history' \in Seq(Writes) /\ Len(history') = Len(history) + 1
    BY <2>1
  <2>4. scaling' \in [Scalers -> [Ids -> Nat]] /\ runs' \subseteq Scalers
    <3>1. ASSUME NEW s \in Scalers, NEW i \in Ids, ScaleWrite(s, i)
          PROVE  scaling' \in [Scalers -> [Ids -> Nat]] /\ runs' \subseteq Scalers
      BY <3>1 DEF ScaleWrite
    <3>2. \/ UNCHANGED scaleVars
          \/ \E s \in Scalers, i \in Ids : ScaleWrite(s, i)
      BY <1>2 DEF Next, vars, SavePolicy, Translate, DeletePolicy, ScaleRead, ScaleSkip, Start,
                  StartFails, OpenWatch, Deliver, CloseWatch, Stop, Default, Seek, Visit, storeVars
    <3> QED
      BY <3>1, <3>2 DEF scaleVars
  <2> QED
    BY <2>2, <2>3, <2>4 DEF nodeVars, lookupVars
<1>3. CASE UNCHANGED vars
  BY <1>3 DEF vars
<1>4. ASSUME NEW s \in Scalers, ScaleRead(s)
      PROVE  TypeOK'
  <2>1. \A i \in Ids : Stored[i].limit \in Nat
    BY <1>1, PolicyFields
  <2> QED
    BY <1>4, <2>1 DEF ScaleRead, storeVars, nodeVars, lookupVars
<1>5. ASSUME NEW s \in Scalers, NEW i \in Ids, ScaleSkip(s, i)
      PROVE  TypeOK'
  BY <1>5 DEF ScaleSkip, storeVars, nodeVars, lookupVars
<1>6. ASSUME NEW n \in Nodes, Start(n)
      PROVE  TypeOK'
  BY <1>1, <1>6 DEF Start, storeVars, scaleVars, lookupVars
<1>7. ASSUME NEW n \in Nodes, StartFails(n) \/ OpenWatch(n) \/ CloseWatch(n)
      PROVE  TypeOK'
  <2>1. CASE StartFails(n) \/ CloseWatch(n)
    BY <2>1 DEF StartFails, CloseWatch, storeVars, scaleVars, lookupVars
  <2>2. CASE OpenWatch(n)
    <3> DEFINE lost == gap[n] \/ synced[n] < Revision
    <3>1. lost \in BOOLEAN
      OBVIOUS
    <3>2. gap' = [gap EXCEPT ![n] = lost]
      BY <2>2 DEF OpenWatch
    <3> HIDE DEF lost
    <3>3. gap' \in [Nodes -> BOOLEAN]
      BY <3>1, <3>2
    <3> QED
      BY <2>2, <3>3 DEF OpenWatch, storeVars, scaleVars, lookupVars
  <2> QED
    BY <1>7, <2>1, <2>2
<1>8. ASSUME NEW n \in Nodes, Deliver(n)
      PROVE  TypeOK'
  <2> DEFINE v == position[n] + 1
             i == history[v].id
  <2>1. i \in Ids /\ Applied(n, v) \in [Ids -> Policy] /\ v \in 0..Len(history)
    BY <1>8, AppliedType DEF Deliver
  <2>2. cache' = [cache EXCEPT ![n] = Applied(n, v)]
    BY <1>8 DEF Deliver
  <2>3. cache' \in [Nodes -> [Ids -> Policy]]
    BY <2>1, <2>2
  <2>4. Offered(n, i) \in [Ids -> SUBSET Policy]
    BY <2>1, <2>3 DEF Offered
  <2>5. offers' = [offers EXCEPT ![n] = Offered(n, i)]
    BY <1>8 DEF Deliver
  <2>6. /\ position' = [position EXCEPT ![n] = v]
        /\ synced' = [synced EXCEPT ![n] = IF gap[n] THEN @ ELSE v]
        /\ UNCHANGED <<phase, gap, history, scaling, runs>>
        /\ UNCHANGED <<seeking, fitting, unvisited, begun, enforced>>
    BY <1>8 DEF Deliver, storeVars, scaleVars
  <2> HIDE DEF v, i
  <2>7. offers' \in [Nodes -> [Ids -> SUBSET Policy]]
    BY <2>4, <2>5
  <2>8. position' \in [Nodes -> 0..Len(history)] /\ synced' \in [Nodes -> 0..Len(history)]
    BY <2>1, <2>6
  <2> QED
    BY <2>3, <2>6, <2>7, <2>8
<1>9. ASSUME NEW n \in Nodes, NEW fit \in Routes, Seek(n, fit)
      PROVE  TypeOK'
  <2>1. fit \in SUBSET Ids /\ [i \in Ids |-> {cache[n][i]}] \in [Ids -> SUBSET Policy]
        /\ synced[n] \in 0..Revision
    BY RouteTypes
  <2> QED
    BY <1>1, <1>9, <2>1, LookType DEF Seek
<1>10. ASSUME NEW n \in Nodes, NEW i \in Ids, Visit(n, i)
       PROVE  TypeOK'
  <2>1. PICK p \in offers[n][i] :
          IF p # Absent /\ i \in fitting[n]
          THEN Look(n, "found", fitting[n], {}, NoOffers, begun[n], p)
          ELSE Look(n, "visiting", fitting[n], unvisited[n] \ {i}, offers[n], begun[n], Absent)
    BY <1>10 DEF Visit
  <2>2. /\ p \in Policy /\ fitting[n] \in SUBSET Ids /\ unvisited[n] \ {i} \in SUBSET Ids
        /\ offers[n] \in [Ids -> SUBSET Policy] /\ begun[n] \in 0..Revision
    OBVIOUS
  <2>3. UNCHANGED <<nodeVars, storeVars, scaleVars>>
    BY <1>10 DEF Visit
  <2> HIDE DEF TypeOK
  <2> QED
    BY <1>1, <2>1, <2>2, <2>3, LookType
<1>11. ASSUME NEW n \in Nodes, Default(n)
       PROVE  TypeOK'
  <2>1. fitting[n] \in SUBSET Ids /\ {} \in SUBSET Ids /\ begun[n] \in 0..Revision
    OBVIOUS
  <2> QED
    BY <1>1, <1>11, <2>1, LookType DEF Default
<1>12. ASSUME NEW n \in Nodes, Stop(n)
       PROVE  TypeOK'
  BY <1>1, <1>12 DEF Stop, Look, storeVars, scaleVars
<1> HIDE DEF TypeOK, Revision
<1>13. CASE history' = history
  <2>1. ASSUME NEW i \in Ids, NEW limit, Write(i, limit)
        PROVE  FALSE
    BY <1>13, <2>1 DEF Write, TypeOK
  <2> QED
    BY <1>3, <1>4, <1>5, <1>6, <1>7, <1>8, <1>9, <1>10, <1>11, <1>12, <2>1
    DEF Next, SavePolicy, Translate, DeletePolicy, ScaleWrite
<1> QED
  BY <1>2, <1>13

-----------------------------------------------------------------------------
(* A write to the store.                                                    *)

\* It changes nothing of the past.
LEMMA PastKept ==
    ASSUME TypeOK, NEW e \in Writes, history' = Append(history, e)
    PROVE  /\ Revision' = Revision + 1
           /\ \A v \in 0..Revision, i \in Ids : At(history', i, v) = At(history, i, v)
           /\ \A v \in 0..Revision : Contents(history', v) = Contents(history, v)
<1>1. history \in Seq(Writes)
  BY DEF TypeOK
<1>2. Revision' = Revision + 1
  BY <1>1 DEF Revision
<1>3. \A v \in 0..Revision, i \in Ids : At(history', i, v) = At(history, i, v)
  BY <1>1, AtKept DEF Revision
<1>4. \A v \in 0..Revision : Contents(history', v) = Contents(history, v)
  BY <1>3 DEF Contents
<1> QED
  BY <1>2, <1>3, <1>4

LEMMA WriteKeepsIInv ==
    ASSUME IInv, [Next]_vars, history' # history
    PROVE  IInv'
<1>1. PICK e \in Writes : history' = Append(history, e)
  BY StepWrites DEF IInv
<1>2. UNCHANGED <<phase, cache, position, synced, gap, seeking, fitting, unvisited, offers,
                  begun, enforced>>
  BY StepWrites DEF IInv, nodeVars, lookupVars
<1>3. TypeOK /\ TypeOK'
  BY StepKeepsTypes DEF IInv
<1>4. /\ Revision' = Revision + 1 /\ Revision \in Nat
      /\ \A v \in 0..Revision, i \in Ids : At(history', i, v) = At(history, i, v)
      /\ \A v \in 0..Revision : Contents(history', v) = Contents(history, v)
  BY <1>1, <1>3, PastKept, StoredType
<1>5. \A n \in Nodes : /\ synced[n] \in 0..Revision /\ begun[n] \in 0..Revision
                       /\ begun[n]..synced[n] \subseteq 0..Revision
  BY <1>3, <1>4 DEF TypeOK
<1>6. PhaseFits'
  BY <1>2 DEF IInv, PhaseFits
<1>7. CacheFits'
  <2>1. \A n \in Nodes, i \in Ids : cache[n][i].revision \in Nat
    BY <1>3, PolicyFields DEF TypeOK
  <2> QED
    BY <1>2, <1>4, <2>1 DEF IInv, CacheFits
<1>8. CacheIsSnapshot'
  BY <1>2, <1>4, <1>5 DEF IInv, CacheIsSnapshot
<1>9. \A n \in Nodes, i \in Ids :
         {At(history', i, v) : v \in begun'[n]..synced'[n]}
            = {At(history, i, v) : v \in begun[n]..synced[n]}
  BY <1>2, <1>4, <1>5
<1>10. LookupFits'
  <2>1. \A n \in Nodes, i \in Ids : Held(n, i)' = Held(n, i)
    BY <1>9 DEF Held
  <2>2. \A n \in Nodes : fitting[n] \subseteq Ids
    BY <1>3 DEF TypeOK
  <2> QED
    BY <1>2, <2>1, <2>2 DEF IInv, LookupFits
<1>11. LookupTrueOfStore'
  <2>1. \A n \in Nodes : fitting[n] \subseteq Ids
    BY <1>3 DEF TypeOK
  <2> QED
    BY <1>2, <1>9, <2>1 DEF IInv, LookupTrueOfStore
<1> QED
  BY <1>3, <1>6, <1>7, <1>8, <1>10, <1>11 DEF IInv

-----------------------------------------------------------------------------
(* A step of a node.                                                        *)

\* The actions of a node other than a lookup's, and those of a lookup.
NodeStep(n) ==
    \/ Start(n) \/ StartFails(n) \/ OpenWatch(n) \/ Deliver(n) \/ CloseWatch(n) \/ Stop(n)
LookupStep(n) ==
    \/ Default(n)
    \/ \E fit \in Routes : Seek(n, fit)
    \/ \E i \in Ids : Visit(n, i)

\* A step that writes nothing is one of a node, of a lookup, or changes neither.
LEMMA QuietSteps ==
    ASSUME TypeOK, [Next]_vars, history' = history
    PROVE  \/ \E n \in Nodes : NodeStep(n) \/ LookupStep(n)
           \/ UNCHANGED <<nodeVars, lookupVars>>
<1>1. ASSUME NEW i \in Ids, NEW limit, Write(i, limit)
      PROVE  FALSE
  BY <1>1 DEF Write, TypeOK
<1> QED
  BY <1>1 DEF Next, vars, NodeStep, LookupStep, SavePolicy, Translate, DeletePolicy, ScaleRead,
              ScaleWrite, ScaleSkip, nodeVars, lookupVars

LEMMA OthersKeep ==
    ASSUME TypeOK, NEW n \in Nodes, NodeStep(n) \/ LookupStep(n)
    PROVE  /\ history' = history
           /\ \A m \in Nodes \ {n} :
                 /\ phase'[m] = phase[m] /\ cache'[m] = cache[m] /\ position'[m] = position[m]
                 /\ synced'[m] = synced[m] /\ gap'[m] = gap[m] /\ seeking'[m] = seeking[m]
                 /\ fitting'[m] = fitting[m] /\ unvisited'[m] = unvisited[m]
                 /\ offers'[m] = offers[m] /\ begun'[m] = begun[m]
                 /\ enforced'[m] = enforced[m]
<1> USE DEF TypeOK
<1>1. CASE Start(n) \/ StartFails(n) \/ OpenWatch(n) \/ CloseWatch(n)
  BY <1>1 DEF Start, StartFails, OpenWatch, CloseWatch, storeVars, lookupVars
<1>2. CASE Deliver(n)
  BY <1>2 DEF Deliver, storeVars
<1>3. CASE Stop(n)
  BY <1>3 DEF Stop, Look, storeVars
<1>4. CASE LookupStep(n)
  BY <1>4 DEF LookupStep, Default, Seek, Visit, Look, storeVars, nodeVars
<1> QED
  BY <1>1, <1>2, <1>3, <1>4 DEF NodeStep

\* A node without a gap applies the next revision and has all of it.
LEMMA DeliverAdvances ==
    ASSUME IInv, NEW n \in Nodes, Deliver(n), ~gap[n]
    PROVE  /\ synced[n] + 1 <= Revision
           /\ cache'[n] = Contents(history, synced[n] + 1)
           /\ synced'[n] = synced[n] + 1
<1> DEFINE v == synced[n] + 1
<1>1. TypeOK /\ phase[n] = "watching" /\ synced[n] = position[n] /\ v <= Revision
  BY DEF IInv, PhaseFits, Deliver
<1>2. history \in Seq(Writes) /\ synced[n] \in 0..(Len(history) - 1)
  BY <1>1 DEF TypeOK, Revision
<1>3. cache[n] = Contents(history, synced[n])
  BY <1>1 DEF IInv, CacheIsSnapshot
<1>4. ASSUME NEW i \in Ids
      PROVE  At(history, i, v) = IF history[v].id = i THEN Written(history, v)
                                 ELSE cache[n][i]
  <2>1. cache[n][i] = At(history, i, synced[n])
    BY <1>3 DEF Contents
  <2> QED
    BY <1>2, <2>1, AtNext
<1>5. cache'[n] = [cache[n] EXCEPT ![history[v].id] = Written(history, v)]
      /\ synced'[n] = v
  BY <1>1 DEF Deliver, Applied, TypeOK
<1>6. cache[n] \in [Ids -> Policy]
  BY <1>1 DEF TypeOK
<1> HIDE DEF v
<1>7. cache'[n] = [i \in Ids |-> At(history, i, v)]
  BY <1>4, <1>5, <1>6
<1> QED
  BY <1>1, <1>5, <1>7 DEF v, Contents

LEMMA NodeStepKeepsPhaseFits ==
    ASSUME IInv, NEW n \in Nodes, NodeStep(n) \/ LookupStep(n)
    PROVE  PhaseFits'
<1>1. TypeOK /\ PhaseFits
  BY DEF IInv
<1> SUFFICES /\ phase'[n] \in {"down", "static"} => cache'[n] = Nothing
             /\ phase'[n] \in {"down", "loaded", "static"} => ~gap'[n]
             /\ phase'[n] = "down" => seeking'[n] = "idle"
             /\ seeking'[n] # "visiting" => unvisited'[n] = {}
             /\ phase'[n] = "watching" /\ ~gap'[n] => synced'[n] = position'[n]
  BY <1>1, OthersKeep DEF PhaseFits
<1> USE <1>1 DEF TypeOK, PhaseFits
<1>2. CASE Start(n) \/ StartFails(n) \/ CloseWatch(n)
  BY <1>2 DEF Start, StartFails, CloseWatch, lookupVars
<1>3. CASE OpenWatch(n)
  <2>1. Revision \in Nat /\ synced[n] \in 0..Revision
    BY StoredType
  <2>2. phase'[n] = "watching" /\ position'[n] = Revision /\ synced'[n] = synced[n]
    BY <1>3 DEF OpenWatch
  <2>3. gap'[n] = (gap[n] \/ synced[n] < Revision)
    BY <1>3 DEF OpenWatch
  <2>4. ~gap'[n] => ~ synced[n] < Revision
    BY <2>3, Zenon
  <2>5. ~gap'[n] => synced[n] = Revision
    BY <2>1, <2>4
  <2>6. seeking' = seeking /\ unvisited' = unvisited
    BY <1>3 DEF OpenWatch, lookupVars
  <2> QED
    BY <2>2, <2>5, <2>6
<1>4. CASE Deliver(n)
  BY <1>4 DEF Deliver
<1>5. CASE Stop(n)
  BY <1>5 DEF Stop, Look
<1>6. CASE LookupStep(n)
  <2>1. UNCHANGED nodeVars
    BY <1>6 DEF LookupStep, Default, Seek, Visit
  <2>2. phase[n] # "down"
    BY <1>6 DEF LookupStep, Default, Seek, Visit
  <2>3. seeking'[n] # "visiting" => unvisited'[n] = {}
    BY <1>6 DEF LookupStep, Default, Seek, Visit, Look
  <2> QED
    BY <2>1, <2>2, <2>3 DEF nodeVars
<1> QED
  BY <1>2, <1>3, <1>4, <1>5, <1>6 DEF NodeStep

LEMMA NodeStepKeepsCacheFits ==
    ASSUME IInv, NEW n \in Nodes, NodeStep(n) \/ LookupStep(n)
    PROVE  CacheFits'
<1>1. TypeOK /\ CacheFits /\ Revision \in Nat
  BY StoredType DEF IInv
<1>2. Revision' = Revision
  BY <1>1, OthersKeep DEF Revision
<1>3. \A i \in Ids : cache[n][i] \in Policy /\ cache[n][i].revision \in Nat
                    /\ cache[n][i].revision <= Revision
                    /\ (phase[n] = "watching" => cache[n][i].revision <= position[n])
  BY <1>1, PolicyFields DEF TypeOK, CacheFits
<1>4. \A i \in Ids : Nothing[i].revision = 0
  BY DEF Nothing, Absent
<1> SUFFICES ASSUME NEW i \in Ids
             PROVE  /\ cache'[n][i].revision <= Revision
                    /\ phase'[n] = "watching" => cache'[n][i].revision <= position'[n]
  BY <1>1, <1>2, OthersKeep DEF CacheFits
<1> USE DEF TypeOK
<1>5. CASE Start(n)
  BY <1>1, <1>5, StoredType DEF Start
<1>6. CASE StartFails(n) \/ CloseWatch(n)
  BY <1>1, <1>3, <1>6 DEF StartFails, CloseWatch
<1>7. CASE OpenWatch(n)
  BY <1>1, <1>3, <1>7 DEF OpenWatch
<1>8. CASE Deliver(n)
  <2> DEFINE v == position[n] + 1
  <2>1. v <= Revision /\ position[n] \in Nat /\ phase[n] = "watching"
    BY <1>1, <1>8 DEF Deliver
  <2>2. Written(history, v).revision <= v
    BY <1>1, <2>1, AppliedType
  <2>3. position'[n] = v /\ phase' = phase
        /\ cache'[n] = [cache[n] EXCEPT ![history[v].id] = Written(history, v)]
    BY <1>1, <1>8 DEF Deliver, Applied
  <2>4. Written(history, v).revision \in Nat
    BY <1>1, <2>1, AppliedType, PolicyFields
  <2>5. cache[n] \in [Ids -> Policy]
    BY <1>1
  <2> HIDE DEF v
  <2>6. cache'[n][i] = cache[n][i] \/ cache'[n][i] = Written(history, v)
    BY <2>3, <2>5
  <2>7. v = position[n] + 1
    BY DEF v
  <2> QED
    BY <1>1, <1>3, <2>1, <2>2, <2>3, <2>4, <2>6, <2>7
<1>9. CASE Stop(n)
  BY <1>1, <1>4, <1>9 DEF Stop
<1>10. CASE LookupStep(n)
  BY <1>3, <1>10 DEF LookupStep, Default, Seek, Visit, nodeVars
<1> QED
  BY <1>5, <1>6, <1>7, <1>8, <1>9, <1>10 DEF NodeStep

LEMMA NodeStepKeepsSnapshot ==
    ASSUME IInv, NEW n \in Nodes, NodeStep(n) \/ LookupStep(n)
    PROVE  CacheIsSnapshot'
<1>1. TypeOK /\ CacheIsSnapshot
  BY DEF IInv
<1>2. history' = history
  BY <1>1, OthersKeep
<1> SUFFICES ASSUME phase'[n] \in {"loaded", "watching", "closed"}, ~gap'[n]
             PROVE  cache'[n] = Contents(history, synced'[n])
  BY <1>1, <1>2, OthersKeep DEF CacheIsSnapshot
<1> USE DEF TypeOK
<1>3. CASE Start(n)
  BY <1>1, <1>3 DEF Start, Stored
<1>4. CASE StartFails(n) \/ CloseWatch(n)
  BY <1>1, <1>4 DEF StartFails, CloseWatch, CacheIsSnapshot
<1>5. CASE OpenWatch(n)
  <2>1. gap'[n] = (gap[n] \/ synced[n] < Revision)
    BY <1>1, <1>5 DEF OpenWatch
  <2>2. ~gap[n]
    BY <2>1, Zenon
  <2>3. cache' = cache /\ synced' = synced /\ phase[n] \in {"loaded", "closed"}
    BY <1>5 DEF OpenWatch
  <2> QED
    BY <1>1, <2>2, <2>3 DEF CacheIsSnapshot
<1>6. CASE Deliver(n)
  BY <1>6, DeliverAdvances DEF Deliver
<1>7. CASE Stop(n)
  BY <1>1, <1>7 DEF Stop
<1>8. CASE LookupStep(n)
  <2>1. UNCHANGED nodeVars
    BY <1>8 DEF LookupStep, Default, Seek, Visit
  <2> QED
    BY <1>1, <2>1 DEF nodeVars, CacheIsSnapshot
<1> QED
  BY <1>3, <1>4, <1>5, <1>6, <1>7, <1>8 DEF NodeStep

-----------------------------------------------------------------------------
(* Lookups.                                                                 *)

\* What a lookup that was begun may have met stays so as the node moves on.
LEMMA HeldGrows ==
    ASSUME TypeOK, NEW n \in Nodes, history' = history, begun'[n] = begun[n],
           synced'[n] \in Nat, synced'[n] >= synced[n]
    PROVE  \A i \in Ids : Held(n, i) \subseteq Held(n, i)'
<1>1. begun[n] \in Nat /\ synced[n] \in Nat
  BY StoredType DEF TypeOK
<1>2. begun[n]..synced[n] \subseteq begun'[n]..synced'[n]
  BY <1>1
<1> QED
  BY <1>2 DEF Held

LEMMA NodeStepKeepsLookupFits ==
    ASSUME IInv, NEW n \in Nodes, NodeStep(n)
    PROVE  LookupFits'
<1>1. TypeOK /\ TypeOK' /\ LookupFits /\ PhaseFits /\ Revision \in Nat
  <2>1. [Next]_vars
    BY DEF Next, NodeStep
  <2> QED
    BY <2>1, StepKeepsTypes, StoredType DEF IInv
<1>2. history' = history
  BY <1>1, OthersKeep
<1>3. \A m \in Nodes \ {n}, i \in Ids : Held(m, i)' = Held(m, i)
  BY <1>1, <1>2, OthersKeep DEF Held
<1>4. \A m \in Nodes : fitting[m] \subseteq Ids
  BY <1>1 DEF TypeOK
<1> SUFFICES ASSUME phase'[n] # "static", ~gap'[n]
             PROVE  /\ seeking'[n] # "idle" => begun'[n] <= synced'[n]
                    /\ seeking'[n] = "visiting" =>
                          /\ \A i \in Ids : offers'[n][i] \subseteq Held(n, i)'
                          /\ \A i \in fitting'[n] \ unvisited'[n] : Absent \in Held(n, i)'
  BY <1>1, <1>3, <1>4, OthersKeep DEF LookupFits
<1>5. CASE Start(n) \/ StartFails(n)
  BY <1>1, <1>5 DEF Start, StartFails, lookupVars, PhaseFits, TypeOK
<1>6. CASE OpenWatch(n) \/ CloseWatch(n)
  <2>1. UNCHANGED <<synced, seeking, fitting, unvisited, offers, begun>>
        /\ phase[n] # "static"
    BY <1>6 DEF OpenWatch, CloseWatch, lookupVars
  <2>2. ~gap[n]
    <3>1. CASE OpenWatch(n)
      <4>1. gap'[n] = (gap[n] \/ synced[n] < Revision)
        BY <1>1, <3>1 DEF OpenWatch, TypeOK
      <4> QED
        BY <4>1, Zenon
    <3>2. CASE CloseWatch(n)
      BY <3>2 DEF CloseWatch
    <3> QED
      BY <1>6, <3>1, <3>2
  <2>3. \A i \in Ids : Held(n, i)' = Held(n, i)
    BY <1>2, <2>1 DEF Held
  <2> QED
    BY <1>1, <1>4, <2>1, <2>2, <2>3 DEF LookupFits
<1>7. CASE Deliver(n)
  <2> DEFINE j == history[position[n] + 1].id
  <2>1. ~gap[n] /\ phase[n] = "watching"
        /\ UNCHANGED <<seeking, fitting, unvisited, begun>>
        /\ offers'[n] = Offered(n, j)
    BY <1>1, <1>7 DEF Deliver, TypeOK
  <2>2. synced'[n] = synced[n] + 1 /\ cache'[n] = Contents(history, synced[n] + 1)
    BY <1>7, <2>1, DeliverAdvances
  <2>3. synced[n] \in Nat /\ begun[n] \in Nat
    BY <1>1 DEF TypeOK
  <2>4. \A i \in Ids : Held(n, i) \subseteq Held(n, i)'
    BY <1>1, <1>2, <2>1, <2>2, <2>3, HeldGrows
  <2>5. seeking[n] # "idle" => begun[n] <= synced[n]
    BY <1>1, <2>1 DEF LookupFits
  <2>6. ASSUME seeking[n] = "visiting", NEW i \in Ids
        PROVE  offers'[n][i] \subseteq Held(n, i)'
    <3>1. synced[n] + 1 \in begun'[n]..synced'[n]
      BY <2>1, <2>2, <2>3, <2>5, <2>6
    <3>2. cache'[n][i] = At(history', i, synced[n] + 1)
      BY <1>2, <2>2 DEF Contents
    <3>3. cache'[n][i] \in Held(n, i)'
      BY <3>1, <3>2 DEF Held
    <3>4. offers[n][i] \subseteq Held(n, i)
      BY <1>1, <2>1, <2>6 DEF LookupFits
    <3>5. offers'[n][i] \subseteq offers[n][i] \cup {cache'[n][i]}
      <4>1. offers[n] \in [Ids -> SUBSET Policy]
        BY <1>1 DEF TypeOK
      <4>2. offers'[n] = [offers[n] EXCEPT ![j] = @ \cup {cache'[n][j]}]
        BY <2>1, <2>6 DEF Offered
      <4> HIDE DEF j
      <4> QED
        BY <4>1, <4>2
    <3> QED
      BY <2>4, <3>3, <3>4, <3>5
  <2>7. seeking[n] = "visiting" =>
          \A i \in fitting'[n] \ unvisited'[n] : Absent \in Held(n, i)'
    BY <1>1, <1>4, <2>1, <2>4 DEF LookupFits
  <2> QED
    BY <2>1, <2>2, <2>3, <2>5, <2>6, <2>7
<1>8. CASE Stop(n)
  BY <1>1, <1>8 DEF Stop, Look, TypeOK
<1> QED
  BY <1>5, <1>6, <1>7, <1>8 DEF NodeStep

LEMMA LookupStepKeepsLookupFits ==
    ASSUME IInv, NEW n \in Nodes, LookupStep(n)
    PROVE  LookupFits'
<1>1. TypeOK /\ LookupFits /\ PhaseFits /\ CacheIsSnapshot
  BY DEF IInv
<1>2. UNCHANGED <<history, nodeVars>>
  BY DEF LookupStep, Default, Seek, Visit, storeVars
<1>3. \A m \in Nodes \ {n}, i \in Ids : Held(m, i)' = Held(m, i)
  BY <1>1, <1>2, OthersKeep DEF Held
<1>4. \A m \in Nodes : fitting[m] \subseteq Ids /\ begun[m] \in Nat /\ synced[m] \in Nat
  BY <1>1, StoredType DEF TypeOK
<1> SUFFICES ASSUME phase[n] # "static", ~gap[n]
             PROVE  /\ seeking'[n] # "idle" => begun'[n] <= synced'[n]
                    /\ seeking'[n] = "visiting" =>
                          /\ \A i \in Ids : offers'[n][i] \subseteq Held(n, i)'
                          /\ \A i \in fitting'[n] \ unvisited'[n] : Absent \in Held(n, i)'
  BY <1>1, <1>2, <1>3, <1>4, OthersKeep DEF LookupFits, nodeVars
<1>5. ASSUME NEW fit \in Routes, Seek(n, fit)
      PROVE  /\ begun'[n] <= synced'[n]
             /\ \A i \in Ids : offers'[n][i] \subseteq Held(n, i)'
             /\ fitting'[n] \ unvisited'[n] = {}
  <2>1. /\ begun'[n] = synced[n] /\ synced'[n] = synced[n]
        /\ offers'[n] = [i \in Ids |-> {cache[n][i]}]
        /\ fitting'[n] = fit /\ unvisited'[n] = Ids
    BY <1>1, <1>5 DEF Seek, Look, TypeOK, nodeVars
  <2>2. cache[n] = Contents(history, synced[n])
    BY <1>1, <1>5 DEF Seek, CacheIsSnapshot, TypeOK
  <2>3. \A i \in Ids : At(history, i, synced[n]) \in Held(n, i)'
    BY <1>2, <1>4, <2>1 DEF Held
  <2> QED
    BY <1>4, <2>1, <2>2, <2>3, RouteTypes DEF Contents
<1>6. ASSUME seeking'[n] # "idle", \A fit \in Routes : ~ Seek(n, fit)
      PROVE  /\ UNCHANGED <<begun[n], synced[n], fitting[n]>>
             /\ seeking[n] = "visiting"
             /\ \A i \in Ids : Held(n, i)' = Held(n, i)
  <2>1. begun' = begun /\ fitting' = fitting /\ synced' = synced
    BY <1>1, <1>2, <1>6 DEF LookupStep, Default, Visit, Look, TypeOK, nodeVars
  <2>2. seeking[n] = "visiting"
    BY <1>1, <1>6 DEF LookupStep, Default, Visit, PhaseFits
  <2> QED
    BY <1>2, <2>1, <2>2 DEF Held
<1>7. ASSUME NEW i \in Ids, Visit(n, i), seeking'[n] = "visiting",
             \A fit \in Routes : ~ Seek(n, fit)
      PROVE  /\ \A j \in Ids : offers'[n][j] \subseteq Held(n, j)'
             /\ \A j \in fitting'[n] \ unvisited'[n] : Absent \in Held(n, j)'
  <2>1. PICK p \in offers[n][i] :
          IF p # Absent /\ i \in fitting[n]
          THEN Look(n, "found", fitting[n], {}, NoOffers, begun[n], p)
          ELSE Look(n, "visiting", fitting[n], unvisited[n] \ {i}, offers[n], begun[n], Absent)
    BY <1>7 DEF Visit
  <2>2. /\ p = Absent \/ i \notin fitting[n]
        /\ unvisited'[n] = unvisited[n] \ {i} /\ offers'[n] = offers[n]
    BY <1>1, <1>7, <2>1 DEF Look, TypeOK
  <2>3. UNCHANGED <<begun[n], synced[n], fitting[n]>> /\ seeking[n] = "visiting"
        /\ \A j \in Ids : Held(n, j)' = Held(n, j)
    BY <1>6, <1>7
  <2>4. /\ \A j \in Ids : offers[n][j] \subseteq Held(n, j)
        /\ \A j \in fitting[n] \ unvisited[n] : Absent \in Held(n, j)
    BY <1>1, <2>3 DEF LookupFits
  <2> QED
    BY <1>4, <2>2, <2>3, <2>4
<1>8. Default(n) => seeking'[n] # "visiting"
  BY <1>1 DEF Default, Look, TypeOK
<1>9. seeking[n] = "visiting" => begun[n] <= synced[n]
  BY <1>1 DEF LookupFits
<1>10. CASE \E fit \in Routes : Seek(n, fit)
  BY <1>5, <1>10
<1>11. CASE \A fit \in Routes : ~ Seek(n, fit)
  BY <1>6, <1>7, <1>8, <1>9, <1>11 DEF LookupStep
<1> QED
  BY <1>10, <1>11

LEMMA NodeStepKeepsTruth ==
    ASSUME IInv, NEW n \in Nodes, NodeStep(n)
    PROVE  LookupTrueOfStore'
<1>1. TypeOK /\ LookupTrueOfStore /\ PhaseFits /\ Revision \in Nat
  BY StoredType DEF IInv
<1>2. history' = history
  BY <1>1, OthersKeep
<1>3. \A m \in Nodes : fitting[m] \subseteq Ids
  BY <1>1 DEF TypeOK
<1> DEFINE True(m) == IF enforced[m] = Absent
                      THEN \A i \in fitting[m] : Absent \in Held(m, i)
                      ELSE \E i \in fitting[m] : enforced[m] \in Held(m, i)
<1>4. LookupTrueOfStore <=>
        \A m \in Nodes : seeking[m] = "found" /\ phase[m] # "static" /\ ~gap[m] => True(m)
  BY DEF LookupTrueOfStore, Held
<1>5. LookupTrueOfStore' <=>
        \A m \in Nodes : seeking'[m] = "found" /\ phase'[m] # "static" /\ ~gap'[m] => True(m)'
  BY DEF LookupTrueOfStore, Held
<1>6. ASSUME NEW m \in Nodes \ {n}
      PROVE  True(m)' <=> True(m)
  BY <1>1, <1>2, OthersKeep DEF Held
<1> SUFFICES ASSUME seeking'[n] = "found", phase'[n] # "static", ~gap'[n]
             PROVE  True(n)'
  BY <1>1, <1>4, <1>5, <1>6, OthersKeep
<1>7. /\ UNCHANGED <<seeking, fitting, enforced, begun>> /\ ~gap[n] /\ phase[n] # "static"
      /\ synced'[n] \in Nat /\ synced[n] \in Nat /\ synced'[n] >= synced[n]
  <2>1. synced[n] \in Nat
    BY <1>1 DEF TypeOK
  <2>2. CASE Start(n) \/ StartFails(n)
    BY <1>1, <2>2 DEF Start, StartFails, lookupVars, PhaseFits
  <2>3. CASE OpenWatch(n)
    <3>1. gap'[n] = (gap[n] \/ synced[n] < Revision)
      BY <1>1, <2>3 DEF OpenWatch, TypeOK
    <3>2. ~gap[n]
      BY <3>1, Zenon
    <3> QED
      BY <2>1, <2>3, <3>2 DEF OpenWatch, lookupVars
  <2>4. CASE CloseWatch(n)
    BY <2>1, <2>4 DEF CloseWatch, lookupVars
  <2>5. CASE Deliver(n)
    <3>1. gap' = gap /\ phase[n] = "watching"
          /\ UNCHANGED <<seeking, fitting, enforced, begun>>
      BY <2>5 DEF Deliver
    <3>2. synced'[n] = synced[n] + 1
      BY <2>5, <3>1, DeliverAdvances
    <3> QED
      BY <2>1, <3>1, <3>2
  <2>6. CASE Stop(n)
    BY <1>1, <2>6 DEF Stop, Look, TypeOK
  <2> QED
    BY <2>2, <2>3, <2>4, <2>5, <2>6 DEF NodeStep
<1>8. \A i \in Ids : Held(n, i) \subseteq Held(n, i)'
  BY <1>1, <1>2, <1>7, HeldGrows
<1>9. True(n)
  BY <1>1, <1>4, <1>7
<1> QED
  BY <1>3, <1>7, <1>8, <1>9

LEMMA LookupStepKeepsTruth ==
    ASSUME IInv, NEW n \in Nodes, LookupStep(n)
    PROVE  LookupTrueOfStore'
<1>1. TypeOK /\ LookupTrueOfStore /\ LookupFits /\ PhaseFits
  BY DEF IInv
<1>2. UNCHANGED <<history, nodeVars>>
  BY DEF LookupStep, Default, Seek, Visit, storeVars
<1> DEFINE True(m) == IF enforced[m] = Absent
                      THEN \A i \in fitting[m] : Absent \in Held(m, i)
                      ELSE \E i \in fitting[m] : enforced[m] \in Held(m, i)
<1>3. LookupTrueOfStore <=>
        \A m \in Nodes : seeking[m] = "found" /\ phase[m] # "static" /\ ~gap[m] => True(m)
  BY DEF LookupTrueOfStore, Held
<1>4. LookupTrueOfStore' <=>
        \A m \in Nodes : seeking'[m] = "found" /\ phase'[m] # "static" /\ ~gap'[m] => True(m)'
  BY DEF LookupTrueOfStore, Held
<1>5. ASSUME NEW m \in Nodes \ {n}
      PROVE  True(m)' <=> True(m)
  BY <1>1, <1>2, OthersKeep DEF Held
<1> SUFFICES ASSUME seeking'[n] = "found", phase[n] # "static", ~gap[n]
             PROVE  True(n)'
  BY <1>1, <1>2, <1>3, <1>4, <1>5, OthersKeep DEF nodeVars
<1>6. ASSUME NEW fit \in Routes, Seek(n, fit)
      PROVE  FALSE
  BY <1>1, <1>6 DEF Seek, Look, TypeOK
<1>7. /\ UNCHANGED <<begun[n], synced[n], fitting[n]>> /\ seeking[n] = "visiting"
      /\ fitting[n] \subseteq Ids
  <2>1. begun' = begun /\ fitting' = fitting /\ synced' = synced
    BY <1>1, <1>2, <1>6 DEF LookupStep, Default, Visit, Look, TypeOK, nodeVars
  <2>2. seeking[n] = "visiting"
    BY <1>1, <1>6 DEF LookupStep, Default, Visit, PhaseFits
  <2> QED
    BY <1>1, <2>1, <2>2 DEF TypeOK
<1>8. /\ \A j \in Ids : offers[n][j] \subseteq Held(n, j)
      /\ \A j \in fitting[n] \ unvisited[n] : Absent \in Held(n, j)
      /\ \A j \in Ids : Held(n, j)' = Held(n, j)
  BY <1>1, <1>2, <1>7 DEF LookupFits, Held
<1>9. CASE Default(n)
  <2>1. unvisited[n] = {} /\ enforced'[n] = Absent
    BY <1>1, <1>9 DEF Default, Look, TypeOK
  <2> QED
    BY <1>7, <1>8, <2>1
<1>10. ASSUME NEW i \in Ids, Visit(n, i)
       PROVE  True(n)'
  <2>1. PICK p \in offers[n][i] :
          IF p # Absent /\ i \in fitting[n]
          THEN Look(n, "found", fitting[n], {}, NoOffers, begun[n], p)
          ELSE Look(n, "visiting", fitting[n], unvisited[n] \ {i}, offers[n], begun[n], Absent)
    BY <1>10 DEF Visit
  <2>2. p # Absent /\ i \in fitting[n] /\ enforced'[n] = p
    BY <1>1, <2>1 DEF Look, TypeOK
  <2> QED
    BY <1>7, <1>8, <2>2
<1> QED
  BY <1>6, <1>9, <1>10 DEF LookupStep

-----------------------------------------------------------------------------
(* The theorems.                                                            *)

LEMMA StepKeepsIInv ==
    ASSUME IInv, [Next]_vars
    PROVE  IInv'
<1>1. TypeOK /\ TypeOK'
  BY StepKeepsTypes DEF IInv
<1>2. CASE history' # history
  BY <1>2, WriteKeepsIInv
<1>3. ASSUME NEW n \in Nodes, NodeStep(n) \/ LookupStep(n)
      PROVE  IInv'
  BY <1>1, <1>3, NodeStepKeepsPhaseFits, NodeStepKeepsCacheFits, NodeStepKeepsSnapshot,
     NodeStepKeepsLookupFits, LookupStepKeepsLookupFits, NodeStepKeepsTruth,
     LookupStepKeepsTruth DEF IInv
<1>4. CASE history' = history /\ UNCHANGED <<nodeVars, lookupVars>>
  <2>1. Revision' = Revision
    BY <1>4 DEF Revision
  <2> QED
    BY <1>1, <1>4, <2>1 DEF IInv, PhaseFits, CacheFits, CacheIsSnapshot, LookupFits,
                            LookupTrueOfStore, Held, nodeVars, lookupVars
<1> QED
  BY <1>1, <1>2, <1>3, <1>4, QuietSteps

LEMMA Invariance == Spec => []IInv
  BY InitIInv, StepKeepsIInv, PTL DEF Spec

\* The state stays well typed: no watch delivers a revision that the store does
\* not have, and no cache holds half a policy.
THEOREM TypeCorrect == Spec => []TypeOK
<1>1. IInv => TypeOK
  BY DEF IInv
<1> QED
  BY <1>1, Invariance, PTL

\* A node whose watches left nothing out enforces one past state of the store,
\* whatever the writers, restarts and closed watches do.
THEOREM CachesAreSnapshots == Spec => []CacheIsSnapshot
<1>1. IInv => CacheIsSnapshot
  BY DEF IInv
<1> QED
  BY <1>1, Invariance, PTL

\* What a lookup on such a node finds was stored at some revision the node
\* passed meanwhile, though Range is no snapshot of the cache.
THEOREM LookupsAreTrue == Spec => []LookupTrueOfStore
<1>1. IInv => LookupTrueOfStore
  BY DEF IInv
<1> QED
  BY <1>1, Invariance, PTL

\* No step gives a running node an older version of a policy, with a gap or
\* without: a watch delivers in the order of the revisions.
LEMMA StepNeverRegresses ==
    ASSUME IInv, [Next]_vars, NEW n \in Nodes, NEW i \in Ids,
           phase'[n] # "down", cache'[n][i] # Absent
    PROVE  cache'[n][i].revision >= cache[n][i].revision
<1>1. TypeOK /\ TypeOK' /\ PhaseFits /\ CacheFits
  BY StepKeepsTypes DEF IInv
<1>2. cache[n][i].revision \in Nat /\ cache'[n][i].revision \in Nat
  BY <1>1, PolicyFields DEF TypeOK
<1>3. CASE cache'[n] = cache[n]
  BY <1>2, <1>3
<1>4. CASE Start(n)
  <2>1. cache[n][i] = Absent
    BY <1>1, <1>4 DEF Start, PhaseFits, Nothing
  <2> QED
    BY <1>2, <2>1 DEF Absent
<1>5. CASE Deliver(n)
  <2> DEFINE v == position[n] + 1
             j == history[v].id
  <2>1. position[n] \in Nat /\ v \in 1..Len(history) /\ cache[n][i].revision <= position[n]
    BY <1>1, <1>5 DEF TypeOK, Revision, Deliver, CacheFits
  <2>2. cache'[n] = [cache[n] EXCEPT ![j] = Written(history, v)]
    BY <1>1, <1>5 DEF Deliver, Applied, TypeOK
  <2>3. cache[n] \in [Ids -> Policy]
    BY <1>1 DEF TypeOK
  <2>4. Written(history, v) = Absent \/ Written(history, v).revision = v
    BY DEF Written
  <2> HIDE DEF j
  <2>5. cache'[n][i] = cache[n][i] \/ cache'[n][i] = Written(history, v)
    BY <2>2, <2>3
  <2> QED
    BY <1>2, <2>1, <2>4, <2>5
<1>6. CASE \E m \in Nodes : NodeStep(m) \/ LookupStep(m)
  <2>1. PICK m \in Nodes : NodeStep(m) \/ LookupStep(m)
    BY <1>6
  <2>2. CASE m # n
    BY <1>1, <1>3, <2>1, <2>2, OthersKeep
  <2>3. CASE m = n
    <3>1. StartFails(n) \/ OpenWatch(n) \/ CloseWatch(n) \/ LookupStep(n) => cache' = cache
      BY DEF StartFails, OpenWatch, CloseWatch, LookupStep, Default, Seek, Visit, nodeVars
    <3>2. ~ Stop(n)
      BY <1>1 DEF Stop, TypeOK
    <3> QED
      BY <1>3, <1>4, <1>5, <2>1, <2>3, <3>1, <3>2 DEF NodeStep
  <2> QED
    BY <2>2, <2>3
<1>7. CASE UNCHANGED <<nodeVars, lookupVars>>
  BY <1>3, <1>7 DEF nodeVars
<1> QED
  BY <1>1, <1>6, <1>7, QuietSteps, StepWrites

\* No running node goes back to an older version of a policy.
THEOREM CachesOnlyAdvance == Spec => CacheNeverRegresses
<1>1. ASSUME IInv, [Next]_vars
      PROVE  [\A n \in Nodes, i \in Ids :
                 phase'[n] # "down" /\ cache'[n][i] # Absent =>
                     cache'[n][i].revision >= cache[n][i].revision]_vars
  BY <1>1, StepNeverRegresses
<1> QED
  BY <1>1, Invariance, PTL DEF Spec, CacheNeverRegresses

-----------------------------------------------------------------------------
(* The nodes implement PolicyFollower.                                      *)

\* The mapped state of PolicyFollower.
mode == [n \in Nodes |->
            IF phase[n] = "down" THEN "down"
            ELSE IF phase[n] = "static" THEN "without"
            ELSE IF gap[n] THEN "lost" ELSE "following"]
followed == [n \in Nodes |->
                IF phase[n] \in {"down", "static"} \/ gap[n] THEN 0 ELSE synced[n]]

\* PolicyFollower reads a history as the store does.
LEMMA SameReading ==
    /\ Follower!Nothing = Nothing
    /\ Follower!Writes = Writes
    /\ \A h, v : Follower!Written(h, v) = Written(h, v)
    /\ \A h, v : Follower!Contents(h, v) = Contents(h, v)
<1>1. Follower!Nothing = Nothing /\ Follower!Writes = Writes
  BY DEF Follower!Nothing, Nothing, Follower!Absent, Absent, Follower!Writes, Writes
<1>2. \A h, v : Follower!Written(h, v) = Written(h, v)
  BY DEF Follower!Written, Written, Follower!Absent, Absent
<1>3. \A h, i, v : Follower!At(h, i, v) = At(h, i, v)
  BY <1>2 DEF Follower!At, At, Follower!Absent, Absent
<1>4. \A h, v : Follower!Contents(h, v) = Contents(h, v)
  BY <1>3 DEF Follower!Contents, Contents
<1> QED
  BY <1>1, <1>2, <1>4

\* A node's step is one of Follower's when what it shows of that node is.
LEMMA ShownByStep ==
    ASSUME IInv, NEW n \in Nodes, NodeStep(n) \/ LookupStep(n)
    PROVE  /\ Follower!Show(n, mode'[n], followed'[n], cache'[n])
           /\ mode'[n] = mode[n] /\ followed'[n] = followed[n] /\ cache'[n] = cache[n] =>
                 UNCHANGED <<history, mode, followed, cache>>
<1>1. TypeOK
  BY DEF IInv
<1>2. /\ history' = history
      /\ \A m \in Nodes \ {n} : /\ phase'[m] = phase[m] /\ cache'[m] = cache[m]
                                /\ synced'[m] = synced[m] /\ gap'[m] = gap[m]
  BY <1>1, OthersKeep
<1>3. \A m \in Nodes \ {n} : mode'[m] = mode[m] /\ followed'[m] = followed[m]
  BY <1>2 DEF mode, followed
<1>4. mode' = [mode EXCEPT ![n] = mode'[n]] /\ followed' = [followed EXCEPT ![n] = followed'[n]]
  BY <1>3 DEF mode, followed
<1>5. cache' = [cache EXCEPT ![n] = cache'[n]]
  <2>1. cache \in [Nodes -> [Ids -> Policy]] /\ cache' \in [Nodes -> [Ids -> Policy]]
    <3>1. [Next]_vars
      BY DEF Next, NodeStep, LookupStep
    <3> QED
      BY <1>1, <3>1, StepKeepsTypes DEF TypeOK
  <2> QED
    BY <1>2, <2>1
<1>6. mode'[n] = mode[n] /\ followed'[n] = followed[n] /\ cache'[n] = cache[n] =>
         UNCHANGED <<history, mode, followed, cache>>
  <2> SUFFICES ASSUME mode'[n] = mode[n], followed'[n] = followed[n], cache'[n] = cache[n]
               PROVE  UNCHANGED <<history, mode, followed, cache>>
    OBVIOUS
  <2>1. mode' = mode
    <3>1. \A m \in Nodes : mode'[m] = mode[m]
      BY <1>3
    <3> QED
      BY <3>1 DEF mode
  <2>2. followed' = followed
    <3>1. \A m \in Nodes : followed'[m] = followed[m]
      BY <1>3
    <3> QED
      BY <3>1 DEF followed
  <2>3. cache' = cache
    BY <1>1, <1>5 DEF TypeOK
  <2> QED
    BY <1>2, <2>1, <2>2, <2>3
<1> QED
  BY <1>2, <1>4, <1>5, <1>6 DEF Follower!Show, mode, followed

\* A node's own steps: load, advance, lose a change, drift, stop, or none of them.
LEMMA NodeStepFollows ==
    ASSUME IInv, NEW n \in Nodes, NodeStep(n)
    PROVE  \/ Follower!Load(n) \/ Follower!Advance(n) \/ Follower!Lose(n)
           \/ Follower!Drift(n) \/ Follower!Stop(n)
           \/ UNCHANGED <<history, mode, followed, cache>>
<1>1. TypeOK /\ PhaseFits /\ CacheFits /\ Revision \in Nat
  BY StoredType DEF IInv
<1>2. /\ Follower!Show(n, mode'[n], followed'[n], cache'[n])
      /\ mode'[n] = mode[n] /\ followed'[n] = followed[n] /\ cache'[n] = cache[n] =>
            UNCHANGED <<history, mode, followed, cache>>
  BY ShownByStep
<1>3. /\ mode[n] = IF phase[n] = "down" THEN "down"
                   ELSE IF phase[n] = "static" THEN "without"
                   ELSE IF gap[n] THEN "lost" ELSE "following"
      /\ followed[n] = IF phase[n] \in {"down", "static"} \/ gap[n] THEN 0 ELSE synced[n]
      /\ mode'[n] = IF phase'[n] = "down" THEN "down"
                    ELSE IF phase'[n] = "static" THEN "without"
                    ELSE IF gap'[n] THEN "lost" ELSE "following"
      /\ followed'[n] = IF phase'[n] \in {"down", "static"} \/ gap'[n] THEN 0 ELSE synced'[n]
  BY DEF mode, followed
<1>4. CASE Start(n)
  <2>1. /\ mode[n] = "down" /\ mode'[n] = "following" /\ followed'[n] = Revision
        /\ cache'[n] = Contents(history, Revision)
    BY <1>1, <1>3, <1>4 DEF Start, PhaseFits, TypeOK, Stored
  <2> QED
    BY <1>2, <2>1, SameReading DEF Follower!Load, Follower!Show, Revision, mode
<1>5. CASE StartFails(n)
  <2>1. /\ mode[n] = "down" /\ mode'[n] = "without" /\ followed'[n] = 0
        /\ cache'[n] = Nothing
    BY <1>1, <1>3, <1>5 DEF StartFails, PhaseFits, TypeOK
  <2> QED
    BY <1>2, <2>1, SameReading DEF Follower!Load, Follower!Show, mode
<1>6. CASE OpenWatch(n)
  <2> DEFINE lost == gap[n] \/ synced[n] < Revision
  <2>1. /\ phase[n] \in {"loaded", "closed"} /\ phase'[n] = "watching"
        /\ synced'[n] = synced[n] /\ cache'[n] = cache[n] /\ gap'[n] = lost
    BY <1>1, <1>6 DEF OpenWatch, TypeOK
  <2>2. CASE gap[n]
    <3>1. gap'[n]
      BY <2>1, <2>2, Zenon
    <3> QED
      BY <1>2, <1>3, <2>1, <2>2, <3>1
  <2>3. CASE ~gap[n] /\ synced[n] < Revision
    <3>1. gap'[n]
      BY <2>1, <2>3, Zenon
    <3>2. /\ mode[n] = "following" /\ followed[n] = synced[n]
          /\ mode'[n] = "lost" /\ followed'[n] = 0
      BY <1>3, <2>1, <2>3, <3>1
    <3> QED
      BY <1>2, <2>1, <2>3, <3>2 DEF Follower!Lose, Follower!Show, Revision, mode, followed
  <2>4. CASE ~gap[n] /\ ~ synced[n] < Revision
    <3>1. ~gap'[n]
      BY <2>1, <2>4, Zenon
    <3> QED
      BY <1>2, <1>3, <2>1, <2>4, <3>1
  <2> QED
    BY <2>2, <2>3, <2>4
<1>7. CASE CloseWatch(n)
  BY <1>1, <1>2, <1>3, <1>7 DEF CloseWatch, TypeOK
<1>8. CASE Deliver(n)
  <2> DEFINE v == position[n] + 1
             j == history[v].id
  <2>1. phase[n] = "watching" /\ phase'[n] = phase[n] /\ gap'[n] = gap[n]
    BY <1>8 DEF Deliver
  <2>2. CASE ~gap[n]
    <3>1. synced[n] < Revision /\ synced'[n] = synced[n] + 1
          /\ cache'[n] = Contents(history, synced[n] + 1)
      <4>1. synced[n] \in Nat
        BY <1>1 DEF TypeOK
      <4> QED
        BY <1>1, <1>8, <2>2, <4>1, DeliverAdvances
    <3>2. /\ mode[n] = "following" /\ followed[n] = synced[n]
          /\ mode'[n] = "following" /\ followed'[n] = synced[n] + 1
      BY <1>3, <2>1, <2>2, <3>1
    <3> QED
      BY <1>2, <3>1, <3>2, SameReading DEF Follower!Advance, Follower!Show, Revision, mode, followed
  <2>3. CASE gap[n]
    <3>1. v \in 1..Len(history) /\ history[v].id \in Ids
      BY <1>1, <1>8, AppliedType DEF Deliver, TypeOK, Revision
    <3>2. v > cache[n][j].revision
      <4>1. cache[n][j].revision \in Nat /\ cache[n][j].revision <= position[n]
            /\ position[n] \in Nat
        BY <1>1, <2>1, <3>1, PolicyFields DEF CacheFits, TypeOK
      <4> QED
        BY <4>1
    <3>3. cache'[n] = [cache[n] EXCEPT ![j] = Written(history, v)]
      BY <1>1, <1>8 DEF Deliver, Applied, TypeOK
    <3>4. /\ mode[n] = "lost" /\ mode'[n] = "lost" /\ followed'[n] = 0
      BY <1>3, <2>1, <2>3
    <3> QED
      BY <1>2, <3>1, <3>2, <3>3, <3>4, SameReading DEF Follower!Drift, Follower!Show, mode
  <2> QED
    BY <2>2, <2>3
<1>9. CASE Stop(n)
  <2>1. /\ mode[n] # "down" /\ mode'[n] = "down" /\ followed'[n] = 0
        /\ cache'[n] = Nothing
    BY <1>1, <1>3, <1>9 DEF Stop, TypeOK
  <2> QED
    BY <1>2, <2>1, SameReading DEF Follower!Stop, Follower!Show, mode
<1> QED
  BY <1>4, <1>5, <1>6, <1>7, <1>8, <1>9 DEF NodeStep

\* Loads, watches, gaps and restarts amount to what PolicyFollower promises,
\* and lookups change nothing of it.
THEOREM ImplementsFollower == Spec => FollowsStore
<1>1. Init => Follower!Init
  BY SameReading DEF Init, Follower!Init
<1>2. ASSUME IInv, [Next]_vars
      PROVE  [Follower!Next]_<<history, mode, followed, cache>>
  <2>1. TypeOK
    BY <1>2 DEF IInv
  <2>2. CASE history' # history
    <3>1. PICK e \in Writes : history' = Append(history, e)
      BY <1>2, <2>1, <2>2, StepWrites
    <3>2. UNCHANGED <<phase, gap, synced, cache>>
      BY <1>2, <2>1, <2>2, StepWrites DEF nodeVars
    <3>3. UNCHANGED <<mode, followed, cache>>
      BY <3>2 DEF mode, followed
    <3>4. Len(history') = Len(history) + 1 /\ history'[Len(history')] = e
      BY <2>1, <3>1 DEF TypeOK
    <3> QED
      BY <3>1, <3>3, <3>4, SameReading DEF Follower!Next, Follower!Write, mode, followed
  <2>3. ASSUME NEW n \in Nodes, NodeStep(n)
        PROVE  Follower!Next \/ UNCHANGED <<history, mode, followed, cache>>
    BY <1>2, <2>3, NodeStepFollows DEF Follower!Next
  <2>4. CASE history' = history /\
             \/ UNCHANGED <<nodeVars, lookupVars>>
             \/ \E n \in Nodes : LookupStep(n)
    BY <2>4 DEF LookupStep, Default, Seek, Visit, nodeVars, mode, followed
  <2> QED
    BY <1>2, <2>1, <2>2, <2>3, <2>4, QuietSteps
<1> QED
  BY <1>1, <1>2, Invariance, PTL DEF Spec, FollowsStore, Follower!Spec, Follower!vars,
                                     mode, followed

-----------------------------------------------------------------------------
(* How far overlapping scalers raise a limit.                               *)

\* Induction over a set of numbers: the least number outside it has no place.
LEMMA Inductive ==
    ASSUME NEW S, 0 \in S, \A n \in Nat : n \in S => n + 1 \in S
    PROVE  Nat \subseteq S
<1> DEFINE outside == Nat \ S
<1> SUFFICES ASSUME outside # {} PROVE FALSE
  OBVIOUS
<1>1. PICK least \in outside : \A n \in outside : <<n, least>> \notin OpToRel(<, Nat)
  BY WFMin, NatLessThanWellFounded, Zenon
<1>2. \A n \in outside : ~ n < least
  BY <1>1, Zenon DEF OpToRel
<1>3. least \in Nat /\ least # 0 /\ least - 1 \in Nat /\ least - 1 < least
  OBVIOUS
<1>4. least - 1 \in S
  BY <1>2, <1>3
<1> QED
  BY <1>3, <1>4

\* f[i] is the factor, i times, for every i up to n.
Multiplies(n, f) == f[0] = 1 /\ \A i \in 1..n : f[i] = Factor * f[i - 1]

LEMMA GrowthExists ==
    ASSUME NEW n \in Nat
    PROVE  \E f \in [0..n -> Nat \ {0}] : Multiplies(n, f)
<1> DEFINE S == {m \in Nat : \E f \in [0..m -> Nat \ {0}] : Multiplies(m, f)}
<1>1. 0 \in S
  <2> DEFINE f == [i \in 0..0 |-> 1]
  <2>1. f \in [0..0 -> Nat \ {0}] /\ f[0] = 1 /\ \A i \in 1..0 : f[i] = Factor * f[i - 1]
    OBVIOUS
  <2> QED
    BY <2>1 DEF Multiplies
<1>2. ASSUME NEW m \in Nat, m \in S
      PROVE  m + 1 \in S
  <2>1. PICK f \in [0..m -> Nat \ {0}] : Multiplies(m, f)
    BY <1>2
  <2> DEFINE g == [i \in 0..(m + 1) |-> IF i = m + 1 THEN Factor * f[m] ELSE f[i]]
  <2>2. Factor * f[m] \in Nat \ {0}
    <3>1. \A x, y \in Nat : x > 1 /\ y # 0 => x * y \in Nat \ {0}
      OBVIOUS
    <3> QED
      BY <3>1, FactorType
  <2>3. g \in [0..(m + 1) -> Nat \ {0}]
    BY <2>2
  <2>4. ASSUME NEW i \in 1..(m + 1) PROVE g[i] = Factor * g[i - 1]
    <3>1. i - 1 \in 0..(m + 1) /\ i - 1 # m + 1 /\ i \in 0..(m + 1)
      OBVIOUS
    <3>2. g[i - 1] = f[i - 1]
      BY <3>1
    <3>3. CASE i = m + 1
      BY <3>1, <3>2, <3>3
    <3>4. CASE i # m + 1
      <4>1. i \in 1..m /\ g[i] = f[i]
        BY <3>1, <3>4
      <4> HIDE DEF g
      <4> QED
        BY <2>1, <3>2, <4>1 DEF Multiplies
    <3> QED
      BY <3>3, <3>4
  <2>5. g[0] = 1
    BY <2>1 DEF Multiplies
  <2>6. Multiplies(m + 1, g)
    BY <2>4, <2>5 DEF Multiplies
  <2> QED
    BY <2>3, <2>6
<1> HIDE DEF S
<1>3. n \in S
  BY <1>1, <1>2, Inductive
<1> QED
  BY <1>3 DEF S

\* Growth(n) is where such a function ends; and there is one value for it.
LEMMA GrowthIs ==
    ASSUME NEW n \in Nat
    PROVE  \E f \in [0..n -> Nat \ {0}] : Multiplies(n, f) /\ Growth(n) = f[n]
<1> DEFINE Loop(f) == f = [i \in 0..n |-> IF i = 0 THEN 1 ELSE Factor * f[i - 1]]
           growth == CHOOSE f : Loop(f)
<1>1. Growth(n) = growth[n]
  BY DEF Growth
<1>2. PICK f \in [0..n -> Nat \ {0}] : Multiplies(n, f)
  BY GrowthExists
<1>3. Loop(f)
  BY <1>2 DEF Multiplies
<1>4. Loop(growth)
  BY <1>3
<1> HIDE DEF growth
<1>5. growth[0] = 1 /\ \A i \in 1..n : growth[i] = Factor * growth[i - 1]
  <2> HIDE DEF Loop
  <2>1. ASSUME NEW F, Loop(F) PROVE F[0] = 1 /\ \A i \in 1..n : F[i] = Factor * F[i - 1]
    BY <2>1 DEF Loop
  <2> QED
    BY <1>4, <2>1
<1> DEFINE E == {m \in Nat : m <= n => growth[m] = f[m]}
<1>6. 0 \in E
  BY <1>2, <1>5 DEF Multiplies
<1>7. ASSUME NEW m \in Nat, m \in E
      PROVE  m + 1 \in E
  <2> SUFFICES ASSUME m + 1 <= n PROVE growth[m + 1] = f[m + 1]
    OBVIOUS
  <2>1. m + 1 \in 1..n /\ (m + 1) - 1 = m /\ m <= n
    OBVIOUS
  <2>2. growth[m] = f[m]
    BY <1>7, <2>1
  <2>3. growth[m + 1] = Factor * growth[m] /\ f[m + 1] = Factor * f[m]
    BY <1>2, <1>5, <2>1 DEF Multiplies
  <2> QED
    BY <2>2, <2>3
<1>8. growth[n] = f[n]
  <2>1. n \in E
    <3> HIDE DEF E
    <3> QED
      BY <1>6, <1>7, Inductive
  <2> QED
    BY <2>1
<1> QED
  BY <1>1, <1>2, <1>8

\* One scaling more multiplies by the factor once more.
LEMMA GrowthLaw ==
    ASSUME NEW n \in Nat
    PROVE  /\ Growth(0) = 1
           /\ Growth(n) \in Nat \ {0}
           /\ Growth(n + 1) = Factor * Growth(n)
<1>1. PICK f \in [0..n -> Nat \ {0}] : Multiplies(n, f) /\ Growth(n) = f[n]
  BY GrowthIs
<1>2. PICK g \in [0..(n + 1) -> Nat \ {0}] : Multiplies(n + 1, g) /\ Growth(n + 1) = g[n + 1]
  <2>1. \A k \in Nat : \E g \in [0..k -> Nat \ {0}] : Multiplies(k, g) /\ Growth(k) = g[k]
    BY GrowthIs
  <2>2. n + 1 \in Nat
    OBVIOUS
  <2> QED
    BY <2>1, <2>2, Zenon
<1>3. Growth(0) = 1
  <2>1. PICK h \in [0..0 -> Nat \ {0}] : Multiplies(0, h) /\ Growth(0) = h[0]
    BY GrowthIs
  <2> QED
    BY <2>1 DEF Multiplies
<1> DEFINE E == {m \in Nat : m <= n => g[m] = f[m]}
<1>4. 0 \in E
  BY <1>1, <1>2 DEF Multiplies
<1>5. ASSUME NEW m \in Nat, m \in E
      PROVE  m + 1 \in E
  <2> SUFFICES ASSUME m + 1 <= n PROVE g[m + 1] = f[m + 1]
    OBVIOUS
  <2>1. m + 1 \in 1..n /\ m + 1 \in 1..(n + 1) /\ (m + 1) - 1 = m /\ m <= n
    OBVIOUS
  <2>2. g[m] = f[m]
    BY <1>5, <2>1
  <2>3. f[m + 1] = Factor * f[m] /\ g[m + 1] = Factor * g[m]
    BY <1>1, <1>2, <2>1 DEF Multiplies
  <2> QED
    BY <2>2, <2>3
<1>6. g[n] = f[n]
  <2>1. n \in E
    <3> HIDE DEF E
    <3> QED
      BY <1>4, <1>5, Inductive
  <2> QED
    BY <2>1
<1>7. g[n + 1] = Factor * g[n]
  <2>1. n + 1 \in 1..(n + 1) /\ (n + 1) - 1 = n
    OBVIOUS
  <2> QED
    BY <1>2, <2>1 DEF Multiplies
<1> QED
  BY <1>1, <1>2, <1>3, <1>6, <1>7

\* What the scalings that have begun amount to, one after the other.
Compound == Growth(Cardinality(runs))

Within(limit, factor) == \E asked \in Limits : limit <= asked * factor

\* A scaler holds limits that were stored when it read them, before it counted as
\* one more scaling: they are within bounds once it has scaled them, whatever
\* the others have put back since.
GrowthFits ==
    /\ \A v \in 1..Revision : Within(history[v].limit, Compound)
    /\ \A s \in Scalers, i \in Ids : scaling[s][i] > 0 => Within(scaling[s][i] * Factor, Compound)

LEMMA CompoundType ==
    ASSUME runs \subseteq Scalers
    PROVE  /\ IsFiniteSet(runs) /\ Cardinality(runs) \in 0..Cardinality(Scalers)
           /\ Cardinality(runs) \in Nat /\ Compound \in Nat
<1>1. IsFiniteSet(runs) /\ Cardinality(runs) <= Cardinality(Scalers)
  BY ScalerBound, FS_Subset
<1>2. Cardinality(runs) \in Nat /\ Cardinality(Scalers) \in Nat
  BY <1>1, ScalerBound, FS_CardinalityType
<1> QED
  BY <1>1, <1>2, GrowthLaw DEF Compound

LEMMA CompoundPositive ==
    ASSUME runs \subseteq Scalers
    PROVE  Compound \in Nat /\ Compound > 0
<1> DEFINE n == Cardinality(Scalers)
<1>1. n \in Nat /\ Cardinality(runs) \in 0..n
  BY CompoundType, ScalerBound, FS_CardinalityType
<1> QED
  BY <1>1, CompoundType, GrowthLaw, FactorType DEF Compound

\* One more scaling allows for a limit within bounds, scaled, and for all that was
\* within bounds before.
LEMMA OneMoreScaling ==
    ASSUME NEW a \in Nat, NEW asked \in Nat, NEW p \in Nat, NEW f \in Nat, f > 1,
           a <= asked * p
    PROVE  a * f <= asked * (f * p) /\ a <= asked * (f * p)
<1> DEFINE b == asked * p
<1>1. b \in Nat /\ a <= b /\ asked * (f * p) = b * f
  OBVIOUS
<1> HIDE DEF b
<1>2. \A x, y, z \in Nat : x <= y => x * z <= y * z
  OBVIOUS
<1>3. \A x, z \in Nat : z > 1 => x <= x * z
  OBVIOUS
<1>4. a * f <= b * f /\ a <= a * f /\ a * f \in Nat /\ b * f \in Nat
  BY <1>1, <1>2, <1>3
<1> QED
  BY <1>1, <1>4

\* A stored limit was written.
LEMMA StoredWithin ==
    ASSUME TypeOK, GrowthFits, NEW i \in Ids, Stored[i] # Absent
    PROVE  Within(Stored[i].limit, Compound)
<1>1. history \in Seq(Writes) /\ Revision \in 0..Len(history) /\ Revision = Len(history)
  BY DEF TypeOK, Revision
<1>2. Stored[i] = At(history, i, Revision)
  BY DEF Stored, Contents
<1>3. PICK u \in 1..Revision : Stored[i] = Written(history, u)
  BY <1>1, <1>2, AtIsWritten
<1>4. Stored[i].limit = history[u].limit
  BY <1>3 DEF Written, Absent
<1> QED
  BY <1>3, <1>4 DEF GrowthFits

\* Growing the history by a write within bounds, with no more scalings.
LEMMA WriteGrows ==
    ASSUME TypeOK, GrowthFits, NEW i, NEW limit, Write(i, limit), Within(limit, Compound), runs' = runs
    PROVE  \A v \in 1..Revision' : Within(history'[v].limit, Compound')
<1>1. history \in Seq(Writes) /\ history' = Append(history, [id |-> i, limit |-> limit])
  BY DEF TypeOK, Write
<1>2. Compound' = Compound
  BY DEF Compound
<1>3. /\ Revision \in Nat /\ Revision' = Revision + 1
      /\ \A v \in 1..Revision : history'[v] = history[v]
      /\ history'[Revision + 1].limit = limit
  BY <1>1 DEF Revision
<1>4. ASSUME NEW v \in 1..Revision'
      PROVE  Within(history'[v].limit, Compound')
  <2>1. v \in 1..Revision \/ v = Revision + 1
    BY <1>3
  <2> QED
    BY <1>2, <1>3, <2>1 DEF GrowthFits
<1> QED
  BY <1>4

LEMMA ScaleReadGrows ==
    ASSUME TypeOK, GrowthFits, NEW s \in Scalers, ScaleRead(s), TypeOK'
    PROVE  GrowthFits'
<1> DEFINE p == Compound
<1>1. /\ s \notin runs /\ runs' = runs \cup {s} /\ history' = history
      /\ scaling' = [scaling EXCEPT ![s] = [i \in Ids |-> Stored[i].limit]]
  BY DEF ScaleRead, storeVars
<1>2. p \in Nat /\ Compound' = Factor * p
  <2>1. runs \subseteq Scalers /\ runs' \subseteq Scalers
    BY DEF TypeOK
  <2>2. Cardinality(runs') = Cardinality(runs) + 1
    BY <1>1, <2>1, CompoundType, FS_AddElement
  <2> QED
    BY <2>1, <2>2, CompoundType, GrowthLaw DEF Compound
<1>3. ASSUME NEW a \in Nat, Within(a, p)
      PROVE  Within(a, Compound') /\ Within(a * Factor, Compound')
  <2>1. PICK asked \in Limits : a <= asked * p
    BY <1>3 DEF Within
  <2>2. asked \in Nat /\ Factor \in Nat /\ Factor > 1
    BY LimitTypes, FactorType
  <2> HIDE DEF p
  <2>3. a * Factor <= asked * (Factor * p) /\ a <= asked * (Factor * p)
    BY <1>2, <2>1, <2>2, OneMoreScaling
  <2> QED
    BY <1>2, <2>3 DEF Within
<1>4. \A v \in 1..Revision : Within(history[v].limit, Compound')
  <2>1. \A v \in 1..Revision : history[v].limit \in Nat
    <3>1. \A v \in 1..Revision : history[v] \in Writes
      BY DEF TypeOK, Revision
    <3> QED
      BY <3>1 DEF Writes
  <2>2. \A v \in 1..Revision : Within(history[v].limit, p)
    BY DEF GrowthFits
  <2> HIDE DEF p
  <2> QED
    BY <1>3, <2>1, <2>2
<1>5. ASSUME NEW t \in Scalers, NEW i \in Ids, scaling'[t][i] > 0
      PROVE  Within(scaling'[t][i] * Factor, Compound')
  <2>1. CASE t = s
    <3>1. scaling'[t][i] = Stored[i].limit
      BY <1>1, <2>1 DEF TypeOK
    <3>2. Stored[i] # Absent
      BY <1>5, <3>1 DEF Absent
    <3>3. Stored[i].limit \in Nat
      BY <3>1 DEF TypeOK
    <3> QED
      BY <1>3, <3>1, <3>2, <3>3, StoredWithin
  <2>2. CASE t # s
    <3>1. scaling'[t][i] = scaling[t][i] /\ scaling[t][i] \in Nat
      BY <1>1, <2>2 DEF TypeOK
    <3>2. scaling[t][i] * Factor \in Nat
      BY <3>1, FactorType
    <3>3. Within(scaling[t][i] * Factor, Compound)
      BY <1>5, <3>1 DEF GrowthFits
    <3> QED
      BY <1>3, <3>1, <3>2, <3>3
  <2> QED
    BY <2>1, <2>2
<1> QED
  BY <1>1, <1>4, <1>5 DEF GrowthFits, Revision

LEMMA StepGrows ==
    ASSUME IInv, GrowthFits, [Next]_vars
    PROVE  GrowthFits'
<1>1. TypeOK /\ TypeOK'
  BY StepKeepsTypes DEF IInv
<1>2. runs' = runs => Compound' = Compound
  BY DEF Compound
<1>3. CASE \E i \in Ids, limit \in Limits : SavePolicy(i, limit) \/ Translate(i, limit)
  <2>1. PICK i \in Ids, limit \in Limits :
           Write(i, limit) /\ UNCHANGED <<scaling, runs>>
    BY <1>3 DEF SavePolicy, Translate, scaleVars
  <2>2. Within(limit, Compound)
    <3>1. PICK p \in Nat : p = Compound /\ p > 0
      BY <1>1, CompoundPositive DEF TypeOK
    <3>2. limit \in Nat /\ limit <= limit * p
      <4>1. \A x, y \in Nat : y > 0 => x <= x * y
        OBVIOUS
      <4> QED
        BY <3>1, <4>1, LimitTypes
    <3> QED
      BY <3>1, <3>2 DEF Within
  <2>3. \A v \in 1..Revision' : Within(history'[v].limit, Compound')
    BY <1>1, <2>1, <2>2, WriteGrows
  <2> QED
    BY <1>2, <2>1, <2>3 DEF GrowthFits
<1>4. CASE \E i \in Ids : DeletePolicy(i)
  <2>1. PICK i \in Ids : Stored[i] # Absent /\ Write(i, 0) /\ UNCHANGED <<scaling, runs>>
    BY <1>4 DEF DeletePolicy, scaleVars
  <2>2. Within(0, Compound)
    <3>1. PICK asked \in Limits : TRUE
      BY <1>1, <2>1, StoredWithin DEF Within
    <3>2. PICK p \in Nat : p = Compound
      BY <1>1, CompoundType DEF TypeOK
    <3>3. asked \in Nat
      BY LimitTypes
    <3>4. 0 <= asked * p
      BY <3>2, <3>3
    <3> QED
      BY <3>2, <3>4 DEF Within
  <2>3. \A v \in 1..Revision' : Within(history'[v].limit, Compound')
    BY <1>1, <2>1, <2>2, WriteGrows
  <2> QED
    BY <1>2, <2>1, <2>3 DEF GrowthFits
<1>5. CASE \E s \in Scalers : ScaleRead(s)
  BY <1>1, <1>5, ScaleReadGrows
<1>6. CASE \E s \in Scalers, i \in Ids : ScaleWrite(s, i) \/ ScaleSkip(s, i)
  <2>1. PICK s \in Scalers, i \in Ids :
           /\ scaling[s][i] > 0 /\ scaling' = [scaling EXCEPT ![s][i] = 0] /\ runs' = runs
           /\ Write(i, scaling[s][i] * Factor) \/ history' = history
    BY <1>6 DEF ScaleWrite, ScaleSkip, storeVars
  <2>2. \A v \in 1..Revision' : Within(history'[v].limit, Compound')
    <3>1. Within(scaling[s][i] * Factor, Compound)
      BY <2>1 DEF GrowthFits
    <3>2. CASE Write(i, scaling[s][i] * Factor)
      BY <1>1, <2>1, <3>1, <3>2, WriteGrows
    <3>3. CASE history' = history
      BY <1>2, <2>1, <3>3 DEF GrowthFits, Revision
    <3> QED
      BY <2>1, <3>2, <3>3
  <2>3. ASSUME NEW t \in Scalers, NEW j \in Ids, scaling'[t][j] > 0
        PROVE  scaling'[t][j] = scaling[t][j]
    BY <1>1, <2>1, <2>3 DEF TypeOK
  <2>4. \A t \in Scalers, j \in Ids : scaling'[t][j] > 0 => Within(scaling'[t][j] * Factor, Compound)
    BY <2>3 DEF GrowthFits
  <2> QED
    BY <1>2, <2>1, <2>2, <2>4 DEF GrowthFits
<1>7. CASE UNCHANGED <<history, scaling, runs>>
  BY <1>2, <1>7 DEF GrowthFits, Revision
<1>8. (\E n \in Nodes : NodeStep(n) \/ LookupStep(n)) \/ UNCHANGED vars
         => UNCHANGED <<history, scaling, runs>>
  BY DEF NodeStep, LookupStep, Start, StartFails, OpenWatch, Deliver, CloseWatch, Stop, Default,
         Seek, Visit, storeVars, scaleVars, vars
<1> QED
  BY <1>3, <1>4, <1>5, <1>6, <1>7, <1>8 DEF Next, NodeStep, LookupStep

\* However scalers of any nodes overlap with each other, with saves and with
\* deletes, no limit passes what that many scalings of one that was asked for
\* come to: each has read before it writes, and writes a policy once.
THEOREM GrowthIsBounded == Spec => []GrowthBounded
<1>1. Init => GrowthFits
  BY DEF Init, GrowthFits, Revision
<1>2. IInv /\ GrowthFits /\ [Next]_vars => GrowthFits'
  BY StepGrows
<1>3. GrowthFits => GrowthBounded
  BY DEF GrowthFits, GrowthBounded, Within, Compound
<1> QED
  BY <1>1, <1>2, <1>3, Invariance, PTL DEF Spec
=============================================================================
