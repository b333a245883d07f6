--------------------------- MODULE Metrics_proofs ---------------------------
(***************************************************************************)
(* Theorems about the metrics collector, for any number of requests,       *)
(* readers and keys: its types, that no Add goes to a counter that readers *)
(* will not see, that no reader sees a total go back, that the collector   *)
(* implements MetricCounters, that a line of a scrape means one method,    *)
(* route and status, and what the lock keeps, also after a panic.          *)
(***************************************************************************)
EXTENDS MeteredRequests, FiniteSetTheorems, SequenceTheorems, WellFoundedInduction, TLAPS

-----------------------------------------------------------------------------
(* The inductive invariant.                                                 *)

\* A request that looks for a counter or holds one is at one of the series.
StageFits ==
    \A r \in Requests : pc[r] \in {"lookup", "lock", "locked", "add"} => stage[r] \in Series

\* A mapped counter was allocated for the very series and key it is mapped at.
AddressFits ==
    \A s \in Series, k \in Keys : table[s][k] # None =>
        table[s][k][1] = s /\ Key[s][table[s][k][2]] = k

\* A counter that is not mapped where it belongs counts nothing.
UnmappedIsZero ==
    \A s \in Series, r \in Requests :
        table[s][Key[s][r]] = <<s, r>> \/ value[<<s, r>>] = 0

\* The keys a reader has yet to load have counters.
LeftMapped ==
    \A x \in Readers : rc[x] \in {"snapshot", "totals"} =>
        left[x] \subseteq Present(requestsTotal)

\* What a reader has seen of a key is no more than its counter has now.
SeenBelow ==
    \A x \in Readers, k \in Keys :
        \/ seen[x][k] = 0
        \/ /\ table[requestsTotal][k] # None
           /\ seen[x][k] <= value[table[requestsTotal][k]]

IInv ==
    /\ TypeOK
    /\ StageFits
    /\ HeldIsMapped
    /\ AddressFits
    /\ UnmappedIsZero
    /\ LeftMapped
    /\ SeenBelow

-----------------------------------------------------------------------------
(* What a step may do to the maps and the counters.                         *)

\* A counter that is mapped stays mapped under its key.
TableKept ==
    \A s \in Series, k \in Keys : table[s][k] # None => table'[s][k] = table[s][k]

\* No counter is ever reduced.
ValuesGrow == \A c \in Counters : value'[c] >= value[c]

\* Every request has a label set and an amount in every series.
LEMMA LabelSets ==
    ASSUME NEW s \in Series, NEW r \in Requests
    PROVE  /\ Key[s][r] \in Keys
           /\ Amount[s][r] \in Nat
           /\ <<s, r>> \in Counters
           /\ <<s, r>> # None
  BY KeyType, AmountType, NoneIsNew DEF Counters

\* Only Create changes the maps, and only where there was no counter.
LEMMA StepKeepsTable ==
    ASSUME TypeOK, StageFits, [Next]_vars
    PROVE  TableKept
<1>1. ASSUME NEW r \in Requests, Create(r)
      PROVE  TableKept
  <2>1. stage[r] \in Series
    BY <1>1 DEF Create, StageFits
  <2>2. Key[stage[r]][r] \in Keys
    BY <2>1, LabelSets
  <2> QED
    BY <1>1, <2>1, <2>2 DEF Create, TableKept, TypeOK
<1>2. CASE UNCHANGED table
  BY <1>2 DEF TableKept
<1>3. (\E r \in Requests : Create(r)) \/ UNCHANGED table
  BY DEF Next, RecordRequest, Lookup, Lock, Add, AddRateLimited, BeginRead, ReadOn,
         LoadTotal, EndSnapshot, BeginLatency, LoadLatency, Panic, EndScrape,
         recVars, vars
<1> QED
  BY <1>1, <1>2, <1>3

\* Only Add changes a counter, and it adds a natural number.
LEMMA AddGrowsValues ==
    ASSUME NEW d \in Counters, NEW n \in Nat, value \in [Counters -> Nat],
           value' = [value EXCEPT ![d] = @ + n]
    PROVE  ValuesGrow
  BY DEF ValuesGrow

LEMMA SameValues ==
    ASSUME value \in [Counters -> Nat], value' = value
    PROVE  ValuesGrow
  BY DEF ValuesGrow

LEMMA StepGrowsValues ==
    ASSUME TypeOK, StageFits, HeldIsMapped, [Next]_vars
    PROVE  ValuesGrow
<1>1. ASSUME NEW r \in Requests, Add(r)
      PROVE  ValuesGrow
  <2>1. stage[r] \in Series
    BY <1>1 DEF Add, StageFits
  <2>2. Amount[stage[r]][r] \in Nat
    BY <2>1, LabelSets
  <2>3. held[r] \in Counters
    BY <1>1 DEF Add, HeldIsMapped, TypeOK
  <2>4. value \in [Counters -> Nat] /\ value' = [value EXCEPT ![held[r]] = @ + Amount[stage[r]][r]]
    BY <1>1 DEF Add, TypeOK
  <2> QED
    BY <2>2, <2>3, <2>4, AddGrowsValues
<1>2. CASE value' = value
  BY <1>2, SameValues DEF TypeOK
<1>3. (\E r \in Requests : Add(r)) \/ value' = value
  BY DEF Next, RecordRequest, Lookup, Lock, Create, AddRateLimited, BeginRead, ReadOn,
         LoadTotal, EndSnapshot, BeginLatency, LoadLatency, Panic, EndScrape,
         recVars, vars
<1> QED
  BY <1>1, <1>2, <1>3

-----------------------------------------------------------------------------
(* The invariant is inductive: types.                                       *)

\* Initially nothing is counted, held or read.
LEMMA InitIInv == Init => IInv
  BY NoneIsNew DEF Init, IInv, TypeOK, StageFits, HeldIsMapped, AddressFits,
       UnmappedIsZero, LeftMapped, SeenBelow, Counters, Series

\* Every step keeps the types; Add and LoadTotal need that the counter they
\* reach for exists.
LEMMA StepKeepsTypes ==
    ASSUME TypeOK, StageFits, HeldIsMapped, LeftMapped, [Next]_vars
    PROVE  TypeOK'
<1>1. ASSUME NEW r \in Requests, Lookup(r)
      PROVE  TypeOK'
  <2>1. stage[r] \in Series
    BY <1>1 DEF Lookup, StageFits
  <2>2. Key[stage[r]][r] \in Keys
    BY <2>1, LabelSets
  <2>3. table[stage[r]][Key[stage[r]][r]] \in Counters \cup {None}
    BY <2>1, <2>2 DEF TypeOK
  <2> QED
    BY <1>1, <2>3 DEF Lookup, TypeOK, readVars
<1>2. ASSUME NEW r \in Requests, Lock(r)
      PROVE  TypeOK'
  BY <1>2 DEF Lock, TypeOK, readVars
<1>3. ASSUME NEW r \in Requests, Create(r)
      PROVE  TypeOK'
  <2>1. stage[r] \in Series
    BY <1>3 DEF Create, StageFits
  <2>2. Key[stage[r]][r] \in Keys /\ <<stage[r], r>> \in Counters
    BY <2>1, LabelSets
  <2> DEFINE counter == IF table[stage[r]][Key[stage[r]][r]] = None THEN <<stage[r], r>>
                        ELSE table[stage[r]][Key[stage[r]][r]]
  <2>3. counter \in Counters
    BY <2>1, <2>2 DEF TypeOK
  <2>4. /\ table' = [table EXCEPT ![stage[r]][Key[stage[r]][r]] = counter]
        /\ held' = [held EXCEPT ![r] = counter]
    BY <1>3 DEF Create
  <2> HIDE DEF counter
  <2>5. table' \in [Series -> [Keys -> Counters \cup {None}]]
    BY <2>1, <2>2, <2>3, <2>4 DEF TypeOK
  <2> QED
    BY <1>3, <2>3, <2>4, <2>5 DEF Create, TypeOK, readVars
<1>4. ASSUME NEW r \in Requests, Add(r)
      PROVE  TypeOK'
  <2>1. stage[r] \in Series
    BY <1>4 DEF Add, StageFits
  <2>2. Amount[stage[r]][r] \in Nat
    BY <2>1, LabelSets
  <2>3. held[r] \in Counters
    BY <1>4 DEF Add, HeldIsMapped, TypeOK
  <2>4. value' \in [Counters -> Nat]
    BY <1>4, <2>2, <2>3 DEF Add, TypeOK
  <2>5. stage' \in [Requests -> 1..4]
    BY <1>4, <2>1 DEF Add, TypeOK, Series
  <2>6. pc' \in [Requests -> {"lookup", "lock", "locked", "add", "limited", "done"}]
    BY <1>4 DEF Add, AfterAdd, TypeOK
  <2> QED
    BY <1>4, <2>4, <2>5, <2>6 DEF Add, TypeOK, readVars
<1>5. ASSUME NEW r \in Requests, AddRateLimited(r)
      PROVE  TypeOK'
  BY <1>5 DEF AddRateLimited, TypeOK, readVars
<1>6. ASSUME NEW x \in Readers, BeginRead(x)
      PROVE  TypeOK'
  BY <1>6 DEF BeginRead, TypeOK, recVars, Present
<1>7. ASSUME NEW x \in Readers, NEW k \in Keys, LoadTotal(x, k)
      PROVE  TypeOK'
  <2>1. table[requestsTotal][k] \in Counters
    BY <1>7 DEF LoadTotal, LeftMapped, Present, TypeOK, Series, requestsTotal
  <2>2. value[table[requestsTotal][k]] \in Nat
    BY <2>1 DEF TypeOK
  <2> QED
    BY <1>7, <2>2 DEF LoadTotal, TypeOK, recVars
<1>8. ASSUME NEW x \in Readers, EndSnapshot(x) \/ BeginLatency(x) \/ EndScrape(x)
      PROVE  TypeOK'
  BY <1>8 DEF EndSnapshot, BeginLatency, EndScrape, TypeOK, recVars, Present
<1>9. ASSUME NEW x \in Readers, NEW k \in Keys, LoadLatency(x, k) \/ Panic(x, k)
      PROVE  TypeOK'
  BY <1>9 DEF LoadLatency, Panic, TypeOK, recVars
<1>10. CASE UNCHANGED vars
  BY <1>10 DEF TypeOK, vars
<1> QED
  BY <1>1, <1>2, <1>3, <1>4, <1>5, <1>6, <1>7, <1>8, <1>9, <1>10
     DEF Next, RecordRequest, ReadOn

-----------------------------------------------------------------------------
(* The invariant is inductive: the requests.                                *)

\* A request leaves the series only when it is past them all.
LEMMA StepKeepsStageFits ==
    ASSUME TypeOK, StageFits, [Next]_vars
    PROVE  StageFits'
<1>1. ASSUME NEW r \in Requests, Add(r)
      PROVE  StageFits'
  <2>1. stage[r] \in 1..3
    BY <1>1 DEF Add, StageFits, Series
  <2> QED
    BY <1>1, <2>1 DEF Add, AfterAdd, StageFits, TypeOK, Series, latencyCount
<1>2. ASSUME NEW r \in Requests, Lookup(r) \/ Lock(r) \/ Create(r) \/ AddRateLimited(r)
      PROVE  StageFits'
  BY <1>2 DEF Lookup, Lock, Create, AddRateLimited, StageFits, TypeOK
<1>3. CASE UNCHANGED <<pc, stage>>
  BY <1>3 DEF StageFits
<1> QED
  BY <1>1, <1>2, <1>3
     DEF Next, RecordRequest, BeginRead, ReadOn, LoadTotal, EndSnapshot, BeginLatency,
         LoadLatency, Panic, EndScrape, recVars, vars

\* A request that holds a counter holds the mapped one: it has just looked it
\* up or created it, and another request's Create replaces nothing.
LEMMA StepKeepsHeld ==
    ASSUME TypeOK, StageFits, HeldIsMapped, [Next]_vars
    PROVE  HeldIsMapped'
<1>1. TableKept
  BY StepKeepsTable
<1>2. ASSUME NEW r \in Requests, NEW q \in Requests, pc'[q] = "add",
             Lookup(r) \/ Lock(r) \/ Add(r) \/ AddRateLimited(r)
      PROVE  held'[q] # None /\ held'[q] = table'[stage'[q]][Key[stage'[q]][q]]
  BY <1>2 DEF Lookup, Lock, Add, AfterAdd, AddRateLimited, HeldIsMapped, TypeOK
<1>3. ASSUME NEW r \in Requests, NEW q \in Requests, pc'[q] = "add", Create(r)
      PROVE  held'[q] # None /\ held'[q] = table'[stage'[q]][Key[stage'[q]][q]]
  <2>1. stage[r] \in Series
    BY <1>3 DEF Create, StageFits
  <2>2. Key[stage[r]][r] \in Keys /\ <<stage[r], r>> # None
    BY <2>1, LabelSets
  <2>3. stage' = stage
    BY <1>3 DEF Create
  <2>4. CASE q = r
    BY <1>3, <2>1, <2>2, <2>3, <2>4 DEF Create, TypeOK
  <2>5. CASE q # r
    <3>1. pc[q] = "add" /\ held'[q] = held[q]
      BY <1>3, <2>5 DEF Create, TypeOK
    <3>2. stage[q] \in Series
      BY <3>1 DEF StageFits
    <3>3. Key[stage[q]][q] \in Keys
      BY <3>2, LabelSets
    <3> QED
      BY <1>1, <2>3, <3>1, <3>2, <3>3 DEF TableKept, HeldIsMapped
  <2> QED
    BY <2>4, <2>5
<1>4. CASE UNCHANGED <<pc, held, table, stage>>
  BY <1>4 DEF HeldIsMapped
<1>5. \/ \E r \in Requests : Lookup(r) \/ Lock(r) \/ Add(r) \/ AddRateLimited(r)
      \/ \E r \in Requests : Create(r)
      \/ UNCHANGED <<pc, held, table, stage>>
  BY DEF Next, RecordRequest, BeginRead, ReadOn, LoadTotal, EndSnapshot, BeginLatency,
         LoadLatency, Panic, EndScrape, recVars, vars
<1> QED
  BY <1>2, <1>3, <1>4, <1>5 DEF HeldIsMapped

\* Create maps a new counter at the series and under the key it is for.
LEMMA StepKeepsAddress ==
    ASSUME TypeOK, StageFits, AddressFits, [Next]_vars
    PROVE  AddressFits'
<1>1. ASSUME NEW r \in Requests, Create(r), NEW s \in Series, NEW k \in Keys,
             table'[s][k] # None
      PROVE  table'[s][k][1] = s /\ Key[s][table'[s][k][2]] = k
  <2>1. stage[r] \in Series
    BY <1>1 DEF Create, StageFits
  <2>2. Key[stage[r]][r] \in Keys
    BY <2>1, LabelSets
  <2>3. \/ table'[s][k] = table[s][k]
        \/ s = stage[r] /\ k = Key[stage[r]][r] /\ table'[s][k] = <<stage[r], r>>
    BY <1>1, <2>1, <2>2 DEF Create, TypeOK
  <2> QED
    BY <1>1, <2>3 DEF AddressFits
<1>2. CASE UNCHANGED table
  BY <1>2 DEF AddressFits
<1>3. (\E r \in Requests : Create(r)) \/ UNCHANGED table
  BY DEF Next, RecordRequest, Lookup, Lock, Add, AddRateLimited, BeginRead, ReadOn,
         LoadTotal, EndSnapshot, BeginLatency, LoadLatency, Panic, EndScrape,
         recVars, vars
<1> QED
  BY <1>1, <1>2, <1>3 DEF AddressFits

\* An Add goes to a mapped counter; a counter once mapped is mapped for good.
LEMMA StepKeepsZero ==
    ASSUME TypeOK, StageFits, HeldIsMapped, AddressFits, UnmappedIsZero, [Next]_vars
    PROVE  UnmappedIsZero'
<1>1. TableKept
  BY StepKeepsTable
<1> SUFFICES ASSUME NEW s \in Series, NEW q \in Requests
             PROVE  table'[s][Key[s][q]] = <<s, q>> \/ value'[<<s, q>>] = 0
  BY DEF UnmappedIsZero
<1>2. Key[s][q] \in Keys /\ <<s, q>> \in Counters /\ <<s, q>> # None
  BY LabelSets
<1>3. CASE table[s][Key[s][q]] = <<s, q>>
  BY <1>1, <1>2, <1>3 DEF TableKept
<1>4. CASE table[s][Key[s][q]] # <<s, q>>
  <2>1. value[<<s, q>>] = 0
    BY <1>4 DEF UnmappedIsZero
  <2>2. ASSUME NEW r \in Requests, Add(r)
        PROVE  value'[<<s, q>>] = 0
    <3>1. stage[r] \in Series
      BY <2>2 DEF Add, StageFits
    <3>2. Key[stage[r]][r] \in Keys
      BY <3>1, LabelSets
    <3>3. held[r] # None /\ held[r] = table[stage[r]][Key[stage[r]][r]]
      BY <2>2 DEF Add, HeldIsMapped
    <3>4. held[r][1] = stage[r] /\ Key[stage[r]][held[r][2]] = Key[stage[r]][r]
      BY <3>1, <3>2, <3>3 DEF AddressFits
    <3>5. held[r] # <<s, q>>
      BY <1>4, <3>3, <3>4
    <3> QED
      BY <1>2, <2>1, <2>2, <3>5 DEF Add, TypeOK
  <2>3. (\E r \in Requests : Add(r)) \/ UNCHANGED value
    BY DEF Next, RecordRequest, Lookup, Lock, Create, AddRateLimited, BeginRead, ReadOn,
           LoadTotal, EndSnapshot, BeginLatency, LoadLatency, Panic, EndScrape,
           recVars, vars
  <2> QED
    BY <2>1, <2>2, <2>3
<1> QED
  BY <1>3, <1>4

-----------------------------------------------------------------------------
(* The invariant is inductive: the readers.                                 *)

\* A key that a reader took down has its counter for the rest of the pass.
LEMMA StepKeepsLeft ==
    ASSUME TypeOK, StageFits, LeftMapped, [Next]_vars
    PROVE  LeftMapped'
<1>1. TableKept
  BY StepKeepsTable
<1>2. Present(requestsTotal) \subseteq Present(requestsTotal)'
  BY <1>1 DEF TableKept, Present, Series, requestsTotal
<1>3. ASSUME NEW x \in Readers, BeginRead(x)
      PROVE  LeftMapped'
  <2>1. Present(requestsTotal)' = Present(requestsTotal)
    BY <1>3 DEF BeginRead, recVars, Present
  <2> QED
    BY <1>3, <2>1 DEF BeginRead, LeftMapped, TypeOK
<1>4. ASSUME NEW x \in Readers, NEW k \in Keys,
             LoadTotal(x, k) \/ LoadLatency(x, k) \/ Panic(x, k)
      PROVE  LeftMapped'
  <2>1. \A y \in Readers : rc'[y] \in {"snapshot", "totals"} =>
           rc[y] = rc'[y] /\ left'[y] \subseteq left[y]
    BY <1>4 DEF LoadTotal, LoadLatency, Panic, TypeOK
  <2> QED
    BY <1>2, <2>1 DEF LeftMapped
<1>5. ASSUME NEW x \in Readers, EndSnapshot(x) \/ BeginLatency(x) \/ EndScrape(x)
      PROVE  LeftMapped'
  <2>1. \A y \in Readers : rc'[y] \in {"snapshot", "totals"} =>
           rc[y] = rc'[y] /\ left'[y] \subseteq left[y]
    BY <1>5 DEF EndSnapshot, BeginLatency, EndScrape, TypeOK
  <2> QED
    BY <1>2, <2>1 DEF LeftMapped
<1>6. CASE UNCHANGED <<rc, left>>
  BY <1>2, <1>6 DEF LeftMapped
<1> QED
  BY <1>3, <1>4, <1>5, <1>6
     DEF Next, RecordRequest, Lookup, Lock, Create, Add, AddRateLimited, ReadOn, readVars, vars

\* What a step lets a reader see: a counter as it is now, or what it saw before.
LEMMA StepSees ==
    ASSUME TypeOK, LeftMapped, [Next]_vars, NEW x \in Readers, NEW k \in Keys
    PROVE  \/ seen'[x][k] = seen[x][k]
           \/ /\ table[requestsTotal][k] # None
              /\ seen'[x][k] = value[table[requestsTotal][k]]
<1>1. ASSUME NEW y \in Readers, NEW j \in Keys, LoadTotal(y, j)
      PROVE  \/ seen'[x][k] = seen[x][k]
             \/ /\ table[requestsTotal][k] # None
                /\ seen'[x][k] = value[table[requestsTotal][k]]
  <2>1. table[requestsTotal][j] # None
    BY <1>1 DEF LoadTotal, LeftMapped, Present
  <2> QED
    BY <1>1, <2>1 DEF LoadTotal, TypeOK
<1>2. (\E y \in Readers, j \in Keys : LoadTotal(y, j)) \/ UNCHANGED seen
  BY DEF Next, RecordRequest, Lookup, Lock, Create, Add, AddRateLimited, BeginRead, ReadOn,
         EndSnapshot, BeginLatency, LoadLatency, Panic, EndScrape, readVars, vars
<1> QED
  BY <1>1, <1>2

\* What was seen stays below a counter that is neither unmapped nor reduced.
LEMMA StepKeepsSeen ==
    ASSUME TypeOK, StageFits, HeldIsMapped, LeftMapped, SeenBelow, [Next]_vars
    PROVE  SeenBelow'
<1>1. TableKept /\ ValuesGrow /\ TypeOK'
  BY StepKeepsTable, StepGrowsValues, StepKeepsTypes
<1> SUFFICES ASSUME NEW x \in Readers, NEW k \in Keys
             PROVE  \/ seen'[x][k] = 0
                    \/ /\ table'[requestsTotal][k] # None
                       /\ seen'[x][k] <= value'[table'[requestsTotal][k]]
  BY DEF SeenBelow, requestsTotal
<1> DEFINE now == table[requestsTotal][k]
<1>2. seen[x][k] \in Nat /\ seen'[x][k] \in Nat /\ now \in Counters \cup {None}
  BY <1>1 DEF TypeOK, Series, requestsTotal
<1>3. seen'[x][k] = seen[x][k] \/ (now # None /\ seen'[x][k] = value[now])
  BY StepSees
<1>4. CASE now = None
  BY <1>3, <1>4 DEF SeenBelow
<1>5. CASE now # None
  <2>1. now \in Counters /\ table'[requestsTotal][k] = now
    BY <1>1, <1>2, <1>5 DEF TableKept, Series, requestsTotal
  <2>2. value[now] \in Nat /\ value'[now] \in Nat /\ value'[now] >= value[now]
    BY <1>1, <2>1 DEF ValuesGrow, TypeOK
  <2>3. seen[x][k] <= value[now]
    BY <1>2, <1>5, <2>2 DEF SeenBelow
  <2> HIDE DEF now
  <2> QED
    BY <1>2, <1>3, <1>5, <2>1, <2>2, <2>3
<1> QED
  BY <1>4, <1>5

-----------------------------------------------------------------------------
(* The theorems.                                                            *)

LEMMA StepKeepsIInv == IInv /\ [Next]_vars => IInv'
  BY StepKeepsTypes, StepKeepsStageFits, StepKeepsHeld, StepKeepsAddress, StepKeepsZero,
     StepKeepsLeft, StepKeepsSeen DEF IInv

LEMMA Invariance == Spec => []IInv
  BY InitIInv, StepKeepsIInv, PTL DEF Spec

\* The state stays well typed: Add and LoadTotal never go through a counter
\* that does not exist, whatever RecordRequest and the readers interleave.
THEOREM TypeCorrect == Spec => []TypeOK
<1>1. IInv => TypeOK
  BY DEF IInv
<1> QED
  BY <1>1, Invariance, PTL

\* No Add goes to a counter that readers will not see, however the first
\* requests for a key race (getOrCreateCounter, handler.go).
THEOREM HeldCounterIsMapped == Spec => []HeldIsMapped
<1>1. IInv => HeldIsMapped
  BY DEF IInv
<1> QED
  BY <1>1, Invariance, PTL

\* No reader ever loads a smaller total than it did before.
THEOREM TotalsOnlyGrow == Spec => TotalsNeverGoBack
<1>1. ASSUME IInv, [Next]_vars
      PROVE  [\A x \in Readers, k \in Keys : seen'[x][k] >= seen[x][k]]_vars
  <2> SUFFICES ASSUME NEW x \in Readers, NEW k \in Keys
               PROVE  seen'[x][k] >= seen[x][k]
    OBVIOUS
  <2> DEFINE now == table[requestsTotal][k]
  <2>1. TypeOK /\ LeftMapped /\ SeenBelow /\ TypeOK'
    BY <1>1, StepKeepsIInv DEF IInv
  <2>2. seen[x][k] \in Nat /\ seen'[x][k] \in Nat
    BY <2>1 DEF TypeOK
  <2>3. CASE seen'[x][k] = seen[x][k]
    BY <2>2, <2>3
  <2>4. CASE now # None /\ seen'[x][k] = value[now]
    <3>1. seen[x][k] = 0 \/ seen[x][k] <= value[now]
      BY <2>1, <2>4 DEF SeenBelow
    <3> HIDE DEF now
    <3> QED
      BY <2>2, <2>4, <3>1
  <2> QED
    BY <1>1, <2>1, <2>3, <2>4, StepSees
<1> QED
  BY <1>1, Invariance, PTL DEF Spec, TotalsNeverGoBack

-----------------------------------------------------------------------------
(* The lock.                                                                *)

\* The writer is the request between Lock and Unlock, and a reader holds the read
\* lock from RLock until it is idle again, so for good once it has panicked.
LockFits ==
    /\ \A r \in Requests : writer = r <=> pc[r] = "locked"
    /\ \A x \in Readers : x \in reading <=> rc[x] # "idle"

LEMMA StepKeepsLockFits ==
    ASSUME TypeOK, LockFits, [Next]_vars
    PROVE  LockFits'
<1>1. ASSUME NEW r \in Requests, RecordRequest(r)
      PROVE  LockFits'
  <2>1. \A q \in Requests : q # None
    BY NoneIsNew
  <2>2. rc' = rc /\ reading' = reading
    BY <1>1 DEF RecordRequest, Lookup, Lock, Create, Add, AddRateLimited, readVars
  <2>3. \A q \in Requests \ {r} : pc'[q] = pc[q]
    BY <1>1 DEF TypeOK, RecordRequest, Lookup, Lock, Create, Add, AddRateLimited
  <2>4. CASE Lock(r)
    <3>1. writer = None /\ writer' = r /\ pc'[r] = "locked"
      BY <2>4 DEF TypeOK, Lock
    <3> QED
      BY <2>1, <2>2, <2>3, <3>1 DEF LockFits
  <2>5. CASE Create(r)
    <3>1. writer' = None /\ pc[r] = "locked" /\ pc'[r] = "add"
      BY <2>5 DEF TypeOK, Create
    <3> QED
      BY <2>1, <2>2, <2>3, <3>1 DEF LockFits
  <2>6. CASE Lookup(r) \/ Add(r) \/ AddRateLimited(r)
    <3>1. writer' = writer /\ pc[r] # "locked" /\ pc'[r] # "locked"
      BY <2>6 DEF TypeOK, Lookup, Add, AddRateLimited, AfterAdd
    <3> QED
      BY <2>2, <2>3, <3>1 DEF LockFits
  <2> QED
    BY <1>1, <2>4, <2>5, <2>6 DEF RecordRequest
<1>2. ASSUME NEW x \in Readers, BeginRead(x) \/ ReadOn(x)
      PROVE  LockFits'
  <2>1. pc' = pc /\ writer' = writer
    BY <1>2 DEF BeginRead, ReadOn, EndSnapshot, BeginLatency, EndScrape,
                LoadTotal, LoadLatency, Panic, recVars
  <2>2. \A y \in Readers \ {x} : rc'[y] = rc[y] /\ (y \in reading' <=> y \in reading)
    BY <1>2 DEF TypeOK, BeginRead, ReadOn, EndSnapshot, BeginLatency, EndScrape,
                LoadTotal, LoadLatency, Panic
  <2>3. x \in reading' <=> rc'[x] # "idle"
    <3>1. CASE BeginRead(x)
      BY <3>1 DEF TypeOK, BeginRead
    <3>2. CASE EndSnapshot(x) \/ EndScrape(x)
      BY <3>2 DEF TypeOK, EndSnapshot, EndScrape
    <3>3. CASE BeginLatency(x)
      BY <3>3 DEF TypeOK, LockFits, BeginLatency
    <3>4. ASSUME NEW k \in Keys, LoadTotal(x, k) \/ LoadLatency(x, k) \/ Panic(x, k)
          PROVE  x \in reading' <=> rc'[x] # "idle"
      BY <3>4 DEF TypeOK, LockFits, LoadTotal, LoadLatency, Panic
    <3> QED
      BY <1>2, <3>1, <3>2, <3>3, <3>4 DEF ReadOn
  <2> QED
    BY <2>1, <2>2, <2>3 DEF LockFits
<1>3. ASSUME UNCHANGED vars
      PROVE  LockFits'
  BY <1>3 DEF vars, LockFits
<1> QED
  BY <1>1, <1>2, <1>3 DEF Next

LEMMA LockHolds == Spec => []LockFits
<1>1. Init => LockFits
  <2>1. \A r \in Requests : r # None
    BY NoneIsNew
  <2> QED
    BY <2>1 DEF Init, LockFits
<1>2. IInv /\ LockFits /\ [Next]_vars => LockFits'
  BY StepKeepsLockFits DEF IInv
<1> QED
  BY <1>1, <1>2, Invariance, PTL DEF Spec

\* A new key is mapped by the one writer, while no reader is in its maps; and a
\* scrape that panicked never comes back and keeps every later key out, of requests
\* that go on as of those that start (handler.go: RUnlock is not deferred in
\* ServeHTTP).  RecordedUnlessPanic says the same of the fair program: nothing else
\* keeps a request from being recorded.
Frozen(x) == rc[x] = "panicked"

MapsAreGuarded ==
    [][/\ table' # table => /\ reading = {}
                            /\ \E r \in Requests : writer = r
                            /\ \A q, r \in Requests : pc[q] = "locked" /\ pc[r] = "locked" => q = r
       /\ \A x \in Readers : Frozen(x) => Frozen(x)' /\ table' = table]_vars

THEOREM PanicFreezesMaps == Spec => MapsAreGuarded
<1>1. ASSUME TypeOK, LockFits, NEW r \in Requests, RecordRequest(r)
      PROVE  rc' = rc /\ (table' = table \/ (pc[r] = "locked" /\ reading = {}))
  BY <1>1 DEF RecordRequest, Lookup, Lock, Create, Add, AddRateLimited, readVars
<1>2. ASSUME TypeOK, NEW x \in Readers, BeginRead(x) \/ ReadOn(x)
      PROVE  /\ table' = table
             /\ \A y \in Readers : Frozen(y) => rc'[y] = rc[y]
  BY <1>2 DEF TypeOK, Frozen, BeginRead, ReadOn, EndSnapshot, BeginLatency, EndScrape,
              LoadTotal, LoadLatency, Panic, recVars
<1>3. ASSUME TypeOK, LockFits, Next
      PROVE  /\ table' # table => /\ reading = {}
                                  /\ \E r \in Requests : writer = r
                                  /\ \A q, r \in Requests :
                                        pc[q] = "locked" /\ pc[r] = "locked" => q = r
             /\ \A x \in Readers : Frozen(x) => Frozen(x)' /\ table' = table
  <2>1. \A q, r \in Requests : pc[q] = "locked" /\ pc[r] = "locked" => q = r
    BY <1>3 DEF LockFits
  <2>2. ASSUME table' # table
        PROVE  reading = {} /\ \E r \in Requests : writer = r
    BY <1>1, <1>2, <1>3, <2>2 DEF Next, LockFits
  <2>3. ASSUME NEW x \in Readers, Frozen(x)
        PROVE  Frozen(x)' /\ table' = table
    <3>1. x \in reading
      BY <1>3, <2>3 DEF LockFits, Frozen
    <3> QED
      BY <1>1, <1>2, <1>3, <2>2, <2>3, <3>1 DEF Next, Frozen
  <2> QED
    BY <2>1, <2>2, <2>3
<1>4. TypeOK /\ LockFits /\ [Next]_vars =>
         [/\ table' # table => /\ reading = {}
                               /\ \E r \in Requests : writer = r
                               /\ \A q, r \in Requests :
                                     pc[q] = "locked" /\ pc[r] = "locked" => q = r
          /\ \A x \in Readers : Frozen(x) => Frozen(x)' /\ table' = table]_vars
  BY <1>3
<1> QED
  BY <1>4, LockHolds, TypeCorrect, PTL DEF MapsAreGuarded, Spec

-----------------------------------------------------------------------------
(* The collector implements MetricCounters.                                 *)

\* The mapped state of MetricCounters.
added == {c \in Counters : c[1] < stage[c[2]]}
totals == [s \in Series |-> [k \in Keys |->
              IF table[s][k] = None THEN 0 ELSE value[table[s][k]]]]

\* A table of tables is changed at one place when it is changed at that place only.
LEMMA BumpNested ==
    ASSUME NEW S, NEW K, NEW s \in S, NEW k \in K, NEW n \in Nat,
           NEW f \in [S -> [K -> Nat]], NEW g \in [S -> [K -> Nat]],
           \A t \in S, j \in K :
               g[t][j] = IF t = s /\ j = k THEN f[t][j] + n ELSE f[t][j]
    PROVE  g = [f EXCEPT ![s][k] = @ + n]
<1> DEFINE row == [f[s] EXCEPT ![k] = @ + n]
<1>1. row \in [K -> Nat] /\ g[s] \in [K -> Nat]
  OBVIOUS
<1>2. \A j \in K : g[s][j] = row[j]
  OBVIOUS
<1>3. g[s] = row
  BY <1>1, <1>2
<1>4. ASSUME NEW t \in S, t # s
      PROVE  g[t] = f[t]
  <2>1. g[t] \in [K -> Nat] /\ f[t] \in [K -> Nat]
    OBVIOUS
  <2>2. \A j \in K : g[t][j] = f[t][j]
    BY <1>4
  <2> QED
    BY <2>1, <2>2
<1> QED
  BY <1>3, <1>4

\* An Add counts its request in its series.
LEMMA AddCounts ==
    ASSUME IInv, NEW r \in Requests, Add(r)
    PROVE  Promise!Count(stage[r], r)
<1>1. stage[r] \in Series
  BY DEF IInv, StageFits, Add
<1> DEFINE s == stage[r]
           d == held[r]
<1>2. Key[s][r] \in Keys /\ Amount[s][r] \in Nat /\ <<s, r>> \in Counters
  BY <1>1, LabelSets
<1>3. d \in Counters /\ d = table[s][Key[s][r]] /\ d # None
  BY DEF IInv, HeldIsMapped, TypeOK, Add
<1>4. d[1] = s /\ Key[s][d[2]] = Key[s][r]
  BY <1>1, <1>2, <1>3 DEF IInv, AddressFits
<1>5. <<s, r>> \notin added
  BY <1>1, <1>2 DEF added, IInv, TypeOK, Series
<1>6. added' = added \cup {<<s, r>>}
  <2>1. stage' = [stage EXCEPT ![r] = s + 1]
    BY DEF Add
  <2>2. ASSUME NEW c \in Counters
        PROVE  c[1] < stage'[c[2]] <=> (c[1] < stage[c[2]] \/ c = <<s, r>>)
    <3>1. c[1] \in 1..3 /\ c[2] \in Requests /\ c = <<c[1], c[2]>>
      BY DEF Counters, Series
    <3>2. stage \in [Requests -> 1..4]
      BY DEF IInv, TypeOK
    <3>3. CASE c[2] = r
      <4>1. stage'[c[2]] = s + 1 /\ (c = <<s, r>> <=> c[1] = s)
        BY <2>1, <3>1, <3>2, <3>3
      <4> QED
        BY <1>1, <3>1, <3>3, <4>1 DEF Series
    <3>4. CASE c[2] # r
      <4>1. stage'[c[2]] = stage[c[2]] /\ c # <<s, r>>
        BY <2>1, <3>1, <3>2, <3>4
      <4> QED
        BY <4>1
    <3> QED
      BY <3>3, <3>4
  <2> QED
    BY <1>2, <2>2 DEF added
<1>7. totals' = [totals EXCEPT ![s][Key[s][r]] = @ + Amount[s][r]]
  <2>1. table' = table /\ value' = [value EXCEPT ![d] = @ + Amount[s][r]]
    BY DEF Add
  <2>2. ASSUME NEW t \in Series, NEW k \in Keys
        PROVE  totals'[t][k] = IF t = s /\ k = Key[s][r]
                               THEN totals[t][k] + Amount[s][r] ELSE totals[t][k]
    <3>1. /\ totals[t][k] = IF table[t][k] = None THEN 0 ELSE value[table[t][k]]
          /\ totals'[t][k] = IF table[t][k] = None THEN 0 ELSE value'[table[t][k]]
      BY <2>1 DEF totals
    <3>2. value \in [Counters -> Nat] /\ table[t][k] \in Counters \cup {None}
      BY DEF IInv, TypeOK
    <3>3. CASE t = s /\ k = Key[s][r]
      BY <1>3, <2>1, <3>1, <3>2, <3>3
    <3>4. CASE ~ (t = s /\ k = Key[s][r])
      <4>1. table[t][k] = None \/ table[t][k] # d
        BY <1>4, <3>4 DEF IInv, AddressFits
      <4> QED
        BY <2>1, <3>1, <3>2, <3>4, <4>1
    <3> QED
      BY <3>3, <3>4
  <2>3. value \in [Counters -> Nat] /\ value' \in [Counters -> Nat]
        /\ \A t \in Series, k \in Keys : table[t][k] \in Counters \cup {None}
    BY <1>2, <1>3, <2>1 DEF IInv, TypeOK
  <2>4. totals \in [Series -> [Keys -> Nat]] /\ totals' \in [Series -> [Keys -> Nat]]
    BY <2>1, <2>3 DEF totals
  <2> DEFINE k == Key[s][r]
             n == Amount[s][r]
  <2>5. s \in Series /\ k \in Keys /\ n \in Nat
    BY <1>1, <1>2
  <2>6. \A t \in Series, j \in Keys :
           totals'[t][j] = IF t = s /\ j = k THEN totals[t][j] + n ELSE totals[t][j]
    BY <2>2
  <2> HIDE DEF d, s, k, n
  <2>7. totals' = [totals EXCEPT ![s][k] = @ + n]
    BY <2>4, <2>5, <2>6, BumpNested
  <2> QED
    BY <2>7 DEF k, n
<1> QED
  BY <1>5, <1>6, <1>7 DEF Promise!Count, added, totals

\* A Create maps a counter that counts nothing yet: no total changes.
LEMMA CreateCountsNothing ==
    ASSUME IInv, NEW r \in Requests, Create(r)
    PROVE  totals' = totals
<1>1. stage[r] \in Series
  BY DEF IInv, StageFits, Create
<1> DEFINE s == stage[r]
<1>2. Key[s][r] \in Keys /\ <<s, r>> \in Counters /\ <<s, r>> # None
  BY <1>1, LabelSets
<1>3. table[s][Key[s][r]] = None => value[<<s, r>>] = 0
  BY <1>1, <1>2 DEF IInv, UnmappedIsZero
<1>4. ASSUME NEW t \in Series, NEW k \in Keys
      PROVE  table'[t][k] = table[t][k]
             \/ (table[t][k] = None /\ table'[t][k] = <<s, r>> /\ value[<<s, r>>] = 0)
  BY <1>1, <1>2, <1>3 DEF IInv, Create, TypeOK
<1>5. value' = value
  BY DEF Create
<1> QED
  BY <1>2, <1>4, <1>5 DEF totals

\* Every step of the collector is one of MetricCounters, or leaves its state alone.
LEMMA StepCounts ==
    ASSUME IInv, [Next]_vars
    PROVE  \/ \E s \in Series, r \in Requests : Promise!Count(s, r)
           \/ added' = added /\ totals' = totals
<1>1. ASSUME NEW r \in Requests, Add(r)
      PROVE  \E s \in Series, q \in Requests : Promise!Count(s, q)
  <2>1. stage[r] \in Series
    BY <1>1 DEF IInv, StageFits, Add
  <2>2. Promise!Count(stage[r], r)
    BY <1>1, AddCounts
  <2> QED
    BY <2>1, <2>2 DEF Promise!Count
<1>2. ASSUME NEW r \in Requests, Create(r)
      PROVE  added' = added /\ totals' = totals
  BY <1>2, CreateCountsNothing DEF Create, added
<1>3. CASE UNCHANGED <<table, value, stage>>
  BY <1>3 DEF added, totals
<1>4. \/ \E r \in Requests : Add(r) \/ Create(r)
      \/ UNCHANGED <<table, value, stage>>
  BY DEF Next, RecordRequest, Lookup, Lock, AddRateLimited, BeginRead, ReadOn,
         LoadTotal, EndSnapshot, BeginLatency, LoadLatency, Panic, EndScrape,
         recVars, vars
<1> QED
  BY <1>1, <1>2, <1>3, <1>4

\* However first-time creations race, every request counts exactly once in
\* each series, when its Add runs, and nothing else changes a total.
THEOREM ImplementsCounters == Spec => CountersImplemented
<1>1. Init => Promise!Init
  BY DEF Init, Promise!Init, Counters, Series
<1>2. ASSUME IInv, [Next]_vars
      PROVE  [Promise!Next]_<<added, totals>>
  BY <1>2, StepCounts DEF Promise!Next, Promise!Count
<1> QED
  BY <1>1, <1>2, Invariance, PTL DEF Spec, CountersImplemented, Promise!Spec, added, totals

-----------------------------------------------------------------------------
(* What a total means.                                                      *)

\* The requests that were counted under key k of requests_total.
CountedUnder(k) ==
    {r \in Requests : stage[r] > requestsTotal /\ Key[requestsTotal][r] = k}

Tallied ==
    \A k \in Keys : /\ IsFiniteSet(CountedUnder(k))
                    /\ totals[requestsTotal][k] = Cardinality(CountedUnder(k))

LEMMA CountKeepsTallied ==
    ASSUME IInv, Tallied, \A r \in Requests : Amount[requestsTotal][r] = 1,
           NEW s \in Series, NEW r \in Requests, Promise!Count(s, r), TypeOK'
    PROVE  Tallied'
<1>1. requestsTotal \in Series /\ <<s, r>> \in Counters /\ Key[s][r] \in Keys
  BY LabelSets DEF Series, requestsTotal
<1>2. /\ <<s, r>> \notin added /\ added' = added \cup {<<s, r>>}
      /\ totals' = [totals EXCEPT ![s][Key[s][r]] = @ + Amount[s][r]]
  BY DEF Promise!Count, added, totals
<1>3. \A q \in Requests : /\ stage[q] > requestsTotal <=> <<requestsTotal, q>> \in added
                          /\ stage'[q] > requestsTotal <=> <<requestsTotal, q>> \in added'
  BY <1>1 DEF IInv, TypeOK, added, Counters, requestsTotal
<1>4. ASSUME NEW k \in Keys
      PROVE  /\ CountedUnder(k)' = IF s = requestsTotal /\ Key[s][r] = k
                                   THEN CountedUnder(k) \cup {r} ELSE CountedUnder(k)
             /\ s = requestsTotal => r \notin CountedUnder(k)
  <2>1. \A q \in Requests : stage'[q] > requestsTotal <=>
                               stage[q] > requestsTotal \/ (s = requestsTotal /\ q = r)
    BY <1>2, <1>3
  <2>2. s = requestsTotal => ~ stage[r] > requestsTotal
    BY <1>2, <1>3
  <2> QED
    BY <2>1, <2>2 DEF CountedUnder
<1>5. ASSUME NEW k \in Keys
      PROVE  totals'[requestsTotal][k] = IF s = requestsTotal /\ Key[s][r] = k
                                         THEN totals[requestsTotal][k] + 1
                                         ELSE totals[requestsTotal][k]
  <2> DEFINE before == totals
             after == totals'
             n == Amount[s][r]
  <2>1. before = [t \in Series |-> [j \in Keys |-> before[t][j]]]
    BY DEF totals
  <2>2. after = [before EXCEPT ![s][Key[s][r]] = @ + n]
    BY <1>2
  <2>3. s = requestsTotal => n = 1
    OBVIOUS
  <2> HIDE DEF before, after, n
  <2>4. after[requestsTotal][k] = IF s = requestsTotal /\ Key[s][r] = k
                                  THEN before[requestsTotal][k] + n
                                  ELSE before[requestsTotal][k]
    BY <1>1, <2>1, <2>2
  <2> QED
    BY <2>3, <2>4 DEF before, after
<1>6. ASSUME NEW k \in Keys
      PROVE  /\ IsFiniteSet(CountedUnder(k)')
             /\ totals'[requestsTotal][k] = Cardinality(CountedUnder(k)')
  <2>1. /\ IsFiniteSet(CountedUnder(k))
        /\ totals[requestsTotal][k] = Cardinality(CountedUnder(k))
    BY DEF Tallied
  <2>2. CASE s = requestsTotal /\ Key[s][r] = k
    <3>1. /\ IsFiniteSet(CountedUnder(k) \cup {r})
          /\ Cardinality(CountedUnder(k) \cup {r}) = Cardinality(CountedUnder(k)) + 1
      BY <1>4, <2>1, <2>2, FS_AddElement
    <3> QED
      BY <1>4, <1>5, <2>1, <2>2, <3>1
  <2>3. CASE ~ (s = requestsTotal /\ Key[s][r] = k)
    BY <1>4, <1>5, <2>1, <2>3
  <2> QED
    BY <2>2, <2>3
<1> QED
  BY <1>6 DEF Tallied

\* At every moment the total under a key of requests_total is the number of
\* requests with that key that have been added: when each adds 1, as RecordRequest
\* does, none is lost and none counts twice, also before all have finished.
THEOREM TotalsAreRequests ==
    ASSUME \A r \in Requests : Amount[requestsTotal][r] = 1
    PROVE  Spec => []Tallied
<1>1. Init => Tallied
  <2> SUFFICES ASSUME Init, NEW k \in Keys
               PROVE  /\ IsFiniteSet(CountedUnder(k))
                      /\ totals[requestsTotal][k] = Cardinality(CountedUnder(k))
    BY DEF Tallied
  <2>1. CountedUnder(k) = {}
    BY DEF Init, CountedUnder, requestsTotal
  <2>2. totals[requestsTotal][k] = 0
    BY DEF Init, totals, Series, requestsTotal
  <2> QED
    BY <2>1, <2>2, FS_EmptySet
<1>2. ASSUME IInv, Tallied, [Next]_vars
      PROVE  Tallied'
  <2>1. TypeOK'
    BY <1>2, StepKeepsTypes DEF IInv
  <2>2. ASSUME NEW s \in Series, NEW r \in Requests, Promise!Count(s, r)
        PROVE  Tallied'
    BY <1>2, <2>1, <2>2, CountKeepsTallied
  <2>3. CASE added' = added /\ totals' = totals
    <3>1. \A q \in Requests : stage'[q] > requestsTotal <=> stage[q] > requestsTotal
      <4>1. \A q \in Requests : /\ stage[q] > requestsTotal <=> <<requestsTotal, q>> \in added
                                /\ stage'[q] > requestsTotal <=> <<requestsTotal, q>> \in added'
        BY <1>2, <2>1 DEF IInv, TypeOK, added, Counters, Series, requestsTotal
      <4> QED
        BY <2>3, <4>1
    <3>2. \A k \in Keys : CountedUnder(k)' = CountedUnder(k)
      BY <3>1 DEF CountedUnder
    <3> QED
      BY <1>2, <2>3, <3>2 DEF Tallied
  <2> QED
    BY <1>2, <2>2, <2>3, StepCounts
<1> QED
  BY <1>1, <1>2, Invariance, PTL DEF Spec

-----------------------------------------------------------------------------
(* Keys that are texts, and what can be read from them again.               *)

\* Induction over a set of numbers: the least number outside it has no place.
LEMMA Inductive ==
    ASSUME NEW S, 0 \in S, \A n \in Nat : n \in S => n + 1 \in S
    PROVE  Nat \subseteq S
<1> DEFINE outside == Nat \ S
<1> SUFFICES ASSUME outside # {} PROVE FALSE
  OBVIOUS
<1>1. PICK least \in outside : \A n \in outside : <<n, least>> \notin OpToRel(<, Nat)
  BY WFMin, NatLessThanWellFounded, Zenon
<1>2. \A n \in outside : ~ n < least
  BY <1>1, Zenon DEF OpToRel
<1>3. least \in Nat /\ least # 0 /\ least - 1 \in Nat /\ least - 1 < least
  OBVIOUS
<1>4. least - 1 \in S
  BY <1>2, <1>3
<1> QED
  BY <1>3, <1>4

\* A token is not part of a text.
Lacks(text, token) == \A i \in 1..Len(text) : text[i] # token

\* Two texts around a separator, token by token.
LEMMA AroundSeparator ==
    ASSUME NEW T, NEW sep \in T, NEW x \in Seq(T), NEW y \in Seq(T)
    PROVE  /\ x \o <<sep>> \o y \in Seq(T)
           /\ Len(x \o <<sep>> \o y) = Len(x) + 1 + Len(y)
           /\ \A i \in 1..Len(x) : (x \o <<sep>> \o y)[i] = x[i]
           /\ (x \o <<sep>> \o y)[Len(x) + 1] = sep
           /\ \A i \in 1..Len(y) : (x \o <<sep>> \o y)[Len(x) + 1 + i] = y[i]
<1> DEFINE m == <<sep>>
           u == x \o m
           w == u \o y
<1>1. m \in Seq(T) /\ Len(m) = 1 /\ m[1] = sep
  OBVIOUS
<1>2. Len(x) \in Nat /\ Len(y) \in Nat
  OBVIOUS
<1> HIDE DEF m
<1>3. /\ u \in Seq(T) /\ Len(u) = Len(x) + 1
      /\ \A i \in 1..(Len(x) + 1) : u[i] = IF i <= Len(x) THEN x[i] ELSE m[i - Len(x)]
  <2>1. /\ u \in Seq(T) /\ Len(u) = Len(x) + Len(m)
        /\ \A i \in 1..(Len(x) + Len(m)) : u[i] = IF i <= Len(x) THEN x[i] ELSE m[i - Len(x)]
    BY <1>1, ConcatProperties, Zenon
  <2> QED
    BY <1>1, <2>1
<1> HIDE DEF u
<1>4. /\ w \in Seq(T) /\ Len(w) = Len(u) + Len(y)
      /\ \A i \in 1..(Len(u) + Len(y)) : w[i] = IF i <= Len(u) THEN u[i] ELSE y[i - Len(u)]
  <2>1. u \in Seq(T)
    BY <1>3
  <2> QED
    BY <2>1, ConcatProperties, Zenon
<1> HIDE DEF w
<1>5. \A i \in 1..Len(x) : w[i] = x[i]
  BY <1>2, <1>3, <1>4
<1>6. w[Len(x) + 1] = sep
  BY <1>1, <1>2, <1>3, <1>4
<1>7. ASSUME NEW i \in 1..Len(y) PROVE w[Len(x) + 1 + i] = y[i]
  <2>1. /\ Len(x) + 1 + i \in 1..(Len(u) + Len(y)) /\ ~ Len(x) + 1 + i <= Len(u)
        /\ (Len(x) + 1 + i) - Len(u) = i
    BY <1>2, <1>3
  <2> QED
    BY <1>4, <2>1
<1> QED
  BY <1>2, <1>3, <1>4, <1>5, <1>6, <1>7 DEF w, u, m

\* The last separator of a text is where it was put when what follows it has none.
LEMMA LastSeparator ==
    ASSUME NEW T, NEW sep \in T, NEW x \in Seq(T), NEW y \in Seq(T),
           NEW v \in Seq(T), NEW w \in Seq(T),
           Lacks(y, sep), Lacks(w, sep),
           x \o <<sep>> \o y = v \o <<sep>> \o w
    PROVE  x = v /\ y = w
<1> DEFINE text == x \o <<sep>> \o y
<1>1. /\ Len(text) = Len(x) + 1 + Len(y)
      /\ \A i \in 1..Len(x) : text[i] = x[i]
      /\ text[Len(x) + 1] = sep
      /\ \A i \in 1..Len(y) : text[Len(x) + 1 + i] = y[i]
  BY AroundSeparator
<1>2. /\ Len(text) = Len(v) + 1 + Len(w)
      /\ \A i \in 1..Len(v) : text[i] = v[i]
      /\ text[Len(v) + 1] = sep
      /\ \A i \in 1..Len(w) : text[Len(v) + 1 + i] = w[i]
  <2> DEFINE other == v \o <<sep>> \o w
  <2>1. /\ Len(other) = Len(v) + 1 + Len(w)
        /\ \A i \in 1..Len(v) : other[i] = v[i]
        /\ other[Len(v) + 1] = sep
        /\ \A i \in 1..Len(w) : other[Len(v) + 1 + i] = w[i]
    BY AroundSeparator
  <2>2. text = other
    OBVIOUS
  <2> HIDE DEF other, text
  <2> QED
    BY <2>1, <2>2
<1> HIDE DEF text
<1>3. Len(x) \in Nat /\ Len(y) \in Nat /\ Len(v) \in Nat /\ Len(w) \in Nat
  OBVIOUS
<1>4. ~ Len(x) < Len(v)
  <2> SUFFICES ASSUME Len(x) < Len(v) PROVE FALSE
    OBVIOUS
  <2>1. PICK i \in 1..Len(y) : Len(x) + 1 + i = Len(v) + 1
    <3>1. Len(v) - Len(x) \in 1..Len(y)
      BY <1>1, <1>2, <1>3
    <3>2. Len(x) + 1 + (Len(v) - Len(x)) = Len(v) + 1
      BY <1>3
    <3> QED
      BY <3>1, <3>2, Zenon
  <2>2. text[Len(v) + 1] = y[i] /\ text[Len(v) + 1] = sep
    BY <1>1, <1>2, <2>1
  <2> QED
    BY <2>2 DEF Lacks
<1>5. ~ Len(v) < Len(x)
  <2> SUFFICES ASSUME Len(v) < Len(x) PROVE FALSE
    OBVIOUS
  <2>1. PICK i \in 1..Len(w) : Len(v) + 1 + i = Len(x) + 1
    <3>1. Len(x) - Len(v) \in 1..Len(w)
      BY <1>1, <1>2, <1>3
    <3>2. Len(v) + 1 + (Len(x) - Len(v)) = Len(x) + 1
      BY <1>3
    <3> QED
      BY <3>1, <3>2, Zenon
  <2>2. text[Len(x) + 1] = w[i] /\ text[Len(x) + 1] = sep
    BY <1>1, <1>2, <2>1
  <2> QED
    BY <2>2 DEF Lacks
<1>6. Len(x) = Len(v) /\ Len(y) = Len(w)
  BY <1>1, <1>2, <1>3, <1>4, <1>5
<1>7. \A i \in 1..Len(x) : x[i] = v[i]
  BY <1>1, <1>2, <1>6
<1>8. \A i \in 1..Len(y) : y[i] = w[i]
  BY <1>1, <1>2, <1>6
<1> QED
  BY <1>6, <1>7, <1>8, SeqEqual

\* FlattenSeq(seqs) is the last of the texts that grow by one piece each.
LEMMA Flattened ==
    ASSUME NEW T, NEW seqs \in Seq(Seq(T))
    PROVE  \E f \in [0..Len(seqs) -> Seq(T)] :
               /\ f[0] = << >>
               /\ \A i \in 1..Len(seqs) : f[i] = f[i - 1] \o seqs[i]
               /\ FlattenSeq(seqs) = f[Len(seqs)]
<1> DEFINE n == Len(seqs)
           Grows(m, f) == f[0] = << >> /\ \A i \in 1..m : f[i] = f[i - 1] \o seqs[i]
           Loop(f) == f = [i \in 1..n |-> IF i = 1 THEN seqs[i] ELSE f[i - 1] \o seqs[i]]
           flatten == CHOOSE f : Loop(f)
           Solved(m) == m <= n => \E f \in [0..m -> Seq(T)] : Grows(m, f)
           S == {m \in Nat : Solved(m)}
<1>1. n \in Nat /\ \A i \in 1..n : seqs[i] \in Seq(T)
  OBVIOUS
<1>2. FlattenSeq(seqs) = IF n = 0 THEN seqs ELSE flatten[n]
  BY DEF FlattenSeq
<1>3. << >> \in Seq(T) /\ (n = 0 => seqs = << >>)
  OBVIOUS
<1> HIDE DEF n
<1>4. 0 \in S
  <2> DEFINE f == [i \in 0..0 |-> << >>]
  <2>1. f \in [0..0 -> Seq(T)]
    BY <1>3
  <2>2. f[0] = << >> /\ \A i \in 1..0 : f[i] = f[i - 1] \o seqs[i]
    OBVIOUS
  <2> QED
    BY <2>1, <2>2
<1>5. ASSUME NEW m \in Nat, m \in S
      PROVE  m + 1 \in S
  <2>1. ASSUME m + 1 <= n PROVE \E f \in [0..(m + 1) -> Seq(T)] : Grows(m + 1, f)
    <3>1. PICK f \in [0..m -> Seq(T)] : Grows(m, f)
      <4>1. Solved(m)
        <5> HIDE DEF Solved
        <5> QED
          BY <1>5
      <4>2. m <= n
        BY <1>1, <2>1
      <4> QED
        BY <4>1, <4>2, Zenon
    <3> DEFINE g == [i \in 0..(m + 1) |-> IF i = m + 1 THEN f[m] \o seqs[m + 1] ELSE f[i]]
    <3>2. f[m] \in Seq(T) /\ seqs[m + 1] \in Seq(T)
      BY <1>1, <2>1
    <3>3. f[m] \o seqs[m + 1] \in Seq(T)
      BY <3>2, ConcatProperties
    <3>4. g \in [0..(m + 1) -> Seq(T)]
      BY <3>3
    <3>5. g[0] = << >>
      BY <3>1
    <3>6. ASSUME NEW i \in 1..(m + 1) PROVE g[i] = g[i - 1] \o seqs[i]
      <4>1. i \in 0..(m + 1) /\ i - 1 \in 0..(m + 1) /\ i - 1 # m + 1
        OBVIOUS
      <4>2. g[i - 1] = f[i - 1]
        BY <4>1
      <4>3. CASE i = m + 1
        BY <4>1, <4>2, <4>3
      <4>4. CASE i # m + 1
        <5>1. i \in 1..m /\ g[i] = f[i]
          BY <4>1, <4>4
        <5>2. f[i] = f[i - 1] \o seqs[i]
          BY <3>1, <5>1
        <5> HIDE DEF g
        <5> QED
          BY <4>2, <5>1, <5>2, Zenon
      <4> QED
        BY <4>3, <4>4
    <3> QED
      BY <3>4, <3>5, <3>6
  <2>2. Solved(m + 1)
    BY <2>1
  <2> HIDE DEF Solved
  <2> QED
    BY <2>2
<1>6. n \in S
  <2> HIDE DEF S
  <2> QED
    BY <1>1, <1>4, <1>5, Inductive
<1>7. PICK f \in [0..n -> Seq(T)] : Grows(n, f)
  <2>1. Solved(n)
    <3> HIDE DEF Solved
    <3> QED
      BY <1>6
  <2>2. n <= n
    BY <1>1
  <2> QED
    BY <2>1, <2>2, Zenon
<1>8. CASE n = 0
  BY <1>2, <1>3, <1>7, <1>8 DEF n
<1>9. CASE n # 0
  <2> DEFINE g == [i \in 1..n |-> f[i]]
  <2>1. f[1] = seqs[1]
    <3>1. 1 \in 1..n /\ 1 - 1 = 0
      BY <1>1, <1>9
    <3>2. f[1] = f[1 - 1] \o seqs[1] /\ f[0] = << >> /\ seqs[1] \in Seq(T)
      BY <1>1, <1>7, <3>1
    <3>3. f[1] = << >> \o seqs[1]
      BY <3>1, <3>2
    <3> QED
      BY <3>2, <3>3, ConcatEmptySeq
  <2>2. ASSUME NEW i \in 1..n
        PROVE  g[i] = IF i = 1 THEN seqs[i] ELSE g[i - 1] \o seqs[i]
    <3>1. g[i] = f[i] /\ f[i] = f[i - 1] \o seqs[i]
      BY <1>1, <1>7
    <3>2. i # 1 => i - 1 \in 1..n /\ g[i - 1] = f[i - 1]
      BY <1>1
    <3> QED
      BY <2>1, <3>1, <3>2
  <2>3. Loop(g)
    BY <2>2
  <2> HIDE DEF g
  \* The loop has a solution, so CHOOSE finds one; it grows in the same way.
  <2>4. Loop(flatten)
    BY <2>3
  <2> HIDE DEF flatten
  <2>5. \A i \in 1..n : flatten[i] = IF i = 1 THEN seqs[i] ELSE flatten[i - 1] \o seqs[i]
    <3> HIDE DEF Loop
    <3>1. ASSUME NEW F, Loop(F), NEW i \in 1..n
          PROVE  F[i] = IF i = 1 THEN seqs[i] ELSE F[i - 1] \o seqs[i]
      BY <3>1 DEF Loop
    <3> QED
      BY <2>4, <3>1
  <2> DEFINE Equal(m) == 1 <= m /\ m <= n => flatten[m] = f[m]
             E == {m \in Nat : Equal(m)}
  <2>6. 0 \in E
    OBVIOUS
  <2>7. ASSUME NEW m \in Nat, m \in E PROVE m + 1 \in E
    <3>1. ASSUME m + 1 <= n PROVE flatten[m + 1] = f[m + 1]
      <4>1. m + 1 \in 1..n /\ (m + 1) - 1 = m
        BY <1>1, <3>1
      <4>2. CASE m = 0
        BY <2>1, <2>5, <4>1, <4>2
      <4>3. CASE m # 0
        <5>1. flatten[m] = f[m]
          BY <1>1, <2>7, <3>1, <4>3
        <5>2. flatten[m + 1] = flatten[m] \o seqs[m + 1]
          <6>1. flatten[m + 1] = IF m + 1 = 1 THEN seqs[m + 1]
                                 ELSE flatten[(m + 1) - 1] \o seqs[m + 1]
            BY <2>5, <4>1, Zenon
          <6>2. m + 1 # 1
            BY <4>3
          <6> QED
            BY <4>1, <6>1, <6>2, Zenon
        <5>3. f[m + 1] = f[m] \o seqs[m + 1]
          BY <1>7, <4>1
        <5> QED
          BY <5>1, <5>2, <5>3
      <4> QED
        BY <4>2, <4>3
    <3>2. Equal(m + 1)
      BY <3>1
    <3> HIDE DEF Equal
    <3> QED
      BY <3>2
  <2>8. n \in E
    <3> HIDE DEF E
    <3> QED
      BY <1>1, <2>6, <2>7, Inductive
  <2>9. flatten[n] = f[n]
    BY <1>1, <1>9, <2>8
  <2> QED
    BY <1>2, <1>7, <1>9, <2>9 DEF n
<1> QED
  BY <1>8, <1>9

\* What texts are made of, and the text that stands for a segment in a key.
Tokens == Words \cup {":", "/", "id"}
Body(a) == IF isLikelyID(a) THEN <<":", "id">> ELSE a.text

LEMMA SegmentFields ==
    ASSUME RequestTypes, NEW a \in Segments
    PROVE  /\ a.text \in Seq(Words \cup {":"})
           /\ \A i \in 1..Len(a.text) : a.text[i] # "/"
<1>1. a \in [text : Seq(Words \cup {":"}), length : Nat, digits : BOOLEAN, hyphen : BOOLEAN]
  BY DEF RequestTypes
<1>2. a.text \in Seq(Words \cup {":"})
  BY <1>1
<1>3. \A i \in 1..Len(a.text) : a.text[i] \in Words \cup {":"}
  BY <1>2, ElementOfSeq
<1> QED
  BY <1>2, <1>3 DEF RequestTypes

\* No slash is part of what stands for a segment.
LEMMA BodyFits ==
    ASSUME RequestTypes, NEW a \in Segments
    PROVE  Body(a) \in Seq(Tokens) /\ Lacks(Body(a), "/")
<1>1. CASE isLikelyID(a)
  <2>1. Body(a) = <<":", "id">>
    BY <1>1 DEF Body
  <2>2. ":" \in Tokens /\ "id" \in Tokens
    BY DEF Tokens
  <2>3. <<":", "id">> \in Seq(Tokens) /\ Len(<<":", "id">>) = 2
    BY <2>2
  <2>4. <<":", "id">>[1] = ":" /\ <<":", "id">>[2] = "id"
    OBVIOUS
  <2> QED
    BY <2>1, <2>3, <2>4 DEF Lacks
<1>2. CASE ~ isLikelyID(a)
  <2>1. Body(a) = a.text
    BY <1>2 DEF Body
  <2>2. a.text \in Seq(Tokens)
    BY SegmentFields, SeqMonotonic DEF Tokens
  <2> QED
    BY <2>1, <2>2, SegmentFields DEF Lacks
<1> QED
  BY <1>1, <1>2

\* Segments are alike in a key when they read as IDs or have one text.
LEMMA SameBody ==
    ASSUME RequestTypes, NEW a \in Segments, NEW b \in Segments
    PROVE  Body(a) = Body(b) <=> (ReadsAsID(a) /\ ReadsAsID(b)) \/ a.text = b.text
<1>1. a.text = b.text => a = b
  BY DEF RequestTypes
<1> QED
  BY <1>1 DEF Body, ReadsAsID

\* The text of a path grows by a slash and the text of a segment at a time.
LEMMA PathGrows ==
    ASSUME RequestTypes, NEW path \in Seq(Segments)
    PROVE  \E f \in [0..Len(path) -> Seq(Tokens)] :
               /\ f[0] = << >>
               /\ \A i \in 1..Len(path) : f[i] = f[i - 1] \o <<"/">> \o Body(path[i])
               /\ \A i \in 1..Len(path) : f[i] # << >>
               /\ normalizePath(path) = f[Len(path)]
<1> DEFINE n == Len(path)
           Piece(i) == <<"/">> \o Body(path[i])
           pieces == [i \in 1..n |-> Piece(i)]
<1>1. n \in Nat /\ DOMAIN path = 1..n /\ \A i \in 1..n : path[i] \in Segments
  OBVIOUS
<1>2. <<"/">> \in Seq(Tokens)
  BY DEF Tokens
<1>3. \A i \in 1..n : Body(path[i]) \in Seq(Tokens)
  BY <1>1, BodyFits
<1>4. \A i \in 1..n : Piece(i) \in Seq(Tokens)
  BY <1>2, <1>3, ConcatProperties
<1>5. normalizePath(path) = FlattenSeq(pieces)
  <2>1. normalizePath(path) =
           FlattenSeq([i \in 1..n |-> <<"/">> \o IF isLikelyID(path[i]) THEN <<":", "id">>
                                                 ELSE path[i].text])
    BY <1>1 DEF normalizePath
  <2> QED
    BY <2>1 DEF Body
<1> HIDE DEF n, Piece
<1>6. pieces \in Seq(Seq(Tokens)) /\ Len(pieces) = n
  <2>1. pieces \in [1..n -> Seq(Tokens)]
    BY <1>4
  <2>2. pieces \in Seq(Seq(Tokens))
    BY <1>1, <2>1, SeqDef
  <2>3. DOMAIN pieces = 1..n /\ DOMAIN pieces = 1..Len(pieces) /\ Len(pieces) \in Nat
    BY <2>2, LenProperties
  <2> HIDE DEF pieces
  <2> QED
    BY <1>1, <2>2, <2>3
<1>7. \A i \in 1..n : pieces[i] = Piece(i)
  OBVIOUS
<1> HIDE DEF pieces
<1>8. PICK f \in [0..n -> Seq(Tokens)] :
          /\ f[0] = << >>
          /\ \A i \in 1..n : f[i] = f[i - 1] \o pieces[i]
          /\ FlattenSeq(pieces) = f[n]
  BY <1>6, Flattened
<1>9. ASSUME NEW i \in 1..n PROVE f[i] = f[i - 1] \o <<"/">> \o Body(path[i])
  <2>1. f[i - 1] \in Seq(Tokens)
    BY <1>1
  <2>2. f[i] = f[i - 1] \o (<<"/">> \o Body(path[i]))
    BY <1>7, <1>8 DEF Piece
  <2>3. PICK b \in Seq(Tokens), e \in Seq(Tokens), c \in Seq(Tokens) :
            b = f[i - 1] /\ e = <<"/">> /\ c = Body(path[i])
    BY <1>2, <1>3, <2>1
  <2>4. (b \o e) \o c = b \o (e \o c)
    BY ConcatAssociative
  <2> QED
    BY <2>2, <2>3, <2>4, Zenon
<1>10. ASSUME NEW i \in 1..n PROVE f[i] # << >>
  <2>1. f[i - 1] \in Seq(Tokens) /\ "/" \in Tokens
    BY <1>1 DEF Tokens
  <2>2. PICK b \in Seq(Tokens), c \in Seq(Tokens) : b = f[i - 1] /\ c = Body(path[i])
    BY <1>3, <2>1
  <2>3. Len(b \o <<"/">> \o c) = Len(b) + 1 + Len(c)
    BY <2>1, AroundSeparator
  <2>4. Len(b) \in Nat /\ Len(c) \in Nat /\ Len(<< >>) = 0
    OBVIOUS
  <2>5. f[i] = b \o <<"/">> \o c
    BY <1>9, <2>2
  <2>6. Len(f[i]) # 0
    BY <2>3, <2>4, <2>5
  <2> QED
    BY <2>4, <2>6
<1> QED
  BY <1>5, <1>8, <1>9, <1>10 DEF n

\* Paths with one text are of one route: the text can be cut at its last slash,
\* again and again.
LEMMA OneTextOneRoute ==
    ASSUME RequestTypes, NEW p \in Seq(Segments), NEW q \in Seq(Segments),
           normalizePath(p) = normalizePath(q)
    PROVE  SameRoute(p, q)
<1>1. PICK f \in [0..Len(p) -> Seq(Tokens)] :
          /\ f[0] = << >>
          /\ \A i \in 1..Len(p) : f[i] = f[i - 1] \o <<"/">> \o Body(p[i])
          /\ \A i \in 1..Len(p) : f[i] # << >>
          /\ normalizePath(p) = f[Len(p)]
  BY PathGrows
<1>2. PICK g \in [0..Len(q) -> Seq(Tokens)] :
          /\ g[0] = << >>
          /\ \A i \in 1..Len(q) : g[i] = g[i - 1] \o <<"/">> \o Body(q[i])
          /\ \A i \in 1..Len(q) : g[i] # << >>
          /\ normalizePath(q) = g[Len(q)]
  BY PathGrows
<1>3. /\ Len(p) \in Nat /\ Len(q) \in Nat /\ "/" \in Tokens
      /\ \A i \in 1..Len(p) : p[i] \in Segments
      /\ \A i \in 1..Len(q) : q[i] \in Segments
  BY DEF Tokens
<1>4. /\ \A i \in 1..Len(p) : i - 1 \in 0..Len(p)
      /\ \A j \in 1..Len(q) : j - 1 \in 0..Len(q)
  BY <1>3
<1>5. ASSUME NEW i \in 1..Len(p), NEW j \in 1..Len(q), f[i] = g[j]
      PROVE  f[i - 1] = g[j - 1] /\ Body(p[i]) = Body(q[j])
  <2>1. /\ f[i - 1] \in Seq(Tokens) /\ g[j - 1] \in Seq(Tokens)
        /\ p[i] \in Segments /\ q[j] \in Segments
    BY <1>3, <1>4
  <2>2. f[i - 1] \o <<"/">> \o Body(p[i]) = g[j - 1] \o <<"/">> \o Body(q[j])
    BY <1>1, <1>2, <1>5
  <2>3. /\ Body(p[i]) \in Seq(Tokens) /\ Body(q[j]) \in Seq(Tokens)
        /\ Lacks(Body(p[i]), "/") /\ Lacks(Body(q[j]), "/")
    BY <2>1, BodyFits
  <2>4. PICK x \in Seq(Tokens), y \in Seq(Tokens), v \in Seq(Tokens), w \in Seq(Tokens) :
            x = f[i - 1] /\ y = Body(p[i]) /\ v = g[j - 1] /\ w = Body(q[j])
    BY <2>1, <2>3
  <2>5. x \o <<"/">> \o y = v \o <<"/">> \o w
    BY <2>2, <2>4, Zenon
  <2>6. Lacks(y, "/") /\ Lacks(w, "/")
    BY <2>3, <2>4, Zenon
  <2>7. x = v /\ y = w
    BY <1>3, <2>5, <2>6, LastSeparator
  <2> QED
    BY <2>4, <2>7
<1> DEFINE Alike(m) == \A j \in 0..Len(q) : m <= Len(p) /\ f[m] = g[j] =>
                          m = j /\ \A k \in 1..m : Body(p[k]) = Body(q[k])
           S == {m \in Nat : Alike(m)}
<1>6. 0 \in S
  <2>1. ASSUME NEW j \in 0..Len(q), f[0] = g[j] PROVE 0 = j
    BY <1>1, <1>2, <1>3, <2>1
  <2>2. Alike(0)
    BY <2>1
  <2> HIDE DEF Alike
  <2> QED
    BY <2>2
<1>7. ASSUME NEW m \in Nat, m \in S
      PROVE  m + 1 \in S
  <2>1. Alike(m)
    <3> HIDE DEF Alike
    <3> QED
      BY <1>7
  <2>2. ASSUME NEW j \in 0..Len(q), m + 1 <= Len(p), f[m + 1] = g[j]
        PROVE  m + 1 = j /\ \A k \in 1..(m + 1) : Body(p[k]) = Body(q[k])
    <3>1. m + 1 \in 1..Len(p) /\ (m + 1) - 1 = m /\ m <= Len(p)
      BY <1>3, <2>2
    <3>2. j # 0
      BY <1>1, <1>2, <2>2, <3>1
    <3>3. j \in 1..Len(q) /\ j - 1 \in 0..Len(q)
      BY <1>3, <3>2
    <3>4. f[m] = g[j - 1] /\ Body(p[m + 1]) = Body(q[j])
      BY <1>5, <2>2, <3>1, <3>3
    <3>5. m = j - 1 /\ \A k \in 1..m : Body(p[k]) = Body(q[k])
      BY <2>1, <3>1, <3>3, <3>4
    <3>6. m + 1 = j
      BY <3>3, <3>5
    <3>7. \A k \in 1..(m + 1) : k \in 1..m \/ k = m + 1
      OBVIOUS
    <3> QED
      BY <3>4, <3>5, <3>6, <3>7
  <2>3. Alike(m + 1)
    BY <2>2
  <2> HIDE DEF Alike
  <2> QED
    BY <2>3
<1>8. Alike(Len(p))
  <2>1. Len(p) \in S
    <3> HIDE DEF S
    <3> QED
      BY <1>3, <1>6, <1>7, Inductive
  <2> HIDE DEF Alike
  <2> QED
    BY <2>1
<1>9. Len(p) = Len(q) /\ \A k \in 1..Len(p) : Body(p[k]) = Body(q[k])
  <2>1. f[Len(p)] = g[Len(q)]
    BY <1>1, <1>2, Zenon
  <2>2. Len(q) \in 0..Len(q) /\ Len(p) <= Len(p)
    BY <1>3
  <2> QED
    BY <1>8, <2>1, <2>2
<1>10. ASSUME NEW k \in 1..Len(p)
       PROVE  (ReadsAsID(p[k]) /\ ReadsAsID(q[k])) \/ p[k].text = q[k].text
  BY <1>3, <1>9, SameBody
<1>11. DOMAIN p = 1..Len(p)
  OBVIOUS
<1> QED
  BY <1>9, <1>10, <1>11 DEF SameRoute

\* And the paths of one route have one text.
LEMMA OneRouteOneText ==
    ASSUME RequestTypes, NEW p \in Seq(Segments), NEW q \in Seq(Segments),
           SameRoute(p, q)
    PROVE  normalizePath(p) = normalizePath(q)
<1>1. /\ Len(p) = Len(q) /\ DOMAIN p = 1..Len(p) /\ DOMAIN q = 1..Len(q)
      /\ \A i \in 1..Len(p) : p[i] \in Segments /\ q[i] \in Segments
  BY DEF SameRoute
<1>2. \A i \in DOMAIN p : (ReadsAsID(p[i]) /\ ReadsAsID(q[i])) \/ p[i].text = q[i].text
  BY DEF SameRoute
<1>3. ASSUME NEW i \in 1..Len(p) PROVE Body(p[i]) = Body(q[i])
  BY <1>1, <1>2, SameBody
<1>4. normalizePath(p) = FlattenSeq([i \in 1..Len(p) |-> <<"/">> \o Body(p[i])])
  BY <1>1 DEF normalizePath, Body
<1>5. normalizePath(q) = FlattenSeq([i \in 1..Len(p) |-> <<"/">> \o Body(q[i])])
  BY <1>1 DEF normalizePath, Body
<1>6. [i \in 1..Len(p) |-> <<"/">> \o Body(p[i])] = [i \in 1..Len(p) |-> <<"/">> \o Body(q[i])]
  BY <1>3
<1> QED
  BY <1>4, <1>5, <1>6, Zenon

\* A request as it is asked: its texts are over the tokens.
Ask == [method : Words, path : Seq(Segments), status : Words]
StatusOf(q) == <<q.status>>

LEMMA KeyForms ==
    ASSUME RequestTypes, NEW a \in Ask
    PROVE  /\ normalizePath(a.path) \in Seq(Tokens)
           /\ LatencyKey(a) \in Seq(Tokens)
           /\ LatencyKey(a) = <<a.method>> \o <<":">> \o normalizePath(a.path)
           /\ CounterKey(a) = LatencyKey(a) \o <<":">> \o <<a.status>>
           /\ CounterKey(a) =
                 <<a.method>> \o <<":">> \o (normalizePath(a.path) \o <<":">> \o <<a.status>>)
           /\ <<a.method>> \in Seq(Tokens) /\ <<a.status>> \in Seq(Tokens)
           /\ <<":">> \in Seq(Tokens) /\ ":" \in Tokens
           /\ a.method # ":" /\ a.status # ":"
<1> DEFINE path == normalizePath(a.path)
           colon == <<":">>
           method == <<a.method>>
           status == <<a.status>>
<1>1. /\ a.method \in Words /\ a.status \in Words /\ a.path \in Seq(Segments)
      /\ a.method # ":" /\ a.status # ":"
  BY DEF Ask, RequestTypes
<1>2. path \in Seq(Tokens)
  <2>1. PICK f \in [0..Len(a.path) -> Seq(Tokens)] : path = f[Len(a.path)]
    BY <1>1, PathGrows
  <2>2. Len(a.path) \in 0..Len(a.path)
    BY <1>1
  <2> QED
    BY <2>1, <2>2
<1>3. method \in Seq(Tokens) /\ status \in Seq(Tokens) /\ colon \in Seq(Tokens) /\ ":" \in Tokens
  BY <1>1 DEF Tokens
<1>4. <<a.method, ":">> = method \o colon /\ <<":", a.status>> = colon \o status
  OBVIOUS
<1>5. LatencyKey(a) = (method \o colon) \o path
  BY <1>4 DEF LatencyKey
<1>6. CounterKey(a) = LatencyKey(a) \o (colon \o status)
  BY <1>4 DEF CounterKey
<1> HIDE DEF path, colon, method, status
<1>7. method \o colon \in Seq(Tokens) /\ LatencyKey(a) \in Seq(Tokens)
  <2>1. method \o colon \in Seq(Tokens)
    BY <1>3, ConcatProperties
  <2> QED
    BY <1>2, <1>5, <2>1, ConcatProperties
<1>8. \A t, u, v \in Seq(Tokens) : (t \o u) \o v = t \o (u \o v)
  BY ConcatAssociative
<1>9. CounterKey(a) = (LatencyKey(a) \o colon) \o status
  BY <1>3, <1>6, <1>7, <1>8, Zenon
<1>10. CounterKey(a) = (method \o colon) \o ((path \o colon) \o status)
  <2>1. colon \o status \in Seq(Tokens)
    BY <1>3, ConcatProperties
  <2>2. CounterKey(a) = (method \o colon) \o (path \o (colon \o status))
    <3>1. ((method \o colon) \o path) \o (colon \o status)
             = (method \o colon) \o (path \o (colon \o status))
      BY <1>2, <1>7, <1>8, <2>1
    <3> QED
      BY <1>5, <1>6, <3>1, Zenon
  <2>3. path \o (colon \o status) = (path \o colon) \o status
    BY <1>2, <1>3, <1>8, Zenon
  <2> QED
    BY <2>2, <2>3, Zenon
<1> QED
  BY <1>1, <1>2, <1>3, <1>5, <1>7, <1>9, <1>10 DEF path, colon, method, status

\* Requests share a key of requests_total when they agree on method, route and
\* status, and only then.
LEMMA OneKeyOneLine ==
    ASSUME RequestTypes, NEW a \in Ask, NEW b \in Ask
    PROVE  CounterKey(a) = CounterKey(b) <=>
              /\ a.method = b.method
              /\ SameRoute(a.path, b.path)
              /\ a.status = b.status
<1>1. a.path \in Seq(Segments) /\ b.path \in Seq(Segments)
  BY DEF Ask
<1>2. ASSUME a.method = b.method, SameRoute(a.path, b.path), a.status = b.status
      PROVE  CounterKey(a) = CounterKey(b)
  <2>1. normalizePath(a.path) = normalizePath(b.path)
    BY <1>1, <1>2, OneRouteOneText
  <2> QED
    BY <1>2, <2>1 DEF CounterKey, LatencyKey
<1>3. ASSUME CounterKey(a) = CounterKey(b)
      PROVE  a.method = b.method /\ SameRoute(a.path, b.path) /\ a.status = b.status
  <2> DEFINE p == normalizePath(a.path)
             q == normalizePath(b.path)
             u == LatencyKey(a)
             v == LatencyKey(b)
             c == StatusOf(a)
             d == StatusOf(b)
  <2>1. /\ p \in Seq(Tokens) /\ q \in Seq(Tokens) /\ u \in Seq(Tokens) /\ v \in Seq(Tokens)
        /\ c \in Seq(Tokens) /\ d \in Seq(Tokens)
        /\ <<a.method>> \in Seq(Tokens) /\ <<b.method>> \in Seq(Tokens) /\ ":" \in Tokens
    BY KeyForms DEF StatusOf
  <2>2. u \o <<":">> \o c = v \o <<":">> \o d
    BY <1>3, KeyForms DEF StatusOf
  <2>3. Len(c) = 1 /\ c[1] = a.status /\ Len(d) = 1 /\ d[1] = b.status
    BY DEF StatusOf
  <2>4. Lacks(c, ":") /\ Lacks(d, ":")
    <3>1. a.status # ":" /\ b.status # ":"
      BY KeyForms
    <3> QED
      BY <2>3, <3>1 DEF Lacks
  <2>5. <<a.method>> \o <<":">> \o p = <<b.method>> \o <<":">> \o q /\ a.status = b.status
    <3>1. u = <<a.method>> \o <<":">> \o p /\ v = <<b.method>> \o <<":">> \o q
      BY KeyForms
    <3>2. u = v /\ c = d
      BY <2>1, <2>2, <2>4, LastSeparator
    <3> QED
      BY <2>3, <3>1, <3>2
  <2>6. a.method = b.method /\ p = q
    <3> DEFINE m == <<a.method>>
               n == <<b.method>>
    <3>1. Len(m) = 1 /\ Len(n) = 1 /\ m[1] = a.method /\ n[1] = b.method
      OBVIOUS
    <3>2. m \in Seq(Tokens) /\ n \in Seq(Tokens) /\ m \o <<":">> \o p = n \o <<":">> \o q
      BY <2>1, <2>5
    <3> HIDE DEF m, n, p, q
    <3>3. ASSUME NEW t \in Seq(Tokens), NEW z \in Seq(Tokens), Len(t) = 1
          PROVE  /\ Len(t \o <<":">> \o z) = 1 + 1 + Len(z)
                 /\ (t \o <<":">> \o z)[1] = t[1]
                 /\ \A i \in 1..Len(z) : (t \o <<":">> \o z)[1 + 1 + i] = z[i]
      <4> DEFINE w == t \o <<":">> \o z
      <4>1. /\ Len(w) = Len(t) + 1 + Len(z)
            /\ \A i \in 1..Len(t) : w[i] = t[i]
            /\ \A i \in 1..Len(z) : w[Len(t) + 1 + i] = z[i]
        <5>1. ":" \in Tokens
          BY <2>1
        <5> QED
          BY <5>1, AroundSeparator
      <4> HIDE DEF w
      <4>2. /\ Len(w) = 1 + 1 + Len(z) /\ w[1] = t[1]
            /\ \A i \in 1..Len(z) : w[1 + 1 + i] = z[i]
        BY <3>3, <4>1
      <4> QED
        BY <4>2 DEF w
    <3>4. PICK w : w = m \o <<":">> \o p
      OBVIOUS
    <3>5. /\ Len(w) = 1 + 1 + Len(p) /\ w[1] = m[1]
          /\ \A i \in 1..Len(p) : w[1 + 1 + i] = p[i]
      BY <2>1, <3>1, <3>2, <3>3, <3>4, Zenon
    <3>6. /\ Len(w) = 1 + 1 + Len(q) /\ w[1] = n[1]
          /\ \A i \in 1..Len(q) : w[1 + 1 + i] = q[i]
      <4>1. w = n \o <<":">> \o q
        BY <3>2, <3>4
      <4> QED
        BY <2>1, <3>1, <3>2, <3>3, <4>1, Zenon
    <3>7. Len(p) = Len(q)
      BY <2>1, <3>5, <3>6
    <3>8. \A i \in 1..Len(p) : p[i] = q[i]
      BY <3>5, <3>6, <3>7
    <3> QED
      BY <2>1, <3>1, <3>5, <3>6, <3>7, <3>8, SeqEqual
  <2>7. SameRoute(a.path, b.path)
    BY <1>1, <2>6, OneTextOneRoute
  <2> QED
    BY <2>5, <2>6, <2>7
<1> QED
  BY <1>2, <1>3

\* A text is cut at its first colon.
LEMMA CutAtColon ==
    ASSUME NEW x \in Seq(Tokens), NEW y \in Seq(Tokens),
           Lacks(x, ":")
    PROVE  Cut(x \o <<":">> \o y) = <<x, y>>
<1> DEFINE w == x \o <<":">> \o y
           colons == {i \in 1..Len(w) : w[i] = ":"}
<1>1. /\ w \in Seq(Tokens) /\ Len(w) = Len(x) + 1 + Len(y)
      /\ \A i \in 1..Len(x) : w[i] = x[i]
      /\ w[Len(x) + 1] = ":"
      /\ \A i \in 1..Len(y) : w[Len(x) + 1 + i] = y[i]
  <2>1. ":" \in Tokens
    BY DEF Tokens
  <2> QED
    BY <2>1, AroundSeparator
<1>2. FirstColon(w) = IF colons # {} THEN Min(colons) ELSE 0
  BY DEF FirstColon, SelectInSeq
<1>3. Cut(w) = <<SubSeq(w, 1, FirstColon(w) - 1), SubSeq(w, FirstColon(w) + 1, Len(w))>>
  BY DEF Cut
<1> HIDE DEF w
<1>4. Len(x) \in Nat /\ Len(y) \in Nat /\ Len(w) \in Nat
  BY <1>1
<1>5. Len(x) + 1 \in colons
  BY <1>1, <1>4
<1>6. ASSUME NEW i \in colons PROVE i \in Int /\ Len(x) + 1 <= i
  <2>1. i \in 1..Len(w) /\ w[i] = ":"
    OBVIOUS
  <2>2. i \in 1..Len(x) => x[i] = ":"
    BY <1>1, <2>1
  <2>3. i \notin 1..Len(x)
    BY <2>2 DEF Lacks
  <2> QED
    BY <1>4, <2>1, <2>3
<1>7. Min(colons) = Len(x) + 1
  <2> HIDE DEF colons
  <2> QED
    BY <1>4, <1>5, <1>6 DEF Min
<1>8. FirstColon(w) = Len(x) + 1
  BY <1>2, <1>5, <1>7
<1> HIDE DEF colons
<1>9. SubSeq(w, 1, Len(x)) = x
  <2> DEFINE s == SubSeq(w, 1, Len(x))
  <2>1. \A i \in 1..Len(x) : w[i] \in Tokens
    BY <1>1, <1>4, ElementOfSeq
  <2>2. /\ s \in Seq(Tokens) /\ Len(s) = Len(x)
        /\ \A i \in 1..Len(x) : s[i] = w[i]
    BY <1>1, <1>4
  <2> HIDE DEF s
  <2>3. \A i \in 1..Len(x) : s[i] = x[i]
    BY <1>1, <2>2
  <2> QED
    BY <2>2, <2>3, SeqEqual DEF s
<1>10. SubSeq(w, Len(x) + 2, Len(w)) = y
  <2> DEFINE s == SubSeq(w, Len(x) + 2, Len(w))
  <2>1. /\ s \in Seq(Tokens) /\ Len(s) = Len(y)
        /\ \A i \in 1..Len(y) : s[i] = w[Len(x) + 1 + i]
    BY <1>1, <1>4
  <2> HIDE DEF s
  <2>2. \A i \in 1..Len(y) : s[i] = y[i]
    BY <1>1, <2>1
  <2> QED
    BY <2>1, <2>2, SeqEqual DEF s
<1>11. FirstColon(w) - 1 = Len(x) /\ FirstColon(w) + 1 = Len(x) + 2
  BY <1>4, <1>8
<1> QED
  BY <1>3, <1>9, <1>10, <1>11 DEF w

\* A plain path has no colon in its text.
LEMMA PlainLacksColon ==
    ASSUME RequestTypes, NEW path \in Seq(Segments), Plain(path)
    PROVE  Lacks(normalizePath(path), ":")
<1>1. PICK f \in [0..Len(path) -> Seq(Tokens)] :
          /\ f[0] = << >>
          /\ \A i \in 1..Len(path) : f[i] = f[i - 1] \o <<"/">> \o Body(path[i])
          /\ normalizePath(path) = f[Len(path)]
  BY PathGrows
<1>2. /\ Len(path) \in Nat /\ DOMAIN path = 1..Len(path) /\ "/" \in Tokens
      /\ \A i \in 1..Len(path) : path[i] \in Segments
  BY DEF Tokens
<1>3. ASSUME NEW i \in 1..Len(path)
      PROVE  Body(path[i]) \in Seq(Tokens) /\ Lacks(Body(path[i]), ":")
  <2>1. Body(path[i]) = path[i].text /\ ":" \notin Range(path[i].text)
    BY <1>2 DEF Plain, Body
  <2>2. \A k \in 1..Len(path[i].text) : path[i].text[k] # ":"
    BY <1>2, <2>1, SegmentFields DEF Range
  <2> QED
    BY <1>2, <2>1, <2>2, BodyFits DEF Lacks
<1> DEFINE Free(m) == m <= Len(path) => Lacks(f[m], ":")
           S == {m \in Nat : Free(m)}
<1>4. 0 \in S
  <2>1. Lacks(<< >>, ":")
    BY DEF Lacks
  <2> QED
    BY <1>1, <2>1
<1>5. ASSUME NEW m \in Nat, m \in S
      PROVE  m + 1 \in S
  <2>1. ASSUME m + 1 <= Len(path) PROVE Lacks(f[m + 1], ":")
    <3>1. m + 1 \in 1..Len(path) /\ (m + 1) - 1 = m /\ m \in 0..Len(path) /\ m <= Len(path)
      BY <1>2, <2>1
    <3>2. PICK x \in Seq(Tokens), y \in Seq(Tokens) : x = f[m] /\ y = Body(path[m + 1])
      BY <1>3, <3>1
    <3>3. f[m + 1] = x \o <<"/">> \o y
      BY <1>1, <3>1, <3>2
    <3>4. Lacks(x, ":") /\ Lacks(y, ":")
      BY <1>3, <1>5, <3>1, <3>2
    <3> DEFINE w == x \o <<"/">> \o y
    <3>5. /\ Len(w) = Len(x) + 1 + Len(y)
          /\ \A i \in 1..Len(x) : w[i] = x[i]
          /\ w[Len(x) + 1] = "/"
          /\ \A i \in 1..Len(y) : w[Len(x) + 1 + i] = y[i]
      BY <1>2, AroundSeparator
    <3> HIDE DEF w
    <3>6. Len(x) \in Nat /\ Len(y) \in Nat
      OBVIOUS
    <3>7. ASSUME NEW i \in 1..Len(w) PROVE w[i] # ":"
      <4>1. CASE i \in 1..Len(x)
        BY <3>4, <3>5, <4>1 DEF Lacks
      <4>2. CASE i = Len(x) + 1
        BY <3>5, <4>2
      <4>3. CASE i > Len(x) + 1
        <5>1. PICK k \in 1..Len(y) : k = i - (Len(x) + 1)
          <6>1. i - (Len(x) + 1) \in 1..Len(y)
            BY <3>5, <3>6, <4>3
          <6> QED
            BY <6>1, Zenon
        <5>2. i = Len(x) + 1 + k
          BY <3>6, <5>1
        <5>3. w[i] = y[k]
          BY <3>5, <5>2
        <5> QED
          BY <3>4, <5>3 DEF Lacks
      <4> QED
        BY <3>5, <3>6, <4>1, <4>2, <4>3
    <3> QED
      BY <3>3, <3>7 DEF Lacks, w
  <2>2. Free(m + 1)
    BY <2>1
  <2> HIDE DEF Free
  <2> QED
    BY <2>2
<1>6. Free(Len(path))
  <2>1. Len(path) \in S
    <3> HIDE DEF S
    <3> QED
      BY <1>2, <1>4, <1>5, Inductive
  <2> HIDE DEF Free
  <2> QED
    BY <2>1
<1>7. Len(path) <= Len(path)
  BY <1>2
<1> QED
  BY <1>1, <1>6, <1>7

\* A scrape reads method, path and status from the key of a plain request.
LEMMA PlainLabels ==
    ASSUME RequestTypes, NEW a \in Ask, Plain(a.path)
    PROVE  Labels(CounterKey(a)) = <<<<a.method>>, normalizePath(a.path), <<a.status>>>>
<1> DEFINE path == normalizePath(a.path)
           method == <<a.method>>
           status == StatusOf(a)
           rest == path \o <<":">> \o status
<1>1. /\ path \in Seq(Tokens) /\ method \in Seq(Tokens) /\ status \in Seq(Tokens)
      /\ CounterKey(a) = method \o <<":">> \o rest
      /\ ":" \in Tokens /\ a.method # ":"
  BY KeyForms DEF StatusOf
<1>2. Lacks(method, ":")
  <2>1. Len(method) = 1 /\ method[1] = a.method
    OBVIOUS
  <2> QED
    BY <1>1, <2>1 DEF Lacks
<1>3. Lacks(path, ":")
  BY PlainLacksColon DEF Ask
<1> HIDE DEF path, method, status
<1>4. rest \in Seq(Tokens)
  BY <1>1, AroundSeparator
<1>5. Cut(rest) = <<path, status>>
  BY <1>1, <1>3, CutAtColon
<1> HIDE DEF rest
<1>6. Cut(CounterKey(a)) = <<method, rest>>
  <2>1. Cut(method \o <<":">> \o rest) = <<method, rest>>
    BY <1>1, <1>2, <1>4, CutAtColon
  <2> QED
    BY <1>1, <2>1
<1>7. Labels(CounterKey(a)) = <<method, path, status>>
  BY <1>5, <1>6 DEF Labels
<1> QED
  BY <1>7 DEF path, method, status, StatusOf

\* What a scrape prints for requests_total, for any requests whose method and
\* status have no colon or slash, and any paths: under each line exactly the
\* requests that agree with it on method, route and status, at every moment; and
\* their names read back right when the path has no colon (RecordRequest,
\* normalizePath and the scrape of handler.go).
THEOREM ScrapedLinesMeanRequests ==
    ASSUME RequestTypes, KeysOfRequests,
           \A r \in Requests : Amount[requestsTotal][r] = 1
    PROVE  Spec => []LinesMeanRequests
<1>1. ASSUME IInv, Tallied, NEW r \in Counted
      PROVE  LET alike == {q \in Counted :
                             /\ Asked[q].method = Asked[r].method
                             /\ SameRoute(Asked[q].path, Asked[r].path)
                             /\ Asked[q].status = Asked[r].status}
             IN  /\ value[table[requestsTotal][Key[requestsTotal][r]]] = Cardinality(alike)
                 /\ Plain(Asked[r].path) => Printed(r) = Names(r)
  <2> DEFINE key == Key[requestsTotal][r]
             alike == {q \in Counted :
                         /\ Asked[q].method = Asked[r].method
                         /\ SameRoute(Asked[q].path, Asked[r].path)
                         /\ Asked[q].status = Asked[r].status}
  <2>1. r \in Requests /\ stage[r] > requestsTotal
    BY <1>1 DEF Counted
  <2>2. requestsTotal \in Series
    BY DEF requestsTotal, Series
  <2>3. ASSUME NEW q \in Requests
        PROVE  Key[requestsTotal][q] = key <=>
                  /\ Asked[q].method = Asked[r].method
                  /\ SameRoute(Asked[q].path, Asked[r].path)
                  /\ Asked[q].status = Asked[r].status
    <3>1. Asked[q] \in Ask /\ Asked[r] \in Ask
      BY <2>1 DEF RequestTypes, Ask
    <3>2. CounterKey(Asked[q]) = CounterKey(Asked[r]) <=>
             /\ Asked[q].method = Asked[r].method
             /\ SameRoute(Asked[q].path, Asked[r].path)
             /\ Asked[q].status = Asked[r].status
      BY <3>1, OneKeyOneLine
    <3>3. Key[requestsTotal][q] \in Keys /\ key \in Keys
      BY <2>1, <2>2, LabelSets
    <3>4. /\ Text[requestsTotal][Key[requestsTotal][q]] = CounterKey(Asked[q])
          /\ Text[requestsTotal][key] = CounterKey(Asked[r])
      BY <2>1 DEF KeysOfRequests
    <3>5. Text[requestsTotal][Key[requestsTotal][q]] = Text[requestsTotal][key]
             => Key[requestsTotal][q] = key
      BY <2>2, <3>3 DEF KeysOfRequests
    <3> HIDE DEF key
    <3> QED
      BY <3>2, <3>4, <3>5, Zenon
  <2>4. CountedUnder(key) = alike
    <3>1. CountedUnder(key) = {q \in Counted : Key[requestsTotal][q] = key}
      BY DEF CountedUnder, Counted
    <3>2. Counted \subseteq Requests
      BY DEF Counted
    <3> HIDE DEF key
    <3> QED
      BY <2>3, <3>1, <3>2, Zenon
  <2>5. key \in Keys
    BY <2>1, <2>2, LabelSets
  <2>6. /\ IsFiniteSet(CountedUnder(key))
        /\ totals[requestsTotal][key] = Cardinality(CountedUnder(key))
        /\ r \in CountedUnder(key)
    BY <1>1, <2>1, <2>5 DEF Tallied, CountedUnder
  <2>7. totals[requestsTotal][key] # 0
    <3>1. CountedUnder(key) # {}
      BY <2>6
    <3> QED
      BY <2>6, <3>1, FS_EmptySet
  <2>8. totals[requestsTotal][key] = value[table[requestsTotal][key]]
    BY <2>2, <2>5, <2>7 DEF totals
  <2>9. value[table[requestsTotal][key]] = Cardinality(alike)
    BY <2>4, <2>6, <2>8
  <2>10. ASSUME Plain(Asked[r].path)
         PROVE  Printed(r) = Names(r)
    <3>1. Asked[r] \in Ask
      BY <2>1 DEF RequestTypes, Ask
    <3>2. Text[requestsTotal][key] = CounterKey(Asked[r])
      BY <2>1 DEF KeysOfRequests
    <3> QED
      BY <2>10, <3>1, <3>2, PlainLabels DEF Printed, Names
  <2> QED
    BY <2>9, <2>10
<1>2. IInv /\ Tallied => LinesMeanRequests
  BY <1>1 DEF LinesMeanRequests
<1> QED
  BY <1>2, Invariance, TotalsAreRequests, PTL
=============================================================================
