-------------------------- MODULE Limiters_proofs ---------------------------
(***************************************************************************)
(* Theorems about the token bucket and the fixed window, for any capacity, *)
(* rate, limit, window, number of clients and of calls: the bucket grants  *)
(* exactly what its budget permits, and a burst over two fixed windows     *)
(* stays below twice the limit.                                            *)
(***************************************************************************)
EXTENDS Limiters, FiniteSetTheorems, TLAPS

-----------------------------------------------------------------------------
(* The token bucket: tokens paid and tokens that flow in.                   *)

Full == Capacity * Unit
Cost(calls) == calls * Unit
Flow(ticks) == Rate * ticks

LEMMA Amounts ==
    /\ Full \in Nat /\ Unit \in Nat \ {0}
    /\ Cost(1) = Unit /\ Flow(0) = 0
    /\ \A k \in Nat : Cost(k) \in Nat /\ Cost(k + 1) = Cost(k) + Unit
    /\ \A t \in Nat : Flow(t) \in Nat
    /\ \A s, t \in Nat : Flow(s + t) = Flow(s) + Flow(t)
<1> USE BucketTypes DEF Full, Cost, Flow
<1>1. Full \in Nat /\ Unit \in Nat \ {0} /\ Cost(1) = Unit /\ Flow(0) = 0
  OBVIOUS
<1>2. \A k \in Nat : Cost(k) \in Nat /\ Cost(k + 1) = Cost(k) + Unit
  OBVIOUS
<1>3. \A t \in Nat : Flow(t) \in Nat
  OBVIOUS
<1>4. \A s, t \in Nat : Flow(s + t) = Flow(s) + Flow(t)
  OBVIOUS
<1> QED
  BY <1>1, <1>2, <1>3, <1>4

\* With `tokens' in the bucket at time `now', the calls granted from the i-th on
\* have cost no more than a full bucket and what flowed in since the i-th.
Covered(times, tokens, now) ==
    \A i \in 1..Len(times) :
        Cost(Len(times) - i + 1) + tokens <= Full + Flow(now - times[i])

\* Nothing was lost since the bucket was last full: it is, or since one of the
\* calls every unit that flowed in was kept or paid for a call.
Lossless(times, tokens, now) ==
    \/ tokens = Full
    \/ \E i \in 1..Len(times) :
          Cost(Len(times) - i + 1) + tokens = Full + Flow(now - times[i])

\* A bucket's content, and the calls it has granted.
BucketFits(c) ==
    IF buckets[c] = NoBucket THEN granted[c] = << >>
    ELSE /\ buckets[c] \in [tokens : 0..Full, lastRefill : 0..clock]
         /\ \A i \in 1..Len(granted[c]) : granted[c][i] <= buckets[c].lastRefill
         /\ Covered(granted[c], buckets[c].tokens, buckets[c].lastRefill)
         /\ Lossless(granted[c], buckets[c].tokens, buckets[c].lastRefill)

BucketInv ==
    /\ clock \in Nat
    /\ BucketTypeOK
    /\ BudgetKept
    /\ \A c \in Clients : BucketFits(c)

\* What flows in is added, up to a full bucket: the calls granted stay covered,
\* and nothing is lost.
LEMMA RefillBalance ==
    ASSUME NEW times \in Seq(Nat), NEW tokens \in Nat, NEW last \in Nat, NEW now \in Nat,
           last <= now, \A i \in 1..Len(times) : times[i] <= last,
           Covered(times, tokens, last), Lossless(times, tokens, last),
           NEW refilled,
           refilled = IF tokens + Flow(now - last) > Full THEN Full
                      ELSE tokens + Flow(now - last)
    PROVE  /\ refilled \in 0..Full
           /\ Covered(times, refilled, now)
           /\ Lossless(times, refilled, now)
<1> DEFINE flown == Flow(now - last)
<1>1. now - last \in Nat
  OBVIOUS
<1>2. flown \in Nat /\ Full \in Nat
  BY <1>1, Amounts
<1> DEFINE paid(i) == Cost(Len(times) - i + 1)
           since(i) == Flow(last - times[i])
<1>3. ASSUME NEW i \in 1..Len(times)
      PROVE  /\ Flow(now - times[i]) = flown + since(i)
             /\ since(i) \in Nat /\ paid(i) \in Nat
  <2>1. times[i] \in Nat /\ times[i] <= last
    OBVIOUS
  <2>2. last - times[i] \in Nat /\ now - times[i] = (now - last) + (last - times[i])
    BY <2>1
  <2>3. Len(times) - i + 1 \in Nat
    OBVIOUS
  <2>4. Flow((now - last) + (last - times[i])) = Flow(now - last) + Flow(last - times[i])
    <3> DEFINE d == now - last  e == last - times[i]
    <3>1. d \in Nat /\ e \in Nat
      BY <1>1, <2>2
    <3> HIDE DEF d, e
    <3>2. Flow(d + e) = Flow(d) + Flow(e)
      BY <3>1, Amounts
    <3> QED
      BY <3>2 DEF d, e
  <2>5. Flow(last - times[i]) \in Nat
    BY <2>2, Amounts
  <2>6. Cost(Len(times) - i + 1) \in Nat
    BY <2>3, Amounts
  <2>7. Flow(now - times[i]) = Flow(now - last) + Flow(last - times[i])
    BY <2>2, <2>4
  <2> QED
    BY <2>5, <2>6, <2>7
<1>4. \A i \in 1..Len(times) : paid(i) + tokens <= Full + since(i)
  BY DEF Covered
<1>5. \/ tokens = Full
      \/ \E i \in 1..Len(times) : paid(i) + tokens = Full + since(i)
  BY DEF Lossless
<1>6. /\ Covered(times, refilled, now)
         <=> \A i \in 1..Len(times) : paid(i) + refilled <= Full + Flow(now - times[i])
      /\ Lossless(times, refilled, now)
         <=> \/ refilled = Full
             \/ \E i \in 1..Len(times) : paid(i) + refilled = Full + Flow(now - times[i])
  BY DEF Covered, Lossless
<1>7. refilled = IF tokens + flown > Full THEN Full ELSE tokens + flown
  OBVIOUS
<1> HIDE DEF flown, paid, since
<1>8. refilled \in 0..Full /\ refilled <= tokens + flown
  BY <1>2, <1>7
<1>9. ASSUME NEW i \in 1..Len(times)
      PROVE  paid(i) + refilled <= Full + Flow(now - times[i])
  <2>1. paid(i) + tokens <= Full + since(i) /\ since(i) \in Nat /\ paid(i) \in Nat
    BY <1>3, <1>4
  <2>2. Flow(now - times[i]) = flown + since(i)
    BY <1>3
  <2>3. refilled \in Nat
    BY <1>2, <1>8
  <2>4. \A p, s, f, r \in Nat : p + tokens <= Full + s /\ r <= tokens + f
                                => p + r <= Full + (f + s)
    BY <1>2
  <2> QED
    BY <1>2, <1>8, <2>1, <2>2, <2>3, <2>4
<1>10. \/ refilled = Full
       \/ \E i \in 1..Len(times) : paid(i) + refilled = Full + Flow(now - times[i])
  <2>1. CASE tokens + flown > Full \/ tokens = Full
    BY <1>2, <1>7, <2>1
  <2>2. CASE ~ (tokens + flown > Full) /\ tokens # Full
    <3>1. PICK i \in 1..Len(times) : paid(i) + tokens = Full + since(i)
      BY <1>5, <2>2
    <3>2. since(i) \in Nat /\ paid(i) \in Nat /\ Flow(now - times[i]) = flown + since(i)
      BY <1>3
    <3>3. refilled = tokens + flown
      BY <1>7, <2>2
    <3>4. paid(i) + refilled = Full + Flow(now - times[i])
      <4>1. PICK p \in Nat, s \in Nat : p = paid(i) /\ s = since(i)
        BY <3>2
      <4>2. p + tokens = Full + s
        BY <3>1, <4>1
      <4>3. p + (tokens + flown) = Full + (flown + s)
        BY <1>2, <4>2
      <4>4. Flow(now - times[i]) = flown + s
        BY <3>2, <4>1
      <4> QED
        BY <3>3, <4>1, <4>3, <4>4
    <3> QED
      BY <3>4
  <2> QED
    BY <2>1, <2>2
<1> QED
  BY <1>6, <1>8, <1>9, <1>10

LEMMA RefillKeepsBalance ==
    ASSUME BucketInv, NEW c \in Clients
    PROVE  /\ Refilled(c) \in 0..Full
           /\ Covered(granted[c], Refilled(c), clock)
           /\ Lossless(granted[c], Refilled(c), clock)
<1>1. granted[c] \in Seq(0..clock) /\ clock \in Nat
  BY DEF BucketInv, BucketTypeOK
<1>2. CASE buckets[c] = NoBucket
  <2>1. granted[c] = << >> /\ Refilled(c) = Full
    BY <1>2 DEF BucketInv, BucketFits, Refilled, Full
  <2> QED
    BY <2>1, Amounts DEF Covered, Lossless
<1>3. CASE buckets[c] # NoBucket
  <2>1. /\ buckets[c].tokens \in 0..Full /\ buckets[c].lastRefill \in 0..clock
        /\ \A i \in 1..Len(granted[c]) : granted[c][i] <= buckets[c].lastRefill
        /\ Covered(granted[c], buckets[c].tokens, buckets[c].lastRefill)
        /\ Lossless(granted[c], buckets[c].tokens, buckets[c].lastRefill)
    BY <1>1, <1>3 DEF BucketInv, BucketFits
  <2>2. /\ buckets[c].tokens \in Nat /\ buckets[c].lastRefill \in Nat
        /\ buckets[c].lastRefill <= clock /\ granted[c] \in Seq(Nat)
    <3>1. granted[c] \in Seq(Nat)
      BY <1>1
    <3>2. Full \in Nat
      BY Amounts
    <3> QED
      BY <1>1, <2>1, <3>1, <3>2
  <2>3. (clock - buckets[c].lastRefill) * Rate = Rate * (clock - buckets[c].lastRefill)
    BY <1>1, <2>2, BucketTypes
  <2>4. Refilled(c) = IF buckets[c].tokens + Flow(clock - buckets[c].lastRefill) > Full
                      THEN Full
                      ELSE buckets[c].tokens + Flow(clock - buckets[c].lastRefill)
    BY <1>3, <2>3 DEF Refilled, Flow, Full
  <2> QED
    BY <1>1, <2>1, <2>2, <2>4, RefillBalance
<1> QED
  BY <1>2, <1>3

\* The bucket's budget, in the terms of this module.
LEMMA BudgetReads ==
    ASSUME NEW times
    PROVE  WithinBudget(times)
             <=> \A i, j \in 1..Len(times) : i <= j =>
                    Cost(j - i + 1) <= Full + Flow(times[j] - times[i])
BY DEF WithinBudget, Cost, Full, Flow

\* With one call more, what the calls from the i-th on cost.
LEMMA OneMore ==
    ASSUME NEW times \in Seq(Nat), NEW now \in Nat
    PROVE  /\ Append(times, now) \in Seq(Nat)
           /\ Len(Append(times, now)) = Len(times) + 1
           /\ Append(times, now)[Len(times) + 1] = now
           /\ Cost((Len(times) + 1) - (Len(times) + 1) + 1) = Unit
           /\ Flow(now - now) = 0
           /\ \A i \in 1..Len(times) :
                 /\ Append(times, now)[i] = times[i]
                 /\ Cost(Len(times) - i + 1) \in Nat
                 /\ Cost((Len(times) + 1) - i + 1) = Cost(Len(times) - i + 1) + Unit
<1>1. /\ Append(times, now) \in Seq(Nat)
      /\ Len(Append(times, now)) = Len(times) + 1
      /\ Append(times, now)[Len(times) + 1] = now
      /\ \A i \in 1..Len(times) : Append(times, now)[i] = times[i]
  OBVIOUS
<1>2. (Len(times) + 1) - (Len(times) + 1) + 1 = 1 /\ now - now = 0
  OBVIOUS
<1>3. Cost((Len(times) + 1) - (Len(times) + 1) + 1) = Unit /\ Flow(now - now) = 0
  BY <1>2, Amounts
<1>4. ASSUME NEW i \in 1..Len(times)
      PROVE  /\ Cost(Len(times) - i + 1) \in Nat
             /\ Cost((Len(times) + 1) - i + 1) = Cost(Len(times) - i + 1) + Unit
  <2>1. Len(times) - i + 1 \in Nat /\ (Len(times) + 1) - i + 1 = (Len(times) - i + 1) + 1
    OBVIOUS
  <2> QED
    BY <2>1, Amounts
<1> QED
  BY <1>1, <1>3, <1>4

\* A call that is granted and pays for it keeps the balance and the budget.
LEMMA GrantKeepsBalance ==
    ASSUME NEW times \in Seq(Nat), NEW now \in Nat, NEW tokens \in 0..Full,
           tokens >= Unit,
           Covered(times, tokens, now), Lossless(times, tokens, now)
    PROVE  /\ Covered(Append(times, now), tokens - Unit, now)
           /\ Lossless(Append(times, now), tokens - Unit, now)
           /\ WithinBudget(times) => WithinBudget(Append(times, now))
<1> DEFINE new == Append(times, now)
           n == Len(times) + 1
<1>1. Full \in Nat /\ Unit \in Nat /\ tokens \in Nat /\ tokens <= Full
  BY Amounts
<1>2. /\ new \in Seq(Nat) /\ Len(new) = n /\ n \in Nat /\ n \in 1..n
      /\ new[n] = now /\ Cost(n - n + 1) = Unit /\ Flow(now - now) = 0
      /\ 1..n = 1..Len(times) \cup {n}
  BY OneMore
<1>3. \A i \in 1..Len(times) :
         /\ new[i] = times[i]
         /\ Cost(Len(times) - i + 1) \in Nat
         /\ Cost(n - i + 1) = Cost(Len(times) - i + 1) + Unit
  BY OneMore
<1> HIDE DEF new, n
<1>4. Covered(new, tokens - Unit, now)
  <2>1. ASSUME NEW i \in 1..Len(times)
        PROVE  Cost(n - i + 1) + (tokens - Unit) <= Full + Flow(now - new[i])
    <3>1. Cost(Len(times) - i + 1) + tokens <= Full + Flow(now - times[i])
      BY DEF Covered
    <3>2. \A p \in Nat : (p + Unit) + (tokens - Unit) = p + tokens
      BY <1>1
    <3> QED
      BY <1>3, <3>1, <3>2
  <2>2. Cost(n - n + 1) + (tokens - Unit) <= Full + Flow(now - new[n])
    BY <1>1, <1>2
  <2> QED
    BY <1>2, <2>1, <2>2 DEF Covered
<1>5. Lossless(new, tokens - Unit, now)
  <2>1. CASE tokens = Full
    <3>1. Cost(n - n + 1) + (tokens - Unit) = Full + Flow(now - new[n])
      BY <1>1, <1>2, <2>1
    <3> QED
      BY <1>2, <3>1 DEF Lossless
  <2>2. CASE \E i \in 1..Len(times) :
                Cost(Len(times) - i + 1) + tokens = Full + Flow(now - times[i])
    <3>1. PICK i \in 1..Len(times) :
                Cost(Len(times) - i + 1) + tokens = Full + Flow(now - times[i])
      BY <2>2
    <3>2. \A p \in Nat : (p + Unit) + (tokens - Unit) = p + tokens
      BY <1>1
    <3>3. Cost(n - i + 1) + (tokens - Unit) = Full + Flow(now - new[i])
      BY <1>3, <3>1, <3>2
    <3> QED
      BY <1>2, <3>3 DEF Lossless
  <2> QED
    BY <2>1, <2>2 DEF Lossless
<1>6. ASSUME WithinBudget(times)
      PROVE  WithinBudget(new)
  <2> SUFFICES ASSUME NEW i \in 1..n, NEW j \in 1..n, i <= j
               PROVE  Cost(j - i + 1) <= Full + Flow(new[j] - new[i])
    BY <1>2, BudgetReads
  <2>1. CASE j \in 1..Len(times)
    <3>1. i \in 1..Len(times)
      BY <2>1, <1>2
    <3>2. Cost(j - i + 1) <= Full + Flow(times[j] - times[i])
      BY <1>6, <2>1, <3>1, BudgetReads
    <3> QED
      BY <1>3, <2>1, <3>1, <3>2
  <2>2. CASE j = n
    <3>1. Cost(n - i + 1) + (tokens - Unit) <= Full + Flow(now - new[i])
      BY <1>2, <1>4 DEF Covered
    <3>2. tokens - Unit \in Nat /\ Cost(n - i + 1) \in Nat
      <4>1. CASE i = n
        BY <1>1, <1>2, <4>1
      <4>2. CASE i \in 1..Len(times)
        <5>1. \A p \in Nat : p + Unit \in Nat
          BY <1>1
        <5> QED
          BY <1>1, <1>3, <4>2, <5>1
      <4> QED
        BY <1>2, <4>1, <4>2
    <3>3. now - new[i] \in Int
      <4>1. new[i] \in Nat
        BY <1>2
      <4> QED
        BY <4>1
    <3>4. Flow(now - new[i]) \in Int
      BY <3>3, BucketTypes DEF Flow
    <3> QED
      BY <1>1, <1>2, <2>2, <3>1, <3>2, <3>4
  <2> QED
    BY <1>2, <2>1, <2>2
<1> QED
  BY <1>4, <1>5, <1>6 DEF new

\* A call that finds no token would have broken the budget.
LEMMA DenialIsDue ==
    ASSUME NEW times \in Seq(Nat), NEW now \in Nat, NEW tokens \in 0..Full,
           tokens < Unit, Lossless(times, tokens, now)
    PROVE  ~ WithinBudget(Append(times, now))
<1> DEFINE new == Append(times, now)
           n == Len(times) + 1
<1>1. Full \in Nat /\ Unit \in Nat /\ tokens \in Nat
  BY Amounts
<1>2. /\ Len(new) = n /\ n \in Nat /\ n \in 1..n
      /\ new[n] = now /\ Cost(n - n + 1) = Unit /\ Flow(now - now) = 0
      /\ \A i \in 1..Len(times) : i \in 1..n /\ i <= n
  BY OneMore
<1>3. \A i \in 1..Len(times) :
         /\ new[i] = times[i]
         /\ Cost(Len(times) - i + 1) \in Nat
         /\ Cost(n - i + 1) = Cost(Len(times) - i + 1) + Unit
  BY OneMore
<1> HIDE DEF new, n
<1> SUFFICES ASSUME WithinBudget(new) PROVE FALSE
  BY DEF new
<1>4. \A i \in 1..n : i <= n => Cost(n - i + 1) <= Full + Flow(now - new[i])
  BY <1>2, BudgetReads
<1>5. CASE tokens = Full
  BY <1>1, <1>2, <1>4, <1>5
<1>6. CASE \E i \in 1..Len(times) :
              Cost(Len(times) - i + 1) + tokens = Full + Flow(now - times[i])
  <2>1. PICK i \in 1..Len(times) :
              Cost(Len(times) - i + 1) + tokens = Full + Flow(now - times[i])
    BY <1>6
  <2>2. Cost(n - i + 1) <= Full + Flow(now - times[i])
    BY <1>2, <1>3, <1>4
  <2>3. PICK p \in Nat : p = Cost(Len(times) - i + 1)
    BY <1>3
  <2>4. p + Unit <= p + tokens
    BY <1>3, <2>1, <2>2, <2>3
  <2> QED
    BY <1>1, <2>3, <2>4
<1> QED
  BY <1>5, <1>6 DEF Lossless

-----------------------------------------------------------------------------
(* The steps keep the invariant of the bucket.                              *)

LEMMA InitFillsBuckets ==
    ASSUME Init
    PROVE  BucketInv
<1>1. /\ clock = 0 /\ buckets = [c \in Clients |-> NoBucket]
      /\ granted = [c \in Clients |-> << >>]
  BY DEF Init, ClockInit, BucketInit
<1>2. BucketTypeOK
  BY <1>1 DEF BucketTypeOK
<1>3. BudgetKept
  BY <1>1 DEF BudgetKept, WithinBudget
<1>4. \A c \in Clients : BucketFits(c)
  BY <1>1 DEF BucketFits
<1> QED
  BY <1>1, <1>2, <1>3, <1>4 DEF BucketInv

\* What Allow leaves for its client.
LEMMA AllowBalances ==
    ASSUME BucketInv, NEW c \in Clients, Allow(c)
    PROVE  /\ buckets'[c] \in [tokens : 0..Full, lastRefill : {clock}]
           /\ granted'[c] \in Seq(0..clock)
           /\ WithinBudget(granted'[c])
           /\ Covered(granted'[c], buckets'[c].tokens, clock)
           /\ Lossless(granted'[c], buckets'[c].tokens, clock)
           /\ granted'[c] = granted[c] => ~ WithinBudget(Append(granted[c], clock))
           /\ \A d \in Clients \ {c} : buckets'[d] = buckets[d] /\ granted'[d] = granted[d]
           /\ DOMAIN buckets' = Clients /\ DOMAIN granted' = Clients
<1>1. /\ DOMAIN buckets = Clients /\ DOMAIN granted = Clients
      /\ buckets = [d \in Clients |-> buckets[d]] /\ granted = [d \in Clients |-> granted[d]]
      /\ granted[c] \in Seq(0..clock) /\ clock \in Nat /\ WithinBudget(granted[c])
  BY DEF BucketInv, BucketTypeOK, BudgetKept
<1>2. granted[c] \in Seq(Nat) /\ Full \in Nat /\ Unit \in Nat
  BY <1>1, Amounts
<1>3. /\ Refilled(c) \in 0..Full
      /\ Covered(granted[c], Refilled(c), clock)
      /\ Lossless(granted[c], Refilled(c), clock)
  BY RefillKeepsBalance
<1>4. CASE Refilled(c) >= Unit
  <2>1. /\ buckets' = [buckets EXCEPT ![c] =
                              [tokens |-> Refilled(c) - Unit, lastRefill |-> clock]]
        /\ granted' = [granted EXCEPT ![c] = Append(@, clock)]
    BY <1>4 DEF Allow
  <2>2. /\ buckets'[c] = [tokens |-> Refilled(c) - Unit, lastRefill |-> clock]
        /\ granted'[c] = Append(granted[c], clock)
        /\ \A d \in Clients \ {c} : buckets'[d] = buckets[d] /\ granted'[d] = granted[d]
        /\ DOMAIN buckets' = Clients /\ DOMAIN granted' = Clients
    BY <1>1, <2>1
  <2>3. Refilled(c) - Unit \in 0..Full
    BY <1>2, <1>3, <1>4
  <2>4. buckets'[c].tokens = Refilled(c) - Unit
    BY <2>2
  <2>5. Append(granted[c], clock) \in Seq(0..clock) /\ Append(granted[c], clock) # granted[c]
    <3>1. /\ Len(Append(granted[c], clock)) = Len(granted[c]) + 1
          /\ Len(granted[c]) \in Nat /\ clock \in 0..clock
      BY <1>1
    <3> QED
      BY <1>1, <3>1
  <2>6. /\ Covered(Append(granted[c], clock), Refilled(c) - Unit, clock)
        /\ Lossless(Append(granted[c], clock), Refilled(c) - Unit, clock)
        /\ WithinBudget(Append(granted[c], clock))
    BY <1>1, <1>2, <1>3, <1>4, GrantKeepsBalance
  <2> QED
    BY <2>2, <2>3, <2>4, <2>5, <2>6
<1>5. CASE ~ (Refilled(c) >= Unit)
  <2>1. /\ buckets' = [buckets EXCEPT ![c] =
                              [tokens |-> Refilled(c), lastRefill |-> clock]]
        /\ granted' = granted
    BY <1>5 DEF Allow
  <2>2. /\ buckets'[c] = [tokens |-> Refilled(c), lastRefill |-> clock]
        /\ \A d \in Clients \ {c} : buckets'[d] = buckets[d]
        /\ DOMAIN buckets' = Clients
    BY <1>1, <2>1
  <2>3. Refilled(c) < Unit
    BY <1>2, <1>3, <1>5
  <2>4. ~ WithinBudget(Append(granted[c], clock))
    BY <1>1, <1>2, <1>3, <2>3, DenialIsDue
  <2> QED
    BY <1>1, <1>3, <2>1, <2>2, <2>4
<1> QED
  BY <1>4, <1>5

LEMMA AllowKeepsInv ==
    ASSUME BucketInv, NEW c \in Clients, Allow(c), UNCHANGED clock
    PROVE  BucketInv'
<1>1. /\ buckets'[c] \in [tokens : 0..Full, lastRefill : {clock}]
      /\ granted'[c] \in Seq(0..clock)
      /\ WithinBudget(granted'[c])
      /\ Covered(granted'[c], buckets'[c].tokens, clock)
      /\ Lossless(granted'[c], buckets'[c].tokens, clock)
      /\ \A d \in Clients \ {c} : buckets'[d] = buckets[d] /\ granted'[d] = granted[d]
      /\ DOMAIN buckets' = Clients /\ DOMAIN granted' = Clients
  BY AllowBalances
<1>2. clock \in Nat /\ clock' = clock
  BY DEF BucketInv
<1>3. buckets'[c] \in [tokens : 0..Full, lastRefill : 0..clock]
      /\ buckets'[c].lastRefill = clock
  BY <1>1, <1>2
<1>4. buckets' = [d \in Clients |-> buckets'[d]] /\ granted' = [d \in Clients |-> granted'[d]]
  <2>1. buckets' = [buckets EXCEPT ![c] = buckets'[c]] /\ granted' = [granted EXCEPT ![c] = granted'[c]]
    BY DEF Allow, BucketInv, BucketTypeOK
  <2> QED
    BY <2>1 DEF BucketInv, BucketTypeOK
<1>5. BucketTypeOK'
  BY <1>1, <1>2, <1>3, <1>4 DEF BucketInv, BucketTypeOK, Full
<1>6. BudgetKept'
  BY <1>1 DEF BucketInv, BudgetKept
<1>7. ASSUME NEW d \in Clients PROVE BucketFits(d)'
  <2>1. CASE d = c
    <3>1. buckets'[c] # NoBucket
      <4>1. buckets'[c].tokens \in 0..Full /\ Full \in Nat
        BY <1>3, Amounts
      <4>2. NoBucket.tokens = -1
        BY DEF NoBucket
      <4> QED
        BY <4>1, <4>2
    <3>2. \A i \in 1..Len(granted'[c]) : granted'[c][i] <= buckets'[c].lastRefill
      BY <1>1, <1>2, <1>3
    <3> QED
      BY <1>1, <1>2, <1>3, <2>1, <3>1, <3>2 DEF BucketFits
  <2>2. CASE d # c
    <3>1. BucketFits(d) /\ buckets'[d] = buckets[d] /\ granted'[d] = granted[d]
      BY <1>1, <2>2 DEF BucketInv
    <3> QED
      BY <1>2, <3>1 DEF BucketFits
  <2> QED
    BY <2>1, <2>2
<1> QED
  BY <1>2, <1>5, <1>6, <1>7 DEF BucketInv

LEMMA TickKeepsInv ==
    ASSUME BucketInv, Tick, UNCHANGED bucketVars
    PROVE  BucketInv'
<1>1. /\ clock \in Nat /\ clock' = clock + 1 /\ 0..clock \subseteq 0..clock'
      /\ buckets' = buckets /\ granted' = granted
  BY DEF BucketInv, Tick, bucketVars
<1>2. BucketTypeOK'
  <2>1. \A c \in Clients : granted[c] \in Seq(0..clock')
    BY <1>1 DEF BucketInv, BucketTypeOK
  <2>2. \A c \in Clients : buckets[c] \in [tokens : 0..(Capacity * Unit), lastRefill : 0..clock']
                                          \cup {NoBucket}
    BY <1>1 DEF BucketInv, BucketTypeOK
  <2> QED
    BY <1>1, <2>1, <2>2 DEF BucketInv, BucketTypeOK
<1>3. BudgetKept'
  BY <1>1 DEF BucketInv, BudgetKept
<1>4. ASSUME NEW c \in Clients PROVE BucketFits(c)'
  <2>1. BucketFits(c)
    BY DEF BucketInv
  <2>2. buckets[c] # NoBucket => buckets[c] \in [tokens : 0..Full, lastRefill : 0..clock']
    BY <1>1, <2>1 DEF BucketFits
  <2> QED
    BY <1>1, <2>1, <2>2 DEF BucketFits
<1> QED
  BY <1>1, <1>2, <1>3, <1>4 DEF BucketInv

LEMMA BucketStays ==
    ASSUME BucketInv, UNCHANGED <<clock, bucketVars>>
    PROVE  BucketInv'
<1>1. clock' = clock /\ buckets' = buckets /\ granted' = granted
  BY DEF bucketVars
<1>2. \A c \in Clients : BucketFits(c)'
  BY <1>1 DEF BucketInv, BucketFits
<1> QED
  BY <1>1, <1>2 DEF BucketInv, BucketTypeOK, BudgetKept

LEMMA NextKeepsBucket ==
    ASSUME BucketInv, [Next]_vars
    PROVE  BucketInv'
<1>1. CASE TimePasses
  BY <1>1, TickKeepsInv DEF TimePasses
<1>2. ASSUME NEW c \in Clients, Bucket(c)
      PROVE  BucketInv'
  BY <1>2, AllowKeepsInv DEF Bucket
<1>3. ASSUME NEW x \in Calls, Fixed(x)
      PROVE  BucketInv'
  BY <1>3, BucketStays DEF Fixed
<1>4. CASE UNCHANGED vars
  BY <1>4, BucketStays DEF vars
<1> QED
  BY <1>1, <1>2, <1>3, <1>4 DEF Next

\* A step that turns a client away turns away a call over its budget.
LEMMA NextDeniesOverBudget ==
    ASSUME BucketInv, [Next]_vars,
           NEW c \in Clients, buckets'[c] # buckets[c], granted'[c] = granted[c]
    PROVE  ~ WithinBudget(Append(granted[c], clock))
<1>1. CASE TimePasses
  BY <1>1 DEF TimePasses, bucketVars
<1>2. ASSUME NEW d \in Clients, Bucket(d)
      PROVE  ~ WithinBudget(Append(granted[c], clock))
  <2>1. d = c
    BY <1>2, AllowBalances DEF Bucket
  <2> QED
    BY <1>2, <2>1, AllowBalances DEF Bucket
<1>3. CASE \E x \in Calls : Fixed(x)
  BY <1>3 DEF Fixed, bucketVars
<1>4. CASE UNCHANGED vars
  BY <1>4 DEF vars, bucketVars
<1> QED
  BY <1>1, <1>2, <1>3, <1>4 DEF Next

-----------------------------------------------------------------------------
(* The theorems about the token bucket.                                     *)

\* No client is ever granted more than a full bucket and what has flowed in since
\* would pay for (TokenBucketLimiter.Allow: refill, cap and charge).
THEOREM BudgetIsKept == Spec => []BudgetKept
<1>1. Init => BucketInv
  BY InitFillsBuckets
<1>2. BucketInv /\ [Next]_vars => BucketInv'
  BY NextKeepsBucket
<1>3. BucketInv => BudgetKept
  BY DEF BucketInv
<1> QED
  BY <1>1, <1>2, <1>3, PTL DEF Spec

\* Allow turns a call away only when the call would have broken the budget.
THEOREM DenialsAreDue == Spec => DeniesOnlyOverBudget
<1>1. Init => BucketInv
  BY InitFillsBuckets
<1>2. BucketInv /\ [Next]_vars => BucketInv'
  BY NextKeepsBucket
<1>3. BucketInv /\ [Next]_vars
        => [\A c \in Clients :
               buckets'[c] # buckets[c] /\ granted'[c] = granted[c] =>
                   ~ WithinBudget(Append(granted[c], clock))]_<<clock, buckets, granted>>
  BY NextDeniesOverBudget
<1> QED
  BY <1>1, <1>2, <1>3, PTL DEF Spec, DeniesOnlyOverBudget

-----------------------------------------------------------------------------
(* The fixed window.                                                        *)

\* The calls the script has allowed.
Allowed == {y \in Calls : verdict[y] = "allowed"}

\* When the window of the counter began.
Opened == expireAt - Window

\* The allowed calls of the counter's window, those of the stretch of a window's
\* length before it, and those of the stretch that ends at time t.
Inside == {y \in Allowed : Opened <= at[y]}
Before == {y \in Allowed : Opened - Window < at[y] /\ at[y] < Opened}
EndingAt(t) == {y \in Allowed : t - Window < at[y] /\ at[y] <= t}

\* The counter counts the window's allowed calls up to the limit; the window was
\* opened by one of them, which is why the stretch before it holds fewer than
\* the limit: it begins after the call that opened the window before.
WindowInv ==
    /\ clock \in Nat
    /\ WindowTypeOK
    /\ IsFiniteSet(Allowed)
    /\ \A y \in Allowed : answer[y] \in LetThrough
    /\ expireAt <= clock + Window
    /\ \A y \in Allowed : at[y] < expireAt
    /\ Limit = 0 => Allowed = {}
    /\ Cardinality(Inside) = IF current <= Limit THEN current ELSE Limit
    /\ Limit > 0 /\ current > 0 => \E y \in Allowed : at[y] = Opened
    /\ Limit > 0 => Cardinality(Before) < Limit
    /\ Limit > 0 => \A t \in 0..clock : Cardinality(EndingAt(t)) < 2 * Limit

LEMMA InitOpensWindow ==
    ASSUME Init
    PROVE  WindowInv
<1>1. /\ clock = 0 /\ current = 0 /\ expireAt = 0
      /\ answer = [x \in Calls |-> "none"] /\ verdict = [x \in Calls |-> "none"]
      /\ at = [x \in Calls |-> 0]
  BY DEF Init, ClockInit, WindowInit
<1>2. WindowTypeOK
  BY <1>1 DEF WindowTypeOK
<1>3. Allowed = {}
  BY <1>1 DEF Allowed
<1>4. Inside = {} /\ Before = {} /\ \A t : EndingAt(t) = {}
  BY <1>3 DEF Inside, Before, EndingAt
<1>5. IsFiniteSet({}) /\ Cardinality({}) = 0
  BY FS_EmptySet
<1>6. Limit \in Nat /\ Window \in Nat \ {0}
  BY WindowTypes
<1>7. /\ \A y \in Allowed : answer[y] \in LetThrough
      /\ \A y \in Allowed : at[y] < expireAt
  BY <1>3
<1>8. /\ Cardinality(Inside) = 0 /\ Cardinality(Before) = 0
      /\ \A t : Cardinality(EndingAt(t)) = 0
  BY <1>4, <1>5
<1>9. clock \in Nat /\ IsFiniteSet(Allowed) /\ expireAt <= clock + Window
  BY <1>1, <1>3, <1>5, <1>6
<1> HIDE DEF Allowed, Inside, Before, EndingAt
<1> QED
  BY <1>1, <1>2, <1>3, <1>6, <1>7, <1>8, <1>9 DEF WindowInv

\* A stretch of a window's length that ends in the counter's window or later, up
\* to its end, holds fewer calls than twice the limit.
LEMMA TwoWindows ==
    ASSUME NEW S, NEW P, NEW B, IsFiniteSet(S), IsFiniteSet(P), B \subseteq S \cup P,
           Limit > 0, Cardinality(S) <= Limit, Cardinality(P) < Limit
    PROVE  Cardinality(B) < 2 * Limit
<1>1. /\ IsFiniteSet(S \cup P)
      /\ Cardinality(S \cup P) = Cardinality(S) + Cardinality(P) - Cardinality(S \cap P)
  BY FS_Union
<1>2. Cardinality(B) <= Cardinality(S \cup P) /\ IsFiniteSet(B)
  BY <1>1, FS_Subset
<1>3. IsFiniteSet(S \cap P)
  BY FS_Subset
<1>4. /\ Cardinality(S) \in Nat /\ Cardinality(P) \in Nat /\ Cardinality(B) \in Nat
      /\ Cardinality(S \cap P) \in Nat /\ Cardinality(S \cup P) \in Nat
  BY <1>1, <1>2, <1>3, FS_CardinalityType
<1> QED
  BY <1>1, <1>2, <1>4, WindowTypes

\* What the invariant says of the sets it counts.
LEMMA Counted ==
    ASSUME WindowInv
    PROVE  /\ clock \in Nat /\ current \in Nat /\ expireAt \in Nat
           /\ Limit \in Nat /\ Window \in Nat /\ Window > 0
           /\ IsFiniteSet(Inside) /\ IsFiniteSet(Before)
           /\ Cardinality(Inside) \in Nat /\ Cardinality(Before) \in Nat
           /\ Cardinality(Inside) <= Limit
           /\ \A y \in Allowed : at[y] \in Nat /\ at[y] <= clock /\ verdict[y] = "allowed"
<1>1. clock \in Nat /\ current \in Nat /\ expireAt \in Nat /\ IsFiniteSet(Allowed)
  BY DEF WindowInv, WindowTypeOK
<1>2. Limit \in Nat /\ Window \in Nat /\ Window > 0
  BY WindowTypes
<1>3. IsFiniteSet(Inside) /\ IsFiniteSet(Before)
  <2>1. Inside \subseteq Allowed /\ Before \subseteq Allowed
    BY DEF Inside, Before
  <2> QED
    BY <1>1, <2>1, FS_Subset
<1>4. Cardinality(Inside) \in Nat /\ Cardinality(Before) \in Nat
  BY <1>3, FS_CardinalityType
<1>5. Cardinality(Inside) <= Limit
  BY <1>1, <1>2 DEF WindowInv
<1>6. \A y \in Allowed : at[y] \in Nat /\ at[y] <= clock /\ verdict[y] = "allowed"
  BY <1>1 DEF WindowInv, WindowTypeOK, Allowed
<1> QED
  BY <1>1, <1>2, <1>3, <1>4, <1>5, <1>6

LEMMA TickKeepsWindow ==
    ASSUME WindowInv, Tick, UNCHANGED windowVars
    PROVE  WindowInv'
<1>1. /\ clock' = clock + 1
      /\ current' = current /\ expireAt' = expireAt
      /\ answer' = answer /\ verdict' = verdict /\ at' = at
  BY DEF Tick, windowVars
<1>2. /\ Allowed' = Allowed /\ Opened' = Opened
      /\ Inside' = Inside /\ Before' = Before
      /\ \A t : EndingAt(t)' = EndingAt(t)
  BY <1>1 DEF Allowed, Opened, Inside, Before, EndingAt
<1>3. clock' \in Nat /\ 0..clock' = 0..clock \cup {clock + 1}
  BY <1>1, Counted
<1>4. WindowTypeOK'
  BY <1>1, Counted DEF WindowInv, WindowTypeOK
<1>5. expireAt' <= clock' + Window
  BY <1>1, Counted DEF WindowInv
<1>6. ASSUME Limit > 0, NEW t \in 0..clock'
      PROVE  Cardinality(EndingAt(t)') < 2 * Limit
  <2>1. CASE t \in 0..clock
    BY <1>2, <1>6, <2>1 DEF WindowInv
  <2>2. CASE t = clock + 1
    <3>1. EndingAt(t) \subseteq Inside \cup Before
      <4> SUFFICES ASSUME NEW y \in EndingAt(t), y \notin Inside
                   PROVE  y \in Before
        OBVIOUS
      <4>1. y \in Allowed /\ t - Window < at[y] /\ at[y] \in Nat
        BY Counted DEF EndingAt
      <4>2. at[y] < Opened
        BY <4>1, Counted DEF Inside, Opened
      <4>3. Opened - Window < at[y]
        BY <2>2, <4>1, Counted DEF WindowInv, Opened
      <4> QED
        BY <4>1, <4>2, <4>3 DEF Before
    <3> QED
      BY <1>2, <1>6, <3>1, Counted, TwoWindows DEF WindowInv
  <2> QED
    BY <1>3, <2>1, <2>2
<1> QED
  BY <1>1, <1>2, <1>3, <1>4, <1>5, <1>6 DEF WindowInv

LEMMA WindowStays ==
    ASSUME WindowInv, UNCHANGED <<clock, windowVars>>
    PROVE  WindowInv'
<1>1. /\ clock' = clock
      /\ current' = current /\ expireAt' = expireAt
      /\ answer' = answer /\ verdict' = verdict /\ at' = at
  BY DEF windowVars
<1>2. /\ Allowed' = Allowed /\ Opened' = Opened
      /\ Inside' = Inside /\ Before' = Before
      /\ \A t : EndingAt(t)' = EndingAt(t)
  BY <1>1 DEF Allowed, Opened, Inside, Before, EndingAt
<1> QED
  BY <1>1, <1>2 DEF WindowInv, WindowTypeOK

LEMMA FailOpenKeepsWindow ==
    ASSUME WindowInv, NEW x \in Calls, FailOpen(x), UNCHANGED clock
    PROVE  WindowInv'
<1>1. /\ clock' = clock /\ current' = current /\ expireAt' = expireAt
      /\ answer' = [answer EXCEPT ![x] = "failedOpen"]
      /\ at' = [at EXCEPT ![x] = clock]
      /\ verdict' = verdict /\ answer[x] = "none"
  BY DEF FailOpen, IsNext
<1>2. WindowTypeOK' /\ clock' \in Nat
  BY <1>1, Counted DEF WindowInv, WindowTypeOK
<1>3. Allowed' = Allowed /\ \A y \in Allowed : at'[y] = at[y] /\ answer'[y] = answer[y]
  BY <1>1 DEF WindowInv, WindowTypeOK, Allowed, LetThrough
<1>4. /\ Opened' = Opened /\ Inside' = Inside /\ Before' = Before
      /\ \A t : EndingAt(t)' = EndingAt(t)
  BY <1>1, <1>3 DEF Opened, Inside, Before, EndingAt
<1> QED
  BY <1>1, <1>2, <1>3, <1>4 DEF WindowInv

\* What the script does to the allowed calls and their times, whether its reply
\* arrives or not.
LEMMA ScriptAdds ==
    ASSUME WindowInv, NEW x \in Calls, Check(x) \/ ReplyLost(x), UNCHANGED clock
    PROVE  /\ clock' = clock /\ answer[x] = "none" /\ x \notin Allowed
           /\ current' = (IF clock < expireAt THEN current ELSE 0) + 1
           /\ expireAt' = IF current' = 1 THEN clock + Window ELSE expireAt
           /\ verdict'[x] = IF current' > Limit THEN "denied" ELSE "allowed"
           /\ Allowed' = IF current' > Limit THEN Allowed ELSE Allowed \cup {x}
           /\ at'[x] = clock
           /\ \A y \in Allowed : at'[y] = at[y]
           /\ \A y \in Allowed' : answer'[y] \in LetThrough
           /\ WindowTypeOK'
<1>1. /\ clock' = clock /\ answer[x] = "none"
      /\ current' = (IF clock < expireAt THEN current ELSE 0) + 1
      /\ expireAt' = IF current' = 1 THEN clock + Window ELSE expireAt
      /\ verdict' = [verdict EXCEPT ![x] = IF current' > Limit THEN "denied" ELSE "allowed"]
      /\ at' = [at EXCEPT ![x] = clock]
      /\ \/ answer' = [answer EXCEPT ![x] = verdict'[x]]
         \/ answer' = [answer EXCEPT ![x] = "failedOpen"]
  BY DEF Check, ReplyLost, Script, RunsOut, Verdict, IsNext
<1>2. x \notin Allowed
  BY <1>1 DEF WindowInv, LetThrough
<1>3. /\ verdict'[x] = IF current' > Limit THEN "denied" ELSE "allowed"
      /\ at'[x] = clock
      /\ answer'[x] \in {verdict'[x], "failedOpen"}
      /\ \A y \in Calls \ {x} :
            answer'[y] = answer[y] /\ verdict'[y] = verdict[y] /\ at'[y] = at[y]
  BY <1>1 DEF WindowInv, WindowTypeOK
<1>4. Allowed' = IF current' > Limit THEN Allowed ELSE Allowed \cup {x}
  BY <1>2, <1>3 DEF Allowed
<1>5. \A y \in Allowed : at'[y] = at[y]
  BY <1>2, <1>3 DEF Allowed
<1>6. WindowTypeOK'
  BY <1>1, <1>3, Counted DEF WindowInv, WindowTypeOK, Verdicts
<1>7. \A y \in Allowed' : answer'[y] \in LetThrough
  BY <1>3 DEF WindowInv, Allowed, LetThrough
<1> QED
  BY <1>1, <1>2, <1>3, <1>4, <1>5, <1>6, <1>7

LEMMA ScriptKeepsWindow ==
    ASSUME WindowInv, NEW x \in Calls, Check(x) \/ ReplyLost(x), UNCHANGED clock
    PROVE  WindowInv'
<1>1. /\ clock' = clock /\ answer[x] = "none" /\ x \notin Allowed
      /\ current' = (IF clock < expireAt THEN current ELSE 0) + 1
      /\ expireAt' = IF current' = 1 THEN clock + Window ELSE expireAt
      /\ Allowed' = IF current' > Limit THEN Allowed ELSE Allowed \cup {x}
      /\ at'[x] = clock
      /\ \A y \in Allowed : at'[y] = at[y]
      /\ \A y \in Allowed' : answer'[y] \in LetThrough
      /\ WindowTypeOK'
  BY ScriptAdds
<1>2. /\ clock \in Nat /\ current \in Nat /\ expireAt \in Nat
      /\ Limit \in Nat /\ Window \in Nat /\ Window > 0
      /\ IsFiniteSet(Inside) /\ IsFiniteSet(Before)
      /\ Cardinality(Inside) \in Nat /\ Cardinality(Before) \in Nat
      /\ Cardinality(Inside) <= Limit
      /\ \A y \in Allowed : at[y] \in Nat /\ at[y] <= clock
  BY Counted
<1>3. IsFiniteSet(Allowed')
  <2>1. IsFiniteSet(Allowed) /\ IsFiniteSet(Allowed \cup {x})
    BY FS_AddElement DEF WindowInv
  <2> QED
    BY <1>1, <2>1
<1>4. expireAt' <= clock' + Window /\ Opened' <= clock /\ current' \in Nat \ {0}
      /\ expireAt' \in Nat
  BY <1>1, <1>2 DEF WindowInv, Opened
<1>5. \A y \in Allowed' : at'[y] < expireAt'
  <2>1. at'[x] < expireAt'
    BY <1>1, <1>2
  <2>2. ASSUME NEW y \in Allowed PROVE at'[y] < expireAt'
    <3>1. at[y] < expireAt /\ at[y] <= clock /\ at'[y] = at[y] /\ at[y] \in Nat
      BY <1>1, <1>2 DEF WindowInv
    <3> QED
      BY <1>1, <1>2, <3>1
  <2> QED
    BY <1>1, <2>1, <2>2
<1>6. Limit = 0 => Allowed' = {}
  BY <1>1, <1>2, <1>4 DEF WindowInv
<1>7. CASE Limit = 0
  <2>1. Inside' = {} /\ Cardinality({}) = 0
    BY <1>6, <1>7, FS_EmptySet DEF Inside
  <2> QED
    BY <1>1, <1>2, <1>3, <1>4, <1>5, <1>6, <1>7, <2>1 DEF WindowInv
<1>8. CASE Limit > 0
  \* The script opens a window, or counts on in the one that lasts.
  <2>1. /\ IsFiniteSet(Inside') /\ IsFiniteSet(Before')
        /\ Cardinality(Inside') = IF current' <= Limit THEN current' ELSE Limit
        /\ \E y \in Allowed' : at'[y] = Opened'
        /\ Cardinality(Before') < Limit
    <3>1. CASE current' = 1
      <4>1. Opened' = clock /\ Allowed' = Allowed \cup {x}
        BY <1>1, <1>2, <1>8, <3>1 DEF Opened
      <4>2. Inside = {} => \A y \in Allowed : at[y] < Opened
        BY <1>2 DEF Inside, Opened
      <4>3. current = 0 => Inside = {}
        <5>1. current = 0 => Cardinality(Inside) = 0
          BY <1>2 DEF WindowInv
        <5> QED
          BY <1>2, <5>1, FS_EmptySet
      <4>4. Opened <= clock /\ Opened \in Int
        BY <1>2 DEF WindowInv, Opened
      <4>5. ASSUME NEW y \in Allowed PROVE at[y] < clock
        <5>1. CASE clock < expireAt
          <6>1. current = 0
            BY <1>1, <1>2, <3>1, <5>1
          <6> QED
            BY <1>2, <4>2, <4>3, <4>4, <6>1
        <5>2. CASE ~ (clock < expireAt)
          BY <1>2, <5>2 DEF WindowInv
        <5> QED
          BY <5>1, <5>2
      <4>6. Inside' = {x}
        BY <1>1, <1>2, <4>1, <4>5 DEF Inside
      <4>7. IsFiniteSet(Inside') /\ Cardinality(Inside') = 1
        BY <4>6, FS_Singleton
      <4>8. \A y \in Before' : y \in Allowed /\ clock - Window < at[y] /\ at[y] < clock
        BY <1>1, <1>2, <4>1 DEF Before
      <4>9. IsFiniteSet(Before') /\ Cardinality(Before') < Limit
        <5>1. CASE current = 0
          <6>1. Before' \subseteq Before
            BY <1>2, <4>2, <4>3, <4>4, <4>8, <5>1 DEF Before
          <6>2. /\ IsFiniteSet(Before') /\ Cardinality(Before') <= Cardinality(Before)
                /\ Cardinality(Before) < Limit
            BY <1>2, <1>8, <6>1, FS_Subset DEF WindowInv
          <6>3. Cardinality(Before') \in Nat
            BY <6>2, FS_CardinalityType
          <6> QED
            BY <1>2, <6>2, <6>3
        <5>2. CASE current # 0
          <6>1. ~ (clock < expireAt)
            BY <1>1, <1>2, <3>1, <5>2
          <6>2. PICK o \in Allowed : at[o] = Opened
            BY <1>2, <1>8, <5>2 DEF WindowInv
          <6>3. o \in Inside /\ Before' \subseteq Inside \ {o}
            <7>1. o \in Inside
              BY <1>2, <6>2 DEF Inside, Opened
            <7>2. ASSUME NEW y \in Before' PROVE y \in Inside /\ y # o
              BY <1>2, <4>8, <6>1, <6>2, <7>2 DEF Inside, Opened
            <7> QED
              BY <7>1, <7>2
          <6>4. /\ IsFiniteSet(Inside \ {o})
                /\ Cardinality(Inside \ {o}) = Cardinality(Inside) - 1
            BY <1>2, <6>3, FS_RemoveElement
          <6>5. IsFiniteSet(Before') /\ Cardinality(Before') <= Cardinality(Inside \ {o})
            BY <6>3, <6>4, FS_Subset
          <6>6. Cardinality(Before') \in Nat
            BY <6>5, FS_CardinalityType
          <6> QED
            BY <1>2, <6>4, <6>5, <6>6
        <5> QED
          BY <5>1, <5>2
      <4> QED
        BY <1>1, <1>2, <1>8, <3>1, <4>1, <4>7, <4>9
    <3>2. CASE current' # 1
      <4>1. /\ clock < expireAt /\ current > 0 /\ current' = current + 1
            /\ Opened' = Opened /\ Opened <= clock /\ Opened \in Int
        BY <1>1, <1>2, <3>2 DEF Opened, WindowInv
      <4>2. Before' = Before
        <5>1. \A y \in Allowed' : Opened - Window < at'[y] /\ at'[y] < Opened
                                    => y \in Allowed
          BY <1>1, <1>2, <4>1
        <5> QED
          BY <1>1, <4>1, <5>1 DEF Before
      <4>3. Inside' = IF current' > Limit THEN Inside ELSE Inside \cup {x}
        BY <1>1, <1>2, <4>1 DEF Inside
      <4>4. x \notin Inside
        BY <1>1 DEF Inside
      <4>5. /\ IsFiniteSet(Inside \cup {x})
            /\ Cardinality(Inside \cup {x}) = Cardinality(Inside) + 1
        BY <1>2, <4>4, FS_AddElement
      <4>6. Cardinality(Inside) = IF current <= Limit THEN current ELSE Limit
        BY DEF WindowInv
      <4>7. \E y \in Allowed' : at'[y] = Opened'
        <5>1. PICK o \in Allowed : at[o] = Opened
          BY <1>8, <4>1 DEF WindowInv
        <5> QED
          BY <1>1, <4>1, <5>1
      <4> QED
        BY <1>2, <1>8, <4>1, <4>2, <4>3, <4>5, <4>6, <4>7 DEF WindowInv
    <3> QED
      BY <3>1, <3>2
  <2>2. ASSUME NEW t \in 0..clock
        PROVE  Cardinality(EndingAt(t)') < 2 * Limit
    <3>1. CASE t < clock
      <4>1. EndingAt(t)' = EndingAt(t)
        BY <1>1, <1>2, <3>1 DEF EndingAt
      <4> QED
        BY <1>8, <4>1 DEF WindowInv
    <3>2. CASE t = clock
      <4>1. EndingAt(t)' \subseteq Inside' \cup Before'
        <5> SUFFICES ASSUME NEW y \in EndingAt(t)', y \notin Inside'
                     PROVE  y \in Before'
          OBVIOUS
        <5>1. y \in Allowed' /\ t - Window < at'[y]
          BY DEF EndingAt
        <5>2. at'[y] \in Nat
          BY <1>1, <1>2, <5>1
        <5>3. Opened' \in Int
          BY <1>2, <1>4 DEF Opened
        <5>4. at'[y] < Opened'
          BY <5>1, <5>2, <5>3 DEF Inside
        <5> QED
          BY <1>2, <1>4, <3>2, <5>1, <5>2, <5>3, <5>4 DEF Before
      <4>2. Cardinality(Inside') <= Limit
        BY <1>2, <1>4, <2>1
      <4> QED
        BY <1>8, <2>1, <4>1, <4>2, TwoWindows
    <3> QED
      BY <1>2, <3>1, <3>2
  <2> QED
    BY <1>1, <1>2, <1>3, <1>4, <1>5, <1>6, <1>8, <2>1, <2>2 DEF WindowInv
<1> QED
  BY <1>2, <1>7, <1>8

LEMMA NextKeepsWindow ==
    ASSUME WindowInv, [Next]_vars
    PROVE  WindowInv'
<1>1. CASE TimePasses
  BY <1>1, TickKeepsWindow DEF TimePasses
<1>2. CASE \E c \in Clients : Bucket(c)
  BY <1>2, WindowStays DEF Bucket
<1>3. ASSUME NEW x \in Calls, Fixed(x)
      PROVE  WindowInv'
  BY <1>3, ScriptKeepsWindow, FailOpenKeepsWindow DEF Fixed
<1>4. CASE UNCHANGED vars
  BY <1>4, WindowStays DEF vars
<1> QED
  BY <1>1, <1>2, <1>3, <1>4 DEF Next

LEMMA WindowBoundsBursts ==
    ASSUME WindowInv
    PROVE  BurstBelowDouble
<1> SUFFICES ASSUME NEW x \in Calls, Burst(x) # {}
             PROVE  Cardinality(Burst(x)) < 2 * Limit
  BY DEF BurstBelowDouble
<1>1. Burst(x) = EndingAt(at[x])
  BY DEF Burst, EndingAt, Allowed
<1>2. at[x] \in 0..clock
  BY DEF WindowInv, WindowTypeOK
<1>3. Limit > 0
  <2>1. Allowed # {}
    BY DEF Burst, Allowed
  <2> QED
    BY <2>1, Counted DEF WindowInv
<1> QED
  BY <1>1, <1>2, <1>3 DEF WindowInv

\* A step that denies a caller finds the limit of calls counted and let through
\* in the last window of time.
LEMMA NextDeniesInFullWindow ==
    ASSUME WindowInv, [Next]_vars,
           NEW x \in Calls, answer[x] = "none", answer'[x] = "denied"
    PROVE  Cardinality({y \in Calls : /\ verdict[y] = "allowed"
                                      /\ answer[y] \in LetThrough
                                      /\ clock - Window < at[y]}) >= Limit
<1> DEFINE Last == {y \in Calls : /\ verdict[y] = "allowed"
                                  /\ answer[y] \in LetThrough
                                  /\ clock - Window < at[y]}
<1>1. PICK z \in Calls : Check(z) /\ clock' = clock /\ z = x
  <2>1. answer' # answer
    OBVIOUS
  <2>2. PICK z \in Calls : Fixed(z)
    BY <2>1 DEF Next, vars, TimePasses, Bucket, windowVars
  <2>3. z = x /\ ~ FailOpen(z) /\ ~ ReplyLost(z)
    BY <2>2 DEF Fixed, Check, ReplyLost, FailOpen, WindowInv, WindowTypeOK
  <2> QED
    BY <2>2, <2>3 DEF Fixed
<1>2. /\ current' = (IF clock < expireAt THEN current ELSE 0) + 1
      /\ current' > Limit
  <2>1. /\ answer'[x] = verdict'[x]
        /\ verdict'[x] = IF current' > Limit THEN "denied" ELSE "allowed"
    BY <1>1, ScriptAdds DEF Check, WindowInv, WindowTypeOK
  <2> QED
    BY <1>1, <2>1, ScriptAdds
<1>3. IsFiniteSet(Last) /\ Cardinality(Last) \in Nat
  <2>1. Last \subseteq Allowed
    BY DEF Allowed
  <2>2. IsFiniteSet(Last)
    BY <2>1, FS_Subset DEF WindowInv
  <2> QED
    BY <2>2, FS_CardinalityType
<1>4. CASE Limit = 0
  BY <1>3, <1>4
<1>5. CASE Limit > 0
  <2>1. clock < expireAt /\ current >= Limit
    BY <1>2, <1>5, Counted
  <2>2. Cardinality(Inside) = Limit
    BY <2>1, Counted DEF WindowInv
  <2>3. Inside \subseteq Last
    BY <2>1, Counted DEF Inside, Opened, Allowed, WindowInv
  <2>4. Cardinality(Inside) <= Cardinality(Last)
    BY <1>3, <2>3, FS_Subset
  <2> QED
    BY <1>3, <2>2, <2>4, Counted
<1> QED
  BY <1>4, <1>5, Counted

-----------------------------------------------------------------------------
(* The theorems about the fixed window.                                     *)

\* Over the boundary of two fixed windows a burst stays below twice the limit,
\* whatever the limit, the window and the order of calls and failures of Redis.
THEOREM BurstStaysBelowDouble == Spec => []BurstBelowDouble
<1>1. Init => WindowInv
  BY InitOpensWindow
<1>2. WindowInv /\ [Next]_vars => WindowInv'
  BY NextKeepsWindow
<1>3. WindowInv => BurstBelowDouble
  BY WindowBoundsBursts
<1> QED
  BY <1>1, <1>2, <1>3, PTL DEF Spec

\* A caller is denied only when the script has counted the limit of calls in the
\* last window of time and each of them was let through, lost replies included:
\* denied calls do not keep a key closed.
THEOREM DenialsFollowAllowedCalls == Spec => DeniedOnlyInFullWindow
<1>1. Init => WindowInv
  BY InitOpensWindow
<1>2. WindowInv /\ [Next]_vars => WindowInv'
  BY NextKeepsWindow
<1>3. WindowInv /\ [Next]_vars
        => [\A x \in Calls :
               answer[x] = "none" /\ answer'[x] = "denied" =>
                  Cardinality({y \in Calls : /\ verdict[y] = "allowed"
                                             /\ answer[y] \in LetThrough
                                             /\ clock - Window < at[y]}) >= Limit]_<<clock, windowVars>>
  BY NextDeniesInFullWindow
<1> QED
  BY <1>1, <1>2, <1>3, PTL DEF Spec, DeniedOnlyInFullWindow

\* The types of both limiters.
THEOREM TypesHold == Spec => []TypeOK
<1>1. Init => BucketInv /\ WindowInv /\ inUse \in {"tokenBucket", "fixedWindow"}
  BY InitFillsBuckets, InitOpensWindow DEF Init
<1>2. /\ BucketInv /\ WindowInv /\ inUse \in {"tokenBucket", "fixedWindow"}
      /\ [Next]_vars
      => (BucketInv /\ WindowInv /\ inUse \in {"tokenBucket", "fixedWindow"})'
  <2>1. ASSUME [Next]_vars PROVE inUse' = inUse
    BY <2>1 DEF Next, vars, TimePasses, Bucket, Fixed
  <2> QED
    BY <2>1, NextKeepsBucket, NextKeepsWindow
<1>3. BucketInv /\ WindowInv /\ inUse \in {"tokenBucket", "fixedWindow"} => TypeOK
  BY DEF BucketInv, WindowInv, TypeOK
<1> QED
  BY <1>1, <1>2, <1>3, PTL DEF Spec
=============================================================================
