-------------------------- MODULE SelfHealer_proofs -------------------------
(***************************************************************************)
(* Theorems about the self-healer, for any number of nodes, healers,       *)
(* targets and goroutines: its types, that a node runs one recovery at a   *)
(* time, and that the nodes that heard a failover agree on its target once *)
(* their watches have nothing left to deliver, values that are no URL put  *)
(* between or after.                                                       *)
(***************************************************************************)
EXTENDS SelfHealer, FiniteSetTheorems, SequenceTheorems, TLAPS

-----------------------------------------------------------------------------
(* The inductive invariant.                                                 *)

Busy(n) == {w \in Workers : recovery[n][w] # "idle"}

\* The recoveries of a node are one, under way while isFailingOver is set, or
\* none.
OneRecovery ==
    \A n \in Nodes : IF failingOver[n] THEN \E w \in Workers : Busy(n) = {w}
                     ELSE Busy(n) = {}

\* Delivering the values of q in order leaves a node at target t: the last of
\* them that is a URL is t, or none is one and the node is at t already.
LeadsTo(q, at, t) ==
    \/ /\ at = t
       /\ \A k \in 1..Len(q) : q[k] \notin Targets
    \/ \E k \in 1..Len(q) : /\ q[k] = t
                           /\ \A j \in 1..Len(q) : j > k => q[j] \notin Targets

\* A node that heard the latest failover watches, and what its watch has yet to
\* deliver leads to that failover's target.
HeardLast ==
    \A n \in heard :
        /\ phase[n] = "watching"
        /\ LeadsTo(pending[n], target[n], last)

IInv ==
    /\ TypeOK
    /\ failed \in [Nodes -> Nat]
    /\ OneRecovery
    /\ HeardLast

LEMMA InitIInv == Init => IInv
<1> SUFFICES ASSUME Init PROVE IInv
  OBVIOUS
<1>1. TypeOK /\ failed \in [Nodes -> Nat]
  BY PrimaryTarget DEF Init, TypeOK, Idle
<1>2. OneRecovery
  <2>1. \A n \in Nodes : Busy(n) = {} /\ ~failingOver[n]
    BY DEF Init, Idle, Busy
  <2> QED
    BY <2>1 DEF OneRecovery
<1> QED
  BY <1>1, <1>2 DEF IInv, Init, HeardLast

-----------------------------------------------------------------------------
(* Types.                                                                   *)

LEMMA StepKeepsTypes ==
    ASSUME IInv, [Next]_vars
    PROVE  TypeOK' /\ failed' \in [Nodes -> Nat]
<1> DEFINE Typed == TypeOK /\ failed \in [Nodes -> Nat]
<1> SUFFICES Typed'
  OBVIOUS
<1>0. Typed
  BY DEF IInv
<1> USE DEF TypeOK
<1>1. CASE UNCHANGED vars
  BY <1>0, <1>1 DEF vars
<1>2. ASSUME NEW n \in Nodes, Boot(n) \/ OpenWatch(n) \/ CloseWatch(n)
      PROVE  Typed'
  <2>1. CASE Boot(n)
    BY <1>0, <2>1 DEF Boot, countVars, healVars
  <2>2. CASE OpenWatch(n)
    BY <1>0, <2>2 DEF OpenWatch, countVars, healVars
  <2>3. CASE CloseWatch(n)
    BY <1>0, <2>3 DEF CloseWatch, countVars, healVars
  <2> QED
    BY <1>2, <2>1, <2>2, <2>3
<1>3. ASSUME NEW n \in Nodes, Deliver(n)
      PROVE  Typed'
  <2>1. pending[n] \in Seq(Values) /\ pending[n] # << >>
    BY <1>0, <1>3 DEF Deliver
  <2>2. Head(pending[n]) \in Values /\ Tail(pending[n]) \in Seq(Values)
    BY <2>1
  <2>3. After(Head(pending[n]), target[n]) \in Targets
    BY <1>0 DEF After
  <2> QED
    BY <1>0, <1>3, <2>2, <2>3 DEF Deliver, countVars, healVars
<1>4. ASSUME NEW n \in Nodes, Crash(n)
      PROVE  Typed'
  BY <1>0, <1>4, PrimaryTarget DEF Crash, Idle
<1>5. ASSUME NEW n \in Nodes, Begin(n)
      PROVE  Typed'
  BY <1>0, <1>5 DEF Begin, proxyVars, healVars
<1>6. ASSUME NEW n \in Nodes, Finish(n) \/ ClientLeaves(n)
      PROVE  Typed'
  <2>1. PICK isFailed \in BOOLEAN : Recorded(n, isFailed)
    <3>1. CASE ClientLeaves(n)
      BY <3>1 DEF ClientLeaves
    <3>2. CASE Finish(n)
      <4> DEFINE b == CountsAsFailed(status[inFlight[n]])
      <4>1. Recorded(n, b) /\ b \in BOOLEAN
        BY <3>2 DEF Finish, CountsAsFailed
      <4> HIDE DEF b
      <4> QED
        BY <4>1
    <3> QED
      BY <1>6, <3>1, <3>2
  <2>2. /\ failed[n] \in Nat /\ total[n] \in Nat /\ proxied[n] \in Nat
        /\ failed[n] <= total[n] /\ proxied[n] <= total[n]
    BY <1>0
  <2>3. /\ total' = [total EXCEPT ![n] = @ + 1] /\ proxied' = [proxied EXCEPT ![n] = @ + 1]
        /\ failed' = [failed EXCEPT ![n] = IF isFailed THEN @ + 1 ELSE @]
    BY <2>1 DEF Recorded
  <2>4. /\ total' \in [Nodes -> Nat] /\ proxied' \in [Nodes -> Nat]
        /\ failed' \in [Nodes -> Nat]
    BY <1>0, <2>3
  <2>5. ASSUME NEW m \in Nodes
        PROVE  failed'[m] \in 0..total'[m] /\ proxied'[m] <= total'[m]
    <3>1. CASE m # n
      BY <1>0, <2>3, <3>1
    <3>2. CASE m = n
      <4>1. /\ total'[n] = total[n] + 1 /\ proxied'[n] = proxied[n] + 1
            /\ failed'[n] \in {failed[n], failed[n] + 1}
        BY <1>0, <2>3
      <4> QED
        BY <2>2, <3>2, <4>1
    <3> QED
      BY <3>1, <3>2
  <2>6. /\ inFlight' = [inFlight EXCEPT ![n] = None]
        /\ UNCHANGED <<status, proxyVars, last, healVars>>
    BY <2>1 DEF Recorded
  <2> QED
    BY <1>0, <2>4, <2>5, <2>6 DEF proxyVars, healVars
<1>12. ASSUME NEW n \in Nodes, Elsewhere(n)
       PROVE  Typed'
  <2>1. /\ failed[n] \in Nat /\ total[n] \in Nat /\ proxied[n] \in Nat
        /\ failed[n] <= total[n] /\ proxied[n] <= total[n]
    BY <1>0
  <2>2. /\ total' = [total EXCEPT ![n] = @ + 1]
        /\ \/ UNCHANGED failed
           \/ failed' = [failed EXCEPT ![n] = @ + 1]
        /\ UNCHANGED <<status, proxyVars, last, inFlight, proxied, healVars>>
    BY <1>12 DEF Elsewhere
  <2>3. total' \in [Nodes -> Nat] /\ failed' \in [Nodes -> Nat]
    <3>1. total' \in [Nodes -> Nat]
      BY <1>0, <2>1, <2>2
    <3>2. failed' = failed \/ failed' = [failed EXCEPT ![n] = @ + 1]
      BY <2>2
    <3>3. failed \in [Nodes -> Nat] /\ failed[n] + 1 \in Nat
      BY <1>0, <2>1
    <3>4. failed' \in [Nodes -> Nat]
      BY <3>2, <3>3
    <3> QED
      BY <3>1, <3>4
  <2>4. ASSUME NEW m \in Nodes
        PROVE  failed'[m] \in 0..total'[m] /\ proxied[m] <= total'[m]
    <3>1. CASE m # n
      BY <1>0, <2>2, <3>1
    <3>2. CASE m = n
      <4>1. total'[n] = total[n] + 1 /\ failed'[n] \in {failed[n], failed[n] + 1}
        BY <1>0, <2>2
      <4> QED
        BY <2>1, <3>2, <4>1
    <3> QED
      BY <3>1, <3>2
  <2> QED
    BY <1>0, <2>2, <2>3, <2>4 DEF proxyVars, healVars
<1>7. ASSUME NEW n \in Nodes, Interval(n)
      PROVE  Typed'
  <2>1. CASE MaySpawn(n)
    <3>1. PICK w \in Workers : /\ recovery' = [recovery EXCEPT ![n][w] = "asking"]
                               /\ failingOver' = [failingOver EXCEPT ![n] = TRUE]
      BY <1>7, <2>1 DEF Interval
    <3> QED
      BY <1>0, <1>7, <3>1 DEF Interval, proxyVars
  <2>2. CASE ~MaySpawn(n)
    <3>1. UNCHANGED healVars
      BY <1>7, <2>2 DEF Interval
    <3> QED
      BY <1>0, <1>7, <3>1 DEF Interval, proxyVars, healVars
  <2> QED
    BY <2>1, <2>2
<1>8. ASSUME NEW n \in Nodes, NEW w \in Workers, NoAdvice(n, w) \/ PutFails(n, w)
      PROVE  Typed'
  <2>1. /\ recovery' = [recovery EXCEPT ![n][w] = "idle"]
        /\ failingOver' = [failingOver EXCEPT ![n] = FALSE]
        /\ UNCHANGED <<status, proxyVars, last, countVars>>
    BY <1>8 DEF NoAdvice, PutFails, EndRecovery
  <2> QED
    BY <1>0, <2>1 DEF proxyVars, countVars
<1>9. ASSUME NEW n \in Nodes, NEW w \in Workers, NEW v \in Values, Advice(n, w, v)
      PROVE  Typed'
  BY <1>0, <1>9 DEF Advice, proxyVars, countVars
<1>10. ASSUME NEW n \in Nodes, NEW w \in Workers, Put(n, w)
       PROVE  Typed'
  <2>1. recovery[n][w] \in Values
    BY <1>10 DEF Put
  <2>2. \A m \in Nodes : Append(pending[m], recovery[n][w]) \in Seq(Values)
    BY <1>0, <2>1
  <2>3. pending' \in [Nodes -> Seq(Values)]
    BY <1>0, <1>10, <2>2 DEF Put
  <2>4. failingOver' \in [Nodes -> BOOLEAN]
        /\ recovery' \in [Nodes -> [Workers -> {"idle", "asking"} \cup Values]]
    BY <1>0, <1>10 DEF Put, EndRecovery
  <2>5. last' \in Targets /\ heard' \subseteq Nodes
    BY <1>0, <1>10 DEF Put, Watching
  <2> QED
    BY <1>0, <1>10, <2>3, <2>4, <2>5 DEF Put, countVars
<1>11. ASSUME NEW t \in Targets, NEW code \in {200} \cup Faults, Turn(t, code)
       PROVE  Typed'
  BY <1>0, <1>11 DEF Turn, proxyVars, countVars, healVars
<1> HIDE DEF TypeOK
<1> QED
  BY <1>1, <1>2, <1>3, <1>4, <1>5, <1>6, <1>7, <1>8, <1>9, <1>10, <1>11, <1>12
     DEF Next

-----------------------------------------------------------------------------
(* One recovery at a time.                                                  *)

LEMMA StepKeepsOneRecovery ==
    ASSUME IInv, [Next]_vars
    PROVE  OneRecovery'
<1>1. TypeOK /\ OneRecovery
  BY DEF IInv
<1>2. CASE UNCHANGED healVars
  BY <1>1, <1>2 DEF OneRecovery, Busy, healVars
<1>3. ASSUME NEW n \in Nodes, NEW w \in Workers, recovery[n][w] # "idle",
             \/ /\ recovery' = [recovery EXCEPT ![n][w] = "idle"]
                /\ failingOver' = [failingOver EXCEPT ![n] = FALSE]
             \/ /\ \E v \in Values : recovery' = [recovery EXCEPT ![n][w] = v]
                /\ UNCHANGED failingOver
      PROVE  OneRecovery'
  <2>1. ASSUME NEW m \in Nodes, m # n
        PROVE  Busy(m)' = Busy(m) /\ failingOver'[m] = failingOver[m]
    BY <1>1, <1>3, <2>1 DEF Busy, TypeOK
  <2>2. failingOver[n] /\ Busy(n) = {w}
    BY <1>1, <1>3 DEF OneRecovery, Busy
  <2>3. IF failingOver'[n] THEN Busy(n)' = {w} ELSE Busy(n)' = {}
    <3>1. CASE failingOver' = [failingOver EXCEPT ![n] = FALSE]
               /\ recovery' = [recovery EXCEPT ![n][w] = "idle"]
      <4>1. \A u \in Workers : recovery'[n][u] = IF u = w THEN "idle" ELSE recovery[n][u]
        BY <1>1, <3>1 DEF TypeOK
      <4>2. Busy(n)' = {} /\ ~failingOver'[n]
        BY <1>1, <2>2, <3>1, <4>1 DEF Busy, TypeOK
      <4> QED
        BY <4>2
    <3>2. CASE /\ \E v \in Values : recovery' = [recovery EXCEPT ![n][w] = v]
               /\ UNCHANGED failingOver
      <4>1. PICK v \in Values : recovery' = [recovery EXCEPT ![n][w] = v]
        BY <3>2
      <4>2. \A u \in Workers : recovery'[n][u] = IF u = w THEN v ELSE recovery[n][u]
        BY <1>1, <4>1 DEF TypeOK
      <4>3. v # "idle"
        BY ValuesApart DEF Values
      <4>4. Busy(n)' = {w} /\ failingOver'[n]
        BY <2>2, <3>2, <4>2, <4>3 DEF Busy
      <4> QED
        BY <4>4
    <3> QED
      BY <1>3, <3>1, <3>2
  <2> QED
    BY <1>1, <2>1, <2>3 DEF OneRecovery
<1>4. ASSUME NEW n \in Nodes, Interval(n)
      PROVE  OneRecovery'
  <2>1. CASE ~MaySpawn(n)
    BY <1>2, <1>4, <2>1 DEF Interval
  <2>2. CASE MaySpawn(n)
    <3>1. PICK w \in Workers : /\ recovery' = [recovery EXCEPT ![n][w] = "asking"]
                               /\ failingOver' = [failingOver EXCEPT ![n] = TRUE]
      BY <1>4, <2>2 DEF Interval
    <3>2. Busy(n) = {}
      BY <1>1, <2>2 DEF MaySpawn, OneRecovery
    <3>3. \A u \in Workers : recovery'[n][u] = IF u = w THEN "asking" ELSE recovery[n][u]
      BY <1>1, <3>1 DEF TypeOK
    <3>4. Busy(n)' = {w} /\ failingOver'[n]
      BY <1>1, <3>1, <3>2, <3>3 DEF Busy, TypeOK
    <3>5. ASSUME NEW m \in Nodes, m # n
          PROVE  Busy(m)' = Busy(m) /\ failingOver'[m] = failingOver[m]
      BY <1>1, <3>1, <3>5 DEF Busy, TypeOK
    <3> QED
      BY <1>1, <3>4, <3>5 DEF OneRecovery
  <2> QED
    BY <2>1, <2>2
<1>5. ASSUME NEW n \in Nodes, Crash(n)
      PROVE  OneRecovery'
  <2>1. ASSUME NEW m \in Nodes, m # n
        PROVE  Busy(m)' = Busy(m) /\ failingOver'[m] = failingOver[m]
    BY <1>1, <1>5, <2>1 DEF Busy, TypeOK, Crash
  <2>2. Busy(n)' = {} /\ ~failingOver'[n]
    BY <1>1, <1>5 DEF Busy, TypeOK, Crash, Idle
  <2> QED
    BY <1>1, <2>1, <2>2 DEF OneRecovery
<1>6. ASSUME NEW n \in Nodes, NEW w \in Workers, NoAdvice(n, w) \/ PutFails(n, w) \/ Put(n, w)
      PROVE  OneRecovery'
  <2>1. recovery[n][w] # "idle"
    BY <1>6, ValuesApart DEF NoAdvice, PutFails, Put, Values
  <2>2. EndRecovery(n, w)
    BY <1>6 DEF NoAdvice, PutFails, Put
  <2> QED
    BY <1>3, <2>1, <2>2 DEF EndRecovery
<1>7. ASSUME NEW n \in Nodes, NEW w \in Workers, NEW v \in Values, Advice(n, w, v)
      PROVE  OneRecovery'
  <2>1. recovery[n][w] # "idle"
    BY <1>7 DEF Advice
  <2> QED
    BY <1>3, <1>7, <2>1 DEF Advice
<1>8. \/ UNCHANGED healVars
      \/ \E n \in Nodes : Interval(n) \/ Crash(n)
      \/ \E n \in Nodes, w \in Workers : NoAdvice(n, w) \/ PutFails(n, w) \/ Put(n, w)
      \/ \E n \in Nodes, w \in Workers, v \in Values : Advice(n, w, v)
  BY DEF Next, vars, Boot, OpenWatch, Deliver, CloseWatch, Begin, Finish, ClientLeaves,
         Recorded, Elsewhere, Turn, healVars
<1> QED
  BY <1>2, <1>4, <1>5, <1>6, <1>7, <1>8

-----------------------------------------------------------------------------
(* What the nodes have heard.                                               *)

\* Delivering the first value of a queue leaves the rest leading where the queue
\* led.
LEMMA TailLeads ==
    ASSUME NEW q \in Seq(Values), q # << >>, NEW at, NEW t \in Targets, LeadsTo(q, at, t)
    PROVE  LeadsTo(Tail(q), After(Head(q), at), t)
<1>1. /\ Len(q) \in Nat \ {0} /\ Len(Tail(q)) = Len(q) - 1 /\ Head(q) = q[1]
      /\ \A k \in 1..Len(Tail(q)) : k + 1 \in 2..Len(q) /\ Tail(q)[k] = q[k + 1]
  OBVIOUS
<1>2. CASE at = t /\ \A k \in 1..Len(q) : q[k] \notin Targets
  <2>1. After(Head(q), at) = t
    BY <1>1, <1>2 DEF After
  <2>2. \A k \in 1..Len(Tail(q)) : Tail(q)[k] \notin Targets
    BY <1>1, <1>2
  <2> QED
    BY <2>1, <2>2 DEF LeadsTo
<1>3. ASSUME NEW k \in 1..Len(q), q[k] = t,
             \A j \in 1..Len(q) : j > k => q[j] \notin Targets
      PROVE  LeadsTo(Tail(q), After(Head(q), at), t)
  <2>1. CASE k = 1
    <3>1. \A j \in 1..Len(Tail(q)) : Tail(q)[j] \notin Targets
      BY <1>1, <1>3, <2>1
    <3>2. After(Head(q), at) = t
      BY <1>1, <1>3, <2>1 DEF After
    <3> QED
      BY <3>1, <3>2 DEF LeadsTo
  <2>2. CASE k # 1
    <3>1. /\ k - 1 \in 1..Len(Tail(q)) /\ Tail(q)[k - 1] = t
          /\ \A j \in 1..Len(Tail(q)) : j > k - 1 => Tail(q)[j] \notin Targets
      BY <1>1, <1>3, <2>2
    <3> QED
      BY <3>1 DEF LeadsTo
  <2> QED
    BY <2>1, <2>2
<1> QED
  BY <1>2, <1>3 DEF LeadsTo

\* A queue to which a URL is appended leads to it; any other value leaves a queue
\* leading where it led.
LEMMA AppendLeads ==
    ASSUME NEW q \in Seq(Values), NEW v \in Values, NEW at, NEW t,
           v \in Targets => v = t,
           v \notin Targets => LeadsTo(q, at, t)
    PROVE  LeadsTo(Append(q, v), at, t)
<1> DEFINE r == Append(q, v)
<1>1. /\ Len(q) \in Nat /\ Len(r) = Len(q) + 1 /\ r[Len(r)] = v
      /\ \A k \in 1..Len(q) : r[k] = q[k]
  OBVIOUS
<1> HIDE DEF r
<1>2. \A j \in 1..Len(r) : j = Len(r) \/ j \in 1..Len(q)
  BY <1>1
<1>3. CASE v \in Targets
  <2>1. Len(r) \in 1..Len(r) /\ r[Len(r)] = t /\ \A j \in 1..Len(r) : ~(j > Len(r))
    BY <1>1, <1>3
  <2> QED
    BY <2>1 DEF LeadsTo, r
<1>4. CASE v \notin Targets
  <2>1. CASE at = t /\ \A k \in 1..Len(q) : q[k] \notin Targets
    <3>1. \A k \in 1..Len(r) : r[k] \notin Targets
      BY <1>1, <1>2, <1>4, <2>1
    <3> QED
      BY <2>1, <3>1 DEF LeadsTo, r
  <2>2. ASSUME NEW k \in 1..Len(q), q[k] = t,
               \A j \in 1..Len(q) : j > k => q[j] \notin Targets
        PROVE  LeadsTo(Append(q, v), at, t)
    <3>1. k \in 1..Len(r) /\ r[k] = t
      BY <1>1, <2>2
    <3>2. \A j \in 1..Len(r) : j > k => r[j] \notin Targets
      BY <1>1, <1>2, <1>4, <2>2
    <3> QED
      BY <3>1, <3>2 DEF LeadsTo, r
  <2> QED
    BY <1>4, <2>1, <2>2 DEF LeadsTo
<1> QED
  BY <1>3, <1>4

LEMMA StepKeepsHeardLast ==
    ASSUME IInv, [Next]_vars
    PROVE  HeardLast'
<1>1. TypeOK /\ HeardLast /\ heard \subseteq Nodes
  BY DEF IInv, TypeOK
<1>2. CASE UNCHANGED <<phase, target, pending, heard, last>>
  BY <1>1, <1>2 DEF HeardLast
<1>3. ASSUME NEW n \in Nodes, Boot(n) \/ OpenWatch(n)
      PROVE  HeardLast'
  <2>1. n \notin heard
    BY <1>1, <1>3 DEF HeardLast, Boot, OpenWatch
  <2>2. \A m \in Nodes : m # n => phase'[m] = phase[m]
    BY <1>1, <1>3 DEF Boot, OpenWatch, TypeOK
  <2>3. UNCHANGED <<target, pending, heard, last>>
    BY <1>3 DEF Boot, OpenWatch
  <2> QED
    BY <1>1, <2>1, <2>2, <2>3 DEF HeardLast
<1>4. ASSUME NEW n \in Nodes, CloseWatch(n) \/ Crash(n)
      PROVE  HeardLast'
  <2>1. heard' = heard \ {n} /\ last' = last
    BY <1>4 DEF CloseWatch, Crash
  <2>2. \A m \in Nodes : m # n => /\ phase'[m] = phase[m] /\ pending'[m] = pending[m]
                                  /\ target'[m] = target[m]
    BY <1>1, <1>4 DEF CloseWatch, Crash, TypeOK
  <2> QED
    BY <1>1, <2>1, <2>2 DEF HeardLast
<1>5. ASSUME NEW n \in Nodes, Deliver(n)
      PROVE  HeardLast'
  <2> DEFINE q == pending[n]
  <2>1. q \in Seq(Values) /\ q # << >>
    BY <1>1, <1>5 DEF Deliver, TypeOK
  <2>2. /\ target' = [target EXCEPT ![n] = After(Head(q), target[n])]
        /\ pending' = [pending EXCEPT ![n] = Tail(q)]
        /\ UNCHANGED <<phase, heard, last>>
    BY <1>5 DEF Deliver
  <2>3. target'[n] = After(Head(q), target[n]) /\ pending'[n] = Tail(q)
    BY <1>1, <2>2 DEF TypeOK
  <2> HIDE DEF q
  <2>4. ASSUME LeadsTo(q, target[n], last)
        PROVE  LeadsTo(Tail(q), target'[n], last)
    <3>1. last \in Targets
      BY <1>1 DEF TypeOK
    <3> QED
      BY <2>1, <2>3, <2>4, <3>1, TailLeads
  <2>5. \A m \in Nodes : m # n => pending'[m] = pending[m] /\ target'[m] = target[m]
    BY <1>1, <2>2 DEF TypeOK
  <2>6. n \in heard => phase[n] = "watching" /\ LeadsTo(q, target[n], last)
    BY <1>1 DEF HeardLast, q
  <2> QED
    BY <1>1, <2>2, <2>3, <2>4, <2>5, <2>6 DEF HeardLast
<1>6. ASSUME NEW n \in Nodes, NEW w \in Workers, Put(n, w)
      PROVE  HeardLast'
  <2> DEFINE v == recovery[n][w]
  <2>1. /\ pending' = [m \in Nodes |-> IF m \in Watching THEN Append(pending[m], v)
                                      ELSE pending[m]]
        /\ IF v \in Targets THEN last' = v /\ heard' = Watching
                            ELSE UNCHANGED <<last, heard>>
        /\ phase' = phase /\ target' = target /\ v \in Values
    BY <1>6 DEF Put
  <2> HIDE DEF v
  <2>2. ASSUME NEW m \in Watching
        PROVE  /\ m \in Nodes /\ phase[m] = "watching" /\ pending[m] \in Seq(Values)
               /\ pending'[m] = Append(pending[m], v)
    BY <1>1, <2>1 DEF Watching, TypeOK
  <2>3. CASE v \in Targets
    <3>1. ASSUME NEW m \in Watching
          PROVE  LeadsTo(pending'[m], target'[m], v)
      BY <2>1, <2>2, <2>3, AppendLeads
    <3> QED
      BY <2>1, <2>2, <2>3, <3>1 DEF HeardLast
  <2>4. CASE v \notin Targets
    <3>1. ASSUME NEW m \in heard
          PROVE  m \in Watching /\ LeadsTo(pending'[m], target[m], last)
      <4>1. m \in Watching /\ LeadsTo(pending[m], target[m], last)
        BY <1>1 DEF HeardLast, Watching
      <4> QED
        BY <2>1, <2>2, <2>4, <4>1, AppendLeads
    <3> QED
      BY <2>1, <2>2, <2>4, <3>1 DEF HeardLast
  <2> QED
    BY <2>3, <2>4
<1>7. \/ UNCHANGED <<phase, target, pending, heard, last>>
      \/ \E n \in Nodes : Boot(n) \/ OpenWatch(n) \/ CloseWatch(n) \/ Crash(n) \/ Deliver(n)
      \/ \E n \in Nodes, w \in Workers : Put(n, w)
  BY DEF Next, vars, Begin, Finish, ClientLeaves, Recorded, Elsewhere, Interval, NoAdvice,
         PutFails, Advice, Turn, proxyVars
<1> QED
  BY <1>2, <1>3, <1>4, <1>5, <1>6, <1>7

-----------------------------------------------------------------------------
(* The theorems.                                                            *)

LEMMA Invariance == Spec => []IInv
<1>1. IInv /\ [Next]_vars => IInv'
  BY StepKeepsTypes, StepKeepsOneRecovery, StepKeepsHeardLast DEF IInv
<1> QED
  BY InitIInv, <1>1, PTL DEF Spec

\* The state stays well typed: no more requests are counted as failed than were
\* counted, whichever clients go away and whenever an interval ends.
THEOREM TypeCorrect == Spec => []TypeOK
<1>1. IInv => TypeOK
  BY DEF IInv
<1> QED
  BY <1>1, Invariance, PTL

\* A node asks for one failover at a time, and isFailingOver is never left set
\* without a recovery under way (healer.go:124-145).
THEOREM OneRecoveryAtATime == Spec => []SingleFlight
<1>1. ASSUME IInv
      PROVE  SingleFlight
  <2> SUFFICES ASSUME NEW n \in Nodes
               PROVE  Cardinality(Busy(n)) <= 1 /\ (failingOver[n] <=> Busy(n) # {})
    BY DEF SingleFlight, Busy
  <2>1. IF failingOver[n] THEN \E w \in Workers : Busy(n) = {w} ELSE Busy(n) = {}
    BY <1>1 DEF IInv, OneRecovery
  <2>2. CASE failingOver[n]
    <3>1. PICK w \in Workers : Busy(n) = {w}
      BY <2>1, <2>2
    <3>2. Cardinality(Busy(n)) = 1
      BY <3>1, FS_Singleton
    <3> QED
      BY <2>2, <3>1, <3>2
  <2>3. CASE ~failingOver[n]
    <3>1. Busy(n) = {} /\ Cardinality(Busy(n)) = 0
      BY <2>1, <2>3, FS_EmptySet
    <3> QED
      BY <2>3, <3>1
  <2> QED
    BY <2>2, <2>3
<1> QED
  BY <1>1, Invariance, PTL

\* Nodes that heard the latest failover to a URL and have nothing left to deliver
\* send their requests to its target, however failovers of several healers, values
\* that are no URL and deliveries overlap.
THEOREM NodesAgree == Spec => []DrainedNodesAgree
<1>1. ASSUME IInv
      PROVE  DrainedNodesAgree
  <2> SUFFICES ASSUME NEW n \in heard, pending[n] = << >>
               PROVE  target[n] = last
    BY DEF DrainedNodesAgree
  <2>1. LeadsTo(<< >>, target[n], last)
    BY <1>1 DEF IInv, HeardLast
  <2> QED
    BY <2>1 DEF LeadsTo
<1> QED
  BY <1>1, Invariance, PTL
=============================================================================
