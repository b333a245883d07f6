------------------------ MODULE SlidingWindow_proofs -----------------------
(***************************************************************************)
(* Proofs about SlidingWindow, for any number of requests, clients and     *)
(* policies and any limits and windows: its types, that the log forgets a  *)
(* request only when it is old, that a span of time is bounded, and that   *)
(* no request is denied early.                                             *)
(***************************************************************************)
EXTENDS SlidingWindow, FiniteSetTheorems, TLAPS

-----------------------------------------------------------------------------
(* Types.                                                                   *)

\* A script run in a state of the right types leaves the logs well typed.
LEMMA RunScriptType ==
    ASSUME TypeOK, NEW r \in Requests, pc[r] # "idle", RunScript(r)
    PROVE  /\ log' \in [Clients -> SUBSET Requests]
           /\ expireAt' \in [Clients -> Nat]
           /\ logged' \subseteq logged \cup {r}
           /\ \A c \in Clients : log'[c] \subseteq logged'
<1> DEFINE c0 == call[r].client
           p0 == call[r].policy
<1>1. c0 \in Clients /\ p0 \in Policies /\ Window[p0] \in Nat
  BY PolicyTypes DEF TypeOK, Call
<1>2. Kept(r) \subseteq log[c0]
  BY DEF Kept, Live
<1>3. log[c0] \subseteq logged /\ logged \subseteq Requests
  BY <1>1 DEF TypeOK
<1>4. CASE HasRoom(r)
  <2> DEFINE added == {q \in Kept(r) : Member(q) # Member(r)} \cup {r}
  <2>1. /\ log' = [log EXCEPT ![c0] = added]
        /\ expireAt' = [expireAt EXCEPT ![c0] = clock + Window[p0]]
        /\ logged' = logged \cup {r}
    BY <1>4 DEF RunScript
  <2>2. added \subseteq logged'
    BY <1>2, <1>3, <2>1
  <2>3. added \subseteq Requests
    BY <1>2, <1>3
  <2> HIDE DEF added, c0, p0
  <2>4. log' \in [Clients -> SUBSET Requests]
    BY <2>1, <2>3 DEF TypeOK
  <2>5. expireAt' \in [Clients -> Nat]
    <3>1. clock + Window[p0] \in Nat
      BY <1>1 DEF TypeOK
    <3> QED
      BY <2>1, <3>1 DEF TypeOK
  <2>6. \A c \in Clients : log'[c] \subseteq logged'
    BY <1>1, <2>1, <2>2 DEF TypeOK
  <2> QED
    BY <2>1, <2>4, <2>5, <2>6
<1>5. CASE ~HasRoom(r)
  <2>1. /\ log' = [log EXCEPT ![c0] = Kept(r)]
        /\ UNCHANGED <<expireAt, logged>>
    BY <1>5 DEF RunScript
  <2> HIDE DEF c0, p0
  <2> QED
    BY <1>1, <1>2, <1>3, <2>1 DEF TypeOK
<1> QED
  BY <1>4, <1>5

\* The types are preserved by a step of any kind that runs the script for r.
LEMMA ScriptStepType ==
    ASSUME TypeOK, NEW r \in Requests, pc[r] # "idle", RunScript(r),
           NEW answer \in Answers, pc' = [pc EXCEPT ![r] = answer],
           UNCHANGED <<clock, scriptCached, call>>
    PROVE  TypeOK'
<1>1. /\ log' \in [Clients -> SUBSET Requests]
      /\ expireAt' \in [Clients -> Nat]
      /\ logged' \subseteq logged \cup {r}
      /\ \A c \in Clients : log'[c] \subseteq logged'
  BY RunScriptType
<1>2. pc' \in [Requests -> {"idle"} \cup Pending \cup Answers]
  BY DEF TypeOK
<1>3. \A q \in Requests : pc'[q] # "idle" => pc[q] # "idle"
  BY DEF TypeOK
<1>4. pc'[r] # "idle" /\ \A q \in Requests : pc[q] # "idle" => pc'[q] # "idle"
  BY DEF TypeOK, Answers
<1>5. logged' \subseteq {q \in Requests : pc'[q] # "idle"}
  BY <1>1, <1>4 DEF TypeOK
<1> QED
  BY <1>1, <1>2, <1>3, <1>5 DEF TypeOK

\* Every reachable state has the types TypeOK says.
THEOREM TypeCorrect == Spec => []TypeOK
<1>1. Init => TypeOK
  BY TimingTypes DEF Init, TypeOK
<1>2. TypeOK /\ [Next]_vars => TypeOK'
  <2> SUFFICES ASSUME TypeOK, [Next]_vars PROVE TypeOK'
    OBVIOUS
  <2> USE DEF TypeOK, Pending, Answers
  <2>1. ASSUME NEW r \in Requests, Begin(r) PROVE TypeOK'
    <3>1. PICK c \in Clients, p \in Policies, now \in (clock - Lag)..(clock + Ahead) :
             call' = [call EXCEPT ![r] = [client |-> c, policy |-> p, now |-> now]]
      BY <2>1 DEF Begin
    <3>2. [client |-> c, policy |-> p, now |-> now] \in Call
      BY TimingTypes DEF Call
    <3>3. /\ call' \in [Requests -> Call \cup {<< >>}]
          /\ \A q \in Requests : pc'[q] # "idle" => call'[q] \in Call
      BY <2>1, <3>1, <3>2 DEF Begin
    <3>4. pc' \in [Requests -> {"idle"} \cup Pending \cup Answers]
      BY <2>1 DEF Begin
    <3>5. logged' \subseteq {q \in Requests : pc'[q] # "idle"}
      BY <2>1 DEF Begin
    <3> QED
      BY <2>1, <3>3, <3>4, <3>5 DEF Begin
  <2>2. ASSUME NEW r \in Requests, Execute(r) PROVE TypeOK'
    <3> DEFINE answer == IF HasRoom(r) THEN "allowed" ELSE "denied"
    <3>1. answer \in Answers
      OBVIOUS
    <3> HIDE DEF answer
    <3>2. pc' = [pc EXCEPT ![r] = answer]
      BY <2>2 DEF Execute, answer
    <3> QED
      BY <2>2, <3>1, <3>2, ScriptStepType DEF Execute
  <2>3. ASSUME NEW r \in Requests, ReplyLost(r) PROVE TypeOK'
    BY <2>3, ScriptStepType DEF ReplyLost
  <2>4. ASSUME NEW r \in Requests,
               RedisError(r) \/ NoScript(r) \/ Reload(r) \/ NoScriptAgain(r)
        PROVE  TypeOK'
    BY <2>4 DEF RedisError, NoScript, Reload, NoScriptAgain
  <2>5. CASE FlushScripts
    BY <2>5 DEF FlushScripts
  <2>6. CASE Tick
    BY <2>6 DEF Tick
  <2>7. CASE UNCHANGED vars
    BY <2>7 DEF vars
  <2> QED
    BY <2>1, <2>2, <2>3, <2>4, <2>5, <2>6, <2>7 DEF Next
<1> QED
  BY <1>1, <1>2, PTL DEF Spec
-----------------------------------------------------------------------------
(* What a log forgets.                                                      *)

\* A call's timestamp is bounded by Redis's clock from both sides.
Timely ==
    \A r \in Requests :
        /\ pc[r] # "idle" => call[r].now <= clock + Ahead
        /\ pc[r] \in Pending => clock <= call[r].now + Lag

\* A log holds requests of its own client only.
OwnLog == \A c \in Clients : \A q \in log[c] : call[q].client = c

\* The inductive invariant: SpanLimit needs to know that the script counts every
\* recent request, hence what logs forget, hence how old timestamps can be.
IInv == TypeOK /\ Timely /\ OwnLog /\ ForgottenOnlyWhenOld /\ SpanLimit

\* What the types say of a call that has been made.
LEMMA CallTypes ==
    ASSUME TypeOK, NEW r \in Requests, pc[r] # "idle"
    PROVE  /\ call[r].client \in Clients
           /\ call[r].policy \in Policies
           /\ call[r].now \in Int
           /\ Window[call[r].policy] \in Nat
           /\ Limit[call[r].policy] \in Nat
           /\ Limit[call[r].policy] <= Cap
           /\ Span + Lag + Ahead <= Window[call[r].policy]
BY PolicyTypes, SpanFits DEF TypeOK, Call

\* The requests a purge leaves, and all sets of requests, are finite.
LEMMA FiniteSubsets ==
    ASSUME NEW S \in SUBSET Requests, NEW T \in SUBSET S
    PROVE  /\ IsFiniteSet(S) /\ IsFiniteSet(T)
           /\ Cardinality(S) \in Nat /\ Cardinality(T) \in Nat
           /\ Cardinality(T) <= Cardinality(S)
<1>1. IsFiniteSet(S)
  BY FiniteRequests, FS_Subset
<1>2. IsFiniteSet(T) /\ Cardinality(T) <= Cardinality(S)
  BY <1>1, FS_Subset
<1> QED
  BY <1>1, <1>2, FS_CardinalityType

\* A logged request of r's client that is less than Span and Lag older than
\* the clock is counted by r's run of the script.
LEMMA RecentIsCounted ==
    ASSUME TypeOK, Timely, ForgottenOnlyWhenOld,
           NEW r \in Requests, pc[r] \in Pending,
           NEW q \in logged, call[q].client = call[r].client,
           clock < call[q].now + Span + Lag
    PROVE  q \in Kept(r)
<1> DEFINE c == call[r].client
<1>1. q \in Requests /\ pc[q] # "idle" /\ pc[r] # "idle"
  BY DEF TypeOK, Pending
<1>2. /\ call[q].now \in Int /\ call[r].now \in Int
      /\ Window[call[r].policy] \in Nat
      /\ Span + Lag + Ahead <= Window[call[r].policy]
      /\ c \in Clients /\ expireAt[c] \in Nat /\ clock \in Nat
  BY <1>1, CallTypes DEF TypeOK
<1>3. q \in log[c] /\ clock < expireAt[c]
  BY <1>2, TimingTypes, SpanFits DEF ForgottenOnlyWhenOld
<1>4. call[q].now > call[r].now - Window[call[r].policy]
  BY <1>1, <1>2, TimingTypes, SpanFits DEF Timely
<1> QED
  BY <1>3, <1>4 DEF Kept, Live

\* A request that r's run of the script drops from the log is old.
LEMMA DroppedIsOld ==
    ASSUME TypeOK, Timely, ForgottenOnlyWhenOld,
           NEW r \in Requests, pc[r] \in Pending,
           NEW q \in logged, call[q].client = call[r].client,
           q \notin Kept(r)
    PROVE  call[q].now + Span + Lag <= clock
<1>1. q \in Requests /\ pc[q] # "idle"
  BY DEF TypeOK
<1>2. call[q].now \in Int /\ clock \in Nat
  BY <1>1, CallTypes DEF TypeOK
<1> QED
  BY <1>2, RecentIsCounted, TimingTypes, SpanFits

\* What a run of the script does to the logs when no two requests have the same
\* suffix: the new member displaces none.
LEMMA RunScriptEffect ==
    ASSUME DistinctSuffixes, TypeOK, NEW r \in Requests, pc[r] # "idle", RunScript(r)
    PROVE  LET c == call[r].client
           IN  /\ \A d \in Clients \ {c} :
                     log'[d] = log[d] /\ expireAt'[d] = expireAt[d]
               /\ HasRoom(r) =>
                     /\ log'[c] = Kept(r) \cup {r}
                     /\ expireAt'[c] = clock + Window[call[r].policy]
                     /\ logged' = logged \cup {r}
               /\ ~HasRoom(r) =>
                     /\ log'[c] = Kept(r)
                     /\ expireAt'[c] = expireAt[c]
                     /\ logged' = logged
<1> DEFINE c == call[r].client
<1>1. c \in Clients
  BY CallTypes
<1>2. Kept(r) \subseteq Requests
  BY <1>1 DEF Kept, Live, TypeOK
<1>3. {q \in Kept(r) : Member(q) # Member(r)} \cup {r} = Kept(r) \cup {r}
  BY <1>2 DEF DistinctSuffixes, Member
<1> QED
  BY <1>1, <1>3 DEF RunScript, TypeOK

\* The script preserves what logs may forget.
LEMMA ScriptForgetsOld ==
    ASSUME DistinctSuffixes, TypeOK, Timely, OwnLog, ForgottenOnlyWhenOld,
           NEW r \in Requests, pc[r] \in Pending, RunScript(r),
           UNCHANGED <<clock, call>>
    PROVE  (OwnLog /\ ForgottenOnlyWhenOld)'
<1> DEFINE c == call[r].client
<1>1. pc[r] # "idle" /\ c \in Clients /\ clock \in Nat
  BY CallTypes DEF Pending, TypeOK
<1>2. /\ call[r].now \in Int /\ Window[call[r].policy] \in Nat
      /\ call[r].now <= clock + Ahead
      /\ Span + Lag + Ahead <= Window[call[r].policy]
  BY <1>1, CallTypes DEF Timely
<1>3. Kept(r) \subseteq log[c]
  BY DEF Kept, Live
<1>4. OwnLog'
  <2> SUFFICES ASSUME NEW d \in Clients, NEW q \in log'[d] PROVE call[q].client = d
    BY DEF OwnLog
  <2>1. q \in log[d] \/ (d = c /\ q = r)
    BY <1>1, <1>3, RunScriptEffect
  <2> QED
    BY <2>1 DEF OwnLog
<1>5. ForgottenOnlyWhenOld'
  <2> SUFFICES ASSUME NEW q \in logged'
               PROVE  /\ call[q].now + Span + Lag <= clock \/ q \in log'[call[q].client]
                      /\ call[q].now + Span + Lag <= expireAt'[call[q].client]
    BY DEF ForgottenOnlyWhenOld
  <2>1. q \in logged \/ (q = r /\ HasRoom(r))
    BY <1>1, RunScriptEffect
  <2>2. q \in Requests /\ pc[q] # "idle"
    BY <1>1, <2>1 DEF TypeOK
  <2>3. /\ call[q].client \in Clients /\ call[q].now \in Int
        /\ call[q].now <= clock + Ahead
    BY <2>2, CallTypes DEF Timely
  <2>4. CASE call[q].client # c
    BY <1>1, <2>1, <2>3, <2>4, RunScriptEffect DEF ForgottenOnlyWhenOld
  <2>5. CASE call[q].client = c
    <3>1. call[q].now + Span + Lag <= clock \/ q \in log'[c]
      <4>1. CASE q = r /\ HasRoom(r)
        BY <1>1, <4>1, RunScriptEffect
      <4>2. CASE q \in logged
        BY <1>1, <2>5, <4>2, DroppedIsOld, RunScriptEffect
      <4> QED
        BY <2>1, <4>1, <4>2
    <3>2. call[q].now + Span + Lag <= expireAt'[c]
      <4>1. CASE HasRoom(r)
        <5>1. expireAt'[c] = clock + Window[call[r].policy]
          BY <1>1, <4>1, RunScriptEffect
        <5> QED
          BY <1>1, <1>2, <2>3, <5>1, TimingTypes, SpanFits
      <4>2. CASE ~HasRoom(r)
        BY <1>1, <2>1, <2>5, <4>2, RunScriptEffect DEF ForgottenOnlyWhenOld
      <4> QED
        BY <4>1, <4>2
    <3> QED
      BY <2>5, <3>1, <3>2
  <2> QED
    BY <2>4, <2>5
<1> QED
  BY <1>4, <1>5

\* The script preserves SpanLimit: the requests that a newly logged one shares a
\* span with are all counted when it asks for room.
LEMMA ScriptKeepsSpanLimit ==
    ASSUME DistinctSuffixes, IInv, NEW r \in Requests, pc[r] \in Pending,
           RunScript(r), UNCHANGED <<clock, call>>
    PROVE  SpanLimit'
<1> USE DEF IInv
<1>1. /\ pc[r] # "idle" /\ clock \in Nat /\ call[r].now \in Int
      /\ clock <= call[r].now + Lag
      /\ Limit[call[r].policy] \in Nat /\ Limit[call[r].policy] <= Cap
  BY CallTypes DEF Pending, TypeOK, Timely
<1>2. CASE ~HasRoom(r)
  BY <1>1, <1>2, RunScriptEffect DEF SpanLimit, InSpan
<1>3. CASE HasRoom(r)
  <2> SUFFICES ASSUME NEW s \in logged' PROVE Cardinality(InSpan(s)') <= Cap
    BY DEF SpanLimit
  <2>1. logged' = logged \cup {r} /\ logged \subseteq Requests
    BY <1>1, <1>3, RunScriptEffect DEF TypeOK
  <2>2. s \in Requests /\ call[s].now \in Int
    BY <1>1, <2>1, CallTypes DEF TypeOK
  <2>3. InSpan(s)' \subseteq InSpan(s) \cup {r}
    BY <2>1 DEF InSpan
  <2>4. CASE r \in InSpan(s)'
    <3>1. InSpan(s)' \ {r} \subseteq Kept(r)
      <4> SUFFICES ASSUME NEW q \in InSpan(s)', q # r PROVE q \in Kept(r)
        OBVIOUS
      <4>1. /\ q \in logged /\ call[q].client = call[r].client
            /\ call[s].now - Span < call[q].now
            /\ call[r].now <= call[s].now
        BY <2>1, <2>4 DEF InSpan
      <4>2. call[q].now \in Int
        BY <4>1, CallTypes DEF TypeOK
      <4>3. clock < call[q].now + Span + Lag
        BY <1>1, <2>2, <4>1, <4>2, TimingTypes, SpanFits
      <4> QED
        BY <4>1, <4>3, RecentIsCounted
    <3>2. Kept(r) \in SUBSET Requests
      BY <1>1, CallTypes DEF Kept, Live, TypeOK
    <3>3. /\ IsFiniteSet(InSpan(s)' \ {r})
          /\ Cardinality(InSpan(s)' \ {r}) \in Nat /\ Cardinality(Kept(r)) \in Nat
          /\ Cardinality(InSpan(s)' \ {r}) <= Cardinality(Kept(r))
      BY <3>1, <3>2, FiniteSubsets
    <3>4. Cardinality(Kept(r)) < Limit[call[r].policy]
      BY <1>3 DEF HasRoom
    <3> DEFINE others == InSpan(s)' \ {r}
    <3>5. InSpan(s)' = others \cup {r}
      BY <2>4
    <3>6. r \notin others
      OBVIOUS
    <3> HIDE DEF others
    <3>7. Cardinality(others \cup {r}) = Cardinality(others) + 1
      BY <3>3, <3>6, FS_AddElement DEF others
    <3>8. Cardinality(InSpan(s)') = Cardinality(others) + 1
      BY <3>5, <3>7, Zenon
    <3>9. Cardinality(others) + 1 <= Cap
      BY <1>1, <3>3, <3>4, SpanFits DEF others
    <3> QED
      BY <3>8, <3>9, Zenon
  <2>5. CASE r \notin InSpan(s)'
    <3>1. CASE s \in logged
      <4>1. InSpan(s)' = InSpan(s)
        BY <2>1, <2>5 DEF InSpan
      <4> QED
        BY <3>1, <4>1 DEF SpanLimit
    <3>2. CASE s = r
      <4>1. ~(call[r].now - Span < call[r].now)
        BY <1>1, <2>1, <2>5, <3>2 DEF InSpan
      <4>2. InSpan(s)' = {}
        <5> SUFFICES ASSUME NEW q \in InSpan(s)' PROVE FALSE
          OBVIOUS
        <5>1. /\ call[q].now \in Int
              /\ call[r].now - Span < call[q].now /\ call[q].now <= call[r].now
          BY <2>1, <2>3, <2>5, <3>2, CallTypes DEF InSpan, TypeOK
        <5> QED
          BY <1>1, <4>1, <5>1, SpanFits
      <4> QED
        BY <4>2, FS_EmptySet, SpanFits
    <3> QED
      BY <2>1, <3>1, <3>2
  <2> QED
    BY <2>4, <2>5
<1> QED
  BY <1>2, <1>3

-----------------------------------------------------------------------------
(* The theorems.                                                            *)

\* Steps that run the script preserve the invariant.
LEMMA ScriptStep ==
    ASSUME DistinctSuffixes, IInv, NEW r \in Requests, pc[r] \in Pending,
           RunScript(r), NEW answer \in Answers,
           pc' = [pc EXCEPT ![r] = answer], UNCHANGED <<clock, scriptCached, call>>
    PROVE  IInv'
<1>1. pc[r] # "idle"
  BY DEF Pending
<1>2. TypeOK'
  BY <1>1, ScriptStepType DEF IInv
<1>3. Timely'
  <2> SUFFICES ASSUME NEW q \in Requests
               PROVE  /\ pc'[q] # "idle" => call[q].now <= clock + Ahead
                      /\ pc'[q] \in Pending => clock <= call[q].now + Lag
    BY DEF Timely
  <2>1. /\ pc'[q] # "idle" => pc[q] # "idle"
        /\ pc'[q] \in Pending => pc[q] \in Pending
    BY <1>1 DEF IInv, TypeOK, Pending, Answers
  <2> QED
    BY <2>1 DEF IInv, Timely
<1>4. (OwnLog /\ ForgottenOnlyWhenOld)'
  BY ScriptForgetsOld DEF IInv
<1>5. SpanLimit'
  BY ScriptKeepsSpanLimit
<1> QED
  BY <1>2, <1>3, <1>4, <1>5 DEF IInv

\* Steps that leave logs, clock and the calls already made alone preserve it.
LEMMA QuietStep ==
    ASSUME IInv, TypeOK', Timely', UNCHANGED <<clock, log, expireAt, logged>>,
           \A q \in logged : call'[q] = call[q]
    PROVE  IInv'
<1>1. \A c \in Clients : log[c] \subseteq logged
  BY DEF IInv, TypeOK
<1>2. OwnLog'
  BY <1>1 DEF IInv, OwnLog
<1>3. ForgottenOnlyWhenOld'
  BY DEF IInv, ForgottenOnlyWhenOld
<1>4. SpanLimit'
  <2>1. \A s \in logged : InSpan(s)' = InSpan(s)
    BY DEF InSpan
  <2> QED
    BY <2>1 DEF IInv, SpanLimit
<1> QED
  BY <1>2, <1>3, <1>4 DEF IInv

\* The invariant holds in every reachable state.
LEMMA Invariance ==
    ASSUME DistinctSuffixes
    PROVE  Spec => []IInv
<1>1. Init => IInv
  BY TimingTypes DEF Init, IInv, TypeOK, Timely, OwnLog, ForgottenOnlyWhenOld,
     SpanLimit, Pending
<1>2. IInv /\ TypeOK' /\ [Next]_vars => IInv'
  <2> SUFFICES ASSUME IInv, TypeOK', [Next]_vars PROVE IInv'
    OBVIOUS
  <2>1. ASSUME NEW r \in Requests, Begin(r) PROVE IInv'
    <3>1. /\ r \notin logged /\ \A q \in logged : q \in Requests
          /\ \A q \in Requests \ {r} : call'[q] = call[q] /\ pc'[q] = pc[q]
      BY <2>1 DEF Begin, IInv, TypeOK
    <3>2. call'[r].now \in (clock - Lag)..(clock + Ahead)
      BY <2>1 DEF Begin, IInv, TypeOK
    <3>3. Timely'
      BY <2>1, <3>1, <3>2, TimingTypes DEF Begin, IInv, Timely, TypeOK
    <3> QED
      BY <2>1, <3>1, <3>3, QuietStep DEF Begin
  <2>2. ASSUME NEW r \in Requests, Execute(r) PROVE IInv'
    <3> DEFINE answer == IF HasRoom(r) THEN "allowed" ELSE "denied"
    <3>1. answer \in Answers /\ pc[r] \in Pending
      BY <2>2 DEF Execute, Answers, Pending
    <3> HIDE DEF answer
    <3>2. pc' = [pc EXCEPT ![r] = answer]
      BY <2>2 DEF Execute, answer
    <3> QED
      BY <2>2, <3>1, <3>2, ScriptStep DEF Execute
  <2>3. ASSUME NEW r \in Requests, ReplyLost(r) PROVE IInv'
    <3>1. "error" \in Answers /\ pc[r] \in Pending
      BY <2>3 DEF ReplyLost, Answers, Pending
    <3> QED
      BY <2>3, <3>1, ScriptStep DEF ReplyLost
  <2>4. ASSUME NEW r \in Requests,
               RedisError(r) \/ NoScript(r) \/ Reload(r) \/ NoScriptAgain(r)
        PROVE  IInv'
    <3>1. UNCHANGED <<clock, log, expireAt, logged>> /\ call' = call
      BY <2>4 DEF RedisError, NoScript, Reload, NoScriptAgain
    <3>2. \A q \in Requests :
             /\ pc'[q] # "idle" => pc[q] # "idle"
             /\ pc'[q] \in Pending => pc[q] \in Pending
      BY <2>4 DEF RedisError, NoScript, Reload, NoScriptAgain, Pending, IInv, TypeOK
    <3>3. Timely'
      BY <3>1, <3>2 DEF IInv, Timely
    <3> QED
      BY <3>1, <3>3, QuietStep
  <2>5. CASE FlushScripts \/ UNCHANGED vars
    <3>1. Timely'
      BY <2>5 DEF FlushScripts, vars, IInv, Timely
    <3> QED
      BY <2>5, <3>1, QuietStep DEF FlushScripts, vars
  <2>6. CASE Tick
    <3>1. /\ clock \in Nat /\ clock' = clock + 1
          /\ UNCHANGED <<log, expireAt, pc, call, logged>>
      BY <2>6 DEF Tick, IInv, TypeOK
    <3>2. \A q \in Requests : pc[q] # "idle" => call[q].now \in Int
      BY CallTypes DEF IInv
    <3>3. Timely'
      <4> SUFFICES ASSUME NEW q \in Requests
                   PROVE  /\ pc[q] # "idle" => call[q].now <= clock + 1 + Ahead
                          /\ pc[q] \in Pending => clock + 1 <= call[q].now + Lag
        BY <3>1 DEF Timely
      <4>1. pc[q] # "idle" => call[q].now <= clock + 1 + Ahead
        BY <3>1, <3>2, TimingTypes DEF IInv, Timely
      <4>2. pc[q] \in Pending => pc[q] # "idle" /\ clock < call[q].now + Lag
        BY <2>6 DEF Tick, Pending
      <4> QED
        BY <3>1, <3>2, <4>1, <4>2, TimingTypes
    <3>4. OwnLog' /\ SpanLimit'
      BY <3>1 DEF IInv, OwnLog, SpanLimit, InSpan
    <3>5. ForgottenOnlyWhenOld'
      <4>1. \A q \in logged : call[q].now \in Int
        BY <3>2 DEF IInv, TypeOK
      <4> QED
        BY <3>1, <4>1, TimingTypes, SpanFits DEF IInv, ForgottenOnlyWhenOld
    <3> QED
      BY <3>3, <3>4, <3>5 DEF IInv
  <2> QED
    BY <2>1, <2>2, <2>3, <2>4, <2>5, <2>6 DEF Next
<1> QED
  BY <1>1, <1>2, TypeCorrect, PTL DEF Spec

\* Logs forget a request only when it is too old to matter for SpanLimit.
THEOREM LogsForgetOnlyOld ==
    ASSUME DistinctSuffixes
    PROVE  Spec => []ForgottenOnlyWhenOld
<1>1. IInv => ForgottenOnlyWhenOld
  BY DEF IInv
<1> QED
  BY <1>1, Invariance, PTL

\* If the random suffixes differ, no Span that leaves Lag and Ahead free within
\* every window holds more logged requests of a client than the largest limit,
\* in whatever order and with whatever policies the scripts run.
THEOREM SpanLimitHolds ==
    ASSUME DistinctSuffixes
    PROVE  Spec => []SpanLimit
<1>1. IInv => SpanLimit
  BY DEF IInv
<1> QED
  BY <1>1, Invariance, PTL

\* A request is denied only when its client has its policy's limit of requests on
\* record within the window before it (with or without distinct suffixes).
THEOREM DeniedOnlyAtLimit == Spec => NeverDeniedEarly
<1> DEFINE recent(r) == {q \in logged :
              /\ call[q].client = call[r].client
              /\ call[q].now > call[r].now - Window[call[r].policy]}
<1>1. Init => TypeOK /\ OwnLog
  BY TimingTypes DEF Init, TypeOK, OwnLog
<1>2. TypeOK /\ OwnLog /\ TypeOK' /\ [Next]_vars => OwnLog'
  <2> SUFFICES ASSUME TypeOK, OwnLog, [Next]_vars,
                      NEW d \in Clients, NEW q \in log'[d]
               PROVE  call'[q].client = d
    BY DEF OwnLog
  <2>1. CASE q \in log[d]
    <3>1. q \in Requests /\ pc[q] # "idle"
      BY <2>1 DEF TypeOK
    <3>2. call'[q] = call[q]
      BY <3>1 DEF Next, Begin, Execute, ReplyLost, RedisError, NoScript, Reload,
         NoScriptAgain, FlushScripts, Tick, vars, TypeOK
    <3> QED
      BY <2>1, <3>2 DEF OwnLog
  <2>2. CASE q \notin log[d]
    <3>1. PICK r \in Requests : pc[r] \in Pending /\ RunScript(r) /\ UNCHANGED call
      BY <2>2 DEF Next, Begin, Execute, ReplyLost, RedisError, NoScript, Reload,
         NoScriptAgain, FlushScripts, Tick, vars, Pending
    <3>2. call[r].client \in Clients
      BY <3>1, CallTypes DEF Pending
    <3>3. Kept(r) \subseteq log[call[r].client]
      BY DEF Kept, Live
    <3>4. d = call[r].client /\ q = r
      BY <2>2, <3>1, <3>2, <3>3 DEF RunScript, TypeOK
    <3> QED
      BY <3>1, <3>4
  <2> QED
    BY <2>1, <2>2
<1>3. TypeOK /\ OwnLog /\ [Next]_vars => DeniedAtLimit
  <2> SUFFICES ASSUME TypeOK, OwnLog, [Next]_vars, NEW r \in Requests,
                      pc[r] # "denied", pc'[r] = "denied"
               PROVE  Cardinality(recent(r)) >= Limit[call[r].policy]
    BY DEF DeniedAtLimit
  <2>1. Execute(r) /\ ~HasRoom(r)
    BY DEF Next, Begin, Execute, ReplyLost, RedisError, NoScript, Reload,
       NoScriptAgain, FlushScripts, Tick, vars, TypeOK
  <2>2. pc[r] # "idle" /\ call[r].client \in Clients /\ Limit[call[r].policy] \in Nat
    BY <2>1, CallTypes DEF Execute
  <2>3. Kept(r) \subseteq recent(r)
    BY <2>2 DEF Kept, Live, OwnLog, TypeOK
  <2>4. recent(r) \in SUBSET Requests
    BY DEF TypeOK
  <2> HIDE DEF recent
  <2>5. /\ Cardinality(Kept(r)) <= Cardinality(recent(r))
        /\ Cardinality(Kept(r)) \in Nat /\ Cardinality(recent(r)) \in Nat
    BY <2>3, <2>4, FiniteSubsets
  <2> QED
    BY <2>1, <2>2, <2>5 DEF HasRoom
<1> QED
  BY <1>1, <1>2, <1>3, TypeCorrect, PTL DEF Spec, NeverDeniedEarly
=============================================================================
