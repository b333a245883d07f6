--------------------------- MODULE Gateway_proofs --------------------------
(***************************************************************************)
(* Theorems about the life of a request in the gateway, for any number of  *)
(* concurrent requests, any clients and any upstream: only requests with a *)
(* good token pass the auth layer, every answer is counted once, and every *)
(* request is answered.                                                    *)
(***************************************************************************)
EXTENDS Gateway, FiniteSetTheorems, TLAPS

-----------------------------------------------------------------------------
(* The chain.                                                               *)

\* What Chain makes of the middlewares of main.
Wrapped ==
    <<"recovery", "requestId", "logging", "cors", "auth", "rateLimit", "metrics", "mux">>

LEMMA LayersInOrder == Layers = Wrapped
<1> DEFINE Loop(f) == f = [i \in 1..(Len(Middlewares) + 1) |->
                             IF i > Len(Middlewares) THEN <<"mux">>
                             ELSE <<Middlewares[i]>> \o f[i + 1]]
           inner(i) == IF i = 8 THEN <<"mux">>
                       ELSE IF i = 7 THEN <<"metrics", "mux">>
                       ELSE IF i = 6 THEN <<"rateLimit", "metrics", "mux">>
                       ELSE IF i = 5 THEN <<"auth", "rateLimit", "metrics", "mux">>
                       ELSE IF i = 4 THEN <<"cors", "auth", "rateLimit", "metrics", "mux">>
                       ELSE IF i = 3
                            THEN <<"logging", "cors", "auth", "rateLimit", "metrics", "mux">>
                       ELSE IF i = 2
                            THEN <<"requestId", "logging", "cors", "auth", "rateLimit",
                                   "metrics", "mux">>
                       ELSE Wrapped
           wrapped == CHOOSE f : Loop(f)
<1>1. Len(Middlewares) = 7
  BY DEF Middlewares
<1>2. /\ Middlewares[1] = "recovery" /\ Middlewares[2] = "requestId"
      /\ Middlewares[3] = "logging" /\ Middlewares[4] = "cors" /\ Middlewares[5] = "auth"
      /\ Middlewares[6] = "rateLimit" /\ Middlewares[7] = "metrics"
  BY DEF Middlewares
<1>3. Layers = wrapped[1]
  BY DEF Layers, Chain
<1>4. ASSUME NEW i \in 1..7
      PROVE  inner(i) = <<Middlewares[i]>> \o inner(i + 1)
  <2>1. CASE i = 7
    BY <1>2, <2>1
  <2>2. CASE i = 6
    BY <1>2, <2>2
  <2>3. CASE i = 5
    BY <1>2, <2>3
  <2>4. CASE i = 4
    BY <1>2, <2>4
  <2>5. CASE i = 3
    BY <1>2, <2>5
  <2>6. CASE i = 2
    BY <1>2, <2>6
  <2>7. CASE i = 1
    BY <1>2, <2>7 DEF Wrapped
  <2> QED
    BY <2>1, <2>2, <2>3, <2>4, <2>5, <2>6, <2>7
<1>5. inner(8) = <<"mux">> /\ inner(1) = Wrapped
  OBVIOUS
<1> HIDE DEF inner
\* The loop has a solution, so CHOOSE finds one; and it has only one.
<1>6. Loop([i \in 1..8 |-> inner(i)])
  <2> DEFINE f == [i \in 1..8 |-> inner(i)]
  <2>1. 1..(Len(Middlewares) + 1) = 1..8
    BY <1>1
  <2>2. ASSUME NEW i \in 1..8
        PROVE  f[i] = IF i > Len(Middlewares) THEN <<"mux">> ELSE <<Middlewares[i]>> \o f[i + 1]
    <3>1. CASE i = 8
      BY <1>1, <1>5, <3>1
    <3>2. CASE i # 8
      <4>1. i \in 1..7 /\ i + 1 \in 1..8
        BY <3>2
      <4>2. f[i] = inner(i) /\ f[i + 1] = inner(i + 1)
        BY <4>1
      <4>3. ~ (i > Len(Middlewares))
        BY <1>1, <4>1
      <4> QED
        BY <1>4, <4>1, <4>2, <4>3
    <3> QED
      BY <3>1, <3>2
  <2>3. f = [i \in 1..8 |-> f[i]]
    OBVIOUS
  <2> HIDE DEF f
  <2>4. f = [i \in 1..8 |-> IF i > Len(Middlewares) THEN <<"mux">>
                            ELSE <<Middlewares[i]>> \o f[i + 1]]
    BY <2>2, <2>3
  <2>5. Loop(f)
    BY <2>1, <2>4
  <2> QED
    BY <2>5 DEF f
<1>7. Loop(wrapped)
  BY <1>6
<1> HIDE DEF wrapped
<1>8. /\ wrapped[8] = <<"mux">>
      /\ \A i \in 1..7 : wrapped[i] = <<Middlewares[i]>> \o wrapped[i + 1]
  <2>1. \A i \in 1..(Len(Middlewares) + 1) :
           wrapped[i] = IF i > Len(Middlewares) THEN <<"mux">>
                        ELSE <<Middlewares[i]>> \o wrapped[i + 1]
    BY <1>7
  <2>2. \A i \in 1..7 : i \in 1..(7 + 1) /\ ~ (i > 7)
    OBVIOUS
  <2>3. 8 \in 1..(7 + 1) /\ 8 > 7
    OBVIOUS
  <2> QED
    BY <1>1, <2>1, <2>2, <2>3
<1>9. wrapped[8] = inner(8)
  BY <1>5, <1>8
<1>10. \A i \in 1..7 : wrapped[i + 1] = inner(i + 1) => wrapped[i] = inner(i)
  BY <1>4, <1>8
<1>11. /\ 7 \in 1..7 /\ 6 \in 1..7 /\ 5 \in 1..7 /\ 4 \in 1..7 /\ 3 \in 1..7 /\ 2 \in 1..7
       /\ 1 \in 1..7
       /\ 7 + 1 = 8 /\ 6 + 1 = 7 /\ 5 + 1 = 6 /\ 4 + 1 = 5 /\ 3 + 1 = 4 /\ 2 + 1 = 3
       /\ 1 + 1 = 2
  OBVIOUS
<1>12. wrapped[1] = inner(1)
  BY <1>9, <1>10, <1>11
<1> QED
  BY <1>3, <1>5, <1>12

\* Which layer is where.
LEMMA LayerAt ==
    /\ Len(Layers) = 8
    /\ \A p \in 1..8 : /\ Layers[p] = "recovery" <=> p = 1
                       /\ Layers[p] = "requestId" <=> p = 2
                       /\ Layers[p] = "logging" <=> p = 3
                       /\ Layers[p] = "cors" <=> p = 4
                       /\ Layers[p] = "auth" <=> p = 5
                       /\ Layers[p] = "rateLimit" <=> p = 6
                       /\ Layers[p] = "metrics" <=> p = 7
                       /\ Layers[p] = "mux" <=> p = 8
BY LayersInOrder DEF Wrapped

-----------------------------------------------------------------------------
(* The invariant.                                                           *)

Passed == {"allowed", "error"}

RequestTypes ==
    /\ pos \in [Requests -> 0..8]
    /\ dir \in [Requests -> {"new", "in", "upstream", "copying", "panic", "out", "done"}]
    /\ kind \in [Requests -> Kinds]
    /\ bearer \in [Requests -> Clients \cup {None}]
    /\ context \in [Requests -> [ContextKeys -> Clients \cup {None}]]
    /\ judgedAs \in [Requests -> Clients \cup {None, "anonymous"}]
    /\ verdict \in [Requests -> {"none", "allowed", "denied", "error"}]
    /\ sent \in [Requests -> Codes \cup {0}]
    /\ panicked \subseteq Requests

ProcessTypes ==
    /\ server \in {"running", "stopping", "draining", "stopped", "killed"}
    /\ loop \in [DOMAIN Agents -> {"waiting", "stuck", "ended"}]
    /\ jammed \in BOOLEAN

\* Where request r may be, and what it has by then.  On the way in it has the
\* limiter's verdict from layer 7 on; a panic takes it from the mux to layer 1.
Placed(r) ==
    /\ dir[r] = "new" => pos[r] = 0 /\ verdict[r] = "none" /\ sent[r] = 0
    /\ dir[r] = "in" =>
          /\ pos[r] >= 1 /\ sent[r] = 0
          /\ IF pos[r] >= 7 THEN verdict[r] \in Passed ELSE verdict[r] = "none"
    /\ dir[r] \in {"upstream", "copying", "panic"} => pos[r] = 8 /\ verdict[r] \in Passed
    /\ dir[r] = "upstream" => sent[r] = 0
    /\ dir[r] = "copying" => sent[r] # 0
    /\ dir[r] = "out" => /\ pos[r] >= 1 /\ sent[r] # 0
                         /\ pos[r] = 8 => verdict[r] \in Passed /\ r \notin panicked
    /\ dir[r] = "done" => pos[r] = 0 /\ sent[r] # 0

\* The context of request r has the identity of its good token.
Known(r) == bearer[r] # None /\ context[r]["IdentityKey"] = bearer[r]

\* Whoever is past the auth layer is known, and nobody else is sent more than the
\* answer to a preflight or a refusal.
Judged(r) ==
    /\ dir[r] = "in" /\ pos[r] >= 6 => Known(r)
    /\ verdict[r] # "none" => Known(r)
    /\ sent[r] \notin {0, 204, 401} => verdict[r] # "none"

\* What a verdict, a panic and a 429 have to do with each other.
Limits(r) ==
    /\ r \in panicked => verdict[r] \in Passed /\ dir[r] \in {"panic", "out", "done"}
    /\ dir[r] = "panic" => r \in panicked
    /\ verdict[r] = "denied" => sent[r] = 429 /\ dir[r] \in {"out", "done"}
    /\ sent[r] = 429 => verdict[r] # "none"

\* Request r has been recorded; r has been counted as rate limited.
IsRecorded(r) ==
    /\ r \notin panicked /\ verdict[r] \in Passed
    /\ dir[r] \in {"out", "done"} /\ pos[r] <= 7

IsLimited(r) == sent[r] = 429 /\ (verdict[r] = "denied" \/ IsRecorded(r))

RecordedAs(c) == {r \in Requests : IsRecorded(r) /\ sent[r] = c}
LimitedOnes == {r \in Requests : IsLimited(r)}

\* The counters have what was counted, between requests and during them.
Tallied ==
    /\ total \in [Codes -> Nat] /\ limited \in Nat
    /\ \A c \in Codes : total[c] = Cardinality(RecordedAs(c))
    /\ limited = Cardinality(LimitedOnes)

RequestFits(r) == Placed(r) /\ Judged(r) /\ Limits(r)

IInv ==
    /\ ProcessTypes
    /\ RequestTypes
    /\ \A r \in Requests : RequestFits(r)
    /\ Tallied

LEMMA CodesKnown ==
    /\ {200, 204, 401, 404, 429, 500, 502} \cup UpstreamCodes = Codes
    /\ 0 \notin Codes
    /\ UpstreamCodes \subseteq Codes
BY StatusCodes DEF Codes

LEMMA InitFits == Init => IInv
<1> SUFFICES ASSUME Init PROVE IInv
  OBVIOUS
<1>1. ProcessTypes /\ RequestTypes
  <2>1. ProcessTypes
    BY DEF Init, ProcessTypes
  <2>2. /\ pos \in [Requests -> 0..8] /\ kind \in [Requests -> Kinds]
        /\ dir \in [Requests -> {"new", "in", "upstream", "copying", "panic", "out", "done"}]
    BY DEF Init, Kinds
  <2>3. /\ bearer \in [Requests -> Clients \cup {None}]
        /\ context \in [Requests -> [ContextKeys -> Clients \cup {None}]]
        /\ judgedAs \in [Requests -> Clients \cup {None, "anonymous"}]
        /\ verdict \in [Requests -> {"none", "allowed", "denied", "error"}]
        /\ sent \in [Requests -> Codes \cup {0}] /\ panicked \subseteq Requests
    BY DEF Init
  <2> QED
    BY <2>1, <2>2, <2>3 DEF RequestTypes
<1>2. \A r \in Requests : RequestFits(r)
  BY DEF Init, RequestFits, Placed, Judged, Known, Limits
<1>3. LimitedOnes = {} /\ \A c \in Codes : RecordedAs(c) = {}
  BY DEF Init, LimitedOnes, RecordedAs, IsLimited, IsRecorded, Passed
<1>4. Cardinality({}) = 0
  BY FS_EmptySet
<1>5. Tallied
  <2>1. total = [c \in Codes |-> 0] /\ limited = 0
    BY DEF Init
  <2> QED
    BY <1>3, <1>4, <2>1 DEF Tallied
<1> QED
  BY <1>1, <1>2, <1>5 DEF IInv

-----------------------------------------------------------------------------
(* One request moves.                                                       *)

\* All requests but r stay where they are.
Others(r) ==
    \A q \in Requests \ {r} :
        /\ pos'[q] = pos[q] /\ dir'[q] = dir[q]
        /\ bearer'[q] = bearer[q] /\ context'[q] = context[q]
        /\ judgedAs'[q] = judgedAs[q] /\ verdict'[q] = verdict[q]
        /\ sent'[q] = sent[q]
        /\ q \in panicked' <=> q \in panicked

LEMMA OthersKeep ==
    ASSUME NEW r, Others(r), NEW q \in Requests \ {r}
    PROVE  /\ RequestFits(q) => RequestFits(q)'
           /\ IsRecorded(q)' <=> IsRecorded(q)
           /\ IsLimited(q)' <=> IsLimited(q)
           /\ sent'[q] = sent[q]
<1>1. /\ pos'[q] = pos[q] /\ dir'[q] = dir[q]
      /\ bearer'[q] = bearer[q] /\ context'[q] = context[q]
      /\ judgedAs'[q] = judgedAs[q] /\ verdict'[q] = verdict[q]
      /\ sent'[q] = sent[q]
      /\ q \in panicked' <=> q \in panicked
  BY DEF Others
<1> QED
  BY <1>1 DEF RequestFits, Placed, Judged, Known, Limits, IsRecorded, IsLimited

\* A step that counts nothing.
LEMMA QuietStep ==
    ASSUME IInv, NEW r \in Requests, Others(r),
           RequestTypes', ProcessTypes', RequestFits(r)', UNCHANGED <<total, limited>>,
           IsRecorded(r)' <=> IsRecorded(r), IsLimited(r)' <=> IsLimited(r),
           IsRecorded(r) => sent'[r] = sent[r]
    PROVE  IInv'
<1>1. \A q \in Requests : RequestFits(q)'
  BY OthersKeep DEF IInv
<1>2. /\ \A q \in Requests : IsRecorded(q)' <=> IsRecorded(q)
      /\ \A q \in Requests : IsLimited(q)' <=> IsLimited(q)
      /\ \A q \in Requests : IsRecorded(q) => sent'[q] = sent[q]
  BY OthersKeep
<1>3. /\ LimitedOnes' = LimitedOnes
      /\ \A c \in Codes : RecordedAs(c)' = RecordedAs(c)
  BY <1>2 DEF LimitedOnes, RecordedAs
<1>4. Tallied'
  BY <1>3 DEF IInv, Tallied
<1> QED
  BY <1>1, <1>4 DEF IInv

\* The sets that are counted are finite.
LEMMA CountedFinite ==
    /\ IsFiniteSet(LimitedOnes)
    /\ \A c \in Codes : IsFiniteSet(RecordedAs(c))
<1>1. LimitedOnes \subseteq Requests /\ \A c \in Codes : RecordedAs(c) \subseteq Requests
  BY DEF LimitedOnes, RecordedAs
<1> QED
  BY <1>1, RequestBound, FS_Subset

\* A request that enters a layer.
LEMMA Enters ==
    ASSUME IInv, NEW r \in Requests, NEW layer, Entering(r, layer)
    PROVE  /\ RequestTypes /\ ProcessTypes /\ RequestFits(r)
           /\ dir[r] = "in" /\ pos[r] \in 1..8 /\ sent[r] = 0 /\ r \notin panicked
           /\ layer = "cors" => pos[r] = 4
           /\ layer = "auth" => pos[r] = 5
           /\ layer = "rateLimit" => pos[r] = 6
           /\ layer = "mux" => pos[r] = 8
           /\ layer \in {"recovery", "requestId", "logging", "metrics"} => pos[r] \in {1, 2, 3, 7}
<1>1. dir[r] = "in" /\ Layers[pos[r]] = layer /\ RequestTypes /\ ProcessTypes /\ RequestFits(r)
  BY DEF Entering, IInv
<1>2. pos[r] \in 1..8 /\ sent[r] = 0 /\ r \notin panicked
  BY <1>1 DEF RequestTypes, RequestFits, Placed, Limits
<1> QED
  BY <1>1, <1>2, LayerAt

LEMMA ArriveKeeps ==
    ASSUME IInv, NEW r \in Requests, NEW k \in Kinds, NEW who \in Clients \cup {None},
           Arrive(r, k, who)
    PROVE  IInv'
<1>1. RequestTypes /\ RequestFits(r)
  BY DEF IInv
<1>2. /\ RequestTypes' /\ Others(r) /\ ProcessTypes' /\ UNCHANGED <<total, limited>>
      /\ dir[r] = "new" /\ pos'[r] = 1 /\ dir'[r] = "in"
      /\ verdict' = verdict /\ sent' = sent /\ panicked' = panicked
  BY <1>1 DEF Arrive, RequestTypes, Others, processVars, metricVars, IInv, ProcessTypes
<1>3. verdict[r] = "none" /\ sent[r] = 0 /\ r \notin panicked
  BY <1>1, <1>2 DEF RequestFits, Placed, Limits
<1>4. RequestFits(r)'
  BY <1>2, <1>3 DEF RequestFits, Placed, Judged, Known, Limits
<1> QED
  BY <1>2, <1>3, <1>4, QuietStep DEF IsRecorded, IsLimited, Passed

LEMMA PassOnKeeps ==
    ASSUME IInv, NEW r \in Requests, PassOn(r)
    PROVE  IInv'
<1>1. /\ RequestTypes /\ RequestFits(r) /\ dir[r] = "in" /\ sent[r] = 0
      /\ r \notin panicked /\ pos[r] \in {1, 2, 3, 4, 7}
  BY Enters DEF PassOn
<1>2. /\ RequestTypes' /\ Others(r) /\ ProcessTypes' /\ UNCHANGED <<total, limited>>
      /\ pos'[r] = pos[r] + 1 /\ dir'[r] = "in"
      /\ sent' = sent /\ panicked' = panicked
      /\ context' = context /\ bearer' = bearer /\ judgedAs' = judgedAs /\ verdict' = verdict
  BY <1>1 DEF PassOn, CallNext, RequestTypes, Others, processVars, metricVars, clientVars,
              IInv, ProcessTypes
<1>3. RequestFits(r)'
  BY <1>1, <1>2 DEF RequestFits, Placed, Judged, Known, Limits
<1>4. verdict[r] # "denied"
  BY <1>1 DEF RequestFits, Placed, Passed
<1> QED
  BY <1>1, <1>2, <1>3, <1>4, QuietStep DEF IsRecorded, IsLimited

\* A layer that turns the request back before the limiter.
LEMMA TurnBackKeeps ==
    ASSUME IInv, NEW r \in Requests, Preflight(r) \/ Refuse(r)
    PROVE  IInv'
<1>1. /\ RequestTypes /\ RequestFits(r) /\ dir[r] = "in" /\ sent[r] = 0
      /\ r \notin panicked /\ pos[r] \in {4, 5}
  BY Enters DEF Preflight, Refuse
<1>2. PICK code \in {204, 401} : /\ sent' = [sent EXCEPT ![r] = code]
                                 /\ dir' = [dir EXCEPT ![r] = "out"] /\ pos' = pos
  BY <1>1 DEF Preflight, Refuse, Answer, Send, RequestTypes
<1>3. /\ UNCHANGED <<server, loop, jammed, total, limited>>
      /\ kind' = kind /\ panicked' = panicked
      /\ context' = context /\ bearer' = bearer /\ judgedAs' = judgedAs /\ verdict' = verdict
  BY DEF Preflight, Refuse, processVars, metricVars, clientVars
<1>4. /\ RequestTypes' /\ Others(r) /\ ProcessTypes'
      /\ dir'[r] = "out" /\ pos'[r] = pos[r] /\ sent'[r] = code
  BY <1>1, <1>2, <1>3, CodesKnown DEF RequestTypes, Others, IInv, ProcessTypes
<1>5. verdict[r] = "none"
  BY <1>1 DEF RequestFits, Placed
<1>6. RequestFits(r)'
  BY <1>1, <1>3, <1>4, <1>5, CodesKnown DEF RequestFits, Placed, Judged, Known, Limits
<1> QED
  BY <1>1, <1>3, <1>4, <1>5, <1>6, QuietStep DEF IsRecorded, IsLimited, Passed

LEMMA AuthenticateKeeps ==
    ASSUME IInv, NEW r \in Requests, Authenticate(r)
    PROVE  IInv'
<1>1. /\ RequestTypes /\ RequestFits(r) /\ dir[r] = "in" /\ sent[r] = 0
      /\ r \notin panicked /\ pos[r] = 5
  BY Enters DEF Authenticate
<1>2. /\ RequestTypes' /\ Others(r) /\ ProcessTypes' /\ UNCHANGED <<total, limited>>
      /\ pos'[r] = 6 /\ dir'[r] = "in" /\ Known(r)'
      /\ sent' = sent /\ panicked' = panicked
      /\ bearer' = bearer /\ judgedAs' = judgedAs /\ verdict' = verdict
  <2>1. /\ pos' = [pos EXCEPT ![r] = @ + 1] /\ dir' = [dir EXCEPT ![r] = "in"]
        /\ context' = [context EXCEPT ![r]["IdentityKey"] = bearer[r]]
        /\ bearer[r] # None
        /\ UNCHANGED <<server, loop, jammed, total, limited>>
        /\ UNCHANGED <<kind, bearer, judgedAs, verdict, sent, panicked>>
    BY DEF Authenticate, CallNext, processVars, metricVars
  <2>2. /\ context' \in [Requests -> [ContextKeys -> Clients \cup {None}]]
        /\ context'[r]["IdentityKey"] = bearer[r]
        /\ \A q \in Requests \ {r} : context'[q] = context[q]
    BY <1>1, <2>1 DEF RequestTypes, ContextKeys
  <2> QED
    BY <1>1, <2>1, <2>2 DEF RequestTypes, Others, Known, IInv, ProcessTypes
<1>3. verdict[r] = "none"
  BY <1>1 DEF RequestFits, Placed
<1>4. RequestFits(r)'
  BY <1>1, <1>2, <1>3 DEF RequestFits, Placed, Judged, Known, Limits
<1> QED
  BY <1>1, <1>2, <1>3, <1>4, QuietStep DEF IsRecorded, IsLimited, Passed

\* What the limiter's judgement leaves.
LEMMA JudgeTypes ==
    ASSUME IInv, NEW r \in Requests, NEW answer \in {"allowed", "error", "denied"},
           Judge(r, answer)
    PROVE  /\ RequestTypes /\ RequestFits(r) /\ dir[r] = "in" /\ sent[r] = 0
           /\ r \notin panicked /\ pos[r] = 6 /\ verdict[r] = "none"
           /\ judgedAs' \in [Requests -> Clients \cup {None, "anonymous"}]
           /\ verdict' \in [Requests -> {"none", "allowed", "denied", "error"}]
           /\ verdict'[r] = answer
           /\ \A q \in Requests \ {r} : judgedAs'[q] = judgedAs[q] /\ verdict'[q] = verdict[q]
           /\ UNCHANGED <<server, loop, kind, bearer, context, panicked>>
<1>1. /\ RequestTypes /\ RequestFits(r) /\ dir[r] = "in" /\ sent[r] = 0
      /\ r \notin panicked /\ pos[r] = 6
  BY Enters DEF Judge
<1>2. verdict[r] = "none" /\ context[r]["ClientIDCtxKey"] \in Clients \cup {None}
  BY <1>1 DEF RequestFits, Placed, RequestTypes, ContextKeys
<1>3. /\ \E who \in Clients \cup {"anonymous"} : judgedAs' = [judgedAs EXCEPT ![r] = who]
      /\ verdict' = [verdict EXCEPT ![r] = answer]
      /\ UNCHANGED <<server, loop, kind, bearer, context, panicked>>
  BY <1>2 DEF Judge, processVars
<1> QED
  BY <1>1, <1>2, <1>3 DEF RequestTypes

LEMMA AdmitKeeps ==
    ASSUME IInv, NEW r \in Requests, Admit(r)
    PROVE  IInv'
<1>1. PICK answer \in {"allowed", "error"} : Judge(r, answer)
  BY DEF Admit
<1>2. /\ RequestTypes /\ RequestFits(r) /\ dir[r] = "in" /\ sent[r] = 0
      /\ r \notin panicked /\ pos[r] = 6 /\ verdict[r] = "none"
      /\ judgedAs' \in [Requests -> Clients \cup {None, "anonymous"}]
      /\ verdict' \in [Requests -> {"none", "allowed", "denied", "error"}]
      /\ verdict'[r] = answer
      /\ \A q \in Requests \ {r} : judgedAs'[q] = judgedAs[q] /\ verdict'[q] = verdict[q]
      /\ UNCHANGED <<server, loop, kind, bearer, context, panicked>>
  BY <1>1, JudgeTypes
<1>3. /\ pos' = [pos EXCEPT ![r] = @ + 1] /\ dir' = [dir EXCEPT ![r] = "in"]
      /\ UNCHANGED <<jammed, total, limited, sent>>
  BY DEF Admit, CallNext, metricVars
<1>4. /\ RequestTypes' /\ Others(r) /\ ProcessTypes' /\ pos'[r] = 7 /\ dir'[r] = "in"
  BY <1>2, <1>3 DEF RequestTypes, Others, IInv, ProcessTypes
<1>5. Known(r) /\ Known(r)'
  BY <1>2 DEF RequestFits, Judged, Known
<1>6. RequestFits(r)'
  BY <1>2, <1>3, <1>4, <1>5 DEF RequestFits, Placed, Judged, Known, Limits, Passed
<1> QED
  BY <1>2, <1>3, <1>4, <1>6, QuietStep DEF IsRecorded, IsLimited

\* A denial is counted as it is answered.
LEMMA DenyKeeps ==
    ASSUME IInv, NEW r \in Requests, Deny(r)
    PROVE  IInv'
<1>1. Judge(r, "denied")
  BY DEF Deny
<1>2. /\ RequestTypes /\ RequestFits(r) /\ dir[r] = "in" /\ sent[r] = 0
      /\ r \notin panicked /\ pos[r] = 6 /\ verdict[r] = "none"
      /\ judgedAs' \in [Requests -> Clients \cup {None, "anonymous"}]
      /\ verdict' \in [Requests -> {"none", "allowed", "denied", "error"}]
      /\ verdict'[r] = "denied"
      /\ \A q \in Requests \ {r} : judgedAs'[q] = judgedAs[q] /\ verdict'[q] = verdict[q]
      /\ UNCHANGED <<server, loop, kind, bearer, context, panicked>>
  BY <1>1, JudgeTypes
<1>3. /\ sent' = [sent EXCEPT ![r] = 429] /\ dir' = [dir EXCEPT ![r] = "out"]
      /\ limited' = limited + 1 /\ UNCHANGED <<jammed, total, pos>>
  BY <1>2 DEF Deny, Answer, Send, RequestTypes
<1>4. /\ RequestTypes' /\ Others(r) /\ ProcessTypes'
      /\ pos'[r] = 6 /\ dir'[r] = "out" /\ sent'[r] = 429
  BY <1>2, <1>3, CodesKnown DEF RequestTypes, Others, IInv, ProcessTypes
<1>5. Known(r) /\ Known(r)'
  BY <1>2 DEF RequestFits, Judged, Known
<1>6. RequestFits(r)'
  BY <1>2, <1>3, <1>4, <1>5 DEF RequestFits, Placed, Judged, Known, Limits, Passed
<1>7. \A q \in Requests : RequestFits(q)'
  BY <1>4, <1>6, OthersKeep DEF IInv
<1>8. ~ IsRecorded(r) /\ ~ IsRecorded(r)' /\ ~ IsLimited(r) /\ IsLimited(r)'
  BY <1>2, <1>4 DEF IsRecorded, IsLimited, Passed
<1>9. \A c \in Codes : RecordedAs(c)' = RecordedAs(c)
  BY <1>4, <1>8, OthersKeep DEF RecordedAs
<1>10. LimitedOnes' = LimitedOnes \cup {r} /\ r \notin LimitedOnes
  BY <1>4, <1>8, OthersKeep DEF LimitedOnes
<1>11. Cardinality(LimitedOnes \cup {r}) = Cardinality(LimitedOnes) + 1
  BY <1>10, CountedFinite, FS_AddElement
<1>12. Tallied'
  BY <1>3, <1>9, <1>10, <1>11 DEF IInv, Tallied
<1> QED
  BY <1>4, <1>7, <1>12 DEF IInv

\* What a request does at the mux: it is sent `code', which is 0 if it has not
\* been sent a status, and goes on as `next'.
LEMMA AtMux ==
    ASSUME IInv, NEW r \in Requests, pos[r] = 8, dir[r] \in {"in", "upstream", "copying"},
           NEW next \in {"upstream", "copying", "panic", "out"}, NEW code \in Codes \cup {0},
           next = "upstream" => code = 0, next \in {"copying", "out"} => code # 0,
           dir' = [dir EXCEPT ![r] = next], sent' = [sent EXCEPT ![r] = code],
           panicked' = IF next = "panic" THEN panicked \cup {r} ELSE panicked,
           UNCHANGED <<server, loop, total, limited, pos>>, UNCHANGED clientVars,
           jammed' \in BOOLEAN
    PROVE  IInv'
<1>1. /\ RequestTypes /\ RequestFits(r) /\ verdict[r] \in Passed /\ r \notin panicked
  BY DEF IInv, RequestFits, Placed, Limits
<1>2. /\ kind' = kind /\ bearer' = bearer /\ context' = context
      /\ judgedAs' = judgedAs /\ verdict' = verdict
  BY DEF clientVars
<1>3. /\ RequestTypes' /\ ProcessTypes' /\ Others(r)
      /\ pos'[r] = 8 /\ dir'[r] = next /\ sent'[r] = code
  BY <1>1, <1>2 DEF RequestTypes, ProcessTypes, Others, IInv
<1>4. r \in panicked' <=> next = "panic"
  BY <1>1
<1>5. RequestFits(r)'
  <2>1. Placed(r)'
    BY <1>1, <1>2, <1>3, <1>4 DEF Placed
  <2>2. Judged(r)'
    BY <1>1, <1>2, <1>3 DEF RequestFits, Judged, Known, Passed
  <2>3. Limits(r)'
    BY <1>1, <1>2, <1>3, <1>4 DEF Limits, Passed
  <2> QED
    BY <2>1, <2>2, <2>3 DEF RequestFits
<1> QED
  BY <1>1, <1>2, <1>3, <1>5, QuietStep DEF IsRecorded, IsLimited, Passed

\* The mux's own handlers, the scrape among them.
LEMMA ServeKeeps ==
    ASSUME IInv, NEW r \in Requests,
           \/ \E code \in {200, 404} : ServeInternal(r, code)
           \/ Scrape(r) \/ ScrapePanics(r) \/ Forward(r)
    PROVE  IInv'
<1>1. /\ RequestTypes /\ ProcessTypes /\ dir[r] = "in" /\ pos[r] = 8 /\ sent[r] = 0
  BY Enters DEF ServeInternal, Scrape, ScrapePanics, Forward
<1>2. UNCHANGED <<server, loop, total, limited, pos>> /\ UNCHANGED clientVars
  BY DEF ServeInternal, Scrape, ScrapePanics, Forward, Answer, processVars, metricVars
<1>3. sent = [sent EXCEPT ![r] = 0]
  BY <1>1 DEF RequestTypes
<1>4. \A code : Send(r, code) => sent' = [sent EXCEPT ![r] = code]
  BY <1>1 DEF Send, RequestTypes
<1>5. CASE Scrape(r) \/ \E code \in {200, 404} : ServeInternal(r, code)
  <2>1. PICK code \in Codes \cup {0} : code # 0 /\ Answer(r, code)
    <3>1. \A code \in {200, 404} : code \in Codes \cup {0} /\ code # 0
      BY CodesKnown
    <3>2. \E code \in {200, 404} : Answer(r, code)
      BY <1>5 DEF ServeInternal, Scrape
    <3> QED
      BY <3>1, <3>2
  <2>2. /\ dir' = [dir EXCEPT ![r] = "out"] /\ sent' = [sent EXCEPT ![r] = code]
    BY <1>4, <2>1 DEF Answer
  <2>3. panicked' = panicked /\ jammed' \in BOOLEAN
    BY <1>1, <1>5 DEF ServeInternal, Scrape, metricVars, ProcessTypes
  <2> QED
    BY <1>1, <1>2, <2>1, <2>2, <2>3, AtMux
<1>6. CASE Forward(r)
  <2>1. /\ dir' = [dir EXCEPT ![r] = "upstream"] /\ sent' = [sent EXCEPT ![r] = 0]
        /\ panicked' = panicked /\ jammed' \in BOOLEAN
    BY <1>1, <1>3, <1>6 DEF Forward, metricVars, ProcessTypes
  <2> QED
    BY <1>1, <1>2, <2>1, AtMux
<1>7. CASE ScrapePanics(r)
  <2>1. sent' = [sent EXCEPT ![r] = 0]
    BY <1>3, <1>7 DEF ScrapePanics
  <2>2. /\ dir' = [dir EXCEPT ![r] = "panic"] /\ panicked' = panicked \cup {r}
        /\ jammed' \in BOOLEAN
    BY <1>7 DEF ScrapePanics
  <2> QED
    BY <1>1, <1>2, <2>1, <2>2, AtMux
<1> QED
  BY <1>5, <1>6, <1>7

\* The reverse proxy at work.
LEMMA ProxyKeeps ==
    ASSUME IInv, NEW r \in Requests,
           \/ \E code \in UpstreamCodes : UpstreamAnswers(r, code)
           \/ UpstreamFails(r) \/ CopyDone(r) \/ CopyFails(r)
    PROVE  IInv'
<1>1. /\ RequestTypes /\ ProcessTypes /\ dir[r] \in {"upstream", "copying"} /\ pos[r] = 8
      /\ dir[r] = "upstream" => sent[r] = 0
      /\ dir[r] = "copying" => sent[r] # 0
      /\ sent[r] \in Codes \cup {0}
  BY DEF UpstreamAnswers, UpstreamFails, CopyDone, CopyFails, IInv, RequestFits, Placed,
         RequestTypes
<1>2. UNCHANGED <<server, loop, total, limited, jammed, pos>> /\ UNCHANGED clientVars
  BY DEF UpstreamAnswers, UpstreamFails, CopyDone, CopyFails, Answer, processVars, metricVars
<1>3. jammed' \in BOOLEAN
  BY <1>1, <1>2 DEF ProcessTypes
<1>4. sent = [sent EXCEPT ![r] = sent[r]]
  BY <1>1 DEF RequestTypes
<1>5. CASE UpstreamFails(r) \/ \E code \in UpstreamCodes : UpstreamAnswers(r, code)
  <2>1. PICK code \in {502} \cup UpstreamCodes :
           /\ Send(r, code) /\ dir[r] = "upstream" /\ panicked' = panicked
           /\ \E next \in {"out", "copying"} : dir' = [dir EXCEPT ![r] = next]
    BY <1>5 DEF UpstreamAnswers, UpstreamFails, Answer
  <2>2. PICK next \in {"out", "copying"} : dir' = [dir EXCEPT ![r] = next]
    BY <2>1
  <2>3. code \in Codes \cup {0} /\ code # 0
    BY <2>1, CodesKnown
  <2>4. sent' = [sent EXCEPT ![r] = code]
    BY <1>1, <2>1 DEF Send, RequestTypes
  <2> QED
    BY <1>1, <1>2, <1>3, <2>1, <2>2, <2>3, <2>4, AtMux
<1>6. CASE CopyDone(r)
  <2>1. /\ dir' = [dir EXCEPT ![r] = "out"] /\ sent' = [sent EXCEPT ![r] = sent[r]]
        /\ panicked' = panicked /\ sent[r] # 0
    BY <1>1, <1>4, <1>6 DEF CopyDone
  <2> QED
    BY <1>1, <1>2, <1>3, <2>1, AtMux
<1>7. CASE CopyFails(r)
  <2>1. /\ dir' = [dir EXCEPT ![r] = "panic"] /\ sent' = [sent EXCEPT ![r] = sent[r]]
        /\ panicked' = panicked \cup {r}
    BY <1>4, <1>7 DEF CopyFails
  <2> QED
    BY <1>1, <1>2, <1>3, <2>1, AtMux
<1> QED
  BY <1>5, <1>6, <1>7

-----------------------------------------------------------------------------
(* The way out.                                                             *)

LEMMA RecoverKeeps ==
    ASSUME IInv, NEW r \in Requests, Recover(r)
    PROVE  IInv'
<1>1. /\ RequestTypes /\ ProcessTypes /\ RequestFits(r) /\ dir[r] = "panic" /\ pos[r] = 8
      /\ r \in panicked /\ verdict[r] \in Passed
  BY DEF IInv, Recover, RequestFits, Placed, Limits
<1>2. PICK p \in 1..8 : /\ Layers[p] = "recovery" /\ Send(r, 500)
                        /\ pos' = [pos EXCEPT ![r] = p] /\ dir' = [dir EXCEPT ![r] = "out"]
  BY <1>1 DEF Recover
<1>3. p = 1
  BY <1>2, LayerAt
<1>4. PICK code \in Codes : code # 0 /\ sent' = [sent EXCEPT ![r] = code]
  <2>1. 500 \in Codes /\ 500 # 0 /\ sent[r] \in Codes \cup {0}
    BY <1>1, CodesKnown DEF RequestTypes
  <2>2. sent' = [sent EXCEPT ![r] = IF sent[r] = 0 THEN 500 ELSE sent[r]]
    BY <1>2 DEF Send
  <2> QED
    BY <2>1, <2>2
<1>5. /\ UNCHANGED <<server, loop, jammed, total, limited, panicked>>
      /\ UNCHANGED <<kind, bearer, context, judgedAs, verdict>>
  BY DEF Recover, processVars, metricVars, clientVars
<1>6. /\ RequestTypes' /\ ProcessTypes' /\ Others(r)
      /\ pos'[r] = 1 /\ dir'[r] = "out" /\ sent'[r] = code
  BY <1>1, <1>2, <1>3, <1>4, <1>5 DEF RequestTypes, ProcessTypes, Others
<1>7. RequestFits(r)'
  <2>1. Placed(r)' /\ Judged(r)'
    BY <1>1, <1>4, <1>5, <1>6 DEF RequestFits, Placed, Judged, Known, Passed
  <2>2. Limits(r)'
    BY <1>1, <1>5, <1>6 DEF Limits, Passed
  <2> QED
    BY <2>1, <2>2 DEF RequestFits
<1> QED
  BY <1>1, <1>5, <1>6, <1>7, QuietStep DEF IsRecorded, IsLimited, Passed

\* A layer that is left, whether it records the request or not.
LEMMA Leaves ==
    ASSUME IInv, NEW r \in Requests, Return(r)
    PROVE  /\ RequestTypes' /\ ProcessTypes' /\ Others(r) /\ RequestFits(r)'
           /\ RequestTypes /\ RequestFits(r)
           /\ dir[r] = "out" /\ sent[r] \in Codes /\ pos[r] \in 1..8
           /\ dir'[r] \in {"out", "done"} /\ pos'[r] = pos[r] - 1 /\ sent' = sent
           /\ verdict' = verdict /\ panicked' = panicked
<1>1. /\ RequestTypes /\ ProcessTypes /\ RequestFits(r) /\ dir[r] = "out"
  BY DEF IInv, Return
<1>2. pos[r] \in 1..8 /\ sent[r] \in Codes /\ sent[r] # 0
  BY <1>1 DEF RequestTypes, RequestFits, Placed
<1>3. /\ pos' = [pos EXCEPT ![r] = pos[r] - 1]
      /\ dir' = [dir EXCEPT ![r] = IF pos[r] = 1 THEN "done" ELSE "out"]
      /\ UNCHANGED <<server, loop, jammed, sent, panicked>>
      /\ UNCHANGED <<kind, bearer, context, judgedAs, verdict>>
  BY DEF Return, processVars, clientVars
<1>4. pos[r] - 1 \in 0..7
  BY <1>2
<1>5. /\ RequestTypes' /\ ProcessTypes' /\ Others(r) /\ pos'[r] = pos[r] - 1
      /\ dir'[r] = IF pos[r] = 1 THEN "done" ELSE "out"
  BY <1>1, <1>3, <1>4 DEF RequestTypes, ProcessTypes, Others
<1>6. RequestFits(r)'
  <2>1. Placed(r)'
    BY <1>1, <1>2, <1>3, <1>5 DEF Placed
  <2>2. Judged(r)' /\ Limits(r)'
    BY <1>1, <1>2, <1>3, <1>5 DEF RequestFits, Judged, Known, Limits
  <2> QED
    BY <2>1, <2>2 DEF RequestFits
<1> QED
  BY <1>1, <1>2, <1>3, <1>5, <1>6

\* The metrics layer records the request when it comes back from the mux.
LEMMA ReturnKeeps ==
    ASSUME IInv, NEW r \in Requests, Return(r)
    PROVE  IInv'
<1>1. /\ RequestTypes' /\ ProcessTypes' /\ Others(r) /\ RequestFits(r)'
      /\ RequestTypes /\ RequestFits(r)
      /\ dir[r] = "out" /\ sent[r] \in Codes /\ pos[r] \in 1..8
      /\ dir'[r] \in {"out", "done"} /\ pos'[r] = pos[r] - 1 /\ sent' = sent
      /\ verdict' = verdict /\ panicked' = panicked
  BY Leaves
<1>2. Recording(r) <=> pos[r] = 8
  <2>1. pos[r] > 1 => pos[r] - 1 \in 1..8
    BY <1>1
  <2>2. pos[r] > 1 => (Layers[pos[r] - 1] = "metrics" <=> pos[r] - 1 = 7)
    BY <2>1, LayerAt
  <2> QED
    BY <1>1, <2>2 DEF Recording
<1>3. CASE pos[r] # 8
  <2>1. UNCHANGED <<total, limited>>
    BY <1>2, <1>3 DEF Return
  <2>2. pos[r] <= 7 /\ pos'[r] <= 7
    BY <1>1, <1>3
  <2>3. IsRecorded(r)' <=> IsRecorded(r)
    BY <1>1, <2>2 DEF IsRecorded
  <2>4. IsLimited(r)' <=> IsLimited(r)
    BY <1>1, <2>3 DEF IsLimited
  <2> QED
    BY <1>1, <2>1, <2>3, <2>4, QuietStep
<1>4. CASE pos[r] = 8
  <2>1. /\ total' = [total EXCEPT ![sent[r]] = total[sent[r]] + 1]
        /\ limited' = IF sent[r] = 429 THEN limited + 1 ELSE limited
    BY <1>2, <1>4 DEF Return, Record
  <2>2. verdict[r] \in Passed /\ r \notin panicked
    BY <1>1, <1>4 DEF RequestFits, Placed
  <2>3. ~ IsRecorded(r) /\ IsRecorded(r)'
    BY <1>1, <1>4, <2>2 DEF IsRecorded
  <2>4. ~ IsLimited(r) /\ (IsLimited(r)' <=> sent[r] = 429)
    BY <1>1, <2>2, <2>3 DEF IsLimited, Passed
  <2>5. \A q \in Requests : RequestFits(q)'
    BY <1>1, OthersKeep DEF IInv
  <2>6. /\ RecordedAs(sent[r])' = RecordedAs(sent[r]) \cup {r} /\ r \notin RecordedAs(sent[r])
        /\ \A c \in Codes \ {sent[r]} : RecordedAs(c)' = RecordedAs(c)
    BY <1>1, <2>3, OthersKeep DEF RecordedAs
  <2>7. Cardinality(RecordedAs(sent[r]) \cup {r}) = Cardinality(RecordedAs(sent[r])) + 1
    BY <1>1, <2>6, CountedFinite, FS_AddElement
  <2>8. \A c \in Codes : total'[c] = Cardinality(RecordedAs(c)')
    BY <1>1, <2>1, <2>6, <2>7 DEF IInv, Tallied
  <2>9. total' \in [Codes -> Nat]
    BY <1>1, <2>1 DEF IInv, Tallied
  <2>10. limited' \in Nat /\ limited' = Cardinality(LimitedOnes')
    <3>1. CASE sent[r] = 429
      <4>1. LimitedOnes' = LimitedOnes \cup {r} /\ r \notin LimitedOnes
        BY <1>1, <2>4, <3>1, OthersKeep DEF LimitedOnes
      <4>2. Cardinality(LimitedOnes \cup {r}) = Cardinality(LimitedOnes) + 1
        BY <4>1, CountedFinite, FS_AddElement
      <4> QED
        BY <2>1, <3>1, <4>1, <4>2 DEF IInv, Tallied
    <3>2. CASE sent[r] # 429
      <4>1. LimitedOnes' = LimitedOnes
        BY <1>1, <2>4, <3>2, OthersKeep DEF LimitedOnes
      <4> QED
        BY <2>1, <3>2, <4>1 DEF IInv, Tallied
    <3> QED
      BY <3>1, <3>2
  <2>11. Tallied'
    BY <2>8, <2>9, <2>10 DEF Tallied
  <2> QED
    BY <1>1, <2>5, <2>11 DEF IInv
<1> QED
  BY <1>3, <1>4

-----------------------------------------------------------------------------
(* The process, and the whole.                                              *)

\* main and the agents touch no request and no counter.
LEMMA ProcessKeeps ==
    ASSUME IInv,
           \/ \E i \in DOMAIN Agents : Sample(i) \/ StopAgent(i)
           \/ Signal \/ ServeFails \/ Drain \/ Drained \/ DrainTimeout
           \/ UNCHANGED vars
    PROVE  IInv'
<1>1. UNCHANGED requestVars
  BY DEF Sample, StopAgent, Signal, ServeFails, Drain, Drained, DrainTimeout, vars,
         requestVars, metricVars, clientVars
<1>2. /\ UNCHANGED <<jammed, total, limited, pos, dir, kind, bearer>>
      /\ UNCHANGED <<context, judgedAs, verdict, sent, panicked>>
  BY <1>1 DEF requestVars, metricVars, clientVars
<1>3. ProcessTypes'
  BY <1>2 DEF IInv, ProcessTypes, Sample, StopAgent, Signal, ServeFails, Drain, Drained,
              DrainTimeout, vars
<1>4. RequestTypes'
  BY <1>2 DEF IInv, RequestTypes
<1>5. \A q \in Requests : RequestFits(q)' /\ (IsRecorded(q)' <=> IsRecorded(q))
  BY <1>2 DEF IInv, RequestFits, Placed, Judged, Known, Limits, IsRecorded
<1>6. LimitedOnes' = LimitedOnes /\ \A c \in Codes : RecordedAs(c)' = RecordedAs(c)
  BY <1>2, <1>5 DEF LimitedOnes, RecordedAs, IsLimited
<1> QED
  BY <1>2, <1>3, <1>4, <1>5, <1>6 DEF IInv, Tallied

LEMMA IInvHolds == Spec => []IInv
<1>1. IInv /\ [Next]_vars => IInv'
  <2> SUFFICES ASSUME IInv, [Next]_vars PROVE IInv'
    OBVIOUS
  <2>1. CASE \E r \in Requests :
                \/ \E k \in Kinds, who \in Clients \cup {None} : Arrive(r, k, who)
                \/ PassOn(r) \/ Preflight(r) \/ Refuse(r) \/ Authenticate(r)
                \/ Admit(r) \/ Deny(r)
    BY <2>1, ArriveKeeps, PassOnKeeps, TurnBackKeeps, AuthenticateKeeps, AdmitKeeps, DenyKeeps
  <2>2. CASE \E r \in Requests :
                \/ \E code \in {200, 404} : ServeInternal(r, code)
                \/ Scrape(r) \/ ScrapePanics(r) \/ Forward(r)
    BY <2>2, ServeKeeps
  <2>3. CASE \E r \in Requests :
                \/ \E code \in UpstreamCodes : UpstreamAnswers(r, code)
                \/ UpstreamFails(r) \/ CopyDone(r) \/ CopyFails(r)
    BY <2>3, ProxyKeeps
  <2>4. CASE \E r \in Requests : Return(r) \/ Recover(r)
    BY <2>4, ReturnKeeps, RecoverKeeps
  <2>5. CASE \/ \E i \in DOMAIN Agents : Sample(i) \/ StopAgent(i)
             \/ Signal \/ ServeFails \/ Drain \/ Drained \/ DrainTimeout
             \/ UNCHANGED vars
    BY <2>5, ProcessKeeps
  <2> QED
    BY <2>1, <2>2, <2>3, <2>4, <2>5 DEF Next
<1> QED
  BY <1>1, InitFits, PTL DEF Spec

\* Every variable has its type: a request is always in a layer of the chain, has
\* a status the gateway or an upstream sends, and no counter passes the number of
\* requests there were.
THEOREM TypeCorrect == Spec => []TypeOK
<1>1. IInv => TypeOK
  <2> SUFFICES ASSUME IInv PROVE TypeOK
    OBVIOUS
  <2>1. /\ Cardinality(Requests) \in Nat
        /\ \A S : S \subseteq Requests => Cardinality(S) <= Cardinality(Requests)
    BY RequestBound, FS_CardinalityType, FS_Subset
  <2>2. LimitedOnes \subseteq Requests /\ \A c \in Codes : RecordedAs(c) \subseteq Requests
    BY DEF LimitedOnes, RecordedAs
  <2>3. limited \in 0..Cardinality(Requests)
    BY <2>1, <2>2 DEF IInv, Tallied
  <2>4. \A c \in Codes : total[c] \in 0..Cardinality(Requests)
    BY <2>1, <2>2 DEF IInv, Tallied
  <2>5. total \in [Codes -> 0..Cardinality(Requests)]
    BY <2>4 DEF IInv, Tallied
  <2>6. Len(Layers) = 8
    BY LayerAt
  <2> QED
    BY <2>3, <2>5, <2>6 DEF IInv, ProcessTypes, RequestTypes, TypeOK
<1> QED
  BY <1>1, IInvHolds, PTL

\* However requests interleave, only those with a good token are judged, reach
\* the upstream or are sent more than a preflight's answer or a refusal, and their
\* context has the identity of their own token.
THEOREM OnlyKnownRequestsPass == Spec => []OnlyBearersPass
<1>1. IInv => OnlyBearersPass
  BY DEF IInv, RequestFits, Placed, Judged, Known, Passed, OnlyBearersPass
<1> QED
  BY <1>1, IInvHolds, PTL

\* Whenever no request is under way, the counters hold every answer exactly
\* once: requests_total those past the limiter, under the status each was sent,
\* rate_limited_total the 429s of the limiter and of the upstream.
THEOREM EveryAnswerIsCounted == Spec => []CountsMatchAnswers
<1>1. IInv => CountsMatchAnswers
  <2> SUFFICES ASSUME IInv, UnderWay = {}
               PROVE  /\ \A c \in Codes :
                             total[c] = Cardinality({r \in Served : sent[r] = c})
                      /\ limited = Cardinality({r \in Requests \ panicked : sent[r] = 429})
    BY DEF CountsMatchAnswers
  <2>1. ASSUME NEW r \in Requests
        PROVE  /\ IsRecorded(r) <=> r \in Served
               /\ IsLimited(r) <=> r \notin panicked /\ sent[r] = 429
    <3>1. RequestFits(r) /\ dir[r] \in {"new", "done"} /\ verdict[r] \in Passed \cup {"none", "denied"}
      BY DEF IInv, UnderWay, RequestTypes, Passed
    <3>2. dir[r] = "new" => verdict[r] = "none" /\ sent[r] = 0
      BY <3>1 DEF RequestFits, Placed
    <3>3. dir[r] = "done" => pos[r] = 0
      BY <3>1 DEF RequestFits, Placed
    <3>4. IsRecorded(r) <=> r \in Served
      BY <3>1, <3>2, <3>3 DEF IsRecorded, Served, Passed
    <3>5. IsLimited(r) <=> r \notin panicked /\ sent[r] = 429
      BY <3>1, <3>4 DEF IsLimited, Served, RequestFits, Limits, Passed
    <3> QED
      BY <3>4, <3>5
  <2>2. /\ \A c \in Codes : RecordedAs(c) = {r \in Served : sent[r] = c}
        /\ LimitedOnes = {r \in Requests \ panicked : sent[r] = 429}
    BY <2>1 DEF RecordedAs, LimitedOnes, Served
  <2> QED
    BY <2>2 DEF IInv, Tallied
<1> QED
  BY <1>1, IInvHolds, PTL

\* A request whose handler has returned was sent a status, also when the scrape or
\* the copy of an upstream's body panicked.
THEOREM EveryRequestIsAnswered == Spec => []DoneIsAnswered
<1>1. IInv => DoneIsAnswered
  BY DEF IInv, RequestFits, Placed, DoneIsAnswered
<1> QED
  BY <1>1, IInvHolds, PTL
=============================================================================
