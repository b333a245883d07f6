------------------------- MODULE TimedParts_proofs -------------------------
(***************************************************************************)
(* Theorems about the parts that decide by a clock, for any tokens, times  *)
(* and numbers of requests and goroutines: a revoked token stays out, an   *)
(* answer is lost to the deadline only, the deadlines bound how many       *)
(* scalings overlap, and the anomaly rule gets used to a level.            *)
(***************************************************************************)
EXTENDS TimedParts, Limiters_proofs, SequenceTheorems, WellFoundedInduction

-----------------------------------------------------------------------------
(* The token check.                                                         *)

\* The key of a banned token outlasts it; a request that was warned and is past
\* the lookup was let through because the key had run out, and the token with it.
CheckInv ==
    /\ clock \in Nat
    /\ CheckTypeOK
    /\ \A t \in banned : Covers(t, goneAt[t])
    /\ \A r \in Checks : warned[r] => token[r] \in banned
    /\ \A r \in Checks : step[r] = "parse" /\ warned[r] =>
          Expiry[token[r]] # Never /\ Expiry[token[r]] + Behind <= clock
    /\ RevokedStaysOut

LEMMA CheckStarts ==
    ASSUME ClockInit, CheckInit
    PROVE  CheckInv
BY DEF ClockInit, CheckInit, CheckInv, CheckTypeOK, RevokedStaysOut

\* A request goes one step on; the blacklist stays as it is.
LEMMA RequestKeepsCheck ==
    ASSUME CheckInv, UNCHANGED clock, NEW r \in Checks,
           NoBearer(r) \/ Extract(r) \/ LookUp(r) \/ LookUpFails(r) \/ Parse(r)
    PROVE  CheckInv'
<1>1. /\ clock' = clock /\ goneAt' = goneAt /\ token' = token /\ banned' = banned
      /\ clock \in Nat /\ CheckTypeOK
  BY DEF CheckInv, NoBearer, Extract, LookUp, LookUpFails, Parse
<1>2. \A q \in Checks \ {r} : step'[q] = step[q] /\ (warned'[q] <=> warned[q])
  BY <1>1 DEF CheckTypeOK, NoBearer, Extract, LookUp, LookUpFails, Parse
<1>3. CheckTypeOK'
  <2>1. step' \in [Checks -> {"new", "lookup", "parse", "rejected", "admitted"}]
    BY <1>1 DEF CheckTypeOK, NoBearer, Extract, LookUp, LookUpFails, Parse
  <2>2. warned' \in [Checks -> BOOLEAN]
    <3>1. CASE Extract(r)
      <4>1. warned' = [warned EXCEPT ![r] = token[r] \in banned]
        BY <3>1 DEF Extract
      <4>2. (token[r] \in banned) \in BOOLEAN
        OBVIOUS
      <4> QED
        BY <1>1, <4>1, <4>2 DEF CheckTypeOK
    <3>2. CASE ~ Extract(r)
      BY <1>1, <3>2 DEF CheckTypeOK, NoBearer, LookUp, LookUpFails, Parse
    <3> QED
      BY <3>1, <3>2
  <2> QED
    BY <1>1, <2>1, <2>2 DEF CheckTypeOK
<1>4. \A t \in banned' : Covers(t, goneAt[t])'
  BY <1>1 DEF CheckInv, Covers
<1>5. /\ warned'[r] => token[r] \in banned
      /\ step'[r] = "parse" /\ warned'[r] =>
            Expiry[token[r]] # Never /\ Expiry[token[r]] + Behind <= clock
      /\ step'[r] = "admitted" => ~ warned'[r]
  <2>1. CASE NoBearer(r) \/ LookUpFails(r)
    BY <1>1, <2>1 DEF CheckInv, CheckTypeOK, NoBearer, LookUpFails
  <2>2. CASE Extract(r)
    BY <1>1, <2>2 DEF CheckInv, CheckTypeOK, Extract
  <2>3. CASE LookUp(r)
    <3>1. /\ step'[r] = IF IsRevoked(token[r]) THEN "rejected" ELSE "parse"
          /\ warned' = warned
      BY <1>1, <2>3 DEF CheckTypeOK, LookUp
    <3>2. warned[r] => Covers(token[r], goneAt[token[r]])
      BY DEF CheckInv
    <3>3. /\ goneAt[token[r]] \in Nat \cup {Never}
          /\ Expiry[token[r]] \in Nat \cup {Never} /\ Behind \in Nat
      BY <1>1, TokenTypes DEF CheckTypeOK
    <3>4. warned[r] /\ ~ IsRevoked(token[r]) =>
             Expiry[token[r]] # Never /\ Expiry[token[r]] + Behind <= clock
      BY <1>1, <3>2, <3>3 DEF IsRevoked, Covers
    <3> QED
      BY <3>1, <3>4 DEF CheckInv
  <2>4. CASE Parse(r)
    <3>1. PICK late \in 0..Behind :
             step'[r] = IF Valid(token[r], clock - late) THEN "admitted" ELSE "rejected"
      BY <1>1, <2>4 DEF CheckTypeOK, Parse
    <3>2. step[r] = "parse" /\ warned' = warned
      BY <2>4 DEF Parse
    <3>3. Expiry[token[r]] \in Nat \cup {Never} /\ Behind \in Nat
      BY <1>1, TokenTypes DEF CheckTypeOK
    <3>4. warned[r] => ~ Valid(token[r], clock - late)
      BY <1>1, <3>2, <3>3 DEF CheckInv, Valid
    <3> QED
      BY <3>1, <3>2, <3>4 DEF CheckInv
  <2> QED
    BY <2>1, <2>2, <2>3, <2>4
<1>6. \A q \in Checks :
         /\ warned'[q] => token[q] \in banned
         /\ step'[q] = "parse" /\ warned'[q] =>
               Expiry[token[q]] # Never /\ Expiry[token[q]] + Behind <= clock
         /\ step'[q] = "admitted" => ~ warned'[q]
  BY <1>2, <1>5 DEF CheckInv, RevokedStaysOut
<1> QED
  BY <1>1, <1>3, <1>4, <1>6 DEF CheckInv, RevokedStaysOut

\* What Revoke sets a key to.
LEMMA KeyTypes ==
    ASSUME CheckInv, NEW ttl \in TTLs
    PROVE  GoneAt(ttl) \in Nat \cup {Never}
BY TokenTypes DEF CheckInv, GoneAt

LEMMA RevokeKeepsCheck ==
    ASSUME CheckInv, UNCHANGED clock, NEW t \in Tokens, NEW ttl \in TTLs,
           Revoke(t, ttl) \/ RevokeFails(t, ttl)
    PROVE  CheckInv'
<1>1. /\ clock' = clock /\ step' = step /\ token' = token
      /\ clock \in Nat /\ CheckTypeOK
  BY DEF CheckInv, Revoke, RevokeFails
<1>2. GoneAt(ttl) \in Nat \cup {Never}
  BY KeyTypes
<1>3. /\ goneAt' \in [Tokens -> Nat \cup {Never}]
      /\ \A u \in Tokens \ {t} : goneAt'[u] = goneAt[u]
  <2>1. goneAt' = goneAt \/ goneAt' = [goneAt EXCEPT ![t] = GoneAt(ttl)]
    BY DEF Revoke, RevokeFails
  <2> QED
    BY <1>1, <1>2, <2>1 DEF CheckTypeOK
\* Either t is banned by a key that covers it, or it is banned no more.
<1>4. \/ /\ Ban(t) /\ Covers(t, GoneAt(ttl)) /\ goneAt'[t] = GoneAt(ttl)
      \/ Unban(t)
  BY <1>1 DEF Revoke, RevokeFails, CheckTypeOK
<1>5. /\ warned' \in [Checks -> BOOLEAN]
      /\ \A r \in Checks : warned'[r] => warned[r] /\ token[r] \in banned'
  <2>1. CASE Ban(t)
    BY <1>1, <2>1 DEF CheckInv, CheckTypeOK, Ban
  <2>2. CASE Unban(t)
    <3>1. \A r \in Checks : warned'[r] <=> warned[r] /\ token[r] # t
      BY <2>2 DEF Unban
    <3>2. \A r \in Checks : (warned[r] /\ token[r] # t) \in BOOLEAN
      OBVIOUS
    <3>3. warned' \in [Checks -> BOOLEAN]
      BY <2>2, <3>2 DEF Unban
    <3>4. banned' = banned \ {t}
      BY <2>2 DEF Unban
    <3> QED
      BY <3>1, <3>3, <3>4 DEF CheckInv
  <2> QED
    BY <1>4, <2>1, <2>2
<1>6. banned' \subseteq Tokens
  BY <1>1, <1>4 DEF CheckTypeOK, Ban, Unban
<1>7. \A u \in banned' : Covers(u, goneAt'[u])
  BY <1>3, <1>4, <1>6 DEF CheckInv, Ban, Unban
<1>8. CheckTypeOK'
  BY <1>1, <1>3, <1>5, <1>6 DEF CheckTypeOK
<1> QED
  BY <1>1, <1>5, <1>7, <1>8 DEF CheckInv, RevokedStaysOut, Covers

\* Time alone changes nothing.
LEMMA CheckStays ==
    ASSUME CheckInv, clock' \in Nat, clock' >= clock, UNCHANGED checkVars
    PROVE  CheckInv'
<1>1. /\ clock \in Nat /\ Behind \in Nat
      /\ goneAt' = goneAt /\ step' = step /\ token' = token
      /\ banned' = banned /\ warned' = warned
  BY TokenTypes DEF CheckInv, checkVars
<1>2. \A r \in Checks : Expiry[token[r]] \in Nat \cup {Never}
  BY TokenTypes DEF CheckInv, CheckTypeOK
<1>3. \A r \in Checks : step[r] = "parse" /\ warned[r] =>
         Expiry[token[r]] # Never /\ Expiry[token[r]] + Behind <= clock'
  BY <1>1, <1>2 DEF CheckInv
<1> QED
  BY <1>1, <1>3 DEF CheckInv, CheckTypeOK, RevokedStaysOut, Covers

-----------------------------------------------------------------------------
(* The analyzer's goroutines and the brain.                                 *)

\* A Gemini that works has a key, and is not kept waiting beyond its latency: a
\* call that it was asked for with more time left does not fail.
ClockInv ==
    \A g \in Goroutines :
        /\ works[g] => "gemini" \in keys
        /\ doing[g] \in Asking \cup {"failed"} => left[g] <= AITimeout
        /\ doing[g] = "gemini" /\ works[g] => asked[g] - left[g] <= Latency
        /\ doing[g] = "failed" /\ works[g] => asked[g] <= Latency

\* The time a goroutine has from its start, and the time it has left at most.
Whole == AITimeout + ScaleTimeout
Remaining(g) == IF doing[g] = "scaling" THEN left[g] ELSE left[g] + ScaleTimeout

\* The time that n ticks of the ticker span.
Span(n) == n * Interval

\* tick[g]: how many ticks ago the one was that started g.  Each tick starts one
\* goroutine at most, at most Jitter late, and what g has left shrinks from then.
StartedAt(tick) ==
    /\ tick \in [Goroutines -> Nat]
    /\ \A g, h \in UnderWay : tick[g] = tick[h] => g = h
    /\ \A g \in UnderWay :
          /\ Remaining(g) <= Whole + Jitter - phase - Span(tick[g])
          /\ fired => tick[g] >= 1

ScalerInv ==
    /\ ScalerTypeOK
    /\ ClockInv
    /\ fired => phase <= Jitter
    /\ \E tick \in [Goroutines -> Nat] : StartedAt(tick)

\* One goroutine's part of ClockInv.
OwnClock(g) ==
    /\ works[g] => "gemini" \in keys
    /\ doing[g] \in Asking \cup {"failed"} => left[g] <= AITimeout
    /\ doing[g] = "gemini" /\ works[g] => asked[g] - left[g] <= Latency
    /\ doing[g] = "failed" /\ works[g] => asked[g] <= Latency

\* What the goroutines keep has its types.
CallTypes ==
    /\ doing \in [Goroutines -> {"idle", "scaling", "answered", "failed"} \cup Asking]
    /\ left \in [Goroutines -> 0..(AITimeout + ScaleTimeout)]
    /\ works \in [Goroutines -> BOOLEAN]
    /\ asked \in [Goroutines -> 0..AITimeout]
    /\ reply \in [Goroutines -> Answers]

LEMMA Times ==
    /\ AITimeout \in Nat /\ Latency \in Nat /\ ScaleTimeout \in Nat
    /\ Latency > 0 /\ Interval \in Nat /\ Interval > 0
    /\ Jitter \in Nat /\ Jitter < Interval /\ Whole \in Nat
    /\ \A n \in Nat : Span(n) \in Nat /\ Span(n + 1) = Span(n) + Interval
    /\ Span(0) = 0
<1>1. /\ AITimeout \in Nat /\ Latency \in Nat /\ ScaleTimeout \in Nat
      /\ Latency > 0 /\ Interval \in Nat /\ Interval > 0
      /\ Jitter \in Nat /\ Jitter < Interval /\ Whole \in Nat
  BY BrainTimes, LoopTimes DEF Whole
<1>2. \A n \in Nat : Span(n) \in Nat /\ Span(n + 1) = Span(n) + Interval
  BY <1>1 DEF Span
<1>3. Span(0) = 0
  BY <1>1 DEF Span
<1> QED
  BY <1>1, <1>2, <1>3

LEMMA ScalerStarts ==
    ASSUME ScalerInit
    PROVE  ScalerInv
<1>1. /\ keys \subseteq Asking /\ tpsHistory = << >> /\ phase = 0 /\ fired = FALSE
      /\ doing = [g \in Goroutines |-> "idle"] /\ left = [g \in Goroutines |-> 0]
      /\ works = [g \in Goroutines |-> FALSE] /\ asked = [g \in Goroutines |-> 0]
      /\ reply = [g \in Goroutines |-> "none"]
  BY DEF ScalerInit, BrainInit, AnalyzerInit
<1>2. ScalerTypeOK
  <2>1. AnalyzerTypeOK
    BY <1>1, HistoryTypes DEF AnalyzerTypeOK
  <2>2. /\ doing \in [Goroutines -> {"idle", "scaling", "answered", "failed"} \cup Asking]
        /\ works \in [Goroutines -> BOOLEAN] /\ reply \in [Goroutines -> Answers]
        /\ keys \subseteq Asking /\ fired \in BOOLEAN
    BY <1>1 DEF Answers
  <2>3. /\ left \in [Goroutines -> 0..(AITimeout + ScaleTimeout)]
        /\ asked \in [Goroutines -> 0..AITimeout] /\ phase \in 0..(Interval - 1)
    BY <1>1, Times
  <2> QED
    BY <2>1, <2>2, <2>3 DEF ScalerTypeOK
<1>3. ClockInv
  BY <1>1, Times DEF ClockInv, Asking
<1>4. StartedAt([g \in Goroutines |-> 0])
  BY <1>1 DEF StartedAt, UnderWay
<1> QED
  BY <1>1, <1>2, <1>3, <1>4 DEF ScalerInv, StartedAt

\* One goroutine moves on by itself, or ends: it gains no time.
LEMMA OneMoves ==
    ASSUME ScalerInv, UNCHANGED <<tpsHistory, keys, phase, fired>>,
           NEW g \in Goroutines, CallTypes',
           \A h \in Goroutines \ {g} :
              /\ doing'[h] = doing[h] /\ left'[h] = left[h]
              /\ works'[h] = works[h] /\ asked'[h] = asked[h],
           OwnClock(g)',
           doing'[g] # "idle" => doing[g] # "idle" /\ Remaining(g)' <= Remaining(g)
    PROVE  ScalerInv'
<1>1. ScalerTypeOK'
  BY DEF ScalerInv, ScalerTypeOK, AnalyzerTypeOK, CallTypes
<1>2. ClockInv'
  <2> SUFFICES ASSUME NEW h \in Goroutines PROVE OwnClock(h)'
    BY DEF ClockInv, OwnClock
  <2>1. CASE h = g
    BY <2>1
  <2>2. CASE h # g
    <3>1. /\ doing'[h] = doing[h] /\ left'[h] = left[h]
          /\ works'[h] = works[h] /\ asked'[h] = asked[h] /\ keys' = keys
      BY <2>2
    <3>2. OwnClock(h)
      BY DEF ScalerInv, ClockInv, OwnClock
    <3> QED
      BY <3>1, <3>2 DEF OwnClock
  <2> QED
    BY <2>1, <2>2
<1>3. PICK tick \in [Goroutines -> Nat] : StartedAt(tick)
  BY DEF ScalerInv
<1>4. UnderWay' \subseteq UnderWay
  BY DEF UnderWay
<1>5. ASSUME NEW h \in UnderWay'
      PROVE  /\ Remaining(h)' <= Whole + Jitter - phase - Span(tick[h])
             /\ fired => tick[h] >= 1
  <2>1. h \in Goroutines /\ h \in UnderWay /\ doing'[h] # "idle"
    BY <1>4 DEF UnderWay
  <2>2. /\ Remaining(h) <= Whole + Jitter - phase - Span(tick[h])
        /\ fired => tick[h] >= 1
    BY <1>3, <2>1 DEF StartedAt
  <2>3. Remaining(h)' <= Remaining(h)
    <3>1. CASE h = g
      BY <2>1, <3>1
    <3>2. CASE h # g
      <4>1. Remaining(h)' = Remaining(h)
        BY <2>1, <3>2 DEF Remaining
      <4>2. Remaining(h) \in Int
        BY <2>1, Times DEF ScalerInv, ScalerTypeOK, Remaining
      <4> QED
        BY <4>1, <4>2
    <3> QED
      BY <3>1, <3>2
  <2>4. /\ Remaining(h)' \in Int /\ Remaining(h) \in Int
        /\ Whole + Jitter - phase - Span(tick[h]) \in Int
    <3>1. tick[h] \in Nat
      BY <1>3, <2>1
    <3>2. Span(tick[h]) \in Nat /\ phase \in Int
      BY <3>1, Times DEF ScalerInv, ScalerTypeOK
    <3>3. left[h] \in Nat /\ left'[h] \in Nat
      BY <2>1, Times DEF ScalerInv, ScalerTypeOK, CallTypes
    <3> QED
      BY <3>2, <3>3, Times DEF Remaining
  <2> QED
    BY <2>2, <2>3, <2>4
<1>6. StartedAt(tick)'
  <2>1. \A h, i \in UnderWay' : tick[h] = tick[i] => h = i
    BY <1>3, <1>4 DEF StartedAt
  <2> QED
    BY <1>3, <1>5, <2>1 DEF StartedAt
<1> QED
  BY <1>1, <1>2, <1>6 DEF ScalerInv

LEMMA ThinkKeepsScaler ==
    ASSUME ScalerInv, NEW g \in Goroutines, Think(g)
    PROVE  ScalerInv'
<1>1. /\ UNCHANGED <<tpsHistory, keys, phase, fired>> /\ CallTypes /\ OwnClock(g)
      /\ left' = left /\ works' = works
      /\ left[g] \in Nat /\ asked[g] \in Nat
  BY Times DEF ScalerInv, ScalerTypeOK, CallTypes, ClockInv, OwnClock, Think, ProviderAnswers,
         DeepSeekFails, GeminiFails
<1>2. CASE ProviderAnswers(g)
  <2>1. /\ doing' = [doing EXCEPT ![g] = "answered"] /\ asked' = asked /\ doing[g] \in Asking
    BY <1>2 DEF ProviderAnswers
  <2>2. reply' \in [Goroutines -> Answers]
    BY <1>1, <1>2 DEF CallTypes, ProviderAnswers
  <2>3. doing'[g] = "answered" /\ \A h \in Goroutines \ {g} : doing'[h] = doing[h]
    BY <1>1, <2>1 DEF CallTypes
  <2>4. CallTypes'
    BY <1>1, <2>1, <2>2 DEF CallTypes
  <2>5. OwnClock(g)'
    BY <1>1, <2>3 DEF OwnClock, Asking
  <2>6. doing[g] # "idle" /\ Remaining(g)' <= Remaining(g)
    BY <1>1, <2>1, <2>3, Times DEF Asking, Remaining
  <2> QED
    BY <1>1, <2>1, <2>3, <2>4, <2>5, <2>6, OneMoves
<1>3. CASE DeepSeekFails(g)
  <2>1. /\ doing' = [doing EXCEPT ![g] = IF "gemini" \in keys THEN "gemini" ELSE "failed"]
        /\ asked' = [asked EXCEPT ![g] = left[g]] /\ reply' = reply
        /\ doing[g] = "deepseek"
    BY <1>3 DEF DeepSeekFails
  <2>2. /\ doing'[g] = IF "gemini" \in keys THEN "gemini" ELSE "failed"
        /\ asked'[g] = left[g] /\ left[g] <= AITimeout
        /\ \A h \in Goroutines \ {g} : doing'[h] = doing[h] /\ asked'[h] = asked[h]
    BY <1>1, <2>1 DEF CallTypes, OwnClock, Asking
  <2>3. CallTypes'
    BY <1>1, <2>1, <2>2, Times DEF CallTypes, Asking
  <2>4. OwnClock(g)'
    BY <1>1, <2>2, Times DEF OwnClock
  <2>5. doing[g] # "idle" /\ Remaining(g)' <= Remaining(g)
    BY <1>1, <2>1, <2>2, Times DEF Remaining
  <2> QED
    BY <1>1, <2>2, <2>3, <2>4, <2>5, OneMoves
<1>4. CASE GeminiFails(g)
  <2>1. /\ doing' = [doing EXCEPT ![g] = "failed"] /\ asked' = asked /\ reply' = reply
        /\ doing[g] = "gemini" /\ (~ works[g] \/ left[g] = 0)
    BY <1>4 DEF GeminiFails
  <2>2. doing'[g] = "failed" /\ \A h \in Goroutines \ {g} : doing'[h] = doing[h]
    BY <1>1, <2>1 DEF CallTypes
  <2>3. CallTypes'
    BY <1>1, <2>1 DEF CallTypes
  <2>4. OwnClock(g)'
    BY <1>1, <2>1, <2>2, Times DEF OwnClock, Asking
  <2>5. doing[g] # "idle" /\ Remaining(g)' <= Remaining(g)
    BY <1>1, <2>1, <2>2, Times DEF Remaining
  <2> QED
    BY <1>1, <2>1, <2>2, <2>3, <2>4, <2>5, OneMoves
<1> QED
  BY <1>2, <1>3, <1>4 DEF Think

LEMMA DoneKeepsScaler ==
    ASSUME ScalerInv, NEW g \in Goroutines, Done(g), UNCHANGED <<tpsHistory, phase, fired>>
    PROVE  ScalerInv'
<1>1. /\ doing' = [doing EXCEPT ![g] = "idle"] /\ left' = [left EXCEPT ![g] = 0]
      /\ works' = [works EXCEPT ![g] = FALSE] /\ asked' = [asked EXCEPT ![g] = 0]
      /\ reply' = [reply EXCEPT ![g] = "none"] /\ keys' = keys /\ CallTypes
  BY DEF Done, ScalerInv, ScalerTypeOK, CallTypes
<1>2. /\ doing'[g] = "idle" /\ works'[g] = FALSE
      /\ \A h \in Goroutines \ {g} :
            /\ doing'[h] = doing[h] /\ left'[h] = left[h]
            /\ works'[h] = works[h] /\ asked'[h] = asked[h]
  BY <1>1 DEF CallTypes
<1>3. CallTypes'
  BY <1>1, Times DEF CallTypes, Answers
<1>4. OwnClock(g)'
  BY <1>2 DEF OwnClock, Asking
<1> QED
  BY <1>1, <1>2, <1>3, <1>4, OneMoves

LEMMA ScaleKeepsScaler ==
    ASSUME ScalerInv, NEW g \in Goroutines, Scale(g)
    PROVE  ScalerInv'
<1>1. /\ doing' = [doing EXCEPT ![g] = "scaling"] /\ left' = [left EXCEPT ![g] = ScaleTimeout]
      /\ UNCHANGED <<tpsHistory, keys, phase, fired>>
      /\ works' = works /\ asked' = asked /\ reply' = reply /\ doing[g] = "answered"
      /\ CallTypes /\ OwnClock(g)
  BY DEF Scale, ScalerInv, ScalerTypeOK, CallTypes, ClockInv, OwnClock
<1>2. /\ doing'[g] = "scaling" /\ left'[g] = ScaleTimeout
      /\ \A h \in Goroutines \ {g} : doing'[h] = doing[h] /\ left'[h] = left[h]
  BY <1>1 DEF CallTypes
<1>3. CallTypes'
  BY <1>1, Times DEF CallTypes
<1>4. OwnClock(g)'
  BY <1>1, <1>2 DEF OwnClock, Asking
<1>5. left[g] \in Nat
  BY <1>1, Times DEF CallTypes
<1>6. Remaining(g)' <= Remaining(g)
  BY <1>1, <1>2, <1>5, Times DEF Remaining
<1> QED
  BY <1>1, <1>2, <1>3, <1>4, <1>6, OneMoves

LEMMA ElapseKeepsScaler ==
    ASSUME ScalerInv, Elapse
    PROVE  ScalerInv'
<1>1. /\ \A g \in UnderWay : doing[g] \in Asking \cup {"scaling"} /\ MayWait(g)
      /\ fired => phase < Jitter
      /\ left' = [g \in Goroutines |-> IF g \in UnderWay THEN left[g] - 1 ELSE 0]
      /\ phase' = (phase + 1) % Interval
      /\ fired' = (fired \/ phase' = 0)
      /\ tpsHistory' = tpsHistory /\ keys' = keys /\ doing' = doing
      /\ works' = works /\ asked' = asked /\ reply' = reply
  BY DEF Elapse
<1>2. /\ CallTypes /\ AnalyzerTypeOK /\ keys \subseteq Asking
      /\ phase \in 0..(Interval - 1) /\ fired \in BOOLEAN
  BY DEF ScalerInv, ScalerTypeOK, CallTypes
<1>3. phase' = IF phase + 1 = Interval THEN 0 ELSE phase + 1
  <2>1. phase + 1 \in 0..Interval /\ Interval \in Nat /\ Interval > 0
    BY <1>2, Times
  <2>2. \A k \in 0..Interval : k % Interval = IF k = Interval THEN 0 ELSE k
    BY Times
  <2> QED
    BY <1>1, <2>1, <2>2
<1>4. phase' \in 0..(Interval - 1) /\ fired' \in BOOLEAN
  <2>1. phase' \in 0..(Interval - 1)
    BY <1>2, <1>3, Times
  <2>2. (fired \/ phase' = 0) \in BOOLEAN
    OBVIOUS
  <2> QED
    BY <1>1, <2>1, <2>2
<1>5. ASSUME NEW g \in UnderWay
      PROVE  /\ g \in Goroutines /\ left[g] \in Nat \ {0} /\ left'[g] = left[g] - 1
             /\ asked[g] \in Nat
             /\ doing[g] = "gemini" /\ works[g] => asked[g] - left[g] < Latency
  BY <1>1, <1>2, Times DEF UnderWay, MayWait, CallTypes
<1>6. left' \in [Goroutines -> 0..(AITimeout + ScaleTimeout)]
  <2>1. \A g \in Goroutines :
           (IF g \in UnderWay THEN left[g] - 1 ELSE 0) \in 0..(AITimeout + ScaleTimeout)
    BY <1>2, <1>5, Times DEF CallTypes
  <2> QED
    BY <1>1, <2>1
<1>7. ScalerTypeOK'
  BY <1>1, <1>2, <1>4, <1>6 DEF ScalerTypeOK, AnalyzerTypeOK, CallTypes
<1>8. ClockInv'
  <2> SUFFICES ASSUME NEW g \in Goroutines PROVE OwnClock(g)'
    BY DEF ClockInv, OwnClock
  <2>1. OwnClock(g)
    BY DEF ScalerInv, ClockInv, OwnClock
  <2>2. CASE g \in UnderWay
    <3>1. /\ doing[g] \in Asking \cup {"scaling"} /\ left[g] \in Nat
          /\ left'[g] = left[g] - 1 /\ asked[g] \in Nat
          /\ doing[g] = "gemini" /\ works[g] => asked[g] - left[g] < Latency
          /\ doing' = doing /\ works' = works /\ asked' = asked /\ keys' = keys
      BY <1>1, <1>5, <2>2
    <3>2. doing[g] # "failed"
      BY <3>1 DEF Asking
    <3>3. doing[g] \in Asking => left'[g] <= AITimeout
      BY <2>1, <3>1, Times DEF OwnClock
    <3>4. doing[g] = "gemini" /\ works[g] => asked[g] - left'[g] <= Latency
      BY <3>1, Times
    <3> QED
      BY <2>1, <3>1, <3>2, <3>3, <3>4 DEF OwnClock
  <2>3. CASE g \notin UnderWay
    BY <1>1, <2>1, <2>3 DEF OwnClock, UnderWay, Asking
  <2> QED
    BY <2>2, <2>3
<1>9. fired' => phase' <= Jitter
  BY <1>1, <1>2, <1>3, Times
<1>10. PICK tick \in [Goroutines -> Nat] : StartedAt(tick)
  BY DEF ScalerInv
<1>11. ASSUME NEW g \in UnderWay
       PROVE  /\ Remaining(g)' = Remaining(g) - 1 /\ Remaining(g) \in Int
              /\ tick[g] \in Nat /\ Span(tick[g]) \in Nat
              /\ Remaining(g) <= Whole + Jitter - phase - Span(tick[g])
              /\ fired => tick[g] >= 1
  <2>1. left[g] \in Nat /\ left'[g] = left[g] - 1 /\ doing' = doing
    BY <1>1, <1>5
  <2>2. Remaining(g)' = Remaining(g) - 1 /\ Remaining(g) \in Int
    BY <2>1, Times DEF Remaining
  <2>3. tick[g] \in Nat /\ Span(tick[g]) \in Nat
    BY <1>5, <1>10, Times
  <2> QED
    BY <1>10, <2>2, <2>3 DEF StartedAt
<1>12. UnderWay' = UnderWay /\ UnderWay \subseteq Goroutines
  BY <1>1 DEF UnderWay
<1>13. CASE phase + 1 = Interval
  <2> DEFINE next == [g \in Goroutines |-> tick[g] + 1]
  <2>1. next \in [Goroutines -> Nat]
    BY <1>10
  <2>2. ASSUME NEW g \in UnderWay
        PROVE  /\ Remaining(g)' <= Whole + Jitter - phase' - Span(next[g])
               /\ next[g] >= 1
    <3>1. next[g] = tick[g] + 1 /\ Span(tick[g] + 1) = Span(tick[g]) + Interval
      BY <1>5, <1>11, Times
    <3>2. phase' = 0 /\ phase \in Int
      BY <1>2, <1>3, <1>13, Times
    <3> HIDE DEF next
    <3> QED
      BY <1>11, <1>13, <3>1, <3>2, Times
  <2>3. \A g, h \in UnderWay : next[g] = next[h] => g = h
    BY <1>10, <1>11, <1>12 DEF StartedAt
  <2> HIDE DEF next
  <2>4. StartedAt(next)'
    BY <1>12, <2>1, <2>2, <2>3 DEF StartedAt
  <2> QED
    BY <1>7, <1>8, <1>9, <2>1, <2>4 DEF ScalerInv
<1>14. CASE phase + 1 # Interval
  <2>1. phase' = phase + 1 /\ phase \in Int /\ (fired' <=> fired)
    BY <1>1, <1>2, <1>3, <1>14, Times
  <2>2. ASSUME NEW g \in UnderWay
        PROVE  /\ Remaining(g)' <= Whole + Jitter - phase' - Span(tick[g])
               /\ fired' => tick[g] >= 1
    BY <1>11, <2>1, Times
  <2>3. StartedAt(tick)'
    BY <1>10, <1>12, <2>2 DEF StartedAt
  <2> QED
    BY <1>7, <1>8, <1>9, <2>3 DEF ScalerInv
<1> QED
  BY <1>13, <1>14

\* The history keeps its length.
LEMMA RotatedFits ==
    ASSUME AnalyzerTypeOK, NEW t \in Rates
    PROVE  Rotated(t) \in Seq(Rates) /\ Len(Rotated(t)) <= MaxHistory
<1>1. /\ tpsHistory \in Seq(Rates) /\ Len(tpsHistory) <= MaxHistory
      /\ MaxHistory \in Nat /\ MaxHistory > 0 /\ Len(tpsHistory) \in Nat
  BY HistoryTypes DEF AnalyzerTypeOK
<1>2. CASE Len(tpsHistory) >= MaxHistory
  <2>1. tpsHistory # << >>
    BY <1>1, <1>2
  <2>2. Tail(tpsHistory) \in Seq(Rates) /\ Len(Tail(tpsHistory)) = Len(tpsHistory) - 1
    BY <1>1, <2>1
  <2> QED
    BY <1>1, <1>2, <2>2 DEF Rotated
<1>3. CASE ~ (Len(tpsHistory) >= MaxHistory)
  BY <1>1, <1>3 DEF Rotated
<1> QED
  BY <1>2, <1>3

LEMMA SampleKeepsScaler ==
    ASSUME ScalerInv, NEW t \in Rates, Sample(t)
    PROVE  ScalerInv'
<1>1. /\ fired = TRUE /\ fired' = FALSE /\ phase' = phase /\ phase <= Jitter
      /\ phase \in 0..(Interval - 1) /\ keys' = keys /\ keys \subseteq Asking
      /\ CallTypes /\ AnalyzerTypeOK
  BY DEF Sample, Ask, brainVars, ScalerInv, ScalerTypeOK, CallTypes
<1>2. AnalyzerTypeOK'
  BY <1>1, RotatedFits DEF Sample, Analyze, AnalyzerTypeOK
<1>3. PICK tick \in [Goroutines -> Nat] : StartedAt(tick)
  BY DEF ScalerInv
<1>4. CASE ~ Anomalous(t)
  <2>1. /\ doing' = doing /\ left' = left /\ works' = works
        /\ asked' = asked /\ reply' = reply
    BY <1>4 DEF Sample, brainVars
  <2>2. UnderWay' = UnderWay /\ \A g : Remaining(g)' = Remaining(g)
    BY <2>1 DEF UnderWay, Remaining
  <2>3. StartedAt(tick)'
    BY <1>1, <1>3, <2>2 DEF StartedAt
  <2>4. ScalerTypeOK' /\ ClockInv'
    BY <1>1, <1>2, <2>1 DEF ScalerInv, ScalerTypeOK, CallTypes, ClockInv
  <2> QED
    BY <1>1, <2>3, <2>4 DEF ScalerInv
<1>5. CASE Anomalous(t)
  <2>1. PICK f : Ask(f, PromptWords) /\ doing[f] = "idle"
    BY <1>5 DEF Sample, Ask
  <2>2. PICK d \in {"answered", "deepseek", "gemini"} : doing' = [doing EXCEPT ![f] = d]
    <3>1. doing' = [doing EXCEPT ![f] = "answered"]
          \/ doing' = [doing EXCEPT ![f] = IF "deepseek" \in keys THEN "deepseek" ELSE "gemini"]
      BY <2>1 DEF Ask
    <3> QED
      BY <3>1
  <2>3. PICK a \in Answers : reply' = reply \/ reply' = [reply EXCEPT ![f] = a]
    <3>1. MockCompletion(PromptWords) \in Answers
      BY DEF MockCompletion, Answers
    <3> QED
      BY <2>1, <3>1 DEF Ask
  <2>4. /\ left' = [left EXCEPT ![f] = AITimeout]
        /\ asked' = [asked EXCEPT ![f] = AITimeout]
    BY <2>1 DEF Ask
  <2>5. PICK up \in BOOLEAN : works' = [works EXCEPT ![f] = up /\ "gemini" \in keys]
    BY <2>1 DEF Ask
  <2>6. \A g \in Goroutines \ {f} :
           /\ doing'[g] = doing[g] /\ left'[g] = left[g]
           /\ works'[g] = works[g] /\ asked'[g] = asked[g]
    BY <1>1, <2>2, <2>4, <2>5 DEF CallTypes
  <2>7. ASSUME f \in Goroutines
        PROVE  /\ doing'[f] = d /\ left'[f] = AITimeout /\ asked'[f] = AITimeout
               /\ works'[f] => "gemini" \in keys
    <3>1. works'[f] = (up /\ "gemini" \in keys)
      BY <1>1, <2>5, <2>7 DEF CallTypes
    <3> QED
      BY <1>1, <2>2, <2>4, <2>7, <3>1 DEF CallTypes
  <2>8. CallTypes'
    <3>1. works' \in [Goroutines -> BOOLEAN]
      <4>1. (up /\ "gemini" \in keys) \in BOOLEAN
        OBVIOUS
      <4> QED
        BY <1>1, <2>5, <4>1 DEF CallTypes
    <3>2. /\ doing' \in [Goroutines -> {"idle", "scaling", "answered", "failed"} \cup Asking]
          /\ reply' \in [Goroutines -> Answers]
      BY <1>1, <2>2, <2>3 DEF CallTypes, Asking
    <3>3. /\ left' \in [Goroutines -> 0..(AITimeout + ScaleTimeout)]
          /\ asked' \in [Goroutines -> 0..AITimeout]
      <4>1. AITimeout \in 0..(AITimeout + ScaleTimeout) /\ AITimeout \in 0..AITimeout
        BY Times
      <4> QED
        BY <1>1, <2>4, <4>1 DEF CallTypes
    <3> QED
      BY <3>1, <3>2, <3>3 DEF CallTypes
  <2>9. ClockInv'
    <3> SUFFICES ASSUME NEW g \in Goroutines PROVE OwnClock(g)'
      BY DEF ClockInv, OwnClock
    <3>1. OwnClock(g)
      BY DEF ScalerInv, ClockInv, OwnClock
    <3>2. CASE g = f
      BY <1>1, <2>7, <3>2, Times DEF OwnClock
    <3>3. CASE g # f
      BY <1>1, <2>6, <3>1, <3>3 DEF OwnClock
    <3> QED
      BY <3>2, <3>3
  <2> DEFINE next == [g \in Goroutines |-> IF g = f THEN 0 ELSE tick[g]]
  <2>10. next \in [Goroutines -> Nat]
    BY <1>3
  <2>11. \A g \in UnderWay' : g \in Goroutines /\ (g # f => g \in UnderWay)
    BY <2>6 DEF UnderWay
  <2>12. \A g \in UnderWay' : g # f => next[g] = tick[g] /\ tick[g] >= 1
    BY <1>1, <1>3, <2>11 DEF StartedAt
  <2>13. \A g, h \in UnderWay' : next[g] = next[h] => g = h
    <3> SUFFICES ASSUME NEW g \in UnderWay', NEW h \in UnderWay', next[g] = next[h]
                 PROVE  g = h
      OBVIOUS
    <3>1. CASE g # f /\ h # f
      BY <1>3, <2>11, <2>12, <3>1 DEF StartedAt
    <3>2. \A i \in UnderWay' : i = f => next[i] = 0
      BY <2>11
    <3> HIDE DEF next
    <3>3. CASE g = f \/ h = f
      BY <2>12, <3>2, <3>3
    <3> QED
      BY <3>1, <3>3
  <2>14. ASSUME NEW g \in UnderWay'
         PROVE  Remaining(g)' <= Whole + Jitter - phase' - Span(next[g])
    <3>1. CASE g = f
      <4>1. Remaining(g)' = Whole /\ Span(next[g]) = 0
        BY <2>7, <2>11, <3>1, Times DEF Remaining, Whole
      <4> QED
        BY <1>1, <4>1, Times
    <3>2. CASE g # f
      <4>1. Remaining(g)' = Remaining(g) /\ g \in UnderWay /\ next[g] = tick[g]
        BY <2>6, <2>11, <2>12, <3>2 DEF Remaining
      <4> QED
        BY <1>1, <1>3, <4>1 DEF StartedAt
    <3> QED
      BY <3>1, <3>2
  <2> HIDE DEF next
  <2>15. StartedAt(next)'
    BY <1>1, <2>10, <2>13, <2>14 DEF StartedAt
  <2>16. ScalerTypeOK'
    BY <1>1, <1>2, <2>8 DEF ScalerTypeOK, CallTypes
  <2> QED
    BY <1>1, <2>9, <2>10, <2>15, <2>16 DEF ScalerInv
<1> QED
  BY <1>4, <1>5

\* Ticks that span a time fit into it as often as the interval does.
LEMMA TicksFit ==
    ASSUME NEW m \in Nat, NEW n \in Nat, Span(n) <= m
    PROVE  n <= m \div Interval /\ m \div Interval \in Nat
<1> DEFINE q == m \div Interval
<1>1. Interval \in Nat /\ Interval > 0
  BY Times
<1>2. q \in Nat /\ m < q * Interval + Interval
  BY <1>1
<1> HIDE DEF q
<1>3. SUFFICES ASSUME n >= q + 1 PROVE FALSE
  BY <1>2 DEF q
<1>4. PICK d \in Nat : n = (q + 1) + d
  <2>1. n - (q + 1) \in Nat
    BY <1>2, <1>3
  <2>2. n = (q + 1) + (n - (q + 1))
    BY <1>2
  <2> QED
    BY <2>1, <2>2
<1>5. d * Interval \in Nat /\ q * Interval \in Nat
  BY <1>1, <1>2
<1>6. n * Interval = q * Interval + Interval + d * Interval
  BY <1>1, <1>2, <1>4
<1> QED
  BY <1>1, <1>2, <1>5, <1>6 DEF Span

\* No two goroutines under way were started by the same tick, and the last tick
\* whose goroutine has time left is a bounded number of intervals ago.
LEMMA TicksBoundOverlap ==
    ASSUME ScalerInv
    PROVE  OverlapBounded
<1> DEFINE most == (AITimeout + ScaleTimeout + Jitter) \div Interval
<1>1. PICK tick \in [Goroutines -> Nat] : StartedAt(tick)
  BY DEF ScalerInv
<1>2. ASSUME NEW g \in UnderWay
      PROVE  tick[g] \in 0..most
  <2>1. g \in Goroutines /\ tick[g] \in Nat
    BY <1>1 DEF UnderWay
  <2>2. Remaining(g) \in Nat /\ phase \in Nat
    BY <2>1, Times DEF ScalerInv, ScalerTypeOK, Remaining
  <2>3. Remaining(g) <= Whole + Jitter - phase - Span(tick[g])
    BY <1>1 DEF StartedAt
  <2>4. Span(tick[g]) \in Nat
    BY <2>1, Times
  <2>5. Span(tick[g]) <= AITimeout + ScaleTimeout + Jitter
    BY <2>2, <2>3, <2>4, Times DEF Whole
  <2>6. AITimeout + ScaleTimeout + Jitter \in Nat
    BY Times
  <2>7. tick[g] <= most /\ most \in Nat
    BY <2>1, <2>5, <2>6, TicksFit
  <2> QED
    BY <2>1, <2>7
<1>3. most \in Nat
  <2>1. AITimeout + ScaleTimeout + Jitter \in Nat /\ 0 \in Nat
        /\ Span(0) <= AITimeout + ScaleTimeout + Jitter
    BY Times
  <2> QED
    BY <2>1, TicksFit
<1> DEFINE started == [g \in UnderWay |-> tick[g]]
<1> HIDE DEF most
<1>4. started \in Injection(UnderWay, 0..most)
  <2>1. started \in [UnderWay -> 0..most]
    BY <1>2
  <2>2. \A g, h \in UnderWay : started[g] = started[h] => g = h
    BY <1>1 DEF StartedAt
  <2> QED
    BY <2>1, <2>2 DEF Injection, IsInjective
<1>5. IsFiniteSet(0..most) /\ Cardinality(0..most) = most + 1
  BY <1>3, FS_Interval
<1>6. Cardinality(UnderWay) <= most + 1
  BY <1>4, <1>5, FS_Injection
<1> QED
  BY <1>6 DEF OverlapBounded, most

-----------------------------------------------------------------------------
(* The anomaly rule.                                                        *)

\* Induction over a set of numbers: the least number outside it has no place.
LEMMA Inductive ==
    ASSUME NEW S, 0 \in S, \A n \in Nat : n \in S => n + 1 \in S
    PROVE  Nat \subseteq S
<1> DEFINE outside == Nat \ S
<1> SUFFICES ASSUME outside # {} PROVE FALSE
  OBVIOUS
<1>1. PICK least \in outside : \A n \in outside : <<n, least>> \notin OpToRel(<, Nat)
  BY WFMin, NatLessThanWellFounded, Zenon
<1>2. \A n \in outside : ~ n < least
  BY <1>1, Zenon DEF OpToRel
<1>3. least \in Nat /\ least # 0 /\ least - 1 \in Nat /\ least - 1 < least
  OBVIOUS
<1>4. least - 1 \in S
  BY <1>2, <1>3
<1> QED
  BY <1>3, <1>4

\* Total(h) is the last of the sums of the prefixes of h, each of which adds one
\* rate to the one before.
LEMMA RunningSum ==
    ASSUME NEW h \in Seq(Nat)
    PROVE  \E f \in [0..Len(h) -> Nat] :
               /\ f[0] = 0
               /\ \A i \in 1..Len(h) : f[i] = f[i - 1] + h[i]
               /\ Total(h) = f[Len(h)]
<1> DEFINE n == Len(h)
           Sums(m, f) == f[0] = 0 /\ \A i \in 1..m : f[i] = f[i - 1] + h[i]
           Loop(f) == f = [i \in 0..n |-> IF i = 0 THEN 0 ELSE f[i - 1] + h[i]]
           upTo == CHOOSE f : Loop(f)
           Solved(m) == m <= n => \E f \in [0..m -> Nat] : Sums(m, f)
           S == {m \in Nat : Solved(m)}
<1>1. n \in Nat /\ \A i \in 1..n : h[i] \in Nat
  OBVIOUS
<1>2. Total(h) = upTo[n]
  BY DEF Total
<1> HIDE DEF n
<1>3. 0 \in S
  <2> DEFINE f == [i \in 0..0 |-> 0]
  <2>1. f \in [0..0 -> Nat]
    OBVIOUS
  <2>2. f[0] = 0 /\ \A i \in 1..0 : f[i] = f[i - 1] + h[i]
    OBVIOUS
  <2> QED
    BY <2>1, <2>2
<1>4. ASSUME NEW m \in Nat, m \in S
      PROVE  m + 1 \in S
  <2> SUFFICES ASSUME m + 1 <= n PROVE \E f \in [0..(m + 1) -> Nat] : Sums(m + 1, f)
    <3>1. Solved(m + 1)
      OBVIOUS
    <3> QED
      <4> HIDE DEF Solved
      <4> QED
        BY <3>1
  <2>1. PICK f \in [0..m -> Nat] : Sums(m, f)
    BY <1>1, <1>4
  <2> DEFINE g == [i \in 0..(m + 1) |-> IF i = m + 1 THEN f[m] + h[m + 1] ELSE f[i]]
  <2>2. h[m + 1] \in Nat
    BY <1>1
  <2>3. g \in [0..(m + 1) -> Nat]
    BY <2>2
  <2>4. g[0] = 0
    BY <2>1
  <2>5. ASSUME NEW i \in 1..(m + 1) PROVE g[i] = g[i - 1] + h[i]
    <3>1. i \in 0..(m + 1) /\ i - 1 \in 0..(m + 1) /\ i - 1 # m + 1
      OBVIOUS
    <3>2. g[i - 1] = f[i - 1]
      BY <3>1
    <3>3. CASE i = m + 1
      BY <3>1, <3>2, <3>3
    <3>4. CASE i # m + 1
      BY <2>1, <3>1, <3>2, <3>4
    <3> QED
      BY <3>3, <3>4
  <2> QED
    BY <2>3, <2>4, <2>5
<1>5. n \in S
  <2> HIDE DEF S
  <2> QED
    BY <1>1, <1>3, <1>4, Inductive
<1>6. PICK f \in [0..n -> Nat] : Sums(n, f)
  BY <1>1, <1>5
<1>7. Loop(f)
  BY <1>1, <1>6
\* The loop has a solution, so CHOOSE finds one; it is a sum as well.
<1>8. Loop(upTo)
  BY <1>7
<1> HIDE DEF upTo
<1>9. /\ DOMAIN upTo = 0..n /\ upTo[0] = 0
      /\ \A i \in 1..n : upTo[i] = upTo[i - 1] + h[i]
  <2> HIDE DEF Loop
  <2>1. ASSUME NEW F, Loop(F)
        PROVE  /\ DOMAIN F = 0..n /\ F[0] = 0
               /\ \A i \in 1..n : F[i] = F[i - 1] + h[i]
    BY <1>1, <2>1 DEF Loop
  <2> QED
    BY <1>8, <2>1
<1> DEFINE E == {m \in Nat : m <= n => upTo[m] \in Nat}
<1>10. 0 \in E
  BY <1>9
<1>11. ASSUME NEW m \in Nat, m \in E PROVE m + 1 \in E
  <2> SUFFICES ASSUME m + 1 <= n PROVE upTo[m + 1] \in Nat
    OBVIOUS
  <2>1. m + 1 \in 1..n /\ (m + 1) - 1 = m /\ m <= n
    BY <1>1
  <2>2. upTo[m] \in Nat
    BY <1>11, <2>1
  <2>3. upTo[m + 1] = upTo[m] + h[m + 1] /\ h[m + 1] \in Nat
    BY <1>1, <1>9, <2>1
  <2> QED
    BY <2>2, <2>3
<1>12. Nat \subseteq E
  <2> HIDE DEF E
  <2> QED
    BY <1>10, <1>11, Inductive
<1>13. upTo \in [0..n -> Nat]
  <2>1. upTo = [i \in 0..n |-> upTo[i]]
    BY <1>8
  <2>2. \A i \in 0..n : upTo[i] \in Nat
    BY <1>1, <1>12
  <2> QED
    BY <2>1, <2>2
<1> QED
  BY <1>2, <1>9, <1>13 DEF n

\* The rates of the history as numbers, and their squares.
LEMMA SquaresFit ==
    ASSUME NEW h \in Seq(Nat)
    PROVE  /\ Squares(h) \in Seq(Nat) /\ Len(Squares(h)) = Len(h)
           /\ \A i \in 1..Len(h) : Squares(h)[i] = h[i] * h[i]
<1>1. Len(h) \in Nat /\ DOMAIN h = 1..Len(h) /\ \A i \in 1..Len(h) : h[i] \in Nat
  OBVIOUS
<1>2. \A x \in Nat : x * x \in Nat
  OBVIOUS
<1>3. Squares(h) = [i \in 1..Len(h) |-> h[i] * h[i]]
  BY <1>1 DEF Squares
<1>4. Squares(h) \in [1..Len(h) -> Nat]
  BY <1>1, <1>2, <1>3
<1>5. Squares(h) \in Seq(Nat)
  BY <1>1, <1>4, SeqDef
<1>6. Len(Squares(h)) \in Nat /\ DOMAIN Squares(h) = 1..Len(Squares(h))
  BY <1>5, LenProperties
<1>7. Len(Squares(h)) = Len(h)
  BY <1>1, <1>4, <1>6
<1> QED
  BY <1>3, <1>5, <1>7

\* The rates among the first m that have reached t.
ReachedIn(h, m, t) == {i \in 1..m : h[i] >= t}

LEMMA ReachedGrows ==
    ASSUME NEW h \in Seq(Nat), NEW t \in Nat, NEW m \in Nat, m + 1 <= Len(h),
           IsFiniteSet(ReachedIn(h, m, t))
    PROVE  /\ IsFiniteSet(ReachedIn(h, m + 1, t))
           /\ Cardinality(ReachedIn(h, m, t)) \in Nat
           /\ Cardinality(ReachedIn(h, m + 1, t)) =
                 IF h[m + 1] >= t THEN Cardinality(ReachedIn(h, m, t)) + 1
                 ELSE Cardinality(ReachedIn(h, m, t))
<1>1. Cardinality(ReachedIn(h, m, t)) \in Nat
  BY FS_CardinalityType
<1>2. CASE h[m + 1] >= t
  <2>1. ReachedIn(h, m + 1, t) = ReachedIn(h, m, t) \cup {m + 1}
    BY <1>2 DEF ReachedIn
  <2>2. m + 1 \notin ReachedIn(h, m, t)
    BY DEF ReachedIn
  <2> QED
    BY <1>1, <1>2, <2>1, <2>2, FS_AddElement
<1>3. CASE ~ (h[m + 1] >= t)
  <2>1. ReachedIn(h, m + 1, t) = ReachedIn(h, m, t)
    <3>1. 1..(m + 1) = (1..m) \cup {m + 1}
      OBVIOUS
    <3> QED
      BY <1>3, <3>1 DEF ReachedIn
  <2> QED
    BY <1>1, <1>3, <2>1
<1> QED
  BY <1>2, <1>3

\* Every rate x adds (9 N x + b)^2 to the left side, and one that has reached
\* t adds 100 a^2 to the right: never more than it adds to the left.
LEMMA SquaresOutweigh ==
    ASSUME NEW N \in Nat, NEW b \in Int, NEW a \in Nat, NEW x \in Nat,
           NEW q \in Nat, NEW s \in Nat, NEW m \in Nat, NEW k \in Nat, NEW l \in Nat,
           (81 * N * N) * q + (18 * N * b) * s + m * (b * b) >= (100 * a * a) * k,
           l = k \/ (l = k + 1 /\ 9 * N * x + b >= 10 * a)
    PROVE  (81 * N * N) * (q + x * x) + (18 * N * b) * (s + x) + (m + 1) * (b * b)
              >= (100 * a * a) * l
<1>1. PICK c \in Int : c = 9 * N * x + b
  OBVIOUS
<1>2. (81 * N * N) * (x * x) + (18 * N * b) * x + b * b = c * c
  BY <1>1
<1>3. c * c >= 0 /\ (c >= 10 * a => c * c >= 100 * a * a)
  <2>1. \A u \in Int : u * u >= 0
    OBVIOUS
  <2>2. \A u, v \in Nat : u >= v => u * u >= v * v
    OBVIOUS
  <2>3. c >= 10 * a => c * c >= (10 * a) * (10 * a)
    BY <2>2
  <2>4. (10 * a) * (10 * a) = 100 * a * a
    OBVIOUS
  <2> QED
    BY <2>1, <2>3, <2>4
<1>4. PICK A \in Int, B \in Int, C \in Int, D \in Int :
          A = 81 * N * N /\ B = 18 * N * b /\ C = b * b /\ D = 100 * a * a
  OBVIOUS
<1>5. /\ A * (q + x * x) + B * (s + x) + (m + 1) * C
            = (A * q + B * s + m * C) + (A * (x * x) + B * x + C)
      /\ D * (k + 1) = D * k + D
  OBVIOUS
<1>6. PICK old \in Int, more \in Int : old = A * q + B * s + m * C /\ more = c * c
  OBVIOUS
<1>7. PICK right \in Int : right = D * k
  OBVIOUS
<1>8. old >= right
  BY <1>4, <1>6, <1>7
<1>9. A * (q + x * x) + B * (s + x) + (m + 1) * C = old + more
  BY <1>2, <1>4, <1>5, <1>6
<1>10. D * l = right \/ (D * l = right + D /\ more >= D)
  BY <1>1, <1>3, <1>4, <1>5, <1>6, <1>7
<1>11. more >= 0
  BY <1>3, <1>6
<1>12. old + more >= D * l
  BY <1>8, <1>10, <1>11
<1> QED
  BY <1>4, <1>9, <1>12

\* A rate that a tenth of the rates has reached is no more than three deviations
\* above their mean.
LEMMA TenthIsNear ==
    ASSUME NEW h \in Seq(Nat), NEW t \in Nat,
           Len(h) * t > Total(h),
           10 * Cardinality(ReachedIn(h, Len(h), t)) >= Len(h)
    PROVE  (Len(h) * t - Total(h)) * (Len(h) * t - Total(h))
              <= 9 * (Len(h) * Total(Squares(h)) - Total(h) * Total(h))
<1> DEFINE N == Len(h)
           S == Total(h)
           Q == Total(Squares(h))
           K == Cardinality(ReachedIn(h, N, t))
<1>1. PICK f \in [0..N -> Nat] :
          /\ f[0] = 0
          /\ \A i \in 1..N : f[i] = f[i - 1] + h[i]
          /\ S = f[N]
  BY RunningSum
<1>2. PICK g \in [0..N -> Nat] :
          /\ g[0] = 0
          /\ \A i \in 1..N : g[i] = g[i - 1] + h[i] * h[i]
          /\ Q = g[N]
  <2>1. PICK g \in [0..Len(Squares(h)) -> Nat] :
            /\ g[0] = 0
            /\ \A i \in 1..Len(Squares(h)) : g[i] = g[i - 1] + Squares(h)[i]
            /\ Total(Squares(h)) = g[Len(Squares(h))]
    BY SquaresFit, RunningSum
  <2>2. /\ Len(Squares(h)) = N
        /\ \A i \in 1..N : Squares(h)[i] = h[i] * h[i]
    BY SquaresFit
  <2>3. g \in [0..N -> Nat] /\ Q = g[N]
    BY <2>1, <2>2
  <2>4. \A i \in 1..N : g[i] = g[i - 1] + h[i] * h[i]
    BY <2>1, <2>2
  <2> QED
    BY <2>1, <2>3, <2>4
<1>3. N \in Nat /\ S \in Nat /\ Q \in Nat /\ \A i \in 1..N : h[i] \in Nat
  BY <1>1, <1>2
<1>4. N * t > S /\ 10 * K >= N
  OBVIOUS
<1> HIDE DEF N, S, Q
<1>5. PICK a \in Nat : a = N * t - S
  BY <1>3, <1>4
<1>6. PICK b \in Int : b = a - 9 * S
  BY <1>3
<1> DEFINE count(m) == Cardinality(ReachedIn(h, m, t))
           Outweighs(m) ==
               m <= N =>
                  /\ IsFiniteSet(ReachedIn(h, m, t))
                  /\ count(m) \in Nat
                  /\ (81 * N * N) * g[m] + (18 * N * b) * f[m] + m * (b * b)
                        >= (100 * a * a) * count(m)
           P == {m \in Nat : Outweighs(m)}
<1>7. 0 \in P
  <2>1. ReachedIn(h, 0, t) = {}
    BY DEF ReachedIn
  <2>2. IsFiniteSet(ReachedIn(h, 0, t)) /\ count(0) = 0
    BY <2>1, FS_EmptySet
  <2> HIDE DEF count
  <2> QED
    BY <1>1, <1>2, <1>3, <2>2
<1>8. ASSUME NEW m \in Nat, m \in P
      PROVE  m + 1 \in P
  <2>1. Outweighs(m)
    BY <1>8
  <2>2. ASSUME m + 1 <= N
        PROVE  /\ IsFiniteSet(ReachedIn(h, m + 1, t))
               /\ count(m + 1) \in Nat
               /\ (81 * N * N) * g[m + 1] + (18 * N * b) * f[m + 1] + (m + 1) * (b * b)
                     >= (100 * a * a) * count(m + 1)
    <3>1. m <= N /\ m + 1 \in 1..N /\ (m + 1) - 1 = m /\ m \in 0..N /\ m + 1 \in 0..N
      BY <1>3, <2>2
    <3>2. PICK x \in Nat : x = h[m + 1]
      BY <1>3, <3>1
    <3>3. f[m + 1] = f[m] + x /\ g[m + 1] = g[m] + x * x /\ f[m] \in Nat /\ g[m] \in Nat
      BY <1>1, <1>2, <3>1, <3>2
    <3>4. /\ IsFiniteSet(ReachedIn(h, m, t)) /\ count(m) \in Nat
          /\ (81 * N * N) * g[m] + (18 * N * b) * f[m] + m * (b * b) >= (100 * a * a) * count(m)
      BY <2>1, <3>1
    <3>5. /\ IsFiniteSet(ReachedIn(h, m + 1, t))
          /\ count(m + 1) = IF x >= t THEN count(m) + 1 ELSE count(m)
      BY <2>2, <3>2, <3>4, ReachedGrows DEF N
    <3> HIDE DEF count
    <3>6. x >= t => 9 * N * x + b >= 10 * a
      <4>1. x >= t => N * x >= N * t
        BY <1>3
      <4>2. PICK y \in Nat, z \in Nat : y = N * x /\ z = N * t
        BY <1>3
      <4>3. 9 * N * x = 9 * y
        BY <1>3, <4>2
      <4> QED
        BY <1>3, <1>5, <1>6, <4>1, <4>2, <4>3
    <3>7. /\ count(m + 1) \in Nat
          /\ count(m + 1) = count(m) \/ (count(m + 1) = count(m) + 1 /\ 9 * N * x + b >= 10 * a)
      BY <3>4, <3>5, <3>6
    <3>8. (81 * N * N) * (g[m] + x * x) + (18 * N * b) * (f[m] + x) + (m + 1) * (b * b)
             >= (100 * a * a) * count(m + 1)
      <4>1. PICK q \in Nat, s \in Nat, k \in Nat, l \in Nat :
                q = g[m] /\ s = f[m] /\ k = count(m) /\ l = count(m + 1)
        BY <3>3, <3>4, <3>7
      <4>2. /\ (81 * N * N) * q + (18 * N * b) * s + m * (b * b) >= (100 * a * a) * k
            /\ l = k \/ (l = k + 1 /\ 9 * N * x + b >= 10 * a)
        BY <3>4, <3>7, <4>1
      <4>3. (81 * N * N) * (q + x * x) + (18 * N * b) * (s + x) + (m + 1) * (b * b)
               >= (100 * a * a) * l
        BY <1>3, <4>2, SquaresOutweigh, Zenon
      <4> QED
        BY <4>1, <4>3
    <3> QED
      BY <3>3, <3>5, <3>7, <3>8
  <2>3. Outweighs(m + 1)
    BY <2>2
  <2> HIDE DEF Outweighs
  <2> QED
    BY <2>3
<1>9. N \in P
  <2> HIDE DEF P
  <2> QED
    BY <1>3, <1>7, <1>8, Inductive
<1>10. K \in Nat /\ (81 * N * N) * Q + (18 * N * b) * S + N * (b * b) >= (100 * a * a) * K
  <2>1. Outweighs(N)
    BY <1>9
  <2> QED
    BY <1>1, <1>2, <1>3, <2>1
<1> HIDE DEF K
<1>11. (18 * N * b) * S + N * (b * b) = N * (a * a) - 81 * N * (S * S)
  BY <1>3, <1>6
<1>12. (100 * a * a) * K >= (10 * a * a) * N
  <2>1. PICK w \in Nat : w = 10 * a * a
    OBVIOUS
  <2>2. w * (10 * K) >= w * N
    BY <1>3, <1>4, <1>10
  <2> QED
    BY <1>3, <1>10, <2>1, <2>2
<1>13. (81 * N * N) * Q + N * (a * a) - 81 * N * (S * S) >= (10 * a * a) * N
  <2>1. PICK u \in Int, v \in Int, w \in Int, y \in Int, z \in Int, r \in Int, o \in Int :
            /\ u = (81 * N * N) * Q /\ v = (18 * N * b) * S /\ w = N * (b * b)
            /\ y = N * (a * a) /\ z = 81 * N * (S * S)
            /\ r = (100 * a * a) * K /\ o = (10 * a * a) * N
    BY <1>3, <1>10
  <2>2. u + v + w >= r /\ v + w = y - z /\ r >= o
    BY <1>10, <1>11, <1>12, <2>1
  <2>3. u + y - z >= o
    BY <2>2
  <2> QED
    BY <2>1, <2>3
<1>14. N * (9 * (9 * (N * Q - S * S) - a * a)) >= 0
  BY <1>3, <1>13
<1>15. N > 0
  <2>1. N = 0 => N * t = 0
    OBVIOUS
  <2> QED
    BY <1>3, <1>4, <2>1
<1>16. 9 * (N * Q - S * S) >= a * a
  <2>1. PICK d \in Int : d = 9 * (9 * (N * Q - S * S) - a * a)
    BY <1>3
  <2>2. \A u \in Nat, v \in Int : u > 0 /\ u * v >= 0 => v >= 0
    OBVIOUS
  <2>3. d >= 0
    BY <1>3, <1>14, <1>15, <2>1, <2>2
  <2> QED
    BY <1>3, <2>1, <2>3
<1> QED
  BY <1>3, <1>5, <1>16 DEF N, S, Q

-----------------------------------------------------------------------------
(* The parts side by side.                                                  *)

AllInv ==
    /\ part \in {"limiter", "tokenCheck", "autoscaler"}
    /\ inUse \in {"tokenBucket", "fixedWindow"}
    /\ BucketInv
    /\ WindowInv
    /\ CheckInv
    /\ ScalerInv

LEMMA ScalerStays ==
    ASSUME ScalerInv, UNCHANGED scalerVars
    PROVE  ScalerInv'
<1>1. /\ tpsHistory' = tpsHistory /\ keys' = keys /\ doing' = doing /\ left' = left
      /\ works' = works /\ asked' = asked /\ reply' = reply
      /\ phase' = phase /\ fired' = fired
  BY DEF scalerVars, brainVars
<1>2. ScalerTypeOK' /\ ClockInv' /\ (fired' => phase' <= Jitter)
  BY <1>1 DEF ScalerInv, ScalerTypeOK, AnalyzerTypeOK, ClockInv
<1>3. PICK tick \in [Goroutines -> Nat] : StartedAt(tick)
  BY DEF ScalerInv
<1>4. UnderWay' = UnderWay /\ \A g : Remaining(g)' = Remaining(g)
  BY <1>1 DEF UnderWay, Remaining
<1>5. StartedAt(tick)'
  BY <1>1, <1>3, <1>4 DEF StartedAt
<1> QED
  BY <1>2, <1>5 DEF ScalerInv

LEMMA AllStarts == AllInit => AllInv
<1> SUFFICES ASSUME AllInit PROVE AllInv
  OBVIOUS
<1>1. Init /\ ClockInit /\ CheckInit /\ ScalerInit
  BY DEF AllInit, Init
<1> QED
  BY <1>1, InitFillsBuckets, InitOpensWindow, CheckStarts, ScalerStarts
     DEF AllInit, Init, AllInv

LEMMA AllSteps == AllInv /\ [AllNext]_allVars => AllInv'
<1> SUFFICES ASSUME AllInv, [AllNext]_allVars PROVE AllInv'
  OBVIOUS
<1>1. CASE Limiter
  <2>1. [Next]_vars /\ part' = part /\ UNCHANGED checkVars /\ UNCHANGED scalerVars
    BY <1>1 DEF Limiter
  <2>2. inUse' = inUse /\ clock' \in Nat /\ clock' >= clock
    BY <1>1 DEF Limiter, Next, TimePasses, Tick, Bucket, Fixed, AllInv, BucketInv
  <2>3. BucketInv' /\ WindowInv'
    BY <2>1, NextKeepsBucket, NextKeepsWindow DEF AllInv
  <2>4. CheckInv' /\ ScalerInv'
    BY <2>1, <2>2, CheckStays, ScalerStays DEF AllInv
  <2> QED
    BY <2>1, <2>2, <2>3, <2>4 DEF AllInv
<1>2. CASE Authentication
  <2>1. /\ part' = part /\ inUse' = inUse /\ UNCHANGED bucketVars /\ UNCHANGED windowVars
        /\ UNCHANGED scalerVars
    BY <1>2 DEF Authentication
  <2>2. CASE Tick /\ UNCHANGED checkVars
    <3>1. clock' \in Nat /\ clock' >= clock
      BY <2>2 DEF Tick, AllInv, BucketInv
    <3> QED
      BY <2>1, <2>2, <3>1, TickKeepsInv, TickKeepsWindow, CheckStays, ScalerStays DEF AllInv
  <2>3. CASE CheckNext /\ UNCHANGED clock
    <3>1. CheckInv'
      BY <2>3, RequestKeepsCheck, RevokeKeepsCheck DEF CheckNext, AllInv
    <3> QED
      BY <2>1, <2>3, <3>1, BucketStays, WindowStays, ScalerStays DEF AllInv
  <2> QED
    BY <1>2, <2>2, <2>3 DEF Authentication
<1>3. CASE Scaling
  <2>1. /\ part' = part /\ inUse' = inUse /\ clock' = clock
        /\ UNCHANGED bucketVars /\ UNCHANGED windowVars /\ UNCHANGED checkVars
    BY <1>3 DEF Scaling
  <2>2. clock' \in Nat /\ clock' >= clock
    BY <2>1 DEF AllInv, BucketInv
  <2>3. ScalerInv'
    <3>1. CASE Elapse
      BY <3>1, ElapseKeepsScaler DEF AllInv
    <3>2. CASE \E t \in Rates : Sample(t)
      BY <3>2, SampleKeepsScaler DEF AllInv
    <3>3. ASSUME NEW g \in Goroutines, Think(g) \/ NoScaling(g) \/ Scale(g) \/ Scaled(g)
          PROVE  ScalerInv'
      BY <3>3, ThinkKeepsScaler, DoneKeepsScaler, ScaleKeepsScaler
         DEF NoScaling, Scaled, AllInv
    <3> QED
      BY <1>3, <3>1, <3>2, <3>3 DEF Scaling, ScalerNext
  <2> QED
    BY <2>1, <2>2, <2>3, BucketStays, WindowStays, CheckStays DEF AllInv
<1>4. CASE UNCHANGED allVars
  <2>1. /\ part' = part /\ inUse' = inUse /\ clock' = clock
        /\ UNCHANGED bucketVars /\ UNCHANGED windowVars
        /\ UNCHANGED checkVars /\ UNCHANGED scalerVars
    BY <1>4 DEF allVars
  <2>2. clock' \in Nat /\ clock' >= clock
    BY <2>1 DEF AllInv, BucketInv
  <2> QED
    BY <2>1, <2>2, BucketStays, WindowStays, CheckStays, ScalerStays DEF AllInv
<1> QED
  BY <1>1, <1>2, <1>3, <1>4 DEF AllNext

\* A token that was revoked with a TTL that outlasts it is not admitted by a
\* request that begins later, by whatever clock the node reads (jwt_validator.go
\* and redis_blacklist.go: lookup and parse are two steps).
THEOREM RevokedTokensStayOut == AllSpec => []RevokedStaysOut
<1>1. AllInv => RevokedStaysOut
  BY DEF AllInv, CheckInv
<1> QED
  BY <1>1, AllStarts, AllSteps, PTL DEF AllSpec

\* A call of the brain fails under a working Gemini only when DeepSeek used up
\* the deadline that both share (brain.go, GenerateCompletion).
THEOREM AnswersAreLostToTheClock == AllSpec => []LostOnlyToTheClock
<1>1. AllInv => LostOnlyToTheClock
  BY DEF AllInv, ScalerInv, ClockInv, LostOnlyToTheClock
<1> QED
  BY <1>1, AllStarts, AllSteps, PTL DEF AllSpec

\* The deadlines of queryAIAndScale bound how many scalings overlap, for any
\* deadlines, interval and lateness of the ticker (analyzer.go).
THEOREM OverlapIsBounded == AllSpec => []OverlapBounded
<1>1. AllInv => OverlapBounded
  BY TicksBoundOverlap DEF AllInv
<1> QED
  BY <1>1, AllStarts, AllSteps, PTL DEF AllSpec

\* The types of all parts.
THEOREM AllTypesHold == AllSpec => []AllTypeOK
<1>1. AllInv => AllTypeOK
  BY DEF AllInv, AllTypeOK, TypeOK, BucketInv, WindowInv, CheckInv, ScalerInv
<1> QED
  BY <1>1, AllStarts, AllSteps, PTL DEF AllSpec

\* A rate that a tenth of the history has reached already raises no alarm, for a
\* history of any length and any rates: the 3-sigma rule of analyzeTPS
\* (analyzer.go:112-153) gets used to a new level, by Cantelli's inequality.
THEOREM AnalyzerGetsUsed == AllSpec => []UsedToLevel
<1>1. AllTypeOK => UsedToLevel
  <2> SUFFICES ASSUME AllTypeOK, NEW t \in Rates, Anomalous(t)
               PROVE  10 * Cardinality({i \in DOMAIN tpsHistory : tpsHistory[i] >= t})
                         < Len(tpsHistory)
    BY DEF UsedToLevel
  <2>1. tpsHistory \in Seq(Rates) /\ Rates \subseteq Nat /\ t \in Nat
    BY RateTypes DEF AllTypeOK, ScalerTypeOK, AnalyzerTypeOK
  <2>2. tpsHistory \in Seq(Nat)
    BY <2>1, SeqMonotonic
  <2> DEFINE n == Len(tpsHistory)
             S == Total(tpsHistory)
             Q == Total(Squares(tpsHistory))
             reached == ReachedIn(tpsHistory, n, t)
  <2>3. /\ {i \in DOMAIN tpsHistory : tpsHistory[i] >= t} = reached
        /\ n \in Nat
    BY <2>2 DEF ReachedIn
  <2>4. Cardinality(reached) \in Nat
    <3>1. reached \subseteq 1..n
      BY DEF ReachedIn
    <3>2. IsFiniteSet(1..n)
      BY <2>3, FS_Interval
    <3> HIDE DEF reached
    <3> QED
      BY <3>1, <3>2, FS_Subset, FS_CardinalityType
  <2>5. n * t > S /\ (n * t - S) * (n * t - S) > 9 * (n * Q - S * S)
    BY DEF Anomalous, AboveThreshold
  <2>6. S \in Nat /\ Q \in Nat
    <3>1. S \in Nat
      BY <2>2, <2>3, RunningSum
    <3>2. Q \in Nat
      BY <2>2, <2>3, SquaresFit, RunningSum
    <3> QED
      BY <3>1, <3>2
  <2>7. 10 * Cardinality(reached) >= n =>
           (n * t - S) * (n * t - S) <= 9 * (n * Q - S * S)
    BY <2>1, <2>2, <2>5, TenthIsNear
  <2>8. n = Len(tpsHistory)
    OBVIOUS
  <2> HIDE DEF n, S, Q, reached
  <2>9. PICK above \in Int, allowed \in Int :
            above = (n * t - S) * (n * t - S) /\ allowed = 9 * (n * Q - S * S)
    BY <2>1, <2>3, <2>6
  <2>10. ~ 10 * Cardinality(reached) >= n
    BY <2>5, <2>7, <2>9
  <2>11. 10 * Cardinality(reached) < n
    BY <2>3, <2>4, <2>10
  <2> QED
    BY <2>3, <2>8, <2>11, Zenon
<1> QED
  BY <1>1, AllTypesHold, PTL
=============================================================================
