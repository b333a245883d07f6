---------------------------- MODULE TokenCheck -----------------------------
(***************************************************************************)
(* Authentication (internal/auth): AuthMiddleware takes the bearer token   *)
(* of a request, JWTValidator.Validate looks it up in the blacklist, a key *)
(* per revoked token in Redis with a TTL, and then parses it; the parser   *)
(* checks the expiry by the node's clock.  Lookup and parse are two steps, *)
(* between which a token may be revoked or its key run out.                *)
(*                                                                         *)
(* Nothing calls Revoke: whoever does chooses the TTL.                     *)
(***************************************************************************)
EXTENDS Clock

CONSTANTS
    Tokens,    \* tokens that parse: signed with the key, with sub and tid
    Expiry,    \* Expiry[t]: the exp claim of token t, or Never
    Checks,    \* requests with an Authorization header, each made once
    TTLs,      \* the TTLs that Revoke is called with; 0 means no TTL
    Behind,    \* how far the node's clock may be behind Redis's
    Never      \* no exp claim

ASSUME TokenTypes == /\ Expiry \in [Tokens -> Nat \cup {Never}] /\ Never \notin Nat
                     /\ TTLs \subseteq Nat /\ Behind \in Nat

VARIABLES
    goneAt,  \* goneAt[t]: when t's key runs out: 0 without key, Never without TTL
    step,    \* step[r]: where request r is
    token,   \* token[r]: the token it came with
    banned,  \* history: the tokens whose revocation covers their lifetime
    warned   \* history: warned[r], whether r's token has been banned since r began

checkVars == <<goneAt, step, token, banned, warned>>

CheckTypeOK ==
    /\ goneAt \in [Tokens -> Nat \cup {Never}]
    /\ step \in [Checks -> {"new", "lookup", "parse", "rejected", "admitted"}]
    /\ token \in [Checks -> Tokens]
    /\ banned \subseteq Tokens
    /\ warned \in [Checks -> BOOLEAN]

CheckInit ==
    /\ goneAt = [t \in Tokens |-> 0]
    /\ step = [r \in Checks |-> "new"]
    /\ token \in [Checks -> Tokens]
    /\ banned = {}
    /\ warned = [r \in Checks |-> FALSE]

\* EXISTS: Redis has the key until its TTL has passed.
IsRevoked(t) == goneAt[t] = Never \/ clock < goneAt[t]

\* No exp claim, or one that the node's clock, up to Behind late, has yet to
\* reach.
Valid(t, now) == Expiry[t] = Never \/ now < Expiry[t]

\* extractBearerToken finds a header that is not "Bearer <token>": 401.
NoBearer(r) ==
    /\ step[r] = "new"
    /\ step' = [step EXCEPT ![r] = "rejected"]
    /\ UNCHANGED <<goneAt, token, banned, warned>>

Extract(r) ==
    /\ step[r] = "new"
    /\ step' = [step EXCEPT ![r] = "lookup"]
    /\ warned' = [warned EXCEPT ![r] = token[r] \in banned]
    /\ UNCHANGED <<goneAt, token, banned>>

\* The lookup in the blacklist.
LookUp(r) ==
    /\ step[r] = "lookup"
    /\ step' = [step EXCEPT ![r] = IF IsRevoked(token[r]) THEN "rejected" ELSE "parse"]
    /\ UNCHANGED <<goneAt, token, banned, warned>>

\* Redis fails: the request is refused.
LookUpFails(r) ==
    /\ step[r] = "lookup"
    /\ step' = [step EXCEPT ![r] = "rejected"]
    /\ UNCHANGED <<goneAt, token, banned, warned>>

\* jwt.Parse, and the claims to an identity; 401 for a token that has expired.
Parse(r) ==
    /\ step[r] = "parse"
    /\ \E late \in 0..Behind :
          step' = [step EXCEPT ![r] =
                     IF Valid(token[r], clock - late) THEN "admitted" ELSE "rejected"]
    /\ UNCHANGED <<goneAt, token, banned, warned>>

\* SET with expiration; a TTL of 0 is none.  A second call replaces the first
\* one's TTL.
GoneAt(ttl) == IF ttl = 0 THEN Never ELSE clock + ttl

\* A key that stays until no node takes the token for valid any more.
Covers(t, gone) ==
    \/ gone = Never
    \/ Expiry[t] # Never /\ Expiry[t] + Behind <= gone

Ban(t) ==
    /\ banned' = banned \cup {t}
    /\ UNCHANGED warned

Unban(t) ==
    /\ banned' = banned \ {t}
    /\ warned' = [r \in Checks |-> warned[r] /\ token[r] # t]

\* Mutant: a key that is there already keeps its TTL.
RevokeOnce(t, ttl) ==
    /\ goneAt' = [goneAt EXCEPT ![t] = IF IsRevoked(t) THEN @ ELSE GoneAt(ttl)]
    /\ IF Covers(t, GoneAt(ttl)) THEN Ban(t) ELSE Unban(t)
    /\ UNCHANGED <<step, token>>

Revoke(t, ttl) ==
    /\ goneAt' = [goneAt EXCEPT ![t] = GoneAt(ttl)]
    /\ IF Covers(t, GoneAt(ttl)) THEN Ban(t) ELSE Unban(t)
    /\ UNCHANGED <<step, token>>

\* The caller gets an error, and the SET took effect before it or never.
RevokeFails(t, ttl) ==
    /\ goneAt' \in {goneAt, [goneAt EXCEPT ![t] = GoneAt(ttl)]}
    /\ Unban(t)
    /\ UNCHANGED <<step, token>>

CheckNext ==
    \/ \E r \in Checks : \/ NoBearer(r) \/ Extract(r)
                         \/ LookUp(r) \/ LookUpFails(r) \/ Parse(r)
    \/ \E t \in Tokens, ttl \in TTLs : Revoke(t, ttl) \/ RevokeFails(t, ttl)

-----------------------------------------------------------------------------
(* Properties.                                                              *)

\* A token whose revocation succeeded with a TTL that outlasts it, by the clock
\* that is furthest behind, is not admitted by any request that begins later,
\* unless a shorter revocation replaces that one meanwhile: whatever fails, and
\* however lookup, parse, expiry and TTL fall together (jwt_validator.go:28-55,
\* redis_blacklist.go:31-48).
RevokedStaysOut == \A r \in Checks : step[r] = "admitted" => ~warned[r]
=============================================================================
