---------------------------- MODULE FixedWindow ----------------------------
(***************************************************************************)
(* The fixed-window limiter of pkg/ratelimiter/limiter.go: one Lua script  *)
(* that increments a counter and gives it a TTL when it starts.  Redis     *)
(* runs the script as one step; when Redis fails, Allow fails open.        *)
(***************************************************************************)
EXTENDS Clock, FiniteSets

CONSTANTS
    Calls,   \* the calls of Allow, numbered in the order in which they run
    Limit,   \* calls allowed in a window
    Window   \* its length in ticks

ASSUME WindowTypes == Calls \subseteq Nat /\ Limit \in Nat /\ Window \in Nat \ {0}

VARIABLES
    current,  \* the counter at the key; counts from 0 when the key is absent
    expireAt, \* when the key's TTL runs out
    answer,   \* answer[x]: what call x returned: "none" so far
    verdict,  \* verdict[x]: what the script found for it: "none" if it did not run
    at        \* at[x]: when it was made

windowVars == <<current, expireAt, answer, verdict, at>>

Verdicts == {"allowed", "denied"}

\* Calls that Allow has let through.
LetThrough == {"allowed", "failedOpen"}

WindowTypeOK ==
    /\ current \in Nat /\ expireAt \in Nat
    /\ answer \in [Calls -> {"none", "failedOpen"} \cup Verdicts]
    /\ verdict \in [Calls -> {"none"} \cup Verdicts]
    /\ at \in [Calls -> 0..clock]

WindowInit ==
    /\ current = 0
    /\ expireAt = 0
    /\ answer = [x \in Calls |-> "none"]
    /\ verdict = [x \in Calls |-> "none"]
    /\ at = [x \in Calls |-> 0]

\* Mutant: every call renews the TTL.
RunsOutRenewed(count) == clock + Window

\* PEXPIRE only when INCR has just made the key.
RunsOut(count) == IF count = 1 THEN clock + Window ELSE expireAt

\* Mutant: the call that reaches the limit is let through once more.
VerdictOffByOne(count) == IF count > Limit + 1 THEN "denied" ELSE "allowed"

Verdict(count) == IF count > Limit THEN "denied" ELSE "allowed"

\* Call x is the next to run.
IsNext(x) ==
    /\ answer[x] = "none"
    /\ \A y \in Calls : y < x => answer[y] # "none"

\* The script: INCR, PEXPIRE, compare.
Script(x) ==
    LET count == (IF clock < expireAt THEN current ELSE 0) + 1
    IN  /\ IsNext(x)
        /\ current' = count
        /\ expireAt' = RunsOut(count)
        /\ verdict' = [verdict EXCEPT ![x] = Verdict(count)]
        /\ at' = [at EXCEPT ![x] = clock]

\* The script's reply arrives, and Allow returns what it says.
Check(x) ==
    /\ Script(x)
    /\ answer' = [answer EXCEPT ![x] = verdict'[x]]

\* The script runs, but Eval returns an error: the connection broke or the
\* deadline passed before the reply.  The call is let through, though counted.
ReplyLost(x) ==
    /\ Script(x)
    /\ answer' = [answer EXCEPT ![x] = "failedOpen"]

\* Eval fails before the script runs: the call is let through, and not counted.
FailOpen(x) ==
    /\ IsNext(x)
    /\ answer' = [answer EXCEPT ![x] = "failedOpen"]
    /\ at' = [at EXCEPT ![x] = clock]
    /\ UNCHANGED <<current, expireAt, verdict>>

-----------------------------------------------------------------------------
(* Properties.                                                              *)

\* The calls the script has allowed in the window of time that ends at call x,
\* those of a lost reply among them.
Burst(x) == {y \in Calls : /\ verdict[y] = "allowed"
                           /\ at[x] - Window < at[y] /\ at[y] <= at[x]}

\* Over a boundary of two fixed windows a burst may pass the limit, as
\* docs/specs/architect_spec_1781508826.md:103 warns, and always stays below
\* twice the limit: the call that opened the first window is a window away.
BurstBelowDouble ==
    \A x \in Calls : Burst(x) # {} => Cardinality(Burst(x)) < 2 * Limit

\* A key that is hammered still lets calls through again: a caller is denied only
\* when the script has counted the limit of calls within the last window of time
\* and Allow let each of them through, be it because the reply was lost; never on
\* account of denied calls, nor of calls that failed before the script ran.
DeniedOnlyInFullWindow ==
    [][\A x \in Calls :
          answer[x] = "none" /\ answer'[x] = "denied" =>
              Cardinality({y \in Calls : /\ verdict[y] = "allowed"
                                         /\ answer[y] \in LetThrough
                                         /\ clock - Window < at[y]}) >= Limit]_<<clock, windowVars>>
=============================================================================
