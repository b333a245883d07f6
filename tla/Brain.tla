------------------------------- MODULE Brain -------------------------------
(***************************************************************************)
(* The LLM client of the gateway: Brain.GenerateCompletion                 *)
(* (internal/ai/brain.go), called by goroutines that each give it a        *)
(* deadline.  DeepSeek is asked first and Gemini when that fails, both     *)
(* within the one deadline; without any key the answer is canned.          *)
(*                                                                         *)
(* Time is counted down per goroutine.  The providers are external: one    *)
(* answers, fails at any moment, or is silent until the deadline cuts the  *)
(* request off.                                                            *)
(***************************************************************************)
EXTENDS Integers

CONSTANTS
    Goroutines, \* goroutines that call the brain
    AITimeout,  \* the deadline a caller sets (10 s), in units of time
    Latency     \* the time within which a provider that works answers

ASSUME BrainTimes == AITimeout \in Nat \ {0} /\ Latency \in Nat \ {0}

VARIABLES
    keys,   \* the providers that have an API key
    doing,   \* doing[g]: where goroutine g is
    left,   \* left[g]: the time until g's deadline
    works,  \* works[g]: Gemini has a key and works while g is under way
    asked,  \* history: asked[g], the time g had left when it asked Gemini
    reply  \* reply[g]: what the brain returned to g

brainVars == <<keys, doing, left, works, asked, reply>>

Answers == {"none", "increase", "policy", "failover", "other"}
Asking == {"deepseek", "gemini"}

\* mockCompletion: the first case that finds one of its words in the prompt.
MockCompletion(words) ==
    IF words \cap {"limit", "translate"} # {} THEN "policy"
    ELSE IF words \cap {"anomaly", "baseline mean", "spike"} # {} THEN "increase"
    ELSE IF words \cap {"upstream", "failover", "failure rate"} # {} THEN "failover"
    ELSE "other"

BrainInit ==
    /\ keys \in SUBSET Asking
    /\ doing = [g \in Goroutines |-> "idle"]
    /\ left = [g \in Goroutines |-> 0]
    /\ works = [g \in Goroutines |-> FALSE]
    /\ asked = [g \in Goroutines |-> 0]
    /\ reply = [g \in Goroutines |-> "none"]

\* GenerateCompletion with a new deadline, by a goroutine that has just begun.
Ask(g, words) ==
    /\ doing[g] = "idle"
    /\ IF keys = {}
       THEN /\ doing' = [doing EXCEPT ![g] = "answered"]
            /\ reply' = [reply EXCEPT ![g] = MockCompletion(words)]
       ELSE /\ doing' = [doing EXCEPT ![g] = IF "deepseek" \in keys THEN "deepseek" ELSE "gemini"]
            /\ UNCHANGED reply
    /\ left' = [left EXCEPT ![g] = AITimeout]
    /\ asked' = [asked EXCEPT ![g] = AITimeout]
    /\ \E up \in BOOLEAN : works' = [works EXCEPT ![g] = up /\ "gemini" \in keys]
    /\ UNCHANGED keys

\* A provider that was asked before the deadline answers by then; the text is
\* any.
ProviderAnswers(g) ==
    /\ doing[g] \in Asking
    /\ asked[g] > 0
    /\ doing' = [doing EXCEPT ![g] = "answered"]
    /\ \E text \in Answers \ {"none"} : reply' = [reply EXCEPT ![g] = text]
    /\ UNCHANGED <<keys, left, works, asked>>

\* Mutant: DeepSeek's error is returned without a fallback.
DeepSeekFailsForGood(g) ==
    /\ doing[g] = "deepseek"
    /\ doing' = [doing EXCEPT ![g] = "failed"]
    /\ asked' = [asked EXCEPT ![g] = left[g]]
    /\ UNCHANGED <<keys, left, works, reply>>

\* Mutant: the fallback gets a deadline of its own.
DeepSeekFailsAfresh(g) ==
    /\ doing[g] = "deepseek"
    /\ doing' = [doing EXCEPT ![g] = IF "gemini" \in keys THEN "gemini" ELSE "failed"]
    /\ left' = [left EXCEPT ![g] = AITimeout]
    /\ asked' = [asked EXCEPT ![g] = AITimeout]
    /\ UNCHANGED <<keys, works, reply>>

\* DeepSeek fails: no connection, a status that is not 200, no JSON, no choice,
\* or the deadline.  Gemini is asked with what is left of the time.
DeepSeekFails(g) ==
    /\ doing[g] = "deepseek"
    /\ doing' = [doing EXCEPT ![g] = IF "gemini" \in keys THEN "gemini" ELSE "failed"]
    /\ asked' = [asked EXCEPT ![g] = left[g]]
    /\ UNCHANGED <<keys, left, works, reply>>

\* Gemini fails likewise, at once if the deadline has passed already.
GeminiFails(g) ==
    /\ doing[g] = "gemini"
    /\ ~works[g] \/ left[g] = 0
    /\ doing' = [doing EXCEPT ![g] = "failed"]
    /\ UNCHANGED <<keys, left, works, asked, reply>>

\* A deadline cuts its request off, and a Gemini that works answers in time:
\* until then time cannot go on.
MayWait(g) ==
    /\ left[g] > 0
    /\ doing[g] = "gemini" /\ works[g] => asked[g] - left[g] < Latency

-----------------------------------------------------------------------------
(* Properties.                                                              *)

\* When the call of a goroutine fails although Gemini works and has a key, then
\* because DeepSeek used up the time: both share one deadline (brain.go:43-53),
\* so a DeepSeek that fails early costs no answer, and one that hangs does.
LostOnlyToTheClock ==
    \A g \in Goroutines :
        doing[g] = "failed" /\ works[g] => asked[g] <= Latency
=============================================================================
