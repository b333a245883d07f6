---------------------------- MODULE Autoscaler -----------------------------
(***************************************************************************)
(* The traffic analyzer at work (internal/ai/analyzer.go): runLoop takes a *)
(* rate whenever its ticker fires, and starts a goroutine for each anomaly *)
(* that asks the brain and then scales the limits in etcd (queryAIAndScale,*)
(* executeRateLimitScaling; what the scaling writes is in PolicyStore).    *)
(* Nothing keeps a goroutine from starting while others are under way.     *)
(***************************************************************************)
EXTENDS Analyzer, Brain

CONSTANTS
    Interval,     \* the ticker's period (10 s)
    ScaleTimeout, \* the time executeRateLimitScaling has (5 s)
    Jitter        \* how late runLoop may take a tick

ASSUME LoopTimes == /\ Interval \in Nat \ {0} /\ ScaleTimeout \in Nat
                    /\ Jitter \in 0..(Interval - 1)

VARIABLES
    phase,  \* the time since the ticker fired
    fired   \* whether the tick still waits in the ticker's channel

scalerVars == <<tpsHistory, brainVars, phase, fired>>

\* The words of queryAIAndScale's prompt that mockCompletion looks for.
PromptWords == {"baseline mean", "spike"}

ScalerTypeOK ==
    /\ AnalyzerTypeOK
    /\ keys \subseteq Asking
    /\ doing \in [Goroutines -> {"idle", "scaling", "answered", "failed"} \cup Asking]
    /\ left \in [Goroutines -> 0..(AITimeout + ScaleTimeout)]
    /\ works \in [Goroutines -> BOOLEAN]
    /\ asked \in [Goroutines -> 0..AITimeout]
    /\ reply \in [Goroutines -> Answers]
    /\ phase \in 0..(Interval - 1)
    /\ fired \in BOOLEAN

ScalerInit ==
    /\ AnalyzerInit
    /\ BrainInit
    /\ phase = 0
    /\ fired = FALSE

UnderWay == {g \in Goroutines : doing[g] # "idle"}

\* Time goes on unless a deadline or a tick is due.
Elapse ==
    /\ \A g \in UnderWay : doing[g] \in Asking \cup {"scaling"} /\ MayWait(g)
    /\ fired => phase < Jitter
    /\ left' = [g \in Goroutines |-> IF g \in UnderWay THEN left[g] - 1 ELSE 0]
    /\ phase' = (phase + 1) % Interval
    /\ fired' = (fired \/ phase' = 0)
    /\ UNCHANGED <<tpsHistory, keys, doing, works, asked, reply>>

\* A new goroutine; which one it is makes no difference.
Fresh == CHOOSE g \in Goroutines : doing[g] = "idle"

\* runLoop takes the tick: rate t is what the request totals grew by.
Sample(t) ==
    /\ fired
    /\ fired' = FALSE
    /\ IF Anomalous(t) THEN Ask(Fresh, PromptWords) ELSE UNCHANGED brainVars
    /\ Analyze(t)
    /\ UNCHANGED phase

\* queryAIAndScale returns.
Done(g) ==
    /\ doing' = [doing EXCEPT ![g] = "idle"]
    /\ left' = [left EXCEPT ![g] = 0]
    /\ works' = [works EXCEPT ![g] = FALSE]
    /\ asked' = [asked EXCEPT ![g] = 0]
    /\ reply' = [reply EXCEPT ![g] = "none"]
    /\ UNCHANGED keys

\* The brain fails, answers something else, or advises against scaling.
NoScaling(g) ==
    /\ doing[g] = "failed" \/ (doing[g] = "answered" /\ reply[g] # "increase")
    /\ Done(g)
    /\ UNCHANGED <<tpsHistory, phase, fired>>

\* "increase-limit" with a factor above 1: the scaling has a deadline of its
\* own, counted from here.
Scale(g) ==
    /\ doing[g] = "answered" /\ reply[g] = "increase"
    /\ doing' = [doing EXCEPT ![g] = "scaling"]
    /\ left' = [left EXCEPT ![g] = ScaleTimeout]
    /\ UNCHANGED <<keys, works, asked, reply, tpsHistory, phase, fired>>

\* executeRateLimitScaling is through, by its deadline at the latest.
Scaled(g) ==
    /\ doing[g] = "scaling"
    /\ Done(g)
    /\ UNCHANGED <<tpsHistory, phase, fired>>

Think(g) ==
    /\ ProviderAnswers(g) \/ DeepSeekFails(g) \/ GeminiFails(g)
    /\ UNCHANGED <<tpsHistory, phase, fired>>

ScalerNext ==
    \/ Elapse
    \/ \E t \in Rates : Sample(t)
    \/ \E g \in Goroutines : Think(g) \/ NoScaling(g) \/ Scale(g) \/ Scaled(g)

-----------------------------------------------------------------------------
(* Properties.                                                              *)

\* Anomalies in a row start goroutines that overlap, and scale the limits on top
\* of each other; the deadlines bound how many (two, for 10 s and 5 s in an
\* interval of 10 s taken on time; analyzer.go:145, 156 and 196).
OverlapBounded ==
    Cardinality(UnderWay) <= (AITimeout + ScaleTimeout + Jitter) \div Interval + 1
=============================================================================
