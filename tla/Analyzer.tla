----------------------------- MODULE Analyzer ------------------------------
(***************************************************************************)
(* The anomaly rule of the traffic analyzer: TrafficAnalyzer.analyzeTPS    *)
(* (internal/ai/analyzer.go) over its history of request rates.  A rate is *)
(* the number of requests in an interval; mean and deviation are compared  *)
(* in integers, without the code's floats: with n rates in the history,    *)
(* sum S and sum of squares Q, rate t is above mean + 3 deviations when    *)
(* n t - S is positive and its square more than 9 (n Q - S^2).             *)
(***************************************************************************)
EXTENDS Integers, Sequences, FiniteSets

CONSTANTS
    Rates,      \* the rates that occur
    MinHistory, \* rates that are taken down before any is judged (5)
    MaxHistory, \* rates that are kept (60)
    MinRate     \* the rate up to which nothing is anomalous (5 per second)

ASSUME RateTypes == Rates \subseteq Nat /\ MinRate \in Nat
ASSUME HistoryTypes == /\ MinHistory \in Nat \ {0} /\ MaxHistory \in Nat
                       /\ MinHistory <= MaxHistory

VARIABLE tpsHistory

AnalyzerTypeOK == tpsHistory \in Seq(Rates) /\ Len(tpsHistory) <= MaxHistory

AnalyzerInit == tpsHistory = << >>

Total(rates) ==
    LET upTo[i \in 0..Len(rates)] == IF i = 0 THEN 0 ELSE upTo[i - 1] + rates[i]
    IN  upTo[Len(rates)]
Squares(rates) == [i \in DOMAIN rates |-> rates[i] * rates[i]]

\* Mutant: two deviations are enough.
AboveThreshold2(t) ==
    LET n == Len(tpsHistory)
        S == Total(tpsHistory)
        Q == Total(Squares(tpsHistory))
    IN  n * t > S /\ (n * t - S) * (n * t - S) > 4 * (n * Q - S * S)

\* t > mean + 3 * stdDev
AboveThreshold(t) ==
    LET n == Len(tpsHistory)
        S == Total(tpsHistory)
        Q == Total(Squares(tpsHistory))
    IN  n * t > S /\ (n * t - S) * (n * t - S) > 9 * (n * Q - S * S)

Anomalous(t) ==
    /\ Len(tpsHistory) >= MinHistory
    /\ AboveThreshold(t)
    /\ t > MinRate

\* The history afterwards, anomalous or not: the oldest rate makes room.
Rotated(t) ==
    Append(IF Len(tpsHistory) >= MaxHistory THEN Tail(tpsHistory) ELSE tpsHistory, t)

Analyze(t) == tpsHistory' = Rotated(t)

-----------------------------------------------------------------------------
(* Properties.                                                              *)

\* A rate that a tenth of the history has reached already is not anomalous:
\* one jump to a new level raises the alarm at most while that level is rarer
\* in the history, and then the analyzer has got used to it (Cantelli's
\* inequality, for the rule and the history of analyzer.go:112-153).
UsedToLevel ==
    \A t \in Rates : Anomalous(t) =>
        10 * Cardinality({i \in DOMAIN tpsHistory : tpsHistory[i] >= t}) < Len(tpsHistory)
=============================================================================
