---------------------------- MODULE MetricKeys -----------------------------
(***************************************************************************)
(* The keys under which RecordRequest counts a request, and the labels     *)
(* that a scrape makes of them again (internal/metrics/handler.go).  Text  *)
(* is a sequence of tokens; a path is a sequence of segments, of which the *)
(* code looks at the length, the digits and the hyphens.                   *)
(***************************************************************************)
EXTENDS Integers, Sequences, SequencesExt

\* The text before its first colon, and after: SplitN cuts so, again and again.
FirstColon(text) == SelectInSeq(text, LAMBDA token : token = ":")
Cut(text) == <<SubSeq(text, 1, FirstColon(text) - 1),
               SubSeq(text, FirstColon(text) + 1, Len(text))>>

\* All digits, or long with a hyphen.
isLikelyID(segment) ==
    \/ segment.digits /\ segment.length > 0
    \/ segment.length >= 32 /\ segment.hyphen

\* The text of a path in which ":id" stands for a segment that looks like one.
normalizePath(path) ==
    FlattenSeq([i \in DOMAIN path |->
        <<"/">> \o IF isLikelyID(path[i]) THEN <<":", "id">> ELSE path[i].text])

LatencyKey(q) == <<q.method, ":">> \o normalizePath(q.path)
CounterKey(q) == LatencyKey(q) \o <<":", q.status>>

\* Mutant: the status is printed as the path and the path as the status.
LabelsSwapped(key) == <<Cut(key)[1], Cut(Cut(key)[2])[2], Cut(Cut(key)[2])[1]>>

\* Method, path and status in the line a scrape prints for a request counter.
Labels(key) == <<Cut(key)[1], Cut(Cut(key)[2])[1], Cut(Cut(key)[2])[2]>>
=============================================================================
