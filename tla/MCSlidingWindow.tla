-------------------------- MODULE MCSlidingWindow --------------------------
(* The model values of the runs of SlidingWindow: a short and a long policy *)
(* of one client.                                                           *)
EXTENDS SlidingWindow, TLC

CONSTANTS short, long

MCLimit == [p \in {short, long} |-> IF p = short THEN 2 ELSE 1]
MCWindow == [p \in {short, long} |-> IF p = short THEN 3 ELSE 4]

\* Every run of the script draws a number of its own.
MCSuffix == [r \in Requests |-> r]

\* The requests are interchangeable: no constant tells them apart.
RequestSymmetry == Permutations(Requests)
=============================================================================
