-------------------------- MODULE PolicyFollower ---------------------------
(***************************************************************************)
(* What the configuration client of a gateway node promises of the         *)
(* policies it enforces (internal/controlplane/client.go): it shows the    *)
(* newest contents of the store when it starts, and from then on each      *)
(* later one in turn, until it loses a change; from there on it shows, per *)
(* policy, nothing older than before.  A restart begins anew.              *)
(***************************************************************************)
EXTENDS PolicyHistory

CONSTANT Nodes  \* gateway processes

VARIABLES
    history,  \* the writes to the store
    mode,     \* mode[n]: whether node n is down, follows the store, has lost
              \* a change, or runs without policies
    followed, \* followed[n]: the revision n shows, while it follows
    shown     \* shown[n]: the policies n enforces

vars == <<history, mode, followed, shown>>

Init ==
    /\ history = << >>
    /\ mode = [n \in Nodes |-> "down"]
    /\ followed = [n \in Nodes |-> 0]
    /\ shown = [n \in Nodes |-> Nothing]

Show(n, m, revision, policies) ==
    /\ mode' = [mode EXCEPT ![n] = m]
    /\ followed' = [followed EXCEPT ![n] = revision]
    /\ shown' = [shown EXCEPT ![n] = policies]
    /\ UNCHANGED history

\* Someone writes or deletes a policy.
Write ==
    /\ Len(history') = Len(history) + 1
    /\ history' = Append(history, history'[Len(history')])
    /\ history'[Len(history')] \in Writes
    /\ UNCHANGED <<mode, followed, shown>>

\* A node starts with the newest contents, or without any.
Load(n) ==
    /\ mode[n] = "down"
    /\ \/ Show(n, "following", Len(history), Contents(history, Len(history)))
       \/ Show(n, "without", 0, Nothing)

\* It shows the contents of the next revision, and skips none.
Advance(n) ==
    /\ mode[n] = "following"
    /\ followed[n] < Len(history)
    /\ Show(n, "following", followed[n] + 1, Contents(history, followed[n] + 1))

\* It loses a change, which takes a change it has not shown.
Lose(n) ==
    /\ mode[n] = "following"
    /\ followed[n] < Len(history)
    /\ Show(n, "lost", 0, shown[n])

\* Thereafter, a policy may become a version written later than the one shown,
\* or disappear.
Drift(n) ==
    /\ mode[n] = "lost"
    /\ \E v \in 1..Len(history) :
          /\ history[v].limit = 0 \/ v > shown[n][history[v].id].revision
          /\ Show(n, "lost", 0, [shown[n] EXCEPT ![history[v].id] = Written(history, v)])

Stop(n) ==
    /\ mode[n] # "down"
    /\ Show(n, "down", 0, Nothing)

Next == Write \/ \E n \in Nodes : Load(n) \/ Advance(n) \/ Lose(n) \/ Drift(n) \/ Stop(n)

Spec == Init /\ [][Next]_vars
=============================================================================
