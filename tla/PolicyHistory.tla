--------------------------- MODULE PolicyHistory ---------------------------
(***************************************************************************)
(* What etcd holds under the policy prefix as of a revision: the policies  *)
(* that a history of writes amounts to.  A write is an ID and a limit;     *)
(* limit 0 stands for a delete.  Path, method and tier go with the ID.     *)
(***************************************************************************)
EXTENDS Integers, Sequences

CONSTANT Ids  \* policy IDs; the key is the prefix and the ID

\* A policy carries the revision that wrote it.
Absent == [revision |-> 0, limit |-> 0]
Policy == [revision : Nat \ {0}, limit : Nat \ {0}] \cup {Absent}

Writes == [id : Ids, limit : Nat]

\* What the write of a revision leaves under its ID.
Written(history, v) ==
    IF history[v].limit = 0 THEN Absent
    ELSE [revision |-> v, limit |-> history[v].limit]

\* The policy under ID i as of a revision.
At(history, i, revision) ==
    LET writes == {v \in 1..revision : history[v].id = i}
    IN  IF writes = {} THEN Absent
        ELSE Written(history, CHOOSE v \in writes : \A w \in writes : w <= v)

Contents(history, revision) == [i \in Ids |-> At(history, i, revision)]

Nothing == [i \in Ids |-> Absent]
=============================================================================
