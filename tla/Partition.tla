------------------------------ MODULE Partition -----------------------------
(***************************************************************************)
(* What a grouping of correlated rows promises: after any sequence of      *)
(* pairs the groups are the connected components of the pairs so far.      *)
(* CorrelatedSets implements it; Groupings says so.                        *)
(***************************************************************************)
CONSTANT Node

VARIABLE groups

Touched(a, b) == {g \in groups : a \in g \/ b \in g}

Join(a, b) == groups' = (groups \ Touched(a, b)) \union {(UNION Touched(a, b)) \union {a, b}}

Clear == groups' = {}

Next == Clear \/ \E a, b \in Node : a # b /\ Join(a, b)

Spec == groups = {} /\ [][Next]_groups
=============================================================================
