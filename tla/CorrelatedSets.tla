--------------------------- MODULE CorrelatedSets ---------------------------
(***************************************************************************)
(* lib/reporter/correlated_set.go: the reporter that collects the rows of  *)
(* correlated pairs in sets, merges sets that turn out to be connected,    *)
(* and prints them.  A set that was merged into another stays in the slice *)
(* without members.  The members, a sorted slice without duplicates, are a *)
(* set here; the scores of the pairs are left out.                         *)
(*                                                                         *)
(* A definition whose name lengthens that of the one after it is a faulty  *)
(* form of it, there to show that the properties notice; nothing uses it.  *)
(***************************************************************************)
EXTENDS Naturals, Sequences

VARIABLES
  correlations,   \* the slice of sets
  reported        \* what Flush printed: the rows of each set

setVars == <<correlations, reported>>

Empty == [pairs |-> {}, members |-> {}]

SetsInit == correlations = <<>> /\ reported = {}

\* The first set that contains the row; 0 when no set does.
HomeFor(row) ==
  LET homes == {i \in 1 .. Len(correlations) : row \in correlations[i].members}
  IN IF homes = {} THEN 0 ELSE CHOOSE first \in homes : \A home \in homes : first <= home

Grown(set, pair) == [pairs |-> set.pairs \union {pair}, members |-> set.members \union {pair[1], pair[2]}]

NewSet(pair) == correlations' = Append(correlations, Grown(Empty, pair))

AddToSet(pair, home) == correlations' = [correlations EXCEPT ![home] = Grown(@, pair)]

\* What the first set becomes when the second is emptied into it.
Merged(set, other) == [pairs |-> set.pairs \union other.pairs, members |-> set.members \union other.members]

MergeSetsDroppingPairs(pair, home1, home2) ==
  correlations' = [correlations EXCEPT
    ![home1] = Merged(Grown(@, pair), [correlations[home2] EXCEPT !.pairs = {}]),
    ![home2] = Empty]

MergeSetsKeepingOther(pair, home1, home2) ==
  correlations' = [correlations EXCEPT ![home1] = Merged(Grown(@, pair), correlations[home2])]

MergeSets(pair, home1, home2) ==
  correlations' = [correlations EXCEPT
    ![home1] = Merged(Grown(@, pair), correlations[home2]),
    ![home2] = Empty]

addCorrelatedPair(pair) ==
  LET home1 == HomeFor(pair[1])
      home2 == HomeFor(pair[2])
  IN /\ \/ home1 = 0 /\ home2 = 0 /\ NewSet(pair)
        \/ home1 # 0 /\ home2 \in {0, home1} /\ AddToSet(pair, home1)
        \/ home1 = 0 /\ home2 # 0 /\ AddToSet(pair, home2)
        \/ home1 # 0 /\ home2 \notin {0, home1} /\ MergeSets(pair, home1, home2)
     /\ UNCHANGED reported

Sets == {correlations[i].members : i \in 1 .. Len(correlations)} \ {{}}

FlushSets == reported' = Sets /\ correlations' = <<>>
=============================================================================
