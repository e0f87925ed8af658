----------------------------- MODULE HandlersMC -----------------------------
EXTENDS Handlers

Ids == {<<1, 2, 1>>}

\* Strides that correlate timeseries 1 with those of a sequence, in one subgraph.
Correlating(others) ==
  LET rows == {1} \union ToSet(others)
  IN [metrics |-> [ts \in 1 .. 3 |-> FALSE],
      Rows |-> [ts \in (IF others = <<>> THEN {} ELSE rows) |-> 0],
      Sizes |-> [g \in (IF others = <<>> THEN {} ELSE {0}) |-> Cardinality(rows)],
      edges |-> [g \in (IF others = <<>> THEN {} ELSE {0}) |-> [i \in DOMAIN others |-> <<1, others[i]>>]]]

\* A stride that has not got timeseries 1.
Ignorant == [metrics |-> [ts \in {2, 3} |-> FALSE], Rows |-> [ts \in {} |-> 0],
             Sizes |-> [g \in {} |-> 0], edges |-> [g \in {} |-> <<>>]]

ContentsHere == {<<Correlating(<<2>>), Correlating(<<3, 2>>), Ignorant>>}

IdsRequested == {<<1>>}

\* The world stands still once the request is answered: of what the properties speak of,
\* nothing changes any more, unless the request is no longer calm. Only the file of the
\* second stride is found half written.
HandlersMCNext ==
  /\ HandlersNext
  /\ handler.at # "done"
  /\ \A s \in Strides : file'[s].content = "partial" => s = 2

HandlersMCSpec == HandlersInit /\ [][HandlersMCNext]_handlersVars
=============================================================================
