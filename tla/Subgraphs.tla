------------------------------ MODULE Subgraphs -----------------------------
(***************************************************************************)
(* lib/explorer/parquet_explorer.go: the explorer reads a result file row  *)
(* by row and numbers the subgraphs of correlated timeseries (addPair,     *)
(* GetSubgraphs); in another pass over the file it takes the edges         *)
(* (GetEdges), which explorer/data_processor.go sorts into one file per    *)
(* subgraph (extractEdges).                                                *)
(*                                                                         *)
(* A row of the file is a match, which is recorded in both directions, or  *)
(* a row about one timeseries, which is "correlated" with itself and has   *)
(* no Pearson coefficient; a timeseries that is constant has another such  *)
(* row.  The specification lets the rows come in any order, any number of  *)
(* times; Groupings reads a file in its order.                             *)
(*                                                                         *)
(* A definition whose name lengthens that of the one after it is a faulty  *)
(* form of it, there to show that the properties notice; nothing uses it.  *)
(***************************************************************************)
EXTENDS Integers, FiniteSets

CONSTANT Fingerprint   \* the fingerprints of the timeseries

ASSUME FingerprintAssumption == Fingerprint \subseteq Nat /\ IsFiniteSet(Fingerprint)

VARIABLES
  Rows,             \* timeseries -> the subgraph it is in
  Sizes,            \* subgraph -> its number of timeseries
  nextSubgraphId,
  added             \* for the properties only: the pairs added so far

graphVars == <<Rows, Sizes, nextSubgraphId, added>>

Match(a, b) == [MetricFingerprint |-> a, Correlated |-> b, Positive |-> TRUE, Constant |-> FALSE]
About(a, constant) == [MetricFingerprint |-> a, Correlated |-> a, Positive |-> FALSE, Constant |-> constant]

FileRow == {row \in {Match(a, b) : a \in Fingerprint, b \in Fingerprint} : row.MetricFingerprint # row.Correlated}
             \union {About(a, constant) : a \in Fingerprint, constant \in BOOLEAN}

GraphsInit ==
  /\ Rows = [row \in {} |-> 0]
  /\ Sizes = [graph \in {} |-> 0]
  /\ nextSubgraphId = 0
  /\ added = {}

\* A map with the keys S set to v.
Put(map, S, v) == [x \in DOMAIN map \union S |-> IF x \in S THEN v ELSE map[x]]

Members(graph) == {row \in DOMAIN Rows : Rows[row] = graph}

-----------------------------------------------------------------------------
(* addPair: the four cases *)

NewGraphKeepingId(row1, row2) ==
  /\ row1 \notin DOMAIN Rows /\ row2 \notin DOMAIN Rows
  /\ Rows' = Put(Rows, {row1, row2}, nextSubgraphId)
  /\ Sizes' = Put(Sizes, {nextSubgraphId}, 2)
  /\ UNCHANGED nextSubgraphId

NewGraph(row1, row2) ==
  /\ row1 \notin DOMAIN Rows /\ row2 \notin DOMAIN Rows
  /\ Rows' = Put(Rows, {row1, row2}, nextSubgraphId)
  /\ Sizes' = Put(Sizes, {nextSubgraphId}, 2)
  /\ nextSubgraphId' = nextSubgraphId + 1

JoinGraph(known, new) ==
  /\ known \in DOMAIN Rows /\ new \notin DOMAIN Rows
  /\ Rows' = Put(Rows, {new}, Rows[known])
  /\ Sizes' = [Sizes EXCEPT ![Rows[known]] = @ + 1]
  /\ UNCHANGED nextSubgraphId

SameGraph(row1, row2) ==
  /\ row1 \in DOMAIN Rows /\ row2 \in DOMAIN Rows
  /\ Rows[row1] = Rows[row2]
  /\ UNCHANGED <<Rows, Sizes, nextSubgraphId>>

MergeGraphsMovingOneRow(to, from) ==
  /\ to \in DOMAIN Rows /\ from \in DOMAIN Rows
  /\ Rows[to] < Rows[from]
  /\ Rows' = Put(Rows, {from}, Rows[to])
  /\ Sizes' = [graph \in DOMAIN Sizes \ {Rows[from]} |->
                 IF graph = Rows[to] THEN Sizes[graph] + 1 ELSE Sizes[graph]]
  /\ UNCHANGED nextSubgraphId

MergeGraphsCountingOne(to, from) ==
  /\ to \in DOMAIN Rows /\ from \in DOMAIN Rows
  /\ Rows[to] < Rows[from]
  /\ Rows' = Put(Rows, Members(Rows[from]), Rows[to])
  /\ Sizes' = [graph \in DOMAIN Sizes \ {Rows[from]} |->
                 IF graph = Rows[to] THEN Sizes[graph] + 1 ELSE Sizes[graph]]
  /\ UNCHANGED nextSubgraphId

\* Always into the graph with the lower number: its rows are counted one by one.
MergeGraphs(to, from) ==
  /\ to \in DOMAIN Rows /\ from \in DOMAIN Rows
  /\ Rows[to] < Rows[from]
  /\ Rows' = Put(Rows, Members(Rows[from]), Rows[to])
  /\ Sizes' = [graph \in DOMAIN Sizes \ {Rows[from]} |->
                 IF graph = Rows[to] THEN Sizes[graph] + Cardinality(Members(Rows[from]))
                                     ELSE Sizes[graph]]
  /\ UNCHANGED nextSubgraphId

addPair(row1, row2) ==
  /\ \/ NewGraph(row1, row2)
     \/ JoinGraph(row1, row2)
     \/ JoinGraph(row2, row1)
     \/ SameGraph(row1, row2)
     \/ MergeGraphs(row1, row2)
     \/ MergeGraphs(row2, row1)
  /\ added' = added \union {<<row1, row2>>}

-----------------------------------------------------------------------------
(* The two passes over the rows of a file *)

IsEdgeOrConstant(row) == row.Positive \/ row.Constant
IsEdge(row) == ~row.Constant /\ row.Positive

\* GetSubgraphs, one row.
ReadRow(row) ==
  \/ IsEdge(row) /\ addPair(row.MetricFingerprint, row.Correlated)
  \/ ~IsEdge(row) /\ UNCHANGED graphVars

\* Of the two directions of a match, GetEdges takes one.
TakesBothDirections(row) == IsEdge(row)
Takes(row) == IsEdge(row) /\ row.MetricFingerprint < row.Correlated

GetGraphId(row) == IF row \in DOMAIN Rows THEN Rows[row] ELSE -1

GraphsNext == \E row \in FileRow : ReadRow(row)

GraphsSpec == GraphsInit /\ [][GraphsNext]_graphVars

-----------------------------------------------------------------------------
(* Properties *)

\* Types; ids are given in order, so one that is given is below the next.
GraphsTypeOK ==
  /\ DOMAIN Rows \subseteq Fingerprint
  /\ nextSubgraphId \in Nat
  /\ \A row \in DOMAIN Rows : Rows[row] \in 0 .. nextSubgraphId - 1
  /\ DOMAIN Sizes \subseteq 0 .. nextSubgraphId - 1
  /\ \A graph \in DOMAIN Sizes : Sizes[graph] \in Nat
  /\ added \subseteq Fingerprint \X Fingerprint

\* The rows of a pair are in one subgraph, whatever was merged since.
PairsShareGraph ==
  \A pair \in added : /\ pair[1] \in DOMAIN Rows /\ pair[2] \in DOMAIN Rows
                      /\ Rows[pair[1]] = Rows[pair[2]]

\* Rows are in one subgraph only if the pairs connect them: no cut of the timeseries that
\* separates no pair separates two rows of a subgraph.
GraphsConnected ==
  \A side \in SUBSET Fingerprint :
    (\A pair \in added : pair[1] \in side <=> pair[2] \in side)
      => \A a, b \in DOMAIN Rows : Rows[a] = Rows[b] => (a \in side <=> b \in side)

\* Together: the subgraphs are the connected components of the pairs read so far, whatever
\* their order (addPair merges and renumbers as it goes).
GraphsAreComponents == PairsShareGraph /\ GraphsConnected

\* The sizes the explorer shows and decides by are the numbers of rows, and exactly the
\* subgraphs that still have rows have one.
SizesExact ==
  /\ DOMAIN Sizes = {Rows[row] : row \in DOMAIN Rows}
  /\ \A graph \in DOMAIN Sizes : Sizes[graph] = Cardinality(Members(graph))
=============================================================================
