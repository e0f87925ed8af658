------------------------------- MODULE Queries ------------------------------
(***************************************************************************)
(* explorer/explorer.go and the lookups of explorer/data_processor.go:     *)
(* what the HTTP handlers answer from the strides they are given.  They    *)
(* change nothing, so that they are operators here; parsing a request and  *)
(* encoding an answer are left out.                                        *)
(*                                                                         *)
(* A stride is what the explorer has read of it: metrics (metricsCache:    *)
(* timeseries -> is it constant), Rows and Sizes (its subgraphs), and the  *)
(* edge files, a sequence of pairs per subgraph.  Before it was read it    *)
(* has none of them.                                                       *)
(*                                                                         *)
(* A definition whose name lengthens that of the one after it is a faulty  *)
(* form of it, there to show that the properties notice; nothing uses it.  *)
(***************************************************************************)
EXTENDS Integers, SequencesExt

CONSTANTS
  MAX_GRAPH_SIZE,   \* nodes and edges shown of a subgraph
  MaxResults        \* correlated timeseries shown of one timeseries, 20

ASSUME QueriesAssumption == MAX_GRAPH_SIZE \in Nat \ {0} /\ MaxResults \in Nat \ {0}

\* An answer is found, or it is an HTTP error.
Found(answer) == [ok |-> TRUE, found |-> answer]
Failed(nothing) == [ok |-> FALSE, found |-> nothing]

AtMost(n, limit) == IF n > limit THEN limit ELSE n

-----------------------------------------------------------------------------
(* Edges and correlated timeseries *)

\* The edges of a subgraph, if it has a file; but none if there are too many to draw.
retrieveEdges(stride, graph) ==
  IF graph \notin DOMAIN stride.edges THEN Failed(<<>>)
  ELSE Found(IF Len(stride.edges[graph]) > MAX_GRAPH_SIZE THEN <<>> ELSE stride.edges[graph])

OtherEnd(edge, ts) == IF edge[1] = ts THEN edge[2] ELSE edge[1]

EdgesFrom(edges, ts, onlyConsider) == {i \in 1 .. Len(edges) : edges[i][1] = ts}
\* The places of the edges of a timeseries, those to others that were not asked for left out.
EdgesAt(edges, ts, onlyConsider) ==
  {i \in 1 .. Len(edges) : /\ ts \in {edges[i][1], edges[i][2]}
                           /\ onlyConsider = {} \/ OtherEnd(edges[i], ts) \in onlyConsider}

\* The loop ends when it has enough: the first n of the places.
FirstOf(places, n) == {i \in places : Cardinality({j \in places : j <= i}) <= n}

\* A timeseries that the stride does not know, or a subgraph without edge file, is an error.
retrieveCorrelatedTimeseries(stride, ts, onlyConsider) ==
  LET known == ts \in DOMAIN stride.metrics
      alone == stride.metrics[ts] \/ ts \notin DOMAIN stride.Rows
      file == retrieveEdges(stride, stride.Rows[ts])
      taken == FirstOf(EdgesAt(file.found, ts, onlyConsider), MaxResults)
  IN CASE known /\ alone                -> Found({})
       [] known /\ ~alone /\ file.ok    -> Found({OtherEnd(file.found[i], ts) : i \in taken})
       [] OTHER                         -> Failed({})

\* otherRowIds: of several ids the first is looked up. The rest, but for the last, is what
\* the answer is restricted to; with nothing left it is not restricted.
otherRowIds(ids) == ToSet(SubSeq(ids, 2, Len(ids) - 1))

-----------------------------------------------------------------------------
(* The handlers *)

\* Ids that are all known; else the timeseries given by its labels, if one is given.
getMetrics(stride, tsid, ts) ==
  LET byId == tsid # <<>> /\ ToSet(tsid) \subseteq DOMAIN stride.metrics
  IN CASE byId                 -> Found(tsid)
       [] ~byId /\ ts = <<>>   -> Failed(<<>>)
       [] OTHER                -> Found(SelectSeq(ts, LAMBDA t : t \in DOMAIN stride.metrics))

GetCorrelatedSeries(stride, ids) ==
  LET correlates == retrieveCorrelatedTimeseries(stride, ids[1], otherRowIds(ids))
  IN IF correlates.ok /\ correlates.found \subseteq DOMAIN stride.metrics THEN correlates ELSE Failed({})

GetSubgraphs(stride) == {[Id |-> graph, Size |-> stride.Sizes[graph]] : graph \in DOMAIN stride.Sizes}

\* The nodes of a subgraph that have a metric: in the order of a map, until there are
\* enough, so that of a larger subgraph any so many may be the answer.
GetSubgraphNodes(stride, graph) ==
  {row \in DOMAIN stride.Rows : stride.Rows[row] = graph /\ row \in DOMAIN stride.metrics}

NodesShown(stride, graph) == AtMost(stride.Sizes[graph], MAX_GRAPH_SIZE)

GetSubgraphEdges(stride, graph) ==
  IF graph \in DOMAIN stride.Sizes THEN retrieveEdges(stride, graph) ELSE Failed(<<>>)

SubgraphIdOf(stride, ts) == IF ts \in DOMAIN stride.Rows THEN stride.Rows[ts] ELSE -1

GetMetricInfo(stride, ids) ==
  {[Rowid |-> ts, Constant |-> stride.metrics[ts], SubgraphId |-> SubgraphIdOf(stride, ts)] :
     ts \in ToSet(ids) \intersect DOMAIN stride.metrics}

\* The size of the subgraph of a timeseries in each of some strides; whether it is constant
\* is taken from the stride that was asked for.
GetMetricHistory(strides, asked, ts) ==
  [st \in DOMAIN strides |->
     IF asked.metrics[ts] THEN -1
     ELSE IF ts \in DOMAIN strides[st].Rows THEN strides[st].Sizes[strides[st].Rows[ts]] ELSE 0]
=============================================================================
