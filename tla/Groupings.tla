------------------------------ MODULE Groupings -----------------------------
(***************************************************************************)
(* The matches of one stride on their way to the two groupings of the      *)
(* program.  The comparer's matches go to a reporter; the set reporter     *)
(* groups them, the Parquet reporter records each in both directions and,  *)
(* at the end of the stride, a row about every timeseries and the constant *)
(* ones.  Later the explorer reads the file (readResultFile), and then     *)
(* extracts the edges from it (extractEdges).  Both reporters get the same *)
(* matches here, so that their groups can be compared.  At the end the     *)
(* HTTP handlers answer from what was read and written.                    *)
(***************************************************************************)
EXTENDS Subgraphs, CorrelatedSets, Queries, SequencesExt

CONSTANT MaxMatches   \* a bound: matches of the stride

VARIABLES
  phase,      \* who is at work
  matches,    \* the pairs matched so far
  file,       \* the rows of the result file
  position,   \* the rows the explorer has read in the current pass
  metrics,    \* metricsCache: timeseries -> is it constant
  edgeFiles   \* subgraph -> the edges written to its file

groupingVars == <<phase, matches, file, position, metrics, edgeFiles>>
vars == <<graphVars, setVars, groupingVars>>

Init ==
  /\ GraphsInit /\ SetsInit
  /\ phase = "report"
  /\ matches = {}
  /\ file = <<>>
  /\ position = 0
  /\ metrics = [f \in {} |-> FALSE]
  /\ edgeFiles = [graph \in {} |-> <<>>]

\* extractRowsFromResult, for one match.
RowsOf(pair) == <<Match(pair[1], pair[2]), Match(pair[2], pair[1])>>

Report ==
  /\ phase = "report" /\ Cardinality(matches) < MaxMatches
  /\ \E pair \in Fingerprint \X Fingerprint :
       /\ pair[1] # pair[2] /\ pair \notin matches /\ <<pair[2], pair[1]>> \notin matches
       /\ matches' = matches \union {pair}
       /\ addCorrelatedPair(pair)
       /\ file' = file \o RowsOf(pair)
  /\ UNCHANGED <<graphVars, phase, position, metrics, edgeFiles>>

\* RecordTimeseriesIds, AddConstantRows and Flush. A constant row is not compared, but
\* the constant rows are those the window has by now: once the next stride is normalized
\* they may be others, rows that were matched in this one among them (Receiver's
\* WriteConstants).
EndOfStride ==
  /\ phase = "report"
  /\ FlushSets
  /\ \E constants \in SUBSET Fingerprint :
       file' = file \o SetToSeq({About(f, FALSE) : f \in Fingerprint})
                    \o SetToSeq({About(f, TRUE) : f \in constants})
  /\ phase' = "metrics"
  /\ UNCHANGED <<graphVars, matches, position, metrics, edgeFiles>>

-----------------------------------------------------------------------------
(* The explorer *)

Row == file[position + 1]
MoreRows == position < Len(file)

MetricsOfConstants(row) ==
  metrics' = IF row.Constant THEN Put(metrics, {row.MetricFingerprint}, TRUE) ELSE metrics

\* GetMetrics, one row: a row that names the timeseries makes an entry unless there is
\* one, a constant row marks it.
MetricsOf(row) ==
  metrics' = IF row.Constant THEN Put(metrics, {row.MetricFingerprint}, TRUE)
             ELSE IF row.MetricFingerprint = row.Correlated
             THEN Put(metrics, {row.MetricFingerprint} \ DOMAIN metrics, FALSE)
             ELSE metrics

ReadMetrics ==
  /\ phase = "metrics" /\ MoreRows
  /\ MetricsOf(Row)
  /\ position' = position + 1
  /\ UNCHANGED <<graphVars, setVars, phase, matches, file, edgeFiles>>

ReadSubgraphs ==
  /\ phase = "subgraphs" /\ MoreRows
  /\ ReadRow(Row)
  /\ position' = position + 1
  /\ UNCHANGED <<setVars, phase, matches, file, metrics, edgeFiles>>

\* extractEdges, one row: the edge goes to the file of its source's subgraph, which is
\* opened for its first edge; a source without subgraph is an error and ends the pass.
ExtractEdge ==
  /\ phase = "edges" /\ MoreRows
  /\ LET graph == GetGraphId(Row.MetricFingerprint)
         edge == <<Row.MetricFingerprint, Row.Correlated>>
         written == IF graph \in DOMAIN edgeFiles THEN edgeFiles[graph] ELSE <<>>
     IN /\ phase' = IF Takes(Row) /\ graph = -1 THEN "error" ELSE "edges"
        /\ edgeFiles' = IF Takes(Row) /\ graph # -1 /\ Sizes[graph] >= 2
                        THEN Put(edgeFiles, {graph}, Append(written, edge)) ELSE edgeFiles
  /\ position' = position + 1
  /\ UNCHANGED <<graphVars, setVars, matches, file, metrics>>

NextPass ==
  /\ phase \in {"metrics", "subgraphs", "edges"} /\ ~MoreRows
  /\ phase' = CASE phase = "metrics" -> "subgraphs" [] phase = "subgraphs" -> "edges" [] OTHER -> "done"
  /\ position' = 0
  /\ UNCHANGED <<graphVars, setVars, matches, file, metrics, edgeFiles>>

Next == Report \/ EndOfStride \/ ReadMetrics \/ ReadSubgraphs \/ ExtractEdge \/ NextPass

Spec == Init /\ [][Next]_vars

-----------------------------------------------------------------------------
(* Properties *)

\* The set reporter keeps the connected components of its pairs: abstractly, it joins the
\* sets a pair touches and clears them when it prints.
SetPartition == INSTANCE Partition WITH Node <- Fingerprint, groups <- Sets
SetsImplementPartition == SetPartition!Spec

\* No score is lost or kept twice when sets are merged: the pairs stored in a set are the
\* matches among its members, until they are printed.
PairsKept ==
  phase = "report" =>
    /\ UNION {correlations[i].pairs : i \in 1 .. Len(correlations)} = matches
    /\ \A i, j \in 1 .. Len(correlations) :
         i # j => correlations[i].pairs \intersect correlations[j].pairs = {}

\* The two ways of grouping agree: the explorer's subgraphs of the file are the sets the
\* set reporter printed for the same matches.
GraphsMatchSets ==
  phase \in {"edges", "done"} => {Members(graph) : graph \in DOMAIN Sizes} = reported

\* The edges the explorer serves: no subgraph number is missing, each match is in the file
\* of the subgraph of both its rows, once, and nothing else is.
EdgeFilesExact ==
  /\ phase # "error"
  /\ phase = "done" =>
       /\ DOMAIN edgeFiles = DOMAIN Sizes
       /\ \A graph \in DOMAIN edgeFiles :
            LET edges == edgeFiles[graph]
                inGraph == {pair \in matches : pair[1] \in Members(graph) /\ pair[2] \in Members(graph)}
            IN /\ Len(edges) = Cardinality(inGraph)
               /\ {{edges[i][1], edges[i][2]} : i \in 1 .. Len(edges)} = {{pair[1], pair[2]} : pair \in inGraph}

\* The stride as the handlers see it once its edges are extracted.
Served == [metrics |-> metrics, Rows |-> Rows, Sizes |-> Sizes, edges |-> edgeFiles]

Partners(ts) == {other \in Fingerprint : <<ts, other>> \in matches \/ <<other, ts>> \in matches}

DrawnCompletely(ts) == ts \in DOMAIN Rows => Len(edgeFiles[Rows[ts]]) <= MAX_GRAPH_SIZE

\* The file says that the timeseries is constant: in this stride, or in a later one.
RecordedConstant(ts) ==
  \E i \in 1 .. Len(file) : file[i].Constant /\ file[i].MetricFingerprint = ts

\* From the comparer to the panel: for every timeseries that the file does not call
\* constant the explorer answers with those it was matched with in either order, as many
\* as it shows, and with no others; of a subgraph too large to draw it shows none. One
\* that the file calls constant has no answer, whatever it was matched with.
CorrelatesExact ==
  phase = "done" =>
    \A ts \in Fingerprint :
      LET answer == GetCorrelatedSeries(Served, <<ts>>)
          shown == ~RecordedConstant(ts) /\ DrawnCompletely(ts)
      IN /\ answer.ok
         /\ answer.found \subseteq Partners(ts)
         /\ Cardinality(answer.found) = IF shown THEN AtMost(Cardinality(Partners(ts)), MaxResults) ELSE 0

\* The panels agree: where one leads, the next finds the timeseries again. A timeseries is
\* constant as the file has it, and in the subgraph that its info names, and nothing else
\* is; its correlates are nodes of that subgraph; the edges drawn join nodes, and reach them all. A timeseries that was
\* matched keeps its subgraph when it is called constant, only its history does not show
\* it. Edges to a node that is left out (explorer.go:151) are only drawn of a tree that is
\* larger than can be shown by that one node.
AnswersAgree ==
  phase = "done" =>
    \A ts \in Fingerprint : \E info \in GetMetricInfo(Served, <<ts>>) :
      LET nodes == GetSubgraphNodes(Served, info.SubgraphId)
          edges == GetSubgraphEdges(Served, info.SubgraphId)
          ends == UNION {ToSet(edges.found[i]) : i \in 1 .. Len(edges.found)}
          size == IF info.SubgraphId = -1 THEN 0 ELSE Cardinality(nodes)
      IN /\ info.Constant <=> RecordedConstant(ts)
         /\ GetMetricHistory(<<Served>>, Served, ts) = <<IF info.Constant THEN -1 ELSE size>>
         /\ IF info.SubgraphId = -1
            THEN Partners(ts) = {}
            ELSE /\ {ts} \union GetCorrelatedSeries(Served, <<ts>>).found \subseteq nodes
                 /\ edges.ok /\ ends \subseteq nodes
                 /\ DrawnCompletely(ts) => ends = nodes
                 /\ [Id |-> info.SubgraphId, Size |-> Cardinality(nodes)] \in GetSubgraphs(Served)
                 /\ NodesShown(Served, info.SubgraphId) < Cardinality(nodes) /\ edges.found # <<>> =>
                      Len(edges.found) = MAX_GRAPH_SIZE /\ Cardinality(nodes) = MAX_GRAPH_SIZE + 1
=============================================================================
