------------------------------ MODULE Reporter ------------------------------
(***************************************************************************)
(* lib/reporter/parquet_reporter.go: one result file per stride number,    *)
(* created by InitializeStride, filled by the Add and Record operations    *)
(* and closed by Flush.  A file is its label (the times in its name) and   *)
(* what was written to it; what the parquet writer does with it is outside *)
(* the model.                                                              *)
(*                                                                         *)
(* A definition whose name lengthens that of the one after it is a faulty  *)
(* form of it, there to show that the properties notice; nothing uses it.  *)
(***************************************************************************)
EXTENDS Integers

CONSTANTS
  Strides,   \* the stride numbers
  NoTime     \* a label not given yet

VARIABLE files   \* strideWriters, strideStartTimes, strideEndTimes, and what the writers wrote

Unopened == [writer |-> "none", start |-> NoTime, end |-> NoTime,
             pairs |-> {}, ids |-> 0, constants |-> {}]

ReporterInit == files = [s \in Strides |-> Unopened]

HasWriter(s) == files[s].writer # "none"

InitializeStrideAnew(s, start, end) ==
  \E writer \in {"open", "none"} :
    files' = [files EXCEPT ![s] = [Unopened EXCEPT !.start = start, !.end = end, !.writer = writer]]
\* A stride that has a writer keeps it, and its label; otherwise the label is set and
\* the file created, unless that fails.
InitializeStride(s, start, end) ==
  \/ /\ HasWriter(s)
     /\ UNCHANGED files
  \/ /\ ~HasWriter(s)
     /\ \E writer \in {"open", "none"} :
          files' = [files EXCEPT ![s] = [@ EXCEPT !.start = start, !.end = end, !.writer = writer]]

\* Writing without a writer is an error that the caller logs.
Written(s, file) == files' = IF HasWriter(s) THEN [files EXCEPT ![s] = file] ELSE files

AddCorrelatedPairsFlushing(s, pairs) ==
  Written(s, [files[s] EXCEPT !.pairs = @ \union pairs, !.writer = "closed"])
AddCorrelatedPairs(s, pairs) == Written(s, [files[s] EXCEPT !.pairs = @ \union pairs])
RecordTimeseriesIds(s, n) == Written(s, [files[s] EXCEPT !.ids = n])
AddConstantRows(s, rows) == Written(s, [files[s] EXCEPT !.constants = rows])
Flush(s) == Written(s, [files[s] EXCEPT !.writer = "closed"])
=============================================================================
