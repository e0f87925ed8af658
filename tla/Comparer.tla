------------------------------ MODULE Comparer ------------------------------
(***************************************************************************)
(* lib/comparisons: the InProcessComparer and its BaseComparer.  Between   *)
(* StartStride and StopStride the algorithm asks for comparisons of rows;  *)
(* matches are collected and sent to resultsChannel in batches, an empty   *)
(* batch being the end of the stride.                                      *)
(*                                                                         *)
(* The numerics are two answers given to Compare: whether the Pearson      *)
(* correlation of the two rows reaches the threshold, and whether their    *)
(* reduced vectors (PAA) are further apart than Epsilon2.  The reduced     *)
(* vectors of correlated rows never are (settings.go:70), when the window  *)
(* divides into EuclidDimensions segments and leaving out vectors that are *)
(* constant by a hair (paa.go:79); those of other rows may be.             *)
(*                                                                         *)
(* A definition whose name lengthens that of the one after it is a faulty  *)
(* form of it, there to show that the properties notice; nothing uses it.  *)
(***************************************************************************)
EXTENDS Integers, Sequences, FiniteSets

CONSTANT BufferSize   \* BUFFER_SIZE: matches per batch

ASSUME ComparerAssumption == BufferSize \in Nat \ {0}

VARIABLES
  comparing,       \* the comparer's strideCounter
  matrix,          \* normalizedMatrix, its rows
  constants,       \* constantRows
  paa2,            \* row -> the row its reduced vector was computed from
  resultsBuffer,   \* matches not sent yet
  resultsChannel   \* a channel of capacity 1

comparerVars == <<comparing, matrix, constants, paa2, resultsBuffer, resultsChannel>>

Pairs(n) == {p \in (1 .. n) \X (1 .. n) : p[1] < p[2]}

ComparerInit ==
  /\ comparing = -1
  /\ matrix = <<>>
  /\ constants = <<>>
  /\ paa2 = [i \in {} |-> <<>>]
  /\ resultsBuffer = {}
  /\ resultsChannel = <<>>

-----------------------------------------------------------------------------
(* StartStride *)

RepeatedBefore(stride) == stride < comparing
Repeated(stride) == stride <= comparing

\* The error is logged by the caller, which goes on.
RejectStride(stride) ==
  /\ Repeated(stride)
  /\ UNCHANGED comparerVars

\* The reduced vectors of an earlier stride stay where they are.
BeginStrideKeepBuffer(rows, constantRows, stride) ==
  /\ ~Repeated(stride)
  /\ comparing' = stride
  /\ matrix' = rows
  /\ constants' = constantRows
  /\ UNCHANGED <<paa2, resultsBuffer, resultsChannel>>
BeginStride(rows, constantRows, stride) ==
  /\ ~Repeated(stride)
  /\ comparing' = stride
  /\ matrix' = rows
  /\ constants' = constantRows
  /\ resultsBuffer' = {}
  /\ UNCHANGED <<paa2, resultsChannel>>

StartStride(rows, constantRows, stride) ==
  RejectStride(stride) \/ BeginStride(rows, constantRows, stride)

-----------------------------------------------------------------------------
(* Compare *)

IsConstantRow(i) == i <= Len(constants) /\ constants[i]

\* Rows that are constant over the window are not compared.
Skipped(pair) == IsConstantRow(pair[1]) \/ IsConstantRow(pair[2])

\* The reduced vectors once those missing for the pair are computed.
Reduced(pair) ==
  [i \in DOMAIN paa2 \union {pair[1], pair[2]} |-> IF i \in DOMAIN paa2 THEN paa2[i] ELSE matrix[i]]

UpToDate(pair) == \A i \in {pair[1], pair[2]} : Reduced(pair)[i] = matrix[i]

\* The answers the numerics can give for a pair.
CanAnswer(pair, correlated, far) == correlated /\ far => ~UpToDate(pair)

SkipPair(pair) ==
  /\ Skipped(pair)
  /\ UNCHANGED comparerVars

NoMatch(pair, correlated, far) ==
  /\ ~Skipped(pair)
  /\ CanAnswer(pair, correlated, far)
  /\ ~correlated \/ far
  /\ paa2' = Reduced(pair)
  /\ UNCHANGED <<comparing, matrix, constants, resultsBuffer, resultsChannel>>

Batch(pairs) == [pairs |-> pairs, stride |-> comparing]

\* A match is kept until there is a full batch, whose send waits for room.
MatchKeepingBatch(pair) ==
  LET batch == resultsBuffer \union {pair}
  IN  /\ ~Skipped(pair)
      /\ paa2' = Reduced(pair)
      /\ resultsBuffer' = batch
      /\ \/ /\ Cardinality(batch) < BufferSize
            /\ UNCHANGED resultsChannel
         \/ /\ Cardinality(batch) >= BufferSize
            /\ resultsChannel = <<>>
            /\ resultsChannel' = <<Batch(batch)>>
      /\ UNCHANGED <<comparing, matrix, constants>>
Match(pair) ==
  LET batch == resultsBuffer \union {pair}
  IN  /\ ~Skipped(pair)
      /\ paa2' = Reduced(pair)
      /\ \/ /\ Cardinality(batch) < BufferSize
            /\ resultsBuffer' = batch
            /\ UNCHANGED resultsChannel
         \/ /\ Cardinality(batch) >= BufferSize
            /\ resultsChannel = <<>>
            /\ resultsChannel' = <<Batch(batch)>>
            /\ resultsBuffer' = {}
      /\ UNCHANGED <<comparing, matrix, constants>>

-----------------------------------------------------------------------------
(* StopStride: two sends.  It fails for a stride other than the current one. *)

SendLeftover(stride) ==
  /\ stride = comparing
  /\ resultsBuffer # {}
  /\ resultsChannel = <<>>
  /\ resultsChannel' = <<Batch(resultsBuffer)>>
  /\ UNCHANGED <<comparing, matrix, constants, paa2, resultsBuffer>>

SendEnd(stride) ==
  /\ stride = comparing
  /\ resultsChannel = <<>>
  /\ resultsChannel' = <<Batch({})>>
  /\ UNCHANGED <<comparing, matrix, constants, paa2, resultsBuffer>>

\* The reader takes a batch.
TakeBatch ==
  /\ resultsChannel # <<>>
  /\ resultsChannel' = Tail(resultsChannel)
  /\ UNCHANGED <<comparing, matrix, constants, paa2, resultsBuffer>>
=============================================================================
