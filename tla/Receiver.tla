------------------------------ MODULE Receiver ------------------------------
(***************************************************************************)
(* receiver/receiver.go: the goroutines of the tsProcessor, composed with  *)
(* the parts they share.                                                   *)
(*                                                                         *)
(*   accumulator goroutine   StrideSource, which Accumulator implements    *)
(*   buffer goroutine        takes stride results, opens the result file   *)
(*                           and shifts the buffer into the window         *)
(*   algorithm goroutine     started by the shift: normalises the window   *)
(*                           and has the comparer compare its rows         *)
(*   results goroutine       takes batches of matches, writes them and     *)
(*                           closes the file at the end of the stride      *)
(*                                                                         *)
(* One action is one step of one goroutine between two points where        *)
(* another goroutine can see or change what it uses.                       *)
(*                                                                         *)
(* A definition whose name lengthens that of the one after it is a faulty  *)
(* form of it, there to show that the properties notice; nothing uses it.  *)
(***************************************************************************)
EXTENDS StrideSource, Window, Comparer, Reporter

CONSTANTS
  StrideLength,   \* settings.StrideLength
  MaxRowCount,    \* a bound: timeseries the accumulator gets to know
  MaxGap,         \* a bound: time from the end of a stride to the start of the next
  MayBeConstant   \* a bound: the rows that can be constant over a window

ASSUME ReceiverAssumption ==
  /\ StrideLength \in 1 .. WindowSize
  /\ MaxRowCount \in Nat
  /\ MaxGap \in Nat

VARIABLES
  strideStartTimes,             \* stride number -> start of its first instant
  requestProcessingStartTimes,  \* the stride numbers that have a start of processing
  bufferer,                     \* the buffer goroutine: its place and its locals
  compared,                     \* the pairs the algorithm's loops have passed
  results,                      \* the results goroutine: its place and its locals
  ledger                        \* for the properties only: what became of each stride

receiverVars == <<strideStartTimes, requestProcessingStartTimes, bufferer, compared, results, ledger>>
vars == <<sourceVars, windowVars, comparerVars, files, receiverVars>>

StridesPerWindow == WindowSize \div StrideLength

\* The buffer of a stride result; a cell names the interval of its stride.
Interval(result) == [start |-> result.start, end |-> result.end]
BufferOfOneMore(result) == [i \in 1 .. result.rows + 1 |-> [c \in 1 .. StrideLength |-> Interval(result)]]
BufferOf(result) == [i \in 1 .. result.rows |-> [c \in 1 .. StrideLength |-> Interval(result)]]

NoResult == [rows |-> 0, start |-> NoTime, end |-> NoTime]
Waiting == [at |-> "recv", result |-> NoResult, stride |-> 0]
NoBatch == [pairs |-> {}, stride |-> 0]
WaitingForBatch == [at |-> "recv", batch |-> NoBatch]
NotRun == [outcome |-> "none", start |-> NoTime, end |-> NoTime, matches |-> {}]

Init ==
  /\ SourceInit /\ WindowInit /\ ComparerInit /\ ReporterInit
  /\ strideStartTimes = [s \in Strides |-> NoTime]
  /\ requestProcessingStartTimes = {}
  /\ bufferer = Waiting
  /\ compared = {}
  /\ results = WaitingForBatch
  /\ ledger = [s \in Strides |-> NotRun]

-----------------------------------------------------------------------------
(* The accumulator goroutine *)

Accumulate ==
  /\ Collect \/ Publish
  /\ rows' <= MaxRowCount
  /\ strideStart' <= strideStart + Span + MaxGap
  /\ UNCHANGED <<windowVars, comparerVars, files, receiverVars>>

-----------------------------------------------------------------------------
(* The buffer goroutine *)

\* It numbers the result by the strides the window has counted, and remembers when the
\* stride starts; a file is created as soon as the window can be full.
TakeStride ==
  LET result == Head(channel)
      stride == StrideCounter + 1
  IN  /\ bufferer.at = "recv"
      /\ Take
      /\ strideStartTimes' = [strideStartTimes EXCEPT ![stride] = result.start]
      /\ bufferer' = [at |-> IF stride < StridesPerWindow THEN "shift" ELSE "initialize",
                      result |-> result, stride |-> stride]
      /\ UNCHANGED <<windowVars, comparerVars, files, requestProcessingStartTimes, compared, results, ledger>>

\* The number of the stride with which the window of the given stride begins.
FirstStrideOffByOne(stride) == stride - StridesPerWindow + 2
FirstStride(stride) == stride - StridesPerWindow + 1

OpenFile ==
  /\ bufferer.at = "initialize"
  /\ InitializeStride(bufferer.stride, strideStartTimes[FirstStride(bufferer.stride)], bufferer.result.end)
  /\ bufferer' = [bufferer EXCEPT !.at = "shift"]
  /\ UNCHANGED <<sourceVars, windowVars, comparerVars, strideStartTimes, requestProcessingStartTimes,
                 compared, results, ledger>>

\* The result is dropped: the window is busy, or there is nothing to shift.
DropStride ==
  /\ bufferer.at = "shift"
  /\ ShiftBusy \/ ShiftNothing(BufferOf(bufferer.result))
  /\ bufferer' = Waiting
  /\ UNCHANGED <<sourceVars, comparerVars, files, strideStartTimes, requestProcessingStartTimes,
                 compared, results, ledger>>

\* The window is not full yet.
ShiftStride ==
  /\ bufferer.at = "shift"
  /\ ShiftOnly(BufferOf(bufferer.result))
  /\ bufferer' = Waiting
  /\ UNCHANGED <<sourceVars, comparerVars, files, strideStartTimes, requestProcessingStartTimes,
                 compared, results, ledger>>

\* The shift fills the window: the algorithm goroutine starts while this one goes on.
ShiftAndRun ==
  /\ bufferer.at = "shift"
  /\ ShiftAndStart(BufferOf(bufferer.result))
  /\ bufferer' = [bufferer EXCEPT !.at = "stamp"]
  /\ compared' = {}
  /\ ledger' = [ledger EXCEPT ![bufferer.stride] =
                  [outcome |-> "running",
                   start |-> buffers'[1][1].start,
                   end |-> buffers'[1][WindowSize].end,
                   matches |-> {}]]
  /\ UNCHANGED <<sourceVars, comparerVars, files, strideStartTimes, requestProcessingStartTimes, results>>

Stamp ==
  /\ bufferer.at = "stamp"
  /\ requestProcessingStartTimes' = requestProcessingStartTimes \union {bufferer.stride}
  /\ bufferer' = Waiting
  /\ UNCHANGED <<sourceVars, windowVars, comparerVars, files, strideStartTimes, compared, results, ledger>>

BufferStep == TakeStride \/ OpenFile \/ DropStride \/ ShiftStride \/ ShiftAndRun \/ Stamp

-----------------------------------------------------------------------------
(* The algorithm goroutine *)

othersOfAlgorithm == <<sourceVars, files, strideStartTimes, requestProcessingStartTimes, bufferer, results>>

Normalize ==
  /\ \E constant \in {FALSE, (nextRow \in MayBeConstant)} : NormalizeRow(constant)
  /\ UNCHANGED <<comparerVars, compared, ledger, othersOfAlgorithm>>

StartComparing ==
  /\ AlgorithmMoves("start", "compare")
  /\ StartStride(normalized, ConstantRows, StrideCounter)
  /\ UNCHANGED <<compared, ledger, othersOfAlgorithm>>

\* One call of Compare for a pair the loops have not passed yet, in any order.  A pair
\* that the filters (PAA, SVD and buckets) exclude is never compared.
ComparePair ==
  /\ algorithm = "compare"
  /\ \E pair \in Pairs(Len(normalized)) \ compared :
       /\ compared' = compared \union {pair}
       /\ \/ /\ SkipPair(pair) \/ \E correlated, far \in BOOLEAN : NoMatch(pair, correlated, far)
             /\ UNCHANGED ledger
          \/ /\ Match(pair)
             /\ ledger' = [ledger EXCEPT ![StrideCounter].matches = @ \union {pair}]
  /\ UNCHANGED <<windowVars, othersOfAlgorithm>>

\* The loops are done; a send of what is left, if anything, and the end marker.
StopComparing ==
  /\ \/ resultsBuffer # {} /\ AlgorithmMoves("compare", "leftover")
     \/ resultsBuffer = {} /\ AlgorithmMoves("compare", "end")
  /\ UNCHANGED <<comparerVars, compared, ledger, othersOfAlgorithm>>

SendRest ==
  /\ AlgorithmMoves("leftover", "end")
  /\ SendLeftover(StrideCounter)
  /\ UNCHANGED <<compared, ledger, othersOfAlgorithm>>

FinishStrideSilently ==
  /\ AlgorithmMoves("end", "unlock")
  /\ ledger' = [ledger EXCEPT ![StrideCounter].outcome = "finished"]
  /\ UNCHANGED <<comparerVars, compared, othersOfAlgorithm>>
FinishStride ==
  /\ AlgorithmMoves("end", "unlock")
  /\ SendEnd(StrideCounter)
  /\ ledger' = [ledger EXCEPT ![StrideCounter].outcome = "finished"]
  /\ UNCHANGED <<compared, othersOfAlgorithm>>

\* An error of the algorithm (SVD, buckets, a comparison): StopStride is not called.
Fail ==
  /\ AlgorithmMoves("compare", "unlock")
  /\ ledger' = [ledger EXCEPT ![StrideCounter].outcome = "failed"]
  /\ UNCHANGED <<comparerVars, compared, othersOfAlgorithm>>

Unlock ==
  /\ AlgorithmEnds
  /\ UNCHANGED <<comparerVars, compared, ledger, othersOfAlgorithm>>

AlgorithmStep ==
  \/ Normalize \/ StartComparing \/ ComparePair \/ StopComparing
  \/ SendRest \/ FinishStride \/ Fail \/ Unlock

-----------------------------------------------------------------------------
(* The results goroutine *)

othersOfResults ==
  <<sourceVars, windowVars, strideStartTimes, requestProcessingStartTimes, bufferer, compared, ledger>>

TakeResult ==
  LET batch == Head(resultsChannel)
  IN  /\ results.at = "recv"
      /\ TakeBatch
      /\ results' = [at |-> IF batch.pairs = {} THEN "ids" ELSE "pairs", batch |-> batch]
      /\ UNCHANGED <<files, othersOfResults>>

WritePairs ==
  /\ results.at = "pairs"
  /\ AddCorrelatedPairs(results.batch.stride, results.batch.pairs)
  /\ results' = WaitingForBatch
  /\ UNCHANGED <<comparerVars, othersOfResults>>

\* The timeseries are those the accumulator knows by now.
WriteIds ==
  /\ results.at = "ids"
  /\ RecordTimeseriesIds(results.batch.stride, rows)
  /\ results' = [results EXCEPT !.at = "constants"]
  /\ UNCHANGED <<comparerVars, othersOfResults>>

\* The constant rows are those of the window by now.
WriteConstants ==
  /\ results.at = "constants"
  /\ AddConstantRows(results.batch.stride, {i \in DOMAIN ConstantRows : ConstantRows[i]})
  /\ results' = [results EXCEPT !.at = "flush"]
  /\ UNCHANGED <<comparerVars, othersOfResults>>

CloseFile ==
  /\ results.at = "flush"
  /\ Flush(results.batch.stride)
  /\ results' = WaitingForBatch
  /\ UNCHANGED <<comparerVars, othersOfResults>>

ResultsStep == TakeResult \/ WritePairs \/ WriteIds \/ WriteConstants \/ CloseFile

-----------------------------------------------------------------------------

Next == Accumulate \/ BufferStep \/ AlgorithmStep \/ ResultsStep

\* The three goroutines of the receiver are never starved; nothing makes samples come.
Fairness == WF_vars(BufferStep) /\ WF_vars(AlgorithmStep) /\ WF_vars(ResultsStep)

Spec == Init /\ [][Next]_vars /\ Fairness

-----------------------------------------------------------------------------
(* Properties *)

\* The batches on their way from the comparer to a file.
BatchesUnderWay ==
  {resultsChannel[i] : i \in DOMAIN resultsChannel} \union
  (IF results.at = "recv" THEN {} ELSE {results.batch})

\* Row ids never run ahead of the accumulator's Tsids, in which the results goroutine
\* looks them up without synchronisation (receiver.go:263, 265, 277).
RowIdsResolve ==
  /\ Len(buffers) <= rows /\ Len(ConstantRows) <= rows
  /\ \A b \in BatchesUnderWay : b.pairs \subseteq Pairs(rows)

\* Nothing is written to a closed file: every batch under way belongs to a stride whose
\* file is still open, or could not be created.
NoWriteAfterClose == \A b \in BatchesUnderWay : files[b.stride].writer # "closed"

\* A file holds only matches of its own stride, and a closed one all of them, with the
\* name of every row they mention.
FilesHoldTheirMatches ==
  \A s \in Strides :
    /\ files[s].pairs \subseteq ledger[s].matches
    /\ files[s].writer = "closed" =>
         /\ ledger[s].outcome = "finished"
         /\ files[s].pairs = ledger[s].matches
         /\ files[s].pairs \subseteq Pairs(files[s].ids)

\* A file is labelled with the instant at which its window begins, even if strides were
\* dropped for a busy window before it (receiver.go:205-217).  It takes a window of whole
\* strides, which nothing enforces, and of more than one, or the label goes stale like
\* its end (see FilesEndWithTheirWindow).
FilesBeginWithTheirWindow ==
  WindowSize % StrideLength = 0 /\ StridesPerWindow > 1 =>
    \A s \in Strides : files[s].writer = "closed" => files[s].start = ledger[s].start

\* There is one file per window (README.md:17, receiver.go:216), and its label gives the
\* instant at which that window ends.
FilesEndWithTheirWindow ==
  \A s \in Strides : files[s].writer = "closed" => files[s].end = ledger[s].end

\* The reporter's maps, which have no lock, are never written by the buffer goroutine
\* while the results goroutine uses them (receiver.go:243).
OneReporterGoroutine ==
  ~ /\ bufferer.at = "initialize" /\ ~HasWriter(bufferer.stride)
    /\ results.at # "recv"

\* What a reader of the directory sees of a file.
ContentOf(f) ==
  CASE f.writer = "none"   -> "none"
    [] f.writer = "closed" -> "complete"
    [] OTHER               -> IF f.pairs = {} /\ f.ids = 0 /\ f.constants = {} THEN "empty" ELSE "partial"

RF == INSTANCE ResultFiles WITH content <- [s \in Strides |-> ContentOf(files[s])]

\* For all that three goroutines open, write and close them, and with windows refused and
\* algorithms that fail, the result files come, grow and end in the order of their strides:
\* this is what the explorer goes by when it tells a file that is being written from one
\* that never will be (data_processor.go:208).
ImplementsResultFiles == RF!Spec

\* A stride whose window the algorithm takes on ends: its file is closed, unless it
\* could not be created or the algorithm failed.
StrideEnds ==
  \A s \in Strides :
    ledger[s].outcome = "running" ~>
      \/ ledger[s].outcome = "failed"
      \/ ledger[s].outcome = "finished" /\ files[s].writer \in {"closed", "none"}

\* Whatever the algorithm does, it gives the window back.
WindowReleased == windowLocked ~> ~windowLocked
=============================================================================
