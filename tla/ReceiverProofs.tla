---------------------------- MODULE ReceiverProofs ---------------------------
(***************************************************************************)
(* The goroutines of the receiver together, for any timestamps, window,    *)
(* stride, number of rows and size of a batch: row ids resolve, nothing is *)
(* written to a closed file, a file holds exactly its stride's matches and *)
(* begins with its window, and a reader of the directory sees files come,  *)
(* grow and end in the order of their strides (ResultFiles).               *)
(*                                                                         *)
(* Stride numbers are all those the counter can take.                      *)
(***************************************************************************)
EXTENDS Receiver, SequenceTheorems, TLAPS

UnboundedStrides == Strides = Nat \ {0}

Busy == algorithm \in {"compare", "leftover", "end"}
Closing == results.at \in {"ids", "constants", "flush"}

AnySeq(s) == s \in Seq({s[i] : i \in DOMAIN s})

\* The batches under way of a stride, as pairs; one that is the end of a stride.
UnderWay(s) == UNION {b.pairs : b \in {c \in BatchesUnderWay : c.stride = s}}
Ended(s) == files[s].writer = "closed" \/ \E b \in BatchesUnderWay : b.pairs = {} /\ b.stride = s

-----------------------------------------------------------------------------
(* The invariant *)

\* No part has more rows than the one it gets them from, back to the accumulator.
RowsKnown ==
  /\ rows \in Nat
  /\ AnySeq(channel) /\ Len(channel) <= 1
  /\ \A i \in DOMAIN channel : channel[i].rows \in 0 .. rows
  /\ bufferer = [at |-> bufferer.at, result |-> bufferer.result, stride |-> bufferer.stride]
  /\ bufferer.result.rows \in 0 .. rows
  /\ AnySeq(buffers) /\ Len(buffers) <= rows
  /\ AnySeq(normalized) /\ Len(normalized) <= Len(buffers)
  /\ AnySeq(ConstantRows) /\ Len(ConstantRows) <= Len(buffers)

\* The three stride numbers: the window's, the comparer's, and that of the stride in hand.
StrideNumbersAgree ==
  /\ StrideCounter \in Nat
  /\ algorithm \in {"idle", "normalize", "start", "unlock"} \/ Busy
  /\ windowLocked <=> algorithm # "idle"
  /\ algorithm # "idle" => StrideCounter > 0
  /\ algorithm = "normalize" => nextRow \in Nat \ {0}
  /\ comparing \in {-1} \union 1 .. StrideCounter
  /\ algorithm \in {"normalize", "start"} => comparing < StrideCounter
  /\ Busy => comparing = StrideCounter
  /\ bufferer.at \in {"initialize", "shift"} => bufferer.stride = StrideCounter + 1

\* Batches travel in the order of their strides, and an end marker is the last of its own.
BatchesInOrder ==
  /\ AnySeq(resultsChannel) /\ Len(resultsChannel) <= 1
  /\ results = [at |-> results.at, batch |-> results.batch]
  /\ results.at \in {"recv", "pairs"} \/ Closing
  /\ results.at = "pairs" => results.batch.pairs # {}
  /\ Closing => results.batch.pairs = {}
  /\ \A b \in BatchesUnderWay : b.stride \in 1 .. comparing
  /\ \A i \in DOMAIN resultsChannel :
       /\ results.at = "pairs" => results.batch.stride <= resultsChannel[i].stride
       /\ Closing => results.batch.stride < resultsChannel[i].stride
  /\ algorithm = "leftover" => resultsBuffer # {}

\* A stride ends once: what has ended is finished, is not compared any more, and when its file
\* is closed there are no batches of it.
EndedIsOver ==
  /\ \A s \in Strides : Ended(s) => s <= comparing /\ (Busy => s # comparing) /\ ledger[s].outcome = "finished"
  /\ \A b \in BatchesUnderWay : files[b.stride].writer # "closed"

IsFile(f) == DOMAIN f = {"writer", "start", "end", "pairs", "ids", "constants"}
IsEntry(e) == DOMAIN e = {"outcome", "start", "end", "matches"}

RecordsAreRecords ==
  /\ DOMAIN files = Strides /\ \A s \in Strides : IsFile(files[s])
  /\ DOMAIN ledger = Strides /\ \A s \in Strides : IsEntry(ledger[s])

\* No match from nowhere: those in a file, under way or in the comparer's buffer were found.
MatchesKnown ==
  /\ \A s \in Strides : ledger[s].matches \subseteq Pairs(rows) /\ files[s].pairs \subseteq ledger[s].matches
  /\ \A b \in BatchesUnderWay : b.pairs \subseteq ledger[b.stride].matches
  /\ algorithm \in {"compare", "leftover"} => resultsBuffer \subseteq ledger[comparing].matches
  /\ \A s \in Strides : s > comparing => files[s].pairs = {} /\ ledger[s].matches = {}
  /\ algorithm \notin {"idle", "unlock"} => ledger[StrideCounter].outcome = "running"

\* The matches of stride s that are still on their way to a file.
OnTheWay(s) == UnderWay(s) \union (IF s = comparing /\ algorithm \in {"compare", "leftover"} THEN resultsBuffer ELSE {})

\* No match is lost: unless there is no file or the algorithm failed.
MatchesAccounted ==
  \A s \in Strides :
    s <= comparing /\ HasWriter(s) /\ ledger[s].outcome # "failed" =>
      ledger[s].matches \subseteq files[s].pairs \union OnTheWay(s)

\* Once the timeseries ids of a stride are written, they cover its matches.
IdsCover ==
  /\ \A s \in Strides : files[s].writer = "closed" => ledger[s].matches \subseteq Pairs(files[s].ids)
  /\ results.at \in {"constants", "flush"} /\ HasWriter(results.batch.stride) =>
       ledger[results.batch.stride].matches \subseteq Pairs(files[results.batch.stride].ids)

ReceiverInv ==
  /\ RowsKnown
  /\ StrideNumbersAgree
  /\ BatchesInOrder
  /\ EndedIsOver
  /\ RecordsAreRecords
  /\ MatchesKnown
  /\ MatchesAccounted
  /\ IdsCover

-----------------------------------------------------------------------------
(* Sequences of anything *)

LEMMA AnySeqFacts ==
  ASSUME NEW s, AnySeq(s)
  PROVE  Len(s) \in Nat /\ DOMAIN s = 1 .. Len(s)
  BY DEF AnySeq

LEMMA SeqIsAnySeq ==
  ASSUME NEW S, NEW s \in Seq(S)
  PROVE  AnySeq(s)
<1>1. Len(s) \in Nat /\ DOMAIN s = 1 .. Len(s) /\ s = [i \in 1 .. Len(s) |-> s[i]]
  OBVIOUS
<1>2. s \in [1 .. Len(s) -> {s[i] : i \in DOMAIN s}]
  BY <1>1
<1> QED
  BY <1>1, <1>2, SeqDef DEF AnySeq

LEMMA ShortSeqs ==
  /\ AnySeq(<<>>) /\ Len(<<>>) = 0 /\ DOMAIN <<>> = {}
  /\ \A e : AnySeq(<<e>>) /\ Len(<<e>>) = 1 /\ DOMAIN <<e>> = {1} /\ <<e>>[1] = e
<1>1. <<>> \in Seq({})
  OBVIOUS
<1>2. AnySeq(<<>>) /\ Len(<<>>) = 0 /\ DOMAIN <<>> = {}
  <2>1. AnySeq(<<>>)
    BY <1>1, SeqIsAnySeq
  <2>2. Len(<<>>) = 0
    BY EmptySeq
  <2> QED
    BY <2>1, <2>2
<1>3. ASSUME NEW e
      PROVE  AnySeq(<<e>>) /\ Len(<<e>>) = 1 /\ DOMAIN <<e>> = {1} /\ <<e>>[1] = e
  <2>1. <<e>> \in Seq({e})
    OBVIOUS
  <2>2. Len(<<e>>) = 1 /\ <<e>>[1] = e
    OBVIOUS
  <2>3. DOMAIN <<e>> = {1}
    OBVIOUS
  <2>4. AnySeq(<<e>>)
    BY <2>1, SeqIsAnySeq
  <2> QED
    BY <2>2, <2>3, <2>4
<1> QED
  BY <1>2, <1>3

LEMMA AppendIsAnySeq ==
  ASSUME NEW s, NEW e, AnySeq(s)
  PROVE  AnySeq(Append(s, e)) /\ Len(Append(s, e)) = Len(s) + 1
<1> DEFINE S == {s[i] : i \in DOMAIN s} \union {e}
<1>1. s \in Seq({s[i] : i \in DOMAIN s})
  BY DEF AnySeq
<1>2. s \in Seq(S)
  BY <1>1, SeqDef
<1>3. e \in S
  OBVIOUS
<1> HIDE DEF S
<1>4. Append(s, e) \in Seq(S) /\ Len(Append(s, e)) = Len(s) + 1
  BY <1>2, <1>3, AppendProperties
<1> QED
  BY <1>4, SeqIsAnySeq

\* Put keeps the length, unless it appends.
LEMMA PutIsAnySeq ==
  ASSUME NEW s, NEW v, NEW i \in Nat \ {0}, AnySeq(s)
  PROVE  AnySeq(Put(s, i, v)) /\ Len(Put(s, i, v)) = IF i <= Len(s) THEN Len(s) ELSE Len(s) + 1
<1>1. CASE i <= Len(s)
  <2> DEFINE S == {s[k] : k \in DOMAIN s} \union {v}
             t == [s EXCEPT ![i] = v]
  <2>1. /\ Len(s) \in Nat /\ DOMAIN t = 1 .. Len(s) /\ t = [k \in 1 .. Len(s) |-> t[k]]
        /\ \A k \in 1 .. Len(s) : t[k] \in S
    BY <1>1, AnySeqFacts
  <2> HIDE DEF S, t
  <2>2. t \in [1 .. Len(s) -> S]
    BY <2>1
  <2>3. t \in Seq(S)
    BY <2>1, <2>2, SeqDef
  <2>4. AnySeq(t)
    BY <2>3, SeqIsAnySeq
  <2>5. Len(t) = Len(s)
    BY <2>1, <2>3
  <2> QED
    BY <1>1, <2>4, <2>5 DEF Put, t
<1>2. CASE ~(i <= Len(s))
  BY <1>2, AppendIsAnySeq DEF Put
<1> QED
  BY <1>1, <1>2

LEMMA FunctionIsAnySeq ==
  ASSUME NEW n \in Nat, NEW f, f = [i \in 1 .. n |-> f[i]]
  PROVE  AnySeq(f) /\ Len(f) = n
<1>1. f \in [1 .. n -> {f[i] : i \in 1 .. n}]
  OBVIOUS
<1>2. f \in Seq({f[i] : i \in 1 .. n})
  BY <1>1, SeqDef
<1> QED
  BY <1>2, SeqIsAnySeq

\* A sequence of at most one element: what comes after taking it.
LEMMA TakeFromOne ==
  ASSUME NEW s, AnySeq(s), Len(s) <= 1, s # <<>>
  PROVE  /\ s = <<s[1]>> /\ Head(s) = s[1] /\ Tail(s) = <<>> /\ DOMAIN s = {1}
<1> DEFINE S == {s[i] : i \in DOMAIN s}
<1>1. s \in Seq(S)
  BY DEF AnySeq
<1>2. Len(s) = 1
  BY <1>1, AnySeqFacts, EmptySeq
<1> HIDE DEF S
<1>3. s[1] \in S /\ DOMAIN s = {1} /\ Head(s) = s[1]
  BY <1>1, <1>2
<1>4. <<s[1]>> \in Seq(S) /\ Len(<<s[1]>>) = 1
  BY <1>3
<1>5. s = <<s[1]>>
  BY <1>1, <1>2, <1>4, SeqEqual
<1>6. Tail(s) \in Seq(S) /\ Len(Tail(s)) = 0
  BY <1>1, <1>2
<1>7. Tail(s) = <<>>
  BY <1>6, EmptySeq
<1> QED
  BY <1>3, <1>5, <1>7

LEMMA MoreRowsMorePairs ==
  ASSUME NEW m \in Nat, NEW n \in Nat, m <= n
  PROVE  Pairs(m) \subseteq Pairs(n)
  BY DEF Pairs

-----------------------------------------------------------------------------
(* Rows and stride numbers *)

LEMMA RowsFacts ==
  ASSUME RowsKnown
  PROVE  /\ rows \in Nat /\ Len(buffers) \in Nat /\ Len(normalized) \in Nat /\ Len(ConstantRows) \in Nat
         /\ bufferer.result.rows \in Nat /\ bufferer.result.rows <= rows
         /\ Len(buffers) <= rows /\ Len(normalized) <= rows /\ Len(ConstantRows) <= rows
  BY AnySeqFacts DEF RowsKnown

\* An accepted buffer has a row for each of the window's, and the window has its rows afterwards.
LEMMA ShiftedRows ==
  ASSUME NEW result, result.rows \in Nat, AnySeq(buffers), Accepted(BufferOf(result))
  PROVE  /\ AnySeq(Shifted(BufferOf(result))) /\ Len(Shifted(BufferOf(result))) = result.rows
         /\ Len(buffers) <= result.rows
<1> DEFINE buffer == BufferOf(result)
<1>1. AnySeq(buffer) /\ Len(buffer) = result.rows /\ DOMAIN buffer = 1 .. result.rows
  <2>1. buffer = [i \in 1 .. result.rows |-> buffer[i]]
    BY DEF BufferOf
  <2> HIDE DEF buffer
  <2> QED
    BY <2>1, FunctionIsAnySeq
<1>2. Len(buffers) <= Len(buffer)
  BY <1>1, AnySeqFacts DEF Accepted, Refused
<1> HIDE DEF buffer
<1>3. CASE buffers = <<>>
  BY <1>1, <1>2, <1>3 DEF Shifted, buffer
<1>4. CASE buffers # <<>>
  <2>1. /\ DOMAIN Shifted(buffer) = 1 .. result.rows
        /\ Shifted(buffer) = [i \in 1 .. result.rows |-> Shifted(buffer)[i]]
    BY <1>1, <1>4 DEF Shifted
  <2>2. AnySeq(Shifted(buffer)) /\ Len(Shifted(buffer)) = result.rows
    BY <2>1, FunctionIsAnySeq
  <2> QED
    BY <1>1, <1>2, <2>2 DEF buffer
<1> QED
  BY <1>3, <1>4

LEMMA RowsStep ==
  ASSUME ReceiverInv, Next
  PROVE  RowsKnown' /\ rows' \in Nat /\ rows <= rows'
<1>1. RowsKnown
  BY DEF ReceiverInv
<1>2. CASE Accumulate
  <2>1. rows' \in {rows, rows + 1} /\ UNCHANGED <<bufferer, buffers, normalized, ConstantRows>>
    BY <1>2 DEF Accumulate, Collect, Publish, windowVars, receiverVars
  <2>2. rows' \in Nat /\ rows <= rows'
    BY <1>1, <2>1, RowsFacts
  <2>3. AnySeq(channel') /\ Len(channel') <= 1 /\ \A i \in DOMAIN channel' : channel'[i].rows \in 0 .. rows'
    <3>1. CASE Collect
      BY <1>1, <2>2, <3>1 DEF Collect, RowsKnown
    <3>2. CASE Publish
      BY <1>1, <2>1, <2>2, <3>2, ShortSeqs DEF Publish, RowsKnown
    <3> QED
      BY <1>2, <3>1, <3>2 DEF Accumulate
  <2>4. Len(buffers) <= rows'
    BY <1>1, <2>2, RowsFacts
  <2> QED
    BY <1>1, <2>1, <2>2, <2>3, <2>4 DEF RowsKnown
<1>3. CASE TakeStride
  <2>1. /\ UNCHANGED <<rows, buffers, normalized, ConstantRows>> /\ channel # <<>> /\ channel' = Tail(channel)
        /\ bufferer' = [at |-> IF StrideCounter + 1 < StridesPerWindow THEN "shift" ELSE "initialize",
                        result |-> Head(channel), stride |-> StrideCounter + 1]
    BY <1>3 DEF TakeStride, Take, windowVars
  <2>2. Head(channel) = channel[1] /\ Tail(channel) = <<>> /\ channel[1].rows \in 0 .. rows
    BY <1>1, <2>1, TakeFromOne DEF RowsKnown
  <2>3. AnySeq(channel') /\ Len(channel') <= 1 /\ DOMAIN channel' = {}
    <3>1. channel' = <<>>
      BY <2>1, <2>2
    <3>2. Len(channel') = 0 /\ DOMAIN channel' = {}
      BY <3>1, ShortSeqs
    <3>3. AnySeq(channel')
      BY <3>1, ShortSeqs
    <3> QED
      BY <3>2, <3>3
  <2>4. /\ bufferer' = [at |-> bufferer'.at, result |-> bufferer'.result, stride |-> bufferer'.stride]
        /\ bufferer'.result.rows \in 0 .. rows
    BY <2>1, <2>2
  <2> QED
    BY <1>1, <2>1, <2>3, <2>4 DEF RowsKnown
<1>4. CASE OpenFile \/ Stamp \/ DropStride
  <2>1. /\ UNCHANGED <<rows, channel, buffers, normalized, ConstantRows>>
        /\ \/ bufferer' = [bufferer EXCEPT !.at = "shift"]
           \/ bufferer' = Waiting
    BY <1>4 DEF OpenFile, Stamp, DropStride, ShiftBusy, ShiftNothing, windowVars, sourceVars
  <2> QED
    BY <1>1, <2>1 DEF RowsKnown, Waiting, NoResult
<1>5. CASE ShiftStride \/ ShiftAndRun
  <2>1. /\ UNCHANGED <<rows, channel, normalized, ConstantRows>>
        /\ Accepted(BufferOf(bufferer.result)) /\ buffers' = Shifted(BufferOf(bufferer.result))
        /\ \/ bufferer' = [bufferer EXCEPT !.at = "stamp"]
           \/ bufferer' = Waiting
    BY <1>5 DEF ShiftStride, ShiftAndRun, ShiftOnly, ShiftAndStart, sourceVars
  <2>2. /\ AnySeq(buffers') /\ Len(buffers') = bufferer.result.rows /\ Len(buffers) <= bufferer.result.rows
    BY <1>1, <2>1, RowsFacts, ShiftedRows DEF RowsKnown
  <2>3. Len(buffers') <= rows /\ Len(normalized) <= Len(buffers') /\ Len(ConstantRows) <= Len(buffers')
    BY <1>1, <2>2, RowsFacts DEF RowsKnown
  <2>4. /\ bufferer' = [at |-> bufferer'.at, result |-> bufferer'.result, stride |-> bufferer'.stride]
        /\ bufferer'.result.rows \in 0 .. rows
    BY <1>1, <2>1 DEF RowsKnown, Waiting, NoResult
  <2> QED
    BY <1>1, <2>1, <2>2, <2>3, <2>4 DEF RowsKnown
<1>6. CASE Normalize
  <2>1. PICK constant : NormalizeRow(constant)
    BY <1>6 DEF Normalize
  <2>2. /\ UNCHANGED <<rows, channel, bufferer, buffers>>
        /\ normalized' = Put(normalized, nextRow, buffers[nextRow])
        /\ ConstantRows' = Put(ConstantRows, nextRow, constant)
        /\ nextRow <= Len(buffers) /\ nextRow \in Nat \ {0}
    BY <1>6, <2>1 DEF Normalize, NormalizeRow, othersOfAlgorithm, sourceVars, ReceiverInv, StrideNumbersAgree
  <2>3. /\ AnySeq(normalized') /\ Len(normalized') <= Len(buffers)
        /\ AnySeq(ConstantRows') /\ Len(ConstantRows') <= Len(buffers)
    BY <1>1, <2>2, PutIsAnySeq, RowsFacts DEF RowsKnown
  <2> QED
    BY <1>1, <2>2, <2>3 DEF RowsKnown
<1>7. CASE (AlgorithmStep /\ ~Normalize) \/ ResultsStep
  <2>1. UNCHANGED <<rows, channel, bufferer, buffers, normalized, ConstantRows>>
    BY <1>7 DEF AlgorithmStep, StartComparing, ComparePair, StopComparing, SendRest, FinishStride, Fail, Unlock,
                AlgorithmMoves, AlgorithmEnds, ResultsStep, TakeResult, WritePairs, WriteIds, WriteConstants, CloseFile,
                othersOfAlgorithm, othersOfResults, sourceVars, windowVars
  <2> QED
    BY <1>1, <2>1 DEF RowsKnown
<1>8. CASE BufferStep
  BY <1>3, <1>4, <1>5, <1>8 DEF BufferStep
<1>9. rows' = rows \/ Accumulate
  BY <1>1 DEF Next, BufferStep, TakeStride, Take, OpenFile, Stamp, DropStride, ShiftStride, ShiftAndRun, 
              AlgorithmStep, Normalize, StartComparing, ComparePair, StopComparing, SendRest, FinishStride, Fail, Unlock,
              ResultsStep, TakeResult, WritePairs, WriteIds, WriteConstants, CloseFile,
              othersOfAlgorithm, othersOfResults, sourceVars
<1> QED
  BY <1>1, <1>2, <1>6, <1>7, <1>8, <1>9, RowsFacts DEF Next, Accumulate, Collect, Publish

\* The steps of the algorithm goroutine that do not touch the window's or the comparer's stride.
LEMMA NumbersStep ==
  ASSUME ReceiverInv, Next
  PROVE  StrideNumbersAgree'
<1> USE DEF StrideNumbersAgree, Busy
<1>1. StrideNumbersAgree /\ RowsKnown
  BY DEF ReceiverInv
<1>2. bufferer = [at |-> bufferer.at, result |-> bufferer.result, stride |-> bufferer.stride]
  BY <1>1 DEF RowsKnown
<1>3. CASE Accumulate \/ ResultsStep
  <2>1. UNCHANGED <<StrideCounter, algorithm, windowLocked, nextRow, comparing, bufferer>>
    BY <1>3 DEF Accumulate, ResultsStep, TakeResult, TakeBatch, WritePairs, WriteIds, WriteConstants, CloseFile,
                othersOfResults, windowVars, comparerVars, receiverVars
  <2> QED
    BY <1>1, <2>1
<1>4. CASE TakeStride \/ OpenFile \/ Stamp
  <2>1. /\ UNCHANGED <<StrideCounter, algorithm, windowLocked, nextRow, comparing>>
        /\ bufferer'.at \in {"initialize", "shift"} => bufferer'.stride = StrideCounter + 1
    BY <1>1, <1>2, <1>4 DEF TakeStride, OpenFile, Stamp, Waiting, windowVars, comparerVars
  <2> QED
    BY <1>1, <2>1
<1>5. CASE DropStride \/ ShiftStride
  <2>1. /\ UNCHANGED <<algorithm, windowLocked, nextRow, comparing>> /\ bufferer'.at = "recv"
        /\ StrideCounter' = StrideCounter \/ (~windowLocked /\ StrideCounter' = StrideCounter + 1)
    BY <1>5 DEF DropStride, ShiftBusy, ShiftNothing, ShiftStride, ShiftOnly, Waiting, windowVars, comparerVars
  <2> QED
    BY <1>1, <2>1
<1>6. CASE ShiftAndRun
  <2>1. /\ ~windowLocked /\ windowLocked' = TRUE /\ algorithm' = "normalize" /\ nextRow' = 1
        /\ StrideCounter' = StrideCounter + 1 /\ comparing' = comparing /\ bufferer'.at = "stamp"
    BY <1>2, <1>6 DEF ShiftAndRun, ShiftAndStart, comparerVars
  <2> QED
    BY <1>1, <2>1
<1>7. CASE Normalize
  <2>1. /\ algorithm = "normalize" /\ algorithm' \in {"normalize", "start"} /\ nextRow' = nextRow + 1
        /\ UNCHANGED <<StrideCounter, windowLocked, comparing, bufferer>>
    BY <1>7 DEF Normalize, NormalizeRow, comparerVars, othersOfAlgorithm
  <2> QED
    BY <1>1, <2>1
<1>8. CASE StartComparing
  <2>1. /\ algorithm = "start" /\ algorithm' = "compare"
        /\ UNCHANGED <<StrideCounter, windowLocked, nextRow, bufferer>>
    BY <1>8 DEF StartComparing, AlgorithmMoves, othersOfAlgorithm
  <2>2. comparing' = StrideCounter
    BY <1>1, <1>8, <2>1 DEF StartComparing, StartStride, RejectStride, BeginStride, Repeated
  <2> QED
    BY <1>1, <2>1, <2>2
<1>9. CASE ComparePair \/ StopComparing \/ SendRest \/ FinishStride \/ Fail \/ Unlock
  <2>1. /\ UNCHANGED <<StrideCounter, nextRow, comparing, bufferer>>
        /\ \/ algorithm' = "idle" /\ windowLocked' = FALSE
           \/ UNCHANGED windowLocked /\ algorithm' \in {"compare", "leftover", "end", "unlock"} /\ Busy
    BY <1>9 DEF ComparePair, SkipPair, NoMatch, Match, StopComparing, SendRest, SendLeftover, FinishStride, SendEnd,
                Fail, Unlock, AlgorithmMoves, AlgorithmEnds, windowVars, comparerVars, othersOfAlgorithm
  <2> QED
    BY <1>1, <2>1
<1> QED
  BY <1>3, <1>4, <1>5, <1>6, <1>7, <1>8, <1>9 DEF Next, BufferStep, AlgorithmStep

-----------------------------------------------------------------------------
(* Batches and files *)

\* What the invariant says of everything downstream of the window.
Downstream ==
  /\ BatchesInOrder /\ EndedIsOver /\ RecordsAreRecords
  /\ MatchesKnown /\ MatchesAccounted /\ IdsCover

\* The batches under way, in terms of the channel and of the reader's hands.
LEMMA UnderWayFacts ==
  ASSUME BatchesInOrder
  PROVE  /\ resultsChannel = <<>> => BatchesUnderWay = IF results.at = "recv" THEN {} ELSE {results.batch}
         /\ resultsChannel # <<>> =>
              /\ resultsChannel = <<resultsChannel[1]>> /\ DOMAIN resultsChannel = {1}
              /\ BatchesUnderWay = {resultsChannel[1]} \union (IF results.at = "recv" THEN {} ELSE {results.batch})
<1>1. CASE resultsChannel = <<>>
  BY <1>1, ShortSeqs DEF BatchesUnderWay
<1>2. CASE resultsChannel # <<>>
  <2>1. resultsChannel = <<resultsChannel[1]>> /\ DOMAIN resultsChannel = {1}
    BY <1>2, TakeFromOne DEF BatchesInOrder
  <2>2. {resultsChannel[i] : i \in DOMAIN resultsChannel} = {resultsChannel[1]}
    BY <2>1
  <2> QED
    BY <1>2, <2>1, <2>2 DEF BatchesUnderWay
<1> QED
  BY <1>1, <1>2

\* Steps that neither send, take nor write: samples may come, and the algorithm may go on
\* without having found a match.
LEMMA QuietStep ==
  ASSUME ReceiverInv,
         UNCHANGED <<results, resultsChannel, resultsBuffer, comparing, files, ledger>>,
         rows' \in Nat, rows <= rows', StrideCounter' = StrideCounter \/ algorithm' = "idle",
         \/ algorithm' = algorithm
         \/ algorithm = "normalize" /\ algorithm' \in {"normalize", "start"}
         \/ algorithm = "unlock" /\ algorithm' = "idle"
         \/ algorithm = "compare" /\ algorithm' = "leftover" /\ resultsBuffer # {}
         \/ algorithm = "compare" /\ algorithm' = "end" /\ resultsBuffer = {}
  PROVE  Downstream'
<1>1. Downstream /\ rows \in Nat
  BY DEF ReceiverInv, Downstream, RowsKnown
<1>2. BatchesUnderWay' = BatchesUnderWay /\ (Busy' => Busy)
  BY DEF BatchesUnderWay, Busy
<1>3. BatchesInOrder'
  BY <1>1, <1>2 DEF Downstream, BatchesInOrder, Closing
<1>4. EndedIsOver'
  BY <1>1, <1>2 DEF Downstream, EndedIsOver, Ended
<1>5. RecordsAreRecords' /\ IdsCover'
  BY <1>1 DEF Downstream, RecordsAreRecords, IdsCover, HasWriter
<1>6. MatchesKnown'
  <2>1. Pairs(rows) \subseteq Pairs(rows')
    BY <1>1, MoreRowsMorePairs
  <2> QED
    BY <1>1, <1>2, <2>1 DEF Downstream, MatchesKnown, Busy
<1>7. MatchesAccounted'
  <2>1. \A s \in Strides : OnTheWay(s)' = OnTheWay(s)
    BY <1>2 DEF OnTheWay, UnderWay, Busy
  <2> QED
    BY <1>1, <2>1 DEF Downstream, MatchesAccounted, HasWriter
<1> QED
  BY <1>3, <1>4, <1>5, <1>6, <1>7 DEF Downstream

\* A file is opened for a stride that was not compared yet, and keeps what it has.
LEMMA OpenStep ==
  ASSUME UnboundedStrides, ReceiverInv, OpenFile
  PROVE  Downstream'
<1> DEFINE new == bufferer.stride
<1>1. Downstream /\ StrideNumbersAgree /\ rows \in Nat
  BY DEF ReceiverInv, Downstream, RowsKnown
<1>2. /\ UNCHANGED <<rows, results, resultsChannel, resultsBuffer, comparing, ledger, algorithm, StrideCounter>>
      /\ new \in Strides /\ comparing < new
  BY <1>1 DEF OpenFile, sourceVars, windowVars, comparerVars, StrideNumbersAgree, UnboundedStrides
<1>3. CASE UNCHANGED files
  BY <1>1, <1>2, <1>3, QuietStep
<1>4. ASSUME NEW start, NEW end, NEW writer \in {"open", "none"}, ~HasWriter(new),
             files' = [files EXCEPT ![new] = [@ EXCEPT !.start = start, !.end = end, !.writer = writer]]
      PROVE  Downstream'
  <2>1. BatchesUnderWay' = BatchesUnderWay /\ (Busy' <=> Busy) /\ (Closing' <=> Closing)
    BY <1>2 DEF BatchesUnderWay, Busy, Closing
  <2>2. /\ DOMAIN files' = Strides /\ \A s \in Strides : IsFile(files'[s])
        /\ \A s \in Strides : s # new => files'[s] = files[s]
        /\ files'[new].pairs = files[new].pairs /\ files'[new].writer # "closed"
    BY <1>1, <1>2, <1>4 DEF Downstream, RecordsAreRecords, IsFile
  <2>3. \A b \in BatchesUnderWay : b.stride \in Strides /\ b.stride # new /\ b.stride <= comparing
    BY <1>1, <1>2 DEF Downstream, BatchesInOrder, StrideNumbersAgree, UnboundedStrides
  <2>4. BatchesInOrder'
    BY <1>1, <1>2, <2>1 DEF Downstream, BatchesInOrder, Closing
  <2>5. EndedIsOver'
    BY <1>1, <1>2, <2>1, <2>2, <2>3 DEF Downstream, EndedIsOver, Ended
  <2>6. RecordsAreRecords'
    BY <1>1, <1>2, <2>2 DEF Downstream, RecordsAreRecords
  <2>7. MatchesKnown'
    BY <1>1, <1>2, <2>1, <2>2 DEF Downstream, MatchesKnown, Busy
  <2>8. MatchesAccounted'
    <3>1. \A s \in Strides : OnTheWay(s)' = OnTheWay(s)
      BY <1>2, <2>1 DEF OnTheWay, UnderWay
    <3>2. \A s \in Strides : s <= comparing => s # new
      BY <1>1, <1>2 DEF StrideNumbersAgree, UnboundedStrides
    <3> QED
      BY <1>1, <1>2, <2>2, <3>1, <3>2 DEF Downstream, MatchesAccounted, HasWriter
  <2>9. IdsCover'
    <3>1. results.at # "recv" => results.batch.stride \in Strides /\ results.batch.stride # new
      BY <2>3 DEF BatchesUnderWay
    <3> QED
      BY <1>1, <1>2, <2>2, <3>1 DEF Downstream, IdsCover, HasWriter
  <2> QED
    BY <2>4, <2>5, <2>6, <2>7, <2>8, <2>9 DEF Downstream
<1> QED
  BY <1>3, <1>4 DEF OpenFile, InitializeStride

\* The stride that fills the window is a new one for the ledger too.
LEMMA RunStep ==
  ASSUME UnboundedStrides, ReceiverInv, ShiftAndRun
  PROVE  Downstream'
<1> DEFINE new == bufferer.stride
<1>1. Downstream /\ StrideNumbersAgree /\ rows \in Nat
  BY DEF ReceiverInv, Downstream, RowsKnown
<1>2. /\ UNCHANGED <<rows, results, resultsChannel, resultsBuffer, comparing, files>>
      /\ new \in Strides /\ comparing < new /\ ~Busy /\ algorithm' = "normalize" /\ ~Busy'
  BY <1>1 DEF ShiftAndRun, ShiftAndStart, sourceVars, comparerVars, StrideNumbersAgree, UnboundedStrides, Busy
<1>3. /\ DOMAIN ledger' = Strides /\ \A s \in Strides : IsEntry(ledger'[s])
      /\ \A s \in Strides : s # new => ledger'[s] = ledger[s]
      /\ ledger'[new].matches = {} /\ ledger'[new].outcome = "running" /\ StrideCounter' = new
  BY <1>1, <1>2 DEF ShiftAndRun, ShiftAndStart, Downstream, RecordsAreRecords, IsEntry, StrideNumbersAgree
<1>4. BatchesUnderWay' = BatchesUnderWay
  BY <1>2 DEF BatchesUnderWay
<1>5. \A b \in BatchesUnderWay : b.stride \in Strides /\ b.stride # new /\ b.stride <= comparing
  BY <1>1, <1>2 DEF Downstream, BatchesInOrder, StrideNumbersAgree, UnboundedStrides
<1>6. BatchesInOrder'
  BY <1>1, <1>2, <1>4 DEF Downstream, BatchesInOrder, Closing
<1>7. \A s \in Strides : s <= comparing => s # new
  BY <1>1, <1>2 DEF StrideNumbersAgree, UnboundedStrides
<1>8. EndedIsOver'
  BY <1>1, <1>2, <1>3, <1>4, <1>7 DEF Downstream, EndedIsOver, Ended
<1>9. RecordsAreRecords'
  BY <1>1, <1>2, <1>3 DEF Downstream, RecordsAreRecords
<1>10. MatchesKnown'
  <2>1. files[new].pairs = {}
    BY <1>1, <1>2 DEF Downstream, MatchesKnown
  <2> QED
    BY <1>1, <1>2, <1>3, <1>4, <1>5, <2>1 DEF Downstream, MatchesKnown
<1>11. MatchesAccounted'
  <2>1. \A s \in Strides : OnTheWay(s)' = OnTheWay(s)
    BY <1>2, <1>4 DEF OnTheWay, UnderWay, Busy
  <2> QED
    BY <1>1, <1>2, <1>3, <1>7, <2>1 DEF Downstream, MatchesAccounted, HasWriter
<1>12. IdsCover'
  <2>1. results.at # "recv" => results.batch.stride \in Strides /\ results.batch.stride # new
    BY <1>5 DEF BatchesUnderWay
  <2>2. \A s \in Strides : files[s].writer = "closed" => s # new
    BY <1>1, <1>7 DEF Downstream, EndedIsOver, Ended
  <2> QED
    BY <1>1, <1>2, <1>3, <2>1, <2>2 DEF Downstream, IdsCover, HasWriter
<1> QED
  BY <1>6, <1>8, <1>9, <1>10, <1>11, <1>12 DEF Downstream

\* The comparer turns to a stride for which nothing was found or written yet.
LEMMA CompareStep ==
  ASSUME UnboundedStrides, ReceiverInv, StartComparing
  PROVE  Downstream'
<1>1. Downstream /\ StrideNumbersAgree /\ rows \in Nat
  BY DEF ReceiverInv, Downstream, RowsKnown
<1>2. /\ UNCHANGED <<rows, results, resultsChannel, files, ledger, StrideCounter>>
      /\ algorithm = "start" /\ algorithm' = "compare" /\ comparing < StrideCounter
      /\ comparing' = StrideCounter /\ resultsBuffer' = {} /\ StrideCounter \in Strides
  BY <1>1 DEF StartComparing, AlgorithmMoves, StartStride, RejectStride, BeginStride, Repeated, othersOfAlgorithm,
              sourceVars, StrideNumbersAgree, UnboundedStrides
<1>3. BatchesUnderWay' = BatchesUnderWay
  BY <1>2 DEF BatchesUnderWay
<1>4. BatchesInOrder'
  BY <1>1, <1>2, <1>3 DEF Downstream, BatchesInOrder, Closing, StrideNumbersAgree
<1>5. EndedIsOver'
  BY <1>1, <1>2, <1>3 DEF Downstream, EndedIsOver, Ended, StrideNumbersAgree, UnboundedStrides
<1>6. RecordsAreRecords' /\ IdsCover'
  BY <1>1, <1>2 DEF Downstream, RecordsAreRecords, IdsCover, HasWriter
<1>7. MatchesKnown' /\ ledger[StrideCounter].matches = {}
  BY <1>1, <1>2, <1>3 DEF Downstream, MatchesKnown, StrideNumbersAgree, UnboundedStrides
<1>8. MatchesAccounted'
  <2>1. ASSUME NEW s \in Strides, s <= StrideCounter, HasWriter(s), ledger[s].outcome # "failed"
        PROVE  ledger[s].matches \subseteq files[s].pairs \union UnderWay(s)
    <3>1. CASE s <= comparing
      BY <1>1, <1>2, <2>1, <3>1 DEF Downstream, MatchesAccounted, OnTheWay
    <3>2. CASE s > comparing
      BY <1>1, <2>1, <3>2 DEF Downstream, MatchesKnown
    <3> QED
      BY <1>1, <3>1, <3>2 DEF StrideNumbersAgree, UnboundedStrides
  <2>2. \A s \in Strides : UnderWay(s) \subseteq OnTheWay(s)'
    BY <1>3 DEF OnTheWay, UnderWay
  <2> QED
    BY <1>2, <2>1, <2>2 DEF MatchesAccounted, HasWriter
<1> QED
  BY <1>4, <1>5, <1>6, <1>7, <1>8 DEF Downstream

\* What all steps of a busy algorithm start from.
LEMMA BusyFacts ==
  ASSUME UnboundedStrides, ReceiverInv, Busy
  PROVE  /\ Downstream /\ rows \in Nat /\ comparing = StrideCounter /\ comparing \in Strides
         /\ ledger[comparing].outcome = "running" /\ ~Ended(comparing)
  BY DEF ReceiverInv, Downstream, RowsKnown, StrideNumbersAgree, UnboundedStrides, MatchesKnown, Busy, EndedIsOver

\* A match that is kept for a later batch.
LEMMA KeepStep ==
  ASSUME UnboundedStrides, ReceiverInv, NEW pair \in Pairs(rows), algorithm = "compare",
         UNCHANGED <<rows, results, resultsChannel, files, comparing, StrideCounter, algorithm>>,
         resultsBuffer' = resultsBuffer \union {pair},
         ledger' = [ledger EXCEPT ![StrideCounter].matches = @ \union {pair}]
  PROVE  Downstream'
<1>1. /\ Downstream /\ comparing = StrideCounter /\ comparing \in Strides /\ ~Ended(comparing)
      /\ ledger[comparing].outcome = "running"
  BY BusyFacts DEF Busy
<1>2. /\ DOMAIN ledger' = Strides /\ \A s \in Strides : IsEntry(ledger'[s])
      /\ \A s \in Strides : s # comparing => ledger'[s] = ledger[s]
      /\ \A s \in Strides : ledger'[s].outcome = ledger[s].outcome /\ ledger[s].matches \subseteq ledger'[s].matches
      /\ ledger'[comparing].matches = ledger[comparing].matches \union {pair}
  BY <1>1 DEF Downstream, RecordsAreRecords, IsEntry
<1>3. BatchesUnderWay' = BatchesUnderWay
  BY DEF BatchesUnderWay
<1>4. \A b \in BatchesUnderWay : b.stride \in Strides
  BY <1>1 DEF Downstream, BatchesInOrder, UnboundedStrides
<1>5. BatchesInOrder'
  BY <1>1, <1>3 DEF Downstream, BatchesInOrder, Closing
<1>6. EndedIsOver'
  BY <1>1, <1>2, <1>3 DEF Downstream, EndedIsOver, Ended, Busy
<1>7. RecordsAreRecords'
  BY <1>1, <1>2 DEF Downstream, RecordsAreRecords
<1>8. MatchesKnown'
  <2>1. \A s \in Strides : s > comparing => s # comparing
    BY <1>1 DEF UnboundedStrides
  <2> QED
    BY <1>1, <1>2, <1>3, <1>4, <2>1 DEF Downstream, MatchesKnown
<1>9. MatchesAccounted'
  <2>1. \A s \in Strides : OnTheWay(s) \subseteq OnTheWay(s)'
    BY <1>3 DEF OnTheWay, UnderWay
  <2>2. pair \in OnTheWay(comparing)'
    BY DEF OnTheWay
  <2> QED
    BY <1>1, <1>2, <2>1, <2>2 DEF Downstream, MatchesAccounted, HasWriter
<1>10. IdsCover'
  <2>1. \A s \in Strides : files[s].writer = "closed" => s # comparing
    BY <1>1 DEF Ended
  <2>2. Closing => results.batch.stride \in Strides /\ results.batch.stride # comparing
    BY <1>1, <1>4 DEF Ended, BatchesUnderWay, Downstream, BatchesInOrder, Closing
  <2> QED
    BY <1>1, <1>2, <2>1, <2>2 DEF Downstream, IdsCover, HasWriter, Closing
<1> QED
  BY <1>5, <1>6, <1>7, <1>8, <1>9, <1>10 DEF Downstream

\* A batch of the current stride is sent: what the buffer had, and perhaps a new match; or,
\* when nothing is left to send, the end marker, with which the stride is finished.
LEMMA SendStep ==
  ASSUME UnboundedStrides, ReceiverInv, Busy, NEW b,
         resultsChannel = <<>>, resultsChannel' = <<b>>, b.stride = comparing,
         UNCHANGED <<rows, results, files, comparing, StrideCounter>>,
         DOMAIN ledger' = Strides, \A s \in Strides : IsEntry(ledger'[s]),
         \A s \in Strides : s # comparing => ledger'[s] = ledger[s],
         b.pairs \subseteq Pairs(rows),
         ledger'[comparing].matches = ledger[comparing].matches \union b.pairs,
         algorithm \in {"compare", "leftover"} => resultsBuffer \subseteq b.pairs,
         \/ /\ b.pairs # {} /\ ledger'[comparing].outcome = "running"
            /\ algorithm' = "end" \/ (algorithm' = "compare" /\ resultsBuffer' = {})
         \/ b.pairs = {} /\ ledger'[comparing].outcome = "finished" /\ algorithm' = "unlock"
  PROVE  Downstream'
<1>1. /\ Downstream /\ comparing = StrideCounter /\ comparing \in Strides /\ ~Ended(comparing)
      /\ ledger[comparing].outcome = "running"
  BY BusyFacts
<1>2. /\ BatchesUnderWay' = BatchesUnderWay \union {b}
      /\ AnySeq(resultsChannel') /\ Len(resultsChannel') = 1 /\ DOMAIN resultsChannel' = {1} /\ resultsChannel'[1] = b
  <2>1. AnySeq(<<b>>) /\ Len(<<b>>) = 1 /\ DOMAIN <<b>> = {1} /\ <<b>>[1] = b
    BY ShortSeqs
  <2>2. AnySeq(resultsChannel') /\ Len(resultsChannel') = 1 /\ DOMAIN resultsChannel' = {1} /\ resultsChannel'[1] = b
    BY <2>1
  <2>3. BatchesUnderWay = IF results.at = "recv" THEN {} ELSE {results.batch}
    BY <1>1, UnderWayFacts DEF Downstream
  <2>4. {resultsChannel'[i] : i \in DOMAIN resultsChannel'} = {b}
    BY <2>2
  <2>5. BatchesUnderWay' = {b} \union (IF results.at = "recv" THEN {} ELSE {results.batch})
    BY <2>4 DEF BatchesUnderWay
  <2> QED
    BY <2>2, <2>3, <2>5
<1>3. \A c \in BatchesUnderWay : c.stride \in Strides /\ c.stride <= comparing
  BY <1>1 DEF Downstream, BatchesInOrder, UnboundedStrides
<1>4. results.at # "recv" => results.batch \in BatchesUnderWay
  BY DEF BatchesUnderWay
<1>5. Closing => results.batch.stride < comparing
  BY <1>1, <1>3, <1>4 DEF Ended, Downstream, BatchesInOrder, Closing, UnboundedStrides
<1>6. BatchesInOrder'
  <2>1. \A c \in BatchesUnderWay' : c.stride \in 1 .. comparing
    BY <1>1, <1>2 DEF Downstream, BatchesInOrder, UnboundedStrides
  <2>2. \A i \in DOMAIN resultsChannel' :
          /\ results.at = "pairs" => results.batch.stride <= resultsChannel'[i].stride
          /\ Closing => results.batch.stride < resultsChannel'[i].stride
    BY <1>2, <1>3, <1>4, <1>5
  <2> QED
    BY <1>1, <1>2, <2>1, <2>2 DEF Downstream, BatchesInOrder, Closing
<1>7. EndedIsOver'
  <2>1. \A s \in Strides : Ended(s)' => Ended(s) \/ (s = comparing /\ b.pairs = {})
    BY <1>2 DEF Ended
  <2>2. files[comparing].writer # "closed"
    BY <1>1 DEF Ended
  <2>3. b.pairs = {} => ~Busy'
    BY DEF Busy
  <2> QED
    BY <1>1, <1>2, <2>1, <2>2, <2>3 DEF Downstream, EndedIsOver, UnboundedStrides
<1>8. RecordsAreRecords'
  BY <1>1 DEF Downstream, RecordsAreRecords
<1>9. MatchesKnown'
  <2>1. \A s \in Strides : s > comparing => s # comparing
    BY <1>1 DEF UnboundedStrides
  <2>2. \A s \in Strides : ledger[s].matches \subseteq ledger'[s].matches /\ ledger'[s].matches \subseteq Pairs(rows)
    BY <1>1 DEF Downstream, MatchesKnown
  <2>3. b.pairs \subseteq ledger'[comparing].matches
    OBVIOUS
  <2>4. algorithm' \in {"compare", "leftover"} => resultsBuffer' = {}
    OBVIOUS
  <2>5. algorithm' \notin {"idle", "unlock"} => ledger'[StrideCounter].outcome = "running"
    BY <1>1
  <2> QED
    BY <1>1, <1>2, <1>3, <2>1, <2>2, <2>3, <2>4, <2>5 DEF Downstream, MatchesKnown
<1>10. MatchesAccounted'
  <2>1. ASSUME NEW s \in Strides
        PROVE  OnTheWay(s)' = OnTheWay(s) \union (IF s = comparing THEN b.pairs ELSE {})
    <3>1. UnderWay(s)' = UnderWay(s) \union (IF s = comparing THEN b.pairs ELSE {})
      BY <1>2 DEF UnderWay
    <3>2. OnTheWay(s)' = UnderWay(s)'
      BY DEF OnTheWay
    <3>3. OnTheWay(s) \subseteq UnderWay(s) \union (IF s = comparing THEN b.pairs ELSE {})
      BY DEF OnTheWay
    <3>4. UnderWay(s) \subseteq OnTheWay(s)
      BY DEF OnTheWay
    <3> QED
      BY <3>1, <3>2, <3>3, <3>4
  <2> QED
    BY <1>1, <2>1 DEF Downstream, MatchesAccounted, HasWriter
<1>11. IdsCover'
  <2>1. \A s \in Strides : files[s].writer = "closed" => s # comparing
    BY <1>1 DEF Ended
  <2>2. Closing => results.batch.stride \in Strides /\ results.batch.stride # comparing
    BY <1>1, <1>3, <1>4 DEF Ended, Downstream, BatchesInOrder, Closing
  <2> QED
    BY <1>1, <2>1, <2>2 DEF Downstream, IdsCover, HasWriter, Closing
<1> QED
  BY <1>6, <1>7, <1>8, <1>9, <1>10, <1>11 DEF Downstream

\* A failed stride is left as it is.
LEMMA FailStep ==
  ASSUME UnboundedStrides, ReceiverInv, Fail
  PROVE  Downstream'
<1>1. /\ algorithm = "compare" /\ algorithm' = "unlock"
      /\ UNCHANGED <<rows, results, resultsChannel, resultsBuffer, files, comparing, StrideCounter>>
      /\ ledger' = [ledger EXCEPT ![StrideCounter].outcome = "failed"]
  BY DEF Fail, AlgorithmMoves, othersOfAlgorithm, sourceVars, comparerVars
<1>2. /\ Downstream /\ comparing = StrideCounter /\ comparing \in Strides /\ ~Ended(comparing)
  BY <1>1, BusyFacts DEF Busy
<1>3. /\ DOMAIN ledger' = Strides /\ \A s \in Strides : IsEntry(ledger'[s])
      /\ \A s \in Strides : ledger'[s].matches = ledger[s].matches
      /\ \A s \in Strides : s # comparing => ledger'[s] = ledger[s]
      /\ ledger'[comparing].outcome = "failed"
  BY <1>1, <1>2 DEF Downstream, RecordsAreRecords, IsEntry
<1>4. BatchesUnderWay' = BatchesUnderWay /\ \A b \in BatchesUnderWay : b.stride \in Strides
  BY <1>1, <1>2 DEF BatchesUnderWay, Downstream, BatchesInOrder, UnboundedStrides
<1>5. BatchesInOrder'
  BY <1>1, <1>2, <1>4 DEF Downstream, BatchesInOrder, Closing
<1>6. EndedIsOver'
  BY <1>1, <1>2, <1>3, <1>4 DEF Downstream, EndedIsOver, Ended, Busy
<1>7. RecordsAreRecords'
  BY <1>1, <1>2, <1>3 DEF Downstream, RecordsAreRecords
<1>8. MatchesKnown'
  BY <1>1, <1>2, <1>3, <1>4 DEF Downstream, MatchesKnown
<1>9. MatchesAccounted'
  <2>1. \A s \in Strides : s # comparing => OnTheWay(s)' = OnTheWay(s)
    BY <1>1, <1>4 DEF OnTheWay, UnderWay
  <2> QED
    BY <1>1, <1>2, <1>3, <2>1 DEF Downstream, MatchesAccounted, HasWriter
<1>10. IdsCover'
  <2>1. results.at # "recv" => results.batch.stride \in Strides
    BY <1>4 DEF BatchesUnderWay
  <2> QED
    BY <1>1, <1>2, <1>3, <2>1 DEF Downstream, IdsCover, HasWriter
<1> QED
  BY <1>5, <1>6, <1>7, <1>8, <1>9, <1>10 DEF Downstream

-----------------------------------------------------------------------------
(* The results goroutine *)

\* Taking a batch loses none.
LEMMA TakeResultStep ==
  ASSUME UnboundedStrides, ReceiverInv, TakeResult
  PROVE  Downstream'
<1> DEFINE b == resultsChannel[1]
<1>1. Downstream /\ results.at = "recv" /\ resultsChannel # <<>>
  BY DEF ReceiverInv, Downstream, TakeResult, TakeBatch
<1>2. resultsChannel = <<b>> /\ Head(resultsChannel) = b /\ Tail(resultsChannel) = <<>> /\ BatchesUnderWay = {b}
  BY <1>1, UnderWayFacts, TakeFromOne DEF Downstream, BatchesInOrder
<1>3. /\ UNCHANGED <<rows, resultsBuffer, files, ledger, comparing, StrideCounter, algorithm>>
      /\ resultsChannel' = <<>>
      /\ results' = [at |-> IF b.pairs = {} THEN "ids" ELSE "pairs", batch |-> b]
  BY <1>2 DEF TakeResult, TakeBatch, othersOfResults, sourceVars, windowVars
<1> HIDE DEF b
<1>4. AnySeq(<<>>) /\ Len(<<>>) = 0 /\ DOMAIN <<>> = {}
  BY ShortSeqs
<1>5. /\ AnySeq(resultsChannel') /\ Len(resultsChannel') = 0 /\ DOMAIN resultsChannel' = {}
  BY <1>3, <1>4
<1>6. BatchesUnderWay' = BatchesUnderWay
  BY <1>2, <1>3, <1>5 DEF BatchesUnderWay
<1>7. BatchesInOrder'
  BY <1>1, <1>2, <1>3, <1>5, <1>6 DEF Downstream, BatchesInOrder, Closing
<1>8. EndedIsOver'
  BY <1>1, <1>3, <1>6 DEF Downstream, EndedIsOver, Ended, Busy
<1>9. RecordsAreRecords' /\ IdsCover'
  BY <1>1, <1>3 DEF Downstream, RecordsAreRecords, IdsCover, HasWriter
<1>10. MatchesKnown'
  BY <1>1, <1>3, <1>6 DEF Downstream, MatchesKnown
<1>11. MatchesAccounted'
  <2>1. \A s \in Strides : OnTheWay(s)' = OnTheWay(s)
    BY <1>3, <1>6 DEF OnTheWay, UnderWay
  <2> QED
    BY <1>1, <1>3, <2>1 DEF Downstream, MatchesAccounted, HasWriter
<1> QED
  BY <1>7, <1>8, <1>9, <1>10, <1>11 DEF Downstream

\* What all writing steps have in common: the batch in hand, and who is left alone.
LEMMA WritingFacts ==
  ASSUME UnboundedStrides, ReceiverInv, WritePairs \/ WriteIds \/ WriteConstants \/ CloseFile
  PROVE  /\ Downstream /\ rows \in Nat /\ results.at # "recv"
         /\ UNCHANGED <<rows, resultsBuffer, resultsChannel, ledger, comparing, StrideCounter, algorithm>>
         /\ results.batch \in BatchesUnderWay /\ results.batch.stride \in Strides
         /\ results.batch.stride <= comparing /\ comparing \in Int
         /\ \A b \in BatchesUnderWay : b.stride \in Strides
         /\ files[results.batch.stride].writer # "closed"
<1>1. /\ Downstream /\ rows \in Nat /\ results.at # "recv"
      /\ UNCHANGED <<rows, resultsBuffer, resultsChannel, ledger, comparing, StrideCounter, algorithm>>
  BY DEF ReceiverInv, Downstream, RowsKnown, WritePairs, WriteIds, WriteConstants, CloseFile,
         othersOfResults, sourceVars, windowVars, comparerVars
<1>2. results.batch \in BatchesUnderWay
  BY <1>1 DEF BatchesUnderWay
<1>3. \A b \in BatchesUnderWay : b.stride \in Strides /\ b.stride <= comparing
  BY <1>1 DEF Downstream, BatchesInOrder, UnboundedStrides
<1>4. files[results.batch.stride].writer # "closed"
  BY <1>1, <1>2 DEF Downstream, EndedIsOver
<1>5. comparing \in Int
  BY DEF ReceiverInv, StrideNumbersAgree
<1> QED
  BY <1>1, <1>2, <1>3, <1>4, <1>5

\* The matches of a batch go from the goroutine's hands to the file, or nowhere without one.
LEMMA WritePairsStep ==
  ASSUME UnboundedStrides, ReceiverInv, WritePairs
  PROVE  Downstream'
<1> DEFINE batch == results.batch
           s == batch.stride
<1>1. /\ Downstream /\ results.at = "pairs"
      /\ UNCHANGED <<rows, resultsBuffer, resultsChannel, ledger, comparing, StrideCounter, algorithm>>
      /\ batch \in BatchesUnderWay /\ s \in Strides /\ s <= comparing /\ comparing \in Int
      /\ \A b \in BatchesUnderWay : b.stride \in Strides
  BY WritingFacts DEF WritePairs
<1>2. results' = WaitingForBatch /\ AddCorrelatedPairs(s, batch.pairs)
  BY DEF WritePairs
<1>3. /\ DOMAIN files' = Strides /\ \A t \in Strides : IsFile(files'[t])
      /\ \A t \in Strides : t # s => files'[t] = files[t]
      /\ \A t \in Strides : files'[t].writer = files[t].writer /\ files'[t].ids = files[t].ids
      /\ files'[s].pairs = IF HasWriter(s) THEN files[s].pairs \union batch.pairs ELSE files[s].pairs
  <2>1. CASE HasWriter(s)
    BY <1>1, <1>2, <2>1 DEF Downstream, RecordsAreRecords, IsFile, AddCorrelatedPairs, Written
  <2>2. CASE ~HasWriter(s)
    BY <1>1, <1>2, <2>2 DEF Downstream, RecordsAreRecords, IsFile, AddCorrelatedPairs, Written
  <2> QED
    BY <2>1, <2>2
<1>4. BatchesUnderWay = BatchesUnderWay' \union {batch}
  BY <1>1, <1>2 DEF BatchesUnderWay, WaitingForBatch
<1> HIDE DEF batch, s
<1>5. BatchesInOrder'
  BY <1>1, <1>2, <1>4 DEF Downstream, BatchesInOrder, Closing, WaitingForBatch
<1>6. EndedIsOver'
  <2>1. \A t \in Strides : Ended(t)' => Ended(t)
    BY <1>3, <1>4 DEF Ended
  <2> QED
    BY <1>1, <1>3, <1>4, <2>1 DEF Downstream, EndedIsOver, Busy
<1>7. RecordsAreRecords'
  BY <1>1, <1>3 DEF Downstream, RecordsAreRecords
<1>8. MatchesKnown'
  <2>1. \A t \in Strides : files'[t].pairs \subseteq ledger[t].matches
    BY <1>1, <1>3 DEF Downstream, MatchesKnown, s
  <2>2. \A t \in Strides : t > comparing => t # s
    BY <1>1 DEF UnboundedStrides
  <2> QED
    BY <1>1, <1>3, <1>4, <2>1, <2>2 DEF Downstream, MatchesKnown
<1>9. MatchesAccounted'
  <2>1. ASSUME NEW t \in Strides
        PROVE  OnTheWay(t) \subseteq OnTheWay(t)' \union (IF t = s THEN batch.pairs ELSE {})
    BY <1>1, <1>4 DEF OnTheWay, UnderWay, s
  <2>2. \A t \in Strides : HasWriter(t)' <=> HasWriter(t)
    BY <1>3 DEF HasWriter
  <2>3. ASSUME NEW t \in Strides, t <= comparing, HasWriter(t), ledger[t].outcome # "failed"
        PROVE  ledger[t].matches \subseteq files'[t].pairs \union OnTheWay(t)'
    <3>1. ledger[t].matches \subseteq files[t].pairs \union OnTheWay(t)
      BY <1>1, <2>3 DEF Downstream, MatchesAccounted
    <3>2. files[t].pairs \union (IF t = s THEN batch.pairs ELSE {}) \subseteq files'[t].pairs
      BY <1>3, <2>3
    <3> QED
      BY <2>1, <3>1, <3>2
  <2> QED
    BY <1>1, <2>2, <2>3 DEF MatchesAccounted
<1>10. IdsCover'
  BY <1>1, <1>2, <1>3 DEF Downstream, IdsCover, WaitingForBatch
<1> QED
  BY <1>5, <1>6, <1>7, <1>8, <1>9, <1>10 DEF Downstream

\* The ids and the constant rows are written between the last match and the closing.
LEMMA WriteRowsStep ==
  ASSUME UnboundedStrides, ReceiverInv, WriteIds \/ WriteConstants
  PROVE  Downstream'
<1> DEFINE s == results.batch.stride
<1>1. /\ Downstream /\ rows \in Nat
      /\ UNCHANGED <<rows, resultsBuffer, resultsChannel, ledger, comparing, StrideCounter, algorithm>>
      /\ s \in Strides /\ \A b \in BatchesUnderWay : b.stride \in Strides
      /\ files[s].writer # "closed"
  BY WritingFacts
<1>2. /\ Closing /\ Closing' /\ results'.batch = results.batch
      /\ results' = [at |-> results'.at, batch |-> results'.batch]
      /\ results.at # "recv" /\ results'.at \in {"constants", "flush"}
      /\ WriteIds => results.at = "ids" /\ RecordTimeseriesIds(s, rows)
      /\ WriteConstants => results.at = "constants" /\ \E constant : AddConstantRows(s, constant)
  BY <1>1 DEF WriteIds, WriteConstants, Closing, Downstream, BatchesInOrder
<1>3. /\ DOMAIN files' = Strides /\ \A t \in Strides : IsFile(files'[t])
      /\ \A t \in Strides : t # s => files'[t] = files[t]
      /\ \A t \in Strides : files'[t].writer = files[t].writer /\ files'[t].pairs = files[t].pairs
      /\ HasWriter(s) => files'[s].ids = IF results.at = "ids" THEN rows ELSE files[s].ids
  <2>1. DOMAIN files = Strides /\ \A t \in Strides : IsFile(files[t])
    BY <1>1 DEF Downstream, RecordsAreRecords
  <2>2. CASE WriteIds
    <3>1. files' = IF HasWriter(s) THEN [files EXCEPT ![s] = [files[s] EXCEPT !.ids = rows]] ELSE files
      BY <1>2, <2>2 DEF RecordTimeseriesIds, Written
    <3>2. results.at = "ids"
      BY <1>2, <2>2
    <3> QED
      BY <1>1, <2>1, <3>1, <3>2 DEF IsFile
  <2>3. CASE WriteConstants
    <3>1. PICK constant :
            files' = IF HasWriter(s) THEN [files EXCEPT ![s] = [files[s] EXCEPT !.constants = constant]] ELSE files
      BY <1>2, <2>3 DEF AddConstantRows, Written
    <3>2. results.at = "constants"
      BY <1>2, <2>3
    <3> QED
      BY <1>1, <2>1, <3>1, <3>2 DEF IsFile
  <2> QED
    BY <2>2, <2>3
<1>4. BatchesUnderWay' = BatchesUnderWay
  BY <1>1, <1>2 DEF BatchesUnderWay, Closing
<1>5. BatchesInOrder'
  BY <1>1, <1>2, <1>4 DEF Downstream, BatchesInOrder, Closing
<1>6. EndedIsOver'
  <2>1. \A t \in Strides : Ended(t)' <=> Ended(t)
    BY <1>3, <1>4 DEF Ended
  <2> QED
    BY <1>1, <1>3, <1>4, <2>1 DEF Downstream, EndedIsOver, Busy
<1>7. RecordsAreRecords'
  BY <1>1, <1>3 DEF Downstream, RecordsAreRecords
<1>8. MatchesKnown'
  BY <1>1, <1>3, <1>4 DEF Downstream, MatchesKnown
<1>9. MatchesAccounted'
  <2>1. \A t \in Strides : OnTheWay(t)' = OnTheWay(t) /\ (HasWriter(t)' <=> HasWriter(t))
    BY <1>1, <1>3, <1>4 DEF OnTheWay, UnderWay, HasWriter
  <2> QED
    BY <1>1, <1>3, <2>1 DEF Downstream, MatchesAccounted
<1>10. IdsCover'
  <2>1. \A t \in Strides : files'[t].writer = "closed" => ledger[t].matches \subseteq Pairs(files'[t].ids)
    BY <1>1, <1>3 DEF Downstream, IdsCover
  <2>2. HasWriter(s) => ledger[s].matches \subseteq Pairs(files'[s].ids)
    BY <1>1, <1>2, <1>3 DEF Downstream, IdsCover, MatchesKnown
  <2>3. files'[s].writer # "none" <=> HasWriter(s)
    BY <1>1, <1>3 DEF HasWriter
  <2> QED
    BY <1>1, <1>2, <2>1, <2>2, <2>3 DEF IdsCover, HasWriter
<1> QED
  BY <1>5, <1>6, <1>7, <1>8, <1>9, <1>10 DEF Downstream

\* The file is closed after the last batch of its stride: the one in the channel is a later one's.
LEMMA CloseStep ==
  ASSUME UnboundedStrides, ReceiverInv, CloseFile
  PROVE  Downstream'
<1> DEFINE batch == results.batch
           s == batch.stride
<1>1. /\ Downstream /\ results.at = "flush"
      /\ UNCHANGED <<rows, resultsBuffer, resultsChannel, ledger, comparing, StrideCounter, algorithm>>
      /\ batch \in BatchesUnderWay /\ s \in Strides
      /\ \A b \in BatchesUnderWay : b.stride \in Strides
  BY WritingFacts DEF CloseFile
<1>2. results' = WaitingForBatch /\ Flush(s) /\ batch.pairs = {} /\ Ended(s)
  BY <1>1 DEF CloseFile, Downstream, BatchesInOrder, Closing, Ended
<1>3. /\ DOMAIN files' = Strides /\ \A t \in Strides : IsFile(files'[t])
      /\ \A t \in Strides : t # s => files'[t] = files[t]
      /\ \A t \in Strides : files'[t].pairs = files[t].pairs /\ files'[t].ids = files[t].ids
      /\ files'[s].writer = IF HasWriter(s) THEN "closed" ELSE files[s].writer
  <2>1. CASE HasWriter(s)
    BY <1>1, <1>2, <2>1 DEF Downstream, RecordsAreRecords, IsFile, Flush, Written
  <2>2. CASE ~HasWriter(s)
    BY <1>1, <1>2, <2>2 DEF Downstream, RecordsAreRecords, IsFile, Flush, Written
  <2> QED
    BY <2>1, <2>2
<1>4. BatchesUnderWay = BatchesUnderWay' \union {batch}
  BY <1>1, <1>2 DEF BatchesUnderWay, WaitingForBatch
<1>5. \A b \in BatchesUnderWay' : b.stride # s
  <2>1. \A i \in DOMAIN resultsChannel : s < resultsChannel[i].stride
    BY <1>1 DEF Downstream, BatchesInOrder, Closing
  <2>2. BatchesUnderWay' = {resultsChannel[i] : i \in DOMAIN resultsChannel}
    BY <1>1, <1>2 DEF BatchesUnderWay, WaitingForBatch
  <2>3. \A i \in DOMAIN resultsChannel : resultsChannel[i].stride \in Strides
    BY <1>1, <1>4, <2>2
  <2> QED
    BY <1>1, <2>1, <2>2, <2>3 DEF UnboundedStrides
<1>6. \A t \in Strides : HasWriter(t)' <=> HasWriter(t)
  BY <1>3 DEF HasWriter
<1> HIDE DEF batch, s
<1>7. BatchesInOrder'
  BY <1>1, <1>2, <1>4 DEF Downstream, BatchesInOrder, Closing, WaitingForBatch
<1>8. EndedIsOver'
  <2>1. \A t \in Strides : Ended(t)' => Ended(t)
    BY <1>2, <1>3, <1>4 DEF Ended
  <2> QED
    BY <1>1, <1>3, <1>4, <1>5, <2>1 DEF Downstream, EndedIsOver, Busy
<1>9. RecordsAreRecords'
  BY <1>1, <1>3 DEF Downstream, RecordsAreRecords
<1>10. MatchesKnown'
  BY <1>1, <1>3, <1>4 DEF Downstream, MatchesKnown
<1>11. MatchesAccounted'
  <2>1. \A t \in Strides : OnTheWay(t) \subseteq OnTheWay(t)'
    BY <1>1, <1>2, <1>4 DEF OnTheWay, UnderWay
  <2> QED
    BY <1>1, <1>3, <1>6, <2>1 DEF Downstream, MatchesAccounted
<1>12. IdsCover'
  <2>1. HasWriter(s) => ledger[s].matches \subseteq Pairs(files[s].ids)
    BY <1>1 DEF Downstream, IdsCover, s, batch
  <2> QED
    BY <1>1, <1>2, <1>3, <2>1 DEF Downstream, IdsCover, WaitingForBatch, HasWriter
<1> QED
  BY <1>7, <1>8, <1>9, <1>10, <1>11, <1>12 DEF Downstream

-----------------------------------------------------------------------------
(* The invariant *)

LEMMA ReceiverInvInit ==
  ASSUME UnboundedStrides, Init
  PROVE  ReceiverInv
<1> USE DEF Init, SourceInit, WindowInit, ComparerInit, ReporterInit
<1>1. AnySeq(<<>>) /\ Len(<<>>) = 0 /\ DOMAIN <<>> = {}
  BY ShortSeqs
<1>2. BatchesUnderWay = {}
  BY <1>1 DEF BatchesUnderWay, WaitingForBatch
<1>3. RowsKnown
  BY <1>1 DEF RowsKnown, Waiting, NoResult
<1>4. StrideNumbersAgree
  BY DEF StrideNumbersAgree, Waiting, Busy
<1>5. BatchesInOrder
  BY <1>1, <1>2 DEF BatchesInOrder, WaitingForBatch, Closing
<1>6. RecordsAreRecords
  BY DEF RecordsAreRecords, Unopened, NotRun, IsFile, IsEntry
<1>7. EndedIsOver
  BY <1>2 DEF EndedIsOver, Ended, Unopened
<1>8. MatchesKnown /\ MatchesAccounted
  BY <1>2 DEF MatchesKnown, MatchesAccounted, Unopened, NotRun, HasWriter
<1>9. IdsCover
  BY DEF IdsCover, Unopened, WaitingForBatch
<1> QED
  BY <1>3, <1>4, <1>5, <1>6, <1>7, <1>8, <1>9 DEF ReceiverInv

\* A comparison: at most one match, of rows that the accumulator knows.
LEMMA ComparePairStep ==
  ASSUME UnboundedStrides, ReceiverInv, ComparePair
  PROVE  Downstream'
<1>1. /\ algorithm = "compare"
      /\ UNCHANGED <<rows, results, files, StrideCounter, algorithm>>
  BY DEF ComparePair, othersOfAlgorithm, sourceVars, windowVars
<1>2. /\ Downstream /\ rows \in Nat /\ comparing = StrideCounter /\ comparing \in Strides
      /\ ledger[comparing].outcome = "running"
  BY <1>1, BusyFacts DEF Busy
<1>3. PICK pair \in Pairs(Len(normalized)) :
        \/ /\ SkipPair(pair) \/ \E correlated, far \in BOOLEAN : NoMatch(pair, correlated, far)
           /\ UNCHANGED ledger
        \/ /\ Match(pair)
           /\ ledger' = [ledger EXCEPT ![StrideCounter].matches = @ \union {pair}]
  BY DEF ComparePair
<1>4. pair \in Pairs(rows)
  <2>1. Len(normalized) \in Nat /\ Len(normalized) <= rows
    BY RowsFacts DEF ReceiverInv
  <2> QED
    BY <1>2, <2>1, MoreRowsMorePairs
<1>5. CASE /\ SkipPair(pair) \/ \E correlated, far \in BOOLEAN : NoMatch(pair, correlated, far)
           /\ UNCHANGED ledger
  <2>1. UNCHANGED <<resultsChannel, resultsBuffer, comparing, ledger>>
    BY <1>5 DEF SkipPair, NoMatch, comparerVars
  <2> QED
    BY <1>1, <1>2, <2>1, QuietStep
<1>6. CASE Match(pair) /\ ledger' = [ledger EXCEPT ![StrideCounter].matches = @ \union {pair}]
  <2> DEFINE batch == resultsBuffer \union {pair}
  <2>1. comparing' = comparing
    BY <1>6 DEF Match
  <2>2. CASE resultsBuffer' = batch /\ UNCHANGED resultsChannel
    BY <1>1, <1>4, <1>6, <2>1, <2>2, KeepStep
  <2>3. CASE resultsChannel = <<>> /\ resultsChannel' = <<Batch(batch)>> /\ resultsBuffer' = {}
    <3>1. Batch(batch).pairs = batch /\ Batch(batch).stride = comparing /\ batch # {}
      BY DEF Batch
    <3>2. /\ resultsBuffer \subseteq ledger[comparing].matches /\ ledger[comparing].matches \subseteq Pairs(rows)
      BY <1>1, <1>2 DEF Downstream, MatchesKnown
    <3>3. /\ DOMAIN ledger' = Strides /\ \A s \in Strides : IsEntry(ledger'[s])
          /\ \A s \in Strides : s # comparing => ledger'[s] = ledger[s]
          /\ ledger'[comparing].matches = ledger[comparing].matches \union {pair}
          /\ ledger'[comparing].outcome = "running"
      BY <1>2, <1>6 DEF Downstream, RecordsAreRecords, IsEntry
    <3>4. ledger'[comparing].matches = ledger[comparing].matches \union batch /\ batch \subseteq Pairs(rows)
      BY <1>4, <3>2, <3>3
    <3> HIDE DEF batch
    <3>5. PICK b : b = Batch(batch)
      OBVIOUS
    <3>6. resultsBuffer \subseteq batch
      BY DEF batch
    <3> QED
      BY <1>1, <1>2, <2>1, <2>3, <3>1, <3>3, <3>4, <3>5, <3>6, SendStep DEF Busy
  <2> QED
    BY <1>6, <2>2, <2>3 DEF Match
<1> QED
  BY <1>3, <1>5, <1>6

\* StopStride: what is left, and the end.
LEMMA StopStep ==
  ASSUME UnboundedStrides, ReceiverInv, SendRest \/ FinishStride
  PROVE  Downstream'
<1> DEFINE last == IF algorithm = "leftover" THEN resultsBuffer ELSE {}
<1>1. /\ resultsChannel = <<>> /\ resultsChannel' = <<Batch(last)>>
      /\ UNCHANGED <<rows, results, files, comparing, StrideCounter>>
      /\ \/ algorithm = "leftover" /\ algorithm' = "end" /\ UNCHANGED ledger
         \/ /\ algorithm = "end" /\ algorithm' = "unlock"
            /\ ledger' = [ledger EXCEPT ![StrideCounter].outcome = "finished"]
  BY DEF SendRest, SendLeftover, FinishStride, SendEnd, AlgorithmMoves, othersOfAlgorithm, sourceVars
<1>2. /\ Downstream /\ comparing = StrideCounter /\ comparing \in Strides /\ Busy
      /\ ledger[comparing].outcome = "running"
  BY <1>1, BusyFacts DEF Busy
<1>3. /\ DOMAIN ledger' = Strides /\ \A s \in Strides : IsEntry(ledger'[s])
      /\ \A s \in Strides : s # comparing => ledger'[s] = ledger[s]
      /\ ledger'[comparing].matches = ledger[comparing].matches
      /\ ledger'[comparing].outcome = IF algorithm = "leftover" THEN "running" ELSE "finished"
  BY <1>1, <1>2 DEF Downstream, RecordsAreRecords, IsEntry
<1>4. /\ last \subseteq ledger[comparing].matches /\ ledger[comparing].matches \subseteq Pairs(rows)
      /\ algorithm = "leftover" => last # {}
  BY <1>1, <1>2 DEF Downstream, MatchesKnown, BatchesInOrder
<1>5. /\ Batch(last).pairs = last /\ Batch(last).stride = comparing
      /\ algorithm \in {"compare", "leftover"} => resultsBuffer \subseteq last
      /\ algorithm = "end" => last = {}
  BY <1>1 DEF Batch
<1> HIDE DEF last
<1>6. PICK b : b = Batch(last)
  OBVIOUS
<1>7. ledger'[comparing].matches = ledger[comparing].matches \union b.pairs /\ b.pairs \subseteq Pairs(rows)
  BY <1>3, <1>4, <1>5, <1>6
<1> QED
  BY <1>1, <1>2, <1>3, <1>4, <1>5, <1>6, <1>7, SendStep

LEMMA DownstreamStep ==
  ASSUME UnboundedStrides, ReceiverInv, Next
  PROVE  Downstream'
<1>1. rows' \in Nat /\ rows <= rows'
  BY RowsStep
<1>2. windowLocked <=> algorithm # "idle"
  BY DEF ReceiverInv, StrideNumbersAgree
<1>3. CASE Accumulate \/ TakeStride \/ Stamp
  <2>1. UNCHANGED <<results, resultsChannel, resultsBuffer, comparing, files, ledger, StrideCounter, algorithm>>
    BY <1>3 DEF Accumulate, TakeStride, Stamp, windowVars, comparerVars, receiverVars
  <2> QED
    BY <1>1, <2>1, QuietStep
<1>4. CASE DropStride \/ ShiftStride
  <2>1. /\ UNCHANGED <<results, resultsChannel, resultsBuffer, comparing, files, ledger, algorithm>>
        /\ UNCHANGED StrideCounter \/ ~windowLocked
    BY <1>4 DEF DropStride, ShiftBusy, ShiftNothing, ShiftStride, ShiftOnly, windowVars, comparerVars
  <2> QED
    BY <1>1, <1>2, <2>1, QuietStep
<1>5. CASE Normalize \/ Unlock
  <2>1. /\ UNCHANGED <<results, resultsChannel, resultsBuffer, comparing, files, ledger, StrideCounter>>
        /\ \/ algorithm = "normalize" /\ algorithm' \in {"normalize", "start"}
           \/ algorithm = "unlock" /\ algorithm' = "idle"
    BY <1>5 DEF Normalize, NormalizeRow, Unlock, AlgorithmEnds, comparerVars, othersOfAlgorithm
  <2> QED
    BY <1>1, <2>1, QuietStep
<1>6. CASE StopComparing
  <2>1. /\ UNCHANGED <<results, resultsChannel, resultsBuffer, comparing, files, ledger, StrideCounter>>
        /\ algorithm = "compare"
        /\ \/ algorithm' = "leftover" /\ resultsBuffer # {}
           \/ algorithm' = "end" /\ resultsBuffer = {}
    BY <1>6 DEF StopComparing, AlgorithmMoves, comparerVars, othersOfAlgorithm
  <2> QED
    BY <1>1, <2>1, QuietStep
<1> QED
  BY <1>3, <1>4, <1>5, <1>6, OpenStep, RunStep, CompareStep, ComparePairStep, StopStep, FailStep,
     TakeResultStep, WritePairsStep, WriteRowsStep, CloseStep
     DEF Next, BufferStep, AlgorithmStep, ResultsStep

LEMMA ReceiverInvStep ==
  ASSUME UnboundedStrides, ReceiverInv, [Next]_vars
  PROVE  ReceiverInv'
<1>1. CASE Next
  BY <1>1, RowsStep, NumbersStep, DownstreamStep DEF ReceiverInv, Downstream
<1>2. CASE UNCHANGED vars
  <2>1. UNCHANGED <<rows, channel, bufferer, buffers, normalized, ConstantRows, nextRow, windowLocked,
                    results, resultsChannel, resultsBuffer, comparing, files, ledger, StrideCounter, algorithm>>
    BY <1>2 DEF vars, sourceVars, windowVars, comparerVars, receiverVars
  <2>2. rows \in Nat
    BY DEF ReceiverInv, RowsKnown
  <2>3. Downstream'
    BY <2>1, <2>2, QuietStep
  <2>4. RowsKnown' /\ StrideNumbersAgree'
    BY <2>1 DEF ReceiverInv, RowsKnown, StrideNumbersAgree, Busy
  <2> QED
    BY <2>3, <2>4 DEF ReceiverInv, Downstream
<1> QED
  BY <1>1, <1>2

\* The receiver's invariant, on which the other theorems rest: batches in the order of
\* their strides, ends that are over, and no match lost or made up (receiver.go).
THEOREM ReceiverInvariance ==
  ASSUME UnboundedStrides
  PROVE  Spec => []ReceiverInv
  BY ReceiverInvInit, ReceiverInvStep, PTL DEF Spec

-----------------------------------------------------------------------------
(* The theorems about rows and matches *)

\* Row ids never run ahead of the accumulator's Tsids (receiver.go:263, 265, 277).
THEOREM RowIdsAlwaysResolve ==
  ASSUME UnboundedStrides
  PROVE  Spec => []RowIdsResolve
<1>1. ReceiverInv => RowIdsResolve
  <2> SUFFICES ASSUME ReceiverInv PROVE RowIdsResolve
    OBVIOUS
  <2>1. Len(buffers) <= rows /\ Len(ConstantRows) <= rows
    BY RowsFacts DEF ReceiverInv
  <2>2. \A b \in BatchesUnderWay : b.stride \in Strides
    BY DEF ReceiverInv, BatchesInOrder, UnboundedStrides
  <2> QED
    BY <2>1, <2>2 DEF ReceiverInv, MatchesKnown, RowIdsResolve
<1> QED
  BY <1>1, ReceiverInvariance, PTL

\* Nothing is written to a file after it was closed (receiver.go:249-289).
THEOREM ClosedFilesStayClosed ==
  ASSUME UnboundedStrides
  PROVE  Spec => []NoWriteAfterClose
<1>1. ReceiverInv => NoWriteAfterClose
  BY DEF ReceiverInv, EndedIsOver, NoWriteAfterClose
<1> QED
  BY <1>1, ReceiverInvariance, PTL

\* A file has matches of its own stride only, and when it is closed all of them, with the
\* names of their rows (receiver.go:249-289).
THEOREM FilesAreExact ==
  ASSUME UnboundedStrides
  PROVE  Spec => []FilesHoldTheirMatches
<1>1. ReceiverInv => FilesHoldTheirMatches
  <2> SUFFICES ASSUME ReceiverInv, NEW s \in Strides
               PROVE  /\ files[s].pairs \subseteq ledger[s].matches
                      /\ files[s].writer = "closed" =>
                           /\ ledger[s].outcome = "finished"
                           /\ files[s].pairs = ledger[s].matches
                           /\ files[s].pairs \subseteq Pairs(files[s].ids)
    BY DEF FilesHoldTheirMatches
  <2>1. files[s].pairs \subseteq ledger[s].matches
    BY DEF ReceiverInv, MatchesKnown
  <2>2. ASSUME files[s].writer = "closed"
        PROVE  /\ ledger[s].outcome = "finished" /\ OnTheWay(s) = {}
               /\ ledger[s].matches \subseteq files[s].pairs \union OnTheWay(s)
               /\ ledger[s].matches \subseteq Pairs(files[s].ids)
    <3>1. s <= comparing /\ (Busy => s # comparing) /\ ledger[s].outcome = "finished"
      BY <2>2 DEF ReceiverInv, EndedIsOver, Ended
    <3>2. UnderWay(s) = {}
      BY <2>2 DEF ReceiverInv, EndedIsOver, UnderWay
    <3>3. OnTheWay(s) = {}
      BY <3>1, <3>2 DEF OnTheWay, Busy
    <3> QED
      BY <2>2, <3>1, <3>3 DEF ReceiverInv, MatchesAccounted, IdsCover, HasWriter
  <2> QED
    BY <2>1, <2>2
<1> QED
  BY <1>1, ReceiverInvariance, PTL

-----------------------------------------------------------------------------
(* The files in the order of their strides *)

\* A file that a reader can tell from a new one.
HasContent(f) == f.pairs # {} \/ f.ids # 0 \/ f.constants # {}
Begun(s) == files[s].writer = "closed" \/ HasContent(files[s])

\* A window is only computed of rows.
RowsExist == algorithm # "idle" \/ comparing # -1 => rows > 0

\* Files are opened up to the next stride only, and nothing is written without a writer.
FilesOpened ==
  \A s \in Strides :
    /\ files[s].writer \in {"none", "open", "closed"}
    /\ files[s].writer = "none" => ~HasContent(files[s])
    /\ s > StrideCounter + 1 => files[s].writer = "none"

\* What was begun is not later than anything that is still to be written.
BegunInOrder ==
  \A s \in Strides : Begun(s) => s <= comparing /\ \A b \in BatchesUnderWay : s <= b.stride

\* Rows of the timeseries are written at the end of a stride, first all, then the constant ones;
\* hence a file is not empty when it is closed.
RowsAtTheEnd ==
  /\ \A s \in Strides :
       files[s].ids # 0 \/ files[s].constants # {} =>
         files[s].writer = "closed" \/ (results.at \in {"constants", "flush"} /\ results.batch.stride = s)
  /\ results.at = "constants" => files[results.batch.stride].constants = {}
  /\ results.at \in {"constants", "flush"} /\ HasWriter(results.batch.stride) => files[results.batch.stride].ids # 0

FilesInv == RowsExist /\ FilesOpened /\ BegunInOrder /\ RowsAtTheEnd

-----------------------------------------------------------------------------
(* What a reader sees *)

Content == [s \in Strides |-> ContentOf(files[s])]

LEMMA ContentFacts ==
  ASSUME FilesOpened, NEW s \in Strides
  PROVE  /\ Content[s] = ContentOf(files[s])
         /\ files[s].writer = "none" => Content[s] = "none"
         /\ files[s].writer = "closed" => Content[s] = "complete"
         /\ files[s].writer = "open" => Content[s] = IF HasContent(files[s]) THEN "partial" ELSE "empty"
         /\ ~Begun(s) => Content[s] \in {"none", "empty"}
<1>1. Content[s] = ContentOf(files[s])
  BY DEF Content
<1>2. files[s].writer \in {"none", "open", "closed"}
  BY DEF FilesOpened
<1> QED
  BY <1>1, <1>2 DEF ContentOf, HasContent, Begun

\* One file changes: what a reader sees of the others stays.
LEMMA OneFileChanges ==
  ASSUME NEW s \in Strides, \A t \in Strides : t # s => files'[t] = files[t]
  PROVE  Content' = [Content EXCEPT ![s] = ContentOf(files'[s])]
  BY DEF Content, ContentOf

\* The steps of ResultFiles, as a reader sees them.
LEMMA ReaderSees ==
  ASSUME NEW s \in Strides,
         \/ /\ Content[s] = "none" /\ Content' = [Content EXCEPT ![s] = "empty"]
            /\ \A t \in Strides : t > s => Content[t] = "none"
         \/ /\ \/ Content[s] = "empty" /\ Content' = [Content EXCEPT ![s] = "partial"]
               \/ Content[s] = "partial" /\ Content' = [Content EXCEPT ![s] = "complete"]
            /\ \A t \in Strides : t > s => Content[t] \in {"none", "empty"}
  PROVE  RF!Next
<1>1. RF!Create(s) \/ RF!Write(s) \/ RF!Close(s)
  BY DEF RF!Create, RF!Write, RF!Close, RF!InTurn, RF!Later, Content
<1> QED
  BY <1>1 DEF RF!Next

\* What a step must keep and show.
Kept == FilesInv' /\ (RF!Next \/ Content' = Content)

-----------------------------------------------------------------------------
(* Steps that leave the files alone *)

\* Samples may come, strides be counted and compared, and batches of the current one be sent.
LEMMA OthersStep ==
  ASSUME UnboundedStrides, ReceiverInv, FilesInv, UNCHANGED <<files, results>>,
         rows' \in Nat, rows <= rows', StrideCounter \in Nat, StrideCounter' \in Nat, StrideCounter <= StrideCounter',
         comparing \in Int, comparing' \in Int, comparing <= comparing',
         algorithm' # "idle" \/ comparing' # -1 => rows' > 0,
         \A b \in BatchesUnderWay' : b \in BatchesUnderWay \/ b.stride = comparing'
  PROVE  FilesInv'
<1> USE DEF FilesInv
<1>1. RowsExist' /\ RowsAtTheEnd'
  BY DEF RowsExist, RowsAtTheEnd, HasWriter
<1>2. FilesOpened'
  <2>1. FilesOpened /\ UNCHANGED files
    OBVIOUS
  <2>2. \A s \in Strides : s > StrideCounter' + 1 => s > StrideCounter + 1
    <3>1. \A a, b, c \in Nat : a <= b /\ c > b + 1 => c > a + 1
      OBVIOUS
    <3>2. Strides \subseteq Nat
      BY DEF UnboundedStrides
    <3> QED
      BY <3>1, <3>2, Zenon
  <2> QED
    BY <2>1, <2>2 DEF FilesOpened, HasContent
<1>3. BegunInOrder'
  BY DEF BegunInOrder, Begun, HasContent, UnboundedStrides
<1> QED
  BY <1>1, <1>2, <1>3

LEMMA SamplesStep ==
  ASSUME UnboundedStrides, ReceiverInv, FilesInv, Accumulate \/ TakeStride \/ DropStride \/ ShiftStride \/ Stamp
  PROVE  FilesInv'
<1>1. RowsKnown /\ StrideNumbersAgree /\ RowsExist
  BY DEF ReceiverInv, FilesInv
<1>2. /\ UNCHANGED <<files, results, comparing, algorithm, resultsChannel>>
      /\ StrideCounter' \in {StrideCounter, StrideCounter + 1}
  BY DEF Accumulate, TakeStride, DropStride, ShiftStride, Stamp, ShiftBusy, ShiftNothing, ShiftOnly,
         windowVars, comparerVars, receiverVars
<1>3. rows' \in Nat /\ rows <= rows'
  BY RowsStep DEF Next, BufferStep
<1>4. rows \in Nat /\ StrideCounter \in Nat /\ comparing \in Int
  BY <1>1 DEF RowsKnown, StrideNumbersAgree
<1>5. BatchesUnderWay' = BatchesUnderWay
  BY <1>2 DEF BatchesUnderWay
<1>6. algorithm' # "idle" \/ comparing' # -1 => rows' > 0
  BY <1>1, <1>2, <1>3, <1>4 DEF RowsExist
<1> QED
  BY <1>2, <1>3, <1>4, <1>5, <1>6, OthersStep

\* The window that is computed has the rows of the buffer, and there is one at least.
LEMMA StartStep ==
  ASSUME UnboundedStrides, ReceiverInv, FilesInv, ShiftAndRun
  PROVE  FilesInv'
<1>1. RowsKnown /\ StrideNumbersAgree /\ RowsExist
  BY DEF ReceiverInv, FilesInv
<1>2. /\ UNCHANGED <<rows, files, results, comparing, resultsChannel>> /\ StrideCounter' = StrideCounter + 1
      /\ ~IsEmpty(BufferOf(bufferer.result))
  BY DEF ShiftAndRun, ShiftAndStart, Accepted, sourceVars, comparerVars
<1>3. rows \in Nat /\ StrideCounter \in Nat /\ comparing \in Int
  BY <1>1 DEF RowsKnown, StrideNumbersAgree
<1>4. rows > 0
  <2>1. bufferer.result.rows \in Nat /\ bufferer.result.rows <= rows
    BY <1>1, RowsFacts
  <2>2. ASSUME bufferer.result.rows = 0 PROVE FALSE
    <3>1. BufferOf(bufferer.result) = <<>>
      BY <2>2 DEF BufferOf
    <3> QED
      BY <1>2, <3>1 DEF IsEmpty
  <2> QED
    BY <1>3, <2>1, <2>2
<1>5. BatchesUnderWay' = BatchesUnderWay
  BY <1>2 DEF BatchesUnderWay
<1> QED
  BY <1>2, <1>3, <1>4, <1>5, OthersStep

\* The algorithm's batches are of the stride it is at.
LEMMA AlgorithmFilesStep ==
  ASSUME UnboundedStrides, ReceiverInv, FilesInv, AlgorithmStep
  PROVE  FilesInv' /\ UNCHANGED files
<1>1. RowsKnown /\ StrideNumbersAgree /\ RowsExist /\ BatchesInOrder
  BY DEF ReceiverInv, FilesInv
<1>2. UNCHANGED <<rows, files, results, StrideCounter>> /\ algorithm # "idle"
  BY DEF AlgorithmStep, Normalize, NormalizeRow, StartComparing, ComparePair, StopComparing, SendRest, FinishStride, Fail, Unlock,
         AlgorithmMoves, AlgorithmEnds, othersOfAlgorithm, sourceVars, windowVars
<1>3. rows \in Nat /\ StrideCounter \in Nat /\ comparing \in Int /\ rows > 0
  BY <1>1, <1>2 DEF RowsKnown, StrideNumbersAgree, RowsExist
<1>4. comparing' \in Int /\ comparing <= comparing'
  <2>1. CASE StartComparing
    BY <1>1, <1>3, <2>1 DEF StartComparing, AlgorithmMoves, StartStride, RejectStride, BeginStride, StrideNumbersAgree, comparerVars
  <2>2. CASE ~StartComparing
    <3>1. comparing' = comparing
      BY <2>2 DEF AlgorithmStep, Normalize, ComparePair, SkipPair, NoMatch, Match, StopComparing, SendRest, SendLeftover,
                  FinishStride, SendEnd, Fail, Unlock, comparerVars
    <3> QED
      BY <1>3, <3>1
  <2> QED
    BY <2>1, <2>2
<1>5. UNCHANGED resultsChannel \/ \E pairs : resultsChannel' = <<Batch(pairs)>> /\ comparing' = comparing
  BY DEF AlgorithmStep, Normalize, StartComparing, StartStride, RejectStride, BeginStride, ComparePair, SkipPair, NoMatch, Match,
         StopComparing, SendRest, SendLeftover, FinishStride, SendEnd, Fail, Unlock, comparerVars
<1>6. \A b \in BatchesUnderWay' : b \in BatchesUnderWay \/ b.stride = comparing'
  <2>1. CASE UNCHANGED resultsChannel
    BY <1>2, <2>1 DEF BatchesUnderWay
  <2>2. ASSUME NEW pairs, resultsChannel' = <<Batch(pairs)>>, comparing' = comparing
        PROVE  \A b \in BatchesUnderWay' : b \in BatchesUnderWay \/ b.stride = comparing'
    <3>1. DOMAIN resultsChannel' = {1} /\ resultsChannel'[1] = Batch(pairs)
      BY <2>2, ShortSeqs
    <3>2. Batch(pairs).stride = comparing'
      BY <2>2 DEF Batch
    <3> QED
      BY <1>2, <3>1, <3>2 DEF BatchesUnderWay
  <2> QED
    BY <1>5, <2>1, <2>2
<1> QED
  BY <1>2, <1>3, <1>4, <1>6, OthersStep

-----------------------------------------------------------------------------
(* Steps that open, write and close *)

\* A file is created after all others, or not at all.
LEMMA CreateStep ==
  ASSUME UnboundedStrides, ReceiverInv, FilesInv, OpenFile
  PROVE  Kept
<1> DEFINE new == bufferer.stride
<1>1. RowsKnown /\ StrideNumbersAgree /\ BatchesInOrder /\ RecordsAreRecords
  BY DEF ReceiverInv
<1>2. /\ UNCHANGED <<rows, results, resultsChannel, comparing, algorithm, StrideCounter>>
      /\ new = StrideCounter + 1 /\ StrideCounter \in Nat /\ new \in Strides
      /\ rows \in Nat /\ comparing \in Int
  BY <1>1 DEF OpenFile, sourceVars, windowVars, comparerVars, StrideNumbersAgree, UnboundedStrides, RowsKnown
<1>3. BatchesUnderWay' = BatchesUnderWay
  BY <1>2 DEF BatchesUnderWay
<1>4. CASE UNCHANGED files
  <2>1. FilesInv'
    BY <1>2, <1>3, <1>4, OthersStep DEF FilesInv, RowsExist
  <2>2. Content' = Content
    BY <1>4 DEF Content
  <2> QED
    BY <2>1, <2>2 DEF Kept
<1>5. ASSUME NEW start, NEW end, NEW writer \in {"open", "none"}, ~HasWriter(new),
             files' = [files EXCEPT ![new] = [@ EXCEPT !.start = start, !.end = end, !.writer = writer]]
      PROVE  Kept
  <2>1. /\ \A s \in Strides : s # new => files'[s] = files[s]
        /\ files'[new].writer = writer /\ ~HasContent(files[new]) /\ ~HasContent(files'[new])
        /\ \A s \in Strides : HasContent(files'[s]) <=> HasContent(files[s])
        /\ \A s \in Strides : files'[s].ids = files[s].ids /\ files'[s].constants = files[s].constants
    BY <1>1, <1>2, <1>5 DEF RecordsAreRecords, IsFile, HasContent, FilesInv, FilesOpened, HasWriter
  <2>2. RowsExist'
    BY <1>2 DEF FilesInv, RowsExist
  <2>3. FilesOpened'
    BY <1>2, <2>1 DEF FilesInv, FilesOpened
  <2>4. \A s \in Strides : Begun(s)' => Begun(s)
    BY <2>1 DEF Begun
  <2>5. BegunInOrder'
    BY <1>2, <1>3, <2>4 DEF FilesInv, BegunInOrder
  <2>6. RowsAtTheEnd'
    <3>1. \A b \in BatchesUnderWay : b.stride \in Strides /\ b.stride # new
      BY <1>1, <1>2 DEF BatchesInOrder, StrideNumbersAgree, UnboundedStrides
    <3>2. results.at # "recv" => results.batch.stride \in Strides /\ results.batch.stride # new
      BY <3>1 DEF BatchesUnderWay
    <3> QED
      BY <1>2, <2>1, <3>2 DEF FilesInv, RowsAtTheEnd, HasWriter, HasContent
  <2>7. FilesOpened /\ Content[new] = "none" /\ \A t \in Strides : t > new => Content[t] = "none"
    BY <1>2, <1>5, ContentFacts DEF FilesInv, FilesOpened, HasWriter
  <2>8. Content' = [Content EXCEPT ![new] = ContentOf(files'[new])]
    BY <1>2, <2>1, OneFileChanges
  <2>9. CASE writer = "open"
    <3>1. ContentOf(files'[new]) = "empty"
      BY <2>1, <2>9 DEF ContentOf, HasContent
    <3> QED
      BY <1>2, <2>2, <2>3, <2>5, <2>6, <2>7, <2>8, <3>1, ReaderSees DEF FilesInv, Kept
  <2>10. CASE writer = "none"
    <3>1. ContentOf(files'[new]) = "none"
      BY <2>1, <2>10 DEF ContentOf
    <3>2. Content' = Content
      BY <1>2, <2>7, <2>8, <3>1 DEF Content
    <3> QED
      BY <2>2, <2>3, <2>5, <2>6, <3>2 DEF FilesInv, Kept
  <2> QED
    BY <2>9, <2>10
<1> QED
  BY <1>4, <1>5 DEF OpenFile, InitializeStride

\* The batch in hand was under way before; what is written of its stride is not closed yet.
LEMMA TakeStep ==
  ASSUME UnboundedStrides, ReceiverInv, FilesInv, TakeResult
  PROVE  Kept
<1> DEFINE b == resultsChannel[1]
<1>1. BatchesInOrder /\ EndedIsOver /\ results.at = "recv" /\ resultsChannel # <<>>
  BY DEF ReceiverInv, TakeResult, TakeBatch
<1>2. Head(resultsChannel) = b /\ Tail(resultsChannel) = <<>> /\ BatchesUnderWay = {b}
  BY <1>1, UnderWayFacts, TakeFromOne DEF BatchesInOrder
<1>3. /\ UNCHANGED <<rows, files, comparing, StrideCounter, algorithm>> /\ resultsChannel' = <<>>
      /\ results' = [at |-> IF b.pairs = {} THEN "ids" ELSE "pairs", batch |-> b]
  BY <1>2 DEF TakeResult, TakeBatch, othersOfResults, sourceVars, windowVars
<1> HIDE DEF b
<1>4. BatchesUnderWay' = BatchesUnderWay
  <2>1. DOMAIN resultsChannel' = {}
    BY <1>3, ShortSeqs
  <2> QED
    BY <1>2, <1>3, <2>1 DEF BatchesUnderWay
<1>5. RowsExist' /\ FilesOpened'
  BY <1>3 DEF FilesInv, RowsExist, FilesOpened
<1>6. BegunInOrder'
  BY <1>3, <1>4 DEF FilesInv, BegunInOrder, Begun
<1>7. RowsAtTheEnd'
  BY <1>1, <1>3 DEF FilesInv, RowsAtTheEnd
<1>8. Content' = Content
  BY <1>3 DEF Content
<1> QED
  BY <1>5, <1>6, <1>7, <1>8 DEF FilesInv, Kept

\* What all writing steps have in common: no later file was begun, there are rows, and the
\* batches that are left are not earlier than the file.
LEMMA WritingInTurn ==
  ASSUME UnboundedStrides, ReceiverInv, FilesInv, WritePairs \/ WriteIds \/ WriteConstants \/ CloseFile
  PROVE  /\ results.batch.stride \in Strides /\ files[results.batch.stride].writer # "closed"
         /\ \A t \in Strides : t > results.batch.stride => Content[t] \in {"none", "empty"}
         /\ \A b \in BatchesUnderWay : results.batch.stride <= b.stride
         /\ results.batch.stride <= comparing
         /\ rows \in Nat /\ rows > 0
         /\ UNCHANGED <<rows, comparing, StrideCounter, algorithm, resultsChannel>>
         /\ RowsExist'
<1> DEFINE s == results.batch.stride
<1>1. /\ Downstream /\ rows \in Nat /\ results.at # "recv"
      /\ UNCHANGED <<rows, resultsChannel, comparing, StrideCounter, algorithm>>
      /\ results.batch \in BatchesUnderWay /\ s \in Strides
      /\ s <= comparing /\ comparing \in Int
      /\ files[s].writer # "closed"
  BY WritingFacts
<1>2. rows > 0 /\ RowsExist'
  BY <1>1 DEF FilesInv, RowsExist, UnboundedStrides
<1>3. \A t \in Strides : t > s => ~Begun(t)
  BY <1>1 DEF FilesInv, BegunInOrder, UnboundedStrides
<1>4. \A t \in Strides : t > s => Content[t] \in {"none", "empty"}
  BY <1>3, ContentFacts DEF FilesInv
<1>5. \A b \in BatchesUnderWay : s <= b.stride
  <2>1. \A i \in DOMAIN resultsChannel : s <= resultsChannel[i].stride
    <3>1. \A i \in DOMAIN resultsChannel : resultsChannel[i] \in BatchesUnderWay
      BY DEF BatchesUnderWay
    <3> QED
      BY <1>1, <3>1 DEF Downstream, BatchesInOrder, Closing, UnboundedStrides
  <2> QED
    BY <1>1, <2>1 DEF BatchesUnderWay, UnboundedStrides
<1> QED
  BY <1>1, <1>2, <1>4, <1>5

\* What a step does that gives the file of the batch in hand some content, or leaves it alone.
LEMMA FileWritten ==
  ASSUME UnboundedStrides, ReceiverInv, FilesInv, NEW s \in Strides,
         WritePairs \/ WriteIds \/ WriteConstants, s = results.batch.stride,
         \A t \in Strides : t # s => files'[t] = files[t],
         files'[s].writer = files[s].writer,
         ~HasWriter(s) => files'[s] = files[s],
         HasContent(files[s]) => HasContent(files'[s]),
         \A b \in BatchesUnderWay' : b \in BatchesUnderWay
  PROVE  RowsExist' /\ FilesOpened' /\ BegunInOrder' /\ (RF!Next \/ Content' = Content)
<1>1. /\ files[s].writer # "closed"
      /\ \A t \in Strides : t > s => Content[t] \in {"none", "empty"}
      /\ \A b \in BatchesUnderWay : s <= b.stride
      /\ s <= comparing
      /\ UNCHANGED <<rows, comparing, StrideCounter, algorithm, resultsChannel>>
      /\ RowsExist'
  BY WritingInTurn
<1>2. FilesOpened'
  BY <1>1 DEF FilesInv, FilesOpened, HasWriter
<1>3. \A t \in Strides : t # s => (Begun(t)' <=> Begun(t))
  BY DEF Begun
<1>4. BegunInOrder'
  BY <1>1, <1>3 DEF FilesInv, BegunInOrder
<1>5. Content' = [Content EXCEPT ![s] = ContentOf(files'[s])]
  BY OneFileChanges
<1>6. Content[s] = ContentOf(files[s]) /\ files[s].writer \in {"none", "open"}
  BY <1>1, ContentFacts DEF FilesInv, FilesOpened
<1>7. CASE ContentOf(files'[s]) = ContentOf(files[s])
  BY <1>1, <1>2, <1>4, <1>5, <1>6, <1>7 DEF Content
<1>8. CASE ContentOf(files'[s]) # ContentOf(files[s])
  <2>1. files[s].writer = "open"
    BY <1>6, <1>8 DEF HasWriter
  <2>2. Content[s] = "empty" /\ ContentOf(files'[s]) = "partial"
    BY <1>6, <1>8, <2>1 DEF ContentOf, HasContent
  <2> QED
    BY <1>1, <1>2, <1>4, <1>5, <2>2, ReaderSees
<1> QED
  BY <1>7, <1>8

LEMMA PairsFilesStep ==
  ASSUME UnboundedStrides, ReceiverInv, FilesInv, WritePairs
  PROVE  Kept
<1> DEFINE batch == results.batch
           s == batch.stride
<1>1. s \in Strides /\ results.at = "pairs" /\ results' = WaitingForBatch /\ AddCorrelatedPairs(s, batch.pairs)
      /\ UNCHANGED resultsChannel /\ RecordsAreRecords
  BY WritingInTurn DEF WritePairs, ReceiverInv
<1>2. /\ \A t \in Strides : t # s => files'[t] = files[t]
      /\ ~HasWriter(s) => files'[s] = files[s]
      /\ files'[s].writer = files[s].writer
      /\ files'[s].ids = files[s].ids /\ files'[s].constants = files[s].constants
      /\ files[s].pairs \subseteq files'[s].pairs
  <2>1. CASE HasWriter(s)
    BY <1>1, <2>1 DEF RecordsAreRecords, IsFile, AddCorrelatedPairs, Written
  <2>2. CASE ~HasWriter(s)
    BY <1>1, <2>2 DEF AddCorrelatedPairs, Written
  <2> QED
    BY <2>1, <2>2
<1>3. HasContent(files[s]) => HasContent(files'[s])
  BY <1>2 DEF HasContent
<1>4. \A b \in BatchesUnderWay' : b \in BatchesUnderWay
  BY <1>1 DEF BatchesUnderWay, WaitingForBatch
<1>5. RowsAtTheEnd'
  BY <1>1, <1>2 DEF FilesInv, RowsAtTheEnd, WaitingForBatch
<1>6. RowsExist' /\ FilesOpened' /\ BegunInOrder' /\ (RF!Next \/ Content' = Content)
  BY <1>1, <1>2, <1>3, <1>4, FileWritten
<1> QED
  BY <1>5, <1>6 DEF FilesInv, Kept

\* The ids of all timeseries, then the constant rows: neither is in the file yet.
LEMMA RowsFilesStep ==
  ASSUME UnboundedStrides, ReceiverInv, FilesInv, WriteIds \/ WriteConstants
  PROVE  Kept
<1> DEFINE s == results.batch.stride
<1>1. /\ s \in Strides /\ RecordsAreRecords /\ UNCHANGED resultsChannel /\ results.at # "recv"
      /\ results'.batch = results.batch /\ results'.at # "recv" /\ rows \in Nat /\ rows > 0 /\ files[s].writer # "closed"
      /\ WriteIds => results.at = "ids" /\ results'.at = "constants" /\ RecordTimeseriesIds(s, rows)
      /\ WriteConstants => results.at = "constants" /\ results'.at = "flush" /\ \E constant : AddConstantRows(s, constant)
  <2>1. results = [at |-> results.at, batch |-> results.batch]
    BY DEF ReceiverInv, BatchesInOrder
  <2> QED
    BY <2>1, WritingInTurn DEF WriteIds, WriteConstants, ReceiverInv
<1>2. /\ \A t \in Strides : t # s => files'[t] = files[t]
      /\ files'[s].writer = files[s].writer /\ files'[s].pairs = files[s].pairs
      /\ ~HasWriter(s) => files'[s] = files[s]
      /\ HasWriter(s) => files'[s].ids = IF results.at = "ids" THEN rows ELSE files[s].ids
      /\ results.at = "ids" => files'[s].constants = files[s].constants
  <2>1. CASE ~HasWriter(s)
    BY <1>1, <2>1 DEF RecordTimeseriesIds, AddConstantRows, Written
  <2>2. CASE HasWriter(s) /\ WriteIds
    <3>1. files' = [files EXCEPT ![s] = [files[s] EXCEPT !.ids = rows]]
      BY <1>1, <2>2 DEF RecordTimeseriesIds, Written
    <3> QED
      BY <1>1, <2>2, <3>1 DEF RecordsAreRecords, IsFile
  <2>3. CASE HasWriter(s) /\ WriteConstants
    <3>1. PICK constant : files' = [files EXCEPT ![s] = [files[s] EXCEPT !.constants = constant]]
      BY <1>1, <2>3 DEF AddConstantRows, Written
    <3> QED
      BY <1>1, <2>3, <3>1 DEF RecordsAreRecords, IsFile
  <2> QED
    BY <2>1, <2>2, <2>3
<1>3. \A b \in BatchesUnderWay' : b \in BatchesUnderWay
  BY <1>1 DEF BatchesUnderWay
<1>4. /\ results.at = "ids" => files[s].ids = 0 /\ files[s].constants = {}
      /\ results.at = "constants" => files[s].constants = {} /\ (HasWriter(s) => files[s].ids # 0)
      /\ results.at \in {"ids", "constants"}
  BY <1>1 DEF FilesInv, RowsAtTheEnd
<1>5. HasContent(files[s]) => HasContent(files'[s])
  BY <1>1, <1>2, <1>4 DEF HasContent
<1>6. RowsAtTheEnd'
  <2>1. HasWriter(s)' => files'[s].ids # 0
    BY <1>1, <1>2, <1>4 DEF HasWriter
  <2>2. results'.at = "constants" => files'[s].constants = {}
    BY <1>1, <1>2, <1>4
  <2>3. \A t \in Strides : t # s /\ (files[t].ids # 0 \/ files[t].constants # {}) => files[t].writer = "closed"
    BY DEF FilesInv, RowsAtTheEnd
  <2> QED
    BY <1>1, <1>2, <2>1, <2>2, <2>3 DEF RowsAtTheEnd
<1>7. RowsExist' /\ FilesOpened' /\ BegunInOrder' /\ (RF!Next \/ Content' = Content)
  BY <1>1, <1>2, <1>3, <1>5, FileWritten
<1> QED
  BY <1>6, <1>7 DEF FilesInv, Kept

\* A file is not empty when it is closed, and nothing of its stride is under way any more.
LEMMA CloseFilesStep ==
  ASSUME UnboundedStrides, ReceiverInv, FilesInv, CloseFile
  PROVE  Kept
<1> DEFINE s == results.batch.stride
<1>1. /\ s \in Strides /\ RecordsAreRecords /\ results.at = "flush" /\ results' = WaitingForBatch /\ Flush(s)
      /\ files[s].writer # "closed" /\ s <= comparing
      /\ UNCHANGED <<resultsChannel, comparing, StrideCounter>>
      /\ \A t \in Strides : t > s => Content[t] \in {"none", "empty"}
      /\ \A b \in BatchesUnderWay : s <= b.stride
      /\ RowsExist'
  BY WritingInTurn DEF CloseFile, ReceiverInv
<1>2. BatchesUnderWay' \subseteq BatchesUnderWay
  BY <1>1 DEF BatchesUnderWay, WaitingForBatch
<1>3. CASE ~HasWriter(s)
  <2>1. UNCHANGED files
    BY <1>1, <1>3 DEF Flush, Written
  <2>2. FilesOpened'
    BY <1>1, <2>1 DEF FilesInv, FilesOpened
  <2>3. BegunInOrder'
    BY <1>1, <1>2, <2>1 DEF FilesInv, BegunInOrder, Begun
  <2>4. RowsAtTheEnd'
    BY <1>1, <1>3, <2>1 DEF FilesInv, RowsAtTheEnd, FilesOpened, HasContent, HasWriter, WaitingForBatch
  <2>5. Content' = Content
    BY <2>1 DEF Content
  <2> QED
    BY <1>1, <2>2, <2>3, <2>4, <2>5 DEF FilesInv, Kept
<1>4. CASE HasWriter(s)
  <2>1. /\ \A t \in Strides : t # s => files'[t] = files[t]
        /\ files'[s].writer = "closed"
    BY <1>1, <1>4 DEF RecordsAreRecords, IsFile, Flush, Written
  <2>2. FilesOpened'
    BY <1>1, <1>4, <2>1 DEF FilesInv, FilesOpened, HasWriter
  <2>3. \A t \in Strides : t # s => (Begun(t)' <=> Begun(t))
    BY <2>1 DEF Begun
  <2>4. BegunInOrder'
    BY <1>1, <1>2, <2>3 DEF FilesInv, BegunInOrder
  <2>5. RowsAtTheEnd'
    BY <1>1, <2>1 DEF FilesInv, RowsAtTheEnd, WaitingForBatch
  <2>6. files[s].writer = "open" /\ files[s].ids # 0
    BY <1>1, <1>4 DEF FilesInv, FilesOpened, RowsAtTheEnd, HasWriter
  <2>7. Content[s] = "partial"
    BY <1>1, <2>6, ContentFacts DEF FilesInv, HasContent
  <2>8. Content' = [Content EXCEPT ![s] = "complete"]
    <3>1. ContentOf(files'[s]) = "complete"
      BY <2>1 DEF ContentOf
    <3> QED
      BY <1>1, <2>1, <3>1, OneFileChanges
  <2> QED
    BY <1>1, <2>2, <2>4, <2>5, <2>7, <2>8, ReaderSees DEF FilesInv, Kept
<1> QED
  BY <1>3, <1>4

-----------------------------------------------------------------------------
(* The theorems about what a reader sees *)

LEMMA FilesInvInit ==
  ASSUME UnboundedStrides, Init
  PROVE  FilesInv
<1> USE DEF Init, SourceInit, WindowInit, ComparerInit, ReporterInit
<1>1. \A s \in Strides : files[s] = Unopened
  OBVIOUS
<1>2. \A s \in Strides : ~HasContent(files[s]) /\ files[s].writer = "none" /\ ~Begun(s)
  BY <1>1 DEF HasContent, Unopened, Begun
<1>3. RowsExist /\ results.at = "recv"
  BY DEF RowsExist, WaitingForBatch
<1> QED
  BY <1>2, <1>3 DEF FilesInv, FilesOpened, BegunInOrder, RowsAtTheEnd, HasContent

LEMMA KeptStep ==
  ASSUME UnboundedStrides, ReceiverInv, FilesInv, [Next]_vars
  PROVE  Kept
<1>1. CASE Accumulate \/ TakeStride \/ DropStride \/ ShiftStride \/ Stamp \/ ShiftAndRun
  <2>1. UNCHANGED files
    BY <1>1 DEF Accumulate, TakeStride, DropStride, ShiftStride, Stamp, ShiftAndRun
  <2> QED
    BY <1>1, <2>1, SamplesStep, StartStep DEF Kept, Content
<1>2. CASE AlgorithmStep
  BY <1>2, AlgorithmFilesStep DEF Kept, Content
<1>3. CASE OpenFile \/ ResultsStep
  BY <1>3, CreateStep, TakeStep, PairsFilesStep, RowsFilesStep, CloseFilesStep DEF ResultsStep
<1>4. CASE UNCHANGED vars
  <2>1. UNCHANGED <<files, results, rows, StrideCounter, comparing, algorithm, resultsChannel>>
    BY <1>4 DEF vars, sourceVars, windowVars, comparerVars, receiverVars
  <2>2. FilesInv'
    BY <2>1 DEF FilesInv, RowsExist, FilesOpened, BegunInOrder, RowsAtTheEnd, Begun, BatchesUnderWay, HasWriter, HasContent
  <2> QED
    BY <2>1, <2>2 DEF Kept, Content
<1> QED
  BY <1>1, <1>2, <1>3, <1>4 DEF Next, BufferStep

\* The invariant of the files: they are begun in order, and not empty when they are closed
\* (receiver.go:216, 249-289).
THEOREM FilesInvariance ==
  ASSUME UnboundedStrides
  PROVE  Spec => []FilesInv
<1>1. Init => FilesInv
  BY FilesInvInit
<1>2. ReceiverInv /\ FilesInv /\ [Next]_vars => FilesInv'
  BY KeptStep DEF Kept
<1> QED
  BY <1>1, <1>2, ReceiverInvariance, PTL DEF Spec

\* For all that three goroutines open, write and close them, result files come, grow and end
\* in the order of their strides, and a closed one stays as it is (receiver.go).
THEOREM ReceiverIsResultFiles ==
  ASSUME UnboundedStrides
  PROVE  Spec => ImplementsResultFiles
<1>1. Init => RF!Init
  BY DEF Init, ReporterInit, RF!Init, ContentOf, Unopened
<1>2. ReceiverInv /\ FilesInv /\ [Next]_vars => [RF!Next]_[s \in Strides |-> ContentOf(files[s])]
  BY KeptStep DEF Kept, Content
<1> QED
  BY <1>1, <1>2, ReceiverInvariance, FilesInvariance, PTL DEF Spec, ImplementsResultFiles, RF!Spec

-----------------------------------------------------------------------------
(* The labels of the files *)

\* What FilesBeginWithTheirWindow is about.
WholeStrides == WindowSize % StrideLength = 0 /\ StridesPerWindow > 1

\* A row of the window: each of its strides begins with the start that was noted for it, the
\* last one being the given stride.
DatedBy(row, starts, last) ==
  /\ AnySeq(row)
  /\ \E n \in 1 .. StridesPerWindow :
       /\ n <= last /\ Len(row) = n * StrideLength
       /\ \A j \in 0 .. n - 1 : row[j * StrideLength + 1].start = starts[last - n + 1 + j]

\* The timeseries of a stride result are those of the window and possibly more.
RowsForward ==
  /\ \A i \in DOMAIN channel : Len(buffers) <= channel[i].rows
  /\ bufferer.at \in {"initialize", "shift"} =>
       /\ Len(buffers) <= bufferer.result.rows
       /\ \A i \in DOMAIN channel : bufferer.result.rows <= channel[i].rows

\* The start of the stride in hand is noted, and a file is only opened for a window that can be full.
StartsNoted ==
  /\ DOMAIN strideStartTimes = Strides
  /\ bufferer.at \in {"initialize", "shift"} => strideStartTimes[StrideCounter + 1] = bufferer.result.start
  /\ bufferer.at = "initialize" => bufferer.stride >= StridesPerWindow

\* The columns of the window are those of the last strides the window counted.
WindowDated == buffers # <<>> => DatedBy(buffers[1], strideStartTimes, StrideCounter)

\* A file and a computed window bear the start of their window's first stride.
LabelsDated ==
  \A s \in Strides :
    /\ files[s].writer # "none" =>
         s >= StridesPerWindow /\ s <= StrideCounter + 1 /\ files[s].start = strideStartTimes[FirstStride(s)]
    /\ ledger[s].outcome # "none" =>
         s >= StridesPerWindow /\ s <= StrideCounter /\ ledger[s].start = strideStartTimes[FirstStride(s)]

LabelInv == RowsForward /\ StartsNoted /\ (WholeStrides => WindowDated /\ LabelsDated)

-----------------------------------------------------------------------------
(* Rows of whole strides *)

LEMMA WholeFacts ==
  ASSUME WholeStrides
  PROVE  /\ StrideLength \in Nat \ {0} /\ WindowSize \in Nat \ {0} /\ StridesPerWindow \in Nat /\ StridesPerWindow > 1
         /\ WindowSize = StridesPerWindow * StrideLength
<1>1. StrideLength \in Nat \ {0} /\ WindowSize \in Nat \ {0}
  BY WindowAssumption, ReceiverAssumption
<1>2. WindowSize = StrideLength * (WindowSize \div StrideLength) + (WindowSize % StrideLength)
      /\ WindowSize \div StrideLength \in Nat
  BY <1>1
<1> QED
  BY <1>1, <1>2 DEF WholeStrides, StridesPerWindow

LEMMA Multiples ==
  ASSUME NEW d \in Nat \ {0}, NEW a \in Nat, NEW b \in Nat
  PROVE  /\ a * d \in Nat /\ (a + 1) * d = a * d + d
         /\ a < b => a * d + d <= b * d
         /\ a <= b => a * d <= b * d
         /\ a * d + d <= b * d => a < b
<1>1. a * d \in Nat /\ b * d \in Nat /\ (a + 1) * d = a * d + d
  OBVIOUS
<1>2. ASSUME a <= b
      PROVE  a * d <= b * d
  <2>1. (b - a) * d >= 0
    BY <1>2
  <2> QED
    BY <2>1
<1>3. ASSUME a < b
      PROVE  a * d + d <= b * d
  <2>1. (b - a - 1) * d >= 0
    BY <1>3
  <2> QED
    BY <2>1
<1>4. ASSUME a * d + d <= b * d, b <= a
      PROVE  FALSE
  <2>1. (a - b) * d >= 0
    BY <1>4
  <2> QED
    BY <2>1, <1>4
<1> QED
  BY <1>1, <1>2, <1>3, <1>4

LEMMA JoinedFacts ==
  ASSUME NEW s, NEW t, AnySeq(s), AnySeq(t)
  PROVE  /\ AnySeq(s \o t) /\ Len(s \o t) = Len(s) + Len(t)
         /\ \A i \in 1 .. Len(s) : (s \o t)[i] = s[i]
         /\ \A i \in 1 .. Len(t) : (s \o t)[Len(s) + i] = t[i]
<1> DEFINE S == {s[i] : i \in DOMAIN s} \union {t[i] : i \in DOMAIN t}
<1>1. s \in Seq(S) /\ t \in Seq(S)
  BY SeqDef DEF AnySeq
<1> HIDE DEF S
<1>2. s \o t \in Seq(S)
  BY <1>1
<1>3. Len(s \o t) = Len(s) + Len(t) /\ Len(s) \in Nat /\ Len(t) \in Nat
  BY <1>1
<1>4. \A i \in 1 .. Len(s) : (s \o t)[i] = s[i]
  BY <1>1
<1>5. \A i \in 1 .. Len(t) : (s \o t)[Len(s) + i] = t[i]
  BY <1>1
<1> QED
  BY <1>2, <1>3, <1>4, <1>5, SeqIsAnySeq

\* What is left of a sequence without its first elements.
LEMMA RestFacts ==
  ASSUME NEW s, AnySeq(s), NEW m \in 0 .. Len(s)
  PROVE  /\ AnySeq(SubSeq(s, m + 1, Len(s))) /\ Len(SubSeq(s, m + 1, Len(s))) = Len(s) - m
         /\ \A i \in 1 .. Len(s) - m : SubSeq(s, m + 1, Len(s))[i] = s[m + i]
<1>1. Len(s) \in Nat
  BY AnySeqFacts
<1>2. SubSeq(s, m + 1, Len(s)) = [i \in 1 .. Len(s) - m |-> s[i + m]]
  BY <1>1 DEF SubSeq
<1> DEFINE t == SubSeq(s, m + 1, Len(s))
<1>3. t = [i \in 1 .. Len(s) - m |-> t[i]] /\ Len(s) - m \in Nat
  BY <1>1, <1>2
<1> HIDE DEF t
<1>4. AnySeq(t) /\ Len(t) = Len(s) - m
  BY <1>3, FunctionIsAnySeq
<1> QED
  BY <1>1, <1>2, <1>4 DEF t

LEMMA DatedIntro ==
  ASSUME NEW row, AnySeq(row), NEW starts, NEW last, NEW n \in 1 .. StridesPerWindow, n <= last,
         Len(row) = n * StrideLength,
         \A j \in 0 .. n - 1 : row[j * StrideLength + 1].start = starts[last - n + 1 + j]
  PROVE  DatedBy(row, starts, last)
BY DEF DatedBy

LEMMA ShiftedRowIsDated ==
  ASSUME WholeStrides, NEW result, result.rows \in Nat, AnySeq(buffers), Accepted(BufferOf(result)),
         NEW starts, NEW last \in Nat, starts[last + 1] = result.start,
         buffers # <<>> => DatedBy(buffers[1], starts, last)
  PROVE  /\ DatedBy(Shifted(BufferOf(result))[1], starts, last + 1)
         /\ FillsWindow(BufferOf(result)) =>
              /\ last + 1 >= StridesPerWindow
              /\ Shifted(BufferOf(result))[1][1].start = starts[last + 1 - StridesPerWindow + 1]
<1> DEFINE buffer == BufferOf(result)
           L == StrideLength
           k == StridesPerWindow
           new == Shifted(buffer)[1]
<1>1. /\ L \in Nat \ {0} /\ WindowSize \in Nat \ {0} /\ k \in Nat /\ k > 1
      /\ WindowSize = k * L
  BY WholeFacts
<1>2. DOMAIN buffer = 1 .. result.rows /\ result.rows >= 1
  <2>1. buffer = [i \in 1 .. result.rows |-> buffer[i]]
    BY DEF BufferOf
  <2>2. AnySeq(buffer) /\ Len(buffer) = result.rows
    BY <2>1, FunctionIsAnySeq
  <2>3. buffer # <<>>
    BY DEF Accepted, IsEmpty
  <2> HIDE DEF buffer
  <2>4. Len(buffer) # 0
    BY <2>2, <2>3, EmptySeq DEF AnySeq
  <2> QED
    BY <2>1, <2>2, <2>4
<1>3. /\ AnySeq(buffer[1]) /\ Len(buffer[1]) = L
      /\ \A c \in 1 .. L : buffer[1][c].start = result.start
  <2>1. buffer[1] = [c \in 1 .. L |-> Interval(result)]
    BY <1>2 DEF BufferOf
  <2> DEFINE row == buffer[1]
  <2>2. row = [c \in 1 .. L |-> row[c]]
    BY <2>1
  <2>3. Interval(result).start = result.start
    BY DEF Interval
  <2> HIDE DEF row
  <2>4. AnySeq(row) /\ Len(row) = L
    BY <1>1, <2>2, FunctionIsAnySeq
  <2> QED
    BY <2>1, <2>3, <2>4 DEF row
<1> HIDE DEF buffer
<1>4. CASE buffers = <<>>
  <2>1. new = buffer[1]
    BY <1>4 DEF Shifted
  <2> HIDE DEF new
  <2>2. /\ 1 \in 1 .. k /\ 1 <= last + 1 /\ Len(new) = 1 * L /\ AnySeq(new)
        /\ \A j \in 0 .. 1 - 1 : new[j * L + 1].start = starts[last + 1 - 1 + 1 + j]
    <3>1. \A j \in 0 .. 1 - 1 : j = 0 /\ j * L + 1 = 1 /\ last + 1 - 1 + 1 + j = last + 1
      BY <1>1
    <3>2. new[1].start = starts[last + 1]
      BY <1>1, <1>3, <2>1
    <3> QED
      BY <1>1, <1>3, <2>1, <3>1, <3>2
  <2>3. DatedBy(new, starts, last + 1)
    BY <2>2, DatedIntro
  <2>4. ~FillsWindow(buffer)
    <3>1. 1 * L + L <= k * L
      BY <1>1, Multiples
    <3> QED
      BY <1>1, <1>3, <1>4, <3>1 DEF FillsWindow, Width
  <2> QED
    BY <2>3, <2>4 DEF buffer, new
<1>5. CASE buffers # <<>>
  <2> DEFINE row == buffers[1]
  <2>1. PICK n \in 1 .. k :
          /\ n <= last /\ Len(row) = n * L
          /\ \A j \in 0 .. n - 1 : row[j * L + 1].start = starts[last - n + 1 + j]
    BY <1>5 DEF DatedBy
  <2>2. AnySeq(row) /\ n * L \in Nat /\ n * L <= k * L /\ n \in Nat
    BY <1>1, <1>5, <2>1, Multiples DEF DatedBy
  <2>3. Len(buffers) >= 1 /\ 1 <= Len(buffers) /\ Len(buffers) \in Nat
    <3>1. Len(buffers) \in Nat
      BY AnySeqFacts
    <3>2. Len(buffers) # 0
      BY <1>5, EmptySeq DEF AnySeq
    <3> QED
      BY <3>1, <3>2
  <2> DEFINE cut == ColumnsToDelete(buffer)
             kept == SubSeq(row, cut + 1, Len(row))
  <2>4. cut = IF n < k THEN 0 ELSE L
    <3>1. cut = IF n * L + L - k * L < 0 THEN 0 ELSE n * L + L - k * L
      BY <1>1, <1>3, <2>1 DEF ColumnsToDelete, Width
    <3>2. CASE n < k
      <4>1. n * L + L <= k * L
        BY <1>1, <2>2, <3>2, Multiples
      <4> HIDE DEF cut, L, k
      <4> QED
        BY <1>1, <2>2, <3>1, <3>2, <4>1, Multiples
    <3>3. CASE n = k
      BY <1>1, <2>2, <3>1, <3>3
    <3> QED
      BY <1>1, <2>1, <3>2, <3>3
  <2>5. new = kept \o buffer[1]
    <3>1. 1 \in DOMAIN buffer
      BY <1>2 DEF buffer
    <3> QED
      BY <1>5, <2>3, <3>1 DEF Shifted, Width
  <2> HIDE DEF cut, new, row
  <2>6. cut \in 0 .. Len(row) /\ cut \in Nat
    <3>1. L <= n * L
      <4>1. 1 * L <= n * L
        BY <1>1, <2>1, <2>2, Multiples
      <4> QED
        BY <1>1, <4>1
    <3> QED
      BY <1>1, <2>1, <2>2, <2>4, <3>1
  <2>7. /\ AnySeq(kept) /\ Len(kept) = Len(row) - cut
        /\ \A i \in 1 .. Len(row) - cut : kept[i] = row[cut + i]
    BY <2>2, <2>6, RestFacts
  <2> HIDE DEF kept
  <2>8. /\ AnySeq(new) /\ Len(new) = Len(row) - cut + L
        /\ \A i \in 1 .. Len(row) - cut : new[i] = row[cut + i]
        /\ \A i \in 1 .. L : new[Len(row) - cut + i] = buffer[1][i]
    <3>1. /\ AnySeq(kept \o buffer[1]) /\ Len(kept \o buffer[1]) = Len(kept) + Len(buffer[1])
          /\ \A i \in 1 .. Len(kept) : (kept \o buffer[1])[i] = kept[i]
          /\ \A i \in 1 .. Len(buffer[1]) : (kept \o buffer[1])[Len(kept) + i] = buffer[1][i]
      <4>1. AnySeq(kept) /\ AnySeq(buffer[1])
        BY <1>3, <2>7
      <4>2. PICK s, t : s = kept /\ t = buffer[1]
        OBVIOUS
      <4>3. AnySeq(s) /\ AnySeq(t)
        BY <4>1, <4>2
      <4>4. /\ AnySeq(s \o t) /\ Len(s \o t) = Len(s) + Len(t)
            /\ \A i \in 1 .. Len(s) : (s \o t)[i] = s[i]
            /\ \A i \in 1 .. Len(t) : (s \o t)[Len(s) + i] = t[i]
        BY <4>3, JoinedFacts
      <4> QED
        BY <4>2, <4>4
    <3> HIDE DEF L
    <3> QED
      BY <1>3, <2>5, <2>7, <3>1
  <2> DEFINE m == IF n < k THEN n + 1 ELSE n
  <2>9. m \in 1 .. k /\ m <= last + 1 /\ m \in Nat /\ m - 1 \in Nat
    BY <1>1, <2>1
  <2>10. Len(row) - cut = (m - 1) * L /\ Len(new) = m * L /\ m * L = (m - 1) * L + L
    <3>1. (n + 1) * L = n * L + L /\ (n - 1) * L = n * L - L
      BY <1>1, <2>2
    <3> HIDE DEF L, k
    <3> QED
      BY <1>1, <2>1, <2>2, <2>4, <2>8, <3>1 DEF m
  <2>11. ASSUME NEW j \in 0 .. m - 1
         PROVE  new[j * L + 1].start = starts[last + 1 - m + 1 + j]
    <3>1. j \in Nat /\ j * L \in Nat
      BY <1>1, Multiples
    <3>2. CASE j = m - 1
      <4>1. j * L + 1 = Len(row) - cut + 1
        BY <2>10, <3>2
      <4>2. new[Len(row) - cut + 1] = buffer[1][1]
        BY <1>1, <2>8
      <4>3. last + 1 - m + 1 + j = last + 1
        BY <2>9, <3>1, <3>2
      <4> QED
        BY <1>1, <1>3, <4>1, <4>2, <4>3
    <3>3. CASE j < m - 1
      <4>1. j * L + L <= (m - 1) * L
        BY <1>1, <2>9, <3>1, <3>3, Multiples
      <4>2. j * L + 1 \in 1 .. Len(row) - cut
        <5> DEFINE p == j * L
                   q == Len(row) - cut
        <5>1. p + L <= q /\ p \in Nat
          BY <2>10, <3>1, <4>1
        <5>2. q \in Nat
          BY <2>1, <2>2, <2>6
        <5> HIDE DEF p, q, L
        <5>3. p + 1 \in 1 .. q
          BY <1>1, <5>1, <5>2
        <5> QED
          BY <5>3 DEF p, q
      <4>3. new[j * L + 1] = row[cut + (j * L + 1)]
        BY <2>8, <4>2
      <4>4. CASE n < k
        <5>1. cut + (j * L + 1) = j * L + 1 /\ m = n + 1 /\ j \in 0 .. n - 1
          BY <2>2, <2>4, <3>1, <3>3, <4>4
        <5>2. last + 1 - m + 1 + j = last - n + 1 + j
          BY <2>2, <3>1, <5>1
        <5> QED
          BY <2>1, <4>3, <5>1, <5>2
      <4>5. CASE n = k
        <5>1. cut = L /\ m = n /\ (j + 1) * L = j * L + L
          BY <1>1, <2>4, <3>1, <4>5, Multiples
        <5>2. cut + (j * L + 1) = (j + 1) * L + 1 /\ j + 1 \in 0 .. n - 1
          BY <1>1, <2>2, <3>1, <3>3, <5>1
        <5>3. last + 1 - m + 1 + j = last - n + 1 + (j + 1)
          BY <2>2, <3>1, <5>1
        <5> QED
          BY <2>1, <4>3, <5>2, <5>3
      <4> QED
        BY <1>1, <2>1, <4>4, <4>5
    <3> QED
      BY <2>9, <3>2, <3>3
  <2>12. DatedBy(new, starts, last + 1)
    <3> HIDE DEF m
    <3>1. PICK row2, n2, last2 : row2 = new /\ n2 = m /\ last2 = last + 1
      OBVIOUS
    <3>2. /\ AnySeq(row2) /\ n2 \in 1 .. k /\ n2 <= last2 /\ Len(row2) = n2 * L
          /\ \A j \in 0 .. n2 - 1 : row2[j * L + 1].start = starts[last2 - n2 + 1 + j]
      BY <2>8, <2>9, <2>10, <2>11, <3>1
    <3>3. DatedBy(row2, starts, last2)
      BY <3>2, DatedIntro
    <3> QED
      BY <3>1, <3>3
  <2>13. ASSUME FillsWindow(buffer)
         PROVE  last + 1 >= k /\ new[1].start = starts[last + 1 - k + 1]
    <3>1. n * L + L >= k * L
      BY <1>1, <1>3, <1>5, <2>1, <2>13 DEF FillsWindow, Width, row
    <3>2. n + 1 >= k
      <4> SUFFICES ASSUME n + 1 < k
                   PROVE  FALSE
        BY <1>1, <2>2
      <4>1. (n + 1) * L + L <= k * L /\ (n + 1) * L = n * L + L
        BY <1>1, <2>2, Multiples
      <4> HIDE DEF L, k
      <4> QED
        BY <1>1, <2>2, <3>1, <4>1, Multiples
    <3>3. m = k
      BY <1>1, <2>1, <2>2, <3>2
    <3>4. 0 \in 0 .. m - 1 /\ 0 * L + 1 = 1 /\ last + 1 - m + 1 + 0 = last + 1 - k + 1
      BY <1>1, <2>9, <3>3
    <3> QED
      BY <2>9, <2>11, <3>3, <3>4
  <2> QED
    BY <2>12, <2>13 DEF buffer, new
<1> QED
  BY <1>4, <1>5

-----------------------------------------------------------------------------
(* The invariant of the labels *)

\* Steps of the other goroutines: files and ledger keep their starts.
LEMMA LabelsKeep ==
  ASSUME UnboundedStrides, LabelInv, UNCHANGED <<buffers, StrideCounter, strideStartTimes, bufferer>>,
         RowsForward',
         \A s \in Strides : /\ files'[s].start = files[s].start
                            /\ files'[s].writer # "none" => files[s].writer # "none"
                            /\ ledger'[s].start = ledger[s].start
                            /\ ledger'[s].outcome # "none" => ledger[s].outcome # "none"
  PROVE  LabelInv'
<1>1. RowsForward' /\ StartsNoted'
  BY DEF LabelInv, StartsNoted
<1>2. ASSUME WholeStrides
      PROVE  WindowDated' /\ LabelsDated'
  <2>1. WindowDated /\ LabelsDated
    BY <1>2 DEF LabelInv
  <2>2. WindowDated'
    BY <2>1 DEF WindowDated
  <2>3. LabelsDated'
    BY <2>1 DEF LabelsDated
  <2> QED
    BY <2>2, <2>3
<1>3. WholeStrides' <=> WholeStrides
  BY DEF WholeStrides, StridesPerWindow
<1> QED
  BY <1>1, <1>2, <1>3 DEF LabelInv

LEMMA SamplesLabels ==
  ASSUME UnboundedStrides, ReceiverInv, LabelInv, Accumulate
  PROVE  LabelInv'
<1>1. UNCHANGED <<buffers, StrideCounter, strideStartTimes, bufferer, files, ledger>>
  BY DEF Accumulate, windowVars, receiverVars
<1>2. RowsKnown
  BY DEF ReceiverInv
<1>3. RowsForward'
  <2>1. CASE Collect
    BY <1>1, <2>1 DEF Collect, LabelInv, RowsForward
  <2>2. CASE Publish
    <3>1. DOMAIN channel' = {1} /\ channel'[1].rows = rows
      BY <2>2, ShortSeqs DEF Publish
    <3> QED
      BY <1>1, <1>2, <3>1, RowsFacts DEF LabelInv, RowsForward
  <2> QED
    BY <2>1, <2>2 DEF Accumulate
<1> QED
  BY <1>1, <1>3, LabelsKeep

LEMMA AlgorithmLabels ==
  ASSUME UnboundedStrides, ReceiverInv, LabelInv, AlgorithmStep
  PROVE  LabelInv'
<1>1. UNCHANGED <<buffers, StrideCounter, strideStartTimes, bufferer, files, channel>>
  BY DEF AlgorithmStep, Normalize, NormalizeRow, StartComparing, ComparePair, StopComparing, SendRest, FinishStride, Fail, Unlock,
         AlgorithmMoves, AlgorithmEnds, othersOfAlgorithm, sourceVars, windowVars
<1>2. RecordsAreRecords /\ StrideNumbersAgree
  BY DEF ReceiverInv
<1>3. \/ UNCHANGED ledger
      \/ \E pair : ledger' = [ledger EXCEPT ![StrideCounter].matches = @ \union {pair}] /\ algorithm = "compare"
      \/ \E outcome : ledger' = [ledger EXCEPT ![StrideCounter].outcome = outcome] /\ algorithm \in {"end", "compare"}
  BY DEF AlgorithmStep, Normalize, StartComparing, ComparePair, StopComparing, SendRest, FinishStride, Fail, Unlock, AlgorithmMoves
<1>4. algorithm \in {"end", "compare"} => ledger[StrideCounter].outcome = "running" /\ StrideCounter \in Strides
  BY <1>2 DEF ReceiverInv, MatchesKnown, StrideNumbersAgree, UnboundedStrides
<1>5. \A s \in Strides : /\ ledger'[s].start = ledger[s].start
                         /\ ledger'[s].outcome # "none" => ledger[s].outcome # "none"
  BY <1>2, <1>3, <1>4 DEF RecordsAreRecords, IsEntry
<1>6. RowsForward'
  BY <1>1 DEF LabelInv, RowsForward
<1> QED
  BY <1>1, <1>5, <1>6, LabelsKeep

LEMMA ResultsLabels ==
  ASSUME UnboundedStrides, ReceiverInv, LabelInv, ResultsStep
  PROVE  LabelInv'
<1>1. UNCHANGED <<buffers, StrideCounter, strideStartTimes, bufferer, ledger, channel>>
  BY DEF ResultsStep, TakeResult, WritePairs, WriteIds, WriteConstants, CloseFile, othersOfResults, sourceVars, windowVars
<1>2. RecordsAreRecords
  BY DEF ReceiverInv
<1>3. \A s \in Strides : /\ files'[s].start = files[s].start
                         /\ files'[s].writer # "none" => files[s].writer # "none"
  <2>1. CASE TakeResult
    BY <2>1 DEF TakeResult
  <2>2. CASE ~TakeResult
    <3> DEFINE t == results.batch.stride
    <3>1. PICK pairs, n, found :
            \/ Written(t, [files[t] EXCEPT !.pairs = pairs])
            \/ Written(t, [files[t] EXCEPT !.ids = n])
            \/ Written(t, [files[t] EXCEPT !.constants = found])
            \/ Written(t, [files[t] EXCEPT !.writer = "closed"])
      BY <2>2, Zenon DEF ResultsStep, WritePairs, WriteIds, WriteConstants, CloseFile,
                  AddCorrelatedPairs, RecordTimeseriesIds, AddConstantRows, Flush
    <3> HIDE DEF t
    <3>2. CASE t \in Strides /\ HasWriter(t)
      <4>1. IsFile(files[t]) /\ files[t].writer # "none"
        BY <1>2, <3>2 DEF RecordsAreRecords, HasWriter
      <4>2. PICK f : files' = [files EXCEPT ![t] = f] /\ f.start = files[t].start
        BY <3>1, <3>2, <4>1 DEF Written, IsFile
      <4> QED
        BY <1>2, <3>2, <4>1, <4>2 DEF RecordsAreRecords
    <3>3. CASE ~(t \in Strides /\ HasWriter(t))
      BY <1>2, <3>1, <3>3 DEF Written, RecordsAreRecords
    <3> QED
      BY <3>2, <3>3
  <2> QED
    BY <2>1, <2>2
<1>4. RowsForward'
  BY <1>1 DEF LabelInv, RowsForward
<1> QED
  BY <1>1, <1>3, <1>4, LabelsKeep

\* A start is only noted for the stride after the last one counted.
LEMMA TakeLabels ==
  ASSUME UnboundedStrides, ReceiverInv, LabelInv, TakeStride
  PROVE  LabelInv'
<1> DEFINE next == StrideCounter + 1
<1>1. /\ UNCHANGED <<buffers, StrideCounter, files, ledger>> /\ channel # <<>> /\ channel' = Tail(channel)
      /\ strideStartTimes' = [strideStartTimes EXCEPT ![next] = channel[1].start]
      /\ bufferer' = [at |-> IF next < StridesPerWindow THEN "shift" ELSE "initialize",
                      result |-> channel[1], stride |-> next]
      /\ channel' = <<>> /\ DOMAIN channel = {1}
  BY TakeFromOne DEF TakeStride, Take, windowVars, ReceiverInv, RowsKnown
<1>2. StrideCounter \in Nat /\ next \in Strides /\ StridesPerWindow \in Nat
  BY WindowAssumption, ReceiverAssumption DEF ReceiverInv, StrideNumbersAgree, UnboundedStrides, StridesPerWindow
<1>3. RowsForward'
  <2>1. DOMAIN channel' = {}
    BY <1>1, ShortSeqs
  <2> QED
    BY <1>1, <2>1 DEF LabelInv, RowsForward
<1>4. /\ DOMAIN strideStartTimes' = Strides /\ strideStartTimes'[next] = channel[1].start
      /\ \A s \in Strides : s # next => strideStartTimes'[s] = strideStartTimes[s]
  BY <1>1, <1>2 DEF LabelInv, StartsNoted
<1>5. StartsNoted'
  BY <1>1, <1>2, <1>4 DEF StartsNoted
<1>6. ASSUME WholeStrides
      PROVE  WindowDated' /\ LabelsDated'
  <2>1. WindowDated /\ LabelsDated /\ StridesPerWindow > 1
    BY <1>6 DEF LabelInv, WholeStrides
  <2>2. WindowDated'
    <3> SUFFICES ASSUME buffers # <<>>
                 PROVE  DatedBy(buffers[1], strideStartTimes', StrideCounter)
      BY <1>1 DEF WindowDated
    <3>1. PICK n \in 1 .. StridesPerWindow :
            /\ n <= StrideCounter /\ Len(buffers[1]) = n * StrideLength
            /\ \A j \in 0 .. n - 1 :
                 buffers[1][j * StrideLength + 1].start = strideStartTimes[StrideCounter - n + 1 + j]
      BY <2>1 DEF WindowDated, DatedBy
    <3>2. AnySeq(buffers[1])
      BY <2>1 DEF WindowDated, DatedBy
    <3>3. \A j \in 0 .. n - 1 : StrideCounter - n + 1 + j \in Strides /\ StrideCounter - n + 1 + j # next
      BY <1>2, <3>1 DEF UnboundedStrides
    <3> QED
      BY <1>4, <3>1, <3>2, <3>3 DEF DatedBy
  <2>3. ASSUME NEW s \in Strides, s >= StridesPerWindow, s <= StrideCounter + 1
        PROVE  strideStartTimes'[FirstStride(s)] = strideStartTimes[FirstStride(s)]
    <3>1. FirstStride(s) \in Strides /\ FirstStride(s) # next
      BY <1>2, <2>1, <2>3 DEF FirstStride, UnboundedStrides
    <3> QED
      BY <1>4, <3>1
  <2>4. LabelsDated'
    <3> SUFFICES ASSUME NEW s \in Strides
                 PROVE  /\ files[s].writer # "none" =>
                             s >= StridesPerWindow /\ s <= StrideCounter + 1 /\ files[s].start = strideStartTimes'[FirstStride(s)]
                        /\ ledger[s].outcome # "none" =>
                             s >= StridesPerWindow /\ s <= StrideCounter /\ ledger[s].start = strideStartTimes'[FirstStride(s)]
      BY <1>1 DEF LabelsDated, FirstStride, StridesPerWindow
    <3>1. s <= StrideCounter => s <= StrideCounter + 1
      BY <1>2 DEF UnboundedStrides
    <3> QED
      BY <2>1, <2>3, <3>1 DEF LabelsDated
  <2> QED
    BY <2>2, <2>4
<1>7. WholeStrides' <=> WholeStrides
  BY DEF WholeStrides, StridesPerWindow
<1> QED
  BY <1>3, <1>5, <1>6, <1>7 DEF LabelInv

\* The file opened, if any, is labelled with the start noted for the window's first stride.
LEMMA OpenLabels ==
  ASSUME UnboundedStrides, ReceiverInv, LabelInv, OpenFile
  PROVE  LabelInv'
<1> DEFINE s == bufferer.stride
<1>1. /\ UNCHANGED <<buffers, StrideCounter, strideStartTimes, ledger, channel>>
      /\ bufferer.at = "initialize" /\ bufferer' = [bufferer EXCEPT !.at = "shift"]
      /\ InitializeStride(s, strideStartTimes[FirstStride(s)], bufferer.result.end)
  BY DEF OpenFile, sourceVars, windowVars
<1>2. /\ StrideCounter \in Nat /\ s = StrideCounter + 1 /\ s \in Strides /\ s >= StridesPerWindow
      /\ bufferer'.at = "shift" /\ bufferer'.result = bufferer.result
      /\ RecordsAreRecords
  <2>1. bufferer = [at |-> bufferer.at, result |-> bufferer.result, stride |-> bufferer.stride]
    BY DEF ReceiverInv, RowsKnown
  <2> QED
    BY <1>1, <2>1 DEF ReceiverInv, StrideNumbersAgree, UnboundedStrides, LabelInv, StartsNoted
<1>3. RowsForward' /\ StartsNoted'
  BY <1>1, <1>2 DEF LabelInv, RowsForward, StartsNoted
<1> HIDE DEF s
<1>4. /\ \A t \in Strides : t # s => files'[t] = files[t]
      /\ HasWriter(s) => files'[s] = files[s]
      /\ ~HasWriter(s) => files'[s].start = strideStartTimes[FirstStride(s)]
  BY <1>1, <1>2 DEF InitializeStride, RecordsAreRecords, IsFile
<1>5. ASSUME WholeStrides
      PROVE  WindowDated' /\ LabelsDated'
  <2>1. WindowDated /\ LabelsDated
    BY <1>5 DEF LabelInv
  <2>2. WindowDated'
    BY <1>1, <2>1 DEF WindowDated
  <2>3. s <= StrideCounter + 1
    BY <1>2
  <2>4. ASSUME NEW t \in Strides, files'[t].writer # "none"
        PROVE  t >= StridesPerWindow /\ t <= StrideCounter + 1 /\ files'[t].start = strideStartTimes[FirstStride(t)]
    <3>1. CASE t = s /\ ~HasWriter(s)
      BY <1>2, <1>4, <2>3, <3>1
    <3>2. CASE t # s \/ HasWriter(s)
      BY <1>4, <2>1, <2>4, <3>2 DEF LabelsDated, HasWriter
    <3> QED
      BY <3>1, <3>2
  <2>5. LabelsDated'
    BY <1>1, <2>1, <2>4 DEF LabelsDated
  <2> QED
    BY <2>2, <2>5
<1>6. WholeStrides' <=> WholeStrides
  BY DEF WholeStrides, StridesPerWindow
<1> QED
  BY <1>3, <1>5, <1>6 DEF LabelInv

\* A stride is dropped before it is counted, or counted while there is no window yet: the
\* accumulator does not lose rows, so a window with rows is never refused a stride.
LEMMA DropLabels ==
  ASSUME UnboundedStrides, ReceiverInv, LabelInv, DropStride \/ Stamp
  PROVE  LabelInv'
<1>1. /\ UNCHANGED <<buffers, strideStartTimes, ledger, files, channel>> /\ bufferer' = Waiting
      /\ \/ UNCHANGED StrideCounter
         \/ /\ StrideCounter' = StrideCounter + 1 /\ bufferer.at = "shift"
            /\ IsEmpty(BufferOf(bufferer.result)) \/ Refused(BufferOf(bufferer.result))
  BY DEF DropStride, Stamp, ShiftBusy, ShiftNothing, sourceVars, windowVars
<1>2. bufferer'.at = "recv"
  BY <1>1 DEF Waiting
<1>3. StrideCounter \in Nat /\ RowsKnown
  BY DEF ReceiverInv, StrideNumbersAgree
<1>4. RowsForward' /\ StartsNoted'
  BY <1>1, <1>2 DEF LabelInv, RowsForward, StartsNoted
<1>5. ASSUME WholeStrides
      PROVE  WindowDated' /\ LabelsDated'
  <2>1. WindowDated /\ LabelsDated
    BY <1>5 DEF LabelInv
  <2>2. LabelsDated'
    <3>1. StrideCounter' \in Nat /\ StrideCounter <= StrideCounter'
      BY <1>1, <1>3
    <3>2. ASSUME NEW s \in Strides
          PROVE  /\ s <= StrideCounter => s <= StrideCounter'
                 /\ s <= StrideCounter + 1 => s <= StrideCounter' + 1
      <4>1. s \in Nat
        BY DEF UnboundedStrides
      <4> QED
        BY <1>1, <1>3, <4>1
    <3> QED
      BY <1>1, <2>1, <3>2 DEF LabelsDated
  <2>3. CASE UNCHANGED StrideCounter
    BY <1>1, <2>1, <2>2, <2>3 DEF WindowDated
  <2>4. CASE /\ bufferer.at = "shift"
             /\ IsEmpty(BufferOf(bufferer.result)) \/ Refused(BufferOf(bufferer.result))
    <3> DEFINE buffer == BufferOf(bufferer.result)
               n == bufferer.result.rows
    <3>1. n \in Nat /\ Len(buffers) \in Nat /\ Len(buffers) <= n
      BY <1>3, <2>4, RowsFacts DEF LabelInv, RowsForward
    <3>2. AnySeq(buffer) /\ Len(buffer) = n /\ DOMAIN buffer = 1 .. n
      <4>1. buffer = [i \in 1 .. n |-> buffer[i]]
        BY DEF BufferOf
      <4> HIDE DEF buffer, n
      <4> QED
        BY <3>1, <4>1, FunctionIsAnySeq
    <3>3. \A i \in DOMAIN buffer : buffer[i] = [c \in 1 .. StrideLength |-> Interval(bufferer.result)]
      BY DEF BufferOf
    <3> HIDE DEF buffer, n
    <3>4. ~Ragged(buffer)
      <4>1. \A i \in DOMAIN buffer : 1 \in DOMAIN buffer
        BY <3>1, <3>2
      <4>2. \A i \in DOMAIN buffer : buffer[i] = buffer[1]
        BY <3>3, <4>1
      <4> QED
        BY <4>2 DEF Ragged, Width
    <3>5. buffers = <<>>
      <4>1. CASE IsEmpty(buffer)
        <5>1. n = 0
          BY <3>2, <4>1, EmptySeq DEF IsEmpty
        <5> QED
          BY <1>3, <3>1, <5>1, EmptySeq DEF RowsKnown, AnySeq
      <4>2. CASE Refused(buffer)
        BY <3>1, <3>2, <3>4, <4>2 DEF Refused
      <4> QED
        BY <2>4, <4>1, <4>2 DEF buffer
    <3> QED
      BY <1>1, <2>2, <3>5 DEF WindowDated
  <2> QED
    BY <1>1, <2>3, <2>4
<1>6. WholeStrides' <=> WholeStrides
  BY DEF WholeStrides, StridesPerWindow
<1> QED
  BY <1>4, <1>5, <1>6 DEF LabelInv

\* The stride enters the window, and the ledger if that fills the window.
LEMMA ShiftLabels ==
  ASSUME UnboundedStrides, ReceiverInv, LabelInv, ShiftStride \/ ShiftAndRun
  PROVE  LabelInv'
<1> DEFINE result == bufferer.result
           buffer == BufferOf(result)
           next == StrideCounter + 1
<1>1. /\ UNCHANGED <<strideStartTimes, files, channel>>
      /\ bufferer.at = "shift" /\ Accepted(buffer) /\ buffers' = Shifted(buffer) /\ StrideCounter' = next
      /\ \/ bufferer' = Waiting /\ UNCHANGED ledger
         \/ /\ FillsWindow(buffer) /\ bufferer' = [bufferer EXCEPT !.at = "stamp"]
            /\ ledger' = [ledger EXCEPT ![bufferer.stride] =
                  [outcome |-> "running", start |-> buffers'[1][1].start,
                   end |-> buffers'[1][WindowSize].end, matches |-> {}]]
  BY DEF ShiftStride, ShiftAndRun, ShiftOnly, ShiftAndStart, sourceVars
<1>2. /\ StrideCounter \in Nat /\ next \in Strides /\ bufferer.stride = next /\ RowsKnown /\ RecordsAreRecords
      /\ bufferer = [at |-> bufferer.at, result |-> bufferer.result, stride |-> bufferer.stride]
      /\ result.rows \in Nat
  BY <1>1, RowsFacts DEF ReceiverInv, RowsKnown, StrideNumbersAgree, UnboundedStrides
<1>3. bufferer'.at \in {"recv", "stamp"}
  BY <1>1, <1>2 DEF Waiting
<1>4. RowsForward'
  <2>1. Len(buffers') = result.rows
    BY <1>1, <1>2, ShiftedRows DEF RowsKnown
  <2> QED
    BY <1>1, <1>3, <2>1 DEF LabelInv, RowsForward
<1>5. StartsNoted'
  BY <1>1, <1>3 DEF LabelInv, StartsNoted
<1>6. ASSUME WholeStrides
      PROVE  WindowDated' /\ LabelsDated'
  <2>1. WindowDated /\ LabelsDated /\ strideStartTimes[next] = result.start
    BY <1>1, <1>6 DEF LabelInv, StartsNoted
  <2>2. /\ DatedBy(Shifted(buffer)[1], strideStartTimes, next)
        /\ FillsWindow(buffer) =>
             next >= StridesPerWindow /\ Shifted(buffer)[1][1].start = strideStartTimes[next - StridesPerWindow + 1]
    <3>1. PICK starts, last : starts = strideStartTimes /\ last = StrideCounter
      OBVIOUS
    <3> HIDE DEF result, next
    <3>2. /\ result.rows \in Nat /\ AnySeq(buffers) /\ Accepted(BufferOf(result)) /\ last \in Nat
          /\ starts[last + 1] = result.start
          /\ buffers # <<>> => DatedBy(buffers[1], starts, last)
      BY <1>1, <1>2, <2>1, <3>1 DEF WindowDated, RowsKnown, next
    <3>3. /\ DatedBy(Shifted(BufferOf(result))[1], starts, last + 1)
          /\ FillsWindow(BufferOf(result)) =>
               /\ last + 1 >= StridesPerWindow
               /\ Shifted(BufferOf(result))[1][1].start = starts[last + 1 - StridesPerWindow + 1]
      BY <1>6, <3>2, ShiftedRowIsDated
    <3>4. last + 1 = next /\ starts = strideStartTimes
      BY <3>1 DEF next
    <3>5. DatedBy(Shifted(buffer)[1], strideStartTimes, next)
      BY <3>3, <3>4
    <3>6. ASSUME FillsWindow(buffer)
          PROVE  next >= StridesPerWindow /\ Shifted(buffer)[1][1].start = strideStartTimes[next - StridesPerWindow + 1]
      <4>1. /\ last + 1 >= StridesPerWindow
            /\ Shifted(buffer)[1][1].start = starts[last + 1 - StridesPerWindow + 1]
        BY <3>3, <3>6
      <4>2. last \in Nat /\ StridesPerWindow \in Nat /\ last + 1 - StridesPerWindow + 1 = next - StridesPerWindow + 1
        BY <1>2, <1>6, <3>1, WholeFacts DEF next
      <4>3. next >= StridesPerWindow
        BY <3>4, <4>1
      <4>4. PICK first : first = Shifted(buffer)[1][1].start
        OBVIOUS
      <4>5. first = strideStartTimes[next - StridesPerWindow + 1]
        BY <3>4, <4>1, <4>2, <4>4
      <4> QED
        BY <4>3, <4>4, <4>5
    <3> QED
      BY <3>5, <3>6
  <2> HIDE DEF buffer, result, next
  <2>3. WindowDated'
    BY <1>1, <2>2 DEF WindowDated
  <2>4. StridesPerWindow' = StridesPerWindow /\ next \in Nat /\ StrideCounter < next
    BY <1>2 DEF StridesPerWindow, next
  <2>5. \A s \in Strides : s \in Nat /\ (s <= StrideCounter => s <= next /\ s # next)
                         /\ (s <= StrideCounter + 1 => s <= next + 1)
    BY <1>2, <2>4 DEF UnboundedStrides, next
  <2>6. ASSUME NEW s \in Strides, ledger'[s].outcome # "none"
        PROVE  s >= StridesPerWindow /\ s <= next /\ ledger'[s].start = strideStartTimes[FirstStride(s)]
    <3>1. CASE ledger'[s] = ledger[s]
      BY <2>1, <2>5, <2>6, <3>1 DEF LabelsDated
    <3>2. CASE s = next /\ FillsWindow(buffer) /\ ledger'[s].start = Shifted(buffer)[1][1].start
      BY <2>2, <2>4, <3>2 DEF FirstStride
    <3> QED
      BY <1>1, <1>2, <3>1, <3>2 DEF RecordsAreRecords
  <2>7. LabelsDated'
    BY <1>1, <2>1, <2>5, <2>6 DEF LabelsDated
  <2> QED
    BY <2>3, <2>7
<1>7. WholeStrides' <=> WholeStrides
  BY DEF WholeStrides, StridesPerWindow
<1> QED
  BY <1>4, <1>5, <1>6, <1>7 DEF LabelInv

LEMMA LabelInvInit ==
  ASSUME Init
  PROVE  LabelInv
<1>1. DOMAIN channel = {} /\ bufferer.at = "recv" /\ DOMAIN strideStartTimes = Strides /\ buffers = <<>>
  BY ShortSeqs DEF Init, SourceInit, WindowInit, Waiting
<1>2. \A s \in Strides : files[s].writer = "none" /\ ledger[s].outcome = "none"
  BY DEF Init, ReporterInit, Unopened, NotRun
<1> QED
  BY <1>1, <1>2 DEF LabelInv, RowsForward, StartsNoted, WindowDated, LabelsDated

LEMMA LabelInvStep ==
  ASSUME UnboundedStrides, ReceiverInv, LabelInv, [Next]_vars
  PROVE  LabelInv'
<1>1. CASE UNCHANGED vars
  <2>1. UNCHANGED <<buffers, StrideCounter, strideStartTimes, bufferer, channel, files, ledger>>
    BY <1>1 DEF vars, sourceVars, windowVars, comparerVars, receiverVars
  <2>2. RowsForward'
    BY <2>1 DEF LabelInv, RowsForward
  <2> QED
    BY <2>1, <2>2, LabelsKeep
<1> QED
  BY <1>1, SamplesLabels, TakeLabels, OpenLabels, DropLabels, ShiftLabels, AlgorithmLabels, ResultsLabels
     DEF Next, BufferStep

\* The starts noted for the strides are those of the window's columns, for all that strides are
\* dropped, counted without rows, and numbered again (receiver.go:205-217).
THEOREM LabelInvariance ==
  ASSUME UnboundedStrides
  PROVE  Spec => []LabelInv
  BY LabelInvInit, LabelInvStep, ReceiverInvariance, PTL DEF Spec

\* With a window of whole strides, and of more than one, a file is labelled with the instant at
\* which its window begins, whatever strides were dropped before it (receiver.go:205-217).
THEOREM FilesAreLabelled ==
  ASSUME UnboundedStrides
  PROVE  Spec => []FilesBeginWithTheirWindow
<1>1. ReceiverInv /\ LabelInv => FilesBeginWithTheirWindow
  <2> SUFFICES ASSUME ReceiverInv, LabelInv, WholeStrides, NEW s \in Strides, files[s].writer = "closed"
               PROVE  files[s].start = ledger[s].start
    BY DEF FilesBeginWithTheirWindow, WholeStrides
  <2>1. ledger[s].outcome = "finished"
    BY DEF ReceiverInv, EndedIsOver, Ended
  <2> QED
    BY <2>1 DEF LabelInv, LabelsDated
<1> QED
  BY <1>1, ReceiverInvariance, LabelInvariance, PTL
=============================================================================
