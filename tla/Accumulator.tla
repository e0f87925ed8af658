---------------------------- MODULE Accumulator -----------------------------
(***************************************************************************)
(* lib/tsaccumulator.go: the TimeseriesAccumulator.  It gives every        *)
(* timeseries a row, collects one sample per row and time slot of the      *)
(* current stride, and when an observation lies after the stride it        *)
(* completes the rows, publishes them on bufferChannel and starts a new    *)
(* stride at that observation.                                             *)
(*                                                                         *)
(* A cell of a row stands for the samples its value was computed from: {}  *)
(* for the constant 0, {s} for the value of s, {s, t} for the mean of two. *)
(* Times are in ticks.  Observations carry whole seconds; the first stride *)
(* starts at time.Now(), at any tick.                                      *)
(*                                                                         *)
(* A definition whose name lengthens that of the one after it is a faulty  *)
(* form of it, there to show that the properties notice; nothing uses it.  *)
(***************************************************************************)
EXTENDS Integers, Sequences

CONSTANTS
  Fingerprints,    \* the timeseries that senders write
  Timestamps,      \* the whole seconds an observation may carry, in ticks
  StartTimes,      \* the instants at which the process may start, in ticks
  Stride,          \* StrideLength: slots per stride
  SampleTime,      \* SampleInterval: ticks per slot
  Second,          \* ticks per second
  MaxRows          \* settings.MaxRows; 0 or less means no limit

ASSUME AccumulatorAssumption ==
  /\ Timestamps \subseteq Nat
  /\ StartTimes \subseteq Nat
  /\ Stride \in Nat \ {0}
  /\ Second \in Nat \ {0}
  /\ SampleTime \in Nat
  /\ SampleTime >= Second
  /\ MaxRows \in Int

VARIABLES
  rowmap,                 \* fingerprint -> row id
  Tsids,                  \* the fingerprints in the order of their rows
  maxRow,                 \* the number of rows handed out
  buffers,                \* row id -> the cells of the current stride
  currentStrideStartTs,
  currentStrideMaxTs,
  bufferChannel,          \* a channel of capacity 1
  panicked                \* one of the code's own checks has failed

rowVars == <<rowmap, Tsids, maxRow>>
strideVars == <<currentStrideStartTs, currentStrideMaxTs>>
vars == <<rowVars, buffers, strideVars, bufferChannel, panicked>>

Samples == [fp : Fingerprints, ts : Timestamps]
Cells == SUBSET Samples
RowIds == 0 .. maxRow - 1

-----------------------------------------------------------------------------
(* Time and slots *)

StrideDuration == Stride * SampleTime

\* maxTime: the last second of a stride.
MaxTimeNoDuration(start) == start - Second
MaxTime(start) == start + StrideDuration - Second

\* The slot of an instant of the stride that begins at start.
Slot(ts, start) == (ts - start) \div SampleTime

InStride(ts, start) == start <= ts /\ ts <= MaxTime(start)
IsBackfill(s) == s.ts < currentStrideStartTs
IsAfterStride(s) == s.ts > currentStrideMaxTs

-----------------------------------------------------------------------------
(* Rows *)

LastCell(row) == row[Len(row)]

\* completeRows: a short row is extended with its last cell, an empty one with 0.
CompletedShort(row) == row
Completed(row) ==
  LET filler == IF row = <<>> THEN {} ELSE LastCell(row)
  IN  [c \in 1 .. Stride |-> IF c <= Len(row) THEN row[c] ELSE filler]

\* The row once s is stored in its slot: a slot already filled keeps its cell, a
\* skipped slot gets the mean of its neighbours, or 0 at the start of the stride.
StoredOverwriting(row, slot, s) ==
  IF slot < Len(row) THEN [row EXCEPT ![slot + 1] = {s}] ELSE Append(row, {s})
StoredNoGap(row, slot, s) == IF slot < Len(row) THEN row ELSE Append(row, {s})
Stored(row, slot, s) ==
  IF slot < Len(row)
  THEN row
  ELSE LET filler == IF row = <<>> THEN {} ELSE LastCell(row) \union {s}
       IN  [c \in 1 .. slot + 1 |-> IF c <= Len(row) THEN row[c]
                                    ELSE IF c <= slot THEN filler
                                    ELSE {s}]

Known(fp) == fp \in DOMAIN rowmap
RoomForRow == MaxRows <= 0 \/ maxRow < MaxRows

\* The lookup of a known timeseries.
FindRow(s, row) ==
  /\ Known(s.fp)
  /\ row = rowmap[s.fp]
  /\ UNCHANGED rowVars

\* The next row goes to a timeseries seen for the first time.
AllocateRowNoIncrement(s, row) ==
  /\ ~Known(s.fp) /\ RoomForRow
  /\ row = maxRow
  /\ rowmap' = [fp \in DOMAIN rowmap \union {s.fp} |-> IF fp = s.fp THEN row ELSE rowmap[fp]]
  /\ Tsids' = Append(Tsids, s.fp)
  /\ maxRow' = 1
AllocateRow(s, row) ==
  /\ ~Known(s.fp) /\ RoomForRow
  /\ row = maxRow
  /\ rowmap' = [fp \in DOMAIN rowmap \union {s.fp} |-> IF fp = s.fp THEN row ELSE rowmap[fp]]
  /\ Tsids' = Append(Tsids, s.fp)
  /\ maxRow' = maxRow + 1

\* Past the limit the lookup leaves the zero value: row 0.
DefaultRowLast(s, row) ==
  /\ ~Known(s.fp) /\ ~RoomForRow
  /\ row = maxRow - 1
  /\ UNCHANGED rowVars
DefaultRow(s, row) ==
  /\ ~Known(s.fp) /\ ~RoomForRow
  /\ row = 0
  /\ UNCHANGED rowVars

ResolveRow(s, row) == FindRow(s, row) \/ AllocateRow(s, row) \/ DefaultRow(s, row)

\* The rest of AddObservation, from the rows cur of the stride that begins at
\* start: a new row begins empty, and a failed check of the code is a panic.
Store(s, cur, start) ==
  LET slot == Slot(s.ts, start)
  IN  \E row \in 0 .. maxRow :
        /\ ResolveRow(s, row)
        /\ LET old == IF row \in DOMAIN cur THEN cur[row] ELSE <<>>
               new == Stored(old, slot, s)
           IN  /\ buffers' = [r \in DOMAIN cur \union {row} |-> IF r = row THEN new ELSE cur[r]]
               /\ panicked' = \/ ~InStride(s.ts, start)
                              \/ ~Known(s.fp) /\ RoomForRow /\ Tsids'[row + 1] # s.fp
                              \/ slot >= Len(old) /\ Len(new) # slot + 1

-----------------------------------------------------------------------------
(* AddObservation, by its early returns *)

\* A sample from before the current stride is ignored.
IgnoreBackfill(s) ==
  /\ IsBackfill(s)
  /\ UNCHANGED vars

\* A sample of the current stride.
AddToStride(s) ==
  /\ ~IsBackfill(s) /\ ~IsAfterStride(s)
  /\ Store(s, buffers, currentStrideStartTs)
  /\ UNCHANGED <<strideVars, bufferChannel>>

\* extractMatrixData: maxRow rows, and the stride's interval.
StrideData ==
  [Buffers |-> [i \in 1 .. maxRow |-> Completed(buffers[i - 1])],
   CurrentStrideStartTs |-> currentStrideStartTs,
   CurrentStrideMaxTs |-> currentStrideMaxTs]

\* A sample after the current stride: publish (the send waits for room), begin the
\* next stride at the sample and store it there.
RollOverUnbounded(s) ==
  /\ IsAfterStride(s)
  /\ bufferChannel' = Append(bufferChannel, StrideData)
  /\ currentStrideStartTs' = s.ts
  /\ currentStrideMaxTs' = MaxTime(s.ts)
  /\ Store(s, [r \in RowIds |-> <<>>], s.ts)
RollOverStaleEnd(s) ==
  /\ IsAfterStride(s)
  /\ bufferChannel = <<>>
  /\ bufferChannel' = <<StrideData>>
  /\ currentStrideStartTs' = s.ts
  /\ currentStrideMaxTs' = currentStrideMaxTs + StrideDuration
  /\ Store(s, [r \in RowIds |-> <<>>], s.ts)
RollOver(s) ==
  /\ IsAfterStride(s)
  /\ bufferChannel = <<>>
  /\ bufferChannel' = <<StrideData>>
  /\ currentStrideStartTs' = s.ts
  /\ currentStrideMaxTs' = MaxTime(s.ts)
  /\ Store(s, [r \in RowIds |-> <<>>], s.ts)

AddObservation(s) == IgnoreBackfill(s) \/ AddToStride(s) \/ RollOver(s)

\* The buffer goroutine takes the result.
ReceiveStride ==
  /\ bufferChannel # <<>>
  /\ bufferChannel' = Tail(bufferChannel)
  /\ UNCHANGED <<rowVars, buffers, strideVars, panicked>>

-----------------------------------------------------------------------------

Init ==
  /\ rowmap = [fp \in {} |-> 0]
  /\ Tsids = <<>>
  /\ maxRow = 0
  /\ buffers = [r \in {} |-> <<>>]
  /\ currentStrideStartTs \in StartTimes
  /\ currentStrideMaxTs = MaxTime(currentStrideStartTs)
  /\ bufferChannel = <<>>
  /\ panicked = FALSE

Next ==
  \/ /\ ~panicked
     /\ \E s \in Samples : AddObservation(s)
  \/ ReceiveStride

Spec == Init /\ [][Next]_vars

-----------------------------------------------------------------------------
(* Properties *)

StrideResults == [Buffers : Seq(Seq(Cells)), CurrentStrideStartTs : Nat, CurrentStrideMaxTs : Int]

\* The type of the state.
TypeOK ==
  /\ DOMAIN rowmap \subseteq Fingerprints
  /\ \A fp \in DOMAIN rowmap : rowmap[fp] \in Nat
  /\ Tsids \in Seq(Fingerprints)
  /\ maxRow \in Nat
  /\ \A r \in DOMAIN buffers : buffers[r] \in Seq(Cells)
  /\ currentStrideStartTs \in StartTimes \union Timestamps
  /\ currentStrideMaxTs = MaxTime(currentStrideStartTs)
  /\ bufferChannel \in Seq(StrideResults)
  /\ Len(bufferChannel) <= 1
  /\ panicked \in BOOLEAN

\* The comment on Tsids (tsaccumulator.go:44), with what the code makes of it: the
\* row map and Tsids are inverse to each other, and every row id has a buffer, so a
\* row id of a result always resolves to the timeseries whose row it is.
RowIndex ==
  /\ DOMAIN buffers = RowIds
  /\ Len(Tsids) = maxRow
  /\ \A fp \in DOMAIN rowmap : rowmap[fp] \in RowIds /\ Tsids[rowmap[fp] + 1] = fp
  /\ \A r \in RowIds : Tsids[r + 1] \in DOMAIN rowmap /\ rowmap[Tsids[r + 1]] = r
  /\ MaxRows > 0 => maxRow <= MaxRows

\* A cell of slot k was computed from nothing, from the sample of that slot, or from
\* two samples on either side of it.
CellAligned(cell, k, start) ==
  \/ cell = {}
  \/ \E s \in Samples : cell = {s} /\ Slot(s.ts, start) = k
  \/ \E s, t \in Samples : /\ cell = {s, t}
                           /\ Slot(s.ts, start) < k
                           /\ k < Slot(t.ts, start)

\* A row in the making: within the stride, cell by cell in its place, the last one a
\* sample and not filler.
RowAligned(row, start) ==
  /\ Len(row) <= Stride
  /\ \A c \in 1 .. Len(row) :
       /\ CellAligned(row[c], c - 1, start)
       /\ \A s \in row[c] : InStride(s.ts, start)
  /\ row # <<>> =>
       \E s \in Samples : LastCell(row) = {s} /\ Slot(s.ts, start) = Len(row) - 1

\* Every cell of the current stride stands in the slot of its sample, or between the
\* samples it interpolates, whatever order and gaps the samples come in.
SlotsAligned == \A r \in DOMAIN buffers : RowAligned(buffers[r], currentStrideStartTs)

\* A published stride is a full matrix computed only from samples of its own
\* interval, and the stride being collected begins after it.
PublishedWithinStride ==
  \A i \in DOMAIN bufferChannel :
    LET result == bufferChannel[i]
    IN  /\ result.CurrentStrideMaxTs < currentStrideStartTs
        /\ Len(result.Buffers) <= maxRow
        /\ \A j \in DOMAIN result.Buffers :
             /\ Len(result.Buffers[j]) = Stride
             /\ \A c \in 1 .. Stride : \A s \in result.Buffers[j][c] :
                  /\ s.ts >= result.CurrentStrideStartTs
                  /\ s.ts <= result.CurrentStrideMaxTs

\* None of the code's own checks (tsaccumulator.go:160, 163, 176, 203, 209) fails.
NoPanic == ~panicked

HoldsOnly(row, fp) == \A c \in 1 .. Len(row) : \A s \in row[c] : s.fp = fp

\* Timeseries are not mixed: a row only ever holds samples of its own timeseries, row
\* 0 once the limit of rows is reached excepted (see RowsHoldOwnSeries).
SeriesSeparate ==
  \A r \in RowIds : r # 0 \/ RoomForRow => HoldsOnly(buffers[r], Tsids[r + 1])

\* The documented limit (settings.go:57): the first MaxRows timeseries are processed
\* and all others dropped, so that no row holds samples of another timeseries.
RowsHoldOwnSeries == \A r \in RowIds : HoldsOnly(buffers[r], Tsids[r + 1])

\* Until the stride rolls over, a cell once filled is never changed, by a duplicate,
\* a late sample or a new timeseries; and a row id never changes hands.
AppendOnlyStep ==
  /\ currentStrideStartTs' = currentStrideStartTs =>
       \A r \in RowIds : \A c \in 1 .. Len(buffers[r]) :
          /\ c <= Len(buffers'[r])
          /\ buffers'[r][c] = buffers[r][c]
  /\ \A r \in RowIds : r < maxRow' /\ Tsids'[r + 1] = Tsids[r + 1]
AppendOnly == [][AppendOnlyStep]_vars

\* The accumulator as its reader sees it: StrideSource.
Source == INSTANCE StrideSource WITH
  Span <- StrideDuration - Second,
  rows <- maxRow,
  strideStart <- currentStrideStartTs,
  channel <- [i \in 1 .. Len(bufferChannel) |->
                [rows |-> Len(bufferChannel[i].Buffers),
                 start |-> bufferChannel[i].CurrentStrideStartTs,
                 end |-> bufferChannel[i].CurrentStrideMaxTs]]
\* Stride results come out one at a time, over disjoint intervals that move forward,
\* with a row for every timeseries known when they are published.
ImplementsStrideSource == Source!SourceSpec

=============================================================================
