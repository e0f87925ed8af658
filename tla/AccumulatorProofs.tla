-------------------------- MODULE AccumulatorProofs -------------------------
(***************************************************************************)
(* Proofs about the accumulator, for all values of its constants.          *)
(***************************************************************************)
EXTENDS Accumulator, TLAPS

-----------------------------------------------------------------------------
(* The operators the accumulator is built from *)

\* An instant from start to the stride's last second has a slot of the stride: the
\* slot is neither negative nor beyond the rows' capacity (computeSlotIndex).
LEMMA SlotRange ==
  ASSUME NEW start \in Nat, NEW ts \in Nat, start <= ts, ts <= MaxTime(start)
  PROVE  Slot(ts, start) \in 0 .. Stride - 1
<1> DEFINE d == ts - start
<1>1. d \in Nat /\ d < Stride * SampleTime
  BY AccumulatorAssumption DEF MaxTime, StrideDuration
<1>2. SampleTime \in Nat \ {0}
  BY AccumulatorAssumption
<1>3. d \div SampleTime \in Nat
  BY <1>1, <1>2
<1>4. SampleTime * (d \div SampleTime) <= d
  BY <1>1, <1>2
<1>5. ~(d \div SampleTime >= Stride)
  BY <1>1, <1>2, <1>3, <1>4, AccumulatorAssumption
<1> QED
  BY <1>3, <1>5, AccumulatorAssumption DEF Slot

\* The first sample of a stride falls into its slot 0, which exists.
LEMMA StrideStartsInSlotZero ==
  ASSUME NEW ts \in Nat
  PROVE  /\ ts <= MaxTime(ts)
         /\ Slot(ts, ts) = 0
<1>1. Stride * SampleTime >= SampleTime
  BY AccumulatorAssumption
<1>2. 0 \div SampleTime = 0
  BY AccumulatorAssumption
<1> QED
  BY <1>1, <1>2, AccumulatorAssumption DEF MaxTime, StrideDuration, Slot

\* Completing a row that fits the stride gives a row of exactly the stride's length.
LEMMA CompletedRow ==
  ASSUME NEW row \in Seq(Cells), Len(row) <= Stride
  PROVE  /\ Completed(row) \in Seq(Cells)
         /\ Len(Completed(row)) = Stride
         /\ \A c \in 1 .. Stride :
              Completed(row)[c] = IF c <= Len(row) THEN row[c]
                                  ELSE IF row = <<>> THEN {} ELSE LastCell(row)
<1> DEFINE filler == IF row = <<>> THEN {} ELSE LastCell(row)
<1>1. filler \in Cells
  BY DEF LastCell, Cells
<1>2. Completed(row) = [c \in 1 .. Stride |-> IF c <= Len(row) THEN row[c] ELSE filler]
  BY DEF Completed
<1>3. Stride \in Nat
  BY AccumulatorAssumption
<1> HIDE DEF filler
<1>4. \A c \in 1 .. Stride : (IF c <= Len(row) THEN row[c] ELSE filler) \in Cells
  BY <1>1, <1>3
<1>5. Completed(row) \in [1 .. Stride -> Cells]
  BY <1>2, <1>4
<1>6. Completed(row) \in Seq(Cells) /\ Len(Completed(row)) = Stride
  BY <1>3, <1>5
<1> QED
  BY <1>2, <1>6 DEF filler

\* Storing a sample in a row that ends before its slot: the old cells stay, the sample
\* is the last cell, the cells between are filler.
LEMMA StoredRow ==
  ASSUME NEW row \in Seq(Cells), NEW slot \in Nat, NEW s \in Samples, slot >= Len(row)
  PROVE  /\ Stored(row, slot, s) \in Seq(Cells)
         /\ Len(Stored(row, slot, s)) = slot + 1
         /\ \A c \in 1 .. slot + 1 :
              Stored(row, slot, s)[c] =
                IF c <= Len(row) THEN row[c]
                ELSE IF c = slot + 1 THEN {s}
                ELSE IF row = <<>> THEN {} ELSE LastCell(row) \union {s}
<1> DEFINE filler == IF row = <<>> THEN {} ELSE LastCell(row) \union {s}
           cell(c) == IF c <= Len(row) THEN row[c] ELSE IF c <= slot THEN filler ELSE {s}
<1>1. filler \in Cells /\ {s} \in Cells
  BY DEF LastCell, Cells
<1>2. Stored(row, slot, s) = [c \in 1 .. slot + 1 |-> cell(c)]
  BY DEF Stored
<1> HIDE DEF filler
<1>3. \A c \in 1 .. slot + 1 : cell(c) \in Cells
  BY <1>1
<1> HIDE DEF cell
<1>4. Stored(row, slot, s) \in [1 .. slot + 1 -> Cells]
  BY <1>2, <1>3
<1>5. Stored(row, slot, s) \in Seq(Cells) /\ Len(Stored(row, slot, s)) = slot + 1
  BY <1>4
<1>6. \A c \in 1 .. slot + 1 : Stored(row, slot, s)[c] = cell(c)
  BY <1>2
<1>7. \A c \in 1 .. slot + 1 :
        cell(c) = IF c <= Len(row) THEN row[c] ELSE IF c = slot + 1 THEN {s} ELSE filler
  BY DEF cell
<1> QED
  BY <1>5, <1>6, <1>7 DEF filler

\* Storing a sample of the stride keeps a row aligned (AddObservation, from line 185).
LEMMA StoredAligned ==
  ASSUME NEW start \in Nat, NEW row \in Seq(Cells), RowAligned(row, start),
         NEW s \in Samples, s.ts \in Nat, InStride(s.ts, start)
  PROVE  LET slot == Slot(s.ts, start)
         IN  /\ slot \in 0 .. Stride - 1
             /\ Stored(row, slot, s) \in Seq(Cells)
             /\ slot >= Len(row) => Len(Stored(row, slot, s)) = slot + 1
             /\ RowAligned(Stored(row, slot, s), start)
<1> DEFINE slot == Slot(s.ts, start)
           new == Stored(row, slot, s)
<1>1. slot \in 0 .. Stride - 1
  BY SlotRange DEF InStride
<1>2. CASE slot < Len(row)
  BY <1>1, <1>2 DEF Stored
<1>3. CASE slot >= Len(row)
  <2> HIDE DEF slot, new
  <2>0. slot \in Nat /\ slot < Stride /\ slot = Slot(s.ts, start) /\ Stride \in Nat
    BY <1>1, AccumulatorAssumption DEF slot
  <2>1. /\ new \in Seq(Cells)
        /\ Len(new) = slot + 1
        /\ \A c \in 1 .. slot + 1 :
             new[c] = IF c <= Len(row) THEN row[c]
                      ELSE IF c = slot + 1 THEN {s}
                      ELSE IF row = <<>> THEN {} ELSE LastCell(row) \union {s}
    <3>1. slot \in Nat /\ slot >= Len(row)
      BY <1>3, <2>0
    <3> QED
      BY <3>1, StoredRow, Zenon DEF new
  <2>2. LastCell(new) = {s}
    BY <1>3, <2>0, <2>1 DEF LastCell
  <2>3. ASSUME NEW c \in 1 .. slot + 1
        PROVE  CellAligned(new[c], c - 1, start) /\ \A t \in new[c] : InStride(t.ts, start)
    <3>1. CASE c <= Len(row)
      BY <2>1, <3>1 DEF RowAligned
    <3>2. CASE c = slot + 1
      <4>1. new[c] = {s}
        BY <1>3, <2>0, <2>1, <3>2
      <4> QED
        BY <2>0, <3>2, <4>1 DEF CellAligned
    <3>3. CASE c > Len(row) /\ c # slot + 1 /\ row = <<>>
      <4>1. new[c] = {}
        BY <2>0, <2>1, <3>3
      <4> QED
        BY <4>1 DEF CellAligned
    <3>4. CASE c > Len(row) /\ c # slot + 1 /\ row # <<>>
      <4>1. PICK t \in Samples : LastCell(row) = {t} /\ Slot(t.ts, start) = Len(row) - 1
        BY <3>4 DEF RowAligned
      <4>2. new[c] = {t, s}
        <5>1. new[c] = LastCell(row) \union {s}
          BY <2>0, <2>1, <3>4
        <5> QED
          BY <4>1, <5>1
      <4>3. InStride(t.ts, start)
        BY <3>4, <4>1 DEF RowAligned, LastCell
      <4>4. Slot(t.ts, start) < c - 1 /\ c - 1 < Slot(s.ts, start)
        BY <2>0, <3>4, <4>1
      <4> QED
        BY <4>2, <4>3, <4>4 DEF CellAligned
    <3> QED
      BY <2>0, <3>1, <3>2, <3>3, <3>4
  <2>4. RowAligned(new, start)
    BY <2>0, <2>1, <2>2, <2>3 DEF RowAligned
  <2> QED
    BY <1>1, <2>1, <2>4 DEF slot, new
<1> QED
  BY <1>1, <1>2, <1>3

\* A row that holds one timeseries keeps doing so when a sample of it is stored.
LEMMA StoredHoldsOnly ==
  ASSUME NEW row \in Seq(Cells), NEW slot \in Nat, NEW s \in Samples,
         HoldsOnly(row, s.fp)
  PROVE  HoldsOnly(Stored(row, slot, s), s.fp)
<1> DEFINE new == Stored(row, slot, s)
<1>1. CASE slot < Len(row)
  BY <1>1 DEF Stored
<1>2. CASE slot >= Len(row)
  <2>1. /\ Len(new) = slot + 1
        /\ \A c \in 1 .. slot + 1 :
             new[c] = IF c <= Len(row) THEN row[c]
                      ELSE IF c = slot + 1 THEN {s}
                      ELSE IF row = <<>> THEN {} ELSE LastCell(row) \union {s}
    BY <1>2, StoredRow, Zenon
  <2> HIDE DEF new
  <2>2. row # <<>> => \A t \in LastCell(row) : t.fp = s.fp
    BY DEF HoldsOnly, LastCell
  <2>3. ASSUME NEW c \in 1 .. slot + 1, NEW t \in new[c] PROVE t.fp = s.fp
    <3>1. CASE c <= Len(row)
      BY <2>1, <2>3, <3>1 DEF HoldsOnly
    <3>2. CASE c > Len(row)
      BY <2>1, <2>2, <2>3, <3>2
    <3> QED
      BY <3>1, <3>2
  <2>4. HoldsOnly(new, s.fp)
    BY <2>1, <2>3 DEF HoldsOnly
  <2> QED
    BY <2>4 DEF new
<1> QED
  BY <1>1, <1>2

\* A new row is a legal row of any stride and any timeseries.
LEMMA EmptyRow ==
  ASSUME NEW start
  PROVE  /\ <<>> \in Seq(Cells)
         /\ RowAligned(<<>>, start)
         /\ \A fp : HoldsOnly(<<>>, fp)
<1>1. Len(<<>>) = 0 /\ 0 <= Stride
  BY AccumulatorAssumption
<1>2. \A c \in 1 .. Len(<<>>) : FALSE
  BY <1>1
<1>3. RowAligned(<<>>, start)
  BY <1>1, <1>2 DEF RowAligned
<1>4. \A fp : HoldsOnly(<<>>, fp)
  BY <1>2 DEF HoldsOnly
<1> QED
  BY <1>3, <1>4

-----------------------------------------------------------------------------
(* The inductive invariant *)

\* Every invariant of the runs that holds for all values of MaxRows: each supports the
\* next, and their conjunction is inductive.
AccInv ==
  /\ TypeOK
  /\ RowIndex
  /\ SlotsAligned
  /\ PublishedWithinStride
  /\ SeriesSeparate
  /\ NoPanic

\* The row map and Tsids are inverse, buffers aside.
RowMapOK ==
  /\ DOMAIN rowmap \subseteq Fingerprints
  /\ \A fp \in DOMAIN rowmap : rowmap[fp] \in Nat
  /\ Tsids \in Seq(Fingerprints)
  /\ maxRow \in Nat
  /\ Len(Tsids) = maxRow
  /\ \A fp \in DOMAIN rowmap : rowmap[fp] \in RowIds /\ Tsids[rowmap[fp] + 1] = fp
  /\ \A r \in RowIds : Tsids[r + 1] \in DOMAIN rowmap /\ rowmap[Tsids[r + 1]] = r
  /\ MaxRows > 0 => maxRow <= MaxRows

\* What resolving the row of an observation leaves: the row map stays inverse to
\* Tsids, no row changes hands, and the row is the sample's own unless the limit of
\* rows sent it to row 0.
ResolvedRow(s, row) ==
  /\ RowMapOK'
  /\ maxRow' \in {maxRow, maxRow + 1}
  /\ RowIds' = RowIds \union {row}
  /\ \A r \in RowIds : Tsids'[r + 1] = Tsids[r + 1]
  /\ ~Known(s.fp) /\ RoomForRow => Tsids'[row + 1] = s.fp
  /\ row # 0 \/ RoomForRow' => Tsids'[row + 1] = s.fp
  /\ RoomForRow' => RoomForRow

LEMMA ResolveRowStep ==
  ASSUME RowMapOK, NEW s \in Samples, NEW row \in 0 .. maxRow, ResolveRow(s, row)
  PROVE  ResolvedRow(s, row)
<1>0. s.fp \in Fingerprints
  BY DEF Samples
<1>1. CASE FindRow(s, row)
  <2>1. UNCHANGED <<rowmap, Tsids, maxRow>>
    BY <1>1 DEF FindRow, rowVars
  <2>2. row \in RowIds /\ Tsids[row + 1] = s.fp
    BY <1>1 DEF FindRow, Known, RowMapOK
  <2> QED
    BY <1>1, <2>1, <2>2 DEF FindRow, Known, RowMapOK, ResolvedRow, RowIds, RoomForRow
<1>2. CASE AllocateRow(s, row)
  <2>1. maxRow \in Nat /\ MaxRows \in Int /\ row = maxRow /\ maxRow' = maxRow + 1
    BY <1>2, AccumulatorAssumption DEF AllocateRow, RowMapOK
  <2>2. RowIds' = RowIds \union {row}
    BY <2>1 DEF RowIds
  <2>3. /\ Tsids' \in Seq(Fingerprints)
        /\ Len(Tsids') = maxRow'
        /\ Tsids'[row + 1] = s.fp
        /\ \A r \in RowIds : Tsids'[r + 1] = Tsids[r + 1]
    <3>1. Tsids \in Seq(Fingerprints) /\ Len(Tsids) = maxRow
      BY DEF RowMapOK
    <3>2. /\ Append(Tsids, s.fp) \in Seq(Fingerprints)
          /\ Len(Append(Tsids, s.fp)) = maxRow + 1
          /\ Append(Tsids, s.fp)[maxRow + 1] = s.fp
          /\ \A i \in 1 .. maxRow : Append(Tsids, s.fp)[i] = Tsids[i]
      BY <1>0, <3>1, <2>1
    <3>3. \A r \in RowIds : r + 1 \in 1 .. maxRow
      BY <2>1 DEF RowIds
    <3> QED
      BY <1>2, <2>1, <3>2, <3>3 DEF AllocateRow
  <2>4. /\ DOMAIN rowmap' = DOMAIN rowmap \union {s.fp}
        /\ rowmap'[s.fp] = row
        /\ \A fp \in DOMAIN rowmap : rowmap'[fp] = rowmap[fp]
    BY <1>2 DEF AllocateRow, Known
  <2>5. \A fp \in DOMAIN rowmap' : rowmap'[fp] \in RowIds' /\ Tsids'[rowmap'[fp] + 1] = fp
    BY <2>1, <2>2, <2>3, <2>4 DEF RowMapOK
  <2>6. \A r \in RowIds' : Tsids'[r + 1] \in DOMAIN rowmap' /\ rowmap'[Tsids'[r + 1]] = r
    BY <2>1, <2>2, <2>3, <2>4 DEF RowMapOK
  <2>7. MaxRows > 0 => maxRow' <= MaxRows
    BY <1>2, <2>1 DEF AllocateRow, RoomForRow
  <2>8. DOMAIN rowmap' \subseteq Fingerprints /\ \A fp \in DOMAIN rowmap' : rowmap'[fp] \in Nat
    BY <1>0, <2>1, <2>4 DEF RowMapOK
  <2>9. RowMapOK'
    BY <2>1, <2>3, <2>5, <2>6, <2>7, <2>8 DEF RowMapOK
  <2>10. RoomForRow' => RoomForRow
    BY <1>2 DEF AllocateRow
  <2> QED
    BY <2>1, <2>2, <2>3, <2>9, <2>10 DEF ResolvedRow
<1>3. CASE DefaultRow(s, row)
  <2>1. UNCHANGED <<rowmap, Tsids, maxRow>> /\ row = 0 /\ ~RoomForRow
    BY <1>3 DEF DefaultRow, rowVars
  <2>2. row \in RowIds
    BY <2>1, AccumulatorAssumption DEF RowIds, RoomForRow, RowMapOK
  <2> QED
    BY <1>3, <2>1, <2>2 DEF DefaultRow, RowMapOK, ResolvedRow, RowIds, RoomForRow
<1> QED
  BY <1>1, <1>2, <1>3 DEF ResolveRow

\* The rows cur are a legal state of the stride that begins at start.
RowsOK(cur, start) ==
  /\ DOMAIN cur = RowIds
  /\ \A r \in RowIds : /\ cur[r] \in Seq(Cells)
                       /\ RowAligned(cur[r], start)
                       /\ r # 0 \/ RoomForRow => HoldsOnly(cur[r], Tsids[r + 1])

\* Storing a sample of the stride that begins at start turns legal rows into legal
\* rows, without a panic, and only adds cells to them.
LEMMA StoreStep ==
  ASSUME RowMapOK, NEW start \in Nat, NEW cur, RowsOK(cur, start),
         NEW s \in Samples, s.ts \in Nat, InStride(s.ts, start),
         Store(s, cur, start)
  PROVE  /\ RowMapOK'
         /\ maxRow' \in {maxRow, maxRow + 1}
         /\ \A r \in RowIds : Tsids'[r + 1] = Tsids[r + 1]
         /\ DOMAIN buffers' = RowIds'
         /\ \A r \in RowIds' :
              /\ buffers'[r] \in Seq(Cells)
              /\ RowAligned(buffers'[r], start)
              /\ r # 0 \/ RoomForRow' => HoldsOnly(buffers'[r], Tsids'[r + 1])
         /\ \A r \in RowIds : \A c \in 1 .. Len(cur[r]) :
              c <= Len(buffers'[r]) /\ buffers'[r][c] = cur[r][c]
         /\ panicked' = FALSE
<1> DEFINE slot == Slot(s.ts, start)
           old(row) == IF row \in DOMAIN cur THEN cur[row] ELSE <<>>
           new(row) == Stored(old(row), slot, s)
<1>1. PICK row \in 0 .. maxRow :
        /\ ResolveRow(s, row)
        /\ buffers' = [r \in DOMAIN cur \union {row} |-> IF r = row THEN new(row) ELSE cur[r]]
        /\ panicked' = \/ ~InStride(s.ts, start)
                       \/ ~Known(s.fp) /\ RoomForRow /\ Tsids'[row + 1] # s.fp
                       \/ slot >= Len(old(row)) /\ Len(new(row)) # slot + 1
  BY Zenon DEF Store
<1>2. ResolvedRow(s, row)
  BY <1>1, ResolveRowStep
<1>3. /\ old(row) \in Seq(Cells)
      /\ RowAligned(old(row), start)
      /\ row # 0 \/ RoomForRow' => HoldsOnly(old(row), s.fp)
  <2>1. CASE row \in RowIds
    <3>1. old(row) = cur[row]
      BY <2>1 DEF RowsOK
    <3>2. row # 0 \/ RoomForRow' => Tsids[row + 1] = s.fp /\ (row # 0 \/ RoomForRow)
      BY <1>2, <2>1 DEF ResolvedRow
    <3> QED
      BY <2>1, <3>1, <3>2 DEF RowsOK
  <2>2. CASE row \notin RowIds
    <3>1. old(row) = <<>>
      BY <2>2 DEF RowsOK
    <3> QED
      BY <3>1, EmptyRow
  <2> QED
    BY <2>1, <2>2
<1> HIDE DEF old
<1>4. /\ slot \in 0 .. Stride - 1
      /\ new(row) \in Seq(Cells)
      /\ slot >= Len(old(row)) => Len(new(row)) = slot + 1
      /\ RowAligned(new(row), start)
  BY <1>3, StoredAligned, Zenon
<1>5. row # 0 \/ RoomForRow' => HoldsOnly(new(row), s.fp)
  <2>1. slot \in Nat
    BY <1>4, AccumulatorAssumption
  <2> QED
    BY <1>3, <2>1, StoredHoldsOnly, Zenon
<1>6. \A c \in 1 .. Len(old(row)) : c <= Len(new(row)) /\ new(row)[c] = old(row)[c]
  <2>1. CASE slot < Len(old(row))
    BY <1>3, <2>1 DEF Stored
  <2>2. CASE slot >= Len(old(row))
    <3> HIDE DEF slot
    <3>1. slot \in Nat
      BY <1>4, AccumulatorAssumption
    <3>2. /\ Len(new(row)) = slot + 1
          /\ \A c \in 1 .. slot + 1 :
               new(row)[c] = IF c <= Len(old(row)) THEN old(row)[c]
                             ELSE IF c = slot + 1 THEN {s}
                             ELSE IF old(row) = <<>> THEN {} ELSE LastCell(old(row)) \union {s}
      BY <1>3, <2>2, <3>1, StoredRow, Zenon
    <3> HIDE DEF new
    <3>3. Len(old(row)) \in Nat
      BY <1>3
    <3> QED
      BY <2>2, <3>1, <3>2, <3>3
  <2>3. slot \in Int /\ Len(old(row)) \in Nat
    BY <1>3, <1>4
  <2> QED
    BY <2>1, <2>2, <2>3
<1> HIDE DEF new
<1>7. DOMAIN buffers' = RowIds'
  BY <1>1, <1>2 DEF RowsOK, ResolvedRow
<1>8. /\ buffers'[row] = new(row)
      /\ \A r \in RowIds \ {row} : buffers'[r] = cur[r]
  BY <1>1 DEF RowsOK
<1>9. ASSUME NEW r \in RowIds'
      PROVE  /\ buffers'[r] \in Seq(Cells)
             /\ RowAligned(buffers'[r], start)
             /\ r # 0 \/ RoomForRow' => HoldsOnly(buffers'[r], Tsids'[r + 1])
  <2>1. CASE r = row
    <3>1. r # 0 \/ RoomForRow' => Tsids'[r + 1] = s.fp
      BY <1>2, <2>1 DEF ResolvedRow
    <3> QED
      BY <1>4, <1>5, <1>8, <2>1, <3>1
  <2>2. CASE r # row
    <3>1. r \in RowIds /\ buffers'[r] = cur[r] /\ Tsids'[r + 1] = Tsids[r + 1]
      BY <1>2, <1>8, <2>2 DEF ResolvedRow
    <3>2. RoomForRow' => RoomForRow
      BY <1>2 DEF ResolvedRow
    <3> QED
      BY <3>1, <3>2 DEF RowsOK
  <2> QED
    BY <2>1, <2>2
<1>10. ASSUME NEW r \in RowIds, NEW c \in 1 .. Len(cur[r])
       PROVE  c <= Len(buffers'[r]) /\ buffers'[r][c] = cur[r][c]
  <2>1. CASE r = row
    BY <1>6, <1>8, <2>1 DEF old, RowsOK
  <2>2. CASE r # row
    BY <1>8, <2>2 DEF RowsOK
  <2> QED
    BY <2>1, <2>2
<1>11. panicked' = FALSE
  <2>1. ~(slot >= Len(old(row)) /\ Len(new(row)) # slot + 1)
    BY <1>4, AccumulatorAssumption
  <2>2. ~(~Known(s.fp) /\ RoomForRow /\ Tsids'[row + 1] # s.fp)
    BY <1>2 DEF ResolvedRow
  <2> QED
    BY <1>1, <2>1, <2>2, Zenon
<1> QED
  BY <1>2, <1>7, <1>9, <1>10, <1>11 DEF ResolvedRow

-----------------------------------------------------------------------------
(* Steps of the accumulator *)

LEMMA AccInvRows ==
  AccInv => RowMapOK /\ RowsOK(buffers, currentStrideStartTs)
BY DEF AccInv, TypeOK, RowIndex, SlotsAligned, SeriesSeparate, RowMapOK, RowsOK

\* The times of the state are numbers.
LEMMA TimesAreNumbers ==
  ASSUME TypeOK, NEW s \in Samples
  PROVE  /\ s.ts \in Nat
         /\ s.ts \in StartTimes \union Timestamps
         /\ currentStrideStartTs \in Nat
         /\ \A start \in Nat : MaxTime(start) \in Int
<1>1. s.ts \in Timestamps
  BY DEF Samples
<1>2. currentStrideStartTs \in StartTimes \union Timestamps
  BY DEF TypeOK
<1>3. \A start \in Nat : MaxTime(start) \in Int
  BY AccumulatorAssumption DEF MaxTime, StrideDuration
<1> QED
  BY <1>1, <1>2, <1>3, AccumulatorAssumption

LEMMA AddToStrideStep ==
  ASSUME AccInv, NEW s \in Samples, AddToStride(s)
  PROVE  AccInv' /\ AppendOnlyStep
<1>1. /\ InStride(s.ts, currentStrideStartTs)
      /\ s.ts \in Nat
      /\ currentStrideStartTs \in Nat
  BY TimesAreNumbers DEF AccInv, TypeOK, AddToStride, IsBackfill, IsAfterStride, InStride
<1>2. /\ RowMapOK
      /\ RowsOK(buffers, currentStrideStartTs)
      /\ Store(s, buffers, currentStrideStartTs)
      /\ UNCHANGED <<currentStrideStartTs, currentStrideMaxTs, bufferChannel>>
  BY AccInvRows DEF AddToStride, strideVars
<1>3. /\ RowMapOK'
      /\ maxRow' \in {maxRow, maxRow + 1}
      /\ \A r \in RowIds : Tsids'[r + 1] = Tsids[r + 1]
      /\ DOMAIN buffers' = RowIds'
      /\ \A r \in RowIds' :
           /\ buffers'[r] \in Seq(Cells)
           /\ RowAligned(buffers'[r], currentStrideStartTs)
           /\ r # 0 \/ RoomForRow' => HoldsOnly(buffers'[r], Tsids'[r + 1])
      /\ \A r \in RowIds : \A c \in 1 .. Len(buffers[r]) :
           c <= Len(buffers'[r]) /\ buffers'[r][c] = buffers[r][c]
      /\ panicked' = FALSE
  BY <1>1, <1>2, StoreStep, Zenon
<1>4. TypeOK'
  BY <1>2, <1>3 DEF AccInv, TypeOK, RowMapOK
<1>5. RowIndex'
  BY <1>3 DEF RowIndex, RowMapOK
<1>6. SlotsAligned' /\ SeriesSeparate'
  BY <1>2, <1>3, Zenon DEF SlotsAligned, SeriesSeparate
<1>7. PublishedWithinStride'
  <2>1. maxRow <= maxRow' /\ maxRow \in Nat
    BY <1>2, <1>3 DEF RowMapOK
  <2>2. ASSUME NEW i \in DOMAIN bufferChannel PROVE Len(bufferChannel[i].Buffers) <= maxRow'
    <3>1. Len(bufferChannel[i].Buffers) \in Nat
      BY DEF AccInv, TypeOK, StrideResults
    <3>2. Len(bufferChannel[i].Buffers) <= maxRow
      BY DEF AccInv, PublishedWithinStride
    <3> QED
      BY <2>1, <3>1, <3>2, <1>3
  <2> QED
    BY <1>2, <2>2 DEF AccInv, PublishedWithinStride
<1>8. AppendOnlyStep
  <2>1. \A r \in RowIds : r < maxRow'
    BY <1>2, <1>3 DEF RowMapOK, RowIds
  <2> QED
    BY <1>3, <2>1 DEF AppendOnlyStep
<1> QED
  BY <1>3, <1>4, <1>5, <1>6, <1>7, <1>8 DEF AccInv, NoPanic

\* What extractMatrixData publishes: a full matrix of the stride's own samples.
LEMMA PublishedData ==
  ASSUME AccInv
  PROVE  /\ StrideData \in StrideResults
         /\ Len(StrideData.Buffers) = maxRow
         /\ StrideData.CurrentStrideStartTs = currentStrideStartTs
         /\ StrideData.CurrentStrideMaxTs = currentStrideMaxTs
         /\ \A j \in DOMAIN StrideData.Buffers :
              /\ Len(StrideData.Buffers[j]) = Stride
              /\ \A c \in 1 .. Stride : \A s \in StrideData.Buffers[j][c] :
                   s.ts >= currentStrideStartTs /\ s.ts <= currentStrideMaxTs
<1> DEFINE matrix == StrideData.Buffers
<1>1. /\ matrix = [i \in 1 .. maxRow |-> Completed(buffers[i - 1])]
      /\ StrideData.CurrentStrideStartTs = currentStrideStartTs
      /\ StrideData.CurrentStrideMaxTs = currentStrideMaxTs
  BY DEF StrideData
<1>2. maxRow \in Nat /\ \A i \in 1 .. maxRow : i - 1 \in RowIds
  BY DEF AccInv, TypeOK, RowIds
<1>3. ASSUME NEW i \in 1 .. maxRow
      PROVE  /\ Completed(buffers[i - 1]) \in Seq(Cells)
             /\ Len(Completed(buffers[i - 1])) = Stride
             /\ \A c \in 1 .. Stride : \A s \in Completed(buffers[i - 1])[c] :
                  s.ts >= currentStrideStartTs /\ s.ts <= currentStrideMaxTs
  <2> DEFINE row == buffers[i - 1]
  <2>1. row \in Seq(Cells) /\ RowAligned(row, currentStrideStartTs)
    BY <1>2, AccInvRows DEF RowsOK
  <2> HIDE DEF row
  <2>2. Len(row) \in Nat /\ Len(row) <= Stride
    BY <2>1 DEF RowAligned
  <2>3. /\ Completed(row) \in Seq(Cells)
        /\ Len(Completed(row)) = Stride
        /\ \A c \in 1 .. Stride :
             Completed(row)[c] = IF c <= Len(row) THEN row[c]
                                 ELSE IF row = <<>> THEN {} ELSE LastCell(row)
    BY <2>1, <2>2, CompletedRow, Zenon
  <2>4. \A c \in 1 .. Len(row) : \A s \in row[c] : InStride(s.ts, currentStrideStartTs)
    BY <2>1 DEF RowAligned
  <2>5. row # <<>> => \A s \in LastCell(row) : InStride(s.ts, currentStrideStartTs)
    BY <2>1, <2>2, <2>4 DEF LastCell
  <2>6. ASSUME NEW c \in 1 .. Stride, NEW s \in Completed(row)[c]
        PROVE  InStride(s.ts, currentStrideStartTs)
    <3>1. CASE c <= Len(row)
      BY <2>2, <2>3, <2>4, <2>6, <3>1
    <3>2. CASE ~(c <= Len(row))
      BY <2>3, <2>5, <2>6, <3>2
    <3> QED
      BY <3>1, <3>2
  <2>7. currentStrideMaxTs = MaxTime(currentStrideStartTs)
    BY DEF AccInv, TypeOK
  <2>8. \A c \in 1 .. Stride : \A s \in Completed(row)[c] :
          currentStrideStartTs <= s.ts /\ s.ts <= currentStrideMaxTs
    BY <2>6, <2>7, Zenon DEF InStride
  <2> QED
    BY <2>3, <2>8 DEF row
<1>4. matrix \in Seq(Seq(Cells)) /\ Len(matrix) = maxRow
  BY <1>1, <1>2, <1>3
<1>5. currentStrideStartTs \in Nat /\ currentStrideMaxTs \in Int
  BY AccumulatorAssumption DEF AccInv, TypeOK, MaxTime, StrideDuration
<1>6. StrideData \in StrideResults
  <2> HIDE DEF matrix
  <2>1. StrideData = [Buffers |-> matrix,
                      CurrentStrideStartTs |-> currentStrideStartTs,
                      CurrentStrideMaxTs |-> currentStrideMaxTs]
    BY DEF StrideData, matrix
  <2> QED
    BY <1>4, <1>5, <2>1 DEF StrideResults
<1>7. \A j \in DOMAIN matrix : j \in 1 .. maxRow /\ matrix[j] = Completed(buffers[j - 1])
  BY <1>1
<1> QED
  BY <1>1, <1>3, <1>4, <1>6, <1>7

LEMMA RollOverStep ==
  ASSUME AccInv, NEW s \in Samples, RollOver(s)
  PROVE  AccInv' /\ AppendOnlyStep
<1> DEFINE fresh == [r \in RowIds |-> <<>>]
<1>1. /\ s.ts \in Nat
      /\ s.ts \in StartTimes \union Timestamps
      /\ currentStrideStartTs \in Nat
      /\ currentStrideMaxTs \in Int
      /\ s.ts > currentStrideMaxTs
      /\ InStride(s.ts, s.ts)
  <2>1. currentStrideMaxTs = MaxTime(currentStrideStartTs)
    BY DEF AccInv, TypeOK
  <2> QED
    BY <2>1, TimesAreNumbers, StrideStartsInSlotZero DEF AccInv, RollOver, IsAfterStride, InStride
<1>2. /\ bufferChannel' = <<StrideData>>
      /\ currentStrideStartTs' = s.ts
      /\ currentStrideMaxTs' = MaxTime(s.ts)
      /\ Store(s, fresh, s.ts)
  BY DEF RollOver
<1>3. RowMapOK /\ RowsOK(fresh, s.ts)
  <2>1. \A r \in RowIds : fresh[r] = <<>>
    OBVIOUS
  <2> QED
    BY <2>1, AccInvRows, EmptyRow DEF RowsOK
<1> HIDE DEF fresh
<1>4. /\ RowMapOK'
      /\ maxRow' \in {maxRow, maxRow + 1}
      /\ \A r \in RowIds : Tsids'[r + 1] = Tsids[r + 1]
      /\ DOMAIN buffers' = RowIds'
      /\ \A r \in RowIds' :
           /\ buffers'[r] \in Seq(Cells)
           /\ RowAligned(buffers'[r], s.ts)
           /\ r # 0 \/ RoomForRow' => HoldsOnly(buffers'[r], Tsids'[r + 1])
      /\ panicked' = FALSE
  BY <1>1, <1>2, <1>3, StoreStep, Zenon
<1>5. maxRow \in Nat /\ maxRow <= maxRow'
  BY <1>3, <1>4 DEF RowMapOK
<1>6. TypeOK'
  <2>1. bufferChannel' \in Seq(StrideResults) /\ Len(bufferChannel') <= 1
    BY <1>2, PublishedData
  <2> QED
    BY <1>1, <1>2, <1>4, <2>1 DEF TypeOK, RowMapOK
<1>7. RowIndex'
  BY <1>4 DEF RowIndex, RowMapOK
<1>8. SlotsAligned' /\ SeriesSeparate'
  BY <1>2, <1>4, Zenon DEF SlotsAligned, SeriesSeparate
<1>9. PublishedWithinStride'
  <2>1. \A i \in DOMAIN bufferChannel' : bufferChannel'[i] = StrideData
    BY <1>2
  <2>2. StrideData.CurrentStrideMaxTs < currentStrideStartTs'
    BY <1>1, <1>2, PublishedData
  <2>3. Len(StrideData.Buffers) <= maxRow'
    BY <1>5, PublishedData
  <2> QED
    BY <2>1, <2>2, <2>3, PublishedData DEF PublishedWithinStride
<1>10. AppendOnlyStep
  <2>1. currentStrideStartTs' # currentStrideStartTs
    <3>1. currentStrideMaxTs = MaxTime(currentStrideStartTs)
      BY DEF AccInv, TypeOK
    <3>2. currentStrideStartTs <= MaxTime(currentStrideStartTs)
      BY <1>1, StrideStartsInSlotZero
    <3> QED
      BY <1>1, <1>2, <3>1, <3>2
  <2>2. \A r \in RowIds : r < maxRow'
    BY <1>5, <1>4 DEF RowIds
  <2> QED
    BY <1>4, <2>1, <2>2 DEF AppendOnlyStep
<1> QED
  BY <1>4, <1>6, <1>7, <1>8, <1>9, <1>10 DEF AccInv, NoPanic

\* The reader only takes the result out of the channel.
LEMMA ReceiveStrideStep ==
  ASSUME AccInv, ReceiveStride
  PROVE  AccInv' /\ AppendOnlyStep
<1>1. /\ UNCHANGED <<rowmap, Tsids, maxRow, buffers, currentStrideStartTs, currentStrideMaxTs, panicked>>
      /\ bufferChannel' = Tail(bufferChannel)
      /\ bufferChannel # <<>>
  BY DEF ReceiveStride, rowVars, strideVars
<1>2. bufferChannel' = <<>>
  BY <1>1 DEF AccInv, TypeOK
<1>3. TypeOK'
  BY <1>1, <1>2 DEF AccInv, TypeOK
<1>4. RowIndex' /\ SlotsAligned' /\ SeriesSeparate' /\ NoPanic'
  BY <1>1 DEF AccInv, RowIndex, RowIds, SlotsAligned, SeriesSeparate, RoomForRow, NoPanic
<1>5. PublishedWithinStride'
  BY <1>2 DEF PublishedWithinStride
<1>6. AppendOnlyStep
  BY <1>1 DEF AppendOnlyStep, AccInv, TypeOK, RowIds
<1> QED
  BY <1>3, <1>4, <1>5, <1>6 DEF AccInv

LEMMA UnchangedStep ==
  ASSUME AccInv, UNCHANGED vars
  PROVE  AccInv' /\ AppendOnlyStep
<1>1. UNCHANGED <<rowmap, Tsids, maxRow, buffers, currentStrideStartTs, currentStrideMaxTs,
                  bufferChannel, panicked>>
  BY DEF vars, rowVars, strideVars
<1>2. TypeOK' /\ PublishedWithinStride'
  BY <1>1 DEF AccInv, TypeOK, PublishedWithinStride
<1>3. RowIndex' /\ SlotsAligned' /\ SeriesSeparate' /\ NoPanic'
  BY <1>1 DEF AccInv, RowIndex, RowIds, SlotsAligned, SeriesSeparate, RoomForRow, NoPanic
<1>4. AppendOnlyStep
  BY <1>1 DEF AppendOnlyStep, AccInv, TypeOK, RowIds
<1> QED
  BY <1>2, <1>3, <1>4 DEF AccInv

LEMMA AccInvInit == Init => AccInv
<1> SUFFICES ASSUME Init PROVE AccInv
  OBVIOUS
<1>1. /\ DOMAIN rowmap = {} /\ Tsids = <<>> /\ maxRow = 0 /\ DOMAIN buffers = {}
      /\ bufferChannel = <<>> /\ panicked = FALSE
      /\ currentStrideStartTs \in StartTimes
      /\ currentStrideMaxTs = MaxTime(currentStrideStartTs)
  BY DEF Init
<1>2. RowIds = {}
  BY <1>1 DEF RowIds
<1>3. TypeOK
  <2>1. Tsids \in Seq(Fingerprints) /\ bufferChannel \in Seq(StrideResults) /\ Len(bufferChannel) <= 1
    BY <1>1
  <2> QED
    BY <1>1, <2>1 DEF TypeOK
<1>4. RowIndex
  BY <1>1, <1>2, AccumulatorAssumption DEF RowIndex
<1>5. SlotsAligned /\ PublishedWithinStride /\ SeriesSeparate /\ NoPanic
  BY <1>1, <1>2 DEF SlotsAligned, PublishedWithinStride, SeriesSeparate, NoPanic
<1> QED
  BY <1>3, <1>4, <1>5 DEF AccInv

LEMMA AccInvStep == AccInv /\ [Next]_vars => AccInv' /\ AppendOnlyStep
<1> SUFFICES ASSUME AccInv, [Next]_vars PROVE AccInv' /\ AppendOnlyStep
  OBVIOUS
<1>1. ASSUME NEW s \in Samples, IgnoreBackfill(s) PROVE AccInv' /\ AppendOnlyStep
  BY <1>1, UnchangedStep DEF IgnoreBackfill
<1>2. ASSUME NEW s \in Samples, AddToStride(s) PROVE AccInv' /\ AppendOnlyStep
  BY <1>2, AddToStrideStep
<1>3. ASSUME NEW s \in Samples, RollOver(s) PROVE AccInv' /\ AppendOnlyStep
  BY <1>3, RollOverStep
<1>4. CASE ReceiveStride
  BY <1>4, ReceiveStrideStep
<1>5. CASE UNCHANGED vars
  BY <1>5, UnchangedStep
<1> QED
  BY <1>1, <1>2, <1>3, <1>4, <1>5 DEF Next, AddObservation

-----------------------------------------------------------------------------
(* The theorems *)

\* Every invariant of the accumulator holds in every reachable state.
THEOREM Invariance == Spec => []AccInv
<1>1. Init => AccInv
  BY AccInvInit
<1>2. AccInv /\ [Next]_vars => AccInv'
  BY AccInvStep
<1> QED
  BY <1>1, <1>2, PTL DEF Spec

\* The state has its type.
THEOREM TypeCorrect == Spec => []TypeOK
<1>1. AccInv => TypeOK
  BY DEF AccInv
<1> QED
  BY <1>1, Invariance, PTL

\* The row map, Tsids and buffers always agree on which timeseries has which row.
THEOREM RowsResolve == Spec => []RowIndex
<1>1. AccInv => RowIndex
  BY DEF AccInv
<1> QED
  BY <1>1, Invariance, PTL

\* Whatever the order of the observations, a cell stands in the slot of its sample.
THEOREM SamplesAlign == Spec => []SlotsAligned
<1>1. AccInv => SlotsAligned
  BY DEF AccInv
<1> QED
  BY <1>1, Invariance, PTL

\* A published stride is a full matrix of its own interval's samples.
THEOREM StridesDisjoint == Spec => []PublishedWithinStride
<1>1. AccInv => PublishedWithinStride
  BY DEF AccInv
<1> QED
  BY <1>1, Invariance, PTL

\* Below the limit of rows no timeseries gets another one's samples.
THEOREM NoMixedSeries == Spec => []SeriesSeparate
<1>1. AccInv => SeriesSeparate
  BY DEF AccInv
<1> QED
  BY <1>1, Invariance, PTL

\* The code's own checks never fail.
THEOREM PanicsUnreachable == Spec => []NoPanic
<1>1. AccInv => NoPanic
  BY DEF AccInv
<1> QED
  BY <1>1, Invariance, PTL

\* Within a stride a stored cell is final, and a row id never changes hands.
THEOREM CellsFinal == Spec => AppendOnly
<1>1. AccInv /\ [Next]_vars => [AppendOnlyStep]_vars
  BY AccInvStep
<1> QED
  BY <1>1, Invariance, PTL DEF Spec, AppendOnly

-----------------------------------------------------------------------------
(* The accumulator implements StrideSource *)

\* The channel as StrideSource sees it.
SourceChannel ==
  [i \in 1 .. Len(bufferChannel) |->
     [rows |-> Len(bufferChannel[i].Buffers),
      start |-> bufferChannel[i].CurrentStrideStartTs,
      end |-> bufferChannel[i].CurrentStrideMaxTs]]

LEMMA SourceInitStep == Init => Source!SourceInit
<1> SUFFICES ASSUME Init PROVE Source!SourceInit
  OBVIOUS
<1>1. SourceChannel = <<>>
  BY DEF Init, SourceChannel
<1> QED
  BY <1>1 DEF Init, Source!SourceInit, SourceChannel

\* An observation of the current stride is a Collect step.
LEMMA SourceCollectStep ==
  ASSUME AccInv, NEW s \in Samples, AddToStride(s)
  PROVE  Source!Collect
<1>1. UNCHANGED <<currentStrideStartTs, bufferChannel>>
  BY DEF AddToStride, strideVars
<1>2. maxRow' \in {maxRow, maxRow + 1}
  <2>1. PICK row \in 0 .. maxRow : ResolveRow(s, row)
    BY DEF AddToStride, Store
  <2> QED
    BY <2>1, AccInvRows, ResolveRowStep DEF ResolvedRow
<1> QED
  BY <1>1, <1>2 DEF Source!Collect

\* The observation that ends the stride is a Publish step.
LEMMA SourcePublishStep ==
  ASSUME AccInv, NEW s \in Samples, RollOver(s)
  PROVE  Source!Publish
<1>1. /\ bufferChannel = <<>>
      /\ bufferChannel' = <<StrideData>>
      /\ currentStrideStartTs' = s.ts
      /\ s.ts > currentStrideMaxTs
  BY DEF RollOver, IsAfterStride
<1>2. maxRow' \in {maxRow, maxRow + 1}
  <2>1. PICK row \in 0 .. maxRow : ResolveRow(s, row)
    BY DEF RollOver, Store
  <2> QED
    BY <2>1, AccInvRows, ResolveRowStep DEF ResolvedRow
<1>3. currentStrideMaxTs = currentStrideStartTs + (StrideDuration - Second)
  BY AccumulatorAssumption, TimesAreNumbers DEF AccInv, TypeOK, MaxTime, StrideDuration
<1>4. s.ts \in Timestamps
  BY DEF Samples
<1>5. SourceChannel = <<>>
  BY <1>1 DEF SourceChannel
<1>6. SourceChannel' = <<[rows |-> maxRow, start |-> currentStrideStartTs, end |-> currentStrideMaxTs]>>
  <2>1. Len(bufferChannel') = 1 /\ bufferChannel'[1] = StrideData
    BY <1>1
  <2>2. SourceChannel' = [i \in 1 .. 1 |-> [rows |-> Len(StrideData.Buffers),
                                            start |-> StrideData.CurrentStrideStartTs,
                                            end |-> StrideData.CurrentStrideMaxTs]]
    BY <2>1 DEF SourceChannel
  <2> QED
    BY <2>2, PublishedData
<1> QED
  BY <1>1, <1>2, <1>3, <1>4, <1>5, <1>6 DEF Source!Publish, SourceChannel

\* The reader's step is a Take step.
LEMMA SourceTakeStep ==
  ASSUME AccInv, ReceiveStride
  PROVE  Source!Take
<1>1. /\ UNCHANGED <<maxRow, currentStrideStartTs>>
      /\ bufferChannel # <<>>
      /\ bufferChannel' = Tail(bufferChannel)
  BY DEF ReceiveStride, rowVars, strideVars
<1>2. Len(bufferChannel) = 1
  <2>1. bufferChannel \in Seq(StrideResults) /\ Len(bufferChannel) <= 1
    BY DEF AccInv, TypeOK
  <2>2. Len(bufferChannel) \in Nat /\ Len(bufferChannel) # 0
    BY <1>1, <2>1
  <2> QED
    BY <2>1, <2>2
<1>3. SourceChannel' = <<>>
  <2>1. Len(bufferChannel') = 0
    BY <1>1, <1>2 DEF AccInv, TypeOK
  <2> QED
    BY <2>1 DEF SourceChannel
<1>4. SourceChannel # <<>> /\ Tail(SourceChannel) = <<>>
  BY <1>2 DEF SourceChannel
<1> QED
  BY <1>1, <1>3, <1>4 DEF Source!Take, SourceChannel

\* The detailed accumulator, with its slots, gaps and rows, promises its reader what
\* StrideSource says.
THEOREM AccumulatorIsStrideSource == Spec => ImplementsStrideSource
<1>1. Init => Source!SourceInit
  BY SourceInitStep
<1>2. AccInv /\ [Next]_vars => [Source!SourceNext]_(Source!sourceVars)
  <2> SUFFICES ASSUME AccInv, [Next]_vars PROVE [Source!SourceNext]_(Source!sourceVars)
    OBVIOUS
  <2>1. ASSUME UNCHANGED vars PROVE UNCHANGED Source!sourceVars
    BY <2>1 DEF vars, rowVars, strideVars, Source!sourceVars
  <2>2. ASSUME NEW s \in Samples, AddObservation(s) PROVE Source!SourceNext \/ UNCHANGED Source!sourceVars
    BY <2>1, <2>2, SourceCollectStep, SourcePublishStep
       DEF AddObservation, IgnoreBackfill, Source!SourceNext
  <2>3. ASSUME ReceiveStride PROVE Source!SourceNext
    BY <2>3, SourceTakeStep DEF Source!SourceNext
  <2> QED
    BY <2>1, <2>2, <2>3 DEF Next
<1> QED
  BY <1>1, <1>2, Invariance, PTL DEF Spec, ImplementsStrideSource, Source!SourceSpec
=============================================================================
