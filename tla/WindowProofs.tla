---------------------------- MODULE WindowProofs ----------------------------
(***************************************************************************)
(* The window, for any size, any stride that is not longer, and any number *)
(* of rows and shifts: the algorithm only ever sees full windows that do   *)
(* not change under it, and works on copies of this stride's rows; and the *)
(* window is the end of what was shifted into it.                          *)
(***************************************************************************)
EXTENDS WindowHistory, SequenceTheorems, TLAPS

Cells == {Zero} \union (Nat \X Nat \X Nat)
Matrices == Seq(Seq(Cells))

\* The rows of the window have one length, at most the window's.
WindowShape ==
  /\ buffers \in Matrices
  /\ \A i \in DOMAIN buffers : Len(buffers[i]) = Width(buffers)
  /\ buffers # <<>> => Width(buffers) \in 1 .. WindowSize

\* The algorithm's own rows are never more than the window's; those it has been through
\* are copies.
NormalizedSoFar ==
  /\ normalized \in Matrices /\ Len(normalized) <= Len(buffers)
  /\ algorithm = "normalize" =>
       /\ nextRow \in 1 .. Len(buffers) /\ nextRow <= Len(normalized) + 1
       /\ \A i \in 1 .. nextRow - 1 : normalized[i] = buffers[i]
  /\ algorithm \in {"start", "unlock"} => normalized = buffers

\* The lock is held exactly while an algorithm goroutine exists, and then the window is full.
LockedWhileRunning ==
  /\ algorithm \in {"idle", "normalize", "start", "unlock"}
  /\ windowLocked <=> algorithm # "idle"
  /\ algorithm # "idle" => buffers # <<>> /\ Width(buffers) = WindowSize

\* None of the properties is inductive: full windows stay full because the lock is held, and
\* the copies are complete because no row is lost and the loop goes through all.
WindowInv ==
  /\ StrideCounter \in Nat
  /\ history \in Seq(Matrices)
  /\ WindowShape
  /\ NormalizedSoFar
  /\ LockedWhileRunning

-----------------------------------------------------------------------------
(* The shift *)

\* Of the buffers that come, those that are accepted are regular, and no shorter than the window.
LEMMA AcceptedInput ==
  ASSUME NEW shift \in Nat, NEW buffer \in Inputs(shift), Accepted(buffer)
  PROVE  /\ buffer \in Matrices /\ Len(buffer) \in Nat \ {0} /\ Len(buffer) >= Len(buffers)
         /\ \A i \in DOMAIN buffer : Len(buffer[i]) = Stride
<1> USE WindowAssumption, WindowHistoryAssumption
<1>1. \A i \in Nat, width \in Nat : Row(shift, i, width) \in Seq(Cells) /\ Len(Row(shift, i, width)) = width
  BY DEF Row, Cells
<1>2. ASSUME NEW n \in 0 .. MaxRowCount, buffer = Matrix(shift, n)
      PROVE  /\ buffer \in Matrices /\ Len(buffer) = n /\ DOMAIN buffer = 1 .. n
             /\ \A i \in 1 .. n : Len(buffer[i]) = Stride
  BY <1>1, <1>2 DEF Matrix, Matrices
<1>3. ASSUME NEW n \in 2 .. MaxRowCount, buffer = RaggedMatrix(shift, n)
      PROVE  FALSE
  <2>1. DOMAIN buffer = 1 .. n /\ buffer[1] = Row(shift, 1, Stride) /\ buffer[n] = Row(shift, n, Stride - 1)
    BY <1>3 DEF RaggedMatrix, Matrix
  <2>2. Len(buffer[1]) = Stride /\ Len(buffer[n]) = Stride - 1
    BY <1>1, <2>1
  <2>3. Ragged(buffer)
    BY <2>1, <2>2 DEF Ragged, Width
  <2> QED
    BY <2>3 DEF Accepted, Refused
<1>4. ASSUME buffers = <<>>, buffer = <<Row(shift, 1, WindowSize + 1)>>
      PROVE  FALSE
  <2>1. Width(buffer) = WindowSize + 1
    BY <1>1, <1>4 DEF Width
  <2> QED
    BY <1>4, <2>1 DEF Accepted, Refused
<1>5. \E n \in 0 .. MaxRowCount : buffer = Matrix(shift, n)
  BY <1>3, <1>4 DEF Inputs
<1>6. PICK n \in 0 .. MaxRowCount : buffer = Matrix(shift, n)
  BY <1>5
<1>7. n # 0
  BY <1>2, <1>6 DEF Accepted, IsEmpty, Matrix
<1>8. ~(Len(buffer) < Len(buffers))
  BY DEF Accepted, Refused
<1> QED
  BY <1>2, <1>6, <1>7, <1>8

\* Two pieces of a row make a row.
LEMMA RowConcatenation ==
  ASSUME NEW left \in Seq(Cells), NEW right \in Seq(Cells)
  PROVE  left \o right \in Seq(Cells) /\ Len(left \o right) = Len(left) + Len(right)
  BY ConcatProperties

\* The window after a shift is regular again, and full if FillsWindow says so.
LEMMA ShiftedShape ==
  ASSUME WindowShape,
         NEW buffer \in Matrices, Len(buffer) \in Nat \ {0}, Len(buffer) >= Len(buffers),
         \A i \in DOMAIN buffer : Len(buffer[i]) = Stride
  PROVE  /\ Shifted(buffer) \in Matrices /\ Len(Shifted(buffer)) = Len(buffer)
         /\ \E w \in 1 .. WindowSize :
              /\ \A i \in DOMAIN Shifted(buffer) : Len(Shifted(buffer)[i]) = w
              /\ FillsWindow(buffer) => w = WindowSize
<1> USE WindowAssumption, WindowHistoryAssumption
<1>1. Width(buffer) = Stride
  BY DEF Width, Matrices
<1>2. CASE buffers = <<>>
  BY <1>1, <1>2 DEF Shifted, FillsWindow, Matrices
<1>3. CASE buffers # <<>>
  <2> DEFINE cut == ColumnsToDelete(buffer)
             kept(i) == IF i <= Len(buffers) THEN SubSeq(buffers[i], cut + 1, Width(buffers))
                        ELSE [c \in 1 .. Width(buffers) - cut |-> Zero]
             w == Width(buffers) - cut + Stride
  <2>1. Width(buffers) \in 1 .. WindowSize /\ cut \in 0 .. Width(buffers)
    BY <1>1, <1>3 DEF WindowShape, ColumnsToDelete
  <2>2. w \in 1 .. WindowSize /\ (FillsWindow(buffer) => w = WindowSize)
    BY <1>1, <1>3, <2>1 DEF ColumnsToDelete, FillsWindow
  <2>3. ASSUME NEW i \in 1 .. Len(buffer)
        PROVE  kept(i) \in Seq(Cells) /\ Len(kept(i)) = Width(buffers) - cut
    <3>1. CASE i <= Len(buffers)
      <4>1. buffers[i] \in Seq(Cells) /\ Len(buffers[i]) = Width(buffers)
        BY <3>1 DEF WindowShape, Matrices
      <4>2. \A k \in cut + 1 .. Width(buffers) : buffers[i][k] \in Cells
        BY <4>1, <2>1
      <4>3. SubSeq(buffers[i], cut + 1, Width(buffers)) \in Seq(Cells)
            /\ Len(SubSeq(buffers[i], cut + 1, Width(buffers))) = Width(buffers) - cut
        <5> HIDE DEF cut
        <5> QED BY <2>1, <4>2, SubSeqProperties
      <4> QED
        BY <3>1, <4>3
    <3>2. CASE ~(i <= Len(buffers))
      <4>1. [c \in 1 .. Width(buffers) - cut |-> Zero] \in Seq(Cells)
            /\ Len([c \in 1 .. Width(buffers) - cut |-> Zero]) = Width(buffers) - cut
        <5> HIDE DEF cut
        <5> QED BY <2>1 DEF Cells
      <4> QED
        BY <3>2, <4>1
    <3> QED
      BY <3>1, <3>2
  <2>4. Shifted(buffer) = [i \in 1 .. Len(buffer) |-> kept(i) \o buffer[i]]
    BY <1>3 DEF Shifted, Matrices
  <2>5. ASSUME NEW i \in 1 .. Len(buffer)
        PROVE  kept(i) \o buffer[i] \in Seq(Cells) /\ Len(kept(i) \o buffer[i]) = w
    <3>1. buffer[i] \in Seq(Cells) /\ Len(buffer[i]) = Stride
      BY DEF Matrices
    <3>2. w = (Width(buffers) - cut) + Stride
      OBVIOUS
    <3> HIDE DEF kept, cut, w
    <3>3. PICK old \in Seq(Cells) : old = kept(i) /\ Len(old) = Width(buffers) - cut
      BY <2>3
    <3>4. old \o buffer[i] \in Seq(Cells) /\ Len(old \o buffer[i]) = Len(old) + Len(buffer[i])
      BY <3>1, RowConcatenation
    <3>5. kept(i) \o buffer[i] = old \o buffer[i]
      BY <3>3
    <3>6. Len(old \o buffer[i]) = w
      BY <3>1, <3>2, <3>3, <3>4
    <3> QED
      BY <3>4, <3>5, <3>6
  <2> HIDE DEF kept, w
  <2>6. /\ Shifted(buffer) \in Matrices /\ Len(Shifted(buffer)) = Len(buffer)
        /\ DOMAIN Shifted(buffer) = 1 .. Len(buffer)
    BY <2>4, <2>5 DEF Matrices
  <2>7. \A i \in DOMAIN Shifted(buffer) : Len(Shifted(buffer)[i]) = w
    BY <2>4, <2>5, <2>6
  <2> QED
    BY <2>2, <2>6, <2>7
<1> QED
  BY <1>2, <1>3

-----------------------------------------------------------------------------
(* The invariant *)

LEMMA WindowInvInit == HistoryInit => WindowInv
  BY WindowAssumption DEF HistoryInit, WindowInit, WindowInv, WindowShape, NormalizedSoFar, LockedWhileRunning, Matrices

\* A shift, whatever becomes of it.
LEMMA ShiftStep ==
  ASSUME WindowInv, Shift
  PROVE  /\ WindowInv' /\ RowsNeverLostStep /\ WindowStableStep
         /\ history' = history => UNCHANGED buffers
<1> USE DEF WindowInv
<1>1. PICK buffer \in Inputs(StrideCounter + 1) :
        /\ ShiftBusy \/ ShiftNothing(buffer) \/ ShiftOnly(buffer) \/ ShiftAndStart(buffer)
        /\ history' = IF ~windowLocked /\ Accepted(buffer) THEN Append(history, buffer) ELSE history
  BY DEF Shift
<1>2. Len(buffers) \in Nat /\ Len(normalized) \in Nat
  BY DEF WindowShape, NormalizedSoFar, Matrices
<1>3. history' \in Seq(Matrices)
  BY <1>1, AcceptedInput
<1>4. ~windowLocked /\ Accepted(buffer) => history' # history
  BY <1>1, AcceptedInput
<1>5. CASE ShiftBusy
  BY <1>2, <1>5, <1>3 DEF ShiftBusy, windowVars, WindowShape, NormalizedSoFar, LockedWhileRunning,
                    RowsNeverLostStep, WindowStableStep, Width
<1>6. CASE ShiftNothing(buffer)
  BY <1>2, <1>6, <1>3 DEF ShiftNothing, WindowShape, NormalizedSoFar, LockedWhileRunning,
                    RowsNeverLostStep, WindowStableStep, Width
<1>7. ASSUME ShiftOnly(buffer) \/ ShiftAndStart(buffer)
      PROVE  /\ WindowShape' /\ Len(buffers') >= Len(buffers) /\ Len(buffers') \in Nat \ {0}
             /\ buffers' # <<>>
             /\ FillsWindow(buffer) => Width(buffers)' = WindowSize
  <2>1. Accepted(buffer) /\ buffers' = Shifted(buffer)
    BY <1>7 DEF ShiftOnly, ShiftAndStart
  <2>2. /\ buffer \in Matrices /\ Len(buffer) \in Nat \ {0} /\ Len(buffer) >= Len(buffers)
        /\ \A i \in DOMAIN buffer : Len(buffer[i]) = Stride
    BY <2>1, AcceptedInput
  <2>3. /\ buffers' \in Matrices /\ Len(buffers') = Len(buffer)
        /\ \E w \in 1 .. WindowSize :
             /\ \A i \in DOMAIN buffers' : Len(buffers'[i]) = w
             /\ FillsWindow(buffer) => w = WindowSize
    BY <2>1, <2>2, ShiftedShape
  <2>4. 1 \in DOMAIN buffers'
    BY <2>2, <2>3 DEF Matrices
  <2> QED
    BY <2>2, <2>3, <2>4 DEF WindowShape, Width
<1>8. CASE ShiftOnly(buffer)
  BY <1>2, <1>7, <1>8, <1>3, <1>4 DEF ShiftOnly, NormalizedSoFar, LockedWhileRunning, RowsNeverLostStep, WindowStableStep
<1>9. CASE ShiftAndStart(buffer)
  <2>1. /\ ~windowLocked /\ windowLocked' = TRUE /\ algorithm' = "normalize" /\ nextRow' = 1
        /\ normalized' = normalized /\ StrideCounter' \in Nat /\ FillsWindow(buffer)
    BY <1>9 DEF ShiftAndStart
  <2>2. algorithm = "idle"
    BY <2>1 DEF LockedWhileRunning
  <2>3. NormalizedSoFar'
    BY <1>2, <1>7, <1>9, <2>1 DEF NormalizedSoFar
  <2>4. LockedWhileRunning'
    BY <1>7, <1>9, <2>1 DEF LockedWhileRunning
  <2> QED
    BY <1>2, <1>7, <1>9, <1>3, <1>4, <2>1, <2>2, <2>3, <2>4
       DEF ShiftAndStart, RowsNeverLostStep, WindowStableStep
<1> QED
  BY <1>1, <1>5, <1>6, <1>8, <1>9

\* One round of normalizeWindow: one more copy, and all of them when it is the last.
LEMMA NormalizeStep ==
  ASSUME WindowInv, NEW constant \in BOOLEAN, NormalizeRow(constant), UNCHANGED history
  PROVE  WindowInv'
<1> USE DEF WindowInv
<1>1. /\ algorithm = "normalize" /\ nextRow \in 1 .. Len(buffers) /\ nextRow <= Len(normalized) + 1
      /\ nextRow' = nextRow + 1 /\ buffers' = buffers /\ StrideCounter' = StrideCounter
      /\ windowLocked' = windowLocked
      /\ algorithm' = IF nextRow = Len(buffers) THEN "start" ELSE "normalize"
      /\ normalized' = Put(normalized, nextRow, buffers[nextRow])
  BY DEF NormalizeRow, NormalizedSoFar
<1>2. /\ Len(buffers) \in Nat /\ Len(normalized) \in Nat /\ Len(normalized) <= Len(buffers)
      /\ buffers[nextRow] \in Seq(Cells) /\ normalized \in Seq(Seq(Cells)) /\ buffers \in Seq(Seq(Cells))
  BY <1>1 DEF WindowShape, NormalizedSoFar, Matrices
<1>3. /\ normalized' \in Seq(Seq(Cells))
      /\ Len(normalized') = IF nextRow <= Len(normalized) THEN Len(normalized) ELSE Len(normalized) + 1
      /\ normalized'[nextRow] = buffers[nextRow]
      /\ \A i \in 1 .. Len(normalized) : i # nextRow => normalized'[i] = normalized[i]
  <2>1. CASE nextRow <= Len(normalized)
    <3>1. normalized' = [normalized EXCEPT ![nextRow] = buffers[nextRow]]
      BY <1>1, <2>1 DEF Put
    <3> QED
      BY <1>1, <1>2, <2>1, <3>1, ExceptSeq
  <2>2. CASE ~(nextRow <= Len(normalized))
    <3>1. normalized' = Append(normalized, buffers[nextRow]) /\ nextRow = Len(normalized) + 1
      BY <1>1, <1>2, <2>2 DEF Put
    <3> QED
      BY <1>1, <1>2, <2>2, <3>1
  <2> QED
    BY <2>1, <2>2
<1>4. \A i \in 1 .. nextRow : normalized'[i] = buffers[i]
  <2>1. ASSUME NEW i \in 1 .. nextRow PROVE normalized'[i] = buffers[i]
    <3>1. CASE i = nextRow
      BY <1>3, <3>1
    <3>2. CASE i # nextRow
      <4>1. i \in 1 .. nextRow - 1 /\ i \in 1 .. Len(normalized)
        BY <1>1, <1>2, <3>2
      <4>2. normalized[i] = buffers[i]
        BY <1>1, <4>1 DEF NormalizedSoFar
      <4> QED
        BY <1>3, <3>2, <4>1, <4>2
    <3> QED
      BY <3>1, <3>2
  <2> QED
    BY <2>1
<1>5. Len(normalized') \in Nat /\ Len(normalized') <= Len(buffers) /\ nextRow <= Len(normalized')
  BY <1>1, <1>2, <1>3
<1>6. nextRow = Len(buffers) => normalized' = buffers
  <2>1. SUFFICES ASSUME nextRow = Len(buffers) PROVE normalized' = buffers
    OBVIOUS
  <2>2. Len(normalized') = Len(buffers)
    BY <1>2, <1>5, <2>1
  <2> QED
    BY <1>2, <1>3, <1>4, <2>1, <2>2, SeqEqual
<1>7. NormalizedSoFar'
  BY <1>1, <1>2, <1>3, <1>4, <1>5, <1>6 DEF NormalizedSoFar, Matrices
<1>8. WindowShape'
  BY <1>1 DEF WindowShape, Width
<1>9. LockedWhileRunning'
  BY <1>1 DEF LockedWhileRunning, Width
<1> QED
  BY <1>1, <1>7, <1>8, <1>9

LEMMA WindowInvStep ==
  ASSUME WindowInv, [HistoryNext]_historyVars
  PROVE  WindowInv'
<1>1. CASE Shift
  BY <1>1, ShiftStep
<1>2. CASE Normalize
  BY <1>2, NormalizeStep DEF Normalize
<1>3. CASE Compute
  BY <1>3 DEF Compute, AlgorithmMoves, WindowInv, WindowShape, NormalizedSoFar, LockedWhileRunning, Width
<1>4. CASE End
  BY <1>4 DEF End, AlgorithmEnds, WindowInv, WindowShape, NormalizedSoFar, LockedWhileRunning, Width
<1>5. CASE UNCHANGED historyVars
  BY <1>5 DEF historyVars, windowVars, WindowInv, WindowShape, NormalizedSoFar, LockedWhileRunning, Width
<1> QED
  BY <1>1, <1>2, <1>3, <1>4, <1>5 DEF HistoryNext, Run

\* The window's invariant, on which the other theorems rest (tswindow.go).
THEOREM WindowInvariance == HistorySpec => []WindowInv
  BY WindowInvInit, WindowInvStep, PTL DEF HistorySpec

-----------------------------------------------------------------------------
(* The theorems *)

\* The algorithm only ever sees full windows, and works on copies of their rows
\* (runAlgorithm, normalizeWindow).
THEOREM WindowsAreFull == HistorySpec => []ComputesFullWindow
<1>1. WindowInv => ComputesFullWindow
  BY DEF WindowInv, WindowShape, NormalizedSoFar, LockedWhileRunning, ComputesFullWindow
<1> QED
  BY <1>1, WindowInvariance, PTL

\* Neither window nor stride number changes while the algorithm runs (ShiftBuffer's lock).
THEOREM WindowIsStable == HistorySpec => WindowStableWhileRunning
<1>1. ASSUME WindowInv, [HistoryNext]_historyVars
      PROVE  [WindowStableStep]_windowVars
  <2>1. CASE Shift
    BY <1>1, <2>1, ShiftStep
  <2>2. CASE Run
    BY <2>2 DEF Run, Normalize, NormalizeRow, Compute, AlgorithmMoves, End, AlgorithmEnds, WindowStableStep
  <2>3. CASE UNCHANGED historyVars
    BY <2>3 DEF historyVars
  <2> QED
    BY <1>1, <2>1, <2>2, <2>3 DEF HistoryNext
<1> QED
  BY <1>1, WindowInvariance, PTL DEF HistorySpec, WindowStableWhileRunning

\* No row is ever lost, and a shift that is refused or comes too early changes nothing
\* (shiftBufferIntoWindow).
THEOREM RowsAreKept == HistorySpec => WindowOnlyGrows
<1>1. ASSUME WindowInv, [HistoryNext]_historyVars
      PROVE  [RowsNeverLostStep /\ (history' = history => UNCHANGED buffers)]_historyVars
  <2>1. Len(buffers) \in Nat
    BY <1>1 DEF WindowInv, WindowShape, Matrices
  <2>2. CASE Shift
    BY <1>1, <2>2, ShiftStep DEF Shift
  <2>3. CASE Run
    BY <2>1, <2>3 DEF Run, Normalize, NormalizeRow, Compute, AlgorithmMoves, End, AlgorithmEnds, RowsNeverLostStep
  <2> QED
    BY <1>1, <2>2, <2>3 DEF HistoryNext
<1> QED
  BY <1>1, WindowInvariance, PTL DEF HistorySpec, WindowOnlyGrows

-----------------------------------------------------------------------------
(* Division *)

LEMMA TimesMonotone ==
  ASSUME NEW s \in Nat \ {0}, NEW m \in Int, NEW n \in Int, m < n
  PROVE  s * m + s <= s * n
<1>1. PICK d \in Nat : n = m + 1 + d
  <2>1. n - m - 1 \in Nat
    OBVIOUS
  <2> QED
    BY <2>1
<1>2. s * n = s * m + s + s * d
  BY <1>1
<1>3. s * d >= 0
  BY <1>1
<1> QED
  BY <1>2, <1>3

LEMMA DivisionUnique ==
  ASSUME NEW s \in Nat \ {0}, NEW n \in Nat, NEW r \in 0 .. s - 1
  PROVE  (s * n + r) \div s = n /\ (s * n + r) % s = r
<1>1. PICK x \in Nat : x = s * n + r
  OBVIOUS
<1>2. /\ x = s * (x \div s) + (x % s) /\ x \div s \in Int
      /\ x % s \in 0 .. s - 1
  OBVIOUS
<1>3. PICK q \in Int, t \in 0 .. s - 1 : q = x \div s /\ t = x % s
  BY <1>2
<1>4. s * q + t = s * n + r /\ s * q \in Int /\ s * n \in Int
  BY <1>1, <1>2, <1>3
<1>5. ~(q < n)
  <2> SUFFICES ASSUME q < n PROVE FALSE
    OBVIOUS
  <2>1. s * q + s <= s * n
    BY TimesMonotone
  <2> QED
    BY <1>4, <2>1
<1>6. ~(n < q)
  <2> SUFFICES ASSUME n < q PROVE FALSE
    OBVIOUS
  <2>1. s * n + s <= s * q
    BY TimesMonotone
  <2> QED
    BY <1>4, <2>1
<1>7. q = n
  BY <1>5, <1>6
<1>8. t = r
  BY <1>4, <1>7
<1> QED
  BY <1>1, <1>3, <1>7, <1>8

LEMMA DivisionBelow ==
  ASSUME NEW s \in Nat \ {0}, NEW n \in Nat, NEW x \in Nat, x < s * n
  PROVE  x \div s \in 0 .. n - 1
<1>1. /\ x = s * (x \div s) + (x % s) /\ x \div s \in Nat
      /\ x % s \in 0 .. s - 1
  OBVIOUS
<1>2. PICK q \in Nat, t \in 0 .. s - 1 : q = x \div s /\ t = x % s
  BY <1>1
<1>3. x = s * q + t /\ s * q \in Int /\ s * n \in Int
  BY <1>1, <1>2
<1>4. ~(n <= q)
  <2> SUFFICES ASSUME n <= q PROVE FALSE
    OBVIOUS
  <2>1. s * n <= s * q
    BY <1>3, TimesMonotone
  <2> QED
    BY <1>3, <2>1
<1> QED
  BY <1>2, <1>4

-----------------------------------------------------------------------------
(* The window is the end of what was shifted into it *)

\* The columns of row i over the shifts of h.
Cell(h, i, k) ==
  LET buffer == h[((k - 1) \div Stride) + 1]
  IN IF i <= Len(buffer) THEN buffer[i][((k - 1) % Stride) + 1] ELSE Zero

\* The columns shifted so far.
Total(h) == Stride * Len(h)

\* No buffer shifted so far has more rows than the window, and the last has as many.
HistoryRows ==
  /\ history = <<>> <=> buffers = <<>>
  /\ \A k \in 1 .. Len(history) : Len(history[k]) \in Nat /\ Len(history[k]) <= Len(buffers)
  /\ history # <<>> => Len(history[Len(history)]) = Len(buffers)

\* The window holds the last columns shifted, as many as fit.
SuffixCells ==
  history # <<>> =>
    /\ Width(buffers) = IF Total(history) <= WindowSize THEN Total(history) ELSE WindowSize
    /\ \A i \in DOMAIN buffers : \A c \in 1 .. Width(buffers) :
         buffers[i][c] = Cell(history, i, Total(history) - Width(buffers) + c)

SuffixInv == WindowInv /\ HistoryRows /\ SuffixCells

\* A new buffer adds its columns after the others, and leaves these alone.
LEMMA CellsOfAppend ==
  ASSUME NEW h \in Seq(Matrices), NEW buffer \in Matrices
  PROVE  /\ Append(h, buffer) \in Seq(Matrices)
         /\ Total(Append(h, buffer)) = Total(h) + Stride /\ Total(h) \in Nat
         /\ \A i : \A k \in 1 .. Total(h) : Cell(Append(h, buffer), i, k) = Cell(h, i, k)
         /\ \A i : \A c \in 1 .. Stride :
              Cell(Append(h, buffer), i, Total(h) + c) = IF i <= Len(buffer) THEN buffer[i][c] ELSE Zero
<1>1. PICK n \in Nat, s \in Nat \ {0} : n = Len(h) /\ s = Stride
  BY WindowAssumption, WindowHistoryAssumption
<1>2. /\ Append(h, buffer) \in Seq(Matrices) /\ Len(Append(h, buffer)) = n + 1
      /\ Append(h, buffer)[n + 1] = buffer
      /\ \A k \in 1 .. n : Append(h, buffer)[k] = h[k]
  BY <1>1
<1>3. s * (n + 1) = s * n + s /\ s * n \in Nat
  BY <1>1
<1>4. /\ Total(Append(h, buffer)) = Total(h) + Stride /\ Total(h) \in Nat
      /\ Total(h) = s * n
  BY <1>1, <1>2, <1>3 DEF Total
<1>5. ASSUME NEW i, NEW k \in 1 .. s * n
      PROVE  Cell(Append(h, buffer), i, k) = Cell(h, i, k)
  <2>1. k - 1 \in Nat /\ k - 1 < s * n
    BY <1>3
  <2>2. (k - 1) \div s \in 0 .. n - 1
    BY <2>1, DivisionBelow
  <2>3. ((k - 1) \div s) + 1 \in 1 .. n
    BY <2>2
  <2> QED
    BY <1>1, <1>2, <2>3 DEF Cell
<1>6. ASSUME NEW i, NEW c \in 1 .. s
      PROVE  Cell(Append(h, buffer), i, s * n + c) = IF i <= Len(buffer) THEN buffer[i][c] ELSE Zero
  <2>1. PICK r \in 0 .. s - 1 : r = c - 1
    BY <1>1
  <2>2. (s * n + r) \div s = n /\ (s * n + r) % s = r
    BY DivisionUnique
  <2>3. s * n + c - 1 = s * n + r /\ r + 1 = c
    BY <1>3, <2>1
  <2>4. ((s * n + c - 1) \div s) + 1 = n + 1 /\ ((s * n + c - 1) % s) + 1 = c
    BY <2>2, <2>3
  <2>5. PICK k \in Int : k = s * n + c
    BY <1>3
  <2>6. ((k - 1) \div s) + 1 = n + 1 /\ ((k - 1) % s) + 1 = c
    BY <2>4, <2>5
  <2>7. Cell(Append(h, buffer), i, k) = IF i <= Len(buffer) THEN buffer[i][c] ELSE Zero
    BY <1>1, <1>2, <2>6 DEF Cell
  <2> QED
    BY <2>5, <2>7
<1> QED
  BY <1>1, <1>2, <1>4, <1>5, <1>6

\* Rows that the window does not have are zero so far.
LEMMA CellsOfLateRow ==
  ASSUME HistoryRows, history \in Seq(Matrices), buffers \in Matrices,
         NEW i \in Nat, i > Len(buffers), NEW k \in 1 .. Total(history)
  PROVE  Cell(history, i, k) = Zero
<1>1. PICK n \in Nat, s \in Nat \ {0} : n = Len(history) /\ s = Stride
  BY WindowAssumption, WindowHistoryAssumption
<1>2. k - 1 \in Nat /\ k - 1 < s * n
  BY <1>1 DEF Total
<1>3. (k - 1) \div s \in 0 .. n - 1
  BY <1>2, DivisionBelow
<1>4. PICK j \in 1 .. n : j = ((k - 1) \div s) + 1
  <2>1. PICK q \in 0 .. n - 1 : q = (k - 1) \div s
    BY <1>3
  <2>2. q + 1 \in 1 .. n
    OBVIOUS
  <2> QED
    BY <2>1, <2>2
<1>5. Len(history[j]) \in Nat /\ Len(history[j]) <= Len(buffers) /\ Len(buffers) \in Nat
  BY <1>1, <1>4 DEF HistoryRows, Matrices
<1> QED
  BY <1>1, <1>4, <1>5 DEF Cell

LEMMA ConcatCells ==
  ASSUME NEW old \in Seq(Cells), NEW new \in Seq(Cells), NEW both, both = old \o new
  PROVE  /\ Len(both) = Len(old) + Len(new)
         /\ \A c \in 1 .. Len(old) : both[c] = old[c]
         /\ \A c \in 1 .. Len(new) : both[Len(old) + c] = new[c]
<1>1. PICK m \in Nat, n \in Nat : Len(old) = m /\ Len(new) = n
  OBVIOUS
<1>2. /\ Len(both) = Len(old) + Len(new)
      /\ \A c \in 1 .. Len(old) + Len(new) : both[c] = IF c <= Len(old) THEN old[c] ELSE new[c - Len(old)]
  BY ConcatProperties
<1>3. \A c \in 1 .. m + n : both[c] = IF c <= m THEN old[c] ELSE new[c - m]
  BY <1>1, <1>2
<1>4. \A c \in 1 .. n : both[m + c] = new[c]
  <2> SUFFICES ASSUME NEW c \in 1 .. n
               PROVE  both[m + c] = new[c]
    OBVIOUS
  <2>1. PICK k \in 1 .. m + n : k = m + c /\ ~(k <= m) /\ k - m = c
    OBVIOUS
  <2> QED
    BY <1>3, <2>1
<1> QED
  BY <1>1, <1>2, <1>3, <1>4

\* The cells of the window after a shift: what is left of the old ones, then the new.
LEMMA ShiftedCells ==
  ASSUME WindowShape, buffers # <<>>,
         NEW buffer \in Matrices, Len(buffer) \in Nat \ {0}, Len(buffer) >= Len(buffers),
         \A i \in DOMAIN buffer : Len(buffer[i]) = Stride
  PROVE  \E left \in Nat :
           /\ left + Stride = IF Width(buffers) + Stride <= WindowSize THEN Width(buffers) + Stride ELSE WindowSize
           /\ \A i \in 1 .. Len(buffer) :
                /\ Len(Shifted(buffer)[i]) = left + Stride
                /\ \A c \in 1 .. left :
                     Shifted(buffer)[i][c] = IF i <= Len(buffers) THEN buffers[i][Width(buffers) - left + c] ELSE Zero
                /\ \A c \in 1 .. Stride : Shifted(buffer)[i][left + c] = buffer[i][c]
<1> USE WindowAssumption, WindowHistoryAssumption
<1>1. Width(buffer) = Stride
  BY DEF Width, Matrices
<1>2. PICK cut, w, left : cut = ColumnsToDelete(buffer) /\ w = Width(buffers) /\ left = w - cut
  OBVIOUS
<1>3. w \in 1 .. WindowSize /\ cut \in 0 .. w /\ left = w - cut
  BY <1>1, <1>2 DEF WindowShape, ColumnsToDelete
<1>4. left \in Nat /\ left + Stride = IF w + Stride <= WindowSize THEN w + Stride ELSE WindowSize
  BY <1>1, <1>2, <1>3 DEF ColumnsToDelete
<1> DEFINE kept(i) == IF i <= Len(buffers) THEN SubSeq(buffers[i], cut + 1, w) ELSE [c \in 1 .. w - cut |-> Zero]
<1>5. Shifted(buffer) = [i \in 1 .. Len(buffer) |-> kept(i) \o buffer[i]]
  BY <1>2 DEF Shifted, Matrices
<1>6. ASSUME NEW i \in 1 .. Len(buffer)
      PROVE  /\ Len(Shifted(buffer)[i]) = left + Stride
             /\ \A c \in 1 .. left :
                  Shifted(buffer)[i][c] = IF i <= Len(buffers) THEN buffers[i][w - left + c] ELSE Zero
             /\ \A c \in 1 .. Stride : Shifted(buffer)[i][left + c] = buffer[i][c]
  <2>1. buffer[i] \in Seq(Cells) /\ Len(buffer[i]) = Stride
    BY DEF Matrices
  <2>2. /\ kept(i) \in Seq(Cells) /\ Len(kept(i)) = left
        /\ \A c \in 1 .. left : kept(i)[c] = IF i <= Len(buffers) THEN buffers[i][w - left + c] ELSE Zero
    <3>1. CASE i <= Len(buffers)
      <4>1. buffers[i] \in Seq(Cells) /\ Len(buffers[i]) = w
        BY <1>2, <3>1 DEF WindowShape, Matrices
      <4>2. \A k \in cut + 1 .. w : buffers[i][k] \in Cells
        BY <1>3, <4>1
      <4>3. /\ SubSeq(buffers[i], cut + 1, w) \in Seq(Cells)
            /\ Len(SubSeq(buffers[i], cut + 1, w)) = w - cut
            /\ \A c \in 1 .. w - cut : SubSeq(buffers[i], cut + 1, w)[c] = buffers[i][cut + c]
        BY <1>3, <4>2, SubSeqProperties
      <4>4. w - left = cut
        BY <1>3
      <4> QED
        BY <1>3, <3>1, <4>3, <4>4
    <3>2. CASE ~(i <= Len(buffers))
      <4>1. /\ [c \in 1 .. w - cut |-> Zero] \in Seq(Cells)
            /\ Len([c \in 1 .. w - cut |-> Zero]) = w - cut
        BY <1>3 DEF Cells
      <4> QED
        BY <1>3, <3>2, <4>1
    <3> QED
      BY <3>1, <3>2
  <2>3. PICK old \in Seq(Cells) : old = kept(i)
    BY <2>2
  <2>4. Shifted(buffer)[i] = old \o buffer[i]
    BY <1>5, <2>3
  <2> HIDE DEF kept
  <2>5. /\ Len(old \o buffer[i]) = left + Stride
        /\ \A c \in 1 .. left : (old \o buffer[i])[c] = old[c]
        /\ \A c \in 1 .. Stride : (old \o buffer[i])[left + c] = buffer[i][c]
    <3>1. Len(old) = left /\ left \in Nat /\ Stride \in Nat
      BY <1>4, <2>2, <2>3
    <3>2. PICK new \in Seq(Cells) : new = buffer[i] /\ Len(new) = Stride
      BY <2>1
    <3>3. PICK both : both = old \o new
      OBVIOUS
    <3>4. /\ Len(both) = Len(old) + Len(new)
          /\ \A c \in 1 .. Len(old) : both[c] = old[c]
          /\ \A c \in 1 .. Len(new) : both[Len(old) + c] = new[c]
      BY <3>3, ConcatCells
    <3> QED
      BY <3>1, <3>2, <3>3, <3>4
  <2> QED
    BY <2>2, <2>3, <2>4, <2>5
<1> HIDE DEF kept
<1>7. left \in Nat
  BY <1>4
<1> QED
  BY <1>2, <1>4, <1>6, <1>7

LEMMA SuffixKept ==
  ASSUME SuffixInv, UNCHANGED <<history, buffers>>
  PROVE  HistoryRows' /\ SuffixCells'
BY DEF SuffixInv, HistoryRows, SuffixCells, Width

LEMMA SuffixShift ==
  ASSUME SuffixInv, NEW buffer, buffers' = Shifted(buffer), history' = Append(history, buffer),
         buffer \in Matrices, Len(buffer) \in Nat \ {0}, Len(buffer) >= Len(buffers),
         \A i \in DOMAIN buffer : Len(buffer[i]) = Stride
  PROVE  HistoryRows' /\ SuffixCells'
<1> USE WindowAssumption, WindowHistoryAssumption
<1>1. WindowShape /\ HistoryRows /\ SuffixCells /\ history \in Seq(Matrices) /\ buffers \in Matrices
  BY DEF SuffixInv, WindowInv, WindowShape
<1>2. /\ Total(history') = Total(history) + Stride /\ Total(history) \in Nat
      /\ \A i : \A k \in 1 .. Total(history) : Cell(history', i, k) = Cell(history, i, k)
      /\ \A i : \A c \in 1 .. Stride :
           Cell(history', i, Total(history) + c) = IF i <= Len(buffer) THEN buffer[i][c] ELSE Zero
  BY <1>1, CellsOfAppend
<1>3. /\ Len(history') = Len(history) + 1 /\ Len(history) \in Nat /\ history' # <<>>
      /\ history'[Len(history) + 1] = buffer
      /\ \A k \in 1 .. Len(history) : history'[k] = history[k]
  BY <1>1
<1>4. /\ Len(buffers') = Len(buffer) /\ buffers' \in Matrices
      /\ DOMAIN buffers' = 1 .. Len(buffer)
  BY <1>1, ShiftedShape DEF Matrices
<1>5. HistoryRows'
  <2>1. buffers' # <<>>
    BY <1>4
  <2>2. ASSUME NEW k \in 1 .. Len(history')
        PROVE  Len(history'[k]) \in Nat /\ Len(history'[k]) <= Len(buffers')
    <3>1. CASE k \in 1 .. Len(history)
      <4>1. history'[k] = history[k]
        BY <1>3, <3>1
      <4>2. Len(history[k]) \in Nat /\ Len(history[k]) <= Len(buffers)
        BY <1>1, <3>1 DEF HistoryRows
      <4>3. Len(buffers) \in Nat /\ Len(buffers') = Len(buffer)
        BY <1>1, <1>4 DEF Matrices
      <4> QED
        BY <4>1, <4>2, <4>3
    <3>2. CASE k = Len(history) + 1
      BY <1>3, <1>4, <3>2
    <3> QED
      BY <1>3, <3>1, <3>2
  <2> QED
    BY <1>3, <1>4, <2>1, <2>2 DEF HistoryRows
<1>6. CASE buffers = <<>>
  <2>1. history = <<>> /\ Total(history) = 0
    BY <1>1, <1>6 DEF HistoryRows, Total
  <2>2. buffers' = buffer
    BY <1>6 DEF Shifted
  <2>3. Width(buffers') = Stride
    BY <1>4, <2>2 DEF Width
  <2>4. \A i \in DOMAIN buffers' : \A c \in 1 .. Stride : buffers'[i][c] = Cell(history', i, 0 + c)
    BY <1>2, <1>4, <2>1, <2>2
  <2>5. Total(history') = Stride /\ Stride <= WindowSize
    BY <1>2, <2>1
  <2> QED
    BY <1>5, <2>3, <2>4, <2>5 DEF SuffixCells, Width
<1>7. CASE buffers # <<>>
  <2>0. PICK left \in Nat :
           /\ left + Stride = IF Width(buffers) + Stride <= WindowSize THEN Width(buffers) + Stride ELSE WindowSize
           /\ \A i \in 1 .. Len(buffer) :
                /\ Len(Shifted(buffer)[i]) = left + Stride
                /\ \A c \in 1 .. left :
                     Shifted(buffer)[i][c] = IF i <= Len(buffers) THEN buffers[i][Width(buffers) - left + c] ELSE Zero
                /\ \A c \in 1 .. Stride : Shifted(buffer)[i][left + c] = buffer[i][c]
    BY <1>1, <1>7, ShiftedCells
  <2>1. PICK w, total, wide : w = Width(buffers) /\ total = Total(history) /\ wide = left + Stride
    OBVIOUS
  <2>2. /\ left \in Nat
        /\ wide = IF w + Stride <= WindowSize THEN w + Stride ELSE WindowSize
        /\ \A i \in 1 .. Len(buffer) :
             /\ Len(buffers'[i]) = wide
             /\ \A c \in 1 .. left : buffers'[i][c] = IF i <= Len(buffers) THEN buffers[i][w - left + c] ELSE Zero
             /\ \A c \in 1 .. Stride : buffers'[i][left + c] = buffer[i][c]
    BY <2>0, <2>1
  <2>3. /\ total \in Nat /\ w \in 1 .. WindowSize
        /\ w = IF total <= WindowSize THEN total ELSE WindowSize
    BY <1>1, <1>2, <1>7, <2>1 DEF HistoryRows, SuffixCells, WindowShape
  <2>4. w <= total /\ left <= w /\ Stride \in Nat \ {0} /\ wide \in Nat
    <3>1. left \in Nat /\ Stride \in Nat \ {0} /\ wide = left + Stride
      BY <2>1, <2>2
    <3> QED
      BY <2>2, <2>3, <3>1
  <2>ints. wide = left + Stride /\ left \in Int /\ Stride \in Int /\ wide \in Int /\ total \in Int
    BY <2>1, <2>2, <2>3
  <2>5. wide = IF total + Stride <= WindowSize THEN total + Stride ELSE WindowSize
    BY <2>2, <2>3, <2>4
  <2>6. Width(buffers') = wide
    <3>1. 1 \in 1 .. Len(buffer)
      OBVIOUS
    <3> QED
      BY <2>2, <3>1 DEF Width
  <2>7. ASSUME NEW i \in 1 .. Len(buffer), NEW c \in 1 .. left
        PROVE  buffers'[i][c] = Cell(history', i, total + Stride - wide + c)
    <3>1. PICK k \in 1 .. total : k = total - left + c
      BY <2>2, <2>3, <2>4
    <3>2. total + Stride - wide + c = k
      BY <2>ints, <3>1
    <3>3. Cell(history', i, k) = Cell(history, i, k)
      BY <1>2, <2>1
    <3>4. CASE i <= Len(buffers)
      <4>1. PICK d \in 1 .. w : d = w - left + c
        BY <2>2, <2>3, <2>4
      <4>2. i \in DOMAIN buffers
        BY <1>1, <3>4 DEF Matrices
      <4>3. buffers[i][d] = Cell(history, i, total - w + d)
        BY <1>1, <1>7, <2>1, <4>2 DEF SuffixCells, HistoryRows
      <4>4. total - w + d = k
        BY <2>2, <2>3, <3>1, <4>1
      <4>5. buffers'[i][c] = buffers[i][d]
        BY <2>2, <3>4, <4>1
      <4> QED
        BY <3>2, <3>3, <4>3, <4>4, <4>5
    <3>5. CASE ~(i <= Len(buffers))
      <4>1. i \in Nat /\ i > Len(buffers)
        BY <1>1, <3>5 DEF Matrices
      <4>2. Cell(history, i, k) = Zero
        BY <1>1, <2>1, <4>1, CellsOfLateRow
      <4>3. buffers'[i][c] = Zero
        BY <2>2, <3>5
      <4> QED
        BY <3>2, <3>3, <4>2, <4>3
    <3> QED
      BY <3>4, <3>5
  <2>8. ASSUME NEW i \in 1 .. Len(buffer), NEW c \in 1 .. Stride
        PROVE  buffers'[i][left + c] = Cell(history', i, total + Stride - wide + (left + c))
    <3>1. Cell(history', i, total + c) = buffer[i][c]
      BY <1>2, <2>1
    <3>2. total + Stride - wide + (left + c) = total + c
      BY <2>ints
    <3> QED
      BY <2>2, <3>1, <3>2
  <2>9. ASSUME NEW i \in 1 .. Len(buffer), NEW c \in 1 .. wide
        PROVE  buffers'[i][c] = Cell(history', i, total + Stride - wide + c)
    <3>1. CASE c <= left
      BY <2>2, <2>7, <3>1
    <3>2. CASE ~(c <= left)
      <4>1. PICK d \in 1 .. Stride : c = left + d
        <5>1. c - left \in 1 .. Stride /\ c = left + (c - left)
          BY <2>1, <2>2, <2>4, <3>2
        <5> QED
          BY <5>1
      <4> QED
        BY <2>8, <4>1
    <3> QED
      BY <3>1, <3>2
  <2>10. Total(history') = total + Stride
    BY <1>2, <2>1
  <2> QED
    <3>1. Width(buffers') = wide /\ Total(history') = total + Stride /\ DOMAIN buffers' = 1 .. Len(buffer)
      BY <1>4, <2>6, <2>10
    <3>2. \A i \in DOMAIN buffers' : \A c \in 1 .. wide : buffers'[i][c] = Cell(history', i, total + Stride - wide + c)
      BY <2>9, <3>1
    <3>3. /\ Width(buffers') = (IF Total(history') <= WindowSize THEN Total(history') ELSE WindowSize)
          /\ \A i \in DOMAIN buffers' : \A c \in 1 .. Width(buffers') :
               buffers'[i][c] = Cell(history', i, Total(history') - Width(buffers') + c)
      <4>1. \A i \in DOMAIN buffers' : \A c \in 1 .. Width(buffers') :
              buffers'[i][c] = Cell(history', i, Total(history') - Width(buffers') + c)
        <5> SUFFICES ASSUME NEW i \in DOMAIN buffers', NEW c \in 1 .. wide
                     PROVE  buffers'[i][c] = Cell(history', i, Total(history') - Width(buffers') + c)
          BY <3>1
        <5>1. PICK T, W : T = Total(history') /\ W = Width(buffers')
          OBVIOUS
        <5>2. T = total + Stride /\ W = wide
          BY <3>1, <5>1
        <5>3. \A k : k = total + Stride - wide + c => k = T - W + c
          BY <2>ints, <5>2
        <5>4. PICK k : k = total + Stride - wide + c
          OBVIOUS
        <5>5. buffers'[i][c] = Cell(history', i, k) /\ k = T - W + c
          BY <3>2, <5>3, <5>4
        <5> QED
          BY <5>1, <5>5
      <4> QED
        BY <2>5, <3>1, <4>1
    <3>4. SuffixCells'
      BY <3>3 DEF SuffixCells
    <3> QED
      BY <1>5, <3>4
<1> QED
  BY <1>6, <1>7

LEMMA SuffixInvInit == HistoryInit => SuffixInv
  BY WindowInvInit DEF HistoryInit, WindowInit, SuffixInv, HistoryRows, SuffixCells

LEMMA SuffixInvStep ==
  ASSUME SuffixInv, [HistoryNext]_historyVars
  PROVE  SuffixInv'
<1>1. WindowInv' /\ WindowInv
  BY WindowInvStep DEF SuffixInv
<1>2. CASE Shift
  <2>1. PICK buffer \in Inputs(StrideCounter + 1) :
          /\ ShiftBusy \/ ShiftNothing(buffer) \/ ShiftOnly(buffer) \/ ShiftAndStart(buffer)
          /\ history' = IF ~windowLocked /\ Accepted(buffer) THEN Append(history, buffer) ELSE history
    BY <1>2 DEF Shift
  <2>2. CASE ShiftOnly(buffer) \/ ShiftAndStart(buffer)
    <3>1. Accepted(buffer) /\ ~windowLocked /\ buffers' = Shifted(buffer)
      BY <2>2 DEF ShiftOnly, ShiftAndStart
    <3>2. /\ buffer \in Matrices /\ Len(buffer) \in Nat \ {0} /\ Len(buffer) >= Len(buffers)
          /\ \A i \in DOMAIN buffer : Len(buffer[i]) = Stride
      BY <1>1, <3>1, AcceptedInput DEF WindowInv
    <3> QED
      BY <1>1, <2>1, <3>1, <3>2, SuffixShift DEF SuffixInv
  <2>3. CASE ShiftBusy \/ ShiftNothing(buffer)
    <3>1. UNCHANGED <<history, buffers>>
      BY <2>1, <2>3 DEF ShiftBusy, ShiftNothing, Accepted, windowVars
    <3> QED
      BY <1>1, <3>1, SuffixKept DEF SuffixInv
  <2> QED
    BY <2>1, <2>2, <2>3
<1>3. CASE Run \/ UNCHANGED historyVars
  <2>1. UNCHANGED <<history, buffers>>
    BY <1>3 DEF Run, Normalize, NormalizeRow, Compute, AlgorithmMoves, End, AlgorithmEnds, historyVars, windowVars
  <2> QED
    BY <1>1, <2>1, SuffixKept DEF SuffixInv
<1> QED
  BY <1>2, <1>3 DEF HistoryNext

LEMMA SuffixStart ==
  ASSUME NEW total \in Nat, NEW size \in Nat \ {0}, NEW w \in 1 .. size, NEW from,
         w = IF total <= size THEN total ELSE size,
         from = IF total <= size THEN 1 ELSE total - size + 1
  PROVE  from = total - w + 1 /\ w \in Nat /\ from \in Nat /\ 1 <= w /\ w <= total
OBVIOUS

LEMMA SuffixOfCells ==
  ASSUME SuffixInv
  PROVE  WindowIsSuffix
<1>0. SUFFICES ASSUME history # <<>>, NEW i \in DOMAIN buffers,
                    NEW all, all = RowSoFar(i),
                    NEW from, from = IF Len(all) <= WindowSize THEN 1 ELSE Len(all) - WindowSize + 1
             PROVE  buffers[i] = SubSeq(all, from, Len(all))
  BY DEF SuffixInv, HistoryRows, WindowIsSuffix
<1>1. PICK w, total : w = Width(buffers) /\ total = Total(history)
  OBVIOUS
<1>2. /\ total \in Nat /\ w \in 1 .. WindowSize /\ w = (IF total <= WindowSize THEN total ELSE WindowSize)
      /\ \A c \in 1 .. w : buffers[i][c] = Cell(history, i, total - w + c)
      /\ buffers[i] \in Seq(Cells) /\ Len(buffers[i]) = w
  <2>1. WindowShape /\ HistoryRows /\ SuffixCells /\ history \in Seq(Matrices)
    BY DEF SuffixInv, WindowInv
  <2>2. total \in Nat
    BY <1>1, <2>1, WindowAssumption, WindowHistoryAssumption DEF Total
  <2>3. w \in 1 .. WindowSize
    BY <1>1, <2>1 DEF HistoryRows, WindowShape
  <2>4. buffers[i] \in Seq(Cells) /\ Len(buffers[i]) = w
    BY <1>1, <2>1 DEF WindowShape, Matrices
  <2> QED
    BY <1>0, <1>1, <2>1, <2>2, <2>3, <2>4 DEF SuffixCells
<1>3. all = [k \in 1 .. total |-> Cell(history, i, k)]
  BY <1>0, <1>1 DEF RowSoFar, Cell, Total
<1> DEFINE S == {all[k] : k \in 1 .. total}
<1>4. Len(all) = total /\ total \in Nat /\ \A k \in 1 .. total : all[k] \in S
  BY <1>2, <1>3
<1>5. from = total - w + 1 /\ w \in Nat /\ total \in Nat /\ from \in Nat /\ 1 <= w /\ w <= total
  <2>1. total \in Nat /\ w \in 1 .. WindowSize /\ w = (IF total <= WindowSize THEN total ELSE WindowSize)
    BY <1>2
  <2>2. from = IF total <= WindowSize THEN 1 ELSE total - WindowSize + 1
    BY <1>0, <1>4
  <2>3. WindowSize \in Nat \ {0}
    BY WindowAssumption
  <2> QED
    BY <2>1, <2>2, <2>3, SuffixStart
<1>6. PICK end : end = SubSeq(all, from, total)
  OBVIOUS
<1>7. /\ end \in Seq(S)
      /\ Len(end) = total - from + 1
      /\ \A c \in 1 .. total - from + 1 : end[c] = all[from + c - 1]
  <2> HIDE DEF S
  <2>1. \A k \in from .. total : all[k] \in S
    <3>1. \A k \in from .. total : k \in 1 .. total
      BY <1>5
    <3> QED
      BY <1>4, <3>1
  <2>2. from \in Int /\ total \in Int /\ from <= total
    BY <1>5
  <2>3. /\ SubSeq(all, from, total) \in Seq(S)
        /\ Len(SubSeq(all, from, total)) = IF from <= total THEN total - from + 1 ELSE 0
        /\ \A c \in 1 .. total - from + 1 : SubSeq(all, from, total)[c] = all[from + c - 1]
    BY <2>1, <2>2, SubSeqProperties
  <2> QED
    BY <1>6, <2>2, <2>3
<1>8. Len(end) = w /\ total - from + 1 = w
  <2>1. total - from + 1 = w
    BY <1>5
  <2> QED
    BY <1>7, <2>1
<1>9. \A c \in 1 .. w : end[c] = buffers[i][c]
  <2> SUFFICES ASSUME NEW c \in 1 .. w
               PROVE  end[c] = buffers[i][c]
    OBVIOUS
  <2>1. PICK k \in 1 .. total : k = total - w + c /\ from + c - 1 = k
    BY <1>5
  <2>2. end[c] = all[k]
    BY <1>7, <1>8, <2>1
  <2> QED
    BY <1>2, <1>3, <2>1, <2>2
<1>10. end = buffers[i]
  <2>1. \A c \in 1 .. w : end[c] \in Cells
    BY <1>2, <1>9
  <2>2. end \in Seq(Cells)
    BY <1>7, <1>8, <2>1
  <2> QED
    BY <1>2, <1>8, <1>9, <2>2, SeqEqual
<1> QED
  BY <1>4, <1>6, <1>10

\* The window is the end of what was shifted into it, row by row, with zeros for a row that
\* came late; refused and empty buffers leave no trace (shiftBufferIntoWindow).
THEOREM WindowEndsHistory == HistorySpec => []WindowIsSuffix
  BY SuffixInvInit, SuffixInvStep, SuffixOfCells, PTL DEF HistorySpec
=============================================================================
