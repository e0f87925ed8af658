---------------------------- MODULE WindowHistory ---------------------------
(***************************************************************************)
(* The window alone, fed with any sequence of buffers and with no          *)
(* comparisons to make (ALGO_NONE), together with a record of what was     *)
(* shifted into it.                                                        *)
(***************************************************************************)
EXTENDS Window, FiniteSets

CONSTANTS
  Stride,       \* columns per buffer
  MaxRowCount,  \* rows of a buffer, at most
  MaxShifts     \* calls of ShiftBuffer that find the window free, at most

ASSUME WindowHistoryAssumption ==
  /\ Stride \in 1 .. WindowSize
  /\ MaxRowCount \in Nat
  /\ MaxShifts \in Nat

VARIABLE history   \* the buffers that were shifted into the window

historyVars == <<windowVars, history>>

\* Cells name the shift, the row and the column they came from.
Row(shift, i, width) == [c \in 1 .. width |-> <<shift, i, c>>]
Matrix(shift, n) == [i \in 1 .. n |-> Row(shift, i, Stride)]
RaggedMatrix(shift, n) == [Matrix(shift, n) EXCEPT ![n] = Row(shift, n, Stride - 1)]

\* Regular buffers of any number of rows, ragged ones, and to an empty window also
\* one that is wider than the window.
Inputs(shift) ==
  {Matrix(shift, n) : n \in 0 .. MaxRowCount}
    \union {RaggedMatrix(shift, n) : n \in 2 .. MaxRowCount}
    \union (IF buffers = <<>> THEN {<<Row(shift, 1, WindowSize + 1)>>} ELSE {})

HistoryInit == WindowInit /\ history = <<>>

Shift ==
  /\ StrideCounter < MaxShifts
  /\ \E buffer \in Inputs(StrideCounter + 1) :
       /\ \/ ShiftBusy
          \/ ShiftNothing(buffer)
          \/ ShiftOnly(buffer)
          \/ ShiftAndStart(buffer)
       /\ history' = IF ~windowLocked /\ Accepted(buffer) THEN Append(history, buffer) ELSE history

Normalize == (\E constant \in BOOLEAN : NormalizeRow(constant)) /\ UNCHANGED history
Compute == AlgorithmMoves("start", "unlock") /\ UNCHANGED history
End == AlgorithmEnds /\ UNCHANGED history

Run == Normalize \/ Compute \/ End

HistoryNext == Shift \/ Run

HistorySpec == HistoryInit /\ [][HistoryNext]_historyVars

-----------------------------------------------------------------------------
(* Properties *)

\* The columns of row i over all shifts so far: a buffer without that row gives zeros.
RowSoFar(i) ==
  [k \in 1 .. Stride * Len(history) |->
     LET buffer == history[((k - 1) \div Stride) + 1]
     IN  IF i <= Len(buffer) THEN buffer[i][((k - 1) % Stride) + 1] ELSE Zero]

\* The window is the last WindowSize columns of everything shifted into it, row by
\* row, a late row starting with zeros; refused and empty buffers leave no trace.
WindowIsSuffix ==
  history # <<>> =>
    /\ Len(buffers) = Len(history[Len(history)])
    /\ \A i \in DOMAIN buffers :
         LET all == RowSoFar(i)
             from == IF Len(all) <= WindowSize THEN 1 ELSE Len(all) - WindowSize + 1
         IN  buffers[i] = SubSeq(all, from, Len(all))

\* Shifts that are refused, or find the window busy, change nothing of the window but
\* its counter, and no row is ever lost.
WindowOnlyGrows == [][RowsNeverLostStep /\ (history' = history => UNCHANGED buffers)]_historyVars
=============================================================================
