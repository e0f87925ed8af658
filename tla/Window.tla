------------------------------- MODULE Window -------------------------------
(***************************************************************************)
(* lib/tswindow.go: the TimeseriesWindow.  ShiftBuffer appends the columns *)
(* of a stride to a sliding window, dropping the oldest ones, and once the *)
(* window is full starts the algorithm goroutine on it.  windowLocked is   *)
(* taken by ShiftBuffer and released by whoever finishes: ShiftBuffer when *)
(* there is nothing to compute, the algorithm otherwise.                   *)
(*                                                                         *)
(* A row is a sequence of cells; what a cell is, is up to the caller.  Of  *)
(* the numerics only the flag of constant rows is kept.                    *)
(*                                                                         *)
(* A definition whose name lengthens that of the one after it is a faulty  *)
(* form of it, there to show that the properties notice; nothing uses it.  *)
(***************************************************************************)
EXTENDS Integers, Sequences

CONSTANTS
  WindowSize,   \* settings.WindowSize: the columns of a full window
  Zero          \* the cell a new row is padded with

ASSUME WindowAssumption == WindowSize \in Nat \ {0}

VARIABLES
  buffers,        \* the rows of the window
  normalized,     \* the rows the algorithm works on
  ConstantRows,   \* which of them are constant, as of the last normalisation
  StrideCounter,
  windowLocked,
  algorithm,      \* where the algorithm goroutine is
  nextRow         \* the next row it normalises

windowVars == <<buffers, normalized, ConstantRows, StrideCounter, windowLocked, algorithm, nextRow>>

WindowInit ==
  /\ buffers = <<>>
  /\ normalized = <<>>
  /\ ConstantRows = <<>>
  /\ StrideCounter = 0
  /\ windowLocked = FALSE
  /\ algorithm = "idle"
  /\ nextRow = 0

-----------------------------------------------------------------------------
(* shiftBufferIntoWindow *)

Width(rows) == Len(rows[1])

IsEmpty(buffer) == buffer = <<>>

\* The buffers that are refused with an error.
Ragged(buffer) == \E i \in DOMAIN buffer : Len(buffer[i]) # Width(buffer)
RefusedOnlyRagged(buffer) ==
  /\ ~IsEmpty(buffer)
  /\ \/ Ragged(buffer)
     \/ buffers = <<>> /\ Width(buffer) > WindowSize
Refused(buffer) ==
  /\ ~IsEmpty(buffer)
  /\ \/ Len(buffer) < Len(buffers)
     \/ Ragged(buffer)
     \/ buffers = <<>> /\ Width(buffer) > WindowSize

Accepted(buffer) == ~IsEmpty(buffer) /\ ~Refused(buffer)

\* The number of columns that fall out of the window on the left.
ColumnsToDelete(buffer) ==
  LET surplus == Width(buffers) + Width(buffer) - WindowSize
  IN  IF surplus < 0 THEN 0 ELSE surplus

\* The window after the shift; a row the window did not have is padded on the left.
ShiftedUnpadded(buffer) ==
  IF buffers = <<>>
  THEN buffer
  ELSE LET cut == ColumnsToDelete(buffer)
           kept(i) == IF i <= Len(buffers) THEN SubSeq(buffers[i], cut + 1, Width(buffers)) ELSE <<>>
       IN  [i \in DOMAIN buffer |-> kept(i) \o buffer[i]]
Shifted(buffer) ==
  IF buffers = <<>>
  THEN buffer
  ELSE LET cut == ColumnsToDelete(buffer)
           kept(i) == IF i <= Len(buffers)
                      THEN SubSeq(buffers[i], cut + 1, Width(buffers))
                      ELSE [c \in 1 .. Width(buffers) - cut |-> Zero]
       IN  [i \in DOMAIN buffer |-> kept(i) \o buffer[i]]

\* Whether the shift fills the window.
FillsWindow(buffer) ==
  IF buffers = <<>>
  THEN Width(buffer) = WindowSize
  ELSE Width(buffers) + Width(buffer) >= WindowSize

-----------------------------------------------------------------------------
(* ShiftBuffer.  Only one goroutine calls it, and it takes and releases the *)
(* lock within one call unless it leaves it to the algorithm.               *)

ShiftBusy ==
  /\ windowLocked
  /\ UNCHANGED windowVars

\* The stride is counted although there is nothing to shift, or it is refused.
ShiftNothing(buffer) ==
  /\ ~windowLocked
  /\ IsEmpty(buffer) \/ Refused(buffer)
  /\ StrideCounter' = StrideCounter + 1
  /\ UNCHANGED <<buffers, normalized, ConstantRows, windowLocked, algorithm, nextRow>>

ShiftOnly(buffer) ==
  /\ ~windowLocked
  /\ Accepted(buffer) /\ ~FillsWindow(buffer)
  /\ StrideCounter' = StrideCounter + 1
  /\ buffers' = Shifted(buffer)
  /\ UNCHANGED <<normalized, ConstantRows, windowLocked, algorithm, nextRow>>

ShiftAndStartUnlocked(buffer) ==
  /\ Accepted(buffer) /\ FillsWindow(buffer)
  /\ StrideCounter' = StrideCounter + 1
  /\ buffers' = Shifted(buffer)
  /\ windowLocked' = TRUE
  /\ algorithm' = "normalize"
  /\ nextRow' = 1
  /\ UNCHANGED <<normalized, ConstantRows>>
ShiftAndStart(buffer) ==
  /\ ~windowLocked
  /\ Accepted(buffer) /\ FillsWindow(buffer)
  /\ StrideCounter' = StrideCounter + 1
  /\ buffers' = Shifted(buffer)
  /\ windowLocked' = TRUE
  /\ algorithm' = "normalize"
  /\ nextRow' = 1
  /\ UNCHANGED <<normalized, ConstantRows>>

-----------------------------------------------------------------------------
(* runAlgorithm *)

\* s with v at position i, which is at most one past its end.
Put(s, i, v) == IF i <= Len(s) THEN [s EXCEPT ![i] = v] ELSE Append(s, v)

\* One round of normalizeWindow's loop: a fresh copy of the row, in place.
NormalizeRowOnce(constant) ==
  /\ algorithm = "normalize" /\ nextRow <= Len(buffers)
  /\ normalized' = IF nextRow <= Len(normalized) THEN normalized ELSE Append(normalized, buffers[nextRow])
  /\ ConstantRows' = Put(ConstantRows, nextRow, constant)
  /\ nextRow' = nextRow + 1
  /\ algorithm' = IF nextRow = Len(buffers) THEN "start" ELSE "normalize"
  /\ UNCHANGED <<buffers, StrideCounter, windowLocked>>
NormalizeRow(constant) ==
  /\ algorithm = "normalize" /\ nextRow <= Len(buffers)
  /\ normalized' = Put(normalized, nextRow, buffers[nextRow])
  /\ ConstantRows' = Put(ConstantRows, nextRow, constant)
  /\ nextRow' = nextRow + 1
  /\ algorithm' = IF nextRow = Len(buffers) THEN "start" ELSE "normalize"
  /\ UNCHANGED <<buffers, StrideCounter, windowLocked>>

\* The algorithm goroutine goes from one of its places to another.
AlgorithmMoves(from, to) ==
  /\ algorithm = from
  /\ algorithm' = to
  /\ UNCHANGED <<buffers, normalized, ConstantRows, StrideCounter, windowLocked, nextRow>>

\* The deferred unlockWindow, when the goroutine ends.
AlgorithmEndsLocked ==
  /\ algorithm = "unlock"
  /\ algorithm' = "idle"
  /\ UNCHANGED <<buffers, normalized, ConstantRows, StrideCounter, windowLocked, nextRow>>
AlgorithmEnds ==
  /\ algorithm = "unlock"
  /\ algorithm' = "idle"
  /\ windowLocked' = FALSE
  /\ UNCHANGED <<buffers, normalized, ConstantRows, StrideCounter, nextRow>>

-----------------------------------------------------------------------------
(* Properties *)

\* The algorithm only ever sees full windows, and once normalisation is over every row
\* it works on is a copy of this stride's row and not of an earlier one.
ComputesFullWindow ==
  algorithm # "idle" =>
    /\ \A i \in DOMAIN buffers : Len(buffers[i]) = WindowSize
    /\ algorithm # "normalize" => normalized = buffers

\* Neither the window nor its stride number changes under a running algorithm, which
\* reads both without any other protection (tswindow.go:170, 250, 341).
WindowStableStep ==
  algorithm # "idle" => UNCHANGED <<buffers, StrideCounter>>
WindowStableWhileRunning == [][WindowStableStep]_windowVars

\* A timeseries once in the window keeps its row: the window never loses rows, as the
\* row ids of the accumulator are positions in it.
RowsNeverLostStep == Len(buffers) <= Len(buffers')
=============================================================================
