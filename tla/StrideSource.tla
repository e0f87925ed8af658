---------------------------- MODULE StrideSource ----------------------------
(***************************************************************************)
(* What the accumulator promises the goroutine that reads bufferChannel:   *)
(* stride results, one in the channel at a time, over disjoint time        *)
(* intervals that only move forward, with a number of rows that never      *)
(* shrinks.  Accumulator implements this module; Receiver composes with it *)
(* in place of the accumulator.                                            *)
(***************************************************************************)
EXTENDS Integers, Sequences

CONSTANTS
  StartTimes,   \* the instants at which the first stride may start
  Timestamps,   \* the instants at which a later one may start
  Span          \* the time between the first and the last instant of a stride

VARIABLES
  rows,          \* the number of timeseries known so far
  strideStart,   \* the first instant of the stride being collected
  channel        \* bufferChannel

sourceVars == <<rows, strideStart, channel>>

StrideResult == [rows : Nat, start : StartTimes \union Timestamps, end : Int]

SourceInit ==
  /\ rows = 0
  /\ strideStart \in StartTimes
  /\ channel = <<>>

\* An observation of the stride being collected; it may add a timeseries.
Collect ==
  /\ rows' \in {rows, rows + 1}
  /\ UNCHANGED <<strideStart, channel>>

\* The first observation after the stride's end publishes the stride and starts
\* another one; it may add a timeseries to the new one.
Publish ==
  /\ channel = <<>>
  /\ channel' = <<[rows |-> rows, start |-> strideStart, end |-> strideStart + Span]>>
  /\ strideStart' \in {t \in Timestamps : t > strideStart + Span}
  /\ rows' \in {rows, rows + 1}

\* The reader takes the result from the channel.
Take ==
  /\ channel # <<>>
  /\ channel' = Tail(channel)
  /\ UNCHANGED <<rows, strideStart>>

SourceNext == Collect \/ Publish \/ Take

SourceSpec == SourceInit /\ [][SourceNext]_sourceVars
=============================================================================
