--------------------------- MODULE AccumulatorMC ----------------------------
(* Two ticks to the second: the process may start between two seconds. *)
EXTENDS Accumulator

\* The last tick at which an observation is made.
CONSTANT Horizon

MCSecond == 2
MCTimestamps == {t \in 0 .. Horizon : t % MCSecond = 0}
MCStartTimes == {0, 1}
=============================================================================
