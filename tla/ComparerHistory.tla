--------------------------- MODULE ComparerHistory --------------------------
(***************************************************************************)
(* The comparer alone, driven by an algorithm that keeps to the protocol   *)
(* of engine_api.go and may fail, and read by a goroutine that takes       *)
(* batches, together with a record of what was asked, found and received.  *)
(***************************************************************************)
EXTENDS Comparer

CONSTANTS
  RowCount,       \* rows of every stride
  MaxStride,      \* a bound: strides
  MayBeConstant   \* a bound: the rows that can be constant

ASSUME StridesAssumption == RowCount \in Nat /\ MaxStride \in Nat \ {0}

VARIABLES
  phase,       \* where the algorithm is
  asked,       \* the pairs compared in the current stride
  correlated,  \* stride -> the pairs of it whose rows are correlated and not constant
  matches,     \* stride -> the pairs found to match
  received     \* the batches received, in order

historyVars == <<comparerVars, phase, asked, correlated, matches, received>>

StrideNumbers == 1 .. MaxStride
Rows(stride) == [i \in 1 .. RowCount |-> <<stride, i>>]

HistoryInit ==
  /\ ComparerInit
  /\ phase = "idle"
  /\ asked = {}
  /\ correlated = [s \in StrideNumbers |-> {}]
  /\ matches = [s \in StrideNumbers |-> {}]
  /\ received = <<>>

NextStride == IF comparing < 0 THEN 1 ELSE comparing + 1

Start ==
  /\ phase = "idle" /\ comparing < MaxStride
  /\ \E constantRows \in [1 .. RowCount -> BOOLEAN] :
       /\ \A i \in 1 .. RowCount : constantRows[i] => i \in MayBeConstant
       /\ StartStride(Rows(NextStride), constantRows, NextStride)
  /\ phase' = "compare"
  /\ asked' = {}
  /\ UNCHANGED <<correlated, matches, received>>

\* A second StartStride for the stride being compared, which is refused.
StartAgain ==
  /\ phase = "compare"
  /\ StartStride(matrix, constants, comparing)
  /\ UNCHANGED <<phase, asked, correlated, matches, received>>

Compare ==
  /\ phase = "compare"
  /\ \E pair \in Pairs(RowCount) \ asked :
       /\ asked' = asked \union {pair}
       /\ \/ /\ SkipPair(pair) \/ NoMatch(pair, FALSE, TRUE)
             /\ UNCHANGED <<correlated, matches>>
          \/ /\ NoMatch(pair, TRUE, TRUE)
             /\ correlated' = [correlated EXCEPT ![comparing] = @ \union {pair}]
             /\ UNCHANGED matches
          \/ /\ Match(pair)
             /\ correlated' = [correlated EXCEPT ![comparing] = @ \union {pair}]
             /\ matches' = [matches EXCEPT ![comparing] = @ \union {pair}]
  /\ UNCHANGED <<phase, received>>

Stop ==
  /\ phase = "compare"
  /\ phase' = IF resultsBuffer = {} THEN "end" ELSE "leftover"
  /\ UNCHANGED <<comparerVars, asked, correlated, matches, received>>

Leftover ==
  /\ phase = "leftover" /\ SendLeftover(comparing)
  /\ phase' = "end"
  /\ UNCHANGED <<asked, correlated, matches, received>>

End ==
  /\ phase = "end" /\ SendEnd(comparing)
  /\ phase' = "idle"
  /\ UNCHANGED <<asked, correlated, matches, received>>

Fail ==
  /\ phase = "compare"
  /\ phase' = "idle"
  /\ UNCHANGED <<comparerVars, asked, correlated, matches, received>>

Receive ==
  /\ TakeBatch
  /\ received' = Append(received, Head(resultsChannel))
  /\ UNCHANGED <<phase, asked, correlated, matches>>

HistoryNext == Start \/ StartAgain \/ Compare \/ Stop \/ Leftover \/ End \/ Fail \/ Receive

HistorySpec == HistoryInit /\ [][HistoryNext]_historyVars

-----------------------------------------------------------------------------
(* Properties *)

Sent == received \o resultsChannel

\* A batch is a batch: never more than BufferSize matches, and no match in two of them.
BatchesDisjoint ==
  \A i, j \in DOMAIN Sent :
    /\ Cardinality(Sent[i].pairs) <= BufferSize
    /\ i # j /\ Sent[i].stride = Sent[j].stride => Sent[i].pairs \intersect Sent[j].pairs = {}

\* The empty batch, which the reader takes for the end of its stride, is the last of the
\* stride; when it is out, so is every match of the stride, and no other pair.
StrideComplete ==
  \A i \in DOMAIN Sent :
    LET s == Sent[i].stride
    IN  /\ Sent[i].pairs \subseteq matches[s]
        /\ Sent[i].pairs = {} =>
             /\ \A j \in DOMAIN Sent : j > i => Sent[j].stride > s
             /\ matches[s] = UNION {Sent[j].pairs : j \in {k \in DOMAIN Sent : Sent[k].stride = s}}

\* Subsequent comparisons are for the new stride (engine_api.go:16): every pair of rows
\* that is asked for and correlated in the stride is reported for it.
CorrelatedReported ==
  \A i \in DOMAIN Sent :
    Sent[i].pairs = {} => correlated[Sent[i].stride] \subseteq matches[Sent[i].stride]
=============================================================================
