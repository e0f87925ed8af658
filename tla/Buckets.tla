------------------------------ MODULE Buckets -------------------------------
(***************************************************************************)
(* lib/buckets/buckets.go: the rows of a stride are put into buckets by    *)
(* the coordinates of their SVD, and the pairs of rows in the same or in   *)
(* neighbouring buckets are given to the comparer.                         *)
(*                                                                         *)
(* SVD values are integers in any unit that makes Epsilon1 one, too.  The  *)
(* buckets are the leaves of a map, visited in any order.  A comparison    *)
(* may fail, which ends the stride.                                        *)
(*                                                                         *)
(* A definition whose name lengthens that of the one after it is a faulty  *)
(* form of it, there to show that the properties notice; nothing uses it.  *)
(***************************************************************************)
EXTENDS Integers

CONSTANTS
  RowCount,
  SvdOutputDimensions,
  Epsilon1,
  Values,          \* the values of an SVD
  ConstantRowSets  \* the sets of rows that can be constant

Rows == 1 .. RowCount
Dimensions == 1 .. SvdOutputDimensions

ASSUME BucketsAssumption ==
  /\ RowCount \in Nat
  /\ SvdOutputDimensions \in Nat
  /\ Epsilon1 \in Nat \ {0}
  /\ Values \subseteq Int
  /\ ConstantRowSets \subseteq SUBSET Rows

VARIABLES
  svdOutputMatrix,
  constantRows,    \* the rows that are constant over the window
  visited,         \* the coordinates of the buckets visited
  asked,           \* ordered pair of rows -> how often it was given to the comparer
  outcome          \* "running", "stopped" once the comparer is told so, "failed"

bucketsVars == <<svdOutputMatrix, constantRows, visited, asked, outcome>>

-----------------------------------------------------------------------------
(* Initialize *)

BucketIndex(value) == value \div Epsilon1

Coordinates(row) == [i \in Dimensions |-> BucketIndex(svdOutputMatrix[row][i])]

Buckets == {Coordinates(row) : row \in Rows \ constantRows}

Members(bucket) == {row \in Rows \ constantRows : Coordinates(row) = bucket}

Initialize ==
  /\ svdOutputMatrix \in [Rows -> [Dimensions -> Values]]
  /\ constantRows \in ConstantRowSets
  /\ visited = {}
  /\ asked = [pair \in Rows \X Rows |-> 0]
  /\ outcome = "running"

-----------------------------------------------------------------------------
(* CorrelationCandidates *)

Adjacent(input, other) == \A i \in Dimensions : input[i] - other[i] \in -1 .. 1

\* Of two neighbours the one that is smaller where they first differ has the
\* other for its left neighbour.
isLeftNeighbourOfBoth(input, other) == input # other /\ Adjacent(input, other)
isLeftNeighbourInAll(input, other) ==
  /\ input # other
  /\ \A i \in Dimensions : other[i] - input[i] \in 0 .. 1
isLeftNeighbour(input, other) ==
  /\ Adjacent(input, other)
  /\ \E i \in Dimensions :
       /\ input[i] < other[i]
       /\ \A j \in 1 .. i - 1 : input[j] = other[j]

Within(bucket) ==
  {pair \in Members(bucket) \X Members(bucket) : pair[1] < pair[2]}

Across(bucket) ==
  UNION {Members(bucket) \X Members(other) : other \in {b \in Buckets : isLeftNeighbour(bucket, b)}}

Candidates(bucket) == Within(bucket) \union Across(bucket)

Ask(pairs) == asked' = [pair \in Rows \X Rows |-> IF pair \in pairs THEN asked[pair] + 1 ELSE asked[pair]]

\* Within and Across have no pair in common, and no row is paired with itself.
candidatesForBucket(bucket) ==
  /\ outcome = "running"
  /\ bucket \in Buckets \ visited
  /\ Ask(Candidates(bucket))
  /\ visited' = visited \union {bucket}
  /\ UNCHANGED <<svdOutputMatrix, constantRows, outcome>>

\* A comparison fails: the rest of the bucket and all other buckets are left out.
FailInBucket(bucket) ==
  /\ outcome = "running"
  /\ bucket \in Buckets \ visited
  /\ \E pairs \in SUBSET Candidates(bucket) : pairs # {} /\ Ask(pairs)
  /\ visited' = visited \union {bucket}
  /\ outcome' = "failed"
  /\ UNCHANGED <<svdOutputMatrix, constantRows>>

StopStride ==
  /\ outcome = "running"
  /\ Buckets \subseteq visited
  /\ outcome' = "stopped"
  /\ UNCHANGED <<svdOutputMatrix, constantRows, visited, asked>>

BucketsNext ==
  \/ \E bucket \in Buckets : candidatesForBucket(bucket) \/ FailInBucket(bucket)
  \/ StopStride

BucketsSpec == Initialize /\ [][BucketsNext]_bucketsVars

-----------------------------------------------------------------------------
(* Properties *)

\* The state has its type; the buckets visited are buckets of this matrix.
BucketsTypeOK ==
  /\ svdOutputMatrix \in [Rows -> [Dimensions -> Values]]
  /\ constantRows \subseteq Rows
  /\ visited \subseteq Buckets
  /\ asked \in [Rows \X Rows -> Nat]
  /\ outcome \in {"running", "stopped", "failed"}

\* Whatever order the buckets are visited in, no pair of rows is given to the
\* comparer twice, in one order or the other, and no row with itself: the
\* comparer would count such a match twice in its batches.
CandidatesOnce ==
  \A r1, r2 \in Rows :
    asked[<<r1, r2>>] + asked[<<r2, r1>>] <= IF r1 = r2 THEN 0 ELSE 1

Distance(x, y) == IF x < y THEN y - x ELSE x - y

RowsWithin(distance, r1, r2) ==
  \A i \in Dimensions : Distance(svdOutputMatrix[r1][i], svdOutputMatrix[r2][i]) <= distance

\* When the comparer is told that there are no more requests, every two rows
\* whose SVDs differ by at most Epsilon1 in every dimension have been compared,
\* unless one of them is constant.  That is what the buckets are for: a
\* correlated pair must not get lost at the edge of a bucket, whatever its
\* corner.
CloseRowsAsked ==
  outcome = "stopped" =>
    \A r1, r2 \in Rows \ constantRows :
      r1 # r2 /\ RowsWithin(Epsilon1, r1, r2) => asked[<<r1, r2>>] + asked[<<r2, r1>>] > 0
=============================================================================
