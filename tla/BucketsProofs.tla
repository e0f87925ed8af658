--------------------------- MODULE BucketsProofs ----------------------------
(***************************************************************************)
(* Proofs about Buckets, for any number of rows and dimensions: no pair of *)
(* rows is compared twice, and no two rows that are close are left out.    *)
(***************************************************************************)
EXTENDS Buckets, WellFoundedInduction, TLAPS

-----------------------------------------------------------------------------
(* Buckets of values *)

\* The value of a bucket lies between its lower and its upper bound.
LEMMA BucketBounds ==
  ASSUME NEW value \in Int
  PROVE  /\ BucketIndex(value) \in Int
         /\ Epsilon1 * BucketIndex(value) <= value
         /\ value < Epsilon1 * BucketIndex(value) + Epsilon1
<1>1. Epsilon1 \in Nat \ {0}
  BY BucketsAssumption
<1> QED
  BY <1>1 DEF BucketIndex

\* A value that is at most Epsilon1 above another is at most one bucket above it.
LEMMA NextBucket ==
  ASSUME NEW x \in Int, NEW y \in Int, x <= y + Epsilon1
  PROVE  BucketIndex(x) <= BucketIndex(y) + 1
<1>1. Epsilon1 \in Nat \ {0}
  BY BucketsAssumption
<1> DEFINE a == BucketIndex(x)
           b == BucketIndex(y)
<1>2. /\ a \in Int /\ b \in Int
      /\ Epsilon1 * a <= x
      /\ y < Epsilon1 * b + Epsilon1
  BY BucketBounds
<1> HIDE DEF a, b
<1>3. ASSUME a >= b + 2
      PROVE  FALSE
  <2>1. Epsilon1 * a >= Epsilon1 * (b + 2)
    BY <1>1, <1>2, <1>3
  <2>2. Epsilon1 * (b + 2) = Epsilon1 * b + Epsilon1 + Epsilon1
    BY <1>1, <1>2
  <2> QED
    BY <1>1, <1>2, <2>1, <2>2
<1>4. a <= b + 1
  BY <1>2, <1>3
<1> QED
  BY <1>4 DEF a, b

-----------------------------------------------------------------------------
(* Neighbours *)

Below == {p \in Nat \X Nat : p[1] < p[2]}

LEMMA BelowWellFounded == IsWellFoundedOn(Below, Nat)
BY NatLessThanWellFounded DEF OpToRel, Below

LEMMA Least ==
  ASSUME NEW S, S \subseteq Nat, S # {}
  PROVE  \E n \in S : \A m \in S : n <= m
<1>1. PICK x \in S : \A y \in S : <<y, x>> \notin Below
  BY BelowWellFounded, WFMin
<1>2. ASSUME NEW y \in S
      PROVE  x <= y
  <2>1. <<y, x>> \in Nat \X Nat
    OBVIOUS
  <2>2. ~(y < x)
    BY <1>1, <2>1 DEF Below
  <2> QED
    BY <2>1, <2>2
<1> QED
  BY <1>2

CoordinateSpace == [Dimensions -> Int]

\* Of two buckets at most one has the other for its left neighbour.
LEMMA OneSided ==
  ASSUME NEW a \in CoordinateSpace, NEW b \in CoordinateSpace,
         isLeftNeighbour(a, b)
  PROVE  a # b /\ ~isLeftNeighbour(b, a)
<1>1. SvdOutputDimensions \in Nat
  BY BucketsAssumption
<1>2. PICK i \in Dimensions : a[i] < b[i] /\ \A j \in 1 .. i - 1 : a[j] = b[j]
  BY DEF isLeftNeighbour
<1>3. i \in Int /\ i >= 1 /\ a[i] \in Int /\ b[i] \in Int
  BY <1>1 DEF Dimensions, CoordinateSpace
<1>4. ASSUME NEW k \in Dimensions, b[k] < a[k], \A j \in 1 .. k - 1 : b[j] = a[j]
      PROVE  FALSE
  <2>1. k \in Int /\ k >= 1 /\ a[k] \in Int /\ b[k] \in Int
    BY <1>1 DEF Dimensions, CoordinateSpace
  <2>2. CASE i < k
    BY <1>2, <1>3, <1>4, <2>1, <2>2
  <2>3. CASE k < i
    BY <1>2, <1>3, <1>4, <2>1, <2>3
  <2>4. CASE i = k
    BY <1>2, <1>3, <1>4, <2>1, <2>4
  <2> QED
    BY <1>3, <2>1, <2>2, <2>3, <2>4
<1>5. a # b
  BY <1>2, <1>3
<1> QED
  BY <1>4, <1>5 DEF isLeftNeighbour

\* Of two buckets that touch at least one has the other for its left neighbour.
LEMMA SomeSide ==
  ASSUME NEW a \in CoordinateSpace, NEW b \in CoordinateSpace,
         a # b, Adjacent(a, b)
  PROVE  isLeftNeighbour(a, b) \/ isLeftNeighbour(b, a)
<1>1. SvdOutputDimensions \in Nat
  BY BucketsAssumption
<1> DEFINE Differing == {i \in Dimensions : a[i] # b[i]}
<1>2. Differing \in SUBSET Nat /\ Differing # {}
  BY <1>1 DEF Dimensions, CoordinateSpace
<1>3. PICK i \in Differing : \A k \in Differing : i <= k
  BY <1>2, Least
<1>4. i \in Dimensions /\ a[i] # b[i] /\ a[i] \in Int /\ b[i] \in Int /\ i \in Nat
  BY <1>1 DEF Dimensions, CoordinateSpace
<1>5. \A j \in 1 .. i - 1 : a[j] = b[j]
  BY <1>1, <1>3, <1>4 DEF Dimensions
<1>6. ASSUME NEW k \in Dimensions
      PROVE  b[k] - a[k] \in -1 .. 1
  <2>1. a[k] - b[k] \in -1 .. 1
    BY DEF Adjacent
  <2>2. a[k] \in Int /\ b[k] \in Int
    BY DEF CoordinateSpace
  <2> QED
    BY <2>1, <2>2
<1>7. CASE a[i] < b[i]
  BY <1>4, <1>5, <1>7 DEF isLeftNeighbour
<1>8. CASE b[i] < a[i]
  BY <1>4, <1>5, <1>6, <1>8 DEF isLeftNeighbour, Adjacent
<1> QED
  BY <1>4, <1>7, <1>8

-----------------------------------------------------------------------------
(* Candidates *)

LEMMA CoordinatesType ==
  ASSUME BucketsTypeOK, NEW row \in Rows
  PROVE  Coordinates(row) \in CoordinateSpace
<1>1. \A i \in Dimensions : svdOutputMatrix[row][i] \in Int
  BY BucketsAssumption DEF BucketsTypeOK
<1> QED
  BY <1>1, BucketBounds DEF Coordinates, CoordinateSpace

\* A candidate is found in the bucket of its first row, and nowhere in the other order.
LEMMA CandidateOnce ==
  ASSUME BucketsTypeOK, NEW r1 \in Rows, NEW r2 \in Rows, NEW bucket,
         <<r1, r2>> \in Candidates(bucket)
  PROVE  /\ r1 # r2
         /\ r1 \notin constantRows /\ r2 \notin constantRows
         /\ bucket = Coordinates(r1)
         /\ \A other : <<r2, r1>> \notin Candidates(other)
<1>1. RowCount \in Nat /\ r1 \in Nat /\ r2 \in Nat
  BY BucketsAssumption DEF Rows
<1> DEFINE a == Coordinates(r1)
           b == Coordinates(r2)
<1>2. a \in CoordinateSpace /\ b \in CoordinateSpace
  BY CoordinatesType
<1>3. ASSUME NEW p \in Rows, NEW q \in Rows, NEW any, <<p, q>> \in Candidates(any)
      PROVE  /\ p \notin constantRows /\ q \notin constantRows
             /\ any = Coordinates(p)
             /\ \/ p < q /\ Coordinates(p) = Coordinates(q)
                \/ isLeftNeighbour(Coordinates(p), Coordinates(q))
  BY <1>3 DEF Candidates, Within, Across, Members
<1>4. /\ r1 \notin constantRows /\ r2 \notin constantRows
      /\ bucket = a
      /\ (r1 < r2 /\ a = b) \/ isLeftNeighbour(a, b)
  BY <1>3
<1>5. isLeftNeighbour(a, b) => a # b /\ ~isLeftNeighbour(b, a)
  BY <1>2, OneSided
<1>6. isLeftNeighbour(b, a) => a # b
  BY <1>2, OneSided
<1>7. ASSUME NEW other, <<r2, r1>> \in Candidates(other)
      PROVE  FALSE
  <2>1. (r2 < r1 /\ b = a) \/ isLeftNeighbour(b, a)
    BY <1>3, <1>7
  <2> HIDE DEF a, b
  <2> QED
    BY <1>1, <1>4, <1>5, <1>6, <2>1
<1>8. r1 # r2
  <2>1. CASE r1 < r2
    BY <1>1, <2>1
  <2>2. CASE a # b
    BY <2>2
  <2> QED
    BY <1>4, <1>5, <2>1, <2>2
<1> QED
  BY <1>4, <1>7, <1>8

\* Two rows that are close are a candidate of one of their buckets.
LEMMA CloseRowsAreCandidates ==
  ASSUME BucketsTypeOK,
         NEW r1 \in Rows \ constantRows, NEW r2 \in Rows \ constantRows,
         r1 # r2, RowsWithin(Epsilon1, r1, r2)
  PROVE  \/ <<r1, r2>> \in Candidates(Coordinates(r1))
         \/ <<r2, r1>> \in Candidates(Coordinates(r2))
<1>1. RowCount \in Nat /\ r1 \in Nat /\ r2 \in Nat /\ Epsilon1 \in Nat
  BY BucketsAssumption DEF Rows
<1> DEFINE a == Coordinates(r1)
           b == Coordinates(r2)
<1>2. a \in CoordinateSpace /\ b \in CoordinateSpace
  BY CoordinatesType
<1>3. r1 \in Members(a) /\ r2 \in Members(b) /\ a \in Buckets /\ b \in Buckets
  BY DEF Members, Buckets
<1>4. Adjacent(a, b)
  <2> SUFFICES ASSUME NEW i \in Dimensions
               PROVE  a[i] - b[i] \in -1 .. 1
    BY DEF Adjacent
  <2> DEFINE x == svdOutputMatrix[r1][i]
             y == svdOutputMatrix[r2][i]
  <2>1. x \in Int /\ y \in Int
    BY BucketsAssumption DEF BucketsTypeOK
  <2>2. Distance(x, y) <= Epsilon1
    BY DEF RowsWithin
  <2>3. x <= y + Epsilon1 /\ y <= x + Epsilon1
    <3> HIDE DEF x, y
    <3> QED
      BY <1>1, <2>1, <2>2 DEF Distance
  <2>4. BucketIndex(x) <= BucketIndex(y) + 1 /\ BucketIndex(y) <= BucketIndex(x) + 1
    BY <2>1, <2>3, NextBucket
  <2>5. a[i] = BucketIndex(x) /\ b[i] = BucketIndex(y)
    BY DEF Coordinates
  <2>6. BucketIndex(x) \in Int /\ BucketIndex(y) \in Int
    BY <2>1, BucketBounds
  <2> HIDE DEF x, y, a, b
  <2> QED
    BY <2>4, <2>5, <2>6
<1>5. CASE a = b
  BY <1>1, <1>3, <1>5 DEF Candidates, Within
<1>6. CASE a # b
  <2>1. isLeftNeighbour(a, b) \/ isLeftNeighbour(b, a)
    BY <1>2, <1>4, <1>6, SomeSide
  <2> HIDE DEF a, b
  <2>2. isLeftNeighbour(a, b) => <<r1, r2>> \in Candidates(a)
    BY <1>3 DEF Candidates, Across
  <2>3. isLeftNeighbour(b, a) => <<r2, r1>> \in Candidates(b)
    BY <1>3 DEF Candidates, Across
  <2> QED
    BY <2>1, <2>2, <2>3 DEF a, b
<1> QED
  BY <1>5, <1>6

-----------------------------------------------------------------------------
(* The inductive invariant *)

\* What was asked is a candidate of a bucket that was visited, and was asked once.
AskedWhenVisited ==
  \A r1, r2 \in Rows :
    /\ asked[<<r1, r2>>] <= 1
    /\ asked[<<r1, r2>>] # 0 =>
         /\ Coordinates(r1) \in visited
         /\ <<r1, r2>> \in Candidates(Coordinates(r1))

\* Unless a comparison has failed, all candidates of the buckets visited were asked.
VisitedIsAsked ==
  outcome # "failed" =>
    \A bucket \in visited : \A pair \in Candidates(bucket) : asked[pair] # 0

StoppedAfterAll == outcome = "stopped" => Buckets \subseteq visited

BucketsInv == BucketsTypeOK /\ AskedWhenVisited /\ VisitedIsAsked /\ StoppedAfterAll

LEMMA CandidatesArePairs == \A bucket : Candidates(bucket) \subseteq Rows \X Rows
BY DEF Candidates, Within, Across, Members

LEMMA SameBuckets ==
  ASSUME UNCHANGED <<svdOutputMatrix, constantRows>>
  PROVE  /\ Buckets' = Buckets
         /\ \A row : Coordinates(row)' = Coordinates(row)
         /\ \A bucket : Candidates(bucket)' = Candidates(bucket)
<1>1. \A row : Coordinates(row)' = Coordinates(row)
  BY DEF Coordinates
<1>2. Buckets' = Buckets
  BY <1>1 DEF Buckets
<1>3. \A bucket : Members(bucket)' = Members(bucket)
  BY <1>1 DEF Members
<1>4. \A bucket : Candidates(bucket)' = Candidates(bucket)
  BY <1>2, <1>3 DEF Candidates, Within, Across
<1> QED
  BY <1>1, <1>2, <1>4

LEMMA BucketsInvInit == Initialize => BucketsInv
<1> SUFFICES ASSUME Initialize
             PROVE  BucketsInv
  OBVIOUS
<1>1. BucketsTypeOK
  BY BucketsAssumption DEF Initialize, BucketsTypeOK
<1>2. AskedWhenVisited
  BY DEF Initialize, AskedWhenVisited
<1>3. VisitedIsAsked
  BY DEF Initialize, VisitedIsAsked
<1>4. StoppedAfterAll
  BY DEF Initialize, StoppedAfterAll
<1> QED
  BY <1>1, <1>2, <1>3, <1>4 DEF BucketsInv

\* A visit asks some candidates of a bucket that was not visited before.
LEMMA AskStep ==
  ASSUME BucketsInv, NEW bucket \in Buckets \ visited, NEW pairs,
         pairs \subseteq Candidates(bucket), Ask(pairs),
         visited' = visited \union {bucket},
         UNCHANGED <<svdOutputMatrix, constantRows>>
  PROVE  /\ asked' \in [Rows \X Rows -> Nat]
         /\ AskedWhenVisited'
<1>1. asked \in [Rows \X Rows -> Nat] /\ BucketsTypeOK
  BY DEF BucketsInv, BucketsTypeOK
<1>2. asked' \in [Rows \X Rows -> Nat]
  BY <1>1 DEF Ask
<1>3. ASSUME NEW r1 \in Rows, NEW r2 \in Rows
      PROVE  /\ asked'[<<r1, r2>>] <= 1
             /\ asked'[<<r1, r2>>] # 0 =>
                  /\ Coordinates(r1) \in visited'
                  /\ <<r1, r2>> \in Candidates(Coordinates(r1))
  <2>1. CASE <<r1, r2>> \in pairs
    <3>1. bucket = Coordinates(r1)
      BY <1>1, <2>1, CandidateOnce
    <3>2. asked[<<r1, r2>>] = 0
      BY <3>1 DEF BucketsInv, AskedWhenVisited
    <3>3. asked'[<<r1, r2>>] = 1
      BY <2>1, <3>2 DEF Ask
    <3> QED
      BY <2>1, <3>1, <3>3
  <2>2. CASE <<r1, r2>> \notin pairs
    <3>1. asked'[<<r1, r2>>] = asked[<<r1, r2>>]
      BY <2>2 DEF Ask
    <3> QED
      BY <3>1 DEF BucketsInv, AskedWhenVisited
  <2> QED
    BY <2>1, <2>2
<1>4. AskedWhenVisited'
  BY <1>3, SameBuckets DEF AskedWhenVisited
<1> QED
  BY <1>2, <1>4

LEMMA VisitStep ==
  ASSUME BucketsInv, NEW bucket \in Buckets, candidatesForBucket(bucket)
  PROVE  BucketsInv'
<1>1. /\ bucket \in Buckets \ visited
      /\ Ask(Candidates(bucket))
      /\ visited' = visited \union {bucket}
      /\ UNCHANGED <<svdOutputMatrix, constantRows, outcome>>
      /\ outcome = "running"
  BY DEF candidatesForBucket
<1>2. asked' \in [Rows \X Rows -> Nat] /\ AskedWhenVisited'
  BY <1>1, AskStep
<1>3. BucketsTypeOK'
  BY <1>1, <1>2, SameBuckets DEF BucketsInv, BucketsTypeOK
<1>4. VisitedIsAsked'
  <2> SUFFICES ASSUME NEW b \in visited', NEW pair \in Candidates(b)
               PROVE  asked'[pair] # 0
    BY <1>1, SameBuckets DEF VisitedIsAsked
  <2>1. pair \in Rows \X Rows
    BY CandidatesArePairs
  <2>2. asked \in [Rows \X Rows -> Nat]
    BY DEF BucketsInv, BucketsTypeOK
  <2>3. CASE b \in visited
    <3>1. asked[pair] # 0
      BY <1>1, <2>3 DEF BucketsInv, VisitedIsAsked
    <3> QED
      BY <1>1, <2>1, <2>2, <3>1 DEF Ask
  <2>4. CASE b = bucket
    BY <1>1, <2>1, <2>2, <2>4 DEF Ask
  <2> QED
    BY <1>1, <2>3, <2>4
<1>5. StoppedAfterAll'
  BY <1>1 DEF StoppedAfterAll
<1> QED
  BY <1>2, <1>3, <1>4, <1>5 DEF BucketsInv

LEMMA FailStep ==
  ASSUME BucketsInv, NEW bucket \in Buckets, FailInBucket(bucket)
  PROVE  BucketsInv'
<1>1. PICK pairs \in SUBSET Candidates(bucket) : Ask(pairs)
  BY DEF FailInBucket
<1>2. /\ bucket \in Buckets \ visited
      /\ visited' = visited \union {bucket}
      /\ UNCHANGED <<svdOutputMatrix, constantRows>>
      /\ outcome' = "failed"
  BY DEF FailInBucket
<1>3. asked' \in [Rows \X Rows -> Nat] /\ AskedWhenVisited'
  BY <1>1, <1>2, AskStep
<1>4. BucketsTypeOK'
  BY <1>2, <1>3, SameBuckets DEF BucketsInv, BucketsTypeOK
<1>5. VisitedIsAsked' /\ StoppedAfterAll'
  BY <1>2 DEF VisitedIsAsked, StoppedAfterAll
<1> QED
  BY <1>3, <1>4, <1>5 DEF BucketsInv

LEMMA StopStep == BucketsInv /\ StopStride => BucketsInv'
<1> SUFFICES ASSUME BucketsInv, StopStride
             PROVE  BucketsInv'
  OBVIOUS
<1>1. /\ UNCHANGED <<svdOutputMatrix, constantRows, visited, asked>>
      /\ outcome = "running" /\ outcome' = "stopped" /\ Buckets \subseteq visited
  BY DEF StopStride
<1>2. BucketsTypeOK'
  BY <1>1, SameBuckets DEF BucketsInv, BucketsTypeOK
<1>3. AskedWhenVisited'
  BY <1>1, SameBuckets DEF BucketsInv, AskedWhenVisited
<1>4. VisitedIsAsked'
  BY <1>1, SameBuckets DEF BucketsInv, VisitedIsAsked
<1>5. StoppedAfterAll'
  BY <1>1, SameBuckets DEF StoppedAfterAll
<1> QED
  BY <1>2, <1>3, <1>4, <1>5 DEF BucketsInv

LEMMA BucketsInvStep == BucketsInv /\ [BucketsNext]_bucketsVars => BucketsInv'
<1> SUFFICES ASSUME BucketsInv, [BucketsNext]_bucketsVars
             PROVE  BucketsInv'
  OBVIOUS
<1>1. CASE \E bucket \in Buckets : candidatesForBucket(bucket)
  BY <1>1, VisitStep
<1>2. CASE \E bucket \in Buckets : FailInBucket(bucket)
  BY <1>2, FailStep
<1>3. CASE StopStride
  BY <1>3, StopStep
<1>4. CASE UNCHANGED bucketsVars
  <2>1. UNCHANGED <<svdOutputMatrix, constantRows, visited, asked, outcome>>
    BY <1>4 DEF bucketsVars
  <2> QED
    BY <2>1, SameBuckets
    DEF BucketsInv, BucketsTypeOK, AskedWhenVisited, VisitedIsAsked, StoppedAfterAll
<1> QED
  BY <1>1, <1>2, <1>3, <1>4 DEF BucketsNext

\* The inductive invariant of the enumeration of candidates.
THEOREM BucketsInvariance == BucketsSpec => []BucketsInv
<1>1. Initialize => BucketsInv
  BY BucketsInvInit
<1>2. BucketsInv /\ [BucketsNext]_bucketsVars => BucketsInv'
  BY BucketsInvStep
<1> QED
  BY <1>1, <1>2, PTL DEF BucketsSpec

-----------------------------------------------------------------------------
(* Theorems *)

\* Whatever the dimension and the order in which the buckets are visited, no
\* pair of rows is given to the comparer twice: a pair is a candidate of the
\* bucket of one of its rows only, and that bucket is visited once.
THEOREM CandidatesAskedOnce == BucketsSpec => []CandidatesOnce
<1>1. ASSUME BucketsInv, NEW r1 \in Rows, NEW r2 \in Rows
      PROVE  asked[<<r1, r2>>] + asked[<<r2, r1>>] <= IF r1 = r2 THEN 0 ELSE 1
  <2>1. BucketsTypeOK /\ asked[<<r1, r2>>] \in Nat /\ asked[<<r2, r1>>] \in Nat
    BY <1>1 DEF BucketsInv, BucketsTypeOK
  <2>2. asked[<<r1, r2>>] <= 1 /\ asked[<<r2, r1>>] <= 1
    BY <1>1 DEF BucketsInv, AskedWhenVisited
  <2>3. CASE asked[<<r1, r2>>] = 0 /\ asked[<<r2, r1>>] = 0
    BY <2>3
  <2>4. CASE asked[<<r1, r2>>] # 0
    <3>1. <<r1, r2>> \in Candidates(Coordinates(r1))
      BY <1>1, <2>4 DEF BucketsInv, AskedWhenVisited
    <3>2. r1 # r2 /\ asked[<<r2, r1>>] = 0
      BY <1>1, <2>1, <3>1, CandidateOnce DEF BucketsInv, AskedWhenVisited
    <3> QED
      BY <2>1, <2>2, <3>2
  <2>5. CASE asked[<<r2, r1>>] # 0
    <3>1. <<r2, r1>> \in Candidates(Coordinates(r2))
      BY <1>1, <2>5 DEF BucketsInv, AskedWhenVisited
    <3>2. r1 # r2 /\ asked[<<r1, r2>>] = 0
      BY <1>1, <2>1, <3>1, CandidateOnce DEF BucketsInv, AskedWhenVisited
    <3> QED
      BY <2>1, <2>2, <3>2
  <2> QED
    BY <2>3, <2>4, <2>5
<1>2. BucketsInv => CandidatesOnce
  BY <1>1 DEF CandidatesOnce
<1> QED
  BY <1>2, BucketsInvariance, PTL

\* Whatever the dimension and the width of the buckets, rows whose SVDs differ by
\* at most Epsilon1 in every dimension have been compared when the stride stops.
THEOREM NoCloseRowsMissed == BucketsSpec => []CloseRowsAsked
<1>1. ASSUME BucketsInv, outcome = "stopped",
             NEW r1 \in Rows \ constantRows, NEW r2 \in Rows \ constantRows,
             r1 # r2, RowsWithin(Epsilon1, r1, r2)
      PROVE  asked[<<r1, r2>>] + asked[<<r2, r1>>] > 0
  <2>1. BucketsTypeOK /\ asked[<<r1, r2>>] \in Nat /\ asked[<<r2, r1>>] \in Nat
    BY <1>1 DEF BucketsInv, BucketsTypeOK
  <2>2. Coordinates(r1) \in visited /\ Coordinates(r2) \in visited
    BY <1>1 DEF BucketsInv, StoppedAfterAll, Buckets
  <2>3. \/ <<r1, r2>> \in Candidates(Coordinates(r1))
        \/ <<r2, r1>> \in Candidates(Coordinates(r2))
    BY <1>1, <2>1, CloseRowsAreCandidates
  <2>4. asked[<<r1, r2>>] # 0 \/ asked[<<r2, r1>>] # 0
    BY <1>1, <2>2, <2>3 DEF BucketsInv, VisitedIsAsked
  <2> QED
    BY <2>1, <2>4
<1>2. BucketsInv => CloseRowsAsked
  BY <1>1 DEF CloseRowsAsked
<1> QED
  BY <1>2, BucketsInvariance, PTL
=============================================================================
