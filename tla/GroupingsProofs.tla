--------------------------- MODULE GroupingsProofs --------------------------
(***************************************************************************)
(* The matches of a stride on their way to the groupings, for any finite   *)
(* set of timeseries and any number of matches.  The sets of the set       *)
(* reporter are the connected components of the pairs reported, and        *)
(* merging sets loses no pair and keeps none twice; the explorer's         *)
(* subgraphs are the components of the pairs read, in any order of the     *)
(* rows, and their sizes are exact; read from the result file they are the *)
(* same components; and the edge files have each match once, in the file   *)
(* of its subgraph.  What the explorer answers in the end about a          *)
(* timeseries is what it was matched with, and its answers agree.          *)
(***************************************************************************)
EXTENDS Groupings, FiniteSetTheorems, WellFoundedInduction, TLAPS

-----------------------------------------------------------------------------
(* The numbering of the subgraphs: the invariant of Subgraphs *)

\* Sizes are only right of numbers that are in use, and numbers are only fresh because
\* those in use are below the next: none of the parts is inductive without the types.
GraphsInv == GraphsTypeOK /\ SizesExact /\ GraphsAreComponents

-----------------------------------------------------------------------------
(* addPair preserves the types *)

\* What a case of addPair does to the two maps and the next number.
LEMMA TypeStep ==
  ASSUME GraphsInv, NEW a \in Fingerprint, NEW b \in Fingerprint, addPair(a, b)
  PROVE  GraphsTypeOK'
<1> USE DEF GraphsInv, GraphsTypeOK
<1>0. added' \subseteq Fingerprint \X Fingerprint
  BY DEF addPair
<1>1. CASE NewGraph(a, b)
  BY <1>0, <1>1 DEF NewGraph, Put
<1>2. ASSUME NEW known \in Fingerprint, NEW new \in Fingerprint, JoinGraph(known, new)
      PROVE  GraphsTypeOK'
  <2>1. Rows[known] \in DOMAIN Sizes
    BY <1>2 DEF JoinGraph, SizesExact
  <2> QED
    BY <1>0, <1>2, <2>1 DEF JoinGraph, Put
<1>3. CASE SameGraph(a, b)
  BY <1>0, <1>3 DEF SameGraph
<1>4. ASSUME NEW to \in Fingerprint, NEW from \in Fingerprint, MergeGraphs(to, from)
      PROVE  GraphsTypeOK'
  <2>1. Cardinality(Members(Rows[from])) \in Nat
    <3>1. IsFiniteSet(Members(Rows[from]))
      BY FingerprintAssumption, FS_Subset DEF Members
    <3> QED
      BY <3>1, FS_CardinalityType
  <2>2. DOMAIN Rows' = DOMAIN Rows /\ \A row \in DOMAIN Rows : Rows'[row] \in {Rows[row], Rows[to]}
    BY <1>4 DEF MergeGraphs, Put, Members
  <2>3. \A graph \in DOMAIN Sizes' : graph \in DOMAIN Sizes /\ Sizes'[graph] \in Nat
    BY <1>4, <2>1 DEF MergeGraphs
  <2> QED
    BY <1>0, <1>4, <2>2, <2>3 DEF MergeGraphs
<1> QED
  BY <1>1, <1>2, <1>3, <1>4 DEF addPair

-----------------------------------------------------------------------------
(* addPair keeps the sizes exact *)

LEMMA MembersFinite ==
  ASSUME GraphsTypeOK, NEW graph
  PROVE  IsFiniteSet(Members(graph)) /\ Cardinality(Members(graph)) \in Nat
<1>1. IsFiniteSet(Members(graph))
  BY FingerprintAssumption, FS_Subset DEF Members, GraphsTypeOK
<1> QED
  BY <1>1, FS_CardinalityType

\* A new subgraph: its number was not in use, so its rows are the two.
LEMMA NewGraphSizes ==
  ASSUME GraphsInv, NEW a \in Fingerprint, NEW b \in Fingerprint, a # b, NewGraph(a, b)
  PROVE  SizesExact'
<1>1. /\ DOMAIN Rows' = DOMAIN Rows \union {a, b}
      /\ Rows'[a] = nextSubgraphId /\ Rows'[b] = nextSubgraphId
      /\ \A row \in DOMAIN Rows : Rows'[row] = Rows[row] /\ row \notin {a, b}
  BY DEF NewGraph, Put
<1>2. /\ nextSubgraphId \notin DOMAIN Sizes
      /\ \A row \in DOMAIN Rows : Rows[row] # nextSubgraphId
  BY DEF GraphsInv, GraphsTypeOK
<1>3. Cardinality({a, b}) = 2
  <2>1. IsFiniteSet({a}) /\ Cardinality({a}) = 1
    BY FS_Singleton
  <2>2. Cardinality({a} \union {b}) = Cardinality({a}) + 1
    BY <2>1, FS_AddElement, b \notin {a}
  <2>3. {a} \union {b} = {a, b}
    OBVIOUS
  <2> QED
    BY <2>1, <2>2, <2>3
<1>4. ASSUME NEW graph \in DOMAIN Sizes PROVE Members(graph)' = Members(graph)
  BY <1>1, <1>2, <1>4 DEF Members
<1>5. /\ DOMAIN Sizes' = DOMAIN Sizes \union {nextSubgraphId}
      /\ Sizes'[nextSubgraphId] = 2
      /\ \A graph \in DOMAIN Sizes : Sizes'[graph] = Sizes[graph]
  BY <1>2 DEF NewGraph, Put
<1>6. DOMAIN Sizes' = {Rows'[row] : row \in DOMAIN Rows'}
  BY <1>1, <1>5 DEF GraphsInv, SizesExact
<1>7. ASSUME NEW graph \in DOMAIN Sizes' PROVE Sizes'[graph] = Cardinality(Members(graph)')
  <2>1. CASE graph = nextSubgraphId
    <3>1. Members(graph)' = {a, b}
      BY <1>1, <1>2, <2>1 DEF Members
    <3> QED
      BY <1>3, <1>5, <2>1, <3>1
  <2>2. CASE graph \in DOMAIN Sizes
    BY <1>4, <1>5, <2>2 DEF GraphsInv, SizesExact
  <2> QED
    BY <1>5, <2>1, <2>2
<1> QED
  BY <1>6, <1>7 DEF SizesExact

\* One more row in the subgraph of the one that is known.
LEMMA JoinGraphSizes ==
  ASSUME GraphsInv, NEW known \in Fingerprint, NEW new \in Fingerprint, JoinGraph(known, new)
  PROVE  SizesExact'
<1>1. /\ DOMAIN Rows' = DOMAIN Rows \union {new}
      /\ Rows'[new] = Rows[known]
      /\ \A row \in DOMAIN Rows : Rows'[row] = Rows[row] /\ row # new
      /\ known \in DOMAIN Rows
  BY DEF JoinGraph, Put
<1>2. Rows[known] \in DOMAIN Sizes
  BY <1>1 DEF GraphsInv, SizesExact
<1>3. /\ DOMAIN Sizes' = DOMAIN Sizes
      /\ Sizes'[Rows[known]] = Sizes[Rows[known]] + 1
      /\ \A graph \in DOMAIN Sizes : graph # Rows[known] => Sizes'[graph] = Sizes[graph]
  BY <1>2 DEF JoinGraph
<1>4. DOMAIN Sizes' = {Rows'[row] : row \in DOMAIN Rows'}
  BY <1>1, <1>3 DEF GraphsInv, SizesExact
<1>5. ASSUME NEW graph \in DOMAIN Sizes' PROVE Sizes'[graph] = Cardinality(Members(graph)')
  <2>1. CASE graph = Rows[known]
    <3>1. Members(graph)' = Members(graph) \union {new} /\ new \notin Members(graph)
      BY <1>1, <2>1 DEF Members
    <3>2. Cardinality(Members(graph) \union {new}) = Cardinality(Members(graph)) + 1
      BY <3>1, MembersFinite, FS_AddElement DEF GraphsInv
    <3> QED
      BY <1>2, <1>3, <2>1, <3>1, <3>2 DEF GraphsInv, SizesExact
  <2>2. CASE graph # Rows[known]
    <3>1. Members(graph)' = Members(graph)
      BY <1>1, <2>2 DEF Members
    <3> QED
      BY <1>3, <2>2, <3>1 DEF GraphsInv, SizesExact
  <2> QED
    BY <2>1, <2>2
<1> QED
  BY <1>4, <1>5 DEF SizesExact

\* The rows of the higher subgraph are new in the lower one, and none stays behind.
LEMMA MergeGraphsSizes ==
  ASSUME GraphsInv, NEW to \in Fingerprint, NEW from \in Fingerprint, MergeGraphs(to, from)
  PROVE  SizesExact'
<1> DEFINE low == Rows[to]
           high == Rows[from]
<1>1. /\ to \in DOMAIN Rows /\ from \in DOMAIN Rows
      /\ low \in DOMAIN Sizes /\ high \in DOMAIN Sizes
      /\ low # high
  BY DEF MergeGraphs, GraphsInv, GraphsTypeOK, SizesExact
<1>2. /\ DOMAIN Rows' = DOMAIN Rows
      /\ \A row \in DOMAIN Rows : Rows'[row] = IF Rows[row] = high THEN low ELSE Rows[row]
  BY DEF MergeGraphs, Put, Members
<1>3. /\ DOMAIN Sizes' = DOMAIN Sizes \ {high}
      /\ Sizes'[low] = Sizes[low] + Cardinality(Members(high))
      /\ \A graph \in DOMAIN Sizes \ {low, high} : Sizes'[graph] = Sizes[graph]
  BY <1>1 DEF MergeGraphs
<1>4. DOMAIN Sizes' = {Rows'[row] : row \in DOMAIN Rows'}
  <2>1. \A row \in DOMAIN Rows : Rows'[row] \in DOMAIN Sizes'
    BY <1>1, <1>2, <1>3 DEF GraphsInv, SizesExact
  <2>2. ASSUME NEW graph \in DOMAIN Sizes' PROVE \E row \in DOMAIN Rows : Rows'[row] = graph
    <3>1. PICK row \in DOMAIN Rows : Rows[row] = graph
      BY <1>3 DEF GraphsInv, SizesExact
    <3> QED
      BY <1>2, <1>3, <3>1
  <2> QED
    BY <1>2, <2>1, <2>2
<1>5. ASSUME NEW graph \in DOMAIN Sizes' PROVE Sizes'[graph] = Cardinality(Members(graph)')
  <2>1. CASE graph = low
    <3>1. Members(graph)' = Members(low) \union Members(high)
      BY <1>1, <1>2, <2>1 DEF Members
    <3>2. Members(low) \intersect Members(high) = {}
      BY <1>1 DEF Members
    <3>3. /\ IsFiniteSet(Members(low)) /\ Cardinality(Members(low)) \in Nat
          /\ IsFiniteSet(Members(high)) /\ Cardinality(Members(high)) \in Nat
      BY MembersFinite DEF GraphsInv
    <3>4. Cardinality(Members(low) \union Members(high))
            = Cardinality(Members(low)) + Cardinality(Members(high))
      <4>1. Cardinality(Members(low) \union Members(high))
              = Cardinality(Members(low)) + Cardinality(Members(high)) - Cardinality({})
        BY <3>2, <3>3, FS_Union
      <4> QED
        BY <3>3, <4>1, FS_EmptySet
    <3>5. Sizes[low] = Cardinality(Members(low))
      BY <1>1 DEF GraphsInv, SizesExact
    <3> QED
      BY <1>3, <2>1, <3>1, <3>4, <3>5
  <2>2. CASE graph # low
    <3>1. graph # high /\ graph \in DOMAIN Sizes
      BY <1>3
    <3>2. Members(graph)' = Members(graph)
      BY <1>2, <2>2, <3>1 DEF Members
    <3> QED
      BY <1>3, <2>2, <3>1, <3>2 DEF GraphsInv, SizesExact
  <2> QED
    BY <2>1, <2>2
<1> QED
  BY <1>4, <1>5 DEF SizesExact

LEMMA SizesStep ==
  ASSUME GraphsInv, NEW a \in Fingerprint, NEW b \in Fingerprint, a # b, addPair(a, b)
  PROVE  SizesExact'
<1>1. CASE SameGraph(a, b)
  BY <1>1 DEF GraphsInv, SizesExact, Members, SameGraph
<1> QED
  BY <1>1, NewGraphSizes, JoinGraphSizes, MergeGraphsSizes DEF addPair

-----------------------------------------------------------------------------
(* addPair keeps the subgraphs connected, and pairs together *)

\* Whatever the case: rows that shared a subgraph still do, and so do the two of the pair.
LEMMA SharingKept ==
  ASSUME GraphsInv, NEW a \in Fingerprint, NEW b \in Fingerprint, addPair(a, b)
  PROVE  /\ a \in DOMAIN Rows' /\ b \in DOMAIN Rows' /\ Rows'[a] = Rows'[b]
         /\ DOMAIN Rows \subseteq DOMAIN Rows'
         /\ \A x, y \in DOMAIN Rows : Rows[x] = Rows[y] => Rows'[x] = Rows'[y]
<1>1. CASE NewGraph(a, b)
  BY <1>1 DEF NewGraph, Put
<1>2. CASE JoinGraph(a, b)
  BY <1>2 DEF JoinGraph, Put
<1>3. CASE JoinGraph(b, a)
  BY <1>3 DEF JoinGraph, Put
<1>4. CASE SameGraph(a, b)
  BY <1>4 DEF SameGraph
<1>5. CASE MergeGraphs(a, b)
  BY <1>5 DEF MergeGraphs, Put, Members
<1>6. CASE MergeGraphs(b, a)
  BY <1>6 DEF MergeGraphs, Put, Members
<1> QED
  BY <1>1, <1>2, <1>3, <1>4, <1>5, <1>6 DEF addPair

\* Whatever the case: rows that share a subgraph did before, or the pair connects them.
LEMMA SharingCaused ==
  ASSUME GraphsInv, NEW a \in Fingerprint, NEW b \in Fingerprint, addPair(a, b),
         NEW side, a \in side <=> b \in side,
         \A x, y \in DOMAIN Rows : Rows[x] = Rows[y] => (x \in side <=> y \in side)
  PROVE  \A x, y \in DOMAIN Rows' : Rows'[x] = Rows'[y] => (x \in side <=> y \in side)
<1>1. CASE NewGraph(a, b)
  <2>1. \A row \in DOMAIN Rows : Rows[row] # nextSubgraphId
    BY DEF GraphsInv, GraphsTypeOK
  <2> QED
    BY <1>1, <2>1 DEF NewGraph, Put
<1>2. CASE JoinGraph(a, b)
  BY <1>2 DEF JoinGraph, Put
<1>3. CASE JoinGraph(b, a)
  BY <1>3 DEF JoinGraph, Put
<1>4. CASE SameGraph(a, b)
  BY <1>4 DEF SameGraph
<1>5. CASE MergeGraphs(a, b)
  BY <1>5 DEF MergeGraphs, Put, Members
<1>6. CASE MergeGraphs(b, a)
  BY <1>6 DEF MergeGraphs, Put, Members
<1> QED
  BY <1>1, <1>2, <1>3, <1>4, <1>5, <1>6 DEF addPair

LEMMA ComponentsStep ==
  ASSUME GraphsInv, NEW a \in Fingerprint, NEW b \in Fingerprint, addPair(a, b)
  PROVE  GraphsAreComponents'
<1>1. added' = added \union {<<a, b>>}
  BY DEF addPair
<1>2. PairsShareGraph'
  <2> SUFFICES ASSUME NEW pair \in added'
               PROVE  pair[1] \in DOMAIN Rows' /\ pair[2] \in DOMAIN Rows' /\ Rows'[pair[1]] = Rows'[pair[2]]
    BY DEF PairsShareGraph
  <2>1. CASE pair = <<a, b>>
    BY <2>1, SharingKept
  <2>2. CASE pair \in added
    BY <2>2, SharingKept DEF GraphsInv, GraphsAreComponents, PairsShareGraph
  <2> QED
    BY <1>1, <2>1, <2>2
<1>3. GraphsConnected'
  <2> SUFFICES ASSUME NEW side \in SUBSET Fingerprint,
                      \A pair \in added' : pair[1] \in side <=> pair[2] \in side
               PROVE  \A x, y \in DOMAIN Rows' : Rows'[x] = Rows'[y] => (x \in side <=> y \in side)
    BY DEF GraphsConnected
  <2>1. a \in side <=> b \in side
    BY <1>1, <<a, b>> \in added'
  <2>2. \A x, y \in DOMAIN Rows : Rows[x] = Rows[y] => (x \in side <=> y \in side)
    BY <1>1 DEF GraphsInv, GraphsAreComponents, GraphsConnected
  <2> QED
    BY <2>1, <2>2, SharingCaused
<1> QED
  BY <1>2, <1>3 DEF GraphsAreComponents

-----------------------------------------------------------------------------
(* The theorems *)

LEMMA GraphsInvInit == GraphsInit => GraphsInv
<1> SUFFICES ASSUME GraphsInit PROVE GraphsInv
  OBVIOUS
<1>1. DOMAIN Rows = {} /\ DOMAIN Sizes = {} /\ nextSubgraphId = 0 /\ added = {}
  BY DEF GraphsInit
<1>2. GraphsTypeOK
  BY <1>1 DEF GraphsTypeOK
<1>3. SizesExact
  BY <1>1 DEF SizesExact
<1>4. GraphsAreComponents
  BY <1>1 DEF GraphsAreComponents, PairsShareGraph, GraphsConnected
<1> QED
  BY <1>2, <1>3, <1>4 DEF GraphsInv

LEMMA GraphsInvStep == GraphsInv /\ [GraphsNext]_graphVars => GraphsInv'
<1> SUFFICES ASSUME GraphsInv, [GraphsNext]_graphVars PROVE GraphsInv'
  OBVIOUS
<1>1. CASE UNCHANGED graphVars
  BY <1>1 DEF graphVars, GraphsInv, GraphsTypeOK, SizesExact, Members,
              GraphsAreComponents, PairsShareGraph, GraphsConnected
<1>2. ASSUME NEW row \in FileRow, IsEdge(row), addPair(row.MetricFingerprint, row.Correlated)
      PROVE  GraphsInv'
  <2>1. PICK a \in Fingerprint, b \in Fingerprint : a # b /\ row = Match(a, b)
    <3>1. row.Positive
      BY <1>2 DEF IsEdge
    <3>2. \A x \in Fingerprint, constant \in BOOLEAN : row # About(x, constant)
      BY <3>1 DEF About
    <3>3. PICK a \in Fingerprint, b \in Fingerprint : row = Match(a, b) /\ row.MetricFingerprint # row.Correlated
      BY <3>2 DEF FileRow
    <3> QED
      BY <3>3 DEF Match
  <2>2. addPair(a, b)
    BY <1>2, <2>1 DEF Match
  <2> QED
    BY <2>1, <2>2, TypeStep, SizesStep, ComponentsStep DEF GraphsInv
<1> QED
  BY <1>1, <1>2 DEF GraphsNext, ReadRow

LEMMA GraphsInvariance == GraphsSpec => []GraphsInv
  BY GraphsInvInit, GraphsInvStep, PTL DEF GraphsSpec

\* Ids that are given stay below the next, so a new subgraph never takes the number of
\* another one.
THEOREM GraphsTypeCorrect == GraphsSpec => []GraphsTypeOK
<1>1. GraphsInv => GraphsTypeOK
  BY DEF GraphsInv
<1> QED
  BY <1>1, GraphsInvariance, PTL

\* The size of every subgraph is its number of rows after any number of merges.
THEOREM SizesAreExact == GraphsSpec => []SizesExact
<1>1. GraphsInv => SizesExact
  BY DEF GraphsInv
<1> QED
  BY <1>1, GraphsInvariance, PTL

\* Two timeseries are in one subgraph exactly if the pairs read so far connect them.
THEOREM SubgraphsAreComponents == GraphsSpec => []GraphsAreComponents
<1>1. GraphsInv => GraphsAreComponents
  BY DEF GraphsInv
<1> QED
  BY <1>1, GraphsInvariance, PTL

AllPairs == Fingerprint \X Fingerprint

-----------------------------------------------------------------------------
(* Connected components *)

Closed(side, pairs) == \A pair \in pairs : pair[1] \in side <=> pair[2] \in side

Covered(block, pairs) == \A x \in block : \E pair \in pairs : x = pair[1] \/ x = pair[2]

\* The blocks are the connected components of the pairs.
Components(blocks, pairs) ==
  /\ \A b, c \in blocks : b = c \/ b \intersect c = {}
  /\ \A b \in blocks : b # {} /\ b \subseteq Fingerprint /\ Covered(b, pairs)
  /\ \A pair \in pairs : \E b \in blocks : pair[1] \in b /\ pair[2] \in b
  /\ \A side \in SUBSET Fingerprint : Closed(side, pairs) =>
       \A b \in blocks : b \subseteq side \/ b \intersect side = {}

\* There is only one way to divide the rows of pairs in components.
LEMMA ComponentsWithin ==
  ASSUME NEW A, NEW B, NEW pairs, Components(A, pairs), Components(B, pairs)
  PROVE  A \subseteq B
<1> SUFFICES ASSUME NEW a \in A PROVE a \in B
  OBVIOUS
<1>1. PICK x \in a : TRUE
  BY DEF Components
<1>2. PICK b \in B : x \in b
  <2>1. PICK pair \in pairs : x = pair[1] \/ x = pair[2]
    BY DEF Components, Covered
  <2> QED
    BY <2>1 DEF Components
<1>3. ASSUME NEW C, NEW D, Components(C, pairs), Components(D, pairs),
             NEW c \in C, NEW d \in D, c \intersect d # {}
      PROVE  c \subseteq d
  <2>1. Closed(d, pairs)
    <3> SUFFICES ASSUME NEW pair \in pairs PROVE pair[1] \in d <=> pair[2] \in d
      BY DEF Closed
    <3>1. PICK e \in D : pair[1] \in e /\ pair[2] \in e
      BY <1>3 DEF Components
    <3>2. e = d \/ e \intersect d = {}
      BY <1>3 DEF Components
    <3> QED
      BY <3>1, <3>2
  <2>2. d \in SUBSET Fingerprint
    BY <1>3 DEF Components
  <2>3. c \subseteq d \/ c \intersect d = {}
    BY <1>3, <2>1, <2>2 DEF Components
  <2> QED
    BY <1>3, <2>3
<1>4. a \subseteq b /\ b \subseteq a
  BY <1>1, <1>2, <1>3
<1> QED
  BY <1>4

LEMMA ComponentsUnique ==
  ASSUME NEW A, NEW B, NEW pairs, Components(A, pairs), Components(B, pairs)
  PROVE  A = B
BY ComponentsWithin

\* A pair joins the components it touches.
LEMMA ComponentsJoin ==
  ASSUME NEW blocks, NEW pairs, Components(blocks, pairs), NEW pair \in AllPairs,
         NEW touched, touched = {b \in blocks : pair[1] \in b \/ pair[2] \in b},
         NEW joined, joined = (UNION touched) \union {pair[1], pair[2]},
         NEW new, new = (blocks \ touched) \union {joined}
  PROVE  Components(new, pairs \union {pair})
<1>1. \A b \in blocks : b \in touched \/ b \intersect joined = {}
  BY DEF Components
<1>2. \A b, c \in new : b = c \/ b \intersect c = {}
  <2>1. \A b, c \in blocks : b = c \/ b \intersect c = {}
    BY DEF Components
  <2>2. \A b \in new : b = joined \/ (b \in blocks /\ b \intersect joined = {})
    BY <1>1
  <2> SUFFICES ASSUME NEW b \in new, NEW c \in new, b # c PROVE b \intersect c = {}
    OBVIOUS
  <2>3. CASE b \in blocks /\ c \in blocks
    BY <2>1, <2>3
  <2>4. CASE b = joined \/ c = joined
    BY <2>2, <2>4
  <2> QED
    BY <2>2, <2>3, <2>4
<1>3. pair[1] \in Fingerprint /\ pair[2] \in Fingerprint
  BY DEF AllPairs
<1>4. ASSUME NEW b \in new PROVE b # {} /\ b \subseteq Fingerprint /\ Covered(b, pairs \union {pair})
  <2>1. CASE b \in blocks
    BY <2>1 DEF Components, Covered
  <2>2. CASE b = joined
    <3>1. b # {} /\ b \subseteq Fingerprint
      BY <1>3, <2>2 DEF Components
    <3>2. ASSUME NEW x \in b PROVE \E q \in pairs \union {pair} : x = q[1] \/ x = q[2]
      BY <2>2 DEF Components, Covered
    <3> QED
      BY <3>1, <3>2 DEF Covered
  <2> QED
    BY <2>1, <2>2
<1>5. ASSUME NEW q \in pairs \union {pair} PROVE \E b \in new : q[1] \in b /\ q[2] \in b
  <2>1. CASE q = pair
    BY <2>1
  <2>2. CASE q \in pairs
    <3>1. PICK b \in blocks : q[1] \in b /\ q[2] \in b
      BY <2>2 DEF Components
    <3> QED
      BY <3>1
  <2> QED
    BY <2>1, <2>2
<1>6. ASSUME NEW side \in SUBSET Fingerprint, Closed(side, pairs \union {pair}), NEW b \in new
      PROVE  b \subseteq side \/ b \intersect side = {}
  <2>1. Closed(side, pairs) /\ (pair[1] \in side <=> pair[2] \in side)
    BY <1>6 DEF Closed
  <2>2. \A c \in blocks : c \subseteq side \/ c \intersect side = {}
    BY <2>1 DEF Components
  <2>3. \A c \in touched : IF pair[1] \in side THEN c \subseteq side ELSE c \intersect side = {}
    BY <2>1, <2>2
  <2>4. joined \subseteq side \/ joined \intersect side = {}
    BY <2>1, <2>3
  <2> QED
    BY <2>2, <2>4
<1> QED
  BY <1>2, <1>4, <1>5, <1>6 DEF Components

\* The order of the two rows of a pair does not matter.
BothWays(pairs) == pairs \union {<<pair[2], pair[1]>> : pair \in pairs}

LEMMA ComponentsBothWays ==
  ASSUME NEW blocks, NEW pairs \in SUBSET AllPairs, Components(blocks, BothWays(pairs))
  PROVE  Components(blocks, pairs)
<1>1. \A side : Closed(side, pairs) => Closed(side, BothWays(pairs))
  BY DEF Closed, BothWays
<1>2. \A b : Covered(b, BothWays(pairs)) => Covered(b, pairs)
  BY DEF Covered, BothWays
<1>3. pairs \subseteq BothWays(pairs)
  BY DEF BothWays
<1> QED
  BY <1>1, <1>2, <1>3 DEF Components
\* Sets have no row in common, hence a row has one home at most; the pairs of a set are among
\* its members, hence sets have no pair in common either.
SetsApart ==
  /\ correlations \in Seq([pairs : SUBSET AllPairs, members : SUBSET Fingerprint])
  /\ \A i \in 1 .. Len(correlations) : \A pair \in correlations[i].pairs :
       pair[1] \in correlations[i].members /\ pair[2] \in correlations[i].members
  /\ \A i, j \in 1 .. Len(correlations) :
       i # j => correlations[i].members \intersect correlations[j].members = {}

\* The matches reported so far are in the sets.
PairsInSets == UNION {correlations[i].pairs : i \in 1 .. Len(correlations)} = matches

SetsInv ==
  /\ SetsApart
  /\ phase = "report" => PairsInSets

-----------------------------------------------------------------------------
(* The home of a row *)

LEMMA HomeFacts ==
  ASSUME SetsApart, NEW row
  PROVE  \/ HomeFor(row) = 0 /\ \A i \in 1 .. Len(correlations) : row \notin correlations[i].members
         \/ /\ HomeFor(row) \in 1 .. Len(correlations)
            /\ row \in correlations[HomeFor(row)].members
            /\ \A i \in 1 .. Len(correlations) : row \in correlations[i].members => i = HomeFor(row)
<1> DEFINE homes == {i \in 1 .. Len(correlations) : row \in correlations[i].members}
<1>1. HomeFor(row) = IF homes = {} THEN 0 ELSE CHOOSE first \in homes : \A home \in homes : first <= home
  BY DEF HomeFor
<1>2. CASE homes = {}
  BY <1>1, <1>2
<1>3. CASE homes # {}
  <2>1. PICK home : home \in homes
    BY <1>3
  <2>2. \A i \in homes : i = home
    BY <2>1 DEF SetsApart
  <2>3. homes = {home} /\ home \in Nat
    BY <2>1, <2>2
  <2>4. HomeFor(row) = home
    BY <1>1, <1>3, <2>3
  <2> QED
    BY <2>1, <2>2, <2>4
<1> QED
  BY <1>2, <1>3

-----------------------------------------------------------------------------
(* addCorrelatedPair *)

\* The pairs in the sets, and the sets that a pair connects.
AllReported == UNION {correlations[i].pairs : i \in 1 .. Len(correlations)}
Connected(pair) == {set \in Sets : pair[1] \in set \/ pair[2] \in set}

\* What every case of addCorrelatedPair must do.
PairAdded(pair) ==
  /\ SetsApart'
  /\ AllReported' = AllReported \union {pair}
  /\ Sets' = (Sets \ Connected(pair)) \union {(UNION Connected(pair)) \union {pair[1], pair[2]}}

LEMMA SetsMembers ==
  /\ \A set : set \in Sets <=> set # {} /\ \E i \in 1 .. Len(correlations) : set = correlations[i].members
  /\ \A set : set \in Sets' <=> set # {} /\ \E i \in 1 .. Len(correlations') : set = correlations'[i].members
  BY DEF Sets

LEMMA SetsTypes ==
  ASSUME SetsApart, NEW i \in 1 .. Len(correlations)
  PROVE  /\ correlations[i] = [pairs |-> correlations[i].pairs, members |-> correlations[i].members]
         /\ correlations[i].pairs \subseteq AllPairs /\ correlations[i].members \subseteq Fingerprint
<1> DEFINE AnySet == [pairs : SUBSET AllPairs, members : SUBSET Fingerprint]
<1>1. correlations \in Seq(AnySet)
  BY DEF SetsApart
<1> HIDE DEF AnySet
<1>2. correlations[i] \in AnySet
  BY <1>1
<1> QED
  BY <1>2 DEF AnySet

\* A row in no set: the pair starts a set of its own.
LEMMA NewSetStep ==
  ASSUME SetsApart, NEW pair \in AllPairs, NewSet(pair),
         \A i \in 1 .. Len(correlations) : correlations[i].members \intersect {pair[1], pair[2]} = {}
  PROVE  PairAdded(pair)
<1> DEFINE new == [pairs |-> {pair}, members |-> {pair[1], pair[2]}]
<1>1. Grown(Empty, pair) = new
  BY DEF Grown, Empty
<1>2. /\ new \in [pairs : SUBSET AllPairs, members : SUBSET Fingerprint]
      /\ new.pairs = {pair} /\ new.members = {pair[1], pair[2]}
  BY DEF AllPairs
<1>3. correlations' = Append(correlations, new)
  BY <1>1 DEF NewSet
<1> HIDE DEF new
<1>4. /\ correlations' \in Seq([pairs : SUBSET AllPairs, members : SUBSET Fingerprint])
      /\ Len(correlations') = Len(correlations) + 1 /\ Len(correlations) \in Nat
      /\ correlations'[Len(correlations) + 1] = new
      /\ \A i \in 1 .. Len(correlations) : correlations'[i] = correlations[i]
  BY <1>2, <1>3 DEF SetsApart
<1>5. SetsApart'
  <2>1. \A i \in 1 .. Len(correlations') : i \in 1 .. Len(correlations) \/ i = Len(correlations) + 1
    BY <1>4
  <2> QED
    BY <1>2, <1>4, <2>1 DEF SetsApart
<1>6. AllReported' = AllReported \union {pair}
  BY <1>2, <1>4 DEF AllReported
<1>7. \A set : set \in Sets' <=> set \in Sets \/ set = {pair[1], pair[2]}
  <2>1. \A i \in 1 .. Len(correlations') : i \in 1 .. Len(correlations) \/ i = Len(correlations) + 1
    BY <1>4
  <2>2. ASSUME NEW set \in Sets' PROVE set \in Sets \/ set = {pair[1], pair[2]}
    <3>1. PICK i \in 1 .. Len(correlations') : set = correlations'[i].members /\ set # {}
      BY SetsMembers
    <3> QED
      BY <1>2, <1>4, <2>1, <3>1, SetsMembers
  <2>3. ASSUME NEW set \in Sets PROVE set \in Sets'
    <3>1. PICK i \in 1 .. Len(correlations) : set = correlations[i].members /\ set # {}
      BY SetsMembers
    <3>2. i \in 1 .. Len(correlations') /\ correlations'[i].members = set
      BY <1>4, <3>1
    <3> QED
      BY <3>1, <3>2, SetsMembers
  <2>4. {pair[1], pair[2]} \in Sets'
    <3>1. Len(correlations) + 1 \in 1 .. Len(correlations')
      BY <1>4
    <3> QED
      BY <1>2, <1>4, <3>1, SetsMembers
  <2> QED
    BY <2>2, <2>3, <2>4
<1>8. Connected(pair) = {}
  BY SetsMembers DEF Connected
<1>9. (UNION Connected(pair)) \union {pair[1], pair[2]} = {pair[1], pair[2]}
  BY <1>8
<1> QED
  BY <1>5, <1>6, <1>7, <1>8, <1>9 DEF PairAdded

\* One set of the pair's rows: the pair goes into it.
LEMMA AddToSetStep ==
  ASSUME SetsApart, NEW pair \in AllPairs, NEW home \in 1 .. Len(correlations), AddToSet(pair, home),
         correlations[home].members \intersect {pair[1], pair[2]} # {},
         \A i \in 1 .. Len(correlations) :
           i # home => correlations[i].members \intersect {pair[1], pair[2]} = {}
  PROVE  PairAdded(pair)
<1> DEFINE grown == Grown(correlations[home], pair)
           old == correlations[home]
<1>1. /\ grown.pairs = old.pairs \union {pair} /\ grown.members = old.members \union {pair[1], pair[2]}
      /\ grown \in [pairs : SUBSET AllPairs, members : SUBSET Fingerprint]
  <2>1. grown = [pairs |-> old.pairs \union {pair}, members |-> old.members \union {pair[1], pair[2]}]
    BY SetsTypes DEF Grown
  <2>2. old.pairs \union {pair} \subseteq AllPairs /\ old.members \union {pair[1], pair[2]} \subseteq Fingerprint
    BY SetsTypes DEF AllPairs
  <2> QED
    BY <2>1, <2>2
<1>2. correlations' = [correlations EXCEPT ![home] = grown]
  BY DEF AddToSet
<1> HIDE DEF grown
<1>3. /\ correlations' \in Seq([pairs : SUBSET AllPairs, members : SUBSET Fingerprint])
      /\ Len(correlations') = Len(correlations)
      /\ correlations'[home] = grown
      /\ \A i \in 1 .. Len(correlations) : i # home => correlations'[i] = correlations[i]
  BY <1>1, <1>2 DEF SetsApart
<1>4. SetsApart'
  BY <1>1, <1>3 DEF SetsApart
<1>5. AllReported' = AllReported \union {pair}
  BY <1>1, <1>3 DEF AllReported
<1>6. Connected(pair) = {old.members}
  BY SetsMembers DEF Connected
<1>7. \A set : set \in Sets' <=>
        (set \in Sets /\ set # old.members) \/ set = old.members \union {pair[1], pair[2]}
  <2>1. \A i \in 1 .. Len(correlations) : i # home /\ correlations[i].members # {} =>
          correlations[i].members # old.members
    BY DEF SetsApart
  <2>2. ASSUME NEW set \in Sets'
        PROVE  (set \in Sets /\ set # old.members) \/ set = old.members \union {pair[1], pair[2]}
    <3>1. PICK i \in 1 .. Len(correlations') : set = correlations'[i].members /\ set # {}
      BY SetsMembers
    <3> QED
      BY <1>1, <1>3, <2>1, <3>1, SetsMembers
  <2>3. ASSUME NEW set \in Sets, set # old.members PROVE set \in Sets'
    <3>1. PICK i \in 1 .. Len(correlations) : set = correlations[i].members /\ set # {}
      BY SetsMembers
    <3>2. i \in 1 .. Len(correlations') /\ correlations'[i].members = set
      BY <1>3, <2>3, <3>1
    <3> QED
      BY <3>1, <3>2, SetsMembers
  <2>4. old.members \union {pair[1], pair[2]} \in Sets'
    BY <1>1, <1>3, SetsMembers
  <2> QED
    BY <2>2, <2>3, <2>4
<1>8. (UNION Connected(pair)) \union {pair[1], pair[2]} = old.members \union {pair[1], pair[2]}
  BY <1>6
<1> QED
  BY <1>4, <1>5, <1>6, <1>7, <1>8 DEF PairAdded

\* Two sets: the first gets the second's pairs and members, which stays without any.
LEMMA MergeSetsStep ==
  ASSUME SetsApart, NEW pair \in AllPairs,
         NEW home1 \in 1 .. Len(correlations), NEW home2 \in 1 .. Len(correlations), home1 # home2,
         MergeSets(pair, home1, home2),
         pair[1] \in correlations[home1].members, pair[2] \in correlations[home2].members,
         \A i \in 1 .. Len(correlations) :
           i \notin {home1, home2} => correlations[i].members \intersect {pair[1], pair[2]} = {}
  PROVE  PairAdded(pair)
<1> DEFINE set1 == correlations[home1]
           set2 == correlations[home2]
           merged == Merged(Grown(set1, pair), set2)
<1>1. /\ merged.pairs = set1.pairs \union {pair} \union set2.pairs
      /\ merged.members = set1.members \union {pair[1], pair[2]} \union set2.members
      /\ merged \in [pairs : SUBSET AllPairs, members : SUBSET Fingerprint]
  <2>1. merged = [pairs |-> set1.pairs \union {pair} \union set2.pairs,
                  members |-> set1.members \union {pair[1], pair[2]} \union set2.members]
    BY SetsTypes DEF Grown, Merged
  <2>2. /\ set1.pairs \union {pair} \union set2.pairs \subseteq AllPairs
        /\ set1.members \union {pair[1], pair[2]} \union set2.members \subseteq Fingerprint
    BY SetsTypes DEF AllPairs
  <2> QED
    BY <2>1, <2>2
<1>2. correlations' = [correlations EXCEPT ![home1] = merged, ![home2] = Empty]
  BY DEF MergeSets
<1>3. Empty.pairs = {} /\ Empty.members = {} /\ Empty \in [pairs : SUBSET AllPairs, members : SUBSET Fingerprint]
  BY DEF Empty
<1> HIDE DEF merged
<1>4. /\ correlations' \in Seq([pairs : SUBSET AllPairs, members : SUBSET Fingerprint])
      /\ Len(correlations') = Len(correlations)
      /\ correlations'[home1] = merged /\ correlations'[home2] = Empty
      /\ \A i \in 1 .. Len(correlations) : i \notin {home1, home2} => correlations'[i] = correlations[i]
  BY <1>1, <1>2, <1>3 DEF SetsApart
<1>5. SetsApart'
  BY <1>1, <1>3, <1>4 DEF SetsApart
<1>6. AllReported' = AllReported \union {pair}
  BY <1>1, <1>3, <1>4 DEF AllReported
<1>7. Connected(pair) = {set1.members, set2.members}
  BY SetsMembers DEF Connected
<1>8. \A set : set \in Sets' <=>
        \/ set \in Sets /\ set \notin {set1.members, set2.members}
        \/ set = set1.members \union {pair[1], pair[2]} \union set2.members
  <2>1. \A i \in 1 .. Len(correlations) : i \notin {home1, home2} /\ correlations[i].members # {} =>
          correlations[i].members \notin {set1.members, set2.members}
    BY DEF SetsApart
  <2>2. ASSUME NEW set \in Sets'
        PROVE  \/ set \in Sets /\ set \notin {set1.members, set2.members}
               \/ set = set1.members \union {pair[1], pair[2]} \union set2.members
    <3>1. PICK i \in 1 .. Len(correlations') : set = correlations'[i].members /\ set # {}
      BY SetsMembers
    <3>2. i \in 1 .. Len(correlations) /\ i # home2
      BY <1>3, <1>4, <3>1
    <3> QED
      BY <1>1, <1>4, <2>1, <3>1, <3>2, SetsMembers
  <2>3. ASSUME NEW set \in Sets, set \notin {set1.members, set2.members} PROVE set \in Sets'
    <3>1. PICK i \in 1 .. Len(correlations) : set = correlations[i].members /\ set # {}
      BY SetsMembers
    <3>2. i \in 1 .. Len(correlations') /\ correlations'[i].members = set
      BY <1>4, <2>3, <3>1
    <3> QED
      BY <3>1, <3>2, SetsMembers
  <2>4. set1.members \union {pair[1], pair[2]} \union set2.members \in Sets'
    BY <1>1, <1>4, SetsMembers
  <2> QED
    BY <2>2, <2>3, <2>4
<1>9. (UNION Connected(pair)) \union {pair[1], pair[2]}
        = set1.members \union {pair[1], pair[2]} \union set2.members
  BY <1>7
<1> QED
  BY <1>5, <1>6, <1>7, <1>8, <1>9 DEF PairAdded

LEMMA AddPairStep ==
  ASSUME SetsApart, NEW pair \in AllPairs, addCorrelatedPair(pair)
  PROVE  PairAdded(pair)
<1> DEFINE home1 == HomeFor(pair[1])
           home2 == HomeFor(pair[2])
<1>1. \/ home1 = 0 /\ \A i \in 1 .. Len(correlations) : pair[1] \notin correlations[i].members
      \/ /\ home1 \in 1 .. Len(correlations) /\ pair[1] \in correlations[home1].members
         /\ \A i \in 1 .. Len(correlations) : pair[1] \in correlations[i].members => i = home1
  BY HomeFacts
<1>2. \/ home2 = 0 /\ \A i \in 1 .. Len(correlations) : pair[2] \notin correlations[i].members
      \/ /\ home2 \in 1 .. Len(correlations) /\ pair[2] \in correlations[home2].members
         /\ \A i \in 1 .. Len(correlations) : pair[2] \in correlations[i].members => i = home2
  BY HomeFacts
<1>3. \/ home1 = 0 /\ home2 = 0 /\ NewSet(pair)
      \/ home1 # 0 /\ home2 \in {0, home1} /\ AddToSet(pair, home1)
      \/ home1 = 0 /\ home2 # 0 /\ AddToSet(pair, home2)
      \/ home1 # 0 /\ home2 \notin {0, home1} /\ MergeSets(pair, home1, home2)
  BY DEF addCorrelatedPair
<1> HIDE DEF home1, home2
<1>4. CASE home1 = 0 /\ home2 = 0 /\ NewSet(pair)
  BY <1>1, <1>2, <1>4, NewSetStep
<1>5. CASE home1 # 0 /\ home2 \in {0, home1} /\ AddToSet(pair, home1)
  BY <1>1, <1>2, <1>5, AddToSetStep
<1>6. CASE home1 = 0 /\ home2 # 0 /\ AddToSet(pair, home2)
  BY <1>1, <1>2, <1>6, AddToSetStep
<1>7. CASE home1 # 0 /\ home2 \notin {0, home1} /\ MergeSets(pair, home1, home2)
  BY <1>1, <1>2, <1>7, MergeSetsStep
<1> QED
  BY <1>3, <1>4, <1>5, <1>6, <1>7

-----------------------------------------------------------------------------
(* The invariant *)

LEMMA SetsInvInit ==
  ASSUME Init
  PROVE  SetsInv
<1>1. correlations = <<>> /\ matches = {}
  BY DEF Init, SetsInit
<1>2. 1 .. Len(correlations) = {} /\ correlations \in Seq([pairs : SUBSET AllPairs, members : SUBSET Fingerprint])
  BY <1>1
<1> QED
  BY <1>1, <1>2 DEF SetsInv, SetsApart, PairsInSets

\* Only Report and EndOfStride touch the sets.
LEMMA SetsStep ==
  ASSUME SetsInv, [Next]_vars
  PROVE  \/ \E pair \in AllPairs :
              /\ phase = "report" /\ phase' = "report" /\ pair[1] # pair[2]
              /\ matches' = matches \union {pair}
              /\ addCorrelatedPair(pair)
         \/ phase' # "report" /\ FlushSets
         \/ correlations' = correlations /\ (phase' = "report" => phase = "report" /\ matches' = matches)
<1>1. CASE Report
  BY <1>1 DEF Report, AllPairs
<1>2. CASE EndOfStride
  BY <1>2 DEF EndOfStride
<1>3. CASE ReadMetrics
  BY <1>3 DEF ReadMetrics, setVars
<1>4. CASE ReadSubgraphs
  BY <1>4 DEF ReadSubgraphs, setVars
<1>5. CASE ExtractEdge
  BY <1>5 DEF ExtractEdge, setVars
<1>6. CASE NextPass
  BY <1>6 DEF NextPass, setVars
<1>7. CASE UNCHANGED vars
  BY <1>7 DEF vars, setVars, groupingVars
<1> QED
  BY <1>1, <1>2, <1>3, <1>4, <1>5, <1>6, <1>7 DEF Next

\* Printing leaves no sets.
LEMMA FlushStep ==
  ASSUME FlushSets
  PROVE  SetsApart' /\ Sets' = {}
<1>1. correlations' = <<>>
  BY DEF FlushSets
<1>2. 1 .. Len(correlations') = {} /\ correlations' \in Seq([pairs : SUBSET AllPairs, members : SUBSET Fingerprint])
  BY <1>1
<1> QED
  BY <1>2 DEF SetsApart, Sets

LEMMA SetsInvStep ==
  ASSUME SetsInv, [Next]_vars
  PROVE  SetsInv'
<1>1. CASE \E pair \in AllPairs :
             /\ phase = "report" /\ phase' = "report" /\ pair[1] # pair[2]
             /\ matches' = matches \union {pair}
             /\ addCorrelatedPair(pair)
  <2>1. PICK pair \in AllPairs : phase = "report" /\ matches' = matches \union {pair} /\ addCorrelatedPair(pair)
    BY <1>1
  <2>2. PairAdded(pair)
    BY <2>1, AddPairStep DEF SetsInv
  <2> QED
    BY <2>1, <2>2 DEF SetsInv, PairsInSets, PairAdded, AllReported
<1>2. CASE phase' # "report" /\ FlushSets
  BY <1>2, FlushStep DEF SetsInv
<1>3. CASE correlations' = correlations /\ (phase' = "report" => phase = "report" /\ matches' = matches)
  BY <1>3 DEF SetsInv, SetsApart, PairsInSets
<1> QED
  BY <1>1, <1>2, <1>3, SetsStep

\* The set reporter's invariant: a row has at most one home, and every match so far is in a
\* set (correlated_set.go).
THEOREM SetsInvariance == Spec => []SetsInv
  BY SetsInvInit, SetsInvStep, PTL DEF Spec

-----------------------------------------------------------------------------
(* The theorems *)

\* Merging sets loses no pair and keeps none twice (addCorrelatedPair).
THEOREM NoPairLost == Spec => []PairsKept
<1>1. SetsInv => PairsKept
  <2> SUFFICES ASSUME SetsInv, phase = "report" PROVE PairsKept
    BY DEF PairsKept
  <2>1. ASSUME NEW i \in 1 .. Len(correlations), NEW j \in 1 .. Len(correlations), i # j
        PROVE  correlations[i].pairs \intersect correlations[j].pairs = {}
    BY <2>1 DEF SetsInv, SetsApart
  <2> QED
    BY <2>1 DEF SetsInv, PairsInSets, PairsKept
<1> QED
  BY <1>1, SetsInvariance, PTL

\* A step joins the sets that a pair touches, clears them, or leaves them alone.
LEMMA SetsJoin ==
  ASSUME SetsInv, [Next]_vars
  PROVE  [SetPartition!Next]_Sets
<1>1. CASE \E pair \in AllPairs :
             /\ phase = "report" /\ phase' = "report" /\ pair[1] # pair[2]
             /\ matches' = matches \union {pair}
             /\ addCorrelatedPair(pair)
  <2>1. PICK pair \in AllPairs : pair[1] # pair[2] /\ addCorrelatedPair(pair)
    BY <1>1
  <2>2. Sets' = (Sets \ Connected(pair)) \union {(UNION Connected(pair)) \union {pair[1], pair[2]}}
    BY <2>1, AddPairStep DEF SetsInv, PairAdded
  <2>3. Connected(pair) = SetPartition!Touched(pair[1], pair[2])
    BY DEF Connected, SetPartition!Touched
  <2>4. SetPartition!Join(pair[1], pair[2])
    BY <2>2, <2>3 DEF SetPartition!Join
  <2>5. pair[1] \in Fingerprint /\ pair[2] \in Fingerprint
    BY DEF AllPairs
  <2> QED
    BY <2>1, <2>4, <2>5 DEF SetPartition!Next
<1>2. CASE phase' # "report" /\ FlushSets
  BY <1>2, FlushStep DEF SetPartition!Next, SetPartition!Clear
<1>3. CASE correlations' = correlations
  BY <1>3 DEF Sets
<1> QED
  BY <1>1, <1>2, <1>3, SetsStep

\* The set reporter implements the abstract grouping: its sets are always the connected
\* components of the pairs reported since it last printed (correlated_set.go).
THEOREM SetsAreComponents == Spec => SetsImplementPartition
<1>1. Init => Sets = {}
  <2> SUFFICES ASSUME Init PROVE Sets = {}
    OBVIOUS
  <2>1. 1 .. Len(correlations) = {}
    BY DEF Init, SetsInit
  <2> QED
    BY <2>1 DEF Sets
<1>2. SetsInv /\ [Next]_vars => [SetPartition!Next]_Sets
  BY SetsJoin
<1> QED
  BY <1>1, <1>2, SetsInvariance, PTL DEF Spec, SetsImplementPartition, SetPartition!Spec

-----------------------------------------------------------------------------
(* The sets are components *)

\* The sets that are kept, or were printed, are the components of the matches.
SetsComponents ==
  /\ matches \subseteq AllPairs
  /\ phase = "report" => Components(Sets, matches)
  /\ phase # "report" => Components(reported, matches)

LEMMA SetsComponentsInit ==
  ASSUME Init
  PROVE  SetsComponents
<1>1. 1 .. Len(correlations) = {}
  BY DEF Init, SetsInit
<1>2. Sets = {} /\ matches = {} /\ phase = "report"
  BY <1>1 DEF Init, Sets
<1> QED
  BY <1>2 DEF SetsComponents, Components

LEMMA SetsComponentsStep ==
  ASSUME SetsInv, SetsComponents, [Next]_vars
  PROVE  SetsComponents'
<1>1. CASE Report
  <2>1. PICK pair \in AllPairs : matches' = matches \union {pair} /\ addCorrelatedPair(pair)
    BY <1>1 DEF Report, AllPairs
  <2>2. Sets' = (Sets \ Connected(pair)) \union {(UNION Connected(pair)) \union {pair[1], pair[2]}}
    BY <2>1, AddPairStep DEF SetsInv, PairAdded
  <2>3. Components(Sets, matches) /\ phase' = "report"
    BY <1>1 DEF Report, SetsComponents
  <2>4. Components(Sets', matches')
    BY <2>1, <2>2, <2>3, ComponentsJoin DEF Connected
  <2> QED
    BY <2>1, <2>3, <2>4 DEF SetsComponents
<1>2. CASE EndOfStride
  <2>1. reported' = Sets /\ matches' = matches /\ phase = "report" /\ phase' = "metrics"
    BY <1>2 DEF EndOfStride, FlushSets
  <2> QED
    BY <2>1 DEF SetsComponents
<1>3. CASE ReadMetrics \/ ReadSubgraphs \/ ExtractEdge \/ NextPass
  <2>1. reported' = reported /\ matches' = matches /\ phase # "report" /\ phase' # "report"
    BY <1>3 DEF ReadMetrics, ReadSubgraphs, ExtractEdge, NextPass, setVars
  <2> QED
    BY <2>1 DEF SetsComponents
<1>4. CASE UNCHANGED vars
  BY <1>4 DEF SetsComponents, Sets, vars, setVars, groupingVars
<1> QED
  BY <1>1, <1>2, <1>3, <1>4 DEF Next

-----------------------------------------------------------------------------
(* The result file *)

EdgeAt(i) == <<file[i].MetricFingerprint, file[i].Correlated>>

\* Each match is in the file once in each direction, and there are no other edges.
FileHasMatches ==
  /\ file \in Seq(FileRow)
  /\ \A pair \in matches : pair[1] # pair[2] /\ <<pair[2], pair[1]>> \notin matches
  /\ \A i \in 1 .. Len(file) : IsEdge(file[i]) => EdgeAt(i) \in BothWays(matches)
  /\ \A pair \in BothWays(matches) : \E i \in 1 .. Len(file) : IsEdge(file[i]) /\ EdgeAt(i) = pair
  /\ \A i, j \in 1 .. Len(file) :
       IsEdge(file[i]) /\ IsEdge(file[j]) /\ EdgeAt(i) = EdgeAt(j) => i = j

\* SetToSeq chooses a sequence of the set.
LEMMA SetToSeqFacts ==
  ASSUME NEW S, IsFiniteSet(S)
  PROVE  SetToSeq(S) \in Seq(S)
<1>1. /\ Cardinality(S) \in Nat
      /\ ExistsBijection(1 .. Cardinality(S), S)
  BY FS_CardinalityType
<1>2. PICK f \in [1 .. Cardinality(S) -> S] : IsInjective(f)
  BY <1>1 DEF ExistsBijection, Bijection, Injection
<1>3. SetToSeq(S) \in [1 .. Cardinality(S) -> S]
  BY <1>2 DEF SetToSeq
<1> QED
  BY <1>1, <1>3

LEMMA AboutFinite ==
  ASSUME NEW S \in SUBSET Fingerprint, NEW constant \in BOOLEAN
  PROVE  IsFiniteSet({About(f, constant) : f \in S})
<1> DEFINE T == {About(f, constant) : f \in S}
           g == [f \in S |-> About(f, constant)]
<1>1. IsFiniteSet(S)
  BY FingerprintAssumption, FS_Subset
<1>2. g \in Surjection(S, T)
  BY DEF Surjection
<1> HIDE DEF g, T
<1>3. IsFiniteSet(T)
  BY <1>1, <1>2, FS_Surjection
<1> QED
  BY <1>3 DEF T

LEMMA RowKinds ==
  /\ \A a, b \in Fingerprint : a # b =>
       /\ Match(a, b) \in FileRow /\ IsEdge(Match(a, b))
       /\ Match(a, b).MetricFingerprint = a /\ Match(a, b).Correlated = b
  /\ \A a \in Fingerprint, constant \in BOOLEAN :
       About(a, constant) \in FileRow /\ ~IsEdge(About(a, constant))
<1>1. ASSUME NEW a \in Fingerprint, NEW b \in Fingerprint, a # b
      PROVE  /\ Match(a, b) \in FileRow /\ IsEdge(Match(a, b))
             /\ Match(a, b).MetricFingerprint = a /\ Match(a, b).Correlated = b
  <2>1. /\ IsEdge(Match(a, b))
        /\ Match(a, b).MetricFingerprint = a /\ Match(a, b).Correlated = b
    BY DEF Match, IsEdge
  <2> QED
    BY <1>1, <2>1 DEF FileRow
<1>2. ASSUME NEW a \in Fingerprint, NEW constant \in BOOLEAN
      PROVE  About(a, constant) \in FileRow /\ ~IsEdge(About(a, constant))
  <2>1. ~IsEdge(About(a, constant))
    BY DEF About, IsEdge
  <2> QED
    BY <2>1 DEF FileRow
<1> QED
  BY <1>1, <1>2

LEMMA FileInit ==
  ASSUME Init
  PROVE  FileHasMatches
<1>1. file = <<>> /\ matches = {}
  BY DEF Init
<1>2. file \in Seq(FileRow) /\ 1 .. Len(file) = {}
  BY <1>1
<1> QED
  BY <1>1, <1>2 DEF FileHasMatches, BothWays

\* Rows that are appended and are no edges change nothing.
LEMMA FileAppendNoEdges ==
  ASSUME FileHasMatches, matches' = matches, NEW rows \in Seq(FileRow),
         \A i \in 1 .. Len(rows) : ~IsEdge(rows[i]), file' = file \o rows
  PROVE  FileHasMatches'
<1>1. /\ file' \in Seq(FileRow) /\ Len(file) \in Nat /\ Len(rows) \in Nat
      /\ Len(file') = Len(file) + Len(rows)
      /\ \A i \in 1 .. Len(file) : file'[i] = file[i]
      /\ \A i \in 1 .. Len(rows) : file'[Len(file) + i] = rows[i]
  BY DEF FileHasMatches
<1>2. \A i \in 1 .. Len(file') : i \in 1 .. Len(file) \/ i - Len(file) \in 1 .. Len(rows)
  BY <1>1
<1>3. \A i \in 1 .. Len(file') : IsEdge(file'[i]) => i \in 1 .. Len(file)
  <2> SUFFICES ASSUME NEW i \in 1 .. Len(file'), i \notin 1 .. Len(file) PROVE ~IsEdge(file'[i])
    OBVIOUS
  <2> DEFINE k == i - Len(file)
  <2>1. k \in 1 .. Len(rows) /\ i = Len(file) + k
    BY <1>1, <1>2
  <2> HIDE DEF k
  <2> QED
    BY <1>1, <2>1
<1>4. \A i \in 1 .. Len(file) : i \in 1 .. Len(file') /\ file'[i] = file[i] /\ EdgeAt(i)' = EdgeAt(i)
  BY <1>1 DEF EdgeAt
<1>5. \A i \in 1 .. Len(file') : IsEdge(file'[i]) => EdgeAt(i)' \in BothWays(matches)
  BY <1>3, <1>4 DEF FileHasMatches
<1>6. \A pair \in BothWays(matches) : \E i \in 1 .. Len(file') : IsEdge(file'[i]) /\ EdgeAt(i)' = pair
  BY <1>4 DEF FileHasMatches
<1>7. \A i, j \in 1 .. Len(file') :
        IsEdge(file'[i]) /\ IsEdge(file'[j]) /\ EdgeAt(i)' = EdgeAt(j)' => i = j
  BY <1>3, <1>4 DEF FileHasMatches
<1> QED
  BY <1>1, <1>5, <1>6, <1>7 DEF FileHasMatches

\* A pair is its two rows.
LEMMA PairShape ==
  \A p \in AllPairs : p[1] \in Fingerprint /\ p[2] \in Fingerprint /\ p = <<p[1], p[2]>>
  BY DEF AllPairs

\* A match is appended in both directions.
LEMMA FileReport ==
  ASSUME FileHasMatches, matches \subseteq AllPairs, Report
  PROVE  FileHasMatches'
<1>1. PICK pair \in AllPairs :
        /\ pair[1] # pair[2] /\ pair \notin matches /\ <<pair[2], pair[1]>> \notin matches
        /\ matches' = matches \union {pair}
        /\ file' = file \o RowsOf(pair)
  BY DEF Report, AllPairs
<1> DEFINE there == Match(pair[1], pair[2])
           back == Match(pair[2], pair[1])
<1>2. pair[1] \in Fingerprint /\ pair[2] \in Fingerprint /\ pair = <<pair[1], pair[2]>>
  BY PairShape
<1>0. PICK n \in Nat : n = Len(file)
  BY DEF FileHasMatches
<1>3. /\ there \in FileRow /\ IsEdge(there)
      /\ there.MetricFingerprint = pair[1] /\ there.Correlated = pair[2]
      /\ back \in FileRow /\ IsEdge(back)
      /\ back.MetricFingerprint = pair[2] /\ back.Correlated = pair[1]
  BY <1>1, <1>2, RowKinds
<1>4. file' = file \o <<there, back>>
  BY <1>1 DEF RowsOf
<1> HIDE DEF there, back
<1>5. /\ file' \in Seq(FileRow) /\ Len(file') = n + 2
      /\ file'[n + 1] = there /\ file'[n + 2] = back
      /\ \A i \in 1 .. n : file'[i] = file[i]
  BY <1>0, <1>3, <1>4 DEF FileHasMatches
<1>6. 1 .. Len(file') = 1 .. n \union {n + 1, n + 2}
  BY <1>5
<1>7. /\ EdgeAt(n + 1)' = pair /\ EdgeAt(n + 2)' = <<pair[2], pair[1]>>
      /\ \A i \in 1 .. n : EdgeAt(i)' = EdgeAt(i)
  BY <1>2, <1>3, <1>5 DEF EdgeAt
<1>8. BothWays(matches') = BothWays(matches) \union {pair, <<pair[2], pair[1]>>}
  BY <1>1 DEF BothWays
<1>9. pair \notin BothWays(matches) /\ <<pair[2], pair[1]>> \notin BothWays(matches)
  <2>1. ASSUME NEW p \in matches, <<p[2], p[1]>> = pair PROVE FALSE
    <3>1. p = <<pair[2], pair[1]>>
      BY <2>1, PairShape
    <3> QED
      BY <1>1, <3>1
  <2>2. ASSUME NEW p \in matches, <<p[2], p[1]>> = <<pair[2], pair[1]>> PROVE FALSE
    <3>1. p = pair
      BY <1>2, <2>2, PairShape
    <3> QED
      BY <1>1, <3>1
  <2> QED
    BY <1>1, <2>1, <2>2 DEF BothWays
<1>10. ASSUME NEW p \in matches' PROVE p[1] # p[2] /\ <<p[2], p[1]>> \notin matches'
  <2>1. CASE p = pair
    BY <1>1, <1>2, <2>1
  <2>2. CASE p \in matches
    <3>1. p[1] # p[2] /\ <<p[2], p[1]>> \notin matches
      BY <2>2 DEF FileHasMatches
    <3>2. <<p[2], p[1]>> # pair
      BY <1>9, <2>2 DEF BothWays
    <3> QED
      BY <1>1, <3>1, <3>2
  <2> QED
    BY <1>1, <2>1, <2>2
<1>11. ASSUME NEW i \in 1 .. Len(file'), IsEdge(file'[i]) PROVE EdgeAt(i)' \in BothWays(matches')
  <2>1. CASE i \in 1 .. n
    <3>1. EdgeAt(i) \in BothWays(matches)
      BY <1>0, <1>5, <1>11, <2>1 DEF FileHasMatches
    <3> QED
      BY <1>7, <1>8, <2>1, <3>1
  <2> QED
    BY <1>6, <1>7, <1>8, <2>1
<1>12. \A p \in BothWays(matches') : \E i \in 1 .. Len(file') : IsEdge(file'[i]) /\ EdgeAt(i)' = p
  <2> SUFFICES ASSUME NEW p \in BothWays(matches')
               PROVE  \E i \in 1 .. Len(file') : IsEdge(file'[i]) /\ EdgeAt(i)' = p
    OBVIOUS
  <2>1. CASE p \in BothWays(matches)
    <3>1. PICK i \in 1 .. n : IsEdge(file[i]) /\ EdgeAt(i) = p
      BY <2>1, <1>0 DEF FileHasMatches
    <3> QED
      BY <1>5, <1>6, <1>7, <3>1
  <2>2. CASE p = pair
    <3> n + 1 \in 1 .. Len(file')
      BY <1>5
    <3> WITNESS n + 1 \in 1 .. Len(file')
    <3> QED
      BY <1>3, <1>5, <1>7, <2>2
  <2>3. CASE p = <<pair[2], pair[1]>>
    <3> n + 2 \in 1 .. Len(file')
      BY <1>5
    <3> WITNESS n + 2 \in 1 .. Len(file')
    <3> QED
      BY <1>3, <1>5, <1>7, <2>3
  <2> QED
    BY <1>8, <2>1, <2>2, <2>3
<1>13. ASSUME NEW i \in 1 .. Len(file'), NEW j \in 1 .. Len(file'),
              IsEdge(file'[i]), IsEdge(file'[j]), EdgeAt(i)' = EdgeAt(j)'
       PROVE  i = j
  <2>1. CASE i \in 1 .. n /\ j \in 1 .. n
    BY <1>5, <1>7, <1>13, <2>1, <1>0 DEF FileHasMatches
  <2>2. \A k \in 1 .. n : IsEdge(file'[k]) => EdgeAt(k)' \in BothWays(matches)
    BY <1>5, <1>7, <1>0 DEF FileHasMatches
  <2>3. pair # <<pair[2], pair[1]>>
    BY <1>1, <1>2
  <2>4. EdgeAt(n + 1)' # EdgeAt(n + 2)'
    BY <1>7, <2>3
  <2>5. \A k \in 1 .. n : IsEdge(file'[k]) => EdgeAt(k)' # EdgeAt(n + 1)' /\ EdgeAt(k)' # EdgeAt(n + 2)'
    BY <1>7, <1>9, <2>2
  <2> QED
    BY <1>6, <1>13, <2>1, <2>4, <2>5
<1> QED
  BY <1>5, <1>10, <1>11, <1>12, <1>13 DEF FileHasMatches

LEMMA FileStep ==
  ASSUME FileHasMatches, matches \subseteq AllPairs, [Next]_vars
  PROVE  FileHasMatches'
<1>1. CASE EndOfStride
  <2>1. PICK constants \in SUBSET Fingerprint :
          file' = file \o SetToSeq({About(f, FALSE) : f \in Fingerprint})
                       \o SetToSeq({About(f, TRUE) : f \in constants})
    BY <1>1 DEF EndOfStride
  <2> DEFINE names == SetToSeq({About(f, FALSE) : f \in Fingerprint})
             flat == SetToSeq({About(f, TRUE) : f \in constants})
  <2>2. /\ names \in Seq({About(f, FALSE) : f \in Fingerprint})
        /\ flat \in Seq({About(f, TRUE) : f \in constants})
    BY AboutFinite, SetToSeqFacts
  <2>3. /\ \A row \in {About(f, FALSE) : f \in Fingerprint} : row \in FileRow /\ ~IsEdge(row)
        /\ \A row \in {About(f, TRUE) : f \in constants} : row \in FileRow /\ ~IsEdge(row)
    BY RowKinds
  <2> HIDE DEF names, flat
  <2> DEFINE Plain == {row \in FileRow : ~IsEdge(row)}
  <2>4. names \in Seq(Plain) /\ flat \in Seq(Plain)
    <3> DEFINE N == {About(f, FALSE) : f \in Fingerprint}
               C == {About(f, TRUE) : f \in constants}
    <3>1. N \subseteq Plain /\ C \subseteq Plain
      BY <2>3
    <3>2. names \in Seq(N) /\ flat \in Seq(C)
      BY <2>2
    <3> HIDE DEF N, C, Plain
    <3> QED
      BY <3>1, <3>2
  <2>5. names \o flat \in Seq(Plain)
    BY <2>4
  <2>6. file' = file \o (names \o flat)
    <3>1. file' = (file \o names) \o flat
      BY <2>1 DEF names, flat
    <3>2. file \in Seq(FileRow) /\ names \in Seq(FileRow) /\ flat \in Seq(FileRow)
      BY <2>4 DEF FileHasMatches
    <3> QED
      BY <3>1, <3>2
  <2>7. /\ names \o flat \in Seq(FileRow)
        /\ \A i \in 1 .. Len(names \o flat) : ~IsEdge((names \o flat)[i])
    <3> DEFINE both == names \o flat
    <3>1. both \in Seq(Plain)
      BY <2>5
    <3> HIDE DEF both
    <3>2. both \in Seq(FileRow) /\ \A i \in 1 .. Len(both) : both[i] \in Plain
      BY <3>1
    <3> QED
      BY <3>2 DEF both
  <2>8. matches' = matches
    BY <1>1 DEF EndOfStride
  <2> QED
    BY <2>6, <2>7, <2>8, FileAppendNoEdges
<1>2. CASE ReadMetrics \/ ReadSubgraphs \/ ExtractEdge \/ NextPass \/ UNCHANGED vars
  <2>1. file' = file /\ matches' = matches
    BY <1>2 DEF ReadMetrics, ReadSubgraphs, ExtractEdge, NextPass, vars, groupingVars
  <2> QED
    BY <2>1 DEF FileHasMatches, EdgeAt
<1> QED
  BY <1>1, <1>2, FileReport DEF Next

-----------------------------------------------------------------------------
(* The explorer's passes over the file *)

\* Rows have a subgraph only for pairs that were read, and each pair is read in both
\* directions, once the pass for the subgraphs is over.
PassesRead ==
  /\ phase \in {"report", "metrics", "subgraphs", "edges", "done", "error"}
  /\ position \in 0 .. Len(file)
  /\ \A row : row \in DOMAIN Rows <=> \E pair \in added : row = pair[1] \/ row = pair[2]
  /\ phase = "report" => position = 0
  /\ phase \in {"report", "metrics"} => added = {}
  /\ phase = "subgraphs" => added = {EdgeAt(i) : i \in {j \in 1 .. position : IsEdge(file[j])}}
  /\ phase \in {"edges", "done", "error"} => added = BothWays(matches)

GroupingsInv == SetsInv /\ SetsComponents /\ FileHasMatches /\ GraphsInv /\ PassesRead

LEMMA GroupingsInvInit ==
  ASSUME Init
  PROVE  GroupingsInv
<1>1. GraphsInv
  BY GraphsInvInit DEF Init
<1>2. phase = "report" /\ position = 0 /\ file = <<>> /\ added = {} /\ DOMAIN Rows = {}
  BY DEF Init, GraphsInit
<1>3. PassesRead
  BY <1>2 DEF PassesRead
<1> QED
  BY <1>1, <1>3, SetsInvInit, SetsComponentsInit, FileInit DEF GroupingsInv

\* Only the pass for the subgraphs changes them, by the steps of Subgraphs.
LEMMA GraphsStep ==
  ASSUME FileHasMatches, PassesRead, [Next]_vars
  PROVE  [GraphsNext]_graphVars
<1>1. CASE ReadSubgraphs
  <2>1. ReadRow(Row) /\ position < Len(file)
    BY <1>1 DEF ReadSubgraphs, MoreRows
  <2>2. Row \in FileRow
    BY <2>1 DEF Row, FileHasMatches, PassesRead
  <2> QED
    BY <2>1, <2>2 DEF GraphsNext
<1>2. CASE Report \/ EndOfStride \/ ReadMetrics \/ ExtractEdge \/ NextPass \/ UNCHANGED vars
  BY <1>2 DEF Report, EndOfStride, ReadMetrics, ExtractEdge, NextPass, vars
<1> QED
  BY <1>1, <1>2 DEF Next

\* A row of an edge adds its pair, and both its timeseries have a subgraph then.
LEMMA AddPairRows ==
  ASSUME NEW a, NEW b, addPair(a, b)
  PROVE  DOMAIN Rows' = DOMAIN Rows \union {a, b} /\ added' = added \union {<<a, b>>}
<1>1. CASE NewGraph(a, b)
  BY <1>1 DEF NewGraph, Put, addPair
<1>2. CASE JoinGraph(a, b) \/ JoinGraph(b, a)
  BY <1>2 DEF JoinGraph, Put, addPair
<1>3. CASE SameGraph(a, b)
  BY <1>3 DEF SameGraph, addPair
<1>4. CASE MergeGraphs(a, b) \/ MergeGraphs(b, a)
  BY <1>4 DEF MergeGraphs, Members, Put, addPair
<1> QED
  BY <1>1, <1>2, <1>3, <1>4 DEF addPair

LEMMA PassesReadSubgraphs ==
  ASSUME GroupingsInv, ReadSubgraphs
  PROVE  PassesRead'
<1> DEFINE n == position + 1
<1>1. /\ phase = "subgraphs" /\ phase' = "subgraphs" /\ position < Len(file) /\ file' = file
      /\ position' = n /\ position \in Nat /\ n \in 1 .. Len(file) /\ ReadRow(file[n])
      /\ matches' = matches
  BY DEF ReadSubgraphs, MoreRows, Row, GroupingsInv, PassesRead, FileHasMatches
<1>2. 1 .. n = 1 .. position \union {n}
  BY <1>1
<1>3. EdgeAt(n) = <<file[n].MetricFingerprint, file[n].Correlated>>
  BY DEF EdgeAt
<1>4. CASE IsEdge(file[n]) /\ addPair(file[n].MetricFingerprint, file[n].Correlated)
  <2>1. /\ DOMAIN Rows' = DOMAIN Rows \union {file[n].MetricFingerprint, file[n].Correlated}
        /\ added' = added \union {EdgeAt(n)}
    BY <1>3, <1>4, AddPairRows
  <2>2. \A row : row \in DOMAIN Rows' <=> \E pair \in added' : row = pair[1] \/ row = pair[2]
    BY <1>3, <2>1 DEF GroupingsInv, PassesRead
  <2>3. added' = {EdgeAt(i) : i \in {j \in 1 .. n : IsEdge(file[j])}}
    BY <1>1, <1>2, <1>4, <2>1 DEF GroupingsInv, PassesRead
  <2> QED
    BY <1>1, <2>2, <2>3 DEF PassesRead, EdgeAt
<1>5. CASE ~IsEdge(file[n]) /\ UNCHANGED graphVars
  <2>1. Rows' = Rows /\ added' = added
    BY <1>5 DEF graphVars
  <2>2. added' = {EdgeAt(i) : i \in {j \in 1 .. n : IsEdge(file[j])}}
    BY <1>1, <1>2, <1>5, <2>1 DEF GroupingsInv, PassesRead
  <2> QED
    BY <1>1, <2>1, <2>2 DEF GroupingsInv, PassesRead, EdgeAt
<1> QED
  BY <1>1, <1>4, <1>5 DEF ReadRow

LEMMA PassesStep ==
  ASSUME GroupingsInv, [Next]_vars
  PROVE  PassesRead'
<1>1. CASE Report \/ EndOfStride
  <2>1. /\ phase = "report" /\ phase' \in {"report", "metrics"} /\ position' = position
        /\ Rows' = Rows /\ added' = added /\ added = {}
    BY <1>1 DEF Report, EndOfStride, graphVars, GroupingsInv, PassesRead
  <2>2. position = 0 /\ Len(file') \in Nat
    <3>1. FileHasMatches'
      BY FileStep DEF GroupingsInv, SetsComponents
    <3> QED
      BY <2>1, <3>1 DEF GroupingsInv, PassesRead, FileHasMatches
  <2> QED
    BY <2>1, <2>2 DEF PassesRead, GroupingsInv
<1>2. CASE ReadMetrics
  BY <1>2 DEF ReadMetrics, graphVars, GroupingsInv, PassesRead, MoreRows
<1>3. CASE ReadSubgraphs
  BY <1>3, PassesReadSubgraphs
<1>4. CASE ExtractEdge
  <2>1. /\ phase = "edges" /\ phase' \in {"edges", "error"} /\ position < Len(file)
        /\ position' = position + 1 /\ file' = file /\ matches' = matches
        /\ Rows' = Rows /\ added' = added
    BY <1>4 DEF ExtractEdge, graphVars, MoreRows
  <2> QED
    BY <2>1 DEF GroupingsInv, PassesRead, FileHasMatches
<1>5. CASE NextPass
  <2>1. /\ ~MoreRows /\ position' = 0 /\ file' = file /\ matches' = matches
        /\ Rows' = Rows /\ added' = added /\ Len(file) \in Nat
        /\ phase \in {"metrics", "subgraphs", "edges"}
        /\ phase = "metrics" => phase' = "subgraphs"
        /\ phase = "subgraphs" => phase' = "edges"
        /\ phase = "edges" => phase' = "done"
    BY <1>5 DEF NextPass, graphVars, GroupingsInv, FileHasMatches
  <2>2. CASE phase = "metrics"
    <3>1. added' = {EdgeAt(i) : i \in {j \in 1 .. 0 : IsEdge(file[j])}}
      BY <2>1, <2>2 DEF GroupingsInv, PassesRead
    <3> QED
      BY <2>1, <2>2, <3>1 DEF GroupingsInv, PassesRead, EdgeAt
  <2>3. CASE phase = "subgraphs"
    <3>1. position = Len(file)
      BY <2>1 DEF MoreRows, GroupingsInv, PassesRead
    <3>2. {EdgeAt(i) : i \in {j \in 1 .. Len(file) : IsEdge(file[j])}} = BothWays(matches)
      BY DEF GroupingsInv, FileHasMatches
    <3>3. added' = BothWays(matches')
      BY <2>1, <2>3, <3>1, <3>2 DEF GroupingsInv, PassesRead
    <3>4. \A row : row \in DOMAIN Rows' <=> \E pair \in added' : row = pair[1] \/ row = pair[2]
      BY <2>1 DEF GroupingsInv, PassesRead
    <3>5. phase' = "edges" /\ position' \in 0 .. Len(file')
      BY <2>1, <2>3
    <3> QED
      BY <3>3, <3>4, <3>5 DEF PassesRead
  <2>4. CASE phase = "edges"
    BY <2>1, <2>4 DEF GroupingsInv, PassesRead
  <2> QED
    BY <2>1, <2>2, <2>3, <2>4
<1>6. CASE UNCHANGED vars
  BY <1>6 DEF vars, groupingVars, graphVars, GroupingsInv, PassesRead, EdgeAt
<1> QED
  BY <1>1, <1>2, <1>3, <1>4, <1>5, <1>6 DEF Next

LEMMA GroupingsInvStep ==
  ASSUME GroupingsInv, [Next]_vars
  PROVE  GroupingsInv'
<1>1. SetsInv' /\ SetsComponents' /\ FileHasMatches'
  BY SetsInvStep, SetsComponentsStep, FileStep DEF GroupingsInv, SetsComponents
<1>2. GraphsInv'
  BY GraphsStep, GraphsInvStep DEF GroupingsInv
<1> QED
  BY <1>1, <1>2, PassesStep DEF GroupingsInv

\* The file has the matches of the stride, and each pass reads what the one before it left
\* (Report, EndOfStride, ReadMetrics, ReadSubgraphs, ExtractEdge).
THEOREM GroupingsInvariance == Spec => []GroupingsInv
  BY GroupingsInvInit, GroupingsInvStep, PTL DEF Spec

-----------------------------------------------------------------------------
(* The two groupings agree *)

\* The explorer's subgraphs are the components of the pairs that were read.
LEMMA SubgraphsAreBlocks ==
  ASSUME GraphsInv, \A row : row \in DOMAIN Rows <=> \E pair \in added : row = pair[1] \/ row = pair[2]
  PROVE  Components({Members(graph) : graph \in DOMAIN Sizes}, added)
<1> DEFINE blocks == {Members(graph) : graph \in DOMAIN Sizes}
<1>1. ASSUME NEW b \in blocks PROVE b # {} /\ b \subseteq DOMAIN Rows /\ \E graph : b = Members(graph)
  <2>1. PICK graph \in DOMAIN Sizes : b = Members(graph)
    OBVIOUS
  <2>2. PICK row \in DOMAIN Rows : graph = Rows[row]
    BY DEF GraphsInv, SizesExact
  <2> QED
    BY <2>1, <2>2 DEF Members
<1>2. \A b, c \in blocks : b = c \/ b \intersect c = {}
  BY DEF Members
<1>3. ASSUME NEW pair \in added PROVE \E b \in blocks : pair[1] \in b /\ pair[2] \in b
  <2>1. pair[1] \in DOMAIN Rows /\ pair[2] \in DOMAIN Rows /\ Rows[pair[1]] = Rows[pair[2]]
    BY DEF GraphsInv, GraphsAreComponents, PairsShareGraph
  <2>2. Rows[pair[1]] \in DOMAIN Sizes
    BY <2>1 DEF GraphsInv, SizesExact
  <2>3. Members(Rows[pair[1]]) \in blocks
    BY <2>2
  <2>4. pair[1] \in Members(Rows[pair[1]]) /\ pair[2] \in Members(Rows[pair[1]])
    BY <2>1 DEF Members
  <2> QED
    BY <2>3, <2>4
<1>4. ASSUME NEW side \in SUBSET Fingerprint, Closed(side, added), NEW b \in blocks
      PROVE  b \subseteq side \/ b \intersect side = {}
  <2>1. \A x, y \in DOMAIN Rows : Rows[x] = Rows[y] => (x \in side <=> y \in side)
    BY <1>4 DEF Closed, GraphsInv, GraphsAreComponents, GraphsConnected
  <2> QED
    BY <2>1 DEF Members
<1>5. DOMAIN Rows \subseteq Fingerprint
  BY DEF GraphsInv, GraphsTypeOK
<1> QED
  BY <1>1, <1>2, <1>3, <1>4, <1>5 DEF Components, Covered

\* The explorer's subgraphs of the file are the sets that the set reporter printed for the
\* same matches (parquet_explorer.go, correlated_set.go).
THEOREM GroupingsAgree == Spec => []GraphsMatchSets
<1>1. GroupingsInv => GraphsMatchSets
  <2> SUFFICES ASSUME GroupingsInv, phase \in {"edges", "done"}
               PROVE  {Members(graph) : graph \in DOMAIN Sizes} = reported
    BY DEF GraphsMatchSets
  <2>1. added = BothWays(matches)
    BY DEF GroupingsInv, PassesRead
  <2>2. Components({Members(graph) : graph \in DOMAIN Sizes}, added)
    BY SubgraphsAreBlocks DEF GroupingsInv, PassesRead
  <2>3. Components({Members(graph) : graph \in DOMAIN Sizes}, matches)
    BY <2>1, <2>2, ComponentsBothWays DEF GroupingsInv, SetsComponents
  <2>4. Components(reported, matches)
    BY DEF GroupingsInv, SetsComponents
  <2> QED
    BY <2>3, <2>4, ComponentsUnique
<1> QED
  BY <1>1, GroupingsInvariance, PTL

-----------------------------------------------------------------------------
(* The edge files *)

\* A sequence of the members of a set, each of them once.
ListsOnce(seq, S) ==
  /\ seq \in Seq(S)
  /\ \A e \in S : \E k \in 1 .. Len(seq) : seq[k] = e
  /\ \A k, l \in 1 .. Len(seq) : seq[k] = seq[l] => k = l

LEMMA ListsNothing == ListsOnce(<<>>, {})
<1>1. <<>> \in Seq({}) /\ 1 .. Len(<<>>) = {}
  OBVIOUS
<1> QED
  BY <1>1 DEF ListsOnce

LEMMA ListsOneMore ==
  ASSUME NEW S, NEW seq, ListsOnce(seq, S), NEW e, e \notin S
  PROVE  ListsOnce(Append(seq, e), S \union {e})
<1> DEFINE T == S \union {e}
           new == Append(seq, e)
<1>1. seq \in Seq(S) /\ Len(seq) \in Nat /\ \A k \in 1 .. Len(seq) : seq[k] \in S
  BY DEF ListsOnce
<1>2. e \in T /\ S \subseteq T
  OBVIOUS
<1> HIDE DEF T
<1>3. seq \in Seq(T)
  BY <1>1, <1>2
<1>4. /\ new \in Seq(T) /\ Len(new) = Len(seq) + 1 /\ new[Len(seq) + 1] = e
      /\ \A k \in 1 .. Len(seq) : new[k] = seq[k]
  BY <1>1, <1>2, <1>3
<1> HIDE DEF new
<1>5. 1 .. Len(new) = 1 .. Len(seq) \union {Len(seq) + 1}
  BY <1>1, <1>4
<1>6. \A x \in T : \E k \in 1 .. Len(new) : new[k] = x
  BY <1>4, <1>5 DEF ListsOnce, T
<1>7. \A k, l \in 1 .. Len(new) : new[k] = new[l] => k = l
  BY <1>1, <1>4, <1>5 DEF ListsOnce
<1> QED
  BY <1>4, <1>6, <1>7 DEF ListsOnce, new, T

\* The sequence is as long as a set that the members correspond to one to one is large.
LEMMA ListsLength ==
  ASSUME NEW S, NEW seq, ListsOnce(seq, S), NEW T, NEW f \in [S -> T],
         \A x, y \in S : f[x] = f[y] => x = y, \A t \in T : \E x \in S : f[x] = t
  PROVE  Len(seq) = Cardinality(T)
<1> DEFINE D == 1 .. Len(seq)
           g == [k \in D |-> f[seq[k]]]
<1>1. Len(seq) \in Nat /\ \A k \in D : seq[k] \in S
  BY DEF ListsOnce
<1>2. g \in [D -> T]
  BY <1>1
<1>3. \A k, l \in D : g[k] = g[l] => k = l
  BY <1>1 DEF ListsOnce
<1>4. \A t \in T : \E k \in D : g[k] = t
  BY <1>1 DEF ListsOnce
<1>5. IsFiniteSet(D) /\ Cardinality(D) = Len(seq)
  <2>1. Cardinality(1 .. Len(seq)) = IF 1 > Len(seq) THEN 0 ELSE Len(seq) - 1 + 1
    BY <1>1, FS_Interval
  <2>2. IsFiniteSet(1 .. Len(seq))
    BY <1>1, FS_Interval
  <2> HIDE DEF g
  <2> QED
    BY <1>1, <2>1, <2>2
<1> HIDE DEF g, D
<1>6. g \in Bijection(D, T)
  BY <1>2, <1>3, <1>4 DEF Bijection, Injection, Surjection, IsInjective
<1> QED
  BY <1>5, <1>6, FS_Bijection DEF ExistsBijection

\* The rows that the pass for the edges took so far for a subgraph, and their edges.
Passed == IF phase = "done" THEN Len(file) ELSE position
TakenFor(n, graph) == {i \in 1 .. n : Takes(file[i]) /\ Rows[file[i].MetricFingerprint] = graph}
EdgesFor(n, graph) == {EdgeAt(i) : i \in TakenFor(n, graph)}

EdgesListed(files, n) ==
  \A graph :
    /\ graph \in DOMAIN files <=> TakenFor(n, graph) # {}
    /\ graph \in DOMAIN files => ListsOnce(files[graph], EdgesFor(n, graph))

\* Each row taken is in the file of its subgraph, once.
EdgesInv ==
  /\ phase # "error"
  /\ phase \in {"report", "metrics", "subgraphs"} => DOMAIN edgeFiles = {}
  /\ phase \in {"edges", "done"} => EdgesListed(edgeFiles, Passed)

\* A row that is taken is an edge between two timeseries of one subgraph.
LEMMA TakenRow ==
  ASSUME GroupingsInv, phase \in {"edges", "done"}, NEW i \in 1 .. Len(file), Takes(file[i])
  PROVE  /\ EdgeAt(i) \in BothWays(matches) /\ EdgeAt(i) = <<file[i].MetricFingerprint, file[i].Correlated>>
         /\ file[i].MetricFingerprint \in DOMAIN Rows /\ file[i].Correlated \in DOMAIN Rows
         /\ Rows[file[i].MetricFingerprint] = Rows[file[i].Correlated]
         /\ Rows[file[i].MetricFingerprint] \in Nat /\ Rows[file[i].MetricFingerprint] \in DOMAIN Sizes
         /\ Sizes[Rows[file[i].MetricFingerprint]] >= 2
<1> DEFINE a == file[i].MetricFingerprint
           b == file[i].Correlated
<1>1. IsEdge(file[i]) /\ a < b /\ EdgeAt(i) = <<a, b>>
  BY DEF Takes, EdgeAt
<1>2. <<a, b>> \in BothWays(matches) /\ <<a, b>> \in added
  BY <1>1 DEF GroupingsInv, FileHasMatches, PassesRead
<1>3. a \in DOMAIN Rows /\ b \in DOMAIN Rows /\ Rows[a] = Rows[b]
  BY <1>2 DEF GroupingsInv, GraphsInv, GraphsAreComponents, PairsShareGraph
<1>4. Rows[a] \in Nat /\ Rows[a] \in DOMAIN Sizes /\ Sizes[Rows[a]] = Cardinality(Members(Rows[a]))
  BY <1>3 DEF GroupingsInv, GraphsInv, GraphsTypeOK, SizesExact
<1>5. {a, b} \subseteq Members(Rows[a])
  BY <1>3 DEF Members
<1>6. a # b
  <2>1. a \in Nat /\ b \in Nat
    BY <1>3, FingerprintAssumption DEF GroupingsInv, GraphsInv, GraphsTypeOK
  <2> QED
    BY <1>1, <2>1
<1>7. Cardinality({a, b}) = 2
  <2>1. IsFiniteSet({a}) /\ Cardinality({a}) = 1 /\ b \notin {a}
    BY <1>6, FS_Singleton
  <2>2. Cardinality({a} \union {b}) = 1 + 1
    <3> HIDE DEF a, b
    <3> QED
      BY <2>1, FS_AddElement
  <2>3. {a} \union {b} = {a, b}
    OBVIOUS
  <2> QED
    BY <2>2, <2>3
<1>8. IsFiniteSet(Members(Rows[a])) /\ Cardinality(Members(Rows[a])) \in Nat
  BY MembersFinite DEF GroupingsInv, GraphsInv
<1>9. 2 <= Cardinality(Members(Rows[a]))
  BY <1>5, <1>7, <1>8, FS_Subset
<1> QED
  BY <1>1, <1>2, <1>3, <1>4, <1>8, <1>9

\* A row that is taken goes to the end of the file of its subgraph.
LEMMA EdgesExtract ==
  ASSUME GroupingsInv, EdgesInv, ExtractEdge
  PROVE  EdgesInv'
<1> DEFINE n == position + 1
           graph == Rows[Row.MetricFingerprint]
           edge == <<Row.MetricFingerprint, Row.Correlated>>
           written == IF graph \in DOMAIN edgeFiles THEN edgeFiles[graph] ELSE <<>>
<1>1. /\ phase = "edges" /\ position \in Nat /\ position < Len(file) /\ Len(file) \in Nat
      /\ n \in 1 .. Len(file) /\ position' = n
      /\ file' = file /\ Rows' = Rows /\ Row = file[n] /\ Passed = position
  BY DEF ExtractEdge, MoreRows, GroupingsInv, PassesRead, FileHasMatches, graphVars, Row, Passed
<1>2. 1 .. n = 1 .. position \union {n} /\ n \notin 1 .. position
  BY <1>1
<1>3. EdgesListed(edgeFiles, position)
  BY <1>1 DEF EdgesInv
<1>4. \A m, g : TakenFor(m, g)' = TakenFor(m, g) /\ EdgesFor(m, g)' = EdgesFor(m, g)
  BY <1>1 DEF TakenFor, EdgesFor, EdgeAt
<1>5. CASE Takes(Row)
  <2>1. /\ GetGraphId(Row.MetricFingerprint) = graph /\ graph # -1 /\ Sizes[graph] >= 2
        /\ EdgeAt(n) = edge
    BY <1>1, <1>5, TakenRow DEF GetGraphId
  <2>2. phase' = "edges" /\ edgeFiles' = Put(edgeFiles, {graph}, Append(written, edge))
    BY <1>5, <2>1 DEF ExtractEdge
  <2> HIDE DEF written
  <2>3. /\ DOMAIN edgeFiles' = DOMAIN edgeFiles \union {graph}
        /\ edgeFiles'[graph] = Append(written, edge)
        /\ \A g \in DOMAIN edgeFiles : g # graph => edgeFiles'[g] = edgeFiles[g]
    BY <2>2 DEF Put
  <2>4. /\ TakenFor(n, graph) = TakenFor(position, graph) \union {n}
        /\ \A g : g # graph => TakenFor(n, g) = TakenFor(position, g)
    BY <1>1, <1>2, <1>5 DEF TakenFor
  <2>5. /\ EdgesFor(n, graph) = EdgesFor(position, graph) \union {edge}
        /\ \A g : g # graph => EdgesFor(n, g) = EdgesFor(position, g)
    BY <2>1, <2>4 DEF EdgesFor
  <2>6. edge \notin EdgesFor(position, graph)
    <3>1. ASSUME NEW i \in TakenFor(position, graph), EdgeAt(i) = EdgeAt(n) PROVE FALSE
      <4>1. i \in 1 .. Len(file) /\ i # n /\ IsEdge(file[i]) /\ IsEdge(file[n])
        BY <1>1, <1>5, <3>1 DEF TakenFor, Takes
      <4> QED
        BY <1>1, <3>1, <4>1 DEF GroupingsInv, FileHasMatches
    <3> QED
      BY <2>1, <3>1 DEF EdgesFor
  <2>7. ListsOnce(written, EdgesFor(position, graph))
    <3>1. CASE graph \in DOMAIN edgeFiles
      BY <1>3, <3>1 DEF EdgesListed, written
    <3>2. CASE graph \notin DOMAIN edgeFiles
      <4>1. EdgesFor(position, graph) = {}
        BY <1>3, <3>2 DEF EdgesListed, EdgesFor
      <4> QED
        BY <3>2, <4>1, ListsNothing DEF written
    <3> QED
      BY <3>1, <3>2
  <2>8. ListsOnce(edgeFiles'[graph], EdgesFor(n, graph))
    BY <2>3, <2>5, <2>6, <2>7, ListsOneMore
  <2>9. EdgesListed(edgeFiles', n)
    <3> SUFFICES ASSUME NEW g
                 PROVE  /\ g \in DOMAIN edgeFiles' <=> TakenFor(n, g) # {}
                        /\ g \in DOMAIN edgeFiles' => ListsOnce(edgeFiles'[g], EdgesFor(n, g))
      BY DEF EdgesListed
    <3>1. CASE g = graph
      BY <2>3, <2>4, <2>8, <3>1
    <3>2. CASE g # graph
      BY <1>3, <2>3, <2>4, <2>5, <3>2 DEF EdgesListed
    <3> QED
      BY <3>1, <3>2
  <2> QED
    BY <1>1, <1>4, <2>2, <2>9 DEF EdgesInv, EdgesListed, Passed
<1>6. CASE ~Takes(Row)
  <2>1. phase' = "edges" /\ edgeFiles' = edgeFiles
    BY <1>6 DEF ExtractEdge
  <2>2. \A g : TakenFor(n, g) = TakenFor(position, g) /\ EdgesFor(n, g) = EdgesFor(position, g)
    BY <1>1, <1>2, <1>6 DEF TakenFor, EdgesFor
  <2> QED
    BY <1>1, <1>3, <1>4, <2>1, <2>2 DEF EdgesInv, EdgesListed, Passed
<1> QED
  BY <1>5, <1>6

LEMMA EdgesStep ==
  ASSUME GroupingsInv, EdgesInv, [Next]_vars
  PROVE  EdgesInv'
<1>1. CASE Report \/ EndOfStride \/ ReadMetrics \/ ReadSubgraphs
  BY <1>1 DEF Report, EndOfStride, ReadMetrics, ReadSubgraphs, EdgesInv
<1>2. CASE ExtractEdge
  BY <1>2, EdgesExtract
<1>3. CASE NextPass
  <2>1. /\ ~MoreRows /\ position' = 0 /\ file' = file /\ Rows' = Rows /\ edgeFiles' = edgeFiles
        /\ phase \in {"metrics", "subgraphs", "edges"}
        /\ phase = "metrics" => phase' = "subgraphs"
        /\ phase = "subgraphs" => phase' = "edges"
        /\ phase = "edges" => phase' = "done"
        /\ position = Len(file)
    BY <1>3 DEF NextPass, graphVars, GroupingsInv, PassesRead, FileHasMatches, MoreRows
  <2>2. \A m, g : TakenFor(m, g)' = TakenFor(m, g) /\ EdgesFor(m, g)' = EdgesFor(m, g)
    BY <2>1 DEF TakenFor, EdgesFor, EdgeAt
  <2>3. CASE phase = "metrics"
    BY <2>1, <2>3 DEF EdgesInv
  <2>4. CASE phase = "subgraphs"
    <3>1. \A g : TakenFor(0, g) = {}
      BY DEF TakenFor
    <3> QED
      BY <2>1, <2>2, <2>4, <3>1 DEF EdgesInv, EdgesListed, Passed
  <2>5. CASE phase = "edges"
    BY <2>1, <2>2, <2>5 DEF EdgesInv, EdgesListed, Passed
  <2> QED
    BY <2>1, <2>3, <2>4, <2>5
<1>4. CASE UNCHANGED vars
  <2>1. file' = file /\ Rows' = Rows /\ edgeFiles' = edgeFiles /\ phase' = phase /\ position' = position
    BY <1>4 DEF vars, groupingVars, graphVars
  <2>2. \A m, g : TakenFor(m, g)' = TakenFor(m, g) /\ EdgesFor(m, g)' = EdgesFor(m, g)
    BY <2>1 DEF TakenFor, EdgesFor, EdgeAt
  <2> QED
    BY <2>1, <2>2 DEF EdgesInv, EdgesListed, Passed
<1> QED
  BY <1>1, <1>2, <1>3, <1>4 DEF Next

\* Together, for the steps of the program.
LEMMA EdgesInvariance == Spec => [](GroupingsInv /\ EdgesInv)
<1>1. Init => EdgesInv
  BY DEF Init, EdgesInv
<1> QED
  BY <1>1, GroupingsInvInit, GroupingsInvStep, EdgesStep, PTL DEF Spec

\* A match as it is taken, the lower fingerprint first, and as it was reported.
AsReported(edge) == IF edge \in matches THEN edge ELSE <<edge[2], edge[1]>>

InGraph(graph) == {pair \in matches : pair[1] \in Members(graph) /\ pair[2] \in Members(graph)}

\* An edge taken for a subgraph is a match of two of its members, the lower fingerprint first.
LEMMA EdgeShape ==
  ASSUME GroupingsInv, phase = "done", NEW graph, NEW e \in EdgesFor(Len(file), graph)
  PROVE  /\ e[1] \in Nat /\ e[2] \in Nat /\ e[1] < e[2] /\ e = <<e[1], e[2]>>
         /\ e[1] \in Members(graph) /\ e[2] \in Members(graph)
         /\ e \in matches \/ <<e[2], e[1]>> \in matches
<1>1. PICK i \in 1 .. Len(file) : Takes(file[i]) /\ Rows[file[i].MetricFingerprint] = graph /\ e = EdgeAt(i)
  BY DEF EdgesFor, TakenFor
<1>2. /\ e \in BothWays(matches) /\ e = <<file[i].MetricFingerprint, file[i].Correlated>>
      /\ file[i].MetricFingerprint \in DOMAIN Rows /\ file[i].Correlated \in DOMAIN Rows
      /\ Rows[file[i].Correlated] = graph
  BY <1>1, TakenRow
<1>3. e[1] < e[2] /\ e[1] \in Nat /\ e[2] \in Nat
  <2>1. e[1] = file[i].MetricFingerprint /\ e[2] = file[i].Correlated
    BY <1>2
  <2>2. DOMAIN Rows \subseteq Nat
    BY FingerprintAssumption DEF GroupingsInv, GraphsInv, GraphsTypeOK
  <2> QED
    BY <1>1, <1>2, <2>1, <2>2 DEF Takes
<1>4. e \in matches \/ <<e[2], e[1]>> \in matches
  <2>1. ASSUME NEW p \in matches, e = <<p[2], p[1]>> PROVE <<e[2], e[1]>> = p
    BY <2>1, PairShape DEF GroupingsInv, SetsComponents
  <2> QED
    BY <1>2, <2>1 DEF BothWays
<1> QED
  BY <1>1, <1>2, <1>3, <1>4 DEF Members

\* At the end the edges taken for a subgraph are its matches.
LEMMA EdgesAreMatches ==
  ASSUME GroupingsInv, phase = "done", NEW graph
  PROVE  LET S == EdgesFor(Len(file), graph)
         IN  /\ \A e \in S : AsReported(e) \in InGraph(graph) /\ {e[1], e[2]} = {AsReported(e)[1], AsReported(e)[2]}
             /\ \A x, y \in S : AsReported(x) = AsReported(y) => x = y
             /\ \A t \in InGraph(graph) : \E e \in S : AsReported(e) = t
<1> DEFINE S == EdgesFor(Len(file), graph)
<1>1. ASSUME NEW e \in S
      PROVE  /\ e[1] \in Nat /\ e[2] \in Nat /\ e[1] < e[2] /\ e = <<e[1], e[2]>>
             /\ e[1] \in Members(graph) /\ e[2] \in Members(graph)
             /\ e \in matches \/ <<e[2], e[1]>> \in matches
  BY EdgeShape
<1>2. ASSUME NEW e \in S
      PROVE  AsReported(e) \in InGraph(graph) /\ {e[1], e[2]} = {AsReported(e)[1], AsReported(e)[2]}
  BY <1>1 DEF AsReported, InGraph
<1>3. ASSUME NEW x \in S, NEW y \in S, AsReported(x) = AsReported(y) PROVE x = y
  <2>1. x = <<x[1], x[2]>> /\ y = <<y[1], y[2]>> /\ x[1] < x[2] /\ y[1] < y[2]
    BY <1>1
  <2>2. x[1] \in Nat /\ x[2] \in Nat /\ y[1] \in Nat /\ y[2] \in Nat
    BY <1>1
  <2>3. CASE x \in matches /\ y \in matches
    BY <1>3, <2>3 DEF AsReported
  <2>4. CASE x \notin matches /\ y \notin matches
    <3>1. <<x[2], x[1]>> = <<y[2], y[1]>>
      BY <1>3, <2>4 DEF AsReported
    <3> QED
      BY <2>1, <3>1
  <2>5. CASE x \in matches /\ y \notin matches
    <3>1. <<x[1], x[2]>> = <<y[2], y[1]>>
      BY <1>3, <2>1, <2>5 DEF AsReported
    <3> QED
      BY <2>1, <2>2, <3>1
  <2>6. CASE x \notin matches /\ y \in matches
    <3>1. <<x[2], x[1]>> = <<y[1], y[2]>>
      BY <1>3, <2>1, <2>6 DEF AsReported
    <3> QED
      BY <2>1, <2>2, <3>1
  <2> QED
    BY <2>3, <2>4, <2>5, <2>6
<1>4. ASSUME NEW e, e \in BothWays(matches), e[1] < e[2], e[1] \in Members(graph) PROVE e \in S
  <2>1. PICK i \in 1 .. Len(file) : IsEdge(file[i]) /\ EdgeAt(i) = e
    BY <1>4 DEF GroupingsInv, FileHasMatches
  <2>2. file[i].MetricFingerprint = e[1] /\ file[i].Correlated = e[2]
    BY <2>1 DEF EdgeAt
  <2>3. i \in TakenFor(Len(file), graph)
    BY <1>4, <2>1, <2>2 DEF TakenFor, Takes, Members
  <2> QED
    BY <2>1, <2>3 DEF EdgesFor
<1>5. ASSUME NEW t \in InGraph(graph) PROVE \E e \in S : AsReported(e) = t
  <2>1. /\ t \in matches /\ t = <<t[1], t[2]>> /\ t[1] # t[2] /\ <<t[2], t[1]>> \notin matches
        /\ t[1] \in Members(graph) /\ t[2] \in Members(graph)
    BY PairShape DEF InGraph, GroupingsInv, SetsComponents, FileHasMatches
  <2>2. t[1] \in Nat /\ t[2] \in Nat
    BY <2>1, FingerprintAssumption DEF Members, GroupingsInv, GraphsInv, GraphsTypeOK
  <2>3. CASE t[1] < t[2]
    <3>1. t \in S
      BY <1>4, <2>1, <2>3 DEF BothWays
    <3> QED
      BY <2>1, <3>1 DEF AsReported
  <2>4. CASE t[2] < t[1]
    <3> DEFINE e == <<t[2], t[1]>>
    <3>1. e \in BothWays(matches) /\ e[1] = t[2] /\ e[2] = t[1]
      BY <2>1 DEF BothWays
    <3>2. e \in S
      BY <1>4, <2>1, <2>4, <3>1
    <3>3. AsReported(e) = t
      BY <2>1 DEF AsReported
    <3> QED
      BY <3>2, <3>3
  <2> QED
    BY <2>1, <2>2, <2>3, <2>4
<1> QED
  BY <1>2, <1>3, <1>5

\* What was taken for the subgraphs is in their files at the end.
LEMMA EdgeFilesAtEnd ==
  ASSUME GroupingsInv, EdgesInv
  PROVE  EdgeFilesExact
<1> SUFFICES ASSUME GroupingsInv, EdgesInv, phase = "done"
             PROVE  /\ DOMAIN edgeFiles = DOMAIN Sizes
                    /\ \A graph \in DOMAIN edgeFiles :
                         /\ Len(edgeFiles[graph]) = Cardinality(InGraph(graph))
                         /\ {{edgeFiles[graph][i][1], edgeFiles[graph][i][2]} : i \in 1 .. Len(edgeFiles[graph])}
                              = {{pair[1], pair[2]} : pair \in InGraph(graph)}
  BY DEF EdgeFilesExact, EdgesInv, InGraph
<1>1. EdgesListed(edgeFiles, Len(file))
  BY DEF EdgesInv, Passed
<1>2. ASSUME NEW graph \in DOMAIN edgeFiles PROVE graph \in DOMAIN Sizes
  <2>1. PICK i \in TakenFor(Len(file), graph) : TRUE
    BY <1>1 DEF EdgesListed
  <2> QED
    BY TakenRow DEF TakenFor
<1>3. ASSUME NEW graph \in DOMAIN Sizes PROVE graph \in DOMAIN edgeFiles
  <2>1. PICK row \in DOMAIN Rows : Rows[row] = graph
    BY DEF GroupingsInv, GraphsInv, SizesExact
  <2>2. PICK pair \in added : row = pair[1] \/ row = pair[2]
    BY DEF GroupingsInv, PassesRead
  <2>3. /\ pair \in BothWays(matches)
        /\ pair[1] \in Members(graph) /\ pair[2] \in Members(graph)
    <3>1. /\ pair[1] \in DOMAIN Rows /\ pair[2] \in DOMAIN Rows
          /\ Rows[pair[1]] = Rows[pair[2]]
      BY DEF GroupingsInv, GraphsInv, GraphsAreComponents, PairsShareGraph
    <3> QED
      BY <2>1, <2>2, <3>1 DEF Members, GroupingsInv, PassesRead
  <2>4. \E t \in matches : t = pair \/ pair = <<t[2], t[1]>>
    BY <2>3 DEF BothWays
  <2>5. InGraph(graph) # {}
    BY <2>3, <2>4 DEF InGraph
  <2>6. EdgesFor(Len(file), graph) # {}
    BY <2>5, EdgesAreMatches
  <2> QED
    BY <1>1, <2>6 DEF EdgesListed, EdgesFor
<1>4. ASSUME NEW graph \in DOMAIN edgeFiles
      PROVE  /\ Len(edgeFiles[graph]) = Cardinality(InGraph(graph))
             /\ {{edgeFiles[graph][i][1], edgeFiles[graph][i][2]} : i \in 1 .. Len(edgeFiles[graph])}
                  = {{pair[1], pair[2]} : pair \in InGraph(graph)}
  <2> DEFINE S == EdgesFor(Len(file), graph)
             edges == edgeFiles[graph]
             f == [e \in S |-> AsReported(e)]
  <2>1. ListsOnce(edges, S)
    BY <1>1 DEF EdgesListed
  <2>2. /\ \A e \in S : AsReported(e) \in InGraph(graph) /\ {e[1], e[2]} = {AsReported(e)[1], AsReported(e)[2]}
        /\ \A x, y \in S : AsReported(x) = AsReported(y) => x = y
        /\ \A t \in InGraph(graph) : \E e \in S : AsReported(e) = t
    BY EdgesAreMatches
  <2> HIDE DEF S, edges
  <2>3. /\ f \in [S -> InGraph(graph)]
        /\ \A x, y \in S : f[x] = f[y] => x = y
        /\ \A t \in InGraph(graph) : \E e \in S : f[e] = t
    BY <2>2
  <2> HIDE DEF f
  <2>4. Len(edges) = Cardinality(InGraph(graph))
    BY <2>1, <2>3, ListsLength
  <2>5. \A i \in 1 .. Len(edges) : edges[i] \in S
    BY <2>1 DEF ListsOnce
  <2>6. ASSUME NEW i \in 1 .. Len(edges)
        PROVE  \E pair \in InGraph(graph) : {edges[i][1], edges[i][2]} = {pair[1], pair[2]}
    BY <2>2, <2>5
  <2>7. ASSUME NEW pair \in InGraph(graph)
        PROVE  \E i \in 1 .. Len(edges) : {edges[i][1], edges[i][2]} = {pair[1], pair[2]}
    <3>1. PICK e \in S : AsReported(e) = pair
      BY <2>2
    <3>2. PICK i \in 1 .. Len(edges) : edges[i] = e
      BY <2>1 DEF ListsOnce
    <3> QED
      BY <2>2, <3>1, <3>2
  <2>8. {{edges[i][1], edges[i][2]} : i \in 1 .. Len(edges)} = {{pair[1], pair[2]} : pair \in InGraph(graph)}
    <3> DEFINE Left == {{edges[i][1], edges[i][2]} : i \in 1 .. Len(edges)}
               Right == {{pair[1], pair[2]} : pair \in InGraph(graph)}
    <3>1. ASSUME NEW e \in Left PROVE e \in Right
      <4>1. PICK i \in 1 .. Len(edges) : e = {edges[i][1], edges[i][2]}
        OBVIOUS
      <4> QED
        BY <2>6, <4>1
    <3>2. ASSUME NEW e \in Right PROVE e \in Left
      <4>1. PICK pair \in InGraph(graph) : e = {pair[1], pair[2]}
        OBVIOUS
      <4> QED
        BY <2>7, <4>1
    <3> HIDE DEF Left, Right
    <3>3. Left = Right
      BY <3>1, <3>2
    <3> QED
      BY <3>3 DEF Left, Right
  <2> QED
    BY <2>4, <2>8 DEF edges
<1> QED
  BY <1>2, <1>3, <1>4

\* Each match is in the file of the subgraph of both its rows, once, and nothing else is; no
\* row is without a subgraph (extractEdges in data_processor.go, GetEdges).
THEOREM EdgeFilesAreExact == Spec => []EdgeFilesExact
  BY EdgeFilesAtEnd, EdgesInvariance, PTL

-----------------------------------------------------------------------------
(* The metrics *)

AboutIn(n, f) == \E i \in 1 .. n : file[i].MetricFingerprint = f /\ file[i].Correlated = f
ConstantIn(n, f) == \E i \in 1 .. n : file[i].MetricFingerprint = f /\ file[i].Constant

MetricsRead(n) ==
  /\ \A f \in Fingerprint : f \in DOMAIN metrics <=> AboutIn(n, f)
  /\ DOMAIN metrics \subseteq Fingerprint
  /\ \A f \in DOMAIN metrics : metrics[f] \in BOOLEAN /\ (metrics[f] <=> ConstantIn(n, f))

\* Every timeseries has a row about it once the stride has ended, and the metrics are what the
\* rows read so far say.
MetricsInv ==
  /\ phase = "report" => DOMAIN metrics = {}
  /\ phase = "metrics" => MetricsRead(position)
  /\ phase \in {"subgraphs", "edges", "done"} => MetricsRead(Len(file))
  /\ phase # "report" => \A f \in Fingerprint : AboutIn(Len(file), f)

\* A row of the file is about a match or about one timeseries.
LEMMA RowFields ==
  ASSUME NEW row \in FileRow
  PROVE  /\ row.MetricFingerprint \in Fingerprint /\ row.Correlated \in Fingerprint /\ row.Constant \in BOOLEAN
         /\ row.Constant => row.MetricFingerprint = row.Correlated
<1>1. CASE \E a, b \in Fingerprint : row = Match(a, b)
  <2>1. PICK a \in Fingerprint, b \in Fingerprint : row = Match(a, b)
    BY <1>1
  <2> QED
    BY <2>1 DEF Match
<1>2. CASE \E a \in Fingerprint, constant \in BOOLEAN : row = About(a, constant)
  <2>1. PICK a \in Fingerprint, constant \in BOOLEAN : row = About(a, constant)
    BY <1>2
  <2> QED
    BY <2>1 DEF About
<1> QED
  BY <1>1, <1>2 DEF FileRow

\* SetToSeq lists all of the set.
LEMMA SetToSeqCovers ==
  ASSUME NEW S, IsFiniteSet(S)
  PROVE  \A x \in S : \E i \in 1 .. Len(SetToSeq(S)) : SetToSeq(S)[i] = x
<1> DEFINE n == Cardinality(S)
           seq == SetToSeq(S)
<1>1. n \in Nat /\ ExistsBijection(1 .. n, S)
  BY FS_CardinalityType
<1>2. PICK f \in [1 .. n -> S] : IsInjective(f)
  BY <1>1 DEF ExistsBijection, Bijection, Injection
<1>3. seq \in [1 .. n -> S] /\ IsInjective(seq)
  BY <1>2 DEF SetToSeq
<1> HIDE DEF seq
<1>4. seq \in Injection(1 .. n, S)
  BY <1>3 DEF Injection
<1>5. IsFiniteSet(1 .. n) /\ Cardinality(1 .. n) = n
  BY <1>1, FS_Interval
<1>6. seq \in Surjection(1 .. n, S)
  BY <1>4, <1>5, FS_Injection
<1>7. Len(seq) = n
  BY <1>1, <1>3
<1> QED
  BY <1>6, <1>7 DEF Surjection, seq

\* A row about a timeseries among those that are added is about it in the file.
LEMMA RowsFollow ==
  ASSUME file \in Seq(FileRow), NEW rows \in Seq(FileRow), file' = file \o rows, NEW f,
         NEW i \in 1 .. Len(rows), rows[i].MetricFingerprint = f, rows[i].Correlated = f
  PROVE  AboutIn(Len(file), f)'
<1>1. Len(file) + i \in 1 .. Len(file') /\ file'[Len(file) + i] = rows[i]
  OBVIOUS
<1> QED
  BY <1>1 DEF AboutIn

\* A row read adds what it says.
LEMMA OneMoreRow ==
  ASSUME NEW n \in Nat, NEW f
  PROVE  /\ AboutIn(n + 1, f) <=> AboutIn(n, f) \/ (file[n + 1].MetricFingerprint = f /\ file[n + 1].Correlated = f)
         /\ ConstantIn(n + 1, f) <=> ConstantIn(n, f) \/ (file[n + 1].MetricFingerprint = f /\ file[n + 1].Constant)
<1>1. 1 .. n + 1 = 1 .. n \union {n + 1}
  OBVIOUS
<1> QED
  BY <1>1 DEF AboutIn, ConstantIn

\* The rows that end a stride are about all timeseries.
LEMMA EndRows ==
  ASSUME NEW constants \in SUBSET Fingerprint
  PROVE  LET rows == SetToSeq({About(f, FALSE) : f \in Fingerprint}) \o SetToSeq({About(f, TRUE) : f \in constants})
         IN  /\ rows \in Seq(FileRow)
             /\ \A f \in Fingerprint : \E i \in 1 .. Len(rows) : rows[i].MetricFingerprint = f /\ rows[i].Correlated = f
<1> DEFINE N == {About(f, FALSE) : f \in Fingerprint}
           C == {About(f, TRUE) : f \in constants}
           names == SetToSeq(N)
           flat == SetToSeq(C)
<1>1. IsFiniteSet(N) /\ IsFiniteSet(C)
  BY AboutFinite
<1>2. N \subseteq FileRow
  BY RowKinds
<1>3. C \subseteq FileRow
  BY RowKinds
<1>4. ASSUME NEW f \in Fingerprint
      PROVE  \E row \in N : row.MetricFingerprint = f /\ row.Correlated = f
  <2>1. About(f, FALSE) \in N
    OBVIOUS
  <2>2. About(f, FALSE).MetricFingerprint = f /\ About(f, FALSE).Correlated = f
    BY DEF About
  <2> QED
    BY <2>1, <2>2
<1>5. /\ names \in Seq(N) /\ flat \in Seq(C)
      /\ \A x \in N : \E i \in 1 .. Len(names) : names[i] = x
  BY <1>1, SetToSeqFacts, SetToSeqCovers
<1> HIDE DEF names, flat, N, C
<1> DEFINE rows == names \o flat
<1>6. /\ names \in Seq(FileRow) /\ flat \in Seq(FileRow) /\ Len(names) \in Nat /\ Len(flat) \in Nat
      /\ \A i \in 1 .. Len(names) : names[i] \in N
      /\ \A i \in 1 .. Len(flat) : flat[i] \in C
  BY <1>2, <1>3, <1>5
<1>7. /\ rows \in Seq(FileRow) /\ Len(rows) = Len(names) + Len(flat)
      /\ \A i \in 1 .. Len(names) : rows[i] = names[i]
      /\ \A i \in 1 .. Len(flat) : rows[Len(names) + i] = flat[i]
  BY <1>6
<1> HIDE DEF rows
<1>8. ASSUME NEW f \in Fingerprint
      PROVE  \E i \in 1 .. Len(rows) : rows[i].MetricFingerprint = f /\ rows[i].Correlated = f
  <2>1. PICK i \in 1 .. Len(names) : names[i].MetricFingerprint = f /\ names[i].Correlated = f
    BY <1>4, <1>5
  <2>2. i \in 1 .. Len(rows) /\ rows[i] = names[i]
    BY <1>6, <1>7
  <2> QED
    BY <2>1, <2>2
<1> QED
  BY <1>7, <1>8 DEF rows, names, flat, N, C

LEMMA MetricsEndOfStride ==
  ASSUME GroupingsInv, MetricsInv, EndOfStride
  PROVE  MetricsInv'
<1>1. PICK constants \in SUBSET Fingerprint :
        file' = file \o SetToSeq({About(f, FALSE) : f \in Fingerprint})
                     \o SetToSeq({About(f, TRUE) : f \in constants})
  BY DEF EndOfStride
<1>2. /\ phase = "report" /\ phase' = "metrics" /\ matches' = matches /\ metrics' = metrics
      /\ position' = 0 /\ file \in Seq(FileRow)
  BY DEF EndOfStride, GroupingsInv, PassesRead, FileHasMatches
<1>3. PICK rows \in Seq(FileRow) :
        /\ file' = file \o rows
        /\ \A f \in Fingerprint : \E i \in 1 .. Len(rows) : rows[i].MetricFingerprint = f /\ rows[i].Correlated = f
  <2> DEFINE names == SetToSeq({About(f, FALSE) : f \in Fingerprint})
             flat == SetToSeq({About(f, TRUE) : f \in constants})
  <2>1. names \in Seq(FileRow) /\ flat \in Seq(FileRow)
    <3> DEFINE N == {About(f, FALSE) : f \in Fingerprint}
               C == {About(f, TRUE) : f \in constants}
    <3>1. N \subseteq FileRow /\ C \subseteq FileRow
      BY RowKinds
    <3>2. names \in Seq(N) /\ flat \in Seq(C)
      BY AboutFinite, SetToSeqFacts
    <3> HIDE DEF N, C, names, flat
    <3> QED
      BY <3>1, <3>2
  <2>2. file' = (file \o names) \o flat
    BY <1>1
  <2>3. names \o flat \in Seq(FileRow)
    BY EndRows
  <2>4. \A f \in Fingerprint : \E i \in 1 .. Len(names \o flat) :
          (names \o flat)[i].MetricFingerprint = f /\ (names \o flat)[i].Correlated = f
    BY EndRows
  <2> HIDE DEF names, flat
  <2>5. file' = file \o (names \o flat)
    BY <1>2, <2>1, <2>2
  <2> QED
    BY <2>3, <2>4, <2>5
<1>4. ASSUME NEW f \in Fingerprint PROVE AboutIn(Len(file), f)'
  BY <1>2, <1>3, RowsFollow
<1>5. MetricsRead(position)'
  <2>1. \A f : ~AboutIn(position, f)' /\ ~ConstantIn(position, f)'
    BY <1>2 DEF AboutIn, ConstantIn
  <2>2. DOMAIN metrics' = {}
    BY <1>2 DEF MetricsInv
  <2> QED
    BY <2>1, <2>2 DEF MetricsRead
<1> QED
  BY <1>2, <1>4, <1>5 DEF MetricsInv

LEMMA MetricsRowRead ==
  ASSUME GroupingsInv, MetricsInv, ReadMetrics
  PROVE  MetricsInv'
<1>1. PICK n \in Nat, row \in FileRow :
        /\ n = position /\ position' = n + 1 /\ n + 1 \in 1 .. Len(file) /\ row = file[n + 1] /\ MetricsOf(row)
  BY DEF ReadMetrics, MoreRows, Row, GroupingsInv, PassesRead, FileHasMatches
<1>2. phase = "metrics" /\ phase' = "metrics" /\ file' = file /\ matches' = matches
  BY DEF ReadMetrics
<1>3. /\ row.MetricFingerprint \in Fingerprint /\ row.Correlated \in Fingerprint /\ row.Constant \in BOOLEAN
      /\ row.Constant => row.MetricFingerprint = row.Correlated
  BY RowFields
<1>4. /\ \A f \in Fingerprint : f \in DOMAIN metrics <=> AboutIn(n, f)
      /\ DOMAIN metrics \subseteq Fingerprint
      /\ \A f \in DOMAIN metrics : metrics[f] \in BOOLEAN /\ (metrics[f] <=> ConstantIn(n, f))
  BY <1>1, <1>2 DEF MetricsInv, MetricsRead
<1>5. \A k, f : AboutIn(k, f)' = AboutIn(k, f) /\ ConstantIn(k, f)' = ConstantIn(k, f)
  BY <1>2 DEF AboutIn, ConstantIn
<1>6. PICK a \in Fingerprint : a = row.MetricFingerprint
  BY <1>3
<1>7. \A f : /\ AboutIn(n + 1, f) <=> AboutIn(n, f) \/ (a = f /\ row.Correlated = f)
             /\ ConstantIn(n + 1, f) <=> ConstantIn(n, f) \/ (a = f /\ row.Constant)
  BY <1>1, <1>6, OneMoreRow
<1>8. /\ \A f \in Fingerprint : f \in DOMAIN metrics' <=> AboutIn(n + 1, f)
      /\ DOMAIN metrics' \subseteq Fingerprint
      /\ \A f \in DOMAIN metrics' : metrics'[f] \in BOOLEAN /\ (metrics'[f] <=> ConstantIn(n + 1, f))
  <2>1. CASE row.Constant
    <3>1. metrics' = Put(metrics, {a}, TRUE)
      BY <1>1, <1>6, <2>1 DEF MetricsOf
    <3>2. /\ DOMAIN metrics' = DOMAIN metrics \union {a} /\ metrics'[a] = TRUE
          /\ \A f \in DOMAIN metrics : f # a => metrics'[f] = metrics[f]
      BY <3>1 DEF Put
    <3> QED
      BY <1>3, <1>4, <1>6, <1>7, <2>1, <3>2
  <2>2. CASE ~row.Constant /\ a = row.Correlated
    <3>1. metrics' = Put(metrics, {a} \ DOMAIN metrics, FALSE)
      BY <1>1, <1>6, <2>2 DEF MetricsOf
    <3>2. /\ DOMAIN metrics' = DOMAIN metrics \union {a}
          /\ a \notin DOMAIN metrics => metrics'[a] = FALSE
          /\ \A f \in DOMAIN metrics : metrics'[f] = metrics[f]
      BY <3>1 DEF Put
    <3>3. a \notin DOMAIN metrics => ~ConstantIn(n, a)
      <4>1. ASSUME NEW i \in 1 .. n, file[i].MetricFingerprint = a, file[i].Constant
            PROVE  AboutIn(n, a)
        <5>1. file[i] \in FileRow
          BY <1>1 DEF GroupingsInv, FileHasMatches
        <5> QED
          BY <4>1, <5>1, RowFields DEF AboutIn
      <4> QED
        BY <1>4, <4>1 DEF ConstantIn
    <3> QED
      BY <1>3, <1>4, <1>6, <1>7, <2>2, <3>2, <3>3
  <2>3. CASE ~row.Constant /\ a # row.Correlated
    <3>1. metrics' = metrics
      BY <1>1, <1>6, <2>3 DEF MetricsOf
    <3> QED
      BY <1>4, <1>7, <2>3, <3>1
  <2> QED
    BY <1>3, <2>1, <2>2, <2>3
<1>9. MetricsRead(position)'
  BY <1>1, <1>5, <1>8 DEF MetricsRead
<1>10. \A f \in Fingerprint : AboutIn(Len(file), f)'
  BY <1>2, <1>5 DEF MetricsInv
<1> QED
  BY <1>2, <1>9, <1>10 DEF MetricsInv

LEMMA MetricsStep ==
  ASSUME GroupingsInv, MetricsInv, [Next]_vars
  PROVE  MetricsInv'
<1>1. CASE Report
  BY <1>1 DEF Report, MetricsInv
<1>2. CASE EndOfStride
  BY <1>2, MetricsEndOfStride
<1>3. CASE ReadMetrics
  BY <1>3, MetricsRowRead
<1>4. CASE ReadSubgraphs \/ ExtractEdge \/ UNCHANGED vars
  <2>1. /\ file' = file /\ metrics' = metrics
        /\ (phase' = phase /\ position' = position) \/ (phase # "metrics" /\ phase # "report" /\ phase' \in {"subgraphs", "edges", "error"})
        /\ phase \in {"subgraphs", "edges"} \/ phase' = phase
    BY <1>4 DEF ReadSubgraphs, ExtractEdge, vars, groupingVars
  <2>2. \A k, f : AboutIn(k, f)' = AboutIn(k, f) /\ ConstantIn(k, f)' = ConstantIn(k, f)
    BY <2>1 DEF AboutIn, ConstantIn
  <2>3. \A k : MetricsRead(k)' = MetricsRead(k)
    BY <2>1, <2>2 DEF MetricsRead
  <2> QED
    BY <2>1, <2>2, <2>3 DEF MetricsInv
<1>5. CASE NextPass
  <2>1. /\ ~MoreRows /\ file' = file /\ metrics' = metrics
        /\ phase \in {"metrics", "subgraphs", "edges"} /\ phase' \in {"subgraphs", "edges", "done"}
        /\ phase = "metrics" => position = Len(file)
    BY <1>5 DEF NextPass, MoreRows, GroupingsInv, PassesRead, FileHasMatches
  <2>2. \A k, f : AboutIn(k, f)' = AboutIn(k, f) /\ ConstantIn(k, f)' = ConstantIn(k, f)
    BY <2>1 DEF AboutIn, ConstantIn
  <2>3. \A k : MetricsRead(k)' = MetricsRead(k)
    BY <2>1, <2>2 DEF MetricsRead
  <2> QED
    BY <2>1, <2>2, <2>3 DEF MetricsInv
<1> QED
  BY <1>1, <1>2, <1>3, <1>4, <1>5 DEF Next

LEMMA MetricsInvInit ==
  ASSUME Init
  PROVE  MetricsInv
<1>1. phase = "report" /\ DOMAIN metrics = {}
  BY DEF Init
<1> QED
  BY <1>1 DEF MetricsInv

-----------------------------------------------------------------------------
(* A subgraph is held together by edges: it has at most one timeseries more *)

Ends(pair) == {pair[1], pair[2]}
Joined(graph) == {Ends(pair) : pair \in {p \in added : p[1] \in Members(graph)}}
TreeBound == \A graph \in DOMAIN Sizes : Cardinality(Members(graph)) <= Cardinality(Joined(graph)) + 1

LEMMA EndsFinite ==
  ASSUME NEW S \in SUBSET SUBSET Fingerprint
  PROVE  IsFiniteSet(S) /\ Cardinality(S) \in Nat
BY FingerprintAssumption, FS_SUBSET, FS_Subset, FS_CardinalityType

\* What is joined in a subgraph are two of its members.
LEMMA JoinedMembers ==
  ASSUME GraphsInv, NEW graph, NEW join \in Joined(graph)
  PROVE  join # {} /\ join \subseteq Members(graph) /\ join \subseteq Fingerprint
<1>1. PICK pair \in added : pair[1] \in Members(graph) /\ join = {pair[1], pair[2]}
  BY DEF Joined, Ends
<1>2. pair[1] \in DOMAIN Rows /\ pair[2] \in DOMAIN Rows /\ Rows[pair[1]] = Rows[pair[2]]
  BY DEF GraphsInv, GraphsAreComponents, PairsShareGraph
<1>3. DOMAIN Rows \subseteq Fingerprint
  BY DEF GraphsInv, GraphsTypeOK
<1> QED
  BY <1>1, <1>2, <1>3 DEF Members

LEMMA JoinedFinite ==
  ASSUME GraphsInv, NEW graph
  PROVE  IsFiniteSet(Joined(graph)) /\ Cardinality(Joined(graph)) \in Nat
<1>1. Joined(graph) \in SUBSET SUBSET Fingerprint
  BY JoinedMembers
<1> QED
  BY <1>1, EndsFinite

\* A subgraph that keeps its members keeps what joins them; a pair that is added joins its
\* own subgraph.
LEMMA JoinedGrows ==
  ASSUME GraphsInv, GraphsInv', NEW a, NEW b, addPair(a, b), NEW graph, NEW old,
         \A row \in Members(old) : row \in Members(graph)'
  PROVE  /\ Joined(old) \subseteq Joined(graph)'
         /\ a \in Members(graph)' => {a, b} \in Joined(graph)'
         /\ IsFiniteSet(Joined(graph)') /\ Cardinality(Joined(graph)') \in Nat
<1>1. added' = added \union {<<a, b>>}
  BY AddPairRows
<1>2. Joined(graph)' = {Ends(pair) : pair \in {p \in added' : p[1] \in Members(graph)'}}
  BY DEF Joined, Ends
<1>3. Joined(old) \subseteq Joined(graph)'
  BY <1>1, <1>2 DEF Joined
<1>4. a \in Members(graph)' => {a, b} \in Joined(graph)'
  <2>1. <<a, b>> \in added' /\ <<a, b>>[1] = a /\ Ends(<<a, b>>) = {a, b}
    BY <1>1 DEF Ends
  <2> QED
    BY <1>2, <2>1
<1>5. Joined(graph)' \in SUBSET SUBSET Fingerprint
  <2> SUFFICES ASSUME NEW pair \in added', pair[1] \in Members(graph)'
               PROVE  Ends(pair) \subseteq Fingerprint
    BY <1>2
  <2>1. pair[1] \in Fingerprint /\ pair[2] \in Fingerprint
    BY DEF GraphsInv, GraphsTypeOK
  <2> QED
    BY <2>1 DEF Ends
<1>6. IsFiniteSet(Joined(graph)') /\ Cardinality(Joined(graph)') \in Nat
  BY <1>5, EndsFinite
<1> QED
  BY <1>3, <1>4, <1>6

\* No edge joins a subgraph to a timeseries outside of it.
LEMMA JoinIsNew ==
  ASSUME GraphsInv, NEW graph, NEW a, NEW b, a \notin Members(graph) \/ b \notin Members(graph)
  PROVE  {a, b} \notin Joined(graph)
BY JoinedMembers

LEMMA TreeBoundKept ==
  ASSUME GraphsInv, TreeBound, NEW graph \in DOMAIN Sizes, Members(graph)' = Members(graph),
         GraphsInv', NEW a, NEW b, addPair(a, b)
  PROVE  (Cardinality(Members(graph)) <= Cardinality(Joined(graph)) + 1)'
<1>1. /\ Joined(graph) \subseteq Joined(graph)'
      /\ IsFiniteSet(Joined(graph)') /\ Cardinality(Joined(graph)') \in Nat
  BY JoinedGrows
<1>2. Cardinality(Joined(graph)) <= Cardinality(Joined(graph)')
  BY <1>1, FS_Subset
<1> QED
  BY <1>1, <1>2, JoinedFinite, MembersFinite DEF TreeBound, GraphsInv

LEMMA TreeNewGraph ==
  ASSUME GraphsInv, GraphsInv', TreeBound, NEW a, NEW b, a # b, addPair(a, b), NewGraph(a, b)
  PROVE  TreeBound'
<1>1. /\ \A row : row \in DOMAIN Rows' <=> row \in DOMAIN Rows \/ row = a \/ row = b
      /\ Rows'[a] = nextSubgraphId /\ Rows'[b] = nextSubgraphId
      /\ \A row \in DOMAIN Rows : Rows'[row] = Rows[row] /\ row \notin {a, b}
  BY DEF NewGraph, Put
<1>2. /\ nextSubgraphId \notin DOMAIN Sizes
      /\ \A row \in DOMAIN Rows : Rows[row] # nextSubgraphId
      /\ DOMAIN Sizes' = DOMAIN Sizes \union {nextSubgraphId}
  BY DEF GraphsInv, GraphsTypeOK, NewGraph, Put
<1> SUFFICES ASSUME NEW graph \in DOMAIN Sizes'
             PROVE  (Cardinality(Members(graph)) <= Cardinality(Joined(graph)) + 1)'
  BY DEF TreeBound
<1>3. CASE graph \in DOMAIN Sizes
  <2>1. Members(graph)' = Members(graph)
    BY <1>1, <1>2, <1>3 DEF Members
  <2> QED
    BY <1>3, <2>1, TreeBoundKept
<1>4. CASE graph = nextSubgraphId
  <2>1. Members(graph)' = {a, b} /\ Members(graph) = {}
    BY <1>1, <1>2, <1>4 DEF Members
  <2>2. {a, b} \in Joined(graph)' /\ IsFiniteSet(Joined(graph)') /\ Cardinality(Joined(graph)') \in Nat
    BY <2>1, JoinedGrows
  <2>3. Cardinality(Joined(graph)') # 0
    BY <2>2, FS_EmptySet
  <2>4. Cardinality({a, b}) = 2
    <3>1. IsFiniteSet({a}) /\ Cardinality({a}) = 1
      BY FS_Singleton
    <3>2. Cardinality({a} \union {b}) = Cardinality({a}) + 1
      BY <3>1, FS_AddElement, b \notin {a}
    <3>3. {a} \union {b} = {a, b}
      OBVIOUS
    <3> QED
      BY <3>1, <3>2, <3>3
  <2>5. PICK n \in Nat : n = Cardinality(Joined(graph)')
    BY <2>2
  <2>6. n >= 1
    BY <2>3, <2>5
  <2>7. 2 <= n + 1
    BY <2>6
  <2> QED
    BY <2>1, <2>4, <2>5, <2>7
<1> QED
  BY <1>2, <1>3, <1>4

LEMMA TreeJoinGraph ==
  ASSUME GraphsInv, GraphsInv', TreeBound, NEW a, NEW b, addPair(a, b),
         NEW known, NEW new, {known, new} = {a, b}, JoinGraph(known, new)
  PROVE  TreeBound'
<1>1. /\ \A row : row \in DOMAIN Rows' <=> row \in DOMAIN Rows \/ row = new
      /\ Rows'[new] = Rows[known] /\ known \in DOMAIN Rows /\ new \notin DOMAIN Rows
      /\ \A row \in DOMAIN Rows : Rows'[row] = Rows[row]
  BY DEF JoinGraph, Put
<1>2. DOMAIN Sizes' = DOMAIN Sizes
  BY DEF JoinGraph
<1> SUFFICES ASSUME NEW graph \in DOMAIN Sizes
             PROVE  (Cardinality(Members(graph)) <= Cardinality(Joined(graph)) + 1)'
  BY <1>2 DEF TreeBound
<1>3. CASE graph # Rows[known]
  <2>1. Members(graph)' = Members(graph)
    BY <1>1, <1>3 DEF Members
  <2> QED
    BY <2>1, TreeBoundKept
<1>4. CASE graph = Rows[known]
  <2>1. Members(graph)' = Members(graph) \union {new} /\ new \notin Members(graph) /\ known \in Members(graph)
    BY <1>1, <1>4 DEF Members
  <2>2. a \in Members(graph)' /\ (a = new \/ b = new)
    BY <2>1
  <2>3. /\ Joined(graph) \subseteq Joined(graph)' /\ {a, b} \in Joined(graph)'
        /\ IsFiniteSet(Joined(graph)') /\ Cardinality(Joined(graph)') \in Nat
    BY <2>1, <2>2, JoinedGrows
  <2>4. {a, b} \notin Joined(graph)
    BY <2>1, <2>2, JoinIsNew
  <2>5. PICK m \in Nat, k \in Nat : m = Cardinality(Members(graph)) /\ k = Cardinality(Joined(graph))
    BY JoinedFinite, MembersFinite DEF GraphsInv
  <2>6. m <= k + 1
    BY <2>5 DEF TreeBound
  <2>7. Cardinality(Members(graph)') = m + 1
    BY <2>1, <2>5, MembersFinite, FS_AddElement DEF GraphsInv
  <2>8. Cardinality(Joined(graph) \union {{a, b}}) = k + 1
    BY <2>4, <2>5, JoinedFinite, FS_AddElement
  <2>9. Cardinality(Joined(graph) \union {{a, b}}) <= Cardinality(Joined(graph)')
    BY <2>3, FS_Subset
  <2>10. PICK n \in Nat : n = Cardinality(Joined(graph)')
    BY <2>3
  <2>11. m + 1 <= n + 1
    BY <2>6, <2>8, <2>9, <2>10
  <2> QED
    BY <2>7, <2>10, <2>11
<1> QED
  BY <1>3, <1>4

LEMMA TreeMergeGraphs ==
  ASSUME GraphsInv, GraphsInv', TreeBound, NEW a, NEW b, addPair(a, b),
         NEW to, NEW from, {to, from} = {a, b}, MergeGraphs(to, from)
  PROVE  TreeBound'
<1>1. PICK low, high : low = Rows[to] /\ high = Rows[from]
  OBVIOUS
<1>2. /\ to \in DOMAIN Rows /\ from \in DOMAIN Rows
      /\ low \in DOMAIN Sizes /\ high \in DOMAIN Sizes
      /\ low # high
  BY <1>1 DEF MergeGraphs, GraphsInv, GraphsTypeOK, SizesExact
<1>3. /\ DOMAIN Rows' = DOMAIN Rows
      /\ \A row \in DOMAIN Rows : Rows'[row] = IF Rows[row] = high THEN low ELSE Rows[row]
  BY <1>1 DEF MergeGraphs, Put, Members
<1>4. DOMAIN Sizes' = DOMAIN Sizes \ {high}
  BY <1>1 DEF MergeGraphs
<1> SUFFICES ASSUME NEW graph \in DOMAIN Sizes, graph # high
             PROVE  (Cardinality(Members(graph)) <= Cardinality(Joined(graph)) + 1)'
  BY <1>4 DEF TreeBound
<1>5. CASE graph # low
  <2>1. Members(graph)' = Members(graph)
    BY <1>3, <1>5 DEF Members
  <2> QED
    BY <2>1, TreeBoundKept
<1>6. CASE graph = low
  <2>1. /\ Members(low)' = Members(low) \union Members(high)
        /\ Members(low) \intersect Members(high) = {}
        /\ to \in Members(low) /\ from \in Members(high)
    BY <1>1, <1>2, <1>3 DEF Members
  <2>2. /\ Joined(low) \subseteq Joined(low)' /\ Joined(high) \subseteq Joined(low)' /\ {a, b} \in Joined(low)'
        /\ IsFiniteSet(Joined(low)') /\ Cardinality(Joined(low)') \in Nat
    <3>1. a \in Members(low)'
      BY <2>1
    <3> QED
      BY <2>1, <3>1, JoinedGrows
  <2>3. {a, b} \notin Joined(low) /\ {a, b} \notin Joined(high)
    <3>1. from \notin Members(low) /\ to \notin Members(high)
      BY <2>1
    <3>2. {to, from} \notin Joined(low) /\ {to, from} \notin Joined(high)
      BY <3>1, JoinIsNew
    <3> QED
      BY <3>2
  <2>4. Joined(low) \intersect Joined(high) = {}
    <3> SUFFICES ASSUME NEW join \in Joined(low), join \in Joined(high) PROVE FALSE
      OBVIOUS
    <3>1. join # {} /\ join \subseteq Members(low) /\ join \subseteq Members(high)
      BY JoinedMembers
    <3> QED
      BY <2>1, <3>1
  <2>5. PICK m \in Nat, k \in Nat : m = Cardinality(Members(low)) /\ k = Cardinality(Joined(low))
    BY JoinedFinite, MembersFinite DEF GraphsInv
  <2>6. PICK p \in Nat, q \in Nat : p = Cardinality(Members(high)) /\ q = Cardinality(Joined(high))
    BY JoinedFinite, MembersFinite DEF GraphsInv
  <2>7. m <= k + 1 /\ p <= q + 1
    BY <1>2, <2>5, <2>6 DEF TreeBound
  <2>8. Cardinality(Members(low)') = m + p
    <3>1. Cardinality(Members(low) \union Members(high)) = m + p - Cardinality({})
      BY <2>1, <2>5, <2>6, MembersFinite, FS_Union DEF GraphsInv
    <3> QED
      BY <2>1, <3>1, FS_EmptySet
  <2> DEFINE J == Joined(low) \union Joined(high)
  <2>9. IsFiniteSet(J) /\ Cardinality(J) = k + q
    <3>1. IsFiniteSet(J) /\ Cardinality(J) = k + q - Cardinality({})
      BY <2>4, <2>5, <2>6, JoinedFinite, FS_Union
    <3> QED
      BY <3>1, FS_EmptySet
  <2>10. Cardinality(J \union {{a, b}}) = k + q + 1
    BY <2>3, <2>9, FS_AddElement
  <2>11. Cardinality(J \union {{a, b}}) <= Cardinality(Joined(low)')
    BY <2>2, FS_Subset
  <2>12. PICK n \in Nat : n = Cardinality(Joined(low)')
    BY <2>2
  <2>13. m + p <= n + 1
    BY <2>7, <2>10, <2>11, <2>12
  <2> QED
    BY <1>6, <2>8, <2>12, <2>13
<1> QED
  BY <1>5, <1>6

LEMMA TreeBoundStep ==
  ASSUME GraphsInv, GraphsInv', TreeBound, [GraphsNext]_graphVars
  PROVE  TreeBound'
<1>1. CASE UNCHANGED graphVars
  BY <1>1 DEF graphVars, TreeBound, Members, Joined, Ends
<1>2. ASSUME NEW row \in FileRow, IsEdge(row), addPair(row.MetricFingerprint, row.Correlated)
      PROVE  TreeBound'
  <2>1. PICK a, b : a = row.MetricFingerprint /\ b = row.Correlated
    OBVIOUS
  <2>2. a # b /\ addPair(a, b)
    <3>1. row.Positive
      BY <1>2 DEF IsEdge
    <3>2. \A x \in Fingerprint, constant \in BOOLEAN : row # About(x, constant)
      BY <3>1 DEF About
    <3>3. row.MetricFingerprint # row.Correlated
      BY <3>2 DEF FileRow
    <3> QED
      BY <1>2, <2>1, <3>3
  <2>3. CASE SameGraph(a, b)
    <3>1. /\ Rows' = Rows /\ Sizes' = Sizes
      BY <2>3 DEF SameGraph
    <3>2. \A graph : Members(graph)' = Members(graph)
      BY <3>1 DEF Members
    <3> SUFFICES ASSUME NEW graph \in DOMAIN Sizes
                 PROVE  (Cardinality(Members(graph)) <= Cardinality(Joined(graph)) + 1)'
      BY <3>1 DEF TreeBound
    <3> QED
      BY <2>2, <3>2, TreeBoundKept
  <2>4. CASE NewGraph(a, b)
    BY <2>2, <2>4, TreeNewGraph
  <2>5. CASE JoinGraph(a, b) \/ JoinGraph(b, a)
    BY <2>2, <2>5, TreeJoinGraph, {a, b} = {b, a}
  <2>6. CASE MergeGraphs(a, b) \/ MergeGraphs(b, a)
    BY <2>2, <2>6, TreeMergeGraphs, {a, b} = {b, a}
  <2> QED
    BY <2>2, <2>3, <2>4, <2>5, <2>6 DEF addPair
<1> QED
  BY <1>1, <1>2 DEF GraphsNext, ReadRow

-----------------------------------------------------------------------------
(* How many edges a lookup takes *)

Below == {p \in Nat \X Nat : p[1] < p[2]}

LEMMA BelowWellFounded == IsWellFoundedOn(Below, Nat)
BY NatLessThanWellFounded DEF OpToRel, Below

LEMMA LeastPlace ==
  ASSUME NEW S, S \subseteq Nat, S # {}
  PROVE  \E n \in S : \A m \in S : n <= m
<1>1. PICK n \in S : \A m \in S : <<m, n>> \notin Below
  BY BelowWellFounded, WFMin
<1>2. \A m \in S : m \in Nat /\ n \in Nat /\ ~(m < n)
  BY <1>1 DEF Below
<1> QED
  BY <1>2

UpTo(places, k) == {j \in places : j <= k}

LEMMA UpToFinite ==
  ASSUME NEW top \in Nat, NEW places \in SUBSET (1 .. top), NEW k
  PROVE  /\ IsFiniteSet(places) /\ Cardinality(places) \in Nat
         /\ IsFiniteSet(UpTo(places, k)) /\ Cardinality(UpTo(places, k)) \in Nat
         /\ Cardinality(UpTo(places, k)) <= Cardinality(places)
<1>0. 0 + 1 \in Int /\ top \in Int
  OBVIOUS
<1>1. IsFiniteSet(places)
  <2>1. IsFiniteSet(1 .. top)
    BY <1>0, FS_Interval
  <2> QED
    BY <2>1, FS_Subset
<1>2. UpTo(places, k) \in SUBSET places
  BY DEF UpTo
<1> QED
  BY <1>1, <1>2, FS_Subset, FS_CardinalityType

\* The places taken are those up to the one at which there are enough.
LEMMA FirstOfCounts ==
  ASSUME NEW top \in Nat, NEW places \in SUBSET (1 .. top), NEW n \in Nat
  PROVE  Cardinality(FirstOf(places, n)) = AtMost(Cardinality(places), n)
<1>0. \A j \in places : j \in Nat /\ 1 <= j /\ j <= top
  OBVIOUS
<1>00. \A m \in Nat : /\ UpTo(places, m) \subseteq places
                      /\ \A j \in places : j \in UpTo(places, m) <=> j <= m
  BY DEF UpTo
<1>1. PICK size \in Nat : size = Cardinality(places)
  BY UpToFinite
<1>2. FirstOf(places, n) = {i \in places : Cardinality(UpTo(places, i)) <= n}
  BY DEF FirstOf, UpTo
<1>3. CASE size <= n
  <2>1. \A i \in places : Cardinality(UpTo(places, i)) <= n
    BY <1>1, <1>3, UpToFinite
  <2>2. FirstOf(places, n) = places
    BY <1>2, <2>1
  <2> QED
    BY <1>1, <1>3, <2>2 DEF AtMost
<1>4. CASE size > n
  <2> DEFINE Enough == {k \in Nat : Cardinality(UpTo(places, k)) >= n}
  <2>1. top \in Enough
    <3>1. UpTo(places, top) = places
      BY <1>0, <1>00
    <3> QED
      BY <1>1, <1>4, <3>1
  <2>2. PICK k \in Nat : /\ Cardinality(UpTo(places, k)) >= n
                         /\ \A m \in Nat : Cardinality(UpTo(places, m)) >= n => k <= m
    <3>1. PICK k \in Enough : \A m \in Enough : k <= m
      BY <2>1, LeastPlace
    <3> QED
      BY <3>1
  <2> HIDE DEF Enough
  <2>3. PICK c \in Nat : c = Cardinality(UpTo(places, k))
    BY UpToFinite
  <2>4. k \in Nat /\ c >= n
    BY <2>2, <2>3
  <2>5. c <= n
    <3>1. CASE k = 0
      <4>1. \A j \in places : ~(j <= 0)
        BY <1>0
      <4>2. UpTo(places, k) = {}
        BY <1>00, <3>1, <4>1
      <4> QED
        BY <2>3, <4>2, FS_EmptySet
    <3>2. CASE k # 0
      <4>1. PICK b \in Nat : b = Cardinality(UpTo(places, k - 1))
        BY UpToFinite
      <4>2. k - 1 \in Nat /\ ~(k <= k - 1)
        BY <2>4, <3>2
      <4>3. b < n
        BY <2>2, <4>1, <4>2
      <4>4. UpTo(places, k) \in SUBSET (UpTo(places, k - 1) \union {k})
        <5>1. \A j \in places : j <= k => j <= k - 1 \/ j = k
          BY <1>0, <2>4
        <5> QED
          BY <1>00, <2>4, <4>2, <5>1
      <4>5. /\ IsFiniteSet(UpTo(places, k - 1) \union {k})
            /\ Cardinality(UpTo(places, k - 1) \union {k}) \in {b, b + 1}
        BY <4>1, UpToFinite, FS_AddElement
      <4>6. c <= Cardinality(UpTo(places, k - 1) \union {k})
        BY <2>3, <4>4, <4>5, FS_Subset
      <4> QED
        BY <4>3, <4>5, <4>6
    <3> QED
      BY <3>1, <3>2
  <2>6. c = n
    BY <2>4, <2>5
  <2>7. ASSUME NEW i \in places, i <= k
        PROVE  Cardinality(UpTo(places, i)) <= n
    <3>1. UpTo(places, i) \in SUBSET UpTo(places, k)
      <4>1. i \in Nat /\ \A j \in places : j <= i => j <= k
        BY <1>0, <2>4, <2>7
      <4> QED
        BY <1>00, <2>4, <4>1
    <3>2. /\ IsFiniteSet(UpTo(places, i)) /\ Cardinality(UpTo(places, i)) \in Nat
          /\ IsFiniteSet(UpTo(places, k))
      BY UpToFinite
    <3>3. Cardinality(UpTo(places, i)) <= Cardinality(UpTo(places, k))
      BY <3>1, <3>2, FS_Subset
    <3> QED
      BY <2>3, <2>6, <3>2, <3>3
  <2>8. ASSUME NEW i \in places, ~(i <= k)
        PROVE  ~(Cardinality(UpTo(places, i)) <= n)
    <3>1. i \notin UpTo(places, k) /\ UpTo(places, k) \union {i} \in SUBSET UpTo(places, i)
      <4>1. i \in Nat /\ i <= i /\ \A j \in places : j <= k => j <= i
        BY <1>0, <2>4, <2>8
      <4> QED
        BY <1>00, <2>4, <2>8, <4>1
    <3>2. Cardinality(UpTo(places, k) \union {i}) = n + 1
      BY <2>3, <2>6, <3>1, UpToFinite, FS_AddElement
    <3>3. PICK d \in Nat : d = Cardinality(UpTo(places, i))
      BY UpToFinite
    <3>4. IsFiniteSet(UpTo(places, i))
      BY UpToFinite
    <3>5. Cardinality(UpTo(places, k) \union {i}) <= Cardinality(UpTo(places, i))
      BY <3>1, <3>4, FS_Subset
    <3>6. n + 1 <= d
      BY <3>2, <3>3, <3>5
    <3> QED
      BY <3>3, <3>6
  <2>9. FirstOf(places, n) = UpTo(places, k)
    BY <1>2, <2>7, <2>8 DEF UpTo
  <2> QED
    BY <1>1, <1>4, <2>3, <2>6, <2>9 DEF AtMost
<1> QED
  BY <1>1, <1>3, <1>4

-----------------------------------------------------------------------------
(* The edges of a timeseries are its partners *)

LEMMA PartnersShare ==
  ASSUME GroupingsInv, phase = "done", NEW ts, NEW other \in Partners(ts)
  PROVE  /\ ts \in DOMAIN Rows /\ other \in Members(Rows[ts]) /\ other # ts
         /\ \E pair \in InGraph(Rows[ts]) : {pair[1], pair[2]} = {ts, other}
<1>1. PICK pair \in matches : {pair[1], pair[2]} = {ts, other}
  BY DEF Partners
<1>2. pair \in added /\ pair[1] # pair[2]
  BY DEF GroupingsInv, PassesRead, BothWays, FileHasMatches
<1>3. pair[1] \in DOMAIN Rows /\ pair[2] \in DOMAIN Rows /\ Rows[pair[1]] = Rows[pair[2]]
  BY <1>2 DEF GroupingsInv, GraphsInv, GraphsAreComponents, PairsShareGraph
<1>4. ts \in DOMAIN Rows /\ other \in DOMAIN Rows /\ Rows[other] = Rows[ts] /\ other # ts
  BY <1>1, <1>2, <1>3
<1>5. pair \in InGraph(Rows[ts])
  BY <1>1, <1>3, <1>4 DEF InGraph, Members
<1> QED
  BY <1>1, <1>4, <1>5 DEF Members

\* A timeseries in a subgraph has a partner: it is there because of a match.
LEMMA RowsHavePartners ==
  ASSUME GroupingsInv, phase = "done", NEW ts \in DOMAIN Rows
  PROVE  Partners(ts) # {}
<1>1. PICK pair \in BothWays(matches) : ts = pair[1] \/ ts = pair[2]
  BY DEF GroupingsInv, PassesRead
<1>2. PICK match \in matches : pair = match \/ pair = <<match[2], match[1]>>
  BY <1>1 DEF BothWays
<1>3. match \in AllPairs
  BY DEF GroupingsInv, SetsComponents
<1>4. match[1] \in Fingerprint /\ match[2] \in Fingerprint /\ match = <<match[1], match[2]>>
  BY <1>3, PairShape
<1>5. ts = match[1] \/ ts = match[2]
  BY <1>1, <1>2
<1>6. ts = match[1] => match[2] \in Partners(ts)
  BY <1>4 DEF Partners
<1>7. ts = match[2] => match[1] \in Partners(ts)
  BY <1>4 DEF Partners
<1> QED
  BY <1>5, <1>6, <1>7

\* Each edge of a timeseries leads to a partner, no two to the same, and all are reached.
LeadToPartners(edges, ts) ==
  LET places == EdgesAt(edges, ts, {})
  IN  /\ Len(edges) \in Nat
      /\ \A i \in places : OtherEnd(edges[i], ts) \in Partners(ts)
      /\ \A i, j \in places : OtherEnd(edges[i], ts) = OtherEnd(edges[j], ts) => i = j
      /\ \A other \in Partners(ts) : \E i \in places : OtherEnd(edges[i], ts) = other

LEMMA PlacesArePartners ==
  ASSUME GroupingsInv, EdgesInv, phase = "done", NEW ts \in DOMAIN Rows
  PROVE  Rows[ts] \in DOMAIN edgeFiles /\ LeadToPartners(edgeFiles[Rows[ts]], ts)
<1>0. PICK edges : edges = edgeFiles[Rows[ts]]
  OBVIOUS
<1>1. PICK graph : graph = Rows[ts]
  OBVIOUS
<1>2. graph \in DOMAIN edgeFiles
  BY <1>1, EdgeFilesAtEnd DEF EdgeFilesExact, GroupingsInv, GraphsInv, SizesExact
<1>3. PICK S : S = EdgesFor(Len(file), graph)
  OBVIOUS
<1>4. ListsOnce(edges, S)
  BY <1>0, <1>1, <1>2, <1>3 DEF EdgesInv, EdgesListed, Passed
<1>5. /\ Len(edges) \in Nat
      /\ \A i \in 1 .. Len(edges) : edges[i] \in S
      /\ \A e \in S : \E i \in 1 .. Len(edges) : edges[i] = e
      /\ \A i, j \in 1 .. Len(edges) : edges[i] = edges[j] => i = j
  BY <1>4 DEF ListsOnce
<1>6. \A e \in S : /\ e[1] \in Nat /\ e[2] \in Nat /\ e[1] < e[2] /\ e = <<e[1], e[2]>>
                   /\ e \in matches \/ <<e[2], e[1]>> \in matches
                   /\ e[1] \in Members(graph) /\ e[2] \in Members(graph)
  BY <1>3, EdgeShape
<1>7. \A i : i \in EdgesAt(edges, ts, {}) <=> i \in 1 .. Len(edges) /\ (ts = edges[i][1] \/ ts = edges[i][2])
  BY DEF EdgesAt
<1>8. ASSUME NEW i \in EdgesAt(edges, ts, {})
      PROVE  OtherEnd(edges[i], ts) \in Partners(ts)
  <2>1. PICK e \in S : e = edges[i] /\ (ts = e[1] \/ ts = e[2])
    BY <1>5, <1>7
  <2>2. e[1] \in Fingerprint /\ e[2] \in Fingerprint
    BY <1>6 DEF Members, GroupingsInv, GraphsInv, GraphsTypeOK
  <2>3. <<e[1], e[2]>> \in matches \/ <<e[2], e[1]>> \in matches
    BY <1>6
  <2> QED
    BY <2>1, <2>2, <2>3 DEF Partners, OtherEnd
<1>9. ASSUME NEW i \in EdgesAt(edges, ts, {}), NEW j \in EdgesAt(edges, ts, {}),
             OtherEnd(edges[i], ts) = OtherEnd(edges[j], ts)
      PROVE  i = j
  <2>1. PICK e \in S : e = edges[i] /\ (ts = e[1] \/ ts = e[2])
    BY <1>5, <1>7
  <2>2. PICK d \in S : d = edges[j] /\ (ts = d[1] \/ ts = d[2])
    BY <1>5, <1>7
  <2>3. /\ e[1] \in Nat /\ e[2] \in Nat /\ e[1] < e[2] /\ e = <<e[1], e[2]>>
        /\ d[1] \in Nat /\ d[2] \in Nat /\ d[1] < d[2] /\ d = <<d[1], d[2]>>
    BY <1>6
  <2>4. OtherEnd(e, ts) = OtherEnd(d, ts)
    BY <1>9, <2>1, <2>2
  <2>5. e[1] = d[1] /\ e[2] = d[2]
    BY <2>1, <2>2, <2>3, <2>4 DEF OtherEnd
  <2>6. e = d
    BY <2>3, <2>5
  <2>7. i \in 1 .. Len(edges) /\ j \in 1 .. Len(edges)
    BY <1>7
  <2>8. edges[i] = edges[j]
    BY <2>1, <2>2, <2>6
  <2>9. \A k, l \in 1 .. Len(edges) : edges[k] = edges[l] => k = l
    BY <1>5
  <2> QED
    BY <2>7, <2>8, <2>9
<1>10. ASSUME NEW other \in Partners(ts)
       PROVE  \E i \in EdgesAt(edges, ts, {}) : OtherEnd(edges[i], ts) = other
  <2>1. PICK pair \in InGraph(graph) : {pair[1], pair[2]} = {ts, other} /\ other # ts
    BY <1>1, PartnersShare
  <2>2. PICK e \in S : AsReported(e) = pair /\ {e[1], e[2]} = {pair[1], pair[2]}
    BY <1>3, EdgesAreMatches
  <2>3. PICK i \in 1 .. Len(edges) : edges[i] = e
    BY <1>5
  <2>4. (e[1] = ts /\ e[2] = other) \/ (e[2] = ts /\ e[1] = other)
    BY <2>1, <2>2
  <2> QED
    BY <1>7, <2>1, <2>3, <2>4 DEF OtherEnd
<1>11. LeadToPartners(edges, ts)
  BY <1>5, <1>8, <1>9, <1>10 DEF LeadToPartners
<1> QED
  BY <1>0, <1>1, <1>2, <1>11

-----------------------------------------------------------------------------
(* What is answered about one timeseries *)

LEMMA OneToOne ==
  ASSUME NEW S, IsFiniteSet(S), NEW T, NEW f \in [S -> T],
         \A x, y \in S : f[x] = f[y] => x = y, \A t \in T : \E x \in S : f[x] = t
  PROVE  IsFiniteSet(T) /\ Cardinality(T) = Cardinality(S)
<1>1. f \in Bijection(S, T)
  BY DEF Bijection, Injection, Surjection, IsInjective
<1> QED
  BY <1>1, FS_Bijection DEF ExistsBijection

\* Of one id none is left to restrict the answer to.
LEMMA OneId ==
  ASSUME NEW ts
  PROVE  otherRowIds(<<ts>>) = {} /\ <<ts>>[1] = ts
<1>1. Len(<<ts>>) = 1 /\ <<ts>>[1] = ts
  OBVIOUS
<1>2. DOMAIN SubSeq(<<ts>>, 2, 1 - 1) = {}
  OBVIOUS
<1> QED
  BY <1>1, <1>2 DEF otherRowIds, ToSet

\* Every timeseries has a metric, which is as the file has it, and one without a subgraph has
\* no partner.
LEMMA MetricsAtEnd ==
  ASSUME GroupingsInv, MetricsInv, phase = "done"
  PROVE  /\ DOMAIN metrics = Fingerprint
         /\ \A f \in Fingerprint : metrics[f] \in BOOLEAN
         /\ \A f \in Fingerprint : metrics[f] <=> RecordedConstant(f)
         /\ \A f \in Fingerprint : f \notin DOMAIN Rows => Partners(f) = {}
<1>1. MetricsRead(Len(file)) /\ \A f \in Fingerprint : AboutIn(Len(file), f)
  BY DEF MetricsInv
<1>2. DOMAIN metrics = Fingerprint
  BY <1>1 DEF MetricsRead
<1>3. \A f \in Fingerprint : metrics[f] \in BOOLEAN /\ (metrics[f] <=> ConstantIn(Len(file), f))
  BY <1>1, <1>2 DEF MetricsRead
<1>4. \A f : ConstantIn(Len(file), f) <=> RecordedConstant(f)
  BY DEF ConstantIn, RecordedConstant
<1> QED
  BY <1>2, <1>3, <1>4, PartnersShare

\* Of the edges taken each leads to another partner, so that there are as many.
LEMMA TakenCount ==
  ASSUME GroupingsInv, EdgesInv, phase = "done", NEW ts \in DOMAIN Rows,
         NEW edges, edges = edgeFiles[Rows[ts]],
         NEW found, found = {OtherEnd(edges[i], ts) : i \in FirstOf(EdgesAt(edges, ts, {}), MaxResults)}
  PROVE  found \subseteq Partners(ts) /\ Cardinality(found) = AtMost(Cardinality(Partners(ts)), MaxResults)
<1>1. PICK places : places = EdgesAt(edges, ts, {})
  OBVIOUS
<1>2. /\ Len(edges) \in Nat
      /\ \A i \in places : OtherEnd(edges[i], ts) \in Partners(ts)
      /\ \A i, j \in places : OtherEnd(edges[i], ts) = OtherEnd(edges[j], ts) => i = j
      /\ \A other \in Partners(ts) : \E i \in places : OtherEnd(edges[i], ts) = other
  <2>1. LeadToPartners(edges, ts)
    BY PlacesArePartners
  <2> QED
    BY <1>1, <2>1 DEF LeadToPartners
<1>3. places \in SUBSET (1 .. Len(edges)) /\ IsFiniteSet(places)
  BY <1>1, <1>2, UpToFinite DEF EdgesAt
<1>4. PICK taken : taken = FirstOf(places, MaxResults)
  OBVIOUS
<1>5. MaxResults \in Nat
  BY QueriesAssumption
<1>6. Cardinality(taken) = AtMost(Cardinality(places), MaxResults)
  BY <1>2, <1>3, <1>4, <1>5, FirstOfCounts
<1>7. taken \in SUBSET places
  BY <1>4 DEF FirstOf
<1>8. found = {OtherEnd(edges[i], ts) : i \in taken}
  BY <1>1, <1>4
<1>9. Cardinality(Partners(ts)) = Cardinality(places)
  <2> DEFINE f == [i \in places |-> OtherEnd(edges[i], ts)]
  <2>1. /\ f \in [places -> Partners(ts)]
        /\ \A x, y \in places : f[x] = f[y] => x = y
        /\ \A t \in Partners(ts) : \E x \in places : f[x] = t
    BY <1>2
  <2> HIDE DEF f
  <2> QED
    BY <1>3, <2>1, OneToOne
<1>10. Cardinality(found) = Cardinality(taken)
  <2> DEFINE f == [i \in taken |-> OtherEnd(edges[i], ts)]
  <2>1. /\ f \in [taken -> found]
        /\ \A x, y \in taken : f[x] = f[y] => x = y
        /\ \A t \in found : \E x \in taken : f[x] = t
    BY <1>2, <1>7, <1>8
  <2>2. IsFiniteSet(taken)
    BY <1>3, <1>7, FS_Subset
  <2> HIDE DEF f
  <2> QED
    BY <2>1, <2>2, OneToOne
<1>11. found \subseteq Partners(ts)
  BY <1>2, <1>7, <1>8
<1> QED
  BY <1>6, <1>9, <1>10, <1>11

CorrelatesOf(ts) ==
  IF ts \in DOMAIN Rows /\ ~metrics[ts] /\ DrawnCompletely(ts)
  THEN {OtherEnd(edgeFiles[Rows[ts]][i], ts) : i \in FirstOf(EdgesAt(edgeFiles[Rows[ts]], ts, {}), MaxResults)}
  ELSE {}

LEMMA CorrelatesAnswer ==
  ASSUME GroupingsInv, EdgesInv, MetricsInv, phase = "done", NEW ts \in Fingerprint
  PROVE  GetCorrelatedSeries(Served, <<ts>>) = Found(CorrelatesOf(ts)) /\ CorrelatesOf(ts) \subseteq Partners(ts)
<1>1. DOMAIN metrics = Fingerprint /\ metrics[ts] \in BOOLEAN
  BY MetricsAtEnd
<1>2. Served.metrics = metrics /\ Served.Rows = Rows /\ Served.Sizes = Sizes /\ Served.edges = edgeFiles
  BY DEF Served
<1>3. otherRowIds(<<ts>>) = {} /\ <<ts>>[1] = ts
  BY OneId
<1>4. PICK answer : answer = retrieveCorrelatedTimeseries(Served, ts, {})
  OBVIOUS
<1>5. CorrelatesOf(ts) \subseteq Partners(ts)
  BY TakenCount DEF CorrelatesOf
<1>6. answer = Found(CorrelatesOf(ts))
  <2>1. CASE metrics[ts] \/ ts \notin DOMAIN Rows
    <3>1. answer = Found({})
      BY <1>1, <1>2, <1>4, <2>1 DEF retrieveCorrelatedTimeseries
    <3> QED
      BY <2>1, <3>1 DEF CorrelatesOf
  <2>2. CASE ~metrics[ts] /\ ts \in DOMAIN Rows
    <3>1. PICK graph, edges : graph = Rows[ts] /\ edges = edgeFiles[graph]
      OBVIOUS
    <3>2. graph \in DOMAIN edgeFiles /\ Len(edges) \in Nat
      BY <2>2, <3>1, PlacesArePartners DEF LeadToPartners
    <3>3. PICK drawn : drawn = IF Len(edges) > MAX_GRAPH_SIZE THEN <<>> ELSE edges
      OBVIOUS
    <3>4. retrieveEdges(Served, Rows[ts]) = Found(drawn)
      BY <1>2, <3>1, <3>2, <3>3 DEF retrieveEdges
    <3>5. Found(drawn).ok /\ Found(drawn).found = drawn
      BY DEF Found
    <3>6. answer = Found({OtherEnd(drawn[i], ts) : i \in FirstOf(EdgesAt(drawn, ts, {}), MaxResults)})
      BY <1>1, <1>2, <1>4, <2>2, <3>4, <3>5 DEF retrieveCorrelatedTimeseries
    <3>7. CASE Len(edges) > MAX_GRAPH_SIZE
      <4>1. drawn = <<>> /\ ~DrawnCompletely(ts)
        BY <2>2, <3>1, <3>2, <3>3, <3>7, QueriesAssumption DEF DrawnCompletely
      <4>2. EdgesAt(<<>>, ts, {}) = {}
        BY DEF EdgesAt
      <4>3. FirstOf(EdgesAt(drawn, ts, {}), MaxResults) = {}
        BY <4>1, <4>2 DEF FirstOf
      <4> QED
        BY <3>6, <4>1, <4>3 DEF CorrelatesOf
    <3>8. CASE ~(Len(edges) > MAX_GRAPH_SIZE)
      <4>1. drawn = edges /\ DrawnCompletely(ts)
        BY <2>2, <3>1, <3>2, <3>3, <3>8, QueriesAssumption DEF DrawnCompletely
      <4> QED
        BY <2>2, <3>1, <3>6, <4>1 DEF CorrelatesOf
    <3> QED
      BY <3>7, <3>8
  <2> QED
    BY <1>1, <2>1, <2>2
<1>7. Found(CorrelatesOf(ts)).ok /\ Found(CorrelatesOf(ts)).found = CorrelatesOf(ts)
  BY DEF Found
<1>8. CorrelatesOf(ts) \subseteq DOMAIN metrics
  BY <1>1, <1>5 DEF Partners
<1> QED
  BY <1>2, <1>3, <1>4, <1>5, <1>6, <1>7, <1>8 DEF GetCorrelatedSeries

LEMMA CorrelatesAtEnd ==
  ASSUME GroupingsInv, EdgesInv, MetricsInv
  PROVE  CorrelatesExact
<1> SUFFICES ASSUME phase = "done", NEW ts \in Fingerprint
             PROVE  LET answer == GetCorrelatedSeries(Served, <<ts>>)
                        shown == ~RecordedConstant(ts) /\ DrawnCompletely(ts)
                    IN /\ answer.ok
                       /\ answer.found \subseteq Partners(ts)
                       /\ Cardinality(answer.found) =
                            IF shown THEN AtMost(Cardinality(Partners(ts)), MaxResults) ELSE 0
  BY DEF CorrelatesExact
<1>1. PICK answer : answer = GetCorrelatedSeries(Served, <<ts>>)
  OBVIOUS
<1>2. answer = Found(CorrelatesOf(ts)) /\ CorrelatesOf(ts) \subseteq Partners(ts)
  BY <1>1, CorrelatesAnswer
<1>3. answer.ok /\ answer.found = CorrelatesOf(ts)
  BY <1>2 DEF Found
<1>4. Cardinality(CorrelatesOf(ts)) =
        IF ~RecordedConstant(ts) /\ DrawnCompletely(ts) THEN AtMost(Cardinality(Partners(ts)), MaxResults) ELSE 0
  <2>1. AtMost(0, MaxResults) = 0 /\ Cardinality({}) = 0
    BY QueriesAssumption, FS_EmptySet DEF AtMost
  <2>2. metrics[ts] <=> RecordedConstant(ts)
    BY MetricsAtEnd
  <2>3. CASE RecordedConstant(ts) \/ ~DrawnCompletely(ts)
    BY <2>1, <2>2, <2>3 DEF CorrelatesOf
  <2>4. CASE ~RecordedConstant(ts) /\ DrawnCompletely(ts) /\ ts \notin DOMAIN Rows
    <3>1. Partners(ts) = {} /\ CorrelatesOf(ts) = {}
      BY <2>4, MetricsAtEnd DEF CorrelatesOf
    <3> QED
      BY <2>1, <2>4, <3>1
  <2>5. CASE ~RecordedConstant(ts) /\ DrawnCompletely(ts) /\ ts \in DOMAIN Rows
    BY <2>2, <2>5, TakenCount DEF CorrelatesOf
  <2> QED
    BY <2>3, <2>4, <2>5
<1> QED
  BY <1>1, <1>2, <1>3, <1>4

-----------------------------------------------------------------------------
(* The invariants of the answers, and what they give *)

LEMMA TreeBoundInit ==
  ASSUME Init
  PROVE  TreeBound
<1>1. DOMAIN Sizes = {}
  BY DEF Init, GraphsInit
<1> QED
  BY <1>1 DEF TreeBound

AnswersInv == GroupingsInv /\ EdgesInv /\ MetricsInv /\ TreeBound

LEMMA AnswersInvStep ==
  ASSUME AnswersInv, [Next]_vars
  PROVE  AnswersInv'
<1>1. GroupingsInv' /\ EdgesInv' /\ MetricsInv'
  BY GroupingsInvStep, EdgesStep, MetricsStep DEF AnswersInv
<1>2. [GraphsNext]_graphVars
  BY GraphsStep DEF AnswersInv, GroupingsInv
<1>3. TreeBound'
  BY <1>1, <1>2, TreeBoundStep DEF AnswersInv, GroupingsInv
<1> QED
  BY <1>1, <1>3 DEF AnswersInv

\* The inductive invariant of the answers: beyond that of the groupings, the edges read so far
\* are in the edge files, the metrics are what the rows read so far say, and a subgraph has at
\* most one timeseries more than pairs that join it (extractEdges in data_processor.go,
\* GetMetrics and readRow in parquetExplorer.go).
THEOREM AnswersInvariance == Spec => []AnswersInv
<1>1. Init => AnswersInv
  <2>1. Init => EdgesInv
    BY DEF Init, EdgesInv
  <2> QED
    BY <2>1, GroupingsInvInit, MetricsInvInit, TreeBoundInit DEF AnswersInv
<1> QED
  BY <1>1, AnswersInvStep, PTL DEF Spec

\* Asked about a timeseries that the file does not call constant, the explorer answers with
\* those it was matched with, as many as it shows, and with no others (GetCorrelatedSeries in
\* explorer.go), however the matches were numbered, merged and taken on their way. About one
\* that the file calls constant it answers with nothing, matched or not.
THEOREM CorrelatesAreExact == Spec => []CorrelatesExact
  BY CorrelatesAtEnd, AnswersInvariance, PTL DEF AnswersInv

-----------------------------------------------------------------------------
(* The panels agree *)

\* A subgraph has as many edges as it takes to hold it together.
LEMMA EdgesHoldTogether ==
  ASSUME GroupingsInv, EdgesInv, TreeBound, phase = "done", NEW graph \in DOMAIN Sizes
  PROVE  /\ graph \in DOMAIN edgeFiles /\ Len(edgeFiles[graph]) \in Nat
         /\ Sizes[graph] = Cardinality(Members(graph)) /\ Sizes[graph] \in Nat
         /\ Sizes[graph] <= Len(edgeFiles[graph]) + 1
<1>1. /\ graph \in DOMAIN edgeFiles
      /\ Len(edgeFiles[graph]) = Cardinality(InGraph(graph))
  BY EdgeFilesAtEnd DEF EdgeFilesExact, InGraph
<1>2. IsFiniteSet(InGraph(graph)) /\ Cardinality(InGraph(graph)) \in Nat
  <2>1. IsFiniteSet(AllPairs)
    BY FingerprintAssumption, FS_Product DEF AllPairs
  <2>2. InGraph(graph) \in SUBSET AllPairs
    BY DEF InGraph, GroupingsInv, SetsComponents
  <2> QED
    BY <2>1, <2>2, FS_Subset, FS_CardinalityType
<1>3. Cardinality(Joined(graph)) <= Cardinality(InGraph(graph))
  <2> DEFINE f == [pair \in InGraph(graph) |-> Ends(pair)]
  <2>1. added = BothWays(matches)
    BY DEF GroupingsInv, PassesRead
  <2>2. ASSUME NEW pair \in InGraph(graph) PROVE Ends(pair) \in Joined(graph)
    BY <2>1 DEF InGraph, BothWays, Joined
  <2>3. ASSUME NEW join \in Joined(graph) PROVE \E pair \in InGraph(graph) : Ends(pair) = join
    <3>1. PICK p \in added : p[1] \in Members(graph) /\ join = Ends(p)
      BY DEF Joined
    <3>2. p[2] \in Members(graph)
      BY <3>1 DEF Members, GroupingsInv, GraphsInv, GraphsAreComponents, PairsShareGraph
    <3>3. PICK pair \in matches : p = pair \/ p = <<pair[2], pair[1]>>
      BY <2>1 DEF BothWays
    <3>4. pair[1] \in Members(graph) /\ pair[2] \in Members(graph) /\ Ends(pair) = join
      BY <3>1, <3>2, <3>3 DEF Ends
    <3> QED
      BY <3>4 DEF InGraph
  <2>4. f \in Surjection(InGraph(graph), Joined(graph))
    BY <2>2, <2>3 DEF Surjection
  <2> HIDE DEF f
  <2> QED
    BY <1>2, <2>4, FS_Surjection
<1>4. Sizes[graph] = Cardinality(Members(graph)) /\ Cardinality(Members(graph)) \in Nat
  BY MembersFinite DEF GroupingsInv, GraphsInv, SizesExact
<1>5. PICK j \in Nat : j = Cardinality(Joined(graph))
  BY JoinedFinite DEF GroupingsInv
<1>6. Cardinality(Members(graph)) <= j + 1
  BY <1>5 DEF TreeBound
<1>7. PICK k \in Nat : k = Cardinality(InGraph(graph))
  BY <1>2
<1>8. Cardinality(Members(graph)) <= k + 1
  BY <1>3, <1>4, <1>5, <1>6, <1>7
<1> QED
  BY <1>1, <1>4, <1>7, <1>8

Drawn(graph) == IF Len(edgeFiles[graph]) > MAX_GRAPH_SIZE THEN <<>> ELSE edgeFiles[graph]

\* Edges drawn join members of the subgraph; if all are drawn they reach every one.
LEMMA DrawnEnds ==
  ASSUME GroupingsInv, EdgesInv, phase = "done", NEW graph \in DOMAIN Sizes,
         NEW ends, ends = UNION {ToSet(Drawn(graph)[i]) : i \in 1 .. Len(Drawn(graph))}
  PROVE  ends \subseteq Members(graph) /\ (Drawn(graph) = edgeFiles[graph] => ends = Members(graph))
<1>1. PICK row \in DOMAIN Rows : Rows[row] = graph
  BY DEF GroupingsInv, GraphsInv, SizesExact
<1>2. graph \in DOMAIN edgeFiles
  BY <1>1, PlacesArePartners
<1>3. PICK edges : edges = edgeFiles[graph]
  OBVIOUS
<1>4. \A i \in 1 .. Len(edges) : edges[i] \in EdgesFor(Len(file), graph)
  BY <1>2, <1>3 DEF EdgesInv, EdgesListed, Passed, ListsOnce
<1>5. ASSUME NEW i \in 1 .. Len(edges)
      PROVE  /\ ToSet(edges[i]) = {edges[i][1], edges[i][2]}
             /\ edges[i][1] \in Members(graph) /\ edges[i][2] \in Members(graph)
  <2>1. PICK e : e = edges[i]
    OBVIOUS
  <2>2. /\ e = <<e[1], e[2]>>
        /\ e[1] \in Members(graph) /\ e[2] \in Members(graph)
    BY <1>4, <2>1, EdgeShape
  <2>3. PICK a, b : a = e[1] /\ b = e[2]
    OBVIOUS
  <2>4. e = <<a, b>>
    BY <2>2, <2>3
  <2>5. ToSet(<<a, b>>) = {a, b}
    BY DEF ToSet
  <2> QED
    BY <2>1, <2>2, <2>3, <2>4, <2>5
<1>6. CASE Drawn(graph) = edges
  <2>1. ends = UNION {ToSet(edges[i]) : i \in 1 .. Len(edges)}
    BY <1>6
  <2>2. ends \subseteq Members(graph)
    <3> SUFFICES ASSUME NEW x \in ends PROVE x \in Members(graph)
      OBVIOUS
    <3>1. PICK i \in 1 .. Len(edges) : x \in ToSet(edges[i])
      BY <2>1
    <3> QED
      BY <1>5, <3>1
  <2>3. ASSUME NEW node \in Members(graph) PROVE node \in ends
    <3>1. node \in DOMAIN Rows /\ Rows[node] = graph
      BY DEF Members
    <3>2. PICK other \in Partners(node) : TRUE
      BY <3>1, RowsHavePartners
    <3>3. PICK i \in EdgesAt(edges, node, {}) : OtherEnd(edges[i], node) = other
      BY <1>3, <3>1, PlacesArePartners DEF LeadToPartners
    <3>4. i \in 1 .. Len(edges) /\ node \in {edges[i][1], edges[i][2]}
      BY DEF EdgesAt
    <3> QED
      BY <1>5, <2>1, <3>4
  <2> QED
    BY <1>3, <2>2, <2>3
<1>7. CASE Drawn(graph) # edges
  <2>1. Drawn(graph) = <<>>
    BY <1>3, <1>7 DEF Drawn
  <2>2. 1 .. Len(<<>>) = {}
    OBVIOUS
  <2>3. ends = {}
    BY <2>1, <2>2
  <2> QED
    BY <1>3, <1>7, <2>3
<1> QED
  BY <1>6, <1>7

LEMMA HistoryOfOne ==
  ASSUME NEW ts
  PROVE  GetMetricHistory(<<Served>>, Served, ts)
           = <<IF metrics[ts] THEN -1 ELSE IF ts \in DOMAIN Rows THEN Sizes[Rows[ts]] ELSE 0>>
<1>1. Served.metrics = metrics /\ Served.Rows = Rows /\ Served.Sizes = Sizes
  BY DEF Served
<1>2. PICK stride : stride = Served
  OBVIOUS
<1>3. DOMAIN <<stride>> = {1} /\ <<stride>>[1] = stride
  OBVIOUS
<1>4. PICK size : size = IF metrics[ts] THEN -1 ELSE IF ts \in DOMAIN Rows THEN Sizes[Rows[ts]] ELSE 0
  OBVIOUS
<1>5. GetMetricHistory(<<stride>>, stride, ts) = [st \in {1} |-> size]
  BY <1>1, <1>2, <1>3, <1>4 DEF GetMetricHistory
<1>6. [st \in {1} |-> size] = <<size>>
  OBVIOUS
<1> QED
  BY <1>2, <1>4, <1>5, <1>6

\* What AnswersAgree asks of a timeseries in a subgraph.
LEMMA AgreeInSubgraph ==
  ASSUME AnswersInv, phase = "done", NEW ts \in DOMAIN Rows, NEW graph, graph = Rows[ts]
  PROVE  LET nodes == GetSubgraphNodes(Served, graph)
             edges == GetSubgraphEdges(Served, graph)
             ends == UNION {ToSet(edges.found[i]) : i \in 1 .. Len(edges.found)}
         IN  /\ graph # -1
             /\ GetMetricHistory(<<Served>>, Served, ts) = <<IF metrics[ts] THEN -1 ELSE Cardinality(nodes)>>
             /\ {ts} \union GetCorrelatedSeries(Served, <<ts>>).found \subseteq nodes
             /\ edges.ok /\ ends \subseteq nodes
             /\ DrawnCompletely(ts) => ends = nodes
             /\ [Id |-> graph, Size |-> Cardinality(nodes)] \in GetSubgraphs(Served)
             /\ NodesShown(Served, graph) < Cardinality(nodes) /\ edges.found # <<>> =>
                  Len(edges.found) = MAX_GRAPH_SIZE /\ Cardinality(nodes) = MAX_GRAPH_SIZE + 1
<1> USE DEF AnswersInv
<1>1. Served.metrics = metrics /\ Served.Rows = Rows /\ Served.Sizes = Sizes /\ Served.edges = edgeFiles
  BY DEF Served
<1>2. /\ ts \in Fingerprint /\ DOMAIN Rows \subseteq DOMAIN metrics
      /\ graph \in DOMAIN Sizes /\ graph # -1
  BY MetricsAtEnd DEF GroupingsInv, GraphsInv, GraphsTypeOK, SizesExact
<1>3. PICK nodes : nodes = GetSubgraphNodes(Served, graph)
  OBVIOUS
<1>4. nodes = Members(graph) /\ ts \in nodes
  BY <1>1, <1>2, <1>3 DEF GetSubgraphNodes, Members
<1>5. PICK size \in Nat : size = Cardinality(nodes) /\ size = Sizes[graph]
  BY <1>2, <1>4, EdgesHoldTogether
<1>6. PICK edges : edges = GetSubgraphEdges(Served, graph)
  OBVIOUS
<1>7. edges = Found(Drawn(graph)) /\ edges.ok /\ edges.found = Drawn(graph)
  <2>1. graph \in DOMAIN edgeFiles
    BY <1>2, EdgesHoldTogether
  <2> QED
    BY <1>1, <1>2, <1>6, <2>1 DEF GetSubgraphEdges, retrieveEdges, Found, Drawn
<1>8. PICK ends : ends = UNION {ToSet(edges.found[i]) : i \in 1 .. Len(edges.found)}
  OBVIOUS
<1>9. ends \subseteq nodes /\ (Drawn(graph) = edgeFiles[graph] => ends = nodes)
  <2>1. ends = UNION {ToSet(Drawn(graph)[i]) : i \in 1 .. Len(Drawn(graph))}
    BY <1>7, <1>8
  <2> QED
    BY <1>2, <1>4, <2>1, DrawnEnds
<1>10. PICK count \in Nat : count = Len(edgeFiles[graph]) /\ size <= count + 1
  BY <1>2, <1>5, EdgesHoldTogether
<1>11. DrawnCompletely(ts) => Drawn(graph) = edgeFiles[graph]
  BY <1>10, QueriesAssumption DEF DrawnCompletely, Drawn
<1>12. GetMetricHistory(<<Served>>, Served, ts) = <<IF metrics[ts] THEN -1 ELSE Cardinality(nodes)>>
  <2>1. GetMetricHistory(<<Served>>, Served, ts)
          = <<IF metrics[ts] THEN -1 ELSE IF ts \in DOMAIN Rows THEN Sizes[Rows[ts]] ELSE 0>>
    BY HistoryOfOne
  <2> QED
    BY <1>5, <2>1
<1>13. {ts} \union GetCorrelatedSeries(Served, <<ts>>).found \subseteq nodes
  <2>1. GetCorrelatedSeries(Served, <<ts>>) = Found(CorrelatesOf(ts)) /\ CorrelatesOf(ts) \subseteq Partners(ts)
    BY <1>2, CorrelatesAnswer
  <2>2. GetCorrelatedSeries(Served, <<ts>>).found = CorrelatesOf(ts)
    BY <2>1 DEF Found
  <2>3. Partners(ts) \subseteq Members(graph)
    BY PartnersShare
  <2> QED
    BY <1>4, <2>1, <2>2, <2>3
<1>14. [Id |-> graph, Size |-> Cardinality(nodes)] \in GetSubgraphs(Served)
  BY <1>1, <1>2, <1>5 DEF GetSubgraphs
<1>15. ASSUME NodesShown(Served, graph) < Cardinality(nodes), edges.found # <<>>
       PROVE  Len(edges.found) = MAX_GRAPH_SIZE /\ Cardinality(nodes) = MAX_GRAPH_SIZE + 1
  <2>1. PICK most \in Nat : most = MAX_GRAPH_SIZE
    BY QueriesAssumption
  <2>2. AtMost(size, most) < size
    BY <1>1, <1>5, <1>15, <2>1 DEF NodesShown
  <2>3. most < size
    BY <2>2 DEF AtMost
  <2>4. edges.found = edgeFiles[graph] /\ count <= most
    BY <1>7, <1>10, <1>15, <2>1 DEF Drawn
  <2>5. count = most /\ size = most + 1
    BY <1>10, <2>3, <2>4
  <2> QED
    BY <1>5, <1>10, <2>1, <2>4, <2>5
<1> QED
  BY <1>2, <1>3, <1>6, <1>7, <1>8, <1>9, <1>11, <1>12, <1>13, <1>14, <1>15

LEMMA AnswersAgreeAtEnd ==
  ASSUME AnswersInv
  PROVE  AnswersAgree
<1> SUFFICES ASSUME phase = "done", NEW ts \in Fingerprint
             PROVE  \E info \in GetMetricInfo(Served, <<ts>>) :
      LET nodes == GetSubgraphNodes(Served, info.SubgraphId)
          edges == GetSubgraphEdges(Served, info.SubgraphId)
          ends == UNION {ToSet(edges.found[i]) : i \in 1 .. Len(edges.found)}
          size == IF info.SubgraphId = -1 THEN 0 ELSE Cardinality(nodes)
      IN /\ info.Constant <=> RecordedConstant(ts)
         /\ GetMetricHistory(<<Served>>, Served, ts) = <<IF info.Constant THEN -1 ELSE size>>
         /\ IF info.SubgraphId = -1
            THEN Partners(ts) = {}
            ELSE /\ {ts} \union GetCorrelatedSeries(Served, <<ts>>).found \subseteq nodes
                 /\ edges.ok /\ ends \subseteq nodes
                 /\ DrawnCompletely(ts) => ends = nodes
                 /\ [Id |-> info.SubgraphId, Size |-> Cardinality(nodes)] \in GetSubgraphs(Served)
                 /\ NodesShown(Served, info.SubgraphId) < Cardinality(nodes) /\ edges.found # <<>> =>
                      Len(edges.found) = MAX_GRAPH_SIZE /\ Cardinality(nodes) = MAX_GRAPH_SIZE + 1
  BY DEF AnswersAgree
<1>1. PICK graph : graph = SubgraphIdOf(Served, ts)
  OBVIOUS
<1>2. PICK info : info = [Rowid |-> ts, Constant |-> metrics[ts], SubgraphId |-> graph]
  OBVIOUS
<1>3. info \in GetMetricInfo(Served, <<ts>>)
  <2>1. ts \in DOMAIN metrics
    BY MetricsAtEnd DEF AnswersInv
  <2>2. ts \in ToSet(<<ts>>)
    BY DEF ToSet
  <2>3. Served.metrics = metrics
    BY DEF Served
  <2> QED
    BY <1>1, <1>2, <2>1, <2>2, <2>3 DEF GetMetricInfo
<1>4. /\ info.SubgraphId = graph /\ info.Constant = metrics[ts]
      /\ info.Constant <=> RecordedConstant(ts)
  <2>1. info.SubgraphId = graph /\ info.Constant = metrics[ts]
    BY <1>2
  <2>2. metrics[ts] <=> RecordedConstant(ts)
    BY MetricsAtEnd DEF AnswersInv
  <2> QED
    BY <2>1, <2>2
<1>5. Served.Rows = Rows
  BY DEF Served
<1>6. CASE ts \in DOMAIN Rows
  <2>1. graph = Rows[ts]
    BY <1>1, <1>5, <1>6 DEF SubgraphIdOf
  <2> QED
    BY <1>3, <1>4, <1>6, <2>1, AgreeInSubgraph
<1>7. CASE ts \notin DOMAIN Rows
  <2>1. graph = -1
    BY <1>1, <1>5, <1>7 DEF SubgraphIdOf
  <2>2. Partners(ts) = {}
    BY <1>7, MetricsAtEnd DEF AnswersInv
  <2>3. GetMetricHistory(<<Served>>, Served, ts) = <<IF metrics[ts] THEN -1 ELSE 0>>
    <3>1. GetMetricHistory(<<Served>>, Served, ts)
            = <<IF metrics[ts] THEN -1 ELSE IF ts \in DOMAIN Rows THEN Sizes[Rows[ts]] ELSE 0>>
      BY HistoryOfOne
    <3> QED
      BY <1>7, <3>1
  <2> QED
    BY <1>3, <1>4, <2>1, <2>2, <2>3
<1> QED
  BY <1>6, <1>7

\* The panels lead from one to the next and agree on the way: a timeseries is constant if the
\* file calls it so, and, constant or not, a node of the subgraph its info names, its correlates are nodes of the same one, and edges are drawn to
\* a node that is not shown only of a tree too large by that node (explorer.go).
THEOREM AllAnswersAgree == Spec => []AnswersAgree
  BY AnswersAgreeAtEnd, AnswersInvariance, PTL
=============================================================================
