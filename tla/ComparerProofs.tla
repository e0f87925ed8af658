---------------------------- MODULE ComparerProofs ---------------------------
(***************************************************************************)
(* The comparer, for any number of rows and strides and any size of a      *)
(* batch: no match is sent twice, and when the end marker of a stride is   *)
(* out, so are all its matches.                                            *)
(***************************************************************************)
EXTENDS ComparerHistory, FiniteSetTheorems, SequenceTheorems, TLAPS

AllPairs == Pairs(RowCount)
Batches == [pairs : {P \in SUBSET AllPairs : Cardinality(P) <= BufferSize}, stride : StrideNumbers]
Found == [StrideNumbers -> SUBSET AllPairs]

\* The matches among the batches sent for a stride.
PairsOf(sent, s) == UNION {sent[j].pairs : j \in {k \in DOMAIN sent : sent[k].stride = s}}

HistoryTypes ==
  /\ comparing \in StrideNumbers \union {-1}
  /\ phase \in {"idle", "compare", "leftover", "end"}
  /\ phase # "idle" => comparing \in StrideNumbers
  /\ resultsBuffer \in SUBSET AllPairs /\ IsFiniteSet(resultsBuffer)
  /\ Cardinality(resultsBuffer) < BufferSize
  /\ received \in Seq(Batches)
  /\ resultsChannel = <<>> \/ \E b \in Batches : resultsChannel = <<b>>
  /\ matches \in Found
  /\ asked \in SUBSET AllPairs

\* Where the matches of the current stride are: found ones were asked for, and are either sent
\* or still in the buffer, which keeps them when the leftover is sent.
CurrentMatches ==
  /\ \A s \in StrideNumbers : s > comparing => matches[s] = {}
  /\ comparing \in StrideNumbers => matches[comparing] \subseteq asked
  /\ phase \in {"compare", "leftover"} =>
       /\ matches[comparing] = resultsBuffer \union PairsOf(Sent, comparing)
       /\ resultsBuffer \intersect PairsOf(Sent, comparing) = {}
  /\ phase = "leftover" => resultsBuffer # {}
  /\ phase = "end" => matches[comparing] = PairsOf(Sent, comparing)

\* The current stride is the last that batches were sent for, and its end marker is only sent
\* when the algorithm is done with it.
CurrentIsLast ==
  \A i \in DOMAIN Sent :
    /\ Sent[i].stride <= comparing
    /\ phase # "idle" /\ Sent[i].stride = comparing => Sent[i].pairs # {}

ComparerInv == HistoryTypes /\ CurrentMatches /\ CurrentIsLast /\ BatchesDisjoint /\ StrideComplete

-----------------------------------------------------------------------------
(* Sequences of batches *)

\* What the two properties say of the batches sent and the matches found.
Apart(sent) ==
  \A i, j \in DOMAIN sent :
    /\ Cardinality(sent[i].pairs) <= BufferSize
    /\ i # j /\ sent[i].stride = sent[j].stride => sent[i].pairs \intersect sent[j].pairs = {}
Complete(sent, found) ==
  \A i \in DOMAIN sent :
    /\ sent[i].pairs \subseteq found[sent[i].stride]
    /\ sent[i].pairs = {} =>
         /\ \A j \in DOMAIN sent : j > i => sent[j].stride > sent[i].stride
         /\ found[sent[i].stride] = PairsOf(sent, sent[i].stride)

\* Batches are sent for stride s last, and without an end marker.
UpTo(sent, s) == \A i \in DOMAIN sent : sent[i].stride <= s /\ (sent[i].stride = s => sent[i].pairs # {})

\* Matches are only added, and only to stride s.
Grown(found, later, s) ==
  /\ found[s] \subseteq later[s]
  /\ \A t \in StrideNumbers : t # s => later[t] = found[t]

LEMMA PropertiesOfSent ==
  /\ BatchesDisjoint <=> Apart(Sent)
  /\ StrideComplete <=> Complete(Sent, matches)
  BY DEF BatchesDisjoint, StrideComplete, Apart, Complete, PairsOf

LEMMA BatchFields ==
  ASSUME NEW sent \in Seq(Batches), NEW i \in DOMAIN sent
  PROVE  /\ sent[i].stride \in StrideNumbers /\ sent[i].pairs \in SUBSET AllPairs
         /\ Cardinality(sent[i].pairs) <= BufferSize
<1>1. sent[i] \in Batches
  OBVIOUS
<1> QED
  BY <1>1 DEF Batches

\* The matches of a stride with one more batch.
LEMMA PairsOfAppend ==
  ASSUME NEW sent \in Seq(Batches), NEW b \in Batches, NEW s \in StrideNumbers
  PROVE  PairsOf(Append(sent, b), s) =
           IF b.stride = s THEN PairsOf(sent, s) \union b.pairs ELSE PairsOf(sent, s)
<1> DEFINE more == Append(sent, b)
<1>1. /\ Len(sent) \in Nat /\ DOMAIN sent = 1 .. Len(sent) /\ DOMAIN more = 1 .. Len(sent) + 1
      /\ more[Len(sent) + 1] = b /\ \A k \in 1 .. Len(sent) : more[k] = sent[k]
  OBVIOUS
<1> HIDE DEF more
<1>2. ASSUME NEW p
      PROVE  p \in PairsOf(more, s) <=> p \in PairsOf(sent, s) \/ (b.stride = s /\ p \in b.pairs)
  <2>1. p \in PairsOf(more, s) <=> \E k \in 1 .. Len(sent) + 1 : more[k].stride = s /\ p \in more[k].pairs
    BY <1>1 DEF PairsOf
  <2>2. p \in PairsOf(sent, s) <=> \E k \in 1 .. Len(sent) : sent[k].stride = s /\ p \in sent[k].pairs
    BY <1>1 DEF PairsOf
  <2> QED
    BY <1>1, <2>1, <2>2
<1> QED
  BY <1>2 DEF more

\* Matches added to the current stride, whose end marker is not out, spoil nothing.
LEMMA FindingKeeps ==
  ASSUME NEW sent \in Seq(Batches), NEW s \in StrideNumbers, NEW found \in Found, NEW later \in Found,
         Complete(sent, found), UpTo(sent, s), Grown(found, later, s)
  PROVE  Complete(sent, later)
<1> SUFFICES ASSUME NEW i \in DOMAIN sent
             PROVE  /\ sent[i].pairs \subseteq later[sent[i].stride]
                    /\ sent[i].pairs = {} =>
                         /\ \A j \in DOMAIN sent : j > i => sent[j].stride > sent[i].stride
                         /\ later[sent[i].stride] = PairsOf(sent, sent[i].stride)
  BY DEF Complete
<1>1. sent[i].stride \in StrideNumbers
  BY BatchFields
<1>2. CASE sent[i].stride = s
  BY <1>2 DEF Complete, UpTo, Grown
<1>3. CASE sent[i].stride # s
  BY <1>1, <1>3 DEF Complete, Grown
<1> QED
  BY <1>2, <1>3

\* So does a batch of new matches of the current stride, or its end marker when all are out.
LEMMA SendingKeeps ==
  ASSUME NEW sent \in Seq(Batches), NEW b \in Batches, NEW found \in Found,
         Apart(sent), Complete(sent, found), UpTo(sent, b.stride),
         b.pairs \subseteq found[b.stride],
         b.pairs \intersect PairsOf(sent, b.stride) = {},
         b.pairs = {} => found[b.stride] = PairsOf(sent, b.stride)
  PROVE  Apart(Append(sent, b)) /\ Complete(Append(sent, b), found)
<1> DEFINE more == Append(sent, b)
<1>1. /\ Len(sent) \in Nat /\ DOMAIN sent = 1 .. Len(sent) /\ DOMAIN more = 1 .. Len(sent) + 1
      /\ more[Len(sent) + 1] = b /\ \A k \in 1 .. Len(sent) : more[k] = sent[k]
  OBVIOUS
<1>2. /\ b.stride \in StrideNumbers /\ Cardinality(b.pairs) <= BufferSize
      /\ \A s \in StrideNumbers :
           PairsOf(more, s) = IF b.stride = s THEN PairsOf(sent, s) \union b.pairs ELSE PairsOf(sent, s)
  BY PairsOfAppend DEF Batches
<1> HIDE DEF more
<1>3. ASSUME NEW k \in 1 .. Len(sent), sent[k].stride = b.stride
      PROVE  sent[k].pairs \intersect b.pairs = {}
  BY <1>1, <1>3 DEF PairsOf
<1>4. Apart(more)
  <2> SUFFICES ASSUME NEW i \in 1 .. Len(sent) + 1, NEW j \in 1 .. Len(sent) + 1
               PROVE  /\ Cardinality(more[i].pairs) <= BufferSize
                      /\ i # j /\ more[i].stride = more[j].stride => more[i].pairs \intersect more[j].pairs = {}
    BY <1>1 DEF Apart
  <2>1. CASE i \in 1 .. Len(sent) /\ j \in 1 .. Len(sent)
    BY <1>1, <2>1 DEF Apart
  <2>2. CASE i \in 1 .. Len(sent) /\ j = Len(sent) + 1
    BY <1>1, <1>3, <2>2 DEF Apart
  <2>3. CASE i = Len(sent) + 1 /\ j \in 1 .. Len(sent)
    BY <1>1, <1>2, <1>3, <2>3
  <2>4. CASE i = Len(sent) + 1 /\ j = Len(sent) + 1
    BY <1>1, <1>2, <2>4
  <2> QED
    BY <1>1, <2>1, <2>2, <2>3, <2>4
<1>5. Complete(more, found)
  <2> SUFFICES ASSUME NEW i \in 1 .. Len(sent) + 1
               PROVE  /\ more[i].pairs \subseteq found[more[i].stride]
                      /\ more[i].pairs = {} =>
                           /\ \A j \in 1 .. Len(sent) + 1 : j > i => more[j].stride > more[i].stride
                           /\ found[more[i].stride] = PairsOf(more, more[i].stride)
    BY <1>1 DEF Complete
  <2>1. CASE i = Len(sent) + 1
    <3>1. more[i] = b /\ ~\E j \in 1 .. Len(sent) + 1 : j > i
      BY <1>1, <2>1
    <3>2. b.pairs = {} => PairsOf(more, b.stride) = found[b.stride]
      BY <1>2
    <3> QED
      BY <3>1, <3>2
  <2>2. CASE i \in 1 .. Len(sent)
    <3>1. more[i] = sent[i] /\ sent[i].pairs \subseteq found[sent[i].stride]
      BY <1>1, <2>2 DEF Complete
    <3>2. ASSUME sent[i].pairs = {}
          PROVE  /\ \A j \in 1 .. Len(sent) + 1 : j > i => more[j].stride > sent[i].stride
                 /\ found[sent[i].stride] = PairsOf(more, sent[i].stride)
      <4>1. sent[i].stride \in StrideNumbers /\ b.stride \in StrideNumbers
            /\ sent[i].stride <= b.stride /\ sent[i].stride # b.stride
        BY <1>1, <1>2, <2>2, <3>2, BatchFields DEF UpTo
      <4>2. b.stride > sent[i].stride
        BY <4>1 DEF StrideNumbers
      <4>3. \A j \in 1 .. Len(sent) : j > i => sent[j].stride > sent[i].stride
        BY <1>1, <2>2, <3>2 DEF Complete
      <4>4. found[sent[i].stride] = PairsOf(sent, sent[i].stride)
        BY <1>1, <2>2, <3>2 DEF Complete
      <4> QED
        BY <1>1, <1>2, <4>1, <4>2, <4>3, <4>4
    <3> QED
      BY <3>1, <3>2
  <2> QED
    BY <1>1, <2>1, <2>2
<1> QED
  BY <1>4, <1>5 DEF more

-----------------------------------------------------------------------------
(* The invariant *)

LEMMA SentIsBatches ==
  ASSUME HistoryTypes
  PROVE  Sent \in Seq(Batches)
<1>1. received \in Seq(Batches)
  BY DEF HistoryTypes
<1>2. resultsChannel \in Seq(Batches)
  <2>1. CASE resultsChannel = <<>>
    BY <2>1
  <2>2. CASE \E b \in Batches : resultsChannel = <<b>>
    BY <2>2
  <2> QED
    BY <2>1, <2>2 DEF HistoryTypes
<1> QED
  BY <1>1, <1>2, ConcatProperties DEF Sent

\* Sending: one more batch has been sent.
LEMMA SendAppends ==
  ASSUME HistoryTypes, NEW b \in Batches,
         resultsChannel = <<>>, resultsChannel' = <<b>>, received' = received
  PROVE  Sent' = Append(Sent, b)
<1>1. received \in Seq(Batches)
  BY DEF HistoryTypes
<1> QED
  BY <1>1 DEF Sent

\* Receiving: no batch is lost on the way.
LEMMA TakeKeeps ==
  ASSUME HistoryTypes, Receive
  PROVE  /\ Sent' = Sent /\ received' \in Seq(Batches) /\ resultsChannel' = <<>>
<1>1. received \in Seq(Batches)
  BY DEF HistoryTypes
<1>2. PICK b \in Batches : resultsChannel = <<b>>
  BY DEF HistoryTypes, Receive, TakeBatch
<1>3. received' = Append(received, b) /\ resultsChannel' = <<>>
  BY <1>2 DEF Receive, TakeBatch
<1> QED
  BY <1>1, <1>2, <1>3 DEF Sent

LEMMA ComparerInvInit == HistoryInit => ComparerInv
<1> SUFFICES ASSUME HistoryInit PROVE ComparerInv
  OBVIOUS
<1>1. Sent = <<>> /\ comparing = -1 /\ phase = "idle" /\ matches = [s \in StrideNumbers |-> {}]
  BY DEF HistoryInit, ComparerInit, Sent
<1>2. HistoryTypes
  BY <1>1, ComparerAssumption, FS_EmptySet DEF HistoryInit, ComparerInit, HistoryTypes, Found
<1>3. CurrentMatches /\ CurrentIsLast /\ BatchesDisjoint /\ StrideComplete
  BY <1>1 DEF CurrentMatches, CurrentIsLast, BatchesDisjoint, StrideComplete, StrideNumbers
<1> QED
  BY <1>2, <1>3 DEF ComparerInv

\* A stride begins: nothing was found or sent for it yet.
LEMMA StartKeeps ==
  ASSUME ComparerInv, Start
  PROVE  ComparerInv'
<1>1. /\ comparing \in StrideNumbers \union {-1} /\ matches \in Found
      /\ \A s \in StrideNumbers : s > comparing => matches[s] = {}
      /\ \A i \in DOMAIN Sent : Sent[i].stride <= comparing
      /\ Sent \in Seq(Batches)
  BY SentIsBatches DEF ComparerInv, HistoryTypes, CurrentMatches, CurrentIsLast
<1>2. NextStride \in StrideNumbers /\ NextStride > comparing
  BY <1>1, StridesAssumption DEF Start, NextStride, StrideNumbers
<1>3. ~Repeated(NextStride)
  BY <1>1, <1>2 DEF Repeated, StrideNumbers
<1>4. /\ comparing' = NextStride /\ resultsBuffer' = {} /\ phase' = "compare" /\ asked' = {}
      /\ matches' = matches /\ received' = received /\ resultsChannel' = resultsChannel
  BY <1>3 DEF Start, StartStride, RejectStride, BeginStride
<1>5. Sent' = Sent
  BY <1>4 DEF Sent
<1>6. HistoryTypes'
  BY <1>2, <1>4, ComparerAssumption, FS_EmptySet DEF ComparerInv, HistoryTypes
<1>7. \A i \in DOMAIN Sent : Sent[i].stride <= NextStride /\ Sent[i].stride # NextStride
  <2> SUFFICES ASSUME NEW i \in DOMAIN Sent PROVE Sent[i].stride <= NextStride /\ Sent[i].stride # NextStride
    OBVIOUS
  <2>1. Sent[i].stride \in StrideNumbers /\ Sent[i].stride <= comparing
    BY <1>1, BatchFields
  <2> QED
    BY <1>1, <1>2, <2>1 DEF StrideNumbers
<1>8. PairsOf(Sent, NextStride) = {}
  BY <1>7 DEF PairsOf
<1>9. CurrentMatches'
  <2>1. \A s \in StrideNumbers : s > NextStride => matches[s] = {}
    BY <1>1, <1>2 DEF StrideNumbers
  <2>2. matches[NextStride] = {}
    BY <1>1, <1>2
  <2> QED
    BY <1>4, <1>5, <1>8, <2>1, <2>2 DEF CurrentMatches
<1>10. CurrentIsLast'
  BY <1>4, <1>5, <1>7 DEF CurrentIsLast
<1>11. BatchesDisjoint' /\ StrideComplete'
  BY <1>4, <1>5 DEF ComparerInv, BatchesDisjoint, StrideComplete
<1> QED
  BY <1>6, <1>9, <1>10, <1>11 DEF ComparerInv

\* What a step that leaves the batches and the matches alone keeps.
LEMMA QuietKeeps ==
  ASSUME ComparerInv, Sent' = Sent, matches' = matches, comparing' = comparing
  PROVE  /\ BatchesDisjoint' /\ StrideComplete'
         /\ phase' = "idle" \/ phase # "idle" => CurrentIsLast'
  BY DEF ComparerInv, BatchesDisjoint, StrideComplete, CurrentIsLast

\* A comparison without a match, whatever the numerics answered.
LEMMA NoMatchKeeps ==
  ASSUME ComparerInv, NEW pair \in AllPairs \ asked, phase = "compare",
         SkipPair(pair) \/ \E found \in BOOLEAN : NoMatch(pair, found, TRUE),
         asked' = asked \union {pair}, UNCHANGED <<phase, matches, received>>
  PROVE  ComparerInv'
<1>1. UNCHANGED <<comparing, resultsBuffer, resultsChannel>>
  BY DEF SkipPair, NoMatch, comparerVars
<1>2. Sent' = Sent
  BY <1>1 DEF Sent
<1>3. HistoryTypes'
  BY <1>1 DEF ComparerInv, HistoryTypes
<1>4. CurrentMatches'
  BY <1>1, <1>2 DEF ComparerInv, CurrentMatches
<1> QED
  BY <1>1, <1>2, <1>3, <1>4, QuietKeeps DEF ComparerInv

\* The facts that every step of the current stride starts from.
LEMMA CurrentFacts ==
  ASSUME ComparerInv, phase # "idle"
  PROVE  /\ comparing \in StrideNumbers /\ Sent \in Seq(Batches) /\ matches \in Found
         /\ Apart(Sent) /\ Complete(Sent, matches) /\ UpTo(Sent, comparing)
  BY SentIsBatches, PropertiesOfSent DEF ComparerInv, HistoryTypes, CurrentIsLast, UpTo

\* A match, which stays in the buffer or completes a batch that is sent.
LEMMA MatchKeeps ==
  ASSUME ComparerInv, NEW pair \in AllPairs \ asked, phase = "compare", Match(pair),
         matches' = [matches EXCEPT ![comparing] = @ \union {pair}],
         asked' = asked \union {pair}, UNCHANGED <<phase, received>>
  PROVE  ComparerInv'
<1> DEFINE batch == resultsBuffer \union {pair}
<1>1. /\ comparing \in StrideNumbers /\ Sent \in Seq(Batches) /\ matches \in Found
      /\ Apart(Sent) /\ Complete(Sent, matches) /\ UpTo(Sent, comparing)
  BY CurrentFacts
<1>2. /\ matches' \in Found /\ Grown(matches, matches', comparing)
      /\ matches'[comparing] = matches[comparing] \union {pair}
      /\ comparing' = comparing
  BY <1>1 DEF Found, Grown, Match
<1>3. Complete(Sent, matches')
  BY <1>1, <1>2, FindingKeeps
<1>4. /\ resultsBuffer \in SUBSET AllPairs /\ IsFiniteSet(resultsBuffer)
      /\ Cardinality(resultsBuffer) < BufferSize /\ Cardinality(resultsBuffer) \in Nat
      /\ matches[comparing] \subseteq asked
      /\ matches[comparing] = resultsBuffer \union PairsOf(Sent, comparing)
      /\ resultsBuffer \intersect PairsOf(Sent, comparing) = {}
  BY <1>1, FS_CardinalityType DEF ComparerInv, HistoryTypes, CurrentMatches
<1>5. /\ batch \in SUBSET AllPairs /\ IsFiniteSet(batch) /\ batch # {}
      /\ Cardinality(batch) \in Nat /\ Cardinality(batch) <= BufferSize
      /\ batch \subseteq matches'[comparing]
      /\ matches'[comparing] = batch \union PairsOf(Sent, comparing)
      /\ batch \intersect PairsOf(Sent, comparing) = {}
  <2>1. pair \notin resultsBuffer /\ pair \notin PairsOf(Sent, comparing)
    BY <1>4
  <2>2. IsFiniteSet(batch) /\ Cardinality(batch) = Cardinality(resultsBuffer) + 1
    BY <1>4, <2>1, FS_AddElement
  <2>3. Cardinality(batch) \in Nat /\ Cardinality(batch) <= BufferSize
    BY <1>4, <2>2, ComparerAssumption
  <2> QED
    BY <1>2, <1>4, <2>1, <2>2, <2>3
<1>6. /\ \A s \in StrideNumbers : s > comparing => matches'[s] = {}
      /\ matches'[comparing] \subseteq asked'
  BY <1>1, <1>2, <1>4 DEF ComparerInv, CurrentMatches, Grown, StrideNumbers
<1> HIDE DEF batch
<1>7. CASE Cardinality(batch) < BufferSize /\ resultsBuffer' = batch /\ UNCHANGED resultsChannel
  <2>1. Sent' = Sent
    BY <1>7 DEF Sent
  <2>2. HistoryTypes'
    BY <1>2, <1>5, <1>7 DEF ComparerInv, HistoryTypes
  <2>3. CurrentMatches'
    BY <1>2, <1>5, <1>6, <1>7, <2>1 DEF CurrentMatches
  <2>4. CurrentIsLast'
    BY <1>2, <2>1 DEF ComparerInv, CurrentIsLast
  <2>5. BatchesDisjoint' /\ StrideComplete'
    <3>1. BatchesDisjoint'
      BY <2>1 DEF ComparerInv, BatchesDisjoint
    <3>2. StrideComplete'
      BY <1>3, <2>1 DEF StrideComplete, Complete, PairsOf
    <3> QED
      BY <3>1, <3>2
  <2> QED
    BY <2>2, <2>3, <2>4, <2>5 DEF ComparerInv
<1>8. CASE /\ resultsChannel = <<>> /\ resultsChannel' = <<Batch(batch)>>
           /\ resultsBuffer' = {}
  <2>1. Batch(batch) \in Batches /\ Batch(batch).stride = comparing /\ Batch(batch).pairs = batch
    BY <1>1, <1>5 DEF Batch, Batches
  <2>2. PICK b \in Batches : b = Batch(batch) /\ b.stride = comparing /\ b.pairs = batch
    BY <2>1
  <2>3. Sent' = Append(Sent, b)
    BY <1>8, <2>2, SendAppends DEF ComparerInv
  <2>4. Apart(Sent') /\ Complete(Sent', matches')
    BY <1>1, <1>2, <1>3, <1>5, <2>2, <2>3, SendingKeeps
  <2>5. PairsOf(Sent', comparing) = PairsOf(Sent, comparing) \union batch
    BY <1>1, <2>2, <2>3, PairsOfAppend
  <2>6. HistoryTypes'
    BY <1>2, <1>8, <2>1, FS_EmptySet, ComparerAssumption DEF ComparerInv, HistoryTypes
  <2>7. CurrentMatches'
    BY <1>2, <1>5, <1>6, <1>8, <2>5 DEF CurrentMatches
  <2>8. CurrentIsLast'
    BY <1>1, <1>2, <1>5, <2>2, <2>3 DEF UpTo, CurrentIsLast, StrideNumbers
  <2>9. BatchesDisjoint' /\ StrideComplete'
    <3>1. BatchesDisjoint'
      BY <2>4 DEF BatchesDisjoint, Apart
    <3>2. StrideComplete'
      BY <2>4 DEF StrideComplete, Complete, PairsOf
    <3> QED
      BY <3>1, <3>2
  <2> QED
    BY <2>6, <2>7, <2>8, <2>9 DEF ComparerInv
<1> QED
  BY <1>7, <1>8 DEF Match, batch

\* StopStride sends what is left, and then the end marker.
LEMMA StopKeeps ==
  ASSUME ComparerInv, Leftover \/ End
  PROVE  ComparerInv'
<1> DEFINE last == IF phase = "leftover" THEN resultsBuffer ELSE {}
<1>1. /\ phase \in {"leftover", "end"} /\ resultsChannel = <<>> /\ resultsChannel' = <<Batch(last)>>
      /\ phase' = IF phase = "leftover" THEN "end" ELSE "idle"
      /\ UNCHANGED <<comparing, resultsBuffer, asked, matches, received>>
  BY DEF Leftover, End, SendLeftover, SendEnd
<1>2. /\ comparing \in StrideNumbers /\ Sent \in Seq(Batches) /\ matches \in Found
      /\ Apart(Sent) /\ Complete(Sent, matches) /\ UpTo(Sent, comparing)
  BY <1>1, CurrentFacts
<1>3. /\ last \in SUBSET AllPairs /\ Cardinality(last) <= BufferSize
      /\ last \subseteq matches[comparing]
      /\ last \intersect PairsOf(Sent, comparing) = {}
      /\ matches[comparing] = PairsOf(Sent, comparing) \union last
      /\ phase = "leftover" => last # {}
  <2>1. CASE phase = "leftover"
    <3>1. IsFiniteSet(resultsBuffer) /\ Cardinality(resultsBuffer) \in Nat
          /\ Cardinality(resultsBuffer) <= BufferSize
      BY FS_CardinalityType, ComparerAssumption DEF ComparerInv, HistoryTypes
    <3> QED
      BY <2>1, <3>1 DEF ComparerInv, HistoryTypes, CurrentMatches
  <2>2. CASE phase = "end"
    BY <2>2, FS_EmptySet, ComparerAssumption DEF ComparerInv, HistoryTypes, CurrentMatches
  <2> QED
    BY <1>1, <2>1, <2>2
<1> HIDE DEF last
<1>4. PICK b \in Batches : b = Batch(last) /\ b.stride = comparing /\ b.pairs = last
  <2>1. Batch(last) \in Batches /\ Batch(last).stride = comparing /\ Batch(last).pairs = last
    BY <1>2, <1>3 DEF Batch, Batches
  <2> QED
    BY <2>1
<1>5. Sent' = Append(Sent, b)
  BY <1>1, <1>4, SendAppends DEF ComparerInv
<1>6. Apart(Sent') /\ Complete(Sent', matches)
  BY <1>2, <1>3, <1>4, <1>5, SendingKeeps
<1>7. PairsOf(Sent', comparing) = PairsOf(Sent, comparing) \union last
  BY <1>2, <1>4, <1>5, PairsOfAppend
<1>8. HistoryTypes'
  BY <1>1, <1>4 DEF ComparerInv, HistoryTypes
<1>9. CurrentMatches'
  BY <1>1, <1>3, <1>7 DEF ComparerInv, CurrentMatches
<1>10. CurrentIsLast'
  BY <1>1, <1>2, <1>3, <1>4, <1>5 DEF UpTo, CurrentIsLast, StrideNumbers
<1>11. BatchesDisjoint' /\ StrideComplete'
  BY <1>1, <1>6 DEF BatchesDisjoint, StrideComplete, Apart, Complete, PairsOf
<1> QED
  BY <1>8, <1>9, <1>10, <1>11 DEF ComparerInv

LEMMA ComparerInvStep ==
  ASSUME ComparerInv, [HistoryNext]_historyVars
  PROVE  ComparerInv'
<1>1. CASE Start
  BY <1>1, StartKeeps
<1>2. CASE StartAgain
  <2>1. comparing \in StrideNumbers
    BY <1>2, CurrentFacts DEF StartAgain
  <2>2. UNCHANGED <<comparing, phase, resultsBuffer, resultsChannel, received, matches, asked>>
    BY <1>2, <2>1 DEF StartAgain, StartStride, RejectStride, BeginStride, Repeated, comparerVars, StrideNumbers
  <2>3. Sent' = Sent
    BY <2>2 DEF Sent
  <2> QED
    BY <2>2, <2>3, QuietKeeps DEF ComparerInv, HistoryTypes, CurrentMatches, CurrentIsLast
<1>3. CASE Compare
  <2>1. PICK pair \in AllPairs \ asked :
          /\ asked' = asked \union {pair}
          /\ \/ (SkipPair(pair) \/ NoMatch(pair, FALSE, TRUE)) /\ UNCHANGED matches
             \/ NoMatch(pair, TRUE, TRUE) /\ UNCHANGED matches
             \/ Match(pair) /\ matches' = [matches EXCEPT ![comparing] = @ \union {pair}]
    BY <1>3 DEF Compare, AllPairs
  <2>2. phase = "compare" /\ UNCHANGED <<phase, received>>
    BY <1>3 DEF Compare
  <2> QED
    BY <2>1, <2>2, NoMatchKeeps, MatchKeeps
<1>4. CASE Stop \/ Fail
  <2>1. UNCHANGED <<comparing, resultsBuffer, resultsChannel, received, matches, asked>>
    BY <1>4 DEF Stop, Fail, comparerVars
  <2>2. /\ phase = "compare"
        /\ phase' = "idle" \/ phase' = IF resultsBuffer = {} THEN "end" ELSE "leftover"
    BY <1>4 DEF Stop, Fail
  <2>3. Sent' = Sent
    BY <2>1 DEF Sent
  <2>4. HistoryTypes' /\ CurrentMatches'
    BY <2>1, <2>2, <2>3 DEF ComparerInv, HistoryTypes, CurrentMatches
  <2> QED
    BY <2>1, <2>2, <2>3, <2>4, QuietKeeps DEF ComparerInv
<1>5. CASE Leftover \/ End
  BY <1>5, StopKeeps
<1>6. CASE Receive
  <2>1. UNCHANGED <<comparing, resultsBuffer, phase, matches, asked>>
    BY <1>6 DEF Receive, TakeBatch
  <2>2. Sent' = Sent /\ received' \in Seq(Batches) /\ resultsChannel' = <<>>
    BY <1>6, TakeKeeps DEF ComparerInv
  <2>3. HistoryTypes' /\ CurrentMatches'
    BY <2>1, <2>2 DEF ComparerInv, HistoryTypes, CurrentMatches
  <2> QED
    BY <2>1, <2>2, <2>3, QuietKeeps DEF ComparerInv
<1>7. CASE UNCHANGED historyVars
  <2>1. UNCHANGED <<comparing, resultsBuffer, resultsChannel, phase, matches, asked, received>>
    BY <1>7 DEF historyVars, comparerVars
  <2>2. Sent' = Sent
    BY <2>1 DEF Sent
  <2>3. HistoryTypes' /\ CurrentMatches'
    BY <2>1, <2>2 DEF ComparerInv, HistoryTypes, CurrentMatches
  <2> QED
    BY <2>1, <2>2, <2>3, QuietKeeps DEF ComparerInv
<1> QED
  BY <1>1, <1>2, <1>3, <1>4, <1>5, <1>6, <1>7 DEF HistoryNext

\* The comparer's invariant, on which the other theorems rest (in_process_comparisons.go).
THEOREM ComparerInvariance == HistorySpec => []ComparerInv
  BY ComparerInvInit, ComparerInvStep, PTL DEF HistorySpec

-----------------------------------------------------------------------------
(* The theorems *)

\* Never more than BufferSize matches in a batch, and no match in two of them
\* (base_comparer.go).
THEOREM NoMatchSentTwice == HistorySpec => []BatchesDisjoint
<1>1. ComparerInv => BatchesDisjoint
  BY DEF ComparerInv
<1> QED
  BY <1>1, ComparerInvariance, PTL

\* When the end marker of a stride is out, so is every match of the stride, and nothing
\* of the stride comes after it (StopStride).
THEOREM EndMeansComplete == HistorySpec => []StrideComplete
<1>1. ComparerInv => StrideComplete
  BY DEF ComparerInv
<1> QED
  BY <1>1, ComparerInvariance, PTL
=============================================================================
