--------------------------- MODULE HandlersProofs ---------------------------
(***************************************************************************)
(* Proofs about Handlers: for every number of strides, ids, cache size,    *)
(* ages and contents, what a request answers is right or an error, and the *)
(* correlations of a timeline are correlations, whatever the scan does     *)
(* meanwhile.  A timeline that nothing disturbs is complete, unless an id  *)
(* was given to more than two strides.                                     *)
(*                                                                         *)
(* No lock protects what a request reads.  That it never sees a part of    *)
(* the edge files of a stride that was processed rests on Held: all of     *)
(* them are there or none, and none come back, since the result file is    *)
(* gone by then or is the next thing to go (Going).  The directory goes    *)
(* before the file only by age, in a scan that also removes the file:      *)
(* writing the edges made the directory the younger of the two             *)
(* (DirectoriesYoung), and the loop takes its entries by age (LoopInv).    *)
(*                                                                         *)
(* The first part says how the operators of the scan prune a world, the    *)
(* second that each step keeps what is held, the third follows a request.  *)
(* The last follows a timeline through the slots (TimelineInv): so far it  *)
(* is complete for the strides in those that it has passed.  It looks a    *)
(* slot up by the id of its stride, so that this takes ids that differ     *)
(* among the strides that are offered (OfferedIdsDiffer, ExplorerProofs).  *)
(***************************************************************************)
EXTENDS Handlers, ExplorerProofs

-----------------------------------------------------------------------------
(* What the scan takes away *)

Processed(s) == [stride |-> s, status |-> "processed"]

\* From w to v files and directories are only removed, and slots of strides that were
\* processed lost with the file; except, maybe, those of some strides.
Pruned(w, v, except) ==
  \A s \in Strides :
    /\ v.file[s] = w.file[s] \/ v.file[s] = NoFile
    /\ \/ v.directory[s] = w.directory[s] /\ (s \in v.extracted <=> s \in w.extracted)
       \/ v.directory[s] = NoDirectory /\ s \notin v.extracted
    /\ s \notin except =>
         \A i \in Slots : w.cache[i] = Processed(s) => v.cache[i] = Processed(s) \/ v.file[s] = NoFile
    /\ \A i \in Slots : v.cache[i] = Processed(s) => w.cache[i] = Processed(s)

LEMMA PrunedTransitive ==
  ASSUME NEW u, NEW v, NEW w, NEW except, Pruned(u, v, except), Pruned(v, w, except)
  PROVE  Pruned(u, w, except)
<1> SUFFICES ASSUME NEW s \in Strides
             PROVE  /\ w.file[s] = u.file[s] \/ w.file[s] = NoFile
                    /\ \/ w.directory[s] = u.directory[s] /\ (s \in w.extracted <=> s \in u.extracted)
                       \/ w.directory[s] = NoDirectory /\ s \notin w.extracted
                    /\ s \notin except =>
                         \A i \in Slots : u.cache[i] = Processed(s) => w.cache[i] = Processed(s) \/ w.file[s] = NoFile
                    /\ \A i \in Slots : w.cache[i] = Processed(s) => u.cache[i] = Processed(s)
  BY DEF Pruned
<1>1. /\ v.file[s] = u.file[s] \/ v.file[s] = NoFile
      /\ \/ v.directory[s] = u.directory[s] /\ (s \in v.extracted <=> s \in u.extracted)
         \/ v.directory[s] = NoDirectory /\ s \notin v.extracted
      /\ s \notin except =>
           \A i \in Slots : u.cache[i] = Processed(s) => v.cache[i] = Processed(s) \/ v.file[s] = NoFile
      /\ \A i \in Slots : v.cache[i] = Processed(s) => u.cache[i] = Processed(s)
  BY DEF Pruned
<1>2. /\ w.file[s] = v.file[s] \/ w.file[s] = NoFile
      /\ \/ w.directory[s] = v.directory[s] /\ (s \in w.extracted <=> s \in v.extracted)
         \/ w.directory[s] = NoDirectory /\ s \notin w.extracted
      /\ s \notin except =>
           \A i \in Slots : v.cache[i] = Processed(s) => w.cache[i] = Processed(s) \/ w.file[s] = NoFile
      /\ \A i \in Slots : w.cache[i] = Processed(s) => v.cache[i] = Processed(s)
  BY DEF Pruned
<1> QED
  BY <1>1, <1>2

LEMMA PrunedSelf ==
  ASSUME NEW w, NEW except
  PROVE  Pruned(w, w, except)
BY DEF Pruned

LEMMA RemovedPrunes ==
  ASSUME Setting, NEW w \in Worlds, NEW s \in Strides, NEW e \in EntryOf(s), NEW except
  PROVE  Pruned(w, Removed(w, e), except)
<1> DEFINE v == Removed(w, e)
<1>1. /\ v.cache = w.cache
      /\ v.file = IF e.isDir THEN w.file ELSE [w.file EXCEPT ![s] = NoFile]
      /\ v.directory = IF e.isDir THEN [w.directory EXCEPT ![s] = NoDirectory] ELSE w.directory
      /\ v.extracted = IF e.isDir THEN w.extracted \ {s} ELSE w.extracted
  BY SettingFacts, RemovedFacts
<1>2. w.file \in Files /\ w.directory \in [Strides -> {NoDirectory} \union 0 .. TooOld]
  BY DEF Worlds
<1> HIDE DEF v
<1> QED
  BY <1>1, <1>2 DEF Pruned, v, Files

LEMMA BothRemovedPrunes ==
  ASSUME Setting, NEW w \in Worlds, NEW s \in Strides, NEW except
  PROVE  Pruned(w, BothRemoved(w, s), except)
<1> DEFINE v == BothRemoved(w, s)
<1>1. /\ v.cache = w.cache
      /\ v.file = [w.file EXCEPT ![s] = NoFile]
      /\ v.directory = [w.directory EXCEPT ![s] = NoDirectory]
      /\ v.extracted = w.extracted \ {s}
  BY SettingFacts, BothRemovedFacts
<1>2. w.file \in Files /\ w.directory \in [Strides -> {NoDirectory} \union 0 .. TooOld]
  BY DEF Worlds
<1> HIDE DEF v
<1> QED
  BY <1>1, <1>2 DEF Pruned, v, Files

\* A slot gets another stride or status.
LEMMA SlotPrunes ==
  ASSUME NEW w \in Worlds, NEW v, NEW i \in Slots, NEW entry, entry.status # "processed", NEW except,
         v.file = w.file, v.directory = w.directory, v.extracted = w.extracted,
         v.cache = [w.cache EXCEPT ![i] = entry],
         \/ w.cache[i].status # "processed"
         \/ w.file[w.cache[i].stride] = NoFile
         \/ w.cache[i].stride \in except
  PROVE  Pruned(w, v, except)
<1> SUFFICES ASSUME NEW s \in Strides, NEW j \in Slots
             PROVE  /\ s \notin except /\ w.cache[j] = Processed(s) => v.cache[j] = Processed(s) \/ v.file[s] = NoFile
                    /\ v.cache[j] = Processed(s) => w.cache[j] = Processed(s)
  BY DEF Pruned
<1>1. w.cache \in [Slots -> CacheSlots]
  BY DEF Worlds
<1>2. Processed(s).status = "processed" /\ Processed(s).stride = s
  BY DEF Processed
<1>3. v.cache[j] = IF j = i THEN entry ELSE w.cache[j]
  BY <1>1
<1> QED
  BY <1>2, <1>3

LEMMA SetStatusPrunes ==
  ASSUME NEW w \in Worlds, Contiguous(w), CachedOnce(w), NEW s \in Strides, NEW status, status # "processed", NEW except,
         \/ \A i \in Slots : w.cache[i].stride = s => w.cache[i].status # "processed"
         \/ w.file[s] = NoFile
         \/ s \in except
  PROVE  Pruned(w, SetStatus(w, s, status), except)
<1> DEFINE i == SlotOf(w, s)
           v == SetStatus(w, s, status)
<1>1. CASE i = 0
  BY <1>1, PrunedSelf DEF SetStatus
<1>2. CASE i # 0
  <2>1. i \in Slots /\ w.cache[i].stride = s
    BY <1>2, SlotOfFacts
  <2>2. v = [w EXCEPT !.cache[i].status = status]
    BY <1>2 DEF SetStatus
  <2> HIDE DEF i, v
  <2>3. w.cache[i] \in CacheSlots /\ w.cache \in [Slots -> CacheSlots] /\ w.cache[i] # Nil
    BY <2>1, NilFacts DEF Worlds
  <2> DEFINE entry == [w.cache[i] EXCEPT !.status = status]
  <2>4. v = [w EXCEPT !.cache = [w.cache EXCEPT ![i] = entry]]
    BY <2>2
  <2>5. entry.status = status
    BY <2>3, NilFacts
  <2> HIDE DEF entry
  <2>6. /\ v.file = w.file /\ v.directory = w.directory /\ v.extracted = w.extracted
        /\ v.cache = [w.cache EXCEPT ![i] = entry]
    BY <2>4 DEF Worlds
  <2>7. Pruned(w, v, except)
    BY <2>1, <2>5, <2>6, SlotPrunes
  <2> QED
    BY <2>7 DEF v
<1> QED
  BY <1>1, <1>2

LEMMA SupersededPrunes ==
  ASSUME Setting, NEW w, Good(w), NEW s \in 1 .. written, NEW e \in EntryOf(s), NEW except
  PROVE  /\ Pruned(w, Superseded(w, e), except)
         /\ \A j \in Slots : w.cache[j].stride = s => Superseded(w, e).cache[j] = w.cache[j]
<1> DEFINE S == {j \in Slots : Before(w, j) /\ StrideId[w.cache[j].stride] = StrideId[e.stride]}
           i == First(S)
           known == w.cache[i].stride
<1>1. w \in Worlds /\ s \in Strides /\ e.stride = s /\ maxAgeSeconds \in Nat
  BY SettingFacts DEF Good, EntryOf
<1>2. Superseded(w, e) = IF i = 0 \/ known = e.stride THEN w
                         ELSE IF known < e.stride THEN [BothRemoved(w, known) EXCEPT !.cache[i].status = "deleted"]
                         ELSE Removed(w, e)
  BY DEF Superseded
<1>3. CASE i = 0 \/ known = e.stride
  BY <1>2, <1>3, PrunedSelf
<1>4. CASE i # 0 /\ known # e.stride /\ known < e.stride
  <2>1. i \in S
    BY <1>4, FirstFacts
  <2>2. i \in Slots /\ w.cache[i] # Nil
    <3> HIDE DEF i
    <3>1. i \in Slots
      BY <2>1
    <3>2. i \in 1 .. i
      BY <3>1, SlotsAreNumbers
    <3> QED
      BY <2>1, <3>2 DEF Before
  <2> DEFINE u == BothRemoved(w, known)
             entry == [w.cache[i] EXCEPT !.status = "deleted"]
             v == [u EXCEPT !.cache[i].status = "deleted"]
  <2>3. w.cache[i] \in CacheSlots /\ known \in Strides
    BY <1>1, <2>2, NilFacts DEF Worlds
  <2>4. entry.status = "deleted"
    BY <2>3, <2>2, NilFacts
  <2>5. /\ u \in Worlds
        /\ u.cache = w.cache
        /\ u.file = [w.file EXCEPT ![known] = NoFile]
    BY <1>1, <2>3, BothRemovedFacts
  <2>6. Pruned(w, u, except)
    BY <1>1, <2>3, BothRemovedPrunes
  <2>7. Superseded(w, e) = v
    BY <1>2, <1>4
  <2> HIDE DEF u, i
  <2>8. v = [u EXCEPT !.cache = [u.cache EXCEPT ![i] = entry]]
    BY <2>5
  <2> HIDE DEF v, entry
  <2>9. /\ v.file = u.file /\ v.directory = u.directory /\ v.extracted = u.extracted
        /\ v.cache = [u.cache EXCEPT ![i] = entry]
    BY <2>5, <2>8 DEF Worlds
  <2>10. u.file[known] = NoFile
    BY <2>3, <2>5, <1>1 DEF Worlds, Files
  <2>11. Pruned(u, v, except)
    BY <2>2, <2>4, <2>5, <2>9, <2>10, SlotPrunes
  <2>12. Pruned(w, v, except)
    BY <2>6, <2>11, PrunedTransitive
  <2>13. \A j \in Slots : w.cache[j].stride = s => v.cache[j] = w.cache[j]
    BY <1>1, <1>4, <2>5, <2>9 DEF Worlds
  <2> QED
    BY <2>7, <2>12, <2>13
<1>5. CASE i # 0 /\ known # e.stride /\ ~(known < e.stride)
  <2>1. Superseded(w, e) = Removed(w, e)
    BY <1>2, <1>5
  <2>2. Removed(w, e).cache = w.cache
    BY <1>1, RemovedFacts
  <2> QED
    BY <1>1, <2>1, <2>2, RemovedPrunes
<1> QED
  BY <1>3, <1>4, <1>5

LEMMA AddedPrunes ==
  ASSUME Setting, NEW w, Good(w), NEW s \in Strides, NEW except
  PROVE  Pruned(w, Added(w, s), except)
<1> DEFINE entry == [stride |-> s, status |-> "exists"]
           v == Added(w, s)
<1>1. w \in Worlds /\ maxAgeSeconds \in Nat
  BY SettingFacts DEF Good
<1>2. CASE FreeSlot(w) # 0
  <2> DEFINE i == FreeSlot(w)
  <2>1. i \in Slots /\ w.cache[i].status \in {"nil", "deleted"}
    <3> DEFINE S == {j \in Slots : w.cache[j].status \in {"nil", "deleted"}}
    <3>1. First(S) \in S
      BY <1>2, FirstFacts DEF FreeSlot
    <3> QED
      BY <3>1 DEF FreeSlot
  <2>2. v = [w EXCEPT !.cache[i] = entry]
    BY <1>2 DEF Added
  <2> HIDE DEF v, i
  <2>3. /\ v.file = w.file /\ v.directory = w.directory /\ v.extracted = w.extracted
        /\ v.cache = [w.cache EXCEPT ![i] = entry]
    BY <1>1, <2>2 DEF Worlds
  <2>4. entry.status # "processed"
    OBVIOUS
  <2> HIDE DEF entry
  <2>5. Pruned(w, v, except)
    BY <1>1, <2>1, <2>3, <2>4, SlotPrunes
  <2> QED
    BY <2>5 DEF v
<1>3. CASE FreeSlot(w) = 0
  <2> DEFINE o == OldestSlot(w)
             k == w.cache[o].stride
             u == BothRemoved(w, k)
  <2>1. o \in Slots
    BY <1>1, OldestSlotFacts
  <2>2. w.cache[o] # Nil
    <3>1. \A j \in Slots : w.cache[j].status \notin {"nil", "deleted"}
      BY <1>1, <1>3, FreeSlotFacts
    <3> QED
      BY <2>1, <3>1, NilFacts
  <2>3. k \in Strides
    BY <1>1, <2>1, <2>2, NilFacts DEF Worlds
  <2>4. v = [u EXCEPT !.cache[o] = entry]
    BY <1>3 DEF Added
  <2> HIDE DEF o
  <2>5. /\ u \in Worlds
        /\ u.cache = w.cache
        /\ u.file = [w.file EXCEPT ![k] = NoFile]
    BY <1>1, <2>3, BothRemovedFacts
  <2>6. Pruned(w, u, except)
    BY <1>1, <2>3, BothRemovedPrunes
  <2> HIDE DEF u, v
  <2>7. /\ v.file = u.file /\ v.directory = u.directory /\ v.extracted = u.extracted
        /\ v.cache = [u.cache EXCEPT ![o] = entry]
    BY <2>4, <2>5 DEF Worlds
  <2>8. u.file[k] = NoFile
    BY <2>3, <2>5, <1>1 DEF Worlds, Files
  <2>9. entry.status # "processed"
    OBVIOUS
  <2> HIDE DEF entry
  <2>10. Pruned(u, v, except)
    BY <2>1, <2>5, <2>7, <2>8, <2>9, SlotPrunes
  <2>11. Pruned(w, v, except)
    BY <2>6, <2>10, PrunedTransitive
  <2> QED
    BY <2>11 DEF v
<1> QED
  BY <1>2, <1>3

LEMMA CachedPrunes ==
  ASSUME Setting, NEW w, Good(w), NEW s \in Strides, NEW except
  PROVE  Pruned(w, Cached(w, s), except)
BY AddedPrunes, PrunedSelf DEF Cached

-----------------------------------------------------------------------------
(* What a request may rely on *)

HasEdges(s) == DOMAIN content[s].edges # {}

\* Edge files are written after the result file, which is complete then, and make their directory
\* young: it never is older than the file.
DirectoriesYoung ==
  \A s \in Strides : HasEdges(s) /\ s \in extracted =>
    /\ directory[s] # NoDirectory
    /\ file[s].content \in {"none", "complete"}
    /\ file[s].content = "complete" => directory[s] <= file[s].age

FileEntry(s) == [isDir |-> FALSE, stride |-> s, age |-> file[s].age]

\* In the loop, entries have the ages they had when it began, and a file that is too old is
\* still among them.
LoopInv ==
  scan.at = "loop" =>
    /\ \A e \in scan.left : Exists(World, e) => Age(World, e) = e.age
    /\ \A s \in Strides : file[s].content # "none" => FileEntry(s) \in scan.left \/ ~Outlived(file, s)

ReadInv ==
  scan.at = "read" =>
    \A i \in Slots : strideCache[i].stride = scan.stride => strideCache[i].status \in {"exists", "retrying"}

Whole(s) == s \in extracted \/ directory[s] = NoDirectory
ProcessedNow(s) == \E i \in Slots : strideCache[i] = Processed(s)

\* The file is about to be removed: nothing of what is left in this loop is read.
Going(s) ==
  /\ scan.at = "loop"
  /\ \A e \in scan.left : IsTooOld(e) \/ ~Exists(World, e)
  /\ \E e \in scan.left : ~e.isDir /\ e.stride = s

\* A stride that was processed has all of its edge files or none, from then on.
Held(s) ==
  /\ s \in 1 .. written
  /\ HasEdges(s) => /\ Whole(s)
                    /\ ProcessedNow(s) \/ file[s].content = "none" \/ Going(s)

OfferedHeld == \A i \in Slots : IsProcessed(i) => Held(strideCache[i].stride)

DiskInv == DirectoriesYoung /\ LoopInv /\ ReadInv /\ OfferedHeld

-----------------------------------------------------------------------------
(* The scan keeps what a request may rely on *)

\* What is held stays held, and never is processed anew.
KeepsHeld ==
  \A s \in Strides : Held(s) =>
    /\ Held(s)'
    /\ HasEdges(s) => \A i \in Slots : strideCache'[i] = Processed(s) => strideCache[i] = Processed(s)

LEMMA DiskFacts ==
  ASSUME ExplorerInv
  PROVE  /\ Setting /\ Good(World) /\ World \in Worlds
         /\ file \in Files /\ directory \in [Strides -> {NoDirectory} \union 0 .. TooOld]
         /\ strideCache \in [Slots -> CacheSlots] /\ extracted \subseteq Strides
         /\ \A i \in Slots : IsProcessed(i) <=> \E s \in Strides : strideCache[i] = Processed(s)
         /\ \A i \in Slots : IsProcessed(i) => strideCache[i].stride \in Strides /\ strideCache[i] = Processed(strideCache[i].stride)
<1>1. /\ Setting /\ Good(World) /\ World \in Worlds
      /\ file \in Files /\ directory \in [Strides -> {NoDirectory} \union 0 .. TooOld]
      /\ strideCache \in [Slots -> CacheSlots] /\ extracted \subseteq Strides
  BY WorldFacts DEF ExplorerInv, WorldInv, Good, Worlds
<1>2. ASSUME NEW i \in Slots
      PROVE  /\ IsProcessed(i) <=> \E s \in Strides : strideCache[i] = Processed(s)
             /\ IsProcessed(i) => strideCache[i].stride \in Strides /\ strideCache[i] = Processed(strideCache[i].stride)
  <2>1. strideCache[i] \in CacheSlots
    BY <1>1
  <2>2. strideCache[i].status = "processed" =>
          /\ strideCache[i].stride \in Strides
          /\ strideCache[i] = [stride |-> strideCache[i].stride, status |-> "processed"]
    BY <2>1, NilFacts
  <2>3. \A s \in Strides : strideCache[i] = [stride |-> s, status |-> "processed"] => strideCache[i].status = "processed"
    OBVIOUS
  <2> QED
    BY <2>2, <2>3 DEF IsProcessed, Processed
<1> QED
  BY <1>1, <1>2

LEMMA OfferedStep ==
  ASSUME ExplorerInv, ExplorerInv', OfferedHeld, \A s \in Strides : Held(s) => Held(s)',
         \A s \in Strides, i \in Slots : strideCache'[i] = Processed(s) => strideCache[i] = Processed(s) \/ Held(s)'
  PROVE  OfferedHeld'
<1> SUFFICES ASSUME NEW i \in Slots, IsProcessed(i)'
             PROVE  Held(strideCache[i].stride)'
  BY DEF OfferedHeld
<1>1. PICK s \in Strides : strideCache'[i] = Processed(s)
  <2>1. strideCache'[i] \in CacheSlots
    BY DEF ExplorerInv, WorldInv, Good, Worlds, World
  <2>2. strideCache'[i].status = "processed"
    BY DEF IsProcessed
  <2> QED
    BY <2>1, <2>2, NilFacts DEF Processed
<1>2. strideCache'[i].stride = s
  BY <1>1 DEF Processed
<1>3. CASE strideCache[i] = Processed(s)
  <2>1. IsProcessed(i) /\ strideCache[i].stride = s
    BY <1>3 DEF IsProcessed, Processed
  <2>2. Held(s)
    BY <2>1 DEF OfferedHeld
  <2>3. Held(s)'
    BY <2>2
  <2> QED
    BY <2>3, <1>2
<1> QED
  BY <1>1, <1>2, <1>3

\* A step out of the loop: files and directories are removed, and a directory may be made.
LEMMA StepOutside ==
  ASSUME ExplorerInv, ExplorerInv', DirectoriesYoung, OfferedHeld, Alone, content' = content,
         \A s \in Strides : ~Going(s),
         NEW u, Pruned(World, u, {}), NEW v, Becomes(v),
         v.file = u.file, v.cache = u.cache, v.extracted = u.extracted,
         \A s \in Strides : v.directory[s] = u.directory[s] \/ (u.directory[s] = NoDirectory /\ (HasEdges(s) => ~Held(s)))
  PROVE  DirectoriesYoung' /\ OfferedHeld' /\ KeepsHeld
<1>1. file' = u.file /\ strideCache' = u.cache /\ extracted' = u.extracted /\ directory' = v.directory
  BY DEF Becomes
<1>2. \A s : HasEdges(s)' <=> HasEdges(s)
  BY DEF HasEdges
<1>3. \A s \in Strides :
        /\ file'[s] = file[s] \/ file'[s] = NoFile
        /\ \/ u.directory[s] = directory[s] /\ (s \in extracted' <=> s \in extracted)
           \/ u.directory[s] = NoDirectory /\ s \notin extracted'
        /\ \A i \in Slots : strideCache[i] = Processed(s) => strideCache'[i] = Processed(s) \/ file'[s] = NoFile
        /\ \A i \in Slots : strideCache'[i] = Processed(s) => strideCache[i] = Processed(s)
  BY <1>1, WorldFacts DEF Pruned
<1>4. DirectoriesYoung'
  <2> SUFFICES ASSUME NEW s \in Strides, HasEdges(s), s \in extracted'
               PROVE  /\ directory'[s] # NoDirectory
                      /\ file'[s].content \in {"none", "complete"}
                      /\ file'[s].content = "complete" => directory'[s] <= file'[s].age
    BY <1>2 DEF DirectoriesYoung
  <2>1. s \in extracted /\ u.directory[s] = directory[s]
    BY <1>3
  <2>2. /\ directory[s] # NoDirectory
        /\ file[s].content \in {"none", "complete"}
        /\ file[s].content = "complete" => directory[s] <= file[s].age
    BY <2>1 DEF DirectoriesYoung
  <2>3. directory'[s] = directory[s]
    BY <1>1, <2>1, <2>2
  <2> QED
    BY <2>2, <2>3, <1>3 DEF NoFile
<1>5. ASSUME NEW s \in Strides, Held(s)
      PROVE  Held(s)'
  <2>1. s \in 1 .. written'
    BY <1>5 DEF Held, Alone
  <2>2. ASSUME HasEdges(s)
        PROVE  Whole(s)' /\ (ProcessedNow(s)' \/ file'[s].content = "none")
    <3>1. Whole(s) /\ (ProcessedNow(s) \/ file[s].content = "none")
      BY <1>5, <2>2 DEF Held
    <3>2. directory'[s] = u.directory[s]
      BY <1>1, <1>5, <2>2
    <3>3. Whole(s)'
      BY <3>1, <3>2, <1>3 DEF Whole
    <3>4. CASE ProcessedNow(s)
      BY <3>3, <3>4, <1>3 DEF ProcessedNow, NoFile
    <3>5. CASE file[s].content = "none"
      BY <3>3, <3>5, <1>3 DEF NoFile
    <3> QED
      BY <3>1, <3>3, <3>4, <3>5
  <2> QED
    BY <2>1, <2>2, <1>2 DEF Held
<1>6. KeepsHeld
  BY <1>3, <1>5 DEF KeepsHeld
<1>7. OfferedHeld'
  BY <1>3, <1>5, OfferedStep
<1> QED
  BY <1>4, <1>6, <1>7

\* When a directory expires, so do all entries that are left, and the result file is among them.
LEMMA LastToGo ==
  ASSUME ExplorerInv, DirectoriesYoung, LoopInv, NEW e \in scan.left, InHand(e),
         Exists(World, e), IsTooOld(e), e.isDir,
         HasEdges(e.stride), Held(e.stride), file[e.stride].content # "none"
  PROVE  Going(e.stride)
<1> DEFINE s == e.stride
<1>1. s \in Strides /\ scan.at = "loop" /\ \A other \in scan.left : e.age <= other.age
  BY InHandFacts DEF InHand
<1>2. directory[s] # NoDirectory /\ Age(World, e) = directory[s] /\ e.age = directory[s]
  BY <1>1, WorldFacts DEF Exists, Age, LoopInv
<1>3. s \in extracted
  BY <1>2 DEF Held, Whole
<1>4. file[s].content = "complete" /\ directory[s] <= file[s].age
  BY <1>1, <1>3 DEF DirectoriesYoung
<1>5. directory[s] \in Nat /\ file[s].age \in Nat /\ maxAgeSeconds \in Nat
  BY <1>1, <1>2, DiskFacts, SettingFacts DEF Files
<1>6. maxAgeSeconds > 0 /\ directory[s] > maxAgeSeconds
  BY <1>2 DEF IsTooOld
<1>7. Outlived(file, s)
  BY <1>4, <1>5, <1>6 DEF Outlived
<1>8. FileEntry(s) \in scan.left
  BY <1>1, <1>7 DEF LoopInv
<1>9. ASSUME NEW other \in scan.left, Exists(World, other)
      PROVE  IsTooOld(other)
  <2>1. Age(World, other) = other.age /\ e.age <= other.age /\ other.age \in Nat
    BY <1>1, <1>9 DEF LoopInv, ExplorerInv, ScanInv
  <2> QED
    BY <2>1, <1>2, <1>5, <1>6 DEF IsTooOld
<1>10. ~FileEntry(s).isDir /\ FileEntry(s).stride = s
  BY DEF FileEntry
<1> QED
  BY <1>1, <1>8, <1>9, <1>10 DEF Going

\* An entry of the loop is done with, and only removals are made.
LEMMA StepInLoop ==
  ASSUME ExplorerInv, ExplorerInv', DiskInv, Alone, content' = content,
         NEW e \in scan.left, InHand(e), Continue(e),
         NEW except, NEW v, Pruned(World, v, except), Becomes(v),
         e.isDir \/ v.file[e.stride].content = "none" \/ ~Outlived(file, e.stride),
         except = {} \/ (except = {e.stride} /\ Exists(World, e) /\ IsTooOld(e) /\ e.isDir)
  PROVE  DiskInv' /\ KeepsHeld
<1>1. file' = v.file /\ strideCache' = v.cache /\ extracted' = v.extracted /\ directory' = v.directory
  BY DEF Becomes
<1>2. \A s : HasEdges(s)' <=> HasEdges(s)
  BY DEF HasEdges
<1>3. \A s \in Strides :
        /\ file'[s] = file[s] \/ file'[s] = NoFile
        /\ \/ directory'[s] = directory[s] /\ (s \in extracted' <=> s \in extracted)
           \/ directory'[s] = NoDirectory /\ s \notin extracted'
        /\ s \notin except =>
             \A i \in Slots : strideCache[i] = Processed(s) => strideCache'[i] = Processed(s) \/ file'[s] = NoFile
        /\ \A i \in Slots : strideCache'[i] = Processed(s) => strideCache[i] = Processed(s)
  BY <1>1, WorldFacts DEF Pruned
<1>4. scan.at = "loop" /\ scan'.at = "loop" /\ scan'.left = scan.left \ {e}
  BY DEF InHand, Continue, ExplorerInv, ScanRecord
<1>5. \A s : Outlived(file, s) /\ file'[s] = file[s] <=> Outlived(file, s)' /\ file'[s] = file[s]
  BY DEF Outlived, Alone
<1>6. \A other \in scan.left : other.stride \in Strides /\ other.isDir \in BOOLEAN
  BY <1>4, SettingFacts DEF ExplorerInv, ScanInv
<1>7. \A other \in scan.left : Exists(World, other)' => Exists(World, other) /\ Age(World, other)' = Age(World, other)
  BY <1>3, <1>6 DEF Exists, Age, World, NoFile
<1>8. DirectoriesYoung'
  BY <1>2, <1>3 DEF DirectoriesYoung, DiskInv, NoFile
<1>9. ReadInv'
  BY <1>4 DEF ReadInv
<1>10. LoopInv'
  <2>1. ASSUME NEW other \in scan'.left, Exists(World, other)'
        PROVE  Age(World, other)' = other.age
    BY <1>4, <1>7, <2>1 DEF LoopInv, DiskInv
  <2>2. ASSUME NEW s \in Strides, file'[s].content # "none", Outlived(file, s)'
        PROVE  FileEntry(s)' \in scan'.left
    <3>1. file'[s] = file[s]
      BY <1>3, <2>2 DEF NoFile
    <3>2. Outlived(file, s)
      BY <1>5, <2>2, <3>1
    <3>3. FileEntry(s) \in scan.left
      BY <1>4, <2>2, <3>1, <3>2 DEF LoopInv, DiskInv
    <3>4. FileEntry(s)' = FileEntry(s)
      BY <3>1 DEF FileEntry
    <3>5. e # FileEntry(s)
      BY <1>1, <2>2, <3>1, <3>2 DEF FileEntry, NoFile
    <3> QED
      BY <1>4, <3>3, <3>4, <3>5
  <2> QED
    BY <2>1, <2>2 DEF LoopInv
<1>11. ASSUME NEW s \in Strides, Held(s), HasEdges(s)
       PROVE  Whole(s)' /\ (ProcessedNow(s)' \/ file'[s].content = "none" \/ Going(s)')
  <2>1. Whole(s) /\ (ProcessedNow(s) \/ file[s].content = "none" \/ Going(s))
    BY <1>11 DEF Held
  <2>2. Whole(s)'
    BY <2>1, <1>3 DEF Whole
  <2>3. CASE file'[s].content = "none"
    BY <2>2, <2>3
  <2>4. CASE file'[s].content # "none" /\ Going(s)
    <3>1. file'[s] = file[s] /\ file'[s] # NoFile
      BY <1>3, <2>4 DEF NoFile
    <3>2. \A other \in scan'.left : IsTooOld(other)' \/ ~Exists(World, other)'
      BY <1>4, <1>7, <2>4 DEF Going, IsTooOld, Alone
    <3>3. PICK other \in scan.left : ~other.isDir /\ other.stride = s
      BY <2>4 DEF Going
    <3>4. CASE other = e
      <4>1. IsTooOld(e) \/ ~Exists(World, e)
        BY <2>4 DEF Going
      <4>2. Exists(World, e)
        BY <2>4, <3>1, <3>3, <3>4, WorldFacts DEF Exists
      <4>3. Outlived(file, s)
        BY <3>3, <3>4, <4>1, <4>2, WorldFacts DEF IsTooOld, Age, Outlived
      <4> QED
        BY <1>1, <2>4, <3>3, <3>4, <4>3
    <3>5. CASE other # e
      <4>1. Going(s)'
        BY <1>4, <3>2, <3>3, <3>5 DEF Going
      <4> QED
        BY <2>2, <4>1
    <3> QED
      BY <3>4, <3>5
  <2>5. CASE file'[s].content # "none" /\ ProcessedNow(s) /\ s \notin except
    <3>1. ProcessedNow(s)'
      BY <1>3, <2>5 DEF ProcessedNow, NoFile
    <3> QED
      BY <2>2, <3>1
  <2>6. CASE file'[s].content # "none" /\ s \in except
    <3>1. s = e.stride /\ Exists(World, e) /\ IsTooOld(e) /\ e.isDir
      BY <2>6
    <3>2. file[s].content # "none"
      BY <1>3, <2>6 DEF NoFile
    <3>3. Going(s)
      BY <1>11, <3>1, <3>2, LastToGo DEF DiskInv
    <3> QED
      BY <2>4, <2>6, <3>3
  <2>7. file[s].content = "none" => file'[s].content = "none"
    BY <1>3 DEF NoFile
  <2> QED
    BY <2>1, <2>3, <2>4, <2>5, <2>6, <2>7
<1>12. \A s \in Strides : Held(s) => Held(s)'
  BY <1>2, <1>11 DEF Held, Alone
<1>13. OfferedHeld'
  BY <1>3, <1>12, OfferedStep DEF DiskInv
<1>14. KeepsHeld
  BY <1>3, <1>12 DEF KeepsHeld
<1> QED
  BY <1>8, <1>9, <1>10, <1>13, <1>14 DEF DiskInv

-----------------------------------------------------------------------------
(* Each step of the scan *)

ScanKeeps == DiskInv' /\ KeepsHeld

LEMMA BeginScanKeeps ==
  ASSUME ExplorerInv, ExplorerInv', DiskInv, BeginScan, content' = content
  PROVE  ScanKeeps
<1>1. Becomes(World) /\ Alone /\ World' = World
  BY DEF BeginScan, Becomes, World, Alone
<1>2. scan.at = "idle" /\ scan' = [at |-> "loop", left |-> Entries, stride |-> 0, age |-> 0]
  BY DEF BeginScan, Idle
<1>3. DirectoriesYoung' /\ OfferedHeld' /\ KeepsHeld
  BY <1>1, <1>2, PrunedSelf, StepOutside DEF DiskInv, Going
<1>4. ReadInv'
  BY <1>2 DEF ReadInv
<1>5. LoopInv'
  <2>1. ASSUME NEW e \in Entries
        PROVE  Age(World, e) = e.age
    <3>1. CASE \E s \in Strides : file[s].content # "none" /\ e = [isDir |-> FALSE, stride |-> s, age |-> file[s].age]
      BY <3>1, WorldFacts DEF Age
    <3>2. CASE \E s \in Strides : directory[s] # NoDirectory /\ e = [isDir |-> TRUE, stride |-> s, age |-> directory[s]]
      BY <3>2, WorldFacts DEF Age
    <3> QED
      BY <2>1, <3>1, <3>2 DEF Entries
  <2>2. \A s \in Strides : file[s].content # "none" => FileEntry(s) \in Entries
    BY DEF FileEntry, Entries
  <2>3. \A e : Age(World, e)' = Age(World, e)
    BY <1>1 DEF Age
  <2>4. \A s : FileEntry(s)' = FileEntry(s) /\ file'[s] = file[s]
    BY DEF FileEntry, BeginScan
  <2> QED
    BY <1>2, <2>1, <2>2, <2>3, <2>4 DEF LoopInv
<1> QED
  BY <1>3, <1>4, <1>5 DEF ScanKeeps, DiskInv

LEMMA EndScanKeeps ==
  ASSUME ExplorerInv, ExplorerInv', DiskInv, EndScan, content' = content
  PROVE  ScanKeeps
<1>1. Becomes(World) /\ Alone
  BY DEF EndScan, Becomes, World, Alone
<1>2. scan.left = {} /\ scan'.at = "idle"
  BY DEF EndScan, Idle
<1>3. DirectoriesYoung' /\ OfferedHeld' /\ KeepsHeld
  BY <1>1, <1>2, PrunedSelf, StepOutside DEF DiskInv, Going
<1> QED
  BY <1>2, <1>3 DEF ScanKeeps, DiskInv, ReadInv, LoopInv

LEMMA SkipVanishedKeeps ==
  ASSUME ExplorerInv, ExplorerInv', DiskInv, NEW e \in scan.left, SkipVanished(e), Alone, content' = content
  PROVE  ScanKeeps
<1>1. InHand(e) /\ Continue(e) /\ Becomes(World) /\ ~Exists(World, e)
  BY DEF SkipVanished
<1>2. e.isDir \/ World.file[e.stride].content = "none"
  BY <1>1 DEF Exists
<1> QED
  BY <1>1, <1>2, PrunedSelf, StepInLoop DEF ScanKeeps

LEMMA ExpireKeeps ==
  ASSUME ExplorerInv, ExplorerInv', DiskInv, NEW e \in scan.left, Expire(e), Alone, content' = content
  PROVE  ScanKeeps
<1> DEFINE s == e.stride
           except == IF e.isDir THEN {s} ELSE {}
           u == Superseded(World, e)
           w == Removed(u, e)
           v == SetStatus(w, s, "deleted")
<1>1. InHand(e) /\ Continue(e) /\ Becomes(v) /\ IsTooOld(e) /\ Exists(World, e)
  BY DEF Expire, Expired
<1>2. s \in 1 .. written /\ s \in Strides /\ e \in EntryOf(s) /\ e.isDir \in BOOLEAN
  BY <1>1, InHandFacts DEF EntryOf
<1>3. Setting /\ Good(World) /\ Servable(World) /\ maxAgeSeconds \in Nat
  BY SettingFacts DEF ExplorerInv, WorldInv
<1>4. Good(u) /\ u \in Worlds
  BY <1>2, <1>3, SupersededTends DEF Tended, Good
<1>5. Pruned(World, u, except)
  BY <1>2, <1>3, SupersededPrunes
<1> HIDE DEF u
<1>6. Pruned(u, w, except)
  BY <1>2, <1>3, <1>4, RemovedPrunes
<1>7. /\ w \in Worlds /\ w.cache = u.cache
      /\ ~e.isDir => w.file[s] = NoFile
  <2>1. w \in Worlds /\ w.cache = u.cache /\ w.file = IF e.isDir THEN u.file ELSE [u.file EXCEPT ![s] = NoFile]
    BY <1>2, <1>3, <1>4, RemovedFacts
  <2>2. u.file \in Files
    BY <1>4 DEF Worlds
  <2> HIDE DEF w
  <2> QED
    BY <1>2, <2>1, <2>2 DEF Files
<1> HIDE DEF w
<1>8. Contiguous(w) /\ CachedOnce(w)
  BY <1>4, <1>7 DEF Good, Contiguous, CachedOnce
<1>9. w.file[s] = NoFile \/ s \in except
  BY <1>7
<1>10. Pruned(w, v, except)
  <2> HIDE DEF except, s
  <2> QED
    BY <1>2, <1>7, <1>8, <1>9, SetStatusPrunes
<1>11. Pruned(World, v, except)
  BY <1>5, <1>6, <1>10, PrunedTransitive
<1>12. e.isDir \/ v.file[s].content = "none"
  BY <1>2, <1>7, <1>10 DEF Pruned, NoFile
<1> HIDE DEF v
<1> QED
  BY <1>1, <1>11, <1>12, StepInLoop DEF ScanKeeps

LEMMA VisitDirectoryKeeps ==
  ASSUME ExplorerInv, ExplorerInv', DiskInv, NEW e \in scan.left, VisitDirectory(e), Alone, content' = content
  PROVE  ScanKeeps
<1> DEFINE s == e.stride
           w == Superseded(World, e)
           v == SetStatus(w, s, "processing")
<1>1. InHand(e) /\ Exists(World, e) /\ ~IsTooOld(e) /\ e.isDir
  BY DEF VisitDirectory
<1>2. s \in 1 .. written /\ s \in Strides /\ e \in EntryOf(s)
  BY <1>1, InHandFacts
<1>3. Setting /\ Good(World) /\ Servable(World)
  BY DEF ExplorerInv, WorldInv
<1>4. Good(w) /\ w \in Worlds
  BY <1>2, <1>3, SupersededTends DEF Tended, Good
<1>5. Pruned(World, w, {})
  BY <1>2, <1>3, SupersededPrunes
<1>6. CASE Becomes(w) /\ Continue(e)
  BY <1>1, <1>5, <1>6, StepInLoop DEF ScanKeeps
<1>7. CASE Status(w, s) = "read" /\ Becomes(v) /\ scan' = [Idle EXCEPT !.at = "extract", !.stride = s]
  <2> HIDE DEF w
  <2>1. \A i \in Slots : w.cache[i].stride = s => w.cache[i].status # "processed"
    <3>1. SlotOf(w, s) # 0 /\ w.cache[SlotOf(w, s)].status = "read"
      BY <1>7 DEF Status
    <3>2. SlotOf(w, s) \in Slots /\ w.cache[SlotOf(w, s)].stride = s
      BY <1>2, <1>4, <3>1, SlotOfFacts DEF Good
    <3>3. w.cache[SlotOf(w, s)] # Nil
      BY <1>2, <3>2, NilFacts
    <3> QED
      BY <1>4, <3>1, <3>2, <3>3 DEF Good, CachedOnce
  <2>2. Pruned(w, v, {})
    <3> HIDE DEF s
    <3> QED
      BY <1>2, <1>4, <2>1, SetStatusPrunes DEF Good
  <2>3. Pruned(World, v, {})
    BY <1>5, <2>2, PrunedTransitive
  <2>4. \A t \in Strides : ~Going(t)
    BY <1>1 DEF Going
  <2> HIDE DEF v
  <2>5. DirectoriesYoung' /\ OfferedHeld' /\ KeepsHeld
    BY <1>7, <2>3, <2>4, StepOutside DEF DiskInv
  <2>6. scan'.at = "extract"
    BY <1>7 DEF Idle
  <2> QED
    BY <2>5, <2>6 DEF ScanKeeps, DiskInv, ReadInv, LoopInv
<1> QED
  BY <1>6, <1>7 DEF VisitDirectory

LEMMA VisitFileKeeps ==
  ASSUME ExplorerInv, ExplorerInv', DiskInv, NEW e \in scan.left, VisitFile(e), Alone, content' = content
  PROVE  ScanKeeps
<1> DEFINE s == e.stride
           w == Superseded(World, e)
           cached == Cached(w, s)
           v == WithDirectory(cached, s)
<1>1. InHand(e) /\ Exists(World, e) /\ ~IsTooOld(e) /\ ~e.isDir
  BY DEF VisitFile
<1>2. s \in 1 .. written /\ s \in Strides /\ e \in EntryOf(s)
  BY <1>1, InHandFacts
<1>3. Setting /\ Good(World) /\ Servable(World) /\ file \in Files
  BY DiskFacts DEF ExplorerInv, WorldInv
<1>4. Good(w) /\ w \in Worlds /\ Servable(w)
  BY <1>2, <1>3, SupersededTends DEF Tended, Good
<1>5. /\ Pruned(World, w, {})
      /\ \A j \in Slots : strideCache[j].stride = s => w.cache[j] = strideCache[j]
  BY <1>2, <1>3, SupersededPrunes, WorldFacts
<1> HIDE DEF w
<1>6. Pruned(World, cached, {})
  <2>1. Pruned(w, cached, {})
    BY <1>2, <1>3, <1>4, CachedPrunes
  <2> HIDE DEF cached
  <2> QED
    BY <2>1, <1>5, PrunedTransitive
<1>7. ~Outlived(file, s)
  BY <1>1, WorldFacts DEF IsTooOld, Age, Outlived
<1>8. CASE Becomes(w) /\ Continue(e)
  BY <1>1, <1>5, <1>7, <1>8, StepInLoop DEF ScanKeeps
<1>9. CASE Becomes(cached) /\ Continue(e)
  <2> HIDE DEF cached
  <2> QED
    BY <1>1, <1>6, <1>7, <1>9, StepInLoop DEF ScanKeeps
<1>10. ASSUME file[s].content # "empty", Status(cached, s) \in {"exists", "retrying"}
       PROVE  /\ file[s].content \in {"partial", "complete"}
              /\ Good(cached) /\ cached \in Worlds
              /\ \A i \in Slots : cached.cache[i].stride = s => cached.cache[i].status \in {"exists", "retrying"}
  <2>1. file[s].content \in {"partial", "complete"}
    <3>1. file[s].content # "none"
      BY <1>1, WorldFacts DEF Exists
    <3> QED
      BY <3>1, <1>2, <1>3, <1>10 DEF Files
  <2>2. s \in begun
    BY <2>1, <1>2, <1>3, WorldFacts DEF Good, Known
  <2>3. Good(cached) /\ cached \in Worlds
    <3>1. Tended(w, cached)
      BY <1>3, <1>4, <2>2, CachedTends
    <3> QED
      BY <3>1 DEF Tended, Good
  <2> HIDE DEF cached
  <2>4. \A i \in Slots : cached.cache[i].stride = s => cached.cache[i].status \in {"exists", "retrying"}
    <3>1. SlotOf(cached, s) # 0 /\ cached.cache[SlotOf(cached, s)].status \in {"exists", "retrying"}
      BY <1>10 DEF Status
    <3>2. SlotOf(cached, s) \in Slots /\ cached.cache[SlotOf(cached, s)].stride = s
      BY <1>2, <2>3, <3>1, SlotOfFacts DEF Good
    <3>3. cached.cache[SlotOf(cached, s)] # Nil
      BY <1>2, <3>2, NilFacts
    <3> QED
      BY <2>3, <3>1, <3>2, <3>3 DEF Good, CachedOnce
  <2> QED
    BY <2>1, <2>3, <2>4
<1>11. CASE /\ file[s].content # "empty"
            /\ Status(cached, s) \in {"exists", "retrying"}
            /\ Becomes(v)
            /\ scan' = [Idle EXCEPT !.at = "read", !.stride = s, !.age = Age(World, e)]
  <2>1. file[s].content \in {"partial", "complete"} /\ Good(cached) /\ cached \in Worlds
    BY <1>10, <1>11
  <2>2. \A i \in Slots : strideCache[i] # Processed(s)
    <3> SUFFICES ASSUME NEW i \in Slots, strideCache[i] = Processed(s)
                 PROVE  FALSE
      OBVIOUS
    <3>1. w.cache[i] = Processed(s) /\ w.cache[i].stride = s /\ w.cache[i].status = "processed"
      BY <1>5 DEF Processed
    <3>2. SlotOf(w, s) \in Slots /\ SlotOf(w, s) # 0 /\ w.cache[SlotOf(w, s)].stride = s
      BY <1>2, <1>4, <3>1, SlotOfFacts DEF Good
    <3>3. SlotOf(w, s) = i
      <4>1. w.cache[i] # Nil
        BY <3>1, NilFacts
      <4> QED
        BY <4>1, <3>1, <3>2, <1>4 DEF Good, CachedOnce
    <3>4. Status(cached, s) = "processed"
      BY <3>1, <3>2, <3>3 DEF Cached, Status
    <3> QED
      BY <3>4, <1>11
  <2>3. \A i \in Slots : cached.cache[i].stride = s => cached.cache[i].status \in {"exists", "retrying"}
    BY <1>10, <1>11
  <2> HIDE DEF cached
  <2>4. \A t \in Strides : ~Going(t)
    BY <1>1 DEF Going
  <2>5. HasEdges(s) => ~Held(s)
    BY <2>1, <2>2, <2>4, <1>2 DEF Held, ProcessedNow
  <2>6. v.file = cached.file /\ v.cache = cached.cache /\ v.extracted = cached.extracted
        /\ \A t \in Strides : v.directory[t] = cached.directory[t] \/ (cached.directory[t] = NoDirectory /\ t = s)
    <3>1. CASE cached.directory[s] # NoDirectory
      BY <3>1 DEF WithDirectory
    <3>2. CASE cached.directory[s] = NoDirectory
      <4>1. v = [cached EXCEPT !.directory = [cached.directory EXCEPT ![s] = 0]]
        BY <3>2 DEF WithDirectory
      <4> HIDE DEF v
      <4> QED
        BY <2>1, <3>2, <4>1, <1>2 DEF Worlds
    <3> QED
      BY <3>1, <3>2
  <2> HIDE DEF v
  <2>7. \A t \in Strides : v.directory[t] = cached.directory[t] \/ (cached.directory[t] = NoDirectory /\ (HasEdges(t) => ~Held(t)))
    BY <2>5, <2>6
  <2>8. DirectoriesYoung' /\ OfferedHeld' /\ KeepsHeld
    BY <1>6, <1>11, <2>4, <2>6, <2>7, StepOutside DEF DiskInv
  <2>9. scan'.at = "read" /\ scan'.stride = s
    BY <1>11 DEF Idle
  <2>10. ReadInv'
    <3>1. strideCache' = cached.cache
      BY <1>11, <2>6 DEF Becomes
    <3> QED
      BY <3>1, <2>3, <2>9 DEF ReadInv
  <2> QED
    BY <2>8, <2>9, <2>10 DEF ScanKeeps, DiskInv, LoopInv
<1>12. CASE /\ file[s].content # "empty"
            /\ Status(cached, s) \in {"exists", "retrying"}
            /\ Becomes(SetStatus(cached, s, "error"))
            /\ Continue(e)
  <2>1. /\ Good(cached) /\ cached \in Worlds
        /\ \A i \in Slots : cached.cache[i].stride = s => cached.cache[i].status # "processed"
    BY <1>10, <1>12
  <2> HIDE DEF cached, s
  <2>2. Pruned(cached, SetStatus(cached, s, "error"), {})
    BY <1>2, <2>1, SetStatusPrunes DEF Good
  <2>3. Pruned(World, SetStatus(cached, s, "error"), {})
    BY <1>6, <2>2, PrunedTransitive
  <2> QED
    BY <1>1, <1>7, <1>12, <2>3, StepInLoop DEF ScanKeeps, s
<1> QED
  BY <1>8, <1>9, <1>11, <1>12 DEF VisitFile, w

LEMMA ReadFileKeeps ==
  ASSUME ExplorerInv, ExplorerInv', DiskInv, ReadFile, content' = content
  PROVE  ScanKeeps
<1> DEFINE s == scan.stride
           status == IF file[s].content = "complete" THEN "read" ELSE AfterFailure(scan.age)
           v == SetStatus(World, s, status)
<1>1. scan.at = "read" /\ scan'.at = "idle" /\ Becomes(v) /\ Alone
  BY DEF ReadFile, Idle, Alone
<1>2. s \in Strides /\ World \in Worlds /\ Good(World)
  BY <1>1, DiskFacts DEF ExplorerInv, ScanInv
<1>3. status # "processed"
  BY DEF AfterFailure
<1>4. \A i \in Slots : World.cache[i].stride = s => World.cache[i].status # "processed"
  BY <1>1, WorldFacts DEF DiskInv, ReadInv
<1>5. Pruned(World, v, {})
  <2> HIDE DEF s, status
  <2> QED
    BY <1>2, <1>3, <1>4, SetStatusPrunes DEF Good
<1>6. \A t \in Strides : ~Going(t)
  BY <1>1 DEF Going
<1> HIDE DEF v
<1>7. DirectoriesYoung' /\ OfferedHeld' /\ KeepsHeld
  BY <1>1, <1>5, <1>6, StepOutside DEF DiskInv
<1> QED
  BY <1>1, <1>7 DEF ScanKeeps, DiskInv, LoopInv, ReadInv

\* The one step that makes a stride processed: all of its edge files are there then. New ones make the
\* directory young.
LEMMA ExtractEdgesKeeps ==
  ASSUME ExplorerInv, ExplorerInv', DiskInv, ExtractEdges, content' = content,
         scan.stride \in extracted' \ extracted /\ HasEdges(scan.stride) => directory'[scan.stride] = 0
  PROVE  ScanKeeps
<1>1. scan.at = "extract" /\ scan'.at = "idle" /\ Alone
  BY DEF ExtractEdges, Idle, Alone
<1>0. PICK s \in Strides : s = scan.stride
  BY <1>1 DEF ExplorerInv, ScanInv
<1>2. /\ World \in Worlds /\ Good(World) /\ Setting /\ file \in Files
      /\ directory \in [Strides -> {NoDirectory} \union 0 .. TooOld] /\ TooOld \in Nat
      /\ strideCache \in [Slots -> CacheSlots] /\ extracted \subseteq Strides
  BY <1>1, DiskFacts, SettingFacts DEF ExplorerInv, ScanInv
<1>3. \A i \in Slots : strideCache[i].stride = s => strideCache[i].status = "processing"
  BY <1>0, <1>1 DEF ExplorerInv, ScanInv
<1>4. \A t \in Strides : ~Going(t)
  BY <1>1 DEF Going
<1>5. CASE Becomes(SetStatus(World, s, "error"))
  <2> DEFINE v == SetStatus(World, s, "error")
  <2>1. \A i \in Slots : World.cache[i].stride = s => World.cache[i].status # "processed"
    BY <1>3, WorldFacts
  <2>2. Pruned(World, v, {})
    BY <1>2, <2>1, SetStatusPrunes DEF Good
  <2>3. Becomes(v)
    BY <1>5
  <2> HIDE DEF v
  <2>4. DirectoriesYoung' /\ OfferedHeld' /\ KeepsHeld
    BY <1>1, <1>4, <2>2, <2>3, StepOutside DEF DiskInv
  <2> QED
    BY <1>1, <2>4 DEF ScanKeeps, DiskInv, LoopInv, ReadInv
<1>6. ASSUME NEW d \in {0, directory[s]}, file[s].content = "complete",
             Becomes(SetStatus([World EXCEPT !.directory[s] = d, !.extracted = @ \union {s}], s, "processed"))
      PROVE  ScanKeeps
  <2> DEFINE u == [World EXCEPT !.directory[s] = d, !.extracted = @ \union {s}]
             v == SetStatus(u, s, "processed")
  <2>1. /\ u \in Worlds /\ u.file = file /\ u.cache = strideCache
        /\ u.directory = [directory EXCEPT ![s] = d] /\ u.extracted = extracted \union {s}
    <3>1. [directory EXCEPT ![s] = d] \in [Strides -> {NoDirectory} \union 0 .. TooOld]
      BY <1>2
    <3> QED
      BY <3>1, <1>2 DEF World, Worlds
  <2>2. Contiguous(u) /\ CachedOnce(u)
    BY <1>2, <2>1, WorldFacts DEF Good, Contiguous, CachedOnce
  <2> HIDE DEF u
  <2>0. "processed" \in Statuses
    BY DEF Statuses
  <2>3. /\ v.file = file /\ v.directory = [directory EXCEPT ![s] = d] /\ v.extracted = extracted \union {s}
        /\ \A i \in Slots : v.cache[i] = IF strideCache[i].stride = s THEN Processed(s) ELSE strideCache[i]
    <3>1. LET q == SetStatus(u, s, "processed")
          IN /\ q.file = u.file /\ q.directory = u.directory /\ q.extracted = u.extracted
             /\ \A i \in Slots : q.cache[i] = IF u.cache[i].stride = s THEN [stride |-> s, status |-> "processed"]
                                              ELSE u.cache[i]
      BY <2>0, <2>1, <2>2, SetStatusFacts
    <3> HIDE DEF v
    <3>2. /\ v.file = u.file /\ v.directory = u.directory /\ v.extracted = u.extracted
          /\ \A i \in Slots : v.cache[i] = IF u.cache[i].stride = s THEN [stride |-> s, status |-> "processed"]
                                           ELSE u.cache[i]
      BY <3>1 DEF v
    <3> QED
      BY <2>1, <3>2 DEF Processed
  <2>4. Becomes(v)
    BY <1>6 DEF u
  <2> HIDE DEF v
  <2>5. /\ file' = file /\ directory' = [directory EXCEPT ![s] = d] /\ extracted' = extracted \union {s}
        /\ \A i \in Slots : strideCache'[i] = IF strideCache[i].stride = s THEN Processed(s) ELSE strideCache[i]
    BY <2>3, <2>4 DEF Becomes
  <2>6. \A t : HasEdges(t)' <=> HasEdges(t)
    BY DEF HasEdges
  <2>7. DirectoriesYoung'
    <3> SUFFICES ASSUME NEW t \in Strides, HasEdges(t), t \in extracted'
                 PROVE  /\ directory'[t] # NoDirectory
                        /\ file'[t].content \in {"none", "complete"}
                        /\ file'[t].content = "complete" => directory'[t] <= file'[t].age
      BY <2>6 DEF DirectoriesYoung
    <3>1. CASE t # s \/ (s \in extracted /\ d = directory[s])
      BY <3>1, <2>5, <1>2 DEF DirectoriesYoung, DiskInv
    <3>2. CASE t = s /\ (s \notin extracted \/ d = 0)
      <4>1. directory'[s] = 0
        BY <3>2, <2>5, <1>0, <1>2 DEF HasEdges
      <4>2. file[s].age \in Nat
        BY <1>2 DEF Files
      <4> QED
        BY <3>2, <4>1, <4>2, <2>5, <1>6 DEF NoDirectory
    <3> QED
      BY <3>1, <3>2, <1>6
  <2>8. \A t \in Strides : Held(t) /\ HasEdges(t) => t # s
    BY <1>3, <1>4, <1>6 DEF Held, ProcessedNow, Processed
  <2>9. ASSUME NEW t \in Strides, Held(t)
        PROVE  Held(t)'
    <3>1. t \in 1 .. written'
      BY <1>1, <2>9 DEF Held, Alone
    <3>2. ASSUME HasEdges(t)
          PROVE  Whole(t)' /\ (ProcessedNow(t)' \/ file'[t].content = "none")
      <4>1. t # s /\ Whole(t) /\ (ProcessedNow(t) \/ file[t].content = "none")
        BY <2>8, <2>9, <3>2, <1>4 DEF Held
      <4>2. Whole(t)'
        BY <4>1, <2>5, <1>2 DEF Whole
      <4>3. ProcessedNow(t) => ProcessedNow(t)'
        BY <4>1, <2>5 DEF ProcessedNow, Processed
      <4> QED
        BY <4>1, <4>2, <4>3, <2>5
    <3> QED
      BY <3>1, <3>2, <2>6 DEF Held
  <2>10. \A t \in Strides, i \in Slots : strideCache'[i] = Processed(t) => strideCache[i] = Processed(t) \/ t = s
    BY <2>5 DEF Processed
  <2>11. KeepsHeld
    BY <2>8, <2>9, <2>10 DEF KeepsHeld
  <2>12. s \in 1 .. written
    <3>1. s <= written /\ s \in Nat /\ s > 0 /\ written \in Nat
      BY <1>2, <1>6, WorldFacts, SettingFacts DEF Good, Known
    <3> QED
      BY <3>1
  <2>13. ASSUME NEW i \in Slots, strideCache'[i] = Processed(s)
         PROVE  Held(s)'
    <3>1. s \in 1 .. written'
      BY <1>1, <2>12 DEF Alone
    <3>2. s \in extracted' /\ \E j \in Slots : strideCache'[j] = Processed(s)
      BY <2>5, <2>13
    <3>3. Whole(s)'
      BY <3>2 DEF Whole
    <3>4. ProcessedNow(s)'
      BY <3>2 DEF ProcessedNow
    <3> QED
      BY <3>1, <3>3, <3>4 DEF Held
  <2>14. OfferedHeld'
    BY <2>9, <2>10, <2>13, OfferedStep DEF DiskInv
  <2> QED
    BY <1>1, <2>7, <2>11, <2>14 DEF ScanKeeps, DiskInv, LoopInv, ReadInv
<1>7. PICK edges \in BOOLEAN, new \in MayBeNew(s) :
        IF file[s].content # "complete" \/ (edges /\ directory[s] = NoDirectory)
        THEN Becomes(SetStatus(World, s, "error"))
        ELSE Becomes(SetStatus([World EXCEPT !.directory[s] = IF edges /\ new THEN 0 ELSE @, !.extracted = @ \union {s}],
                               s, "processed"))
  BY <1>0 DEF ExtractEdges
<1>8. CASE file[s].content = "complete" /\ ~(edges /\ directory[s] = NoDirectory)
  <2> DEFINE d == IF edges /\ new THEN 0 ELSE directory[s]
  <2>1. d \in {0, directory[s]}
    OBVIOUS
  <2>2. [World EXCEPT !.directory[s] = IF edges /\ new THEN 0 ELSE @, !.extracted = @ \union {s}]
          = [World EXCEPT !.directory[s] = d, !.extracted = @ \union {s}]
    BY WorldFacts
  <2>3. Becomes(SetStatus([World EXCEPT !.directory[s] = d, !.extracted = @ \union {s}], s, "processed"))
    BY <1>7, <1>8, <2>2
  <2> HIDE DEF d
  <2> QED
    BY <1>6, <1>8, <2>1, <2>3
<1> QED
  BY <1>5, <1>7, <1>8

-----------------------------------------------------------------------------
(* Each step of the rest of the world *)

\* Files are written and time passes between scans; neither the cache nor what exists of a stride changes.
LEMMA StepBetween ==
  ASSUME ExplorerInv, ExplorerInv', DiskInv, content' = content,
         UNCHANGED <<extracted, strideCache, scan>>, scan.at # "loop",
         \A s \in 1 .. written : s \in 1 .. written',
         \A s \in Strides : directory[s] = NoDirectory => directory'[s] = NoDirectory,
         \A s \in 1 .. written : file[s].content = "none" => file'[s].content = "none",
         DirectoriesYoung'
  PROVE  ScanKeeps
<1>1. \A s : HasEdges(s)' <=> HasEdges(s)
  BY DEF HasEdges
<1>2. \A s : ~Going(s)
  BY DEF Going
<1>3. ASSUME NEW s \in Strides, Held(s)
      PROVE  Held(s)'
  <2>1. s \in 1 .. written /\ s \in 1 .. written'
    BY <1>3 DEF Held
  <2>2. ASSUME HasEdges(s)
        PROVE  Whole(s)' /\ (ProcessedNow(s)' \/ file'[s].content = "none")
    <3>1. Whole(s) /\ (ProcessedNow(s) \/ file[s].content = "none")
      BY <1>2, <1>3, <2>2 DEF Held
    <3> QED
      BY <2>1, <3>1 DEF Whole, ProcessedNow
  <2> QED
    BY <1>1, <2>1, <2>2 DEF Held
<1>4. OfferedHeld'
  BY <1>3, OfferedStep DEF DiskInv
<1>5. KeepsHeld
  BY <1>3 DEF KeepsHeld
<1> QED
  BY <1>4, <1>5 DEF ScanKeeps, DiskInv, LoopInv, ReadInv

LEMMA CreateFileKeeps ==
  ASSUME ExplorerInv, ExplorerInv', DiskInv, CreateFile, content' = content
  PROVE  ScanKeeps
<1>1. /\ file \in Files /\ written \in Nat /\ Strides \subseteq Nat \ {0} /\ 1 .. written \subseteq Strides
      /\ \A s \in Strides : directory[s] # NoDirectory => s <= written
  BY DiskFacts, SettingFacts, WorldFacts DEF Good, Known
<1>2. /\ written' = written + 1 /\ directory' = directory /\ extracted' = extracted /\ scan.at # "loop"
      /\ file' = [file EXCEPT ![written + 1] = [content |-> "empty", age |-> 0]]
  BY DEF CreateFile
<1>3. \A s \in 1 .. written : file'[s] = file[s] /\ s \in 1 .. written'
  <2> SUFFICES ASSUME NEW s \in 1 .. written
               PROVE  file'[s] = file[s] /\ s \in 1 .. written'
    OBVIOUS
  <2>1. s # written + 1 /\ s \in 1 .. written + 1 /\ s \in Strides
    BY <1>1
  <2> QED
    BY <1>1, <1>2, <2>1 DEF Files
<1>4. DirectoriesYoung'
  <2> SUFFICES ASSUME NEW s \in Strides, HasEdges(s), s \in extracted
               PROVE  /\ directory[s] # NoDirectory
                      /\ file'[s].content \in {"none", "complete"}
                      /\ file'[s].content = "complete" => directory[s] <= file'[s].age
    BY <1>2 DEF DirectoriesYoung, HasEdges
  <2>1. s \in 1 .. written
    <3>1. s <= written /\ s \in Nat /\ s > 0
      BY <1>1 DEF DirectoriesYoung, DiskInv
    <3> QED
      BY <3>1, <1>1
  <2> QED
    BY <1>3, <2>1 DEF DirectoriesYoung, DiskInv
<1> QED
  BY <1>2, <1>3, <1>4, StepBetween DEF CreateFile

LEMMA WriteFileKeeps ==
  ASSUME ExplorerInv, ExplorerInv', DiskInv, WriteFile, content' = content
  PROVE  ScanKeeps
<1>1. file \in Files /\ 1 .. written \subseteq Strides
  BY DiskFacts, SettingFacts
<1>2. written' = written /\ directory' = directory /\ extracted' = extracted /\ scan.at # "loop"
  BY DEF WriteFile
<1>3. PICK s \in Strides, new \in {"partial", "complete"} :
        StillOpen(s) /\ file' = [file EXCEPT ![s] = [content |-> new, age |-> 0]]
  BY DEF WriteFile
<1>4. \A t \in Strides : t = s \/ file'[t] = file[t]
  BY <1>1, <1>3 DEF Files
<1>5. file[s].content \in {"empty", "partial"}
  BY <1>3 DEF StillOpen
<1>6. DirectoriesYoung'
  BY <1>2, <1>4, <1>5 DEF DirectoriesYoung, HasEdges, DiskInv
<1>7. \A t \in 1 .. written : file[t].content = "none" => file'[t].content = "none"
  BY <1>1, <1>4, <1>5
<1> QED
  BY <1>2, <1>6, <1>7, StepBetween DEF WriteFile

LEMMA TickKeeps ==
  ASSUME ExplorerInv, ExplorerInv', DiskInv, Tick, content' = content
  PROVE  ScanKeeps
<1>1. /\ file \in Files /\ directory \in [Strides -> {NoDirectory} \union 0 .. TooOld]
      /\ TooOld \in Nat /\ 1 .. written \subseteq Strides
  BY DiskFacts, SettingFacts
<1>2. \A s \in Strides :
        /\ file'[s] = IF file[s].content = "none" THEN NoFile ELSE [file[s] EXCEPT !.age = Older(file[s].age)]
        /\ directory'[s] = IF directory[s] = NoDirectory THEN NoDirectory ELSE Older(directory[s])
  BY DEF Tick
<1>3. \A s \in Strides : file[s].content = "none" => file'[s].content = "none"
  <2>1. NoFile.content = "none"
    BY DEF NoFile
  <2> QED
    BY <1>2, <2>1
<1>4. DirectoriesYoung'
  <2> SUFFICES ASSUME NEW s \in Strides, HasEdges(s), s \in extracted
               PROVE  /\ directory'[s] # NoDirectory
                      /\ file'[s].content \in {"none", "complete"}
                      /\ file'[s].content = "complete" => directory'[s] <= file'[s].age
    BY DEF DirectoriesYoung, HasEdges, Tick
  <2>1. /\ directory[s] # NoDirectory
        /\ file[s].content \in {"none", "complete"}
        /\ file[s].content = "complete" => directory[s] <= file[s].age
    BY DEF DirectoriesYoung, DiskInv
  <2>2. directory[s] \in 0 .. TooOld /\ file[s].age \in 0 .. TooOld
        /\ file[s] \in [content : {"none", "empty", "partial", "complete"}, age : 0 .. TooOld]
    BY <1>1, <2>1 DEF Files
  <2>3. directory'[s] = Older(directory[s]) /\ Older(directory[s]) # NoDirectory
    <3>1. Older(directory[s]) \in 0 .. TooOld
      BY <1>1, <2>2, OlderFacts
    <3>2. \A n \in 0 .. TooOld : n # NoDirectory
      BY <1>1 DEF NoDirectory
    <3>3. directory'[s] = Older(directory[s])
      BY <1>2, <2>1
    <3> QED
      BY <3>1, <3>2, <3>3
  <2>4. CASE file[s].content = "none"
    BY <1>3, <2>3, <2>4
  <2>5. CASE file[s].content = "complete"
    <3>1. file'[s].content = "complete" /\ file'[s].age = Older(file[s].age)
      BY <1>2, <2>2, <2>5
    <3>2. directory[s] <= file[s].age
      BY <2>1, <2>5
    <3>3. Older(directory[s]) <= Older(file[s].age)
      BY <1>1, <2>2, <3>2, OlderFacts
    <3> QED
      BY <2>3, <3>1, <3>3
  <2> QED
    BY <2>1, <2>4, <2>5
<1> QED
  BY <1>1, <1>2, <1>3, <1>4, StepBetween DEF Tick

LEMMA RestartKeeps ==
  ASSUME DiskInv, Restart, content' = content
  PROVE  DiskInv'
<1>1. \A i \in Slots : strideCache'[i] = Nil
  BY DEF Restart
<1>2. OfferedHeld'
  BY <1>1 DEF OfferedHeld, IsProcessed, Nil
<1>3. scan'.at = "idle"
  BY DEF Restart, Idle
<1>4. DirectoriesYoung'
  BY DEF DirectoriesYoung, HasEdges, Restart, DiskInv
<1> QED
  BY <1>2, <1>3, <1>4 DEF DiskInv, LoopInv, ReadInv

\* Any step of the explorer and its surroundings.
LEMMA WorldKeeps ==
  ASSUME ExplorerInv, DiskInv, WorldStep
  PROVE  ExplorerInv' /\ DiskInv' /\ (restarts' = restarts => KeepsHeld)
<1>1. ExplorerInv'
  BY StepKeeps DEF ScanStepIsFine, NothingRemoved, WorldStep
<1>2. content' = content /\ Next
  BY DEF WorldStep
<1>3. CASE VisitEntry
  <2>1. Alone
    BY <1>3 DEF VisitEntry, Alone
  <2>2. PICK e \in scan.left : SkipVanished(e) \/ Expire(e) \/ VisitDirectory(e) \/ VisitFile(e)
    BY <1>3 DEF VisitEntry
  <2> QED
    BY <1>1, <1>2, <2>1, <2>2, SkipVanishedKeeps, ExpireKeeps, VisitDirectoryKeeps, VisitFileKeeps DEF ScanKeeps
<1>4. CASE BeginScan \/ EndScan \/ ReadFile
  BY <1>1, <1>2, <1>4, BeginScanKeeps, EndScanKeeps, ReadFileKeeps DEF ScanKeeps
<1>5. CASE ExtractEdges
  <2>1. scan.at = "extract"
    BY <1>5 DEF ExtractEdges
  <2>2. scan.stride \in extracted' \ extracted /\ HasEdges(scan.stride) => directory'[scan.stride] = 0
    BY <2>1 DEF WorldStep, HasEdges
  <2> QED
    BY <1>1, <1>2, <1>5, <2>2, ExtractEdgesKeeps DEF ScanKeeps
<1>6. CASE CreateFile \/ WriteFile \/ Tick
  BY <1>1, <1>2, <1>6, CreateFileKeeps, WriteFileKeeps, TickKeeps DEF ScanKeeps
<1>7. CASE Restart
  <2>1. restarts' # restarts
    BY <1>7 DEF Restart, ExplorerInv, Setting
  <2> QED
    BY <1>1, <1>2, <1>7, <2>1, RestartKeeps
<1> QED
  BY <1>2, <1>3, <1>4, <1>5, <1>6, <1>7 DEF Next, ScanStep

-----------------------------------------------------------------------------
(* The request *)

HandlerShape ==
  handler = [at |-> handler.at, kind |-> handler.kind, ids |-> handler.ids, slot |-> handler.slot,
             stride |-> handler.stride, checked |-> handler.checked, answer |-> handler.answer,
             read |-> handler.read, correlates |-> handler.correlates, known |-> handler.known,
             points |-> handler.points, calm |-> handler.calm]

UpTo(s, i) == \A j \in Slots : strideCache[j] = Processed(s) => j <= i

PlaceInv ==
  /\ handler.at \in {"none", "latest", "metrics", "edges", "timeline", "extend", "done"}
  /\ handler.at \in {"latest", "timeline", "extend"} => handler.slot \in Slots
  /\ handler.at \notin {"none", "latest"} /\ handler.checked => Held(handler.stride)
  /\ handler.at # "done" => handler.answer = Failed({})
  /\ handler.at \in {"none", "latest", "metrics", "edges"} => handler.points = EmptyBag

\* A point that says that there is a correlation is right and the only one; its slot has been passed.
PointInv(p) ==
  /\ p.ts \in Correlates(p.stride).found
  /\ handler.points[p] = 1
  /\ HasEdges(p.stride) /\ Held(p.stride)
  /\ handler.at \in {"timeline", "extend"} => UpTo(p.stride, handler.slot - 1)

PointsInv == \A p \in BagToSet(handler.points) : p.correlated => PointInv(p)

\* The stride in hand, if it has correlates, is none of those that points were made of.
ReadStrideInv ==
  handler.at = "extend" =>
    /\ handler.correlates = Correlates(handler.read).found
    /\ handler.correlates # {} =>
         /\ HasEdges(handler.read) /\ Held(handler.read) /\ UpTo(handler.read, handler.slot)
         /\ \A p \in BagToSet(handler.points) : p.correlated => p.stride # handler.read

RequestInv == HandlerShape /\ PlaceInv /\ AnswersRight /\ PointsInv /\ ReadStrideInv

HandlersInv == ExplorerInv /\ DiskInv /\ RequestInv

-----------------------------------------------------------------------------
(* What a handler reads of a stride that is held *)

LEMMA SeenFacts ==
  ASSUME NEW s, NEW stride \in Seen(s, TRUE)
  PROVE  /\ stride.metrics = content[s].metrics /\ stride.Rows = content[s].Rows
         /\ stride.edges \in EdgesOnDisk(s)
<1>1. PICK edges \in EdgesOnDisk(s) :
        stride = [metrics |-> content[s].metrics, Rows |-> content[s].Rows, Sizes |-> content[s].Sizes, edges |-> edges]
  BY DEF Seen
<1> QED
  BY <1>1

\* Of a stride that is held, a handler finds all edge files or none.
LEMMA AllOrNone ==
  ASSUME NEW s, Held(s), NEW edges \in EdgesOnDisk(s)
  PROVE  edges = content[s].edges \/ DOMAIN edges = {}
<1>1. CASE s \in extracted
  BY <1>1 DEF EdgesOnDisk
<1>2. CASE s \notin extracted /\ directory[s] = NoDirectory
  BY <1>2 DEF EdgesOnDisk
<1>3. CASE s \notin extracted /\ directory[s] # NoDirectory
  <2>1. DOMAIN content[s].edges = {}
    BY <1>3 DEF Held, Whole, HasEdges
  <2>2. edges \in PartsOf(content[s].edges)
    BY <1>3 DEF EdgesOnDisk
  <2>3. PICK graphs \in SUBSET DOMAIN content[s].edges :
          edges \in [graphs -> UNION {Prefixes(content[s].edges[g]) : g \in graphs}]
    BY <2>2 DEF PartsOf
  <2> QED
    BY <2>1, <2>3
<1> QED
  BY <1>1, <1>2, <1>3

LEMMA WithoutEdges ==
  ASSUME NEW stride, DOMAIN stride.edges = {}, NEW ts, NEW onlyConsider
  PROVE  /\ retrieveCorrelatedTimeseries(stride, ts, onlyConsider).found = {}
         /\ retrieveCorrelatedTimeseries(stride, ts, onlyConsider).ok =>
              /\ ts \in DOMAIN stride.metrics /\ (stride.metrics[ts] \/ ts \notin DOMAIN stride.Rows)
              /\ retrieveCorrelatedTimeseries(stride, ts, onlyConsider) = Found({})
<1>1. \A graph : ~retrieveEdges(stride, graph).ok
  BY DEF retrieveEdges, Failed
<1> QED
  BY <1>1 DEF retrieveCorrelatedTimeseries, Found, Failed

LEMMA SameFields ==
  ASSUME NEW a, NEW b, a.metrics = b.metrics, a.Rows = b.Rows, a.edges = b.edges, NEW ts, NEW onlyConsider
  PROVE  retrieveCorrelatedTimeseries(a, ts, onlyConsider) = retrieveCorrelatedTimeseries(b, ts, onlyConsider)
<1>1. \A graph : retrieveEdges(a, graph) = retrieveEdges(b, graph)
  BY DEF retrieveEdges
<1> QED
  BY <1>1 DEF retrieveCorrelatedTimeseries

\* Hence a lookup is an error or right.
LEMMA LookupRight ==
  ASSUME NEW s, Held(s), NEW stride \in Seen(s, TRUE), NEW ts, NEW onlyConsider,
         retrieveCorrelatedTimeseries(stride, ts, onlyConsider).ok
  PROVE  retrieveCorrelatedTimeseries(stride, ts, onlyConsider) = retrieveCorrelatedTimeseries(content[s], ts, onlyConsider)
<1>1. stride.metrics = content[s].metrics /\ stride.Rows = content[s].Rows
  BY SeenFacts
<1>2. stride.edges = content[s].edges \/ DOMAIN stride.edges = {}
  BY SeenFacts, AllOrNone
<1>3. CASE stride.edges = content[s].edges
  BY <1>1, <1>3, SameFields
<1>4. CASE DOMAIN stride.edges = {}
  <2>1. /\ ts \in DOMAIN content[s].metrics /\ (content[s].metrics[ts] \/ ts \notin DOMAIN content[s].Rows)
        /\ retrieveCorrelatedTimeseries(stride, ts, onlyConsider) = Found({})
    BY <1>1, <1>4, WithoutEdges
  <2>2. retrieveCorrelatedTimeseries(content[s], ts, onlyConsider) = Found({})
    BY <2>1 DEF retrieveCorrelatedTimeseries
  <2> QED
    BY <2>1, <2>2
<1> QED
  BY <1>2, <1>3, <1>4

LEMMA AnswerRight ==
  ASSUME NEW s, Held(s), NEW stride \in Seen(s, TRUE), NEW ids, GetCorrelatedSeries(stride, ids).ok
  PROVE  GetCorrelatedSeries(stride, ids) = GetCorrelatedSeries(content[s], ids)
<1>1. retrieveCorrelatedTimeseries(stride, ids[1], otherRowIds(ids)).ok
  BY DEF GetCorrelatedSeries, Failed
<1>2. retrieveCorrelatedTimeseries(stride, ids[1], otherRowIds(ids))
        = retrieveCorrelatedTimeseries(content[s], ids[1], otherRowIds(ids))
  BY <1>1, LookupRight
<1>3. stride.metrics = content[s].metrics
  BY SeenFacts
<1> QED
  BY <1>2, <1>3 DEF GetCorrelatedSeries

LEMMA CorrelatesHaveEdges ==
  ASSUME NEW s, Correlates(s).found # {}
  PROVE  HasEdges(s)
BY WithoutEdges DEF Correlates, HasEdges

-----------------------------------------------------------------------------
(* The steps of the handler *)

LEMMA BagFacts ==
  /\ BagToSet(EmptyBag) = {}
  /\ \A B : BagToSet(B) = DOMAIN B
BY DEF EmptyBag, SetToBag, BagToSet

LEMMA InitHolds == HandlersInit => HandlersInv
<1> SUFFICES ASSUME HandlersInit
             PROVE  HandlersInv
  OBVIOUS
<1>1. ExplorerInv /\ Init /\ handler = NoRequest
  BY InitEstablishes DEF HandlersInit
<1>2. DiskInv
  <2>1. \A i \in Slots : strideCache[i] = Nil
    BY <1>1 DEF Init
  <2>2. OfferedHeld
    BY <2>1 DEF OfferedHeld, IsProcessed, Nil
  <2>3. scan.at = "idle" /\ extracted = {}
    BY <1>1 DEF Init, Idle
  <2> QED
    BY <2>2, <2>3 DEF DiskInv, DirectoriesYoung, LoopInv, ReadInv
<1>3. RequestInv
  BY <1>1, BagFacts DEF NoRequest, RequestInv, HandlerShape, PlaceInv, AnswersRight, PointsInv, ReadStrideInv
<1> QED
  BY <1>1, <1>2, <1>3 DEF HandlersInv

LEMMA StillHeld ==
  ASSUME ExplorerInv, DiskInv, UNCHANGED <<vars, content>>
  PROVE  /\ ExplorerInv' /\ DiskInv'
         /\ \A s : Held(s)' <=> Held(s)
         /\ \A s : HasEdges(s)' <=> HasEdges(s)
         /\ \A s, i : UpTo(s, i)' <=> UpTo(s, i)
         /\ \A i : IsProcessed(i)' <=> IsProcessed(i)
<1>1. ExplorerInv'
  BY StepKeeps DEF ScanStepIsFine, NothingRemoved
<1>2. \A s : HasEdges(s)' <=> HasEdges(s)
  BY DEF HasEdges
<1>3. /\ file' = file /\ directory' = directory /\ extracted' = extracted /\ strideCache' = strideCache
      /\ scan' = scan /\ written' = written /\ maxAgeSeconds' = maxAgeSeconds
  BY DEF vars
<1>4. World' = World
  BY <1>3 DEF World
<1>5. \A s : Going(s)' <=> Going(s)
  BY <1>3, <1>4 DEF Going, IsTooOld, Exists
<1>6. \A s : Held(s)' <=> Held(s)
  BY <1>2, <1>3, <1>5 DEF Held, Whole, ProcessedNow
<1>7. \A i : IsProcessed(i)' <=> IsProcessed(i)
  BY <1>3 DEF IsProcessed
<1>8. OfferedHeld'
  BY <1>3, <1>6, <1>7 DEF OfferedHeld, DiskInv
<1>9. DirectoriesYoung'
  BY <1>2, <1>3 DEF DirectoriesYoung, DiskInv
<1>10. LoopInv' /\ ReadInv'
  BY <1>3, <1>4 DEF LoopInv, ReadInv, DiskInv, Outlived, FileEntry
<1>11. \A s, i : UpTo(s, i)' <=> UpTo(s, i)
  BY <1>3 DEF UpTo
<1> QED
  BY <1>1, <1>2, <1>6, <1>7, <1>8, <1>9, <1>10, <1>11 DEF DiskInv

\* A request that has made no points yet.
LEMMA WithoutPoints ==
  ASSUME HandlerShape', handler'.points = EmptyBag,
         handler'.at \in {"none", "latest", "metrics", "edges", "timeline", "done"},
         handler'.at \in {"latest", "timeline"} => handler'.slot \in Slots,
         handler'.at \notin {"none", "latest"} /\ handler'.checked => Held(handler.stride)',
         handler'.at # "done" => handler'.answer = Failed({}),
         AnswersRight'
  PROVE  RequestInv'
<1>1. PlaceInv'
  BY DEF PlaceInv
<1>2. PointsInv'
  BY BagFacts DEF PointsInv
<1> QED
  BY <1>1, <1>2 DEF RequestInv, ReadStrideInv

\* A step of the handler that takes it to the end without an answer of its own.
LEMMA FailedIsRight ==
  ASSUME handler'.at # "done" \/ handler'.answer = Failed({}) \/ ~handler'.checked
  PROVE  AnswersRight'
BY DEF AnswersRight, Failed

\* A stride is picked that the handler has not looked at yet, or none.
LEMMA PickedKeeps ==
  ASSUME HandlersInv, UNCHANGED <<vars, content>>, NEW kind, NEW ids, NEW i \in Slots \union {0},
         NEW checked \in BOOLEAN,
         checked => i # 0 /\ IsProcessed(i),
         handler' = IF i = 0 THEN Picked(kind, ids, 0) ELSE [Picked(kind, ids, i) EXCEPT !.checked = checked]
  PROVE  RequestInv'
<1>1. \A s : Held(s)' <=> Held(s)
  BY StillHeld DEF HandlersInv
<1>2. CASE i = 0
  <2>1. handler' = [NoRequest EXCEPT !.at = "done", !.kind = kind, !.ids = ids]
    BY <1>2 DEF Picked
  <2>2. HandlerShape' /\ handler'.points = EmptyBag /\ handler'.at = "done" /\ ~handler'.checked
    BY <2>1 DEF HandlerShape, NoRequest
  <2> QED
    BY <2>2, WithoutPoints, FailedIsRight
<1>3. CASE i # 0
  <2>1. i \in Slots /\ handler' = [Picked(kind, ids, i) EXCEPT !.checked = checked]
    BY <1>3
  <2>2. handler' = [NoRequest EXCEPT !.at = "metrics", !.kind = kind, !.ids = ids,
                                     !.stride = strideCache[i].stride, !.checked = checked]
    BY <1>3, <2>1 DEF Picked, NoRequest
  <2>3. /\ HandlerShape' /\ handler'.points = EmptyBag /\ handler'.at = "metrics"
        /\ handler'.answer = Failed({}) /\ handler'.stride = strideCache[i].stride /\ handler'.checked = checked
    BY <2>2 DEF HandlerShape, NoRequest
  <2>4. checked => Held(strideCache[i].stride)
    BY <2>1 DEF OfferedHeld, DiskInv, HandlersInv
  <2>5. handler'.checked => Held(handler.stride)'
    BY <1>1, <2>3, <2>4
  <2>6. AnswersRight'
    BY <2>3, FailedIsRight
  <2> QED
    BY <2>3, <2>5, <2>6, WithoutPoints
<1> QED
  BY <1>2, <1>3

LEMMA PickStrideKeeps ==
  ASSUME HandlersInv, PickStride
  PROVE  RequestInv'
<1>1. UNCHANGED <<vars, content>>
  BY DEF PickStride
<1>2. PICK kind \in {"correlates", "timeline"}, ids \in Requested :
        \/ \E id \in ToSet(StrideId) :
             handler' = Picked(kind, ids, First({i \in Slots : IsProcessed(i) /\ StrideId[strideCache[i].stride] = id}))
        \/ \E time \in Strides :
             handler' = Picked(kind, ids, First({i \in Slots : IsProcessed(i) /\ Covers(strideCache[i].stride, time)}))
  BY DEF PickStride
<1>3. PICK S \in SUBSET {i \in Slots : IsProcessed(i)} : handler' = Picked(kind, ids, First(S))
  <2>1. CASE \E id \in ToSet(StrideId) :
             handler' = Picked(kind, ids, First({i \in Slots : IsProcessed(i) /\ StrideId[strideCache[i].stride] = id}))
    BY <2>1
  <2>2. CASE \E time \in Strides :
             handler' = Picked(kind, ids, First({i \in Slots : IsProcessed(i) /\ Covers(strideCache[i].stride, time)}))
    BY <2>2
  <2> QED
    BY <1>2, <2>1, <2>2
<1>4. PICK i \in Slots \union {0} : handler' = Picked(kind, ids, i) /\ (i # 0 => IsProcessed(i))
  <2>1. \/ First(S) = 0
        \/ First(S) \in S
    BY <1>3, FirstFacts
  <2> QED
    BY <1>3, <2>1
<1>5. i # 0 => Picked(kind, ids, i) = [Picked(kind, ids, i) EXCEPT !.checked = TRUE]
  BY DEF Picked, NoRequest
<1>6. handler' = IF i = 0 THEN Picked(kind, ids, 0) ELSE [Picked(kind, ids, i) EXCEPT !.checked = (i # 0)]
  BY <1>4, <1>5
<1> QED
  BY <1>1, <1>4, <1>6, PickedKeeps

LEMMA FindLatestKeeps ==
  ASSUME HandlersInv, FindLatest
  PROVE  RequestInv'
<1>1. PICK kind \in {"correlates", "timeline"}, ids \in Requested, i \in Slots :
        handler' = [NoRequest EXCEPT !.at = "latest", !.kind = kind, !.ids = ids, !.slot = i]
  BY DEF FindLatest
<1>2. /\ HandlerShape' /\ handler'.points = EmptyBag /\ handler'.at = "latest" /\ handler'.slot = i
      /\ handler'.answer = Failed({})
  BY <1>1 DEF HandlerShape, NoRequest
<1> QED
  BY <1>2, WithoutPoints, FailedIsRight

LEMMA IndexLatestKeeps ==
  ASSUME HandlersInv, IndexLatest
  PROVE  RequestInv'
<1>1. /\ UNCHANGED <<vars, content>>
      /\ handler' = IF strideCache[handler.slot] = Nil THEN Picked(handler.kind, handler.ids, 0)
                    ELSE [Picked(handler.kind, handler.ids, handler.slot) EXCEPT !.checked = IsProcessed(handler.slot)]
  BY DEF IndexLatest
<1>2. handler.slot \in Slots
  BY DEF HandlersInv, RequestInv, PlaceInv, IndexLatest
<1>3. handler.slot # 0
  BY <1>2, SlotsAreNumbers
<1>4. CASE strideCache[handler.slot] = Nil
  <2>1. handler' = Picked(handler.kind, handler.ids, 0)
    BY <1>1, <1>4
  <2> QED
    BY <1>1, <2>1, PickedKeeps
<1>5. CASE strideCache[handler.slot] # Nil
  <2>1. handler' = [Picked(handler.kind, handler.ids, handler.slot) EXCEPT !.checked = IsProcessed(handler.slot)]
    BY <1>1, <1>5
  <2>2. IsProcessed(handler.slot) \in BOOLEAN
    BY DEF IsProcessed
  <2> QED
    BY <1>1, <1>2, <1>3, <2>1, <2>2, PickedKeeps
<1> QED
  BY <1>4, <1>5

LEMMA FindMetricsKeeps ==
  ASSUME HandlersInv, FindMetrics
  PROVE  RequestInv'
<1>1. /\ UNCHANGED <<vars, content>>
      /\ \/ handler' = Done(Failed({}))
         \/ handler' = [handler EXCEPT !.at = "edges"]
         \/ handler' = [handler EXCEPT !.at = "timeline", !.slot = 1]
  BY DEF FindMetrics
<1>2. /\ HandlerShape /\ handler.at = "metrics" /\ handler.points = EmptyBag /\ handler.answer = Failed({})
      /\ handler.checked => Held(handler.stride)
  BY DEF HandlersInv, RequestInv, PlaceInv, FindMetrics
<1>3. /\ HandlerShape' /\ handler'.points = handler.points /\ handler'.answer = Failed({})
      /\ handler'.stride = handler.stride /\ handler'.checked = handler.checked
      /\ handler'.at \in {"done", "edges", "timeline"} /\ (handler'.at = "timeline" => handler'.slot = 1)
  BY <1>1, <1>2 DEF HandlerShape, Done
<1>4. handler'.checked => Held(handler.stride)'
  <2>1. \A s : Held(s)' <=> Held(s)
    BY <1>1, StillHeld DEF HandlersInv
  <2> QED
    BY <1>2, <1>3, <2>1
<1> QED
  BY <1>2, <1>3, <1>4, SlotsAreNumbers, WithoutPoints, FailedIsRight

LEMMA LookUpKeeps ==
  ASSUME HandlersInv, LookUp
  PROVE  RequestInv'
<1>1. UNCHANGED <<vars, content>>
  BY DEF LookUp
<1>2. PICK stride \in Seen(handler.stride, handler.checked) :
        handler' = Done(GetCorrelatedSeries(stride, handler.ids))
  BY DEF LookUp
<1>3. /\ HandlerShape /\ handler.points = EmptyBag
      /\ handler.checked => Held(handler.stride)
  BY DEF HandlersInv, RequestInv, PlaceInv, LookUp
<1> DEFINE answer == GetCorrelatedSeries(stride, handler.ids)
<1>4. /\ HandlerShape' /\ handler'.points = handler.points /\ handler'.answer = answer
      /\ handler'.stride = handler.stride /\ handler'.checked = handler.checked /\ handler'.ids = handler.ids
      /\ handler'.at = "done"
  <2> HIDE DEF answer
  <2>1. handler' = Done(answer)
    BY <1>2 DEF answer
  <2> QED
    BY <1>3, <2>1 DEF HandlerShape, Done
<1>5. handler'.checked => Held(handler.stride)'
  <2>1. \A s : Held(s)' <=> Held(s)
    BY <1>1, StillHeld DEF HandlersInv
  <2> QED
    BY <1>3, <1>4, <2>1
<1>6. AnswersRight'
  <2> SUFFICES ASSUME handler'.checked, answer.ok
               PROVE  answer = GetCorrelatedSeries(content[handler.stride], handler.ids)
    BY <1>1, <1>4 DEF AnswersRight
  <2>1. Held(handler.stride) /\ stride \in Seen(handler.stride, TRUE)
    <3>1. handler.checked /\ Held(handler.stride)
      BY <1>3, <1>4
    <3> QED
      BY <1>2, <3>1 DEF Seen
  <2> QED
    BY <2>1, AnswerRight
<1> QED
  BY <1>3, <1>4, <1>5, <1>6, WithoutPoints

\* The points are in order with the slot in hand.
PointPassed(p) ==
  /\ p.ts \in Correlates(p.stride).found
  /\ HasEdges(p.stride) /\ Held(p.stride)
  /\ UpTo(p.stride, handler.slot)

LEMMA UpToNext ==
  ASSUME NEW s, NEW i \in Slots, UpTo(s, i - 1)
  PROVE  UpTo(s, i)
<1> SUFFICES ASSUME NEW j \in Slots, strideCache[j] = Processed(s)
             PROVE  j <= i
  BY DEF UpTo
<1>1. j <= i - 1
  BY DEF UpTo
<1>2. i \in Nat /\ j \in Nat
  BY SlotsAreNumbers
<1> QED
  BY <1>1, <1>2

LEMMA OldPointsPassed ==
  ASSUME HandlersInv, handler.at \in {"timeline", "extend"},
         NEW p \in BagToSet(handler.points), p.correlated
  PROVE  PointPassed(p) /\ handler.points[p] = 1
<1>1. PointInv(p) /\ handler.slot \in Slots
  BY DEF HandlersInv, RequestInv, PointsInv, PlaceInv
<1>2. UpTo(p.stride, handler.slot - 1)
  BY <1>1 DEF PointInv
<1>3. UpTo(p.stride, handler.slot)
  BY <1>1, <1>2, UpToNext
<1> QED
  BY <1>1, <1>3 DEF PointInv, PointPassed

\* The handler has done with the slot.
LEMMA PassSlot ==
  ASSUME HandlersInv, UNCHANGED <<vars, content>>, handler.at \in {"timeline", "extend"},
         HandlerShape', handler'.ids = handler.ids, handler'.stride = handler.stride,
         handler'.checked = handler.checked, handler'.answer = handler.answer,
         \/ handler'.at = "done"
         \/ handler'.at = "timeline" /\ handler.slot # CacheSize /\ handler'.slot = handler.slot + 1,
         \A p \in BagToSet(handler'.points) : p.correlated => PointPassed(p) /\ handler'.points[p] = 1
  PROVE  RequestInv'
<1>1. /\ handler.slot \in Slots /\ handler.answer = Failed({})
      /\ handler.checked => Held(handler.stride)
  BY DEF HandlersInv, RequestInv, PlaceInv
<1>2. /\ \A s : Held(s)' <=> Held(s)
      /\ \A s : HasEdges(s)' <=> HasEdges(s)
      /\ \A s, i : UpTo(s, i)' <=> UpTo(s, i)
  BY StillHeld DEF HandlersInv
<1>3. handler'.at = "timeline" => handler'.slot \in Slots /\ handler'.slot - 1 = handler.slot
  <2>1. \A i \in Slots : i # CacheSize => i + 1 \in Slots /\ (i + 1) - 1 = i
    BY ExplorerAssumption DEF Slots
  <2> QED
    BY <1>1, <2>1
<1>4. handler'.checked => Held(handler.stride)'
  BY <1>1, <1>2
<1>5. PlaceInv'
  BY <1>1, <1>3, <1>4 DEF PlaceInv
<1>6. AnswersRight'
  BY <1>1, FailedIsRight
<1>7. PointsInv'
  <2> SUFFICES ASSUME NEW p \in BagToSet(handler'.points), p.correlated
               PROVE  PointInv(p)'
    BY DEF PointsInv
  <2>1. PointPassed(p) /\ handler'.points[p] = 1
    OBVIOUS
  <2>2. Correlates(p.stride)' = Correlates(p.stride)
    BY DEF Correlates
  <2>3. handler'.at \in {"timeline", "extend"} => UpTo(p.stride, handler'.slot - 1)
    BY <1>3, <2>1 DEF PointPassed
  <2>4. handler'.at \in {"timeline", "extend"} => UpTo(p.stride, handler.slot - 1)'
    BY <1>2, <2>3
  <2> QED
    BY <1>2, <2>1, <2>2, <2>4 DEF PointInv, PointPassed
<1> QED
  BY <1>5, <1>6, <1>7 DEF RequestInv, ReadStrideInv

LEMMA NextSlotKeeps ==
  ASSUME HandlersInv, UNCHANGED <<vars, content>>, handler.at = "timeline", handler' = NextSlot
  PROVE  RequestInv'
<1>1. HandlerShape
  BY DEF HandlersInv, RequestInv
<1>2. /\ HandlerShape' /\ handler'.ids = handler.ids /\ handler'.stride = handler.stride
      /\ handler'.checked = handler.checked /\ handler'.answer = handler.answer
      /\ handler'.points = handler.points
      /\ \/ handler'.at = "done"
         \/ handler'.at = "timeline" /\ handler.slot # CacheSize /\ handler'.slot = handler.slot + 1
  BY <1>1 DEF HandlerShape, NextSlot
<1> QED
  BY <1>2, OldPointsPassed, PassSlot

LEMMA ReadSlotKeeps ==
  ASSUME HandlersInv, ReadSlot
  PROVE  RequestInv'
<1>0. PICK i, s : i = handler.slot /\ s = strideCache[i].stride
  OBVIOUS
<1>1. UNCHANGED <<vars, content>> /\ handler.at = "timeline" /\ IsProcessed(i)
  BY <1>0 DEF ReadSlot
<1>2. PICK stride \in Seen(s, TRUE) :
        LET found == retrieveCorrelatedTimeseries(stride, handler.ids[1], otherRowIds(handler.ids))
        IN handler' = IF found.ok THEN [handler EXCEPT !.at = "extend", !.read = s, !.correlates = found.found]
                      ELSE NextSlot
  BY <1>0 DEF ReadSlot
<1> DEFINE found == retrieveCorrelatedTimeseries(stride, handler.ids[1], otherRowIds(handler.ids))
<1>3. CASE ~found.ok
  BY <1>1, <1>2, <1>3, NextSlotKeeps
<1>4. CASE found.ok
  <2>1. i \in Slots /\ HandlerShape /\ handler.answer = Failed({}) /\ (handler.checked => Held(handler.stride))
    BY <1>0, <1>1 DEF HandlersInv, RequestInv, PlaceInv
  <2>2. Held(s)
    BY <1>0, <1>1, <2>1 DEF HandlersInv, DiskInv, OfferedHeld
  <2>3. found = Correlates(s)
    BY <1>4, <2>2, LookupRight DEF Correlates
  <2>4. handler' = [handler EXCEPT !.at = "extend", !.read = s, !.correlates = Correlates(s).found]
    BY <1>2, <1>4, <2>3
  <2>5. /\ HandlerShape' /\ handler'.at = "extend" /\ handler'.read = s /\ handler'.correlates = Correlates(s).found
        /\ handler'.ids = handler.ids /\ handler'.stride = handler.stride /\ handler'.slot = handler.slot
        /\ handler'.checked = handler.checked /\ handler'.answer = handler.answer /\ handler'.points = handler.points
    BY <2>1, <2>4 DEF HandlerShape
  <2>6. /\ \A t : Held(t)' <=> Held(t)
        /\ \A t : HasEdges(t)' <=> HasEdges(t)
        /\ \A t, j : UpTo(t, j)' <=> UpTo(t, j)
    BY <1>1, StillHeld DEF HandlersInv
  <2>7. \A t : Correlates(t)' = Correlates(t)
    BY <1>1, <2>5 DEF Correlates
  <2>8. PlaceInv'
    <3>1. handler'.checked => Held(handler.stride)'
      BY <2>1, <2>5, <2>6
    <3> QED
      BY <1>0, <2>1, <2>5, <3>1 DEF PlaceInv
  <2>9. AnswersRight'
    BY <2>5, FailedIsRight
  <2>10. PointsInv'
    <3> SUFFICES ASSUME NEW p \in BagToSet(handler.points), p.correlated
                 PROVE  PointInv(p)'
      BY <2>5 DEF PointsInv
    <3>1. PointInv(p) /\ UpTo(p.stride, handler.slot - 1)
      BY <1>1 DEF HandlersInv, RequestInv, PointsInv, PointInv
    <3>2. UpTo(p.stride, handler.slot - 1)'
      BY <2>5, <2>6, <3>1
    <3> QED
      BY <2>5, <2>6, <2>7, <3>1, <3>2 DEF PointInv
  <2>11. ReadStrideInv'
    <3>1. strideCache[i] = Processed(s)
      BY <1>0, <1>1, <2>1, DiskFacts DEF HandlersInv
    <3>2. ASSUME Correlates(s).found # {}
          PROVE  HasEdges(s)
      BY <3>2, CorrelatesHaveEdges
    <3>3. UpTo(s, handler.slot)
      <4> SUFFICES ASSUME NEW j \in Slots, strideCache[j] = Processed(s)
                   PROVE  j <= i
        BY <1>0 DEF UpTo
      <4>1. StrideCachedOnce
        BY InvImpliesProperties DEF HandlersInv
      <4>2. Processed(s) # Nil
        BY DEF Processed, Nil
      <4>3. j = i
        BY <2>1, <3>1, <4>1, <4>2 DEF StrideCachedOnce
      <4> QED
        BY <2>1, <4>3, SlotsAreNumbers
    <3>4. \A p \in BagToSet(handler.points) : p.correlated => p.stride # s
      <4> SUFFICES ASSUME NEW p \in BagToSet(handler.points), p.correlated, p.stride = s
                   PROVE  FALSE
        OBVIOUS
      <4>1. UpTo(s, i - 1)
        BY <1>0, <1>1 DEF HandlersInv, RequestInv, PointsInv, PointInv
      <4>2. i <= i - 1
        BY <2>1, <3>1, <4>1 DEF UpTo
      <4>3. i \in Nat
        BY <2>1, SlotsAreNumbers
      <4> QED
        BY <4>2, <4>3
    <3>5. UpTo(s, handler.slot)' /\ Held(s)' /\ (Correlates(s).found # {} => HasEdges(s)')
      BY <2>2, <2>5, <2>6, <3>2, <3>3
    <3> QED
      BY <2>5, <2>7, <3>4, <3>5 DEF ReadStrideInv
  <2> QED
    BY <2>5, <2>8, <2>9, <2>10, <2>11 DEF RequestInv
<1> QED
  BY <1>3, <1>4

LEMMA SkipSlotKeeps ==
  ASSUME HandlersInv, SkipSlot
  PROVE  RequestInv'
BY NextSlotKeeps DEF SkipSlot

\* The bag that a timeline becomes when a stride was read.
LEMMA ExtendedFacts ==
  ASSUME NEW s, NEW correlates, NEW p \in BagToSet(Extended(s, correlates)), p.correlated
  PROVE  LET A == {Point(s, ts, ts \in correlates) : ts \in handler.known \union correlates}
         IN /\ p \in BagToSet(handler.points) \/ p \in A
            /\ p \in BagToSet(handler.points) /\ handler.points[p] = 1 /\ p \notin A => Extended(s, correlates)[p] = 1
            /\ p \notin BagToSet(handler.points) => Extended(s, correlates)[p] = 1
<1> DEFINE old == handler.points
           A == {Point(s, ts, ts \in correlates) : ts \in handler.known \union correlates}
           Z == {Point(strideCache[j].stride, ts, FALSE) : j \in EarlierSlots(s), ts \in correlates \ handler.known}
<1>1. ASSUME p \in Z
      PROVE  FALSE
  <2>1. PICK j \in EarlierSlots(s), ts \in correlates \ handler.known : p = Point(strideCache[j].stride, ts, FALSE)
    BY <1>1, SMT DEF Point
  <2>2. p.correlated = FALSE
    BY <2>1 DEF Point
  <2> QED
    BY <2>2, Zenon
<1>2. Extended(s, correlates) = (old (+) SetToBag(A)) (+) SetToBag(Z)
  BY DEF Extended
<1> HIDE DEF old, A, Z
<1> DEFINE new == (old (+) SetToBag(A)) (+) SetToBag(Z)
<1>3. \A B1, B2 : BagToSet(B1 (+) B2) = BagToSet(B1) \union BagToSet(B2)
  BY DEF BagToSet, (+)
<1>4. \A B1, B2 : \A e \in BagToSet(B1 (+) B2) :
        (B1 (+) B2)[e] = (IF e \in BagToSet(B1) THEN B1[e] ELSE 0) + (IF e \in BagToSet(B2) THEN B2[e] ELSE 0)
  BY DEF BagToSet, (+)
<1>5. \A S : BagToSet(SetToBag(S)) = S /\ \A e \in S : SetToBag(S)[e] = 1
  BY DEF BagToSet, SetToBag
<1>6. p \in BagToSet(old) \union A
  BY <1>1, <1>2, <1>3, <1>5
<1>7. new[p] = (old (+) SetToBag(A))[p] + 0
  BY <1>1, <1>2, <1>3, <1>4, <1>5, <1>6
<1>8. (old (+) SetToBag(A))[p] = (IF p \in BagToSet(old) THEN old[p] ELSE 0) + (IF p \in A THEN 1 ELSE 0)
  BY <1>3, <1>4, <1>5, <1>6
<1>9. p \in BagToSet(old) /\ old[p] = 1 /\ p \notin A => new[p] = 1
  BY <1>7, <1>8
<1>10. p \notin BagToSet(old) => new[p] = 1
  BY <1>6, <1>7, <1>8
<1> QED
  BY <1>2, <1>6, <1>9, <1>10 DEF old, A

LEMMA ExtendTimelineKeeps ==
  ASSUME HandlersInv, ExtendTimeline
  PROVE  RequestInv'
<1>0. PICK s, correlates : s = handler.read /\ correlates = handler.correlates
  OBVIOUS
<1> DEFINE A == {Point(s, ts, ts \in correlates) : ts \in handler.known \union correlates}
<1>1. /\ UNCHANGED <<vars, content>> /\ handler.at = "extend"
      /\ handler' = [NextSlot EXCEPT !.read = 0, !.correlates = {},
                                     !.known = @ \union correlates,
                                     !.points = Extended(s, correlates)]
  BY <1>0 DEF ExtendTimeline
<1>2. HandlerShape
  BY DEF HandlersInv, RequestInv
<1>3. PICK points : points = Extended(s, correlates)
  OBVIOUS
<1>4. /\ HandlerShape' /\ handler'.ids = handler.ids /\ handler'.stride = handler.stride
      /\ handler'.checked = handler.checked /\ handler'.answer = handler.answer
      /\ handler'.points = points
      /\ \/ handler'.at = "done"
         \/ handler'.at = "timeline" /\ handler.slot # CacheSize /\ handler'.slot = handler.slot + 1
  <2>1. handler' = [NextSlot EXCEPT !.read = 0, !.correlates = {}, !.known = @ \union correlates, !.points = points]
    BY <1>1, <1>3
  <2> QED
    BY <1>2, <2>1 DEF HandlerShape, NextSlot
<1>5. /\ correlates = Correlates(s).found
      /\ correlates # {} =>
           /\ HasEdges(s) /\ Held(s) /\ UpTo(s, handler.slot)
           /\ \A p \in BagToSet(handler.points) : p.correlated => p.stride # s
  BY <1>0, <1>1 DEF HandlersInv, RequestInv, ReadStrideInv
<1>6. ASSUME NEW p \in A, p.correlated
      PROVE  PointPassed(p) /\ p.stride = s /\ correlates # {}
  <2>0. PICK ts \in handler.known \union correlates : p = Point(s, ts, ts \in correlates)
    OBVIOUS
  <2>1. p.stride = s /\ p.ts = ts /\ p.correlated = (ts \in correlates)
    BY <2>0 DEF Point
  <2>2. ts \in correlates
    BY <1>6, <2>1, Zenon
  <2> QED
    BY <1>5, <2>1, <2>2 DEF PointPassed
<1>7. ASSUME NEW p \in BagToSet(points), p.correlated
      PROVE  PointPassed(p) /\ points[p] = 1
  <2> HIDE DEF A
  <2>1. /\ p \in BagToSet(handler.points) \/ p \in A
        /\ p \in BagToSet(handler.points) /\ handler.points[p] = 1 /\ p \notin A => points[p] = 1
        /\ p \notin BagToSet(handler.points) => points[p] = 1
    BY <1>3, <1>7, ExtendedFacts DEF A
  <2>2. CASE p \in BagToSet(handler.points)
    <3>1. PointPassed(p) /\ handler.points[p] = 1
      BY <1>1, <1>7, <2>2, OldPointsPassed
    <3>2. p \notin A
      BY <1>5, <1>6, <1>7, <2>2
    <3> QED
      BY <2>1, <2>2, <3>1, <3>2
  <2>3. CASE p \notin BagToSet(handler.points)
    BY <1>6, <1>7, <2>1, <2>3
  <2> QED
    BY <2>2, <2>3
<1> QED
  BY <1>1, <1>4, <1>7, PassSlot

\* A step of the explorer or of its surroundings: what the request relies on stays.
LEMMA WorldStepKeeps ==
  ASSUME HandlersInv, WorldStep
  PROVE  RequestInv'
<1>1. /\ content' = content
      /\ handler' = IF restarts' # restarts THEN NoRequest
                    ELSE [handler EXCEPT !.calm = @ /\ Offered' = Offered /\ extracted' = extracted]
  BY DEF WorldStep
<1>2. CASE restarts' # restarts
  <2>1. handler' = NoRequest
    BY <1>1, <1>2
  <2>2. /\ HandlerShape' /\ handler'.points = EmptyBag /\ handler'.at = "none" /\ handler'.answer = Failed({})
    BY <2>1 DEF HandlerShape, NoRequest
  <2> QED
    BY <2>2, WithoutPoints, FailedIsRight
<1>3. CASE restarts' = restarts
  <2>1. PICK calm : handler' = [handler EXCEPT !.calm = calm]
    BY <1>1, <1>3
  <2>2. HandlerShape /\ PlaceInv /\ AnswersRight /\ PointsInv /\ ReadStrideInv
    BY DEF HandlersInv, RequestInv
  <2>3. /\ HandlerShape' /\ handler'.at = handler.at /\ handler'.ids = handler.ids /\ handler'.slot = handler.slot
        /\ handler'.stride = handler.stride /\ handler'.checked = handler.checked /\ handler'.answer = handler.answer
        /\ handler'.read = handler.read /\ handler'.correlates = handler.correlates /\ handler'.points = handler.points
    BY <2>1, <2>2 DEF HandlerShape
  <2>4. \A s : HasEdges(s)' <=> HasEdges(s)
    BY <1>1 DEF HasEdges
  <2>5. \A s : Held(s) => Held(s)'
    <3> SUFFICES ASSUME NEW s, Held(s)
                 PROVE  Held(s)'
      OBVIOUS
    <3>1. s \in Strides
      BY DiskFacts, SettingFacts DEF Held, HandlersInv
    <3> QED
      BY <1>3, <3>1, WorldKeeps DEF KeepsHeld, HandlersInv
  <2>6. \A s, i : Held(s) /\ HasEdges(s) /\ UpTo(s, i) => UpTo(s, i)'
    <3> SUFFICES ASSUME NEW s, NEW i, Held(s), HasEdges(s), UpTo(s, i),
                        NEW j \in Slots, strideCache'[j] = Processed(s)
                 PROVE  j <= i
      BY DEF UpTo
    <3>1. s \in Strides
      BY DiskFacts, SettingFacts DEF Held, HandlersInv
    <3>2. strideCache[j] = Processed(s)
      BY <1>3, <3>1, WorldKeeps DEF KeepsHeld, HandlersInv
    <3> QED
      BY <3>2 DEF UpTo
  <2>7. \A s : Correlates(s)' = Correlates(s)
    BY <1>1, <2>3 DEF Correlates
  <2>8. PlaceInv'
    <3>1. handler'.at \notin {"none", "latest"} /\ handler'.checked => Held(handler.stride)'
      BY <2>2, <2>3, <2>5 DEF PlaceInv
    <3> QED
      BY <2>2, <2>3, <3>1 DEF PlaceInv
  <2>9. AnswersRight'
    BY <1>1, <2>2, <2>3 DEF AnswersRight
  <2>10. PointsInv'
    <3> SUFFICES ASSUME NEW p \in BagToSet(handler.points), p.correlated
                 PROVE  PointInv(p)'
      BY <2>3 DEF PointsInv
    <3>1. PointInv(p)
      BY <2>2 DEF PointsInv
    <3>2. handler.at \in {"timeline", "extend"} => UpTo(p.stride, handler.slot - 1)'
      BY <2>3, <2>6, <3>1 DEF PointInv
    <3>3. Held(p.stride)' /\ HasEdges(p.stride)'
      BY <2>4, <2>5, <3>1 DEF PointInv
    <3> QED
      BY <2>3, <2>7, <3>1, <3>2, <3>3 DEF PointInv
  <2>11. ReadStrideInv'
    <3> SUFFICES ASSUME handler.at = "extend"
                 PROVE  /\ handler.correlates = Correlates(handler.read).found
                        /\ handler.correlates # {} =>
                             /\ HasEdges(handler.read)' /\ Held(handler.read)' /\ UpTo(handler.read, handler.slot)'
                             /\ \A p \in BagToSet(handler.points) : p.correlated => p.stride # handler.read
      BY <2>3, <2>7 DEF ReadStrideInv
    <3>1. PICK s : s = handler.read
      OBVIOUS
    <3>2. /\ handler.correlates = Correlates(s).found
          /\ handler.correlates # {} =>
               /\ HasEdges(s) /\ Held(s) /\ UpTo(s, handler.slot)
               /\ \A p \in BagToSet(handler.points) : p.correlated => p.stride # s
      BY <2>2, <3>1 DEF ReadStrideInv
    <3>3. handler.correlates # {} => HasEdges(s)' /\ Held(s)' /\ UpTo(s, handler.slot)'
      BY <2>3, <2>4, <2>5, <2>6, <3>2
    <3> QED
      BY <2>3, <3>1, <3>2, <3>3
  <2> QED
    BY <2>3, <2>8, <2>9, <2>10, <2>11 DEF RequestInv
<1> QED
  BY <1>2, <1>3

LEMMA StutterKeeps ==
  ASSUME HandlersInv, UNCHANGED handlersVars
  PROVE  RequestInv'
<1>1. UNCHANGED <<vars, content>> /\ handler' = handler
  BY DEF handlersVars
<1>2. HandlerShape /\ PlaceInv /\ AnswersRight /\ PointsInv /\ ReadStrideInv
  BY DEF HandlersInv, RequestInv
<1>3. /\ \A s : Held(s)' <=> Held(s)
      /\ \A s : HasEdges(s)' <=> HasEdges(s)
      /\ \A s, i : UpTo(s, i)' <=> UpTo(s, i)
  BY <1>1, StillHeld DEF HandlersInv
<1>4. \A s : Correlates(s)' = Correlates(s)
  BY <1>1 DEF Correlates
<1>5. HandlerShape' /\ AnswersRight'
  BY <1>1, <1>2 DEF HandlerShape, AnswersRight
<1>6. PlaceInv'
  BY <1>1, <1>2, <1>3 DEF PlaceInv
<1>7. PointsInv'
  BY <1>1, <1>2, <1>3, <1>4 DEF PointsInv, PointInv
<1>8. ReadStrideInv'
  BY <1>1, <1>2, <1>3, <1>4 DEF ReadStrideInv
<1> QED
  BY <1>5, <1>6, <1>7, <1>8 DEF RequestInv

-----------------------------------------------------------------------------
(* A timeline that nothing disturbs *)

\* The strides in the slots before one.
Passed(n) == {strideCache[j].stride : j \in {k \in Slots : IsProcessed(k) /\ k < n}}

\* What there is to say of some strides about some timeseries.
PointOf(s, ts) == Point(s, ts, ts \in Correlates(s).found)
PointsOf(strides, series) == {PointOf(s, ts) : s \in strides, ts \in series}

\* The points are those of some strides: all of them of the strides with an answer, once.
CompleteFor(strides, points, known) ==
  /\ known = UNION {Correlates(s).found : s \in strides}
  /\ BagToSet(points) \subseteq PointsOf(strides, known)
  /\ PointsOf({s \in strides : Correlates(s).ok}, known) \subseteq BagToSet(points)
  /\ \A p \in BagToSet(points) : points[p] = 1

\* A timeline of a stride that was processed and knows the timeseries, with nothing changed since.
Undisturbed ==
  /\ handler.kind = "timeline" /\ handler.checked /\ handler.calm
  /\ getMetrics(content[handler.stride], handler.ids, <<>>).ok

TimelineInv ==
  /\ handler.at = "metrics" => handler.known = {}
  /\ handler.at = "edges" => handler.kind = "correlates"
  /\ Undisturbed =>
       /\ handler.at \in {"timeline", "extend"} => CompleteFor(Passed(handler.slot), handler.points, handler.known)
       /\ handler.at = "done" => CompleteFor(Passed(CacheSize + 1), handler.points, handler.known)
       /\ handler.at = "extend" => /\ IsProcessed(handler.slot) /\ handler.read = strideCache[handler.slot].stride
                                   /\ Correlates(handler.read).ok
                                   /\ handler.correlates = Correlates(handler.read).found

\* Points added to a bag that has none of them are in it once.
LEMMA CountOnce ==
  ASSUME NEW B, NEW A, NEW Z, \A p \in BagToSet(B) : B[p] = 1,
         BagToSet(B) \intersect A = {}, BagToSet(B) \intersect Z = {}, A \intersect Z = {}
  PROVE  LET C == B (+) SetToBag(A) (+) SetToBag(Z)
         IN BagToSet(C) = BagToSet(B) \union A \union Z /\ \A p \in BagToSet(C) : C[p] = 1
<1> DEFINE D == B (+) SetToBag(A)
           C == D (+) SetToBag(Z)
<1>1. \A B1, B2 : BagToSet(B1 (+) B2) = BagToSet(B1) \union BagToSet(B2)
  BY DEF BagToSet, (+)
<1>2. \A B1, B2 : \A e \in BagToSet(B1 (+) B2) :
        (B1 (+) B2)[e] = (IF e \in BagToSet(B1) THEN B1[e] ELSE 0) + (IF e \in BagToSet(B2) THEN B2[e] ELSE 0)
  BY DEF BagToSet, (+)
<1>3. \A S : BagToSet(SetToBag(S)) = S /\ \A e \in S : SetToBag(S)[e] = 1
  BY DEF BagToSet, SetToBag
<1>4. BagToSet(D) = BagToSet(B) \union A /\ \A p \in BagToSet(D) : D[p] = 1
  <2>1. BagToSet(D) = BagToSet(B) \union A
    BY <1>1, <1>3
  <2>2. ASSUME NEW p \in BagToSet(D)
        PROVE  D[p] = 1
    <3>1. D[p] = (IF p \in BagToSet(B) THEN B[p] ELSE 0) + (IF p \in A THEN 1 ELSE 0)
      BY <1>2, <1>3
    <3> HIDE DEF D
    <3> QED
      BY <2>1, <3>1
  <2> HIDE DEF D
  <2> QED
    BY <2>1, <2>2
<1> HIDE DEF D
<1>5. BagToSet(C) = BagToSet(D) \union Z /\ \A p \in BagToSet(C) : C[p] = 1
  <2>1. BagToSet(C) = BagToSet(D) \union Z
    BY <1>1, <1>3
  <2>2. ASSUME NEW p \in BagToSet(C)
        PROVE  C[p] = 1
    <3>1. C[p] = (IF p \in BagToSet(D) THEN D[p] ELSE 0) + (IF p \in Z THEN 1 ELSE 0)
      BY <1>2, <1>3
    <3> HIDE DEF C
    <3> QED
      BY <1>4, <2>1, <3>1
  <2> HIDE DEF C
  <2> QED
    BY <2>1, <2>2
<1> QED
  BY <1>4, <1>5 DEF D

\* A stride without an answer adds nothing.
LEMMA NoAnswerNoCorrelates ==
  ASSUME NEW s, ~Correlates(s).ok
  PROVE  Correlates(s).found = {}
BY DEF Correlates, retrieveCorrelatedTimeseries, Found, Failed

\* Going on to the next slot passes the stride of this one, if it was processed.
LEMMA PassedNext ==
  ASSUME HandlersInv, NEW n \in Slots
  PROVE  /\ IsProcessed(n) => Passed(n + 1) = Passed(n) \union {strideCache[n].stride}
         /\ ~IsProcessed(n) => Passed(n + 1) = Passed(n)
         /\ IsProcessed(n) => strideCache[n].stride \notin Passed(n)
         /\ Passed(1) = {}
<1>1. \A k \in Slots : k < n + 1 <=> k < n \/ k = n
  BY SlotsAreNumbers
<1>2. \A k \in Slots : ~(k < 1)
  BY SlotsAreNumbers
<1>3. IsProcessed(n) => Passed(n + 1) = Passed(n) \union {strideCache[n].stride}
  BY <1>1 DEF Passed
<1>4. ~IsProcessed(n) => Passed(n + 1) = Passed(n)
  BY <1>1 DEF Passed
<1>5. ASSUME IsProcessed(n), strideCache[n].stride \in Passed(n)
      PROVE  FALSE
  <2>1. PICK k \in Slots : IsProcessed(k) /\ k < n /\ strideCache[k].stride = strideCache[n].stride
    BY <1>5 DEF Passed
  <2>2. StrideCachedOnce
    BY InvImpliesProperties DEF HandlersInv
  <2>3. strideCache[k] # Nil
    BY <2>1 DEF IsProcessed, Nil
  <2>4. k # n
    BY <2>1, SlotsAreNumbers
  <2> QED
    BY <2>1, <2>2, <2>3, <2>4 DEF StrideCachedOnce
<1> QED
  BY <1>2, <1>3, <1>4, <1>5 DEF Passed

\* The slot of a stride is the first with its id, so that the earlier slots are those that were passed.
LEMMA EarlierArePassed ==
  ASSUME OfferedApart, NEW n \in Slots, IsProcessed(n)
  PROVE  {strideCache[j].stride : j \in EarlierSlots(strideCache[n].stride)} = Passed(n)
<1> DEFINE s == strideCache[n].stride
<1>1. ASSUME NEW j \in Slots, IsProcessed(j)
      PROVE  (\A k \in 1 .. j : IsProcessed(k) => StrideId[strideCache[k].stride] # StrideId[s]) <=> j < n
  <2>1. ASSUME j < n, NEW k \in 1 .. j, IsProcessed(k)
        PROVE  StrideId[strideCache[k].stride] # StrideId[s]
    <3>1. k \in Slots /\ k # n
      BY <2>1, SlotsAreNumbers DEF Slots
    <3> QED
      BY <2>1, <3>1 DEF OfferedApart, IsProcessed
  <2>2. ~(j < n) => n \in 1 .. j
    BY SlotsAreNumbers
  <2> QED
    BY <2>1, <2>2
<1>2. EarlierSlots(s) = {j \in Slots : IsProcessed(j) /\ j < n}
  BY <1>1 DEF EarlierSlots
<1> QED
  BY <1>2 DEF Passed

LEMMA PointFields ==
  \A s, ts : /\ PointOf(s, ts).stride = s /\ PointOf(s, ts).ts = ts
             /\ PointOf(s, ts).correlated = (ts \in Correlates(s).found)
BY Zenon DEF PointOf, Point

\* The zeros of timeseries that were not found in some strides.
Zero(s, ts) == Point(s, ts, FALSE)
ZerosAt(slots, series) == {Zero(strideCache[j].stride, ts) : j \in slots, ts \in series}

LEMMA ZeroPoints ==
  ASSUME NEW slots, NEW strides, NEW series, {strideCache[j].stride : j \in slots} = strides,
         \A s \in strides, ts \in series : ts \notin Correlates(s).found
  PROVE  ZerosAt(slots, series) = PointsOf(strides, series)
<1>1. \A s \in strides, ts \in series : PointOf(s, ts) = Zero(s, ts)
  <2> SUFFICES ASSUME NEW s \in strides, NEW ts \in series
               PROVE  PointOf(s, ts) = Zero(s, ts)
    OBVIOUS
  <2>1. (ts \in Correlates(s).found) = FALSE
    OBVIOUS
  <2> QED
    BY <2>1, Zenon DEF PointOf, Zero
<1>2. \A j \in slots : strideCache[j].stride \in strides
  OBVIOUS
<1>3. \A s \in strides : \E j \in slots : s = strideCache[j].stride
  OBVIOUS
<1> QED
  BY <1>1, <1>2, <1>3 DEF PointsOf, ZerosAt

\* What a timeline becomes when the correlates of a stride are taken.
LEMMA ExtendedIs ==
  ASSUME NEW s, NEW correlates
  PROVE  Extended(s, correlates) = handler.points
                                   (+) SetToBag({Point(s, ts, ts \in correlates) : ts \in handler.known \union correlates})
                                   (+) SetToBag(ZerosAt(EarlierSlots(s), correlates \ handler.known))
<1> DEFINE A == {Point(s, ts, ts \in correlates) : ts \in handler.known \union correlates}
           Z == {Point(strideCache[j].stride, ts, FALSE) : j \in EarlierSlots(s), ts \in correlates \ handler.known}
<1>1. ZerosAt(EarlierSlots(s), correlates \ handler.known) = Z
  BY SMT DEF ZerosAt, Zero
<1>2. Extended(s, correlates) = handler.points (+) SetToBag(A) (+) SetToBag(Z)
  BY DEF Extended
<1> HIDE DEF A, Z
<1>3. Extended(s, correlates)
        = handler.points (+) SetToBag(A) (+) SetToBag(ZerosAt(EarlierSlots(s), correlates \ handler.known))
  BY <1>1, <1>2
<1> QED
  BY <1>3, Zenon DEF A

LEMMA OnePoints ==
  ASSUME NEW s, NEW series
  PROVE  {Point(s, ts, ts \in Correlates(s).found) : ts \in series} = PointsOf({s}, series)
<1>1. {Point(s, ts, ts \in Correlates(s).found) : ts \in series} = {PointOf(s, ts) : ts \in series}
  BY Zenon DEF PointOf
<1>2. {PointOf(s, ts) : ts \in series} = PointsOf({s}, series)
  BY DEF PointsOf
<1> QED
  BY <1>1, <1>2

\* Extending a complete timeline by a stride with an answer makes it complete with that stride.
LEMMA ExtendingCompletes ==
  ASSUME NEW strides, NEW s, s \notin strides, Correlates(s).ok,
         CompleteFor(strides, handler.points, handler.known),
         {strideCache[j].stride : j \in EarlierSlots(s)} = strides
  PROVE  CompleteFor(strides \union {s}, Extended(s, Correlates(s).found), handler.known \union Correlates(s).found)
<1>0. PICK old, known, correlates : old = handler.points /\ known = handler.known /\ correlates = Correlates(s).found
  OBVIOUS
<1> DEFINE series == known \union correlates
           A == PointsOf({s}, series)
           Z == PointsOf(strides, correlates \ known)
           new == Extended(s, correlates)
<1>2. /\ known = UNION {Correlates(t).found : t \in strides}
      /\ BagToSet(old) \subseteq PointsOf(strides, known)
      /\ PointsOf({t \in strides : Correlates(t).ok}, known) \subseteq BagToSet(old)
      /\ \A p \in BagToSet(old) : old[p] = 1
  BY <1>0 DEF CompleteFor
<1>1. new = old (+) SetToBag(A) (+) SetToBag(Z)
  <2>1. \A t \in strides, ts \in correlates \ known : ts \notin Correlates(t).found
    BY <1>2
  <2>2. ZerosAt(EarlierSlots(s), correlates \ known) = Z
    BY <2>1, ZeroPoints
  <2>3. {Point(s, ts, ts \in correlates) : ts \in series} = A
    <3>1. {Point(s, ts, ts \in Correlates(s).found) : ts \in series} = A
      BY OnePoints
    <3> QED
      BY <1>0, <3>1, Zenon
  <2> HIDE DEF A, Z
  <2> QED
    BY <1>0, <2>2, <2>3, ExtendedIs, Zenon
<1> HIDE DEF new
<1>3. \A S, T, p : p \in PointsOf(S, T) <=> \E t \in S, ts \in T : p = PointOf(t, ts)
  BY DEF PointsOf
<1>4. \A S, T : \A p \in PointsOf(S, T) : p.stride \in S /\ p.ts \in T
  BY <1>3, PointFields
<1>7. BagToSet(new) = BagToSet(old) \union A \union Z /\ \A p \in BagToSet(new) : new[p] = 1
  <2>1. \A p : /\ p \in BagToSet(old) => p.stride \in strides /\ p.ts \in known
               /\ p \in A => p.stride = s
               /\ p \in Z => p.stride \in strides /\ p.ts \notin known
    <3>1. /\ \A p \in PointsOf(strides, known) : p.stride \in strides /\ p.ts \in known
          /\ \A p \in A : p.stride \in {s}
          /\ \A p \in Z : p.stride \in strides /\ p.ts \in correlates \ known
      BY <1>4
    <3> HIDE DEF A, Z
    <3> QED
      BY <1>2, <3>1
  <2>2. BagToSet(old) \intersect A = {} /\ BagToSet(old) \intersect Z = {} /\ A \intersect Z = {}
    <3> HIDE DEF A, Z
    <3> QED
      BY <2>1
  <2> HIDE DEF A, Z
  <2> QED
    BY <1>1, <1>2, <2>2, CountOnce
<1>8. series = UNION {Correlates(t).found : t \in strides \union {s}}
  BY <1>0, <1>2
<1>9. PointsOf(strides \union {s}, series) = PointsOf(strides, known) \union A \union Z
  <2>1. \A p : p \in PointsOf(strides \union {s}, series) <=>
               p \in PointsOf(strides, known) \/ p \in A \/ p \in Z
    BY <1>3
  <2> HIDE DEF A, Z
  <2> QED
    BY <2>1
<1>11. BagToSet(new) \subseteq PointsOf(strides \union {s}, series)
  BY <1>2, <1>7, <1>9
<1>12. PointsOf({t \in strides \union {s} : Correlates(t).ok}, series) \subseteq BagToSet(new)
  <2> SUFFICES ASSUME NEW t \in strides \union {s}, Correlates(t).ok, NEW ts \in series
               PROVE  PointOf(t, ts) \in BagToSet(new)
    BY <1>3
  <2>1. CASE t = s
    <3>1. PointOf(t, ts) \in A
      BY <1>3, <2>1
    <3> QED
      BY <1>7, <3>1
  <2>2. CASE t \in strides /\ ts \in known
    BY <1>2, <1>3, <1>7, <2>2
  <2>3. CASE t \in strides /\ ts \notin known
    <3>1. PointOf(t, ts) \in Z
      BY <1>3, <2>3
    <3> QED
      BY <1>7, <3>1
  <2> QED
    BY <2>1, <2>2, <2>3
<1> QED
  BY <1>0, <1>7, <1>8, <1>11, <1>12 DEF CompleteFor, new
\* The timeline that has passed all slots is complete.
LEMMA CompleteAtTheEnd ==
  ASSUME TimelineInv
  PROVE  TimelineComplete
<1> DEFINE offered == {slot[2] : slot \in Offered}
           shown == {s \in offered : Correlates(s).ok}
           series == UNION {Correlates(s).found : s \in shown}
           points == BagToSet(handler.points)
<1> SUFFICES ASSUME handler.at = "done", handler.kind = "timeline", handler.checked, handler.calm,
                    getMetrics(content[handler.stride], handler.ids, <<>>).ok
             PROVE  /\ \A p \in points : handler.points[p] = 1
                    /\ {p \in points : p.stride \in shown} = {Point(s, ts, ts \in Correlates(s).found) : s \in shown, ts \in series}
                    /\ \A p \in points : p.stride \notin shown => p.stride \in offered /\ p.ts \in series /\ ~p.correlated
  BY DEF TimelineComplete
<1>1. Passed(CacheSize + 1) = offered
  <2>1. \A k \in Slots : k < CacheSize + 1
    BY ExplorerAssumption DEF Slots
  <2>2. \A s : s \in Passed(CacheSize + 1) <=> \E j \in Slots : IsProcessed(j) /\ s = strideCache[j].stride
    BY <2>1 DEF Passed
  <2>3. \A s : s \in offered <=> \E j \in Slots : IsProcessed(j) /\ s = strideCache[j].stride
    <3>1. \A slot : slot \in Offered <=> \E j \in Slots : IsProcessed(j) /\ slot = <<j, strideCache[j].stride>>
      BY DEF Offered
    <3>2. \A j, s : <<j, s>>[2] = s
      OBVIOUS
    <3>3. \A s : s \in offered <=> \E slot \in Offered : s = slot[2]
      OBVIOUS
    <3> HIDE DEF offered
    <3>4. ASSUME NEW s \in offered
          PROVE  \E j \in Slots : IsProcessed(j) /\ s = strideCache[j].stride
      <4>1. PICK slot \in Offered : s = slot[2]
        BY <3>3
      <4>2. PICK j \in Slots : IsProcessed(j) /\ slot = <<j, strideCache[j].stride>>
        BY <3>1
      <4> QED
        BY <3>2, <4>1, <4>2
    <3>5. ASSUME NEW j \in Slots, IsProcessed(j)
          PROVE  strideCache[j].stride \in offered
      <4>1. <<j, strideCache[j].stride>> \in Offered
        BY <3>1, <3>5
      <4>2. strideCache[j].stride = <<j, strideCache[j].stride>>[2]
        BY <3>2
      <4> QED
        BY <3>3, <4>1, <4>2
    <3> QED
      BY <3>4, <3>5
  <2> HIDE DEF offered
  <2> QED
    BY <2>2, <2>3
<1>2. CompleteFor(Passed(CacheSize + 1), handler.points, handler.known)
  BY DEF TimelineInv, Undisturbed
<1> HIDE DEF offered
<1>3. /\ handler.known = UNION {Correlates(s).found : s \in offered}
      /\ points \subseteq PointsOf(offered, handler.known)
      /\ PointsOf(shown, handler.known) \subseteq points
      /\ \A p \in points : handler.points[p] = 1
  BY <1>1, <1>2 DEF CompleteFor
<1>4. handler.known = series
  BY <1>3, NoAnswerNoCorrelates
<1> HIDE DEF points, series
<1>5. \A S, T, p : p \in PointsOf(S, T) <=> \E t \in S, ts \in T : p = PointOf(t, ts)
  BY DEF PointsOf
<1>6. ASSUME NEW p \in points
      PROVE  /\ p.stride \in offered /\ p.ts \in series
             /\ p.stride \in shown => p \in PointsOf(shown, series)
             /\ p.stride \notin shown => ~p.correlated
  <2>1. PICK s \in offered, ts \in series : p = PointOf(s, ts)
    <3>1. p \in PointsOf(offered, series)
      BY <1>3, <1>4
    <3> QED
      BY <1>5, <3>1
  <2>2. p.stride = s /\ p.ts = ts /\ p.correlated = (ts \in Correlates(s).found)
    BY <2>1, PointFields, Zenon
  <2>3. s \in shown => p \in PointsOf(shown, series)
    BY <1>5, <2>1
  <2>4. s \notin shown => ts \notin Correlates(s).found
    BY NoAnswerNoCorrelates
  <2> QED
    BY <2>2, <2>3, <2>4, Zenon
<1>7. \A p \in PointsOf(shown, series) : p \in points /\ p.stride \in shown
  <2>1. \A p \in PointsOf(shown, series) : p.stride \in shown
    BY <1>5, PointFields
  <2> HIDE DEF shown
  <2> QED
    BY <1>3, <1>4, <2>1
<1>8. {p \in points : p.stride \in shown} = PointsOf(shown, series)
  <2> HIDE DEF shown
  <2> QED
    BY <1>6, <1>7
<1> HIDE DEF shown
<1>9. {p \in points : p.stride \in shown} = {Point(s, ts, ts \in Correlates(s).found) : s \in shown, ts \in series}
  <2>1. PICK those : those = {p \in points : p.stride \in shown}
    OBVIOUS
  <2>2. those = PointsOf(shown, series)
    BY <1>8, <2>1
  <2>3. those = {Point(s, ts, ts \in Correlates(s).found) : s \in shown, ts \in series}
    BY <2>2, SMT DEF PointsOf, PointOf
  <2> QED
    BY <2>1, <2>3
<1> QED
  BY <1>3, <1>6, <1>9

-----------------------------------------------------------------------------
(* Each step keeps the timeline complete *)

LEMMA KnownBySeen ==
  ASSUME NEW a, NEW b, a.metrics = b.metrics, NEW ids
  PROVE  getMetrics(a, ids, <<>>).ok <=> getMetrics(b, ids, <<>>).ok
BY DEF getMetrics, Found, Failed

\* Nothing but the slots makes a difference to what is complete.
LEMMA StaysComplete ==
  ASSUME content' = content, handler'.ids = handler.ids
  PROVE  /\ \A s : Correlates(s)' = Correlates(s)
         /\ \A S, P, K : CompleteFor(S, P, K)' <=> CompleteFor(S, P, K)
<1>1. \A s : Correlates(s)' = Correlates(s)
  BY DEF Correlates
<1>2. \A s, ts : PointOf(s, ts)' = PointOf(s, ts)
  BY <1>1, Zenon DEF PointOf
<1>3. \A S, T : PointsOf(S, T)' = PointsOf(S, T)
  BY <1>2 DEF PointsOf
<1> QED
  BY <1>1, <1>3 DEF CompleteFor

\* A request that has not come to the slots, or ended before.
LEMMA NothingYet ==
  ASSUME handler'.at \in {"none", "latest", "metrics", "done"}, handler'.known = {},
         handler'.at = "done" => ~handler'.checked
  PROVE  TimelineInv'
BY DEF TimelineInv, Undisturbed

LEMMA PickStrideCompletes ==
  ASSUME PickStride
  PROVE  TimelineInv'
<1>1. PICK kind, ids, i : handler' = Picked(kind, ids, i)
  BY DEF PickStride
<1>2. /\ handler'.at \in {"metrics", "done"} /\ handler'.known = {}
      /\ handler'.at = "done" => ~handler'.checked
  BY <1>1 DEF Picked, NoRequest
<1> QED
  BY <1>2, NothingYet

LEMMA FindLatestCompletes ==
  ASSUME FindLatest
  PROVE  TimelineInv'
<1>1. PICK kind, ids, i : handler' = [NoRequest EXCEPT !.at = "latest", !.kind = kind, !.ids = ids, !.slot = i]
  BY DEF FindLatest
<1>2. handler'.at = "latest" /\ handler'.known = {}
  BY <1>1 DEF NoRequest
<1> QED
  BY <1>2, NothingYet

LEMMA IndexLatestCompletes ==
  ASSUME HandlersInv, IndexLatest
  PROVE  TimelineInv'
<1>1. PICK kind, ids, i, c :
        /\ i = handler.slot
        /\ \/ handler' = Picked(kind, ids, 0)
           \/ handler' = [Picked(kind, ids, i) EXCEPT !.checked = c]
  BY DEF IndexLatest
<1>2. i # 0
  <2>1. handler.slot \in Slots
    BY DEF HandlersInv, RequestInv, PlaceInv, IndexLatest
  <2> QED
    BY <1>1, <2>1, SlotsAreNumbers
<1>3. /\ handler'.at \in {"metrics", "done"} /\ handler'.known = {}
      /\ handler'.at = "done" => ~handler'.checked
  <2>1. CASE handler' = Picked(kind, ids, 0)
    BY <2>1 DEF Picked, NoRequest
  <2>2. CASE handler' = [Picked(kind, ids, i) EXCEPT !.checked = c]
    BY <1>2, <2>2 DEF Picked, NoRequest
  <2> QED
    BY <1>1, <2>1, <2>2
<1> QED
  BY <1>3, NothingYet

LEMMA FindMetricsCompletes ==
  ASSUME HandlersInv, TimelineInv, FindMetrics
  PROVE  TimelineInv'
<1>1. /\ UNCHANGED <<vars, content>> /\ handler.at = "metrics" /\ handler.known = {} /\ handler.points = EmptyBag
      /\ HandlerShape
  BY DEF FindMetrics, TimelineInv, HandlersInv, RequestInv, PlaceInv
<1>2. PICK stride \in Seen(handler.stride, handler.checked) :
        LET metrics == getMetrics(stride, handler.ids, <<>>)
        IN handler' = IF ~metrics.ok THEN Done(Failed({}))
                      ELSE IF handler.kind = "correlates" THEN [handler EXCEPT !.at = "edges"]
                      ELSE [handler EXCEPT !.at = "timeline", !.slot = 1]
  BY DEF FindMetrics
<1> DEFINE ok == getMetrics(stride, handler.ids, <<>>).ok
<1>0. handler' = IF ~ok THEN Done(Failed({}))
                 ELSE IF handler.kind = "correlates" THEN [handler EXCEPT !.at = "edges"]
                 ELSE [handler EXCEPT !.at = "timeline", !.slot = 1]
  BY <1>2, Zenon
<1> HIDE DEF ok
<1>3. /\ handler'.kind = handler.kind /\ handler'.checked = handler.checked /\ handler'.stride = handler.stride
      /\ handler'.ids = handler.ids /\ handler'.known = {} /\ handler'.points = EmptyBag
      /\ handler'.at = IF ~ok THEN "done" ELSE IF handler.kind = "correlates" THEN "edges" ELSE "timeline"
      /\ handler'.at = "timeline" => handler'.slot = 1
  <2>1. /\ ~ok => handler' = Done(Failed({}))
        /\ ok /\ handler.kind = "correlates" => handler' = [handler EXCEPT !.at = "edges"]
        /\ ok /\ handler.kind # "correlates" => handler' = [handler EXCEPT !.at = "timeline", !.slot = 1]
    BY <1>0, Zenon
  <2> QED
    BY <1>1, <2>1 DEF HandlerShape, Done
<1>4. Undisturbed' => ok
  <2> SUFFICES ASSUME handler.checked, getMetrics(content[handler.stride], handler.ids, <<>>).ok
               PROVE  ok
    BY <1>1, <1>3 DEF Undisturbed
  <2>1. stride.metrics = content[handler.stride].metrics
    <3>1. stride \in Seen(handler.stride, TRUE)
      BY DEF Seen
    <3> QED
      BY <3>1, SeenFacts
  <2> QED
    BY <2>1, KnownBySeen DEF ok
<1>5. handler'.at = "timeline" => CompleteFor(Passed(handler.slot), handler.points, handler.known)'
  <2>1. Passed(1)' = {}
    <3>1. \A k \in Slots : ~(k < 1)
      BY SlotsAreNumbers
    <3> QED
      BY <3>1 DEF Passed
  <2>2. CompleteFor({}, EmptyBag, {})'
    BY BagFacts DEF CompleteFor, PointsOf
  <2> QED
    BY <1>3, <2>1, <2>2
<1> QED
  BY <1>3, <1>4, <1>5 DEF TimelineInv, Undisturbed

LEMMA LookUpCompletes ==
  ASSUME HandlersInv, TimelineInv, LookUp
  PROVE  TimelineInv'
<1>1. PICK answer : handler' = Done(answer)
  BY DEF LookUp
<1>2. HandlerShape /\ handler.kind = "correlates"
  BY DEF LookUp, TimelineInv, HandlersInv, RequestInv
<1>3. handler'.at = "done" /\ handler'.kind = "correlates"
  BY <1>1, <1>2 DEF HandlerShape, Done
<1> QED
  BY <1>3 DEF TimelineInv, Undisturbed

\* The handler has done with the slot, and the timeline is complete so far.
LEMMA SlotCompletes ==
  ASSUME HandlersInv, UNCHANGED <<vars, content>>, handler.at \in {"timeline", "extend"},
         NEW points, NEW known,
         \/ handler' = [NextSlot EXCEPT !.read = 0, !.correlates = {}, !.known = known, !.points = points]
         \/ handler' = NextSlot /\ points = handler.points /\ known = handler.known,
         Undisturbed => CompleteFor(Passed(handler.slot + 1), points, known)
  PROVE  TimelineInv'
<1>1. HandlerShape
  BY DEF HandlersInv, RequestInv
<1>2. /\ handler'.kind = handler.kind /\ handler'.checked = handler.checked /\ handler'.stride = handler.stride
      /\ handler'.ids = handler.ids /\ handler'.calm = handler.calm
      /\ handler'.points = points /\ handler'.known = known
      /\ \/ handler'.at = "done" /\ handler.slot = CacheSize
         \/ handler'.at = "timeline" /\ handler'.slot = handler.slot + 1
  <2>1. CASE handler' = [NextSlot EXCEPT !.read = 0, !.correlates = {}, !.known = known, !.points = points]
    BY <1>1, <2>1 DEF HandlerShape, NextSlot
  <2>2. CASE handler' = NextSlot /\ points = handler.points /\ known = handler.known
    BY <1>1, <2>2 DEF HandlerShape, NextSlot
  <2> QED
    BY <2>1, <2>2
<1>3. Undisturbed' <=> Undisturbed
  BY <1>2 DEF Undisturbed
<1>4. \A n : Passed(n)' = Passed(n)
  BY DEF Passed, IsProcessed, vars
<1>5. PICK n : n = handler.slot + 1
  OBVIOUS
<1>6. PICK strides : strides = Passed(n)
  OBVIOUS
<1>7. Undisturbed' => CompleteFor(strides, points, known)'
  <2>1. Undisturbed => CompleteFor(strides, points, known)
    BY <1>5, <1>6
  <2> QED
    BY <1>2, <1>3, <2>1, StaysComplete
<1>8. /\ handler'.at = "timeline" => Passed(handler.slot)' = strides
      /\ handler'.at = "done" => Passed(CacheSize + 1)' = strides
  <2>1. handler'.at = "timeline" => handler'.slot = n
    BY <1>2, <1>5
  <2>2. handler'.at = "done" => CacheSize + 1 = n
    BY <1>2, <1>5
  <2>3. Passed(n)' = strides
    BY <1>4, <1>6
  <2> QED
    BY <2>1, <2>2, <2>3
<1> QED
  BY <1>2, <1>7, <1>8 DEF TimelineInv

LEMMA SkipSlotCompletes ==
  ASSUME HandlersInv, TimelineInv, SkipSlot
  PROVE  TimelineInv'
<1>1. PICK points, known : points = handler.points /\ known = handler.known
  OBVIOUS
<1>2. handler.slot \in Slots /\ ~IsProcessed(handler.slot) /\ handler.at = "timeline"
      /\ UNCHANGED <<vars, content>> /\ handler' = NextSlot
  BY DEF SkipSlot, HandlersInv, RequestInv, PlaceInv
<1>3. Passed(handler.slot + 1) = Passed(handler.slot)
  BY <1>2, PassedNext
<1>4. Undisturbed => CompleteFor(Passed(handler.slot + 1), points, known)
  BY <1>1, <1>2, <1>3 DEF TimelineInv
<1> QED
  BY <1>1, <1>2, <1>4, SlotCompletes

\* A processed stride has all of its edge files: what is found is what there is.
LEMMA ReadSlotCompletes ==
  ASSUME HandlersInv, OfferedApart, TimelineInv, ReadSlot
  PROVE  TimelineInv'
<1>0. PICK i, s, points, known :
        i = handler.slot /\ s = strideCache[i].stride /\ points = handler.points /\ known = handler.known
  OBVIOUS
<1>1. /\ UNCHANGED <<vars, content>> /\ handler.at = "timeline" /\ IsProcessed(i) /\ i \in Slots
      /\ HandlerShape
  BY <1>0 DEF ReadSlot, HandlersInv, RequestInv, PlaceInv
<1>2. PICK stride \in Seen(s, TRUE) :
        LET found == retrieveCorrelatedTimeseries(stride, handler.ids[1], otherRowIds(handler.ids))
        IN handler' = IF found.ok THEN [handler EXCEPT !.at = "extend", !.read = s, !.correlates = found.found]
                      ELSE NextSlot
  BY <1>0 DEF ReadSlot
<1>3. retrieveCorrelatedTimeseries(stride, handler.ids[1], otherRowIds(handler.ids)) = Correlates(s)
  <2>1. s \in extracted
    BY <1>0, <1>1 DEF OfferedApart, IsProcessed
  <2>2. /\ stride.metrics = content[s].metrics /\ stride.Rows = content[s].Rows
        /\ stride.edges = content[s].edges
    BY <2>1, SeenFacts DEF EdgesOnDisk
  <2> QED
    BY <2>2, SameFields DEF Correlates
<1>4. PICK found : found = Correlates(s)
  OBVIOUS
<1>5. handler' = IF found.ok THEN [handler EXCEPT !.at = "extend", !.read = s, !.correlates = found.found]
                 ELSE NextSlot
  BY <1>2, <1>3, <1>4
<1>6. Undisturbed => CompleteFor(Passed(i), points, known)
  BY <1>0, <1>1 DEF TimelineInv
<1>7. CASE ~found.ok
  <2>1. found.found = {}
    BY <1>4, <1>7, NoAnswerNoCorrelates
  <2>2. Passed(i + 1) = Passed(i) \union {s} /\ s \notin Passed(i)
    BY <1>0, <1>1, PassedNext
  <2>3. ASSUME NEW strides, CompleteFor(strides, points, known)
        PROVE  CompleteFor(strides \union {s}, points, known)
    <3>1. UNION {Correlates(t).found : t \in strides \union {s}} = UNION {Correlates(t).found : t \in strides}
      BY <1>4, <2>1
    <3>2. {t \in strides \union {s} : Correlates(t).ok} = {t \in strides : Correlates(t).ok}
      BY <1>4, <1>7
    <3>3. PointsOf(strides, known) \subseteq PointsOf(strides \union {s}, known)
      BY DEF PointsOf
    <3> QED
      BY <2>3, <3>1, <3>2, <3>3 DEF CompleteFor
  <2>4. Undisturbed => CompleteFor(Passed(handler.slot + 1), points, known)
    BY <1>0, <1>6, <2>2, <2>3
  <2>5. handler' = NextSlot
    BY <1>5, <1>7
  <2> QED
    BY <1>0, <1>1, <2>4, <2>5, SlotCompletes
<1>8. CASE found.ok
  <2>1. handler' = [handler EXCEPT !.at = "extend", !.read = s, !.correlates = found.found]
    BY <1>5, <1>8
  <2>2. /\ handler'.kind = handler.kind /\ handler'.checked = handler.checked /\ handler'.stride = handler.stride
        /\ handler'.ids = handler.ids /\ handler'.calm = handler.calm /\ handler'.slot = i
        /\ handler'.points = points /\ handler'.known = known
        /\ handler'.at = "extend" /\ handler'.read = s /\ handler'.correlates = found.found
    BY <1>0, <1>1, <2>1 DEF HandlerShape
  <2>3. Undisturbed' <=> Undisturbed
    BY <1>1, <2>2 DEF Undisturbed
  <2>4. /\ IsProcessed(handler.slot)' /\ s = strideCache'[i].stride
        /\ Passed(i)' = Passed(i)
    BY <1>0, <1>1, <2>2 DEF IsProcessed, Passed, vars
  <2>5. Correlates(s)' = found
    BY <1>1, <1>4, <2>2, StaysComplete
  <2>6. PICK strides : strides = Passed(i)
    OBVIOUS
  <2>7. Undisturbed' => CompleteFor(strides, points, known)'
    <3>1. Undisturbed => CompleteFor(strides, points, known)
      BY <1>6, <2>6
    <3> QED
      BY <1>1, <2>2, <2>3, <3>1, StaysComplete
  <2>8. Passed(handler.slot)' = strides
    BY <2>2, <2>4, <2>6
  <2>9. Correlates(handler.read)' = found
    BY <2>2, <2>5
  <2> QED
    BY <1>8, <2>2, <2>4, <2>7, <2>8, <2>9 DEF TimelineInv
<1> QED
  BY <1>7, <1>8

LEMMA ExtendTimelineCompletes ==
  ASSUME HandlersInv, OfferedApart, TimelineInv, ExtendTimeline
  PROVE  TimelineInv'
<1>0. PICK i, s, points, known :
        /\ i = handler.slot /\ s = handler.read
        /\ points = Extended(handler.read, handler.correlates) /\ known = handler.known \union handler.correlates
  OBVIOUS
<1>1. /\ UNCHANGED <<vars, content>> /\ handler.at = "extend" /\ i \in Slots
      /\ HandlerShape
  BY <1>0 DEF ExtendTimeline, HandlersInv, RequestInv, PlaceInv
<1>2. handler' = [NextSlot EXCEPT !.read = 0, !.correlates = {}, !.known = known, !.points = points]
  <2>1. NextSlot.known = handler.known
    BY <1>1 DEF NextSlot, HandlerShape
  <2>2. handler' = [NextSlot EXCEPT !.read = 0, !.correlates = {}, !.known = @ \union handler.correlates, !.points = points]
    BY <1>0 DEF ExtendTimeline
  <2> QED
    BY <1>0, <2>1, <2>2
<1>3. ASSUME Undisturbed
      PROVE  CompleteFor(Passed(handler.slot + 1), points, known)
  <2>1. /\ CompleteFor(Passed(i), handler.points, handler.known)
        /\ IsProcessed(i) /\ s = strideCache[i].stride
        /\ Correlates(s).ok /\ handler.correlates = Correlates(s).found
    BY <1>0, <1>1, <1>3 DEF TimelineInv
  <2>2. Passed(i + 1) = Passed(i) \union {s} /\ s \notin Passed(i)
    BY <1>1, <2>1, PassedNext
  <2>3. {strideCache[j].stride : j \in EarlierSlots(s)} = Passed(i)
    BY <1>1, <2>1, EarlierArePassed
  <2>4. CompleteFor(Passed(i) \union {s}, Extended(s, Correlates(s).found), handler.known \union Correlates(s).found)
    BY <2>1, <2>2, <2>3, ExtendingCompletes
  <2> QED
    BY <1>0, <2>1, <2>2, <2>4
<1> QED
  BY <1>1, <1>2, <1>3, SlotCompletes

\* As long as the explorer leaves the slots that are offered alone, and the request too.
LEMMA CalmStepCompletes ==
  ASSUME HandlersInv, TimelineInv, content' = content,
         NEW calm, handler' = [handler EXCEPT !.calm = calm] \/ (handler' = handler /\ calm = handler.calm),
         calm => handler.calm /\ Offered' = Offered
  PROVE  TimelineInv'
<1>1. HandlerShape
  BY DEF HandlersInv, RequestInv
<1>2. /\ handler'.kind = handler.kind /\ handler'.checked = handler.checked /\ handler'.stride = handler.stride
      /\ handler'.ids = handler.ids /\ handler'.calm = calm /\ handler'.slot = handler.slot
      /\ handler'.points = handler.points /\ handler'.known = handler.known
      /\ handler'.at = handler.at /\ handler'.read = handler.read /\ handler'.correlates = handler.correlates
  BY <1>1 DEF HandlerShape
<1>3. Undisturbed' => Undisturbed /\ Offered' = Offered
  BY <1>2 DEF Undisturbed
<1>4. ASSUME Offered' = Offered
      PROVE  /\ \A j \in Slots : IsProcessed(j)' <=> IsProcessed(j)
             /\ \A j \in Slots : IsProcessed(j) => strideCache'[j].stride = strideCache[j].stride
             /\ \A n : Passed(n)' = Passed(n)
  <2>1. \A j \in Slots : \A s : <<j, s>> \in Offered <=> IsProcessed(j) /\ s = strideCache[j].stride
    BY DEF Offered
  <2>2. \A j \in Slots : \A s : <<j, s>> \in Offered' <=> IsProcessed(j)' /\ s = strideCache'[j].stride
    BY DEF Offered
  <2>3. /\ \A j \in Slots : IsProcessed(j)' <=> IsProcessed(j)
        /\ \A j \in Slots : IsProcessed(j) => strideCache'[j].stride = strideCache[j].stride
    BY <1>4, <2>1, <2>2
  <2>4. \A n : Passed(n)' = Passed(n)
    BY <2>3 DEF Passed
  <2> QED
    BY <2>3, <2>4
<1>5. PICK n, points, known, s :
        n = handler.slot /\ points = handler.points /\ known = handler.known /\ s = handler.read
  OBVIOUS
<1>6. PICK strides, all : strides = Passed(n) /\ all = Passed(CacheSize + 1)
  OBVIOUS
<1>7. Undisturbed' =>
        /\ handler.at \in {"timeline", "extend"} => CompleteFor(strides, points, known)'
        /\ handler.at = "done" => CompleteFor(all, points, known)'
        /\ Passed(n)' = strides /\ Passed(CacheSize + 1)' = all
  <2>1. Undisturbed =>
          /\ handler.at \in {"timeline", "extend"} => CompleteFor(strides, points, known)
          /\ handler.at = "done" => CompleteFor(all, points, known)
    BY <1>5, <1>6 DEF TimelineInv
  <2> QED
    BY <1>2, <1>3, <1>4, <1>6, <2>1, StaysComplete
<1>8. Undisturbed' /\ handler.at = "extend" =>
        /\ IsProcessed(n)' /\ s = strideCache'[n].stride
        /\ Correlates(s)'.ok /\ handler.correlates = Correlates(s)'.found
  <2> SUFFICES ASSUME Undisturbed', handler.at = "extend"
               PROVE  /\ IsProcessed(n)' /\ s = strideCache'[n].stride
                      /\ Correlates(s)'.ok /\ handler.correlates = Correlates(s)'.found
    OBVIOUS
  <2>1. n \in Slots
    BY <1>5 DEF HandlersInv, RequestInv, PlaceInv
  <2>2. /\ IsProcessed(n) /\ s = strideCache[n].stride
        /\ Correlates(s).ok /\ handler.correlates = Correlates(s).found
    BY <1>3, <1>5 DEF TimelineInv
  <2>3. Correlates(s)' = Correlates(s)
    BY <1>2, StaysComplete
  <2> QED
    BY <1>3, <1>4, <2>1, <2>2, <2>3
<1>9. /\ Passed(handler.slot)' = Passed(n)'
      /\ IsProcessed(handler.slot)' <=> IsProcessed(n)'
      /\ Correlates(handler.read)' = Correlates(s)'
  BY <1>2, <1>5
<1> QED
  BY <1>2, <1>5, <1>7, <1>8, <1>9 DEF TimelineInv

LEMMA WorldStepCompletes ==
  ASSUME HandlersInv, TimelineInv, WorldStep
  PROVE  TimelineInv'
<1>1. CASE restarts' # restarts
  <2>1. handler' = NoRequest
    BY <1>1 DEF WorldStep
  <2>2. handler'.at = "none" /\ handler'.known = {}
    BY <2>1 DEF NoRequest
  <2> QED
    BY <2>2, NothingYet
<1>2. CASE restarts' = restarts
  <2>1. PICK calm : calm = (handler.calm /\ Offered' = Offered /\ extracted' = extracted)
    OBVIOUS
  <2>2. handler' = [handler EXCEPT !.calm = calm] /\ content' = content
    BY <1>2, <2>1, Zenon DEF WorldStep
  <2>3. calm => handler.calm /\ Offered' = Offered
    BY <2>1, Zenon
  <2> QED
    BY <2>2, <2>3, CalmStepCompletes
<1> QED
  BY <1>1, <1>2

LEMMA StutterCompletes ==
  ASSUME HandlersInv, TimelineInv, UNCHANGED handlersVars
  PROVE  TimelineInv'
<1>1. PICK calm : calm = handler.calm
  OBVIOUS
<1>2. handler' = handler /\ content' = content /\ strideCache' = strideCache
  BY DEF handlersVars, vars
<1>3. Offered' = Offered
  BY <1>2 DEF Offered, IsProcessed
<1> QED
  BY <1>1, <1>2, <1>3, CalmStepCompletes

-----------------------------------------------------------------------------
(* Theorems *)

LEMMA HandlersStepKeeps == HandlersInv /\ [HandlersNext]_handlersVars => HandlersInv'
<1> SUFFICES ASSUME HandlersInv, [HandlersNext]_handlersVars
             PROVE  HandlersInv'
  OBVIOUS
<1>1. CASE WorldStep
  BY <1>1, WorldKeeps, WorldStepKeeps DEF HandlersInv
<1>2. CASE HandlerStep
  <2>1. UNCHANGED <<vars, content>>
    BY <1>2 DEF HandlerStep, PickStride, FindLatest, IndexLatest, FindMetrics, LookUp, SkipSlot, ReadSlot, ExtendTimeline
  <2>2. RequestInv'
    BY <1>2, PickStrideKeeps, FindLatestKeeps, IndexLatestKeeps, FindMetricsKeeps, LookUpKeeps,
       SkipSlotKeeps, ReadSlotKeeps, ExtendTimelineKeeps DEF HandlerStep
  <2> QED
    BY <2>1, <2>2, StillHeld DEF HandlersInv
<1>3. CASE UNCHANGED handlersVars
  <2>1. UNCHANGED <<vars, content>>
    BY <1>3 DEF handlersVars
  <2> QED
    BY <1>3, <2>1, StillHeld, StutterKeeps DEF HandlersInv
<1> QED
  BY <1>1, <1>2, <1>3 DEF HandlersNext

\* What every state of a request among the steps of the scan satisfies.
THEOREM HandlersInvariance == HandlersSpec => []HandlersInv
BY InitHolds, HandlersStepKeeps, PTL DEF HandlersSpec

\* However strides are removed, evicted and extracted while a request holds one that it took
\* by id or time, the answer is an error or it is right.
THEOREM AnswersAreRight == HandlersSpec => []AnswersRight
<1>1. HandlersInv => AnswersRight
  BY DEF HandlersInv, RequestInv
<1> QED
  BY <1>1, HandlersInvariance, PTL

\* And of a timeline, every correlation that it shows is one, and is shown once, although the
\* slots may have changed while it was made.
THEOREM TimelinesAreTrue == HandlersSpec => []TimelineTrue
<1>1. HandlersInv => TimelineTrue
  <2> SUFFICES ASSUME HandlersInv, NEW p \in BagToSet(handler.points), p.correlated
               PROVE  p.ts \in Correlates(p.stride).found /\ handler.points[p] = 1
    BY DEF TimelineTrue
  <2> QED
    BY DEF HandlersInv, RequestInv, PointsInv, PointInv
<1> QED
  BY <1>1, HandlersInvariance, PTL

\* Any step of the handler, the explorer or its surroundings keeps a timeline complete.
LEMMA TimelineStepKeeps ==
  ASSUME HandlersInv, OfferedApart, TimelineInv, [HandlersNext]_handlersVars
  PROVE  TimelineInv'
<1>1. CASE WorldStep
  BY <1>1, WorldStepCompletes
<1>2. CASE HandlerStep
  BY <1>2, PickStrideCompletes, FindLatestCompletes, IndexLatestCompletes, FindMetricsCompletes, LookUpCompletes,
     SkipSlotCompletes, ReadSlotCompletes, ExtendTimelineCompletes DEF HandlerStep
<1>3. CASE UNCHANGED handlersVars
  BY <1>3, StutterCompletes
<1> QED
  BY <1>1, <1>2, <1>3 DEF HandlersNext

\* As long as the receiver has not given an id to more than two strides: a timeline of a stride that
\* was taken by id or time is complete, if what the explorer offers and the edge files have not
\* changed since the request began.
THEOREM TimelinesAreComplete ==
  ASSUME IdsAtMostTwice
  PROVE  HandlersSpec => []TimelineComplete
<1> DEFINE Inv == HandlersInv /\ Tidy(World) /\ TimelineInv
<1>1. HandlersInit => Inv
  <2> SUFFICES ASSUME HandlersInit
               PROVE  Inv
    OBVIOUS
  <2>1. Init /\ handler = NoRequest
    BY DEF HandlersInit
  <2>2. handler.at = "none"
    BY <2>1 DEF NoRequest
  <2>3. TimelineInv
    BY <2>2 DEF TimelineInv
  <2> QED
    BY <2>1, <2>3, InitHolds, InitIsTidy
<1>2. Inv /\ [HandlersNext]_handlersVars => Inv'
  <2> SUFFICES ASSUME HandlersInv, Tidy(World), TimelineInv, [HandlersNext]_handlersVars
               PROVE  Inv'
    OBVIOUS
  <2>1. ExplorerInv /\ AtMostTwo
    BY TwoAtMost DEF HandlersInv, ExplorerInv
  <2>2. OfferedApart
    BY <2>1, TidyOffers
  <2>3. [Next]_vars
    BY DEF HandlersNext, HandlerStep, handlersVars, WorldStep, PickStride, FindLatest, IndexLatest, FindMetrics,
           LookUp, SkipSlot, ReadSlot, ExtendTimeline
  <2>4. Tidy(World)'
    BY <2>1, <2>3, StepTidies
  <2> QED
    BY <2>2, <2>4, HandlersStepKeeps, TimelineStepKeeps
<1>3. Inv => TimelineComplete
  BY CompleteAtTheEnd
<1> QED
  BY <1>1, <1>2, <1>3, PTL DEF HandlersSpec
=============================================================================
