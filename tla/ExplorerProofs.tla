--------------------------- MODULE ExplorerProofs ---------------------------
(***************************************************************************)
(* The explorer, for any number of strides with any ids, any size of its   *)
(* cache from 2 on, any limits of age and any number of restarts: a stride *)
(* has one slot, what is offered can be served, and the latest result file *)
(* is kept.                                                                *)
(*                                                                         *)
(* The steps of a scan are operators on worlds (a file system and a cache).*)
(* The proof goes along their composition: each of them makes a good world *)
(* of a good one and takes away only files that may go (Tended), and this  *)
(* is transitive.  Which files may go is a matter of the strides that come *)
(* later: LaterIsYounger and LaterIsThere are kept by any thinning out of  *)
(* such files (ThinnedKeeps), hence not lost over any number of scans.     *)
(*                                                                         *)
(* The part before the theorems is about strides with the same id, twins:  *)
(* when both are cached, the older is out of use (Tidy).  It takes ids     *)
(* that no three strides share.                                            *)
(***************************************************************************)
EXTENDS Explorer, WellFoundedInduction, TLAPS

-----------------------------------------------------------------------------
(* Least elements *)

Below == {p \in Nat \X Nat : p[1] < p[2]}

LEMMA BelowWellFounded == IsWellFoundedOn(Below, Nat)
BY NatLessThanWellFounded DEF OpToRel, Below

LEMMA Least ==
  ASSUME NEW S, S \subseteq Nat, S # {}
  PROVE  \E n \in S : \A m \in S : n <= m
<1>1. PICK x \in S : \A y \in S : <<y, x>> \notin Below
  BY BelowWellFounded, WFMin
<1>2. ASSUME NEW y \in S
      PROVE  x <= y
  <2>1. <<y, x>> \in Nat \X Nat
    OBVIOUS
  <2>2. ~(y < x)
    BY <1>1, <2>1 DEF Below
  <2> QED
    BY <2>1, <2>2
<1> QED
  BY <1>2

\* A set of strides has a last one.
LEMMA LastStride ==
  ASSUME NEW S, S \subseteq Strides, S # {}
  PROVE  \E n \in S : \A m \in S : m <= n
<1> DEFINE Left == {StrideCount - n : n \in S}
<1>1. StrideCount \in Nat
  BY ExplorerAssumption
<1>2. Left \subseteq Nat /\ Left # {}
  <2>1. \A n \in S : StrideCount - n \in Nat
    BY <1>1 DEF Strides
  <2> QED
    BY <2>1
<1>3. PICK k \in Left : \A m \in Left : k <= m
  BY <1>2, Least
<1>4. PICK n \in S : k = StrideCount - n
  BY <1>3
<1>5. ASSUME NEW m \in S
      PROVE  m <= n
  <2>1. StrideCount - m \in Left
    OBVIOUS
  <2>2. StrideCount - n <= StrideCount - m
    BY <2>1, <1>3, <1>4
  <2> QED
    BY <2>2, <1>1 DEF Strides
<1> QED
  BY <1>4, <1>5

LEMMA SlotsAreNumbers == CacheSize \in Nat \ {0, 1} /\ Slots \subseteq Nat \ {0} /\ 1 \in Slots /\ 2 \in Slots
BY ExplorerAssumption DEF Slots

LEMMA FirstFacts ==
  ASSUME NEW S \in SUBSET Slots
  PROVE  \/ S = {} /\ First(S) = 0
         \/ First(S) \in S /\ First(S) # 0 /\ \A i \in S : First(S) <= i
<1>1. CASE S = {}
  BY <1>1 DEF First
<1>2. CASE S # {}
  <2>1. \E n \in S : \A m \in S : n <= m
    BY <1>2, Least, SlotsAreNumbers
  <2>2. Min(S) \in S /\ \A m \in S : Min(S) <= m
    BY <2>1 DEF Min
  <2> QED
    BY <1>2, <2>2, SlotsAreNumbers DEF First
<1> QED
  BY <1>1, <1>2

-----------------------------------------------------------------------------
(* Worlds *)

Files == [Strides -> [content : {"none", "empty", "partial", "complete"}, age : 0 .. TooOld]]
CacheSlots == {Nil} \union [stride : Strides, status : Statuses]

Worlds ==
  [file : Files, directory : [Strides -> {NoDirectory} \union 0 .. TooOld],
   extracted : SUBSET Strides, cache : [Slots -> CacheSlots]]

\* What an entry of the directory can be.
EntryOf(s) == [isDir : BOOLEAN, stride : {s}, age : Nat]

\* The used slots come first, and no stride has two.
Contiguous(w) == \A i, j \in Slots : i < j /\ w.cache[j] # Nil => w.cache[i] # Nil
CachedOnce(w) ==
  \A i, j \in Slots : i # j /\ w.cache[i] # Nil => w.cache[i].stride # w.cache[j].stride

LEMMA NilFacts ==
  /\ Nil.stride = 0 /\ Nil.status = "nil"
  /\ \A c \in CacheSlots : c = Nil <=> c.stride = 0
  /\ \A c \in CacheSlots : c = Nil <=> c.status = "nil"
  /\ \A c \in CacheSlots : c # Nil => c.stride \in Strides /\ c = [stride |-> c.stride, status |-> c.status] /\ c.status \in Statuses
  /\ 0 \notin Strides
BY ExplorerAssumption DEF Nil, CacheSlots, Strides, Statuses

LEMMA SlotOfFacts ==
  ASSUME NEW w \in Worlds, Contiguous(w), NEW s \in Strides
  PROVE  \/ SlotOf(w, s) = 0 /\ \A i \in Slots : w.cache[i].stride # s
         \/ SlotOf(w, s) \in Slots /\ SlotOf(w, s) # 0 /\ w.cache[SlotOf(w, s)].stride = s
<1> DEFINE S == {i \in Slots : Before(w, i) /\ w.cache[i].stride = s}
<1>1. \/ S = {} /\ First(S) = 0
      \/ First(S) \in S /\ First(S) # 0
  BY FirstFacts
<1>2. SlotOf(w, s) = First(S)
  BY DEF SlotOf
<1>3. ASSUME NEW i \in Slots, w.cache[i].stride = s
      PROVE  i \in S
  <2>1. w.cache[i] # Nil
    BY <1>3, NilFacts
  <2>2. ASSUME NEW j \in 1 .. i
        PROVE  w.cache[j] # Nil
    <3>1. j \in Slots /\ (j < i \/ j = i)
      BY SlotsAreNumbers DEF Slots
    <3> QED
      BY <3>1, <2>1 DEF Contiguous
  <2> QED
    BY <2>2, <1>3 DEF Before
<1> QED
  BY <1>1, <1>2, <1>3

LEMMA SetStatusFacts ==
  ASSUME NEW w \in Worlds, Contiguous(w), CachedOnce(w), NEW s \in Strides, NEW status \in Statuses
  PROVE  LET v == SetStatus(w, s, status)
         IN /\ v \in Worlds
            /\ v.file = w.file /\ v.directory = w.directory /\ v.extracted = w.extracted
            /\ \A i \in Slots : v.cache[i] = IF w.cache[i].stride = s THEN [stride |-> s, status |-> status]
                                             ELSE w.cache[i]
<1> DEFINE n == SlotOf(w, s)
           v == SetStatus(w, s, status)
<1>1. CASE n = 0
  <2>1. \A i \in Slots : w.cache[i].stride # s
    BY <1>1, SlotOfFacts, SlotsAreNumbers
  <2> QED
    BY <2>1, <1>1 DEF SetStatus
<1>2. CASE n # 0
  <2>1. n \in Slots /\ w.cache[n].stride = s
    BY <1>2, SlotOfFacts
  <2>2. w.cache[n] # Nil /\ w.cache[n] \in CacheSlots
    BY <2>1, NilFacts DEF Worlds
  <2>3. w.cache[n] = [stride |-> s, status |-> w.cache[n].status]
    BY <2>1, <2>2, NilFacts
  <2>4. \A i \in Slots : w.cache[i].stride = s <=> i = n
    BY <2>1, <2>2 DEF CachedOnce
  <2>5. [w.cache[n] EXCEPT !.status = status] = [stride |-> s, status |-> status]
    BY <2>3
  <2>6. v = [w EXCEPT !.cache[n].status = status]
    BY <1>2 DEF SetStatus
  <2>7. [stride |-> s, status |-> status] \in CacheSlots
    BY DEF CacheSlots
  <2> HIDE DEF n, v
  <2>8. v = [w EXCEPT !.cache = [w.cache EXCEPT ![n] = [stride |-> s, status |-> status]]]
    BY <2>5, <2>6
  <2>9. v \in Worlds
    BY <2>8, <2>7, <2>1 DEF Worlds
  <2>10. /\ v.file = w.file /\ v.directory = w.directory /\ v.extracted = w.extracted
         /\ v.cache = [w.cache EXCEPT ![n] = [stride |-> s, status |-> status]]
    BY <2>8 DEF Worlds
  <2> QED
    BY <2>9, <2>10, <2>4, <2>1 DEF v, Worlds
<1> QED
  BY <1>1, <1>2

LEMMA TooOldFacts ==
  ASSUME maxAgeSeconds \in Nat
  PROVE  TooOld \in Nat \ {0} /\ maxAgeSeconds < TooOld /\ GiveUpAge < TooOld
<1> DEFINE S == {GiveUpAge, maxAgeSeconds}
<1>1. GiveUpAge \in Nat
  BY ExplorerAssumption
<1>2. \E x \in S : \A y \in S : x >= y
  BY <1>1
<1>3. Max(S) \in S /\ \A y \in S : Max(S) >= y
  BY <1>2 DEF Max
<1> QED
  BY <1>1, <1>3 DEF TooOld

LEMMA RemovedFacts ==
  ASSUME NEW w \in Worlds, maxAgeSeconds \in Nat, NEW s \in Strides, NEW e \in EntryOf(s)
  PROVE  LET v == Removed(w, e)
         IN /\ v \in Worlds
            /\ v.cache = w.cache
            /\ v.file = IF e.isDir THEN w.file ELSE [w.file EXCEPT ![s] = NoFile]
            /\ v.directory = IF e.isDir THEN [w.directory EXCEPT ![s] = NoDirectory] ELSE w.directory
            /\ v.extracted = IF e.isDir THEN w.extracted \ {s} ELSE w.extracted
<1>1. NoFile \in [content : {"none", "empty", "partial", "complete"}, age : 0 .. TooOld]
  BY TooOldFacts DEF NoFile
<1>2. e.stride = s /\ e.isDir \in BOOLEAN
  BY DEF EntryOf
<1>3. CASE e.isDir
  BY <1>2, <1>3 DEF Removed, Worlds
<1>4. CASE ~e.isDir
  <2>1. [w.file EXCEPT ![s] = NoFile] \in Files
    BY <1>1 DEF Worlds, Files
  <2> QED
    BY <1>2, <1>4, <2>1 DEF Removed, Worlds
<1> QED
  BY <1>2, <1>3, <1>4

LEMMA BothRemovedFacts ==
  ASSUME NEW w \in Worlds, maxAgeSeconds \in Nat, NEW s \in Strides
  PROVE  LET v == BothRemoved(w, s)
         IN /\ v \in Worlds
            /\ v.cache = w.cache
            /\ v.file = [w.file EXCEPT ![s] = NoFile]
            /\ v.directory = [w.directory EXCEPT ![s] = NoDirectory]
            /\ v.extracted = w.extracted \ {s}
<1> DEFINE d == [isDir |-> TRUE, stride |-> s]
           f == [isDir |-> FALSE, stride |-> s]
           u == Removed(w, f)
           v == Removed(u, d)
<1>1. u \in Worlds /\ u.cache = w.cache /\ u.file = [w.file EXCEPT ![s] = NoFile]
      /\ u.directory = w.directory /\ u.extracted = w.extracted
  <2>1. NoFile \in [content : {"none", "empty", "partial", "complete"}, age : 0 .. TooOld]
    BY TooOldFacts DEF NoFile
  <2>2. [w.file EXCEPT ![s] = NoFile] \in Files
    BY <2>1 DEF Worlds, Files
  <2> QED
    BY <2>2 DEF Removed, Worlds
<1> HIDE DEF u
<1>2. v \in Worlds /\ v.cache = u.cache /\ v.file = u.file
      /\ v.directory = [u.directory EXCEPT ![s] = NoDirectory] /\ v.extracted = u.extracted \ {s}
  BY <1>1 DEF Removed, Worlds
<1>3. BothRemoved(w, s) = v
  BY DEF BothRemoved, u
<1> HIDE DEF v
<1> QED
  BY <1>1, <1>2, <1>3

-----------------------------------------------------------------------------
(* What a good world is *)

\* What the scan does not change.
Setting ==
  /\ StrideId \in StrideIds
  /\ maxAgeSeconds \in MaxAges
  /\ written \in 0 .. StrideCount
  /\ begun \subseteq 1 .. written
  /\ restarts \in Nat

LEMMA SettingFacts ==
  ASSUME Setting
  PROVE  /\ StrideId \in [Strides -> Nat] /\ maxAgeSeconds \in Nat /\ TooOld \in Nat \ {0}
         /\ maxAgeSeconds < TooOld /\ GiveUpAge < TooOld
         /\ written \in Nat /\ Strides \subseteq Nat \ {0} /\ 1 .. written \subseteq Strides
         /\ begun \subseteq Strides
         /\ \A s \in begun : s <= written
<1>1. StrideId \in [Strides -> Nat] /\ maxAgeSeconds \in Nat
  BY ExplorerAssumption DEF Setting, Strides
<1>2. written \in Nat /\ Strides \subseteq Nat \ {0} /\ 1 .. written \subseteq Strides
  BY ExplorerAssumption DEF Setting, Strides
<1>3. begun \subseteq Strides /\ \A s \in begun : s <= written
  BY <1>2 DEF Setting
<1> QED
  BY <1>1, <1>2, <1>3, TooOldFacts

\* Only strides that were begun are read; nothing is there of a stride that is not written yet.
Known(w) ==
  /\ \A i \in Slots : w.cache[i] # Nil => w.cache[i].stride \in begun
  /\ \A s \in Strides : w.file[s].content \in {"partial", "complete"} => s \in begun
  /\ \A s \in Strides : w.file[s].content # "none" \/ w.directory[s] # NoDirectory => s <= written

ServableStride(w, s) == w.file[s].content = "complete" /\ w.directory[s] # NoDirectory

Servable(w) ==
  \A i \in Slots :
    w.cache[i].status \in {"read", "processing", "processed"} /\ ~SupersededSince(w.cache[i].stride)
      => /\ ServableStride(w, w.cache[i].stride)
         /\ w.cache[i].status = "processed" => w.cache[i].stride \in w.extracted

Good(w) == w \in Worlds /\ Contiguous(w) /\ CachedOnce(w) /\ Known(w)

\* A stride after which another one was begun, in the same run of the receiver or in a later one.
Later(s, t) == s < t /\ t <= written /\ (t \in begun \/ ~Ascending(s, t))

Outlived(f, s) == maxAgeSeconds > 0 /\ f[s].age > maxAgeSeconds

Removable(f, s) == f[s].content # "none" => Outlived(f, s) \/ \E t \in Strides : Later(s, t)

\* Only removable files are missing in g.
Thinned(f, g) == \A s \in Strides : g[s] = f[s] \/ (g[s] = NoFile /\ Removable(f, s))

\* What becomes of a world in a step of the scan.
Tended(w, v) == Good(v) /\ Servable(v) /\ Thinned(w.file, v.file)

LEMMA ThinnedTransitive ==
  ASSUME NEW f \in Files, NEW g \in Files, NEW h \in Files, Thinned(f, g), Thinned(g, h)
  PROVE  Thinned(f, h)
BY DEF Thinned, Removable, Outlived, NoFile

LEMMA TendedTransitive ==
  ASSUME NEW u \in Worlds, NEW v \in Worlds, NEW w \in Worlds, Tended(u, v), Tended(v, w)
  PROVE  Tended(u, w)
<1>1. u.file \in Files /\ v.file \in Files /\ w.file \in Files
  BY DEF Worlds
<1> QED
  BY <1>1, ThinnedTransitive DEF Tended

LEMMA SameIdLater ==
  ASSUME Setting, NEW s \in Strides, NEW t \in 1 .. written, s < t, StrideId[s] = StrideId[t]
  PROVE  Later(s, t)
<1>1. s \in s .. t /\ t \in s .. t
  BY SettingFacts
<1>2. StrideId[s] \in Nat
  BY SettingFacts
<1> QED
  BY <1>1, <1>2, SettingFacts DEF Later, Ascending

LEMMA SetStatusTends ==
  ASSUME Setting, NEW w, Good(w), Servable(w), NEW s \in Strides, NEW status \in Statuses,
         status \in {"read", "processing", "processed"} /\ ~SupersededSince(s)
           => ServableStride(w, s) /\ (status = "processed" => s \in w.extracted)
  PROVE  Tended(w, SetStatus(w, s, status))
<1> DEFINE v == SetStatus(w, s, status)
<1>1. w \in Worlds /\ Contiguous(w) /\ CachedOnce(w)
  BY DEF Good
<1>2. /\ v \in Worlds
      /\ v.file = w.file /\ v.directory = w.directory /\ v.extracted = w.extracted
      /\ \A i \in Slots : v.cache[i] = IF w.cache[i].stride = s THEN [stride |-> s, status |-> status]
                                       ELSE w.cache[i]
  BY <1>1, SetStatusFacts
<1> HIDE DEF v
<1>3. \A i \in Slots : (v.cache[i] = Nil <=> w.cache[i] = Nil) /\ v.cache[i].stride = w.cache[i].stride
  <2> SUFFICES ASSUME NEW i \in Slots
               PROVE  (v.cache[i] = Nil <=> w.cache[i] = Nil) /\ v.cache[i].stride = w.cache[i].stride
    OBVIOUS
  <2>1. w.cache[i] \in CacheSlots /\ v.cache[i] \in CacheSlots
    BY <1>1, <1>2 DEF Worlds
  <2>2. v.cache[i].stride = w.cache[i].stride
    BY <1>2
  <2> QED
    BY <2>1, <2>2, NilFacts
<1>4. Contiguous(v) /\ CachedOnce(v)
  BY <1>1, <1>3 DEF Contiguous, CachedOnce
<1>5. Known(v)
  BY <1>2, <1>3 DEF Good, Known
<1>6. Servable(v)
  BY <1>2, <1>3 DEF Servable, ServableStride
<1>7. Thinned(w.file, v.file)
  BY <1>2 DEF Thinned
<1> QED
  BY <1>2, <1>4, <1>5, <1>6, <1>7 DEF Tended, Good, v

\* Files of a stride can go when a later one has its id, and no slot has to be changed.
LEMMA RemovedTends ==
  ASSUME Setting, NEW w, Good(w), Servable(w), NEW s \in Strides, NEW v \in Worlds,
         v.cache = w.cache,
         v.file \in {w.file, [w.file EXCEPT ![s] = NoFile]},
         v.directory \in {w.directory, [w.directory EXCEPT ![s] = NoDirectory]},
         v.extracted \in {w.extracted, w.extracted \ {s}},
         SupersededSince(s)
  PROVE  Tended(w, v)
<1>1. w \in Worlds
  BY DEF Good
<1>2. \A t \in Strides : t # s => /\ v.file[t] = w.file[t]
                                  /\ v.directory[t] = w.directory[t]
                                  /\ t \in w.extracted => t \in v.extracted
  BY <1>1 DEF Worlds, Files
<1>3. \A t \in Strides : /\ v.file[t] = w.file[t] \/ v.file[t] = NoFile
                         /\ v.directory[t] = w.directory[t] \/ v.directory[t] = NoDirectory
  BY <1>1 DEF Worlds, Files
<1>4. Known(v)
  BY <1>3 DEF Good, Known, NoFile
<1>5. Servable(v)
  <2> SUFFICES ASSUME NEW i \in Slots,
                      v.cache[i].status \in {"read", "processing", "processed"},
                      ~SupersededSince(v.cache[i].stride)
               PROVE  /\ ServableStride(v, v.cache[i].stride)
                      /\ v.cache[i].status = "processed" => v.cache[i].stride \in v.extracted
    BY DEF Servable
  <2>1. w.cache[i] \in CacheSlots /\ v.cache[i] = w.cache[i]
    BY <1>1 DEF Worlds
  <2>2. v.cache[i].stride \in Strides /\ v.cache[i].stride # s
    BY <2>1, NilFacts
  <2> QED
    BY <2>1, <2>2, <1>2 DEF Servable, ServableStride
<1>6. PICK t \in s + 1 .. written : StrideId[t] = StrideId[s]
  BY DEF SupersededSince
<1>7. Later(s, t) /\ t \in Strides
  <2>1. t \in 1 .. written /\ s < t
    BY SettingFacts
  <2> QED
    BY <1>6, <2>1, SettingFacts, SameIdLater
<1>8. Thinned(w.file, v.file)
  BY <1>2, <1>3, <1>7 DEF Thinned, Removable
<1> QED
  BY <1>4, <1>5, <1>8 DEF Tended, Good, Contiguous, CachedOnce

\* What Superseded leaves is good, and it changes a slot at most from what it is to "deleted".
LEMMA SupersededTends ==
  ASSUME Setting, NEW w, Good(w), Servable(w), NEW s \in 1 .. written, NEW e \in EntryOf(s)
  PROVE  /\ Tended(w, Superseded(w, e))
         /\ \A i \in Slots : Superseded(w, e).cache[i] \in
              {w.cache[i], [stride |-> w.cache[i].stride, status |-> "deleted"]}
<1> DEFINE S == {j \in Slots : Before(w, j) /\ StrideId[w.cache[j].stride] = StrideId[e.stride]}
           i == First(S)
           known == w.cache[i].stride
<1>1. w \in Worlds /\ s \in Strides /\ e.stride = s /\ maxAgeSeconds \in Nat
  BY SettingFacts DEF Good, EntryOf
<1>2. Superseded(w, e) = IF i = 0 \/ known = e.stride THEN w
                         ELSE IF known < e.stride THEN [BothRemoved(w, known) EXCEPT !.cache[i].status = "deleted"]
                         ELSE Removed(w, e)
  BY DEF Superseded
<1>3. Tended(w, w)
  BY DEF Tended, Thinned
<1>4. CASE i = 0 \/ known = e.stride
  BY <1>2, <1>3, <1>4
<1>5. CASE i # 0 /\ known # e.stride
  <2>1. i \in S
    BY <1>5, FirstFacts
  <2>2. i \in Slots /\ w.cache[i] # Nil /\ StrideId[known] = StrideId[s]
    <3> HIDE DEF i
    <3>1. i \in 1 .. i
      <4>1. i \in Slots
        BY <2>1
      <4> HIDE DEF S
      <4> QED
        BY <4>1, SlotsAreNumbers
    <3> QED
      BY <2>1, <3>1, <1>1 DEF Before
  <2>3. known \in begun /\ known \in 1 .. written /\ known \in Strides
    <3>1. known \in begun
      BY <2>2 DEF Good, Known
    <3> QED
      BY <3>1, SettingFacts DEF Setting
  <2> HIDE DEF i, S
  <2>4. CASE known < e.stride
    <3> DEFINE u == BothRemoved(w, known)
               v == SetStatus(u, known, "deleted")
    <3>1. /\ u \in Worlds
          /\ u.cache = w.cache
          /\ u.file = [w.file EXCEPT ![known] = NoFile]
          /\ u.directory = [w.directory EXCEPT ![known] = NoDirectory]
          /\ u.extracted = w.extracted \ {known}
      BY <1>1, <2>3, BothRemovedFacts
    <3> HIDE DEF u
    <3>2. SupersededSince(known)
      <4>1. s \in known + 1 .. written
        BY <1>1, <2>3, <2>4, SettingFacts
      <4> QED
        BY <4>1, <2>2 DEF SupersededSince
    <3>3. Tended(w, u)
      BY <3>1, <3>2, <2>3, RemovedTends
    <3>4. Good(u) /\ Servable(u)
      BY <3>3 DEF Tended
    <3>5. Tended(u, v)
      BY <3>4, <2>3, SetStatusTends DEF Statuses
    <3>6. SlotOf(u, known) = i
      <4>1. u.cache[i].stride = known /\ u.cache[i] # Nil
        BY <3>1, <2>2
      <4>2. SlotOf(u, known) \in Slots /\ u.cache[SlotOf(u, known)].stride = known
        BY <4>1, <3>4, <2>2, <2>3, SlotOfFacts DEF Good
      <4> QED
        BY <4>1, <4>2, <2>2, <3>4 DEF Good, CachedOnce
    <3>7. v = Superseded(w, e)
      <4>1. v = [u EXCEPT !.cache[i].status = "deleted"]
        BY <3>6, <1>5 DEF SetStatus
      <4> HIDE DEF v
      <4> QED
        BY <4>1, <1>2, <1>5, <2>4 DEF u
    <3>8. \A j \in Slots : v.cache[j] \in {w.cache[j], [stride |-> w.cache[j].stride, status |-> "deleted"]}
      <4>1. \A j \in Slots : v.cache[j] = IF u.cache[j].stride = known THEN [stride |-> known, status |-> "deleted"]
                                          ELSE u.cache[j]
        <5>1. "deleted" \in Statuses /\ u \in Worlds /\ Contiguous(u) /\ CachedOnce(u)
          BY <3>4 DEF Good, Statuses
        <5> QED
          BY <5>1, <2>3, SetStatusFacts
      <4> HIDE DEF v
      <4> QED
        BY <4>1, <3>1
    <3>9. u \in Worlds /\ v \in Worlds
      BY <3>1, <3>5 DEF Tended, Good
    <3> HIDE DEF v
    <3> QED
      BY <1>1, <3>3, <3>5, <3>7, <3>8, <3>9, TendedTransitive
  <2>5. CASE ~(known < e.stride)
    <3> DEFINE v == Removed(w, e)
    <3>1. /\ v \in Worlds
          /\ v.cache = w.cache
          /\ v.file = IF e.isDir THEN w.file ELSE [w.file EXCEPT ![s] = NoFile]
          /\ v.directory = IF e.isDir THEN [w.directory EXCEPT ![s] = NoDirectory] ELSE w.directory
          /\ v.extracted = IF e.isDir THEN w.extracted \ {s} ELSE w.extracted
      BY <1>1, RemovedFacts
    <3> HIDE DEF v
    <3>2. SupersededSince(s)
      <4>1. known \in s + 1 .. written
        BY <1>1, <1>5, <2>3, <2>5, SettingFacts
      <4> QED
        BY <4>1, <2>2 DEF SupersededSince
    <3>3. /\ v.file \in {w.file, [w.file EXCEPT ![s] = NoFile]}
          /\ v.directory \in {w.directory, [w.directory EXCEPT ![s] = NoDirectory]}
          /\ v.extracted \in {w.extracted, w.extracted \ {s}}
      BY <3>1
    <3>4. Tended(w, v)
      BY <3>1, <3>2, <3>3, <1>1, RemovedTends
    <3> QED
      BY <1>2, <1>5, <2>5, <3>1, <3>4 DEF v
  <2> QED
    BY <2>4, <2>5
<1> QED
  BY <1>4, <1>5

\* An expired entry goes, and its stride is marked as deleted.
LEMMA ExpiredTends ==
  ASSUME Setting, NEW w, Good(w), Servable(w), NEW s \in Strides, NEW e \in EntryOf(s),
         e.isDir \/ Removable(w.file, s)
  PROVE  Tended(w, Expired(w, e))
<1> DEFINE u == Removed(w, e)
           v == SetStatus(u, s, "deleted")
<1>1. w \in Worlds /\ e.stride = s /\ maxAgeSeconds \in Nat
  BY SettingFacts DEF Good, EntryOf
<1>2. /\ u \in Worlds
      /\ u.cache = w.cache
      /\ u.file = IF e.isDir THEN w.file ELSE [w.file EXCEPT ![s] = NoFile]
      /\ u.directory = IF e.isDir THEN [w.directory EXCEPT ![s] = NoDirectory] ELSE w.directory
      /\ u.extracted = IF e.isDir THEN w.extracted \ {s} ELSE w.extracted
  BY <1>1, RemovedFacts
<1> HIDE DEF u
<1>3. Contiguous(u) /\ CachedOnce(u)
  BY <1>2 DEF Good, Contiguous, CachedOnce
<1>4. /\ v \in Worlds
      /\ v.file = u.file /\ v.directory = u.directory /\ v.extracted = u.extracted
      /\ \A i \in Slots : v.cache[i] = IF u.cache[i].stride = s THEN [stride |-> s, status |-> "deleted"]
                                       ELSE u.cache[i]
  <2>1. "deleted" \in Statuses
    BY DEF Statuses
  <2> QED
    BY <1>2, <1>3, <2>1, SetStatusFacts
<1>5. Expired(w, e) = v
  BY <1>1 DEF Expired, u
<1> HIDE DEF v
<1>6. \A i \in Slots : (v.cache[i] = Nil <=> w.cache[i] = Nil) /\ v.cache[i].stride = w.cache[i].stride
  <2> SUFFICES ASSUME NEW i \in Slots
               PROVE  (v.cache[i] = Nil <=> w.cache[i] = Nil) /\ v.cache[i].stride = w.cache[i].stride
    OBVIOUS
  <2>1. w.cache[i] \in CacheSlots /\ v.cache[i] \in CacheSlots
    BY <1>1, <1>4 DEF Worlds
  <2>2. v.cache[i].stride = w.cache[i].stride
    BY <1>2, <1>4
  <2> QED
    BY <2>1, <2>2, NilFacts
<1>7. \A t \in Strides : /\ v.file[t] = w.file[t] \/ (v.file[t] = NoFile /\ t = s /\ ~e.isDir)
                         /\ v.directory[t] = w.directory[t] \/ (v.directory[t] = NoDirectory /\ t = s)
                         /\ t # s /\ t \in w.extracted => t \in v.extracted
  BY <1>1, <1>2, <1>4 DEF Worlds, Files
<1>8. Contiguous(v) /\ CachedOnce(v)
  BY <1>6 DEF Good, Contiguous, CachedOnce
<1>9. Known(v)
  BY <1>6, <1>7 DEF Good, Known, NoFile
<1>10. Servable(v)
  <2> SUFFICES ASSUME NEW i \in Slots,
                      v.cache[i].status \in {"read", "processing", "processed"},
                      ~SupersededSince(v.cache[i].stride)
               PROVE  /\ ServableStride(v, v.cache[i].stride)
                      /\ v.cache[i].status = "processed" => v.cache[i].stride \in v.extracted
    BY DEF Servable
  <2>1. v.cache[i] = w.cache[i] /\ v.cache[i].stride # s
    BY <1>2, <1>4
  <2>2. v.cache[i].stride \in Strides
    <3>1. w.cache[i] \in CacheSlots
      BY <1>1 DEF Worlds
    <3> QED
      BY <2>1, <3>1, NilFacts
  <2>3. /\ v.file[v.cache[i].stride] = w.file[v.cache[i].stride]
        /\ v.directory[v.cache[i].stride] = w.directory[v.cache[i].stride]
        /\ v.cache[i].stride \in w.extracted => v.cache[i].stride \in v.extracted
    BY <1>7, <2>1, <2>2
  <2> QED
    BY <2>1, <2>3 DEF Servable, ServableStride
<1>11. Thinned(w.file, v.file)
  BY <1>7 DEF Thinned
<1> QED
  BY <1>4, <1>5, <1>8, <1>9, <1>10, <1>11 DEF Tended, Good

\* A stride in a slot of its own is of no consequence to the others.
LEMMA PlacedIsGood ==
  ASSUME Setting, NEW w, Good(w), Servable(w), NEW s \in begun, \A j \in Slots : w.cache[j].stride # s,
         NEW i \in Slots, \A j \in Slots : j < i => w.cache[j] # Nil,
         NEW v \in Worlds, v.cache = [w.cache EXCEPT ![i] = [stride |-> s, status |-> "exists"]],
         \A t \in Strides :
           \/ /\ v.file[t] = w.file[t] /\ v.directory[t] = w.directory[t]
              /\ t \in w.extracted => t \in v.extracted
           \/ v.file[t] = NoFile /\ v.directory[t] = NoDirectory /\ w.cache[i].stride = t
  PROVE  Good(v) /\ Servable(v)
<1>1. w \in Worlds /\ v \in Worlds /\ s \in Strides
  BY SettingFacts DEF Good
<1>2. \A j \in Slots : /\ w.cache[j] \in CacheSlots /\ v.cache[j] \in CacheSlots
                       /\ v.cache[j] = IF j = i THEN [stride |-> s, status |-> "exists"] ELSE w.cache[j]
  BY <1>1 DEF Worlds
<1>3. v.cache[i] # Nil /\ v.cache[i].stride = s /\ v.cache[i].status = "exists"
  BY <1>2 DEF Nil
<1>4. Contiguous(v)
  BY <1>2, <1>3 DEF Good, Contiguous
<1>5. CachedOnce(v)
  <2> SUFFICES ASSUME NEW j \in Slots, NEW k \in Slots, j # k, v.cache[j] # Nil
               PROVE  v.cache[j].stride # v.cache[k].stride
    BY DEF CachedOnce
  <2> QED
    BY <1>2, <1>3 DEF Good, CachedOnce
<1>6. Known(v)
  <2>1. \A j \in Slots : v.cache[j] # Nil => v.cache[j].stride \in begun
    BY <1>2, <1>3 DEF Good, Known
  <2>2. \A t \in Strides : /\ v.file[t] = w.file[t] \/ v.file[t] = NoFile
                           /\ v.directory[t] = w.directory[t] \/ v.directory[t] = NoDirectory
    OBVIOUS
  <2>3. NoFile.content = "none"
    BY DEF NoFile
  <2> QED
    BY <2>1, <2>2, <2>3 DEF Good, Known
<1>7. Servable(v)
  <2> SUFFICES ASSUME NEW j \in Slots,
                      v.cache[j].status \in {"read", "processing", "processed"},
                      ~SupersededSince(v.cache[j].stride)
               PROVE  /\ ServableStride(v, v.cache[j].stride)
                      /\ v.cache[j].status = "processed" => v.cache[j].stride \in v.extracted
    BY DEF Servable
  <2>1. j # i
    BY <1>3
  <2>2. v.cache[j] = w.cache[j] /\ w.cache[j] # Nil
    BY <1>2, <2>1, NilFacts
  <2>3. w.cache[j].stride # w.cache[i].stride /\ w.cache[j].stride \in Strides
    BY <1>2, <2>1, <2>2, NilFacts DEF Good, CachedOnce
  <2>4. /\ v.file[v.cache[j].stride] = w.file[v.cache[j].stride]
        /\ v.directory[v.cache[j].stride] = w.directory[v.cache[j].stride]
        /\ v.cache[j].stride \in w.extracted => v.cache[j].stride \in v.extracted
    BY <2>2, <2>3
  <2> QED
    BY <2>2, <2>4 DEF Servable, ServableStride
<1> QED
  BY <1>4, <1>5, <1>6, <1>7 DEF Good

LEMMA FreeSlotFacts ==
  ASSUME NEW w \in Worlds
  PROVE  \/ FreeSlot(w) = 0 /\ \A i \in Slots : w.cache[i].status \notin {"nil", "deleted"}
         \/ /\ FreeSlot(w) \in Slots /\ FreeSlot(w) # 0
            /\ \A i \in Slots : i < FreeSlot(w) => w.cache[i] # Nil
<1> DEFINE S == {i \in Slots : w.cache[i].status \in {"nil", "deleted"}}
<1>1. \/ S = {} /\ First(S) = 0
      \/ First(S) \in S /\ First(S) # 0 /\ \A i \in S : First(S) <= i
  BY FirstFacts
<1>2. FreeSlot(w) = First(S)
  BY DEF FreeSlot
<1>3. CASE First(S) \in S /\ First(S) # 0 /\ \A i \in S : First(S) <= i
  <2>1. ASSUME NEW i \in Slots, i < First(S)
        PROVE  w.cache[i] # Nil
    <3>1. i \notin S
      <4> DEFINE n == First(S)
      <4>1. n \in Slots /\ i < n /\ (i \in S => n <= i)
        BY <1>3, <2>1
      <4> HIDE DEF n, S
      <4> QED
        BY <4>1, SlotsAreNumbers
    <3> QED
      BY <3>1, NilFacts
  <2> QED
    BY <1>2, <1>3, <2>1
<1> QED
  BY <1>1, <1>2, <1>3

LEMMA OldestSlotFacts ==
  ASSUME NEW w \in Worlds
  PROVE  /\ OldestSlot(w) \in Slots
         /\ \A j \in Slots : w.cache[OldestSlot(w)].stride <= w.cache[j].stride
<1> DEFINE S == {w.cache[j].stride : j \in Slots}
<1>1. \A j \in Slots : w.cache[j].stride \in Nat
  <2> SUFFICES ASSUME NEW j \in Slots
               PROVE  w.cache[j].stride \in Nat
    OBVIOUS
  <2>1. w.cache[j] \in CacheSlots
    BY DEF Worlds
  <2>2. Strides \subseteq Nat
    BY ExplorerAssumption DEF Strides
  <2> QED
    BY <2>1, <2>2, NilFacts
<1>2. S \subseteq Nat /\ S # {}
  BY <1>1, SlotsAreNumbers
<1>3. \E n \in S : \A m \in S : n <= m
  BY <1>2, Least
<1>4. \E i \in Slots : \A j \in Slots : w.cache[i].stride <= w.cache[j].stride
  BY <1>3
<1> QED
  BY <1>4 DEF OldestSlot

LEMMA AddedTends ==
  ASSUME Setting, NEW w, Good(w), Servable(w), NEW s \in begun, \A j \in Slots : w.cache[j].stride # s
  PROVE  Tended(w, Added(w, s))
<1> DEFINE entry == [stride |-> s, status |-> "exists"]
           v == Added(w, s)
<1>1. w \in Worlds /\ s \in Strides /\ entry \in CacheSlots /\ maxAgeSeconds \in Nat
  <2>1. w \in Worlds /\ s \in Strides /\ maxAgeSeconds \in Nat
    BY SettingFacts DEF Good
  <2> QED
    BY <2>1 DEF CacheSlots, Statuses
<1>2. CASE FreeSlot(w) # 0
  <2> DEFINE i == FreeSlot(w)
  <2>1. i \in Slots /\ \A j \in Slots : j < i => w.cache[j] # Nil
    BY <1>1, <1>2, FreeSlotFacts
  <2>2. v = [w EXCEPT !.cache[i] = entry]
    BY <1>2 DEF Added
  <2> HIDE DEF v, i
  <2>3. v.cache = [w.cache EXCEPT ![i] = entry] /\ v \in Worlds
        /\ v.file = w.file /\ v.directory = w.directory /\ v.extracted = w.extracted
    BY <1>1, <2>1, <2>2 DEF Worlds
  <2>4. Good(v) /\ Servable(v)
    BY <2>1, <2>3, PlacedIsGood
  <2>5. Thinned(w.file, v.file)
    BY <2>3 DEF Thinned
  <2> QED
    BY <2>4, <2>5 DEF Tended, v
<1>3. CASE FreeSlot(w) = 0
  <2> DEFINE o == OldestSlot(w)
             k == w.cache[o].stride
             u == BothRemoved(w, k)
  <2>1. o \in Slots /\ \A j \in Slots : k <= w.cache[j].stride
    BY <1>1, OldestSlotFacts
  <2>2. \A j \in Slots : w.cache[j] # Nil /\ w.cache[j].stride \in begun
    <3>1. \A j \in Slots : w.cache[j].status \notin {"nil", "deleted"}
      BY <1>1, <1>3, FreeSlotFacts
    <3> QED
      BY <3>1, NilFacts DEF Good, Known
  <2> HIDE DEF o
  <2>3. k \in begun /\ k \in Strides
    BY <2>1, <2>2, SettingFacts
  <2>4. /\ u \in Worlds
        /\ u.cache = w.cache
        /\ u.file = [w.file EXCEPT ![k] = NoFile]
        /\ u.directory = [w.directory EXCEPT ![k] = NoDirectory]
        /\ u.extracted = w.extracted \ {k}
    BY <1>1, <2>3, BothRemovedFacts
  <2>5. v = [u EXCEPT !.cache[o] = entry]
    BY <1>3 DEF Added, o
  <2> HIDE DEF u, v
  <2>6. v.cache = [w.cache EXCEPT ![o] = entry] /\ v \in Worlds
        /\ v.file = u.file /\ v.directory = u.directory /\ v.extracted = u.extracted
    BY <1>1, <2>1, <2>4, <2>5 DEF Worlds
  <2>7. \A t \in Strides :
           \/ /\ v.file[t] = w.file[t] /\ v.directory[t] = w.directory[t]
              /\ t \in w.extracted => t \in v.extracted
           \/ v.file[t] = NoFile /\ v.directory[t] = NoDirectory /\ k = t
    BY <1>1, <2>4, <2>6 DEF Worlds, Files
  <2>8. Good(v) /\ Servable(v)
    BY <2>1, <2>2, <2>6, <2>7, PlacedIsGood
  <2>9. \E t \in Strides : Later(k, t)
    <3>1. PICK p \in Slots : p # o
      BY SlotsAreNumbers
    <3>2. w.cache[p].stride \in begun /\ w.cache[p].stride # k /\ k <= w.cache[p].stride
      BY <2>1, <2>2, <3>1 DEF Good, CachedOnce
    <3> QED
      BY <2>3, <3>2, SettingFacts DEF Later
  <2>10. Thinned(w.file, v.file)
    BY <2>7, <2>9 DEF Thinned, Removable
  <2> QED
    BY <2>8, <2>10 DEF Tended, v
<1> QED
  BY <1>2, <1>3

LEMMA CachedTends ==
  ASSUME Setting, NEW w, Good(w), Servable(w), NEW s \in begun
  PROVE  Tended(w, Cached(w, s))
<1>1. CASE SlotOf(w, s) = 0
  <2>1. \A j \in Slots : w.cache[j].stride # s
    BY <1>1, SlotOfFacts, SettingFacts, SlotsAreNumbers DEF Good
  <2> QED
    BY <1>1, <2>1, AddedTends DEF Cached
<1>2. CASE SlotOf(w, s) # 0
  BY <1>2 DEF Cached, Tended, Thinned
<1> QED
  BY <1>1, <1>2

-----------------------------------------------------------------------------
(* Newer files *)

\* Of two files a later one is the younger, and a file that has a later stride is there with
\* the file of one, unless its time has come.
LaterIsYounger(f) ==
  \A s, t \in Strides :
    Later(s, t) /\ f[s].content # "none" /\ f[t].content # "none" => f[t].age <= f[s].age

LaterIsThere(f) ==
  \A s \in Strides :
    f[s].content # "none" /\ (\E t \in Strides : Later(s, t))
      => Outlived(f, s) \/ \E t \in Strides : Later(s, t) /\ f[t].content # "none"

LEMMA LaterTransitive ==
  ASSUME Setting, NEW s \in Strides, NEW t \in Strides, NEW u \in Strides, Later(s, t), Later(t, u)
  PROVE  Later(s, u)
<1>1. s < u /\ u <= written
  BY SettingFacts DEF Later
<1>2. t .. u \subseteq s .. u
  BY SettingFacts DEF Later
<1>3. ~Ascending(t, u) => ~Ascending(s, u)
  BY <1>2 DEF Ascending
<1> QED
  BY <1>1, <1>3 DEF Later

LEMMA ThinnedKeeps ==
  ASSUME Setting, NEW f \in Files, NEW g \in Files, LaterIsYounger(f), LaterIsThere(f), Thinned(f, g)
  PROVE  LaterIsYounger(g) /\ LaterIsThere(g)
<1>1. \A s \in Strides : g[s].content # "none" => g[s] = f[s]
  BY DEF Thinned, NoFile
<1>2. LaterIsYounger(g)
  BY <1>1 DEF LaterIsYounger
<1>3. ASSUME NEW s \in Strides, g[s].content # "none", \E t \in Strides : Later(s, t), ~Outlived(g, s)
      PROVE  \E t \in Strides : Later(s, t) /\ g[t].content # "none"
  <2> DEFINE S == {t \in Strides : Later(s, t) /\ f[t].content # "none"}
  <2>1. f[s] = g[s] /\ ~Outlived(f, s)
    BY <1>1, <1>3 DEF Outlived
  <2>2. S # {}
    BY <1>3, <2>1 DEF LaterIsThere
  <2>3. PICK t \in S : \A u \in S : u <= t
    BY <2>2, LastStride
  <2>4. ~Outlived(f, t)
    <3>1. f[t].age <= f[s].age
      BY <1>3, <2>1 DEF LaterIsYounger
    <3>2. f[t].age \in Nat /\ f[s].age \in Nat /\ maxAgeSeconds \in Nat
      BY SettingFacts DEF Files
    <3> QED
      BY <2>1, <3>1, <3>2 DEF Outlived
  <2>5. ~\E u \in Strides : Later(t, u)
    <3> SUFFICES ASSUME \E u \in Strides : Later(t, u)
                 PROVE  FALSE
      OBVIOUS
    <3>1. PICK u \in Strides : Later(t, u) /\ f[u].content # "none"
      BY <2>4 DEF LaterIsThere
    <3>2. u \in S
      BY <3>1, LaterTransitive
    <3>3. t < u
      BY <3>1 DEF Later
    <3> QED
      BY <2>3, <3>2, <3>3, SettingFacts
  <2>6. g[t] = f[t]
    BY <2>4, <2>5 DEF Thinned, Removable
  <2> QED
    BY <2>6
<1> QED
  BY <1>2, <1>3 DEF LaterIsThere

-----------------------------------------------------------------------------
(* The invariant *)

\* What the scan has in hand: the directory of the stride is made before its file is read, and
\* nothing comes between the mark and the end of an extraction.
ScanInv ==
  /\ scan.at \in {"idle", "loop", "read", "extract"}
  /\ scan.at = "loop" => scan.left \subseteq [isDir : BOOLEAN, stride : 1 .. written, age : Nat]
  /\ scan.at \in {"read", "extract"} => scan.stride \in Strides
  /\ scan.at = "read" => directory[scan.stride] # NoDirectory
  /\ scan.at = "extract" =>
       \A i \in Slots : strideCache[i].stride = scan.stride => strideCache[i].status = "processing"

ScanRecord == scan \in [at : {"idle", "loop", "read", "extract"}, left : SUBSET [isDir : BOOLEAN, stride : Nat, age : Nat],
                        stride : Nat, age : Nat]

WorldInv == Good(World) /\ Servable(World) /\ LaterIsYounger(file) /\ LaterIsThere(file)

ExplorerInv == Setting /\ ScanRecord /\ ScanInv /\ WorldInv

LEMMA WorldFacts ==
  /\ World.file = file /\ World.directory = directory
  /\ World.extracted = extracted /\ World.cache = strideCache
BY DEF World

LEMMA InvImpliesProperties ==
  ASSUME ExplorerInv
  PROVE  TypeOK /\ StrideCachedOnce /\ OfferedStridesServable
<1>1. Good(World) /\ Servable(World)
  BY DEF ExplorerInv, WorldInv
<1>2. World \in Worlds /\ Contiguous(World) /\ CachedOnce(World)
  BY <1>1 DEF Good
<1>3. TypeOK
  BY <1>2, WorldFacts DEF TypeOK, Worlds, Files, CacheSlots, Contiguous
<1>4. StrideCachedOnce
  BY <1>2, WorldFacts DEF StrideCachedOnce, CachedOnce
<1>5. OfferedStridesServable
  BY <1>1, WorldFacts DEF OfferedStridesServable, Servable, ServableStride
<1> QED
  BY <1>3, <1>4, <1>5

LEMMA InitEstablishes == Init => ExplorerInv
<1> SUFFICES ASSUME Init
             PROVE  ExplorerInv
  OBVIOUS
<1>1. Setting
  BY ExplorerAssumption DEF Init, Setting
<1>2. ScanRecord /\ ScanInv
  BY DEF Init, ScanRecord, ScanInv, Idle
<1>3. World \in Worlds
  <2>1. file \in Files
    BY <1>1, SettingFacts DEF Init, Files, NoFile
  <2> QED
    BY <2>1 DEF World, Worlds, Init, CacheSlots
<1>4. Contiguous(World) /\ CachedOnce(World)
  BY WorldFacts DEF Init, Contiguous, CachedOnce
<1>5. Known(World)
  BY WorldFacts DEF Init, Known, NoFile
<1>6. Servable(World)
  BY WorldFacts DEF Init, Servable, Nil
<1>7. LaterIsYounger(file) /\ LaterIsThere(file)
  BY DEF Init, LaterIsYounger, LaterIsThere, NoFile
<1> QED
  BY <1>1, <1>2, <1>3, <1>4, <1>5, <1>6, <1>7 DEF ExplorerInv, WorldInv, Good

\* The steps that leave the receiver alone.
Alone == UNCHANGED <<StrideId, maxAgeSeconds, written, begun>>

LEMMA SettingUnchanged ==
  ASSUME Setting, Alone, restarts' \in Nat
  PROVE  Setting'
BY DEF Setting, Alone

LEMMA GoodUnchanged ==
  ASSUME NEW w, Alone
  PROVE  /\ Good(w)' <=> Good(w)
         /\ Servable(w)' <=> Servable(w)
         /\ TooOld' = TooOld
         /\ Files' = Files
         /\ \A f : LaterIsYounger(f)' <=> LaterIsYounger(f)
         /\ \A f : LaterIsThere(f)' <=> LaterIsThere(f)
<1>1. TooOld' = TooOld
  BY DEF TooOld, Alone
<1>2. Files' = Files
  BY <1>1 DEF Files
<1>3. Good(w)' <=> Good(w)
  BY <1>1, <1>2 DEF Good, Worlds, Contiguous, CachedOnce, Known, Alone
<1>4. Servable(w)' <=> Servable(w)
  BY DEF Servable, SupersededSince, ServableStride, Alone
<1>5. \A s, t : Later(s, t)' <=> Later(s, t)
  BY DEF Later, Ascending, Alone
<1>6. \A f, s : Outlived(f, s)' <=> Outlived(f, s)
  BY DEF Outlived, Alone
<1>7. \A f : (LaterIsYounger(f)' <=> LaterIsYounger(f)) /\ (LaterIsThere(f)' <=> LaterIsThere(f))
  BY <1>5, <1>6 DEF LaterIsYounger, LaterIsThere
<1> QED
  BY <1>1, <1>2, <1>3, <1>4, <1>7

\* A step that makes a tended world of the world keeps its part of the invariant.
LEMMA TendedStep ==
  ASSUME ExplorerInv, NEW v, Tended(World, v), Becomes(v), Alone
  PROVE  WorldInv' /\ (\A s \in Strides : file[s].content # "none" /\ file'[s].content = "none" => Removable(file, s))
<1>1. v \in Worlds /\ World \in Worlds
  BY DEF Tended, Good, ExplorerInv, WorldInv
<1>2. World' = v
  BY <1>1 DEF Becomes, World, Worlds
<1>3. (Good(v) /\ Servable(v))'
  BY GoodUnchanged DEF Tended
<1>4. Thinned(file, v.file)
  BY WorldFacts DEF Tended
<1>5. LaterIsYounger(v.file) /\ LaterIsThere(v.file)
  <2>1. file \in Files /\ v.file \in Files
    BY <1>1, WorldFacts DEF Worlds
  <2> QED
    BY <2>1, <1>4, ThinnedKeeps DEF ExplorerInv, WorldInv
<1>6. file' = v.file
  BY DEF Becomes
<1>7. (LaterIsYounger(file) /\ LaterIsThere(file))'
  BY <1>5, <1>6, GoodUnchanged
<1>8. \A s \in Strides : file[s].content # "none" /\ file'[s].content = "none" => Removable(file, s)
  BY <1>4, <1>6 DEF Thinned
<1> QED
  BY <1>2, <1>3, <1>7, <1>8 DEF WorldInv

-----------------------------------------------------------------------------
(* The steps of the scan *)

\* What a step of the scan is shown to do.
ScanStepIsFine ==
  /\ ExplorerInv'
  /\ \A s \in Strides : file[s].content # "none" /\ file'[s].content = "none" => Removable(file, s)

LEMMA TendedStepIsFine ==
  ASSUME ExplorerInv, NEW v, Tended(World, v), Becomes(v), Alone, restarts' = restarts,
         ScanRecord', ScanInv'
  PROVE  ScanStepIsFine
<1>1. Setting'
  BY SettingUnchanged DEF ExplorerInv, Setting
<1> QED
  BY <1>1, TendedStep DEF ScanStepIsFine, ExplorerInv

LEMMA WorldTends ==
  ASSUME ExplorerInv
  PROVE  Tended(World, World)
BY DEF ExplorerInv, WorldInv, Tended, Thinned

LEMMA WorldUnchanged ==
  ASSUME ExplorerInv, UNCHANGED <<StrideId, file, directory, extracted, strideCache, maxAgeSeconds, written, begun, restarts>>,
         ScanRecord', ScanInv'
  PROVE  ScanStepIsFine
<1>1. Becomes(World) /\ Alone
  BY DEF Becomes, World, Alone
<1> QED
  BY <1>1, WorldTends, TendedStepIsFine

LEMMA EntriesFacts ==
  ASSUME ExplorerInv
  PROVE  Entries \subseteq [isDir : BOOLEAN, stride : 1 .. written, age : Nat]
<1>1. /\ file \in Files /\ directory \in [Strides -> {NoDirectory} \union 0 .. TooOld]
      /\ TooOld \in Nat /\ Strides \subseteq Nat \ {0}
      /\ \A s \in Strides : file[s].content # "none" \/ directory[s] # NoDirectory => s <= written
  BY WorldFacts, SettingFacts DEF ExplorerInv, WorldInv, Good, Worlds, Known
<1>2. \A s \in Strides : file[s].age \in Nat
  BY <1>1 DEF Files
<1>3. \A s \in Strides : directory[s] # NoDirectory => directory[s] \in Nat
  BY <1>1
<1>4. written \in Nat
  BY SettingFacts DEF ExplorerInv
<1>5. \A s \in Strides : file[s].content # "none" \/ directory[s] # NoDirectory => s \in 1 .. written
  BY <1>1, <1>4
<1>6. ASSUME NEW e \in Entries
      PROVE  e \in [isDir : BOOLEAN, stride : 1 .. written, age : Nat]
  <2>1. CASE \E s \in Strides : file[s].content # "none" /\ e = [isDir |-> FALSE, stride |-> s, age |-> file[s].age]
    BY <2>1, <1>2, <1>5
  <2>2. CASE \E s \in Strides : directory[s] # NoDirectory /\ e = [isDir |-> TRUE, stride |-> s, age |-> directory[s]]
    BY <2>2, <1>3, <1>5
  <2> QED
    BY <1>6, <2>1, <2>2 DEF Entries
<1> QED
  BY <1>6

LEMMA BeginScanIsFine == ExplorerInv /\ BeginScan => ScanStepIsFine
<1> SUFFICES ASSUME ExplorerInv, BeginScan
             PROVE  ScanStepIsFine
  OBVIOUS
<1>1. scan' = [at |-> "loop", left |-> Entries, stride |-> 0, age |-> 0]
  BY DEF BeginScan, Idle
<1>2. Entries \subseteq [isDir : BOOLEAN, stride : 1 .. written, age : Nat]
  BY EntriesFacts
<1>3. written' = written /\ 1 .. written \subseteq Nat
  BY SettingFacts DEF BeginScan, ExplorerInv
<1>4. ScanRecord'
  <2>1. Entries \subseteq [isDir : BOOLEAN, stride : Nat, age : Nat]
    BY <1>2, <1>3
  <2> QED
    BY <1>1, <2>1 DEF ScanRecord
<1>5. ScanInv'
  BY <1>1, <1>2, <1>3 DEF ScanInv
<1> QED
  BY <1>4, <1>5, WorldUnchanged DEF BeginScan

LEMMA EndScanIsFine == ExplorerInv /\ EndScan => ScanStepIsFine
<1> SUFFICES ASSUME ExplorerInv, EndScan
             PROVE  ScanStepIsFine
  OBVIOUS
<1>1. ScanRecord' /\ ScanInv'
  BY DEF EndScan, Idle, ScanRecord, ScanInv
<1> QED
  BY <1>1, WorldUnchanged DEF EndScan

LEMMA InHandFacts ==
  ASSUME ExplorerInv, NEW e, InHand(e)
  PROVE  e.stride \in 1 .. written /\ e.stride \in Strides /\ e \in EntryOf(e.stride)
<1>1. e \in [isDir : BOOLEAN, stride : 1 .. written, age : Nat]
  BY DEF ExplorerInv, ScanInv, InHand
<1> QED
  BY <1>1, SettingFacts DEF ExplorerInv, EntryOf

LEMMA ContinueFacts ==
  ASSUME ExplorerInv, NEW e, InHand(e), Continue(e), written' = written
  PROVE  ScanRecord' /\ ScanInv'
<1>1. scan' = [scan EXCEPT !.left = scan.left \ {e}]
  BY DEF Continue
<1>2. scan.at = "loop" /\ ScanRecord /\ ScanInv
  BY DEF InHand, ExplorerInv
<1> QED
  BY <1>1, <1>2 DEF ScanRecord, ScanInv

LEMMA SkipVanishedIsFine ==
  ASSUME ExplorerInv, NEW e \in scan.left, SkipVanished(e), Alone, restarts' = restarts
  PROVE  ScanStepIsFine
<1>1. InHand(e) /\ Continue(e) /\ Becomes(World)
  BY DEF SkipVanished
<1>2. ScanRecord' /\ ScanInv'
  BY <1>1, ContinueFacts DEF Alone
<1> QED
  BY <1>1, <1>2, WorldTends, TendedStepIsFine

LEMMA ExpireIsFine ==
  ASSUME ExplorerInv, NEW e \in scan.left, Expire(e), Alone, restarts' = restarts
  PROVE  ScanStepIsFine
<1> DEFINE u == Superseded(World, e)
           v == Expired(u, e)
           s == e.stride
<1>1. InHand(e) /\ Continue(e) /\ Becomes(v) /\ IsTooOld(e)
  BY DEF Expire
<1>2. ScanRecord' /\ ScanInv'
  BY <1>1, ContinueFacts DEF Alone
<1>3. s \in 1 .. written /\ s \in Strides /\ e \in EntryOf(s)
  BY <1>1, InHandFacts
<1>4. Setting /\ Good(World) /\ Servable(World)
  BY DEF ExplorerInv, WorldInv
<1>5. Tended(World, u)
  BY <1>3, <1>4, SupersededTends
<1>6. e.isDir \/ Removable(u.file, s)
  <2> SUFFICES ASSUME ~e.isDir
               PROVE  Removable(u.file, s)
    OBVIOUS
  <2>1. Outlived(file, s)
    BY <1>1 DEF IsTooOld, Age, World, Outlived
  <2>2. u.file[s] = file[s] \/ u.file[s] = NoFile
    BY <1>3, <1>5, WorldFacts DEF Tended, Thinned
  <2> QED
    BY <2>1, <2>2 DEF Removable, Outlived, NoFile
<1>7. Tended(u, v)
  BY <1>3, <1>4, <1>5, <1>6, ExpiredTends DEF Tended
<1>8. Tended(World, v)
  BY <1>4, <1>5, <1>7, TendedTransitive DEF Tended, Good
<1> QED
  BY <1>1, <1>2, <1>8, TendedStepIsFine

LEMMA VisitDirectoryIsFine ==
  ASSUME ExplorerInv, NEW e \in scan.left, VisitDirectory(e), Alone, restarts' = restarts
  PROVE  ScanStepIsFine
<1> DEFINE w == Superseded(World, e)
           v == SetStatus(w, e.stride, "processing")
           s == e.stride
<1>1. InHand(e)
  BY DEF VisitDirectory
<1>2. s \in 1 .. written /\ s \in Strides /\ e \in EntryOf(s) /\ Strides \subseteq Nat
  BY <1>1, InHandFacts, SettingFacts DEF ExplorerInv
<1>3. Setting /\ Good(World) /\ Servable(World)
  BY DEF ExplorerInv, WorldInv
<1>4. Tended(World, w)
  BY <1>2, <1>3, SupersededTends
<1>5. CASE /\ Status(w, s) = "read"
           /\ Becomes(v)
           /\ scan' = [Idle EXCEPT !.at = "extract", !.stride = s]
  <2>1. SlotOf(w, s) \in Slots /\ w.cache[SlotOf(w, s)].stride = s /\ w.cache[SlotOf(w, s)].status = "read"
    <3>1. Good(w)
      BY <1>4 DEF Tended
    <3>2. SlotOf(w, s) # 0 /\ w.cache[SlotOf(w, s)].status = "read"
      BY <1>5 DEF Status
    <3> HIDE DEF w
    <3> QED
      BY <3>1, <3>2, <1>2, SlotOfFacts DEF Good
  <2>2. ~SupersededSince(s) => ServableStride(w, s)
    <3>1. Servable(w)
      BY <1>4 DEF Tended
    <3> HIDE DEF w
    <3> QED
      BY <3>1, <2>1 DEF Servable
  <2>3. "processing" \in Statuses /\ Good(w) /\ Servable(w)
    BY <1>4 DEF Statuses, Tended
  <2>4. Tended(w, v)
    <3>1. v = SetStatus(w, s, "processing")
      OBVIOUS
    <3> HIDE DEF w, s, v
    <3>2. Tended(w, SetStatus(w, s, "processing"))
      BY <1>2, <1>3, <2>2, <2>3, SetStatusTends
    <3> QED
      BY <3>1, <3>2
  <2>5. Tended(World, v)
    BY <1>3, <1>4, <2>4, TendedTransitive DEF Tended, Good
  <2>6. \A i \in Slots : v.cache[i].stride = s => v.cache[i].status = "processing"
    <3>1. \A i \in Slots : v.cache[i] = IF w.cache[i].stride = s THEN [stride |-> s, status |-> "processing"]
                                        ELSE w.cache[i]
      BY <1>2, <2>3, SetStatusFacts DEF Good
    <3> HIDE DEF v, w
    <3> QED
      BY <3>1
  <2>7. ScanRecord' /\ ScanInv'
    <3>1. strideCache' = v.cache
      BY <1>5 DEF Becomes
    <3> HIDE DEF v
    <3> QED
      BY <1>2, <1>5, <2>6, <3>1 DEF Idle, ScanRecord, ScanInv
  <2> QED
    BY <1>5, <2>5, <2>7, TendedStepIsFine
<1>6. CASE Becomes(w) /\ Continue(e)
  <2>1. ScanRecord' /\ ScanInv'
    BY <1>1, <1>6, ContinueFacts DEF Alone
  <2> QED
    BY <1>4, <1>6, <2>1, TendedStepIsFine
<1> QED
  BY <1>5, <1>6 DEF VisitDirectory

LEMMA WithDirectoryTends ==
  ASSUME Setting, NEW w, Good(w), Servable(w), NEW s \in begun
  PROVE  Tended(w, WithDirectory(w, s)) /\ WithDirectory(w, s).directory[s] # NoDirectory
<1> DEFINE v == WithDirectory(w, s)
<1>1. w \in Worlds /\ s \in Strides /\ s <= written /\ TooOld \in Nat
  BY SettingFacts DEF Good
<1>2. CASE w.directory[s] # NoDirectory
  BY <1>2 DEF WithDirectory, Tended, Thinned
<1>3. CASE w.directory[s] = NoDirectory
  <2>1. v = [w EXCEPT !.directory = [w.directory EXCEPT ![s] = 0]]
    BY <1>3 DEF WithDirectory
  <2>2. [w.directory EXCEPT ![s] = 0] \in [Strides -> {NoDirectory} \union 0 .. TooOld]
    BY <1>1 DEF Worlds
  <2> HIDE DEF v
  <2>3. v \in Worlds /\ v.file = w.file /\ v.cache = w.cache /\ v.extracted = w.extracted
        /\ v.directory = [w.directory EXCEPT ![s] = 0]
    BY <1>1, <2>1, <2>2 DEF Worlds
  <2>4. \A t \in Strides : v.directory[t] = w.directory[t] \/ (t = s /\ v.directory[t] # NoDirectory)
    BY <1>1, <2>3 DEF Worlds, NoDirectory
  <2>5. v.directory[s] # NoDirectory
    BY <1>1, <2>3 DEF Worlds, NoDirectory
  <2>6. Good(v)
    BY <1>1, <2>3, <2>4 DEF Good, Contiguous, CachedOnce, Known
  <2>7. Servable(v)
    <3> SUFFICES ASSUME NEW i \in Slots,
                        v.cache[i].status \in {"read", "processing", "processed"},
                        ~SupersededSince(v.cache[i].stride)
                 PROVE  /\ ServableStride(v, v.cache[i].stride)
                        /\ v.cache[i].status = "processed" => v.cache[i].stride \in v.extracted
      BY DEF Servable
    <3>1. w.cache[i] \in CacheSlots
      BY <1>1 DEF Worlds
    <3>2. v.cache[i].stride \in Strides
      BY <2>3, <3>1, NilFacts
    <3> QED
      BY <2>3, <2>4, <3>2 DEF Servable, ServableStride
  <2> QED
    BY <2>3, <2>5, <2>6, <2>7 DEF Tended, Thinned, v
<1> QED
  BY <1>2, <1>3

LEMMA VisitFileIsFine ==
  ASSUME ExplorerInv, NEW e \in scan.left, VisitFile(e), Alone, restarts' = restarts
  PROVE  ScanStepIsFine
<1> DEFINE s == e.stride
           w == Superseded(World, e)
           cached == Cached(w, s)
           v == WithDirectory(cached, s)
<1>1. InHand(e) /\ Exists(World, e) /\ ~e.isDir
  BY DEF VisitFile
<1>2. s \in 1 .. written /\ s \in Strides /\ e \in EntryOf(s) /\ Strides \subseteq Nat
  BY <1>1, InHandFacts, SettingFacts DEF ExplorerInv
<1>3. Setting /\ Good(World) /\ Servable(World)
  BY DEF ExplorerInv, WorldInv
<1>4. Tended(World, w)
  BY <1>2, <1>3, SupersededTends
<1>5. CASE Becomes(w) /\ Continue(e)
  <2>1. ScanRecord' /\ ScanInv'
    BY <1>1, <1>5, ContinueFacts DEF Alone
  <2> QED
    BY <1>4, <1>5, <2>1, TendedStepIsFine
<1>6. CASE file[s].content # "empty"
  <2>1. s \in begun
    <3>1. file[s].content \in {"partial", "complete"}
      <4>1. file[s].content # "none"
        BY <1>1, WorldFacts DEF Exists
      <4>2. file \in Files
        BY <1>3, WorldFacts DEF Good, Worlds
      <4> QED
        BY <1>2, <1>6, <4>1, <4>2 DEF Files
    <3> QED
      BY <3>1, <1>2, <1>3, WorldFacts DEF Good, Known
  <2>2. Tended(w, cached)
    <3>1. Good(w) /\ Servable(w)
      BY <1>4 DEF Tended
    <3> HIDE DEF w, s
    <3> QED
      BY <1>3, <2>1, <3>1, CachedTends DEF cached
  <2>3. Tended(World, cached)
    BY <1>3, <1>4, <2>2, TendedTransitive DEF Tended, Good
  <2>4. CASE Becomes(cached) /\ Continue(e)
    <3>1. ScanRecord' /\ ScanInv'
      BY <1>1, <2>4, ContinueFacts DEF Alone
    <3> QED
      BY <2>3, <2>4, <3>1, TendedStepIsFine
  <2>5. CASE Becomes(v) /\ scan' = [Idle EXCEPT !.at = "read", !.stride = s, !.age = Age(World, e)]
    <3>1. Tended(cached, v) /\ v.directory[s] # NoDirectory
      <4>1. Good(cached) /\ Servable(cached)
        BY <2>2 DEF Tended
      <4> HIDE DEF cached, s
      <4> QED
        BY <1>3, <2>1, <4>1, WithDirectoryTends DEF v
    <3>2. Tended(World, v)
      BY <1>3, <2>3, <3>1, TendedTransitive DEF Tended, Good
    <3>3. Age(World, e) \in Nat
      <4>1. file \in Files /\ TooOld \in Nat
        BY <1>3, WorldFacts, SettingFacts DEF Good, Worlds
      <4>2. Age(World, e) = file[s].age
        BY <1>1, WorldFacts DEF Age
      <4> QED
        BY <1>2, <4>1, <4>2 DEF Files
    <3>4. ScanRecord' /\ ScanInv'
      <4>1. directory' = v.directory
        BY <2>5 DEF Becomes
      <4>2. directory'[s] # NoDirectory
        BY <3>1, <4>1
      <4> DEFINE age == Age(World, e)
      <4>3. scan' = [at |-> "read", left |-> {}, stride |-> s, age |-> age]
        BY <2>5 DEF Idle
      <4> HIDE DEF v, age, s
      <4> QED
        BY <1>2, <3>3, <4>2, <4>3 DEF ScanRecord, ScanInv, age
    <3> QED
      BY <2>5, <3>2, <3>4, TendedStepIsFine
  <2>6. CASE Becomes(SetStatus(cached, s, "error")) /\ Continue(e)
    <3>1. Tended(cached, SetStatus(cached, s, "error"))
      <4>1. Good(cached) /\ Servable(cached)
        BY <2>2 DEF Tended
      <4> HIDE DEF cached, s
      <4> QED
        BY <1>2, <1>3, <4>1, SetStatusTends DEF Statuses
    <3>2. Tended(World, SetStatus(cached, s, "error"))
      BY <1>3, <2>3, <3>1, TendedTransitive DEF Tended, Good
    <3>3. ScanRecord' /\ ScanInv'
      BY <1>1, <2>6, ContinueFacts DEF Alone
    <3> QED
      BY <2>6, <3>2, <3>3, TendedStepIsFine
  <2> QED
    BY <1>5, <1>6, <2>4, <2>5, <2>6 DEF VisitFile
<1> QED
  BY <1>5, <1>6 DEF VisitFile

LEMMA VisitEntryIsFine == ExplorerInv /\ VisitEntry => ScanStepIsFine
<1> SUFFICES ASSUME ExplorerInv, VisitEntry
             PROVE  ScanStepIsFine
  OBVIOUS
<1>1. Alone /\ restarts' = restarts
  BY DEF VisitEntry, Alone
<1>2. PICK e \in scan.left : SkipVanished(e) \/ Expire(e) \/ VisitDirectory(e) \/ VisitFile(e)
  BY DEF VisitEntry
<1> QED
  BY <1>1, <1>2, SkipVanishedIsFine, ExpireIsFine, VisitDirectoryIsFine, VisitFileIsFine

LEMMA ReadFileIsFine == ExplorerInv /\ ReadFile => ScanStepIsFine
<1> SUFFICES ASSUME ExplorerInv, ReadFile
             PROVE  ScanStepIsFine
  OBVIOUS
<1> DEFINE s == scan.stride
           status == IF file[s].content = "complete" THEN "read" ELSE AfterFailure(scan.age)
           v == SetStatus(World, s, status)
<1>1. Setting /\ Good(World) /\ Servable(World) /\ s \in Strides /\ directory[s] # NoDirectory
  BY DEF ExplorerInv, WorldInv, ScanInv, ReadFile
<1>2. status \in Statuses /\ (status \in {"read", "processing", "processed"} => status = "read" /\ file[s].content = "complete")
  BY DEF AfterFailure, Statuses
<1>3. status = "read" => status # "processed"
  OBVIOUS
<1>4. Becomes(v) /\ scan' = Idle /\ Alone /\ restarts' = restarts
  BY DEF ReadFile, Alone
<1>5. Tended(World, v)
  <2> HIDE DEF status, s
  <2> QED
    BY <1>1, <1>2, <1>3, WorldFacts, SetStatusTends DEF ServableStride, v
<1>6. ScanRecord' /\ ScanInv'
  BY <1>4 DEF Idle, ScanRecord, ScanInv
<1> HIDE DEF v
<1> QED
  BY <1>4, <1>5, <1>6, TendedStepIsFine

LEMMA ExtractEdgesIsFine == ExplorerInv /\ ExtractEdges => ScanStepIsFine
<1> SUFFICES ASSUME ExplorerInv, ExtractEdges
             PROVE  ScanStepIsFine
  OBVIOUS
<1> DEFINE s == scan.stride
<1>1. Setting /\ Good(World) /\ Servable(World) /\ s \in Strides
  BY DEF ExplorerInv, WorldInv, ScanInv, ExtractEdges
<1>2. \A i \in Slots : strideCache[i].stride = s => strideCache[i].status = "processing"
  BY DEF ExplorerInv, ScanInv, ExtractEdges
<1>3. scan' = Idle /\ Alone /\ restarts' = restarts
  BY DEF ExtractEdges, Alone
<1>4. ScanRecord' /\ ScanInv'
  BY <1>3 DEF Idle, ScanRecord, ScanInv
<1>5. CASE Becomes(SetStatus(World, s, "error"))
  <2>1. "error" \in Statuses
    BY DEF Statuses
  <2>2. Tended(World, SetStatus(World, s, "error"))
    BY <1>1, <2>1, SetStatusTends
  <2> QED
    BY <1>3, <1>4, <1>5, <2>2, TendedStepIsFine
<1>6. ASSUME NEW edges \in BOOLEAN, NEW new \in BOOLEAN,
             file[s].content = "complete", ~(edges /\ directory[s] = NoDirectory),
             Becomes(SetStatus([World EXCEPT !.directory[s] = IF edges /\ new THEN 0 ELSE @,
                                             !.extracted = @ \union {s}],
                               s, "processed"))
      PROVE  ScanStepIsFine
  <2> DEFINE age == IF edges /\ new THEN 0 ELSE directory[s]
             u == [World EXCEPT !.directory = [directory EXCEPT ![s] = age], !.extracted = extracted \union {s}]
             v == SetStatus(u, s, "processed")
  <2>1. World \in Worlds /\ TooOld \in Nat
    BY <1>1, SettingFacts DEF Good
  <2>2. age \in {NoDirectory} \union 0 .. TooOld /\ (age = NoDirectory <=> directory[s] = NoDirectory)
    <3>1. directory[s] \in {NoDirectory} \union 0 .. TooOld
      BY <1>1, <2>1, WorldFacts DEF Worlds
    <3> QED
      BY <1>6, <2>1, <3>1 DEF NoDirectory
  <2>3. [directory EXCEPT ![s] = age] \in [Strides -> {NoDirectory} \union 0 .. TooOld]
    <3> HIDE DEF age
    <3> QED
      BY <1>1, <2>1, <2>2, WorldFacts DEF Worlds
  <2>4. Becomes(v)
    <3>1. u = [World EXCEPT !.directory[s] = IF edges /\ new THEN 0 ELSE @, !.extracted = @ \union {s}]
      BY WorldFacts
    <3> HIDE DEF u
    <3> QED
      BY <3>1, <1>6
  <2> HIDE DEF age
  <2>5. /\ u \in Worlds /\ u.file = file /\ u.cache = strideCache
        /\ u.directory = [directory EXCEPT ![s] = age] /\ u.extracted = extracted \union {s}
    <3>1. extracted \union {s} \in SUBSET Strides
      BY <1>1, <2>1, WorldFacts DEF Worlds
    <3>2. u \in Worlds
      BY <2>1, <2>3, <3>1 DEF Worlds
    <3> QED
      BY <3>2, WorldFacts DEF World
  <2> HIDE DEF u
  <2>6. \A t \in Strides : u.directory[t] = NoDirectory <=> directory[t] = NoDirectory
    BY <1>1, <2>1, <2>2, <2>5, WorldFacts DEF Worlds
  <2>7. Good(u)
    BY <1>1, <2>5, <2>6, WorldFacts DEF Good, Contiguous, CachedOnce, Known
  <2>8. Servable(u)
    <3> SUFFICES ASSUME NEW i \in Slots,
                        u.cache[i].status \in {"read", "processing", "processed"},
                        ~SupersededSince(u.cache[i].stride)
                 PROVE  /\ ServableStride(u, u.cache[i].stride)
                        /\ u.cache[i].status = "processed" => u.cache[i].stride \in u.extracted
      BY DEF Servable
    <3>1. strideCache[i] \in CacheSlots
      BY <2>1, WorldFacts DEF Worlds
    <3>2. u.cache[i].stride \in Strides
      BY <2>5, <3>1, NilFacts
    <3> QED
      BY <1>1, <2>5, <2>6, <3>2, WorldFacts DEF Servable, ServableStride
  <2>9. Tended(World, u)
    BY <2>5, <2>7, <2>8, WorldFacts DEF Tended, Thinned
  <2>10. Tended(u, v)
    <3>1. CASE SlotOf(u, s) = 0
      BY <3>1, <2>7, <2>8 DEF SetStatus, Tended, Thinned
    <3>2. CASE SlotOf(u, s) # 0
      <4>1. SlotOf(u, s) \in Slots /\ u.cache[SlotOf(u, s)].stride = s
        BY <1>1, <2>7, <3>2, SlotOfFacts DEF Good
      <4>2. strideCache[SlotOf(u, s)].status = "processing"
        BY <1>2, <2>5, <4>1
      <4>3. ~SupersededSince(s) => ServableStride(u, s)
        <5>1. ~SupersededSince(s) => ServableStride(World, s)
          BY <1>1, <2>5, <4>1, <4>2, WorldFacts DEF Servable
        <5> QED
          BY <1>1, <2>5, <2>6, <5>1, WorldFacts DEF ServableStride
      <4>4. s \in u.extracted /\ "processed" \in Statuses
        BY <2>5 DEF Statuses
      <4> HIDE DEF s
      <4>5. Tended(u, SetStatus(u, s, "processed"))
        BY <1>1, <2>7, <2>8, <4>3, <4>4, SetStatusTends
      <4> QED
        BY <4>5
    <3> QED
      BY <3>1, <3>2
  <2> HIDE DEF v
  <2>11. Tended(World, v)
    BY <2>1, <2>5, <2>9, <2>10, TendedTransitive DEF Tended, Good
  <2> QED
    BY <1>3, <1>4, <2>4, <2>11, TendedStepIsFine
<1>7. PICK edges \in BOOLEAN, new \in MayBeNew(s) :
        IF file[s].content # "complete" \/ (edges /\ directory[s] = NoDirectory)
        THEN Becomes(SetStatus(World, s, "error"))
        ELSE Becomes(SetStatus([World EXCEPT !.directory[s] = IF edges /\ new THEN 0 ELSE @,
                                             !.extracted = @ \union {s}],
                               s, "processed"))
  BY DEF ExtractEdges
<1>8. new \in BOOLEAN
  BY DEF MayBeNew
<1> QED
  BY <1>5, <1>6, <1>7, <1>8

-----------------------------------------------------------------------------
(* The other steps *)

\* The receiver, the clock and a new process remove nothing.
NothingRemoved ==
  /\ ExplorerInv'
  /\ \A s \in Strides : file[s].content # "none" => file'[s].content # "none"

\* The parts of the invariant at hand.
LEMMA InvFacts ==
  ASSUME ExplorerInv
  PROVE  /\ file \in Files /\ directory \in [Strides -> {NoDirectory} \union 0 .. TooOld]
         /\ extracted \subseteq Strides /\ strideCache \in [Slots -> CacheSlots]
         /\ Contiguous(World) /\ CachedOnce(World) /\ Known(World) /\ Servable(World)
         /\ LaterIsYounger(file) /\ LaterIsThere(file)
         /\ \A s \in Strides : file[s].age \in 0 .. TooOld
BY WorldFacts DEF ExplorerInv, WorldInv, Good, Worlds, Files

LEMMA CreateFileIsFine == ExplorerInv /\ CreateFile => NothingRemoved
<1> SUFFICES ASSUME ExplorerInv, CreateFile
             PROVE  NothingRemoved
  OBVIOUS
<1> DEFINE n == written + 1
<1>1. Setting /\ ScanRecord /\ ScanInv
  BY DEF ExplorerInv
<1>2. /\ written \in Nat /\ n \in Strides /\ Strides \subseteq Nat \ {0} /\ TooOld \in Nat
      /\ written' = n /\ begun' = begun /\ n \notin begun
      /\ \A s \in begun : s \in Strides /\ s <= written
  BY <1>1, SettingFacts, ExplorerAssumption DEF CreateFile, Strides, Setting
<1>3. /\ UNCHANGED <<StrideId, directory, extracted, strideCache, maxAgeSeconds, scan, begun, restarts>>
      /\ scan.at # "loop"
  BY DEF CreateFile
<1>4. file' = [file EXCEPT ![n] = [content |-> "empty", age |-> 0]]
  BY DEF CreateFile
<1>5. /\ TooOld' = TooOld /\ file' \in Files
      /\ file'[n] = [content |-> "empty", age |-> 0]
      /\ \A s \in Strides : s # n => file'[s] = file[s]
  <2>1. file \in Files
    BY InvFacts
  <2>2. [content |-> "empty", age |-> 0] \in [content : {"none", "empty", "partial", "complete"}, age : 0 .. TooOld]
    BY <1>2
  <2>3. TooOld' = TooOld
    BY <1>3 DEF TooOld
  <2> HIDE DEF n
  <2> QED
    BY <1>2, <1>4, <2>1, <2>2, <2>3 DEF Files
<1>6. Setting'
  <2>1. 1 .. written \subseteq 1 .. n /\ n \in 0 .. StrideCount
    BY <1>2, ExplorerAssumption DEF Strides
  <2> QED
    BY <1>1, <1>2, <1>3, <2>1 DEF Setting
<1>7. ScanRecord' /\ ScanInv'
  BY <1>1, <1>3 DEF ScanRecord, ScanInv
<1>8. (World \in Worlds)'
  <2>1. /\ directory' \in [Strides -> {NoDirectory} \union 0 .. TooOld'] /\ file' \in Files'
        /\ extracted' \subseteq Strides /\ strideCache' \in [Slots -> CacheSlots]
    BY <1>3, <1>5, InvFacts DEF Files
  <2> QED
    BY <2>1 DEF World, Worlds
<1>9. (Contiguous(World) /\ CachedOnce(World))'
  BY <1>3, InvFacts DEF World, Contiguous, CachedOnce
<1>10. Known(World)'
  <2>1. /\ \A i \in Slots : strideCache[i] # Nil => strideCache[i].stride \in begun
        /\ \A s \in Strides : file[s].content \in {"partial", "complete"} => s \in begun
        /\ \A s \in Strides : file[s].content # "none" \/ directory[s] # NoDirectory => s <= written
    BY InvFacts, WorldFacts DEF Known
  <2>2. /\ \A s \in Strides : file'[s].content \in {"partial", "complete"} => s \in begun
        /\ \A s \in Strides : file'[s].content # "none" \/ directory[s] # NoDirectory => s <= n
    <3> SUFFICES ASSUME NEW s \in Strides
                 PROVE  /\ file'[s].content \in {"partial", "complete"} => s \in begun
                        /\ file'[s].content # "none" \/ directory[s] # NoDirectory => s <= n
      OBVIOUS
    <3>1. CASE s = n
      BY <3>1, <1>2, <1>5
    <3>2. CASE s # n
      BY <3>2, <1>2, <1>5, <2>1
    <3> QED
      BY <3>1, <3>2
  <2> QED
    BY <1>2, <1>3, <2>1, <2>2 DEF World, Known
<1>11. Servable(World)'
  <2>1. \A i \in Slots : strideCache[i].stride # n
    <3>1. \A i \in Slots : strideCache[i] = Nil \/ strideCache[i].stride \in begun
      BY InvFacts, WorldFacts DEF Known
    <3> QED
      BY <1>2, <3>1, NilFacts
  <2>2. \A s \in Strides : SupersededSince(s) => SupersededSince(s)'
    <3>1. \A s \in Strides : s + 1 .. written \subseteq s + 1 .. n
      BY <1>2
    <3> QED
      BY <1>2, <1>3, <3>1 DEF SupersededSince
  <2>3. \A i \in Slots : strideCache[i].status \in {"read", "processing", "processed"} => strideCache[i].stride \in Strides
    BY InvFacts, NilFacts
  <2> SUFFICES ASSUME NEW i \in Slots,
                      strideCache[i].status \in {"read", "processing", "processed"},
                      ~SupersededSince(strideCache[i].stride)'
               PROVE  /\ file'[strideCache[i].stride].content = "complete" /\ directory[strideCache[i].stride] # NoDirectory
                      /\ strideCache[i].status = "processed" => strideCache[i].stride \in extracted
    BY <1>3 DEF Servable, ServableStride, World
  <2>4. strideCache[i].stride \in Strides /\ ~SupersededSince(strideCache[i].stride)
    BY <1>3, <2>2, <2>3
  <2> HIDE DEF n
  <2> QED
    BY <1>5, <2>1, <2>4, InvFacts, WorldFacts DEF Servable, ServableStride
<1>12. \A s, t \in Strides : Later(s, t)' => Later(s, t) \/ t = n
  BY <1>2, <1>3 DEF Later, Ascending
<1>13. LaterIsYounger(file)'
  <2> SUFFICES ASSUME NEW s \in Strides, NEW t \in Strides, Later(s, t)',
                      file'[s].content # "none", file'[t].content # "none"
               PROVE  file'[t].age <= file'[s].age
    BY DEF LaterIsYounger
  <2>1. s # n
    BY <1>2 DEF Later
  <2>2. CASE t = n
    BY <1>2, <1>5, <2>1, <2>2, InvFacts
  <2>3. CASE t # n
    BY <1>5, <1>12, <2>1, <2>3, InvFacts DEF LaterIsYounger
  <2> QED
    BY <2>2, <2>3
<1>14. LaterIsThere(file)'
  <2> SUFFICES ASSUME NEW s \in Strides, NEW t \in Strides, Later(s, t)', file'[s].content # "none"
               PROVE  Outlived(file, s)' \/ \E u \in Strides : Later(s, u)' /\ file'[u].content # "none"
    BY DEF LaterIsThere
  <2>1. s # n
    BY <1>2 DEF Later
  <2>2. CASE t = n
    BY <1>2, <1>5, <2>2
  <2>3. CASE t # n
    <3>1. Outlived(file, s) \/ \E u \in Strides : Later(s, u) /\ file[u].content # "none"
      BY <1>5, <1>12, <2>1, <2>3, InvFacts DEF LaterIsThere
    <3>2. Outlived(file, s) => Outlived(file, s)'
      BY <1>3, <1>5, <2>1 DEF Outlived
    <3>3. \A u \in Strides : Later(s, u) => Later(s, u)' /\ u # n
      BY <1>2, <1>3 DEF Later, Ascending
    <3> HIDE DEF n
    <3> QED
      BY <1>5, <3>1, <3>2, <3>3
  <2> QED
    BY <2>2, <2>3
<1>15. \A s \in Strides : file[s].content # "none" => file'[s].content # "none"
  BY <1>5
<1> QED
  BY <1>6, <1>7, <1>8, <1>9, <1>10, <1>11, <1>13, <1>14, <1>15 DEF NothingRemoved, ExplorerInv, WorldInv, Good

LEMMA WriteFileIsFine == ExplorerInv /\ WriteFile => NothingRemoved
<1> SUFFICES ASSUME ExplorerInv, WriteFile
             PROVE  NothingRemoved
  OBVIOUS
<1>1. Setting /\ ScanRecord /\ ScanInv
  BY DEF ExplorerInv
<1>2. PICK n \in Strides, content \in {"partial", "complete"} :
        /\ StillOpen(n)
        /\ file' = [file EXCEPT ![n] = [content |-> content, age |-> 0]]
        /\ begun' = begun \union {n}
  BY DEF WriteFile
<1>3. /\ UNCHANGED <<StrideId, directory, extracted, strideCache, maxAgeSeconds, scan, written, restarts>>
      /\ written \in Nat /\ Strides \subseteq Nat \ {0} /\ TooOld \in Nat /\ begun \subseteq Strides
  BY <1>1, SettingFacts DEF WriteFile
<1>4. /\ file \in Files /\ Known(World) /\ Servable(World)
      /\ \A s \in Strides : file[s].age \in 0 .. TooOld
  BY InvFacts
<1>5. /\ TooOld' = TooOld /\ file' \in Files
      /\ file'[n] = [content |-> content, age |-> 0]
      /\ \A s \in Strides : s # n => file'[s] = file[s]
  <2>1. [content |-> content, age |-> 0] \in [content : {"none", "empty", "partial", "complete"}, age : 0 .. TooOld]
    BY <1>3
  <2>2. TooOld' = TooOld
    BY <1>3 DEF TooOld
  <2> QED
    BY <1>2, <1>4, <2>1, <2>2 DEF Files
<1>6. n <= written /\ file[n].content \in {"empty", "partial"}
  BY <1>2, <1>4, WorldFacts DEF StillOpen, Known
<1>7. Setting'
  <2>1. n \in 1 .. written
    BY <1>3, <1>6
  <2> QED
    BY <1>1, <1>2, <1>3, <2>1 DEF Setting
<1>8. ScanRecord' /\ ScanInv'
  BY <1>1, <1>3 DEF ScanRecord, ScanInv
<1>9. (World \in Worlds)'
  <2>1. /\ directory' \in [Strides -> {NoDirectory} \union 0 .. TooOld'] /\ file' \in Files'
        /\ extracted' \subseteq Strides /\ strideCache' \in [Slots -> CacheSlots]
    BY <1>3, <1>5, InvFacts DEF Files
  <2> QED
    BY <2>1 DEF World, Worlds
<1>10. (Contiguous(World) /\ CachedOnce(World))'
  BY <1>3, InvFacts DEF World, Contiguous, CachedOnce
<1>11. Known(World)'
  BY <1>2, <1>3, <1>4, <1>5, <1>6, WorldFacts DEF World, Known
<1>12. Servable(World)'
  <2>1. \A s \in Strides : SupersededSince(s)' <=> SupersededSince(s)
    BY <1>3 DEF SupersededSince
  <2> SUFFICES ASSUME NEW i \in Slots,
                      strideCache[i].status \in {"read", "processing", "processed"},
                      ~SupersededSince(strideCache[i].stride)'
               PROVE  /\ file'[strideCache[i].stride].content = "complete" /\ directory[strideCache[i].stride] # NoDirectory
                      /\ strideCache[i].status = "processed" => strideCache[i].stride \in extracted
    BY <1>3 DEF Servable, ServableStride, World
  <2>2. strideCache[i].stride \in Strides
    BY InvFacts, NilFacts
  <2>3. ~SupersededSince(strideCache[i].stride)
    BY <1>3, <2>1, <2>2
  <2>4. /\ file[strideCache[i].stride].content = "complete" /\ directory[strideCache[i].stride] # NoDirectory
        /\ strideCache[i].status = "processed" => strideCache[i].stride \in extracted
    BY <1>4, <2>3, WorldFacts DEF Servable, ServableStride
  <2>5. strideCache[i].stride # n
    BY <1>6, <2>4
  <2> QED
    BY <1>5, <2>2, <2>4, <2>5
<1>13. \A s, t \in Strides : Later(s, t)' => s # n /\ (Later(s, t) \/ t = n)
  <2> SUFFICES ASSUME NEW s \in Strides, NEW t \in Strides, Later(s, t)'
               PROVE  s # n /\ (Later(s, t) \/ t = n)
    OBVIOUS
  <2>1. Later(s, t) \/ t = n
    BY <1>2, <1>3 DEF Later, Ascending
  <2>2. ASSUME s = n
        PROVE  FALSE
    <3>1. n < t /\ t <= written /\ t \in n + 1 .. written
      BY <1>3, <2>2 DEF Later
    <3>2. t \notin begun
      BY <1>2, <3>1 DEF StillOpen
    <3>3. ~Ascending(n, t)
      BY <1>3, <2>1, <2>2, <3>1, <3>2 DEF Later
    <3>4. n .. t \subseteq n .. written
      BY <1>3, <3>1
    <3> QED
      BY <1>2, <3>3, <3>4 DEF StillOpen, Ascending
  <2> QED
    BY <2>1, <2>2
<1>14. LaterIsYounger(file)'
  <2> SUFFICES ASSUME NEW s \in Strides, NEW t \in Strides, Later(s, t)',
                      file'[s].content # "none", file'[t].content # "none"
               PROVE  file'[t].age <= file'[s].age
    BY DEF LaterIsYounger
  <2>1. s # n
    BY <1>13
  <2>2. CASE t = n
    BY <1>3, <1>4, <1>5, <2>1, <2>2
  <2>3. CASE t # n
    BY <1>5, <1>13, <2>1, <2>3, InvFacts DEF LaterIsYounger
  <2> QED
    BY <2>2, <2>3
<1>15. LaterIsThere(file)'
  <2> SUFFICES ASSUME NEW s \in Strides, NEW t \in Strides, Later(s, t)', file'[s].content # "none"
               PROVE  Outlived(file, s)' \/ \E u \in Strides : Later(s, u)' /\ file'[u].content # "none"
    BY DEF LaterIsThere
  <2>1. s # n
    BY <1>13
  <2>2. CASE t = n
    BY <1>5, <2>2
  <2>3. CASE t # n
    <3>1. Outlived(file, s) \/ \E u \in Strides : Later(s, u) /\ file[u].content # "none"
      BY <1>5, <1>13, <2>1, <2>3, InvFacts DEF LaterIsThere
    <3>2. Outlived(file, s) => Outlived(file, s)'
      BY <1>3, <1>5, <2>1 DEF Outlived
    <3>3. \A u \in Strides : Later(s, u) => Later(s, u)'
      BY <1>2, <1>3 DEF Later, Ascending
    <3>4. \A u \in Strides : file[u].content # "none" => file'[u].content # "none"
      BY <1>5
    <3> QED
      BY <3>1, <3>2, <3>3, <3>4
  <2> QED
    BY <2>2, <2>3
<1>16. \A s \in Strides : file[s].content # "none" => file'[s].content # "none"
  BY <1>5
<1> QED
  BY <1>7, <1>8, <1>9, <1>10, <1>11, <1>12, <1>14, <1>15, <1>16 DEF NothingRemoved, ExplorerInv, WorldInv, Good

LEMMA OlderFacts ==
  ASSUME TooOld \in Nat, NEW a \in 0 .. TooOld
  PROVE  Older(a) \in 0 .. TooOld /\ a <= Older(a) /\ \A b \in 0 .. TooOld : a <= b => Older(a) <= Older(b)
BY DEF Older

LEMMA TickIsFine == ExplorerInv /\ Tick => NothingRemoved
<1> SUFFICES ASSUME ExplorerInv, Tick
             PROVE  NothingRemoved
  OBVIOUS
<1>1. Setting /\ ScanRecord /\ ScanInv /\ TooOld \in Nat
  BY SettingFacts DEF ExplorerInv
<1>2. /\ UNCHANGED <<StrideId, extracted, strideCache, maxAgeSeconds, scan, written, begun, restarts>>
      /\ Alone
  BY DEF Tick, Alone
<1>3. TooOld' = TooOld /\ Files' = Files
  BY <1>2 DEF TooOld, Files
<1>4. \A s \in Strides : file[s].age \in 0 .. TooOld
  BY InvFacts
<1>5. \A s \in Strides :
        /\ file'[s] \in [content : {"none", "empty", "partial", "complete"}, age : 0 .. TooOld]
        /\ file'[s].content = file[s].content
        /\ file[s].content # "none" => file'[s].age = Older(file[s].age)
  <2> SUFFICES ASSUME NEW s \in Strides
               PROVE  /\ file'[s] \in [content : {"none", "empty", "partial", "complete"}, age : 0 .. TooOld]
                      /\ file'[s].content = file[s].content
                      /\ file[s].content # "none" => file'[s].age = Older(file[s].age)
    OBVIOUS
  <2>1. file'[s] = IF file[s].content = "none" THEN NoFile ELSE [file[s] EXCEPT !.age = Older(file[s].age)]
    BY DEF Tick
  <2>2. file[s] \in [content : {"none", "empty", "partial", "complete"}, age : 0 .. TooOld]
    BY InvFacts DEF Files
  <2>3. Older(file[s].age) \in 0 .. TooOld
    BY <1>1, <1>4, OlderFacts
  <2>4. CASE file[s].content = "none"
    BY <1>1, <2>1, <2>4 DEF NoFile
  <2>5. CASE file[s].content # "none"
    BY <2>1, <2>2, <2>3, <2>5
  <2> QED
    BY <2>4, <2>5
<1>6. file' \in Files
  <2>1. file' = [s \in Strides |-> file'[s]]
    BY DEF Tick
  <2> QED
    BY <1>5, <2>1 DEF Files
<1>7. /\ directory' \in [Strides -> {NoDirectory} \union 0 .. TooOld]
      /\ \A s \in Strides : directory'[s] = NoDirectory <=> directory[s] = NoDirectory
  <2>1. \A s \in Strides : directory[s] \in {NoDirectory} \union 0 .. TooOld
    BY InvFacts
  <2>2. \A s \in Strides : directory'[s] = IF directory[s] = NoDirectory THEN NoDirectory ELSE Older(directory[s])
    BY DEF Tick
  <2>3. \A s \in Strides : /\ directory'[s] \in {NoDirectory} \union 0 .. TooOld
                           /\ directory'[s] = NoDirectory <=> directory[s] = NoDirectory
    BY <1>1, <2>1, <2>2, OlderFacts DEF NoDirectory
  <2>4. directory' = [s \in Strides |-> directory'[s]]
    BY DEF Tick
  <2> QED
    BY <2>3, <2>4
<1>8. \A s \in Strides : file'[s].content = file[s].content
  BY <1>5
<1>9. Setting'
  BY <1>1, <1>2 DEF Setting
<1>10. ScanRecord' /\ ScanInv'
  BY <1>1, <1>2, <1>7 DEF ScanRecord, ScanInv
<1>11. (World \in Worlds)'
  BY <1>2, <1>3, <1>6, <1>7, InvFacts DEF World, Worlds
<1>12. (Contiguous(World) /\ CachedOnce(World))'
  BY <1>2, InvFacts DEF World, Contiguous, CachedOnce
<1>13. Known(World)'
  BY <1>2, <1>7, <1>8, InvFacts, WorldFacts DEF World, Known
<1>14. Servable(World)'
  <2>1. \A s \in Strides : SupersededSince(s)' <=> SupersededSince(s)
    BY <1>2 DEF SupersededSince
  <2> SUFFICES ASSUME NEW i \in Slots,
                      strideCache[i].status \in {"read", "processing", "processed"},
                      ~SupersededSince(strideCache[i].stride)'
               PROVE  /\ file'[strideCache[i].stride].content = "complete" /\ directory'[strideCache[i].stride] # NoDirectory
                      /\ strideCache[i].status = "processed" => strideCache[i].stride \in extracted
    BY <1>2 DEF Servable, ServableStride, World
  <2>2. strideCache[i].stride \in Strides
    BY InvFacts, NilFacts
  <2>3. ~SupersededSince(strideCache[i].stride)
    BY <1>2, <2>1, <2>2
  <2> QED
    BY <1>7, <1>8, <2>2, <2>3, InvFacts, WorldFacts DEF Servable, ServableStride
<1>15. \A s, t \in Strides : Later(s, t)' <=> Later(s, t)
  BY <1>2 DEF Later, Ascending
<1>16. LaterIsYounger(file)'
  <2> SUFFICES ASSUME NEW s \in Strides, NEW t \in Strides, Later(s, t),
                      file[s].content # "none", file[t].content # "none"
               PROVE  file'[t].age <= file'[s].age
    BY <1>8, <1>15 DEF LaterIsYounger
  <2>1. file[t].age <= file[s].age
    BY InvFacts DEF LaterIsYounger
  <2>2. file'[s].age = Older(file[s].age) /\ file'[t].age = Older(file[t].age)
    BY <1>5
  <2> QED
    BY <1>1, <1>4, <2>1, <2>2, OlderFacts
<1>17. LaterIsThere(file)'
  <2>1. \A s \in Strides : file[s].content # "none" /\ Outlived(file, s) => Outlived(file, s)'
    <3> SUFFICES ASSUME NEW s \in Strides, file[s].content # "none", Outlived(file, s)
                 PROVE  Outlived(file, s)'
      OBVIOUS
    <3>1. file'[s].age = Older(file[s].age)
      BY <1>5
    <3>2. file[s].age <= file'[s].age /\ file'[s].age \in Nat /\ file[s].age \in Nat
      BY <1>1, <1>4, <3>1, OlderFacts
    <3>3. maxAgeSeconds' = maxAgeSeconds /\ maxAgeSeconds \in Nat
      BY <1>1, <1>2, SettingFacts
    <3> QED
      BY <3>2, <3>3 DEF Outlived
  <2> QED
    BY <1>8, <1>15, <2>1, InvFacts DEF LaterIsThere
<1> QED
  BY <1>8, <1>9, <1>10, <1>11, <1>12, <1>13, <1>14, <1>16, <1>17 DEF NothingRemoved, ExplorerInv, WorldInv, Good

LEMMA RestartIsFine == ExplorerInv /\ Restart => NothingRemoved
<1> SUFFICES ASSUME ExplorerInv, Restart
             PROVE  NothingRemoved
  OBVIOUS
<1>1. /\ Alone /\ UNCHANGED <<file, directory, extracted>>
      /\ strideCache' = [i \in Slots |-> Nil] /\ scan' = Idle /\ restarts' = restarts + 1
  BY DEF Restart, Alone
<1>2. Setting'
  <2>1. Setting
    BY DEF ExplorerInv
  <2>2. restarts' \in Nat
    BY <1>1, <2>1 DEF Setting
  <2> QED
    BY <1>1, <2>1, <2>2, SettingUnchanged
<1>3. ScanRecord' /\ ScanInv'
  BY <1>1 DEF Idle, ScanRecord, ScanInv
<1>4. TooOld' = TooOld /\ Files' = Files
  BY <1>1 DEF TooOld, Files, Alone
<1>5. (World \in Worlds)'
  <2>1. strideCache' \in [Slots -> CacheSlots]
    BY <1>1 DEF CacheSlots
  <2> QED
    BY <1>1, <1>4, <2>1, InvFacts DEF World, Worlds
<1>6. \A i \in Slots : strideCache'[i] = Nil
  BY <1>1
<1>7. (Contiguous(World) /\ CachedOnce(World))'
  BY <1>6 DEF World, Contiguous, CachedOnce
<1>8. Known(World)'
  BY <1>1, <1>6, InvFacts, WorldFacts DEF World, Known, Alone
<1>9. Servable(World)'
  BY <1>6 DEF World, Servable, Nil
<1>10. (LaterIsYounger(file) /\ LaterIsThere(file))'
  BY <1>1, InvFacts, GoodUnchanged
<1> QED
  BY <1>1, <1>2, <1>3, <1>5, <1>7, <1>8, <1>9, <1>10 DEF NothingRemoved, ExplorerInv, WorldInv, Good

LEMMA StutterIsFine == ExplorerInv /\ UNCHANGED vars => NothingRemoved
<1> SUFFICES ASSUME ExplorerInv, UNCHANGED vars
             PROVE  NothingRemoved
  OBVIOUS
<1>1. ScanRecord' /\ ScanInv'
  BY DEF vars, ExplorerInv, ScanRecord, ScanInv
<1>2. ScanStepIsFine
  BY <1>1, WorldUnchanged DEF vars
<1> QED
  BY <1>2 DEF ScanStepIsFine, NothingRemoved, vars

-----------------------------------------------------------------------------
(* Strides of the same id *)

\* As the receiver counts from 1 again when it is restarted, a stride may have a twin of a later run.
Twins(s, t) == s < t /\ StrideId[s] = StrideId[t]
AtMostTwo == \A s, t, u \in Strides : ~(Twins(s, t) /\ Twins(t, u))

IsCached(w, s) == \E i \in Slots : w.cache[i].stride = s

\* The file of a stride has gone, and it is not offered.
OutOfUse(w, s) ==
  /\ w.file[s].content = "none"
  /\ \A i \in Slots : w.cache[i].stride = s => w.cache[i].status \notin {"read", "processing", "processed"}

\* Of two cached twins only the later is of use.
TwinsSettled(w) ==
  \A s, t \in Strides : Twins(s, t) /\ IsCached(w, s) /\ IsCached(w, t) => OutOfUse(w, s)

\* The edge files of what is offered are there; but, maybe, of some strides.
EdgesThere(w, except) ==
  \A i \in Slots : w.cache[i].status = "processed" => w.cache[i].stride \in w.extracted \union except

Tidy(w) == TwinsSettled(w) /\ EdgesThere(w, {})

LEMMA TwinsKept ==
  ASSUME NEW w, NEW v, TwinsSettled(w),
         \A s \in Strides : IsCached(v, s) => IsCached(w, s),
         \A s \in Strides : OutOfUse(w, s) => OutOfUse(v, s)
  PROVE  TwinsSettled(v)
BY DEF TwinsSettled

LEMMA SetStatusTidies ==
  ASSUME NEW w \in Worlds, Contiguous(w), CachedOnce(w), NEW s \in Strides, NEW status \in Statuses,
         TwinsSettled(w), EdgesThere(w, {s}),
         status \in {"read", "processing", "processed"} => ~OutOfUse(w, s),
         status = "processed" => s \in w.extracted
  PROVE  Tidy(SetStatus(w, s, status))
<1> DEFINE v == SetStatus(w, s, status)
<1>1. /\ v.file = w.file /\ v.directory = w.directory /\ v.extracted = w.extracted
      /\ \A i \in Slots : v.cache[i] = IF w.cache[i].stride = s THEN [stride |-> s, status |-> status]
                                       ELSE w.cache[i]
  BY SetStatusFacts
<1> HIDE DEF v
<1>2. \A i \in Slots : v.cache[i].stride = w.cache[i].stride
  BY <1>1
<1>3. \A i \in Slots : v.cache[i].status = IF w.cache[i].stride = s THEN status ELSE w.cache[i].status
  BY <1>1
<1>4. \A t \in Strides : OutOfUse(w, t) => OutOfUse(v, t)
  BY <1>1, <1>2, <1>3 DEF OutOfUse
<1>5. TwinsSettled(v)
  BY <1>2, <1>4, TwinsKept DEF IsCached
<1>6. EdgesThere(v, {})
  BY <1>1, <1>2, <1>3 DEF EdgesThere
<1> QED
  BY <1>5, <1>6 DEF Tidy, v

LEMMA RemovedSettles ==
  ASSUME Setting, NEW w \in Worlds, NEW s \in Strides, NEW e \in EntryOf(s), Tidy(w)
  PROVE  /\ TwinsSettled(Removed(w, e)) /\ EdgesThere(Removed(w, e), {s})
         /\ ~e.isDir => Removed(w, e).file[s].content = "none" /\ EdgesThere(Removed(w, e), {})
<1> DEFINE v == Removed(w, e)
<1>1. /\ v.cache = w.cache
      /\ v.file = IF e.isDir THEN w.file ELSE [w.file EXCEPT ![s] = NoFile]
      /\ v.extracted = IF e.isDir THEN w.extracted \ {s} ELSE w.extracted
  BY SettingFacts, RemovedFacts
<1> HIDE DEF v
<1>2. w.file \in Files /\ NoFile.content = "none"
  BY DEF Worlds, NoFile
<1>3. \A t \in Strides : w.file[t].content = "none" => v.file[t].content = "none"
  BY <1>1, <1>2 DEF Files
<1>4. TwinsSettled(v)
  BY <1>1, <1>3, TwinsKept DEF IsCached, OutOfUse, Tidy
<1>5. EdgesThere(v, {s}) /\ (~e.isDir => EdgesThere(v, {}))
  BY <1>1 DEF EdgesThere, Tidy
<1>6. ~e.isDir => v.file[s].content = "none"
  BY <1>1, <1>2 DEF Files
<1> QED
  BY <1>4, <1>5, <1>6 DEF v

\* What becomes of the twins of an entry in hand.
TwinsDealtWith(w, s, isDir) ==
  \A t \in Strides : IsCached(w, t) =>
    /\ Twins(t, s) => OutOfUse(w, t)
    /\ Twins(s, t) /\ ~IsCached(w, s) /\ ~isDir => w.file[s].content = "none"

LEMMA SupersededTidies ==
  ASSUME Setting, AtMostTwo, NEW w, Good(w), Servable(w), Tidy(w), NEW s \in 1 .. written, NEW e \in EntryOf(s)
  PROVE  Tidy(Superseded(w, e)) /\ TwinsDealtWith(Superseded(w, e), s, e.isDir)
<1> DEFINE S == {j \in Slots : Before(w, j) /\ StrideId[w.cache[j].stride] = StrideId[e.stride]}
           i == First(S)
           known == w.cache[i].stride
<1>1. w \in Worlds /\ s \in Strides /\ e.stride = s /\ maxAgeSeconds \in Nat /\ Strides \subseteq Nat
      /\ CachedOnce(w) /\ Contiguous(w) /\ e.isDir \in BOOLEAN
  BY SettingFacts DEF Good, EntryOf
<1>2. Superseded(w, e) = IF i = 0 \/ known = e.stride THEN w
                         ELSE IF known < e.stride THEN [BothRemoved(w, known) EXCEPT !.cache[i].status = "deleted"]
                         ELSE Removed(w, e)
  BY DEF Superseded
<1>3. \A j \in Slots : w.cache[j] \in CacheSlots
  BY <1>1 DEF Worlds
<1>4. ASSUME NEW j \in Slots, w.cache[j].stride \in Strides, StrideId[w.cache[j].stride] = StrideId[s]
      PROVE  j \in S
  <2>1. w.cache[j] # Nil
    BY <1>4, NilFacts
  <2>2. \A k \in 1 .. j : w.cache[k] # Nil
    <3> SUFFICES ASSUME NEW k \in 1 .. j
                 PROVE  w.cache[k] # Nil
      OBVIOUS
    <3>1. k \in Slots /\ (k < j \/ k = j)
      BY SlotsAreNumbers DEF Slots
    <3> QED
      BY <1>1, <2>1, <3>1 DEF Contiguous
  <2> QED
    BY <1>1, <1>4, <2>2 DEF Before
<1>5. CASE i = 0
  <2>1. S = {}
    <3>1. S \in SUBSET Slots
      OBVIOUS
    <3> QED
      BY <1>5, <3>1, FirstFacts
  <2>2. \A t \in Strides : IsCached(w, t) => StrideId[t] # StrideId[s]
    BY <1>4, <2>1 DEF IsCached
  <2>3. TwinsDealtWith(w, s, e.isDir)
    BY <2>2 DEF TwinsDealtWith, Twins
  <2> QED
    BY <1>2, <1>5, <2>3
<1>6. CASE i # 0
  <2>1. i \in S
    BY <1>6, FirstFacts
  <2>2. i \in Slots /\ w.cache[i] # Nil /\ StrideId[known] = StrideId[s]
    <3> HIDE DEF i
    <3>1. i \in 1 .. i
      <4>1. i \in Slots
        BY <2>1
      <4> HIDE DEF S
      <4> QED
        BY <4>1, SlotsAreNumbers
    <3> QED
      BY <2>1, <3>1, <1>1 DEF Before
  <2>3. known \in Strides
    BY <1>3, <2>2, NilFacts
  <2> HIDE DEF i, S
  <2> DEFINE k == known
  <2>4. IsCached(w, k)
    BY <2>2 DEF IsCached
  <2>5. CASE k = s
    <3>1. \A t \in Strides : IsCached(w, t) /\ Twins(t, s) => OutOfUse(w, t)
      BY <1>1, <2>4, <2>5 DEF Tidy, TwinsSettled
    <3>2. TwinsDealtWith(w, s, e.isDir)
      BY <2>4, <2>5, <3>1 DEF TwinsDealtWith
    <3> QED
      BY <1>1, <1>2, <2>5, <3>2
  <2>6. ASSUME k # s, NEW t \in Strides, t # s, StrideId[t] = StrideId[s]
        PROVE  t = k
    <3>1. k \in Strides /\ StrideId[k] = StrideId[s]
      BY <2>2, <2>3
    <3> HIDE DEF k
    <3> QED
      BY <1>1, <2>6, <3>1 DEF AtMostTwo, Twins
  <2>7. CASE k # s /\ k < s
    <3> DEFINE u == BothRemoved(w, k)
               v == [u EXCEPT !.cache[i].status = "deleted"]
    <3>1. /\ u \in Worlds /\ u.cache = w.cache
          /\ u.file = [w.file EXCEPT ![k] = NoFile]
          /\ u.extracted = w.extracted \ {k}
      BY <1>1, <2>3, BothRemovedFacts
    <3>2. Superseded(w, e) = v
      BY <1>1, <1>2, <1>6, <2>7
    <3>3. \A j \in Slots : w.cache[j].stride = k <=> j = i
      BY <1>1, <2>2 DEF CachedOnce
    <3> HIDE DEF u
    <3>4. w.cache[i] = [stride |-> k, status |-> w.cache[i].status] /\ k \in Strides
      BY <1>3, <2>2, <2>3, NilFacts
    <3>5. /\ v.file = u.file /\ v.extracted = u.extracted
          /\ v.cache = [w.cache EXCEPT ![i].status = "deleted"]
      BY <3>1 DEF Worlds
    <3> HIDE DEF v
    <3>6. w.cache \in [Slots -> CacheSlots] /\ w.file \in Files /\ NoFile.content = "none"
      BY <1>1 DEF Worlds, NoFile
    <3>7. \A j \in Slots : /\ v.cache[j].stride = w.cache[j].stride
                           /\ v.cache[j].status = IF j = i THEN "deleted" ELSE w.cache[j].status
      <4>1. v.cache[i] = [w.cache[i] EXCEPT !.status = "deleted"] /\ \A j \in Slots : j # i => v.cache[j] = w.cache[j]
        BY <2>2, <3>5, <3>6
      <4>2. v.cache[i].stride = w.cache[i].stride /\ v.cache[i].status = "deleted"
        BY <3>4, <4>1
      <4> QED
        BY <4>1, <4>2
    <3>8. v.file[k].content = "none" /\ \A t \in Strides : w.file[t].content = "none" => v.file[t].content = "none"
      BY <2>3, <3>1, <3>5, <3>6 DEF Files
    <3>9. OutOfUse(v, k) /\ \A t \in Strides : OutOfUse(w, t) => OutOfUse(v, t)
      BY <3>3, <3>7, <3>8 DEF OutOfUse
    <3>10. \A t : IsCached(v, t) <=> IsCached(w, t)
      BY <3>7 DEF IsCached
    <3>11. TwinsSettled(v)
      BY <3>9, <3>10, TwinsKept DEF Tidy
    <3>12. EdgesThere(v, {})
      <4> SUFFICES ASSUME NEW j \in Slots, v.cache[j].status = "processed"
                   PROVE  v.cache[j].stride \in v.extracted
        BY DEF EdgesThere
      <4>1. j # i /\ w.cache[j].status = "processed" /\ v.cache[j].stride = w.cache[j].stride
        BY <3>7
      <4>2. w.cache[j].stride # k /\ w.cache[j].stride \in w.extracted
        BY <3>3, <4>1 DEF Tidy, EdgesThere
      <4> QED
        BY <3>1, <3>5, <4>1, <4>2
    <3>13. TwinsDealtWith(v, s, e.isDir)
      <4> SUFFICES ASSUME NEW t \in Strides, IsCached(v, t)
                   PROVE  (Twins(t, s) => OutOfUse(v, t)) /\ ~Twins(s, t)
        BY DEF TwinsDealtWith
      <4>1. Twins(t, s) => t = k
        BY <1>1, <2>6, <2>7 DEF Twins
      <4>2. Twins(s, t) => t = k
        BY <1>1, <2>6, <2>7 DEF Twins
      <4>3. ~Twins(s, k)
        <5>1. s \in Nat /\ k \in Nat /\ k < s
          BY <1>1, <2>3, <2>7
        <5> HIDE DEF k
        <5> QED
          BY <5>1 DEF Twins
      <4> HIDE DEF k
      <4> QED
        BY <3>9, <4>1, <4>2, <4>3
    <3> QED
      BY <3>2, <3>11, <3>12, <3>13 DEF Tidy
  <2>8. CASE k # s /\ ~(k < s)
    <3> DEFINE v == Removed(w, e)
    <3>1. Superseded(w, e) = v
      BY <1>1, <1>2, <1>6, <2>8
    <3>2. /\ TwinsSettled(v) /\ EdgesThere(v, {s})
          /\ ~e.isDir => v.file[s].content = "none" /\ EdgesThere(v, {})
      BY <1>1, RemovedSettles
    <3>3. v.cache = w.cache
      BY <1>1, RemovedFacts
    <3> HIDE DEF v
    <3>4. Twins(s, k)
      <4>1. s \in Nat /\ k \in Nat /\ k # s /\ ~(k < s) /\ StrideId[k] = StrideId[s]
        BY <1>1, <2>2, <2>3, <2>8
      <4> HIDE DEF k
      <4> QED
        BY <4>1 DEF Twins
    <3>5. \A j \in Slots : w.cache[j].stride = s => w.cache[j].status # "processed"
      <4> SUFFICES ASSUME NEW j \in Slots, w.cache[j].stride = s
                   PROVE  w.cache[j].status # "processed"
        OBVIOUS
      <4>1. IsCached(w, s)
        BY DEF IsCached
      <4>2. OutOfUse(w, s)
        BY <1>1, <2>3, <2>4, <3>4, <4>1 DEF Tidy, TwinsSettled
      <4> QED
        BY <4>2 DEF OutOfUse
    <3>6. EdgesThere(v, {})
      BY <3>2, <3>3, <3>5 DEF EdgesThere
    <3>7. TwinsDealtWith(v, s, e.isDir)
      <4> SUFFICES ASSUME NEW t \in Strides, IsCached(v, t)
                   PROVE  ~Twins(t, s) /\ (~e.isDir => v.file[s].content = "none")
        BY DEF TwinsDealtWith
      <4>1. Twins(t, s) => t = k
        BY <1>1, <2>6, <2>8 DEF Twins
      <4>2. ~Twins(k, s)
        BY <2>8 DEF Twins
      <4> HIDE DEF k
      <4> QED
        BY <3>2, <4>1, <4>2
    <3> QED
      BY <3>1, <3>2, <3>6, <3>7 DEF Tidy
  <2> QED
    BY <2>5, <2>7, <2>8
<1> QED
  BY <1>5, <1>6

\* A slot is taken for a stride whose twins have been dealt with.
LEMMA PlacedIsTidy ==
  ASSUME Setting, NEW w \in Worlds, CachedOnce(w), Tidy(w), NEW s \in Strides, ~IsCached(w, s), TwinsDealtWith(w, s, FALSE),
         NEW i \in Slots, NEW v, v.cache = [w.cache EXCEPT ![i] = [stride |-> s, status |-> "exists"]],
         \A t \in Strides : w.file[t].content = "none" => v.file[t].content = "none",
         \A t \in w.extracted : t \in v.extracted \/ t = w.cache[i].stride
  PROVE  Tidy(v)
<1>1. w.cache \in [Slots -> CacheSlots] /\ \A j \in Slots : w.cache[j] \in CacheSlots
  BY DEF Worlds
<1>2. /\ v.cache[i].stride = s /\ v.cache[i].status = "exists"
      /\ \A j \in Slots : j # i => v.cache[j] = w.cache[j]
  BY <1>1
<1>3. \A j \in Slots : w.cache[j].stride # s
  BY DEF IsCached
<1>4. \A t : IsCached(v, t) => t = s \/ IsCached(w, t)
  BY <1>2 DEF IsCached
<1>5. \A t \in Strides : OutOfUse(w, t) => OutOfUse(v, t)
  BY <1>2 DEF OutOfUse
<1>6. w.file[s].content = "none" => OutOfUse(v, s)
  BY <1>2, <1>3 DEF OutOfUse
<1>7. TwinsSettled(v)
  <2> SUFFICES ASSUME NEW t \in Strides, NEW u \in Strides, Twins(t, u), IsCached(v, t), IsCached(v, u)
               PROVE  OutOfUse(v, t)
    BY DEF TwinsSettled
  <2>1. CASE IsCached(w, t) /\ IsCached(w, u)
    BY <2>1, <1>5 DEF Tidy, TwinsSettled
  <2>2. CASE t = s /\ IsCached(w, u)
    BY <2>2, <1>6 DEF TwinsDealtWith
  <2>3. CASE u = s /\ IsCached(w, t)
    BY <2>3, <1>5 DEF TwinsDealtWith
  <2>4. ~(t = s /\ u = s)
    <3>1. s \in Nat
      BY SettingFacts
    <3> QED
      BY <3>1 DEF Twins
  <2> QED
    BY <1>4, <2>1, <2>2, <2>3, <2>4
<1>8. EdgesThere(v, {})
  <2> SUFFICES ASSUME NEW j \in Slots, v.cache[j].status = "processed"
               PROVE  v.cache[j].stride \in v.extracted
    BY DEF EdgesThere
  <2>1. j # i /\ v.cache[j] = w.cache[j]
    BY <1>2
  <2>2. w.cache[j] # Nil
    BY <2>1, NilFacts
  <2>3. w.cache[j].stride # w.cache[i].stride
    BY <2>1, <2>2 DEF CachedOnce
  <2>4. w.cache[j].stride \in w.extracted
    BY <2>1 DEF Tidy, EdgesThere
  <2> QED
    BY <2>1, <2>3, <2>4
<1> QED
  BY <1>7, <1>8 DEF Tidy

LEMMA AddedTidies ==
  ASSUME Setting, NEW w, Good(w), Tidy(w), NEW s \in Strides, ~IsCached(w, s), TwinsDealtWith(w, s, FALSE)
  PROVE  Tidy(Added(w, s))
<1> DEFINE entry == [stride |-> s, status |-> "exists"]
           v == Added(w, s)
<1>1. w \in Worlds /\ maxAgeSeconds \in Nat /\ CachedOnce(w)
  BY SettingFacts DEF Good
<1>2. CASE FreeSlot(w) # 0
  <2> DEFINE i == FreeSlot(w)
  <2>1. i \in Slots
    BY <1>1, <1>2, FreeSlotFacts
  <2>2. v = [w EXCEPT !.cache[i] = entry]
    BY <1>2 DEF Added
  <2> HIDE DEF v, i
  <2>3. v.cache = [w.cache EXCEPT ![i] = entry] /\ v.file = w.file /\ v.extracted = w.extracted
    BY <1>1, <2>1, <2>2 DEF Worlds
  <2>4. Tidy(v)
    BY <1>1, <2>1, <2>3, PlacedIsTidy
  <2> QED
    BY <2>4 DEF v
<1>3. CASE FreeSlot(w) = 0
  <2> DEFINE o == OldestSlot(w)
             k == w.cache[o].stride
             u == BothRemoved(w, k)
  <2>1. o \in Slots
    BY <1>1, OldestSlotFacts
  <2>2. w.cache[o] # Nil
    <3>1. \A j \in Slots : w.cache[j].status \notin {"nil", "deleted"}
      BY <1>1, <1>3, FreeSlotFacts
    <3> QED
      BY <2>1, <3>1, NilFacts
  <2>3. k \in Strides
    BY <1>1, <2>1, <2>2, NilFacts DEF Worlds
  <2>4. v = [u EXCEPT !.cache[o] = entry]
    BY <1>3 DEF Added
  <2> HIDE DEF o
  <2>5. /\ u \in Worlds
        /\ u.cache = w.cache
        /\ u.file = [w.file EXCEPT ![k] = NoFile]
        /\ u.extracted = w.extracted \ {k}
    BY <1>1, <2>3, BothRemovedFacts
  <2> HIDE DEF u, v
  <2>6. v.cache = [w.cache EXCEPT ![o] = entry] /\ v.file = u.file /\ v.extracted = u.extracted
    BY <2>1, <2>4, <2>5 DEF Worlds
  <2>7. \A t \in Strides : w.file[t].content = "none" => v.file[t].content = "none"
    BY <1>1, <2>3, <2>5, <2>6 DEF Worlds, Files, NoFile
  <2>8. \A t \in w.extracted : t \in v.extracted \/ t = k
    BY <2>5, <2>6
  <2>9. Tidy(v)
    BY <1>1, <2>1, <2>6, <2>7, <2>8, PlacedIsTidy
  <2> QED
    BY <2>9 DEF v
<1> QED
  BY <1>2, <1>3

LEMMA CachedTidies ==
  ASSUME Setting, NEW w, Good(w), Tidy(w), NEW s \in Strides, TwinsDealtWith(w, s, FALSE)
  PROVE  Tidy(Cached(w, s))
<1>1. CASE SlotOf(w, s) = 0
  <2>1. \A j \in Slots : w.cache[j].stride # s
    BY <1>1, SlotOfFacts, SlotsAreNumbers DEF Good
  <2> QED
    BY <1>1, <2>1, AddedTidies DEF Cached, IsCached
<1>2. CASE SlotOf(w, s) # 0
  BY <1>2 DEF Cached
<1> QED
  BY <1>1, <1>2

\* An expired entry goes, and its stride is not offered any more.
LEMMA ExpiredTidies ==
  ASSUME Setting, NEW w, Good(w), Tidy(w), NEW s \in Strides, NEW e \in EntryOf(s)
  PROVE  Tidy(Expired(w, e))
<1> DEFINE v == Removed(w, e)
<1>1. w \in Worlds /\ Contiguous(w) /\ CachedOnce(w) /\ e.stride = s /\ maxAgeSeconds \in Nat
  BY SettingFacts DEF Good, EntryOf
<1>2. v \in Worlds /\ v.cache = w.cache
  BY <1>1, RemovedFacts
<1>3. TwinsSettled(v) /\ EdgesThere(v, {s})
  BY <1>1, RemovedSettles
<1>4. Expired(w, e) = SetStatus(v, s, "deleted")
  BY <1>1 DEF Expired
<1>5. Contiguous(v) /\ CachedOnce(v)
  BY <1>1, <1>2 DEF Contiguous, CachedOnce
<1> HIDE DEF v
<1> QED
  BY <1>2, <1>3, <1>4, <1>5, SetStatusTidies DEF Statuses

-----------------------------------------------------------------------------
(* Each step keeps the twins apart *)

LEMMA TidyBecomes ==
  ASSUME ExplorerInv, NEW v \in Worlds, Tidy(v), Becomes(v), Alone
  PROVE  Tidy(World)'
<1>1. World' = v
  BY DEF Becomes, World, Worlds
<1>2. \A s, t : Twins(s, t)' <=> Twins(s, t)
  BY DEF Twins, Alone
<1>3. TwinsSettled(v)'
  BY <1>2 DEF Tidy, TwinsSettled, IsCached, OutOfUse
<1>4. EdgesThere(v, {})'
  BY DEF Tidy, EdgesThere
<1> QED
  BY <1>1, <1>3, <1>4 DEF Tidy

LEMMA VisitEntryTidies ==
  ASSUME ExplorerInv, AtMostTwo, Tidy(World), NEW e \in scan.left,
         SkipVanished(e) \/ Expire(e) \/ VisitDirectory(e) \/ VisitFile(e), Alone
  PROVE  Tidy(World)'
<1> DEFINE s == e.stride
           w == Superseded(World, e)
           cached == Cached(w, s)
<1>1. InHand(e) /\ (~SkipVanished(e) => Exists(World, e))
  BY DEF SkipVanished, Expire, VisitDirectory, VisitFile
<1>2. s \in 1 .. written /\ s \in Strides /\ e \in EntryOf(s)
  BY <1>1, InHandFacts
<1>3. Setting /\ Good(World) /\ Servable(World) /\ World \in Worlds
  BY DEF ExplorerInv, WorldInv, Good
<1>4. Good(w) /\ w \in Worlds /\ Servable(w) /\ Contiguous(w) /\ CachedOnce(w)
  BY <1>2, <1>3, SupersededTends DEF Tended, Good
<1>5. Tidy(w) /\ TwinsDealtWith(w, s, e.isDir)
  BY <1>2, <1>3, SupersededTidies
<1>6. CASE SkipVanished(e)
  BY <1>3, <1>6, TidyBecomes DEF SkipVanished
<1>7. CASE Expire(e)
  <2> HIDE DEF w
  <2>1. Tidy(Expired(w, e))
    BY <1>2, <1>3, <1>4, <1>5, ExpiredTidies
  <2>2. Expired(w, e) \in Worlds
    <3>1. Removed(w, e) \in Worlds /\ Removed(w, e).cache = w.cache
      BY <1>2, <1>3, <1>4, RemovedFacts, SettingFacts
    <3>2. Contiguous(Removed(w, e)) /\ CachedOnce(Removed(w, e))
      BY <1>4, <3>1 DEF Contiguous, CachedOnce
    <3>3. SetStatus(Removed(w, e), s, "deleted") \in Worlds
      BY <1>2, <3>1, <3>2, SetStatusFacts DEF Statuses
    <3> QED
      BY <3>3 DEF Expired
  <2>3. Becomes(Expired(w, e))
    BY <1>7 DEF Expire, w
  <2> QED
    BY <2>1, <2>2, <2>3, TidyBecomes
<1>8. CASE VisitDirectory(e)
  <2> HIDE DEF w
  <2>1. \/ Becomes(w)
        \/ Status(w, s) = "read" /\ Becomes(SetStatus(w, s, "processing"))
    BY <1>8 DEF VisitDirectory, w
  <2>2. CASE Becomes(w)
    BY <1>4, <1>5, <2>2, TidyBecomes
  <2>3. CASE Status(w, s) = "read" /\ Becomes(SetStatus(w, s, "processing"))
    <3>1. SlotOf(w, s) # 0 /\ w.cache[SlotOf(w, s)].status = "read"
      BY <2>3 DEF Status
    <3>2. SlotOf(w, s) \in Slots /\ w.cache[SlotOf(w, s)].stride = s
      BY <1>2, <1>4, <3>1, SlotOfFacts
    <3>3. ~OutOfUse(w, s)
      BY <3>1, <3>2 DEF OutOfUse
    <3>4. EdgesThere(w, {s}) /\ TwinsSettled(w)
      BY <1>5 DEF Tidy, EdgesThere
    <3> HIDE DEF s
    <3>5. Tidy(SetStatus(w, s, "processing"))
      BY <1>2, <1>4, <3>3, <3>4, SetStatusTidies DEF Statuses
    <3>6. SetStatus(w, s, "processing") \in Worlds
      BY <1>2, <1>4, SetStatusFacts DEF Statuses
    <3> QED
      BY <2>3, <3>5, <3>6, TidyBecomes
  <2> QED
    BY <2>1, <2>2, <2>3
<1>9. CASE VisitFile(e)
  <2>1. /\ ~e.isDir
        /\ \/ Becomes(w)
           \/ /\ file[s].content # "empty"
              /\ \/ Becomes(cached)
                 \/ Becomes(WithDirectory(cached, s))
                 \/ Becomes(SetStatus(cached, s, "error"))
    BY <1>9 DEF VisitFile
  <2> HIDE DEF w
  <2>2. Tidy(cached)
    <3>1. TwinsDealtWith(w, s, FALSE)
      <4>1. e.isDir = FALSE \/ e.isDir = TRUE
        BY <1>2 DEF EntryOf
      <4> QED
        BY <1>5, <2>1, <4>1
    <3> QED
      BY <1>2, <1>3, <1>4, <1>5, <3>1, CachedTidies
  <2>3. ASSUME file[s].content # "empty"
        PROVE  cached \in Worlds /\ Contiguous(cached) /\ CachedOnce(cached)
    <3>1. file[s].content \in {"partial", "complete"}
      <4>1. file[s].content # "none" /\ file \in Files
        BY <1>9, WorldFacts, InvFacts DEF VisitFile, Exists
      <4> QED
        BY <1>2, <2>3, <4>1 DEF Files
    <3>2. s \in begun
      BY <1>2, <1>3, <3>1, WorldFacts DEF Good, Known
    <3> QED
      BY <1>3, <1>4, <3>2, CachedTends DEF Tended, Good
  <2> HIDE DEF cached
  <2>4. CASE Becomes(w)
    BY <1>4, <1>5, <2>4, TidyBecomes
  <2>5. CASE file[s].content # "empty" /\ Becomes(cached)
    BY <2>2, <2>3, <2>5, TidyBecomes
  <2>6. CASE file[s].content # "empty" /\ Becomes(WithDirectory(cached, s))
    <3> DEFINE v == WithDirectory(cached, s)
    <3>1. v = IF cached.directory[s] = NoDirectory THEN [cached EXCEPT !.directory[s] = 0] ELSE cached
      BY DEF WithDirectory
    <3>2. cached \in Worlds /\ TooOld \in Nat
      BY <1>3, <2>3, <2>6, SettingFacts
    <3>3. [cached.directory EXCEPT ![s] = 0] \in [Strides -> {NoDirectory} \union 0 .. TooOld]
      <4>1. cached.directory \in [Strides -> {NoDirectory} \union 0 .. TooOld] /\ 0 \in 0 .. TooOld
        BY <3>2 DEF Worlds
      <4> HIDE DEF s
      <4> QED
        BY <4>1
    <3>4. v \in Worlds /\ v.file = cached.file /\ v.cache = cached.cache /\ v.extracted = cached.extracted
      BY <3>1, <3>2, <3>3 DEF Worlds
    <3> HIDE DEF v
    <3>5. Tidy(v)
      BY <2>2, <3>4 DEF Tidy, TwinsSettled, IsCached, OutOfUse, EdgesThere
    <3> QED
      BY <2>6, <3>4, <3>5, TidyBecomes DEF v
  <2>7. CASE file[s].content # "empty" /\ Becomes(SetStatus(cached, s, "error"))
    <3> HIDE DEF s
    <3>1. TwinsSettled(cached) /\ EdgesThere(cached, {s})
      BY <2>2 DEF Tidy, EdgesThere
    <3>2. Tidy(SetStatus(cached, s, "error")) /\ SetStatus(cached, s, "error") \in Worlds
      BY <1>2, <2>3, <2>7, <3>1, SetStatusFacts, SetStatusTidies DEF Statuses
    <3> QED
      BY <2>7, <3>2, TidyBecomes
  <2> QED
    BY <2>1, <2>4, <2>5, <2>6, <2>7
<1> QED
  BY <1>6, <1>7, <1>8, <1>9

LEMMA ReadFileTidies ==
  ASSUME ExplorerInv, Tidy(World), ReadFile
  PROVE  Tidy(World)'
<1>1. PICK s, status : s = scan.stride /\ status = (IF file[s].content = "complete" THEN "read" ELSE AfterFailure(scan.age))
  OBVIOUS
<1>2. Good(World) /\ s \in Strides /\ Becomes(SetStatus(World, s, status)) /\ Alone
  BY <1>1 DEF ExplorerInv, WorldInv, ScanInv, ReadFile, Alone
<1>3. /\ status \in Statuses /\ status # "processed"
      /\ status \in {"read", "processing", "processed"} => file[s].content = "complete"
  BY <1>1 DEF AfterFailure, Statuses
<1>4. World \in Worlds /\ Contiguous(World) /\ CachedOnce(World)
  BY <1>2 DEF Good
<1>5. status \in {"read", "processing", "processed"} => ~OutOfUse(World, s)
  BY <1>3, WorldFacts DEF OutOfUse
<1>6. TwinsSettled(World) /\ EdgesThere(World, {s})
  BY DEF Tidy, EdgesThere
<1>7. SetStatus(World, s, status) \in Worlds /\ Tidy(SetStatus(World, s, status))
  BY <1>2, <1>3, <1>4, <1>5, <1>6, SetStatusFacts, SetStatusTidies
<1> QED
  BY <1>2, <1>7, TidyBecomes

LEMMA ExtractEdgesTidies ==
  ASSUME ExplorerInv, Tidy(World), ExtractEdges
  PROVE  Tidy(World)'
<1>1. PICK s : s = scan.stride
  OBVIOUS
<1>2. /\ Good(World) /\ s \in Strides /\ Alone /\ World \in Worlds /\ Contiguous(World) /\ CachedOnce(World)
      /\ TooOld \in Nat
  BY <1>1, SettingFacts DEF ExplorerInv, WorldInv, ScanInv, ExtractEdges, Alone, Good
<1>3. PICK edges \in BOOLEAN, new \in MayBeNew(s) :
        IF file[s].content # "complete" \/ (edges /\ directory[s] = NoDirectory)
        THEN Becomes(SetStatus(World, s, "error"))
        ELSE Becomes(SetStatus([World EXCEPT !.directory[s] = IF edges /\ new THEN 0 ELSE @, !.extracted = @ \union {s}],
                               s, "processed"))
  BY <1>1 DEF ExtractEdges
<1>4. TwinsSettled(World) /\ EdgesThere(World, {s})
  BY DEF Tidy, EdgesThere
<1>5. CASE Becomes(SetStatus(World, s, "error"))
  <2>1. SetStatus(World, s, "error") \in Worlds /\ Tidy(SetStatus(World, s, "error"))
    BY <1>2, <1>4, SetStatusFacts, SetStatusTidies DEF Statuses
  <2> QED
    BY <1>2, <1>5, <2>1, TidyBecomes
<1>6. ASSUME NEW d \in {0, directory[s]}, file[s].content = "complete",
             Becomes(SetStatus([World EXCEPT !.directory[s] = d, !.extracted = @ \union {s}], s, "processed"))
      PROVE  Tidy(World)'
  <2> DEFINE u == [World EXCEPT !.directory[s] = d, !.extracted = @ \union {s}]
  <2>1. /\ u \in Worlds /\ u.file = World.file /\ u.cache = World.cache
        /\ u.extracted = World.extracted \union {s}
    <3>1. [directory EXCEPT ![s] = d] \in [Strides -> {NoDirectory} \union 0 .. TooOld]
      BY <1>2, InvFacts
    <3> QED
      BY <3>1, <1>2 DEF World, Worlds
  <2>2. Becomes(SetStatus(u, s, "processed"))
    BY <1>6
  <2> HIDE DEF u
  <2>3. Contiguous(u) /\ CachedOnce(u)
    BY <1>2, <2>1 DEF Contiguous, CachedOnce
  <2>4. TwinsSettled(u) /\ EdgesThere(u, {s})
    BY <1>4, <2>1 DEF TwinsSettled, IsCached, OutOfUse, EdgesThere
  <2>5. ~OutOfUse(u, s) /\ s \in u.extracted
    BY <1>6, <2>1, WorldFacts DEF OutOfUse
  <2>6. "processed" \in Statuses
    BY DEF Statuses
  <2>7. SetStatus(u, s, "processed") \in Worlds
    BY <1>2, <2>1, <2>3, <2>6, SetStatusFacts
  <2>8. Tidy(SetStatus(u, s, "processed"))
    BY <1>2, <2>1, <2>3, <2>4, <2>5, <2>6, SetStatusTidies
  <2> QED
    BY <1>2, <2>2, <2>7, <2>8, TidyBecomes
<1>7. CASE file[s].content = "complete" /\ ~(edges /\ directory[s] = NoDirectory)
  <2> DEFINE d == IF edges /\ new THEN 0 ELSE directory[s]
  <2>1. d \in {0, directory[s]}
    OBVIOUS
  <2>2. [World EXCEPT !.directory[s] = IF edges /\ new THEN 0 ELSE @, !.extracted = @ \union {s}]
          = [World EXCEPT !.directory[s] = d, !.extracted = @ \union {s}]
    BY WorldFacts
  <2>3. Becomes(SetStatus([World EXCEPT !.directory[s] = d, !.extracted = @ \union {s}], s, "processed"))
    BY <1>3, <1>7, <2>2
  <2> HIDE DEF d
  <2> QED
    BY <1>6, <1>7, <2>1, <2>3
<1> QED
  BY <1>3, <1>5, <1>7

\* Between scans no file comes back of a stride that is cached.
LEMMA RestTidies ==
  ASSUME ExplorerInv, Tidy(World), StrideId' = StrideId, extracted' = extracted,
         strideCache' = strideCache \/ \A i \in Slots : strideCache'[i] = Nil,
         \A s \in Strides : IsCached(World, s) /\ file[s].content = "none" => file'[s].content = "none"
  PROVE  Tidy(World)'
<1>1. World'.file = file' /\ World'.cache = strideCache' /\ World'.extracted = extracted
  BY DEF World
<1>2. CASE strideCache' = strideCache
  <2>1. \A s : IsCached(World, s)' <=> IsCached(World, s)
    BY <1>1, <1>2, WorldFacts DEF IsCached
  <2>2. \A s \in Strides : IsCached(World, s) /\ OutOfUse(World, s) => OutOfUse(World, s)'
    BY <1>1, <1>2, WorldFacts DEF OutOfUse
  <2>3. \A s, t : Twins(s, t)' <=> Twins(s, t)
    BY DEF Twins
  <2>4. TwinsSettled(World)'
    BY <2>1, <2>2, <2>3 DEF Tidy, TwinsSettled
  <2>5. EdgesThere(World, {})'
    BY <1>1, <1>2, WorldFacts DEF Tidy, EdgesThere
  <2> QED
    BY <2>4, <2>5 DEF Tidy
<1>3. CASE \A i \in Slots : strideCache'[i] = Nil
  <2>1. \A i \in Slots : World'.cache[i].stride = 0 /\ World'.cache[i].status = "nil"
    BY <1>1, <1>3 DEF Nil
  <2>2. \A s \in Strides : ~IsCached(World, s)'
    BY <2>1, NilFacts DEF IsCached
  <2> QED
    BY <2>1, <2>2 DEF Tidy, TwinsSettled, EdgesThere
<1> QED
  BY <1>2, <1>3

LEMMA InitIsTidy == Init => Tidy(World)
<1> SUFFICES ASSUME Init
             PROVE  Tidy(World)
  OBVIOUS
<1>1. \A i \in Slots : World.cache[i].stride = 0 /\ World.cache[i].status = "nil"
  BY WorldFacts DEF Init, Nil
<1>2. \A s \in Strides : ~IsCached(World, s)
  BY <1>1, NilFacts DEF IsCached
<1> QED
  BY <1>1, <1>2 DEF Tidy, TwinsSettled, EdgesThere

LEMMA StepTidies ==
  ASSUME ExplorerInv, AtMostTwo, Tidy(World), [Next]_vars
  PROVE  Tidy(World)'
<1>0. /\ file \in Files /\ \A s \in Strides : IsCached(World, s) => s \in begun
      /\ Setting /\ Strides \subseteq Nat
  <2>1. Setting /\ Known(World) /\ file \in Files /\ Strides \subseteq Nat
    BY InvFacts, SettingFacts DEF ExplorerInv
  <2>2. \A i \in Slots : World.cache[i] # Nil => World.cache[i].stride \in begun
    BY <2>1 DEF Known
  <2> QED
    BY <2>1, <2>2, NilFacts DEF IsCached
<1>1. CASE BeginScan \/ EndScan \/ UNCHANGED vars
  BY <1>1, RestTidies DEF BeginScan, EndScan, vars
<1>2. CASE VisitEntry
  <2>1. Alone
    BY <1>2 DEF VisitEntry, Alone
  <2> QED
    BY <1>2, <2>1, VisitEntryTidies DEF VisitEntry
<1>3. CASE ReadFile \/ ExtractEdges
  BY <1>3, ReadFileTidies, ExtractEdgesTidies
<1>4. CASE CreateFile
  <2>1. file' = [file EXCEPT ![written + 1] = [content |-> "empty", age |-> 0]]
    BY <1>4 DEF CreateFile
  <2>2. \A s \in Strides : IsCached(World, s) => s # written + 1
    BY <1>0, SettingFacts
  <2>3. \A s \in Strides : IsCached(World, s) => file'[s] = file[s]
    BY <1>0, <2>1, <2>2 DEF Files
  <2> QED
    BY <1>4, <2>3, RestTidies DEF CreateFile
<1>5. CASE WriteFile
  <2>1. PICK s \in Strides, new \in {"partial", "complete"} :
          StillOpen(s) /\ file' = [file EXCEPT ![s] = [content |-> new, age |-> 0]]
    BY <1>5 DEF WriteFile
  <2>2. file[s].content # "none"
    BY <2>1 DEF StillOpen
  <2>3. \A t \in Strides : file[t].content = "none" => file'[t] = file[t]
    BY <1>0, <2>1, <2>2 DEF Files
  <2> QED
    BY <1>5, <2>3, RestTidies DEF WriteFile
<1>6. CASE Tick
  <2>1. \A s \in Strides : file[s].content = "none" => file'[s].content = "none"
    BY <1>6 DEF Tick, NoFile
  <2> QED
    BY <1>6, <2>1, RestTidies DEF Tick
<1>7. CASE Restart
  <2>1. \A i \in Slots : strideCache'[i] = Nil
    BY <1>7 DEF Restart
  <2>2. StrideId' = StrideId /\ extracted' = extracted /\ file' = file
    BY <1>7 DEF Restart
  <2> QED
    BY <2>1, <2>2, RestTidies
<1> QED
  BY <1>1, <1>2, <1>3, <1>4, <1>5, <1>6, <1>7 DEF Next, ScanStep

\* With no more than two strides of an id, what is offered can be told apart by its id, and its
\* edge files are there.
IdsAtMostTwice ==
  \A ids \in StrideIds : \A s, t, u \in Strides : s < t /\ t < u => ~(ids[s] = ids[t] /\ ids[t] = ids[u])

OfferedApart ==
  \A i \in Slots : strideCache[i].status = "processed" =>
    /\ strideCache[i].stride \in extracted
    /\ \A j \in Slots : strideCache[j].status = "processed" /\ i # j =>
         StrideId[strideCache[i].stride] # StrideId[strideCache[j].stride]

LEMMA TidyOffers ==
  ASSUME ExplorerInv, Tidy(World)
  PROVE  OfferedApart
<1> SUFFICES ASSUME NEW i \in Slots, strideCache[i].status = "processed"
             PROVE  /\ strideCache[i].stride \in extracted
                    /\ \A j \in Slots : strideCache[j].status = "processed" /\ i # j =>
                         StrideId[strideCache[i].stride] # StrideId[strideCache[j].stride]
  BY DEF OfferedApart
<1>1. strideCache[i].stride \in extracted
  BY WorldFacts DEF Tidy, EdgesThere
<1>2. ASSUME NEW j \in Slots, strideCache[j].status = "processed", i # j,
             StrideId[strideCache[i].stride] = StrideId[strideCache[j].stride]
      PROVE  FALSE
  <2>1. PICK s, t : s = strideCache[i].stride /\ t = strideCache[j].stride
    OBVIOUS
  <2>2. strideCache[i] \in CacheSlots /\ strideCache[j] \in CacheSlots /\ CachedOnce(World)
    BY InvFacts
  <2>3. s \in Strides /\ t \in Strides /\ s # t
    BY <1>2, <2>1, <2>2, NilFacts, WorldFacts DEF CachedOnce
  <2>4. s < t \/ t < s
    BY <2>3, SettingFacts DEF ExplorerInv
  <2>5. Twins(s, t) \/ Twins(t, s)
    BY <1>2, <2>1, <2>4 DEF Twins
  <2>6. IsCached(World, s) /\ IsCached(World, t)
    BY <2>1, WorldFacts DEF IsCached
  <2>7. ~OutOfUse(World, s) /\ ~OutOfUse(World, t)
    BY <1>2, <2>1, WorldFacts DEF OutOfUse
  <2> QED
    BY <2>3, <2>5, <2>6, <2>7 DEF Tidy, TwinsSettled
<1> QED
  BY <1>1, <1>2

LEMMA TwoAtMost ==
  ASSUME IdsAtMostTwice, Setting
  PROVE  AtMostTwo
BY DEF IdsAtMostTwice, Setting, AtMostTwo, Twins

-----------------------------------------------------------------------------
(* Theorems *)

LEMMA StepKeeps == ExplorerInv /\ [Next]_vars => ScanStepIsFine \/ NothingRemoved
<1> SUFFICES ASSUME ExplorerInv, [Next]_vars
             PROVE  ScanStepIsFine \/ NothingRemoved
  OBVIOUS
<1>1. CASE BeginScan
  BY <1>1, BeginScanIsFine
<1>2. CASE VisitEntry
  BY <1>2, VisitEntryIsFine
<1>3. CASE EndScan
  BY <1>3, EndScanIsFine
<1>4. CASE ReadFile
  BY <1>4, ReadFileIsFine
<1>5. CASE ExtractEdges
  BY <1>5, ExtractEdgesIsFine
<1>6. CASE CreateFile
  BY <1>6, CreateFileIsFine
<1>7. CASE WriteFile
  BY <1>7, WriteFileIsFine
<1>8. CASE Tick
  BY <1>8, TickIsFine
<1>9. CASE Restart
  BY <1>9, RestartIsFine
<1>10. CASE UNCHANGED vars
  BY <1>10, StutterIsFine
<1> QED
  BY <1>1, <1>2, <1>3, <1>4, <1>5, <1>6, <1>7, <1>8, <1>9, <1>10 DEF Next, ScanStep

\* What every reachable state of the explorer satisfies.
THEOREM ExplorerInvariance == Spec => []ExplorerInv
<1>1. ExplorerInv /\ [Next]_vars => ExplorerInv'
  BY StepKeeps DEF ScanStepIsFine, NothingRemoved
<1> QED
  BY InitEstablishes, <1>1, PTL DEF Spec

\* The types, and the slots of the cache that are used come before those that are not, so
\* that the loops which stop at the first empty one see all of them.
THEOREM ExplorerTypes == Spec => []TypeOK
<1>1. ExplorerInv => TypeOK
  BY InvImpliesProperties
<1> QED
  BY <1>1, ExplorerInvariance, PTL

\* However strides are cached, evicted, marked as deleted and found again, none has two slots.
THEOREM OneSlotPerStride == Spec => []StrideCachedOnce
<1>1. ExplorerInv => StrideCachedOnce
  BY InvImpliesProperties
<1> QED
  BY <1>1, ExplorerInvariance, PTL

\* What the explorer offers of a stride is on the disk, until a later stride has its id.
THEOREM OfferedIsServable == Spec => []OfferedStridesServable
<1>1. ExplorerInv => OfferedStridesServable
  BY InvImpliesProperties
<1> QED
  BY <1>1, ExplorerInvariance, PTL

\* Whatever is removed, the latest result file is not, unless it is too old.
THEOREM LatestFileStays == Spec => NewestKept
<1>1. ExplorerInv /\ [Next]_vars =>
        \A s \in Strides : file[s].content # "none" /\ file'[s].content = "none" =>
          \/ maxAgeSeconds > 0 /\ file[s].age > maxAgeSeconds
          \/ \E t \in Strides : t > s /\ file[t].content # "none"
  <2> SUFFICES ASSUME ExplorerInv, [Next]_vars,
                      NEW s \in Strides, file[s].content # "none", file'[s].content = "none"
               PROVE  \/ maxAgeSeconds > 0 /\ file[s].age > maxAgeSeconds
                      \/ \E t \in Strides : t > s /\ file[t].content # "none"
    OBVIOUS
  <2>1. Removable(file, s)
    BY StepKeeps DEF ScanStepIsFine, NothingRemoved
  <2>2. Outlived(file, s) \/ \E t \in Strides : Later(s, t) /\ file[t].content # "none"
    BY <2>1, InvFacts DEF Removable, LaterIsThere
  <2>3. \A t \in Strides : Later(s, t) => t > s
    BY SettingFacts DEF Later, ExplorerInv
  <2> QED
    BY <2>2, <2>3 DEF Outlived
<1> QED
  BY <1>1, ExplorerInvariance, PTL DEF Spec, NewestKept

\* As long as the receiver has not given an id to more than two strides, of two that share one
\* only the later is offered, and whatever is offered has its edge files.
THEOREM OfferedIdsDiffer ==
  ASSUME IdsAtMostTwice
  PROVE  Spec => []OfferedApart
<1>1. Init => ExplorerInv /\ Tidy(World)
  BY InitEstablishes, InitIsTidy
<1>2. ExplorerInv /\ Tidy(World) /\ [Next]_vars => (ExplorerInv /\ Tidy(World))'
  <2> SUFFICES ASSUME ExplorerInv, Tidy(World), [Next]_vars
               PROVE  (ExplorerInv /\ Tidy(World))'
    OBVIOUS
  <2>1. AtMostTwo
    BY TwoAtMost DEF ExplorerInv
  <2> QED
    BY <2>1, StepKeeps, StepTidies DEF ScanStepIsFine, NothingRemoved
<1>3. ExplorerInv /\ Tidy(World) => OfferedApart
  BY TidyOffers
<1> QED
  BY <1>1, <1>2, <1>3, PTL DEF Spec
=============================================================================
