------------------------------ MODULE Explorer ------------------------------
(***************************************************************************)
(* explorer/data_processor.go: the explorer's scan of the directory that   *)
(* the receiver writes result files to, and its cache of strides.          *)
(*                                                                         *)
(* A stride is known by the time it starts, 1, 2, ...; its id comes back   *)
(* when the receiver is restarted.  A stride can have a result file and a  *)
(* directory for its edges.  Ages are the time since an entry was last     *)
(* written, up to TooOld.  The scan goroutine takes one step per entry of  *)
(* the directory; reading a file and extracting its edges, which take      *)
(* minutes, end in a step of their own.  During these and between scans    *)
(* the receiver writes, time passes and the explorer may be restarted; the *)
(* loop over the entries takes no time in comparison.                      *)
(*                                                                         *)
(* A definition whose name lengthens that of the one after it is a faulty  *)
(* form of it, there to show that the properties notice; nothing uses it.  *)
(***************************************************************************)
EXTENDS Integers, FiniteSetsExt

CONSTANTS
  StrideCount,   \* a bound: strides the receiver writes
  StrideIds,     \* the ids they can have, in the order of their starts
  CacheSize,     \* STRIDE_CACHE_SIZE
  GiveUpAge,     \* 600 seconds
  MaxAges,       \* the values of maxAgeSeconds: 0 keeps strides for ever
  MaxRestarts    \* a bound: restarts of the explorer

ASSUME ExplorerAssumption ==
  /\ StrideCount \in Nat
  /\ StrideIds \subseteq [1 .. StrideCount -> Nat]
  /\ CacheSize \in Nat \ {0, 1}
  /\ GiveUpAge \in Nat
  /\ MaxAges \subseteq Nat /\ MaxAges # {}
  /\ MaxRestarts \in Nat

Strides == 1 .. StrideCount

VARIABLES
  StrideId,       \* stride -> its id
  file,           \* stride -> its result file
  directory,      \* stride -> the age of its directory, NoDirectory if there is none
  extracted,      \* the strides whose directory holds the files of all their edges
  strideCache,    \* slot -> stride and status
  maxAgeSeconds,
  scan,           \* the scan goroutine: its place, the entries left, the one in hand
  written,        \* the receiver: the last stride whose file it created,
  begun,          \* and the strides it has begun to write row groups of
  restarts

vars == <<StrideId, file, directory, extracted, strideCache, maxAgeSeconds, scan, written, begun, restarts>>

\* Ages are counted up to the least that is past both limits.
TooOld == Max({GiveUpAge, maxAgeSeconds}) + 1

NoDirectory == -1
NoFile == [content |-> "none", age |-> 0]
Nil == [stride |-> 0, status |-> "nil"]
Idle == [at |-> "idle", left |-> {}, stride |-> 0, age |-> 0]

Slots == 1 .. CacheSize
Statuses == {"exists", "read", "processing", "processed", "retrying", "error", "deleted"}

Init ==
  /\ StrideId \in StrideIds
  /\ file = [s \in Strides |-> NoFile]
  /\ directory = [s \in Strides |-> NoDirectory]
  /\ extracted = {}
  /\ strideCache = [i \in Slots |-> Nil]
  /\ maxAgeSeconds \in MaxAges
  /\ scan = Idle
  /\ written = 0
  /\ begun = {}
  /\ restarts = 0

-----------------------------------------------------------------------------
(* The world: what a scan works on, as a record of files and cache.        *)
(* The operators below are the steps of the loop body in their order.      *)

World == [file |-> file, directory |-> directory, extracted |-> extracted, cache |-> strideCache]

Becomes(w) ==
  file' = w.file /\ directory' = w.directory /\ extracted' = w.extracted /\ strideCache' = w.cache

\* An entry of the directory is the file or the directory of a stride.
Exists(w, e) ==
  IF e.isDir THEN w.directory[e.stride] # NoDirectory ELSE w.file[e.stride].content # "none"

Age(w, e) == IF e.isDir THEN w.directory[e.stride] ELSE w.file[e.stride].age

Removed(w, e) ==
  IF e.isDir THEN [w EXCEPT !.directory[e.stride] = NoDirectory, !.extracted = @ \ {e.stride}]
             ELSE [w EXCEPT !.file[e.stride] = NoFile]

BothRemoved(w, s) == Removed(Removed(w, [isDir |-> FALSE, stride |-> s]), [isDir |-> TRUE, stride |-> s])

\* The loops over the cache stop at the first empty slot.
Before(w, i) == \A j \in 1 .. i : w.cache[j] # Nil

\* The first slot with a property; 0 when there is none.
First(slots) == IF slots = {} THEN 0 ELSE Min(slots)

SlotOf(w, s) == First({i \in Slots : Before(w, i) /\ w.cache[i].stride = s})

SetStatus(w, s, status) ==
  IF SlotOf(w, s) = 0 THEN w ELSE [w EXCEPT !.cache[SlotOf(w, s)].status = status]

\* Of two strides with the same id the older loses its files: either the first cached one
\* with this id, or the entry in hand, which the loop goes on with nevertheless.
Superseded(w, e) ==
  LET i == First({j \in Slots : Before(w, j) /\ StrideId[w.cache[j].stride] = StrideId[e.stride]})
      known == w.cache[i].stride
  IN IF i = 0 \/ known = e.stride THEN w
     ELSE IF known < e.stride THEN [BothRemoved(w, known) EXCEPT !.cache[i].status = "deleted"]
     ELSE Removed(w, e)

FreeSlot(w) == First({i \in Slots : w.cache[i].status \in {"nil", "deleted"}})
NewestSlot(w) == CHOOSE i \in Slots : \A j \in Slots : w.cache[j].stride <= w.cache[i].stride
OldestSlot(w) == CHOOSE i \in Slots : \A j \in Slots : w.cache[i].stride <= w.cache[j].stride

AddedEvictingNewest(w, s) ==
  LET entry == [stride |-> s, status |-> "exists"]
  IN IF FreeSlot(w) # 0 THEN [w EXCEPT !.cache[FreeSlot(w)] = entry]
     ELSE [BothRemoved(w, w.cache[NewestSlot(w)].stride) EXCEPT !.cache[NewestSlot(w)] = entry]

AddedLeavingHole(w, s) ==
  LET entry == [stride |-> s, status |-> "exists"]
  IN IF FreeSlot(w) # 0 THEN [w EXCEPT !.cache[FreeSlot(w)] = entry]
     ELSE [BothRemoved(w, w.cache[OldestSlot(w)].stride) EXCEPT !.cache[OldestSlot(w)] = Nil]

\* addStrideCacheEntry: into the first slot that is empty or has a deleted stride; else in
\* place of the oldest stride of the cache, whose files are removed.
Added(w, s) ==
  LET entry == [stride |-> s, status |-> "exists"]
  IN IF FreeSlot(w) # 0 THEN [w EXCEPT !.cache[FreeSlot(w)] = entry]
     ELSE [BothRemoved(w, w.cache[OldestSlot(w)].stride) EXCEPT !.cache[OldestSlot(w)] = entry]

CachedAgainAfterError(w, s) ==
  IF SlotOf(w, s) = 0 \/ w.cache[SlotOf(w, s)].status = "error" THEN Added(w, s) ELSE w
Cached(w, s) == IF SlotOf(w, s) = 0 THEN Added(w, s) ELSE w

Status(w, s) == IF SlotOf(w, s) = 0 THEN "nil" ELSE w.cache[SlotOf(w, s)].status

WithDirectory(w, s) ==
  IF w.directory[s] = NoDirectory THEN [w EXCEPT !.directory[s] = 0] ELSE w

-----------------------------------------------------------------------------
(* The scan goroutine *)

Entries ==
  {[isDir |-> FALSE, stride |-> s, age |-> file[s].age] : s \in {t \in Strides : file[t].content # "none"}}
  \union
  {[isDir |-> TRUE, stride |-> s, age |-> directory[s]] : s \in {t \in Strides : directory[t] # NoDirectory}}

BeginScan ==
  /\ scan.at = "idle"
  /\ scan' = [Idle EXCEPT !.at = "loop", !.left = Entries]
  /\ UNCHANGED <<StrideId, file, directory, extracted, strideCache, maxAgeSeconds, written, begun, restarts>>

\* The entry in hand is the last written of those left.
InHand(e) ==
  /\ scan.at = "loop"
  /\ e \in scan.left
  /\ \A other \in scan.left : e.age <= other.age

Continue(e) == scan' = [scan EXCEPT !.left = @ \ {e}]

IsTooOld(e) == maxAgeSeconds > 0 /\ Age(World, e) > maxAgeSeconds

\* Removed since the scan began.
SkipVanished(e) ==
  /\ InHand(e) /\ ~Exists(World, e)
  /\ Continue(e)
  /\ Becomes(World)

ExpiredKeepingStatus(w, e) == Removed(w, e)
Expired(w, e) == SetStatus(Removed(w, e), e.stride, "deleted")

Expire(e) ==
  /\ InHand(e) /\ Exists(World, e) /\ IsTooOld(e)
  /\ Becomes(Expired(Superseded(World, e), e))
  /\ Continue(e)

\* A directory is of interest once its stride was read.
VisitDirectory(e) ==
  /\ InHand(e) /\ Exists(World, e) /\ ~IsTooOld(e) /\ e.isDir
  /\ LET w == Superseded(World, e)
     IN \/ /\ Status(w, e.stride) = "read"
           /\ Becomes(SetStatus(w, e.stride, "processing"))
           /\ scan' = [Idle EXCEPT !.at = "extract", !.stride = e.stride]
        \/ /\ Status(w, e.stride) # "read"
           /\ Becomes(w)
           /\ Continue(e)

\* A file with anything in it is cached, and read unless that was done or given up, or a
\* directory cannot be made for it: then the loop goes on. The loop still has the file's
\* size and age when Superseded has removed it.
VisitFile(e) ==
  /\ InHand(e) /\ Exists(World, e) /\ ~IsTooOld(e) /\ ~e.isDir
  /\ LET w == Superseded(World, e)
         cached == Cached(w, e.stride)
     IN \/ /\ file[e.stride].content = "empty"
           /\ Becomes(w)
           /\ Continue(e)
        \/ /\ file[e.stride].content # "empty"
           /\ Status(cached, e.stride) \notin {"exists", "retrying"}
           /\ Becomes(cached)
           /\ Continue(e)
        \/ /\ file[e.stride].content # "empty"
           /\ Status(cached, e.stride) \in {"exists", "retrying"}
           /\ Becomes(WithDirectory(cached, e.stride))
           /\ scan' = [Idle EXCEPT !.at = "read", !.stride = e.stride, !.age = Age(World, e)]
        \/ /\ file[e.stride].content # "empty"
           /\ Status(cached, e.stride) \in {"exists", "retrying"}
           /\ cached.directory[e.stride] = NoDirectory
           /\ Becomes(SetStatus(cached, e.stride, "error"))
           /\ Continue(e)

VisitEntry ==
  /\ \E e \in scan.left : SkipVanished(e) \/ Expire(e) \/ VisitDirectory(e) \/ VisitFile(e)
  /\ UNCHANGED <<StrideId, maxAgeSeconds, written, begun, restarts>>

EndScan ==
  /\ scan.at = "loop" /\ scan.left = {}
  /\ scan' = Idle
  /\ UNCHANGED <<StrideId, file, directory, extracted, strideCache, maxAgeSeconds, written, begun, restarts>>

AfterFailureAlwaysRetrying(age) == "retrying"
AfterFailure(age) == IF age > GiveUpAge THEN "error" ELSE "retrying"

\* readResultFile, and the end of this scan: a file that is not complete cannot be parsed.
ReadFile ==
  /\ scan.at = "read"
  /\ LET status == IF file[scan.stride].content = "complete" THEN "read" ELSE AfterFailure(scan.age)
     IN Becomes(SetStatus(World, scan.stride, status))
  /\ scan' = Idle
  /\ UNCHANGED <<StrideId, maxAgeSeconds, written, begun, restarts>>

\* Edge files are new, unless an earlier process left them and they are written over with
\* the same.
MayBeNew(s) == {s \notin extracted} \union (IF restarts > 0 THEN {FALSE} ELSE {})

\* extractEdges, and the end of this scan: it fails without the file, or if there are
\* edges and no directory; new files make the directory young again.
ExtractEdges ==
  /\ scan.at = "extract"
  /\ LET s == scan.stride
     IN \E edges \in BOOLEAN, new \in MayBeNew(s) :
          IF file[s].content # "complete" \/ (edges /\ directory[s] = NoDirectory)
          THEN Becomes(SetStatus(World, s, "error"))
          ELSE Becomes(SetStatus([World EXCEPT !.directory[s] = IF edges /\ new THEN 0 ELSE @,
                                               !.extracted = @ \union {s}],
                                 s, "processed"))
  /\ scan' = Idle
  /\ UNCHANGED <<StrideId, maxAgeSeconds, written, begun, restarts>>

ScanStep == BeginScan \/ VisitEntry \/ EndScan \/ ReadFile \/ ExtractEdges

-----------------------------------------------------------------------------
(* The rest of the world *)

\* The receiver creates its files one after the other; it may leave one as it is.
CreateFile ==
  /\ scan.at # "loop"
  /\ written < StrideCount
  /\ written' = written + 1
  /\ file' = [file EXCEPT ![written + 1] = [content |-> "empty", age |-> 0]]
  /\ UNCHANGED <<StrideId, directory, extracted, strideCache, maxAgeSeconds, scan, begun, restarts>>

\* The ids of one run of the receiver ascend.
Ascending(first, last) == \A s, t \in first .. last : s < t => StrideId[s] < StrideId[t]

\* Files of a run of the receiver are finished in their order (ResultFiles), and not after
\* the next run began.
StillOpen(s) ==
  /\ file[s].content \in {"empty", "partial"}
  /\ Ascending(s, written)
  /\ \A t \in s + 1 .. written : t \notin begun

\* It writes row groups, all of them in one step here, and the footer last.
WriteFile ==
  /\ scan.at # "loop"
  /\ \E s \in Strides : \E content \in {"partial", "complete"} :
       /\ StillOpen(s) /\ file[s].content # content
       /\ file' = [file EXCEPT ![s] = [content |-> content, age |-> 0]]
       /\ begun' = begun \union {s}
  /\ UNCHANGED <<StrideId, directory, extracted, strideCache, maxAgeSeconds, scan, written, restarts>>

Older(age) == IF age = TooOld THEN age ELSE age + 1

Tick ==
  /\ scan.at # "loop"
  /\ file' = [s \in Strides |-> IF file[s].content = "none" THEN NoFile
                                ELSE [file[s] EXCEPT !.age = Older(@)]]
  /\ directory' = [s \in Strides |-> IF directory[s] = NoDirectory THEN NoDirectory ELSE Older(directory[s])]
  /\ UNCHANGED <<StrideId, extracted, strideCache, maxAgeSeconds, scan, written, begun, restarts>>

\* A new process finds the directory as the last one left it.
Restart ==
  /\ scan.at # "loop"
  /\ restarts < MaxRestarts
  /\ strideCache' = [i \in Slots |-> Nil]
  /\ scan' = Idle
  /\ restarts' = restarts + 1
  /\ UNCHANGED <<StrideId, file, directory, extracted, maxAgeSeconds, written, begun>>

Next == ScanStep \/ CreateFile \/ WriteFile \/ Tick \/ Restart

Spec == Init /\ [][Next]_vars

\* The ticker's goroutine scans for ever, and time passes. A scan step is always possible
\* and always moves the scan, so this is what WF_vars(ScanStep) says.
ScanGoesOn == []<><<scan' # scan /\ UNCHANGED restarts>>_vars

Fairness == ScanGoesOn /\ SF_vars(Tick)

-----------------------------------------------------------------------------
(* Properties *)

\* Types; the loops over the cache stop at the first empty slot, so the used slots must
\* come first.
TypeOK ==
  /\ file \in [Strides -> [content : {"none", "empty", "partial", "complete"}, age : 0 .. TooOld]]
  /\ directory \in [Strides -> {NoDirectory} \union 0 .. TooOld]
  /\ extracted \subseteq Strides
  /\ strideCache \in [Slots -> {Nil} \union [stride : Strides, status : Statuses]]
  /\ \A i, j \in Slots : i < j /\ strideCache[j] # Nil => strideCache[i] # Nil

\* A stride has at most one slot: otherwise its status would be two, and its files would be
\* removed with the one while the other offers them.
StrideCachedOnce ==
  \A i, j \in Slots : i # j /\ strideCache[i] # Nil => strideCache[i].stride # strideCache[j].stride

SupersededSince(s) == \E t \in s + 1 .. written : StrideId[t] = StrideId[s]

\* What is offered can be served ("directory should exist", line 161): a stride that was
\* read or processed, and whose id no later stride has, still has its file and directory,
\* and its edges once it was processed, however entries expire, are evicted or found again
\* after a restart.
OfferedStridesServable ==
  \A i \in Slots :
    LET s == strideCache[i].stride
    IN strideCache[i].status \in {"read", "processing", "processed"} /\ ~SupersededSince(s)
         => /\ file[s].content = "complete" /\ directory[s] # NoDirectory
            /\ strideCache[i].status = "processed" => s \in extracted

\* Whatever the explorer removes (superseded, evicted or expired), it never removes the
\* latest result file before its time.
NewestKept ==
  [][\A s \in Strides : file[s].content # "none" /\ file'[s].content = "none" =>
       \/ maxAgeSeconds > 0 /\ file[s].age > maxAgeSeconds
       \/ \E t \in Strides : t > s /\ file[t].content # "none"]_vars

\* Every result file that was completed is dealt with in the end: files are taken one per
\* scan, the newest first, and one that cannot be read does not keep the others waiting
\* for ever.
Settled(s) == file[s].content = "none" \/ Status(World, s) \in {"processed", "error", "deleted"}

CompleteFilesSettle == <>[](\A s \in Strides : file[s].content = "complete" => Settled(s))
=============================================================================
