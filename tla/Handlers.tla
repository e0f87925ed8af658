------------------------------- MODULE Handlers -----------------------------
(***************************************************************************)
(* explorer/explorer.go: an HTTP request among the steps of the scan.  The *)
(* handler takes a stride out of the cache (getStride) and looks at it and *)
(* at its edge files (GetCorrelatedSeries), or goes on through all the     *)
(* slots of the cache (GetTimeline).  No lock keeps the scan from changing *)
(* the cache and the disk in between, or from removing the stride that the *)
(* handler holds.                                                          *)
(*                                                                         *)
(* A step of the handler is one look at the cache, or the look at one of   *)
(* its slots and the reading of its edges: a stride that goes in between   *)
(* is as one that went before.  A request may take as long as any scan.    *)
(* What the strides hold (content) is given.                               *)
(*                                                                         *)
(* A definition whose name lengthens that of the one after it is a faulty  *)
(* form of it, there to show that the properties notice; nothing uses it.  *)
(***************************************************************************)
EXTENDS Explorer, Queries, SequencesExt

CONSTANTS
  Contents,   \* the contents that the strides can have: functions of the stride
  Requested   \* the sequences of timeseries that can be asked for

VARIABLES
  content,    \* stride -> what its result file says, as Queries has it
  handler     \* the request being handled: its place and its locals

handlersVars == <<vars, content, handler>>

NoRequest ==
  [at |-> "none", kind |-> "none", ids |-> <<>>, slot |-> 0, stride |-> 0, checked |-> FALSE,
   answer |-> Failed({}), read |-> 0, correlates |-> {}, known |-> {}, points |-> EmptyBag, calm |-> TRUE]

HandlersInit ==
  /\ Init
  /\ content \in Contents
  /\ handler = NoRequest

-----------------------------------------------------------------------------
(* What a handler sees *)

IsProcessedOrRead(i) == strideCache[i].status \in {"read", "processing", "processed"}
IsProcessed(i) == strideCache[i].status = "processed"

\* The window of a stride reaches into that of the next.
Covers(s, time) == time \in {s, s + 1}

\* The edge files of a directory that is being filled: some of them, and of each a part.
PartsOf(edges) ==
  UNION {{parts \in [graphs -> UNION {Prefixes(edges[g]) : g \in graphs}] : \A g \in graphs : IsPrefix(parts[g], edges[g])} :
         graphs \in SUBSET DOMAIN edges}

EdgesOnDisk(s) ==
  IF s \in extracted THEN {content[s].edges}
  ELSE IF directory[s] = NoDirectory THEN {[g \in {} |-> <<>>]}
  ELSE PartsOf(content[s].edges)

Unread == [metrics |-> [ts \in {} |-> FALSE], Rows |-> [ts \in {} |-> 0], Sizes |-> [g \in {} |-> 0]]

\* The stride as it can be seen now. The metrics and subgraphs of a stride that was
\* processed are those of its file; of another they may not be there yet.
Seen(s, checked) ==
  {[metrics |-> m.metrics, Rows |-> m.Rows, Sizes |-> m.Sizes, edges |-> edges] :
     m \in {content[s]} \union (IF checked THEN {} ELSE {Unread}), edges \in EdgesOnDisk(s)}

-----------------------------------------------------------------------------
(* getStride *)

Picked(kind, ids, i) ==
  IF i = 0 THEN [NoRequest EXCEPT !.at = "done", !.kind = kind, !.ids = ids]
  ELSE [NoRequest EXCEPT !.at = "metrics", !.kind = kind, !.ids = ids,
                         !.stride = strideCache[i].stride, !.checked = TRUE]

\* By id or by time: the first processed slot that fits.
PickStride ==
  /\ handler.at = "none"
  /\ \E kind \in {"correlates", "timeline"}, ids \in Requested :
       \/ \E id \in ToSet(StrideId) :
            handler' = Picked(kind, ids, First({i \in Slots : IsProcessed(i) /\ StrideId[strideCache[i].stride] = id}))
       \/ \E time \in Strides :
            handler' = Picked(kind, ids, First({i \in Slots : IsProcessed(i) /\ Covers(strideCache[i].stride, time)}))
  /\ UNCHANGED <<vars, content>>

\* getLatestStride finds the slot of the latest processed stride,
FindLatest ==
  /\ handler.at = "none"
  /\ \E kind \in {"correlates", "timeline"}, ids \in Requested, i \in Slots :
       /\ IsProcessed(i)
       /\ \A j \in Slots : IsProcessed(j) => strideCache[j].stride <= strideCache[i].stride
       /\ handler' = [NoRequest EXCEPT !.at = "latest", !.kind = kind, !.ids = ids, !.slot = i]
  /\ UNCHANGED <<vars, content>>

\* and returns what the slot holds by then.
IndexLatest ==
  /\ handler.at = "latest"
  /\ LET i == handler.slot
     IN handler' = IF strideCache[i] = Nil THEN Picked(handler.kind, handler.ids, 0)
                   ELSE [Picked(handler.kind, handler.ids, i) EXCEPT !.checked = IsProcessed(i)]
  /\ UNCHANGED <<vars, content>>

-----------------------------------------------------------------------------
(* GetCorrelatedSeries and GetTimeline *)

Done(answer) == [handler EXCEPT !.at = "done", !.answer = answer]

\* The timeseries asked for must be known to the stride.
FindMetrics ==
  /\ handler.at = "metrics"
  /\ \E stride \in Seen(handler.stride, handler.checked) :
       LET metrics == getMetrics(stride, handler.ids, <<>>)
       IN handler' = IF ~metrics.ok THEN Done(Failed({}))
                     ELSE IF handler.kind = "correlates" THEN [handler EXCEPT !.at = "edges"]
                     ELSE [handler EXCEPT !.at = "timeline", !.slot = 1]
  /\ UNCHANGED <<vars, content>>

LookUp ==
  /\ handler.at = "edges"
  /\ \E stride \in Seen(handler.stride, handler.checked) :
       handler' = Done(GetCorrelatedSeries(stride, handler.ids))
  /\ UNCHANGED <<vars, content>>

Point(s, ts, correlated) == [stride |-> s, ts |-> ts, correlated |-> correlated]

NextSlot == IF handler.slot = CacheSize THEN [handler EXCEPT !.at = "done", !.slot = 0]
                                        ELSE [handler EXCEPT !.at = "timeline", !.slot = @ + 1]

SkipSlot ==
  /\ handler.at = "timeline" /\ ~IsProcessed(handler.slot)
  /\ handler' = NextSlot
  /\ UNCHANGED <<vars, content>>

\* A slot whose lookup is an error is left out. Of another the correlates are taken.
ReadSlot ==
  /\ handler.at = "timeline" /\ IsProcessed(handler.slot)
  /\ LET s == strideCache[handler.slot].stride
     IN \E stride \in Seen(s, TRUE) :
          LET found == retrieveCorrelatedTimeseries(stride, handler.ids[1], otherRowIds(handler.ids))
          IN handler' = IF found.ok THEN [handler EXCEPT !.at = "extend", !.read = s, !.correlates = found.found]
                        ELSE NextSlot
  /\ UNCHANGED <<vars, content>>

\* The slots that get a zero for a timeseries that is new in a stride: those before its own,
\* which is to say all of them if it is no longer among them.
EarlierSlots(s) ==
  {j \in Slots : /\ IsProcessed(j)
                 /\ \A k \in 1 .. j : IsProcessed(k) => StrideId[strideCache[k].stride] # StrideId[s]}

\* extendTimeline: a point for each of the correlates, a zero for each that is known from
\* another slot, and zeros in the earlier slots for each that is new.
ExtendedAtAskedStride(s, correlates) ==
  handler.points (+) SetToBag({Point(handler.stride, ts, ts \in correlates) : ts \in handler.known \union correlates})
ExtendedOnlyForward(s, correlates) ==
  handler.points (+) SetToBag({Point(s, ts, ts \in correlates) : ts \in handler.known \union correlates})
Extended(s, correlates) ==
  handler.points
  (+) SetToBag({Point(s, ts, ts \in correlates) : ts \in handler.known \union correlates})
  (+) SetToBag({Point(strideCache[j].stride, ts, FALSE) : j \in EarlierSlots(s), ts \in correlates \ handler.known})

ExtendTimeline ==
  /\ handler.at = "extend"
  /\ handler' = [NextSlot EXCEPT !.read = 0, !.correlates = {},
                                 !.known = @ \union handler.correlates,
                                 !.points = Extended(handler.read, handler.correlates)]
  /\ UNCHANGED <<vars, content>>

HandlerStep ==
  \/ PickStride \/ FindLatest \/ IndexLatest \/ FindMetrics \/ LookUp
  \/ SkipSlot \/ ReadSlot \/ ExtendTimeline

-----------------------------------------------------------------------------

Offered == {<<i, strideCache[i].stride>> : i \in {j \in Slots : IsProcessed(j)}}

\* A step of the explorer or of its surroundings; a restart ends the request. New edge files
\* are what makes a directory young when edges are extracted.
WorldStep ==
  /\ Next
  /\ scan.at = "extract" /\ scan.stride \in extracted' \ extracted /\ DOMAIN content[scan.stride].edges # {} =>
       directory'[scan.stride] = 0
  /\ handler' = IF restarts' # restarts THEN NoRequest
                ELSE [handler EXCEPT !.calm = @ /\ Offered' = Offered /\ extracted' = extracted]
  /\ UNCHANGED content

HandlersNext == WorldStep \/ HandlerStep

HandlersSpec == HandlersInit /\ [][HandlersNext]_handlersVars

-----------------------------------------------------------------------------
(* Properties *)

\* An answer is right or it is an error: whatever the scan removes, evicts and extracts
\* while a request holds a stride that it took by id or time, it does not get a part of the
\* correlated timeseries, or those of another stride.
AnswersRight ==
  handler.at = "done" /\ handler.checked /\ handler.answer.ok =>
    handler.answer = GetCorrelatedSeries(content[handler.stride], handler.ids)

Correlates(s) == retrieveCorrelatedTimeseries(content[s], handler.ids[1], otherRowIds(handler.ids))

\* Whatever the scan does meanwhile, a timeline never shows a correlation where there is
\* none, or twice: what it says of a stride was read from that stride, although its slot
\* may have another one by then.
TimelineTrue ==
  \A p \in BagToSet(handler.points) :
    p.correlated => p.ts \in Correlates(p.stride).found /\ handler.points[p] = 1

\* With the cache left alone the timeline is complete and has each point once: every processed stride that
\* knows the timeseries has a point for each timeseries found in any of them, which says
\* whether it is correlated there; a stride that does not know it has no more than zeros.
TimelineComplete ==
  /\ handler.at = "done" /\ handler.kind = "timeline" /\ handler.checked /\ handler.calm
  /\ getMetrics(content[handler.stride], handler.ids, <<>>).ok
  => LET offered == {slot[2] : slot \in Offered}
         shown == {s \in offered : Correlates(s).ok}
         series == UNION {Correlates(s).found : s \in shown}
         points == BagToSet(handler.points)
     IN /\ \A p \in points : handler.points[p] = 1
        /\ {p \in points : p.stride \in shown} = {Point(s, ts, ts \in Correlates(s).found) : s \in shown, ts \in series}
        /\ \A p \in points : p.stride \notin shown => p.stride \in offered /\ p.ts \in series /\ ~p.correlated
=============================================================================
