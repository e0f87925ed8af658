# Verification of corrjoin

corrjoin receives Prometheus samples by remote write, keeps a sliding window of them, finds the
pairs of timeseries whose Pearson correlation over the window reaches a threshold, and writes
them to one Parquet file per window; an explorer serves the files over HTTP. This directory
holds TLA+ models of that program, TLC runs that check them on small instances, and proofs,
checked by TLAPS, about eight of its parts.

    cd tla
    tlc -workers 2 -config Receiver.cfg Receiver
    tlapm AccumulatorProofs.tla

## The system

| component | source | state | operations | models |
|---|---|---|---|---|
| accumulator | `lib/tsaccumulator.go` | row map, `Tsids`, buffers of the current stride and its interval | `AddObservation` (which publishes a stride when it rolls over) | `Accumulator`, `StrideSource` |
| window | `lib/tswindow.go` | the window's rows, normalised copies, constant rows, stride counter, lock | `ShiftBuffer`, `runAlgorithm` in a goroutine of its own | `Window` |
| comparer | `lib/comparisons` | current stride, cache of reduced vectors, matches not sent yet | `StartStride`, `Compare`, `StopStride` | `Comparer` |
| reporter | `lib/reporter/parquet_reporter.go` | label and writer per stride number | `InitializeStride`, `AddCorrelatedPairs`, `RecordTimeseriesIds`, `AddConstantRows`, `Flush` | `Reporter` |
| receiver | `receiver/receiver.go` | start times per stride number, three channels | four goroutines | `Receiver` |
| buckets | `lib/buckets/buckets.go` | rows by bucket of their SVD | `Initialize`, `CorrelationCandidates` | `Buckets` |
| set reporter | `lib/reporter/correlated_set.go` | sets of correlated rows and their scores | `addCorrelatedPair`, `Flush` | `CorrelatedSets`, `Partition` |
| explorer library | `lib/explorer/parquet_explorer.go` | subgraph of each timeseries, sizes | `GetMetrics`, `GetSubgraphs` (`addPair`), `GetEdges` | `Subgraphs`, `Groupings` |
| explorer service | `explorer/data_processor.go` | cache of ten strides and their states, files and directories on disk | scan, eviction, expiry, `readResultFile`, `extractEdges` | `Explorer` |
| HTTP handlers | `explorer/explorer.go` | none of their own; the stride they hold and what they found so far | queries | `Queries`, `Handlers` |
| process | `frontend/app.go` | servers | start, interrupt | not modelled |
| numerics | `lib/paa`, `lib/svd`, `lib/correlation` | none | floating-point functions | their answers are nondeterministic |

How they interact. HTTP handlers put observations into a channel. The *accumulator goroutine*
takes them one by one; `AddObservation` either stores the sample, ignores it, or publishes the
finished stride on `bufferChannel` (capacity 1) and starts the next. The *buffer goroutine*
takes the result, numbers it by the window's counter plus one, opens the result file once the
window can be full, and calls `ShiftBuffer`. If the window is not locked, the buffer is shifted
in; if that fills the window the *algorithm goroutine* is started and keeps the lock until it
ends. It normalises the window and has the comparer compare pairs of rows; matches go to
`resultsChannel` (capacity 1) in batches, an empty batch marking the end. The *results
goroutine* writes the batches to the file, and at the end marker the timeseries ids and
constant rows, and closes it. If the window is locked, the stride is dropped.

The *explorer* runs in a process of its own or in the same one and shares nothing with the
receiver but the directory of result files. Every three minutes its *scan goroutine* lists the
directory, the last written entry first. Files get a slot in the stride cache; one is read per
scan, three times over: names of the timeseries, subgraphs, and, in a later scan that finds the
stride's directory, edges, which go to one file per subgraph. The scan also removes files: those
of the older of two strides with the same id, those past their age, and those evicted. *HTTP handlers*
take a stride out of the cache, by id, by time or the latest, and answer from what was read of it and
from its edge files.

What is hard here: the window, its counter, the reporter's maps, `Tsids` and `ConstantRows` are
shared between goroutines with one lock among them; stride numbers are used again after an
overrun; vectors and buffers survive the stride they were made for; the end of a stride is a
message among others; an algorithm that fails leaves its stride open; and samples come late,
twice, with gaps or from the future. The explorer meets files that are being written, files of
earlier processes, and its own removals; its HTTP handlers read the cache and the edge files
without a lock while the scan changes them. `PROJECT.json` lists the hazards one by one with the line
where each bites and the properties that cover it.

## Modules

**`Accumulator`** — `lib/tsaccumulator.go`. `AddObservation` is one action with the code's three
ways out: `IgnoreBackfill`, `AddToStride`, `RollOver`. A roll-over does everything the code does
in one call: completes the rows, publishes, moves the interval, clears the buffers and stores the
sample that caused it. The call runs in one goroutine and nobody else writes its state, so one
action is right; its send blocks, hence the guard `bufferChannel = <<>>`. A cell of a row is the
set of samples its value was computed from, so that "this value belongs in this slot" can be said
at all. Time is in ticks: observations carry whole seconds (`observeTs` truncates), but the first
stride starts at `time.Now()`, so `Second` ticks make a second and the first stride may begin
between two. The five panics of the code are the variable `panicked`; two of them, on the length of the
row after it was filled (lines 203 and 209), cannot happen by the shape of `Stored`, so that `NoPanic` only says something
about the other three. Not modelled: values
(NaN becomes 0), the log, and which slice a value is in: that the published rows share no memory with those
that are filled next (`extractMatrixData` moves them) cannot be said of values.

**`StrideSource`** — what the accumulator promises its reader: one result at a time, disjoint
intervals that move forward, a number of rows that never shrinks. `Accumulator` implements it
(`ImplementsStrideSource`, checked and proved), and `Receiver` is composed with it instead, which
is what makes the composition small enough for TLC.

**`Window`** — `lib/tswindow.go`. `ShiftBuffer` has four outcomes (`ShiftBusy`, `ShiftNothing`,
`ShiftOnly`, `ShiftAndStart`); the first step of the algorithm goroutine that others could
disturb is a round of `normalizeWindow`'s loop, so that is an action. The two errors for a bad column count while the
buffer is appended (lines 109 to 122) are left out: past the checks of the buffer they cannot happen, as all rows
have one length then (`ShiftedShape`). `WindowHistory` feeds it any
buffers and remembers them.

**`Comparer`** — `lib/comparisons`. `Compare` has three outcomes: skipped for a constant row, no
match, match. The numerics are two answers: does the Pearson correlation reach the threshold, and
are the reduced vectors too far apart? The only link between the two is the one `Epsilon2` is
computed for (`settings.go:70`): of two correlated rows the reduced vectors are near — if they
are the reduced vectors of *these* rows. Each send waits for room. `ComparerHistory` drives it by
the protocol of `engine_api.go`, with failures, and remembers what was asked and received.

**`Reporter`** — a result file per stride number: its label, whether it has a writer, and what was
written. Creating the file may fail.

**`Receiver`** — extends the four above and adds the goroutines' own places and locals. A step is
what a goroutine does between two points where another one can see or change what it uses; the
results goroutine reads `Tsids` and `ConstantRows` in separate steps, and the buffer goroutine
numbers the stride, opens the file and shifts in separate steps. `ledger` records for the
properties what became of each stride (its window's interval, its matches, its outcome).

**`ResultFiles`** — what the receiver promises those who read its directory: result files come in the
order of their strides, are written and closed one after the other, and stay as they are then. `Receiver`
implements it (`ImplementsResultFiles`; the refinement mapping is `ContentOf`, what one sees of a file
from outside), and the receiver that `Explorer` has in its surroundings keeps to it.

**`Buckets`** — `lib/buckets/buckets.go`. One action per bucket, in the order of a Go map, that is
any; a failing comparison leaves the rest out. SVD values are integers in a unit that makes
`Epsilon1` one too, so that a bucket's index is the floor the code computes, also below zero.
The reference is the distance of the values: who is close must have been compared.

**`CorrelatedSets`**, **`Partition`** — the set reporter, and the abstract promise it implements: the
groups are the connected components of the pairs so far.

**`Subgraphs`** — `addPair` and the rows `GetSubgraphs` and `GetEdges` accept. A row of the file is a
match, in one of two directions, or a row about one timeseries. `added` records, for the properties,
the pairs seen.

**`Groupings`** — extends the two and sends the same matches down both ways: into the set reporter, and
into the rows of a result file (`extractRowsFromResult`, `RecordTimeseriesIds`, `AddConstantRows`),
which the explorer reads in three passes. That is how the two groupings, which share no code, can be
compared, and what the handlers answer from the result with the matches that went in. The constant rows
that end the file are any (`EndOfStride`): the receiver takes them from the window when it closes the file, and by then
the window may have those of the next stride, rows that were matched in this one among them.

**`Queries`** — what the HTTP handlers answer, as operators on a stride: its metrics, subgraphs and edge
files. They change nothing. `otherRowIds` leaves out the last of several ids, as the code does.

**`Explorer`** — the scan of `explorer/data_processor.go`. The body of its loop works on a world of
files, directories and cache, and its steps are operators on that world, in their order: `Superseded`,
`Expired`, `Cached` (with `Added`, the eviction), `WithDirectory`, which may fail: then the stride is given up
and the loop goes on. A step of the model is an entry of the directory. Reading a file and extracting its edges take minutes and end in steps of their own;
while they go on and between scans the receiver creates and writes files, time passes and the explorer
may be restarted. The loop itself is taken to be undisturbed: it takes no longer than a few removals.
Files grow by `WriteFile` up to the footer, in the order `ResultFiles` promises; one without footer
cannot be read. Of one run of the receiver they are finished in order, and none after the next run has begun to
write (`StillOpen`, `begun`): without this the proof of `NewestKept` has a counterexample, with two runs of the
receiver writing at once. `extracted` are the strides whose directory holds all their edge files. Ages are counted to just
past the larger of the two limits. A stride is identified by its start time; its id is not unique,
since the receiver counts from 1 again after a restart. What is read from a file is `Groupings`' matter.

**`Handlers`** — extends `Explorer` and `Queries` with one HTTP request: `GetCorrelatedSeries`, the one that
reads most, or `GetTimeline`, the one that goes through all slots. A step of it is one look at the cache,
or the look at one of its slots and the reading of its edges (`ReadSlot`; a stride that goes in between is
an error, and left out, like one that went before); `extendTimeline` looks at the cache again
and is a step of its own. Any steps of the scan may come in between: the stride the handler
holds can be superseded, evicted or expired, and its files removed. The handler keeps the pointer it took,
so what was read of a stride stays readable, but its edge files do not (`EdgesOnDisk`): it may find all, none,
or parts of them (`PartsOf`) while they are being extracted. `getLatestStride` finds a slot in one step
(`FindLatest`) and returns what the slot holds in another (`IndexLatest`). What the strides hold is a constant of the run.

A few definitions are followed by the one they are a faulty form of (`StoredNoGap` before
`Stored`). They stand for plausible bugs; `PROJECT.json` names which property notices which.

## What the runs show

| run | module, cfg | states | result |
|---|---|---|---|
| `accumulator` | `AccumulatorMC`, `Accumulator.cfg` | 272,315 | 6 invariants, append-only cells, refinement of `StrideSource` |
| `accumulator_max_rows` | `AccumulatorMC`, `AccumulatorMaxRows.cfg` | – | violation: `RowsHoldOwnSeries` |
| `window` | `WindowHistory`, `WindowHistory.cfg` | 8,539 | window is the suffix of its history, full and stable under a computation |
| `comparer` | `ComparerHistory`, `ComparerHistory.cfg` | 21,975 | batches disjoint, complete at the end marker, which is the last |
| `comparer_stale` | `ComparerHistory`, `ComparerStale.cfg` | – | violation: `CorrelatedReported` |
| `receiver` | `Receiver`, `Receiver.cfg` | 220,554 | files hold exactly their matches, nothing written after close; refinement of `ResultFiles`; every stride ends, the window is released |
| `receiver_race` | `Receiver`, `ReceiverRace.cfg` | – | violation: `OneReporterGoroutine` |
| `receiver_label` | `Receiver`, `ReceiverLabel.cfg` | – | violation: `FilesEndWithTheirWindow` |
| `buckets` | `BucketsMC`, `Buckets.cfg` | 90,716 | close rows are compared, no pair twice |
| `groupings` | `Groupings`, `Groupings.cfg` | 4,931,621 | both groupings are the components, they agree; sizes, edge files and answers exact |
| `explorer` | `ExplorerMC`, `Explorer.cfg` | 1,052,482 | strides offered are on disk, one slot each, the newest is kept, all are dealt with |
| `handlers` | `HandlersMC`, `Handlers.cfg` | 1,116,120 | answers are right or errors; timelines are true, and complete if nothing changes meanwhile |

Bounds, and why they are enough:

* `accumulator`: three timeseries and room for two rows, so that there is one past the limit while
  two rows can differ; strides of three slots, the least with a gap *inside* a row that
  has samples on both sides; seconds 0 to 6 at two ticks each, which gives room for two full
  strides and a roll-over that skips time; a start on and between two seconds. A slot is one
  second long there; the proof covers longer ones.
* `window`: three columns, strides of two (so the window is not a multiple of the stride and the cut
  falls inside a stride), buffers of zero to three rows in any order, ragged ones, one that is too
  wide; five shifts, the number it takes to fill the window, grow it and be refused during and
  after a computation.
* `comparer`: three rows (three pairs) with batches of two: a full batch, a leftover and an empty
  leftover all happen; two strides, with a failure possible in the first.
* `receiver`: two rows, windows of two strides, four stride results. That is the least with which a
  stride can be dropped for a busy window and the number be used again by one that then runs, and with
  which one stride can be opened while another is computed and a third is closed. One
  pair of rows means one batch of matches per stride, and no row is constant (`MayBeConstant`); several
  batches per stride, and pairs skipped for a constant row, are the `comparer` run's matter.
* `buckets`: three rows in two dimensions: a corner has two, and a third row makes buckets of two.
  Values -1 to 2 with buckets of width two give three indices in a row, -1, 0 and 1, so that there
  are buckets that do not touch. The proof covers the rest.
* `groupings`: four timeseries and four matches: two pairs that a third connects, in either direction
  of the numbers, and a fourth within the result. Panels show three edges and two correlates at most, so that
  there are subgraphs just within and past both limits. Any of the timeseries are constant in the file, matched or not. Its `CHECK_DEADLOCK FALSE` is for the end of the passes.
* `explorer`: a cache of two and three strides, so that there is an eviction; ids 1, 2, 3 or 1, 2, 1, where
  the third is a new receiver's; files are kept for ever, or for one tick; giving up after zero ticks, so
  that a file can fail once while young and again when old; one restart, but not with both ids 1, 2, 3 and
  expiry; and of the three strides only the first, the one that the third may supersede, can be refused
  its directory (`handlers` has no such bound).
* `handlers`: the same with ids 1, 2, 1, expiry after one tick and no restart, which ends all requests.
  Requests are for timeseries 1. It is correlated with 2 in the first stride, with 2 and 3 in the second,
  and unknown to the third, so that the timeline has points that stay, points that come later and a
  stride that must not have any but zeros. Two strides are in the cache at a time. The world stands still
  once the request is answered, when nothing that the properties speak of can change any more; and only the file of the second stride is ever
  found half written, which makes its reading fail and be retried (`explorer` has no such bound).

`CHECK_DEADLOCK FALSE` stands where the model stops because its bounds are used up. The
`accumulator` run checks deadlock: the accumulator can always go on, since its reader can always
take what blocks it.

Fairness. The three goroutines of the receiver are loops without a condition under which they
stay away: the Go scheduler runs a goroutine that can run, so each has weak fairness as a whole
(`WF_vars(BufferStep)` etc.). Nothing is assumed of the accumulator: samples may stop coming. A
computation may fail at any time between two comparisons, but no fairness makes it. Of the
numerics it is assumed that a comparison returns.

The explorer's scan is driven by a ticker in a goroutine that does nothing else: it goes on for ever
(`ScanGoesOn`, which says what `WF_vars(ScanStep)` would, as some scan step is always possible and always
moves the scan). Time passes (`SF_vars(Tick)`: strong, because ticks are kept out of the loop). Nothing is
assumed of the receiver, which may leave a file unfinished. With `CompleteFilesSettle` goes one
restriction of the model: a stride's row groups are written in one step. A file that was written to again and again
for ever would be the first in every scan and the others would wait for ever.

### Findings

* `accumulator_max_rows`: `settings.go:57` says that timeseries past the first `MaxRows` are
  dropped. They are not: the failed lookup leaves row 0, so their samples fill the slots of another
  timeseries that have no sample yet (`tsaccumulator.go:167`). `SeriesSeparate` shows that this is
  the only way timeseries are mixed.
* `comparer_stale`: reduced vectors are computed once per row and kept from stride to stride
  (`in_process_comparisons.go:41`), so that from the second stride on correlated pairs can be
  dismissed by the distance of old vectors.
* `receiver_race`: `InitializeStride` writes the reporter's maps from the buffer goroutine
  (`receiver.go:217`) while the results goroutine reads them, contrary to the comment at line 243.
* `receiver_label`: the file is created before `ShiftBuffer` can refuse the stride. Its number is used
  again, and the next window's results go to a file that is labelled with the end of the window that
  was dropped. The start is right (`FilesBeginWithTheirWindow`) as long as a window is
  a multiple of the stride and longer than one.

Met while modelling, without a run of their own:

* `explorer.go:770` and `:882` take `metricRowIds[1 : len(metricRowIds)-1]` for the ids an answer is limited
  to, where the comment above says "to just these": the last one is left out, and two ids limit nothing.
* The limit `MAX_GRAPH_SIZE` is for drawing (`explorer.go:149`), but `retrieveCorrelatedTimeseries` uses the same
  `retrieveEdges`: the timeseries of a larger subgraph are shown without any correlates, and the timeline has
  zeros for them. `CorrelatesExact` states exactly that.
* The constant rows in a file can be those of the next window: the lock is released when the algorithm ends, and
  the results goroutine reads `ConstantRows` after that (`receiver.go:265`). A timeseries that was matched and is recorded as
  constant keeps its subgraph and its edges, but its own panel is empty (`data_processor.go:304`) and its history shows -1, while
  it is a correlate of its partners. `CorrelatesExact` and `AnswersAgree` state this for any constant rows.
* A stride that does not know a timeseries is left out of its timeline (`explorer.go:784`), but gets zeros for
  series that are new in a later slot (`extendTimeline`): whether it appears depends on the order of the
  slots. `TimelineComplete` allows for it.
* `extendTimeline` fills in zeros in the slots up to that of the stride in hand. If the scan has replaced or
  superseded the stride by then, the loop does not find it and goes through all slots: later strides get a zero
  for a timeseries and then a second point from their own turn (`explorer.go:722`). `Handlers` has these
  behaviours; `TimelineTrue` says what can still be relied on, `TimelineComplete` what holds with the cache left alone.
* Of three strides with one id, after two restarts of the receiver, two can be offered at once
  (`data_processor.go:136`, the loop stops at the first slot with the id, deleted or not), and a timeline of both
  has gaps. `OfferedIdsDiffer` says that two strides with one id are always kept apart.
* `getLatestStride` can return a stride that is not processed, or nil in the middle of its loop, when the scan
  replaces the entry it found (`data_processor.go:571`, `575`).
* On an interrupt the process neither flushes the reporter nor reaches the explorer's server, whose variable is
  shadowed (`app.go:149`, `177`).

## What is proved

### The accumulator

`AccumulatorProofs` proves, for any set of timeseries and timestamps, any stride, any slot length of at
least a second, any start and any limit of rows:

| theorem | of `Spec` |
|---|---|
| `TypeCorrect` | `[]TypeOK`: among others, the channel never holds more than one result |
| `RowsResolve` | `[]RowIndex`: a row id always resolves to its timeseries |
| `SamplesAlign` | `[]SlotsAligned`: a cell stands in the slot of its sample or between its two |
| `StridesDisjoint` | `[]PublishedWithinStride` |
| `NoMixedSeries` | `[]SeriesSeparate` |
| `PanicsUnreachable` | `[]NoPanic` |
| `CellsFinal` | `AppendOnly` |
| `AccumulatorIsStrideSource` | `ImplementsStrideSource` |

The argument. None of the invariants is inductive alone: a published row is full (`Completed`) only if
the buffer it comes from is no longer than a stride, which `SlotsAligned` says; no check panics only if
the row map and `Tsids` agree and rows do not reach past the slot, which `RowIndex` and `SlotsAligned`
say; a row only stays with its timeseries if the row map is injective. `AccInv` is the conjunction of
the six, and `Invariance` proves it inductive: `AccInvInit`, and `AccInvStep` with one lemma per action.
What `Store` does to the rows is factored into lemmas that do not know the state: `StoredRow` (the shape
of the new row), `StoredAligned` (it stays aligned), `StoredHoldsOnly` (and of one timeseries),
`CompletedRow`, `SlotRange` (an instant of the stride has a slot of the stride: the one place where the
slot length of at least a second is needed), `ResolveRowStep` (row map and `Tsids` stay inverse).
`CellsFinal` and the refinement follow from the invariant step by step.

Assumptions: only `AccumulatorAssumption` (numbers are numbers, at least one slot, a slot of at least a
second). That a slot is a second or more holds because `SampleInterval` is an `int` of seconds and
`ComputeSettingsFields` replaces 0.

### The window

`WindowProofs` proves of `HistorySpec`, for any window, any stride that is no longer than it, and any number of
rows and shifts (`WindowAssumption`, `WindowHistoryAssumption`):

| theorem | |
|---|---|
| `WindowsAreFull` | `[]ComputesFullWindow` |
| `WindowIsStable` | `WindowStableWhileRunning` |
| `RowsAreKept` | `WindowOnlyGrows` |
| `WindowEndsHistory` | `[]WindowIsSuffix` |

The invariant `WindowInv` has three parts that need each other. `LockedWhileRunning`: the lock is held exactly
while there is an algorithm goroutine, and the window is full then; it stays full because no shift gets past the
lock. `NormalizedSoFar`: the rows normalised so far are copies of the window's, and there are never more of them
than rows; hence the loop's last round makes them equal (`NormalizeStep`), which without the bound would leave rows
of an earlier stride behind. `WindowShape`: the rows have one length, at most the window's. `ShiftedShape` is the
arithmetic of the shift: whatever is cut off and padded, all rows come out equally long, and full if the code says
that the window is; `AcceptedInput` says that the buffers the code lets through are the regular ones that have a
row for each of the window's. The buffers are those of `Inputs`: regular ones of any number of rows, ragged ones, one
that is too wide.

`WindowEndsHistory` says what the window holds, and needs more than its shape. `SuffixCells` states it cell by cell: the
window is as wide as all that was shifted, or full, and column c of a row is the column of the history that lies
as far from its end, zero where the buffer did not have the row yet; `HistoryRows` says that no buffer had more
rows than the window has now. A shift keeps this (`SuffixShift`) for two reasons: what is left of the old columns
and the new ones stand where they should (`ShiftedCells`), and a buffer that is appended
adds its columns to the history and leaves the earlier ones alone (`CellsOfAppend`), which is a matter of
quotients and remainders by the stride (`DivisionUnique`, `DivisionBelow`). `SuffixOfCells` goes back from cells to sequences.

### The subgraphs

`GroupingsProofs` proves of `GraphsSpec`, for any finite set of timeseries (fingerprints are naturals:
`FingerprintAssumption`) and rows of a file in any order:

| theorem | |
|---|---|
| `GraphsTypeCorrect` | `[]GraphsTypeOK`: subgraphs in use have numbers below the next |
| `SizesAreExact` | `[]SizesExact`: sizes are the numbers of rows, and exactly the subgraphs in use have one |
| `SubgraphsAreComponents` | `[]GraphsAreComponents`: they are the connected components of the pairs read |

The three together are inductive (`GraphsInv`), and need each other: that a new number is not in use is
`GraphsTypeOK`, that the sizes of the two graphs that are merged exist is `SizesExact`. There is a lemma
per case of `addPair` for the sizes (`NewGraphSizes`, `JoinGraphSizes`, `MergeGraphsSizes`: the merged
graph's members are the disjoint union of both). For the components, `SharingKept` says that `addPair` only
ever brings rows together, and `SharingCaused` that two rows share a graph afterwards only if they did
before or the new pair connects their graphs.

### The buckets

`BucketsProofs` proves of `BucketsSpec`, for any number of rows and dimensions, any width of the buckets
and any integer values:

| theorem | |
|---|---|
| `CandidatesAskedOnce` | `[]CandidatesOnce` |
| `NoCloseRowsMissed` | `[]CloseRowsAsked` |

`isLeftNeighbour` orders buckets that touch by their first different coordinate. `OneSided` says that at
most one of two has the other for its left neighbour, `SomeSide` that one of them has; it takes the least
coordinate in which they differ (`Least`, from the well-foundedness of the naturals). `NextBucket` is the
arithmetic of the floor: values at most `Epsilon1` apart are at most one bucket apart. From these,
`CandidateOnce` and `CloseRowsAreCandidates` say of the candidates what the theorems say of the requests,
and the invariant `BucketsInv` ties the requests to the buckets visited: what was asked is a candidate of a
bucket visited, once; and all candidates of those were asked, unless a comparison failed. The assumption is
`BucketsAssumption`: `Epsilon1` is positive.

### The comparer

`ComparerProofs` proves of `HistorySpec`, for any number of rows and strides and any size of a batch
(`ComparerAssumption`, `StridesAssumption`), with failures possible at any comparison:

| theorem | |
|---|---|
| `NoMatchSentTwice` | `[]BatchesDisjoint` |
| `EndMeansComplete` | `[]StrideComplete` |

Neither says where a match is between being found and being sent. `CurrentMatches` does: those of the current stride
are in the batches sent or in the buffer and not in both, which also says that a leftover is all that is left.
That the buffer is kept when the leftover is sent does no harm, because the stride is over then. `CurrentIsLast`: batches are only
sent for the last stride, and its end marker only when the algorithm is done with it, so that whatever comes
after an end marker is of a later stride. `PairsOfAppend` says what a batch adds to the matches sent of a stride,
`FindingKeeps` and `SendingKeeps` that finding a match and sending a batch keep the invariant.

### The receiver

`ReceiverProofs` proves of `Spec`, for any timestamps, window, stride, number of rows and size of a batch:

| theorem | |
|---|---|
| `RowIdsAlwaysResolve` | `[]RowIdsResolve` |
| `ClosedFilesStayClosed` | `[]NoWriteAfterClose` |
| `FilesAreExact` | `[]FilesHoldTheirMatches` |

Their one hypothesis, `UnboundedStrides`, is that files and ledger are kept for every number the stride counter can
take; TLC has four of them. The interval of a window plays no role in these three, so nothing
is assumed of `Timestamps`.

`ReceiverInv` follows rows and matches on their way. *Rows*: `RowsKnown` says that no part has more than the
one it gets them from, back to the accumulator, and `RowsStep` keeps it. *Numbers*: `StrideNumbersAgree`
ties the window's counter, the comparer's stride and that of the stride in hand to the places of the goroutines;
that a stride is opened while the previous one is computed is in there. *Matches*: a match of a stride is in the
comparer's buffer, in the channel, with the results goroutine or in the file (`MatchesAccounted`), and what
is in one of these places was found for that stride (`MatchesKnown`). `BatchesInOrder` says that these places
are passed in the order of the strides, and `EndedIsOver` that nothing of a stride follows its end; without them a late batch
might be written to a closed file. `IdsCover`: the timeseries ids written before the
file is closed are enough for its matches, since the results goroutine takes them after the last match was found. All but the
first two are `Downstream`; the lemmas `QuietStep` (a step that leaves channel, buffer and files alone),
`KeepStep` (a match goes into the buffer) and `SendStep` (a batch goes out) keep it for most actions.

It also proves, under the same hypothesis, that the receiver implements `ResultFiles`
(`ReceiverIsResultFiles`: `ImplementsResultFiles`). What that needs beyond `ReceiverInv` is `FilesInv`: no file has
been opened past the next stride (`FilesOpened`), so that a new one is the last; what was begun is no later than any
batch under way (`BegunInOrder`), so that files are written in turn;
and timeseries ids are in a file before it is closed (`RowsAtTheEnd`, with `RowsExist`: there is a row, or no
window would be computed), so that no empty file is. `KeptStep` keeps it and shows each step as one of `ResultFiles` or none
(`ReaderSees`, `Content`). `FilesInv` was checked with TLC on the instance of the `receiver` run too.

Last, `FilesAreLabelled` (`[]FilesBeginWithTheirWindow`). The label of a file is looked up by a stride number that the
buffer goroutine guesses before it shifts, while the window's columns carry the time they were sampled at. `LabelInv` ties the two:
the columns of the window are those of the last strides the counter counted, back as far as it is filled
(`WindowDated`), the start in hand is noted under the next number (`StartsNoted`), and files and ledger have the start of
the first stride of their window (`LabelsDated`). `RowsForward` says that a result never has fewer rows than
the window, so that a shift is never refused after its file was labelled for a reason other than the lock. A shift
moves the columns by one stride (`WholeFacts`: a window is a whole number of strides, which the property
supposes as well). It was checked with TLC for a window of two strides of one slot and one of three strides of two.

### The set reporter

`GroupingsProofs` proves of `Spec` in `Groupings`, for any timeseries and any number of matches:

| theorem | |
|---|---|
| `SetsAreComponents` | `SetsImplementPartition`: the sets are the connected components of the pairs so far |
| `NoPairLost` | `[]PairsKept` |
| `GroupingsAgree` | `[]GraphsMatchSets`: the explorer's subgraphs are the set reporter's sets |
| `EdgeFilesAreExact` | `[]EdgeFilesExact`: each correlated pair is in the edge file of its subgraph, once |
| `CorrelatesAreExact` | `[]CorrelatesExact`: the answer about a timeseries is its partners, or as many as are shown; nothing if the file calls it constant |
| `AllAnswersAgree` | `[]AnswersAgree`: the panels agree with each other about every timeseries, constant or not |
| `GroupingsInvariance`, `AnswersInvariance` | the inductive invariants `GroupingsInv` and `AnswersInv` |

The invariant `SetsInv` says that sets have no row in common and that the pairs of a set are among its members (`SetsApart`), and that
all pairs so far are in sets (`PairsInSets`). Hence a row has one home at most (`HomeFacts`), and the first set that
`addCorrelatedPair` finds is the only one. Each of its cases has a lemma (`NewSetStep`, `AddToSetStep`, `MergeSetsStep`)
that says what it does to the sets as a whole (`PairAdded`), which is what `Partition` asks for.

The two results about the file need to know what is in it, and what the explorer has read: `FileHasMatches` (the
rows that are edges are the matches, each once, in some order; what `EndOfStride` appends is about one timeseries),
and `PassesRead` (the pairs read so far are those of the rows up to `position`, each in both directions). Then the sets are the
components of the matches, the subgraphs those of the pairs read, and the two relations are the same
when all rows were read (`GroupingsInv`). For the edge files `EdgesInv` says which rows up to
`position` are in which file, each once (`EdgesListed`); `Rows` does not change in this pass, so that an edge stays in the file of its subgraph.

The answers need three things more. `MetricsInv`: every timeseries has a row about it, and the metrics are what the rows read
so far say; so a lookup is never refused, and cut short only for what the file calls constant (`RecordedConstant`). Nothing is
supposed of which rows these are. `PlacesArePartners`: the places of a timeseries in the edge file of its subgraph lead to its
partners, one each, so that counting places counts partners. `FirstOfCounts`: what the loop takes before it has enough is all there is, or exactly
as many as are shown. The last is an induction over the places in disguise: it takes the least place up to which
there are enough (`LeastPlace`, from the well-foundedness of the naturals). `CorrelatesAtEnd` puts them together.
That the panels agree needs `TreeBound` besides: a subgraph has at most one timeseries more than it has pairs that join it. Each case of
`addPair` keeps it for a reason of its own (`TreeNewGraph`, `TreeJoinGraph`, `TreeMergeGraphs`: two subgraphs become one
by a pair that is new). By it, a subgraph whose edges are few enough to be drawn has at most one node that is not
shown, and then it is a tree. The limits are positive (`QueriesAssumption`; in the code they are literals). `MetricsInv`
and `TreeBound` were checked with TLC on the instance of the `groupings` run first. `AnswersInv` is the conjunction.

### The explorer

`ExplorerProofs` proves of `Spec` in `Explorer`, for any number of strides with any ids, any size of the cache from 2
on, any limits of age and any number of restarts (`ExplorerAssumption`):

| theorem | |
|---|---|
| `LatestFileStays` | `NewestKept` |
| `OfferedIsServable` | `[]OfferedStridesServable` |
| `OneSlotPerStride` | `[]StrideCachedOnce` |
| `ExplorerTypes` | `[]TypeOK` |
| `OfferedIdsDiffer` | `[]OfferedApart`, if no id is used by more than two strides (`IdsAtMostTwice`) |

A scan step is a composition of operators on worlds, and the proof follows it: each operator makes a good world
of a good one (`Good`: types, used slots first, no stride twice) and is a `Tended` step, which takes away only files
that may go: superseded, too old, or evicted as the oldest of a full cache.
For the first and the last, all that the cache shows is that a later stride was *begun* (`Removable`, `Later`); `NewestKept` asks for
a later *file*. `LaterIsThere` closes the gap: where a later stride was begun, one still has its file,
unless the file in question is too old itself. Removing keeps this, because the
last of these later files has no later stride and cannot be removed before it is too old (`ThinnedKeeps`, with `LastStride`), and then
the older file is too old as well: `LaterIsYounger`, for which the order in which the receiver finishes its files is needed.
`Servable` is what `OfferedStridesServable` needs of files, directories and slots in every world between.

`OfferedIdsDiffer` is about twins, two strides with the same id, of a receiver and of the next. `OfferedApart` says that
no two of them are offered at once, and that what is offered has all its edge files; a handler looks slots up by id and relies on both. The
invariant `Tidy` says where the older twin is when both are cached: its file is gone, and its slot is neither read nor
processed. `SupersededTidies`, `AddedTidies` and the like carry it through the operators of the scan; the lemmas
about steps (`VisitEntryTidies` and on) say that it holds again at the end of each, though not in the middle of one, when a later twin
has got its slot and the entry in hand is not done with. The hypothesis is needed: with five strides, three of them of one id, TLC
finds two that are processed at once. The slot of the first, marked deleted, keeps its id, the loop stops at it
(`data_processor.go:136`), and the second twin is never compared with the third. Two strides of an id is a receiver that was
started anew once; the invariant was checked with TLC on four strides
of two ids, and on three with a restart of the explorer.

The proof changed two things of the model. `TypeOK` used to say that what was extracted has a directory; that is false,
though not on the run's instance: an entry that is superseded is still processed after its directory is gone, and a
stride without edges needs none. And the receiver's files were written in any order, with which `NewestKept`
fails for two runs of the receiver at once; `StillOpen` now says what `ResultFiles` promises.

### The handlers

`HandlersProofs` proves of `HandlersSpec`, a request among the steps of the scan, for any number of strides with any ids
and any contents, any size of the cache from 2 on and any limits of age:

| theorem | |
|---|---|
| `AnswersAreRight` | `[]AnswersRight` |
| `TimelinesAreTrue` | `[]TimelineTrue` |
| `TimelinesAreComplete` | `[]TimelineComplete`, if no id is used by more than two strides (`IdsAtMostTwice`) |

No lock protects a request from the scan. It keeps a pointer to a stride and reads the stride's edge files whenever it comes to
it; meanwhile the stride may be superseded, its slot taken, its directory removed. The answer is right because of `Held`: once a
stride was processed, its edge files are all there or none is, and if none is, none comes back. For none to
come back the stride must not be processed again; it is not, because its result file has gone before its directory,
or is the next to go in the same loop (`Going`). That in turn depends on two ages. The directory is written after the file,
so that the file is too old first or at the same time (`DirectoriesYoung`); and the loop decides by the ages the entries had
when it began (`LoopInv`). `OfferedHeld` says that every processed slot holds such a stride: a request takes
nothing else. `KeepsHeld` carries it through every operator of the scan.

On the request's side `PlaceInv` says that the stride in hand is held, from the moment it was checked.
For the timeline, `PointsInv` says of each point that shows a correlation that it is right, the only one of its kind,
and that the loop has passed its stride's slot (`UpTo`); `ReadStrideInv`
that the stride being read has no such points yet, although the slot may hold another one by the time its points
are added. A stride cannot come back in a later slot once its own was passed, since it would have to be
processed again. `HandlersInv` is the conjunction of these with `ExplorerInv`; TLC finds it true in all
states of the run `handlers` as well.

A timeline is complete because it is so slot by slot (`TimelineInv`): of the strides in the slots that it has passed, it
has every point there is to make about the timeseries known so far, once, and none of any other stride
(`CompleteFor`). Extending it by a stride with an answer keeps this (`ExtendingCompletes`) because the zeros that the code fills in are for
exactly the strides that were passed. It finds them by the id of the stride in hand, going through the slots until it meets it:
these are the right slots only if no earlier one has the same id (`EarlierArePassed`), which is what
`OfferedIdsDiffer` says. With three strides of one id the earlier of two offered slots gets no zeros, and the
timeline has gaps. A stride without an answer has no correlates and leaves the points as they are (`NoAnswerNoCorrelates`); a processed
stride has all its edge files, so that what `ReadSlot` finds is what there is. As long as the request is calm, nothing that is
offered changes (`CalmStepCompletes`). The hypothesis holds of the constants of the run `handlers`, where `TimelineInv` was checked
in all states as well.

### Only model-checked

* `TimelineComplete` and `OfferedApart` for ids that are used more than twice: they are false then, see above.
* Liveness (`StrideEnds`, `WindowReleased`, `CompleteFilesSettle`): TLAPS proves nothing under fairness here.

## Not modelled

Floating point (PAA, SVD, Pearson), Parquet encoding, remote-write decoding,
metrics, log lines, deployment files. Failures of a single write to an open file are logged by the
code and otherwise ignored; the model has the failure to create a file, after which all writes fail.
Of the HTTP handlers, `GetTimeseries` (a query to Prometheus) and `DumpMetricCache` (a dump to a file) are left
out; of the others only `GetCorrelatedSeries` and `GetTimeline` are interleaved with the scan, since the rest
read less in the same way. Failures to list the directory, to remove a file or to read a complete one are left out; that the directory of a
stride cannot be made (`data_processor.go:199`) is modelled.
The process's start and interrupt are a few calls in a row with no state to check; what is wrong with the
interrupt is said under the findings.
The batch tool in `main` runs the same window and comparer without concurrency.
The Go memory model is not modelled: a shared variable read during a write is a race there, and the
models only show between which steps it can happen.

## Plan

Done: accumulator, window, comparer, reporter, receiver, buckets, sets and subgraphs, explorer, handlers; proofs of
the accumulator, the window and its contents, the comparer, the receiver with its files and labels, the set reporter, the
subgraphs, the agreement of both, the edge files and the answers made from them, the buckets, the explorer's scan and the
requests among its steps, timelines included.
Next, in this order:

1. *A third stride of an id*: with it two of one id can be processed at once, because a stride marked deleted
   keeps its slot and the loop stops at the first of an id (`data_processor.go:136`). The runs have three strides; one
   with five would show it, and what of `OfferedIdsDiffer` is left then.
2. *Constant rows*: a file should record the constant rows of its own window; `WriteConstants` already
   reads them when the code does.
3. *Refinement*: the surroundings of `Explorer` as an instance of `ResultFiles` with removals.
