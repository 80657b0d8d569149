# Verification of qbit-history

qbit-history polls qBittorrent servers and keeps the history of every torrent's
speed and counters in one SQLite file, within a byte budget and a retention
time. This directory holds TLA+ models of the parts of it where the order of
steps decides whether history is kept, lost, duplicated, deleted or read
correctly, and of the arithmetic that turns samples into charts; the TLC
configurations that check them; and TLAPS proofs that what those runs check of
a small instance holds of every size, limit and schedule.

    tlc -workers 2 -config PipelineRemoval.cfg MCPipeline    # one run
    tlapm PipelineProofs.tla                                 # the proofs of one module

Runs in one directory are started one after the other. `PROJECT.json` lists
components, runs, mutants, the source lines of every definition, findings,
hazards and theorems. Paths below are relative to `src/`; those that begin
with `store/`, `collector/`, `query/` and so on to `src/internal/`.

## 1. Inventory

One process. Per connection one *collector* goroutine runs a round every few
seconds; one *writer* goroutine (`Manager.RunWriter`) calls `Step` every second;
HTTP handlers call the manager and the store; `main` performs a last flush when
it is told to stop. They share the `Queue` (its own mutex), the `Store` (one
write connection, so that transactions are serial, and a lock for settings and
flags) and the manager's maps.

    qBittorrent --> upstream.Client --> Collector --Push--> Queue --Flush--> Store.Append
                                          |  |                |                |
                              Lifecycle --+  +--Barrier-------|--------------> tombstone
                                                       Invalidate     frames -> block -> summary
    HTTP API --> Manager.Reload / Remove / Approve             \          |
             \-> query: blocks + frames + buckets + Queue.Tail <-----------

| Component (source) | State | Operations | What is hard | What makes it correct |
|---|---|---|---|---|
| Queue (`store/queue.go`) | pending, inflight, bytes, oldest, dead | Push, Invalidate, Flush, Tail, Stats | two flushers at shutdown; Invalidate during a flush; the byte budget; discard by age | the counter is exact; nothing behind a barrier is queued; Tail misses nothing that is not committed; only stale samples are discarded |
| Ingest and raw storage (`store/history.go` Append, Raw) | `ingest_frame`, `series_block` tier 0 | Append, Raw | late batches, tombstones set during a flush, retried batches, rollback | a sample is stored at most once; nothing is written behind a barrier |
| Sealing and tiers (`store/history.go`) | frames, blocks, `rollup_open`, summary blocks | SealRaw, sealOne, SealSummaries, sealSummary, Cleanup | selection without a lock, LIMITs and backlog, undecodable frames, crashes between tiers | no window is lost or doubled on its way down the tiers |
| Delete barrier and generations (`store/store.go`) | series, torrent, tombstone, instance rows | Barrier, RemoveInstance, EnsureTorrent, Torrents, GlobalSeries | a removal that fails or crashes half-way, samples still queued | a removed series never gets payload back and is emptied in the end; a torrent added again is a new series |
| Deletion lifecycle (`collector/lifecycle.go`) | candidates with evidence, protection, bulk, approved | Protect, Missing, ObserveFull, Ready, ConfirmationDue | evidence over many rounds, failures, restarts and reloads; lists that lie | history is deleted only on the documented evidence, a bulk loss only with the user's approval |
| Collector (`collector/collector.go`) | known, cache, epoch, seq, cooldown, failures, lifecycle | Tick, apply, fail, Approve, Persist, New | full and delta answers, clock jumps, failures, barriers that fail | its torrents are the database's; continuity is never claimed over a gap |
| Manager (`collector/manager.go`) | workers, snapshots, cached statistics | Reload, StopCollectors, Remove, Flush, Step, RunWriter | Reload, Remove and the writer run concurrently | one collector per connection; a removed connection is not sampled |
| Process (`cmd/history/main.go`) | – | start, SIGTERM | the last flush runs beside the writer's | nothing accepted and committed is lost |
| Rollup (`rollup/rollup.go`) | pure | Build, ToFive, Merge, Flatten | partial windows, gaps, counter resets, zero weights | a bucket of a window equals the merge of the buckets of its parts |
| Codec (`codec/raw.go`, `docs/codec.md`) | pure | Encode, Decode | column order, delta overflow, runs | decoding is the inverse of encoding |
| Query (`query/query.go`) | pure, reads Store and Queue | Get, thinning, ranges | a flush or a seal between two of its reads | no sample missing or doubled in an answer; thinning keeps extremes |
| Upstream (`upstream/client.go`) | cookie, rid | Login, Sync, Add/Remove probes | re-login inside a round, full answers nobody asked for | a delta is merged into the cache its rid belongs to |
| Space guard (`store/usage.go`) | Paused, PauseReason, ClockHold | CheckSpace, SetWriteError, HoldClock, Forecast | hysteresis against maintenance and the log | a paused store resumes when room is made, and does not flap |
| API and sessions (`api/api.go`, `store/auth.go`) | sessions, settings, instance rows | create, patch, delete, settings, login | checks before locks | one row per address; retention is not cut and nothing purged without confirmation |
| Security (`security/security.go`) | key file | encrypt, decrypt | – | library calls; not modelled |
| Mock server (`mockqb/mockqb.go`) | list, what is not reported yet, session | login, sync/maindata, torrents/info | – | stands for qBittorrent in `Sync` |
| Benchmark, web interface | – | – | – | not part of the recording system; not modelled |

The hazards of this code, each with its line and the properties that look at it,
are in `PROJECT.json` under `hazards`; those no property covers carry a note.

## 2. Modules

| Module | Models |
|---|---|
| `History` | what the write path promises its readers, without its machinery |
| `Pipeline` | the write path of one connection: collector rounds, queue, frames, blocks, barriers, cleanup, shutdown, restart |
| `Reading` | a chart request beside it (EXTENDS `Pipeline`) |
| `Lifecycle` | the deletion rules, as operators on a lifecycle record |
| `Deletion` | one collector against a qBittorrent whose list changes, with those rules (EXTENDS `Lifecycle`) |
| `Sync` | one collector's copy of the list, over login, full and delta answers |
| `Connections` | concurrent requests to create, change and delete connections and settings, and the manager's collectors |
| `Tiers` | windows on their way from frames to blocks to summaries, and their expiry |
| `Space` | budget, page limit, log, free space, and the pause |
| `Rollup`, `Charts`, `Codec` | pure: buckets; curves, sums and thinning; the columns of a block |
| `Algorithms` | samples, tables and curves that grow, for those three (EXTENDS `Charts`, `Codec`; `Charts` EXTENDS `Rollup`) |
| `PipelineProofs`, `DeletionProofs`, `SyncProofs`, `ConnectionsProofs`, `TiersProofs`, `SpaceProofs`, `AlgorithmsProofs` | theorems about the module each is named after (`PipelineProofs`: about `Reading` too) |
| `ArithmeticProofs` | theorems about the operators of `Rollup`, `Charts` and `Codec`, on which `AlgorithmsProofs` builds |
| `MCPipeline`, `MCDeletion`, `MCConnections`, `MCTiers`, `MCAlgorithms` | symmetry sets, views and input sets for TLC |

### Pipeline

A sample is its identity (series, epoch, sequence number, time); what it
measured never decides anything on this path. The actions are the atomic steps
of the code:

* *Collector.* `Round` begins an answered round of `Collector.Tick`/`apply` and
  fixes the torrents it has seen; `PushSample` is one turn of the sample loop
  (EnsureTorrent and Queue.Push, the connection's own series last), so every
  other goroutine can step between two pushes. A round while persistence is
  paused runs the same loop without pushing ("look"). A clock that jumped
  begins a new epoch within the round, and a jump ahead suspends expiry
  (`hold`); `RoundFails` is `fail`. `ConfirmDeletion` and `ForgetTorrent` are
  the committed Barrier and the Invalidate after it, with everything else
  allowed in between. `Reload` is StopCollectors and a new collector.
* *Removal.* `Remove`, `PurgeQueue`, `RemoveInstance`, `BarSeries`, `Removed`
  and `RemoveFails` follow `Manager.Remove`: the queue first, then one barrier
  after the other; a failure leaves a connection without a collector
  ("stopped"), from which a reload or a second removal can start.
* *Flush.* `FlushBegin`, `AppendCommit` or `AppendFail`, `FlushEnd`, by the
  writer loop and, in "halt", by `main`; both use the one `inflight` map.
  `Refused` has the three reasons of Append: tombstone, block already sealed,
  frame with the same key (INSERT OR IGNORE).
* *Maintenance.* `SealSelect` is the SELECT of SealRaw, outside the write lock;
  `SealOne` its transactions, earliest window first; `SealAbort` the error or
  shutdown that ends the call; `Cleanup` the three deletions of a round and the
  cleaned flag.
* *Process.* `Shutdown` is SIGTERM; `Restart` the end of the process at any
  point, before or after it, and the next start.

What the source never lets happen is not left out by guards of convenience:
`RoundFails` may come in any round, `Restart` at any point, the clock may move
between any two steps.

Abstractions. A commit is atomic and survives the end of the process (SQLite in
WAL mode); loss of the machine, against which `synchronous=NORMAL` gives no
promise for the last commits, is not modelled. A new epoch is a new number (the
code draws a random one). The byte budget counts samples. Rounds skipped before
they get an answer, which only advance `seq`, are omitted. There is one
connection: different connections share the queue's budget and the LIMITs and
nothing else. Undecodable frames are in `Tiers`.

`History` is the abstract specification: a held sample may become durable or be
lost, and a durable one disappears only through a delete barrier or by its age.
`ImplementsHistory` is the refinement, with `held` the queue and the two
batches, `durable` the samples in frames and blocks whose series has no
tombstone, and `removed` the tombstones.

### Reading

`CheckBarrier`, `ReadRaw` and `ReadTail` are the three reads of a raw chart
(`query.Series`, `rawSamples`), each at one moment, with every action of
`Pipeline` in between. `Raw` reads frames and blocks in one statement; `Dedup`
is the code's, by epoch and sequence number. `owed` is what was stored when the
request was checked and still is.

### Lifecycle and Deletion

The operators of `Lifecycle` are the methods of `collector/lifecycle.go`, for
sets of keys where the code loops. In `Deletion` the round is split at its
request: `Begin` is Tick up to the request, `Answer` is `apply`, `Fail` is
`fail`, and anything may happen in between. `qb` is the server's list of
*complete* torrents and changes at will (`Change`), which covers torrents that
are removed, that come back, and lists that are wrong. `Answer` takes any set of
ready torrents as those whose Barrier commits, which models its failures.
`Reload` persists and restarts the collector; `Crash` restarts it with whatever
the writer persisted last. `missed`, `reported`, `vanished`, `trouble`,
`restored` and `agreed` record what was really observed; no action reads them.

### Sync

The same round seen from the protocol. `Begin` chooses a full or a delta
request; `LoginAnswered`, `VersionsAnswered`, `SyncAnswered` and `InfoAnswered`
are the answers, `Forbidden` a 403 (a new login and a full request the first
time, the end of the round the second), `RequestFails` any other failure,
*before or after* the server has counted its answer as given, and `Apply` the
end of a round. The server (`Add`, `RemoveTorrent`, `Set`, `Transfer`,
`Expire`) changes between any two requests. A patch is a function on the fields
it carries; a server may answer in full when it was asked for a delta and may
leave out the fields in `Hidden`, which `torrents/info` then supplies. `told`,
`toldTotal` and `withheld` record what the answers said.

### Connections

A request is a process; its places are the points of the handler between which
others run: statements of the store and the manager's locked sections. A Reload
is `SwapWorkers` (StopCollectors takes the map), `WaitWorkers`,
`ReadInstances`, one `StartCollector` per row, `ReloadEnds` or `ReloadFails`.
DELETE is the confirmation taken (`StartDelete`), the row looked up, then
`Manager.Remove` (`TakeWorker`, `AwaitWorker`, `RemoveInstance`). Settings are
one value whose lowering must be confirmed (retention) and one whose change
reloads (interval). The duplicate check is one step with the arrival of its
request, and the insert a later one; so are the read of a row by PATCH and its
UPDATE. A collector is known by the request that started it.

### Tiers

A window is a key; the clock counts windows. `SealRaw`, `SealOne`/`SealRefused`,
`SealSummaries`, `PackOne` and `StepEnd` are the parts of one `Step` in its
order; `Cleanup` comes every 300th. The running writer takes 300 Steps per
window, so the clock moves only after a Step that found nothing to do
(`quiet`); while the process is down it moves freely. Both summary tiers are
written by the same statements, so one stands for either.

### Space

`Flush`, `CheckSpace`, `Cleanup`, `Seal` and `Checkpoint` are the parts of a
Step, in the order of `Manager.Step`, that check or use space; the Steps in
between, which only seal, are covered by `Seal`'s choice. Sizes are whole
units. Pages come from the freelist, then from the end of the file up to the
page limit; a commit appends to the log, which starts over when it is copied
and nobody reads it, and whose file keeps its length. The host's free space is
what it likes at every look. `trusted` and `grown` record the pages written
since the last resume.

### Rollup, Charts, Codec, Algorithms

Pure code as functions and folds, no RECURSIVE operator. `Rollup` has `Build`,
`ToFive`, `Merge` and `Flat` with every field of a bucket that one direction
needs; a mean is kept as sum and weight and compared by cross-multiplication.
`Charts` has the raw curve, the summary curve with its flat groups, `Thin`, the
aligned sum of instances and the list's cached upload. `Codec` has the run and
difference columns with wrap-around; a cell's integers are given by `Half`, half
the number of values they can hold (2^63 in the code). `Algorithms` grows a series sample by
sample and seals its windows as `sealOne` does, so that *when* a window was
sealed is part of what is checked; or a table row by row; or a curve point by
point. The reference definitions are in its properties and are made from the
samples themselves.

## 3. Runs

Times are of two workers.

| Run | Question | Bounds | Result |
|---|---|---|---|
| `reading` | is a sample stored once, is the queue's accounting exact, does the path implement `History`, does an answer have every sample that stayed stored? | one series, clock to 4, windows of 1, RawAge 2, two rounds per start, one restart | holds (2 min) |
| `pipeline_removal` | does removed history stay removed, whatever runs meanwhile, and is it deleted in the end? | one torrent and the connection's own series, clock to 4, one round per start, one restart, one row per DELETE | holds (1 min) |
| `deletion_rules` | is the evidence as documented, and does a bulk loss wait? | two keys, clock to 6, one reload, one approval | holds (1 min) |
| `deletion_restart` | do failures and crashes keep the protection and agree with the database? | two keys, clock to 4, one failure, one crash | holds (2 min) |
| `tiers` | is a window counted once, does it keep its summary and is it sealed before it expires, over corrupt frames and stops? | one series, hours of two windows, clock to 7, one restart, two corrupt frames | holds (20 s) |
| `tiers_backlog` | does a sealed window keep its summary behind a backlog? | LIMIT 1 | violated: finding 1 |
| `sync` | is the collector's copy the server's list, and does it catch up? | two torrents of two fields, one of them hideable, two values, three changes, two faults | holds (2 min) |
| `connections` | what holds of connections, collectors and settings however requests overlap, and what when they do not? | two requests, connections and addresses, one session, two confirmations | holds (15 s) |
| `connections_reload` | is every collector in the manager's hands? | the same | violated: finding 2 |
| `space` | does the guard flap, and does a pause end? | budgets of 10 and 14 units, log thresholds 3 and 4, one change of the budget | holds (1 min) |
| `space_resume` | does a pause for the log end too? | the same | violated: finding 3 |
| `algorithms` | are buckets, curves, sums, cached upload, thinning and codec what their definitions say? | four samples; three rows of two cells of four values (`Half = 2`); 14 points of which three odd, budgets 6 and 12 | holds (0.4 M states, 3 min) |

Why the bounds are enough. In `Pipeline` one unit of time is half a window in
`pipeline_removal` and a whole one in `reading`. In `reading` a window is
filled, sealed, gets a late batch and expires within a run, two rounds put two
samples into one window or one into each of two, and the reader has room for
any of these between its reads. Two series are needed only where one is removed
while another stays, or where a limit lets one row wait for another: otherwise
the code treats a series by its own rows. All safety properties of the seven
components are also proved for constants of any size (section 5). One restart suffices for every
property that speaks of the database, since a restart keeps nothing else. In
`Deletion` one unit is 30 s, so that Protection is 4 units in the code and 2
here, Span 2, Spacing 1, and the explicit delay of 8 s rounds up to 1; the
order Spacing <= Span <= Protection < AuthCooldown is the code's. Two keys with
MinBulk 2 give both a single loss and a bulk loss, and a bulk loss of which one
half comes back. In `Tiers` hours have two windows in place of twelve: the
second window of an hour is the one that can be late; six keys per call are
more than are ever due at once, and one key per call is the backlog of the
other run (in the code a call takes eight, one call a second). In `Sync` a
torrent that goes, one that changes and one that stays need two keys and three
changes; a fault of each kind in one round, two. In `Connections` two
overlapping requests already break what overlapping breaks; a third only
repeats it. In `Space` the budgets are the smallest at which 68, 74, 85 and 95
per cent are different numbers. In `Algorithms` a series of four samples
reaches three buckets of the first tier and two windows, with every combination
of a hole, a lost round, a flag, an invalid field and a reset; the curve has
more points than either budget and a hole of its own; two bits are enough for a
difference to wrap.

MaxNow, MaxSeq, MaxEpoch, MaxCrash, MaxReload, MaxFail, MaxApprove, MaxCorrupt,
MaxChange, MaxFault, MaxConfirm, MaxQueued, MaxWal, MaxSamples, MaxRows and
MaxOdd bound the runs only; all other constants are the code's, scaled.
(MaxValue is the range of a field, MaxSpan and MaxQueue are the code's.)

Symmetry. Keys, the series of `Tiers`, requests, connections and addresses are
interchangeable: no action or property orders or names them. Runs that check
liveness use no symmetry. `MCDeletion` uses views that leave out variables
which the run's bounds keep from being read (`lastCal` with Recalibrate >
MaxNow, `begun` between rounds, the observers of other properties), so that two
states with one view have the same futures.

Fairness.

* `RemovedIsCleaned` assumes that a flush that has begun ends, that a seal call
  ends, and that `Cleanup` is strongly fair: the writer is one goroutine whose
  Steps end (each transaction has a time limit of its own), and every 300th
  reaches Cleanup, between flushes and seals, again and again. Nothing is
  assumed of collectors, rounds, removals or restarts. After SIGTERM the loop
  stops, so the property promises nothing in "halt".
* `CatchesUp` assumes that the collector goroutine goes on (a request is
  answered or times out) and that a full read is due again and again: the code
  makes one every five minutes. That the server and the network become quiet
  is the property's premise, not an assumption.
* `PauseEnds` assumes that the writer loop keeps stepping, that a read ends (it
  is limited in rows), and that of the Cleanups that find something expired
  some delete it: what is stored reaches its age while nothing is added in a
  pause. Requests, restarts and the host are not assumed to do anything.

Deadlock is checked except where a run ends because its inputs do: requests
that are all answered (`connections`, `connections_reload`), samples, rows and
points that are all made (`algorithms`).

## 4. Findings

With a run that shows them:

1. `store/history.go:316` (`tiers_backlog`). With more due windows than one
   SealRaw call takes, an hour is packed before all its windows are sealed; the
   buckets of the late ones are ignored on insert and deleted
   (`SummaryNotLost`). It takes a backlog such as the first Steps after a long
   stop. While a call takes all that is due, `SummaryKept` holds.
2. `collector/manager.go:51` (`connections_reload`). Two Reloads that overlap
   both find the workers taken and both start a collector for every row. The
   second replaces the first in the map, which goes on polling in nobody's
   hands until the process ends (`OneCollector`). What holds however requests
   overlap are `OwnedRuns` and `NoneMissed`.
3. `store/usage.go:122` (`space_resume`). The writer loop's checkpoints never
   shorten the log file, and CheckSpace resumes below half the threshold only:
   a pause for the log's length lasts until a restart (`PauseResumes`). Any
   other pause ends, unless the clock is held or the host stays short of space
   (`PauseEnds`).

Stated as formulas beside the properties, and violated by the code; no run of
the list checks them, each can be checked with the configuration named (without
its VIEW, with the formula as its only property):

4. `store/queue.go:92`. Flush replaces the one in-flight map. When `main`
   flushes at shutdown while the writer's flush is still appending, Tail
   returns neither batch completely (`TailComplete`, PipelineRemoval.cfg). What
   is committed is not affected: `ImplementsHistory` and `StoredOnce` hold with
   both flushers.
5. `store/queue.go:63`. Invalidate leaves `oldest` as it was. A Push later than
   that plus MaxSpan discards pending samples that are not old
   (`DiscardOnlyStale`, PipelineRemoval.cfg).
6. `collector/collector.go:151`. The protection after a failure counts from the
   failed round. The cooldown of a refused login is longer, so the reconnect
   itself is not protected, unlike README.md:169 says
   (`ProtectedAfterReconnect`, DeletionRestart.cfg). What the code does
   promise, counted from the failure, is `QuietAfterTrouble`.
7. `collector/collector.go:546`. An approval stays until no candidate is left,
   and covers torrents that vanish after it (`ApprovalCoversVanished`,
   DeletionRules.cfg).
8. `store/history.go:181`. A frame that does not decode ends the SealRaw call
   and is first in the next one; the windows behind it stay unsealed until they
   expire (`OnlyCorruptExpireUnsealed`, Tiers.cfg). Windows before it are
   sealed in time: `SealedBeforeExpiry`.

Seen while modelling, as exceptions that a property names or behaviour no
document of the repository speaks about:

* `query/query.go:208`: a flush that ends between the two reads of rawSamples
  is in neither; that one answer lacks its batch. `ReadComplete` is about what
  was stored when the request came.
* `store/history.go:228`: a sequence number skipped across the border of two
  windows sets no gap flag, since only the last sample of the block before is
  looked at and only if it is adjacent (`SealedAsWhole` allows just this).
* `query/query.go:145`: of several gaps in one cell Thin keeps the last.
* A removal that stops half-way, by an error or a crash, leaves series refused
  by the queue without a barrier (`collector/manager.go:200`, until the process
  restarts) and the connection's own series sampled behind its barrier
  (`store/store.go:170`, for good). `SampledSeriesLive` excepts that series.
* `store/instance.go:17`: PATCH saves the row it read before its credential
  test; a DELETE in between is undone. Two requests that overlap can also give
  two connections one address (`api/api.go:435`), and a Reload that read the
  rows before a Remove starts the removed connection again. `SequentialExact`
  holds of requests that do not overlap.
* `collector/manager.go:272`: nothing is sealed in a pause, while Cleanup goes
  on; a pause longer than 24 h loses windows unsealed.
* `store/usage.go`: ConfirmClock has no caller outside the tests, so a clock
  hold lasts until a restart; `PauseEnds` excepts it.
* `collector/manager.go:235`: the lifecycle record is saved with the next
  flush. A crash before that brings back the record of the last flush: with a
  candidate whose torrent has been seen again since, against which the older
  evidence then counts on (`EvidenceBeforeDeletion`), or without the mark of a
  bulk loss (`BulkNeedsApproval`). It takes a crash within a flush interval, and
  the protection after a start gives most of the evidence time to be gathered
  anew. `QuietAfterTrouble` and `KnownIsLive` hold whatever a crash lost.

## 5. Proofs

The theorems hold for every value of the constants that meets the assumption of
the module they are about: any number of series, torrents, requests,
connections and sessions, any limits, ages and thresholds, no bound on time, on
the number of restarts, failures or changes. What is assumed beyond types is
named here:

* `Tiers`: an hour has a window, a call takes one, a window is over when it is
  sealed, and `SealAge <= RawAge <= SummaryAge`.
* `Sync`: `Hidden # Field`, every server sends some field of a torrent.
* `Space`: intervals and thresholds are positive, `Small < Large`,
  `SmallStop <= LargeStop <= MaxWal`.
* `Rollup`: a window is a whole number of minutes (`RollupAssumption`).
* `Charts`: an hour or a window is no longer than a day, and the tail that
  refreshStats reads is as long as a window and two target intervals at least
  (`ChartsAssumption`).
* `Algorithms`: a sample is later than the one before it and its numbers are
  whole (`SeriesAssumption`), and so are those of the other instances
  (`PeersAssumption`); a curve is thinned to six points or more
  (`CurveAssumption`: `query.Parse` takes no less than 16, and the extremes get
  a third of them at most).

Two pairs of theorems are about the behaviours that meet a condition; it is part
of their statement and explained with them (`KeepsUp`, `CrashFlushed`).

Every invariant has lemmas that each kind of step keeps each part of it, with a
step per action that can disturb the part. `Init` of each specification meets
its invariant, and a run of each component shows that its assumptions can be met.

### PipelineProofs

| Theorem | Statement |
|---|---|
| `Invariance` | `Spec => []Inv` |
| `TypeCorrect` | `Spec => []TypeOK` |
| `StoredAtMostOnce` | `Spec => []StoredOnce` |
| `RemovedStaysEmpty` | `Spec => []NoResurrection` |
| `QueueAccounts` | `Spec => []QueueConsistent` |
| `SamplesLiveSeries` | `Spec => []SampledSeriesLive` |
| `Implementation` | `Spec => ImplementsHistory` |

`Inv` is the conjunction of `TypeOK` and

* `Counted`: `pending` is finite and `bytes` is its size, and nothing of a dead
  series is queued. Without finiteness the size says nothing when a sample
  joins or leaves.
* `Fresh`: what is pending, in a batch or stored was measured at an earlier
  round of its epoch, or in this one for a series already done. So a sample
  just measured is nowhere yet, which counting and `History`'s Accept need.
* `Apart`: the queue, the two batches and the rows share no sample. A commit
  then adds nothing that a block or another frame already has.
* `StoredOnce`, as checked.
* `Aware`: a torrent the collector samples or knows has no tombstone, and is in
  the database. The last step of a confirmed deletion is the exception it names.
* `Gone`: a cleaned series is removed and has no payload. Append and SealOne
  look at the tombstone, so nothing can be added.

`Implementation` maps every action to an action of `History` or to a stutter
(`StepImplements`): PushSample to Accept (`PushAccepts`), ConfirmDeletion and
BarSeries to Remove (`BarrierRemoves`), AppendCommit to Commit
(`AppendCommits`), Cleanup to Expire (`CleanupExpires`), Tick to Advance, and
SealOne to a stutter (`SealHides`): here `StoredOnce` is needed, since a block
that existed beside its frames would be kept in their place.

Of a chart request beside the write path:

| Theorem | Statement |
|---|---|
| `NothingMissed` | `ReadSpec => []ReadComplete` |
| `ReadersHarmless` | `ReadSpec => ImplementsHistory` |

The invariant is `Inv` with two parts more. `Alone`: an epoch and a sequence
number name one sample of a series among all that is queued, in a batch, stored,
shown as in flight or in the reader's rows. Dedup goes by these two numbers, so
it drops only doubles. It must be said of the rows and of the in-flight set too,
which keep samples that have expired, or been lost, since. `Owing`: what a
request is owed is stored, and is in its rows once it has read them; a seal
between the reads moves a sample from frames to a block and changes neither.

### TiersProofs

| Theorem | Statement |
|---|---|
| `TypeCorrect` | `Spec => []TypeOK` |
| `CountedOnce` | `Spec => []SummaryOnce` |
| `SummariesKept` | `Spec /\ []KeepsUp => []SummaryKept` |
| `SealedFirst` | `Spec /\ []KeepsUp => SealedBeforeExpiry` |

`SummaryOnce` needs `Moved` (a window has frames, or a bucket, or is in a
summary block, never two of them) and `Dated` (frames are of a time that has
come, what was sealed of a window that is over, so that none is written again).
`KeepsUp` says that no more windows can be sealed than one call takes. Finding 1
is what happens without it, so it cannot be dropped; TLC found it true in every
state of `tiers`, with its restarts and corrupt frames, so it is not empty.
Under it every due window is selected or behind a corrupt frame (`Handled`), and
an hour that is packed is over (`InTime`).

### SyncProofs

| Theorem | Statement |
|---|---|
| `TypeCorrect` | `Spec => []TypeOK` |
| `ListCopied` | `Spec => []ListExact` |
| `ValuesCopied` | `Spec => []ValuesExact` |
| `TotalCopied` | `Spec => []TotalExact` |

The properties speak of the end of a round. `Based` says why they hold there:
whenever the collector asks for a delta, or may in its next round, the server
owes it every difference from the last answer (`Tracks`), and its cache is a
copy of that answer but for what it withheld (`Copies`). After an answer that
was lost neither is true; the next request must then be a full one. `Advanced`
carries the same to the list the round works on, over the torrents/info that
supplies hidden fields.

### ConnectionsProofs

| Theorem | Statement |
|---|---|
| `TypeCorrect` | `Spec => []TypeOK` |
| `KnownRun` | `Spec => []OwnedRuns` |
| `AllPolled` | `Spec => []NoneMissed` |
| `ConfirmedOnce` | `Spec => []PurgeConfirmed` |
| `OneByOne` | `Spec => []SequentialExact` |
| `ShortenedAsTold` | `Spec => ShortenedOnlyConfirmed` |

The invariant says what a request, at its place, owes to the maps and rows it
shares with the others: collectors it waits for are no longer the manager's and
are never started twice (`Owned`); an enabled row has a collector or a request
that will still read or start it (`Covered`); a confirmation that is there has
not been used (`Counted`); a save knows what it compared itself with
(`Compared`). `Alone` follows one request through the whole handler while all
others are done or not there yet, and ends in `SequentialExact`.

### DeletionProofs

| Theorem | Statement |
|---|---|
| `TypeCorrect` | `Spec => []TypeOK` |
| `KnownStaysLive` | `Spec => []KnownIsLive` |
| `QuietProved` | `Spec => QuietAfterTrouble` |
| `BulkApproved` | `Spec /\ [][CrashFlushed]_vars => BulkNeedsApproval` |
| `EvidenceProved` | `Spec /\ [][CrashFlushed]_vars => EvidenceBeforeDeletion` |

`Guarded`: the protection that the record carries covers the last trouble once a
round has begun. `Witnessed`: a candidate is a known torrent the last answer did
not list, and its record is backed by what was observed (`Proves`: the report
at its `first`, or misses at `first` and `last`, one more in between from a
count of three, each Spacing apart). `Remembered`: a torrent of a bulk loss is a
candidate still, and the record has the mark. `CrashFlushed` says that a crash
finds the record as it was last saved. Reloads, failures, approvals and barriers
that do not commit are all in; only a crash between a change of the record and
the next flush is not, and there the two properties fail (section 4).

### SpaceProofs

| Theorem | Statement |
|---|---|
| `TypeCorrect` | `Spec => []TypeOK` |
| `NeverFlaps` | `Spec => NoFlapping` |

`Below`: since the guard resumed, the pages in use are below the lower line plus
what was written. The two lines differ by less than `Enough` for any budget
(`LinesApart`), whatever the percentages round to.

### ArithmeticProofs

One step of the code's arithmetic, for any sample, bucket or cell:

| Theorem | Statement |
|---|---|
| `SampleSound` (`AddSound`) | a sample added to a bucket leaves its stat that of some set of values: min <= mean <= max, one observation more, extremes at times between the first and the last |
| `MergeSound` | so does merging two |
| `MergeAssociative` | a merge in any grouping gives the same bucket, so an hour may be built from its windows, or a chart's cell from either |
| `SupportFits` | a sample's weight is positive, at most the target interval, inside its bucket, and ends where the next sample's begins |
| `StartContains`, `WindowOfMinute` | a time is in its bucket, and the bucket of its minute's bucket is its own |
| `GroupKept`, `GroupHonest` | a pending group of a chart stays adjacent, unflagged and limited in span with every new bucket, and none of its values is 5 % off the line drawn |
| `WrappedFits`, `DifferenceRestores` | a difference fits a cell and leads back, overflow included |
| `RunAddsUp`, `RunContinues` | a reader that has one cell of a run right has the next right |

The last two rows hold for any positive `Half`, a power of two or not.

From steps to whole folds. The library's induction theorems take a predicate as
a parameter, which the provers cannot instantiate. `Induction` says the same of
a *set* of numbers and follows from the well-foundedness of `<` on `Nat`
(`LeastNumber`). With it `FoldExists` shows that the function a fold of the
community modules chooses does exist, so that a fold can be unrolled into the
sequence of its intermediate values: `BuildSteps`, `FiveSteps`, and in the next
module `PickedSteps`, `ChartSteps` and `RawObservedIs`. From there on `Upward`, an induction
from one number to another, does the rest. The lemmas lead to these facts:

* `BuildTier`: what `Build` makes of a slice of a series is a tier of that slice
  (`TierOf`: one bucket after the other, each the sum of what was added, `Made`,
  and cut where a bucket ends), and tiers of adjoining slices join (`TierJoin`).
  `WithinIs`: the samples of a window are a slice. `WeightOfSlice`, `AddOfSlice`:
  a sample weighs in a slice what it weighs in the series.
* `MadeTells`: such a bucket tells of its samples (`Tells`): its stat has the
  number, the extremes, their times and the bounds of the mean that those samples
  have (`Summary`), its counter the sum of their differences.
* `FiveOfWindow`: so do the buckets of the second tier (`SummaryJoins`:
  merging two neighbours tells of both).
* `ReadBack`, `OneRowCount`: a written table is read back, and as no table of
  another number of rows.

### AlgorithmsProofs

| Theorem | Statement |
|---|---|
| `CurveInvariant` | `Spec => []CurveInv` |
| `ThinHonestAlways` | `Spec => []ThinHonest` |
| `SeriesInvariant` | `Spec => []SeriesInv` |
| `BucketsExactAlways` | `Spec => []BucketsExact` |
| `DeltasExactAlways` | `Spec => []DeltasExact` |
| `SealedAsWholeAlways` | `Spec => []SealedAsWhole` |
| `LinesBreakAlways` | `Spec => []LinesBreak` |
| `FlatHonestAlways` | `Spec => []FlatHonest` |
| `CodecExactAlways` | `Spec => []CodecExact` |
| `StatsExactAlways` | `Spec => []StatsExact` |
| `OverviewHonestAlways` | `Spec => []OverviewHonest` |

They hold for a series of any length, with any gaps, resets and missing values,
sealed at any moments, and for a curve of any length.

`CurveInv` says that times grow along the curve and its numbers are whole.
`ThinKeeps` then counts: a cell keeps six points (`SixAtMost`), there are no
more cells than a sixth of the budget (`CellsFit`), so nothing is cut at the end
(`KeptFit`); what is lowest of all is lowest of its cell (`LowestOfCell`), and
so kept.

`CodecExact` holds for tables of any size, with any overflow between their rows
(`TableRows`: all that is given to the codec are rows of cells). It rests on two
results of the previous module. `ReadBack`: a column is written as its runs
(`EncodeRuns`, along the fold over the rows), the columns lie one after the
other in the payload (`FlattenLays`), and a reader at the first pair of a column
takes exactly its runs and computes its cells from them (`ColumnFound`; within a
run by `RunContinues`). `OneRowCount`: a column that is read takes pairs for as
many cells as were asked for (`ColumnRead`), so an accepted payload of `Cols`
columns stands for `Cols * n` cells; it stands for `Cols` times its own rows.

`SeriesInv` says that the samples are a series, that a position cuts it in those
before `edge` and those from there on (`Cut`), that `one` is the tier of the
former, and that the buckets of `five` tell of adjoining slices that together
are all of it (`Covered`; `TierCovered`: so do those of `one`). It has to be said of positions: a sample's
weight and its difference come from its neighbours, which may be on the other
side of a border. `SeriesSeal` is the step that matters: the oldest unsealed
window is a slice that begins at the cut, the sample before it is what `sealOne`
passes to `Build`, and so the old tier and the new one join. `BucketsExact`
reads the buckets' slices back as the samples between their ends (`SamplesOf`).
`DeltasExact` sums the differences of the slices, along the fold of the chart
(`ChartObserves`) and along that of the raw samples. `SealedAsWhole` compares
the tier with that of one pass: what is passed for the sample before a slice
changes nothing but the gap flag of its first bucket (`MadeAlike`).

`LinesBreak` and `FlatHonest` follow from one invariant of the chart under
construction, `Drawing`, along the fold's steps (`ChartDraws`). A gap stands between
the points before and after every moment where the tier is interrupted
(`Parts`), and what is drawn next is not earlier than that (`Low`): a pending
group is drawn late, with the time of its first bucket. What lies under a flat
segment is in some bucket of the group it was drawn for, and `GroupHonest` says
the rest; where two segments meet with the same value, the samples between them
are at the end of one or the start of the other.

`StatsExact` adds the buckets of a span to the raw samples of the tail. It rests
on `SeriesInv` and on one fact more, `Sealed`: the edge is the end of a window
that holds samples (`EdgeSealed`), so the last bucket ends there and not before,
and the tail takes up where the buckets stop. The first difference after the
edge must be in the tail, so the tail must reach back to the sample before the
edge. `ChartsAssumption` says that it does, as the code's numbers do (15 min,
a window of 5, an interval of at most 5 s; `ValidateSettings`). Then the buckets chosen
for an hour or a day are the last ones of the tier (`StartsGrow`), and the sum
over them and the tail telescopes to the sum over the samples from the first of
these buckets on.

`OverviewHonest` compares sums of weights cell by cell. A raw sample counts in a
cell with its support (`RawSteps`, `SupportInCell`), a bucket with the weight it
was given (`MeanSteps`). Since a minute bucket never spans two cells, one bucket at
most counts in a cell, and `CellFills` follows it while it is made: what the
bucket has taken, the cell has taken. `CellsAgree` is its end, and a cell is
filled where a sample has a speed (`RawFilled`). The points are then built cell
by cell under the invariant `Lined`: they lie in order at the complete cells so
far, a line goes from a cell to the very next one, and an open line ends at the
last cell (`LinedMore`, `OverviewLines`). The theorem is about any sealed series
and any other instance that is a series (`PeersAssumption`), over a grid of any
length.

### Only model-checked

* The liveness properties `RemovedIsCleaned`, `CatchesUp` and `PauseEnds`:
  neither fairness nor ENABLED is in the provers' reach.

Every invariant and every action property that a run checks has a theorem.

## 6. Plan

Every safety and action property of the models, and the refinement of
`History`, have a theorem. Still worth proving: `KeepsUp` from how many series
there are and how often a Step comes, for a process that has not been stopped.

Smaller extensions of the models: pauses in `Tiers`; the torrent snapshots that
lists show; the cumulative metric and the extremes of a chart; login sessions.

## 7. Not modelled

Routing, JSON, TLS, the login form with its sessions and rate limit, list
paging, key handling and the web interface have no state whose order of change
is in question here, except where `Connections` has it. The byte formats (frame
header, CRC, zstd, varint, the 51 columns of a bucket) are encodings without
control; that a damaged one is detected is taken as the `corrupt` flag of
`Tiers`. Of `query`, Parse, the cumulative metric, extremes, events, notes and
coverage figures are left out; of `store`, Usage's payload statistics and the
Forecast, which only read. Additions that pass 2^63 in a bucket are left out. SQLite
itself, the clock and qBittorrent are external and appear as atomic commits,
`Tick`, and the environment's actions in `Deletion` and `Sync`. The mock's
scenarios and fault switches and the benchmark are tools.
