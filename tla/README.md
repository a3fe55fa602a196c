# A verification project for lil-olt-metrics

lil-olt-metrics is a small metrics server: it takes OTLP metrics over HTTP and
gRPC, stores them, and answers PromQL queries. This directory holds TLA+ models
of the parts of it that keep state, TLC configurations that check them on small
instances, and proofs that TLAPS checks for every instance.

All paths below are relative to `src/`.

## 1. Inventory

| Component | State | Operations | What makes it hard | What makes it correct |
|---|---|---|---|---|
| Write-ahead log, `internal/store/wal.go` | segment files, the open handle, its number and size, all under `w.mu` | `NewWAL`, `Log` (with `rotate`), `Replay`, `Truncate`, `SegmentSeq`, `Close` | errors half way through a batch or a rotation, a dropped error at the start, crash, power loss without fsync, a number used after the lock is released | what `Log` acknowledged is replayed, in order |
| Blocks, `internal/store/block.go` | directories with `meta.json` and `data.json` | `writeBlock`, `openBlock`, `selectSeries`, `compactBlocks`, `blockDiskSize` | a crash between the two files, existing directories, removals that stop between the two files, colliding hashes | times cover the samples; merging loses no (series, time) |
| Filesystem store, `internal/store/fsstore.go` | head, list of open blocks under `s.mu`, log, compaction goroutine | `NewFSStore`, `Commit`, `Rollback`, `Select`, `FlushHead`, `compact`, `applyRetention`, `Close` | head, log and blocks under three locks, taken one after the other; crashes between file operations | nothing acknowledged is lost or hidden; retention removes what it should; `Close` ends |
| In-memory store, `internal/store/memstore.go` | buckets of series by label hash, under `mem.mu` | `Append`, `Commit`, `Rollback`, `Select`, `LabelNames`, `LabelValues`, `Prune` | equal hashes, bisection in a slice that is not sorted | each series holds the last of what was committed to it; pruning is exact |
| Remote backends, `internal/store/prometheus_remote.go`, `victoriametrics.go` | per request: pending samples, the batch and the attempt | `Append`, `Commit` (with `send`), `Rollback`, `Select` | lost answers, requests that take effect after the client gave up on them, retries, drops after the last one, a rejected batch between others, map order | what a nil from `Commit` means; bounded repetition; order per series |
| Session events, `internal/sessions/bbolt_store.go` | two bbolt buckets, retention goroutine | `AppendEvent` (with `enforceBound`), `ListSessions`, `GetSession`, `GetEvents`, `runRetentionOnce`, `Close` | events out of order, dropped and old ticks, the bound | buckets agree; the bound drops the oldest; live sessions are listed, stale ones evicted |
| OTLP translator, `internal/ingest/translator.go` | delta sums by label hash, under `tr.mu` | `Translate`, `accumulateDelta`, `evictStale` | state advanced by a request whose `Commit` then fails; requests interleave between points | totals are the sum of the deltas; histograms stay cumulative; samples carry the labels they were sent with |
| OTLP handlers, `internal/ingest/http.go`, `grpc.go` | none of their own | decode, translate, commit or roll back, answer | the body limit cuts without an error | the answer says what was stored |
| Query adapter, `internal/store/adapter.go` | the place of an iterator | the range of a reading, series sets, sample iterators for the PromQL engine | a zero hint is also a time | the engine gets every sample of its range |
| Query API, `internal/query/api.go` | the request in progress | `query`, `query_range`, `series`, `labels`, label values | one reading per selector, with commits and prunings in between; cut-off milliseconds; errors that are passed over | the answer is what was asked for |
| Configuration, `internal/config/config.go` | the settings | defaults, file, environment, validation | precedence, malformed values, overflow | a lasting store, with its addresses and no negative limit |
| Server, `cmd/server/main.go` | store, three servers with a goroutine each, `errCh`, the signal context | start, serve, drain, close | servers that fail before or after main listens, a signal at any moment, a graceful stop without limit | the store is closed after the last request, and the process ends |
| Dashboard, `web/` | what is on the screen | poll and draw | - | - |

Interactions: the handlers call `Translate` with an `Appender` of the configured
store and then `Commit`, or `Rollback` when something failed. The filesystem
store's `Commit` calls `Log` and then adds to the head. `Select` reads the head
and then the blocks. `FlushHead` moves the head into a block and truncates the
log. The compaction goroutine merges blocks and applies retention. The query API
hands the PromQL engine a querier of the adapter, which calls `Select` of the
store. `main` owns the store and the servers, and closes the one after the
others. The session store is independent of all of them.

## 2. Modules

| Module | Models | Notes |
|---|---|---|
| `WAL` | `wal.go` | state and actions only; used by the next two |
| `WALClient` | the log with its callers | `Init`, `Next`, `Spec` and the log's properties |
| `Blocks` | `block.go` | state and actions only; used by `FSStore` |
| `FSStore` | `fsstore.go`, and the head of `memstore.go` | extends `WAL` and `Blocks` |
| `MetricStore` | the promise of a store | abstract; `FSStore` refines it |
| `RemoteWrite` | both remote backends | one module: their control is the same |
| `Sessions` | `bbolt_store.go` | run as it is, with `MCSessions.cfg` |
| `Labels` | names and labels in `translator.go` | operators only |
| `Ingest` | `http.go`, `grpc.go`, `translator.go` | extends `Labels`; handlers that share a translator, in front of a store |
| `MemStore` | `memstore.go` | state and actions, with its own properties |
| `Query` | `api.go`, `adapter.go` | extends `MemStore`; `Init`, `Next`, `Spec` of both together |
| `Config` | `config.go` | operators only |
| `Server` | `cmd/server/main.go` | extends `Config` |
| `MCWALClient`, `MCFSStore`, `MCRemoteWrite`, `MCIngest`, `MCQuery`, `MCLifecycle` | - | instances for TLC |
| `WALProofs`, `WALClientProofs`, `FSStoreProofs`, `QueryProofs`, `IngestProofs`, `ServerProofs`, `RemoteWriteProofs`, `SessionsProofs` | - | lemmas and theorems; `WALClientProofs` and `FSStoreProofs` extend `WALProofs` |

Definitions named `X_Something` whose comment begins with "Slip:" are plausible
mistakes in the code behind `X`. Nothing in a specification uses them; each is
there to show that a property would notice the mistake (`mutants` in
`PROJECT.json`).

### How state and actions correspond to the code

**WAL.** A record is one unit of size. A file is a sequence of chunks, each a
whole record or a part of one (`cut`: inside the four size bytes, right after
them, inside the body), because that is all `decodeWALRecord` tells apart.
`synced` counts what was fsynced. `Log` is several actions (`LogStart`, one
`LogWrite` per record, `RotateSync`, `RotateOpen`, `LogReturn`, and the error of
each), so that a crash may come between any two; `w.mu` is held from `LogStart`
to the end. `RotateOpenErr` leaves the number ahead of the files and the closed
handle in place, as the code does. `Truncate` removes all older segments, or,
when a `Remove` fails, those listed before it. What a replay makes of bytes
after a tear is left open: an error, garbage, or records. `latestSegmentSeq` is the
newest segment, or 0: when the directory cannot be read the code drops the error
(`internal/store/wal.go:165-168`), and `NewWAL` then opens segment 0, beside later
ones if there are any. A start that fails (`NewWALErr`, `NewFSStoreErr`) has opened
its segment and may leave an empty one behind, or a synced one, as `NewFSStore`
closes the log before it returns. `blind` and `stray` in `WALClient` are history: what
a process that opened segment 0 beside later ones found, and what it logged.

**Blocks.** The steps of `writeBlock` (create and encode `meta.json`, create and
encode `data.json`) are separate actions; creating truncates an existing file.
`os.RemoveAll` unlinks one file after the other and every caller ignores its error, so
`RemoveAll` may leave both files of a directory, either one, or none; `openBlock` skips
a directory without `meta.json`, and `blockDiskSize` still counts the data in it.
`MergeResults` is the set of results `compactBlocks` may have: it depends on
which series a hash was first seen with and on an unstable sort.

**FSStore.** One action per stretch between two lock operations or file
operations. `Commit` is `CommitStart`, the steps of `Log`, then `CommitMem` or
`CommitErr`. `Select` and `LabelNames` (which stands for `LabelValues` too) read the
head (`ReadMem`) and later the blocks (`ReadBlocks`), waiting for `s.mu` while a
compaction holds it; a label query takes every series of a block that overlaps
its range, a query only samples in the range. `FlushHead` is
snapshot, write, publish, clear, read the number, truncate. `compact` holds
`s.mu` from `CompactStart` to `CompactPublish`. `applyRetention` is one step, as
it holds `s.mu` and a crash between two removals leaves what a failing
`RemoveAll` leaves. The head is a set: order and repetition in a series are not
modelled here. `must` is a history variable for `SelectComplete` and
`LabelsComplete`, `evicted` one for `KeysKept` (the samples of blocks that retention
dropped for their size), and `dropped` has the samples of all blocks that retention
dropped.

**RemoteWrite.** `cfg` is a configuration; zero stands for the default, as in the
constructors. A row is a sample (Prometheus) or all samples of a hash
(VictoriaMetrics, in any order). A request ends in success, in a transient
failure, or in a rejection; a batch that cannot be encoded, or of which no request can
be made, ends `Commit` without one (`SendFails`). A request that failed transiently
may be stored at once, later or never: it goes to `inflight`, from which `Arrive` takes
it whenever it likes, during the next attempt, after the next batch, or after `Commit`
has returned. A body is stored as a whole or not at all, and a rejected one is taken not
to be stored; both are assumptions about the remote server, which is external. Backoff
is left out: it only delays.

**Sessions.** An `Update` transaction is one step (bbolt, external, commits it as a
whole). `encodeTS` keeps its width. `ticks` is the ticker's channel of one slot,
with the time the tick carries. `recorded` and `activity` are history variables.

**Ingest.** Both handlers have the same control; `Handler` are goroutines of either. A
request is a sequence of resources with scopes and metrics, and `Calls` lists the calls
of `Append` that `Translate` makes for it, in order; `translateMetric` and the operators
under it follow the code type by type, and the labels of each call are those that module
`Labels` computes: a name is a sequence of words, digits, underscores and symbols, which
is what `sanitize` tells apart. One `AppendSample` is one such call with the
`accumulateDelta` before it, which is all `tr.mu` protects, so that handlers interleave
between the series of one data point. `AppendErr` is an `Append` that fails: no store of
the repository returns an error there, but the handlers provide for it. What `Translate`
counts when it fails leaves out the metric that failed, although its first samples are
pending. `CommitErr` may leave a part of the batch behind, as `FSStore` shows of the
log. The store is a local one: the remote backends may drop a batch and return nil
(`NilAccounted`). `ledger`, `total` in a sample, `reqs` and `answered` are history.

**MemStore and Query.** Every operation of the store holds its lock from end to end
and is one action. Samples keep their order of commit. The value of a sample is
the number of the call of `Append`, so that properties can speak of one sample. A
request is one that a client may send, with each parameter absent, malformed or of
one of its forms; a handler parses (`Handle`), reads once per selector
(`EngineSelect`, `SeriesSelect`) and answers (`Respond`, `ExecFails`). Of the engine
it is assumed that it asks for offset and range of each selector in the hints, that
its querier covers all of them, and that it reads a series by one `Seek` and then
`Next`. `sort.Search` is modelled as the bisection it is, round by round, since what it
finds in an unsorted slice is part of what the code does. A loop that goes over a slice
and keeps some of it is `SelectAt`, one that changes the map is a function on the number
of its rounds. `committed` is history: the samples in the order of commit, each with the
number of those committed before its batch, which tells batches apart. `asked` of a
request is what the client meant by it; where the endpoint does not read a parameter
(`query` and its start), neither does `asked`.

**Config and Server.** A setting is a text; texts that the code tells apart have
different forms (word, number, days, address, ...). `Load` is the set of the
configuration it returns, empty on an error, and follows the code: defaults, then
the file, where a malformed value is an error, then the environment, where it is
passed over, then `validate`. Durations wrap as `int64` does, at `MaxDuration`. In
`Server`, `run` is one action per blocking call; each server has a goroutine
(`Serve`, `ServeFails`, `ServeReturns`, `SendErr`), and a request is a client that
sends and then a handler that uses the store. Of net/http and grpc-go it is assumed
what their documentation says of `Serve`, `Shutdown` and `GracefulStop`. A signal is
caught from `NotifyContext` to the end of `run`; before it, and in the deferred
`Close`, which runs after `stop`, it kills the process.

## 3. Runs

| Run | Configuration | Result |
|---|---|---|
| `wal` | 2 callers, 4 records, batches up to 2, 2 records per segment, torn writes, starts that fail or cannot list the directory | passes |
| `server` | 2 handlers, 3 commits, 2 batches, 2 records per segment, compaction loop, no `FlushHead` | passes |
| `flush` | 3 commits, growing times, starts that list the log, one query window that starts where a block ends | passes |
| `compaction` | 3 overlapping blocks, colliding hashes, a duplicate time, one query window, age limit 2, size limit 5, clock from 4 to 5, fairness | passes |
| `sessions` | 2 sessions, bound 2, 3 events per record, lag 1, retention 3, clock to 4, fairness | passes |
| `remote_write` | 3 configurations, 3 label sets of which two share a hash, 3 samples, 2 attempts, 2 late requests, fairness | passes |
| `ingest` | 2 handlers, 3 requests of all metric types with clashing labels, body limit of one resource, TTL 1, clock to 2 | passes |
| `query` | 2 appenders, 3 samples of 2 series with equal hashes, times 0 to 2, retention 1, 13 requests of all endpoints | passes |
| `lifecycle` | 2 requests, 10 files and environments that reach every outcome of `Load`, fairness | passes |
| `flush_race`, `recompaction`, `histogram` | see section 6 | violated, as expected |

**wal** shows that every record of a successful `Log` is in the files
(`RecoversAcked`), that replay order is log order (`ReplayInOrder`), that only the
last segment can lose data when power fails (`SealedSynced`) and that the log
never appends to a segment that `Truncate` may remove (`CurrentSegmentLast`). The
last three make one exception, which the code has: a process that could not read the
directory when it started writes to segment 0 beside later ones. The exception is as
narrow as it can be stated: what that process logs may come before what it found
(`ReplayInOrder`), may be unsynced in a segment that is not the last
(`SealedSynced`), and its segment is the newest of those it has written
(`CurrentSegmentLast`). `RecoversAcked` has no exception.
Four records in segments of two give three segments, a reopened segment, and
room for a failed rotation between them; two callers suffice because `w.mu`
admits one at a time and the second only has to find the state the first left.

**server** shows the two properties that matter most, `AckedDurable` and
`AckedVisible`, and that the store implements `MetricStore`. It is the store as
`cmd/server/main.go` runs it, which never calls `FlushHead`; so there are no
blocks, and the compaction loop finds nothing to do.

**flush** adds `FlushHead`, with a failure or a crash at every step, and a running query
(`SelectComplete`: whatever was stored from the start of a query to its end is in its
result; `LabelsComplete`: the same of label queries). It assumes what the code does not
enforce: that no `Commit` overlaps a flush, that timestamps grow from batch to batch,
and that no process starts on segment 0 for want of a listing of the log (`LogListed`).
Section 6 says what happens otherwise.

**compaction** starts from blocks that flushes have left. It assumes that no block
is itself the result of a compaction (section 6 again). With that assumption the
loop stops where it would compact such a block, so a retention that follows a second
compaction is not explored. Three blocks allow an
order of merging, a removal that stops half way and blocks that overlap.
`KeysKept` leaves out series with colliding hashes, of which the code drops one, and
keys that retention removed. All merged, the three blocks are six samples, above the
size limit of five, so that retention removes the one merged block. Without a
compaction the limit drops the two older blocks at time 4, when none has expired; at
time 5 age drops one of them, and the two that are left take just as much as the limit
allows.
Removals leave either file of a directory, so a later merge may write new times beside
old data: `SelectComplete` makes an exception for samples that retention dropped before
(`dropped`), and without it fails after 21 states. `SizeLimitTight` counts what is on
disk after the removals, failing and half ones included. `CloseEnds` needs fairness.

**sessions**: three events against a bound of two, from a clock with a lag of one,
give every order of arrival, a replaced key and a full session; the clock passes
the retention period, so that evictions race with late events and old ticks.
`ActiveListed` is stated with the lag, because `LastSeen` is the timestamp of the
event that came last, which may be older than one that came before.

**remote_write**: two samples per batch and three samples give a short last batch;
two attempts give a success, a repetition and a drop; two late requests give one that
arrives behind its own retry and one behind the next batch. `SeriesInOrder` compares
what the server stored, pair by pair: a body that a late request brings behind a later
batch must have been there before that batch, or be one that the client dropped or
returned an error for. So samples are new to the server in order, except those of a
batch that the client gave up. One writer is enough: the code shares nothing between
appenders. The body of a batch names label sets as the code does, by the first one of
each hash: with equal hashes `NilAccounted` counts a sample as stored that is there under
the labels of another series.

**ingest**: `AnswersHonest` says of every answered request which of its samples are
stored, whatever failed: all after success, none after 400 or `InvalidArgument`,
something but not everything after a partial success, and nothing behind a gap after 500
or `Internal`. Which samples a partial success leaves it does not judge (section 6).
`TotalsExact` recomputes every total from the history of calls, for series without a
negative addition (section 6 again); the interesting cases are an addition exactly
`deltaTTL` after the last one, an eviction by a request for another series, and a
restart. Three requests and a clock to two give two additions that renew a total and a
third that finds it. The longest request is one resource above the body limit.
`SeriesAsSent` compares the labels of every stored sample with what the client sent:
attributes that clash with promoted resource attributes or with one another after
sanitizing, an attribute with an empty value or called `le`, a resource attribute mapped
to `__name__`, and schema URLs. Additions of requests that then failed count, as in the
code: a client that repeats such a request adds its deltas twice.

**query**: `SeriesFollowCommits` says what the store holds after any commits,
rollbacks and prunings; `PruneExact` what a pruning removes from a series that was
committed in the order of time (in others the bisection may keep old samples or
drop young ones). `ResponseExact` compares an answer with the request as the client
wrote it, across the forms of its parameters and with commits and prunings between
the readings; it allows for the millisecond that `parseTimeParam` may lose.
`BatchesInOrder` says how much of a snapshot an expression with several selectors
gets: less than one, but never a later selector behind an earlier one. `LabelsCover`
ties the label endpoints to `/series`. Three samples fill a batch and leave one for
another; equal hashes put both series in a bucket from which pruning takes one.

**lifecycle**: two requests suffice, one that is stuck and one that arrives while
another server is drained. The ten sources are small but reach every outcome of
`Load`, two HTTP servers on one address, an overflow of days that becomes negative and one
that does not, and a remote store with a negative timeout, which `validate` lets
pass and `http.Client` takes for none. `StoreAsConfigured` says that the store is one of
the lasting ones, has its addresses and no negative limit; it does not say that a number
of days which wraps to another positive one is noticed. `LossEnds` says nothing of Single
Port Mode (`SinglePort`), in which the code does not do what `docs/config.md` says
(section 6). `ShutdownEnds` and `LossEnds` assume
`ClientsFinish`, that no gRPC client keeps on sending one request for ever: without
it `GracefulStop` waits, and they do not hold (section 6).

### Fairness

- The compaction loop and the calls of `Log` run when they can (weak fairness of
  goroutines). `CompactExit` and `CloseWAL` are strongly fair: Go's `select` picks
  among ready cases at random, so a closed `stopCh` is not passed over for ever,
  and a Go mutex does not starve a waiter (`sync.Mutex` has a starvation mode).
- The ticker keeps firing, the retention loop keeps receiving. A sweep may fail
  any number of times but not always (strong fairness of `runRetentionOnce`):
  always would be a broken disk.
- A request comes to an end, because `http.Client` has a timeout. Nothing is
  assumed of the answer.
- In `Server`, goroutines that can run do run and the 30 seconds pass. A handler ends
  if its store has a time limit (`Bounded`). Only the query server has a
  `ReadTimeout`, so only its clients finish or are cut off; of HTTP clients of the
  OTLP server nothing is assumed.
- The clock is fair only where a property needs it (`Tick` in `FSStore`).

## 4. Proofs

`WALProofs` has the lemmas about the log: each action keeps its type; without
tears, appending only adds to what a replay yields; opening, rotating, closing
and crashing change nothing of it.

`FSStoreProofs` proves, for any number of handlers, any batches, any segment size
and any number of restarts:

- `ServerKeepsAcked`: `ServerSpec => []AckedDurable`
- `ServerShowsAcked`: `ServerSpec => []AckedVisible`
- `ServerImplementsMetricStore`: `ServerSpec => ImplementsMetricStore`
- `TypeCorrect` and `ServerTypeCorrect`: `TypeOK`, of `Spec` (all operations, torn
  writes included) and of `ServerSpec`

the first three from the assumptions on the constants and `WholeWrites`, that a write
stores a record or nothing (section 6 says what torn writes do). The inductive invariant
`ServerInv` has four parts: the type of the log; `WALSafe` (no tears, the open segment
is on disk, a call inside `rotate` has the state it expects, and the records a call has
written so far are in the files); acknowledged samples are in the log; and, while the
store is up, in the head. `AckedDurable` alone is not inductive: `CommitMem`
acknowledges what an earlier step wrote, so the invariant has to say of a call of `Log`
that has returned nil that its whole batch is in the files, and that in turn rests on
the segment being there.

The refinement maps a state of the store to what is durable (the log), visible (the
head) and acknowledged, and a step is a step of `MetricStore` or a stutter: `LogWrite`
makes one more sample of a batch durable, `CommitMem` shows and acknowledges a batch whose
records are all durable, `Crash` empties what is visible and a start shows what is
durable. It needs `ServerInv` in both states of the step, because `MetricStore`
lets a batch be acknowledged only if it is durable as a whole. Types take an argument
too: `FlushHead` computes the times of a block as the least and the greatest of the
head, which exist because the head is finite and not empty, so `TypeInv` says that
every set of samples in memory, on disk and in progress is finite.

The second part of `FSStoreProofs` speaks of the store with blocks, for any number of
batches, flushes and blocks, with whole writes:

- `FlushKeepsAcked`: `DisciplinedSpec => []AckedDurable`
- `FlushShowsAcked`: `DisciplinedSpec => []AckedVisible`
- `FlushSelectComplete`: `DisciplinedSpec => SelectComplete`
- `FlushLabelsComplete`: `DisciplinedSpec => LabelsComplete`
- `CompactionKeepsKeys`: `FirstCompactionSpec => []KeysKept`
- `CompactionSelectComplete`: `FirstCompactionSpec => SelectComplete`
- `CompactionLabelsComplete`: `FirstCompactionSpec => LabelsComplete`
- `RetentionIsTight`: `FlushedSpec => SizeLimitTight`

The first four assume `NoCompaction`, a period of zero, for which `NewFSStore` starts no
loop, and the discipline of the `flush` run, without which they do not hold (section 6).
`FlushInv` is needed because a flush ends with the head and the log both gone: it says
where the job is (`FlushState`: the block that is being written is the whole head, and
from `written` on it opens), that times are in order along the segments and between log
and blocks (`LogInOrder`, which is where `LogListed` is used; `DiskInOrder`: nothing in
a block that is as late as a sample of the log is missing from the log, so a flush whose
directory exists rewrites no sample that is not in the head), and that whatever ever
reached a block is in the log or in a block that opens (`Kept`). This last part speaks
of samples that were never acknowledged as well: a batch that failed half way is in the
head after a restart. `Reading` follows a query between its two reads.

`CompactInv` says of every key that may not be dropped that some block holds it, whose
times cover it and which is on disk as it is in memory, except while the sources of a
merge are being removed, when the merged block does (`KeysHeld`, `MergeState`); that the
directories in the list differ; and that a source has another name than the target,
which is where `FirstCompaction` is used. That the merged block has every key of its
sources rests on a lemma about `MergeResults`: a series is dropped only for another
with the same hash, a sample only for another of the same time.

`CompactionSelectComplete` and `CompactionLabelsComplete` assume `FreshBatches`: no batch
repeats a sample of the blocks the store started on. Without it a query can miss a
sample: it reads the head, the sample is committed again, retention drops the block that
held it before. `SelectInv` adds to `CompactInv` that log and head are apart from the
blocks (`Apart`), the state of the reader (`Reading`, as for flushes), and that every
block that opens covers its samples (`AllCover`), compacted ones included, except
samples that retention has dropped. For compacted ones one has to know what a merge finds
in the directory it writes, or new times would stand beside old data: nothing, or data
of which every sample was dropped (`MergedDropped`). `Unmerged` carries this through a
compaction: a directory of a compacted block that has lost only its times was removed by
retention, and one that has both files opens, so its block is in the list and
`FirstCompaction` lets nothing be compacted.

`RetentionIsTight` needs no `FirstCompaction`: it holds through compactions of compacted
blocks, and of any limit, none included. `SizeInv` says that the open blocks are sorted
by their first time and lie in distinct directories, and that what is stored is finite.
What retention computes is a sum over a list, from the youngest block down; what the
property speaks of is a sum over a set of directories (`DiskSize`, with
`MapThenSumSet`). The lemmas on sums over finite sets show that the recursive function
behind `MapThenSumSet` exists, that it adds up element by element in any order, and that
it splits over a part and the rest; `SizeAfterIs` then reads the running total as what
the younger blocks take on disk.

`WALClientProofs` proves of the log alone, torn writes and power loss included:

- `SealedSegmentsSynced`: `Spec => []SealedSynced`
- `LogOrderKept`: `Spec => []ReplayInOrder`
- `AppendsToLastSegment`: `Spec => []CurrentSegmentLast`
- `ClientTypeCorrect`: `Spec => []ClientTypeOK`
- `AckedRecordsRecovered`: `Spec => []RecoversAcked`

The inductive invariant `ClientInv` adds that no file is newer than `segmentSeq`
while a process is up (also after a failed rotation), except, in a process that opened
segment 0 beside later ones, files with nothing but what was there at its start
(`NothingNewer`), that a call waiting to open
the next segment has synced the current one, that the files hold only records
that were issued, that what the running call has still to write is newer than
everything on disk, and that the number `Truncate` will be called with is not
ahead of `segmentSeq`. For the last theorem `RecoverInv` adds that the records of an
acknowledged call, and those that the running call has written so far, are whole in a
file, that a torn record belongs to a call that failed, and that no record is issued
twice: a tear at the end of a segment must never be a record that a later call
acknowledges.

`QueryProofs` proves of the in-memory store and the queries over it, for any label sets
and hashes, any number of appenders, samples and prunings, any retention and any
request:

- `StoreFollowsCommits`: `Spec => []SeriesFollowCommits`
- `PruneIsExactAlways`: `Spec => PruneExact`
- `ResponsesAreExact`: `Spec => ResponseExact`
- `ReadingsInOrder`: `Spec => BatchesInOrder`
- `LabelsAreCovered`: `Spec => LabelsCover`
- `QueryInvariant`: `Spec => []QueryInv`

from what the modules say of their constants (`MemStoreAssumption`,
`QueryAssumption`). The inductive invariant `QueryInv` has two halves. `MemInv` is
about the store: besides `SeriesFollowCommits`, the types, and that the number of a
sample is used once, whether the sample is pending or committed (`NumbersApart`):
without it one sample could stand for two and none of the properties would say what it
means. `CallInv` follows a request between its readings: the range read is not smaller
than the one asked for (`CallCovers`), what was read is all that had to be found then
(`ReadAll`) and nothing else (`ReadOnly`), and batches appear in the order of commit
(`ReadInOrder`). It is needed because the properties speak only of the step that
answers, and other steps lie between a reading and the answer. What carries a reading
across them is `HistoryGrows`: a step of the store only adds samples, with new numbers
and of a later batch, and makes no sample findable again that was pruned.

`PruneExact` rests on what a bisection finds (`Search`): the first place at which the
condition holds, if it holds from some place on, which is where the order of time comes
in. `SelectAt`, `Search` and `appendSamples` are recursive functions; that each of them
exists is shown first, by the least number of rounds for which it would not (`LeastNat`).

`IngestProofs` proves of the handlers and the translator, for any number of handlers and
requests, any configuration of labels, any hash, clock and `DeltaTTL`:

- `AnswersTellTruth`: `Spec => []AnswersHonest`
- `TotalsAreExact`: `Spec => []TotalsExact`
- `SeriesAreAsSent`: `Spec => []SeriesAsSent`
- `IngestTypeCorrect`: `Spec => []IngestTypeOK`

Of requests it assumes only what their protobuf types say (`RequestAssumption`: lists
are lists, names and keys are texts, counts are natural numbers, values are numbers).
The inductive invariant `IngestInv` has two halves. For the answers: a handler works on
a request that nobody else serves, that has no answer and nothing in the store, and
holds the samples of exactly the first calls of `Append`, in order (`Serving`,
`OwnRequests`); a partial success has at least one and not all of them. What it says of
the answers (`FrontHonest`) is more than `AnswersHonest`: a partial success leaves a
part from the front, because `Translate` stops at the first error. For the totals: the
map of the translator agrees with the history of calls (`DeltaRunning`: for the last
addition to each series whose hash is its own, either its total is there, with its time
and the sum since the series was last idle, or it is gone and more than `DeltaTTL` has
passed), and the times in the history do not decrease. `TotalsExact` by itself says
nothing of the map, on which the next total depends.

The sum of a series and the list of calls are folds of the community modules, which are
recursive functions. `IngestProofs` first shows that these functions exist and satisfy
their equations, and then reasons about the least prefix for which a claim would fail
(`LeastNat`), which needs none of the induction theorems that take a predicate.

`SeriesAreAsSent` goes the same way through the folds of `Labels` (`FoldExists`). What a
text becomes is in two lemmas: a sanitized name never starts with two underscores, so no
attribute turns into `__name__` or `__schema_url__` unless `LabelMap` says so
(`SanitizeFacts`), and of the attributes that get the same label name the last one wins
(`AttrsSet`). From there the labels are followed through each kind of data point
(`Derived`). To `IngestInv` the theorem adds that what is stored belongs to a request
with an answer (`StoredAnswered`), and by the first half it then comes from one of its
calls. The proof brought out two cases the property makes no claim about, and its
definition now says so: a metric whose name is empty once sanitized has no name label,
and a resource attribute that `LabelMap` turns into `__schema_url__` stands in for a
missing schema URL.

`ServerProofs` proves of the life of the process, for any set of files and
environments (of which it assumes only that a text of the form "word" is nothing but
its word, `SourceAssumption`) and any number of requests:

- `ClosesDrained`: `Spec => []DrainedBeforeClose`
- `ErrorsNeverBlock`: `Spec => []SendersNeverBlock`
- `StoreFollowsConfig`: `Spec => []StoreAsConfigured`
- `ServerTypeCorrect`: `Spec => []ServerTypeOK`

The inductive invariant `IInv` has four parts: the types; `SentOnce`, that a server
whose error is in the channel is done and one still to be started has not run, from
which the room in the channel follows by counting; `PastQuiet`, that a server the
shutdown has gone past is stopped or was never started, and has no request or its
time is over; and `ConfigAccepted`, that from `LoadConfig` on the configuration is
one that `validate` accepts. `DrainedBeforeClose` alone is not inductive: nothing in
it keeps a request from arriving at the gRPC server while the others are drained.

`RemoteWriteProofs` proves of the remote backends, for any number of appenders,
samples and label sets, any hash and any configuration (`RemoteAssumption`):

- `NilMeansAccounted`: `Spec => []NilAccounted`
- `RetriesBounded`: `Spec => []PostsBounded`
- `OrderKept`: `Spec => []SeriesInOrder`
- `RemoteTypeCorrect`: `Spec => []RemoteTypeOK`

The inductive invariant `IInv` has seven parts: the types; `Shaped`, that an appender
numbers its samples upwards, and that no two of its rows share a sample and rows that
share a series follow its order; `Owned`, that a sample which may still be posted
belongs to one appender; `Counted`, that the samples of the batch at hand were posted
as often as `send` tried, and later ones never; `Accounted`, that what lies before the
batch at hand is on the server or given up; `Ordered`, that what the server has
of an appender is the batch at hand or precedes all that is still to come; and
`Followed`, that a request still in flight has the batch at hand for a body, or one that
the server has already, or that was dropped or refused. The last is what a late arrival
rests on: without it a request could be overtaken by the next batch and be the first to
bring its samples. None of
the three properties is inductive: each speaks of the end of a `Commit`, and the
invariant has to follow the loop over batches that leads to it. What `Shaped` says of
the rows rests on the two ways of building them: one row per sample, or one per hash
in any order, where two rows never share a series.

`SessionsProofs` proves all safety properties of the session store, for any number of
sessions, any bound, retention period and lag:

- `BoundKeepsNewest`: `Spec => []NewestKept`
- `BucketsInStep`: `Spec => []BucketsAgree`
- `ActiveSessionsListed`: `Spec => []ActiveListed`
- `PagesInOrder`: `Spec => []PagesFollowTime`
- `SessionsTypeCorrect`: `Spec => []SessionsTypeOK`

It assumes (`SessionsAssumption`) that the clock stays below `2^Width`, as
nanoseconds since 1970 do in 64 bits. `IInv` adds three parts to the types and
`BucketsAgree`: an event is stored under its own timestamp, and the stored keys are
the `Newest` of the recorded ones, which means that whatever was dropped is older
than whatever is kept and that nothing was dropped below the bound; nothing is on
record for an evicted session; and a session that may still count as live has a
record whose `LastSeen` is at most `MaxLag` behind its last arrival. `NewestKept` by
itself does not survive the next event: it counts newer events, and only the order
between dropped and kept ones shows that a late event takes the right place.

For `WALClient`, `Server`, `RemoteWrite` and `Sessions` type correctness is proved and
not among the invariants of a run.

Only model-checked:

- all liveness (`CloseEnds`, `ShutdownEnds` and the others stated with fairness): the
  prover has neither fairness nor `ENABLED`;
- what a flush does together with the compaction loop, and everything about blocks with
  torn writes.

## 5. Bounds and abstractions

Bounds are constants with `Max` in their name and appear in guards: `MaxIssued` and
`MaxBatch` (log), `MaxCommits` and `MaxNow` (store), `MaxSamples` and `MaxLate`
(remote), `MaxAppends` and `MaxNow` (sessions, in-memory store), `MaxRequests` and
`MaxNow` (ingestion). The theorems hold for every value of them. `MinNow` is the time at
which the store of the `compaction` run is first opened: starting later leaves out only
times at which, as at 4, nothing has expired. `MaxDuration` in `Config` is no bound but
the width of durations; TLC's integers are smaller than `int64`, so the instance has a
smaller one.

- Segments are ordered by number. The code sorts file names; the two agree below
  10^8 segments.
- A record is written as one unit or torn at one of three places. Lengths of 64
  KiB and more, which the encoding cannot hold, are left out.
- Power loss is modelled for the log, not for blocks, which are never fsynced.
- In `FSStore` samples are a series, a time and a value, and the head is a set; label
  matching and the order of samples are in `MemStore`.
- The query API is composed with the in-memory store, which is the head of the
  filesystem store. What the blocks add is in `FSStore` (`SelectComplete`,
  `LabelsComplete`); that `FSStore.Select` returns a series once per place it was
  found in, without merging, is not followed into the engine.
- Block sizes are counted in samples, request bodies in resources.
- Metric values are small integers. Exemplars are not read by the handlers.
- Bounds of an exponential histogram are the exponents: they order buckets alike.

## 6. Where the code and its documents disagree

Each is a run that TLC must find violated, under the behaviour of the code.

- `flush_race`: a `Commit` while `FlushHead` runs. The head is cleared as a whole
  and the log truncated up to the then current segment; samples that came after
  the snapshot are gone after a restart. No caller of `FlushHead` exists in the
  server yet.
- `recompaction`: the target directory of a compaction is named after the first
  block's time, and may be the directory of a source. In the trace a crash after the
  first merge leaves its sources, so the next start opens them and the merged block. The
  second compaction writes into the same directory, and the loop over the sources
  removes the data it has just written there; when the loop has ended, one acknowledged
  sample is in no block that opens. `plans/09-fs-persistence.md:51` asks that merged
  data be queryable.
- `histogram`: two requests with deltas of one histogram at the same time. The
  translator's lock covers one bucket, not the data point, so the lower bucket of
  a stored point may include the other request and the higher one not.

Met while modelling and not kept as runs:

- Log: `latestSegmentSeq` drops the error of `ReadDir`
  (`internal/store/wal.go:165-168`). If the directory cannot be read then and can be read
  in `Replay`, the process runs on segment 0 beside later ones: its records replay before
  older ones, segment 0 is unsynced while later ones are there, and `SegmentSeq` is 0. A
  flush then truncates nothing; and once that process, or a later one, has rotated into
  a segment that was there, a flush truncates by a number that has no relation to age.
  Without `LogListed` the `flush` run loses an acknowledged sample after 43 states: a
  process on segment 0 acknowledges a record there, beside segment 1; the next one opens
  segment 1, flushes, and truncates segment 0, newest records and all; a third is on
  segment 0 again, and its flush overwrites the block that held the record.
- Store: `os.RemoveAll` may leave `data.json` without `meta.json`
  (`internal/store/fsstore.go:289`, `304`, `321`). The directory does not open, but the
  next compaction with the same first time writes there, and a crash before it creates
  the new `data.json` leaves new times beside old data: samples that retention dropped
  come back, and may lie outside the times of their block.
- Store: a short write leaves part of a record in the segment, records appended
  after it cannot be read back, and the next start may fail (the `wal` run allows
  torn writes and says what survives). A flush whose head starts at the same time as
  an earlier block overwrites that block's directory; this is why `flush` assumes
  growing times. After a compaction the only block may exceed the size limit and is
  removed with the newest data in it. Age retention keeps expired samples that were
  merged with younger ones. Records of a batch whose `Log` failed half way stay in
  the segment and are served after a restart, although `Rollback` "discards collected
  samples" (`internal/store/interfaces.go:35`). Blocks are not fsynced before the
  log is truncated. Nothing in the server calls `FlushHead` or `Prune`, so the head
  and the log grow without limit.
- Sessions: two events of a session with one timestamp share a key, and the second
  replaces the first.
- Remote backends: a request that timed out may be stored after its retry, or after the
  next batch. The server then gets older samples behind newer ones, as a repetition, or,
  if the batch was dropped in between, for the first time.
- Partial success: `plans/06-otlp-ingestion.md:22` and `:42` ask that the points that
  succeed are written beside those that fail. `Translate` returns at the first error
  (`internal/ingest/translator.go:65-67`), so points behind it are not written, and if no
  metric before it was complete, none is (`internal/ingest/http.go:68-71`, and the same in
  `grpc.go`). No store of the repository returns an error from `Append`, so this needs
  another store; the model has it behind `AppendMayFail`, and `AnswersHonest` judges the
  answer only, not what should have been written.
- Delta totals: `plans/11-extended-otlp.md:19` and `:45` ask that a value that decreases
  be detected and no negative counter produced. `accumulateDelta` adds a negative delta
  like any other, so a total may fall and become negative. `TotalsExact` makes no claim
  about a series with a negative addition.
- Single Port Mode: `docs/config.md:55-58` and `:196-206` say that with equal
  `otlp.http.listen` and `prometheus.listen` both are served by one HTTP server. The code
  starts two; the second cannot listen, and the process ends with status 1.
- Ingestion: a request body above the limit is cut without an error, and if the rest
  decodes the client is told success. A scope without a schema URL gets the one of
  the scope before it: a stream whose scope comes first in one request and second in
  another is two series, with a delta total each. A data point that straddles an
  eviction has some totals that start again and some that do not.
- Queries: `/labels` and label values ignore `match[]`; there and in `/series` a
  malformed start or end becomes the zero time without an error; a fractional unix time
  may lose a millisecond; `NaN`, infinities and numbers beyond `int64` are taken for
  some time, which one depends on the machine; `parseStep` accepts `0s` and negative
  durations. `PrometheusRemote.Select` is always empty, and `VMRemote.Select` turns read
  errors into an empty success.
- Configuration: `wal.enabled`, `compaction.enabled` and the settings of the session
  store and of the logs receiver have no effect; the in-memory engine of `createStore`
  cannot be configured, as `validate` refuses it; a large number of days wraps, and if
  the result is not negative it is accepted; a negative timeout of a remote store is
  accepted; a malformed environment variable is passed over without notice; an integer
  is no duration.
- Shutdown: `GracefulStop` has no limit, while `plans/08-server-wiring.md:59` speaks of
  a timeout; the 30 seconds run while it waits, so the HTTP servers may get none of
  them. After an error of a server the store is closed under the handlers of the
  others. A second signal is swallowed while servers are drained and kills the
  process while the store is closed. `/healthz` answers 200 also if another listener
  failed.

## 7. Not modelled, and the plan

Not modelled for good: the PromQL engine, the codec of a record at the level of bytes
(lengths of 64 KiB and more) and the order of file names from 10^8 segments on; power
loss for block files, where the missing fsync is the result; the read side of the
remote backends, which forwards; metadata, build info, logging and CORS, whose
answers are constant; `ExtractExemplars`, which has no caller; drawing in the
dashboard; build and install scripts.

Proofs left: flushes beside compactions, for which `FlushInv` and `SelectInv` would have
to become one invariant.
