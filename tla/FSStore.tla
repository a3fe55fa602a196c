------------------------------ MODULE FSStore ------------------------------
(***************************************************************************)
(* The filesystem store of internal/store/fsstore.go: an in-memory head    *)
(* (memstore.go) in front of the write-ahead log (module WAL) and on-disk  *)
(* blocks (module Blocks).                                                 *)
(*                                                                         *)
(* Goroutines: request handlers that commit batches, the compaction loop,  *)
(* a caller of FlushHead, a reader in Select, and Close.  Every step ends  *)
(* where the code releases a lock or finishes a file operation, so that a  *)
(* crash or another goroutine may come between any two of them.            *)
(*                                                                         *)
(* The head is the set of samples it holds: the order and multiplicity in  *)
(* which a series keeps its samples play no part in what is stated here.   *)
(***************************************************************************)
EXTENDS WAL, Blocks, FiniteSetsExt

CONSTANTS
    Batch,             \* the batches of samples that are committed
    MaxCommits,        \* bound: calls of Commit in one behaviour
    Window,            \* the <<mint, maxt>> that Select is called with
    CompactionPeriod,  \* cfg.CompactionPeriod; 0: no compaction loop
    RetentionAge,      \* cfg.RetentionAge; 0: no limit
    RetentionMaxSize,  \* cfg.RetentionMaxSize, in samples; 0: no limit
    Flushed,           \* blocks that flushes of earlier processes left
    MinNow,            \* the clock when the store of `Flushed' is first opened
    MaxNow             \* bound: the clock

ASSUME FSStoreAssumption ==
    /\ Batch \subseteq Seq(Sample)
    /\ \A s \in Sample : s.t \in Int
    /\ MaxCommits \in Nat
    /\ Window \subseteq Int \X Int
    /\ CompactionPeriod \in Int
    /\ RetentionAge \in Int
    /\ RetentionMaxSize \in Int
    /\ MinNow \in Nat
    /\ MaxNow \in Nat

Block == [dir : Dir, mint : Int, maxt : Int, data : SUBSET Sample]

\* The times of a block, by which alone Select decides whether to read it.
Covers(b) == \A s \in b.data : b.mint =< s.t /\ s.t =< b.maxt

\* What FlushHead writes: a directory named for the first time in it.
ASSUME FlushedAssumption ==
    /\ Flushed \subseteq Block
    /\ IsFiniteSet(Flushed)
    /\ \A b \in Flushed : b.dir = <<"b", b.mint>> /\ Covers(b) /\ IsFiniteSet(b.data)
    /\ \A b, x \in Flushed : b.dir = x.dir => b = x

VARIABLES
    phase,    \* "down", "up", "closing" (stopCh closed) or "closed"
    mem,      \* samples in the head
    blocks,   \* s.blocks
    rd,       \* a call of Select, or of LabelNames or LabelValues
    now,      \* time.Now(), in the unit of the samples' timestamps
    commits,  \* calls of Commit so far
    acked,    \* samples of batches whose Commit returned nil
    must,     \* history: samples stored throughout the reader's call so far
    dropped,  \* history: samples of blocks that retention dropped
    evicted   \* history: those of blocks that were dropped for their size

storeVars == <<phase, mem, blocks, rd, now, commits, acked>>
vars == <<walVars, blockVars, storeVars, must, dropped, evicted>>

Elems(s) == {s[i] : i \in 1 .. Len(s)}

\* What a query can see: the head and the open blocks.
Visible == mem \cup UNION {b.data : b \in Elems(blocks)}

\* What a restart would recover: the log and the blocks that open.
Durable == Replayed \cup UNION {b.data : b \in OpenableBlocks}

Within(S, w) == {s \in S \cap Sample : w[1] =< s.t /\ s.t =< w[2]}

\* s.mu: held by compact from its first step to its last.
Compacting == job["compact"].pc \in WritePC \ {"failed"}

IdleJobs == [w \in Writer |->
    [pc  |-> IF w = "compact" /\ CompactionPeriod > 0 THEN "wait" ELSE "idle",
     blk |-> NoBlock, dirs |-> << >>, seq |-> 0]]

NoRead == [pc |-> "idle", op |-> "none", window |-> <<0, 0>>, got |-> {}]

JobPC == WritePC \cup {"idle", "wait", "published", "cleared", "truncate", "retain"}

TypeOK ==
    /\ WALTypeOK
    /\ \A d \in DOMAIN disk :
          /\ d \in Dir
          /\ disk[d].meta \subseteq [mint : Int, maxt : Int]
          /\ disk[d].data \subseteq SUBSET Sample
    /\ job \in [Writer -> [pc : JobPC, blk : Block, dirs : Seq(Dir), seq : Nat]]
    /\ phase \in {"down", "up", "closing", "closed"}
    /\ mem \subseteq Sample \cup {Garbage}
    /\ blocks \in Seq(Block)
    /\ rd.pc \in {"idle", "mem"} /\ rd.op \in {"none", "select", "labels"}
    /\ now \in Nat
    /\ commits \in Nat
    /\ acked \subseteq Sample

Init ==
    /\ WALInit
    /\ disk = << >>
    /\ job = IdleJobs
    /\ phase = "down"
    /\ mem = {}
    /\ blocks = << >>
    /\ rd = NoRead
    /\ now = 0
    /\ commits = 0
    /\ acked = {}
    /\ must = {}
    /\ dropped = {}
    /\ evicted = {}

-----------------------------------------------------------------------------
(* Start, stop and crash *)

\* openBlocks: the readable blocks, sorted by MinTime.  The order of blocks
\* with equal MinTime is not determined.
openBlocks(bs) ==
    /\ Elems(bs) = OpenableBlocks
    /\ \A i, j \in DOMAIN bs : i < j => bs[i] # bs[j] /\ bs[i].mint =< bs[j].mint

\* Slip: the log is not replayed.
NewFSStore_NoReplay ==
    /\ phase = "down"
    /\ NewWAL
    /\ \E bs \in [1 .. Cardinality(OpenableBlocks) -> OpenableBlocks] :
          openBlocks(bs) /\ blocks' = bs
    /\ mem' = {}
    /\ phase' = "up"
    /\ UNCHANGED <<blockVars, rd, now, commits, acked>>

NewFSStore ==
    /\ phase = "down"
    /\ NewWAL
    /\ \E bs \in [1 .. Cardinality(OpenableBlocks) -> OpenableBlocks] :
          openBlocks(bs) /\ blocks' = bs
    /\ ReplayMaySucceed
    /\ mem' \in ReplayResults
    /\ phase' = "up"
    /\ UNCHANGED <<blockVars, rd, now, commits, acked>>

\* NewFSStore fails: the log cannot be opened or listed, or a segment or the
\* blocks cannot be read.  The process exits; the segment was opened before.
NewFSStoreErr ==
    /\ phase = "down"
    /\ NewWALErr
    /\ UNCHANGED <<blockVars, storeVars>>

\* Close: stopCh is closed, the compaction loop is waited for, then the log
\* is closed.
Close ==
    /\ phase = "up"
    /\ phase' = "closing"
    /\ UNCHANGED <<walVars, blockVars, mem, blocks, rd, now, commits, acked>>

CloseWAL ==
    /\ phase = "closing"
    /\ job["compact"].pc = "idle"
    /\ WALClose
    /\ phase' = "closed"
    /\ UNCHANGED <<blockVars, mem, blocks, rd, now, commits, acked>>

\* The process ends, at any point: killed, or after Close.
Crash ==
    /\ phase # "down"
    /\ WALCrash
    /\ job' = IdleJobs
    /\ phase' = "down"
    /\ mem' = {}
    /\ blocks' = << >>
    /\ rd' = NoRead
    /\ UNCHANGED <<disk, now, commits, acked>>

Tick ==
    /\ now < MaxNow
    /\ now' = now + 1
    /\ UNCHANGED <<walVars, blockVars, phase, mem, blocks, rd, commits, acked>>

-----------------------------------------------------------------------------
(* fsAppender: Commit logs the batch, then adds it to the head *)

CommitStart(c) ==
    /\ commits < MaxCommits
    /\ \E b \in Batch : LogStart(c, b)
    /\ commits' = commits + 1
    /\ UNCHANGED <<blockVars, phase, mem, blocks, rd, now, acked>>

CommitLog(c) ==
    /\ LogStep(c)
    /\ UNCHANGED <<blockVars, storeVars>>

\* appendSamples under mem.mu; the handler answers success.
CommitMem(c) ==
    /\ log[c].pc = "ok"
    /\ mem' = mem \cup Elems(log[c].recs)
    /\ acked' = acked \cup Elems(log[c].recs)
    /\ LogDone(c)
    /\ UNCHANGED <<blockVars, phase, blocks, rd, now, commits>>

\* Slip: the samples go to the head although Log failed.
CommitErr_FallsThrough(c) ==
    /\ log[c].pc = "err"
    /\ mem' = mem \cup Elems(log[c].recs)
    /\ LogDone(c)
    /\ UNCHANGED <<blockVars, phase, blocks, rd, now, commits, acked>>

\* Log failed: Commit returns the error and the handler calls Rollback, which
\* drops the pending samples.
CommitErr(c) ==
    /\ log[c].pc = "err"
    /\ LogDone(c)
    /\ UNCHANGED <<blockVars, phase, mem, blocks, rd, now, commits, acked>>

Commit(c) == CommitStart(c) \/ CommitLog(c) \/ CommitMem(c) \/ CommitErr(c)

-----------------------------------------------------------------------------
(* Select, LabelNames and LabelValues: the head first, then, under s.mu,   *)
(* the blocks.  A matcher only leaves series out, so there is none here.   *)

ReadMem(op) ==
    /\ phase # "down"
    /\ rd.pc = "idle"
    /\ \E w \in Window :
          rd' = [pc |-> "mem", op |-> op, window |-> w, got |-> Within(mem, w)]
    /\ UNCHANGED <<walVars, blockVars, phase, mem, blocks, now, commits, acked>>

\* Slip: a block that ends where the query starts is skipped.
Overlaps_Strict(b, w) == ~ (b.maxt =< w[1] \/ b.mint > w[2])

Overlaps(b, w) == ~ (b.maxt < w[1] \/ b.mint > w[2])

OverlappingBlocks(w) == {b \in Elems(blocks) : Overlaps(b, w)}

\* What Select returns when it gets s.mu now.
SelectResult ==
    rd.got \cup UNION {Within(b.data, rd.window) : b \in OverlappingBlocks(rd.window)}

\* Slip: blocks are not asked for their labels.
LabelsResult_HeadOnly == {s.series : s \in rd.got}

\* The series whose labels LabelNames and LabelValues return.  In the head a
\* series needs a sample in the range; in a block that overlaps it does not.
LabelsResult ==
    {s.series : s \in rd.got \cup UNION {b.data : b \in OverlappingBlocks(rd.window)}}

ReadBlocks(op) ==
    /\ rd.pc = "mem"
    /\ rd.op = op
    /\ ~ Compacting
    /\ rd' = NoRead
    /\ UNCHANGED <<walVars, blockVars, phase, mem, blocks, now, commits, acked>>

Select == ReadMem("select") \/ ReadBlocks("select")

LabelNames == ReadMem("labels") \/ ReadBlocks("labels")

-----------------------------------------------------------------------------
(* FlushHead *)

\* The snapshot under mem.mu; an empty head is not flushed.
FlushSnapshot ==
    /\ phase # "down"
    /\ job["flush"].pc \in {"idle", "failed"}
    /\ mem \cap Sample # {}
    /\ LET data == mem \cap Sample
           mint == Min(Times(data))
       IN  job' = [job EXCEPT !["flush"] =
              [pc |-> "createMeta", dirs |-> << >>, seq |-> 0,
               blk |-> [dir |-> <<"b", mint>>, mint |-> mint,
                        maxt |-> Max(Times(data)), data |-> data]]]
    /\ UNCHANGED <<walVars, disk, storeVars>>

FlushWrite ==
    /\ writeBlock("flush")
    /\ UNCHANGED <<walVars, storeVars>>

\* Slip: the block is written and not added to s.blocks.
FlushPublish_Forgotten ==
    /\ job["flush"].pc = "written"
    /\ job' = [job EXCEPT !["flush"].pc = "published"]
    /\ UNCHANGED <<walVars, disk, storeVars>>

FlushPublish ==
    /\ job["flush"].pc = "written"
    /\ ~ Compacting
    /\ blocks' = Append(blocks, job["flush"].blk)
    /\ job' = [job EXCEPT !["flush"].pc = "published"]
    /\ UNCHANGED <<walVars, disk, phase, mem, rd, now, commits, acked>>

\* All series are dropped from the head, not only the ones in the snapshot.
FlushClear ==
    /\ job["flush"].pc = "published"
    /\ mem' = {}
    /\ job' = [job EXCEPT !["flush"].pc = "cleared"]
    /\ UNCHANGED <<walVars, disk, phase, blocks, rd, now, commits, acked>>

FlushSeq ==
    /\ job["flush"].pc = "cleared"
    /\ MuFree
    /\ job' = [job EXCEPT !["flush"].seq = segmentSeq, !["flush"].pc = "truncate"]
    /\ UNCHANGED <<walVars, disk, storeVars>>

\* An error of Truncate is only logged.
FlushTruncate ==
    /\ job["flush"].pc = "truncate"
    /\ Truncate(job["flush"].seq)
    /\ job' = [job EXCEPT !["flush"] = IdleJobs["flush"]]
    /\ UNCHANGED <<disk, storeVars>>

FlushHead ==
    \/ FlushSnapshot \/ FlushWrite \/ FlushPublish
    \/ FlushClear \/ FlushSeq \/ FlushTruncate

-----------------------------------------------------------------------------
(* The compaction loop: compact, then applyRetention, at every tick *)

\* Fewer than two blocks: compact returns at once.
CompactNothing ==
    /\ phase # "down"
    /\ job["compact"].pc = "wait"
    /\ Len(blocks) < 2
    /\ job' = [job EXCEPT !["compact"].pc = "retain"]
    /\ UNCHANGED <<walVars, disk, storeVars>>

CompactStart ==
    /\ phase # "down"
    /\ job["compact"].pc = "wait"
    /\ Len(blocks) >= 2
    /\ \E data \in MergeResults(blocks) :
          job' = [job EXCEPT !["compact"] =
             [pc |-> "createMeta", seq |-> 0,
              dirs |-> [i \in DOMAIN blocks |-> blocks[i].dir],
              blk |-> [dir |-> <<"c", blocks[1].mint>>,
                       mint |-> Min({b.mint : b \in Elems(blocks)}),
                       maxt |-> Max({b.maxt : b \in Elems(blocks)}),
                       data |-> data]]]
    /\ UNCHANGED <<walVars, disk, storeVars>>

CompactWrite ==
    /\ writeBlock("compact")
    /\ UNCHANGED <<walVars, storeVars>>

\* The error of compact is logged; retention runs all the same.
CompactFailed ==
    /\ job["compact"].pc = "failed"
    /\ job' = [job EXCEPT !["compact"].pc = "retain"]
    /\ UNCHANGED <<walVars, disk, storeVars>>

CompactRemove ==
    /\ job["compact"].pc = "written"
    /\ job["compact"].dirs # << >>
    /\ RemoveAll({Head(job["compact"].dirs)})
    /\ job' = [job EXCEPT !["compact"].dirs = Tail(@)]
    /\ UNCHANGED <<walVars, storeVars>>

CompactPublish ==
    /\ job["compact"].pc = "written"
    /\ job["compact"].dirs = << >>
    /\ blocks' = <<job["compact"].blk>>
    /\ job' = [job EXCEPT !["compact"].pc = "retain"]
    /\ UNCHANGED <<walVars, disk, phase, mem, rd, now, commits, acked>>

\* blockDiskSize, in samples; 0 for a directory that is gone.
blockDiskSize(dir) == Cardinality(UNION FilesOf(dir).data)

Expired(b) == RetentionAge > 0 /\ b.maxt < now - RetentionAge

\* The total size after the k oldest blocks are dropped.
SizeAfter(bs, k) ==
    MapThenSumSet(LAMBDA i : blockDiskSize(bs[i].dir), DOMAIN bs)
      - MapThenSumSet(blockDiskSize, {bs[i].dir : i \in 1 .. k})

\* Slip: a total that equals the limit is over it.
Oversize_AtLimit(bs, k) ==
    /\ k \in 0 .. Len(bs)
    /\ \A j \in 0 .. k - 1 : SizeAfter(bs, j) >= RetentionMaxSize
    /\ k < Len(bs) => SizeAfter(bs, k) < RetentionMaxSize

\* How many of the oldest blocks the size limit drops.
Oversize(bs, k) ==
    /\ k \in 0 .. Len(bs)
    /\ RetentionMaxSize =< 0 => k = 0
    /\ RetentionMaxSize > 0 =>
          /\ \A j \in 0 .. k - 1 : SizeAfter(bs, j) > RetentionMaxSize
          /\ k < Len(bs) => SizeAfter(bs, k) =< RetentionMaxSize

\* The elements of bs at the positions I, in their order: there is one such
\* sequence.
InOrder(bs, I) ==
    {[j \in DOMAIN at |-> bs[at[j]]] :
        at \in {f \in [1 .. Cardinality(I) -> I] :
                   \A i, j \in DOMAIN f : i < j => f[i] < f[j]}}

\* applyRetention, in one step: it holds s.mu, and a crash between two
\* removals leaves what a failing RemoveAll leaves.
ApplyRetention ==
    /\ job["compact"].pc = "retain"
    /\ \E kept \in InOrder(blocks, {i \in DOMAIN blocks : ~ Expired(blocks[i])}) :
       \E k \in 0 .. Len(kept) :
          /\ Oversize(kept, k)
          /\ blocks' = SubSeq(kept, k + 1, Len(kept))
          /\ RemoveAll({b.dir : b \in {b \in Elems(blocks) : Expired(b)}}
                         \cup {kept[i].dir : i \in 1 .. k})
    /\ job' = [job EXCEPT !["compact"] = IdleJobs["compact"]]
    /\ UNCHANGED <<walVars, phase, mem, rd, now, commits, acked>>

\* Slip: the loop waits for the log to be closed first.
CompactExit_TooLate ==
    /\ job["compact"].pc = "wait"
    /\ phase = "closed"
    /\ job' = [job EXCEPT !["compact"].pc = "idle"]
    /\ UNCHANGED <<walVars, disk, storeVars>>

\* select: stopCh is closed.
CompactExit ==
    /\ job["compact"].pc = "wait"
    /\ phase = "closing"
    /\ job' = [job EXCEPT !["compact"].pc = "idle"]
    /\ UNCHANGED <<walVars, disk, storeVars>>

compact ==
    \/ CompactNothing \/ CompactStart \/ CompactWrite \/ CompactFailed
    \/ CompactRemove \/ CompactPublish \/ ApplyRetention

compactionLoop == compact \/ CompactExit

-----------------------------------------------------------------------------
(* Specifications *)

\* The blocks that applyRetention drops in this step.
Dropping ==
    IF job["compact"].pc = "retain" /\ phase' # "down"
    THEN Elems(blocks) \ Elems(blocks') ELSE {}

\* History.  Of one reading: what was visible in its window from the moment it
\* read the head until now.  Of retention: what went, and what of it went
\* without being too old.
Track ==
    /\ must' = CASE rd'.pc = "idle" -> {}
                 [] rd.pc = "idle" /\ rd'.pc = "mem" -> Within(Visible, rd'.window)
                 [] OTHER -> must \cap Visible'
    /\ dropped' = dropped \cup UNION {b.data : b \in Dropping}
    /\ evicted' = evicted \cup UNION {b.data : b \in {b \in Dropping : ~ Expired(b)}}

ServerStep ==
    \/ NewFSStore \/ NewFSStoreErr \/ Close \/ CloseWAL \/ Crash \/ Tick
    \/ \E c \in Caller : Commit(c)
    \/ Select \/ LabelNames
    \/ compactionLoop

\* What the server runs: cmd/server/main.go never calls FlushHead.
ServerNext == ServerStep /\ Track

\* The store with all its operations.
Next == (ServerStep \/ FlushHead) /\ Track

Spec == Init /\ [][Next]_vars

ServerSpec == Init /\ [][ServerNext]_vars

\* The same, started on the blocks `Flushed' with an empty log.
FlushedInit ==
    /\ WALInit
    /\ disk = [d \in {b.dir : b \in Flushed} |->
                 [meta |-> {[mint |-> b.mint, maxt |-> b.maxt] :
                               b \in {x \in Flushed : x.dir = d}},
                  data |-> {b.data : b \in {x \in Flushed : x.dir = d}}]]
    /\ job = IdleJobs
    /\ phase = "down"
    /\ mem = {}
    /\ blocks = << >>
    /\ rd = NoRead
    /\ now = MinNow
    /\ commits = 0
    /\ acked = UNION {b.data : b \in Flushed}
    /\ must = {}
    /\ dropped = {}
    /\ evicted = {}

FlushedSpec == FlushedInit /\ [][ServerNext]_vars

(***************************************************************************)
(* Disciplined uses of FlushHead and of compaction.  Nothing in the code   *)
(* enforces any of the four conditions.                                    *)
(***************************************************************************)

\* No Commit is running while FlushHead runs.
Exclusive ==
    ~ /\ job["flush"].pc \notin {"idle", "failed"}
      /\ \E c \in Caller : log[c].pc # "idle"

LaterThanAll(recs, S) ==
    \A i \in 1 .. Len(recs) :
       /\ \A s \in S : s.t < recs[i].t
       /\ \A j \in 1 .. i - 1 : recs[j].t < recs[i].t

\* Timestamps grow along the log.
GrowingTimes ==
    \A c \in Caller :
       log[c].pc = "idle" /\ log'[c].pc = "writing"
          => LaterThanAll(log'[c].recs, Durable \cup Visible)

\* No process starts on segment 0 for want of a listing of the log.
LogListed ==
    segment = "none" /\ segment' = "open" => \A s \in DOMAIN files : s =< segmentSeq'

\* No block that is compacted is itself the result of a compaction.
FirstCompaction ==
    job["compact"].pc = "wait" /\ job'["compact"].pc = "createMeta"
       => \A b \in Elems(blocks) : b.dir[1] = "b"

DisciplinedSpec == Init /\ [][Next /\ Exclusive' /\ GrowingTimes /\ LogListed]_vars

(***************************************************************************)
(* Fairness: goroutines that can run do run.  The select of the loop takes *)
(* one of its ready cases at random, so a closed stopCh is not passed over *)
(* for ever; a Go mutex is not withheld from a waiter for ever.            *)
(***************************************************************************)
Fairness ==
    /\ WF_vars(compact /\ FirstCompaction /\ Track)
    /\ SF_vars(CompactExit /\ Track)
    /\ SF_vars(CloseWAL /\ Track)
    /\ WF_vars(Tick /\ Track)
    /\ \A c \in Caller : WF_vars((CommitLog(c) \/ CommitMem(c) \/ CommitErr(c)) /\ Track)

FirstCompactionSpec ==
    FlushedInit /\ [][ServerNext /\ FirstCompaction]_vars /\ Fairness

-----------------------------------------------------------------------------
(* Properties *)

\* No acknowledged sample is lost by a crash: at every moment, whatever is
\* half done, a restart succeeds and finds every sample of every batch whose
\* Commit returned nil, in the log or in a block that opens.
AckedDurable ==
    /\ acked # {} => ~ ReplayMayFail
    /\ acked \subseteq Durable

\* While the store is open a query can see every acknowledged sample, in the
\* head or in an open block, also after restarts and during a flush or a
\* compaction.
AckedVisible == phase # "down" => acked \subseteq Visible

\* Select, which reads the head and the blocks at different moments, misses
\* no sample that was stored all the time in between: a flush publishes its
\* block before it clears the head, and the times of a block, by which alone
\* Select decides whether to read it, cover its samples.  Only samples that
\* retention dropped once may come back, in a directory that was removed half
\* and written again, under times that are not theirs.
SelectComplete ==
    [][ReadBlocks("select") => must \ dropped \subseteq SelectResult]_vars

\* Nor do LabelNames and LabelValues miss the labels of a series that had a
\* sample in the range all the time, while a flush moves it; dropped samples
\* that come back are again no matter.
LabelsComplete ==
    [][ReadBlocks("labels") => {s.series : s \in must \ dropped} \subseteq LabelsResult]_vars

\* Compaction and retention keep what they should: every (series, time) of an
\* acknowledged sample that is within RetentionAge, was in no block that went
\* for its size, and whose labels hash like those of no other series, is on
\* disk and in memory, whatever was merged into its block and however the
\* clock, compaction, retention, crashes and restarts alternate.  Of samples
\* with equal time compaction keeps any one.
KeysKept ==
    \A a \in acked :
       /\ RetentionAge > 0 => a.t >= now - RetentionAge
       /\ \A s \in evicted : ~ (s.series = a.series /\ s.t = a.t)
       /\ \A s \in acked : HashOf[s.series] = HashOf[a.series] => s.series = a.series
       => LET hasKey(S) == \E s \in S : s.series = a.series /\ s.t = a.t
          IN  hasKey(Durable) /\ (phase # "down" => hasKey(Visible))

\* Compaction loses nothing: when compact has removed its sources, the merged
\* block, which plans/09-fs-persistence.md:51 calls queryable, is on disk and a
\* restart would find every acknowledged sample.
MergedDurable ==
    job["compact"].pc = "written" /\ job["compact"].dirs = << >> => acked \subseteq Durable

\* The samples on disk in the directories of some blocks.
DiskSize(bs) == MapThenSumSet(blockDiskSize, {b.dir : b \in bs})

\* Retention by size, if there is a limit, leaves open blocks that fit
\* RetentionMaxSize, counting what is then on disk, and drops a block for its
\* size only if that block and the younger ones did not fit.
SizeLimitTight ==
    [][ApplyRetention =>
         /\ RetentionMaxSize > 0 => DiskSize(Elems(blocks))' =< RetentionMaxSize
         /\ \A b \in Elems(blocks) \ Elems(blocks') :
               ~ Expired(b) =>
                  /\ RetentionMaxSize > 0
                  /\ DiskSize({x \in Elems(blocks) : ~ Expired(x) /\ x.mint >= b.mint})
                        > RetentionMaxSize]_vars

\* The store implements the abstract store of module MetricStore: a batch is
\* durable before it is acknowledged and visible as a whole when it is, and a
\* restart shows exactly what the log and the blocks hold.
Abstract == INSTANCE MetricStore WITH
    up <- phase # "down", durable <- Durable, visible <- Visible

ImplementsMetricStore == Abstract!Spec

\* Close ends: once stopCh is closed the compaction loop leaves, whatever it
\* was doing, and the log is closed.
CloseEnds == phase = "closing" ~> phase \in {"closed", "down"}

=============================================================================
