-------------------------------- MODULE WAL --------------------------------
(***************************************************************************)
(* The write-ahead log of internal/store/wal.go: numbered segment files,   *)
(* appended under the mutex w.mu, rotated by size, replayed at start-up    *)
(* and removed from the front once their contents are in a block.          *)
(*                                                                         *)
(* A record is one unit of segment size.  A segment is the sequence of     *)
(* chunks written to it; a chunk is a whole record, or the part of one     *)
(* that reached the disk before Write returned an error.  Bytes are kept   *)
(* only as far as the decoder tells them apart (see `Cut').                *)
(*                                                                         *)
(* The module has no specification of its own: WALClient drives it alone   *)
(* and FSStore puts the store on top of it.                                *)
(***************************************************************************)
EXTENDS Integers, Sequences, FiniteSets

CONSTANTS
    Sample,      \* what a walRecord holds: [series, t, v]
    Garbage,     \* what the decoder makes of bytes that are no record
    Caller,      \* goroutines that call Log
    MaxSegSize,  \* maxSegSize, in records
    Tearing      \* TRUE: Write may store part of a record and fail

ASSUME WALAssumption ==
    /\ Garbage \notin Sample
    /\ MaxSegSize \in Int
    /\ Tearing \in BOOLEAN

VARIABLES
    files,        \* segment number -> the chunks in that file
    synced,       \* segment number -> how many of its chunks were fsynced
    segment,      \* w.segment: "none" (no process), "open" or "closed"
    segmentSeq,   \* w.segmentSeq
    segmentSize,  \* w.segmentSize
    log           \* per caller: its call of Log

walVars == <<files, synced, segment, segmentSeq, segmentSize, log>>

(***************************************************************************)
(* Where a torn record ends: inside the four size bytes, just after them,  *)
(* or inside the body.                                                     *)
(***************************************************************************)
Cut == {"head", "size", "body"}

Chunk == [rec : Sample, cut : Cut \cup {"none"}]

Whole(r) == [rec |-> r, cut |-> "none"]

(***************************************************************************)
(* A call of Log: "writing" records, "sync" and "open" inside rotate, and  *)
(* "ok" or "err" once it has returned and released w.mu.  n is the number  *)
(* of records written so far.                                              *)
(***************************************************************************)
LogCall == [pc : {"idle", "writing", "sync", "open", "ok", "err"},
            recs : Seq(Sample), n : Nat]

NoCall == [pc |-> "idle", recs |-> <<>>, n |-> 0]

InLog(c) == log[c].pc \in {"writing", "sync", "open"}

\* Slip: w.mu is not taken.
MuFree_NoLock == TRUE

\* w.mu is free: no goroutine is inside Log.  Truncate, Close and SegmentSeq
\* hold it for one step only.
MuFree == \A c \in Caller : ~ InLog(c)

WALTypeOK ==
    /\ DOMAIN files \subseteq Nat
    /\ \A s \in DOMAIN files : files[s] \in Seq(Chunk)
    /\ DOMAIN synced = DOMAIN files
    /\ \A s \in DOMAIN files : synced[s] \in 0 .. Len(files[s])
    /\ segment \in {"none", "open", "closed"}
    /\ segmentSeq \in Nat
    /\ segmentSize \in Nat
    /\ log \in [Caller -> LogCall]

WALInit ==
    /\ files = << >>
    /\ synced = << >>
    /\ segment = "none"
    /\ segmentSeq = 0
    /\ segmentSize = 0
    /\ log = [c \in Caller |-> NoCall]

-----------------------------------------------------------------------------
(* Opening and closing *)

\* The largest segment number on disk; 0 if there is none, and 0 as well if
\* ReadDir fails, for its error is dropped.
latestSegmentSeq(seq) ==
    \/ /\ seq \in DOMAIN files
       /\ \A s \in DOMAIN files : s =< seq
    \/ seq = 0

\* O_CREATE|O_APPEND: a file that exists keeps its contents.
CreateFile(seq) ==
    files' = [s \in DOMAIN files \cup {seq} |->
                 IF s \in DOMAIN files THEN files[s] ELSE << >>]

OpenFile(seq) ==
    /\ CreateFile(seq)
    /\ synced' = [s \in DOMAIN files \cup {seq} |->
                    IF s \in DOMAIN files THEN synced[s] ELSE 0]

OpenSegment(seq) ==
    /\ OpenFile(seq)
    /\ segment' = "open"
    /\ segmentSeq' = seq

\* Slip: numbers taken as counted from one.
NewWAL_OneBased ==
    /\ segment = "none"
    /\ \E seq \in DOMAIN files \cup {0} :
          /\ latestSegmentSeq(seq)
          /\ OpenSegment(seq - 1)
          /\ segmentSize' = 0
    /\ UNCHANGED log

NewWAL ==
    /\ segment = "none"
    /\ \E seq \in DOMAIN files \cup {0} :
          /\ latestSegmentSeq(seq)
          /\ OpenSegment(seq)
          /\ segmentSize' = IF seq \in DOMAIN files THEN Len(files[seq]) ELSE 0
    /\ UNCHANGED log

\* The file is opened, and a Close follows that syncs it.
OpenAndSync(seq) ==
    /\ CreateFile(seq)
    /\ synced' = [s \in DOMAIN files \cup {seq} |->
                    IF s = seq THEN Len(files'[seq]) ELSE synced[s]]

\* NewWAL, or what its caller does next, fails after the file was opened: the
\* process exits, and a segment that was not there is left, empty.  The caller
\* closes the log first, which syncs the segment if Sync does not fail.
NewWALErr ==
    /\ segment = "none"
    /\ \E seq \in DOMAIN files \cup {0} :
          latestSegmentSeq(seq) /\ (OpenFile(seq) \/ OpenAndSync(seq))
    /\ UNCHANGED <<segment, segmentSeq, segmentSize, log>>

\* Close syncs and closes; Sync of a file that is already closed fails, and a
\* failing Sync leaves the segment open.
WALClose ==
    /\ segment # "none"
    /\ MuFree
    /\ \/ /\ segment = "open"
          /\ synced' = [synced EXCEPT ![segmentSeq] = Len(files[segmentSeq])]
          /\ segment' = "closed"
       \/ UNCHANGED <<synced, segment>>
    /\ UNCHANGED <<files, segmentSeq, segmentSize, log>>

-----------------------------------------------------------------------------
(* Log *)

LogStart(c, recs) ==
    /\ segment # "none"
    /\ log[c].pc = "idle"
    /\ MuFree
    /\ log' = [log EXCEPT ![c] = [pc |-> "writing", recs |-> recs, n |-> 0]]
    /\ UNCHANGED <<files, synced, segment, segmentSeq, segmentSize>>

LogNext(c) == log[c].recs[log[c].n + 1]

LogPending(c) == log[c].pc = "writing" /\ log[c].n < Len(log[c].recs)

LogFails(c) == log' = [log EXCEPT ![c].pc = "err"]

LogWrite(c) ==
    /\ LogPending(c)
    /\ segment = "open"
    /\ files' = [files EXCEPT ![segmentSeq] = Append(@, Whole(LogNext(c)))]
    /\ segmentSize' = segmentSize + 1
    /\ log' = [log EXCEPT ![c] =
                  [pc   |-> IF segmentSize + 1 >= MaxSegSize THEN "sync" ELSE "writing",
                   recs |-> @.recs,
                   n    |-> @.n + 1]]
    /\ UNCHANGED <<synced, segment, segmentSeq>>

\* Slip: the error of Write is not looked at.
LogWriteErr_Ignored(c) ==
    /\ LogPending(c)
    /\ log' = [log EXCEPT ![c].n = @ + 1]
    /\ UNCHANGED <<files, synced, segment, segmentSeq, segmentSize>>

\* Write fails and stores nothing: the disk refuses, or the segment is closed.
LogWriteErr(c) ==
    /\ LogPending(c)
    /\ LogFails(c)
    /\ UNCHANGED <<files, synced, segment, segmentSeq, segmentSize>>

\* Slip: a short write is taken for a whole one.
LogWriteTorn_Accepted(c) ==
    /\ Tearing
    /\ LogPending(c)
    /\ segment = "open"
    /\ files' = [files EXCEPT ![segmentSeq] =
                    Append(@, [rec |-> LogNext(c), cut |-> "body"])]
    /\ log' = [log EXCEPT ![c].n = @ + 1]
    /\ UNCHANGED <<synced, segment, segmentSeq, segmentSize>>

\* Write stores part of the record and fails; n is not added to segmentSize.
LogWriteTorn(c) ==
    /\ Tearing
    /\ LogPending(c)
    /\ segment = "open"
    /\ \E cut \in Cut :
          files' = [files EXCEPT ![segmentSeq] =
                       Append(@, [rec |-> LogNext(c), cut |-> cut])]
    /\ LogFails(c)
    /\ UNCHANGED <<synced, segment, segmentSeq, segmentSize>>

LogReturn(c) ==
    /\ log[c].pc = "writing"
    /\ log[c].n = Len(log[c].recs)
    /\ log' = [log EXCEPT ![c].pc = "ok"]
    /\ UNCHANGED <<files, synced, segment, segmentSeq, segmentSize>>

\* Slip: rotate closes without Sync.
RotateSync_CloseOnly(c) ==
    /\ log[c].pc = "sync"
    /\ segment' = "closed"
    /\ log' = [log EXCEPT ![c].pc = "open"]
    /\ UNCHANGED <<files, synced, segmentSeq, segmentSize>>

\* First half of rotate: Sync and Close.
RotateSync(c) ==
    /\ log[c].pc = "sync"
    /\ synced' = [synced EXCEPT ![segmentSeq] = Len(files[segmentSeq])]
    /\ segment' = "closed"
    /\ log' = [log EXCEPT ![c].pc = "open"]
    /\ UNCHANGED <<files, segmentSeq, segmentSize>>

\* Sync fails and the segment stays open, or Close fails after Sync and the
\* handle is unusable.
RotateSyncErr(c) ==
    /\ log[c].pc = "sync"
    /\ \/ UNCHANGED <<synced, segment>>
       \/ /\ synced' = [synced EXCEPT ![segmentSeq] = Len(files[segmentSeq])]
          /\ segment' = "closed"
    /\ LogFails(c)
    /\ UNCHANGED <<files, segmentSeq, segmentSize>>

\* Second half of rotate: the next segment is created and becomes current.
RotateOpen(c) ==
    /\ log[c].pc = "open"
    /\ OpenSegment(segmentSeq + 1)
    /\ segmentSize' = 0
    /\ log' = [log EXCEPT ![c].pc = "writing"]

\* OpenFile fails: segmentSeq was advanced, the handle is the closed one.
RotateOpenErr(c) ==
    /\ log[c].pc = "open"
    /\ segmentSeq' = segmentSeq + 1
    /\ LogFails(c)
    /\ UNCHANGED <<files, synced, segment, segmentSize>>

LogStep(c) ==
    \/ LogWrite(c) \/ LogWriteErr(c) \/ LogWriteTorn(c) \/ LogReturn(c)
    \/ RotateSync(c) \/ RotateSyncErr(c)
    \/ RotateOpen(c) \/ RotateOpenErr(c)

\* The caller has seen Log's result.
LogDone(c) ==
    /\ log' = [log EXCEPT ![c] = NoCall]
    /\ UNCHANGED <<files, synced, segment, segmentSeq, segmentSize>>

-----------------------------------------------------------------------------
(* Truncate *)

\* Slip: the segment `before' is removed too.
TruncatedSets_Inclusive(before) == {{s \in DOMAIN files : s =< before}}

\* The segments a call may have removed when it returns: all below `before',
\* or, when a Remove fails, those that ReadDir lists before the failing one.
TruncatedSets(before) ==
    LET old == {s \in DOMAIN files : s < before}
    IN  {old} \cup {{s \in old : s < k} : k \in old}

Truncate(before) ==
    /\ segment # "none"
    /\ MuFree
    /\ \E gone \in TruncatedSets(before) :
          /\ files' = [s \in DOMAIN files \ gone |-> files[s]]
          /\ synced' = [s \in DOMAIN files \ gone |-> synced[s]]
    /\ UNCHANGED <<segment, segmentSeq, segmentSize, log>>

-----------------------------------------------------------------------------
(* Crashes *)

\* The process is killed: memory is gone, what was written is in the files.
WALCrash ==
    /\ segment # "none"
    /\ segment' = "none"
    /\ segmentSeq' = 0
    /\ segmentSize' = 0
    /\ log' = [c \in Caller |-> NoCall]
    /\ UNCHANGED <<files, synced>>

\* The machine loses power: of each file the fsynced chunks and some more of
\* the written ones survive, and a file of which nothing was fsynced may be
\* gone (external: the kernel and the disk).  What survives is on the disk.
WALPowerLoss ==
    /\ segment # "none"
    /\ segment' = "none"
    /\ segmentSeq' = 0
    /\ segmentSize' = 0
    /\ log' = [c \in Caller |-> NoCall]
    /\ \E lost \in SUBSET {s \in DOMAIN files : synced[s] = 0} :
       \E len \in [DOMAIN files \ lost -> UNION {0 .. Len(files[s]) : s \in DOMAIN files}] :
          /\ \A s \in DOMAIN len : len[s] \in synced[s] .. Len(files[s])
          /\ files' = [s \in DOMAIN len |-> SubSeq(files[s], 1, len[s])]
          /\ synced' = len

-----------------------------------------------------------------------------
(***************************************************************************)
(* Replay.  decodeWALRecord reads whole records up to the first tear.  If  *)
(* the tear is the last thing in the segment, io.ReadFull reports          *)
(* ErrUnexpectedEOF, an error, unless exactly the size bytes are there: a  *)
(* body of which no byte can be read is io.EOF, the clean end.  If records *)
(* follow the tear, their bytes are taken for the missing ones: decoding   *)
(* fails, panics, or goes on with records that were never written.         *)
(***************************************************************************)
WholePrefix(f) == {i \in 1 .. Len(f) : \A j \in 1 .. i : f[j].cut = "none"}

EndsTorn(f) ==
    \E i \in 1 .. Len(f) :
       /\ i = Len(f)
       /\ \A j \in 1 .. i - 1 : f[j].cut = "none"
       /\ f[i].cut \in {"head", "body"}

Garbled(f) == \E i \in 1 .. Len(f) - 1 : f[i].cut # "none"

ReplayedSegment(f) == {f[i].rec : i \in WholePrefix(f)}

Replayed == UNION {ReplayedSegment(files[s]) : s \in DOMAIN files}

\* What may come out of the bytes that follow a tear.
Misread ==
    UNION {{Garbage} \cup {files[s][i].rec : i \in 1 .. Len(files[s])} :
              s \in {s \in DOMAIN files : Garbled(files[s])}}

ReplayMayFail == \E s \in DOMAIN files : EndsTorn(files[s]) \/ Garbled(files[s])

ReplayMaySucceed == \A s \in DOMAIN files : ~ EndsTorn(files[s])

\* The sets of records a successful Replay hands to its callback.
ReplayResults == {Replayed \cup extra : extra \in SUBSET Misread}

=============================================================================
