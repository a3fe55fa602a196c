----------------------------- MODULE WALProofs -----------------------------
(***************************************************************************)
(* Facts about the operations of module WAL that the theorems about        *)
(* WALClient and FSStore rest on: every operation keeps WALTypeOK and, as  *)
(* long as no write tears, a log that replays to all that was written.     *)
(***************************************************************************)
EXTENDS WAL, TLAPS

\* No record was written in part.
NoTearsIn(fs) ==
    \A s \in DOMAIN fs : \A i \in 1 .. Len(fs[s]) : fs[s][i].cut = "none"

NoTears == NoTearsIn(files)

\* The segment Log appends to is on disk.
OpenOnDisk == segment = "open" => segmentSeq \in DOMAIN files

\* Inside rotate and before it, w.segment is what the code there expects.
RotateState ==
    \A c \in Caller :
       /\ log[c].pc \in {"writing", "sync", "open"} => segment # "none"
       /\ log[c].pc = "sync" => segment = "open"
       /\ log[c].pc = "open" => segment = "closed"
       /\ \A d \in Caller : InLog(c) /\ InLog(d) => c = d

\* A call of Log has written the first n records of its batch, all of them
\* when it returns nil.
LogProgress ==
    \A c \in Caller :
       /\ log[c].n =< Len(log[c].recs)
       /\ log[c].pc = "ok" => log[c].n = Len(log[c].recs)
       /\ \A i \in 1 .. log[c].n : log[c].recs[i] \in Replayed

WALSafe == NoTears /\ OpenOnDisk /\ RotateState /\ LogProgress

-----------------------------------------------------------------------------

\* Without tears a record is replayed exactly if it is somewhere in a file:
\* decodeWALRecord reads every chunk up to the end of the segment.
LEMMA ReplayedWithoutTears ==
    ASSUME NEW fs, NoTearsIn(fs), NEW r
    PROVE  r \in UNION {ReplayedSegment(fs[s]) : s \in DOMAIN fs}
             <=> \E s \in DOMAIN fs : \E i \in 1 .. Len(fs[s]) : fs[s][i].rec = r
<1>1. \A s \in DOMAIN fs : WholePrefix(fs[s]) = 1 .. Len(fs[s])
  <2> SUFFICES ASSUME NEW s \in DOMAIN fs
               PROVE  WholePrefix(fs[s]) = 1 .. Len(fs[s])
      OBVIOUS
  <2>1. ASSUME NEW i \in 1 .. Len(fs[s]), NEW j \in 1 .. i
        PROVE  fs[s][j].cut = "none"
      BY DEF NoTearsIn
  <2> QED BY <2>1 DEF WholePrefix
<1> QED BY <1>1 DEF ReplayedSegment

\* Without tears Replay returns no error.
LEMMA NoTearsNoError ==
    ASSUME NoTears, WALTypeOK
    PROVE  ~ ReplayMayFail /\ Misread = {}
<1>1. ASSUME NEW s \in DOMAIN files
      PROVE  ~ EndsTorn(files[s]) /\ ~ Garbled(files[s])
  <2>1. Len(files[s]) \in Nat
      BY DEF WALTypeOK
  <2>2. \A i \in 1 .. Len(files[s]) : files[s][i].cut = "none"
      BY DEF NoTears, NoTearsIn
  <2> QED BY <2>1, <2>2 DEF EndsTorn, Garbled
<1> QED BY <1>1 DEF ReplayMayFail, Misread

-----------------------------------------------------------------------------
(* Every operation keeps the type invariant. *)

LEMMA OpenFileType ==
    ASSUME WALTypeOK, NEW seq \in Nat, OpenFile(seq)
    PROVE  /\ DOMAIN files' = DOMAIN files \cup {seq}
           /\ DOMAIN synced' = DOMAIN files'
           /\ \A s \in DOMAIN files : files'[s] = files[s] /\ synced'[s] = synced[s]
           /\ seq \notin DOMAIN files => files'[seq] = << >> /\ synced'[seq] = 0
           /\ DOMAIN files' \subseteq Nat
           /\ \A s \in DOMAIN files' : files'[s] \in Seq(Chunk) /\ synced'[s] \in 0 .. Len(files'[s])
BY DEF WALTypeOK, OpenFile, CreateFile

\* The same of a segment that may be synced as soon as it is open.
LEMMA OpenedFileType ==
    ASSUME WALTypeOK, NEW seq \in Nat, OpenFile(seq) \/ OpenAndSync(seq)
    PROVE  /\ DOMAIN files' = DOMAIN files \cup {seq}
           /\ DOMAIN synced' = DOMAIN files'
           /\ \A s \in DOMAIN files :
                 /\ files'[s] = files[s]
                 /\ synced'[s] = synced[s] \/ synced'[s] = Len(files[s])
           /\ seq \notin DOMAIN files => files'[seq] = << >>
           /\ DOMAIN files' \subseteq Nat
           /\ \A s \in DOMAIN files' : files'[s] \in Seq(Chunk) /\ synced'[s] \in 0 .. Len(files'[s])
<1>1. CASE OpenFile(seq)
    BY <1>1, OpenFileType
<1>2. CASE OpenAndSync(seq)
  <2>1. /\ DOMAIN files' = DOMAIN files \cup {seq}
        /\ \A s \in DOMAIN files : files'[s] = files[s]
        /\ seq \notin DOMAIN files => files'[seq] = << >>
      BY <1>2 DEF OpenAndSync, CreateFile
  <2>2. /\ DOMAIN synced' = DOMAIN files'
        /\ \A s \in DOMAIN files : s # seq => synced'[s] = synced[s]
        /\ synced'[seq] = Len(files'[seq])
      BY <1>2, <2>1 DEF OpenAndSync
  <2>3. \A s \in DOMAIN files' : files'[s] \in Seq(Chunk)
    <3>1. << >> \in Seq(Chunk)
        OBVIOUS
    <3> QED BY <2>1, <3>1 DEF WALTypeOK
  <2> QED BY <2>1, <2>2, <2>3 DEF WALTypeOK
<1> QED BY <1>1, <1>2

LEMMA NewWALType == WALTypeOK /\ NewWAL => WALTypeOK'
<1> SUFFICES ASSUME WALTypeOK, NewWAL PROVE WALTypeOK'
    OBVIOUS
<1>1. PICK seq \in DOMAIN files \cup {0} :
         /\ OpenSegment(seq)
         /\ segmentSize' = IF seq \in DOMAIN files THEN Len(files[seq]) ELSE 0
    BY DEF NewWAL
<1>2. seq \in Nat
    BY <1>1 DEF WALTypeOK
<1>3. segmentSize' \in Nat
    BY <1>1 DEF WALTypeOK
<1> QED BY <1>1, <1>2, <1>3, OpenFileType DEF WALTypeOK, NewWAL, OpenSegment

LEMMA NewWALErrType == WALTypeOK /\ NewWALErr => WALTypeOK'
<1> SUFFICES ASSUME WALTypeOK, NewWALErr PROVE WALTypeOK'
    OBVIOUS
<1>1. PICK seq \in DOMAIN files \cup {0} : OpenFile(seq) \/ OpenAndSync(seq)
    BY DEF NewWALErr
<1>2. seq \in Nat
    BY <1>1 DEF WALTypeOK
<1> QED BY <1>1, <1>2, OpenedFileType DEF WALTypeOK, NewWALErr

LEMMA SyncType ==
    ASSUME WALTypeOK, files' = files,
           synced' = [synced EXCEPT ![segmentSeq] = Len(files[segmentSeq])]
    PROVE  /\ DOMAIN synced' = DOMAIN files
           /\ \A s \in DOMAIN files : synced'[s] \in 0 .. Len(files[s])
BY DEF WALTypeOK

LEMMA WALCloseType == WALTypeOK /\ WALClose => WALTypeOK'
<1> SUFFICES ASSUME WALTypeOK, WALClose PROVE WALTypeOK'
    OBVIOUS
<1> USE DEF WALClose
<1>1. CASE UNCHANGED <<synced, segment>>
    BY <1>1 DEF WALTypeOK
<1>2. CASE /\ synced' = [synced EXCEPT ![segmentSeq] = Len(files[segmentSeq])]
           /\ segment' = "closed"
    BY <1>2, SyncType DEF WALTypeOK
<1> QED BY <1>1, <1>2

LEMMA LogStartType ==
    ASSUME WALTypeOK, NEW c \in Caller, NEW recs \in Seq(Sample), LogStart(c, recs)
    PROVE  WALTypeOK'
<1>1. log' \in [Caller -> LogCall]
    BY DEF LogStart, WALTypeOK, LogCall
<1> QED BY <1>1 DEF LogStart, WALTypeOK

LEMMA LogDoneType ==
    ASSUME WALTypeOK, NEW c \in Caller, LogDone(c)
    PROVE  WALTypeOK'
<1>1. log' \in [Caller -> LogCall]
    BY DEF LogDone, WALTypeOK, LogCall, NoCall
<1> QED BY <1>1 DEF LogDone, WALTypeOK

\* Appending a chunk to the current segment.
LEMMA AppendType ==
    ASSUME WALTypeOK, NEW ch \in Chunk, synced' = synced,
           files' = [files EXCEPT ![segmentSeq] = Append(@, ch)]
    PROVE  /\ DOMAIN files' = DOMAIN files
           /\ DOMAIN synced' = DOMAIN files'
           /\ \A s \in DOMAIN files' : files'[s] \in Seq(Chunk)
           /\ \A s \in DOMAIN files' : synced'[s] \in 0 .. Len(files'[s])
BY DEF WALTypeOK

LEMMA LogNextType ==
    ASSUME WALTypeOK, NEW c \in Caller, LogPending(c)
    PROVE  LogNext(c) \in Sample
BY DEF WALTypeOK, LogPending, LogNext, LogCall

LEMMA LogStepType ==
    ASSUME WALTypeOK, NEW c \in Caller, LogStep(c)
    PROVE  WALTypeOK'
<1>1. ASSUME LogFails(c) PROVE log' \in [Caller -> LogCall]
    BY <1>1 DEF LogFails, WALTypeOK, LogCall
<1>2. CASE LogWrite(c)
  <2>1. log' \in [Caller -> LogCall]
      BY <1>2 DEF LogWrite, WALTypeOK, LogCall
  <2>2. Whole(LogNext(c)) \in Chunk
      BY <1>2, LogNextType DEF LogWrite, Whole, Chunk
  <2>3. segmentSize' \in Nat
      BY <1>2 DEF LogWrite, WALTypeOK
  <2> QED BY <1>2, <2>1, <2>2, <2>3, AppendType DEF LogWrite, WALTypeOK
<1>3. CASE LogWriteErr(c)
    BY <1>1, <1>3 DEF LogWriteErr, WALTypeOK
<1>4. CASE LogWriteTorn(c)
  <2>1. PICK cut \in Cut : files' = [files EXCEPT ![segmentSeq] =
                                        Append(@, [rec |-> LogNext(c), cut |-> cut])]
      BY <1>4 DEF LogWriteTorn
  <2>2. [rec |-> LogNext(c), cut |-> cut] \in Chunk
      BY <1>4, LogNextType DEF LogWriteTorn, Chunk
  <2> QED BY <1>1, <1>4, <2>1, <2>2, AppendType DEF LogWriteTorn, WALTypeOK
<1>5. CASE LogReturn(c)
  <2>1. log' \in [Caller -> LogCall]
      BY <1>5 DEF LogReturn, WALTypeOK, LogCall
  <2> QED BY <1>5, <2>1 DEF LogReturn, WALTypeOK
<1>6. CASE RotateSync(c)
  <2>1. log' \in [Caller -> LogCall]
      BY <1>6 DEF RotateSync, WALTypeOK, LogCall
  <2> QED BY <1>6, <2>1, SyncType DEF RotateSync, WALTypeOK
<1>7. CASE RotateSyncErr(c)
  <2>1. CASE UNCHANGED <<synced, segment>>
      BY <1>1, <1>7, <2>1 DEF RotateSyncErr, WALTypeOK
  <2>2. CASE /\ synced' = [synced EXCEPT ![segmentSeq] = Len(files[segmentSeq])]
             /\ segment' = "closed"
      BY <1>1, <1>7, <2>2, SyncType DEF RotateSyncErr, WALTypeOK
  <2> QED BY <1>7, <2>1, <2>2 DEF RotateSyncErr
<1>8. CASE RotateOpen(c)
  <2>1. log' \in [Caller -> LogCall]
      BY <1>8 DEF RotateOpen, WALTypeOK, LogCall
  <2>2. segmentSeq + 1 \in Nat
      BY DEF WALTypeOK
  <2> QED BY <1>8, <2>1, <2>2, OpenFileType DEF RotateOpen, OpenSegment, WALTypeOK
<1>9. CASE RotateOpenErr(c)
    BY <1>1, <1>9 DEF RotateOpenErr, WALTypeOK
<1> QED BY <1>2, <1>3, <1>4, <1>5, <1>6, <1>7, <1>8, <1>9 DEF LogStep

LEMMA TruncateType ==
    ASSUME WALTypeOK, NEW before, Truncate(before)
    PROVE  WALTypeOK'
BY DEF WALTypeOK, Truncate

LEMMA WALCrashType == WALTypeOK /\ WALCrash => WALTypeOK'
BY DEF WALTypeOK, WALCrash, LogCall, NoCall

LEMMA WALPowerLossType == WALTypeOK /\ WALPowerLoss => WALTypeOK'
<1> SUFFICES ASSUME WALTypeOK, WALPowerLoss PROVE WALTypeOK'
    OBVIOUS
<1>0. PICK lost \in SUBSET {s \in DOMAIN files : synced[s] = 0} :
         \E len \in [DOMAIN files \ lost -> UNION {0 .. Len(files[s]) : s \in DOMAIN files}] :
            /\ \A s \in DOMAIN len : len[s] \in synced[s] .. Len(files[s])
            /\ files' = [s \in DOMAIN len |-> SubSeq(files[s], 1, len[s])]
            /\ synced' = len
    BY DEF WALPowerLoss
<1>1. PICK len \in [DOMAIN files \ lost -> UNION {0 .. Len(files[s]) : s \in DOMAIN files}] :
         /\ \A s \in DOMAIN len : len[s] \in synced[s] .. Len(files[s])
         /\ files' = [s \in DOMAIN len |-> SubSeq(files[s], 1, len[s])]
         /\ synced' = len
    BY <1>0
<1>2. DOMAIN files' \subseteq DOMAIN files /\ DOMAIN synced' = DOMAIN files'
    BY <1>1
<1>3. ASSUME NEW s \in DOMAIN files'
      PROVE  files'[s] \in Seq(Chunk) /\ synced'[s] \in 0 .. Len(files'[s])
  <2>1. files[s] \in Seq(Chunk) /\ synced[s] \in 0 .. Len(files[s])
      BY <1>2, <1>3 DEF WALTypeOK
  <2>2. len[s] \in synced[s] .. Len(files[s])
      BY <1>1, <1>3
  <2>3. len[s] \in Nat /\ len[s] =< Len(files[s])
      BY <2>1, <2>2
  <2>4. files'[s] = SubSeq(files[s], 1, len[s])
      BY <1>1, <1>3
  <2>5. SubSeq(files[s], 1, len[s]) \in Seq(Chunk) /\ Len(SubSeq(files[s], 1, len[s])) = len[s]
      BY <2>1, <2>3
  <2> QED BY <1>1, <2>3, <2>4, <2>5
<1>4. log' \in [Caller -> LogCall]
    BY DEF WALPowerLoss, LogCall, NoCall
<1> QED BY <1>2, <1>3, <1>4 DEF WALTypeOK, WALPowerLoss

-----------------------------------------------------------------------------
(* Without tears, every operation but Truncate and a power loss keeps      *)
(* WALSafe and everything the log replays to.                              *)

\* Segments that only grow lose no record.
LEMMA GrowingSegments ==
    ASSUME NoTears, NoTears',
           \A s \in DOMAIN files :
              /\ s \in DOMAIN files'
              /\ \A i \in 1 .. Len(files[s]) :
                    i \in 1 .. Len(files'[s]) /\ files'[s][i] = files[s][i]
    PROVE  Replayed \subseteq Replayed'
<1> SUFFICES ASSUME NEW r \in Replayed PROVE r \in Replayed'
    OBVIOUS
<1>1. PICK s \in DOMAIN files : \E i \in 1 .. Len(files[s]) : files[s][i].rec = r
  <2>1. NoTearsIn(files) /\ r \in UNION {ReplayedSegment(files[x]) : x \in DOMAIN files}
      BY DEF Replayed, NoTears
  <2> QED BY <2>1, ReplayedWithoutTears
<1>2. PICK i \in 1 .. Len(files[s]) : files[s][i].rec = r
    BY <1>1
<1>3. s \in DOMAIN files' /\ i \in 1 .. Len(files'[s]) /\ files'[s][i].rec = r
    BY <1>2
<1>4. NoTearsIn(files')
    BY DEF NoTears
<1>5. r \in UNION {ReplayedSegment(files'[x]) : x \in DOMAIN files'}
    BY <1>3, <1>4, ReplayedWithoutTears
<1> QED BY <1>5 DEF Replayed

LEMMA SameFiles == files' = files => Replayed' = Replayed /\ (NoTears => NoTears')
BY DEF Replayed, ReplayedSegment, WholePrefix, NoTears, NoTearsIn

\* Opening a segment keeps all records: O_APPEND never truncates.
LEMMA OpenFileGrows ==
    ASSUME WALTypeOK, NoTears, NEW seq \in Nat, OpenFile(seq) \/ OpenAndSync(seq)
    PROVE  /\ NoTears'
           /\ Replayed \subseteq Replayed'
           /\ seq \in DOMAIN files'
<1>1. /\ DOMAIN files' = DOMAIN files \cup {seq}
      /\ \A s \in DOMAIN files : files'[s] = files[s]
      /\ seq \notin DOMAIN files => files'[seq] = << >>
    BY OpenedFileType
<1>2. NoTears'
    BY <1>1 DEF NoTears, NoTearsIn
<1>3. Replayed \subseteq Replayed'
    BY <1>1, <1>2, GrowingSegments DEF WALTypeOK
<1> QED BY <1>1, <1>2, <1>3

LEMMA NewWALErrSafe ==
    ASSUME WALTypeOK, WALSafe, NewWALErr
    PROVE  WALSafe' /\ Replayed \subseteq Replayed'
<1>1. PICK seq \in DOMAIN files \cup {0} : OpenFile(seq) \/ OpenAndSync(seq)
    BY DEF NewWALErr
<1>2. seq \in Nat
    BY DEF WALTypeOK
<1>3. NoTears' /\ Replayed \subseteq Replayed'
    BY <1>1, <1>2, OpenFileGrows DEF WALSafe
<1>4. OpenOnDisk' /\ RotateState'
    BY DEF NewWALErr, WALSafe, OpenOnDisk, RotateState, InLog
<1>5. LogProgress'
    BY <1>3 DEF NewWALErr, WALSafe, LogProgress
<1> QED BY <1>3, <1>4, <1>5 DEF WALSafe

LEMMA NewWALSafe ==
    ASSUME WALTypeOK, WALSafe, NewWAL
    PROVE  WALSafe' /\ Replayed \subseteq Replayed'
<1>1. PICK seq \in DOMAIN files \cup {0} : OpenSegment(seq)
    BY DEF NewWAL
<1>2. seq \in Nat
    BY DEF WALTypeOK
<1>3. NoTears' /\ Replayed \subseteq Replayed' /\ OpenOnDisk'
    BY <1>1, <1>2, OpenFileGrows DEF WALSafe, OpenSegment, OpenOnDisk
<1>4. \A c \in Caller : ~ InLog(c)
    BY DEF NewWAL, WALSafe, RotateState, InLog
<1>5. RotateState'
    BY <1>1, <1>4 DEF NewWAL, OpenSegment, RotateState, InLog
<1>6. LogProgress'
    BY <1>3 DEF NewWAL, WALSafe, LogProgress
<1> QED BY <1>3, <1>5, <1>6 DEF WALSafe

LEMMA WALCloseSafe ==
    ASSUME WALTypeOK, WALSafe, WALClose
    PROVE  WALSafe' /\ Replayed' = Replayed
<1>1. NoTears' /\ Replayed' = Replayed
    BY SameFiles DEF WALClose, WALSafe
<1>2. OpenOnDisk'
    BY DEF WALClose, WALSafe, OpenOnDisk
<1>3. RotateState'
    BY DEF WALClose, WALSafe, RotateState, MuFree, InLog
<1>4. LogProgress'
    BY <1>1 DEF WALClose, WALSafe, LogProgress
<1> QED BY <1>1, <1>2, <1>3, <1>4 DEF WALSafe

LEMMA LogStartSafe ==
    ASSUME WALTypeOK, WALSafe, NEW c \in Caller, NEW recs \in Seq(Sample), LogStart(c, recs)
    PROVE  WALSafe' /\ Replayed' = Replayed
<1>1. NoTears' /\ Replayed' = Replayed /\ OpenOnDisk'
    BY SameFiles DEF LogStart, WALSafe, OpenOnDisk
<1>2. \A d \in Caller : log'[d] = IF d = c THEN [pc |-> "writing", recs |-> recs, n |-> 0] ELSE log[d]
    BY DEF LogStart, WALTypeOK
<1>3. RotateState'
    BY <1>2 DEF LogStart, WALSafe, RotateState, MuFree, InLog
<1>4. LogProgress'
    BY <1>1, <1>2 DEF WALSafe, LogProgress
<1> QED BY <1>1, <1>3, <1>4 DEF WALSafe

LEMMA LogDoneSafe ==
    ASSUME WALTypeOK, WALSafe, NEW c \in Caller, LogDone(c)
    PROVE  WALSafe' /\ Replayed' = Replayed
<1>1. NoTears' /\ Replayed' = Replayed /\ OpenOnDisk'
    BY SameFiles DEF LogDone, WALSafe, OpenOnDisk
<1>2. \A d \in Caller : log'[d] = IF d = c THEN NoCall ELSE log[d]
    BY DEF LogDone, WALTypeOK
<1>3. RotateState'
    BY <1>2 DEF LogDone, WALSafe, RotateState, InLog, NoCall
<1>4. LogProgress'
    BY <1>1, <1>2 DEF WALSafe, LogProgress, NoCall
<1> QED BY <1>1, <1>3, <1>4 DEF WALSafe

LEMMA WALCrashSafe ==
    ASSUME WALTypeOK, WALSafe, WALCrash
    PROVE  WALSafe' /\ Replayed' = Replayed
<1>1. NoTears' /\ Replayed' = Replayed /\ OpenOnDisk'
    BY SameFiles DEF WALCrash, WALSafe, OpenOnDisk
<1>2. RotateState' /\ LogProgress'
    BY DEF WALCrash, RotateState, LogProgress, InLog, NoCall
<1> QED BY <1>1, <1>2 DEF WALSafe

\* A step of Log that leaves the files alone and only moves the caller on.
LEMMA LogMoves ==
    ASSUME WALTypeOK, WALSafe, NEW c \in Caller, InLog(c), files' = files,
           NEW to \in {"open", "ok", "err"},
           log' = [log EXCEPT ![c].pc = to],
           to = "ok" => log[c].n = Len(log[c].recs),
           to = "open" => segment' = "closed",
           segment' = "open" => segment = "open" /\ segmentSeq' = segmentSeq,
           segment # "none" => segment' # "none"
    PROVE  WALSafe' /\ Replayed' = Replayed
<1>1. NoTears' /\ Replayed' = Replayed /\ OpenOnDisk'
    BY SameFiles DEF WALSafe, OpenOnDisk
<1>2. \A d \in Caller : d # c => log'[d] = log[d]
    BY DEF WALTypeOK
<1>3. log'[c].pc = to /\ log'[c].n = log[c].n /\ log'[c].recs = log[c].recs
    BY DEF WALTypeOK, LogCall
<1>4. \A d \in Caller : d # c => ~ InLog(d)
    BY DEF WALSafe, RotateState
<1>5. RotateState'
    BY <1>2, <1>3, <1>4 DEF WALSafe, RotateState, InLog
<1>6. LogProgress'
    BY <1>1, <1>2, <1>3 DEF WALSafe, LogProgress
<1> QED BY <1>1, <1>5, <1>6 DEF WALSafe

LEMMA LogWriteSafe ==
    ASSUME WALTypeOK, WALSafe, NEW c \in Caller, LogWrite(c)
    PROVE  WALSafe' /\ Replayed \subseteq Replayed'
<1> DEFINE r == LogNext(c)
           f == files[segmentSeq]
<1>1. segmentSeq \in DOMAIN files /\ f \in Seq(Chunk)
    BY DEF LogWrite, WALSafe, OpenOnDisk, WALTypeOK
<1>2. r \in Sample
    BY LogNextType DEF LogWrite
<1>3. /\ DOMAIN files' = DOMAIN files
      /\ \A s \in DOMAIN files : s # segmentSeq => files'[s] = files[s]
      /\ files'[segmentSeq] = Append(f, Whole(r))
    BY <1>1 DEF LogWrite
<1>4. /\ Len(files'[segmentSeq]) = Len(f) + 1
      /\ \A i \in 1 .. Len(f) : files'[segmentSeq][i] = f[i]
      /\ files'[segmentSeq][Len(f) + 1] = Whole(r)
    BY <1>1, <1>2, <1>3 DEF Whole, Chunk
<1>5. NoTears'
  <2> SUFFICES ASSUME NEW s \in DOMAIN files', NEW i \in 1 .. Len(files'[s])
               PROVE  files'[s][i].cut = "none"
      BY DEF NoTears, NoTearsIn
  <2>1. CASE s # segmentSeq
      BY <1>3, <2>1 DEF WALSafe, NoTears, NoTearsIn
  <2>2. CASE s = segmentSeq
      BY <1>1, <1>4, <2>2 DEF WALSafe, NoTears, NoTearsIn, Whole
  <2> QED BY <2>1, <2>2
<1>6. ASSUME NEW s \in DOMAIN files, NEW i \in 1 .. Len(files[s])
      PROVE  i \in 1 .. Len(files'[s]) /\ files'[s][i] = files[s][i]
    BY <1>1, <1>3, <1>4
<1>7. Replayed \subseteq Replayed'
    BY <1>3, <1>5, <1>6, GrowingSegments DEF WALSafe
<1>8. r \in Replayed'
  <2>1. segmentSeq \in DOMAIN files' /\ Len(f) + 1 \in 1 .. Len(files'[segmentSeq])
      BY <1>1, <1>3, <1>4
  <2>2. files'[segmentSeq][Len(f) + 1].rec = r
      BY <1>4 DEF Whole
  <2>3. NoTearsIn(files')
      BY <1>5 DEF NoTears
  <2>4. r \in UNION {ReplayedSegment(files'[x]) : x \in DOMAIN files'}
      BY <2>1, <2>2, <2>3, ReplayedWithoutTears
  <2> QED BY <2>4 DEF Replayed
<1>9. /\ \A d \in Caller : d # c => log'[d] = log[d]
      /\ log'[c].recs = log[c].recs
      /\ log'[c].n = log[c].n + 1
      /\ log'[c].pc \in {"writing", "sync"}
    BY DEF LogWrite, WALTypeOK
<1>10. RotateState'
  <2>1. \A d \in Caller : d # c => ~ InLog(d)
      BY DEF WALSafe, RotateState, LogWrite, LogPending, InLog
  <2> QED BY <1>9, <2>1 DEF WALSafe, RotateState, LogWrite, InLog
<1>11. LogProgress'
  <2>1. /\ log[c].n \in Nat /\ log[c].n < Len(log[c].recs)
        /\ log[c].recs \in Seq(Sample)
        /\ r = log[c].recs[log[c].n + 1]
      BY DEF LogWrite, LogPending, LogNext, WALTypeOK, LogCall
  <2>2. \A i \in 1 .. log'[c].n : log'[c].recs[i] \in Replayed'
      BY <1>7, <1>8, <1>9, <2>1 DEF WALSafe, LogProgress
  <2>3. log'[c].n =< Len(log'[c].recs) /\ log'[c].pc # "ok"
      BY <1>9, <2>1
  <2> QED BY <1>7, <1>9, <2>2, <2>3 DEF WALSafe, LogProgress
<1>12. OpenOnDisk'
    BY <1>1, <1>3 DEF LogWrite, OpenOnDisk
<1> QED BY <1>5, <1>7, <1>10, <1>11, <1>12 DEF WALSafe

LEMMA RotateOpenSafe ==
    ASSUME WALTypeOK, WALSafe, NEW c \in Caller, RotateOpen(c)
    PROVE  WALSafe' /\ Replayed \subseteq Replayed'
<1>1. segmentSeq + 1 \in Nat
    BY DEF WALTypeOK
<1>2. NoTears' /\ Replayed \subseteq Replayed' /\ OpenOnDisk'
    BY <1>1, OpenFileGrows DEF RotateOpen, OpenSegment, OpenOnDisk, WALSafe
<1>3. /\ \A d \in Caller : d # c => log'[d] = log[d]
      /\ log'[c].pc = "writing" /\ log'[c].n = log[c].n /\ log'[c].recs = log[c].recs
    BY DEF RotateOpen, WALTypeOK, LogCall
<1>4. \A d \in Caller : d # c => ~ InLog(d)
    BY DEF WALSafe, RotateState, RotateOpen, InLog
<1>5. RotateState'
    BY <1>3, <1>4 DEF RotateOpen, OpenSegment, RotateState, InLog
<1>6. LogProgress'
    BY <1>2, <1>3 DEF WALSafe, LogProgress
<1> QED BY <1>2, <1>5, <1>6 DEF WALSafe

\* Every step of Log, failing writes and failing rotations included.
LEMMA LogStepSafe ==
    ASSUME WALTypeOK, WALSafe, ~ Tearing, NEW c \in Caller, LogStep(c)
    PROVE  WALSafe' /\ Replayed \subseteq Replayed'
<1>1. CASE LogWrite(c)
    BY <1>1, LogWriteSafe
<1>2. CASE LogWriteErr(c)
    BY <1>2, LogMoves DEF LogWriteErr, LogPending, LogFails, InLog
<1>3. CASE LogWriteTorn(c)
    BY <1>3 DEF LogWriteTorn
<1>4. CASE LogReturn(c)
    BY <1>4, LogMoves DEF LogReturn, InLog
<1>5. CASE RotateSync(c)
    BY <1>5, LogMoves DEF RotateSync, InLog
<1>6. CASE RotateSyncErr(c)
    BY <1>6, LogMoves DEF RotateSyncErr, LogFails, InLog
<1>7. CASE RotateOpen(c)
    BY <1>7, RotateOpenSafe
<1>8. CASE RotateOpenErr(c)
  <2>1. segment = "closed"
      BY <1>8 DEF RotateOpenErr, WALSafe, RotateState
  <2> QED BY <1>8, <2>1, LogMoves DEF RotateOpenErr, LogFails, InLog
<1> QED BY <1>1, <1>2, <1>3, <1>4, <1>5, <1>6, <1>7, <1>8 DEF LogStep

=============================================================================
