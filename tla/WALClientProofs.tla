-------------------------- MODULE WALClientProofs --------------------------
(***************************************************************************)
(* Theorems about the log alone, Spec of module WALClient, for any number  *)
(* of callers, records and segments, with torn writes, crashes and power   *)
(* loss.                                                                   *)
(***************************************************************************)
EXTENDS WALClient, WALProofs

\* The number a later Truncate will be called with is not newer than the
\* current segment, and of a process that found the last segment no segment is.
\* A newer one holds only what was there when such a process started.
NothingNewer ==
    IF segment = "none" THEN stale = 0
    ELSE /\ stale =< segmentSeq
         /\ \A s \in DOMAIN files :
               s > segmentSeq =>
                  \E b \in blind : \A i \in 1 .. Len(files[s]) : files[s][i].rec =< b

\* What is handed to Log in a process that opened segment 0 beside later ones
\* is on record as such.
StrayBatch ==
    \A c \in Caller : InLog(c) =>
       \A i \in 1 .. Len(log[c].recs) : \A b \in blind : <<b, log[c].recs[i]>> \in stray

\* Record r was handed to Log in such a process, and x was there before it.
Stray(strays, n, r) == \E b \in 0 .. n : <<b, r>> \in strays

StrayAfter(strays, n, r, x) == \E b \in 0 .. n : <<b, r>> \in strays /\ x =< b

\* Between the two halves of rotate the current segment is fsynced.
SyncedBeforeOpen ==
    \A c \in Caller : log[c].pc = "open" =>
       /\ segmentSeq \in DOMAIN files
       /\ synced[segmentSeq] = Len(files[segmentSeq])

\* Only issued records are anywhere.
IssuedOnly ==
    /\ \A c \in Caller : \A i \in 1 .. Len(log[c].recs) : log[c].recs[i] =< issued
    /\ \A s \in DOMAIN files : \A i \in 1 .. Len(files[s]) : files[s][i].rec =< issued

\* The batch inside Log is the last one issued, and the files hold nothing
\* beyond the part of it that is written.
BatchOrder ==
    \A c \in Caller : InLog(c) =>
       LET base == issued - Len(log[c].recs)
       IN  /\ log[c].n =< Len(log[c].recs)
           /\ \A i \in 1 .. Len(log[c].recs) : log[c].recs[i] = base + i
           /\ \A s \in DOMAIN files : \A i \in 1 .. Len(files[s]) :
                 files[s][i].rec =< base + log[c].n

ClientInv ==
    /\ ClientTypeOK
    /\ OpenOnDisk
    /\ RotateState
    /\ NothingNewer
    /\ SyncedBeforeOpen
    /\ IssuedOnly
    /\ BatchOrder
    /\ StrayBatch
    /\ SealedSynced
    /\ ReplayInOrder

USE DEF ClientTypeOK

\* The two properties in terms of Stray.
LEMMA StrayForm ==
    /\ SealedSynced <=>
          \A s, t \in DOMAIN files :
             s < t => \A i \in synced[s] + 1 .. Len(files[s]) : Stray(stray, issued, files[s][i].rec)
    /\ ReplayInOrder <=>
          \A s, t \in DOMAIN files :
             \A i \in 1 .. Len(files[s]), j \in 1 .. Len(files[t]) :
                (s < t \/ (s = t /\ i < j)) =>
                   \/ files[s][i].rec < files[t][j].rec
                   \/ s < t /\ StrayAfter(stray, issued, files[s][i].rec, files[t][j].rec)
BY DEF SealedSynced, ReplayInOrder, Stray, StrayAfter

LEMMA StrayFormNext ==
    /\ SealedSynced' <=>
          \A s, t \in DOMAIN files' :
             s < t => \A i \in synced'[s] + 1 .. Len(files'[s]) : Stray(stray', issued', files'[s][i].rec)
    /\ ReplayInOrder' <=>
          \A s, t \in DOMAIN files' :
             \A i \in 1 .. Len(files'[s]), j \in 1 .. Len(files'[t]) :
                (s < t \/ (s = t /\ i < j)) =>
                   \/ files'[s][i].rec < files'[t][j].rec
                   \/ s < t /\ StrayAfter(stray', issued', files'[s][i].rec, files'[t][j].rec)
BY DEF SealedSynced, ReplayInOrder, Stray, StrayAfter

\* Such marks are never taken back.
LEMMA StrayStays ==
    ASSUME stray \subseteq stray', issued \in Nat, issued' \in Nat, issued =< issued'
    PROVE  /\ \A r : Stray(stray, issued, r) => Stray(stray', issued', r)
           /\ \A r, x : StrayAfter(stray, issued, r, x) => StrayAfter(stray', issued', r, x)
BY DEF Stray, StrayAfter

LEMMA InitClientInv == Init => ClientInv
<1> SUFFICES ASSUME Init PROVE ClientInv
    OBVIOUS
<1>1. DOMAIN files = {} /\ DOMAIN synced = {}
    BY DEF Init, WALInit
<1>2. \A c \in Caller : log[c] = [pc |-> "idle", recs |-> << >>, n |-> 0]
    BY DEF Init, WALInit, NoCall
<1>3. WALTypeOK
    BY <1>1 DEF Init, WALInit, WALTypeOK, LogCall, NoCall
<1>4. ClientTypeOK
    BY <1>3, ClientAssumption DEF Init
<1>4a. StrayBatch
    BY DEF Init, StrayBatch
<1>5. OpenOnDisk /\ RotateState /\ NothingNewer /\ SyncedBeforeOpen
    BY <1>1, <1>2 DEF Init, WALInit, OpenOnDisk, RotateState, NothingNewer, SyncedBeforeOpen, InLog
<1>6. IssuedOnly /\ BatchOrder /\ SealedSynced /\ ReplayInOrder
    BY <1>1, <1>2 DEF IssuedOnly, BatchOrder, SealedSynced, ReplayInOrder, InLog
<1> QED BY <1>4, <1>4a, <1>5, <1>6 DEF ClientInv

\* What the order and sync parts say of the files alone.
LEMMA SameFilesClient ==
    ASSUME ClientInv, files' = files, synced' = synced,
           stray \subseteq stray', issued' \in Nat, issued =< issued'
    PROVE  SealedSynced' /\ ReplayInOrder'
<1>1. issued \in Nat
    BY ClientAssumption DEF ClientInv
<1>2. \A r : Stray(stray, issued, r) => Stray(stray', issued', r)
    BY <1>1, StrayStays
<1>3. \A r, x : StrayAfter(stray, issued, r, x) => StrayAfter(stray', issued', r, x)
    BY <1>1, StrayStays
<1>4. SealedSynced'
  <2>1. \A s, t \in DOMAIN files :
           s < t => \A i \in synced[s] + 1 .. Len(files[s]) : Stray(stray, issued, files[s][i].rec)
      BY StrayForm DEF ClientInv
  <2>2. \A s, t \in DOMAIN files' :
           s < t => \A i \in synced'[s] + 1 .. Len(files'[s]) : Stray(stray', issued', files'[s][i].rec)
      BY <1>2, <2>1
  <2> QED BY <2>2, StrayFormNext
<1>5. ReplayInOrder'
  <2> SUFFICES ASSUME NEW s \in DOMAIN files, NEW t \in DOMAIN files,
                      NEW i \in 1 .. Len(files[s]), NEW j \in 1 .. Len(files[t]),
                      s < t \/ (s = t /\ i < j)
               PROVE  \/ files[s][i].rec < files[t][j].rec
                      \/ s < t /\ StrayAfter(stray', issued', files[s][i].rec, files[t][j].rec)
      BY StrayFormNext
  <2>1. \/ files[s][i].rec < files[t][j].rec
        \/ s < t /\ StrayAfter(stray, issued, files[s][i].rec, files[t][j].rec)
      BY StrayForm DEF ClientInv
  <2> QED BY <1>3, <2>1
<1> QED BY <1>4, <1>5

\* Opening a segment leaves the two properties alone: a new one is empty, and
\* of those before it all is synced or stray.
LEMMA SameChunks ==
    ASSUME ClientInv, stray' = stray, issued' = issued,
           \A s \in DOMAIN files' : \A i \in 1 .. Len(files'[s]) :
              s \in DOMAIN files /\ files'[s] = files[s]
    PROVE  ReplayInOrder'
<1> SUFFICES ASSUME NEW s \in DOMAIN files', NEW t \in DOMAIN files',
                    NEW i \in 1 .. Len(files'[s]), NEW j \in 1 .. Len(files'[t]),
                    s < t \/ (s = t /\ i < j)
             PROVE  \/ files'[s][i].rec < files'[t][j].rec
                    \/ s < t /\ StrayAfter(stray', issued', files'[s][i].rec, files'[t][j].rec)
    BY StrayFormNext
<1>1. /\ s \in DOMAIN files /\ files'[s] = files[s]
      /\ t \in DOMAIN files /\ files'[t] = files[t]
    OBVIOUS
<1>2. \/ files[s][i].rec < files[t][j].rec
      \/ s < t /\ StrayAfter(stray, issued, files[s][i].rec, files[t][j].rec)
    BY <1>1, StrayForm DEF ClientInv
<1> QED BY <1>1, <1>2

\* A start opens a file that was there, or an empty segment 0.
LEMMA OpenFileFirst ==
    ASSUME ClientInv, NEW seq \in DOMAIN files \cup {0},
           OpenFile(seq) \/ OpenAndSync(seq),
           issued' = issued, stray' = stray, log' = log
    PROVE  /\ seq \in Nat
           /\ DOMAIN files' = DOMAIN files \cup {seq}
           /\ \A s \in DOMAIN files' : \A i \in 1 .. Len(files'[s]) :
                 s \in DOMAIN files /\ files'[s] = files[s]
           /\ IssuedOnly' /\ SealedSynced' /\ ReplayInOrder'
<1>1. WALTypeOK /\ seq \in Nat
    BY DEF ClientInv, WALTypeOK
<1>2. /\ DOMAIN files' = DOMAIN files \cup {seq}
      /\ \A s \in DOMAIN files :
            /\ files'[s] = files[s]
            /\ synced'[s] = synced[s] \/ synced'[s] = Len(files[s])
      /\ seq \notin DOMAIN files => files'[seq] = << >>
    BY <1>1, OpenedFileType
<1>3. \A s \in DOMAIN files' : \A i \in 1 .. Len(files'[s]) :
         s \in DOMAIN files /\ files'[s] = files[s]
    BY <1>2
<1>4. IssuedOnly'
    BY <1>3 DEF ClientInv, IssuedOnly
<1>5. SealedSynced'
  <2> SUFFICES ASSUME NEW s \in DOMAIN files', NEW t \in DOMAIN files', s < t,
                      NEW i \in synced'[s] + 1 .. Len(files'[s])
               PROVE  Stray(stray', issued', files'[s][i].rec)
      BY StrayFormNext
  <2>1. CASE s \notin DOMAIN files
    <3>1. files'[s] = << >> /\ synced'[s] \in 0 .. Len(files'[s])
        BY <1>1, <1>2, <2>1, OpenedFileType
    <3> QED BY <3>1
  <2>2. CASE s \in DOMAIN files /\ t \in DOMAIN files
    <3>0. /\ files'[s] = files[s]
          /\ synced'[s] = synced[s] \/ synced'[s] = Len(files[s])
        BY <1>2, <2>2
    <3>1. i \in synced[s] + 1 .. Len(files[s])
      <4>1. synced[s] \in Nat /\ Len(files[s]) \in Nat
          BY <1>1, <2>2 DEF WALTypeOK
      <4> QED BY <3>0, <4>1
    <3>2. Stray(stray, issued, files[s][i].rec)
        BY <2>2, <3>1, StrayForm DEF ClientInv
    <3> QED BY <3>0, <3>2 DEF Stray
  <2>3. CASE s \in DOMAIN files /\ t \notin DOMAIN files
    <3>1. t = 0 /\ s \in Nat
        BY <1>1, <1>2, <2>3 DEF WALTypeOK
    <3> QED BY <3>1
  <2> QED BY <2>1, <2>2, <2>3
<1> QED BY <1>1, <1>2, <1>3, <1>4, <1>5, SameChunks

LEMMA OpenClientInv == ClientInv /\ Open => ClientInv'
<1> SUFFICES ASSUME ClientInv, Open PROVE ClientInv'
    OBVIOUS
<1>0. WALTypeOK /\ segment = "none" /\ log' = log /\ issued' = issued /\ stray' = stray
    BY DEF ClientInv, Open, NewWAL
<1>1. PICK seq \in DOMAIN files \cup {0} : latestSegmentSeq(seq) /\ OpenSegment(seq)
    BY DEF Open, NewWAL
<1>2. /\ seq \in Nat
      /\ DOMAIN files' = DOMAIN files \cup {seq}
      /\ \A s \in DOMAIN files' : \A i \in 1 .. Len(files'[s]) :
            s \in DOMAIN files /\ files'[s] = files[s]
      /\ IssuedOnly' /\ SealedSynced' /\ ReplayInOrder'
  <2>1. OpenFile(seq)
      BY <1>1 DEF OpenSegment
  <2> QED BY <1>0, <2>1, OpenFileFirst
<1>4. segment' = "open" /\ segmentSeq' = seq
    BY <1>1 DEF OpenSegment
<1>5. DOMAIN files \subseteq Nat /\ issued \in Nat
    BY <1>0, ClientAssumption DEF ClientInv, WALTypeOK
<1>7. \A c \in Caller : ~ InLog(c)
    BY <1>0 DEF ClientInv, RotateState, InLog
<1>8. ClientTypeOK'
  <2>1. blind' \subseteq 0 .. issued
      BY <1>5 DEF Open
  <2> QED BY <1>0, <2>1, NewWALType DEF ClientInv, Open
<1>9. OpenOnDisk' /\ RotateState' /\ SyncedBeforeOpen' /\ BatchOrder' /\ StrayBatch'
    BY <1>0, <1>2, <1>4, <1>7 DEF OpenOnDisk, RotateState, SyncedBeforeOpen, BatchOrder, StrayBatch, InLog
<1>10. NothingNewer'
  <2>1. stale' =< segmentSeq'
      BY <1>0, <1>2, <1>4 DEF ClientInv, NothingNewer, Open
  <2>2. ASSUME NEW s \in DOMAIN files', s > seq
        PROVE  \E b \in blind' : \A i \in 1 .. Len(files'[s]) : files'[s][i].rec =< b
    <3>1. s \in DOMAIN files /\ s # 0
        BY <1>2, <1>5, <2>2
    <3>2. seq = 0
        BY <1>1, <1>2, <1>5, <2>2, <3>1 DEF latestSegmentSeq
    <3>3. blind' = {issued}
        BY <1>4, <3>1, <3>2 DEF Open
    <3>4. \A i \in 1 .. Len(files'[s]) : files'[s][i].rec =< issued
        BY <1>0, <1>2, <2>2 DEF IssuedOnly
    <3> QED BY <3>3, <3>4
  <2> QED BY <1>4, <2>1, <2>2 DEF NothingNewer
<1> QED BY <1>2, <1>8, <1>9, <1>10 DEF ClientInv

LEMMA OpenErrClientInv == ClientInv /\ OpenErr => ClientInv'
<1> SUFFICES ASSUME ClientInv, OpenErr PROVE ClientInv'
    OBVIOUS
<1>0. /\ WALTypeOK /\ segment = "none"
      /\ UNCHANGED <<log, segment, segmentSeq, issued, acked, truncated, stale, blind, stray>>
    BY DEF ClientInv, OpenErr, NewWALErr
<1>1. PICK seq \in DOMAIN files \cup {0} : OpenFile(seq) \/ OpenAndSync(seq)
    BY DEF OpenErr, NewWALErr
<1>2. IssuedOnly' /\ SealedSynced' /\ ReplayInOrder'
    BY <1>0, <1>1, OpenFileFirst
<1>3. \A c \in Caller : ~ InLog(c)
    BY <1>0 DEF ClientInv, RotateState, InLog
<1>4. ClientTypeOK'
    BY <1>0, NewWALErrType DEF ClientInv, OpenErr
<1>5. OpenOnDisk' /\ RotateState' /\ SyncedBeforeOpen' /\ BatchOrder' /\ StrayBatch' /\ NothingNewer'
    BY <1>0, <1>3 DEF ClientInv, OpenOnDisk, RotateState, SyncedBeforeOpen, BatchOrder, StrayBatch,
                      NothingNewer, InLog
<1> QED BY <1>2, <1>4, <1>5 DEF ClientInv

LEMMA ChunkType ==
    ASSUME ClientInv, NEW s \in DOMAIN files, NEW i \in 1 .. Len(files[s])
    PROVE  /\ files[s][i].rec \in Nat
           /\ files[s][i].rec >= 1
           /\ files[s][i].rec =< issued
<1>1. files[s] \in Seq(Chunk)
    BY DEF ClientInv, WALTypeOK
<1>2. files[s][i] \in Chunk
    BY <1>1
<1>3. files[s][i].rec \in 1 .. MaxIssued
    BY <1>2, ClientAssumption DEF Chunk
<1>4. files[s][i].rec =< issued
    BY DEF ClientInv, IssuedOnly
<1> QED BY <1>3, <1>4, ClientAssumption

LEMMA CallClientInv ==
    ASSUME ClientInv, NEW c \in Caller, Call(c)
    PROVE  ClientInv'
<1>1. PICK k \in 0 .. MaxBatch :
         /\ issued + k =< MaxIssued
         /\ LogStart(c, [i \in 1 .. k |-> issued + i])
         /\ issued' = issued + k
         /\ stray' = stray \cup (blind \X {issued + i : i \in 1 .. k})
    BY DEF Call
<1> DEFINE recs == [i \in 1 .. k |-> issued + i]
<1>2. k \in Nat /\ issued \in Nat /\ MaxIssued \in Nat /\ issued' \in 0 .. MaxIssued
    BY <1>1, ClientAssumption DEF ClientInv
<1>3. recs \in Seq(Sample) /\ Len(recs) = k
  <2>1. \A i \in 1 .. k : issued + i \in Sample
      BY <1>1, <1>2, ClientAssumption
  <2> QED BY <1>2, <2>1
<1>3a. \A i \in 1 .. k : recs[i] = issued + i
    OBVIOUS
<1>3b. LogStart(c, recs)
    BY <1>1
<1> HIDE DEF recs
<1>4. WALTypeOK'
    BY <1>3, <1>3b, LogStartType DEF ClientInv
<1>5. ClientTypeOK'
  <2>1. blind' \subseteq 0 .. issued'
      BY <1>1, <1>2 DEF ClientInv, Call
  <2>2. stray' \subseteq (0 .. issued') \X (1 .. issued')
    <3>1. stray \subseteq (0 .. issued') \X (1 .. issued')
        BY <1>1, <1>2 DEF ClientInv
    <3>2. {issued + i : i \in 1 .. k} \subseteq 1 .. issued'
        BY <1>1, <1>2
    <3>3. blind \subseteq 0 .. issued'
        BY <2>1 DEF Call
    <3> QED BY <1>1, <3>1, <3>2, <3>3
  <2>3. acked' \subseteq 1 .. issued' /\ truncated' \subseteq 1 .. issued' /\ stale' \in Nat
      BY <1>1, <1>2 DEF ClientInv, Call
  <2> QED BY <1>2, <1>4, <2>1, <2>2, <2>3
<1>6. /\ files' = files /\ synced' = synced /\ segment' = segment
      /\ segmentSeq' = segmentSeq /\ stale' = stale /\ segment # "none"
      /\ \A d \in Caller : ~ InLog(d)
    BY <1>3b DEF LogStart, Call, MuFree
<1>7. \A d \in Caller :
         log'[d] = IF d = c THEN [pc |-> "writing", recs |-> recs, n |-> 0] ELSE log[d]
    BY <1>3b DEF LogStart, ClientInv, WALTypeOK
<1>8a. OpenOnDisk' /\ NothingNewer'
    BY <1>6 DEF ClientInv, OpenOnDisk, NothingNewer, Call
<1>8d. StrayBatch'
  <2> SUFFICES ASSUME NEW d \in Caller, InLog(d)', NEW i \in 1 .. Len(log'[d].recs), NEW b \in blind
               PROVE  <<b, log'[d].recs[i]>> \in stray'
      BY DEF StrayBatch, Call
  <2>1. d = c /\ log'[d].recs = recs
      BY <1>6, <1>7 DEF InLog
  <2>2. log'[d].recs[i] \in {issued + x : x \in 1 .. k}
      BY <1>3, <1>3a, <2>1
  <2> QED BY <1>1, <2>2
<1>8b. RotateState'
    BY <1>6, <1>7 DEF ClientInv, RotateState, InLog
<1>8c. SyncedBeforeOpen'
    BY <1>6, <1>7 DEF ClientInv, SyncedBeforeOpen
<1>9. IssuedOnly'
  <2>1. \A d \in Caller : \A i \in 1 .. Len(log'[d].recs) : log'[d].recs[i] =< issued'
    <3> SUFFICES ASSUME NEW d \in Caller, NEW i \in 1 .. Len(log'[d].recs)
                 PROVE  log'[d].recs[i] =< issued'
        OBVIOUS
    <3>1. CASE d = c
        BY <1>1, <1>2, <1>3, <1>3a, <1>7, <3>1
    <3>2. CASE d # c
      <4>1. i \in 1 .. Len(log[d].recs) /\ log'[d].recs[i] = log[d].recs[i]
          BY <1>7, <3>2
      <4>2. log[d].recs[i] \in Sample
          BY <4>1 DEF ClientInv, WALTypeOK, LogCall
      <4> QED BY <1>1, <1>2, <4>1, <4>2, ClientAssumption DEF ClientInv, IssuedOnly
    <3> QED BY <3>1, <3>2
  <2>2. \A s \in DOMAIN files' : \A i \in 1 .. Len(files'[s]) : files'[s][i].rec =< issued'
    <3> SUFFICES ASSUME NEW s \in DOMAIN files, NEW i \in 1 .. Len(files[s])
                 PROVE  files[s][i].rec =< issued'
        BY <1>6
    <3> QED BY <1>1, <1>2, ChunkType
  <2> QED BY <2>1, <2>2 DEF IssuedOnly
<1>10. BatchOrder'
  <2>1. \A d \in Caller : InLog(d)' => d = c
      BY <1>6, <1>7 DEF InLog
  <2>2. \A s \in DOMAIN files : \A i \in 1 .. Len(files[s]) : files[s][i].rec =< issued
      BY DEF ClientInv, IssuedOnly
  <2>3. issued' - Len(recs) = issued
      BY <1>1, <1>2, <1>3
  <2>4. log'[c].n = 0 /\ log'[c].recs = recs
      BY <1>7
  <2>5. /\ log'[c].n =< Len(log'[c].recs)
        /\ \A i \in 1 .. Len(log'[c].recs) : log'[c].recs[i] = issued' - Len(log'[c].recs) + i
    <3>1. Len(log'[c].recs) = k /\ issued' - k = issued
        BY <1>1, <1>2, <1>3, <2>4
    <3>2. \A i \in 1 .. k : log'[c].recs[i] = issued + i
        BY <1>3a, <2>4
    <3>3. log'[c].n =< Len(log'[c].recs)
        BY <1>2, <2>4, <3>1
    <3> QED BY <3>1, <3>2, <3>3
  <2>6. \A s \in DOMAIN files' : \A i \in 1 .. Len(files'[s]) :
           files'[s][i].rec =< issued' - Len(log'[c].recs) + log'[c].n
      BY <1>2, <1>6, <2>2, <2>3, <2>4
  <2> QED BY <2>1, <2>5, <2>6 DEF BatchOrder
<1>11. SealedSynced' /\ ReplayInOrder'
    BY <1>1, <1>2, <1>6, SameFilesClient
<1> QED BY <1>5, <1>8a, <1>8b, <1>8c, <1>8d, <1>9, <1>10, <1>11 DEF ClientInv

\* The steps of Log that leave the files alone.
LEMMA MovesClientInv ==
    ASSUME ClientInv, NEW c \in Caller, Step(c), InLog(c), files' = files,
           NEW to \in {"open", "ok", "err"},
           log' = [log EXCEPT ![c].pc = to],
           \/ synced' = synced
           \/ synced' = [synced EXCEPT ![segmentSeq] = Len(files[segmentSeq])],
           segment' # "none",
           segment' = "open" => segment = "open" /\ segmentSeq' = segmentSeq,
           segmentSeq' >= segmentSeq,
           to = "open" => /\ segment = "open"
                          /\ segment' = "closed"
                          /\ segmentSeq' = segmentSeq
                          /\ synced' = [synced EXCEPT ![segmentSeq] = Len(files[segmentSeq])]
    PROVE  ClientInv'
<1>1. WALTypeOK /\ WALTypeOK'
    BY LogStepType DEF ClientInv, Step
<1>2. /\ issued' = issued /\ acked' = acked /\ truncated' = truncated /\ stale' = stale
      /\ blind' = blind /\ stray' = stray
    BY DEF Step
<1>3. ClientTypeOK'
    BY <1>1, <1>2 DEF ClientInv
<1>4. /\ \A d \in Caller : d # c => log'[d] = log[d]
      /\ log'[c].pc = to /\ log'[c].n = log[c].n /\ log'[c].recs = log[c].recs
    BY <1>1 DEF WALTypeOK, LogCall
<1>5. \A d \in Caller : d # c => ~ InLog(d)
    BY DEF ClientInv, RotateState
<1>6. segment # "none"
    BY DEF ClientInv, RotateState, InLog
<1>7. RotateState'
    BY <1>4, <1>5 DEF ClientInv, RotateState, InLog
<1>8. OpenOnDisk'
    BY DEF ClientInv, OpenOnDisk
<1>9. NothingNewer'
  <2>1. segmentSeq \in Nat /\ segmentSeq' \in Nat /\ stale \in Nat /\ DOMAIN files \subseteq Nat
      BY <1>1 DEF WALTypeOK, ClientInv
  <2>2. stale =< segmentSeq
      BY <1>6 DEF ClientInv, NothingNewer
  <2>3. ASSUME NEW s \in DOMAIN files, s > segmentSeq'
        PROVE  \E b \in blind : \A i \in 1 .. Len(files[s]) : files[s][i].rec =< b
    <3>1. s > segmentSeq
        BY <2>1, <2>3
    <3> QED BY <1>6, <3>1 DEF ClientInv, NothingNewer
  <2> QED BY <1>2, <2>1, <2>2, <2>3 DEF NothingNewer
<1>10. SyncedBeforeOpen'
  <2>1. ASSUME NEW d \in Caller, log'[d].pc = "open" PROVE d = c
      BY <1>4, <1>5, <2>1 DEF InLog
  <2>2. to = "open" => segmentSeq \in DOMAIN files /\ synced'[segmentSeq] = Len(files[segmentSeq])
      BY <1>1 DEF ClientInv, OpenOnDisk, WALTypeOK
  <2> QED BY <1>4, <2>1, <2>2 DEF SyncedBeforeOpen
<1>11. IssuedOnly'
    BY <1>2, <1>4 DEF ClientInv, IssuedOnly
<1>12. BatchOrder'
  <2>1. \A d \in Caller : InLog(d)' => d = c
      BY <1>4, <1>5 DEF InLog
  <2> QED BY <1>2, <1>4, <2>1 DEF ClientInv, BatchOrder
<1>13. SealedSynced'
  <2> SUFFICES ASSUME NEW s \in DOMAIN files, NEW t \in DOMAIN files, s < t,
                      NEW i \in synced'[s] + 1 .. Len(files[s])
               PROVE  Stray(stray', issued', files[s][i].rec)
      BY StrayFormNext
  <2>1. synced'[s] = synced[s] \/ synced'[s] = Len(files[s])
      BY <1>1 DEF WALTypeOK
  <2>2. synced'[s] = synced[s]
      BY <1>1, <2>1 DEF WALTypeOK
  <2>3. Stray(stray, issued, files[s][i].rec)
      BY <2>2, StrayForm DEF ClientInv
  <2> QED BY <1>2, <2>3 DEF Stray
<1>14. ReplayInOrder'
    BY <1>2, SameChunks
<1>15. StrayBatch'
  <2> SUFFICES ASSUME NEW d \in Caller, InLog(d)', NEW i \in 1 .. Len(log'[d].recs), NEW x \in blind
               PROVE  <<x, log'[d].recs[i]>> \in stray
      BY <1>2 DEF StrayBatch
  <2>1. d = c /\ log'[d].recs = log[c].recs
      BY <1>4, <1>5 DEF InLog
  <2> QED BY <2>1 DEF ClientInv, StrayBatch
<1> QED BY <1>3, <1>7, <1>8, <1>9, <1>10, <1>11, <1>12, <1>13, <1>14, <1>15 DEF ClientInv

\* The steps of Log that append a chunk, whole or torn.
LEMMA AppendsClientInv ==
    ASSUME ClientInv, NEW c \in Caller, Step(c), LogPending(c), segment = "open",
           NEW ch \in Chunk, ch.rec = LogNext(c),
           files' = [files EXCEPT ![segmentSeq] = Append(@, ch)],
           synced' = synced, segment' = segment, segmentSeq' = segmentSeq,
           log'[c].recs = log[c].recs,
           \/ log'[c].pc \in {"writing", "sync"} /\ log'[c].n = log[c].n + 1
           \/ log'[c].pc = "err"
    PROVE  ClientInv'
<1> DEFINE f == files[segmentSeq]
<1>1. WALTypeOK /\ WALTypeOK'
    BY LogStepType DEF ClientInv, Step
<1>2. /\ issued' = issued /\ acked' = acked /\ truncated' = truncated /\ stale' = stale
      /\ blind' = blind /\ stray' = stray
    BY DEF Step
<1>3. ClientTypeOK'
    BY <1>1, <1>2 DEF ClientInv
<1>4. \A d \in Caller : d # c => log'[d] = log[d]
    BY <1>1 DEF Step, LogStep, WALTypeOK, LogWrite, LogWriteErr, LogWriteTorn, LogReturn, LogFails,
                RotateSync, RotateSyncErr, RotateOpen, RotateOpenErr
<1>5. InLog(c) /\ \A d \in Caller : d # c => ~ InLog(d)
    BY DEF ClientInv, RotateState, LogPending, InLog
<1>6. segmentSeq \in DOMAIN files /\ f \in Seq(Chunk) /\ segmentSeq \in Nat
    BY <1>1 DEF ClientInv, OpenOnDisk, WALTypeOK
<1>7. /\ DOMAIN files' = DOMAIN files
      /\ \A s \in DOMAIN files : s # segmentSeq => files'[s] = files[s]
      /\ files'[segmentSeq] = Append(f, ch)
    BY <1>6
<1>8. /\ Len(files'[segmentSeq]) = Len(f) + 1
      /\ \A i \in 1 .. Len(f) : files'[segmentSeq][i] = f[i]
      /\ files'[segmentSeq][Len(f) + 1] = ch
    BY <1>6, <1>7
<1>9. ASSUME NEW s \in DOMAIN files, s > segmentSeq
      PROVE  \E b \in blind : \A i \in 1 .. Len(files[s]) : files[s][i].rec =< b
    BY <1>9 DEF ClientInv, NothingNewer
<1>10. OpenOnDisk' /\ NothingNewer'
  <2>1. OpenOnDisk'
      BY <1>6, <1>7 DEF OpenOnDisk
  <2>2. stale =< segmentSeq
      BY DEF ClientInv, NothingNewer
  <2>3. ASSUME NEW s \in DOMAIN files', s > segmentSeq
        PROVE  \E b \in blind : \A i \in 1 .. Len(files'[s]) : files'[s][i].rec =< b
    <3>1. s \in DOMAIN files /\ files'[s] = files[s]
        BY <1>6, <1>7, <2>3
    <3> QED BY <1>9, <2>3, <3>1
  <2> QED BY <1>2, <2>1, <2>2, <2>3 DEF NothingNewer
<1>11. RotateState'
    BY <1>4, <1>5 DEF ClientInv, RotateState, InLog
<1>12. SyncedBeforeOpen'
    BY <1>4, <1>5 DEF SyncedBeforeOpen, InLog
<1>13. PICK n \in Nat : n = log[c].n
    BY <1>1 DEF WALTypeOK, LogCall
<1>14. PICK len \in Nat : len = Len(log[c].recs)
    BY <1>1 DEF WALTypeOK, LogCall
<1>a. issued \in Nat /\ n < len
    BY <1>13, <1>14, ClientAssumption DEF ClientInv, LogPending
<1>b. PICK top \in Int : top = issued - len + n
    BY <1>a
<1>c. \A s \in DOMAIN files : \A i \in 1 .. Len(files[s]) : files[s][i].rec =< top
    BY <1>5, <1>13, <1>14, <1>b DEF ClientInv, BatchOrder
<1>d. \A i \in 1 .. len : log[c].recs[i] = issued - len + i
    BY <1>5, <1>14 DEF ClientInv, BatchOrder
<1>e. ch.rec = top + 1 /\ top + 1 =< issued
  <2>1. n + 1 \in 1 .. len
      BY <1>a
  <2>2. ch.rec = log[c].recs[n + 1]
      BY <1>13 DEF LogNext
  <2>3. ch.rec = issued - len + (n + 1)
      BY <1>d, <2>1, <2>2
  <2> QED BY <1>a, <1>b, <2>3
<1> HIDE DEF f
<1>15. ASSUME NEW s \in DOMAIN files', NEW i \in 1 .. Len(files'[s])
       PROVE  \/ i \in 1 .. Len(files[s]) /\ files'[s][i] = files[s][i]
              \/ s = segmentSeq /\ i = Len(f) + 1 /\ files'[s][i] = ch
  <2>1. CASE s # segmentSeq
      BY <1>7, <2>1
  <2>2. CASE s = segmentSeq
      BY <1>6, <1>8, <2>2 DEF f
  <2> QED BY <2>1, <2>2
<1>16. \A s \in DOMAIN files' : \A i \in 1 .. Len(files'[s]) :
          files'[s][i].rec \in Int /\ files'[s][i].rec =< top + 1
  <2> SUFFICES ASSUME NEW s \in DOMAIN files', NEW i \in 1 .. Len(files'[s])
               PROVE  files'[s][i].rec \in Int /\ files'[s][i].rec =< top + 1
      OBVIOUS
  <2>1. CASE i \in 1 .. Len(files[s]) /\ files'[s][i] = files[s][i]
    <3>1. files[s][i].rec \in Nat /\ files[s][i].rec =< top
        BY <1>7, <1>c, <2>1, ChunkType
    <3> QED BY <2>1, <3>1
  <2>2. CASE files'[s][i] = ch
      BY <1>e, <2>2
  <2> QED BY <1>15, <2>1, <2>2
<1>17. IssuedOnly'
  <2>1. \A s \in DOMAIN files' : \A i \in 1 .. Len(files'[s]) : files'[s][i].rec =< issued
    <3> SUFFICES ASSUME NEW s \in DOMAIN files', NEW i \in 1 .. Len(files'[s])
                 PROVE  files'[s][i].rec =< issued
        OBVIOUS
    <3>1. files'[s][i].rec \in Int /\ files'[s][i].rec =< top + 1
        BY <1>16
    <3> QED BY <1>a, <1>e, <3>1
  <2> QED BY <1>2, <1>4, <2>1 DEF ClientInv, IssuedOnly
<1>18. BatchOrder'
  <2>1. \A d \in Caller : InLog(d)' => d = c
      BY <1>4, <1>5 DEF InLog
  <2>2. InLog(c)' => log'[c].n = n + 1
      BY <1>13 DEF InLog
  <2>3. issued' - Len(log'[c].recs) = issued - len
      BY <1>2, <1>14
  <2>4. issued - len + (n + 1) = top + 1
      BY <1>a, <1>b
  <2>5. InLog(c)' => /\ log'[c].n =< Len(log'[c].recs)
                     /\ \A i \in 1 .. Len(log'[c].recs) : log'[c].recs[i] = issued - len + i
    <3>1. InLog(c)' => log'[c].n =< len
        BY <1>a, <2>2
    <3>2. Len(log'[c].recs) = len
        BY <1>14
    <3>3. \A i \in 1 .. len : log'[c].recs[i] = issued - len + i
        BY <1>d
    <3> QED BY <3>1, <3>2, <3>3
  <2> QED BY <1>16, <2>1, <2>2, <2>3, <2>4, <2>5 DEF BatchOrder
<1>19. ASSUME NEW b \in blind PROVE <<b, ch.rec>> \in stray /\ b \in 0 .. issued
  <2>1. n + 1 \in 1 .. Len(log[c].recs) /\ ch.rec = log[c].recs[n + 1]
      BY <1>13, <1>14, <1>a DEF LogNext
  <2> QED BY <1>5, <2>1 DEF ClientInv, StrayBatch
<1>20. SealedSynced'
  <2> SUFFICES ASSUME NEW s \in DOMAIN files', NEW t \in DOMAIN files', s < t,
                      NEW i \in synced'[s] + 1 .. Len(files'[s])
               PROVE  Stray(stray', issued', files'[s][i].rec)
      BY StrayFormNext
  <2>0. synced[s] \in Nat /\ Len(files'[s]) \in Nat /\ i \in 1 .. Len(files'[s]) /\ s \in Nat /\ t \in Nat
      BY <1>1, <1>7 DEF WALTypeOK
  <2>1. CASE i \in 1 .. Len(files[s]) /\ files'[s][i] = files[s][i]
    <3>1. i \in synced[s] + 1 .. Len(files[s])
        BY <2>0, <2>1
    <3>2. Stray(stray, issued, files[s][i].rec)
        BY <1>7, <3>1, StrayForm DEF ClientInv
    <3> QED BY <1>2, <2>1, <3>2
  <2>2. CASE s = segmentSeq /\ files'[s][i] = ch
    <3>1. PICK b \in blind : TRUE
        BY <1>6, <1>7, <1>9, <2>0, <2>2
    <3> QED BY <1>2, <1>19, <2>2, <3>1 DEF Stray
  <2> QED BY <1>15, <2>0, <2>1, <2>2
<1>21. ReplayInOrder'
  <2> SUFFICES ASSUME NEW s \in DOMAIN files', NEW t \in DOMAIN files',
                      NEW i \in 1 .. Len(files'[s]), NEW j \in 1 .. Len(files'[t]),
                      s < t \/ (s = t /\ i < j)
               PROVE  \/ files'[s][i].rec < files'[t][j].rec
                      \/ s < t /\ StrayAfter(stray', issued', files'[s][i].rec, files'[t][j].rec)
      BY StrayFormNext
  <2>1. s \in Nat /\ t \in Nat /\ Len(f) \in Nat
      BY <1>1, <1>6, <1>7 DEF WALTypeOK, f
  <2>2. CASE /\ i \in 1 .. Len(files[s]) /\ files'[s][i] = files[s][i]
             /\ j \in 1 .. Len(files[t]) /\ files'[t][j] = files[t][j]
    <3>1. \/ files[s][i].rec < files[t][j].rec
          \/ s < t /\ StrayAfter(stray, issued, files[s][i].rec, files[t][j].rec)
        BY <1>7, <2>2, StrayForm DEF ClientInv
    <3> QED BY <1>2, <2>2, <3>1
  <2>3. CASE /\ i \in 1 .. Len(files[s]) /\ files'[s][i] = files[s][i]
             /\ files'[t][j] = ch
    <3>1. files[s][i].rec \in Nat /\ files[s][i].rec =< top
        BY <1>7, <1>c, <2>3, ChunkType
    <3> QED BY <1>e, <2>3, <3>1
  <2>4. CASE s = segmentSeq /\ i = Len(f) + 1 /\ files'[s][i] = ch
    <3>1. s < t
        BY <1>8, <2>1, <2>4 DEF f
    <3>2. files'[t] = files[t] /\ t \in DOMAIN files /\ t > segmentSeq
        BY <1>6, <1>7, <2>1, <2>4, <3>1
    <3>3. PICK b \in blind : \A k \in 1 .. Len(files[t]) : files[t][k].rec =< b
        BY <1>9, <3>2
    <3>4. files'[t][j].rec =< b
        BY <3>2, <3>3
    <3> QED BY <1>2, <1>19, <2>4, <3>1, <3>3, <3>4 DEF StrayAfter
  <2> QED BY <1>15, <2>2, <2>3, <2>4
<1>22. StrayBatch'
  <2> SUFFICES ASSUME NEW d \in Caller, InLog(d)', NEW i \in 1 .. Len(log'[d].recs), NEW x \in blind
               PROVE  <<x, log'[d].recs[i]>> \in stray
      BY <1>2 DEF StrayBatch
  <2>1. d = c
      BY <1>4, <1>5 DEF InLog
  <2> QED BY <1>5, <2>1 DEF ClientInv, StrayBatch
<1> QED BY <1>3, <1>10, <1>11, <1>12, <1>17, <1>18, <1>20, <1>21, <1>22 DEF ClientInv

\* The second half of rotate.
LEMMA RotateOpenClientInv ==
    ASSUME ClientInv, NEW c \in Caller, Step(c), RotateOpen(c)
    PROVE  ClientInv'
<1>1. WALTypeOK /\ WALTypeOK'
    BY LogStepType DEF ClientInv, Step
<1>2. /\ issued' = issued /\ acked' = acked /\ truncated' = truncated /\ stale' = stale
      /\ blind' = blind /\ stray' = stray
    BY DEF Step
<1>3. ClientTypeOK'
    BY <1>1, <1>2 DEF ClientInv
<1>4. PICK new \in Nat : new = segmentSeq + 1
    BY <1>1 DEF WALTypeOK
<1>5. OpenSegment(new) /\ segment' = "open" /\ segmentSeq' = new
    BY <1>4 DEF RotateOpen, OpenSegment
<1>6. /\ DOMAIN files' = DOMAIN files \cup {new}
      /\ \A s \in DOMAIN files : files'[s] = files[s] /\ synced'[s] = synced[s]
      /\ new \notin DOMAIN files => files'[new] = << >> /\ synced'[new] = 0
    BY <1>1, <1>5, OpenFileType DEF OpenSegment
<1>7. /\ InLog(c) /\ log[c].pc = "open"
      /\ \A d \in Caller : d # c => ~ InLog(d)
      /\ segment # "none"
    BY DEF ClientInv, RotateState, RotateOpen, InLog
<1>8. /\ segmentSeq \in Nat /\ stale \in Nat /\ DOMAIN files \subseteq Nat
      /\ stale =< segmentSeq
    BY <1>1, <1>7 DEF ClientInv, NothingNewer, WALTypeOK
<1>9. \A s \in DOMAIN files' : \A i \in 1 .. Len(files'[s]) :
         s \in DOMAIN files /\ files'[s] = files[s]
    BY <1>6
<1>10. /\ \A d \in Caller : d # c => log'[d] = log[d]
       /\ log'[c].pc = "writing" /\ log'[c].n = log[c].n /\ log'[c].recs = log[c].recs
    BY <1>1 DEF RotateOpen, WALTypeOK, LogCall
<1>11. OpenOnDisk'
    BY <1>5, <1>6 DEF OpenOnDisk
<1>12. RotateState'
    BY <1>5, <1>7, <1>10 DEF RotateState, InLog
<1>13. NothingNewer'
  <2>1. stale' =< new
      BY <1>2, <1>4, <1>8
  <2>2. ASSUME NEW s \in DOMAIN files', s > new
        PROVE  \E b \in blind : \A i \in 1 .. Len(files'[s]) : files'[s][i].rec =< b
    <3>1. s \in DOMAIN files /\ files'[s] = files[s] /\ s > segmentSeq
        BY <1>4, <1>6, <1>8, <2>2
    <3> QED BY <1>7, <3>1 DEF ClientInv, NothingNewer
  <2> QED BY <1>2, <1>5, <2>1, <2>2 DEF NothingNewer
<1>14. SyncedBeforeOpen'
    BY <1>7, <1>10 DEF SyncedBeforeOpen, InLog
<1>15. IssuedOnly'
    BY <1>2, <1>9, <1>10 DEF ClientInv, IssuedOnly
<1>16. BatchOrder'
  <2>1. \A d \in Caller : InLog(d)' => d = c
      BY <1>7, <1>10 DEF InLog
  <2>2. \A s \in DOMAIN files' : \A i \in 1 .. Len(files'[s]) :
           s \in DOMAIN files /\ files'[s] = files[s]
      BY <1>9
  <2>3. PICK b : b = issued - Len(log[c].recs)
      OBVIOUS
  <2>4. /\ log[c].n =< Len(log[c].recs)
        /\ \A i \in 1 .. Len(log[c].recs) : log[c].recs[i] = b + i
        /\ \A s \in DOMAIN files : \A i \in 1 .. Len(files[s]) : files[s][i].rec =< b + log[c].n
      BY <1>7, <2>3 DEF ClientInv, BatchOrder
  <2>5. issued' - Len(log'[c].recs) = b
      BY <1>2, <1>10, <2>3
  <2>6. \A s \in DOMAIN files' : \A i \in 1 .. Len(files'[s]) : files'[s][i].rec =< b + log[c].n
      BY <2>2, <2>4
  <2> QED BY <1>10, <2>1, <2>4, <2>5, <2>6 DEF BatchOrder
<1>17. SealedSynced'
  <2> SUFFICES ASSUME NEW s \in DOMAIN files', NEW t \in DOMAIN files', s < t,
                      NEW i \in synced'[s] + 1 .. Len(files'[s])
               PROVE  Stray(stray, issued, files'[s][i].rec)
      BY <1>2, StrayFormNext DEF Stray
  <2>1. CASE s \notin DOMAIN files
      BY <1>6, <2>1
  <2>2. CASE s \in DOMAIN files /\ t \in DOMAIN files
      BY <1>6, <2>2, StrayForm DEF ClientInv
  <2>3. CASE s \in DOMAIN files /\ t \notin DOMAIN files
    <3>1. t = new /\ s =< segmentSeq
        BY <1>4, <1>6, <1>8, <2>3
    <3>2. segmentSeq \in DOMAIN files /\ synced[segmentSeq] = Len(files[segmentSeq])
        BY <1>7 DEF ClientInv, SyncedBeforeOpen
    <3>3. Len(files[s]) \in Nat /\ files'[s] = files[s] /\ synced'[s] = synced[s]
        BY <1>1, <1>6, <2>3 DEF WALTypeOK
    <3>4. CASE s = segmentSeq
        BY <3>2, <3>3, <3>4
    <3>5. CASE s < segmentSeq
        BY <2>3, <3>2, <3>3, <3>5, StrayForm DEF ClientInv
    <3> QED BY <1>8, <2>3, <3>1, <3>4, <3>5
  <2> QED BY <2>1, <2>2, <2>3
<1>18. ReplayInOrder'
    BY <1>2, <1>9, SameChunks
<1>19. StrayBatch'
  <2> SUFFICES ASSUME NEW d \in Caller, InLog(d)', NEW i \in 1 .. Len(log'[d].recs), NEW x \in blind
               PROVE  <<x, log'[d].recs[i]>> \in stray
      BY <1>2 DEF StrayBatch
  <2>1. d = c /\ log'[d].recs = log[c].recs
      BY <1>7, <1>10 DEF InLog
  <2> QED BY <1>7, <2>1 DEF ClientInv, StrayBatch
<1> QED BY <1>3, <1>11, <1>12, <1>13, <1>14, <1>15, <1>16, <1>17, <1>18, <1>19 DEF ClientInv

LEMMA StepClientInv ==
    ASSUME ClientInv, NEW c \in Caller, Step(c)
    PROVE  ClientInv'
<1>1. WALTypeOK /\ WALTypeOK'
    BY LogStepType DEF ClientInv, Step
<1>2. segmentSeq \in Nat /\ segmentSeq + 1 >= segmentSeq
    BY <1>1 DEF WALTypeOK
<1>3. /\ log[c].pc = "sync" => segment = "open"
      /\ log[c].pc \in {"writing", "sync", "open"} => segment # "none"
      /\ log[c].pc = "open" => segment = "closed"
    BY DEF ClientInv, RotateState
<1>4. ASSUME LogPending(c) PROVE LogNext(c) \in Sample
  <2>1. log[c].n \in Nat /\ log[c].recs \in Seq(Sample) /\ log[c].n < Len(log[c].recs)
      BY <1>1, <1>4 DEF WALTypeOK, LogCall, LogPending
  <2>2. log[c].n + 1 \in 1 .. Len(log[c].recs)
      BY <2>1
  <2> QED BY <2>1, <2>2 DEF LogNext
<1>5. CASE LogWrite(c)
  <2>1. Whole(LogNext(c)) \in Chunk /\ Whole(LogNext(c)).rec = LogNext(c)
      BY <1>4, <1>5 DEF LogWrite, Whole, Chunk, Cut
  <2>2. /\ log'[c].recs = log[c].recs
        /\ log'[c].pc \in {"writing", "sync"} /\ log'[c].n = log[c].n + 1
      BY <1>1, <1>5 DEF LogWrite, WALTypeOK
  <2> HIDE DEF Whole
  <2> QED BY <1>5, <2>1, <2>2, AppendsClientInv DEF LogWrite
<1>6. CASE LogWriteTorn(c)
  <2>1. PICK cut \in Cut : files' = [files EXCEPT ![segmentSeq] =
                              Append(@, [rec |-> LogNext(c), cut |-> cut])]
      BY <1>6 DEF LogWriteTorn
  <2>2. PICK ch \in Chunk : ch = [rec |-> LogNext(c), cut |-> cut]
      BY <1>4, <1>6 DEF LogWriteTorn, Chunk
  <2>3. log'[c].recs = log[c].recs /\ log'[c].pc = "err"
      BY <1>1, <1>6 DEF LogWriteTorn, LogFails, WALTypeOK, LogCall
  <2>4. files' = [files EXCEPT ![segmentSeq] = Append(@, ch)] /\ ch.rec = LogNext(c)
      BY <2>1, <2>2
  <2> QED BY <1>6, <2>3, <2>4, AppendsClientInv DEF LogWriteTorn
<1>7. CASE LogWriteErr(c)
  <2>1. PICK to \in {"open", "ok", "err"} : to = "err"
      OBVIOUS
  <2>2. InLog(c) /\ files' = files /\ log' = [log EXCEPT ![c].pc = to]
      BY <1>7, <2>1 DEF LogWriteErr, LogPending, LogFails, InLog
  <2>3. synced' = synced
      BY <1>7 DEF LogWriteErr
  <2>4. segment' = segment /\ segment # "none"
      BY <1>3, <1>7 DEF LogWriteErr, LogPending
  <2>6. segmentSeq' = segmentSeq /\ segmentSeq' >= segmentSeq
      BY <1>2, <1>7 DEF LogWriteErr
  <2> QED BY <2>1, <2>2, <2>3, <2>4, <2>6, MovesClientInv
<1>8. CASE LogReturn(c)
  <2>1. PICK to \in {"open", "ok", "err"} : to = "ok"
      OBVIOUS
  <2>2. InLog(c) /\ files' = files /\ log' = [log EXCEPT ![c].pc = to]
      BY <1>8, <2>1 DEF LogReturn, InLog
  <2>3. synced' = synced
      BY <1>8 DEF LogReturn
  <2>4. segment' = segment /\ segment # "none"
      BY <1>3, <1>8 DEF LogReturn
  <2>6. segmentSeq' = segmentSeq /\ segmentSeq' >= segmentSeq
      BY <1>2, <1>8 DEF LogReturn
  <2> QED BY <2>1, <2>2, <2>3, <2>4, <2>6, MovesClientInv
<1>9. CASE RotateSync(c)
  <2>1. PICK to \in {"open", "ok", "err"} : to = "open"
      OBVIOUS
  <2>2. InLog(c) /\ files' = files /\ log' = [log EXCEPT ![c].pc = to]
      BY <1>9, <2>1 DEF RotateSync, InLog
  <2>3. synced' = [synced EXCEPT ![segmentSeq] = Len(files[segmentSeq])]
      BY <1>9 DEF RotateSync
  <2>4. segment = "open" /\ segment' = "closed"
      BY <1>3, <1>9 DEF RotateSync
  <2>6. segmentSeq' = segmentSeq /\ segmentSeq' >= segmentSeq
      BY <1>2, <1>9 DEF RotateSync
  <2> QED BY <2>1, <2>2, <2>3, <2>4, <2>6, MovesClientInv
<1>10. CASE RotateSyncErr(c)
  <2>1. PICK to \in {"open", "ok", "err"} : to = "err"
      OBVIOUS
  <2>2. InLog(c) /\ files' = files /\ log' = [log EXCEPT ![c].pc = to]
      BY <1>10, <2>1 DEF RotateSyncErr, LogFails, InLog
  <2>3. \/ synced' = synced
        \/ synced' = [synced EXCEPT ![segmentSeq] = Len(files[segmentSeq])]
      BY <1>10 DEF RotateSyncErr
  <2>4. segment = "open" /\ segment' # "none"
      BY <1>3, <1>10 DEF RotateSyncErr
  <2>6. segmentSeq' = segmentSeq /\ segmentSeq' >= segmentSeq
      BY <1>2, <1>10 DEF RotateSyncErr
  <2> QED BY <2>1, <2>2, <2>3, <2>4, <2>6, MovesClientInv
<1>11. CASE RotateOpen(c)
    BY <1>11, RotateOpenClientInv
<1>12. CASE RotateOpenErr(c)
    BY <1>2, <1>3, <1>12, MovesClientInv DEF RotateOpenErr, LogFails, InLog
<1> QED BY <1>5, <1>6, <1>7, <1>8, <1>9, <1>10, <1>11, <1>12 DEF Step, LogStep

\* The caller takes Log's result.
LEMMA DoneClientInv ==
    ASSUME ClientInv, NEW c \in Caller, log[c].pc \in {"ok", "err"}, LogDone(c),
           acked' \subseteq 1 .. issued,
           issued' = issued, truncated' = truncated, stale' = stale,
           blind' = blind, stray' = stray
    PROVE  ClientInv'
<1>1. WALTypeOK /\ WALTypeOK'
    BY LogDoneType DEF ClientInv
<1>2. ClientTypeOK'
    BY <1>1 DEF ClientInv
<1>3. UNCHANGED <<files, synced, segment, segmentSeq>>
    BY DEF LogDone
<1>4. /\ \A d \in Caller : d # c => log'[d] = log[d]
      /\ log'[c].pc = "idle" /\ log'[c].recs = << >>
    BY <1>1 DEF LogDone, NoCall, WALTypeOK
<1>4a. issued' \in Nat /\ issued =< issued'
    BY ClientAssumption DEF ClientInv
<1>5. OpenOnDisk' /\ NothingNewer' /\ SealedSynced' /\ ReplayInOrder'
    BY <1>3, <1>4a, SameFilesClient DEF ClientInv, OpenOnDisk, NothingNewer
<1>6. RotateState' /\ SyncedBeforeOpen'
    BY <1>3, <1>4 DEF ClientInv, RotateState, SyncedBeforeOpen, InLog
<1>7. IssuedOnly'
    BY <1>3, <1>4 DEF ClientInv, IssuedOnly
<1>8. BatchOrder' /\ StrayBatch'
    BY <1>3, <1>4 DEF ClientInv, BatchOrder, StrayBatch, InLog
<1> QED BY <1>2, <1>5, <1>6, <1>7, <1>8 DEF ClientInv

LEMMA AcknowledgeClientInv ==
    ASSUME ClientInv, NEW c \in Caller, Acknowledge(c) \/ Refuse(c)
    PROVE  ClientInv'
<1>1. acked \subseteq 1 .. issued
    BY DEF ClientInv
<1>2. \A i \in 1 .. Len(log[c].recs) : log[c].recs[i] \in 1 .. issued
  <2> SUFFICES ASSUME NEW i \in 1 .. Len(log[c].recs) PROVE log[c].recs[i] \in 1 .. issued
      OBVIOUS
  <2>1. log[c].recs \in Seq(Sample)
      BY DEF ClientInv, WALTypeOK, LogCall
  <2>2. log[c].recs[i] \in 1 .. MaxIssued
      BY <2>1, ClientAssumption
  <2>3. log[c].recs[i] =< issued
      BY DEF ClientInv, IssuedOnly
  <2> QED BY <2>2, <2>3, ClientAssumption DEF ClientInv
<1>3. acked' \subseteq 1 .. issued
    BY <1>1, <1>2 DEF Acknowledge, Refuse
<1> QED BY <1>3, DoneClientInv DEF Acknowledge, Refuse

LEMMA ReadClientInv == ClientInv /\ ReadSegmentSeq => ClientInv'
<1> SUFFICES ASSUME ClientInv, ReadSegmentSeq PROVE ClientInv'
    OBVIOUS
<1>1. /\ UNCHANGED <<files, synced, segment, segmentSeq, segmentSize, log, issued, acked, truncated>>
      /\ UNCHANGED <<blind, stray>>
    BY DEF ReadSegmentSeq, walVars
<1>2. WALTypeOK'
    BY <1>1 DEF ClientInv, WALTypeOK
<1>3. ClientTypeOK'
    BY <1>1, <1>2 DEF ClientInv, ReadSegmentSeq, WALTypeOK
<1>4. NothingNewer'
    BY <1>1 DEF ClientInv, NothingNewer, ReadSegmentSeq, WALTypeOK
<1>5. OpenOnDisk' /\ RotateState' /\ SyncedBeforeOpen'
    BY <1>1 DEF ClientInv, OpenOnDisk, RotateState, SyncedBeforeOpen, InLog
<1>5a. issued' \in Nat /\ issued =< issued'
    BY <1>1, ClientAssumption DEF ClientInv
<1>6. IssuedOnly' /\ BatchOrder' /\ StrayBatch' /\ SealedSynced' /\ ReplayInOrder'
    BY <1>1, <1>5a, SameFilesClient DEF ClientInv, IssuedOnly, BatchOrder, StrayBatch, InLog
<1> QED BY <1>3, <1>4, <1>5, <1>6 DEF ClientInv

LEMMA TruncateClientInv == ClientInv /\ TruncateStale => ClientInv'
<1> SUFFICES ASSUME ClientInv, TruncateStale PROVE ClientInv'
    OBVIOUS
<1>1. WALTypeOK /\ WALTypeOK'
    BY TruncateType DEF ClientInv, TruncateStale
<1>2. /\ UNCHANGED <<segment, segmentSeq, segmentSize, log, issued, acked, stale, blind, stray>>
      /\ segment # "none" /\ \A c \in Caller : ~ InLog(c)
    BY DEF TruncateStale, Truncate, MuFree
<1>3. PICK gone \in TruncatedSets(stale) :
         /\ files' = [s \in DOMAIN files \ gone |-> files[s]]
         /\ synced' = [s \in DOMAIN files \ gone |-> synced[s]]
    BY DEF TruncateStale, Truncate
<1>4. \A s \in gone : s \in DOMAIN files /\ s < stale
    BY <1>3 DEF TruncatedSets
<1>5. /\ DOMAIN files' \subseteq DOMAIN files
      /\ \A s \in DOMAIN files' : files'[s] = files[s] /\ synced'[s] = synced[s]
    BY <1>3
<1>6. stale =< segmentSeq /\ stale \in Nat /\ segmentSeq \in Nat
    BY <1>1, <1>2 DEF ClientInv, NothingNewer, WALTypeOK
<1>7. segmentSeq \in DOMAIN files => segmentSeq \in DOMAIN files'
    BY <1>3, <1>4, <1>6
<1>8. ClientTypeOK'
  <2>1. \A s \in DOMAIN files : \A i \in 1 .. Len(files[s]) : files[s][i].rec \in 1 .. issued
      BY ChunkType, ClientAssumption DEF ClientInv
  <2>2. truncated' \subseteq 1 .. issued
    <3> SUFFICES ASSUME NEW r \in truncated' PROVE r \in 1 .. issued
        OBVIOUS
    <3>1. CASE r \in truncated
        BY <3>1 DEF ClientInv
    <3>2. CASE \E s \in DOMAIN files \ DOMAIN files' : \E i \in 1 .. Len(files[s]) : r = files[s][i].rec
        BY <2>1, <3>2
    <3> QED BY <3>1, <3>2 DEF TruncateStale
  <2> QED BY <1>1, <1>2, <2>2 DEF ClientInv
<1>9. OpenOnDisk' /\ NothingNewer'
    BY <1>2, <1>5, <1>7 DEF ClientInv, OpenOnDisk, NothingNewer
<1>10. RotateState' /\ SyncedBeforeOpen' /\ BatchOrder' /\ StrayBatch'
    BY <1>2 DEF RotateState, SyncedBeforeOpen, BatchOrder, StrayBatch, InLog
<1>11. IssuedOnly'
    BY <1>2, <1>5 DEF ClientInv, IssuedOnly
<1>12. SealedSynced' /\ ReplayInOrder'
  <2>1. ReplayInOrder'
      BY <1>2, <1>5, SameChunks
  <2>2. SealedSynced'
    <3> SUFFICES ASSUME NEW s \in DOMAIN files', NEW t \in DOMAIN files', s < t,
                        NEW i \in synced'[s] + 1 .. Len(files'[s])
                 PROVE  Stray(stray, issued, files'[s][i].rec)
        BY <1>2, StrayFormNext DEF Stray
    <3> QED BY <1>5, StrayForm DEF ClientInv
  <2> QED BY <2>1, <2>2
<1> QED BY <1>8, <1>9, <1>10, <1>11, <1>12 DEF ClientInv

LEMMA CloseClientInv == ClientInv /\ Close => ClientInv'
<1> SUFFICES ASSUME ClientInv, Close PROVE ClientInv'
    OBVIOUS
<1>1. WALTypeOK /\ WALTypeOK'
    BY WALCloseType DEF ClientInv, Close
<1>2. /\ UNCHANGED <<files, segmentSeq, segmentSize, log, issued, acked, truncated, stale>>
      /\ UNCHANGED <<blind, stray>>
      /\ segment # "none" /\ \A c \in Caller : ~ InLog(c)
    BY DEF Close, WALClose, MuFree
<1>3. /\ segment' # "none"
      /\ segment' = "open" => segment = "open"
      /\ \A s \in DOMAIN files : synced'[s] = synced[s] \/ synced'[s] = Len(files[s])
    BY <1>1, <1>2 DEF Close, WALClose, WALTypeOK
<1>4. ClientTypeOK'
    BY <1>1, <1>2 DEF ClientInv
<1>5. OpenOnDisk' /\ NothingNewer' /\ RotateState' /\ SyncedBeforeOpen' /\ BatchOrder' /\ StrayBatch'
    BY <1>2, <1>3 DEF ClientInv, OpenOnDisk, NothingNewer, RotateState, SyncedBeforeOpen,
                      BatchOrder, StrayBatch, InLog
<1>6. IssuedOnly' /\ ReplayInOrder'
    BY <1>2, SameChunks DEF ClientInv, IssuedOnly
<1>7. SealedSynced'
  <2> SUFFICES ASSUME NEW s \in DOMAIN files, NEW t \in DOMAIN files, s < t,
                      NEW i \in synced'[s] + 1 .. Len(files[s])
               PROVE  Stray(stray, issued, files[s][i].rec)
      BY <1>2, StrayFormNext DEF Stray
  <2>1. Len(files[s]) \in Nat
      BY <1>1 DEF WALTypeOK
  <2>2. synced'[s] = synced[s]
      BY <1>3, <2>1
  <2> QED BY <2>2, StrayForm DEF ClientInv
<1> QED BY <1>4, <1>5, <1>6, <1>7 DEF ClientInv

\* After a crash, with the files as they were or cut down to prefixes.
LEMMA DownClientInv ==
    ASSUME ClientInv, WALTypeOK', ClientTypeOK',
           segment' = "none", stale' = 0, issued' = issued, blind' = {}, stray' = stray,
           \A c \in Caller : log'[c] = NoCall,
           DOMAIN files' \subseteq DOMAIN files,
           \A s \in DOMAIN files' :
              /\ Len(files'[s]) =< Len(files[s])
              /\ \A i \in 1 .. Len(files'[s]) : files'[s][i] = files[s][i],
           SealedSynced'
    PROVE  ClientInv'
<1>0. \A c \in Caller : log'[c].pc = "idle"
    BY DEF NoCall
<1>1. OpenOnDisk' /\ NothingNewer' /\ RotateState' /\ SyncedBeforeOpen' /\ BatchOrder' /\ StrayBatch'
    BY <1>0 DEF OpenOnDisk, NothingNewer, RotateState, SyncedBeforeOpen, BatchOrder, StrayBatch, InLog
<1>2. \A s \in DOMAIN files' : Len(files[s]) \in Nat /\ Len(files'[s]) \in Nat
    BY DEF ClientInv, WALTypeOK
<1>3. \A s \in DOMAIN files' : \A i \in 1 .. Len(files'[s]) :
         s \in DOMAIN files /\ i \in 1 .. Len(files[s]) /\ files'[s][i] = files[s][i]
    BY <1>2
<1>4. IssuedOnly'
    BY <1>3 DEF ClientInv, IssuedOnly, NoCall
<1>5. ReplayInOrder'
  <2> SUFFICES ASSUME NEW s \in DOMAIN files', NEW t \in DOMAIN files',
                      NEW i \in 1 .. Len(files'[s]), NEW j \in 1 .. Len(files'[t]),
                      s < t \/ (s = t /\ i < j)
               PROVE  \/ files'[s][i].rec < files'[t][j].rec
                      \/ s < t /\ StrayAfter(stray, issued, files'[s][i].rec, files'[t][j].rec)
      BY StrayFormNext DEF StrayAfter
  <2>1. /\ s \in DOMAIN files /\ i \in 1 .. Len(files[s]) /\ files'[s][i] = files[s][i]
        /\ t \in DOMAIN files /\ j \in 1 .. Len(files[t]) /\ files'[t][j] = files[t][j]
      BY <1>3
  <2> QED BY <2>1, StrayForm DEF ClientInv
<1> QED BY <1>1, <1>4, <1>5 DEF ClientInv

LEMMA CrashClientInv == ClientInv /\ Crash => ClientInv'
<1> SUFFICES ASSUME ClientInv, Crash PROVE ClientInv'
    OBVIOUS
<1>1. WALTypeOK /\ WALTypeOK'
    BY WALCrashType DEF ClientInv, Crash
<1>2. ClientTypeOK'
    BY <1>1 DEF ClientInv, Crash
<1>3. /\ files' = files /\ synced' = synced /\ segment' = "none" /\ stale' = 0
      /\ issued' = issued /\ \A c \in Caller : log'[c] = NoCall
      /\ blind' = {} /\ stray' = stray
    BY DEF Crash, WALCrash
<1>4. \A s \in DOMAIN files : Len(files[s]) \in Nat
    BY <1>1 DEF WALTypeOK
<1>4a. issued' \in Nat /\ issued =< issued'
    BY <1>3, ClientAssumption DEF ClientInv
<1>5. SealedSynced'
    BY <1>3, <1>4a, SameFilesClient
<1> QED BY <1>1, <1>2, <1>3, <1>4, <1>5, DownClientInv

LEMMA PowerLossClientInv == ClientInv /\ PowerLoss => ClientInv'
<1> SUFFICES ASSUME ClientInv, PowerLoss PROVE ClientInv'
    OBVIOUS
<1>1. WALTypeOK /\ WALTypeOK'
    BY WALPowerLossType DEF ClientInv, PowerLoss
<1>2. ClientTypeOK'
    BY <1>1 DEF ClientInv, PowerLoss
<1>3. PICK lost \in SUBSET {s \in DOMAIN files : synced[s] = 0} :
         \E len \in [DOMAIN files \ lost -> UNION {0 .. Len(files[s]) : s \in DOMAIN files}] :
            /\ \A s \in DOMAIN len : len[s] \in synced[s] .. Len(files[s])
            /\ files' = [s \in DOMAIN len |-> SubSeq(files[s], 1, len[s])]
            /\ synced' = len
    BY DEF PowerLoss, WALPowerLoss
<1>4. PICK len \in [DOMAIN files \ lost -> UNION {0 .. Len(files[s]) : s \in DOMAIN files}] :
            /\ \A s \in DOMAIN len : len[s] \in synced[s] .. Len(files[s])
            /\ files' = [s \in DOMAIN len |-> SubSeq(files[s], 1, len[s])]
            /\ synced' = len
    BY <1>3
<1>5. DOMAIN files' = DOMAIN len /\ DOMAIN len \subseteq DOMAIN files
    BY <1>4
<1>6. ASSUME NEW s \in DOMAIN files'
      PROVE  /\ Len(files'[s]) = len[s]
             /\ Len(files'[s]) =< Len(files[s])
             /\ \A i \in 1 .. Len(files'[s]) : files'[s][i] = files[s][i]
  <2>1. files[s] \in Seq(Chunk) /\ synced[s] \in 0 .. Len(files[s])
      BY <1>1, <1>5 DEF WALTypeOK
  <2>2. len[s] \in 0 .. Len(files[s])
      BY <1>4, <1>5, <2>1
  <2>3. files'[s] = SubSeq(files[s], 1, len[s])
      BY <1>4, <1>5
  <2> QED BY <2>1, <2>2, <2>3
<1>7. SealedSynced'
  <2>1. \A s \in DOMAIN files' : synced'[s] = Len(files'[s]) /\ Len(files'[s]) \in Nat
      BY <1>1, <1>4, <1>5, <1>6 DEF WALTypeOK
  <2> QED BY <2>1 DEF SealedSynced
<1>8. /\ segment' = "none" /\ stale' = 0 /\ issued' = issued /\ blind' = {} /\ stray' = stray
      /\ \A c \in Caller : log'[c] = NoCall
    BY DEF PowerLoss, WALPowerLoss
<1> QED BY <1>1, <1>2, <1>5, <1>6, <1>7, <1>8, DownClientInv

LEMMA NextClientInv == ClientInv /\ [Next]_vars => ClientInv'
<1> SUFFICES ASSUME ClientInv, [Next]_vars PROVE ClientInv'
    OBVIOUS
<1>1. CASE UNCHANGED vars
  <2>1. /\ UNCHANGED <<files, synced, segment, segmentSeq, segmentSize, log, issued, acked, truncated>>
        /\ UNCHANGED <<stale, blind, stray>>
      BY <1>1 DEF vars, walVars
  <2>2. WALTypeOK' /\ ClientTypeOK'
      BY <2>1 DEF ClientInv, WALTypeOK
  <2>3. OpenOnDisk' /\ NothingNewer' /\ RotateState' /\ SyncedBeforeOpen'
      BY <2>1 DEF ClientInv, OpenOnDisk, NothingNewer, RotateState, SyncedBeforeOpen, InLog
  <2>3a. issued' \in Nat /\ issued =< issued'
      BY <2>1, ClientAssumption DEF ClientInv
  <2>4. IssuedOnly' /\ BatchOrder' /\ StrayBatch' /\ SealedSynced' /\ ReplayInOrder'
      BY <2>1, <2>3a, SameFilesClient DEF ClientInv, IssuedOnly, BatchOrder, StrayBatch, InLog
  <2> QED BY <2>2, <2>3, <2>4 DEF ClientInv
<1>2. CASE Next
    BY <1>2, OpenClientInv, OpenErrClientInv, CallClientInv, StepClientInv, AcknowledgeClientInv, ReadClientInv,
       TruncateClientInv, CloseClientInv, CrashClientInv, PowerLossClientInv DEF Next
<1> QED BY <1>1, <1>2

LEMMA ClientInvariant == Spec => []ClientInv
BY InitClientInv, NextClientInv, PTL DEF Spec

-----------------------------------------------------------------------------

\* Every segment but the last is fsynced as a whole: rotate syncs before it
\* creates the successor, and no crash, failed rotation, truncation or reopen
\* leaves an unsynced segment behind a newer one, except for what was logged
\* by a process that opened segment 0 beside later ones because it could not
\* list the directory.
THEOREM SealedSegmentsSynced == Spec => []SealedSynced
<1>1. ClientInv => SealedSynced
    BY DEF ClientInv
<1> QED BY <1>1, ClientInvariant, PTL

\* Along the segments, in numerical order, records appear in the order in
\* which they were handed to Log; only what such a process logged may stand
\* before what was there when it started.
THEOREM LogOrderKept == Spec => []ReplayInOrder
<1>1. ClientInv => ReplayInOrder
    BY DEF ClientInv
<1> QED BY <1>1, ClientInvariant, PTL

\* The open segment is on disk, so Truncate with any number SegmentSeq has
\* returned leaves it alone, and it is the newest one, of those written since
\* the start in a process that opened segment 0 beside later ones.
THEOREM AppendsToLastSegment == Spec => []CurrentSegmentLast
<1>1. ClientInv => CurrentSegmentLast
    BY DEF ClientInv, CurrentSegmentLast, OpenOnDisk, NothingNewer
<1> QED BY <1>1, ClientInvariant, PTL

\* Type correctness of the log and its driver.
THEOREM ClientTypeCorrect == Spec => []ClientTypeOK
<1>1. ClientInv => ClientTypeOK
    BY DEF ClientInv
<1> QED BY <1>1, ClientInvariant, PTL

-----------------------------------------------------------------------------
(***************************************************************************)
(* Recovery of acknowledged records.  RecoversAcked speaks of calls that   *)
(* returned nil; to keep it, the invariant has to follow the records of    *)
(* calls that have not returned yet, and to know that a torn record is of  *)
(* no call that may still succeed.                                         *)
(***************************************************************************)

\* A record is in the files fs as a whole, or in part.
WholeIn(fs, r) == \E s \in DOMAIN fs : \E i \in 1 .. Len(fs[s]) : fs[s][i] = Whole(r)

TornIn(fs, r) ==
    \E s \in DOMAIN fs : \E i \in 1 .. Len(fs[s]) : fs[s][i].cut # "none" /\ fs[s][i].rec = r

RecsOf(c) == {log[c].recs[i] : i \in 1 .. Len(log[c].recs)}

AckedWhole == \A a \in acked : a \in truncated \/ WholeIn(files, a)

\* What a call that has not failed has written is in the files.
WrittenWhole ==
    \A c \in Caller :
       /\ log[c].pc = "ok" => log[c].n = Len(log[c].recs)
       /\ log[c].pc # "err" =>
             \A i \in 1 .. log[c].n :
                log[c].recs[i] \in truncated \/ WholeIn(files, log[c].recs[i])

TornFailed ==
    \A r \in Sample : TornIn(files, r) =>
       /\ r \notin acked
       /\ \A c \in Caller : log[c].pc # "err" => r \notin RecsOf(c)

\* Two calls have no record in common, and none with calls that returned.
OwnRecords ==
    \A c \in Caller :
       /\ RecsOf(c) \cap acked = {}
       /\ \A d \in Caller : c # d => RecsOf(c) \cap RecsOf(d) = {}

RecoverInv ==
    /\ ClientInv
    /\ AckedWhole
    /\ WrittenWhole
    /\ TornFailed
    /\ OwnRecords

LEMMA InitRecoverInv == Init => RecoverInv
<1> SUFFICES ASSUME Init PROVE RecoverInv
    OBVIOUS
<1>1. DOMAIN files = {} /\ acked = {}
    BY DEF Init, WALInit
<1>2. \A c \in Caller : log[c] = [pc |-> "idle", recs |-> << >>, n |-> 0]
    BY DEF Init, WALInit, NoCall
<1>3. \A c \in Caller : RecsOf(c) = {} /\ log[c].n = 0 /\ log[c].pc = "idle"
    BY <1>2 DEF RecsOf
<1> QED BY <1>1, <1>3, InitClientInv DEF RecoverInv, AckedWhole, WrittenWhole, TornFailed, OwnRecords, TornIn

\* Steps that keep what is in the files and write no record.
LEMMA KeepsRecords ==
    ASSUME RecoverInv, ClientInv',
           \A r : WholeIn(files, r) => WholeIn(files', r),
           \A r : TornIn(files', r) => TornIn(files, r),
           truncated' = truncated, acked' = acked,
           \A d \in Caller : /\ log'[d].recs = log[d].recs /\ log'[d].n = log[d].n
                             /\ log[d].pc = "err" => log'[d].pc = "err"
                             /\ log'[d].pc = "ok" => log[d].pc = "ok" \/ log[d].n = Len(log[d].recs)
    PROVE  RecoverInv'
<1> USE DEF RecoverInv
<1>1. \A d \in Caller : RecsOf(d)' = RecsOf(d)
    BY DEF RecsOf
<1>2. AckedWhole'
    BY DEF AckedWhole
<1>3. WrittenWhole'
    BY DEF WrittenWhole
<1>4. TornFailed'
    BY <1>1 DEF TornFailed
<1>5. OwnRecords'
    BY <1>1 DEF OwnRecords
<1> QED BY <1>2, <1>3, <1>4, <1>5

\* Opening a segment keeps what is in the files.
LEMMA OpenFileKeeps ==
    ASSUME WALTypeOK, NEW seq \in Nat, OpenFile(seq) \/ OpenAndSync(seq)
    PROVE  /\ \A r : WholeIn(files, r) => WholeIn(files', r)
           /\ \A r : TornIn(files', r) => TornIn(files, r)
<1>1. /\ DOMAIN files' = DOMAIN files \cup {seq}
      /\ \A s \in DOMAIN files : files'[s] = files[s]
      /\ seq \notin DOMAIN files => files'[seq] = << >>
    BY OpenedFileType
<1>2. ASSUME NEW r, WholeIn(files, r) PROVE WholeIn(files', r)
    BY <1>1, <1>2 DEF WholeIn
<1>3. ASSUME NEW r, TornIn(files', r) PROVE TornIn(files, r)
    BY <1>1, <1>3 DEF TornIn
<1> QED BY <1>2, <1>3

LEMMA OpenRecoverInv == RecoverInv /\ (Open \/ OpenErr) => RecoverInv'
<1> SUFFICES ASSUME RecoverInv, Open \/ OpenErr PROVE RecoverInv'
    OBVIOUS
<1>1. WALTypeOK /\ ClientInv'
    BY OpenClientInv, OpenErrClientInv DEF RecoverInv, ClientInv
<1>2. PICK seq \in DOMAIN files \cup {0} : OpenFile(seq) \/ OpenAndSync(seq)
    BY DEF Open, NewWAL, OpenSegment, OpenErr, NewWALErr
<1>3. seq \in Nat
    BY <1>1 DEF WALTypeOK
<1>4. log' = log /\ truncated' = truncated /\ acked' = acked
    BY DEF Open, NewWAL, OpenErr, NewWALErr
<1> QED BY <1>1, <1>2, <1>3, <1>4, OpenFileKeeps, KeepsRecords

LEMMA QuietRecoverInv ==
    ASSUME RecoverInv, ClientInv', files' = files, log' = log, truncated' = truncated, acked' = acked
    PROVE  RecoverInv'
BY KeepsRecords DEF WholeIn, TornIn

LEMMA CallRecoverInv ==
    ASSUME RecoverInv, NEW c \in Caller, Call(c)
    PROVE  RecoverInv'
<1> USE DEF RecoverInv
<1>0. ClientInv' /\ WALTypeOK
    BY CallClientInv DEF ClientInv
<1>1. PICK k \in 0 .. MaxBatch : LogStart(c, [i \in 1 .. k |-> issued + i])
    BY DEF Call
<1>2. k \in Nat /\ issued \in Nat
    BY ClientAssumption DEF ClientInv
<1>3. \A d \in Caller : d # c => log'[d] = log[d]
    BY <1>0, <1>1 DEF LogStart, WALTypeOK
<1>4. log'[c] = [pc |-> "writing", recs |-> [i \in 1 .. k |-> issued + i], n |-> 0]
    BY <1>0, <1>1 DEF LogStart, WALTypeOK
<1>5. log'[c].pc = "writing" /\ log'[c].recs = [i \in 1 .. k |-> issued + i] /\ log'[c].n = 0
    BY <1>4
<1>6. files' = files /\ acked' = acked /\ truncated' = truncated
    BY <1>1 DEF LogStart, Call
<1>7. \A r \in RecsOf(c)' : r > issued /\ r \in Int
  <2>1. Len(log'[c].recs) = k
      BY <1>2, <1>5
  <2> QED BY <1>2, <1>5, <2>1 DEF RecsOf
<1>8. \A d \in Caller : d # c => RecsOf(d)' = RecsOf(d)
    BY <1>3 DEF RecsOf
<1>9. \A d \in Caller : \A r \in RecsOf(d) : r =< issued /\ r \in Int
  <2> SUFFICES ASSUME NEW d \in Caller, NEW i \in 1 .. Len(log[d].recs)
               PROVE  log[d].recs[i] =< issued /\ log[d].recs[i] \in Int
      BY DEF RecsOf
  <2>1. log[d].recs \in Seq(Sample)
      BY <1>0 DEF WALTypeOK, LogCall
  <2>2. log[d].recs[i] \in Sample
      BY <2>1
  <2> QED BY <2>2, ClientAssumption DEF ClientInv, IssuedOnly
<1>10. acked \subseteq 1 .. issued
    BY DEF ClientInv
<1>11. AckedWhole'
    BY <1>6 DEF AckedWhole
<1>12. WrittenWhole'
    BY <1>3, <1>5, <1>6 DEF WrittenWhole
<1>13. TornFailed'
  <2> SUFFICES ASSUME NEW r \in Sample, TornIn(files, r)
               PROVE  /\ r \notin acked
                      /\ \A d \in Caller : log'[d].pc # "err" => r \notin RecsOf(d)'
      BY <1>6 DEF TornFailed
  <2>1. r =< issued /\ r \in Int
      BY ClientAssumption DEF TornIn, ClientInv, IssuedOnly
  <2>2. r \notin RecsOf(c)'
      BY <1>2, <1>7, <2>1
  <2> QED BY <1>3, <1>8, <2>2 DEF TornFailed
<1>14. OwnRecords'
  <2>1. RecsOf(c)' \cap acked = {}
      BY <1>2, <1>7, <1>10
  <2>2. \A d \in Caller : d # c => RecsOf(c)' \cap RecsOf(d) = {}
      BY <1>2, <1>7, <1>9
  <2> QED BY <1>6, <1>8, <2>1, <2>2 DEF OwnRecords
<1> QED BY <1>0, <1>11, <1>12, <1>13, <1>14

\* A record is appended, whole or in part.
LEMMA AppendKeeps ==
    ASSUME WALTypeOK, segmentSeq \in DOMAIN files, NEW ch \in Chunk,
           files' = [files EXCEPT ![segmentSeq] = Append(@, ch)]
    PROVE  /\ \A r : WholeIn(files, r) => WholeIn(files', r)
           /\ ch.cut = "none" => WholeIn(files', ch.rec)
           /\ \A r : TornIn(files', r) => TornIn(files, r) \/ (r = ch.rec /\ ch.cut # "none")
<1> DEFINE f == files[segmentSeq]
<1>1. f \in Seq(Chunk) /\ Len(f) \in Nat
    BY DEF WALTypeOK
<1>2. /\ DOMAIN files' = DOMAIN files
      /\ \A s \in DOMAIN files : s # segmentSeq => files'[s] = files[s]
      /\ files'[segmentSeq] = Append(f, ch)
    OBVIOUS
<1>3. /\ Len(files'[segmentSeq]) = Len(f) + 1
      /\ \A i \in 1 .. Len(f) : files'[segmentSeq][i] = f[i]
      /\ files'[segmentSeq][Len(f) + 1] = ch
  <2> HIDE DEF f
  <2> QED BY <1>1, <1>2
<1>4. ASSUME NEW s \in DOMAIN files, NEW i \in 1 .. Len(files[s])
      PROVE  i \in 1 .. Len(files'[s]) /\ files'[s][i] = files[s][i]
  <2>1. CASE s = segmentSeq
      BY <1>1, <1>3, <1>4, <2>1
  <2>2. CASE s # segmentSeq
      BY <1>2, <2>2
  <2> QED BY <2>1, <2>2
<1>5. ASSUME NEW s \in DOMAIN files', NEW i \in 1 .. Len(files'[s])
      PROVE  \/ i \in 1 .. Len(files[s]) /\ files'[s][i] = files[s][i]
             \/ files'[s][i] = ch
  <2>1. CASE s = segmentSeq
      BY <1>1, <1>3, <1>5, <2>1
  <2>2. CASE s # segmentSeq
      BY <1>2, <2>2
  <2> QED BY <2>1, <2>2
<1>6. ASSUME NEW r, WholeIn(files, r) PROVE WholeIn(files', r)
    BY <1>2, <1>4, <1>6 DEF WholeIn
<1>7. ASSUME ch.cut = "none" PROVE WholeIn(files', ch.rec)
  <2>1. ch = Whole(ch.rec)
      BY <1>7 DEF Whole, Chunk
  <2>2. Len(f) + 1 \in 1 .. Len(files'[segmentSeq])
      BY <1>1, <1>3
  <2> HIDE DEF f
  <2> QED BY <1>2, <1>3, <2>1, <2>2 DEF WholeIn
<1>8. ASSUME NEW r, TornIn(files', r) PROVE TornIn(files, r) \/ (r = ch.rec /\ ch.cut # "none")
    BY <1>2, <1>5, <1>8 DEF TornIn
<1> QED BY <1>6, <1>7, <1>8
LEMMA WriteRecoverInv ==
    ASSUME RecoverInv, NEW c \in Caller, Step(c), LogWrite(c)
    PROVE  RecoverInv'
<1> USE DEF RecoverInv
<1> DEFINE r == LogNext(c)
<1>0. ClientInv' /\ WALTypeOK
    BY StepClientInv DEF ClientInv
<1>1. truncated' = truncated /\ acked' = acked /\ LogPending(c)
    BY DEF Step, LogWrite
<1>2. r \in Sample
    BY <1>0, <1>1, LogNextType
<1>3. Whole(r) \in Chunk /\ Whole(r).cut = "none" /\ Whole(r).rec = r
    BY <1>2 DEF Whole, Chunk
<1>4. segmentSeq \in DOMAIN files
    BY DEF ClientInv, OpenOnDisk, LogWrite
<1>5. files' = [files EXCEPT ![segmentSeq] = Append(@, Whole(r))]
    BY DEF LogWrite
<1> HIDE DEF r
<1>6. /\ \A x : WholeIn(files, x) => WholeIn(files', x)
      /\ WholeIn(files', r)
      /\ \A x : TornIn(files', x) => TornIn(files, x)
    BY <1>0, <1>3, <1>4, <1>5, AppendKeeps
<1>7. \A d \in Caller : d # c => log'[d] = log[d]
    BY <1>0 DEF LogWrite, WALTypeOK
<1>8. log'[c].recs = log[c].recs /\ log'[c].n = log[c].n + 1 /\ log'[c].pc \in {"sync", "writing"}
    BY <1>0 DEF LogWrite, WALTypeOK
<1>9. \A d \in Caller : RecsOf(d)' = RecsOf(d)
    BY <1>7, <1>8 DEF RecsOf
<1>10. log[c].n \in Nat /\ log[c].recs[log[c].n + 1] = r /\ log[c].pc = "writing"
    BY <1>0, <1>1 DEF WALTypeOK, LogCall, LogNext, LogPending, r
<1>11. AckedWhole'
    BY <1>1, <1>6 DEF AckedWhole
<1>12. WrittenWhole'
  <2>1. \A i \in 1 .. log'[c].n : i \in 1 .. log[c].n \/ i = log[c].n + 1
      BY <1>8, <1>10
  <2>2. ASSUME NEW i \in 1 .. log'[c].n
        PROVE  log'[c].recs[i] \in truncated' \/ WholeIn(files', log'[c].recs[i])
    <3>1. CASE i \in 1 .. log[c].n
        BY <1>1, <1>6, <1>8, <1>10, <3>1 DEF WrittenWhole
    <3>2. CASE i = log[c].n + 1
        BY <1>6, <1>8, <1>10, <3>2
    <3> QED BY <2>1, <3>1, <3>2
  <2> QED BY <1>1, <1>6, <1>7, <1>8, <2>2 DEF WrittenWhole
<1>13. TornFailed'
  <2> SUFFICES ASSUME NEW x \in Sample, TornIn(files', x)
               PROVE  /\ x \notin acked
                      /\ \A d \in Caller : log'[d].pc # "err" => x \notin RecsOf(d)
      BY <1>1, <1>9 DEF TornFailed
  <2>1. /\ x \notin acked
        /\ \A d \in Caller : log[d].pc # "err" => x \notin RecsOf(d)
      BY <1>6 DEF TornFailed
  <2> QED BY <1>7, <1>10, <2>1
<1>14. OwnRecords'
    BY <1>1, <1>9 DEF OwnRecords
<1> QED BY <1>0, <1>11, <1>12, <1>13, <1>14

\* A torn record is of the call that failed on it, and of no other.
LEMMA TornRecoverInv ==
    ASSUME RecoverInv, NEW c \in Caller, Step(c), LogWriteTorn(c)
    PROVE  RecoverInv'
<1> USE DEF RecoverInv
<1> DEFINE r == LogNext(c)
<1>0. ClientInv' /\ WALTypeOK
    BY StepClientInv DEF ClientInv
<1>1. truncated' = truncated /\ acked' = acked /\ LogPending(c)
    BY DEF Step, LogWriteTorn
<1>2. r \in Sample
    BY <1>0, <1>1, LogNextType
<1>3. PICK cut \in Cut : files' = [files EXCEPT ![segmentSeq] = Append(@, [rec |-> r, cut |-> cut])]
    BY DEF LogWriteTorn
<1>4. segmentSeq \in DOMAIN files
    BY DEF ClientInv, OpenOnDisk, LogWriteTorn
<1>5. [rec |-> r, cut |-> cut] \in Chunk
    BY <1>2 DEF Chunk
<1> HIDE DEF r
<1>6. /\ \A x : WholeIn(files, x) => WholeIn(files', x)
      /\ \A x : TornIn(files', x) => TornIn(files, x) \/ x = r
    BY <1>0, <1>3, <1>4, <1>5, AppendKeeps
<1>7. \A d \in Caller : d # c => log'[d] = log[d]
    BY <1>0 DEF LogWriteTorn, LogFails, WALTypeOK
<1>8. log'[c].recs = log[c].recs /\ log'[c].n = log[c].n /\ log'[c].pc = "err"
    BY <1>0 DEF LogWriteTorn, LogFails, WALTypeOK, LogCall
<1>9. \A d \in Caller : RecsOf(d)' = RecsOf(d)
    BY <1>7, <1>8 DEF RecsOf
<1>10. r \in RecsOf(c)
  <2>1. log[c].n \in Nat /\ Len(log[c].recs) \in Nat /\ log[c].n < Len(log[c].recs)
      BY <1>0, <1>1 DEF WALTypeOK, LogCall, LogPending
  <2>2. log[c].n + 1 \in 1 .. Len(log[c].recs)
      BY <2>1
  <2> QED BY <2>2 DEF RecsOf, r, LogNext
<1>11. AckedWhole'
    BY <1>1, <1>6 DEF AckedWhole
<1>12. WrittenWhole'
    BY <1>1, <1>6, <1>7, <1>8 DEF WrittenWhole
<1>13. TornFailed'
  <2> SUFFICES ASSUME NEW x \in Sample, TornIn(files', x)
               PROVE  /\ x \notin acked
                      /\ \A d \in Caller : log'[d].pc # "err" => x \notin RecsOf(d)
      BY <1>1, <1>9 DEF TornFailed
  <2>1. CASE x = r
      BY <1>8, <1>10, <2>1 DEF OwnRecords
  <2>2. CASE TornIn(files, x)
      BY <1>7, <1>8, <2>2 DEF TornFailed
  <2> QED BY <1>6, <2>1, <2>2
<1>14. OwnRecords'
    BY <1>1, <1>9 DEF OwnRecords
<1> QED BY <1>0, <1>11, <1>12, <1>13, <1>14

LEMMA StepRecoverInv ==
    ASSUME RecoverInv, NEW c \in Caller, Step(c)
    PROVE  RecoverInv'
<1>0. WALTypeOK /\ ClientInv'
    BY StepClientInv DEF RecoverInv, ClientInv
<1>1. truncated' = truncated /\ acked' = acked
    BY DEF Step
\* The other steps write no record and change the call's place only.
<1>2. ASSUME NEW to, log' = [log EXCEPT ![c].pc = to],
             log[c].pc # "err",
             to = "ok" => log[c].n = Len(log[c].recs)
      PROVE  \A d \in Caller :
                /\ log'[d].recs = log[d].recs /\ log'[d].n = log[d].n
                /\ log[d].pc = "err" => log'[d].pc = "err"
                /\ log'[d].pc = "ok" => log[d].pc = "ok" \/ log[d].n = Len(log[d].recs)
  <2>1. \A d \in Caller : d # c => log'[d] = log[d]
      BY <1>0, <1>2 DEF WALTypeOK
  <2>2. log'[c].recs = log[c].recs /\ log'[c].n = log[c].n /\ log'[c].pc = to
      BY <1>0, <1>2 DEF WALTypeOK, LogCall
  <2> QED BY <1>2, <2>1, <2>2
<1>3. ASSUME files' = files
      PROVE  /\ \A r : WholeIn(files, r) => WholeIn(files', r)
             /\ \A r : TornIn(files', r) => TornIn(files, r)
    BY <1>3
<1>4. CASE LogWrite(c)
    BY <1>4, WriteRecoverInv
<1>5. CASE LogWriteTorn(c)
    BY <1>5, TornRecoverInv
<1>6. CASE LogWriteErr(c)
  <2>1. files' = files /\ log' = [log EXCEPT ![c].pc = "err"] /\ log[c].pc # "err"
      BY <1>6 DEF LogWriteErr, LogFails, LogPending
  <2> QED BY <1>0, <1>1, <1>2, <1>3, <2>1, KeepsRecords
<1>7. CASE LogReturn(c)
  <2>1. files' = files /\ log' = [log EXCEPT ![c].pc = "ok"] /\ log[c].pc # "err"
      BY <1>7 DEF LogReturn
  <2>2. log[c].n = Len(log[c].recs)
      BY <1>7 DEF LogReturn
  <2> QED BY <1>0, <1>1, <1>2, <1>3, <2>1, <2>2, KeepsRecords
<1>8. CASE RotateSync(c)
  <2>1. files' = files /\ log' = [log EXCEPT ![c].pc = "open"] /\ log[c].pc # "err"
      BY <1>8 DEF RotateSync
  <2> QED BY <1>0, <1>1, <1>2, <1>3, <2>1, KeepsRecords
<1>9. CASE RotateSyncErr(c)
  <2>1. files' = files /\ log' = [log EXCEPT ![c].pc = "err"] /\ log[c].pc # "err"
      BY <1>9 DEF RotateSyncErr, LogFails
  <2> QED BY <1>0, <1>1, <1>2, <1>3, <2>1, KeepsRecords
<1>10. CASE RotateOpen(c)
  <2>1. log' = [log EXCEPT ![c].pc = "writing"] /\ log[c].pc # "err"
      BY <1>10 DEF RotateOpen
  <2>2. segmentSeq + 1 \in Nat /\ OpenFile(segmentSeq + 1)
      BY <1>0, <1>10 DEF RotateOpen, OpenSegment, WALTypeOK
  <2>3. /\ \A r : WholeIn(files, r) => WholeIn(files', r)
        /\ \A r : TornIn(files', r) => TornIn(files, r)
      BY <1>0, <2>2, OpenFileKeeps
  <2> QED BY <1>0, <1>1, <1>2, <2>1, <2>3, KeepsRecords
<1>11. CASE RotateOpenErr(c)
  <2>1. files' = files /\ log' = [log EXCEPT ![c].pc = "err"] /\ log[c].pc # "err"
      BY <1>11 DEF RotateOpenErr, LogFails
  <2> QED BY <1>0, <1>1, <1>2, <1>3, <2>1, KeepsRecords
<1> QED BY <1>4, <1>5, <1>6, <1>7, <1>8, <1>9, <1>10, <1>11 DEF Step, LogStep
LEMMA AcknowledgeRecoverInv ==
    ASSUME RecoverInv, NEW c \in Caller, Acknowledge(c) \/ Refuse(c)
    PROVE  RecoverInv'
<1> USE DEF RecoverInv
<1>0. ClientInv' /\ WALTypeOK
    BY AcknowledgeClientInv DEF ClientInv
<1>1. /\ files' = files /\ truncated' = truncated
      /\ log' = [log EXCEPT ![c] = NoCall]
    BY DEF Acknowledge, Refuse, LogDone
<1>2. /\ \A d \in Caller : d # c => log'[d] = log[d]
      /\ log'[c] = NoCall
    BY <1>0, <1>1 DEF WALTypeOK
<1>3. log'[c].pc = "idle" /\ log'[c].n = 0 /\ RecsOf(c)' = {}
  <2>1. log'[c].pc = "idle" /\ log'[c].n = 0 /\ log'[c].recs = << >>
      BY <1>2 DEF NoCall
  <2> QED BY <2>1 DEF RecsOf
<1>4. \A d \in Caller : d # c => RecsOf(d)' = RecsOf(d)
    BY <1>2 DEF RecsOf
<1>5. acked' = acked \/ (log[c].pc = "ok" /\ acked' = acked \cup RecsOf(c))
    BY DEF Acknowledge, Refuse, RecsOf
<1>6. AckedWhole'
  <2>1. log[c].pc = "ok" => \A r \in RecsOf(c) : r \in truncated \/ WholeIn(files, r)
      BY DEF WrittenWhole, RecsOf
  <2> QED BY <1>1, <1>5, <2>1 DEF AckedWhole
<1>7. WrittenWhole'
    BY <1>1, <1>2, <1>3 DEF WrittenWhole
<1>8. TornFailed'
    BY <1>1, <1>2, <1>3, <1>4, <1>5 DEF TornFailed
<1>9. OwnRecords'
    BY <1>3, <1>4, <1>5 DEF OwnRecords
<1> QED BY <1>0, <1>6, <1>7, <1>8, <1>9

\* What a removed segment held is in truncated from then on.
LEMMA TruncateRecoverInv == RecoverInv /\ TruncateStale => RecoverInv'
<1> SUFFICES ASSUME RecoverInv, TruncateStale PROVE RecoverInv'
    OBVIOUS
<1> USE DEF RecoverInv
<1>0. ClientInv' /\ WALTypeOK
    BY TruncateClientInv DEF ClientInv
<1>1. log' = log /\ acked' = acked
    BY DEF TruncateStale, Truncate
<1>2. /\ DOMAIN files' \subseteq DOMAIN files
      /\ \A s \in DOMAIN files' : files'[s] = files[s]
    BY DEF TruncateStale, Truncate
<1>3. truncated' = truncated \cup
          UNION {{files[s][i].rec : i \in 1 .. Len(files[s])} :
                    s \in DOMAIN files \ DOMAIN files'}
    BY DEF TruncateStale
<1>4. ASSUME NEW r, r \in truncated \/ WholeIn(files, r)
      PROVE  r \in truncated' \/ WholeIn(files', r)
  <2>1. CASE r \in truncated
      BY <1>3, <2>1
  <2>2. CASE WholeIn(files, r)
    <3>1. PICK s \in DOMAIN files : \E i \in 1 .. Len(files[s]) : files[s][i] = Whole(r)
        BY <2>2 DEF WholeIn
    <3>2. PICK i \in 1 .. Len(files[s]) : files[s][i] = Whole(r)
        BY <3>1
    <3>3. files[s][i].rec = r
        BY <3>2 DEF Whole
    <3>4. CASE s \in DOMAIN files'
        BY <1>2, <3>2, <3>4 DEF WholeIn
    <3>5. CASE s \notin DOMAIN files'
        BY <1>3, <3>3, <3>5
    <3> QED BY <3>4, <3>5
  <2> QED BY <1>4, <2>1, <2>2
<1>5. \A r : TornIn(files', r) => TornIn(files, r)
    BY <1>2 DEF TornIn
<1>6. \A d \in Caller : RecsOf(d)' = RecsOf(d)
    BY <1>1 DEF RecsOf
<1>7. AckedWhole'
    BY <1>1, <1>4 DEF AckedWhole
<1>8. WrittenWhole'
    BY <1>1, <1>4 DEF WrittenWhole
<1>9. TornFailed'
    BY <1>1, <1>5, <1>6 DEF TornFailed
<1>10. OwnRecords'
    BY <1>1, <1>6 DEF OwnRecords
<1> QED BY <1>0, <1>7, <1>8, <1>9, <1>10

\* After a crash no call is left, and what is torn was torn before.
LEMMA DownRecoverInv ==
    ASSUME RecoverInv, ClientInv', acked' \subseteq acked,
           \A c \in Caller : log'[c] = NoCall,
           \A r : TornIn(files', r) => TornIn(files, r),
           AckedWhole'
    PROVE  RecoverInv'
<1> USE DEF RecoverInv
<1>1. ASSUME NEW c \in Caller PROVE log'[c].pc = "idle" /\ log'[c].n = 0 /\ RecsOf(c)' = {}
  <2>1. log'[c].pc = "idle" /\ log'[c].n = 0 /\ log'[c].recs = << >>
      BY DEF NoCall
  <2> QED BY <2>1 DEF RecsOf
<1>2. WrittenWhole'
    BY <1>1 DEF WrittenWhole
<1>3. TornFailed'
    BY <1>1 DEF TornFailed
<1>4. OwnRecords'
    BY <1>1 DEF OwnRecords
<1> QED BY <1>2, <1>3, <1>4

LEMMA CrashRecoverInv == RecoverInv /\ Crash => RecoverInv'
<1> SUFFICES ASSUME RecoverInv, Crash PROVE RecoverInv'
    OBVIOUS
<1>1. ClientInv'
    BY CrashClientInv DEF RecoverInv
<1>2. files' = files /\ acked' = acked /\ truncated' = truncated /\ \A c \in Caller : log'[c] = NoCall
    BY DEF Crash, WALCrash
<1>3. AckedWhole'
    BY <1>2 DEF RecoverInv, AckedWhole
<1> QED BY <1>1, <1>2, <1>3, DownRecoverInv

\* Of an acknowledged record that was fsynced, the fsynced part of the file
\* holds it, and survives.
LEMMA PowerLossRecoverInv == RecoverInv /\ PowerLoss => RecoverInv'
<1> SUFFICES ASSUME RecoverInv, PowerLoss PROVE RecoverInv'
    OBVIOUS
<1>0. ClientInv' /\ WALTypeOK
    BY PowerLossClientInv DEF RecoverInv, ClientInv
<1>1. PICK lost \in SUBSET {s \in DOMAIN files : synced[s] = 0} :
         \E len \in [DOMAIN files \ lost -> UNION {0 .. Len(files[s]) : s \in DOMAIN files}] :
            /\ \A s \in DOMAIN len : len[s] \in synced[s] .. Len(files[s])
            /\ files' = [s \in DOMAIN len |-> SubSeq(files[s], 1, len[s])]
    BY DEF PowerLoss, WALPowerLoss
<1>2. PICK len \in [DOMAIN files \ lost -> UNION {0 .. Len(files[s]) : s \in DOMAIN files}] :
            /\ \A s \in DOMAIN len : len[s] \in synced[s] .. Len(files[s])
            /\ files' = [s \in DOMAIN len |-> SubSeq(files[s], 1, len[s])]
    BY <1>1
<1>3. DOMAIN files' = DOMAIN files \ lost /\ DOMAIN len = DOMAIN files \ lost
    BY <1>2
<1>4. ASSUME NEW s \in DOMAIN files'
      PROVE  /\ Len(files'[s]) = len[s]
             /\ len[s] \in Nat /\ synced[s] \in Nat /\ synced[s] =< len[s] /\ len[s] =< Len(files[s])
             /\ \A i \in 1 .. len[s] : files'[s][i] = files[s][i]
  <2>1. files[s] \in Seq(Chunk) /\ synced[s] \in 0 .. Len(files[s])
      BY <1>0, <1>3 DEF WALTypeOK
  <2>2. len[s] \in synced[s] .. Len(files[s])
      BY <1>2, <1>3
  <2>3. files'[s] = SubSeq(files[s], 1, len[s])
      BY <1>2, <1>3
  <2> QED BY <2>1, <2>2, <2>3
<1>5. acked' \subseteq acked /\ truncated' = truncated /\ \A c \in Caller : log'[c] = NoCall
    BY DEF PowerLoss, WALPowerLoss
<1>6. ASSUME NEW r, TornIn(files', r) PROVE TornIn(files, r)
  <2>1. PICK s \in DOMAIN files' :
           \E i \in 1 .. Len(files'[s]) : files'[s][i].cut # "none" /\ files'[s][i].rec = r
      BY <1>6 DEF TornIn
  <2>2. PICK i \in 1 .. Len(files'[s]) : files'[s][i].cut # "none" /\ files'[s][i].rec = r
      BY <2>1
  <2>3. i \in 1 .. len[s] /\ s \in DOMAIN files
      BY <1>3, <1>4
  <2>4. files'[s][i] = files[s][i] /\ i \in 1 .. Len(files[s])
    <3>1. Len(files[s]) \in Nat
        BY <1>0, <2>3 DEF WALTypeOK
    <3> QED BY <1>4, <2>3, <3>1
  <2> QED BY <2>2, <2>3, <2>4 DEF TornIn
<1>7. ASSUME NEW a \in acked', a \notin truncated PROVE WholeIn(files', a)
  <2>1. PICK s \in DOMAIN files : \E i \in 1 .. synced[s] : files[s][i].rec = a
      BY <1>7 DEF PowerLoss
  <2>2. PICK i \in 1 .. synced[s] : files[s][i].rec = a
      BY <2>1
  <2>3. synced[s] \in 0 .. Len(files[s]) /\ Len(files[s]) \in Nat /\ files[s] \in Seq(Chunk)
      BY <1>0 DEF WALTypeOK
  <2>4. i \in 1 .. Len(files[s]) /\ synced[s] # 0
      BY <2>3
  <2>5. files[s][i] \in Chunk
      BY <2>3, <2>4
  <2>6. a \in Sample /\ a \in acked
      BY <1>5, <2>2, <2>5 DEF Chunk
  <2>7. files[s][i].cut = "none"
      BY <2>2, <2>4, <2>6 DEF RecoverInv, TornFailed, TornIn
  <2>8. files[s][i] = Whole(a)
      BY <2>2, <2>5, <2>7 DEF Chunk, Whole
  <2>9. s \in DOMAIN files'
      BY <1>3, <2>4
  <2>10. i \in 1 .. len[s] /\ Len(files'[s]) = len[s]
      BY <1>4, <2>9
  <2>11. files'[s][i] = files[s][i]
      BY <1>4, <2>9, <2>10
  <2> QED BY <2>8, <2>9, <2>10, <2>11 DEF WholeIn
<1>8. AckedWhole'
    BY <1>5, <1>7 DEF AckedWhole
<1> QED BY <1>0, <1>5, <1>6, <1>8, DownRecoverInv

LEMMA NextRecoverInv == RecoverInv /\ [Next]_vars => RecoverInv'
<1> SUFFICES ASSUME RecoverInv, [Next]_vars PROVE RecoverInv'
    OBVIOUS
<1>0. ClientInv'
    BY NextClientInv DEF RecoverInv
<1>1. CASE UNCHANGED vars
    BY <1>0, <1>1, QuietRecoverInv DEF vars, walVars
<1>2. CASE ReadSegmentSeq
    BY <1>0, <1>2, QuietRecoverInv DEF ReadSegmentSeq, walVars
<1>3. CASE Close
    BY <1>0, <1>3, QuietRecoverInv DEF Close, WALClose
<1>4. CASE Next /\ ~ ReadSegmentSeq /\ ~ Close
    BY <1>4, OpenRecoverInv, CallRecoverInv, StepRecoverInv, AcknowledgeRecoverInv,
       TruncateRecoverInv, CrashRecoverInv, PowerLossRecoverInv DEF Next
<1> QED BY <1>1, <1>2, <1>3, <1>4

\* A whole record that a replay does not reach stands after a torn one.
LEMMA RecoverInvImplies == RecoverInv => RecoversAcked
<1> SUFFICES ASSUME RecoverInv, NEW a \in acked \ truncated
             PROVE  \E s \in DOMAIN files : \E i \in 1 .. Len(files[s]) :
                       /\ files[s][i] = Whole(a)
                       /\ a \notin Replayed =>
                             \E j \in 1 .. i - 1 :
                                files[s][j].cut # "none" /\ files[s][j].rec \notin acked
    BY DEF RecoversAcked
<1>1. PICK s \in DOMAIN files : \E i \in 1 .. Len(files[s]) : files[s][i] = Whole(a)
    BY DEF RecoverInv, AckedWhole, WholeIn
<1>2. PICK i \in 1 .. Len(files[s]) : files[s][i] = Whole(a)
    BY <1>1
<1>3. files[s][i].rec = a /\ files[s][i].cut = "none"
    BY <1>2 DEF Whole
<1>4. files[s] \in Seq(Chunk) /\ Len(files[s]) \in Nat
    BY DEF RecoverInv, ClientInv, WALTypeOK
<1>5. ASSUME a \notin Replayed
      PROVE  \E j \in 1 .. i - 1 : files[s][j].cut # "none" /\ files[s][j].rec \notin acked
  <2>1. i \notin WholePrefix(files[s])
      BY <1>3, <1>5 DEF Replayed, ReplayedSegment
  <2>2. PICK j \in 1 .. i : files[s][j].cut # "none"
      BY <2>1 DEF WholePrefix
  <2>3. j \in 1 .. i - 1 /\ j \in 1 .. Len(files[s])
      BY <1>3, <1>4, <2>2
  <2>4. files[s][j] \in Chunk
      BY <1>4, <2>3
  <2>5. files[s][j].rec \in Sample
      BY <2>4 DEF Chunk
  <2>6. files[s][j].rec \notin acked
      BY <2>2, <2>3, <2>5 DEF RecoverInv, TornFailed, TornIn
  <2> QED BY <2>2, <2>3, <2>6
<1> QED BY <1>2, <1>5

\* No record of a call of Log that returned nil is lost: it is whole in a
\* file until Truncate removes that file, and a replay yields it or stops
\* before it at a torn record of a call that failed.  The log may be driven
\* by any number of callers, with torn writes, failed rotations, crashes,
\* restarts and Truncate with old numbers; of a power loss only the fsynced
\* records are promised.
THEOREM AckedRecordsRecovered == Spec => []RecoversAcked
<1>1. Init => RecoverInv
    BY InitRecoverInv
<1>2. RecoverInv /\ [Next]_vars => RecoverInv'
    BY NextRecoverInv
<1>3. RecoverInv => RecoversAcked
    BY RecoverInvImplies
<1> QED BY <1>1, <1>2, <1>3, PTL DEF Spec

=============================================================================
