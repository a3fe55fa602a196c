----------------------------- MODULE WALClient -----------------------------
(***************************************************************************)
(* The write-ahead log alone, driven the way internal/store uses it:       *)
(* concurrent callers of Log, one caller of Truncate with a number that    *)
(* SegmentSeq returned, Close, crashes, power loss and restarts.           *)
(*                                                                         *)
(* Records are numbered in the order in which they are handed to Log, so   *)
(* that order and identity are visible in the files.                       *)
(***************************************************************************)
EXTENDS WAL

CONSTANTS
    MaxBatch,    \* bound: records in one call of Log
    MaxIssued    \* bound: records handed to Log altogether

ASSUME ClientAssumption ==
    /\ MaxBatch \in Nat
    /\ MaxIssued \in Nat
    /\ Sample = 1 .. MaxIssued

VARIABLES
    issued,      \* how many records were handed to Log
    acked,       \* records of calls that returned nil
    truncated,   \* records in segments that Truncate removed
    stale,       \* a value of SegmentSeq that Truncate will be called with
    blind,       \* history: if the process opened segment 0 beside later ones,
                 \* {what `issued' was then}, otherwise {}
    stray        \* history: <<b, r>>, record r was handed to Log while b \in blind

vars == <<walVars, issued, acked, truncated, stale, blind, stray>>

ClientTypeOK ==
    /\ WALTypeOK
    /\ issued \in 0 .. MaxIssued
    /\ acked \subseteq 1 .. issued
    /\ truncated \subseteq 1 .. issued
    /\ stale \in Nat
    /\ blind \subseteq 0 .. issued
    /\ stray \subseteq (0 .. issued) \X (1 .. issued)

Init ==
    /\ WALInit
    /\ issued = 0
    /\ acked = {}
    /\ truncated = {}
    /\ stale = 0
    /\ blind = {}
    /\ stray = {}

Open ==
    /\ NewWAL
    /\ blind' = IF segmentSeq' = 0 /\ DOMAIN files \ {0} # {}
                THEN {issued} ELSE {}
    /\ UNCHANGED <<issued, acked, truncated, stale, stray>>

OpenErr ==
    /\ NewWALErr
    /\ UNCHANGED <<issued, acked, truncated, stale, blind, stray>>

Call(c) ==
    \E k \in 0 .. MaxBatch :
       /\ issued + k =< MaxIssued
       /\ LogStart(c, [i \in 1 .. k |-> issued + i])
       /\ issued' = issued + k
       /\ stray' = stray \cup (blind \X {issued + i : i \in 1 .. k})
       /\ UNCHANGED <<acked, truncated, stale, blind>>

Step(c) ==
    /\ LogStep(c)
    /\ UNCHANGED <<issued, acked, truncated, stale, blind, stray>>

Acknowledge(c) ==
    /\ log[c].pc = "ok"
    /\ LogDone(c)
    /\ acked' = acked \cup {log[c].recs[i] : i \in 1 .. Len(log[c].recs)}
    /\ UNCHANGED <<issued, truncated, stale, blind, stray>>

Refuse(c) ==
    /\ log[c].pc = "err"
    /\ LogDone(c)
    /\ UNCHANGED <<issued, acked, truncated, stale, blind, stray>>

\* SegmentSeq returns the current number; Truncate is called with it later.
ReadSegmentSeq ==
    /\ segment # "none"
    /\ MuFree
    /\ stale' = segmentSeq
    /\ UNCHANGED <<walVars, issued, acked, truncated, blind, stray>>

TruncateStale ==
    /\ Truncate(stale)
    /\ truncated' = truncated \cup
          UNION {{files[s][i].rec : i \in 1 .. Len(files[s])} :
                    s \in DOMAIN files \ DOMAIN files'}
    /\ UNCHANGED <<issued, acked, stale, blind, stray>>

Close ==
    /\ WALClose
    /\ UNCHANGED <<issued, acked, truncated, stale, blind, stray>>

Crash ==
    /\ WALCrash
    /\ stale' = 0
    /\ blind' = {}
    /\ UNCHANGED <<issued, acked, truncated, stray>>

\* Log does not fsync: only what rotate or Close synced is promised.
PowerLoss ==
    /\ WALPowerLoss
    /\ acked' = acked \cap
          (truncated \cup
           UNION {{files[s][i].rec : i \in 1 .. synced[s]} : s \in DOMAIN files})
    /\ stale' = 0
    /\ blind' = {}
    /\ UNCHANGED <<issued, truncated, stray>>

Next ==
    \/ Open \/ OpenErr \/ Close \/ Crash \/ PowerLoss
    \/ ReadSegmentSeq \/ TruncateStale
    \/ \E c \in Caller : Call(c) \/ Step(c) \/ Acknowledge(c) \/ Refuse(c)

Spec == Init /\ [][Next]_vars

-----------------------------------------------------------------------------
(* Properties *)

\* Crash recovery: whatever happened so far, every record of a call of Log
\* that returned nil is whole in a file, unless Truncate removed it, and a
\* replay of the files as they are now yields it; only the rest of a segment
\* after a torn record may be missing, and the torn record itself belongs to
\* a call that failed.  The code behind it: Log appends before it returns,
\* rotate and NewWAL append to a segment that is there already, a failing write
\* or rotate loses nothing written before.
RecoversAcked ==
    \A a \in acked \ truncated : \E s \in DOMAIN files :
       \E i \in 1 .. Len(files[s]) :
          /\ files[s][i] = Whole(a)
          /\ a \notin Replayed =>
                \E j \in 1 .. i - 1 :
                   files[s][j].cut # "none" /\ files[s][j].rec \notin acked

\* Replay order is log order: along the segments in numerical order, which is
\* the order listSegments sorts them in, the records appear in the order in
\* which they were handed to Log, across rotations, failed rotations, crashes
\* and reopened segments.  The one exception is a process that could not list
\* the directory when it started, where latestSegmentSeq drops the error and
\* returns 0: what it logs may come before what was there at its start.
ReplayInOrder ==
    \A s, t \in DOMAIN files :
       \A i \in 1 .. Len(files[s]), j \in 1 .. Len(files[t]) :
          (s < t \/ (s = t /\ i < j)) =>
             \/ files[s][i].rec < files[t][j].rec
             \/ s < t /\ \E b \in 0 .. issued :
                            <<b, files[s][i].rec>> \in stray /\ files[t][j].rec =< b

\* Only the last segment can lose data when power fails: rotate syncs a segment
\* as a whole before it creates the successor.  The one exception is again a
\* process that opened segment 0 beside later ones, and what it logged itself.
SealedSynced ==
    \A s, t \in DOMAIN files :
       s < t => \A i \in synced[s] + 1 .. Len(files[s]) :
                   \E b \in 0 .. issued : <<b, files[s][i].rec>> \in stray

\* The open segment is on disk and the last one, after restarts, failed
\* rotations and Truncate, also one called with an old number, so that append,
\* rotate and Truncate agree on which segments are old and Log never writes to
\* a file that was removed.  In a process that opened segment 0 beside later
\* ones it is the last of those it has written.
CurrentSegmentLast ==
    segment = "open" =>
       /\ segmentSeq \in DOMAIN files
       /\ \A s \in DOMAIN files :
             s > segmentSeq =>
                \E b \in blind : \A i \in 1 .. Len(files[s]) : files[s][i].rec =< b

=============================================================================
