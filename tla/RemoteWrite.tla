---------------------------- MODULE RemoteWrite ----------------------------
(***************************************************************************)
(* The remote backends of internal/store: prometheus_remote.go and         *)
(* victoriametrics.go.  An appender collects samples; Commit cuts them     *)
(* into batches and posts each one, again after a transport error or a 5xx *)
(* answer, up to MaxRetries times, and then drops it.                      *)
(*                                                                         *)
(* The two files share their control.  They differ in what a row of a      *)
(* batch is: one sample, in the order of Append, for Prometheus; all the   *)
(* samples of one label hash, in the random order of a map, for            *)
(* VictoriaMetrics.                                                        *)
(***************************************************************************)
EXTENDS Integers, Sequences, FiniteSets, Functions

CONSTANTS
    Writer,      \* appenders, one per request
    Series,      \* label sets
    HashOf,      \* labels.Hash, per label set
    Config,      \* the configurations: backend, BatchSize, MaxRetries
    DefaultBatchSize,
    DefaultMaxRetries,
    MaxSamples,  \* bound: samples appended altogether
    MaxLate      \* bound: requests that the server may store late, altogether

ASSUME RemoteAssumption ==
    /\ HashOf \in [Series -> Int]
    /\ Config \subseteq [backend : {"prometheus", "victoriametrics"},
                         BatchSize : Nat, MaxRetries : Nat]
    /\ DefaultBatchSize \in Nat \ {0}
    /\ DefaultMaxRetries \in Nat \ {0}
    /\ MaxSamples \in Nat
    /\ MaxLate \in Nat

VARIABLES
    cfg,       \* the configuration as given; 0 stands for a default
    appender,  \* per writer: its appender, and its call of Commit and send
    appended,  \* how many samples Append has taken so far
    inflight,  \* requests the client gave up on and the server may yet store
    remote,    \* the bodies the server has stored, in the order of arrival
    posts,     \* per sample: in how many requests it was posted
    dropped,   \* samples of batches given up after the last retry
    refused    \* samples of batches that send returned an error for

serverVars == <<inflight, remote, posts>>
vars == <<cfg, appender, appended, serverVars, dropped, refused>>

\* Samples are numbered in the order of Append.
Sample == [n : 1 .. MaxSamples, series : Series]

\* A row has its samples in the order of their numbers.
Row == [series : Series, samples : SUBSET Sample]

\* pc: "open" takes samples, "send" is between two requests, "ok" and "err"
\* have returned.  i is the index of Commit's loop, attempt that of send's.
AppenderState == [pc : {"open", "send", "ok", "err"}, pending : Seq(Sample),
                  rows : Seq(Row), i : Nat, attempt : Nat]

NewAppender == [pc |-> "open", pending |-> << >>, rows |-> << >>, i |-> 0, attempt |-> 0]

RemoteTypeOK ==
    /\ cfg \in Config
    /\ appender \in [Writer -> AppenderState]
    /\ appended \in 0 .. MaxSamples
    /\ inflight \subseteq [from : Writer, rows : Seq(Row), attempt : Nat]
    /\ remote \in Seq([from : Writer, rows : Seq(Row), late : BOOLEAN])
    /\ posts \in [1 .. MaxSamples -> Nat]
    /\ dropped \subseteq 1 .. MaxSamples
    /\ refused \subseteq 1 .. MaxSamples

Init ==
    /\ cfg \in Config
    /\ appender = [w \in Writer |-> NewAppender]
    /\ appended = 0
    /\ inflight = {}
    /\ remote = << >>
    /\ posts = [n \in 1 .. MaxSamples |-> 0]
    /\ dropped = {}
    /\ refused = {}

\* The defaults of NewPrometheusRemote and NewVMRemote.
BatchSize == IF cfg.BatchSize = 0 THEN DefaultBatchSize ELSE cfg.BatchSize
MaxRetries == IF cfg.MaxRetries = 0 THEN DefaultMaxRetries ELSE cfg.MaxRetries

Samples(rows) == UNION {rows[i].samples : i \in 1 .. Len(rows)}

Numbers(rows) == {s.n : s \in Samples(rows)}

-----------------------------------------------------------------------------
(* The appender *)

\* The next request has an appender of its own.
Appender(w) ==
    /\ appender[w].pc \in {"ok", "err"}
    /\ appender' = [appender EXCEPT ![w] = NewAppender]
    /\ UNCHANGED <<cfg, appended, serverVars, dropped, refused>>

AppendSample(w) ==
    /\ appender[w].pc = "open"
    /\ appended < MaxSamples
    /\ appended' = appended + 1
    /\ \E s \in Series :
          appender' = [appender EXCEPT ![w].pending =
                          Append(@, [n |-> appended + 1, series |-> s])]
    /\ UNCHANGED <<cfg, serverVars, dropped, refused>>

Rollback(w) ==
    /\ appender[w].pc \in {"open", "err"}
    /\ appender' = [appender EXCEPT ![w].pending = << >>]
    /\ UNCHANGED <<cfg, appended, serverVars, dropped, refused>>

\* A row per sample.
PromRows(pending) ==
    {[i \in 1 .. Len(pending) |->
         [series |-> pending[i].series, samples |-> {pending[i]}]]}

\* Slip: a row per sample.
VMRows_PerSample(pending) ==
    LET group == {[series |-> pending[i].series, samples |-> {pending[i]}] :
                     i \in 1 .. Len(pending)}
    IN  Bijection(1 .. Cardinality(group), group)

Hashes(pending) == {HashOf[pending[i].series] : i \in 1 .. Len(pending)}

OfHash(pending, h) ==
    {pending[i] : i \in {i \in 1 .. Len(pending) : HashOf[pending[i].series] = h}}

\* The row of a hash, under the labels that hash was first seen with.
RowOf(pending, h) ==
    LET first == CHOOSE s \in OfHash(pending, h) :
                    \A u \in OfHash(pending, h) : s.n =< u.n
    IN  [series |-> first.series, samples |-> OfHash(pending, h)]

\* One row per hash, in any order.
VMRows(pending) ==
    LET group == {RowOf(pending, h) : h \in Hashes(pending)}
    IN  Bijection(1 .. Cardinality(group), group)

RowOrders(pending) ==
    IF cfg.backend = "prometheus" THEN PromRows(pending) ELSE VMRows(pending)

\* Commit up to its loop: the samples are taken from the appender first.
Commit(w) ==
    /\ appender[w].pc = "open"
    /\ IF appender[w].pending = << >>
       THEN appender' = [appender EXCEPT ![w].pc = "ok"]
       ELSE \E rows \in RowOrders(appender[w].pending) :
               appender' = [appender EXCEPT ![w] =
                  [pc |-> "send", pending |-> << >>, rows |-> rows, i |-> 0, attempt |-> 0]]
    /\ UNCHANGED <<cfg, appended, serverVars, dropped, refused>>

-----------------------------------------------------------------------------
(* send *)

Sending(w) == appender[w].pc = "send" /\ appender[w].i < Len(appender[w].rows)

BatchEnd(w) ==
    LET end == appender[w].i + BatchSize
    IN  IF end > Len(appender[w].rows) THEN Len(appender[w].rows) ELSE end

Body(w) == SubSeq(appender[w].rows, appender[w].i + 1, BatchEnd(w))

Post(w) ==
    posts' = [n \in 1 .. MaxSamples |->
                 posts[n] + IF n \in Numbers(Body(w)) THEN 1 ELSE 0]

Stored(w, rows, late) ==
    remote' = Append(remote, [from |-> w, rows |-> rows, late |-> late])

\* Slip: the end of a batch is the start of the next.
NextBatch_Overlapping(w) ==
    appender' = [appender EXCEPT ![w] =
        [pc |-> "send", pending |-> @.pending, rows |-> @.rows,
         i |-> @.i + BatchSize - 1, attempt |-> 0]]

\* send returned nil: Commit's loop goes on with i += batchSize.
NextBatch(w) ==
    appender' = [appender EXCEPT ![w] =
        [pc |-> "send", pending |-> @.pending, rows |-> @.rows,
         i |-> @.i + BatchSize, attempt |-> 0]]

\* 2xx.
PostOK(w) ==
    /\ Sending(w)
    /\ appender[w].attempt < MaxRetries
    /\ Post(w)
    /\ Stored(w, Body(w), FALSE)
    /\ NextBatch(w)
    /\ UNCHANGED <<cfg, appended, inflight, dropped, refused>>

\* Slip: a failed request is not repeated.
PostTransient_GoesOn(w) ==
    /\ Sending(w)
    /\ appender[w].attempt < MaxRetries
    /\ Post(w)
    /\ NextBatch(w)
    /\ UNCHANGED <<cfg, appended, inflight, remote, dropped, refused>>

Late == {k \in 1 .. Len(remote) : remote[k].late}

\* A transport error, a timeout or a 5xx: send tries again, and the server may
\* store the body all the same, at once, later, or never.
PostTransient(w) ==
    /\ Sending(w)
    /\ appender[w].attempt < MaxRetries
    /\ Post(w)
    /\ \/ inflight' = inflight
       \/ /\ Cardinality(inflight) + Cardinality(Late) < MaxLate
          /\ inflight' = inflight \cup
                {[from |-> w, rows |-> Body(w), attempt |-> appender[w].attempt]}
    /\ appender' = [appender EXCEPT ![w].attempt = @ + 1]
    /\ UNCHANGED <<cfg, appended, remote, dropped, refused>>

\* The server stores a request that nobody waits for any more.
Arrive ==
    \E r \in inflight :
       /\ inflight' = inflight \ {r}
       /\ Stored(r.from, r.rows, TRUE)
       /\ UNCHANGED <<cfg, appender, appended, posts, dropped, refused>>

\* send returns an error, and so does Commit at once.
SendErr(w) ==
    /\ Sending(w)
    /\ appender[w].attempt < MaxRetries
    /\ appender' = [appender EXCEPT ![w].pc = "err"]
    /\ refused' = refused \cup Numbers(Body(w))

\* Any other status.
PostRejected(w) ==
    /\ SendErr(w)
    /\ Post(w)
    /\ UNCHANGED <<cfg, appended, inflight, remote, dropped>>

\* The batch cannot be encoded, or no request be made of it: nothing is posted.
SendFails(w) ==
    /\ SendErr(w)
    /\ UNCHANGED <<cfg, appended, serverVars, dropped>>

\* Slip: send goes on waiting for the server.
Drop_Waits(w) ==
    /\ Sending(w)
    /\ appender[w].attempt = MaxRetries
    /\ UNCHANGED vars

\* No attempt is left: the batch is dropped and send returns nil.
Drop(w) ==
    /\ Sending(w)
    /\ appender[w].attempt = MaxRetries
    /\ dropped' = dropped \cup Numbers(Body(w))
    /\ NextBatch(w)
    /\ UNCHANGED <<cfg, appended, serverVars, refused>>

CommitReturn(w) ==
    /\ appender[w].pc = "send"
    /\ appender[w].i >= Len(appender[w].rows)
    /\ appender' = [appender EXCEPT ![w].pc = "ok"]
    /\ UNCHANGED <<cfg, appended, serverVars, dropped, refused>>

send(w) ==
    \/ PostOK(w) \/ PostTransient(w) \/ PostRejected(w) \/ SendFails(w)
    \/ Drop(w) \/ CommitReturn(w)

Next ==
    \/ \E w \in Writer :
          Appender(w) \/ AppendSample(w) \/ Rollback(w) \/ Commit(w) \/ send(w)
    \/ Arrive

Spec == Init /\ [][Next]_vars

\* http.Client has a timeout, so every request comes to an end.
FairSpec == Spec /\ \A w \in Writer : WF_vars(send(w))

-----------------------------------------------------------------------------
(* Properties *)

Arrived == UNION {Numbers(remote[k].rows) : k \in 1 .. Len(remote)}

\* What a nil from Commit means: every sample of the batch is on the server
\* or was given up, and given up only after it had been posted MaxRetries
\* times.  No sample slips between two batches, whatever the batch size.
NilAccounted ==
    /\ \A w \in Writer : appender[w].pc = "ok" =>
          Numbers(appender[w].rows) \subseteq Arrived \cup dropped
    /\ \A n \in dropped : posts[n] = MaxRetries

\* Retries are the only source of duplicates and are bounded: a sample is
\* never in more than MaxRetries requests, over all batches of its Commit.
PostsBounded == \A n \in 1 .. MaxSamples : posts[n] =< MaxRetries

\* The server sees the samples of one series of one appender in the order of
\* Append, through retries, drops and batch boundaries: of two different bodies
\* it stored, the later has only later samples of the series the two have in
\* common.  The exception is a request that the client gave up on and that the
\* server stores behind a later batch: then the same body was stored before
\* that batch as well, or the client dropped it or returned an error for it.
\* So the order of first arrivals breaks only with a batch that was lost to
\* the client.
SeriesInOrder ==
    \A k, l \in 1 .. Len(remote) :
       k < l /\ remote[k].from = remote[l].from /\ remote[k].rows # remote[l].rows =>
          \/ \A a \in Samples(remote[k].rows), b \in Samples(remote[l].rows) :
                a.series = b.series => a.n < b.n
          \/ /\ remote[l].late
             /\ \/ \E m \in 1 .. k - 1 :
                      remote[m].from = remote[l].from /\ remote[m].rows = remote[l].rows
                \/ Numbers(remote[l].rows) \subseteq dropped \cup refused

\* Commit returns: with the server down for good every batch runs out of
\* attempts.
CommitReturns ==
    \A w \in Writer : appender[w].pc = "send" ~> appender[w].pc \in {"ok", "err"}

=============================================================================
