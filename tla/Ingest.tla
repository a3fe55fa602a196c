------------------------------- MODULE Ingest -------------------------------
(***************************************************************************)
(* Ingestion: the OTLP handlers of internal/ingest/http.go and grpc.go and *)
(* the translator behind them, internal/ingest/translator.go.  A handler   *)
(* decodes a request, translates it point by point into samples of its own *)
(* appender, commits or rolls back, and answers.  The handlers share one   *)
(* translator, which turns deltas into running totals and forgets totals   *)
(* that nobody added to for DeltaTTL.                                      *)
(*                                                                         *)
(* The store is a local one as module MetricStore describes it: a batch    *)
(* whose Commit returns nil is stored, and of one whose Commit fails a part*)
(* from the front may be.  The timestamps of samples are left out.  A      *)
(* series is its labels (module Labels).                                   *)
(***************************************************************************)
EXTENDS Labels, FiniteSets

CONSTANTS
    Handler,         \* goroutines that serve requests
    Request,         \* requests as sent, by name: sequences of resources
    HashOf(_),       \* labels.Hash, per series
    MaxBodySize,     \* cfg.MaxBodySize, in resources
    DeltaConversion, \* cfg.DeltaConversion
    DeltaTTL,        \* deltaTTL
    AppendMayFail,   \* TRUE: Append may return an error; no store of the
                     \* repository does, but the handlers provide for it
    MaxRequests,     \* bound: requests
    MaxNow           \* bound: the clock

ASSUME IngestAssumption ==
    /\ MaxBodySize \in Nat \ {0}
    /\ DeltaConversion \in BOOLEAN
    /\ DeltaTTL \in Nat
    /\ AppendMayFail \in BOOLEAN
    /\ MaxRequests \in Nat
    /\ MaxNow \in Nat

\* What the protobuf types say of a data point.
CountAndSumOK(dp) == dp.count \in Nat /\ (dp.hasSum => dp.sum \in Int)

PointOK(type, dp) ==
    CASE type \in {"gauge", "sum"} -> dp.v \in Int
      [] type = "histogram" -> dp.bounds \in Nat /\ dp.counts \in Seq(Nat) /\ CountAndSumOK(dp)
      [] type = "exponential" ->
            dp.offset \in Int /\ dp.zero \in Nat /\ dp.counts \in Seq(Nat) /\ CountAndSumOK(dp)
      [] type = "summary" -> dp.quantiles \in Seq(Int) /\ dp.sum \in Int /\ dp.count \in Nat
      [] OTHER -> TRUE

IsSequence(s) == s \in Seq(Range(s))

AttrsOK(attrs) == IsSequence(attrs) /\ \A kv \in Range(attrs) : IsSequence(kv.key)

MetricOK(m) ==
    /\ IsSequence(m.name) /\ IsSequence(m.unit) /\ IsSequence(m.points)
    /\ \A dp \in Range(m.points) : PointOK(m.type, dp) /\ AttrsOK(dp.attrs)

RequestOK(req) ==
    /\ IsSequence(req)
    /\ \A rm \in Range(req) :
          /\ AttrsOK(rm.attrs) /\ IsSequence(rm.scopes)
          /\ \A sm \in Range(rm.scopes) :
                IsSequence(sm.metrics) /\ \A m \in Range(sm.metrics) : MetricOK(m)

ASSUME RequestAssumption == \A name \in DOMAIN Request : RequestOK(Request[name])

VARIABLES
    handler,   \* per handler: the request it serves; in a pending sample,
               \* total is the value it should have
    delta,     \* tr.delta: hash -> running total and when it was added to
    stored,    \* samples that the store has, or will have after a restart
    now,       \* the clock
    reqs,      \* the names of the requests that were received
    answered,  \* request -> the answer
    ledger     \* the calls of accumulateDelta in this process

vars == <<handler, delta, stored, now, reqs, answered, ledger>>

-----------------------------------------------------------------------------
(* What a request is translated into *)

\* The bound of the last bucket, above all others.
Inf == 1000

\* One call of Append: a series, a value, whether it is a delta, and what the
\* properties say of it: the part of the data point and the bound.
Op(series, part, le, v, acc) ==
    [series |-> series, part |-> part, le |-> le, v |-> v, acc |-> acc]

Total(counts) == FoldLeft(LAMBDA a, b : a + b, 0, counts)

\* cumulativeCount after the first k buckets.
Cumulative(counts, k) ==
    Total(SubSeq(counts, 1, IF k =< Len(counts) THEN k ELSE Len(counts)))

\* A bound or a quantile, as %g formats it.
Bound(le) == IF le = Inf THEN <<"+Inf">> ELSE <<ToString(le)>>

Bucket(name, base, le, v, acc) ==
    Op(appendLabel(base, name \o <<"_", "bucket">>, <<"le">>, Bound(le)), "bucket", le, v, acc)

Part(name, base, part, v, acc) ==
    Op(replaceMetricName(base, name \o <<"_", part>>), part, 0, v, acc)

CountAndSum(name, base, dp, acc) ==
    << Part(name, base, "count", dp.count, acc) >>
      \o (IF dp.hasSum THEN << Part(name, base, "sum", dp.sum, acc) >> ELSE << >>)

appendHistogramDataPoint(name, base, dp, acc) ==
    [i \in 1 .. dp.bounds |-> Bucket(name, base, i, Cumulative(dp.counts, i), acc)]
      \o << Bucket(name, base, Inf, Cumulative(dp.counts, dp.bounds + 1), acc) >>
      \o CountAndSum(name, base, dp, acc)

\* The negative buckets of the data point are not read.
appendExponentialHistogramDataPoint(name, base, dp, acc) ==
    [i \in 1 .. Len(dp.counts) |->
        Bucket(name, base, dp.offset + i, dp.zero + Cumulative(dp.counts, i), acc)]
      \o << Bucket(name, base, Inf, dp.zero + Total(dp.counts), acc) >>
      \o CountAndSum(name, base, dp, acc)

translateSummary(name, base, dp) ==
    [i \in 1 .. Len(dp.quantiles) |->
        Op(appendLabel(base, name, <<"quantile">>, Bound(i)), "quantile", i,
           dp.quantiles[i], FALSE)]
      \o << Part(name, base, "sum", dp.sum, FALSE), Part(name, base, "count", dp.count, FALSE) >>

\* The name of a sum says that it only grows.
SumName(name, m) ==
    IF m.type = "sum" /\ m.monotonic /\ AddTypeSuffix THEN addTypeSuffix(name, "total") ELSE name

\* The calls of Append for the i-th data point of a metric.
DataPoint(m, i, name, base) ==
    LET dp  == m.points[i]
        ops == CASE m.type = "gauge"       -> << Op(base, "value", 0, dp.v, FALSE) >>
                 [] m.type = "sum"         -> << Op(base, "value", 0, dp.v, m.delta) >>
                 [] m.type = "histogram"   -> appendHistogramDataPoint(name, base, dp, m.delta)
                 [] m.type = "exponential" ->
                       appendExponentialHistogramDataPoint(name, base, dp, m.delta)
                 [] m.type = "summary"     -> translateSummary(name, base, dp)
                 [] OTHER                  -> << >>
    IN  [j \in DOMAIN ops |-> [op |-> ops[j], point |-> i]]

\* The calls of Append for one metric; a delta is skipped if conversion is
\* off, and so is a metric of no known type.
translateMetric(m, resource, scope, schema) ==
    LET skipped == /\ m.type \in {"sum", "histogram", "exponential"}
                   /\ m.delta
                   /\ ~ DeltaConversion
        ops(name) == [i \in DOMAIN m.points |->
           DataPoint(m, i, name, buildLabels(name, m.points[i].attrs, resource, scope, schema))]
    IN  IF skipped THEN << >> ELSE FlattenSeq(ops(SumName(MetricName(m), m)))

\* The schema URL at the k-th scope of a resource: its own, else that of the
\* last scope before it that has one, else the resource's.
SchemaAt(rm, k) ==
    FoldLeft(LAMBDA l, sm : SchemaLabels(l, sm.schema),
             SchemaLabels(EmptyLabels, rm.schema), SubSeq(rm.scopes, 1, k))

\* The metrics of a request, in the order in which Translate comes to them,
\* each by its place: resource, scope, metric.
Places(req) ==
    FlattenSeq([i \in DOMAIN req |->
       FlattenSeq([k \in DOMAIN req[i].scopes |->
          [j \in DOMAIN req[i].scopes[k].metrics |-> <<i, k, j>>]])])

\* The metric at a place.
MetricAt(req, at) ==
    LET rm == req[at[1]]
        sm == rm.scopes[at[2]]
    IN  translateMetric(sm.metrics[at[3]], resourceLabels(rm.attrs), scopeLabels(sm),
                        SchemaAt(rm, at[2]))

\* The calls of Append for a request, each with the metric it belongs to.
OfMetric(n, ops) ==
    [j \in DOMAIN ops |-> [op |-> ops[j].op, metric |-> n, point |-> ops[j].point]]

Calls(req) ==
    FlattenSeq([n \in DOMAIN Places(req) |-> OfMetric(n, MetricAt(req, Places(req)[n]))])

-----------------------------------------------------------------------------

\* LimitReader stops at MaxBodySize without an error: what is read of a
\* longer body decodes if the limit falls between two resources.
Decoded(req) ==
    IF Len(req) =< MaxBodySize THEN req ELSE SubSeq(req, 1, MaxBodySize)

\* The name of a request that has no metrics, or does not decode.
NoBody == "none"

Body(name) == IF name = NoBody THEN << >> ELSE Decoded(Request[name])

CallsOf == [name \in DOMAIN Request \cup {NoBody} |-> Calls(Body(name))]

\* "refused" is 400, 405 or InvalidArgument, "failed" is 500 or Internal.
Answer == {"ok", "partial", "refused", "failed"}

\* pc: "translate" is inside Translate or before Commit, "partial" before the
\* Commit that follows a failed Translate.
Idle == [pc |-> "idle", req |-> 0, pending |-> << >>]

IngestTypeOK ==
    /\ \A h \in Handler :
          /\ handler[h].pc \in {"idle", "translate", "partial"}
          /\ handler[h].req \in 0 .. Len(reqs)
    /\ \A fp \in DOMAIN delta : delta[fp].value \in Int /\ delta[fp].lastSeen \in 0 .. now
    /\ \A s \in stored : s.req \in 1 .. Len(reqs) /\ s.v \in Int
    /\ now \in 0 .. MaxNow
    /\ DOMAIN answered \subseteq 1 .. Len(reqs)
    /\ \A r \in DOMAIN answered : answered[r] \in Answer

Init ==
    /\ handler = [h \in Handler |-> Idle]
    /\ delta = << >>
    /\ stored = {}
    /\ now = 0
    /\ reqs = << >>
    /\ answered = << >>
    /\ ledger = << >>

Reply(r, a) ==
    answered' = [q \in DOMAIN answered \cup {r} |-> IF q = r THEN a ELSE answered[q]]

-----------------------------------------------------------------------------
(* Receiving *)

\* Wrong method, unreadable or undecodable body: answered at once.
Refuse(h) ==
    /\ handler[h].pc = "idle"
    /\ Len(reqs) < MaxRequests
    /\ reqs' = Append(reqs, NoBody)
    /\ Reply(Len(reqs) + 1, "refused")
    /\ UNCHANGED <<handler, delta, stored, now, ledger>>

\* A request without metrics is a success and does not reach the store.
ReceiveEmpty(h) ==
    /\ handler[h].pc = "idle"
    /\ Len(reqs) < MaxRequests
    /\ reqs' = Append(reqs, NoBody)
    /\ Reply(Len(reqs) + 1, "ok")
    /\ UNCHANGED <<handler, delta, stored, now, ledger>>

Receive(h) ==
    /\ handler[h].pc = "idle"
    /\ Len(reqs) < MaxRequests
    /\ \E name \in DOMAIN Request : reqs' = Append(reqs, name)
    /\ handler' = [handler EXCEPT ![h] =
          [pc |-> "translate", req |-> Len(reqs) + 1, pending |-> << >>]]
    /\ UNCHANGED <<delta, stored, now, answered, ledger>>

-----------------------------------------------------------------------------
(* Translate *)

evictStale(d) ==
    [fp \in {fp \in DOMAIN d : ~ d[fp].lastSeen < now - DeltaTTL} |-> d[fp]]

\* Slip: adding to a total does not renew it.
accumulateDelta_NotRenewed(series, v) ==
    LET d   == evictStale(delta)
        fp  == HashOf(series)
        old == IF fp \in DOMAIN d THEN d[fp] ELSE [value |-> 0, lastSeen |-> now]
    IN  [f \in DOMAIN d \cup {fp} |->
            IF f = fp THEN [value |-> old.value + v, lastSeen |-> old.lastSeen] ELSE d[f]]

\* Slip: lastSeen holds the time the total expires at.
accumulateDelta_Expiry(series, v) ==
    LET d   == evictStale(delta)
        fp  == HashOf(series)
        old == IF fp \in DOMAIN d THEN d[fp].value ELSE 0
    IN  [f \in DOMAIN d \cup {fp} |->
            IF f = fp THEN [value |-> old + v, lastSeen |-> now + DeltaTTL] ELSE d[f]]

\* tr.delta after the call; the total of the series in it is the result.
accumulateDelta(series, v) ==
    LET d   == evictStale(delta)
        fp  == HashOf(series)
        old == IF fp \in DOMAIN d THEN d[fp].value ELSE 0
    IN  [f \in DOMAIN d \cup {fp} |->
            IF f = fp THEN [value |-> old + v, lastSeen |-> now] ELSE d[f]]

Accumulate(op) ==
    IF op.acc
    THEN /\ delta' = accumulateDelta(op.series, op.v)
         /\ ledger' = Append(ledger, [series |-> op.series, v |-> op.v, at |-> now])
    ELSE UNCHANGED <<delta, ledger>>

\* The last addition in a ledger continues the total of the j-th if no more
\* than DeltaTTL went by between any two additions to the series in a row.
Continues(l, j) ==
    LET same(i) == l[i].series = l[Len(l)].series
    IN  /\ same(j)
        /\ \A i \in j + 1 .. Len(l) : same(i) =>
              \E k \in j .. i - 1 : same(k) /\ l[i].at - l[k].at =< DeltaTTL

\* The additions to the last series in a ledger since it was last idle.
SinceIdle(l) == Total([j \in DOMAIN l |-> IF Continues(l, j) THEN l[j].v ELSE 0])

\* Another series in a ledger has the hash of this one.
Collides(l, series) ==
    \E i \in DOMAIN l : l[i].series # series /\ HashOf(l[i].series) = HashOf(series)

\* One of the additions that make up the total of the last series is negative.
HasNegative(l) == \E j \in DOMAIN l : Continues(l, j) /\ l[j].v < 0

\* What the total of the last series in a ledger should be; nothing is said
\* of a series whose labels hash like another's, nor after a negative addition.
ExpectedTotal(l) ==
    IF Collides(l, l[Len(l)].series) \/ HasNegative(l) THEN {} ELSE {SinceIdle(l)}

\* The next call of Append that a handler makes, if there is one: the call
\* after those whose samples are pending.
CallAfter(calls, n) == {calls[i] : i \in DOMAIN calls \cap {n + 1}}

NextCall(h) ==
    IF handler[h].pc = "translate"
    THEN CallAfter(CallsOf[reqs[handler[h].req]], Len(handler[h].pending))
    ELSE {}

\* One data point of a metric, or one series of it.
AppendSample(h) ==
    /\ \E call \in NextCall(h) :
          /\ Accumulate(call.op)
          /\ handler' = [handler EXCEPT ![h].pending = Append(@,
                [req |-> handler[h].req, pos |-> Len(@) + 1, metric |-> call.metric,
                 v |-> IF call.op.acc THEN delta'[HashOf(call.op.series)].value ELSE call.op.v,
                 total |-> IF call.op.acc THEN ExpectedTotal(ledger') ELSE {}])]
    /\ UNCHANGED <<stored, now, reqs, answered>>

\* The samples that Translate counts when it fails at a call: those of the
\* metrics before.
Counted(h, call) ==
    {i \in DOMAIN handler[h].pending : handler[h].pending[i].metric < call.metric}

\* Append fails: what was translated before is committed, if it counts; else
\* it is rolled back and the request refused.  The delta was added already.
AppendErr(h) ==
    /\ AppendMayFail
    /\ \E call \in NextCall(h) :
          /\ Accumulate(call.op)
          /\ IF Counted(h, call) = {}
             THEN /\ Reply(handler[h].req, "refused")
                  /\ handler' = [handler EXCEPT ![h] = Idle]
             ELSE /\ handler' = [handler EXCEPT ![h].pc = "partial"]
                  /\ UNCHANGED answered
    /\ UNCHANGED <<stored, now, reqs>>

-----------------------------------------------------------------------------
(* Commit and answer *)

Committing(h) ==
    \/ handler[h].pc = "translate" /\ NextCall(h) = {}
    \/ handler[h].pc = "partial"

\* The first k pending samples reach the store.
Store(h, k) ==
    stored' = stored \cup {handler[h].pending[i] : i \in 1 .. k}

Commit(h) ==
    /\ Committing(h)
    /\ Store(h, Len(handler[h].pending))
    /\ Reply(handler[h].req, IF handler[h].pc = "partial" THEN "partial" ELSE "ok")
    /\ handler' = [handler EXCEPT ![h] = Idle]
    /\ UNCHANGED <<delta, now, reqs, ledger>>

\* Slip: the error of Commit is only logged.
CommitErr_Logged(h) ==
    /\ Committing(h)
    /\ \E k \in 0 .. Len(handler[h].pending) : Store(h, k)
    /\ Reply(handler[h].req, IF handler[h].pc = "partial" THEN "partial" ELSE "ok")
    /\ handler' = [handler EXCEPT ![h] = Idle]
    /\ UNCHANGED <<delta, now, reqs, ledger>>

\* Commit fails, perhaps after a part of the batch was logged, which Rollback
\* does not take back.
CommitErr(h) ==
    /\ Committing(h)
    /\ \E k \in 0 .. Len(handler[h].pending) : Store(h, k)
    /\ Reply(handler[h].req, "failed")
    /\ handler' = [handler EXCEPT ![h] = Idle]
    /\ UNCHANGED <<delta, now, reqs, ledger>>

\* The process restarts: totals are not persisted.
Restart ==
    /\ handler' = [h \in Handler |-> Idle]
    /\ delta' = << >>
    /\ ledger' = << >>
    /\ UNCHANGED <<stored, now, reqs, answered>>

Tick ==
    /\ now < MaxNow
    /\ now' = now + 1
    /\ UNCHANGED <<handler, delta, stored, reqs, answered, ledger>>

Serve(h) ==
    \/ Refuse(h) \/ ReceiveEmpty(h) \/ Receive(h)
    \/ AppendSample(h) \/ AppendErr(h)
    \/ Commit(h) \/ CommitErr(h)

Next == Restart \/ Tick \/ \E h \in Handler : Serve(h)

Spec == Init /\ [][Next]_vars

-----------------------------------------------------------------------------
(* Properties *)

\* An answer tells the client no untruth about the store, whatever fails and
\* whoever else is served: after success every sample of the request is stored;
\* after a refusal none is, so a corrected request repeats nothing; after a
\* partial success something of it is stored and something is not; and after a
\* failed Commit nothing behind a gap.  Which samples a partial success leaves
\* is not judged: plans/06-otlp-ingestion.md asks for more than the code does
\* (README, section 6).
AnswersHonest ==
    \A r \in DOMAIN answered :
       LET got == {s.pos : s \in {s \in stored : s.req = r}}
           all == DOMAIN CallsOf[reqs[r]]
       IN  CASE answered[r] = "ok"      -> got = all
             [] answered[r] = "refused" -> got = {}
             [] answered[r] = "partial" -> got \cap all # {} /\ all \ got # {}
             [] answered[r] = "failed"  -> got = 1 .. Cardinality(got) /\ got \subseteq all

\* Delta conversion adds up: a sample of a delta series has the sum of all
\* additions since the series was last idle for longer than DeltaTTL,
\* whichever handlers made them and whatever series evictStale removed in
\* between; unless the labels of another series have the same hash, or one of
\* the additions was negative.  What the total should be after a negative
\* addition is not judged: the code adds it, plans/11-extended-otlp.md forbids
\* the negative counter that may come of it (README, section 6).
TotalsExact == \A s \in stored : s.total \subseteq {s.v}

\* The call of Append that a sample comes from.
Origin(s) == CallsOf[reqs[s.req]][s.pos]

\* An empty value is as good as no label.
Has(lset, n, v) ==
    IF v = << >> THEN n \notin DOMAIN lset ELSE n \in DOMAIN lset /\ lset[n] = v

\* The label that a bucket or a quantile brings with it.
OwnLabel(part) ==
    CASE part = "bucket" -> {<<"le">>} [] part = "quantile" -> {<<"quantile">>} [] OTHER -> {}

\* The labels of the attributes, the last of those that have the same name.
AttrsAsSent(lset, own, attrs, names) ==
    \A i \in DOMAIN attrs :
       \/ names[i] \in own \/ \E j \in i + 1 .. Len(attrs) : names[j] = names[i]
       \/ Has(lset, names[i], anyValueString(attrs[i].value))

SchemaAsSent(lset, rm, k) ==
    IF rm.scopes[k].schema # << >> THEN Has(lset, SchemaLabel, rm.scopes[k].schema)
    ELSE \/ Has(lset, SchemaLabel, rm.schema)
         \/ rm.schema = << >> /\ SchemaLabel \in Range(LabelMap)
         \/ \E i \in 1 .. k - 1 : rm.scopes[i].schema # << >>

\* What SeriesAsSent says of a call of Append for metric m, in the k-th scope
\* of resource rm.
CallAsSent(call, rm, k, m) ==
    /\ AttrsAsSent(call.op.series, OwnLabel(call.op.part), m.points[call.point].attrs,
                   [i \in DOMAIN m.points[call.point].attrs |->
                      sanitizeLabelName(m.points[call.point].attrs[i].key)])
    /\ MetricName(m) # << >> =>
          NameLabel \in DOMAIN call.op.series /\ IsPrefix(MetricName(m), call.op.series[NameLabel])
    /\ SchemaURL => SchemaAsSent(call.op.series, rm, k)

AsSent(req, calls) ==
    LET at(call) == Places(req)[call.metric]
        of(call, p) == CallAsSent(call, req[p[1]], p[2], req[p[1]].scopes[p[2]].metrics[p[3]])
    IN  [pos \in DOMAIN calls |-> of(calls[pos], at(calls[pos]))]

AsSentAt == [name \in DOMAIN Request \cup {NoBody} |-> AsSent(Body(name), CallsOf[name])]

\* A stored sample has the labels it was sent with: every attribute of its
\* data point, the last one where two have the same label name, whatever the
\* resource, the scope and the schema say, and no label where the attribute
\* is empty; the name of its metric, if it has one, which no attribute can
\* replace; and its scope's schema URL, or its resource's.  Nothing is said of
\* a scope without a schema URL behind a scope that has one, nor of a resource
\* without one where an attribute of the resource is mapped to that label.
SeriesAsSent == \A s \in stored : AsSentAt[reqs[s.req]][s.pos]

\* Histograms are valid: in the samples of one data point a bucket holds no
\* more than the bucket with the next higher bound.
ValidHistograms ==
    \A s, u \in stored :
       LET b == Origin(s)
           c == Origin(u)
       IN  /\ s.req = u.req
           /\ b.metric = c.metric /\ b.point = c.point
           /\ b.op.part = "bucket" /\ c.op.part = "bucket"
           /\ b.op.le < c.op.le
           => s.v =< u.v

=============================================================================
