------------------------------ MODULE MemStore ------------------------------
(***************************************************************************)
(* The in-memory store of internal/store/memstore.go: series in buckets by *)
(* the hash of their labels, each with its samples in the order of commit. *)
(* Every operation holds the store's lock from end to end, so each is one  *)
(* step; what a handler does between two of them is not.                   *)
(***************************************************************************)
EXTENDS Integers, Sequences, FiniteSets, SequencesExt

CONSTANTS
    LabelSet,    \* label sets: functions from names to values
    HashOf,      \* labels.Hash, per label set
    Time,        \* the timestamps of samples
    Point,       \* what is appended: pairs of a label set and a time
    Appender,    \* appenders, one per request that writes
    Retention,   \* s.retention
    MaxAppends,  \* bound: calls of Append
    MaxNow       \* bound: the clock

ASSUME MemStoreAssumption ==
    /\ HashOf \in [LabelSet -> Int]
    /\ Time \subseteq Int
    /\ Point \subseteq LabelSet \X Time
    /\ Retention \in Nat
    /\ MaxAppends \in Nat
    /\ MaxNow \in Nat

VARIABLES
    series,     \* s.series: hash -> its bucket, a sequence of series, each with
                \* ref, lset and samples, a sequence of times t and values v
    nextRef,    \* s.nextRef
    pending,    \* per appender: the samples appended so far, with their lset
    now,        \* the clock
    appends,    \* calls of Append so far; the value of a sample is its number
    committed   \* history: the samples in the order of commit, each with the
                \* number of samples that were committed before its batch

memVars == <<series, nextRef, pending, now, appends, committed>>

MemInit ==
    /\ series = << >>
    /\ nextRef = 0
    /\ pending = [a \in Appender |-> << >>]
    /\ now = 0
    /\ appends = 0
    /\ committed = << >>

\* The elements of s whose places are in I, in their order: what a loop keeps
\* that goes over s and appends some of its elements to a result.
SelectAt(s, I) ==
    LET kept[n \in 0 .. Len(s)] ==
          IF n = 0 THEN << >>
          ELSE IF n \in I THEN Append(kept[n - 1], s[n]) ELSE kept[n - 1]
    IN  kept[Len(s)]

-----------------------------------------------------------------------------
(* Writing *)

AppendSample(a) ==
    /\ appends < MaxAppends
    /\ appends' = appends + 1
    /\ \E p \in Point :
          pending' = [pending EXCEPT ![a] =
                         Append(@, [lset |-> p[1], t |-> p[2], v |-> appends + 1])]
    /\ UNCHANGED <<series, nextRef, now, committed>>

\* Slip: the first series of the bucket is taken for the one looked for.
findSeries_ByHash(bucket, l) == IF bucket = << >> THEN {} ELSE {1}

\* The place of the series in its bucket.
findSeries(bucket, l) == {i \in DOMAIN bucket : bucket[i].lset = l}

BucketOf(st, fp) == IF fp \in DOMAIN st.series THEN st.series[fp] ELSE << >>

SetBucket(st, fp, bucket) ==
    [f \in DOMAIN st.series \cup {fp} |-> IF f = fp THEN bucket ELSE st.series[f]]

\* One round of appendSamples' loop.
AddSample(st, p) ==
    LET fp     == HashOf[p.lset]
        bucket == BucketOf(st, fp)
        found  == findSeries(bucket, p.lset)
        sample == [t |-> p.t, v |-> p.v]
        new    == [ref |-> st.nextRef + 1, lset |-> p.lset, samples |-> <<sample>>]
    IN  IF found = {}
        THEN [series |-> SetBucket(st, fp, Append(bucket, new)), nextRef |-> st.nextRef + 1]
        ELSE [st EXCEPT !.series =
                 SetBucket(st, fp, [i \in DOMAIN bucket |->
                    IF i \in found THEN [bucket[i] EXCEPT !.samples = Append(@, sample)]
                                   ELSE bucket[i]])]

appendSamples(ps) ==
    LET after[n \in 0 .. Len(ps)] ==
          IF n = 0 THEN [series |-> series, nextRef |-> nextRef]
          ELSE AddSample(after[n - 1], ps[n])
    IN  after[Len(ps)]

Batch(ps) ==
    [i \in DOMAIN ps |-> [lset |-> ps[i].lset, t |-> ps[i].t, v |-> ps[i].v,
                          batch |-> Len(committed)]]

\* Slip: the lock is taken for each sample.
Commit_PerSample(a) ==
    /\ pending[a] # << >>
    /\ LET st == appendSamples(<<Head(pending[a])>>)
       IN  series' = st.series /\ nextRef' = st.nextRef
    /\ committed' = IF \E i \in DOMAIN committed : committed[i].v = Head(pending[a]).v
                    THEN committed ELSE committed \o Batch(pending[a])
    /\ pending' = [pending EXCEPT ![a] = Tail(@)]
    /\ UNCHANGED <<now, appends>>

Commit(a) ==
    /\ pending[a] # << >>
    /\ LET st == appendSamples(pending[a])
       IN  series' = st.series /\ nextRef' = st.nextRef
    /\ committed' = committed \o Batch(pending[a])
    /\ pending' = [pending EXCEPT ![a] = << >>]
    /\ UNCHANGED <<now, appends>>

Rollback(a) ==
    /\ pending[a] # << >>
    /\ pending' = [pending EXCEPT ![a] = << >>]
    /\ UNCHANGED <<series, nextRef, now, appends, committed>>

-----------------------------------------------------------------------------
(* Pruning *)

\* A round of the loop of sort.Search, on the places that are left.
Bisect(left, holds) ==
    LET h == (left.lo + left.hi) \div 2
    IN  IF left.lo >= left.hi THEN left
        ELSE IF h \in holds THEN [left EXCEPT !.hi = h] ELSE [left EXCEPT !.lo = h + 1]

\* sort.Search: bisection for the first place, counted from 0, at which the
\* condition holds.  It is the first only if holds has all places from some
\* place on.  After n rounds no place is left.
Search(n, holds) ==
    LET left[k \in 0 .. n] ==
          IF k = 0 THEN [lo |-> 0, hi |-> n] ELSE Bisect(left[k - 1], holds)
    IN  left[n].lo

\* Slip: a sample at the cutoff goes too.
pruneSamples_AtCutoff(samples, cutoff) ==
    LET after == {i \in 0 .. Len(samples) - 1 : samples[i + 1].t > cutoff}
    IN  SubSeq(samples, 1 + Search(Len(samples), after), Len(samples))

pruneSamples(samples, cutoff) ==
    LET after == {i \in 0 .. Len(samples) - 1 : samples[i + 1].t >= cutoff}
    IN  SubSeq(samples, 1 + Search(Len(samples), after), Len(samples))

\* A series without samples leaves its bucket, an empty bucket the map.
Pruned(bucket, cutoff) ==
    LET cut == [i \in DOMAIN bucket |->
                  [bucket[i] EXCEPT !.samples = pruneSamples(@, cutoff)]]
    IN  SelectAt(cut, {i \in DOMAIN cut : cut[i].samples # << >>})

Prune ==
    /\ Retention # 0
    /\ UNCHANGED <<nextRef, pending, now, appends, committed>>
    /\ LET after(fp) == Pruned(series[fp], now - Retention)
       IN  series' = [fp \in {fp \in DOMAIN series : after(fp) # << >>} |-> after(fp)]

Tick ==
    /\ now < MaxNow
    /\ now' = now + 1
    /\ UNCHANGED <<series, nextRef, pending, appends, committed>>

MemNext ==
    \/ Prune \/ Tick
    \/ \E a \in Appender : AppendSample(a) \/ Commit(a) \/ Rollback(a)

-----------------------------------------------------------------------------
(* Reading *)

\* The series in the store.
Entries == UNION {{series[fp][i] : i \in DOMAIN series[fp]} : fp \in DOMAIN series}

Get(l, name) == IF name \in DOMAIN l THEN l[name] ELSE ""

\* A matcher is a label name and the values it matches.
matchesAll(l, matchers) == \A m \in matchers : Get(l, m.name) \in m.values

filterSamples(samples, mint, maxt) ==
    SelectAt(samples, {i \in DOMAIN samples : samples[i].t >= mint /\ samples[i].t =< maxt})

\* Slip: only the ends are looked at.
hasOverlap_Ends(samples, mint, maxt) ==
    \E i \in {1, Len(samples)} : samples[i].t >= mint /\ samples[i].t =< maxt

hasOverlap(samples, mint, maxt) ==
    \E i \in DOMAIN samples : samples[i].t >= mint /\ samples[i].t =< maxt

\* Select; the order of the result is that of a map unless it is sorted, and
\* is left out.
Select(mint, maxt, matchers) ==
    {[lset |-> e.lset, samples |-> filterSamples(e.samples, mint, maxt)] :
        e \in {e \in Entries : /\ matchesAll(e.lset, matchers)
                               /\ filterSamples(e.samples, mint, maxt) # << >>}}

Listed(mint, maxt, matchers) ==
    {e.lset : e \in {e \in Entries : /\ matchesAll(e.lset, matchers)
                                     /\ hasOverlap(e.samples, mint, maxt)}}

LabelNames(mint, maxt, matchers) ==
    UNION {DOMAIN l : l \in Listed(mint, maxt, matchers)}

LabelValues(name, mint, maxt, matchers) ==
    {Get(l, name) : l \in Listed(mint, maxt, matchers)} \ {""}

-----------------------------------------------------------------------------
(* Properties *)

\* What was committed to a label set, in the order of commit.
History(l) == SelectAt(committed, {i \in DOMAIN committed : committed[i].lset = l})

InOrder(l) ==
    LET h == History(l) IN \A i, j \in DOMAIN h : i < j => h[i].t =< h[j].t

\* Each label set is held once, under its own hash and a number of its own,
\* and its samples, of which there is one at least, are the last of those
\* committed to it, in the order of commit: appenders do not lose one
\* another's samples, series with equal hashes stay apart, and pruning takes
\* from the front only, also after a series went away and came back.
SeriesFollowCommits ==
    /\ \A fp \in DOMAIN series : \A i \in DOMAIN series[fp] :
          LET e == series[fp][i]
              h == History(e.lset)
          IN  /\ HashOf[e.lset] = fp
              /\ 0 < Len(e.samples) /\ Len(e.samples) =< Len(h)
              /\ \A k \in DOMAIN e.samples :
                    LET s == h[Len(h) - Len(e.samples) + k]
                    IN  e.samples[k] = [t |-> s.t, v |-> s.v]
    /\ \A e, f \in Entries : e.lset = f.lset \/ e.ref = f.ref => e = f

Values(samples) == {samples[i].v : i \in DOMAIN samples}

Stored == UNION {Values(e.samples) : e \in Entries}

\* Prune removes from a series that was committed in the order of time
\* exactly what is older than the retention.
PruneExact ==
    [][Prune => \A e \in Entries : InOrder(e.lset) =>
          Values(e.samples) \cap Stored' =
             {s.v : s \in {s \in ToSet(e.samples) : s.t >= now - Retention}}]_memVars

=============================================================================
