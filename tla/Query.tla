------------------------------- MODULE Query -------------------------------
(***************************************************************************)
(* The query API, internal/query/api.go, over the adapter of               *)
(* internal/store/adapter.go and the in-memory store (module MemStore).    *)
(*                                                                         *)
(* A request that names several selectors reads the store once for each,   *)
(* and each reading takes and releases the store's lock: commits and       *)
(* prunings come in between.  What a reading returns is a copy, so nothing *)
(* changes under the engine.                                               *)
(*                                                                         *)
(* The PromQL engine is external.  It asks for a time range per selector,  *)
(* in the hints, and reads each series by one Seek and then Next.          *)
(***************************************************************************)
EXTENDS MemStore

CONSTANTS
    Request,   \* the requests that clients make
    ZeroTime   \* time.Time{} in the unit of the samples: before all of them

\* A time comes in one of four forms, and selectors in a sequence.
ASSUME QueryAssumption ==
    /\ ZeroTime \in Int
    /\ \A r \in Request :
          /\ {r.start.form, r.end.form} \subseteq {"absent", "bad", "rfc3339", "unix"}
          /\ {r.start.t, r.end.t} \subseteq Int
          /\ r.sels \in Seq(ToSet(r.sels))
          /\ \A s \in ToSet(r.sels) : s.offset \in Int /\ s.range \in Int

VARIABLES
    call,  \* the request in progress, or the answer to the last one
    must   \* history: per selector, samples stored since the request began

queryVars == <<call, must>>
vars == <<memVars, queryVars>>

-----------------------------------------------------------------------------
(* Parameters *)

\* A time that does not parse is an error and the zero time.  A number of
\* seconds with a fraction may lose a millisecond: the fraction is cut off
\* where its binary form is just below the decimal one.  NaN, an infinity and
\* a number beyond int64 are no errors: they become some time, which one
\* depends on the machine, and stand here as "rfc3339" with that time.
parseTimeParam(p, defaultVal) ==
    CASE p.form = "absent" -> {defaultVal}
      [] p.form = "bad" -> {ZeroTime}
      [] p.form = "rfc3339" -> {p.t}
      [] p.form = "unix" -> {p.t - 1, p.t}

\* A duration of Go has any sign; with a suffix d, w or y it is positive, and
\* so is a plain number of seconds.
parsePromDuration(s) == s.form = "prom" /\ s.n > 0

parseStep(s) ==
    \/ s.form = "duration"
    \/ parsePromDuration(s)
    \/ s.form = "seconds" /\ s.n > 0

-----------------------------------------------------------------------------
(* The adapter *)

\* queryable.Querier.
Querier(mint, maxt) == [mint |-> mint, maxt |-> maxt]

\* The range of querier.Select: 0 in the hints stands for no hint, and the
\* querier's own range, which contains theirs, is used.
QuerierRange(q, hints) ==
    [mint |-> IF hints.start # 0 THEN hints.start ELSE q.mint,
     maxt |-> IF hints.end # 0 THEN hints.end ELSE q.maxt]

\* Slip: the sample at the time looked for is passed over.
Seek_Strict(samples, t) ==
    Min({i \in 1 .. Len(samples) + 1 : i =< Len(samples) => samples[i].t > t})

\* sampleIterator.Seek of a new iterator: the place it stops at.
Seek(samples, t) ==
    Min({i \in 1 .. Len(samples) + 1 : i =< Len(samples) => samples[i].t >= t})

\* What the engine takes from a series: Seek to the start, Next to the end.
EngineRead(samples, hints) ==
    LET first == Seek(samples, hints.start)
    IN  {samples[i].v : i \in {i \in first .. Len(samples) :
                                 \A j \in first .. i : samples[j].t =< hints.end}}

\* The range of time that the engine wants for a selector: offset back, and
\* from there a range, or the lookback delta, of which the start is not part.
Hints(sel, start, end) ==
    [start |-> start - sel.offset - sel.range + 1, end |-> end - sel.offset]

\* The engine's querier covers all selectors.
EngineQuerier(sels, start, end) ==
    LET hints == {Hints(sels[i], start, end) : i \in DOMAIN sels}
    IN  IF hints = {} THEN Querier(start, end)
        ELSE Querier(CHOOSE m \in {h.start : h \in hints} : \A h \in hints : m =< h.start,
                     CHOOSE m \in {h.end : h \in hints} : \A h \in hints : h.end =< m)

-----------------------------------------------------------------------------
(* Handlers *)

NoCall == [pc |-> "idle", op |-> "none", sels |-> << >>, start |-> 0, end |-> 0,
           asked |-> [mint |-> 0, maxt |-> -1], q |-> Querier(0, 0), got |-> << >>,
           name |-> "", answer |-> "none"]

Answered(answer) == [NoCall EXCEPT !.answer = answer]

\* What the client means by a time, as the start and as the end of a range,
\* without the millisecond that may be lost.
Meant(p, defaultVal) ==
    CASE p.form = "absent" -> [mint |-> defaultVal, maxt |-> defaultVal]
      [] p.form = "unix" -> [mint |-> p.t, maxt |-> p.t - 1]
      [] OTHER -> [mint |-> p.t, maxt |-> p.t]

\* A bound that does not parse promises nothing.
Asked(r) ==
    IF "bad" \in {r.start.form, r.end.form} THEN [mint |-> 0, maxt |-> -1]
    ELSE [mint |-> Meant(r.start, 0).mint, maxt |-> Meant(r.end, now).maxt]

\* query: the expression, then the time, then the engine's parser.
query(r) ==
    \E ts \in parseTimeParam(r.end, now) :
       call' = IF r.expr = "missing" \/ r.end.form = "bad" \/ r.expr = "bad"
               THEN Answered("bad_data")
               ELSE [NoCall EXCEPT !.pc = "select", !.op = "query", !.sels = r.sels,
                        !.start = ts, !.end = ts,
                        !.asked = Meant(r.end, now),
                        !.q = EngineQuerier(r.sels, ts, ts)]

\* queryRange: both times are required.
queryRange(r) ==
    \E start \in parseTimeParam(r.start, ZeroTime), end \in parseTimeParam(r.end, ZeroTime) :
       call' = IF \/ r.expr = "missing"
                  \/ start = ZeroTime
                  \/ end = ZeroTime
                  \/ ~ parseStep(r.step)
                  \/ r.expr = "bad"
               THEN Answered("bad_data")
               ELSE [NoCall EXCEPT !.pc = "select", !.op = "query", !.sels = r.sels,
                        !.start = start, !.end = end, !.asked = Asked(r),
                        !.q = EngineQuerier(r.sels, start, end)]

\* series: errors of the times are passed over.
seriesRequest(r) ==
    \E start \in parseTimeParam(r.start, 0), end \in parseTimeParam(r.end, now) :
       call' = IF r.sels = << >>
               THEN Answered("bad_data")
               ELSE [NoCall EXCEPT !.pc = "select", !.op = "series", !.sels = r.sels,
                        !.start = start, !.end = end, !.asked = Asked(r),
                        !.q = Querier(start, end)]

\* labelNames, which does not look at match[].
labelNames(r) ==
    \E start \in parseTimeParam(r.start, 0), end \in parseTimeParam(r.end, now) :
       call' = [NoCall EXCEPT !.pc = "select", !.op = "labels", !.asked = Asked(r),
                   !.got = <<LabelNames(start, end, {})>>]

labelValues(r) ==
    \E start \in parseTimeParam(r.start, 0), end \in parseTimeParam(r.end, now) :
       call' = IF r.name = ""
               THEN Answered("bad_data")
               ELSE [NoCall EXCEPT !.pc = "select", !.op = "values", !.asked = Asked(r),
                        !.name = r.name, !.got = <<LabelValues(r.name, start, end, {})>>]

\* A request comes in; if its form does not parse nothing else is looked at.
Handle ==
    /\ call.pc = "idle"
    /\ \E r \in Request :
          \/ ~ r.parses /\ call' = Answered("bad_data")
          \/ r.parses /\ r.op = "query" /\ query(r)
          \/ r.parses /\ r.op = "query_range" /\ queryRange(r)
          \/ r.parses /\ r.op = "series" /\ seriesRequest(r)
          \/ r.parses /\ r.op = "labels" /\ labelNames(r)
          \/ r.parses /\ r.op = "values" /\ labelValues(r)
    /\ UNCHANGED memVars

\* The selector that is to be read next.
Current == call.sels[Len(call.got) + 1]

HasNext == call.pc = "select" /\ Len(call.got) < Len(call.sels)

\* The engine reads the series of a selector.
EngineSelect ==
    /\ call.op = "query"
    /\ HasNext
    /\ LET hints == Hints(Current, call.start, call.end)
           range == QuerierRange(call.q, hints)
       IN  call' = [call EXCEPT !.got = Append(@,
              UNION {EngineRead(s.samples, hints) :
                       s \in Select(range.mint, range.maxt, Current.matchers)})]
    /\ UNCHANGED memVars

\* One round of the loop in series.  A selector that does not parse is found
\* after the ones before it were read.
SeriesSelect ==
    /\ call.op = "series"
    /\ HasNext
    /\ call' = IF Current.bad
               THEN Answered("bad_data")
               ELSE [call EXCEPT !.got = Append(@,
                        {s.lset : s \in Select(call.q.mint, call.q.maxt, Current.matchers)})]
    /\ UNCHANGED memVars

Respond ==
    /\ call.pc = "select"
    /\ ~ HasNext
    /\ call' = Answered("success")
    /\ UNCHANGED memVars

\* The engine gives up; that the answer tells a cancellation from a timeout
\* and from other errors is left out.
ExecFails ==
    /\ call.pc = "select"
    /\ call.op = "query"
    /\ call' = Answered("execution")
    /\ UNCHANGED memVars

-----------------------------------------------------------------------------
(* Specification *)

\* The samples that a selector asks for.
Wants(c, i, s) ==
    LET range == IF c.op = "query"
                 THEN Hints(c.sels[i], c.asked.mint, c.asked.maxt)
                 ELSE [start |-> c.asked.mint, end |-> c.asked.maxt]
    IN  /\ matchesAll(s.lset, c.sels[i].matchers)
        /\ range.start =< s.t /\ s.t =< range.end

Committed == ToSet(committed)

\* What a reading has to find: what is stored of series that are in order.
Findable == {s \in Committed : s.v \in Stored /\ InOrder(s.lset)}

Track ==
    must' = CASE call'.pc = "idle" -> << >>
              [] call.pc = "idle" ->
                    [i \in DOMAIN call'.sels |-> {s \in Findable : Wants(call', i, s)}]
              [] OTHER -> [i \in DOMAIN must |-> must[i] \cap Findable']

Init == MemInit /\ call = NoCall /\ must = << >>

MemStep == MemNext /\ UNCHANGED call

Step == MemStep \/ Handle \/ EngineSelect \/ SeriesSelect \/ Respond \/ ExecFails

Next == Step /\ Track

Spec == Init /\ [][Next]_vars

-----------------------------------------------------------------------------
(* Properties *)

\* What a reading found for a sample: the sample, or its series.
Found(c, i, s) == IF c.op = "query" THEN s.v \in c.got[i] ELSE s.lset \in c.got[i]

\* The answer to query, query_range and series is what the client asked for:
\* for each selector it has every sample (or its series) that matches, is in
\* the range of time, belongs to a series committed in the order of time, and
\* was stored while the request was served; and nothing that was not
\* committed, or does not match.  The forms of the parameters, the hints, the
\* widening of a hint 0 and the iterator do not spoil this, nor do commits and
\* prunings between the readings.
ResponseExact ==
    [][Respond => \A i \in DOMAIN call.sels :
         /\ \A s \in must[i] : Found(call, i, s)
         /\ call.got[i] \subseteq
               {IF call.op = "query" THEN s.v ELSE s.lset :
                  s \in {s \in Committed : matchesAll(s.lset, call.sels[i].matchers)}}]_vars

\* The selectors of an expression are read one after the other, without a
\* common snapshot.  But a later one is never behind an earlier one: if the
\* earlier one saw a batch, the later one sees all that it asks for in that
\* batch and in the batches committed before it, unless it was pruned.
BatchesInOrder ==
    [][Respond /\ call.op = "query" =>
         \A j \in DOMAIN call.sels : \A i \in 1 .. j - 1 :
            \A s \in Committed : s.v \in call.got[i] =>
               \A u \in Findable :
                  u.batch =< s.batch /\ Wants(call, j, u) => u.v \in call.got[j]]_vars

\* /labels and /label/<name>/values, which look for one sample in the range
\* instead of filtering, know every label of every series that /series lists
\* for the same range, and no label of any other series.
LabelsCover ==
    [][Handle /\ call'.op \in {"labels", "values"} =>
         LET of(l) == IF call'.op = "labels" THEN DOMAIN l ELSE {Get(l, call'.name)} \ {""}
             listed(d) == {s.lset : s \in Select(call'.asked.mint - d, call'.asked.maxt + d, {})}
         IN  /\ call'.asked.mint =< call'.asked.maxt =>
                   UNION {of(l) : l \in listed(0)} \subseteq call'.got[1]
             /\ call'.asked.mint =< call'.asked.maxt =>
                   call'.got[1] \subseteq UNION {of(l) : l \in listed(1)}]_vars

=============================================================================
