------------------------- MODULE RemoteWriteProofs --------------------------
(***************************************************************************)
(* Proofs about the remote backends, for any number of appenders, samples  *)
(* and label sets, any hash and any batch size and number of retries.      *)
(***************************************************************************)
EXTENDS RemoteWrite, FiniteSetTheorems, SequenceTheorems, WellFoundedInduction, TLAPS

-----------------------------------------------------------------------------
(* The inductive invariant *)

\* The samples of an appender that may still be posted.
LiveOf(r) ==
    IF r.pc = "open" THEN {r.pending[j] : j \in 1 .. Len(r.pending)}
    ELSE IF r.pc = "send"
    THEN UNION {r.rows[j].samples : j \in {j \in 1 .. Len(r.rows) : r.i < j}}
    ELSE {}

\* No sample is in two rows, and rows that share a series follow its order.
RowsApart(rows) ==
    \A j, k \in 1 .. Len(rows) : \A a \in rows[j].samples, b \in rows[k].samples :
       /\ a.n = b.n => j = k
       /\ j < k /\ a.series = b.series => a.n < b.n

\* An appender numbers its samples upwards and has rows only from Commit on.
Shape(r) ==
    /\ r.pc = "open" => r.rows = << >>
    /\ r.pc # "open" => r.pending = << >>
    /\ \A j, k \in 1 .. Len(r.pending) : j < k => r.pending[j].n < r.pending[k].n
    /\ RowsApart(r.rows)

\* How often the live samples of an appender were posted: as often as send
\* tried in the batch at hand, and not at all beyond it.
Counts(r, p, size, retries) ==
    /\ r.pc = "open" => \A j \in 1 .. Len(r.pending) : p[r.pending[j].n] = 0
    /\ r.pc = "send" =>
          /\ r.attempt =< retries
          /\ \A j \in 1 .. Len(r.rows) : r.i < j => \A a \in r.rows[j].samples :
                p[a.n] = IF j =< r.i + size THEN r.attempt ELSE 0

\* Each sample has one appender at most that may still post it.
Owned ==
    /\ \A w \in Writer : \A a \in LiveOf(appender[w]) : a.n =< appended
    /\ \A w, v \in Writer : w # v =>
          \A a \in LiveOf(appender[w]), b \in LiveOf(appender[v]) : a.n # b.n

Counted ==
    /\ \A n \in 1 .. MaxSamples : n > appended => posts[n] = 0
    /\ \A w \in Writer : Counts(appender[w], posts, BatchSize, MaxRetries)
    /\ PostsBounded
    /\ \A n \in dropped : posts[n] = MaxRetries

\* The rows before the batch at hand are on the server or given up.
Settled(r, done) ==
    \A j \in 1 .. Len(r.rows) :
       r.pc = "ok" \/ (r.pc = "send" /\ j =< r.i) =>
          \A a \in r.rows[j].samples : a.n \in done

Accounted == \A w \in Writer : Settled(appender[w], Arrived \cup dropped)

\* What the server has, or may yet store, is the batch at hand again, or comes
\* before all that its appender may still post.
Before(body, live) ==
    \A a \in Samples(body), b \in live : a.series = b.series => a.n < b.n

AtHand(w, body) == Sending(w) /\ body = Body(w)

InTurn(w, body) == AtHand(w, body) \/ Before(body, LiveOf(appender[w]))

Taken(body) == \A a \in Samples(body) : a.n =< appended

Ordered ==
    /\ \A k \in 1 .. Len(remote) :
          Taken(remote[k].rows) /\ InTurn(remote[k].from, remote[k].rows)
    /\ SeriesInOrder

\* The server has the body among the first k that it stored, or the client
\* dropped it or returned an error for it.
Known(k, w, body) ==
    \/ \E m \in 1 .. k : remote[m].from = w /\ remote[m].rows = body
    \/ Numbers(body) \subseteq dropped \cup refused

\* The samples of a body come behind those of another, or it is known already.
Behind(k, w, body) ==
    \/ Before(remote[k].rows, Samples(body))
    \/ Known(k - 1, w, body)

\* A request that the client gave up on: as long as it is not that of the batch
\* at hand its body is known, and it is behind the bodies that the server has.
Followed ==
    \A r \in inflight :
       /\ Taken(r.rows) /\ InTurn(r.from, r.rows)
       /\ AtHand(r.from, r.rows) \/ Known(Len(remote), r.from, r.rows)
       /\ \A k \in 1 .. Len(remote) :
             remote[k].from = r.from /\ remote[k].rows # r.rows =>
                Behind(k, r.from, r.rows)

Shaped == \A w \in Writer : Shape(appender[w])

IInv == RemoteTypeOK /\ Shaped /\ Owned /\ Counted /\ Accounted /\ Ordered /\ Followed

-----------------------------------------------------------------------------
(* Facts about the definitions *)

LEMMA Sizes ==
    ASSUME RemoteTypeOK
    PROVE  BatchSize \in Nat \ {0} /\ MaxRetries \in Nat \ {0}
BY RemoteAssumption DEF RemoteTypeOK, BatchSize, MaxRetries

\* A set of numbers has a least one.
LEMMA LeastNat ==
    ASSUME NEW T, T \subseteq Nat, T # {}
    PROVE  \E x \in T : \A y \in T : x =< y
<1>1. PICK x \in T : \A y \in T : ~ (<<y, x>> \in OpToRel(<, Nat))
  BY WFMin, NatLessThanWellFounded
<1>2. \A y \in T : ~ (y < x)
  BY <1>1 DEF OpToRel
<1>. QED  BY <1>2

LEMMA RowOfFacts ==
    ASSUME NEW pending \in Seq(Sample), NEW h \in Hashes(pending)
    PROVE  /\ RowOf(pending, h) \in Row
           /\ RowOf(pending, h).samples = OfHash(pending, h)
           /\ OfHash(pending, h) # {}
<1>. DEFINE S == OfHash(pending, h)
<1>1. S \subseteq Sample
  BY DEF OfHash
<1>2. S # {}
  BY DEF OfHash, Hashes
<1>3. {s.n : s \in S} \subseteq Nat /\ {s.n : s \in S} # {}
  BY <1>1, <1>2, RemoteAssumption DEF Sample
<1>4. \E x \in {s.n : s \in S} : \A y \in {s.n : s \in S} : x =< y
  <2>. HIDE DEF S
  <2>. QED  BY <1>3, LeastNat
<1>5. \E s \in S : \A u \in S : s.n =< u.n
  BY <1>4
<1>6. (CHOOSE s \in S : \A u \in S : s.n =< u.n) \in S
  BY <1>5
<1>7. (CHOOSE s \in S : \A u \in S : s.n =< u.n).series \in Series
  BY <1>1, <1>6 DEF Sample
<1>. QED  BY <1>1, <1>2, <1>7 DEF RowOf, Row

LEMMA FunSeq ==
    ASSUME NEW S, NEW n \in Nat, NEW f \in [1 .. n -> S]
    PROVE  f \in Seq(S) /\ Len(f) = n
BY SeqDef

LEMMA PromRowsFacts ==
    ASSUME NEW pending \in Seq(Sample),
           \A j, k \in 1 .. Len(pending) : j < k => pending[j].n < pending[k].n,
           NEW rows \in PromRows(pending)
    PROVE  /\ rows \in Seq(Row)
           /\ RowsApart(rows)
           /\ \A a \in Samples(rows) : \E j \in 1 .. Len(pending) : a = pending[j]
<1>1. \A j \in 1 .. Len(pending) : pending[j] \in Sample
  OBVIOUS
<1>2. rows = [i \in 1 .. Len(pending) |->
                [series |-> pending[i].series, samples |-> {pending[i]}]]
  BY DEF PromRows
<1>3. rows \in [1 .. Len(pending) -> Row]
  BY <1>1, <1>2 DEF Row, Sample
<1>4. rows \in Seq(Row) /\ Len(rows) = Len(pending)
  <2>1. Len(pending) \in Nat
    OBVIOUS
  <2>. QED  BY <1>3, <2>1, FunSeq
<1>5. \A j \in 1 .. Len(rows) : rows[j].samples = {pending[j]}
  BY <1>2, <1>4
<1>6. \A j \in 1 .. Len(rows) : pending[j].n \in Int
  BY <1>1, <1>4, RemoteAssumption DEF Sample
<1>7. RowsApart(rows)
  <2>. SUFFICES ASSUME NEW j \in 1 .. Len(rows), NEW k \in 1 .. Len(rows),
                       NEW a \in rows[j].samples, NEW b \in rows[k].samples
                PROVE  /\ a.n = b.n => j = k
                       /\ j < k /\ a.series = b.series => a.n < b.n
    BY DEF RowsApart
  <2>1. a = pending[j] /\ b = pending[k]
    BY <1>5
  <2>2. pending[j].n \in Int /\ pending[k].n \in Int
    BY <1>6
  <2>3. j < k => pending[j].n < pending[k].n
    BY <1>4
  <2>4. k < j => pending[k].n < pending[j].n
    BY <1>4
  <2>. QED  BY <2>1, <2>2, <2>3, <2>4
<1>8. \A a \in Samples(rows) : \E j \in 1 .. Len(pending) : a = pending[j]
  BY <1>4, <1>5 DEF Samples
<1>. QED  BY <1>4, <1>7, <1>8

LEMMA VMRowsFacts ==
    ASSUME NEW pending \in Seq(Sample),
           \A j, k \in 1 .. Len(pending) : j < k => pending[j].n < pending[k].n,
           NEW rows \in VMRows(pending)
    PROVE  /\ rows \in Seq(Row)
           /\ RowsApart(rows)
           /\ \A a \in Samples(rows) : \E j \in 1 .. Len(pending) : a = pending[j]
<1>. DEFINE group == {RowOf(pending, h) : h \in Hashes(pending)}
<1>1. \A j \in 1 .. Len(pending) : pending[j] \in Sample /\ pending[j].n \in Int
  <2>1. \A j \in 1 .. Len(pending) : pending[j] \in Sample
    OBVIOUS
  <2>. QED  BY <2>1, RemoteAssumption DEF Sample
<1>2. group \subseteq Row
  BY RowOfFacts
<1>3. IsFiniteSet(group)
  <2>1. IsFiniteSet(1 .. Len(pending))
    BY FS_Interval
  <2>. DEFINE hash == [i \in 1 .. Len(pending) |-> HashOf[pending[i].series]]
              row == [h \in Hashes(pending) |-> RowOf(pending, h)]
  <2>2. hash \in Surjection(1 .. Len(pending), Hashes(pending))
    BY DEF Hashes, Surjection
  <2>3. row \in Surjection(Hashes(pending), group)
    BY DEF Surjection
  <2>. HIDE DEF hash, row, group
  <2>4. IsFiniteSet(Hashes(pending))
    BY <2>1, <2>2, FS_Surjection
  <2>. QED  BY <2>3, <2>4, FS_Surjection
<1>4. Cardinality(group) \in Nat
  BY <1>3, FS_CardinalityType
<1>5. /\ rows \in [1 .. Cardinality(group) -> group]
      /\ \A j, k \in 1 .. Cardinality(group) : rows[j] = rows[k] => j = k
  BY DEF VMRows, Bijection, Injection, IsInjective
<1>. HIDE DEF group
<1>6. rows \in Seq(Row) /\ Len(rows) = Cardinality(group)
  <2>1. rows \in [1 .. Cardinality(group) -> Row]
    BY <1>2, <1>5
  <2>. QED  BY <1>4, <2>1, FunSeq
<1>7. \A j \in 1 .. Len(rows) : \E h \in Hashes(pending) :
         rows[j] = RowOf(pending, h) /\ rows[j].samples = OfHash(pending, h)
  <2>. SUFFICES ASSUME NEW j \in 1 .. Len(rows)
                PROVE  \E h \in Hashes(pending) :
                         rows[j] = RowOf(pending, h) /\ rows[j].samples = OfHash(pending, h)
    OBVIOUS
  <2>1. rows[j] \in group
    BY <1>5, <1>6
  <2>2. PICK h \in Hashes(pending) : rows[j] = RowOf(pending, h)
    BY <2>1 DEF group
  <2>. QED  BY <2>2, RowOfFacts
<1>8. RowsApart(rows)
  <2>. SUFFICES ASSUME NEW j \in 1 .. Len(rows), NEW k \in 1 .. Len(rows),
                       NEW a \in rows[j].samples, NEW b \in rows[k].samples
                PROVE  /\ a.n = b.n => j = k
                       /\ j < k /\ a.series = b.series => a.n < b.n
    BY DEF RowsApart
  <2>1. PICK g \in Hashes(pending) :
           rows[j] = RowOf(pending, g) /\ rows[j].samples = OfHash(pending, g)
    BY <1>7
  <2>2. PICK h \in Hashes(pending) :
           rows[k] = RowOf(pending, h) /\ rows[k].samples = OfHash(pending, h)
    BY <1>7
  <2>3. PICK x \in 1 .. Len(pending) : a = pending[x] /\ HashOf[pending[x].series] = g
    BY <2>1 DEF OfHash
  <2>4. PICK y \in 1 .. Len(pending) : b = pending[y] /\ HashOf[pending[y].series] = h
    BY <2>2 DEF OfHash
  <2>5. g = h => j = k
    BY <1>5, <1>6, <2>1, <2>2
  <2>6. x < y => pending[x].n < pending[y].n
    OBVIOUS
  <2>7. y < x => pending[y].n < pending[x].n
    OBVIOUS
  <2>8. a.n = b.n => x = y
    BY <1>1, <2>3, <2>4, <2>6, <2>7
  <2>9. a.n = b.n => j = k
    BY <2>3, <2>4, <2>5, <2>8
  <2>10. a.series = b.series => j = k
    BY <2>3, <2>4, <2>5
  <2>. QED  BY <2>9, <2>10
<1>9. \A a \in Samples(rows) : \E j \in 1 .. Len(pending) : a = pending[j]
  BY <1>7 DEF Samples, OfHash
<1>. QED  BY <1>6, <1>8, <1>9

LEMMA RowOrdersFacts ==
    ASSUME NEW pending \in Seq(Sample),
           \A j, k \in 1 .. Len(pending) : j < k => pending[j].n < pending[k].n,
           NEW rows \in RowOrders(pending)
    PROVE  /\ rows \in Seq(Row)
           /\ RowsApart(rows)
           /\ \A a \in Samples(rows) : \E j \in 1 .. Len(pending) : a = pending[j]
<1>1. CASE rows \in PromRows(pending)
  BY <1>1, PromRowsFacts
<1>2. CASE rows \in VMRows(pending)
  BY <1>2, VMRowsFacts
<1>. QED  BY <1>1, <1>2 DEF RowOrders

\* The batch at hand.
LEMMA BodyFacts ==
    ASSUME RemoteTypeOK, NEW w \in Writer, Sending(w)
    PROVE  /\ Body(w) \in Seq(Row)
           /\ \A a : a \in Samples(Body(w)) <=>
                 \E j \in 1 .. Len(appender[w].rows) :
                    /\ appender[w].i < j /\ j =< appender[w].i + BatchSize
                    /\ a \in appender[w].rows[j].samples
<1>. DEFINE rows == appender[w].rows
            from == appender[w].i
            end == BatchEnd(w)
<1>1. rows \in Seq(Row) /\ Len(rows) \in Nat /\ from \in Nat /\ from < Len(rows)
  BY DEF RemoteTypeOK, AppenderState, Sending
<1>2. BatchSize \in Nat \ {0}
  BY Sizes
<1>3. /\ end \in Nat /\ from < end /\ end =< Len(rows)
      /\ end = IF from + BatchSize > Len(rows) THEN Len(rows) ELSE from + BatchSize
  BY <1>1, <1>2 DEF BatchEnd
<1>4. Body(w) = SubSeq(rows, from + 1, end)
  BY DEF Body
<1>. HIDE DEF rows, from, end
<1>5. /\ Body(w) \in Seq(Row)
      /\ Len(Body(w)) = end - from
      /\ \A k \in 1 .. end - from : Body(w)[k] = rows[from + k]
  BY <1>1, <1>3, <1>4
<1>6. ASSUME NEW a
      PROVE  a \in Samples(Body(w)) <=>
                \E j \in 1 .. Len(rows) :
                   from < j /\ j =< from + BatchSize /\ a \in rows[j].samples
  <2>1. a \in Samples(Body(w)) <=>
           \E k \in 1 .. end - from : a \in rows[from + k].samples
    BY <1>5 DEF Samples
  <2>2. ASSUME NEW k \in 1 .. end - from, a \in rows[from + k].samples
        PROVE  \E j \in 1 .. Len(rows) :
                  from < j /\ j =< from + BatchSize /\ a \in rows[j].samples
    <3>1. from + k \in 1 .. Len(rows) /\ from < from + k /\ from + k =< from + BatchSize
      BY <1>1, <1>2, <1>3
    <3>. QED  BY <2>2, <3>1
  <2>3. ASSUME NEW j \in 1 .. Len(rows), from < j, j =< from + BatchSize,
               a \in rows[j].samples
        PROVE  \E k \in 1 .. end - from : a \in rows[from + k].samples
    <3>1. j - from \in 1 .. end - from /\ from + (j - from) = j
      BY <1>1, <1>2, <1>3, <2>3
    <3>. QED  BY <2>3, <3>1
  <2>. QED  BY <2>1, <2>2, <2>3
<1>. QED  BY <1>5, <1>6 DEF rows, from

-----------------------------------------------------------------------------
(* Type correctness *)

\* Commit leaves rows of samples that were pending.
LEMMA CommitFacts ==
    ASSUME RemoteTypeOK, Shaped, NEW w \in Writer, appender[w].pc = "open",
           NEW rows \in RowOrders(appender[w].pending)
    PROVE  /\ rows \in Seq(Row)
           /\ RowsApart(rows)
           /\ \A a \in Samples(rows) : a \in LiveOf(appender[w])
<1>1. appender[w].pending \in Seq(Sample)
  BY DEF RemoteTypeOK, AppenderState
<1>2. \A j, k \in 1 .. Len(appender[w].pending) :
         j < k => appender[w].pending[j].n < appender[w].pending[k].n
  BY DEF Shaped, Shape
<1>3. /\ rows \in Seq(Row)
      /\ RowsApart(rows)
      /\ \A a \in Samples(rows) : \E j \in 1 .. Len(appender[w].pending) :
            a = appender[w].pending[j]
  BY <1>1, <1>2, RowOrdersFacts
<1>. QED  BY <1>3 DEF LiveOf

\* One field of an appender's state changes.
LEMMA FieldSet ==
    ASSUME NEW r \in AppenderState
    PROVE  /\ \A v \in {"open", "send", "ok", "err"} : [r EXCEPT !.pc = v] \in AppenderState
           /\ [r EXCEPT !.pending = << >>] \in AppenderState
           /\ [r EXCEPT !.attempt = @ + 1] \in AppenderState
<1>1. << >> \in Seq(Sample) /\ r.attempt + 1 \in Nat
  BY DEF AppenderState
<1>. QED  BY <1>1 DEF AppenderState

\* A stored body.
LEMMA StoredType ==
    ASSUME RemoteTypeOK, NEW w \in Writer, NEW rows \in Seq(Row), NEW late \in BOOLEAN,
           Stored(w, rows, late)
    PROVE  /\ remote' \in Seq([from : Writer, rows : Seq(Row), late : BOOLEAN])
           /\ Len(remote) \in Nat /\ Len(remote') = Len(remote) + 1
           /\ \A k \in 1 .. Len(remote) : remote'[k] = remote[k]
           /\ remote'[Len(remote) + 1] = [from |-> w, rows |-> rows, late |-> late]
<1>. DEFINE Bodies == [from : Writer, rows : Seq(Row), late : BOOLEAN]
            new == [from |-> w, rows |-> rows, late |-> late]
<1>1. remote \in Seq(Bodies) /\ remote' = Append(remote, new)
  BY DEF RemoteTypeOK, Stored
<1>2. new \in Bodies
  OBVIOUS
<1>3. /\ remote' \in Seq(Bodies)
      /\ Len(remote) \in Nat /\ Len(remote') = Len(remote) + 1
      /\ \A k \in 1 .. Len(remote) : remote'[k] = remote[k]
      /\ remote'[Len(remote) + 1] = new
  <2>. HIDE DEF Bodies, new
  <2>. QED  BY <1>1, <1>2
<1>. QED  BY <1>3

LEMMA TypeStep == RemoteTypeOK /\ Shaped /\ [Next]_vars => RemoteTypeOK'
<1>. SUFFICES ASSUME RemoteTypeOK, Shaped, [Next]_vars
              PROVE  RemoteTypeOK'
  OBVIOUS
<1>1. CASE UNCHANGED vars
  BY <1>1 DEF vars, serverVars, RemoteTypeOK
<1>0. CASE Arrive
  <2>1. PICK r \in inflight :
           /\ inflight' = inflight \ {r}
           /\ Stored(r.from, r.rows, TRUE)
           /\ UNCHANGED <<cfg, appender, appended, posts, dropped, refused>>
    BY <1>0 DEF Arrive
  <2>2. r.from \in Writer /\ r.rows \in Seq(Row)
    BY DEF RemoteTypeOK
  <2>3. remote' \in Seq([from : Writer, rows : Seq(Row), late : BOOLEAN])
    BY <2>1, <2>2, StoredType DEF Stored
  <2>. QED  BY <2>1, <2>3 DEF RemoteTypeOK
<1>. SUFFICES ASSUME NEW w \in Writer,
                     \/ Appender(w) \/ AppendSample(w) \/ Rollback(w) \/ Commit(w)
                     \/ send(w)
              PROVE  RemoteTypeOK'
  BY <1>0, <1>1 DEF Next
<1>2. /\ appender[w] \in AppenderState
      /\ appender \in [Writer -> AppenderState]
      /\ BatchSize \in Nat \ {0}
  BY Sizes DEF RemoteTypeOK
<1>3. \A r \in AppenderState : [appender EXCEPT ![w] = r] \in [Writer -> AppenderState]
  BY <1>2
<1>4. CASE Appender(w)
  <2>1. NewAppender \in AppenderState
    BY DEF NewAppender, AppenderState
  <2>. QED  BY <1>3, <1>4, <2>1 DEF Appender, RemoteTypeOK, serverVars
<1>5. CASE AppendSample(w)
  <2>1. PICK s \in Series :
           appender' = [appender EXCEPT ![w].pending =
                           Append(@, [n |-> appended + 1, series |-> s])]
    BY <1>5 DEF AppendSample
  <2>2. appended' \in 0 .. MaxSamples /\ [n |-> appended + 1, series |-> s] \in Sample
    BY <1>5, RemoteAssumption DEF AppendSample, RemoteTypeOK, serverVars, Sample
  <2>3. Append(appender[w].pending, [n |-> appended + 1, series |-> s]) \in Seq(Sample)
    BY <1>2, <2>2 DEF AppenderState
  <2>4. appender' \in [Writer -> AppenderState]
    BY <1>2, <2>1, <2>3 DEF AppenderState
  <2>. QED  BY <1>5, <2>2, <2>4 DEF AppendSample, RemoteTypeOK, serverVars
<1>6. CASE Rollback(w)
  <2>1. appender' \in [Writer -> AppenderState]
    BY <1>2, <1>3, <1>6, FieldSet DEF Rollback
  <2>. QED  BY <1>6, <2>1 DEF Rollback, RemoteTypeOK, serverVars
<1>7. CASE Commit(w)
  <2>1. appender' \in [Writer -> AppenderState]
    <3>1. CASE appender[w].pending = << >>
      BY <1>2, <1>3, <1>7, <3>1, FieldSet DEF Commit
    <3>2. CASE appender[w].pending # << >>
      <4>1. PICK rows \in RowOrders(appender[w].pending) :
               appender' = [appender EXCEPT ![w] =
                  [pc |-> "send", pending |-> << >>, rows |-> rows, i |-> 0, attempt |-> 0]]
        BY <1>7, <3>2 DEF Commit, serverVars
      <4>2. rows \in Seq(Row)
        BY <1>7, CommitFacts DEF Commit
      <4>3. [pc |-> "send", pending |-> << >>, rows |-> rows, i |-> 0, attempt |-> 0]
               \in AppenderState
        BY <4>2 DEF AppenderState
      <4>. QED  BY <1>3, <4>1, <4>3
    <3>. QED  BY <3>1, <3>2
  <2>. QED  BY <1>7, <2>1 DEF Commit, RemoteTypeOK, serverVars
<1>8. CASE send(w)
  <2>1. NextBatch(w) => appender' \in [Writer -> AppenderState]
    BY <1>2 DEF NextBatch, AppenderState
  <2>2. appender' \in [Writer -> AppenderState]
    BY <1>2, <1>3, <1>8, <2>1, FieldSet
    DEF send, PostOK, PostTransient, PostRejected, SendFails, SendErr, Drop, CommitReturn
  <2>3. Post(w) => posts' \in [1 .. MaxSamples -> Nat]
    BY RemoteAssumption DEF Post, RemoteTypeOK
  <2>4. posts' \in [1 .. MaxSamples -> Nat]
    BY <1>8, <2>3
    DEF send, PostOK, PostTransient, PostRejected, SendFails, SendErr, Drop, CommitReturn,
        serverVars, RemoteTypeOK
  <2>5. Sending(w) => Body(w) \in Seq(Row)
    BY BodyFacts
  <2>6. Sending(w) /\ Stored(w, Body(w), FALSE) =>
           remote' \in Seq([from : Writer, rows : Seq(Row), late : BOOLEAN])
    BY <2>5, StoredType DEF Stored
  <2>7. remote' \in Seq([from : Writer, rows : Seq(Row), late : BOOLEAN])
    BY <1>8, <2>6
    DEF send, PostOK, PostTransient, PostRejected, SendFails, SendErr, Drop, CommitReturn,
        serverVars, RemoteTypeOK
  <2>8. Sending(w) => Numbers(Body(w)) \subseteq 1 .. MaxSamples
    <3>. SUFFICES ASSUME Sending(w), NEW s \in Samples(Body(w))
                  PROVE  s.n \in 1 .. MaxSamples
      BY DEF Numbers
    <3>1. PICK k \in 1 .. Len(Body(w)) : s \in Body(w)[k].samples
      BY DEF Samples
    <3>2. Body(w)[k] \in Row
      BY <2>5
    <3>. QED  BY <3>1, <3>2 DEF Row, Sample
  <2>9. dropped' \subseteq 1 .. MaxSamples
    BY <1>8, <2>8
    DEF send, PostOK, PostTransient, PostRejected, SendFails, SendErr, Drop, CommitReturn,
        serverVars, RemoteTypeOK
  <2>11. refused' \subseteq 1 .. MaxSamples
    BY <1>8, <2>8
    DEF send, PostOK, PostTransient, PostRejected, SendFails, SendErr, Drop, CommitReturn,
        serverVars, RemoteTypeOK
  <2>12. inflight' \subseteq [from : Writer, rows : Seq(Row), attempt : Nat]
    <3>1. appender[w].attempt \in Nat
      BY <1>2 DEF AppenderState
    <3>2. CASE PostTransient(w)
      <4>1. [from |-> w, rows |-> Body(w), attempt |-> appender[w].attempt]
               \in [from : Writer, rows : Seq(Row), attempt : Nat]
        BY <2>5, <3>1, <3>2 DEF PostTransient
      <4>. QED  BY <3>2, <4>1 DEF PostTransient, RemoteTypeOK
    <3>3. CASE ~ PostTransient(w)
      BY <1>8, <3>3
      DEF send, PostOK, PostRejected, SendFails, Drop, CommitReturn, serverVars, RemoteTypeOK
    <3>. QED  BY <3>2, <3>3
  <2>10. cfg' = cfg /\ appended' = appended
    BY <1>8 DEF send, PostOK, PostTransient, PostRejected, SendFails, SendErr, Drop, CommitReturn
  <2>. QED  BY <2>2, <2>4, <2>7, <2>9, <2>10, <2>11, <2>12 DEF RemoteTypeOK
<1>. QED  BY <1>4, <1>5, <1>6, <1>7, <1>8

-----------------------------------------------------------------------------
(* What a step does to the samples that may still be posted *)

\* A step of one appender leaves the others, and the configuration, alone.
LEMMA Others ==
    ASSUME RemoteTypeOK, NEW w \in Writer,
           \/ Appender(w) \/ AppendSample(w) \/ Rollback(w) \/ Commit(w) \/ send(w)
    PROVE  /\ \A v \in Writer : v # w => appender'[v] = appender[v]
           /\ BatchSize' = BatchSize /\ MaxRetries' = MaxRetries
<1>1. cfg' = cfg
  BY DEF Appender, AppendSample, Rollback, Commit, send, PostOK, PostTransient,
         PostRejected, SendFails, SendErr, Drop, CommitReturn
<1>2. \A v \in Writer : v # w => appender'[v] = appender[v]
  BY DEF Appender, AppendSample, Rollback, Commit, send, PostOK, PostTransient,
         PostRejected, SendFails, SendErr, Drop, CommitReturn, NextBatch, RemoteTypeOK
<1>. QED  BY <1>1, <1>2 DEF BatchSize, MaxRetries

\* The fields of an appender after a step of send.
LEMMA SendFields ==
    ASSUME RemoteTypeOK, NEW w \in Writer, send(w)
    PROVE  /\ appender[w].pc = "send"
           /\ appender'[w].rows = appender[w].rows
           /\ appender'[w].pending = appender[w].pending
           /\ PostOK(w) \/ Drop(w) =>
                 /\ appender'[w].pc = "send" /\ appender'[w].attempt = 0
                 /\ appender'[w].i = appender[w].i + BatchSize
           /\ PostTransient(w) =>
                 /\ appender'[w].pc = "send" /\ appender'[w].i = appender[w].i
                 /\ appender'[w].attempt = appender[w].attempt + 1
           /\ SendErr(w) => appender'[w].pc = "err"
           /\ CommitReturn(w) => appender'[w].pc = "ok"
<1>1. appender \in [Writer -> AppenderState] /\ appender[w] \in AppenderState
  BY DEF RemoteTypeOK
<1>2. appender[w].pc = "send"
  BY DEF send, PostOK, PostTransient, PostRejected, SendFails, SendErr, Drop, CommitReturn, Sending
<1>3. CASE PostOK(w) \/ Drop(w)
  <2>1. NextBatch(w)
    BY <1>3 DEF PostOK, Drop
  <2>2. appender'[w] = [pc |-> "send", pending |-> appender[w].pending,
                        rows |-> appender[w].rows,
                        i |-> appender[w].i + BatchSize, attempt |-> 0]
    BY <1>1, <2>1 DEF NextBatch
  <2>3. ~ PostTransient(w) /\ ~ SendErr(w) /\ ~ CommitReturn(w)
    <3>1. appender[w].i \in Nat /\ Len(appender[w].rows) \in Nat /\ appender[w].attempt \in Nat
      BY <1>1 DEF AppenderState
    <3>2. BatchSize \in Nat \ {0}
      BY Sizes
    <3>3. appender[w].i < Len(appender[w].rows)
      BY <1>3 DEF PostOK, Drop, Sending
    <3>4. ~ CommitReturn(w)
      BY <3>1, <3>3 DEF CommitReturn
    <3>5. PostTransient(w) => appender'[w].i = appender[w].i
      BY <1>1 DEF PostTransient, AppenderState
    <3>6. SendErr(w) => appender'[w].i = appender[w].i
      BY <1>1 DEF SendErr, AppenderState
    <3>7. appender'[w].i # appender[w].i
      BY <2>2, <3>1, <3>2
    <3>. QED  BY <3>4, <3>5, <3>6, <3>7
  <2>. QED  BY <1>2, <2>2, <2>3
<1>4. CASE PostTransient(w) /\ ~ (PostOK(w) \/ Drop(w))
  <2>1. appender'[w] = [appender[w] EXCEPT !.attempt = @ + 1]
    BY <1>1, <1>4 DEF PostTransient
  <2>2. ~ CommitReturn(w) /\ ~ SendErr(w)
    <3>1. appender'[w].pc = "send"
      BY <1>1, <1>2, <2>1 DEF AppenderState
    <3>. QED  BY <1>1, <3>1 DEF CommitReturn, SendErr, AppenderState
  <2>. QED  BY <1>1, <1>2, <1>4, <2>1, <2>2 DEF AppenderState
<1>5. CASE SendErr(w) /\ ~ (PostOK(w) \/ Drop(w) \/ PostTransient(w))
  <2>1. appender'[w] = [appender[w] EXCEPT !.pc = "err"]
    BY <1>1, <1>5 DEF SendErr
  <2>2. ~ CommitReturn(w)
    <3>1. appender'[w].pc = "err"
      BY <1>1, <2>1 DEF AppenderState
    <3>. QED  BY <1>1, <3>1 DEF CommitReturn, AppenderState
  <2>. QED  BY <1>1, <1>2, <1>5, <2>1, <2>2 DEF AppenderState
<1>6. CASE CommitReturn(w) /\ ~ (PostOK(w) \/ Drop(w) \/ PostTransient(w) \/ SendErr(w))
  <2>1. appender'[w] = [appender[w] EXCEPT !.pc = "ok"]
    BY <1>1, <1>6 DEF CommitReturn
  <2>. QED  BY <1>1, <1>2, <1>6, <2>1 DEF AppenderState
<1>. QED  BY <1>3, <1>4, <1>5, <1>6 DEF send, PostRejected, SendFails

\* AppendSample adds one sample, with the next number.
LEMMA AppendFacts ==
    ASSUME RemoteTypeOK, NEW w \in Writer, AppendSample(w)
    PROVE  \E s \in Series :
              LET new == [n |-> appended + 1, series |-> s]
              IN  /\ appender'[w].pc = "open"
                  /\ appender'[w].rows = appender[w].rows
                  /\ appender'[w].pending = Append(appender[w].pending, new)
                  /\ LiveOf(appender'[w]) = LiveOf(appender[w]) \cup {new}
<1>1. PICK s \in Series :
         appender' = [appender EXCEPT ![w].pending =
                         Append(@, [n |-> appended + 1, series |-> s])]
  BY DEF AppendSample
<1>. DEFINE new == [n |-> appended + 1, series |-> s]
            old == appender[w].pending
<1>2. appender[w] \in AppenderState /\ appender \in [Writer -> AppenderState]
  BY DEF RemoteTypeOK
<1>3. appender'[w] = [appender[w] EXCEPT !.pending = Append(old, new)]
  BY <1>1, <1>2
<1>4. /\ appender'[w].pc = "open" /\ appender[w].pc = "open"
      /\ appender'[w].rows = appender[w].rows
      /\ appender'[w].pending = Append(old, new)
  BY <1>2, <1>3 DEF AppenderState, AppendSample
<1>5. old \in Seq(Sample) /\ new \in Sample
  <2>1. old \in Seq(Sample)
    BY <1>2 DEF AppenderState
  <2>2. appended + 1 \in 1 .. MaxSamples
    BY RemoteAssumption DEF AppendSample, RemoteTypeOK
  <2>3. new \in Sample
    BY <2>2 DEF Sample
  <2>. QED  BY <2>1, <2>3
<1>6. LiveOf(appender[w]) = {old[j] : j \in 1 .. Len(old)}
  BY <1>4 DEF LiveOf
<1>7. LiveOf(appender'[w]) = {Append(old, new)[j] : j \in 1 .. Len(Append(old, new))}
  BY <1>4 DEF LiveOf
<1>. HIDE DEF new, old
<1>8. /\ Len(Append(old, new)) = Len(old) + 1 /\ Len(old) \in Nat
      /\ \A j \in 1 .. Len(old) : Append(old, new)[j] = old[j]
      /\ Append(old, new)[Len(old) + 1] = new
  BY <1>5
<1>9. 1 .. Len(old) + 1 = (1 .. Len(old)) \cup {Len(old) + 1}
  BY <1>8
<1>10. {Append(old, new)[j] : j \in 1 .. Len(Append(old, new))}
          = {old[j] : j \in 1 .. Len(old)} \cup {new}
  BY <1>8, <1>9
<1>11. LiveOf(appender'[w]) = LiveOf(appender[w]) \cup {new}
  BY <1>6, <1>7, <1>10
<1>. QED  BY <1>4, <1>11 DEF new, old

\* No other step adds one.
LEMMA LiveShrinks ==
    ASSUME RemoteTypeOK, Shaped, NEW w \in Writer,
           Appender(w) \/ Rollback(w) \/ Commit(w) \/ send(w)
    PROVE  /\ LiveOf(appender'[w]) \subseteq LiveOf(appender[w])
           /\ appended' = appended
<1>1. appended' = appended
  BY DEF Appender, Rollback, Commit, send, PostOK, PostTransient, PostRejected, SendFails, SendErr, Drop,
         CommitReturn
<1>2. appender[w] \in AppenderState /\ appender \in [Writer -> AppenderState]
  BY DEF RemoteTypeOK
<1>3. CASE Appender(w)
  <2>1. appender'[w] = NewAppender
    BY <1>2, <1>3 DEF Appender
  <2>2. LiveOf(appender'[w]) = {}
    BY <2>1 DEF LiveOf, NewAppender
  <2>. QED  BY <1>1, <2>2
<1>4. CASE Rollback(w)
  <2>1. appender'[w].pending = << >> /\ appender'[w].pc \in {"open", "err"}
    BY <1>2, <1>4 DEF Rollback, AppenderState
  <2>2. LiveOf(appender'[w]) = {}
    BY <2>1 DEF LiveOf
  <2>. QED  BY <1>1, <2>2
<1>5. CASE Commit(w)
  <2>1. CASE appender[w].pending = << >>
    <3>1. appender'[w].pc = "ok"
      BY <1>2, <1>5, <2>1 DEF Commit, AppenderState
    <3>. QED  BY <1>1, <3>1 DEF LiveOf
  <2>2. CASE appender[w].pending # << >>
    <3>1. PICK rows \in RowOrders(appender[w].pending) :
             appender' = [appender EXCEPT ![w] =
                [pc |-> "send", pending |-> << >>, rows |-> rows, i |-> 0, attempt |-> 0]]
      BY <1>5, <2>2 DEF Commit
    <3>2. \A a \in Samples(rows) : a \in LiveOf(appender[w])
      BY <1>5, CommitFacts DEF Commit
    <3>3. appender'[w].pc = "send" /\ appender'[w].rows = rows
      BY <1>2, <3>1
    <3>4. LiveOf(appender'[w]) \subseteq Samples(rows)
      BY <3>3 DEF LiveOf, Samples
    <3>. QED  BY <1>1, <3>2, <3>4
  <2>. QED  BY <2>1, <2>2
<1>6. CASE send(w)
  <2>1. appender[w].pc = "send" /\ appender'[w].rows = appender[w].rows
    BY <1>6, SendFields
  <2>2. appender'[w].pc = "send" =>
           appender'[w].i \in Nat /\ appender[w].i =< appender'[w].i
    <3>1. appender[w].i \in Nat /\ BatchSize \in Nat
      BY <1>2, Sizes DEF AppenderState
    <3>. QED  BY <1>6, <3>1, SendFields DEF send, PostRejected, SendFails
  <2>3. appender'[w].pc \in {"send", "ok", "err"}
    BY <1>6, SendFields DEF send, PostRejected, SendFails
  <2>4. CASE appender'[w].pc = "send"
    <3>1. appender[w].i \in Nat /\ Len(appender[w].rows) \in Nat
      BY <1>2 DEF AppenderState
    <3>2. \A j \in 1 .. Len(appender[w].rows) : appender'[w].i < j => appender[w].i < j
      BY <2>2, <2>4, <3>1
    <3>3. LiveOf(appender'[w]) =
             UNION {appender[w].rows[j].samples :
                      j \in {j \in 1 .. Len(appender[w].rows) : appender'[w].i < j}}
      BY <2>1, <2>4 DEF LiveOf
    <3>4. LiveOf(appender[w]) =
             UNION {appender[w].rows[j].samples :
                      j \in {j \in 1 .. Len(appender[w].rows) : appender[w].i < j}}
      BY <2>1 DEF LiveOf
    <3>. QED  BY <1>1, <3>2, <3>3, <3>4
  <2>5. CASE appender'[w].pc # "send"
    BY <1>1, <2>3, <2>5 DEF LiveOf
  <2>. QED  BY <2>4, <2>5
<1>. QED  BY <1>3, <1>4, <1>5, <1>6

-----------------------------------------------------------------------------
(* The parts of the invariant *)

LEMMA ShapedStep ==
    ASSUME RemoteTypeOK, Shaped, Owned, [Next]_vars
    PROVE  Shaped'
<1>1. CASE UNCHANGED vars
  BY <1>1 DEF vars, Shaped
<1>0. CASE Arrive
  BY <1>0 DEF Arrive, Shaped
<1>. SUFFICES ASSUME NEW w \in Writer,
                     \/ Appender(w) \/ AppendSample(w) \/ Rollback(w) \/ Commit(w)
                     \/ send(w)
              PROVE  Shaped'
  BY <1>0, <1>1 DEF Next
<1>2. appender[w] \in AppenderState /\ appender \in [Writer -> AppenderState]
  BY DEF RemoteTypeOK
<1>3. Shape(appender[w])
  BY DEF Shaped
<1>. SUFFICES Shape(appender'[w])
  BY Others DEF Shaped
<1>4. CASE Appender(w)
  <2>1. appender'[w] = NewAppender
    BY <1>2, <1>4 DEF Appender
  <2>. QED  BY <2>1 DEF Shape, NewAppender, RowsApart
<1>5. CASE AppendSample(w)
  <2>. DEFINE old == appender[w].pending
  <2>1. PICK s \in Series :
           /\ appender'[w].pc = "open"
           /\ appender'[w].rows = appender[w].rows
           /\ appender'[w].pending = Append(old, [n |-> appended + 1, series |-> s])
    BY <1>5, AppendFacts
  <2>2. old \in Seq(Sample) /\ appended \in Nat /\ appender[w].pc = "open"
    BY <1>2, <1>5 DEF AppenderState, AppendSample, RemoteTypeOK
  <2>3. \A j \in 1 .. Len(old) : old[j].n =< appended /\ old[j].n \in Int
    <3>1. \A j \in 1 .. Len(old) : old[j] \in LiveOf(appender[w])
      BY <2>2 DEF LiveOf
    <3>2. \A j \in 1 .. Len(old) : old[j] \in Sample
      BY <2>2
    <3>. QED  BY <3>1, <3>2, RemoteAssumption DEF Owned, Sample
  <2>4. \A j, k \in 1 .. Len(old) : j < k => old[j].n < old[k].n
    BY <1>3 DEF Shape
  <2>5. appender'[w].rows = << >> /\ RowsApart(appender'[w].rows)
    BY <1>3, <2>1, <2>2 DEF Shape
  <2>. HIDE DEF old
  <2>. DEFINE new == [n |-> appended + 1, series |-> s]
  <2>6. /\ Len(Append(old, new)) = Len(old) + 1 /\ Len(old) \in Nat
        /\ \A j \in 1 .. Len(old) : Append(old, new)[j] = old[j]
        /\ Append(old, new)[Len(old) + 1] = new
    BY <2>2
  <2>7. new.n = appended + 1
    OBVIOUS
  <2>8. \A j, k \in 1 .. Len(Append(old, new)) :
           j < k => Append(old, new)[j].n < Append(old, new)[k].n
    <3>. SUFFICES ASSUME NEW j \in 1 .. Len(old) + 1, NEW k \in 1 .. Len(old) + 1, j < k
                  PROVE  Append(old, new)[j].n < Append(old, new)[k].n
      BY <2>6
    <3>1. j \in 1 .. Len(old)
      BY <2>6
    <3>. HIDE DEF new
    <3>2. CASE k \in 1 .. Len(old)
      BY <2>4, <2>6, <3>1, <3>2
    <3>3. CASE k = Len(old) + 1
      BY <2>2, <2>3, <2>6, <2>7, <3>1, <3>3
    <3>. QED  BY <2>6, <3>2, <3>3
  <2>. QED  BY <2>1, <2>5, <2>8 DEF Shape
<1>6. CASE Rollback(w)
  <2>1. /\ appender'[w].pending = << >> /\ appender'[w].pc = appender[w].pc
        /\ appender'[w].rows = appender[w].rows
    BY <1>2, <1>6 DEF Rollback, AppenderState
  <2>. QED  BY <1>3, <2>1 DEF Shape
<1>7. CASE Commit(w)
  <2>1. CASE appender[w].pending = << >>
    <3>1. /\ appender'[w].pending = << >> /\ appender'[w].pc = "ok"
          /\ appender'[w].rows = appender[w].rows
      BY <1>2, <1>7, <2>1 DEF Commit, AppenderState
    <3>. QED  BY <1>3, <3>1 DEF Shape
  <2>2. CASE appender[w].pending # << >>
    <3>1. PICK rows \in RowOrders(appender[w].pending) :
             appender' = [appender EXCEPT ![w] =
                [pc |-> "send", pending |-> << >>, rows |-> rows, i |-> 0, attempt |-> 0]]
      BY <1>7, <2>2 DEF Commit
    <3>2. RowsApart(rows)
      BY <1>7, CommitFacts DEF Commit
    <3>3. /\ appender'[w].pending = << >> /\ appender'[w].pc = "send"
          /\ appender'[w].rows = rows
      BY <1>2, <3>1
    <3>. QED  BY <3>2, <3>3 DEF Shape
  <2>. QED  BY <2>1, <2>2
<1>8. CASE send(w)
  <2>1. /\ appender'[w].pending = appender[w].pending
        /\ appender'[w].rows = appender[w].rows
        /\ appender[w].pc = "send"
        /\ appender'[w].pc # "open"
    BY <1>8, SendFields DEF send, PostRejected, SendFails
  <2>. QED  BY <1>3, <2>1 DEF Shape
<1>. QED  BY <1>4, <1>5, <1>6, <1>7, <1>8

LEMMA OwnedStep ==
    ASSUME RemoteTypeOK, Shaped, Owned, [Next]_vars
    PROVE  Owned'
<1>1. CASE UNCHANGED vars
  BY <1>1 DEF vars, Owned
<1>0. CASE Arrive
  BY <1>0 DEF Arrive, Owned
<1>. SUFFICES ASSUME NEW w \in Writer,
                     \/ Appender(w) \/ AppendSample(w) \/ Rollback(w) \/ Commit(w)
                     \/ send(w)
              PROVE  Owned'
  BY <1>0, <1>1 DEF Next
<1>2. \A v \in Writer : v # w => LiveOf(appender'[v]) = LiveOf(appender[v])
  BY Others
<1>3. CASE Appender(w) \/ Rollback(w) \/ Commit(w) \/ send(w)
  <2>1. LiveOf(appender'[w]) \subseteq LiveOf(appender[w]) /\ appended' = appended
    BY <1>3, LiveShrinks
  <2>2. \A v \in Writer : LiveOf(appender'[v]) \subseteq LiveOf(appender[v])
    BY <1>2, <2>1
  <2>. QED  BY <2>1, <2>2 DEF Owned
<1>4. CASE AppendSample(w)
  <2>1. PICK s \in Series :
           LiveOf(appender'[w]) = LiveOf(appender[w]) \cup {[n |-> appended + 1, series |-> s]}
    BY <1>4, AppendFacts
  <2>2. appended' = appended + 1 /\ appended \in Nat
    BY <1>4 DEF AppendSample, RemoteTypeOK
  <2>3. \A v \in Writer : LiveOf(appender[v]) \subseteq Sample
    <3>. SUFFICES ASSUME NEW v \in Writer PROVE LiveOf(appender[v]) \subseteq Sample
      OBVIOUS
    <3>1. /\ appender[v].pending \in Seq(Sample)
          /\ appender[v].rows \in Seq(Row)
      BY DEF RemoteTypeOK, AppenderState
    <3>2. \A j \in 1 .. Len(appender[v].rows) : appender[v].rows[j] \in Row
      BY <3>1
    <3>3. \A j \in 1 .. Len(appender[v].rows) : appender[v].rows[j].samples \subseteq Sample
      BY <3>2 DEF Row
    <3>4. \A j \in 1 .. Len(appender[v].pending) : appender[v].pending[j] \in Sample
      BY <3>1
    <3>. QED  BY <3>3, <3>4 DEF LiveOf
  <2>4. \A v \in Writer : \A a \in LiveOf(appender[v]) : a.n \in Int /\ a.n =< appended
    BY <2>3, RemoteAssumption DEF Owned, Sample
  <2>5. \A v \in Writer : \A a \in LiveOf(appender'[v]) :
           \/ a \in LiveOf(appender[v])
           \/ v = w /\ a.n = appended + 1
    BY <1>2, <2>1
  <2>6. \A v \in Writer : \A a \in LiveOf(appender'[v]) : a.n =< appended + 1
    BY <2>2, <2>4, <2>5
  <2>7. \A v, u \in Writer : v # u =>
           \A a \in LiveOf(appender'[v]), b \in LiveOf(appender'[u]) : a.n # b.n
    <3>. SUFFICES ASSUME NEW v \in Writer, NEW u \in Writer, v # u,
                         NEW a \in LiveOf(appender'[v]), NEW b \in LiveOf(appender'[u])
                  PROVE  a.n # b.n
      OBVIOUS
    <3>1. CASE a \in LiveOf(appender[v]) /\ b \in LiveOf(appender[u])
      BY <3>1 DEF Owned
    <3>2. CASE v = w /\ a.n = appended + 1 /\ b \in LiveOf(appender[u])
      BY <2>2, <2>4, <3>2
    <3>3. CASE u = w /\ b.n = appended + 1 /\ a \in LiveOf(appender[v])
      BY <2>2, <2>4, <3>3
    <3>. QED  BY <2>5, <3>1, <3>2, <3>3
  <2>. QED  BY <2>2, <2>6, <2>7 DEF Owned
<1>. QED  BY <1>3, <1>4

\* The batch at hand: its samples are live, were posted as often as send
\* tried, and are in no other row and with no other appender.
LEMMA BodyCounts ==
    ASSUME RemoteTypeOK, Shaped, Owned, Counted, NEW w \in Writer, Sending(w)
    PROVE  /\ Samples(Body(w)) \subseteq LiveOf(appender[w])
           /\ \A n \in Numbers(Body(w)) :
                 posts[n] = appender[w].attempt /\ n =< appended
           /\ \A j \in 1 .. Len(appender[w].rows) : appender[w].i < j =>
                 \A a \in appender[w].rows[j].samples :
                    a.n \in Numbers(Body(w)) <=> j =< appender[w].i + BatchSize
           /\ \A v \in Writer : v # w =>
                 \A b \in LiveOf(appender[v]) : b.n \notin Numbers(Body(w))
<1>. DEFINE rows == appender[w].rows
            from == appender[w].i
<1>1. \A a : a \in Samples(Body(w)) <=>
         \E j \in 1 .. Len(rows) :
            from < j /\ j =< from + BatchSize /\ a \in rows[j].samples
  BY BodyFacts
<1>2. appender[w].pc = "send"
  BY DEF Sending
<1>3. Samples(Body(w)) \subseteq LiveOf(appender[w])
  BY <1>1, <1>2 DEF LiveOf
<1>4. ASSUME NEW n \in Numbers(Body(w))
      PROVE  posts[n] = appender[w].attempt /\ n =< appended
  <2>1. PICK a \in Samples(Body(w)) : n = a.n
    BY <1>4 DEF Numbers
  <2>2. n =< appended
    BY <1>3, <2>1 DEF Owned
  <2>3. PICK j \in 1 .. Len(rows) : from < j /\ j =< from + BatchSize /\ a \in rows[j].samples
    BY <1>1
  <2>4. Counts(appender[w], posts, BatchSize, MaxRetries)
    BY DEF Counted
  <2>. QED  BY <1>2, <2>1, <2>2, <2>3, <2>4 DEF Counts
<1>5. ASSUME NEW j \in 1 .. Len(rows), from < j, NEW a \in rows[j].samples
      PROVE  a.n \in Numbers(Body(w)) <=> j =< from + BatchSize
  <2>1. j =< from + BatchSize => a.n \in Numbers(Body(w))
    BY <1>1, <1>5 DEF Numbers
  <2>2. ASSUME a.n \in Numbers(Body(w))
        PROVE  j =< from + BatchSize
    <3>1. PICK b \in Samples(Body(w)) : b.n = a.n
      BY <2>2 DEF Numbers
    <3>2. PICK k \in 1 .. Len(rows) : from < k /\ k =< from + BatchSize /\ b \in rows[k].samples
      BY <1>1
    <3>3. RowsApart(rows)
      BY DEF Shaped, Shape
    <3>4. j = k
      BY <3>1, <3>2, <3>3 DEF RowsApart
    <3>. QED  BY <3>2, <3>4
  <2>. QED  BY <2>1, <2>2
<1>6. \A v \in Writer : v # w =>
         \A b \in LiveOf(appender[v]) : b.n \notin Numbers(Body(w))
  BY <1>3 DEF Owned, Numbers
<1>. QED  BY <1>3, <1>4, <1>5, <1>6

\* A request is sent while an attempt is left, and the batch is given up when
\* none is.
LEMMA PostSteps ==
    ASSUME NEW w \in Writer, send(w)
    PROVE  /\ PostOK(w) \/ PostTransient(w) \/ PostRejected(w) =>
                 /\ Sending(w) /\ appender[w].attempt < MaxRetries /\ Post(w)
                 /\ dropped' = dropped
           /\ Drop(w) =>
                 /\ Sending(w) /\ appender[w].attempt = MaxRetries /\ posts' = posts
                 /\ dropped' = dropped \cup Numbers(Body(w))
           /\ SendFails(w) \/ CommitReturn(w) => posts' = posts /\ dropped' = dropped
           /\ appended' = appended
BY DEF serverVars, send, PostOK, PostTransient, PostRejected, SendFails, SendErr, Drop, CommitReturn

LEMMA Typed ==
    ASSUME RemoteTypeOK, NEW w \in Writer
    PROVE  /\ appender[w] \in AppenderState /\ appender[w].attempt \in Nat
           /\ MaxRetries \in Nat /\ BatchSize \in Nat /\ appended \in Nat
           /\ posts \in [1 .. MaxSamples -> Nat] /\ dropped \subseteq 1 .. MaxSamples
           /\ MaxSamples \in Nat
<1>1. appender[w] \in AppenderState
  BY DEF RemoteTypeOK
<1>2. appender[w].attempt \in Nat
  BY <1>1 DEF AppenderState
<1>3. MaxRetries \in Nat /\ BatchSize \in Nat
  BY Sizes DEF RemoteTypeOK
<1>4. MaxSamples \in Nat
  BY RemoteAssumption
<1>5. /\ appended \in Nat /\ posts \in [1 .. MaxSamples -> Nat]
      /\ dropped \subseteq 1 .. MaxSamples
  BY <1>4 DEF RemoteTypeOK
<1>. QED  BY <1>1, <1>2, <1>3, <1>4, <1>5

LEMMA CountedPost ==
    ASSUME RemoteTypeOK, Shaped, Owned, Counted, NEW w \in Writer, send(w),
           Sending(w), appender[w].attempt < MaxRetries, Post(w), dropped' = dropped,
           appended' = appended, PostOK(w) \/ PostTransient(w) \/ PostRejected(w)
    PROVE  Counted'
<1>. DEFINE body == Numbers(Body(w))
<1>1. /\ appender[w] \in AppenderState /\ appender[w].attempt \in Nat
      /\ MaxRetries \in Nat /\ BatchSize \in Nat /\ appended \in Nat
      /\ posts \in [1 .. MaxSamples -> Nat] /\ dropped \subseteq 1 .. MaxSamples
      /\ MaxSamples \in Nat
  BY Typed
<1>2. /\ \A v \in Writer : v # w => appender'[v] = appender[v]
      /\ BatchSize' = BatchSize /\ MaxRetries' = MaxRetries
  BY Others
<1>3. \A n \in 1 .. MaxSamples : posts'[n] = IF n \in body THEN posts[n] + 1 ELSE posts[n]
  BY <1>1 DEF Post
<1>4. \A n \in body : posts[n] = appender[w].attempt /\ n =< appended
  BY BodyCounts
<1>5. \A n \in 1 .. MaxSamples : n > appended' => posts'[n] = 0
  <2>1. \A n \in 1 .. MaxSamples : n > appended => n \notin body
    <3>. HIDE DEF body
    <3>. QED  BY <1>1, <1>4
  <2>. QED  BY <1>3, <2>1 DEF Counted
<1>6. PostsBounded'
  <2>1. \A n \in 1 .. MaxSamples : posts[n] =< MaxRetries
    BY DEF Counted, PostsBounded
  <2>2. \A n \in 1 .. MaxSamples : posts'[n] =< MaxRetries
    <3>. HIDE DEF body
    <3>. QED  BY <1>1, <1>3, <1>4, <2>1
  <2>. QED  BY <1>2, <2>2 DEF PostsBounded
<1>7. \A n \in dropped' : posts'[n] = MaxRetries'
  <2>1. \A n \in dropped : posts[n] = MaxRetries
    BY DEF Counted
  <2>2. \A n \in dropped : n \in 1 .. MaxSamples /\ n \notin body
    <3>. HIDE DEF body
    <3>. QED  BY <1>1, <1>4, <2>1
  <2>. QED  BY <1>2, <1>3, <2>1, <2>2
<1>8. ASSUME NEW v \in Writer, v # w
      PROVE  Counts(appender'[v], posts', BatchSize, MaxRetries)
  <2>1. Counts(appender[v], posts, BatchSize, MaxRetries)
    BY DEF Counted
  <2>2. \A b \in LiveOf(appender[v]) : b.n \notin body
    BY <1>8, BodyCounts
  <2>3. appender[v].pending \in Seq(Sample) /\ appender[v].rows \in Seq(Row)
    BY DEF RemoteTypeOK, AppenderState
  <2>4. appender[v].pc = "open" =>
           \A j \in 1 .. Len(appender[v].pending) :
              posts'[appender[v].pending[j].n] = posts[appender[v].pending[j].n]
    <3>. SUFFICES ASSUME appender[v].pc = "open", NEW j \in 1 .. Len(appender[v].pending)
                  PROVE  posts'[appender[v].pending[j].n] = posts[appender[v].pending[j].n]
      OBVIOUS
    <3>1. appender[v].pending[j] \in LiveOf(appender[v])
      BY DEF LiveOf
    <3>2. appender[v].pending[j] \in Sample
      BY <2>3
    <3>3. appender[v].pending[j].n \in 1 .. MaxSamples /\ appender[v].pending[j].n \notin body
      BY <2>2, <3>1, <3>2 DEF Sample
    <3>. QED  BY <1>3, <3>3
  <2>5. appender[v].pc = "send" =>
           \A j \in 1 .. Len(appender[v].rows) : appender[v].i < j =>
              \A a \in appender[v].rows[j].samples : posts'[a.n] = posts[a.n]
    <3>. SUFFICES ASSUME appender[v].pc = "send", NEW j \in 1 .. Len(appender[v].rows),
                         appender[v].i < j, NEW a \in appender[v].rows[j].samples
                  PROVE  posts'[a.n] = posts[a.n]
      OBVIOUS
    <3>1. a \in LiveOf(appender[v])
      BY DEF LiveOf
    <3>2. appender[v].rows[j] \in Row
      BY <2>3
    <3>3. a.n \in 1 .. MaxSamples /\ a.n \notin body
      BY <2>2, <3>1, <3>2 DEF Row, Sample
    <3>. QED  BY <1>3, <3>3
  <2>. HIDE DEF body
  <2>. QED  BY <1>2, <1>8, <2>1, <2>4, <2>5 DEF Counts
<1>9. Counts(appender'[w], posts', BatchSize, MaxRetries)
  <2>1. appender[w].pc = "send" /\ appender'[w].rows = appender[w].rows
    BY SendFields
  <2>2. Counts(appender[w], posts, BatchSize, MaxRetries)
    BY DEF Counted
  <2>3. \A j \in 1 .. Len(appender[w].rows) : appender[w].i < j =>
           \A a \in appender[w].rows[j].samples :
              posts'[a.n] = IF j =< appender[w].i + BatchSize
                            THEN appender[w].attempt + 1 ELSE 0
    <3>. SUFFICES ASSUME NEW j \in 1 .. Len(appender[w].rows), appender[w].i < j,
                         NEW a \in appender[w].rows[j].samples
                  PROVE  posts'[a.n] = IF j =< appender[w].i + BatchSize
                                       THEN appender[w].attempt + 1 ELSE 0
      OBVIOUS
    <3>1. a.n \in body <=> j =< appender[w].i + BatchSize
      BY BodyCounts
    <3>2. posts[a.n] = IF j =< appender[w].i + BatchSize THEN appender[w].attempt ELSE 0
      BY <2>1, <2>2 DEF Counts
    <3>3. appender[w].rows[j] \in Row
      BY <1>1 DEF AppenderState
    <3>4. a.n \in 1 .. MaxSamples
      BY <3>3 DEF Row, Sample
    <3>. HIDE DEF body
    <3>. QED  BY <1>3, <3>1, <3>2, <3>4
  <2>4. CASE PostOK(w)
    <3>1. appender'[w].pc = "send" /\ appender'[w].attempt = 0
          /\ appender'[w].i = appender[w].i + BatchSize
      BY <2>4, SendFields
    <3>2. \A j \in 1 .. Len(appender[w].rows) : appender[w].i + BatchSize < j =>
             appender[w].i < j /\ ~ (j =< appender[w].i + BatchSize)
      BY <1>1 DEF AppenderState
    <3>3. \A j \in 1 .. Len(appender[w].rows) : appender[w].i + BatchSize < j =>
             \A a \in appender[w].rows[j].samples : posts'[a.n] = 0
      BY <2>3, <3>2
    <3>4. 0 =< MaxRetries
      BY <1>1
    <3>. QED  BY <2>1, <3>1, <3>3, <3>4 DEF Counts
  <2>5. CASE PostTransient(w)
    <3>1. appender'[w].pc = "send" /\ appender'[w].attempt = appender[w].attempt + 1
          /\ appender'[w].i = appender[w].i
      BY <2>5, SendFields
    <3>2. appender[w].attempt + 1 =< MaxRetries
      BY <1>1
    <3>. QED  BY <2>1, <2>3, <3>1, <3>2 DEF Counts
  <2>6. CASE PostRejected(w)
    BY <2>6, SendFields DEF Counts, PostRejected
  <2>. QED  BY <2>4, <2>5, <2>6
<1>10. \A v \in Writer : Counts(appender'[v], posts', BatchSize', MaxRetries')
  BY <1>2, <1>8, <1>9
<1>. QED  BY <1>5, <1>6, <1>7, <1>10 DEF Counted

LEMMA CountedStep ==
    ASSUME RemoteTypeOK, Shaped, Owned, Counted, [Next]_vars
    PROVE  Counted'
<1>1. CASE UNCHANGED vars
  BY <1>1 DEF vars, serverVars, Counted, PostsBounded, BatchSize, MaxRetries
<1>0. CASE Arrive
  BY <1>0 DEF Arrive, Counted, PostsBounded, BatchSize, MaxRetries
<1>. SUFFICES ASSUME NEW w \in Writer,
                     \/ Appender(w) \/ AppendSample(w) \/ Rollback(w) \/ Commit(w)
                     \/ send(w)
              PROVE  Counted'
  BY <1>0, <1>1 DEF Next
<1>2. /\ appender[w] \in AppenderState /\ appender \in [Writer -> AppenderState]
      /\ MaxRetries \in Nat /\ BatchSize \in Nat /\ appended \in 0 .. MaxSamples
      /\ MaxSamples \in Nat
  BY Sizes, RemoteAssumption DEF RemoteTypeOK
<1>3. /\ \A v \in Writer : v # w => appender'[v] = appender[v]
      /\ BatchSize' = BatchSize /\ MaxRetries' = MaxRetries
  BY Others
<1>4. Counts(appender[w], posts, BatchSize, MaxRetries)
  BY DEF Counted
\* Steps that post nothing.
<1>5. ASSUME posts' = posts, appended' \in {appended, appended + 1},
             \A n \in dropped' : n \in dropped \/ posts[n] = MaxRetries,
             Counts(appender'[w], posts, BatchSize, MaxRetries)
      PROVE  Counted'
  <2>1. \A v \in Writer : Counts(appender'[v], posts', BatchSize', MaxRetries')
    BY <1>3, <1>5 DEF Counted
  <2>2. PostsBounded'
    BY <1>3, <1>5 DEF Counted, PostsBounded
  <2>3. \A n \in 1 .. MaxSamples : n > appended' => posts'[n] = 0
    BY <1>2, <1>5 DEF Counted
  <2>4. \A n \in dropped' : posts'[n] = MaxRetries'
    BY <1>3, <1>5 DEF Counted
  <2>. QED  BY <2>1, <2>2, <2>3, <2>4 DEF Counted
<1>6. CASE Appender(w)
  <2>1. appender'[w] = NewAppender
    BY <1>2, <1>6 DEF Appender
  <2>2. Counts(appender'[w], posts, BatchSize, MaxRetries)
    BY <2>1 DEF Counts, NewAppender
  <2>. QED  BY <1>5, <1>6, <2>2 DEF Appender, serverVars
<1>7. CASE AppendSample(w)
  <2>. DEFINE old == appender[w].pending
  <2>1. PICK s \in Series :
           /\ appender'[w].pc = "open"
           /\ appender'[w].pending = Append(old, [n |-> appended + 1, series |-> s])
    BY <1>7, AppendFacts
  <2>2. old \in Seq(Sample) /\ appender[w].pc = "open"
    BY <1>2, <1>7 DEF AppenderState, AppendSample
  <2>3. posts[appended + 1] = 0
    BY <1>2, <1>7 DEF Counted, AppendSample
  <2>4. \A j \in 1 .. Len(old) : posts[old[j].n] = 0
    BY <1>4, <2>2 DEF Counts
  <2>. HIDE DEF old
  <2>. DEFINE new == [n |-> appended + 1, series |-> s]
  <2>5. /\ Len(Append(old, new)) = Len(old) + 1 /\ Len(old) \in Nat
        /\ \A j \in 1 .. Len(old) : Append(old, new)[j] = old[j]
        /\ Append(old, new)[Len(old) + 1] = new
    BY <2>2
  <2>6. new.n = appended + 1
    OBVIOUS
  <2>7. \A j \in 1 .. Len(old) + 1 : posts[Append(old, new)[j].n] = 0
    <3>. HIDE DEF new
    <3>1. \A j \in 1 .. Len(old) + 1 : j \in 1 .. Len(old) \/ j = Len(old) + 1
      BY <2>5
    <3>. QED  BY <2>3, <2>4, <2>5, <2>6, <3>1
  <2>8. Counts(appender'[w], posts, BatchSize, MaxRetries)
    <3>. HIDE DEF new
    <3>1. \A j \in 1 .. Len(Append(old, new)) : posts[Append(old, new)[j].n] = 0
      BY <2>5, <2>7
    <3>. QED  BY <2>1, <3>1 DEF Counts, new
  <2>. QED  BY <1>5, <1>7, <2>8 DEF AppendSample, serverVars
<1>8. CASE Rollback(w)
  <2>1. /\ appender'[w].pending = << >> /\ appender'[w].pc \in {"open", "err"}
    BY <1>2, <1>8 DEF Rollback, AppenderState
  <2>2. Counts(appender'[w], posts, BatchSize, MaxRetries)
    BY <2>1 DEF Counts
  <2>. QED  BY <1>5, <1>8, <2>2 DEF Rollback, serverVars
<1>9. CASE Commit(w)
  <2>1. CASE appender[w].pending = << >>
    <3>1. appender'[w].pc = "ok"
      BY <1>2, <1>9, <2>1 DEF Commit, AppenderState
    <3>2. Counts(appender'[w], posts, BatchSize, MaxRetries)
      BY <3>1 DEF Counts
    <3>. QED  BY <1>5, <1>9, <3>2 DEF Commit, serverVars
  <2>2. CASE appender[w].pending # << >>
    <3>1. PICK rows \in RowOrders(appender[w].pending) :
             appender' = [appender EXCEPT ![w] =
                [pc |-> "send", pending |-> << >>, rows |-> rows, i |-> 0, attempt |-> 0]]
      BY <1>9, <2>2 DEF Commit
    <3>2. \A a \in Samples(rows) : a \in LiveOf(appender[w])
      BY <1>9, CommitFacts DEF Commit
    <3>3. appender[w].pc = "open"
      BY <1>9 DEF Commit
    <3>4. \A a \in Samples(rows) : posts[a.n] = 0
      BY <1>4, <3>2, <3>3 DEF Counts, LiveOf
    <3>5. \A j \in 1 .. Len(rows) : \A a \in rows[j].samples : posts[a.n] = 0
      BY <3>4 DEF Samples
    <3>6. /\ appender'[w].pc = "send" /\ appender'[w].rows = rows
          /\ appender'[w].i = 0 /\ appender'[w].attempt = 0
      BY <1>2, <3>1
    <3>7. 0 =< MaxRetries
      BY <1>2
    <3>8. Counts(appender'[w], posts, BatchSize, MaxRetries)
      BY <3>5, <3>6, <3>7 DEF Counts
    <3>. QED  BY <1>5, <1>9, <3>8 DEF Commit, serverVars
  <2>. QED  BY <2>1, <2>2
<1>10. CASE send(w)
  <2>1. CASE PostOK(w) \/ PostTransient(w) \/ PostRejected(w)
    BY <1>10, <2>1, PostSteps, CountedPost
  <2>2. CASE Drop(w)
    <3>1. /\ Sending(w) /\ appender[w].attempt = MaxRetries /\ posts' = posts
          /\ dropped' = dropped \cup Numbers(Body(w)) /\ appended' = appended
      BY <1>10, <2>2, PostSteps
    <3>2. \A n \in Numbers(Body(w)) : posts[n] = MaxRetries
      BY <3>1, BodyCounts
    <3>3. /\ appender'[w].pc = "send" /\ appender'[w].attempt = 0
          /\ appender'[w].i = appender[w].i + BatchSize
          /\ appender'[w].rows = appender[w].rows /\ appender[w].pc = "send"
      BY <1>10, <2>2, SendFields
    <3>4. \A j \in 1 .. Len(appender[w].rows) : appender[w].i + BatchSize < j =>
             appender[w].i < j /\ ~ (j =< appender[w].i + BatchSize)
      BY <1>2 DEF AppenderState
    <3>5. \A j \in 1 .. Len(appender[w].rows) : appender[w].i + BatchSize < j =>
             \A a \in appender[w].rows[j].samples : posts[a.n] = 0
      BY <1>4, <3>3, <3>4 DEF Counts
    <3>6. 0 =< MaxRetries
      BY <1>2
    <3>7. Counts(appender'[w], posts, BatchSize, MaxRetries)
      BY <3>3, <3>5, <3>6 DEF Counts
    <3>. QED  BY <1>5, <3>1, <3>2, <3>7
  <2>3. CASE CommitReturn(w)
    <3>1. posts' = posts /\ dropped' = dropped /\ appended' = appended
      BY <1>10, <2>3, PostSteps
    <3>2. appender'[w].pc = "ok"
      BY <1>10, <2>3, SendFields
    <3>3. Counts(appender'[w], posts, BatchSize, MaxRetries)
      BY <3>2 DEF Counts
    <3>. QED  BY <1>5, <3>1, <3>3
  <2>4. CASE SendFails(w)
    <3>1. posts' = posts /\ dropped' = dropped /\ appended' = appended
      BY <1>10, <2>4, PostSteps
    <3>2. appender'[w].pc = "err"
      BY <1>10, <2>4, SendFields DEF SendFails
    <3>3. Counts(appender'[w], posts, BatchSize, MaxRetries)
      BY <3>2 DEF Counts
    <3>. QED  BY <1>5, <3>1, <3>3
  <2>. QED  BY <1>10, <2>1, <2>2, <2>3, <2>4 DEF send
<1>. QED  BY <1>6, <1>7, <1>8, <1>9, <1>10

\* What the server has stored stays stored.
LEMMA StoredGrows ==
    ASSUME RemoteTypeOK, NEW w \in Writer, NEW rows \in Seq(Row), NEW late \in BOOLEAN,
           Stored(w, rows, late)
    PROVE  Arrived \subseteq Arrived' /\ Numbers(rows) \subseteq Arrived'
<1>1. /\ Len(remote) \in Nat /\ Len(remote') = Len(remote) + 1
      /\ \A k \in 1 .. Len(remote) : remote'[k] = remote[k]
      /\ remote'[Len(remote) + 1].rows = rows
  BY StoredType DEF Stored
<1>2. /\ Len(remote) + 1 \in 1 .. Len(remote')
      /\ \A k \in 1 .. Len(remote) : k \in 1 .. Len(remote')
  BY <1>1
<1>3. Arrived \subseteq Arrived'
  BY <1>1, <1>2 DEF Arrived
<1>4. Numbers(rows) \subseteq Arrived'
  BY <1>1, <1>2 DEF Arrived
<1>. QED  BY <1>3, <1>4

LEMMA RemoteGrows ==
    ASSUME RemoteTypeOK, NEW w \in Writer,
           \/ Appender(w) \/ AppendSample(w) \/ Rollback(w) \/ Commit(w) \/ send(w)
    PROVE  /\ PostOK(w) \/ remote' = remote
           /\ PostOK(w) => Sending(w) /\ Stored(w, Body(w), FALSE) /\ inflight' = inflight
           /\ dropped \subseteq dropped' /\ refused \subseteq refused'
           /\ Arrived \subseteq Arrived'
           /\ PostOK(w) => Numbers(Body(w)) \subseteq Arrived'
<1>1. PostOK(w) \/ remote' = remote
  BY DEF serverVars, Appender, AppendSample, Rollback, Commit, send, PostOK, PostTransient,
         PostRejected, SendFails, SendErr, Drop, CommitReturn
<1>2. PostOK(w) => Sending(w) /\ Stored(w, Body(w), FALSE) /\ inflight' = inflight
  BY DEF PostOK
<1>3. dropped \subseteq dropped' /\ refused \subseteq refused'
  BY DEF Appender, AppendSample, Rollback, Commit, send, PostOK, PostTransient,
         PostRejected, SendFails, SendErr, Drop, CommitReturn
<1>4. PostOK(w) => Arrived \subseteq Arrived' /\ Numbers(Body(w)) \subseteq Arrived'
  BY <1>2, BodyFacts, StoredGrows DEF Stored
<1>5. remote' = remote => Arrived' = Arrived
  BY DEF Arrived
<1>. QED  BY <1>1, <1>2, <1>3, <1>4, <1>5

LEMMA ArriveFacts ==
    ASSUME RemoteTypeOK, Arrive
    PROVE  /\ appender' = appender
           /\ Arrived \cup dropped \subseteq (Arrived \cup dropped)'
<1>1. PICK r \in inflight :
         /\ Stored(r.from, r.rows, TRUE)
         /\ UNCHANGED <<cfg, appender, appended, posts, dropped, refused>>
  BY DEF Arrive
<1>2. r.from \in Writer /\ r.rows \in Seq(Row)
  BY DEF RemoteTypeOK
<1>3. Arrived \subseteq Arrived'
  BY <1>1, <1>2, StoredGrows DEF Stored
<1>. QED  BY <1>1, <1>3

LEMMA AccountedStep ==
    ASSUME RemoteTypeOK, Shaped, Accounted, [Next]_vars
    PROVE  Accounted'
<1>1. CASE UNCHANGED vars
  BY <1>1 DEF vars, serverVars, Accounted, Arrived
<1>0. CASE Arrive
  <2>1. appender' = appender /\ Arrived \cup dropped \subseteq (Arrived \cup dropped)'
    BY <1>0, ArriveFacts
  <2>. DEFINE done == Arrived \cup dropped
              later == (Arrived \cup dropped)'
  <2>2. \A v \in Writer : Settled(appender[v], done)
    BY DEF Accounted
  <2>3. done \subseteq later
    BY <2>1
  <2>. HIDE DEF done, later
  <2>4. \A v \in Writer : Settled(appender[v], later)
    BY <2>2, <2>3 DEF Settled
  <2>. QED  BY <2>1, <2>4 DEF Accounted, later
<1>. SUFFICES ASSUME NEW w \in Writer,
                     \/ Appender(w) \/ AppendSample(w) \/ Rollback(w) \/ Commit(w)
                     \/ send(w)
              PROVE  Accounted'
  BY <1>0, <1>1 DEF Next
<1>. DEFINE done == Arrived \cup dropped
<1>2. appender[w] \in AppenderState /\ appender \in [Writer -> AppenderState]
  BY DEF RemoteTypeOK
<1>3. done \subseteq done'
  BY RemoteGrows
<1>4. Settled(appender[w], done)
  BY DEF Accounted
<1>. SUFFICES Settled(appender'[w], done')
  <2>1. ASSUME NEW v \in Writer, v # w
        PROVE  Settled(appender'[v], done')
    <3>1. Settled(appender[v], done) /\ appender'[v] = appender[v]
      BY <2>1, Others DEF Accounted
    <3>. HIDE DEF done
    <3>. QED  BY <1>3, <3>1 DEF Settled
  <2>. QED  BY <2>1 DEF Accounted
<1>5. CASE Appender(w)
  <2>1. appender'[w] = NewAppender
    BY <1>2, <1>5 DEF Appender
  <2>. QED  BY <2>1 DEF Settled, NewAppender
<1>6. CASE AppendSample(w)
  <2>1. appender'[w].pc = "open"
    BY <1>6, AppendFacts
  <2>. QED  BY <2>1 DEF Settled
<1>7. CASE Rollback(w)
  <2>1. appender'[w].pc \in {"open", "err"}
    BY <1>2, <1>7 DEF Rollback, AppenderState
  <2>. QED  BY <2>1 DEF Settled
<1>8. CASE Commit(w)
  <2>1. CASE appender[w].pending = << >>
    <3>1. appender'[w].rows = << >>
      BY <1>2, <1>8, <2>1 DEF Commit, AppenderState, Shaped, Shape
    <3>. QED  BY <3>1 DEF Settled
  <2>2. CASE appender[w].pending # << >>
    <3>1. PICK rows \in RowOrders(appender[w].pending) :
             appender' = [appender EXCEPT ![w] =
                [pc |-> "send", pending |-> << >>, rows |-> rows, i |-> 0, attempt |-> 0]]
      BY <1>8, <2>2 DEF Commit
    <3>2. appender'[w].pc = "send" /\ appender'[w].i = 0 /\ appender'[w].rows = rows
      BY <1>2, <3>1
    <3>3. Len(rows) \in Nat
      BY <1>8, CommitFacts DEF Commit
    <3>. QED  BY <3>2, <3>3 DEF Settled
  <2>. QED  BY <2>1, <2>2
<1>9. CASE send(w)
  <2>1. appender[w].pc = "send" /\ appender'[w].rows = appender[w].rows
    BY <1>9, SendFields
  <2>2. /\ appender[w].i \in Nat /\ Len(appender[w].rows) \in Nat /\ BatchSize \in Nat
    BY <1>2, Sizes DEF AppenderState
  <2>3. \A j \in 1 .. Len(appender[w].rows) : j =< appender[w].i =>
           \A a \in appender[w].rows[j].samples : a.n \in done'
    BY <1>3, <1>4, <2>1 DEF Settled
  <2>4. CASE PostOK(w) \/ Drop(w)
    <3>1. /\ appender'[w].pc = "send" /\ appender'[w].i = appender[w].i + BatchSize
      BY <1>9, <2>4, SendFields
    <3>2. Sending(w)
      BY <2>4 DEF PostOK, Drop
    <3>3. Numbers(Body(w)) \subseteq done'
      BY <2>4, RemoteGrows DEF Drop
    <3>4. \A j \in 1 .. Len(appender[w].rows) :
             appender[w].i < j /\ j =< appender[w].i + BatchSize =>
                \A a \in appender[w].rows[j].samples : a.n \in done'
      <4>1. \A j \in 1 .. Len(appender[w].rows) :
               appender[w].i < j /\ j =< appender[w].i + BatchSize =>
                  \A a \in appender[w].rows[j].samples : a \in Samples(Body(w))
        BY <3>2, BodyFacts
      <4>. HIDE DEF done
      <4>. QED  BY <3>3, <4>1 DEF Numbers
    <3>5. \A j \in 1 .. Len(appender[w].rows) : j =< appender[w].i + BatchSize =>
             \A a \in appender[w].rows[j].samples : a.n \in done'
      <4>. HIDE DEF done
      <4>1. \A j \in 1 .. Len(appender[w].rows) : j =< appender[w].i \/ appender[w].i < j
        BY <2>2
      <4>. QED  BY <2>3, <3>4, <4>1
    <3>. HIDE DEF done
    <3>. QED  BY <2>1, <3>1, <3>5 DEF Settled
  <2>5. CASE PostTransient(w)
    <3>1. appender'[w].pc = "send" /\ appender'[w].i = appender[w].i
      BY <1>9, <2>5, SendFields
    <3>. HIDE DEF done
    <3>. QED  BY <2>1, <2>3, <3>1 DEF Settled
  <2>6. CASE PostRejected(w) \/ SendFails(w)
    <3>1. appender'[w].pc = "err"
      BY <1>9, <2>6, SendFields DEF PostRejected, SendFails
    <3>. QED  BY <3>1 DEF Settled
  <2>7. CASE CommitReturn(w)
    <3>1. \A j \in 1 .. Len(appender[w].rows) : j =< appender[w].i
      BY <2>2, <2>7 DEF CommitReturn
    <3>. HIDE DEF done
    <3>. QED  BY <2>1, <2>3, <3>1 DEF Settled
  <2>. QED  BY <1>9, <2>4, <2>5, <2>6, <2>7 DEF send
<1>. QED  BY <1>5, <1>6, <1>7, <1>8, <1>9

\* What is in a sequence.
LEMMA ElementOf ==
    ASSUME NEW S, NEW q \in Seq(S), NEW k \in 1 .. Len(q)
    PROVE  q[k] \in S
OBVIOUS

\* The batch at hand comes before the batches after it.
LEMMA BodyBefore ==
    ASSUME RemoteTypeOK, Shaped, NEW w \in Writer, send(w), Sending(w)
    PROVE  ~ PostTransient(w) => Before(Body(w), LiveOf(appender'[w]))
<1>. SUFFICES ASSUME ~ PostTransient(w), NEW a \in Samples(Body(w)),
                     NEW b \in LiveOf(appender'[w]), a.series = b.series
              PROVE  a.n < b.n
  BY DEF Before
<1>1. /\ appender'[w].pc = "send"
      /\ appender'[w].i = appender[w].i + BatchSize
      /\ appender'[w].rows = appender[w].rows
  BY SendFields DEF send, LiveOf, PostRejected, SendFails
<1>2. PICK j \in 1 .. Len(appender[w].rows) :
         j =< appender[w].i + BatchSize /\ a \in appender[w].rows[j].samples
  BY BodyFacts
<1>3. PICK k \in 1 .. Len(appender[w].rows) :
         appender[w].i + BatchSize < k /\ b \in appender[w].rows[k].samples
  BY <1>1 DEF LiveOf
<1>4. appender[w].i + BatchSize \in Nat /\ Len(appender[w].rows) \in Nat
  <2>1. appender[w] \in AppenderState
    BY DEF RemoteTypeOK
  <2>2. appender[w].i \in Nat /\ appender[w].rows \in Seq(Row)
    BY <2>1 DEF AppenderState
  <2>3. BatchSize \in Nat
    BY Sizes
  <2>. QED  BY <2>2, <2>3
<1>5. j < k
  BY <1>2, <1>3, <1>4
<1>. QED  BY <1>2, <1>3, <1>5 DEF Shaped, Shape, RowsApart

LEMMA RowNumbers ==
    ASSUME NEW rows \in Seq(Row), NEW a \in Samples(rows)
    PROVE  a.n \in Nat
<1>1. PICK j \in 1 .. Len(rows) : a \in rows[j].samples
  BY DEF Samples
<1>2. rows[j] \in Row
  OBVIOUS
<1>. QED  BY <1>1, <1>2, RemoteAssumption DEF Row, Sample

\* The bodies the server has, and those that it may yet store.
LEMMA Bodies ==
    ASSUME RemoteTypeOK
    PROVE  /\ Len(remote) \in Nat
           /\ \A k \in 1 .. Len(remote) : remote[k].from \in Writer /\ remote[k].rows \in Seq(Row)
           /\ \A r \in inflight : r.from \in Writer /\ r.rows \in Seq(Row)
<1>. DEFINE Body0 == [from : Writer, rows : Seq(Row), late : BOOLEAN]
<1>1. remote \in Seq(Body0)
  BY DEF RemoteTypeOK
<1>2. \A b \in Body0 : b.from \in Writer /\ b.rows \in Seq(Row)
  OBVIOUS
<1>3. Len(remote) \in Nat /\ \A k \in 1 .. Len(remote) : remote[k] \in Body0
  <2>. HIDE DEF Body0
  <2>. QED  BY <1>1, ElementOf
<1>4. \A r \in inflight : r.from \in Writer /\ r.rows \in Seq(Row)
  BY DEF RemoteTypeOK
<1>. HIDE DEF Body0
<1>. QED  BY <1>2, <1>3, <1>4

\* A body that was in turn stays in turn.
LEMMA TurnKept ==
    ASSUME RemoteTypeOK, Shaped, NEW w \in Writer,
           \/ Appender(w) \/ AppendSample(w) \/ Rollback(w) \/ Commit(w) \/ send(w),
           NEW v \in Writer, NEW body \in Seq(Row), Taken(body),
           \/ Sending(v) /\ body = Body(v)
           \/ Before(body, LiveOf(appender[v]))
    PROVE  \/ Sending(v)' /\ body = Body(v)'
           \/ Before(body, LiveOf(appender'[v]))
<1>1. CASE v # w
  <2>1. appender'[v] = appender[v] /\ BatchSize' = BatchSize
    BY <1>1, Others
  <2>2. Body(v)' = Body(v) /\ (Sending(v) => Sending(v)')
    BY <2>1 DEF Sending, Body, BatchEnd
  <2>. QED  BY <2>1, <2>2
<1>2. CASE v = w /\ AppendSample(w)
  <2>1. Before(body, LiveOf(appender[w]))
    BY <1>2 DEF AppendSample, Sending
  <2>2. PICK s \in Series :
           LiveOf(appender'[w]) =
              LiveOf(appender[w]) \cup {[n |-> appended + 1, series |-> s]}
    BY <1>2, AppendFacts
  <2>3. appended \in Nat
    BY RemoteAssumption DEF RemoteTypeOK
  <2>4. \A a \in Samples(body) : a.n < appended + 1
    BY <2>3, RowNumbers DEF Taken
  <2>. QED  BY <1>2, <2>1, <2>2, <2>4 DEF Before
<1>3. CASE /\ v = w
           /\ Appender(w) \/ Rollback(w) \/ Commit(w) \/ send(w)
           /\ Before(body, LiveOf(appender[w]))
  <2>1. LiveOf(appender'[w]) \subseteq LiveOf(appender[w])
    BY <1>3, LiveShrinks
  <2>. QED  BY <1>3, <2>1 DEF Before
<1>4. CASE /\ v = w
           /\ Appender(w) \/ Rollback(w) \/ Commit(w) \/ send(w)
           /\ Sending(w) /\ body = Body(w)
  <2>1. send(w)
    BY <1>4 DEF Appender, Rollback, Commit, Sending
  <2>2. CASE ~ PostTransient(w)
    BY <1>4, <2>1, <2>2, BodyBefore
  <2>3. CASE PostTransient(w)
    <3>1. /\ appender'[w].pc = "send" /\ appender'[w].i = appender[w].i
          /\ appender'[w].rows = appender[w].rows /\ BatchSize' = BatchSize
      BY <2>1, <2>3, SendFields, Others
    <3>2. Sending(w)' /\ Body(w)' = Body(w)
      BY <1>4, <3>1 DEF Sending, Body, BatchEnd
    <3>. QED  BY <1>4, <3>2
  <2>. QED  BY <2>2, <2>3
<1>. QED  BY <1>1, <1>2, <1>3, <1>4

\* How the parts of Ordered and Followed follow a step: of an appender, or the
\* arrival of a late request.
Keeps(body) ==
    \A v \in Writer :
       Taken(body) /\ InTurn(v, body) =>
          /\ \A a \in Samples(body) : a.n =< appended'
          /\ \/ Sending(v)' /\ body = Body(v)'
             \/ Before(body, LiveOf(appender'[v]))

LEMMA StepKeeps ==
    ASSUME RemoteTypeOK, Shaped, [Next]_vars, NEW body \in Seq(Row)
    PROVE  Keeps(body)
<1>1. CASE UNCHANGED vars \/ Arrive
  <2>1. appender' = appender /\ cfg' = cfg /\ appended' = appended
    BY <1>1 DEF vars, Arrive
  <2>2. \A v \in Writer : Body(v)' = Body(v) /\ (Sending(v) => Sending(v)')
    BY <2>1 DEF Sending, Body, BatchEnd, BatchSize
  <2>. QED  BY <2>1, <2>2 DEF Keeps, InTurn, AtHand, Taken
<1>2. ASSUME NEW w \in Writer,
             \/ Appender(w) \/ AppendSample(w) \/ Rollback(w) \/ Commit(w) \/ send(w)
      PROVE  Keeps(body)
  <2>1. appended \in Nat /\ appended' \in Nat /\ appended =< appended'
    <3>1. appended \in Nat
      BY RemoteAssumption DEF RemoteTypeOK
    <3>2. appended' = appended \/ appended' = appended + 1
      BY <1>2, LiveShrinks DEF AppendSample
    <3>. QED  BY <3>1, <3>2
  <2>2. Taken(body) => \A a \in Samples(body) : a.n =< appended'
    BY <2>1, RowNumbers DEF Taken
  <2>. QED  BY <1>2, <2>2, TurnKept DEF Keeps, InTurn, AtHand
<1>. QED  BY <1>1, <1>2 DEF Next

\* What the server has, and what was dropped or refused, stays so.
LEMMA Grows ==
    ASSUME RemoteTypeOK, [Next]_vars
    PROVE  /\ Len(remote) \in Nat /\ Len(remote') \in Nat /\ Len(remote) =< Len(remote')
           /\ \A k \in 1 .. Len(remote) : remote'[k] = remote[k]
           /\ dropped \cup refused \subseteq dropped' \cup refused'
<1>1. CASE remote' = remote /\ dropped \cup refused \subseteq dropped' \cup refused'
  BY <1>1, Bodies
<1>2. ASSUME NEW w \in Writer, NEW rows \in Seq(Row), NEW late \in BOOLEAN,
             Stored(w, rows, late), dropped' = dropped, refused' = refused
      PROVE  /\ Len(remote) \in Nat /\ Len(remote') \in Nat /\ Len(remote) =< Len(remote')
             /\ \A k \in 1 .. Len(remote) : remote'[k] = remote[k]
             /\ dropped \cup refused \subseteq dropped' \cup refused'
  BY <1>2, StoredType DEF Stored
<1>3. CASE UNCHANGED vars
  BY <1>1, <1>3 DEF vars, serverVars
<1>4. CASE Arrive
  <2>1. PICK r \in inflight :
           Stored(r.from, r.rows, TRUE) /\ dropped' = dropped /\ refused' = refused
    BY <1>4 DEF Arrive
  <2>. QED  BY <1>2, <2>1, Bodies
<1>5. ASSUME NEW w \in Writer,
             \/ Appender(w) \/ AppendSample(w) \/ Rollback(w) \/ Commit(w) \/ send(w)
      PROVE  /\ Len(remote) \in Nat /\ Len(remote') \in Nat /\ Len(remote) =< Len(remote')
             /\ \A k \in 1 .. Len(remote) : remote'[k] = remote[k]
             /\ dropped \cup refused \subseteq dropped' \cup refused'
  <2>1. CASE PostOK(w)
    BY <1>2, <2>1, BodyFacts DEF PostOK
  <2>2. CASE ~ PostOK(w)
    BY <1>1, <1>5, <2>2, RemoteGrows
  <2>. QED  BY <2>1, <2>2
<1>. QED  BY <1>3, <1>4, <1>5 DEF Next

\* After a step: a body that was known is known, with as many bodies before it.
LEMMA KnownGrows ==
    ASSUME RemoteTypeOK, [Next]_vars, NEW k \in Nat, k =< Len(remote),
           NEW w, NEW body, Known(k, w, body)
    PROVE  \/ \E m \in 1 .. k : remote'[m].from = w /\ remote'[m].rows = body
           \/ Numbers(body) \subseteq dropped' \cup refused'
<1>1. /\ Len(remote) \in Nat /\ \A m \in 1 .. Len(remote) : remote'[m] = remote[m]
      /\ dropped \cup refused \subseteq dropped' \cup refused'
  BY Grows
<1>2. \A m \in 1 .. k : remote'[m] = remote[m]
  BY <1>1
<1>. QED  BY <1>1, <1>2 DEF Known

\* A body is stored: one at hand, or one that is late and known or in order.
LEMMA OrderedStored ==
    ASSUME RemoteTypeOK, Shaped, Ordered, [Next]_vars,
           NEW w \in Writer, NEW body \in Seq(Row), NEW late \in BOOLEAN,
           Stored(w, body, late), Taken(body), InTurn(w, body),
           \A k \in 1 .. Len(remote) : remote[k].from = w /\ remote[k].rows # body =>
              \/ Before(remote[k].rows, Samples(body))
              \/ late /\ Known(k - 1, w, body)
    PROVE  Ordered'
<1>1. /\ Len(remote) \in Nat /\ Len(remote') = Len(remote) + 1
      /\ \A k \in 1 .. Len(remote) : remote'[k] = remote[k]
      /\ remote'[Len(remote) + 1].from = w
      /\ remote'[Len(remote) + 1].rows = body
      /\ remote'[Len(remote) + 1].late = late
  BY StoredType DEF Stored
<1>2. \A k \in 1 .. Len(remote') : k \in 1 .. Len(remote) \/ k = Len(remote) + 1
  BY <1>1
<1>3. ASSUME NEW k \in 1 .. Len(remote'), NEW v, v = remote'[k].from,
             NEW rows, rows = remote'[k].rows
      PROVE  /\ \A a \in Samples(rows) : a.n =< appended'
             /\ \/ Sending(v)' /\ rows = Body(v)'
                \/ Before(rows, LiveOf(appender'[v]))
  <2>1. v \in Writer /\ rows \in Seq(Row) /\ Taken(rows) /\ InTurn(v, rows)
    <3>1. CASE k \in 1 .. Len(remote)
      <4>1. v = remote[k].from /\ rows = remote[k].rows
        BY <1>1, <1>3, <3>1
      <4>. QED  BY <3>1, <4>1, Bodies DEF Ordered
    <3>2. CASE k = Len(remote) + 1
      BY <1>1, <1>3, <3>2
    <3>. QED  BY <1>2, <3>1, <3>2
  <2>2. Keeps(rows)
    BY <2>1, StepKeeps
  <2>. QED  BY <2>1, <2>2 DEF Keeps
<1>4. ASSUME NEW k \in 1 .. Len(remote'), NEW l \in 1 .. Len(remote'), k < l,
             remote'[k].from = remote'[l].from, remote'[k].rows # remote'[l].rows
      PROVE  \/ Before(remote'[k].rows, Samples(remote'[l].rows))
             \/ /\ remote'[l].late
                /\ \/ \E m \in 1 .. k - 1 : /\ remote'[m].from = remote'[l].from
                                            /\ remote'[m].rows = remote'[l].rows
                   \/ Numbers(remote'[l].rows) \subseteq dropped' \cup refused'
  <2>1. k \in 1 .. Len(remote) /\ remote'[k] = remote[k] /\ k - 1 \in Nat /\ k - 1 =< Len(remote)
    BY <1>1, <1>4
  <2>2. CASE l \in 1 .. Len(remote)
    <3>1. remote'[l] = remote[l]
      BY <1>1, <2>2
    <3>2. \/ Before(remote[k].rows, Samples(remote[l].rows))
          \/ remote[l].late /\ Known(k - 1, remote[l].from, remote[l].rows)
      BY <1>4, <2>1, <2>2, <3>1 DEF Ordered, SeriesInOrder, Before, Known
    <3>3. ASSUME Known(k - 1, remote[l].from, remote[l].rows)
          PROVE  \/ \E m \in 1 .. k - 1 : /\ remote'[m].from = remote[l].from
                                         /\ remote'[m].rows = remote[l].rows
                 \/ Numbers(remote[l].rows) \subseteq dropped' \cup refused'
      <4>1. \A m \in 1 .. k - 1 : remote'[m] = remote[m]
        BY <1>1, <2>1
      <4>2. dropped \cup refused \subseteq dropped' \cup refused'
        BY Grows
      <4>. QED  BY <3>3, <4>1, <4>2 DEF Known
    <3>. QED  BY <2>1, <3>1, <3>2, <3>3
  <2>3. CASE l = Len(remote) + 1
    <3>1. \/ Before(remote[k].rows, Samples(body))
          \/ late /\ Known(k - 1, w, body)
      BY <1>1, <1>4, <2>1, <2>3
    <3>. QED  BY <1>1, <2>1, <2>3, <3>1, KnownGrows
  <2>. QED  BY <1>2, <2>2, <2>3
<1>5. SeriesInOrder'
  BY <1>4 DEF SeriesInOrder, Before
<1>6. \A k \in 1 .. Len(remote') :
         (Taken(remote[k].rows) /\ InTurn(remote[k].from, remote[k].rows))'
  BY <1>3 DEF Taken, InTurn, AtHand
<1>. QED  BY <1>5, <1>6 DEF Ordered

LEMMA OrderedStep ==
    ASSUME RemoteTypeOK, Shaped, Owned, Counted, Ordered, Followed, [Next]_vars
    PROVE  Ordered'
<1>1. CASE remote' = remote
  <2>1. ASSUME NEW k \in 1 .. Len(remote)
        PROVE  (Taken(remote[k].rows) /\ InTurn(remote[k].from, remote[k].rows))'
    <3>1. remote[k].from \in Writer /\ remote[k].rows \in Seq(Row)
      BY Bodies
    <3>2. Taken(remote[k].rows) /\ InTurn(remote[k].from, remote[k].rows)
      BY DEF Ordered
    <3>3. Keeps(remote[k].rows)
      BY <3>1, StepKeeps
    <3>. QED  BY <1>1, <3>1, <3>2, <3>3 DEF Keeps, Taken, InTurn, AtHand
  <2>2. dropped \cup refused \subseteq dropped' \cup refused'
    BY Grows
  <2>3. SeriesInOrder'
    <3>1. SeriesInOrder
      BY DEF Ordered
    <3>. QED  BY <1>1, <2>2, <3>1 DEF SeriesInOrder
  <2>. QED  BY <1>1, <2>1, <2>3 DEF Ordered
<1>2. ASSUME NEW w \in Writer, PostOK(w)
      PROVE  Ordered'
  <2>1. Sending(w) /\ Stored(w, Body(w), FALSE) /\ Body(w) \in Seq(Row)
    BY <1>2, BodyFacts DEF PostOK
  <2>2. Samples(Body(w)) \subseteq LiveOf(appender[w])
    BY <2>1, BodyCounts
  <2>3. Taken(Body(w)) /\ InTurn(w, Body(w))
    BY <2>1, <2>2 DEF Owned, Taken, InTurn, AtHand
  <2>4. \A k \in 1 .. Len(remote) : remote[k].from = w /\ remote[k].rows # Body(w) =>
           Before(remote[k].rows, Samples(Body(w)))
    BY <2>2 DEF Ordered, InTurn, AtHand, Before
  <2>. QED  BY <2>1, <2>3, <2>4, OrderedStored DEF Stored
<1>3. CASE Arrive
  <2>1. PICK r \in inflight : Stored(r.from, r.rows, TRUE)
    BY <1>3 DEF Arrive
  <2>2. r.from \in Writer /\ r.rows \in Seq(Row)
    BY Bodies
  <2>3. /\ Taken(r.rows) /\ InTurn(r.from, r.rows)
        /\ \A k \in 1 .. Len(remote) : remote[k].from = r.from /\ remote[k].rows # r.rows =>
              Behind(k, r.from, r.rows)
    BY DEF Followed
  <2>. QED  BY <2>1, <2>2, <2>3, OrderedStored DEF Behind, Stored
<1>4. CASE UNCHANGED vars
  BY <1>1, <1>4 DEF vars, serverVars
<1>. QED  BY <1>1, <1>2, <1>3, <1>4, RemoteGrows DEF Next

\* A request that stays in flight is that of the batch at hand, or known.
LEMMA KnownKept ==
    ASSUME RemoteTypeOK, Shaped, [Next]_vars, NEW r \in inflight,
           AtHand(r.from, r.rows) \/ Known(Len(remote), r.from, r.rows)
    PROVE  \/ Sending(r.from)' /\ r.rows = Body(r.from)'
           \/ \E m \in 1 .. Len(remote') : remote'[m].from = r.from /\ remote'[m].rows = r.rows
           \/ Numbers(r.rows) \subseteq dropped' \cup refused'
<1>1. r.from \in Writer /\ r.rows \in Seq(Row) /\ Len(remote) \in Nat
  BY Bodies
<1>2. CASE Known(Len(remote), r.from, r.rows)
  <2>1. \/ \E m \in 1 .. Len(remote) : remote'[m].from = r.from /\ remote'[m].rows = r.rows
        \/ Numbers(r.rows) \subseteq dropped' \cup refused'
    BY <1>1, <1>2, KnownGrows
  <2>2. \A m \in 1 .. Len(remote) : m \in 1 .. Len(remote')
    BY Grows
  <2>. QED  BY <2>1, <2>2
<1>3. CASE AtHand(r.from, r.rows)
  <2>. DEFINE w == r.from
  <2>1. Sending(w) /\ r.rows = Body(w)
    BY <1>3 DEF AtHand
  <2>2. CASE appender'[w] = appender[w] /\ cfg' = cfg
    BY <2>1, <2>2 DEF Sending, Body, BatchEnd, BatchSize
  <2>3. CASE send(w)
    <3>1. CASE PostOK(w)
      <4>1. Stored(w, Body(w), FALSE) /\ Body(w) \in Seq(Row)
        BY <1>1, <2>1, <3>1, BodyFacts DEF PostOK
      <4>2. /\ Len(remote) + 1 \in 1 .. Len(remote')
            /\ remote'[Len(remote) + 1].from = w /\ remote'[Len(remote) + 1].rows = Body(w)
        BY <1>1, <4>1, StoredType DEF Stored
      <4>. QED  BY <2>1, <4>2
    <3>2. CASE Drop(w) \/ SendErr(w)
      BY <2>1, <3>2 DEF Drop, SendErr
    <3>3. CASE PostTransient(w)
      <4>1. /\ appender'[w].pc = "send" /\ appender'[w].i = appender[w].i
            /\ appender'[w].rows = appender[w].rows /\ BatchSize' = BatchSize
        BY <1>1, <2>3, <3>3, SendFields, Others
      <4>2. Sending(w)' /\ Body(w)' = Body(w)
        BY <2>1, <4>1 DEF Sending, Body, BatchEnd
      <4>. QED  BY <2>1, <4>2
    <3>4. CASE CommitReturn(w)
      <4>1. appender[w].i \in Nat /\ Len(appender[w].rows) \in Nat
        <5>1. appender[w] \in AppenderState
          BY <1>1 DEF RemoteTypeOK
        <5>. QED  BY <5>1 DEF AppenderState
      <4>. QED  BY <2>1, <3>4, <4>1 DEF CommitReturn, Sending
    <3>. QED  BY <2>3, <3>1, <3>2, <3>3, <3>4 DEF send, PostRejected, SendFails
  <2>4. CASE UNCHANGED vars \/ Arrive
    BY <2>2, <2>4 DEF vars, Arrive
  <2>5. ASSUME NEW v \in Writer,
               \/ Appender(v) \/ AppendSample(v) \/ Rollback(v) \/ Commit(v) \/ send(v)
        PROVE  send(w) \/ (appender'[w] = appender[w] /\ cfg' = cfg)
    <3>1. CASE v = w
      BY <2>1, <2>5, <3>1 DEF Appender, AppendSample, Rollback, Commit, Sending
    <3>2. CASE v # w
      <4>1. appender'[w] = appender[w]
        BY <1>1, <2>5, <3>2, Others
      <4>2. cfg' = cfg
        BY <2>5 DEF Appender, AppendSample, Rollback, Commit, send, PostOK, PostTransient,
           PostRejected, SendFails, SendErr, Drop, CommitReturn
      <4>. QED  BY <4>1, <4>2
    <3>. QED  BY <3>1, <3>2
  <2>. QED  BY <2>2, <2>3, <2>4, <2>5 DEF Next
<1>. QED  BY <1>2, <1>3

\* What a request in flight is like after the step.
FollowedBy(r) ==
    /\ \A a \in Samples(r.rows) : a.n =< appended'
    /\ \/ Sending(r.from)' /\ r.rows = Body(r.from)'
       \/ Before(r.rows, LiveOf(appender'[r.from]))
    /\ \/ Sending(r.from)' /\ r.rows = Body(r.from)'
       \/ \E m \in 1 .. Len(remote') : remote'[m].from = r.from /\ remote'[m].rows = r.rows
       \/ Numbers(r.rows) \subseteq dropped' \cup refused'
    /\ \A k \in 1 .. Len(remote') :
          remote'[k].from = r.from /\ remote'[k].rows # r.rows =>
             \/ Before(remote'[k].rows, Samples(r.rows))
             \/ \E m \in 1 .. k - 1 : remote'[m].from = r.from /\ remote'[m].rows = r.rows
             \/ Numbers(r.rows) \subseteq dropped' \cup refused'

LEMMA FollowedOld ==
    ASSUME RemoteTypeOK, Shaped, Owned, Counted, Ordered, Followed, [Next]_vars,
           NEW r \in inflight
    PROVE  FollowedBy(r)
<1>1. r.from \in Writer /\ r.rows \in Seq(Row) /\ Len(remote) \in Nat
  BY Bodies
<1>2. /\ Taken(r.rows) /\ InTurn(r.from, r.rows)
      /\ AtHand(r.from, r.rows) \/ Known(Len(remote), r.from, r.rows)
  BY DEF Followed
<1>3. /\ \A a \in Samples(r.rows) : a.n =< appended'
      /\ \/ Sending(r.from)' /\ r.rows = Body(r.from)'
         \/ Before(r.rows, LiveOf(appender'[r.from]))
  <2>1. Keeps(r.rows)
    BY <1>1, StepKeeps
  <2>. QED  BY <1>1, <1>2, <2>1 DEF Keeps
<1>4. \/ Sending(r.from)' /\ r.rows = Body(r.from)'
      \/ \E m \in 1 .. Len(remote') : remote'[m].from = r.from /\ remote'[m].rows = r.rows
      \/ Numbers(r.rows) \subseteq dropped' \cup refused'
  BY <1>2, KnownKept
\* A body stored in this step.
<1>5. ASSUME NEW w \in Writer, NEW body \in Seq(Row), NEW late \in BOOLEAN,
             Stored(w, body, late), w = r.from, body # r.rows,
             AtHand(r.from, r.rows) => Before(body, Samples(r.rows)),
             NEW k \in 1 .. Len(remote'), k \notin 1 .. Len(remote)
      PROVE  \/ Before(remote'[k].rows, Samples(r.rows))
             \/ \E m \in 1 .. k - 1 : remote'[m].from = r.from /\ remote'[m].rows = r.rows
             \/ Numbers(r.rows) \subseteq dropped' \cup refused'
  <2>1. k = Len(remote) + 1 /\ k - 1 = Len(remote) /\ remote'[k].rows = body
    BY <1>5, StoredType DEF Stored
  <2>2. CASE AtHand(r.from, r.rows)
    BY <1>5, <2>1, <2>2
  <2>3. CASE Known(Len(remote), r.from, r.rows)
    BY <1>1, <2>1, <2>3, KnownGrows
  <2>. QED  BY <1>2, <2>2, <2>3
<1>6. ASSUME NEW k \in 1 .. Len(remote'), remote'[k].from = r.from, remote'[k].rows # r.rows
      PROVE  \/ Before(remote'[k].rows, Samples(r.rows))
             \/ \E m \in 1 .. k - 1 : remote'[m].from = r.from /\ remote'[m].rows = r.rows
             \/ Numbers(r.rows) \subseteq dropped' \cup refused'
  <2>1. CASE k \in 1 .. Len(remote)
    <3>1. remote'[k] = remote[k] /\ k - 1 \in Nat /\ k - 1 =< Len(remote)
      BY <1>1, <2>1, Grows
    <3>2. Behind(k, r.from, r.rows)
      BY <1>6, <2>1, <3>1 DEF Followed
    <3>. QED  BY <3>1, <3>2, KnownGrows DEF Behind
  <2>2. CASE k \notin 1 .. Len(remote)
    <3>1. CASE Arrive
      <4>1. PICK q \in inflight : Stored(q.from, q.rows, TRUE)
        BY <3>1 DEF Arrive
      <4>2. q.from \in Writer /\ q.rows \in Seq(Row)
        BY Bodies
      <4>3. q.from = r.from /\ q.rows # r.rows
        <5>1. k = Len(remote) + 1 /\ remote'[Len(remote) + 1].from = q.from
              /\ remote'[Len(remote) + 1].rows = q.rows
          BY <2>2, <4>1, <4>2, StoredType DEF Stored
        <5>. QED  BY <1>6, <5>1
      <4>4. AtHand(r.from, r.rows) => Before(q.rows, Samples(r.rows))
        <5>. SUFFICES ASSUME AtHand(r.from, r.rows) PROVE Before(q.rows, Samples(r.rows))
          OBVIOUS
        <5>1. Before(q.rows, LiveOf(appender[r.from]))
          BY <4>3 DEF Followed, InTurn, AtHand
        <5>2. Samples(r.rows) \subseteq LiveOf(appender[r.from])
          BY <1>1, BodyCounts DEF AtHand
        <5>. QED  BY <5>1, <5>2 DEF Before
      <4>. QED  BY <1>5, <2>2, <4>1, <4>2, <4>3, <4>4
    <3>2. ASSUME NEW w \in Writer, PostOK(w)
          PROVE  \/ Before(remote'[k].rows, Samples(r.rows))
                 \/ \E m \in 1 .. k - 1 : remote'[m].from = r.from /\ remote'[m].rows = r.rows
                 \/ Numbers(r.rows) \subseteq dropped' \cup refused'
      <4>1. Stored(w, Body(w), FALSE) /\ Body(w) \in Seq(Row)
        BY <3>2, BodyFacts DEF PostOK
      <4>2. w = r.from /\ Body(w) # r.rows
        <5>1. k = Len(remote) + 1 /\ remote'[Len(remote) + 1].from = w
              /\ remote'[Len(remote) + 1].rows = Body(w)
          BY <2>2, <4>1, StoredType DEF Stored
        <5>. QED  BY <1>6, <5>1
      <4>3. ~ AtHand(r.from, r.rows)
        BY <4>2 DEF AtHand
      <4>. QED  BY <1>5, <2>2, <4>1, <4>2, <4>3
    <3>3. remote' # remote
      BY <2>2
    <3>. QED  BY <3>1, <3>2, <3>3, RemoteGrows DEF Next, vars, serverVars
  <2>. QED  BY <2>1, <2>2
<1>. QED  BY <1>3, <1>4, <1>6 DEF FollowedBy

\* A request that the client gives up on in this step.
LEMMA FollowedNew ==
    ASSUME RemoteTypeOK, Shaped, Owned, Counted, Ordered, [Next]_vars,
           NEW w \in Writer, PostTransient(w), NEW r, r.from = w, r.rows = Body(w)
    PROVE  FollowedBy(r)
<1>1. Sending(w) /\ send(w) /\ remote' = remote /\ appended' = appended
  BY DEF PostTransient, send
<1>2. Body(w) \in Seq(Row) /\ Samples(Body(w)) \subseteq LiveOf(appender[w])
  BY <1>1, BodyFacts, BodyCounts
<1>3. \A a \in Samples(r.rows) : a.n =< appended'
  BY <1>1, <1>2 DEF Owned
<1>4. Sending(w)' /\ Body(w)' = Body(w)
  <2>1. /\ appender'[w].pc = "send" /\ appender'[w].i = appender[w].i
        /\ appender'[w].rows = appender[w].rows /\ BatchSize' = BatchSize
    BY <1>1, SendFields, Others
  <2>. QED  BY <1>1, <2>1 DEF Sending, Body, BatchEnd
<1>5. \A k \in 1 .. Len(remote) : remote[k].from = w /\ remote[k].rows # Body(w) =>
         Before(remote[k].rows, Samples(Body(w)))
  BY <1>2 DEF Ordered, InTurn, AtHand, Before
<1>. QED  BY <1>1, <1>3, <1>4, <1>5 DEF FollowedBy

LEMMA FollowedStep ==
    ASSUME RemoteTypeOK, Shaped, Owned, Counted, Ordered, Followed, [Next]_vars
    PROVE  Followed'
<1>1. ASSUME NEW r \in inflight'
      PROVE  FollowedBy(r)
  <2>1. CASE r \in inflight
    BY <2>1, FollowedOld
  <2>2. CASE r \notin inflight
    <3>1. ASSUME NEW w \in Writer,
                 \/ Appender(w) \/ AppendSample(w) \/ Rollback(w) \/ Commit(w) \/ send(w)
          PROVE  PostTransient(w)
      BY <2>2, <3>1
      DEF serverVars, Appender, AppendSample, Rollback, Commit, send, PostOK, PostRejected,
          SendFails, Drop, CommitReturn
    <3>2. ~ Arrive /\ ~ UNCHANGED vars
      BY <2>2 DEF Arrive, vars, serverVars
    <3>3. PICK w \in Writer : PostTransient(w)
      BY <3>1, <3>2 DEF Next
    <3>4. r = [from |-> w, rows |-> Body(w), attempt |-> appender[w].attempt]
      BY <2>2, <3>3 DEF PostTransient
    <3>5. r.from = w /\ r.rows = Body(w)
      BY <3>4
    <3>. QED  BY <3>3, <3>5, FollowedNew
  <2>. QED  BY <2>1, <2>2
<1>. QED  BY <1>1 DEF Followed, FollowedBy, Taken, InTurn, AtHand, Known, Behind

-----------------------------------------------------------------------------
(* The theorems *)

LEMMA IInvInit == Init => IInv
<1>. SUFFICES ASSUME Init PROVE IInv
  OBVIOUS
<1>. USE DEF Init
<1>1. RemoteTypeOK
  <2>1. NewAppender \in AppenderState
    BY DEF NewAppender, AppenderState
  <2>2. << >> \in Seq([from : Writer, rows : Seq(Row), late : BOOLEAN])
    OBVIOUS
  <2>3. 0 \in 0 .. MaxSamples
    BY RemoteAssumption
  <2>. QED  BY <2>1, <2>2, <2>3 DEF RemoteTypeOK
<1>2. \A w \in Writer : appender[w] = NewAppender /\ LiveOf(appender[w]) = {}
  BY DEF LiveOf, NewAppender
<1>3. Shaped
  BY <1>2 DEF Shaped, Shape, NewAppender, RowsApart
<1>4. Owned
  BY <1>2 DEF Owned
<1>5. Counted
  <2>1. MaxRetries \in Nat
    BY <1>1, Sizes
  <2>2. PostsBounded
    BY <2>1 DEF PostsBounded
  <2>. QED  BY <1>2, <2>2 DEF Counted, Counts, NewAppender
<1>6. Accounted
  BY <1>2 DEF Accounted, Settled, NewAppender
<1>7. Ordered
  BY DEF Ordered, SeriesInOrder
<1>8. Followed
  BY DEF Followed
<1>. QED  BY <1>1, <1>3, <1>4, <1>5, <1>6, <1>7, <1>8 DEF IInv

LEMMA IInvStep == IInv /\ [Next]_vars => IInv'
BY TypeStep, ShapedStep, OwnedStep, CountedStep, AccountedStep, OrderedStep, FollowedStep
DEF IInv

LEMMA IInvAlways == Spec => []IInv
BY IInvInit, IInvStep, PTL DEF Spec

\* Type correctness of the appenders and of what they leave at the server.
THEOREM RemoteTypeCorrect == Spec => []RemoteTypeOK
<1>1. IInv => RemoteTypeOK
  BY DEF IInv
<1>. QED  BY <1>1, IInvAlways, PTL

\* A nil from Commit accounts for every sample, of any number of appenders,
\* for any size of a batch and any number of retries: it is on the server, or
\* was dropped after MaxRetries requests.
THEOREM NilMeansAccounted == Spec => []NilAccounted
<1>1. IInv => NilAccounted
  <2>. SUFFICES ASSUME IInv PROVE NilAccounted
    OBVIOUS
  <2>1. \A n \in dropped : posts[n] = MaxRetries
    BY DEF IInv, Counted
  <2>2. \A w \in Writer : appender[w].pc = "ok" =>
           \A j \in 1 .. Len(appender[w].rows) : \A a \in appender[w].rows[j].samples :
              a.n \in Arrived \cup dropped
    BY DEF IInv, Accounted, Settled
  <2>. QED  BY <2>1, <2>2 DEF NilAccounted, Numbers, Samples
<1>. QED  BY <1>1, IInvAlways, PTL

\* No sample is ever in more than MaxRetries requests.
THEOREM RetriesBounded == Spec => []PostsBounded
<1>1. IInv => PostsBounded
  BY DEF IInv, Counted
<1>. QED  BY <1>1, IInvAlways, PTL

\* The server stores the samples of a series in the order of Append, whenever
\* the requests that timed out take effect: a body that it stores behind a later
\* one is a body that it had already, or one that the client dropped or returned
\* an error for.
THEOREM OrderKept == Spec => []SeriesInOrder
<1>1. IInv => SeriesInOrder
  BY DEF IInv, Ordered
<1>. QED  BY <1>1, IInvAlways, PTL

=============================================================================
