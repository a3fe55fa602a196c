--------------------------- MODULE SessionsProofs ---------------------------
(***************************************************************************)
(* Proofs about the session event store, for any number of sessions, any   *)
(* bound, retention period and lag, and any number of crashes.             *)
(***************************************************************************)
EXTENDS Sessions, FiniteSetTheorems, WellFoundedInduction, TLAPS

-----------------------------------------------------------------------------
(* The inductive invariant *)

\* K are the newest of A, as many as the bound allows.
Newest(A, K) ==
    /\ K \subseteq A
    /\ \A a \in A \ K, k \in K : a < k
    /\ Cardinality(K) =< MaxEventsPerSession
    /\ A # K => Cardinality(K) = MaxEventsPerSession

\* The timestamps recorded for a session.
Stamps(es) == {e.ts : e \in es}

\* What enforceBound leaves of a set of keys.
Trimmed(P) ==
    {k \in P : Cardinality({j \in P : j < k}) >= Cardinality(P) - MaxEventsPerSession}

\* An event is stored under its own timestamp.
Stamped(eb) ==
    /\ DOMAIN eb \subseteq 0 .. MaxNow
    /\ \A k \in DOMAIN eb : eb[k] \in Event /\ eb[k].ts = k

EventsInv ==
    \A id \in DOMAIN events :
       Stamped(events[id]) /\ Newest(Stamps(recorded[id]), DOMAIN events[id])

\* No event comes from the future, and none is on record for a session
\* without a record.
RecordedInv ==
    \A id \in Id :
       /\ Stamps(recorded[id]) \subseteq 0 .. MaxNow
       /\ id \notin DOMAIN sessions => recorded[id] = {}

\* A session that may still count as live has a record, whose LastSeen is at
\* most MaxLag behind the last arrival.
ActivityInv ==
    \A id \in Id :
       /\ activity[id] >= 0 /\ activity[id] - MaxLag >= now - Retention
             => id \in DOMAIN sessions
       /\ id \in DOMAIN sessions => sessions[id].LastSeen >= activity[id] - MaxLag

IInv == SessionsTypeOK /\ BucketsAgree /\ EventsInv /\ RecordedInv /\ ActivityInv

-----------------------------------------------------------------------------
(* Sets of timestamps *)

\* A set of naturals has a least member.
LEMMA LeastNat ==
    ASSUME NEW T, T \subseteq Nat, T # {}
    PROVE  \E x \in T : \A y \in T : x =< y
<1>1. PICK x \in T : \A y \in T : ~ (<<y, x>> \in OpToRel(<, Nat))
  BY WFMin, NatLessThanWellFounded
<1>2. \A y \in T : ~ (y < x)
  BY <1>1 DEF OpToRel
<1>. QED  BY <1>2

\* Keys of one bucket are finitely many.
LEMMA KeysFinite ==
    ASSUME NEW K, K \subseteq 0 .. MaxNow
    PROVE  /\ K \subseteq Nat /\ IsFiniteSet(K) /\ Cardinality(K) \in Nat
           /\ \A L \in SUBSET K : IsFiniteSet(L) /\ Cardinality(L) \in Nat
<1>1. MaxNow \in Nat
  BY SessionsAssumption
<1>2. IsFiniteSet(0 .. MaxNow)
  BY <1>1, FS_Interval
<1>3. \A L \in SUBSET (0 .. MaxNow) : IsFiniteSet(L)
  BY <1>2, FS_Subset
<1>4. \A L \in SUBSET (0 .. MaxNow) : Cardinality(L) \in Nat
  BY <1>3, FS_CardinalityType
<1>. QED  BY <1>1, <1>3, <1>4

\* A timestamp that fits is its own key.
LEMMA EncodeFits ==
    ASSUME NEW t \in 0 .. MaxNow
    PROVE  encodeTS(t) = t
<1>1. ASSUME NEW m \in Nat \ {0}, t < m PROVE t % m = t
  BY <1>1, SessionsAssumption
<1>2. t < 2^Width
  BY SessionsAssumption
<1>. QED  BY <1>1, <1>2, SessionsAssumption DEF encodeTS

\* A timestamp is added and the bound enforced: the newest stay.
LEMMA TrimKeepsNewest ==
    ASSUME NEW A, A \subseteq Int, NEW K, K \subseteq 0 .. MaxNow,
           NEW t \in 0 .. MaxNow, Newest(A, K)
    PROVE  /\ Newest(A \cup {t}, Trimmed(K \cup {t}))
           /\ Trimmed(K \cup {t}) \subseteq K \cup {t}
           /\ Cardinality(Trimmed(K \cup {t})) >= 1
           /\ Cardinality(Trimmed(K \cup {t})) =< Cardinality(K) + 1
<1>. DEFINE P == K \cup {t}
<1>. SUFFICES /\ Newest(A \cup {t}, Trimmed(P))
              /\ Trimmed(P) \subseteq P
              /\ Cardinality(Trimmed(P)) >= 1
              /\ Cardinality(Trimmed(P)) =< Cardinality(K) + 1
  OBVIOUS
<1>1. /\ P \subseteq 0 .. MaxNow /\ P \subseteq Nat /\ t \in P
      /\ MaxEventsPerSession \in Nat \ {0}
  BY SessionsAssumption
<1>2. /\ IsFiniteSet(K) /\ Cardinality(K) \in Nat
      /\ IsFiniteSet(P) /\ Cardinality(P) \in Nat
      /\ \A L \in SUBSET P : IsFiniteSet(L) /\ Cardinality(L) \in Nat
  <2>. HIDE DEF P
  <2>. QED  BY <1>1, KeysFinite
<1>3. Cardinality(P) = IF t \in K THEN Cardinality(K) ELSE Cardinality(K) + 1
  BY <1>2, FS_AddElement
<1>4. Cardinality(P) # 0
  BY <1>1, <1>2, FS_EmptySet
<1>5. CASE Cardinality(P) =< MaxEventsPerSession
  <2>1. Trimmed(P) = P
    <3>. HIDE DEF P
    <3>1. \A k \in P : {j \in P : j < k} \in SUBSET P
      OBVIOUS
    <3>2. \A k \in P : Cardinality({j \in P : j < k}) \in Nat
      BY <1>2, <3>1
    <3>. QED  BY <1>1, <1>2, <1>5, <3>2 DEF Trimmed
  <2>2. A # K => t \in K
    BY <1>1, <1>2, <1>3, <1>5 DEF Newest
  <2>3. Newest(A \cup {t}, P)
    <3>1. CASE A = K
      BY <1>5, <3>1 DEF Newest
    <3>2. CASE t \in K
      <4>1. P = K /\ A \cup {t} = A
        BY <3>2 DEF Newest
      <4>. QED  BY <4>1
    <3>. QED  BY <2>2, <3>1, <3>2
  <2>4. Cardinality(P) >= 1 /\ Cardinality(P) =< Cardinality(K) + 1
    BY <1>2, <1>3, <1>4
  <2>. HIDE DEF P
  <2>. QED  BY <2>1, <2>3, <2>4
<1>6. CASE Cardinality(P) > MaxEventsPerSession
  <2>1. t \notin K /\ Cardinality(K) = MaxEventsPerSession
        /\ Cardinality(P) = MaxEventsPerSession + 1
    BY <1>1, <1>2, <1>3, <1>6 DEF Newest
  <2>2. PICK m \in P : \A y \in P : m =< y
    BY <1>1, LeastNat
  <2>3. Trimmed(P) = P \ {m}
    <3>. HIDE DEF P
    <3>1. \A k \in P : {j \in P : j < k} \in SUBSET P
      OBVIOUS
    <3>2. \A k \in P : Cardinality({j \in P : j < k}) \in Nat
                       /\ IsFiniteSet({j \in P : j < k})
      BY <1>2, <3>1
    <3>3. {j \in P : j < m} = {}
      <4>1. \A j \in P : j \in Nat /\ m \in Nat /\ m =< j
        BY <1>1, <2>2
      <4>. QED  BY <4>1
    <3>4. Cardinality({j \in P : j < m}) = 0
      BY <3>3, FS_EmptySet
    <3>5. \A k \in P \ {m} : Cardinality({j \in P : j < k}) # 0
      <4>. SUFFICES ASSUME NEW k \in P \ {m} PROVE Cardinality({j \in P : j < k}) # 0
        OBVIOUS
      <4>1. m \in {j \in P : j < k}
        BY <1>1, <2>2
      <4>. QED  BY <3>2, <4>1, FS_EmptySet
    <3>6. Cardinality(P) - MaxEventsPerSession = 1
      BY <1>1, <2>1
    <3>7. \A k \in P : k # m <=> Cardinality({j \in P : j < k}) >= 1
      BY <3>2, <3>4, <3>5
    <3>. QED  BY <3>6, <3>7 DEF Trimmed
  <2>4. Cardinality(P \ {m}) = MaxEventsPerSession
    <3>. HIDE DEF P
    <3>1. Cardinality(P \ {m}) = Cardinality(P) - 1
      BY <1>2, <2>2, FS_RemoveElement
    <3>. QED  BY <1>1, <2>1, <3>1
  <2>5. ASSUME NEW a \in (A \cup {t}) \ (P \ {m}), NEW k \in P \ {m}
        PROVE  a < k
    <3>1. m < k
      BY <1>1, <2>2
    <3>2. CASE a = m
      BY <3>1, <3>2
    <3>3. CASE a \in A \ K
      <4>1. k \in K => a < k
        BY <3>3 DEF Newest
      <4>2. k \notin K => k = t /\ m \in K
        BY <2>2, <3>1
      <4>3. m \in K => a < m
        BY <3>3 DEF Newest
      <4>. QED  BY <1>1, <3>1, <4>1, <4>2, <4>3
    <3>. QED  BY <3>2, <3>3
  <2>6. Newest(A \cup {t}, P \ {m})
    <3>1. P \ {m} \subseteq A \cup {t}
      BY DEF Newest
    <3>2. Cardinality(P \ {m}) =< MaxEventsPerSession
      BY <1>1, <2>4
    <3>. QED  BY <2>4, <2>5, <3>1, <3>2 DEF Newest
  <2>7. Cardinality(P \ {m}) >= 1 /\ Cardinality(P \ {m}) =< Cardinality(K) + 1
    BY <1>1, <2>1, <2>4
  <2>. HIDE DEF P
  <2>. QED  BY <2>3, <2>6, <2>7
<1>7. Cardinality(P) =< MaxEventsPerSession \/ Cardinality(P) > MaxEventsPerSession
  BY <1>1, <1>2
<1>. QED  BY <1>5, <1>6, <1>7

-----------------------------------------------------------------------------
(* AppendEvent *)

\* The keys of a session's events, none if it has no bucket.
KeysOf(id) == IF id \in DOMAIN events THEN DOMAIN events[id] ELSE {}

\* What AppendEvent stores for a session.
LEMMA StoredFacts ==
    ASSUME IInv, NEW id \in Id, NEW evt \in Event, evt.ts \in 0 .. MaxNow
    PROVE  LET eb == enforceBound(PutEvent(id, evt))
           IN  /\ DOMAIN eb = Trimmed(KeysOf(id) \cup {evt.ts})
               /\ Stamped(eb)
               /\ Newest(Stamps(recorded[id] \cup {evt}), DOMAIN eb)
               /\ Cardinality(DOMAIN eb) >= 1
               /\ Cardinality(DOMAIN eb) =< Cardinality(KeysOf(id)) + 1
<1>. DEFINE put == PutEvent(id, evt)
            eb  == enforceBound(put)
            K   == KeysOf(id)
            t   == evt.ts
            A   == Stamps(recorded[id])
<1>1. encodeTS(t) = t
  BY EncodeFits
<1>2. /\ DOMAIN put = K \cup {t}
      /\ \A k \in K \cup {t} : put[k] = IF k = t THEN evt ELSE events[id][k]
  BY <1>1 DEF PutEvent, KeysOf
<1>3. K \subseteq 0 .. MaxNow
  BY DEF IInv, EventsInv, Stamped, KeysOf
<1>4. Stamped(put)
  <2>1. \A k \in K : events[id][k] \in Event /\ events[id][k].ts = k
    BY DEF IInv, EventsInv, Stamped, KeysOf
  <2>. HIDE DEF put, K
  <2>. QED  BY <1>2, <1>3, <2>1 DEF Stamped
<1>5. DOMAIN eb = Trimmed(DOMAIN put) /\ \A k \in DOMAIN eb : eb[k] = put[k]
  <2>. HIDE DEF put
  <2>. QED  BY DEF enforceBound, Trimmed
<1>6. recorded[id] \subseteq Event
  BY DEF IInv, SessionsTypeOK
<1>7. A \subseteq Int
  BY <1>6 DEF Stamps, Event
<1>8. Newest(A, K)
  <2>1. CASE id \in DOMAIN events
    BY <2>1 DEF IInv, EventsInv, KeysOf
  <2>2. CASE id \notin DOMAIN events
    <3>1. K = {} /\ A = {}
      BY <2>2 DEF IInv, BucketsAgree, RecordedInv, KeysOf, Stamps
    <3>2. Cardinality({}) =< MaxEventsPerSession
      BY FS_EmptySet, SessionsAssumption
    <3>. QED  BY <3>1, <3>2 DEF Newest
  <2>. QED  BY <2>1, <2>2
<1>9. Stamps(recorded[id] \cup {evt}) = A \cup {t}
  BY DEF Stamps
<1>. HIDE DEF put, eb, K, t, A
<1>10. /\ Newest(A \cup {t}, Trimmed(K \cup {t}))
       /\ Trimmed(K \cup {t}) \subseteq K \cup {t}
       /\ Cardinality(Trimmed(K \cup {t})) >= 1
       /\ Cardinality(Trimmed(K \cup {t})) =< Cardinality(K) + 1
  <2>1. t \in 0 .. MaxNow
    BY DEF t
  <2>. QED  BY <1>3, <1>7, <1>8, <2>1, TrimKeepsNewest
<1>11. Stamped(eb)
  BY <1>2, <1>4, <1>5, <1>10 DEF Stamped
<1>. QED  BY <1>2, <1>5, <1>9, <1>10, <1>11 DEF put, eb, K, t, A

LEMMA AppendStep ==
    ASSUME IInv, NEW id \in Id, NEW evt \in Event, evt.ts \in 0 .. now,
           now - MaxLag =< evt.ts, AppendEvent(id, evt)
    PROVE  IInv'
<1>. DEFINE eb == enforceBound(PutEvent(id, evt))
<1>1. now \in Nat /\ now =< MaxNow /\ evt.ts \in 0 .. MaxNow
      /\ evt.ts \in Int /\ MaxLag \in Nat /\ Retention \in Nat /\ MaxNow \in Nat
  BY SessionsAssumption DEF IInv, SessionsTypeOK
<1>2. /\ DOMAIN eb = Trimmed(KeysOf(id) \cup {evt.ts})
      /\ Stamped(eb)
      /\ Newest(Stamps(recorded[id] \cup {evt}), DOMAIN eb)
      /\ Cardinality(DOMAIN eb) >= 1
      /\ Cardinality(DOMAIN eb) =< Cardinality(KeysOf(id)) + 1
  BY <1>1, StoredFacts
<1>3. /\ DOMAIN sessions' = DOMAIN sessions \cup {id}
      /\ sessions'[id] = Upsert(id, evt)
      /\ \A i \in DOMAIN sessions \ {id} : sessions'[i] = sessions[i]
  BY DEF AppendEvent
<1>4. /\ DOMAIN events' = DOMAIN events \cup {id}
      /\ events'[id] = eb
      /\ \A i \in DOMAIN events \ {id} : events'[i] = events[i]
  BY DEF AppendEvent
<1>. HIDE DEF eb
<1>5. /\ recorded \in [Id -> SUBSET Event] /\ activity \in [Id -> Int]
      /\ DOMAIN sessions \subseteq Id /\ DOMAIN events = DOMAIN sessions
  BY DEF IInv, SessionsTypeOK, BucketsAgree
<1>6. /\ recorded' \in [Id -> SUBSET Event] /\ activity' \in [Id -> Int]
      /\ recorded'[id] = recorded[id] \cup {evt} /\ activity'[id] = now
      /\ \A i \in Id \ {id} : recorded'[i] = recorded[i] /\ activity'[i] = activity[i]
  BY <1>1, <1>5 DEF AppendEvent
<1>7. /\ Upsert(id, evt) \in [FirstSeen : Int, LastSeen : Int, EventCount : Nat \ {0}]
      /\ Upsert(id, evt).LastSeen = evt.ts
      /\ Upsert(id, evt).EventCount =
            IF id \in DOMAIN sessions THEN sessions[id].EventCount + 1 ELSE 1
  BY <1>1 DEF IInv, SessionsTypeOK, Upsert
<1>8. SessionsTypeOK'
  <2>1. \A k \in DOMAIN eb : k \in 0 .. 2^Width - 1
    BY <1>2, SessionsAssumption DEF Stamped
  <2>2. \A i \in DOMAIN events' :
           /\ DOMAIN events'[i] \subseteq 0 .. 2^Width - 1
           /\ \A k \in DOMAIN events'[i] : events'[i][k] \in Event
    BY <1>2, <1>4, <2>1 DEF IInv, SessionsTypeOK, Stamped
  <2>3. \A i \in DOMAIN sessions' :
           sessions'[i] \in [FirstSeen : Int, LastSeen : Int, EventCount : Nat \ {0}]
    BY <1>3, <1>7 DEF IInv, SessionsTypeOK
  <2>4. /\ db \in {"open", "closed"} /\ closed \in BOOLEAN /\ loop \in {"off", "select"}
        /\ ticks \subseteq 0 .. now /\ now \in 0 .. MaxNow
    BY DEF IInv, SessionsTypeOK
  <2>. QED  BY <1>3, <1>4, <1>5, <1>6, <2>2, <2>3, <2>4 DEF SessionsTypeOK, AppendEvent
<1>9. BucketsAgree'
  <2>1. \A i \in DOMAIN sessions :
           /\ Cardinality(DOMAIN events[i]) >= 1
           /\ sessions[i].EventCount >= Cardinality(DOMAIN events[i])
    BY DEF IInv, BucketsAgree
  <2>2. Upsert(id, evt).EventCount >= Cardinality(DOMAIN eb)
    <3>1. DOMAIN eb \subseteq 0 .. MaxNow /\ KeysOf(id) \subseteq 0 .. MaxNow
      BY <1>2 DEF IInv, EventsInv, Stamped, KeysOf
    <3>2. Cardinality(DOMAIN eb) \in Nat /\ Cardinality(KeysOf(id)) \in Nat
      BY <3>1, KeysFinite
    <3>3. CASE id \in DOMAIN sessions
      <4>1. KeysOf(id) = DOMAIN events[id] /\ sessions[id].EventCount \in Nat
        BY <1>5, <3>3 DEF KeysOf, IInv, SessionsTypeOK
      <4>. QED  BY <1>2, <1>7, <2>1, <3>2, <3>3, <4>1
    <3>4. CASE id \notin DOMAIN sessions
      <4>1. Cardinality(KeysOf(id)) = 0
        BY <1>5, <3>4, FS_EmptySet DEF KeysOf
      <4>. QED  BY <1>2, <1>7, <3>2, <3>4, <4>1
    <3>. QED  BY <3>3, <3>4
  <2>. QED  BY <1>2, <1>3, <1>4, <1>5, <2>1, <2>2 DEF BucketsAgree
<1>10. EventsInv'
  BY <1>2, <1>4, <1>5, <1>6 DEF IInv, EventsInv
<1>11. RecordedInv'
  <2>1. Stamps(recorded[id] \cup {evt}) = Stamps(recorded[id]) \cup {evt.ts}
    BY DEF Stamps
  <2>. QED  BY <1>1, <1>3, <1>6, <2>1 DEF IInv, RecordedInv
<1>12. ActivityInv'
  BY <1>1, <1>3, <1>6, <1>7 DEF IInv, ActivityInv, AppendEvent
<1>. QED  BY <1>8, <1>9, <1>10, <1>11, <1>12 DEF IInv

-----------------------------------------------------------------------------
(* The other steps *)

\* A sweep removes records and buckets of the same sessions, and none that
\* may still count as live: its tick is never ahead of the clock.
LEMMA SweepStep ==
    ASSUME IInv, runRetentionOnce
    PROVE  IInv'
<1>1. PICK t \in ticks :
         LET kept == {id \in DOMAIN sessions : ~ Stale(id, t - Retention)}
         IN  /\ sessions' = [id \in kept |-> sessions[id]]
             /\ events' = [id \in DOMAIN events \ (DOMAIN sessions \ kept) |-> events[id]]
             /\ recorded' = [id \in Id |-> IF id \in kept THEN recorded[id] ELSE {}]
  BY DEF runRetentionOnce
<1>. DEFINE kept == {id \in DOMAIN sessions : ~ Stale(id, t - Retention)}
<1>2. /\ t \in Nat /\ t =< now /\ now \in Nat /\ MaxLag \in Nat /\ Retention \in Nat
      /\ activity \in [Id -> Int] /\ recorded \in [Id -> SUBSET Event]
      /\ DOMAIN sessions \subseteq Id /\ DOMAIN events = DOMAIN sessions
      /\ \A id \in DOMAIN sessions : sessions[id].LastSeen \in Int
  BY SessionsAssumption DEF IInv, SessionsTypeOK, BucketsAgree
<1>3. /\ kept \subseteq DOMAIN sessions
      /\ \A id \in DOMAIN sessions \ kept : sessions[id].LastSeen < t - Retention
  BY DEF Stale
<1>4. /\ DOMAIN sessions' = kept /\ DOMAIN events' = kept
      /\ \A id \in kept : sessions'[id] = sessions[id] /\ events'[id] = events[id]
      /\ \A id \in Id : recorded'[id] = IF id \in kept THEN recorded[id] ELSE {}
      /\ recorded' \in [Id -> SUBSET Event]
      /\ ticks' = {} /\ UNCHANGED <<db, closed, loop, now, activity>>
  BY <1>1, <1>2 DEF runRetentionOnce
<1>. HIDE DEF kept
<1>5. SessionsTypeOK'
  BY <1>2, <1>3, <1>4 DEF IInv, SessionsTypeOK
<1>6. BucketsAgree'
  BY <1>3, <1>4 DEF IInv, BucketsAgree
<1>7. EventsInv'
  BY <1>2, <1>3, <1>4 DEF IInv, EventsInv
<1>8. RecordedInv'
  <2>1. Stamps({}) \subseteq 0 .. MaxNow
    BY DEF Stamps
  <2>. QED  BY <1>4, <2>1 DEF IInv, RecordedInv
<1>9. ActivityInv'
  <2>. SUFFICES ASSUME NEW id \in Id
                PROVE  /\ activity[id] >= 0 /\ activity[id] - MaxLag >= now - Retention
                             => id \in kept
                       /\ id \in kept => sessions[id].LastSeen >= activity[id] - MaxLag
    BY <1>4 DEF ActivityInv
  <2>1. /\ activity[id] >= 0 /\ activity[id] - MaxLag >= now - Retention
              => id \in DOMAIN sessions
        /\ id \in DOMAIN sessions => sessions[id].LastSeen >= activity[id] - MaxLag
    BY DEF IInv, ActivityInv
  <2>2. activity[id] \in Int
    BY <1>2
  <2>. QED  BY <1>2, <1>3, <2>1, <2>2
<1>. QED  BY <1>5, <1>6, <1>7, <1>8, <1>9 DEF IInv

LEMMA IInvInit == Init => IInv
<1>. SUFFICES ASSUME Init PROVE IInv
  OBVIOUS
<1>1. DOMAIN sessions = {} /\ DOMAIN events = {}
  BY DEF Init
<1>2. SessionsTypeOK
  BY <1>1, SessionsAssumption DEF Init, SessionsTypeOK
<1>3. RecordedInv
  BY DEF Init, RecordedInv, Stamps
<1>. QED  BY <1>1, <1>2, <1>3
          DEF Init, IInv, BucketsAgree, EventsInv, ActivityInv

LEMMA IInvStep == IInv /\ [Next]_vars => IInv'
<1>. SUFFICES ASSUME IInv, [Next]_vars PROVE IInv'
  OBVIOUS
<1>1. CASE Arrive
  <2>1. PICK id \in Id, n \in Name, lag \in 0 .. MaxLag :
           lag =< now /\ AppendEvent(id, [name |-> n, ts |-> now - lag])
    BY <1>1 DEF Arrive
  <2>. DEFINE evt == [name |-> n, ts |-> now - lag]
  <2>2. now \in Nat /\ MaxLag \in Nat
    BY SessionsAssumption DEF IInv, SessionsTypeOK
  <2>3. evt \in Event /\ evt.ts \in 0 .. now /\ now - MaxLag =< evt.ts
    BY <2>1, <2>2 DEF Event
  <2>4. AppendEvent(id, evt)
    BY <2>1
  <2>. HIDE DEF evt
  <2>. QED  BY <2>3, <2>4, AppendStep
<1>2. CASE runRetentionOnce
  BY <1>2, SweepStep
<1>3. CASE Tick
  <2>1. now \in Nat /\ MaxNow \in Nat /\ Retention \in Nat /\ MaxLag \in Nat
        /\ now' = now + 1 /\ now' =< MaxNow /\ activity \in [Id -> Int]
    BY <1>3, SessionsAssumption DEF Tick, IInv, SessionsTypeOK
  <2>2. SessionsTypeOK'
    BY <1>3, <2>1 DEF Tick, IInv, SessionsTypeOK
  <2>3. ActivityInv'
    BY <1>3, <2>1 DEF Tick, IInv, ActivityInv
  <2>. QED  BY <1>3, <2>2, <2>3
            DEF Tick, IInv, BucketsAgree, EventsInv, RecordedInv
<1>4. CASE NewBBoltStore \/ Close \/ CloseDB \/ Crash \/ Fire \/ SweepFails \/ LoopStop
           \/ UNCHANGED vars
  <2>1. UNCHANGED <<sessions, events, now, recorded, activity>>
    BY <1>4 DEF NewBBoltStore, Close, CloseDB, Crash, Fire, SweepFails, LoopStop, vars
  <2>2. /\ db' \in {"open", "closed"} /\ closed' \in BOOLEAN
        /\ loop' \in {"off", "select"} /\ ticks' \subseteq 0 .. now
    <3>1. /\ db \in {"open", "closed"} /\ closed \in BOOLEAN
          /\ loop \in {"off", "select"} /\ ticks \subseteq 0 .. now /\ now \in Nat
      BY SessionsAssumption DEF IInv, SessionsTypeOK
    <3>2. CASE NewBBoltStore
      BY <3>1, <3>2 DEF NewBBoltStore
    <3>3. CASE Close \/ CloseDB \/ Crash
      BY <3>1, <3>3 DEF Close, CloseDB, Crash
    <3>4. CASE Fire
      BY <3>1, <3>4 DEF Fire
    <3>5. CASE SweepFails \/ LoopStop \/ UNCHANGED vars
      BY <3>1, <3>5 DEF SweepFails, LoopStop, vars
    <3>. QED  BY <1>4, <3>2, <3>3, <3>4, <3>5
  <2>3. SessionsTypeOK'
    BY <2>1, <2>2 DEF IInv, SessionsTypeOK
  <2>. QED  BY <2>1, <2>3 DEF IInv, BucketsAgree, EventsInv, RecordedInv, ActivityInv
<1>. QED  BY <1>1, <1>2, <1>3, <1>4 DEF Next, retentionLoop

LEMMA IInvAlways == Spec => []IInv
BY IInvInit, IInvStep, PTL DEF Spec

-----------------------------------------------------------------------------
(* Theorems *)

\* Type correctness of the two buckets, the loop and the ticker.
THEOREM SessionsTypeCorrect == Spec => []SessionsTypeOK
<1>1. IInv => SessionsTypeOK
  BY DEF IInv
<1>. QED  BY <1>1, IInvAlways, PTL

\* The sessions bucket and the events bucket hold the same sessions, through
\* any appends, sweeps and crashes, and no record counts too few events.
THEOREM BucketsInStep == Spec => []BucketsAgree
<1>1. IInv => BucketsAgree
  BY DEF IInv
<1>. QED  BY <1>1, IInvAlways, PTL

\* enforceBound leaves the newest of all events ever recorded for a session,
\* for any bound and in whatever order they arrive.
THEOREM BoundKeepsNewest == Spec => []NewestKept
<1>1. IInv => NewestKept
  <2>. SUFFICES ASSUME IInv, NEW id \in DOMAIN events
                PROVE  {events[id][k].ts : k \in DOMAIN events[id]} =
                       {t \in {e.ts : e \in recorded[id]} :
                          Cardinality({u \in {e.ts : e \in recorded[id]} : u > t})
                             < MaxEventsPerSession}
    BY DEF NewestKept
  <2>. DEFINE A == Stamps(recorded[id])
              K == DOMAIN events[id]
  <2>1. Newest(A, K) /\ Stamped(events[id])
    BY DEF IInv, EventsInv
  <2>2. K \subseteq 0 .. MaxNow /\ {events[id][k].ts : k \in K} = K
    BY <2>1 DEF Stamped
  <2>3. A \subseteq 0 .. MaxNow
    BY DEF IInv, SessionsTypeOK, RecordedInv
  <2>4. A = {e.ts : e \in recorded[id]}
    BY DEF Stamps
  <2>. HIDE DEF A, K
  <2>5. /\ IsFiniteSet(K) /\ Cardinality(K) \in Nat /\ MaxEventsPerSession \in Nat
        /\ \A L \in SUBSET K : IsFiniteSet(L) /\ Cardinality(L) \in Nat
        /\ K \subseteq Nat /\ A \subseteq Nat
        /\ \A L \in SUBSET A : IsFiniteSet(L) /\ Cardinality(L) \in Nat
    BY <2>2, <2>3, KeysFinite, SessionsAssumption
  <2>6. ASSUME NEW t \in K
        PROVE  t \in A /\ Cardinality({u \in A : u > t}) < MaxEventsPerSession
    <3>1. {u \in A : u > t} \in SUBSET (K \ {t})
      <4>1. \A u \in A \ K : u < t
        BY <2>1 DEF Newest
      <4>2. \A u \in A : u > t => u \in K /\ u # t
        BY <2>5, <4>1
      <4>. QED  BY <4>2
    <3>2. IsFiniteSet(K \ {t}) /\ Cardinality(K \ {t}) = Cardinality(K) - 1
      BY <2>5, FS_RemoveElement
    <3>3. /\ Cardinality({u \in A : u > t}) =< Cardinality(K \ {t})
      BY <3>1, <3>2, FS_Subset
    <3>4. Cardinality({u \in A : u > t}) \in Nat
      BY <2>5, <3>1
    <3>. QED  BY <2>1, <2>5, <3>2, <3>3, <3>4 DEF Newest
  <2>7. ASSUME NEW t \in A \ K, Cardinality({u \in A : u > t}) < MaxEventsPerSession
        PROVE  FALSE
    <3>1. Cardinality(K) = MaxEventsPerSession
      BY <2>1 DEF Newest
    <3>2. {u \in A : u > t} \in SUBSET A
      OBVIOUS
    <3>3. K \in SUBSET {u \in A : u > t}
      <4>1. \A k \in K : k \in A /\ t < k
        BY <2>1 DEF Newest
      <4>. QED  BY <2>5, <4>1
    <3>4. Cardinality(K) =< Cardinality({u \in A : u > t})
      BY <2>5, <3>2, <3>3, FS_Subset
    <3>5. Cardinality({u \in A : u > t}) \in Nat
      BY <2>5, <3>2
    <3>. QED  BY <2>5, <2>7, <3>1, <3>4, <3>5
  <2>8. K = {t \in A : Cardinality({u \in A : u > t}) < MaxEventsPerSession}
    BY <2>6, <2>7
  <2>. QED  BY <2>2, <2>4, <2>8 DEF K
<1>. QED  BY <1>1, IInvAlways, PTL

\* A session with a recent event is listed, for any lag and retention period.
THEOREM ActiveSessionsListed == Spec => []ActiveListed
<1>1. IInv => ActiveListed
  <2>. SUFFICES ASSUME IInv, NEW id \in Id, NEW d \in 0 .. Retention,
                       d + MaxLag =< Retention, activity[id] >= 0,
                       activity[id] >= now - d, now - d - MaxLag >= 0
                PROVE  id \in ListSessions(now - d - MaxLag)
    BY DEF ActiveListed
  <2>1. /\ now \in Nat /\ MaxLag \in Nat /\ Retention \in Nat /\ activity[id] \in Int
        /\ id \in DOMAIN sessions => sessions[id].LastSeen \in Int
    BY SessionsAssumption DEF IInv, SessionsTypeOK
  <2>2. id \in DOMAIN sessions /\ sessions[id].LastSeen >= activity[id] - MaxLag
    BY <2>1 DEF IInv, ActivityInv
  <2>. QED  BY <2>1, <2>2 DEF ListSessions
<1>. QED  BY <1>1, IInvAlways, PTL

\* A page of events is a stretch of time without a hole, for any since and
\* limit, because an event is stored under its own timestamp.
THEOREM PagesInOrder == Spec => []PagesFollowTime
<1>1. IInv => PagesFollowTime
  <2>. SUFFICES ASSUME IInv, NEW id \in DOMAIN events, NEW since \in 0 .. now,
                       NEW limit \in 0 .. MaxEventsPerSession
                PROVE  LET got  == GetEvents(id, since, limit)
                           rest == {events[id][k] : k \in DOMAIN events[id]} \ got
                       IN  /\ \A e \in got : e.ts >= since
                           /\ \A e \in rest : e.ts < since \/ \A g \in got : g.ts < e.ts
    BY DEF PagesFollowTime
  <2>. DEFINE K    == DOMAIN events[id]
              max  == IF limit =< 0 THEN DefaultLimit ELSE limit
              from == {k \in K : k >= since}
              top  == {k \in from : Cardinality({j \in from : j < k}) < max}
  <2>1. /\ now \in 0 .. MaxNow /\ since \in 0 .. MaxNow /\ since \in Nat /\ max \in Nat
    BY SessionsAssumption DEF IInv, SessionsTypeOK
  <2>2. K \subseteq 0 .. MaxNow /\ \A k \in K : events[id][k].ts = k
    BY DEF IInv, EventsInv, Stamped
  <2>3. encodeTS(since) = since
    BY <2>1, EncodeFits
  <2>4. K \subseteq Nat
    BY <2>2, KeysFinite
  <2>5. {k \in K : since # 0 => k >= encodeTS(since)} = from
    BY <2>1, <2>3, <2>4
  <2>6. GetEvents(id, since, limit) = {events[id][k] : k \in top}
    BY <2>5 DEF GetEvents
  <2>. HIDE DEF K, max
  <2>7. \A k \in top : k \in K /\ k >= since
    OBVIOUS
  <2>8. ASSUME NEW k \in K \ top, NEW l \in top, ~ (k < since)
        PROVE  l < k
    <3>1. k \in from /\ l \in from /\ k \in Nat /\ l \in Nat
      BY <2>1, <2>4, <2>8
    <3>. HIDE DEF from
    <3>2. SUFFICES ASSUME k =< l PROVE FALSE
      BY <3>1
    <3>3. from \subseteq K /\ from \subseteq Nat
      BY <2>4 DEF from
    <3>4. {j \in from : j < l} \in SUBSET K /\ {j \in from : j < k} \in SUBSET K
      BY <3>3
    <3>5. /\ IsFiniteSet({j \in from : j < l})
          /\ Cardinality({j \in from : j < l}) \in Nat
          /\ Cardinality({j \in from : j < k}) \in Nat
      BY <2>2, <3>4, KeysFinite
    <3>6. {j \in from : j < k} \in SUBSET {j \in from : j < l}
      <4>1. \A j \in from : j \in Nat /\ (j < k => j < l)
        BY <3>1, <3>2, <3>3
      <4>. QED  BY <4>1
    <3>7. Cardinality({j \in from : j < k}) =< Cardinality({j \in from : j < l})
      BY <3>5, <3>6, FS_Subset
    <3>. QED  BY <2>1, <2>8, <3>1, <3>5, <3>7
  <2>. HIDE DEF from, top
  <2>9. \A e \in {events[id][k] : k \in top} : e.ts >= since
    BY <2>2, <2>7
  <2>10. \A e \in {events[id][k] : k \in K} \ {events[id][k] : k \in top} :
            e.ts < since \/ \A g \in {events[id][k] : k \in top} : g.ts < e.ts
    <3>. SUFFICES ASSUME NEW e \in {events[id][k] : k \in K}
                                   \ {events[id][k] : k \in top},
                         NEW g \in {events[id][k] : k \in top}, ~ (e.ts < since)
                  PROVE  g.ts < e.ts
      OBVIOUS
    <3>1. PICK k \in K : e = events[id][k]
      OBVIOUS
    <3>2. PICK l \in top : g = events[id][l]
      OBVIOUS
    <3>3. k \notin top
      BY <3>1
    <3>4. e.ts = k /\ g.ts = l
      BY <2>2, <2>7, <3>1, <3>2
    <3>. QED  BY <2>8, <3>3, <3>4
  <2>. QED  BY <2>6, <2>9, <2>10 DEF K
<1>. QED  BY <1>1, IInvAlways, PTL

=============================================================================
