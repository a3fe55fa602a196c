------------------------------ MODULE Sessions ------------------------------
(***************************************************************************)
(* The event store of internal/sessions/bbolt_store.go: one bucket with a  *)
(* record per session, one nested bucket of events per session, a bound on *)
(* the events of a session and a loop that evicts sessions by age.         *)
(*                                                                         *)
(* bbolt (external) runs one writing transaction at a time and commits it  *)
(* as a whole, so each Update is one step; a transaction that fails, and   *)
(* an event refused for its empty session id, change nothing.              *)
(***************************************************************************)
EXTENDS Integers, FiniteSets

CONSTANTS
    Id,                  \* session ids
    Name,                \* what tells events of one timestamp apart
    MaxEventsPerSession, \* cfg.MaxEventsPerSession
    DefaultLimit,        \* defaultGetEventsLimit
    Retention,           \* cfg.Retention; 0: no retention loop
    Width,               \* bits of an encoded timestamp (64 in the code)
    MaxLag,              \* an event arrives at most this long after its timestamp
    MaxNow,              \* bound: the clock
    MaxAppends           \* bound: events of one session record

ASSUME SessionsAssumption ==
    /\ MaxEventsPerSession \in Nat \ {0}
    /\ DefaultLimit \in Nat \ {0}
    /\ Retention \in Nat
    /\ Width \in Nat
    /\ 2^Width \in Nat \ {0}
    /\ MaxNow < 2^Width       \* timestamps fit, as UnixNano does from 1970 on
    /\ MaxLag \in Nat
    /\ MaxNow \in Nat
    /\ MaxAppends \in Nat

VARIABLES
    db,        \* the bbolt file: "open" or "closed"
    closed,    \* s.closed, and s.stop with it
    loop,      \* retentionLoop: "off" (not started, or returned) or "select"
    ticks,     \* ticker.C, a channel of one slot: the tick not yet received
    sessions,  \* bucket "sessions": id -> record
    events,    \* bucket "events": id -> encoded timestamp -> event
    now,       \* the clock
    recorded,  \* per session record: the events AppendEvent accepted for it
    activity   \* per session id: when AppendEvent last accepted an event

vars == <<db, closed, loop, ticks, sessions, events, now, recorded, activity>>

Event == [name : Name, ts : Int]

SessionsTypeOK ==
    /\ db \in {"open", "closed"}
    /\ closed \in BOOLEAN
    /\ loop \in {"off", "select"}
    /\ ticks \subseteq 0 .. now
    /\ DOMAIN sessions \subseteq Id
    /\ \A id \in DOMAIN sessions :
          sessions[id] \in [FirstSeen : Int, LastSeen : Int, EventCount : Nat \ {0}]
    /\ DOMAIN events \subseteq Id
    /\ \A id \in DOMAIN events :
          /\ DOMAIN events[id] \subseteq 0 .. 2^Width - 1
          /\ \A k \in DOMAIN events[id] : events[id][k] \in Event
    /\ now \in 0 .. MaxNow
    /\ recorded \in [Id -> SUBSET Event]
    /\ activity \in [Id -> Int]

Init ==
    /\ db = "closed"
    /\ closed = TRUE
    /\ loop = "off"
    /\ ticks = {}
    /\ sessions = << >>
    /\ events = << >>
    /\ now = 0
    /\ recorded = [id \in Id |-> {}]
    /\ activity = [id \in Id |-> -1]

-----------------------------------------------------------------------------
(* Opening and closing *)

NewBBoltStore ==
    /\ db = "closed"
    /\ db' = "open"
    /\ closed' = FALSE
    /\ ticks' = {}
    /\ loop' = IF Retention > 0 THEN "select" ELSE "off"
    /\ UNCHANGED <<sessions, events, now, recorded, activity>>

\* Close up to wg.Wait.
Close ==
    /\ db = "open"
    /\ ~ closed
    /\ closed' = TRUE
    /\ UNCHANGED <<db, loop, ticks, sessions, events, now, recorded, activity>>

\* wg.Wait returns and the file is closed.
CloseDB ==
    /\ db = "open"
    /\ closed
    /\ loop = "off"
    /\ db' = "closed"
    /\ UNCHANGED <<closed, loop, ticks, sessions, events, now, recorded, activity>>

\* The process dies: the file holds what was committed.
Crash ==
    /\ db = "open"
    /\ db' = "closed"
    /\ closed' = TRUE
    /\ loop' = "off"
    /\ ticks' = {}
    /\ UNCHANGED <<sessions, events, now, recorded, activity>>

-----------------------------------------------------------------------------
(* AppendEvent *)

\* uint64(UnixNano()), whose big-endian bytes the bucket is ordered by.
encodeTS(t) == t % 2^Width

Upsert(id, evt) ==
    [FirstSeen  |-> IF id \in DOMAIN sessions THEN sessions[id].FirstSeen ELSE evt.ts,
     LastSeen   |-> evt.ts,
     EventCount |-> IF id \in DOMAIN sessions THEN sessions[id].EventCount + 1 ELSE 1]

\* Put of a key that is there replaces its value.
PutEvent(id, evt) ==
    LET old == IF id \in DOMAIN events THEN events[id] ELSE << >>
        key == encodeTS(evt.ts)
    IN  [k \in DOMAIN old \cup {key} |-> IF k = key THEN evt ELSE old[k]]

\* Slip: the excess is counted from the end of the bucket.
enforceBound_FromEnd(eb) ==
    LET excess == Cardinality(DOMAIN eb) - MaxEventsPerSession
        last(k) == Cardinality({j \in DOMAIN eb : j > k})
    IN  [k \in {k \in DOMAIN eb : last(k) >= excess} |-> eb[k]]

\* The keys beyond the bound are deleted from the front.
enforceBound(eb) ==
    LET excess == Cardinality(DOMAIN eb) - MaxEventsPerSession
        first(k) == Cardinality({j \in DOMAIN eb : j < k})
    IN  [k \in {k \in DOMAIN eb : first(k) >= excess} |-> eb[k]]

AppendEvent(id, evt) ==
    /\ db = "open"
    /\ sessions' = [i \in DOMAIN sessions \cup {id} |->
                       IF i = id THEN Upsert(id, evt) ELSE sessions[i]]
    /\ events' = [i \in DOMAIN events \cup {id} |->
                       IF i = id THEN enforceBound(PutEvent(id, evt)) ELSE events[i]]
    /\ recorded' = [recorded EXCEPT ![id] = @ \cup {evt}]
    /\ activity' = [activity EXCEPT ![id] = now]
    /\ UNCHANGED <<db, closed, loop, ticks, now>>

\* An event carries its own timestamp, up to MaxLag old on arrival.
Arrive ==
    \E id \in Id, n \in Name, lag \in 0 .. MaxLag :
       /\ lag =< now
       /\ id \in DOMAIN sessions => sessions[id].EventCount < MaxAppends
       /\ AppendEvent(id, [name |-> n, ts |-> now - lag])

-----------------------------------------------------------------------------
(* Retention *)

\* The ticker drops a tick when the previous one is still in the channel.
Fire ==
    /\ loop = "select"
    /\ ticks = {}
    /\ ticks' = {now}
    /\ UNCHANGED <<db, closed, loop, sessions, events, now, recorded, activity>>

\* Slip: the cutoff itself counts as stale.
Stale_AtCutoff(id, cutoff) == sessions[id].LastSeen =< cutoff

Stale(id, cutoff) == sessions[id].LastSeen < cutoff

\* Slip: the nested bucket of an evicted session stays.
runRetentionOnce_KeepsEvents ==
    /\ loop = "select"
    /\ \E t \in ticks :
       LET kept == {id \in DOMAIN sessions : ~ Stale(id, t - Retention)}
       IN  /\ sessions' = [id \in kept |-> sessions[id]]
           /\ recorded' = [id \in Id |-> IF id \in kept THEN recorded[id] ELSE {}]
    /\ ticks' = {}
    /\ UNCHANGED <<db, closed, loop, events, now, activity>>

\* One sweep, at the time the tick carries.  Like select itself it may be
\* chosen although s.stop is closed.
runRetentionOnce ==
    /\ loop = "select"
    /\ \E t \in ticks :
       LET kept == {id \in DOMAIN sessions : ~ Stale(id, t - Retention)}
       IN  /\ sessions' = [id \in kept |-> sessions[id]]
           /\ events' = [id \in DOMAIN events \ (DOMAIN sessions \ kept) |-> events[id]]
           /\ recorded' = [id \in Id |-> IF id \in kept THEN recorded[id] ELSE {}]
    /\ ticks' = {}
    /\ UNCHANGED <<db, closed, loop, now, activity>>

\* Slip: the loop returns when a sweep fails.
SweepFails_Returns ==
    /\ loop = "select"
    /\ ticks # {}
    /\ ticks' = {}
    /\ loop' = "off"
    /\ UNCHANGED <<db, closed, sessions, events, now, recorded, activity>>

\* The sweep's transaction fails: a warning, and the next tick tries again.
SweepFails ==
    /\ loop = "select"
    /\ ticks # {}
    /\ ticks' = {}
    /\ UNCHANGED <<db, closed, loop, sessions, events, now, recorded, activity>>

\* Slip: the loop waits for the file to be closed.
LoopStop_TooLate ==
    /\ loop = "select"
    /\ db = "closed"
    /\ loop' = "off"
    /\ UNCHANGED <<db, closed, ticks, sessions, events, now, recorded, activity>>

LoopStop ==
    /\ loop = "select"
    /\ closed
    /\ loop' = "off"
    /\ UNCHANGED <<db, closed, ticks, sessions, events, now, recorded, activity>>

retentionLoop == runRetentionOnce \/ SweepFails \/ LoopStop

Tick ==
    /\ now < MaxNow
    /\ now' = now + 1
    /\ UNCHANGED <<db, closed, loop, ticks, sessions, events, recorded, activity>>

-----------------------------------------------------------------------------
(* Queries *)

\* The sessions a query lists; since = 0 is the zero time, no filter.
ListSessions(since) ==
    {id \in DOMAIN sessions : since # 0 => sessions[id].LastSeen >= since}

\* Slip: the event at since is skipped.
GetEvents_After(id, since, limit) ==
    LET max  == IF limit =< 0 THEN DefaultLimit ELSE limit
        from == {k \in DOMAIN events[id] : since # 0 => k > encodeTS(since)}
    IN  {events[id][k] : k \in {k \in from : Cardinality({j \in from : j < k}) < max}}

\* The events a query returns, those with the first keys from since on.
GetEvents(id, since, limit) ==
    LET max  == IF limit =< 0 THEN DefaultLimit ELSE limit
        from == {k \in DOMAIN events[id] : since # 0 => k >= encodeTS(since)}
    IN  {events[id][k] : k \in {k \in from : Cardinality({j \in from : j < k}) < max}}

-----------------------------------------------------------------------------

Next ==
    \/ NewBBoltStore \/ Close \/ CloseDB \/ Crash
    \/ Arrive \/ Fire \/ retentionLoop \/ Tick

Spec == Init /\ [][Next]_vars

\* The ticker keeps firing and the loop keeps receiving; a sweep that fails
\* is repeated at the next tick, so failing for ever means a broken disk.
\* select picks among ready cases at random, so a closed s.stop is not
\* passed over for ever, and wg.Wait returns once the loop has.
FairSpec ==
    /\ Spec
    /\ WF_vars(Fire)
    /\ SF_vars(runRetentionOnce)
    /\ WF_vars(LoopStop)
    /\ WF_vars(CloseDB)

-----------------------------------------------------------------------------
(* Properties *)

\* The two buckets stay in step through appends, sweeps and crashes: every
\* session record has a bucket of events and every bucket of events its
\* record, and the record counts at least the events that are stored.
BucketsAgree ==
    /\ DOMAIN events = DOMAIN sessions
    /\ \A id \in DOMAIN sessions :
          /\ Cardinality(DOMAIN events[id]) >= 1
          /\ sessions[id].EventCount >= Cardinality(DOMAIN events[id])

\* The bound drops the oldest events first, in whatever order they arrived:
\* the timestamps stored for a session are the newest of those recorded for
\* it, as many as there are up to the bound.
NewestKept ==
    \A id \in DOMAIN events :
       LET all  == {e.ts : e \in recorded[id]}
           kept == {events[id][k].ts : k \in DOMAIN events[id]}
       IN  kept = {t \in all : Cardinality({u \in all : u > t}) < MaxEventsPerSession}

\* A session is live as long as events come in: however late they arrive, in
\* whatever order, and however old the tick a sweep works with, a session
\* that recorded an event in the last d units is listed by a query that
\* reaches back d + MaxLag, for every d the retention period allows.
ActiveListed ==
    \A id \in Id, d \in 0 .. Retention :
       /\ d + MaxLag =< Retention
       /\ activity[id] >= 0
       /\ activity[id] >= now - d
       /\ now - d - MaxLag >= 0
       => id \in ListSessions(now - d - MaxLag)

\* Pages of events follow time: whatever since and limit are, the events not
\* returned are older than since or newer than all that are returned.
PagesFollowTime ==
    \A id \in DOMAIN events, since \in 0 .. now, limit \in 0 .. MaxEventsPerSession :
       LET got  == GetEvents(id, since, limit)
           rest == {events[id][k] : k \in DOMAIN events[id]} \ got
       IN  /\ \A e \in got : e.ts >= since
           /\ \A e \in rest : e.ts < since \/ \A g \in got : g.ts < e.ts

\* Close ends: the loop, also one with a tick waiting, does not hold it up.
CloseEnds == (db = "open" /\ closed) ~> db = "closed"

\* A session that is out of its retention period is evicted, unless an event
\* renews it or the store is closed: ticks that were dropped or carry an old
\* time, and sweeps that fail, only delay it.
StaleEvicted ==
    \A id \in Id :
       (db = "open" /\ id \in DOMAIN sessions /\ Stale(id, now - Retention))
          ~> \/ id \notin DOMAIN sessions
             \/ ~ Stale(id, now - Retention)
             \/ db = "closed" \/ closed

=============================================================================
