--------------------------- MODULE ServerProofs ------------------------------
(***************************************************************************)
(* Proofs about the life of the process, for any configuration files and   *)
(* environments and any number of requests.                                *)
(***************************************************************************)
EXTENDS Server, FiniteSetTheorems, TLAPS

-----------------------------------------------------------------------------
(* The inductive invariants *)

\* A goroutine sends once: a server whose error is in the channel is done,
\* and a server that is still to be started has not run.
SentOnce ==
    /\ \A e \in errCh : server[e] = "done"
    /\ main \in {"load", "store"} => \A e \in Endpoint : server[e] = "off"
    /\ main = "start" => \A i \in DOMAIN Order : i >= at => server[Order[i]] = "off"

\* The servers that the shutdown has gone past.
Past(i) ==
    \/ main \in {"stop", "drain"} /\ i < at
    \/ main = "close" /\ code = 0

\* A server that is past takes no request any more, and has none left.
PastQuiet ==
    /\ main = "close" \/ main = "exited" \/ code = NoCode
    /\ main \in {"start", "select", "stop", "drain", "close"} =>
          \A e \in Endpoint : Enabled(e) \/ server[e] = "off"
    /\ \A e \in Endpoint : server[e] = "off" => Active(e) = {}
    /\ main = "select" => at = 1
    /\ main = "drain" => Order[at] \in stopping
    /\ \A i \in DOMAIN Order : Past(i) =>
          /\ Order[i] \in stopping \/ server[Order[i]] = "off"
          /\ Active(Order[i]) = {} \/ (Order[i] # "grpc" /\ expired)

\* The configuration is one that validate has accepted, and the store the
\* one it asks for.
ConfigAccepted ==
    /\ main \notin {"load", "exited"} =>
          /\ validate(cfg)
          /\ cfg["storage.engine"].form = "word" =>
                cfg["storage.engine"] = Word(cfg["storage.engine"].s)
    /\ StoreAsConfigured
    /\ store = [kind |-> store.kind, open |-> store.open, age |-> store.age,
                maxSize |-> store.maxSize, timeout |-> store.timeout, urls |-> store.urls]

IInv == ServerTypeOK /\ SentOnce /\ PastQuiet /\ ConfigAccepted

-----------------------------------------------------------------------------
(* Facts about the definitions *)

LEMMA OrderFacts ==
    /\ DOMAIN Order = 1 .. 3
    /\ Len(Order) = 3
    /\ Order[1] = "grpc" /\ Order[2] = "http" /\ Order[3] = "query"
BY DEF Order

\* If one server is still to send, the channel holds two errors at most.
LEMMA RoomLeft ==
    ASSUME NEW S, S \subseteq Endpoint, NEW e \in Endpoint, e \notin S
    PROVE  Cardinality(S) < 3
<1>1. IsFiniteSet(Endpoint) /\ Cardinality(Endpoint) = 3
  <2>. DEFINE A == {"grpc"}
              B == A \cup {"http"}
  <2>1. \A T, x : IsFiniteSet(T) /\ x \notin T =>
           IsFiniteSet(T \cup {x}) /\ Cardinality(T \cup {x}) = Cardinality(T) + 1
    BY FS_AddElement
  <2>2. IsFiniteSet(A) /\ Cardinality(A) = 1
    BY FS_Singleton
  <2>3. "http" \notin A /\ "query" \notin B
    OBVIOUS
  <2>4. Endpoint = B \cup {"query"}
    BY DEF Endpoint
  <2>. HIDE DEF A
  <2>5. IsFiniteSet(B) /\ Cardinality(B) = 2
    BY <2>1, <2>2, <2>3
  <2>. HIDE DEF B
  <2>. QED  BY <2>1, <2>3, <2>4, <2>5
<1>2. IsFiniteSet(S) /\ Cardinality(S) =< Cardinality(Endpoint)
  BY <1>1, FS_Subset
<1>3. S # Endpoint
  OBVIOUS
<1>4. Cardinality(S) # Cardinality(Endpoint)
  BY <1>1, <1>3, FS_Subset
<1>. QED  BY <1>1, <1>2, <1>4, FS_CardinalityType

\* What Load returns was validated, and its engine is a plain word.
LEMMA LoadAccepts ==
    ASSUME NEW source \in Source, NEW c \in Load(source[1], source[2])
    PROVE  /\ validate(c)
           /\ c["storage.engine"].form = "word" =>
                 c["storage.engine"] = Word(c["storage.engine"].s)
<1>1. validate(c)
  BY DEF Load
<1>2. PICK d \in loadYAML(newDefaults, source[1]) : c = applyEnvOverrides(d, source[2])
  BY DEF Load
<1>. DEFINE engine == "storage.engine"
            Plain(x) == x.form = "word" => x = Word(x.s)
<1>3. engine \in Field /\ engine \in StringField
  BY DEF Field, StringField
<1>4. engine \notin BoolField /\ engine \notin IntField
      /\ engine \notin DurationField /\ engine \notin SizeField
  BY DEF BoolField, IntField, DurationField, SizeField
<1>5. \A x : FromEnv(engine, x) = {x} /\ FromYAML(engine, x) = {x}
  <2>1. \A x : FromEnv(engine, x) = {x}
    BY <1>3, <1>4, Zenon DEF FromEnv
  <2>. QED  BY <1>4, <2>1 DEF FromYAML
<1>6. Plain(newDefaults[engine])
  <2>1. newDefaults[engine] = StringDefault(engine)
    BY <1>3, <1>4, Zenon DEF newDefaults
  <2>2. StringDefault(engine) = Word("fs")
    BY SMT DEF StringDefault
  <2>. QED  BY <2>1, <2>2 DEF Word, Text
<1>7. Plain(d[engine])
  <2>1. d[engine] = IF engine \in DOMAIN source[1]
                    THEN CHOOSE v \in FromYAML(engine, source[1][engine]) : TRUE
                    ELSE newDefaults[engine]
    BY <1>2, <1>3 DEF loadYAML
  <2>2. CASE engine \in DOMAIN source[1]
    <3>1. d[engine] = source[1][engine]
      BY <2>1, <2>2, <1>5
    <3>. QED  BY <3>1, <2>2, SourceAssumption
  <2>3. CASE engine \notin DOMAIN source[1]
    BY <2>1, <2>3, <1>6
  <2>. QED  BY <2>2, <2>3
<1>8. Plain(c[engine])
  <2>1. c[engine] = IF engine \in DOMAIN source[2] /\ FromEnv(engine, source[2][engine]) # {}
                    THEN CHOOSE v \in FromEnv(engine, source[2][engine]) : TRUE
                    ELSE d[engine]
    BY <1>2, <1>3 DEF applyEnvOverrides
  <2>2. CASE engine \in DOMAIN source[2]
    <3>1. c[engine] = source[2][engine]
      BY <2>1, <2>2, <1>5
    <3>. QED  BY <3>1, <2>2, SourceAssumption
  <2>3. CASE engine \notin DOMAIN source[2]
    BY <2>1, <2>3, <1>7
  <2>. QED  BY <2>2, <2>3
<1>. QED  BY <1>1, <1>8

-----------------------------------------------------------------------------
(* Type correctness *)

\* What the steps of run, of the goroutines and of the requests do to the
\* state, as far as its types are concerned.
LEMMA ServerTypeStep == ServerTypeOK /\ [Next]_vars => ServerTypeOK'
<1>. SUFFICES ASSUME ServerTypeOK, [Next]_vars
              PROVE  ServerTypeOK'
  OBVIOUS
<1>. USE OrderFacts DEF ServerTypeOK, MainPC, ServerPC, RequestPC, Endpoint
<1>a. Done \in [to : Endpoint \cup {"none"}, pc : RequestPC]
  BY DEF Done
<1>1. CASE \E c \in {0, 1, Killed} : Exit(c)
           /\ UNCHANGED <<at, signal, errCh, server, stopping, expired>>
  BY <1>1, <1>a DEF Exit
<1>2. CASE LoadConfig \/ createStore
  BY <1>2 DEF LoadConfig, createStore
<1>3. ASSUME NEW e \in Endpoint, Start(e)
      PROVE  ServerTypeOK'
  BY <1>3 DEF Start, StartNext
<1>4. ASSUME NEW e \in Endpoint, Stop(e) \/ Drain(e)
      PROVE  ServerTypeOK'
  <2>1. /\ main' \in MainPC /\ at' \in DOMAIN Order /\ code' \in {NoCode, Killed, 0, 1}
        /\ stopping' \subseteq Endpoint
    <3>. DEFINE Good == /\ main' \in MainPC /\ at' \in DOMAIN Order
                        /\ code' \in {NoCode, Killed, 0, 1}
    <3>1. StopNext => Good
      <4>1. CASE at < Len(Order)
        BY <4>1 DEF StopNext
      <4>2. CASE ~ (at < Len(Order))
        BY <4>2 DEF StopNext
      <4>. QED  BY <4>1, <4>2
    <3>2. CASE Stop(e) /\ Enabled(e)
      BY <3>2 DEF Stop
    <3>3. CASE Stop(e) /\ ~ Enabled(e)
      <4>1. StopNext /\ stopping' = stopping
        BY <3>3 DEF Stop
      <4>. QED  BY <3>1, <4>1
    <3>4. CASE Drain(e)
      <4>1. StopNext /\ stopping' = stopping
        BY <3>4 DEF Drain
      <4>. QED  BY <3>1, <4>1
    <3>. QED  BY <1>4, <3>2, <3>3, <3>4
  <2>2. UNCHANGED <<signal, errCh, server, expired, request>>
    BY <1>4 DEF Stop, Drain
  <2>. QED  BY <2>1, <2>2
<1>5. CASE SelectSignal \/ SelectErr
  BY <1>5 DEF SelectSignal, SelectErr
<1>6. CASE Interrupt \/ Expire
  BY <1>6, <1>1 DEF Interrupt, Signal, Expire
<1>7. ASSUME NEW e \in Endpoint, goroutine(e)
      PROVE  ServerTypeOK'
  <2>1. /\ \E p \in ServerPC : server' = [server EXCEPT ![e] = p]
        /\ errCh' = errCh \/ errCh' = errCh \cup {e}
        /\ UNCHANGED <<main, at, code, signal, stopping, expired, request>>
    BY <1>7 DEF goroutine, Serve, ServeFails, ServeReturns, SendErr
  <2>2. server' \in [Endpoint -> ServerPC]
    <3>1. PICK p \in ServerPC : server' = [server EXCEPT ![e] = p]
      BY <2>1
    <3>2. server \in [Endpoint -> ServerPC]
      BY DEF ServerTypeOK
    <3>. QED  BY <3>1, <3>2
  <2>3. errCh' \subseteq Endpoint
    BY <2>1
  <2>. QED  BY <2>1, <2>2, <2>3
<1>8. ASSUME NEW r \in Request, NEW e \in Endpoint, Arrive(r, e)
      PROVE  ServerTypeOK'
  BY <1>8 DEF Arrive
<1>9. ASSUME NEW r \in Request, Body(r) \/ Abort(r) \/ Answer(r)
      PROVE  ServerTypeOK'
  BY <1>9, <1>a DEF Body, Abort, Answer
<1>10. CASE ShowVersion \/ LoadFails \/ createStoreFails
  BY <1>10, <1>1 DEF ShowVersion, LoadFails, createStoreFails
<1>11. CASE Close
  <2>1. code \in {NoCode, Killed, 0, 1} /\ main' = "exited" /\ code' = code
    BY <1>11 DEF Close, Exit
  <2>. QED  BY <1>11, <1>a, <2>1 DEF Close, Exit
<1>12. CASE UNCHANGED vars
  BY <1>12 DEF vars
<1>. QED
  BY <1>2, <1>3, <1>4, <1>5, <1>6, <1>7, <1>8, <1>9, <1>10, <1>11, <1>12 DEF Next, run
-----------------------------------------------------------------------------
(* Senders *)

LEMMA SentOnceStep == ServerTypeOK /\ SentOnce /\ [Next]_vars => SentOnce'
<1>. SUFFICES ASSUME ServerTypeOK, SentOnce, [Next]_vars
              PROVE  SentOnce'
  OBVIOUS
<1>t. server \in [Endpoint -> ServerPC] /\ errCh \subseteq Endpoint /\ at \in 1 .. 3
      /\ main \in MainPC
  BY OrderFacts DEF ServerTypeOK
<1>1. CASE UNCHANGED <<server, at>> /\ errCh' \subseteq errCh
           /\ (main' = main \/ main' \notin {"load", "store", "start"})
  BY <1>1, OrderFacts DEF SentOnce
<1>2. CASE LoadConfig
  BY <1>2 DEF LoadConfig, SentOnce
<1>3. CASE createStore
  <2>1. \A i \in 1 .. 3 : Order[i] \in Endpoint
    BY OrderFacts DEF Endpoint
  <2>. QED  BY <1>3, <2>1, OrderFacts DEF createStore, SentOnce
<1>4. ASSUME NEW e \in Endpoint, Start(e)
      PROVE  SentOnce'
  <2>1. server[e] = "off" /\ e \notin errCh /\ errCh' = errCh
    BY <1>4, <1>t, OrderFacts DEF Start, SentOnce
  <2>2. \A f \in Endpoint \ {e} : server'[f] = server[f]
    BY <1>4, <1>t DEF Start
  <2>3. \A g \in errCh' : server'[g] = "done"
    BY <2>1, <2>2, <1>t DEF SentOnce
  <2>4. main' # "load" /\ main' # "store"
    BY <1>4 DEF Start, StartNext
  <2>5. ASSUME main' = "start", NEW i \in 1 .. 3, i >= at'
        PROVE  server'[Order[i]] = "off"
    <3>1. at' = at + 1 /\ Order[at] = e
      BY <1>4, <2>5, OrderFacts DEF Start, StartNext
    <3>2. Order[i] # e /\ Order[i] \in Endpoint
      BY <3>1, <2>5, <1>t, OrderFacts DEF Endpoint
    <3>3. server[Order[i]] = "off"
      BY <3>1, <2>5, <1>4, <1>t, OrderFacts DEF SentOnce, Start
    <3>. QED  BY <3>2, <3>3, <2>2
  <2>. QED  BY <2>3, <2>4, <2>5, OrderFacts DEF SentOnce
<1>5. ASSUME NEW e \in Endpoint, goroutine(e)
      PROVE  SentOnce'
  <2>1. /\ UNCHANGED <<main, at>>
        /\ \A f \in Endpoint \ {e} : server'[f] = server[f]
        /\ server[e] # "off" /\ server[e] # "done"
    BY <1>5, <1>t DEF goroutine, Serve, ServeFails, ServeReturns, SendErr
  <2>2. errCh' = errCh \/ (errCh' = errCh \cup {e} /\ server'[e] = "done")
    BY <1>5, <1>t DEF goroutine, Serve, ServeFails, ServeReturns, SendErr
  <2>3. \A g \in errCh' : server'[g] = "done"
    BY <2>1, <2>2, <1>t DEF SentOnce
  <2>4. \A i \in 1 .. 3 : Order[i] \in Endpoint
    BY OrderFacts DEF Endpoint
  <2>. QED  BY <2>1, <2>3, <2>4, OrderFacts DEF SentOnce
<1>6. ASSUME NEW e \in Endpoint, Stop(e) \/ Drain(e)
      PROVE  SentOnce'
  <2>1. UNCHANGED <<server, errCh>> /\ main' \notin {"load", "store", "start"}
    BY <1>6 DEF Stop, Drain, StopNext
  <2>. QED  BY <2>1 DEF SentOnce
<1>7. CASE ShowVersion \/ LoadFails \/ createStoreFails \/ Close
  BY <1>7, <1>1 DEF ShowVersion, LoadFails, createStoreFails, Close, Exit
<1>8. CASE SelectSignal \/ SelectErr
  BY <1>8, <1>1 DEF SelectSignal, SelectErr
<1>9. CASE Interrupt \/ Expire
  BY <1>9, <1>1 DEF Interrupt, Signal, Expire, Exit
<1>10. CASE \E r \in Request : \/ \E e \in Endpoint : Arrive(r, e)
                               \/ Body(r) \/ Abort(r) \/ Answer(r)
  BY <1>10, <1>1 DEF Arrive, Body, Abort, Answer
<1>11. CASE UNCHANGED vars
  BY <1>11, <1>1 DEF vars
<1>. QED
  BY <1>2, <1>3, <1>4, <1>5, <1>6, <1>7, <1>8, <1>9, <1>10, <1>11 DEF Next, run

LEMMA SentOnceRoom == ServerTypeOK /\ SentOnce => SendersNeverBlock
<1>. SUFFICES ASSUME ServerTypeOK, SentOnce,
                     NEW e \in Endpoint, server[e] \in {"failed", "broken"}
              PROVE  Cardinality(errCh) < ErrCap
  BY DEF SendersNeverBlock
<1>1. errCh \subseteq Endpoint /\ e \notin errCh
  BY DEF ServerTypeOK, SentOnce
<1>. QED  BY <1>1, RoomLeft DEF ErrCap

-----------------------------------------------------------------------------
(* Shutdown *)

\* A server that is past stays so, and no step gives it a request.
LEMMA PastQuietStep == ServerTypeOK /\ SentOnce /\ PastQuiet /\ [Next]_vars => PastQuiet'
<1>. SUFFICES ASSUME ServerTypeOK, SentOnce, PastQuiet, [Next]_vars
              PROVE  PastQuiet'
  OBVIOUS
<1>t. /\ server \in [Endpoint -> ServerPC] /\ at \in 1 .. 3 /\ main \in MainPC
      /\ stopping \subseteq Endpoint
      /\ request \in [Request -> [to : Endpoint \cup {"none"}, pc : RequestPC]]
      /\ \A i \in 1 .. 3 : Order[i] \in Endpoint
  BY OrderFacts DEF ServerTypeOK, Endpoint
<1>0. CASE UNCHANGED vars
  BY <1>0 DEF vars, PastQuiet, Past, Active, Enabled
<1>1. CASE main' = "exited" /\ request' = [r \in Request |-> Done]
  <2>1. \A e : Active(e)' = {}
    BY <1>1 DEF Active, Done
  <2>. QED  BY <1>1, <2>1 DEF PastQuiet, Past
<1>2. CASE LoadConfig
  BY <1>2 DEF LoadConfig, PastQuiet, Past, Active
<1>3. CASE createStore
  <2>1. \A e \in Endpoint : server[e] = "off"
    BY <1>3 DEF createStore, SentOnce
  <2>. QED  BY <1>3, <2>1 DEF createStore, PastQuiet, Past, Active
<1>4. ASSUME NEW e \in Endpoint, Start(e)
      PROVE  PastQuiet'
  <2>1. main = "start" /\ main' \in {"start", "select"} /\ code' = code /\ cfg' = cfg
        /\ (main' = "select" => at' = 1)
    BY <1>4 DEF Start, StartNext
  <2>2. \A f \in Endpoint : /\ server'[f] # "off" => server[f] # "off" \/ Enabled(f)
                            /\ server'[f] = "off" => server[f] = "off"
    BY <1>4, <1>t DEF Start
  <2>3. \A f : Active(f)' = Active(f)
    BY <1>4 DEF Start, Active
  <2>. QED  BY <2>1, <2>2, <2>3 DEF PastQuiet, Past, Enabled
<1>5. CASE SelectSignal \/ SelectErr
  <2>1. /\ main = "select" /\ UNCHANGED <<at, cfg, server, request>>
        /\ (main' = "stop" /\ code' = code) \/ (main' = "close" /\ code' = 1)
    BY <1>5 DEF SelectSignal, SelectErr
  <2>2. at' = 1
    BY <2>1 DEF PastQuiet
  <2>3. \A i \in 1 .. 3 : ~ Past(i)'
    BY <2>1, <2>2 DEF Past
  <2>4. \A f : Active(f)' = Active(f)
    BY <2>1 DEF Active
  <2>. QED  BY <2>1, <2>3, <2>4, OrderFacts DEF PastQuiet, Enabled
<1>6. CASE Expire
  BY <1>6 DEF Expire, PastQuiet, Past, Active, Enabled
<1>7. CASE Interrupt /\ main' # "exited"
  BY <1>7 DEF Interrupt, Signal, Exit, PastQuiet, Past, Active, Enabled
<1>8. ASSUME NEW e \in Endpoint, goroutine(e)
      PROVE  PastQuiet'
  <2>1. /\ UNCHANGED <<main, at, code, cfg, stopping, expired, request>>
        /\ \A f \in Endpoint : server[f] = "off" <=> server'[f] = "off"
    BY <1>8, <1>t DEF goroutine, Serve, ServeFails, ServeReturns, SendErr
  <2>2. \A f : Active(f)' = Active(f)
    BY <2>1 DEF Active
  <2>. QED  BY <2>1, <2>2, <1>t, OrderFacts DEF PastQuiet, Past, Enabled
<1>9. ASSUME NEW r \in Request, NEW e \in Endpoint, Arrive(r, e)
      PROVE  PastQuiet'
  <2>1. UNCHANGED <<main, at, code, cfg, stopping, expired, server>>
    BY <1>9 DEF Arrive
  <2>2. \A f \in Endpoint \ {e} : Active(f)' = Active(f)
    BY <1>9, <1>t DEF Arrive, Active
  <2>3. (\A i \in 1 .. 3 : Past(i) => Order[i] # e) /\ server[e] # "off"
    BY <1>9, <1>t, OrderFacts DEF Arrive, Past, PastQuiet
  <2>4. \A i \in 1 .. 3 : Past(i)' =>
           /\ Order[i] \in stopping' \/ server'[Order[i]] = "off"
           /\ Active(Order[i])' = {} \/ (Order[i] # "grpc" /\ expired')
    <3>. SUFFICES ASSUME NEW i \in 1 .. 3, Past(i)'
                  PROVE  /\ Order[i] \in stopping' \/ server'[Order[i]] = "off"
                         /\ Active(Order[i])' = {} \/ (Order[i] # "grpc" /\ expired')
      OBVIOUS
    <3>1. Past(i)
      BY <2>1 DEF Past
    <3>2. Active(Order[i])' = Active(Order[i])
      BY <3>1, <2>2, <2>3, <1>t
    <3>. QED  BY <2>1, <3>1, <3>2, OrderFacts DEF PastQuiet
  <2>5. \A f \in Endpoint : server'[f] = "off" => Active(f)' = {}
    BY <2>1, <2>2, <2>3 DEF PastQuiet
  <2>. QED  BY <2>1, <2>4, <2>5, OrderFacts DEF PastQuiet, Enabled
<1>10. ASSUME NEW r \in Request, Body(r) \/ Abort(r) \/ Answer(r)
       PROVE  PastQuiet'
  <2>1. UNCHANGED <<main, at, code, cfg, stopping, expired, server>>
    BY <1>10 DEF Body, Abort, Answer
  <2>2. \A f \in Endpoint : Active(f)' \subseteq Active(f)
    BY <1>10, <1>t DEF Body, Abort, Answer, Active, Done, Endpoint
  <2>. QED  BY <2>1, <2>2, <1>t, OrderFacts DEF PastQuiet, Past, Enabled
<1>11. ASSUME NEW e \in Endpoint, Stop(e) \/ Drain(e)
       PROVE  PastQuiet'
  <2>1. /\ main \in {"stop", "drain"} /\ e = Order[at]
        /\ UNCHANGED <<cfg, server, expired, request>>
        /\ stopping \subseteq stopping'
    BY <1>11 DEF Stop, Drain
  <2>2. \A f \in Endpoint : Active(f)' = Active(f)
    BY <2>1 DEF Active
  <2>3. CASE Stop(e) /\ Enabled(e)
    <3>1. main' = "drain" /\ UNCHANGED <<at, code>> /\ e \in stopping'
      BY <2>3 DEF Stop
    <3>2. \A i \in 1 .. 3 : Past(i)' => Past(i)
      BY <2>1, <3>1 DEF Past
    <3>. QED  BY <2>1, <2>2, <3>1, <3>2, <1>t, OrderFacts DEF PastQuiet, Enabled
  <2>4. CASE (Stop(e) /\ ~ Enabled(e)) \/ Drain(e)
    <3>1. StopNext
      BY <2>4 DEF Stop, Drain
    <3>2. /\ main' \in {"stop", "close"} /\ (main' = "stop" => code' = code)
      BY <3>1 DEF StopNext
    <3>3. \A i \in 1 .. 3 : Past(i)' => Past(i) \/ i = at
      BY <2>1, <3>1, <1>t, OrderFacts DEF Past, StopNext
    <3>4. /\ e \in stopping \/ server[e] = "off"
          /\ Active(e) = {} \/ (e # "grpc" /\ expired)
      <4>1. CASE Drain(e)
        BY <4>1, <2>1 DEF Drain, PastQuiet
      <4>2. CASE Stop(e) /\ ~ Enabled(e)
        <5>1. server[e] = "off"
          BY <4>2 DEF Stop, PastQuiet
        <5>. QED  BY <5>1 DEF PastQuiet
      <4>. QED  BY <4>1, <4>2, <2>4
    <3>. QED  BY <2>1, <2>2, <3>2, <3>3, <3>4, <1>t, OrderFacts DEF PastQuiet, Enabled
  <2>. QED  BY <1>11, <2>3, <2>4
<1>12. CASE ShowVersion \/ LoadFails \/ createStoreFails \/ Close
            \/ (Interrupt /\ main' = "exited")
  <2>1. CASE Interrupt /\ main' = "exited"
    <3>1. main # "exited" => request' = [r \in Request |-> Done]
      BY <2>1 DEF Interrupt, Signal, Exit
    <3>2. main # "exited"
      BY <2>1 DEF Interrupt, Signal
    <3>. QED  BY <2>1, <3>1, <3>2, <1>1
  <2>. QED  BY <1>12, <2>1, <1>1 DEF ShowVersion, LoadFails, createStoreFails, Close, Exit
<1>. QED
  BY <1>0, <1>1, <1>2, <1>3, <1>4, <1>5, <1>6, <1>7, <1>8, <1>9, <1>10, <1>11, <1>12
     DEF Next, run
-----------------------------------------------------------------------------
(* The store *)

\* A configuration that validate accepts asks for one of the three lasting
\* stores, with its addresses and without negative limits.
LEMMA StoreOfAccepted ==
    ASSUME NEW c, validate(c),
           c["storage.engine"].form = "word" =>
              c["storage.engine"] = Word(c["storage.engine"].s)
    PROVE  /\ StoreOf(c).kind # "memory"
           /\ Word("") \notin StoreOf(c).urls
           /\ StoreOf(c).age >= 0
           /\ StoreOf(c).maxSize >= 0
           /\ StoreOf(c) = [kind |-> StoreOf(c).kind, open |-> StoreOf(c).open,
                            age |-> StoreOf(c).age, maxSize |-> StoreOf(c).maxSize,
                            timeout |-> StoreOf(c).timeout, urls |-> StoreOf(c).urls]
<1>. DEFINE engine == c["storage.engine"]
<1>1. engine \in {Word("fs"), Word("prometheus"), Word("victoriametrics")}
  <2>1. IsWord(engine, {"fs", "prometheus", "victoriametrics"})
    BY DEF validate
  <2>. QED  BY <2>1 DEF IsWord
<1>2. /\ Word("fs") # Word("prometheus") /\ Word("fs") # Word("victoriametrics")
      /\ Word("prometheus") # Word("victoriametrics")
  BY DEF Word, Text
<1>3. c["retention.duration"] >= 0 /\ c["retention.max_size"] >= 0
  BY DEF validate
<1>4. CASE engine = Word("fs")
  <2>1. StoreOf(c) = Store("fs", c["retention.duration"], c["retention.max_size"], 0, {})
    BY <1>2, <1>4, Zenon DEF StoreOf
  <2>. QED  BY <2>1, <1>3 DEF Store
<1>5. CASE engine = Word("prometheus")
  <2>1. StoreOf(c) =
          Store("prometheus", 0, 0, c["storage.prometheus.timeout"],
                {c["storage.prometheus.write_url"], c["storage.prometheus.read_url"]})
    BY <1>2, <1>5, Zenon DEF StoreOf
  <2>2. c["storage.prometheus.write_url"] # Word("")
        /\ c["storage.prometheus.read_url"] # Word("")
    BY <1>5 DEF validate
  <2>3. StoreOf(c).urls =
              {c["storage.prometheus.write_url"], c["storage.prometheus.read_url"]}
    BY <2>1 DEF Store
  <2>4. Word("") \notin StoreOf(c).urls
    BY <2>2, <2>3
  <2>5. StoreOf(c).kind # "memory" /\ StoreOf(c).age >= 0 /\ StoreOf(c).maxSize >= 0
    BY <2>1 DEF Store
  <2>6. StoreOf(c) = [kind |-> StoreOf(c).kind, open |-> StoreOf(c).open,
                      age |-> StoreOf(c).age, maxSize |-> StoreOf(c).maxSize,
                      timeout |-> StoreOf(c).timeout, urls |-> StoreOf(c).urls]
    BY <2>1 DEF Store
  <2>. QED  BY <2>4, <2>5, <2>6
<1>6. CASE engine = Word("victoriametrics")
  <2>1. StoreOf(c) =
          Store("victoriametrics", 0, 0, c["storage.victoriametrics.timeout"],
                {c["storage.victoriametrics.write_url"],
                 c["storage.victoriametrics.read_url"]})
    BY <1>2, <1>6, Zenon DEF StoreOf
  <2>2. c["storage.victoriametrics.write_url"] # Word("")
        /\ c["storage.victoriametrics.read_url"] # Word("")
    BY <1>6 DEF validate
  <2>3. StoreOf(c).urls = {c["storage.victoriametrics.write_url"],
                              c["storage.victoriametrics.read_url"]}
    BY <2>1 DEF Store
  <2>4. Word("") \notin StoreOf(c).urls
    BY <2>2, <2>3
  <2>5. StoreOf(c).kind # "memory" /\ StoreOf(c).age >= 0 /\ StoreOf(c).maxSize >= 0
    BY <2>1 DEF Store
  <2>6. StoreOf(c) = [kind |-> StoreOf(c).kind, open |-> StoreOf(c).open,
                      age |-> StoreOf(c).age, maxSize |-> StoreOf(c).maxSize,
                      timeout |-> StoreOf(c).timeout, urls |-> StoreOf(c).urls]
    BY <2>1 DEF Store
  <2>. QED  BY <2>4, <2>5, <2>6
<1>. QED  BY <1>1, <1>4, <1>5, <1>6

LEMMA ConfigAcceptedStep == ServerTypeOK /\ ConfigAccepted /\ [Next]_vars => ConfigAccepted'
<1>. SUFFICES ASSUME ServerTypeOK, ConfigAccepted, [Next]_vars
              PROVE  ConfigAccepted'
  OBVIOUS
<1>1. CASE UNCHANGED <<cfg, store>> /\ (main' # "exited" => main \notin {"load", "exited"})
  BY <1>1 DEF ConfigAccepted, StoreAsConfigured
<1>2. CASE LoadConfig
  <2>1. PICK source \in Source : cfg' \in Load(source[1], source[2])
    BY <1>2 DEF LoadConfig
  <2>2. /\ validate(cfg')
        /\ cfg'["storage.engine"].form = "word" =>
              cfg'["storage.engine"] = Word(cfg'["storage.engine"].s)
    BY <2>1, LoadAccepts
  <2>3. UNCHANGED store
    BY <1>2 DEF LoadConfig
  <2>. QED  BY <2>2, <2>3 DEF ConfigAccepted, StoreAsConfigured
<1>3. CASE createStore
  <2>1. store' = StoreOf(cfg) /\ cfg' = cfg /\ main = "store"
    BY <1>3 DEF createStore
  <2>2. validate(cfg) /\ (cfg["storage.engine"].form = "word" =>
                             cfg["storage.engine"] = Word(cfg["storage.engine"].s))
    BY <2>1 DEF ConfigAccepted
  <2>3. StoreAsConfigured'
    BY <2>1, <2>2, StoreOfAccepted DEF StoreAsConfigured
  <2>4. store' = [kind |-> store'.kind, open |-> store'.open, age |-> store'.age,
                  maxSize |-> store'.maxSize, timeout |-> store'.timeout,
                  urls |-> store'.urls]
    BY <2>1, <2>2, StoreOfAccepted
  <2>. QED  BY <2>1, <2>2, <2>3, <2>4 DEF ConfigAccepted
<1>4. CASE Close
  <2>1. main' = "exited" /\ store' = [store EXCEPT !.open = FALSE]
    BY <1>4 DEF Close, Exit
  <2>2. store' = [kind |-> store.kind, open |-> FALSE, age |-> store.age,
                  maxSize |-> store.maxSize, timeout |-> store.timeout, urls |-> store.urls]
    BY <2>1 DEF ConfigAccepted
  <2>3. StoreAsConfigured'
    BY <2>2 DEF ConfigAccepted, StoreAsConfigured
  <2>. QED  BY <2>1, <2>2, <2>3 DEF ConfigAccepted
<1>5. ASSUME NEW e \in Endpoint, Start(e) \/ Stop(e) \/ Drain(e) \/ goroutine(e)
      PROVE  ConfigAccepted'
  BY <1>5, <1>1 DEF Start, Stop, Drain, goroutine, Running, Serve, ServeFails, ServeReturns,
                    SendErr
<1>6. CASE ShowVersion \/ LoadFails \/ createStoreFails \/ SelectSignal \/ SelectErr
  BY <1>6, <1>1 DEF ShowVersion, LoadFails, createStoreFails, Exit, SelectSignal, SelectErr
<1>7. CASE Interrupt \/ Expire
  BY <1>7, <1>1 DEF Interrupt, Signal, Expire, Exit
<1>8. CASE \E r \in Request : \/ \E e \in Endpoint : Arrive(r, e)
                              \/ Body(r) \/ Abort(r) \/ Answer(r)
  BY <1>8, <1>1 DEF Arrive, Body, Abort, Answer, Running
<1>9. CASE UNCHANGED vars
  BY <1>9 DEF vars, ConfigAccepted, StoreAsConfigured
<1>. QED
  BY <1>2, <1>3, <1>4, <1>5, <1>6, <1>7, <1>8, <1>9 DEF Next, run

-----------------------------------------------------------------------------
(* The theorems *)

LEMMA IInvInit == Init => IInv
<1>. SUFFICES ASSUME Init
              PROVE  IInv
  OBVIOUS
<1>1. ServerTypeOK
  <2>1. main \in MainPC /\ at \in DOMAIN Order /\ code \in {NoCode, Killed, 0, 1}
    BY OrderFacts DEF Init, MainPC
  <2>2. signal \in BOOLEAN /\ expired \in BOOLEAN
    BY DEF Init
  <2>3. errCh \subseteq Endpoint /\ stopping \subseteq Endpoint
    BY DEF Init
  <2>4. server \in [Endpoint -> ServerPC]
    BY DEF Init, ServerPC
  <2>5. request \in [Request -> [to : Endpoint \cup {"none"}, pc : RequestPC]]
    BY DEF Init, RequestPC
  <2>. QED  BY <2>1, <2>2, <2>3, <2>4, <2>5 DEF ServerTypeOK
<1>2. SentOnce
  BY DEF Init, SentOnce
<1>3. PastQuiet
  <2>1. \A e : Active(e) = {}
    BY DEF Init, Active
  <2>. QED  BY <2>1 DEF Init, PastQuiet, Past
<1>4. ConfigAccepted
  BY DEF Init, ConfigAccepted, StoreAsConfigured, NoStore
<1>. QED  BY <1>1, <1>2, <1>3, <1>4 DEF IInv

LEMMA IInvStep == IInv /\ [Next]_vars => IInv'
BY ServerTypeStep, SentOnceStep, PastQuietStep, ConfigAcceptedStep DEF IInv

LEMMA IInvAlways == Spec => []IInv
<1>. QED  BY IInvInit, IInvStep, PTL DEF Spec

\* The state of main, of the servers and of the requests keeps its types,
\* whatever order servers fail, requests arrive and signals come in.
THEOREM ServerTypeCorrect == Spec => []ServerTypeOK
<1>1. IInv => ServerTypeOK
  BY DEF IInv
<1>. QED  BY <1>1, IInvAlways, PTL

\* No goroutine is ever left waiting at errCh: its capacity is what the three
\* servers may send together, since each sends once.
THEOREM ErrorsNeverBlock == Spec => []SendersNeverBlock
<1>1. IInv => SendersNeverBlock
  BY SentOnceRoom DEF IInv
<1>. QED  BY <1>1, IInvAlways, PTL

\* After a signal run closes the store only when the gRPC server has no
\* request, and the HTTP servers have none or their 30 seconds are over, for
\* any number of requests: a server that has been drained takes no other.
THEOREM ClosesDrained == Spec => []DrainedBeforeClose
<1>1. IInv => DrainedBeforeClose
  <2>. SUFFICES ASSUME IInv, main = "close", code = 0
                PROVE  /\ Active("grpc") = {}
                       /\ expired \/ Active("http") \cup Active("query") = {}
    BY DEF DrainedBeforeClose
  <2>1. \A i \in 1 .. 3 : Active(Order[i]) = {} \/ (Order[i] # "grpc" /\ expired)
    BY OrderFacts DEF IInv, PastQuiet, Past
  <2>. QED  BY <2>1, OrderFacts
<1>. QED  BY <1>1, IInvAlways, PTL

\* Whatever texts the file and the environment hold, the store that runs is
\* one of the three lasting ones, with its addresses and no negative limit.
THEOREM StoreFollowsConfig == Spec => []StoreAsConfigured
<1>1. IInv => StoreAsConfigured
  BY DEF IInv, ConfigAccepted
<1>. QED  BY <1>1, IInvAlways, PTL

=============================================================================
