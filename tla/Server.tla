------------------------------- MODULE Server -------------------------------
(***************************************************************************)
(* The life of the process, cmd/server/main.go: the configuration is       *)
(* loaded (module Config), the store opened, up to three servers started,  *)
(* each with a goroutine in Serve; main waits for a signal or for an error *)
(* of a server, drains the servers after a signal, and closes the store.   *)
(*                                                                         *)
(* The servers of grpc-go and net/http are external; what is said of them  *)
(* is what main.go relies on.  A request is a client that has begun to     *)
(* send, then a handler, which uses the store.                             *)
(***************************************************************************)
EXTENDS Config, Sequences, FiniteSets

CONSTANTS
    Source,   \* what is configured: pairs of a file and an environment
    Request   \* requests

\* A text of the form "word" is nothing but its word.
ASSUME SourceAssumption ==
    \A source \in Source : \A i \in 1 .. 2 : \A f \in DOMAIN source[i] :
       source[i][f].form = "word" => source[i][f] = Word(source[i][f].s)

Endpoint == {"grpc", "http", "query"}

\* The order in which run starts the servers, and stops them.
Order == <<"grpc", "http", "query">>

VARIABLES
    main,     \* where run is
    at,       \* while servers are started or stopped: which, in Order
    code,     \* what run returns: 0 or 1
    cfg,      \* the configuration; none before it is loaded
    store,    \* the store: its parameters and whether it is open
    signal,   \* ctx.Done() is closed
    errCh,    \* the servers whose error is in the channel
    server,   \* per endpoint: its goroutine
    stopping, \* the servers whose Shutdown or GracefulStop was called
    expired,  \* the 30 seconds of shutdownCtx are over
    request   \* per request: its endpoint and where it is

vars == <<main, at, code, cfg, store, signal, errCh, server, stopping, expired, request>>

NoCode == -1

\* The status of a process that a signal has killed.
Killed == 130

MainPC == {"load", "store", "start", "select", "stop", "drain", "close", "exited"}

\* "off": not enabled, or not started yet; "failed" and "broken": about to
\* send the error of Listen or of Serve; "spawned": before Serve.
ServerPC == {"off", "failed", "spawned", "serving", "broken", "done"}

RequestPC == {"new", "sending", "handler", "done"}

\* Answered, given up, or cut off.
Done == [to |-> "none", pc |-> "done"]

NoStore == [kind |-> "none", open |-> FALSE, age |-> 0, maxSize |-> 0, timeout |-> 0,
            urls |-> {}]

Init ==
    /\ main = "load"
    /\ at = 1
    /\ code = NoCode
    /\ cfg = << >>
    /\ store = NoStore
    /\ signal = FALSE
    /\ errCh = {}
    /\ server = [e \in Endpoint |-> "off"]
    /\ stopping = {}
    /\ expired = FALSE
    /\ request = [r \in Request |-> [to |-> "none", pc |-> "new"]]

Active(e) == {r \in Request : request[r].to = e /\ request[r].pc \in {"sending", "handler"}}

-----------------------------------------------------------------------------
(* run, up to the servers *)

Exit(c) ==
    /\ main' = "exited"
    /\ code' = c
    /\ request' = [r \in Request |-> Done]

\* -version.
ShowVersion ==
    /\ main = "load"
    /\ Exit(0)
    /\ UNCHANGED <<at, cfg, store, signal, errCh, server, stopping, expired>>

LoadConfig ==
    /\ main = "load"
    /\ \E source \in Source : cfg' \in Load(source[1], source[2])
    /\ main' = "store"
    /\ UNCHANGED <<at, code, store, signal, errCh, server, stopping, expired, request>>

\* The file cannot be read, or Load finds an error.
LoadFails ==
    /\ main = "load"
    /\ Exit(1)
    /\ UNCHANGED <<at, cfg, store, signal, errCh, server, stopping, expired>>

Store(kind, age, maxSize, timeout, urls) ==
    [kind |-> kind, open |-> TRUE, age |-> age, maxSize |-> maxSize,
     timeout |-> timeout, urls |-> urls]

\* The store that the configuration asks for; any engine but the three known
\* ones is the in-memory store.
StoreOf(c) ==
    CASE c["storage.engine"] = Word("fs") ->
           Store("fs", c["retention.duration"], c["retention.max_size"], 0, {})
      [] c["storage.engine"] = Word("prometheus") ->
           Store("prometheus", 0, 0, c["storage.prometheus.timeout"],
                 {c["storage.prometheus.write_url"], c["storage.prometheus.read_url"]})
      [] c["storage.engine"] = Word("victoriametrics") ->
           Store("victoriametrics", 0, 0, c["storage.victoriametrics.timeout"],
                 {c["storage.victoriametrics.write_url"],
                  c["storage.victoriametrics.read_url"]})
      [] OTHER -> Store("memory", c["retention.duration"], 0, 0, {})

\* From here on signals are caught.
createStore ==
    /\ main = "store"
    /\ store' = StoreOf(cfg)
    /\ main' = "start"
    /\ UNCHANGED <<at, code, cfg, signal, errCh, server, stopping, expired, request>>

\* NewFSStore: the directory, the log or a block cannot be opened.
createStoreFails ==
    /\ main = "store"
    /\ cfg["storage.engine"] = Word("fs")
    /\ Exit(1)
    /\ UNCHANGED <<at, cfg, store, signal, errCh, server, stopping, expired>>

-----------------------------------------------------------------------------
(* The servers *)

Enabled(e) ==
    CASE e = "grpc"  -> cfg["otlp.grpc.enabled"]
      [] e = "http"  -> cfg["otlp.http.enabled"]
      [] e = "query" -> TRUE

Address(e) ==
    CASE e = "grpc"  -> cfg["otlp.grpc.listen"]
      [] e = "http"  -> cfg["otlp.http.listen"]
      [] e = "query" -> cfg["prometheus.listen"]

\* The port is bound by another server of this process; port 0 is any port.
Taken(e) ==
    /\ Address(e).n # 0
    /\ \E f \in Endpoint \ {e} : /\ Address(f) = Address(e)
                                 /\ server[f] \in {"spawned", "serving"}

\* The next server, or the select after the last one.
StartNext ==
    IF at < Len(Order) THEN at' = at + 1 /\ UNCHANGED main
                       ELSE at' = 1 /\ main' = "select"

\* Slip: a failing Listen is only logged.
Start_OnlyLogged(e) ==
    /\ main = "start"
    /\ e = Order[at]
    /\ IF Enabled(e)
       THEN \/ server' = [server EXCEPT ![e] = "done"]
            \/ ~ Taken(e) /\ server' = [server EXCEPT ![e] = "spawned"]
       ELSE UNCHANGED server
    /\ StartNext
    /\ UNCHANGED <<code, cfg, store, signal, errCh, stopping, expired, request>>

\* startGRPC, startOTLPHTTP and startQueryAPI: a failing Listen is reported
\* by a goroutine of its own, and run goes on.
Start(e) ==
    /\ main = "start"
    /\ e = Order[at]
    /\ IF Enabled(e)
       THEN \/ server' = [server EXCEPT ![e] = "failed"]
            \/ ~ Taken(e) /\ server' = [server EXCEPT ![e] = "spawned"]
       ELSE UNCHANGED server
    /\ StartNext
    /\ UNCHANGED <<code, cfg, store, signal, errCh, stopping, expired, request>>

\* The goroutine calls Serve.  On a stopped server it returns at once, with
\* ErrServerClosed, which is passed over, or gRPC's ErrServerStopped, which
\* is not.
Serve(e) ==
    /\ server[e] = "spawned"
    /\ server' = [server EXCEPT ![e] =
          IF e \notin stopping THEN "serving" ELSE IF e = "grpc" THEN "broken" ELSE "done"]
    /\ UNCHANGED <<main, at, code, cfg, store, signal, errCh, stopping, expired, request>>

\* Accept fails.
ServeFails(e) ==
    /\ server[e] = "serving"
    /\ e \notin stopping
    /\ server' = [server EXCEPT ![e] = "broken"]
    /\ UNCHANGED <<main, at, code, cfg, store, signal, errCh, stopping, expired, request>>

\* Serve returns because the server was stopped: nothing is reported.
ServeReturns(e) ==
    /\ server[e] = "serving"
    /\ e \in stopping
    /\ server' = [server EXCEPT ![e] = "done"]
    /\ UNCHANGED <<main, at, code, cfg, store, signal, errCh, stopping, expired, request>>

ErrCap_Two == 2

\* The capacity of errCh.
ErrCap == 3

\* errCh <- err.  Every goroutine sends at most once, and run does no more
\* than log what it receives, so the order in the channel is left out.
SendErr(e) ==
    /\ server[e] \in {"failed", "broken"}
    /\ Cardinality(errCh) < ErrCap
    /\ errCh' = errCh \cup {e}
    /\ server' = [server EXCEPT ![e] = "done"]
    /\ UNCHANGED <<main, at, code, cfg, store, signal, stopping, expired, request>>

Running == main \notin {"load", "store", "exited"}

goroutine(e) ==
    Running /\ (Serve(e) \/ ServeFails(e) \/ ServeReturns(e) \/ SendErr(e))

-----------------------------------------------------------------------------
(* Requests *)

\* A client begins to send a request.  On an open connection gRPC takes a
\* request that crosses the announcement of its GracefulStop.
Arrive(r, e) ==
    /\ Running
    /\ request[r].pc = "new"
    /\ server[e] = "serving"
    /\ e \in stopping => e = "grpc" /\ main = "drain" /\ at = 1
    /\ request' = [request EXCEPT ![r] = [to |-> e, pc |-> "sending"]]
    /\ UNCHANGED <<main, at, code, cfg, store, signal, errCh, server, stopping, expired>>

\* The request is complete.
Body(r) ==
    /\ Running
    /\ request[r].pc = "sending"
    /\ request' = [request EXCEPT ![r].pc = "handler"]
    /\ UNCHANGED <<main, at, code, cfg, store, signal, errCh, server, stopping, expired>>

\* The client gives up, or the query server's ReadTimeout ends the request.
Abort(r) ==
    /\ Running
    /\ request[r].pc = "sending"
    /\ request' = [request EXCEPT ![r] = Done]
    /\ UNCHANGED <<main, at, code, cfg, store, signal, errCh, server, stopping, expired>>

Answer(r) ==
    /\ Running
    /\ request[r].pc = "handler"
    /\ request' = [request EXCEPT ![r] = Done]
    /\ UNCHANGED <<main, at, code, cfg, store, signal, errCh, server, stopping, expired>>

-----------------------------------------------------------------------------
(* Shutdown *)

\* SIGINT or SIGTERM.  NotifyContext catches it from the start of the servers
\* to the end of run, also the second time; else it kills the process.
Signal ==
    \/ /\ main \in {"start", "select", "stop", "drain"}
       /\ signal' = TRUE
       /\ UNCHANGED <<main, code, request>>
    \/ /\ main \in {"load", "store", "close"}
       /\ Exit(Killed)
       /\ UNCHANGED signal

Interrupt ==
    /\ Signal
    /\ UNCHANGED <<at, cfg, store, errCh, server, stopping, expired>>

\* select: when both are ready either case is taken.
SelectSignal ==
    /\ main = "select"
    /\ signal
    /\ main' = "stop"
    /\ UNCHANGED <<at, code, cfg, store, signal, errCh, server, stopping, expired, request>>

\* An error: run returns 1, which closes the store under the servers.
SelectErr ==
    /\ main = "select"
    /\ \E e \in errCh : errCh' = errCh \ {e}
    /\ main' = "close"
    /\ code' = 1
    /\ UNCHANGED <<at, cfg, store, signal, server, stopping, expired, request>>

\* shutdownCtx was made before the first server is stopped.
Expire ==
    /\ main \in {"stop", "drain"}
    /\ ~ expired
    /\ expired' = TRUE
    /\ UNCHANGED <<main, at, code, cfg, store, signal, errCh, server, stopping, request>>

StopNext ==
    IF at < Len(Order) THEN at' = at + 1 /\ main' = "stop" /\ UNCHANGED code
                       ELSE main' = "close" /\ code' = 0 /\ UNCHANGED at

\* GracefulStop and Shutdown close the listener first.
Stop(e) ==
    /\ main = "stop"
    /\ e = Order[at]
    /\ IF Enabled(e)
       THEN /\ stopping' = stopping \cup {e}
            /\ main' = "drain"
            /\ UNCHANGED <<at, code>>
       ELSE StopNext /\ UNCHANGED stopping
    /\ UNCHANGED <<cfg, store, signal, errCh, server, expired, request>>

\* Slip: Stop instead of GracefulStop.
Drain_NoWait(e) ==
    /\ main = "drain"
    /\ e = Order[at]
    /\ StopNext
    /\ UNCHANGED <<cfg, store, signal, errCh, server, stopping, expired, request>>

\* Slip: Shutdown with a context that has no deadline.
Drain_NoDeadline(e) ==
    /\ main = "drain"
    /\ e = Order[at]
    /\ Active(e) = {}
    /\ StopNext
    /\ UNCHANGED <<cfg, store, signal, errCh, server, stopping, expired, request>>

\* They return when the server has no request left.  Shutdown returns too
\* when shutdownCtx ends, which GracefulStop knows nothing of.
Drain(e) ==
    /\ main = "drain"
    /\ e = Order[at]
    /\ Active(e) = {} \/ (e # "grpc" /\ expired)
    /\ StopNext
    /\ UNCHANGED <<cfg, store, signal, errCh, server, stopping, expired, request>>

\* The deferred Close, and the end of the process.
Close ==
    /\ main = "close"
    /\ store' = [store EXCEPT !.open = FALSE]
    /\ Exit(code)
    /\ UNCHANGED <<at, cfg, signal, errCh, server, stopping, expired>>

run ==
    \/ ShowVersion \/ LoadConfig \/ LoadFails
    \/ createStore \/ createStoreFails
    \/ \E e \in Endpoint : Start(e) \/ Stop(e) \/ Drain(e)
    \/ SelectSignal \/ SelectErr \/ Close

Next ==
    \/ run \/ Interrupt \/ Expire
    \/ \E e \in Endpoint : goroutine(e)
    \/ \E r \in Request :
          \/ \E e \in Endpoint : Arrive(r, e)
          \/ Body(r) \/ Abort(r) \/ Answer(r)
    \/ main = "exited" /\ UNCHANGED vars

Spec == Init /\ [][Next]_vars

(***************************************************************************)
(* Fairness: goroutines that can run do run, and time passes.  A handler   *)
(* comes to an end if its store does: a remote store with a negative       *)
(* timeout, which validate lets pass, has no time limit.  The query server *)
(* limits the time a client may take to send; the others do not.           *)
(***************************************************************************)
Bounded == store.timeout >= 0

Fairness ==
    /\ WF_vars(run)
    /\ \A e \in Endpoint : WF_vars(Running /\ (Serve(e) \/ ServeReturns(e) \/ SendErr(e)))
    /\ WF_vars(Expire)
    /\ \A r \in Request :
          /\ WF_vars(request[r].to = "query" /\ (Body(r) \/ Abort(r)))
          /\ WF_vars(Bounded /\ Answer(r))

FairSpec == Spec /\ Fairness

-----------------------------------------------------------------------------
(* Properties *)

ServerTypeOK ==
    /\ main \in MainPC
    /\ at \in DOMAIN Order
    /\ code \in {NoCode, Killed, 0, 1}
    /\ signal \in BOOLEAN
    /\ errCh \subseteq Endpoint
    /\ server \in [Endpoint -> ServerPC]
    /\ stopping \subseteq Endpoint
    /\ expired \in BOOLEAN
    /\ request \in [Request -> [to : Endpoint \cup {"none"}, pc : RequestPC]]

\* No goroutine waits at errCh, whichever servers fail, before or after main
\* has stopped to receive: there is room for what each of them may send.
SendersNeverBlock ==
    \A e \in Endpoint : server[e] \in {"failed", "broken"} => Cardinality(errCh) < ErrCap

\* The orderly way out: when main closes the store after a signal no gRPC
\* request is in progress, and no HTTP request unless the 30 seconds are over;
\* also if a server had not come to Serve when it was stopped, or requests
\* arrived at one server while another was drained.
DrainedBeforeClose ==
    main = "close" /\ code = 0 =>
       /\ Active("grpc") = {}
       /\ expired \/ Active("http") \cup Active("query") = {}

\* Whatever the file and the environment say, the store that runs is a
\* lasting one: createStore never comes to its default, the in-memory store,
\* a remote store has both its addresses, and no limit on age or size is
\* negative, also if the number of days overflows.
StoreAsConfigured ==
    store.kind # "none" =>
       /\ store.kind # "memory"
       /\ Word("") \notin store.urls
       /\ store.age >= 0
       /\ store.maxSize >= 0

\* No gRPC client keeps on sending one request for ever.
ClientsFinish == []<>(\A r \in Request : request[r] # [to |-> "grpc", pc |-> "sending"])

\* A signal ends the process, also if HTTP clients never complete their
\* requests; but GracefulStop waits as long as a gRPC client likes.
ShutdownEnds == ClientsFinish => (signal /\ Bounded ~> main = "exited")

\* Single Port Mode: by docs/config.md the two are then one server.  The code
\* starts both, and the second cannot listen (README, section 6).
SinglePort ==
    Enabled("http") /\ Address("http") = Address("query") /\ Address("query").n # 0

\* The process does not live on without one of its servers: if an enabled one
\* could not listen, or its Serve fails, the process ends.  Nothing is said of
\* Single Port Mode, in which it should not come to that.
LossEnds ==
    ClientsFinish =>
       (/\ main = "select"
        /\ \E e \in Endpoint : Enabled(e) /\ server[e] \notin {"spawned", "serving"}
        /\ ~ SinglePort
        /\ Bounded
        ~> main = "exited")

=============================================================================
