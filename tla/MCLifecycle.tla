------------------------------ MODULE MCLifecycle ----------------------------
(***************************************************************************)
(* Instances of Server for TLC: configuration files and environments that  *)
(* set little each, and reach every outcome of Load.                       *)
(***************************************************************************)
EXTENDS Server, TLC

Remote(e) ==
    "storage.engine" :> Word(e) @@
    ("storage." \o e \o ".write_url") :> Word("w") @@
    ("storage." \o e \o ".read_url") :> Word("r")

None == << >>

\* Accepted: the defaults, malformed values in the environment; the query and
\* the OTLP server at one address, which is Single Port Mode; two servers and a
\* remote store without a time limit.
\* Refused: by the file, the environment, or one because of the other.
MCSource ==
    {<<None, "retention.duration" :> Word("never") @@ "otlp.http.enabled" :> Word("")>>,
     <<"otlp.grpc.enabled" :> Bool(FALSE) @@ "prometheus.listen" :> Addr(4318) @@
       "retention.duration" :> Days(70), None>>,
     <<Remote("prometheus") @@ "otlp.http.enabled" :> Bool(FALSE),
       "storage.prometheus.timeout" :> Dur(-1)>>,
     <<"logs.enabled" :> Num(1), None>>,
     <<"logs.enabled" :> Bool(FALSE), "otlp.logs.enabled" :> Bool(TRUE)>>,
     <<Remote("prometheus"), "storage.engine" :> Word("memory")>>,
     <<Remote("prometheus"), "storage.engine" :> Word("victoriametrics")>>,
     <<None, "retention.duration" :> Days(40)>>,
     <<None, "retention.max_size" :> Size(-1)>>,
     <<"prometheus.listen" :> Addr(-1), None>>}

=============================================================================
