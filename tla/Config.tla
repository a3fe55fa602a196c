------------------------------- MODULE Config -------------------------------
(***************************************************************************)
(* The configuration of internal/config/config.go: defaults, overridden by *)
(* a YAML file, overridden by environment variables, then validated.       *)
(*                                                                         *)
(* A setting is written as a text.  Texts that the code tells apart have   *)
(* different forms; what else is in them is left out.  The settings that   *)
(* validate does not read are left out too, but for the time limits of the *)
(* remote stores.                                                          *)
(***************************************************************************)
EXTENDS Integers

CONSTANTS
    Day,          \* 24 hours, in the unit of durations: 30 s or less
    MaxDuration   \* durations are signed integers below this

ASSUME ConfigAssumption ==
    /\ Day \in Nat /\ Day >= 2880
    /\ MaxDuration \in Nat \ {0}

-----------------------------------------------------------------------------
(* Texts *)

Text(form, s, n) == [form |-> form, s |-> s, n |-> n]

Word(s) == Text("word", s, 0)        \* any text that is none of the others
Num(n)  == Text("num", "", n)        \* "4"
Bool(b) == Text("bool", "", IF b THEN 1 ELSE 0)
Days(n) == Text("days", "", n)       \* "4d"
Dur(n)  == Text("dur", "", n)        \* "2h", in the unit of durations
Size(n) == Text("size", "", n)       \* "4KB"
Addr(n) == Text("addr", "", n)       \* ":4317", a port

KB == 1024

\* int64 arithmetic.
Wrap(n) == ((n + MaxDuration) % (2 * MaxDuration)) - MaxDuration

\* The parsers: the set of the value, empty if the text is malformed.
parseDuration(x) ==
    CASE x.form = "days"               -> {Wrap(x.n * Day)}
      [] x.form = "dur"                -> {x.n}
      [] x.form = "num" /\ x.n = 0     -> {0}
      [] OTHER                         -> {}

parseByteSize(x) ==
    CASE x.form = "size" -> {x.n * KB}
      [] x.form = "num"  -> {x.n}
      [] OTHER           -> {}

ParseInt(x) == IF x.form = "num" THEN {x.n} ELSE {}

ParseBool(x) ==
    IF x.form = "bool" \/ (x.form = "num" /\ x.n \in {0, 1}) THEN {x.n = 1} ELSE {}

-----------------------------------------------------------------------------
(* Settings *)

BoolField == {"otlp.grpc.enabled", "otlp.http.enabled", "otlp.logs.enabled", "logs.enabled"}

IntField == {"otlp.grpc.max_recv_msg_size", "otlp.http.max_body_size",
             "prometheus.max_samples", "logs.max_events_per_session"}

DurationField == {"prometheus.read_timeout", "storage.prometheus.timeout",
                  "storage.victoriametrics.timeout", "retention.duration",
                  "logs.retention"}

SizeField == {"retention.max_size"}

StringField == {"server.log_level", "server.log_format", "otlp.grpc.listen",
                "otlp.http.listen", "prometheus.listen", "storage.engine",
                "storage.prometheus.write_url", "storage.prometheus.read_url",
                "storage.victoriametrics.write_url", "storage.victoriametrics.read_url",
                "logs.path"}

Field == BoolField \cup IntField \cup DurationField \cup SizeField \cup StringField

\* A number of seconds in the unit of durations.
Seconds(n) == (n * Day) \div 86400

IntDefault(f) ==
    CASE f = "prometheus.max_samples"       -> 50000 * 1000
      [] f = "logs.max_events_per_session"  -> 5000
      [] OTHER                              -> 4 * KB * KB

DurationDefault(f) ==
    CASE f = "retention.duration"           -> 15 * Day
      [] f = "logs.retention"               -> Day
      [] OTHER                              -> Seconds(30)

StringDefault(f) ==
    CASE f = "server.log_level"  -> Word("info")
      [] f = "server.log_format" -> Word("json")
      [] f = "otlp.grpc.listen"  -> Addr(4317)
      [] f = "otlp.http.listen"  -> Addr(4318)
      [] f = "prometheus.listen" -> Addr(9090)
      [] f = "storage.engine"    -> Word("fs")
      [] f = "logs.path"         -> Word("./data/sessions.db")
      [] OTHER                   -> Word("")

newDefaults ==
    [f \in Field |->
        CASE f \in BoolField     -> f # "otlp.logs.enabled"
          [] f \in IntField      -> IntDefault(f)
          [] f \in DurationField -> DurationDefault(f)
          [] f \in SizeField     -> 0
          [] f \in StringField   -> StringDefault(f)]

\* setFieldFromString and the cases of applyEnvOverrides.
FromEnv(f, x) ==
    CASE f \in BoolField     -> ParseBool(x)
      [] f \in IntField      -> ParseInt(x)
      [] f \in DurationField -> parseDuration(x)
      [] f \in SizeField     -> parseByteSize(x)
      [] f \in StringField   -> {x}

\* UnmarshalYAML and yaml.v3, which takes no number for a bool.
FromYAML(f, x) == IF f \in BoolField /\ x.form # "bool" THEN {} ELSE FromEnv(f, x)

\* yaml.Unmarshal onto the defaults; fails if any value is malformed.
loadYAML(c, file) ==
    IF \E f \in DOMAIN file : FromYAML(f, file[f]) = {}
    THEN {}
    ELSE {[f \in Field |-> IF f \in DOMAIN file
                           THEN CHOOSE v \in FromYAML(f, file[f]) : TRUE
                           ELSE c[f]]}

\* A malformed value is passed over without notice.
applyEnvOverrides(c, env) ==
    [f \in Field |-> IF f \in DOMAIN env /\ FromEnv(f, env[f]) # {}
                     THEN CHOOSE v \in FromEnv(f, env[f]) : TRUE
                     ELSE c[f]]

validateListen(addr) == addr.form = "addr" /\ addr.n \in 0 .. 65535

IsWord(x, S) == x.form = "word" /\ x.s \in S

\* validate: the configuration has no error.
validate(c) ==
    /\ IsWord(c["server.log_level"], {"debug", "info", "warn", "error"})
    /\ IsWord(c["server.log_format"], {"json", "text"})
    /\ c["otlp.grpc.enabled"] =>
          validateListen(c["otlp.grpc.listen"]) /\ c["otlp.grpc.max_recv_msg_size"] > 0
    /\ c["otlp.http.enabled"] =>
          validateListen(c["otlp.http.listen"]) /\ c["otlp.http.max_body_size"] > 0
    /\ validateListen(c["prometheus.listen"])
    /\ c["prometheus.read_timeout"] > 0
    /\ c["prometheus.max_samples"] > 0
    /\ IsWord(c["storage.engine"], {"fs", "prometheus", "victoriametrics"})
    /\ c["storage.engine"] = Word("prometheus") =>
          /\ c["storage.prometheus.write_url"] # Word("")
          /\ c["storage.prometheus.read_url"] # Word("")
    /\ c["storage.engine"] = Word("victoriametrics") =>
          /\ c["storage.victoriametrics.write_url"] # Word("")
          /\ c["storage.victoriametrics.read_url"] # Word("")
    /\ c["retention.duration"] >= 0
    /\ c["retention.max_size"] >= 0
    /\ c["otlp.logs.enabled"] => c["logs.enabled"]
    /\ c["logs.enabled"] =>
          /\ c["logs.path"] # Word("")
          /\ c["logs.max_events_per_session"] > 0
          /\ c["logs.retention"] >= 0

\* Slip: the file is validated, and the environment applied to the result.
Load_ValidatesFirst(file, env) ==
    {applyEnvOverrides(c, env) : c \in {c \in loadYAML(newDefaults, file) : validate(c)}}

\* Load: the set of the configuration, empty on an error.  Without a path the
\* file sets nothing.
Load(file, env) ==
    {c \in {applyEnvOverrides(c, env) : c \in loadYAML(newDefaults, file)} : validate(c)}

=============================================================================
