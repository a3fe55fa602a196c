------------------------------- MODULE Labels -------------------------------
(***************************************************************************)
(* How internal/ingest/translator.go names series: the labels that a data  *)
(* point gets from its resource, scope, schema URL, attributes and metric. *)
(*                                                                         *)
(* A name is a sequence of words, digits, underscores and other symbols,   *)
(* so `http.status_2xx' is <<"http", ".", "status", "_", "2", "xx">>; a    *)
(* value is one too.  A set of labels is a function from names to values.  *)
(***************************************************************************)
EXTENDS Integers, Sequences, SequencesExt, TLC

CONSTANTS
    Promote,              \* cfg.ResourceAttributes.Promote, keys
    LabelMap,             \* cfg.ResourceAttributes.LabelMap: key -> label name
    SchemaURL,            \* cfg.SchemaURL
    SanitizeMetricNames,  \* cfg.SanitizeMetricNames
    AddUnitSuffix,        \* cfg.AddUnitSuffix
    AddTypeSuffix         \* cfg.AddTypeSuffix

Digit == {"0", "1", "2", "3", "4", "5", "6", "7", "8", "9"}

Symbol == {".", "-", "/", "%", ":", "{", "}", " "}

-----------------------------------------------------------------------------
(* Names *)

\* Symbols but the ones to keep become underscores, runs of underscores one,
\* those at the ends go, and a name does not start with a digit.  A name of
\* symbols only becomes empty.
sanitize(name, keep) ==
    LET mapped == [i \in DOMAIN name |-> IF name[i] \in Symbol \ keep THEN "_" ELSE name[i]]
        merged == FoldLeft(LAMBDA s, c : IF c = "_" /\ (s = << >> \/ Last(s) = "_") THEN s
                                         ELSE Append(s, c), << >>, mapped)
        trimmed == IF merged # << >> /\ Last(merged) = "_" THEN Front(merged) ELSE merged
    IN  IF trimmed # << >> /\ Head(trimmed) \in Digit THEN <<"_">> \o trimmed ELSE trimmed

sanitizeMetricName(name) == sanitize(name, {":"})

sanitizeLabelName(name) == sanitize(name, {})

unitMap ==
    <<"s">> :> "seconds" @@ <<"ms">> :> "milliseconds" @@ <<"us">> :> "microseconds" @@
    <<"ns">> :> "nanoseconds" @@ <<"m">> :> "meters" @@ <<"km">> :> "kilometers" @@
    <<"By">> :> "bytes" @@ <<"KBy">> :> "kilobytes" @@ <<"MBy">> :> "megabytes" @@
    <<"GBy">> :> "gigabytes" @@ <<"1">> :> "ratio" @@ <<"%">> :> "percent"

AddSuffix(name, suffix) == IF IsSuffix(suffix, name) THEN name ELSE name \o suffix

addUnitSuffix(name, unit) ==
    AddSuffix(name, <<"_">> \o sanitizeMetricName(
        IF unit \in DOMAIN unitMap THEN <<unitMap[unit]>> ELSE unit))

addTypeSuffix(name, suffix) == AddSuffix(name, <<"_", suffix>>)

\* The name in translateMetric.
MetricName(m) ==
    LET name == IF SanitizeMetricNames THEN sanitizeMetricName(m.name) ELSE m.name
    IN  IF AddUnitSuffix /\ m.unit # << >> THEN addUnitSuffix(name, m.unit) ELSE name

-----------------------------------------------------------------------------
(* Sets of labels *)

NameLabel == <<"_", "_", "name", "_", "_">>

SchemaLabel == <<"_", "_", "schema", "_", "url", "_", "_">>

EmptyLabels == << >>

\* labels.Builder.Set: an empty value deletes the label.
Set(l, name, value) ==
    [n \in (DOMAIN l \ {name}) \cup (IF value = << >> THEN {} ELSE {name}) |->
        IF n = name THEN value ELSE l[n]]

\* Set for every label of m.
SetAll(l, m) ==
    [n \in DOMAIN l \cup DOMAIN m |-> IF n \in DOMAIN m THEN m[n] ELSE l[n]]

\* A value of no scalar kind is as good as none.
anyValueString(v) == IF v.kind \in {"string", "bool", "int", "double"} THEN v.text ELSE << >>

resourceLabels(attrs) ==
    FoldLeft(LAMBDA l, kv :
                CASE kv.key \in DOMAIN LabelMap -> Set(l, LabelMap[kv.key], anyValueString(kv.value))
                  [] kv.key \notin DOMAIN LabelMap /\ kv.key \in Promote ->
                        Set(l, sanitizeLabelName(kv.key), anyValueString(kv.value))
                  [] OTHER -> l,
             EmptyLabels, attrs)

scopeLabels(scope) ==
    Set(Set(EmptyLabels, <<"otel", "_", "scope", "_", "name">>, scope.name),
        <<"otel", "_", "scope", "_", "version">>, scope.version)

\* The schema URL of a resource or scope, if it has one, else the one before.
SchemaLabels(before, url) ==
    IF SchemaURL /\ url # << >> THEN Set(EmptyLabels, SchemaLabel, url) ELSE before

\* Slip: the attributes of the data point come first.
buildLabels_AttributesFirst(metricName, attrs, resource, scope, schema) ==
    LET own == FoldLeft(LAMBDA l, kv : Set(l, sanitizeLabelName(kv.key), anyValueString(kv.value)),
                        EmptyLabels, attrs)
    IN  Set(SetAll(SetAll(SetAll(own, resource), scope), schema), NameLabel, metricName)

\* Later ones win: resource, scope, schema, attributes, name.
buildLabels(metricName, attrs, resource, scope, schema) ==
    LET base == SetAll(SetAll(resource, scope), schema)
        all  == FoldLeft(LAMBDA l, kv : Set(l, sanitizeLabelName(kv.key), anyValueString(kv.value)),
                         base, attrs)
    IN  Set(all, NameLabel, metricName)

appendLabel(base, metricName, name, value) ==
    Set(Set(base, NameLabel, metricName), name, value)

replaceMetricName(base, newName) == Set(base, NameLabel, newName)

=============================================================================
