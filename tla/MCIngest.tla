------------------------------ MODULE MCIngest ------------------------------
(***************************************************************************)
(* Instances of Ingest for TLC.                                            *)
(***************************************************************************)
EXTENDS Ingest

Text(s) == [kind |-> "string", text |-> s]

ServiceName == <<"service", ".", "name">>

\* The same label name, sanitized.
ServiceName2 == <<"service", "_", "name">>

MCPromote == {ServiceName}

\* The name of a metric is not left to a label map.
MCLabelMap == <<"host">> :> NameLabel

Attr(key, value) == [key |-> key, value |-> value]

NoAttrs == << >>

Gauge(n) ==
    [type |-> "gauge", name |-> <<n>>, unit |-> <<"1">>, points |-> <<[attrs |-> NoAttrs, v |-> 1]>>]

DeltaSum(n, v, attrs) ==
    [type |-> "sum", name |-> <<n, ".", "total">>, unit |-> << >>, monotonic |-> TRUE,
     delta |-> TRUE, points |-> <<[attrs |-> attrs, v |-> v]>>]

\* One bound and one observation below it.
DeltaHistogram(n) ==
    [type |-> "histogram", name |-> <<n>>, unit |-> <<"s">>, delta |-> TRUE,
     points |-> <<[attrs |-> NoAttrs, bounds |-> 1, counts |-> <<1, 0>>, count |-> 1,
                   hasSum |-> FALSE]>>]

Exponential(n) ==
    [type |-> "exponential", name |-> <<n>>, unit |-> <<"By">>, delta |-> FALSE,
     points |-> <<[attrs |-> <<Attr(<<"le">>, Text(<<"x">>))>>, offset |-> -1, zero |-> 1,
                   counts |-> <<2>>, count |-> 3, hasSum |-> FALSE]>>]

Summary(n) ==
    [type |-> "summary", name |-> <<n>>, unit |-> << >>,
     points |-> <<[attrs |-> <<Attr(ServiceName2, Text(<<"x">>)), Attr(ServiceName, [kind |-> "array"])>>,
                   quantiles |-> << >>, sum |-> 2, count |-> 1]>>]

Scope(schema, metrics) ==
    [name |-> <<"lib">>, version |-> << >>, schema |-> schema, metrics |-> metrics]

Resource(scopes) ==
    [attrs |-> <<Attr(ServiceName, Text(<<"shop">>)), Attr(<<"host">>, Text(<<"h">>)),
                 Attr(<<"pid">>, [kind |-> "int", text |-> <<"7">>])>>,
     schema |-> <<"v0">>, scopes |-> scopes]

\* A counter alone; behind another one, whose scope has a schema URL, in a body
\* that is cut; and the other types, with attributes that clash.
MCRequest ==
    [alone |-> <<Resource(<<Scope(<< >>, <<DeltaSum("a", 1, NoAttrs)>>)>>)>>,
     behind |-> <<Resource(<<Scope(<<"v1">>, <<DeltaSum("b", 2, <<Attr(ServiceName, Text(<<"x">>))>>)>>),
                  Scope(<< >>, <<DeltaSum("a", 1, NoAttrs)>>)>>),
       Resource(<<Scope(<< >>, <<Gauge("g")>>)>>)>>,
     others |-> <<Resource(<<Scope(<< >>, <<Exponential("e"), Summary("s"), Gauge("g")>>)>>)>>]

HistogramRequest == [histogram |-> <<Resource(<<Scope(<< >>, <<DeltaHistogram("h")>>)>>)>>]

\* Handlers are interchangeable.
MCSymmetry == Permutations(Handler)

\* The hash of "b" is that of the gauge, which has no total.
MCHash(l) ==
    LET name == Head(l[NameLabel])
    IN  CASE name = "a" -> IF l[SchemaLabel] = <<"v0">> THEN 1 ELSE 3
          [] name \in {"b", "g"} -> 2
          [] OTHER -> IF <<"le">> \in DOMAIN l THEN (IF l[<<"le">>] = <<"+Inf">> THEN 4 ELSE 5) ELSE 6

=============================================================================
