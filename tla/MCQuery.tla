------------------------------ MODULE MCQuery ------------------------------
(* An instance of Query for TLC. *)
EXTENDS Query, TLC

\* Two series with equal hashes, one of them without the label x.
LX == [n |-> "a", x |-> "1"]
LN == [n |-> "a"]
MCLabelSet == {LX, LN}
MCHashOf == [l \in MCLabelSet |-> 7]

MCZeroTime == -9

MCPoint == {<<LX, 0>>, <<LX, 1>>, <<LX, 2>>, <<LN, 1>>}

Appenders == Permutations(Appender)

Absent == [form |-> "absent", t |-> 0]
Bad == [form |-> "bad", t |-> 0]
Rfc(t) == [form |-> "rfc3339", t |-> t]
Unix(t) == [form |-> "unix", t |-> t]

WithX == {[name |-> "x", values |-> {"1"}]}
WithoutX == {[name |-> "x", values |-> {""}]}

Sel(matchers, range, offset) ==
    [bad |-> FALSE, matchers |-> matchers, range |-> range, offset |-> offset]
BadSel == [bad |-> TRUE, matchers |-> {}, range |-> 0, offset |-> 0]

Base == [parses |-> TRUE, op |-> "query", expr |-> "ok", sels |-> << >>,
         start |-> Absent, end |-> Absent, step |-> [form |-> "seconds", n |-> 1],
         name |-> ""]

Both == <<Sel(WithX, 2, 0), Sel(WithoutX, 1, 1)>>

MCRequest ==
    {[Base EXCEPT !.parses = FALSE],
     [Base EXCEPT !.expr = "missing"],
     [Base EXCEPT !.end = Bad],
     [Base EXCEPT !.sels = Both],
     [Base EXCEPT !.op = "query_range", !.end = Rfc(2)],
     [Base EXCEPT !.op = "query_range", !.start = Rfc(0), !.end = Rfc(2), !.sels = Both,
                  !.step = [form |-> "prom", n |-> 0]],
     [Base EXCEPT !.op = "query_range", !.start = Rfc(0), !.end = Unix(2), !.sels = Both],
     [Base EXCEPT !.op = "series"],
     [Base EXCEPT !.op = "series", !.sels = <<Sel({}, 0, 0), BadSel>>, !.end = Bad],
     [Base EXCEPT !.op = "series", !.sels = <<Sel(WithX, 0, 0), Sel({}, 0, 0)>>,
                  !.start = Unix(1), !.end = Rfc(2)],
     [Base EXCEPT !.op = "labels", !.start = Rfc(1), !.end = Rfc(1)],
     [Base EXCEPT !.op = "values", !.start = Rfc(1), !.end = Unix(2), !.name = "x"],
     [Base EXCEPT !.op = "values"]}

=============================================================================
