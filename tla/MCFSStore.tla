----------------------------- MODULE MCFSStore -----------------------------
(* Model-checking instances of FSStore: small sets of samples and batches. *)
EXTENDS FSStore

\* A sample of series "a" at time t, and more for the same or another series.
A(t) == [series |-> "a", t |-> t, v |-> 0]
A2(t) == [series |-> "a", t |-> t, v |-> 1]
B(t) == [series |-> "b", t |-> t, v |-> 0]
C(t) == [series |-> "c", t |-> t, v |-> 0]

\* Series "b" and "c" have the same hash.
MCHashOf == [s \in {"a", "b", "c"} |-> IF s = "a" THEN 1 ELSE 2]

MCSample == {A(0), A(1), A(2), A(3), A(4), A2(2), B(1), B(2), C(3)}

ServerBatches == {<<A(1)>>, <<A(2), B(2)>>}
FlushBatches == {<<A(1)>>, <<A(2), A(3)>>, <<A(4)>>}
TwoBatches == {<<A(1)>>, <<A(2)>>}
NoBatches == {}

\* A block as FlushHead writes it.
FlushedBlock(data) ==
    [dir |-> <<"b", Min(Times(data))>>, mint |-> Min(Times(data)),
     maxt |-> Max(Times(data)), data |-> data]

NoBlocks == {}
\* Blocks that overlap in time; all merged they are 6 samples, without the
\* second one 4.
OverlappingFlushed == 
    {FlushedBlock({A(0), A(3)}), FlushedBlock({B(1), A2(2), B(2)}), FlushedBlock({A(3), A(4), C(3)})}
DisjointFlushed == {FlushedBlock({A(1)}), FlushedBlock({A(2), B(2)}), FlushedBlock({A(4)})}

AllTimes == {<<0, 9>>}
SomeTimes == {<<4, 9>>}
TailTimes == {<<3, 9>>}
NoWindow == {}

=============================================================================
