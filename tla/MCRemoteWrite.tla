--------------------------- MODULE MCRemoteWrite ---------------------------
(***************************************************************************)
(* An instance of RemoteWrite for TLC.                                     *)
(***************************************************************************)
EXTENDS RemoteWrite

\* Three label sets, two of which have the same hash.
MCSeries == {"a", "b", "c"}
MCHashOf == [s \in MCSeries |-> IF s = "c" THEN 2 ELSE 1]

\* A batch of two samples, so that the last may be short; a batch of one row
\* with the default number of retries; defaults throughout.
MCConfig ==
    {[backend |-> "prometheus", BatchSize |-> 2, MaxRetries |-> 2],
     [backend |-> "victoriametrics", BatchSize |-> 1, MaxRetries |-> 0],
     [backend |-> "victoriametrics", BatchSize |-> 0, MaxRetries |-> 1]}

=============================================================================
