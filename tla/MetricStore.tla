---------------------------- MODULE MetricStore ----------------------------
(***************************************************************************)
(* What a store promises to the ingestion handlers and to queries, whatever*)
(* its files look like.  A batch is acknowledged only when it is durable,  *)
(* and becomes visible as a whole in that very step; a crash loses nothing *)
(* durable; a restart makes visible exactly what is durable.  A sample may *)
(* become durable without ever being acknowledged: its Commit failed half  *)
(* way, or the process died first.                                         *)
(***************************************************************************)
CONSTANT Sample

VARIABLES
    up,        \* the store is open
    durable,   \* samples a restart would recover
    visible,   \* samples a query can see
    acked      \* samples of batches that were acknowledged

vars == <<up, durable, visible, acked>>

Init ==
    /\ up = FALSE
    /\ durable \subseteq Sample
    /\ visible = {}
    /\ acked \subseteq durable

Persist ==
    /\ up
    /\ \E s \in Sample : durable' = durable \cup {s}
    /\ UNCHANGED <<up, visible, acked>>

Acknowledge ==
    /\ up
    /\ \E batch \in SUBSET durable :
          /\ visible' = visible \cup batch
          /\ acked' = acked \cup batch
    /\ UNCHANGED <<up, durable>>

Crash ==
    /\ up
    /\ up' = FALSE
    /\ visible' = {}
    /\ UNCHANGED <<durable, acked>>

Recover ==
    /\ ~ up
    /\ up' = TRUE
    /\ visible' = durable
    /\ UNCHANGED <<durable, acked>>

Next == Persist \/ Acknowledge \/ Crash \/ Recover

Spec == Init /\ [][Next]_vars

=============================================================================
