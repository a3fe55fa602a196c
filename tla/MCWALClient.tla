---------------------------- MODULE MCWALClient ----------------------------
(* Model-checking instance of WALClient. *)
EXTENDS WALClient

MCSample == 1 .. MaxIssued

=============================================================================
