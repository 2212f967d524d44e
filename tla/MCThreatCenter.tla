--------------------------- MODULE MCThreatCenter ---------------------------
(* Small instances of ThreatCenter for TLC. *)
EXTENDS ThreatCenter

Observations == {{}, {<<"inside", TRUE>>}, {<<"unknown", FALSE>>, <<"outside", TRUE>>}, {<<"inside", FALSE>>}}
Disturbances ==
    {[changes |-> {}, runs |-> 1, others |-> 2],
     [changes |-> {"advisory", "archived"}, runs |-> 1, others |-> 0],
     [changes |-> {"inventory", "partial view"}, runs |-> 1, others |-> 0],
     [changes |-> {"archived", "finding"}, runs |-> 1, others |-> 0],
     [changes |-> {"finding", "partial view"}, runs |-> 2, others |-> 0]}
=============================================================================
