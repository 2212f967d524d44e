---------------------------- MODULE MCDaemonLease ----------------------------
(* A small instance of DaemonLease for TLC: the timeouts leave just Slack. *)
EXTENDS DaemonLease

ASSUME Slack /\ TTL = Period + RenewTicks + Cardinality(Undoable) * CallTicks + 1
=============================================================================
