------------------------- MODULE MCDaemonLifecycle -------------------------
(* Small instances of DaemonLifecycle for TLC. *)
EXTENDS DaemonLifecycle, TLC

CONSTANTS d1, d2, d3, db1

SameDb == [d \in Daemons |-> db1]
=============================================================================
