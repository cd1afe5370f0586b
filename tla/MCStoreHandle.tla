--------------------------- MODULE MCStoreHandle ---------------------------
(* Small instances of StoreHandle for TLC. *)
EXTENDS StoreHandle, TLC

CONSTANTS c1, c2, c3, j1

=============================================================================
