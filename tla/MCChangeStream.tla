--------------------------- MODULE MCChangeStream ---------------------------
(* Small instances of ChangeStream for TLC. *)
EXTENDS ChangeStream
=============================================================================
