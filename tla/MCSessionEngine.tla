--------------------------- MODULE MCSessionEngine ---------------------------
(* Small instances of SessionEngine for TLC. *)
EXTENDS SessionEngine, TLC

=============================================================================
