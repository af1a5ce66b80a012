--------------------------- MODULE MCServarrTrigger ---------------------------
(* Small instances of ServarrTrigger for TLC. *)
EXTENDS ServarrTrigger

=============================================================================
