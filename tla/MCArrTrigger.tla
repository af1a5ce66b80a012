----------------------------- MODULE MCArrTrigger -----------------------------
(* A small instance of ArrTrigger for TLC, for each of the schemes. *)
EXTENDS ArrTrigger

=============================================================================
