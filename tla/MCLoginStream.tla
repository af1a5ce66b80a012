---------------------------- MODULE MCLoginStream ----------------------------
(* A small instance of LoginStream for TLC. *)
EXTENDS LoginStream

(* Two lines of any kind, or three of those that matter to one another. *)
MCScripts ==
  LET Up(n, kinds) == [1..n -> [on : Streams, line : kinds]]
  IN  UNION {Up(n, Lines) : n \in 0..2} \cup Up(3, URLs \cup {"long"})

=============================================================================
