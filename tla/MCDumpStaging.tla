---------------------------- MODULE MCDumpStaging ----------------------------
(* A small instance of DumpStaging for TLC. *)
EXTENDS DumpStaging, TLC

MCDatabases == 1..2

Symmetry == Permutations(Runs)

=============================================================================
