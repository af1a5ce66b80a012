------------------------------ MODULE MCUploader ------------------------------
(* Small instances of Uploader for TLC. *)
EXTENDS Uploader

(* Overlapping runs upload under the same prefix to the same folder. *)
MCDir == [c \in Callers |-> <<"prefix", "sonarr">>]

(* A single folder below the root. *)
MCShortDir == [c \in Callers |-> <<"prefix">>]

(* Each run has an archive of its own. *)
MCFile == [c \in Callers |-> c]

=============================================================================
