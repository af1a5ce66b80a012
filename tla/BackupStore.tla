----------------------------- MODULE BackupStore -----------------------------
(****************************************************************************)
(* What the backup service promises about one remote folder per target,     *)
(* whatever runs it takes to get there: archives are added under fresh      *)
(* names, and archives only ever leave a folder when they are older than    *)
(* the retention and something newer stays.  Orchestrator implements this.  *)
(****************************************************************************)
EXTENDS Retention

CONSTANTS Folders, RetentionDays, InitialFiles

VARIABLES clock, files

vars == <<clock, files>>

Init == /\ clock = 0
        /\ files = InitialFiles

Tick == /\ clock' = clock + 1
        /\ UNCHANGED files

(* A new archive, under a name the folder does not hold. *)
Store(t) ==
  \E f \in [stamp : 0..clock, label : {"backup"}, mod : {NoTime}] :
    /\ Named(NameOf(f), files[t]) = {}
    /\ files' = [files EXCEPT ![t] = @ \cup {f}]
    /\ UNCHANGED clock

(* Files leave a folder: each one dated and out of the window, and a newer  *)
(* one stays.                                                               *)
Prune(t) ==
  \E gone \in SUBSET Dated(files[t]), keep \in Dated(files[t]) :
    /\ RetentionDays > 0
    /\ keep \notin gone
    /\ \A f \in gone : /\ BackupTime(f) < clock - RetentionDays
                       /\ BackupTime(f) < BackupTime(keep)
    /\ files' = [files EXCEPT ![t] = @ \ gone]
    /\ UNCHANGED clock

Next == \/ Tick
        \/ \E t \in Folders : Store(t) \/ Prune(t)

Spec == Init /\ [][Next]_vars

=============================================================================
