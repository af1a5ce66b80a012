------------------------------ MODULE Retention ------------------------------
(****************************************************************************)
(* The retention policy of internal/core/service/retention.go, as operators *)
(* without state.  A remote file is reduced to what the policy reads:       *)
(*                                                                          *)
(*   stamp  the time in a versioned name, <id>_backup_<date>_<time>.<ext>,  *)
(*          or NoTime when the name has no such time;                       *)
(*   label  the rest of the name;                                           *)
(*   mod    the modificationTime the listing gave, NoTime when it had none. *)
(*                                                                          *)
(* Time is counted in the unit the retention is given in (days).            *)
(****************************************************************************)
EXTENDS Integers

(* The zero time.Time, and the "not ok" answer of ParseVersionedBackupTime. *)
NoTime == -1

Times == Nat \cup {NoTime}

(* Two files of one folder cannot share a name; trash and conflict          *)
(* resolution go by name.                                                   *)
NameOf(f) == [stamp |-> f.stamp, label |-> f.label]

Named(n, files) == {f \in files : NameOf(f) = n}

(* ParseVersionedBackupTime succeeds on the name. *)
Versioned(f) == f.stamp # NoTime

(* backupTime: the time in the name, else the modification time. *)
BackupTime(f) == IF Versioned(f) THEN f.stamp ELSE f.mod

Dated(files) == {f \in files : BackupTime(f) # NoTime}

(* Slip: a file at the cutoff itself counts as expired. *)
WithinStrictly(files, cutoff) == {f \in Dated(files) : BackupTime(f) > cutoff}

(* The files the policy counts as "within": !at.Before(cutoff). *)
Within(files, cutoff) == {f \in Dated(files) : BackupTime(f) >= cutoff}

(* Slip: nothing is kept when no file is inside the window. *)
SelectAllExpired(files, now, retention) ==
  IF retention <= 0 THEN {} ELSE Dated(files) \ Within(files, now - retention)

(* Slip: files without a time are taken for old ones. *)
SelectUndated(files, now, retention) ==
  LET within == Within(files, now - retention)
  IN  IF retention <= 0 \/ within = {} THEN {} ELSE files \ within

(* SelectExpiredBackups: every dated file before the cutoff, unless the     *)
(* policy is off or no file is inside the window.                           *)
SelectExpired(files, now, retention) ==
  LET within == Within(files, now - retention)
  IN  IF retention <= 0 \/ within = {} THEN {} ELSE Dated(files) \ within

=============================================================================
