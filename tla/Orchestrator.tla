----------------------------- MODULE Orchestrator -----------------------------
(****************************************************************************)
(* internal/core/service/orchestrator.go: backup runs over the enabled      *)
(* targets.  A run signs in, resolves its targets, makes and uploads one    *)
(* archive per target, then sweeps the folders of the targets that          *)
(* succeeded.  The cron library starts a run at every tick of its schedule, *)
(* whether or not an earlier one has ended, so runs overlap and share the   *)
(* remote folders and the uploader.                                         *)
(*                                                                          *)
(* One action is what a run does between two calls that other runs can      *)
(* interleave with: a CLI command on the remote store is atomic, nothing    *)
(* longer is.  A command may report an error after it took effect.          *)
(****************************************************************************)
EXTENDS Retention, Sequences, FiniteSets

CONSTANTS
  Runs,           \* runs, of one process or of its successors
  Targets,        \* ids of the known apps
  Enabled,        \* APP_ENABLED_TARGETS, a sequence without duplicates
  Kind,           \* the backup kind of each target
  RetentionDays,  \* APP_RETENTION_DAYS
  AppArchives,    \* names the apps give to the archives they write
  InitialFiles,   \* what each remote folder holds at the start
  MaxTime         \* bound on the clock, for TLC

Kinds == {"config_sync", "arr_api", "mongo_dump", "postgres_dump"}

Names == [stamp : Times, label : AppArchives \cup {"backup"}]

Files == [stamp : Times, label : AppArchives \cup {"backup"}, mod : Times]

ASSUME ConstantsAssumption ==
  /\ Enabled \in Seq(Targets)
  /\ \A i, j \in 1..Len(Enabled) : Enabled[i] = Enabled[j] => i = j
  /\ Kind \in [Targets -> Kinds]
  /\ RetentionDays \in Int
  /\ MaxTime \in Nat
  /\ "backup" \notin AppArchives
  /\ InitialFiles \in [Targets -> SUBSET Files]

ASSUME InitialNamesAssumption ==
  \A t \in Targets : \A f, g \in InitialFiles[t] :
    NameOf(f) = NameOf(g) => f = g

(* Targets whose archives get a timestamped name; the app itself names the  *)
(* others.                                                                  *)
VersionedTargets == {t \in Targets : Kind[t] # "arr_api"}

NoName == [stamp |-> NoTime, label |-> "backup"]

VARIABLES
  clock,     \* the day, for rclonarr and for the remote store
  cancelled, \* the signal context of the current process is cancelled
  pc,        \* pc[r]: what run r does next
  idx,       \* idx[r]: position in the target list, in either loop
  archive,   \* archive[r][t]: name of the archive run r made of t
  result,    \* result[r][t]: outcome of target t in run r
  outcome,   \* outcome[r]: what the run returned
  now,       \* now[r]: the time cleanupSuccessful read when it began
  expired,   \* expired[r]: names the run is about to trash
  folder     \* folder[t]: files in the remote folder of t

runVars == <<pc, idx, archive, result, outcome, now, expired>>
vars == <<clock, cancelled, pc, idx, archive, result, outcome, now, expired,
          folder>>

PCs == {"idle", "auth", "resolve", "produce", "upload", "cleanup", "list",
        "trash", "done", "killed"}

InFlight(r) == pc[r] \notin {"idle", "done", "killed"}

Target(r) == Enabled[idx[r]]

-----------------------------------------------------------------------------

Init ==
  /\ clock = 0
  /\ cancelled = FALSE
  /\ pc = [r \in Runs |-> "idle"]
  /\ idx = [r \in Runs |-> 1]
  /\ archive = [r \in Runs |-> [t \in Targets |-> NoName]]
  /\ result = [r \in Runs |-> [t \in Targets |-> "none"]]
  /\ outcome = [r \in Runs |-> "none"]
  /\ now = [r \in Runs |-> 0]
  /\ expired = [r \in Runs |-> {}]
  /\ folder = InitialFiles

Tick == /\ clock < MaxTime
        /\ clock' = clock + 1
        /\ UNCHANGED <<cancelled, runVars, folder>>

(* SIGINT or SIGTERM cancels the context every run works under. *)
Cancel == /\ ~cancelled
          /\ cancelled' = TRUE
          /\ UNCHANGED <<clock, runVars, folder>>

(* The process ends: cron's Stop does not wait for running jobs, and a      *)
(* crash does not either.  Runs in flight are lost and a new process begins *)
(* with a fresh context.                                                    *)
Exit ==
  /\ \E r \in Runs : InFlight(r)
  /\ pc' = [r \in Runs |-> IF InFlight(r) THEN "killed" ELSE pc[r]]
  /\ cancelled' = FALSE
  /\ UNCHANGED <<clock, idx, archive, result, outcome, now, expired, folder>>

(* The bootstrap run, or a tick of the schedule.  Nothing holds a scheduled *)
(* run back while an earlier one is in flight.                              *)
Start(r) == /\ pc[r] = "idle"
            /\ pc' = [pc EXCEPT ![r] = "auth"]
            /\ UNCHANGED <<clock, cancelled, idx, archive, result, outcome,
                           now, expired, folder>>

(* Run returns early, with an error and no results. *)
Abort(r) == /\ pc' = [pc EXCEPT ![r] = "done"]
            /\ outcome' = [outcome EXCEPT ![r] = "error"]

(* EnsureAuth: may take as long as the user takes to sign in. *)
EnsureAuth(r) ==
  /\ pc[r] = "auth"
  /\ \/ /\ ~cancelled
        /\ pc' = [pc EXCEPT ![r] = "resolve"]
        /\ UNCHANGED outcome
     \/ Abort(r)
  /\ UNCHANGED <<clock, cancelled, idx, archive, result, now, expired, folder>>

(* EnabledTargets: an empty list, or one target that does not resolve, fails
   the whole run.                                                          *)
ResolveTargets(r) ==
  /\ pc[r] = "resolve"
  /\ \/ /\ Enabled # <<>>
        /\ pc' = [pc EXCEPT ![r] = "produce"]
        /\ UNCHANGED outcome
     \/ Abort(r)
  /\ UNCHANGED <<clock, cancelled, idx, archive, result, now, expired, folder>>

-----------------------------------------------------------------------------
(* The first loop of Run: one archive and one upload per target. *)

(* The target's result is appended and the loop goes on; after the last     *)
(* target the run goes to its cleanup.                                      *)
Finish(r, res) ==
  /\ result' = [result EXCEPT ![r][Target(r)] = res]
  /\ IF idx[r] < Len(Enabled)
     THEN /\ idx' = [idx EXCEPT ![r] = @ + 1]
          /\ pc' = [pc EXCEPT ![r] = "produce"]
     ELSE /\ pc' = [pc EXCEPT ![r] = "cleanup"]
          /\ UNCHANGED idx

(* rclonarr names a versioned archive by the time it takes; a database dump *)
(* may take long before or after that.  An app API answers with any archive *)
(* the app has.                                                             *)
ArchiveNames(t) == IF t \in VersionedTargets
                   THEN {[stamp |-> clock, label |-> "backup"]}
                   ELSE [stamp : {NoTime}, label : AppArchives]

(* backupConfig, backupArrAPI, backupKomodo and backupPostgres up to the    *)
(* upload.  Zipping a config directory ignores the context; dumps and API   *)
(* calls fail once it is cancelled.                                         *)
Produce(r) ==
  /\ pc[r] = "produce"
  /\ \/ \E n \in ArchiveNames(Target(r)) :
          /\ cancelled => Kind[Target(r)] = "config_sync"
          /\ archive' = [archive EXCEPT ![r][Target(r)] = n]
          /\ pc' = [pc EXCEPT ![r] = "upload"]
          /\ UNCHANGED <<idx, result>>
     \/ /\ Finish(r, "failed")
        /\ UNCHANGED archive
  /\ UNCHANGED <<clock, cancelled, outcome, now, expired, folder>>

(* Slip: the command stores a second file of the same name. *)
PutTwice(t, n) ==
  /\ ~cancelled
  /\ \E m \in IF t \in VersionedTargets THEN {NoTime} ELSE {clock, NoTime} :
       folder' = [folder EXCEPT ![t] = @ \cup
                   {[stamp |-> n.stamp, label |-> n.label, mod |-> m]}]

(* What the upload command leaves in the folder.  Under the "skip" conflict *)
(* strategy a name that is there already stays as it is.  The modification  *)
(* time of a versioned name is never read, and is left out.                 *)
Put(t, n) ==
  /\ ~cancelled
  /\ IF Named(n, folder[t]) # {}
     THEN UNCHANGED folder
     ELSE \E m \in IF t \in VersionedTargets THEN {NoTime} ELSE {clock, NoTime} :
            folder' = [folder EXCEPT ![t] = @ \cup
                        {[stamp |-> n.stamp, label |-> n.label, mod |-> m]}]

(* Slip: a failed upload is taken for a success. *)
UploadAlwaysOk(r) ==
  /\ pc[r] = "upload"
  /\ \/ Put(Target(r), archive[r][Target(r)])
     \/ UNCHANGED folder
  /\ Finish(r, "ok")
  /\ UNCHANGED <<clock, cancelled, archive, outcome, now, expired>>

(* uploadVersioned: the command may fail with or without its effect. *)
Upload(r) ==
  /\ pc[r] = "upload"
  /\ \/ Put(Target(r), archive[r][Target(r)]) /\ Finish(r, "ok")
     \/ Put(Target(r), archive[r][Target(r)]) /\ Finish(r, "failed")
     \/ UNCHANGED folder /\ Finish(r, "failed")
  /\ UNCHANGED <<clock, cancelled, archive, outcome, now, expired>>

-----------------------------------------------------------------------------
(* cleanupSuccessful: the second loop, over the results. *)

(* Slip: only the last target decides what the run returns. *)
ReturnLast(r) ==
  /\ pc' = [pc EXCEPT ![r] = "done"]
  /\ outcome' = [outcome EXCEPT ![r] =
                   IF result[r][Enabled[Len(Enabled)]] = "failed"
                   THEN "error" ELSE "ok"]

Return(r) ==
  /\ pc' = [pc EXCEPT ![r] = "done"]
  /\ outcome' = [outcome EXCEPT ![r] =
                   IF \E i \in 1..Len(Enabled) : result[r][Enabled[i]] = "failed"
                   THEN "error" ELSE "ok"]

(* Slip: the sweep keeps the cutoff in place of the time. *)
StartSweepAtCutoff(r) ==
  /\ pc[r] = "cleanup"
  /\ RetentionDays > 0
  /\ now' = [now EXCEPT ![r] = clock - RetentionDays]
  /\ idx' = [idx EXCEPT ![r] = 1]
  /\ pc' = [pc EXCEPT ![r] = "list"]
  /\ UNCHANGED <<clock, cancelled, archive, result, outcome, expired, folder>>

StartSweep(r) ==
  /\ pc[r] = "cleanup"
  /\ IF RetentionDays <= 0
     THEN Return(r) /\ UNCHANGED <<idx, now>>
     ELSE /\ now' = [now EXCEPT ![r] = clock]
          /\ idx' = [idx EXCEPT ![r] = 1]
          /\ pc' = [pc EXCEPT ![r] = "list"]
          /\ UNCHANGED outcome
  /\ UNCHANGED <<clock, cancelled, archive, result, expired, folder>>

NextResult(r) ==
  IF idx[r] < Len(Enabled)
  THEN /\ idx' = [idx EXCEPT ![r] = @ + 1]
       /\ pc' = [pc EXCEPT ![r] = "list"]
       /\ UNCHANGED outcome
  ELSE Return(r) /\ UNCHANGED idx

(* Slip: a listing that fails is tried again, as long as it takes. *)
SkipOnlyFailed(r) ==
  /\ pc[r] = "list"
  /\ result[r][Target(r)] # "ok"
  /\ NextResult(r)
  /\ UNCHANGED <<clock, cancelled, archive, result, now, expired, folder>>

(* A target that failed is not listed, and a failed listing is only logged. *)
SkipResult(r) ==
  /\ pc[r] = "list"
  /\ NextResult(r)
  /\ UNCHANGED <<clock, cancelled, archive, result, now, expired, folder>>

(* Slip: the folder of a target that failed is swept as well. *)
ListAnyResult(r) ==
  /\ pc[r] = "list"
  /\ ~cancelled
  /\ LET selected == SelectExpired(folder[Target(r)], now[r], RetentionDays)
     IN  /\ selected # {}
         /\ expired' = [expired EXCEPT ![r] = {NameOf(f) : f \in selected}]
         /\ pc' = [pc EXCEPT ![r] = "trash"]
  /\ UNCHANGED <<clock, cancelled, idx, archive, result, outcome, now, folder>>

(* What parseListJSON makes of the CLI's answer: entries whose name it      *)
(* cannot read are dropped, and one whose time it cannot read is as good as *)
(* dropped, so any part of the folder may be seen.                          *)
Listings(t) == SUBSET folder[t]

(* ListFiles, then SelectExpiredBackups. *)
List(r) ==
  /\ pc[r] = "list"
  /\ result[r][Target(r)] = "ok"
  /\ ~cancelled
  /\ \E seen \in Listings(Target(r)) :
       LET selected == SelectExpired(seen, now[r], RetentionDays)
       IN  IF selected = {}
           THEN NextResult(r) /\ UNCHANGED expired
           ELSE /\ expired' = [expired EXCEPT ![r] = {NameOf(f) : f \in selected}]
                /\ pc' = [pc EXCEPT ![r] = "trash"]
                /\ UNCHANGED <<idx, outcome>>
  /\ UNCHANGED <<clock, cancelled, archive, result, now, folder>>

(* Trash works on the paths of the listing, whatever the folder holds by    *)
(* now.  A failed command may have moved some of them; it is only logged.   *)
Trash(r) ==
  /\ pc[r] = "trash"
  /\ LET t == Target(r)
         listed == {f \in folder[t] : NameOf(f) \in expired[r]}
     IN  \/ /\ ~cancelled
            /\ \E gone \in SUBSET listed :
                 folder' = [folder EXCEPT ![t] = @ \ gone]
         \/ UNCHANGED folder
  /\ expired' = [expired EXCEPT ![r] = {}]
  /\ NextResult(r)
  /\ UNCHANGED <<clock, cancelled, archive, result, now>>

-----------------------------------------------------------------------------

RunStep(r) == \/ EnsureAuth(r) \/ ResolveTargets(r) \/ Produce(r) \/ Upload(r)
              \/ StartSweep(r) \/ SkipResult(r) \/ List(r) \/ Trash(r)

Next == \/ Tick \/ Cancel \/ Exit
        \/ \E r \in Runs : Start(r) \/ RunStep(r)

Spec == Init /\ [][Next]_vars

(* Every call a run makes returns, so a run in flight goes on: commands and *)
(* requests end, and a sign-in is completed or given up at last.            *)
FairSpec == Spec /\ \A r \in Runs : WF_vars(RunStep(r))

-----------------------------------------------------------------------------
(* Properties. *)

TypeOK ==
  /\ clock \in Nat
  /\ cancelled \in BOOLEAN
  /\ pc \in [Runs -> PCs]
  /\ idx \in [Runs -> Nat]
  /\ archive \in [Runs -> [Targets -> Names]]
  /\ result \in [Runs -> [Targets -> {"none", "ok", "failed"}]]
  /\ outcome \in [Runs -> {"none", "ok", "error"}]
  /\ now \in [Runs -> Nat]
  /\ expired \in [Runs -> SUBSET Names]
  /\ folder \in [Targets -> SUBSET Files]

(* "Keep everything when nothing is inside the window" (retention.go 12-13) *)
(* must survive overlapping runs that act on old listings with different    *)
(* times: a step that takes dated files from a folder of versioned archives *)
(* leaves one there that is newer than each of them.                        *)
NewerStays(t) ==
  \A f \in Dated(folder[t]) \ folder'[t] :
    \E g \in Dated(folder[t]) \cap folder'[t] : BackupTime(g) > BackupTime(f)

NewestKept == [][\A t \in VersionedTargets : NewerStays(t)]_vars

(* Nothing dated inside the retention window, counted from the moment of    *)
(* the trash and not from the cleanup's own clock, leaves a folder of       *)
(* versioned archives: the clock read once per sweep may be old, never      *)
(* ahead (orchestrator.go 110).                                             *)
OnlyOldLeaves(t) ==
  \A f \in folder[t] \ folder'[t] :
    /\ BackupTime(f) # NoTime
    /\ BackupTime(f) < clock - RetentionDays

TrashOnlyExpired == [][\A t \in VersionedTargets : OnlyOldLeaves(t)]_vars

(* A result without error means a file of that name is in the folder for as *)
(* long as it is inside the retention window, whatever other runs upload    *)
(* or trash, and also when the upload was skipped because another run's     *)
(* archive had the name.                                                    *)
ReportedBackupKept ==
  \A r \in Runs, t \in VersionedTargets :
    /\ result[r][t] = "ok"
    /\ RetentionDays <= 0 \/ archive[r][t].stamp >= clock - RetentionDays
    => Named(archive[r][t], folder[t]) # {}

(* Cleanup is for "each successful target backup" (README 118): as long as  *)
(* no run has succeeded for a target, its folder keeps all it held.         *)
FailedTargetUntouched ==
  \A t \in Targets :
    (\A r \in Runs : result[r][t] # "ok") => InitialFiles[t] \subseteq folder[t]

(* A run that ends returns no error exactly when each enabled target has    *)
(* succeeded; failures of the cleanup are not reported.                     *)
HonestOutcome ==
  \A r \in Runs :
    /\ pc[r] = "done" => outcome[r] # "none"
    /\ outcome[r] # "none" =>
         (outcome[r] = "ok" <=>
            /\ Enabled # <<>>
            /\ \A i \in 1..Len(Enabled) : result[r][Enabled[i]] = "ok")

(* The folders of versioned archives behave as the abstract store says. *)
Store == INSTANCE BackupStore
           WITH Folders <- VersionedTargets,
                InitialFiles <- [t \in VersionedTargets |-> InitialFiles[t]],
                files <- [t \in VersionedTargets |-> folder[t]]

ImplementsStore == Store!Spec

(* A run ends: its loops make progress through every failure. *)
RunsEnd == \A r \in Runs : pc[r] = "auth" ~> ~InFlight(r)

(* README 118 and the comment on retention.go 26 say only versioned files   *)
(* are trashed, and files with other names are ignored.                     *)
OnlyVersionedTrashed ==
  [][\A t \in Targets : \A f \in folder[t] \ folder'[t] : Versioned(f)]_vars

(* README 116 and 118: the archive of an app API is uploaded under a new    *)
(* timestamped name, like all others.                                       *)
ApiArchiveRenamed ==
  \A r \in Runs, t \in Targets :
    result[r][t] = "ok" => archive[r][t].stamp # NoTime

-----------------------------------------------------------------------------
(* What the safety properties rest on, for the proofs. *)

(* A run works on a target of its list. *)
Positions ==
  \A r \in Runs :
    /\ pc[r] \in {"idle", "auth", "resolve"} => idx[r] = 1
    /\ pc[r] \in {"produce", "upload", "list", "trash"} => idx[r] \in 1..Len(Enabled)
    /\ pc[r] = "cleanup" => Enabled # <<>>

(* How far a run is determines which of its targets have a result, and an   *)
(* outcome is only set at the end.                                          *)
Progress ==
  \A r \in Runs :
    /\ pc[r] \in {"idle", "auth", "resolve", "produce", "upload"} =>
         \A i \in 1..Len(Enabled) : result[r][Enabled[i]] = "none" <=> i >= idx[r]
    /\ pc[r] \in {"cleanup", "list", "trash"} =>
         \A i \in 1..Len(Enabled) : result[r][Enabled[i]] # "none"
    /\ pc[r] # "done" => outcome[r] = "none"

(* One file per name, and no plain name is ever uploaded to a folder of     *)
(* versioned archives.                                                      *)
Naming ==
  /\ \A t \in Targets : \A f, g \in folder[t] : NameOf(f) = NameOf(g) => f = g
  /\ \A r \in Runs, t \in VersionedTargets :
       result[r][t] = "ok" \/ (pc[r] = "upload" /\ Target(r) = t)
       => archive[r][t] \in [stamp : 0..clock, label : {"backup"}]

(* What a run about to trash knows, however old its listing is: the names   *)
(* it holds are old, whichever file bears them now, and a file inside its   *)
(* window is still there.                                                   *)
Sweeping ==
  \A r \in Runs :
    /\ now[r] <= clock
    /\ pc[r] \in {"list", "trash"} => RetentionDays > 0
    /\ pc[r] = "trash" => result[r][Target(r)] = "ok"
    /\ pc[r] = "trash" /\ Target(r) \in VersionedTargets =>
         /\ \A n \in expired[r] :
              n.stamp # NoTime => n.stamp < now[r] - RetentionDays
         /\ \A f \in folder[Target(r)] : NameOf(f) \in expired[r] =>
              /\ BackupTime(f) # NoTime
              /\ BackupTime(f) < now[r] - RetentionDays
         /\ Within(folder[Target(r)], now[r] - RetentionDays) # {}

IInv == /\ TypeOK /\ Positions /\ Progress /\ Naming /\ Sweeping
        /\ ReportedBackupKept /\ FailedTargetUntouched /\ HonestOutcome

=============================================================================
