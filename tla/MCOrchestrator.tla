---------------------------- MODULE MCOrchestrator ----------------------------
(* Small instances of Orchestrator for TLC. *)
EXTENDS Orchestrator, TLC

File(stamp, label, mod) == [stamp |-> stamp, label |-> label, mod |-> mod]

(* One target of each way of naming archives. *)
MCTargets == {"ignis", "sonarr"}

MCEnabled == <<"ignis", "sonarr">>

MCKind == [t \in MCTargets |->
            IF t = "ignis" THEN "config_sync" ELSE "arr_api"]

MCAppArchives == {"app_1"}

(* An earlier archive and a file without a time of any sort in the folder   *)
(* of versioned archives; an earlier archive of the app in the other.       *)
MCInitialFiles == [t \in MCTargets |->
  IF t = "ignis"
  THEN {File(0, "backup", NoTime), File(NoTime, "app_1", NoTime)}
  ELSE {File(NoTime, "app_1", 0)}]

(* Only the folder of versioned archives, with a stray file that was        *)
(* uploaded by hand and has a modification time.                            *)
MCStore == {"ignis"}

MCStoreEnabled == <<"ignis">>

MCStoreKind == [t \in MCStore |-> "config_sync"]

MCStoreFiles == [t \in MCStore |->
  {File(0, "backup", NoTime), File(NoTime, "app_1", 1), File(NoTime, "app_2", NoTime)}]

MCStoreArchives == {"app_1", "app_2"}

Symmetry == Permutations(Runs)

=============================================================================
