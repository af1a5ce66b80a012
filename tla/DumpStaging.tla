------------------------------ MODULE DumpStaging ------------------------------
(****************************************************************************)
(* How overlapping runs make one dump target's archive on the local disk:   *)
(* backupKomodo and backupPostgres of                                       *)
(* internal/core/service/orchestrator.go, the dumpers of                    *)
(* internal/adapter/mongo and internal/adapter/postgres, and                *)
(* internal/platform/archive/zip.go.                                        *)
(*                                                                          *)
(* A run dumps into a temporary directory of its own, or into the one       *)
(* directory of APP_KOMODO_DUMP_DIR or APP_POSTGRES_DUMP_DIR, then zips     *)
(* whatever that directory holds, file by file.  A dump of a single         *)
(* database is uploaded as it is, under a name with the time in seconds.  A *)
(* process that ends leaves its temporary directories, and a dump command   *)
(* that goes on writing.                                                    *)
(*                                                                          *)
(* A file is one database (a collection, for mongodump), or the single dump *)
(* of one second.  Of its content only whose bytes it holds is kept, and    *)
(* whether some are missing.                                                *)
(****************************************************************************)
EXTENDS FiniteSetsExt, Integers

CONSTANTS
  Runs,       \* runs, of one process or of its successors
  Databases   \* what the server may hold, as numbers in the order of a listing;
              \* for single dumps the seconds at which they are named

ASSUME DatabasesAssumption == Databases \subseteq Nat

VARIABLES
  kind,     \* the dump target: "komodo", "postgres" for all databases of a
            \* server, or "single" for one
  fixed,    \* a dump directory is configured
  server,   \* databases on the server
  pc,       \* pc[r]: what run r does next
  gone,     \* runs whose process ended before their dump command did
  list,     \* list[r]: databases the run saw on the server
  todo,     \* todo[r]: of these the ones to dump; then the files to zip
  files,    \* files[d][b]: the file of b in the dump directory d
  temps,    \* temporary directories, by the run that made them
  stuck,    \* temporary directories that could not be removed
  archive,  \* archive[r][b]: the copy of the file of b in the archive
  outcome,  \* outcome[r]: what backupKomodo or backupPostgres returned
  shared    \* shared[r]: another run was at work in the directory of r

setup == <<kind, fixed>>
vars == <<setup, server, pc, gone, list, todo, files, temps, stuck, archive,
          outcome, shared>>

PCs == {"idle", "list", "dump", "write", "read", "cleanup", "done", "killed"}

Contents == [from : SUBSET Runs, torn : BOOLEAN]

Absent == [from |-> {}, torn |-> FALSE]

(* The file as the dump of r alone leaves it. *)
Own(r) == [from |-> {r}, torn |-> FALSE]

(* resolveConfiguredDumpDir, and MkdirTemp when nothing is configured. *)
Home(r) == IF fixed THEN "fixed" ELSE r

Homes == Runs \cup {"fixed"}

AtWork(r) == pc[r] \in {"list", "dump", "write", "read"}

Neighbours(r) == {q \in Runs \ {r} : AtWork(q) /\ Home(q) = Home(r)}

(* Runs that may write a file r reads. *)
Meddlers(r) == {q \in Neighbours(r) : kind = "single" => list[q] = list[r]}

(* The file a dump command of r has open. *)
Writing(r, b) == pc[r] = "write" /\ b = Min(todo[r])

Goto(r, l) == pc' = [pc EXCEPT ![r] = l]

(* An error return: the deferred functions are next.  A command whose       *)
(* process is gone has nobody to tell.                                      *)
Fail(r) == IF r \in gone
           THEN Goto(r, "killed") /\ UNCHANGED outcome
           ELSE /\ Goto(r, "cleanup")
                /\ outcome' = [outcome EXCEPT ![r] = "failed"]

-----------------------------------------------------------------------------

Init ==
  /\ kind \in {"komodo", "postgres", "single"}
  /\ fixed \in BOOLEAN
  /\ server \in SUBSET Databases
  /\ kind = "single" => server = {}
  /\ pc = [r \in Runs |-> "idle"]
  /\ gone = {}
  /\ list = [r \in Runs |-> {}]
  /\ todo = [r \in Runs |-> {}]
  /\ files = [d \in Homes |-> [b \in Databases |-> Absent]]
  /\ temps = {}
  /\ stuck = {}
  /\ archive = [r \in Runs |-> [b \in Databases |-> Absent]]
  /\ outcome = [r \in Runs |-> "none"]
  /\ shared = [r \in Runs |-> FALSE]

(* A database is created or dropped.  A single dump looks for none. *)
ServerChanges ==
  /\ kind # "single"
  /\ \E b \in Databases :
       server' = IF b \in server THEN server \ {b} ELSE server \cup {b}
  /\ UNCHANGED <<setup, pc, gone, list, todo, files, temps, stuck, archive,
                 outcome, shared>>

(* The process ends.  A dump command goes on: pg_dump with its one file,    *)
(* mongodump with all that is left.                                         *)
Exit ==
  LET lost == {r \in Runs \ gone : AtWork(r) \/ pc[r] = "cleanup"}
      running == {r \in lost :
                    \/ pc[r] = "write"
                    \/ kind = "komodo" /\ pc[r] = "list"
                    \/ kind = "komodo" /\ pc[r] = "dump" /\ todo[r] # {}}
  IN  /\ lost # {}
      /\ gone' = gone \cup running
      /\ pc' = [r \in Runs |-> IF r \in lost \ running THEN "killed" ELSE pc[r]]
      /\ UNCHANGED <<setup, server, list, todo, files, temps, stuck, archive,
                     outcome, shared>>

OrphanEnds(r) ==
  /\ r \in gone
  /\ pc[r] = "dump"
  /\ kind # "komodo" \/ todo[r] = {}
  /\ Goto(r, "killed")
  /\ UNCHANGED <<setup, server, gone, list, todo, files, temps, stuck, archive,
                 outcome, shared>>

-----------------------------------------------------------------------------

(* The directory is looked up, or made.  Either may fail. *)
Begin(r) ==
  /\ pc[r] = "idle"
  /\ \/ /\ Goto(r, "list")
        /\ temps' = IF fixed THEN temps ELSE temps \cup {<<"dump", r>>}
        /\ shared' = [q \in Runs |->
                        \/ shared[q]
                        \/ q = r /\ Neighbours(r) # {}
                        \/ q \in Neighbours(r)]
        /\ UNCHANGED outcome
     \/ Fail(r) /\ UNCHANGED <<temps, shared>>
  /\ UNCHANGED <<setup, server, gone, list, todo, files, stuck, archive>>

(* listDatabases, which has to find one; mongodump looks for itself and is  *)
(* content with nothing.                                                    *)
ListDatabases(r) ==
  /\ pc[r] = "list"
  /\ kind # "single"
  /\ \/ /\ server # {} \/ kind = "komodo"
        /\ Goto(r, "dump")
        /\ list' = [list EXCEPT ![r] = server]
        /\ todo' = [todo EXCEPT ![r] = server]
        /\ UNCHANGED outcome
     \/ Fail(r) /\ UNCHANGED <<list, todo>>
  /\ UNCHANGED <<setup, server, gone, files, temps, stuck, archive, shared>>

(* A single dump is named by the second, and the clock does not go back. *)
NameDump(r) ==
  /\ pc[r] = "list"
  /\ kind = "single"
  /\ \E n \in Databases :
       /\ \A q \in Runs : \A m \in list[q] : m <= n
       /\ list' = [list EXCEPT ![r] = {n}]
       /\ todo' = [todo EXCEPT ![r] = {n}]
  /\ Goto(r, "dump")
  /\ UNCHANGED <<setup, server, gone, files, temps, stuck, archive, outcome, shared>>

(* Slip: a database counts as dumped when its command starts. *)
OpenAndAdvance(r) ==
  /\ pc[r] = "dump"
  /\ todo[r] # {}
  /\ Goto(r, "write")
  /\ files' = [files EXCEPT ![Home(r)][Min(todo[r])] = Own(r)]
  /\ todo' = [todo EXCEPT ![r] = @ \ {Min(@)}]
  /\ UNCHANGED <<setup, server, gone, list, temps, stuck, archive, outcome,
                 shared>>

(* A dump command opens its file and truncates it.  Commands that have the  *)
(* same file open go on writing into it.                                    *)
Open(r) ==
  /\ pc[r] = "dump"
  /\ todo[r] # {}
  /\ r \notin gone \/ kind = "komodo"
  /\ LET b == Min(todo[r])
     IN  \/ /\ Goto(r, "write")
            /\ files' = [files EXCEPT ![Home(r)][b] =
                 [from |-> {r} \cup {q \in Neighbours(r) : Writing(q, b)},
                  torn |-> FALSE]]
            /\ UNCHANGED outcome
         \/ Fail(r) /\ UNCHANGED files
  /\ UNCHANGED <<setup, server, gone, list, todo, temps, stuck, archive,
                 shared>>

(* Slip: the error of one database is logged, and the dump goes on. *)
CloseAnyway(r) ==
  /\ pc[r] = "write"
  /\ \E torn \in BOOLEAN :
       /\ Goto(r, "dump")
       /\ todo' = [todo EXCEPT ![r] = @ \ {Min(@)}]
       /\ files' = [files EXCEPT ![Home(r)][Min(todo[r])].torn = @ \/ torn]
       /\ UNCHANGED outcome
  /\ UNCHANGED <<setup, server, gone, list, temps, stuck, archive, shared>>

(* The command ends.  A database dropped since the listing, a kill or any   *)
(* other error ends the whole dump, with a file that is not complete.       *)
Close(r) ==
  /\ pc[r] = "write"
  /\ LET b == Min(todo[r])
     IN  \/ /\ b \in server \/ kind = "single"
            /\ Goto(r, "dump")
            /\ todo' = [todo EXCEPT ![r] = @ \ {b}]
            /\ UNCHANGED <<files, outcome>>
         \/ /\ Fail(r)
            /\ files' = [files EXCEPT ![Home(r)][b].torn = TRUE]
            /\ UNCHANGED todo
  /\ UNCHANGED <<setup, server, gone, list, temps, stuck, archive, shared>>

(* Slip: the archive takes the files of the databases on the server by now. *)
ZipListed(r) ==
  /\ pc[r] = "dump"
  /\ todo[r] = {}
  /\ r \notin gone
  /\ Goto(r, "read")
  /\ temps' = temps \cup {<<"zip", r>>}
  /\ todo' = [todo EXCEPT ![r] = server]
  /\ UNCHANGED outcome
  /\ UNCHANGED <<setup, server, gone, list, files, stuck, archive, shared>>

(* ZipDirectoryToTemp makes a directory for the archive, and ZipDirectory   *)
(* reads the names in the dump directory, the run's own or not.             *)
Zip(r) ==
  /\ pc[r] = "dump"
  /\ kind # "single"
  /\ todo[r] = {}
  /\ r \notin gone
  /\ \/ /\ Goto(r, "read")
        /\ temps' = temps \cup {<<"zip", r>>}
        /\ todo' = [todo EXCEPT ![r] =
                      {b \in Databases : files[Home(r)][b] # Absent}]
        /\ UNCHANGED outcome
     \/ Fail(r) /\ UNCHANGED <<temps, todo>>
  /\ UNCHANGED <<setup, server, gone, list, files, stuck, archive, shared>>

(* Slip: what is uploaded is the directory. *)
SendDirectory(r) ==
  /\ pc[r] = "dump"
  /\ kind = "single"
  /\ todo[r] = {}
  /\ r \notin gone
  /\ Goto(r, "read")
  /\ todo' = [todo EXCEPT ![r] = {b \in Databases : files[Home(r)][b] # Absent}]
  /\ UNCHANGED <<setup, server, gone, list, files, temps, stuck, archive, outcome,
                 shared>>

(* A single dump is uploaded from where it is. *)
SendDump(r) ==
  /\ pc[r] = "dump"
  /\ kind = "single"
  /\ todo[r] = {}
  /\ r \notin gone
  /\ Goto(r, "read")
  /\ todo' = [todo EXCEPT ![r] = list[r]]
  /\ UNCHANGED <<setup, server, gone, list, files, temps, stuck, archive, outcome,
                 shared>>

(* addFileToZip, or the upload of a single dump, copies one file.  The copy *)
(* takes time: another run that is at work in the directory may change the  *)
(* file under it.                                                           *)
AddFile(r) ==
  /\ pc[r] = "read"
  /\ todo[r] # {}
  /\ LET b == Min(todo[r])
         file == files[Home(r)][b]
     IN  \/ /\ \E torn \in {file.torn} \cup {Meddlers(r) # {}} :
                 archive' = [archive EXCEPT ![r][b] =
                               [from |-> file.from, torn |-> file.torn \/ torn]]
            /\ todo' = [todo EXCEPT ![r] = @ \ {b}]
            /\ UNCHANGED <<pc, outcome>>
         \/ Fail(r) /\ UNCHANGED <<archive, todo>>
  /\ UNCHANGED <<setup, server, gone, list, files, temps, stuck, shared>>

(* uploadVersioned *)
Upload(r) ==
  /\ pc[r] = "read"
  /\ todo[r] = {}
  /\ \/ /\ Goto(r, "cleanup")
        /\ outcome' = [outcome EXCEPT ![r] = "ok"]
     \/ Fail(r)
  /\ UNCHANGED <<setup, server, gone, list, todo, files, temps, stuck, archive,
                 shared>>

(* Slip: only a backup that succeeded removes what it made. *)
CleanUpOnSuccess(r) ==
  /\ pc[r] = "cleanup"
  /\ Goto(r, "done")
  /\ temps' = IF outcome[r] = "ok" THEN {t \in temps : t[2] # r} ELSE temps
  /\ files' = IF fixed \/ outcome[r] # "ok"
              THEN files
              ELSE [files EXCEPT ![r] = [b \in Databases |-> Absent]]
  /\ UNCHANGED <<setup, server, gone, list, todo, stuck, archive, outcome,
                 shared>>

(* The deferred functions: the archive's directory, then the dump's own.    *)
(* The configured directory keeps all it holds.  RemoveAll may fail, which  *)
(* is at most logged.                                                       *)
CleanUp(r) ==
  /\ pc[r] = "cleanup"
  /\ Goto(r, "done")
  /\ \E kept \in SUBSET {t \in temps : t[2] = r} :
       /\ temps' = {t \in temps : t[2] # r} \cup kept
       /\ stuck' = stuck \cup kept
       /\ files' = IF fixed \/ <<"dump", r>> \in kept
                   THEN files
                   ELSE [files EXCEPT ![r] = [b \in Databases |-> Absent]]
  /\ UNCHANGED <<setup, server, gone, list, todo, archive, outcome, shared>>

-----------------------------------------------------------------------------

Next == \/ ServerChanges \/ Exit
        \/ \E r \in Runs : \/ Begin(r) \/ ListDatabases(r) \/ NameDump(r)
                           \/ Open(r) \/ Close(r) \/ Zip(r) \/ SendDump(r)
                           \/ AddFile(r) \/ Upload(r) \/ CleanUp(r)
                           \/ OrphanEnds(r)

Spec == Init /\ [][Next]_vars

-----------------------------------------------------------------------------
(* Properties. *)

TypeOK ==
  /\ kind \in {"komodo", "postgres", "single"}
  /\ fixed \in BOOLEAN
  /\ server \subseteq Databases
  /\ pc \in [Runs -> PCs]
  /\ gone \subseteq {r \in Runs : pc[r] \in {"list", "dump", "write", "killed"}}
  /\ list \in [Runs -> SUBSET Databases]
  /\ todo \in [Runs -> SUBSET Databases]
  /\ files \in [Homes -> [Databases -> Contents]]
  /\ temps \subseteq {"dump", "zip"} \X Runs
  /\ stuck \subseteq temps
  /\ archive \in [Runs -> [Databases -> Contents]]
  /\ outcome \in [Runs -> {"none", "ok", "failed"}]
  /\ shared \in [Runs -> BOOLEAN]
  /\ \A r \in Runs : pc[r] = "write" => todo[r] # {}

(* With temporary directories (the default) an uploaded archive holds the   *)
(* databases the run saw, each dumped by that run to the end, and nothing   *)
(* else, whatever overlaps and whatever an earlier process left behind.     *)
ArchiveIsOwnDump ==
  \A r \in Runs : outcome[r] = "ok" /\ ~fixed =>
    archive[r] = [b \in Databases |-> IF b \in list[r] THEN Own(r) ELSE Absent]

(* With a configured directory an uploaded archive misses none of the       *)
(* databases the run saw; a run that had the directory to itself uploads    *)
(* its own complete dump of each, also over files that a failed or killed   *)
(* run has left there.  Files of databases dropped since may come along.    *)
ArchiveCoversDump ==
  \A r \in Runs : outcome[r] = "ok" /\ fixed =>
    \A b \in list[r] : /\ archive[r][b] # Absent
                       /\ ~shared[r] => archive[r][b] = Own(r)

(* A single dump in a configured directory is the run's own and complete,   *)
(* whatever files others left or are writing next to it, unless another run *)
(* named its dump in the same second (orchestrator.go 234-254).             *)
SingleDumpIsOwn ==
  \A r \in Runs :
    /\ kind = "single" /\ fixed /\ outcome[r] = "ok"
    /\ \A q \in Runs \ {r} : list[q] # list[r]
    => archive[r] = [b \in Databases |-> IF b \in list[r] THEN Own(r) ELSE Absent]

(* A run that has returned leaves no temporary directory, on no path of     *)
(* error: only the end of the process and a failing removal do.             *)
NoTempLeft ==
  \A t \in temps : pc[t[2]] \in {"idle", "done"} => t \in stuck

=============================================================================
