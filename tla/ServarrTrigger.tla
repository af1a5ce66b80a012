---------------------------- MODULE ServarrTrigger ----------------------------
(****************************************************************************)
(* internal/adapter/http/servarr/client.go: one Trigger call of each of     *)
(* several overlapping runs against one Servarr app.  A call lists the      *)
(* app's backups, posts a Backup command, polls the command until a         *)
(* deadline, lists again and picks the archive to upload.                   *)
(*                                                                          *)
(* The app is outside the repository.  It works on the commands in its own  *)
(* time, makes backups on a schedule of its own and prunes the oldest.  Of  *)
(* a backup only its Time is kept, as a number: the n-th backup of the app  *)
(* has Time n, and strings compare as the times do.                         *)
(****************************************************************************)
EXTENDS Integers, FiniteSetsExt

CONSTANTS
  Triggers,    \* calls of Trigger, and the commands they post
  Timeout,     \* APP_COMMAND_TIMEOUT_SEC, in poll intervals
  Initial,     \* number of backups the app has at the start
  MaxBackups   \* bound on the backups the app makes, for TLC

(* No archive: the nil of newestBackup. *)
Nothing == -1

VARIABLES
  backups,    \* archives the app lists and has on the shared mount
  next,       \* the next backup of the app
  status,     \* status[k]: what became of the command k posted
  cancelled,  \* the context of the calls is cancelled
  pc,         \* pc[c]: the request c makes next
  before,     \* before[c]: archives listed before the command was posted
  command,    \* command[c]: the command c waits for
  left,       \* left[c]: poll intervals until the deadline
  picked      \* picked[c]: the archive c chose

appVars == <<backups, next, status>>
callVars == <<pc, before, command, left, picked>>
vars == <<backups, next, status, cancelled, pc, before, command, left, picked>>

PCs == {"idle", "before", "post", "wait", "sleep", "after", "stat", "ok", "err"}

Statuses == {"none", "queued", "written", "completed", "failed", "aborted"}

Busy(k) == status[k] \in {"queued", "written"}

Goto(c, l) == pc' = [pc EXCEPT ![c] = l]

Init ==
  /\ backups = 0..(Initial - 1)
  /\ next = Initial
  /\ status = [k \in Triggers |-> "none"]
  /\ cancelled = FALSE
  /\ pc = [c \in Triggers |-> "idle"]
  /\ before = [c \in Triggers |-> {}]
  /\ command = [c \in Triggers |-> c]
  /\ left = [c \in Triggers |-> 0]
  /\ picked = [c \in Triggers |-> Nothing]

-----------------------------------------------------------------------------
(* The app and the signal context. *)

MakeBackup == /\ next < MaxBackups
              /\ backups' = backups \cup {next}
              /\ next' = next + 1

(* The command's archive is listed before the command says "completed". *)
Write(k) == /\ status[k] = "queued"
            /\ MakeBackup
            /\ status' = [status EXCEPT ![k] = "written"]
            /\ UNCHANGED <<cancelled, callVars>>

Complete(k) == /\ status[k] = "written"
               /\ status' = [status EXCEPT ![k] = "completed"]
               /\ UNCHANGED <<backups, next, cancelled, callVars>>

(* The command ends otherwise, as "failed" or with a status the client does *)
(* not know.                                                                *)
GiveUp(k) == /\ Busy(k)
             /\ \E s \in {"failed", "aborted"} : status' = [status EXCEPT ![k] = s]
             /\ UNCHANGED <<backups, next, cancelled, callVars>>

Schedule == MakeBackup /\ UNCHANGED <<status, cancelled, callVars>>

(* The app prunes from the oldest, and keeps the newest. *)
Prune == /\ Cardinality(backups) > 1
         /\ backups' = backups \ {Min(backups)}
         /\ UNCHANGED <<next, status, cancelled, callVars>>

Cancel == /\ ~cancelled
          /\ cancelled' = TRUE
          /\ UNCHANGED <<appVars, callVars>>

-----------------------------------------------------------------------------
(* Trigger. *)

Call(c) == /\ pc[c] = "idle"
           /\ Goto(c, "before")
           /\ UNCHANGED <<appVars, cancelled, before, command, left, picked>>

(* Any request may fail, and does once the context is cancelled; Trigger    *)
(* then returns the error, whatever becomes of the command.                 *)
RequestFails(c) ==
  /\ pc[c] \in {"before", "post", "wait", "after", "stat"}
  /\ Goto(c, "err")
  /\ UNCHANGED <<appVars, cancelled, before, command, left, picked>>

ListBefore(c) ==
  /\ pc[c] = "before"
  /\ ~cancelled
  /\ before' = [before EXCEPT ![c] = backups]
  /\ Goto(c, "post")
  /\ UNCHANGED <<appVars, cancelled, command, left, picked>>

(* Slip: one poll too many. *)
PostLate(c) ==
  /\ pc[c] = "post"
  /\ ~cancelled
  /\ status' = [status EXCEPT ![c] = "queued"]
  /\ left' = [left EXCEPT ![c] = Timeout + 1]
  /\ Goto(c, "wait")
  /\ UNCHANGED <<backups, next, cancelled, before, command, picked>>

(* postCommand: the app takes a new command, or answers with one that it    *)
(* has yet to finish.  The answer may be lost.                              *)
Post(c) ==
  /\ pc[c] = "post"
  /\ ~cancelled
  /\ \/ /\ status' = [status EXCEPT ![c] = "queued"]
        /\ command' = [command EXCEPT ![c] = c]
     \/ \E k \in Triggers : /\ Busy(k)
                            /\ command' = [command EXCEPT ![c] = k]
                            /\ UNCHANGED status
  /\ Goto(c, "wait") \/ Goto(c, "err")
  /\ left' = [left EXCEPT ![c] = Timeout]
  /\ UNCHANGED <<backups, next, cancelled, before, picked>>

(* Slip: a status that is not a known running one ends the wait. *)
WaitUntilUnknown(c) ==
  /\ pc[c] = "wait"
  /\ \/ (cancelled \/ left[c] = 0) /\ Goto(c, "err")
     \/ /\ ~cancelled /\ left[c] > 0
        /\ Goto(c, CASE status[command[c]] = "failed" -> "err"
                     [] status[command[c]] = "queued" -> "sleep"
                     [] OTHER -> "after")
  /\ UNCHANGED <<appVars, cancelled, before, command, left, picked>>

(* One turn of the loop of waitForCommand: the context, the deadline, the   *)
(* status.                                                                  *)
Wait(c) ==
  /\ pc[c] = "wait"
  /\ \/ (cancelled \/ left[c] = 0) /\ Goto(c, "err")
     \/ /\ ~cancelled /\ left[c] > 0
        /\ Goto(c, CASE status[command[c]] = "completed" -> "after"
                     [] status[command[c]] = "failed" -> "err"
                     [] OTHER -> "sleep")
  /\ UNCHANGED <<appVars, cancelled, before, command, left, picked>>

(* Slip: each turn of the loop gets a deadline of its own. *)
SleepAnew(c) ==
  /\ pc[c] = "sleep"
  /\ Goto(c, IF cancelled THEN "err" ELSE "wait")
  /\ UNCHANGED <<appVars, cancelled, before, command, left, picked>>

(* The select: the context, or the next poll, late if requests were slow. *)
Sleep(c) ==
  /\ pc[c] = "sleep"
  /\ \/ cancelled /\ Goto(c, "err") /\ UNCHANGED left
     \/ /\ \E n \in 0..(left[c] - 1) : left' = [left EXCEPT ![c] = n]
        /\ Goto(c, "wait")
  /\ UNCHANGED <<appVars, cancelled, before, command, picked>>

(* Slip: the comparison of the fallback the wrong way round. *)
OldestBackup(all, seen) ==
  LET new == all \ seen
  IN  CASE new # {} -> Max(new)
        [] new = {} /\ all # {} -> Min(all)
        [] OTHER -> Nothing

(* newestBackup: the newest archive not seen before, else the newest. *)
NewestBackup(all, seen) ==
  LET new == all \ seen
  IN  CASE new # {} -> Max(new)
        [] new = {} /\ all # {} -> Max(all)
        [] OTHER -> Nothing

ListAfter(c) ==
  /\ pc[c] = "after"
  /\ ~cancelled
  /\ picked' = [picked EXCEPT ![c] = NewestBackup(backups, before[c])]
  /\ Goto(c, IF backups = {} THEN "err" ELSE "stat")
  /\ UNCHANGED <<appVars, cancelled, before, command, left>>

(* resolveLocalPath: the archive must still be on the mount. *)
Stat(c) ==
  /\ pc[c] = "stat"
  /\ Goto(c, IF picked[c] \in backups THEN "ok" ELSE "err")
  /\ UNCHANGED <<appVars, cancelled, before, command, left, picked>>

-----------------------------------------------------------------------------

Step(c) == \/ RequestFails(c) \/ ListBefore(c) \/ Post(c) \/ Wait(c)
           \/ Sleep(c) \/ ListAfter(c) \/ Stat(c)

Next == \/ Schedule \/ Prune \/ Cancel
        \/ \E k \in Triggers : Write(k) \/ Complete(k) \/ GiveUp(k)
        \/ \E c \in Triggers : Call(c) \/ Step(c)

Spec == Init /\ [][Next]_vars

-----------------------------------------------------------------------------
(* A property of a document; the others are in ArrTrigger, for both clients. *)

(* README 116: rclonarr triggers the app's backup and reads the new .zip.   *)
ReadsTheNewArchive ==
  \A c \in Triggers : pc[c] = "ok" => picked[c] \notin before[c]

=============================================================================
