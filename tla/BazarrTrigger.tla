---------------------------- MODULE BazarrTrigger ----------------------------
(****************************************************************************)
(* internal/adapter/http/bazarr/client.go: one Trigger call of each of      *)
(* several overlapping runs against one Bazarr.  A call lists the backups,  *)
(* asks for a new one, and polls the list, not the job, for a name it has   *)
(* not seen before, until a deadline.                                       *)
(*                                                                          *)
(* Bazarr is outside the repository: it makes the backups it was asked for  *)
(* in its own time or never, makes others on a schedule, and prunes.  The   *)
(* n-th backup of the app is the number n.                                  *)
(****************************************************************************)
EXTENDS Integers, FiniteSetsExt

CONSTANTS
  Triggers,    \* calls of Trigger, and the jobs they ask for
  Timeout,     \* APP_COMMAND_TIMEOUT_SEC, in poll intervals
  Initial,     \* number of backups the app has at the start
  MaxBackups   \* bound on the backups the app makes, for TLC

VARIABLES
  backups,    \* archives the app lists and has on the shared mount
  next,       \* the next backup of the app
  status,     \* status[k]: what became of the job k asked for
  cancelled,  \* the context of the calls is cancelled
  pc,         \* pc[c]: the request c makes next
  before,     \* before[c]: archives listed before the backup was asked for
  left,       \* left[c]: poll intervals until the deadline
  picked      \* picked[c]: the archive c chose

appVars == <<backups, next, status>>
callVars == <<pc, before, left, picked>>
vars == <<backups, next, status, cancelled, pc, before, left, picked>>

Goto(c, l) == pc' = [pc EXCEPT ![c] = l]

Nothing == -1

Init ==
  /\ backups = 0..(Initial - 1)
  /\ next = Initial
  /\ status = [k \in Triggers |-> "none"]
  /\ cancelled = FALSE
  /\ pc = [c \in Triggers |-> "idle"]
  /\ before = [c \in Triggers |-> {}]
  /\ left = [c \in Triggers |-> 0]
  /\ picked = [c \in Triggers |-> Nothing]

-----------------------------------------------------------------------------
(* The app and the signal context. *)

MakeBackup == /\ next < MaxBackups
              /\ backups' = backups \cup {next}
              /\ next' = next + 1

Write(k) == /\ status[k] = "queued"
            /\ MakeBackup
            /\ status' = [status EXCEPT ![k] = "written"]
            /\ UNCHANGED <<cancelled, callVars>>

(* The job fails, which no answer of the app tells. *)
GiveUp(k) == /\ status[k] = "queued"
             /\ status' = [status EXCEPT ![k] = "failed"]
             /\ UNCHANGED <<backups, next, cancelled, callVars>>

Schedule == MakeBackup /\ UNCHANGED <<status, cancelled, callVars>>

Prune == /\ Cardinality(backups) > 1
         /\ backups' = backups \ {Min(backups)}
         /\ UNCHANGED <<next, status, cancelled, callVars>>

Cancel == /\ ~cancelled
          /\ cancelled' = TRUE
          /\ UNCHANGED <<appVars, callVars>>

-----------------------------------------------------------------------------
(* Trigger. *)

Call(c) == /\ pc[c] = "idle"
           /\ Goto(c, "before")
           /\ UNCHANGED <<appVars, cancelled, before, left, picked>>

(* Any request may fail, and does once the context is cancelled. *)
RequestFails(c) ==
  /\ pc[c] \in {"before", "post", "get", "stat"}
  /\ Goto(c, "err")
  /\ UNCHANGED <<appVars, cancelled, before, left, picked>>

ListBefore(c) ==
  /\ pc[c] = "before"
  /\ ~cancelled
  /\ before' = [before EXCEPT ![c] = backups]
  /\ Goto(c, "post")
  /\ UNCHANGED <<appVars, cancelled, left, picked>>

(* createBackup: the app takes the job, or makes the backup before it       *)
(* answers; the answer may be lost.                                         *)
Post(c) ==
  /\ pc[c] = "post"
  /\ ~cancelled
  /\ \/ /\ status' = [status EXCEPT ![c] = "queued"]
        /\ UNCHANGED <<backups, next>>
     \/ /\ MakeBackup
        /\ status' = [status EXCEPT ![c] = "written"]
  /\ Goto(c, "wait") \/ Goto(c, "err")
  /\ left' = [left EXCEPT ![c] = Timeout]
  /\ UNCHANGED <<cancelled, before, picked>>

(* waitForNewBackup at the top of its loop: the context, then the deadline. *)
Wait(c) ==
  /\ pc[c] = "wait"
  /\ Goto(c, IF cancelled \/ left[c] = 0 THEN "err" ELSE "get")
  /\ UNCHANGED <<appVars, cancelled, before, left, picked>>

(* Slip: the first entry of the list is taken for the new one. *)
GetFirst(c) ==
  /\ pc[c] = "get"
  /\ ~cancelled
  /\ \/ /\ \E b \in backups : picked' = [picked EXCEPT ![c] = b]
        /\ Goto(c, "stat")
     \/ /\ backups = {}
        /\ Goto(c, "sleep")
        /\ UNCHANGED picked
  /\ UNCHANGED <<appVars, cancelled, before, left>>

(* The list, in an order of the app's: the first name not seen before ends  *)
(* the wait, whichever run or schedule made it.                             *)
Get(c) ==
  /\ pc[c] = "get"
  /\ ~cancelled
  /\ \/ /\ \E b \in backups \ before[c] : picked' = [picked EXCEPT ![c] = b]
        /\ Goto(c, "stat")
     \/ /\ backups \subseteq before[c]
        /\ Goto(c, "sleep")
        /\ UNCHANGED picked
  /\ UNCHANGED <<appVars, cancelled, before, left>>

(* Slip: each turn of the loop gets a deadline of its own. *)
SleepAnew(c) ==
  /\ pc[c] = "sleep"
  /\ Goto(c, IF cancelled THEN "err" ELSE "wait")
  /\ UNCHANGED <<appVars, cancelled, before, left, picked>>

(* The select: the context, or the next poll, late if requests were slow.   *)
(* With both ready either is taken.                                         *)
Sleep(c) ==
  /\ pc[c] = "sleep"
  /\ \/ cancelled /\ Goto(c, "err") /\ UNCHANGED left
     \/ /\ \E n \in 0..(left[c] - 1) : left' = [left EXCEPT ![c] = n]
        /\ Goto(c, "wait")
  /\ UNCHANGED <<appVars, cancelled, before, picked>>

(* The archive must still be on the mount. *)
Stat(c) ==
  /\ pc[c] = "stat"
  /\ Goto(c, IF picked[c] \in backups THEN "ok" ELSE "err")
  /\ UNCHANGED <<appVars, cancelled, before, left, picked>>

-----------------------------------------------------------------------------

Step(c) == \/ RequestFails(c) \/ ListBefore(c) \/ Post(c) \/ Wait(c)
           \/ Get(c) \/ Sleep(c) \/ Stat(c)

Next == \/ Schedule \/ Prune \/ Cancel
        \/ \E k \in Triggers : Write(k) \/ GiveUp(k)
        \/ \E c \in Triggers : Call(c) \/ Step(c)

=============================================================================
