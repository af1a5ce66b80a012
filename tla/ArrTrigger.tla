------------------------------ MODULE ArrTrigger ------------------------------
(****************************************************************************)
(* internal/adapter/arrbackup/trigger.go: Trigger hands a call to the       *)
(* client of the target's API scheme and returns what that returns.  The    *)
(* overlapping calls are for one target, hence for one app of one scheme.   *)
(****************************************************************************)
EXTENDS Integers

CONSTANTS
  Triggers,    \* calls of Trigger
  Timeout,     \* APP_COMMAND_TIMEOUT_SEC, in poll intervals
  Initial,     \* number of backups the app has at the start
  MaxBackups   \* bound on the backups the app makes, for TLC

ASSUME TimeoutAssumption == Timeout \in Nat \ {0}

ASSUME BackupsAssumption == Initial \in Nat /\ MaxBackups \in Nat

VARIABLES scheme, backups, next, status, cancelled, pc, before, command, left,
          picked

vars == <<scheme, backups, next, status, cancelled, pc, before, command, left,
          picked>>

Servarr == INSTANCE ServarrTrigger

Bazarr == INSTANCE BazarrTrigger

(* v1 and v3 differ in paths only; "other" is what the switch has no case   *)
(* for.                                                                     *)
Schemes == {"servarr", "bazarr", "other"}

Init == scheme \in Schemes /\ Servarr!Init

ServarrNext == scheme = "servarr" /\ Servarr!Next

BazarrNext == scheme = "bazarr" /\ Bazarr!Next /\ UNCHANGED command

Reject(c) == /\ scheme = "other"
             /\ pc[c] = "idle"
             /\ pc' = [pc EXCEPT ![c] = "err"]
             /\ UNCHANGED <<backups, next, status, cancelled, before, command, left,
                            picked>>

Next == /\ ServarrNext \/ BazarrNext \/ \E c \in Triggers : Reject(c)
        /\ UNCHANGED scheme

(* Requests have a timeout of their own (http.Client, 30 s), so each step   *)
(* of a call ends.  The apps owe nothing.                                   *)
FairSpec ==
  /\ Init /\ [][Next]_vars
  /\ \A c \in Triggers :
       /\ WF_vars(scheme = "servarr" /\ Servarr!Step(c) /\ UNCHANGED scheme)
       /\ WF_vars(scheme = "bazarr" /\ Bazarr!Step(c) /\ UNCHANGED <<scheme, command>>)

-----------------------------------------------------------------------------
(* Properties. *)

TypeOK ==
  /\ scheme \in Schemes
  /\ backups \subseteq 0..(next - 1)
  /\ next \in Nat
  /\ status \in [Triggers -> Servarr!Statuses]
  /\ cancelled \in BOOLEAN
  /\ pc \in [Triggers -> Servarr!PCs \cup {"get"}]
  /\ \A c \in Triggers : before[c] \subseteq 0..(next - 1)
  /\ command \in [Triggers -> Triggers]
  /\ left \in [Triggers -> 0..Timeout]
  /\ picked \in [Triggers -> Nat \cup {Servarr!Nothing}]

(* Whatever the app writes, prunes or answers in the meantime, the archive  *)
(* Trigger returns is no older than any the app had before the command:     *)
(* Servarr's fallback to an existing archive (servarr/client.go 187-193)    *)
(* never goes back, and Bazarr's first unseen entry (bazarr/client.go       *)
(* 115-119) is none of the old ones under another order of the list.        *)
NeverOlder ==
  \A c \in Triggers : pc[c] = "ok" => \A b \in before[c] : picked[c] >= b

(* A call that waited for its own Servarr command, and every call to        *)
(* Bazarr, returns an archive that was not there when it began, also when   *)
(* other runs and the app's schedule make archives at the same time: the    *)
(* list is taken before the command is posted, and again after.             *)
OwnCommandIsNew ==
  \A c \in Triggers :
    pc[c] = "ok" /\ (scheme = "bazarr" \/ command[c] = c) => picked[c] \notin before[c]

(* A call ends, also when the command hangs, ends with a status the client  *)
(* does not know, or its archive never shows up in the list.                *)
EveryTriggerReturns ==
  \A c \in Triggers : (pc[c] = "before") ~> (pc[c] \in {"ok", "err"})

=============================================================================
