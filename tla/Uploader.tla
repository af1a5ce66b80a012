------------------------------- MODULE Uploader -------------------------------
(****************************************************************************)
(* internal/adapter/protondrive: one Uploader shared by overlapping backup  *)
(* runs.  Every call is a series of Proton Drive CLI commands; any of them  *)
(* may find the session expired, and then the call signs in, under a mutex, *)
(* and repeats the command once.                                            *)
(*                                                                          *)
(* A caller makes one call.  One action is one CLI command, or the wait for *)
(* the mutex.  Other callers, the end of the session and the cancellation   *)
(* of the context come between any two commands.                            *)
(****************************************************************************)
EXTENDS Integers, Sequences, FiniteSets

CONSTANTS
  Callers,      \* concurrent calls
  Dir,          \* Dir[c]: folders from the root to the one c uploads to
  File,         \* File[c]: name of the file c uploads
  Old,          \* names of expired files, which c moves to the trash
  None,         \* not a caller
  MaxExpiries,  \* bound on how often the session ends, for TLC
  MaxFaults     \* bound on commands that fail for another reason, for TLC

ASSUME CallersAssumption == None \notin Callers

ASSUME DirAssumption ==
  \A c \in Callers : Dir[c] \in Seq(STRING) /\ Dir[c] # <<>>

ASSUME BoundsAssumption == MaxExpiries \in Nat /\ MaxFaults \in Nat

VARIABLES
  session,    \* the CLI has a valid session
  cancelled,  \* the context of the calls is cancelled
  holder,     \* the caller that holds authMu
  dirs,       \* remote folders, as paths
  stored,     \* remote files, as pairs of a folder and a name
  pc,         \* pc[c]: the command c runs next
  op,         \* op[c]: the method c called
  back,       \* back[c]: where EnsureAuth returns to
  attempt,    \* attempt[c]: 1, or 2 after a sign-in
  depth,      \* depth[c]: the folder ensureDir is at
  why,        \* why[c]: why create-folder failed
  absences,   \* times there was no session, counted for the bound
  faults      \* commands that failed for another reason, counted likewise

callVars == <<pc, op, back, attempt, depth, why>>
vars == <<session, cancelled, holder, dirs, stored, pc, op, back, attempt,
          depth, why, absences, faults>>

Ops == {"signin", "upload", "list", "trash"}

PCs == {"idle", "lock", "check", "login", "recheck", "info", "create", "reinfo",
        "put", "list", "trash", "ok", "err"}

Ended(c) == pc[c] \in {"ok", "err"}

(* The folders c uploads through, and the one ensureDir is at. *)
Paths(c) == {SubSeq(Dir[c], 1, n) : n \in 1..Len(Dir[c])}

Path(c) == SubSeq(Dir[c], 1, depth[c])

(* The file c uploads, and those it moves to the trash. *)
RemoteFile(c) == <<Dir[c], File[c]>>

Expired(c) == {<<Dir[c], f>> : f \in Old}

Goto(c, l) == pc' = [pc EXCEPT ![c] = l]

-----------------------------------------------------------------------------
(* The environment. *)

Init ==
  /\ session \in BOOLEAN
  /\ cancelled = FALSE
  /\ holder = None
  /\ \/ dirs = {} /\ stored = {}
     \/ /\ dirs = UNION {Paths(c) : c \in Callers}
        /\ stored = UNION {Expired(c) : c \in Callers}
  /\ pc = [c \in Callers |-> "idle"]
  /\ op = [c \in Callers |-> "signin"]
  /\ back = [c \in Callers |-> "ok"]
  /\ attempt = [c \in Callers |-> 1]
  /\ depth = [c \in Callers |-> 1]
  /\ why = [c \in Callers |-> "none"]
  /\ absences = IF session THEN 0 ELSE 1
  /\ faults = 0

(* The session ends, between any two commands. *)
Expire == /\ session
          /\ absences < MaxExpiries
          /\ session' = FALSE
          /\ absences' = absences + 1
          /\ UNCHANGED <<cancelled, holder, dirs, stored, callVars, faults>>

Cancel == /\ ~cancelled
          /\ cancelled' = TRUE
          /\ UNCHANGED <<session, holder, dirs, stored, callVars, absences, faults>>

(* What exec returns: a result, the demand to sign in that                  *)
(* looksLikeAuthRequired recognises, or another error.  A cancelled context *)
(* kills the command.                                                       *)
Succeeds == session /\ ~cancelled /\ UNCHANGED faults

AuthRequired == ~session /\ ~cancelled /\ UNCHANGED faults

Fails == \/ cancelled /\ UNCHANGED faults
         \/ ~cancelled /\ faults < MaxFaults /\ faults' = faults + 1

-----------------------------------------------------------------------------
(* EnsureAuth: checkAuthenticated, runLogin, checkAuthenticated, all under  *)
(* authMu.  Lock does not look at the context.                              *)

(* Where a method begins: Upload signs in first, ListFiles and Trash only   *)
(* when their command asks for it.                                          *)
Call(c, o) ==
  /\ pc[c] = "idle"
  /\ op' = [op EXCEPT ![c] = o]
  /\ back' = [back EXCEPT ![c] = CASE o = "signin" -> "ok"
                                   [] o = "upload" -> "info"
                                   [] OTHER -> o]
  /\ Goto(c, IF o \in {"list", "trash"} THEN o ELSE "lock")
  /\ UNCHANGED <<session, cancelled, holder, dirs, stored, attempt, depth, why,
                 absences, faults>>

(* Slip: whoever comes to the mutex signs in, without a second look. *)
LockAndLogin(c) ==
  /\ pc[c] = "lock"
  /\ holder = None
  /\ holder' = c
  /\ Goto(c, "login")
  /\ UNCHANGED <<session, cancelled, dirs, stored, op, back, attempt, depth, why,
                 absences, faults>>

Lock(c) ==
  /\ pc[c] = "lock"
  /\ holder = None
  /\ holder' = c
  /\ Goto(c, "check")
  /\ UNCHANGED <<session, cancelled, dirs, stored, op, back, attempt, depth, why,
                 absences, faults>>

(* EnsureAuth returns nil: the mutex is free, and the caller goes on. *)
SignedIn(c) ==
  /\ holder' = None
  /\ Goto(c, back[c])
  /\ depth' = [depth EXCEPT ![c] = 1]

(* Slip: the error path keeps the mutex. *)
NotSignedInLocked(c) ==
  /\ Goto(c, "err")
  /\ UNCHANGED <<holder, depth>>

(* EnsureAuth returns an error, and so does its caller. *)
NotSignedIn(c) ==
  /\ holder' = None
  /\ Goto(c, "err")
  /\ UNCHANGED depth

Check(c) ==
  /\ pc[c] = "check"
  /\ \/ Succeeds /\ SignedIn(c)
     \/ AuthRequired /\ Goto(c, "login") /\ UNCHANGED <<holder, depth>>
     \/ Fails /\ NotSignedIn(c)
  /\ UNCHANGED <<session, cancelled, dirs, stored, op, back, attempt, why, absences>>

(* runLogin: the user signs in at the logged URL, or the CLI gives up, with *)
(* or without an error.                                                     *)
Login(c) ==
  /\ pc[c] = "login"
  /\ \/ /\ ~cancelled
        /\ session' = TRUE
        /\ Goto(c, "recheck")
        /\ UNCHANGED <<holder, depth, faults>>
     \/ /\ ~cancelled /\ Fails
        /\ Goto(c, "recheck")
        /\ UNCHANGED <<session, holder, depth>>
     \/ Fails /\ NotSignedIn(c) /\ UNCHANGED session
  /\ UNCHANGED <<cancelled, dirs, stored, op, back, attempt, why, absences>>

Recheck(c) ==
  /\ pc[c] = "recheck"
  /\ \/ Succeeds /\ SignedIn(c)
     \/ (AuthRequired \/ Fails) /\ NotSignedIn(c)
  /\ UNCHANGED <<session, cancelled, dirs, stored, op, back, attempt, why, absences>>

-----------------------------------------------------------------------------
(* A command found no session: the first time the call signs in and comes   *)
(* back to l, the second time it returns the error.                         *)
Reauth(c, l) ==
  IF attempt[c] = 1
  THEN /\ attempt' = [attempt EXCEPT ![c] = 2]
       /\ back' = [back EXCEPT ![c] = l]
       /\ Goto(c, "lock")
  ELSE /\ Goto(c, "err")
       /\ UNCHANGED <<attempt, back>>

GiveUp(c) == Goto(c, "err") /\ UNCHANGED <<attempt, back>>

(* ListFiles: one command, which changes nothing. *)
List(c) ==
  /\ pc[c] = "list"
  /\ \/ Succeeds /\ Goto(c, "ok") /\ UNCHANGED <<attempt, back>>
     \/ AuthRequired /\ Reauth(c, "list")
     \/ Fails /\ GiveUp(c)
  /\ UNCHANGED <<session, cancelled, holder, dirs, stored, op, depth, why, absences>>

(* Trash: one command for all paths, which may fail half-way. *)
Trash(c) ==
  /\ pc[c] = "trash"
  /\ \/ /\ Succeeds /\ Goto(c, "ok")
        /\ stored' = stored \ Expired(c)
        /\ UNCHANGED <<attempt, back>>
     \/ AuthRequired /\ Reauth(c, "trash") /\ UNCHANGED stored
     \/ /\ Fails /\ GiveUp(c)
        /\ \/ UNCHANGED stored
           \/ session /\ \E gone \in SUBSET Expired(c) : stored' = stored \ gone
  /\ UNCHANGED <<session, cancelled, holder, dirs, op, depth, why, absences>>

(* Slip: one folder too many. *)
DescendTooFar(c) ==
  IF depth[c] <= Len(Dir[c])
  THEN /\ depth' = [depth EXCEPT ![c] = @ + 1]
       /\ Goto(c, "info")
       /\ UNCHANGED attempt
  ELSE /\ attempt' = [attempt EXCEPT ![c] = 1]
       /\ Goto(c, "put")
       /\ UNCHANGED depth

(* ensureDir goes on below the folder it is at, or is done; the upload      *)
(* command then has a sign-in of its own.                                   *)
Descend(c) ==
  IF depth[c] < Len(Dir[c])
  THEN /\ depth' = [depth EXCEPT ![c] = @ + 1]
       /\ Goto(c, "info")
       /\ UNCHANGED attempt
  ELSE /\ attempt' = [attempt EXCEPT ![c] = 1]
       /\ Goto(c, "put")
       /\ UNCHANGED depth

(* pathExists: every error, the demand to sign in too, reads as "no". *)
Exists(c) == Succeeds /\ Path(c) \in dirs

ExistsNot(c) == (Succeeds /\ Path(c) \notin dirs) \/ AuthRequired \/ Fails

Info(c) ==
  /\ pc[c] = "info"
  /\ \/ Exists(c) /\ Descend(c)
     \/ ExistsNot(c) /\ Goto(c, "create") /\ UNCHANGED <<attempt, depth>>
  /\ UNCHANGED <<session, cancelled, holder, dirs, stored, op, back, why, absences>>

(* create-folder fails on a folder that exists.  A failed command may have  *)
(* made the folder.                                                         *)
CreateFolder(c) ==
  LET Failed(w) == /\ Goto(c, "reinfo")
                   /\ why' = [why EXCEPT ![c] = w]
                   /\ UNCHANGED <<attempt, depth>>
  IN /\ pc[c] = "create"
     /\ \/ /\ Succeeds /\ Path(c) \notin dirs
           /\ dirs' = dirs \cup {Path(c)}
           /\ Descend(c)
           /\ UNCHANGED why
        \/ Succeeds /\ Path(c) \in dirs /\ Failed("exists") /\ UNCHANGED dirs
        \/ AuthRequired /\ Failed("auth") /\ UNCHANGED dirs
        \/ /\ Fails /\ Failed("other")
           /\ \/ UNCHANGED dirs
              \/ session /\ dirs' = dirs \cup {Path(c)}
     /\ UNCHANGED <<session, cancelled, holder, stored, op, back, absences>>

(* Slip: a create-folder that fails is taken for "already there". *)
ReinfoTrusting(c) ==
  /\ pc[c] = "reinfo"
  /\ Exists(c) \/ ExistsNot(c)
  /\ Descend(c)
  /\ why' = [why EXCEPT ![c] = "none"]
  /\ UNCHANGED <<session, cancelled, holder, dirs, stored, op, back, absences>>

(* Slip: the demand to sign in is an error like any other. *)
ReinfoNoSignIn(c) ==
  /\ pc[c] = "reinfo"
  /\ \/ /\ Exists(c) /\ Descend(c)
        /\ why' = [why EXCEPT ![c] = "none"]
        /\ UNCHANGED back
     \/ ExistsNot(c) /\ GiveUp(c) /\ UNCHANGED <<depth, why>>
  /\ UNCHANGED <<session, cancelled, holder, dirs, stored, op, absences>>

(* After a failed create-folder ensureDir looks again, and otherwise        *)
(* returns that failure: only one that asked for a sign-in leads to one.    *)
Reinfo(c) ==
  /\ pc[c] = "reinfo"
  /\ \/ /\ Exists(c) /\ Descend(c)
        /\ why' = [why EXCEPT ![c] = "none"]
        /\ UNCHANGED back
     \/ /\ ExistsNot(c)
        /\ IF why[c] = "auth" THEN Reauth(c, "info") ELSE GiveUp(c)
        /\ UNCHANGED <<depth, why>>
  /\ UNCHANGED <<session, cancelled, holder, dirs, stored, op, absences>>

(* Slip: the second failure of the command is not looked at. *)
PutUnchecked(c) ==
  /\ pc[c] = "put"
  /\ \/ /\ Succeeds /\ Goto(c, "ok")
        /\ stored' = stored \cup {RemoteFile(c)}
        /\ UNCHANGED <<attempt, back>>
     \/ /\ AuthRequired \/ Fails
        /\ IF attempt[c] = 1 THEN Reauth(c, "put")
                             ELSE Goto(c, "ok") /\ UNCHANGED <<attempt, back>>
        /\ UNCHANGED stored
  /\ UNCHANGED <<session, cancelled, holder, dirs, op, depth, why, absences>>

(* The upload command, which leaves a file of the same name as it is.  A    *)
(* failed command may have stored the file.                                 *)
Put(c) ==
  /\ pc[c] = "put"
  /\ \/ /\ Succeeds /\ Goto(c, "ok")
        /\ stored' = stored \cup {RemoteFile(c)}
        /\ UNCHANGED <<attempt, back>>
     \/ AuthRequired /\ Reauth(c, "put") /\ UNCHANGED stored
     \/ /\ Fails /\ GiveUp(c)
        /\ \/ UNCHANGED stored
           \/ session /\ stored' = stored \cup {RemoteFile(c)}
  /\ UNCHANGED <<session, cancelled, holder, dirs, op, depth, why, absences>>

-----------------------------------------------------------------------------

Step(c) == \/ Check(c) \/ Login(c) \/ Recheck(c) \/ List(c) \/ Trash(c)
           \/ Info(c) \/ CreateFolder(c) \/ Reinfo(c) \/ Put(c)

Next == \/ Expire \/ Cancel
        \/ \E c \in Callers : (\E o \in Ops : Call(c, o)) \/ Lock(c) \/ Step(c)

Spec == Init /\ [][Next]_vars

(* CLI commands end, and so does a login, by the user's sign-in or by the   *)
(* CLI giving up.  A Go mutex hands itself to the waiter that has waited    *)
(* longest before others can take it again and again.                       *)
FairSpec == /\ Spec
            /\ \A c \in Callers : WF_vars(Step(c))
            /\ \A c \in Callers : SF_vars(Lock(c))

-----------------------------------------------------------------------------
(* Properties. *)

TypeOK ==
  /\ session \in BOOLEAN
  /\ cancelled \in BOOLEAN
  /\ holder \in Callers \cup {None}
  /\ dirs \subseteq UNION {Paths(c) : c \in Callers}
  /\ stored \subseteq UNION {{RemoteFile(c)} \cup Expired(c) : c \in Callers}
  /\ pc \in [Callers -> PCs]
  /\ op \in [Callers -> Ops]
  /\ back \in [Callers -> {"ok", "info", "list", "trash", "put"}]
  /\ attempt \in [Callers -> 1..2]
  /\ depth \in [Callers -> Nat]
  /\ \A c \in Callers : depth[c] \in 1..Len(Dir[c])
  /\ why \in [Callers -> {"none", "exists", "auth", "other"}]
  /\ absences \in Nat
  /\ faults \in Nat

(* However many callers find the session expired at the same time, the user *)
(* is asked to sign in only while there is no session: whoever comes second *)
(* to the mutex finds the session of the first (uploader.go 44-51).         *)
NoNeedlessSignIn == \A c \in Callers : pc[c] = "login" => ~session

(* The upload command never names a folder that is not there, whichever     *)
(* caller made it and whatever failed on the way (ensureDir, 181-212).      *)
PutHasFolder ==
  \A c \in Callers : pc[c] = "put" => Paths(c) \subseteq dirs

(* Whatever sign-ins and retries a call goes through, its caller sees one   *)
(* that takes effect at once when it returns: nil means that all of it is   *)
(* done, also on a second attempt, and an error leaves nothing behind but a *)
(* part of it.  This is what Orchestrator assumes of Upload and Trash.      *)
Calls == INSTANCE RemoteCalls
           WITH phase <- [c \in Callers |-> IF pc[c] \in {"idle", "ok", "err"}
                                             THEN pc[c] ELSE "busy"],
                Target <- [c \in Callers |-> RemoteFile(c)],
                Old <- [c \in Callers |-> Expired(c)]

ImplementsCalls == Calls!Spec

(* One missing session costs no call its result, wherever in the call it    *)
(* goes missing and whoever signs in again, except that a folder another    *)
(* caller makes at the same time gets in the way.                           *)
HealsOneExpiry ==
  \A c \in Callers : pc[c] = "err" =>
    cancelled \/ faults > 0 \/ absences > 1 \/ why[c] = "exists"

(* Every call returns: the retries are bounded and nobody keeps the mutex,  *)
(* on no path of a failing or cancelled login either.                       *)
EveryCallReturns ==
  \A c \in Callers : (pc[c] # "idle") ~> Ended(c)

(* README 49: "If no session exists (or it expires), rclonarr starts        *)
(* proton-drive auth login".  A call that no command has failed and that    *)
(* nobody cancelled then has nothing to fail for but a second expiry.       *)
ExpirySignsIn ==
  \A c \in Callers :
    pc[c] = "err" => cancelled \/ faults > 0 \/ absences > 1

=============================================================================
