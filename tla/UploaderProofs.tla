---------------------------- MODULE UploaderProofs ----------------------------
(****************************************************************************)
(* Proofs about Uploader, for every set of callers, every folder and file   *)
(* name of each, and any number of expiries and failures.  The invariants   *)
(* rest on each other in this order: types, the errand of a call and the    *)
(* mutex, the folders made so far, what one missing session can do.  The    *)
(* refinement of RemoteCalls needs the first three.                         *)
(****************************************************************************)
EXTENDS Uploader, TLAPS

USE DEF vars, callVars

(* There is a folder to upload to, and each level of it is a path of its    *)
(* own.                                                                     *)
LEMMA DirLength == \A c \in Callers : Len(Dir[c]) \in Nat \ {0}
<1> SUFFICES ASSUME NEW c \in Callers PROVE Len(Dir[c]) \in Nat \ {0}
  OBVIOUS
<1>1. Dir[c] \in Seq(STRING) /\ Dir[c] # <<>>
  BY DirAssumption
<1> QED BY <1>1

LEMMA PathInPaths ==
  ASSUME NEW c \in Callers, depth[c] \in 1..Len(Dir[c])
  PROVE  Path(c) \in Paths(c)
  BY DEF Path, Paths

-----------------------------------------------------------------------------
(* Types. *)

LEMMA TypeInit == Init => TypeOK
<1> SUFFICES ASSUME Init PROVE TypeOK
  OBVIOUS
<1>1. dirs \subseteq UNION {Paths(c) : c \in Callers}
  BY DEF Init
<1>2. stored \subseteq UNION {{RemoteFile(c)} \cup Expired(c) : c \in Callers}
  BY DEF Init
<1>3. depth \in [Callers -> Nat] /\ \A c \in Callers : depth[c] \in 1..Len(Dir[c])
  BY DirLength DEF Init
<1>4. session \in BOOLEAN /\ cancelled \in BOOLEAN
  BY DEF Init
<1>5. absences \in Nat /\ faults \in Nat
  BY DEF Init
<1>6. /\ holder \in Callers \cup {None}
      /\ pc \in [Callers -> PCs]
      /\ op \in [Callers -> Ops]
      /\ back \in [Callers -> {"ok", "info", "list", "trash", "put"}]
      /\ attempt \in [Callers -> 1..2]
      /\ why \in [Callers -> {"none", "exists", "auth", "other"}]
  BY DEF Init, PCs, Ops
<1> QED BY <1>1, <1>2, <1>3, <1>4, <1>5, <1>6 DEF TypeOK

LEMMA DescendTypes ==
  ASSUME TypeOK, NEW c \in Callers, Descend(c)
  PROVE  /\ pc' \in [Callers -> PCs]
         /\ attempt' \in [Callers -> 1..2]
         /\ depth' \in [Callers -> Nat]
         /\ \A d \in Callers : depth'[d] \in 1..Len(Dir[d])
<1>1. CASE depth[c] < Len(Dir[c]) /\ depth' = [depth EXCEPT ![c] = @ + 1]
  <2>1. \A d \in Callers : depth'[d] \in 1..Len(Dir[d])
    BY <1>1, DirLength DEF TypeOK
  <2>2. depth' \in [Callers -> Nat]
    BY <1>1 DEF TypeOK
  <2> QED BY <1>1, <2>1, <2>2 DEF TypeOK, Descend, Goto, PCs
<1>2. CASE UNCHANGED depth /\ attempt' = [attempt EXCEPT ![c] = 1] /\ Goto(c, "put")
  BY <1>2 DEF TypeOK, Goto, PCs
<1> QED BY <1>1, <1>2 DEF Descend

LEMMA ReauthTypes ==
  ASSUME TypeOK, NEW c \in Callers, NEW l \in {"info", "list", "trash", "put"},
         Reauth(c, l) \/ GiveUp(c)
  PROVE  /\ pc' \in [Callers -> PCs]
         /\ attempt' \in [Callers -> 1..2]
         /\ back' \in [Callers -> {"ok", "info", "list", "trash", "put"}]
<1>1. CASE attempt' = [attempt EXCEPT ![c] = 2] /\ back' = [back EXCEPT ![c] = l]
           /\ Goto(c, "lock")
  BY <1>1 DEF TypeOK, Goto, PCs
<1>2. CASE Goto(c, "err") /\ UNCHANGED <<attempt, back>>
  BY <1>2 DEF TypeOK, Goto, PCs
<1> QED BY <1>1, <1>2 DEF Reauth, GiveUp

LEMMA FaultTypes ==
  ASSUME TypeOK, Succeeds \/ AuthRequired \/ Fails
  PROVE  faults' \in Nat
  BY DEF TypeOK, Succeeds, AuthRequired, Fails

LEMMA TypeStep == TypeOK /\ [Next]_vars => TypeOK'
<1> SUFFICES ASSUME TypeOK, [Next]_vars PROVE TypeOK'
  OBVIOUS
<1> USE DEF TypeOK
<1>1. CASE Expire
  <2>1. session' \in BOOLEAN
    BY <1>1 DEF Expire
  <2> QED BY <1>1, <2>1 DEF Expire
<1>2. CASE Cancel
  BY <1>2 DEF Cancel
<1>3. ASSUME NEW c \in Callers, NEW o \in Ops, Call(c, o) PROVE TypeOK'
  BY <1>3 DEF Call, Goto, PCs, Ops
<1>4. ASSUME NEW c \in Callers, Lock(c) PROVE TypeOK'
  BY <1>4 DEF Lock, Goto, PCs
<1>5. ASSUME NEW c \in Callers, Check(c) PROVE TypeOK'
  <2>1. faults' \in Nat
    BY <1>5, FaultTypes DEF Check
  <2>2. CASE SignedIn(c)
    BY <1>5, <2>1, <2>2, DirLength DEF Check, SignedIn, Goto, PCs
  <2>3. CASE Goto(c, "login") /\ UNCHANGED <<holder, depth>>
    BY <1>5, <2>1, <2>3 DEF Check, Goto, PCs
  <2>4. CASE NotSignedIn(c)
    BY <1>5, <2>1, <2>4 DEF Check, NotSignedIn, Goto, PCs
  <2> QED BY <1>5, <2>2, <2>3, <2>4 DEF Check
<1>6. ASSUME NEW c \in Callers, Login(c) PROVE TypeOK'
  BY <1>6, FaultTypes DEF Login, NotSignedIn, Goto, PCs
<1>7. ASSUME NEW c \in Callers, Recheck(c) PROVE TypeOK'
  <2>1. faults' \in Nat
    BY <1>7, FaultTypes DEF Recheck
  <2>2. CASE SignedIn(c)
    BY <1>7, <2>1, <2>2, DirLength DEF Recheck, SignedIn, Goto, PCs
  <2>3. CASE NotSignedIn(c)
    BY <1>7, <2>1, <2>3 DEF Recheck, NotSignedIn, Goto, PCs
  <2> QED BY <1>7, <2>2, <2>3 DEF Recheck
<1>8. ASSUME NEW c \in Callers, List(c) PROVE TypeOK'
  BY <1>8, FaultTypes, ReauthTypes DEF List, Goto, PCs
<1>9. ASSUME NEW c \in Callers, Trash(c) PROVE TypeOK'
  BY <1>9, FaultTypes, ReauthTypes DEF Trash, Goto, PCs
<1>10. ASSUME NEW c \in Callers, Info(c) PROVE TypeOK'
  BY <1>10, FaultTypes, DescendTypes DEF Info, Exists, ExistsNot, Goto, PCs
<1>11. ASSUME NEW c \in Callers, CreateFolder(c) PROVE TypeOK'
  <2>1. faults' \in Nat
    BY <1>11, FaultTypes DEF CreateFolder
  <2>2. dirs' \subseteq dirs \cup {Path(c)}
    BY <1>11 DEF CreateFolder
  <2>3. dirs' \subseteq UNION {Paths(d) : d \in Callers}
    BY <2>2, PathInPaths
  <2>4. CASE Descend(c) /\ UNCHANGED why
    BY <1>11, <2>1, <2>3, <2>4, DescendTypes DEF CreateFolder
  <2>5. ASSUME NEW w \in {"exists", "auth", "other"}, why' = [why EXCEPT ![c] = w],
               Goto(c, "reinfo"), UNCHANGED <<attempt, depth>>
        PROVE  TypeOK'
    BY <1>11, <2>1, <2>3, <2>5 DEF CreateFolder, Goto, PCs
  <2> QED BY <1>11, <2>4, <2>5 DEF CreateFolder
<1>12. ASSUME NEW c \in Callers, Reinfo(c) PROVE TypeOK'
  BY <1>12, FaultTypes, DescendTypes, ReauthTypes DEF Reinfo, Exists, ExistsNot
<1>13. ASSUME NEW c \in Callers, Put(c) PROVE TypeOK'
  <2>1. faults' \in Nat
    BY <1>13, FaultTypes DEF Put
  <2>2. stored' \subseteq stored \cup {RemoteFile(c)}
    BY <1>13 DEF Put
  <2>3. stored' \subseteq UNION {{RemoteFile(d)} \cup Expired(d) : d \in Callers}
    BY <2>2
  <2>4. /\ pc' \in [Callers -> PCs]
        /\ attempt' \in [Callers -> 1..2]
        /\ back' \in [Callers -> {"ok", "info", "list", "trash", "put"}]
    BY <1>13, ReauthTypes DEF Put, Goto, PCs
  <2> QED BY <1>13, <2>1, <2>3, <2>4 DEF Put
<1>14. CASE UNCHANGED vars
  BY <1>14
<1> QED
  BY <1>1, <1>2, <1>3, <1>4, <1>5, <1>6, <1>7, <1>8, <1>9, <1>10, <1>11, <1>12,
     <1>13, <1>14 DEF Next, Step

(* TypeOK for every instance. *)
THEOREM TypeCorrect == Spec => []TypeOK
  BY TypeInit, TypeStep, PTL DEF Spec

-----------------------------------------------------------------------------
(* The mutex and the errand of a call. *)

InMutex(c) == pc[c] \in {"check", "login", "recheck"}

SigningIn(c) == pc[c] = "lock" \/ InMutex(c)

(* authMu is held by the one caller that is between Lock and Unlock. *)
Mutex == \A c \in Callers : InMutex(c) <=> holder = c

(* A call runs the commands of its method only, and a sign-in goes back to  *)
(* where the method left for it.                                            *)
Errand(c) ==
  /\ pc[c] = "list" => op[c] = "list"
  /\ pc[c] = "trash" => op[c] = "trash"
  /\ pc[c] \in {"info", "create", "reinfo", "put"} => op[c] = "upload"
  /\ SigningIn(c) => \/ op[c] = "signin" /\ back[c] = "ok"
                     \/ op[c] = "list" /\ back[c] = "list"
                     \/ op[c] = "trash" /\ back[c] = "trash"
                     \/ op[c] = "upload" /\ back[c] \in {"info", "put"}

Errands == \A c \in Callers : Errand(c)

LEMMA ControlInit == Init => Mutex /\ Errands
  BY CallersAssumption DEF Init, Mutex, Errands, Errand, InMutex, SigningIn

LEMMA MutexStep == TypeOK /\ Mutex /\ [Next]_vars => Mutex'
<1> SUFFICES ASSUME TypeOK, Mutex, [Next]_vars PROVE Mutex'
  OBVIOUS
<1> USE CallersAssumption DEF TypeOK, Mutex, InMutex, Goto
<1>1. CASE Expire
  BY <1>1 DEF Expire
<1>2. CASE Cancel
  BY <1>2 DEF Cancel
<1>3. ASSUME NEW c \in Callers, NEW o \in Ops, Call(c, o) PROVE Mutex'
  BY <1>3 DEF Call, Ops
<1>4. ASSUME NEW c \in Callers, Lock(c) PROVE Mutex'
  BY <1>4 DEF Lock
<1>5. ASSUME NEW c \in Callers, SignedIn(c), InMutex(c), back[c] \notin {"check", "login", "recheck"}
      PROVE  Mutex'
  BY <1>5 DEF SignedIn
<1>6. ASSUME NEW c \in Callers, NotSignedIn(c), InMutex(c)
      PROVE  Mutex'
  BY <1>6 DEF NotSignedIn
<1>7. ASSUME NEW c \in Callers, Check(c) PROVE Mutex'
  BY <1>5, <1>6, <1>7 DEF Check
<1>8. ASSUME NEW c \in Callers, Login(c) PROVE Mutex'
  BY <1>6, <1>8 DEF Login
<1>9. ASSUME NEW c \in Callers, Recheck(c) PROVE Mutex'
  BY <1>5, <1>6, <1>9 DEF Recheck
<1>10. ASSUME NEW c \in Callers, UNCHANGED holder, ~InMutex(c),
              NEW l \in PCs \ {"check", "login", "recheck"}, pc' = [pc EXCEPT ![c] = l]
       PROVE  Mutex'
  BY <1>10
<1>11. ASSUME NEW c \in Callers, List(c) \/ Trash(c) \/ Put(c) PROVE Mutex'
  BY <1>10, <1>11 DEF List, Trash, Put, Reauth, GiveUp, PCs
<1>12. ASSUME NEW c \in Callers, Info(c) \/ CreateFolder(c) PROVE Mutex'
  BY <1>10, <1>12 DEF Info, CreateFolder, Descend, PCs
<1>13. ASSUME NEW c \in Callers, Reinfo(c) PROVE Mutex'
  BY <1>10, <1>13 DEF Reinfo, Descend, Reauth, GiveUp, PCs
<1>14. CASE UNCHANGED vars
  BY <1>14
<1> QED
  BY <1>1, <1>2, <1>3, <1>4, <1>7, <1>8, <1>9, <1>11, <1>12, <1>13, <1>14
  DEF Next, Step

LEMMA ErrandsStep == TypeOK /\ Errands /\ [Next]_vars => Errands'
<1> SUFFICES ASSUME TypeOK, Errands, [Next]_vars PROVE Errands'
  OBVIOUS
<1> USE DEF TypeOK, Errands, Errand, SigningIn, InMutex, Goto
<1>1. CASE Expire
  BY <1>1 DEF Expire
<1>2. CASE Cancel
  BY <1>2 DEF Cancel
<1>3. ASSUME NEW c \in Callers, NEW o \in Ops, Call(c, o) PROVE Errands'
  BY <1>3 DEF Call, Ops
<1>4. ASSUME NEW c \in Callers, Lock(c) PROVE Errands'
  BY <1>4 DEF Lock
<1>5. ASSUME NEW c \in Callers, Check(c) \/ Login(c) \/ Recheck(c) PROVE Errands'
  BY <1>5 DEF Check, Login, Recheck, SignedIn, NotSignedIn
<1>6. ASSUME NEW c \in Callers, List(c) \/ Trash(c) \/ Put(c) PROVE Errands'
  BY <1>6 DEF List, Trash, Put, Reauth, GiveUp
<1>7. ASSUME NEW c \in Callers, Info(c) \/ CreateFolder(c) PROVE Errands'
  BY <1>7 DEF Info, CreateFolder, Descend
<1>8. ASSUME NEW c \in Callers, Reinfo(c) PROVE Errands'
  BY <1>8 DEF Reinfo, Descend, Reauth, GiveUp
<1>9. CASE UNCHANGED vars
  BY <1>9
<1> QED
  BY <1>1, <1>2, <1>3, <1>4, <1>5, <1>6, <1>7, <1>8, <1>9 DEF Next, Step

LEMMA ControlInvariant == Spec => [](TypeOK /\ Mutex /\ Errands)
  BY ControlInit, MutexStep, ErrandsStep, TypeInit, TypeStep, PTL DEF Spec

LEMMA SignInStep ==
  TypeOK /\ Mutex /\ NoNeedlessSignIn /\ [Next]_vars => NoNeedlessSignIn'
<1> SUFFICES ASSUME TypeOK, Mutex, NoNeedlessSignIn, [Next]_vars,
                    NEW d \in Callers, pc'[d] = "login"
             PROVE  ~session'
  BY DEF NoNeedlessSignIn
<1> USE DEF TypeOK, Mutex, NoNeedlessSignIn, InMutex, Goto
<1>1. CASE Expire
  BY <1>1 DEF Expire
<1>2. CASE Cancel
  BY <1>2 DEF Cancel
<1>3. ASSUME NEW c \in Callers, NEW o \in Ops, Call(c, o) PROVE ~session'
  BY <1>3 DEF Call, Ops
<1>4. ASSUME NEW c \in Callers, Lock(c) PROVE ~session'
  BY <1>4 DEF Lock
<1>5. ASSUME NEW c \in Callers, Check(c) PROVE ~session'
  BY <1>5 DEF Check, SignedIn, NotSignedIn, AuthRequired
<1>6. ASSUME NEW c \in Callers, Login(c) PROVE ~session'
  BY <1>6 DEF Login, NotSignedIn
<1>7. ASSUME NEW c \in Callers, Recheck(c) PROVE ~session'
  BY <1>7 DEF Recheck, SignedIn, NotSignedIn
<1>8. ASSUME NEW c \in Callers, List(c) \/ Trash(c) \/ Put(c) PROVE ~session'
  BY <1>8 DEF List, Trash, Put, Reauth, GiveUp
<1>9. ASSUME NEW c \in Callers, Info(c) \/ CreateFolder(c) PROVE ~session'
  BY <1>9 DEF Info, CreateFolder, Descend
<1>10. ASSUME NEW c \in Callers, Reinfo(c) PROVE ~session'
  BY <1>10 DEF Reinfo, Descend, Reauth, GiveUp
<1>11. CASE UNCHANGED vars
  BY <1>11
<1> QED
  BY <1>1, <1>2, <1>3, <1>4, <1>5, <1>6, <1>7, <1>8, <1>9, <1>10, <1>11
  DEF Next, Step

(* The user is asked to sign in only while there is no session, for any     *)
(* number of callers: nobody can make one between the look of the caller    *)
(* that holds the mutex and its login.                                      *)
THEOREM SignInIsNeeded == Spec => []NoNeedlessSignIn
<1>1. Init => NoNeedlessSignIn
  BY DEF Init, NoNeedlessSignIn
<1> QED BY <1>1, SignInStep, ControlInvariant, PTL DEF Spec

-----------------------------------------------------------------------------
(* The folders made so far. *)

Upper(c, n) == SubSeq(Dir[c], 1, n)

(* ensureDir stands below folders that exist, and an upload that signs in   *)
(* again comes back to a folder that does.                                  *)
FoldersMade(c) ==
  /\ pc[c] \in {"info", "create", "reinfo"} =>
       \A n \in 1..(depth[c] - 1) : Upper(c, n) \in dirs
  /\ pc[c] = "put" \/ (SigningIn(c) /\ back[c] = "put") =>
       \A n \in 1..Len(Dir[c]) : Upper(c, n) \in dirs

Folders == \A c \in Callers : FoldersMade(c)

LEMMA DescendFolders ==
  ASSUME TypeOK, Folders, NEW c \in Callers, Descend(c), dirs \subseteq dirs',
         pc[c] \in {"info", "create", "reinfo"}, Path(c) \in dirs', UNCHANGED back
  PROVE  Folders'
<1>1. \A n \in 1..depth[c] : Upper(c, n) \in dirs'
  BY DEF Folders, FoldersMade, TypeOK, Upper, Path
<1>2. ASSUME NEW d \in Callers, d # c PROVE FoldersMade(d)'
  BY <1>2 DEF Folders, FoldersMade, TypeOK, Descend, Goto, SigningIn, InMutex, Upper
<1>3. FoldersMade(c)'
  <2>1. CASE depth[c] < Len(Dir[c])
    BY <1>1, <2>1 DEF FoldersMade, TypeOK, Descend, Goto, SigningIn, InMutex, Upper
  <2>2. CASE ~(depth[c] < Len(Dir[c]))
    <3>1. depth[c] = Len(Dir[c])
      BY <2>2, DirLength DEF TypeOK
    <3> QED
      BY <1>1, <2>2, <3>1 DEF FoldersMade, TypeOK, Descend, Goto, SigningIn, InMutex, Upper
  <2> QED BY <2>1, <2>2
<1> QED BY <1>2, <1>3 DEF Folders

LEMMA FoldersStep == TypeOK /\ Errands /\ Folders /\ [Next]_vars => Folders'
<1> SUFFICES ASSUME TypeOK, Errands, Folders, [Next]_vars PROVE Folders'
  OBVIOUS
<1> USE DEF TypeOK, Folders, FoldersMade, SigningIn, InMutex, Goto, Upper
<1>1. CASE Expire
  BY <1>1 DEF Expire
<1>2. CASE Cancel
  BY <1>2 DEF Cancel
<1>3. ASSUME NEW c \in Callers, NEW o \in Ops, Call(c, o) PROVE Folders'
  BY <1>3 DEF Call, Ops
<1>4. ASSUME NEW c \in Callers, Lock(c) PROVE Folders'
  BY <1>4 DEF Lock
<1>5. ASSUME NEW c \in Callers, Check(c) \/ Login(c) \/ Recheck(c) PROVE Folders'
  BY <1>5 DEF Check, Login, Recheck, SignedIn, NotSignedIn, Errands, Errand
<1>6. ASSUME NEW c \in Callers, List(c) \/ Trash(c) \/ Put(c) PROVE Folders'
  BY <1>6 DEF List, Trash, Put, Reauth, GiveUp
<1>7. ASSUME NEW c \in Callers, Info(c) PROVE Folders'
  <2>1. CASE Exists(c) /\ Descend(c)
    BY <1>7, <2>1, DescendFolders DEF Info, Exists
  <2>2. CASE Goto(c, "create") /\ UNCHANGED <<attempt, depth>>
    BY <1>7, <2>2 DEF Info
  <2> QED BY <1>7, <2>1, <2>2 DEF Info
<1>8. ASSUME NEW c \in Callers, CreateFolder(c) PROVE Folders'
  <2>1. dirs \subseteq dirs'
    BY <1>8 DEF CreateFolder
  <2>2. CASE Descend(c) /\ dirs' = dirs \cup {Path(c)}
    BY <1>8, <2>1, <2>2, DescendFolders DEF CreateFolder
  <2>3. CASE Goto(c, "reinfo") /\ UNCHANGED <<attempt, depth>>
    BY <1>8, <2>1, <2>3 DEF CreateFolder
  <2> QED BY <1>8, <2>2, <2>3 DEF CreateFolder
<1>9. ASSUME NEW c \in Callers, Reinfo(c) PROVE Folders'
  <2>1. CASE Exists(c) /\ Descend(c) /\ UNCHANGED back
    BY <1>9, <2>1, DescendFolders DEF Reinfo, Exists
  <2>2. CASE /\ IF why[c] = "auth" THEN Reauth(c, "info") ELSE GiveUp(c)
             /\ UNCHANGED <<depth, why>>
    BY <1>9, <2>2 DEF Reinfo, Reauth, GiveUp
  <2> QED BY <1>9, <2>1, <2>2 DEF Reinfo
<1>10. CASE UNCHANGED vars
  BY <1>10
<1> QED
  BY <1>1, <1>2, <1>3, <1>4, <1>5, <1>6, <1>7, <1>8, <1>9, <1>10 DEF Next, Step

LEMMA FoldersInvariant == Spec => []Folders
<1>1. Init => Folders
  BY DEF Init, Folders, FoldersMade, SigningIn, InMutex
<1> QED BY <1>1, FoldersStep, ControlInvariant, PTL DEF Spec

(* The upload command never names a folder that is not there, whoever made  *)
(* it and whatever failed on the way.                                       *)
THEOREM PutFindsFolder == Spec => []PutHasFolder
<1>1. Folders => PutHasFolder
  BY DEF Folders, FoldersMade, PutHasFolder, Paths, Upper
<1> QED BY <1>1, FoldersInvariant, PTL

-----------------------------------------------------------------------------
(* What one missing session can do. *)

(* Nothing but one missing session has come in the way so far. *)
Calm == ~cancelled /\ faults = 0 /\ absences <= 1

(* Whoever has signed in, or is about to repeat a command, did so for the   *)
(* session that went missing.                                               *)
Accounted ==
  /\ ~session => absences > 0
  /\ \A c \in Callers :
       pc[c] \in {"login", "recheck"} \/ attempt[c] = 2 \/ why[c] = "auth" => absences > 0

(* With no second one to come, a sign-in is good for the rest of all calls. *)
Healed(c) ==
  /\ pc[c] = "recheck" => session
  /\ attempt[c] = 2 => SigningIn(c) \/ pc[c] = "err" \/ session
  /\ pc[c] = "reinfo" => \/ why[c] = "exists"
                         \/ why[c] = "auth" /\ attempt[c] = 1
  /\ pc[c] = "err" => why[c] = "exists"

OneExpiry == Accounted /\ (Calm => \A c \in Callers : Healed(c))

LEMMA AccountedStep == TypeOK /\ Accounted /\ [Next]_vars => Accounted'
<1> SUFFICES ASSUME TypeOK, Accounted, [Next]_vars PROVE Accounted'
  OBVIOUS
<1> USE DEF TypeOK, Accounted, Goto
<1>1. CASE Expire
  BY <1>1 DEF Expire
<1>2. CASE Cancel
  BY <1>2 DEF Cancel
<1>3. ASSUME NEW c \in Callers, NEW o \in Ops, Call(c, o) PROVE Accounted'
  BY <1>3 DEF Call, Ops
<1>4. ASSUME NEW c \in Callers, Lock(c) PROVE Accounted'
  BY <1>4 DEF Lock
<1>5. ASSUME NEW c \in Callers, Check(c) \/ Login(c) \/ Recheck(c) PROVE Accounted'
  BY <1>5 DEF Check, Login, Recheck, SignedIn, NotSignedIn, AuthRequired
<1>6. ASSUME NEW c \in Callers, List(c) \/ Trash(c) \/ Put(c) PROVE Accounted'
  BY <1>6 DEF List, Trash, Put, Reauth, GiveUp, AuthRequired
<1>7. ASSUME NEW c \in Callers, Info(c) \/ CreateFolder(c) PROVE Accounted'
  BY <1>7 DEF Info, CreateFolder, Descend, AuthRequired
<1>8. ASSUME NEW c \in Callers, Reinfo(c) PROVE Accounted'
  BY <1>8 DEF Reinfo, Descend, Reauth, GiveUp
<1>9. CASE UNCHANGED vars
  BY <1>9
<1> QED
  BY <1>1, <1>2, <1>3, <1>4, <1>5, <1>6, <1>7, <1>8, <1>9 DEF Next, Step

LEMMA HealedStep ==
  TypeOK /\ Errands /\ OneExpiry /\ [Next]_vars /\ Calm'
  => \A c \in Callers : Healed(c)'
<1> SUFFICES ASSUME TypeOK, Errands, OneExpiry, [Next]_vars, Calm', NEW d \in Callers
             PROVE  Healed(d)'
  OBVIOUS
<1> USE DEF TypeOK, Healed, SigningIn, InMutex, Goto
<1>1. CASE Expire
  BY <1>1 DEF Expire, OneExpiry, Accounted, Calm
<1>2. CASE Cancel
  BY <1>2 DEF Cancel, Calm
<1> SUFFICES ASSUME ~Expire, ~Cancel PROVE Healed(d)'
  BY <1>1, <1>2
<1>3. Calm /\ ~cancelled /\ UNCHANGED faults
  BY DEF Calm, Next, Step, Call, Lock, Check, Login, Recheck, List, Trash, Info,
         CreateFolder, Reinfo, Put, Exists, ExistsNot, Succeeds, AuthRequired, Fails
<1>4. /\ \A c \in Callers : Healed(c)
      /\ ~Fails
  BY <1>3 DEF OneExpiry, Fails
<1>5. ASSUME NEW c \in Callers, NEW o \in Ops, Call(c, o) PROVE Healed(d)'
  BY <1>4, <1>5 DEF Call, Ops
<1>6. ASSUME NEW c \in Callers, Lock(c) PROVE Healed(d)'
  BY <1>4, <1>6 DEF Lock
<1>7. ASSUME NEW c \in Callers, Check(c) PROVE Healed(d)'
  BY <1>4, <1>7 DEF Check, SignedIn, Succeeds
<1>8. ASSUME NEW c \in Callers, Login(c) PROVE Healed(d)'
  BY <1>4, <1>8 DEF Login
<1>9. ASSUME NEW c \in Callers, Recheck(c) PROVE Healed(d)'
  BY <1>4, <1>9 DEF Recheck, SignedIn, Succeeds, AuthRequired
<1>10. ASSUME NEW c \in Callers, List(c) \/ Trash(c) \/ Put(c) PROVE Healed(d)'
  BY <1>4, <1>10 DEF List, Trash, Put, Reauth, Succeeds, AuthRequired
<1>11. ASSUME NEW c \in Callers, Info(c) PROVE Healed(d)'
  BY <1>4, <1>11 DEF Info, Descend
<1>12. ASSUME NEW c \in Callers, CreateFolder(c) PROVE Healed(d)'
  BY <1>4, <1>12 DEF CreateFolder, Descend, AuthRequired
<1>13. ASSUME NEW c \in Callers, Reinfo(c) PROVE Healed(d)'
  BY <1>4, <1>13 DEF Reinfo, Descend, Reauth, GiveUp
<1>14. CASE UNCHANGED vars
  BY <1>4, <1>14
<1> QED
  BY <1>5, <1>6, <1>7, <1>8, <1>9, <1>10, <1>11, <1>12, <1>13, <1>14 DEF Next, Step

LEMMA OneExpiryInvariant == Spec => []OneExpiry
<1>1. Init => OneExpiry
  BY DEF Init, OneExpiry, Accounted, Healed, SigningIn, InMutex
<1>2. TypeOK /\ Errands /\ OneExpiry /\ [Next]_vars => OneExpiry'
  BY AccountedStep, HealedStep DEF OneExpiry
<1> QED BY <1>1, <1>2, ControlInvariant, PTL DEF Spec

(* One missing session costs no call its result, wherever it goes missing   *)
(* and however many callers it hits, except by the folder that another      *)
(* caller makes at the same time.                                           *)
THEOREM OneExpiryHeals == Spec => []HealsOneExpiry
<1>1. TypeOK /\ OneExpiry => HealsOneExpiry
  BY DEF TypeOK, OneExpiry, Calm, Healed, HealsOneExpiry
<1> QED BY <1>1, OneExpiryInvariant, ControlInvariant, PTL

-----------------------------------------------------------------------------
(* The calls implement the abstract ones. *)

Phase(c) == IF pc[c] \in {"idle", "ok", "err"} THEN pc[c] ELSE "busy"

Phases == [c \in Callers |-> Phase(c)]

LEMMA PhaseStep ==
  ASSUME TypeOK, NEW c \in Callers, NEW l \in PCs, pc' = [pc EXCEPT ![c] = l]
  PROVE  Phases' = [Phases EXCEPT ![c] = IF l \in {"idle", "ok", "err"} THEN l ELSE "busy"]
  BY DEF TypeOK, Phases, Phase

(* Most commands are no step of the abstract call. *)
LEMMA InnerStep ==
  ASSUME TypeOK, NEW c \in Callers, NEW l \in PCs \ {"idle", "ok", "err"},
         pc[c] \notin {"idle", "ok", "err"},
         pc' = [pc EXCEPT ![c] = l], UNCHANGED <<op, stored, cancelled>>
  PROVE  UNCHANGED Calls!vars
<1>1. Phases' = Phases
  BY PhaseStep DEF TypeOK, Phases, Phase
<1> QED BY <1>1 DEF Calls!vars, Phases, Phase

(* A call that returns an error did a part of its work, or none. *)
LEMMA FailStep ==
  ASSUME TypeOK, NEW c \in Callers, pc[c] \notin {"idle", "ok", "err"},
         pc' = [pc EXCEPT ![c] = "err"], UNCHANGED <<op, cancelled>>,
         \/ UNCHANGED stored
         \/ op[c] = "upload" /\ stored' = stored \cup {RemoteFile(c)}
         \/ op[c] = "trash" /\ \E gone \in SUBSET Expired(c) : stored' = stored \ gone
  PROVE  Calls!Fail(c)
<1>1. Phases[c] = "busy" /\ Phases' = [Phases EXCEPT ![c] = "err"]
  BY PhaseStep DEF TypeOK, Phases, Phase, PCs
<1>2. stored' \in Calls!Partly(c)
  <2>1. CASE op[c] = "upload"
    BY <2>1 DEF Calls!Partly
  <2>2. CASE op[c] = "trash"
    <3>1. PICK gone \in SUBSET Expired(c) : stored' = stored \ gone
      <4>1. {} \in SUBSET Expired(c) /\ stored = stored \ {}
        OBVIOUS
      <4> QED BY <2>2, <4>1
    <3> QED BY <2>2, <3>1 DEF Calls!Partly
  <2>3. CASE op[c] \in {"signin", "list"}
    BY <2>3 DEF Calls!Partly
  <2> QED BY <2>1, <2>2, <2>3 DEF TypeOK, Ops
<1> QED BY <1>1, <1>2 DEF Calls!Fail, Phases, Phase

(* A call that returns nil did all of it. *)
LEMMA SucceedStep ==
  ASSUME TypeOK, NEW c \in Callers, pc[c] \notin {"idle", "ok", "err"}, ~cancelled,
         pc' = [pc EXCEPT ![c] = "ok"], UNCHANGED <<op, cancelled>>,
         \/ op[c] \in {"signin", "list"} /\ UNCHANGED stored
         \/ op[c] = "upload" /\ stored' = stored \cup {RemoteFile(c)}
         \/ op[c] = "trash" /\ stored' = stored \ Expired(c)
  PROVE  Calls!Succeed(c)
<1>1. Phases[c] = "busy" /\ Phases' = [Phases EXCEPT ![c] = "ok"]
  BY PhaseStep DEF TypeOK, Phases, Phase, PCs
<1>2. stored' = Calls!Wholly(c)
  BY DEF Calls!Wholly
<1> QED BY <1>1, <1>2 DEF Calls!Succeed, Phases, Phase

LEMMA CallsInit == Init => Calls!Init
<1> SUFFICES ASSUME Init PROVE Calls!Init
  OBVIOUS
<1>1. Phases = [c \in Callers |-> "idle"]
  BY DEF Init, Phases, Phase
<1>2. op \in [Callers -> Calls!Ops]
  BY DEF Init, Calls!Ops
<1>3. stored \subseteq UNION {Expired(c) : c \in Callers}
  BY DEF Init
<1>4. UNION {[d \in Callers |-> Expired(d)][c] : c \in Callers} = UNION {Expired(c) : c \in Callers}
  OBVIOUS
<1>5. cancelled = FALSE
  BY DEF Init
<1> QED BY <1>1, <1>2, <1>3, <1>4, <1>5 DEF Calls!Init, Phases, Phase

LEMMA CallsStep == TypeOK /\ Errands /\ [Next]_vars => [Calls!Next]_Calls!vars
<1> SUFFICES ASSUME TypeOK, Errands, [Next]_vars PROVE [Calls!Next]_Calls!vars
  OBVIOUS
<1>1. CASE Expire \/ UNCHANGED vars
  BY <1>1 DEF Expire, Calls!vars
<1>2. CASE Cancel
  BY <1>2 DEF Cancel, Calls!Next, Calls!Cancel
<1>3. ASSUME NEW c \in Callers, NEW o \in Ops, Call(c, o) PROVE Calls!Next
  <2>1. PICK l \in {"lock", "list", "trash"} : pc' = [pc EXCEPT ![c] = l]
    BY <1>3 DEF Call, Goto, Ops
  <2>2. Phases[c] = "idle" /\ Phases' = [Phases EXCEPT ![c] = "busy"]
    BY <1>3, <2>1, PhaseStep DEF Call, Phases, Phase, PCs
  <2>3. Calls!Begin(c, o)
    BY <1>3, <2>2 DEF Call, Calls!Begin, Phases, Phase
  <2> QED BY <2>3 DEF Calls!Next, Calls!Ops, Ops
<1>4. ASSUME NEW c \in Callers, Lock(c) PROVE UNCHANGED Calls!vars
  BY <1>4, InnerStep DEF Lock, Goto, PCs
<1> USE DEF Errands, Errand, SigningIn, InMutex, Goto
<1>5. ASSUME NEW c \in Callers, Check(c) \/ Login(c) \/ Recheck(c)
      PROVE  [Calls!Next]_Calls!vars
  <2>1. CASE NotSignedIn(c)
    BY <1>5, <2>1, FailStep DEF Check, Login, Recheck, NotSignedIn, Calls!Next
  <2>2. CASE Succeeds /\ SignedIn(c)
    <3>1. CASE back[c] = "ok"
      BY <1>5, <2>2, <3>1, SucceedStep
      DEF Check, Login, Recheck, SignedIn, Succeeds, Calls!Next
    <3>2. CASE back[c] # "ok"
      BY <1>5, <2>2, <3>2, InnerStep DEF Check, Login, Recheck, SignedIn, PCs, TypeOK
    <3> QED BY <3>1, <3>2
  <2>3. CASE Goto(c, "login") \/ Goto(c, "recheck")
    BY <1>5, <2>3, InnerStep DEF Check, Login, Recheck, PCs
  <2> QED BY <1>5, <2>1, <2>2, <2>3 DEF Check, Login, Recheck
<1>6. ASSUME NEW c \in Callers, List(c) PROVE [Calls!Next]_Calls!vars
  <2>1. CASE Goto(c, "ok") /\ Succeeds
    BY <1>6, <2>1, SucceedStep DEF List, Succeeds, Calls!Next
  <2>2. CASE Goto(c, "lock")
    BY <1>6, <2>2, InnerStep DEF List, PCs
  <2>3. CASE Goto(c, "err")
    BY <1>6, <2>3, FailStep DEF List, Calls!Next
  <2> QED BY <1>6, <2>1, <2>2, <2>3 DEF List, Reauth, GiveUp
<1>7. ASSUME NEW c \in Callers, Trash(c) PROVE [Calls!Next]_Calls!vars
  <2>1. CASE Goto(c, "ok") /\ Succeeds /\ stored' = stored \ Expired(c)
    BY <1>7, <2>1, SucceedStep DEF Trash, Succeeds, Calls!Next
  <2>2. CASE Goto(c, "lock") /\ UNCHANGED stored
    BY <1>7, <2>2, InnerStep DEF Trash, PCs
  <2>3. CASE /\ Goto(c, "err")
             /\ \/ UNCHANGED stored
                \/ \E gone \in SUBSET Expired(c) : stored' = stored \ gone
    BY <1>7, <2>3, FailStep DEF Trash, Calls!Next
  <2> QED BY <1>7, <2>1, <2>2, <2>3 DEF Trash, Reauth, GiveUp
<1>8. ASSUME NEW c \in Callers, Put(c) PROVE [Calls!Next]_Calls!vars
  <2>1. CASE Goto(c, "ok") /\ Succeeds /\ stored' = stored \cup {RemoteFile(c)}
    BY <1>8, <2>1, SucceedStep DEF Put, Succeeds, Calls!Next
  <2>2. CASE Goto(c, "lock") /\ UNCHANGED stored
    BY <1>8, <2>2, InnerStep DEF Put, PCs
  <2>3. CASE /\ Goto(c, "err")
             /\ UNCHANGED stored \/ stored' = stored \cup {RemoteFile(c)}
    BY <1>8, <2>3, FailStep DEF Put, Calls!Next
  <2> QED BY <1>8, <2>1, <2>2, <2>3 DEF Put, Reauth, GiveUp
<1>9. ASSUME NEW c \in Callers, Info(c) \/ CreateFolder(c) PROVE UNCHANGED Calls!vars
  BY <1>9, InnerStep DEF Info, CreateFolder, Descend, PCs
<1>10. ASSUME NEW c \in Callers, Reinfo(c) PROVE [Calls!Next]_Calls!vars
  <2>1. CASE Goto(c, "err")
    BY <1>10, <2>1, FailStep DEF Reinfo, Calls!Next
  <2>2. ASSUME NEW l \in {"info", "put", "lock"}, Goto(c, l) PROVE UNCHANGED Calls!vars
    BY <1>10, <2>2, InnerStep DEF Reinfo, PCs
  <2> QED BY <1>10, <2>1, <2>2 DEF Reinfo, Descend, Reauth, GiveUp
<1> QED
  BY <1>1, <1>2, <1>3, <1>4, <1>5, <1>6, <1>7, <1>8, <1>9, <1>10 DEF Next, Step

(* Through all sign-ins, retries and half-done commands of any number of    *)
(* callers, each call takes effect at once when it returns, or in part when *)
(* it returns an error.                                                     *)
THEOREM RefinesCalls == Spec => ImplementsCalls
  BY CallsInit, CallsStep, ControlInvariant, PTL DEF Spec, ImplementsCalls, Calls!Spec

=============================================================================
