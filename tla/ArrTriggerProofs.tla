--------------------------- MODULE ArrTriggerProofs ---------------------------
(****************************************************************************)
(* Proofs about ArrTrigger, for any number of overlapping calls, any        *)
(* deadline and any number of backups.  The argument: the app's newest      *)
(* backup is always in its list, what is not in a call's first list is      *)
(* newer than all that is, and a command that was carried out has made a    *)
(* backup since its call took the first list.                               *)
(****************************************************************************)
EXTENDS ArrTrigger, Numbers, FiniteSetTheorems

(* Sets of backups: what a call's first list is. *)
Typed == TypeOK /\ before \in [Triggers -> SUBSET Nat]

(* The app never loses its newest backup. *)
Newest == next > 0 => next - 1 \in backups

(* An archive the call has not seen is newer than those it has seen. *)
Ordered ==
  \A c \in Triggers : \A x \in backups \ before[c] : \A b \in before[c] : x > b

(* A command is posted after the first list, its archive is written after   *)
(* that, and a call goes on when the command it waits for is completed.     *)
Commanded ==
  scheme = "servarr" =>
    \A c \in Triggers :
      /\ pc[c] \in {"idle", "before", "post"} => status[c] = "none"
      /\ status[c] \in {"written", "completed"} => \A b \in before[c] : b < next - 1
      /\ pc[c] = "after" => status[command[c]] = "completed"

(* The archive a call has picked. *)
Picked ==
  \A c \in Triggers : pc[c] \in {"stat", "ok"} =>
    /\ \A b \in before[c] : picked[c] >= b
    /\ scheme = "bazarr" \/ command[c] = c => picked[c] \notin before[c]

Inv == Typed /\ Newest /\ Ordered /\ Commanded /\ Picked

-----------------------------------------------------------------------------
(* Lemmas about the operators on sets of backups. *)

LEMMA MaxIs ==
  ASSUME NEW n \in Nat, NEW S \in SUBSET (0..n), S # {}
  PROVE  Servarr!Max(S) \in S /\ \A y \in S : Servarr!Max(S) >= y
  BY GreatestExists DEF Servarr!Max

LEMMA MinIs ==
  ASSUME NEW S \in SUBSET Nat, S # {}
  PROVE  /\ Servarr!Min(S) \in S /\ \A y \in S : Servarr!Min(S) <= y
         /\ Bazarr!Min(S) = Servarr!Min(S)
  BY LeastExists DEF Servarr!Min, Bazarr!Min

LEMMA NotAlone ==
  ASSUME NEW x
  PROVE  ~ (Servarr!Cardinality({x}) > 1) /\ ~ (Bazarr!Cardinality({x}) > 1)
<1>1. Servarr!Cardinality({x}) = Cardinality({x})
  BY DEF Cardinality, Servarr!Cardinality
<1>2. Bazarr!Cardinality({x}) = Cardinality({x})
  BY DEF Cardinality, Bazarr!Cardinality
<1>3. Cardinality({x}) = 1
  BY FS_Singleton
<1> QED BY <1>1, <1>2, <1>3

(* What is pruned is the oldest, and never the newest. *)
LEMMA PruneKeepsNewest ==
  ASSUME Typed, Newest,
         Servarr!Cardinality(backups) > 1 \/ Bazarr!Cardinality(backups) > 1,
         backups' = backups \ {Servarr!Min(backups)}, next' = next
  PROVE  Newest'
<1> SUFFICES ASSUME next > 0, next - 1 = Servarr!Min(backups) PROVE FALSE
  BY DEF Newest
<1>1. next - 1 \in backups /\ backups \in SUBSET Nat /\ \A b \in backups : b <= next - 1
  BY DEF Newest, Typed, TypeOK
<1>2. \A b \in backups : next - 1 <= b
  BY <1>1, MinIs
<1>3. \A b \in backups : b = next - 1
  BY <1>1, <1>2 DEF Typed, TypeOK
<1>4. backups = {next - 1}
  BY <1>1, <1>3
<1> QED BY <1>4, NotAlone

(* newestBackup never goes back, and finds what is new. *)
LEMMA NewestBackupIs ==
  ASSUME Typed, Newest, Ordered, NEW c \in Triggers, backups # {},
         NEW p, p = Servarr!NewestBackup(backups, before[c])
  PROVE  /\ p \in backups
         /\ \A b \in before[c] : p >= b
         /\ ~ (backups \subseteq before[c]) => p \notin before[c]
<1>1. /\ next - 1 \in Nat /\ next - 1 \in backups
      /\ backups \in SUBSET (0..(next - 1)) /\ before[c] \in SUBSET (0..(next - 1))
  <2>1. next \in Nat /\ backups \subseteq 0..(next - 1) /\ before[c] \subseteq 0..(next - 1)
    BY DEF Typed, TypeOK
  <2>2. next > 0
    <3>1. PICK x \in backups : TRUE
      OBVIOUS
    <3> QED BY <2>1, <3>1
  <2> QED BY <2>1, <2>2 DEF Newest
<1>2. CASE backups \ before[c] # {}
  <2>1. p = Servarr!Max(backups \ before[c])
    BY <1>2 DEF Servarr!NewestBackup
  <2>2. p \in backups \ before[c]
    BY <1>1, <1>2, <2>1, MaxIs
  <2>3. \A b \in before[c] : p > b
    BY <2>2 DEF Ordered
  <2> QED BY <1>1, <2>2, <2>3
<1>3. CASE backups \ before[c] = {}
  <2>1. p = Servarr!Max(backups)
    BY <1>3 DEF Servarr!NewestBackup
  <2>2. p \in backups /\ \A y \in backups : p >= y
    BY <1>1, <2>1, MaxIs
  <2> QED BY <1>1, <1>3, <2>2
<1> QED BY <1>2, <1>3

-----------------------------------------------------------------------------
(* The inductive invariant. *)

LEMMA InvInit == Init => Inv
<1> SUFFICES ASSUME Init PROVE Inv
  OBVIOUS
<1>1. TypeOK
  <2>1. cancelled \in BOOLEAN
    BY DEF Init, Servarr!Init
  <2>2. left \in [Triggers -> 0..Timeout]
    BY TimeoutAssumption DEF Init, Servarr!Init
  <2>3. picked \in [Triggers -> Nat \cup {Servarr!Nothing}]
    BY DEF Init, Servarr!Init
  <2>4. backups \subseteq 0..(next - 1) /\ next \in Nat
        /\ \A c \in Triggers : before[c] \subseteq 0..(next - 1)
    BY BackupsAssumption DEF Init, Servarr!Init
  <2>5. /\ status \in [Triggers -> Servarr!Statuses]
        /\ pc \in [Triggers -> Servarr!PCs \cup {"get"}]
        /\ command \in [Triggers -> Triggers]
    BY DEF Init, Servarr!Init, Servarr!Statuses, Servarr!PCs
  <2> QED BY <2>1, <2>2, <2>3, <2>4, <2>5 DEF Init, TypeOK
<1>2. Typed
  BY <1>1 DEF Init, Servarr!Init, Typed
<1>3. Newest /\ Ordered /\ Commanded /\ Picked
  BY BackupsAssumption
  DEF Init, Servarr!Init, Newest, Ordered, Commanded, Picked
<1> QED BY <1>2, <1>3 DEF Inv

(* The app makes a backup, by itself or for a command. *)
LEMMA BackupStep ==
  ASSUME Inv, backups' = backups \cup {next}, next' = next + 1,
         \/ UNCHANGED status
         \/ \E k \in Triggers : /\ status[k] = "queued"
                               /\ status' = [status EXCEPT ![k] = "written"],
         UNCHANGED <<scheme, cancelled, pc, before, command, left, picked>>
  PROVE  Inv'
<1>1. next \in Nat /\ backups \subseteq 0..(next - 1)
      /\ \A c \in Triggers : before[c] \subseteq 0..(next - 1)
  BY DEF Inv, Typed, TypeOK
<1>2. status' \in [Triggers -> Servarr!Statuses]
  BY DEF Inv, Typed, TypeOK, Servarr!Statuses
<1>3. Typed'
  BY <1>1, <1>2 DEF Inv, Typed, TypeOK
<1>4. Newest' /\ Ordered' /\ Picked'
  BY <1>1 DEF Inv, Newest, Ordered, Picked
<1>5. Commanded'
  BY <1>1 DEF Inv, Typed, TypeOK, Commanded, Servarr!Statuses
<1> QED BY <1>3, <1>4, <1>5 DEF Inv

(* The app drops a backup. *)
LEMMA PruneStep ==
  ASSUME Inv, 
         Servarr!Cardinality(backups) > 1 \/ Bazarr!Cardinality(backups) > 1,
         backups' = backups \ {Servarr!Min(backups)},
         UNCHANGED <<scheme, next, status, cancelled, pc, before, command, left, picked>>
  PROVE  Inv'
<1>1. Newest'
  BY PruneKeepsNewest DEF Inv
<1>2. (Typed /\ Ordered /\ Commanded /\ Picked)'
  BY DEF Inv, Typed, TypeOK, Ordered, Commanded, Picked
<1> QED BY <1>1, <1>2 DEF Inv

(* The steps of one call that both clients have. *)
LEMMA CallStep ==
  ASSUME Inv, NEW c \in Triggers,
         NEW l \in Servarr!PCs \cup {"get"}, l \notin {"stat", "ok"},
         pc' = [pc EXCEPT ![c] = l],
         l = "after" => status[command[c]] = "completed",
         l \in {"idle", "before", "post"} => pc[c] \in {"idle", "before", "post"},
         \/ UNCHANGED left
         \/ left' = [left EXCEPT ![c] = Timeout]
         \/ \E n \in 0..Timeout : left' = [left EXCEPT ![c] = n],
         \/ UNCHANGED before
         \/ pc[c] = "before" /\ before' = [before EXCEPT ![c] = backups],
         UNCHANGED picked \/ picked' = [picked EXCEPT ![c] = Servarr!Nothing],
         UNCHANGED <<scheme, backups, next, status, cancelled, command>>
  PROVE  Inv'
<1>1. left' \in [Triggers -> 0..Timeout]
  BY TimeoutAssumption DEF Inv, Typed, TypeOK
<1>2. before' \in [Triggers -> SUBSET Nat]
      /\ \A k \in Triggers : before'[k] \subseteq 0..(next - 1)
  <2>1. backups \subseteq 0..(next - 1) /\ backups \in SUBSET Nat
        /\ before \in [Triggers -> SUBSET Nat]
        /\ \A k \in Triggers : before[k] \subseteq 0..(next - 1)
    BY DEF Inv, Typed, TypeOK
  <2>2. CASE UNCHANGED before
    BY <2>1, <2>2
  <2>3. CASE before' = [before EXCEPT ![c] = backups]
    BY <2>1, <2>3
  <2> QED BY <2>2, <2>3
<1>3. Typed'
  BY <1>1, <1>2 DEF Inv, Typed, TypeOK
<1>4. Newest' /\ Ordered'
  BY DEF Inv, Typed, TypeOK, Newest, Ordered
<1>5. Commanded'
  BY DEF Inv, Typed, TypeOK, Commanded
<1>6. Picked'
  BY DEF Inv, Typed, TypeOK, Picked
<1> QED BY <1>3, <1>4, <1>5, <1>6 DEF Inv

(* A call picks an archive, or goes to the mount for it. *)
LEMMA PickStep ==
  ASSUME Inv, NEW c \in Triggers, NEW l \in {"stat", "ok"},
         pc' = [pc EXCEPT ![c] = l],
         \/ pc[c] = "stat" /\ UNCHANGED picked
         \/ \E p \in backups :
              /\ picked' = [picked EXCEPT ![c] = p]
              /\ \A b \in before[c] : p >= b
              /\ scheme = "bazarr" \/ command[c] = c => p \notin before[c],
         UNCHANGED <<scheme, backups, next, status, cancelled, before, command, left>>
  PROVE  Inv'
<1>1. backups \subseteq Nat
  BY DEF Inv, Typed, TypeOK
<1>2. Typed'
  BY <1>1 DEF Inv, Typed, TypeOK, Servarr!PCs
<1>3. Newest' /\ Ordered' /\ Commanded'
  BY DEF Inv, Typed, TypeOK, Newest, Ordered, Commanded
<1>4. Picked'
  BY DEF Inv, Typed, TypeOK, Picked
<1> QED BY <1>2, <1>3, <1>4 DEF Inv

LEMMA ServarrStep ==
  ASSUME Inv, ServarrNext, UNCHANGED scheme
  PROVE  Inv'
<1> USE DEF Servarr!appVars, Servarr!callVars, Servarr!Goto
<1>0. scheme = "servarr"
  BY DEF ServarrNext
<1>1. CASE Servarr!Schedule
  BY <1>1, BackupStep DEF Servarr!Schedule, Servarr!MakeBackup
<1>2. CASE Servarr!Prune
  BY <1>2, PruneStep DEF Servarr!Prune
<1>3. CASE Servarr!Cancel
  BY <1>3 DEF Servarr!Cancel, Inv, Typed, TypeOK, Newest, Ordered, Commanded, Picked
<1>4. ASSUME NEW k \in Triggers,
             Servarr!Write(k) \/ Servarr!Complete(k) \/ Servarr!GiveUp(k)
      PROVE  Inv'
  <2>1. CASE Servarr!Write(k)
    BY <2>1, BackupStep DEF Servarr!Write, Servarr!MakeBackup
  <2>2. CASE Servarr!Complete(k)
    <3>1. Typed' /\ Newest' /\ Ordered' /\ Picked'
      BY <2>2 DEF Servarr!Complete, Servarr!Statuses, Inv, Typed, TypeOK, Newest, Ordered,
                  Picked
    <3>2. Commanded'
      BY <2>2 DEF Servarr!Complete, Inv, Typed, TypeOK, Commanded
    <3> QED BY <3>1, <3>2 DEF Inv
  <2>3. CASE Servarr!GiveUp(k)
    <3>1. Typed' /\ Newest' /\ Ordered' /\ Picked'
      BY <2>3 DEF Servarr!GiveUp, Servarr!Statuses, Inv, Typed, TypeOK, Newest, Ordered,
                  Picked
    <3>2. Commanded'
      BY <2>3 DEF Servarr!GiveUp, Servarr!Busy, Inv, Typed, TypeOK, Commanded
    <3> QED BY <3>1, <3>2 DEF Inv
  <2> QED BY <1>4, <2>1, <2>2, <2>3
<1>5. ASSUME NEW c \in Triggers, Servarr!Call(c) \/ Servarr!Step(c)
      PROVE  Inv'
  <2>1. CASE Servarr!Call(c)
    BY <2>1, CallStep DEF Servarr!Call, Servarr!PCs
  <2>2. CASE Servarr!RequestFails(c)
    BY <2>2, CallStep DEF Servarr!RequestFails, Servarr!PCs
  <2>3. CASE Servarr!ListBefore(c)
    BY <2>3, CallStep DEF Servarr!ListBefore, Servarr!PCs
  <2>4. CASE Servarr!Post(c)
    <3>1. status' \in [Triggers -> Servarr!Statuses] /\ command' \in [Triggers -> Triggers]
      BY <2>4 DEF Servarr!Post, Servarr!Statuses, Inv, Typed, TypeOK
    <3>2. pc' \in [Triggers -> Servarr!PCs \cup {"get"}] /\ left' \in [Triggers -> 0..Timeout]
      BY <2>4, TimeoutAssumption DEF Servarr!Post, Servarr!PCs, Inv, Typed, TypeOK
    <3>3. Typed'
      BY <2>4, <3>1, <3>2 DEF Servarr!Post, Inv, Typed, TypeOK
    <3>4. Newest' /\ Ordered' /\ Picked'
      BY <2>4 DEF Servarr!Post, Inv, Typed, TypeOK, Newest, Ordered, Picked
    <3>5. Commanded'
      BY <1>0, <2>4 DEF Servarr!Post, Inv, Typed, TypeOK, Commanded
    <3> QED BY <3>3, <3>4, <3>5 DEF Inv
  <2>5. CASE Servarr!Wait(c)
    BY <2>5, CallStep DEF Servarr!Wait, Servarr!PCs
  <2>6. CASE Servarr!Sleep(c)
    <3>1. 0..(left[c] - 1) \subseteq 0..Timeout
      BY TimeoutAssumption DEF Inv, Typed, TypeOK
    <3>2. \/ UNCHANGED left
          \/ \E n \in 0..Timeout : left' = [left EXCEPT ![c] = n]
      BY <2>6, <3>1 DEF Servarr!Sleep
    <3>3. CASE pc' = [pc EXCEPT ![c] = "err"]
      BY <2>6, <3>2, <3>3, CallStep DEF Servarr!Sleep, Servarr!PCs
    <3>4. CASE pc' = [pc EXCEPT ![c] = "wait"]
      BY <2>6, <3>2, <3>4, CallStep DEF Servarr!Sleep, Servarr!PCs
    <3> QED BY <2>6, <3>3, <3>4 DEF Servarr!Sleep
  <2>7. CASE Servarr!ListAfter(c)
    <3>1. CASE backups = {}
      <4>1. Servarr!NewestBackup(backups, before[c]) = Servarr!Nothing
        BY <3>1 DEF Servarr!NewestBackup
      <4>2. pc' = [pc EXCEPT ![c] = "err"]
        BY <2>7, <3>1 DEF Servarr!ListAfter
      <4> QED BY <2>7, <4>1, <4>2, CallStep DEF Servarr!ListAfter, Servarr!PCs
    <3>2. CASE backups # {}
      <4> DEFINE p == Servarr!NewestBackup(backups, before[c])
      <4>1. /\ p \in backups
            /\ \A b \in before[c] : p >= b
            /\ ~ (backups \subseteq before[c]) => p \notin before[c]
        BY <3>2, NewestBackupIs DEF Inv
      <4>2. command[c] = c => ~ (backups \subseteq before[c])
        <5> SUFFICES ASSUME command[c] = c, backups \subseteq before[c] PROVE FALSE
          OBVIOUS
        <5>1. status[c] = "completed"
          BY <1>0, <2>7 DEF Servarr!ListAfter, Inv, Commanded
        <5>2. \A b \in backups : b < next - 1
          BY <1>0, <5>1 DEF Inv, Commanded
        <5>3. next \in Nat /\ backups \subseteq 0..(next - 1)
          BY DEF Inv, Typed, TypeOK
        <5>4. PICK x \in backups : TRUE
          BY <3>2
        <5>5. next > 0 /\ next - 1 \in backups
          BY <5>3, <5>4 DEF Inv, Newest
        <5> QED BY <5>2, <5>3, <5>5
      <4> QED BY <1>0, <2>7, <3>2, <4>1, <4>2, PickStep DEF Servarr!ListAfter
    <3> QED BY <3>1, <3>2
  <2>8. CASE Servarr!Stat(c)
    <3>1. CASE picked[c] \in backups
      BY <2>8, <3>1, PickStep DEF Servarr!Stat
    <3>2. CASE picked[c] \notin backups
      BY <2>8, <3>2, CallStep DEF Servarr!Stat, Servarr!PCs
    <3> QED BY <3>1, <3>2
  <2> QED BY <1>5, <2>1, <2>2, <2>3, <2>4, <2>5, <2>6, <2>7, <2>8 DEF Servarr!Step
<1> QED BY <1>1, <1>2, <1>3, <1>4, <1>5 DEF ServarrNext, Servarr!Next

LEMMA BazarrStep ==
  ASSUME Inv, BazarrNext, UNCHANGED scheme
  PROVE  Inv'
<1> USE DEF Bazarr!appVars, Bazarr!callVars, Bazarr!Goto
<1>0. scheme = "bazarr" /\ UNCHANGED command
  BY DEF BazarrNext
<1>1. CASE Bazarr!Schedule
  BY <1>0, <1>1, BackupStep DEF Bazarr!Schedule, Bazarr!MakeBackup
<1>2. CASE Bazarr!Prune
  <2>1. Bazarr!Min(backups) = Servarr!Min(backups)
    BY DEF Bazarr!Min, Servarr!Min
  <2> QED BY <1>0, <1>2, <2>1, PruneStep DEF Bazarr!Prune
<1>3. CASE Bazarr!Cancel
  BY <1>0, <1>3 DEF Bazarr!Cancel, Inv, Typed, TypeOK, Newest, Ordered, Commanded, Picked
<1>4. ASSUME NEW k \in Triggers, Bazarr!Write(k) \/ Bazarr!GiveUp(k)
      PROVE  Inv'
  <2>1. CASE Bazarr!Write(k)
    BY <1>0, <2>1, BackupStep DEF Bazarr!Write, Bazarr!MakeBackup
  <2>2. CASE Bazarr!GiveUp(k)
    BY <1>0, <2>2
    DEF Bazarr!GiveUp, Servarr!Statuses, Inv, Typed, TypeOK, Newest, Ordered, Commanded,
        Picked
  <2> QED BY <1>4, <2>1, <2>2
<1>5. ASSUME NEW c \in Triggers, Bazarr!Call(c) \/ Bazarr!Step(c)
      PROVE  Inv'
  <2>1. CASE Bazarr!Call(c)
    BY <1>0, <2>1, CallStep DEF Bazarr!Call, Servarr!PCs
  <2>2. CASE Bazarr!RequestFails(c)
    BY <1>0, <2>2, CallStep DEF Bazarr!RequestFails, Servarr!PCs
  <2>3. CASE Bazarr!ListBefore(c)
    BY <1>0, <2>3, CallStep DEF Bazarr!ListBefore, Servarr!PCs
  <2>4. CASE Bazarr!Post(c)
    <3>1. /\ next \in Nat /\ backups \subseteq 0..(next - 1)
          /\ \A k \in Triggers : before[k] \subseteq 0..(next - 1)
      BY DEF Inv, Typed, TypeOK
    <3>2. status' \in [Triggers -> Servarr!Statuses]
      BY <2>4 DEF Bazarr!Post, Servarr!Statuses, Inv, Typed, TypeOK
    <3>3. pc' \in [Triggers -> Servarr!PCs \cup {"get"}] /\ left' \in [Triggers -> 0..Timeout]
      BY <2>4, TimeoutAssumption DEF Bazarr!Post, Servarr!PCs, Inv, Typed, TypeOK
    <3>4. \/ UNCHANGED <<backups, next>>
          \/ backups' = backups \cup {next} /\ next' = next + 1
      BY <2>4 DEF Bazarr!Post, Bazarr!MakeBackup
    <3>5. Typed'
      <4>1. next' \in Nat /\ backups' \subseteq 0..(next' - 1)
            /\ \A k \in Triggers : before[k] \subseteq 0..(next' - 1)
        <5>1. CASE UNCHANGED <<backups, next>>
          BY <3>1, <5>1
        <5>2. CASE backups' = backups \cup {next} /\ next' = next + 1
          BY <3>1, <5>2
        <5> QED BY <3>4, <5>1, <5>2
      <4> QED BY <1>0, <2>4, <3>2, <3>3, <4>1 DEF Bazarr!Post, Inv, Typed, TypeOK
    <3>6. Newest' /\ Ordered'
      <4>1. UNCHANGED before
        BY <2>4 DEF Bazarr!Post
      <4>2. CASE UNCHANGED <<backups, next>>
        BY <4>1, <4>2 DEF Inv, Newest, Ordered
      <4>3. CASE backups' = backups \cup {next} /\ next' = next + 1
        <5>1. Newest'
          BY <3>1, <4>3 DEF Newest
        <5>2. Ordered'
          BY <3>1, <4>1, <4>3 DEF Inv, Ordered
        <5> QED BY <5>1, <5>2
      <4> QED BY <3>4, <4>2, <4>3
    <3>7. Commanded' /\ Picked'
      BY <1>0, <2>4 DEF Bazarr!Post, Inv, Typed, TypeOK, Commanded, Picked
    <3> QED BY <3>5, <3>6, <3>7 DEF Inv
  <2>5. CASE Bazarr!Wait(c)
    BY <1>0, <2>5, CallStep DEF Bazarr!Wait, Servarr!PCs
  <2>6. CASE Bazarr!Get(c)
    <3>1. ASSUME NEW p \in backups \ before[c], picked' = [picked EXCEPT ![c] = p],
                 pc' = [pc EXCEPT ![c] = "stat"]
          PROVE  Inv'
      <4>1. \A b \in before[c] : p >= b
        BY DEF Inv, Typed, TypeOK, Ordered
      <4> QED BY <1>0, <2>6, <3>1, <4>1, PickStep DEF Bazarr!Get
    <3>2. CASE pc' = [pc EXCEPT ![c] = "sleep"] /\ UNCHANGED picked
      BY <1>0, <2>6, <3>2, CallStep DEF Bazarr!Get, Servarr!PCs
    <3> QED BY <2>6, <3>1, <3>2 DEF Bazarr!Get
  <2>7. CASE Bazarr!Sleep(c)
    <3>1. 0..(left[c] - 1) \subseteq 0..Timeout
      BY TimeoutAssumption DEF Inv, Typed, TypeOK
    <3>2. \/ UNCHANGED left
          \/ \E n \in 0..Timeout : left' = [left EXCEPT ![c] = n]
      BY <2>7, <3>1 DEF Bazarr!Sleep
    <3>3. CASE pc' = [pc EXCEPT ![c] = "err"]
      BY <1>0, <2>7, <3>2, <3>3, CallStep DEF Bazarr!Sleep, Servarr!PCs
    <3>4. CASE pc' = [pc EXCEPT ![c] = "wait"]
      BY <1>0, <2>7, <3>2, <3>4, CallStep DEF Bazarr!Sleep, Servarr!PCs
    <3> QED BY <2>7, <3>3, <3>4 DEF Bazarr!Sleep
  <2>8. CASE Bazarr!Stat(c)
    <3>1. CASE picked[c] \in backups
      BY <1>0, <2>8, <3>1, PickStep DEF Bazarr!Stat
    <3>2. CASE picked[c] \notin backups
      BY <1>0, <2>8, <3>2, CallStep DEF Bazarr!Stat, Servarr!PCs
    <3> QED BY <3>1, <3>2
  <2> QED BY <1>5, <2>1, <2>2, <2>3, <2>4, <2>5, <2>6, <2>7, <2>8 DEF Bazarr!Step
<1> QED BY <1>1, <1>2, <1>3, <1>4, <1>5 DEF BazarrNext, Bazarr!Next

LEMMA InvStep == Inv /\ [Next]_vars => Inv'
<1> SUFFICES ASSUME Inv, [Next]_vars PROVE Inv'
  OBVIOUS
<1>1. CASE ServarrNext /\ UNCHANGED scheme
  BY <1>1, ServarrStep
<1>2. CASE BazarrNext /\ UNCHANGED scheme
  BY <1>2, BazarrStep
<1>3. ASSUME NEW c \in Triggers, Reject(c), UNCHANGED scheme
      PROVE  Inv'
  BY <1>3, CallStep DEF Reject, Servarr!PCs
<1>4. CASE UNCHANGED vars
  BY <1>4 DEF vars, Inv, Typed, TypeOK, Newest, Ordered, Commanded, Picked
<1> QED BY <1>1, <1>2, <1>3, <1>4 DEF Next

LEMMA InvHolds == Init /\ [][Next]_vars => []Inv
  BY InvInit, InvStep, PTL

-----------------------------------------------------------------------------
(* The properties. *)

(* Every variable keeps its type, and backups are numbered as they are made. *)
THEOREM TypeCorrect == FairSpec => []TypeOK
<1>1. Inv => TypeOK
  BY DEF Inv, Typed
<1> QED BY <1>1, InvHolds, PTL DEF FairSpec

(* The archive of a call is no older than any the app had before it, for    *)
(* whatever the app prunes and other calls do in between.                   *)
THEOREM NeverGoesBack == FairSpec => []NeverOlder
<1>1. Inv => NeverOlder
  BY DEF Inv, Picked, NeverOlder
<1> QED BY <1>1, InvHolds, PTL DEF FairSpec

(* A call that waited for its own command, and each call to Bazarr, returns *)
(* an archive made since it began.                                          *)
THEOREM OwnArchiveIsNew == FairSpec => []OwnCommandIsNew
<1>1. Inv => OwnCommandIsNew
  BY DEF Inv, Picked, OwnCommandIsNew
<1> QED BY <1>1, InvHolds, PTL DEF FairSpec

=============================================================================
