-------------------------- MODULE OrchestratorProofs --------------------------
(****************************************************************************)
(* Proofs about Orchestrator, for every set of runs and targets, every      *)
(* initial content of the folders and every retention.  The invariants are  *)
(* proved in the order in which they rest on each other: types, progress of *)
(* a run, names in a folder, the knowledge of a sweep; the properties of    *)
(* the folders follow from those.                                           *)
(****************************************************************************)
EXTENDS Orchestrator, TLAPS

USE DEF vars, runVars

(* An element of the target list is a target. *)
LEMMA EnabledTargets ==
  /\ Len(Enabled) \in Nat
  /\ \A i \in 1..Len(Enabled) : Enabled[i] \in Targets
  /\ (Enabled # <<>> <=> Len(Enabled) > 0)
  BY ConstantsAssumption

(* The typing invariant, which needs the position of a run in its list.     *)
TypeInv == TypeOK /\ Positions

(* Control: what a target's result does to a run. *)
LEMMA FinishControl ==
  ASSUME TypeInv, NEW r \in Runs, NEW res \in {"ok", "failed"}, Finish(r, res),
         pc[r] \in {"produce", "upload"}
  PROVE  /\ result' = [result EXCEPT ![r][Target(r)] = res]
         /\ \/ /\ idx[r] < Len(Enabled)
               /\ idx' = [idx EXCEPT ![r] = idx[r] + 1]
               /\ pc' = [pc EXCEPT ![r] = "produce"]
            \/ /\ idx[r] = Len(Enabled)
               /\ UNCHANGED idx
               /\ pc' = [pc EXCEPT ![r] = "cleanup"]
  BY EnabledTargets DEF TypeInv, TypeOK, Positions, Finish

LEMMA FinishTypes ==
  ASSUME TypeInv, NEW r \in Runs, NEW res \in {"ok", "failed"}, Finish(r, res),
         pc[r] \in {"produce", "upload"}
  PROVE  /\ pc' \in [Runs -> PCs]
         /\ idx' \in [Runs -> Nat]
         /\ result' \in [Runs -> [Targets -> {"none", "ok", "failed"}]]
         /\ Positions'
<1>1. result' \in [Runs -> [Targets -> {"none", "ok", "failed"}]]
  <2>1. result' = [result EXCEPT ![r][Target(r)] = res]
    BY FinishControl
  <2> QED BY <2>1 DEF TypeInv, TypeOK
<1>2. CASE /\ idx[r] < Len(Enabled)
           /\ idx' = [idx EXCEPT ![r] = idx[r] + 1]
           /\ pc' = [pc EXCEPT ![r] = "produce"]
  BY <1>1, <1>2, EnabledTargets DEF TypeInv, TypeOK, Positions, PCs
<1>3. CASE /\ idx[r] = Len(Enabled)
           /\ UNCHANGED idx
           /\ pc' = [pc EXCEPT ![r] = "cleanup"]
  <2>1. Enabled # <<>>
    BY <1>3, EnabledTargets DEF TypeInv, Positions
  <2> QED BY <1>1, <1>3, <2>1 DEF TypeInv, TypeOK, Positions, PCs
<1> QED BY <1>2, <1>3, FinishControl

(* Control: what the end of one step of the sweep does to a run. *)
LEMMA NextResultControl ==
  ASSUME TypeInv, NEW r \in Runs, NextResult(r), pc[r] \in {"list", "trash"}
  PROVE  \/ /\ idx[r] < Len(Enabled)
            /\ idx' = [idx EXCEPT ![r] = idx[r] + 1]
            /\ pc' = [pc EXCEPT ![r] = "list"]
            /\ UNCHANGED outcome
         \/ /\ idx[r] = Len(Enabled)
            /\ UNCHANGED idx
            /\ Return(r)
  BY EnabledTargets DEF TypeInv, TypeOK, Positions, NextResult

LEMMA ReturnTypes ==
  ASSUME TypeInv, NEW r \in Runs, Return(r)
  PROVE  /\ pc' \in [Runs -> PCs]
         /\ outcome' \in [Runs -> {"none", "ok", "error"}]
<1>1. pc' = [pc EXCEPT ![r] = "done"]
  BY DEF Return
<1>2. PICK o \in {"ok", "error"} : outcome' = [outcome EXCEPT ![r] = o]
  BY DEF Return
<1> QED BY <1>1, <1>2 DEF TypeInv, TypeOK, PCs

LEMMA NextResultTypes ==
  ASSUME TypeInv, NEW r \in Runs, NextResult(r), pc[r] \in {"list", "trash"}
  PROVE  /\ pc' \in [Runs -> PCs]
         /\ idx' \in [Runs -> Nat]
         /\ outcome' \in [Runs -> {"none", "ok", "error"}]
         /\ Positions'
<1>1. CASE /\ idx[r] < Len(Enabled)
           /\ idx' = [idx EXCEPT ![r] = idx[r] + 1]
           /\ pc' = [pc EXCEPT ![r] = "list"]
           /\ UNCHANGED outcome
  BY <1>1, EnabledTargets DEF TypeInv, TypeOK, Positions, PCs
<1>2. CASE UNCHANGED idx /\ Return(r)
  <2>1. pc' = [pc EXCEPT ![r] = "done"]
    BY <1>2 DEF Return
  <2>2. Positions'
    BY <1>2, <2>1 DEF TypeInv, TypeOK, Positions
  <2> QED BY <1>2, <2>2, ReturnTypes DEF TypeInv, TypeOK
<1> QED BY <1>1, <1>2, NextResultControl

(* A run that works on a target works on one of its list. *)
LEMMA TargetType ==
  ASSUME TypeInv, NEW r \in Runs, pc[r] \in {"produce", "upload", "list", "trash"}
  PROVE  Target(r) \in Targets /\ idx[r] \in 1..Len(Enabled)
  BY EnabledTargets DEF TypeInv, Positions, Target

LEMMA TypeInit == Init => TypeInv
<1> SUFFICES ASSUME Init PROVE TypeInv
  OBVIOUS
<1>1. NoName \in Names
  BY DEF NoName, Names, Times, NoTime
<1>2. cancelled \in BOOLEAN
  BY DEF Init
<1>3. idx \in [Runs -> Nat] /\ now \in [Runs -> Nat] /\ clock \in Nat
  BY DEF Init
<1>4. TypeOK
  BY <1>1, <1>2, <1>3, ConstantsAssumption DEF Init, TypeOK, PCs
<1>5. Positions
  BY DEF Init, Positions
<1> QED BY <1>4, <1>5 DEF TypeInv

LEMMA TypeStep == TypeInv /\ [Next]_vars => TypeInv'
<1> SUFFICES ASSUME TypeInv, [Next]_vars PROVE TypeOK' /\ Positions'
  BY DEF TypeInv
<1> USE DEF TypeOK, Positions
<1>1. CASE Tick
  BY <1>1 DEF TypeInv, Tick
<1>2. CASE Cancel
  BY <1>2 DEF TypeInv, Cancel
<1>3. CASE Exit
  BY <1>3 DEF TypeInv, Exit, PCs, InFlight
<1>4. ASSUME NEW r \in Runs, Start(r) PROVE TypeOK' /\ Positions'
  BY <1>4 DEF TypeInv, Start, PCs
<1>5. ASSUME NEW r \in Runs, EnsureAuth(r) PROVE TypeOK' /\ Positions'
  BY <1>5 DEF TypeInv, EnsureAuth, Abort, PCs
<1>6. ASSUME NEW r \in Runs, ResolveTargets(r) PROVE TypeOK' /\ Positions'
  <2>1. CASE Abort(r)
    BY <1>6, <2>1 DEF TypeInv, ResolveTargets, Abort, PCs
  <2>2. CASE Enabled # <<>> /\ pc' = [pc EXCEPT ![r] = "produce"] /\ UNCHANGED outcome
    BY <1>6, <2>2, EnabledTargets DEF TypeInv, ResolveTargets, PCs
  <2> QED BY <1>6, <2>1, <2>2 DEF ResolveTargets
<1>7. ASSUME NEW r \in Runs, Produce(r) PROVE TypeOK' /\ Positions'
  <2>1. CASE Finish(r, "failed") /\ UNCHANGED archive
    BY <1>7, <2>1, FinishTypes DEF TypeInv, Produce
  <2>2. ASSUME NEW n \in ArchiveNames(Target(r)),
               archive' = [archive EXCEPT ![r][Target(r)] = n],
               pc' = [pc EXCEPT ![r] = "upload"],
               UNCHANGED <<idx, result>>
        PROVE  TypeOK' /\ Positions'
    <3>1. n \in Names
      BY DEF TypeInv, ArchiveNames, Names, Times, NoTime
    <3>2. archive' \in [Runs -> [Targets -> Names]]
      BY <2>2, <3>1 DEF TypeInv
    <3> QED BY <1>7, <2>2, <3>2, TargetType DEF TypeInv, Produce, PCs
  <2> QED BY <1>7, <2>1, <2>2 DEF Produce
<1>8. ASSUME NEW r \in Runs, Upload(r) PROVE TypeOK' /\ Positions'
  <2> DEFINE t == Target(r)
             n == archive[r][t]
  <2>1. t \in Targets
    BY <1>8, TargetType DEF Upload
  <2>2. ASSUME Put(t, n) PROVE folder' \in [Targets -> SUBSET Files]
    <3>1. CASE UNCHANGED folder
      BY <3>1 DEF TypeInv
    <3>2. ASSUME NEW m \in {clock, NoTime},
                 folder' = [folder EXCEPT ![t] = @ \cup
                   {[stamp |-> n.stamp, label |-> n.label, mod |-> m]}]
          PROVE  folder' \in [Targets -> SUBSET Files]
      <4>1. [stamp |-> n.stamp, label |-> n.label, mod |-> m] \in Files
        BY <2>1 DEF TypeInv, Names, Files, Times
      <4> QED BY <3>2, <4>1 DEF TypeInv
    <3> QED BY <2>2, <3>1, <3>2 DEF Put
  <2>3. folder' \in [Targets -> SUBSET Files]
    BY <1>8, <2>2 DEF TypeInv, Upload
  <2>4. \E res \in {"ok", "failed"} : Finish(r, res)
    BY <1>8 DEF Upload
  <2> QED BY <1>8, <2>3, <2>4, FinishTypes DEF TypeInv, Upload
<1>9. ASSUME NEW r \in Runs, StartSweep(r) PROVE TypeOK' /\ Positions'
  <2>1. CASE RetentionDays <= 0
    <3>1. pc' = [pc EXCEPT ![r] = "done"]
      BY <1>9, <2>1 DEF StartSweep, Return
    <3>2. UNCHANGED <<clock, cancelled, idx, archive, result, now, expired, folder>>
      BY <1>9, <2>1 DEF StartSweep
    <3>3. outcome' \in [Runs -> {"none", "ok", "error"}]
      BY <1>9, <2>1, ReturnTypes DEF StartSweep
    <3> QED BY <3>1, <3>2, <3>3 DEF TypeInv, PCs
  <2>2. CASE ~(RetentionDays <= 0)
    <3>1. /\ now' = [now EXCEPT ![r] = clock]
          /\ idx' = [idx EXCEPT ![r] = 1]
          /\ pc' = [pc EXCEPT ![r] = "list"]
          /\ UNCHANGED <<clock, cancelled, outcome, archive, result, expired, folder>>
      BY <1>9, <2>2 DEF StartSweep
    <3>2. Len(Enabled) > 0
      BY <1>9, EnabledTargets DEF TypeInv, StartSweep
    <3>3. TypeOK'
      BY <3>1 DEF TypeInv, PCs
    <3>4. Positions'
      BY <3>1, <3>2, EnabledTargets DEF TypeInv
    <3> QED BY <3>3, <3>4
  <2> QED BY <2>1, <2>2
<1>10. ASSUME NEW r \in Runs, SkipResult(r) PROVE TypeOK' /\ Positions'
  BY <1>10, NextResultTypes DEF TypeInv, SkipResult
<1>11. ASSUME NEW r \in Runs, List(r) PROVE TypeOK' /\ Positions'
  <2> DEFINE t == Target(r)
  <2>1. t \in Targets
    BY <1>11, TargetType DEF List
  <2>2. ASSUME NextResult(r), UNCHANGED expired PROVE TypeOK' /\ Positions'
    BY <1>11, <2>2, NextResultTypes DEF TypeInv, List
  <2>3. PICK seen \in SUBSET folder[t] :
          LET selected == SelectExpired(seen, now[r], RetentionDays)
          IN  IF selected = {}
              THEN NextResult(r) /\ UNCHANGED expired
              ELSE /\ expired' = [expired EXCEPT ![r] = {NameOf(f) : f \in selected}]
                   /\ pc' = [pc EXCEPT ![r] = "trash"]
                   /\ UNCHANGED <<idx, outcome>>
    BY <1>11 DEF List, Listings
  <2> DEFINE selected == SelectExpired(seen, now[r], RetentionDays)
  <2>4. selected \subseteq Files
    BY <2>1 DEF TypeInv, SelectExpired, Dated
  <2>5. CASE selected = {}
    BY <2>2, <2>3, <2>5
  <2>6. CASE selected # {}
    <3> DEFINE names == {NameOf(f) : f \in selected}
    <3>1. names \subseteq Names
      BY <2>4 DEF NameOf, Files, Names
    <3>2. /\ expired' = [expired EXCEPT ![r] = names]
          /\ pc' = [pc EXCEPT ![r] = "trash"]
          /\ UNCHANGED <<idx, outcome>>
      BY <2>3, <2>6
    <3> HIDE DEF names
    <3>3. expired' \in [Runs -> SUBSET Names]
      BY <3>1, <3>2 DEF TypeInv
    <3> QED BY <1>11, <3>2, <3>3, TargetType DEF TypeInv, List, PCs
  <2> QED BY <2>5, <2>6
<1>12. ASSUME NEW r \in Runs, Trash(r) PROVE TypeOK' /\ Positions'
  <2>1. folder' \in [Targets -> SUBSET Files]
    BY <1>12 DEF TypeInv, Trash
  <2> QED BY <1>12, <2>1, NextResultTypes DEF TypeInv, Trash
<1>13. CASE UNCHANGED vars
  BY <1>13 DEF TypeInv
<1> QED
  BY <1>1, <1>2, <1>3, <1>4, <1>5, <1>6, <1>7, <1>8, <1>9, <1>10, <1>11,
     <1>12, <1>13 DEF Next, RunStep

LEMMA TypeInvariant == Spec => []TypeInv
  BY TypeInit, TypeStep, PTL DEF Spec

(* Types: every variable stays in the set declared for it, and a run at     *)
(* work on a target is at a place of its list.                              *)
THEOREM TypeCorrect == Spec => []TypeOK
<1>1. TypeInv => TypeOK
  BY DEF TypeInv
<1> QED BY <1>1, TypeInvariant, PTL

-----------------------------------------------------------------------------
(* Progress of a run and what it returns. *)

LEMMA ProgressInit == Init => Progress /\ HonestOutcome
  BY EnabledTargets DEF Init, Progress, HonestOutcome

(* The end of a target, for the run at it. *)
LEMMA FinishProgress ==
  ASSUME TypeInv, Progress, NEW r \in Runs, NEW res \in {"ok", "failed"},
         Finish(r, res), pc[r] \in {"produce", "upload"}, UNCHANGED outcome
  PROVE  Progress'
<1> USE DEF TypeInv, TypeOK, Positions, Progress, Target
<1>1. /\ Target(r) \in Targets
      /\ result' = [result EXCEPT ![r][Target(r)] = res]
  BY TargetType, FinishControl
<1>2. \A i \in 1..Len(Enabled) : i # idx[r] => Enabled[i] # Target(r)
  BY ConstantsAssumption, TargetType
<1>3. \A i \in 1..Len(Enabled) : result'[r][Enabled[i]] = "none" <=> i >= idx[r] + 1
  BY <1>1, <1>2, EnabledTargets, TargetType
<1>4. CASE /\ idx[r] < Len(Enabled)
           /\ idx' = [idx EXCEPT ![r] = idx[r] + 1]
           /\ pc' = [pc EXCEPT ![r] = "produce"]
  BY <1>1, <1>3, <1>4
<1>5. CASE /\ idx[r] = Len(Enabled)
           /\ UNCHANGED idx
           /\ pc' = [pc EXCEPT ![r] = "cleanup"]
  <2>1. \A i \in 1..Len(Enabled) : result'[r][Enabled[i]] # "none"
    BY <1>3, <1>5, EnabledTargets
  <2> QED BY <1>1, <1>5, <2>1
<1> QED BY <1>4, <1>5, FinishControl

LEMMA ReturnProgress ==
  ASSUME TypeInv, Progress, HonestOutcome, NEW r \in Runs, Return(r),
         pc[r] \in {"cleanup", "list", "trash"}, UNCHANGED result
  PROVE  /\ idx' = idx => Progress'
         /\ HonestOutcome'
<1>1. pc' = [pc EXCEPT ![r] = "done"]
  BY DEF Return
<1>2. idx' = idx => Progress'
  BY <1>1 DEF TypeInv, TypeOK, Progress, Return
<1>3. Enabled # <<>>
  BY EnabledTargets DEF TypeInv, Positions
<1>4. \A i \in 1..Len(Enabled) : result[r][Enabled[i]] \in {"ok", "failed"}
  BY EnabledTargets DEF TypeInv, TypeOK, Progress
<1>5. outcome'[r] = "ok" <=> \A i \in 1..Len(Enabled) : result[r][Enabled[i]] = "ok"
  BY <1>4 DEF TypeInv, TypeOK, Return
<1>6. outcome'[r] # "none"
  BY DEF TypeInv, TypeOK, Return
<1>7. HonestOutcome'
  BY <1>1, <1>3, <1>5, <1>6 DEF TypeInv, TypeOK, HonestOutcome, Return
<1> QED BY <1>2, <1>7

LEMMA NextResultProgress ==
  ASSUME TypeInv, Progress, HonestOutcome, NEW r \in Runs, NextResult(r),
         pc[r] \in {"list", "trash"}, UNCHANGED result
  PROVE  Progress' /\ HonestOutcome'
<1>1. CASE /\ idx[r] < Len(Enabled)
           /\ idx' = [idx EXCEPT ![r] = idx[r] + 1]
           /\ pc' = [pc EXCEPT ![r] = "list"]
           /\ UNCHANGED outcome
  BY <1>1 DEF TypeInv, TypeOK, Progress, HonestOutcome
<1>2. CASE UNCHANGED idx /\ Return(r)
  BY <1>2, ReturnProgress
<1> QED BY <1>1, <1>2, NextResultControl

LEMMA ProgressStep ==
  TypeInv /\ Progress /\ HonestOutcome /\ [Next]_vars
  => Progress' /\ HonestOutcome'
<1> SUFFICES ASSUME TypeInv, Progress, HonestOutcome, [Next]_vars
             PROVE  Progress' /\ HonestOutcome'
  OBVIOUS
<1> USE DEF TypeOK, Positions
<1>1. CASE Tick
  BY <1>1 DEF TypeInv, Tick, Progress, HonestOutcome
<1>2. CASE Cancel
  BY <1>2 DEF TypeInv, Cancel, Progress, HonestOutcome
<1>3. CASE Exit
  BY <1>3 DEF TypeInv, Exit, InFlight, Progress, HonestOutcome
<1>4. ASSUME NEW r \in Runs, Start(r) PROVE Progress' /\ HonestOutcome'
  BY <1>4 DEF TypeInv, Start, Progress, HonestOutcome
<1>5. ASSUME NEW r \in Runs, Abort(r), UNCHANGED <<idx, result>>,
             pc[r] \in {"auth", "resolve"}
      PROVE  Progress' /\ HonestOutcome'
  <2>1. Progress'
    BY <1>5 DEF TypeInv, Abort, Progress
  <2>2. Enabled # <<>> => result[r][Enabled[1]] = "none"
    BY <1>5, EnabledTargets DEF TypeInv, Progress
  <2>3. ~(/\ Enabled # <<>>
          /\ \A i \in 1..Len(Enabled) : result[r][Enabled[i]] = "ok")
    BY <2>2, EnabledTargets
  <2>4. HonestOutcome'
    BY <1>5, <2>3 DEF TypeInv, Abort, HonestOutcome
  <2> QED BY <2>1, <2>4
<1>6. ASSUME NEW r \in Runs, EnsureAuth(r) PROVE Progress' /\ HonestOutcome'
  <2>1. CASE Abort(r)
    BY <1>5, <1>6, <2>1 DEF EnsureAuth
  <2>2. CASE pc' = [pc EXCEPT ![r] = "resolve"] /\ UNCHANGED outcome
    BY <1>6, <2>2 DEF TypeInv, EnsureAuth, Progress, HonestOutcome
  <2> QED BY <1>6, <2>1, <2>2 DEF EnsureAuth
<1>7. ASSUME NEW r \in Runs, ResolveTargets(r) PROVE Progress' /\ HonestOutcome'
  <2>1. CASE Abort(r)
    BY <1>5, <1>7, <2>1 DEF ResolveTargets
  <2>2. CASE pc' = [pc EXCEPT ![r] = "produce"] /\ UNCHANGED outcome
    BY <1>7, <2>2 DEF TypeInv, ResolveTargets, Progress, HonestOutcome
  <2> QED BY <1>7, <2>1, <2>2 DEF ResolveTargets
<1>8. ASSUME NEW r \in Runs, NEW res \in {"ok", "failed"}, Finish(r, res),
             pc[r] \in {"produce", "upload"}, UNCHANGED outcome
      PROVE  Progress' /\ HonestOutcome'
  <2>1. outcome[r] = "none"
    BY <1>8 DEF Progress
  <2>2. \A s \in Runs \ {r} : result'[s] = result[s] /\ pc'[s] = pc[s]
    BY <1>8, FinishControl DEF TypeInv
  <2>3. pc'[r] # "done"
    BY <1>8, FinishControl DEF TypeInv
  <2>4. HonestOutcome'
    BY <1>8, <2>1, <2>2, <2>3 DEF HonestOutcome
  <2> QED BY <1>8, <2>4, FinishProgress
<1>9. ASSUME NEW r \in Runs, Produce(r) PROVE Progress' /\ HonestOutcome'
  <2>1. CASE Finish(r, "failed")
    BY <1>8, <1>9, <2>1 DEF Produce
  <2>2. CASE pc' = [pc EXCEPT ![r] = "upload"] /\ UNCHANGED <<idx, result>>
    BY <1>9, <2>2 DEF TypeInv, Produce, Progress, HonestOutcome
  <2> QED BY <1>9, <2>1, <2>2 DEF Produce
<1>10. ASSUME NEW r \in Runs, Upload(r) PROVE Progress' /\ HonestOutcome'
  <2>1. \E res \in {"ok", "failed"} : Finish(r, res)
    BY <1>10 DEF Upload
  <2> QED BY <1>8, <1>10, <2>1 DEF Upload
<1>11. ASSUME NEW r \in Runs, StartSweep(r) PROVE Progress' /\ HonestOutcome'
  <2>1. CASE Return(r) /\ UNCHANGED idx
    BY <1>11, <2>1, ReturnProgress DEF StartSweep
  <2>2. CASE /\ idx' = [idx EXCEPT ![r] = 1]
             /\ pc' = [pc EXCEPT ![r] = "list"]
             /\ UNCHANGED outcome
    BY <1>11, <2>2 DEF TypeInv, StartSweep, Progress, HonestOutcome
  <2> QED BY <1>11, <2>1, <2>2 DEF StartSweep
<1>12. ASSUME NEW r \in Runs, SkipResult(r) PROVE Progress' /\ HonestOutcome'
  BY <1>12, NextResultProgress DEF SkipResult
<1>13. ASSUME NEW r \in Runs, List(r) PROVE Progress' /\ HonestOutcome'
  <2>1. CASE NextResult(r)
    BY <1>13, <2>1, NextResultProgress DEF List
  <2>2. CASE pc' = [pc EXCEPT ![r] = "trash"] /\ UNCHANGED <<idx, outcome>>
    BY <1>13, <2>2 DEF TypeInv, List, Progress, HonestOutcome
  <2> QED BY <1>13, <2>1, <2>2 DEF List
<1>14. ASSUME NEW r \in Runs, Trash(r) PROVE Progress' /\ HonestOutcome'
  BY <1>14, NextResultProgress DEF Trash
<1>15. CASE UNCHANGED vars
  BY <1>15 DEF Progress, HonestOutcome
<1> QED
  BY <1>1, <1>2, <1>3, <1>4, <1>6, <1>7, <1>9, <1>10, <1>11, <1>12, <1>13,
     <1>14, <1>15 DEF Next, RunStep

LEMMA ProgressInvariant == Spec => [](Progress /\ HonestOutcome)
  BY TypeInvariant, ProgressInit, ProgressStep, PTL DEF Spec

(* A run returns no error exactly when every enabled target has succeeded.  *)
THEOREM OutcomeHonest == Spec => []HonestOutcome
  BY ProgressInvariant, PTL

-----------------------------------------------------------------------------
(* How a step can change the folders, and the archives runs have made. *)

Stores(r) ==
  \E f \in Files :
    /\ pc[r] = "upload"
    /\ NameOf(f) = archive[r][Target(r)]
    /\ Named(NameOf(f), folder[Target(r)]) = {}
    /\ Target(r) \in VersionedTargets => f.mod = NoTime
    /\ folder' = [folder EXCEPT ![Target(r)] = @ \cup {f}]
    /\ UNCHANGED <<clock, now, expired, archive>>

Removes(r) ==
  \E gone \in SUBSET {f \in folder[Target(r)] : NameOf(f) \in expired[r]} :
    /\ pc[r] = "trash"
    /\ folder' = [folder EXCEPT ![Target(r)] = @ \ gone]
    /\ UNCHANGED <<clock, archive, result>>

LEMMA PutStores ==
  ASSUME TypeInv, NEW r \in Runs, pc[r] = "upload",
         Put(Target(r), archive[r][Target(r)]),
         UNCHANGED <<clock, now, expired, archive>>
  PROVE  UNCHANGED folder \/ Stores(r)
<1> DEFINE t == Target(r)
           n == archive[r][t]
<1>1. CASE Named(n, folder[t]) = {} /\ folder' # folder
  <2>1. PICK m \in Times :
          /\ folder' = [folder EXCEPT ![t] = @ \cup
                {[stamp |-> n.stamp, label |-> n.label, mod |-> m]}]
          /\ t \in VersionedTargets => m = NoTime
    <3>1. clock \in Times /\ NoTime \in Times
      BY DEF TypeInv, TypeOK, Times
    <3> QED BY <1>1, <3>1 DEF Put
  <2> DEFINE f == [stamp |-> n.stamp, label |-> n.label, mod |-> m]
  <2>2. n \in Names
    BY TargetType DEF TypeInv, TypeOK
  <2>3. f \in Files /\ NameOf(f) = n
    BY <2>2 DEF Names, Files, NameOf
  <2>4. f.mod = m
    OBVIOUS
  <2> HIDE DEF f
  <2>5. folder' = [folder EXCEPT ![t] = @ \cup {f}]
    BY <2>1 DEF f
  <2> QED BY <1>1, <2>1, <2>3, <2>4, <2>5 DEF Stores
<1>2. CASE Named(n, folder[t]) # {}
  BY <1>2 DEF Put
<1> QED BY <1>1, <1>2

LEMMA FolderStep ==
  ASSUME TypeInv, [Next]_vars
  PROVE  \/ UNCHANGED folder
         \/ \E r \in Runs : Stores(r) \/ Removes(r)
<1>1. ASSUME NEW r \in Runs, Upload(r) PROVE UNCHANGED folder \/ Stores(r)
  BY <1>1, PutStores DEF Upload
<1>2. ASSUME NEW r \in Runs, Trash(r) PROVE UNCHANGED folder \/ Removes(r)
  BY <1>2 DEF Trash, Removes
<1>3. CASE Tick
  BY <1>3 DEF Tick
<1>4. CASE Cancel
  BY <1>4 DEF Cancel
<1>5. CASE Exit
  BY <1>5 DEF Exit
<1>6. ASSUME NEW r \in Runs, Start(r) \/ EnsureAuth(r) \/ ResolveTargets(r)
      PROVE  UNCHANGED folder
  BY <1>6 DEF Start, EnsureAuth, ResolveTargets
<1>7. ASSUME NEW r \in Runs,
             Produce(r) \/ StartSweep(r) \/ SkipResult(r) \/ List(r)
      PROVE  UNCHANGED folder
  BY <1>7 DEF Produce, StartSweep, SkipResult, List
<1> QED BY <1>1, <1>2, <1>3, <1>4, <1>5, <1>6, <1>7 DEF Next, RunStep

(* An archive that a step leaves due, in a result or at an upload, was due  *)
(* before it, or is being made by it.                                       *)
Due(r, t) == result[r][t] = "ok" \/ (pc[r] = "upload" /\ Target(r) = t)

LEMMA DueStep ==
  ASSUME TypeInv, Progress, [Next]_vars, NEW r \in Runs, NEW t \in Targets, Due(r, t)'
  PROVE  \/ Due(r, t) /\ archive'[r][t] = archive[r][t]
         \/ /\ archive'[r][t] \in ArchiveNames(t)
            /\ result'[r][t] # "ok"
            /\ UNCHANGED <<clock, result, folder>>
<1> USE DEF Due, TypeInv, TypeOK, Target
<1>1. CASE Tick \/ Cancel \/ UNCHANGED vars
  BY <1>1 DEF Tick, Cancel
<1>2. CASE Exit
  BY <1>2 DEF Exit, InFlight
<1>3. ASSUME NEW s \in Runs, Start(s) \/ EnsureAuth(s) \/ ResolveTargets(s)
      PROVE  Due(r, t) /\ archive'[r][t] = archive[r][t]
  BY <1>3 DEF Start, EnsureAuth, ResolveTargets, Abort
<1>4. ASSUME NEW s \in Runs, NEW res \in {"ok", "failed"}, Finish(s, res),
             UNCHANGED archive,
             pc[s] = "upload" \/ (pc[s] = "produce" /\ res = "failed")
      PROVE  Due(r, t) /\ archive'[r][t] = archive[r][t]
  <2>1. pc[s] \in {"produce", "upload"}
    BY <1>4
  <2>2. /\ result' = [result EXCEPT ![s][Target(s)] = res]
        /\ pc' \in {[pc EXCEPT ![s] = "produce"], [pc EXCEPT ![s] = "cleanup"]}
        /\ s # r => idx'[r] = idx[r]
    BY <1>4, <2>1, FinishControl
  <2>3. CASE s = r
    BY <1>4, <2>2, <2>3
  <2>4. CASE s # r
    BY <1>4, <2>2, <2>4
  <2> QED BY <2>3, <2>4
<1>5. ASSUME NEW s \in Runs, Produce(s)
      PROVE  \/ Due(r, t) /\ archive'[r][t] = archive[r][t]
             \/ /\ archive'[r][t] \in ArchiveNames(t)
                /\ result'[r][t] # "ok"
                /\ UNCHANGED <<clock, result, folder>>
  <2>1. CASE Finish(s, "failed") /\ UNCHANGED archive
    BY <1>4, <1>5, <2>1 DEF Produce
  <2>2. ASSUME NEW n \in ArchiveNames(Target(s)),
               archive' = [archive EXCEPT ![s][Target(s)] = n],
               pc' = [pc EXCEPT ![s] = "upload"],
               UNCHANGED <<idx, result>>
        PROVE  \/ Due(r, t) /\ archive'[r][t] = archive[r][t]
               \/ /\ archive'[r][t] \in ArchiveNames(t)
                  /\ result'[r][t] # "ok"
                  /\ UNCHANGED <<clock, result, folder>>
    <3>1. CASE s = r /\ Target(s) = t
      <4>1. result[r][t] = "none"
        BY <1>5, <3>1, TargetType, EnabledTargets DEF Produce, Progress
      <4>2. archive'[r][t] = n
        BY <2>2, <3>1
      <4> QED BY <1>5, <2>2, <3>1, <4>1, <4>2 DEF Produce
    <3>2. CASE s = r /\ Target(s) # t
      BY <2>2, <3>2
    <3>3. CASE s # r
      BY <2>2, <3>3
    <3> QED BY <3>1, <3>2, <3>3
  <2> QED BY <1>5, <2>1, <2>2 DEF Produce
<1>6. ASSUME NEW s \in Runs, Upload(s)
      PROVE  Due(r, t) /\ archive'[r][t] = archive[r][t]
  <2>1. pc[s] = "upload" /\ UNCHANGED archive
    BY <1>6 DEF Upload
  <2>2. PICK res \in {"ok", "failed"} : Finish(s, res)
    BY <1>6 DEF Upload
  <2> QED BY ONLY <1>4, <2>1, <2>2
<1>7. ASSUME NEW s \in Runs, StartSweep(s)
      PROVE  Due(r, t) /\ archive'[r][t] = archive[r][t]
  BY <1>7 DEF StartSweep, Return
<1>8. ASSUME NEW s \in Runs, NextResult(s), pc[s] \in {"list", "trash"},
             UNCHANGED <<archive, result>>
      PROVE  Due(r, t) /\ archive'[r][t] = archive[r][t]
  BY <1>8, NextResultControl DEF Return
<1>9. ASSUME NEW s \in Runs, SkipResult(s) \/ List(s) \/ Trash(s)
      PROVE  Due(r, t) /\ archive'[r][t] = archive[r][t]
  <2>1. /\ pc[s] \in {"list", "trash"}
        /\ UNCHANGED <<archive, result>>
        /\ NextResult(s) \/ (pc' = [pc EXCEPT ![s] = "trash"] /\ UNCHANGED idx)
    BY <1>9 DEF SkipResult, List, Trash
  <2>2. CASE pc' = [pc EXCEPT ![s] = "trash"] /\ UNCHANGED idx
    BY <2>1, <2>2
  <2> QED BY <1>8, <2>1, <2>2
<1> QED
  BY <1>1, <1>2, <1>3, <1>5, <1>6, <1>7, <1>9 DEF Next, RunStep

(* The clock does not go back. *)
LEMMA ClockStep ==
  ASSUME TypeInv, [Next]_vars PROVE clock' \in Nat /\ clock' >= clock
<1>1. clock' \in Nat
  BY TypeStep DEF TypeInv, TypeOK
<1>2. clock' = clock \/ clock' = clock + 1
  BY DEF Next, RunStep, Tick, Cancel, Exit, Start, EnsureAuth, ResolveTargets,
         Produce, Upload, StartSweep, SkipResult, List, Trash
<1> QED BY <1>1, <1>2 DEF TypeInv, TypeOK

LEMMA NamingInit == Init => Naming
  BY InitialNamesAssumption DEF Init, Naming, VersionedTargets

LEMMA NamingStep ==
  TypeInv /\ Progress /\ Naming /\ [Next]_vars => Naming'
<1> SUFFICES ASSUME TypeInv, Progress, Naming, [Next]_vars PROVE Naming'
  OBVIOUS
<1>1. ASSUME NEW t \in Targets, NEW f \in folder'[t], NEW g \in folder'[t],
             NameOf(f) = NameOf(g)
      PROVE  f = g
  <2>1. CASE UNCHANGED folder
    BY <1>1, <2>1 DEF Naming
  <2>2. ASSUME NEW r \in Runs, Stores(r) PROVE f = g
    <3>1. Target(r) \in Targets
      BY <2>2, TargetType DEF Stores
    <3> QED BY <1>1, <2>2, <3>1 DEF Naming, Stores, Named, TypeInv, TypeOK
  <2>3. ASSUME NEW r \in Runs, Removes(r) PROVE f = g
    BY <1>1, <2>3 DEF Naming, Removes, TypeInv, TypeOK
  <2> QED BY <2>1, <2>2, <2>3, FolderStep
<1>2. clock' >= clock /\ clock \in Nat /\ clock' \in Nat
  BY ClockStep DEF TypeInv, TypeOK
<1>3. ASSUME NEW r \in Runs, NEW t \in VersionedTargets, Due(r, t)'
      PROVE  archive'[r][t] \in [stamp : 0..clock', label : {"backup"}]
  <2>1. t \in Targets
    BY DEF VersionedTargets
  <2>2. CASE Due(r, t) /\ archive'[r][t] = archive[r][t]
    <3>1. archive[r][t] \in [stamp : 0..clock, label : {"backup"}]
      BY <2>2 DEF Naming, Due
    <3> QED BY <1>2, <2>2, <3>1
  <2>3. CASE archive'[r][t] \in ArchiveNames(t) /\ UNCHANGED clock
    BY <1>2, <2>3 DEF ArchiveNames
  <2> QED BY <1>3, <2>1, <2>2, <2>3, DueStep
<1> QED BY <1>1, <1>3 DEF Naming, Due, Target, VersionedTargets

LEMMA NamingInvariant == Spec => []Naming
<1>1. TypeInv /\ Progress /\ Naming /\ [Next]_vars => Naming'
  BY NamingStep
<1> QED BY <1>1, TypeInvariant, ProgressInvariant, NamingInit, PTL DEF Spec

-----------------------------------------------------------------------------
(* What a sweep knows. *)

(* A run about to trash either has just listed the folder or keeps what it  *)
(* knew.                                                                    *)
LEMMA TrashControl ==
  ASSUME TypeInv, [Next]_vars, NEW r \in Runs, pc'[r] = "trash"
  PROVE  \/ List(r)
         \/ /\ pc[r] = "trash"
            /\ expired'[r] = expired[r] /\ now'[r] = now[r]
            /\ idx'[r] = idx[r] /\ result'[r] = result[r]
<1> USE DEF TypeInv, TypeOK
<1> DEFINE Same == /\ pc[r] = "trash"
                   /\ expired'[r] = expired[r] /\ now'[r] = now[r]
                   /\ idx'[r] = idx[r] /\ result'[r] = result[r]
<1>1. CASE Tick \/ Cancel \/ Exit \/ UNCHANGED vars
  BY <1>1 DEF Tick, Cancel, Exit, InFlight
<1>2. ASSUME NEW s \in Runs, Start(s) \/ EnsureAuth(s) \/ ResolveTargets(s)
      PROVE  Same
  BY <1>2 DEF Start, EnsureAuth, ResolveTargets, Abort
<1>3. ASSUME NEW s \in Runs, Produce(s) \/ Upload(s) PROVE Same
  BY <1>3 DEF Produce, Upload, Finish
<1>4. ASSUME NEW s \in Runs, StartSweep(s) PROVE Same
  BY <1>4 DEF StartSweep, Return
<1>5. ASSUME NEW s \in Runs, SkipResult(s) PROVE Same
  BY <1>5 DEF SkipResult, NextResult, Return
<1>6. ASSUME NEW s \in Runs, List(s) PROVE Same \/ List(r)
  <2>1. CASE s = r
    BY <1>6, <2>1
  <2>2. CASE s # r
    BY <1>6, <2>2 DEF List, NextResult, Return
  <2> QED BY <2>1, <2>2
<1>7. ASSUME NEW s \in Runs, Trash(s) PROVE Same
  BY <1>7 DEF Trash, NextResult, Return
<1> QED BY <1>1, <1>2, <1>3, <1>4, <1>5, <1>6, <1>7 DEF Next, RunStep

(* The time of a sweep is read once, and only when retention is on. *)
LEMMA NowControl ==
  ASSUME TypeInv, [Next]_vars, NEW r \in Runs
  PROVE  /\ now'[r] \in {now[r], clock}
         /\ pc'[r] \in {"list", "trash"} =>
              pc[r] \in {"list", "trash"} \/ RetentionDays > 0
<1> USE DEF TypeInv, TypeOK
<1>1. CASE Tick \/ Cancel \/ Exit \/ UNCHANGED vars
  BY <1>1 DEF Tick, Cancel, Exit, InFlight
<1>2. ASSUME NEW s \in Runs, Start(s) \/ EnsureAuth(s) \/ ResolveTargets(s)
      PROVE  now' = now /\ (pc'[r] \in {"list", "trash"} => pc[r] = pc'[r])
  BY <1>2 DEF Start, EnsureAuth, ResolveTargets, Abort
<1>3. ASSUME NEW s \in Runs, Produce(s) \/ Upload(s)
      PROVE  now' = now /\ (pc'[r] \in {"list", "trash"} => pc[r] = pc'[r])
  BY <1>3 DEF Produce, Upload, Finish
<1>4. ASSUME NEW s \in Runs, StartSweep(s)
      PROVE  /\ now'[r] \in {now[r], clock}
             /\ pc'[r] \in {"list", "trash"} =>
                  pc[r] \in {"list", "trash"} \/ RetentionDays > 0
  BY <1>4, ConstantsAssumption DEF StartSweep, Return
<1>5. ASSUME NEW s \in Runs, SkipResult(s) \/ List(s) \/ Trash(s)
      PROVE  /\ now' = now
             /\ pc'[r] \in {"list", "trash"} => pc[r] \in {"list", "trash"}
  BY <1>5 DEF SkipResult, List, Trash, NextResult, Return
<1> QED BY <1>1, <1>2, <1>3, <1>4, <1>5 DEF Next, RunStep

(* What the sweep of r knows about the folder of t. *)
Informed(r, t) ==
  /\ \A n \in expired[r] : n.stamp # NoTime => n.stamp < now[r] - RetentionDays
  /\ \A f \in folder[t] : NameOf(f) \in expired[r] =>
       /\ BackupTime(f) # NoTime
       /\ BackupTime(f) < now[r] - RetentionDays
  /\ Within(folder[t], now[r] - RetentionDays) # {}

(* A listing of the folder informs the run about it. *)
LEMMA ListInforms ==
  ASSUME TypeInv, Naming, NEW r \in Runs, List(r), pc'[r] = "trash"
  PROVE  /\ result'[r][Target(r)'] = "ok"
         /\ Informed(r, Target(r))'
<1> DEFINE t == Target(r)
<1>1. t \in Targets /\ Target(r)' = t
  <2>1. idx'[r] = idx[r]
    BY NextResultControl DEF TypeInv, TypeOK, List, Return
  <2> QED BY <2>1, TargetType DEF List, Target
<1>2. PICK seen \in SUBSET folder[t] :
        LET selected == SelectExpired(seen, now[r], RetentionDays)
        IN  IF selected = {}
            THEN NextResult(r) /\ UNCHANGED expired
            ELSE /\ expired' = [expired EXCEPT ![r] = {NameOf(f) : f \in selected}]
                 /\ pc' = [pc EXCEPT ![r] = "trash"]
                 /\ UNCHANGED <<idx, outcome>>
  BY DEF List, Listings
<1> DEFINE selected == SelectExpired(seen, now[r], RetentionDays)
           cutoff == now[r] - RetentionDays
<1>3. selected # {}
  BY <1>2 DEF TypeInv, TypeOK, NextResult, Return, List
<1>4. expired'[r] = {NameOf(f) : f \in selected}
  BY <1>2, <1>3 DEF TypeInv, TypeOK
<1>5. /\ Within(seen, cutoff) # {}
      /\ selected = Dated(seen) \ Within(seen, cutoff)
  BY <1>3 DEF SelectExpired
<1>6. \A f \in folder[t] :
        /\ f.stamp \in Int /\ f.mod \in Int
        /\ BackupTime(f) \in Int
  BY <1>1 DEF TypeInv, TypeOK, Files, Times, NoTime, BackupTime
<1>7. cutoff \in Int
  BY ConstantsAssumption DEF TypeInv, TypeOK
<1>8. \A f \in selected : /\ f \in folder[t]
                          /\ BackupTime(f) # NoTime
                          /\ BackupTime(f) < cutoff
  BY <1>5, <1>6, <1>7 DEF Dated, Within
<1>9. UNCHANGED <<now, folder, result>>
  BY DEF List
<1>10. \A n \in expired'[r] : n.stamp # NoTime => n.stamp < cutoff
  BY <1>4, <1>8 DEF NameOf, BackupTime, Versioned
<1>11. \A f \in folder[t] : NameOf(f) \in expired'[r] =>
         BackupTime(f) # NoTime /\ BackupTime(f) < cutoff
  <2>1. \A f \in folder[t] : NameOf(f) \in expired'[r] => f \in selected
    BY <1>1, <1>4, <1>8 DEF Naming
  <2> QED BY <2>1, <1>8
<1>12. Within(folder[t], cutoff) # {}
  BY <1>5 DEF Within, Dated
<1> QED BY <1>1, <1>9, <1>10, <1>11, <1>12 DEF Informed, List

(* The files of a folder carry times that can be compared. *)
LEMMA FileTimes ==
  ASSUME TypeInv, NEW t \in Targets, NEW f \in folder[t]
  PROVE  /\ f.stamp \in Int /\ f.mod \in Int /\ BackupTime(f) \in Int
         /\ NoTime \in Int
         /\ f.stamp # NoTime => BackupTime(f) = f.stamp
  BY DEF TypeInv, TypeOK, Files, Times, NoTime, BackupTime, Versioned

LEMMA Cutoffs ==
  ASSUME TypeInv, NEW r \in Runs PROVE now[r] - RetentionDays \in Int
  BY ConstantsAssumption DEF TypeInv, TypeOK

(* What an informed run may trash leaves the newest files in place. *)
LEMMA SafeToTrash ==
  ASSUME TypeInv, NEW r \in Runs, NEW t \in Targets, Informed(r, t),
         NEW gone \in SUBSET {f \in folder[t] : NameOf(f) \in expired[r]}
  PROVE  /\ \A f \in gone : /\ BackupTime(f) # NoTime
                            /\ BackupTime(f) < now[r] - RetentionDays
         /\ \E g \in Dated(folder[t]) \ gone :
              BackupTime(g) >= now[r] - RetentionDays
<1>1. \A f \in gone : /\ BackupTime(f) # NoTime
                      /\ BackupTime(f) < now[r] - RetentionDays
  BY DEF Informed
<1>2. PICK g \in Within(folder[t], now[r] - RetentionDays) : TRUE
  BY DEF Informed
<1>3. g \in Dated(folder[t]) /\ BackupTime(g) >= now[r] - RetentionDays
  BY <1>2 DEF Within
<1>4. g \notin gone
  BY <1>1, <1>3, FileTimes, Cutoffs DEF Dated
<1> QED BY <1>1, <1>3, <1>4

LEMMA InformedStays ==
  ASSUME TypeInv, Naming, Sweeping, [Next]_vars,
         NEW r \in Runs, NEW t \in VersionedTargets, Informed(r, t),
         now'[r] = now[r], expired'[r] = expired[r]
  PROVE  Informed(r, t)'
<1> DEFINE cutoff == now[r] - RetentionDays
<1>1. t \in Targets
  BY DEF VersionedTargets
<1>2. CASE UNCHANGED folder
  BY <1>2 DEF Informed
<1>3. ASSUME NEW s \in Runs, Stores(s) PROVE Informed(r, t)'
  <2>1. CASE Target(s) # t
    <3>1. folder'[t] = folder[t]
      BY <1>1, <1>3, <2>1 DEF Stores, TypeInv, TypeOK
    <3> QED BY <3>1 DEF Informed
  <2>2. CASE Target(s) = t
    <3>1. PICK f \in Files : /\ pc[s] = "upload"
                             /\ NameOf(f) = archive[s][t]
                             /\ folder'[t] = folder[t] \cup {f}
      BY <1>1, <1>3, <2>2 DEF Stores, TypeInv, TypeOK
    <3>2. archive[s][t] \in [stamp : 0..clock, label : {"backup"}]
      BY <2>2, <3>1 DEF Naming
    <3>3. f.stamp # NoTime /\ BackupTime(f) = f.stamp
      BY <3>1, <3>2 DEF NameOf, NoTime, BackupTime, Versioned
    <3>4. NameOf(f) \in expired[r] => f.stamp < cutoff
      BY <3>3 DEF Informed, NameOf
    <3>5. Within(folder[t], cutoff) \subseteq Within(folder'[t], cutoff)
      BY <3>1 DEF Within, Dated
    <3> QED BY <3>1, <3>3, <3>4, <3>5 DEF Informed
  <2> QED BY <2>1, <2>2
<1>4. ASSUME NEW s \in Runs, Removes(s) PROVE Informed(r, t)'
  <2>1. CASE Target(s) # t
    <3>1. folder'[t] = folder[t]
      BY <1>1, <1>4, <2>1 DEF Removes, TypeInv, TypeOK
    <3> QED BY <3>1 DEF Informed
  <2>2. CASE Target(s) = t
    <3>1. PICK gone \in SUBSET {f \in folder[t] : NameOf(f) \in expired[s]} :
            folder'[t] = folder[t] \ gone
      BY <1>1, <1>4, <2>2 DEF Removes, TypeInv, TypeOK
    <3>2. Informed(s, t)
      BY <1>4, <2>2 DEF Removes, Sweeping, Informed
    <3>3. PICK g \in Dated(folder[t]) \ gone :
            BackupTime(g) >= now[s] - RetentionDays
      BY <1>1, <3>2, SafeToTrash
    <3>4. PICK w \in Within(folder[t], cutoff) : TRUE
      BY DEF Informed
    <3>5. w \in Dated(folder[t]) /\ BackupTime(w) >= cutoff
      BY <3>4 DEF Within
    <3>6. w \in gone => BackupTime(w) < now[s] - RetentionDays
      BY <1>1, <3>2, SafeToTrash
    <3>7. \E h \in Dated(folder[t]) \ gone : BackupTime(h) >= cutoff
      <4>1. CASE w \notin gone
        BY <3>5, <4>1
      <4>2. CASE w \in gone
        <5>1. BackupTime(w) \in Int /\ BackupTime(g) \in Int
          BY <1>1, <3>3, <3>5, FileTimes DEF Dated
        <5>2. BackupTime(g) >= cutoff
          BY <3>3, <3>5, <3>6, <4>2, <5>1, Cutoffs
        <5> QED BY <3>3, <5>2
      <4> QED BY <4>1, <4>2
    <3>8. Within(folder'[t], cutoff) # {}
      BY <3>1, <3>7 DEF Within, Dated
    <3> QED BY <3>1, <3>8 DEF Informed
  <2> QED BY <2>1, <2>2
<1> QED BY <1>2, <1>3, <1>4, FolderStep

LEMMA SweepingInit == Init => Sweeping
  BY DEF Init, Sweeping

LEMMA SweepingStep ==
  TypeInv /\ Naming /\ Sweeping /\ [Next]_vars => Sweeping'
<1> SUFFICES ASSUME TypeInv, Naming, Sweeping, [Next]_vars PROVE Sweeping'
  OBVIOUS
<1> SUFFICES ASSUME NEW r \in Runs
             PROVE  /\ now'[r] <= clock'
                    /\ pc'[r] \in {"list", "trash"} => RetentionDays > 0
                    /\ pc'[r] = "trash" => result'[r][Target(r)'] = "ok"
                    /\ pc'[r] = "trash" /\ Target(r)' \in VersionedTargets =>
                         Informed(r, Target(r))'
  BY DEF Sweeping, Informed, VersionedTargets
<1>1. now'[r] <= clock'
  <2>1. clock' \in Nat /\ clock' >= clock
    BY ClockStep
  <2>2. now'[r] = now[r] \/ now'[r] = clock
    BY NowControl
  <2>3. now[r] \in Int /\ clock \in Nat /\ now[r] <= clock
    BY DEF Sweeping, TypeInv, TypeOK
  <2> QED BY <2>1, <2>2, <2>3
<1>2. pc'[r] \in {"list", "trash"} => RetentionDays > 0
  BY NowControl DEF Sweeping
<1>3. ASSUME pc'[r] = "trash"
      PROVE  /\ result'[r][Target(r)'] = "ok"
             /\ Target(r)' \in VersionedTargets => Informed(r, Target(r))'
  <2>1. CASE List(r)
    BY <1>3, <2>1, ListInforms
  <2>2. CASE /\ pc[r] = "trash"
             /\ expired'[r] = expired[r] /\ now'[r] = now[r]
             /\ idx'[r] = idx[r] /\ result'[r] = result[r]
    <3>1. Target(r)' = Target(r)
      BY <2>2 DEF Target
    <3>2. ASSUME NEW t \in VersionedTargets, Target(r) = t
          PROVE  Informed(r, Target(r))'
      <4>1. Informed(r, t)
        BY <2>2, <3>2 DEF Sweeping, Informed
      <4>2. Informed(r, t)'
        BY <2>2, <4>1, InformedStays
      <4> QED BY <3>1, <3>2, <4>2 DEF Informed
    <3> QED BY <2>2, <3>1, <3>2 DEF Sweeping
  <2> QED BY <1>3, <2>1, <2>2, TrashControl
<1> QED BY <1>1, <1>2, <1>3

LEMMA SweepingInvariant == Spec => []Sweeping
  BY TypeInvariant, NamingInvariant, SweepingInit, SweepingStep, PTL DEF Spec

-----------------------------------------------------------------------------
(* The properties of the folders. *)

LEMMA RemovesSafely ==
  ASSUME TypeInv, Sweeping, NEW r \in Runs, Removes(r),
         NEW t \in VersionedTargets, folder'[t] # folder[t]
  PROVE  /\ \A f \in folder[t] \ folder'[t] :
              /\ BackupTime(f) # NoTime
              /\ BackupTime(f) < now[r] - RetentionDays
         /\ \E g \in Dated(folder[t]) \cap folder'[t] :
              BackupTime(g) >= now[r] - RetentionDays
         /\ folder'[t] \subseteq folder[t]
         /\ result[r][t] = "ok"
         /\ folder' = [folder EXCEPT ![t] = folder'[t]]
<1>1. t \in Targets
  BY DEF VersionedTargets
<1>2. PICK gone \in SUBSET {f \in folder[Target(r)] : NameOf(f) \in expired[r]} :
        /\ pc[r] = "trash"
        /\ folder' = [folder EXCEPT ![Target(r)] = @ \ gone]
  BY DEF Removes
<1>3. Target(r) = t
  BY <1>1, <1>2 DEF TypeInv, TypeOK
<1>4. Informed(r, t)
  BY <1>2, <1>3 DEF Sweeping, Informed
<1>5. folder'[t] = folder[t] \ gone
  BY <1>1, <1>2, <1>3 DEF TypeInv, TypeOK
<1>6. gone \in SUBSET {f \in folder[t] : NameOf(f) \in expired[r]}
  BY <1>3
<1>7. /\ \A f \in gone : /\ BackupTime(f) # NoTime
                         /\ BackupTime(f) < now[r] - RetentionDays
      /\ \E g \in Dated(folder[t]) \ gone :
           BackupTime(g) >= now[r] - RetentionDays
  BY <1>1, <1>4, <1>6, SafeToTrash
<1>8. result[r][t] = "ok"
  BY <1>2, <1>3 DEF Sweeping
<1>9. folder' = [folder EXCEPT ![t] = folder'[t]]
  BY <1>1, <1>2, <1>3 DEF TypeInv, TypeOK
<1> QED BY <1>5, <1>7, <1>8, <1>9 DEF Dated

LEMMA StoresGrow ==
  ASSUME TypeInv, NEW r \in Runs, Stores(r), NEW t \in Targets
  PROVE  folder[t] \subseteq folder'[t]
  BY DEF Stores, TypeInv, TypeOK

(* The newest dated file of a folder of versioned archives is never         *)
(* trashed, however runs overlap and however old the listings are they act  *)
(* on.                                                                      *)
THEOREM NewestIsKept == Spec => NewestKept
<1>1. ASSUME TypeInv, Sweeping, [Next]_vars
      PROVE  [\A t \in VersionedTargets : NewerStays(t)]_vars
  <2> SUFFICES ASSUME NEW t \in VersionedTargets PROVE NewerStays(t)
    OBVIOUS
  <2>1. t \in Targets
    BY DEF VersionedTargets
  <2>2. CASE UNCHANGED folder
    BY <2>2 DEF NewerStays, Dated
  <2>3. ASSUME NEW r \in Runs, Stores(r) PROVE NewerStays(t)
    BY <1>1, <2>1, <2>3, StoresGrow DEF NewerStays, Dated
  <2>4. ASSUME NEW r \in Runs, Removes(r) PROVE NewerStays(t)
    <3>1. CASE folder'[t] = folder[t]
      BY <3>1 DEF NewerStays, Dated
    <3>2. CASE folder'[t] # folder[t]
      <4>1. PICK g \in Dated(folder[t]) \cap folder'[t] :
              BackupTime(g) >= now[r] - RetentionDays
        BY <1>1, <2>4, <3>2, RemovesSafely
      <4>2. ASSUME NEW f \in Dated(folder[t]) \ folder'[t]
            PROVE  BackupTime(g) > BackupTime(f)
        <5>1. BackupTime(f) < now[r] - RetentionDays
          BY <1>1, <2>4, <3>2, RemovesSafely DEF Dated
        <5>2. BackupTime(f) \in Int /\ BackupTime(g) \in Int
          BY <1>1, <2>1, <4>1, FileTimes DEF Dated
        <5> QED BY <1>1, <4>1, <5>1, <5>2, Cutoffs
      <4> QED BY <4>1, <4>2 DEF NewerStays
    <3> QED BY <3>1, <3>2
  <2> QED BY <1>1, <2>2, <2>3, <2>4, FolderStep
<1> QED BY <1>1, TypeInvariant, SweepingInvariant, PTL DEF Spec, NewestKept

(* What leaves a folder of versioned archives is out of the retention       *)
(* window at that moment.                                                   *)
THEOREM OnlyExpiredTrashed == Spec => TrashOnlyExpired
<1>1. ASSUME TypeInv, Sweeping, [Next]_vars
      PROVE  [\A t \in VersionedTargets : OnlyOldLeaves(t)]_vars
  <2> SUFFICES ASSUME NEW t \in VersionedTargets PROVE OnlyOldLeaves(t)
    OBVIOUS
  <2>1. t \in Targets
    BY DEF VersionedTargets
  <2>2. CASE UNCHANGED folder
    BY <2>2 DEF OnlyOldLeaves
  <2>3. ASSUME NEW r \in Runs, Stores(r) PROVE OnlyOldLeaves(t)
    BY <1>1, <2>1, <2>3, StoresGrow DEF OnlyOldLeaves
  <2>4. ASSUME NEW r \in Runs, Removes(r), NEW f \in folder[t] \ folder'[t]
        PROVE  /\ BackupTime(f) # NoTime
               /\ BackupTime(f) < clock - RetentionDays
    <3>1. /\ BackupTime(f) # NoTime
          /\ BackupTime(f) < now[r] - RetentionDays
      BY <1>1, <2>4, RemovesSafely
    <3>2. now[r] \in Nat /\ clock \in Nat /\ now[r] <= clock
      BY <1>1 DEF TypeInv, TypeOK, Sweeping
    <3>3. BackupTime(f) \in Int
      BY <1>1, <2>1, FileTimes
    <3> QED BY <3>1, <3>2, <3>3, ConstantsAssumption
  <2> QED BY <1>1, <2>2, <2>3, <2>4, FolderStep DEF OnlyOldLeaves
<1> QED BY <1>1, TypeInvariant, SweepingInvariant, PTL DEF Spec, TrashOnlyExpired

-----------------------------------------------------------------------------
(* The properties that relate results and folders. *)

(* A result turns ok only at the end of an upload, and stays. *)
LEMMA ResultStep ==
  ASSUME TypeInv, Progress, [Next]_vars, NEW r \in Runs, NEW t \in Targets
  PROVE  /\ result[r][t] = "ok" => result'[r][t] = "ok"
         /\ result'[r][t] = "ok" => \/ result[r][t] = "ok"
                                   \/ /\ Put(t, archive[r][t])
                                      /\ UNCHANGED archive
<1> USE DEF TypeInv, TypeOK
<1>1. CASE Tick \/ Cancel \/ Exit \/ UNCHANGED vars
  BY <1>1 DEF Tick, Cancel, Exit
<1>2. ASSUME NEW s \in Runs,
             Start(s) \/ EnsureAuth(s) \/ ResolveTargets(s) \/ StartSweep(s)
      PROVE  result' = result
  BY <1>2 DEF Start, EnsureAuth, ResolveTargets, StartSweep
<1>3. ASSUME NEW s \in Runs, SkipResult(s) \/ List(s) \/ Trash(s)
      PROVE  result' = result
  BY <1>3 DEF SkipResult, List, Trash
<1>4. ASSUME NEW s \in Runs, pc[s] \in {"produce", "upload"}
      PROVE  result[s][Target(s)] = "none"
  BY <1>4, TargetType, EnabledTargets DEF Progress, Target
<1>5. ASSUME NEW s \in Runs, NEW res \in {"ok", "failed"}, Finish(s, res),
             pc[s] \in {"produce", "upload"}
      PROVE  /\ result[r][t] = "ok" => result'[r][t] = "ok"
             /\ result'[r][t] = "ok" =>
                  \/ result[r][t] = "ok"
                  \/ s = r /\ t = Target(r) /\ res = "ok"
  <2>1. result' = [result EXCEPT ![s][Target(s)] = res]
    BY <1>5, FinishControl
  <2>2. CASE s = r /\ t = Target(s)
    BY <1>4, <1>5, <2>1, <2>2
  <2>3. CASE ~(s = r /\ t = Target(s))
    BY <2>1, <2>3
  <2> QED BY <2>2, <2>3
<1>6. ASSUME NEW s \in Runs, Produce(s)
      PROVE  /\ result[r][t] = "ok" => result'[r][t] = "ok"
             /\ result'[r][t] = "ok" => result[r][t] = "ok"
  <2>1. CASE Finish(s, "failed")
    BY <1>5, <1>6, <2>1 DEF Produce
  <2>2. CASE UNCHANGED result
    BY <2>2
  <2> QED BY <1>6, <2>1, <2>2 DEF Produce
<1>7. ASSUME NEW s \in Runs, Upload(s)
      PROVE  /\ result[r][t] = "ok" => result'[r][t] = "ok"
             /\ result'[r][t] = "ok" => \/ result[r][t] = "ok"
                                       \/ /\ Put(t, archive[r][t])
                                          /\ UNCHANGED archive
  <2>1. pc[s] = "upload" /\ UNCHANGED archive
    BY <1>7 DEF Upload
  <2>2. CASE Put(Target(s), archive[s][Target(s)]) /\ Finish(s, "ok")
    BY <1>5, <2>1, <2>2
  <2>3. CASE Finish(s, "failed")
    BY <1>5, <2>1, <2>3
  <2> QED BY <1>7, <2>2, <2>3 DEF Upload
<1> QED BY <1>1, <1>2, <1>3, <1>6, <1>7 DEF Next, RunStep

(* A reported archive stays in the folder through a step, while it is       *)
(* inside the window.                                                       *)
LEMMA ReportedStep ==
  ASSUME TypeInv, Progress, Naming, Sweeping, ReportedBackupKept, [Next]_vars
  PROVE  ReportedBackupKept'
<1> SUFFICES ASSUME NEW r \in Runs, NEW t \in VersionedTargets,
                    result'[r][t] = "ok",
                    \/ RetentionDays <= 0
                    \/ archive'[r][t].stamp >= clock' - RetentionDays
             PROVE  Named(archive'[r][t], folder'[t]) # {}
  BY DEF ReportedBackupKept, VersionedTargets
<1>1. t \in Targets
  BY DEF VersionedTargets
<1>2. archive'[r][t] = archive[r][t]
  BY <1>1, DueStep DEF Due
<1>3. CASE Put(t, archive[r][t])
  <2> DEFINE n == archive[r][t]
  <2>1. CASE Named(n, folder[t]) # {}
    BY <1>2, <1>3, <2>1 DEF Put
  <2>2. CASE Named(n, folder[t]) = {}
    <3>1. PICK m \in {NoTime, clock} :
            folder' = [folder EXCEPT ![t] = @ \cup
              {[stamp |-> n.stamp, label |-> n.label, mod |-> m]}]
      BY <1>3, <2>2 DEF Put
    <3> DEFINE f == [stamp |-> n.stamp, label |-> n.label, mod |-> m]
    <3>2. f \in folder'[t]
      BY <1>1, <3>1 DEF TypeInv, TypeOK
    <3>3. n \in Names
      BY <1>1 DEF TypeInv, TypeOK
    <3>4. NameOf(f) = n
      BY <3>3 DEF Names, NameOf
    <3> QED BY <1>2, <3>2, <3>4 DEF Named
  <2> QED BY <2>1, <2>2
<1>4. CASE result[r][t] = "ok"
  <2>1. clock' \in Nat /\ clock \in Nat /\ clock' >= clock
    BY ClockStep DEF TypeInv, TypeOK
  <2>2. archive[r][t] \in [stamp : 0..clock, label : {"backup"}]
    BY <1>4 DEF Naming
  <2>3. RetentionDays <= 0 \/ archive[r][t].stamp >= clock - RetentionDays
    BY <1>2, <2>1, <2>2, ConstantsAssumption
  <2>4. PICK f \in folder[t] : NameOf(f) = archive[r][t]
    BY <1>4, <2>3 DEF ReportedBackupKept, Named
  <2>5. f.stamp = archive[r][t].stamp /\ f.stamp # NoTime
    BY <2>2, <2>4 DEF NameOf, NoTime
  <2>6. f \in folder'[t]
    <3>1. ASSUME NEW s \in Runs, Stores(s) PROVE f \in folder'[t]
      BY <1>1, <2>4, <3>1, StoresGrow
    <3>2. ASSUME NEW s \in Runs, Removes(s), f \notin folder'[t] PROVE FALSE
      <4>1. BackupTime(f) < now[s] - RetentionDays
        BY <2>4, <3>2, RemovesSafely
      <4>2. RetentionDays > 0 /\ now[s] <= clock /\ now[s] \in Nat
        BY <3>2 DEF Removes, Sweeping, TypeInv, TypeOK
      <4>3. BackupTime(f) = f.stamp /\ f.stamp \in Int
        BY <1>1, <2>4, <2>5, FileTimes
      <4> QED BY <2>1, <2>3, <2>5, <4>1, <4>2, <4>3, ConstantsAssumption
    <3> QED BY <2>4, <3>1, <3>2, FolderStep
  <2> QED BY <1>2, <2>4, <2>6 DEF Named
<1> QED BY <1>1, <1>3, <1>4, ResultStep

(* A result without error means the archive is in the folder for as long    *)
(* as it is inside the retention window, whatever other runs do.            *)
THEOREM ReportedIsKept == Spec => []ReportedBackupKept
<1>1. Init => ReportedBackupKept
  BY DEF Init, ReportedBackupKept, VersionedTargets
<1>2. /\ TypeInv /\ Progress /\ Naming /\ Sweeping /\ ReportedBackupKept
      /\ [Next]_vars
      => ReportedBackupKept'
  BY ReportedStep
<1> QED
  BY <1>1, <1>2, TypeInvariant, ProgressInvariant, NamingInvariant,
     SweepingInvariant, PTL DEF Spec

LEMMA UntouchedStep ==
  ASSUME TypeInv, Progress, Sweeping, FailedTargetUntouched, [Next]_vars
  PROVE  FailedTargetUntouched'
<1> SUFFICES ASSUME NEW t \in Targets, \A r \in Runs : result'[r][t] # "ok"
             PROVE  InitialFiles[t] \subseteq folder'[t]
  BY DEF FailedTargetUntouched
<1>1. \A r \in Runs : result[r][t] # "ok"
  BY ResultStep
<1>2. InitialFiles[t] \subseteq folder[t]
  BY <1>1 DEF FailedTargetUntouched
<1>3. ASSUME NEW r \in Runs, Stores(r) PROVE folder[t] \subseteq folder'[t]
  BY <1>3, StoresGrow
<1>4. ASSUME NEW r \in Runs, Removes(r) PROVE folder'[t] = folder[t]
  <2>1. Target(r) # t
    BY <1>1, <1>4 DEF Removes, Sweeping
  <2> QED BY <1>4, <2>1 DEF Removes, TypeInv, TypeOK
<1> QED BY <1>2, <1>3, <1>4, FolderStep

(* As long as no run has succeeded for a target, nothing leaves its folder. *)
THEOREM FailedIsUntouched == Spec => []FailedTargetUntouched
<1>1. Init => FailedTargetUntouched
  BY DEF Init, FailedTargetUntouched
<1>2. /\ TypeInv /\ Progress /\ Sweeping /\ FailedTargetUntouched
      /\ [Next]_vars
      => FailedTargetUntouched'
  BY UntouchedStep
<1> QED
  BY <1>1, <1>2, TypeInvariant, ProgressInvariant, SweepingInvariant, PTL DEF Spec

-----------------------------------------------------------------------------
(* The folders of versioned archives implement the abstract store. *)

LEMMA StoreInit == Init => Store!Init
  BY DEF Init, Store!Init

LEMMA StoreStep ==
  TypeInv /\ Naming /\ Sweeping /\ [Next]_vars => [Store!Next]_Store!vars
<1> SUFFICES ASSUME TypeInv, Naming, Sweeping, [Next]_vars
             PROVE  [Store!Next]_Store!vars
  OBVIOUS
<1> DEFINE files == [t \in VersionedTargets |-> folder[t]]
<1> USE DEF TypeInv, TypeOK
<1>1. \A t \in VersionedTargets : t \in Targets
  BY DEF VersionedTargets
<1>2. CASE UNCHANGED folder
  <2>1. clock' = clock \/ clock' = clock + 1
    BY DEF Next, RunStep, Tick, Cancel, Exit, Start, EnsureAuth, ResolveTargets,
           Produce, Upload, StartSweep, SkipResult, List, Trash
  <2>2. UNCHANGED files
    BY <1>2
  <2> QED BY <2>1, <2>2 DEF Store!Next, Store!Tick, Store!vars
<1>3. ASSUME NEW r \in Runs, Stores(r) PROVE [Store!Next]_Store!vars
  <2>1. PICK f \in Files :
          /\ pc[r] = "upload"
          /\ NameOf(f) = archive[r][Target(r)]
          /\ Named(NameOf(f), folder[Target(r)]) = {}
          /\ Target(r) \in VersionedTargets => f.mod = NoTime
          /\ folder' = [folder EXCEPT ![Target(r)] = @ \cup {f}]
          /\ UNCHANGED clock
    BY <1>3 DEF Stores
  <2>2. CASE Target(r) \notin VersionedTargets
    <3>1. UNCHANGED files
      BY <1>1, <2>1, <2>2
    <3> QED BY <2>1, <3>1 DEF Store!vars
  <2>3. ASSUME NEW t \in VersionedTargets, t = Target(r)
        PROVE  Store!Store(t)
    <3>1. archive[r][t] \in [stamp : 0..clock, label : {"backup"}]
      BY <2>1, <2>3 DEF Naming
    <3>2. f \in [stamp : 0..clock, label : {"backup"}, mod : {NoTime}]
      BY <2>1, <2>3, <3>1 DEF NameOf, Files
    <3>3. files' = [files EXCEPT ![t] = @ \cup {f}]
      BY <1>1, <2>1, <2>3
    <3>4. files[t] = folder[t]
      BY <2>3
    <3> QED BY <2>1, <2>3, <3>2, <3>3, <3>4
            DEF Store!Store, Store!Named, Store!NameOf, Store!NoTime, Named, NameOf, NoTime
  <2> QED BY <2>2, <2>3 DEF Store!Next
<1>4. ASSUME NEW r \in Runs, Removes(r) PROVE [Store!Next]_Store!vars
  <2>1. UNCHANGED clock /\ Target(r) \in Targets
    BY <1>4, TargetType DEF Removes
  <2>2. CASE \A t \in VersionedTargets : folder'[t] = folder[t]
    <3>1. UNCHANGED files
      BY <2>2
    <3> QED BY <2>1, <3>1 DEF Store!vars
  <2>3. ASSUME NEW t \in VersionedTargets, folder'[t] # folder[t]
        PROVE  Store!Prune(t)
    <3> DEFINE gone == folder[t] \ folder'[t]
    <3>1. PICK keep \in Dated(folder[t]) \cap folder'[t] :
            BackupTime(keep) >= now[r] - RetentionDays
      BY <1>4, <2>3, RemovesSafely
    <3>2. \A f \in gone : /\ BackupTime(f) # NoTime
                          /\ BackupTime(f) < now[r] - RetentionDays
      BY <1>4, <2>3, RemovesSafely
    <3>3. now[r] <= clock /\ now[r] \in Nat /\ RetentionDays > 0
      BY <1>4 DEF Removes, Sweeping
    <3>4. \A f \in gone : /\ BackupTime(f) < clock - RetentionDays
                          /\ BackupTime(f) < BackupTime(keep)
      BY <1>1, <3>1, <3>2, <3>3, FileTimes, ConstantsAssumption DEF Dated
    <3>5. gone \subseteq Dated(folder[t])
      BY <3>2 DEF Dated
    <3>6. files' = [files EXCEPT ![t] = @ \ gone]
      <4>1. folder' = [folder EXCEPT ![t] = folder'[t]]
        BY <1>4, <2>3, RemovesSafely
      <4>2. folder'[t] = folder[t] \ gone
        BY <1>4, <2>3, RemovesSafely
      <4> QED BY <1>1, <4>1, <4>2
    <3>7. files[t] = folder[t]
      OBVIOUS
    <3>8. keep \in Dated(files[t]) /\ keep \notin gone
      BY <3>1, <3>7
    <3> HIDE DEF gone, files
    <3>9. gone \in SUBSET Dated(files[t])
      BY <3>5, <3>7
    <3> QED BY <2>1, <3>3, <3>4, <3>6, <3>8, <3>9
            DEF Store!Prune, Store!Dated, Store!BackupTime, Store!Versioned,
                Store!NoTime, Dated, BackupTime, Versioned, NoTime, files
  <2> QED BY <2>2, <2>3 DEF Store!Next
<1> QED BY <1>2, <1>3, <1>4, FolderStep

(* Every behaviour of overlapping, failing and restarted runs is one of the *)
(* abstract store: archives come under fresh names, and only leave when     *)
(* they are expired and a newer one stays.                                  *)
THEOREM RefinesStore == Spec => ImplementsStore
  BY StoreInit, StoreStep, TypeInvariant, NamingInvariant, SweepingInvariant, PTL
     DEF Spec, ImplementsStore, Store!Spec

(* The conjunction TLC checks on small instances.                           *)
THEOREM InductiveInvariant == Spec => []IInv
<1>1. TypeInv => TypeOK /\ Positions
  BY DEF TypeInv
<1> QED
  BY <1>1, TypeInvariant, ProgressInvariant, NamingInvariant, SweepingInvariant,
     ReportedIsKept, FailedIsUntouched, PTL DEF IInv

-----------------------------------------------------------------------------
(* The policy by itself, for any listing.                                   *)

LEMMA PolicyTimes ==
  ASSUME NEW Labels, NEW files \in SUBSET [stamp : Times, label : Labels, mod : Times]
  PROVE  \A f \in files : BackupTime(f) \in Int
  BY DEF Times, NoTime, BackupTime, Versioned

(* A trash command that fails half-way has taken some of the expired files. *)
(* With the same clock the policy then selects exactly the rest, because    *)
(* the files in the window, which decide whether anything goes, are still   *)
(* there: a sweep that failed is made good by the next one (retention.go    *)
(* 14-43 and the failed Trash of cleanupSuccessful).                        *)
THEOREM PartialSweepResumes ==
  ASSUME NEW files, NEW time \in Nat, NEW retention \in Int,
         NEW gone \in SUBSET SelectExpired(files, time, retention)
  PROVE  SelectExpired(files \ gone, time, retention)
           = SelectExpired(files, time, retention) \ gone
<1> DEFINE cutoff == time - retention
<1>1. gone \in SUBSET (Dated(files) \ Within(files, cutoff))
  BY DEF SelectExpired
<1>2. Dated(files \ gone) = Dated(files) \ gone
  BY DEF Dated
<1>3. Within(files \ gone, cutoff) = Within(files, cutoff)
  BY <1>1, <1>2 DEF Within
<1> HIDE DEF cutoff
<1>4. CASE retention <= 0 \/ Within(files, cutoff) = {}
  BY <1>3, <1>4 DEF SelectExpired, cutoff
<1>5. CASE ~ (retention <= 0 \/ Within(files, cutoff) = {})
  BY <1>2, <1>3, <1>5 DEF SelectExpired, cutoff
<1> QED BY <1>4, <1>5

(* Two runs judge one folder by clocks they read at different moments.  As  *)
(* long as something is in the window of the later one, the earlier one     *)
(* takes nothing that the later one would keep: of overlapping sweeps the   *)
(* slowest is not the most destructive.                                     *)
THEOREM EarlierClockTakesLess ==
  ASSUME NEW Labels, NEW files \in SUBSET [stamp : Times, label : Labels, mod : Times],
         NEW early \in Nat, NEW late \in Nat, early <= late, NEW retention \in Int,
         Within(files, late - retention) # {}
  PROVE  SelectExpired(files, early, retention) \subseteq SelectExpired(files, late, retention)
<1>1. \A f \in files : BackupTime(f) \in Int
  BY PolicyTimes
<1>2. Within(files, late - retention) \subseteq Within(files, early - retention)
  BY <1>1 DEF Within, Dated
<1>3. CASE retention <= 0
  BY <1>3 DEF SelectExpired
<1>4. CASE ~ (retention <= 0)
  BY <1>2, <1>4 DEF SelectExpired
<1> QED BY <1>3, <1>4

=============================================================================
