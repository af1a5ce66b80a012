--------------------------- MODULE DumpStagingProofs ---------------------------
(****************************************************************************)
(* Proofs about DumpStaging, for any number of overlapping runs and any set *)
(* of databases.                                                            *)
(****************************************************************************)
EXTENDS DumpStaging, Numbers

USE DEF setup

(* What could not be removed belongs to a run that has returned. *)
Leftovers == \A t \in stuck : pc[t[2]] = "done"

Typed == TypeOK /\ Leftovers /\ NoTempLeft

-----------------------------------------------------------------------------
(* Types, and the temporary directories. *)

LEMMA MinIs ==
  ASSUME NEW S \in SUBSET Databases, S # {}
  PROVE  Min(S) \in S
  BY DatabasesAssumption, LeastExists DEF Min

LEMMA HomeType == \A r \in Runs : Home(r) \in Homes
  BY DEF Home, Homes

LEMMA AbsentType == Absent \in Contents /\ \A r \in Runs : Own(r) \in Contents
  BY DEF Absent, Own, Contents

LEMMA TypedInit == Init => Typed
<1> SUFFICES ASSUME Init PROVE Typed
  OBVIOUS
<1>1. fixed \in BOOLEAN /\ shared \in [Runs -> BOOLEAN]
  BY DEF Init
<1>2. /\ files \in [Homes -> [Databases -> Contents]]
      /\ archive \in [Runs -> [Databases -> Contents]]
  BY AbsentType DEF Init
<1>3. list \in [Runs -> SUBSET Databases] /\ todo \in [Runs -> SUBSET Databases]
  BY DEF Init
<1>4. pc \in [Runs -> PCs] /\ outcome \in [Runs -> {"none", "ok", "failed"}]
  BY DEF Init, PCs
<1>5. TypeOK
  BY <1>1, <1>2, <1>3, <1>4 DEF Init, TypeOK
<1>6. Leftovers /\ NoTempLeft
  BY DEF Init, Leftovers, NoTempLeft
<1> QED BY <1>5, <1>6 DEF Typed

(* An error return, of a run and of a command without one. *)
LEMMA FailIs ==
  ASSUME Typed, NEW r \in Runs, Fail(r)
  PROVE  /\ pc' \in [Runs -> PCs]
         /\ outcome' \in [Runs -> {"none", "ok", "failed"}]
         /\ r \in gone => pc'[r] = "killed"
         /\ r \notin gone => pc'[r] = "cleanup"
         /\ outcome'[r] = "ok" => outcome[r] = "ok"
         /\ \A q \in Runs \ {r} : pc'[q] = pc[q] /\ outcome'[q] = outcome[q]
  BY DEF Fail, Goto, Typed, TypeOK, PCs

(* A step of one run that leaves the temporary directories alone. *)
LEMMA PlainStep ==
  ASSUME Typed, NEW r \in Runs, UNCHANGED <<setup, gone, temps, stuck>>,
         server' = server, list' \in [Runs -> SUBSET Databases],
         todo' \in [Runs -> SUBSET Databases],
         files' \in [Homes -> [Databases -> Contents]],
         archive' \in [Runs -> [Databases -> Contents]],
         shared' \in [Runs -> BOOLEAN],
         pc' \in [Runs -> PCs], outcome' \in [Runs -> {"none", "ok", "failed"}],
         pc[r] \notin {"done"}, pc'[r] \notin {"idle", "done"},
         r \in gone => pc'[r] \in {"list", "dump", "write", "killed"},
         pc'[r] = "write" => todo'[r] # {},
         \A q \in Runs \ {r} : pc'[q] = pc[q] /\ (pc[q] = "write" => todo'[q] = todo[q])
  PROVE  Typed'
<1>1. TypeOK'
  BY DEF Typed, TypeOK
<1>2. Leftovers' /\ NoTempLeft'
  BY DEF Typed, TypeOK, Leftovers, NoTempLeft
<1> QED BY <1>1, <1>2 DEF Typed

LEMMA TypedExit == Typed /\ Exit => Typed'
<1> SUFFICES ASSUME Typed, Exit PROVE Typed'
  OBVIOUS
<1>1. \A r \in Runs : \/ pc'[r] = pc[r]
                      \/ pc'[r] = "killed" /\ pc[r] \notin {"idle", "done"} /\ r \notin gone'
  BY DEF Exit, AtWork
<1>2. pc' \in [Runs -> PCs]
  BY <1>1 DEF Exit, Typed, TypeOK, PCs
<1>3. gone' \subseteq {r \in Runs : pc'[r] \in {"list", "dump", "write", "killed"}}
  BY DEF Exit, Typed, TypeOK
<1>4. TypeOK'
  BY <1>1, <1>2, <1>3 DEF Exit, Typed, TypeOK
<1>5. Leftovers' /\ NoTempLeft'
  BY <1>1 DEF Exit, Typed, TypeOK, Leftovers, NoTempLeft
<1> QED BY <1>4, <1>5 DEF Typed

LEMMA TypedBegin ==
  ASSUME Typed, NEW r \in Runs, Begin(r)
  PROVE  Typed'
<1>1. pc[r] = "idle" /\ r \notin gone
  BY DEF Begin, Typed, TypeOK
<1>2. CASE Fail(r) /\ UNCHANGED <<temps, shared>>
  BY <1>1, <1>2, FailIs, PlainStep DEF Begin, Typed, TypeOK
<1>3. CASE Goto(r, "list")
  <2>1. pc' \in [Runs -> PCs] /\ pc'[r] = "list" /\ \A q \in Runs \ {r} : pc'[q] = pc[q]
    BY <1>3 DEF Goto, Typed, TypeOK, PCs
  <2>2. UNCHANGED <<setup, server, gone, list, todo, files, stuck, archive, outcome>>
    BY <1>1, <1>3, <2>1 DEF Begin, Fail, Goto
  <2>3. CASE Fail(r)
    BY <1>1, <2>1, <2>3, FailIs
  <2>4. CASE ~ Fail(r)
    <3>1. shared' \in [Runs -> BOOLEAN]
      BY <2>4, Zenon DEF Begin
    <3>2. temps' = temps \/ temps' = temps \cup {<<"dump", r>>}
      BY <2>4 DEF Begin
    <3>3. temps' \subseteq {"dump", "zip"} \X Runs /\ stuck' \subseteq temps'
      BY <2>2, <3>2 DEF Typed, TypeOK
    <3>4. TypeOK'
      BY <1>1, <2>1, <2>2, <3>1, <3>3 DEF Typed, TypeOK
    <3>5. Leftovers'
      BY <1>1, <2>1, <2>2 DEF Typed, TypeOK, Leftovers
    <3>6. NoTempLeft'
      BY <1>1, <2>1, <2>2, <3>2 DEF Typed, TypeOK, NoTempLeft
    <3> QED BY <3>4, <3>5, <3>6 DEF Typed
  <2> QED BY <2>3, <2>4
<1> QED BY <1>2, <1>3 DEF Begin

LEMMA TypedListing ==
  ASSUME Typed, NEW r \in Runs, ListDatabases(r) \/ NameDump(r)
  PROVE  Typed'
<1>1. CASE ListDatabases(r)
  <2>1. CASE Fail(r) /\ UNCHANGED <<list, todo>>
    BY <1>1, <2>1, FailIs, PlainStep DEF ListDatabases, Typed, TypeOK
  <2>2. CASE /\ Goto(r, "dump") /\ UNCHANGED outcome
             /\ list' = [list EXCEPT ![r] = server] /\ todo' = [todo EXCEPT ![r] = server]
    <3>1. pc' \in [Runs -> PCs] /\ pc'[r] = "dump" /\ \A q \in Runs \ {r} : pc'[q] = pc[q]
      BY <2>2 DEF Goto, Typed, TypeOK, PCs
    <3> QED BY <1>1, <2>2, <3>1, PlainStep DEF ListDatabases, Typed, TypeOK
  <2> QED BY <1>1, <2>1, <2>2 DEF ListDatabases
<1>2. CASE NameDump(r)
  <2>1. pc' \in [Runs -> PCs] /\ pc'[r] = "dump" /\ \A q \in Runs \ {r} : pc'[q] = pc[q]
    BY <1>2 DEF NameDump, Goto, Typed, TypeOK, PCs
  <2>2. /\ list' \in [Runs -> SUBSET Databases] /\ todo' \in [Runs -> SUBSET Databases]
        /\ \A q \in Runs \ {r} : todo'[q] = todo[q]
    BY <1>2 DEF NameDump, Typed, TypeOK
  <2> QED BY <1>2, <2>1, <2>2, PlainStep DEF NameDump, Typed, TypeOK
<1> QED BY <1>1, <1>2

(* A failed dump command: the file is there, and is not complete. *)
LEMMA TornIs ==
  ASSUME Typed, NEW h \in Homes, NEW b \in Databases,
         files' = [files EXCEPT ![h][b].torn = TRUE]
  PROVE  /\ files' \in [Homes -> [Databases -> Contents]]
         /\ files'[h][b] # Absent
         /\ \A d \in Homes : d # h => files'[d] = files[d]
         /\ \A c \in Databases : c # b => files'[h][c] = files[h][c]
<1> DEFINE g == [files[h][b] EXCEPT !.torn = TRUE]
<1>1. files[h][b] \in Contents
  BY DEF Typed, TypeOK
<1>2. g \in Contents /\ g.torn = TRUE
  BY <1>1 DEF Contents
<1>3. g # Absent
  BY <1>2 DEF Absent
<1>4. files' = [files EXCEPT ![h] = [files[h] EXCEPT ![b] = g]]
  BY DEF Typed, TypeOK
<1> HIDE DEF g
<1>5. files \in [Homes -> [Databases -> Contents]]
  BY DEF Typed, TypeOK
<1>6. [files[h] EXCEPT ![b] = g] \in [Databases -> Contents]
  BY <1>2, <1>5
<1>7. files' \in [Homes -> [Databases -> Contents]]
  BY <1>4, <1>5, <1>6
<1>8. files'[h] = [files[h] EXCEPT ![b] = g] /\ \A d \in Homes : d # h => files'[d] = files[d]
  BY <1>4, <1>5
<1>9. files'[h][b] = g /\ \A c \in Databases : c # b => files'[h][c] = files[h][c]
  BY <1>5, <1>8
<1> QED BY <1>3, <1>7, <1>8, <1>9

LEMMA TypedDump ==
  ASSUME Typed, NEW r \in Runs, Open(r) \/ Close(r) \/ OrphanEnds(r)
  PROVE  Typed'
<1>1. CASE Open(r)
  <2> DEFINE b == Min(todo[r])
             f == [from |-> {r} \cup {q \in Neighbours(r) : Writing(q, b)}, torn |-> FALSE]
  <2>1. b \in Databases
    BY <1>1, MinIs DEF Open, Typed, TypeOK
  <2>2. f \in Contents
    BY DEF Contents, Neighbours
  <2>3. CASE Fail(r) /\ UNCHANGED files
    BY <1>1, <2>3, FailIs, PlainStep DEF Open, Typed, TypeOK
  <2>4. CASE Goto(r, "write") /\ files' = [files EXCEPT ![Home(r)][b] = f] /\ UNCHANGED outcome
    <3>1. pc' \in [Runs -> PCs] /\ pc'[r] = "write" /\ \A q \in Runs \ {r} : pc'[q] = pc[q]
      BY <2>4 DEF Goto, Typed, TypeOK, PCs
    <3>2. files' \in [Homes -> [Databases -> Contents]]
      BY <2>1, <2>2, <2>4, HomeType DEF Typed, TypeOK
    <3> QED BY <1>1, <2>4, <3>1, <3>2, PlainStep DEF Open, Typed, TypeOK
  <2> QED BY <1>1, <2>3, <2>4 DEF Open
<1>2. CASE Close(r)
  <2> DEFINE b == Min(todo[r])
  <2>1. b \in Databases
    BY <1>2, MinIs DEF Close, Typed, TypeOK
  <2>2. CASE Fail(r) /\ files' = [files EXCEPT ![Home(r)][b].torn = TRUE] /\ UNCHANGED todo
    <3>1. files' \in [Homes -> [Databases -> Contents]]
      BY <2>1, <2>2, HomeType, TornIs
    <3> QED BY <1>2, <2>2, <3>1, FailIs, PlainStep DEF Close, Typed, TypeOK
  <2>3. CASE /\ Goto(r, "dump") /\ UNCHANGED <<files, outcome>>
             /\ todo' = [todo EXCEPT ![r] = @ \ {b}]
    <3>1. pc' \in [Runs -> PCs] /\ pc'[r] = "dump" /\ \A q \in Runs \ {r} : pc'[q] = pc[q]
      BY <2>3 DEF Goto, Typed, TypeOK, PCs
    <3> QED BY <1>2, <2>3, <3>1, PlainStep DEF Close, Typed, TypeOK
  <2> QED BY <1>2, <2>2, <2>3 DEF Close
<1>3. CASE OrphanEnds(r)
  <2>1. pc' \in [Runs -> PCs] /\ pc'[r] = "killed" /\ \A q \in Runs \ {r} : pc'[q] = pc[q]
    BY <1>3 DEF OrphanEnds, Goto, Typed, TypeOK, PCs
  <2> QED BY <1>3, <2>1, PlainStep DEF OrphanEnds, Typed, TypeOK
<1> QED BY <1>1, <1>2, <1>3

LEMMA TypedArchive ==
  ASSUME Typed, NEW r \in Runs, Zip(r) \/ SendDump(r) \/ AddFile(r) \/ Upload(r)
  PROVE  Typed'
<1>1. CASE Zip(r)
  <2>1. CASE Fail(r) /\ UNCHANGED <<temps, todo>>
    BY <1>1, <2>1, FailIs, PlainStep DEF Zip, Typed, TypeOK
  <2>2. CASE /\ Goto(r, "read") /\ temps' = temps \cup {<<"zip", r>>} /\ UNCHANGED outcome
             /\ todo' = [todo EXCEPT ![r] = {b \in Databases : files[Home(r)][b] # Absent}]
    <3>1. pc' \in [Runs -> PCs] /\ pc'[r] = "read" /\ \A q \in Runs \ {r} : pc'[q] = pc[q]
      BY <2>2 DEF Goto, Typed, TypeOK, PCs
    <3>2. temps' \subseteq {"dump", "zip"} \X Runs /\ stuck' \subseteq temps'
      BY <1>1, <2>2 DEF Zip, Typed, TypeOK
    <3>3. todo' \in [Runs -> SUBSET Databases] /\ \A q \in Runs \ {r} : todo'[q] = todo[q]
      BY <2>2 DEF Typed, TypeOK
    <3>4. TypeOK'
      BY <1>1, <2>2, <3>1, <3>2, <3>3 DEF Zip, Typed, TypeOK
    <3>5. Leftovers' /\ NoTempLeft'
      BY <1>1, <2>2, <3>1 DEF Zip, Typed, TypeOK, Leftovers, NoTempLeft
    <3> QED BY <3>4, <3>5 DEF Typed
  <2> QED BY <1>1, <2>1, <2>2 DEF Zip
<1>2. CASE SendDump(r)
  <2>1. pc' \in [Runs -> PCs] /\ pc'[r] = "read" /\ \A q \in Runs \ {r} : pc'[q] = pc[q]
    BY <1>2 DEF SendDump, Goto, Typed, TypeOK, PCs
  <2> QED BY <1>2, <2>1, PlainStep DEF SendDump, Typed, TypeOK
<1>3. CASE AddFile(r)
  <2> DEFINE b == Min(todo[r])
             file == files[Home(r)][b]
  <2>1. b \in Databases /\ file \in Contents
    BY <1>3, MinIs, HomeType DEF AddFile, Typed, TypeOK
  <2>2. CASE Fail(r) /\ UNCHANGED <<archive, todo>>
    BY <1>3, <2>2, FailIs, PlainStep DEF AddFile, Typed, TypeOK
  <2>3. ASSUME NEW torn \in {file.torn} \cup {Meddlers(r) # {}},
               archive' = [archive EXCEPT ![r][b] =
                             [from |-> file.from, torn |-> file.torn \/ torn]],
               todo' = [todo EXCEPT ![r] = @ \ {b}], UNCHANGED <<pc, outcome>>
        PROVE  Typed'
    <3>1. (file.torn \/ torn) \in BOOLEAN /\ file.from \in SUBSET Runs
      BY <2>1 DEF Contents
    <3>2. [from |-> file.from, torn |-> file.torn \/ torn] \in Contents
      BY <3>1 DEF Contents
    <3>3. archive' \in [Runs -> [Databases -> Contents]]
      BY <2>1, <2>3, <3>2 DEF Typed, TypeOK
    <3> QED BY <1>3, <2>3, <3>3, PlainStep DEF AddFile, Typed, TypeOK
  <2> QED BY <1>3, <2>2, <2>3 DEF AddFile
<1>4. CASE Upload(r)
  <2>1. CASE Fail(r)
    BY <1>4, <2>1, FailIs, PlainStep DEF Upload, Typed, TypeOK
  <2>2. CASE Goto(r, "cleanup") /\ outcome' = [outcome EXCEPT ![r] = "ok"]
    <3>1. pc' \in [Runs -> PCs] /\ pc'[r] = "cleanup" /\ \A q \in Runs \ {r} : pc'[q] = pc[q]
      BY <2>2 DEF Goto, Typed, TypeOK, PCs
    <3> QED BY <1>4, <2>2, <3>1, PlainStep DEF Upload, Typed, TypeOK
  <2> QED BY <1>4, <2>1, <2>2 DEF Upload
<1> QED BY <1>1, <1>2, <1>3, <1>4

LEMMA TypedCleanUp ==
  ASSUME Typed, NEW r \in Runs, CleanUp(r)
  PROVE  Typed'
<1>1. pc' \in [Runs -> PCs] /\ pc'[r] = "done" /\ \A q \in Runs \ {r} : pc'[q] = pc[q]
  BY DEF CleanUp, Goto, Typed, TypeOK, PCs
<1>2. files' \in [Homes -> [Databases -> Contents]]
  <2>1. [b \in Databases |-> Absent] \in [Databases -> Contents]
    BY AbsentType
  <2> QED BY <2>1 DEF CleanUp, Typed, TypeOK
<1>3. PICK kept \in SUBSET {t \in temps : t[2] = r} :
        /\ temps' = {t \in temps : t[2] # r} \cup kept
        /\ stuck' = stuck \cup kept
  BY DEF CleanUp
<1>4. \A t \in stuck : t[2] # r
  BY DEF CleanUp, Typed, TypeOK, Leftovers
<1>5. TypeOK'
  BY <1>1, <1>2, <1>3, <1>4 DEF CleanUp, Typed, TypeOK
<1>6. Leftovers' /\ NoTempLeft'
  BY <1>1, <1>3, <1>4 DEF Typed, TypeOK, Leftovers, NoTempLeft
<1> QED BY <1>5, <1>6 DEF Typed

LEMMA TypedStep == Typed /\ [Next]_vars => Typed'
<1> SUFFICES ASSUME Typed, [Next]_vars PROVE Typed'
  OBVIOUS
<1>1. CASE ServerChanges
  BY <1>1 DEF ServerChanges, Typed, TypeOK, Leftovers, NoTempLeft
<1>2. CASE UNCHANGED vars
  BY <1>2 DEF vars, Typed, TypeOK, Leftovers, NoTempLeft
<1>3. CASE \E r \in Runs : \/ Begin(r) \/ ListDatabases(r) \/ NameDump(r)
                           \/ Open(r) \/ Close(r) \/ Zip(r) \/ SendDump(r)
                           \/ AddFile(r) \/ Upload(r) \/ CleanUp(r)
                           \/ OrphanEnds(r)
  BY <1>3, TypedBegin, TypedListing, TypedDump, TypedArchive, TypedCleanUp
<1> QED BY <1>1, <1>2, <1>3, TypedExit DEF Next

LEMMA TypedHolds == Spec => []Typed
  BY TypedInit, TypedStep, PTL DEF Spec

-----------------------------------------------------------------------------
(* The files of a dump. *)

(* What each place of a run says of its list, its files to do and its       *)
(* outcome.  A single dump has one file.                                    *)
Places ==
  \A r \in Runs :
    /\ pc[r] \in {"idle", "list"} => list[r] = {}
    /\ pc[r] \in {"dump", "write"} => todo[r] \subseteq list[r]
    /\ pc[r] = "read" /\ (~fixed \/ kind = "single") => todo[r] \subseteq list[r]
    /\ pc[r] = "idle" \/ AtWork(r) => outcome[r] = "none"
    /\ kind = "single" => \A m, n \in list[r] : m = n

(* Whoever is at work next to another knows it. *)
Witnessed == \A r \in Runs : AtWork(r) /\ Neighbours(r) # {} => shared[r]

(* Nobody else writes the files of the run's list: its directory is its     *)
(* own, or was while it was at work, or no other dump has its name.         *)
Alone(r) == \/ ~fixed
            \/ ~shared[r]
            \/ kind = "single" /\ \A q \in Runs \ {r} : list[q] # list[r]

(* Databases whose dump the run has made, or is making. *)
Dumped(r) ==
  {b \in list[r] : \/ pc[r] \in {"dump", "write"} /\ b \notin todo[r]
                   \/ pc[r] = "write" /\ b = Min(todo[r])
                   \/ pc[r] = "read"}

DumpsThere ==
  \A r \in Runs : \A b \in Dumped(r) :
    /\ files[Home(r)][b] # Absent
    /\ Alone(r) => files[Home(r)][b] = Own(r)

(* Databases the run has in its archive. *)
Archived(r) == {b \in list[r] : \/ pc[r] = "read" /\ b \notin todo[r]
                                \/ outcome[r] = "ok"}

CopiesThere ==
  \A r \in Runs : \A b \in Archived(r) :
    /\ archive[r][b] # Absent
    /\ Alone(r) => archive[r][b] = Own(r)

(* A directory of its own and a single dump's archive hold nothing else. *)
NothingElse ==
  \A r \in Runs : \A b \in Databases \ list[r] :
    /\ ~fixed => files[r][b] = Absent
    /\ ~fixed \/ kind = "single" => archive[r][b] = Absent

Inv == /\ Typed /\ Places /\ Witnessed
       /\ DumpsThere /\ CopiesThere /\ NothingElse

LEMMA InvInit == Init => Inv
<1> SUFFICES ASSUME Init PROVE Inv
  OBVIOUS
<1>1. Places /\ Witnessed
  BY DEF Init, Places, Witnessed, AtWork
<1>2. DumpsThere /\ CopiesThere
  BY DEF Init, DumpsThere, CopiesThere, Dumped, Archived
<1>3. NothingElse
  BY DEF Init, NothingElse, Homes
<1> QED BY <1>1, <1>2, <1>3, TypedInit DEF Inv

(* Another run's dump command has none of the files of a run left alone. *)
LEMMA Apart ==
  ASSUME Typed, Places, Witnessed, NEW r \in Runs, Alone(r), AtWork(r),
         NEW q \in Runs \ {r}, pc[q] \in {"dump", "write"}, todo[q] # {},
         Min(todo[q]) \in list[r]
  PROVE  Home(q) # Home(r)
<1> SUFFICES ASSUME fixed, Home(q) = Home(r) PROVE FALSE
  BY DEF Home
<1>1. q \in Neighbours(r)
  BY DEF Neighbours, AtWork
<1>2. kind = "single" /\ list[q] # list[r]
  BY <1>1 DEF Witnessed, Alone
<1>3. Min(todo[q]) \in todo[q]
  BY MinIs DEF Typed, TypeOK
<1>4. Min(todo[q]) \in list[q]
  BY <1>3 DEF Places
<1>5. /\ \A m, n \in list[r] : m = n
      /\ \A m, n \in list[q] : m = n
  BY <1>2 DEF Places
<1>6. list[q] = list[r]
  BY <1>4, <1>5
<1> QED BY <1>2, <1>6

(* Nor does a copy of such a file change under the run that makes it. *)
LEMMA NoMeddlers ==
  ASSUME Witnessed, NEW r \in Runs, Alone(r), AtWork(r)
  PROVE  Meddlers(r) = {}
<1>1. CASE ~fixed
  BY <1>1 DEF Meddlers, Neighbours, Home
<1>2. CASE ~shared[r]
  BY <1>2 DEF Witnessed, Meddlers
<1>3. CASE kind = "single" /\ \A q \in Runs \ {r} : list[q] # list[r]
  BY <1>3 DEF Meddlers, Neighbours
<1> QED BY <1>1, <1>2, <1>3 DEF Alone

(* Runs stop working; what is left of files is not said. *)
LEMMA QuitKeeps ==
  ASSUME Inv, UNCHANGED <<setup, list, todo, archive, shared>>,
         \A r \in Runs : \/ pc'[r] = pc[r] /\ outcome'[r] = outcome[r]
                         \/ /\ pc'[r] \in {"cleanup", "done", "killed"}
                            /\ outcome'[r] = outcome[r] \/ outcome'[r] = "failed"
  PROVE  Places' /\ Witnessed' /\ CopiesThere'
<1>1. Places'
  BY DEF Inv, Places, AtWork
<1>2. Witnessed'
  <2>1. ASSUME NEW r \in Runs PROVE AtWork(r)' => AtWork(r)
    BY DEF AtWork
  <2>2. ASSUME NEW r \in Runs PROVE Neighbours(r)' \subseteq Neighbours(r)
    BY <2>1 DEF Neighbours, Home
  <2> QED BY <2>1, <2>2 DEF Inv, Witnessed
<1>3. CopiesThere'
  <2>1. ASSUME NEW r \in Runs PROVE Archived(r)' \subseteq Archived(r)
    BY DEF Archived
  <2>2. ASSUME NEW r \in Runs PROVE Alone(r)' = Alone(r)
    BY DEF Alone
  <2> QED BY <2>1, <2>2 DEF Inv, CopiesThere, Own, Absent
<1> QED BY <1>1, <1>2, <1>3

LEMMA QuitStep ==
  ASSUME Inv, Typed', UNCHANGED <<setup, list, todo, archive, shared, files>>,
         \A r \in Runs : \/ pc'[r] = pc[r] /\ outcome'[r] = outcome[r]
                         \/ /\ pc'[r] \in {"cleanup", "done", "killed"}
                            /\ outcome'[r] = outcome[r] \/ outcome'[r] = "failed"
  PROVE  Inv'
<1>1. ASSUME NEW r \in Runs PROVE Dumped(r)' \subseteq Dumped(r) /\ Alone(r)' = Alone(r)
  BY DEF Dumped, Alone
<1>2. DumpsThere'
  BY <1>1 DEF Inv, DumpsThere, Own, Absent, Home
<1>3. NothingElse'
  BY DEF Inv, NothingElse, Absent
<1> QED BY <1>2, <1>3, QuitKeeps DEF Inv

(* Any step of one run that fails without a write. *)
LEMMA FailStep ==
  ASSUME Inv, Typed', NEW r \in Runs, Fail(r),
         UNCHANGED <<setup, list, todo, archive, shared, files>>
  PROVE  Inv'
<1>1. pc'[r] \in {"cleanup", "killed"} /\ (outcome'[r] = outcome[r] \/ outcome'[r] = "failed")
  BY DEF Fail, Goto, Inv, Typed, TypeOK
<1>2. \A q \in Runs \ {r} : pc'[q] = pc[q] /\ outcome'[q] = outcome[q]
  BY FailIs DEF Inv
<1> QED BY <1>1, <1>2, QuitStep

LEMMA EndStep ==
  ASSUME Inv, Typed', \/ ServerChanges \/ Exit \/ UNCHANGED vars
                      \/ \E r \in Runs : OrphanEnds(r)
  PROVE  Inv'
<1>1. CASE ServerChanges
  BY <1>1, QuitStep DEF ServerChanges
<1>2. CASE Exit
  <2>1. \A r \in Runs : pc'[r] = pc[r] \/ pc'[r] = "killed"
    BY <1>2 DEF Exit
  <2> QED BY <1>2, <2>1, QuitStep DEF Exit
<1>3. CASE UNCHANGED vars
  BY <1>3, QuitStep DEF vars
<1>4. ASSUME NEW r \in Runs, OrphanEnds(r) PROVE Inv'
  <2>1. \A q \in Runs : pc'[q] = pc[q] \/ pc'[q] = "killed"
    BY <1>4 DEF OrphanEnds, Goto, Inv, Typed, TypeOK
  <2> QED BY <1>4, <2>1, QuitStep DEF OrphanEnds
<1> QED BY <1>1, <1>2, <1>3, <1>4

LEMMA BeginStep ==
  ASSUME Inv, Typed', NEW r \in Runs, Begin(r)
  PROVE  Inv'
<1>1. CASE Fail(r) /\ UNCHANGED <<temps, shared>>
  BY <1>1, FailStep DEF Begin
<1>2. CASE /\ Goto(r, "list") /\ UNCHANGED outcome
           /\ shared' = [q \in Runs |-> \/ shared[q]
                                        \/ q = r /\ Neighbours(r) # {}
                                        \/ q \in Neighbours(r)]
  <2>1. pc[r] = "idle" /\ pc'[r] = "list" /\ \A q \in Runs \ {r} : pc'[q] = pc[q]
    BY <1>2 DEF Begin, Goto, Inv, Typed, TypeOK
  <2>2. UNCHANGED <<setup, list, todo, files, archive, outcome>>
    BY <1>2 DEF Begin
  <2>3. Places'
    BY <2>1, <2>2 DEF Inv, Places, AtWork
  <2>4. \A q \in Runs : /\ shared[q] => shared'[q]
                        /\ q = r /\ Neighbours(r) # {} => shared'[q]
                        /\ q \in Neighbours(r) => shared'[q]
    BY <1>2
  <2>5. Witnessed'
    <3> SUFFICES ASSUME NEW q \in Runs, AtWork(q)', NEW p \in Neighbours(q)'
                 PROVE  shared'[q]
      BY DEF Witnessed
    <3>1. CASE q = r
      <4>1. p \in Neighbours(r)
        BY <2>1, <2>2, <3>1 DEF Neighbours, AtWork, Home
      <4> QED BY <2>4, <3>1, <4>1
    <3>2. CASE p = r /\ q # r
      <4>1. q \in Neighbours(r)
        BY <2>1, <2>2, <3>2 DEF Neighbours, AtWork, Home
      <4> QED BY <2>4, <4>1
    <3>3. CASE p # r /\ q # r
      <4>1. AtWork(q) /\ p \in Neighbours(q)
        BY <2>1, <2>2, <3>3 DEF Neighbours, AtWork, Home
      <4> QED BY <2>4, <4>1 DEF Inv, Witnessed
    <3> QED BY <3>1, <3>2, <3>3
  <2>6. ASSUME NEW q \in Runs
        PROVE  /\ Dumped(q)' \subseteq Dumped(q) /\ Archived(q)' \subseteq Archived(q)
               /\ Alone(q)' => Alone(q)
    BY <2>1, <2>2, <2>4 DEF Dumped, Archived, Alone
  <2>7. DumpsThere' /\ CopiesThere'
    BY <2>2, <2>6 DEF Inv, DumpsThere, CopiesThere, Own, Absent, Home
  <2>8. NothingElse'
    BY <2>2 DEF Inv, NothingElse, Absent
  <2> QED BY <2>3, <2>5, <2>7, <2>8 DEF Inv
<1> QED BY <1>1, <1>2 DEF Begin

(* A run that knows what it has to dump has dumped nothing yet. *)
LEMMA ListStep ==
  ASSUME Inv, Typed', NEW r \in Runs, NEW S \in SUBSET Databases,
         pc[r] = "list", Goto(r, "dump"),
         list' = [list EXCEPT ![r] = S], todo' = [todo EXCEPT ![r] = S],
         kind = "single" => /\ \A m, n \in S : m = n,
         UNCHANGED <<setup, files, archive, outcome, shared>>
  PROVE  Inv'
<1>1. pc'[r] = "dump" /\ \A q \in Runs \ {r} : pc'[q] = pc[q]
  BY DEF Goto, Inv, Typed, TypeOK
<1>2. /\ list[r] = {} /\ list'[r] = S /\ todo'[r] = S /\ outcome[r] = "none"
      /\ \A q \in Runs \ {r} : list'[q] = list[q] /\ todo'[q] = todo[q]
  BY DEF Inv, Typed, TypeOK, Places, AtWork
<1>3. Places'
  BY <1>1, <1>2 DEF Inv, Places, AtWork
<1>4. Witnessed'
  <2>1. ASSUME NEW q \in Runs PROVE AtWork(q)' = AtWork(q)
    BY <1>1 DEF AtWork
  <2>2. ASSUME NEW q \in Runs PROVE Neighbours(q)' = Neighbours(q)
    BY <2>1 DEF Neighbours, Home
  <2> QED BY <2>1, <2>2 DEF Inv, Witnessed
<1>5. Dumped(r)' = {} /\ Archived(r)' = {}
  BY <1>1, <1>2 DEF Dumped, Archived
<1>6. ASSUME NEW q \in Runs \ {r}, list[q] # {}
      PROVE  Alone(q)' => Alone(q)
  <2>1. list[r] # list[q]
    BY <1>2, <1>6
  <2> QED BY <1>2, <2>1 DEF Alone
<1>7. ASSUME NEW q \in Runs \ {r}
      PROVE  /\ Dumped(q)' = Dumped(q) /\ Archived(q)' = Archived(q)
             /\ Dumped(q) \subseteq list[q] /\ Archived(q) \subseteq list[q]
  BY <1>1, <1>2 DEF Dumped, Archived
<1>8. DumpsThere' /\ CopiesThere'
  BY <1>5, <1>6, <1>7 DEF Inv, DumpsThere, CopiesThere, Own, Absent, Home
<1>9. NothingElse'
  BY <1>2 DEF Inv, NothingElse, Absent
<1> QED BY <1>3, <1>4, <1>8, <1>9 DEF Inv

LEMMA ListingStep ==
  ASSUME Inv, Typed', NEW r \in Runs, ListDatabases(r) \/ NameDump(r)
  PROVE  Inv'
<1>1. CASE ListDatabases(r)
  <2>1. CASE Fail(r) /\ UNCHANGED <<list, todo>>
    BY <1>1, <2>1, FailStep DEF ListDatabases
  <2>2. CASE ~ (Fail(r) /\ UNCHANGED <<list, todo>>)
    BY <1>1, <2>2, ListStep DEF ListDatabases, Inv, Typed, TypeOK
  <2> QED BY <2>1, <2>2
<1>2. CASE NameDump(r)
  <2>1. PICK n \in Databases : /\ list' = [list EXCEPT ![r] = {n}]
                               /\ todo' = [todo EXCEPT ![r] = {n}]
    BY <1>2 DEF NameDump
  <2>2. {n} \in SUBSET Databases /\ \A m, k \in {n} : m = k
    OBVIOUS
  <2> QED BY <1>2, <2>1, <2>2, ListStep DEF NameDump
<1> QED BY <1>1, <1>2

(* A write of a dump command spares the runs that are left alone. *)
LEMMA WriteSpares ==
  ASSUME Inv, NEW r \in Runs, pc[r] \in {"dump", "write"}, todo[r] # {},
         NEW b, b = Min(todo[r]), files'[Home(r)][b] # Absent,
         \A d \in Homes : d # Home(r) => files'[d] = files[d],
         \A c \in Databases : c # b => files'[Home(r)][c] = files[Home(r)][c]
  PROVE  /\ \A q \in Runs \ {r} : \A c \in Dumped(q) :
              /\ files'[Home(q)][c] # Absent
              /\ Alone(q) => files'[Home(q)][c] = Own(q)
         /\ \A q \in Runs : \A c \in Databases \ list[q] :
              ~fixed => files'[q][c] = Absent
<1>1. b \in list[r]
  <2>1. b \in todo[r]
    BY MinIs DEF Inv, Typed, TypeOK
  <2> QED BY <2>1 DEF Inv, Places
<1>2. ASSUME NEW q \in Runs \ {r}, NEW c \in Dumped(q)
      PROVE  /\ files'[Home(q)][c] # Absent
             /\ Alone(q) => files'[Home(q)][c] = Own(q)
  <2>1. c \in list[q] /\ c \in Databases /\ AtWork(q)
    BY DEF Dumped, AtWork, Inv, Typed, TypeOK
  <2>2. /\ files[Home(q)][c] # Absent
        /\ Alone(q) => files[Home(q)][c] = Own(q)
    BY DEF Inv, DumpsThere
  <2>3. CASE Home(q) = Home(r) /\ c = b
    BY <2>1, <2>3, Apart DEF Inv
  <2>4. CASE Home(q) # Home(r)
    BY <2>2, <2>4, HomeType
  <2>5. CASE Home(q) = Home(r) /\ c # b
    BY <2>1, <2>2, <2>5
  <2> QED BY <2>3, <2>4, <2>5
<1>3. ASSUME NEW q \in Runs, NEW c \in Databases \ list[q], ~fixed
      PROVE  files'[q][c] = Absent
  <2>1. files[q][c] = Absent /\ Home(r) = r /\ q \in Homes
    BY <1>3 DEF Inv, NothingElse, Home, Homes
  <2> QED BY <1>1, <2>1
<1> QED BY <1>2, <1>3

LEMMA OpenStep ==
  ASSUME Inv, Typed', NEW r \in Runs, Open(r)
  PROVE  Inv'
<1> DEFINE b == Min(todo[r])
           f == [from |-> {r} \cup {q \in Neighbours(r) : Writing(q, b)}, torn |-> FALSE]
<1>1. CASE Fail(r) /\ UNCHANGED files
  BY <1>1, FailStep DEF Open
<1>2. CASE Goto(r, "write") /\ files' = [files EXCEPT ![Home(r)][b] = f] /\ UNCHANGED outcome
  <2>1. /\ pc[r] = "dump" /\ pc'[r] = "write" /\ todo[r] # {}
        /\ \A q \in Runs \ {r} : pc'[q] = pc[q]
        /\ UNCHANGED <<setup, list, todo, archive, outcome, shared>>
    BY <1>2 DEF Open, Goto, Inv, Typed, TypeOK
  <2>2. b \in todo[r] /\ b \in Databases /\ b \in list[r]
    BY <2>1, MinIs DEF Inv, Typed, TypeOK, Places
  <2>3. f # Absent
    BY DEF Absent
  <2>4. Alone(r) => f = Own(r)
    <3> SUFFICES ASSUME Alone(r), NEW q \in Neighbours(r), Writing(q, b) PROVE FALSE
      BY DEF Own
    <3>1. q \in Runs \ {r} /\ Home(q) = Home(r) /\ pc[q] = "write" /\ b = Min(todo[q])
      BY DEF Neighbours, Writing
    <3>2. todo[q] # {}
      BY <3>1 DEF Inv, Typed, TypeOK
    <3> QED BY <2>1, <2>2, <3>1, <3>2, Apart DEF Inv, AtWork
  <2>5. /\ files'[Home(r)][b] = f
        /\ \A d \in Homes : d # Home(r) => files'[d] = files[d]
        /\ \A c \in Databases : c # b => files'[Home(r)][c] = files[Home(r)][c]
    <3> HIDE DEF b, f
    <3> QED BY <1>2, <2>2, HomeType DEF Inv, Typed, TypeOK
  <2>6. /\ \A q \in Runs \ {r} : \A c \in Dumped(q) :
              /\ files'[Home(q)][c] # Absent
              /\ Alone(q) => files'[Home(q)][c] = Own(q)
        /\ \A q \in Runs : \A c \in Databases \ list[q] :
              ~fixed => files'[q][c] = Absent
    BY <2>1, <2>3, <2>5, WriteSpares
  <2>7. \A c \in Dumped(r)' : c \in Databases /\ (c = b \/ c \in Dumped(r))
    BY <2>1 DEF Dumped, Inv, Typed, TypeOK
  <2>8. \A q \in Runs : Alone(q)' = Alone(q) /\ Home(q)' = Home(q)
    BY <2>1 DEF Alone, Home
  <2>9. \A q \in Runs \ {r} : Dumped(q)' = Dumped(q)
    BY <2>1 DEF Dumped
  <2>10. DumpsThere'
    <3>1. ASSUME NEW c \in Dumped(r)'
          PROVE  /\ files'[Home(r)][c] # Absent
                 /\ Alone(r) => files'[Home(r)][c] = Own(r)
      <4> HIDE DEF b, f
      <4>1. CASE c = b
        BY <2>3, <2>4, <2>5, <4>1
      <4>2. CASE c # b
        BY <2>5, <2>7, <4>2 DEF Inv, DumpsThere
      <4> QED BY <4>1, <4>2
    <3>2. ASSUME NEW q \in Runs, NEW c \in Dumped(q)'
          PROVE  /\ files'[Home(q)][c] # Absent
                 /\ Alone(q) => files'[Home(q)][c] = Own(q)
      BY <2>6, <2>9, <3>1
    <3> QED BY <2>8, <3>2 DEF DumpsThere, Own, Absent
  <2>11. NothingElse'
    BY <2>1, <2>6 DEF Inv, NothingElse, Absent
  <2>12. Places'
    BY <2>1 DEF Inv, Places, AtWork
  <2>13. Witnessed'
    <3>1. ASSUME NEW q \in Runs PROVE AtWork(q)' = AtWork(q)
      BY <2>1 DEF AtWork
    <3>2. ASSUME NEW q \in Runs PROVE Neighbours(q)' = Neighbours(q)
      BY <2>8, <3>1 DEF Neighbours
    <3> QED BY <2>1, <3>1, <3>2 DEF Inv, Witnessed
  <2>14. CopiesThere'
    <3>1. ASSUME NEW q \in Runs PROVE Archived(q)' = Archived(q)
      BY <2>1 DEF Archived
    <3> QED BY <2>1, <2>8, <3>1 DEF Inv, CopiesThere, Own, Absent
  <2> QED BY <2>10, <2>11, <2>12, <2>13, <2>14 DEF Inv
<1> QED BY <1>1, <1>2 DEF Open

(* A run goes on without touching a file or an archive. *)
LEMMA WorkStep ==
  ASSUME Inv, Typed', NEW r \in Runs,
         UNCHANGED <<setup, list, files, archive, outcome, shared>>,
         AtWork(r), pc'[r] \in {"dump", "write", "read"},
         \A q \in Runs \ {r} : pc'[q] = pc[q] /\ todo'[q] = todo[q],
         pc'[r] \in {"dump", "write"} => todo'[r] \subseteq list[r],
         pc'[r] = "read" /\ (~fixed \/ kind = "single") => todo'[r] \subseteq list[r],
         Dumped(r)' \subseteq Dumped(r), Archived(r)' \subseteq Archived(r)
  PROVE  Inv'
<1>1. Places'
  BY DEF Inv, Places, AtWork
<1>2. Witnessed'
  <2>1. ASSUME NEW q \in Runs PROVE AtWork(q)' = AtWork(q)
    BY DEF AtWork
  <2>2. ASSUME NEW q \in Runs PROVE Neighbours(q)' = Neighbours(q)
    BY <2>1 DEF Neighbours, Home
  <2> QED BY <2>1, <2>2 DEF Inv, Witnessed
<1>3. ASSUME NEW q \in Runs
      PROVE  /\ Dumped(q)' \subseteq Dumped(q) /\ Archived(q)' \subseteq Archived(q)
             /\ Alone(q)' = Alone(q)
  BY DEF Dumped, Archived, Alone
<1>4. DumpsThere' /\ CopiesThere'
  BY <1>3 DEF Inv, DumpsThere, CopiesThere, Own, Absent, Home
<1>5. NothingElse'
  BY DEF Inv, NothingElse, Absent
<1> QED BY <1>1, <1>2, <1>4, <1>5 DEF Inv

LEMMA CloseStep ==
  ASSUME Inv, Typed', NEW r \in Runs, Close(r)
  PROVE  Inv'
<1> DEFINE b == Min(todo[r])
<1>0. pc[r] = "write" /\ todo[r] # {} /\ b \in todo[r] /\ b \in Databases /\ outcome[r] = "none"
      /\ UNCHANGED <<setup, list, archive, shared>>
  BY MinIs DEF Close, Inv, Typed, TypeOK, Places, AtWork
<1>1. CASE Fail(r) /\ files' = [files EXCEPT ![Home(r)][b].torn = TRUE] /\ UNCHANGED todo
  <2>1. /\ pc'[r] \in {"cleanup", "killed"}
        /\ outcome'[r] = outcome[r] \/ outcome'[r] = "failed"
        /\ \A q \in Runs \ {r} : pc'[q] = pc[q] /\ outcome'[q] = outcome[q]
    BY <1>1, FailIs DEF Inv, Fail, Goto, Typed, TypeOK
  <2>2. Places' /\ Witnessed' /\ CopiesThere'
    BY <1>0, <1>1, <2>1, QuitKeeps
  <2>3. /\ files'[Home(r)][b] # Absent
        /\ \A d \in Homes : d # Home(r) => files'[d] = files[d]
        /\ \A c \in Databases : c # b => files'[Home(r)][c] = files[Home(r)][c]
    BY <1>0, <1>1, TornIs, HomeType DEF Inv
  <2>4. /\ \A q \in Runs \ {r} : \A c \in Dumped(q) :
              /\ files'[Home(q)][c] # Absent
              /\ Alone(q) => files'[Home(q)][c] = Own(q)
        /\ \A q \in Runs : \A c \in Databases \ list[q] :
              ~fixed => files'[q][c] = Absent
    BY <1>0, <2>3, WriteSpares
  <2>5. Dumped(r)' = {}
    BY <2>1 DEF Dumped
  <2>6. ASSUME NEW q \in Runs \ {r}
        PROVE  Dumped(q)' = Dumped(q) /\ Alone(q)' = Alone(q) /\ Home(q)' = Home(q)
    BY <1>0, <1>1, <2>1 DEF Dumped, Alone, Home
  <2>7. DumpsThere'
    BY <2>4, <2>5, <2>6 DEF DumpsThere, Own, Absent
  <2>8. NothingElse'
    BY <1>0, <2>4 DEF Inv, NothingElse, Absent
  <2> QED BY <2>2, <2>7, <2>8 DEF Inv
<1>2. CASE /\ Goto(r, "dump") /\ UNCHANGED <<files, outcome>>
           /\ todo' = [todo EXCEPT ![r] = @ \ {b}]
  <2>1. /\ pc'[r] = "dump" /\ todo'[r] = todo[r] \ {b}
        /\ \A q \in Runs \ {r} : pc'[q] = pc[q] /\ todo'[q] = todo[q]
    BY <1>2 DEF Goto, Inv, Typed, TypeOK
  <2>2. Dumped(r)' \subseteq Dumped(r) /\ Archived(r)' \subseteq Archived(r)
    BY <1>0, <1>2, <2>1 DEF Dumped, Archived
  <2>3. todo'[r] \subseteq list[r]
    BY <1>0, <2>1 DEF Inv, Places
  <2> QED BY <1>0, <1>2, <2>1, <2>2, <2>3, WorkStep DEF AtWork
<1> QED BY <1>1, <1>2 DEF Close

LEMMA SendStep ==
  ASSUME Inv, Typed', NEW r \in Runs, Zip(r) \/ SendDump(r)
  PROVE  Inv'
<1>1. pc[r] = "dump" /\ todo[r] = {} /\ outcome[r] = "none" /\ AtWork(r)
      /\ UNCHANGED <<setup, list, files, archive, shared>>
  BY DEF Zip, SendDump, Inv, Places, AtWork
<1>2. CASE Zip(r) /\ Fail(r) /\ UNCHANGED <<temps, todo>>
  BY <1>1, <1>2, FailStep
<1>3. ASSUME NEW S, Goto(r, "read"), UNCHANGED outcome, todo' = [todo EXCEPT ![r] = S],
             list[r] \subseteq S, ~fixed \/ kind = "single" => S \subseteq list[r]
      PROVE  Inv'
  <2>1. /\ pc'[r] = "read" /\ todo'[r] = S
        /\ \A q \in Runs \ {r} : pc'[q] = pc[q] /\ todo'[q] = todo[q]
    BY <1>3 DEF Goto, Inv, Typed, TypeOK
  <2>2. Dumped(r)' \subseteq Dumped(r) /\ Archived(r)' \subseteq Archived(r)
    BY <1>1, <1>3, <2>1 DEF Dumped, Archived
  <2> QED BY <1>1, <1>3, <2>1, <2>2, WorkStep
<1>4. CASE /\ Zip(r) /\ Goto(r, "read") /\ UNCHANGED outcome
           /\ todo' = [todo EXCEPT ![r] = {b \in Databases : files[Home(r)][b] # Absent}]
  <2> DEFINE S == {b \in Databases : files[Home(r)][b] # Absent}
  <2>1. list[r] \subseteq S
    <3> SUFFICES ASSUME NEW b \in list[r] PROVE b \in S
      OBVIOUS
    <3>1. b \in Databases
      BY DEF Inv, Typed, TypeOK
    <3>2. b \in Dumped(r)
      BY <1>1 DEF Dumped
    <3> QED BY <3>1, <3>2 DEF Inv, DumpsThere
  <2>2. kind # "single"
    BY <1>4 DEF Zip
  <2>3. ~fixed => S \subseteq list[r]
    BY DEF Inv, NothingElse, Home
  <2> HIDE DEF S
  <2> QED BY <1>3, <1>4, <2>1, <2>2, <2>3 DEF S
<1>5. CASE SendDump(r)
  BY <1>3, <1>5 DEF SendDump
<1> QED BY <1>2, <1>4, <1>5 DEF Zip

(* What a copy holds, of a file that is there. *)
LEMMA CopyIs ==
  ASSUME NEW r \in Runs, NEW file \in Contents, NEW torn \in BOOLEAN,
         NEW copy, copy = [from |-> file.from, torn |-> file.torn \/ torn]
  PROVE  /\ file # Absent => copy # Absent
         /\ file = Own(r) /\ torn = FALSE => copy = Own(r)
<1>1. ASSUME copy = Absent PROVE file = Absent
  <2>1. copy.from = {} /\ copy.torn = FALSE
    BY <1>1 DEF Absent
  <2>2. file.from = {} /\ (file.torn \/ torn) = FALSE
    BY <2>1
  <2>3. file.torn \in BOOLEAN
    BY DEF Contents
  <2>4. file.torn = FALSE
    BY <2>2, <2>3
  <2> QED BY <2>2, <2>4 DEF Absent, Contents
<1>2. ASSUME file = Own(r), torn = FALSE PROVE copy = Own(r)
  <2>1. file.from = {r} /\ file.torn = FALSE
    BY <1>2 DEF Own
  <2>2. (file.torn \/ torn) = FALSE
    BY <1>2, <2>1
  <2> QED BY <2>1, <2>2 DEF Own
<1> QED BY <1>1, <1>2

LEMMA AddFileStep ==
  ASSUME Inv, Typed', NEW r \in Runs, AddFile(r)
  PROVE  Inv'
<1> DEFINE b == Min(todo[r])
           file == files[Home(r)][b]
<1>0. /\ pc[r] = "read" /\ AtWork(r) /\ outcome[r] = "none"
      /\ b \in todo[r] /\ b \in Databases /\ file \in Contents
      /\ UNCHANGED <<setup, list, files, shared>>
  BY MinIs, HomeType DEF AddFile, Inv, Typed, TypeOK, Places, AtWork
<1>1. CASE Fail(r) /\ UNCHANGED <<archive, todo>>
  BY <1>0, <1>1, FailStep
<1>2. ASSUME NEW torn \in {file.torn} \cup {Meddlers(r) # {}},
             NEW copy, copy = [from |-> file.from, torn |-> file.torn \/ torn],
             archive' = [archive EXCEPT ![r][b] = copy],
             todo' = [todo EXCEPT ![r] = @ \ {b}], UNCHANGED <<pc, outcome>>
      PROVE  Inv'
  <2> HIDE DEF b
  <2>1. torn \in BOOLEAN
    BY <1>0, <1>2 DEF Contents
  <2>2. todo'[r] = todo[r] \ {b} /\ \A q \in Runs \ {r} : todo'[q] = todo[q]
    BY <1>2 DEF Inv, Typed, TypeOK
  <2>3. /\ archive'[r][b] = copy
        /\ \A c \in Databases : c # b => archive'[r][c] = archive[r][c]
        /\ \A q \in Runs \ {r} : archive'[q] = archive[q]
    BY <1>0, <1>2 DEF Inv, Typed, TypeOK
  <2>4. \A q \in Runs : /\ Alone(q)' = Alone(q) /\ Home(q)' = Home(q)
                        /\ AtWork(q)' = AtWork(q)
    BY <1>0, <1>2 DEF Alone, Home, AtWork
  <2>5. Places'
    BY <1>0, <1>2, <2>2 DEF Inv, Places, AtWork
  <2>6. Witnessed'
    <3>1. ASSUME NEW q \in Runs PROVE Neighbours(q)' = Neighbours(q)
      BY <2>4 DEF Neighbours
    <3> QED BY <1>0, <2>4, <3>1 DEF Inv, Witnessed
  <2>7. DumpsThere'
    <3>1. ASSUME NEW q \in Runs PROVE Dumped(q)' \subseteq Dumped(q)
      BY <1>0, <1>2, <2>2 DEF Dumped
    <3> QED BY <1>0, <2>4, <3>1 DEF Inv, DumpsThere, Own, Absent
  <2>8. b \in list[r] => /\ copy # Absent
                         /\ Alone(r) => copy = Own(r)
    <3> SUFFICES ASSUME b \in list[r] PROVE copy # Absent /\ (Alone(r) => copy = Own(r))
      OBVIOUS
    <3>1. file # Absent /\ (Alone(r) => file = Own(r))
      BY <1>0 DEF Dumped, Inv, DumpsThere
    <3>2. copy # Absent
      BY <1>0, <1>2, <2>1, <3>1, CopyIs
    <3>3. ASSUME Alone(r) PROVE copy = Own(r)
      <4>1. Meddlers(r) = {}
        BY <1>0, <3>3, NoMeddlers DEF Inv
      <4>2. file = Own(r) /\ file.torn = FALSE
        BY <3>1, <3>3 DEF Own
      <4>3. torn = FALSE
        BY <1>2, <4>1, <4>2
      <4> QED BY <1>0, <1>2, <2>1, <4>2, <4>3, CopyIs
    <3> QED BY <3>2, <3>3
  <2>9. CopiesThere'
    <3>1. ASSUME NEW q \in Runs, NEW c \in Archived(q)'
          PROVE  /\ archive'[q][c] # Absent
                 /\ Alone(q) => archive'[q][c] = Own(q)
      <4>1. c \in list[q] /\ c \in Databases
        BY <1>0 DEF Archived, Inv, Typed, TypeOK
      <4>2. CASE q = r /\ c = b
        BY <2>3, <2>8, <4>1, <4>2
      <4>3. CASE ~ (q = r /\ c = b)
        <5>1. c \in Archived(q)
          BY <1>0, <1>2, <2>2, <4>1, <4>3 DEF Archived
        <5>2. archive'[q][c] = archive[q][c]
          BY <2>3, <4>1, <4>3
        <5> QED BY <5>1, <5>2 DEF Inv, CopiesThere
      <4> QED BY <4>2, <4>3
    <3> QED BY <2>4, <3>1 DEF CopiesThere, Own, Absent
  <2>10. NothingElse'
    <3>1. ~fixed \/ kind = "single" => b \in list[r]
      BY <1>0 DEF Inv, Places
    <3> QED BY <1>0, <2>3, <3>1 DEF Inv, NothingElse, Absent
  <2> QED BY <2>5, <2>6, <2>7, <2>9, <2>10 DEF Inv
<1> QED BY <1>1, <1>2 DEF AddFile

LEMMA UploadStep ==
  ASSUME Inv, Typed', NEW r \in Runs, Upload(r)
  PROVE  Inv'
<1>0. /\ pc[r] = "read" /\ todo[r] = {} /\ AtWork(r)
      /\ UNCHANGED <<setup, list, todo, files, archive, shared>>
  BY DEF Upload, AtWork
<1>1. CASE Fail(r)
  BY <1>0, <1>1, FailStep
<1>2. CASE Goto(r, "cleanup") /\ outcome' = [outcome EXCEPT ![r] = "ok"]
  <2>1. /\ pc'[r] = "cleanup" /\ outcome'[r] = "ok"
        /\ \A q \in Runs \ {r} : pc'[q] = pc[q] /\ outcome'[q] = outcome[q]
    BY <1>2 DEF Goto, Inv, Typed, TypeOK
  <2>2. ASSUME NEW q \in Runs
        PROVE  /\ Dumped(q)' \subseteq Dumped(q) /\ Archived(q)' \subseteq Archived(q)
               /\ Alone(q)' = Alone(q) /\ (AtWork(q)' => AtWork(q)) /\ Home(q)' = Home(q)
    BY <1>0, <2>1 DEF Dumped, Archived, Alone, AtWork, Home
  <2>3. Places'
    BY <1>0, <2>1 DEF Inv, Places, AtWork
  <2>4. Witnessed'
    <3>1. ASSUME NEW q \in Runs PROVE Neighbours(q)' \subseteq Neighbours(q)
      BY <2>2 DEF Neighbours
    <3> QED BY <1>0, <2>2, <3>1 DEF Inv, Witnessed
  <2>5. DumpsThere' /\ CopiesThere'
    BY <1>0, <2>2 DEF Inv, DumpsThere, CopiesThere, Own, Absent
  <2>6. NothingElse'
    BY <1>0 DEF Inv, NothingElse, Absent
  <2> QED BY <2>3, <2>4, <2>5, <2>6 DEF Inv
<1> QED BY <1>1, <1>2 DEF Upload

LEMMA CleanUpStep ==
  ASSUME Inv, Typed', NEW r \in Runs, CleanUp(r)
  PROVE  Inv'
<1>1. /\ pc[r] = "cleanup" /\ pc'[r] = "done" /\ \A q \in Runs \ {r} : pc'[q] = pc[q]
      /\ UNCHANGED <<setup, list, todo, archive, outcome, shared>>
  BY DEF CleanUp, Goto, Inv, Typed, TypeOK
<1>2. Places' /\ Witnessed' /\ CopiesThere'
  BY <1>1, QuitKeeps
<1>3. /\ \A q \in Homes : fixed \/ q # r => files'[q] = files[q]
      /\ files'[r] = files[r] \/ files'[r] = [b \in Databases |-> Absent]
  BY DEF CleanUp, Inv, Typed, TypeOK, Homes
<1>4. Dumped(r)' = {}
  BY <1>1 DEF Dumped
<1>5. ASSUME NEW q \in Runs \ {r}
      PROVE  /\ Dumped(q)' = Dumped(q) /\ Alone(q)' = Alone(q) /\ Home(q)' = Home(q)
             /\ files'[Home(q)] = files[Home(q)]
  BY <1>1, <1>3, HomeType DEF Dumped, Alone, Home
<1>6. DumpsThere'
  BY <1>4, <1>5 DEF Inv, DumpsThere, Own, Absent
<1>7. NothingElse'
  <2>1. ASSUME NEW q \in Runs, NEW c \in Databases \ list[q], ~fixed
        PROVE  files'[q][c] = Absent
    <3>1. files[q][c] = Absent /\ q \in Homes
      BY <2>1 DEF Inv, NothingElse, Homes
    <3>2. files'[q] = files[q] \/ files'[q] = [b \in Databases |-> Absent]
      BY <1>3, <3>1
    <3> QED BY <3>1, <3>2
  <2> QED BY <1>1, <2>1 DEF Inv, NothingElse, Absent
<1> QED BY <1>2, <1>6, <1>7 DEF Inv

LEMMA InvStep == Inv /\ [Next]_vars => Inv'
<1> SUFFICES ASSUME Inv, [Next]_vars PROVE Inv'
  OBVIOUS
<1>1. Typed'
  BY TypedStep DEF Inv
<1>2. CASE ServerChanges \/ Exit \/ UNCHANGED vars
  BY <1>1, <1>2, EndStep
<1>3. ASSUME NEW r \in Runs,
             \/ Begin(r) \/ ListDatabases(r) \/ NameDump(r)
             \/ Open(r) \/ Close(r) \/ Zip(r) \/ SendDump(r)
             \/ AddFile(r) \/ Upload(r) \/ CleanUp(r)
             \/ OrphanEnds(r)
      PROVE  Inv'
  BY <1>1, <1>3, BeginStep, ListingStep, OpenStep, CloseStep, SendStep, AddFileStep,
     UploadStep, CleanUpStep, EndStep
<1> QED BY <1>2, <1>3 DEF Next

LEMMA InvHolds == Spec => []Inv
  BY InvInit, InvStep, PTL DEF Spec

(* What is in the archive of a run that was left alone and holds nothing    *)
(* else.                                                                    *)
LEMMA ArchiveIs ==
  ASSUME Inv, NEW r \in Runs, outcome[r] = "ok", Alone(r), ~fixed \/ kind = "single"
  PROVE  archive[r] = [b \in Databases |-> IF b \in list[r] THEN Own(r) ELSE Absent]
<1>1. archive[r] \in [Databases -> Contents] /\ list[r] \subseteq Databases
  BY DEF Inv, Typed, TypeOK
<1>2. \A b \in list[r] : archive[r][b] = Own(r)
  BY DEF Inv, CopiesThere, Archived
<1>3. \A b \in Databases \ list[r] : archive[r][b] = Absent
  BY DEF Inv, NothingElse
<1> QED BY <1>1, <1>2, <1>3

-----------------------------------------------------------------------------
(* The properties. *)

(* Every variable keeps its type, and a command that writes has a file.     *)
THEOREM TypeCorrect == Spec => []TypeOK
<1>1. Typed => TypeOK
  BY DEF Typed
<1> QED BY <1>1, TypedHolds, PTL

(* On no path of error does a run that has returned leave a temporary       *)
(* directory that it could have removed.                                    *)
THEOREM NoTempStays == Spec => []NoTempLeft
<1>1. Typed => NoTempLeft
  BY DEF Typed
<1> QED BY <1>1, TypedHolds, PTL

(* With temporary directories an archive is the run's own complete dump,    *)
(* whatever overlaps and whatever earlier processes left.                   *)
THEOREM OwnDumpOnly == Spec => []ArchiveIsOwnDump
<1>1. Inv => ArchiveIsOwnDump
  BY ArchiveIs DEF ArchiveIsOwnDump, Alone
<1> QED BY <1>1, InvHolds, PTL

(* With a configured directory an archive misses no database, and is the    *)
(* run's own if no other was at work next to it.                            *)
THEOREM DumpIsCovered == Spec => []ArchiveCoversDump
<1>1. Inv => ArchiveCoversDump
  BY DEF Inv, CopiesThere, Archived, ArchiveCoversDump, Alone
<1> QED BY <1>1, InvHolds, PTL

(* A single dump in a configured directory is the run's own and complete,   *)
(* unless another run named its dump in the same second.                    *)
THEOREM SingleIsOwn == Spec => []SingleDumpIsOwn
<1>1. Inv => SingleDumpIsOwn
  BY ArchiveIs DEF SingleDumpIsOwn, Alone
<1> QED BY <1>1, InvHolds, PTL

=============================================================================
