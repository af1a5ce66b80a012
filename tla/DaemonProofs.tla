----------------------------- MODULE DaemonProofs -----------------------------
(****************************************************************************)
(* Proofs about Daemon, for any number of scheduled jobs.  One inductive    *)
(* invariant has all that the properties need: what each place of the main  *)
(* goroutine knows of the first run, the schedule, the tracer and the exit  *)
(* status.                                                                  *)
(****************************************************************************)
EXTENDS Daemon, TLAPS

USE DEF vars, setup, trace

(* What the exit status may be for a process that ends by itself. *)
RightCode ==
  \/ code = "0" /\ schedule = "none" /\ run[First] = "ok"
  \/ code = "0" /\ schedule = "valid" /\ cancelled
  \/ code = "1" /\ schedule = "none" /\ run[First] = "error"
  \/ code = "1" /\ schedule = "invalid"

(* The main goroutine before its first run, in it and behind it; that run   *)
(* has no goroutine of its own.                                             *)
FirstRun ==
  /\ run[First] # "spawned"
  /\ pc \in {"boot", "container", "first"} => run[First] = "none"
  /\ pc = "wait_first" => run[First] # "lost"
  /\ pc \in {"schedule", "serve", "close", "exit"} => Over(First)

(* The library runs between its start and its stop. *)
Service ==
  /\ ticking => pc = "serve"
  /\ pc \in {"schedule", "serve"} => schedule # "none"
  /\ pc = "serve" => schedule = "valid"

Status ==
  /\ pc \in {"close", "exit"} => RightCode
  /\ pc \notin {"close", "exit", "exited"} => code = "none"

(* A span is of a run that has ended, and waits for export or is exported;  *)
(* none waits once the tracer has shut down well.                           *)
Spans ==
  /\ \A j \in spans \cup exported : Over(j)
  /\ pc = "exit" /\ tracing => /\ flushed # "not_called"
                               /\ flushed = "ok" => spans = {}

(* A process that is gone. *)
Afterwards == ExitStatus /\ FlushedOnReturn

Inv == TypeOK /\ FirstRun /\ Service /\ Status /\ Spans /\ Afterwards

LEMMA InvInit == Init => Inv
<1> SUFFICES ASSUME Init PROVE Inv
  OBVIOUS
<1>1. run \in [Runs -> {"none", "spawned", "running", "ok", "error", "lost"}] /\ run[First] = "none"
  BY DEF Init, Runs
<1>2. cancelled \in BOOLEAN /\ ticking \in BOOLEAN /\ tracing \in BOOLEAN
  BY DEF Init
<1>3. TypeOK
  BY <1>1, <1>2 DEF Init, TypeOK, PCs
<1>4. FirstRun /\ Service /\ Status /\ Spans /\ Afterwards
  BY <1>1 DEF Init, FirstRun, Service, Status, Spans, Afterwards, ExitStatus,
              FlushedOnReturn
<1> QED BY <1>3, <1>4 DEF Inv

(* However the process goes, its end is told by the status given. *)
LEMMA GoneStep ==
  ASSUME Inv, pc # "exited", NEW c \in {"signal", "0", "1"}, Gone(c),
         \/ c = "signal"
         \/ c = "1" /\ pc \in {"boot", "container"}
         \/ c = code /\ pc = "exit"
  PROVE  Inv'
<1>1. run' \in [Runs -> {"none", "spawned", "running", "ok", "error", "lost"}]
  BY DEF Gone, InFlight, Inv, TypeOK
<1>2. \A j \in Runs : Over(j) => run'[j] = run[j]
  BY DEF Gone, InFlight, Over
<1>3. First \in Runs
  BY DEF Runs
<1>4. (run[First] = "none" => run'[First] = "none") /\ run'[First] # "spawned"
  BY <1>3 DEF Gone, InFlight
<1>5. (TypeOK /\ FirstRun /\ Service /\ Status)'
  BY <1>1, <1>2, <1>4 DEF Gone, Inv, TypeOK, FirstRun, Service, Status, PCs
<1>6. Spans'
  BY <1>2 DEF Gone, Inv, TypeOK, Spans, Over
<1>7. Afterwards'
  <2>1. CASE c = "signal"
    BY <2>1 DEF Gone, Afterwards, ExitStatus, FlushedOnReturn
  <2>2. CASE c = "1" /\ pc \in {"boot", "container"}
    BY <1>4, <2>2 DEF Gone, Inv, FirstRun, Afterwards, ExitStatus, FlushedOnReturn
  <2>3. CASE c = code /\ pc = "exit"
    BY <1>2, <1>3, <2>3
    DEF Gone, Inv, FirstRun, Status, RightCode, Spans, Afterwards, ExitStatus,
        FlushedOnReturn, Over
  <2> QED BY <2>1, <2>2, <2>3
<1> QED BY <1>5, <1>6, <1>7 DEF Inv

LEMMA InvStep == Inv /\ [Next]_vars => Inv'
<1> SUFFICES ASSUME Inv, [Next]_vars PROVE Inv'
  OBVIOUS
<1>1. CASE Signal
  <2>1. CASE pc = "boot"
    BY <1>1, <2>1, GoneStep DEF Signal
  <2>2. CASE pc # "boot"
    BY <1>1, <2>2
    DEF Signal, Inv, TypeOK, FirstRun, Service, Status, RightCode, Spans, Afterwards,
        ExitStatus, FlushedOnReturn, Over
  <2> QED BY <2>1, <2>2
<1>2. CASE Kill
  BY <1>2, GoneStep DEF Kill
<1>3. CASE Export
  BY <1>3
  DEF Export, Inv, TypeOK, FirstRun, Service, Status, RightCode, Spans, Afterwards,
      ExitStatus, FlushedOnReturn, Over
<1>4. CASE Boot
  <2>1. CASE Gone("1")
    BY <1>4, <2>1, GoneStep DEF Boot
  <2>2. CASE pc' = "container" /\ UNCHANGED <<setup, cancelled, ticking, run, trace, code>>
    BY <1>4, <2>2
    DEF Boot, Inv, TypeOK, FirstRun, Service, Status, Spans, Afterwards, ExitStatus,
        FlushedOnReturn, Over, PCs
  <2> QED BY <1>4, <2>1, <2>2 DEF Boot
<1>5. CASE NewContainer
  <2>1. CASE Gone("1")
    BY <1>5, <2>1, GoneStep DEF NewContainer
  <2>2. CASE pc' = "first" /\ UNCHANGED <<setup, cancelled, ticking, run, trace, code>>
    BY <1>5, <2>2
    DEF NewContainer, Inv, TypeOK, FirstRun, Service, Status, Spans, Afterwards,
        ExitStatus, FlushedOnReturn, Over, PCs
  <2> QED BY <1>5, <2>1, <2>2 DEF NewContainer
<1>6. CASE StartFirst
  BY <1>6
  DEF StartFirst, Runs, Inv, TypeOK, FirstRun, Service, Status, Spans,
      Afterwards, ExitStatus, FlushedOnReturn, Over, PCs
<1>7. ASSUME NEW j \in Runs, Tick(j) \/ Begin(j) PROVE Inv'
  <2>1. PICK st \in {"spawned", "running"} : run' = [run EXCEPT ![j] = st]
    BY <1>7 DEF Tick, Begin
  <2>2. \A i \in Runs : Over(i) => i # j
    BY <1>7 DEF Tick, Begin, Over
  <2>3. /\ pc # "exited" /\ pc' = pc /\ code' = code /\ cancelled' = cancelled
        /\ ticking' = ticking /\ UNCHANGED <<setup, trace>>
    BY <1>7 DEF Tick, Begin, Inv, Service
  <2>4. j # First
    BY <1>7 DEF Tick, Begin, Inv, FirstRun
  <2>5. \A i \in Runs : i # j => run'[i] = run[i]
    BY <2>1 DEF Inv, TypeOK
  <2>6. run' \in [Runs -> {"none", "spawned", "running", "ok", "error", "lost"}]
    BY <2>1 DEF Inv, TypeOK
  <2>7. First \in Runs
    BY DEF Runs
  <2>8. (TypeOK /\ FirstRun /\ Service)'
    BY <2>2, <2>3, <2>4, <2>5, <2>6, <2>7
    DEF Inv, TypeOK, FirstRun, Service, Over
  <2>9. (Status /\ Spans /\ Afterwards)'
    BY <2>2, <2>3, <2>4, <2>5, <2>7
    DEF Inv, TypeOK, Status, RightCode, Spans, Afterwards, ExitStatus,
        FlushedOnReturn, Over
  <2> QED BY <2>8, <2>9 DEF Inv
<1>8. ASSUME NEW j \in Runs, RunEnds(j) PROVE Inv'
  <2>1. PICK res \in {"ok", "error"} : run' = [run EXCEPT ![j] = res]
    BY <1>8 DEF RunEnds
  <2>2. \A i \in Runs : Over(i) => i # j
    BY <1>8 DEF RunEnds, Over
  <2>3. (TypeOK /\ FirstRun /\ Service)'
    BY <1>8, <2>1, <2>2
    DEF RunEnds, Runs, Inv, TypeOK, FirstRun, Service, Spans, Over
  <2>4. (Status /\ Spans /\ Afterwards)'
    BY <1>8, <2>1, <2>2
    DEF RunEnds, Runs, Inv, TypeOK, FirstRun, Status, RightCode, Spans, Afterwards,
        ExitStatus, FlushedOnReturn, Over
  <2> QED BY <2>3, <2>4 DEF Inv
<1>9. CASE AfterFirst
  BY <1>9
  DEF AfterFirst, Inv, TypeOK, FirstRun, Service, Status, RightCode, Spans, Afterwards,
      ExitStatus, FlushedOnReturn, Over, PCs
<1>10. CASE StartSchedule
  BY <1>10
  DEF StartSchedule, Inv, TypeOK, FirstRun, Service, Status, RightCode, Spans,
      Afterwards, ExitStatus, FlushedOnReturn, Over, PCs
<1>11. CASE Stop
  BY <1>11
  DEF Stop, Inv, TypeOK, FirstRun, Service, Status, RightCode, Spans, Afterwards,
      ExitStatus, FlushedOnReturn, Over, PCs
<1>12. CASE Close
  BY <1>12
  DEF Close, Inv, TypeOK, FirstRun, Service, Status, RightCode, Spans, Afterwards,
      ExitStatus, FlushedOnReturn, Over, PCs
<1>13. CASE Leave
  BY <1>13, GoneStep DEF Leave, Inv, Status, RightCode
<1>14. CASE UNCHANGED vars
  BY <1>14
  DEF Inv, TypeOK, FirstRun, Service, Status, RightCode, Spans, Afterwards, ExitStatus,
      FlushedOnReturn, Over
<1> QED
  BY <1>1, <1>2, <1>3, <1>4, <1>5, <1>6, <1>7, <1>8, <1>9, <1>10, <1>11, <1>12,
     <1>13, <1>14 DEF Next, Main

LEMMA Invariant == Spec => []Inv
  BY InvInit, InvStep, PTL DEF Spec

(* TypeOK for any number of jobs. *)
THEOREM TypeCorrect == Spec => []TypeOK
<1>1. Inv => TypeOK
  BY DEF Inv
<1> QED BY <1>1, Invariant, PTL

(* The exit status tells what happened, whatever signals come and whatever  *)
(* jobs are in flight.                                                      *)
THEOREM StatusIsRight == Spec => []ExitStatus
<1>1. Inv => ExitStatus
  BY DEF Inv, Afterwards
<1> QED BY <1>1, Invariant, PTL

(* A process that returns by itself has shut its tracer down. *)
THEOREM TracerIsFlushed == Spec => []FlushedOnReturn
<1>1. Inv => FlushedOnReturn
  BY DEF Inv, Afterwards
<1> QED BY <1>1, Invariant, PTL

(* However the shutdown and the ticks interleave, no job is spawned outside *)
(* the service of the schedule, though one spawned in it may begin later.   *)
THEOREM SpawnsInService == Spec => SpawnsWithinService
<1>1. Inv /\ [Next]_vars =>
        [\A j \in Jobs : run[j] = "none" /\ run'[j] # "none" =>
           Over(First) /\ pc = "serve"]_vars
  <2> SUFFICES ASSUME Inv, [Next]_vars, NEW j \in Jobs, run[j] = "none", run'[j] # "none"
               PROVE  Over(First) /\ pc = "serve"
    OBVIOUS
  <2>1. \A c : ~Gone(c)
    BY DEF Gone, InFlight, Runs
  <2>2. \A i \in Runs : ~Begin(i) /\ ~RunEnds(i)
    BY DEF Begin, RunEnds, Inv, TypeOK, Runs
  <2>3. PICK i \in Runs : Tick(i)
    BY <2>1, <2>2, FirstAssumption
    DEF Next, Main, Signal, Kill, Export, Boot, NewContainer, StartFirst,
        AfterFirst, StartSchedule, Stop, Close, Leave, Runs, Inv, TypeOK
  <2> QED BY <2>3 DEF Tick, Inv, Service, FirstRun
<1> QED BY <1>1, Invariant, PTL DEF Spec, SpawnsWithinService

=============================================================================
