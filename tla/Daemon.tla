-------------------------------- MODULE Daemon --------------------------------
(****************************************************************************)
(* The life of one rclonarr process: run of cmd/main.go, RunDaemon of       *)
(* internal/platform/schedule/runner.go and the Container of                *)
(* internal/di/container.go, around the backup runs that Orchestrator       *)
(* describes.  Here a run only begins, takes any time, and ends.            *)
(*                                                                          *)
(* Without a schedule the process makes one run.  With one it makes a       *)
(* bootstrap run, and then the cron library spawns a goroutine at every     *)
(* tick, until a signal.  The goroutine begins its run when it is           *)
(* scheduled, which may be after the library was stopped and while the      *)
(* tracer shuts down.  A run that ends leaves a span with the tracer, which *)
(* exports it in time or when it is shut down.                              *)
(****************************************************************************)
EXTENDS Integers, FiniteSets

CONSTANTS
  Jobs,   \* ticks of the schedule
  First   \* the run that comes before them

ASSUME FirstAssumption == First \notin Jobs

Runs == Jobs \cup {First}

VARIABLES
  schedule,   \* APP_SCHEDULE: "none", or an expression that parses or not
  tracing,    \* APP_ENABLE_OTEL
  pc,         \* what the main goroutine does next
  cancelled,  \* the signal context is cancelled
  ticking,    \* the cron library runs
  run,        \* run[j]: the state of a run
  spans,      \* runs whose span waits for export
  exported,   \* runs whose span is exported
  flushed,    \* how the shutdown of the tracer went
  code        \* the exit status of the process

setup == <<schedule, tracing>>
trace == <<spans, exported, flushed>>
vars == <<setup, pc, cancelled, ticking, run, trace, code>>

PCs == {"boot", "container", "first", "wait_first", "schedule", "serve", "close",
        "exit", "exited"}

Over(j) == run[j] \in {"ok", "error"}

(* A goroutine of the job exists. *)
InFlight(j) == run[j] \in {"spawned", "running"}

-----------------------------------------------------------------------------

Init ==
  /\ schedule \in {"none", "valid", "invalid"}
  /\ tracing \in BOOLEAN
  /\ pc = "boot"
  /\ cancelled = FALSE
  /\ ticking = FALSE
  /\ run = [j \in Runs |-> "none"]
  /\ spans = {}
  /\ exported = {}
  /\ flushed = "not_called"
  /\ code = "none"

(* Nothing runs on in a process that is gone. *)
Gone(c) ==
  /\ pc' = "exited"
  /\ code' = c
  /\ ticking' = FALSE
  /\ run' = [j \in Runs |-> IF InFlight(j) THEN "lost" ELSE run[j]]
  /\ UNCHANGED <<setup, cancelled, trace>>

(* SIGINT or SIGTERM: before NotifyContext it ends the process, after it    *)
(* it cancels the context.  A second signal changes nothing.                *)
Signal ==
  IF pc = "boot"
  THEN Gone("signal")
  ELSE /\ pc # "exited"
       /\ ~cancelled
       /\ cancelled' = TRUE
       /\ UNCHANGED <<setup, pc, ticking, run, trace, code>>

(* SIGKILL, or a crash. *)
Kill == pc # "exited" /\ Gone("signal")

(* The span processor exports what it holds, in its own time. *)
Export ==
  /\ pc # "exited"
  /\ spans # {}
  /\ exported' = exported \cup spans
  /\ spans' = {}
  /\ UNCHANGED <<setup, pc, cancelled, ticking, run, flushed, code>>

(* initLogger and loadEnvironment: what fails there ends the process at     *)
(* once, with status 1.                                                     *)
Boot ==
  /\ pc = "boot"
  /\ \/ /\ pc' = "container"
        /\ UNCHANGED <<setup, cancelled, ticking, run, trace, code>>
     \/ Gone("1")

(* NewContainer, which sets the tracer up.  A failure is fatal, too. *)
NewContainer ==
  /\ pc = "container"
  /\ \/ /\ pc' = "first"
        /\ UNCHANGED <<setup, cancelled, ticking, run, trace, code>>
     \/ tracing /\ Gone("1")

-----------------------------------------------------------------------------
(* Runs: Container.RunOnce, called by run, runBackup and the cron library.  *)

(* The first run, whatever the schedule: the main goroutine calls RunOnce.  *)
StartFirst ==
  /\ pc = "first"
  /\ run' = [run EXCEPT ![First] = "running"]
  /\ pc' = "wait_first"
  /\ UNCHANGED <<setup, cancelled, ticking, trace, code>>

(* A tick: the library spawns a goroutine for the job, and waits for no     *)
(* earlier one.                                                             *)
Tick(j) ==
  /\ ticking
  /\ j # First
  /\ run[j] = "none"
  /\ run' = [run EXCEPT ![j] = "spawned"]
  /\ UNCHANGED <<setup, pc, cancelled, ticking, trace, code>>

(* The goroutine gets to runBackup and RunOnce: nobody asks again whether   *)
(* the library was stopped or the tracer shut down in the meantime.         *)
Begin(j) ==
  /\ pc # "exited"
  /\ run[j] = "spawned"
  /\ run' = [run EXCEPT ![j] = "running"]
  /\ UNCHANGED <<setup, pc, cancelled, ticking, trace, code>>

(* A run ends, and with it its span; after the tracer's shutdown spans are  *)
(* dropped.                                                                 *)
RunEnds(j) ==
  /\ pc # "exited"
  /\ run[j] = "running"
  /\ \E res \in {"ok", "error"} : run' = [run EXCEPT ![j] = res]
  /\ spans' = IF tracing /\ pc # "exit" THEN spans \cup {j} ELSE spans
  /\ UNCHANGED <<setup, pc, cancelled, ticking, exported, flushed, code>>

(* Slip: the bootstrap run goes to a goroutine of its own. *)
AfterFirstStarts ==
  /\ pc = "wait_first"
  /\ IF schedule = "none"
     THEN /\ Over(First)
          /\ pc' = "close"
          /\ code' = IF run[First] = "ok" THEN "0" ELSE "1"
     ELSE pc' = "schedule" /\ UNCHANGED code
  /\ UNCHANGED <<setup, cancelled, ticking, run, trace>>

(* Slip: a backup that failed is logged, and the process reports success. *)
AfterFirstOk ==
  /\ pc = "wait_first"
  /\ Over(First)
  /\ IF schedule = "none"
     THEN pc' = "close" /\ code' = "0"
     ELSE pc' = "schedule" /\ UNCHANGED code
  /\ UNCHANGED <<setup, cancelled, ticking, run, trace>>

(* runOnceExit, or the rest of RunDaemon: a bootstrap run that failed is    *)
(* only logged.                                                             *)
AfterFirst ==
  /\ pc = "wait_first"
  /\ Over(First)
  /\ IF schedule = "none"
     THEN /\ pc' = "close"
          /\ code' = IF run[First] = "ok" THEN "0" ELSE "1"
     ELSE pc' = "schedule" /\ UNCHANGED code
  /\ UNCHANGED <<setup, cancelled, ticking, run, trace>>

(* Slip: an expression that does not parse ends the process on the spot. *)
FatalSchedule ==
  /\ pc = "schedule"
  /\ IF schedule = "valid"
     THEN pc' = "serve" /\ ticking' = TRUE /\ UNCHANGED code
     ELSE pc' = "exited" /\ code' = "1" /\ UNCHANGED ticking
  /\ UNCHANGED <<setup, cancelled, run, trace>>

(* AddFunc and Start: the expression is parsed only now. *)
StartSchedule ==
  /\ pc = "schedule"
  /\ IF schedule = "valid"
     THEN pc' = "serve" /\ ticking' = TRUE /\ UNCHANGED code
     ELSE pc' = "close" /\ code' = "1" /\ UNCHANGED ticking
  /\ UNCHANGED <<setup, cancelled, run, trace>>

(* Slip: nobody stops the library. *)
StopTickingOn ==
  /\ pc = "serve"
  /\ cancelled
  /\ pc' = "close"
  /\ code' = "0"
  /\ UNCHANGED <<setup, cancelled, ticking, run, trace>>

(* Slip: the shutdown waits for the jobs. *)
StopAndWait ==
  /\ pc = "serve"
  /\ cancelled
  /\ \A j \in Jobs : ~InFlight(j)
  /\ ticking' = FALSE
  /\ pc' = "close"
  /\ code' = "0"
  /\ UNCHANGED <<setup, cancelled, run, trace>>

(* The context is done: no tick spawns a job any more, and jobs in flight,  *)
(* begun or not, are not waited for.                                        *)
Stop ==
  /\ pc = "serve"
  /\ cancelled
  /\ ticking' = FALSE
  /\ pc' = "close"
  /\ code' = "0"
  /\ UNCHANGED <<setup, cancelled, run, trace>>

(* Container.Close shuts the tracer down, which exports what it holds or    *)
(* gives up after shutdownTimeout.                                          *)
Close ==
  /\ pc = "close"
  /\ pc' = "exit"
  /\ \/ /\ tracing
        /\ exported' = exported \cup spans
        /\ spans' = {}
        /\ flushed' = "ok"
     \/ /\ tracing
        /\ flushed' = "failed"
        /\ UNCHANGED <<spans, exported>>
     \/ ~tracing /\ UNCHANGED trace
  /\ UNCHANGED <<setup, cancelled, ticking, run, code>>

(* os.Exit *)
Leave == pc = "exit" /\ Gone(code)

-----------------------------------------------------------------------------

Main == \/ Boot \/ NewContainer \/ StartFirst \/ AfterFirst \/ StartSchedule \/ Stop
        \/ Close \/ Leave

Next == \/ Signal \/ Kill \/ Export \/ Main
        \/ \E j \in Runs : Tick(j) \/ Begin(j) \/ RunEnds(j)

Spec == Init /\ [][Next]_vars

(* The main goroutine goes on, and the first run ends like every run of     *)
(* Orchestrator.  Nothing is assumed of the jobs: a sign-in may wait for    *)
(* its user for ever.                                                       *)
FairSpec == Spec /\ WF_vars(Main) /\ WF_vars(RunEnds(First))

-----------------------------------------------------------------------------
(* Properties. *)

TypeOK ==
  /\ schedule \in {"none", "valid", "invalid"}
  /\ tracing \in BOOLEAN
  /\ pc \in PCs
  /\ cancelled \in BOOLEAN
  /\ ticking \in BOOLEAN
  /\ run \in [Runs -> {"none", "spawned", "running", "ok", "error", "lost"}]
  /\ spans \subseteq Runs
  /\ exported \subseteq Runs
  /\ spans \cap exported = {}
  /\ flushed \in {"not_called", "ok", "failed"}
  /\ code \in {"none", "0", "1", "signal"}
  /\ pc \in {"schedule", "serve"} => Over(First)

(* README 5 and 7: without a schedule the exit status tells whether the     *)
(* backup succeeded; with one no failing run, first or later, ends the      *)
(* process, and it stops with status 0 for a signal only.                   *)
ExitStatus ==
  pc = "exited" =>
    /\ code = "0" => \/ schedule = "none" /\ run[First] = "ok"
                     \/ schedule = "valid" /\ cancelled
    /\ code = "1" => \/ run[First] = "none"
                     \/ schedule = "none" /\ run[First] = "error"
                     \/ schedule = "invalid"
    /\ code # "none"

(* The library spawns a job only when the bootstrap run is over and before  *)
(* the process begins to shut down: no goroutine is added to those that     *)
(* Close does not wait for.  A job spawned before may still begin later,    *)
(* while the tracer goes away.                                              *)
SpawnsWithinService ==
  [][\A j \in Jobs : run[j] = "none" /\ run'[j] # "none" =>
       Over(First) /\ pc = "serve"]_vars

(* Whichever way the process returns by itself once it made a run, the      *)
(* tracer was shut down, and if that went well the span of every run that   *)
(* had ended is exported.                                                   *)
FlushedOnReturn ==
  pc = "exited" /\ code \in {"0", "1"} /\ run[First] # "none" /\ tracing =>
    /\ flushed # "not_called"
    /\ flushed = "ok" => spans = {}

(* A signal ends the process once its first run is over, however long the   *)
(* jobs in flight take.                                                     *)
StopsWhenTold == cancelled ~> pc = "exited"

=============================================================================
