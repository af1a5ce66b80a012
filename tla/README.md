# A TLA+ model of rclonarr

rclonarr backs up home-lab applications to Proton Drive. It triggers the
backup APIs of Servarr and Bazarr, dumps MongoDB and PostgreSQL, or zips a
configuration directory, uploads one archive per target with the Proton Drive
CLI, and trashes old archives. It runs once, or as a daemon on a cron schedule.

This directory holds TLA+ modules that describe what that code does, TLC
configurations that check them on small instances, and proofs for TLAPS of the
same results, other than liveness, for all instances. Paths below are relative to the repository.
`PROJECT.json` lists the components, runs, mutants and theorems, and maps each
definition to the lines it stands for.

## The system

| Component | State | Operations | Hard part |
|---|---|---|---|
| Orchestrator `internal/core/service/orchestrator.go` | position in the target list, results, times it read; shares the remote folders | `Run`, four `backup…`, `uploadVersioned`, `cleanupSuccessful` | overlapping runs, partial failures, old listings, the process ending in the middle |
| Retention `internal/core/service/retention.go` | none | `SelectExpiredBackups` | cutoff, "keep all when the window is empty", files with other names |
| Uploader `internal/adapter/protondrive` | `authMu`, the CLI's session, remote folders and files | `EnsureAuth`, `Upload`, `ListFiles`, `Trash` | a session that expires between any two commands, retries, concurrent creation of folders, waiting at the mutex |
| Login, in the same package | two pipes and the goroutines that read them, `lastURL` | `runLogin`, `runStreamCommand` | a CLI that blocks on a full pipe, processes that outlive a kill, an unprotected variable |
| Servarr client `internal/adapter/http/servarr` | lists and a command id per call; the app's archives and commands | `Trigger` | app and runs working at once, deadlines, the fallback of `newestBackup` |
| Bazarr client `internal/adapter/http/bazarr` | the list before the POST | `Trigger` | it polls the list and not the job: other archives turn up in it |
| Dispatch `internal/adapter/arrbackup` | none | `Trigger` | schemes without a client |
| Dumpers and archive `internal/adapter/{mongo,postgres}`, `internal/platform/archive` | dump and zip directories on the local disk | `Dump`, `ZipDirectoryToTemp` | shared directories, commands that fail or outlive the process, cleanup on each path |
| Scheduler, entry, container `internal/platform/schedule`, `cmd`, `internal/di` | signal context, cron jobs, tracer | `run`, `RunDaemon`, `RunOnce`, `Close` | signals, jobs in flight at exit, order of the shutdown |
| Target registry `internal/adapter/targets` | the list, the targets resolved so far | `EnabledTargets` | one bad target fails the run, settings that are half there |
| API keys `internal/adapter/credentials` | none | `ServarrAPIKey`, `BazarrAPIKey` | a file with keys of several apps |
| Others: tracing set-up, configuration, types, mocks | — | — | as constants, or not modelled |

They interact like this. `main` makes a container and either calls `RunOnce`
or `RunDaemon`; the latter calls it once and then lets the cron library call it
in a goroutine per tick. The library is used without any job wrapper, so
**nothing keeps two runs apart**, and `Stop` is called without waiting for what
it returns, so **runs in flight are lost when the process ends**. All runs share
one `Uploader`, the remote folders, the apps and, if configured, the local dump
directories. That is where most hazards in `PROJECT.json` come from.

## Modules

| Module | Models | Composes |
|---|---|---|
| `Retention` | the retention policy and versioned names, as operators | — |
| `BackupStore` | the abstract promise: archives are added under fresh names, and leave only when expired while a newer one stays | `Retention` |
| `Orchestrator` | overlapping runs over shared folders | `Retention`, `BackupStore` |
| `RemoteCalls` | the abstract promise of the uploader: calls that take effect at once | — |
| `Uploader` | concurrent calls, one action per CLI command | `RemoteCalls` |
| `LoginStream` | one `auth login`, its processes, pipes and scanners | — |
| `ServarrTrigger` | overlapping `Trigger` calls and the app, one action per request | — |
| `BazarrTrigger` | the same for Bazarr | — |
| `ArrTrigger` | the dispatch by scheme | `ServarrTrigger`, `BazarrTrigger` |
| `DumpStaging` | dump, zip and clean up on the local disk | — |
| `Registry` | from the settings to the targets, keys and connections | — |
| `Daemon` | the process from start to exit | — |
| `MC…` | the instances for TLC | the module of that name |
| `…Proofs` | the theorems about `Orchestrator`, `Uploader`, `LoginStream`, `ArrTrigger`, `DumpStaging`, `Registry`, `Daemon` | the module of that name |
| `Numbers` | least and greatest numbers, for the proofs | — |

Operators preceded by a comment that begins with *Slip* are wrong on purpose.
Each is a plausible bug in the definition after it; nothing uses them, and
putting one in that definition's place makes a run fail. They show that the
property can tell the difference.

### Orchestrator

`pc[r]` is the place in `Run` of run `r`: `auth` → `resolve` → (`produce` →
`upload`) per target → `cleanup` → (`list` → `trash`) per target → `done`.
`idx[r]` is the loop variable of both loops, `result[r]` the results,
`now[r]` the clock that `cleanupSuccessful` read, `expired[r]` the paths it is
about to trash. A step is what happens between two CLI commands. A file is its
timestamp (if its name is versioned), the rest of its name, and its
modification time; time is counted in days, the unit of the retention.

Failures: any step may fail; `Upload` and `Trash` may fail after taking effect,
in part for `Trash`; `List` may see any part of the folder (`parseListJSON`
drops entries it cannot read); `Cancel` cancels the context at any time; `Exit`
ends the process, and runs that have not begun then belong to its successor.
An archive's app name is any name from a small set, as the code leaves it to the
app.

What is assumed: one CLI command is atomic on the remote store, and names are
unique in a folder. The modification time of files with a versioned name is left
out because `backupTime` never reads it.

### Uploader

`pc[c]` is the CLI command a caller runs next. `lock`, `check`, `login` and
`recheck` are `EnsureAuth`, and `back[c]` is where it returns to; `info`,
`create`, `reinfo` are `ensureDir` at folder `depth[c]`; `put`, `list` and
`trash` are the one command each of `Upload`, `ListFiles` and `Trash`.
`attempt[c]` tells the command before the sign-in from the one after it. The
session may end between any two commands, commands may fail for other reasons
(bounded by `MaxFaults`; a path that is no longer there is one of them), and a
failed `create-folder`, upload or trash may have worked, the last in part. A
command that the context kills has its effect before the cancellation.

`RemoteCalls` is what the orchestrator takes all this for: a call that returns
nil did everything at that moment, one that returns an error did any part of it.
The refinement maps every place between the call and its return to `busy`.
`Orchestrator` makes the same assumption of each step.

### LoginStream

`Uploader` has a login as one step; this is what happens in it. `open` is the
set of processes that hold the write ends of the pipes: the CLI, or under
`APP_PROTON_DRIVE_DBUS` the wrapper, its bus and the CLI. A pipe takes `Room`
lines and a CLI that finds it full waits. Each scanner takes a line, logs it,
and handles a URL. `lastURL` is two words, as a string is, and the scanners read
and write them in steps of their own, since nothing orders them; a scanner that
meets a line above 1 MiB stops and reads no more. The CLI here is one thread
that prints any short script on the two streams.

A cancelled context kills the child, which under the wrapper is the wrapper.
The CLI it leaves behind keeps the pipes open, so a cancelled login **with** the
wrapper may last, with `authMu` held, until that CLI ends. `ReturnsAtLast`
promises the return without the wrapper, and otherwise only when all processes
have ended. The same goes for a CLI that blocks after a line that is too long,
until it is cancelled.

### ServarrTrigger, BazarrTrigger, ArrTrigger

`pc[c]` is the request a call makes next. A Servarr app answers a POST with a
new command or one of another call that is not finished, lists an archive before
it reports the command complete, makes archives on its own schedule, prunes the
oldest, and may end a command with an unknown status. Bazarr has no commands to
poll: it works on a job or forgets it, and the client waits for a name that was
not in its first list. An archive is its `Time`, or for Bazarr its name, as a
number. Time for a call is `left[c]`, the poll intervals to its deadline;
requests may be slow, so more than one may pass between two polls.

`ArrTrigger` chooses one of the two modules by `scheme`, over the same
variables, so that the properties are stated once for both.

### DumpStaging

`files[d][b]` is the file of database `b` in dump directory `d`: whose bytes it
holds and whether it is torn. Opening truncates the file while other writers go
on writing; reading a file for the archive takes time, so a neighbour at work
may tear the copy. `fixed` says whether a dump directory is configured, `kind`
whether the target is Komodo, PostgreSQL with all databases, or PostgreSQL with
one (`single`); both are chosen at the start. A single dump is not zipped, its
file is uploaded from where it is under a name with the second; for that kind
the numbers in `Databases` are the seconds. `Exit` ends the process; a run whose
dump command is running then joins `gone`: the command goes on writing on its
own (`pg_dump` its one file, `mongodump` all that is left), and nobody zips,
uploads or cleans up after it.

### Registry

One action is one turn of a loop: over the parts of the list, over the known
ids, and over the resolved targets in `Orchestrator.Run`, of which only the
connections are modelled here: `Connect` says which of the code's errors the
backup of a target meets when it builds them, the API's `joinURL`, the mongo
dumper's missing address, and `connectionArgs` with its missing host, its missing
password and the URI that `replaceURIDatabase` cannot parse. A dump of all
databases builds one connection to list them and one for each. A setting is
`unset`, `blank` or `set`, a url also `malformed`; a connection string is
whether `url.Parse` takes it, the database in its path and the one in
`?dbname=`; Bazarr's `config.yaml` is the sequence of its `apikey`
entries, each with its section, its place in it and how its value is written.
A key is the app's `own`, `foreign`, or `garbage` that the expression took from
the next line. The settings never change during a run, so all choice is in
`Init`.

### Daemon

`pc` is the main goroutine, `run[j]` the first run (`First`) or a cron job. The
schedule (none, valid, invalid) and tracing are chosen at the start. A signal
kills the process before `NotifyContext` and cancels the context afterwards.
The library's tick only spawns a goroutine (`Tick`); that it gets to `RunOnce`
is a step of its own (`Begin`), which nothing holds back: it may come after
`c.Stop()` and while `Container.Close` shuts the tracer down, and the span of
such a run may be lost. What is checked is that no job is *spawned* any more then
(`SpawnsWithinService`), and that spans of runs which ended before are flushed.

## Runs

| Run | Instance | What it shows |
|---|---|---|
| `two_runs` | 2 runs, 2 targets (one versioned, one named by its app), 1 day of retention, clock to 2 | types, honest outcomes, untouched folders of failed targets, the inductive invariant, and that runs end |
| `store` | 3 runs, 1 versioned target with a dated and an undated stray file, clock to 3 | reported backups stay, newest stays, only expired leaves, `BackupStore` is implemented |
| `stray_files`, `app_names` | as above, 1 or 2 runs | two disagreements with the README, below |
| `uploader_calls` | 2 callers into one 2-level folder with 2 old files or none, 3 expiries, 1 other failure | safety of sign-in and folders, `RemoteCalls` is implemented, every call returns |
| `uploader_expiry` | 2 callers, 1 expiry | disagreement below |
| `login` | every script of 2 lines of any kind and of 3 URLs or long lines, room for 1 line | no line or URL is lost, the URL is shown while the CLI waits, the login returns |
| `servarr` | 2 calls of each scheme, deadline of 2 polls, 1 archive and 2 more to come | the choice of archive, and that calls end |
| `servarr_new` | the same, Servarr only | disagreement below |
| `registry` | every list of 4 names out of 5, and every combination of one target's settings | which targets and which error come out, which connection errors resolution leaves to the backups, and that dumps connect to what they name |
| `dumps` | 2 runs, 2 databases or seconds | archive contents and temporary directories |
| `daemon` | first run and 3 jobs | exit status, flush, no spawn outside the service, stop while jobs hang |

Why the bounds are enough. Two runs or callers are what it takes for any of the
races: one lists, reads or looks, another changes, the first acts; `store` uses
three so that two may act between a look and an act. A clock of 3 with a
retention of 1 lets archives be fresh, at the cutoff, expired, and expired only
by a later clock. Three expiries let both attempts of one call fail and another
call meet the third; a folder of two levels has one below the root and one below
another. Two old files let a failing trash take one and leave one. Two new
archives let one be a call's own and one another's or the schedule's; a deadline
of 2 has one poll that continues, one that ends and one that never comes. Room
for one line makes a CLI wait at each of its pipes, and three lines let one
stream print, the other fill up and the first go on, or two URLs race a third.
Lists of four names have a duplicate on either side of a bad name and of an
empty part. In `registry` one group of settings varies at a time, because no
target reads the settings of another; every connection string of two databases
occurs, one that parses and one that does not. Two databases make "one of several" true.
Three jobs overlap two at a time with one to come. Symmetry is used over
interchangeable runs in `store` and `dumps`, which check no liveness.

Deadlock checking is off: in each module runs or calls are finitely many and
the system may stop when all have ended.

The bounds `MaxTime`, `MaxExpiries`, `MaxFaults` and `MaxBackups` stand in
guards and are named as constants; `Room` is a pipe's real limit made small. The
proofs hold for every value of each of them.

### Disagreements found

1. *A file with any name can be trashed* (`stray_files`). `backupTime` falls back
   to the modification time, `README.md` 118 and 133 and a comment in
   `retention.go` 26 speak of versioned files only. `NewestKept` and
   `OnlyExpiredTrashed` hold with stray files, too.
2. *Archives of app APIs are not renamed* (`app_names`). The timestamped name
   is built, and only logged; `README.md` 116 and 118 promise it. As a result
   retention judges them by modification time, and an app that reuses a name
   has its upload skipped.
3. *The "new" archive may be an old one* (`servarr_new`), by the fallback of
   `newestBackup`. `NeverOlder` and `OwnCommandIsNew` say what still holds.
4. *An expired session does not always start a login* (`uploader_expiry`): not
   when it ends between a `create-folder` that lost a race and the second look.
   `HealsOneExpiry` shows that this is the only such case.

Two things came up that no run is about. A comment in `apikey.go` 34 says that
the auth section comes before keys of integrations, but the expression for it
misses a key in quotes or one that is not the first of its section, and the key
of another section may then be taken if it stands above;
`KeyIsTheApps` says where the key is right. And a login that is cancelled under
the D-Bus wrapper may hang, as said above.

### Fairness

- `Orchestrator`: weak fairness of each run's next step. Every call a run makes
  returns: CLI commands end, HTTP requests have a timeout, and failing is one of
  the outcomes. A login that nobody completes delays a run without bound; that is
  the environment's part of the assumption. Starting a run, the clock, signals
  and crashes are not fair.
- `Uploader`: weak fairness of each command of each caller, strong fairness of
  taking `authMu`, since a Go mutex in starvation mode hands itself to the
  oldest waiter. Expiries and calls are not fair. That a login ends is an
  assumption here; `LoginStream` says when it does.
- `LoginStream`: weak fairness of each goroutine, of a CLI that has room to
  write, and of the kill that a cancelled context sends. None for the end of the
  CLI, which is the user's sign-in, or of the bus.
- `ArrTrigger`: weak fairness of the client's steps only, as requests have a
  timeout of their own. The apps owe nothing: the deadline has to do.
- `Daemon`: weak fairness of the main goroutine and of the end of the first run;
  none for jobs, so the shutdown must not depend on them.

## Proofs

Each `…Proofs` module proves, for every value of the constants that its
assumptions admit, all the invariants and step properties that the runs check
on small instances, and both refinements. Names in brackets are the properties.

| Module | Theorems | Assumptions |
|---|---|---|
| `OrchestratorProofs` | `TypeCorrect` (`TypeOK`), `InductiveInvariant` (`IInv`), `OutcomeHonest` (`HonestOutcome`), `NewestIsKept` (`NewestKept`), `OnlyExpiredTrashed` (`TrashOnlyExpired`), `ReportedIsKept` (`ReportedBackupKept`), `FailedIsUntouched` (`FailedTargetUntouched`), `RefinesStore` (`ImplementsStore`); about the policy alone `PartialSweepResumes`, `EarlierClockTakesLess` | `ConstantsAssumption`, `InitialNamesAssumption` |
| `UploaderProofs` | `TypeCorrect`, `SignInIsNeeded` (`NoNeedlessSignIn`), `PutFindsFolder` (`PutHasFolder`), `OneExpiryHeals` (`HealsOneExpiry`), `RefinesCalls` (`ImplementsCalls`) | `CallersAssumption`, `DirAssumption`, `BoundsAssumption` |
| `LoginStreamProofs` | `TypeCorrect`, `UrlIsReported` (`UrlReported`), `LinesAreLogged` (`AllLinesLogged`) | `ScriptsAssumption`, `RoomAssumption` |
| `ArrTriggerProofs` | `TypeCorrect`, `NeverGoesBack` (`NeverOlder`), `OwnArchiveIsNew` (`OwnCommandIsNew`) | `TimeoutAssumption`, `BackupsAssumption` |
| `DumpStagingProofs` | `TypeCorrect`, `NoTempStays` (`NoTempLeft`), `OwnDumpOnly` (`ArchiveIsOwnDump`), `DumpIsCovered` (`ArchiveCoversDump`), `SingleIsOwn` (`SingleDumpIsOwn`) | `DatabasesAssumption` |
| `RegistryProofs` | `TypeCorrect`, `ListOnce` (`ListIsFaithful`), `OneErrorIsReported` (`FirstErrorWins`), `ResolvedConnects` (`ResolvedIsComplete`), `DumpsConnectRight` (`DumpsWhatIsNamed`), `BazarrGetsItsKey` (`KeyIsTheApps`) | `DatabasesAssumption`, `ConfigurationsAssumption` |
| `DaemonProofs` | `TypeCorrect`, `StatusIsRight` (`ExitStatus`), `TracerIsFlushed` (`FlushedOnReturn`), `SpawnsInService` (`SpawnsWithinService`) | `FirstAssumption` |

`Numbers` has the least and greatest elements of sets of numbers, for the `Min`
and `Max` of the models.

Most assumptions give the constants their types. These say more. The list of
enabled targets has no duplicates (`ConstantsAssumption`), because
`parseEnabledTargets` removes them, which `ListIsFaithful` shows. The folders
begin with one file per name (`InitialNamesAssumption`). No folder to upload to
is the root (`DirAssumption`): each target's is below the prefix, which must not
be empty. No database has one of the words that the model uses for what is no
database (`Registry`'s `DatabasesAssumption`); the empty one is among them, and
`listDatabases` drops empty lines. In `config.yaml`, the section of Bazarr's own
key stands once (`Files`, part of `ConfigurationsAssumption`), as YAML has it.
TLC evaluates all of them.

Few of the properties are inductive. What each proof adds is this.

**Orchestrator.** A run trashes *names* from an old listing, and nothing in the
properties says that a name still belongs to an old file. `Sweeping` says it:
for a run about to trash, each name it holds that is versioned is older than its
cutoff; whichever file in the folder has one of its names is dated and older
than its cutoff; and a file inside its window is in the folder, so something
newer stays. The last part must survive other runs, which may trash as well: it
does because their cutoffs come from clocks that are not ahead
(`now[r] <= clock`), so what they take is older still than what they leave
(`SafeToTrash`, `InformedStays`). `Naming` gives one file per name, and bounds
the stamp of what is uploaded, so a name in an old listing cannot come back with
a fresh file. `Positions` and `Progress` connect the loop variable with the
results, for `HonestOutcome`. The refinement maps `folder`, restricted to
versioned targets, to `files`.

**Uploader.** `Mutex` says that who is in `check`, `login` or `recheck` holds
`authMu`, and `Errands` that a sign-in goes back to the method that left for it.
`Folders` says that `ensureDir` stands below folders that exist, also when it
comes back from a sign-in, and folders never go away. `Accounted` charges each
sign-in, each second attempt and each auth error to a session that went missing;
`Healed` says that while nothing but one of those has gone wrong, a sign-in is
good for the rest of all calls, and the one way to fail is the lost race for a
folder. The refinement of `RemoteCalls` maps all places inside a call to `busy`
and lets the final command take effect.

**LoginStream.** For the URL: `Lengths` says that the length word of `lastURL`
is that of a URL which is warned of, or which a scanner is about to warn of. So a
scanner that takes its URL for the last one, however torn the header it
compares, may leave the warning out. For the lines: `Account` says that for each
stream some place `m` of the script splits what was written into lines that are
logged and lines that are in the pipe, the `m`-th being perhaps in the scanner's
hands, and that a scanner has met the end of the file only when the pipe is empty and
nobody can write. `LinesAppend` and `LinesTail` say what adding and taking a
line do to "the lines at these places, in this order".

**ArrTrigger.** `Newest`: the app prunes, but never its newest archive.
`Ordered`: what a call did not see in its first list is newer than all it saw.
`Commanded`: a command that was carried out has made an archive since the first
list of any call that waits for it. With these the archive a call picks is
at least as new as any it began with, and newer if the command was its own.

**DumpStaging.** The files of a directory are the run's own (`DumpsThere`,
`CopiesThere`) if it was `Alone`: in a temporary directory, with no neighbour
while it was at work, or with a name no other dump had. `Witnessed` says that
whoever had a neighbour knows it; `NothingElse` that nothing but the run's list
gets into what it alone writes. `Leftovers` keeps the directories that could not be
removed apart from those in use.

**Registry.** `Parsing` compares the ids found so far with the parts already
looked at, `InOrder` keeps them in the order of the list, `Resolving` and
`Connecting` say that each target and each connection is what the settings give.
`PostgresErrors` lists what can keep a connection from being built, and
`PostgresErrorOf` that a dump's error is that of one of its connections; against
these the proof holds what `ResolvePostgres` lets through.
`Verdict` lists the causes of an error in their order. `Has` and `Looked` are
operators of their own for the sake of the provers, and so are `Grown` and
`Tailed`.

**Daemon.** One conjunct per question: what the first run has come to at each
place (`FirstRun`), when the scheduler runs (`Service`), so that only then a job
is spawned, what the exit status
may be (`Status`, `RightCode`), and which spans wait for export (`Spans`).

Each invariant is proved preserved action by action, one lemma per action or
group of actions, and then combined with `PTL`. The theorems of `LoginStream`
are stated of `FairSpec`, as its run is; the fairness is not used.

**Only model-checked** are the liveness properties: `RunsEnd`,
`EveryCallReturns`, `UrlShown`, `ReturnsAtLast`, `EveryTriggerReturns` and
`StopsWhenTold`. They rest on fairness, and so on `ENABLED`, which the prover
does not handle. The four disagreements above are counterexamples, which TLC
finds.

## Not modelled

- Whether Bazarr lists a file that it is still writing. The client takes a name
  as soon as it is listed; the rest is Bazarr's.
- The order of Servarr's `Time` strings where formats differ. They are numbers.
- The walk that looks for a `config.xml`, and the XML in it: found or not.
- Normalising of remote and mounted paths, a mount given with a slash at its
  end, connection strings for PostgreSQL that are not URIs but keys and values,
  and the flags of the commands other than server and database.
- Commands that outlive a process that died, in `Uploader` and `Orchestrator`: a
  CLI that is killed with its process there has had its effect or has none.
  `DumpStaging` has dump commands that live on, `LoginStream` a CLI that the
  cancelled context does not reach.
- The directories in an archive and the special files `WalkDir` leaves out.
- Wording of errors, logging, HTTP details, JSON shapes.
- Width of integers: `RetentionDays` is an integer without bounds, the code
  multiplies it into a 64-bit duration, which overflows at 292 years.
- Removal of single dumps from a configured directory: the code has none.
- Retention switched off (`RetentionDays <= 0`) is covered by the proofs and not
  by a run.
- Mocks, which are generated for the tests, and the exporter of traces, which is
  a library.

## Plan

Done: all modules of the table above with their runs, and a proof of each
invariant, step property and refinement that a run checks.

What could follow:

1. An abstract module for `Trigger`, as `RemoteCalls` is for the uploader: a
   call returns, at one moment, an archive that is none of those older than what
   it began with. `ArrTrigger` would implement it from `Ordered`, `Commanded`
   and `Picked`.
2. The same for the dump and zip of a run, so that each external step of
   `Orchestrator` has an abstract module that a detailed one implements.
3. Theorems that say what `Exit` leaves for a successor in `Orchestrator`: a
   sweep that was cut off is completed by a later run of any target list
   (`PartialSweepResumes` carried over to two runs).
