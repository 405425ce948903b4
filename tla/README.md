# Synora: a TLA+ verification project

Synora mirrors repositories. A *job* is one mirror; a *run* is one attempt to
synchronise it. In a cluster one manager keeps the tables and any number of
workers pull runs from it over HTTP; on a single host a daemon and one-shot
commands share the tables and execute the runs themselves. This project models
both, from the schedule that makes a job due to the files a provider leaves in
the mirror: who may write, when a run is given to somebody else, what happens
when processes die, calls break, and answers or requests come late; and the
terminal console through which operators change all of it.

Paths below are relative to the repository; TLA+ modules are in this directory.

## 1. Inventory

| Component | State | Operations | Talks to |
|---|---|---|---|
| Run table (`crates/db/src/store.rs`) | `job_runs`: status, worker, lease, token, retry count; unique index `one_active_run_per_job` | create, claim, renew, finish, retry, expire, requeue, cancel, supersede, purge | called by manager and engine |
| Manager (`crates/manager/src/router.rs`) | `workers` table, `WorkerPicker` snapshot, `config_gate`, `metrics_gate`, job locks | register, heartbeat, claim, complete, retire, shutdown, unregister, trigger, stop, delete, reload | answers workers and clients |
| Reaper (`crates/manager/src/main.rs`) | none of its own | every 10 s: drop superseded rows, expire leases, requeue, OFFLINE, unassign, refresh, assign | run table, picker |
| Engine (`crates/engine/src/engine.rs`, `scheduler.rs`) | live jobs, schedules, job locks | dispatch, due schedules, due retries, reload, forget a job | run table, picker |
| Worker (`crates/worker/src/main.rs`) | `running` map, lease deadline, shutdown flag, one task per run | register, heartbeat, claim, cancel, watchdog, execute, report, drain | manager, providers |
| Run state machine (`crates/synora-core/src/state.rs`, `job.rs`) | none | `transition`, `retry_decision` | engine, manager |
| Schedules (`crates/synora-core/src/schedule.rs`) | none | next run of a cron or interval expression, misfire | engine |
| Standalone executor (`crates/engine/src/executor.rs`, `engine.rs`) | active counts, permits, cancel tokens by job name, stop files | execute queued runs, `run_once`, finish, retry, stop, wait for a one-shot | run table, providers, storage |
| Stages of a run (`crates/engine/src/executor.rs`) | stage, baseline, cancel flag | storage gate, snapshot, hooks, provider, timeout, safety, verification, prune | storage lock, provider, snapshots |
| Storage lock (`crates/storage/src/lib.rs`) | flocks on lock files, one per directory level | acquire, acquire_under, inherit, drop | executor, rollback |
| Snapshots (`crates/snapshot`) | snapshots of a backend | create, list, plan, delete, roll back | executor, CLI |
| Providers (`crates/provider`, `crates/command-runner`) | process groups, containers, quarantined repositories | prepare, spawn, wait, cancel, kill, abandon | called by `run_once_inner` |
| HTTP fetcher (`crates/httpfetch`) | plan, partial files, held-back manifest | list, download, publish, delete | http provider |
| Console (`crates/tui`) | snapshot shared by three tasks, selection, editor, file buffer, command under way | keys, refresh, detail, commands | manager, configuration files |
| Configuration (`crates/config`) | none | load, resolve, rewrite a job's block | engine, console |
| Routes (`crates/netroute`) | probe results, sticky choices | select, probe, fail over | providers |
| Drivers, auth, metrics, parser, nginx, CLI | – | I/O and presentation | – |

What is hard here:

* **Concurrency.** The handlers, the reaper, the dispatcher and the scheduler
  interleave in the manager, and not under one lock: the reaper and the handlers
  exclude each other (`metrics_gate`), a dispatch and the claim and complete
  handlers do (the job's lock), but the reaper and a dispatch do not. In the
  worker the main loop, the watchdog and the run tasks share the `running` map.
  On one host the daemon and the one-shots have only the table, the stop files
  and the storage locks in common.
  In the console two tasks and the loop share a snapshot that each of them copies,
  changes and writes back.
* **Failure.** Any process may die at any moment. Every call may break before
  or after the manager handled it; the client has no request timeout. Children and
  containers outlive the process that started them; an upstream fails halfway and
  moves on while it is being read.
* **Time.** A lease is safe only if the worker stops a provider before the
  manager's clock takes the lease away.
* **Ordering.** A report, a claim or a heartbeat may be handled after its sender
  gave up and the run has moved on.

What makes each part correct: a mirror has one writer, and that writer holds the
live lease (worker, run table, reaper); a job has at most one claimed run (run
table); a finished row stays finished (run table); trees that overlap are not
written at once, even by a child that outlived its run (storage lock); a process
gives back every slot it took (executor); a stop reaches the run it is for
(executor); nothing waits forever for
somebody who is gone (reaper); a removed job stays removed (reload); a scheduled
point gets one run, or what its misfire policy says, across restarts, reloads and
changes of the clock (scheduler); a sync that asked for a snapshot can be undone
(stages); a failure never costs files, and published metadata is complete (fetcher,
providers); an edit is saved as it was typed, under the job it was typed for
(console, configuration).

`PROJECT.json` lists the hazards at their lines, with the properties aimed at them.

## 2. Modules

| Module | Models |
|---|---|
| `RunStore` | the run table: the SQL statements of `store.rs` as functions from table to table |
| `Manager` | handlers, reaper, dispatch, retry, reload and restart of the manager |
| `Worker` | main loop, watchdog, run tasks, life and death of the workers |
| `Cluster` | both together: requests, answers, lost and late calls, time; all properties |
| `LeaseService` | the abstract specification: one lease per job, growing tokens, no lease ended while its holder works |
| `MCCluster` | `Cluster` with budgets for TLC |
| `Standalone` | daemon and one-shot processes of one host: dispatch, claim, execution, retry, stop, crash |
| `StorageLock` | the tree of advisory locks of one storage backend, one flock per step |
| `RunOnce` | the stages of an execution under those locks, snapshots, retention, rollback |
| `HttpFetch` | one fetch after another against an upstream that moves: plan, downloads, publication, deletion |
| `Provider` | successive attempts of one job under any provider: processes, containers, two-stage rsync, git, http (through `HttpFetch`) |
| `Calendar` | next firing of cron, daily, weekly and interval schedules in a zone whose clock changes |
| `Dispatch` | schedule rows, boot pass, ticks, reloads and restarts over `Calendar` |
| `JobForm` | the three shapes of a job's settings and the conversions between them |
| `Console` | loop and tasks of the terminal console, configuration files, reload |
| `MCStandalone`, `MCRunOnce`, `MCProvider`, `MCDispatch`, `MCConsole` | the instances TLC checks |
| `RunStoreProofs` | lemmas: what each statement keeps |
| `ClusterProofs` | type correctness, one active run per job, finality, removed jobs |
| `LeaseProofs` | the lease argument, the single writer and the refinement of `LeaseService` |
| `StandaloneProofs` | slots, stops, exclusion by claims and finality on one host |
| `RunOnceProofs` | the locks exclude what overlaps and nothing else; the stages implement the lock protocol and keep the way back |
| `ProviderProofs` | attempts and fetches: one writer, complete metadata, no lost files, exact success |
| `DispatchProofs` | next times are firings; grid, misfires, one run per point, quiet reloads |
| `ConsoleProofs` | a job's settings through the editor and back; edits, saves, selection and the file buffer of the console |

`Cluster` extends `Manager` and `Worker`, which extend `RunStore`, and instantiates
`LeaseService`. `Standalone` extends `RunStore` too: it is the other user of the
same table. `RunOnce` extends `StorageLock` and is shown to implement it;
`Standalone` uses what it promises (one holder per mirror, children included) as its
`Lockers`, and has the whole of `RunOnce` as one step. `Provider`, which extends
`HttpFetch`, is what `RunOnce` takes as one step with any result. `Dispatch` extends
`Calendar` and ends where a run is queued, which is where `Cluster` and `Standalone`
begin. `Console` extends `JobForm`. The proof modules extend what they prove about.

### State and the code

* `runs` is `job_runs`. Rows are numbered in creation order; the lease is a
  countdown, so `lease_expires_at > now` is `lease > 0`. STARTING, SYNCING and
  RUNNING are one status (the table's queries never tell them apart for a remote
  run), SUCCESS includes SUCCESS_WITH_WARNINGS, and MAINTENANCE is DRAINING.
* `wstat`, `hbAge`, `snap` are `workers.status`, the age of `last_heartbeat`, and
  the picker's snapshot. `disp` holds dispatches in progress: `checked` after the
  hold and the dependencies were read, `locked` from the in-flight check to the
  insert. `reaped` holds rows the reaper expired and has not yet requeued.
* `wk[w]` is the main loop: where it is, its deadline, the call it waits for.
  `running[w]` is the map run id to token. `task[t]` is the run task spawned for
  the claim that got token `t`. Tokens are unique (`claim_run` draws a fresh
  UUID), so numbering them loses nothing and lets the proofs speak of freshness.
* In `Standalone` an execution is named by the token of its claim. `active`,
  `permits` and `tokens` are `Engine.active`, `global_sem` and
  `Engine.active_runs`, one of each per process; `queue` is the list
  `execute_queued` has read and not yet served; `orphans` are providers whose
  process was killed; `stopFiles` are the files in the control directory. `known` is
  the table `jobs`, which every row of `job_runs` refers to; `Conf` gives each process
  a configuration of its own.
* In `StorageLock` a holder is an execution or a rollback, `next` the depth of its
  next flock, `child` whether a child has its descriptors.
* In `RunOnce` an execution is a stage, a cancel flag, a result, whether descendants of
  its provider outlived their leader (`left`), the measured baseline, its snapshot and its
  prune plan. A mirror is its number of files and the last that happened to it: it was
  judged by a run, written by a holder of its lock, or written by somebody who holds none
  or is not waited for. `loose` are the holders with such a writer at work: a container
  whose client is gone, or the zfs of a rollback. A snapshot is a second, a suffix and a
  kind, one of which stands for names synora does not use.
* In `HttpFetch` names are content-addressed. `fetch` is the plan with its statistics:
  directories to list, files seen, waiting, in flight, done, to be deleted, and the
  manifest held back. `gen` is the generation the upstream serves, `man` the one of
  the local manifest.
* In `Provider` `live` holds what runs of every attempt, what a crash left included: the
  leader of its process group (of the first stage, or of the last), descendants that
  outlived it (`rest`), git's work after git (`tidy`) and containers (`box`). `repo` and
  `stash` are git's destination and the copies moved aside.
* In `Dispatch` `row` is the `schedules` table. `boot`, `at` are the instants `run` and
  a tick captured; `served`, `torn`, `missed` are history for the properties.
* In `Calendar` the dates are a cycle of days, each with its month and its day of the
  month (`DayOf`, `MonthOf`), so that years differ in length and a leap day is a date most
  of them lack.
* In `JobForm` a document is a function from the fields it has; a text is what it
  denotes, a reference to a variable (`${NAME}`) and an escaped one (`$${NAME}`) included;
  `Env` is the environment of the manager. In `Console` `snap` is the snapshot behind the mutex, `view` the copy the
  keys act upon, `app` the loop's own state, `detail` the detail task with its copy,
  `act` the command under way, `orphans` commands given up that may still be applied,
  `disk` the blocks in the files and `live` what the manager has loaded.
* `late` holds requests whose sender gave up but which are still delivered.

### Actions and the code

One action per handler; a handler that gives up its locks halfway is split there.
`DispatchCheck`, `DispatchLock` and `DispatchInsert` are the three parts of
`dispatch_current`; `ReaperExpire` and `ReaperFinish` the two parts of a reaper
pass between which a dispatch can run. A call of the worker is three steps: send,
handle, receive. `Late` delivers a request nobody waits for. `Watchdog` cancels
what the map reaches. `Finish` ends a provider and chooses the report as
`outcome_to_complete` does; `Report` is one `complete_run` attempt with its
acknowledgement delivered or not; `ReportFails` counts the attempts.

`Tick` is the passage of time on both sides. It waits for a watchdog that is due
(it runs every second), for a provider that must be dead (`StopMax`) and for a
call that must have broken (`RpcMax`).

In `Standalone` each pass of a daemon's tick is an action, each statement on the
table a step. An execution goes spawned, registered (`RUNNING`, token in the map),
writing (storage lock held), ended, marking (only a retry, between its two
statements), leaving (row written, slots not yet given back). `Gone` is what is
left of a process that exits, is told to stop or is killed. A start, and each job of a
one-shot, begins with `sync_config`, which deletes the rows of every job the process does
not know (one step here; in the code a loop over the jobs); a statement on a row that was
deleted changes nothing, and a one-shot whose row went ends with "disappeared"
(`OneShotDisappeared`).

In `StorageLock` a holder of kind `under` locks every directory from the root to its
own, shared but for the last; `whole` locks the root exclusively (snapshots,
rollback); `own` locks its own path only (plain directories).

In `RunOnce` each stage is a step, with the paths of its failure and of a cancelled
run; `SpawnChild` is a hook or the provider's process, which inherits the locks.
`GraceEnds` is the dropped future of a provider that did not return in time: its
group is killed and not waited for. `Die` ends the process in any stage. Three writers
are beyond the locks: a container (`Boxed`) whose client was killed or whose `docker rm`
failed stays (`BoxStays`) and writes at any time (`BoxWrites`); descendants that a disarmed
guard left alone write beside the later stages of their run (`RestWrites`; they do keep the
lock, and the run does not wait for them); and `zfs rollback` is a child without the lock
(`RollbackSwitch` starts it, `ZfsEnds` is its effect), which outlives a killed command.

In `HttpFetch` every request is a step (one listing, one download), the upstream may
move on between any two, and each may fail, be cancelled or be cut off by a crash.
In `Provider` an attempt is prepared, spawned, awaited and reaped, or cancelled,
abandoned or crashed; what a container does after its client is gone is a step of
its own. When the leader of a group exits, the guard is disarmed and nothing is killed
(`Exits`): descendants may stay. After git come `refresh_head`, `maybe_repack` and
`repo_size_bytes`, which no cancellation reaches (`Tidied`). `CancelledAfterWait` is a
cancellation that arrives when the leader has been waited for.

In `Dispatch` a loop over due rows is one step per dispatch and one per stored next
time; the clock, operators, the end of runs and deaths come in between. A job that is
`gated` (it has dependencies, or is held after the loss of its worker) may be dispatched
without a run: `Queue` then leaves `busy` alone, as the hold and the SKIPPED row of
`dispatch_current` do.

In `Console` `LoopHead` is one turn of the loop (completions, publication of the
selection, copy of the snapshot), and each key is an action; `Refresh`,
`DetailFetches` and `DetailSwaps` are the tasks, split where they await; a command
writes (`ActWrites`), is answered, fails or times out, and may be applied later.

### What is abstracted

* In the cluster and on one host, when a schedule is due and how long a provider
  executes are open; `Dispatch` and `Provider` have those.
* `WorkerPicker::pick` returns any ONLINE worker of its snapshot, or none: labels,
  load and caps restrict it further.
* A heartbeat carries leases only: no logs, sizes or resource samples. The cap of
  256 renewed leases, of 32 offers and of 4 claims per beat are beyond the bounds.
* A claim the manager granted but could not answer is an answer that was lost.
* The `jobs` projection (`set_job_status_for_run`, `reconcile_stale_job_status`)
  is display state and left out.
* The shutdown and unregister calls are delivered at once or lost.
* In `Standalone` `run_once_inner` is one step that ends in any result; in `RunOnce`
  the provider is. Creating a missing dataset, resource samples and notifications are
  left out.
* In `HttpFetch` files with one name have one content; symbolic links, empty
  directories, the listing parsers and the retries inside one request are left out.
* What rsync, git, docker, ZFS and btrfs do is taken from how the code calls them.
* `Calendar` counts minutes in days, weeks, months and years of a few minutes each.
* In `JobForm` four fields stand for the plain copied ones; compound durations, name
  templates (`{{name}}`) and strings in single quotes, which are not expanded, are left
  out. In `Console` cursors, rendering, logs and the proxy tables are left out.
* In `Standalone` each process keeps the configuration it was started with
  (processes may disagree); reload is modelled in `Manager`. In `Provider` git's branch
  mode, with its second command, is left out. Database errors are
  not modelled, other than the index turning a statement down.

## 3. Runs

### Cluster

These runs use `MCCluster`. Every worker starts registered and idle, a state that
`Init` reaches by one registration each. Budgets: `MaxOps` operator actions,
`MaxFaults` broken calls, deaths and restarts (in `beyond` the deletion of a running
job and an orphaned provider count as operations), `MaxSched` due schedules.

| Run | Bounds | Checks |
|---|---|---|
| `writers` | 2 workers with 1 slot each, retry 1, 2 rows, 2 tokens, Lease 2, Safety 1, 1 fault | `TypeOK`, `WriterOwnsRun`, `SingleWriter`, `LeaseRefinement`, `TerminalIsFinal` |
| `liveness` | 1 worker with 2 slots, retry 1, 1 row, 2 tokens, Lease 3, StopMax 1, RpcMax 1, 1 fault, 1 operation | `LeaseInv` (which implies `TrackedWriterOwnsRun`), `AbandonedIsReleased`, `StopTakesEffect`, `QueueLeavesDeadWorker` |
| `heartbeat` | 1 worker, 1 row, Lease 3, Grace 1, 1 fault | `HeartbeatSpares`, violated (see Disagreements) |
| `beyond` | 1 worker, 2 jobs, one depending on the other, 3 rows, 3 tokens, 2 schedules, 2 operations, which include removing and adding a job and orphaning a provider | `AbsentJobHasNoRuns`, `OneActivePerJob` |

Why the bounds are enough to be interesting: a takeover needs two claims of one job,
hence two tokens, and two workers if they are to be different; `Lease` 2 with
`Safety` 1 is the smallest pair for which a renewal, a missed renewal, a cancelled
provider and an expiry are different ticks; `Grace` 0 lets a worker go OFFLINE and
come back within a lease; `RpcMax` 1 in `liveness` lets a deadline be counted from
the wrong end of a call; three rows and tokens in `beyond` are a lost run, the
dispatch that came between and the requeue, all claimed; one fault anywhere is one
lost answer, one late request, one crash or one restart at every point of the
protocol, and the fault-free system already contains expiry, because nothing forces
a heartbeat before a lease runs out. Runs with two workers use symmetry (no liveness
property is checked there). No liveness or deadlock conclusion is drawn from an
exhausted budget: time always passes.

### One host

| Run | Bounds | Checks |
|---|---|---|
| `local_claims` | daemon and one-shot, 2 jobs, one of them unknown to the daemon, 2 permits, 3 rows, one of which may be left over, 2 tokens, 2 crashes, no retries | `ClaimsExclude`, `Stoppable`, `LocalInv`, `TerminalStays` |
| `local_daemon` | daemon, 3 jobs, one depending on another and one disabled, 1 permit, 1 retry, 3 rows, 6 tokens, 1 stop | `EveryRunEnds`, `StopTakesEffect` |
| `stages` | one zfs backend: a run in a container without snapshots, one with both, a rollback; 1 file, 3 seconds, retention of one | `StageInv`, `OverlapsExclude`, `SnapshotsAreClean`, `RetentionKeeps`, `KeepsLocks` |
| `providers` | every provider, 3 attempts, 2 generations that share a file, 2 downloads at once, 3 faults | `ProvInv`, `ManifestComplete`, `NothingIsLost`, `SuccessIsExact`, `CancelReturns`, `Converges` |

Why these bounds: a row abandoned by a crash blocks its job, so three rows are a run that
was left over or purged, one that is executed and one dispatched after it, and two tokens
an execution and one of the other process that read the queue earlier; two crashes let
both processes die at any two points, or start twice with a purge in between. Stops are
the business of `local_daemon`. Six tokens are every attempt three rows can make with one retry each,
so no run in `local_daemon` is stuck for want of a token. `stages` has a run that
takes its place in the tree, one that takes the root and a rollback, and the snapshots of
three seconds, each a day, are enough for retention to choose among by count; its daily
clause, which needs two snapshots of one day, is left to the theorem. In `providers`
two generations are the one that is mirrored and the one the upstream moves on to;
three attempts are one that breaks, one beside what it left, and one that makes good.

The runs of `Standalone` do not check deadlock: a daemon with nothing queued and a
one-shot that waits for a row nobody will finish really do stop, and the rows are
bounded.

### Schedules

`schedules` has two jobs and five configurations between which it reloads: a daily
time inside the hour that is skipped, a cron expression on either of two day fields and
one for leap days, intervals, a disabled job, a startup job, a weekly one and a removed
one, two of them gated; each misfire policy; a zone whose clock goes forward and back
within nine minutes of three-minute days; and two restarts, reloads or runs by hand. It checks `NextIsEarliest` (the
algorithms against the definition of a firing, `FirstFiring`), `RowInv`,
`MissedAreRun`, `OneRunPerPoint` and `ReloadIsQuiet`. Months of two days and years of two
months make every carry of the calendar happen within the bound. The calendar begins in a
leap year, whose last month has a third day, and the zone is defined until after the next
leap day, which is more than the code's two (longest) years away: before the first leap
day the expression for it has a next time, after it there is one that the code does not
find.

### Console

| Run | Bounds | Checks |
|---|---|---|
| `editor` | 2 names, one of them defined at first, the other added by somebody else's change (`Outside`, once), 1 edit, 1 command | `EditorInv`, `EditsStay`, `SaveKeepsBase`, `EditorNeverBreaks` |
| `console` | 2 names, one of them defined, 1 command, new-job form, file editor, search | `UnsavedIsDirty`, `SelectionSticks`, `DetailArrives` |

The two runs are one module: `Uses` says which part of the console the operator uses.
Two jobs are needed for details to arrive for the wrong one; a second edit or command
repeats the first from a state the run already has. One variable is set; the job that is
edited takes its upstream from it and has an escaped reference among its options, and a
reference to a variable that is not set is among what is typed.

### What the properties say

* `ProvInv`: the types, at most as many downloads as slots, and no two attempts of a job
  writing at once. `ManifestComplete`: a published manifest has its metadata, a
  two-stage index its packages. `NothingIsLost`: no failure deletes a file, and what
  git fetched stays. `SuccessIsExact`: at a success the attempt's process, its container
  and git's housekeeping are over and nothing of an earlier attempt is left, though
  descendants that outlived the process may go on under the storage lock; and a fetched
  mirror is what was listed. `Converges`: once the faults are over, the mirror gets there.
* `StageInv`: whoever may write has its locks, and a sync whose policy asked for a
  snapshot has it. `SnapshotsAreClean`: no holder of a lock but the run itself is at work
  when a snapshot is taken, and one after a success shows what was judged, unless somebody
  beyond the locks has written since. `RetentionKeeps`: pruning leaves what the policy promises.
* `LocalInv`: permits and active counts are those of the executions there are.
  `ClaimsExclude` and `TerminalStays` are about jobs that every process knows (`Shared`).
* `NextIsEarliest`: the next time is the first firing if the scan of the code reaches so
  far, and `None` if it does not.
* `RowInv`: a stored next run is on its schedule's grid and not in the past.
  `OneRunPerPoint`: a point gets one run, a missed one only when its policy says so.
  `MissedAreRun`: and when it says so, it is dispatched (a gated job may be held or
  skipped instead). `ReloadIsQuiet`: a reload makes nothing
  due.
* `EditorInv`: what is saved under a job's name is that job's specification.
  `EditsStay`: no task that writes an older copy back discards an edit.
  `SaveKeepsBase`: fields that were not touched survive flattening, rewriting, expansion
  and resolution, unless their text has `${` in it. `EditorNeverBreaks`: no save of an
  object without `${` turns files that load into ones that do not. `UnsavedIsDirty`
  compares with every text that was read from or written to a file since it was opened
  (`clean`), which is less than "differs from its file".
  `UnsavedIsDirty`, `SelectionSticks`, `DetailArrives`: unsaved text stays marked, the
  selection stays on its job while the list changes, details arrive.

### Disagreements

`weekly_gap` shows that the code does not do what its documentation says. `next_after`
is `None` "for manual/startup" only; `weekly_next` looks at nine days, so a weekly time
that falls into the hour the clocks skip has no next time, and the job is never
dispatched again (`synora-core/src/schedule.rs:129`).

`heartbeat` shows a reaper that takes a run from a worker whose heartbeats arrive: the
claim's answer was lost, so nobody renews the lease. `synora-core/src/job.rs:9` says that
"the reaper only marks LOST when the lease is expired *and* the worker is no longer
heartbeating"; `expired_runs` looks at the lease alone (`db/src/store.rs:617`), and
`WORKER_HEARTBEAT_GRACE_SECS` decides on OFFLINE only (`manager/src/main.rs:172`). The
model follows the code. `AbandonedIsReleased` would be false of the documented rule: a
heartbeating worker would keep a run it knows nothing of.

Met on the way, described in the models and kept without a run:

* A cron expression for 29 February has no next time for about two years after each leap
  day (`schedule.rs:174` looks at two years of minutes); what was said of a weekly job then
  goes for it. `NextIsEarliest` has this as its second case.
* "No sync process survives its run" (`provider/src/lib.rs:22`): `disarm` leaves whatever
  the leader left in its group alone (`rest` in `Provider`, `left` in `RunOnce`).
* "If a cancel raced us, the run is cancelled" (`provider/src/lib.rs:188`):
  `cancelled_after_wait` calls `kill_group` for a child that has been waited for and has no
  pid any more; the signal goes to group 0, the worker's own (`CancelledAfterWait`).
* `validate_job_text` (`config/src/loader.rs:374`) does not expand variables: `${UNSET}`
  typed in the structured editor is accepted and written, and the next reload fails
  (`loader.rs:591`). A file's `$${X}` is shown as `${X}` and saved so.

### Conditions

The properties have conditions that come from the code, and no run is kept for what
happens beyond them. In the cluster:

* A retried run may be claimed by the same worker while its first report is still being
  sent. The old task removes the new entry from the map (`worker/src/main.rs:470`), and
  the new execution is neither renewed nor reachable by the watchdog. It is why
  `WriterOwnsRun` is checked with one slot per worker and proved without retries, and what
  is checked and proved with both (`LeaseInv`) speaks of executions that are tracked.
* A SKIPPED row hides the LOST one from the hold of `on_worker_lost = "fail"`
  (`engine/src/engine.rs:530`; `docs/config-reference.md:293` promises the hold).
* `TerminalIsFinal` speaks of final states only: a CANCELLING run may still end in
  SUCCESS, FAILED, RETRYING or LOST (`db/src/store.rs:889`).
* A retired worker may still claim what it was offered before
  (`manager/src/router.rs:672`). A shutdown call handled after the next registration
  leaves the worker STOPPING until it goes OFFLINE (`router.rs:1122`); a worker can be
  unregistered while a run of it is CANCELLING (`router.rs:1141`). Only the first 256
  presented leases are renewed (`router.rs:521`), at most 4 offers are claimed per beat.

On one host:

* Nothing ever releases a row of worker `local`: after a crash the job is not dispatched
  again (`db/src/store.rs:618`; `README.md:51`).
* A one-shot claims other jobs' runs and kills them when its own has ended
  (`engine/src/engine.rs:1006`); without a daemon it waits for ever for a run that is to
  be retried (`engine.rs:998`).
* `TerminalStays` and `ClaimsExclude` are checked without retries: a retry is recorded
  in two unfenced statements (`engine/src/executor.rs:1149`), and the second may land on
  a row that was requeued, claimed and finished in between. They speak of jobs that every
  process has in its configuration: one that does not know the job deletes its rows when
  it starts (`engine/src/engine.rs:320`) and fails the ones it meets in the queue, while
  another process executes them, and the job can then be dispatched beside that execution.
* `Stoppable` is checked with `max_concurrency` of 1: tokens go by job name, so the
  ending task of a job would remove the token of its next run
  (`engine/src/engine.rs:931`).
* `StopTakesEffect` of `Standalone` says nothing of a stop file for a job that is not
  running: the file stays and cancels the next run (`engine/src/engine.rs:953`).

Stages and storage:

* `OverlapsExclude` lets plain directories exclude themselves only
  (`engine/src/executor.rs:173`).
* A retry after a safety violation measures the shrunken tree as its new baseline
  (`executor.rs:586`). Terminal hooks are skipped after a timeout or a cancellation. The
  resource sampler of a finished run ticks until its process ends (`executor.rs:510`).
* On btrfs the snapshots of sibling mirrors count towards one another's `keep_last`, since
  `list` strips their prefix (`snapshot/src/lib.rs:152`); run and theorem are about the
  snapshots of one zfs dataset.
* A rollback looks its snapshot up before it locks (`cli/src/main.rs:660`); it then fails.
* Containers write without a lock (`provider/src/docker.rs:528`), and so does the zfs of a
  rollback whose command was killed: a snapshot may show a tree one of them is writing.

Providers:

* `SuccessIsExact` is about what was listed: rsync's codes 23 and 24 can be configured as
  success, a file of unchanged size and other content is not fetched again, excluded
  metadata may be named by a manifest, and an upstream that drops `repodata` may leave
  the local manifest without it.
* A left-over `.partial` file makes the first fetch after a crash report an error.
* A transient failure of git's check quarantines a valid repository; a repair in a
  container may write beside a container that was left running.
* When `docker rm` fails, a container outlives its cancelled attempt; the next one is kept
  out by the container's name. `ProvInv` supposes that the job keeps its provider
  meanwhile: a process of another kind would not be kept out.

Schedules:

* A crash between a dispatch and the write of the next time gives the point two runs
  unless the first is still in flight (`engine/src/scheduler.rs:100`).
* An interval job first seen a second or more before `boot` counts as missed
  (`scheduler.rs:9`). Of day-of-week ranges that end in 7, `1-7` is refused and `0-7` is
  Sunday only, since 7 is read as 0. `interval_next` with an anchor in the future passes
  over the anchor itself.

Console and configuration:

* `SaveKeepsBase` excludes jobs with `mirror_subdir`: each save nests their storage one
  level deeper (`config/src/loader.rs:1389`). It compares with the specification that was
  fetched: what a pin, another console or a shell changed since is undone by a save. The
  default worker becomes explicit; a memory limit that is no multiple of 1 MiB is shown
  in bytes and read back as megabytes; appending to a list brings back removals that
  were not saved.
* Daily and weekly jobs cannot be saved at all, nor two-stage ones, whose type is
  serialized as `twostagersync` (`synora-core/src/job.rs:138`), a name the loader does not
  know; the form's script, docker and http jobs
  and two values of the schedule picker are refused by the loader, and the parser picker
  offers a name the loader does not know.
* `EditsStay` begins when the loop has published the edited job; a turn whose `try_lock`
  fails publishes nothing. `DetailArrives` excepts a console that stays on another job it
  saved. `UnsavedIsDirty` is proved for one writer of the files (section 4). A finished
  deletion returns to the list while the operator types. Ctrl+S writes
  the whole buffer over what changed on disk since.
* A command that timed out may be applied later, and two rewrites of one file are not
  locked against each other. `upsert_job_worker` finds a name inside a longer one.
* `docs/config-reference.md:255` documents `[snapshot_retention]`; the loader reads
  `[snapshot.policy]` (`loader.rs:1278`).

### Fairness

In the cluster, liveness assumes weak fairness of the reaper (an interval timer), of
dispatches in progress, of the watchdog, of the main loop and its calls (the loop
never stops while the process lives), of the report loop and of the death of a
cancelled provider (command-runner escalates to SIGKILL). Strong fairness is assumed
of time: in the code the main loop sleeps 2 to 15 s between heartbeats, so the clock
is not stopped by a loop that always has a call under way; in the model a call can
disable `Tick` again and again, which no real schedule does. Nothing is assumed of
providers that were not cancelled, of operators, or of a dead worker coming back.

On one host, `FairSpec` assumes weak fairness of every process's own steps (its loop
ticks), of every task's steps, of the retry pass and of the pass over the stop
files, and of the end of a provider that was cancelled (it is killed). `Provider`
assumes it of the steps of an attempt and of a fetch, and of beginning the next fetch,
and nothing of faults or the upstream; the end of a cancelled process is the kill that
command-runner escalates to. `Console` assumes weak fairness of the loop, the detail
task and a command's steps, since each is a task that is polled or times out, and
strong fairness of an answer of the manager to the detail task, whose requests are
repeated. That every
provider ends is a hypothesis of `EveryRunEnds`; `StopTakesEffect` does without it.
Starting a process, schedules, operators, crashes and signals are never fair. The
properties about the daemon are conditional on its staying up.

## 4. Proofs

All theorems are for every value of the constants that meets the named assumptions: any
set of jobs, workers, processes and files, any number of rows, tokens, attempts and
minutes, any calendar. A further hypothesis says what a theorem asks of the configuration
or the deployment; what happens without it is said below.

| Property (run) | Theorem | Hypothesis |
|---|---|---|
| `TypeOK`, `TerminalIsFinal` | `TypeCorrect`, `TerminalFinal` | – |
| `OneActivePerJob` | `OneActive`, `OneActiveBeyond` (under `SpecBeyond`) | – |
| `AbsentJobHasNoRuns` | `AbsentHasNone` (under `SpecBeyond`) | – |
| `LeaseInv` | `LeaseInvariant` | timing |
| `WriterOwnsRun`, `SingleWriter`, `LeaseRefinement` | `WriterOwns`, `Single`, `ImplementsService` | timing, `NoRetries` |
| `LocalInv` | `SlotsBalance` | – |
| `Stoppable` | `StopReaches` | `OneAtATime` |
| `ClaimsExclude`, `TerminalStays` | `ClaimsSuffice`, `FinishedForGood` | `NoRetries` |
| `OverlapsExclude`, `StageInv`, `KeepsLocks` | `OverlapExclusion`, `StagesHold`, `StagesKeepLocks` | – |
| `SnapshotsAreClean`, `RetentionKeeps` | `SnapshotsClean`, `RetentionHolds` | – |
| `ProvInv`, `ManifestComplete`, `NothingIsLost`, `SuccessIsExact` | `AttemptsApart`, `MetadataFirst`, `NoFailureCosts`, `ExactSuccess` | – |
| `RowInv`, `ReloadIsQuiet` | `PointsOnGrid`, `QuietReload` | `NoZero` |
| `MissedAreRun`, `OneRunPerPoint` | `MissedMadeUp`, `OneRun` | – |
| `NextIsEarliest` | `NextIsTheFirst` | `NoZero`, `PlainCron`, `PutBack`, `SkipsLittle` |
| `EditorInv`, `EditsStay`, `EditorNeverBreaks`, `SelectionSticks` | `SavesItsOwn`, `EditsAreKept`, `SavingNeverBreaks`, `SelectionStays` | – |
| `SaveKeepsBase` | `SavingKeepsBase` | `NoSubdirs`, `WholeMebibytes` |
| `UnsavedIsDirty` | `UnsavedIsMarked` | `SoleWriter` |

### Assumptions

`StoreAssumption`, `ManagerAssumption`, `WorkerAssumption`, `LockAssumption`,
`RunAssumption`, `FetchAssumption`, `ProviderAssumption`, `CalendarAssumption`,
`DispatchAssumption`, `StandaloneAssumption` and `ConsoleAssumption` give the constants
their types, as does `EnvAssumption`; `ConsoleAssumption` also says that the manager behind
the console has loaded the files it starts with. TLC evaluates each of them. *Timing* is `TimingAssumption`: `Safety + StopMax < Lease` and
`RpcMax + StopMax < Lease`. In the code the lease is 300 s and the safety margin 240 s,
which leaves 59 s (the watchdog takes up to one) for a provider to die. The second half is
an assumption on the deployment: the HTTP client has no timeout.

The hypotheses, and what happens without them:

* `NoRetries` (every job has `retry` 0). In the cluster the task of an attempt that is
  still reporting removes the entry of the next attempt from the running map, and the
  latter is no longer renewed or reached (section 3, Conditions). On one host the second
  of the two statements that record a retry lands on a row that was claimed again or
  finished.
* `OneAtATime` (`max_concurrency` 1). With 2, `remove_run` of the execution that ends takes
  the token of the other.
* `NoZero` (no interval of `0s`, which the loader accepts). A reload makes such a job due
  at once, and `interval_next` reads 0 as 1, so its points are on no grid of its schedule.
* `PutBack` and `SkipsLittle` (the zone). A clock that is put back goes back less than a
  day, to readings it had before; one that is put forward skips no time of a configured
  daily or weekly schedule, except of daily ones, on one day at a time. Fixed offsets satisfy both, and so
  does the zone of run `schedules`, which is changed in both directions and skips a daily
  job's time. Where a weekly time is skipped, no next run is found (`weekly_gap`).
* `PlainCron`. A day of the month written as the whole range (`1-31`) counts as
  unrestricted, so with a weekday it names fewer days than it says (`is_full_range`); a
  range of weekdays that ends in 7 is read as one that ends in 0, and `5-*` leaves out
  Sunday.
* `NoSubdirs` (no block has a `mirror_subdir`, and it is no field of the form). Each save
  appends it to the storage path once more.
* `WholeMebibytes` (memory limits are multiples of 1 MiB). Others are shown in bytes and
  read back as megabytes.
* `SoleWriter` (nobody else changes the files, and the manager handles no deletion after
  the console gave up on it). Otherwise: a save is written, the file changes, the operator
  leaves the file, reads it again and types the saved text once more, and only then does
  the completion of that save arrive. It compares path and text, not the file, and clears
  the mark (`finish_file_save`, `tui/src/lib.rs:277`).

### Cluster

`ClusterProofs`, over the lemmas of `RunStoreProofs` and its own on what each
statement and each handler keeps:

* `TypeCorrect`: `Spec => []TypeOK`.
* `OneActive`: `Spec => []OneActivePerJob`. The induction needs that a row's
  number is below `nextId` when it exists (`TableInv`), so that an insert never
  overwrites a claimed row; the rest is the claim's guard with the index, and that
  every other statement never activates a row.
* `TerminalFinal`: `Spec => TerminalIsFinal`, from the same invariant.
* `AbsentHasNone`, under `SpecBeyond`: not inductive by itself, since a dispatch that was
  checked before the job went would insert a row for it; `AbsentInv` adds
  `DispatchKnown`, that no dispatch is under way for a job that is gone, which is what
  `config_gate` is for. Each step then either leaves a row in flight where it was or
  queues a row of a known job (`Follows`).
* `OneActiveBeyond`: a purge removes rows and nothing else.

`LeaseProofs`: `LeaseInvariant`, `TrackedWriter`, `TrackedSingle`. What matters,
`TrackedWriterOwnsRun`, is not inductive: whether a lease is still live when an
execution ends depends on who renewed it when. `LeaseInv` adds what the argument
needs, one formula per stage of a claim:

1. `TokensFresh`: a token not yet issued is nowhere, so a new claim collides with
   nothing.
2. `EntryHasTask`: an entry of a running map is of a live task of that worker.
3. `ClaimOutlasts`: a claim on its way to the worker has a lease that outlasts the
   safety margin and the call, plus the time to stop.
4. `ExecOutlasts`: the lease of a tracked execution outlasts the watchdog's
   deadline plus the time to stop; if a heartbeat answer is on its way, also the
   deadline that answer will set, unless it cancels the run.
5. `StopOutlasts`: the lease of a cancelled execution outlasts its provider.
6. `LateIsOver`: a report handled late is of a task that executes no more, so it
   cannot end the row of an execution.

`TrackedSingle` then follows with `OneActive`: two tracked executions of one job
both own the one active row, and a row has one token.

`WriterOwns` and `Single` drop "tracked" for jobs that are not retried in place. `OnceInv`
adds `RowsOnce` (no row waits for a retry, no token is in two rows) and `EntriesOnce` (an
entry is of a row that was claimed and never waits again, a granted claim finds no entry of
its run, a task that is not over has its entry): then no claim writes over an entry, every
execution is tracked, and the theorems about tracked ones apply.

`ImplementsService` is the refinement, `NoRetries /\ Spec => LeaseRefinement`. The claimed
row of a job is its lease. Claims are `Grant`; reports, expiries and whatever else ends an
active row are `Release`, and are allowed because the holder does not work (by `OnceInv`, an
execution's row is active with time left); heartbeats renew; spawning and ending a task
begin and end work; ticks count every lease down at once; everything else changes nothing
the service sees. A heartbeat renews several leases at once and a pass of the reaper ends
several, which is why `Renew` and `Release` of `LeaseService` take sets.

The theorems of `LeaseProofs` are about `Spec`, which leaves out `Beyond`: a job deleted
while it runs, and a provider that outlives its worker. The code does not protect against
either by itself.

### One host

`StandaloneProofs`:

* `SlotsBalance`: `SlotsInv` adds to `LocalInv` that executions have issued tokens and
  rows, if these were not purged (`RowsInv`, `ExecutionsInv`), and that the gate of a job
  was respected (`GateInv`). The counts are cardinalities of sets of executions: each step adds or
  removes one of them, in the set and in the counter.
* `StopReaches`: with one execution per job and process the entry under the job's name is
  that execution's.
* `ClaimsSuffice`, `FinishedForGood`: the statements are by id, so an execution is safe only
  while its row is its own. `ClaimInv`: one active row per job (`OneClaim`), the row of an
  execution, and of an orphan, is its claim if every process knows the job (`HoldsRow`,
  `OrphansHold`), and nobody is between the two statements of a retry (`NoMarking`). A purge
  takes no row of such a job (`SyncClaims`), and what the processes do to the rows of the
  others touches none of it (`ForeignClaims`, `ForeignTask`).

`RunOnceProofs`, on the locks, for every directory tree, every set of executions and
rollbacks and every kind of each, from `LockAssumption` alone:

* `LockInvariant`: `Spec => []LockInv`. Exclusion is not inductive by itself: it
  needs that no two open descriptions hold locks flock would refuse (`FlockInv`) and
  that whoever may write, an orphaned child included, has its whole plan
  (`FullInv`).
* `OverlapExclusion`: two plans for one directory both end in its exclusive lock; if
  one target contains the other, the plan of the inner one contains the outer one's
  last node, which the outer one holds exclusively: the two locks would break
  `FlockInv`.
* `IndependentProceed`: a lock that refuses is exclusive on one side, so it is the
  last node of one plan and on the path of the other: the targets overlap.

and on the stages, for every tree, every set of runs with their policies, and any number of
rollbacks, with `RunAssumption` (a run locks as `LockKind` says and a rollback the whole backend,
`snapshot/src/lib.rs:72` and `:129`; the retention counts are numbers, 0 for none):

* `StagesKeepLocks`: `RunSpec => KeepsLocks`, the lock protocol being `Spec` of
  `StorageLock`; `StagesExclude` follows from `OverlapExclusion`.
* `StagesHold`: `RunSpec => []StageInv`. The way back is not inductive: another run might
  delete the snapshot. `WayInv` adds that the snapshot is there from the stage that takes
  it, and that only a run that locks the whole backend is ever in the prune stage; then a
  pruning run and one that asked for a snapshot would both hold the root, which
  `OverlapsExclude` forbids.
* `SnapshotsClean`: a run that takes a snapshot holds the root, so nobody else writes
  (`Alone`). `CleanInv` adds what is true of the run itself: before the snapshot it has no
  child, a child that is left when the result is judged was killed or is one that outlived
  its leader, and a run in the stage "after" has a tree that was judged within the limits,
  which no other holder changes; whoever writes beyond the locks marks the tree as such
  (`LooseMarks`), which is why the statement excepts exactly those trees.
* `RetentionHolds`: that a deletion leaves enough depends on all those before it.
  `PlanInv` says of what is left of a plan that each member has `keep_last` newer
  snapshots, and either `keep_daily` later days have snapshots or a snapshot of its own day
  is kept. A fresh plan has it (`RetentionPlans`: a day's oldest snapshot is only deleted
  if `keep_daily` firsts of other, later days are newer, and different firsts are of
  different days since names are unique, `NamesInv`); deleting the oldest keeps it
  (`PlanShrinks`: the deleted one is newer than nothing left); a new snapshot keeps it
  (`PlanGrows`); and two runs never prune at once.

`ProviderProofs`, for every provider, every upstream and number of attempts, downloads and
faults. `AttemptInv` is one invariant for a fetch and one for processes:

* A fetch (`HttpInv`): what is downloaded is listed, and so is the metadata of the manifest
  that is held back (`Listed`); while listings come in, what is not on disk is to be fetched
  (`Planning`); an incomplete plan is a failure and deletes nothing, and nothing listed is
  deleted (`Executing`); every listed file arrives or there is a reason to stop before the
  manifest is published (`Arriving`); with `delete`, whatever else is on disk is to be
  deleted (`Deleting`). Hence a manifest appears after its metadata, deletions come after
  a complete listing with every file in place, and success is exact.
* Processes (`ProcInv`): whatever runs is of the current attempt, except a container, and
  there is one container at most because its name is the job's (`OwnLive`, which also says
  what may run in which phase: at a success the rest is all that is left,
  `OnlyTheRest`); the second
  stage of a two-stage rsync works with the list of the first, which is in place
  (`SecondStage`).

### Schedules

`DispatchProofs`. First the algorithms of `Calendar`, for every zone and every calendar:
`NextFires` says that what `next_after` returns is later than the clock and a time at which
the schedule fires, from a lemma per kind (`DailyNext`, `WeeklyNext`, `CronNext`,
`GridNext`) and `CronSound`, that a parsed expression matches only what the expression
means. Fields of a cron expression are compared with their meaning field by field: a field
is unrestricted when it *is* a star (`*,5` is a restriction, in `Fires` and in the code),
and a day-of-week range from 7 begins the week. Then `SchedInv`:

* `InOrder`: the start is not later than the loop and that not later than the clock; one row
  is in hand at most, and it is of a known job.
* `Follows`: the rows have the schedules and policies of the configuration in memory, and an
  interval has its anchor.
* `SinceBoot`, `Caught`: what the boot pass has been over is not older than the start, what
  a tick has been over is later than the tick.
* `Served`: a point that was served is replaced in the same loop, or the process died.
* `Missing`: what is to be made up for is still overdue, and ahead of the boot pass.

`OneRun` is `Served` where no row is in hand; `MissedMadeUp` is `Missing` at the end of the
boot pass; `PointsOnGrid` and `QuietReload` come from what is written into a row
(`RowWritten`, `RecomputeWrites`), which needs the anchor of `Follows`.

`NextIsTheFirst` is about the algorithms alone. Readings that come for the first time come
in their order (`FirstsInOrder`), so a scan over readings in their order that finds any
finds the first firing (`ScanFinds`). What is left is that the scans are long enough: three
days and a week and two days are, because from the day after tomorrow on every reading that
is not skipped is later than now (`LaterDay`, `DailyFirst`, `WeeklyFirst`). Two years of
minutes need not be, and nothing is assumed of the calendar: `CronFirst` says that a first
firing within them is found and one beyond them is not. `CronComplete` is the converse of
`CronSound` for plain expressions.

### Console

`ConsoleProofs`. First the conversions of `JobForm`, field by field: `RoundTrip` says that
what is resolved from an expanded block, flattened for the editor, written back and
resolved again has every part that hangs on no edited field as before, and `SameParts`
that expanding what was written changes the parts of `Referring` fields only (`DurationBack` and `MemoryBack` for
the units, `ScheduleBack` and `ProviderBack` for the parts that several fields decide
together); `EditorDoc`, that what the editor holds can be written as a block at all;
`FieldEdit` and `ListEdit`, that an edit keeps to its field. Then `ConInv`, over all the
places a specification is held in:

* `BlocksOK`, `LiveOK`: the files hold blocks, and what the manager has loaded was resolved
  from blocks it did not refuse.
* `SnapOK`, with `HeldOK`, for the snapshot behind the mutex, the copy the loop draws from
  and the one the detail task is about to write back (`DetailOK`): the object of the editor
  belongs to the job it is kept under and is the specification that was fetched for it but
  for the edited fields.
* `ActOK`: so is the object of a command under way, and the command is the one the console
  waits for. `AppOK`: the selection, the input line and the file buffer fit together.

Every key, task and completion keeps it (`KeyShape` is what all keys have in common).
`SavesItsOwn` and `EditsAreKept` are consequences, `SavingKeepsBase` and
`SavingNeverBreaks` follow from `ActOK` at the step that writes the block (`SavingStep`) and
`RoundTrip`. `UnsavedIsMarked` needs `FileInv` besides: from the moment a save is written
until its completion is handled, the file has the text that was saved, unless the command
failed; `finish_file_save` may then take the text of the buffer for that of the file.

### What stays with TLC

* Liveness: fairness and `ENABLED` are beyond the prover. In `Console` this is
  `DetailArrives`, in `Provider` `CancelReturns` and `Converges`; the rest are those of runs
  `liveness` and `local_daemon`.

## 5. Plan

Done: the cluster with its lease theorems and the refinement; the standalone engine, the
storage lock, the stages of a run, the providers with the HTTP fetcher and schedules, each
with theorems for its safety properties and for the next times of schedules; the console with the conversions of a job's
settings, likewise.

Left, in this order:

1. Placement: `WorkerPicker` with labels, load and caps over a stale snapshot; late
   shutdown and unregister calls.
2. Run life in one place: `state.rs` transitions and `retry_decision` with backoff as
   operators, checked against what the store's statements do.
3. Routes: group selection, probing, failover. Reading them showed that `probe_all` works
   on a clone, so that its results never reach `select_proxy`, that an egress is selected
   twice per run (`engine/src/executor.rs:437`), and that listeners are taken from the
   configuration at start only.

Not modelled and not planned: TOML syntax, database drivers and migrations,
authentication, metrics, notifications, text generation and parsing, and rendering. They
are I/O or presentation and keep no state of the protocol.
