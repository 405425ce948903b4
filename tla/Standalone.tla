------------------------------ MODULE Standalone ------------------------------
(***************************************************************************)
(* Runs without a manager: `synora start' (the daemon) and `synora run' /  *)
(* `run-group' (one-shots), every one of them an Engine of crates/engine   *)
(* with its own tables of active runs and permits, sharing the job_runs    *)
(* table and the storage of one host.  All of them claim as worker         *)
(* 'local'.  An execution is named by the lease token of its claim.        *)
(*                                                                         *)
(* The passes of a daemon's tick are actions of their own: each may find   *)
(* nothing to do, so every order of them is an order the ticks produce.    *)
(***************************************************************************)
EXTENDS RunStore

CONSTANTS Procs,       \* processes that run an Engine
          Daemon,      \* the one that is `synora start'
          Conf,        \* [Procs -> [Jobs -> {"enabled", "disabled", "absent"}]]
          Deps,        \* [Jobs -> SUBSET Jobs]: JobSpec.depends_on
          MaxConc,     \* [Jobs -> Nat]: JobSpec.max_concurrency
          Permits,     \* daemon.max_concurrency, the permits of global_sem
          MaxStops,    \* bound: stop files written
          MaxCrashes   \* bound: processes killed or told to shut down

ASSUME StandaloneAssumption ==
    /\ Workers # {}
    /\ Daemon \in Procs
    /\ Conf \in [Procs -> [Jobs -> {"enabled", "disabled", "absent"}]]
    /\ Deps \in [Jobs -> SUBSET Jobs]
    /\ MaxConc \in [Jobs -> Nat \ {0}]
    /\ Permits \in Nat \ {0}
    /\ MaxStops \in Nat /\ MaxCrashes \in Nat

VARIABLES runs,       \* job_runs
          known,      \* names in the table jobs, which job_runs refers to
          nextId,     \* the next row to be created
          nextTok,    \* the next lease token to be issued
          up,         \* [Procs]: "down", "up", or "stopping" after SIGTERM
          goal,       \* [Procs]: the job a one-shot was started for
          want,       \* [Procs]: the row a one-shot waits for; 0 before
          disp,       \* [Procs]: the job whose lock a dispatch holds
          queue,      \* [Procs]: what is left of execute_queued's list
          active,     \* [Procs]: [Jobs]: Engine.active
          permits,    \* [Procs]: permits left in global_sem
          tokens,     \* [Procs]: [Jobs]: Engine.active_runs; 0 is no entry
          ex,         \* [Tokens]: executions
          orphans,    \* <<execution, job>> whose provider outlived its process
          stopFiles,  \* jobs with a file control/stop-<job>
          stops, crashes

tables == <<runs, known, nextId, nextTok>>
procs  == <<up, goal, want, disp, queue>>
slots  == <<active, permits, tokens>>
envs   == <<orphans, stopFiles, stops, crashes>>
vars   == <<tables, procs, slots, ex, envs>>

Phases  == {"none", "spawned", "registered", "writing", "ended", "marking", "leaving"}
Results == {"success", "failed", "config", "cancelled"}
NoProc  == "none"

Execution == [ph : Phases, proc : Procs \cup {NoProc}, run : RunIds \cup {0},
              job : Jobs \cup {NoJob}, res : Results \cup {"none"}, cancel : BOOLEAN]
NoEx == [ph |-> "none", proc |-> NoProc, run |-> 0, job |-> NoJob, res |-> "none",
         cancel |-> FALSE]

Local == CHOOSE w \in Workers : TRUE
JobOf(t) == ex[t].job
Has(p)   == {j \in Jobs : Conf[p][j] # "absent"}

\* The INSERT of create_run finds an id, and the name that the row refers to.
Room(j) == nextId \in RunIds /\ j \in known

Live(p)  == {t \in Tokens : ex[t].ph # "none" /\ ex[t].proc = p}

TypeOK ==
    /\ runs \in [RunIds -> Row]
    /\ known \subseteq Jobs
    /\ nextId \in 1..(MaxRuns + 1)
    /\ nextTok \in 1..(MaxTokens + 1)
    /\ up \in [Procs -> {"down", "up", "stopping"}]
    /\ goal \in [Procs -> Jobs \cup {NoJob}]
    /\ want \in [Procs -> RunIds \cup {0}]
    /\ disp \in [Procs -> Jobs \cup {NoJob}]
    /\ queue \in [Procs -> SUBSET RunIds]
    /\ active \in [Procs -> [Jobs -> Nat]]
    /\ permits \in [Procs -> 0..Permits]
    /\ tokens \in [Procs -> [Jobs -> Tokens \cup {NoToken}]]
    /\ ex \in [Tokens -> Execution]
    /\ orphans \subseteq Tokens \X Jobs
    /\ stopFiles \subseteq Jobs
    /\ stops \in 0..MaxStops
    /\ crashes \in 0..MaxCrashes

\* The tables are empty, or have a row that was left when its job was disabled
\* in, or taken out of, the configuration somebody reads.
Leftover ==
    \E j \in Jobs, st \in {"QUEUED", "RETRYING"} :
        /\ 1 \in RunIds
        /\ \E p \in Procs : Conf[p][j] # "enabled"
        /\ \E p \in Procs : j \in Has(p)
        /\ runs = create_run([r \in RunIds |-> NoRow], 1, j, Local, st)
        /\ known = {j}
        /\ nextId = 2

Init ==
    /\ \/ runs = [r \in RunIds |-> NoRow] /\ known = {} /\ nextId = 1
       \/ Leftover
    /\ nextTok = 1
    /\ up = [p \in Procs |-> "down"]
    /\ goal = [p \in Procs |-> NoJob]
    /\ want = [p \in Procs |-> 0]
    /\ disp = [p \in Procs |-> NoJob]
    /\ queue = [p \in Procs |-> {}]
    /\ active = [p \in Procs |-> [j \in Jobs |-> 0]]
    /\ permits = [p \in Procs |-> Permits]
    /\ tokens = [p \in Procs |-> [j \in Jobs |-> NoToken]]
    /\ ex = [t \in Tokens |-> NoEx]
    /\ orphans = {}
    /\ stopFiles = {}
    /\ stops = 0
    /\ crashes = 0

-----------------------------------------------------------------------------
(* Statements of the store that only the local engine uses: no fence, and   *)
(* nothing happens to a row that was deleted.                               *)

Update(T, r, row) == [T EXCEPT ![r] = IF @.st = "ABSENT" THEN @ ELSE row]

\* finish_run and set_run_status by id; an UPDATE that would give the job a
\* second active row violates the index, and the caller drops the error.
set_run_status(T, r, s) ==
    IF s \in Active /\ one_active_run_per_job(T, T[r].job) \ {r} # {}
    THEN T ELSE Update(T, r, [T[r] EXCEPT !.st = s])

finish_run(T, r, s) == Update(T, r, [T[r] EXCEPT !.st = s, !.lease = 0])

set_retry(T, r) == Update(T, r, [T[r] EXCEPT !.st = "RETRYING", !.retry = @ + 1])

queued_runs(T) == {r \in RunIds : T[r].st = "QUEUED" /\ T[r].worker \in {NoWorker, Local}}

-----------------------------------------------------------------------------
(* Processes. *)

\* sync_config: the jobs of p's configuration go into the tables, and every
\* other job is forgotten with its rows (forget_job, purge_job), whoever
\* executes them.  The process itself has no execution of such a job.
sync_config(p) ==
    /\ known' = Has(p)
    /\ runs' = [r \in RunIds |-> IF runs[r].job \in Has(p) THEN runs[r] ELSE NoRow]
    /\ UNCHANGED <<nextId, nextTok>>

\* Mutant: a daemon that takes the rows of worker 'local' for its own past.
StartAndRecover ==
    /\ up[Daemon] = "down"
    /\ up' = [up EXCEPT ![Daemon] = "up"]
    /\ runs' = [r \in RunIds |-> IF runs[r].job \notin Has(Daemon) THEN NoRow
                                 ELSE IF runs[r].st \in Active THEN expire_run(runs, r)[r]
                                 ELSE runs[r]]
    /\ known' = Has(Daemon)
    /\ UNCHANGED <<nextId, nextTok, goal, want, disp, queue, slots, ex, envs>>

\* cmd_start: the rows of the jobs it knows are as the last process left them.
Start ==
    /\ up[Daemon] = "down"
    /\ up' = [up EXCEPT ![Daemon] = "up"]
    /\ sync_config(Daemon)
    /\ UNCHANGED <<goal, want, disp, queue, slots, ex, envs>>

\* cmd_run, and cmd_run_group for its first job: Engine::run_once.
OneShot(p, j) ==
    /\ p # Daemon /\ up[p] = "down"
    /\ up' = [up EXCEPT ![p] = "up"]
    /\ goal' = [goal EXCEPT ![p] = j]
    /\ sync_config(p)
    /\ UNCHANGED <<want, disp, queue, slots, ex, envs>>

\* What is left of process p when it is gone.
Gone(p) ==
    /\ up' = [up EXCEPT ![p] = "down"]
    /\ goal' = [goal EXCEPT ![p] = NoJob]
    /\ want' = [want EXCEPT ![p] = 0]
    /\ disp' = [disp EXCEPT ![p] = NoJob]
    /\ queue' = [queue EXCEPT ![p] = {}]
    /\ active' = [active EXCEPT ![p] = [j \in Jobs |-> 0]]
    /\ permits' = [permits EXCEPT ![p] = Permits]
    /\ tokens' = [tokens EXCEPT ![p] = [j \in Jobs |-> NoToken]]
    /\ ex' = [t \in Tokens |-> IF t \in Live(p) THEN NoEx ELSE ex[t]]
    /\ UNCHANGED tables

\* The wait of Engine::run_once is over.
Waited(p) == p # Daemon /\ want[p] # 0 /\ runs[want[p]].st \in Terminal

\* cmd_run returns: the runtime is dropped, and its tasks with their children.
OneShotExit(p) == Waited(p) /\ Gone(p) /\ UNCHANGED envs

\* The row it waits for was purged by a process that does not know its job.
OneShotDisappeared(p) ==
    /\ p # Daemon /\ want[p] # 0 /\ runs[want[p]].st = "ABSENT"
    /\ Gone(p)
    /\ UNCHANGED envs

\* cmd_run_group goes on with the next job of the group.
OneShotNext(p, j) ==
    /\ Waited(p)
    /\ goal' = [goal EXCEPT ![p] = j]
    /\ want' = [want EXCEPT ![p] = 0]
    /\ sync_config(p)
    /\ UNCHANGED <<up, disp, queue, slots, ex, envs>>

\* dispatch answers Err: unknown or disabled job.
OneShotRefused(p) ==
    /\ p # Daemon /\ up[p] = "up" /\ want[p] = 0
    /\ Conf[p][goal[p]] # "enabled"
    /\ Gone(p)
    /\ UNCHANGED envs

\* SIGTERM sets the flag; run() leaves its loop at the next tick.
Shutdown ==
    /\ up[Daemon] = "up" /\ crashes < MaxCrashes
    /\ up' = [up EXCEPT ![Daemon] = "stopping"]
    /\ crashes' = crashes + 1
    /\ UNCHANGED <<tables, goal, want, disp, queue, slots, ex, orphans, stopFiles, stops>>

DaemonExit == up[Daemon] = "stopping" /\ Gone(Daemon) /\ UNCHANGED envs

\* A process is killed; its providers may go on, with the storage lock.
Crash(p) ==
    /\ up[p] # "down" /\ crashes < MaxCrashes
    /\ \E S \in SUBSET {t \in Live(p) : ex[t].ph = "writing"} :
         orphans' = orphans \cup {<<t, JobOf(t)>> : t \in S}
    /\ crashes' = crashes + 1
    /\ Gone(p)
    /\ UNCHANGED <<stopFiles, stops>>

OrphanEnds(o) ==
    /\ orphans' = orphans \ {o}
    /\ UNCHANGED <<tables, procs, slots, ex, stopFiles, stops, crashes>>

-----------------------------------------------------------------------------
(* dispatch.  The hold after a loss never applies: no local row is LOST.    *)

\* Who dispatches what: the daemon on its schedule, a one-shot its own job.
Dispatches(p, j) ==
    /\ up[p] = "up" /\ disp[p] = NoJob /\ want[p] = 0
    /\ Conf[p][j] = "enabled"
    /\ p = Daemon \/ goal[p] = j

\* The run id dispatch answers with.
Answer(p, r) == want' = IF p = Daemon THEN want ELSE [want EXCEPT ![p] = r]

DepsMissing(j) == \E d \in Deps[j] : ~LatestIn(runs, d, {"SUCCESS"})

DispatchSkipped(p, j) ==
    /\ Dispatches(p, j) /\ DepsMissing(j) /\ Room(j)
    /\ runs' = create_run(runs, nextId, j, NoWorker, "SKIPPED")
    /\ nextId' = nextId + 1
    /\ Answer(p, nextId)
    /\ UNCHANGED <<known, nextTok, up, goal, disp, queue, slots, ex, envs>>

DispatchExisting(p, j) ==
    /\ Dispatches(p, j) /\ ~DepsMissing(j) /\ p # Daemon
    /\ \E r \in inflight_runs_of_job(runs, j) : Answer(p, r)
    /\ UNCHANGED <<tables, up, goal, disp, queue, slots, ex, envs>>

\* The job's lock is the process's own: another process may be here too.
DispatchLock(p, j) ==
    /\ Dispatches(p, j) /\ ~DepsMissing(j) /\ (Room(j) \/ p # Daemon)
    /\ inflight_runs_of_job(runs, j) = {}
    /\ disp' = [disp EXCEPT ![p] = j]
    /\ UNCHANGED <<tables, up, goal, want, queue, slots, ex, envs>>

DispatchInsert(p) ==
    /\ disp[p] # NoJob /\ Room(disp[p])
    /\ runs' = create_run(runs, nextId, disp[p], Local, "QUEUED")
    /\ nextId' = nextId + 1
    /\ disp' = [disp EXCEPT ![p] = NoJob]
    /\ Answer(p, nextId)
    /\ UNCHANGED <<known, nextTok, up, goal, queue, slots, ex, envs>>

\* create_run fails: the job was purged meanwhile, or no row is left here.  A
\* one-shot returns the error.
DispatchFails(p) ==
    /\ \E j \in Jobs : /\ ~Room(j)
                       /\ \/ disp[p] = j
                          \/ p # Daemon /\ Dispatches(p, j) /\ DepsMissing(j)
    /\ IF p = Daemon
       THEN /\ disp' = [disp EXCEPT ![p] = NoJob]
            /\ UNCHANGED <<tables, up, goal, want, queue, slots, ex>>
       ELSE Gone(p)
    /\ UNCHANGED envs

\* retry_tick, for one due row; only the daemon has it.
retry_tick(r) ==
    /\ up[Daemon] = "up"
    /\ runs[r].st = "RETRYING"
    /\ \/ /\ Conf[Daemon][runs[r].job] = "disabled"
          /\ runs' = finish_run(runs, r, "CANCELLED")
       \/ /\ Conf[Daemon][runs[r].job] # "disabled"
          /\ active_runs_of_job(runs, runs[r].job) = {}
          /\ runs' = Update(runs, r, [runs[r] EXCEPT !.st = "QUEUED"])
    /\ UNCHANGED <<known, nextId, nextTok, procs, slots, ex, envs>>

-----------------------------------------------------------------------------
(* execute_queued: the list is read once, its rows are served one by one.   *)

execute_queued(p) ==
    /\ up[p] = "up" /\ queue[p] = {}
    /\ p = Daemon \/ want[p] # 0
    /\ queued_runs(runs) # {}
    /\ queue' = [queue EXCEPT ![p] = queued_runs(runs)]
    /\ UNCHANGED <<tables, up, goal, want, disp, slots, ex, envs>>

Serves(p, r) ==
    /\ up[p] = "up" /\ r \in queue[p]
    /\ queue' = [queue EXCEPT ![p] = @ \ {r}]

\* The job is not in this process's configuration.
ServeRemoved(p, r) ==
    /\ Serves(p, r)
    /\ runs[r].job \in Jobs \ Has(p)
    /\ runs' = finish_run(runs, r, "FAILED")
    /\ UNCHANGED <<known, nextId, nextTok, up, goal, want, disp, slots, ex, envs>>

\* Mutant: the gate of the job is left out.
ClaimsUngated(p, r) ==
    /\ runs[r].job \in Has(p)
    /\ permits[p] > 0
    /\ claimable(runs, r, Local)

\* The gates of the process, and the claim's WHERE clause.
Claims(p, r) ==
    /\ runs[r].job \in Has(p)
    /\ active[p][runs[r].job] < MaxConc[runs[r].job]
    /\ permits[p] > 0
    /\ claimable(runs, r, Local)

ServeClaim(p, r) ==
    /\ Serves(p, r) /\ Claims(p, r) /\ nextTok \in Tokens
    /\ runs' = claim_run(runs, r, Local, nextTok)
    /\ nextTok' = nextTok + 1
    /\ active' = [active EXCEPT ![p][runs[r].job] = @ + 1]
    /\ permits' = [permits EXCEPT ![p] = @ - 1]
    /\ ex' = [ex EXCEPT ![nextTok] = [NoEx EXCEPT !.ph = "spawned", !.proc = p, !.run = r,
                                            !.job = runs[r].job]]
    /\ UNCHANGED <<known, nextId, up, goal, want, disp, tokens, envs>>

\* Mutant: the permit is not dropped when the claim is lost.
ServeSkipKeepsPermit(p, r) ==
    /\ Serves(p, r)
    /\ runs[r].job \in Has(p) \cup {NoJob} /\ ~Claims(p, r)
    /\ permits' = [permits EXCEPT ![p] = IF @ > 0 /\ ~claimable(runs, r, Local)
                                         THEN @ - 1 ELSE @]
    /\ UNCHANGED <<tables, up, goal, want, disp, active, tokens, ex, envs>>

\* A gate is closed, or somebody else was first, or the row was purged.
ServeSkip(p, r) ==
    /\ Serves(p, r)
    /\ runs[r].job \in Has(p) \cup {NoJob} /\ ~Claims(p, r)
    /\ UNCHANGED <<tables, up, goal, want, disp, slots, ex, envs>>

-----------------------------------------------------------------------------
(* execute_run and run_once.                                                *)

\* set_run_status(RUNNING), and the token goes into active_runs by job name.
Register(t) ==
    /\ ex[t].ph = "spawned"
    /\ runs' = set_run_status(runs, ex[t].run, "SYNCING")
    /\ tokens' = [tokens EXCEPT ![ex[t].proc][JobOf(t)] = t]
    /\ ex' = [ex EXCEPT ![t].ph = "registered"]
    /\ UNCHANGED <<known, nextId, nextTok, procs, active, permits, envs>>

\* Executions and orphans that hold the storage lock of job j.
Lockers(j) == {t \in Tokens : ex[t].ph = "writing" /\ JobOf(t) = j}
         \cup {o[1] : o \in {q \in orphans : q[2] = j}}

End(t, res) == ex' = [ex EXCEPT ![t].ph = "ended", ![t].res = res]

\* StorageLock (module StorageLock), which fails when it is taken or cannot
\* be opened, then the first look at the token.
AcquireStorage(t) ==
    /\ ex[t].ph = "registered"
    /\ \/ End(t, "failed")
       \/ Lockers(JobOf(t)) = {} /\ ex[t].cancel /\ End(t, "cancelled")
       \/ Lockers(JobOf(t)) = {} /\ ~ex[t].cancel /\ ex' = [ex EXCEPT ![t].ph = "writing"]
    /\ UNCHANGED <<tables, procs, slots, envs>>

\* run_once_inner and the terminal hooks: storage, snapshots, hooks, provider,
\* safety and verification all end in a result; the lock is dropped with it.
RunOnceEnds(t, res) ==
    /\ ex[t].ph = "writing"
    /\ res = "cancelled" => ex[t].cancel
    /\ End(t, res)
    /\ UNCHANGED <<tables, procs, slots, envs>>

\* finish_run of the executor: the row is written by id.
Retries(t) == ex[t].res = "failed" /\ runs[ex[t].run].retry < RetryMax[JobOf(t)]

FinalStatus(res) == CASE res = "cancelled" -> "CANCELLED"
                      [] res = "success"   -> "SUCCESS"
                      [] OTHER             -> "FAILED"

FinishRun(t) ==
    /\ ex[t].ph = "ended"
    /\ IF Retries(t)
       THEN /\ runs' = set_retry(runs, ex[t].run)
            /\ ex' = [ex EXCEPT ![t].ph = "marking"]
       ELSE /\ runs' = finish_run(runs, ex[t].run, FinalStatus(ex[t].res))
            /\ ex' = [ex EXCEPT ![t].ph = "leaving"]
    /\ UNCHANGED <<known, nextId, nextTok, procs, slots, envs>>

\* ... and set_run_status(RETRYING) once more, a statement later.
MarkRetrying(t) ==
    /\ ex[t].ph = "marking"
    /\ runs' = set_run_status(runs, ex[t].run, "RETRYING")
    /\ ex' = [ex EXCEPT ![t].ph = "leaving"]
    /\ UNCHANGED <<known, nextId, nextTok, procs, slots, envs>>

\* Mutant: a cancelled run returns before it gives its place back.
LeaveUnlessCancelled(t) ==
    /\ ex[t].ph = "leaving"
    /\ tokens' = [tokens EXCEPT ![ex[t].proc][JobOf(t)] = NoToken]
    /\ active' = IF ex[t].res = "cancelled" THEN active
                 ELSE [active EXCEPT ![ex[t].proc][JobOf(t)] = @ - 1]
    /\ permits' = [permits EXCEPT ![ex[t].proc] = @ + 1]
    /\ ex' = [ex EXCEPT ![t] = NoEx]
    /\ UNCHANGED <<tables, procs, envs>>

\* remove_run (by job name), active_dec, and the permit is dropped.
Leave(t) ==
    /\ ex[t].ph = "leaving"
    /\ tokens' = [tokens EXCEPT ![ex[t].proc][JobOf(t)] = NoToken]
    /\ active' = [active EXCEPT ![ex[t].proc][JobOf(t)] = @ - 1]
    /\ permits' = [permits EXCEPT ![ex[t].proc] = @ + 1]
    /\ ex' = [ex EXCEPT ![t] = NoEx]
    /\ UNCHANGED <<tables, procs, envs>>

-----------------------------------------------------------------------------
(* synora stop. *)

cmd_stop(j) ==
    /\ stops < MaxStops
    /\ stops' = stops + 1
    /\ stopFiles' = stopFiles \cup {j}
    /\ UNCHANGED <<tables, procs, slots, ex, orphans, crashes>>

\* Mutant: the file is removed whether or not it found a run.
ControlAlwaysRemoves(j) ==
    /\ up[Daemon] = "up" /\ j \in stopFiles
    /\ stopFiles' = stopFiles \ {j}
    /\ ex' = IF tokens[Daemon][j] = NoToken THEN ex
             ELSE [ex EXCEPT ![tokens[Daemon][j]].cancel = TRUE]
    /\ UNCHANGED <<tables, procs, slots, orphans, stops, crashes>>

\* process_control_dir: the file goes when stop_job found a token to cancel.
process_control_dir(j) ==
    /\ up[Daemon] = "up" /\ j \in stopFiles
    /\ tokens[Daemon][j] # NoToken
    /\ stopFiles' = stopFiles \ {j}
    /\ ex' = [ex EXCEPT ![tokens[Daemon][j]].cancel = TRUE]
    /\ UNCHANGED <<tables, procs, slots, orphans, stops, crashes>>

-----------------------------------------------------------------------------
ProcStep(p) ==
    \/ OneShotExit(p) \/ OneShotDisappeared(p) \/ OneShotRefused(p)
    \/ DispatchInsert(p) \/ DispatchFails(p)
    \/ \E j \in Jobs : \/ p # Daemon /\ (DispatchSkipped(p, j) \/ DispatchLock(p, j))
                       \/ DispatchExisting(p, j)

Serve(p) ==
    \/ execute_queued(p)
    \/ \E r \in RunIds : ServeRemoved(p, r) \/ ServeClaim(p, r) \/ ServeSkip(p, r)

TaskStep(t) ==
    Register(t) \/ AcquireStorage(t) \/ FinishRun(t) \/ MarkRetrying(t) \/ Leave(t)

Ends(t) == \E res \in Results : RunOnceEnds(t, res)

Schedule == \E j \in Jobs : DispatchSkipped(Daemon, j) \/ DispatchLock(Daemon, j)

Next ==
    \/ Start \/ Shutdown \/ DaemonExit \/ Schedule
    \/ \E p \in Procs : \/ ProcStep(p) \/ Serve(p) \/ Crash(p)
                        \/ \E j \in Jobs : OneShot(p, j) \/ OneShotNext(p, j)
    \/ \E t \in Tokens : TaskStep(t) \/ Ends(t)
    \/ \E o \in orphans : OrphanEnds(o)
    \/ \E r \in RunIds : retry_tick(r)
    \/ \E j \in Jobs : cmd_stop(j) \/ process_control_dir(j)

Spec == Init /\ [][Next]_vars

\* Processes and tasks go on; a provider that was cancelled is killed, one
\* that was not may take as long as it likes.
FairSpec ==
    /\ Spec
    /\ \A p \in Procs : WF_vars(ProcStep(p)) /\ WF_vars(Serve(p))
    /\ \A t \in Tokens : WF_vars(TaskStep(t)) /\ WF_vars(ex[t].cancel /\ Ends(t))
    /\ \A r \in RunIds : WF_vars(retry_tick(r))
    /\ \A j \in Jobs : WF_vars(process_control_dir(j))

-----------------------------------------------------------------------------
(* Properties. *)

\* What a process thinks it executes is what it executes: no slot leaks on
\* any path out of execute_run, and none is given back twice.
SlotsAccounted ==
    \A p \in Procs :
        /\ permits[p] = Permits - Cardinality(Live(p))
        /\ \A j \in Jobs : active[p][j] = Cardinality({t \in Live(p) : JobOf(t) = j})

\* The types, and that every process has given back exactly the slots of the
\* executions that are over.
LocalInv == TypeOK /\ SlotsAccounted

\* An execution whose row is not finished yet, or what is left of one.
Busy(j) == {t \in Tokens : /\ ex[t].ph \in {"spawned", "registered", "writing", "ended"}
                           /\ JobOf(t) = j}
      \cup {o[1] : o \in {q \in orphans : q[2] = j}}

\* Jobs that every process has in its configuration.  What becomes of another
\* one's rows is up to the processes that do not know it: sync_config deletes
\* them and execute_queued fails them, by id, while they are executed.
Shared == {j \in Jobs : \A p \in Procs : j \in Has(p)}

\* Claims alone keep a job to one execution, across processes that share
\* nothing but the table and across crashes: the storage lock is never
\* contended (claim_run, one_active_run_per_job, execute_run).
ClaimsExclude == \A j \in Shared : Cardinality(Busy(j)) <= 1

\* Every execution that has registered can be reached by stop_job until it
\* has reported (register_run and remove_run go by job name).
Stoppable ==
    \A t \in Tokens : ex[t].ph \in {"registered", "writing"}
                      => tokens[ex[t].proc][JobOf(t)] = t

\* A finished row never changes, although no local statement is fenced.
TerminalStays ==
    [][\A r \in RunIds : runs[r].st \in Terminal /\ runs[r].job \in Shared
                         => runs'[r].st = runs[r].st]_vars

DaemonStays == <>[](up[Daemon] = "up")
ProvidersEnd == \A t \in Tokens : []<>(ex[t].ph # "writing")

\* With the daemon up and providers that end, whatever is queued or due to be
\* retried is executed or dropped in the end, gates and retries
\* notwithstanding.
EveryRunEnds ==
    DaemonStays /\ ProvidersEnd => \A r \in RunIds :
        (runs[r].st \in Inflight) ~> (runs[r].st \in Terminal)

\* With the daemon up, a stop file ends the execution it finds, even one
\* that has not registered its token yet (process_control_dir).
StopTakesEffect ==
    DaemonStays => \A t \in Tokens :
        (/\ ex[t].ph \in {"spawned", "registered", "writing"} /\ ex[t].proc = Daemon
         /\ JobOf(t) \in stopFiles)
        ~> (ex[t].ph = "none")

=============================================================================
