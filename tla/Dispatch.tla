------------------------------ MODULE Dispatch ------------------------------
(***************************************************************************)
(* The scheduler of the engine (engine.rs, scheduler.rs) over the persisted*)
(* schedules: sync_config at start, boot_pass, dispatch_due every tick,    *)
(* reloads, crashes and restarts.  A loop of the scheduler is not atomic:  *)
(* time passes, runs end, operators trigger runs and the process may die   *)
(* between the dispatch of a job and the new next_run.  What becomes of a  *)
(* dispatched run is the subject of Cluster and Standalone; here a job has *)
(* a run in flight or has none.                                            *)
(***************************************************************************)
EXTENDS Calendar

CONSTANTS Jobs,
          Configs,    \* sequence of configurations: [Jobs -> Spec \cup {Absent}]
          Absent,
          MaxTime,    \* bound: the last minute looked at
          MaxEvents   \* bound: reloads, triggers and crashes

VARIABLES now, live,    \* the clock; the configuration in memory
          row,          \* the table schedules
          pc,           \* where the scheduler is
          boot, at,     \* when run started; when the current loop did
          todo, cur,    \* rows the loop has not looked at; the job in hand
          busy,         \* jobs with a run in flight
          served,       \* jobs that have had a scheduled run for the stored point
          torn,         \* jobs dispatched by a process that died before next_run
          missed,       \* overdue at start, to be run immediately
          events

schedVars == <<now, live, row, pc, boot, at, todo, cur, busy, served, torn, missed, events>>
ghosts == <<served, torn, missed>>

NoRow == [sched |-> [kind |-> "manual"], next |-> None, anchor |-> None, pol |-> "none"]
Known(c) == {j \in Jobs : c[j] # Absent}
Policies == {"skip", "run-immediately", "run-next"}

\* What the loader makes of a job.
\* gated: it depends on other jobs, or is held after the loss of its worker.
IsSpec(s) == /\ IsSchedule(s.sched) /\ s.pol \in Policies
             /\ s.enabled \in BOOLEAN /\ s.gated \in BOOLEAN

ASSUME DispatchAssumption ==
    /\ MaxTime \in Instants /\ MaxEvents \in Nat /\ 1 \in DOMAIN Configs
    /\ \A g \in DOMAIN Configs : \A j \in Jobs :
          Configs[g][j] = Absent \/ IsSpec(Configs[g][j])

SchedTypeOK ==
    /\ now \in 0..MaxTime /\ live \in DOMAIN Configs
    /\ pc \in {"down", "synced", "boot_pass", "ready", "due"}
    /\ boot \in 0..MaxTime /\ at \in 0..MaxTime
    /\ todo \subseteq Jobs /\ cur \subseteq todo
    /\ busy \cup served \cup torn \cup missed \subseteq Jobs
    /\ \A j \in Jobs : /\ row[j].next \in Nat \cup {None}
                       /\ row[j].anchor \in Nat \cup {None}
                       /\ row[j].pol \in Policies \cup {"none"}
    /\ events \in 0..MaxEvents
    \* While it is up, the engine and the table know the same jobs.
    /\ pc # "down" => \A j \in Jobs : row[j] # NoRow <=> j \in Known(Configs[live])

\* A table from an earlier version of the configuration, or a new one.
SchedInit ==
    /\ now = 0 /\ live = 1 /\ row = [j \in Jobs |-> NoRow]
    /\ pc = "down" /\ boot = 0 /\ at = 0 /\ todo = {} /\ cur = {} /\ busy = {}
    /\ served = {} /\ torn = {} /\ missed = {} /\ events = 0

Event == events < MaxEvents /\ events' = events + 1
job(j) == Configs[live][j]

-----------------------------------------------------------------------------
(* sync_schedule_for, sync_config and reload. *)

\* Mutant: every start computes the next time anew.
Recomputed(j, spec, immediate) ==
    CASE spec.sched.kind \in Untimed  -> <<None, None>>
      [] spec.sched.kind = "interval" ->
            <<IF immediate THEN now ELSE now + spec.sched.every, now>>
      [] OTHER -> <<next_after(spec.sched, now, None), None>>

\* Mutant: a reload starts intervals at once.
AtOnce(j, spec, immediate) ==
    IF row[j] # NoRow /\ row[j].sched = spec.sched THEN <<row[j].next, row[j].anchor>>
    ELSE CASE spec.sched.kind \in Untimed  -> <<None, None>>
           [] spec.sched.kind = "interval" -> <<now, now>>
           [] OTHER -> <<next_after(spec.sched, now, None), None>>

\* The next time and the anchor: kept with an unchanged schedule.
NextAndAnchor(j, spec, immediate) ==
    IF row[j] # NoRow /\ row[j].sched = spec.sched THEN <<row[j].next, row[j].anchor>>
    ELSE CASE spec.sched.kind \in Untimed  -> <<None, None>>
           [] spec.sched.kind = "interval" ->
                 <<IF immediate THEN now ELSE now + spec.sched.every, now>>
           [] OTHER -> <<next_after(spec.sched, now, None), None>>

\* sync_schedule keeps the anchor it has when it is not given one.
sync_schedule_for(j, spec, immediate) ==
    LET na == NextAndAnchor(j, spec, immediate)
    IN [sched |-> spec.sched, next |-> na[1], pol |-> spec.pol,
        anchor |-> IF na[2] = None THEN row[j].anchor ELSE na[2]]

\* Mutant: a job that is gone keeps its row.
SyncedKeeps(c, immediate, J) ==
    [j \in Jobs |-> IF j \in J /\ c[j] # Absent THEN sync_schedule_for(j, c[j], immediate)
                    ELSE row[j]]

\* The table with configuration c; jobs that are gone are forgotten.
Synced(c, immediate, J) ==
    [j \in Jobs |-> IF c[j] = Absent THEN NoRow
                    ELSE IF j \in J THEN sync_schedule_for(j, c[j], immediate) ELSE row[j]]

\* The new table has the same points.
KeepServed == /\ served' = {j \in served : row'[j].next = row[j].next}
              /\ torn' = torn \cap served'

Overdue(c) == {j \in Known(c) : /\ row[j] # NoRow /\ row[j].sched = c[j].sched
                                /\ row[j].next # None /\ row[j].next < now
                                /\ c[j].pol = "run-immediately" /\ c[j].enabled}

\* The process starts with configuration g.
sync_config(g) ==
    /\ pc = "down"
    /\ pc' = "synced" /\ live' = g
    /\ row' = Synced(Configs[g], TRUE, Jobs)
    /\ busy' = busy \cap Known(Configs[g])
    /\ missed' = Overdue(Configs[g])
    /\ KeepServed
    /\ UNCHANGED <<now, boot, at, todo, cur, events>>

\* The gate keeps a reload out of the scheduler's loops.  What waits of a
\* changed job is cancelled; what runs goes on.
reload(g) ==
    /\ pc \in {"synced", "ready"} /\ g # live /\ Event
    /\ live' = g
    /\ LET changed == {j \in Known(Configs[g]) : Configs[g][j] # job(j)}
       IN /\ row' = Synced(Configs[g], FALSE, changed)
          /\ \E q \in SUBSET (busy \cap changed) : busy' = (busy \ q) \cap Known(Configs[g])
          /\ missed' = missed \ (changed \cup (Jobs \ Known(Configs[g])))
    /\ KeepServed
    /\ UNCHANGED <<now, pc, boot, at, todo, cur>>

-----------------------------------------------------------------------------
(* dispatch_current. *)

CanDispatch(j) == job(j) # Absent /\ job(j).enabled

\* A run in flight is answered instead of a new one.  A job whose last run was
\* LOST is held, and one whose dependency has not succeeded gets a SKIPPED run,
\* which never executes; how the runs before this one ended is not kept here.
Queue(j) == \/ CanDispatch(j) /\ busy' = busy \cup {j}
            \/ (CanDispatch(j) => job(j).gated) /\ UNCHANGED busy

\* The operator's run.
trigger_run(j) ==
    /\ pc # "down" /\ CanDispatch(j) /\ j \notin busy /\ Event
    /\ Queue(j)
    /\ UNCHANGED <<now, live, row, pc, boot, at, todo, cur, ghosts>>

\* The scheduler's: for the point the row has.
Scheduled(j) ==
    /\ Queue(j)
    /\ served' = served \cup (busy' \ busy)
    /\ missed' = IF j \in busy' \/ job(j).gated THEN missed \ {j} ELSE missed

-----------------------------------------------------------------------------
(* run: startup jobs, the boot pass, then ticks. *)

run ==
    /\ pc = "synced"
    /\ pc' = "boot_pass" /\ boot' = now /\ at' = now
    /\ todo' = Known(Configs[live]) /\ cur' = {}
    /\ LET starts == {j \in Jobs : CanDispatch(j) /\ job(j).sched.kind = "startup"}
       IN \E kept \in SUBSET {j \in starts : job(j).gated} : busy' = busy \cup (starts \ kept)
    /\ UNCHANGED <<now, live, row, ghosts, events>>

\* The row is looked at and left alone.
Passes(j) == todo' = todo \ {j} /\ UNCHANGED <<cur, busy, served, missed>>
\* The row is to get a new next_run.
Holds(j) == cur' = {j} /\ UNCHANGED todo

\* Mutant: the boot pass leaves next_run to the tick that follows.
boot_pass_leaves(j) ==
    /\ pc = "boot_pass" /\ cur = {} /\ j \in todo
    /\ IF row[j].next # None /\ row[j].next < boot /\ row[j].pol = "run-immediately"
       THEN todo' = todo \ {j} /\ UNCHANGED cur /\ Scheduled(j)
       ELSE Passes(j)
    /\ UNCHANGED <<now, live, row, pc, boot, at, torn, events>>

boot_pass(j) ==
    /\ pc = "boot_pass" /\ cur = {} /\ j \in todo
    /\ IF row[j].next = None \/ row[j].next > at \/ row[j].next >= boot THEN Passes(j)
       ELSE /\ Holds(j)
            /\ IF row[j].pol = "run-immediately" THEN Scheduled(j)
               ELSE UNCHANGED <<busy, served, missed>>
    /\ UNCHANGED <<now, live, row, pc, boot, at, torn, events>>

TickBegin ==
    /\ pc = "ready"
    /\ pc' = "due" /\ at' = now /\ todo' = Known(Configs[live])
    /\ UNCHANGED <<now, live, row, boot, cur, busy, ghosts, events>>

dispatch_due(j) ==
    /\ pc = "due" /\ cur = {} /\ j \in todo
    /\ IF row[j].next = None \/ row[j].next > at THEN Passes(j)
       ELSE Holds(j) /\ Scheduled(j)
    /\ UNCHANGED <<now, live, row, pc, boot, at, torn, events>>

\* Mutant: the next point after the one that was served.
recompute_from_row(j) ==
    /\ j \in cur
    /\ row' = [row EXCEPT ![j].next = next_after(job(j).sched, row[j].next, row[j].anchor)]
    /\ cur' = {} /\ todo' = todo \ {j}
    /\ served' = served \ {j} /\ torn' = torn \ {j}
    /\ UNCHANGED <<now, live, pc, boot, at, busy, missed, events>>

\* Mutant: the interval counts from the run.
recompute_drifts(j) ==
    /\ j \in cur
    /\ row' = [row EXCEPT ![j].next = next_after(job(j).sched, now, None)]
    /\ cur' = {} /\ todo' = todo \ {j}
    /\ served' = served \ {j} /\ torn' = torn \ {j}
    /\ UNCHANGED <<now, live, pc, boot, at, busy, missed, events>>

\* From the clock as it is by now.
recompute_next(j) ==
    /\ j \in cur
    /\ row' = [row EXCEPT ![j].next = next_after(job(j).sched, now, row[j].anchor)]
    /\ cur' = {} /\ todo' = todo \ {j}
    /\ served' = served \ {j} /\ torn' = torn \ {j}
    /\ UNCHANGED <<now, live, pc, boot, at, busy, missed, events>>

LoopEnds ==
    /\ pc \in {"boot_pass", "due"} /\ todo = {}
    /\ pc' = "ready"
    /\ UNCHANGED <<now, live, row, boot, at, todo, cur, busy, ghosts, events>>

-----------------------------------------------------------------------------
(* Around the scheduler. *)

\* Ticks come every two seconds: a minute has at least one.
Wait ==
    /\ now < MaxTime /\ now' = now + 1
    /\ pc = "ready" => at = now
    /\ UNCHANGED <<live, row, pc, boot, at, todo, cur, busy, ghosts, events>>

\* However it ends, and whatever retries it took.
RunEnds(j) ==
    /\ j \in busy /\ busy' = busy \ {j}
    /\ UNCHANGED <<now, live, row, pc, boot, at, todo, cur, ghosts, events>>

Crash ==
    /\ pc # "down" /\ Event
    /\ pc' = "down" /\ boot' = 0 /\ at' = 0 /\ todo' = {} /\ cur' = {} /\ missed' = {}
    /\ torn' = torn \cup (cur \cap served)
    /\ UNCHANGED <<now, live, row, busy, served>>

SchedNext ==
    \/ \E g \in DOMAIN Configs : sync_config(g) \/ reload(g)
    \/ run \/ TickBegin \/ LoopEnds
    \/ \E j \in Jobs : \/ boot_pass(j) \/ dispatch_due(j) \/ recompute_next(j)
                       \/ trigger_run(j) \/ RunEnds(j)
    \/ Wait \/ Crash

SchedSpec == SchedInit /\ [][SchedNext]_schedVars

-----------------------------------------------------------------------------
(* Properties. *)

Schedules == {Configs[x[1]][x[2]].sched :
                x \in {y \in (DOMAIN Configs) \X Jobs : Configs[y[1]][y[2]] # Absent}}

\* next_after is the schedule's first firing after now, across gaps, repeated
\* hours, month ends and leap days, as far as the code looks.  A cron expression
\* that fires next beyond its two years of minutes has no next time, although it
\* fires again: after a leap day, one for the next leap day gets None.  It
\* depends on the clock alone and is looked at before the first start only.
NextIsEarliest ==
    pc = "down" /\ events = 0 => \A s \in Schedules : \A a \in {None} \cup 0..now :
        LET anchor == IF a = None THEN now ELSE a
            first == FirstFiring(s, anchor, now)
        IN first # None
              => next_after(s, now, a) = IF InReach(s, now, first) THEN first ELSE None

\* No drift: a stored next_run is a point of the schedule it is stored with,
\* however long runs took and the process was down.  An interval's anchor is
\* the first of its points.
OnTheGrid ==
    \A j \in Jobs : row[j].next # None =>
        \/ Fires(row[j].sched, row[j].anchor, row[j].next)
        \/ row[j].sched.kind = "interval" /\ row[j].next = row[j].anchor

\* After a tick every due point has been dealt with: nothing is left to be
\* caught up with.
NothingOverdue ==
    pc = "ready" /\ at > boot => \A j \in Jobs : row[j].next = None \/ row[j].next > at

\* What the table of schedules always is: typed, known to the engine, on the
\* grid of its schedules and, between ticks, without a point left behind.
RowInv == SchedTypeOK /\ OnTheGrid /\ NothingOverdue

\* The scheduler queues a run of job j.
NewRun(j) == j \in busy' \ busy /\ cur = {} /\ cur' = {j}

\* A point gets one run, unless the process died between queueing it and
\* storing the next one, and a point missed while the engine was down gets it
\* for run-immediately only.
OneRunPerPoint ==
    [][\A j \in Jobs : NewRun(j) =>
          /\ j \in served => j \in torn
          /\ row[j].next < boot => row[j].pol = "run-immediately"]_schedVars

\* What was missed and is to be made up for has been dispatched by the end of the
\* boot pass, although sync_config has been over the table before: it has a run,
\* or it is one of the jobs that may be held or skipped instead.
MissedAreRun == pc = "ready" => missed = {}

\* A reload makes nothing due that was not.
ReloadIsQuiet ==
    [][live' # live /\ pc # "down"
       => \A j \in Jobs : row'[j].next # None /\ row'[j].next <= now
                          => row'[j].next = row[j].next]_schedVars

\* "None for manual/startup": every other schedule goes on for ever.
TimedHasNext ==
    \A j \in Jobs : row[j].sched.kind \notin Untimed => row[j].next # None

=============================================================================
