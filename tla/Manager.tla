------------------------------- MODULE Manager -------------------------------
(***************************************************************************)
(* The manager process: the HTTP handlers of crates/manager/src/router.rs, *)
(* the reaper of crates/manager/src/main.rs, and the dispatch, retry and   *)
(* reload paths of crates/engine.  A handler is an action on the tables;   *)
(* what it answers is an operator, used by module Cluster to hand the      *)
(* answer to the worker that asked.                                        *)
(*                                                                         *)
(* Locking follows the code.  A dispatch holds config_gate for reading, so *)
(* a reload waits for it, and from its in-flight check on the job's lock,  *)
(* which claim and complete take too, but the reaper does not.  The reaper *)
(* holds metrics_gate for writing, so its pass and the heartbeat, claim    *)
(* and complete handlers exclude each other.                               *)
(***************************************************************************)
EXTENDS RunStore

CONSTANTS Grace,   \* WORKER_HEARTBEAT_GRACE_SECS, in ticks
          OnLost,  \* [Jobs -> {"retry", "fail"}]: JobSpec.on_worker_lost
          Deps     \* [Jobs -> SUBSET Jobs]: JobSpec.depends_on

ASSUME ManagerAssumption ==
    /\ Grace \in Nat
    /\ OnLost \in [Jobs -> {"retry", "fail"}]
    /\ Deps \in [Jobs -> SUBSET Jobs]

VARIABLES runs,     \* job_runs
          nextId,   \* the next row to be created
          nextTok,  \* the next lease token to be issued
          wstat,    \* workers.status; "NONE" before the first registration
          hbAge,    \* ticks since workers.last_heartbeat, capped
          snap,     \* WorkerPicker.snapshot: the workers it takes for ONLINE
          conf,     \* live_jobs: "enabled", "disabled" or "absent"
          disp,     \* dispatches in progress: <<job, kind, stage>>
          reaped    \* rows the reaper has marked LOST and not yet requeued

mgrVars == <<runs, nextId, nextTok, wstat, hbAge, snap, conf, disp, reaped>>

WStatus == {"NONE", "ONLINE", "OFFLINE", "DRAINING", "STOPPING"}
Kinds   == {"sched", "forced"}
Stages  == {"checked", "locked"}

MgrTypeOK ==
    /\ runs \in [RunIds -> Row]
    /\ nextId \in 1..(MaxRuns + 1)
    /\ nextTok \in 1..(MaxTokens + 1)
    /\ wstat \in [Workers -> WStatus]
    /\ hbAge \in [Workers -> 0..(Grace + 1)]
    /\ snap \subseteq Workers
    /\ conf \in [Jobs -> {"enabled", "disabled", "absent"}]
    /\ disp \subseteq Jobs \X Kinds \X Stages
    /\ reaped \subseteq RunIds

MgrInit ==
    /\ runs = [r \in RunIds |-> NoRow]
    /\ nextId = 1
    /\ nextTok = 1
    /\ wstat = [w \in Workers |-> "NONE"]
    /\ hbAge = [w \in Workers |-> 0]
    /\ snap = {}
    /\ conf = [j \in Jobs |-> "enabled"]
    /\ disp = {}
    /\ reaped = {}

JobLocked(j) == \E k \in Kinds : <<j, k, "locked">> \in disp

Room == nextId \in RunIds

\* WorkerPicker::refresh after the workers table became ws.
Online(ws) == {w \in Workers : ws[w] = "ONLINE"}

\* WorkerPicker::pick: an ONLINE worker of the snapshot, or none when labels
\* or load rule them all out.
pick(on) == on \cup {NoWorker}

-----------------------------------------------------------------------------
(* Worker lifecycle handlers.                                               *)

\* upsert_worker: a retirement survives a registration, anything else ends.
register(w) ==
    /\ wstat' = [wstat EXCEPT ![w] = IF @ = "DRAINING" THEN @ ELSE "ONLINE"]
    /\ hbAge' = [hbAge EXCEPT ![w] = 0]
    /\ snap' = Online(wstat')
    /\ UNCHANGED <<runs, nextId, nextTok, conf, disp, reaped>>

drain(w) ==
    /\ wstat[w] # "NONE"
    /\ wstat' = [wstat EXCEPT ![w] = "DRAINING"]
    /\ snap' = Online(wstat')
    /\ UNCHANGED <<runs, nextId, nextTok, hbAge, conf, disp, reaped>>

worker_shutdown(w) ==
    /\ wstat' = [wstat EXCEPT ![w] = IF @ = "DRAINING" THEN @ ELSE "STOPPING"]
    /\ snap' = Online(wstat')
    /\ UNCHANGED <<runs, nextId, nextTok, hbAge, conf, disp, reaped>>

\* Refused (409) while active_runs_of lists a run.
unregister(w) ==
    /\ IF active_runs_of(runs, w) = {}
       THEN /\ wstat' = [wstat EXCEPT ![w] = IF @ = "DRAINING" THEN @ ELSE "OFFLINE"]
            /\ snap' = Online(wstat')
       ELSE UNCHANGED <<wstat, snap>>
    /\ UNCHANGED <<runs, nextId, nextTok, hbAge, conf, disp, reaped>>

-----------------------------------------------------------------------------
(* heartbeat: touch the worker, renew the presented leases, and answer with *)
(* the runs that lost theirs, one CANCELLING run, and the offers.           *)

touch_heartbeat(w) ==
    /\ wstat' = [wstat EXCEPT ![w] = IF @ = "OFFLINE" THEN "ONLINE" ELSE @]
    /\ hbAge' = [hbAge EXCEPT ![w] = 0]

heartbeat(w, held) ==
    /\ reaped = {}
    /\ touch_heartbeat(w)
    /\ runs' = renew_run_leases(runs, w, held)
    /\ UNCHANGED <<nextId, nextTok, snap, conf, disp, reaped>>

InvalidRuns(w, held) == {h[1] : h \in {g \in held : ~fenced(runs, g[1], w, g[2])}}

CancelRuns(w) == IF cancelling_runs_of(runs, w) = {}
                 THEN {{}} ELSE {{r} : r \in cancelling_runs_of(runs, w)}

Offers(w) == IF wstat[w] \in {"ONLINE", "OFFLINE"}
             THEN {r \in assigned_runs(runs, w) : conf[runs[r].job] # "absent"}
             ELSE {}

-----------------------------------------------------------------------------
(* claim *)

ClaimGranted(w, r) ==
    /\ claimable(runs, r, w)
    /\ conf[runs[r].job] # "absent"
    /\ nextTok \in Tokens

claim(w, r) ==
    /\ reaped = {}
    /\ ~JobLocked(runs[r].job)
    /\ IF ClaimGranted(w, r)
       THEN /\ runs' = claim_run(runs, r, w, nextTok)
            /\ nextTok' = nextTok + 1
       ELSE UNCHANGED <<runs, nextTok>>
    /\ UNCHANGED <<nextId, wstat, hbAge, snap, conf, disp, reaped>>

-----------------------------------------------------------------------------
(* complete *)

\* Answered with an error: no such run or job, or another owner or attempt.
CompleteRefused(w, r, t, attempt) ==
    \/ runs[r].st = "ABSENT"
    \/ conf[runs[r].job] = "absent"
    \/ runs[r].worker # w
    \/ runs[r].token # t
    \/ runs[r].retry # attempt

\* Mutant: the token is compared, the status and the lease are not.
CompleteUnfenced(w, r, t, attempt) == ~CompleteRefused(w, r, t, attempt)

CompleteApplied(w, r, t, attempt) ==
    ~CompleteRefused(w, r, t, attempt) /\ fenced(runs, r, w, t)

\* create_lost_requeue: a fresh QUEUED row, unless the job has one in flight.
create_lost_requeue(T, r) ==
    IF Room /\ inflight_runs_of_job(T, T[r].job) = {}
    THEN /\ \E w \in pick(snap) : runs' = create_run(T, nextId, T[r].job, w, "QUEUED")
         /\ nextId' = nextId + 1
    ELSE /\ runs' = T
         /\ UNCHANGED nextId

\* What the row becomes: retry_decision for a failure, the report otherwise.
Completed(r, result) ==
    CASE result = "success"   -> finish_active_run(runs, r, "SUCCESS")
      [] result = "cancelled" -> finish_active_run(runs, r, "CANCELLED")
      [] result = "lost"      -> finish_active_run(runs, r, "LOST")
      [] result = "failed"    -> IF runs[r].retry >= RetryMax[runs[r].job]
                                 THEN finish_active_run(runs, r, "FAILED")
                                 ELSE set_retry_from_active(runs, r)

complete(w, r, t, attempt, result) ==
    /\ reaped = {}
    /\ ~JobLocked(runs[r].job)
    /\ IF ~CompleteApplied(w, r, t, attempt)
       THEN UNCHANGED <<runs, nextId, snap>>
       ELSE /\ IF result = "lost"
               THEN create_lost_requeue(Completed(r, result), r)
               ELSE runs' = Completed(r, result) /\ UNCHANGED nextId
            /\ snap' = Online(wstat)
    /\ UNCHANGED <<nextTok, wstat, hbAge, conf, disp, reaped>>

-----------------------------------------------------------------------------
(* Dispatch.  `check' reads the hold and the dependencies without a lock,   *)
(* `lock' takes the job's lock and looks for a run in flight, `insert'      *)
(* creates the row.                                                         *)

Held(j) == OnLost[j] = "fail" /\ LatestIn(runs, j, {"LOST"})

DispatchCheck(j, k) ==
    /\ conf[j] = "enabled"
    /\ ~(k = "sched" /\ Held(j))
    /\ \A s \in Stages : <<j, k, s>> \notin disp
    /\ IF \E d \in Deps[j] : ~LatestIn(runs, d, {"SUCCESS"})
       THEN /\ Room
            /\ runs' = create_run(runs, nextId, j, NoWorker, "SKIPPED")
            /\ nextId' = nextId + 1
            /\ UNCHANGED disp
       ELSE /\ disp' = disp \cup {<<j, k, "checked">>}
            /\ UNCHANGED <<runs, nextId>>
    /\ UNCHANGED <<nextTok, wstat, hbAge, snap, conf, reaped>>

DispatchLock(j, k) ==
    /\ <<j, k, "checked">> \in disp
    /\ ~JobLocked(j)
    /\ disp' = (disp \ {<<j, k, "checked">>}) \cup
               (IF inflight_runs_of_job(runs, j) = {} THEN {<<j, k, "locked">>} ELSE {})
    /\ UNCHANGED <<runs, nextId, nextTok, wstat, hbAge, snap, conf, reaped>>

DispatchInsert(j, k) ==
    /\ <<j, k, "locked">> \in disp
    /\ disp' = disp \ {<<j, k, "locked">>}
    /\ IF Room
       THEN /\ \E w \in pick(snap) : runs' = create_run(runs, nextId, j, w, "QUEUED")
            /\ nextId' = nextId + 1
       ELSE UNCHANGED <<runs, nextId>>
    /\ UNCHANGED <<nextTok, wstat, hbAge, snap, conf, reaped>>

\* retry_tick: a due retry is dropped, postponed or queued again.
retry_tick(r) ==
    /\ runs[r].st = "RETRYING"
    /\ \/ /\ conf[runs[r].job] = "disabled"
          /\ runs' = cancel_rows(runs, {r})
       \/ /\ conf[runs[r].job] # "disabled"
          /\ active_runs_of_job(runs, runs[r].job) = {}
          /\ runs' = [runs EXCEPT ![r] = [@ EXCEPT !.st = "QUEUED"]]
    /\ UNCHANGED <<nextId, nextTok, wstat, hbAge, snap, conf, disp, reaped>>

stop_run(j) ==
    /\ active_runs_of_job(runs, j) # {}
    /\ runs' = set_cancelling_by_job(runs, j)
    /\ UNCHANGED <<nextId, nextTok, wstat, hbAge, snap, conf, disp, reaped>>

\* Mutant: a reload that does not wait for dispatches in progress.
reload_without_gate(j, c) ==
    /\ reaped = {}
    /\ conf' = [conf EXCEPT ![j] = c]
    /\ runs' = IF c = "absent"
               THEN purge_job(runs, j)
               ELSE cancel_rows(runs, {r \in RowsOf(runs, j) :
                                          runs[r].st \in {"QUEUED", "RETRYING"}})
    /\ UNCHANGED <<nextId, nextTok, wstat, hbAge, snap, disp, reaped>>

\* reload: a removed job is purged, a changed one loses what has not started.
reload(j, c) ==
    /\ disp = {}
    /\ reaped = {}
    /\ conf' = [conf EXCEPT ![j] = c]
    /\ runs' = IF c = "absent"
               THEN purge_job(runs, j)
               ELSE cancel_rows(runs, {r \in RowsOf(runs, j) :
                                          runs[r].st \in {"QUEUED", "RETRYING"}})
    /\ UNCHANGED <<nextId, nextTok, wstat, hbAge, snap, disp, reaped>>

-----------------------------------------------------------------------------
(* The reaper's pass: drop what is superseded, expire and requeue, mark     *)
(* workers OFFLINE and unassign their queue, refresh the picker, assign.    *)

\* Rows of T whose loss asks for a fresh row.
Requeueable(T, E) ==
    {r \in E : /\ OnLost[T[r].job] = "retry"
               /\ conf[T[r].job] # "absent"
               /\ inflight_runs_of_job(T, T[r].job) = {}}

\* T with a QUEUED row new[r], for worker first[r], for every lost row r of Q.
Requeued(T, Q, new, first) ==
    [n \in RunIds |->
        IF \E r \in Q : new[r] = n
        THEN LET r == CHOOSE r \in Q : new[r] = n
             IN  create_run(T, n, T[r].job, first[r], "QUEUED")[n]
        ELSE T[n]]

OfflineAfter == [w \in Workers |-> IF wstat[w] \in {"ONLINE", "STOPPING"} /\ hbAge[w] > Grace
                                   THEN "OFFLINE" ELSE wstat[w]]

\* Mutant: rows of workers that are gone are not unassigned.
UnplacedUnassigned(T, on) ==
    {r \in RunIds : T[r].st = "QUEUED" /\ T[r].worker = NoWorker}

\* The QUEUED rows left without a worker once those of workers that are not
\* ONLINE are unassigned.
Unplaced(T, on) == {r \in RunIds : T[r].st = "QUEUED" /\ T[r].worker \notin on}

assign_queued_runs(T, to) ==
    [r \in RunIds |-> IF r \in DOMAIN to THEN [T[r] EXCEPT !.worker = to[r]] ELSE T[r]]

Dropped == cancel_rows(runs, superseded_runs(runs))

\* The pass finds expired leases: the rows are LOST before they are requeued,
\* and a dispatch may come in between.
ReaperExpire ==
    /\ reaped = {}
    /\ expired_runs(Dropped) # {}
    /\ reaped' = expired_runs(Dropped)
    /\ runs' = [r \in RunIds |-> IF r \in expired_runs(Dropped)
                                 THEN expire_run(Dropped, r)[r] ELSE Dropped[r]]
    /\ UNCHANGED <<nextId, nextTok, wstat, hbAge, snap, conf, disp>>

\* The rest of the pass, or all of it when no lease has expired.
ReaperFinish ==
    LET T  == IF reaped = {} THEN Dropped ELSE runs
        on == Online(OfflineAfter)
    IN  /\ reaped # {} \/ expired_runs(Dropped) = {}
        /\ reaped' = {}
        /\ \E n \in nextId..(MaxRuns + 1), Q \in SUBSET Requeueable(T, reaped) :
           /\ Q = Requeueable(T, reaped) \/ n = MaxRuns + 1
           /\ \E new \in [Q -> nextId..(n - 1)], first \in [Q -> pick(snap)] :
                /\ \A i \in nextId..(n - 1) : \E r \in Q : new[r] = i
                /\ \A q, r \in Q : new[q] = new[r] => q = r
                /\ LET R == Requeued(T, Q, new, first)
                   IN  \E to \in [Unplaced(R, on) -> pick(on)] :
                         runs' = assign_queued_runs(R, to)
           /\ nextId' = n
        /\ wstat' = OfflineAfter
        /\ snap' = on
        /\ UNCHANGED <<nextTok, hbAge, conf, disp>>

\* A manager restart keeps the tables and forgets what was in progress.
ManagerRestart ==
    /\ snap' = {}
    /\ disp' = {}
    /\ reaped' = {}
    /\ UNCHANGED <<runs, nextId, nextTok, wstat, hbAge, conf>>

\* The clock, seen from the manager.
MgrTick ==
    /\ reaped = {}
    /\ runs' = age_leases(runs)
    /\ hbAge' = [w \in Workers |-> IF hbAge[w] > Grace THEN hbAge[w] ELSE hbAge[w] + 1]
    /\ UNCHANGED <<nextId, nextTok, wstat, snap, conf, disp, reaped>>

-----------------------------------------------------------------------------
\* A job never has two claimed runs, CANCELLING ones included (claim_run and
\* the index one_active_run_per_job).
OneActivePerJob ==
    \A j \in Jobs : \A r, q \in one_active_run_per_job(runs, j) : r = q

=============================================================================
