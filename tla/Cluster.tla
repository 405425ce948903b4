------------------------------- MODULE Cluster -------------------------------
(***************************************************************************)
(* Manager and workers together.  A call of the worker is a request the    *)
(* manager handles and an answer the worker receives, as separate steps.   *)
(* Either may be lost, and a request whose sender has given up may still   *)
(* be handled much later (`late'): HTTP over a network that stalls, with a *)
(* client that has no request timeout.                                     *)
(***************************************************************************)
EXTENDS Manager, Worker

VARIABLE late  \* requests in flight whose sender no longer waits

vars == <<mgrVars, wkrVars, late>>

Request == [kind : {"heartbeat"}, w : Workers, held : SUBSET (RunIds \X Tokens)]
           \cup [kind : {"claim"}, w : Workers, run : RunIds]
           \cup [kind : {"complete"}, w : Workers, run : RunIds, tok : Tokens,
                 attempt : Nat, result : Reports]

\* Named so because the deployment, not the code, has to provide it: a
\* provider is dead, and a call is over, well before the lease runs out.
ASSUME TimingAssumption ==
    /\ Safety + StopMax < Lease
    /\ RpcMax + StopMax < Lease

TypeOK ==
    /\ MgrTypeOK
    /\ WkrTypeOK
    /\ late \subseteq Request

Init == MgrInit /\ WkrInit /\ late = {}

-----------------------------------------------------------------------------
(* Calls of the main loop.                                                  *)

Register(w, delivered) ==
    /\ wk[w].pc = "down"
    /\ register(w)
    /\ IF delivered THEN Registered(w) ELSE UNCHANGED wkrVars
    /\ UNCHANGED late

HandleHeartbeat(w) ==
    /\ wk[w].pc = "beat"
    /\ heartbeat(w, wk[w].held)
    /\ \E c \in CancelRuns(w) :
         wk' = [wk EXCEPT ![w] = [@ EXCEPT !.pc = "beaten", !.held = {},
                                           !.cancel = InvalidRuns(w, wk[w].held) \cup c,
                                           !.offers = Offers(w)]]
    /\ UNCHANGED <<running, task, late>>

ClaimAnswer(w, r) ==
    IF ClaimGranted(w, r)
    THEN [tok |-> nextTok, attempt |-> runs[r].retry, job |-> runs[r].job]
    ELSE Denied

HandleClaim(w) ==
    /\ wk[w].pc = "claim"
    /\ claim(w, wk[w].run)
    /\ wk' = [wk EXCEPT ![w] = [@ EXCEPT !.pc = "claimed", !.ans = ClaimAnswer(w, wk[w].run)]]
    /\ UNCHANGED <<running, task, late>>

LoopStep(w) ==
    /\ \/ SendHeartbeat(w)
       \/ ReceiveHeartbeat(w)
       \/ \E r \in RunIds : SendClaim(w, r)
       \/ ReceiveClaim(w)
       \/ EndBeat(w)
    /\ UNCHANGED <<mgrVars, late>>

\* The pending call of the main loop, as a request.
Pending(w) ==
    CASE wk[w].pc = "beat"  -> {[kind |-> "heartbeat", w |-> w, held |-> wk[w].held]}
      [] wk[w].pc = "claim" -> {[kind |-> "claim", w |-> w, run |-> wk[w].run]}
      [] OTHER -> {}

\* The connection breaks; the request is lost, or is still on its way.
CallFails(w, stays) ==
    /\ HeartbeatFails(w) \/ ClaimFails(w)
    /\ late' = IF stays THEN late \cup Pending(w) ELSE late
    /\ UNCHANGED mgrVars

Shutdown(w, delivered) ==
    /\ RequestShutdown(w)
    /\ IF delivered THEN worker_shutdown(w) ELSE UNCHANGED mgrVars
    /\ UNCHANGED late

Leave(w, delivered) ==
    /\ Exit(w)
    /\ IF delivered THEN unregister(w) ELSE UNCHANGED mgrVars
    /\ UNCHANGED late

Fail(w, orphans) ==
    /\ Crash(w, orphans)
    /\ UNCHANGED <<mgrVars, late>>

-----------------------------------------------------------------------------
(* Tasks.                                                                   *)

TaskStep(t) ==
    /\ \/ \E result \in Reports : Finish(t, result)
       \/ OrphanEnds(t)
    /\ UNCHANGED <<mgrVars, late>>

WatchdogStep(w) == Watchdog(w) /\ UNCHANGED <<mgrVars, late>>

\* The report of task t, as a request, and the manager's handling of it.
Completion(t) == [kind |-> "complete", w |-> task[t].w, run |-> task[t].run, tok |-> t,
                  attempt |-> task[t].attempt, result |-> task[t].result]

Reported(m) == complete(m.w, m.run, m.tok, m.attempt, m.result)

\* complete_run gets through; 200 ends the task, an error is tried again.
Report(t, delivered) ==
    /\ task[t].phase = "report"
    /\ Reported(Completion(t))
    /\ IF delivered /\ ~CompleteRefused(task[t].w, task[t].run, t, task[t].attempt)
       THEN EndTask(t) ELSE ReportFails(t)
    /\ UNCHANGED late

\* complete_run breaks before the manager has handled it.
ReportLost(t, stays) ==
    /\ ReportFails(t)
    /\ late' = IF stays THEN late \cup {Completion(t)} ELSE late
    /\ UNCHANGED mgrVars

-----------------------------------------------------------------------------
\* A request whose sender is gone is handled after all.
Late(m) ==
    /\ m \in late
    /\ late' = late \ {m}
    /\ \/ m.kind = "heartbeat" /\ heartbeat(m.w, m.held)
       \/ m.kind = "claim" /\ claim(m.w, m.run)
       \/ m.kind = "complete" /\ Reported(m)
    /\ UNCHANGED wkrVars

Reaper == (ReaperExpire \/ ReaperFinish) /\ UNCHANGED <<wkrVars, late>>

\* A schedule is due (dispatch_due, boot_pass).
Schedule == /\ \E j \in Jobs : DispatchCheck(j, "sched")
            /\ UNCHANGED <<wkrVars, late>>

Retry == /\ \E r \in RunIds : retry_tick(r)
         /\ UNCHANGED <<wkrVars, late>>

Dispatcher == /\ \E j \in Jobs, k \in Kinds : DispatchLock(j, k) \/ DispatchInsert(j, k)
              /\ UNCHANGED <<wkrVars, late>>

Operator == /\ \/ \E j \in Jobs : DispatchCheck(j, "forced") \/ stop_run(j)
               \/ \E w \in Workers : drain(w)
            /\ UNCHANGED <<wkrVars, late>>

Reload == /\ \E j \in Jobs, c \in {"enabled", "disabled"} : conf[j] # "absent" /\ reload(j, c)
          /\ UNCHANGED <<wkrVars, late>>

\* The job leaves the configuration, or comes back.
Redefine == /\ \E j \in Jobs : IF conf[j] = "absent" THEN reload(j, "enabled")
                                                     ELSE reload(j, "absent")
            /\ UNCHANGED <<wkrVars, late>>

RestartManager == ManagerRestart /\ UNCHANGED <<wkrVars, late>>

Tick == MgrTick /\ WkrTick /\ UNCHANGED late

-----------------------------------------------------------------------------
\* What the system does on its own.
Progress ==
    \/ Tick \/ Reaper \/ Retry \/ Dispatcher
    \/ \E w \in Workers : \/ LoopStep(w) \/ WatchdogStep(w)
                          \/ Register(w, TRUE) \/ Leave(w, TRUE)
                          \/ HandleHeartbeat(w) \/ HandleClaim(w)
    \/ \E t \in Tokens : TaskStep(t) \/ Report(t, TRUE)
    \/ \E m \in late : Late(m)

\* What operators do to it.
Operations == Operator \/ Reload \/ \E w \in Workers : Shutdown(w, TRUE)

\* What goes wrong: broken calls, dead processes.
Faults ==
    \/ \E w \in Workers, b \in BOOLEAN : CallFails(w, b)
    \/ \E w \in Workers : \/ Register(w, FALSE) \/ Leave(w, FALSE)
                          \/ Shutdown(w, FALSE) \/ Fail(w, FALSE)
    \/ \E t \in Tokens : Report(t, FALSE)
    \/ \E t \in Tokens, b \in BOOLEAN : ReportLost(t, b)
    \/ RestartManager

\* What the lease protocol does not claim to survive by itself: a provider
\* that outlives its worker, and a job deleted while it runs.
Beyond == Redefine \/ \E w \in Workers : Fail(w, TRUE)

Next == Schedule \/ Progress \/ Operations \/ Faults
NextBeyond == Next \/ Beyond

Spec == Init /\ [][Next]_vars
SpecBeyond == Init /\ [][NextBeyond]_vars

-----------------------------------------------------------------------------
(* Fairness: time passes (strongly: the main loop sleeps between two beats, *)
(* so it cannot stop the clock by calling again and again), the reaper's    *)
(* interval ticks, the main loop and the report loop go on, a cancelled     *)
(* provider stops.  Nothing is assumed about how long a provider executes,  *)
(* about operators, or about a dead worker coming back.                     *)
StopEnds(t) == task[t].phase = "stop" /\ TaskStep(t)

Fairness ==
    /\ SF_vars(Tick) /\ WF_vars(Reaper) /\ WF_vars(Dispatcher)
    /\ \A w \in Workers : /\ WF_vars(WatchdogStep(w))
                          /\ WF_vars(LoopStep(w))
                          /\ WF_vars(HandleHeartbeat(w))
                          /\ WF_vars(HandleClaim(w))
    /\ \A t \in Tokens : WF_vars(StopEnds(t)) /\ WF_vars(Report(t, TRUE))

-----------------------------------------------------------------------------
(* Safety.                                                                  *)

Executes(t) == task[t].phase \in {"exec", "stop"}

\* The task still passes the manager's fence.
Owns(t) == fenced(runs, task[t].run, task[t].w, t)

\* An execution the worker still has in its running map holds the live
\* lease of its run: the heartbeat renews it or the watchdog stops the
\* provider before the manager may give the job away (worker main.rs,
\* renew_run_lease, expire_run).
TrackedWriterOwnsRun == \A t \in Tokens : Executes(t) /\ Tracked(t) => Owns(t)

\* Every execution holds the live lease of its run: loss of the lease cancels
\* the work, and before the manager gives the job away (worker main.rs, "Lease
\* loss also cancels work").  It fails when a run is retried in place.
WriterOwnsRun == \A t \in Tokens : Executes(t) => Owns(t)

\* The storage of a job has at most one writer, whatever is lost or late and
\* whichever worker the reaper or the dispatcher gives the job to next.
SingleWriter ==
    \A t, u \in Tokens : Writing(t) /\ Writing(u) /\ task[t].job = task[u].job => t = u

\* A finished row never changes again (finish_active_run_fenced, claim_run,
\* expire_run), whatever completion, claim or reaper pass comes late.
TerminalIsFinal ==
    [][\A r \in RunIds : runs[r].st \in Terminal /\ runs'[r].st # "ABSENT"
                            => runs'[r].st = runs[r].st]_vars

\* What synora-core/src/job.rs says of the reaper: it "only marks LOST when
\* the lease is expired *and* the worker is no longer heartbeating", that is
\* has sent no heartbeat for the grace period.  The code does not look.
HeartbeatSpares ==
    [][\A r \in reaped' \ reaped : hbAge[runs[r].worker] > Grace]_vars

\* A job that left the configuration has no run in flight: a dispatch, a
\* requeue or a late claim or report that was under way when the job was
\* purged does not bring one back (reload, forget_job, purge_job).
AbsentJobHasNoRuns ==
    \A j \in Jobs : conf[j] = "absent" => inflight_runs_of_job(runs, j) = {}

\* The active row of a job, as a lease of that job.
LeaseHolder ==
    [j \in Jobs |-> IF one_active_run_per_job(runs, j) = {} THEN NoToken
                    ELSE runs[CHOOSE r \in one_active_run_per_job(runs, j) : TRUE].token]

LeaseLeft ==
    [j \in Jobs |-> IF one_active_run_per_job(runs, j) = {} THEN 0
                    ELSE runs[CHOOSE r \in one_active_run_per_job(runs, j) : TRUE].lease]

Service == INSTANCE LeaseService
             WITH holder <- LeaseHolder, left <- LeaseLeft, last <- nextTok - 1,
                  busy <- {t \in Tokens : Executes(t)}

\* The claim, heartbeat, complete and reaper paths of the manager and the
\* watchdog of the workers implement the lease service: one lease per job,
\* growing tokens, no lease ended while its holder executes.
LeaseRefinement == Service!LeaseSpec

-----------------------------------------------------------------------------
(* Why an execution in the running map keeps its lease, as an invariant     *)
(* that every step preserves.                                               *)

\* In table T, w holds the lease of run r of job j under token t, for more
\* than n ticks.
Outlasts(T, r, w, t, j, n) == fenced(T, r, w, t) /\ T[r].job = j /\ T[r].lease > n

\* A token not issued yet is nowhere.
TokensFresh ==
    /\ \A r \in RunIds : runs[r].token < nextTok
    /\ \A t \in Tokens : t >= nextTok => task[t].phase = "none"
    /\ \A w \in Workers : wk[w].ans.tok < nextTok

\* An entry of a running map is the entry of its task.
EntryHasTask ==
    \A w \in Workers, r \in RunIds, t \in Tokens :
        running[w][r] = t => /\ task[t].w = w
                             /\ task[t].run = r
                             /\ task[t].phase \in {"exec", "stop", "report"}
                             /\ wk[w].pc # "down"

\* A claim on its way back belongs to one worker, is not executed yet, and
\* its lease outlasts the safety margin and the call.
ClaimOutlasts ==
    \A w \in Workers, t \in Tokens :
        wk[w].pc = "claimed" /\ wk[w].ans.tok = t =>
            /\ task[t].phase = "none"
            /\ Outlasts(runs, wk[w].run, w, t, wk[w].ans.job, wk[w].deadline + StopMax)
            /\ Outlasts(runs, wk[w].run, w, t, wk[w].ans.job, wk[w].rpc + StopMax)
            /\ \A v \in Workers : wk[v].pc = "claimed" /\ wk[v].ans.tok = t => v = w

\* The lease of an execution in the map outlasts the watchdog's deadline, and
\* the deadline that an answer on its way will set, unless it cancels the run.
ExecOutlasts ==
    \A w \in Workers, r \in RunIds, t \in Tokens :
        running[w][r] = t /\ task[t].phase = "exec" =>
            /\ Outlasts(runs, r, w, t, task[t].job, wk[w].deadline + StopMax)
            /\ wk[w].pc = "beat" => <<r, t>> \in wk[w].held
            /\ wk[w].pc = "beaten" => \/ r \in wk[w].cancel
                                      \/ Outlasts(runs, r, w, t, task[t].job, wk[w].sent + StopMax)

\* The lease of a cancelled execution in the map outlasts its provider.
StopOutlasts ==
    \A w \in Workers, r \in RunIds, t \in Tokens :
        running[w][r] = t /\ task[t].phase = "stop" =>
            Outlasts(runs, r, w, t, task[t].job, task[t].left)

\* A late report is of a task that executes no more.
LateIsOver ==
    \A m \in late : m.kind = "complete" => task[m.tok].phase \in {"report", "done"}

\* The lease of every execution the worker still knows outlasts the time its
\* worker needs to stop it, in every step of the protocol between worker
\* main.rs and the claim, heartbeat and complete handlers.
LeaseInv ==
    /\ TokensFresh
    /\ EntryHasTask
    /\ ClaimOutlasts
    /\ ExecOutlasts
    /\ StopOutlasts
    /\ LateIsOver

-----------------------------------------------------------------------------
(* Liveness.                                                                *)

\* The run is claimed and nobody executes, reports or is about to.
Abandoned(r) ==
    /\ runs[r].st \in Active
    /\ ~\E t \in Tokens : /\ task[t].run = r
                          /\ task[t].phase \in {"exec", "stop", "report"}
    /\ ~\E w \in Workers : wk[w].pc = "claimed" /\ wk[w].ans.tok = runs[r].token

\* A claimed run nobody works on is released, although its worker may be
\* alive and heartbeating (its claim's answer was lost): renewal needs the
\* run's token, so the lease runs out and the reaper, which looks at the lease
\* alone (expired_runs), takes the run.  HeartbeatSpares is the contract the
\* comments state instead.
AbandonedIsReleased == \A r \in RunIds : Abandoned(r) ~> ~Abandoned(r)

\* A stop request takes effect, even on a run whose worker is gone (stop_run,
\* set_cancelling_by_job, the heartbeat's cancel_run and the reaper).
StopTakesEffect ==
    \A r \in RunIds : runs[r].st = "CANCELLING" ~> runs[r].st # "CANCELLING"

\* A queued run does not wait for a worker that is gone (the reaper's
\* OFFLINE marking and unassignment).
QueueLeavesDeadWorker ==
    \A r \in RunIds, w \in Workers :
        runs[r].st = "QUEUED" /\ runs[r].worker = w /\ wk[w].pc = "down"
            ~> runs[r].st # "QUEUED" \/ runs[r].worker # w \/ wk[w].pc # "down"

=============================================================================
