-------------------------------- MODULE Worker --------------------------------
(***************************************************************************)
(* The worker process of crates/worker/src/main.rs: the main loop          *)
(* (heartbeat, then one claim after the other), the watchdog task, and one *)
(* task per claimed run that executes the provider and reports.            *)
(*                                                                         *)
(* A claim that is granted carries a lease token nobody else ever gets, so *)
(* a task is named by its token.  `running' is the map run id -> entry of  *)
(* the code: what the heartbeat renews and what the watchdog and a cancel  *)
(* request reach.  An execution whose entry is gone is out of their reach. *)
(***************************************************************************)
EXTENDS RunStore

CONSTANTS Safety,      \* HEARTBEAT_SAFETY_SECS, in ticks
          StopMax,     \* ticks a cancelled provider may take to stop
          RpcMax,      \* ticks an answer may take before the connection breaks
          MaxReports,  \* complete_run attempts before the report is dropped
          MaxConc      \* worker_cfg.max_concurrency

ASSUME WorkerAssumption ==
    /\ Safety \in Nat \ {0}
    /\ StopMax \in Nat
    /\ RpcMax \in Nat
    /\ MaxReports \in Nat \ {0}
    /\ MaxConc \in Nat

VARIABLES wk,       \* the main loop of each worker
          running,  \* the running map: [Workers -> [RunIds -> token or NoToken]]
          task      \* the tasks, by lease token

wkrVars == <<wk, running, task>>

PCs == {"down",      \* no process, or one that has not registered yet
        "idle",      \* top of the loop
        "beat",      \* heartbeat sent
        "beaten",    \* heartbeat answered, answer on the wire
        "offers",    \* working through the offers
        "claim",     \* claim sent
        "claimed"}   \* claim answered, answer on the wire

Answer == [tok : Tokens \cup {NoToken}, attempt : Nat, job : Jobs \cup {NoJob}]
Denied == [tok |-> NoToken, attempt |-> 0, job |-> NoJob]

Loop == [pc       : PCs,
         shut     : BOOLEAN,                       \* the shutdown flag
         deadline : 0..Safety,                     \* ticks before lease_deadline
         sent     : 0..Safety,                     \* Safety minus heartbeat_sent.elapsed()
         rpc      : 0..RpcMax,                     \* ticks before the call breaks
         held     : SUBSET (RunIds \X Tokens),     \* active_runs of the heartbeat
         cancel   : SUBSET RunIds,                 \* cancel_runs and cancel_run
         offers   : SUBSET RunIds,
         run      : RunIds \cup {0},               \* the run being claimed
         ans      : Answer]

Phases  == {"none", "exec", "stop", "report", "done", "orphan"}
Reports == {"success", "failed", "cancelled", "lost"}

Task == [phase : Phases, w : Workers \cup {NoWorker}, run : RunIds \cup {0},
         job : Jobs \cup {NoJob}, attempt : Nat,
         timedOut : BOOLEAN,                       \* lease_timed_out
         left : 0..StopMax,                        \* ticks before the provider is dead
         result : Reports \cup {"none"}, tries : 0..(MaxReports - 1)]

NoTask == [phase |-> "none", w |-> NoWorker, run |-> 0, job |-> NoJob, attempt |-> 0,
           timedOut |-> FALSE, left |-> 0, result |-> "none", tries |-> 0]

\* A task that is over.
Over == [NoTask EXCEPT !.phase = "done"]

Down == [pc |-> "down", shut |-> FALSE, deadline |-> 0, sent |-> 0, rpc |-> 0,
         held |-> {}, cancel |-> {}, offers |-> {}, run |-> 0, ans |-> Denied]

WkrTypeOK ==
    /\ wk \in [Workers -> Loop]
    /\ running \in [Workers -> [RunIds -> Tokens \cup {NoToken}]]
    /\ task \in [Tokens -> Task]
    /\ \A w \in Workers : wk[w].pc \in {"claim", "claimed"} => wk[w].run \in RunIds
    /\ \A t \in Tokens : /\ task[t].phase \notin {"none", "done"} =>
                              task[t].w \in Workers /\ task[t].run \in RunIds
                         /\ task[t].phase = "none" => task[t].w = NoWorker
                         /\ task[t].phase = "report" => task[t].result \in Reports

WkrInit ==
    /\ wk = [w \in Workers |-> Down]
    /\ running = [w \in Workers |-> [r \in RunIds |-> NoToken]]
    /\ task = [t \in Tokens |-> NoTask]

-----------------------------------------------------------------------------
Entries(w) == {r \in RunIds : running[w][r] # NoToken}

\* Mutant: a draining worker no longer presents its leases.
LeasesUnlessDraining(w) == IF wk[w].shut THEN {} ELSE {<<r, running[w][r]>> : r \in Entries(w)}

\* active_runs of the heartbeat request.
Leases(w) == {<<r, running[w][r]>> : r \in Entries(w)}

\* The task's entry is still the one in the running map.
Tracked(t) == /\ task[t].phase # "none"
              /\ running[task[t].w][task[t].run] = t

\* The provider of the task may be writing to the job's storage.
Writing(t) == task[t].phase \in {"exec", "stop", "orphan"}

\* Cancel the tasks of C that still execute; the provider starts to stop.
Cancel(C, why) ==
    [t \in Tokens |-> IF t \in C /\ task[t].phase = "exec"
                      THEN [task[t] EXCEPT !.phase = "stop", !.left = StopMax,
                                           !.timedOut = why]
                      ELSE task[t]]

TrackedOf(w, R) == {running[w][r] : r \in R \cap Entries(w)}

\* The loop once a call is over: with offers left it goes on with them.
AfterCall(w, offers) ==
    [wk[w] EXCEPT !.pc = IF offers = {} THEN "idle" ELSE "offers", !.offers = offers,
                  !.sent = 0, !.rpc = 0, !.held = {}, !.cancel = {}, !.run = 0,
                  !.ans = Denied]

-----------------------------------------------------------------------------
(* Process life.                                                            *)

\* Registered: the loop starts with a full safety margin.
Registered(w) ==
    /\ wk[w].pc = "down"
    /\ wk' = [wk EXCEPT ![w] = [@ EXCEPT !.pc = "idle", !.deadline = Safety]]
    /\ UNCHANGED <<running, task>>

\* The process dies.  Its tasks die with it; a provider may outlive it.
Crash(w, orphans) ==
    /\ wk[w].pc # "down"
    /\ wk' = [wk EXCEPT ![w] = Down]
    /\ running' = [running EXCEPT ![w] = [r \in RunIds |-> NoToken]]
    /\ task' = [t \in Tokens |->
                  IF task[t].w # w \/ task[t].phase = "orphan" THEN task[t]
                  ELSE IF orphans /\ task[t].phase \in {"exec", "stop"}
                  THEN [task[t] EXCEPT !.phase = "orphan", !.left = 0]
                  ELSE Over]

\* The last process of an orphaned provider ends.
OrphanEnds(t) ==
    /\ task[t].phase = "orphan"
    /\ task' = [task EXCEPT ![t] = Over]
    /\ UNCHANGED <<wk, running>>

\* SIGTERM: request_shutdown raises the flag before it calls the manager.
RequestShutdown(w) ==
    /\ wk[w].pc # "down"
    /\ ~wk[w].shut
    /\ wk' = [wk EXCEPT ![w] = [@ EXCEPT !.shut = TRUE]]
    /\ UNCHANGED <<running, task>>

\* Draining is over: the loop unregisters and the process exits.
Exit(w) ==
    /\ wk[w].pc = "idle"
    /\ wk[w].shut
    /\ Entries(w) = {}
    /\ wk' = [wk EXCEPT ![w] = Down]
    /\ UNCHANGED <<running, task>>

-----------------------------------------------------------------------------
(* The main loop.                                                           *)

SendHeartbeat(w) ==
    /\ wk[w].pc = "idle"
    /\ ~(wk[w].shut /\ Entries(w) = {})
    /\ wk' = [wk EXCEPT ![w] = [@ EXCEPT !.pc = "beat", !.sent = Safety, !.rpc = RpcMax,
                                         !.held = Leases(w)]]
    /\ UNCHANGED <<running, task>>

\* Mutant: the new deadline counts from the answer.
ReceiveHeartbeatLate(w) ==
    /\ wk[w].pc = "beaten"
    /\ task' = Cancel(TrackedOf(w, wk[w].cancel), FALSE)
    /\ wk' = [wk EXCEPT ![w] = [AfterCall(w, wk[w].offers) EXCEPT !.deadline = Safety]]
    /\ UNCHANGED running

\* The answer arrives: the new deadline counts from the sending.
ReceiveHeartbeat(w) ==
    /\ wk[w].pc = "beaten"
    /\ task' = Cancel(TrackedOf(w, wk[w].cancel), FALSE)
    /\ wk' = [wk EXCEPT ![w] = [AfterCall(w, wk[w].offers) EXCEPT !.deadline = wk[w].sent]]
    /\ UNCHANGED running

\* Mutant: a heartbeat that failed moves the deadline too.
HeartbeatFailsExtending(w) ==
    /\ wk[w].pc \in {"beat", "beaten"}
    /\ wk' = [wk EXCEPT ![w] = [AfterCall(w, {}) EXCEPT !.deadline = wk[w].sent]]
    /\ UNCHANGED <<running, task>>

HeartbeatFails(w) ==
    /\ wk[w].pc \in {"beat", "beaten"}
    /\ wk' = [wk EXCEPT ![w] = AfterCall(w, {})]
    /\ UNCHANGED <<running, task>>

MayClaim(w) ==
    /\ ~wk[w].shut
    /\ wk[w].deadline > 0
    /\ Cardinality(Entries(w)) < MaxConc

SendClaim(w, r) ==
    /\ wk[w].pc = "offers"
    /\ r \in wk[w].offers
    /\ MayClaim(w)
    /\ wk' = [wk EXCEPT ![w] = [@ EXCEPT !.pc = "claim", !.run = r, !.rpc = RpcMax,
                                         !.offers = wk[w].offers \ {r}]]
    /\ UNCHANGED <<running, task>>

EndBeat(w) ==
    /\ wk[w].pc = "offers"
    /\ ~MayClaim(w)
    /\ wk' = [wk EXCEPT ![w] = AfterCall(w, {})]
    /\ UNCHANGED <<running, task>>

\* A granted claim is inserted into the map and spawned as a task.
ReceiveClaim(w) ==
    LET r == wk[w].run
        t == wk[w].ans.tok
    IN  /\ wk[w].pc = "claimed"
        /\ wk' = [wk EXCEPT ![w] = AfterCall(w, wk[w].offers)]
        /\ IF t = NoToken
           THEN UNCHANGED <<running, task>>
           ELSE /\ running' = [running EXCEPT ![w][r] = t]
                /\ task' = [task EXCEPT ![t] =
                      [NoTask EXCEPT !.phase = "exec", !.w = w, !.run = r,
                                     !.job = wk[w].ans.job,
                                     !.attempt = wk[w].ans.attempt]]

ClaimFails(w) ==
    /\ wk[w].pc \in {"claim", "claimed"}
    /\ wk' = [wk EXCEPT ![w] = AfterCall(w, wk[w].offers)]
    /\ UNCHANGED <<running, task>>

-----------------------------------------------------------------------------
(* Watchdog and tasks.                                                      *)

Overdue(w) == /\ wk[w].pc # "down"
              /\ wk[w].deadline = 0
              /\ \E r \in Entries(w) : task[running[w][r]].phase = "exec"

\* Past the deadline every run of the map that is not yet cancelled is.
Watchdog(w) ==
    /\ Overdue(w)
    /\ task' = Cancel(TrackedOf(w, RunIds), TRUE)
    /\ UNCHANGED <<wk, running>>

\* The provider is done and reaped; outcome_to_complete decides the report.
Finish(t, result) ==
    /\ \/ task[t].phase = "exec" /\ result \in {"success", "failed"}
       \/ task[t].phase = "stop" /\ result \in {"success", "failed",
                                    IF task[t].timedOut THEN "lost" ELSE "cancelled"}
    /\ task' = [task EXCEPT ![t] = [@ EXCEPT !.phase = "report", !.result = result, !.left = 0]]
    /\ UNCHANGED <<wk, running>>

\* The report was acknowledged, or given up: the run leaves the map.
EndTask(t) ==
    /\ task' = [task EXCEPT ![t] = Over]
    /\ running' = [running EXCEPT ![task[t].w][task[t].run] = NoToken]
    /\ UNCHANGED wk

\* One complete_run attempt failed.
ReportFails(t) ==
    /\ task[t].phase = "report"
    /\ IF task[t].tries + 1 = MaxReports
       THEN EndTask(t)
       ELSE /\ task' = [task EXCEPT ![t] = [@ EXCEPT !.tries = task[t].tries + 1]]
            /\ UNCHANGED <<wk, running>>

\* What may not be outlasted by a tick: a watchdog that is due, a provider
\* out of time to stop, a call out of time to be answered.
Urgent == \/ \E w \in Workers : Overdue(w)
          \/ \E t \in Tokens : task[t].phase = "stop" /\ task[t].left = 0
          \/ \E w \in Workers : /\ wk[w].pc \in {"beat", "beaten", "claim", "claimed"}
                                /\ wk[w].rpc = 0

Sooner(n) == IF n > 0 THEN n - 1 ELSE n

\* The clock, seen from the workers.
WkrTick ==
    /\ ~Urgent
    /\ wk' = [w \in Workers |-> [wk[w] EXCEPT !.deadline = Sooner(@), !.sent = Sooner(@),
                                              !.rpc = Sooner(@)]]
    /\ task' = [t \in Tokens |-> [task[t] EXCEPT !.left = Sooner(@)]]
    /\ UNCHANGED running

=============================================================================
