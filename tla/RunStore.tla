------------------------------ MODULE RunStore ------------------------------
(***************************************************************************)
(* The job_runs table of crates/db/src/store.rs: one row per run, and the  *)
(* SQL statements of the store as functions from a table to a table.  Row  *)
(* ids are numbered in the order of creation (created_at, id).  Time is a  *)
(* countdown: `lease' is the number of ticks before lease_expires_at, so   *)
(* lease_expires_at > now is lease > 0 and a NULL lease is 0.              *)
(***************************************************************************)
EXTENDS Integers, FiniteSets

CONSTANTS Jobs,       \* job names
          Workers,    \* worker ids
          NoWorker,   \* worker_id IS NULL
          NoJob,      \* the job of a row that does not exist
          MaxRuns,    \* bound: rows ever created
          MaxTokens,  \* bound: lease tokens ever issued (claims granted)
          Lease,      \* RUN_LEASE_SECS, in ticks
          RetryMax    \* [Jobs -> Nat]: JobSpec.retry

RunIds == 1..MaxRuns
Tokens == 1..MaxTokens
NoToken == 0

ASSUME StoreAssumption ==
    /\ MaxRuns \in Nat
    /\ MaxTokens \in Nat
    /\ Lease \in Nat \ {0}
    /\ RetryMax \in [Jobs -> Nat]
    /\ NoWorker \notin Workers
    /\ NoJob \notin Jobs

-----------------------------------------------------------------------------
(* Statuses.  STARTING is the legacy name of SYNCING, and a remote run is   *)
(* never moved to RUNNING by the manager; the two are written SYNCING.      *)

Executing == {"SYNCING"}
Active    == Executing \cup {"CANCELLING"}
Inflight  == Active \cup {"QUEUED", "RETRYING"}
Terminal  == {"SUCCESS", "FAILED", "CANCELLED", "LOST", "SKIPPED"}
Status    == Inflight \cup Terminal \cup {"ABSENT"}

Row == [st     : Status,
        job    : Jobs \cup {NoJob},
        worker : Workers \cup {NoWorker},
        token  : Tokens \cup {NoToken},
        lease  : 0..Lease,
        retry  : Nat]

NoRow == [st |-> "ABSENT", job |-> NoJob, worker |-> NoWorker,
          token |-> NoToken, lease |-> 0, retry |-> 0]

-----------------------------------------------------------------------------
(* Queries.                                                                 *)

RowsOf(T, j) == {r \in RunIds : T[r].st # "ABSENT" /\ T[r].job = j}

\* active_runs_of_job: the claim handler's gate (CANCELLING is not in it).
active_runs_of_job(T, j) == {r \in RowsOf(T, j) : T[r].st \in Executing}

\* active_runs_of: what the unregister handler looks at.
active_runs_of(T, w) == {r \in RunIds : T[r].st \in Executing /\ T[r].worker = w}

inflight_runs_of_job(T, j) == {r \in RowsOf(T, j) : T[r].st \in Inflight}

\* The partial unique index one_active_run_per_job.
one_active_run_per_job(T, j) == {r \in RowsOf(T, j) : T[r].st \in Active}

\* run_history(job, 1): the newest row of the job has status in S.
LatestIn(T, j, S) ==
    \E r \in RowsOf(T, j) : T[r].st \in S /\ \A q \in RowsOf(T, j) : q <= r

\* assigned_runs: the QUEUED runs a worker is offered.
assigned_runs(T, w) ==
    {r \in RunIds : /\ T[r].st = "QUEUED"
                    /\ T[r].worker = w
                    /\ active_runs_of_job(T, T[r].job) = {}}

cancelling_runs_of(T, w) ==
    {r \in RunIds : T[r].st = "CANCELLING" /\ T[r].worker = w}

\* Mutants of expired_runs: a lease is taken one tick early; a CANCELLING run
\* never expires.
expired_one_tick_early(T) == {r \in RunIds : T[r].st \in Active /\ T[r].lease <= 1}

expired_unless_cancelling(T) == {r \in RunIds : T[r].st \in Executing /\ T[r].lease = 0}

expired_runs(T) == {r \in RunIds : T[r].st \in Active /\ T[r].lease = 0}

\* Rows that wait behind an executing run of the same job.
superseded_runs(T) ==
    {r \in RunIds : /\ T[r].st \in {"QUEUED", "RETRYING", "CANCELLING"}
                    /\ active_runs_of_job(T, T[r].job) \ {r} # {}}

-----------------------------------------------------------------------------
(* Updates.  Each is one SQL statement; the ones with a WHERE clause come   *)
(* with the predicate that says whether a row is touched.                   *)

create_run(T, r, j, w, s) ==
    [T EXCEPT ![r] = [st |-> s, job |-> j, worker |-> w, token |-> NoToken,
                      lease |-> 0, retry |-> 0]]

\* Mutant: without the index one_active_run_per_job.
claimable_without_index(T, r, w) ==
    /\ T[r].st = "QUEUED"
    /\ T[r].worker \in {NoWorker, w}
    /\ active_runs_of_job(T, T[r].job) = {}

\* The claim's WHERE clause and the unique index it must not violate.
claimable(T, r, w) ==
    /\ T[r].st = "QUEUED"
    /\ T[r].worker \in {NoWorker, w}
    /\ active_runs_of_job(T, T[r].job) = {}
    /\ one_active_run_per_job(T, T[r].job) = {}

claim_run(T, r, w, t) ==
    [T EXCEPT ![r] = [@ EXCEPT !.st = "SYNCING", !.worker = w, !.token = t,
                               !.lease = Lease]]

\* The fence of renew_run_lease, finish_active_run_fenced and
\* set_retry_from_active_fenced: owner, token, live lease, active status.
fenced(T, r, w, t) ==
    /\ T[r].st \in Active
    /\ T[r].worker = w
    /\ t # NoToken
    /\ T[r].token = t
    /\ T[r].lease > 0

\* Mutants: a renewal extends what is left of the lease; a heartbeat renews
\* every run of its worker, whatever tokens it presents.
renew_by_adding(T, w, held) ==
    [r \in RunIds |-> IF \E h \in held : h[1] = r /\ fenced(T, r, w, h[2])
                      THEN [T[r] EXCEPT !.lease = @ + Lease] ELSE T[r]]

renew_whatever_token(T, w, held) ==
    [r \in RunIds |-> IF T[r].st \in Active /\ T[r].worker = w /\ T[r].lease > 0
                      THEN [T[r] EXCEPT !.lease = Lease] ELSE T[r]]

\* Renew every presented lease <<run, token>> that passes the fence.
renew_run_leases(T, w, held) ==
    [r \in RunIds |-> IF \E h \in held : h[1] = r /\ fenced(T, r, w, h[2])
                      THEN [T[r] EXCEPT !.lease = Lease]
                      ELSE T[r]]

finish_active_run(T, r, s) == [T EXCEPT ![r] = [@ EXCEPT !.st = s, !.lease = 0]]

set_retry_from_active(T, r) ==
    [T EXCEPT ![r] = [T[r] EXCEPT !.st = "RETRYING", !.retry = @ + 1, !.lease = 0]]

expire_run(T, r) == [T EXCEPT ![r] = [@ EXCEPT !.st = "LOST"]]

set_cancelling_by_job(T, j) ==
    [r \in RunIds |-> IF T[r].job = j /\ T[r].st \in Executing
                      THEN [T[r] EXCEPT !.st = "CANCELLING"] ELSE T[r]]

\* drop_superseded_runs, and the reload's UPDATE of rows not yet executing.
cancel_rows(T, R) ==
    [r \in RunIds |-> IF r \in R THEN [T[r] EXCEPT !.st = "CANCELLED"] ELSE T[r]]

purge_job(T, j) == [r \in RunIds |-> IF T[r].job = j THEN NoRow ELSE T[r]]

\* One tick of the clock, seen from the table.
age_leases(T) ==
    [r \in RunIds |-> IF T[r].lease > 0 THEN [T[r] EXCEPT !.lease = @ - 1] ELSE T[r]]

=============================================================================
