---------------------------- MODULE ClusterProofs ----------------------------
(***************************************************************************)
(* Theorems about manager and workers together, for every number of jobs,  *)
(* workers, runs and tokens and every timing that meets TimingAssumption.  *)
(*                                                                         *)
(* The argument has two layers.  Base is about types and the manager's     *)
(* table: the table's rows are claimed one per job, and a finished row     *)
(* stays as it is.  LeaseInv rests on it, and is about time: the lease of  *)
(* an execution outlasts what its worker needs to stop it.                 *)
(***************************************************************************)
EXTENDS Cluster, RunStoreProofs

-----------------------------------------------------------------------------
(* What every handler of the manager does to its tables: no lease begins   *)
(* except by a claim, and none ends except by its owner's report or by     *)
(* running out.                                                            *)

\* Rows are created in order: none at or after nextId exists yet.
FreshRows == \A r \in RunIds : r >= nextId => runs[r].st = "ABSENT"

RowsHaveJobs == \A r \in RunIds : runs[r].st # "ABSENT" => runs[r].job \in Jobs

\* The rows the reaper has in hand are not deleted under it.
ReapedRows == \A r \in reaped : runs[r].st # "ABSENT"

TableInv == MgrTypeOK /\ FreshRows /\ RowsHaveJobs /\ ReapedRows

\* No lease begins: every row is quiet.
Quiet == \A r \in RunIds : RowQuiet(runs[r], runs'[r])

\* No lease ends: every row is kept.
Keeps == \A r \in RunIds : RowKeeps(runs[r], runs'[r])

\* The facts every handler but claim, complete and the clock establishes.
Calm == TableInv' /\ Quiet /\ Keeps

\* A quiet step that creates rows in order preserves the table's invariant.
LEMMA QuietTable ==
    ASSUME TableInv, Quiet, MgrTypeOK', nextId' >= nextId, reaped' \subseteq reaped,
           \A r \in RunIds : runs[r].st = "ABSENT" /\ r >= nextId' => runs'[r].st = "ABSENT"
    PROVE  TableInv'
<1>1. FreshRows'
    BY DEF TableInv, FreshRows, MgrTypeOK, RunIds
<1>2. RowsHaveJobs'
    BY DEF TableInv, RowsHaveJobs, Quiet, RowQuiet
<1>3. ReapedRows'
    BY DEF TableInv, ReapedRows, MgrTypeOK, Quiet, RowQuiet
<1> QED
    BY <1>1, <1>2, <1>3 DEF TableInv

\* A step that leaves the table alone is calm.
LEMMA CalmUnchanged ==
    ASSUME TableInv, MgrTypeOK', UNCHANGED <<runs, nextId>>, reaped' \subseteq reaped
    PROVE  Calm
<1>1. Quiet /\ Keeps
    BY RowSame DEF Quiet, Keeps, TableInv, MgrTypeOK
<1>2. TableInv'
    BY DEF TableInv, FreshRows, RowsHaveJobs, ReapedRows
<1> QED
    BY <1>1, <1>2 DEF Calm

\* Registration, draining, shutdown and unregistration touch no run.
LEMMA LifecycleCalm ==
    ASSUME TableInv, NEW w \in Workers,
           register(w) \/ drain(w) \/ worker_shutdown(w) \/ unregister(w)
    PROVE  Calm
<1>1. MgrTypeOK' /\ UNCHANGED <<runs, nextId, reaped>>
    BY ManagerAssumption
    DEF TableInv, MgrTypeOK, register, drain, worker_shutdown, unregister, Online, WStatus
<1> QED
    BY <1>1, CalmUnchanged

\* A heartbeat renews leases, and only leases.
LEMMA HeartbeatCalm ==
    ASSUME TableInv, NEW w \in Workers, NEW held, heartbeat(w, held)
    PROVE  /\ Calm
           /\ \A h \in held : \A r \in RunIds :
                h[1] = r /\ fenced(runs, r, w, h[2]) => runs'[r].lease = Lease
<1>1. runs \in Table /\ runs' = renew_run_leases(runs, w, held)
    BY DEF TableInv, MgrTypeOK, heartbeat, Table
<1>2. runs' \in Table /\ Quiet /\ Keeps /\ \A r \in RunIds : runs'[r].st = runs[r].st
    BY <1>1, RenewRunLeases DEF Quiet, Keeps
<1>3. MgrTypeOK'
    BY <1>2, ManagerAssumption
    DEF TableInv, MgrTypeOK, heartbeat, touch_heartbeat, WStatus, Table
<1>4. nextId' = nextId /\ nextId \in Int /\ reaped' = reaped
    BY DEF heartbeat, TableInv, MgrTypeOK
<1>5. TableInv'
    BY <1>2, <1>3, <1>4, QuietTable
<1> QED
    BY <1>1, <1>2, <1>5, RenewRunLeases DEF Calm

\* A claim gives the run to its worker under a fresh token, or does nothing.
LEMMA ClaimStep ==
    ASSUME TableInv, NEW w \in Workers, NEW r \in RunIds, claim(w, r)
    PROVE  /\ TableInv'
           /\ Keeps
           /\ IF ClaimGranted(w, r)
              THEN /\ runs[r].st = "QUEUED"
                   /\ one_active_run_per_job(runs, runs[r].job) = {}
                   /\ nextTok \in Tokens
                   /\ nextTok' = nextTok + 1
                   /\ Claimed(runs[r], runs'[r], w, nextTok)
                   /\ \A q \in RunIds \ {r} : runs'[q] = runs[q]
              ELSE UNCHANGED <<runs, nextTok>>
<1>1. CASE ~ClaimGranted(w, r)
    <2>1. MgrTypeOK' /\ UNCHANGED <<runs, nextId, nextTok, reaped>>
        BY <1>1 DEF claim, TableInv, MgrTypeOK
    <2> QED
        BY <1>1, <2>1, CalmUnchanged DEF Calm
<1>2. CASE ClaimGranted(w, r)
    <2>1. /\ runs \in Table
          /\ runs' = claim_run(runs, r, w, nextTok)
          /\ nextTok \in Tokens
          /\ nextTok' = nextTok + 1
          /\ runs[r].st = "QUEUED"
          /\ one_active_run_per_job(runs, runs[r].job) = {}
          /\ UNCHANGED <<nextId, wstat, hbAge, snap, conf, disp, reaped>>
        BY <1>2 DEF claim, ClaimGranted, claimable, TableInv, MgrTypeOK, Table
    <2>2. /\ runs' \in Table
          /\ Claimed(runs[r], runs'[r], w, nextTok)
          /\ \A q \in RunIds \ {r} : runs'[q] = runs[q]
        BY <2>1, ClaimRun
    <2>3. MgrTypeOK'
        BY <2>1, <2>2, StoreAssumption DEF TableInv, MgrTypeOK, Table, Tokens
    <2>4. FreshRows' /\ RowsHaveJobs' /\ ReapedRows'
        BY <2>1, <2>2 DEF TableInv, FreshRows, RowsHaveJobs, ReapedRows, MgrTypeOK, Claimed
    <2>5. Keeps
        <3>1. RowKeeps(runs[r], runs'[r])
            BY <2>1, StatusFacts DEF RowKeeps
        <3> QED
            BY <2>1, <2>2, <3>1, RowSame DEF Keeps, Table
    <2> QED
        BY <1>2, <2>1, <2>2, <2>3, <2>4, <2>5 DEF TableInv
<1> QED
    BY <1>1, <1>2

\* A report ends at most the lease whose token it presents.
LEMMA CompleteStep ==
    ASSUME TableInv, NEW w, NEW r \in RunIds, NEW t, NEW attempt,
           NEW result \in {"success", "failed", "cancelled", "lost"},
           complete(w, r, t, attempt, result)
    PROVE  /\ TableInv' /\ Quiet
           /\ \A q \in RunIds : runs[q].token # t => RowKeeps(runs[q], runs'[q])
           /\ nextTok' = nextTok
<1>1. CASE ~CompleteApplied(w, r, t, attempt)
    <2>1. MgrTypeOK' /\ UNCHANGED <<runs, nextId, nextTok, reaped>>
        BY <1>1 DEF complete, TableInv, MgrTypeOK
    <2> QED
        BY <2>1, CalmUnchanged DEF Calm, Keeps
<1>2. CASE CompleteApplied(w, r, t, attempt)
    <2> DEFINE T == Completed(r, result)
    <2>1. /\ runs \in Table /\ runs[r].st \in Active /\ runs[r].token = t
          /\ nextId \in 1..(MaxRuns + 1)
        BY <1>2 DEF CompleteApplied, fenced, TableInv, MgrTypeOK, Table
    <2>2. /\ T \in Table /\ T[r].st \in Terminal \cup {"RETRYING"}
          /\ \A q \in RunIds : /\ RowQuiet(runs[q], T[q])
                               /\ q # r => T[q] = runs[q]
        <3>1. CASE result \in {"success", "cancelled", "lost"}
            <4>1. PICK s \in Terminal : T = finish_active_run(runs, r, s)
                BY <3>1 DEF Completed, Terminal
            <4> HIDE DEF T
            <4> QED
                BY <2>1, <4>1, FinishActiveRun
        <3>2. CASE result = "failed" /\ runs[r].retry >= RetryMax[runs[r].job]
            <4>1. T = finish_active_run(runs, r, "FAILED") /\ "FAILED" \in Terminal
                BY <3>2 DEF Completed, Terminal
            <4> HIDE DEF T
            <4> QED
                BY <2>1, <4>1, FinishActiveRun
        <3>3. CASE result = "failed" /\ ~(runs[r].retry >= RetryMax[runs[r].job])
            <4>1. T = set_retry_from_active(runs, r)
                BY <3>3 DEF Completed
            <4> HIDE DEF T
            <4> QED
                BY <2>1, <4>1, SetRetryFromActive
        <3> QED
            BY <3>1, <3>2, <3>3
    <2> HIDE DEF T
    <2>3. \A q \in RunIds : runs[q].token # t => RowKeeps(runs[q], T[q])
        BY <2>1, <2>2, RowSame DEF Table
    <2>4. UNCHANGED <<nextTok, wstat, hbAge, conf, disp, reaped>> /\ snap' \subseteq Workers
        BY <1>2 DEF complete, Online
    <2>5. CASE runs' = T /\ nextId' = nextId
        <3>1. Quiet
            BY <2>2, <2>5 DEF Quiet
        <3>2. MgrTypeOK'
            BY <2>2, <2>4, <2>5 DEF TableInv, MgrTypeOK, Table
        <3>3. \A q \in RunIds : runs[q].st = "ABSENT" => runs'[q].st = "ABSENT"
            BY <2>1, <2>2, <2>5, StatusFacts
        <3>4. TableInv'
            BY <2>1, <2>4, <2>5, <3>1, <3>2, <3>3, QuietTable
        <3> QED
            BY <2>3, <2>4, <2>5, <3>1, <3>4
    <2>6. CASE /\ Room /\ nextId' = nextId + 1
               /\ \E v \in pick(snap) : runs' = create_run(T, nextId, T[r].job, v, "QUEUED")
        <3>1. PICK v \in pick(snap) : runs' = create_run(T, nextId, T[r].job, v, "QUEUED")
            BY <2>6
        <3>2. nextId \in RunIds /\ v \in Workers \cup {NoWorker}
            BY <2>6 DEF Room, pick, TableInv, MgrTypeOK
        <3>3. runs[nextId].st = "ABSENT" /\ nextId # r
            BY <2>1, <3>2, StatusFacts DEF TableInv, FreshRows, RunIds
        <3>4. T[nextId] = runs[nextId] /\ T[nextId].st = "ABSENT"
            BY <2>2, <3>2, <3>3
        <3>5. T[r].job \in Jobs
            BY <2>1, <2>2, StatusFacts DEF TableInv, RowsHaveJobs, RowQuiet
        <3>6. /\ runs' \in Table
              /\ \A q \in RunIds : /\ RowQuiet(T[q], runs'[q]) /\ RowKeeps(T[q], runs'[q])
                                   /\ q # nextId => runs'[q] = T[q]
            BY <2>2, <3>1, <3>2, <3>4, <3>5, CreateRun
        <3>7. Quiet /\ \A q \in RunIds : runs[q].token # t => RowKeeps(runs[q], runs'[q])
            <4>1. RowQuiet(runs[nextId], runs'[nextId]) /\ RowKeeps(runs[nextId], runs'[nextId])
                BY <3>2, <3>4, <3>6
            <4> QED
                BY <2>2, <2>3, <3>6, <4>1 DEF Quiet
        <3>8. MgrTypeOK'
            BY <2>4, <2>6, <3>2, <3>6, StoreAssumption DEF TableInv, MgrTypeOK, Table, RunIds
        <3>9. \A q \in RunIds : runs[q].st = "ABSENT" /\ q >= nextId' => runs'[q].st = "ABSENT"
            BY <2>1, <2>2, <2>6, <3>2, <3>6, StatusFacts DEF RunIds
        <3>10. TableInv'
            BY <2>1, <2>4, <2>6, <3>7, <3>8, <3>9, QuietTable
        <3> QED
            BY <2>4, <3>7, <3>10
    <2> QED
        BY <1>2, <2>5, <2>6 DEF complete, create_lost_requeue, T
<1> QED
    BY <1>1, <1>2

\* A new row at nextId is calm.
LEMMA CreateCalm ==
    ASSUME TableInv, nextId \in RunIds, nextId' = nextId + 1, NEW j \in Jobs,
           NEW w \in Workers \cup {NoWorker}, NEW s \in {"QUEUED", "SKIPPED"},
           runs' = create_run(runs, nextId, j, w, s),
           UNCHANGED <<nextTok, wstat, hbAge, snap, conf, reaped>>,
           disp' \subseteq Jobs \X Kinds \X Stages
    PROVE  Calm
<1>1. runs \in Table /\ runs[nextId].st = "ABSENT"
    BY DEF TableInv, MgrTypeOK, FreshRows, Table, RunIds
<1>2. /\ runs' \in Table
      /\ \A q \in RunIds : /\ RowQuiet(runs[q], runs'[q]) /\ RowKeeps(runs[q], runs'[q])
                           /\ q # nextId => runs'[q] = runs[q]
    BY <1>1, CreateRun
<1>3. MgrTypeOK'
    BY <1>2, StoreAssumption DEF TableInv, MgrTypeOK, Table, RunIds
<1>4. Quiet /\ Keeps
    BY <1>2 DEF Quiet, Keeps
<1>5. /\ nextId' >= nextId
      /\ \A q \in RunIds : runs[q].st = "ABSENT" /\ q >= nextId' => runs'[q].st = "ABSENT"
    BY <1>2 DEF TableInv, MgrTypeOK, RunIds
<1>6. TableInv'
    BY <1>3, <1>4, <1>5, QuietTable
<1> QED
    BY <1>4, <1>6 DEF Calm

\* A dispatch creates QUEUED and SKIPPED rows and nothing else.
LEMMA DispatchCalm ==
    ASSUME TableInv, NEW j \in Jobs, NEW k \in Kinds,
           DispatchCheck(j, k) \/ DispatchLock(j, k) \/ DispatchInsert(j, k)
    PROVE  Calm
<1>1. CASE DispatchCheck(j, k)
    <2>1. CASE \E d \in Deps[j] : ~LatestIn(runs, d, {"SUCCESS"})
        BY <1>1, <2>1, CreateCalm DEF DispatchCheck, Room, TableInv, MgrTypeOK
    <2>2. CASE ~\E d \in Deps[j] : ~LatestIn(runs, d, {"SUCCESS"})
        <3>1. MgrTypeOK' /\ UNCHANGED <<runs, nextId, reaped>>
            BY <1>1, <2>2 DEF DispatchCheck, TableInv, MgrTypeOK, Stages
        <3> QED
            BY <3>1, CalmUnchanged
    <2> QED
        BY <2>1, <2>2
<1>2. CASE DispatchLock(j, k)
    <2>1. MgrTypeOK' /\ UNCHANGED <<runs, nextId, reaped>>
        BY <1>2 DEF DispatchLock, TableInv, MgrTypeOK, Stages
    <2> QED
        BY <2>1, CalmUnchanged
<1>3. CASE DispatchInsert(j, k)
    <2>1. CASE Room
        <3>1. PICK w \in pick(snap) : runs' = create_run(runs, nextId, j, w, "QUEUED")
            BY <1>3, <2>1 DEF DispatchInsert
        <3>2. /\ w \in Workers \cup {NoWorker} /\ nextId \in RunIds
              /\ nextId' = nextId + 1 /\ disp' \subseteq Jobs \X Kinds \X Stages
              /\ UNCHANGED <<nextTok, wstat, hbAge, snap, conf, reaped>>
            BY <1>3, <2>1 DEF DispatchInsert, Room, pick, TableInv, MgrTypeOK
        <3> QED
            BY <3>1, <3>2, CreateCalm
    <2>2. CASE ~Room
        <3>1. MgrTypeOK' /\ UNCHANGED <<runs, nextId, reaped>>
            BY <1>3, <2>2 DEF DispatchInsert, TableInv, MgrTypeOK
        <3> QED
            BY <3>1, CalmUnchanged
    <2> QED
        BY <2>1, <2>2
<1> QED
    BY <1>1, <1>2, <1>3

\* Rows that are not claimed can be changed and cancelled calmly.
LEMMA CancelCalm ==
    ASSUME TableInv, NEW R \in SUBSET RunIds, \A r \in R : runs[r].st \in {"QUEUED", "RETRYING"}
    PROVE  /\ cancel_rows(runs, R) \in Table
           /\ \A q \in RunIds : /\ RowQuiet(runs[q], cancel_rows(runs, R)[q])
                                /\ RowKeeps(runs[q], cancel_rows(runs, R)[q])
                                /\ runs[q].st = "ABSENT" => cancel_rows(runs, R)[q].st = "ABSENT"
<1> DEFINE U == cancel_rows(runs, R)
<1>1. runs \in Table /\ \A r \in R : runs[r].st \notin Terminal \cup {"ABSENT"}
    BY StatusFacts DEF TableInv, MgrTypeOK, Table
<1>2. /\ U \in Table
      /\ \A q \in RunIds : /\ RowQuiet(runs[q], U[q])
                           /\ q \notin R => U[q] = runs[q]
                           /\ runs[q].st = "ABSENT" => U[q] = runs[q]
    BY <1>1, CancelRows
<1>3. \A q \in RunIds : RowKeeps(runs[q], U[q])
    <2> TAKE q \in RunIds
    <2>1. CASE q \in R
        BY <2>1, StatusFacts DEF RowKeeps
    <2>2. CASE q \notin R
        BY <1>1, <1>2, <2>2, RowSame DEF Table
    <2> QED
        BY <2>1, <2>2
<1> QED
    BY <1>2, <1>3

\* Retries, stop requests and a reload that keeps the job take no lease away.
LEMMA RequestCalm ==
    ASSUME TableInv,
           \/ \E r \in RunIds : retry_tick(r)
           \/ \E j \in Jobs : stop_run(j)
           \/ \E j \in Jobs, c \in {"enabled", "disabled"} : reload(j, c)
    PROVE  Calm
<1>1. ASSUME NEW R \in SUBSET RunIds, \A r \in R : runs[r].st \in {"QUEUED", "RETRYING"},
             runs' = cancel_rows(runs, R), conf' \in [Jobs -> {"enabled", "disabled", "absent"}],
             UNCHANGED <<nextId, nextTok, wstat, hbAge, snap, disp, reaped>>
      PROVE  Calm
    <2>1. /\ runs' \in Table /\ Quiet /\ Keeps
          /\ \A q \in RunIds : runs[q].st = "ABSENT" => runs'[q].st = "ABSENT"
        BY <1>1, CancelCalm DEF Quiet, Keeps
    <2>2. MgrTypeOK' /\ nextId' >= nextId
        BY <1>1, <2>1 DEF TableInv, MgrTypeOK, Table
    <2> QED
        BY <1>1, <2>1, <2>2, QuietTable DEF Calm
<1>2. ASSUME NEW r \in RunIds, retry_tick(r)
      PROVE  Calm
    <2>1. CASE runs' = cancel_rows(runs, {r})
        BY <1>1, <1>2, <2>1 DEF retry_tick, TableInv, MgrTypeOK
    <2>2. CASE runs' = [runs EXCEPT ![r] = [@ EXCEPT !.st = "QUEUED"]]
        <3>1. /\ runs \in Table /\ runs[r].st = "RETRYING" /\ runs[r] \in Row
              /\ UNCHANGED <<nextId, nextTok, wstat, hbAge, snap, conf, disp, reaped>>
            BY <1>2 DEF retry_tick, TableInv, MgrTypeOK, Table
        <3>2. /\ runs'[r] \in Row /\ runs'[r].st = "QUEUED" /\ runs'[r].token = runs[r].token
              /\ runs'[r].job = runs[r].job
            BY <2>2, <3>1, StatusFacts DEF Table, Row
        <3>3. runs' \in Table /\ \A q \in RunIds \ {r} : runs'[q] = runs[q]
            BY <2>2, <3>1, <3>2 DEF Table
        <3>4. RowQuiet(runs[r], runs'[r]) /\ RowKeeps(runs[r], runs'[r])
            BY <3>1, <3>2, StatusFacts DEF RowQuiet, RowKeeps
        <3>5. Quiet /\ Keeps
            BY <3>1, <3>3, <3>4, RowSame DEF Quiet, Keeps, Table
        <3>6. /\ MgrTypeOK' /\ nextId' >= nextId
              /\ \A q \in RunIds : runs[q].st = "ABSENT" => runs'[q].st = "ABSENT"
            BY <3>1, <3>3 DEF TableInv, MgrTypeOK, Table
        <3> QED
            BY <3>1, <3>5, <3>6, QuietTable DEF Calm
    <2> QED
        BY <1>2, <2>1, <2>2 DEF retry_tick
<1>3. ASSUME NEW j \in Jobs, stop_run(j)
      PROVE  Calm
    <2>1. /\ runs \in Table /\ runs' = set_cancelling_by_job(runs, j)
          /\ UNCHANGED <<nextId, nextTok, wstat, hbAge, snap, conf, disp, reaped>>
        BY <1>3 DEF stop_run, TableInv, MgrTypeOK, Table
    <2>2. /\ runs' \in Table /\ Quiet /\ Keeps
          /\ \A q \in RunIds : runs[q].st = "ABSENT" => runs'[q].st = "ABSENT"
        BY <2>1, SetCancellingByJob DEF Quiet, Keeps
    <2>3. MgrTypeOK' /\ nextId' >= nextId
        BY <2>1, <2>2 DEF TableInv, MgrTypeOK, Table
    <2> QED
        BY <2>1, <2>2, <2>3, QuietTable DEF Calm
<1>4. ASSUME NEW j \in Jobs, NEW c \in {"enabled", "disabled"}, reload(j, c)
      PROVE  Calm
    <2> DEFINE R == {r \in RowsOf(runs, j) : runs[r].st \in {"QUEUED", "RETRYING"}}
    <2>1. /\ runs' = cancel_rows(runs, R) /\ conf' \in [Jobs -> {"enabled", "disabled", "absent"}]
          /\ UNCHANGED <<nextId, nextTok, wstat, hbAge, snap, disp, reaped>>
        BY <1>4 DEF reload, TableInv, MgrTypeOK
    <2>2. R \in SUBSET RunIds /\ \A r \in R : runs[r].st \in {"QUEUED", "RETRYING"}
        BY DEF RowsOf
    <2> QED
        BY <1>1, <2>1, <2>2
<1> QED
    BY <1>2, <1>3, <1>4

\* drop_superseded_runs never drops a claimed run: a CANCELLING run waits
\* behind no other claimed run of its job.
LEMMA DroppedRows ==
    ASSUME TableInv, OneActivePerJob
    PROVE  /\ Dropped \in Table
           /\ \A q \in RunIds : /\ RowQuiet(runs[q], Dropped[q])
                                /\ RowKeeps(runs[q], Dropped[q])
                                /\ runs[q].st = "ABSENT" => Dropped[q].st = "ABSENT"
<1>1. superseded_runs(runs) \in SUBSET RunIds
    BY DEF superseded_runs
<1>2. ASSUME NEW r \in superseded_runs(runs)
      PROVE  runs[r].st \in {"QUEUED", "RETRYING"}
    <2>1. /\ r \in RunIds
          /\ runs[r].st \in {"QUEUED", "RETRYING", "CANCELLING"}
          /\ active_runs_of_job(runs, runs[r].job) \ {r} # {}
        BY DEF superseded_runs
    <2>2. PICK q \in active_runs_of_job(runs, runs[r].job) : q # r
        BY <2>1
    <2>3. q \in one_active_run_per_job(runs, runs[r].job)
        BY <2>2, StatusFacts DEF active_runs_of_job, one_active_run_per_job
    <2>4. SUFFICES ASSUME runs[r].st = "CANCELLING"
                   PROVE  FALSE
        BY <2>1
    <2>5. r \in one_active_run_per_job(runs, runs[r].job) /\ runs[r].job \in Jobs
        BY <2>1, <2>4, StatusFacts DEF one_active_run_per_job, RowsOf, TableInv, RowsHaveJobs
    <2> QED
        BY <2>2, <2>3, <2>5 DEF OneActivePerJob
<1> QED
    BY <1>1, <1>2, CancelCalm DEF Dropped

\* Marking expired runs LOST ends no live lease.
LEMMA ReaperExpireCalm ==
    ASSUME TableInv, OneActivePerJob, ReaperExpire
    PROVE  Calm
<1> DEFINE D == Dropped
           E == expired_runs(Dropped)
<1>1. /\ D \in Table
      /\ \A q \in RunIds : /\ RowQuiet(runs[q], D[q]) /\ RowKeeps(runs[q], D[q])
                           /\ runs[q].st = "ABSENT" => D[q].st = "ABSENT"
    BY DroppedRows
<1>2. /\ reaped' = E
      /\ runs' = [r \in RunIds |-> IF r \in E THEN expire_run(D, r)[r] ELSE D[r]]
      /\ UNCHANGED <<nextId, nextTok, wstat, hbAge, snap, conf, disp>>
    BY DEF ReaperExpire
<1>3. \A r \in E : r \in RunIds /\ D[r].st \in Active /\ D[r].lease = 0
    BY DEF expired_runs
<1> HIDE DEF D, E
<1>4. ASSUME NEW r \in RunIds
      PROVE  /\ runs'[r] \in Row /\ RowQuiet(D[r], runs'[r]) /\ RowKeeps(D[r], runs'[r])
             /\ D[r].st = "ABSENT" => runs'[r].st = "ABSENT"
    <2>1. CASE r \in E
        <3>1. runs'[r] = [D[r] EXCEPT !.st = "LOST"] /\ D[r] \in Row
            BY <1>1, <1>2, <1>4, <2>1 DEF expire_run, Table
        <3>2. /\ runs'[r] \in Row /\ runs'[r].st = "LOST"
              /\ runs'[r].job = D[r].job /\ runs'[r].token = D[r].token
            BY <3>1, StatusFacts DEF Row
        <3>3. D[r].st \in Active /\ D[r].lease = 0
            BY <1>3, <2>1
        <3> QED
            BY <3>2, <3>3, StatusFacts DEF RowQuiet, RowKeeps
    <2>2. CASE r \notin E
        <3>1. runs'[r] = D[r] /\ D[r] \in Row
            BY <1>1, <1>2, <1>4, <2>2 DEF Table
        <3> QED
            BY <3>1, RowSame
    <2> QED
        BY <2>1, <2>2
<1>5. runs' \in Table /\ runs \in Table
    BY <1>2, <1>4 DEF Table, TableInv, MgrTypeOK
<1>6. Quiet /\ Keeps
    BY <1>1, <1>4, <1>5, RowTrans DEF Quiet, Keeps, Table
<1>7. MgrTypeOK'
    BY <1>2, <1>3, <1>5 DEF TableInv, MgrTypeOK, Table
<1>8. FreshRows' /\ RowsHaveJobs'
    BY <1>1, <1>2, <1>4, <1>6 DEF TableInv, FreshRows, RowsHaveJobs, Quiet, RowQuiet
<1>9. ReapedRows'
    BY <1>2, <1>3, <1>4, StatusFacts DEF ReapedRows, RowQuiet
<1> QED
    BY <1>6, <1>7, <1>8, <1>9 DEF Calm, TableInv

\* Requeueing lost runs and moving the queue to other workers ends no lease.
LEMMA ReaperFinishCalm ==
    ASSUME TableInv, OneActivePerJob, ReaperFinish
    PROVE  Calm
<1> DEFINE T == IF reaped = {} THEN Dropped ELSE runs
           on == Online(OfflineAfter)
<1>0. PICK n \in nextId..(MaxRuns + 1), Q \in SUBSET Requeueable(T, reaped) :
        /\ nextId' = n
        /\ \E new \in [Q -> nextId..(n - 1)], first \in [Q -> pick(snap)] :
             LET R == Requeued(T, Q, new, first)
             IN  \E to \in [Unplaced(R, on) -> pick(on)] : runs' = assign_queued_runs(R, to)
    BY DEF ReaperFinish
<1>1. PICK new \in [Q -> nextId..(n - 1)], first \in [Q -> pick(snap)] :
        LET R == Requeued(T, Q, new, first)
        IN  \E to \in [Unplaced(R, on) -> pick(on)] : runs' = assign_queued_runs(R, to)
    BY <1>0
<1> DEFINE R == Requeued(T, Q, new, first)
<1>2. PICK to \in [Unplaced(R, on) -> pick(on)] : runs' = assign_queued_runs(R, to)
    BY <1>1
<1>3. /\ reaped' = {} /\ wstat' = OfflineAfter /\ snap' = on
      /\ UNCHANGED <<nextTok, hbAge, conf, disp>>
    BY DEF ReaperFinish
<1>4. /\ T \in Table /\ runs \in Table
      /\ \A q \in RunIds : /\ RowQuiet(runs[q], T[q]) /\ RowKeeps(runs[q], T[q])
                           /\ runs[q].st = "ABSENT" => T[q].st = "ABSENT"
    <2>1. runs \in Table /\ \A q \in RunIds : RowQuiet(runs[q], runs[q]) /\ RowKeeps(runs[q], runs[q])
        BY RowSame DEF TableInv, MgrTypeOK, Table
    <2>2. CASE reaped = {}
        BY <2>1, <2>2, DroppedRows
    <2>3. CASE reaped # {}
        BY <2>1, <2>3
    <2> QED
        BY <2>2, <2>3
<1>5. \A r \in Q : r \in reaped /\ r \in RunIds /\ T[r].job \in Jobs
    <2>1. \A r \in Q : r \in reaped /\ r \in RunIds
        BY DEF Requeueable, TableInv, MgrTypeOK
    <2>2. ASSUME NEW r \in Q PROVE T[r].job \in Jobs
        BY <2>1, <2>2 DEF TableInv, ReapedRows, RowsHaveJobs
    <2> QED
        BY <2>1, <2>2
<1>6. on \subseteq Workers /\ OfflineAfter \in [Workers -> WStatus] /\ snap \subseteq Workers
      /\ nextId \in 1..(MaxRuns + 1)
    BY DEF Online, OfflineAfter, TableInv, MgrTypeOK, WStatus
<1> HIDE DEF T, on
<1>7. ASSUME NEW q \in RunIds
      PROVE  /\ R[q] \in Row /\ RowQuiet(T[q], R[q]) /\ RowKeeps(T[q], R[q])
             /\ T[q].st = "ABSENT" /\ q >= n => R[q].st = "ABSENT"
    <2>1. CASE \E r \in Q : new[r] = q
        <3> DEFINE r == CHOOSE x \in Q : new[x] = q
        <3>1. r \in Q /\ new[r] = q
            BY <2>1
        <3> HIDE DEF r
        <3>2. q \in nextId..(n - 1) /\ first[r] \in Workers \cup {NoWorker} /\ T[r].job \in Jobs
            BY <1>5, <1>6, <3>1 DEF pick
        <3>3. T[q].st = "ABSENT"
            BY <1>4, <1>6, <3>2 DEF TableInv, FreshRows
        <3>4. R[q] = create_run(T, q, T[r].job, first[r], "QUEUED")[q]
            BY <1>7, <2>1 DEF Requeued, r
        <3>5. create_run(T, q, T[r].job, first[r], "QUEUED") \in Table
              /\ RowQuiet(T[q], R[q]) /\ RowKeeps(T[q], R[q])
            BY <1>4, <1>7, <3>2, <3>3, <3>4, CreateRun
        <3>6. R[q] \in Row
            BY <1>7, <3>4, <3>5 DEF Table
        <3>7. ~(q >= n)
            BY <1>6, <3>2
        <3> QED
            BY <3>5, <3>6, <3>7
    <2>2. CASE ~\E r \in Q : new[r] = q
        <3>1. R[q] = T[q] /\ T[q] \in Row
            BY <1>4, <1>7, <2>2 DEF Requeued, Table
        <3> QED
            BY <3>1, RowSame
    <2> QED
        BY <2>1, <2>2
<1> HIDE DEF R
<1>8. ASSUME NEW q \in RunIds
      PROVE  /\ runs'[q] \in Row /\ RowQuiet(R[q], runs'[q]) /\ RowKeeps(R[q], runs'[q])
             /\ R[q].st = "ABSENT" => runs'[q].st = "ABSENT"
    <2>0. R[q] \in Row
        BY <1>7
    <2>1. CASE q \in Unplaced(R, on)
        <3>1. R[q].st = "QUEUED" /\ to[q] \in Workers \cup {NoWorker} /\ q \in DOMAIN to
            BY <1>6, <2>1 DEF Unplaced, pick
        <3>2. runs'[q] = [R[q] EXCEPT !.worker = to[q]]
            BY <1>2, <1>8, <3>1 DEF assign_queued_runs
        <3>3. /\ runs'[q] \in Row /\ runs'[q].st = R[q].st
              /\ runs'[q].job = R[q].job /\ runs'[q].token = R[q].token
            BY <2>0, <3>1, <3>2 DEF Row
        <3> QED
            BY <3>1, <3>3, StatusFacts DEF RowQuiet, RowKeeps
    <2>2. CASE q \notin Unplaced(R, on)
        <3>1. runs'[q] = R[q]
            BY <1>2, <1>8, <2>2 DEF assign_queued_runs
        <3> QED
            BY <2>0, <3>1, RowSame
    <2> QED
        BY <2>1, <2>2
<1>9. runs' \in Table
    BY <1>2, <1>8 DEF assign_queued_runs, Table
<1>10. Quiet /\ Keeps
    <2> SUFFICES ASSUME NEW q \in RunIds
                 PROVE  RowQuiet(runs[q], runs'[q]) /\ RowKeeps(runs[q], runs'[q])
        BY DEF Quiet, Keeps
    <2>1. runs[q] \in Row /\ T[q] \in Row /\ R[q] \in Row /\ runs'[q] \in Row
        BY <1>4, <1>7, <1>8 DEF Table
    <2>2. RowQuiet(runs[q], R[q]) /\ RowKeeps(runs[q], R[q])
        BY <1>4, <1>7, <2>1, RowTrans
    <2> QED
        BY <1>8, <2>1, <2>2, RowTrans
<1>11. MgrTypeOK'
    BY <1>0, <1>3, <1>6, <1>9 DEF TableInv, MgrTypeOK, Table
<1>12. nextId' >= nextId
       /\ \A q \in RunIds : runs[q].st = "ABSENT" /\ q >= nextId' => runs'[q].st = "ABSENT"
    BY <1>0, <1>4, <1>6, <1>7, <1>8
<1> QED
    BY <1>3, <1>10, <1>11, <1>12, QuietTable DEF Calm

\* A restart of the manager forgets what it had in hand, not the tables.
LEMMA RestartCalm ==
    ASSUME TableInv, ManagerRestart
    PROVE  Calm
<1>1. MgrTypeOK' /\ UNCHANGED <<runs, nextId>> /\ reaped' = {}
    BY DEF ManagerRestart, TableInv, MgrTypeOK
<1> QED
    BY <1>1, CalmUnchanged

\* A tick shortens leases by one and changes nothing else of a run.
LEMMA TickStep ==
    ASSUME TableInv, MgrTick
    PROVE  /\ TableInv' /\ Quiet
           /\ nextTok' = nextTok
           /\ \A r \in RunIds :
                /\ runs'[r].st = runs[r].st /\ runs'[r].job = runs[r].job
                /\ runs'[r].worker = runs[r].worker /\ runs'[r].token = runs[r].token
                /\ runs'[r].retry = runs[r].retry
                /\ runs[r].lease > 0 => runs'[r].lease = runs[r].lease - 1
<1>1. /\ runs \in Table /\ runs' = age_leases(runs)
      /\ UNCHANGED <<nextId, nextTok, wstat, snap, conf, disp, reaped>>
    BY DEF MgrTick, TableInv, MgrTypeOK, Table
<1>2. ASSUME NEW r \in RunIds
      PROVE  /\ runs'[r] \in Row
             /\ runs'[r].st = runs[r].st /\ runs'[r].job = runs[r].job
             /\ runs'[r].worker = runs[r].worker /\ runs'[r].token = runs[r].token
             /\ runs'[r].retry = runs[r].retry
             /\ runs[r].lease > 0 => runs'[r].lease = runs[r].lease - 1
    <2>1. runs[r] \in Row
        BY <1>1 DEF Table
    <2>2. CASE runs[r].lease > 0
        <3>1. runs'[r] = [runs[r] EXCEPT !.lease = @ - 1]
            BY <1>1, <1>2, <2>2 DEF age_leases
        <3>2. runs[r].lease - 1 \in 0..Lease
            BY <2>1, <2>2, StoreAssumption DEF Row
        <3>3. \A l \in 0..Lease : [runs[r] EXCEPT !.lease = l] \in Row
            BY <2>1 DEF Row
        <3>4. runs'[r] \in Row
            BY <3>1, <3>2, <3>3
        <3> QED
            BY <2>1, <3>1, <3>4 DEF Row
    <2>3. CASE ~(runs[r].lease > 0)
        BY <1>1, <1>2, <2>1, <2>3 DEF age_leases
    <2> QED
        BY <2>2, <2>3
<1>3. runs' \in Table
    BY <1>1, <1>2 DEF age_leases, Table
<1>4. Quiet
    BY <1>2, <1>3, RowSame DEF Quiet, RowQuiet, Table
<1>5. hbAge' \in [Workers -> 0..(Grace + 1)]
    BY ManagerAssumption DEF MgrTick, TableInv, MgrTypeOK
<1>6. MgrTypeOK'
    BY <1>1, <1>3, <1>5 DEF TableInv, MgrTypeOK, Table
<1>7. nextId' >= nextId /\ reaped' \subseteq reaped
    BY <1>1 DEF TableInv, MgrTypeOK
<1>8. TableInv'
    BY <1>2, <1>4, <1>6, <1>7, QuietTable
<1> QED
    BY <1>1, <1>2, <1>4, <1>8

-----------------------------------------------------------------------------
(* Where the rows in flight come from.                                      *)

\* No job is retried in place.
NoRetries == \A j \in Jobs : RetryMax[j] = 0

\* From a to b: a run in flight was in flight, or is of a job the manager
\* knows; a claimed run keeps its token; without retries in place, what was
\* claimed once is never queued again.
RowFollows(a, b) ==
    /\ b.st \in Inflight => \/ a.st \in Inflight /\ b.job = a.job
                            \/ conf[b.job] # "absent"
    /\ b.st \in Active => b.token = a.token
    /\ NoRetries => /\ a.st \in Active \cup Terminal => b.st \in Active \cup Terminal
                    /\ b.st = "RETRYING" => a.st = "RETRYING"

Follows == \A r \in RunIds : RowFollows(runs[r], runs'[r])

\* No lease is renewed and none ages.
Still == \A r \in RunIds : runs'[r].st \in Active => runs'[r].lease = runs[r].lease

\* The lifecycle of the workers, a restart and the first half of a dispatch
\* leave the rows alone.
LEMMA SameRows ==
    ASSUME UNCHANGED runs
    PROVE  Follows /\ Still
BY DEF Follows, RowFollows, Still

\* Cancelled rows.
LEMMA CancelFollows ==
    ASSUME TableInv, NEW R \in SUBSET RunIds, NEW q \in RunIds
    PROVE  LET U == cancel_rows(runs, R)
           IN  /\ RowFollows(runs[q], U[q])
               /\ U[q].st \in Active => U[q].lease = runs[q].lease
               /\ U[q].job = runs[q].job
<1>1. runs[q] \in Row
    BY DEF TableInv, MgrTypeOK
<1> QED
    BY <1>1, StatusFacts DEF cancel_rows, RowFollows, Row, Inflight, Active, Executing, Terminal

\* A new row at nextId.
LEMMA CreateFollows ==
    ASSUME TableInv, nextId \in RunIds, NEW j \in Jobs, NEW w, NEW s \in {"QUEUED", "SKIPPED"},
           conf[j] # "absent", runs' = create_run(runs, nextId, j, w, s)
    PROVE  Follows /\ Still
<1>1. runs \in Table /\ runs[nextId].st = "ABSENT"
    BY DEF TableInv, MgrTypeOK, FreshRows, Table, RunIds
<1>2. /\ runs'[nextId].st = s /\ runs'[nextId].job = j
      /\ \A q \in RunIds \ {nextId} : runs'[q] = runs[q]
    BY <1>1 DEF create_run, Table
<1>3. ASSUME NEW q \in RunIds
      PROVE  RowFollows(runs[q], runs'[q]) /\ (runs'[q].st \in Active => runs'[q].lease = runs[q].lease)
    BY <1>1, <1>2, StatusFacts DEF RowFollows, Inflight, Active, Executing, Terminal
<1> QED
    BY <1>3 DEF Follows, Still

\* A dispatch queues only jobs the manager knows: config_gate keeps the
\* configuration as it was when the dispatch began.
LEMMA DispatchFollows ==
    ASSUME TableInv, NEW j \in Jobs, NEW k \in Kinds,
           \A d \in disp : conf[d[1]] # "absent",
           DispatchCheck(j, k) \/ DispatchLock(j, k) \/ DispatchInsert(j, k)
    PROVE  Follows /\ Still
<1>1. CASE DispatchCheck(j, k)
    <2>1. conf[j] # "absent"
        BY <1>1 DEF DispatchCheck
    <2> QED
        BY <1>1, <2>1, CreateFollows, SameRows DEF DispatchCheck, Room
<1>2. CASE DispatchLock(j, k)
    BY <1>2, SameRows DEF DispatchLock
<1>3. CASE DispatchInsert(j, k)
    <2>1. conf[j] # "absent"
        BY <1>3 DEF DispatchInsert
    <2> QED
        BY <1>3, <2>1, CreateFollows, SameRows DEF DispatchInsert, Room
<1> QED
    BY <1>1, <1>2, <1>3

\* Retries, stop requests and reloads that keep the job.
LEMMA RequestFollows ==
    ASSUME TableInv,
           \/ \E r \in RunIds : retry_tick(r)
           \/ \E j \in Jobs : stop_run(j)
           \/ \E j \in Jobs, c \in {"enabled", "disabled"} : reload(j, c)
    PROVE  Follows /\ Still
<1>0. runs \in Table
    BY DEF TableInv, MgrTypeOK, Table
<1>1. ASSUME NEW R \in SUBSET RunIds, runs' = cancel_rows(runs, R) PROVE Follows /\ Still
    BY <1>1, CancelFollows DEF Follows, Still
<1>2. ASSUME NEW r \in RunIds, retry_tick(r) PROVE Follows /\ Still
    <2>1. CASE runs' = cancel_rows(runs, {r})
        BY <1>1, <2>1
    <2>2. CASE runs' = [runs EXCEPT ![r] = [@ EXCEPT !.st = "QUEUED"]]
        <3>1. runs[r].st = "RETRYING" /\ runs[r] \in Row
            BY <1>0, <1>2 DEF retry_tick, Table
        <3>2. /\ runs'[r].st = "QUEUED" /\ runs'[r].job = runs[r].job
              /\ \A q \in RunIds \ {r} : runs'[q] = runs[q]
            BY <1>0, <2>2, <3>1 DEF Table, Row
        <3>3. ASSUME NEW q \in RunIds
              PROVE  /\ RowFollows(runs[q], runs'[q])
                     /\ runs'[q].st \in Active => runs'[q].lease = runs[q].lease
            BY <3>1, <3>2, StatusFacts DEF RowFollows, Inflight
        <3> QED
            BY <3>3 DEF Follows, Still
    <2> QED
        BY <1>2, <2>1, <2>2 DEF retry_tick
<1>3. ASSUME NEW j \in Jobs, stop_run(j) PROVE Follows /\ Still
    <2>1. ASSUME NEW q \in RunIds
          PROVE  /\ RowFollows(runs[q], runs'[q])
                 /\ runs'[q].st \in Active => runs'[q].lease = runs[q].lease
        <3>1. runs[q] \in Row
            BY <1>0 DEF Table
        <3> QED
            BY <1>3, <3>1, StatusFacts
            DEF stop_run, set_cancelling_by_job, RowFollows, Row, Inflight, Active, Executing
    <2> QED
        BY <2>1 DEF Follows, Still
<1>4. ASSUME NEW j \in Jobs, NEW c \in {"enabled", "disabled"}, reload(j, c) PROVE Follows /\ Still
    <2> DEFINE R == {r \in RowsOf(runs, j) : runs[r].st \in {"QUEUED", "RETRYING"}}
    <2>1. runs' = cancel_rows(runs, R) /\ R \in SUBSET RunIds
        BY <1>4 DEF reload, RowsOf
    <2> HIDE DEF R
    <2> QED
        BY <1>1, <2>1
<1> QED
    BY <1>2, <1>3, <1>4

\* The reaper queues again only what it lost of a job the manager knows.
LEMMA ReaperFollows ==
    ASSUME TableInv, ReaperExpire \/ ReaperFinish
    PROVE  Follows /\ Still
<1> DEFINE S == superseded_runs(runs)
<1>0. runs \in Table /\ S \in SUBSET RunIds
    BY DEF TableInv, MgrTypeOK, Table, superseded_runs
<1>1. \A q \in RunIds : /\ RowFollows(runs[q], Dropped[q])
                        /\ Dropped[q].st \in Active => Dropped[q].lease = runs[q].lease
                        /\ Dropped[q].job = runs[q].job
    BY <1>0, CancelFollows DEF Dropped
<1>2. Dropped \in Table
    BY <1>0, StatusFacts DEF Dropped, cancel_rows, Table, Row
<1>3. CASE ReaperExpire
    <2> DEFINE E == expired_runs(Dropped)
    <2>1. ASSUME NEW q \in RunIds
          PROVE  /\ RowFollows(runs[q], runs'[q])
                 /\ runs'[q].st \in Active => runs'[q].lease = runs[q].lease
        <3>1. CASE q \in E
            <4>1. runs'[q].st = "LOST" /\ Dropped[q].st \in Active
                BY <1>2, <1>3, <2>1, <3>1 DEF ReaperExpire, expire_run, expired_runs, Table, Row
            <4> QED
                BY <4>1, StatusFacts DEF RowFollows, Inflight, Active, Executing, Terminal
        <3>2. CASE q \notin E
            BY <1>1, <1>3, <2>1, <3>2 DEF ReaperExpire
        <3> QED
            BY <3>1, <3>2
    <2> QED
        BY <2>1 DEF Follows, Still
<1>4. CASE ReaperFinish
    <2> DEFINE T == IF reaped = {} THEN Dropped ELSE runs
               on == Online(OfflineAfter)
               Fresh(j, w) == [st |-> "QUEUED", job |-> j, worker |-> w, token |-> NoToken,
                               lease |-> 0, retry |-> 0]
    <2>1. PICK n \in nextId..(MaxRuns + 1), Q \in SUBSET Requeueable(T, reaped) :
            \E new \in [Q -> nextId..(n - 1)], first \in [Q -> pick(snap)] :
              LET R == Requeued(T, Q, new, first)
              IN  \E to \in [Unplaced(R, on) -> pick(on)] : runs' = assign_queued_runs(R, to)
        BY <1>4 DEF ReaperFinish
    <2>2. PICK new \in [Q -> nextId..(n - 1)], first \in [Q -> pick(snap)] :
            LET R == Requeued(T, Q, new, first)
            IN  \E to \in [Unplaced(R, on) -> pick(on)] : runs' = assign_queued_runs(R, to)
        BY <2>1
    <2> DEFINE R == Requeued(T, Q, new, first)
    <2>3. PICK to \in [Unplaced(R, on) -> pick(on)] : runs' = assign_queued_runs(R, to)
        BY <2>2
    <2>4. /\ T \in Table
          /\ \A q \in RunIds : /\ RowFollows(runs[q], T[q])
                               /\ T[q].st \in Active => T[q].lease = runs[q].lease
                               /\ runs[q].st = "ABSENT" => T[q].st = "ABSENT"
        <3>1. \A q \in RunIds : runs[q].st = "ABSENT" => Dropped[q].st = "ABSENT"
            BY <1>0 DEF Dropped, cancel_rows, superseded_runs
        <3>2. \A q \in RunIds : RowFollows(runs[q], runs[q])
            BY DEF RowFollows
        <3> QED
            BY <1>0, <1>1, <1>2, <3>1, <3>2
    <2>5. \A r \in Q : conf[T[r].job] # "absent"
        BY DEF Requeueable
    <2>6. nextId \in 1..(MaxRuns + 1)
        BY DEF TableInv, MgrTypeOK
    <2> HIDE DEF T, on
    <2>7. ASSUME NEW q \in RunIds
          PROVE  \/ R[q] = T[q]
                 \/ /\ runs[q].st = "ABSENT" /\ R[q].st = "QUEUED"
                    /\ conf[R[q].job] # "absent" /\ \E j, w : R[q] = Fresh(j, w)
        <3>1. CASE \E r \in Q : new[r] = q
            <4> DEFINE r == CHOOSE x \in Q : new[x] = q
            <4>1. r \in Q /\ new[r] = q
                BY <3>1
            <4>2. R[q] = create_run(T, q, T[r].job, first[r], "QUEUED")[q]
                BY <2>7, <3>1 DEF Requeued
            <4> HIDE DEF r
            <4>3. R[q].st = "QUEUED" /\ R[q].job = T[r].job
                BY <2>4, <2>7, <4>2 DEF create_run, Table
            <4>4. R[q] = Fresh(T[r].job, first[r])
                BY <2>4, <2>7, <4>2 DEF create_run, Table
            <4>5. runs[q].st = "ABSENT"
                BY <2>6, <2>7, <4>1 DEF TableInv, FreshRows
            <4> QED
                BY <2>5, <4>1, <4>3, <4>4, <4>5
        <3>2. CASE ~\E r \in Q : new[r] = q
            BY <2>7, <3>2 DEF Requeued
        <3> QED
            BY <3>1, <3>2
    <2>8. ASSUME NEW q \in RunIds
          PROVE  /\ RowFollows(runs[q], R[q])
                 /\ R[q].st \in Active => R[q].lease = runs[q].lease
                 /\ R[q] \in Row \/ \E j, w : R[q] = Fresh(j, w)
        <3>1. CASE R[q] = T[q]
            BY <2>4, <2>8, <3>1 DEF Table
        <3>2. CASE runs[q].st = "ABSENT" /\ R[q].st = "QUEUED" /\ conf[R[q].job] # "absent"
                   /\ \E j, w : R[q] = Fresh(j, w)
            BY <3>2, StatusFacts DEF RowFollows
        <3> QED
            BY <2>7, <2>8, <3>1, <3>2
    <2>9. ASSUME NEW q \in RunIds
          PROVE  /\ RowFollows(runs[q], runs'[q])
                 /\ runs'[q].st \in Active => runs'[q].lease = runs[q].lease
        <3>1. CASE q \notin DOMAIN to
            BY <2>3, <2>8, <2>9, <3>1 DEF assign_queued_runs
        <3>2. CASE q \in DOMAIN to
            <4>1. runs'[q] = [R[q] EXCEPT !.worker = to[q]] /\ R[q].st = "QUEUED"
                BY <2>3, <2>9, <3>2 DEF assign_queued_runs, Unplaced
            <4>2. /\ runs'[q].st = "QUEUED" /\ runs'[q].job = R[q].job
                BY <2>8, <2>9, <4>1 DEF Row
            <4> QED
                BY <2>8, <2>9, <4>1, <4>2, StatusFacts DEF RowFollows
        <3> QED
            BY <3>1, <3>2
    <2> QED
        BY <2>9 DEF Follows, Still
<1> QED
    BY <1>3, <1>4

\* A report queues a lost run again only if the manager knows its job.
LEMMA CompleteFollows ==
    ASSUME TableInv, NEW w, NEW r \in RunIds, NEW t, NEW attempt,
           NEW result \in {"success", "failed", "cancelled", "lost"},
           complete(w, r, t, attempt, result)
    PROVE  Follows /\ Still
<1>0. runs \in Table /\ runs[r] \in Row
    BY DEF TableInv, MgrTypeOK, Table
<1>1. CASE ~CompleteApplied(w, r, t, attempt)
    BY <1>1, SameRows DEF complete
<1>2. CASE CompleteApplied(w, r, t, attempt)
    <2> DEFINE T == Completed(r, result)
    <2>1. runs[r].st \in Active /\ runs[r].job \in Jobs /\ conf[runs[r].job] # "absent"
        BY <1>2, StatusFacts
        DEF CompleteApplied, CompleteRefused, fenced, TableInv, RowsHaveJobs
    <2>2. /\ T \in Table /\ T[r].job = runs[r].job /\ T[r].st \in Terminal \cup {"RETRYING"}
          /\ T[r].st = "RETRYING" => ~NoRetries
          /\ \A q \in RunIds \ {r} : T[q] = runs[q]
        <3>1. CASE result \in {"success", "cancelled", "lost"}
            <4>1. PICK s \in Terminal : T = finish_active_run(runs, r, s)
                BY <3>1 DEF Completed, Terminal
            <4> HIDE DEF T
            <4>2. /\ T \in Table /\ \A q \in RunIds \ {r} : T[q] = runs[q]
                BY <1>0, <2>1, <4>1, FinishActiveRun
            <4>3. T[r].st = s /\ T[r].job = runs[r].job
                BY <1>0, <4>1 DEF finish_active_run, Table, Row
            <4> QED
                BY <4>2, <4>3, StatusFacts
        <3>2. CASE result = "failed" /\ runs[r].retry >= RetryMax[runs[r].job]
            <4>1. T = finish_active_run(runs, r, "FAILED") /\ "FAILED" \in Terminal
                BY <3>2 DEF Completed, Terminal
            <4> HIDE DEF T
            <4>2. /\ T \in Table /\ \A q \in RunIds \ {r} : T[q] = runs[q]
                BY <1>0, <2>1, <4>1, FinishActiveRun
            <4>3. T[r].st = "FAILED" /\ T[r].job = runs[r].job
                BY <1>0, <4>1 DEF finish_active_run, Table, Row
            <4> QED
                BY <4>1, <4>2, <4>3
        <3>3. CASE result = "failed" /\ ~(runs[r].retry >= RetryMax[runs[r].job])
            <4>1. T = set_retry_from_active(runs, r)
                BY <3>3 DEF Completed
            <4> HIDE DEF T
            <4>2. /\ T \in Table /\ \A q \in RunIds \ {r} : T[q] = runs[q]
                BY <1>0, <2>1, <4>1, SetRetryFromActive
            <4>3. T[r].st = "RETRYING" /\ T[r].job = runs[r].job
                BY <1>0, <4>1 DEF set_retry_from_active, Table, Row
            <4>4. runs[r].retry \in Nat /\ ~NoRetries
                BY <1>0, <2>1, <3>3 DEF Row, NoRetries
            <4> QED
                BY <4>2, <4>3, <4>4
        <3> QED
            BY <3>1, <3>2, <3>3
    <2> HIDE DEF T
    <2>3. ASSUME NEW q \in RunIds
          PROVE  RowFollows(runs[q], T[q]) /\ (T[q].st \in Active => T[q].lease = runs[q].lease)
        <3>1. CASE q = r
            BY <2>1, <2>2, <3>1, StatusFacts DEF RowFollows
        <3>2. CASE q # r
            BY <2>2, <2>3, <3>2 DEF RowFollows
        <3> QED
            BY <3>1, <3>2
    <2>4. CASE runs' = T
        BY <2>3, <2>4 DEF Follows, Still
    <2>5. CASE Room /\ \E v \in pick(snap) : runs' = create_run(T, nextId, T[r].job, v, "QUEUED")
        <3>1. PICK v : runs' = create_run(T, nextId, T[r].job, v, "QUEUED")
            BY <2>5
        <3>2. nextId \in RunIds /\ runs[nextId].st = "ABSENT"
            BY <2>5 DEF Room, TableInv, MgrTypeOK, FreshRows, RunIds
        <3>3. /\ runs'[nextId].st = "QUEUED" /\ runs'[nextId].job = runs[r].job
              /\ \A q \in RunIds \ {nextId} : runs'[q] = T[q]
            BY <2>2, <3>1, <3>2 DEF create_run, Table
        <3>4. ASSUME NEW q \in RunIds
              PROVE  /\ RowFollows(runs[q], runs'[q])
                     /\ runs'[q].st \in Active => runs'[q].lease = runs[q].lease
            <4>1. CASE q = nextId
                BY <2>1, <3>2, <3>3, <4>1, StatusFacts DEF RowFollows
            <4>2. CASE q # nextId
                BY <2>3, <3>3, <3>4, <4>2
            <4> QED
                BY <4>1, <4>2
        <3> QED
            BY <3>4 DEF Follows, Still
    <2> QED
        BY <1>2, <2>4, <2>5 DEF complete, create_lost_requeue, T
<1> QED
    BY <1>1, <1>2

\* A heartbeat refills live leases and changes nothing else of a row.
LEMMA HeartbeatRows ==
    ASSUME TableInv, NEW w, NEW held, heartbeat(w, held)
    PROVE  /\ Follows
           /\ \A r \in RunIds :
                /\ runs'[r].st = runs[r].st /\ runs'[r].job = runs[r].job
                /\ runs'[r].token = runs[r].token
                /\ \/ runs'[r].lease = runs[r].lease
                   \/ runs[r].st \in Active /\ runs[r].lease > 0 /\ runs'[r].lease = Lease
<1>1. ASSUME NEW r \in RunIds
      PROVE  /\ runs'[r].st = runs[r].st /\ runs'[r].job = runs[r].job
             /\ runs'[r].token = runs[r].token
             /\ \/ runs'[r].lease = runs[r].lease
                \/ runs[r].st \in Active /\ runs[r].lease > 0 /\ runs'[r].lease = Lease
    <2>1. runs[r] \in Row
        BY DEF TableInv, MgrTypeOK
    <2> QED
        BY <1>1, <2>1 DEF heartbeat, renew_run_leases, fenced, Row
<1> QED
    BY <1>1 DEF Follows, RowFollows

\* So does a tick, which shortens them.
LEMMA TickFollows ==
    ASSUME TableInv, MgrTick
    PROVE  Follows
BY TickStep DEF Follows, RowFollows

\* A job that leaves the configuration takes its rows with it; one that comes
\* back has none that wait.
LEMMA RedefineRows ==
    ASSUME TableInv, NEW j \in Jobs, NEW c \in {"enabled", "absent"}, reload(j, c)
    PROVE  /\ TableInv'
           /\ \A r \in RunIds :
                \/ runs'[r] = runs[r] /\ (c = "absent" => runs[r].job # j)
                \/ runs'[r].st \in {"ABSENT", "CANCELLED"}
                   /\ (runs'[r].st = "CANCELLED" => runs[r].st \in {"QUEUED", "RETRYING"})
<1>0. /\ runs \in Table /\ reaped' = {} /\ conf' \in [Jobs -> {"enabled", "disabled", "absent"}]
      /\ UNCHANGED <<nextId, nextTok, wstat, hbAge, snap, disp>>
    BY DEF TableInv, MgrTypeOK, Table, reload
<1>1. NoRow \in Row /\ NoRow.st = "ABSENT"
    BY StoreAssumption, StatusFacts DEF NoRow, Row, NoToken
<1>2. ASSUME NEW r \in RunIds
      PROVE  /\ runs'[r] \in Row
             /\ runs'[r].st # "ABSENT" => runs'[r].job = runs[r].job /\ runs[r].st # "ABSENT"
             /\ \/ runs'[r] = runs[r] /\ (c = "absent" => runs[r].job # j)
                \/ runs'[r].st \in {"ABSENT", "CANCELLED"}
                   /\ (runs'[r].st = "CANCELLED" => runs[r].st \in {"QUEUED", "RETRYING"})
    <2>0. runs[r] \in Row
        BY <1>0 DEF Table
    <2>1. CASE c = "absent"
        BY <1>1, <1>2, <2>0, <2>1 DEF reload, purge_job
    <2>2. CASE c # "absent"
        <3> DEFINE R == {q \in RowsOf(runs, j) : runs[q].st \in {"QUEUED", "RETRYING"}}
        <3>1. runs' = cancel_rows(runs, R)
            BY <2>2 DEF reload
        <3>2. CASE r \in R
            <4>1. runs'[r] = [runs[r] EXCEPT !.st = "CANCELLED"] /\ runs[r].st \in {"QUEUED", "RETRYING"}
                BY <1>2, <3>1, <3>2 DEF cancel_rows
            <4> QED
                BY <2>0, <4>1, StatusFacts DEF Row
        <3>3. CASE r \notin R
            BY <1>2, <2>0, <2>2, <3>1, <3>3 DEF cancel_rows
        <3> QED
            BY <3>2, <3>3
    <2> QED
        BY <2>1, <2>2
<1>3. runs' \in Table
    BY <1>2 DEF reload, purge_job, cancel_rows, Table
<1>4. MgrTypeOK'
    BY <1>0, <1>3 DEF TableInv, MgrTypeOK, Table
<1>5. FreshRows' /\ RowsHaveJobs' /\ ReapedRows'
    BY <1>0, <1>2 DEF TableInv, FreshRows, RowsHaveJobs, ReapedRows
<1> QED
    BY <1>2, <1>4, <1>5 DEF TableInv

-----------------------------------------------------------------------------
(* Type correctness of the worker's steps, and what they leave alone.       *)

\* The constants of the worker's records have their types.
LEMMA WorkerConstants ==
    /\ Denied \in Answer /\ Down \in Loop /\ NoTask \in Task /\ Over \in Task
    /\ Over.phase = "done" /\ NoTask.phase = "none" /\ Down.pc = "down"
    /\ NoTask.w = NoWorker
<1>1. 0 \in 0..Safety /\ 0 \in 0..RpcMax /\ 0 \in 0..StopMax
      /\ 0 \in 0..(MaxReports - 1)
    BY WorkerAssumption
<1>2. Denied \in Answer
    BY DEF Denied, Answer, NoToken
<1>3. Down \in Loop /\ Down.pc = "down"
    BY <1>1, <1>2 DEF Down, Loop, PCs
<1>4. NoTask \in Task /\ NoTask.phase = "none" /\ NoTask.w = NoWorker
    BY <1>1 DEF NoTask, Task, Phases
<1>5. Over \in Task /\ Over.phase = "done"
    BY <1>4 DEF Over, Task, Phases
<1> QED
    BY <1>2, <1>3, <1>4, <1>5

\* Resetting the call fields of the loop keeps its type.
LEMMA AfterCallType ==
    ASSUME WkrTypeOK, NEW w \in Workers, NEW offers \in SUBSET RunIds
    PROVE  /\ AfterCall(w, offers) \in Loop
           /\ AfterCall(w, offers).pc \in {"idle", "offers"}
           /\ AfterCall(w, offers).deadline = wk[w].deadline
           /\ AfterCall(w, offers).ans = Denied
<1>1. 0 \in 0..Safety /\ 0 \in 0..RpcMax
    BY WorkerAssumption
<1>2. ASSUME NEW a \in Loop, NEW pc \in {"idle", "offers"}
      PROVE  LET b == [a EXCEPT !.pc = pc, !.offers = offers, !.sent = 0, !.rpc = 0,
                                !.held = {}, !.cancel = {}, !.run = 0, !.ans = Denied]
             IN  b \in Loop /\ b.pc = pc /\ b.deadline = a.deadline /\ b.ans = Denied
    BY <1>1, <1>2, WorkerConstants DEF Loop, PCs
<1>3. wk[w] \in Loop /\ (IF offers = {} THEN "idle" ELSE "offers") \in {"idle", "offers"}
    BY DEF WkrTypeOK
<1> QED
    BY <1>2, <1>3 DEF AfterCall

\* What WkrTypeOK says of one loop and of one task.
LoopOK(a) == a \in Loop /\ (a.pc \in {"claim", "claimed"} => a.run \in RunIds)

TaskOK(a) == /\ a \in Task
             /\ a.phase \notin {"none", "done"} => a.w \in Workers /\ a.run \in RunIds
             /\ a.phase = "none" => a.w = NoWorker
             /\ a.phase = "report" => a.result \in Reports

\* A step of one loop.
LEMMA LoopUpdate ==
    ASSUME WkrTypeOK, NEW w \in Workers, NEW a, LoopOK(a), wk' = [wk EXCEPT ![w] = a]
    PROVE  /\ wk' \in [Workers -> Loop]
           /\ \A v \in Workers : wk'[v].pc \in {"claim", "claimed"} => wk'[v].run \in RunIds
BY DEF WkrTypeOK, LoopOK

\* A step of one task.
LEMMA TaskUpdate ==
    ASSUME WkrTypeOK, NEW t \in Tokens, NEW a, TaskOK(a), task' = [task EXCEPT ![t] = a]
    PROVE  /\ task' \in [Tokens -> Task]
           /\ \A u \in Tokens : TaskOK(task'[u])
BY DEF WkrTypeOK, TaskOK

\* Cancelling tasks (the heartbeat's answer, the watchdog) keeps their type.
LEMMA CancelType ==
    ASSUME WkrTypeOK, NEW C, NEW why \in BOOLEAN, task' = Cancel(C, why)
    PROVE  /\ task' \in [Tokens -> Task]
           /\ \A u \in Tokens : TaskOK(task'[u])
<1>1. StopMax \in 0..StopMax
    BY WorkerAssumption
<1>2. ASSUME NEW u \in Tokens
      PROVE  task'[u] \in Task /\ TaskOK(task'[u])
    <2>1. task[u] \in Task /\ TaskOK(task[u])
        BY <1>2 DEF WkrTypeOK, TaskOK
    <2>2. CASE u \in C /\ task[u].phase = "exec"
        <3>1. task'[u] = [task[u] EXCEPT !.phase = "stop", !.left = StopMax, !.timedOut = why]
            BY <1>2, <2>2 DEF Cancel
        <3>2. /\ task'[u] \in Task /\ task'[u].phase = "stop"
              /\ task'[u].w = task[u].w /\ task'[u].run = task[u].run
            BY <1>1, <2>1, <3>1 DEF Task, Phases
        <3> QED
            BY <2>1, <2>2, <3>2 DEF TaskOK
    <2>3. CASE ~(u \in C /\ task[u].phase = "exec")
        <3>1. task'[u] = task[u]
            BY <1>2, <2>3 DEF Cancel
        <3> QED
            BY <2>1, <3>1
    <2> QED
        BY <2>2, <2>3
<1>3. task' \in [Tokens -> Task]
    BY <1>2 DEF Cancel
<1> QED
    BY <1>2, <1>3

\* The type invariant after a step, from its parts.
LEMMA TypeAfter ==
    ASSUME wk' \in [Workers -> Loop],
           \A v \in Workers : wk'[v].pc \in {"claim", "claimed"} => wk'[v].run \in RunIds,
           running' \in [Workers -> [RunIds -> Tokens \cup {NoToken}]],
           task' \in [Tokens -> Task],
           \A u \in Tokens : TaskOK(task'[u])
    PROVE  WkrTypeOK'
BY DEF WkrTypeOK, TaskOK

\* A step that touches one loop and nothing else.
LEMMA LoopOnly ==
    ASSUME WkrTypeOK, NEW w \in Workers, NEW a, LoopOK(a), wk' = [wk EXCEPT ![w] = a],
           UNCHANGED <<running, task>>
    PROVE  WkrTypeOK'
<1>1. running' \in [Workers -> [RunIds -> Tokens \cup {NoToken}]]
    BY DEF WkrTypeOK
<1>2. task' \in [Tokens -> Task] /\ \A u \in Tokens : TaskOK(task'[u])
    BY DEF WkrTypeOK, TaskOK
<1> QED
    BY <1>1, <1>2, LoopUpdate, TypeAfter

\* A step that touches tasks and nothing else.
LEMMA TasksOnly ==
    ASSUME WkrTypeOK, UNCHANGED <<wk, running>>,
           task' \in [Tokens -> Task], \A u \in Tokens : TaskOK(task'[u])
    PROVE  WkrTypeOK'
BY DEF WkrTypeOK, TaskOK

\* The steps of the main loop that change nothing but the loop.
LEMMA LoopType ==
    ASSUME WkrTypeOK, NEW w \in Workers
    PROVE  /\ Registered(w) => WkrTypeOK'
           /\ RequestShutdown(w) => WkrTypeOK'
           /\ Exit(w) => WkrTypeOK'
           /\ SendHeartbeat(w) => WkrTypeOK'
           /\ HeartbeatFails(w) => WkrTypeOK'
           /\ \A r \in RunIds : SendClaim(w, r) => WkrTypeOK'
           /\ EndBeat(w) => WkrTypeOK'
           /\ ClaimFails(w) => WkrTypeOK'
<1>0. /\ wk[w] \in Loop /\ LoopOK(wk[w]) /\ Safety \in 0..Safety /\ RpcMax \in 0..RpcMax
      /\ wk[w].offers \in SUBSET RunIds
    BY WorkerAssumption DEF WkrTypeOK, LoopOK, Loop
<1>1. ASSUME Registered(w) PROVE WkrTypeOK'
    <2> DEFINE a == [wk[w] EXCEPT !.pc = "idle", !.deadline = Safety]
    <2>1. LoopOK(a)
        BY <1>0 DEF LoopOK, Loop, PCs
    <2>2. wk' = [wk EXCEPT ![w] = a] /\ UNCHANGED <<running, task>>
        BY <1>1 DEF Registered
    <2> QED
        BY <2>1, <2>2, LoopOnly
<1>2. ASSUME RequestShutdown(w) PROVE WkrTypeOK'
    <2> DEFINE a == [wk[w] EXCEPT !.shut = TRUE]
    <2>1. LoopOK(a)
        BY <1>0 DEF LoopOK, Loop
    <2>2. wk' = [wk EXCEPT ![w] = a] /\ UNCHANGED <<running, task>>
        BY <1>2 DEF RequestShutdown
    <2> QED
        BY <2>1, <2>2, LoopOnly
<1>3. ASSUME Exit(w) PROVE WkrTypeOK'
    <2>1. LoopOK(Down)
        BY WorkerConstants DEF LoopOK
    <2> QED
        BY <1>3, <2>1, LoopOnly DEF Exit
<1>4. ASSUME SendHeartbeat(w) PROVE WkrTypeOK'
    <2> DEFINE a == [wk[w] EXCEPT !.pc = "beat", !.sent = Safety, !.rpc = RpcMax,
                                  !.held = Leases(w)]
    <2>1. Leases(w) \in SUBSET (RunIds \X Tokens)
        BY DEF WkrTypeOK, Leases, Entries
    <2>2. LoopOK(a)
        BY <1>0, <2>1 DEF LoopOK, Loop, PCs
    <2>3. wk' = [wk EXCEPT ![w] = a] /\ UNCHANGED <<running, task>>
        BY <1>4 DEF SendHeartbeat
    <2> QED
        BY <2>2, <2>3, LoopOnly
<1>5. LoopOK(AfterCall(w, {})) /\ LoopOK(AfterCall(w, wk[w].offers))
    BY <1>0, AfterCallType DEF LoopOK
<1>6. HeartbeatFails(w) \/ EndBeat(w) \/ ClaimFails(w) => WkrTypeOK'
    BY <1>5, LoopOnly DEF HeartbeatFails, EndBeat, ClaimFails
<1>7. ASSUME NEW r \in RunIds, SendClaim(w, r) PROVE WkrTypeOK'
    <2> DEFINE a == [wk[w] EXCEPT !.pc = "claim", !.run = r, !.rpc = RpcMax,
                                  !.offers = wk[w].offers \ {r}]
    <2>1. LoopOK(a)
        BY <1>0 DEF LoopOK, Loop, PCs
    <2>2. wk' = [wk EXCEPT ![w] = a] /\ UNCHANGED <<running, task>>
        BY <1>7 DEF SendClaim
    <2> QED
        BY <2>1, <2>2, LoopOnly
<1> QED
    BY <1>1, <1>2, <1>3, <1>4, <1>6, <1>7

\* The two answers of the main loop: cancels, and a new task.
LEMMA AnswerType ==
    ASSUME WkrTypeOK, NEW w \in Workers
    PROVE  /\ ReceiveHeartbeat(w) => WkrTypeOK'
           /\ ReceiveClaim(w) => WkrTypeOK'
<1>0. /\ wk[w] \in Loop /\ wk[w].offers \in SUBSET RunIds /\ wk[w].sent \in 0..Safety
      /\ wk[w].ans.tok \in Tokens \cup {NoToken} /\ wk[w].ans.attempt \in Nat
      /\ wk[w].ans.job \in Jobs \cup {NoJob}
    BY DEF WkrTypeOK, Loop, Answer
<1>1. ASSUME ReceiveHeartbeat(w) PROVE WkrTypeOK'
    <2> DEFINE b == AfterCall(w, wk[w].offers)
               a == [b EXCEPT !.deadline = wk[w].sent]
    <2>1. b \in Loop /\ b.pc \in {"idle", "offers"}
        BY <1>0, AfterCallType
    <2> HIDE DEF b
    <2>2. LoopOK(a)
        BY <1>0, <2>1 DEF LoopOK, Loop
    <2>3. wk' = [wk EXCEPT ![w] = a] /\ running' = running
          /\ task' = Cancel(TrackedOf(w, wk[w].cancel), FALSE)
        BY <1>1 DEF ReceiveHeartbeat, b
    <2>4. running' \in [Workers -> [RunIds -> Tokens \cup {NoToken}]]
        BY <2>3 DEF WkrTypeOK
    <2> HIDE DEF a
    <2> QED
        BY <2>2, <2>3, <2>4, CancelType, LoopUpdate, TypeAfter
<1>2. ASSUME ReceiveClaim(w) PROVE WkrTypeOK'
    <2> DEFINE t == wk[w].ans.tok
               r == wk[w].run
               a == [NoTask EXCEPT !.phase = "exec", !.w = w, !.run = r,
                                   !.job = wk[w].ans.job, !.attempt = wk[w].ans.attempt]
    <2>1. /\ LoopOK(AfterCall(w, wk[w].offers)) /\ r \in RunIds
          /\ wk' = [wk EXCEPT ![w] = AfterCall(w, wk[w].offers)]
        BY <1>0, <1>2, AfterCallType DEF LoopOK, ReceiveClaim, WkrTypeOK
    <2>2. CASE t = NoToken
        BY <1>2, <2>1, <2>2, LoopOnly DEF ReceiveClaim
    <2>3. CASE t # NoToken
        <3>1. t \in Tokens
            BY <1>0, <2>3
        <3>2. TaskOK(a)
            BY <1>0, <2>1, WorkerConstants DEF TaskOK, Task, Phases, NoTask
        <3>3. running' = [running EXCEPT ![w][r] = t] /\ task' = [task EXCEPT ![t] = a]
            BY <1>2, <2>3 DEF ReceiveClaim
        <3>4. running' \in [Workers -> [RunIds -> Tokens \cup {NoToken}]]
            BY <2>1, <3>1, <3>3 DEF WkrTypeOK
        <3> HIDE DEF a
        <3> QED
            BY <2>1, <3>1, <3>2, <3>3, <3>4, TaskUpdate, LoopUpdate, TypeAfter
    <2> QED
        BY <2>2, <2>3
<1> QED
    BY <1>1, <1>2

\* The steps of a task: it finishes, its report fails, it is over.
LEMMA TaskType ==
    ASSUME WkrTypeOK, NEW t \in Tokens
    PROVE  /\ \A result \in Reports : Finish(t, result) => WkrTypeOK'
           /\ OrphanEnds(t) => WkrTypeOK'
           /\ task[t].phase = "report" /\ EndTask(t) => WkrTypeOK'
           /\ ReportFails(t) => WkrTypeOK'
<1>0. task[t] \in Task /\ TaskOK(task[t]) /\ TaskOK(Over)
    BY WorkerConstants DEF WkrTypeOK, TaskOK
<1>1. ASSUME NEW result \in Reports, Finish(t, result) PROVE WkrTypeOK'
    <2> DEFINE a == [task[t] EXCEPT !.phase = "report", !.result = result, !.left = 0]
    <2>1. 0 \in 0..StopMax
        BY WorkerAssumption
    <2>2. task[t].phase \in {"exec", "stop"}
        BY <1>1 DEF Finish
    <2>3. /\ a \in Task /\ a.phase = "report" /\ a.result = result
          /\ a.w = task[t].w /\ a.run = task[t].run
        BY <1>0, <1>1, <2>1 DEF Task, Phases
    <2>4. task' = [task EXCEPT ![t] = a] /\ UNCHANGED <<wk, running>>
        BY <1>1 DEF Finish
    <2> HIDE DEF a
    <2>5. TaskOK(a)
        BY <1>0, <1>1, <2>2, <2>3 DEF TaskOK
    <2> QED
        BY <2>4, <2>5, TaskUpdate, TasksOnly
<1>2. OrphanEnds(t) => WkrTypeOK'
    BY <1>0, TaskUpdate, TasksOnly DEF OrphanEnds
<1>3. ASSUME task[t].phase = "report", EndTask(t) PROVE WkrTypeOK'
    <2>1. task[t].w \in Workers /\ task[t].run \in RunIds
        BY <1>0, <1>3 DEF TaskOK
    <2>2. running' \in [Workers -> [RunIds -> Tokens \cup {NoToken}]]
        BY <1>3, <2>1 DEF EndTask, WkrTypeOK
    <2>3. /\ wk' \in [Workers -> Loop]
          /\ \A v \in Workers : wk'[v].pc \in {"claim", "claimed"} => wk'[v].run \in RunIds
        BY <1>3 DEF EndTask, WkrTypeOK
    <2> QED
        BY <1>0, <1>3, <2>2, <2>3, TaskUpdate, TypeAfter DEF EndTask
<1>4. ASSUME ReportFails(t) PROVE WkrTypeOK'
    <2>1. CASE task[t].tries + 1 = MaxReports
        BY <1>3, <1>4, <2>1 DEF ReportFails
    <2>2. CASE task[t].tries + 1 # MaxReports
        <3> DEFINE n == task[t].tries + 1
                   a == [task[t] EXCEPT !.tries = n]
        <3>1. n \in 0..(MaxReports - 1)
            BY <1>0, <2>2, WorkerAssumption DEF Task
        <3>2. task' = [task EXCEPT ![t] = a] /\ UNCHANGED <<wk, running>>
            BY <1>4, <2>2 DEF ReportFails
        <3> HIDE DEF n
        <3>3. TaskOK(a)
            BY <1>0, <3>1 DEF Task, TaskOK
        <3> HIDE DEF a
        <3> QED
            BY <3>2, <3>3, TaskUpdate, TasksOnly
    <2> QED
        BY <2>1, <2>2
<1> QED
    BY <1>1, <1>2, <1>3, <1>4

\* The watchdog, a crash and the clock.
LEMMA ProcessType ==
    ASSUME WkrTypeOK
    PROVE  /\ \A w \in Workers : Watchdog(w) => WkrTypeOK'
           /\ \A w \in Workers : \A b \in BOOLEAN : Crash(w, b) => WkrTypeOK'
           /\ WkrTick => WkrTypeOK'
<1>1. ASSUME NEW w \in Workers, Watchdog(w) PROVE WkrTypeOK'
    <2>1. task' = Cancel(TrackedOf(w, RunIds), TRUE) /\ UNCHANGED <<wk, running>>
        BY <1>1 DEF Watchdog
    <2> QED
        BY <2>1, CancelType, TasksOnly
<1>2. ASSUME NEW w \in Workers, NEW b \in BOOLEAN, Crash(w, b) PROVE WkrTypeOK'
    <2>1. LoopOK(Down) /\ TaskOK(Over) /\ 0 \in 0..StopMax
        BY WorkerConstants, WorkerAssumption DEF LoopOK, TaskOK
    <2>2. running' \in [Workers -> [RunIds -> Tokens \cup {NoToken}]]
        BY <1>2 DEF Crash, WkrTypeOK
    <2>3. ASSUME NEW u \in Tokens PROVE TaskOK(task'[u])
        <3>1. task[u] \in Task /\ TaskOK(task[u])
            BY <2>3 DEF WkrTypeOK, TaskOK
        <3>2. CASE b /\ task[u].w = w /\ task[u].phase \in {"exec", "stop"}
            <4>1. task'[u] = [task[u] EXCEPT !.phase = "orphan", !.left = 0]
                BY <1>2, <2>3, <3>2 DEF Crash
            <4> QED
                BY <2>1, <3>1, <3>2, <4>1 DEF TaskOK, Task, Phases
        <3>3. task'[u] = task[u] => TaskOK(task'[u])
            BY <3>1
        <3>4. task'[u] = Over => TaskOK(task'[u])
            BY <2>1
        <3> QED
            BY <1>2, <2>3, <3>2, <3>3, <3>4 DEF Crash
    <2>4. task' \in [Tokens -> Task]
        BY <1>2, <2>3 DEF Crash, TaskOK
    <2> QED
        BY <1>2, <2>1, <2>2, <2>3, <2>4, LoopUpdate, TypeAfter DEF Crash
<1>3. ASSUME WkrTick PROVE WkrTypeOK'
    <2>1. ASSUME NEW n \in Nat, NEW m \in 0..n PROVE Sooner(m) \in 0..n
        BY <2>1 DEF Sooner
    <2>2. ASSUME NEW w \in Workers PROVE LoopOK(wk'[w])
        <3>1. wk[w] \in Loop /\ LoopOK(wk[w])
            BY <2>2 DEF WkrTypeOK, LoopOK
        <3>2. /\ Sooner(wk[w].deadline) \in 0..Safety /\ Sooner(wk[w].sent) \in 0..Safety
              /\ Sooner(wk[w].rpc) \in 0..RpcMax
            BY <2>1, <3>1, WorkerAssumption DEF Loop
        <3>3. wk'[w] = [wk[w] EXCEPT !.deadline = Sooner(wk[w].deadline),
                                     !.sent = Sooner(wk[w].sent), !.rpc = Sooner(wk[w].rpc)]
            BY <1>3, <2>2 DEF WkrTick
        <3>4. \A d \in 0..Safety, s \in 0..Safety, p \in 0..RpcMax :
                LoopOK([wk[w] EXCEPT !.deadline = d, !.sent = s, !.rpc = p])
            BY <3>1 DEF LoopOK, Loop
        <3> QED
            BY <3>2, <3>3, <3>4
    <2>3. ASSUME NEW u \in Tokens PROVE TaskOK(task'[u])
        <3>1. task[u] \in Task /\ TaskOK(task[u])
            BY <2>3 DEF WkrTypeOK, TaskOK
        <3>2. Sooner(task[u].left) \in 0..StopMax
            BY <2>1, <3>1, WorkerAssumption DEF Task
        <3>3. task'[u] = [task[u] EXCEPT !.left = Sooner(task[u].left)]
            BY <1>3, <2>3 DEF WkrTick
        <3>4. \A n \in 0..StopMax : TaskOK([task[u] EXCEPT !.left = n])
            BY <3>1 DEF TaskOK, Task
        <3> QED
            BY <3>2, <3>3, <3>4
    <2>4. wk' \in [Workers -> Loop] /\ task' \in [Tokens -> Task]
        BY <1>3, <2>2, <2>3 DEF WkrTick, LoopOK, TaskOK
    <2>5. running' \in [Workers -> [RunIds -> Tokens \cup {NoToken}]]
        BY <1>3 DEF WkrTick, WkrTypeOK
    <2> QED
        BY <2>2, <2>3, <2>4, <2>5, TypeAfter DEF LoopOK
<1> QED
    BY <1>1, <1>2, <1>3

-----------------------------------------------------------------------------
(* Manager and workers together.                                            *)

Base == TypeOK /\ TableInv /\ OneActivePerJob

\* A finished row stays as it is.
TerminalStays == \A r \in RunIds : runs[r].st \in Terminal => runs'[r].st = runs[r].st

\* What every step does to the manager's table.
TableStep == TableInv' /\ OneActivePerJob' /\ TerminalStays

-----------------------------------------------------------------------------
\* Where no lease begins, a job does not get a second one.
LEMMA QuietStep ==
    ASSUME TableInv, OneActivePerJob, TableInv', Quiet
    PROVE  TableStep
<1>1. TerminalStays
    BY DEF Quiet, RowQuiet, TerminalStays
<1>2. ASSUME NEW j \in Jobs, NEW r \in one_active_run_per_job(runs, j)',
             NEW q \in one_active_run_per_job(runs, j)'
      PROVE  r = q
    <2>1. ASSUME NEW x \in one_active_run_per_job(runs, j)'
          PROVE  x \in one_active_run_per_job(runs, j)
        <3>1. x \in RunIds /\ runs'[x].st \in Active /\ runs'[x].job = j
            BY DEF one_active_run_per_job, RowsOf
        <3>2. runs[x].st \in Active /\ runs[x].job = j
            BY <3>1 DEF Quiet, RowQuiet
        <3> QED
            BY <3>1, <3>2, StatusFacts DEF one_active_run_per_job, RowsOf
    <2> QED
        BY <1>2, <2>1 DEF OneActivePerJob
<1> QED
    BY <1>1, <1>2 DEF TableStep, OneActivePerJob

\* A claim is granted only to a job without a claimed run.
LEMMA ClaimTableStep ==
    ASSUME TableInv, OneActivePerJob, NEW w \in Workers, NEW r \in RunIds, claim(w, r)
    PROVE  TableStep
<1>1. TableInv'
    BY ClaimStep
<1>2. CASE ~ClaimGranted(w, r)
    <2>1. UNCHANGED runs
        BY <1>2, ClaimStep
    <2>2. Quiet
        BY <2>1, RowSame DEF Quiet, TableInv, MgrTypeOK
    <2> QED
        BY <1>1, <2>2, QuietStep
<1>3. CASE ClaimGranted(w, r)
    <2>1. /\ runs[r].st = "QUEUED" /\ one_active_run_per_job(runs, runs[r].job) = {}
          /\ runs'[r].job = runs[r].job /\ \A q \in RunIds \ {r} : runs'[q] = runs[q]
        BY <1>3, ClaimStep DEF Claimed
    <2>2. TerminalStays
        BY <2>1, StatusFacts DEF TerminalStays
    <2>3. ASSUME NEW j \in Jobs, NEW x \in one_active_run_per_job(runs, j)',
                 NEW q \in one_active_run_per_job(runs, j)'
          PROVE  x = q
        <3>1. \A y \in one_active_run_per_job(runs, j)' :
                 y # r => y \in one_active_run_per_job(runs, j)
            BY <2>1 DEF one_active_run_per_job, RowsOf
        <3>2. CASE j = runs[r].job
            BY <2>1, <2>3, <3>1, <3>2
        <3>3. CASE j # runs[r].job
            <4>1. x # r /\ q # r
                BY <2>1, <2>3, <3>3 DEF one_active_run_per_job, RowsOf
            <4> QED
                BY <2>3, <3>1, <4>1 DEF OneActivePerJob
        <3> QED
            BY <3>2, <3>3
    <2> QED
        BY <1>1, <2>2, <2>3 DEF TableStep, OneActivePerJob
<1> QED
    BY <1>2, <1>3

\* The other ways a step of the cluster touches the manager's table.
LEMMA OtherTableSteps ==
    ASSUME TableInv, OneActivePerJob
    PROVE  /\ Calm => TableStep
           /\ UNCHANGED mgrVars => Calm /\ nextTok' = nextTok
           /\ MgrTick => TableStep
           /\ \A w \in Workers, r \in RunIds, t \in Tokens, n \in Nat, e \in Reports :
                complete(w, r, t, n, e) => TableStep
<1>1. Calm => TableStep
    BY QuietStep DEF Calm
<1>2. ASSUME UNCHANGED mgrVars PROVE Calm /\ nextTok' = nextTok
    <2>1. MgrTypeOK' /\ UNCHANGED <<runs, nextId, reaped, nextTok>>
        BY <1>2 DEF mgrVars, TableInv, MgrTypeOK
    <2> QED
        BY <2>1, CalmUnchanged
<1>3. MgrTick => TableStep
    BY TickStep, QuietStep
<1>4. ASSUME NEW w \in Workers, NEW r \in RunIds, NEW t \in Tokens, NEW n \in Nat,
             NEW e \in Reports, complete(w, r, t, n, e)
      PROVE  TableStep
    BY <1>4, CompleteStep, QuietStep DEF Reports
<1> QED
    BY <1>1, <1>2, <1>3, <1>4

-----------------------------------------------------------------------------
\* A step of the manager alone that begins and ends no lease.
CalmStep == Calm /\ nextTok' = nextTok

\* The reaper, the dispatcher, the scheduler, retries, operators, reloads and
\* restarts of the manager leave the leases and the workers alone.
LEMMA ManagerSteps ==
    ASSUME Base,
           Reaper \/ Schedule \/ Retry \/ Dispatcher \/ Operator \/ Reload \/ RestartManager
    PROVE  CalmStep /\ UNCHANGED <<wkrVars, late>>
<1>0. TableInv /\ OneActivePerJob
    BY DEF Base
<1>1. CASE Reaper
    <2>1. nextTok' = nextTok
        BY <1>1 DEF Reaper, ReaperExpire, ReaperFinish
    <2> QED
        BY <1>0, <1>1, <2>1, ReaperExpireCalm, ReaperFinishCalm DEF Reaper, CalmStep
<1>2. CASE Schedule
    <2>1. PICK j \in Jobs : DispatchCheck(j, "sched")
        BY <1>2 DEF Schedule
    <2>2. Calm
        BY <1>0, <2>1, DispatchCalm DEF Kinds
    <2> QED
        BY <1>2, <2>1, <2>2 DEF Schedule, DispatchCheck, CalmStep
<1>3. CASE Retry
    <2>1. PICK r \in RunIds : retry_tick(r)
        BY <1>3 DEF Retry
    <2>2. Calm
        BY <1>0, <2>1, RequestCalm
    <2> QED
        BY <1>3, <2>1, <2>2 DEF Retry, retry_tick, CalmStep
<1>4. CASE Dispatcher
    <2>1. PICK j \in Jobs, k \in Kinds : DispatchLock(j, k) \/ DispatchInsert(j, k)
        BY <1>4 DEF Dispatcher
    <2>2. Calm
        BY <1>0, <2>1, DispatchCalm
    <2> QED
        BY <1>4, <2>1, <2>2 DEF Dispatcher, DispatchLock, DispatchInsert, CalmStep
<1>5. CASE Operator
    <2>1. CASE \E j \in Jobs : DispatchCheck(j, "forced")
        <3>1. PICK j \in Jobs : DispatchCheck(j, "forced")
            BY <2>1
        <3>2. Calm
            BY <1>0, <3>1, DispatchCalm DEF Kinds
        <3> QED
            BY <1>5, <3>1, <3>2 DEF Operator, DispatchCheck, CalmStep
    <2>2. CASE \E j \in Jobs : stop_run(j)
        <3>1. Calm
            BY <1>0, <2>2, RequestCalm
        <3> QED
            BY <1>5, <2>2, <3>1 DEF Operator, stop_run, CalmStep
    <2>3. CASE \E w \in Workers : drain(w)
        <3>1. Calm
            BY <1>0, <2>3, LifecycleCalm
        <3> QED
            BY <1>5, <2>3, <3>1 DEF Operator, drain, CalmStep
    <2> QED
        BY <1>5, <2>1, <2>2, <2>3 DEF Operator
<1>6. CASE Reload
    <2>1. PICK j \in Jobs, c \in {"enabled", "disabled"} : reload(j, c)
        BY <1>6 DEF Reload
    <2>2. Calm
        BY <1>0, <2>1, RequestCalm
    <2> QED
        BY <1>6, <2>1, <2>2 DEF Reload, reload, CalmStep
<1>7. CASE RestartManager
    <2>1. Calm
        BY <1>0, <1>7, RestartCalm DEF RestartManager
    <2> QED
        BY <1>7, <2>1 DEF RestartManager, ManagerRestart, CalmStep
<1> QED
    BY <1>1, <1>2, <1>3, <1>4, <1>5, <1>6, <1>7

\* The manager's part of the calls that begin and end no lease.
LEMMA CallsCalm ==
    ASSUME Base, NEW w \in Workers, NEW held
    PROVE  /\ UNCHANGED mgrVars => CalmStep
           /\ heartbeat(w, held) => CalmStep
           /\ register(w) \/ worker_shutdown(w) \/ unregister(w) => CalmStep
<1>0. TableInv /\ OneActivePerJob
    BY DEF Base
<1>1. UNCHANGED mgrVars => CalmStep
    BY <1>0, OtherTableSteps DEF CalmStep
<1>2. ASSUME heartbeat(w, held) PROVE CalmStep
    BY <1>0, <1>2, HeartbeatCalm DEF heartbeat, CalmStep
<1>3. ASSUME register(w) \/ worker_shutdown(w) \/ unregister(w) PROVE CalmStep
    <2>1. nextTok' = nextTok
        BY <1>3 DEF register, worker_shutdown, unregister
    <2> QED
        BY <1>0, <1>3, <2>1, LifecycleCalm DEF CalmStep
<1> QED
    BY <1>1, <1>2, <1>3

\* The requests that stay behind have their type.
LEMMA RequestsType ==
    ASSUME Base
    PROVE  /\ \A w \in Workers : Pending(w) \subseteq Request
           /\ \A t \in Tokens : task[t].phase = "report" => Completion(t) \in Request
<1>1. ASSUME NEW w \in Workers PROVE Pending(w) \subseteq Request
    <2>1. wk[w] \in Loop /\ (wk[w].pc = "claim" => wk[w].run \in RunIds)
        BY DEF Base, TypeOK, WkrTypeOK
    <2>2. wk[w].held \in SUBSET (RunIds \X Tokens)
        BY <2>1 DEF Loop
    <2>3. CASE wk[w].pc = "beat"
        <3>1. Pending(w) = {[kind |-> "heartbeat", w |-> w, held |-> wk[w].held]}
            BY <2>3 DEF Pending
        <3>2. [kind |-> "heartbeat", w |-> w, held |-> wk[w].held] \in Request
            BY <2>2 DEF Request
        <3> QED
            BY <3>1, <3>2
    <2>4. CASE wk[w].pc = "claim"
        <3>1. Pending(w) = {[kind |-> "claim", w |-> w, run |-> wk[w].run]}
            BY <2>4 DEF Pending
        <3>2. [kind |-> "claim", w |-> w, run |-> wk[w].run] \in Request
            BY <2>1, <2>4 DEF Request
        <3> QED
            BY <3>1, <3>2
    <2>5. CASE wk[w].pc \notin {"beat", "claim"}
        BY <2>5 DEF Pending
    <2> QED
        BY <2>3, <2>4, <2>5
<1>2. ASSUME NEW t \in Tokens, task[t].phase = "report" PROVE Completion(t) \in Request
    <2>1. /\ task[t].w \in Workers /\ task[t].run \in RunIds /\ task[t].result \in Reports
          /\ task[t].attempt \in Nat
        BY <1>2 DEF Base, TypeOK, WkrTypeOK, Task
    <2> QED
        BY <2>1 DEF Completion, Request
<1> QED
    BY <1>1, <1>2

\* The steps of the workers: process life, the loop's own steps, tasks.
WorkerStep == \/ \E w \in Workers : \/ LoopStep(w)
                                    \/ WatchdogStep(w)
                                    \/ HandleHeartbeat(w)
                                    \/ Fail(w, FALSE)
                                    \/ \E b \in BOOLEAN : \/ Register(w, b)
                                                          \/ Leave(w, b)
                                                          \/ Shutdown(w, b)
                                                          \/ CallFails(w, b)
              \/ \E t \in Tokens : TaskStep(t) \/ \E b \in BOOLEAN : ReportLost(t, b)

\* They keep the types, and begin and end no lease.
LEMMA WorkerSteps ==
    ASSUME Base, WorkerStep
    PROVE  CalmStep /\ WkrTypeOK' /\ late' \subseteq Request
<1>0. TableInv /\ OneActivePerJob /\ WkrTypeOK /\ late \subseteq Request
    BY DEF Base, TypeOK
<1>1. ASSUME NEW w \in Workers, LoopStep(w)
      PROVE  CalmStep /\ WkrTypeOK' /\ late' \subseteq Request
    <2>1. WkrTypeOK'
        BY <1>0, <1>1, LoopType, AnswerType DEF LoopStep
    <2> QED
        BY <1>0, <1>1, <2>1, CallsCalm DEF LoopStep
<1>2. ASSUME NEW w \in Workers, WatchdogStep(w) \/ Fail(w, FALSE)
      PROVE  CalmStep /\ WkrTypeOK' /\ late' \subseteq Request
    BY <1>0, <1>2, CallsCalm, ProcessType DEF WatchdogStep, Fail
<1>3. ASSUME NEW w \in Workers, HandleHeartbeat(w)
      PROVE  CalmStep /\ WkrTypeOK' /\ late' \subseteq Request
    <2>1. CalmStep /\ UNCHANGED <<running, task, late>>
        BY <1>3, CallsCalm DEF HandleHeartbeat
    <2>2. PICK c \in CancelRuns(w) :
            wk' = [wk EXCEPT ![w] = [wk[w] EXCEPT !.pc = "beaten", !.held = {},
                                           !.cancel = InvalidRuns(w, wk[w].held) \cup c,
                                           !.offers = Offers(w)]]
        BY <1>3 DEF HandleHeartbeat
    <2> DEFINE C == InvalidRuns(w, wk[w].held) \cup c
               O == Offers(w)
    <2>3. C \in SUBSET RunIds /\ O \in SUBSET RunIds
        <3>1. wk[w].held \in SUBSET (RunIds \X Tokens)
            BY <1>0 DEF WkrTypeOK, Loop
        <3>2. InvalidRuns(w, wk[w].held) \in SUBSET RunIds
            BY <3>1 DEF InvalidRuns
        <3>3. c \in SUBSET RunIds
            BY <2>2 DEF CancelRuns, cancelling_runs_of
        <3> QED
            BY <3>2, <3>3 DEF Offers, assigned_runs
    <2> DEFINE a == [wk[w] EXCEPT !.pc = "beaten", !.held = {}, !.cancel = C, !.offers = O]
    <2>4. wk' = [wk EXCEPT ![w] = a]
        BY <2>2
    <2> HIDE DEF C, O
    <2>5. wk[w] \in Loop
        BY <1>0 DEF WkrTypeOK
    <2>6. LoopOK(a)
        BY <2>3, <2>5 DEF LoopOK, Loop, PCs
    <2> HIDE DEF a
    <2> QED
        BY <1>0, <2>1, <2>4, <2>6, LoopOnly
<1>4. ASSUME NEW w \in Workers, NEW b \in BOOLEAN,
             Register(w, b) \/ Leave(w, b) \/ Shutdown(w, b)
      PROVE  CalmStep /\ WkrTypeOK' /\ late' \subseteq Request
    <2>1. UNCHANGED wkrVars => WkrTypeOK'
        BY <1>0 DEF wkrVars, WkrTypeOK
    <2>2. WkrTypeOK' /\ late' = late
        BY <1>0, <1>4, <2>1, LoopType DEF Register, Leave, Shutdown
    <2>3. CalmStep
        BY <1>4, CallsCalm DEF Register, Leave, Shutdown
    <2> QED
        BY <1>0, <2>2, <2>3
<1>5. ASSUME NEW w \in Workers, NEW b \in BOOLEAN, CallFails(w, b)
      PROVE  CalmStep /\ WkrTypeOK' /\ late' \subseteq Request
    <2>1. WkrTypeOK' /\ CalmStep
        BY <1>0, <1>5, LoopType, CallsCalm DEF CallFails
    <2> QED
        BY <1>0, <1>5, <2>1, RequestsType DEF CallFails
<1>6. ASSUME NEW t \in Tokens, TaskStep(t)
      PROVE  CalmStep /\ WkrTypeOK' /\ late' \subseteq Request
    <2>1. CalmStep
        BY <1>6, OtherTableSteps, <1>0 DEF TaskStep, CalmStep
    <2> QED
        BY <1>0, <1>6, <2>1, TaskType DEF TaskStep
<1>7. ASSUME NEW t \in Tokens, NEW b \in BOOLEAN, ReportLost(t, b)
      PROVE  CalmStep /\ WkrTypeOK' /\ late' \subseteq Request
    <2>1. CalmStep /\ WkrTypeOK'
        BY <1>7, OtherTableSteps, <1>0, TaskType DEF ReportLost, CalmStep
    <2>2. task[t].phase = "report"
        BY <1>7 DEF ReportLost, ReportFails
    <2> QED
        BY <1>0, <1>7, <2>1, <2>2, RequestsType DEF ReportLost
<1> QED
    BY <1>1, <1>2, <1>3, <1>4, <1>5, <1>6, <1>7 DEF WorkerStep

\* The steps that begin a lease, end one or shorten them all.
LeaseStep == \/ \E w \in Workers : HandleClaim(w)
             \/ \E t \in Tokens, b \in BOOLEAN : Report(t, b)
             \/ \E m \in late : Late(m)
             \/ Tick

\* They keep the types and the table's invariant.
LEMMA LeaseSteps ==
    ASSUME Base, LeaseStep
    PROVE  TableStep /\ WkrTypeOK' /\ late' \subseteq Request
<1>0. TableInv /\ OneActivePerJob /\ WkrTypeOK /\ late \subseteq Request
    BY DEF Base, TypeOK
<1>1. ASSUME NEW w \in Workers, HandleClaim(w)
      PROVE  TableStep /\ WkrTypeOK' /\ late' \subseteq Request
    <2> DEFINE r == wk[w].run
               b == ClaimAnswer(w, r)
               a == [wk[w] EXCEPT !.pc = "claimed", !.ans = b]
    <2>1. r \in RunIds /\ wk[w] \in Loop
        BY <1>0, <1>1 DEF HandleClaim, WkrTypeOK
    <2>2. TableStep
        BY <1>0, <1>1, <2>1, ClaimTableStep DEF HandleClaim
    <2>3. b \in Answer
        <3>1. runs[r].retry \in Nat /\ runs[r].job \in Jobs \cup {NoJob}
            BY <1>0, <2>1 DEF TableInv, MgrTypeOK, Row
        <3> QED
            BY <3>1, WorkerConstants DEF ClaimAnswer, ClaimGranted, Answer
    <2>4. wk' = [wk EXCEPT ![w] = a] /\ UNCHANGED <<running, task, late>>
        BY <1>1 DEF HandleClaim
    <2> HIDE DEF b
    <2>5. LoopOK(a)
        BY <2>1, <2>3 DEF LoopOK, Loop, PCs
    <2> HIDE DEF a
    <2> QED
        BY <1>0, <2>2, <2>4, <2>5, LoopOnly
<1>2. ASSUME NEW t \in Tokens, NEW b \in BOOLEAN, Report(t, b)
      PROVE  TableStep /\ WkrTypeOK' /\ late' \subseteq Request
    <2>1. /\ task[t].phase = "report" /\ late' = late
          /\ complete(task[t].w, task[t].run, t, task[t].attempt, task[t].result)
          /\ EndTask(t) \/ ReportFails(t)
        BY <1>2 DEF Report, Reported, Completion
    <2>2. /\ task[t].w \in Workers /\ task[t].run \in RunIds /\ task[t].result \in Reports
          /\ task[t].attempt \in Nat
        BY <1>0, <2>1 DEF WkrTypeOK, Task
    <2>3. TableStep
        BY <1>0, <2>1, <2>2, OtherTableSteps
    <2> QED
        BY <1>0, <2>1, <2>3, TaskType
<1>3. ASSUME NEW m \in late, Late(m)
      PROVE  TableStep /\ WkrTypeOK' /\ late' \subseteq Request
    <2>1. WkrTypeOK' /\ late' \subseteq Request
        BY <1>0, <1>3 DEF Late, wkrVars, WkrTypeOK
    <2>2. m \in Request
        BY <1>0
    <2>3. CASE m.kind = "heartbeat" /\ heartbeat(m.w, m.held)
        BY <1>0, <2>1, <2>2, <2>3, CallsCalm, OtherTableSteps DEF Request, CalmStep
    <2>4. CASE m.kind = "claim" /\ claim(m.w, m.run)
        BY <1>0, <2>1, <2>2, <2>4, ClaimTableStep DEF Request
    <2>5. CASE m.kind = "complete" /\ Reported(m)
        BY <1>0, <2>1, <2>2, <2>5, OtherTableSteps DEF Request, Reported
    <2> QED
        BY <1>3, <2>3, <2>4, <2>5 DEF Late
<1>4. CASE Tick
    BY <1>0, <1>4, OtherTableSteps, ProcessType DEF Tick
<1> QED
    BY <1>1, <1>2, <1>3, <1>4 DEF LeaseStep

\* Every step is one of the manager alone, of the workers, or of a lease.
LEMMA NextCases ==
    Next <=> \/ Reaper \/ Schedule \/ Retry \/ Dispatcher \/ Operator \/ Reload \/ RestartManager
             \/ WorkerStep \/ LeaseStep
BY DEF Next, Progress, Operations, Faults, WorkerStep, LeaseStep

\* Every step preserves Base and leaves finished rows alone.
LEMMA BaseStep ==
    ASSUME Base, [Next]_vars
    PROVE  Base' /\ TerminalStays
<1>0. TableInv /\ OneActivePerJob /\ WkrTypeOK /\ late \subseteq Request
    BY DEF Base, TypeOK
<1>1. SUFFICES TableStep /\ WkrTypeOK' /\ late' \subseteq Request
    BY DEF TableStep, TableInv, Base, TypeOK
<1>2. CASE UNCHANGED vars
    <2>1. WkrTypeOK' /\ late' \subseteq Request
        BY <1>0, <1>2 DEF vars, wkrVars, WkrTypeOK
    <2> QED
        BY <1>0, <1>2, <2>1, OtherTableSteps DEF vars
<1>3. CASE Reaper \/ Schedule \/ Retry \/ Dispatcher \/ Operator \/ Reload \/ RestartManager
    <2>1. CalmStep /\ UNCHANGED <<wkrVars, late>>
        BY <1>3, ManagerSteps
    <2>2. WkrTypeOK'
        BY <1>0, <2>1 DEF wkrVars, WkrTypeOK
    <2> QED
        BY <1>0, <2>1, <2>2, OtherTableSteps DEF CalmStep
<1>4. CASE WorkerStep
    BY <1>0, <1>4, WorkerSteps, OtherTableSteps DEF CalmStep
<1>5. CASE LeaseStep
    BY <1>5, LeaseSteps
<1> QED
    BY <1>2, <1>3, <1>4, <1>5, NextCases

\* The initial tables are empty.
LEMMA BaseInit ==
    Init => Base
<1> SUFFICES ASSUME Init PROVE Base
    OBVIOUS
<1>1. NoRow \in Row /\ NoRow.st = "ABSENT" /\ NoRow.token = NoToken
    BY StoreAssumption, StatusFacts DEF NoRow, Row, NoToken
<1>2. 1 \in 1..(MaxRuns + 1) /\ 1 \in 1..(MaxTokens + 1) /\ 0 \in 0..(Grace + 1)
    BY StoreAssumption, ManagerAssumption
<1>3. MgrTypeOK
    BY <1>1, <1>2 DEF Init, MgrInit, MgrTypeOK, WStatus
<1>4. FreshRows /\ RowsHaveJobs /\ ReapedRows
    BY <1>1 DEF Init, MgrInit, FreshRows, RowsHaveJobs, ReapedRows
<1>5. OneActivePerJob
    BY <1>1 DEF Init, MgrInit, OneActivePerJob, one_active_run_per_job, RowsOf
<1>6. WkrTypeOK
    BY WorkerConstants DEF Init, WkrInit, WkrTypeOK, NoToken
<1> QED
    BY <1>3, <1>4, <1>5, <1>6 DEF Init, Base, TypeOK, TableInv

-----------------------------------------------------------------------------
\* Every variable keeps its type: the manager's tables under every handler,
\* reaper pass and late request, and the worker's loop and tasks under every
\* answer and failure.
THEOREM TypeCorrect == Spec => []TypeOK
<1>1. Base /\ [Next]_vars => Base'
    BY BaseStep
<1>2. Base => TypeOK
    BY DEF Base
<1> QED
    BY BaseInit, <1>1, <1>2, PTL DEF Spec

\* A job never has two claimed runs (claim_run and its unique index), with
\* CANCELLING runs, retries, requeues and late claims included.
THEOREM OneActive == Spec => []OneActivePerJob
<1>1. Base /\ [Next]_vars => Base'
    BY BaseStep
<1>2. Base => OneActivePerJob
    BY DEF Base
<1> QED
    BY BaseInit, <1>1, <1>2, PTL DEF Spec

\* A finished row never changes again, whatever comes late (the fence of
\* finish_active_run_fenced, the WHERE clauses of claim_run and expire_run).
THEOREM TerminalFinal == Spec => TerminalIsFinal
<1>1. Base /\ [Next]_vars => Base'
    BY BaseStep
<1>2. Base /\ [Next]_vars => [\A r \in RunIds : runs[r].st \in Terminal /\ runs'[r].st # "ABSENT"
                                => runs'[r].st = runs[r].st]_vars
    BY BaseStep DEF TerminalStays
<1> QED
    BY BaseInit, <1>1, <1>2, PTL DEF Spec, TerminalIsFinal

-----------------------------------------------------------------------------
(* Jobs that leave the configuration and providers that outlive their       *)
(* worker.                                                                  *)

\* The two steps beyond Next keep the types and the table's invariant, and a
\* finished row is left alone or deleted.
LEMMA BeyondStep ==
    ASSUME Base, Beyond
    PROVE  Base' /\ \A r \in RunIds : runs[r].st \in Terminal => runs'[r].st \in {runs[r].st, "ABSENT"}
<1>0. TableInv /\ OneActivePerJob /\ WkrTypeOK /\ late \subseteq Request
    BY DEF Base, TypeOK
<1>1. CASE Redefine
    <2>1. PICK j \in Jobs, c \in {"enabled", "absent"} : reload(j, c)
        BY <1>1 DEF Redefine
    <2>2. /\ TableInv'
          /\ \A r \in RunIds :
                \/ runs'[r] = runs[r]
                \/ runs'[r].st \in {"ABSENT", "CANCELLED"}
                   /\ (runs'[r].st = "CANCELLED" => runs[r].st \in {"QUEUED", "RETRYING"})
        BY <1>0, <2>1, RedefineRows
    <2>3. OneActivePerJob'
        <3>1. \A r \in RunIds : runs'[r].st \in Active => runs'[r] = runs[r]
            BY <2>2, StatusFacts
        <3>2. \A j2 \in Jobs : one_active_run_per_job(runs, j2)' \subseteq one_active_run_per_job(runs, j2)
            BY <3>1 DEF one_active_run_per_job, RowsOf
        <3> QED
            BY <1>0, <3>2 DEF OneActivePerJob
    <2>4. WkrTypeOK' /\ late' \subseteq Request
        BY <1>0, <1>1 DEF Redefine, wkrVars, WkrTypeOK
    <2>5. \A r \in RunIds : runs[r].st \in Terminal => runs'[r].st \in {runs[r].st, "ABSENT"}
        BY <2>2, StatusFacts
    <2> QED
        BY <2>2, <2>3, <2>4, <2>5 DEF Base, TypeOK, TableInv
<1>2. CASE \E w \in Workers : Fail(w, TRUE)
    <2>1. PICK w \in Workers : Crash(w, TRUE) /\ UNCHANGED <<mgrVars, late>>
        BY <1>2 DEF Fail
    <2>2. WkrTypeOK'
        BY <1>0, <2>1, ProcessType
    <2>3. TableStep
        BY <1>0, <2>1, OtherTableSteps
    <2> QED
        BY <1>0, <2>1, <2>2, <2>3 DEF TableStep, TerminalStays, Base, TypeOK, TableInv
<1> QED
    BY <1>1, <1>2 DEF Beyond

\* config_gate: no dispatch is under way for a job that is gone.
DispatchKnown == \A d \in disp : conf[d[1]] # "absent"

\* A run in flight was in flight before the step, or is of a known job.
InflightFollows ==
    \A r \in RunIds : runs'[r].st \in Inflight => \/ runs[r].st \in Inflight /\ runs'[r].job = runs[r].job
                                                  \/ conf[runs'[r].job] # "absent"

\* The manager's own steps queue known jobs only, and make no job absent.
LEMMA ManagerFollows ==
    ASSUME Base, DispatchKnown,
           Reaper \/ Schedule \/ Retry \/ Dispatcher \/ Operator \/ Reload \/ RestartManager
    PROVE  /\ Follows /\ Still /\ DispatchKnown'
           /\ \A j \in Jobs : conf'[j] = "absent" => conf[j] = "absent"
<1>0. TableInv /\ conf \in [Jobs -> {"enabled", "disabled", "absent"}]
      /\ disp \subseteq Jobs \X Kinds \X Stages
    BY DEF Base, TableInv, MgrTypeOK
<1>1. CASE Reaper
    <2>1. UNCHANGED <<conf, disp>>
        BY <1>1 DEF Reaper, ReaperExpire, ReaperFinish
    <2> QED
        BY <1>0, <1>1, <2>1, ReaperFollows DEF Reaper, DispatchKnown
<1>2. ASSUME NEW j \in Jobs, NEW k \in Kinds,
             DispatchCheck(j, k) \/ DispatchLock(j, k) \/ DispatchInsert(j, k)
      PROVE  /\ Follows /\ Still /\ DispatchKnown'
             /\ \A i \in Jobs : conf'[i] = "absent" => conf[i] = "absent"
    <2>1. Follows /\ Still
        BY <1>0, <1>2, DispatchFollows DEF DispatchKnown
    <2>2. conf' = conf /\ \A d \in disp' : d \in disp \/ d[1] = j
        BY <1>2 DEF DispatchCheck, DispatchLock, DispatchInsert
    <2>3. disp' # disp => conf[j] # "absent"
        <3>1. CASE DispatchCheck(j, k)
            BY <3>1 DEF DispatchCheck
        <3>2. CASE DispatchLock(j, k)
            <4>1. <<j, k, "checked">> \in disp /\ <<j, k, "checked">>[1] = j
                BY <3>2 DEF DispatchLock
            <4> QED
                BY <4>1 DEF DispatchKnown
        <3>3. CASE DispatchInsert(j, k)
            <4>1. <<j, k, "locked">> \in disp /\ <<j, k, "locked">>[1] = j
                BY <3>3 DEF DispatchInsert
            <4> QED
                BY <4>1 DEF DispatchKnown
        <3> QED
            BY <1>2, <3>1, <3>2, <3>3
    <2> QED
        BY <2>1, <2>2, <2>3 DEF DispatchKnown
<1>3. CASE Schedule \/ Dispatcher
    BY <1>2, <1>3 DEF Schedule, Dispatcher, Kinds
<1>4. CASE Retry
    <2>1. PICK r \in RunIds : retry_tick(r)
        BY <1>4 DEF Retry
    <2> QED
        BY <1>0, <2>1, RequestFollows DEF retry_tick, DispatchKnown
<1>5. CASE Operator
    <2>1. ASSUME NEW j \in Jobs, stop_run(j)
          PROVE  /\ Follows /\ Still /\ DispatchKnown'
                 /\ \A i \in Jobs : conf'[i] = "absent" => conf[i] = "absent"
        BY <1>0, <2>1, RequestFollows DEF stop_run, DispatchKnown
    <2>2. ASSUME NEW w \in Workers, drain(w)
          PROVE  /\ Follows /\ Still /\ DispatchKnown'
                 /\ \A i \in Jobs : conf'[i] = "absent" => conf[i] = "absent"
        BY <2>2, SameRows DEF drain, DispatchKnown
    <2> QED
        BY <1>2, <1>5, <2>1, <2>2 DEF Operator, Kinds
<1>6. CASE Reload
    <2>1. PICK j \in Jobs, c \in {"enabled", "disabled"} : conf[j] # "absent" /\ reload(j, c)
        BY <1>6 DEF Reload
    <2>2. Follows /\ Still
        BY <1>0, <2>1, RequestFollows
    <2>3. disp' = {} /\ conf' = [conf EXCEPT ![j] = c]
        BY <2>1 DEF reload
    <2> QED
        BY <1>0, <2>1, <2>2, <2>3 DEF DispatchKnown
<1>7. CASE RestartManager
    BY <1>7, SameRows DEF RestartManager, ManagerRestart, DispatchKnown
<1> QED
    BY <1>1, <1>3, <1>4, <1>5, <1>6, <1>7

\* The steps of the workers change rows by a heartbeat only.
LEMMA WorkerFollows ==
    ASSUME Base, WorkerStep
    PROVE  /\ Follows /\ UNCHANGED <<conf, disp>>
           /\ Still \/ \E w \in Workers : HandleHeartbeat(w)
<1>0. TableInv
    BY DEF Base
<1>1. ASSUME NEW w \in Workers, HandleHeartbeat(w) PROVE Follows /\ UNCHANGED <<conf, disp>>
    BY <1>0, <1>1, HeartbeatRows DEF HandleHeartbeat, heartbeat
<1>2. CASE UNCHANGED <<runs, conf, disp>>
    BY <1>2, SameRows
<1>3. ASSUME ~\E w \in Workers : HandleHeartbeat(w) PROVE UNCHANGED <<runs, conf, disp>>
    BY <1>3 DEF WorkerStep, LoopStep, WatchdogStep, Fail, Register, Leave, Shutdown, CallFails,
                TaskStep, ReportLost, register, unregister, worker_shutdown, mgrVars
<1> QED
    BY <1>1, <1>2, <1>3

\* Neither claims, reports, late requests nor the clock queue an unknown job.
LEMMA LeaseFollows ==
    ASSUME Base, LeaseStep
    PROVE  InflightFollows /\ UNCHANGED <<conf, disp>>
<1>0. TableInv /\ WkrTypeOK /\ late \subseteq Request
    BY DEF Base, TypeOK
<1>1. Follows => InflightFollows
    BY DEF Follows, RowFollows, InflightFollows
<1>2. ASSUME NEW w \in Workers, NEW r \in RunIds, claim(w, r)
      PROVE  InflightFollows /\ UNCHANGED <<conf, disp>>
    <2>1. UNCHANGED <<conf, disp>>
        BY <1>2 DEF claim
    <2>2. CASE ClaimGranted(w, r)
        <3>1. /\ runs[r].st = "QUEUED" /\ runs'[r].job = runs[r].job
              /\ \A q \in RunIds \ {r} : runs'[q] = runs[q]
            BY <1>0, <1>2, <2>2, ClaimStep DEF Claimed
        <3> QED
            BY <2>1, <3>1 DEF InflightFollows, Inflight
    <2>3. CASE ~ClaimGranted(w, r)
        <3>1. UNCHANGED runs
            BY <1>2, <2>3 DEF claim
        <3> QED
            BY <1>1, <2>1, <3>1, SameRows
    <2> QED
        BY <2>2, <2>3
<1>3. ASSUME NEW w, NEW r \in RunIds, NEW t, NEW n, NEW e \in Reports, complete(w, r, t, n, e)
      PROVE  InflightFollows /\ UNCHANGED <<conf, disp>>
    <2>1. UNCHANGED <<conf, disp>>
        BY <1>3 DEF complete
    <2> QED
        BY <1>0, <1>1, <1>3, <2>1, CompleteFollows DEF Reports
<1>4. ASSUME NEW w \in Workers, HandleClaim(w) PROVE InflightFollows /\ UNCHANGED <<conf, disp>>
    BY <1>0, <1>2, <1>4 DEF HandleClaim, WkrTypeOK
<1>5. ASSUME NEW t \in Tokens, NEW b \in BOOLEAN, Report(t, b)
      PROVE  InflightFollows /\ UNCHANGED <<conf, disp>>
    <2>1. /\ task[t].phase = "report"
          /\ complete(task[t].w, task[t].run, t, task[t].attempt, task[t].result)
        BY <1>5 DEF Report, Reported, Completion
    <2> QED
        BY <1>0, <1>3, <2>1 DEF WkrTypeOK
<1>6. ASSUME NEW m \in late, Late(m) PROVE InflightFollows /\ UNCHANGED <<conf, disp>>
    <2>1. m \in Request
        BY <1>0
    <2>2. CASE m.kind = "heartbeat" /\ heartbeat(m.w, m.held)
        BY <1>0, <1>1, <2>2, HeartbeatRows DEF heartbeat
    <2>3. CASE m.kind = "claim" /\ claim(m.w, m.run)
        BY <1>2, <2>1, <2>3 DEF Request
    <2>4. CASE m.kind = "complete" /\ Reported(m)
        BY <1>3, <2>1, <2>4 DEF Request, Reported
    <2> QED
        BY <1>6, <2>2, <2>3, <2>4 DEF Late
<1>7. CASE Tick
    BY <1>0, <1>1, <1>7, TickFollows DEF Tick, MgrTick
<1> QED
    BY <1>4, <1>5, <1>6, <1>7 DEF LeaseStep

\* What makes a purged job stay without runs.
AbsentInv == Base /\ DispatchKnown /\ AbsentJobHasNoRuns

LEMMA AbsentStep ==
    ASSUME AbsentInv, [NextBeyond]_vars
    PROVE  AbsentInv'
<1>0. Base /\ DispatchKnown /\ AbsentJobHasNoRuns /\ TableInv
    BY DEF AbsentInv, Base
<1>1. Base'
    BY <1>0, BaseStep, BeyondStep DEF NextBeyond
<1>2. ASSUME InflightFollows, \A j \in Jobs : conf'[j] = "absent" => conf[j] = "absent"
      PROVE  AbsentJobHasNoRuns'
    <2> SUFFICES ASSUME NEW j \in Jobs, conf'[j] = "absent", NEW r \in RunIds,
                        runs'[r].st \in Inflight, runs'[r].st # "ABSENT", runs'[r].job = j
                 PROVE  FALSE
        BY DEF AbsentJobHasNoRuns, inflight_runs_of_job, RowsOf
    <2>1. conf[j] = "absent"
        BY <1>2
    <2>2. runs[r].st \in Inflight /\ runs[r].job = j /\ runs[r].st # "ABSENT"
        BY <1>2, <2>1 DEF InflightFollows, Inflight, Active, Executing
    <2> QED
        BY <1>0, <2>1, <2>2 DEF AbsentJobHasNoRuns, inflight_runs_of_job, RowsOf
<1>3. Follows => InflightFollows
    BY DEF Follows, RowFollows, InflightFollows
<1>4. CASE UNCHANGED vars
    BY <1>0, <1>1, <1>2, <1>3, <1>4, SameRows DEF vars, mgrVars, AbsentInv, DispatchKnown
<1>5. CASE Reaper \/ Schedule \/ Retry \/ Dispatcher \/ Operator \/ Reload \/ RestartManager
    BY <1>0, <1>1, <1>2, <1>3, <1>5, ManagerFollows DEF AbsentInv
<1>6. CASE WorkerStep
    BY <1>0, <1>1, <1>2, <1>3, <1>6, WorkerFollows DEF AbsentInv, DispatchKnown
<1>7. CASE LeaseStep
    BY <1>0, <1>1, <1>2, <1>7, LeaseFollows DEF AbsentInv, DispatchKnown
<1>8. CASE \E w \in Workers : Fail(w, TRUE)
    BY <1>0, <1>1, <1>2, <1>3, <1>8, SameRows DEF Fail, mgrVars, AbsentInv, DispatchKnown
<1>9. CASE Redefine
    <2>1. PICK j \in Jobs, c \in {"enabled", "absent"} : reload(j, c)
        BY <1>9 DEF Redefine
    <2>2. /\ disp' = {} /\ conf' = [conf EXCEPT ![j] = c]
          /\ conf \in [Jobs -> {"enabled", "disabled", "absent"}]
        BY <1>0, <2>1 DEF reload, TableInv, MgrTypeOK
    <2>3. \A r \in RunIds : runs'[r].st \in Inflight =>
             runs'[r] = runs[r] /\ (c = "absent" => runs[r].job # j)
        BY <1>0, <2>1, RedefineRows DEF Inflight, Active, Executing
    <2>4. ASSUME NEW i \in Jobs, conf'[i] = "absent" PROVE inflight_runs_of_job(runs, i)' = {}
        <3>1. inflight_runs_of_job(runs, i)' \subseteq inflight_runs_of_job(runs, i)
            BY <2>3 DEF inflight_runs_of_job, RowsOf
        <3>2. CASE i = j
            BY <2>2, <2>3, <2>4, <3>2 DEF inflight_runs_of_job, RowsOf
        <3>3. CASE i # j
            BY <1>0, <2>2, <2>4, <3>1, <3>3 DEF AbsentJobHasNoRuns
        <3> QED
            BY <3>2, <3>3
    <2> QED
        BY <1>1, <2>2, <2>4 DEF AbsentInv, DispatchKnown, AbsentJobHasNoRuns
<1> QED
    BY <1>4, <1>5, <1>6, <1>7, <1>8, <1>9, NextCases DEF NextBeyond, Beyond

\* A job that left the configuration has no run in flight, whatever dispatch,
\* requeue, claim or report was under way when it was purged (reload,
\* forget_job and purge_job under config_gate and metrics_gate).
THEOREM AbsentHasNone == SpecBeyond => []AbsentJobHasNoRuns
<1>1. Init => AbsentInv
    BY BaseInit DEF Init, MgrInit, AbsentInv, DispatchKnown, AbsentJobHasNoRuns
<1>2. AbsentInv /\ [NextBeyond]_vars => AbsentInv'
    BY AbsentStep
<1>3. AbsentInv => AbsentJobHasNoRuns
    BY DEF AbsentInv
<1> QED
    BY <1>1, <1>2, <1>3, PTL DEF SpecBeyond

\* Deleting jobs and orphaned providers do not bring a second claimed run
\* about either (claim_run and one_active_run_per_job).
THEOREM OneActiveBeyond == SpecBeyond => []OneActivePerJob
<1>1. Base /\ [NextBeyond]_vars => Base'
    BY BaseStep, BeyondStep DEF NextBeyond
<1>2. Base => OneActivePerJob
    BY DEF Base
<1> QED
    BY BaseInit, <1>1, <1>2, PTL DEF SpecBeyond

=============================================================================
