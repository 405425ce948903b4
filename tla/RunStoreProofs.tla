---------------------------- MODULE RunStoreProofs ----------------------------
(***************************************************************************)
(* What the statements of the store do to the rows, for every table.       *)
(* RowQuiet and RowKeeps are the two halves of "nothing happens to a       *)
(* lease": the first says that no lease begins, the second that none ends. *)
(***************************************************************************)
EXTENDS RunStore, TLAPS

\* The tables of module RunStore.
Table == [RunIds -> Row]

\* From a to b no lease begins, no token appears, nothing finished reopens,
\* no row is deleted, and a row that exists has a job.
RowQuiet(a, b) ==
    /\ b.token \in {a.token, NoToken}
    /\ b.st \in Active => a.st \in Active /\ b.job = a.job
    /\ a.st \in Terminal => b.st = a.st
    /\ a.st # "ABSENT" => b.st # "ABSENT"
    /\ b.st # "ABSENT" => b.job \in Jobs \/ (a.st # "ABSENT" /\ b.job = a.job)

\* From a to b a live lease stays with its owner and gets no shorter.
RowKeeps(a, b) ==
    a.st \in Active /\ a.lease > 0 =>
        /\ b.st \in Active
        /\ b.job = a.job
        /\ b.worker = a.worker
        /\ b.token = a.token
        /\ b.retry = a.retry
        /\ b.lease >= a.lease

\* From a to b the row is claimed by w under token t.
Claimed(a, b, w, t) ==
    /\ b.st = "SYNCING"
    /\ b.worker = w
    /\ b.token = t
    /\ b.lease = Lease
    /\ b.job = a.job
    /\ b.retry = a.retry

USE DEF Table

\* How the sets of statuses nest.
LEMMA StatusFacts ==
    /\ Active \subseteq Status /\ Executing \subseteq Active /\ Active \subseteq Inflight
    /\ Inflight \subseteq Status /\ Terminal \subseteq Status
    /\ Active \cap Terminal = {} /\ "ABSENT" \notin Terminal
    /\ \A s \in {"QUEUED", "RETRYING", "ABSENT", "SKIPPED", "SUCCESS", "FAILED",
                 "CANCELLED", "LOST"} : s \in Status /\ s \notin Active
    /\ "QUEUED" \notin Terminal /\ "RETRYING" \notin Terminal
    /\ "SYNCING" \in Executing /\ "SYNCING" \in Status /\ "CANCELLING" \in Active
    /\ "CANCELLING" \notin Executing
BY DEF Active, Executing, Inflight, Terminal, Status

\* A row that does not change is quiet and kept.
LEMMA RowSame ==
    ASSUME NEW a \in Row
    PROVE  RowQuiet(a, a) /\ RowKeeps(a, a)
BY StoreAssumption DEF RowQuiet, RowKeeps, Row

\* The two relations compose.
LEMMA RowTrans ==
    ASSUME NEW a \in Row, NEW b \in Row, NEW c \in Row
    PROVE  /\ RowQuiet(a, b) /\ RowQuiet(b, c) => RowQuiet(a, c)
           /\ RowKeeps(a, b) /\ RowKeeps(b, c) => RowKeeps(a, c)
<1>1. RowQuiet(a, b) /\ RowQuiet(b, c) => RowQuiet(a, c)
    BY DEF RowQuiet
<1>2. RowKeeps(a, b) /\ RowKeeps(b, c) => RowKeeps(a, c)
    BY StoreAssumption DEF RowKeeps, Row
<1> QED
    BY <1>1, <1>2

\* create_run (store.rs) fills one row, and does not claim it.
LEMMA CreateRun ==
    ASSUME NEW T \in Table, NEW r \in RunIds, T[r].st = "ABSENT", NEW j \in Jobs,
           NEW w \in Workers \cup {NoWorker}, NEW s \in {"QUEUED", "SKIPPED"}
    PROVE  /\ create_run(T, r, j, w, s) \in Table
           /\ \A q \in RunIds : /\ RowQuiet(T[q], create_run(T, r, j, w, s)[q])
                                /\ RowKeeps(T[q], create_run(T, r, j, w, s)[q])
                                /\ q # r => create_run(T, r, j, w, s)[q] = T[q]
<1> DEFINE U == create_run(T, r, j, w, s)
<1>1. [st |-> s, job |-> j, worker |-> w, token |-> NoToken, lease |-> 0, retry |-> 0] \in Row
    BY StoreAssumption, StatusFacts DEF Row, NoToken
<1>2. U \in Table /\ \A q \in RunIds \ {r} : U[q] = T[q]
    BY <1>1 DEF create_run
<1>3. U[r].token = NoToken /\ U[r].st = s /\ U[r].job = j
    BY DEF create_run
<1>4. RowQuiet(T[r], U[r]) /\ RowKeeps(T[r], U[r])
    BY <1>3, StatusFacts DEF RowQuiet, RowKeeps
<1> QED
    BY <1>2, <1>4, RowSame

\* claim_run (store.rs) hands one row to a worker, with a full lease.
LEMMA ClaimRun ==
    ASSUME NEW T \in Table, NEW r \in RunIds, NEW w \in Workers, NEW t \in Tokens
    PROVE  /\ claim_run(T, r, w, t) \in Table
           /\ Claimed(T[r], claim_run(T, r, w, t)[r], w, t)
           /\ \A q \in RunIds \ {r} : claim_run(T, r, w, t)[q] = T[q]
<1>1. "SYNCING" \in Status
    BY StatusFacts
<1>2. Lease \in 0..Lease
    BY StoreAssumption
<1>3. [T[r] EXCEPT !.st = "SYNCING", !.worker = w, !.token = t, !.lease = Lease] \in Row
    BY <1>1, <1>2 DEF Row
<1>4. Claimed(T[r], [T[r] EXCEPT !.st = "SYNCING", !.worker = w, !.token = t,
                                 !.lease = Lease], w, t)
    BY DEF Claimed, Row
<1> QED
    BY <1>3, <1>4 DEF claim_run

\* renew_run_lease (store.rs) ends no lease, and refills those that pass.
LEMMA RenewRunLeases ==
    ASSUME NEW T \in Table, NEW w, NEW held
    PROVE  /\ renew_run_leases(T, w, held) \in Table
           /\ \A r \in RunIds :
                /\ RowQuiet(T[r], renew_run_leases(T, w, held)[r])
                /\ RowKeeps(T[r], renew_run_leases(T, w, held)[r])
                /\ renew_run_leases(T, w, held)[r].st = T[r].st
                /\ \A h \in held : h[1] = r /\ fenced(T, r, w, h[2])
                                     => renew_run_leases(T, w, held)[r].lease = Lease
BY StoreAssumption DEF renew_run_leases, Row, RowQuiet, RowKeeps

\* The updates below give up, cancel or lose rows; none begins a lease.
LEMMA FinishActiveRun ==
    ASSUME NEW T \in Table, NEW r \in RunIds, NEW s \in Terminal, T[r].st \in Active
    PROVE  /\ finish_active_run(T, r, s) \in Table
           /\ finish_active_run(T, r, s)[r].st = s
           /\ \A q \in RunIds : /\ RowQuiet(T[q], finish_active_run(T, r, s)[q])
                                /\ q # r => finish_active_run(T, r, s)[q] = T[q]
<1> DEFINE row == [T[r] EXCEPT !.st = s, !.lease = 0]
           U == finish_active_run(T, r, s)
<1>1. s \in Status /\ s \notin Active /\ 0 \in 0..Lease
    BY StoreAssumption, StatusFacts
<1>2. row \in Row /\ row.st = s /\ row.token = T[r].token /\ row.job = T[r].job
    BY <1>1 DEF Row
<1>3. U \in Table /\ U[r] = row /\ \A q \in RunIds \ {r} : U[q] = T[q]
    BY <1>2 DEF finish_active_run
<1>4. RowQuiet(T[r], U[r])
    BY <1>1, <1>2, <1>3, StatusFacts DEF RowQuiet
<1> QED
    BY <1>2, <1>3, <1>4, RowSame

\* set_retry_from_active_fenced keeps the table well typed, releases the one
\* row it touches and leaves the others alone.
LEMMA SetRetryFromActive ==
    ASSUME NEW T \in Table, NEW r \in RunIds, T[r].st \in Active
    PROVE  /\ set_retry_from_active(T, r) \in Table
           /\ set_retry_from_active(T, r)[r].st = "RETRYING"
           /\ \A q \in RunIds : /\ RowQuiet(T[q], set_retry_from_active(T, r)[q])
                                /\ q # r => set_retry_from_active(T, r)[q] = T[q]
<1> DEFINE row == [T[r] EXCEPT !.st = "RETRYING", !.retry = @ + 1, !.lease = 0]
           U == set_retry_from_active(T, r)
<1>1. "RETRYING" \in Status /\ "RETRYING" \notin Active /\ 0 \in 0..Lease
    BY StoreAssumption, StatusFacts
<1>2. row \in Row /\ row.st = "RETRYING" /\ row.token = T[r].token /\ row.job = T[r].job
    <2>1. T[r] \in Row /\ T[r].retry + 1 \in Nat
        BY DEF Row
    <2> HIDE DEF row
    <2>2. \A a \in Row : \A n \in Nat :
            LET b == [a EXCEPT !.st = "RETRYING", !.retry = n, !.lease = 0]
            IN  b \in Row /\ b.st = "RETRYING" /\ b.token = a.token /\ b.job = a.job
        BY <1>1 DEF Row
    <2> QED
        BY <2>1, <2>2 DEF row
<1>3. U \in Table /\ U[r] = row /\ \A q \in RunIds \ {r} : U[q] = T[q]
    BY <1>2 DEF set_retry_from_active
<1>4. RowQuiet(T[r], U[r])
    BY <1>1, <1>2, <1>3, StatusFacts DEF RowQuiet
<1> QED
    BY <1>2, <1>3, <1>4, RowSame

\* A stop request keeps every lease (set_cancelling_by_job, store.rs).
LEMMA SetCancellingByJob ==
    ASSUME NEW T \in Table, NEW j
    PROVE  /\ set_cancelling_by_job(T, j) \in Table
           /\ \A q \in RunIds : /\ RowQuiet(T[q], set_cancelling_by_job(T, j)[q])
                                /\ RowKeeps(T[q], set_cancelling_by_job(T, j)[q])
                                /\ T[q].st = "ABSENT" => set_cancelling_by_job(T, j)[q] = T[q]
BY StoreAssumption, StatusFacts DEF set_cancelling_by_job, Row, RowQuiet, RowKeeps, Terminal, Executing

\* Cancelling rows that hold no lease keeps every lease.
LEMMA CancelRows ==
    ASSUME NEW T \in Table, NEW R \in SUBSET RunIds,
           \A r \in R : T[r].st \notin Terminal \cup {"ABSENT"}
    PROVE  /\ cancel_rows(T, R) \in Table
           /\ \A q \in RunIds : /\ RowQuiet(T[q], cancel_rows(T, R)[q])
                                /\ q \notin R => cancel_rows(T, R)[q] = T[q]
                                /\ T[q].st = "ABSENT" => cancel_rows(T, R)[q] = T[q]
                                /\ cancel_rows(T, R)[q].job = T[q].job
                                /\ cancel_rows(T, R)[q].lease = T[q].lease
BY StoreAssumption, StatusFacts, RowSame DEF cancel_rows, Row, RowQuiet, Terminal

=============================================================================
