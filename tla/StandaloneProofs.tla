-------------------------- MODULE StandaloneProofs --------------------------
(***************************************************************************)
(* What module Standalone promises for every configuration: processes      *)
(* account for their slots, an execution can be stopped, and the claims    *)
(* keep a job to one execution.                                            *)
(***************************************************************************)
EXTENDS Standalone, RunStoreProofs, FiniteSetTheorems

\* A row that was never created is absent, and a row that exists has a job.
RowsInv ==
    \A r \in RunIds : /\ r >= nextId => runs[r].st = "ABSENT"
                      /\ runs[r].st # "ABSENT" => runs[r].job \in Jobs

\* An execution belongs to a process, and has a token that was issued, a job,
\* and a row that is of that job unless it was purged.
ExecutionsInv ==
    \A t \in Tokens : ex[t].ph # "none" =>
        /\ t < nextTok
        /\ ex[t].proc \in Procs
        /\ ex[t].job \in Jobs
        /\ ex[t].run \in RunIds /\ ex[t].run < nextId
        /\ runs[ex[t].run].st # "ABSENT" => runs[ex[t].run].job = ex[t].job

Base == TypeOK /\ RowsInv /\ ExecutionsInv

\* The gate of the job was respected.
GateInv == \A p \in Procs, j \in Jobs : active[p][j] <= MaxConc[j]

\* The inductive invariant of LocalInv.
SlotsInv == Base /\ SlotsAccounted /\ GateInv

\* The rows there are were there before, with the same job.
RowsKept(T, U) ==
    \A r \in RunIds : U[r].st # "ABSENT" => T[r].st # "ABSENT" /\ U[r].job = T[r].job

\* The executions of process p for job j.
On(p, j) == {t \in Live(p) : JobOf(t) = j}

-----------------------------------------------------------------------------
(* The statements that only the local engine uses.                          *)

USE DEF Table

\* The engine's own worker id is one of them.
LEMMA LocalWorker == Local \in Workers
BY StandaloneAssumption DEF Local

\* A row that is there changes its status, and what goes with it, but not its
\* job.
LEMMA RowChange ==
    ASSUME NEW T \in Table, NEW r \in RunIds,
           NEW row \in Row, row.st # "ABSENT", row.job = T[r].job
    PROVE  /\ Update(T, r, row) \in Table
           /\ RowsKept(T, Update(T, r, row))
           /\ Update(T, r, row)[r] = IF T[r].st = "ABSENT" THEN T[r] ELSE row
           /\ \A q \in RunIds \ {r} : Update(T, r, row)[q] = T[q]
BY DEF RowsKept, Update

\* finish_run ends one row and touches no other.
LEMMA LocalFinish ==
    ASSUME NEW T \in Table, NEW r \in RunIds, NEW s \in Terminal
    PROVE  /\ finish_run(T, r, s) \in Table
           /\ RowsKept(T, finish_run(T, r, s))
           /\ T[r].st # "ABSENT" => finish_run(T, r, s)[r].st = s
           /\ finish_run(T, r, s)[r].job = T[r].job
           /\ \A q \in RunIds \ {r} : finish_run(T, r, s)[q] = T[q]
<1> DEFINE row == [T[r] EXCEPT !.st = s, !.lease = 0]
<1>1. s \in Status /\ s # "ABSENT" /\ 0 \in 0..Lease
    BY StatusFacts, StoreAssumption
<1>2. row \in Row /\ row.st = s /\ row.job = T[r].job
    BY <1>1 DEF Row
<1>3. finish_run(T, r, s) = Update(T, r, row)
    BY DEF finish_run
<1> HIDE DEF row
<1> QED
    BY <1>1, <1>2, <1>3, RowChange

\* set_run_status gives one row its status, or does nothing at all.
LEMMA LocalStatus ==
    ASSUME NEW T \in Table, NEW r \in RunIds, NEW s \in Status \ {"ABSENT"}
    PROVE  /\ set_run_status(T, r, s) \in Table
           /\ RowsKept(T, set_run_status(T, r, s))
           /\ set_run_status(T, r, s)[r].st \in {s, T[r].st}
           /\ set_run_status(T, r, s)[r].job = T[r].job
           /\ set_run_status(T, r, s)[r].token = T[r].token
           /\ \A q \in RunIds \ {r} : set_run_status(T, r, s)[q] = T[q]
<1> DEFINE row == [T[r] EXCEPT !.st = s]
<1>1. row \in Row /\ row.st = s /\ row.job = T[r].job /\ row.token = T[r].token
    BY DEF Row
<1>2. set_run_status(T, r, s) \in {T, Update(T, r, row)}
    BY DEF set_run_status
<1> HIDE DEF row
<1>3. RowsKept(T, T)
    BY DEF RowsKept
<1> QED
    BY <1>1, <1>2, <1>3, RowChange

\* set_retry puts one row back to wait.
LEMMA LocalRetry ==
    ASSUME NEW T \in Table, NEW r \in RunIds
    PROVE  /\ set_retry(T, r) \in Table
           /\ RowsKept(T, set_retry(T, r))
           /\ \A q \in RunIds \ {r} : set_retry(T, r)[q] = T[q]
<1> DEFINE row == [T[r] EXCEPT !.st = "RETRYING", !.retry = @ + 1]
<1>1. row \in Row /\ row.st = "RETRYING" /\ row.job = T[r].job
    <2>1. T[r] \in Row /\ T[r].retry + 1 \in Nat
        BY DEF Row
    <2> HIDE DEF row
    <2>2. \A a \in Row : \A n \in Nat :
            LET b == [a EXCEPT !.st = "RETRYING", !.retry = n]
            IN  b \in Row /\ b.st = "RETRYING" /\ b.job = a.job
        BY StatusFacts DEF Row
    <2> QED
        BY <2>1, <2>2 DEF row
<1>2. set_retry(T, r) = Update(T, r, row)
    BY DEF set_retry
<1> HIDE DEF row
<1> QED
    BY <1>1, <1>2, RowChange

\* retry_tick's UPDATE makes one row claimable again.
LEMMA LocalQueued ==
    ASSUME NEW T \in Table, NEW r \in RunIds, T[r].st # "ABSENT"
    PROVE  LET U == Update(T, r, [T[r] EXCEPT !.st = "QUEUED"])
           IN  /\ U \in Table
               /\ RowsKept(T, U)
               /\ U[r].st = "QUEUED" /\ U[r].job = T[r].job
               /\ \A q \in RunIds \ {r} : U[q] = T[q]
<1> DEFINE row == [T[r] EXCEPT !.st = "QUEUED"]
<1>1. row \in Row /\ row.st = "QUEUED" /\ row.job = T[r].job
    BY StatusFacts DEF Row
<1> HIDE DEF row
<1>2. LET U == Update(T, r, row)
      IN  /\ U \in Table
          /\ RowsKept(T, U)
          /\ U[r].st = "QUEUED" /\ U[r].job = T[r].job
          /\ \A q \in RunIds \ {r} : U[q] = T[q]
    BY <1>1, RowChange
<1> QED
    BY <1>2 DEF row

\* create_run adds a row where there was none.
LEMMA LocalCreate ==
    ASSUME NEW T \in Table, NEW r \in RunIds, T[r].st = "ABSENT", NEW j \in Jobs,
           NEW w \in Workers \cup {NoWorker}, NEW s \in {"QUEUED", "RETRYING", "SKIPPED"}
    PROVE  /\ create_run(T, r, j, w, s) \in Table
           /\ create_run(T, r, j, w, s)[r].st = s
           /\ create_run(T, r, j, w, s)[r].job = j
           /\ \A q \in RunIds \ {r} : create_run(T, r, j, w, s)[q] = T[q]
<1> DEFINE row == [st |-> s, job |-> j, worker |-> w, token |-> NoToken,
                   lease |-> 0, retry |-> 0]
<1>1. row \in Row /\ row.st = s /\ row.job = j
    BY StatusFacts, StoreAssumption DEF Row
<1>2. create_run(T, r, j, w, s) = [T EXCEPT ![r] = row]
    BY DEF create_run
<1> HIDE DEF row
<1> QED
    BY <1>1, <1>2

-----------------------------------------------------------------------------
(* Slots.                                                                   *)

\* Sets of executions are finite.
LEMMA TokensFinite == \A S \in SUBSET Tokens : IsFiniteSet(S) /\ Cardinality(S) \in Nat
<1>1. IsFiniteSet(Tokens)
    BY StoreAssumption, FS_Interval DEF Tokens
<1> QED
    BY <1>1, FS_Subset, FS_CardinalityType

\* Execution t is there before and after, or neither, and is the same one.
SameExecution(t) ==
    /\ (ex'[t].ph # "none") <=> (ex[t].ph # "none")
    /\ ex[t].ph # "none" => /\ ex'[t].proc = ex[t].proc /\ ex'[t].run = ex[t].run
                            /\ ex'[t].job = ex[t].job

\* Where executions come and go, nothing else does: the slots still add up
\* when the same executions are live.
LEMMA SlotsKept ==
    ASSUME SlotsInv, active' = active, permits' = permits,
           \A t \in Tokens : SameExecution(t)
    PROVE  SlotsAccounted' /\ GateInv'
<1>1. \A p \in Procs : Live(p)' = Live(p)
    BY DEF Live, SameExecution
<1>2. \A t \in Tokens : ex[t].ph # "none" => JobOf(t)' = JobOf(t)
    BY DEF JobOf, SameExecution
<1>3. \A p \in Procs, j \in Jobs :
        {t \in Live(p) : JobOf(t) = j}' = {t \in Live(p) : JobOf(t) = j}
    <2> TAKE p \in Procs, j \in Jobs
    <2>1. \A t \in Live(p) : t \in Tokens /\ ex[t].ph # "none"
        BY DEF Live
    <2> QED
        BY <1>1, <1>2, <2>1
<1>4. SlotsAccounted'
    BY <1>1, <1>3 DEF SlotsAccounted, SlotsInv
<1> QED
    BY <1>4 DEF GateInv, SlotsInv

\* A step that leaves the table, the slots and the executions alone.
LEMMA QuietStep ==
    ASSUME SlotsInv, TypeOK', UNCHANGED <<tables, slots, ex>>
    PROVE  SlotsInv'
<1>1. RowsInv' /\ ExecutionsInv'
    BY DEF SlotsInv, Base, RowsInv, ExecutionsInv, tables
<1>2. \A t \in Tokens : SameExecution(t)
    BY DEF SameExecution
<1> QED
    BY <1>1, <1>2, SlotsKept DEF SlotsInv, Base, slots

\* A step that changes or deletes rows and what executions are at, but neither
\* creates a row nor begins or ends an execution.
LEMMA RowStep ==
    ASSUME SlotsInv, TypeOK', RowsKept(runs, runs'), UNCHANGED <<nextId, nextTok, active, permits>>,
           \A t \in Tokens : SameExecution(t)
    PROVE  SlotsInv'
<1>1. RowsInv'
    BY DEF SlotsInv, Base, RowsInv, RowsKept
<1>2. ExecutionsInv'
    BY DEF SlotsInv, Base, ExecutionsInv, RowsKept, SameExecution
<1> QED
    BY <1>1, <1>2, SlotsKept DEF SlotsInv, Base

\* A step that creates row nextId.
LEMMA CreateStep ==
    ASSUME SlotsInv, NEW j \in Jobs, NEW w \in Workers \cup {NoWorker},
           NEW s \in {"QUEUED", "SKIPPED"}, Room(j),
           runs' = create_run(runs, nextId, j, w, s), nextId' = nextId + 1,
           UNCHANGED <<nextTok, queue, slots, ex>>,
           want' \in [Procs -> RunIds \cup {0}], disp' \in [Procs -> Jobs \cup {NoJob}],
           UNCHANGED <<known, up, goal, envs>>
    PROVE  SlotsInv'
<1>1. nextId \in RunIds /\ runs[nextId].st = "ABSENT" /\ runs \in Table
    BY DEF Room, SlotsInv, Base, TypeOK, RowsInv, RunIds
<1>2. /\ runs' \in Table
      /\ runs'[nextId].st # "ABSENT" /\ runs'[nextId].job = j
      /\ \A q \in RunIds \ {nextId} : runs'[q] = runs[q]
    BY <1>1, LocalCreate
<1>3. TypeOK'
    <2>1. nextId' \in 1..(MaxRuns + 1)
        BY <1>1, StoreAssumption DEF RunIds
    <2> QED
        BY <1>2, <2>1 DEF SlotsInv, Base, TypeOK, slots, envs
<1>4. RowsInv'
    BY <1>1, <1>2 DEF SlotsInv, Base, TypeOK, RowsInv, RunIds
<1>5. ExecutionsInv'
    <2>1. \A t \in Tokens : ex[t].ph # "none" => ex[t].run \in RunIds \ {nextId} /\ ex[t].run < nextId'
        <3> TAKE t \in Tokens
        <3> HAVE ex[t].ph # "none"
        <3>1. ex[t].run \in RunIds /\ ex[t].run < nextId
            BY DEF SlotsInv, Base, ExecutionsInv
        <3> QED
            BY <1>1, <3>1 DEF RunIds
    <2> QED
        BY <1>2, <2>1 DEF SlotsInv, Base, ExecutionsInv
<1>6. \A t \in Tokens : SameExecution(t)
    BY DEF SameExecution
<1> QED
    BY <1>3, <1>4, <1>5, <1>6, SlotsKept DEF SlotsInv, Base, slots

\* A process is gone, with its executions and its slots.
LEMMA GoneStep ==
    ASSUME SlotsInv, NEW p \in Procs, Gone(p), orphans' \subseteq Tokens \X Jobs,
           stopFiles' = stopFiles, stops' = stops, crashes' \in 0..MaxCrashes
    PROVE  SlotsInv'
<1>1. TypeOK'
    <2>1. NoEx \in Execution
        BY DEF NoEx, Execution, Phases
    <2>2. ex' \in [Tokens -> Execution]
        BY <2>1 DEF Gone, SlotsInv, Base, TypeOK
    <2>3. /\ up' \in [Procs -> {"down", "up", "stopping"}]
          /\ goal' \in [Procs -> Jobs \cup {NoJob}]
          /\ want' \in [Procs -> RunIds \cup {0}]
          /\ disp' \in [Procs -> Jobs \cup {NoJob}]
        BY DEF Gone, SlotsInv, Base, TypeOK
    <2>4. queue' \in [Procs -> SUBSET RunIds]
        <3>1. {} \in SUBSET RunIds
            OBVIOUS
        <3> QED
            BY <3>1 DEF Gone, SlotsInv, Base, TypeOK
    <2>5. permits' \in [Procs -> 0..Permits]
        BY StandaloneAssumption DEF Gone, SlotsInv, Base, TypeOK
    <2>6. active' \in [Procs -> [Jobs -> Nat]]
        <3>1. [j \in Jobs |-> 0] \in [Jobs -> Nat]
            OBVIOUS
        <3> QED
            BY <3>1 DEF Gone, SlotsInv, Base, TypeOK
    <2>7. tokens' \in [Procs -> [Jobs -> Tokens \cup {NoToken}]]
        <3>1. [j \in Jobs |-> NoToken] \in [Jobs -> Tokens \cup {NoToken}]
            OBVIOUS
        <3> QED
            BY <3>1 DEF Gone, SlotsInv, Base, TypeOK
    <2> QED
        BY <2>2, <2>3, <2>4, <2>5, <2>6, <2>7 DEF Gone, SlotsInv, Base, TypeOK, tables
<1>2. RowsInv'
    BY DEF Gone, SlotsInv, Base, RowsInv, tables
<1>3. \A t \in Tokens : \/ t \in Live(p) /\ ex'[t].ph = "none"
                        \/ t \notin Live(p) /\ ex'[t] = ex[t]
    BY DEF Gone, NoEx
<1>4. ExecutionsInv'
    BY <1>3 DEF Gone, SlotsInv, Base, TypeOK, ExecutionsInv, tables
<1>5. Live(p)' = {}
    BY <1>3 DEF Live
<1>6. \A q \in Procs \ {p} : Live(q)' = Live(q)
    BY <1>3 DEF Live
<1>7. SlotsAccounted'
    <2> SUFFICES ASSUME NEW q \in Procs
                 PROVE  /\ permits'[q] = Permits - Cardinality(Live(q)')
                        /\ \A j \in Jobs : active'[q][j]
                             = Cardinality({t \in Live(q)' : JobOf(t)' = j})
        BY DEF SlotsAccounted
    <2>1. CASE q = p
        <3>1. permits'[q] = Permits /\ \A j \in Jobs : active'[q][j] = 0
            BY <2>1 DEF Gone, SlotsInv, Base, TypeOK
        <3>2. Cardinality({}) = 0
            BY FS_EmptySet
        <3>3. \A j \in Jobs : {t \in Live(q)' : JobOf(t)' = j} = {}
            BY <1>5, <2>1
        <3>4. Cardinality(Live(q)') = 0
            BY <1>5, <2>1, <3>2
        <3>5. permits'[q] = Permits - Cardinality(Live(q)')
            BY <3>1, <3>4, StandaloneAssumption
        <3>6. \A j \in Jobs : Cardinality({t \in Live(q)' : JobOf(t)' = j}) = 0
            BY <3>2, <3>3, Zenon
        <3> QED
            BY <3>1, <3>5, <3>6
    <2>2. CASE q # p
        <3>1. permits'[q] = permits[q] /\ active'[q] = active[q]
            BY <2>2 DEF Gone, SlotsInv, Base, TypeOK
        <3>2. \A t \in Live(q) : JobOf(t)' = JobOf(t)
            BY <1>3, <1>6, <2>2 DEF Gone, Live, JobOf, tables
        <3>3. \A j \in Jobs : {t \in Live(q)' : JobOf(t)' = j} = {t \in Live(q) : JobOf(t) = j}
            BY <1>6, <2>2, <3>2
        <3> QED
            BY <1>6, <2>2, <3>1, <3>3 DEF SlotsAccounted, SlotsInv
    <2> QED
        BY <2>1, <2>2
<1>8. GateInv'
    BY StandaloneAssumption DEF Gone, SlotsInv, Base, TypeOK, GateInv
<1> QED
    BY <1>1, <1>2, <1>4, <1>7, <1>8 DEF SlotsInv, Base

\* sync_config deletes rows, and nothing else of a job it forgets.
LEMMA SyncFacts ==
    ASSUME TypeOK, NEW p \in Procs, sync_config(p)
    PROVE  /\ runs' \in Table /\ RowsKept(runs, runs') /\ known' \subseteq Jobs
           /\ \A r \in RunIds : runs[r].job \in Has(p) => runs'[r] = runs[r]
           /\ \A r \in RunIds : runs'[r].st # "ABSENT" => runs'[r] = runs[r]
           /\ UNCHANGED <<nextId, nextTok>>
<1>1. NoRow \in Row /\ NoRow.st = "ABSENT"
    BY StoreAssumption, StatusFacts DEF NoRow, Row
<1>2. \A r \in RunIds : runs'[r] = IF runs[r].job \in Has(p) THEN runs[r] ELSE NoRow
    BY DEF sync_config
<1>3. runs' \in Table
    BY <1>1 DEF sync_config, TypeOK
<1> QED
    BY <1>1, <1>2, <1>3 DEF sync_config, RowsKept, Has

\* A step that begins with sync_config.
LEMMA SyncStep ==
    ASSUME SlotsInv, NEW p \in Procs, sync_config(p), UNCHANGED <<disp, queue, slots, ex, envs>>,
           up' \in [Procs -> {"down", "up", "stopping"}],
           goal' \in [Procs -> Jobs \cup {NoJob}], want' \in [Procs -> RunIds \cup {0}]
    PROVE  SlotsInv'
<1>1. TypeOK
    BY DEF SlotsInv, Base
<1>2. /\ runs' \in Table /\ RowsKept(runs, runs') /\ known' \subseteq Jobs
      /\ UNCHANGED <<nextId, nextTok>>
    BY <1>1, SyncFacts
<1>3. TypeOK'
    BY <1>1, <1>2 DEF TypeOK, slots, envs
<1>4. \A t \in Tokens : SameExecution(t)
    BY DEF SameExecution
<1> QED
    BY <1>2, <1>3, <1>4, RowStep DEF slots

\* The processes start and stop.
LEMMA ProcessesKeepSlots ==
    ASSUME SlotsInv, NEW p \in Procs
    PROVE  /\ Start \/ Shutdown \/ DaemonExit => SlotsInv'
           /\ \A j \in Jobs : OneShot(p, j) \/ OneShotNext(p, j) => SlotsInv'
           /\ OneShotExit(p) \/ OneShotDisappeared(p) \/ OneShotRefused(p) \/ Crash(p) => SlotsInv'
           /\ \A o \in orphans : OrphanEnds(o) => SlotsInv'
<1> USE DEF procs, slots, envs
<1>1. Start => SlotsInv'
    <2> HAVE Start
    <2>1. /\ up' \in [Procs -> {"down", "up", "stopping"}]
          /\ goal' \in [Procs -> Jobs \cup {NoJob}] /\ want' \in [Procs -> RunIds \cup {0}]
        BY DEF Start, SlotsInv, Base, TypeOK
    <2> QED
        BY <2>1, StandaloneAssumption, SyncStep DEF Start
<1>2. Shutdown => SlotsInv'
    <2> HAVE Shutdown
    <2>1. TypeOK'
        BY StandaloneAssumption DEF Shutdown, tables, SlotsInv, Base, TypeOK
    <2> QED
        BY <2>1, QuietStep DEF Shutdown
<1>3. \A j \in Jobs : OneShot(p, j) => SlotsInv'
    <2> TAKE j \in Jobs
    <2> HAVE OneShot(p, j)
    <2>1. /\ up' \in [Procs -> {"down", "up", "stopping"}]
          /\ goal' \in [Procs -> Jobs \cup {NoJob}] /\ want' \in [Procs -> RunIds \cup {0}]
        BY DEF OneShot, SlotsInv, Base, TypeOK
    <2> QED
        BY <2>1, SyncStep DEF OneShot
<1>4. \A j \in Jobs : OneShotNext(p, j) => SlotsInv'
    <2> TAKE j \in Jobs
    <2> HAVE OneShotNext(p, j)
    <2>1. /\ up' \in [Procs -> {"down", "up", "stopping"}]
          /\ goal' \in [Procs -> Jobs \cup {NoJob}] /\ want' \in [Procs -> RunIds \cup {0}]
        BY DEF OneShotNext, SlotsInv, Base, TypeOK
    <2> QED
        BY <2>1, SyncStep DEF OneShotNext
<1>5. \A o \in orphans : OrphanEnds(o) => SlotsInv'
    <2> TAKE o \in orphans
    <2> HAVE OrphanEnds(o)
    <2>1. TypeOK'
        BY DEF OrphanEnds, tables, SlotsInv, Base, TypeOK
    <2> QED
        BY <2>1, QuietStep DEF OrphanEnds
<1>6. DaemonExit => SlotsInv'
    BY StandaloneAssumption, GoneStep DEF DaemonExit, SlotsInv, Base, TypeOK
<1>7. OneShotExit(p) \/ OneShotDisappeared(p) \/ OneShotRefused(p) => SlotsInv'
    BY GoneStep DEF OneShotExit, OneShotDisappeared, OneShotRefused, SlotsInv, Base, TypeOK
<1>8. Crash(p) => SlotsInv'
    <2> HAVE Crash(p)
    <2>1. PICK S \in SUBSET {t \in Live(p) : ex[t].ph = "writing"} :
            orphans' = orphans \cup {<<t, JobOf(t)>> : t \in S}
        BY DEF Crash
    <2>2. \A t \in S : t \in Tokens /\ JobOf(t) \in Jobs
        BY DEF Live, JobOf, SlotsInv, Base, ExecutionsInv
    <2>3. orphans' \subseteq Tokens \X Jobs
        BY <2>1, <2>2 DEF SlotsInv, Base, TypeOK
    <2>4. crashes' \in 0..MaxCrashes
        BY StandaloneAssumption DEF Crash, SlotsInv, Base, TypeOK
    <2> QED
        BY <2>3, <2>4, GoneStep DEF Crash
<1> QED
    BY <1>1, <1>2, <1>3, <1>4, <1>5, <1>6, <1>7, <1>8

\* Dispatches create rows, or nothing.
LEMMA DispatchKeepsSlots ==
    ASSUME SlotsInv, NEW p \in Procs
    PROVE  /\ \A j \in Jobs : DispatchSkipped(p, j) \/ DispatchExisting(p, j) \/ DispatchLock(p, j)
                              => SlotsInv'
           /\ DispatchInsert(p) \/ DispatchFails(p) => SlotsInv'
<1> USE DEF slots
<1>1. \A r \in RunIds : Answer(p, r) => want' \in [Procs -> RunIds \cup {0}]
    BY DEF Answer, SlotsInv, Base, TypeOK
<1>2. \A j \in Jobs : DispatchSkipped(p, j) => SlotsInv'
    <2> TAKE j \in Jobs
    <2> HAVE DispatchSkipped(p, j)
    <2>1. want' \in [Procs -> RunIds \cup {0}]
        BY <1>1 DEF DispatchSkipped, Room
    <2>2. disp' \in [Procs -> Jobs \cup {NoJob}]
        BY DEF DispatchSkipped, SlotsInv, Base, TypeOK
    <2> QED
        BY <2>1, <2>2, CreateStep DEF DispatchSkipped
<1>3. DispatchInsert(p) => SlotsInv'
    <2> HAVE DispatchInsert(p)
    <2>1. want' \in [Procs -> RunIds \cup {0}]
        BY <1>1 DEF DispatchInsert, Room
    <2>2. disp' \in [Procs -> Jobs \cup {NoJob}] /\ disp[p] \in Jobs
        BY DEF DispatchInsert, SlotsInv, Base, TypeOK
    <2> QED
        BY <2>1, <2>2, CreateStep, LocalWorker DEF DispatchInsert
<1>4. \A j \in Jobs : DispatchExisting(p, j) => SlotsInv'
    <2> TAKE j \in Jobs
    <2> HAVE DispatchExisting(p, j)
    <2>1. want' \in [Procs -> RunIds \cup {0}]
        BY <1>1 DEF DispatchExisting, inflight_runs_of_job, RowsOf
    <2>2. TypeOK'
        BY <2>1 DEF DispatchExisting, tables, envs, SlotsInv, Base, TypeOK
    <2> QED
        BY <2>2, QuietStep DEF DispatchExisting
<1>5. \A j \in Jobs : DispatchLock(p, j) => SlotsInv'
    <2> TAKE j \in Jobs
    <2> HAVE DispatchLock(p, j)
    <2>1. TypeOK'
        BY DEF DispatchLock, tables, envs, SlotsInv, Base, TypeOK
    <2> QED
        BY <2>1, QuietStep DEF DispatchLock
<1>6. DispatchFails(p) => SlotsInv'
    <2> HAVE DispatchFails(p)
    <2>1. CASE p = Daemon
        <3>1. TypeOK'
            BY <2>1 DEF DispatchFails, tables, envs, SlotsInv, Base, TypeOK
        <3> QED
            BY <2>1, <3>1, QuietStep DEF DispatchFails
    <2>2. CASE p # Daemon
        BY <2>2, GoneStep DEF DispatchFails, envs, SlotsInv, Base, TypeOK
    <2> QED
        BY <2>1, <2>2
<1> QED
    BY <1>2, <1>3, <1>4, <1>5, <1>6

\* retry_tick changes one row.
LEMMA RetryKeepsSlots ==
    ASSUME SlotsInv, NEW r \in RunIds, retry_tick(r)
    PROVE  SlotsInv'
<1>1. runs \in Table /\ runs[r].st # "ABSENT"
    BY DEF retry_tick, SlotsInv, Base, TypeOK
<1>2. runs' \in Table /\ RowsKept(runs, runs')
    <2>1. "CANCELLED" \in Terminal
        BY DEF Terminal
    <2>2. CASE runs' = finish_run(runs, r, "CANCELLED")
        BY <1>1, <2>1, <2>2, LocalFinish
    <2>3. CASE runs' = Update(runs, r, [runs[r] EXCEPT !.st = "QUEUED"])
        BY <1>1, <2>3, LocalQueued
    <2> QED
        BY <2>2, <2>3 DEF retry_tick
<1>3. TypeOK'
    BY <1>2 DEF retry_tick, procs, slots, envs, SlotsInv, Base, TypeOK
<1> QED
    BY <1>1, <1>2, <1>3, RowStep DEF retry_tick, procs, slots, SameExecution

\* The list of execute_queued, and the rows that are not claimed.
LEMMA ServeKeepsSlots ==
    ASSUME SlotsInv, NEW p \in Procs
    PROVE  /\ execute_queued(p) => SlotsInv'
           /\ \A r \in RunIds : ServeRemoved(p, r) \/ ServeSkip(p, r) => SlotsInv'
<1> USE DEF slots, envs
<1>1. execute_queued(p) => SlotsInv'
    <2> HAVE execute_queued(p)
    <2>1. queued_runs(runs) \in SUBSET RunIds
        BY DEF queued_runs
    <2>2. TypeOK'
        BY <2>1 DEF execute_queued, tables, SlotsInv, Base, TypeOK
    <2> QED
        BY <2>2, QuietStep DEF execute_queued
<1>2. \A r \in RunIds : Serves(p, r) => queue' \in [Procs -> SUBSET RunIds]
    BY DEF Serves, SlotsInv, Base, TypeOK
<1>3. \A r \in RunIds : ServeSkip(p, r) => SlotsInv'
    <2> TAKE r \in RunIds
    <2> HAVE ServeSkip(p, r)
    <2>1. TypeOK'
        BY <1>2 DEF ServeSkip, tables, SlotsInv, Base, TypeOK
    <2> QED
        BY <2>1, QuietStep DEF ServeSkip
<1>4. \A r \in RunIds : ServeRemoved(p, r) => SlotsInv'
    <2> TAKE r \in RunIds
    <2> HAVE ServeRemoved(p, r)
    <2>1. runs \in Table
        BY DEF SlotsInv, Base, TypeOK
    <2>2. "FAILED" \in Terminal
        BY DEF Terminal
    <2>3. runs' \in Table /\ RowsKept(runs, runs')
        BY <2>1, <2>2, LocalFinish DEF ServeRemoved
    <2>4. TypeOK'
        BY <1>2, <2>3 DEF ServeRemoved, SlotsInv, Base, TypeOK
    <2> QED
        BY <2>3, <2>4, RowStep DEF ServeRemoved, SameExecution
<1> QED
    BY <1>1, <1>3, <1>4

\* What a claim does to the table and to the executions.
LEMMA ClaimFacts ==
    ASSUME SlotsInv, NEW p \in Procs, NEW r \in RunIds, ServeClaim(p, r)
    PROVE  /\ runs[r].st = "QUEUED" /\ runs[r].job \in Jobs
           /\ runs' \in Table /\ RowsKept(runs, runs')
           /\ runs'[r].st = "SYNCING" /\ runs'[r].token = nextTok /\ runs'[r].job = runs[r].job
           /\ \A q \in RunIds \ {r} : runs'[q] = runs[q]
           /\ nextTok \in Tokens /\ ex[nextTok].ph = "none"
           /\ ex' \in [Tokens -> Execution]
           /\ ex'[nextTok].ph = "spawned" /\ ex'[nextTok].proc = p /\ ex'[nextTok].run = r
           /\ ex'[nextTok].job = runs[r].job
           /\ \A t \in Tokens \ {nextTok} : ex'[t] = ex[t]
<1>1. runs \in Table /\ runs[r].st = "QUEUED" /\ runs[r].job \in Jobs
    BY DEF ServeClaim, Claims, claimable, SlotsInv, Base, TypeOK, RowsInv
<1>2. nextTok \in Tokens /\ ex[nextTok].ph = "none"
    BY DEF ServeClaim, SlotsInv, Base, ExecutionsInv, Tokens
<1>3. /\ runs' \in Table
      /\ Claimed(runs[r], runs'[r], Local, nextTok)
      /\ \A q \in RunIds \ {r} : runs'[q] = runs[q]
    BY <1>1, <1>2, LocalWorker, ClaimRun DEF ServeClaim
<1>4. RowsKept(runs, runs')
    BY <1>1, <1>3 DEF Claimed, RowsKept
<1> DEFINE e == [NoEx EXCEPT !.ph = "spawned", !.proc = p, !.run = r,
                              !.job = runs[r].job]
<1>5. e \in Execution /\ e.ph = "spawned" /\ e.proc = p /\ e.run = r /\ e.job = runs[r].job
    BY <1>1 DEF NoEx, Execution, Phases
<1>6. ex' = [ex EXCEPT ![nextTok] = e]
    BY DEF ServeClaim
<1> HIDE DEF e
<1> QED
    BY <1>1, <1>2, <1>3, <1>4, <1>5, <1>6 DEF Claimed, SlotsInv, Base, TypeOK

\* A claim takes one permit, one place of its job, and begins one execution.
LEMMA ClaimKeepsSlots ==
    ASSUME SlotsInv, NEW p \in Procs, NEW r \in RunIds, ServeClaim(p, r)
    PROVE  SlotsInv'
<1>a. PICK n \in Tokens : n = nextTok
    BY ClaimFacts
<1>b. PICK j \in Jobs : j = runs[r].job
    BY ClaimFacts
<1>1. /\ runs[r].st = "QUEUED"
      /\ runs' \in Table /\ RowsKept(runs, runs')
      /\ runs'[r].st = "SYNCING" /\ runs'[r].job = j
      /\ \A q \in RunIds \ {r} : runs'[q] = runs[q]
      /\ ex[n].ph = "none"
      /\ ex' \in [Tokens -> Execution]
      /\ ex'[n].ph = "spawned" /\ ex'[n].proc = p /\ ex'[n].run = r /\ ex'[n].job = j
      /\ \A t \in Tokens \ {n} : ex'[t] = ex[t]
    BY <1>a, <1>b, ClaimFacts
<1>2. permits[p] > 0 /\ active[p][j] < MaxConc[j]
    BY <1>b DEF ServeClaim, Claims
<1>3. active' = [active EXCEPT ![p] = [active[p] EXCEPT ![j] = active[p][j] + 1]]
    BY <1>b DEF ServeClaim, SlotsInv, Base, TypeOK
<1>4. /\ permits' = [permits EXCEPT ![p] = permits[p] - 1] /\ nextTok' = n + 1
      /\ queue' \in [Procs -> SUBSET RunIds]
      /\ \A q \in Procs : queue'[q] \subseteq queue[q]
      /\ UNCHANGED <<known, nextId, up, goal, want, disp, tokens, envs>>
    BY <1>a DEF ServeClaim, Serves, SlotsInv, Base, TypeOK
<1>5. TypeOK'
    <2>1. active' \in [Procs -> [Jobs -> Nat]]
        BY <1>1, <1>3 DEF SlotsInv, Base, TypeOK
    <2>2. permits' \in [Procs -> 0..Permits]
        BY <1>2, <1>4, StandaloneAssumption DEF SlotsInv, Base, TypeOK
    <2>3. nextTok' \in 1..(MaxTokens + 1)
        BY <1>1, <1>4, StoreAssumption DEF Tokens
    <2> QED
        BY <1>1, <1>4, <2>1, <2>2, <2>3 DEF SlotsInv, Base, TypeOK, envs
<1>6. RowsInv'
    BY <1>1, <1>4 DEF SlotsInv, Base, TypeOK, RowsInv, RowsKept
<1>7. ExecutionsInv'
    <2>1. ASSUME NEW t \in Tokens, t # n, ex[t].ph # "none"
          PROVE  /\ t < nextTok' /\ ex[t].proc \in Procs /\ ex[t].run \in RunIds
                 /\ ex[t].job \in Jobs /\ ex[t].run < nextId'
                 /\ runs'[ex[t].run].st # "ABSENT" => runs'[ex[t].run].job = ex[t].job
        <3>1. /\ t < nextTok /\ ex[t].run \in RunIds /\ ex[t].proc \in Procs
              /\ ex[t].job \in Jobs /\ ex[t].run < nextId
              /\ runs[ex[t].run].st # "ABSENT" => runs[ex[t].run].job = ex[t].job
            BY <2>1 DEF SlotsInv, Base, ExecutionsInv
        <3> QED
            BY <1>a, <1>1, <1>4, <3>1 DEF RowsKept, Tokens
    <2>2. n < nextTok' /\ r < nextId'
        BY <1>1, <1>4 DEF Tokens, RunIds, SlotsInv, Base, TypeOK, RowsInv
    <2> QED
        BY <1>1, <2>1, <2>2 DEF ExecutionsInv
<1>8. Live(p)' = Live(p) \cup {n} /\ \A q \in Procs \ {p} : Live(q)' = Live(q)
    BY <1>1 DEF Live
<1>9. \A q \in Procs, t \in Tokens : t \in Live(q) => JobOf(t)' = JobOf(t)
    BY <1>1 DEF Live, JobOf
<1>10. JobOf(n)' = j
    BY <1>1 DEF JobOf
<1>11. On(p, j)' = On(p, j) \cup {n} /\ n \notin On(p, j) /\ n \notin Live(p)
    BY <1>1, <1>8, <1>9, <1>10 DEF On, Live
<1>12. \A q \in Procs, k \in Jobs : q # p \/ k # j => On(q, k)' = On(q, k)
    BY <1>8, <1>9, <1>10 DEF On, Live
<1>13. \A q \in Procs, k \in Jobs : On(q, k) \in SUBSET Tokens /\ Live(q) \in SUBSET Tokens
    BY DEF On, Live
<1>14. \A q \in Procs : /\ permits[q] = Permits - Cardinality(Live(q))
                        /\ \A k \in Jobs : active[q][k] = Cardinality(On(q, k))
    BY DEF SlotsInv, SlotsAccounted, On
<1>15. /\ Cardinality(Live(p)') = Cardinality(Live(p)) + 1
       /\ Cardinality(On(p, j)') = Cardinality(On(p, j)) + 1
       /\ Cardinality(Live(p)) \in Nat
    <2>1. IsFiniteSet(Live(p)) /\ IsFiniteSet(On(p, j)) /\ Cardinality(Live(p)) \in Nat
        BY <1>13, TokensFinite
    <2>2. Cardinality(Live(p) \cup {n}) = Cardinality(Live(p)) + 1
        BY <1>11, <2>1, FS_AddElement
    <2>3. Cardinality(On(p, j) \cup {n}) = Cardinality(On(p, j)) + 1
        BY <1>11, <2>1, FS_AddElement
    <2> QED
        BY <1>8, <1>11, <2>1, <2>2, <2>3
<1>16. \A q \in Procs : permits'[q] = Permits - Cardinality(Live(q)')
    <2>1. permits'[p] = permits[p] - 1 /\ \A q \in Procs \ {p} : permits'[q] = permits[q]
        BY <1>4 DEF SlotsInv, Base, TypeOK
    <2>2. permits'[p] = Permits - Cardinality(Live(p)')
        BY <1>14, <1>15, <2>1, StandaloneAssumption
    <2>3. \A q \in Procs \ {p} : permits'[q] = Permits - Cardinality(Live(q)')
        BY <1>8, <1>14, <2>1
    <2> QED
        BY <2>2, <2>3
<1>17. \A q \in Procs, k \in Jobs : active'[q][k] = Cardinality(On(q, k)')
    BY <1>1, <1>3, <1>12, <1>14, <1>15 DEF SlotsInv, Base, TypeOK
<1>18. SlotsAccounted'
    BY <1>16, <1>17 DEF SlotsAccounted, On
<1>19. GateInv'
    BY <1>1, <1>2, <1>3, StandaloneAssumption DEF GateInv, SlotsInv, Base, TypeOK
<1> QED
    BY <1>5, <1>6, <1>7, <1>18, <1>19 DEF SlotsInv, Base

\* The phases of an execution that neither begin nor end it.
LEMMA TasksKeepSlots ==
    ASSUME SlotsInv, NEW t \in Tokens, NEW res \in Results
    PROVE  /\ Register(t) \/ FinishRun(t) \/ MarkRetrying(t) => SlotsInv'
           /\ AcquireStorage(t) \/ RunOnceEnds(t, res) => SlotsInv'
<1> USE DEF procs, slots, envs
<1>1. ex[t] \in Execution /\ runs \in Table
    BY DEF SlotsInv, Base, TypeOK
<1>2. \A ph \in Phases \ {"none"}, rs \in Results :
        LET e == [ex[t] EXCEPT !.ph = ph]
            f == [e EXCEPT !.res = rs]
        IN  /\ e \in Execution /\ e.ph = ph /\ e.proc = ex[t].proc /\ e.run = ex[t].run /\ e.job = ex[t].job
            /\ f \in Execution /\ f.ph = ph /\ f.proc = ex[t].proc /\ f.run = ex[t].run /\ f.job = ex[t].job
    BY <1>1 DEF Execution
<1>3. ASSUME NEW e \in Execution, e.ph # "none", e.proc = ex[t].proc, e.run = ex[t].run /\ e.job = ex[t].job,
             ex' = [ex EXCEPT ![t] = e], ex[t].ph # "none"
      PROVE  /\ ex' \in [Tokens -> Execution]
             /\ \A u \in Tokens : SameExecution(u)
    BY <1>3 DEF SlotsInv, Base, TypeOK, SameExecution
<1>4. ASSUME NEW e \in Execution, e.ph # "none", e.proc = ex[t].proc, e.run = ex[t].run /\ e.job = ex[t].job,
             ex' = [ex EXCEPT ![t] = e], ex[t].ph # "none",
             runs' \in Table, RowsKept(runs, runs'),
             tokens' \in [Procs -> [Jobs -> Tokens \cup {NoToken}]],
             UNCHANGED <<known, nextId, nextTok, procs, active, permits, envs>>
      PROVE  SlotsInv'
    <2>1. TypeOK'
        BY <1>3, <1>4 DEF SlotsInv, Base, TypeOK
    <2> QED
        BY <1>3, <1>4, <2>1, RowStep
<1>5. ex[t].ph # "none" => /\ ex[t].run \in RunIds
                           /\ ex[t].proc \in Procs /\ JobOf(t) \in Jobs
    BY DEF SlotsInv, Base, ExecutionsInv, JobOf
<1>6. tokens \in [Procs -> [Jobs -> Tokens \cup {NoToken}]] /\ RowsKept(runs, runs)
    BY DEF SlotsInv, Base, TypeOK, RowsKept
<1>7. /\ "registered" \in Phases \ {"none"} /\ "writing" \in Phases \ {"none"}
      /\ "ended" \in Phases \ {"none"} /\ "marking" \in Phases \ {"none"}
      /\ "leaving" \in Phases \ {"none"}
    BY DEF Phases
<1>8. Register(t) => SlotsInv'
    <2> HAVE Register(t)
    <2>1. runs' \in Table /\ RowsKept(runs, runs')
        BY <1>1, <1>5, LocalStatus, StatusFacts DEF Register
    <2>2. tokens' \in [Procs -> [Jobs -> Tokens \cup {NoToken}]]
        BY <1>5, <1>6 DEF Register
    <2> DEFINE e == [ex[t] EXCEPT !.ph = "registered"]
    <2>3. ex' = [ex EXCEPT ![t] = e]
        BY DEF Register, SlotsInv, Base, TypeOK
    <2>4. e \in Execution /\ e.ph # "none" /\ e.proc = ex[t].proc /\ e.run = ex[t].run /\ e.job = ex[t].job
        BY <1>2, <1>7 DEF Results
    <2> HIDE DEF e
    <2> QED
        BY <1>4, <2>1, <2>2, <2>3, <2>4 DEF Register
<1>9. FinishRun(t) => SlotsInv'
    <2> HAVE FinishRun(t)
    <2>1. FinalStatus(ex[t].res) \in Terminal
        BY DEF FinalStatus, Terminal
    <2>2. runs' \in Table /\ RowsKept(runs, runs')
        BY <1>1, <1>5, <2>1, LocalFinish, LocalRetry DEF FinishRun
    <2>3. PICK ph \in {"marking", "leaving"} : ex' = [ex EXCEPT ![t] = [ex[t] EXCEPT !.ph = ph]]
        BY DEF FinishRun, SlotsInv, Base, TypeOK
    <2> DEFINE e == [ex[t] EXCEPT !.ph = ph]
    <2>4. e \in Execution /\ e.ph # "none" /\ e.proc = ex[t].proc /\ e.run = ex[t].run /\ e.job = ex[t].job
        BY <1>2, <1>7 DEF Results
    <2>5. ex' = [ex EXCEPT ![t] = e]
        BY <2>3
    <2> HIDE DEF e
    <2> QED
        BY <1>4, <1>6, <2>2, <2>4, <2>5 DEF FinishRun
<1>10. MarkRetrying(t) => SlotsInv'
    <2> HAVE MarkRetrying(t)
    <2>1. runs' \in Table /\ RowsKept(runs, runs')
        BY <1>1, <1>5, LocalStatus, StatusFacts DEF MarkRetrying
    <2> DEFINE e == [ex[t] EXCEPT !.ph = "leaving"]
    <2>2. ex' = [ex EXCEPT ![t] = e]
        BY DEF MarkRetrying, SlotsInv, Base, TypeOK
    <2>3. e \in Execution /\ e.ph # "none" /\ e.proc = ex[t].proc /\ e.run = ex[t].run /\ e.job = ex[t].job
        BY <1>2, <1>7 DEF Results
    <2> HIDE DEF e
    <2> QED
        BY <1>4, <1>6, <2>1, <2>2, <2>3 DEF MarkRetrying
<1>11. ASSUME NEW rs \in Results, End(t, rs), ex[t].ph # "none",
              UNCHANGED <<tables, procs, slots, envs>>
       PROVE  SlotsInv'
    <2> DEFINE e == [[ex[t] EXCEPT !.ph = "ended"] EXCEPT !.res = rs]
    <2>1. ex' = [ex EXCEPT ![t] = e]
        <3> DEFINE f == [ex EXCEPT ![t].ph = "ended"]
        <3>1. f = [ex EXCEPT ![t] = [ex[t] EXCEPT !.ph = "ended"]] /\ f \in [Tokens -> Execution]
            BY <1>2, <1>7 DEF SlotsInv, Base, TypeOK, Results
        <3>2. ex' = [f EXCEPT ![t].res = rs]
            BY <1>11 DEF End
        <3> HIDE DEF f
        <3>3. f[t] = [ex[t] EXCEPT !.ph = "ended"]
            BY <3>1 DEF SlotsInv, Base, TypeOK
        <3> QED
            BY <3>1, <3>2, <3>3 DEF SlotsInv, Base, TypeOK
    <2>2. e \in Execution /\ e.ph # "none" /\ e.proc = ex[t].proc /\ e.run = ex[t].run /\ e.job = ex[t].job
        BY <1>1, <1>7 DEF Execution
    <2> HIDE DEF e
    <2> QED
        BY <1>1, <1>4, <1>6, <1>11, <2>1, <2>2 DEF tables
<1>12. RunOnceEnds(t, res) => SlotsInv'
    BY <1>11 DEF RunOnceEnds
<1>13. AcquireStorage(t) => SlotsInv'
    <2> HAVE AcquireStorage(t)
    <2>1. CASE End(t, "failed") \/ End(t, "cancelled")
        BY <1>11, <2>1 DEF AcquireStorage, Results
    <2>2. CASE ex' = [ex EXCEPT ![t].ph = "writing"]
        <3> DEFINE e == [ex[t] EXCEPT !.ph = "writing"]
        <3>1. ex' = [ex EXCEPT ![t] = e]
            BY <2>2 DEF SlotsInv, Base, TypeOK
        <3>2. e \in Execution /\ e.ph # "none" /\ e.proc = ex[t].proc /\ e.run = ex[t].run /\ e.job = ex[t].job
            BY <1>2, <1>7 DEF Results
        <3> HIDE DEF e
        <3> QED
            BY <1>1, <1>4, <1>6, <3>1, <3>2 DEF AcquireStorage, tables
    <2> QED
        BY <2>1, <2>2 DEF AcquireStorage
<1> QED
    BY <1>8, <1>9, <1>10, <1>12, <1>13

\* The last statement of an execution gives back one permit and one place.
LEMMA LeaveKeepsSlots ==
    ASSUME SlotsInv, NEW t \in Tokens, Leave(t)
    PROVE  SlotsInv'
<1>1. ex[t].ph # "none" /\ ex[t].proc \in Procs /\ JobOf(t) \in Jobs
    BY DEF Leave, SlotsInv, Base, ExecutionsInv, JobOf
<1>2. PICK p \in Procs : p = ex[t].proc
    BY <1>1
<1>3. PICK j \in Jobs : j = JobOf(t)
    BY <1>1
<1>4. /\ tokens' = [tokens EXCEPT ![p] = [tokens[p] EXCEPT ![j] = NoToken]]
      /\ active' = [active EXCEPT ![p] = [active[p] EXCEPT ![j] = active[p][j] - 1]]
      /\ permits' = [permits EXCEPT ![p] = permits[p] + 1]
      /\ UNCHANGED <<tables, procs, envs>>
    BY <1>2, <1>3 DEF Leave, SlotsInv, Base, TypeOK
<1>5. /\ ex' \in [Tokens -> Execution] /\ ex'[t].ph = "none"
      /\ \A u \in Tokens \ {t} : ex'[u] = ex[u]
    <2>1. NoEx \in Execution /\ NoEx.ph = "none"
        BY DEF NoEx, Execution, Phases
    <2> QED
        BY <2>1 DEF Leave, SlotsInv, Base, TypeOK
<1>6. Live(p)' = Live(p) \ {t} /\ \A q \in Procs \ {p} : Live(q)' = Live(q)
    BY <1>1, <1>2, <1>5 DEF Live
<1>7. \A u \in Tokens \ {t} : JobOf(u)' = JobOf(u)
    BY <1>4, <1>5 DEF JobOf, tables
<1>8. On(p, j)' = On(p, j) \ {t} /\ t \in On(p, j) /\ t \in Live(p)
    BY <1>1, <1>2, <1>3, <1>6, <1>7 DEF On, Live
<1>9. \A q \in Procs, k \in Jobs : q # p \/ k # j => On(q, k)' = On(q, k)
    BY <1>2, <1>3, <1>6, <1>7 DEF On, Live
<1>10. \A q \in Procs, k \in Jobs : On(q, k) \in SUBSET Tokens /\ Live(q) \in SUBSET Tokens
    BY DEF On, Live
<1>11. \A q \in Procs : /\ permits[q] = Permits - Cardinality(Live(q))
                        /\ \A k \in Jobs : active[q][k] = Cardinality(On(q, k))
    BY DEF SlotsInv, SlotsAccounted, On
<1>12. /\ Cardinality(Live(p)') = Cardinality(Live(p)) - 1
       /\ Cardinality(On(p, j)') = Cardinality(On(p, j)) - 1
       /\ Cardinality(Live(p)) \in Nat \ {0} /\ Cardinality(On(p, j)) \in Nat \ {0}
    <2>1. /\ IsFiniteSet(Live(p)) /\ IsFiniteSet(On(p, j))
          /\ Cardinality(Live(p)) \in Nat /\ Cardinality(On(p, j)) \in Nat
        BY <1>10, TokensFinite
    <2>2. Cardinality(Live(p) \ {t}) = Cardinality(Live(p)) - 1
        BY <1>8, <2>1, FS_RemoveElement
    <2>3. Cardinality(On(p, j) \ {t}) = Cardinality(On(p, j)) - 1
        BY <1>8, <2>1, FS_RemoveElement
    <2>4. Cardinality(Live(p)) # 0 /\ Cardinality(On(p, j)) # 0
        BY <1>8, <2>1, FS_EmptySet
    <2> QED
        BY <1>6, <1>8, <2>1, <2>2, <2>3, <2>4
<1>13. permits[p] < Permits /\ active[p][j] > 0
    BY <1>11, <1>12, StandaloneAssumption
<1>14. TypeOK'
    <2>1. active' \in [Procs -> [Jobs -> Nat]]
        BY <1>4, <1>13 DEF SlotsInv, Base, TypeOK
    <2>2. permits' \in [Procs -> 0..Permits]
        BY <1>4, <1>13, StandaloneAssumption DEF SlotsInv, Base, TypeOK
    <2>3. tokens' \in [Procs -> [Jobs -> Tokens \cup {NoToken}]]
        BY <1>4 DEF SlotsInv, Base, TypeOK
    <2> QED
        BY <1>4, <1>5, <2>1, <2>2, <2>3 DEF SlotsInv, Base, TypeOK, tables, procs, envs
<1>15. RowsInv' /\ ExecutionsInv'
    BY <1>4, <1>5 DEF SlotsInv, Base, RowsInv, ExecutionsInv, tables
<1>16. \A q \in Procs : permits'[q] = Permits - Cardinality(Live(q)')
    <2>1. permits'[p] = permits[p] + 1 /\ \A q \in Procs \ {p} : permits'[q] = permits[q]
        BY <1>4 DEF SlotsInv, Base, TypeOK
    <2>2. permits'[p] = Permits - Cardinality(Live(p)')
        BY <1>11, <1>12, <2>1, StandaloneAssumption
    <2>3. \A q \in Procs \ {p} : permits'[q] = Permits - Cardinality(Live(q)')
        BY <1>6, <1>11, <2>1
    <2> QED
        BY <2>2, <2>3
<1>17. \A q \in Procs, k \in Jobs : active'[q][k] = Cardinality(On(q, k)')
    BY <1>4, <1>9, <1>11, <1>12 DEF SlotsInv, Base, TypeOK
<1>18. SlotsAccounted'
    BY <1>16, <1>17 DEF SlotsAccounted, On
<1>19. GateInv'
    BY <1>4, StandaloneAssumption DEF GateInv, SlotsInv, Base, TypeOK
<1> QED
    BY <1>14, <1>15, <1>18, <1>19 DEF SlotsInv, Base

\* synora stop, and what the daemon makes of it.
LEMMA ControlKeepsSlots ==
    ASSUME SlotsInv, NEW j \in Jobs
    PROVE  cmd_stop(j) \/ process_control_dir(j) => SlotsInv'
<1>1. cmd_stop(j) => SlotsInv'
    <2> HAVE cmd_stop(j)
    <2>1. TypeOK'
        BY StandaloneAssumption DEF cmd_stop, tables, procs, slots, SlotsInv, Base, TypeOK
    <2> QED
        BY <2>1, QuietStep DEF cmd_stop, procs, slots
<1>2. process_control_dir(j) => SlotsInv'
    <2> HAVE process_control_dir(j)
    <2>1. PICK t \in Tokens : t = tokens[Daemon][j]
        BY StandaloneAssumption DEF process_control_dir, SlotsInv, Base, TypeOK
    <2> DEFINE e == [ex[t] EXCEPT !.cancel = TRUE]
    <2>2. ex' = [ex EXCEPT ![t] = e]
        BY <2>1 DEF process_control_dir, SlotsInv, Base, TypeOK
    <2>3. e \in Execution /\ e.ph = ex[t].ph /\ e.proc = ex[t].proc /\ e.run = ex[t].run /\ e.job = ex[t].job
        <3>1. ex[t] \in Execution
            BY DEF SlotsInv, Base, TypeOK
        <3> QED
            BY <3>1 DEF Execution
    <2> HIDE DEF e
    <2>4. /\ ex' \in [Tokens -> Execution]
          /\ \A u \in Tokens : ex'[u].ph = ex[u].ph /\ ex'[u].proc = ex[u].proc
                               /\ ex'[u].run = ex[u].run /\ ex'[u].job = ex[u].job
        BY <2>2, <2>3 DEF SlotsInv, Base, TypeOK
    <2>5. TypeOK' /\ RowsKept(runs, runs')
        BY <2>4 DEF process_control_dir, tables, procs, slots, SlotsInv, Base, TypeOK, RowsKept
    <2> QED
        BY <2>4, <2>5, RowStep DEF process_control_dir, tables, procs, slots, SameExecution
<1> QED
    BY <1>1, <1>2

\* The first states: nothing runs, and at most one row was left behind.
LEMMA SlotsInit == Init => SlotsInv
<1> HAVE Init
<1>1. [r \in RunIds |-> NoRow] \in Table /\ NoEx \in Execution
    BY StoreAssumption, StatusFacts DEF NoRow, Row, NoEx, Execution, Phases
<1>2. /\ runs \in Table /\ nextId \in 1..(MaxRuns + 1) /\ known \subseteq Jobs
      /\ \A r \in RunIds : /\ r >= nextId => runs[r].st = "ABSENT"
                           /\ runs[r].st # "ABSENT" => runs[r].job \in Jobs
    <2>1. CASE runs = [r \in RunIds |-> NoRow] /\ known = {} /\ nextId = 1
        BY <1>1, <2>1, StoreAssumption DEF NoRow
    <2>2. CASE Leftover
        <3>1. PICK j \in Jobs, st \in {"QUEUED", "RETRYING"} :
                /\ 1 \in RunIds
                /\ runs = create_run([r \in RunIds |-> NoRow], 1, j, Local, st)
                /\ known = {j} /\ nextId = 2
            BY <2>2 DEF Leftover
        <3> DEFINE T == [r \in RunIds |-> NoRow]
        <3>2. T \in Table /\ \A r \in RunIds : T[r].st = "ABSENT"
            BY <1>1 DEF NoRow
        <3> HIDE DEF T
        <3>3. /\ runs \in Table /\ runs[1].job = j
              /\ \A q \in RunIds \ {1} : runs[q] = T[q]
            <4>1. runs = create_run(T, 1, j, Local, st)
                BY <3>1 DEF T
            <4> QED
                BY <3>1, <3>2, <4>1, LocalWorker, LocalCreate
        <3> QED
            BY <3>1, <3>2, <3>3, StoreAssumption DEF RunIds
    <2> QED
        BY <2>1, <2>2 DEF Init
<1>3. \A t \in Tokens : ex[t].ph = "none"
    BY DEF Init, NoEx
<1>4. TypeOK
    <2>1. nextTok \in 1..(MaxTokens + 1) /\ stops \in 0..MaxStops /\ crashes \in 0..MaxCrashes
        BY StoreAssumption, StandaloneAssumption DEF Init
    <2>2. permits \in [Procs -> 0..Permits] /\ ex \in [Tokens -> Execution]
        BY <1>1, StandaloneAssumption DEF Init
    <2>3. queue \in [Procs -> SUBSET RunIds]
        <3>1. {} \in SUBSET RunIds
            OBVIOUS
        <3> QED
            BY <3>1 DEF Init
    <2>4. active \in [Procs -> [Jobs -> Nat]]
        BY DEF Init
    <2>5. tokens \in [Procs -> [Jobs -> Tokens \cup {NoToken}]]
        BY DEF Init
    <2> QED
        BY <1>2, <2>1, <2>2, <2>3, <2>4, <2>5 DEF Init, TypeOK
<1>5. ExecutionsInv /\ RowsInv
    BY <1>2, <1>3 DEF ExecutionsInv, RowsInv
<1>6. \A p \in Procs : Live(p) = {}
    BY <1>3 DEF Live
<1>7. SlotsAccounted
    <2>1. Cardinality({}) = 0
        BY FS_EmptySet
    <2>2. \A p \in Procs, j \in Jobs : On(p, j) = {}
        BY <1>6 DEF On
    <2>3. \A p \in Procs, j \in Jobs : Cardinality(On(p, j)) = 0
        BY <2>1, <2>2
    <2>4. \A p \in Procs : Cardinality(Live(p)) = 0
        BY <1>6, <2>1
    <2>5. \A p \in Procs : permits[p] = Permits - Cardinality(Live(p))
        BY <2>4, StandaloneAssumption DEF Init
    <2>6. \A p \in Procs, j \in Jobs : active[p][j] = Cardinality(On(p, j))
        BY <2>3 DEF Init
    <2> QED
        BY <2>5, <2>6 DEF SlotsAccounted, On
<1>8. GateInv
    BY StandaloneAssumption DEF Init, GateInv
<1> QED
    BY <1>4, <1>5, <1>7, <1>8 DEF SlotsInv, Base

\* Every step keeps the slots accounted for.
LEMMA SlotsStep == SlotsInv /\ [Next]_vars => SlotsInv'
<1> SUFFICES ASSUME SlotsInv, [Next]_vars PROVE SlotsInv'
    OBVIOUS
<1>1. CASE UNCHANGED vars
    <2>1. TypeOK'
        BY <1>1 DEF vars, tables, procs, slots, envs, SlotsInv, Base, TypeOK
    <2> QED
        BY <1>1, <2>1, QuietStep DEF vars, procs
<1>2. CASE Start \/ Shutdown \/ DaemonExit
    BY <1>2, StandaloneAssumption, ProcessesKeepSlots
<1>3. CASE Schedule
    BY <1>3, StandaloneAssumption, DispatchKeepsSlots DEF Schedule
<1>4. ASSUME NEW p \in Procs,
             ProcStep(p) \/ Crash(p) \/ \E j \in Jobs : OneShot(p, j) \/ OneShotNext(p, j)
      PROVE  SlotsInv'
    BY <1>4, ProcessesKeepSlots, DispatchKeepsSlots DEF ProcStep
<1>5. ASSUME NEW p \in Procs, Serve(p)
      PROVE  SlotsInv'
    BY <1>5, ServeKeepsSlots, ClaimKeepsSlots DEF Serve
<1>6. ASSUME NEW t \in Tokens, TaskStep(t) \/ Ends(t)
      PROVE  SlotsInv'
    <2>1. CASE TaskStep(t)
        <3>1. "failed" \in Results
            BY DEF Results
        <3> QED
            BY <2>1, <3>1, TasksKeepSlots, LeaveKeepsSlots DEF TaskStep
    <2>2. CASE Ends(t)
        BY <2>2, TasksKeepSlots DEF Ends
    <2> QED
        BY <1>6, <2>1, <2>2
<1>7. ASSUME NEW o \in orphans, OrphanEnds(o)
      PROVE  SlotsInv'
    BY <1>7, StandaloneAssumption, ProcessesKeepSlots
<1>8. ASSUME NEW r \in RunIds, retry_tick(r)
      PROVE  SlotsInv'
    BY <1>8, RetryKeepsSlots
<1>9. ASSUME NEW j \in Jobs, cmd_stop(j) \/ process_control_dir(j)
      PROVE  SlotsInv'
    BY <1>9, ControlKeepsSlots
<1> QED
    BY <1>1, <1>2, <1>3, <1>4, <1>5, <1>6, <1>7, <1>8, <1>9 DEF Next

\* A process has given back exactly the slots of the executions that are
\* over, whatever crashes, retries, refused claims and stops came before: no
\* way out of execute_run leaks a permit of global_sem or a place in
\* Engine.active, and none gives one back twice.
THEOREM SlotsBalance == Spec => []LocalInv
<1>1. SlotsInv => LocalInv
    BY DEF SlotsInv, Base, LocalInv
<1> QED
    BY <1>1, SlotsInit, SlotsStep, PTL DEF Spec

-----------------------------------------------------------------------------
(* What the actions do to executions.                                       *)

\* Only execution t changes, and it keeps its process, its row and its job.
Moves(t) ==
    /\ \A u \in Tokens \ {t} : ex'[u] = ex[u]
    /\ ex'[t].proc = ex[t].proc
    /\ ex'[t].run = ex[t].run
    /\ ex'[t].job = ex[t].job

\* The statements of an execution, and the phases they lead to.
LEMMA TaskFacts ==
    ASSUME TypeOK, NEW t \in Tokens
    PROVE  /\ Register(t) => Moves(t) /\ ex'[t].ph = "registered"
           /\ AcquireStorage(t) => Moves(t) /\ ex'[t].ph \in {"writing", "ended"}
           /\ \A res \in Results : RunOnceEnds(t, res) => Moves(t) /\ ex'[t].ph = "ended"
           /\ FinishRun(t) => Moves(t) /\ ex'[t].ph \in {"marking", "leaving"}
           /\ MarkRetrying(t) => Moves(t) /\ ex'[t].ph = "leaving"
<1>1. ex[t] \in Execution /\ ex \in [Tokens -> Execution]
    BY DEF TypeOK
<1>2. ASSUME NEW ph \in Phases, ex' = [ex EXCEPT ![t].ph = ph]
      PROVE  Moves(t) /\ ex'[t].ph = ph
    <2> DEFINE e == [ex[t] EXCEPT !.ph = ph]
    <2>1. e.ph = ph /\ e.proc = ex[t].proc /\ e.run = ex[t].run /\ e.job = ex[t].job
        BY <1>1 DEF Execution
    <2>2. ex' = [ex EXCEPT ![t] = e]
        BY <1>1, <1>2
    <2> HIDE DEF e
    <2> QED
        BY <1>1, <2>1, <2>2 DEF Moves
<1>3. ASSUME NEW res \in Results, End(t, res)
      PROVE  Moves(t) /\ ex'[t].ph = "ended"
    <2> DEFINE d == [ex[t] EXCEPT !.ph = "ended"]
               e == [d EXCEPT !.res = res]
               f == [ex EXCEPT ![t].ph = "ended"]
    <2>1. d \in Execution
        BY <1>1 DEF Execution, Phases
    <2>2. e.ph = "ended" /\ e.proc = ex[t].proc /\ e.run = ex[t].run /\ e.job = ex[t].job
        BY <1>1 DEF Execution
    <2>3. f = [ex EXCEPT ![t] = d] /\ ex' = [f EXCEPT ![t].res = res]
        BY <1>1, <1>3 DEF End
    <2> HIDE DEF f
    <2>4. f[t] = d /\ f \in [Tokens -> Execution] /\ \A u \in Tokens \ {t} : f[u] = ex[u]
        BY <1>1, <2>1, <2>3
    <2>5. ex' = [f EXCEPT ![t] = e]
        BY <2>3, <2>4
    <2> HIDE DEF d, e
    <2> QED
        BY <2>2, <2>4, <2>5 DEF Moves
<1>4. "failed" \in Results /\ "cancelled" \in Results
    BY DEF Results
<1>5. {"registered", "writing", "marking", "leaving"} \subseteq Phases
    BY DEF Phases
<1>6. Register(t) => Moves(t) /\ ex'[t].ph = "registered"
    BY <1>2, <1>5 DEF Register
<1>7. AcquireStorage(t) => Moves(t) /\ ex'[t].ph \in {"writing", "ended"}
    BY <1>2, <1>3, <1>4, <1>5 DEF AcquireStorage
<1>8. \A res \in Results : RunOnceEnds(t, res) => Moves(t) /\ ex'[t].ph = "ended"
    BY <1>3 DEF RunOnceEnds
<1>9. FinishRun(t) => Moves(t) /\ ex'[t].ph \in {"marking", "leaving"}
    BY <1>2, <1>5 DEF FinishRun
<1>10. MarkRetrying(t) => Moves(t) /\ ex'[t].ph = "leaving"
    BY <1>2, <1>5 DEF MarkRetrying
<1> QED
    BY <1>6, <1>7, <1>8, <1>9, <1>10

\* The daemon's stop sets a flag and nothing else.
LEMMA ControlFacts ==
    ASSUME TypeOK, NEW j \in Jobs, process_control_dir(j)
    PROVE  \A u \in Tokens : /\ ex'[u].ph = ex[u].ph /\ ex'[u].proc = ex[u].proc
                             /\ ex'[u].run = ex[u].run /\ ex'[u].job = ex[u].job
<1>1. PICK t \in Tokens : t = tokens[Daemon][j]
    BY StandaloneAssumption DEF process_control_dir, TypeOK
<1>2. ex[t] \in Execution /\ ex \in [Tokens -> Execution]
    BY DEF TypeOK
<1> DEFINE e == [ex[t] EXCEPT !.cancel = TRUE]
<1>3. ex' = [ex EXCEPT ![t] = e]
    BY <1>1, <1>2 DEF process_control_dir
<1>4. e.ph = ex[t].ph /\ e.proc = ex[t].proc /\ e.run = ex[t].run /\ e.job = ex[t].job
    BY <1>2 DEF Execution
<1> HIDE DEF e
<1> QED
    BY <1>2, <1>3, <1>4

\* A process that is gone has no execution; the others keep theirs.
LEMMA GoneFacts ==
    ASSUME TypeOK, NEW p \in Procs, Gone(p)
    PROVE  /\ \A t \in Tokens : \/ ex'[t].ph = "none"
                                \/ ex'[t] = ex[t] /\ ex[t].proc # p
           /\ \A q \in Procs \ {p} : tokens'[q] = tokens[q] /\ queue'[q] = queue[q]
           /\ queue'[p] = {}
           /\ UNCHANGED tables
<1>1. \A t \in Tokens : ex'[t] = IF t \in Live(p) THEN NoEx ELSE ex[t]
    BY DEF Gone
<1>2. NoEx.ph = "none"
    BY DEF NoEx
<1> QED
    BY <1>1, <1>2 DEF Gone, Live, TypeOK

-----------------------------------------------------------------------------
(* Stop reaches every execution of a job that is executed once at a time.   *)

OneAtATime == \A j \in Jobs : MaxConc[j] = 1

\* The phases in which stop_job must find the token.
Reached == {"registered", "writing"}

\* One process has one execution of a job.
LEMMA Solo ==
    ASSUME OneAtATime, SlotsInv, NEW t \in Tokens, NEW u \in Tokens,
           ex[t].ph # "none", ex[u].ph # "none",
           ex[t].proc = ex[u].proc, JobOf(t) = JobOf(u)
    PROVE  t = u
<1>1. PICK p \in Procs : p = ex[t].proc
    BY DEF SlotsInv, Base, ExecutionsInv
<1>2. PICK j \in Jobs : j = JobOf(t)
    BY DEF SlotsInv, Base, ExecutionsInv, JobOf
<1>3. t \in On(p, j) /\ u \in On(p, j) /\ On(p, j) \in SUBSET Tokens
    BY <1>1, <1>2 DEF On, Live
<1>4. IsFiniteSet(On(p, j)) /\ Cardinality(On(p, j)) \in Nat
    BY <1>3, TokensFinite
<1>5. Cardinality(On(p, j)) <= 1
    BY DEF OneAtATime, SlotsInv, SlotsAccounted, GateInv, On
<1>6. Cardinality(On(p, j)) = 1
    <2>1. Cardinality(On(p, j)) # 0
        BY <1>3, <1>4, FS_EmptySet
    <2> QED
        BY <1>4, <1>5, <2>1
<1>7. \E x : On(p, j) = {x}
    BY <1>4, <1>6, FS_Singleton
<1> QED
    BY <1>3, <1>7

\* A step after which whoever can be reached could be reached before.
LEMMA ReachKept ==
    ASSUME Stoppable, tokens' = tokens,
           \A t \in Tokens : ex'[t].ph \in Reached =>
             ex[t].ph \in Reached /\ ex'[t].proc = ex[t].proc /\ ex'[t].job = ex[t].job
    PROVE  Stoppable'
BY DEF Stoppable, JobOf, Reached

\* Only row r may change, and it keeps its job.
Touches(r) ==
    /\ runs'[r].job = runs[r].job
    /\ runs'[r].st # "ABSENT" => runs[r].st # "ABSENT"
    /\ \A q \in RunIds \ {r} : runs'[q] = runs[q]

\* What the statements by id do to the table.
LEMMA RowFacts ==
    ASSUME SlotsInv
    PROVE  /\ \A r \in RunIds : retry_tick(r) =>
                Touches(r) /\ runs[r].st = "RETRYING" /\ runs'[r].st \in {"CANCELLED", "QUEUED"}
           /\ \A p \in Procs, r \in RunIds : ServeRemoved(p, r) => Touches(r)
           /\ \A t \in Tokens : Register(t) =>
                /\ ex[t].run \in RunIds /\ Touches(ex[t].run)
                /\ runs'[ex[t].run].st \in {"SYNCING", runs[ex[t].run].st}
                /\ runs'[ex[t].run].token = runs[ex[t].run].token
           /\ \A t \in Tokens : FinishRun(t) /\ ~Retries(t) =>
                /\ ex[t].run \in RunIds /\ Touches(ex[t].run)
                /\ runs[ex[t].run].st # "ABSENT" => runs'[ex[t].run].st \in Terminal
<1>1. runs \in Table
    BY DEF SlotsInv, Base, TypeOK
<1>2. "CANCELLED" \in Terminal /\ "FAILED" \in Terminal
    BY DEF Terminal
<1>3. \A t \in Tokens : ex[t].ph # "none" => ex[t].run \in RunIds
    BY DEF SlotsInv, Base, ExecutionsInv
<1>4. ASSUME NEW r \in RunIds, retry_tick(r)
      PROVE  Touches(r) /\ runs[r].st = "RETRYING" /\ runs'[r].st \in {"CANCELLED", "QUEUED"}
    <2>1. runs[r].st = "RETRYING"
        BY <1>4 DEF retry_tick
    <2>2. CASE runs' = finish_run(runs, r, "CANCELLED")
        BY <1>1, <1>2, <2>1, <2>2, LocalFinish DEF Touches
    <2>3. CASE runs' = Update(runs, r, [runs[r] EXCEPT !.st = "QUEUED"])
        BY <1>1, <2>1, <2>3, LocalQueued DEF Touches
    <2> QED
        BY <1>4, <2>1, <2>2, <2>3 DEF retry_tick
<1>5. ASSUME NEW p \in Procs, NEW r \in RunIds, ServeRemoved(p, r)
      PROVE  Touches(r)
    BY <1>1, <1>2, <1>5, LocalFinish DEF ServeRemoved, Touches, RowsKept
<1>6. ASSUME NEW t \in Tokens, Register(t)
      PROVE  /\ ex[t].run \in RunIds /\ Touches(ex[t].run)
             /\ runs'[ex[t].run].st \in {"SYNCING", runs[ex[t].run].st}
             /\ runs'[ex[t].run].token = runs[ex[t].run].token
    <2>1. ex[t].run \in RunIds
        BY <1>3, <1>6 DEF Register
    <2>2. "SYNCING" \in Status \ {"ABSENT"}
        BY StatusFacts
    <2> QED
        BY <1>1, <1>6, <2>1, <2>2, LocalStatus DEF Register, Touches, RowsKept
<1>7. ASSUME NEW t \in Tokens, FinishRun(t), ~Retries(t)
      PROVE  /\ ex[t].run \in RunIds /\ Touches(ex[t].run)
             /\ runs[ex[t].run].st # "ABSENT" => runs'[ex[t].run].st \in Terminal
    <2>1. ex[t].run \in RunIds
        BY <1>3, <1>7 DEF FinishRun
    <2>2. FinalStatus(ex[t].res) \in Terminal
        BY DEF FinalStatus, Terminal
    <2> QED
        BY <1>1, <1>7, <2>1, <2>2, LocalFinish DEF FinishRun, Touches, RowsKept
<1> QED
    BY <1>4, <1>5, <1>6, <1>7

\* What a dispatch that creates a row does to the table.
LEMMA CreateFacts ==
    ASSUME SlotsInv, NEW p \in Procs,
           DispatchInsert(p) \/ \E j \in Jobs : DispatchSkipped(p, j)
    PROVE  /\ nextId \in RunIds /\ runs[nextId].st = "ABSENT"
           /\ runs'[nextId].st \in {"QUEUED", "SKIPPED"}
           /\ \A q \in RunIds \ {nextId} : runs'[q] = runs[q]
           /\ UNCHANGED <<nextTok, queue, slots, ex, envs>>
<1>1. nextId \in RunIds /\ runs[nextId].st = "ABSENT" /\ runs \in Table
    BY DEF DispatchInsert, DispatchSkipped, Room, SlotsInv, Base, TypeOK, RowsInv, RunIds
<1>2. CASE DispatchInsert(p)
    <2>1. disp[p] \in Jobs
        BY <1>2 DEF DispatchInsert, SlotsInv, Base, TypeOK
    <2> QED
        BY <1>1, <1>2, <2>1, LocalCreate, LocalWorker DEF DispatchInsert
<1>3. CASE \E j \in Jobs : DispatchSkipped(p, j)
    BY <1>1, <1>3, LocalCreate DEF DispatchSkipped
<1> QED
    BY <1>2, <1>3

\* A process has synchronised its configuration, and nothing else happened
\* to rows or executions.
Synced(p) == sync_config(p) /\ UNCHANGED <<queue, slots, ex, envs>>

\* The steps that leave the table alone, and move nobody into a phase that
\* holds a row from one that does not.
Calm ==
    /\ UNCHANGED <<tables, tokens>>
    /\ orphans' \subseteq orphans
    /\ \A t \in Tokens :
         /\ ex'[t].ph = ex[t].ph \/ (/\ ex[t].ph \in {"registered", "writing"}
                                     /\ ex'[t].ph \in {"writing", "ended"})
         /\ ex'[t].proc = ex[t].proc /\ ex'[t].run = ex[t].run
         /\ ex'[t].job = ex[t].job

\* A process is gone; what it leaves behind was writing.
Dies(p) ==
    /\ Gone(p)
    /\ \A o \in orphans' : \/ o \in orphans
                           \/ /\ o[1] \in Live(p) /\ ex[o[1]].ph = "writing"
                              /\ o[2] = JobOf(o[1])

\* A row is created.
Creates == \E p \in Procs : DispatchInsert(p) \/ \E j \in Jobs : DispatchSkipped(p, j)

\* Every step is one of these.
LEMMA StepKinds ==
    ASSUME SlotsInv, [Next]_vars
    PROVE  \/ Calm
           \/ \E p \in Procs : Dies(p) \/ Synced(p)
           \/ Creates
           \/ \E r \in RunIds : retry_tick(r)
           \/ \E p \in Procs, r \in RunIds : ServeRemoved(p, r) \/ ServeClaim(p, r)
           \/ \E t \in Tokens : Register(t) \/ FinishRun(t) \/ MarkRetrying(t) \/ Leave(t)
<1> USE DEF slots, procs, envs
<1>1. TypeOK
    BY DEF SlotsInv, Base
<1>2. CASE UNCHANGED vars
    BY <1>2 DEF Calm, vars
<1>3. CASE Shutdown \/ \E o \in orphans : OrphanEnds(o)
    BY <1>3 DEF Calm, Shutdown, OrphanEnds
<1>4. CASE DaemonExit
    BY <1>4, StandaloneAssumption DEF DaemonExit, Dies
<1>5. CASE Schedule
    BY <1>5, StandaloneAssumption DEF Schedule, Creates, Calm, DispatchLock
<1>a. CASE Start
    BY <1>a, StandaloneAssumption DEF Start, Synced
<1>b. ASSUME NEW p \in Procs, NEW j \in Jobs, OneShot(p, j) \/ OneShotNext(p, j)
      PROVE  Synced(p)
    BY <1>b DEF OneShot, OneShotNext, Synced
<1>6. ASSUME NEW p \in Procs, NEW j \in Jobs, DispatchLock(p, j) \/ DispatchExisting(p, j)
      PROVE  Calm
    BY <1>6 DEF Calm, DispatchLock, DispatchExisting, Answer
<1>7. ASSUME NEW p \in Procs, OneShotExit(p) \/ OneShotDisappeared(p) \/ OneShotRefused(p)
      PROVE  Dies(p)
    BY <1>7 DEF OneShotExit, OneShotDisappeared, OneShotRefused, Dies
<1>8. ASSUME NEW p \in Procs, Crash(p)
      PROVE  Dies(p)
    <2>1. PICK S \in SUBSET {t \in Live(p) : ex[t].ph = "writing"} :
            orphans' = orphans \cup {<<t, JobOf(t)>> : t \in S}
        BY <1>8 DEF Crash
    <2>2. ASSUME NEW o \in orphans', o \notin orphans
          PROVE  /\ o[1] \in Live(p) /\ ex[o[1]].ph = "writing"
                 /\ o[2] = JobOf(o[1])
        <3>1. PICK t \in S : o = <<t, JobOf(t)>>
            BY <2>1, <2>2
        <3> QED
            BY <3>1
    <2> QED
        BY <1>8, <2>2 DEF Crash, Dies
<1>9. ASSUME NEW p \in Procs, DispatchFails(p)
      PROVE  Calm \/ Dies(p)
    <2>1. CASE p = Daemon
        BY <1>9, <2>1 DEF DispatchFails, Calm
    <2>2. CASE p # Daemon
        BY <1>9, <2>2 DEF DispatchFails, Dies
    <2> QED
        BY <2>1, <2>2
<1>10. ASSUME NEW p \in Procs, ProcStep(p)
       PROVE  Calm \/ Dies(p) \/ Creates
    BY <1>6, <1>7, <1>9, <1>10 DEF ProcStep, Creates
<1>11. ASSUME NEW p \in Procs, Serve(p)
       PROVE  Calm \/ \E r \in RunIds : ServeRemoved(p, r) \/ ServeClaim(p, r)
    <2>1. CASE execute_queued(p)
        BY <2>1 DEF execute_queued, Calm
    <2>2. ASSUME NEW r \in RunIds, ServeSkip(p, r)
          PROVE  Calm
        BY <2>2 DEF ServeSkip, Calm
    <2> QED
        BY <1>11, <2>1, <2>2 DEF Serve
<1>12. ASSUME NEW t \in Tokens, AcquireStorage(t) \/ Ends(t)
       PROVE  Calm
    <2>1. /\ Moves(t) /\ ex'[t].ph \in {"writing", "ended"}
          /\ ex[t].ph \in {"registered", "writing"}
          /\ UNCHANGED <<tables, procs, slots, envs>>
        BY <1>1, <1>12, TaskFacts DEF Ends, AcquireStorage, RunOnceEnds
    <2> QED
        BY <2>1 DEF Calm, Moves
<1>13. ASSUME NEW j \in Jobs, cmd_stop(j) \/ process_control_dir(j)
       PROVE  Calm
    BY <1>1, <1>13, ControlFacts DEF cmd_stop, process_control_dir, Calm
<1> QED
    BY <1>a, <1>b, <1>2, <1>3, <1>4, <1>5, <1>8, <1>10, <1>11, <1>12, <1>13 DEF Next, TaskStep

\* Every step keeps the executions within reach.
LEMMA ReachStep ==
    ASSUME OneAtATime, SlotsInv, Stoppable, [Next]_vars
    PROVE  Stoppable'
<1> USE DEF slots
<1>1. TypeOK
    BY DEF SlotsInv, Base
<1>2. \A t \in Tokens : ex[t].ph # "none" =>
        ex[t].proc \in Procs /\ JobOf(t) \in Jobs
    BY DEF SlotsInv, Base, ExecutionsInv, JobOf
<1>3. CASE Calm
    BY <1>3, ReachKept DEF Calm, Reached
<1>a. ASSUME NEW p \in Procs, Synced(p)
      PROVE  Stoppable'
    BY <1>a, ReachKept DEF Synced
<1>4. ASSUME NEW p \in Procs, Dies(p)
      PROVE  Stoppable'
    <2>1. \A t \in Tokens : ex'[t].ph \in Reached =>
            ex'[t] = ex[t] /\ ex[t].proc # p /\ ex[t].proc \in Procs
        BY <1>1, <1>2, <1>4, GoneFacts DEF Dies, Reached
    <2>2. \A q \in Procs \ {p} : tokens'[q] = tokens[q]
        BY <1>1, <1>4, GoneFacts DEF Dies
    <2> QED
        BY <2>1, <2>2 DEF Stoppable, JobOf, Reached
<1>5. CASE Creates
    BY <1>5, CreateFacts, ReachKept DEF Creates
<1>6. ASSUME NEW r \in RunIds, retry_tick(r)
      PROVE  Stoppable'
    BY <1>6, ReachKept DEF retry_tick
<1>7. ASSUME NEW p \in Procs, NEW r \in RunIds, ServeRemoved(p, r)
      PROVE  Stoppable'
    BY <1>7, ReachKept DEF ServeRemoved
<1>8. ASSUME NEW p \in Procs, NEW r \in RunIds, ServeClaim(p, r)
      PROVE  Stoppable'
    <2>1. tokens' = tokens
        BY <1>8 DEF ServeClaim
    <2>2. ex'[nextTok].ph = "spawned" /\ \A t \in Tokens \ {nextTok} : ex'[t] = ex[t]
        BY <1>8, ClaimFacts
    <2>3. \A t \in Tokens : ex'[t].ph \in Reached => ex'[t] = ex[t]
        BY <2>2 DEF Reached
    <2> QED
        BY <2>1, <2>3, ReachKept
<1>9. ASSUME NEW t \in Tokens, FinishRun(t) \/ MarkRetrying(t)
      PROVE  Stoppable'
    <2>1. tokens' = tokens
        BY <1>9 DEF FinishRun, MarkRetrying
    <2>2. Moves(t) /\ ex'[t].ph \notin Reached
        BY <1>1, <1>9, TaskFacts DEF Reached
    <2> QED
        BY <2>1, <2>2, ReachKept DEF Moves
<1>10. ASSUME NEW t \in Tokens, NEW p \in Procs, NEW j \in Jobs, NEW v \in Tokens \cup {NoToken},
              ex[t].ph # "none", p = ex[t].proc, j = JobOf(t),
              tokens' = [tokens EXCEPT ![p] = [tokens[p] EXCEPT ![j] = v]],
              \A u \in Tokens \ {t} : ex'[u] = ex[u],
              NEW u \in Tokens \ {t}, ex'[u].ph \in Reached
       PROVE  tokens'[ex'[u].proc][JobOf(u)'] = u
    <2>1. ex[u].ph \in Reached /\ ex'[u] = ex[u] /\ ex[u].ph # "none"
        BY <1>10 DEF Reached
    <2>2. tokens[ex[u].proc][JobOf(u)] = u /\ JobOf(u)' = JobOf(u)
        BY <2>1 DEF Stoppable, Reached, JobOf
    <2>3. ~(ex[u].proc = p /\ JobOf(u) = j)
        BY <1>10, <2>1, Solo
    <2>4. ex[u].proc \in Procs /\ JobOf(u) \in Jobs
        BY <1>2, <2>1
    <2> QED
        BY <1>1, <1>10, <2>1, <2>2, <2>3, <2>4 DEF TypeOK
<1>11. ASSUME NEW t \in Tokens, Register(t)
       PROVE  Stoppable'
    <2>1. ex[t].ph = "spawned" /\ Moves(t) /\ ex'[t].ph = "registered"
        BY <1>1, <1>11, TaskFacts DEF Register
    <2>2. PICK p \in Procs, j \in Jobs : p = ex[t].proc /\ j = JobOf(t)
        BY <1>2, <2>1
    <2>3. tokens' = [tokens EXCEPT ![p] = [tokens[p] EXCEPT ![j] = t]]
        BY <1>1, <1>11, <2>2 DEF Register, TypeOK
    <2>4. JobOf(t)' = j /\ ex'[t].proc = p
        BY <2>1, <2>2 DEF JobOf, Moves
    <2>5. tokens'[ex'[t].proc][JobOf(t)'] = t
        BY <1>1, <2>3, <2>4 DEF TypeOK
    <2>6. \A u \in Tokens \ {t} : ex'[u].ph \in Reached => tokens'[ex'[u].proc][JobOf(u)'] = u
        BY <1>10, <2>1, <2>2, <2>3 DEF Moves
    <2> QED
        BY <2>5, <2>6 DEF Stoppable, Reached
<1>12. ASSUME NEW t \in Tokens, Leave(t)
       PROVE  Stoppable'
    <2>1. /\ ex[t].ph = "leaving" /\ ex'[t].ph \notin Reached
          /\ \A u \in Tokens \ {t} : ex'[u] = ex[u]
        BY <1>1, <1>12 DEF Leave, NoEx, TypeOK, Reached
    <2>2. PICK p \in Procs, j \in Jobs : p = ex[t].proc /\ j = JobOf(t)
        BY <1>2, <2>1
    <2>3. tokens' = [tokens EXCEPT ![p] = [tokens[p] EXCEPT ![j] = NoToken]]
        BY <1>1, <1>12, <2>2 DEF Leave, TypeOK
    <2>4. \A u \in Tokens \ {t} : ex'[u].ph \in Reached => tokens'[ex'[u].proc][JobOf(u)'] = u
        BY <1>10, <2>1, <2>2, <2>3
    <2> QED
        BY <2>1, <2>4 DEF Stoppable, Reached
<1> QED
    BY <1>a, <1>3, <1>4, <1>5, <1>6, <1>7, <1>8, <1>9, <1>11, <1>12, StepKinds

\* Where no job is executed twice at a time, stop_job finds every execution
\* from register_run until it has reported, although the table of tokens has
\* one entry per job name.  With max_concurrency above one this is false:
\* remove_run of one execution takes the other's entry away.
THEOREM StopReaches == OneAtATime /\ Spec => []Stoppable
<1> DEFINE Inv == OneAtATime /\ SlotsInv /\ Stoppable
<1>1. OneAtATime /\ Init => Inv
    <2>1. Init => Stoppable
        BY DEF Init, Stoppable, NoEx
    <2> QED
        BY <2>1, SlotsInit
<1>2. Inv /\ [Next]_vars => Inv'
    <2>1. OneAtATime => OneAtATime'
        BY DEF OneAtATime
    <2> QED
        BY <2>1, SlotsStep, ReachStep
<1> QED
    BY <1>1, <1>2, PTL DEF Spec

-----------------------------------------------------------------------------
(* Claims keep a job of every process to one execution.  One thing is asked *)
(* of the configuration: no retries, because execute_run writes RETRYING a  *)
(* second time by id when the row may be somebody else's already.  Jobs     *)
(* that a process does not have are left out: sync_config and              *)
(* execute_queued delete and fail their rows, whoever executes them.        *)

NoRetries == \A j \in Jobs : RetryMax[j] = 0

\* The phases of an execution whose row is not finished yet.
Holding == {"spawned", "registered", "writing", "ended"}

\* One active row per job.
OneClaim ==
    \A r, q \in RunIds : /\ runs[r].st \in Active /\ runs[q].st \in Active
                         /\ runs[r].job = runs[q].job /\ runs[r].job \in Shared
                         => r = q

\* Row r is the claim of token t.
ClaimOf(r, t) == runs[r].st = "SYNCING" /\ runs[r].token = t

\* The row of an execution is its claim until it reports.
HoldsRow ==
    \A t \in Tokens : ex[t].ph \in Holding /\ JobOf(t) \in Shared => ClaimOf(ex[t].run, t)

\* An orphan's row is still its claim, and its token is never used again.
OrphansHold ==
    \A o \in orphans :
        /\ o[1] < nextTok /\ ex[o[1]].ph = "none"
        /\ o[2] \in Shared => \E r \in RunIds : ClaimOf(r, o[1]) /\ runs[r].job = o[2]

NoMarking == \A t \in Tokens : ex[t].ph # "marking"

\* The inductive invariant of ClaimsExclude and TerminalStays.
ClaimInv == OneClaim /\ HoldsRow /\ OrphansHold /\ NoMarking

\* The claim of somebody who is busy with job j.
LEMMA BusyClaim ==
    ASSUME SlotsInv, ClaimInv, NEW j \in Shared, NEW t \in Busy(j)
    PROVE  \E r \in RunIds : ClaimOf(r, t) /\ runs[r].job = j
<1>1. CASE t \in {u \in Tokens : ex[u].ph \in Holding /\ JobOf(u) = j}
    <2>1. /\ ex[t].run \in RunIds
          /\ runs[ex[t].run].st # "ABSENT" => runs[ex[t].run].job = JobOf(t)
        BY <1>1 DEF Holding, SlotsInv, Base, ExecutionsInv, JobOf
    <2> QED
        BY <1>1, <2>1 DEF ClaimInv, HoldsRow, ClaimOf
<1>2. CASE t \in {o[1] : o \in {q \in orphans : q[2] = j}}
    BY <1>2 DEF ClaimInv, OrphansHold
<1> QED
    BY <1>1, <1>2 DEF Busy, Holding

\* The invariant says what it is for.
LEMMA ClaimsAlone == SlotsInv /\ ClaimInv => ClaimsExclude
<1> SUFFICES ASSUME SlotsInv, ClaimInv, NEW j \in Shared
             PROVE  Cardinality(Busy(j)) <= 1
    BY DEF ClaimsExclude
<1>1. \A t, u \in Busy(j) : t = u
    <2> TAKE t, u \in Busy(j)
    <2>1. PICK r \in RunIds : ClaimOf(r, t) /\ runs[r].job = j
        BY BusyClaim
    <2>2. PICK q \in RunIds : ClaimOf(q, u) /\ runs[q].job = j
        BY BusyClaim
    <2>3. r = q
        BY <2>1, <2>2, StatusFacts DEF ClaimInv, OneClaim, ClaimOf
    <2> QED
        BY <2>1, <2>2, <2>3 DEF ClaimOf
<1>2. CASE Busy(j) = {}
    BY <1>2, FS_EmptySet
<1>3. CASE Busy(j) # {}
    <2>1. PICK t \in Busy(j) : TRUE
        BY <1>3
    <2>2. Busy(j) = {t}
        BY <1>1, <2>1
    <2>3. Cardinality({t}) = 1
        BY FS_Singleton
    <2> QED
        BY <2>2, <2>3
<1> QED
    BY <1>2, <1>3

\* The first states: nobody executes, and a row left behind is not active.
LEMMA ClaimInit == Init => ClaimInv
<1> HAVE Init
<1>1. \A t \in Tokens : ex[t].ph = "none"
    BY DEF Init, NoEx
<1>2. \A r \in RunIds : runs[r].st \notin Active
    <2>1. NoRow.st = "ABSENT"
        BY DEF NoRow
    <2>2. CASE runs = [r \in RunIds |-> NoRow]
        BY <2>1, <2>2, StatusFacts
    <2>3. CASE Leftover
        <3>1. PICK j \in Jobs, st \in {"QUEUED", "RETRYING"} :
                /\ 1 \in RunIds
                /\ runs = create_run([r \in RunIds |-> NoRow], 1, j, Local, st)
            BY <2>3 DEF Leftover
        <3>2. runs[1].st = st /\ \A r \in RunIds \ {1} : runs[r] = NoRow
            BY <3>1 DEF create_run
        <3> QED
            BY <2>1, <3>1, <3>2, StatusFacts
    <2> QED
        BY <2>2, <2>3 DEF Init
<1>3. OneClaim /\ HoldsRow /\ NoMarking
    BY <1>1, <1>2 DEF OneClaim, HoldsRow, NoMarking, Holding
<1>4. OrphansHold
    BY DEF Init, OrphansHold
<1> QED
    BY <1>3, <1>4 DEF ClaimInv

\* Nothing becomes active, and active rows keep their job and their token.
Settles ==
    \A r \in RunIds : runs'[r].st \in Active =>
        /\ runs[r].st = runs'[r].st /\ runs[r].job = runs'[r].job
        /\ runs[r].token = runs'[r].token

\* What an execution or an orphan claims stays claimed.
ClaimsStay ==
    /\ \A t \in Tokens : ex'[t].ph \in Holding /\ JobOf(t)' \in Shared
                         => ClaimOf(ex[t].run, t)'
    /\ \A o \in orphans' : o[2] \in Shared
                           => \E r \in RunIds : ClaimOf(r, o[1])' /\ runs'[r].job = o[2]
    /\ \A o \in orphans' : o[1] < nextTok /\ ex'[o[1]].ph = "none"

\* A step that makes no claim.
LEMMA SettledStep ==
    ASSUME SlotsInv, ClaimInv, Settles, ClaimsStay, nextTok' = nextTok,
           \A t \in Tokens : ex'[t].ph # "marking"
    PROVE  ClaimInv'
<1>1. OneClaim'
    BY DEF Settles, ClaimInv, OneClaim, Shared
<1>2. HoldsRow'
    BY DEF ClaimsStay, HoldsRow, ClaimOf, Shared
<1>3. OrphansHold'
    BY DEF ClaimsStay, OrphansHold, ClaimOf, Shared
<1>4. NoMarking'
    BY DEF NoMarking
<1> QED
    BY <1>1, <1>2, <1>3, <1>4 DEF ClaimInv

\* What every action relies on: where the rows and the executions are.
LEMMA ClaimBasics ==
    ASSUME SlotsInv, ClaimInv
    PROVE  /\ TypeOK
           /\ \A t \in Tokens : ex[t].ph \in Holding =>
                /\ ex[t].run \in RunIds /\ JobOf(t) \in Jobs
                /\ runs[ex[t].run].st # "ABSENT" => runs[ex[t].run].job = JobOf(t)
                /\ JobOf(t) \in Shared => /\ ClaimOf(ex[t].run, t)
                                          /\ runs[ex[t].run].st \in Active
                                          /\ runs[ex[t].run].job = JobOf(t)
           /\ \A o \in orphans : o[1] \in Tokens
BY StatusFacts
   DEF SlotsInv, Base, TypeOK, ExecutionsInv, ClaimInv, HoldsRow, ClaimOf, JobOf, Holding

\* A step of or on jobs that some process does not have: rows and executions
\* of the others stay as they are.
LEMMA ForeignClaims ==
    ASSUME SlotsInv, ClaimInv,
           \A r \in RunIds : runs[r].job \in Shared => runs'[r] = runs[r],
           \A r \in RunIds : runs'[r].st # "ABSENT" /\ runs'[r].job \in Shared
                             => runs'[r] = runs[r],
           UNCHANGED <<nextTok, orphans>>,
           \A t \in Tokens : \/ ex'[t] = ex[t]
                             \/ /\ ex[t].ph # "none" /\ ex[t].job \notin Shared
                                /\ ex'[t].job = ex[t].job,
           \A t \in Tokens : ex'[t].ph # "marking"
    PROVE  ClaimInv'
<1>1. OneClaim'
    <2> SUFFICES ASSUME NEW r \in RunIds, NEW q \in RunIds,
                        runs'[r].st \in Active, runs'[q].st \in Active,
                        runs'[r].job = runs'[q].job, runs'[r].job \in Shared
                 PROVE  r = q
        BY DEF OneClaim, Shared
    <2>1. runs'[r] = runs[r] /\ runs'[q] = runs[q]
        BY StatusFacts
    <2> QED
        BY <2>1 DEF ClaimInv, OneClaim
<1>2. ASSUME NEW t \in Tokens, ex'[t].ph \in Holding, ex'[t].job \in Shared
      PROVE  ClaimOf(ex[t].run, t)'
    <2>1. ex'[t] = ex[t] /\ JobOf(t) \in Shared
        BY <1>2 DEF JobOf
    <2>2. /\ ex[t].run \in RunIds /\ ClaimOf(ex[t].run, t)
          /\ runs[ex[t].run].job \in Shared
        BY <1>2, <2>1, ClaimBasics
    <2> QED
        BY <2>1, <2>2 DEF ClaimOf
<1>3. HoldsRow'
    BY <1>2 DEF HoldsRow, ClaimOf, JobOf, Shared
<1>4. ASSUME NEW o \in orphans
      PROVE  /\ o[1] < nextTok /\ ex'[o[1]].ph = "none"
             /\ o[2] \in Shared => \E r \in RunIds : ClaimOf(r, o[1])' /\ runs'[r].job = o[2]
    <2>1. /\ o[1] \in Tokens /\ o[1] < nextTok /\ ex[o[1]].ph = "none"
          /\ o[2] \in Shared => \E r \in RunIds : ClaimOf(r, o[1]) /\ runs[r].job = o[2]
        BY ClaimBasics DEF ClaimInv, OrphansHold
    <2>2. ex'[o[1]] = ex[o[1]]
        BY <2>1
    <2> QED
        BY <2>1, <2>2 DEF ClaimOf
<1>5. OrphansHold'
    BY <1>4 DEF OrphansHold, ClaimOf, Shared
<1>6. NoMarking'
    BY DEF NoMarking
<1> QED
    BY <1>1, <1>3, <1>5, <1>6 DEF ClaimInv

\* Steps that leave the table alone.
LEMMA CalmClaims ==
    ASSUME SlotsInv, ClaimInv, Calm
    PROVE  ClaimInv'
<1>1. runs' = runs /\ nextTok' = nextTok
    BY DEF Calm, tables
<1>2. Settles
    BY <1>1 DEF Settles
<1>3. \A t \in Tokens : ex'[t].ph \in Holding /\ JobOf(t)' \in Shared => ClaimOf(ex[t].run, t)'
    BY <1>1 DEF Calm, Holding, ClaimOf, ClaimInv, HoldsRow, JobOf
<1>4. \A o \in orphans' : o \in orphans /\ o[1] \in Tokens /\ ex'[o[1]].ph = ex[o[1]].ph
    BY ClaimBasics DEF Calm, ClaimInv, OrphansHold
<1>5. ClaimsStay
    BY <1>1, <1>3, <1>4 DEF ClaimsStay, ClaimOf, ClaimInv, OrphansHold
<1>6. \A t \in Tokens : ex'[t].ph # "marking"
    BY DEF Calm, ClaimInv, NoMarking
<1> QED
    BY <1>1, <1>2, <1>5, <1>6, SettledStep

\* A process synchronises its configuration.
LEMMA SyncClaims ==
    ASSUME SlotsInv, ClaimInv, NEW p \in Procs, Synced(p)
    PROVE  ClaimInv'
<1>1. TypeOK /\ sync_config(p) /\ UNCHANGED <<ex, orphans>>
    BY ClaimBasics DEF Synced, envs
<1>2. /\ \A r \in RunIds : runs[r].job \in Has(p) => runs'[r] = runs[r]
      /\ \A r \in RunIds : runs'[r].st # "ABSENT" => runs'[r] = runs[r]
      /\ nextTok' = nextTok
    BY <1>1, SyncFacts
<1>3. \A j \in Shared : j \in Has(p)
    BY DEF Shared
<1>4. \A t \in Tokens : ex'[t].ph # "marking"
    BY <1>1 DEF ClaimInv, NoMarking
<1> QED
    BY <1>1, <1>2, <1>3, <1>4, ForeignClaims

\* A process dies: its claims stay, and so do those of its orphans.
LEMMA DiesClaims ==
    ASSUME SlotsInv, ClaimInv, NEW p \in Procs, Dies(p)
    PROVE  ClaimInv'
<1>1. /\ \A t \in Tokens : ex'[t].ph = "none" \/ (ex'[t] = ex[t] /\ ex[t].proc # p)
      /\ runs' = runs /\ nextTok' = nextTok
    <2>1. TypeOK /\ Gone(p)
        BY ClaimBasics DEF Dies
    <2> QED
        BY <2>1, GoneFacts DEF tables
<1>2. Settles
    BY <1>1 DEF Settles
<1>3. \A t \in Tokens : ex'[t].ph \in Holding /\ JobOf(t)' \in Shared => ClaimOf(ex[t].run, t)'
    BY <1>1 DEF Holding, ClaimOf, ClaimInv, HoldsRow, JobOf
<1>4. ASSUME NEW o \in orphans'
      PROVE  /\ o[1] < nextTok /\ ex'[o[1]].ph = "none"
             /\ o[2] \in Shared => \E r \in RunIds : ClaimOf(r, o[1])' /\ runs'[r].job = o[2]
    <2>1. CASE o \in orphans
        <3>1. /\ o[1] \in Tokens /\ o[1] < nextTok /\ ex[o[1]].ph = "none"
              /\ o[2] \in Shared => \E r \in RunIds : ClaimOf(r, o[1]) /\ runs[r].job = o[2]
            BY <2>1, ClaimBasics DEF ClaimInv, OrphansHold
        <3>2. ex'[o[1]].ph = "none"
            BY <1>1, <3>1
        <3> QED
            BY <1>1, <3>1, <3>2 DEF ClaimOf
    <2>2. CASE o[1] \in Live(p) /\ ex[o[1]].ph = "writing" /\ o[2] = JobOf(o[1])
        <3>1. PICK t \in Tokens : t = o[1]
            BY <2>2 DEF Live
        <3>2. ex[t].proc = p /\ ex[t].ph = "writing" /\ o[2] = JobOf(t)
            BY <2>2, <3>1 DEF Live
        <3>3. /\ t < nextTok /\ ex[t].run \in RunIds
              /\ JobOf(t) \in Shared => ClaimOf(ex[t].run, t) /\ runs[ex[t].run].job = JobOf(t)
            BY <3>2, ClaimBasics DEF Holding, SlotsInv, Base, ExecutionsInv
        <3>4. ex'[t].ph = "none"
            BY <1>1, <3>2
        <3>5. PICK r \in RunIds : r = ex[t].run
            BY <3>3
        <3>6. o[2] \in Shared => ClaimOf(r, o[1])' /\ runs'[r].job = o[2]
            BY <1>1, <3>1, <3>2, <3>3, <3>5 DEF ClaimOf
        <3> QED
            BY <3>1, <3>3, <3>4, <3>6
    <2> QED
        BY <1>4, <2>1, <2>2 DEF Dies
<1>5. ClaimsStay
    BY <1>3, <1>4 DEF ClaimsStay
<1>6. \A t \in Tokens : ex'[t].ph # "marking"
    BY <1>1 DEF ClaimInv, NoMarking
<1> QED
    BY <1>1, <1>2, <1>5, <1>6, SettledStep

\* Updates of rows that nobody executes, and rows that are created.
LEMMA RowClaims ==
    ASSUME SlotsInv, ClaimInv, NEW R \in RunIds,
           runs[R].st \notin Active, runs'[R].st \notin Active,
           \A q \in RunIds \ {R} : runs'[q] = runs[q],
           UNCHANGED <<nextTok, ex, orphans>>
    PROVE  ClaimInv'
<1>1. Settles
    BY DEF Settles
<1>2. \A r \in RunIds, t \in Tokens : ClaimOf(r, t) => ClaimOf(r, t)' /\ runs'[r] = runs[r]
    BY StatusFacts DEF ClaimOf
<1>3. ClaimsStay
    <2>1. \A t \in Tokens : ex'[t].ph \in Holding /\ JobOf(t)' \in Shared => ClaimOf(ex[t].run, t)'
        BY <1>2, ClaimBasics DEF ClaimOf, JobOf
    <2>2. \A o \in orphans' :
            /\ o[1] < nextTok /\ ex'[o[1]].ph = "none"
            /\ o[2] \in Shared => \E r \in RunIds : ClaimOf(r, o[1])' /\ runs'[r].job = o[2]
        BY <1>2, ClaimBasics DEF ClaimInv, OrphansHold
    <2> QED
        BY <2>1, <2>2 DEF ClaimsStay
<1>4. \A t \in Tokens : ex'[t].ph # "marking"
    BY DEF ClaimInv, NoMarking
<1> QED
    BY <1>1, <1>3, <1>4, SettledStep

\* Dispatches, retries that are due, and rows of removed jobs.
LEMMA UpdateClaims ==
    ASSUME SlotsInv, ClaimInv
    PROVE  /\ Creates => ClaimInv'
           /\ \A r \in RunIds : retry_tick(r) => ClaimInv'
           /\ \A p \in Procs, r \in RunIds : ServeRemoved(p, r) => ClaimInv'
<1>1. TypeOK
    BY ClaimBasics
<1>2. Creates => ClaimInv'
    <2> HAVE Creates
    <2>1. /\ nextId \in RunIds /\ runs[nextId].st = "ABSENT"
          /\ runs'[nextId].st \in {"QUEUED", "SKIPPED"}
          /\ \A q \in RunIds \ {nextId} : runs'[q] = runs[q]
          /\ UNCHANGED <<nextTok, queue, slots, ex, envs>>
        BY CreateFacts DEF Creates
    <2>3. PICK R \in RunIds : R = nextId
        BY <2>1
    <2>4. runs[R].st \notin Active /\ runs'[R].st \notin Active
        BY <2>1, <2>3, StatusFacts
    <2> QED
        BY <2>1, <2>3, <2>4, RowClaims DEF envs
<1>3. ASSUME NEW r \in RunIds, retry_tick(r)
      PROVE  ClaimInv'
    <2>1. Touches(r) /\ runs[r].st = "RETRYING" /\ runs'[r].st \in {"CANCELLED", "QUEUED"}
        BY <1>3, RowFacts
    <2>2. runs[r].st \notin Active /\ runs'[r].st \notin Active
        BY <2>1, StatusFacts
    <2> QED
        BY <1>3, <2>1, <2>2, RowClaims DEF Touches, retry_tick, envs
<1>4. ASSUME NEW p \in Procs, NEW r \in RunIds, ServeRemoved(p, r)
      PROVE  ClaimInv'
    <2>1. Touches(r) /\ UNCHANGED <<nextTok, ex, orphans>>
        BY <1>4, RowFacts DEF ServeRemoved, envs
    <2>2. runs[r].job \notin Shared
        BY <1>4 DEF ServeRemoved, Shared
    <2>3. \A t \in Tokens : ex'[t].ph # "marking"
        BY <2>1 DEF ClaimInv, NoMarking
    <2> QED
        BY <2>1, <2>2, <2>3, ForeignClaims DEF Touches
<1> QED
    BY <1>2, <1>3, <1>4

\* A claim: the index leaves no second active row, and the token is new.
LEMMA ServeClaims ==
    ASSUME SlotsInv, ClaimInv, NEW p \in Procs, NEW r \in RunIds, ServeClaim(p, r)
    PROVE  ClaimInv'
<1>1. PICK n \in Tokens : n = nextTok
    BY ClaimFacts
<1>2. /\ runs[r].st = "QUEUED" /\ runs[r].job \in Jobs
      /\ runs'[r].st = "SYNCING" /\ runs'[r].token = n /\ runs'[r].job = runs[r].job
      /\ \A q \in RunIds \ {r} : runs'[q] = runs[q]
      /\ ex[n].ph = "none" /\ ex'[n].ph = "spawned" /\ ex'[n].run = r
      /\ \A t \in Tokens \ {n} : ex'[t] = ex[t]
    BY <1>1, ClaimFacts
<1>3. /\ one_active_run_per_job(runs, runs[r].job) = {}
      /\ nextTok' = n + 1 /\ orphans' = orphans
    BY <1>1 DEF ServeClaim, Claims, claimable, envs
<1>5. \A q \in RunIds : runs[q].st \in Active => runs[q].job # runs[r].job
    BY <1>3, StatusFacts DEF one_active_run_per_job, RowsOf
<1>6. OneClaim'
    BY <1>2, <1>5 DEF ClaimInv, OneClaim, Shared
<1>7. \A q \in RunIds, t \in Tokens : ClaimOf(q, t) => ClaimOf(q, t)' /\ runs'[q] = runs[q]
    BY <1>2 DEF ClaimOf
<1>8. HoldsRow'
    <2>1. ASSUME NEW t \in Tokens \ {n}, ex'[t].ph \in Holding, ex'[t].job \in Shared
          PROVE  ClaimOf(ex[t].run, t)'
        <3>1. ex'[t] = ex[t] /\ ex[t].run \in RunIds /\ ClaimOf(ex[t].run, t)
            BY <1>2, <2>1, ClaimBasics DEF JobOf
        <3> QED
            BY <1>7, <3>1 DEF ClaimOf
    <2>2. ClaimOf(ex[n].run, n)'
        BY <1>2 DEF ClaimOf
    <2> QED
        BY <2>1, <2>2 DEF HoldsRow, ClaimOf, JobOf, Shared
<1>9. OrphansHold'
    <2> SUFFICES ASSUME NEW o \in orphans
                 PROVE  /\ o[1] < nextTok' /\ ex'[o[1]].ph = "none"
                        /\ o[2] \in Shared =>
                             \E q \in RunIds : ClaimOf(q, o[1])' /\ runs'[q].job = o[2]
        BY <1>3 DEF OrphansHold, ClaimOf, Shared
    <2>1. /\ o[1] \in Tokens /\ o[1] < n /\ ex[o[1]].ph = "none"
          /\ o[2] \in Shared => \E q \in RunIds : ClaimOf(q, o[1]) /\ runs[q].job = o[2]
        BY <1>1, ClaimBasics DEF ClaimInv, OrphansHold
    <2>2. o[1] < nextTok' /\ o[1] # n
        BY <1>3, <2>1 DEF Tokens
    <2> QED
        BY <1>2, <1>7, <2>1, <2>2
<1>10. NoMarking'
    BY <1>2 DEF ClaimInv, NoMarking
<1> QED
    BY <1>6, <1>8, <1>9, <1>10 DEF ClaimInv

\* An execution that is to report ends its row for good.
LEMMA NeverRetries ==
    ASSUME NoRetries, SlotsInv, ClaimInv, NEW t \in Tokens, ex[t].ph = "ended"
    PROVE  ~Retries(t)
<1>1. JobOf(t) \in Jobs /\ ex[t].run \in RunIds
    BY ClaimBasics DEF Holding
<1>2. runs[ex[t].run].retry \in Nat
    BY <1>1, ClaimBasics DEF TypeOK, Row
<1> QED
    BY <1>1, <1>2 DEF Retries, NoRetries

\* An execution of a job that some process does not have touches no row of
\* one that every process has.
LEMMA ForeignTask ==
    ASSUME NoRetries, SlotsInv, ClaimInv, NEW t \in Tokens, Register(t) \/ FinishRun(t),
           JobOf(t) \notin Shared
    PROVE  ClaimInv'
<1>1. ex[t].ph \in Holding /\ Moves(t) /\ (FinishRun(t) => ~Retries(t))
    BY ClaimBasics, TaskFacts, NeverRetries DEF Register, FinishRun, Holding
<1>2. PICK r \in RunIds : r = ex[t].run
    BY <1>1, ClaimBasics
<1>3. Touches(r) /\ (runs[r].st # "ABSENT" => runs[r].job \notin Shared)
    BY <1>1, <1>2, ClaimBasics, RowFacts
<1>4. runs[r].st = "ABSENT" => runs'[r] = runs[r]
    <2>1. runs \in Table
        BY ClaimBasics DEF TypeOK
    <2>2. CASE Register(t)
        BY <1>2, <2>1, <2>2 DEF Register, set_run_status, Update
    <2>3. CASE FinishRun(t)
        BY <1>1, <1>2, <2>1, <2>3 DEF FinishRun, finish_run, Update
    <2> QED
        BY <2>2, <2>3
<1>5. /\ \A q \in RunIds : runs[q].job \in Shared => runs'[q] = runs[q]
      /\ \A q \in RunIds : runs'[q].st # "ABSENT" /\ runs'[q].job \in Shared
                            => runs'[q] = runs[q]
    BY <1>3, <1>4 DEF Touches
<1>6. UNCHANGED <<nextTok, orphans>>
    BY DEF Register, FinishRun, envs
<1>7. ex'[t].ph # "marking"
    <2>1. Register(t) => ex'[t].ph = "registered"
        BY ClaimBasics, TaskFacts
    <2>2. FinishRun(t) => ex'[t].ph = "leaving"
        BY <1>1, ClaimBasics DEF FinishRun, TypeOK, Execution
    <2> QED
        BY <2>1, <2>2
<1>8. \A u \in Tokens : ex'[u].ph # "marking"
    BY <1>1, <1>7 DEF Moves, ClaimInv, NoMarking
<1>9. \A u \in Tokens : \/ ex'[u] = ex[u]
                        \/ /\ ex[u].ph # "none" /\ ex[u].job \notin Shared
                           /\ ex'[u].job = ex[u].job
    BY <1>1 DEF Moves, Holding, JobOf
<1> QED
    BY <1>5, <1>6, <1>8, <1>9, ForeignClaims

\* The statements of an execution touch no claim but its own.
LEMMA TaskClaims ==
    ASSUME NoRetries, SlotsInv, ClaimInv, NEW t \in Tokens,
           Register(t) \/ FinishRun(t) \/ MarkRetrying(t) \/ Leave(t)
    PROVE  ClaimInv'
<1>1. TypeOK
    BY ClaimBasics
<1>2. \A o \in orphans : o[1] \in Tokens /\ ex[o[1]].ph = "none" /\ o[1] < nextTok
    BY ClaimBasics DEF ClaimInv, OrphansHold
<1>a. Register(t) \/ FinishRun(t) => ClaimInv' \/ JobOf(t) \in Shared
    BY ForeignTask
<1>b. SUFFICES ASSUME Register(t) \/ FinishRun(t) => JobOf(t) \in Shared
               PROVE  ClaimInv'
    BY <1>a
<1>3. CASE Register(t)
    <2>1. ex[t].ph = "spawned" /\ Moves(t) /\ ex'[t].ph = "registered"
        BY <1>1, <1>3, TaskFacts DEF Register
    <2>2. PICK r \in RunIds : r = ex[t].run
        BY <2>1, ClaimBasics DEF Holding
    <2>3. ClaimOf(r, t)
        BY <1>3, <1>b, <2>1, <2>2, ClaimBasics DEF Holding
    <2>4. /\ runs'[r].st = "SYNCING" /\ runs'[r].job = runs[r].job
          /\ runs'[r].token = runs[r].token
          /\ \A q \in RunIds \ {r} : runs'[q] = runs[q]
        BY <1>3, <2>2, <2>3, RowFacts DEF ClaimOf, Touches
    <2>5. /\ \A q \in RunIds : /\ runs'[q].st = runs[q].st /\ runs'[q].job = runs[q].job
                               /\ runs'[q].token = runs[q].token
          /\ UNCHANGED <<nextTok, orphans>>
        BY <1>3, <2>3, <2>4 DEF ClaimOf, Register, envs
    <2>6. Settles
        BY <2>5 DEF Settles
    <2>7. \A u \in Tokens : ex'[u].ph \in Holding /\ JobOf(u)' \in Shared => ClaimOf(ex[u].run, u)'
        BY <2>1, <2>5, ClaimBasics DEF Moves, Holding, ClaimOf, JobOf
    <2>8. \A o \in orphans' :
            /\ o[1] < nextTok /\ ex'[o[1]].ph = "none"
            /\ o[2] \in Shared => \E q \in RunIds : ClaimOf(q, o[1])' /\ runs'[q].job = o[2]
        <3>1. \A o \in orphans : ex'[o[1]].ph = "none"
            BY <1>2, <2>1 DEF Moves
        <3>2. \A o \in orphans : o[2] \in Shared =>
                \E q \in RunIds : ClaimOf(q, o[1])' /\ runs'[q].job = o[2]
            BY <2>5 DEF ClaimInv, OrphansHold, ClaimOf
        <3> QED
            BY <1>2, <2>5, <3>1, <3>2
    <2>9. ClaimsStay
        BY <2>7, <2>8 DEF ClaimsStay
    <2>10. \A u \in Tokens : ex'[u].ph # "marking"
        BY <2>1 DEF Moves, ClaimInv, NoMarking
    <2> QED
        BY <2>5, <2>6, <2>9, <2>10, SettledStep
<1>4. CASE FinishRun(t)
    <2>1. ex[t].ph = "ended" /\ ~Retries(t)
        BY <1>4, NeverRetries DEF FinishRun
    <2>2. PICK r \in RunIds : r = ex[t].run
        BY <2>1, ClaimBasics DEF Holding
    <2>3. ClaimOf(r, t) /\ runs[r].st \in Active
        BY <1>4, <1>b, <2>1, <2>2, ClaimBasics DEF Holding
    <2>4. Touches(r) /\ runs'[r].st \in Terminal /\ runs'[r].st \notin Active
        BY <1>4, <2>1, <2>2, <2>3, RowFacts, StatusFacts
    <2>5. ex'[t].ph = "leaving" /\ \A u \in Tokens \ {t} : ex'[u] = ex[u]
        BY <1>1, <1>4, <2>1 DEF FinishRun, TypeOK, Execution
    <2>6. UNCHANGED <<nextTok, orphans>>
        BY <1>4 DEF FinishRun, envs
    <2>7. \A q \in RunIds, u \in Tokens \ {t} : ClaimOf(q, u) => ClaimOf(q, u)' /\ runs'[q] = runs[q]
        BY <2>3, <2>4 DEF ClaimOf, Touches
    <2>8. Settles
        BY <2>4 DEF Settles, Touches
    <2>9. \A u \in Tokens : ex'[u].ph \in Holding /\ JobOf(u)' \in Shared => ClaimOf(ex[u].run, u)'
        <3>1. ASSUME NEW u \in Tokens, ex'[u].ph \in Holding, ex'[u].job \in Shared
              PROVE  u # t /\ ex'[u] = ex[u] /\ ex[u].run \in RunIds /\ ClaimOf(ex[u].run, u)
            BY <2>5, <3>1, ClaimBasics DEF Holding, JobOf
        <3> QED
            BY <2>7, <3>1 DEF ClaimOf, JobOf
    <2>10. \A o \in orphans' :
             /\ o[1] < nextTok /\ ex'[o[1]].ph = "none"
             /\ o[2] \in Shared => \E q \in RunIds : ClaimOf(q, o[1])' /\ runs'[q].job = o[2]
        <3>1. \A o \in orphans : o[1] # t
            BY <1>2, <2>1
        <3>2. \A o \in orphans : ex'[o[1]].ph = "none"
            BY <1>2, <2>5, <3>1
        <3>3. \A o \in orphans : o[2] \in Shared =>
                \E q \in RunIds : ClaimOf(q, o[1])' /\ runs'[q].job = o[2]
            BY <1>2, <2>7, <3>1 DEF ClaimInv, OrphansHold
        <3> QED
            BY <1>2, <2>6, <3>2, <3>3
    <2>11. ClaimsStay
        BY <2>9, <2>10 DEF ClaimsStay
    <2>12. \A u \in Tokens : ex'[u].ph # "marking"
        BY <2>5 DEF ClaimInv, NoMarking
    <2> QED
        BY <2>6, <2>8, <2>11, <2>12, SettledStep
<1>5. CASE MarkRetrying(t)
    BY <1>5 DEF MarkRetrying, ClaimInv, NoMarking
<1>6. CASE Leave(t)
    <2>1. ex'[t].ph = "none" /\ \A u \in Tokens \ {t} : ex'[u] = ex[u]
        BY <1>1, <1>6 DEF Leave, NoEx, TypeOK
    <2>2. UNCHANGED <<runs, nextTok, orphans>>
        BY <1>6 DEF Leave, tables, envs
    <2>3. Settles
        BY <2>2 DEF Settles
    <2>4. ClaimsStay
        <3>1. \A u \in Tokens : ex'[u].ph \in Holding /\ JobOf(u)' \in Shared
                                => ClaimOf(ex[u].run, u)'
            BY <2>1, <2>2, ClaimBasics DEF Holding, ClaimOf, JobOf
        <3>2. \A o \in orphans : ex'[o[1]].ph = "none"
            BY <1>2, <2>1
        <3> QED
            BY <1>2, <2>2, <3>1, <3>2 DEF ClaimsStay, ClaimInv, OrphansHold, ClaimOf
    <2>5. \A u \in Tokens : ex'[u].ph # "marking"
        BY <2>1 DEF ClaimInv, NoMarking
    <2> QED
        BY <2>2, <2>3, <2>4, <2>5, SettledStep
<1> QED
    BY <1>3, <1>4, <1>5, <1>6

\* Every step keeps the claims.
LEMMA ClaimStep ==
    ASSUME NoRetries, SlotsInv, ClaimInv, [Next]_vars
    PROVE  ClaimInv'
BY StepKinds, CalmClaims, DiesClaims, SyncClaims, UpdateClaims, ServeClaims, TaskClaims

\* Every step leaves finished rows alone.
LEMMA TerminalStep ==
    ASSUME NoRetries, SlotsInv, ClaimInv, [Next]_vars,
           NEW r \in RunIds, runs[r].st \in Terminal, runs[r].job \in Shared
    PROVE  runs'[r].st = runs[r].st
<1>1. CASE Calm
    BY <1>1 DEF Calm, tables
<1>2. ASSUME NEW p \in Procs, Dies(p)
      PROVE  runs' = runs
    BY <1>2 DEF Dies, Gone, tables
<1>a. ASSUME NEW p \in Procs, Synced(p)
      PROVE  runs'[r] = runs[r]
    BY <1>a, ClaimBasics, SyncFacts DEF Synced, Shared
<1>3. CASE Creates
    BY <1>3, CreateFacts, StatusFacts DEF Creates
<1>4. ASSUME NEW q \in RunIds, retry_tick(q)
      PROVE  runs'[r] = runs[r]
    BY <1>4, RowFacts, StatusFacts DEF Touches
<1>5. ASSUME NEW p \in Procs, NEW q \in RunIds, ServeRemoved(p, q)
      PROVE  runs'[r] = runs[r]
    <2>1. Touches(q) /\ runs[q].job \notin Shared
        BY <1>5, RowFacts DEF ServeRemoved, Shared
    <2> QED
        BY <2>1 DEF Touches
<1>6. ASSUME NEW p \in Procs, NEW q \in RunIds, ServeClaim(p, q)
      PROVE  runs'[r] = runs[r]
    <2>1. runs[q].st = "QUEUED" /\ \A s \in RunIds \ {q} : runs'[s] = runs[s]
        BY <1>6, ClaimFacts
    <2> QED
        BY <2>1, StatusFacts
<1>7. ASSUME NEW t \in Tokens, Register(t) \/ FinishRun(t)
      PROVE  runs'[r] = runs[r]
    <2>1. ex[t].ph \in Holding
        BY <1>7 DEF Register, FinishRun, Holding
    <2>2. FinishRun(t) => ~Retries(t)
        BY NeverRetries DEF FinishRun
    <2>3. PICK q \in RunIds : q = ex[t].run
        BY <2>1, ClaimBasics
    <2>4. runs[q].st \notin Terminal \/ runs[q].job \notin Shared
        BY <1>7, <2>1, <2>2, <2>3, ClaimBasics, RowFacts, StatusFacts
    <2>5. Touches(q)
        BY <1>7, <2>2, <2>3, RowFacts
    <2> QED
        BY <2>4, <2>5 DEF Touches
<1>8. ASSUME NEW t \in Tokens, MarkRetrying(t) \/ Leave(t)
      PROVE  runs' = runs
    BY <1>8 DEF MarkRetrying, Leave, tables, ClaimInv, NoMarking
<1> QED
    BY <1>1, <1>2, <1>a, <1>3, <1>4, <1>5, <1>6, <1>7, <1>8, StepKinds

\* Claims alone keep a job that every process has to one execution: over
\* processes that share only the table, over crashes, over providers that
\* outlive their process, and over rows that are purged or failed by a process
\* that does not know their job, no two executions of it are ever under way
\* (claim_run, the index one_active_run_per_job, execute_run, sync_config).
THEOREM ClaimsSuffice == NoRetries /\ Spec => []ClaimsExclude
<1> DEFINE Inv == NoRetries /\ SlotsInv /\ ClaimInv
<1>1. NoRetries /\ Init => Inv
    BY SlotsInit, ClaimInit
<1>2. Inv /\ [Next]_vars => Inv'
    <2>1. NoRetries => NoRetries'
        BY DEF NoRetries
    <2> QED
        BY <2>1, SlotsStep, ClaimStep
<1>3. Inv => ClaimsExclude
    BY ClaimsAlone
<1> QED
    BY <1>1, <1>2, <1>3, PTL DEF Spec

\* A finished row of such a job never changes, although no statement of the
\* local engine is fenced: every writer writes by id, and only ever its own
\* claim (finish_run, set_run_status, execute_queued, retry_tick).
THEOREM FinishedForGood == NoRetries /\ Spec => TerminalStays
<1> DEFINE Inv == NoRetries /\ SlotsInv /\ ClaimInv
           Keeps == \A r \in RunIds : runs[r].st \in Terminal /\ runs[r].job \in Shared
                                      => runs'[r].st = runs[r].st
<1>1. NoRetries /\ Init => Inv
    BY SlotsInit, ClaimInit
<1>2. Inv /\ [Next]_vars => Inv'
    <2>1. NoRetries => NoRetries'
        BY DEF NoRetries
    <2> QED
        BY <2>1, SlotsStep, ClaimStep
<1>3. Inv /\ [Next]_vars => [Keeps]_vars
    BY TerminalStep
<1> QED
    BY <1>1, <1>2, <1>3, PTL DEF Spec, TerminalStays

=============================================================================
