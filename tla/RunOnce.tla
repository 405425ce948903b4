------------------------------- MODULE RunOnce -------------------------------
(***************************************************************************)
(* The stages of one execution (run_once and run_once_inner of             *)
(* crates/engine/src/executor.rs) around the provider, under the locks of  *)
(* StorageLock: storage gate, snapshots and their retention, hooks, safety *)
(* limits, verification; and the rollback of crates/snapshot/src/lib.rs.   *)
(* The provider is one step with any result (see Provider).  Its processes *)
(* hold the lock of the run, those that outlive its leader too; a          *)
(* container and the zfs of a rollback hold none.  A mirror's tree is its  *)
(* number of files and what was done with it last.  The runs share one     *)
(* backend that exists: auto_create is left out.                           *)
(***************************************************************************)
EXTENDS StorageLock, FiniteSets

CONSTANTS Runs,        \* the holders that are executions; the others roll back
          Boxed,       \* the runs whose provider works in a container
          Backend,     \* "zfs", "btrfs" or "dir"
          Policy,      \* [Runs -> Policies], snapshot_policy
          OnFail,      \* [Runs -> {"fail", "warn"}], snapshot_failure
          Retention,   \* [last, day, week: Nat]; 0 stands for an absent entry
          MaxDelete,   \* safety.max_delete_files
          Timed,       \* job.timeout is set
          MaxFiles, MaxTime, MaxSuffix, DayLength, WeekLength   \* bounds and calendar

Policies == {"never", "before", "after", "both"}
Mirrors == {Path[h] : h \in Runs}

\* Mutant: a run with snapshots locks like one without.
AlwaysUnder(h) == IF Backend = "dir" THEN "own" ELSE "under"

\* The lock that run_once chooses (the value of Kind for a run): a run that
\* takes snapshots locks the whole backend, any other its place in the tree.
LockKind(h) == IF Backend = "dir" THEN "own"
               ELSE IF Policy[h] = "never" THEN "under" ELSE "whole"

ASSUME RunAssumption ==
    /\ Runs \subseteq Holders /\ Boxed \subseteq Runs
    /\ Policy \in [Runs -> Policies] /\ OnFail \in [Runs -> {"fail", "warn"}]
    /\ \A h \in Runs : Kind[h] = LockKind(h)
    /\ \A h \in Holders \ Runs : Kind[h] = "whole"
    /\ Retention \in [last : Nat, day : Nat, week : Nat] /\ MaxDelete \in Nat
    /\ MaxFiles \in Nat /\ MaxTime \in Nat /\ MaxSuffix \in Nat
    /\ DayLength \in Nat \ {0}

WantsBefore(h) == Policy[h] \in {"before", "both"}
WantsAfter(h)  == Policy[h] \in {"after", "both"}

VARIABLES run,    \* [Holders]: the execution or rollback in progress
          tree,   \* [Mirrors]: files on disk, and the last that happened to them
          loose,  \* the holders with a writer at work that holds no lock
          snaps,  \* the snapshots on disk
          now     \* seconds of the clock the names of snapshots carry

runVars == <<run, tree, loose, snaps, now>>
allVars == <<vars, runVars>>

\* "none": run_once has not entered run_once_inner.  "end": it returns.
Stages == {"none", "ensure", "before", "hooks", "sync", "grace", "after_hooks",
           "judge", "after", "prune", "terminal", "end"}
Results == {"none", "ok", "err", "cancelled", "timeout"}

\* A name is a second and a random suffix; "manual" is one outside the pattern.
Snapshots == [at : 0..MaxTime, u : 0..MaxSuffix, kind : {"before", "after", "manual"}]

\* left: descendants of the provider's process outlived it (guard.disarm).
Execution == [stage : Stages, cancel : BOOLEAN, left : BOOLEAN, result : Results,
              base : 0..MaxFiles, mark : SUBSET Snapshots, plan : SUBSET Snapshots]
Fresh == [stage |-> "none", cancel |-> FALSE, left |-> FALSE, result |-> "none",
          base |-> 0, mark |-> {}, plan |-> {}]

\* A tree was judged by a run, written by one that holds its lock, or by a
\* container, a rollback's child or a descendant that nobody waits for.
Trees == [files : 0..MaxFiles, by : {"judged", "run", "loose"}]

\* The types, and that only the holder of its lock is in a stage (run_once).
RunTypeOK ==
    /\ TypeOK
    /\ \A h \in Holders : run[h].stage # "none" => pc[h] = "holding"
    /\ run \in [Holders -> Execution]
    /\ tree \in [Mirrors -> Trees] /\ loose \subseteq Holders
    /\ snaps \subseteq Snapshots
    /\ now \in 0..MaxTime

RunInit ==
    /\ Init
    /\ run = [h \in Holders |-> Fresh]
    /\ tree = [m \in Mirrors |-> [files |-> MaxFiles, by |-> "judged"]]
    /\ loose = {}
    /\ snaps = {[at |-> 0, u |-> 0, kind |-> "manual"]}
    /\ now = 0

-----------------------------------------------------------------------------
(* Retention. *)

matches_synora(s) == s.kind # "manual"

Older(s, t) == s.at < t.at \/ (s.at = t.at /\ s.u < t.u)
Newest(S, n) == {s \in S : Cardinality({t \in S : Older(s, t)}) < n}

\* The oldest snapshot of each period, for the newest n periods.
periodic_kept(S, length, n) ==
    Newest({s \in S : \A t \in S : Older(t, s) => t.at \div length # s.at \div length}, n)

\* Mutant: retention counts every snapshot, whatever its name.
prune_any(S) ==
    S \ (Newest(S, Retention.last)
         \cup periodic_kept(S, DayLength, Retention.day)
         \cup periodic_kept(S, WeekLength, Retention.week))

\* Months are left out: they are periods like the other two.
prune_plan(S) ==
    LET ours == {s \in S : matches_synora(s)}
    IN  ours \ (Newest(ours, Retention.last)
                \cup periodic_kept(ours, DayLength, Retention.day)
                \cup periodic_kept(ours, WeekLength, Retention.week))

snapshot_name(kind) ==
    {s \in Snapshots : /\ s.at = now /\ s.kind = kind
                       /\ \A t \in snaps : t.at = now => t.u # s.u}

create(s) == snaps' = snaps \cup {s}
delete(s) == snaps' = snaps \ {s}

-----------------------------------------------------------------------------
(* One execution. *)

Set(h, r) == run' = [run EXCEPT ![h] = r]
In(h, s) == h \in Runs /\ pc[h] = "holding" /\ run[h].stage = s
GoTo(h, s) == Set(h, [run[h] EXCEPT !.stage = s])
EndWith(h, r, s) == Set(h, [run[h] EXCEPT !.result = r, !.stage = s])
\* run_once_inner returns with its outcome.
Outcome(h, r) == Set(h, [Fresh EXCEPT !.stage = "terminal", !.result = r,
                                      !.cancel = run[h].cancel, !.left = run[h].left])
Touched(h) == tree' = [tree EXCEPT ![Path[h]].by = "run"]
Written(h, by) == \E n \in 0..MaxFiles :
                     tree' = [tree EXCEPT ![Path[h]] = [files |-> n, by |-> by]]

\* The steps of StorageLock that leave the execution alone.
LockStep(h) ==
    /\ \/ h \in Runs /\ Begin(h)
       \/ Flock(h)
    /\ UNCHANGED runVars

\* run_once gives up with the lock; a rollback likewise.
LockRefused(h) ==
    /\ Refused(h)
    /\ run' = [run EXCEPT ![h] = Fresh]
    /\ UNCHANGED <<tree, loose, snaps, now>>

\* The operator, the reaper's answer or the watchdog.
CancelRun(h) ==
    /\ h \in Runs /\ pc[h] # "idle" /\ ~run[h].cancel
    /\ Set(h, [run[h] EXCEPT !.cancel = TRUE])
    /\ UNCHANGED <<vars, tree, loose, snaps, now>>

Enter(h) ==
    /\ In(h, "none")
    /\ IF run[h].cancel THEN EndWith(h, "cancelled", "end") ELSE GoTo(h, "ensure")
    /\ UNCHANGED <<vars, tree, loose, snaps, now>>

\* StorageManager::ensure, check_min_free and create_dir_all.
Ensure(h) ==
    /\ In(h, "ensure")
    /\ GoTo(h, "before") \/ Outcome(h, "err")
    /\ UNCHANGED <<vars, tree, loose, snaps, now>>

Unsnapshotted(h) == IF OnFail[h] = "fail" THEN Outcome(h, "err")
                                          ELSE GoTo(h, "hooks")

\* Mutant: a snapshot that fails never stops the run.
BeforeCarriesOn(h) ==
    /\ In(h, "before")
    /\ \/ ~WantsBefore(h) /\ GoTo(h, "hooks") /\ UNCHANGED snaps
       \/ /\ WantsBefore(h) /\ Backend # "dir"
          /\ \E s \in snapshot_name("before") :
                /\ create(s)
                /\ Set(h, [run[h] EXCEPT !.stage = "hooks", !.mark = {s}])
       \/ WantsBefore(h) /\ GoTo(h, "hooks") /\ UNCHANGED snaps
    /\ UNCHANGED <<vars, tree, loose, now>>

Before(h) ==
    /\ In(h, "before")
    /\ \/ ~WantsBefore(h) /\ GoTo(h, "hooks") /\ UNCHANGED snaps
       \/ /\ WantsBefore(h) /\ Backend # "dir"
          /\ \E s \in snapshot_name("before") :
                /\ create(s)
                /\ Set(h, [run[h] EXCEPT !.stage = "hooks", !.mark = {s}])
       \/ WantsBefore(h) /\ Unsnapshotted(h) /\ UNCHANGED snaps
    /\ UNCHANGED <<vars, tree, loose, now>>

\* run_hooks starts a hook unless the run is cancelled; the provider starts
\* its processes.  Either may write to the mirror.  Beside what is left of the
\* provider a hook is one step.
SpawnChild(h) ==
    /\ \/ In(h, "sync")
       \/ \E s \in {"hooks", "after_hooks", "terminal"} : In(h, s) /\ ~run[h].cancel
    /\ ~child[h] \/ run[h].left
    /\ Spawn(h)
    /\ Touched(h)
    /\ UNCHANGED <<run, loose, snaps, now>>

\* A cancelled run kills the group of its hook and does not wait for its end;
\* nobody waits for what is left of the provider.
HooksOver(h) == ~child[h] \/ run[h].cancel \/ run[h].left

HookEnds(h) ==
    /\ In(h, "hooks") \/ In(h, "after_hooks") \/ In(h, "terminal")
    /\ ChildEnds(h)
    /\ Set(h, [run[h] EXCEPT !.left = FALSE])
    /\ UNCHANGED <<tree, loose, snaps, now>>

\* The before_sync hooks are over; walk measures the tree.
Measure(h) ==
    /\ In(h, "hooks") /\ HooksOver(h)
    /\ Set(h, [run[h] EXCEPT !.stage = "sync", !.base = tree[Path[h]].files])
    /\ UNCHANGED <<vars, tree, loose, snaps, now>>

\* The provider has left its client; `docker rm -f` may not have got through,
\* and dropping the future or dying kills the client alone.
BoxStays(h) == loose' \in {loose, loose \cup ({h} \cap Boxed)}

\* provider.sync returns; a cancelled one may have got to its end.  Without a
\* cancel it disarms its guard and leaves the rest of the group alone.
SyncEnds(h) ==
    /\ In(h, "sync")
    /\ \E r \in {"ok", "err", "cancelled"}, left \in BOOLEAN :
          /\ r = "cancelled" => run[h].cancel /\ ~left
          /\ Set(h, [run[h] EXCEPT !.result = r, !.left = left, !.stage = "after_hooks"])
          /\ IF child[h]
             THEN /\ IF left THEN UNCHANGED vars ELSE ChildEnds(h)
                  /\ Written(h, "run")
                  /\ IF r = "ok" THEN UNCHANGED loose ELSE BoxStays(h)
             ELSE r # "ok" /\ ~left /\ UNCHANGED <<vars, tree, loose>>
    /\ UNCHANGED <<snaps, now>>

\* The job's timeout cancels the run and gives the provider 30 seconds.
Timeout(h) ==
    /\ Timed /\ In(h, "sync")
    /\ Set(h, [run[h] EXCEPT !.stage = "grace", !.cancel = TRUE])
    /\ UNCHANGED <<vars, tree, loose, snaps, now>>

\* The provider returns in time and has reaped its child, or its future is
\* dropped, which kills the process group and does not wait for its end.
GraceEnds(h) ==
    /\ In(h, "grace")
    /\ EndWith(h, "timeout", "after_hooks")
    /\ \/ ChildEnds(h)
       \/ UNCHANGED vars
    /\ Written(h, "run")
    /\ BoxStays(h)
    /\ UNCHANGED <<snaps, now>>

AfterHooks(h) ==
    /\ In(h, "after_hooks")
    /\ HooksOver(h)
    /\ GoTo(h, "judge")
    /\ UNCHANGED <<vars, tree, loose, snaps, now>>

safety_violation(h) == run[h].base - tree[Path[h]].files > MaxDelete

\* Safety limits, fail_on_match and run_verify judge a provider's success.
Judge(h) ==
    /\ In(h, "judge")
    /\ IF run[h].result = "ok" /\ ~safety_violation(h)
       THEN \/ /\ tree' = [tree EXCEPT ![Path[h]].by = "judged"]
               /\ GoTo(h, "after")
            \/ Outcome(h, "err") /\ UNCHANGED tree
       ELSE /\ Outcome(h, IF run[h].result = "ok" THEN "err" ELSE run[h].result)
            /\ UNCHANGED tree
    /\ UNCHANGED <<vars, loose, snaps, now>>

\* The after-success snapshot, then the plan of what to prune (or a failed
\* list, and no plan).
After(h) ==
    /\ In(h, "after")
    /\ \/ ~WantsAfter(h) /\ Outcome(h, run[h].result) /\ UNCHANGED snaps
       \/ /\ WantsAfter(h) /\ Backend # "dir"
          /\ \E s \in snapshot_name("after") :
                /\ create(s)
                /\ GoTo(h, "prune") \/ Outcome(h, run[h].result)
       \/ /\ WantsAfter(h) /\ UNCHANGED snaps
          /\ IF OnFail[h] = "fail" THEN Outcome(h, "err") ELSE Outcome(h, run[h].result)
    /\ UNCHANGED <<vars, tree, loose, now>>

Plan(h) ==
    /\ In(h, "prune") /\ run[h].plan = {}
    /\ LET plan == prune_plan(snaps)
       IN  IF plan = {} THEN Outcome(h, run[h].result)
                        ELSE Set(h, [run[h] EXCEPT !.plan = plan])
    /\ UNCHANGED <<vars, tree, loose, snaps, now>>

\* One delete of the plan, oldest first; an error is logged and passed over.
Prune(h) ==
    /\ In(h, "prune")
    /\ \E s \in run[h].plan :
          /\ \A t \in run[h].plan : ~Older(t, s)
          /\ delete(s) \/ UNCHANGED snaps
          /\ IF run[h].plan = {s} THEN Outcome(h, run[h].result)
                                  ELSE Set(h, [run[h] EXCEPT !.plan = @ \ {s}])
    /\ UNCHANGED <<vars, tree, loose, now>>

\* on_success or on_failure, left out once the run is cancelled.
TerminalHooks(h) ==
    /\ In(h, "terminal")
    /\ HooksOver(h)
    /\ GoTo(h, "end")
    /\ UNCHANGED <<vars, tree, loose, snaps, now>>

Forget(h) == Set(h, Fresh)

\* Mutant: the lock files are unlocked, not only closed.
ReturnUnlocks(h) ==
    /\ In(h, "end") /\ CloseUnlocks(h)
    /\ Forget(h)
    /\ UNCHANGED <<tree, loose, snaps, now>>

\* run_once returns and the lock is dropped.
Return(h) ==
    /\ In(h, "end") /\ Close(h)
    /\ Forget(h)
    /\ UNCHANGED <<tree, loose, snaps, now>>

\* The process dies with the execution, or the rollback, in any stage.
Die(h) ==
    /\ Close(h) /\ Forget(h)
    /\ IF child[h] /\ run[h].stage \in {"sync", "grace"} THEN BoxStays(h) ELSE UNCHANGED loose
    /\ UNCHANGED <<tree, snaps, now>>

\* A child that outlived its run ends, having written what it would.
OrphanEnds(h) ==
    /\ h \in Runs /\ pc[h] = "idle"
    /\ ChildEnds(h)
    /\ Written(h, "run")
    /\ UNCHANGED <<run, loose, snaps, now>>

\* What is left of the provider writes beside the later stages of its run.
RestWrites(h) ==
    /\ h \in Runs /\ pc[h] = "holding" /\ run[h].left /\ child[h]
    /\ Written(h, "loose")
    /\ UNCHANGED <<vars, run, loose, snaps, now>>

\* A container whose client is gone writes, whoever holds the lock, and ends.
BoxWrites(h) ==
    /\ h \in Runs \cap loose
    /\ Written(h, "loose")
    /\ loose' \in {loose, loose \ {h}}
    /\ UNCHANGED <<vars, run, snaps, now>>

-----------------------------------------------------------------------------
(* Rollback by the operator. *)

\* cmd_snapshot_rollback: the snapshot is looked up before the lock is taken.
RollbackBegin(h) ==
    /\ h \in Holders \ Runs
    /\ Begin(h)
    /\ \E s \in snaps : Set(h, [Fresh EXCEPT !.mark = {s}])
    /\ UNCHANGED <<tree, loose, snaps, now>>

\* The trees of the backend are those of another time.
Switched(by) == \E n \in 0..MaxFiles : tree' = [m \in Mirrors |-> [files |-> n, by |-> by]]

\* zfs is started as a child without the lock; a btrfs copy is exchanged with
\* the live subvolume by the holder itself.
RollbackSwitch(h) ==
    /\ h \in Holders \ Runs /\ pc[h] = "holding" /\ run[h].stage = "none"
    /\ run[h].mark \subseteq snaps
    /\ GoTo(h, "end")
    /\ IF Backend = "zfs"
       THEN loose' = loose \cup {h} /\ UNCHANGED tree
       ELSE Switched("run") /\ UNCHANGED loose
    /\ UNCHANGED <<vars, snaps, now>>

\* The zfs child switches the trees, or fails; the process that started it may
\* be gone.
ZfsEnds(h) ==
    /\ h \in loose \ Runs
    /\ Switched("loose") \/ UNCHANGED tree
    /\ loose' = loose \ {h}
    /\ UNCHANGED <<vars, run, snaps, now>>

RollbackReturn(h) ==
    /\ h \in Holders \ (Runs \cup loose) /\ run[h].stage = "end"
    /\ Close(h) /\ Forget(h)
    /\ UNCHANGED <<tree, loose, snaps, now>>

Clock == /\ now < MaxTime /\ now' = now + 1
         /\ UNCHANGED <<vars, run, tree, loose, snaps>>

RunStep(h) == \/ CancelRun(h) \/ Enter(h) \/ Ensure(h) \/ Before(h)
              \/ SpawnChild(h) \/ HookEnds(h) \/ Measure(h)
              \/ SyncEnds(h) \/ Timeout(h) \/ GraceEnds(h)
              \/ AfterHooks(h) \/ Judge(h) \/ After(h) \/ Plan(h) \/ Prune(h)
              \/ TerminalHooks(h) \/ Return(h) \/ OrphanEnds(h)
              \/ RestWrites(h) \/ BoxWrites(h)

RunNext == \/ \E h \in Holders : \/ LockStep(h) \/ LockRefused(h) \/ RunStep(h) \/ Die(h)
                                 \/ RollbackBegin(h) \/ RollbackSwitch(h)
                                 \/ ZfsEnds(h) \/ RollbackReturn(h)
           \/ Clock

RunSpec == RunInit /\ [][RunNext]_allVars

-----------------------------------------------------------------------------
(* Properties. *)

New == snaps' \ snaps
Ours(S) == {s \in S : matches_synora(s)}
AsJudged(h) ==
    LET t == tree[Path[h]]
    IN  t.by = "loose" \/ (t.by = "judged" /\ run[h].base - t.files <= MaxDelete)

\* A snapshot is taken while the run itself is the only holder of a lock on
\* its backend, so no sibling mirror and no process of a dead worker writes,
\* and no child of its own that it should have waited for.  One taken after a
\* success shows a tree that passed every check and that no holder has written
\* since (run_once_inner).  The locks promise nothing about the rest: what a
\* disarmed guard left, a container whose client is gone and the zfs of a
\* rollback hold none or are not waited for, and may have written in between.
SnapshotsAreClean ==
    [][\A s \in New :
          /\ \A g \in Holders : child[g] => run[g].cancel \/ run[g].left
          /\ Cardinality({g \in Holders : Writes(g)}) = 1
          /\ s.kind = "after" => \E h \in Runs : /\ pc[h] = "holding"
                                                 /\ run[h].result = "ok"
                                                 /\ AsJudged(h)]_allVars

\* With snapshot_failure = "fail" the provider of a run that wants a snapshot
\* before it works only while that snapshot is there to go back to, whatever
\* other runs prune meanwhile.
SyncHasWayBack ==
    \A h \in Runs :
        run[h].stage \in {"sync", "grace", "after_hooks", "judge"}
        /\ WantsBefore(h) /\ OnFail[h] = "fail"
        => run[h].mark # {} /\ run[h].mark \subseteq snaps

\* What holds in every state of a backend: the types, the locks of whoever may
\* write (LockInv), and the way back of every sync that asked for one.
StageInv == RunTypeOK /\ LockInv /\ SyncHasWayBack

\* Pruning leaves keep_last snapshots of the dataset, leaves one of each of
\* the newest keep_daily days, and never takes one synora did not name.
RetentionKeeps ==
    [][/\ {s \in snaps : s.kind = "manual"} \subseteq snaps'
       /\ LET before == Ours(snaps)
              after  == Ours(snaps')
          IN  ~(before \subseteq after)
              => /\ Cardinality(after) >= Retention.last
                 /\ \A s \in before \ after :
                       Cardinality({t.at \div DayLength : t \in {x \in before :
                                      x.at \div DayLength > s.at \div DayLength}}) < Retention.day
                       => \E t \in after : t.at \div DayLength = s.at \div DayLength]_allVars

\* Every step of an execution is a step of the locks or leaves them alone:
\* what StorageLock promises holds for the stages too.
KeepsLocks == Spec

=============================================================================
