---------------------------- MODULE RunOnceProofs ----------------------------
(***************************************************************************)
(* The advisory locks exclude overlapping mirrors, for every set of        *)
(* holders, every directory tree and any number of crashed runs.  The      *)
(* argument: flock keeps incompatible locks apart (FlockInv), a writer has *)
(* all the locks of its plan (FullInv), and of two directories where one   *)
(* contains the other, the inner plan locks the outer one's last node.     *)
(*                                                                         *)
(* The stages of an execution keep to the lock protocol, so what the locks *)
(* exclude the stages exclude; and a sync that asked for a snapshot has it *)
(* until its result is judged.  The argument of the second: a snapshot is  *)
(* only deleted by a run in its prune stage, such a run holds the root of  *)
(* the backend, and so does every run that asked for a snapshot.           *)
(*                                                                         *)
(* Snapshots are clean because their taker holds the root and is alone     *)
(* (Alone).  Retention keeps what it promises because a plan is deleted    *)
(* oldest first: what is left of it never counts on what was deleted       *)
(* (PlanShrinks), and nobody else deletes meanwhile.                       *)
(***************************************************************************)
EXTENDS RunOnce, FiniteSetTheorems, WellFoundedInduction, TLAPS

-----------------------------------------------------------------------------
(* The locks. *)

USE LockAssumption

\* The plan of a holder: depths are numbers, the first flock is not below
\* the last one, and the last node is the target itself.
LEMMA PlanType ==
    ASSUME NEW h \in Holders
    PROVE  /\ Target(h) \in Seq(Components)
           /\ Depth(h) \in Nat
           /\ First(h) \in 0..Depth(h)
           /\ Node(h, Depth(h)) = Target(h)
           /\ Mode(h, Depth(h)) = "EX"
<1>1. Target(h) \in Seq(Components)
  BY DEF Target, Kinds
<1>2. Depth(h) \in Nat
  BY <1>1 DEF Depth
<1>3. First(h) \in 0..Depth(h)
  BY <1>2 DEF First
<1>4. Node(h, Depth(h)) = Target(h)
  BY <1>1 DEF Node, Depth
<1>5. Mode(h, Depth(h)) = "EX"
  BY <1>2 DEF Mode
<1> QED
  BY <1>1, <1>2, <1>3, <1>4, <1>5

\* Initially nobody has a lock.
LEMMA InitLockInv == Init => LockInv
<1> SUFFICES ASSUME Init PROVE LockInv
  OBVIOUS
<1>1. TypeOK
  BY PlanType DEF Init, TypeOK
<1>2. ASSUME NEW h \in Holders PROVE Held(h) = {}
  <2>1. First(h) \in Int /\ next[h] = First(h)
    BY PlanType DEF Init
  <2> QED
    BY <2>1 DEF Held
<1>3. FlockInv
  BY <1>2 DEF FlockInv
<1>4. FullInv
  BY DEF Init, FullInv, Writes
<1> QED
  BY <1>1, <1>3, <1>4 DEF LockInv

\* Every step keeps the types, the compatibility of the locks held, and the
\* link between writing and holding every lock.
LEMMA NextLockInv == LockInv /\ [Next]_vars => LockInv'
<1> SUFFICES ASSUME LockInv, [Next]_vars PROVE LockInv'
  OBVIOUS
<1> USE DEF LockInv
<1>0. \A h \in Holders : /\ Depth(h) \in Nat /\ First(h) \in 0..Depth(h)
                         /\ next[h] \in First(h)..(Depth(h) + 1)
                         /\ next[h] \in Int
  BY PlanType DEF TypeOK
\* A holder that takes no flock gives up all of its locks or none.
<1>1. ASSUME NEW h \in Holders, 
             \/ next' = next
             \/ next' = [next EXCEPT ![h] = First(h)],
             next \in [Holders -> Nat]
      PROVE  FlockInv'
  <2>1. \A g \in Holders : next'[g] = next[g] \/ next'[g] = First(g)
    BY <1>1
  <2>2. ASSUME NEW g \in Holders PROVE (First(g)..(next'[g] - 1)) \subseteq Held(g)
    <3>1. First(g) \in Int /\ next[g] \in Int /\ First(g) <= next[g]
      BY <1>0
    <3> QED
      BY <3>1, <2>1 DEF Held
  <2>3. \A g \in Holders : (Held(g))' \subseteq Held(g)
    BY <2>2 DEF Held, First, Depth, Target
  <2> QED
    BY <2>3 DEF FlockInv, Node, Mode, Depth, Target
<1>2. CASE UNCHANGED vars
  BY <1>2 DEF vars, TypeOK, FlockInv, FullInv, Held, Writes
<1>3. ASSUME NEW h \in Holders, Begin(h) PROVE LockInv'
  <2>1. TypeOK'
    BY <1>3 DEF Begin, TypeOK
  <2>2. FlockInv'
    BY <1>3, <1>1 DEF Begin, TypeOK
  <2>3. FullInv'
    BY <1>3, <1>0 DEF Begin, TypeOK, FullInv, Writes
  <2> QED
    BY <2>1, <2>2, <2>3
<1>4. ASSUME NEW h \in Holders, Flock(h) PROVE LockInv'
  <2>1. next[h] <= Depth(h) /\ ~child[h]
    BY <1>4 DEF Flock, FullInv
  <2>2. TypeOK'
    BY <1>4, <1>0, <2>1 DEF Flock, TypeOK
  <2>3. /\ \A g \in Holders \ {h} : next'[g] = next[g]
        /\ next'[h] = next[h] + 1
    BY <1>4 DEF Flock, TypeOK
  <2>4. /\ \A g \in Holders \ {h} : (First(g)..(next'[g] - 1)) = Held(g)
        /\ First(h)..(next'[h] - 1) = Held(h) \cup {next[h]}
    BY <2>3, <1>0 DEF Held
  <2>5. FlockInv'
    <3> SUFFICES ASSUME NEW f \in Holders, NEW g \in Holders, f # g,
                        NEW i \in First(f)..(next'[f] - 1),
                        NEW k \in First(g)..(next'[g] - 1),
                        Node(f, i) = Node(g, k)
                 PROVE  Mode(f, i) = "SH" /\ Mode(g, k) = "SH"
      BY DEF FlockInv, Held, Node, Mode, Depth, Target, First
    <3>1. CASE i \in Held(f) /\ k \in Held(g)
      BY <3>1 DEF FlockInv
    <3>2. CASE f = h /\ i = next[h]
      BY <3>2, <2>4, <1>4 DEF Flock, Compatible
    <3>3. CASE g = h /\ k = next[h]
      BY <3>3, <2>4, <1>4 DEF Flock, Compatible
    <3> QED
      BY <3>1, <3>2, <3>3, <2>4
  <2>6. FullInv'
    BY <1>4, <1>0, <2>1, <2>3 DEF Flock, TypeOK, FullInv, Writes
  <2> QED
    BY <2>2, <2>5, <2>6
<1>5. ASSUME NEW h \in Holders, Refused(h) PROVE LockInv'
  <2>1. TypeOK'
    BY <1>5, <1>0 DEF Refused, TypeOK
  <2>2. FlockInv'
    BY <1>5, <1>1 DEF Refused, TypeOK
  <2>3. FullInv'
    BY <1>5, <1>0 DEF Refused, TypeOK, FullInv, Writes
  <2> QED
    BY <2>1, <2>2, <2>3
<1>6. ASSUME NEW h \in Holders, Spawn(h) PROVE LockInv'
  <2>1. TypeOK'
    BY <1>6 DEF Spawn, TypeOK
  <2>2. FlockInv'
    BY <1>6, <1>1 DEF Spawn, TypeOK
  <2>3. FullInv'
    BY <1>6, <1>0 DEF Spawn, TypeOK, FullInv, Writes
  <2> QED
    BY <2>1, <2>2, <2>3
<1>7. ASSUME NEW h \in Holders, Close(h) PROVE LockInv'
  <2>0. next' = next \/ next' = [next EXCEPT ![h] = First(h)]
    BY <1>7 DEF Close, TypeOK
  <2>1. TypeOK'
    BY <1>7, <1>0 DEF Close, TypeOK
  <2>2. FlockInv'
    BY <2>0, <1>1 DEF TypeOK
  <2>3. FullInv'
    BY <1>7, <1>0 DEF Close, TypeOK, FullInv, Writes
  <2> QED
    BY <2>1, <2>2, <2>3
<1>8. ASSUME NEW h \in Holders, ChildEnds(h) PROVE LockInv'
  <2>0. next' = next \/ next' = [next EXCEPT ![h] = First(h)]
    BY <1>8 DEF ChildEnds, TypeOK
  <2>1. TypeOK'
    BY <1>8, <1>0 DEF ChildEnds, TypeOK
  <2>2. FlockInv'
    BY <2>0, <1>1 DEF TypeOK
  <2>3. FullInv'
    BY <1>8, <1>0 DEF ChildEnds, TypeOK, FullInv, Writes
  <2> QED
    BY <2>1, <2>2, <2>3
<1> QED
  BY <1>2, <1>3, <1>4, <1>5, <1>6, <1>7, <1>8 DEF Next

\* Every execution and every child that outlives one holds all the locks of
\* its plan, and no two holders have incompatible locks (acquire_mode).
THEOREM LockInvariant == Spec => []LockInv
<1>1. Init => LockInv
  BY InitLockInv
<1>2. LockInv /\ [Next]_vars => LockInv'
  BY NextLockInv
<1> QED
  BY <1>1, <1>2, PTL DEF Spec

\* A mirror whose directory is that of g, or contains it, is not written
\* together with g.
LEMMA OuterExcludesInner ==
    ASSUME LockInv, NEW h \in Holders, NEW g \in Holders, h # g,
           Writes(h), Writes(g), Kind[g] # "own",
           IsPrefix(Target(h), Target(g))
    PROVE  FALSE
<1>1. PICK k \in 0..Len(Target(g)) : Target(h) = SubSeq(Target(g), 1, k)
  BY DEF IsPrefix
<1>2. next[h] = Depth(h) + 1 /\ next[g] = Depth(g) + 1
  BY DEF LockInv, FullInv
<1>3. Depth(h) \in Held(h)
  BY <1>2, PlanType DEF Held
<1>4. Node(h, Depth(h)) = Node(g, k)
  BY <1>1, PlanType DEF Node
<1>5. First(g) = 0
  <2>1. CASE Kind[g] = "under"
    BY <2>1 DEF First
  <2>2. CASE Kind[g] = "whole"
    <3>1. Target(g) = << >>
      BY <2>2 DEF Target
    <3> QED
      BY <3>1, <2>2 DEF First, Depth
  <2> QED
    BY <2>1, <2>2 DEF Kinds
<1>6. k \in Held(g)
  BY <1>1, <1>2, <1>5, PlanType DEF Held, Depth
<1>7. Mode(h, Depth(h)) = "SH"
  BY <1>3, <1>4, <1>6 DEF LockInv, FlockInv
<1> QED
  BY <1>7, PlanType

\* Two holders of one directory do not write at once, plain or not.
LEMMA SameTargetExcludes ==
    ASSUME LockInv, NEW h \in Holders, NEW g \in Holders, h # g,
           Writes(h), Writes(g), Target(h) = Target(g)
    PROVE  FALSE
<1>1. next[h] = Depth(h) + 1 /\ next[g] = Depth(g) + 1
  BY DEF LockInv, FullInv
<1>2. Depth(h) \in Held(h) /\ Depth(g) \in Held(g)
  BY <1>1, PlanType DEF Held
<1>3. Node(h, Depth(h)) = Node(g, Depth(g))
  BY DEF Node, Depth
<1>4. Mode(h, Depth(h)) = "SH"
  BY <1>2, <1>3 DEF LockInv, FlockInv
<1> QED
  BY <1>4, PlanType

\* A directory has one writer, and mirrors and rollbacks of one backend that
\* overlap are never written at once, whatever the tree and whoever crashed
\* (acquire_under, spawn_group).
THEOREM OverlapExclusion == Spec => []OverlapsExclude
<1>1. LockInv => OverlapsExclude
  <2> SUFFICES ASSUME LockInv, NEW h \in Holders, NEW g \in Holders,
                      h # g, Writes(h), Writes(g)
               PROVE  /\ Target(h) # Target(g)
                      /\ Kind[h] # "own" /\ Kind[g] # "own" => ~Overlap(h, g)
    BY DEF OverlapsExclude
  <2>1. Target(h) # Target(g)
    BY SameTargetExcludes
  <2>2. ASSUME Kind[h] # "own", Kind[g] # "own", Overlap(h, g) PROVE FALSE
    <3>1. CASE IsPrefix(Target(h), Target(g))
      BY <2>2, <3>1, OuterExcludesInner
    <3>2. CASE IsPrefix(Target(g), Target(h))
      BY <2>2, <3>2, OuterExcludesInner
    <3> QED
      BY <2>2, <3>1, <3>2 DEF Overlap
  <2> QED
    BY <2>1, <2>2
<1> QED
  BY <1>1, LockInvariant, PTL

\* A flock is refused only because of an overlapping holder.
THEOREM IndependentProceed == Spec => []RefusedByOverlapOnly
<1>1. LockInv => RefusedByOverlapOnly
  <2> SUFFICES ASSUME LockInv, NEW h \in Holders, pc[h] = "locking",
                      ~Compatible(h, next[h])
               PROVE  \E g \in Holders \ {h} : Held(g) # {} /\ Overlap(h, g)
    BY DEF RefusedByOverlapOnly
  <2>1. PICK g \in Holders \ {h} : \E i \in Held(g) :
            /\ Node(g, i) = Node(h, next[h])
            /\ ~(Mode(g, i) = "SH" /\ Mode(h, next[h]) = "SH")
    BY DEF Compatible
  <2>2. PICK i \in Held(g) :
            /\ Node(g, i) = Node(h, next[h])
            /\ ~(Mode(g, i) = "SH" /\ Mode(h, next[h]) = "SH")
    BY <2>1
  <2>3. /\ next[h] \in 0..Depth(h)
        /\ i \in 0..Depth(g)
    BY PlanType DEF LockInv, TypeOK, FullInv, Held
  <2>4. CASE Mode(g, i) # "SH"
    <3>1. i = Depth(g)
      BY <2>3, <2>4, PlanType DEF Mode
    <3>2. Target(g) = SubSeq(Target(h), 1, next[h])
      BY <3>1, <2>2, PlanType DEF Node
    <3> QED
      BY <3>2, <2>3, <2>2 DEF Overlap, IsPrefix, Depth
  <2>5. CASE Mode(h, next[h]) # "SH"
    <3>1. next[h] = Depth(h)
      BY <2>3, <2>5, PlanType DEF Mode
    <3>2. Target(h) = SubSeq(Target(g), 1, i)
      BY <3>1, <2>2, PlanType DEF Node
    <3> QED
      BY <3>2, <2>3, <2>2 DEF Overlap, IsPrefix, Depth
  <2> QED
    BY <2>2, <2>4, <2>5
<1> QED
  BY <1>1, LockInvariant, PTL

HIDE LockAssumption

-----------------------------------------------------------------------------
(* The stages. *)

USE RunAssumption

Marked == {"hooks", "sync", "grace", "after_hooks", "judge"}

\* What the argument needs of the execution r of run h, beside snapshots S:
\* the snapshot is there from the moment the stage that takes it is over, and
\* only a run that locks the whole backend prunes.
StageOK(h, r, S) ==
    /\ r.stage \in Marked /\ WantsBefore(h) /\ OnFail[h] = "fail"
         => r.mark # {} /\ r.mark \subseteq S
    /\ r.stage = "prune" => WantsAfter(h) /\ Backend # "dir"

WayInv == \A h \in Runs : StageOK(h, run[h], snaps)

RunInv == RunTypeOK /\ LockInv /\ WayInv

\* A step of the stages is a step of the locks, or leaves them alone.
LEMMA StepLocks == RunNext => Next \/ UNCHANGED vars
<1> SUFFICES ASSUME RunNext PROVE Next \/ UNCHANGED vars
  OBVIOUS
<1>1. ASSUME NEW h \in Holders, \/ LockStep(h) \/ LockRefused(h) \/ Die(h)
                                \/ RollbackBegin(h) \/ RollbackReturn(h)
      PROVE  Next
  BY <1>1 DEF LockStep, LockRefused, Die, RollbackBegin, RollbackReturn, Next
<1>2. ASSUME NEW h \in Holders,
             SpawnChild(h) \/ HookEnds(h) \/ Return(h) \/ OrphanEnds(h)
      PROVE  Next
  BY <1>2 DEF SpawnChild, HookEnds, Return, OrphanEnds, Next
<1>3. ASSUME NEW h \in Holders, SyncEnds(h) \/ GraceEnds(h)
      PROVE  Next \/ UNCHANGED vars
  BY <1>3 DEF SyncEnds, GraceEnds, Next
<1>4. ASSUME NEW h \in Holders,
             \/ CancelRun(h) \/ Enter(h) \/ Ensure(h) \/ Before(h) \/ Measure(h)
             \/ Timeout(h) \/ AfterHooks(h) \/ Judge(h) \/ After(h) \/ Plan(h)
             \/ Prune(h) \/ TerminalHooks(h) \/ RestWrites(h) \/ BoxWrites(h)
             \/ RollbackSwitch(h) \/ ZfsEnds(h)
      PROVE  UNCHANGED vars
  BY <1>4 DEF CancelRun, Enter, Ensure, Before, Measure, Timeout, AfterHooks, Judge,
              After, Plan, Prune, TerminalHooks, RestWrites, BoxWrites, RollbackSwitch, ZfsEnds
<1>5. Clock => UNCHANGED vars
  BY DEF Clock
<1> QED
  BY <1>1, <1>2, <1>3, <1>4, <1>5 DEF RunNext, RunStep

\* The stages of run_once_inner implement the lock protocol of the backend,
\* whatever runs, policies and rollbacks there are.
THEOREM StagesKeepLocks == RunSpec => KeepsLocks
<1>1. RunInit => Init
  BY DEF RunInit
<1>2. [RunNext]_allVars => [Next]_vars
  BY StepLocks DEF allVars
<1> QED
  BY <1>1, <1>2, PTL DEF RunSpec, KeepsLocks, Spec

\* No two executions, rollbacks or orphaned children work on directories that
\* overlap, in whatever stage they are (run_once, spawn_group).
THEOREM StagesExclude == RunSpec => []OverlapsExclude
BY StagesKeepLocks, OverlapExclusion, PTL DEF KeepsLocks

-----------------------------------------------------------------------------
(* The induction for StageInv. *)

\* The execution of h becomes r, and no snapshot is deleted.
LEMMA ChangeOK ==
    ASSUME RunInv, NEW h \in Holders, NEW r \in Execution,
           run' = [run EXCEPT ![h] = r], snaps \subseteq snaps',
           h \in Runs => StageOK(h, r, snaps')
    PROVE  run' \in [Holders -> Execution] /\ WayInv'
<1>1. run' \in [Holders -> Execution]
  BY DEF RunInv, RunTypeOK
<1>2. ASSUME NEW g \in Runs PROVE StageOK(g, run'[g], snaps')
  <2>1. CASE g = h
    BY <2>1, <1>2 DEF RunInv, RunTypeOK
  <2>2. CASE g # h
    <3>1. run'[g] = run[g]
      BY <2>2, <1>2 DEF RunInv, RunTypeOK
    <3> QED
      BY <3>1, <1>2 DEF RunInv, WayInv, StageOK
  <2> QED
    BY <2>1, <2>2
<1> QED
  BY <1>1, <1>2 DEF WayInv

\* What an update of one execution yields.
LEMMA Updates ==
    ASSUME NEW r \in Execution
    PROVE  /\ \A s \in Stages : [r EXCEPT !.stage = s] \in Execution
           /\ \A s \in Stages, x \in Results :
                 [r EXCEPT !.result = x, !.stage = s] \in Execution
           /\ \A s \in Stages, M \in SUBSET Snapshots :
                 [r EXCEPT !.stage = s, !.mark = M] \in Execution
           /\ \A s \in Stages, P \in SUBSET Snapshots :
                 [r EXCEPT !.stage = s, !.plan = P] \in Execution
           /\ \A s \in Stages, n \in 0..MaxFiles :
                 [r EXCEPT !.stage = s, !.base = n] \in Execution
           /\ \A s \in Stages, x \in Results, b \in BOOLEAN :
                 [r EXCEPT !.result = x, !.left = b, !.stage = s] \in Execution
           /\ [r EXCEPT !.left = FALSE] \in Execution
           /\ [r EXCEPT !.cancel = TRUE] \in Execution
           /\ [r EXCEPT !.stage = "grace", !.cancel = TRUE] \in Execution
           /\ Fresh \in Execution
<1>1. \A s \in Stages : [r EXCEPT !.stage = s] \in Execution
  BY DEF Execution
<1>2. \A s \in Stages, x \in Results : [r EXCEPT !.result = x, !.stage = s] \in Execution
  BY DEF Execution
<1>3. \A s \in Stages, M \in SUBSET Snapshots : [r EXCEPT !.stage = s, !.mark = M] \in Execution
  BY DEF Execution
<1>4. \A s \in Stages, P \in SUBSET Snapshots : [r EXCEPT !.stage = s, !.plan = P] \in Execution
  BY DEF Execution
<1>5. \A s \in Stages, n \in 0..MaxFiles : [r EXCEPT !.stage = s, !.base = n] \in Execution
  BY DEF Execution
<1>6. [r EXCEPT !.cancel = TRUE] \in Execution
  BY DEF Execution
<1>7. [r EXCEPT !.stage = "grace", !.cancel = TRUE] \in Execution
  BY DEF Execution, Stages
<1>8. Fresh \in Execution
  BY DEF Execution, Fresh, Stages, Results
<1>9. \A s \in Stages, x \in Results, b \in BOOLEAN :
         [r EXCEPT !.result = x, !.left = b, !.stage = s] \in Execution
  BY DEF Execution
<1>10. [r EXCEPT !.left = FALSE] \in Execution
  BY DEF Execution
<1> QED
  BY <1>1, <1>2, <1>3, <1>4, <1>5, <1>6, <1>7, <1>8, <1>9, <1>10

\* run_once_inner has returned with x: nothing but the result, the cancel and
\* what the provider left is known of the execution.
Done(r, x) == [Fresh EXCEPT !.stage = "terminal", !.result = x,
                            !.cancel = r.cancel, !.left = r.left]

LEMMA DoneIs ==
    ASSUME NEW r \in Execution, NEW x \in Results
    PROVE  /\ Done(r, x) \in Execution
           /\ Done(r, x).stage = "terminal" /\ Done(r, x).plan = {}
           /\ Done(r, x).result = x
<1>1. Fresh \in Execution /\ Fresh.plan = {}
  BY DEF Execution, Fresh, Stages, Results
<1>2. r.cancel \in BOOLEAN /\ r.left \in BOOLEAN /\ "terminal" \in Stages
  BY DEF Execution, Stages
<1> HIDE DEF Fresh
<1> QED
  BY <1>1, <1>2 DEF Done, Execution

LEMMA OutcomeOK ==
    ASSUME RunInv, NEW h \in Holders, NEW x \in Results, Outcome(h, x), snaps \subseteq snaps'
    PROVE  run' \in [Holders -> Execution] /\ WayInv'
<1>1. run[h] \in Execution
  BY DEF RunInv, RunTypeOK
<1>2. run' = [run EXCEPT ![h] = Done(run[h], x)]
  BY DEF Outcome, Set, Done
<1>3. StageOK(h, Done(run[h], x), snaps')
  BY <1>1, DoneIs DEF StageOK, Marked
<1> QED
  BY <1>1, <1>2, <1>3, DoneIs, ChangeOK

\* The steps that change the execution of a run under its lock and nothing
\* else but, at most, snapshots that are added.
LEMMA StageSteps ==
    ASSUME RunInv, NEW h \in Holders,
           \/ CancelRun(h) \/ Enter(h) \/ Ensure(h) \/ Before(h) \/ Measure(h)
           \/ Timeout(h) \/ AfterHooks(h) \/ TerminalHooks(h)
    PROVE  run' \in [Holders -> Execution] /\ WayInv'
<1> DEFINE r == run[h]
<1>0. r \in Execution /\ (h \in Runs => StageOK(h, r, snaps)) /\ snaps \subseteq Snapshots
  BY DEF RunInv, RunTypeOK, WayInv
<1>1. ASSUME CancelRun(h) PROVE run' \in [Holders -> Execution] /\ WayInv'
  <2>1. StageOK(h, [r EXCEPT !.cancel = TRUE], snaps)
    BY <1>0, <1>1 DEF CancelRun, StageOK, Execution
  <2> QED
    BY <2>1, <1>0, <1>1, Updates, ChangeOK DEF CancelRun, Set
<1>2. ASSUME Enter(h) \/ Ensure(h) \/ TerminalHooks(h)
      PROVE  run' \in [Holders -> Execution] /\ WayInv'
  <2>1. ASSUME NEW s \in {"ensure", "before", "end"}
        PROVE  StageOK(h, [r EXCEPT !.stage = s], snaps)
    BY <1>0, <2>1 DEF StageOK, Execution, Marked
  <2>2. StageOK(h, [r EXCEPT !.result = "cancelled", !.stage = "end"], snaps)
    BY <1>0 DEF StageOK, Execution, Marked
  <2>3. snaps' = snaps
    BY <1>2 DEF Enter, Ensure, TerminalHooks
  <2>4. \/ \E s \in {"ensure", "before", "end"} : run' = [run EXCEPT ![h] = [r EXCEPT !.stage = s]]
        \/ run' = [run EXCEPT ![h] = [r EXCEPT !.result = "cancelled", !.stage = "end"]]
        \/ Outcome(h, "err")
    BY <1>2 DEF Enter, Ensure, TerminalHooks, GoTo, EndWith, Set
  <2>5. "err" \in Results /\ "cancelled" \in Results
    BY DEF Results
  <2>6. CASE Outcome(h, "err")
    BY <2>3, <2>5, <2>6, OutcomeOK
  <2>7. CASE run' = [run EXCEPT ![h] = [r EXCEPT !.result = "cancelled", !.stage = "end"]]
    <3>1. [r EXCEPT !.result = "cancelled", !.stage = "end"] \in Execution
      BY <1>0, <2>5, Updates DEF Stages
    <3> QED
      BY <2>2, <2>3, <2>7, <3>1, ChangeOK
  <2>8. CASE \E s \in {"ensure", "before", "end"} : run' = [run EXCEPT ![h] = [r EXCEPT !.stage = s]]
    BY <2>1, <2>3, <2>8, <1>0, Updates, ChangeOK DEF Stages
  <2> QED
    BY <2>4, <2>6, <2>7, <2>8
<1>3. ASSUME Before(h) PROVE run' \in [Holders -> Execution] /\ WayInv'
  <2>1. CASE run' = [run EXCEPT ![h] = [r EXCEPT !.stage = "hooks"]] /\ snaps' = snaps
             /\ (~WantsBefore(h) \/ OnFail[h] # "fail")
    <3>1. StageOK(h, [r EXCEPT !.stage = "hooks"], snaps)
      BY <1>0, <2>1 DEF StageOK, Execution
    <3> QED
      BY <2>1, <3>1, <1>0, Updates, ChangeOK DEF Stages
  <2>2. CASE \E s \in snapshot_name("before") :
                /\ snaps' = snaps \cup {s}
                /\ run' = [run EXCEPT ![h] = [r EXCEPT !.stage = "hooks", !.mark = {s}]]
    <3>1. PICK s \in snapshot_name("before") :
                /\ snaps' = snaps \cup {s}
                /\ run' = [run EXCEPT ![h] = [r EXCEPT !.stage = "hooks", !.mark = {s}]]
      BY <2>2
    <3>2. s \in Snapshots
      BY DEF snapshot_name
    <3>3. StageOK(h, [r EXCEPT !.stage = "hooks", !.mark = {s}], snaps')
      BY <1>0, <3>1 DEF StageOK, Execution
    <3>4. [r EXCEPT !.stage = "hooks", !.mark = {s}] \in Execution
      BY <3>2, <1>0 DEF Execution, Stages
    <3> QED
      BY <3>1, <3>3, <3>4, ChangeOK
  <2>3. CASE Outcome(h, "err") /\ snaps' = snaps
    BY <2>3, OutcomeOK DEF Results
  <2>4. CASE ~WantsBefore(h) /\ GoTo(h, "hooks") /\ UNCHANGED snaps
    BY <2>1, <2>4 DEF GoTo, Set
  <2>5. CASE \E s \in snapshot_name("before") :
                create(s) /\ Set(h, [run[h] EXCEPT !.stage = "hooks", !.mark = {s}])
    BY <2>2, <2>5 DEF create, Set
  <2>6. CASE Unsnapshotted(h) /\ UNCHANGED snaps
    <3>1. CASE OnFail[h] = "fail"
      BY <2>3, <2>6, <3>1 DEF Unsnapshotted
    <3>2. CASE OnFail[h] # "fail"
      BY <2>1, <2>6, <3>2 DEF Unsnapshotted, GoTo, Set
    <3> QED
      BY <3>1, <3>2
  <2> QED
    BY <1>3, <2>4, <2>5, <2>6 DEF Before
<1>4. ASSUME Measure(h) \/ Timeout(h) \/ AfterHooks(h)
      PROVE  run' \in [Holders -> Execution] /\ WayInv'
  <2>0. h \in Runs /\ r.stage \in Marked /\ snaps' = snaps
    BY <1>4 DEF Measure, Timeout, AfterHooks, In, Marked
  <2>1. CASE Measure(h)
    <3>1. Path[h] \in Mirrors
      BY <2>0 DEF Mirrors
    <3>2. tree[Path[h]].files \in 0..MaxFiles
      BY <3>1 DEF RunInv, RunTypeOK, Trees
    <3>3. [r EXCEPT !.stage = "sync", !.base = tree[Path[h]].files] \in Execution
      BY <3>2, <1>0, Updates DEF Stages
    <3>4. StageOK(h, [r EXCEPT !.stage = "sync", !.base = tree[Path[h]].files], snaps)
      BY <1>0, <2>0, <3>2 DEF StageOK, Execution
    <3> QED
      BY <2>0, <2>1, <3>3, <3>4, ChangeOK DEF Measure, Set
  <2>2. CASE Timeout(h)
    <3>1. StageOK(h, [r EXCEPT !.stage = "grace", !.cancel = TRUE], snaps)
      BY <1>0, <2>0 DEF StageOK, Execution
    <3> QED
      BY <2>0, <2>2, <3>1, <1>0, Updates, ChangeOK DEF Timeout, Set
  <2>3. CASE AfterHooks(h)
    <3>1. StageOK(h, [r EXCEPT !.stage = "judge"], snaps)
      BY <1>0, <2>0 DEF StageOK, Execution
    <3> QED
      BY <2>0, <2>3, <3>1, <1>0, Updates, ChangeOK DEF AfterHooks, GoTo, Set, Stages
  <2> QED
    BY <1>4, <2>1, <2>2, <2>3
<1> QED
  BY <1>1, <1>2, <1>3, <1>4

\* The end of a sync and what follows it, pruning excepted.
LEMMA EndSteps ==
    ASSUME RunInv, NEW h \in Holders,
           SyncEnds(h) \/ GraceEnds(h) \/ Judge(h) \/ After(h) \/ Plan(h)
    PROVE  run' \in [Holders -> Execution] /\ WayInv'
<1> DEFINE r == run[h]
<1>0. /\ r \in Execution /\ h \in Runs /\ StageOK(h, r, snaps) /\ snaps \subseteq Snapshots
      /\ snaps \subseteq snaps'
  BY DEF RunInv, RunTypeOK, WayInv, SyncEnds, GraceEnds, Judge, After, Plan, In, create
<1>1. ASSUME SyncEnds(h) \/ GraceEnds(h) PROVE run' \in [Holders -> Execution] /\ WayInv'
  <2>0. r.stage \in Marked /\ snaps' = snaps
    BY <1>1 DEF SyncEnds, GraceEnds, In, Marked
  <2>1. CASE SyncEnds(h)
    <3>1. PICK x \in Results, b \in BOOLEAN :
              run' = [run EXCEPT ![h] = [r EXCEPT !.result = x, !.left = b, !.stage = "after_hooks"]]
      BY <2>1 DEF SyncEnds, Set, Results
    <3>2. StageOK(h, [r EXCEPT !.result = x, !.left = b, !.stage = "after_hooks"], snaps')
      BY <1>0, <2>0 DEF StageOK, Execution
    <3>3. [r EXCEPT !.result = x, !.left = b, !.stage = "after_hooks"] \in Execution
      BY <1>0, Updates DEF Stages
    <3> QED
      BY <1>0, <3>1, <3>2, <3>3, ChangeOK
  <2>2. CASE GraceEnds(h)
    <3>1. run' = [run EXCEPT ![h] = [r EXCEPT !.result = "timeout", !.stage = "after_hooks"]]
      BY <2>2 DEF GraceEnds, EndWith, Set
    <3>2. StageOK(h, [r EXCEPT !.result = "timeout", !.stage = "after_hooks"], snaps')
      BY <1>0, <2>0 DEF StageOK, Execution
    <3>3. [r EXCEPT !.result = "timeout", !.stage = "after_hooks"] \in Execution
      BY <1>0, Updates DEF Stages, Results
    <3> QED
      BY <1>0, <3>1, <3>2, <3>3, ChangeOK
  <2> QED
    BY <1>1, <2>1, <2>2
<1>2. ASSUME GoTo(h, "after") PROVE run' \in [Holders -> Execution] /\ WayInv'
  <2>1. StageOK(h, [r EXCEPT !.stage = "after"], snaps')
    BY <1>0, <1>2 DEF StageOK, Execution, Marked
  <2>2. [r EXCEPT !.stage = "after"] \in Execution
    BY <1>0, <1>2, Updates DEF Stages
  <2> QED
    BY <1>0, <1>2, <2>1, <2>2, ChangeOK DEF GoTo, Set
<1>3. r.result \in Results /\ "err" \in Results
  BY <1>0 DEF Execution, Results
<1>4. ASSUME GoTo(h, "prune"), WantsAfter(h), Backend # "dir"
      PROVE  run' \in [Holders -> Execution] /\ WayInv'
  <2>1. StageOK(h, [r EXCEPT !.stage = "prune"], snaps')
    BY <1>0, <1>4 DEF StageOK, Execution, Marked
  <2>2. [r EXCEPT !.stage = "prune"] \in Execution
    BY <1>0, Updates DEF Stages
  <2> QED
    BY <1>0, <1>4, <2>1, <2>2, ChangeOK DEF GoTo, Set
<1>5. CASE Judge(h)
  <2>1. GoTo(h, "after") \/ Outcome(h, "err") \/ Outcome(h, r.result)
    BY <1>5 DEF Judge
  <2> QED
    BY <1>0, <1>2, <1>3, <2>1, OutcomeOK
<1>6. CASE After(h)
  <2>1. \/ Outcome(h, r.result) \/ Outcome(h, "err")
        \/ GoTo(h, "prune") /\ WantsAfter(h) /\ Backend # "dir"
    BY <1>6 DEF After
  <2> QED
    BY <1>0, <1>3, <1>4, <2>1, OutcomeOK
<1>7. CASE Plan(h)
  <2> DEFINE plan == prune_plan(snaps)
  <2>1. plan \subseteq Snapshots
    BY <1>0 DEF prune_plan
  <2>2. r.stage = "prune" /\ (\/ Outcome(h, r.result)
                             \/ run' = [run EXCEPT ![h] = [r EXCEPT !.plan = plan]])
    BY <1>7 DEF Plan, In, Set
  <2>3. StageOK(h, [r EXCEPT !.plan = plan], snaps')
    BY <1>0, <2>2 DEF StageOK, Execution, Marked
  <2>4. [r EXCEPT !.plan = plan] \in Execution
    BY <1>0, <2>1 DEF Execution
  <2> QED
    BY <1>0, <1>3, <2>2, <2>3, <2>4, ChangeOK, OutcomeOK
<1> QED
  BY <1>1, <1>5, <1>6, <1>7

\* A run that prunes is alone with the snapshots: every run that asked for one
\* locks the root too.
LEMMA PruneStep ==
    ASSUME RunInv, OverlapsExclude, NEW h \in Holders, Prune(h)
    PROVE  run' \in [Holders -> Execution] /\ WayInv' /\ snaps' \subseteq Snapshots
<1> DEFINE r == run[h]
<1>0. /\ r \in Execution /\ h \in Runs /\ StageOK(h, r, snaps) /\ snaps \subseteq Snapshots
      /\ r.stage = "prune" /\ pc[h] = "holding"
  BY DEF RunInv, RunTypeOK, WayInv, Prune, In
<1>1. snaps' \subseteq snaps
  BY DEF Prune, delete
<1>2. PICK q : /\ run' = [run EXCEPT ![h] = q]
               /\ q = Done(r, r.result) \/ \E s \in r.plan : q = [r EXCEPT !.plan = r.plan \ {s}]
  BY DEF Prune, Outcome, Done, Set
<1>a. r.result \in Results
  BY <1>0 DEF Execution
<1>3. q \in Execution
  BY <1>0, <1>2, <1>a, DoneIs DEF Execution
<1>4. StageOK(h, q, snaps')
  <2>1. CASE q = Done(r, r.result)
    BY <1>0, <1>a, <2>1, DoneIs DEF StageOK, Marked
  <2>2. CASE \E s \in r.plan : q = [r EXCEPT !.plan = r.plan \ {s}]
    BY <1>0, <2>2 DEF StageOK, Execution, Marked
  <2> QED
    BY <1>2, <2>1, <2>2
<1>5. run' \in [Holders -> Execution]
  BY <1>2, <1>3 DEF RunInv, RunTypeOK
<1>6. Target(h) = <<>>
  BY <1>0 DEF StageOK, WantsAfter, LockKind, Target
<1>7. ASSUME NEW g \in Runs PROVE StageOK(g, run'[g], snaps')
  <2>1. CASE g = h
    BY <1>2, <1>3, <1>4, <2>1 DEF RunInv, RunTypeOK
  <2>2. CASE g # h
    <3>1. run'[g] = run[g] /\ StageOK(g, run[g], snaps)
      BY <1>2, <1>7, <2>2 DEF RunInv, RunTypeOK, WayInv
    <3>2. ASSUME run[g].stage \in Marked, WantsBefore(g) PROVE FALSE
      <4>1. pc[g] = "holding"
        BY <1>7, <3>2 DEF RunInv, RunTypeOK, Marked
      <4>2. Target(g) = <<>>
        BY <1>0, <1>7, <3>2 DEF StageOK, WantsBefore, LockKind, Target
      <4> QED
        BY <1>0, <1>6, <1>7, <2>2, <4>1, <4>2 DEF OverlapsExclude, Writes
    <3> QED
      BY <3>1, <3>2 DEF StageOK
  <2> QED
    BY <2>1, <2>2
<1> QED
  BY <1>0, <1>1, <1>5, <1>7 DEF WayInv

\* The steps that take or close locks, start or end children, or roll back.
LEMMA OtherSteps ==
    ASSUME RunInv, NEW h \in Holders,
           \/ LockStep(h) \/ LockRefused(h) \/ SpawnChild(h) \/ HookEnds(h)
           \/ OrphanEnds(h) \/ RestWrites(h) \/ BoxWrites(h) \/ Return(h) \/ Die(h)
           \/ RollbackBegin(h) \/ RollbackSwitch(h) \/ ZfsEnds(h) \/ RollbackReturn(h)
    PROVE  run' \in [Holders -> Execution] /\ WayInv'
<1> DEFINE r == run[h]
<1>0. r \in Execution /\ (h \in Runs => StageOK(h, r, snaps)) /\ snaps \subseteq Snapshots
      /\ snaps' = snaps
  BY DEF RunInv, RunTypeOK, WayInv, LockStep, LockRefused, SpawnChild, HookEnds, OrphanEnds,
         RestWrites, BoxWrites, Return, Die, RollbackBegin, RollbackSwitch, ZfsEnds,
         RollbackReturn, runVars
<1>1. CASE run' = run
  BY <1>0, <1>1 DEF RunInv, RunTypeOK, WayInv, StageOK
<1>2. CASE run' = [run EXCEPT ![h] = Fresh]
  <2>1. StageOK(h, Fresh, snaps')
    BY DEF StageOK, Fresh, Marked
  <2>2. Fresh \in Execution
    BY <1>0, Updates
  <2> QED
    BY <1>0, <1>2, <2>1, <2>2, ChangeOK
<1>3. CASE RollbackBegin(h)
  <2>1. PICK s \in snaps : run' = [run EXCEPT ![h] = [Fresh EXCEPT !.mark = {s}]]
    BY <1>3 DEF RollbackBegin, Set
  <2>2. h \notin Runs
    BY <1>3 DEF RollbackBegin
  <2>3. Fresh \in Execution /\ {s} \subseteq Snapshots
    BY <1>0, Updates
  <2>4. [Fresh EXCEPT !.mark = {s}] \in Execution
    BY <2>3 DEF Execution
  <2> QED
    BY <1>0, <2>1, <2>2, <2>4, ChangeOK
<1>4. CASE RollbackSwitch(h)
  <2>1. h \notin Runs /\ run' = [run EXCEPT ![h] = [r EXCEPT !.stage = "end"]]
    BY <1>4 DEF RollbackSwitch, GoTo, Set
  <2>2. [r EXCEPT !.stage = "end"] \in Execution
    BY <1>0, Updates DEF Stages
  <2> QED
    BY <1>0, <2>1, <2>2, ChangeOK
<1>5. CASE HookEnds(h)
  <2>1. run' = [run EXCEPT ![h] = [r EXCEPT !.left = FALSE]]
    BY <1>5 DEF HookEnds, Set
  <2>2. StageOK(h, [r EXCEPT !.left = FALSE], snaps)
    BY <1>0, <1>5 DEF StageOK, Execution, HookEnds, In
  <2> QED
    BY <1>0, <2>1, <2>2, Updates, ChangeOK
<1>6. ASSUME \/ LockStep(h) \/ SpawnChild(h) \/ OrphanEnds(h) \/ RestWrites(h)
             \/ BoxWrites(h) \/ ZfsEnds(h)
      PROVE  run' = run
  BY <1>6 DEF LockStep, SpawnChild, OrphanEnds, RestWrites, BoxWrites, ZfsEnds, runVars
<1>7. ASSUME LockRefused(h) \/ Return(h) \/ Die(h) \/ RollbackReturn(h)
      PROVE  run' = [run EXCEPT ![h] = Fresh]
  BY <1>7 DEF LockRefused, Return, Die, RollbackReturn, Forget, Set
<1> QED
  BY <1>1, <1>2, <1>3, <1>4, <1>5, <1>6, <1>7

\* The trees, the snapshots and the clock keep their types.
LEMMA WorldTyped ==
    ASSUME RunInv, RunNext
    PROVE  /\ tree' \in [Mirrors -> Trees] /\ loose' \subseteq Holders
           /\ snaps' \subseteq Snapshots
           /\ now' \in 0..MaxTime
<1>0. /\ tree \in [Mirrors -> Trees] /\ loose \subseteq Holders
      /\ snaps \subseteq Snapshots /\ now \in 0..MaxTime
  BY DEF RunInv, RunTypeOK
<1>a. ASSUME NEW h \in Runs, NEW by \in {"run", "loose"}, Written(h, by)
      PROVE  tree' \in [Mirrors -> Trees]
  <2>1. PICK n \in 0..MaxFiles : tree' = [tree EXCEPT ![Path[h]] = [files |-> n, by |-> by]]
    BY <1>a DEF Written
  <2>2. [files |-> n, by |-> by] \in Trees
    BY DEF Trees
  <2> QED
    BY <1>0, <2>1, <2>2
<1>b. ASSUME NEW h \in Holders, BoxStays(h) PROVE loose' \subseteq Holders
  BY <1>0, <1>b DEF BoxStays
<1>1. ASSUME NEW h \in Holders, SpawnChild(h) \/ Judge(h)
      PROVE  tree' \in [Mirrors -> Trees] /\ UNCHANGED <<loose, snaps, now>>
  <2>1. UNCHANGED <<loose, snaps, now>>
    BY <1>1 DEF SpawnChild, Judge
  <2>2. h \in Runs /\ Path[h] \in Mirrors
    BY <1>1 DEF SpawnChild, Judge, In, Mirrors
  <2>3. tree' = tree \/ \E b \in {"run", "judged"} : tree' = [tree EXCEPT ![Path[h]].by = b]
    BY <1>1 DEF SpawnChild, Judge, Touched
  <2>4. \A b \in {"run", "judged"} : [tree EXCEPT ![Path[h]].by = b] \in [Mirrors -> Trees]
    <3> TAKE b \in {"run", "judged"}
    <3>1. [tree[Path[h]] EXCEPT !.by = b] \in Trees
      BY <1>0, <2>2 DEF Trees
    <3> QED
      BY <1>0, <3>1
  <2> QED
    BY <1>0, <2>1, <2>3, <2>4
<1>2. ASSUME NEW h \in Holders,
             \/ SyncEnds(h) \/ GraceEnds(h) \/ OrphanEnds(h) \/ RestWrites(h) \/ BoxWrites(h)
      PROVE  /\ tree' \in [Mirrors -> Trees] /\ loose' \subseteq Holders
             /\ UNCHANGED <<snaps, now>>
  <2>1. h \in Runs
    BY <1>2 DEF SyncEnds, GraceEnds, OrphanEnds, RestWrites, BoxWrites, In
  <2>2. tree' = tree \/ \E by \in {"run", "loose"} : Written(h, by)
    BY <1>2 DEF SyncEnds, GraceEnds, OrphanEnds, RestWrites, BoxWrites
  <2>3. \/ UNCHANGED loose \/ BoxStays(h) \/ loose' = loose \ {h}
    BY <1>2 DEF SyncEnds, GraceEnds, OrphanEnds, RestWrites, BoxWrites
  <2>4. UNCHANGED <<snaps, now>>
    BY <1>2 DEF SyncEnds, GraceEnds, OrphanEnds, RestWrites, BoxWrites
  <2> QED
    BY <1>0, <1>a, <1>b, <2>1, <2>2, <2>3, <2>4
<1>3. ASSUME NEW h \in Holders, RollbackSwitch(h) \/ ZfsEnds(h)
      PROVE  /\ tree' \in [Mirrors -> Trees] /\ loose' \subseteq Holders
             /\ UNCHANGED <<snaps, now>>
  <2>1. ASSUME NEW by \in {"run", "loose"}, Switched(by) PROVE tree' \in [Mirrors -> Trees]
    <3>1. PICK n \in 0..MaxFiles : tree' = [m \in Mirrors |-> [files |-> n, by |-> by]]
      BY <2>1 DEF Switched
    <3>2. [files |-> n, by |-> by] \in Trees
      BY DEF Trees
    <3> QED
      BY <3>1, <3>2
  <2>2. tree' = tree \/ \E by \in {"run", "loose"} : Switched(by)
    BY <1>3 DEF RollbackSwitch, ZfsEnds
  <2>3. loose' \subseteq Holders /\ UNCHANGED <<snaps, now>>
    BY <1>0, <1>3 DEF RollbackSwitch, ZfsEnds
  <2> QED
    BY <1>0, <2>1, <2>2, <2>3
<1>4. ASSUME NEW h \in Holders, Before(h) \/ After(h) \/ Prune(h)
      PROVE  UNCHANGED <<tree, loose>> /\ snaps' \subseteq Snapshots /\ now' = now
  BY <1>0, <1>4 DEF Before, After, Prune, create, delete, snapshot_name
<1>5. ASSUME NEW h \in Holders,
             \/ LockStep(h) \/ LockRefused(h) \/ CancelRun(h) \/ Enter(h) \/ Ensure(h)
             \/ HookEnds(h) \/ Measure(h) \/ Timeout(h) \/ AfterHooks(h) \/ Plan(h)
             \/ TerminalHooks(h) \/ Return(h) \/ RollbackBegin(h) \/ RollbackReturn(h)
      PROVE  UNCHANGED <<tree, loose, snaps, now>>
  BY <1>5 DEF LockStep, LockRefused, CancelRun, Enter, Ensure, HookEnds, Measure, Timeout,
              AfterHooks, Plan, TerminalHooks, Return, RollbackBegin, RollbackReturn, runVars
<1>6. ASSUME NEW h \in Holders, Die(h)
      PROVE  loose' \subseteq Holders /\ UNCHANGED <<tree, snaps, now>>
  BY <1>0, <1>6, <1>b DEF Die
<1>7. CASE Clock
  BY <1>0, <1>7 DEF Clock
<1> QED
  BY <1>0, <1>1, <1>2, <1>3, <1>4, <1>5, <1>6, <1>7 DEF RunNext, RunStep

\* Whoever is in a stage holds its lock.
LEMMA StageHasLock ==
    ASSUME RunInv, RunNext, run' \in [Holders -> Execution]
    PROVE  \A g \in Holders : run'[g].stage # "none" => pc'[g] = "holding"
<1> DEFINE Ok == \A g \in Holders : run'[g].stage # "none" => pc'[g] = "holding"
<1>0. /\ pc \in [Holders -> {"idle", "locking", "holding"}] /\ run \in [Holders -> Execution]
      /\ \A g \in Holders : run[g].stage # "none" => pc[g] = "holding"
  BY DEF RunInv, RunTypeOK, TypeOK
<1>1. ASSUME NEW h \in Holders, LockStep(h) PROVE Ok
  BY <1>0, <1>1 DEF LockStep, Begin, Flock, runVars
<1>2. ASSUME NEW h \in Holders, LockRefused(h) \/ Return(h) \/ Die(h) \/ RollbackReturn(h)
      PROVE  Ok
  <2>1. run' = [run EXCEPT ![h] = Fresh]
    BY <1>2 DEF LockRefused, Return, Die, RollbackReturn, Forget, Set
  <2>2. pc' = [pc EXCEPT ![h] = "idle"]
    BY <1>2 DEF LockRefused, Refused, Return, Die, RollbackReturn, Close
  <2> QED
    BY <1>0, <2>1, <2>2 DEF Fresh
<1>3. ASSUME NEW h \in Holders, RollbackBegin(h) PROVE Ok
  <2>1. PICK s \in snaps : run' = [run EXCEPT ![h] = [Fresh EXCEPT !.mark = {s}]]
    BY <1>3 DEF RollbackBegin, Set
  <2>2. pc' = [pc EXCEPT ![h] = "locking"]
    BY <1>3 DEF RollbackBegin, Begin
  <2> QED
    BY <1>0, <2>1, <2>2 DEF Fresh
<1>4. ASSUME NEW h \in Holders, CancelRun(h) PROVE Ok
  BY <1>0, <1>4 DEF CancelRun, Set, Execution, vars
<1>5. ASSUME NEW h \in Holders, pc[h] = "holding", pc' = pc,
             \A g \in Holders : g # h => run'[g] = run[g]
      PROVE  Ok
  BY <1>0, <1>5
<1>6. ASSUME NEW h \in Holders,
             \/ Enter(h) \/ Ensure(h) \/ Before(h) \/ Measure(h) \/ SyncEnds(h) \/ Timeout(h)
             \/ GraceEnds(h) \/ AfterHooks(h) \/ Judge(h) \/ After(h) \/ Plan(h) \/ Prune(h)
             \/ TerminalHooks(h) \/ HookEnds(h) \/ RollbackSwitch(h)
      PROVE  Ok
  <2>1. pc[h] = "holding"
    BY <1>6 DEF Enter, Ensure, Before, Measure, SyncEnds, Timeout, GraceEnds, AfterHooks, Judge,
                After, Plan, Prune, TerminalHooks, HookEnds, RollbackSwitch, In
  <2>2. pc' = pc
    BY <1>6 DEF Enter, Ensure, Before, Measure, SyncEnds, Timeout, GraceEnds, AfterHooks, Judge,
                After, Plan, Prune, TerminalHooks, HookEnds, RollbackSwitch, ChildEnds, vars
  <2>3. \E q : run' = [run EXCEPT ![h] = q]
    BY <1>6 DEF Enter, Ensure, Before, Unsnapshotted, Measure, SyncEnds, Timeout,
                GraceEnds, AfterHooks, Judge, After, Plan, Prune, TerminalHooks, HookEnds,
                RollbackSwitch, GoTo, EndWith, Outcome, Set
  <2>4. \A g \in Holders : g # h => run'[g] = run[g]
    BY <1>0, <2>3
  <2> QED
    BY <1>5, <2>1, <2>2, <2>4
<1>7. ASSUME NEW h \in Holders,
             \/ SpawnChild(h) \/ OrphanEnds(h) \/ RestWrites(h) \/ BoxWrites(h) \/ ZfsEnds(h)
      PROVE  Ok
  BY <1>0, <1>7 DEF SpawnChild, OrphanEnds, RestWrites, BoxWrites, ZfsEnds, Spawn, ChildEnds, vars
<1>8. CASE Clock
  BY <1>0, <1>8 DEF Clock, vars
<1> QED
  BY <1>1, <1>2, <1>3, <1>4, <1>6, <1>7, <1>8 DEF RunNext, RunStep

\* The invariant of the stages.
LEMMA RunInvariant == RunSpec => []RunInv
<1>1. RunInit => RunTypeOK /\ WayInv
  <2> SUFFICES ASSUME RunInit PROVE RunTypeOK /\ WayInv
    OBVIOUS
  <2>1. TypeOK
    BY InitLockInv DEF RunInit, LockInv
  <2>2. Fresh \in Execution
    BY DEF Execution, Fresh, Stages, Results
  <2>3. WayInv
    BY DEF RunInit, WayInv, StageOK, Fresh, Marked
  <2>4. /\ tree \in [Mirrors -> Trees] /\ loose \subseteq Holders
        /\ snaps \subseteq Snapshots /\ now \in 0..MaxTime
    BY DEF RunInit, Snapshots, Trees
  <2>5. /\ run \in [Holders -> Execution]
        /\ \A h \in Holders : run[h].stage # "none" => pc[h] = "holding"
    BY <2>2 DEF RunInit, Fresh
  <2> QED
    BY <2>1, <2>3, <2>4, <2>5 DEF RunTypeOK
<1>2. RunTypeOK /\ WayInv /\ LockInv /\ LockInv' /\ OverlapsExclude /\ [RunNext]_allVars
        => RunTypeOK' /\ WayInv'
  <2> SUFFICES ASSUME RunInv, LockInv', OverlapsExclude, [RunNext]_allVars
               PROVE  RunTypeOK' /\ WayInv'
    BY DEF RunInv
  <2>1. CASE UNCHANGED allVars
    BY <2>1 DEF allVars, vars, runVars, RunInv, LockInv, RunTypeOK, WayInv, StageOK
  <2>2. CASE RunNext
    <3>1. run' \in [Holders -> Execution] /\ WayInv'
      <4>1. CASE Clock
        BY <4>1 DEF Clock, RunInv, RunTypeOK, WayInv, StageOK
      <4> QED
        BY <2>2, <4>1, StageSteps, EndSteps, PruneStep, OtherSteps DEF RunNext, RunStep
    <3> QED
      BY <2>2, <3>1, WorldTyped, StageHasLock DEF RunTypeOK, LockInv
  <2> QED
    BY <2>1, <2>2
<1>3. RunTypeOK /\ WayInv /\ LockInv => RunInv
  BY DEF RunInv
<1> QED
  BY <1>1, <1>2, <1>3, StagesKeepLocks, LockInvariant, StagesExclude, PTL DEF RunSpec, KeepsLocks

\* In every state the types are right, whoever may write has its locks, and a
\* sync whose policy asked for a snapshot has it to go back to, whatever other
\* runs prune and whichever processes die (run_once_inner, prune).
THEOREM StagesHold == RunSpec => []StageInv
<1>1. RunInv => StageInv
  BY DEF RunInv, StageInv, SyncHasWayBack, WayInv, StageOK, Marked
<1> QED
  BY <1>1, RunInvariant, PTL

-----------------------------------------------------------------------------
(* Snapshots and retention. *)

\* No child runs beside a snapshot unless it was killed or left by a provider
\* that returned, and what is about to be snapshotted after a success passed
\* every check, or was written by somebody without the lock: of run h at p of
\* the lock protocol, with or without a child, in execution r over tree t.
Clean(h, p, c, r, t) ==
    /\ p # "idle" /\ r.stage \in {"none", "ensure", "before"} => ~c
    /\ r.stage \in {"judge", "after"} /\ c => r.cancel \/ r.left
    /\ r.stage = "after" => r.result = "ok"
    /\ r.stage = "after" /\ WantsAfter(h) /\ Backend # "dir"
          => t.by = "loose" \/ (t.by = "judged" /\ r.base - t.files <= MaxDelete)

CleanInv == \A h \in Runs : Clean(h, pc[h], child[h], run[h], tree[Path[h]])

Day(s) == s.at \div DayLength
NewerThan(S, s) == {t \in Ours(S) : Older(s, t)}
DaysAfter(S, s) == {t.at \div DayLength : t \in {x \in Ours(S) :
                                                   x.at \div DayLength > s.at \div DayLength}}

\* What is still to be deleted is synora's, has keep_last newer ones, and is of
\* a day that is too old for keep_daily or keeps another.
PlanOK(P, S) ==
    \A s \in P : /\ matches_synora(s)
                 /\ Cardinality(NewerThan(S, s)) >= Retention.last
                 /\ \/ Cardinality(DaysAfter(S, s)) >= Retention.day
                    \/ \E t \in Ours(S) \ P : Day(t) = Day(s)

PlanInv == \A h \in Runs : /\ PlanOK(run[h].plan, snaps)
                           /\ run[h].plan # {} => run[h].stage = "prune"

\* Names are unique.
NamesInv == /\ IsFiniteSet(snaps)
            /\ \A s, t \in snaps : s.at = t.at /\ s.u = t.u => s = t

SnapInv == CleanInv /\ PlanInv /\ NamesInv

\* A later moment is not of an earlier period, and a period has a number.
LEMMA PeriodsGrow ==
    ASSUME NEW D \in Nat \ {0}, NEW a \in Nat, NEW b \in Nat, a <= b
    PROVE  a \div D \in Nat /\ a \div D <= b \div D /\ a \div D <= a
<1>1. PICK m \in Nat : m = a \div D
  OBVIOUS
<1>2. PICK n \in Nat : n = b \div D
  OBVIOUS
<1>3. D * m <= a /\ b < D * (n + 1)
  <2>1. a = D * m + (a % D) /\ a % D \in 0..(D - 1)
    BY <1>1
  <2>2. b = D * n + (b % D) /\ b % D \in 0..(D - 1)
    BY <1>2
  <2>3. D * (n + 1) = D * n + D
    OBVIOUS
  <2> QED
    BY <2>1, <2>2, <2>3
<1>4. m <= n
  <2> SUFFICES ASSUME m >= n + 1 PROVE FALSE
    OBVIOUS
  <2>1. D * m >= D * (n + 1)
    OBVIOUS
  <2> QED
    BY <1>3, <2>1
<1>5. m <= D * m
  OBVIOUS
<1> QED
  BY <1>1, <1>2, <1>3, <1>4, <1>5

LEMMA DayTyped ==
    ASSUME NEW s \in Snapshots, NEW t \in Snapshots, s.at <= t.at
    PROVE  Day(s) \in 0..MaxTime /\ Day(s) <= Day(t)
<1>1. s.at \in Nat /\ t.at \in Nat /\ s.at <= MaxTime /\ MaxTime \in Nat
  BY DEF Snapshots
<1> QED
  BY <1>1, PeriodsGrow DEF Day

LEMMA DaysFinite ==
    ASSUME NEW S, S \subseteq Snapshots, NEW s
    PROVE  IsFiniteSet(DaysAfter(S, s))
<1>1. ASSUME NEW d \in DaysAfter(S, s) PROVE d \in 0..MaxTime
  <2>1. PICK t \in Ours(S) : d = Day(t)
    BY <1>1 DEF DaysAfter, Day
  <2>2. t \in Snapshots /\ t.at <= t.at
    BY DEF Ours, Snapshots
  <2> QED
    BY <2>1, <2>2, DayTyped
<1>2. IsFiniteSet(0..MaxTime)
  BY FS_Interval
<1> QED
  BY <1>1, <1>2, FS_Subset

\* More snapshots, none of them to be deleted, keep the plan what it is.
LEMMA PlanGrows ==
    ASSUME NEW P, NEW S, NEW T, S \subseteq T, T \subseteq Snapshots, IsFiniteSet(T), PlanOK(P, S)
    PROVE  PlanOK(P, T)
<1> SUFFICES ASSUME NEW s \in P
             PROVE  /\ matches_synora(s)
                    /\ Cardinality(NewerThan(T, s)) >= Retention.last
                    /\ \/ Cardinality(DaysAfter(T, s)) >= Retention.day
                       \/ \E t \in Ours(T) \ P : Day(t) = Day(s)
  BY DEF PlanOK
<1>1. Ours(S) \subseteq Ours(T) /\ Ours(T) \subseteq T
  BY DEF Ours
<1>2. NewerThan(S, s) \subseteq NewerThan(T, s) /\ NewerThan(T, s) \subseteq T
  BY <1>1 DEF NewerThan
<1>3. DaysAfter(S, s) \subseteq DaysAfter(T, s)
  BY <1>1 DEF DaysAfter
<1>4. /\ Cardinality(NewerThan(S, s)) \in Nat /\ Cardinality(NewerThan(T, s)) \in Nat
      /\ Cardinality(NewerThan(S, s)) <= Cardinality(NewerThan(T, s))
  <2>1. IsFiniteSet(NewerThan(T, s))
    BY <1>2, FS_Subset
  <2>2. IsFiniteSet(NewerThan(S, s)) /\ Cardinality(NewerThan(S, s)) <= Cardinality(NewerThan(T, s))
    BY <1>2, <2>1, FS_Subset
  <2> QED
    BY <2>1, <2>2, FS_CardinalityType
<1>5. /\ Cardinality(DaysAfter(S, s)) \in Nat /\ Cardinality(DaysAfter(T, s)) \in Nat
      /\ Cardinality(DaysAfter(S, s)) <= Cardinality(DaysAfter(T, s))
  <2>1. IsFiniteSet(DaysAfter(T, s))
    BY DaysFinite
  <2>2. IsFiniteSet(DaysAfter(S, s)) /\ Cardinality(DaysAfter(S, s)) <= Cardinality(DaysAfter(T, s))
    BY <1>3, <2>1, FS_Subset
  <2> QED
    BY <2>1, <2>2, FS_CardinalityType
<1>6. Retention.last \in Nat /\ Retention.day \in Nat
  OBVIOUS
<1>7. /\ matches_synora(s) /\ Cardinality(NewerThan(S, s)) >= Retention.last
      /\ \/ Cardinality(DaysAfter(S, s)) >= Retention.day
         \/ \E t \in Ours(S) \ P : Day(t) = Day(s)
  BY DEF PlanOK
<1> QED
  BY <1>1, <1>4, <1>5, <1>6, <1>7

Below == {ss \in Nat \X Nat : ss[1] < ss[2]}

LEMMA BelowWellFounded == IsWellFoundedOn(Below, Nat)
BY NatLessThanWellFounded DEF Below, OpToRel

\* A set of moments has a first one, and a set of snapshots an oldest one.
LEMMA FirstMoment ==
    ASSUME NEW S, S \subseteq Nat, S # {}
    PROVE  \E x \in S : \A y \in S : x <= y
<1>1. PICK x \in S : \A y \in S : ~(<<y, x>> \in Below)
  BY BelowWellFounded, WFMin
<1>2. ASSUME NEW y \in S PROVE x <= y
  <2>1. x \in Nat /\ y \in Nat
    OBVIOUS
  <2>2. ~(y < x)
    BY <1>1, <2>1 DEF Below
  <2> QED
    BY <2>1, <2>2
<1> QED
  BY <1>2

LEMMA OldestExists ==
    ASSUME NEW S, S \subseteq Snapshots, S # {}
    PROVE  \E s \in S : \A t \in S : ~Older(t, s)
<1>0. \A s \in S : s.at \in Nat /\ s.u \in Nat
  BY DEF Snapshots
<1>1. PICK a \in {s.at : s \in S} : \A y \in {s.at : s \in S} : a <= y
  <2>1. {s.at : s \in S} \subseteq Nat /\ {s.at : s \in S} # {}
    BY <1>0
  <2> QED
    BY <2>1, FirstMoment
<1> DEFINE A == {s \in S : s.at = a}
<1>2. PICK b \in {s.u : s \in A} : \A y \in {s.u : s \in A} : b <= y
  <2>1. {s.u : s \in A} \subseteq Nat /\ {s.u : s \in A} # {}
    BY <1>0, <1>1
  <2> QED
    BY <2>1, FirstMoment
<1>3. PICK s \in A : s.u = b
  BY <1>2
<1>4. ASSUME NEW t \in S PROVE ~Older(t, s)
  <2>1. a <= t.at /\ (t.at = a => b <= t.u)
    BY <1>1, <1>2
  <2> QED
    BY <1>0, <1>3, <2>1 DEF Older
<1> QED
  BY <1>3, <1>4

\* prune_plan: what it deletes has keep_last newer ones, and is of a day that
\* is too old for keep_daily or keeps another.
LEMMA RetentionPlans ==
    ASSUME NEW S, S \subseteq Snapshots, IsFiniteSet(S),
           \A s, t \in S : s.at = t.at /\ s.u = t.u => s = t
    PROVE  PlanOK(prune_plan(S), S)
<1> DEFINE ours == Ours(S)
           P == prune_plan(S)
           Firsts == {x \in ours : \A t \in ours : Older(t, x) => Day(t) # Day(x)}
<1>0. /\ ours \subseteq S /\ IsFiniteSet(ours)
      /\ \A s \in ours : s \in Snapshots /\ s.at \in Nat /\ s.u \in Nat /\ matches_synora(s)
  <2>1. ours \subseteq S
    BY DEF Ours
  <2> QED
    BY <2>1, FS_Subset DEF Ours, Snapshots
<1>1. P \subseteq ours \ (Newest(ours, Retention.last) \cup Newest(Firsts, Retention.day))
  BY DEF prune_plan, periodic_kept, Ours, Day
<1> SUFFICES ASSUME NEW s \in P
             PROVE  /\ matches_synora(s)
                    /\ Cardinality(NewerThan(S, s)) >= Retention.last
                    /\ \/ Cardinality(DaysAfter(S, s)) >= Retention.day
                       \/ \E t \in Ours(S) \ P : Day(t) = Day(s)
  BY DEF PlanOK
<1> HIDE DEF P
<1>2. s \in ours /\ matches_synora(s)
  BY <1>0, <1>1
<1>3. Cardinality(NewerThan(S, s)) >= Retention.last
  <2>1. ~(Cardinality({t \in ours : Older(s, t)}) < Retention.last)
    BY <1>1, <1>2 DEF Newest
  <2>2. IsFiniteSet({t \in ours : Older(s, t)})
    BY <1>0, FS_Subset
  <2>3. Cardinality({t \in ours : Older(s, t)}) \in Nat
    BY <2>2, FS_CardinalityType
  <2>4. Cardinality({t \in ours : Older(s, t)}) >= Retention.last
    BY <2>1, <2>3
  <2> QED
    BY <2>4 DEF NewerThan
<1>4. PICK o \in {t \in ours : Day(t) = Day(s)} :
         \A t \in {x \in ours : Day(x) = Day(s)} : ~Older(t, o)
  <2>1. {t \in ours : Day(t) = Day(s)} \subseteq Snapshots /\ {t \in ours : Day(t) = Day(s)} # {}
    BY <1>0, <1>2
  <2> QED
    BY <2>1, OldestExists
<1>5. o \in ours /\ Day(o) = Day(s) /\ o \in Firsts
  BY <1>4
<1>6. CASE o \notin P
  BY <1>2, <1>3, <1>5, <1>6
<1>7. CASE o \in P
  <2> DEFINE F == {t \in Firsts : Older(o, t)}
             f == [t \in F |-> Day(t)]
             days == DaysAfter(S, s)
  <2>1. ~(Cardinality(F) < Retention.day)
    BY <1>1, <1>5, <1>7 DEF Newest
  <2>2. ASSUME NEW t \in F PROVE Day(t) \in days
    <3>1. t \in ours /\ Older(o, t) /\ Day(o) # Day(t)
      BY <1>5
    <3>2. o.at <= t.at
      BY <1>0, <1>5, <3>1 DEF Older
    <3>3. Day(o) <= Day(t) /\ Day(o) \in Nat
      BY <1>0, <1>5, <3>1, <3>2, DayTyped
    <3>4. t.at <= t.at /\ t \in Snapshots
      BY <1>0, <3>1
    <3>5. Day(t) \in Nat
      BY <3>4, DayTyped
    <3>6. Day(t) > Day(s)
      BY <1>5, <3>1, <3>3, <3>5
    <3> QED
      BY <3>1, <3>6 DEF DaysAfter, Day
  <2>3. ASSUME NEW t \in F, NEW v \in F, Day(t) = Day(v) PROVE t = v
    <3>1. t \in ours /\ v \in ours /\ ~Older(t, v) /\ ~Older(v, t)
      BY <2>3
    <3>2. t.at \in Nat /\ v.at \in Nat /\ t.u \in Nat /\ v.u \in Nat
      BY <1>0, <3>1
    <3>3. t.at = v.at /\ t.u = v.u
      BY <3>1, <3>2 DEF Older
    <3> QED
      BY <1>0, <3>1, <3>3
  <2>4. IsFiniteSet(days)
    BY DaysFinite
  <2> HIDE DEF F, days
  <2>5. f \in Injection(F, days)
    BY <2>2, <2>3 DEF Injection, IsInjective
  <2>6. IsFiniteSet(F) /\ Cardinality(F) <= Cardinality(days)
    BY <2>4, <2>5, FS_Injection
  <2>7. Cardinality(F) \in Nat /\ Cardinality(days) \in Nat
    BY <2>4, <2>6, FS_CardinalityType
  <2>8. Cardinality(days) >= Retention.day
    BY <2>1, <2>6, <2>7
  <2> QED
    BY <1>2, <1>3, <2>8 DEF days
<1> QED
  BY <1>6, <1>7

\* The plan after one deletion, or after a deletion that failed.
LEMMA PlanShrinks ==
    ASSUME NEW P, P \subseteq Snapshots, NEW S, S \subseteq Snapshots, PlanOK(P, S),
           NEW s \in P, \A t \in P : ~Older(t, s)
    PROVE  PlanOK(P \ {s}, S \ {s}) /\ PlanOK(P \ {s}, S)
<1> SUFFICES ASSUME NEW x \in P \ {s}
             PROVE  /\ matches_synora(x)
                    /\ Cardinality(NewerThan(S \ {s}, x)) >= Retention.last
                    /\ Cardinality(NewerThan(S, x)) >= Retention.last
                    /\ \/ /\ Cardinality(DaysAfter(S \ {s}, x)) >= Retention.day
                          /\ Cardinality(DaysAfter(S, x)) >= Retention.day
                       \/ \E t \in Ours(S \ {s}) \ P : Day(t) = Day(x)
  <2>1. Ours(S \ {s}) \subseteq Ours(S)
    BY DEF Ours
  <2> QED
    BY <2>1 DEF PlanOK
<1>1. /\ matches_synora(x) /\ Cardinality(NewerThan(S, x)) >= Retention.last
      /\ \/ Cardinality(DaysAfter(S, x)) >= Retention.day
         \/ \E t \in Ours(S) \ P : Day(t) = Day(x)
  BY DEF PlanOK
<1>2. Ours(S \ {s}) = Ours(S) \ {s}
  BY DEF Ours
<1>3. ~Older(x, s)
  OBVIOUS
<1>4. NewerThan(S \ {s}, x) = NewerThan(S, x)
  BY <1>2, <1>3 DEF NewerThan
<1>5. ~(s.at \div DayLength > x.at \div DayLength)
  <2>1. s.at \in Nat /\ x.at \in Nat /\ s \in Snapshots /\ x \in Snapshots
    BY DEF Snapshots
  <2>2. s.at <= x.at
    BY <1>3, <2>1 DEF Older
  <2>3. Day(s) <= Day(x) /\ Day(s) \in Nat /\ Day(x) \in Nat
    BY <2>1, <2>2, DayTyped
  <2> QED
    BY <2>3 DEF Day
<1>6. {y \in Ours(S \ {s}) : y.at \div DayLength > x.at \div DayLength}
         = {y \in Ours(S) : y.at \div DayLength > x.at \div DayLength}
  BY <1>2, <1>5
<1>7. DaysAfter(S \ {s}, x) = DaysAfter(S, x)
  BY <1>6 DEF DaysAfter
<1>8. \A t \in Ours(S) \ P : t \in Ours(S \ {s}) \ P
  BY <1>2
<1> QED
  BY <1>1, <1>4, <1>7, <1>8

\* A run that holds the root of a backend with snapshots is alone.
LEMMA Alone ==
    ASSUME OverlapsExclude, NEW h \in Runs, Backend # "dir", Policy[h] # "never", Writes(h),
           NEW g \in Holders \ {h}, LockAssumption
    PROVE  ~Writes(g)
<1>1. h \in Holders /\ Kind[h] = "whole" /\ Target(h) = <<>>
  BY DEF LockKind, Target
<1>2. Kind[g] # "own"
  BY DEF LockKind
<1>3. Target(g) \in Seq(Components)
  BY DEF Target, Kinds
<1>4. 0 \in 0..Len(Target(g)) /\ SubSeq(Target(g), 1, 0) = <<>>
  BY <1>3
<1>5. Overlap(h, g)
  BY <1>1, <1>4 DEF Overlap, IsPrefix
<1> QED
  BY <1>1, <1>2, <1>5 DEF OverlapsExclude

\* Every step but one of the clock is of one holder: the others' locks,
\* children and executions stay, and only a writer with the lock, or one that
\* leaves its mark, changes a tree.
HolderStep(h) == LockStep(h) \/ LockRefused(h) \/ RunStep(h) \/ Die(h)
                 \/ RollbackBegin(h) \/ RollbackSwitch(h) \/ ZfsEnds(h) \/ RollbackReturn(h)

Changed(m) == tree'[m] # tree[m]

\* A write without the lock is marked.
LEMMA LooseMarks ==
    ASSUME RunInv, NEW h \in Holders, \/ h \in Runs /\ Written(h, "loose")
                                      \/ Switched("loose")
    PROVE  \A m \in Mirrors : Changed(m) => tree'[m].by = "loose"
<1>1. tree \in [Mirrors -> Trees]
  BY DEF RunInv, RunTypeOK
<1>2. CASE h \in Runs /\ Written(h, "loose")
  <2>1. PICK n \in 0..MaxFiles : tree' = [tree EXCEPT ![Path[h]] = [files |-> n, by |-> "loose"]]
    BY <1>2 DEF Written
  <2> QED
    BY <1>1, <2>1 DEF Changed
<1>3. CASE Switched("loose")
  BY <1>3 DEF Switched
<1> QED
  BY <1>2, <1>3

LEMMA OneMoves ==
    ASSUME RunInv, NEW h \in Holders, HolderStep(h)
    PROVE  /\ \E q : run' = [run EXCEPT ![h] = q]
           /\ \E p : pc' = [pc EXCEPT ![h] = p]
           /\ \E c : child' = [child EXCEPT ![h] = c]
           /\ \/ tree' = tree \/ Writes(h)
              \/ \A m \in Mirrors : Changed(m) => tree'[m].by = "loose"
<1>0. /\ pc \in [Holders -> {"idle", "locking", "holding"}] /\ run \in [Holders -> Execution]
      /\ child \in [Holders -> BOOLEAN]
  BY DEF RunInv, RunTypeOK, TypeOK
<1>1. /\ run = [run EXCEPT ![h] = run[h]] /\ pc = [pc EXCEPT ![h] = pc[h]]
      /\ child = [child EXCEPT ![h] = child[h]]
  BY <1>0
<1>2. CASE \/ LockStep(h) \/ LockRefused(h) \/ Die(h) \/ Return(h) \/ RollbackBegin(h)
           \/ RollbackReturn(h)
  <2>1. \E q : run' = [run EXCEPT ![h] = q]
    BY <1>1, <1>2 DEF LockStep, LockRefused, Die, Return, RollbackBegin, RollbackReturn, Forget,
                      Set, runVars
  <2>2. child' = child /\ tree' = tree
    BY <1>2 DEF LockStep, LockRefused, Die, Return, RollbackBegin, RollbackReturn, Begin, Flock,
                Refused, Close, runVars
  <2>3. \E p : pc' = [pc EXCEPT ![h] = p]
    BY <1>2 DEF LockStep, LockRefused, Die, Return, RollbackBegin, RollbackReturn, Begin, Flock,
                Refused, Close
  <2> QED
    BY <1>1, <2>1, <2>2, <2>3
<1>3. CASE SpawnChild(h) \/ HookEnds(h) \/ OrphanEnds(h)
  <2>1. pc' = pc /\ \E c : child' = [child EXCEPT ![h] = c]
    BY <1>3 DEF SpawnChild, HookEnds, OrphanEnds, Spawn, ChildEnds
  <2>2. tree' = tree \/ Writes(h)
    BY <1>3 DEF SpawnChild, HookEnds, OrphanEnds, Spawn, ChildEnds, Writes
  <2>3. \E q : run' = [run EXCEPT ![h] = q]
    BY <1>1, <1>3 DEF SpawnChild, HookEnds, OrphanEnds, Set
  <2> QED
    BY <1>1, <2>1, <2>2, <2>3
<1>6. CASE RestWrites(h) \/ BoxWrites(h) \/ ZfsEnds(h)
  <2>1. run' = run /\ pc' = pc /\ child' = child
    BY <1>6 DEF RestWrites, BoxWrites, ZfsEnds, vars
  <2>2. \/ h \in Runs /\ Written(h, "loose")
        \/ Switched("loose")
        \/ tree' = tree
    BY <1>6 DEF RestWrites, BoxWrites, ZfsEnds
  <2> QED
    BY <1>1, <2>1, <2>2, LooseMarks
<1>4. CASE SyncEnds(h) \/ GraceEnds(h)
  <2>1. pc' = pc /\ pc[h] = "holding"
    BY <1>4 DEF SyncEnds, GraceEnds, In, ChildEnds, vars
  <2>2. child' = child \/ \E c : child' = [child EXCEPT ![h] = c]
    BY <1>4 DEF SyncEnds, GraceEnds, ChildEnds, vars
  <2>3. \E q : run' = [run EXCEPT ![h] = q]
    BY <1>4 DEF SyncEnds, GraceEnds, EndWith, Set
  <2> QED
    BY <1>1, <2>1, <2>2, <2>3 DEF Writes
<1>5. CASE \/ CancelRun(h) \/ Enter(h) \/ Ensure(h) \/ Before(h) \/ Measure(h) \/ Timeout(h)
           \/ AfterHooks(h) \/ Judge(h) \/ After(h) \/ Plan(h) \/ Prune(h)
           \/ TerminalHooks(h) \/ RollbackSwitch(h)
  <2>1. pc' = pc /\ child' = child
    BY <1>5 DEF CancelRun, Enter, Ensure, Before, Measure, Timeout, AfterHooks, Judge, After, Plan,
                Prune, TerminalHooks, RollbackSwitch, vars
  <2>2. \E q : run' = [run EXCEPT ![h] = q]
    BY <1>5 DEF CancelRun, Enter, Ensure, Before, Unsnapshotted, Measure, Timeout, AfterHooks,
                Judge, After, Plan, Prune, TerminalHooks, RollbackSwitch, GoTo, EndWith, Outcome,
                Set
  <2>3. tree' = tree \/ pc[h] = "holding"
    BY <1>5 DEF CancelRun, Enter, Ensure, Before, Measure, Timeout, AfterHooks, Judge, After, Plan,
                Prune, TerminalHooks, RollbackSwitch, In
  <2> QED
    BY <1>1, <2>1, <2>2, <2>3 DEF Writes
<1> QED
  BY <1>2, <1>3, <1>4, <1>5, <1>6 DEF HolderStep, RunStep

\* The moving run stays clean.
LEMMA MoverClean ==
    ASSUME RunInv, SnapInv, NEW h \in Runs, HolderStep(h)
    PROVE  Clean(h, pc'[h], child'[h], run'[h], tree'[Path[h]])
<1> DEFINE r == run[h]
           Ok == Clean(h, pc'[h], child'[h], run'[h], tree'[Path[h]])
<1>0. /\ h \in Holders /\ r \in Execution /\ (r.stage # "none" => pc[h] = "holding")
      /\ pc \in [Holders -> {"idle", "locking", "holding"}] /\ child \in [Holders -> BOOLEAN]
      /\ run \in [Holders -> Execution]
  BY DEF RunInv, RunTypeOK, TypeOK
<1>1. Clean(h, pc[h], child[h], r, tree[Path[h]])
  BY DEF SnapInv, CleanInv
<1>2. Path[h] \in Mirrors /\ tree \in [Mirrors -> Trees]
  BY DEF Mirrors, RunInv, RunTypeOK
<1>3. CASE LockStep(h)
  BY <1>0, <1>1, <1>3 DEF LockStep, Begin, Flock, runVars, Clean
<1>4. CASE LockRefused(h) \/ Return(h) \/ Die(h)
  <2>1. run'[h] = Fresh /\ pc'[h] = "idle"
    BY <1>0, <1>4 DEF LockRefused, Refused, Return, Die, Forget, Set, Close
  <2> QED
    BY <2>1 DEF Clean, Fresh
<1>5. CASE CancelRun(h)
  <2>1. run'[h] = [r EXCEPT !.cancel = TRUE] /\ UNCHANGED <<pc, child, tree>>
    BY <1>0, <1>5 DEF CancelRun, Set, vars
  <2> QED
    BY <1>0, <1>1, <2>1 DEF Clean, Execution
<1>6. ASSUME run'[h].stage \in {"hooks", "sync", "grace", "after_hooks", "prune", "terminal", "end"}
      PROVE  Ok
  BY <1>6 DEF Clean
<1>7. ASSUME NEW s, GoTo(h, s) PROVE run'[h].stage = s
  BY <1>0, <1>7 DEF GoTo, Set, Execution
<1>8. ASSUME NEW x, NEW s, EndWith(h, x, s) PROVE run'[h].stage = s
  BY <1>0, <1>8 DEF EndWith, Set, Execution
<1>9. ASSUME NEW q, Set(h, q) PROVE run'[h] = q
  BY <1>0, <1>9 DEF Set
<1>a. ASSUME NEW x \in Results, Outcome(h, x) PROVE run'[h].stage = "terminal"
  <2>1. run'[h] = Done(r, x)
    BY <1>a, <1>9 DEF Outcome, Done
  <2> QED
    BY <1>0, <2>1, DoneIs
<1>b. r.result \in Results /\ "err" \in Results
  BY <1>0 DEF Execution, Results
<1>10. CASE Enter(h) \/ Ensure(h)
  <2>1. ~child[h] /\ child' = child
    BY <1>1, <1>10 DEF Enter, Ensure, In, Clean, vars
  <2>2. run'[h].stage \in {"ensure", "before", "end", "terminal"}
    BY <1>10, <1>7, <1>8, <1>a, <1>b DEF Enter, Ensure
  <2> QED
    BY <2>1, <2>2 DEF Clean
<1>11. CASE Before(h) \/ Measure(h) \/ SyncEnds(h) \/ Timeout(h) \/ GraceEnds(h)
  <2>1. run'[h].stage \in {"hooks", "sync", "grace", "after_hooks", "prune", "terminal", "end"}
    <3>1. CASE Before(h)
      <4>1. \/ GoTo(h, "hooks") \/ Outcome(h, "err")
            \/ \E s : Set(h, [run[h] EXCEPT !.stage = "hooks", !.mark = {s}])
        BY <3>1 DEF Before, Unsnapshotted
      <4>2. ASSUME NEW s, Set(h, [run[h] EXCEPT !.stage = "hooks", !.mark = {s}])
            PROVE  run'[h].stage = "hooks"
        BY <1>0, <1>9, <4>2 DEF Execution
      <4> QED
        BY <1>7, <1>a, <1>b, <4>1, <4>2
    <3>2. CASE Measure(h)
      BY <1>0, <1>9, <3>2 DEF Measure, Execution
    <3>3. CASE Timeout(h)
      BY <1>0, <1>9, <3>3 DEF Timeout, Execution
    <3>4. CASE GraceEnds(h)
      BY <1>8, <3>4 DEF GraceEnds
    <3>5. CASE SyncEnds(h)
      <4>1. PICK x, b : run'[h] = [r EXCEPT !.result = x, !.left = b, !.stage = "after_hooks"]
        BY <1>9, <3>5 DEF SyncEnds
      <4> QED
        BY <1>0, <4>1 DEF Execution
    <3> QED
      BY <1>11, <3>1, <3>2, <3>3, <3>4, <3>5
  <2> QED
    BY <1>6, <2>1
<1>12. CASE After(h) \/ Plan(h) \/ Prune(h) \/ TerminalHooks(h)
  <2>1. run'[h].stage \in {"hooks", "sync", "grace", "after_hooks", "prune", "terminal", "end"}
    <3>1. CASE After(h) \/ TerminalHooks(h)
      BY <1>7, <1>a, <1>b, <3>1 DEF After, TerminalHooks
    <3>2. CASE Plan(h) \/ Prune(h)
      <4>1. r.stage = "prune"
        BY <3>2 DEF Plan, Prune, In
      <4>2. Outcome(h, r.result) \/ \E z : Set(h, [r EXCEPT !.plan = z])
        BY <3>2 DEF Plan, Prune
      <4>3. \A z : [r EXCEPT !.plan = z].stage = "prune"
        BY <1>0, <4>1 DEF Execution
      <4> QED
        BY <1>9, <1>a, <1>b, <4>2, <4>3
    <3> QED
      BY <1>12, <3>1, <3>2
  <2> QED
    BY <1>6, <2>1
<1>13. CASE SpawnChild(h) \/ HookEnds(h)
  <2>1. r.stage \in {"hooks", "sync", "after_hooks", "terminal"}
    BY <1>13 DEF SpawnChild, HookEnds, In
  <2>2. run'[h] = r \/ run'[h] = [r EXCEPT !.left = FALSE]
    BY <1>9, <1>13 DEF SpawnChild, HookEnds
  <2>3. run'[h].stage = r.stage
    BY <1>0, <2>2 DEF Execution
  <2> QED
    BY <1>6, <2>1, <2>3
<1>14. CASE AfterHooks(h)
  <2>1. run'[h] = [r EXCEPT !.stage = "judge"] /\ child' = child
        /\ (~child[h] \/ r.cancel \/ r.left)
    BY <1>0, <1>14 DEF AfterHooks, HooksOver, GoTo, Set, vars
  <2>2. run'[h].stage = "judge" /\ run'[h].cancel = r.cancel /\ run'[h].left = r.left
    BY <1>0, <2>1 DEF Execution
  <2> QED
    BY <2>1, <2>2 DEF Clean
<1>15. CASE Judge(h)
  <2>0. r.stage = "judge" /\ UNCHANGED <<pc, child>>
    BY <1>15 DEF Judge, In, vars
  <2>1. CASE Outcome(h, "err") \/ Outcome(h, r.result)
    <3>1. run'[h].stage = "terminal"
      BY <1>a, <1>b, <2>1
    <3> QED
      BY <1>6, <3>1
  <2>2. CASE /\ r.result = "ok" /\ ~safety_violation(h) /\ GoTo(h, "after")
             /\ tree' = [tree EXCEPT ![Path[h]].by = "judged"]
    <3>1. run'[h] = [r EXCEPT !.stage = "after"]
      BY <1>0, <2>2 DEF GoTo, Set
    <3>2. /\ run'[h].stage = "after" /\ run'[h].result = "ok" /\ run'[h].base = r.base
          /\ run'[h].cancel = r.cancel /\ run'[h].left = r.left
      BY <1>0, <2>2, <3>1 DEF Execution
    <3>3. tree'[Path[h]].by = "judged" /\ tree'[Path[h]].files = tree[Path[h]].files
      BY <1>2, <2>2 DEF Trees
    <3>4. r.base - tree[Path[h]].files <= MaxDelete
      <4>1. r.base \in Nat /\ tree[Path[h]].files \in Nat /\ MaxDelete \in Nat
        BY <1>0, <1>2 DEF Execution, Trees
      <4> QED
        BY <2>2, <4>1 DEF safety_violation
    <3>5. child[h] => r.cancel \/ r.left
      BY <1>1, <2>0 DEF Clean
    <3> QED
      BY <2>0, <3>2, <3>3, <3>4, <3>5 DEF Clean
  <2> QED
    BY <1>15, <2>1, <2>2 DEF Judge
<1>16. CASE OrphanEnds(h)
  <2>1. run'[h] = r /\ pc'[h] = "idle" /\ pc[h] = "idle"
    BY <1>16 DEF OrphanEnds, ChildEnds
  <2>2. r.stage = "none"
    BY <1>0, <2>1
  <2> QED
    BY <2>1, <2>2 DEF Clean
<1>17. CASE RestWrites(h) \/ BoxWrites(h)
  <2>1. run' = run /\ pc' = pc /\ child' = child /\ Written(h, "loose")
    BY <1>17 DEF RestWrites, BoxWrites, vars
  <2>2. tree'[Path[h]].by = "loose"
    BY <1>2, <2>1 DEF Written
  <2> QED
    BY <1>1, <2>1, <2>2 DEF Clean
<1>18. ~RollbackBegin(h) /\ ~RollbackSwitch(h) /\ ~ZfsEnds(h) /\ ~RollbackReturn(h)
  BY DEF RollbackBegin, RollbackSwitch, ZfsEnds, RollbackReturn
<1> QED
  BY <1>3, <1>4, <1>5, <1>10, <1>11, <1>12, <1>13, <1>14, <1>15, <1>16, <1>17, <1>18
  DEF HolderStep, RunStep

LEMMA CleanKeeps ==
    ASSUME RunInv, SnapInv, OverlapsExclude, RunNext, LockAssumption
    PROVE  CleanInv'
<1>0. /\ pc \in [Holders -> {"idle", "locking", "holding"}] /\ child \in [Holders -> BOOLEAN]
      /\ run \in [Holders -> Execution]
      /\ \A h \in Holders : run[h].stage # "none" => pc[h] = "holding"
  BY DEF RunInv, RunTypeOK, TypeOK
<1>1. CASE Clock
  BY <1>1 DEF Clock, vars, SnapInv, CleanInv
<1>2. ASSUME NEW h \in Holders, HolderStep(h) PROVE CleanInv'
  <2> SUFFICES ASSUME NEW g \in Runs
               PROVE  Clean(g, pc'[g], child'[g], run'[g], tree'[Path[g]])
    BY DEF CleanInv
  <2>1. CASE g = h
    BY <1>2, <2>1, MoverClean
  <2>2. CASE g # h
    <3>1. /\ run'[g] = run[g] /\ pc'[g] = pc[g] /\ child'[g] = child[g]
          /\ \/ tree' = tree \/ Writes(h)
             \/ \A m \in Mirrors : Changed(m) => tree'[m].by = "loose"
      BY <1>0, <1>2, <2>2, OneMoves
    <3>2. Clean(g, pc[g], child[g], run[g], tree[Path[g]])
      BY DEF SnapInv, CleanInv
    <3>3. ASSUME run[g].stage = "after", WantsAfter(g), Backend # "dir"
          PROVE  tree'[Path[g]] = tree[Path[g]] \/ tree'[Path[g]].by = "loose"
      <4>1. Writes(g) /\ Policy[g] # "never"
        BY <1>0, <3>3 DEF Writes, WantsAfter
      <4>2. ~Writes(h)
        BY <2>2, <3>3, <4>1, Alone
      <4>3. Path[g] \in Mirrors
        BY DEF Mirrors
      <4> QED
        BY <3>1, <4>2, <4>3 DEF Changed
    <3> QED
      BY <3>1, <3>2, <3>3 DEF Clean
  <2> QED
    BY <2>1, <2>2
<1> QED
  BY <1>1, <1>2 DEF RunNext, HolderStep

\* Run h adds snapshot s, or deletes it.
Takes(h, s) ==
    /\ \/ In(h, "before") /\ WantsBefore(h) /\ s \in snapshot_name("before")
       \/ In(h, "after") /\ WantsAfter(h) /\ s \in snapshot_name("after")
    /\ Backend # "dir" /\ snaps' = snaps \cup {s}

Drops(h, s) ==
    /\ In(h, "prune") /\ s \in run[h].plan /\ \A t \in run[h].plan : ~Older(t, s)
    /\ snaps' = snaps \ {s}

\* Snapshots come from create and go by delete.
LEMMA SnapsMove ==
    ASSUME NEW h \in Holders, HolderStep(h)
    PROVE  snaps' = snaps \/ (\E s : Takes(h, s)) \/ (Prune(h) /\ \E s : Drops(h, s))
<1>1. CASE \/ LockStep(h) \/ LockRefused(h) \/ Die(h) \/ RollbackBegin(h) \/ RollbackSwitch(h)
           \/ ZfsEnds(h) \/ RollbackReturn(h) \/ RestWrites(h) \/ BoxWrites(h)
  BY <1>1 DEF LockStep, LockRefused, Die, RollbackBegin, RollbackSwitch, ZfsEnds, RollbackReturn,
              RestWrites, BoxWrites, runVars
<1>2. CASE \/ CancelRun(h) \/ Enter(h) \/ Ensure(h) \/ SpawnChild(h) \/ HookEnds(h) \/ Measure(h)
           \/ SyncEnds(h) \/ Timeout(h) \/ GraceEnds(h) \/ AfterHooks(h) \/ Judge(h) \/ Plan(h)
           \/ TerminalHooks(h) \/ Return(h) \/ OrphanEnds(h)
  BY <1>2 DEF CancelRun, Enter, Ensure, SpawnChild, HookEnds, Measure, SyncEnds, Timeout,
              GraceEnds, AfterHooks, Judge, Plan, TerminalHooks, Return, OrphanEnds, runVars
<1>3. CASE Before(h)
  BY <1>3 DEF Before, Takes, create
<1>4. CASE After(h)
  BY <1>4 DEF After, Takes, create
<1>5. CASE Prune(h)
  BY <1>5 DEF Prune, Drops, delete
<1> QED
  BY <1>1, <1>2, <1>3, <1>4, <1>5 DEF HolderStep, RunStep

\* Whatever a run does but plan and delete, its plan stays or is forgotten.
LEMMA PlanStays ==
    ASSUME RunInv, SnapInv, NEW h \in Runs, HolderStep(h), ~Plan(h), ~Prune(h)
    PROVE  \/ run'[h].plan = {}
           \/ run'[h].plan = run[h].plan /\ run'[h].stage = run[h].stage
<1> DEFINE r == run[h]
<1>0. h \in Holders /\ r \in Execution /\ run \in [Holders -> Execution]
      /\ (r.plan # {} => r.stage = "prune")
  BY DEF RunInv, RunTypeOK, SnapInv, PlanInv
<1>1. CASE LockStep(h) \/ SpawnChild(h) \/ OrphanEnds(h) \/ RestWrites(h) \/ BoxWrites(h)
  BY <1>1 DEF LockStep, SpawnChild, OrphanEnds, RestWrites, BoxWrites, runVars
<1>2. CASE LockRefused(h) \/ Return(h) \/ Die(h)
  <2>1. run'[h] = Fresh
    BY <1>0, <1>2 DEF LockRefused, Return, Die, Forget, Set
  <2> QED
    BY <2>1 DEF Fresh
<1>3. CASE CancelRun(h) \/ HookEnds(h)
  <2>1. run'[h] = [r EXCEPT !.cancel = TRUE] \/ run'[h] = [r EXCEPT !.left = FALSE]
    BY <1>0, <1>3 DEF CancelRun, HookEnds, Set
  <2> QED
    BY <1>0, <2>1 DEF Execution
<1>4. ASSUME NEW q, Set(h, q), r.stage # "prune", q.plan = r.plan PROVE run'[h].plan = {}
  <2>1. run'[h] = q
    BY <1>0, <1>4 DEF Set
  <2> QED
    BY <1>0, <1>4, <2>1
<1>5. ASSUME NEW s, GoTo(h, s), r.stage # "prune" PROVE run'[h].plan = {}
  <2>1. [r EXCEPT !.stage = s].plan = r.plan
    BY <1>0 DEF Execution
  <2> QED
    BY <1>4, <1>5, <2>1 DEF GoTo
<1>6. ASSUME NEW x, NEW s, EndWith(h, x, s), r.stage # "prune" PROVE run'[h].plan = {}
  <2>1. [r EXCEPT !.result = x, !.stage = s].plan = r.plan
    BY <1>0 DEF Execution
  <2> QED
    BY <1>4, <1>6, <2>1 DEF EndWith
<1>a. ASSUME NEW x \in Results, Outcome(h, x) PROVE run'[h].plan = {}
  <2>1. run'[h] = Done(r, x)
    BY <1>0, <1>a DEF Outcome, Done, Set
  <2> QED
    BY <1>0, <2>1, DoneIs
<1>b. r.result \in Results /\ "err" \in Results
  BY <1>0 DEF Execution, Results
<1>7. CASE \/ Enter(h) \/ Ensure(h) \/ GraceEnds(h) \/ AfterHooks(h) \/ Judge(h)
           \/ After(h) \/ TerminalHooks(h)
  <2>1. r.stage # "prune"
    BY <1>7 DEF Enter, Ensure, GraceEnds, AfterHooks, Judge, After, TerminalHooks, In
  <2>2. \/ \E s : GoTo(h, s)
        \/ \E x, s : EndWith(h, x, s)
        \/ Outcome(h, "err") \/ Outcome(h, r.result)
    BY <1>7 DEF Enter, Ensure, GraceEnds, AfterHooks, Judge, After, TerminalHooks
  <2> QED
    BY <1>5, <1>6, <1>a, <1>b, <2>1, <2>2
<1>c. CASE SyncEnds(h)
  <2>1. r.stage # "prune"
    BY <1>c DEF SyncEnds, In
  <2>2. PICK x, b : Set(h, [r EXCEPT !.result = x, !.left = b, !.stage = "after_hooks"])
    BY <1>c DEF SyncEnds
  <2>3. [r EXCEPT !.result = x, !.left = b, !.stage = "after_hooks"].plan = r.plan
    BY <1>0 DEF Execution
  <2> QED
    BY <1>4, <2>1, <2>2, <2>3
<1>8. CASE Before(h)
  <2>1. r.stage # "prune"
    BY <1>8 DEF Before, In
  <2>2. \/ GoTo(h, "hooks") \/ Outcome(h, "err")
        \/ \E s : Set(h, [r EXCEPT !.stage = "hooks", !.mark = {s}])
    BY <1>8 DEF Before, Unsnapshotted
  <2>3. \A s : [r EXCEPT !.stage = "hooks", !.mark = {s}].plan = r.plan
    BY <1>0 DEF Execution
  <2> QED
    BY <1>4, <1>5, <1>a, <1>b, <2>1, <2>2, <2>3
<1>9. CASE Measure(h) \/ Timeout(h)
  <2>1. r.stage # "prune"
    BY <1>9 DEF Measure, Timeout, In
  <2>2. \/ Set(h, [r EXCEPT !.stage = "sync", !.base = tree[Path[h]].files])
        \/ Set(h, [r EXCEPT !.stage = "grace", !.cancel = TRUE])
    BY <1>9 DEF Measure, Timeout
  <2>3. /\ [r EXCEPT !.stage = "sync", !.base = tree[Path[h]].files].plan = r.plan
        /\ [r EXCEPT !.stage = "grace", !.cancel = TRUE].plan = r.plan
    BY <1>0 DEF Execution
  <2> QED
    BY <1>4, <2>1, <2>2, <2>3
<1>10. ~RollbackBegin(h) /\ ~RollbackSwitch(h) /\ ~ZfsEnds(h) /\ ~RollbackReturn(h)
  BY DEF RollbackBegin, RollbackSwitch, ZfsEnds, RollbackReturn
<1> QED
  BY <1>1, <1>2, <1>3, <1>7, <1>8, <1>9, <1>10, <1>c DEF HolderStep, RunStep

LEMMA NamesKeep ==
    ASSUME RunInv, SnapInv, NEW h \in Holders, HolderStep(h)
    PROVE  NamesInv'
<1>0. IsFiniteSet(snaps) /\ \A s, t \in snaps : s.at = t.at /\ s.u = t.u => s = t
  BY DEF SnapInv, NamesInv
<1>1. CASE snaps' = snaps
  BY <1>0, <1>1 DEF NamesInv
<1>2. ASSUME NEW s, Takes(h, s) PROVE NamesInv'
  <2>1. snaps' = snaps \cup {s} /\ s.at = now /\ \A t \in snaps : t.at = now => t.u # s.u
    BY <1>2 DEF Takes, snapshot_name
  <2>2. IsFiniteSet(snaps')
    BY <1>0, <2>1, FS_AddElement
  <2> QED
    BY <1>0, <2>1, <2>2 DEF NamesInv
<1>3. ASSUME NEW s, Drops(h, s) PROVE NamesInv'
  <2>1. snaps' = snaps \ {s}
    BY <1>3 DEF Drops
  <2>2. IsFiniteSet(snaps')
    BY <1>0, <2>1, FS_RemoveElement
  <2> QED
    BY <1>0, <2>1, <2>2 DEF NamesInv
<1> QED
  BY <1>1, <1>2, <1>3, SnapsMove

LEMMA PlansKeep ==
    ASSUME RunInv, SnapInv, OverlapsExclude, LockAssumption, NEW h \in Holders, HolderStep(h)
    PROVE  PlanInv'
<1>0. /\ run \in [Holders -> Execution] /\ snaps \subseteq Snapshots /\ IsFiniteSet(snaps)
      /\ \A s, t \in snaps : s.at = t.at /\ s.u = t.u => s = t
  BY DEF RunInv, RunTypeOK, SnapInv, NamesInv
<1>1. ASSUME NEW g \in Runs
      PROVE  /\ PlanOK(run[g].plan, snaps) /\ run[g].plan \subseteq Snapshots
             /\ run[g].plan # {} => run[g].stage = "prune"
  BY <1>0 DEF SnapInv, PlanInv, Execution
<1>2. IsFiniteSet(snaps')
  BY NamesKeep DEF NamesInv
<1>3. CASE ~Plan(h) /\ ~Prune(h)
  <2>1. snaps \subseteq snaps' /\ snaps' \subseteq Snapshots
    BY <1>0, <1>3, SnapsMove DEF Takes, snapshot_name
  <2>2. ASSUME NEW g \in Runs
        PROVE  PlanOK(run'[g].plan, snaps') /\ (run'[g].plan # {} => run'[g].stage = "prune")
    <3>1. \/ run'[g].plan = {}
          \/ run'[g].plan = run[g].plan /\ run'[g].stage = run[g].stage
      BY <1>0, <1>3, OneMoves, PlanStays
    <3>2. PlanOK(run[g].plan, snaps')
      BY <1>1, <1>2, <2>1, PlanGrows
    <3>3. PlanOK({}, snaps')
      BY DEF PlanOK
    <3> QED
      BY <1>1, <3>1, <3>2, <3>3
  <2> QED
    BY <2>2 DEF PlanInv
<1>4. CASE Plan(h)
  <2> DEFINE p == prune_plan(snaps)
  <2>0. run[h] \in Execution /\ run[h].stage = "prune" /\ run[h].result \in Results
    BY <1>0, <1>4 DEF Plan, In, Execution
  <2>1. PICK q : /\ run' = [run EXCEPT ![h] = q] /\ snaps' = snaps
                 /\ \/ p = {} /\ q = Done(run[h], run[h].result)
                    \/ q = [run[h] EXCEPT !.plan = p]
    BY <1>4 DEF Plan, Outcome, Done, Set
  <2>2. PlanOK(p, snaps)
    BY <1>0, RetentionPlans
  <2> HIDE DEF p
  <2>3. q.plan = p /\ (p # {} => q.stage = "prune")
    <3>1. CASE q = Done(run[h], run[h].result) /\ p = {}
      BY <2>0, <3>1, DoneIs
    <3>2. CASE q = [run[h] EXCEPT !.plan = p]
      BY <2>0, <3>2 DEF Execution
    <3> QED
      BY <2>1, <3>1, <3>2
  <2>4. ASSUME NEW g \in Runs
        PROVE  PlanOK(run'[g].plan, snaps') /\ (run'[g].plan # {} => run'[g].stage = "prune")
    BY <1>0, <1>1, <2>1, <2>2, <2>3
  <2> QED
    BY <2>4 DEF PlanInv
<1>5. CASE Prune(h)
  <2> DEFINE r == run[h]
  <2>0. /\ h \in Runs /\ pc[h] = "holding" /\ r.stage = "prune" /\ WantsAfter(h) /\ Backend # "dir"
    BY <1>5 DEF Prune, In, RunInv, WayInv, StageOK
  <2>1. PICK s \in r.plan :
            /\ \A t \in r.plan : ~Older(t, s)
            /\ snaps' = snaps \ {s} \/ snaps' = snaps
            /\ \/ r.plan = {s} /\ Outcome(h, r.result)
               \/ Set(h, [r EXCEPT !.plan = @ \ {s}])
    BY <1>5 DEF Prune, delete
  <2>3. PICK q : /\ run' = [run EXCEPT ![h] = q]
                 /\ \/ r.plan = {s} /\ q = Done(r, r.result)
                    \/ q = [r EXCEPT !.plan = @ \ {s}]
    BY <2>1 DEF Set, Outcome, Done
  <2>2. q.plan = r.plan \ {s} /\ (r.plan # {s} => q.stage = "prune")
    <3>1. r \in Execution /\ r.result \in Results
      BY <1>0, <2>0 DEF Execution
    <3>2. CASE q = Done(r, r.result) /\ r.plan = {s}
      BY <3>1, <3>2, DoneIs
    <3>3. CASE q = [r EXCEPT !.plan = @ \ {s}]
      BY <2>0, <3>1, <3>3 DEF Execution
    <3> QED
      BY <2>3, <3>2, <3>3
  <2>4. PlanOK(r.plan \ {s}, snaps')
    <3> DEFINE P == r.plan
    <3>1. P \subseteq Snapshots /\ PlanOK(P, snaps) /\ s \in P /\ \A t \in P : ~Older(t, s)
      BY <1>1, <2>0, <2>1
    <3> HIDE DEF P
    <3>2. PlanOK(P \ {s}, snaps \ {s}) /\ PlanOK(P \ {s}, snaps)
      BY <1>0, <3>1, PlanShrinks
    <3> QED
      BY <2>1, <3>2 DEF P
  <2>5. ASSUME NEW g \in Runs \ {h} PROVE run'[g] = run[g] /\ run[g].plan = {}
    <3>1. run'[g] = run[g] /\ g \in Holders \ {h}
      BY <1>0, <2>3
    <3>2. Policy[h] # "never" /\ Writes(h)
      BY <2>0 DEF WantsAfter, Writes
    <3>3. ~Writes(g)
      BY <2>0, <3>1, <3>2, Alone
    <3>4. run[g].stage = "none"
      BY <3>1, <3>3 DEF RunInv, RunTypeOK, Writes
    <3> QED
      BY <1>1, <3>1, <3>4
  <2>6. PlanOK({}, snaps')
    BY DEF PlanOK
  <2>7. ASSUME NEW g \in Runs
        PROVE  PlanOK(run'[g].plan, snaps') /\ (run'[g].plan # {} => run'[g].stage = "prune")
    <3>1. CASE g = h
      <4>1. run'[g] = q
        BY <1>0, <2>3, <3>1
      <4> QED
        BY <2>1, <2>2, <2>4, <4>1
    <3>2. CASE g # h
      BY <2>5, <2>6, <3>2
    <3> QED
      BY <3>1, <3>2
  <2> QED
    BY <2>7 DEF PlanInv
<1> QED
  BY <1>3, <1>4, <1>5

\* What the two theorems below rest on.
LEMMA SnapInvariant == RunSpec => [](RunInv /\ OverlapsExclude /\ SnapInv)
<1>1. RunInit => SnapInv
  <2> SUFFICES ASSUME RunInit PROVE SnapInv
    OBVIOUS
  <2>1. \A h \in Runs : run[h] = Fresh /\ ~child[h]
    BY DEF RunInit, Init
  <2>2. Fresh.stage = "none" /\ Fresh.plan = {}
    BY DEF Fresh
  <2>3. CleanInv
    BY <2>1, <2>2 DEF CleanInv, Clean
  <2>4. PlanInv
    BY <2>1, <2>2 DEF PlanInv, PlanOK
  <2>5. NamesInv
    BY FS_Singleton DEF RunInit, NamesInv
  <2> QED
    BY <2>3, <2>4, <2>5 DEF SnapInv
<1>2. RunInv /\ OverlapsExclude /\ SnapInv /\ [RunNext]_allVars => SnapInv'
  <2> SUFFICES ASSUME RunInv, OverlapsExclude, SnapInv, [RunNext]_allVars PROVE SnapInv'
    OBVIOUS
  <2>1. CASE UNCHANGED allVars
    BY <2>1 DEF allVars, vars, runVars, SnapInv, CleanInv, PlanInv, NamesInv
  <2>2. CASE Clock
    BY <2>2 DEF Clock, vars, SnapInv, CleanInv, PlanInv, NamesInv
  <2>3. ASSUME NEW h \in Holders, HolderStep(h) PROVE SnapInv'
    <3>1. RunNext
      BY <2>3 DEF RunNext, HolderStep
    <3> QED
      BY <2>3, <3>1, LockAssumption, CleanKeeps, PlansKeep, NamesKeep DEF SnapInv
  <2> QED
    BY <2>1, <2>2, <2>3 DEF RunNext, HolderStep
<1> QED
  BY <1>1, <1>2, RunInvariant, StagesExclude, PTL DEF RunSpec

\* Every snapshot is taken while its run is the only holder of a lock on the
\* backend and waits for no child, and the one after a success is of a tree that
\* passed the safety limits and that nobody with a lock has written since, for
\* all runs, policies and rollbacks and whoever dies (run_once_inner, create).
\* What works without a lock, or is left and not waited for, is the exception.
THEOREM SnapshotsClean == RunSpec => SnapshotsAreClean
<1> DEFINE Good(s) ==
              /\ \A g \in Holders : child[g] => run[g].cancel \/ run[g].left
              /\ Cardinality({g \in Holders : Writes(g)}) = 1
              /\ s.kind = "after" => \E h \in Runs : /\ pc[h] = "holding"
                                                     /\ run[h].result = "ok"
                                                     /\ AsJudged(h)
<1>1. ASSUME RunInv, OverlapsExclude, SnapInv, [RunNext]_allVars PROVE \A s \in New : Good(s)
  <2> SUFFICES ASSUME NEW s \in New PROVE Good(s)
    OBVIOUS
  <2>1. snaps' # snaps
    BY DEF New
  <2>2. PICK h \in Holders : HolderStep(h)
    BY <1>1, <2>1 DEF RunNext, HolderStep, Clock, allVars, runVars
  <2>3. PICK z : Takes(h, z)
    BY <2>1, <2>2, SnapsMove DEF Drops, New
  <2>4. s = z /\ h \in Runs /\ pc[h] = "holding" /\ Backend # "dir"
    BY <2>3 DEF Takes, New, In
  <2>5. Policy[h] # "never" /\ Writes(h)
    BY <2>3, <2>4 DEF Takes, WantsBefore, WantsAfter, Writes
  <2>6. \A g \in Holders \ {h} : ~Writes(g)
    BY <1>1, <2>4, <2>5, LockAssumption, Alone
  <2>7. {g \in Holders : Writes(g)} = {h}
    BY <2>5, <2>6
  <2>8. Cardinality({g \in Holders : Writes(g)}) = 1
    BY <2>7, FS_Singleton
  <2>9. Clean(h, pc[h], child[h], run[h], tree[Path[h]])
    BY <1>1, <2>4 DEF SnapInv, CleanInv
  <2>10. child[h] => run[h].cancel \/ run[h].left
    BY <2>3, <2>4, <2>9 DEF Takes, In, Clean
  <2>11. \A g \in Holders : child[g] => run[g].cancel \/ run[g].left
    BY <2>6, <2>10 DEF Writes
  <2>12. ASSUME s.kind = "after"
         PROVE  run[h].result = "ok" /\ AsJudged(h)
    <3>1. In(h, "after") /\ WantsAfter(h)
      BY <2>3, <2>4, <2>12 DEF Takes, snapshot_name
    <3> QED
      BY <2>4, <2>9, <3>1 DEF In, Clean, AsJudged
  <2> QED
    BY <2>4, <2>8, <2>11, <2>12
<1>2. RunInv /\ OverlapsExclude /\ SnapInv /\ [RunNext]_allVars => [\A s \in New : Good(s)]_allVars
  BY <1>1
<1> QED
  BY <1>2, SnapInvariant, PTL DEF RunSpec, SnapshotsAreClean

\* Retention never goes below keep_last, never takes the last snapshot of one
\* of the newest keep_daily days, and never takes one outside synora's pattern,
\* for every number of snapshots and runs and whichever deletions fail (prune,
\* prune_plan).
THEOREM RetentionHolds == RunSpec => RetentionKeeps
<1> DEFINE Kept ==
       /\ {s \in snaps : s.kind = "manual"} \subseteq snaps'
       /\ LET before == Ours(snaps)
              after  == Ours(snaps')
          IN  ~(before \subseteq after)
              => /\ Cardinality(after) >= Retention.last
                 /\ \A s \in before \ after :
                       Cardinality({t.at \div DayLength : t \in {x \in before :
                                      x.at \div DayLength > s.at \div DayLength}}) < Retention.day
                       => \E t \in after : t.at \div DayLength = s.at \div DayLength
<1>1. ASSUME RunInv, OverlapsExclude, SnapInv, [RunNext]_allVars PROVE Kept
  <2>0. snaps \subseteq Snapshots /\ IsFiniteSet(snaps)
    BY <1>1 DEF RunInv, RunTypeOK, SnapInv, NamesInv
  <2>1. CASE snaps \subseteq snaps'
    <3>1. Ours(snaps) \subseteq Ours(snaps')
      BY <2>1 DEF Ours
    <3> QED
      BY <2>1, <3>1
  <2>2. CASE ~(snaps \subseteq snaps')
    <3>1. PICK h \in Holders : HolderStep(h)
      BY <1>1, <2>2 DEF RunNext, HolderStep, Clock, allVars, runVars
    <3>2. PICK z : Drops(h, z)
      BY <2>2, <3>1, SnapsMove DEF Takes
    <3> DEFINE P == run[h].plan
    <3>3. h \in Runs /\ z \in P /\ snaps' = snaps \ {z} /\ \A t \in P : ~Older(t, z)
      BY <3>2 DEF Drops, In
    <3>4. PlanOK(P, snaps)
      BY <1>1, <3>3 DEF SnapInv, PlanInv
    <3> HIDE DEF P
    <3>5. /\ matches_synora(z) /\ Cardinality(NewerThan(snaps, z)) >= Retention.last
          /\ \/ Cardinality(DaysAfter(snaps, z)) >= Retention.day
             \/ \E t \in Ours(snaps) \ P : Day(t) = Day(z)
      BY <3>3, <3>4 DEF PlanOK
    <3>6. {s \in snaps : s.kind = "manual"} \subseteq snaps'
      BY <3>3, <3>5 DEF matches_synora
    <3>7. Ours(snaps') = Ours(snaps) \ {z}
      BY <3>3 DEF Ours
    <3>8. Cardinality(Ours(snaps')) >= Retention.last
      <4>1. z \in snaps
        BY <2>2, <3>3
      <4>2. ~Older(z, z)
        BY <3>3
      <4>3. NewerThan(snaps, z) \subseteq Ours(snaps')
        BY <3>7, <4>2 DEF NewerThan
      <4>4. IsFiniteSet(Ours(snaps'))
        <5>1. Ours(snaps') \subseteq snaps
          BY <3>7 DEF Ours
        <5> QED
          BY <2>0, <5>1, FS_Subset
      <4>5. /\ IsFiniteSet(NewerThan(snaps, z))
            /\ Cardinality(NewerThan(snaps, z)) <= Cardinality(Ours(snaps'))
        BY <4>3, <4>4, FS_Subset
      <4>6. Cardinality(NewerThan(snaps, z)) \in Nat /\ Cardinality(Ours(snaps')) \in Nat
        BY <4>4, <4>5, FS_CardinalityType
      <4> QED
        BY <3>5, <4>5, <4>6
    <3>9. ASSUME NEW s \in Ours(snaps) \ Ours(snaps'),
                 Cardinality(DaysAfter(snaps, s)) < Retention.day
          PROVE  \E t \in Ours(snaps') : Day(t) = Day(s)
      <4>1. s = z
        BY <3>7
      <4>2. Cardinality(DaysAfter(snaps, z)) \in Nat
        BY <2>0, DaysFinite, FS_CardinalityType
      <4>3. PICK t \in Ours(snaps) \ P : Day(t) = Day(z)
        BY <3>5, <3>9, <4>1, <4>2
      <4> QED
        BY <3>3, <3>7, <4>1, <4>3
    <3> QED
      BY <3>6, <3>8, <3>9 DEF DaysAfter, Day
  <2> QED
    BY <2>1, <2>2
<1>2. RunInv /\ OverlapsExclude /\ SnapInv /\ [RunNext]_allVars => [Kept]_allVars
  BY <1>1
<1> QED
  BY <1>2, SnapInvariant, PTL DEF RunSpec, RetentionKeeps

=============================================================================
