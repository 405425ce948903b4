----------------------------- MODULE StorageLock -----------------------------
(***************************************************************************)
(* The advisory locks of crates/storage/src/lib.rs on one host (or on one  *)
(* filesystem with coherent flock).  A holder is one execution or one      *)
(* rollback; its target is a path below the root of a storage backend, as  *)
(* a sequence of components, the root being <<>>.  Every flock is a step   *)
(* of its own and never blocks.  A lock lives as long as some process has  *)
(* its descriptor open: the run itself, or a child that inherited it.      *)
(***************************************************************************)
EXTENDS Integers, Sequences

CONSTANTS Holders,     \* executions and rollbacks
          Components,  \* path components
          Path,        \* [Holders -> Seq(Components)]: the mirror's directory
          Kind         \* [Holders -> Kinds]: how run_once or rollback locks it

\* "under": acquire_under, a mirror without snapshots below a ZFS or btrfs root.
\* "whole": acquire of the root, a mirror with snapshots, or a rollback.
\* "own":   acquire of the mirror's own path, a plain directory.
Kinds == {"under", "whole", "own"}

ASSUME LockAssumption ==
    /\ Path \in [Holders -> Seq(Components)]
    /\ Kind \in [Holders -> Kinds]

VARIABLES pc,     \* [Holders]: "idle", "locking" or "holding" a StorageLock
          next,   \* [Holders]: the depth of the next flock to take
          child   \* [Holders]: a child process has the descriptors open

vars == <<pc, next, child>>

Target(h) == IF Kind[h] = "whole" THEN <<>> ELSE Path[h]
Depth(h)  == Len(Target(h))
Node(h, k) == SubSeq(Target(h), 1, k)

\* Mutant: a mirror below a root locks its own directory only.
OwnDepth(h) == Depth(h)

\* The depth of the first flock: the root for acquire_under.
First(h) == IF Kind[h] = "under" THEN 0 ELSE Depth(h)

Mode(h, k) == IF k < Depth(h) THEN "SH" ELSE "EX"

Held(h) == First(h)..(next[h] - 1)

\* flock(LOCK_NB) on the lock file of Node(h, k): every open file description
\* is on its own, whatever process it belongs to.
Compatible(h, k) ==
    \A g \in Holders \ {h} : \A i \in Held(g) :
        Node(g, i) = Node(h, k) => Mode(g, i) = "SH" /\ Mode(h, k) = "SH"

-----------------------------------------------------------------------------
TypeOK ==
    /\ pc \in [Holders -> {"idle", "locking", "holding"}]
    /\ next \in [Holders -> Nat]
    /\ child \in [Holders -> BOOLEAN]
    /\ \A h \in Holders : next[h] \in First(h)..(Depth(h) + 1)

Init ==
    /\ pc = [h \in Holders |-> "idle"]
    /\ next = [h \in Holders |-> First(h)]
    /\ child = [h \in Holders |-> FALSE]

Begin(h) ==
    /\ pc[h] = "idle" /\ ~child[h]
    /\ pc' = [pc EXCEPT ![h] = "locking"]
    /\ UNCHANGED <<next, child>>

\* acquire_mode succeeds; after the last one the caller has its StorageLock.
Flock(h) ==
    /\ pc[h] = "locking"
    /\ Compatible(h, next[h])
    /\ next' = [next EXCEPT ![h] = @ + 1]
    /\ pc' = [pc EXCEPT ![h] = IF next[h] = Depth(h) THEN "holding" ELSE @]
    /\ UNCHANGED child

\* acquire_mode fails: the files opened so far are dropped with the error.
Refused(h) ==
    /\ pc[h] = "locking"
    /\ ~Compatible(h, next[h])
    /\ pc' = [pc EXCEPT ![h] = "idle"]
    /\ next' = [next EXCEPT ![h] = First(h)]
    /\ UNCHANGED child

\* spawn_group and command_runner::run clear FD_CLOEXEC on the lock's files.
Spawn(h) ==
    /\ pc[h] = "holding"
    /\ child' = [child EXCEPT ![h] = TRUE]
    /\ UNCHANGED <<pc, next>>

\* Mutant: the child does not inherit the lock.
CloseUnlocks(h) ==
    /\ pc[h] # "idle"
    /\ pc' = [pc EXCEPT ![h] = "idle"]
    /\ next' = [next EXCEPT ![h] = First(h)]
    /\ UNCHANGED child

\* run_once returns, or its process dies: its own descriptors are closed.
Close(h) ==
    /\ pc[h] # "idle"
    /\ pc' = [pc EXCEPT ![h] = "idle"]
    /\ next' = [next EXCEPT ![h] = IF child[h] THEN @ ELSE First(h)]
    /\ UNCHANGED child

\* The last child of the execution ends.
ChildEnds(h) ==
    /\ child[h]
    /\ child' = [child EXCEPT ![h] = FALSE]
    /\ next' = [next EXCEPT ![h] = IF pc[h] = "idle" THEN First(h) ELSE @]
    /\ UNCHANGED pc

Next == \E h \in Holders : \/ Begin(h) \/ Flock(h) \/ Refused(h)
                           \/ Spawn(h) \/ Close(h) \/ ChildEnds(h)

Spec == Init /\ [][Next]_vars

-----------------------------------------------------------------------------
(* Properties. *)

\* The execution, or a child that outlived it, may touch the mirror.
Writes(h) == pc[h] = "holding" \/ child[h]

IsPrefix(p, q) == \E k \in 0..Len(q) : p = SubSeq(q, 1, k)
Overlap(h, g) == IsPrefix(Target(h), Target(g)) \/ IsPrefix(Target(g), Target(h))

\* A directory has one writer.  Two mirrors of one backend, or a mirror and a
\* rollback of its backend, where one directory contains the other, are never
\* written at once either, not even by a child whose worker has crashed
\* (acquire_under, spawn_group).  A plain directory excludes itself only, and
\* a writer without the lock, such as a container, is not seen here.
OverlapsExclude ==
    \A h, g \in Holders :
        h # g /\ Writes(h) /\ Writes(g)
        => /\ Target(h) # Target(g)
           /\ Kind[h] # "own" /\ Kind[g] # "own" => ~Overlap(h, g)

\* A run is turned away only because of a mirror or rollback that contains
\* its directory or lies in it: independent mirrors do not serialize.
RefusedByOverlapOnly ==
    \A h \in Holders :
        pc[h] = "locking" /\ ~Compatible(h, next[h])
        => \E g \in Holders \ {h} : Held(g) # {} /\ Overlap(h, g)

\* No two open file descriptions hold locks that flock would not grant.
FlockInv ==
    \A h, g \in Holders : h # g =>
        \A i \in Held(h), k \in Held(g) :
            Node(h, i) = Node(g, k) => Mode(h, i) = "SH" /\ Mode(g, k) = "SH"

\* Whoever may write has every lock of its plan.
FullInv ==
    \A h \in Holders :
        /\ Writes(h) => next[h] = Depth(h) + 1
        /\ pc[h] = "locking" => next[h] <= Depth(h) /\ ~child[h]
        /\ pc[h] = "idle" /\ ~child[h] => next[h] = First(h)

\* What the proofs rest on.
LockInv == TypeOK /\ FlockInv /\ FullInv

=============================================================================
