------------------------------ MODULE MCRunOnce ------------------------------
(* Instances of RunOnce for TLC. *)
EXTENDS RunOnce, TLC

\* One backend: a mirror without snapshots, one with snapshots on both sides
\* and a rollback.
TreePath == ("a" :> <<"git", "a">>) @@ ("s" :> <<"pub">>) @@ ("roll" :> <<>>)
TreePolicy == ("a" :> "never") @@ ("s" :> "both")
TreeFail == ("a" :> "warn") @@ ("s" :> "fail")

KindOf == [h \in Holders |-> IF h \in Runs THEN LockKind(h) ELSE "whole"]
KeepOne == [last |-> 1, day |-> 1, week |-> 0]

=============================================================================
