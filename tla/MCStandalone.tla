---------------------------- MODULE MCStandalone ----------------------------
(* Instances of Standalone for TLC. *)
EXTENDS Standalone, TLC

CONSTANTS j1, j2, j3, d, s1

\* The daemon and the one-shot have read the file before and after j2 went in;
\* j3 is in neither.
Added ==
    [p \in Procs |-> (j1 :> "enabled") @@ (j2 :> IF p = d THEN "absent" ELSE "enabled")
                      @@ (j3 :> "absent")]
Disabled == [p \in Procs |-> [j \in Jobs |-> IF j = j3 THEN "disabled" ELSE "enabled"]]

NoDeps == [j \in Jobs |-> {}]
Chain == (j1 :> {}) @@ (j2 :> {j1}) @@ (j3 :> {})

Retry0 == [j \in Jobs |-> 0]
Retry1 == [j \in Jobs |-> 1]
Conc1 == [j \in Jobs |-> 1]

=============================================================================
