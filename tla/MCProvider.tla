----------------------------- MODULE MCProvider -----------------------------
(* Instances of Provider for TLC. *)
EXTENDS Provider, TLC

\* Two generations that share one package.
TwoPayload == <<{"p", "c"}, {"q", "c"}>>
TwoMeta == <<{"m1"}, {"m2"}>>

=============================================================================
