---------------------------- MODULE LeaseService ----------------------------
(***************************************************************************)
(* What manager and workers together promise about a job, whatever is lost *)
(* or late: at most one lease at a time, each with a token larger than     *)
(* every earlier one, and no lease ended while its holder still works.     *)
(* Module Cluster implements this specification as long as no run is       *)
(* retried in place (RetryMax = 0).                                        *)
(***************************************************************************)
EXTENDS Integers

CONSTANTS Jobs, Lease

VARIABLES holder,  \* [Jobs -> the token of the lease, 0 when the job is free]
          left,    \* [Jobs -> ticks the lease still lasts]
          last,    \* the token issued last
          busy     \* the tokens whose holder works on the job's storage

leaseVars == <<holder, left, last, busy>>

Free(j) == holder[j] = 0

LeaseInit ==
    /\ holder = [j \in Jobs |-> 0]
    /\ left = [j \in Jobs |-> 0]
    /\ last = 0
    /\ busy = {}

Grant(j) ==
    /\ Free(j)
    /\ last' = last + 1
    /\ holder' = [holder EXCEPT ![j] = last + 1]
    /\ left' = [left EXCEPT ![j] = Lease]
    /\ UNCHANGED busy

\* Only a lease that has not run out can be renewed.
Renew(S) ==
    /\ \A j \in S : ~Free(j) /\ left[j] > 0
    /\ left' = [j \in Jobs |-> IF j \in S THEN Lease ELSE left[j]]
    /\ UNCHANGED <<holder, last, busy>>

\* The holder of a live lease starts to work.
Begin(j) ==
    /\ ~Free(j)
    /\ left[j] > 0
    /\ busy' = busy \cup {holder[j]}
    /\ UNCHANGED <<holder, left, last>>

End(T) ==
    /\ busy' = busy \ T
    /\ UNCHANGED <<holder, left, last>>

\* Leases of holders that do not work are given back, or taken away.
Release(S) ==
    /\ \A j \in S : holder[j] \notin busy
    /\ holder' = [j \in Jobs |-> IF j \in S THEN 0 ELSE holder[j]]
    /\ left' = [j \in Jobs |-> IF j \in S THEN 0 ELSE left[j]]
    /\ UNCHANGED <<last, busy>>

LeaseTick ==
    /\ left' = [j \in Jobs |-> IF left[j] > 0 THEN left[j] - 1 ELSE 0]
    /\ UNCHANGED <<holder, last, busy>>

LeaseNext ==
    \/ \E j \in Jobs : Grant(j) \/ Begin(j)
    \/ \E S \in SUBSET Jobs : Renew(S) \/ Release(S)
    \/ \E T \in SUBSET busy : End(T)
    \/ LeaseTick

LeaseSpec == LeaseInit /\ [][LeaseNext]_leaseVars

=============================================================================
