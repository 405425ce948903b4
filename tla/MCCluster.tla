------------------------------ MODULE MCCluster ------------------------------
(***************************************************************************)
(* Cluster for TLC: budgets on what operators do and on what goes wrong.   *)
(***************************************************************************)
EXTENDS Cluster, TLC

CONSTANTS MaxOps,     \* bound: operator interventions
          MaxFaults,  \* bound: broken calls, crashes and restarts
          MaxSched    \* bound: scheduled dispatches

VARIABLES ops, faults, scheds

budgets == <<ops, faults, scheds>>
mcVars == <<vars, budgets>>

\* Every worker has registered and is idle.
MCInit ==
    /\ runs = [r \in RunIds |-> NoRow]
    /\ nextId = 1
    /\ nextTok = 1
    /\ wstat = [w \in Workers |-> "ONLINE"]
    /\ hbAge = [w \in Workers |-> 0]
    /\ snap = Workers
    /\ conf = [j \in Jobs |-> "enabled"]
    /\ disp = {}
    /\ reaped = {}
    /\ wk = [w \in Workers |-> [Down EXCEPT !.pc = "idle", !.deadline = Safety]]
    /\ running = [w \in Workers |-> [r \in RunIds |-> NoToken]]
    /\ task = [t \in Tokens |-> NoTask]
    /\ late = {}
    /\ ops = 0
    /\ faults = 0
    /\ scheds = 0

MCOps == ops < MaxOps /\ ops' = ops + 1 /\ Operations /\ UNCHANGED <<faults, scheds>>
MCFaults == faults < MaxFaults /\ faults' = faults + 1 /\ Faults /\ UNCHANGED <<ops, scheds>>
MCSched == scheds < MaxSched /\ scheds' = scheds + 1 /\ Schedule /\ UNCHANGED <<ops, faults>>

MCNext == \/ Progress /\ UNCHANGED budgets
          \/ MCOps
          \/ MCFaults
          \/ MCSched

MCSpec == MCInit /\ [][MCNext]_mcVars

MCFairSpec == MCSpec /\ Fairness

MCBeyond == ops < MaxOps /\ ops' = ops + 1 /\ Beyond /\ UNCHANGED <<faults, scheds>>

MCSpecBeyond == MCInit /\ [][MCNext \/ MCBeyond]_mcVars

Symmetry == Permutations(Workers)

AllRetry0 == [j \in Jobs |-> 0]
AllRetry1 == [j \in Jobs |-> 1]
AllOnLostRetry == [j \in Jobs |-> "retry"]
AllOnLostFail == [j \in Jobs |-> "fail"]

\* A job is requeued when it is lost, the others are held.
FirstOnLostRetry == [j \in Jobs |-> IF j = CHOOSE i \in Jobs : TRUE THEN "retry" ELSE "fail"]
NoDeps == [j \in Jobs |-> {}]

\* One job waits for all the others.
Chained == [j \in Jobs |-> IF j = CHOOSE i \in Jobs : TRUE THEN {}
                           ELSE {CHOOSE i \in Jobs : TRUE}]
=============================================================================
