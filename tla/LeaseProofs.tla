----------------------------- MODULE LeaseProofs -----------------------------
(***************************************************************************)
(* Every step preserves LeaseInv, so that an execution in a running map    *)
(* holds the live lease of its run.                                        *)
(***************************************************************************)
EXTENDS ClusterProofs

Inv == Base /\ LeaseInv

\* The manager's part of a step: at most the lease under token x ends, and
\* task x executes no more; tokens are issued in order.
TableKept(x) ==
    /\ TableInv'
    /\ nextTok' >= nextTok
    /\ \A r \in RunIds : runs'[r].token < nextTok'
    /\ \A r \in RunIds : runs[r].token # x => RowKeeps(runs[r], runs'[r])
    /\ x \in Tokens => task[x].phase \in {"report", "done"}

\* What Base gives for arithmetic.
LEMMA BaseFacts ==
    ASSUME Base
    PROVE  /\ nextTok \in Nat /\ StopMax \in Nat /\ Safety \in Nat /\ RpcMax \in Nat
           /\ \A t \in Tokens : t \in Nat /\ t # NoToken /\ task[t].left \in Nat
           /\ \A r \in RunIds : runs[r] \in Row /\ runs[r].token \in Nat /\ runs[r].lease \in Nat
           /\ \A w \in Workers : /\ wk[w].deadline \in Nat /\ wk[w].sent \in Nat
                                 /\ wk[w].rpc \in Nat /\ wk[w].ans.tok \in Nat
                                 /\ wk[w].ans.tok \in Tokens \cup {NoToken}
           /\ \A w \in Workers, r \in RunIds : running[w][r] \in Tokens \cup {NoToken}
           /\ \A w \in Workers : wk[w].pc = "claimed" => wk[w].run \in RunIds
<1>1. /\ nextTok \in Nat /\ StopMax \in Nat /\ Safety \in Nat /\ RpcMax \in Nat
    BY WorkerAssumption DEF Base, TypeOK, MgrTypeOK
<1>2. \A t \in Tokens : t \in Nat /\ t # NoToken
    BY StoreAssumption DEF Tokens, NoToken
<1>3. \A t \in Tokens : task[t].left \in Nat
    BY WorkerAssumption DEF Base, TypeOK, WkrTypeOK, Task
<1>4. \A r \in RunIds : runs[r] \in Row /\ runs[r].token \in Tokens \cup {NoToken}
                        /\ runs[r].lease \in Nat
    BY StoreAssumption DEF Base, TypeOK, MgrTypeOK, Row
<1>5. \A w \in Workers : /\ wk[w].deadline \in Nat /\ wk[w].sent \in Nat
                         /\ wk[w].rpc \in Nat
                         /\ wk[w].ans.tok \in Tokens \cup {NoToken}
                         /\ wk[w].pc = "claimed" => wk[w].run \in RunIds
    BY WorkerAssumption DEF Base, TypeOK, WkrTypeOK, Loop, Answer
<1>6. \A w \in Workers, r \in RunIds : running[w][r] \in Tokens \cup {NoToken}
    BY DEF Base, TypeOK, WkrTypeOK
<1>7. NoToken \in Nat
    BY DEF NoToken
<1> QED
    BY <1>1, <1>2, <1>3, <1>4, <1>5, <1>6, <1>7

\* A lease that is kept outlasts what it did.
LEMMA OutlastsKept ==
    ASSUME Base, NEW x, TableKept(x), NEW r \in RunIds, NEW w, NEW t, NEW j, NEW n \in Int,
           Outlasts(runs, r, w, t, j, n), t # x
    PROVE  Outlasts(runs', r, w, t, j, n)
<1>1. RowKeeps(runs[r], runs'[r])
    BY DEF Outlasts, fenced, TableKept
<1>2. runs[r].lease \in Int /\ runs'[r].lease \in Int
    BY StoreAssumption DEF TableKept, TableInv, MgrTypeOK, Row, Base
<1> QED
    BY <1>1, <1>2 DEF Outlasts, fenced, RowKeeps

\* A calm step keeps every lease.
LEMMA CalmKept ==
    ASSUME Inv, CalmStep
    PROVE  TableKept(NoToken)
<1>1. nextTok \in Nat /\ NoToken \notin Tokens /\ nextTok > 0
    BY DEF Inv, Base, TypeOK, MgrTypeOK, Tokens, NoToken
<1>2. ASSUME NEW r \in RunIds PROVE runs'[r].token < nextTok'
    BY <1>1, <1>2 DEF Inv, LeaseInv, TokensFresh, CalmStep, Calm, Quiet, RowQuiet, NoToken
<1> QED
    BY <1>1, <1>2 DEF TableKept, CalmStep, Calm, Keeps

\* ClaimOutlasts, ExecOutlasts and StopOutlasts, of the manager's table after
\* a step and the workers before it.
ClaimKept ==
    \A w \in Workers, t \in Tokens :
        wk[w].pc = "claimed" /\ wk[w].ans.tok = t =>
            /\ Outlasts(runs', wk[w].run, w, t, wk[w].ans.job, wk[w].deadline + StopMax)
            /\ Outlasts(runs', wk[w].run, w, t, wk[w].ans.job, wk[w].rpc + StopMax)

ExecKept ==
    \A w \in Workers, r \in RunIds, t \in Tokens :
        running[w][r] = t /\ task[t].phase = "exec" =>
            /\ Outlasts(runs', r, w, t, task[t].job, wk[w].deadline + StopMax)
            /\ wk[w].pc = "beaten" => \/ r \in wk[w].cancel
                                      \/ Outlasts(runs', r, w, t, task[t].job, wk[w].sent + StopMax)

StopKept ==
    \A w \in Workers, r \in RunIds, t \in Tokens :
        running[w][r] = t /\ task[t].phase = "stop" =>
            Outlasts(runs', r, w, t, task[t].job, task[t].left)

\* The leases a step keeps still outlast what they have to.
LEMMA LeasesKept ==
    ASSUME Inv, NEW x, TableKept(x)
    PROVE  ClaimKept /\ ExecKept /\ StopKept
<1>0. Base /\ LeaseInv
    BY DEF Inv
<1>1. ASSUME NEW w \in Workers, NEW t \in Tokens, wk[w].pc = "claimed", wk[w].ans.tok = t
      PROVE  /\ Outlasts(runs', wk[w].run, w, t, wk[w].ans.job, wk[w].deadline + StopMax)
             /\ Outlasts(runs', wk[w].run, w, t, wk[w].ans.job, wk[w].rpc + StopMax)
    <2>1. /\ task[t].phase = "none"
          /\ Outlasts(runs, wk[w].run, w, t, wk[w].ans.job, wk[w].deadline + StopMax)
          /\ Outlasts(runs, wk[w].run, w, t, wk[w].ans.job, wk[w].rpc + StopMax)
        BY <1>0, <1>1 DEF LeaseInv, ClaimOutlasts
    <2>2. t # x
        BY <1>1, <2>1 DEF TableKept
    <2>3. /\ wk[w].deadline + StopMax \in Int /\ wk[w].rpc + StopMax \in Int
          /\ wk[w].run \in RunIds
        BY <1>0, <1>1, BaseFacts
    <2> QED
        BY <1>0, <2>1, <2>2, <2>3, OutlastsKept
<1>2. ASSUME NEW w \in Workers, NEW r \in RunIds, NEW t \in Tokens,
             running[w][r] = t, task[t].phase = "exec"
      PROVE  /\ Outlasts(runs', r, w, t, task[t].job, wk[w].deadline + StopMax)
             /\ wk[w].pc = "beaten" => \/ r \in wk[w].cancel
                                       \/ Outlasts(runs', r, w, t, task[t].job, wk[w].sent + StopMax)
    <2>1. t # x
        BY <1>2 DEF TableKept
    <2>2. wk[w].deadline + StopMax \in Int /\ wk[w].sent + StopMax \in Int
        BY <1>0, BaseFacts
    <2>3. /\ Outlasts(runs, r, w, t, task[t].job, wk[w].deadline + StopMax)
          /\ wk[w].pc = "beaten" => \/ r \in wk[w].cancel
                                    \/ Outlasts(runs, r, w, t, task[t].job, wk[w].sent + StopMax)
        BY <1>0, <1>2 DEF LeaseInv, ExecOutlasts
    <2> QED
        BY <1>0, <2>1, <2>2, <2>3, OutlastsKept
<1>3. ASSUME NEW w \in Workers, NEW r \in RunIds, NEW t \in Tokens,
             running[w][r] = t, task[t].phase = "stop"
      PROVE  Outlasts(runs', r, w, t, task[t].job, task[t].left)
    <2>1. t # x /\ task[t].left \in Int
        BY <1>0, <1>3, BaseFacts DEF TableKept
    <2> QED
        BY <1>0, <1>3, <2>1, OutlastsKept DEF LeaseInv, StopOutlasts
<1> QED
    BY <1>1, <1>2, <1>3 DEF ClaimKept, ExecKept, StopKept

\* A token that was not issued before the step and is not afterwards is
\* nowhere, if no loop and no task took one.
LEMMA FreshKept ==
    ASSUME Inv, NEW x, TableKept(x),
           \A t \in Tokens : task[t].phase = "none" => task'[t].phase = "none",
           \A w \in Workers : wk'[w].ans.tok \in {wk[w].ans.tok, NoToken}
    PROVE  TokensFresh'
<1>1. Base /\ TokensFresh
    BY DEF Inv, LeaseInv
<1>2. nextTok' \in Nat /\ nextTok' > 0
    BY StoreAssumption DEF TableKept, TableInv, MgrTypeOK
<1>3. \A w \in Workers : wk'[w].ans.tok < nextTok'
    BY <1>1, <1>2, BaseFacts DEF TokensFresh, TableKept, NoToken
<1>4. \A t \in Tokens : t >= nextTok' => task'[t].phase = "none"
    BY <1>1, <1>2, BaseFacts DEF TokensFresh, TableKept
<1> QED
    BY <1>3, <1>4 DEF TableKept, TokensFresh

\* Steps of the manager alone, late requests included, preserve LeaseInv.
LEMMA ManagerOnly ==
    ASSUME Inv, NEW x, TableKept(x), UNCHANGED wkrVars, late' \subseteq late
    PROVE  LeaseInv'
<1>0. Base /\ LeaseInv /\ UNCHANGED <<wk, running, task>>
    BY DEF Inv, wkrVars
<1>1. TokensFresh'
    BY <1>0, FreshKept
<1>2. EntryHasTask'
    BY <1>0 DEF LeaseInv, EntryHasTask
<1>3. ClaimOutlasts'
    BY <1>0, LeasesKept DEF LeaseInv, ClaimOutlasts, ClaimKept
<1>4. ExecOutlasts'
    BY <1>0, LeasesKept DEF LeaseInv, ExecOutlasts, ExecKept
<1>5. StopOutlasts'
    BY <1>0, LeasesKept DEF StopOutlasts, StopKept
<1>6. LateIsOver'
    BY <1>0 DEF LeaseInv, LateIsOver
<1> QED
    BY <1>1, <1>2, <1>3, <1>4, <1>5, <1>6 DEF LeaseInv

-----------------------------------------------------------------------------
(* Steps of one main loop.                                                  *)

\* No late report appears.
NoNewReport == \A m \in late' : m.kind = "complete" => m \in late

\* A step of a loop that ends or begins a call, not the answer to a claim.
\* The deadline is left alone where something executes; a heartbeat presents
\* every entry of the map.
LEMMA LoopChange ==
    ASSUME Inv, NEW x, TableKept(x), NoNewReport, UNCHANGED <<running, task>>,
           NEW w \in Workers, NEW a, wk' = [wk EXCEPT ![w] = a],
           a.pc \notin {"claimed", "beaten"},
           a.ans.tok \in {wk[w].ans.tok, NoToken},
           a.pc = "down" => Entries(w) = {},
           a.deadline = wk[w].deadline \/ Entries(w) = {},
           a.pc = "beat" => a.held = Leases(w)
    PROVE  LeaseInv'
<1>0. Base /\ LeaseInv /\ wk \in [Workers -> Loop]
    BY DEF Inv, Base, TypeOK, WkrTypeOK
<1>1. wk'[w] = a /\ \A v \in Workers \ {w} : wk'[v] = wk[v]
    BY <1>0
<1>2. TokensFresh'
    BY <1>1, FreshKept
<1>3. \A r \in RunIds, t \in Tokens : running[w][r] = t =>
        /\ r \in Entries(w) /\ a.pc # "down" /\ a.deadline = wk[w].deadline
        /\ <<r, t>> \in Leases(w)
    BY <1>0, BaseFacts DEF Entries, Leases
<1>4. EntryHasTask'
    <2>1. EntryHasTask
        BY <1>0 DEF LeaseInv
    <2>2. ASSUME NEW v \in Workers, NEW r \in RunIds, NEW t \in Tokens, running[v][r] = t
          PROVE  /\ task[t].w = v /\ task[t].run = r
                 /\ task[t].phase \in {"exec", "stop", "report"} /\ wk'[v].pc # "down"
        <3>1. /\ task[t].w = v /\ task[t].run = r /\ wk[v].pc # "down"
              /\ task[t].phase \in {"exec", "stop", "report"}
            BY <2>1, <2>2 DEF EntryHasTask
        <3>2. v = w => a.pc # "down"
            BY <1>3, <2>2
        <3>3. wk'[v].pc # "down"
            BY <1>1, <3>1, <3>2
        <3> QED
            BY <3>1, <3>3
    <2> QED
        BY <2>2 DEF EntryHasTask
<1>5. ClaimOutlasts'
    BY <1>0, <1>1, LeasesKept DEF LeaseInv, ClaimOutlasts, ClaimKept
<1>6. ExecOutlasts'
    BY <1>0, <1>1, <1>3, LeasesKept DEF LeaseInv, ExecOutlasts, ExecKept
<1>7. StopOutlasts'
    BY <1>0, LeasesKept DEF StopOutlasts, StopKept
<1>8. LateIsOver'
    BY <1>0 DEF LeaseInv, LateIsOver, NoNewReport
<1> QED
    BY <1>2, <1>4, <1>5, <1>6, <1>7, <1>8 DEF LeaseInv

\* The fields of a loop after a call.
LEMMA AfterCallFields ==
    ASSUME Base, NEW w \in Workers, NEW offers \in SUBSET RunIds
    PROVE  /\ AfterCall(w, offers).pc \in {"idle", "offers"}
           /\ AfterCall(w, offers).deadline = wk[w].deadline
           /\ AfterCall(w, offers).ans.tok = NoToken
BY AfterCallType DEF Base, TypeOK, Denied

\* Heartbeats and claims sent, calls broken, and the end of a beat.
LEMMA LoopCalls ==
    ASSUME Inv, NEW w \in Workers, TableKept(NoToken), NoNewReport,
           \/ SendHeartbeat(w) \/ HeartbeatFails(w) \/ EndBeat(w) \/ ClaimFails(w) \/ Exit(w)
           \/ Registered(w) \/ \E r \in RunIds : SendClaim(w, r)
    PROVE  LeaseInv'
<1>0. /\ Base /\ LeaseInv /\ wk \in [Workers -> Loop] /\ wk[w] \in Loop
      /\ wk[w].offers \in SUBSET RunIds
    BY DEF Inv, Base, TypeOK, WkrTypeOK, Loop
<1>1. CASE SendHeartbeat(w)
    <2> DEFINE a == [wk[w] EXCEPT !.pc = "beat", !.sent = Safety, !.rpc = RpcMax,
                                  !.held = Leases(w)]
    <2>1. a.pc = "beat" /\ a.deadline = wk[w].deadline /\ a.held = Leases(w) /\ a.ans = wk[w].ans
        BY <1>0 DEF Loop
    <2>2. wk' = [wk EXCEPT ![w] = a] /\ UNCHANGED <<running, task>>
        BY <1>1 DEF SendHeartbeat
    <2> HIDE DEF a
    <2> QED
        BY <2>1, <2>2, LoopChange
<1>2. CASE HeartbeatFails(w) \/ EndBeat(w)
    BY <1>0, <1>2, AfterCallFields, LoopChange DEF HeartbeatFails, EndBeat
<1>3. CASE ClaimFails(w)
    BY <1>0, <1>3, AfterCallFields, LoopChange DEF ClaimFails
<1>4. CASE Exit(w)
    <2>1. Down.pc = "down" /\ Down.ans.tok = NoToken
        BY DEF Down, Denied
    <2>2. wk' = [wk EXCEPT ![w] = Down] /\ Entries(w) = {} /\ UNCHANGED <<running, task>>
        BY <1>4 DEF Exit
    <2> QED
        BY <2>1, <2>2, LoopChange
<1>5. CASE Registered(w)
    <2> DEFINE a == [wk[w] EXCEPT !.pc = "idle", !.deadline = Safety]
    <2>1. a.pc = "idle" /\ a.ans = wk[w].ans
        BY <1>0 DEF Loop
    <2>2. wk' = [wk EXCEPT ![w] = a] /\ UNCHANGED <<running, task>> /\ wk[w].pc = "down"
        BY <1>5 DEF Registered
    <2>3. Entries(w) = {}
        BY <1>0, <2>2, BaseFacts DEF Entries, LeaseInv, EntryHasTask
    <2> HIDE DEF a
    <2> QED
        BY <2>1, <2>2, <2>3, LoopChange
<1>6. CASE \E r \in RunIds : SendClaim(w, r)
    <2>1. PICK r \in RunIds : SendClaim(w, r)
        BY <1>6
    <2> DEFINE a == [wk[w] EXCEPT !.pc = "claim", !.run = r, !.rpc = RpcMax,
                                  !.offers = wk[w].offers \ {r}]
    <2>2. a.pc = "claim" /\ a.deadline = wk[w].deadline /\ a.ans = wk[w].ans
        BY <1>0 DEF Loop
    <2>3. wk' = [wk EXCEPT ![w] = a] /\ UNCHANGED <<running, task>>
        BY <2>1 DEF SendClaim
    <2> HIDE DEF a
    <2> QED
        BY <2>2, <2>3, LoopChange
<1> QED
    BY <1>1, <1>2, <1>3, <1>4, <1>5, <1>6

\* The shutdown flag matters to no lease.
LEMMA ShutdownFlag ==
    ASSUME Inv, NEW w \in Workers, TableKept(NoToken), late' = late, RequestShutdown(w)
    PROVE  LeaseInv'
<1>0. Base /\ LeaseInv /\ wk \in [Workers -> Loop] /\ UNCHANGED <<running, task>>
    BY DEF Inv, Base, TypeOK, WkrTypeOK, RequestShutdown
<1>1. ASSUME NEW v \in Workers
      PROVE  /\ wk'[v].pc = wk[v].pc /\ wk'[v].deadline = wk[v].deadline
             /\ wk'[v].sent = wk[v].sent /\ wk'[v].rpc = wk[v].rpc
             /\ wk'[v].held = wk[v].held /\ wk'[v].cancel = wk[v].cancel
             /\ wk'[v].run = wk[v].run /\ wk'[v].ans = wk[v].ans
    BY <1>0, <1>1 DEF RequestShutdown, Loop
<1>2. TokensFresh'
    BY <1>0, <1>1, FreshKept
<1>3. EntryHasTask'
    BY <1>0, <1>1 DEF LeaseInv, EntryHasTask
<1>4. ClaimOutlasts'
    BY <1>0, <1>1, LeasesKept DEF LeaseInv, ClaimOutlasts, ClaimKept
<1>5. ExecOutlasts'
    BY <1>0, <1>1, LeasesKept DEF LeaseInv, ExecOutlasts, ExecKept
<1>6. StopOutlasts'
    BY <1>0, LeasesKept DEF StopOutlasts, StopKept
<1>7. LateIsOver'
    BY <1>0 DEF LeaseInv, LateIsOver
<1> QED
    BY <1>2, <1>3, <1>4, <1>5, <1>6, <1>7 DEF LeaseInv

\* The manager answers a heartbeat: every execution of the map was presented,
\* so its lease is full again.
LEMMA HeartbeatAnswered ==
    ASSUME Inv, NEW w \in Workers, HandleHeartbeat(w)
    PROVE  LeaseInv'
<1>0. Base /\ LeaseInv /\ wk \in [Workers -> Loop] /\ UNCHANGED <<running, task, late>>
    BY DEF Inv, Base, TypeOK, WkrTypeOK, HandleHeartbeat
<1>1. TableKept(NoToken)
    BY <1>0, CallsCalm, CalmKept DEF HandleHeartbeat
<1>2. /\ wk[w].pc = "beat" /\ wk'[w].pc = "beaten" /\ wk'[w].deadline = wk[w].deadline
      /\ wk'[w].sent = wk[w].sent /\ wk'[w].ans = wk[w].ans
      /\ \A v \in Workers \ {w} : wk'[v] = wk[v]
    BY <1>0 DEF HandleHeartbeat, Loop
<1>3. TokensFresh'
    <2>1. \A v \in Workers : wk'[v].ans.tok = wk[v].ans.tok
        BY <1>2
    <2> QED
        BY <1>0, <1>1, <2>1, FreshKept
<1>4. EntryHasTask'
    BY <1>0, <1>2 DEF LeaseInv, EntryHasTask
<1>5. ClaimOutlasts'
    BY <1>0, <1>1, <1>2, LeasesKept DEF LeaseInv, ClaimOutlasts, ClaimKept
<1>6. ExecOutlasts'
    <2> SUFFICES ASSUME NEW v \in Workers, NEW r \in RunIds, NEW t \in Tokens,
                        running[v][r] = t, task[t].phase = "exec"
                 PROVE  /\ Outlasts(runs', r, v, t, task[t].job, wk'[v].deadline + StopMax)
                        /\ wk'[v].pc = "beat" => <<r, t>> \in wk'[v].held
                        /\ wk'[v].pc = "beaten" =>
                             \/ r \in wk'[v].cancel
                             \/ Outlasts(runs', r, v, t, task[t].job, wk'[v].sent + StopMax)
        BY <1>0 DEF ExecOutlasts
    <2>1. CASE v # w
        BY <1>0, <1>1, <1>2, <2>1, LeasesKept DEF LeaseInv, ExecOutlasts, ExecKept
    <2>2. CASE v = w
        <3>1. /\ Outlasts(runs', r, w, t, task[t].job, wk'[w].deadline + StopMax)
            BY <1>0, <1>1, <1>2, <2>2, LeasesKept DEF ExecKept
        <3>2. /\ <<r, t>> \in wk[w].held
              /\ Outlasts(runs, r, w, t, task[t].job, wk[w].deadline + StopMax)
            BY <1>0, <1>2, <2>2 DEF LeaseInv, ExecOutlasts
        <3>3. runs'[r].lease = Lease
            <4>1. fenced(runs, r, w, t)
                BY <3>2 DEF Outlasts
            <4>2. heartbeat(w, wk[w].held) /\ TableInv
                BY <1>0 DEF HandleHeartbeat, Base
            <4>3. <<r, t>>[1] = r /\ <<r, t>>[2] = t
                OBVIOUS
            <4> QED
                BY <3>2, <4>1, <4>2, <4>3, HeartbeatCalm
        <3>4. wk'[w].sent + StopMax < Lease
            <4>1. wk[w].sent \in 0..Safety
                BY <1>0 DEF Loop
            <4> QED
                BY <1>2, <4>1, WorkerAssumption, StoreAssumption, TimingAssumption
        <3>5. Outlasts(runs', r, w, t, task[t].job, wk'[w].sent + StopMax)
            BY <3>1, <3>3, <3>4, StoreAssumption, WorkerAssumption DEF Outlasts
        <3> QED
            BY <1>2, <2>2, <3>1, <3>5
    <2> QED
        BY <2>1, <2>2
<1>7. StopOutlasts'
    BY <1>0, <1>1, LeasesKept DEF StopOutlasts, StopKept
<1>8. LateIsOver'
    BY <1>0 DEF LeaseInv, LateIsOver
<1> QED
    BY <1>3, <1>4, <1>5, <1>6, <1>7, <1>8 DEF LeaseInv

\* Cancelled tasks are those of C that executed.
LEMMA CancelFields ==
    ASSUME Base, NEW C, NEW why, task' = Cancel(C, why), NEW t \in Tokens
    PROVE  /\ task'[t].w = task[t].w /\ task'[t].run = task[t].run /\ task'[t].job = task[t].job
           /\ IF t \in C /\ task[t].phase = "exec"
              THEN task'[t].phase = "stop" /\ task'[t].left = StopMax
              ELSE task'[t] = task[t]
BY DEF Base, TypeOK, WkrTypeOK, Cancel, Task

\* A cancel, by the answer to a heartbeat or by the watchdog, and the loop w
\* after it: what still executes keeps a deadline its lease outlasts.
LEMMA CancelStep ==
    ASSUME Inv, UNCHANGED <<mgrVars, late, running>>, NEW C, NEW why, task' = Cancel(C, why),
           NEW w \in Workers, \A v \in Workers \ {w} : wk'[v] = wk[v],
           wk'[w].pc \in {"idle", "offers"} \/ wk'[w] = wk[w],
           wk'[w].ans.tok \in {wk[w].ans.tok, NoToken},
           wk[w].pc # "down",
           wk'[w] # wk[w] =>
             \A r \in RunIds, t \in Tokens : running[w][r] = t /\ task[t].phase = "exec" =>
               t \in C \/ Outlasts(runs, r, w, t, task[t].job, wk'[w].deadline + StopMax)
    PROVE  LeaseInv'
<1>0. Base /\ LeaseInv /\ UNCHANGED <<runs, running, late>> /\ TableKept(NoToken)
    <2>1. CalmStep
        BY CallsCalm DEF Inv
    <2> QED
        BY <2>1, CalmKept DEF Inv, mgrVars
<1>1. \A t \in Tokens :
        /\ task'[t].w = task[t].w /\ task'[t].run = task[t].run /\ task'[t].job = task[t].job
        /\ IF t \in C /\ task[t].phase = "exec"
           THEN task'[t].phase = "stop" /\ task'[t].left = StopMax
           ELSE task'[t] = task[t]
    BY <1>0, CancelFields
<1>2. TokensFresh'
    <2>1. \A t \in Tokens : task[t].phase = "none" => task'[t].phase = "none"
        BY <1>1
    <2>2. \A v \in Workers : wk'[v].ans.tok \in {wk[v].ans.tok, NoToken}
        OBVIOUS
    <2> QED
        BY <1>0, <2>1, <2>2, FreshKept
<1>3. EntryHasTask'
    <2>1. \A v \in Workers : wk[v].pc # "down" => wk'[v].pc # "down"
        OBVIOUS
    <2> QED
        BY <1>0, <1>1, <2>1 DEF LeaseInv, EntryHasTask
<1>4. ClaimOutlasts'
    <2>1. \A v \in Workers : wk'[v].pc = "claimed" => wk'[v] = wk[v]
        OBVIOUS
    <2> QED
        BY <1>0, <1>1, <2>1 DEF LeaseInv, ClaimOutlasts
<1>5. ExecOutlasts'
    <2> SUFFICES ASSUME NEW v \in Workers, NEW r \in RunIds, NEW t \in Tokens,
                        running[v][r] = t, task'[t].phase = "exec"
                 PROVE  /\ Outlasts(runs, r, v, t, task'[t].job, wk'[v].deadline + StopMax)
                        /\ wk'[v].pc = "beat" => <<r, t>> \in wk'[v].held
                        /\ wk'[v].pc = "beaten" =>
                             \/ r \in wk'[v].cancel
                             \/ Outlasts(runs, r, v, t, task'[t].job, wk'[v].sent + StopMax)
        BY <1>0 DEF ExecOutlasts
    <2>1. task[t].phase = "exec" /\ t \notin C /\ task'[t].job = task[t].job
        BY <1>1
    <2>2. CASE wk'[v] = wk[v]
        BY <1>0, <2>1, <2>2 DEF LeaseInv, ExecOutlasts
    <2>3. CASE wk'[v] # wk[v]
        <3>1. v = w /\ wk'[v].pc \in {"idle", "offers"}
            BY <2>3
        <3> QED
            BY <2>1, <2>3, <3>1
    <2> QED
        BY <2>2, <2>3
<1>6. StopOutlasts'
    <2> SUFFICES ASSUME NEW v \in Workers, NEW r \in RunIds, NEW t \in Tokens,
                        running[v][r] = t, task'[t].phase = "stop"
                 PROVE  Outlasts(runs, r, v, t, task'[t].job, task'[t].left)
        BY <1>0 DEF StopOutlasts
    <2>1. CASE task[t].phase = "exec"
        <3>1. task'[t].left = StopMax /\ task'[t].job = task[t].job
            BY <1>1, <2>1
        <3>2. Outlasts(runs, r, v, t, task[t].job, wk[v].deadline + StopMax)
            BY <1>0, <2>1 DEF LeaseInv, ExecOutlasts
        <3>3. wk[v].deadline \in Nat /\ StopMax \in Nat /\ runs[r].lease \in Nat
            BY <1>0, BaseFacts
        <3> QED
            BY <3>1, <3>2, <3>3 DEF Outlasts
    <2>2. CASE task[t].phase # "exec"
        <3>1. task'[t] = task[t]
            BY <1>1, <2>2
        <3> QED
            BY <1>0, <3>1 DEF LeaseInv, StopOutlasts
    <2> QED
        BY <2>1, <2>2
<1>7. LateIsOver'
    <2>1. \A m \in late : m.kind = "complete" => m.tok \in Tokens
        BY <1>0 DEF Base, TypeOK, Request
    <2> QED
        BY <1>0, <1>1, <2>1 DEF LeaseInv, LateIsOver
<1> QED
    BY <1>2, <1>3, <1>4, <1>5, <1>6, <1>7 DEF LeaseInv

\* The watchdog cancels in time, and so does the answer to a heartbeat; what
\* the answer leaves alone has been renewed since the heartbeat was sent.
LEMMA Cancels ==
    ASSUME Inv, NEW w \in Workers, UNCHANGED <<mgrVars, late>>, ReceiveHeartbeat(w) \/ Watchdog(w)
    PROVE  LeaseInv'
<1>0. /\ Base /\ LeaseInv /\ wk \in [Workers -> Loop] /\ wk[w].offers \in SUBSET RunIds
    BY DEF Inv, Base, TypeOK, WkrTypeOK, Loop
<1>1. CASE Watchdog(w)
    <2>1. /\ task' = Cancel(TrackedOf(w, RunIds), TRUE) /\ UNCHANGED <<wk, running>>
          /\ wk[w].pc # "down"
        BY <1>1 DEF Watchdog, Overdue
    <2> QED
        BY <2>1, CancelStep
<1>2. CASE ReceiveHeartbeat(w)
    <2> DEFINE b == AfterCall(w, wk[w].offers)
               C == TrackedOf(w, wk[w].cancel)
    <2>1. b \in Loop /\ b.pc \in {"idle", "offers"} /\ b.ans.tok = NoToken
        BY <1>0, AfterCallType, AfterCallFields DEF Base, TypeOK
    <2> HIDE DEF b
    <2>2. /\ wk[w].pc = "beaten" /\ wk' = [wk EXCEPT ![w] = [b EXCEPT !.deadline = wk[w].sent]]
          /\ task' = Cancel(C, FALSE) /\ UNCHANGED running
        BY <1>2 DEF ReceiveHeartbeat, b
    <2>3. /\ wk'[w].pc \in {"idle", "offers"} /\ wk'[w].ans.tok = NoToken
          /\ wk'[w].deadline = wk[w].sent /\ \A v \in Workers \ {w} : wk'[v] = wk[v]
        BY <1>0, <2>1, <2>2 DEF Loop
    <2>4. ASSUME NEW r \in RunIds, NEW t \in Tokens, running[w][r] = t, task[t].phase = "exec"
          PROVE  t \in C \/ Outlasts(runs, r, w, t, task[t].job, wk'[w].deadline + StopMax)
        <3>1. \/ r \in wk[w].cancel
              \/ Outlasts(runs, r, w, t, task[t].job, wk[w].sent + StopMax)
            BY <1>0, <2>2, <2>4 DEF LeaseInv, ExecOutlasts
        <3>2. r \in wk[w].cancel => t \in C
            BY <1>0, <2>4, BaseFacts DEF TrackedOf, Entries
        <3> QED
            BY <2>3, <3>1, <3>2
    <2> HIDE DEF C
    <2> QED
        BY <2>2, <2>3, <2>4, CancelStep
<1> QED
    BY <1>1, <1>2

-----------------------------------------------------------------------------
(* Claims.                                                                  *)

\* A claim keeps every lease; the token it issues is the next one.
LEMMA ClaimKeeps ==
    ASSUME Inv, NEW w \in Workers, NEW r \in RunIds, claim(w, r)
    PROVE  TableKept(NoToken)
<1>0. Base /\ LeaseInv /\ TableInv /\ nextTok \in Nat
    BY DEF Inv, Base, TypeOK, MgrTypeOK
<1>1. TableInv' /\ Keeps
    BY <1>0, ClaimStep
<1>2. NoToken \notin Tokens
    BY DEF NoToken, Tokens
<1>3. CASE ClaimGranted(w, r)
    <2>1. /\ nextTok' = nextTok + 1 /\ runs'[r].token = nextTok
          /\ \A q \in RunIds \ {r} : runs'[q] = runs[q]
        BY <1>0, <1>3, ClaimStep DEF Claimed
    <2>2. \A q \in RunIds : runs'[q].token < nextTok'
        BY <1>0, <2>1, BaseFacts DEF LeaseInv, TokensFresh
    <2> QED
        BY <1>0, <1>1, <1>2, <2>1, <2>2 DEF TableKept, Keeps
<1>4. CASE ~ClaimGranted(w, r)
    <2>1. UNCHANGED <<runs, nextTok>>
        BY <1>0, <1>4, ClaimStep
    <2> QED
        BY <1>0, <1>1, <1>2, <2>1 DEF TableKept, Keeps, LeaseInv, TokensFresh
<1> QED
    BY <1>3, <1>4

\* The manager answers a claim: the new lease is full.
LEMMA ClaimAnswered ==
    ASSUME Inv, NEW w \in Workers, HandleClaim(w)
    PROVE  LeaseInv'
<1> DEFINE r == wk[w].run
<1>0. /\ Base /\ LeaseInv /\ wk \in [Workers -> Loop] /\ UNCHANGED <<running, task, late>>
      /\ r \in RunIds /\ claim(w, r) /\ wk[w].pc = "claim" /\ TableInv
    BY DEF Inv, Base, TypeOK, WkrTypeOK, HandleClaim
<1>1. TableKept(NoToken) /\ ClaimKept /\ ExecKept /\ StopKept
    BY <1>0, ClaimKeeps, LeasesKept
<1>2. /\ wk'[w].pc = "claimed" /\ wk'[w].ans = ClaimAnswer(w, r) /\ wk'[w].run = r
      /\ wk'[w].deadline = wk[w].deadline /\ wk'[w].rpc = wk[w].rpc
      /\ \A v \in Workers \ {w} : wk'[v] = wk[v]
    BY <1>0 DEF HandleClaim, Loop
<1>3. nextTok' \in Nat /\ nextTok \in Nat
    BY <1>0, <1>1 DEF TableKept, TableInv, MgrTypeOK
<1>4. CASE ClaimGranted(w, r)
    <2>1. /\ nextTok \in Tokens /\ nextTok' = nextTok + 1
          /\ Claimed(runs[r], runs'[r], w, nextTok)
        BY <1>0, <1>4, ClaimStep
    <2>2. wk'[w].ans.tok = nextTok /\ wk'[w].ans.job = runs[r].job
        BY <1>2, <1>4 DEF ClaimAnswer
    <2>3. TokensFresh'
        <3>1. \A v \in Workers : wk'[v].ans.tok < nextTok'
            BY <1>0, <1>2, <1>3, <2>1, <2>2, BaseFacts DEF LeaseInv, TokensFresh
        <3>2. \A t \in Tokens : t >= nextTok' => task'[t].phase = "none"
            BY <1>0, <1>3, <2>1, BaseFacts DEF LeaseInv, TokensFresh
        <3> QED
            BY <1>1, <3>1, <3>2 DEF TokensFresh, TableKept
    <2>4. ClaimOutlasts'
        <3>1. \A v \in Workers \ {w} : wk'[v] = wk[v] /\ wk[v].ans.tok # nextTok
            BY <1>0, <1>2, <1>3, BaseFacts DEF LeaseInv, TokensFresh
        <3>2. task[nextTok].phase = "none"
            BY <1>0, <1>3, <2>1 DEF LeaseInv, TokensFresh
        <3>3. ASSUME NEW n \in Nat, n + StopMax < Lease
              PROVE  Outlasts(runs', r, w, nextTok, wk'[w].ans.job, n + StopMax)
            <4>1. /\ runs'[r].st \in Active /\ runs'[r].worker = w /\ runs'[r].token = nextTok
                  /\ runs'[r].lease = Lease /\ runs'[r].job = wk'[w].ans.job
                BY <2>1, <2>2, StatusFacts DEF Claimed
            <4>2. nextTok # NoToken /\ Lease > 0
                BY <2>1, <1>0, BaseFacts, StoreAssumption
            <4> QED
                BY <3>3, <4>1, <4>2, StoreAssumption, WorkerAssumption DEF Outlasts, fenced
        <3>4. /\ wk[w].deadline \in Nat /\ wk[w].deadline + StopMax < Lease
              /\ wk[w].rpc \in Nat /\ wk[w].rpc + StopMax < Lease
            <4>1. wk[w].deadline \in 0..Safety /\ wk[w].rpc \in 0..RpcMax
                BY <1>0 DEF Loop
            <4> QED
                BY <4>1, WorkerAssumption, StoreAssumption, TimingAssumption
        <3>5. /\ Outlasts(runs', r, w, nextTok, wk'[w].ans.job, wk'[w].deadline + StopMax)
              /\ Outlasts(runs', r, w, nextTok, wk'[w].ans.job, wk'[w].rpc + StopMax)
            BY <1>2, <3>3, <3>4
        <3> SUFFICES ASSUME NEW v \in Workers, NEW t \in Tokens,
                            wk'[v].pc = "claimed", wk'[v].ans.tok = t
                     PROVE  /\ task[t].phase = "none"
                            /\ Outlasts(runs', wk'[v].run, v, t, wk'[v].ans.job, wk'[v].deadline + StopMax)
                            /\ Outlasts(runs', wk'[v].run, v, t, wk'[v].ans.job, wk'[v].rpc + StopMax)
                            /\ \A u \in Workers : wk'[u].pc = "claimed" /\ wk'[u].ans.tok = t => u = v
            BY <1>0 DEF ClaimOutlasts
        <3>6. CASE v = w
            BY <1>2, <2>2, <3>1, <3>2, <3>5, <3>6
        <3>7. CASE v # w
            <4>1. /\ wk'[v] = wk[v] /\ t # nextTok
                BY <3>1, <3>7
            <4>2. /\ task[t].phase = "none"
                  /\ \A u \in Workers : wk[u].pc = "claimed" /\ wk[u].ans.tok = t => u = v
                BY <1>0, <4>1 DEF LeaseInv, ClaimOutlasts
            <4>3. \A u \in Workers : wk'[u].pc = "claimed" /\ wk'[u].ans.tok = t => u = v
                BY <1>2, <2>2, <4>1, <4>2
            <4> QED
                BY <1>1, <4>1, <4>2, <4>3 DEF ClaimKept
        <3> QED
            BY <3>6, <3>7
    <2> QED
        <3>1. EntryHasTask'
            BY <1>0, <1>2 DEF LeaseInv, EntryHasTask
        <3>2. ExecOutlasts'
            BY <1>0, <1>1, <1>2 DEF LeaseInv, ExecOutlasts, ExecKept
        <3>3. StopOutlasts' /\ LateIsOver'
            BY <1>0, <1>1 DEF LeaseInv, StopOutlasts, StopKept, LateIsOver
        <3> QED
            BY <2>3, <2>4, <3>1, <3>2, <3>3 DEF LeaseInv
<1>5. CASE ~ClaimGranted(w, r)
    <2>1. wk'[w].ans.tok = NoToken
        BY <1>2, <1>5 DEF ClaimAnswer, Denied
    <2>2. TokensFresh'
        BY <1>0, <1>1, <1>2, <2>1, FreshKept
    <2>3. EntryHasTask'
        BY <1>0, <1>2 DEF LeaseInv, EntryHasTask
    <2>4. ClaimOutlasts'
        <3>1. \A v \in Workers : wk'[v].ans.tok \in Tokens => v # w /\ wk'[v] = wk[v]
            BY <1>0, <1>2, <2>1, BaseFacts
        <3> QED
            BY <1>0, <1>1, <3>1 DEF LeaseInv, ClaimOutlasts, ClaimKept
    <2>5. ExecOutlasts'
        BY <1>0, <1>1, <1>2 DEF LeaseInv, ExecOutlasts, ExecKept
    <2>6. StopOutlasts' /\ LateIsOver'
        BY <1>0, <1>1 DEF LeaseInv, StopOutlasts, StopKept, LateIsOver
    <2> QED
        BY <2>2, <2>3, <2>4, <2>5, <2>6 DEF LeaseInv
<1> QED
    BY <1>4, <1>5

\* The worker starts the run it was given: the lease it got when the claim was
\* handled still outlasts its deadline.
LEMMA ClaimReceived ==
    ASSUME Inv, NEW w \in Workers, UNCHANGED <<mgrVars, late>>, ReceiveClaim(w)
    PROVE  LeaseInv'
<1> DEFINE r == wk[w].run
           k == wk[w].ans.tok
<1>0. /\ Base /\ LeaseInv /\ wk \in [Workers -> Loop] /\ UNCHANGED <<runs, nextTok, late>>
      /\ wk[w].pc = "claimed" /\ r \in RunIds /\ wk[w].offers \in SUBSET RunIds
    BY DEF Inv, Base, TypeOK, WkrTypeOK, ReceiveClaim, mgrVars, Loop
<1>1. TableKept(NoToken)
    BY <1>0, CallsCalm, CalmKept
<1>2. /\ wk'[w].pc \in {"idle", "offers"} /\ wk'[w].deadline = wk[w].deadline
      /\ wk'[w].ans.tok = NoToken /\ \A v \in Workers \ {w} : wk'[v] = wk[v]
    <2>1. wk' = [wk EXCEPT ![w] = AfterCall(w, wk[w].offers)]
        BY DEF ReceiveClaim
    <2> QED
        BY <1>0, <2>1, AfterCallFields
<1>3. CASE k = NoToken
    <2>1. UNCHANGED <<running, task>> /\ NoNewReport
        BY <1>0, <1>3 DEF ReceiveClaim, NoNewReport
    <2>2. wk' = [wk EXCEPT ![w] = AfterCall(w, wk[w].offers)]
        BY DEF ReceiveClaim
    <2> QED
        BY <1>0, <1>1, <2>1, <2>2, AfterCallFields, LoopChange
<1>4. CASE k # NoToken
    <2>1. k \in Tokens
        BY <1>0, <1>4, BaseFacts
    <2>2. /\ task[k].phase = "none"
          /\ Outlasts(runs, r, w, k, wk[w].ans.job, wk[w].deadline + StopMax)
          /\ \A v \in Workers : wk[v].pc = "claimed" /\ wk[v].ans.tok = k => v = w
        BY <1>0, <2>1 DEF LeaseInv, ClaimOutlasts
    <2>3. /\ \A v \in Workers, q \in RunIds :
               running'[v][q] = IF v = w /\ q = r THEN k ELSE running[v][q]
          /\ \A t \in Tokens \ {k} : task'[t] = task[t]
          /\ task'[k].phase = "exec" /\ task'[k].w = w /\ task'[k].run = r
          /\ task'[k].job = wk[w].ans.job
        <3> DEFINE a == [NoTask EXCEPT !.phase = "exec", !.w = w, !.run = r,
                                       !.job = wk[w].ans.job, !.attempt = wk[w].ans.attempt]
        <3>1. running' = [running EXCEPT ![w][r] = k] /\ task' = [task EXCEPT ![k] = a]
            BY <1>4 DEF ReceiveClaim
        <3>2. a.phase = "exec" /\ a.w = w /\ a.run = r /\ a.job = wk[w].ans.job
            BY DEF NoTask
        <3> HIDE DEF a, r, k
        <3>3. /\ running \in [Workers -> [RunIds -> Tokens \cup {NoToken}]]
              /\ task \in [Tokens -> Task]
            BY <1>0 DEF Base, TypeOK, WkrTypeOK
        <3>4. \A v \in Workers, q \in RunIds :
                running'[v][q] = IF v = w /\ q = r THEN k ELSE running[v][q]
            BY <1>0, <3>1, <3>3
        <3>5. task'[k] = a /\ \A t \in Tokens \ {k} : task'[t] = task[t]
            BY <2>1, <3>1, <3>3
        <3> QED
            BY <3>2, <3>4, <3>5
    <2>4. \A v \in Workers, q \in RunIds, t \in Tokens : running'[v][q] = t =>
            \/ v = w /\ q = r /\ t = k
            \/ running[v][q] = t /\ t # k
        BY <1>0, <2>1, <2>2, <2>3 DEF LeaseInv, EntryHasTask
    <2>5. TokensFresh'
        <3>1. \A v \in Workers : wk'[v].ans.tok < nextTok
            BY <1>0, <1>2, BaseFacts DEF LeaseInv, TokensFresh, NoToken, Base, TypeOK, MgrTypeOK
        <3>2. k < nextTok
            BY <1>0 DEF LeaseInv, TokensFresh
        <3>3. \A t \in Tokens : t >= nextTok => t # k /\ task'[t].phase = "none"
            BY <1>0, <2>3, <3>2, BaseFacts DEF LeaseInv, TokensFresh
        <3> QED
            BY <1>0, <3>1, <3>3 DEF LeaseInv, TokensFresh
    <2>6. EntryHasTask'
        BY <1>0, <1>2, <2>3, <2>4 DEF LeaseInv, EntryHasTask
    <2>7. ClaimOutlasts'
        <3>1. \A v \in Workers, t \in Tokens : wk'[v].pc = "claimed" /\ wk'[v].ans.tok = t =>
                v # w /\ wk'[v] = wk[v] /\ t # k
            BY <1>2, <2>2
        <3> QED
            BY <1>0, <2>3, <3>1 DEF LeaseInv, ClaimOutlasts
    <2>8. ExecOutlasts'
        <3> SUFFICES ASSUME NEW v \in Workers, NEW q \in RunIds, NEW t \in Tokens,
                            running'[v][q] = t, task'[t].phase = "exec"
                     PROVE  /\ Outlasts(runs, q, v, t, task'[t].job, wk'[v].deadline + StopMax)
                            /\ wk'[v].pc = "beat" => <<q, t>> \in wk'[v].held
                            /\ wk'[v].pc = "beaten" =>
                                 \/ q \in wk'[v].cancel
                                 \/ Outlasts(runs, q, v, t, task'[t].job, wk'[v].sent + StopMax)
            BY <1>0 DEF ExecOutlasts
        <3>1. CASE v = w /\ q = r /\ t = k
            BY <1>2, <2>2, <2>3, <3>1
        <3>2. CASE running[v][q] = t /\ t # k
            <4>1. task'[t] = task[t]
                BY <2>3, <3>2
            <4>2. /\ Outlasts(runs, q, v, t, task[t].job, wk[v].deadline + StopMax)
                  /\ wk[v].pc = "beat" => <<q, t>> \in wk[v].held
                  /\ wk[v].pc = "beaten" =>
                       \/ q \in wk[v].cancel
                       \/ Outlasts(runs, q, v, t, task[t].job, wk[v].sent + StopMax)
                BY <1>0, <3>2, <4>1 DEF LeaseInv, ExecOutlasts
            <4> QED
                BY <1>2, <4>1, <4>2
        <3> QED
            BY <2>4, <3>1, <3>2
    <2>9. StopOutlasts'
        BY <1>0, <2>3, <2>4 DEF LeaseInv, StopOutlasts
    <2>10. LateIsOver'
        <3>1. \A m \in late : m.kind = "complete" => m.tok \in Tokens
            BY <1>0 DEF Base, TypeOK, Request
        <3> QED
            BY <1>0, <2>2, <2>3, <3>1 DEF LeaseInv, LateIsOver
    <2> QED
        BY <2>5, <2>6, <2>7, <2>8, <2>9, <2>10 DEF LeaseInv
<1> QED
    BY <1>3, <1>4

-----------------------------------------------------------------------------
(* Tasks.                                                                   *)

\* A task that executed, or reported, now reports or is over; if it is over it
\* has left the map.  At most its own lease ends.
LEMMA TaskChange ==
    ASSUME Inv, NEW x, TableKept(x), UNCHANGED wk,
           NEW t \in Tokens, NEW a, task' = [task EXCEPT ![t] = a],
           task[t].phase # "none", a.phase \in {"report", "done"},
           \A v \in Workers, r \in RunIds : running'[v][r] \in {running[v][r], NoToken},
           \/ a.phase = "report" /\ a.w = task[t].w /\ a.run = task[t].run
           \/ \A v \in Workers, r \in RunIds : running'[v][r] # t,
           \A m \in late' : m.kind = "complete" => m \in late \/ m.tok = t
    PROVE  LeaseInv'
<1>0. Base /\ LeaseInv /\ task \in [Tokens -> Task]
    BY DEF Inv, Base, TypeOK, WkrTypeOK
<1>1. task'[t] = a /\ \A u \in Tokens \ {t} : task'[u] = task[u]
    BY <1>0
<1>2. \A v \in Workers, r \in RunIds, u \in Tokens : running'[v][r] = u => running[v][r] = u
    BY <1>0, BaseFacts
<1>3. TokensFresh'
    BY <1>1, FreshKept
<1>4. EntryHasTask'
    <2> SUFFICES ASSUME NEW v \in Workers, NEW r \in RunIds, NEW u \in Tokens, running'[v][r] = u
                 PROVE  /\ task'[u].w = v /\ task'[u].run = r
                        /\ task'[u].phase \in {"exec", "stop", "report"} /\ wk[v].pc # "down"
        BY DEF EntryHasTask
    <2>1. /\ task[u].w = v /\ task[u].run = r /\ wk[v].pc # "down"
          /\ task[u].phase \in {"exec", "stop", "report"}
        BY <1>0, <1>2 DEF LeaseInv, EntryHasTask
    <2> QED
        BY <1>1, <2>1
<1>5. ClaimOutlasts'
    <2>1. \A u \in Tokens : task[u].phase = "none" => task'[u].phase = "none"
        BY <1>1
    <2> QED
        BY <1>0, <2>1, LeasesKept DEF LeaseInv, ClaimOutlasts, ClaimKept
<1>6. ExecOutlasts'
    <2>1. \A u \in Tokens : task'[u].phase = "exec" => task'[u] = task[u]
        BY <1>1
    <2>2. \A v \in Workers, r \in RunIds, u \in Tokens :
            running[v][r] = u /\ task[u].phase = "exec" /\ wk[v].pc = "beat"
                => <<r, u>> \in wk[v].held
        BY <1>0 DEF LeaseInv, ExecOutlasts
    <2>3. ExecKept
        BY LeasesKept
    <2> QED
        BY <1>2, <2>1, <2>2, <2>3 DEF ExecOutlasts, ExecKept
<1>7. StopOutlasts'
    <2>1. \A u \in Tokens : task'[u].phase = "stop" => task'[u] = task[u]
        BY <1>1
    <2> QED
        BY <1>2, <2>1, LeasesKept DEF StopOutlasts, StopKept
<1>8. LateIsOver'
    <2>1. \A m \in late : m.kind = "complete" => m.tok \in Tokens
        BY <1>0 DEF Base, TypeOK, Request
    <2> QED
        BY <1>0, <1>1, <2>1 DEF LeaseInv, LateIsOver
<1> QED
    BY <1>3, <1>4, <1>5, <1>6, <1>7, <1>8 DEF LeaseInv

\* The provider ends, a report is answered or fails.
LEMMA TaskSteps ==
    ASSUME Inv, NEW x, TableKept(x), NEW t \in Tokens,
           \A m \in late' : m.kind = "complete" => m \in late \/ m.tok = t,
           \/ \E result \in Reports : Finish(t, result)
           \/ OrphanEnds(t)
           \/ task[t].phase = "report" /\ EndTask(t)
           \/ ReportFails(t)
    PROVE  LeaseInv'
<1>0. /\ Base /\ LeaseInv /\ task[t] \in Task /\ Over.phase = "done" /\ TaskOK(task[t])
      /\ running \in [Workers -> [RunIds -> Tokens \cup {NoToken}]]
    BY WorkerConstants DEF Inv, Base, TypeOK, WkrTypeOK, TaskOK
<1>1. CASE \E result \in Reports : Finish(t, result)
    <2>1. PICK result \in Reports : Finish(t, result)
        BY <1>1
    <2> DEFINE a == [task[t] EXCEPT !.phase = "report", !.result = result, !.left = 0]
    <2>2. a.phase = "report" /\ a.w = task[t].w /\ a.run = task[t].run
        BY <1>0 DEF Task
    <2>3. /\ task' = [task EXCEPT ![t] = a] /\ UNCHANGED <<wk, running>>
          /\ task[t].phase # "none"
        BY <2>1 DEF Finish
    <2> HIDE DEF a
    <2> QED
        BY <2>2, <2>3, TaskChange
<1>2. CASE OrphanEnds(t)
    <2>1. \A v \in Workers, r \in RunIds : running[v][r] # t
        BY <1>0, <1>2 DEF OrphanEnds, LeaseInv, EntryHasTask
    <2> QED
        BY <1>0, <1>2, <2>1, TaskChange DEF OrphanEnds
<1>3. ASSUME task[t].phase = "report", EndTask(t) PROVE LeaseInv'
    <2>1. task[t].w \in Workers /\ task[t].run \in RunIds
        BY <1>0, <1>3 DEF TaskOK
    <2>2. \A v \in Workers, r \in RunIds :
            running'[v][r] = IF v = task[t].w /\ r = task[t].run THEN NoToken ELSE running[v][r]
        BY <1>0, <1>3, <2>1 DEF EndTask
    <2>3. \A v \in Workers, r \in RunIds : running'[v][r] # t
        BY <1>0, <2>2, BaseFacts DEF LeaseInv, EntryHasTask
    <2>4. task' = [task EXCEPT ![t] = Over] /\ UNCHANGED wk
        BY <1>3 DEF EndTask
    <2> QED
        BY <1>0, <1>3, <2>2, <2>3, <2>4, TaskChange
<1>4. CASE ReportFails(t)
    <2>1. CASE task[t].tries + 1 = MaxReports
        BY <1>3, <1>4, <2>1 DEF ReportFails
    <2>2. CASE task[t].tries + 1 # MaxReports
        <3> DEFINE n == task[t].tries + 1
                   a == [task[t] EXCEPT !.tries = n]
        <3>1. /\ task' = [task EXCEPT ![t] = a] /\ UNCHANGED <<wk, running>>
              /\ task[t].phase = "report"
            BY <1>4, <2>2 DEF ReportFails
        <3> HIDE DEF n
        <3>2. a.phase = "report" /\ a.w = task[t].w /\ a.run = task[t].run
            BY <1>0, <3>1 DEF Task
        <3> HIDE DEF a
        <3> QED
            BY <3>1, <3>2, TaskChange
    <2> QED
        BY <2>1, <2>2
<1> QED
    BY <1>1, <1>2, <1>3, <1>4

\* A report, late or not, ends at most the lease of its own task.
LEMMA CompleteKept ==
    ASSUME Inv, NEW w, NEW r \in RunIds, NEW t \in Tokens, NEW n, NEW e \in Reports,
           complete(w, r, t, n, e), task[t].phase \in {"report", "done"}
    PROVE  TableKept(t)
<1>0. Base /\ LeaseInv /\ TableInv /\ nextTok \in Nat /\ nextTok > 0
    BY DEF Inv, Base, TypeOK, MgrTypeOK
<1>1. /\ TableInv' /\ Quiet /\ nextTok' = nextTok
      /\ \A q \in RunIds : runs[q].token # t => RowKeeps(runs[q], runs'[q])
    BY <1>0, CompleteStep DEF Reports
<1>2. \A q \in RunIds : runs'[q].token < nextTok'
    BY <1>0, <1>1 DEF LeaseInv, TokensFresh, Quiet, RowQuiet, NoToken
<1> QED
    BY <1>0, <1>1, <1>2 DEF TableKept

\* A crash of a worker empties its map.
LEMMA CrashStep ==
    ASSUME Inv, NEW w \in Workers, UNCHANGED <<mgrVars, late>>, Crash(w, FALSE)
    PROVE  LeaseInv'
<1>0. /\ Base /\ LeaseInv /\ UNCHANGED <<runs, nextTok, late>> /\ Over.phase = "done"
      /\ wk \in [Workers -> Loop] /\ running \in [Workers -> [RunIds -> Tokens \cup {NoToken}]]
    BY WorkerConstants DEF Inv, Base, TypeOK, WkrTypeOK, mgrVars
<1>1. TableKept(NoToken)
    BY <1>0, CallsCalm, CalmKept
<1>2. /\ wk'[w] = Down /\ \A v \in Workers \ {w} : wk'[v] = wk[v] /\ running'[v] = running[v]
      /\ \A r \in RunIds : running'[w][r] = NoToken
      /\ \A t \in Tokens : task'[t] = IF task[t].w # w \/ task[t].phase = "orphan"
                                      THEN task[t] ELSE Over
    BY <1>0 DEF Crash
<1>3. Down.pc = "down" /\ Down.ans.tok = NoToken
    BY DEF Down, Denied
<1>4. \A v \in Workers, r \in RunIds, t \in Tokens : running'[v][r] = t =>
        /\ v # w /\ running[v][r] = t /\ wk'[v] = wk[v] /\ task'[t] = task[t]
    BY <1>0, <1>2, BaseFacts DEF LeaseInv, EntryHasTask
<1>5. \A t \in Tokens : task[t].phase = "none" => task'[t] = task[t]
    <2>1. \A t \in Tokens : task[t].phase = "none" => task[t].w # w
        BY <1>0, StoreAssumption DEF Base, TypeOK, WkrTypeOK
    <2> QED
        BY <1>2, <2>1
<1>6. TokensFresh'
    <2>1. \A v \in Workers : wk'[v].ans.tok \in {wk[v].ans.tok, NoToken}
        BY <1>2, <1>3
    <2> QED
        BY <1>1, <1>5, <2>1, FreshKept
<1>7. EntryHasTask'
    BY <1>0, <1>4 DEF LeaseInv, EntryHasTask
<1>8. ClaimOutlasts'
    <2>1. \A v \in Workers : wk'[v].pc = "claimed" => wk'[v] = wk[v]
        BY <1>2, <1>3
    <2> QED
        BY <1>0, <1>5, <2>1 DEF LeaseInv, ClaimOutlasts
<1>9. ExecOutlasts'
    <2> SUFFICES ASSUME NEW v \in Workers, NEW r \in RunIds, NEW t \in Tokens,
                        running'[v][r] = t, task'[t].phase = "exec"
                 PROVE  /\ Outlasts(runs, r, v, t, task'[t].job, wk'[v].deadline + StopMax)
                        /\ wk'[v].pc = "beat" => <<r, t>> \in wk'[v].held
                        /\ wk'[v].pc = "beaten" =>
                             \/ r \in wk'[v].cancel
                             \/ Outlasts(runs, r, v, t, task'[t].job, wk'[v].sent + StopMax)
        BY <1>0 DEF ExecOutlasts
    <2>1. running[v][r] = t /\ wk'[v] = wk[v] /\ task'[t] = task[t]
        BY <1>4
    <2> QED
        BY <1>0, <2>1 DEF LeaseInv, ExecOutlasts
<1>10. StopOutlasts'
    BY <1>0, <1>4 DEF LeaseInv, StopOutlasts
<1>11. LateIsOver'
    <2>1. \A m \in late : m.kind = "complete" => m.tok \in Tokens
        BY <1>0 DEF Base, TypeOK, Request
    <2> QED
        BY <1>0, <1>2, <2>1 DEF LeaseInv, LateIsOver
<1> QED
    BY <1>6, <1>7, <1>8, <1>9, <1>10, <1>11 DEF LeaseInv

-----------------------------------------------------------------------------
\* A tick takes one from every lease and one from every deadline: nothing that
\* is due is still waiting, so each lease keeps outlasting its deadline.
LEMMA TickKept ==
    ASSUME Inv, Tick
    PROVE  LeaseInv'
<1>0. /\ Base /\ LeaseInv /\ UNCHANGED <<running, late>> /\ TableInv /\ ~Urgent
      /\ wk \in [Workers -> Loop] /\ task \in [Tokens -> Task]
    BY DEF Inv, Base, TypeOK, WkrTypeOK, Tick, WkrTick
<1>1. /\ nextTok' = nextTok
      /\ \A r \in RunIds :
           /\ runs'[r].st = runs[r].st /\ runs'[r].job = runs[r].job
           /\ runs'[r].worker = runs[r].worker /\ runs'[r].token = runs[r].token
           /\ runs[r].lease > 0 => runs'[r].lease = runs[r].lease - 1
    BY <1>0, TickStep DEF Tick
<1>2. ASSUME NEW w \in Workers
      PROVE  /\ wk'[w].pc = wk[w].pc /\ wk'[w].held = wk[w].held
             /\ wk'[w].cancel = wk[w].cancel /\ wk'[w].run = wk[w].run /\ wk'[w].ans = wk[w].ans
             /\ wk'[w].deadline = Sooner(wk[w].deadline) /\ wk'[w].sent = Sooner(wk[w].sent)
             /\ wk'[w].rpc = Sooner(wk[w].rpc)
    <2>1. wk'[w] = [wk[w] EXCEPT !.deadline = Sooner(wk[w].deadline),
                                 !.sent = Sooner(wk[w].sent), !.rpc = Sooner(wk[w].rpc)]
        BY <1>2 DEF Tick, WkrTick
    <2>2. wk[w] \in Loop
        BY <1>0, <1>2
    <2>3. \A d, s, p : LET b == [wk[w] EXCEPT !.deadline = d, !.sent = s, !.rpc = p]
                       IN  /\ b.pc = wk[w].pc /\ b.held = wk[w].held
                           /\ b.cancel = wk[w].cancel /\ b.run = wk[w].run /\ b.ans = wk[w].ans
                           /\ b.deadline = d /\ b.sent = s /\ b.rpc = p
        BY <2>2 DEF Loop
    <2> QED
        BY <2>1, <2>3
<1>3. ASSUME NEW t \in Tokens
      PROVE  /\ task'[t].phase = task[t].phase /\ task'[t].w = task[t].w
             /\ task'[t].run = task[t].run /\ task'[t].job = task[t].job
             /\ task'[t].left = Sooner(task[t].left)
    <2>1. task'[t] = [task[t] EXCEPT !.left = Sooner(task[t].left)]
        BY <1>3 DEF Tick, WkrTick
    <2>2. \A l : LET b == [task[t] EXCEPT !.left = l]
                 IN  /\ b.phase = task[t].phase /\ b.w = task[t].w /\ b.run = task[t].run
                     /\ b.job = task[t].job /\ b.left = l
        BY <1>0, <1>3 DEF Task
    <2> QED
        BY <2>1, <2>2
<1>4. ASSUME NEW r \in RunIds, NEW w, NEW t, NEW j, NEW n \in Nat, NEW m \in Nat,
             Outlasts(runs, r, w, t, j, n), m < n \/ (m = 0 /\ runs[r].lease > 1 /\ n = 0)
      PROVE  Outlasts(runs', r, w, t, j, m)
    <2>1. runs[r].lease \in Nat /\ runs[r].lease > n /\ runs[r].lease > 0
        BY <1>0, <1>4, BaseFacts DEF Outlasts, fenced
    <2>2. runs'[r].lease = runs[r].lease - 1 /\ runs'[r].lease > m /\ runs'[r].lease > 0
        BY <1>1, <1>4, <2>1
    <2> QED
        BY <1>1, <1>4, <2>2 DEF Outlasts, fenced
<1>5. \A n \in Nat : n > 0 => Sooner(n) \in Nat /\ Sooner(n) < n
    BY DEF Sooner
<1>6. \A n \in Nat : n = 0 => Sooner(n) = 0
    BY DEF Sooner
<1>7. TokensFresh'
    BY <1>0, <1>1, <1>2, <1>3 DEF LeaseInv, TokensFresh
<1>8. EntryHasTask'
    BY <1>0, <1>2, <1>3 DEF LeaseInv, EntryHasTask
<1>9. ASSUME NEW r \in RunIds, NEW w, NEW t, NEW j, NEW d \in Nat, NEW e \in Nat, e > 0,
             Outlasts(runs, r, w, t, j, d + StopMax), Outlasts(runs, r, w, t, j, e + StopMax)
      PROVE  Outlasts(runs', r, w, t, j, Sooner(d) + StopMax)
    <2>1. runs[r].lease \in Nat /\ StopMax \in Nat
        BY <1>0, BaseFacts
    <2>2. CASE d > 0
        <3>1. Sooner(d) + StopMax < d + StopMax /\ Sooner(d) + StopMax \in Nat
            BY <1>5, <1>9, <2>1, <2>2
        <3>2. d + StopMax \in Nat
            BY <1>9, <2>1
        <3> QED
            BY <1>4, <1>9, <3>1, <3>2
    <2>3. CASE d = 0
        <3>1. Sooner(d) + StopMax = StopMax
            BY <1>6, <1>9, <2>1, <2>3
        <3>2. StopMax < e + StopMax /\ e + StopMax \in Nat
            BY <1>9, <2>1
        <3> QED
            BY <1>4, <1>9, <2>1, <3>1, <3>2
    <2> QED
        BY <1>9, <2>2, <2>3
<1>10. ClaimOutlasts'
    <2> SUFFICES ASSUME NEW w \in Workers, NEW t \in Tokens,
                        wk[w].pc = "claimed", wk[w].ans.tok = t
                 PROVE  /\ Outlasts(runs', wk[w].run, w, t, wk[w].ans.job, Sooner(wk[w].deadline) + StopMax)
                        /\ Outlasts(runs', wk[w].run, w, t, wk[w].ans.job, Sooner(wk[w].rpc) + StopMax)
        BY <1>0, <1>2, <1>3 DEF LeaseInv, ClaimOutlasts
    <2>1. /\ Outlasts(runs, wk[w].run, w, t, wk[w].ans.job, wk[w].deadline + StopMax)
          /\ Outlasts(runs, wk[w].run, w, t, wk[w].ans.job, wk[w].rpc + StopMax)
        BY <1>0 DEF LeaseInv, ClaimOutlasts
    <2>2. wk[w].deadline \in Nat /\ wk[w].rpc \in Nat /\ wk[w].run \in RunIds
        BY <1>0, BaseFacts
    <2>3. wk[w].rpc > 0
        BY <1>0, <2>2 DEF Urgent
    <2> QED
        BY <1>9, <2>1, <2>2, <2>3
<1>11. ExecOutlasts'
    <2> SUFFICES ASSUME NEW w \in Workers, NEW r \in RunIds, NEW t \in Tokens,
                        running[w][r] = t, task[t].phase = "exec"
                 PROVE  /\ Outlasts(runs', r, w, t, task[t].job, Sooner(wk[w].deadline) + StopMax)
                        /\ wk[w].pc = "beat" => <<r, t>> \in wk[w].held
                        /\ wk[w].pc = "beaten" =>
                             \/ r \in wk[w].cancel
                             \/ Outlasts(runs', r, w, t, task[t].job, Sooner(wk[w].sent) + StopMax)
        BY <1>0, <1>2, <1>3 DEF ExecOutlasts
    <2>1. /\ Outlasts(runs, r, w, t, task[t].job, wk[w].deadline + StopMax)
          /\ wk[w].pc = "beat" => <<r, t>> \in wk[w].held
          /\ wk[w].pc = "beaten" =>
               \/ r \in wk[w].cancel
               \/ Outlasts(runs, r, w, t, task[t].job, wk[w].sent + StopMax)
        BY <1>0 DEF LeaseInv, ExecOutlasts
    <2>2. wk[w].deadline \in Nat /\ wk[w].sent \in Nat
        BY <1>0, BaseFacts
    <2>3. wk[w].deadline > 0
        <3>1. r \in Entries(w) /\ wk[w].pc # "down"
            BY <1>0, BaseFacts DEF Entries, LeaseInv, EntryHasTask
        <3> QED
            BY <1>0, <2>2, <3>1 DEF Urgent, Overdue
    <2> QED
        BY <1>9, <2>1, <2>2, <2>3
<1>12. StopOutlasts'
    <2> SUFFICES ASSUME NEW w \in Workers, NEW r \in RunIds, NEW t \in Tokens,
                        running[w][r] = t, task[t].phase = "stop"
                 PROVE  Outlasts(runs', r, w, t, task[t].job, Sooner(task[t].left))
        BY <1>0, <1>3 DEF StopOutlasts
    <2>1. Outlasts(runs, r, w, t, task[t].job, task[t].left) /\ task[t].left \in Nat
        BY <1>0, BaseFacts DEF LeaseInv, StopOutlasts
    <2>2. task[t].left > 0
        BY <1>0, <2>1 DEF Urgent
    <2> QED
        BY <1>4, <1>5, <2>1, <2>2
<1>13. LateIsOver'
    <2>1. \A m \in late : m.kind = "complete" => m.tok \in Tokens
        BY <1>0 DEF Base, TypeOK, Request
    <2> QED
        BY <1>0, <1>3, <2>1 DEF LeaseInv, LateIsOver
<1> QED
    BY <1>7, <1>8, <1>10, <1>11, <1>12, <1>13 DEF LeaseInv

-----------------------------------------------------------------------------
\* The steps of the workers preserve LeaseInv.
LEMMA WorkerKeeps ==
    ASSUME Inv, WorkerStep
    PROVE  LeaseInv'
<1>0. Base /\ TableKept(NoToken)
    BY WorkerSteps, CalmKept DEF Inv
<1>1. ASSUME NEW w \in Workers, LoopStep(w) PROVE LeaseInv'
    <2>1. UNCHANGED <<mgrVars, late>> /\ NoNewReport
        BY <1>1 DEF LoopStep, NoNewReport
    <2>2. CASE ReceiveHeartbeat(w)
        BY <2>1, <2>2, Cancels
    <2>3. CASE ReceiveClaim(w)
        BY <2>1, <2>3, ClaimReceived
    <2>4. CASE SendHeartbeat(w) \/ EndBeat(w) \/ \E r \in RunIds : SendClaim(w, r)
        BY <1>0, <2>1, <2>4, LoopCalls
    <2> QED
        BY <1>1, <2>2, <2>3, <2>4 DEF LoopStep
<1>2. ASSUME NEW w \in Workers, WatchdogStep(w) PROVE LeaseInv'
    BY <1>2, Cancels DEF WatchdogStep
<1>3. ASSUME NEW w \in Workers, HandleHeartbeat(w) PROVE LeaseInv'
    BY <1>3, HeartbeatAnswered
<1>4. ASSUME NEW w \in Workers, Fail(w, FALSE) PROVE LeaseInv'
    BY <1>4, CrashStep DEF Fail
<1>5. ASSUME NEW w \in Workers, NEW b \in BOOLEAN, Register(w, b) \/ Leave(w, b) \/ Shutdown(w, b)
      PROVE  LeaseInv'
    <2>1. late' = late /\ NoNewReport /\ late' \subseteq late
        BY <1>5 DEF Register, Leave, Shutdown, NoNewReport
    <2>2. UNCHANGED wkrVars \/ Registered(w) \/ Exit(w) \/ RequestShutdown(w)
        BY <1>5 DEF Register, Leave, Shutdown
    <2> QED
        BY <1>0, <2>1, <2>2, ManagerOnly, LoopCalls, ShutdownFlag
<1>6. ASSUME NEW w \in Workers, NEW b \in BOOLEAN, CallFails(w, b) PROVE LeaseInv'
    <2>1. \A m \in Pending(w) : m.kind # "complete"
        <3>1. CASE wk[w].pc = "beat"
            BY <3>1 DEF Pending
        <3>2. CASE wk[w].pc = "claim"
            BY <3>2 DEF Pending
        <3>3. CASE wk[w].pc \notin {"beat", "claim"}
            BY <3>3 DEF Pending
        <3> QED
            BY <3>1, <3>2, <3>3
    <2>2. NoNewReport
        BY <1>6, <2>1 DEF CallFails, NoNewReport
    <2> QED
        BY <1>0, <1>6, <2>2, LoopCalls DEF CallFails
<1>7. ASSUME NEW t \in Tokens, TaskStep(t) PROVE LeaseInv'
    BY <1>0, <1>7, TaskSteps DEF TaskStep
<1>8. ASSUME NEW t \in Tokens, NEW b \in BOOLEAN, ReportLost(t, b) PROVE LeaseInv'
    <2>1. \A m \in late' : m.kind = "complete" => m \in late \/ m.tok = t
        BY <1>8 DEF ReportLost, Completion
    <2> QED
        BY <1>0, <1>8, <2>1, TaskSteps DEF ReportLost
<1> QED
    BY <1>1, <1>2, <1>3, <1>4, <1>5, <1>6, <1>7, <1>8 DEF WorkerStep

\* The steps that begin, end or shorten leases preserve LeaseInv.
LEMMA LeaseKeeps ==
    ASSUME Inv, LeaseStep
    PROVE  LeaseInv'
<1>0. Base /\ LeaseInv /\ WkrTypeOK /\ late \subseteq Request
    BY DEF Inv, Base, TypeOK
<1>1. ASSUME NEW w \in Workers, HandleClaim(w) PROVE LeaseInv'
    BY <1>1, ClaimAnswered
<1>2. ASSUME NEW t \in Tokens, NEW b \in BOOLEAN, Report(t, b) PROVE LeaseInv'
    <2>1. /\ task[t].phase = "report" /\ late' = late
          /\ complete(task[t].w, task[t].run, t, task[t].attempt, task[t].result)
          /\ EndTask(t) \/ ReportFails(t)
        BY <1>2 DEF Report, Reported, Completion
    <2>2. task[t].run \in RunIds /\ task[t].result \in Reports
        BY <1>0, <2>1 DEF WkrTypeOK
    <2>3. TableKept(t)
        BY <2>1, <2>2, CompleteKept
    <2> QED
        BY <2>1, <2>3, TaskSteps
<1>3. ASSUME NEW m \in late, Late(m) PROVE LeaseInv'
    <2>1. UNCHANGED wkrVars /\ late' \subseteq late /\ m \in Request
        BY <1>0, <1>3 DEF Late
    <2>2. CASE m.kind = "heartbeat" /\ heartbeat(m.w, m.held)
        <3>1. m.w \in Workers
            BY <2>1, <2>2 DEF Request
        <3>2. TableKept(NoToken)
            BY <1>0, <2>2, <3>1, CallsCalm, CalmKept
        <3> QED
            BY <2>1, <3>2, ManagerOnly
    <2>3. CASE m.kind = "claim" /\ claim(m.w, m.run)
        <3>1. m.w \in Workers /\ m.run \in RunIds
            BY <2>1, <2>3 DEF Request
        <3> QED
            BY <2>1, <2>3, <3>1, ClaimKeeps, ManagerOnly
    <2>4. CASE m.kind = "complete" /\ Reported(m)
        <3>1. m.run \in RunIds /\ m.tok \in Tokens /\ m.result \in Reports
            BY <2>1, <2>4 DEF Request
        <3>2. task[m.tok].phase \in {"report", "done"}
            BY <1>0, <2>4 DEF LeaseInv, LateIsOver
        <3>3. TableKept(m.tok)
            BY <2>4, <3>1, <3>2, CompleteKept DEF Reported
        <3> QED
            BY <2>1, <3>3, ManagerOnly
    <2> QED
        BY <1>3, <2>2, <2>3, <2>4 DEF Late
<1>4. CASE Tick
    BY <1>4, TickKept
<1> QED
    BY <1>1, <1>2, <1>3, <1>4 DEF LeaseStep

\* Inv is inductive.
LEMMA InvStep ==
    ASSUME Inv, [Next]_vars
    PROVE  Inv'
<1>0. Base
    BY DEF Inv
<1>1. Base'
    BY <1>0, BaseStep
<1>2. CASE UNCHANGED vars
    <2>1. UNCHANGED <<mgrVars, wkrVars, late>>
        BY <1>2 DEF vars
    <2> QED
        BY <1>0, <1>1, <2>1, CallsCalm, OtherTableSteps, CalmKept, ManagerOnly DEF Inv, Base, CalmStep
<1>3. CASE Reaper \/ Schedule \/ Retry \/ Dispatcher \/ Operator \/ Reload \/ RestartManager
    BY <1>0, <1>1, <1>3, ManagerSteps, CalmKept, ManagerOnly DEF Inv
<1>4. CASE WorkerStep
    BY <1>1, <1>4, WorkerKeeps DEF Inv
<1>5. CASE LeaseStep
    BY <1>1, <1>5, LeaseKeeps DEF Inv
<1> QED
    BY <1>2, <1>3, <1>4, <1>5, NextCases

\* Nothing is claimed or executed at first.
LEMMA InvInit ==
    Init => Inv
<1> SUFFICES ASSUME Init PROVE Inv
    OBVIOUS
<1>1. Base
    BY BaseInit
<1>2. \A r \in RunIds : runs[r].token = 0
    BY DEF Init, MgrInit, NoRow, NoToken
<1>3. /\ \A t \in Tokens : task[t].phase = "none"
      /\ \A w \in Workers : wk[w].pc = "down" /\ wk[w].ans.tok = 0
      /\ \A w \in Workers, r \in RunIds : running[w][r] = NoToken
      /\ nextTok = 1 /\ late = {}
    BY DEF Init, MgrInit, WkrInit, NoTask, Down, Denied, NoToken
<1>4. \A t \in Tokens : t # NoToken
    BY <1>1, BaseFacts
<1> QED
    BY <1>1, <1>2, <1>3, <1>4
    DEF Inv, LeaseInv, TokensFresh, EntryHasTask, ClaimOutlasts, ExecOutlasts, StopOutlasts,
        LateIsOver

\* In every behaviour, the lease of every execution a worker still has in its
\* running map outlasts what the worker needs to stop it: the heartbeat loop,
\* the watchdog and the claim of worker main.rs against RUN_LEASE_SECS.
THEOREM LeaseInvariant == Spec => []LeaseInv
<1>1. Inv /\ [Next]_vars => Inv'
    BY InvStep
<1>2. Inv => LeaseInv
    BY DEF Inv
<1> QED
    BY InvInit, <1>1, <1>2, PTL DEF Spec

\* An execution in a running map passes the manager's fence.
LEMMA TrackedOwns ==
    ASSUME Inv, NEW t \in Tokens, Executes(t), Tracked(t)
    PROVE  Owns(t) /\ runs[task[t].run].job = task[t].job
<1>1. task[t].phase \in {"exec", "stop"} /\ running[task[t].w][task[t].run] = t
    BY DEF Executes, Tracked
<1>2. task[t].w \in Workers /\ task[t].run \in RunIds
    BY <1>1 DEF Inv, Base, TypeOK, WkrTypeOK
<1> QED
    BY <1>1, <1>2 DEF Inv, LeaseInv, ExecOutlasts, StopOutlasts, Outlasts, Owns

\* An execution the worker still has in its running map holds the live lease
\* of its run, whatever calls are lost or late (worker main.rs against
\* renew_run_lease, expire_run and the reaper).
THEOREM TrackedWriter == Spec => []TrackedWriterOwnsRun
<1>1. Inv /\ [Next]_vars => Inv'
    BY InvStep
<1>2. Inv => TrackedWriterOwnsRun
    BY TrackedOwns DEF TrackedWriterOwnsRun
<1> QED
    BY InvInit, <1>1, <1>2, PTL DEF Spec

\* The storage of a job has at most one writer among the executions that are
\* in a running map, on whichever workers.
TrackedSingleWriter ==
    \A t, u \in Tokens :
        Executes(t) /\ Tracked(t) /\ Executes(u) /\ Tracked(u) /\ task[t].job = task[u].job
            => t = u

\* Two executions in running maps of the same job are of the same row.
LEMMA TrackedUnique ==
    ASSUME Inv
    PROVE  TrackedSingleWriter
<1> SUFFICES ASSUME NEW t \in Tokens, NEW u \in Tokens, Executes(t), Tracked(t),
                    Executes(u), Tracked(u), task[t].job = task[u].job
             PROVE  t = u
    BY DEF TrackedSingleWriter
<1>1. /\ Owns(t) /\ Owns(u) /\ runs[task[t].run].job = task[t].job
      /\ runs[task[u].run].job = task[t].job
    BY TrackedOwns
<1>2. task[t].run \in RunIds /\ task[u].run \in RunIds
    BY DEF Inv, Base, TypeOK, WkrTypeOK, Executes
<1>3. /\ task[t].run \in one_active_run_per_job(runs, task[t].job)
      /\ task[u].run \in one_active_run_per_job(runs, task[t].job)
    BY <1>1, <1>2, StatusFacts DEF Owns, fenced, one_active_run_per_job, RowsOf
<1>4. task[t].job \in Jobs
    BY <1>1, <1>2, StatusFacts DEF Inv, Base, TableInv, RowsHaveJobs, Owns, fenced
<1>5. task[t].run = task[u].run
    BY <1>3, <1>4 DEF Inv, Base, OneActivePerJob
<1> QED
    BY <1>1, <1>5 DEF Owns, fenced

\* One writer per job, for every number of workers: the fence and the index
\* one_active_run_per_job together.
THEOREM TrackedSingle == Spec => []TrackedSingleWriter
<1>1. Inv /\ [Next]_vars => Inv'
    BY InvStep
<1>2. Inv => TrackedSingleWriter
    BY TrackedUnique
<1> QED
    BY InvInit, <1>1, <1>2, PTL DEF Spec

-----------------------------------------------------------------------------
(* Jobs that are not retried in place.  A row that was claimed once is then *)
(* never offered again, so no claim puts a new entry over an old one in a   *)
(* running map, and every execution is in its map until it reports.         *)

Live == {"exec", "stop", "report"}

\* No row waits for a retry, a token is in one row only, and a claimed row
\* has one.
RowsOnce ==
    /\ \A r \in RunIds : runs[r].st # "RETRYING"
    /\ \A r, q \in RunIds : runs[r].token = runs[q].token /\ runs[r].token # NoToken => r = q
    /\ \A r \in RunIds : runs[r].st \in Active => runs[r].token # NoToken

\* An entry is of a row that was claimed and never waits again; a granted
\* claim finds no entry of its run; a task that is not over has its entry.
EntriesOnce ==
    /\ \A w \in Workers, r \in RunIds : running[w][r] # NoToken => runs[r].st \in Active \cup Terminal
    /\ \A w \in Workers : wk[w].pc = "claimed" /\ wk[w].ans.tok # NoToken =>
                             running[w][wk[w].run] = NoToken
    /\ \A t \in Tokens : task[t].phase \in Live => running[task[t].w][task[t].run] = t
    /\ \A t \in Tokens : task[t].phase # "orphan"

OnceInv == NoRetries /\ Inv /\ DispatchKnown /\ RowsOnce /\ EntriesOnce

\* A step after which what was claimed is still claimed or over.
RowsStay == \A r \in RunIds : runs[r].st \in Active \cup Terminal => runs'[r].st \in Active \cup Terminal

\* A step of the workers that begins no execution.
WorkersStay ==
    /\ \A w \in Workers, r \in RunIds : running'[w][r] \in {running[w][r], NoToken}
    /\ \A w \in Workers : wk'[w].pc = "claimed" /\ wk'[w].ans.tok # NoToken =>
                             /\ wk[w].pc = "claimed" /\ wk'[w].ans.tok = wk[w].ans.tok
                             /\ wk'[w].run = wk[w].run
    /\ \A t \in Tokens : task'[t].phase \in Live =>
                             /\ task[t].phase \in Live
                             /\ task'[t].w = task[t].w /\ task'[t].run = task[t].run
                             /\ running'[task[t].w][task[t].run] = t
    /\ \A t \in Tokens : task'[t].phase \in {"exec", "stop"} => task[t].phase \in {"exec", "stop"}
    /\ \A t \in Tokens : task'[t].phase # "orphan"

\* Steps that begin no lease keep RowsOnce.
LEMMA RowsOnceKept ==
    ASSUME OnceInv, Quiet, Follows
    PROVE  RowsOnce' /\ RowsStay
<1>0. NoRetries /\ RowsOnce
    BY DEF OnceInv
<1>1. RowsStay /\ \A r \in RunIds : runs'[r].st # "RETRYING"
    BY <1>0 DEF Follows, RowFollows, RowsStay, RowsOnce
<1>2. \A r \in RunIds : /\ runs'[r].token \in {runs[r].token, NoToken}
                        /\ runs'[r].st \in Active => runs[r].st \in Active /\ runs'[r].token = runs[r].token
    BY DEF Quiet, RowQuiet, Follows, RowFollows
<1>3. \A r, q \in RunIds : runs'[r].token = runs'[q].token /\ runs'[r].token # NoToken => r = q
    BY <1>0, <1>2 DEF RowsOnce
<1>4. \A r \in RunIds : runs'[r].st \in Active => runs'[r].token # NoToken
    BY <1>0, <1>2 DEF RowsOnce
<1> QED
    BY <1>1, <1>3, <1>4 DEF RowsOnce

\* Steps that begin no execution keep EntriesOnce.
LEMMA EntriesOnceKept ==
    ASSUME OnceInv, RowsStay, WorkersStay
    PROVE  EntriesOnce'
<1>0. EntriesOnce /\ Base
    BY DEF OnceInv, Inv
<1>1. \A w \in Workers, r \in RunIds : running'[w][r] # NoToken => runs'[r].st \in Active \cup Terminal
    BY <1>0 DEF EntriesOnce, RowsStay, WorkersStay
<1>2. ASSUME NEW w \in Workers, wk'[w].pc = "claimed", wk'[w].ans.tok # NoToken
      PROVE  running'[w][wk'[w].run] = NoToken
    <2>1. /\ wk[w].pc = "claimed" /\ wk[w].ans.tok # NoToken /\ wk'[w].run = wk[w].run
        BY <1>2 DEF WorkersStay
    <2>2. wk[w].run \in RunIds /\ running[w][wk[w].run] = NoToken
        BY <1>0, <2>1, BaseFacts DEF EntriesOnce
    <2> QED
        BY <2>1, <2>2 DEF WorkersStay
<1>3. \A t \in Tokens : task'[t].phase \in Live => running'[task'[t].w][task'[t].run] = t
    BY DEF WorkersStay
<1> QED
    BY <1>1, <1>2, <1>3 DEF EntriesOnce, WorkersStay

\* Nothing happens to the workers.
LEMMA WorkersSame ==
    ASSUME OnceInv, UNCHANGED wkrVars
    PROVE  WorkersStay
BY DEF OnceInv, EntriesOnce, WorkersStay, wkrVars

\* The loop moves on and no task changes.
LEMMA LoopStays ==
    ASSUME OnceInv, UNCHANGED <<running, task>>, NEW w \in Workers, NEW a,
           wk' = [wk EXCEPT ![w] = a],
           \/ a.pc # "claimed" \/ a.ans.tok = NoToken
           \/ a.pc = wk[w].pc /\ a.ans = wk[w].ans /\ a.run = wk[w].run
    PROVE  WorkersStay
<1>1. wk'[w] = a /\ \A v \in Workers \ {w} : wk'[v] = wk[v]
    BY DEF OnceInv, Inv, Base, TypeOK, WkrTypeOK
<1> QED
    BY <1>1 DEF OnceInv, EntriesOnce, WorkersStay

\* Cancelled tasks keep their entries.
LEMMA CancelStays ==
    ASSUME OnceInv, UNCHANGED running, NEW C, NEW why \in BOOLEAN, task' = Cancel(C, why),
           \A w \in Workers : wk'[w].pc = "claimed" => wk'[w] = wk[w]
    PROVE  WorkersStay
<1>0. EntriesOnce /\ \A t \in Tokens : task[t] \in Task
    BY DEF OnceInv, Inv, Base, TypeOK, WkrTypeOK
<1>1. ASSUME NEW t \in Tokens
      PROVE  /\ task'[t].phase = task[t].phase \/ (task[t].phase = "exec" /\ task'[t].phase = "stop")
             /\ task'[t].w = task[t].w /\ task'[t].run = task[t].run
    <2>1. /\ task'[t].w = task[t].w /\ task'[t].run = task[t].run
          /\ IF t \in C /\ task[t].phase = "exec"
             THEN task'[t].phase = "stop" ELSE task'[t] = task[t]
        BY <1>1, CancelFields DEF OnceInv, Inv
    <2> QED
        BY <2>1
<1>2. \A t \in Tokens :
        /\ task'[t].phase \in Live => task[t].phase \in Live
        /\ task'[t].phase \in {"exec", "stop"} => task[t].phase \in {"exec", "stop"}
    BY <1>1 DEF Live
<1>3. \A t \in Tokens : task'[t].phase # "orphan"
    BY <1>0, <1>1 DEF EntriesOnce, Live
<1> QED
    BY <1>0, <1>1, <1>2, <1>3 DEF EntriesOnce, WorkersStay

\* A task ends, or reports; only its own entry is removed.
LEMMA TaskStays ==
    ASSUME OnceInv, NEW t \in Tokens,
           \/ \E result \in Reports : Finish(t, result)
           \/ OrphanEnds(t)
           \/ task[t].phase = "report" /\ EndTask(t)
           \/ ReportFails(t)
    PROVE  WorkersStay
<1>0. /\ EntriesOnce /\ task \in [Tokens -> Task] /\ task[t] \in Task /\ Over.phase = "done"
      /\ running \in [Workers -> [RunIds -> Tokens \cup {NoToken}]]
      /\ \A u \in Tokens : task[u].phase \in Live => task[u].w \in Workers /\ task[u].run \in RunIds
    BY WorkerConstants DEF OnceInv, Inv, Base, TypeOK, WkrTypeOK, Live
<1>1. ASSUME NEW a, task' = [task EXCEPT ![t] = a], UNCHANGED <<wk, running>>,
             a.phase = "report", a.w = task[t].w, a.run = task[t].run, task[t].phase \in Live
      PROVE  WorkersStay
    <2>1. task'[t] = a /\ \A u \in Tokens \ {t} : task'[u] = task[u]
        BY <1>0, <1>1
    <2> QED
        BY <1>0, <1>1, <2>1 DEF EntriesOnce, WorkersStay
<1>2. CASE \E result \in Reports : Finish(t, result)
    <2>1. PICK result \in Reports : Finish(t, result)
        BY <1>2
    <2> DEFINE a == [task[t] EXCEPT !.phase = "report", !.result = result, !.left = 0]
    <2>2. a.phase = "report" /\ a.w = task[t].w /\ a.run = task[t].run
        BY <1>0 DEF Task
    <2>3. /\ task' = [task EXCEPT ![t] = a] /\ UNCHANGED <<wk, running>>
          /\ task[t].phase \in Live
        BY <2>1 DEF Finish, Live
    <2> HIDE DEF a
    <2> QED
        BY <1>1, <2>2, <2>3
<1>3. CASE OrphanEnds(t)
    BY <1>0, <1>3 DEF OrphanEnds, EntriesOnce
<1>4. ASSUME task[t].phase = "report", EndTask(t) PROVE WorkersStay
    <2>1. task'[t].phase = "done" /\ \A u \in Tokens \ {t} : task'[u] = task[u]
        BY <1>0, <1>4 DEF EndTask
    <2>2. /\ task[t].phase \in Live /\ task[t].w \in Workers /\ task[t].run \in RunIds
          /\ running[task[t].w][task[t].run] = t
        BY <1>0, <1>4 DEF EntriesOnce, Live
    <2>3. \A v \in Workers, r \in RunIds :
            running'[v][r] = IF v = task[t].w /\ r = task[t].run THEN NoToken ELSE running[v][r]
        BY <1>0, <1>4, <2>2 DEF EndTask
    <2>4. \A u \in Tokens : task'[u].phase \in Live =>
            u # t /\ task[u].phase \in Live /\ task'[u] = task[u]
        BY <2>1 DEF Live
    <2>5. ASSUME NEW u \in Tokens, u # t, task[u].phase \in Live
          PROVE  running'[task[u].w][task[u].run] = u
        <3>1. task[u].w \in Workers /\ task[u].run \in RunIds /\ running[task[u].w][task[u].run] = u
            BY <1>0, <2>5 DEF EntriesOnce
        <3> QED
            BY <2>2, <2>3, <2>5, <3>1
    <2>6. UNCHANGED wk
        BY <1>4 DEF EndTask
    <2>7. \A u \in Tokens :
            /\ task'[u].phase \in {"exec", "stop"} => task[u].phase \in {"exec", "stop"}
            /\ task'[u].phase # "orphan"
        BY <1>0, <2>1 DEF EntriesOnce
    <2> QED
        BY <2>3, <2>4, <2>5, <2>6, <2>7 DEF WorkersStay
<1>5. CASE ReportFails(t)
    <2>1. CASE task[t].tries + 1 = MaxReports
        BY <1>4, <1>5, <2>1 DEF ReportFails
    <2>2. CASE task[t].tries + 1 # MaxReports
        <3> DEFINE n == task[t].tries + 1
                   a == [task[t] EXCEPT !.tries = n]
        <3>1. /\ task' = [task EXCEPT ![t] = a] /\ UNCHANGED <<wk, running>>
              /\ task[t].phase = "report"
            BY <1>5, <2>2 DEF ReportFails
        <3> HIDE DEF n
        <3>2. a.phase = "report" /\ a.w = task[t].w /\ a.run = task[t].run
            BY <1>0, <3>1 DEF Task
        <3> HIDE DEF a
        <3> QED
            BY <1>1, <3>1, <3>2 DEF Live
    <2> QED
        BY <2>1, <2>2
<1> QED
    BY <1>2, <1>3, <1>4, <1>5

\* A crash empties the map and ends the tasks of one worker.
LEMMA CrashStays ==
    ASSUME OnceInv, NEW w \in Workers, Crash(w, FALSE)
    PROVE  WorkersStay
<1>0. /\ EntriesOnce /\ Over.phase = "done" /\ wk \in [Workers -> Loop]
      /\ running \in [Workers -> [RunIds -> Tokens \cup {NoToken}]]
      /\ \A u \in Tokens : task[u].phase \in Live => task[u].w \in Workers /\ task[u].run \in RunIds
    BY WorkerConstants DEF OnceInv, Inv, Base, TypeOK, WkrTypeOK, Live
<1>1. /\ wk'[w] = Down /\ \A v \in Workers \ {w} : wk'[v] = wk[v] /\ running'[v] = running[v]
      /\ \A r \in RunIds : running'[w][r] = NoToken
      /\ \A t \in Tokens : task'[t] = IF task[t].w # w \/ task[t].phase = "orphan"
                                      THEN task[t] ELSE Over
    BY <1>0 DEF Crash
<1>2. Down.pc = "down"
    BY DEF Down
<1>3. \A t \in Tokens : task'[t].phase \in Live => task'[t] = task[t] /\ task[t].w # w
    BY <1>0, <1>1 DEF EntriesOnce, Live
<1>4. \A t \in Tokens : task'[t].phase # "orphan"
    BY <1>0, <1>1 DEF EntriesOnce
<1> QED
    BY <1>0, <1>1, <1>2, <1>3, <1>4 DEF EntriesOnce, WorkersStay

\* A tick changes no entry.
LEMMA TickStays ==
    ASSUME OnceInv, WkrTick
    PROVE  WorkersStay
<1>0. /\ EntriesOnce /\ UNCHANGED running
      /\ \A w \in Workers : wk[w] \in Loop
      /\ \A t \in Tokens : task[t] \in Task
    BY DEF OnceInv, Inv, Base, TypeOK, WkrTypeOK, WkrTick
<1>1. ASSUME NEW w \in Workers
      PROVE  wk'[w].pc = wk[w].pc /\ wk'[w].ans = wk[w].ans /\ wk'[w].run = wk[w].run
    <2>1. wk'[w] = [wk[w] EXCEPT !.deadline = Sooner(wk[w].deadline),
                                 !.sent = Sooner(wk[w].sent), !.rpc = Sooner(wk[w].rpc)]
        BY <1>1 DEF WkrTick
    <2>2. wk[w] \in Loop
        BY <1>0, <1>1
    <2>3. \A d, s, p : LET b == [wk[w] EXCEPT !.deadline = d, !.sent = s, !.rpc = p]
                       IN  b.pc = wk[w].pc /\ b.run = wk[w].run /\ b.ans = wk[w].ans
        BY <2>2 DEF Loop
    <2> QED
        BY <2>1, <2>3
<1>2. ASSUME NEW t \in Tokens
      PROVE  task'[t].phase = task[t].phase /\ task'[t].w = task[t].w /\ task'[t].run = task[t].run
    <2>1. task'[t] = [task[t] EXCEPT !.left = Sooner(task[t].left)]
        BY <1>2 DEF WkrTick
    <2>2. \A l : LET b == [task[t] EXCEPT !.left = l]
                 IN  b.phase = task[t].phase /\ b.w = task[t].w /\ b.run = task[t].run
        BY <1>0, <1>2 DEF Task
    <2> QED
        BY <2>1, <2>2
<1> QED
    BY <1>0, <1>1, <1>2 DEF EntriesOnce, WorkersStay

\* A claim is granted for a row that was never claimed, under a token no row
\* has.
LEMMA ClaimOnce ==
    ASSUME OnceInv, NEW w \in Workers, NEW r \in RunIds, claim(w, r)
    PROVE  /\ RowsOnce' /\ RowsStay
           /\ ClaimGranted(w, r) => \A v \in Workers : running[v][r] = NoToken
<1>0. RowsOnce /\ EntriesOnce /\ TableInv /\ TokensFresh
    BY DEF OnceInv, Inv, Base, LeaseInv
<1>1. CASE ~ClaimGranted(w, r)
    <2>1. UNCHANGED runs
        BY <1>1 DEF claim
    <2> QED
        BY <1>0, <1>1, <2>1 DEF RowsOnce, RowsStay
<1>2. CASE ClaimGranted(w, r)
    <2>1. /\ runs[r].st = "QUEUED" /\ Claimed(runs[r], runs'[r], w, nextTok)
          /\ \A q \in RunIds \ {r} : runs'[q] = runs[q]
          /\ nextTok \in Tokens
        BY <1>0, <1>2, ClaimStep
    <2>2. runs'[r].st = "SYNCING" /\ runs'[r].token = nextTok
        BY <2>1 DEF Claimed
    <2>3. \A q \in RunIds : runs[q].token # nextTok
        BY <1>0, <2>1, StoreAssumption DEF TokensFresh, TableInv, MgrTypeOK, Tokens
    <2>4. nextTok # NoToken
        BY <2>1, StoreAssumption DEF Tokens, NoToken
    <2>5. RowsOnce'
        BY <1>0, <2>1, <2>2, <2>3, <2>4 DEF RowsOnce
    <2>6. RowsStay /\ runs[r].st \notin Active \cup Terminal
        BY <2>1, StatusFacts DEF RowsStay
    <2> QED
        BY <1>0, <2>5, <2>6 DEF EntriesOnce
<1> QED
    BY <1>1, <1>2

\* The answer to a claim leaves no entry behind.
LEMMA ClaimAnsweredOnce ==
    ASSUME OnceInv, NEW w \in Workers, HandleClaim(w)
    PROVE  RowsOnce' /\ EntriesOnce'
<1> DEFINE r == wk[w].run
<1>0. /\ EntriesOnce /\ wk \in [Workers -> Loop] /\ UNCHANGED <<running, task>>
      /\ r \in RunIds /\ claim(w, r) /\ wk[w].pc = "claim"
    BY DEF OnceInv, Inv, Base, TypeOK, WkrTypeOK, HandleClaim
<1>1. RowsOnce' /\ RowsStay /\ (ClaimGranted(w, r) => running[w][r] = NoToken)
    BY <1>0, ClaimOnce
<1>2. /\ wk'[w].pc = "claimed" /\ wk'[w].ans = ClaimAnswer(w, r) /\ wk'[w].run = r
      /\ \A v \in Workers \ {w} : wk'[v] = wk[v]
    BY <1>0 DEF HandleClaim, Loop
<1>3. wk'[w].ans.tok # NoToken => running[w][r] = NoToken
    BY <1>1, <1>2 DEF ClaimAnswer, Denied
<1>4. \A v \in Workers : wk'[v].pc = "claimed" /\ wk'[v].ans.tok # NoToken =>
                            running[v][wk'[v].run] = NoToken
    BY <1>0, <1>2, <1>3 DEF EntriesOnce
<1>5. \A v \in Workers, q \in RunIds : running[v][q] # NoToken => runs'[q].st \in Active \cup Terminal
    BY <1>0, <1>1 DEF EntriesOnce, RowsStay
<1> QED
    BY <1>0, <1>1, <1>4, <1>5 DEF EntriesOnce

\* The new entry is put over nothing.
LEMMA ClaimReceivedOnce ==
    ASSUME OnceInv, NEW w \in Workers, UNCHANGED mgrVars, ReceiveClaim(w), wk[w].ans.tok # NoToken
    PROVE  RowsOnce' /\ EntriesOnce'
<1> DEFINE r == wk[w].run
           k == wk[w].ans.tok
           a == [NoTask EXCEPT !.phase = "exec", !.w = w, !.run = r,
                               !.job = wk[w].ans.job, !.attempt = wk[w].ans.attempt]
<1>0. /\ RowsOnce /\ EntriesOnce /\ Base /\ LeaseInv /\ wk \in [Workers -> Loop] /\ UNCHANGED runs
      /\ wk[w].pc = "claimed" /\ r \in RunIds /\ wk[w].offers \in SUBSET RunIds
      /\ running \in [Workers -> [RunIds -> Tokens \cup {NoToken}]] /\ task \in [Tokens -> Task]
      /\ \A u \in Tokens : task[u].phase \in Live => task[u].w \in Workers /\ task[u].run \in RunIds
    BY DEF OnceInv, Inv, Base, TypeOK, WkrTypeOK, ReceiveClaim, mgrVars, Loop, Live
<1>1. /\ running' = [running EXCEPT ![w][r] = k] /\ task' = [task EXCEPT ![k] = a]
      /\ wk' = [wk EXCEPT ![w] = AfterCall(w, wk[w].offers)]
    BY DEF ReceiveClaim
<1>2. a.phase = "exec" /\ a.w = w /\ a.run = r
    BY DEF NoTask
<1>3. k \in Tokens /\ k # NoToken /\ running[w][r] = NoToken
    BY <1>0, BaseFacts DEF EntriesOnce
<1>4. runs[r].st \in Active
    BY <1>0, <1>3 DEF LeaseInv, ClaimOutlasts, Outlasts, fenced
<1>5. wk'[w].pc # "claimed" /\ \A v \in Workers \ {w} : wk'[v] = wk[v]
    BY <1>0, <1>1, AfterCallFields
<1> HIDE DEF a, r, k
<1>6. \A v \in Workers, q \in RunIds :
        running'[v][q] = IF v = w /\ q = r THEN k ELSE running[v][q]
    BY <1>0, <1>1
<1>7. task'[k] = a /\ \A t \in Tokens \ {k} : task'[t] = task[t]
    BY <1>0, <1>1, <1>3
<1>8. \A v \in Workers, q \in RunIds : running'[v][q] # NoToken => runs[q].st \in Active \cup Terminal
    BY <1>0, <1>4, <1>6 DEF EntriesOnce
<1>9. ASSUME NEW v \in Workers, wk'[v].pc = "claimed", wk'[v].ans.tok # NoToken
      PROVE  running'[v][wk'[v].run] = NoToken
    <2>1. v # w /\ wk'[v] = wk[v] /\ wk[v].run \in RunIds
        BY <1>0, <1>5, <1>9, BaseFacts
    <2> QED
        BY <1>0, <1>6, <1>9, <2>1 DEF EntriesOnce
<1>10. ASSUME NEW t \in Tokens, task'[t].phase \in Live
       PROVE  running'[task'[t].w][task'[t].run] = t
    <2>1. CASE t = k
        BY <1>0, <1>2, <1>6, <1>7, <2>1
    <2>2. CASE t # k
        <3>1. /\ task'[t] = task[t] /\ running[task[t].w][task[t].run] = t
              /\ task[t].w \in Workers /\ task[t].run \in RunIds /\ t # NoToken
            BY <1>0, <1>7, <1>10, <2>2, BaseFacts DEF EntriesOnce
        <3> QED
            BY <1>3, <1>6, <3>1
    <2> QED
        BY <2>1, <2>2
<1>11. \A t \in Tokens : task'[t].phase # "orphan"
    BY <1>0, <1>2, <1>7 DEF EntriesOnce
<1> QED
    BY <1>0, <1>8, <1>9, <1>10, <1>11 DEF RowsOnce, EntriesOnce

\* The other steps of the workers begin no execution.
LEMMA WorkersOnce ==
    ASSUME OnceInv, WorkerStep
    PROVE  \/ WorkersStay
           \/ \E w \in Workers : /\ ReceiveClaim(w) /\ wk[w].ans.tok # NoToken
                                 /\ UNCHANGED <<mgrVars, late>>
<1>0. /\ Base /\ wk \in [Workers -> Loop]
      /\ \A w \in Workers : wk[w] \in Loop /\ wk[w].offers \in SUBSET RunIds
    BY DEF OnceInv, Inv, Base, TypeOK, WkrTypeOK, Loop
<1>1. ASSUME NEW w \in Workers, NEW offers \in SUBSET RunIds,
             wk' = [wk EXCEPT ![w] = AfterCall(w, offers)], UNCHANGED <<running, task>>
      PROVE  WorkersStay
    BY <1>0, <1>1, AfterCallFields, LoopStays
<1>2. ASSUME NEW w \in Workers, LoopStep(w), ~(ReceiveClaim(w) /\ wk[w].ans.tok # NoToken)
      PROVE  WorkersStay
    <2>1. CASE SendHeartbeat(w)
        <3> DEFINE a == [wk[w] EXCEPT !.pc = "beat", !.sent = Safety, !.rpc = RpcMax,
                                      !.held = Leases(w)]
        <3>1. a.pc = "beat" /\ wk' = [wk EXCEPT ![w] = a] /\ UNCHANGED <<running, task>>
            BY <1>0, <2>1 DEF SendHeartbeat, Loop
        <3> HIDE DEF a
        <3> QED
            BY <3>1, LoopStays
    <2>2. CASE ReceiveHeartbeat(w)
        <3> DEFINE a == [AfterCall(w, wk[w].offers) EXCEPT !.deadline = wk[w].sent]
        <3>1. /\ task' = Cancel(TrackedOf(w, wk[w].cancel), FALSE) /\ UNCHANGED running
              /\ wk' = [wk EXCEPT ![w] = a]
            BY <2>2 DEF ReceiveHeartbeat
        <3>2. a.pc # "claimed"
            BY <1>0, AfterCallType, AfterCallFields DEF LoopOK, Loop, Base, TypeOK
        <3> HIDE DEF a
        <3>3. \A v \in Workers : wk'[v].pc = "claimed" => wk'[v] = wk[v]
            BY <1>0, <3>1, <3>2
        <3> QED
            BY <3>1, <3>3, CancelStays
    <2>3. CASE \E r \in RunIds : SendClaim(w, r)
        <3>1. PICK r \in RunIds : SendClaim(w, r)
            BY <2>3
        <3> DEFINE a == [wk[w] EXCEPT !.pc = "claim", !.run = r, !.rpc = RpcMax,
                                      !.offers = wk[w].offers \ {r}]
        <3>2. a.pc = "claim" /\ wk' = [wk EXCEPT ![w] = a] /\ UNCHANGED <<running, task>>
            BY <1>0, <3>1 DEF SendClaim, Loop
        <3> HIDE DEF a
        <3> QED
            BY <3>2, LoopStays
    <2>4. CASE ReceiveClaim(w)
        BY <1>0, <1>1, <1>2, <2>4 DEF ReceiveClaim
    <2>5. CASE EndBeat(w)
        <3>1. /\ {} \in SUBSET RunIds /\ wk' = [wk EXCEPT ![w] = AfterCall(w, {})]
              /\ UNCHANGED <<running, task>>
            BY <2>5 DEF EndBeat
        <3> QED
            BY <1>1, <3>1
    <2> QED
        BY <1>2, <2>1, <2>2, <2>3, <2>4, <2>5 DEF LoopStep
<1>3. ASSUME NEW w \in Workers, WatchdogStep(w) PROVE WorkersStay
    BY <1>3, CancelStays DEF WatchdogStep, Watchdog
<1>4. ASSUME NEW w \in Workers, HandleHeartbeat(w) PROVE WorkersStay
    <2>1. PICK c \in CancelRuns(w) :
             wk' = [wk EXCEPT ![w] = [@ EXCEPT !.pc = "beaten", !.held = {},
                                               !.cancel = InvalidRuns(w, wk[w].held) \cup c,
                                               !.offers = Offers(w)]]
        BY <1>4 DEF HandleHeartbeat
    <2> DEFINE i == InvalidRuns(w, wk[w].held) \cup c
               o == Offers(w)
               a == [wk[w] EXCEPT !.pc = "beaten", !.held = {}, !.cancel = i, !.offers = o]
    <2>2. wk' = [wk EXCEPT ![w] = a] /\ UNCHANGED <<running, task>>
        BY <1>4, <2>1 DEF HandleHeartbeat
    <2> HIDE DEF i, o
    <2>3. a.pc = "beaten"
        BY <1>0 DEF Loop
    <2> HIDE DEF a
    <2> QED
        BY <2>2, <2>3, LoopStays
<1>5. ASSUME NEW w \in Workers, Fail(w, FALSE) PROVE WorkersStay
    BY <1>5, CrashStays DEF Fail
<1>6. ASSUME NEW w \in Workers, NEW b \in BOOLEAN, Register(w, b) \/ Leave(w, b) \/ Shutdown(w, b)
      PROVE  WorkersStay
    <2>1. CASE UNCHANGED wkrVars
        BY <2>1, WorkersSame
    <2>2. CASE Registered(w)
        <3> DEFINE a == [wk[w] EXCEPT !.pc = "idle", !.deadline = Safety]
        <3>1. a.pc = "idle" /\ wk' = [wk EXCEPT ![w] = a] /\ UNCHANGED <<running, task>>
            BY <1>0, <2>2 DEF Registered, Loop
        <3> HIDE DEF a
        <3> QED
            BY <3>1, LoopStays
    <2>3. CASE Exit(w)
        <3>1. Down.pc = "down" /\ wk' = [wk EXCEPT ![w] = Down] /\ UNCHANGED <<running, task>>
            BY <2>3 DEF Exit, Down
        <3> QED
            BY <3>1, LoopStays
    <2>4. CASE RequestShutdown(w)
        <3> DEFINE a == [wk[w] EXCEPT !.shut = TRUE]
        <3>1. /\ a.pc = wk[w].pc /\ a.ans = wk[w].ans /\ a.run = wk[w].run
              /\ wk' = [wk EXCEPT ![w] = a] /\ UNCHANGED <<running, task>>
            BY <1>0, <2>4 DEF RequestShutdown, Loop
        <3> HIDE DEF a
        <3> QED
            BY <3>1, LoopStays
    <2> QED
        BY <1>6, <2>1, <2>2, <2>3, <2>4 DEF Register, Leave, Shutdown
<1>7. ASSUME NEW w \in Workers, NEW b \in BOOLEAN, CallFails(w, b) PROVE WorkersStay
    BY <1>0, <1>1, <1>7 DEF CallFails, HeartbeatFails, ClaimFails
<1>8. ASSUME NEW t \in Tokens, TaskStep(t) PROVE WorkersStay
    BY <1>8, TaskStays DEF TaskStep
<1>9. ASSUME NEW t \in Tokens, NEW b \in BOOLEAN, ReportLost(t, b) PROVE WorkersStay
    BY <1>9, TaskStays DEF ReportLost
<1> QED
    BY <1>2, <1>3, <1>4, <1>5, <1>6, <1>7, <1>8, <1>9 DEF WorkerStep, LoopStep

\* OnceInv is inductive.
LEMMA OnceStep ==
    ASSUME OnceInv, [Next]_vars
    PROVE  OnceInv'
<1>0. /\ NoRetries /\ Inv /\ Base /\ TableInv /\ DispatchKnown /\ WkrTypeOK
      /\ late \subseteq Request
    BY DEF OnceInv, Inv, Base, TypeOK
<1>1. NoRetries' /\ Inv'
    BY <1>0, InvStep DEF NoRetries
<1>2. ASSUME UNCHANGED <<conf, disp>> PROVE DispatchKnown'
    BY <1>0, <1>2 DEF DispatchKnown
<1>3. ASSUME Quiet, Follows, WorkersStay PROVE RowsOnce' /\ EntriesOnce'
    BY <1>3, RowsOnceKept, EntriesOnceKept
<1>4. CASE UNCHANGED vars
    BY <1>0, <1>1, <1>2, <1>4 DEF vars, mgrVars, wkrVars, OnceInv, RowsOnce, EntriesOnce
<1>5. CASE Reaper \/ Schedule \/ Retry \/ Dispatcher \/ Operator \/ Reload \/ RestartManager
    <2>1. Quiet /\ UNCHANGED wkrVars
        BY <1>0, <1>5, ManagerSteps DEF CalmStep, Calm
    <2>2. Follows /\ DispatchKnown'
        BY <1>0, <1>5, ManagerFollows
    <2> QED
        BY <1>1, <1>3, <2>1, <2>2, WorkersSame DEF OnceInv
<1>6. CASE WorkerStep
    <2>1. Quiet /\ Follows /\ DispatchKnown'
        BY <1>0, <1>2, <1>6, WorkerSteps, WorkerFollows DEF CalmStep, Calm
    <2> QED
        BY <1>1, <1>3, <1>6, <2>1, WorkersOnce, ClaimReceivedOnce DEF OnceInv
<1>7. CASE LeaseStep
    <2>0. DispatchKnown'
        BY <1>0, <1>2, <1>7, LeaseFollows
    <2>1. ASSUME NEW w \in Workers, HandleClaim(w) PROVE RowsOnce' /\ EntriesOnce'
        BY <2>1, ClaimAnsweredOnce
    <2>2. ASSUME NEW w, NEW r \in RunIds, NEW t, NEW n, NEW e \in Reports,
                 complete(w, r, t, n, e)
          PROVE  Quiet /\ Follows
        BY <1>0, <2>2, CompleteStep, CompleteFollows DEF Reports
    <2>3. ASSUME NEW t \in Tokens, NEW b \in BOOLEAN, Report(t, b) PROVE RowsOnce' /\ EntriesOnce'
        <3>1. /\ task[t].phase = "report"
              /\ EndTask(t) \/ ReportFails(t)
              /\ complete(task[t].w, task[t].run, t, task[t].attempt, task[t].result)
            BY <2>3 DEF Report, Reported, Completion
        <3>2. task[t].run \in RunIds /\ task[t].result \in Reports
            BY <1>0, <3>1 DEF WkrTypeOK
        <3>3. Quiet /\ Follows
            BY <2>2, <3>1, <3>2
        <3> QED
            BY <1>3, <3>1, <3>3, TaskStays
    <2>4. ASSUME NEW m \in late, Late(m) PROVE RowsOnce' /\ EntriesOnce'
        <3>1. m \in Request /\ WorkersStay
            BY <1>0, <2>4, WorkersSame DEF Late
        <3>2. CASE m.kind = "heartbeat" /\ heartbeat(m.w, m.held)
            <4>1. m.w \in Workers
                BY <3>1, <3>2 DEF Request
            <4>2. Quiet /\ Follows
                BY <1>0, <3>2, <4>1, HeartbeatCalm, HeartbeatRows DEF Calm
            <4> QED
                BY <1>3, <3>1, <4>2
        <3>3. CASE m.kind = "claim" /\ claim(m.w, m.run)
            <4>1. m.w \in Workers /\ m.run \in RunIds
                BY <3>1, <3>3 DEF Request
            <4> QED
                BY <3>1, <3>3, <4>1, ClaimOnce, EntriesOnceKept
        <3>4. CASE m.kind = "complete" /\ Reported(m)
            <4>1. m.run \in RunIds /\ m.result \in Reports
                BY <3>1, <3>4 DEF Request
            <4> QED
                BY <1>3, <2>2, <3>1, <3>4, <4>1 DEF Reported
        <3> QED
            BY <2>4, <3>2, <3>3, <3>4 DEF Late
    <2>5. ASSUME Tick PROVE RowsOnce' /\ EntriesOnce'
        <3>1. Quiet /\ Follows /\ WorkersStay
            BY <1>0, <2>5, TickStep, TickFollows, TickStays DEF Tick
        <3> QED
            BY <1>3, <3>1
    <2> QED
        BY <1>1, <1>7, <2>0, <2>1, <2>3, <2>4, <2>5 DEF LeaseStep, OnceInv
<1> QED
    BY <1>4, <1>5, <1>6, <1>7, NextCases

\* It holds at first.
LEMMA OnceInit ==
    ASSUME NoRetries, Init
    PROVE  OnceInv
<1>1. \A r \in RunIds : runs[r].st = "ABSENT" /\ runs[r].token = NoToken
    BY DEF Init, MgrInit, NoRow
<1>2. /\ \A t \in Tokens : task[t].phase = "none"
      /\ \A w \in Workers : wk[w].pc = "down"
      /\ \A w \in Workers, r \in RunIds : running[w][r] = NoToken
      /\ disp = {}
    BY DEF Init, MgrInit, WkrInit, NoTask, Down
<1> QED
    BY <1>1, <1>2, InvInit, StatusFacts
    DEF OnceInv, DispatchKnown, RowsOnce, EntriesOnce, Live

\* Without orphans and with its entry in place, every execution is tracked.
LEMMA AllTracked ==
    ASSUME OnceInv, NEW t \in Tokens, Writing(t)
    PROVE  Executes(t) /\ Tracked(t)
BY DEF OnceInv, EntriesOnce, Writing, Executes, Tracked, Live

\* Without retries in place, every execution holds the live lease of its run:
\* no claim displaces a task's entry from the running map, so heartbeat and
\* watchdog reach every task (worker main.rs, "Lease loss also cancels work").
THEOREM WriterOwns == NoRetries /\ Spec => []WriterOwnsRun
<1>1. OnceInv /\ [Next]_vars => OnceInv'
    BY OnceStep
<1>2. OnceInv => WriterOwnsRun
    BY AllTracked, TrackedOwns DEF WriterOwnsRun, Executes, Writing, OnceInv
<1>3. NoRetries /\ Init => OnceInv
    BY OnceInit
<1> QED
    BY <1>1, <1>2, <1>3, PTL DEF Spec

\* Without retries in place, the storage of a job has at most one writer,
\* whatever is lost or late and whichever worker gets the job next: the fence,
\* the index one_active_run_per_job and the watchdog of worker main.rs.
THEOREM Single == NoRetries /\ Spec => []SingleWriter
<1>1. OnceInv /\ [Next]_vars => OnceInv'
    BY OnceStep
<1>2. OnceInv => SingleWriter
    BY AllTracked, TrackedUnique DEF SingleWriter, TrackedSingleWriter, OnceInv
<1>3. NoRetries /\ Init => OnceInv
    BY OnceInit
<1> QED
    BY <1>1, <1>2, <1>3, PTL DEF Spec

-----------------------------------------------------------------------------
(* The lease service.  The claimed row of a job is its lease: claims grant, *)
(* heartbeats renew, reports and the reaper release, and what a worker does *)
(* with its tasks begins and ends work.                                     *)

\* The token and the rest of the lease of job j in table T.
HolderIn(T, j) == IF one_active_run_per_job(T, j) = {} THEN NoToken
                  ELSE T[CHOOSE r \in one_active_run_per_job(T, j) : TRUE].token

LeftIn(T, j) == IF one_active_run_per_job(T, j) = {} THEN 0
                ELSE T[CHOOSE r \in one_active_run_per_job(T, j) : TRUE].lease

Busy == {t \in Tokens : Executes(t)}

\* The refinement mapping, in terms of the table before and after a step.
LEMMA Mapped ==
    /\ LeaseHolder = [j \in Jobs |-> HolderIn(runs, j)]
    /\ LeaseLeft = [j \in Jobs |-> LeftIn(runs, j)]
    /\ LeaseHolder' = [j \in Jobs |-> HolderIn(runs', j)]
    /\ LeaseLeft' = [j \in Jobs |-> LeftIn(runs', j)]
    /\ Busy' = {t \in Tokens : task'[t].phase \in {"exec", "stop"}}
BY DEF LeaseHolder, LeaseLeft, HolderIn, LeftIn, Busy, Executes

\* The claimed row of a job is the one the mapping chooses.
LEMMA HolderRow ==
    ASSUME NEW T, NEW j, NEW r \in one_active_run_per_job(T, j),
           \A p, q \in one_active_run_per_job(T, j) : p = q
    PROVE  HolderIn(T, j) = T[r].token /\ LeftIn(T, j) = T[r].lease
<1> DEFINE c == CHOOSE q \in one_active_run_per_job(T, j) : TRUE
<1>1. c \in one_active_run_per_job(T, j)
    OBVIOUS
<1>2. c = r
    BY <1>1
<1> QED
    BY <1>2 DEF HolderIn, LeftIn

\* An execution is of the claimed row of its job.
LEMMA BusyRow ==
    ASSUME OnceInv, NEW r \in RunIds, runs[r].token \in Busy, runs[r].token # NoToken
    PROVE  runs[r].st \in Active /\ runs[r].lease > 0
<1> DEFINE k == runs[r].token
<1>1. k \in Tokens /\ Executes(k) /\ Writing(k)
    BY DEF Busy, Executes, Writing
<1>2. Owns(k) /\ task[k].run \in RunIds
    BY <1>1, AllTracked, TrackedOwns DEF OnceInv, Inv, Base, TypeOK, WkrTypeOK, Executes
<1>3. task[k].run = r
    BY <1>2 DEF OnceInv, RowsOnce, Owns, fenced
<1> QED
    BY <1>2, <1>3 DEF Owns, fenced

\* Steps of the manager that begin no lease release what is gone.
LEMMA ReleaseStep ==
    ASSUME OnceInv, OnceInv', Quiet, Follows, Still, NEW x, TableKept(x),
           nextTok' = nextTok, Busy' = Busy
    PROVE  Service!LeaseNext
<1> DEFINE A(j) == one_active_run_per_job(runs, j)
           B(j) == one_active_run_per_job(runs', j)
           S == {j \in Jobs : B(j) = {}}
<1>0. /\ \A j \in Jobs : \A p, q \in A(j) : p = q
      /\ \A j \in Jobs : \A p, q \in B(j) : p = q
    BY DEF OnceInv, Inv, Base, OneActivePerJob
<1>1. ASSUME NEW j \in Jobs, NEW r \in B(j)
      PROVE  r \in A(j) /\ runs'[r].token = runs[r].token /\ runs'[r].lease = runs[r].lease
    <2>1. r \in RunIds /\ runs'[r].st \in Active /\ runs'[r].job = j
        BY <1>1 DEF one_active_run_per_job, RowsOf
    <2> QED
        BY <2>1, StatusFacts
        DEF Quiet, RowQuiet, Follows, RowFollows, Still, one_active_run_per_job, RowsOf
<1>2. ASSUME NEW j \in Jobs \ S
      PROVE  HolderIn(runs', j) = HolderIn(runs, j) /\ LeftIn(runs', j) = LeftIn(runs, j)
    <2>1. PICK r \in B(j) : TRUE
        BY <1>2
    <2>2. HolderIn(runs', j) = runs'[r].token /\ LeftIn(runs', j) = runs'[r].lease
        BY <1>0, <2>1, HolderRow
    <2>3. HolderIn(runs, j) = runs[r].token /\ LeftIn(runs, j) = runs[r].lease
        BY <1>0, <1>1, <2>1, HolderRow
    <2> QED
        BY <1>1, <2>1, <2>2, <2>3
<1>3. \A j \in S : HolderIn(runs', j) = 0 /\ LeftIn(runs', j) = 0
    BY DEF HolderIn, LeftIn, NoToken
<1>4. ASSUME NEW j \in S PROVE HolderIn(runs, j) \notin Busy
    <2>1. CASE A(j) = {}
        BY <2>1 DEF HolderIn, Busy, Tokens, NoToken
    <2>2. CASE A(j) # {}
        <3>1. PICK r \in A(j) : TRUE
            BY <2>2
        <3>2. r \in RunIds /\ runs[r].st \in Active /\ runs[r].job = j
            BY <3>1 DEF one_active_run_per_job, RowsOf
        <3>3. HolderIn(runs, j) = runs[r].token /\ runs[r].token # NoToken
            BY <1>0, <3>1, <3>2, HolderRow DEF OnceInv, RowsOnce
        <3>4. ASSUME runs[r].token \in Busy PROVE FALSE
            <4>1. runs[r].token # x /\ runs[r].lease > 0
                BY <3>2, <3>3, <3>4, BusyRow DEF TableKept, Busy, Executes
            <4>2. runs'[r].st \in Active /\ runs'[r].job = j
                BY <3>2, <4>1 DEF TableKept, RowKeeps
            <4>3. r \in B(j)
                BY <3>2, <4>2, StatusFacts DEF one_active_run_per_job, RowsOf
            <4> QED
                BY <1>4, <4>3
        <3> QED
            BY <3>3, <3>4
    <2> QED
        BY <2>1, <2>2
<1> HIDE DEF A, B, S
<1>5. S \in SUBSET Jobs
    BY DEF S
<1>6. Service!Release(S)
    BY <1>2, <1>3, <1>4, <1>5, Mapped DEF Service!Release, Busy
<1> QED
    BY <1>5, <1>6 DEF Service!LeaseNext

\* A heartbeat, late or not, renews live leases.
LEMMA RenewStep ==
    ASSUME OnceInv, NEW w, NEW held, heartbeat(w, held), Busy' = Busy
    PROVE  Service!LeaseNext
<1> DEFINE A(j) == one_active_run_per_job(runs, j)
           S == {j \in Jobs : \E r \in A(j) : runs[r].lease > 0 /\ runs'[r].lease = Lease}
<1>0. TableInv /\ RowsOnce /\ nextTok' = nextTok /\ \A j \in Jobs : \A p, q \in A(j) : p = q
    BY DEF OnceInv, Inv, Base, OneActivePerJob, heartbeat
<1>1. \A r \in RunIds : /\ runs'[r].st = runs[r].st /\ runs'[r].job = runs[r].job
                        /\ runs'[r].token = runs[r].token
                        /\ \/ runs'[r].lease = runs[r].lease
                           \/ runs[r].st \in Active /\ runs[r].lease > 0 /\ runs'[r].lease = Lease
    BY <1>0, HeartbeatRows
<1>2. \A j \in Jobs : one_active_run_per_job(runs', j) = A(j)
    BY <1>1 DEF one_active_run_per_job, RowsOf
<1>3. ASSUME NEW j \in Jobs
      PROVE  /\ HolderIn(runs', j) = HolderIn(runs, j)
             /\ LeftIn(runs', j) = IF j \in S THEN Lease ELSE LeftIn(runs, j)
             /\ j \in S => HolderIn(runs, j) # 0 /\ LeftIn(runs, j) > 0
    <2>1. CASE A(j) = {}
        BY <1>2, <2>1 DEF HolderIn, LeftIn
    <2>2. CASE A(j) # {}
        <3>1. PICK r \in A(j) : TRUE
            BY <2>2
        <3>2. r \in RunIds /\ runs[r].st \in Active
            BY <3>1 DEF one_active_run_per_job, RowsOf
        <3>3. HolderIn(runs', j) = runs'[r].token /\ LeftIn(runs', j) = runs'[r].lease
            BY <1>0, <1>2, <3>1, HolderRow
        <3>4. HolderIn(runs, j) = runs[r].token /\ LeftIn(runs, j) = runs[r].lease
            BY <1>0, <3>1, HolderRow
        <3>5. j \in S <=> runs[r].lease > 0 /\ runs'[r].lease = Lease
            BY <1>0, <3>1
        <3>6. runs[r].token # 0
            BY <1>0, <3>2 DEF RowsOnce, NoToken
        <3> QED
            BY <1>1, <3>2, <3>3, <3>4, <3>5, <3>6
    <2> QED
        BY <2>1, <2>2
<1>4. S \in SUBSET Jobs
    OBVIOUS
<1> HIDE DEF S
<1>5. Service!Renew(S)
    BY <1>0, <1>3, <1>4, Mapped DEF Service!Renew, Service!Free, Busy
<1> QED
    BY <1>4, <1>5 DEF Service!LeaseNext

\* A claim, late or not, grants the lease of a free job or changes nothing.
LEMMA GrantStep ==
    ASSUME OnceInv, OnceInv', NEW w \in Workers, NEW r \in RunIds, claim(w, r), Busy' = Busy
    PROVE  [Service!LeaseNext]_(Service!leaseVars)
<1>0. TableInv /\ nextTok \in Int /\ \A j \in Jobs : \A p, q \in one_active_run_per_job(runs', j) : p = q
    BY DEF OnceInv, Inv, Base, TableInv, MgrTypeOK, OneActivePerJob
<1>1. CASE ~ClaimGranted(w, r)
    <2>1. UNCHANGED <<runs, nextTok>>
        BY <1>1 DEF claim
    <2> QED
        BY <2>1, Mapped DEF Service!leaseVars, Busy
<1>2. CASE ClaimGranted(w, r)
    <2> DEFINE j == runs[r].job
    <2>1. /\ runs[r].st = "QUEUED" /\ one_active_run_per_job(runs, j) = {}
          /\ nextTok' = nextTok + 1 /\ Claimed(runs[r], runs'[r], w, nextTok)
          /\ \A q \in RunIds \ {r} : runs'[q] = runs[q]
        BY <1>0, <1>2, ClaimStep
    <2>2. j \in Jobs
        BY <1>0, <2>1 DEF TableInv, RowsHaveJobs
    <2>3. /\ runs'[r].st = "SYNCING" /\ runs'[r].job = j /\ runs'[r].token = nextTok
          /\ runs'[r].lease = Lease
        BY <2>1 DEF Claimed
    <2> HIDE DEF j
    <2>4. r \in one_active_run_per_job(runs', j)
        BY <2>3, StatusFacts DEF one_active_run_per_job, RowsOf
    <2>5. HolderIn(runs', j) = nextTok /\ LeftIn(runs', j) = Lease
        BY <1>0, <2>2, <2>3, <2>4, HolderRow
    <2>6. HolderIn(runs, j) = 0
        BY <2>1 DEF HolderIn, NoToken
    <2>7. ASSUME NEW i \in Jobs \ {j}
          PROVE  HolderIn(runs', i) = HolderIn(runs, i) /\ LeftIn(runs', i) = LeftIn(runs, i)
        <3>1. \A q \in one_active_run_per_job(runs', i) : q # r /\ q \in RunIds
            BY <2>3, <2>7 DEF one_active_run_per_job, RowsOf
        <3>2. runs[r].st \notin Active
            BY <2>1, StatusFacts
        <3>3. one_active_run_per_job(runs', i) = one_active_run_per_job(runs, i)
            BY <2>1, <3>1, <3>2 DEF one_active_run_per_job, RowsOf
        <3>4. CASE one_active_run_per_job(runs, i) = {}
            BY <3>3, <3>4 DEF HolderIn, LeftIn
        <3>5. CASE one_active_run_per_job(runs, i) # {}
            <4>1. PICK q \in one_active_run_per_job(runs, i) : TRUE
                BY <3>5
            <4>2. /\ HolderIn(runs', i) = runs'[q].token /\ LeftIn(runs', i) = runs'[q].lease
                  /\ HolderIn(runs, i) = runs[q].token /\ LeftIn(runs, i) = runs[q].lease
                BY <1>0, <3>3, <4>1, HolderRow
            <4> QED
                BY <2>1, <3>1, <3>3, <4>1, <4>2
        <3> QED
            BY <3>4, <3>5
    <2>8. nextTok' - 1 = (nextTok - 1) + 1 /\ (nextTok - 1) + 1 = nextTok
        BY <1>0, <2>1
    <2>9. LeaseHolder' = [LeaseHolder EXCEPT ![j] = nextTok]
        BY <2>2, <2>5, <2>7, Mapped
    <2>10. LeaseLeft' = [LeaseLeft EXCEPT ![j] = Lease]
        BY <2>2, <2>5, <2>7, Mapped
    <2>11. LeaseHolder[j] = 0
        BY <2>2, <2>6, Mapped
    <2>12. Service!Grant(j)
        BY <2>8, <2>9, <2>10, <2>11 DEF Service!Grant, Service!Free, Busy
    <2> QED
        BY <2>2, <2>12 DEF Service!LeaseNext
<1> QED
    BY <1>1, <1>2

\* The worker starts the run it was given: the holder begins to work.
LEMMA BeginStep ==
    ASSUME OnceInv, NEW w \in Workers, UNCHANGED mgrVars, ReceiveClaim(w), wk[w].ans.tok # NoToken
    PROVE  Service!LeaseNext
<1> DEFINE r == wk[w].run
           k == wk[w].ans.tok
           j == wk[w].ans.job
           a == [NoTask EXCEPT !.phase = "exec", !.w = w, !.run = r,
                               !.job = j, !.attempt = wk[w].ans.attempt]
<1>0. /\ Base /\ LeaseInv /\ UNCHANGED <<runs, nextTok>> /\ wk[w].pc = "claimed" /\ r \in RunIds
      /\ task \in [Tokens -> Task] /\ TableInv
    BY DEF OnceInv, Inv, Base, TypeOK, WkrTypeOK, ReceiveClaim, mgrVars
<1>1. k \in Tokens /\ k # NoToken
    BY <1>0, BaseFacts
<1>2. runs[r].st \in Active /\ runs[r].token = k /\ runs[r].lease > 0 /\ runs[r].job = j
    BY <1>0, <1>1 DEF LeaseInv, ClaimOutlasts, Outlasts, fenced
<1>3. j \in Jobs
    BY <1>0, <1>2, StatusFacts DEF TableInv, RowsHaveJobs
<1>4. task' = [task EXCEPT ![k] = a] /\ a.phase = "exec"
    BY DEF ReceiveClaim, NoTask
<1> HIDE DEF r, k, j, a
<1>5. task'[k].phase = "exec" /\ \A t \in Tokens \ {k} : task'[t] = task[t]
    BY <1>0, <1>1, <1>4
<1>6. Busy' = Busy \cup {k}
    BY <1>1, <1>5, Mapped DEF Busy, Executes
<1>7. r \in one_active_run_per_job(runs, j)
    BY <1>0, <1>2, StatusFacts DEF one_active_run_per_job, RowsOf
<1>8. HolderIn(runs, j) = k /\ LeftIn(runs, j) > 0
    BY <1>0, <1>2, <1>3, <1>7, HolderRow DEF Base, OneActivePerJob
<1>9. Service!Begin(j)
    BY <1>0, <1>1, <1>3, <1>6, <1>8, Mapped DEF Service!Begin, Service!Free, Busy, NoToken
<1> QED
    BY <1>3, <1>9 DEF Service!LeaseNext

\* Where the table stays as it is, work may end.
LEMMA EndStep ==
    ASSUME UNCHANGED <<runs, nextTok>>, Busy' \subseteq Busy
    PROVE  Service!LeaseNext
<1> DEFINE D == Busy \ Busy'
<1>1. D \in SUBSET Busy /\ Busy' = Busy \ D
    OBVIOUS
<1> HIDE DEF D
<1>2. Service!End(D)
    BY <1>1, Mapped DEF Service!End, Busy
<1> QED
    BY <1>1, <1>2 DEF Service!LeaseNext, Busy

\* The clock.
LEMMA ClockStep ==
    ASSUME OnceInv, Tick, Busy' = Busy
    PROVE  Service!LeaseNext
<1> DEFINE A(j) == one_active_run_per_job(runs, j)
<1>0. TableInv /\ nextTok' = nextTok /\ \A j \in Jobs : \A p, q \in A(j) : p = q
    BY DEF OnceInv, Inv, Base, OneActivePerJob, Tick, MgrTick
<1>1. \A r \in RunIds : /\ runs'[r].st = runs[r].st /\ runs'[r].job = runs[r].job
                        /\ runs'[r].token = runs[r].token
                        /\ runs[r].lease > 0 => runs'[r].lease = runs[r].lease - 1
    BY <1>0, TickStep DEF Tick
<1>2. \A r \in RunIds : ~(runs[r].lease > 0) => runs'[r].lease = 0
    <2>1. \A r \in RunIds : runs[r].lease \in Nat
        BY <1>0, StoreAssumption DEF TableInv, MgrTypeOK, Row
    <2>2. \A r \in RunIds : ~(runs[r].lease > 0) => runs'[r] = runs[r]
        BY DEF Tick, MgrTick, age_leases
    <2> QED
        BY <2>1, <2>2
<1>3. \A j \in Jobs : one_active_run_per_job(runs', j) = A(j)
    BY <1>1 DEF one_active_run_per_job, RowsOf
<1>4. ASSUME NEW j \in Jobs
      PROVE  /\ HolderIn(runs', j) = HolderIn(runs, j)
             /\ LeftIn(runs', j) = IF LeftIn(runs, j) > 0 THEN LeftIn(runs, j) - 1 ELSE 0
    <2>1. CASE A(j) = {}
        BY <1>3, <2>1 DEF HolderIn, LeftIn
    <2>2. CASE A(j) # {}
        <3>1. PICK r \in A(j) : TRUE
            BY <2>2
        <3>2. r \in RunIds
            BY <3>1 DEF one_active_run_per_job, RowsOf
        <3>3. /\ HolderIn(runs', j) = runs'[r].token /\ LeftIn(runs', j) = runs'[r].lease
              /\ HolderIn(runs, j) = runs[r].token /\ LeftIn(runs, j) = runs[r].lease
            BY <1>0, <1>3, <3>1, HolderRow
        <3> QED
            BY <1>1, <1>2, <3>2, <3>3
    <2> QED
        BY <2>1, <2>2
<1>5. Service!LeaseTick
    BY <1>0, <1>4, Mapped DEF Service!LeaseTick, Busy
<1> QED
    BY <1>5 DEF Service!LeaseNext

\* A report ends no execution.
LEMMA ReportBusy ==
    ASSUME OnceInv, NEW t \in Tokens, task[t].phase = "report", EndTask(t) \/ ReportFails(t)
    PROVE  Busy' = Busy
<1>0. task \in [Tokens -> Task] /\ task[t] \in Task /\ Over.phase = "done"
    BY WorkerConstants DEF OnceInv, Inv, Base, TypeOK, WkrTypeOK
<1>1. task'[t].phase \in {"report", "done"} /\ \A u \in Tokens \ {t} : task'[u] = task[u]
    <2>1. CASE EndTask(t)
        BY <1>0, <2>1 DEF EndTask
    <2>2. CASE ~EndTask(t)
        <3> DEFINE n == task[t].tries + 1
                   a == [task[t] EXCEPT !.tries = n]
        <3>1. task' = [task EXCEPT ![t] = a]
            BY <2>2 DEF ReportFails
        <3> HIDE DEF n
        <3>2. a.phase = "report"
            BY <1>0 DEF Task
        <3> HIDE DEF a
        <3> QED
            BY <1>0, <3>1, <3>2
    <2> QED
        BY <2>1, <2>2
<1> QED
    BY <1>1, Mapped DEF Busy, Executes

\* Every step of the cluster is a step of the lease service or none.
LEMMA ServiceStep ==
    ASSUME OnceInv, OnceInv', [Next]_vars
    PROVE  [Service!LeaseNext]_(Service!leaseVars)
<1>0. Base /\ Inv /\ TableInv /\ DispatchKnown /\ WkrTypeOK /\ late \subseteq Request
    BY DEF OnceInv, Inv, Base, TypeOK
<1>1. CASE UNCHANGED vars
    <2>1. UNCHANGED <<runs, nextTok, task>>
        BY <1>1 DEF vars, mgrVars, wkrVars
    <2> QED
        BY <2>1, EndStep, Mapped DEF Busy, Executes
<1>2. CASE Reaper \/ Schedule \/ Retry \/ Dispatcher \/ Operator \/ Reload \/ RestartManager
    <2>1. CalmStep /\ UNCHANGED wkrVars
        BY <1>0, <1>2, ManagerSteps
    <2>2. Follows /\ Still
        BY <1>0, <1>2, ManagerFollows
    <2>3. TableKept(NoToken) /\ Quiet /\ nextTok' = nextTok
        BY <1>0, <2>1, CalmKept DEF CalmStep, Calm
    <2>4. Busy' = Busy
        BY <2>1, Mapped DEF Busy, Executes, wkrVars
    <2> QED
        BY <2>2, <2>3, <2>4, ReleaseStep
<1>3. CASE WorkerStep
    <2>1. CASE \E w \in Workers : HandleHeartbeat(w)
        <3>1. PICK w \in Workers : heartbeat(w, wk[w].held) /\ UNCHANGED task
            BY <2>1 DEF HandleHeartbeat
        <3>2. Busy' = Busy
            BY <3>1, Mapped DEF Busy, Executes
        <3> QED
            BY <3>1, <3>2, RenewStep
    <2>2. CASE ~\E w \in Workers : HandleHeartbeat(w)
        <3>1. UNCHANGED <<runs, nextTok>>
            BY <1>3, <2>2 DEF WorkerStep, LoopStep, WatchdogStep, Fail, Register, Leave, Shutdown,
                CallFails, TaskStep, ReportLost, register, unregister, worker_shutdown, mgrVars
        <3>2. CASE WorkersStay
            <4>1. Busy' \subseteq Busy
                BY <3>2, Mapped DEF WorkersStay, Busy, Executes
            <4> QED
                BY <3>1, <4>1, EndStep
        <3> QED
            BY <1>3, <3>2, WorkersOnce, BeginStep
    <2> QED
        BY <2>1, <2>2
<1>4. CASE LeaseStep
    <2>1. ASSUME NEW w \in Workers, HandleClaim(w) PROVE [Service!LeaseNext]_(Service!leaseVars)
        <3>1. claim(w, wk[w].run) /\ wk[w].run \in RunIds /\ UNCHANGED task
            BY <1>0, <2>1 DEF HandleClaim, WkrTypeOK
        <3>2. Busy' = Busy
            BY <3>1, Mapped DEF Busy, Executes
        <3> QED
            BY <3>1, <3>2, GrantStep
    <2>2. ASSUME NEW w, NEW r \in RunIds, NEW t \in Tokens, NEW n, NEW e \in Reports,
                 complete(w, r, t, n, e), task[t].phase \in {"report", "done"}, Busy' = Busy
          PROVE  Service!LeaseNext
        <3>1. Quiet /\ Follows /\ Still
            BY <1>0, <2>2, CompleteStep, CompleteFollows DEF Reports
        <3>2. TableKept(t) /\ nextTok' = nextTok
            BY <1>0, <2>2, CompleteKept DEF complete
        <3> QED
            BY <2>2, <3>1, <3>2, ReleaseStep
    <2>3. ASSUME NEW t \in Tokens, NEW b \in BOOLEAN, Report(t, b) PROVE Service!LeaseNext
        <3>1. /\ task[t].phase = "report"
              /\ EndTask(t) \/ ReportFails(t)
              /\ complete(task[t].w, task[t].run, t, task[t].attempt, task[t].result)
            BY <2>3 DEF Report, Reported, Completion
        <3>2. task[t].run \in RunIds /\ task[t].result \in Reports /\ Busy' = Busy
            BY <1>0, <3>1, ReportBusy DEF WkrTypeOK
        <3> QED
            BY <2>2, <3>1, <3>2
    <2>4. ASSUME NEW m \in late, Late(m) PROVE [Service!LeaseNext]_(Service!leaseVars)
        <3>1. m \in Request /\ UNCHANGED task
            BY <1>0, <2>4 DEF Late, wkrVars
        <3>2. Busy' = Busy
            BY <3>1, Mapped DEF Busy, Executes
        <3>3. CASE m.kind = "heartbeat" /\ heartbeat(m.w, m.held)
            BY <3>2, <3>3, RenewStep
        <3>4. CASE m.kind = "claim" /\ claim(m.w, m.run)
            <4>1. m.w \in Workers /\ m.run \in RunIds
                BY <3>1, <3>4 DEF Request
            <4> QED
                BY <3>2, <3>4, <4>1, GrantStep
        <3>5. CASE m.kind = "complete" /\ Reported(m)
            <4>1. m.run \in RunIds /\ m.tok \in Tokens /\ m.result \in Reports
                BY <3>1, <3>5 DEF Request
            <4>2. task[m.tok].phase \in {"report", "done"}
                BY <1>0, <3>5 DEF Inv, LeaseInv, LateIsOver
            <4> QED
                BY <2>2, <3>2, <3>5, <4>1, <4>2 DEF Reported
        <3> QED
            BY <2>4, <3>3, <3>4, <3>5 DEF Late
    <2>5. ASSUME Tick PROVE Service!LeaseNext
        <3>1. \A t \in Tokens : task'[t].phase = task[t].phase
            <4> SUFFICES ASSUME NEW t \in Tokens PROVE task'[t].phase = task[t].phase
                OBVIOUS
            <4>1. task'[t] = [task[t] EXCEPT !.left = Sooner(task[t].left)] /\ task[t] \in Task
                BY <1>0, <2>5 DEF Tick, WkrTick, WkrTypeOK
            <4> QED
                BY <4>1 DEF Task
        <3>2. Busy' = Busy
            BY <3>1, Mapped DEF Busy, Executes
        <3> QED
            BY <2>5, <3>2, ClockStep
    <2> QED
        BY <1>4, <2>1, <2>3, <2>4, <2>5 DEF LeaseStep
<1> QED
    BY <1>1, <1>2, <1>3, <1>4, NextCases

\* Without retries in place, manager and workers implement the lease service:
\* at most one lease per job, growing tokens, and no lease ended while its
\* holder executes (the claim, heartbeat and complete handlers, the reaper and
\* worker main.rs).
THEOREM ImplementsService == NoRetries /\ Spec => LeaseRefinement
<1>1. NoRetries /\ Init => OnceInv
    BY OnceInit
<1>2. OnceInv /\ [Next]_vars => OnceInv'
    BY OnceStep
<1>3. OnceInv /\ OnceInv' /\ [Next]_vars => [Service!LeaseNext]_(Service!leaseVars)
    BY ServiceStep
<1>4. Init => Service!LeaseInit
    <2> SUFFICES ASSUME Init PROVE Service!LeaseInit
        OBVIOUS
    <2>1. \A j \in Jobs : one_active_run_per_job(runs, j) = {}
        BY StatusFacts DEF Init, MgrInit, NoRow, one_active_run_per_job, RowsOf
    <2>2. \A j \in Jobs : HolderIn(runs, j) = 0 /\ LeftIn(runs, j) = 0
        BY <2>1 DEF HolderIn, LeftIn, NoToken
    <2>3. Busy = {} /\ nextTok = 1
        BY DEF Busy, Executes, Init, MgrInit, WkrInit, NoTask
    <2> QED
        BY <2>2, <2>3, Mapped DEF Service!LeaseInit, Busy
<1> QED
    BY <1>1, <1>2, <1>3, <1>4, PTL DEF Spec, LeaseRefinement, Service!LeaseSpec

=============================================================================
