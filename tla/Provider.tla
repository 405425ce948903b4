------------------------------ MODULE Provider ------------------------------
(***************************************************************************)
(* Successive attempts of one job under one provider (crates/provider),    *)
(* with cancellation, timeouts and crashes of the worker in between.  The  *)
(* kinds: "http" (module HttpFetch); "rsync" and "script" (a process       *)
(* group); "two_stage" (two rsyncs); "git" (native, a mirror); "docker"    *)
(* (everything that run_named_container starts).  A process group inherits *)
(* the storage lock and keeps the next attempt out, and so do descendants  *)
(* that outlive the leader of their group; a container does not.           *)
(* What rsync, git and docker do is taken from how the providers call them.*)
(***************************************************************************)
EXTENDS HttpFetch

CONSTANTS Kinds,        \* the providers of this instance
          MaxAttempts,
          PartialIsOk   \* success_exit_codes has rsync's partial-transfer codes

ASSUME ProviderAssumption ==
    /\ Kinds \subseteq {"http", "rsync", "script", "two_stage", "git", "docker"}
    /\ MaxAttempts \in Nat /\ PartialIsOk \in BOOLEAN

VARIABLES kind, n,    \* the provider; the number of the attempt
          live,       \* <<attempt, what>>: process groups and containers
          list,       \* two_stage: generation of the running stage's file list
          torn,       \* two_stage: stages with different lists, not made good yet
          repo,       \* git: the destination
          stash       \* git: generations in quarantined copies

procVars == <<kind, n, live, list, torn, repo, stash>>
provVars == <<fetchVars, procVars>>

Attempts == 1..MaxAttempts
\* "stage1", "group": the leader of the first and of the last group; "rest":
\* descendants that outlived it; "tidy": git's work after git; "box": a container
Groups == {x \in live : x[2] # "box"}
Boxes  == live \ Groups

ProvTypeOK ==
    /\ kind \in Kinds /\ n \in 0..MaxAttempts
    /\ live \subseteq Attempts \X {"stage1", "group", "rest", "tidy", "box"}
    /\ list \in 0..MaxGen /\ torn \in BOOLEAN
    /\ repo \in [st : {"none", "bad", "good"}, has : SUBSET Gens]
    /\ stash \subseteq Gens
    /\ kind = "http" => FetchTypeOK
    /\ kind # "http" => /\ ph \in {"idle", "prep", "spawn", "stage1", "run", "after", "stop"}
                        /\ fetch = NoFetch /\ parts = {}

ProvInit ==
    /\ FetchInit
    /\ kind \in Kinds /\ n = 0 /\ live = {}
    /\ list = 0 /\ torn = FALSE
    /\ repo \in {[st |-> "none", has |-> {}], [st |-> "good", has |-> {1}]}
    /\ stash = {}

-----------------------------------------------------------------------------
(* The attempt of a process provider. *)

Keep(vs) == UNCHANGED <<vs, kind, n>>
GoesTo(p) == ph' = p /\ UNCHANGED result
Ends(r) == ph' = "idle" /\ result' = r

\* run_once has the storage lock: no process group of this job is alive.
Begin ==
    /\ ph = "idle" /\ Groups = {} /\ n < MaxAttempts
    /\ n' = n + 1 /\ ph' = "prep" /\ cancel' = FALSE /\ result' = "none"
    /\ UNCHANGED <<gen, mirror, fetch, faults, kind, live, list, torn, repo, stash>>

\* Before anything is started: an option that is missing or refused.
Misconfigured ==
    /\ Fault /\ Ends("err")
    /\ UNCHANGED <<gen, mirror, fetch, cancel, procVars>>

Prepared ==
    /\ GoesTo("spawn")
    /\ UNCHANGED <<gen, mirror, fetch, cancel, faults, procVars>>

\* The command lines: upstream, options, exclusions, the route.
PrepareRsync  == ph = "prep" /\ kind = "rsync" /\ (Prepared \/ Misconfigured)
PrepareStages == ph = "prep" /\ kind = "two_stage" /\ (Prepared \/ Misconfigured)
PrepareScript == ph = "prep" /\ kind = "script" /\ Prepared

\* Options, mounts and network of a container.
validate_docker_options == ph = "prep" /\ kind = "docker" /\ Misconfigured

\* docker rm -f of the job's name, whose result nobody looks at.
RemoveLeftover ==
    /\ ph = "prep" /\ kind = "docker"
    /\ GoesTo("spawn")
    /\ \/ live' = live \ Boxes /\ UNCHANGED faults
       \/ Fault /\ UNCHANGED live
    /\ UNCHANGED <<gen, mirror, fetch, cancel, kind, n, list, torn, repo, stash>>

\* Mutant: an unusable destination is cleared away.
QuarantineDeletes ==
    /\ repo' = [st |-> "none", has |-> {}] /\ UNCHANGED stash

Quarantined ==
    /\ repo' = [st |-> "none", has |-> {}]
    /\ stash' = stash \cup repo.has

\* prepare_existing_repo mends an empty HEAD; it also fails when git itself
\* does.  Then the destination is looked at again and moved away (which may
\* fail), or found usable after all, in which case the clone into it fails.
PrepareRepo ==
    /\ ph = "prep" /\ kind = "git"
    /\ \/ /\ repo.st = "none" /\ GoesTo("spawn") /\ UNCHANGED <<repo, stash, faults>>
       \/ /\ repo.st # "none" /\ GoesTo("spawn")
          /\ repo' = [repo EXCEPT !.st = "good"] /\ UNCHANGED <<stash, faults>>
       \/ /\ repo.st # "none" /\ GoesTo("spawn")
          /\ Quarantined
          /\ IF repo.st = "good" THEN Fault ELSE UNCHANGED faults
       \/ /\ Fault /\ Ends("err") /\ UNCHANGED <<repo, stash>>
    /\ UNCHANGED <<gen, mirror, fetch, cancel, kind, n, live, list, torn>>

\* Mutant: every run has a container name of its own.
NameOfRun == TRUE

\* docker run --name refuses the job's name while a container has it.
NameFree == Boxes = {}

Spawned == CASE kind = "two_stage" -> {<<n, "stage1">>}
             [] kind = "docker"    -> {<<n, "group">>, <<n, "box">>}
             [] OTHER              -> {<<n, "group">>}

\* spawn_group; the docker client has its container created.
SpawnGroup ==
    /\ ph = "spawn" /\ (kind = "docker" => NameFree)
    /\ GoesTo(IF kind = "two_stage" THEN "stage1" ELSE "run")
    /\ live' = live \cup Spawned
    /\ list' = gen
    /\ UNCHANGED <<gen, mirror, fetch, cancel, faults, kind, n, torn, repo, stash>>

\* The name is taken: the client exits with an error.
SpawnConflict ==
    /\ ph = "spawn" /\ kind = "docker" /\ ~NameFree
    /\ Ends("err")
    /\ UNCHANGED <<gen, mirror, fetch, cancel, faults, procVars>>

SpawnFails ==
    /\ ph = "spawn" /\ Misconfigured

Leader == {<<n, "stage1">>, <<n, "group">>}
Running == ph \in {"stage1", "run"}

-----------------------------------------------------------------------------
(* What the processes do meanwhile. *)

\* rsync puts a file in place, in stage 1 or when stage 2 applies its updates.
RsyncPuts(f) ==
    /\ kind = "two_stage" /\ Groups # {} /\ f \in (Served(list) \cap Served(gen)) \ disk
    /\ disk' = disk \cup {f}
    /\ UNCHANGED <<gen, man, parts, fetch, ph, cancel, result, faults, procVars>>

Stage2Lives == kind = "two_stage" /\ \E x \in Groups : x[2] = "group"

\* The index files, which the profile keeps out of stage 1.
RsyncPutsIndex ==
    /\ Stage2Lives /\ man # list /\ list = gen
    /\ man' = list
    /\ UNCHANGED <<gen, disk, parts, fetch, ph, cancel, result, faults, procVars>>

\* --delete-after
RsyncDeletes(f) ==
    /\ Stage2Lives /\ man = list /\ Served(list) \subseteq disk /\ f \in disk \ Served(list)
    /\ disk' = disk \ {f}
    /\ UNCHANGED <<gen, man, parts, fetch, ph, cancel, result, faults, procVars>>

\* What a git command that did not end well may leave: a clone cleans up,
\* unless it is killed; an update is done or not.
GitLeaves ==
    IF kind # "git" THEN {repo}
    ELSE IF repo.st = "none"
    THEN {repo, [st |-> "bad", has |-> {}], [st |-> "good", has |-> {gen}]}
    ELSE {repo, [repo EXCEPT !.has = @ \cup {gen}]}

BoxEnds(x) ==
    /\ x \in Boxes
    /\ live' = live \ {x}
    /\ Keep(<<fetchVars, list, torn, repo, stash>>)

\* A process nobody waits for ends: killed, or done.
OrphanEnds(x) ==
    /\ x \in Groups /\ ~(Running /\ x \in Leader) /\ ~(ph = "after" /\ x[2] = "tidy")
    /\ live' = live \ {x}
    /\ repo' \in IF x[2] = "group" THEN GitLeaves ELSE {repo}
    /\ Keep(<<fetchVars, list, torn, stash>>)

-----------------------------------------------------------------------------
(* The leader of the group exits by itself. *)

Complete == Served(list) \subseteq disk

\* kill_group: the group is gone, and its leader waited for.
Reap == live' = live \ Leader

\* The leader is waited for and the guard disarmed, which kills nothing:
\* descendants that have closed their pipes stay.  `new` is started next.
Exits(new) == \E rest \in SUBSET {<<n, "rest">>} : live' = (live \ Leader) \cup rest \cup new
Stage2 == Exits({<<n, "group">>})

\* Mutant: stage 1 is taken for done whatever it says.
Stage1Unchecked ==
    /\ ph = "stage1" /\ ~cancel
    /\ Complete \/ faults < MaxFaults
    /\ GoesTo("run") /\ Stage2 /\ list' = gen /\ torn' = (torn \/ gen # list)
    /\ UNCHANGED <<gen, mirror, fetch, cancel, faults, kind, n, repo, stash>>

\* Stage 1 must exit with 0; the second rsync takes its place.
Stage1Exits ==
    /\ ph = "stage1" /\ ~cancel
    /\ \/ /\ Complete /\ UNCHANGED faults
          /\ GoesTo("run") /\ Stage2 /\ list' = gen /\ torn' = (torn \/ gen # list)
       \/ Fault /\ Ends("err") /\ Exits({}) /\ UNCHANGED <<list, torn>>
    /\ UNCHANGED <<gen, mirror, fetch, cancel, kind, n, repo, stash>>

\* The last status a script printed, or one of the phrases of a failure.
Reported == IF kind \in {"script", "docker"} THEN {"none", "success", "failed"} ELSE {"none"}

\* Exit status and reported status must both allow it.
process_result_is_success(zero, status) == zero /\ status \in {"none", "success"}

\* rsync's partial transfers may count; a git command exits with 0 or fails.
RsyncAccepts(zero) == zero \/ PartialIsOk
ScriptAccepts(zero, status) == process_result_is_success(zero, status)
ContainerAccepts(zero, status) == status # "failed" /\ process_result_is_success(zero, status)
GitAccepts(zero) == zero

Accepts(zero, status) ==
    CASE kind \in {"rsync", "two_stage"} -> RsyncAccepts(zero)
      [] kind = "script" -> ScriptAccepts(zero, status)
      [] kind = "docker" -> ContainerAccepts(zero, status)
      [] kind = "git"    -> GitAccepts(zero)

CanExitZero == kind = "two_stage" => man = list /\ disk = Served(list)

\* Mutant: the client is detached.
ClientDetached == TRUE

\* The client is attached and ends with its container.
ClientMayExit == kind = "docker" => <<n, "box">> \notin live

RunExits ==
    /\ ph = "run" /\ ClientMayExit /\ ~cancel
    /\ \E zero \in BOOLEAN, status \in Reported :
          /\ zero => CanExitZero
          /\ IF zero /\ status # "failed" THEN UNCHANGED faults ELSE Fault
          /\ torn' = (torn /\ ~zero)
          /\ IF zero /\ kind = "git"
             THEN /\ GoesTo("after") /\ Exits({<<n, "tidy">>})
                  /\ repo' = [st |-> "good", has |-> repo.has \cup {gen}]
             ELSE /\ Ends(IF Accepts(zero, status) THEN "ok" ELSE "err") /\ Exits({})
                  /\ repo' \in GitLeaves
    /\ UNCHANGED <<gen, mirror, fetch, cancel, kind, n, list, stash>>

\* refresh_head, maybe_repack and repo_size_bytes: each ends or times out,
\* its group with it, and neither its failure nor a cancellation matters.
Tidied ==
    /\ ph = "after"
    /\ Ends("ok") /\ live' = live \ {<<n, "tidy">>}
    /\ UNCHANGED <<gen, mirror, fetch, cancel, faults, kind, n, list, torn, repo, stash>>

-----------------------------------------------------------------------------
(* Cancellation, timeouts, crashes. *)

CancelAttempt ==
    /\ ph # "idle" /\ ~cancel
    /\ Fault /\ cancel' = TRUE
    /\ UNCHANGED <<gen, mirror, fetch, ph, result, procVars>>

\* Mutant: only the last process of an attempt is watched.
KillLastGroup ==
    /\ ph = "run" /\ cancel
    /\ Reap
    /\ IF kind = "docker" THEN GoesTo("stop") ELSE Ends("cancelled")
    /\ repo' \in GitLeaves
    /\ UNCHANGED <<gen, mirror, fetch, cancel, faults, kind, n, list, torn, stash>>

\* kill_group waits for the group; a docker client's container is next.
KillGroup ==
    /\ Running /\ cancel
    /\ Reap
    /\ IF kind = "docker" THEN GoesTo("stop") ELSE Ends("cancelled")
    /\ repo' \in GitLeaves
    /\ UNCHANGED <<gen, mirror, fetch, cancel, faults, kind, n, list, torn, stash>>

\* The leader has exited when the cancellation comes: kill_group is called for
\* a child without a pid and sends its signal to group 0, the worker's own.
CancelledAfterWait ==
    /\ Running /\ cancel /\ (ph = "run" => ClientMayExit)
    /\ Ends("died") /\ Exits({})
    /\ repo' \in GitLeaves
    /\ UNCHANGED <<gen, mirror, fetch, cancel, faults, kind, n, list, torn, stash>>

\* docker rm -f with 20 seconds to do it.
StopContainer ==
    /\ ph = "stop"
    /\ Ends("cancelled")
    /\ \/ live' = live \ Boxes /\ UNCHANGED faults
       \/ Fault /\ UNCHANGED live
    /\ UNCHANGED <<gen, mirror, fetch, cancel, kind, n, list, torn, repo, stash>>

\* The future is dropped 30 seconds after the timeout, or the worker dies,
\* possibly while refresh_head writes HEAD.
Abandon ==
    /\ ph # "idle" /\ Fault
    /\ Ends("cancelled")
    /\ repo' \in {repo} \cup (IF ph = "after" THEN {[repo EXCEPT !.st = "bad"]} ELSE {})
    /\ UNCHANGED <<gen, mirror, fetch, cancel, kind, n, live, list, torn, stash>>

Advance ==
    \/ PrepareRsync \/ PrepareStages \/ PrepareScript \/ RemoveLeftover \/ PrepareRepo
    \/ SpawnGroup \/ SpawnConflict
    \/ KillGroup \/ StopContainer \/ Tidied

ProcNext ==
    \/ Begin \/ validate_docker_options \/ SpawnFails \/ Advance \/ Stage1Exits \/ RunExits
    \/ \E f \in Files : RsyncPuts(f) \/ RsyncDeletes(f)
    \/ RsyncPutsIndex
    \/ \E x \in live : BoxEnds(x) \/ OrphanEnds(x)
    \/ CancelAttempt \/ CancelledAfterWait \/ Abandon
    \/ UpstreamMoves /\ UNCHANGED procVars

ProvNext == \/ kind = "http" /\ FetchNext /\ UNCHANGED procVars
            \/ kind # "http" /\ ProcNext

ProvSpec == ProvInit /\ [][ProvNext]_provVars

\* A killed process goes, requests and docker commands end or time out, and
\* the job runs again by its schedule.
ProvFair ==
    /\ ProvSpec
    /\ WF_provVars(kind # "http" /\ Advance)
    /\ WF_provVars(kind = "http" /\ FetchBegin /\ UNCHANGED procVars)
    /\ WF_provVars(kind = "http" /\ FetchProgress /\ UNCHANGED procVars)

-----------------------------------------------------------------------------
(* Properties. *)

\* Two attempts of the job never write at once, whatever a crash, a dropped
\* future or a docker daemon that does not answer left running.
AttemptsExclude == Cardinality({x[1] : x \in live \ {y \in Groups : kind = "docker"}}) <= 1

\* The types, with the slots of the download semaphore, and one writer.
ProvInv == ProvTypeOK /\ AttemptsExclude

\* Published metadata never refers to what is not there.  A fetch's repomd.xml
\* has its metadata beside it, not only while the upstream moves on but after a
\* failed, cancelled, dropped or crashed fetch at any point (execute publishes
\* last and deletes after that); the index files of a two-stage mirror have
\* their packages, unless the upstream moved on between the two stages.
ManifestComplete ==
    man # 0 => /\ kind = "http" => MetaOf[man] \subseteq disk
               /\ kind = "two_stage" /\ ~torn => Served(man) \subseteq disk

\* No failure costs what was there.  A file leaves a fetched mirror only when
\* everything was listed and every listed file is in place; what git has
\* fetched stays, in the destination or in a copy beside it.
NothingIsLost ==
    [][/\ kind = "http" /\ (~(disk \subseteq disk') \/ (man # 0 /\ man' = 0))
            => /\ ph = "delete" /\ ~fetch.cut
               /\ fetch.remote \subseteq disk'
       /\ repo.has \cup stash \subseteq repo'.has \cup stash']_provVars

\* When an attempt reports success its container, its process and git's
\* housekeeping are over, and nothing of an earlier attempt is left: what may
\* still write is a descendant of this attempt's process that outlived it and
\* keeps the storage lock.  A fetch leaves the planned generation's manifest,
\* every listed file and, if it deletes, nothing else, partial files included.
SuccessIsExact ==
    [][ph # "idle" /\ ph' = "idle" /\ result' = "ok"
       => /\ live' \subseteq {<<n, "rest">>}
          /\ kind = "http" =>
                /\ fetch.remote \subseteq disk /\ man = fetch.hold /\ fetch.hold # 0
                /\ Delete => disk = fetch.remote /\ parts = {}]_provVars

\* A cancelled attempt ends.
CancelReturns == (cancel /\ ph # "idle") ~> (ph = "idle")

\* Once the upstream stays and the faults are over, the mirror gets to what
\* the upstream has, whatever earlier fetches left behind.
Converges ==
    kind = "http" => <>[](/\ man = gen /\ disk = Served(gen)
                          /\ parts \subseteq fetch.open \cup {Manifest})

=============================================================================
