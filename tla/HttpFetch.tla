------------------------------ MODULE HttpFetch ------------------------------
(***************************************************************************)
(* The mirror fetcher of crates/httpfetch/src/lib.rs: plan (listings, one  *)
(* by one), execute (concurrent downloads through .partial files, then the *)
(* held-back repomd.xml, then deletions).  The upstream has a directory of *)
(* packages and a repodata directory, serves one generation at a time and  *)
(* may move on between any two requests.  Names are content-addressed: a   *)
(* file is the same wherever it is, so that local_matches is presence.     *)
(* Symbolic links and empty directories change no file and are left out.   *)
(***************************************************************************)
EXTENDS Integers, FiniteSets

CONSTANTS MaxGen,      \* generations of the upstream
          PayloadOf,   \* [Gens -> sets of files]: the packages it lists
          MetaOf,      \* [Gens -> sets of files]: what its manifest refers to
          Threads,     \* concurrent downloads
          Delete,      \* the job's delete option
          MaxFaults    \* failed requests, cancellations, crashes

Gens == 1..MaxGen
Served(g) == PayloadOf[g] \cup MetaOf[g]
Files == UNION {Served(g) : g \in Gens}
Critical == UNION {MetaOf[g] : g \in Gens}
Manifest == "repomd"

ASSUME FetchAssumption ==
    /\ MaxGen \in Nat \ {0} /\ Threads \in Nat \ {0} /\ MaxFaults \in Nat
    /\ Manifest \notin Files

VARIABLES gen,     \* the generation the upstream serves
          disk,    \* complete files in the mirror
          man,     \* the generation of the local manifest; 0: none
          parts,   \* .partial files
          fetch,   \* the fetch in progress: its plan and its statistics
          ph,      \* where it is
          cancel, result, faults

mirror == <<disk, man, parts>>
fetchVars == <<gen, mirror, fetch, ph, cancel, result, faults>>

Dirs == {"root", "pool", "repodata"}
NoFetch == [pend |-> {}, remote |-> {}, todo |-> {}, fly |-> {}, open |-> {},
            dels |-> {}, hold |-> 0, failed |-> FALSE, warned |-> FALSE,
            cut |-> FALSE, lost |-> FALSE]
Results == {"none", "ok", "warned", "err", "cancelled"}

FetchTypeOK ==
    /\ gen \in Gens /\ disk \subseteq Files /\ man \in 0..MaxGen
    /\ parts \subseteq Files \cup {Manifest}
    /\ fetch \in [pend : SUBSET Dirs, remote : SUBSET Files, todo : SUBSET Files,
                  fly : SUBSET Files, open : SUBSET Files,
                  dels : SUBSET ({"file", "partial"} \X (Files \cup {Manifest})),
                  hold : 0..MaxGen, failed : BOOLEAN, warned : BOOLEAN,
                  cut : BOOLEAN, lost : BOOLEAN]
    /\ Cardinality(fetch.fly) <= Threads
    /\ ph \in {"idle", "plan", "transfer", "publish", "rename", "delete"}
    /\ cancel \in BOOLEAN /\ result \in Results /\ faults \in 0..MaxFaults

\* An empty mirror, or one that has the first generation.
FetchInit ==
    /\ gen = 1
    /\ \/ disk = {} /\ man = 0
       \/ disk = Served(1) /\ man = 1
    /\ parts = {} /\ fetch = NoFetch /\ ph = "idle"
    /\ cancel = FALSE /\ result = "none" /\ faults = 0

Fault == faults < MaxFaults /\ faults' = faults + 1

-----------------------------------------------------------------------------
(* Around the fetch. *)

FetchBegin ==
    /\ ph = "idle"
    /\ ph' = "plan" /\ fetch' = [NoFetch EXCEPT !.pend = {"root"}]
    /\ cancel' = FALSE /\ result' = "none"
    /\ UNCHANGED <<gen, mirror, faults>>

UpstreamMoves ==
    /\ gen < MaxGen /\ gen' = gen + 1
    /\ UNCHANGED <<mirror, fetch, ph, cancel, result, faults>>

FetchCancel ==
    /\ ph # "idle" /\ ~cancel
    /\ Fault /\ cancel' = TRUE
    /\ UNCHANGED <<gen, mirror, fetch, ph, result>>

\* sync returns r; the record is of no use any more.
Returns(r) == ph' = "idle" /\ result' = r /\ fetch' = NoFetch

\* The future is dropped (a timeout that cancelling did not help against) or
\* the worker dies: the tasks end wherever they are.
FetchDropped ==
    /\ ph # "idle"
    /\ Fault /\ Returns("cancelled")
    /\ UNCHANGED <<gen, mirror, cancel>>

-----------------------------------------------------------------------------
(* plan_inner. *)

\* What the index of directory d, or the manifest, says.
Lists(d) == CASE d = "pool" -> PayloadOf[gen]
              [] d = "repodata" -> MetaOf[gen]
              [] OTHER -> {}

local_matches(f) == f \in disk

\* get_listing succeeds, at its fourth attempt at the latest.
ListingArrives(d) ==
    /\ ph = "plan" /\ d \in fetch.pend
    /\ fetch' = [fetch EXCEPT
                   !.pend = (@ \ {d}) \cup (IF d = "root" THEN {"pool", "repodata"} ELSE {}),
                   !.remote = @ \cup Lists(d),
                   !.todo = @ \cup {f \in Lists(d) : ~local_matches(f)},
                   !.hold = IF d = "repodata" THEN gen ELSE @]
    /\ UNCHANGED <<gen, mirror, ph, cancel, result, faults>>

\* An unreachable root, or a manifest that cannot be read, fails the plan.
ListingFails(d) ==
    /\ ph = "plan" /\ d \in fetch.pend
    /\ Fault
    /\ \/ d \in {"root", "repodata"} /\ Returns("err")
       \/ /\ d # "root"
          /\ fetch' = [fetch EXCEPT !.pend = @ \ {d}, !.cut = TRUE, !.lost = TRUE]
          /\ UNCHANGED <<ph, result>>
    /\ UNCHANGED <<gen, mirror, cancel>>

\* MAX_ENTRIES or MAX_DEPTH: the rest is not listed.
EntryCap ==
    /\ ph = "plan" /\ fetch.pend # {} /\ "root" \notin fetch.pend
    /\ Fault
    /\ fetch' = [fetch EXCEPT !.pend = {}, !.cut = TRUE]
    /\ UNCHANGED <<gen, mirror, ph, cancel, result>>

\* Mutant: partial files are taken for somebody's work in progress.
extras_without_partials ==
    ({"file"} \X (disk \ fetch.remote))
        \cup (IF man # 0 /\ fetch.hold = 0 THEN {<<"file", Manifest>>} ELSE {})

\* Everything on disk that was not listed, partial files included.
local_extras ==
    ({"file"} \X (disk \ fetch.remote)) \cup ({"partial"} \X parts)
        \cup (IF man # 0 /\ fetch.hold = 0 THEN {<<"file", Manifest>>} ELSE {})

\* Mutant: an incomplete plan is not a failure.
PlanEndsLenient ==
    /\ ph = "plan" /\ fetch.pend = {}
    /\ IF Delete /\ fetch.lost THEN Returns("err")
       ELSE /\ ~cancel
            /\ fetch' = [fetch EXCEPT !.dels = IF Delete /\ ~fetch.cut THEN local_extras ELSE {}]
            /\ ph' = "transfer" /\ UNCHANGED result
    /\ UNCHANGED <<gen, mirror, cancel, faults>>

\* The end of plan_inner and the start of execute.
PlanEnds ==
    /\ ph = "plan" /\ fetch.pend = {}
    /\ IF Delete /\ fetch.lost THEN Returns("err")
       ELSE /\ ~cancel
            /\ fetch' = [fetch EXCEPT !.dels = IF Delete /\ ~fetch.cut THEN local_extras ELSE {},
                                      !.failed = fetch.cut]
            /\ ph' = "transfer" /\ UNCHANGED result
    /\ UNCHANGED <<gen, mirror, cancel, faults>>

PlanCancelled ==
    /\ ph = "plan" /\ cancel
    /\ Returns("cancelled")
    /\ UNCHANGED <<gen, mirror, cancel, faults>>

-----------------------------------------------------------------------------
(* execute: downloads. *)

\* Mutant: the configured concurrency is not looked at.
DownloadSpawnAll(f) ==
    /\ ph = "transfer" /\ f \in fetch.todo /\ ~cancel
    /\ fetch' = [fetch EXCEPT !.todo = @ \ {f}, !.fly = @ \cup {f}]
    /\ UNCHANGED <<gen, mirror, ph, cancel, result, faults>>

DownloadSpawn(f) ==
    /\ ph = "transfer" /\ f \in fetch.todo /\ ~cancel
    /\ Cardinality(fetch.fly) < Threads
    /\ fetch' = [fetch EXCEPT !.todo = @ \ {f}, !.fly = @ \cup {f}]
    /\ UNCHANGED <<gen, mirror, ph, cancel, result, faults>>

InFlight(f) == ph = "transfer" /\ f \in fetch.fly
Landed(f) == fetch' = [fetch EXCEPT !.fly = @ \ {f}, !.open = @ \ {f}]
\* Any failure removes the partial file, once it is the task's own.
Cleaned(f) == parts' = IF f \in fetch.open THEN parts \ {f} ELSE parts

\* The answer has arrived; a leftover is removed and File::create makes the
\* partial file anew.
DownloadOpens(f) ==
    /\ InFlight(f) /\ f \notin fetch.open /\ f \in Served(gen)
    /\ fetch' = [fetch EXCEPT !.open = @ \cup {f}]
    /\ parts' = parts \cup {f}
    /\ UNCHANGED <<gen, disk, man, ph, cancel, result, faults>>

\* 404: a warning, unless the file is critical metadata.
DownloadMissing(f) ==
    /\ InFlight(f) /\ f \notin fetch.open /\ f \notin Served(gen)
    /\ fetch' = [fetch EXCEPT !.fly = @ \ {f}, !.failed = @ \/ f \in Critical,
                              !.warned = @ \/ f \notin Critical]
    /\ UNCHANGED <<gen, mirror, ph, cancel, result, faults>>

DownloadFails(f) ==
    /\ InFlight(f) /\ Fault
    /\ fetch' = [fetch EXCEPT !.fly = @ \ {f}, !.open = @ \ {f}, !.failed = TRUE]
    /\ Cleaned(f)
    /\ UNCHANGED <<gen, disk, man, ph, cancel, result>>

\* The stream has ended: one rename puts the file in place.
DownloadRename(f) ==
    /\ InFlight(f) /\ f \in fetch.open /\ ~cancel
    /\ Landed(f)
    /\ disk' = disk \cup {f} /\ parts' = parts \ {f}
    /\ UNCHANGED <<gen, man, ph, cancel, result, faults>>

DownloadCancelled(f) ==
    /\ InFlight(f) /\ cancel
    /\ Landed(f) /\ Cleaned(f)
    /\ UNCHANGED <<gen, disk, man, ph, cancel, result, faults>>

Verdict == IF fetch.failed THEN "err" ELSE IF fetch.warned THEN "warned" ELSE "ok"

\* Mutants: a missing package does not count; nothing counts.
CleanButWarned == ~fetch.failed
AlwaysClean == TRUE

\* Whether the manifest is published and extras are deleted.
allow_deletes == ~fetch.failed /\ ~fetch.warned

\* The loop ends when the last task has; then the statistics decide.
TransferEnds ==
    /\ ph = "transfer" /\ fetch.fly = {}
    /\ \/ cancel /\ Returns("cancelled")
       \/ /\ ~cancel /\ fetch.todo = {}
          /\ IF allow_deletes
             THEN ph' = (IF fetch.hold = 0 THEN "delete" ELSE "publish")
                  /\ UNCHANGED <<fetch, result>>
             ELSE Returns(Verdict)
    /\ UNCHANGED <<gen, mirror, cancel, faults>>

-----------------------------------------------------------------------------
(* execute: the manifest of the planned generation, then deletions. *)

PublishWrite ==
    /\ ph = "publish"
    /\ \/ cancel /\ Returns("cancelled") /\ UNCHANGED parts
       \/ /\ ~cancel
          /\ ph' = "rename" /\ parts' = parts \cup {Manifest}
          /\ UNCHANGED <<fetch, result>>
    /\ UNCHANGED <<gen, disk, man, cancel, faults>>

PublishRename ==
    /\ ph = "rename"
    /\ ph' = "delete" /\ man' = fetch.hold /\ parts' = parts \ {Manifest}
    /\ UNCHANGED <<gen, disk, fetch, cancel, result, faults>>

PublishFails ==
    /\ ph \in {"publish", "rename"} /\ Fault
    /\ Returns("err")
    /\ UNCHANGED <<gen, mirror, cancel>>

Absent(e) == IF e[1] = "partial" THEN e[2] \notin parts
             ELSE IF e[2] = Manifest THEN man = 0 ELSE e[2] \notin disk

\* One remove_file; what is not there any more is an error too.
DeleteOne(e) ==
    /\ ph = "delete" /\ e \in fetch.dels
    /\ \/ cancel /\ Returns("cancelled") /\ UNCHANGED <<mirror, faults>>
       \/ /\ ~cancel
          /\ \/ /\ Absent(e) /\ UNCHANGED <<mirror, faults>>
                /\ fetch' = [fetch EXCEPT !.dels = @ \ {e}, !.failed = TRUE]
             \/ /\ ~Absent(e) /\ Fault /\ UNCHANGED mirror
                /\ fetch' = [fetch EXCEPT !.dels = @ \ {e}, !.failed = TRUE]
             \/ /\ ~Absent(e) /\ UNCHANGED faults
                /\ disk' = IF e[1] = "file" THEN disk \ {e[2]} ELSE disk
                /\ parts' = IF e[1] = "partial" THEN parts \ {e[2]} ELSE parts
                /\ man' = IF e = <<"file", Manifest>> THEN 0 ELSE man
                /\ fetch' = [fetch EXCEPT !.dels = @ \ {e}]
          /\ UNCHANGED <<ph, result>>
    /\ UNCHANGED <<gen, cancel>>

\* Empty directories and links, the summary, and HttpProvider's verdict.
ExecuteEnds ==
    /\ ph = "delete" /\ fetch.dels = {}
    /\ Returns(Verdict)
    /\ UNCHANGED <<gen, mirror, cancel, faults>>

Download(f) == \/ DownloadSpawn(f) \/ DownloadOpens(f) \/ DownloadMissing(f)
               \/ DownloadRename(f) \/ DownloadCancelled(f)

FetchProgress ==
    \/ \E d \in Dirs : ListingArrives(d)
    \/ PlanEnds \/ PlanCancelled
    \/ \E f \in Files : Download(f)
    \/ TransferEnds \/ PublishWrite \/ PublishRename
    \/ \E e \in fetch.dels : DeleteOne(e)
    \/ ExecuteEnds

FetchFaults ==
    \/ \E d \in Dirs : ListingFails(d)
    \/ \E f \in Files : DownloadFails(f)
    \/ EntryCap \/ PublishFails \/ FetchCancel \/ FetchDropped

FetchNext == FetchBegin \/ FetchProgress \/ FetchFaults \/ UpstreamMoves

=============================================================================
