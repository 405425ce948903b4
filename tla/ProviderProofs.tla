--------------------------- MODULE ProviderProofs ---------------------------
(***************************************************************************)
(* Proofs about successive attempts of one job (modules HttpFetch and      *)
(* Provider): at most one attempt writes, published metadata is complete,  *)
(* no failure costs what was there, and success is exact; for every number *)
(* of generations, attempts, faults and downloads, every content of the    *)
(* upstream, with and without the delete option.                           *)
(***************************************************************************)
EXTENDS Provider, FiniteSetTheorems, TLAPS

-----------------------------------------------------------------------------
(* The invariant of a fetch. *)

\* What a fetch has planned: nothing is downloaded that is not listed, and
\* the metadata of the manifest it holds back is listed.
Listed ==
    /\ fetch.todo \cup fetch.fly \subseteq fetch.remote
    /\ fetch.open \subseteq fetch.fly
    /\ fetch.hold # 0 => MetaOf[fetch.hold] \subseteq fetch.remote

\* While listings come in: the manifest is held back once everything is
\* listed, and what is not on disk is to be fetched.
Planning ==
    ph = "plan" =>
        /\ fetch.fly = {} /\ fetch.dels = {}
        /\ "root" \in fetch.pend => fetch.pend = {"root"}
        /\ fetch.cut \/ fetch.hold # 0 \/ fetch.pend \cap {"root", "repodata"} # {}
        /\ fetch.remote \subseteq disk \cup fetch.todo

Late == {"publish", "rename", "delete"}

\* While it is executed: an incomplete plan is a failure and deletes nothing,
\* and nothing that is listed is deleted.
Executing ==
    ph \in {"transfer"} \cup Late =>
        /\ IF fetch.cut THEN fetch.failed /\ fetch.dels = {} ELSE fetch.hold # 0
        /\ \A x \in fetch.remote \cup {Manifest} : <<"file", x>> \notin fetch.dels

\* Every listed file arrives, or there is a reason to stop after the
\* transfers; after them the listed files are in place.
Arriving ==
    /\ ph = "transfer" => \/ fetch.failed \/ fetch.warned \/ cancel
                          \/ fetch.remote \subseteq disk \cup fetch.todo \cup fetch.fly
    /\ ph \in Late => ~fetch.cut /\ fetch.remote \subseteq disk /\ fetch.fly = {}
    /\ ph = "delete" => man = fetch.hold

\* With the delete option, whatever else is on disk is to be deleted.
Deleting ==
    ph \in {"transfer"} \cup Late /\ Delete /\ ~fetch.cut /\ ~fetch.failed =>
        /\ \A x \in disk \ fetch.remote : <<"file", x>> \in fetch.dels
        /\ \A x \in parts : \/ <<"partial", x>> \in fetch.dels
                            \/ x \in fetch.open
                            \/ ph = "rename" /\ x = Manifest

\* The metadata of the published manifest is in place.
Published == man # 0 => MetaOf[man] \subseteq disk

\* The inductive invariant of a fetch.
HttpInv ==
    /\ FetchTypeOK /\ IsFiniteSet(fetch.fly)
    /\ Published /\ Listed /\ Planning /\ Executing /\ Arriving /\ Deleting

-----------------------------------------------------------------------------
(* The invariant of the processes. *)

\* What runs belongs to this attempt, which has a number, unless it is a container; there is one
\* container at most.
OwnLive ==
    /\ ph # "idle" => n # 0
    /\ \A x \in Groups : x[1] = n
    /\ \A x, y \in Boxes : x = y
    /\ kind # "docker" => Boxes = {}
    /\ ph \in {"prep", "spawn"} => Groups = {}
    /\ ph = "stage1" => live \subseteq {<<n, "stage1">>, <<n, "rest">>}
    /\ ph = "run" => live \subseteq {<<n, "group">>, <<n, "rest">>, <<n, "box">>}
    /\ ph = "after" => live \subseteq {<<n, "rest">>, <<n, "tidy">>}

\* A repository that is not there has nothing.
NoRepo == repo.st = "none" => repo.has = {}

\* The second stage works with the list of the first, which is in place.
SecondStage == Stage2Lives /\ ~torn => Served(list) \subseteq disk

ProcInv ==
    /\ gen \in Gens /\ disk \subseteq Files /\ man \in 0..MaxGen
    /\ OwnLive /\ NoRepo /\ SecondStage
    /\ kind = "two_stage" /\ man # 0 /\ ~torn => Served(man) \subseteq disk

\* The inductive invariant.
AttemptInv ==
    /\ ProvTypeOK
    /\ kind = "http" => HttpInv /\ live = {}
    /\ kind # "http" => ProcInv

-----------------------------------------------------------------------------
(* The steps of a fetch. *)

\* What the upstream serves are files.
LEMMA ServedAreFiles ==
    \A g \in Gens : /\ Served(g) \subseteq Files
                    /\ PayloadOf[g] \subseteq Files /\ MetaOf[g] \subseteq Files
  BY DEF Files, Served

\* The manifest is none of them.
LEMMA ManifestIsNoFile == Manifest \notin Files
  BY FetchAssumption

\* The record of a fetch that does not run.
LEMMA NoFetchFields ==
    /\ NoFetch.pend = {} /\ NoFetch.remote = {} /\ NoFetch.todo = {}
    /\ NoFetch.fly = {} /\ NoFetch.open = {} /\ NoFetch.dels = {} /\ NoFetch.hold = 0
    /\ NoFetch.failed = FALSE /\ NoFetch.warned = FALSE
    /\ NoFetch.cut = FALSE /\ NoFetch.lost = FALSE
  BY DEF NoFetch

Recs == [pend : SUBSET Dirs, remote : SUBSET Files, todo : SUBSET Files,
         fly : SUBSET Files, open : SUBSET Files,
         dels : SUBSET ({"file", "partial"} \X (Files \cup {Manifest})),
         hold : 0..MaxGen, failed : BOOLEAN, warned : BOOLEAN,
         cut : BOOLEAN, lost : BOOLEAN]

LEMMA NoFetchTyped == NoFetch \in Recs
  <1>1. /\ {} \in SUBSET Dirs /\ {} \in SUBSET Files
        /\ {} \in SUBSET ({"file", "partial"} \X (Files \cup {Manifest}))
        /\ 0 \in 0..MaxGen /\ FALSE \in BOOLEAN
    BY FetchAssumption
  <1> QED BY <1>1 DEF NoFetch, Recs

\* The fetch returns; what is on disk stays, whatever it is.
LEMMA ReturnsKeeps ==
    ASSUME HttpInv, NEW r \in Results, Returns(r),
           UNCHANGED <<gen, disk, man, parts>>, cancel' \in BOOLEAN, faults' \in 0..MaxFaults
    PROVE  HttpInv'
  <1>0. fetch' = NoFetch /\ ph' = "idle" /\ result' = r
    BY DEF Returns
  <1>1. Cardinality(fetch'.fly) <= Threads /\ IsFiniteSet(fetch'.fly)
    BY <1>0, NoFetchFields, FS_EmptySet, FetchAssumption
  <1>2. FetchTypeOK'
    BY <1>0, <1>1, NoFetchTyped DEF HttpInv, FetchTypeOK, Recs
  <1>3. Published' /\ Listed' /\ Planning' /\ Executing' /\ Arriving' /\ Deleting'
    BY <1>0, NoFetchFields DEF HttpInv, Published, Listed, Planning, Executing, Arriving, Deleting, Late
  <1> QED BY <1>1, <1>2, <1>3 DEF HttpInv

LEMMA BeginKeeps == HttpInv /\ FetchBegin => HttpInv'
  <1> SUFFICES ASSUME HttpInv, FetchBegin PROVE HttpInv'
    OBVIOUS
  <1>0. /\ fetch'.pend = {"root"} /\ fetch'.remote = {} /\ fetch'.todo = {}
        /\ fetch'.fly = {} /\ fetch'.open = {} /\ fetch'.dels = {} /\ fetch'.hold = 0
        /\ fetch'.failed = FALSE /\ fetch'.warned = FALSE
        /\ fetch'.cut = FALSE /\ fetch'.lost = FALSE
    BY DEF FetchBegin, NoFetch
  <1>1. fetch' \in Recs
    <2>1. {"root"} \in SUBSET Dirs
      BY DEF Dirs
    <2> QED BY <2>1, NoFetchTyped DEF FetchBegin, Recs
  <1>2. Cardinality(fetch'.fly) <= Threads /\ IsFiniteSet(fetch'.fly)
    BY <1>0, FS_EmptySet, FetchAssumption
  <1>3. FetchTypeOK'
    BY <1>1, <1>2 DEF HttpInv, FetchTypeOK, FetchBegin, mirror, Recs, Results
  <1>4. Published' /\ Listed' /\ Planning' /\ Executing' /\ Arriving' /\ Deleting'
    BY <1>0 DEF HttpInv, FetchBegin, mirror, Published, Listed, Planning, Executing, Arriving, Deleting, Late
  <1> QED BY <1>2, <1>3, <1>4 DEF HttpInv

\* The upstream moves on: nothing of the fetch changes.
LEMMA MovesKeeps == HttpInv /\ UpstreamMoves => HttpInv'
  <1> SUFFICES ASSUME HttpInv, UpstreamMoves PROVE HttpInv'
    OBVIOUS
  <1>1. gen' \in Gens
    BY FetchAssumption DEF HttpInv, FetchTypeOK, UpstreamMoves, Gens
  <1> QED BY <1>1 DEF HttpInv, FetchTypeOK, UpstreamMoves, mirror, Published, Listed, Planning,
                      Executing, Arriving, Deleting

LEMMA FaultCounted == faults \in 0..MaxFaults /\ Fault => faults' \in 0..MaxFaults
  BY FetchAssumption DEF Fault

LEMMA CancelKeeps == HttpInv /\ FetchCancel => HttpInv'
  <1> SUFFICES ASSUME HttpInv, FetchCancel PROVE HttpInv'
    OBVIOUS
  <1>1. faults' \in 0..MaxFaults
    BY FaultCounted DEF HttpInv, FetchTypeOK, FetchCancel
  <1> QED BY <1>1 DEF HttpInv, FetchTypeOK, FetchCancel, mirror, Published, Listed, Planning,
                      Executing, Arriving, Deleting

LEMMA DroppedKeeps == HttpInv /\ FetchDropped => HttpInv'
  <1> SUFFICES ASSUME HttpInv, FetchDropped PROVE HttpInv'
    OBVIOUS
  <1>1. faults' \in 0..MaxFaults /\ cancel' \in BOOLEAN
    BY FaultCounted DEF HttpInv, FetchTypeOK, FetchDropped
  <1>2. Returns("cancelled") /\ "cancelled" \in Results /\ UNCHANGED <<gen, disk, man, parts>>
    BY DEF FetchDropped, Results, mirror
  <1> QED BY <1>1, <1>2, ReturnsKeeps

\* A listing adds what it names to the plan, and holds the manifest back.
LEMMA ArrivesKeeps ==
    ASSUME HttpInv, NEW d \in Dirs, ListingArrives(d)
    PROVE  HttpInv'
  <1>0. fetch \in Recs /\ ph = "plan" /\ d \in fetch.pend /\ gen \in Gens
    BY DEF HttpInv, FetchTypeOK, ListingArrives, Recs
  <1>1. PICK L : L = Lists(d)
    OBVIOUS
  <1>2. /\ L \subseteq Files
        /\ d = "repodata" => L = MetaOf[gen]
        /\ d = "root" => L = {}
    BY <1>0, <1>1, ServedAreFiles DEF Lists
  <1>3. /\ fetch'.pend = (fetch.pend \ {d}) \cup (IF d = "root" THEN {"pool", "repodata"} ELSE {})
        /\ fetch'.remote = fetch.remote \cup L
        /\ fetch'.todo = fetch.todo \cup (L \ disk)
        /\ fetch'.hold = (IF d = "repodata" THEN gen ELSE fetch.hold)
        /\ fetch'.fly = fetch.fly /\ fetch'.open = fetch.open /\ fetch'.dels = fetch.dels
        /\ fetch'.failed = fetch.failed /\ fetch'.warned = fetch.warned
        /\ fetch'.cut = fetch.cut /\ fetch'.lost = fetch.lost
    BY <1>0, <1>1 DEF ListingArrives, local_matches, Recs
  <1>4. fetch' \in Recs
    <2>1. /\ fetch'.pend \in SUBSET Dirs /\ fetch'.remote \in SUBSET Files
          /\ fetch'.todo \in SUBSET Files /\ fetch'.hold \in 0..MaxGen
      <3>1. fetch.pend \subseteq Dirs /\ fetch.remote \subseteq Files /\ fetch.todo \subseteq Files
            /\ fetch.hold \in 0..MaxGen
        BY <1>0 DEF Recs
      <3> QED BY <1>0, <1>2, <1>3, <3>1, FetchAssumption DEF Gens, Dirs
    <2>2. fetch' = [fetch EXCEPT !.pend = fetch'.pend, !.remote = fetch'.remote,
                                 !.todo = fetch'.todo, !.hold = fetch'.hold]
      BY <1>0, <1>1, <1>3 DEF ListingArrives, local_matches, Recs
    <2> QED BY <1>0, <2>1, <2>2 DEF Recs
  <1>5. /\ UNCHANGED <<gen, disk, man, parts, ph, cancel, result, faults>>
    BY DEF ListingArrives, mirror
  <1>6. FetchTypeOK'
    BY <1>3, <1>4, <1>5 DEF HttpInv, FetchTypeOK, Recs
  <1>7. Published' /\ Listed'
    BY <1>0, <1>2, <1>3, <1>5 DEF HttpInv, Published, Listed
  <1>8. Planning'
    BY <1>0, <1>2, <1>3, <1>5, FetchAssumption DEF HttpInv, Planning, Gens
  <1>9. Executing' /\ Arriving' /\ Deleting'
    BY <1>0, <1>5 DEF Executing, Arriving, Deleting, Late
  <1> QED BY <1>3, <1>6, <1>7, <1>8, <1>9 DEF HttpInv

\* A listing that does not come cuts the plan, or ends it.
LEMMA ListingFailsKeeps ==
    ASSUME HttpInv, NEW d \in Dirs, ListingFails(d)
    PROVE  HttpInv'
  <1>0. fetch \in Recs /\ ph = "plan" /\ d \in fetch.pend
    BY DEF HttpInv, FetchTypeOK, ListingFails, Recs
  <1>1. /\ UNCHANGED <<gen, disk, man, parts, cancel>> /\ faults' \in 0..MaxFaults
        /\ cancel' \in BOOLEAN
    BY FaultCounted DEF ListingFails, mirror, HttpInv, FetchTypeOK
  <1>2. CASE Returns("err")
    BY <1>1, <1>2, ReturnsKeeps DEF Results
  <1>3. CASE /\ d # "root" /\ UNCHANGED <<ph, result>>
             /\ fetch' = [fetch EXCEPT !.pend = @ \ {d}, !.cut = TRUE, !.lost = TRUE]
    <2>1. /\ fetch'.pend = fetch.pend \ {d} /\ fetch'.cut = TRUE
          /\ fetch'.remote = fetch.remote /\ fetch'.todo = fetch.todo
          /\ fetch'.hold = fetch.hold /\ fetch'.fly = fetch.fly
          /\ fetch'.open = fetch.open /\ fetch'.dels = fetch.dels
      BY <1>0, <1>3 DEF Recs
    <2>2. fetch' \in Recs
      BY <1>0, <1>3 DEF Recs
    <2>3. FetchTypeOK'
      BY <1>1, <1>3, <2>1, <2>2 DEF HttpInv, FetchTypeOK, Recs
    <2>4. Published' /\ Listed' /\ Planning'
      BY <1>0, <1>1, <1>3, <2>1 DEF HttpInv, Published, Listed, Planning
    <2>5. Executing' /\ Arriving' /\ Deleting'
      BY <1>0, <1>3 DEF Executing, Arriving, Deleting, Late
    <2> QED BY <2>1, <2>3, <2>4, <2>5 DEF HttpInv
  <1> QED BY <1>2, <1>3 DEF ListingFails

LEMMA CapKeeps == HttpInv /\ EntryCap => HttpInv'
  <1> SUFFICES ASSUME HttpInv, EntryCap PROVE HttpInv'
    OBVIOUS
  <1>0. fetch \in Recs /\ ph = "plan"
    BY DEF HttpInv, FetchTypeOK, EntryCap, Recs
  <1>1. /\ UNCHANGED <<gen, disk, man, parts, cancel, ph, result>> /\ faults' \in 0..MaxFaults
    BY FaultCounted DEF EntryCap, mirror, HttpInv, FetchTypeOK
  <1>2. /\ fetch'.pend = {} /\ fetch'.cut = TRUE
        /\ fetch'.remote = fetch.remote /\ fetch'.todo = fetch.todo
        /\ fetch'.hold = fetch.hold /\ fetch'.fly = fetch.fly
        /\ fetch'.open = fetch.open /\ fetch'.dels = fetch.dels
    BY <1>0 DEF EntryCap, Recs
  <1>3. fetch' \in Recs
    BY <1>0 DEF EntryCap, Recs
  <1>4. FetchTypeOK'
    BY <1>1, <1>2, <1>3 DEF HttpInv, FetchTypeOK, Recs
  <1>5. Published' /\ Listed' /\ Planning'
    BY <1>0, <1>1, <1>2 DEF HttpInv, Published, Listed, Planning
  <1>6. Executing' /\ Arriving' /\ Deleting'
    BY <1>0, <1>1 DEF Executing, Arriving, Deleting, Late
  <1> QED BY <1>2, <1>4, <1>5, <1>6 DEF HttpInv

\* The plan is complete, or it is a failure that deletes nothing.
LEMMA PlanEndsKeeps == HttpInv /\ PlanEnds => HttpInv'
  <1> SUFFICES ASSUME HttpInv, PlanEnds PROVE HttpInv'
    OBVIOUS
  <1>0. fetch \in Recs /\ ph = "plan" /\ fetch.pend = {}
    BY DEF HttpInv, FetchTypeOK, PlanEnds, Recs
  <1>1. UNCHANGED <<gen, disk, man, parts, cancel, faults>>
    BY DEF PlanEnds, mirror
  <1>2. CASE Returns("err")
    BY <1>1, <1>2, ReturnsKeeps DEF Results, HttpInv, FetchTypeOK
  <1>3. CASE ~Returns("err")
    <2>0. /\ ph' = "transfer" /\ result' = result /\ ~cancel
          /\ fetch' = [fetch EXCEPT !.dels = IF Delete /\ ~fetch.cut THEN local_extras ELSE {},
                                    !.failed = fetch.cut]
      BY <1>3 DEF PlanEnds
    <2>1. /\ fetch'.dels = (IF Delete /\ ~fetch.cut THEN local_extras ELSE {})
          /\ fetch'.failed = fetch.cut /\ fetch'.cut = fetch.cut
          /\ fetch'.remote = fetch.remote /\ fetch'.todo = fetch.todo
          /\ fetch'.hold = fetch.hold /\ fetch'.fly = fetch.fly
          /\ fetch'.open = fetch.open
      BY <1>0, <2>0 DEF Recs
    <2>2. local_extras \subseteq {"file", "partial"} \X (Files \cup {Manifest})
      BY DEF HttpInv, FetchTypeOK, local_extras
    <2>3. fetch' \in Recs
      BY <1>0, <2>0, <2>1, <2>2 DEF Recs
    <2>4. FetchTypeOK'
      BY <1>1, <2>0, <2>1, <2>3 DEF HttpInv, FetchTypeOK, Recs
    <2>5. Published' /\ Listed' /\ Planning'
      BY <1>1, <2>0, <2>1 DEF HttpInv, Published, Listed, Planning
    <2>6. ~fetch.cut => fetch.hold # 0
      BY <1>0 DEF HttpInv, Planning
    <2>7. Executing'
      <3>1. \A x \in fetch.remote \cup {Manifest} : ~fetch.cut => <<"file", x>> \notin local_extras
        <4>1. Manifest \notin disk
          BY ManifestIsNoFile DEF HttpInv, FetchTypeOK
        <4> QED BY <2>6, <4>1 DEF local_extras
      <3> QED BY <2>0, <2>1, <2>6, <3>1 DEF Executing
    <2>8. Arriving'
      BY <1>0, <1>1, <2>0, <2>1 DEF HttpInv, Planning, Arriving, Late
    <2>9. Deleting'
      BY <1>1, <2>0, <2>1 DEF Deleting, local_extras
    <2> QED BY <2>1, <2>4, <2>5, <2>7, <2>8, <2>9 DEF HttpInv
  <1> QED BY <1>2, <1>3

LEMMA PlanCancelledKeeps == HttpInv /\ PlanCancelled => HttpInv'
  BY ReturnsKeeps DEF PlanCancelled, HttpInv, FetchTypeOK, Results, mirror

-----------------------------------------------------------------------------
(* Downloads. *)

\* A file is taken from the list while a slot is free.
LEMMA SpawnKeeps ==
    ASSUME HttpInv, NEW f \in Files, DownloadSpawn(f)
    PROVE  HttpInv'
  <1>0. /\ fetch \in Recs /\ ph = "transfer" /\ f \in fetch.todo
        /\ Cardinality(fetch.fly) < Threads /\ IsFiniteSet(fetch.fly)
    BY DEF HttpInv, FetchTypeOK, DownloadSpawn, Recs
  <1>1. UNCHANGED <<gen, disk, man, parts, ph, cancel, result, faults>>
    BY DEF DownloadSpawn, mirror
  <1>2. /\ fetch'.todo = fetch.todo \ {f} /\ fetch'.fly = fetch.fly \cup {f}
        /\ fetch'.remote = fetch.remote /\ fetch'.open = fetch.open
        /\ fetch'.dels = fetch.dels /\ fetch'.hold = fetch.hold
        /\ fetch'.failed = fetch.failed /\ fetch'.warned = fetch.warned
        /\ fetch'.cut = fetch.cut
    BY <1>0 DEF DownloadSpawn, Recs
  <1>3. fetch' \in Recs
    BY <1>0 DEF DownloadSpawn, Recs
  <1>4. IsFiniteSet(fetch'.fly) /\ Cardinality(fetch'.fly) <= Threads
    <2>1. PICK F : F = fetch.fly
      OBVIOUS
    <2>2. /\ IsFiniteSet(F \cup {f})
          /\ Cardinality(F \cup {f}) = (IF f \in F THEN Cardinality(F) ELSE Cardinality(F) + 1)
      BY <1>0, <2>1, FS_AddElement
    <2>3. Cardinality(F) \in Nat
      BY <1>0, <2>1, FS_CardinalityType
    <2> QED BY <1>0, <1>2, <2>1, <2>2, <2>3, FetchAssumption
  <1>5. FetchTypeOK'
    BY <1>1, <1>3, <1>4 DEF HttpInv, FetchTypeOK, Recs
  <1>6. Published' /\ Listed' /\ Planning' /\ Executing'
    BY <1>0, <1>1, <1>2 DEF HttpInv, Published, Listed, Planning, Executing
  <1>7. Arriving' /\ Deleting'
    BY <1>0, <1>1, <1>2 DEF HttpInv, Arriving, Deleting, Late
  <1> QED BY <1>4, <1>5, <1>6, <1>7 DEF HttpInv

\* A download ends, whatever came of it.
LEMMA FewerFly ==
    ASSUME HttpInv, NEW f, fetch'.fly = fetch.fly \ {f}
    PROVE  IsFiniteSet(fetch'.fly) /\ Cardinality(fetch'.fly) <= Threads
  <1>1. IsFiniteSet(fetch.fly) /\ Cardinality(fetch.fly) <= Threads
    BY DEF HttpInv, FetchTypeOK
  <1>2. PICK F : F = fetch.fly
    OBVIOUS
  <1>3. /\ IsFiniteSet(F \ {f})
        /\ Cardinality(F \ {f}) = (IF f \in F THEN Cardinality(F) - 1 ELSE Cardinality(F))
    BY <1>1, <1>2, FS_RemoveElement
  <1>4. Cardinality(F) \in Nat
    BY <1>1, <1>2, FS_CardinalityType
  <1> QED BY <1>1, <1>2, <1>3, <1>4, FetchAssumption

LEMMA OpensKeeps ==
    ASSUME HttpInv, NEW f \in Files, DownloadOpens(f)
    PROVE  HttpInv'
  <1>0. fetch \in Recs /\ ph = "transfer" /\ f \in fetch.fly
    BY DEF HttpInv, FetchTypeOK, DownloadOpens, InFlight, Recs
  <1>1. /\ UNCHANGED <<gen, disk, man, ph, cancel, result, faults>>
        /\ parts' = parts \cup {f}
    BY DEF DownloadOpens
  <1>2. /\ fetch'.open = fetch.open \cup {f}
        /\ fetch'.todo = fetch.todo /\ fetch'.fly = fetch.fly
        /\ fetch'.remote = fetch.remote
        /\ fetch'.dels = fetch.dels /\ fetch'.hold = fetch.hold
        /\ fetch'.failed = fetch.failed /\ fetch'.warned = fetch.warned
        /\ fetch'.cut = fetch.cut
    BY <1>0 DEF DownloadOpens, Recs
  <1>3. fetch' \in Recs
    BY <1>0 DEF DownloadOpens, Recs
  <1>4. FetchTypeOK'
    BY <1>1, <1>2, <1>3 DEF HttpInv, FetchTypeOK, Recs
  <1>5. Published' /\ Listed' /\ Planning' /\ Executing'
    BY <1>0, <1>1, <1>2 DEF HttpInv, Published, Listed, Planning, Executing
  <1>6. Arriving' /\ Deleting'
    BY <1>0, <1>1, <1>2 DEF HttpInv, Arriving, Deleting, Late
  <1> QED BY <1>2, <1>4, <1>5, <1>6 DEF HttpInv

\* A file that is gone upstream is a failure or a warning, and both end the
\* fetch after the transfers.
LEMMA MissingKeeps ==
    ASSUME HttpInv, NEW f \in Files, DownloadMissing(f)
    PROVE  HttpInv'
  <1>0. fetch \in Recs /\ ph = "transfer" /\ f \in fetch.fly /\ f \notin fetch.open
    BY DEF HttpInv, FetchTypeOK, DownloadMissing, InFlight, Recs
  <1>1. UNCHANGED <<gen, disk, man, parts, ph, cancel, result, faults>>
    BY DEF DownloadMissing, mirror
  <1>2. /\ fetch'.fly = fetch.fly \ {f} /\ fetch'.open = fetch.open
        /\ fetch'.todo = fetch.todo /\ fetch'.remote = fetch.remote
        /\ fetch'.dels = fetch.dels /\ fetch'.hold = fetch.hold
        /\ fetch'.cut = fetch.cut
    BY <1>0 DEF DownloadMissing, Recs
  <1>3. /\ fetch'.failed \/ fetch'.warned
        /\ fetch.failed => fetch'.failed
    BY <1>0 DEF DownloadMissing, Recs
  <1>4. fetch' \in Recs
    BY <1>0 DEF DownloadMissing, Recs
  <1>5. IsFiniteSet(fetch'.fly) /\ Cardinality(fetch'.fly) <= Threads
    BY <1>2, FewerFly
  <1>6. FetchTypeOK'
    BY <1>1, <1>4, <1>5 DEF HttpInv, FetchTypeOK, Recs
  <1>7. Published' /\ Listed' /\ Planning' /\ Executing'
    BY <1>0, <1>1, <1>2, <1>3 DEF HttpInv, Published, Listed, Planning, Executing
  <1>8. Arriving' /\ Deleting'
    BY <1>0, <1>1, <1>2, <1>3 DEF HttpInv, Arriving, Deleting, Late
  <1> QED BY <1>5, <1>6, <1>7, <1>8 DEF HttpInv

\* The partial file of a download that ends is the task's own: what is left
\* behind is to be deleted.
LEMMA CleanedParts ==
    ASSUME HttpInv, NEW f \in Files, Cleaned(f)
    PROVE  /\ parts' \subseteq parts
           /\ f \in fetch.open => f \notin parts'
  BY DEF Cleaned

LEMMA FailsKeeps ==
    ASSUME HttpInv, NEW f \in Files, DownloadFails(f)
    PROVE  HttpInv'
  <1>0. fetch \in Recs /\ ph = "transfer" /\ f \in fetch.fly
    BY DEF HttpInv, FetchTypeOK, DownloadFails, InFlight, Recs
  <1>1. /\ UNCHANGED <<gen, disk, man, ph, cancel, result>> /\ faults' \in 0..MaxFaults
        /\ parts' \subseteq parts
    BY FaultCounted, CleanedParts DEF HttpInv, FetchTypeOK, DownloadFails
  <1>2. /\ fetch'.fly = fetch.fly \ {f} /\ fetch'.open = fetch.open \ {f}
        /\ fetch'.todo = fetch.todo /\ fetch'.remote = fetch.remote
        /\ fetch'.dels = fetch.dels /\ fetch'.hold = fetch.hold
        /\ fetch'.cut = fetch.cut /\ fetch'.failed
    BY <1>0 DEF DownloadFails, Recs
  <1>3. fetch' \in Recs
    BY <1>0 DEF DownloadFails, Recs
  <1>4. IsFiniteSet(fetch'.fly) /\ Cardinality(fetch'.fly) <= Threads
    BY <1>2, FewerFly
  <1>5. FetchTypeOK'
    BY <1>1, <1>3, <1>4 DEF HttpInv, FetchTypeOK, Recs
  <1>6. Published' /\ Listed' /\ Planning' /\ Executing'
    BY <1>0, <1>1, <1>2 DEF HttpInv, Published, Listed, Planning, Executing
  <1>7. Arriving' /\ Deleting'
    BY <1>0, <1>1, <1>2 DEF HttpInv, Arriving, Deleting, Late
  <1> QED BY <1>4, <1>5, <1>6, <1>7 DEF HttpInv

\* A download that lands or is cancelled leaves the list of the tasks.
LEMMA LandedFields ==
    ASSUME HttpInv, NEW f \in Files, InFlight(f), Landed(f)
    PROVE  /\ fetch'.fly = fetch.fly \ {f} /\ fetch'.open = fetch.open \ {f}
           /\ fetch'.todo = fetch.todo /\ fetch'.remote = fetch.remote
           /\ fetch'.dels = fetch.dels /\ fetch'.hold = fetch.hold
           /\ fetch'.cut = fetch.cut /\ fetch'.failed = fetch.failed
           /\ fetch'.warned = fetch.warned
           /\ fetch' \in Recs
  <1>0. fetch \in Recs
    BY DEF HttpInv, FetchTypeOK, Recs
  <1> QED BY <1>0 DEF Landed, Recs

LEMMA RenameKeeps ==
    ASSUME HttpInv, NEW f \in Files, DownloadRename(f)
    PROVE  HttpInv'
  <1>0. ph = "transfer" /\ f \in fetch.fly /\ f \in fetch.open /\ InFlight(f) /\ Landed(f)
    BY DEF DownloadRename, InFlight
  <1>1. /\ UNCHANGED <<gen, man, ph, cancel, result, faults>>
        /\ disk' = disk \cup {f} /\ parts' = parts \ {f}
    BY DEF DownloadRename
  <1>2. /\ fetch'.fly = fetch.fly \ {f} /\ fetch'.open = fetch.open \ {f}
        /\ fetch'.todo = fetch.todo /\ fetch'.remote = fetch.remote
        /\ fetch'.dels = fetch.dels /\ fetch'.hold = fetch.hold
        /\ fetch'.cut = fetch.cut /\ fetch'.failed = fetch.failed
        /\ fetch'.warned = fetch.warned
        /\ fetch' \in Recs
    BY <1>0, LandedFields
  <1>3. IsFiniteSet(fetch'.fly) /\ Cardinality(fetch'.fly) <= Threads
    BY <1>2, FewerFly
  <1>4. FetchTypeOK'
    BY <1>1, <1>2, <1>3 DEF HttpInv, FetchTypeOK, Recs
  <1>5. Published' /\ Listed' /\ Planning' /\ Executing'
    BY <1>0, <1>1, <1>2 DEF HttpInv, Published, Listed, Planning, Executing
  <1>6. Arriving' /\ Deleting'
    <2>1. f \in fetch.remote
      BY <1>0 DEF HttpInv, Listed
    <2> QED BY <1>0, <1>1, <1>2, <2>1 DEF HttpInv, Arriving, Deleting, Late
  <1> QED BY <1>3, <1>4, <1>5, <1>6 DEF HttpInv

LEMMA DownloadCancelledKeeps ==
    ASSUME HttpInv, NEW f \in Files, DownloadCancelled(f)
    PROVE  HttpInv'
  <1>0. ph = "transfer" /\ f \in fetch.fly /\ InFlight(f) /\ Landed(f) /\ cancel
    BY DEF DownloadCancelled, InFlight
  <1>1. /\ UNCHANGED <<gen, disk, man, ph, cancel, result, faults>>
        /\ parts' \subseteq parts /\ (f \in fetch.open => f \notin parts')
    BY CleanedParts DEF DownloadCancelled
  <1>2. /\ fetch'.fly = fetch.fly \ {f} /\ fetch'.open = fetch.open \ {f}
        /\ fetch'.todo = fetch.todo /\ fetch'.remote = fetch.remote
        /\ fetch'.dels = fetch.dels /\ fetch'.hold = fetch.hold
        /\ fetch'.cut = fetch.cut /\ fetch'.failed = fetch.failed
        /\ fetch'.warned = fetch.warned
        /\ fetch' \in Recs
    BY <1>0, LandedFields
  <1>3. IsFiniteSet(fetch'.fly) /\ Cardinality(fetch'.fly) <= Threads
    BY <1>2, FewerFly
  <1>4. FetchTypeOK'
    BY <1>1, <1>2, <1>3 DEF HttpInv, FetchTypeOK, Recs
  <1>5. Published' /\ Listed' /\ Planning' /\ Executing'
    BY <1>0, <1>1, <1>2 DEF HttpInv, Published, Listed, Planning, Executing
  <1>6. Arriving' /\ Deleting'
    BY <1>0, <1>1, <1>2 DEF HttpInv, Arriving, Deleting, Late
  <1> QED BY <1>3, <1>4, <1>5, <1>6 DEF HttpInv

-----------------------------------------------------------------------------
(* After the transfers. *)

\* Only a fetch without failures and warnings goes on: every listed file is
\* in place then.
LEMMA TransferKeeps == HttpInv /\ TransferEnds => HttpInv'
  <1> SUFFICES ASSUME HttpInv, TransferEnds PROVE HttpInv'
    OBVIOUS
  <1>0. fetch \in Recs /\ ph = "transfer" /\ fetch.fly = {}
    BY DEF HttpInv, FetchTypeOK, TransferEnds, Recs
  <1>1. UNCHANGED <<gen, disk, man, parts, cancel, faults>>
    BY DEF TransferEnds, mirror
  <1>2. ASSUME NEW r \in Results, Returns(r) PROVE HttpInv'
    BY <1>1, <1>2, ReturnsKeeps DEF HttpInv, FetchTypeOK
  <1>3. Verdict \in Results
    BY DEF Verdict, Results
  <1>4. CASE /\ ~cancel /\ fetch.todo = {} /\ allow_deletes
             /\ ph' = (IF fetch.hold = 0 THEN "delete" ELSE "publish")
             /\ UNCHANGED <<fetch, result>>
    <2>1. ~fetch.failed /\ ~fetch.warned
      BY <1>4 DEF allow_deletes
    <2>2. ~fetch.cut /\ fetch.hold # 0
      BY <1>0, <2>1 DEF HttpInv, Executing
    <2>3. fetch.remote \subseteq disk
      BY <1>0, <1>4, <2>1 DEF HttpInv, Arriving
    <2>4. ph' = "publish" /\ UNCHANGED <<fetch, result>>
      BY <1>4, <2>2
    <2>5. FetchTypeOK'
      BY <1>1, <2>4 DEF HttpInv, FetchTypeOK
    <2>6. Published' /\ Listed' /\ Planning' /\ Executing'
      BY <1>0, <1>1, <2>4 DEF HttpInv, Published, Listed, Planning, Executing, Late
    <2>7. Arriving' /\ Deleting'
      BY <1>0, <1>1, <2>2, <2>3, <2>4 DEF HttpInv, Arriving, Deleting, Late
    <2> QED BY <2>4, <2>5, <2>6, <2>7 DEF HttpInv
  <1>5. "cancelled" \in Results
    BY DEF Results
  <1> QED BY <1>2, <1>3, <1>4, <1>5 DEF TransferEnds

LEMMA WriteKeeps == HttpInv /\ PublishWrite => HttpInv'
  <1> SUFFICES ASSUME HttpInv, PublishWrite PROVE HttpInv'
    OBVIOUS
  <1>0. ph = "publish"
    BY DEF PublishWrite
  <1>1. UNCHANGED <<gen, disk, man, cancel, faults>>
    BY DEF PublishWrite
  <1>2. CASE Returns("cancelled") /\ UNCHANGED parts
    BY <1>1, <1>2, ReturnsKeeps DEF HttpInv, FetchTypeOK, Results
  <1>3. CASE /\ ph' = "rename" /\ parts' = parts \cup {Manifest}
             /\ UNCHANGED <<fetch, result>>
    <2>1. FetchTypeOK'
      BY <1>1, <1>3 DEF HttpInv, FetchTypeOK
    <2>2. Published' /\ Listed' /\ Planning' /\ Executing'
      BY <1>0, <1>1, <1>3 DEF HttpInv, Published, Listed, Planning, Executing, Late
    <2>3. Arriving' /\ Deleting'
      BY <1>0, <1>1, <1>3 DEF HttpInv, Arriving, Deleting, Late
    <2> QED BY <1>3, <2>1, <2>2, <2>3 DEF HttpInv
  <1> QED BY <1>2, <1>3 DEF PublishWrite

\* The manifest of the planned generation goes in place after its metadata.
LEMMA PublishKeeps == HttpInv /\ PublishRename => HttpInv'
  <1> SUFFICES ASSUME HttpInv, PublishRename PROVE HttpInv'
    OBVIOUS
  <1>0. /\ ph = "rename" /\ ph' = "delete" /\ man' = fetch.hold /\ parts' = parts \ {Manifest}
        /\ UNCHANGED <<gen, disk, fetch, cancel, result, faults>>
    BY DEF PublishRename
  <1>1. FetchTypeOK'
    BY <1>0 DEF HttpInv, FetchTypeOK
  <1>2. Published'
    BY <1>0 DEF HttpInv, Published, Listed, Arriving, Late
  <1>3. Listed' /\ Planning' /\ Executing'
    BY <1>0 DEF HttpInv, Listed, Planning, Executing, Late
  <1>4. Arriving' /\ Deleting'
    BY <1>0 DEF HttpInv, Arriving, Deleting, Late
  <1> QED BY <1>0, <1>1, <1>2, <1>3, <1>4 DEF HttpInv

LEMMA PublishFailsKeeps == HttpInv /\ PublishFails => HttpInv'
  BY FaultCounted, ReturnsKeeps DEF PublishFails, HttpInv, FetchTypeOK, Results, mirror

\* What a deletion removes was not listed.
LEMMA DeleteRemoves ==
    ASSUME HttpInv, NEW e \in fetch.dels, ph = "delete"
    PROVE  /\ e # <<"file", Manifest>>
           /\ e[1] = "file" => e[2] \notin fetch.remote /\ e[2] \in Files
           /\ e[1] \in {"file", "partial"} /\ e = <<e[1], e[2]>>
  <1>1. e \in {"file", "partial"} \X (Files \cup {Manifest})
    BY DEF HttpInv, FetchTypeOK
  <1>2. e = <<e[1], e[2]>> /\ e[1] \in {"file", "partial"} /\ e[2] \in Files \cup {Manifest}
    BY <1>1
  <1>3. \A x \in fetch.remote \cup {Manifest} : <<"file", x>> \notin fetch.dels
    BY DEF HttpInv, Executing, Late
  <1> QED BY <1>2, <1>3

LEMMA DeleteKeeps ==
    ASSUME HttpInv, NEW e \in fetch.dels, DeleteOne(e)
    PROVE  HttpInv'
  <1>0. fetch \in Recs /\ ph = "delete" /\ UNCHANGED <<gen, cancel>>
    BY DEF HttpInv, FetchTypeOK, DeleteOne, Recs
  <1>1. CASE Returns("cancelled") /\ UNCHANGED <<mirror, faults>>
    BY <1>0, <1>1, ReturnsKeeps DEF HttpInv, FetchTypeOK, Results, mirror
  <1>2. CASE /\ UNCHANGED <<mirror, ph, result>> /\ (Fault \/ UNCHANGED faults)
             /\ fetch' = [fetch EXCEPT !.dels = @ \ {e}, !.failed = TRUE]
    <2>1. /\ fetch'.dels = fetch.dels \ {e} /\ fetch'.failed
          /\ fetch'.todo = fetch.todo /\ fetch'.remote = fetch.remote
          /\ fetch'.fly = fetch.fly /\ fetch'.open = fetch.open
          /\ fetch'.hold = fetch.hold /\ fetch'.cut = fetch.cut
      BY <1>0, <1>2 DEF Recs
    <2>2. fetch' \in Recs
      BY <1>0, <1>2 DEF Recs
    <2>3. faults' \in 0..MaxFaults /\ UNCHANGED <<disk, man, parts>>
      BY <1>2, FaultCounted DEF HttpInv, FetchTypeOK, mirror
    <2>4. FetchTypeOK'
      BY <1>0, <1>2, <2>1, <2>2, <2>3 DEF HttpInv, FetchTypeOK, Recs
    <2>5. Published' /\ Listed' /\ Planning' /\ Executing'
      BY <1>0, <1>2, <2>1, <2>3 DEF HttpInv, Published, Listed, Planning, Executing
    <2>6. Arriving' /\ Deleting'
      BY <1>0, <1>2, <2>1, <2>3 DEF HttpInv, Arriving, Deleting, Late
    <2> QED BY <2>1, <2>4, <2>5, <2>6 DEF HttpInv
  <1>3. CASE /\ UNCHANGED <<faults, ph, result>>
             /\ disk' = IF e[1] = "file" THEN disk \ {e[2]} ELSE disk
             /\ parts' = IF e[1] = "partial" THEN parts \ {e[2]} ELSE parts
             /\ man' = IF e = <<"file", Manifest>> THEN 0 ELSE man
             /\ fetch' = [fetch EXCEPT !.dels = @ \ {e}]
    <2>1. /\ fetch'.dels = fetch.dels \ {e} /\ fetch'.failed = fetch.failed
          /\ fetch'.todo = fetch.todo /\ fetch'.remote = fetch.remote
          /\ fetch'.fly = fetch.fly /\ fetch'.open = fetch.open
          /\ fetch'.hold = fetch.hold /\ fetch'.cut = fetch.cut
      BY <1>0, <1>3 DEF Recs
    <2>2. fetch' \in Recs
      BY <1>0, <1>3 DEF Recs
    <2>3. /\ e # <<"file", Manifest>> /\ man' = man
          /\ e[1] = "file" => e[2] \notin fetch.remote
          /\ e[1] \in {"file", "partial"} /\ e = <<e[1], e[2]>>
      BY <1>0, <1>3, DeleteRemoves
    <2>4. FetchTypeOK'
      BY <1>0, <1>3, <2>1, <2>2, <2>3 DEF HttpInv, FetchTypeOK, Recs
    <2>5. fetch.remote \subseteq disk'
      BY <1>0, <1>3, <2>3 DEF HttpInv, Arriving, Late
    <2>6. Published'
      BY <1>0, <2>3, <2>5 DEF HttpInv, Published, Listed, Arriving
    <2>7. Listed' /\ Planning' /\ Executing'
      BY <1>0, <1>3, <2>1 DEF HttpInv, Listed, Planning, Executing
    <2>8. Arriving'
      BY <1>0, <1>3, <2>1, <2>3, <2>5 DEF HttpInv, Arriving, Late
    <2>9. Deleting'
      <3> SUFFICES ASSUME Delete, ~fetch.cut, ~fetch.failed
                   PROVE  /\ \A x \in disk' \ fetch.remote : <<"file", x>> \in fetch.dels \ {e}
                          /\ \A x \in parts' : \/ <<"partial", x>> \in fetch.dels \ {e}
                                               \/ x \in fetch.open
        BY <1>0, <1>3, <2>1 DEF Deleting
      <3>1. /\ \A x \in disk \ fetch.remote : <<"file", x>> \in fetch.dels
            /\ \A x \in parts : <<"partial", x>> \in fetch.dels \/ x \in fetch.open
        BY <1>0 DEF HttpInv, Deleting, Late
      <3>2. CASE e[1] = "file"
        BY <1>3, <2>3, <3>1, <3>2
      <3>3. CASE e[1] = "partial"
        BY <1>3, <2>3, <3>1, <3>3
      <3> QED BY <2>3, <3>2, <3>3
    <2> QED BY <2>1, <2>4, <2>6, <2>7, <2>8, <2>9 DEF HttpInv
  <1> QED BY <1>1, <1>2, <1>3 DEF DeleteOne

LEMMA ExecuteEndsKeeps == HttpInv /\ ExecuteEnds => HttpInv'
  <1>1. Verdict \in Results
    BY DEF Verdict, Results
  <1> QED BY <1>1, ReturnsKeeps DEF ExecuteEnds, HttpInv, FetchTypeOK, mirror

\* Every step of a fetch keeps its invariant.
LEMMA FetchKeeps == HttpInv /\ FetchNext => HttpInv'
  <1> SUFFICES ASSUME HttpInv, FetchNext PROVE HttpInv'
    OBVIOUS
  <1>1. CASE FetchBegin \/ UpstreamMoves
    BY <1>1, BeginKeeps, MovesKeeps
  <1>2. CASE FetchFaults
    BY <1>2, ListingFailsKeeps, FailsKeeps, CapKeeps, PublishFailsKeeps, CancelKeeps, DroppedKeeps
    DEF FetchFaults
  <1>3. CASE FetchProgress
    BY <1>3, ArrivesKeeps, PlanEndsKeeps, PlanCancelledKeeps, SpawnKeeps, OpensKeeps, MissingKeeps,
       RenameKeeps, DownloadCancelledKeeps, TransferKeeps, WriteKeeps, PublishKeeps, DeleteKeeps,
       ExecuteEndsKeeps
    DEF FetchProgress, Download
  <1> QED BY <1>1, <1>2, <1>3 DEF FetchNext

-----------------------------------------------------------------------------
(* The steps of the processes. *)

ProcState == kind # "http" /\ ProvTypeOK /\ ProcInv

Repos == [st : {"none", "bad", "good"}, has : SUBSET Gens]

\* Where an attempt goes without starting anything.
Ahead == \/ ph' = ph
         \/ ph' \in {"idle", "stop"} /\ ph # "idle"
         \/ ph = "prep" /\ ph' = "spawn"

\* The leader exits: descendants may stay, and git's tidying up comes next.
LeaderGone ==
    \/ /\ Running /\ ph' = "idle"
       /\ live' \subseteq live \cup {<<n, "rest">>}
    \/ /\ ph = "run" /\ ph' = "after" /\ kind = "git"
       /\ live' \subseteq {<<n, "rest">>, <<n, "tidy">>}

Onward == (live' \subseteq live /\ Ahead) \/ LeaderGone

\* When processes only end, the rest still belong to the attempt.
LEMMA FewerLive ==
    ASSUME OwnLive, kind' = kind, n' = n, live' \subseteq live, Ahead
    PROVE  OwnLive' /\ (Stage2Lives' => Stage2Lives)
  <1>1. Groups' \subseteq Groups /\ Boxes' \subseteq Boxes
    BY DEF Groups, Boxes
  <1>2. Stage2Lives' => Stage2Lives
    BY <1>1 DEF Stage2Lives
  <1>3. /\ ph' # "idle" => n' # 0
        /\ \A x \in Groups' : x[1] = n'
        /\ \A x, y \in Boxes' : x = y
        /\ kind' # "docker" => Boxes' = {}
    BY <1>1 DEF OwnLive, Ahead
  <1>4. /\ ph' \in {"prep", "spawn"} => Groups' = {}
        /\ ph' = "stage1" => live' \subseteq {<<n', "stage1">>, <<n', "rest">>}
        /\ ph' = "run" => live' \subseteq {<<n', "group">>, <<n', "rest">>, <<n', "box">>}
        /\ ph' = "after" => live' \subseteq {<<n', "rest">>, <<n', "tidy">>}
    BY <1>1, <1>2 DEF OwnLive, Ahead
  <1> QED BY <1>2, <1>3, <1>4 DEF OwnLive

\* When the leader exits, what stays or comes next belongs to the attempt.
LEMMA LeaderLeaves ==
    ASSUME OwnLive, kind' = kind, n' = n, LeaderGone
    PROVE  OwnLive' /\ (Stage2Lives' => Stage2Lives)
  <1>1. n' # 0 /\ \A x \in live : x[1] = n
    BY DEF OwnLive, LeaderGone, Running
  <1>2. live' \subseteq live \cup {<<n, "rest">>, <<n, "tidy">>}
    BY DEF LeaderGone
  <1>3. Boxes' \subseteq Boxes /\ \A x \in live' : x[1] = n'
    BY <1>1, <1>2 DEF Groups, Boxes
  <1>4. Stage2Lives' => Stage2Lives
    BY <1>2 DEF Stage2Lives, Groups
  <1>5. Groups' \subseteq live'
    BY DEF Groups
  <1>6. /\ \A x, y \in Boxes' : x = y
        /\ kind' # "docker" => Boxes' = {}
    BY <1>3 DEF OwnLive
  <1>7. /\ ph' \in {"idle", "after"}
        /\ ph' = "after" => live' \subseteq {<<n', "rest">>, <<n', "tidy">>}
    BY DEF LeaderGone
  <1> QED BY <1>1, <1>3, <1>4, <1>5, <1>6, <1>7 DEF OwnLive

\* An attempt has a number from its first step on.
LEMMA Numbered ==
    ASSUME ProcState, ph # "idle"
    PROVE  n \in Attempts
  <1>1. n \in 0..MaxAttempts /\ n # 0
    BY DEF ProcState, ProvTypeOK, ProcInv, OwnLive
  <1> QED BY <1>1, ProviderAssumption DEF Attempts

\* A step that starts nothing and leaves the tree alone.  A two-stage mirror
\* that was torn is whole again only when it has what the list says.
LEMMA QuietStep ==
    ASSUME ProcState, Onward,
           UNCHANGED <<gen, disk, man, parts, fetch, kind, n, list>>,
           torn' \in BOOLEAN,
           (torn /\ ~torn' /\ kind = "two_stage") => man = list /\ disk = Served(list),
           repo' \in Repos, NoRepo', stash' \subseteq Gens
    PROVE  ProcState'
  <1>1. OwnLive' /\ (Stage2Lives' => Stage2Lives)
    BY FewerLive, LeaderLeaves DEF ProcState, ProcInv, Onward
  <1>2. ProvTypeOK'
    <2>1. live' \subseteq Attempts \X {"stage1", "group", "rest", "tidy", "box"}
      <3>1. CASE live' \subseteq live
        BY <3>1 DEF ProcState, ProvTypeOK
      <3>2. CASE LeaderGone
        <4>1. n \in Attempts
          BY <3>2, Numbered DEF LeaderGone, Running
        <4>2. live' \subseteq live \cup {<<n, "rest">>, <<n, "tidy">>}
          BY <3>2 DEF LeaderGone
        <4> QED BY <4>1, <4>2 DEF ProcState, ProvTypeOK
      <3> QED BY <3>1, <3>2 DEF Onward
    <2>2. ph' \in {"idle", "prep", "spawn", "stage1", "run", "after", "stop"}
      BY DEF ProcState, ProvTypeOK, Onward, Ahead, LeaderGone
    <2> QED BY <2>1, <2>2 DEF ProcState, ProvTypeOK, Repos
  <1>3. SecondStage'
    <2>1. CASE torn /\ ~torn'
      BY <1>1, <2>1 DEF SecondStage, Stage2Lives
    <2>2. CASE torn' \/ ~torn
      BY <1>1, <2>2 DEF ProcState, ProcInv, SecondStage
    <2> QED BY <2>1, <2>2
  <1>4. (kind' = "two_stage" /\ man' # 0 /\ ~torn') => Served(man') \subseteq disk'
    BY DEF ProcState, ProcInv
  <1> QED BY <1>1, <1>2, <1>3, <1>4 DEF ProcState, ProcInv

\* Nothing of the job changes but where it is.
LEMMA IdleStep ==
    ASSUME ProcState, Onward,
           UNCHANGED <<gen, disk, man, parts, fetch, kind, n, list, torn, repo, stash>>
    PROVE  ProcState'
  <1>1. torn' \in BOOLEAN /\ repo' \in Repos /\ NoRepo' /\ stash' \subseteq Gens
    BY DEF ProcState, ProvTypeOK, ProcInv, NoRepo, Repos
  <1> QED BY <1>1, QuietStep

\* What a git command leaves has what the repository had.
LEMMA GitLeavesMore ==
    ASSUME ProcState, NEW r \in GitLeaves
    PROVE  /\ r \in Repos /\ repo.has \subseteq r.has
           /\ r.st = "none" => r.has = {}
  <1>1. repo \in Repos /\ gen \in Gens /\ (repo.st = "none" => repo.has = {})
    BY DEF ProcState, ProvTypeOK, ProcInv, NoRepo, Repos
  <1>2. CASE r = repo
    BY <1>1, <1>2
  <1>3. CASE /\ repo.st = "none"
             /\ r \in {[st |-> "bad", has |-> {}], [st |-> "good", has |-> {gen}]}
    <2>1. {} \in SUBSET Gens /\ {gen} \in SUBSET Gens
      BY <1>1
    <2> QED BY <1>1, <1>3, <2>1 DEF Repos
  <1>4. CASE repo.st # "none" /\ r = [repo EXCEPT !.has = @ \cup {gen}]
    <2>1. r.st = repo.st /\ r.has = repo.has \cup {gen} /\ r \in Repos
      BY <1>1, <1>4 DEF Repos
    <2> QED BY <1>4, <2>1
  <1> QED BY <1>2, <1>3, <1>4 DEF GitLeaves

\* A step that starts nothing, leaves the tree alone and may end a git command.
LEMMA GitStep ==
    ASSUME ProcState, Onward, repo' \in GitLeaves,
           UNCHANGED <<gen, disk, man, parts, fetch, kind, n, list, torn, stash>>
    PROVE  ProcState'
  <1>1. repo' \in Repos /\ NoRepo'
    BY GitLeavesMore DEF NoRepo
  <1>2. torn' \in BOOLEAN /\ stash' \subseteq Gens
    BY DEF ProcState, ProvTypeOK
  <1> QED BY <1>1, <1>2, QuietStep

LEMMA AttemptBegins == ProcState /\ Begin => ProcState'
  <1> SUFFICES ASSUME ProcState, Begin PROVE ProcState'
    OBVIOUS
  <1>1. /\ n' = n + 1 /\ n' \in 0..MaxAttempts /\ n' # 0 /\ ph' = "prep" /\ Groups = {}
        /\ UNCHANGED <<gen, disk, man, parts, fetch, kind, live, list, torn, repo, stash>>
    BY ProviderAssumption DEF Begin, mirror, ProcState, ProvTypeOK
  <1>2. Groups' = {} /\ Boxes' = Boxes
    BY <1>1 DEF Groups, Boxes
  <1>3. ProvTypeOK'
    BY <1>1 DEF ProcState, ProvTypeOK
  <1>4. ~Stage2Lives'
    BY <1>2 DEF Stage2Lives
  <1>5. OwnLive'
    BY <1>1, <1>2, <1>4 DEF ProcState, ProcInv, OwnLive
  <1>6. NoRepo' /\ SecondStage'
    BY <1>1, <1>4 DEF ProcState, ProcInv, NoRepo, SecondStage
  <1> QED BY <1>1, <1>3, <1>5, <1>6 DEF ProcState, ProcInv

\* Preparation: nothing is started, and an unusable repository is moved away.
LEMMA PreparesKeep ==
    ASSUME ProcState,
           \/ PrepareRsync \/ PrepareStages \/ PrepareScript
           \/ validate_docker_options \/ RemoveLeftover \/ SpawnConflict \/ SpawnFails
    PROVE  ProcState'
  <1>1. CASE ph \in {"prep", "spawn"} /\ Misconfigured
    BY <1>1, IdleStep DEF Misconfigured, Ends, mirror, procVars, Onward, Ahead
  <1>2. CASE ph = "prep" /\ Prepared
    BY <1>2, IdleStep DEF Prepared, GoesTo, mirror, procVars, Onward, Ahead
  <1>3. CASE RemoveLeftover
    <2>1. live' \subseteq live
      BY <1>3 DEF RemoveLeftover
    <2> QED BY <1>3, <2>1, IdleStep DEF RemoveLeftover, GoesTo, mirror, Onward, Ahead
  <1>4. CASE SpawnConflict
    BY <1>4, IdleStep DEF SpawnConflict, Ends, mirror, procVars, Onward, Ahead
  <1> QED BY <1>1, <1>2, <1>3, <1>4
          DEF PrepareRsync, PrepareStages, PrepareScript, validate_docker_options, SpawnFails

LEMMA RepoPrepared == ProcState /\ PrepareRepo => ProcState'
  <1> SUFFICES ASSUME ProcState, PrepareRepo PROVE ProcState'
    OBVIOUS
  <1>0. /\ repo \in Repos /\ stash \subseteq Gens /\ torn \in BOOLEAN /\ NoRepo
    BY DEF ProcState, ProvTypeOK, ProcInv, Repos
  <1>1. /\ Onward /\ torn' = torn
        /\ UNCHANGED <<gen, disk, man, parts, fetch, kind, n, list>>
    BY DEF PrepareRepo, GoesTo, Ends, Onward, Ahead, mirror
  <1>2. repo' \in Repos /\ NoRepo' /\ stash' \subseteq Gens
    <2>1. CASE UNCHANGED <<repo, stash>>
      BY <1>0, <2>1 DEF NoRepo
    <2>2. CASE repo' = [repo EXCEPT !.st = "good"] /\ UNCHANGED stash
      BY <1>0, <2>2 DEF NoRepo, Repos
    <2>3. CASE Quarantined
      <3>1. {} \in SUBSET Gens
        OBVIOUS
      <3>2. repo' = [st |-> "none", has |-> {}] /\ stash' = stash \cup repo.has
        BY <2>3 DEF Quarantined
      <3>3. repo' \in Repos /\ repo'.has = {}
        BY <3>1, <3>2 DEF Repos
      <3>4. repo.has \subseteq Gens
        BY <1>0 DEF Repos
      <3> QED BY <1>0, <3>2, <3>3, <3>4 DEF NoRepo
    <2> QED BY <2>1, <2>2, <2>3 DEF PrepareRepo
  <1> QED BY <1>0, <1>1, <1>2, QuietStep

\* A process is started only where nothing of the job runs.
LEMMA NothingLives ==
    ASSUME ProcState, ph = "spawn", kind = "docker" => NameFree
    PROVE  live = {}
  <1>1. Groups = {} /\ Boxes = {}
    BY DEF ProcState, ProcInv, OwnLive, NameFree
  <1> QED BY <1>1 DEF Boxes

LEMMA SpawnKeepsProc == ProcState /\ SpawnGroup => ProcState'
  <1> SUFFICES ASSUME ProcState, SpawnGroup PROVE ProcState'
    OBVIOUS
  <1>0. /\ ph = "spawn" /\ live = {} /\ n \in Attempts /\ kind # "http"
    BY NothingLives, Numbered DEF SpawnGroup, ProcState
  <1>1. /\ ph' = (IF kind = "two_stage" THEN "stage1" ELSE "run")
        /\ live' = Spawned /\ list' = gen
        /\ UNCHANGED <<gen, disk, man, parts, fetch, kind, n, torn, repo, stash>>
    BY <1>0 DEF SpawnGroup, GoesTo, mirror
  <1>2. /\ kind = "two_stage" => live' = {<<n, "stage1">>}
        /\ kind = "docker" => live' = {<<n, "group">>, <<n, "box">>}
        /\ kind \notin {"two_stage", "docker"} => live' = {<<n, "group">>}
    BY <1>1 DEF Spawned
  <1>3. live' \subseteq Attempts \X {"stage1", "group", "rest", "tidy", "box"}
    BY <1>0, <1>2
  <1>4. ProvTypeOK'
    <2>1. list' \in 0..MaxGen
      BY <1>1, FetchAssumption DEF ProcState, ProcInv, Gens
    <2> QED BY <1>1, <1>3, <2>1 DEF ProcState, ProvTypeOK
  <1>5. \A x \in live' : x[1] = n
    BY <1>2
  <1>6. /\ Groups' \subseteq live' /\ Boxes' \subseteq {<<n, "box">>}
        /\ kind # "docker" => Boxes' = {}
    BY <1>2 DEF Groups, Boxes
  <1>7. ~Stage2Lives'
    BY <1>1, <1>2 DEF Stage2Lives, Groups
  <1>8. OwnLive'
    <2>1. /\ ph' # "idle" => n' # 0
          /\ \A x \in Groups' : x[1] = n'
          /\ \A x, y \in Boxes' : x = y
          /\ kind' # "docker" => Boxes' = {}
      BY <1>0, <1>1, <1>5, <1>6, ProviderAssumption DEF Attempts
    <2>2. /\ ph' = "stage1" => live' \subseteq {<<n', "stage1">>, <<n', "rest">>}
          /\ ph' = "run" => live' \subseteq {<<n', "group">>, <<n', "rest">>, <<n', "box">>}
          /\ ph' \in {"stage1", "run"}
      BY <1>1, <1>2
    <2> QED BY <2>1, <2>2 DEF OwnLive
  <1>9. NoRepo' /\ SecondStage'
    BY <1>1, <1>7 DEF ProcState, ProcInv, NoRepo, SecondStage
  <1> QED BY <1>1, <1>4, <1>8, <1>9 DEF ProcState, ProcInv

\* The group of the attempt is reaped, or its leader exits.
LEMMA ReapEnds == Reap => live' \subseteq live
  BY DEF Reap

LEMMA ExitsLeave ==
    ASSUME NEW new, Exits(new)
    PROVE  live' \subseteq (live \ Leader) \cup {<<n, "rest">>} \cup new
  BY DEF Exits

\* The second stage starts with a complete first one, or with another list.
LEMMA StageKeeps == ProcState /\ Stage1Exits => ProcState'
  <1> SUFFICES ASSUME ProcState, Stage1Exits PROVE ProcState'
    OBVIOUS
  <1>0. /\ ph = "stage1" /\ n \in Attempts /\ live \subseteq {<<n, "stage1">>, <<n, "rest">>}
        /\ UNCHANGED <<gen, disk, man, parts, fetch, kind, n, repo, stash>>
    BY Numbered DEF Stage1Exits, mirror, ProcState, ProcInv, OwnLive
  <1>1. CASE Ends("err") /\ Exits({}) /\ UNCHANGED <<list, torn>>
    BY <1>0, <1>1, ExitsLeave, IdleStep DEF Ends, Onward, LeaderGone, Running
  <1>2. CASE /\ Complete /\ GoesTo("run") /\ Stage2 /\ list' = gen
             /\ torn' = (torn \/ gen # list)
    <2>1. live' \subseteq {<<n, "rest">>, <<n, "group">>} /\ ph' = "run"
      BY <1>0, <1>2, ExitsLeave DEF Stage2, GoesTo, Leader
    <2>2. \A x \in live' : x[1] = n
      BY <2>1
    <2>3. Groups' \subseteq live' /\ Boxes' = {}
      BY <2>1 DEF Groups, Boxes
    <2>4. OwnLive'
      BY <1>0, <2>1, <2>2, <2>3 DEF ProcState, ProcInv, OwnLive
    <2>5. ProvTypeOK'
      <3>1. list' \in 0..MaxGen /\ torn' \in BOOLEAN
        BY <1>2, FetchAssumption DEF ProcState, ProcInv, Gens
      <3>2. live' \subseteq Attempts \X {"stage1", "group", "rest", "tidy", "box"}
        BY <1>0, <2>1 DEF ProcState, ProvTypeOK
      <3> QED BY <1>0, <2>1, <3>1, <3>2 DEF ProcState, ProvTypeOK
    <2>6. SecondStage'
      BY <1>0, <1>2 DEF SecondStage, Complete
    <2>7. NoRepo' /\ ((kind' = "two_stage" /\ man' # 0 /\ ~torn') => Served(man') \subseteq disk')
      BY <1>0, <1>2 DEF ProcState, ProcInv, NoRepo
    <2> QED BY <1>0, <2>4, <2>5, <2>6, <2>7 DEF ProcState, ProcInv
  <1> QED BY <1>1, <1>2 DEF Stage1Exits

\* The attempt's group exits by itself.
LEMMA ExitKeeps == ProcState /\ RunExits => ProcState'
  <1> SUFFICES ASSUME ProcState, RunExits PROVE ProcState'
    OBVIOUS
  <1>0. repo \in Repos /\ gen \in Gens /\ stash \subseteq Gens /\ torn \in BOOLEAN
    BY DEF ProcState, ProvTypeOK, ProcInv, Repos
  <1>1. PICK zero \in BOOLEAN : 
            /\ zero => CanExitZero
            /\ torn' = (torn /\ ~zero)
            /\ IF zero /\ kind = "git"
               THEN /\ ph' = "after" /\ Exits({<<n, "tidy">>})
                    /\ repo' = [st |-> "good", has |-> repo.has \cup {gen}]
               ELSE ph' = "idle" /\ Exits({}) /\ repo' \in GitLeaves
    BY DEF RunExits, Ends, GoesTo
  <1>2. UNCHANGED <<gen, disk, man, parts, fetch, kind, n, list, stash>> /\ ph = "run"
    BY DEF RunExits, mirror
  <1>5. Onward
    <2>1. CASE zero /\ kind = "git"
      <3>1. live' \subseteq (live \ Leader) \cup {<<n, "rest">>} \cup {<<n, "tidy">>}
        BY <1>1, <2>1, ExitsLeave
      <3>2. Boxes = {} /\ live \subseteq {<<n, "group">>, <<n, "rest">>, <<n, "box">>}
        BY <1>2, <2>1 DEF ProcState, ProcInv, OwnLive
      <3>3. <<n, "box">> \notin live
        BY <3>2 DEF Boxes, Groups
      <3> QED BY <1>1, <1>2, <2>1, <3>1, <3>2, <3>3 DEF Onward, LeaderGone, Leader
    <2>2. CASE ~(zero /\ kind = "git")
      BY <1>1, <1>2, <2>2, ExitsLeave DEF Onward, LeaderGone, Running
    <2> QED BY <2>1, <2>2
  <1>3. repo' \in Repos /\ NoRepo'
    <2>1. CASE repo' \in GitLeaves
      BY <2>1, GitLeavesMore DEF NoRepo
    <2>2. CASE repo' = [st |-> "good", has |-> repo.has \cup {gen}]
      <3>1. repo.has \cup {gen} \in SUBSET Gens
        BY <1>0 DEF Repos
      <3> QED BY <2>2, <3>1 DEF NoRepo, Repos
    <2> QED BY <1>1, <2>1, <2>2
  <1>4. /\ torn' \in BOOLEAN
        /\ (torn /\ ~torn' /\ kind = "two_stage") => man = list /\ disk = Served(list)
    BY <1>0, <1>1 DEF CanExitZero
  <1> QED BY <1>0, <1>2, <1>3, <1>4, <1>5, QuietStep

\* Cancellation, and everything that ends beside the attempt.
LEMMA EndsKeep ==
    ASSUME ProcState, \/ KillGroup \/ CancelledAfterWait \/ StopContainer \/ Tidied
                      \/ CancelAttempt \/ Abandon
                      \/ \E x \in live : BoxEnds(x) \/ OrphanEnds(x)
    PROVE  ProcState'
  <1>1. CASE KillGroup
    <2>1. ph \in {"stage1", "run"} /\ ph' \in {"idle", "stop"}
      BY <1>1 DEF KillGroup, Running, GoesTo, Ends
    <2>2. /\ live' \subseteq live /\ repo' \in GitLeaves
          /\ UNCHANGED <<gen, disk, man, parts, fetch, kind, n, list, torn, stash>>
      BY <1>1, ReapEnds DEF KillGroup, mirror
    <2> QED BY <2>1, <2>2, GitStep DEF Onward, Ahead
  <1>2. CASE StopContainer
    <2>1. live' \subseteq live
      BY <1>2 DEF StopContainer
    <2> QED BY <1>2, <2>1, IdleStep DEF StopContainer, Ends, Onward, Ahead, mirror
  <1>3. CASE CancelAttempt
    BY <1>3, IdleStep DEF CancelAttempt, Onward, Ahead, mirror, procVars
  <1>4. CASE \E x \in live : BoxEnds(x)
    BY <1>4, IdleStep DEF BoxEnds, Keep, fetchVars, mirror, Onward, Ahead
  <1>5. CASE \E x \in live : OrphanEnds(x)
    <2>1. /\ Onward
          /\ UNCHANGED <<gen, disk, man, parts, fetch, kind, n, list, torn, stash>>
          /\ repo' \in GitLeaves \/ repo' = repo
      BY <1>5 DEF OrphanEnds, Keep, fetchVars, mirror, Onward, Ahead
    <2> QED BY <2>1, GitStep, IdleStep
  <1>6. CASE CancelledAfterWait
    <2>1. Onward
      BY <1>6, ExitsLeave DEF CancelledAfterWait, Ends, Onward, LeaderGone
    <2> QED BY <1>6, <2>1, GitStep DEF CancelledAfterWait, mirror
  <1>7. CASE Tidied
    BY <1>7, IdleStep DEF Tidied, Ends, Onward, Ahead, mirror
  <1>8. CASE Abandon
    <2>1. /\ Onward
          /\ UNCHANGED <<gen, disk, man, parts, fetch, kind, n, list, torn, stash>>
      BY <1>8 DEF Abandon, Ends, Onward, Ahead, mirror
    <2>2. repo' \in Repos /\ NoRepo'
      <3>1. repo \in Repos /\ NoRepo
        BY DEF ProcState, ProvTypeOK, ProcInv, Repos
      <3>2. repo' = repo \/ repo' = [repo EXCEPT !.st = "bad"]
        BY <1>8 DEF Abandon
      <3> QED BY <3>1, <3>2 DEF Repos, NoRepo
    <2>3. torn' \in BOOLEAN /\ stash' \subseteq Gens
      BY <2>1 DEF ProcState, ProvTypeOK
    <2> QED BY <2>1, <2>2, <2>3, QuietStep
  <1> QED BY <1>1, <1>2, <1>3, <1>4, <1>5, <1>6, <1>7, <1>8

\* What the processes of a two-stage mirror do to the tree.
LEMMA RsyncKeeps ==
    ASSUME ProcState, (\E f \in Files : RsyncPuts(f) \/ RsyncDeletes(f)) \/ RsyncPutsIndex
    PROVE  ProcState'
  <1>1. UNCHANGED <<gen, parts, fetch, ph, kind, n, live, list, torn, repo, stash>>
    BY DEF RsyncPuts, RsyncDeletes, RsyncPutsIndex, procVars
  <1>2. ProvTypeOK' /\ OwnLive' /\ NoRepo' /\ (Stage2Lives' <=> Stage2Lives)
    BY <1>1 DEF ProcState, ProvTypeOK, ProcInv, OwnLive, NoRepo, Groups, Boxes, Stage2Lives
  <1>3. /\ disk' \subseteq Files /\ man' \in 0..MaxGen
        /\ SecondStage'
        /\ (kind = "two_stage" /\ man' # 0 /\ ~torn) => Served(man') \subseteq disk'
    <2>1. CASE \E f \in Files : RsyncPuts(f)
      <3>1. PICK f \in Files : disk' = disk \cup {f}
        BY <2>1 DEF RsyncPuts
      <3>2. man' = man
        BY <2>1 DEF RsyncPuts
      <3> QED BY <1>1, <1>2, <3>1, <3>2 DEF ProcState, ProcInv, SecondStage
    <2>2. CASE \E f \in Files : RsyncDeletes(f)
      <3>1. PICK f \in Files : /\ disk' = disk \ {f} /\ f \notin Served(list)
                               /\ man = list /\ Served(list) \subseteq disk
        BY <2>2 DEF RsyncDeletes
      <3>2. man' = man
        BY <2>2 DEF RsyncDeletes
      <3> QED BY <1>1, <1>2, <3>1, <3>2 DEF ProcState, ProcInv, SecondStage
    <2>3. CASE RsyncPutsIndex
      BY <1>1, <1>2, <2>3, FetchAssumption
      DEF RsyncPutsIndex, ProcState, ProvTypeOK, ProcInv, SecondStage
    <2> QED BY <2>1, <2>2, <2>3
  <1> QED BY <1>1, <1>2, <1>3 DEF ProcState, ProcInv

LEMMA UpstreamKeeps == ProcState /\ UpstreamMoves /\ UNCHANGED procVars => ProcState'
  <1> SUFFICES ASSUME ProcState, UpstreamMoves, UNCHANGED procVars PROVE ProcState'
    OBVIOUS
  <1>1. gen' \in Gens
    BY FetchAssumption DEF ProcState, ProcInv, UpstreamMoves, Gens
  <1> QED BY <1>1 DEF UpstreamMoves, procVars, mirror, ProcState, ProvTypeOK, ProcInv, OwnLive,
                      NoRepo, SecondStage, Groups, Boxes, Stage2Lives

\* Every step of the processes keeps their invariant.
LEMMA ProcKeeps == ProcState /\ ProcNext => ProcState'
  BY AttemptBegins, PreparesKeep, RepoPrepared, SpawnKeepsProc, StageKeeps, ExitKeeps, EndsKeep,
     RsyncKeeps, UpstreamKeeps
  DEF ProcNext, Advance

-----------------------------------------------------------------------------
(* The invariant holds. *)

LEMMA AttemptInit == ProvInit => AttemptInv
  <1> SUFFICES ASSUME ProvInit PROVE AttemptInv
    OBVIOUS
  <1>0. /\ gen = 1 /\ parts = {} /\ fetch = NoFetch /\ ph = "idle"
        /\ cancel = FALSE /\ result = "none" /\ faults = 0
        /\ n = 0 /\ live = {} /\ list = 0 /\ torn = FALSE /\ stash = {} /\ kind \in Kinds
    BY DEF ProvInit, FetchInit
  <1>1. 1 \in Gens /\ 0 \in 0..MaxGen /\ 1 \in 0..MaxGen /\ 0 \in 0..MaxFaults
        /\ 0 \in 0..MaxAttempts
    BY FetchAssumption, ProviderAssumption DEF Gens
  <1>2. /\ disk \subseteq Files /\ man \in 0..MaxGen
        /\ man # 0 => man = 1 /\ disk = Served(1)
    BY <1>1, ServedAreFiles DEF ProvInit, FetchInit
  <1>3. repo \in Repos /\ NoRepo
    <2>1. {} \in SUBSET Gens /\ {1} \in SUBSET Gens
      BY <1>1
    <2>2. repo \in {[st |-> "none", has |-> {}], [st |-> "good", has |-> {1}]}
      BY DEF ProvInit
    <2> QED BY <2>1, <2>2 DEF Repos, NoRepo
  <1>4. FetchTypeOK /\ IsFiniteSet(fetch.fly)
    <2>1. Cardinality(fetch.fly) <= Threads /\ IsFiniteSet(fetch.fly)
      BY <1>0, NoFetchFields, FS_EmptySet, FetchAssumption
    <2> QED BY <1>0, <1>1, <1>2, <2>1, NoFetchTyped DEF FetchTypeOK, Recs, Results
  <1>5. ProvTypeOK
    BY <1>0, <1>1, <1>3, <1>4 DEF ProvTypeOK, Repos
  <1>6. HttpInv
    <2>1. Published
      BY <1>2 DEF Published, Served
    <2> QED BY <1>0, <1>4, <2>1, NoFetchFields
            DEF HttpInv, Listed, Planning, Executing, Arriving, Deleting, Late
  <1>7. ProcInv
    <2>1. Groups = {} /\ Boxes = {}
      BY <1>0 DEF Groups, Boxes
    <2>2. ~Stage2Lives
      BY <2>1 DEF Stage2Lives
    <2> QED BY <1>0, <1>1, <1>2, <1>3, <2>1, <2>2 DEF ProcInv, OwnLive, SecondStage
  <1> QED BY <1>0, <1>5, <1>6, <1>7 DEF AttemptInv

LEMMA AttemptStep == AttemptInv /\ [ProvNext]_provVars => AttemptInv'
  <1> SUFFICES ASSUME AttemptInv, [ProvNext]_provVars PROVE AttemptInv'
    OBVIOUS
  <1>1. CASE kind = "http" /\ FetchNext /\ UNCHANGED procVars
    <2>1. HttpInv'
      BY <1>1, FetchKeeps DEF AttemptInv
    <2> QED BY <1>1, <2>1 DEF AttemptInv, ProvTypeOK, HttpInv, procVars
  <1>2. CASE kind # "http" /\ ProcNext
    BY <1>2, ProcKeeps DEF AttemptInv, ProcState
  <1>3. CASE UNCHANGED provVars
    BY <1>3 DEF provVars, fetchVars, procVars, mirror, AttemptInv, ProvTypeOK, FetchTypeOK, HttpInv,
                Published, Listed, Planning, Executing, Arriving, Deleting, ProcInv, OwnLive, NoRepo,
                SecondStage, Groups, Boxes, Stage2Lives
  <1> QED BY <1>1, <1>2, <1>3 DEF ProvNext

THEOREM AttemptInvariant == ProvSpec => []AttemptInv
  BY AttemptInit, AttemptStep, PTL DEF ProvSpec

\* The writers of one moment belong to one attempt.
LEMMA OneWriter == AttemptInv => AttemptsExclude
  <1> SUFFICES ASSUME AttemptInv PROVE AttemptsExclude
    OBVIOUS
  <1> DEFINE W == {x[1] : x \in live \ {y \in Groups : kind = "docker"}}
  <1>1. \A a, b \in W : a = b
    <2>1. CASE kind = "http"
      BY <2>1 DEF AttemptInv
    <2>2. CASE kind = "docker"
      <3>1. \A x, y \in Boxes : x = y
        BY <2>2 DEF AttemptInv, ProcInv, OwnLive
      <3>2. live \ {y \in Groups : kind = "docker"} = Boxes
        BY <2>2 DEF Boxes
      <3> QED BY <3>1, <3>2
    <2>3. CASE kind \notin {"http", "docker"}
      <3>1. Boxes = {} /\ \A x \in Groups : x[1] = n
        BY <2>3 DEF AttemptInv, ProcInv, OwnLive
      <3>2. live = Groups
        BY <3>1 DEF Boxes, Groups
      <3> QED BY <3>1, <3>2
    <2> QED BY <2>1, <2>2, <2>3
  <1>2. W = {} \/ \E a : W = {a}
    BY <1>1
  <1>3. Cardinality(W) <= 1
    <2> HIDE DEF W
    <2>1. CASE W = {}
      <3>1. Cardinality(W) = 0
        BY <2>1, FS_EmptySet
      <3> QED BY <3>1
    <2>2. CASE \E a : W = {a}
      <3>1. Cardinality(W) = 1
        BY <2>2, FS_Singleton
      <3> QED BY <3>1
    <2> QED BY <1>2, <2>1, <2>2
  <1> QED BY <1>3 DEF AttemptsExclude

\* Whatever a crash, a dropped future or a docker daemon that does not answer
\* left running, two attempts of a job never write at once; and a fetch never
\* has more downloads than the semaphore's permits (executor.rs, provider,
\* httpfetch's execute).
THEOREM AttemptsApart == ProvSpec => []ProvInv
  <1>1. AttemptInv => ProvInv
    BY OneWriter DEF AttemptInv, ProvInv
  <1> QED BY <1>1, AttemptInvariant, PTL

\* The published manifest has its metadata beside it at every moment, so after
\* a crash at any point too (httpfetch's execute; the two stages of rsync).
THEOREM MetadataFirst == ProvSpec => []ManifestComplete
  <1>1. AttemptInv => ManifestComplete
    BY DEF AttemptInv, HttpInv, Published, ProcInv, ManifestComplete
  <1> QED BY <1>1, AttemptInvariant, PTL

-----------------------------------------------------------------------------
(* What a step may do. *)

\* A step of a fetch that is not a deletion removes no file and no manifest; a
\* deletion follows a complete plan and leaves every listed file.
LEMMA FetchLosesNothing ==
    ASSUME HttpInv, FetchNext, ~(disk \subseteq disk') \/ (man # 0 /\ man' = 0)
    PROVE  ph = "delete" /\ ~fetch.cut /\ fetch.remote \subseteq disk'
  <1>1. CASE FetchBegin \/ UpstreamMoves \/ FetchFaults
    BY <1>1 DEF FetchBegin, UpstreamMoves, FetchFaults, ListingFails, DownloadFails, EntryCap,
                PublishFails, FetchCancel, FetchDropped, mirror
  <1>2. CASE (\E d \in Dirs : ListingArrives(d)) \/ PlanEnds \/ PlanCancelled \/ TransferEnds
             \/ PublishWrite \/ ExecuteEnds
    BY <1>2 DEF ListingArrives, PlanEnds, PlanCancelled, TransferEnds, PublishWrite, ExecuteEnds,
                mirror
  <1>3. CASE \E f \in Files : Download(f)
    BY <1>3 DEF Download, DownloadSpawn, DownloadOpens, DownloadMissing, DownloadRename,
                DownloadCancelled, mirror
  <1>4. CASE PublishRename
    BY <1>4 DEF PublishRename, HttpInv, Executing, Arriving, Late
  <1>5. ASSUME NEW e \in fetch.dels, DeleteOne(e)
        PROVE  ph = "delete" /\ ~fetch.cut /\ fetch.remote \subseteq disk'
    <2>1. ph = "delete"
      BY <1>5 DEF DeleteOne
    <2>2. ~fetch.cut /\ fetch.remote \subseteq disk
      BY <2>1 DEF HttpInv, Arriving, Late
    <2>3. disk' = disk \/ (e[1] = "file" /\ disk' = disk \ {e[2]})
      BY <1>5 DEF DeleteOne, mirror
    <2> QED BY <2>1, <2>2, <2>3, DeleteRemoves
  <1> QED BY <1>1, <1>2, <1>3, <1>4, <1>5 DEF FetchNext, FetchProgress

\* What git has fetched stays.
LEMMA GitLosesNothing ==
    ASSUME ProcState, ProcNext
    PROVE  repo.has \cup stash \subseteq repo'.has \cup stash'
  <1>0. repo \in Repos
    BY DEF ProcState, ProvTypeOK, Repos
  <1>1. ASSUME repo' \in GitLeaves, stash' = stash
        PROVE  repo.has \cup stash \subseteq repo'.has \cup stash'
    BY <1>1, GitLeavesMore
  <1>2. CASE UNCHANGED <<repo, stash>>
    BY <1>2
  <1>3. CASE PrepareRepo
    <2>1. CASE repo' = [repo EXCEPT !.st = "good"] /\ UNCHANGED stash
      BY <1>0, <2>1 DEF Repos
    <2>2. CASE Quarantined
      BY <2>2 DEF Quarantined
    <2> QED BY <1>2, <1>3, <2>1, <2>2 DEF PrepareRepo
  <1>4. CASE RunExits
    <2>1. CASE repo' = [st |-> "good", has |-> repo.has \cup {gen}] /\ stash' = stash
      BY <2>1
    <2> QED BY <1>1, <1>4, <2>1 DEF RunExits
  <1>5. CASE KillGroup \/ CancelledAfterWait \/ \E x \in live : OrphanEnds(x)
    BY <1>1, <1>2, <1>5 DEF KillGroup, CancelledAfterWait, OrphanEnds, Keep
  <1>8. CASE Abandon
    <2>1. (repo' = repo \/ repo' = [repo EXCEPT !.st = "bad"]) /\ stash' = stash
      BY <1>8 DEF Abandon
    <2> QED BY <1>0, <2>1 DEF Repos
  <1>6. CASE \/ Begin \/ validate_docker_options \/ SpawnFails \/ Stage1Exits
             \/ PrepareRsync \/ PrepareStages \/ PrepareScript \/ RemoveLeftover
             \/ SpawnGroup \/ SpawnConflict \/ StopContainer \/ Tidied
    BY <1>2, <1>6 DEF Begin, validate_docker_options, SpawnFails, Stage1Exits, PrepareRsync,
                      PrepareStages, PrepareScript, Prepared, Misconfigured, RemoveLeftover,
                      SpawnGroup, SpawnConflict, StopContainer, Tidied, procVars
  <1>7. CASE \/ \E f \in Files : RsyncPuts(f) \/ RsyncDeletes(f)
             \/ RsyncPutsIndex \/ (\E x \in live : BoxEnds(x))
             \/ CancelAttempt \/ (UpstreamMoves /\ UNCHANGED procVars)
    BY <1>2, <1>7 DEF RsyncPuts, RsyncDeletes, RsyncPutsIndex, BoxEnds, Keep, CancelAttempt, procVars
  <1> QED BY <1>3, <1>4, <1>5, <1>6, <1>7, <1>8 DEF ProcNext, Advance

\* A file leaves a fetched mirror only when everything was listed and every
\* listed file is in place (execute's deletions); what git has fetched stays
\* in the destination or in a copy beside it (prepare_existing_repo).
THEOREM NoFailureCosts == ProvSpec => NothingIsLost
  <1> DEFINE Step == /\ kind = "http" /\ (~(disk \subseteq disk') \/ (man # 0 /\ man' = 0))
                          => /\ ph = "delete" /\ ~fetch.cut
                             /\ fetch.remote \subseteq disk'
                     /\ repo.has \cup stash \subseteq repo'.has \cup stash'
  <1>1. AttemptInv /\ [ProvNext]_provVars => [Step]_provVars
    <2> SUFFICES ASSUME AttemptInv, ProvNext PROVE Step
      BY DEF provVars
    <2>1. CASE kind = "http" /\ FetchNext /\ UNCHANGED procVars
      <3>1. repo.has \cup stash \subseteq repo'.has \cup stash'
        BY <2>1 DEF procVars
      <3> QED BY <2>1, <3>1, FetchLosesNothing DEF AttemptInv
    <2>2. CASE kind # "http" /\ ProcNext
      BY <2>2, GitLosesNothing DEF AttemptInv, ProcState
    <2> QED BY <2>1, <2>2 DEF ProvNext
  <1> QED BY <1>1, AttemptInvariant, PTL DEF ProvSpec, NothingIsLost

\* A fetch that ends well has everything, and nothing else if it deletes.
LEMMA FetchIsExact ==
    ASSUME HttpInv, FetchNext, ph # "idle", ph' = "idle", result' = "ok"
    PROVE  /\ fetch.remote \subseteq disk /\ man = fetch.hold /\ fetch.hold # 0
           /\ Delete => disk = fetch.remote /\ parts = {}
  <1>1. ExecuteEnds /\ ~fetch.failed
    <2>1. ~FetchBegin /\ ~UpstreamMoves /\ ~FetchFaults
      BY DEF FetchBegin, UpstreamMoves, FetchFaults, ListingFails, DownloadFails, EntryCap,
             PublishFails, FetchCancel, FetchDropped, Returns, InFlight
    <2>2. ASSUME NEW f \in Files PROVE ~Download(f)
      BY DEF Download, DownloadSpawn, DownloadOpens, DownloadMissing, DownloadRename,
             DownloadCancelled
    <2>3. ~TransferEnds
      BY DEF TransferEnds, allow_deletes, Verdict, Returns
    <2>4. /\ ~(\E d \in Dirs : ListingArrives(d)) /\ ~PlanEnds /\ ~PlanCancelled
          /\ ~PublishWrite /\ ~PublishRename
      BY DEF ListingArrives, PlanEnds, PlanCancelled, PublishWrite, PublishRename, Returns
    <2>5. ~(\E e \in fetch.dels : DeleteOne(e))
      BY DEF DeleteOne, Returns
    <2>6. ExecuteEnds
      BY <2>1, <2>2, <2>3, <2>4, <2>5 DEF FetchNext, FetchProgress
    <2> QED BY <2>6 DEF ExecuteEnds, Verdict, Returns
  <1>2. ph = "delete" /\ fetch.dels = {}
    BY <1>1 DEF ExecuteEnds
  <1>3. /\ ~fetch.cut /\ fetch.remote \subseteq disk /\ man = fetch.hold /\ fetch.hold # 0
        /\ fetch.open = {}
    BY <1>2 DEF HttpInv, Executing, Arriving, Listed, Late
  <1>4. ASSUME Delete PROVE disk = fetch.remote /\ parts = {}
    BY <1>1, <1>2, <1>3, <1>4 DEF HttpInv, Deleting, Late
  <1> QED BY <1>3, <1>4

\* A process attempt that ends well leaves descendants at most.
LEMMA OnlyTheRest ==
    ASSUME ProcState, ProcNext, ph # "idle", ph' = "idle", result' = "ok"
    PROVE  live' \subseteq {<<n, "rest">>}
  <1>1. RunExits \/ Tidied
    <2>1. /\ ~Begin /\ ~validate_docker_options /\ ~SpawnFails /\ ~CancelAttempt
          /\ ~CancelledAfterWait /\ ~Abandon
      BY DEF Begin, validate_docker_options, SpawnFails, Misconfigured, Ends, CancelAttempt,
             CancelledAfterWait, Abandon
    <2>2. Advance => Tidied
      BY DEF Advance, PrepareRsync, PrepareStages, PrepareScript, Prepared, Misconfigured,
             RemoveLeftover, PrepareRepo, SpawnGroup, SpawnConflict, KillGroup, StopContainer,
             GoesTo, Ends
    <2>3. ~Stage1Exits
      BY DEF Stage1Exits, GoesTo, Ends
    <2>4. ~(\E f \in Files : RsyncPuts(f) \/ RsyncDeletes(f)) /\ ~RsyncPutsIndex /\ ~UpstreamMoves
      BY DEF RsyncPuts, RsyncDeletes, RsyncPutsIndex, UpstreamMoves
    <2>5. ~(\E x \in live : BoxEnds(x) \/ OrphanEnds(x))
      BY DEF BoxEnds, OrphanEnds, Keep, fetchVars
    <2> QED BY <2>1, <2>2, <2>3, <2>4, <2>5 DEF ProcNext
  <1>2. CASE Tidied
    BY <1>2 DEF Tidied, ProcState, ProcInv, OwnLive
  <1>3. CASE RunExits
    <2>1. ph = "run" /\ ClientMayExit /\ Exits({})
      BY <1>3 DEF RunExits, GoesTo
    <2>2. live \subseteq {<<n, "group">>, <<n, "rest">>, <<n, "box">>}
      BY <2>1 DEF ProcState, ProcInv, OwnLive
    <2>3. <<n, "box">> \notin live
      <3>1. CASE kind = "docker"
        BY <2>1, <3>1 DEF ClientMayExit
      <3>2. CASE kind # "docker"
        BY <3>2 DEF ProcState, ProcInv, OwnLive, Boxes, Groups
      <3> QED BY <3>1, <3>2
    <2> QED BY <2>1, <2>2, <2>3, ExitsLeave DEF Leader
  <1> QED BY <1>1, <1>2, <1>3

\* When an attempt reports success its container, its process and git's
\* housekeeping are over and nothing of an earlier attempt is left; what may
\* still write is a descendant of this attempt's process (the guard that is
\* disarmed kills nothing).  A fetch leaves exactly what its plan says.
THEOREM ExactSuccess == ProvSpec => SuccessIsExact
  <1> DEFINE Step == ph # "idle" /\ ph' = "idle" /\ result' = "ok"
                     => /\ live' \subseteq {<<n, "rest">>}
                        /\ kind = "http" =>
                              /\ fetch.remote \subseteq disk /\ man = fetch.hold /\ fetch.hold # 0
                              /\ Delete => disk = fetch.remote /\ parts = {}
  <1>1. AttemptInv /\ [ProvNext]_provVars => [Step]_provVars
    <2> SUFFICES ASSUME AttemptInv, ProvNext, ph # "idle", ph' = "idle", result' = "ok"
                 PROVE  Step
      BY DEF provVars
    <2>1. CASE kind = "http" /\ FetchNext /\ UNCHANGED procVars
      <3>1. live' = {}
        BY <2>1 DEF AttemptInv, procVars
      <3> QED BY <2>1, <3>1, FetchIsExact DEF AttemptInv
    <2>2. CASE kind # "http" /\ ProcNext
      BY <2>2, OnlyTheRest DEF AttemptInv, ProcState
    <2> QED BY <2>1, <2>2 DEF ProvNext
  <1> QED BY <1>1, AttemptInvariant, PTL DEF ProvSpec, SuccessIsExact

=============================================================================
