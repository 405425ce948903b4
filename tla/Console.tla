------------------------------- MODULE Console -------------------------------
(***************************************************************************)
(* The terminal console, the configuration files it rewrites and the       *)
(* manager that reloads them.                                              *)
(*                                                                         *)
(* The console is one loop (LoopHead: apply completions, publish the       *)
(* selection, copy the shared snapshot, draw; then at most one key) beside *)
(* two background tasks: Refresh replaces the lists every two seconds, and *)
(* the detail task copies the snapshot, awaits the manager and writes its  *)
(* copy back.  A command runs as one more task, with at most thirty        *)
(* seconds to complete; the manager may apply it later than that.          *)
(*                                                                         *)
(* Texts on the screen, cursors, log lines and colours are left out, and   *)
(* of the configuration all but the job blocks: a command that rewrites a  *)
(* proxy table is kept for the reload it asks for.                         *)
(***************************************************************************)
EXTENDS JobForm, FiniteSets

CONSTANTS Jobs,       \* job names
          Order,      \* the jobs as the manager lists them
          Files,      \* the configuration files
          FileOf,     \* the file in which a job's block is written
          Resembles,  \* pairs <<a, b>>: the name a contains the name b
          Hits,       \* the jobs that match what the operator searches for
          Workers,    \* workers registered with the manager
          NoJob,      \* no job
          NoFile,     \* no file
          Absent,     \* no block, specification or object
          WorkerFile, \* the worker's file, which the manager does not read
          InitDisk,   \* the block of each job, Absent for none
          Editable,   \* fields the operator edits
          Typed,      \* texts the operator types
          OptionSet,  \* options offered for a list field
          FormDocs,   \* what the form for a new job writes
          FileDocs,   \* blocks the operator types in the file editor
          Uses,       \* bound: the parts of the console the operator uses
          MaxActs,    \* bound: commands started
          MaxEdits,   \* bound: edits of a form or a file
          MaxOutside  \* bound: changes made by somebody else

\* The jobs that have a block.
Defined(d) == {j \in Jobs : d[j] # Absent}

\* The files load when every variable is set and no block is refused.
Loads(d) == \A j \in Defined(d) : ~Unset(d[j]) /\ ~Refused(expand_env(d[j]))

\* The blocks that come from outside the console.
GivenDocs == FormDocs \cup FileDocs \cup {InitDisk[j] : j \in Defined(InitDisk)}

\* A manager that runs has loaded its configuration, and it lists every job.
ASSUME ConsoleAssumption ==
    /\ FileOf \in [Jobs -> Files]
    /\ Order \in Seq(Jobs) /\ \A j \in Jobs : \E i \in DOMAIN Order : Order[i] = j
    /\ Hits \subseteq Jobs
    /\ Editable \subseteq Fields
    /\ \A x \in Typed : IsText(x)
    /\ DOMAIN InitDisk = Jobs /\ Loads(InitDisk)
    /\ \A d \in GivenDocs : IsDoc(d)
    /\ Uses \subseteq {"commands", "forms", "editor", "files"}
    /\ MaxActs \in Nat /\ MaxEdits \in Nat /\ MaxOutside \in Nat

VARIABLES disk,     \* the block of each job in the configuration files
          live,     \* the specifications the manager runs
          workers,  \* the workers the manager lists
          snap,     \* the snapshot shared by the loop and the tasks
          shared,   \* edit_job, selection and detail mode as published to the tasks
          app,      \* the console's own state
          view,     \* the copy of the snapshot the keys act upon
          detail,   \* the detail task
          act,      \* the command under way
          orphans,  \* commands given up whose request the manager may apply
          spent     \* the budgets used

manager == <<live, workers>>
loop == <<shared, app, view>>
cvars == <<disk, live, workers, snap, shared, app, view, detail, act, orphans, spent>>

-----------------------------------------------------------------------------
(* Configuration files and the manager. *)

Resolved(d) == [j \in Jobs |-> IF d[j] = Absent THEN Absent ELSE resolve_job(expand_env(d[j]))]

Known == {j \in Jobs : live[j] # Absent}

\* The job of the first of some places in the listing.
Topmost(rows) == Order[CHOOSE i \in rows : \A k \in rows : i <= k]

\* A plausible slip: the object is written as it is.
upsert_unchecked(j, json) ==
    IF j \in Defined(disk) THEN [ok |-> TRUE, disk |-> [disk EXCEPT ![j] = json]]
    ELSE [ok |-> FALSE, disk |-> disk]

\* The structured editor's save: an object validate_job_text refuses, or a job
\* without exactly one block, is an error and nothing is written.  It is written
\* as it is: a ${NAME} in it is replaced when the loader reads the file.
upsert_job_block(j, json) ==
    IF Valid(json) /\ j \in Defined(disk)
    THEN [ok |-> TRUE, disk |-> [disk EXCEPT ![j] = json]]
    ELSE [ok |-> FALSE, disk |-> disk]

\* The form for a new job appends a block as it was filled in.
upsert_job_section(j, doc) ==
    IF j \in Defined(disk) THEN [ok |-> FALSE, disk |-> disk]
    ELSE [ok |-> TRUE, disk |-> [disk EXCEPT ![j] = doc]]

\* In the file of the job, the first `worker` line of a block whose name
\* contains the job's name is replaced; without one, a line is added to the
\* job's own block.
upsert_job_worker(j, w) ==
    LET alike == {k \in Defined(disk) : FileOf[k] = FileOf[j] /\ (k = j \/ <<k, j>> \in Resembles)}
        lines == {i \in DOMAIN Order : Order[i] \in alike /\ At(disk[Order[i]], "worker") # Null}
        hit == IF lines = {} THEN j ELSE Topmost(lines)
    IN  IF j \in Defined(disk)
        THEN [ok |-> TRUE, disk |-> [disk EXCEPT ![hit] = Set(@, "worker", Str(Word(w)))]]
        ELSE [ok |-> FALSE, disk |-> disk]

remove_job_block(j) == [disk EXCEPT ![j] = Absent]

\* What the manager does for a request.  Runs that are started or stopped are
\* other modules' matter.
Reloads ==
    /\ live' = IF Loads(disk) THEN Resolved(disk) ELSE live
    /\ UNCHANGED <<disk, workers>>

Deletes(j) ==
    /\ disk' = remove_job_block(j)
    /\ live' = [live EXCEPT ![j] = Absent]
    /\ UNCHANGED workers

\* A worker with runs is not removed.
Unregisters(w) ==
    /\ workers' \in {workers, workers \ {w}}
    /\ UNCHANGED <<disk, live>>

Handle(kind, j, w) ==
    CASE kind = "reload" -> Reloads
      [] kind = "delete" /\ j \in Known -> Deletes(j)
      [] kind = "unregister" -> Unregisters(w)
      [] OTHER -> UNCHANGED <<disk, live, workers>>

\* Whether the answer is a success.
Granted(kind, j) == CASE kind = "reload" -> Loads(disk)
                      [] kind = "unregister" -> TRUE
                      [] OTHER -> j \in Known

-----------------------------------------------------------------------------
(* Commands: start_action and the task it spawns. *)

NoBlocks == [j \in Jobs |-> Absent]

NoAct == [pc |-> "none", kind |-> "", job |-> NoJob, object |-> Absent, word |-> "",
          file |-> NoFile, blocks |-> NoBlocks, from |-> NoJob,
          base |-> Absent, edited |-> {}, ok |-> FALSE]

\* A command is refused while another one is under way; what else its key
\* changes, `next`, happens all the same.
start_action(next, kind, a) ==
    /\ app.key
    /\ IF app.pending
       THEN /\ app' = [next EXCEPT !.key = FALSE]
            /\ UNCHANGED <<act, spent>>
       ELSE /\ spent.acts < MaxActs
            /\ act' = [a EXCEPT !.pc = "todo", !.kind = kind]
            /\ app' = [next EXCEPT !.key = FALSE, !.pending = TRUE]
            /\ spent' = [spent EXCEPT !.acts = @ + 1]
    /\ UNCHANGED <<disk, manager, snap, shared, view, detail, orphans>>

Finish(ok) == act' = [act EXCEPT !.pc = "done", !.ok = ok]

\* The part before the request: the files are rewritten, and an error ends
\* the command.
Written == CASE act.kind = "save" -> upsert_job_block(act.job, act.object)
             [] act.kind = "new" -> upsert_job_section(act.job, act.object)
             [] act.kind = "pin" -> upsert_job_worker(act.job, act.word)
             [] act.kind = "file" ->
                  [ok |-> TRUE, disk |-> [j \in Jobs |-> IF FileOf[j] = act.file THEN act.blocks[j]
                                                                              ELSE disk[j]]]
             [] OTHER -> [ok |-> TRUE, disk |-> disk]

Writes == {"save", "new", "pin", "file", "proxy"}

ActWrites ==
    /\ act.pc = "todo"
    /\ disk' = Written.disk
    /\ IF act.kind = "file" /\ act.file = WorkerFile THEN Finish(TRUE)
       ELSE IF Written.ok THEN act' = [act EXCEPT !.pc = "sent"]
       ELSE Finish(FALSE)
    /\ app' = IF act.kind = "file" /\ app.file = act.file
              THEN [app EXCEPT !.clean = @ \cup {act.blocks}] ELSE app
    /\ UNCHANGED <<manager, snap, shared, view, detail, orphans, spent>>

\* The file cannot be written.
WriteFails ==
    /\ act.pc = "todo"
    /\ act.kind \in Writes
    /\ Finish(FALSE)
    /\ UNCHANGED <<disk, manager, snap, loop, detail, orphans, spent>>

Request == IF act.kind \in Writes THEN "reload" ELSE act.kind

\* A saved file is a success whether or not the manager reloads it.
Outcome(ok) == act.kind = "file" \/ ok

ManagerAnswers ==
    /\ act.pc = "sent"
    /\ Handle(Request, act.job, act.word)
    /\ Finish(Outcome(Granted(Request, act.job)))
    /\ UNCHANGED <<snap, loop, detail, orphans, spent>>

\* The request is refused for another reason, or lost on its way.
RequestFails ==
    /\ act.pc = "sent"
    /\ Finish(Outcome(FALSE))
    /\ UNCHANGED <<disk, manager, snap, loop, detail, orphans, spent>>

\* Thirty seconds have passed: the console stops waiting.
ActTimesOut ==
    /\ act.pc = "sent"
    /\ act' = [act EXCEPT !.pc = "done", !.ok = FALSE, !.kind = "timeout"]
    /\ orphans' = orphans \cup {<<Request, act.job, act.word>>}
    /\ UNCHANGED <<disk, manager, snap, loop, detail, spent>>

\* The manager handles a request nobody waits for.
LateRequest ==
    \E r \in orphans :
        /\ orphans' = orphans \ {r}
        /\ Handle(r[1], r[2], r[3])
        /\ UNCHANGED <<snap, loop, detail, act, spent>>

-----------------------------------------------------------------------------
(* The background tasks. *)

Running == app.mode # "quit"

NoEditor == [job |-> NoJob, json |-> Absent, base |-> Absent, edited |-> {}]

\* The lists of jobs and workers; on an error the old ones stay.
Refresh ==
    /\ Running
    /\ snap' = [snap EXCEPT !.jobs = Known, !.workers = workers]
    /\ snap' # snap
    /\ UNCHANGED <<disk, manager, loop, detail, act, orphans, spent>>

NoDetail == [pc |-> "idle", name |-> NoJob, editor |-> NoEditor]

Fetched(j) == [job |-> j, json |-> spec_to_editor(live[j]), base |-> live[j], edited |-> {}]

\* A plausible slip: the specification that is there is taken for the one
\* wanted.
FetchesOnce ==
    /\ Running
    /\ detail.pc = "idle"
    /\ LET name == IF shared.edit # NoJob THEN shared.edit ELSE shared.sel
           fetch == shared.detail /\ snap.editor.job = NoJob /\ name \in Known
       IN  \E answered \in BOOLEAN :
             detail' = [pc |-> "fetched", name |-> name,
                        editor |-> IF fetch /\ answered THEN Fetched(name) ELSE snap.editor]
    /\ UNCHANGED <<disk, manager, snap, loop, act, orphans, spent>>

\* The snapshot is copied and the manager asked about the frozen job, or the
\* selected one if none is.  The specification is fetched only for another
\* job than the one whose it is, and the manager may not answer.
DetailFetches ==
    /\ Running
    /\ detail.pc = "idle"
    /\ LET name == IF shared.edit # NoJob THEN shared.edit ELSE shared.sel
           fetch == shared.detail /\ snap.editor.job # name /\ name \in Known
       IN  \E answered \in BOOLEAN :
             detail' = [pc |-> "fetched", name |-> name,
                        editor |-> IF fetch /\ answered THEN Fetched(name) ELSE snap.editor]
    /\ UNCHANGED <<disk, manager, snap, loop, act, orphans, spent>>

\* A plausible slip: the task's copy replaces everything.
preserve_nothing(incoming, current, editing) == incoming

\* The editor in the snapshot is kept while its job is the frozen one.
preserve_editor(incoming, current, editing) ==
    IF editing # NoJob /\ current.job = editing THEN current ELSE incoming

\* The copy goes back unless the selection has moved on.
DetailSwaps ==
    /\ detail.pc = "fetched"
    /\ snap' = IF shared.sel = detail.name
               THEN [snap EXCEPT !.editor =
                       preserve_editor(detail.editor, snap.editor, shared.edit)]
               ELSE snap
    /\ detail' = NoDetail
    /\ UNCHANGED <<disk, manager, loop, act, orphans, spent>>

-----------------------------------------------------------------------------
(* The loop's head. *)

Searched == IF app.search THEN Hits ELSE Jobs

\* The rows of the list, as their places in the manager's listing.
visible_jobs(v, hits) == {i \in DOMAIN Order : Order[i] \in v.jobs \cap hits}

\* A plausible slip: the row number is kept instead of the name.
reconcile_by_row(v, sel, hits) ==
    LET rows == visible_jobs(v, hits)
        old == {i \in visible_jobs(view, hits) : Order[i] = sel}
        above(S, i) == Cardinality({k \in S : k < i})
        same == {i \in rows : \E k \in old : above(rows, i) = above(visible_jobs(view, hits), k)}
    IN  IF rows = {} THEN NoJob ELSE Topmost(IF same = {} THEN rows ELSE same)

\* The selection follows its job's name, or falls on the first visible job.
reconcile_selection(v, sel, hits) ==
    LET rows == visible_jobs(v, hits)
    IN  IF \E i \in rows : Order[i] = sel THEN sel
        ELSE IF rows = {} THEN NoJob ELSE Topmost(rows)

\* A plausible slip: what is shown by now is taken for what was saved.
finish_whatever_is_shown(a) == IF act.ok THEN [a EXCEPT !.dirty = FALSE] ELSE a

\* The mark of unsaved edits goes when the file still shown holds what was
\* saved.
finish_file_save(a) ==
    IF act.ok /\ a.file = act.file /\ a.buf = act.blocks THEN [a EXCEPT !.dirty = FALSE] ELSE a

\* What the completion of a command changes.
Completed(a) ==
    IF act.pc # "done" THEN a
    ELSE LET b == [a EXCEPT !.pending = FALSE]
         IN  CASE act.kind = "file" -> finish_file_save(b)
               [] act.kind = "delete" /\ act.ok -> [b EXCEPT !.mode = "jobs"]
               [] OTHER -> b

\* The detail task holds the lock of edit_job while it writes its copy back:
\* the loop then leaves it as it was.
Publishes(edit) == IF detail.pc = "idle" THEN {edit} ELSE {edit, shared.edit}

\* Completions, publication, copy of the snapshot, selection, drawing.
LoopHead ==
    LET a == Completed(app)
        sel == reconcile_selection(snap, a.sel, Searched)
    IN  /\ Running
        /\ app' = [a EXCEPT !.sel = sel, !.key = TRUE]
        /\ act' = IF act.pc = "done" THEN NoAct ELSE act
        /\ \E edit \in Publishes(a.edit) :
               shared' = [edit |-> edit, sel |-> sel, detail |-> a.mode \in {"detail", "spec"}]
        /\ view' = snap
        /\ UNCHANGED <<disk, manager, snap, detail, orphans, spent>>

\* The snapshot is locked by a task: the loop starts over.
LoopBusy ==
    /\ Running
    /\ app' = [Completed(app) EXCEPT !.key = FALSE]
    /\ act' = IF act.pc = "done" THEN NoAct ELSE act
    /\ \E edit \in Publishes(app.edit) : shared' = [shared EXCEPT !.edit = edit]
    /\ UNCHANGED <<disk, manager, snap, view, detail, orphans, spent>>

-----------------------------------------------------------------------------
(* Keys. *)

NoInput == [kind |-> "none", field |-> "", items |-> {}, job |-> NoJob]
Input(kind) == [NoInput EXCEPT !.kind = kind]

\* A key that only changes the console's own state.
Key(next) ==
    /\ app.key
    /\ app' = [next EXCEPT !.key = FALSE]
    /\ UNCHANGED <<disk, manager, snap, shared, view, detail, act, orphans, spent>>

\* No overlay is open, and the mode is one of those given.
In(modes) == app.input.kind = "none" /\ app.mode \in modes

Browsing == {"jobs", "workers", "proxies", "detail"}

move_job ==
    /\ In(Browsing \ {"workers"})
    /\ LET rows == visible_jobs(view, Searched)
       IN  \E i, k \in rows : /\ Order[i] = app.sel /\ k # i
                             /\ \A m \in rows : ~(i < m /\ m < k) /\ ~(k < m /\ m < i)
                             /\ Key([app EXCEPT !.sel = Order[k]])

SwitchMode ==
    /\ In(Browsing)
    /\ \E m \in {"jobs"} \cup (IF "commands" \in Uses THEN {"workers"} ELSE {})
                     \cup (IF "forms" \in Uses THEN {"proxies"} ELSE {}) :
           m # app.mode /\ Key([app EXCEPT !.mode = m])
OpenDetail == In({"jobs"}) /\ Key([app EXCEPT !.mode = "detail"])
CloseDetail == In({"detail"}) /\ Key([app EXCEPT !.mode = "jobs"])

\* A run is started or stopped (both "run"), a job deleted: of the row drawn.
CommandJob ==
    /\ "commands" \in Uses
    /\ In({"jobs", "detail"})
    /\ app.sel \in view.jobs
    /\ \E kind \in {"run", "delete"} :
           start_action(app, kind, [NoAct EXCEPT !.job = app.sel])

RemoveWorker ==
    /\ "commands" \in Uses
    /\ In({"workers"})
    /\ \E w \in view.workers : start_action(app, "unregister", [NoAct EXCEPT !.word = w])

\* The job is frozen when the overlay opens, and so are the candidates.
ChooseWorker ==
    /\ "forms" \in Uses
    /\ In({"detail"})
    /\ app.sel \in view.jobs
    /\ view.workers # {}
    /\ Key([app EXCEPT !.input = [Input("worker") EXCEPT !.job = app.sel, !.items = view.workers]])

PinWorker ==
    /\ app.input.kind = "worker"
    /\ \E w \in app.input.items :
           start_action([app EXCEPT !.input = NoInput], "pin",
                        [NoAct EXCEPT !.job = app.input.job, !.word = w])

OpenSearch == "commands" \in Uses /\ In({"jobs"}) /\ Key([app EXCEPT !.input = Input("search")])
CommitSearch == /\ app.input.kind = "search"
                /\ \E b \in BOOLEAN : Key([app EXCEPT !.search = b, !.input = NoInput])

\* The forms ask one question after the other; the answers are all chosen
\* with the last one.
OpenForm ==
    /\ "forms" \in Uses
    /\ \/ In({"jobs"}) /\ Key([app EXCEPT !.input = Input("job")])
       \/ In({"proxies"}) /\ Key([app EXCEPT !.input = Input("proxy")])

CreateJob ==
    /\ app.input.kind = "job"
    /\ \E j \in Jobs, doc \in FormDocs :
           start_action([app EXCEPT !.input = NoInput], "new",
                        [NoAct EXCEPT !.job = j, !.object = doc])

AddProxy ==
    /\ app.input.kind = "proxy"
    /\ start_action([app EXCEPT !.input = NoInput], "proxy", NoAct)

register_cf_warp == "forms" \in Uses /\ In({"proxies"}) /\ start_action(app, "proxy", NoAct)

CloseInput == /\ app.input.kind \notin {"none", "list"}
              /\ Key([app EXCEPT !.input = NoInput])

-----------------------------------------------------------------------------
(* The structured editor. *)

OpenEditor ==
    /\ "editor" \in Uses
    /\ In({"detail"})
    /\ Key([app EXCEPT !.edit = IF app.sel \in view.jobs THEN app.sel ELSE NoJob, !.mode = "spec"])

\* A plausible slip: whatever specification is there will do.
LoadedAny == view.editor.job # NoJob

\* Keys are refused until the frozen job's specification is there.
Loaded == app.edit # NoJob /\ view.editor.job = app.edit

CloseEditor == In({"spec"}) /\ Key([app EXCEPT !.mode = "detail", !.edit = NoJob])

\* Rows of the schedule and of the provider exist only where they apply.
Shown(json, f) == At(json, f) # Null \/ f \notin (ScheduleRows \cup ProviderRows)

schedule_options == {Word("manual"), Word("interval 6h"), Word("daily 03:00")}
provider_options == {Word(p) : p \in ProviderNames}

\* The values offered for a field, or those the operator may type.
pick_options_for_field(f) ==
    CASE f = "schedule" -> schedule_options
      [] f = "provider" -> provider_options
      [] f = "parser" -> {Word(p) : p \in {"nginx", "apache", "caddy", "s3", "debian"}}
      [] f = "enabled" -> {Word("true"), Word("false")}
      [] f = "worker" -> {Empty} \cup {Word(w) : w \in view.workers}
      [] f = "memory_limit" -> {Empty} \cup {Size(n, "G") : n \in {1, 4}}
      [] f = "misfire_policy" -> {Word(p) : p \in {"skip", "run-immediately", "run-next"}}
      [] f = "stage1_profile" -> {Word(p) : p \in Profiles}
      [] OTHER -> Typed

OpenField ==
    /\ In({"spec"}) /\ Loaded
    /\ \E f \in Editable :
         /\ Shown(view.editor.json, f)
         /\ Key([app EXCEPT !.input =
                   IF f \in Lists
                   THEN [Input("list") EXCEPT !.field = f, !.items = At(view.editor.json, f).items]
                   ELSE [Input("value") EXCEPT !.field = f]])

\* An edit goes into the snapshot's object, whichever job's it is by then.
EditSnapshot(json, f) ==
    /\ app.key
    /\ spent.edits < MaxEdits
    /\ spent' = [spent EXCEPT !.edits = @ + 1]
    /\ snap' = IF snap.editor.job = NoJob THEN snap
               ELSE [snap EXCEPT !.editor.json = json, !.editor.edited = @ \cup {f}]
    /\ UNCHANGED <<disk, manager, shared, view, detail, act, orphans>>

CommitField ==
    /\ app.input.kind = "value"
    /\ LET f == app.input.field
       IN  \E x \in pick_options_for_field(f) :
             /\ EditSnapshot(set_json_field(snap.editor.json, f, x), f)
             /\ app' = [app EXCEPT !.input = NoInput, !.mode = "spec", !.key = FALSE]

\* Lists: removals stay in the overlay until it is closed, an addition is
\* made to the list in the snapshot.
RemoveItem == /\ app.input.kind = "list"
              /\ \E x \in app.input.items : Key([app EXCEPT !.input.items = @ \ {x}])

AddItem == app.input.kind = "list" /\ Key([app EXCEPT !.input.kind = "append", !.input.items = {}])

CommitItem ==
    /\ app.input.kind = "append"
    /\ LET f == app.input.field
       IN  \E x \in OptionSet :
             /\ EditSnapshot(set_json_array(snap.editor.json, f, At(snap.editor.json, f).items \cup {x}), f)
             /\ app' = [app EXCEPT !.mode = "spec", !.key = FALSE,
                          !.input = IF snap.editor.job = NoJob THEN NoInput
                                    ELSE [app.input EXCEPT !.kind = "list",
                                            !.items = At(snap.editor.json, f).items \cup {x}]]

CloseList ==
    /\ app.input.kind = "list"
    /\ LET f == app.input.field
       IN  /\ EditSnapshot(set_json_array(snap.editor.json, f, app.input.items), f)
           /\ app' = [app EXCEPT !.input = NoInput, !.key = FALSE]

\* The frozen job's block is written from the copy that was drawn.
SaveJob ==
    /\ In({"spec"}) /\ Loaded
    /\ start_action([app EXCEPT !.mode = "detail"], "save",
                    [NoAct EXCEPT !.job = app.edit, !.object = view.editor.json,
                                  !.from = view.editor.job, !.base = view.editor.base,
                                  !.edited = view.editor.edited])

-----------------------------------------------------------------------------
(* The file editor. *)

Blocks(f) == [j \in Jobs |-> IF FileOf[j] = f THEN disk[j] ELSE Absent]

load_config_file(a, f) ==
    [a EXCEPT !.file = f, !.buf = Blocks(f), !.clean = {Blocks(f)}, !.dirty = FALSE]

FirstFile == FileOf[Order[1]]

OpenConfig == "files" \in Uses /\ In(Browsing) /\ Key([load_config_file(app, FirstFile) EXCEPT !.mode = "config"])

TypeInFile ==
    /\ In({"config"})
    /\ app.key
    /\ spent.edits < MaxEdits
    /\ spent' = [spent EXCEPT !.edits = @ + 1]
    /\ \E j \in {k \in Jobs : FileOf[k] = app.file}, doc \in FileDocs :
           app' = [app EXCEPT !.buf[j] = doc, !.dirty = TRUE, !.key = FALSE]
    /\ UNCHANGED <<disk, manager, snap, shared, view, detail, act, orphans>>

\* Another file is shown only when there is nothing to save.
NextFile ==
    /\ In({"config"})
    /\ ~app.dirty
    /\ \E f \in Files \ {app.file} : Key(load_config_file(app, f))

SaveFile ==
    /\ In({"config"})
    /\ start_action(app, "file", [NoAct EXCEPT !.file = app.file, !.blocks = app.buf])

CloseConfig == In({"config"}) /\ Key([app EXCEPT !.dirty = FALSE, !.mode = "jobs"])

-----------------------------------------------------------------------------
(* Somebody else, the end of the console, and the specification. *)

\* Another console or a shell changes a block or, as the registration of a
\* local proxy when the console starts, none, and has the manager reload.
Outside ==
    /\ spent.outside < MaxOutside
    /\ spent' = [spent EXCEPT !.outside = @ + 1]
    /\ disk' \in {disk} \cup {[disk EXCEPT ![j] = doc] : j \in Jobs, doc \in FileDocs}
    /\ live' = IF Loads(disk') THEN Resolved(disk') ELSE live
    /\ UNCHANGED <<workers, snap, loop, detail, act, orphans>>

AtStart == [mode |-> "jobs", sel |-> NoJob, edit |-> NoJob, input |-> NoInput, key |-> FALSE,
            pending |-> FALSE, search |-> FALSE, dirty |-> FALSE, file |-> NoFile,
            buf |-> NoBlocks, clean |-> {}]

NoSnapshot == [jobs |-> {}, workers |-> {}, editor |-> NoEditor]

NothingPublished == [edit |-> NoJob, sel |-> NoJob, detail |-> FALSE]

\* The tasks end with the console; a request that was sent may still arrive.
Quit ==
    /\ In(Browsing)
    /\ app.key
    /\ app' = [AtStart EXCEPT !.mode = "quit"]
    /\ orphans' = IF act.pc = "sent" THEN orphans \cup {<<Request, act.job, act.word>>} ELSE orphans
    /\ snap' = NoSnapshot /\ view' = NoSnapshot /\ shared' = NothingPublished
    /\ detail' = NoDetail /\ act' = NoAct
    /\ UNCHANGED <<disk, manager, spent>>

ConsoleInit ==
    /\ disk = InitDisk
    /\ live = Resolved(InitDisk)
    /\ workers = Workers
    /\ snap = NoSnapshot
    /\ shared = NothingPublished
    /\ app = AtStart
    /\ view = NoSnapshot
    /\ detail = NoDetail
    /\ act = NoAct
    /\ orphans = {}
    /\ spent = [acts |-> 0, edits |-> 0, outside |-> 0]

Tasks == \/ Refresh \/ DetailFetches \/ DetailSwaps
         \/ ActWrites \/ WriteFails \/ ManagerAnswers \/ RequestFails \/ ActTimesOut

Browse == \/ move_job \/ SwitchMode \/ OpenDetail \/ CloseDetail \/ OpenSearch \/ CommitSearch
          \/ CommandJob \/ RemoveWorker \/ ChooseWorker \/ PinWorker
          \/ OpenForm \/ CreateJob \/ AddProxy \/ register_cf_warp \/ CloseInput
          \/ Quit

Edit == \/ OpenEditor \/ CloseEditor \/ OpenField \/ CommitField
        \/ RemoveItem \/ AddItem \/ CommitItem \/ CloseList \/ SaveJob
        \/ OpenConfig \/ TypeInFile \/ NextFile \/ SaveFile \/ CloseConfig

ConsoleNext ==
    \/ LoopHead \/ LoopBusy
    \/ Tasks
    \/ Browse
    \/ Edit
    \/ LateRequest
    \/ Outside

ConsoleSpec == ConsoleInit /\ [][ConsoleNext]_cvars

\* The loop turns every fifty milliseconds, the tasks tick every two seconds
\* and a command ends with an answer or its timeout.  A manager that is asked
\* again and again answers at last.
Answered == DetailFetches /\ detail'.editor.job = detail'.name

ConsoleFairness ==
    /\ WF_cvars(LoopHead)
    /\ WF_cvars(DetailFetches)
    /\ WF_cvars(DetailSwaps)
    /\ WF_cvars(ActWrites \/ WriteFails)
    /\ WF_cvars(ManagerAnswers \/ RequestFails \/ ActTimesOut)
    /\ SF_cvars(Answered)

ConsoleFair == ConsoleSpec /\ ConsoleFairness

-----------------------------------------------------------------------------
(* Properties. *)

Modes == Browsing \cup {"spec", "config", "quit"}

\* Every part has its type, and a command is under way exactly while the
\* console believes one is (action_pending).
ConsoleTypeOK ==
    /\ DOMAIN disk = Jobs
    /\ \A j \in Defined(disk) : DOMAIN disk[j] \subseteq Fields
    /\ workers \subseteq Workers
    /\ snap.jobs \subseteq Jobs /\ snap.editor.job \in Jobs \cup {NoJob}
    /\ app.mode \in Modes
    /\ app.sel \in Jobs \cup {NoJob} /\ app.edit \in Jobs \cup {NoJob}
    /\ act.pc \in {"none", "todo", "sent", "done"}
    /\ detail.pc \in {"idle", "fetched"}
    /\ app.pending <=> act.pc # "none"

\* What is saved under a job's name is that job's own specification, edited:
\* never the one of the job whose details were loaded before or arrived
\* late (the guard of the structured editor, lib.rs 2322).
SavedIsOwn == act.kind = "save" => act.from = act.job

\* The types, what is under way, and whose specification is being saved.
EditorInv == ConsoleTypeOK /\ SavedIsOwn

\* Once the loop has published which job is edited, no task that writes its
\* older copy of the snapshot back discards an edit (preserve_editor).
EditsStay ==
    [][snap.editor.job = app.edit /\ app.edit # NoJob /\ shared.edit = app.edit
           /\ app'.mode # "quit"
         => snap'.editor.job = app.edit /\ snap.editor.edited \subseteq snap'.editor.edited]_cvars

Saving == act.kind = "save" /\ act.pc = "todo" /\ act'.pc = "sent"

\* Fields the operator did not touch survive the way from the specification
\* through the editor's object, the file and the loader, unless their text has
\* a ${ in it: the file's $${NAME} is shown as ${NAME}, written so, and replaced
\* when it is read again.
SaveKeepsBase ==
    [][Saving => Differs(act.base, resolve_job(expand_env(disk'[act.job])))
                   \subseteq UNION {Decides(f) : f \in act.edited \cup Referring(act.object)}]_cvars

\* Saving in the structured editor never turns files that load into files the
\* manager cannot reload, whatever was typed but for a ${: validate_job_text
\* does not look into the environment, and the loader refuses a variable that
\* is not set, or what it makes of one.
EditorNeverBreaks ==
    [][Saving /\ Referring(act.object) = {} /\ Loads(disk) => Loads(disk)']_cvars

\* The file editor marks its buffer as unsaved whenever it differs from
\* what was last read from or written to the file, also when a save
\* completes while the operator types on (finish_file_save).
UnsavedIsDirty == app.mode = "config" /\ app.buf \notin app.clean => app.dirty

\* The selection moves by a key of the operator, or because its job is no
\* longer visible; a list that changes never moves it to another job.
SelectionSticks ==
    [][app'.sel # app.sel /\ app.sel # NoJob
         => \/ app.key /\ ~app'.key
            \/ app.sel \notin view'.jobs \cap Searched]_cvars

\* The specification of a job the operator stays on is loaded in the end,
\* unless the console is still frozen on another job it saved.
DetailArrives ==
    \A j \in Jobs :
        <>[](app.mode = "detail" /\ app.sel = j /\ app.edit \in {NoJob, j} /\ j \in Known)
            => <>[](snap.editor.job = j)

=============================================================================
