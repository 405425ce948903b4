------------------------------- MODULE JobForm -------------------------------
(***************************************************************************)
(* A job's settings in their three shapes and the conversions between      *)
(* them: the resolved specification the manager runs, the object the       *)
(* console's editor shows, and the block in the configuration file that    *)
(* the loader resolves again.                                              *)
(*                                                                         *)
(* Objects and blocks are functions from the names of the fields they have *)
(* to values.  A text is kept as what it denotes: a word, a number, a      *)
(* number with a unit, a path, a reference to a variable of the            *)
(* environment; compound durations ("1h30m") are left out.  `retry`,       *)
(* `enabled`, `worker`, `misfire_policy` and `options` stand for the       *)
(* number, flag, optional name, enumeration and list fields.               *)
(***************************************************************************)
EXTENDS Integers, Sequences

CONSTANT Env   \* the manager's environment: names of variables to texts

Text(c, n, w) == [class |-> c, num |-> n, word |-> w]
Word(w) == Text("word", 0, w)
Digits(n) == Text("digits", n, "")
Span(n, unit) == Text("span", n, unit)
Size(n, unit) == Text("size", n, unit)
\* The storage root `r` with the job's sub directory appended n times.
Path(r, n) == Text("path", n, r)
Empty == Word("")
\* A text with ${NAME} in it, one with $${NAME}, and a path with a `..` in it.
Ref(name) == Text("ref", 0, name)
Escaped(name) == Text("escaped", 0, name)
Dotted(w) == Text("dotted", 0, w)

Value(t, x, s) == [type |-> t, text |-> x, items |-> s]
Null == Value("null", Empty, {})
Str(x) == Value("string", x, {})
Num(n) == Value("number", Digits(n), {})
Bool(b) == Value("bool", Word(IF b THEN "true" ELSE "false"), {})
List(s) == Value("list", Empty, s)

\* The fields of JobDoc that are told apart.
Numbers == {"retry"}
Flags == {"enabled"}
Lists == {"options"}
Texts == {"worker", "upstream", "storage", "mirror_subdir", "timeout", "memory_limit",
          "misfire_policy", "provider", "stage1_profile", "command", "image", "parser",
          "branch", "schedule", "cron", "at", "weekday", "every"}
Fields == Numbers \cup Flags \cup Lists \cup Texts

\* A field of an object, Null when the object does not have it.
At(doc, f) == IF f \in DOMAIN doc THEN doc[f] ELSE Null

\* The object with the fields of `full` that are not Null.
Object(full) == [f \in {g \in Fields : full[g] # Null} |-> full[f]]

Set(json, f, v) == Object([g \in Fields |-> IF g = f THEN v ELSE At(json, g)])

\* None of an optional number.
None == -1

-----------------------------------------------------------------------------
(* Durations in seconds, memory in KiB. *)

Seconds == [s |-> 1, m |-> 60, h |-> 3600, d |-> 86400]
KiB == [K |-> 1, M |-> 1024, G |-> 1048576]
TenYears == 3600 * 24 * 365 * 10

parse_duration_human(x) ==
    IF x.class = "span" THEN x.num * Seconds[x.word] ELSE None

\* A plausible slip: hours are tried before days, with a day's length.
format_duration_in_days(secs) ==
    IF secs = None THEN Null
    ELSE IF secs <= 0 THEN Str(Empty)
    ELSE Str(IF secs % 3600 = 0 THEN Span(secs \div 86400, "d") ELSE Span(secs, "s"))

format_duration_field(secs) ==
    IF secs = None THEN Null
    ELSE IF secs <= 0 \/ secs > TenYears THEN Str(Empty)
    ELSE Str(CASE secs % 86400 = 0 -> Span(secs \div 86400, "d")
               [] secs % 86400 # 0 /\ secs % 3600 = 0 -> Span(secs \div 3600, "h")
               [] secs % 3600 # 0 /\ secs % 60 = 0 -> Span(secs \div 60, "m")
               [] OTHER -> Span(secs, "s"))

\* A bare number is read in MB.
parse_mem(x) == CASE x.class = "size" -> x.num * KiB[x.word]
                  [] x.class = "digits" -> x.num * 1024
                  [] OTHER -> None

\* A size that is no multiple of a MiB is shown as its number of bytes.
format_memory_field(kib) ==
    IF kib = None THEN Null
    ELSE Str(CASE kib = 0 -> Empty
               [] kib # 0 /\ kib % 1048576 = 0 -> Size(kib \div 1048576, "G")
               [] kib % 1048576 # 0 /\ kib % 1024 = 0 -> Size(kib \div 1024, "M")
               [] OTHER -> Digits(kib * 1024))

\* A text, a value of an object, an object or block (JobDoc).
IsText(x) == /\ x = Text(x.class, x.num, x.word) /\ x.num \in Nat
             /\ x.class = "span" => x.word \in DOMAIN Seconds
             /\ x.class = "size" => x.word \in DOMAIN KiB
IsValue(v) == /\ v \in {Str(v.text), Num(v.text.num), Bool(TRUE), Bool(FALSE), List(v.items)}
              /\ IsText(v.text)
IsDoc(doc) == /\ doc = [f \in DOMAIN doc |-> doc[f]] /\ DOMAIN doc \subseteq Fields
              /\ \A f \in DOMAIN doc : IsValue(doc[f])

ASSUME EnvAssumption == \A v \in DOMAIN Env : IsText(Env[v])

-----------------------------------------------------------------------------
(* The loader, first: variables are replaced in the text of a file. *)

\* What a variable holds is not looked at again.
try_expand(x) == CASE x.class = "ref" /\ x.word \in DOMAIN Env -> Env[x.word]
                   [] x.class = "escaped" -> Ref(x.word)
                   [] OTHER -> x

expand_env(doc) == [f \in DOMAIN doc |-> Value(doc[f].type, try_expand(doc[f].text),
                                               {try_expand(x) : x \in doc[f].items})]

TextsOf(doc, f) == {doc[f].text} \cup doc[f].items

\* A variable that is not set is an error.
Unset(doc) == \E f \in DOMAIN doc : \E x \in TextsOf(doc, f) :
                  x.class = "ref" /\ x.word \notin DOMAIN Env

\* The fields with a text that expand_env changes.
Referring(doc) == {f \in DOMAIN doc : \E x \in TextsOf(doc, f) : x.class \in {"ref", "escaped"}}

-----------------------------------------------------------------------------
(* The loader, then: a block is refused or resolved. *)

Schedule(kind, x, y) == [kind |-> kind, first |-> x, second |-> y]

ScheduleFields == [cron |-> {"cron"}, daily |-> {"at"}, weekly |-> {"weekday", "at"},
                   interval |-> {"every"}, manual |-> {}, startup |-> {}]

\* What the parsers of clock times, weekdays and cron lines accept.
Parses(f, x) == CASE f = "every" -> parse_duration_human(x) # None
                  [] f = "at" -> x.class = "time"
                  [] f = "weekday" -> x.class = "day"
                  [] OTHER -> x.class = "cron"

ScheduleRefused(doc) ==
    LET kind == At(doc, "schedule").text.word
    IN  \/ At(doc, "schedule") = Null
        \/ At(doc, "schedule").text.class # "word"
        \/ kind \notin DOMAIN ScheduleFields
        \/ \E f \in ScheduleFields[kind] : At(doc, f) = Null \/ ~Parses(f, At(doc, f).text)
        \/ \E f \in {"cron", "at", "weekday", "every"} \ ScheduleFields[kind] : At(doc, f) # Null

resolve_schedule(doc) ==
    CASE At(doc, "schedule").text.word = "interval" ->
            Schedule("interval", Digits(parse_duration_human(At(doc, "every").text)), Empty)
      [] At(doc, "schedule").text.word = "weekly" ->
            Schedule("weekly", At(doc, "weekday").text, At(doc, "at").text)
      [] At(doc, "schedule").text.word = "daily" -> Schedule("daily", At(doc, "at").text, Empty)
      [] At(doc, "schedule").text.word = "cron" -> Schedule("cron", At(doc, "cron").text, Empty)
      [] OTHER -> Schedule(At(doc, "schedule").text.word, Empty, Empty)

Required == [rsync |-> {"upstream"}, git |-> {"upstream"}, script |-> {"command"},
             docker |-> {"image"}, http |-> {"parser"}] 

ProviderNeeds(p) == IF p = "two-stage-rsync" THEN {"upstream"} ELSE Required[p]
ProviderNames == DOMAIN Required \cup {"two-stage-rsync"}
Profiles == {"debian", "debian-oldstyle"}
Parsers == {"nginx", "apache", "caddy", "s3", "directory-listing", "fallback"}

ProviderRefused(doc) ==
    LET p == At(doc, "provider").text.word
    IN  \/ At(doc, "provider") = Null
        \/ p \notin ProviderNames
        \/ \E f \in ProviderNeeds(p) : At(doc, f) = Null
        \/ p = "two-stage-rsync" /\ At(doc, "stage1_profile") # Null
             /\ At(doc, "stage1_profile").text.word \notin Profiles
        \/ p = "http" /\ At(doc, "parser").text.word \notin Parsers

\* The settings of its own that each provider takes from the block.
resolve_provider(doc) ==
    LET p == At(doc, "provider").text.word
        own == CASE p = "two-stage-rsync" -> IF At(doc, "stage1_profile") = Null THEN Word("debian")
                                            ELSE At(doc, "stage1_profile").text
                 [] p = "script" -> At(doc, "command").text
                 [] p = "docker" -> At(doc, "image").text
                 [] p = "http" -> At(doc, "parser").text
                 [] p = "git" -> At(doc, "branch").text
                 [] OTHER -> Empty
    IN  [type |-> p, own |-> own,
         options |-> IF p \in {"rsync", "two-stage-rsync"} THEN At(doc, "options").items ELSE {}]

\* deny_unknown_fields and the types of JobDoc's fields.
Mistyped(doc) ==
    \/ \E f \in Numbers : At(doc, f).type \notin {"null", "number"}
    \/ \E f \in Flags : At(doc, f).type \notin {"null", "bool"}
    \/ \E f \in Lists : At(doc, f).type \notin {"null", "list"}
    \/ \E f \in Texts \ {"timeout"} : At(doc, f).type \notin {"null", "string"}
    \/ At(doc, "timeout").type \notin {"null", "string", "number"}

\* Everything resolve_job refuses.
Refused(doc) ==
    \/ Mistyped(doc)
    \/ ScheduleRefused(doc)
    \/ ProviderRefused(doc)
    \/ At(doc, "storage") = Null \/ At(doc, "storage").text.class = "dotted"
    \/ At(doc, "mirror_subdir") # Null
         /\ (At(doc, "mirror_subdir").text = Empty \/ At(doc, "mirror_subdir").text.class = "dotted")
    \/ At(doc, "timeout").type = "string" /\ parse_duration_human(At(doc, "timeout").text) = None
    \/ At(doc, "memory_limit") # Null /\ parse_mem(At(doc, "memory_limit").text) = None
    \/ At(doc, "misfire_policy") # Null
         /\ At(doc, "misfire_policy").text.word \notin {"skip", "run-immediately", "run-next"}

OrElse(v, default) == IF v = Null THEN default ELSE v.text

\* The storage path gets the sub directory appended; the field stays set.
resolve_job(doc) ==
    [enabled |-> At(doc, "enabled") \in {Null, Bool(TRUE)},
     worker |-> At(doc, "worker").text,
     provider |-> resolve_provider(doc),
     upstream |-> At(doc, "upstream").text,
     storage |-> IF At(doc, "mirror_subdir") = Null THEN At(doc, "storage").text
                 ELSE Path(At(doc, "storage").text.word, At(doc, "storage").text.num + 1),
     mirror_subdir |-> At(doc, "mirror_subdir").text,
     timeout |-> CASE At(doc, "timeout") = Null -> None
                   [] At(doc, "timeout").type = "number" -> At(doc, "timeout").text.num
                   [] OTHER -> parse_duration_human(At(doc, "timeout").text),
     retry |-> IF At(doc, "retry") = Null THEN 3 ELSE At(doc, "retry").text.num,
     misfire |-> OrElse(At(doc, "misfire_policy"), Word("skip")),
     schedule |-> resolve_schedule(doc),
     memory |-> IF At(doc, "memory_limit") = Null THEN None ELSE parse_mem(At(doc, "memory_limit").text)]

-----------------------------------------------------------------------------
(* The editor: the object shown for a specification. *)

OptStr(x) == IF x = Empty THEN Null ELSE Str(x)

\* Clock times and weekdays are serialized as arrays and numbers, whose
\* text the parsers of the loader do not read back.
Scalar(x) == Text("raw", x.num, x.word)

schedule_to_editor(s, f) ==
    CASE f = "schedule" -> Str(Word(s.kind))
      [] f = "every" /\ s.kind = "interval" -> format_duration_field(s.first.num)
      [] f = "cron" /\ s.kind = "cron" -> Str(s.first)
      [] f = "at" /\ s.kind = "daily" -> Str(Scalar(s.first))
      [] f = "at" /\ s.kind = "weekly" -> Str(Scalar(s.second))
      [] f = "weekday" /\ s.kind = "weekly" -> Str(Scalar(s.first))
      [] OTHER -> Null

\* The name of a provider's type as it is serialized: the loader reads every one
\* but that of a two-stage job.
Serialized(p) == IF p = "two-stage-rsync" THEN "twostagersync" ELSE p

\* The rows a provider's own table adds.
provider_to_editor(p, f) ==
    CASE f = "provider" -> Str(Word(Serialized(p.type)))
      [] f = "options" /\ p.type \in {"rsync", "two-stage-rsync"} -> List(p.options)
      [] f = "stage1_profile" /\ p.type = "two-stage-rsync" -> Str(p.own)
      [] f = "command" /\ p.type = "script" -> Str(p.own)
      [] f = "image" /\ p.type = "docker" -> Str(p.own)
      [] f = "parser" /\ p.type = "http" -> Str(p.own)
      [] f = "branch" /\ p.type = "git" -> OptStr(p.own)
      [] OTHER -> Null

copied(s, f) ==
    CASE f = "enabled" -> Bool(s.enabled)
      [] f = "worker" -> OptStr(s.worker)
      [] f = "upstream" -> OptStr(s.upstream)
      [] f = "storage" -> Str(s.storage)
      [] f = "mirror_subdir" -> OptStr(s.mirror_subdir)
      [] f = "retry" -> Num(s.retry)
      [] f = "misfire_policy" -> Str(s.misfire)
      [] OTHER -> Null

ScheduleRows == {"schedule", "cron", "at", "weekday", "every"}
ProviderRows == {"provider", "options", "stage1_profile", "command", "image",
                 "parser", "branch"}

spec_to_editor(s) ==
    Object([f \in Fields |->
        CASE f \in ScheduleRows -> schedule_to_editor(s.schedule, f)
          [] f \in ProviderRows -> provider_to_editor(s.provider, f)
          [] f = "memory_limit" -> format_memory_field(s.memory)
          [] f = "timeout" -> format_duration_field(s.timeout)
          [] OTHER -> copied(s, f)])

\* The type of the current value decides how the typed text is read.
set_json_field(json, f, x) ==
    LET old == At(json, f).type
    IN  Set(json, f, CASE x = Empty /\ old # "list" -> Null
                       [] old = "number" -> IF x.class = "digits" THEN Num(x.num) ELSE Str(x)
                       [] old = "bool" -> Bool(x = Word("true"))
                       [] old = "list" -> List({x})
                       [] OTHER -> Str(x))

set_json_array(json, f, items) == Set(json, f, List(items))

\* validate_job_text accepts the object as the block of a job: as it is typed,
\* with its variables in it.
Valid(json) == ~Refused(json)

\* The parts of the specification that a field of the form decides.
Decides(f) == CASE f \in ScheduleRows -> {"schedule"}
                [] f \in ProviderRows -> {"provider"}
                [] f = "memory_limit" -> {"memory"}
                [] f = "misfire_policy" -> {"misfire"}
                [] f = "mirror_subdir" -> {"mirror_subdir", "storage"}
                [] OTHER -> {f}

Differs(s, t) == {part \in DOMAIN s : s[part] # t[part]}

=============================================================================
