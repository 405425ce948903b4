---------------------------- MODULE ConsoleProofs ----------------------------
(***************************************************************************)
(* The terminal console keeps what the operator wrote, for all jobs, files *)
(* and fields, any number of commands and edits, and every interleaving of *)
(* the loop, its tasks and the manager.                                    *)
(*                                                                         *)
(* First the conversions of JobForm: of what is resolved from a block,     *)
(* shown in the editor and written back, the parts of fields that were not *)
(* edited come out as they were (RoundTrip).  Then the console: the object *)
(* in the editor, in the snapshot, in the copies of the tasks and in the   *)
(* command that saves it, is the shown specification but for the edited    *)
(* fields.                                                                 *)
(***************************************************************************)
EXTENDS Console, WellFoundedInduction, TLAPS

-----------------------------------------------------------------------------
(* Values and objects. *)

LEMMA ValueParts ==
    /\ Null.type = "null" /\ Null.text = Empty /\ Null.items = {}
    /\ \A x : Str(x).type = "string" /\ Str(x).text = x /\ Str(x).items = {} /\ Str(x) # Null
    /\ \A n : Num(n).type = "number" /\ Num(n).text = Digits(n) /\ Num(n).items = {}
    /\ \A n : Num(n) # Null
    /\ \A b : Bool(b).type = "bool" /\ Bool(b).items = {} /\ Bool(b) # Null
    /\ Bool(TRUE) # Bool(FALSE)
    /\ Bool(TRUE).text = Word("true") /\ Bool(FALSE).text = Word("false")
    /\ \A s : List(s).type = "list" /\ List(s).text = Empty /\ List(s).items = s
    /\ \A s : List(s) # Null
<1>1. /\ Null.type = "null" /\ Null.text = Empty /\ Null.items = {}
  BY DEF Null, Value
<1>2. \A x : Str(x).type = "string" /\ Str(x).text = x /\ Str(x).items = {}
  BY DEF Str, Value
<1>3. \A n : Num(n).type = "number" /\ Num(n).text = Digits(n) /\ Num(n).items = {}
  BY DEF Num, Value
<1>4. \A b : Bool(b).type = "bool" /\ Bool(b).items = {}
  BY DEF Bool, Value
<1>5. Bool(TRUE).text = Word("true") /\ Bool(FALSE).text = Word("false")
  BY DEF Bool, Value
<1>6. Word("true") # Word("false")
  BY DEF Word, Text
<1>7. \A s : List(s).type = "list" /\ List(s).text = Empty /\ List(s).items = s
  BY DEF List, Value
<1> QED
  BY <1>1, <1>2, <1>3, <1>4, <1>5, <1>6, <1>7

LEMMA TextParts ==
    /\ \A c, n, w : Text(c, n, w).class = c /\ Text(c, n, w).num = n /\ Text(c, n, w).word = w
    /\ Empty.class = "word" /\ Empty.num = 0
    /\ \A w : Word(w).class = "word" /\ Word(w).num = 0 /\ Word(w).word = w
    /\ \A n : Digits(n).class = "digits" /\ Digits(n).num = n
    /\ \A n, u : Span(n, u).class = "span" /\ Span(n, u).num = n /\ Span(n, u).word = u
    /\ \A n, u : Size(n, u).class = "size" /\ Size(n, u).num = n /\ Size(n, u).word = u
<1>1. \A c, n, w : Text(c, n, w).class = c /\ Text(c, n, w).num = n /\ Text(c, n, w).word = w
  BY DEF Text
<1>2. \A w : Word(w).class = "word" /\ Word(w).num = 0 /\ Word(w).word = w
  BY <1>1 DEF Word
<1>3. \A n : Digits(n).class = "digits" /\ Digits(n).num = n
  BY <1>1 DEF Digits
<1>4. \A n, u : Span(n, u).class = "span" /\ Span(n, u).num = n /\ Span(n, u).word = u
  BY <1>1 DEF Span
<1>5. \A n, u : Size(n, u).class = "size" /\ Size(n, u).num = n /\ Size(n, u).word = u
  BY <1>1 DEF Size
<1>6. Empty.class = "word" /\ Empty.num = 0
  BY <1>2 DEF Empty
<1> QED
  BY <1>1, <1>2, <1>3, <1>4, <1>5, <1>6

\* The conversions yield texts and values.
LEMMA GoodTexts ==
    /\ IsText(Empty) /\ \A w : IsText(Word(w))
    /\ \A n \in Nat : IsText(Digits(n))
    /\ \A n \in Nat, u \in DOMAIN Seconds : IsText(Span(n, u))
    /\ \A n \in Nat, u \in DOMAIN KiB : IsText(Size(n, u))
    /\ \A r : \A n \in Nat : IsText(Path(r, n))
<1>1. \A w : IsText(Word(w))
  BY DEF IsText, Word, Text
<1>2. \A n \in Nat : IsText(Digits(n))
  BY DEF IsText, Digits, Text
<1>3. \A n \in Nat, u \in DOMAIN Seconds : IsText(Span(n, u))
  BY DEF IsText, Span, Text
<1>4. \A n \in Nat, u \in DOMAIN KiB : IsText(Size(n, u))
  BY DEF IsText, Size, Text
<1>5. \A r : \A n \in Nat : IsText(Path(r, n))
  BY DEF IsText, Path, Text
<1>6. IsText(Empty)
  BY <1>1 DEF Empty
<1> QED
  BY <1>1, <1>2, <1>3, <1>4, <1>5, <1>6

LEMMA GoodValues ==
    /\ \A x : IsText(x) => IsValue(Str(x))
    /\ \A n \in Nat : IsValue(Num(n))
    /\ IsValue(Bool(TRUE)) /\ IsValue(Bool(FALSE))
    /\ \A s : IsValue(List(s))
<1>1. IsText(Empty) /\ IsText(Word("true")) /\ IsText(Word("false"))
  BY GoodTexts
<1>2. \A x : IsText(x) => IsValue(Str(x))
  BY ValueParts DEF IsValue
<1>3. \A n \in Nat : IsValue(Num(n))
  BY ValueParts, TextParts, GoodTexts DEF IsValue
<1>4. IsValue(Bool(TRUE)) /\ IsValue(Bool(FALSE))
  BY <1>1, ValueParts DEF IsValue
<1>5. \A s : IsValue(List(s))
  BY <1>1, ValueParts DEF IsValue
<1> QED
  BY <1>2, <1>3, <1>4, <1>5

\* A field of a document is a value or absent, its text a text.
LEMMA DocParts ==
    ASSUME NEW d, IsDoc(d), NEW f
    PROVE  /\ At(d, f) = Null \/ IsValue(At(d, f))
           /\ IsText(At(d, f).text)
           /\ At(d, f).type = "null" <=> At(d, f) = Null
<1>1. At(d, f) = Null \/ IsValue(At(d, f))
  BY DEF At, IsDoc
<1>2. IsText(Empty)
  BY GoodTexts
<1>3. IsText(At(d, f).text)
  BY <1>1, <1>2, ValueParts DEF IsValue
<1>4. ASSUME NEW v, IsValue(v) PROVE v.type # "null"
  BY <1>4, ValueParts DEF IsValue
<1> QED
  BY <1>1, <1>3, <1>4, ValueParts

LEMMA ObjectParts ==
    ASSUME NEW full
    PROVE  /\ DOMAIN Object(full) \subseteq Fields
           /\ \A f \in Fields : At(Object(full), f) = full[f]
           /\ (\A f \in Fields : full[f] = Null \/ IsValue(full[f])) => IsDoc(Object(full))
<1>1. DOMAIN Object(full) \subseteq Fields
  BY DEF Object
<1>2. \A f \in Fields : At(Object(full), f) = full[f]
  BY DEF Object, At
<1>3. ASSUME \A f \in Fields : full[f] = Null \/ IsValue(full[f]) PROVE IsDoc(Object(full))
  BY <1>3 DEF Object, IsDoc
<1> QED
  BY <1>1, <1>2, <1>3

LEMMA SetParts ==
    ASSUME NEW json, NEW f, NEW v
    PROVE  /\ \A g \in Fields : At(Set(json, f, v), g) = IF g = f THEN v ELSE At(json, g)
           /\ IsDoc(json) /\ (v = Null \/ IsValue(v)) => IsDoc(Set(json, f, v))
<1> DEFINE full == [g \in Fields |-> IF g = f THEN v ELSE At(json, g)]
<1>1. \A g \in Fields : full[g] = IF g = f THEN v ELSE At(json, g)
  OBVIOUS
<1>2. Set(json, f, v) = Object(full)
  BY DEF Set
<1> HIDE DEF full
<1>3. ASSUME IsDoc(json), v = Null \/ IsValue(v) PROVE IsDoc(Set(json, f, v))
  <2>1. \A g \in Fields : full[g] = Null \/ IsValue(full[g])
    BY <1>1, <1>3, DocParts
  <2> QED
    BY <1>2, <2>1, ObjectParts
<1> QED
  BY <1>1, <1>2, <1>3, ObjectParts

-----------------------------------------------------------------------------
(* The way from a block to the editor and back. *)

\* What the editor shows, field by field.
LEMMA EditorRows ==
    ASSUME NEW s
    PROVE  LET e == spec_to_editor(s)
           IN  /\ \A f \in ScheduleRows : At(e, f) = schedule_to_editor(s.schedule, f)
               /\ \A f \in ProviderRows : At(e, f) = provider_to_editor(s.provider, f)
               /\ At(e, "memory_limit") = format_memory_field(s.memory)
               /\ At(e, "timeout") = format_duration_field(s.timeout)
               /\ At(e, "enabled") = Bool(s.enabled)
               /\ At(e, "worker") = OptStr(s.worker)
               /\ At(e, "upstream") = OptStr(s.upstream)
               /\ At(e, "storage") = Str(s.storage)
               /\ At(e, "mirror_subdir") = OptStr(s.mirror_subdir)
               /\ At(e, "retry") = Num(s.retry)
               /\ At(e, "misfire_policy") = Str(s.misfire)
<1> DEFINE row(f) == CASE f \in ScheduleRows -> schedule_to_editor(s.schedule, f)
                       [] f \in ProviderRows -> provider_to_editor(s.provider, f)
                       [] f = "memory_limit" -> format_memory_field(s.memory)
                       [] f = "timeout" -> format_duration_field(s.timeout)
                       [] OTHER -> copied(s, f)
           e == spec_to_editor(s)
           full == [f \in Fields |-> row(f)]
<1>1. \A f \in Fields : At(e, f) = row(f)
  <2>1. \A f \in Fields : full[f] = row(f)
    OBVIOUS
  <2>2. e = Object(full)
    BY DEF spec_to_editor
  <2> HIDE DEF full, row
  <2> QED
    BY <2>1, <2>2, ObjectParts
<1> HIDE DEF e
<1>2. \A f \in ScheduleRows : At(e, f) = schedule_to_editor(s.schedule, f)
  BY <1>1 DEF ScheduleRows, ProviderRows, Fields, Texts
<1>3. \A f \in ProviderRows : At(e, f) = provider_to_editor(s.provider, f)
  BY <1>1 DEF ScheduleRows, ProviderRows, Fields, Lists, Texts
<1>4. /\ At(e, "memory_limit") = format_memory_field(s.memory)
      /\ At(e, "timeout") = format_duration_field(s.timeout)
  BY <1>1 DEF ScheduleRows, ProviderRows, Fields, Texts
<1>5. \A f \in {"enabled", "worker", "upstream", "storage", "mirror_subdir", "retry",
                "misfire_policy"} : At(e, f) = copied(s, f)
  BY <1>1 DEF ScheduleRows, ProviderRows, Fields, Numbers, Flags, Texts
<1>6. /\ At(e, "enabled") = Bool(s.enabled) /\ At(e, "worker") = OptStr(s.worker)
      /\ At(e, "upstream") = OptStr(s.upstream) /\ At(e, "storage") = Str(s.storage)
      /\ At(e, "mirror_subdir") = OptStr(s.mirror_subdir) /\ At(e, "retry") = Num(s.retry)
      /\ At(e, "misfire_policy") = Str(s.misfire)
  BY <1>5 DEF copied
<1> QED
  BY <1>2, <1>3, <1>4, <1>6 DEF e

\* A positive duration, and a number of whole mebibytes, is read back as it was
\* shown; what else is shown the loader refuses.
LEMMA DurationBack ==
    ASSUME NEW n \in Nat, NEW v, v = format_duration_field(n)
    PROVE  /\ v # Null /\ IsValue(v) /\ v.type = "string"
           /\ parse_duration_human(v.text) \in {None, n}
<1>1. CASE n <= 0 \/ n > TenYears
  <2>1. v = Str(Empty)
    BY <1>1 DEF format_duration_field, None
  <2> QED
    BY <2>1, ValueParts, TextParts, GoodTexts, GoodValues DEF parse_duration_human
<1>2. CASE ~(n <= 0 \/ n > TenYears)
  <2>1. \/ n % 86400 = 0 /\ v = Str(Span(n \div 86400, "d"))
        \/ n % 3600 = 0 /\ v = Str(Span(n \div 3600, "h"))
        \/ n % 60 = 0 /\ v = Str(Span(n \div 60, "m"))
        \/ v = Str(Span(n, "s"))
    BY <1>2 DEF format_duration_field, None
  <2>2. /\ Seconds["d"] = 86400 /\ Seconds["h"] = 3600 /\ Seconds["m"] = 60 /\ Seconds["s"] = 1
        /\ {"d", "h", "m", "s"} \subseteq DOMAIN Seconds
    BY DEF Seconds
  <2>3. /\ n % 86400 = 0 => (n \div 86400) * 86400 = n
        /\ n % 3600 = 0 => (n \div 3600) * 3600 = n
        /\ n % 60 = 0 => (n \div 60) * 60 = n
        /\ n * 1 = n
        /\ n \div 86400 \in Nat /\ n \div 3600 \in Nat /\ n \div 60 \in Nat
    OBVIOUS
  <2>4. PICK m \in Nat, u \in {"d", "h", "m", "s"} : v = Str(Span(m, u)) /\ m * Seconds[u] = n
    BY <2>1, <2>2, <2>3
  <2>5. IsText(Span(m, u))
    BY <2>2, GoodTexts
  <2>6. v.text = Span(m, u) /\ parse_duration_human(v.text) = n
    BY <2>4, ValueParts, TextParts DEF parse_duration_human
  <2> QED
    BY <2>4, <2>5, <2>6, ValueParts, GoodValues
<1> QED
  BY <1>1, <1>2

LEMMA MemoryBack ==
    ASSUME NEW k \in Nat, k % 1024 = 0, NEW v, v = format_memory_field(k)
    PROVE  v # Null /\ IsValue(v) /\ parse_mem(v.text) \in {None, k}
<1>1. CASE k = 0
  <2>1. v = Str(Empty)
    BY <1>1 DEF format_memory_field, None
  <2> QED
    BY <2>1, ValueParts, TextParts, GoodTexts, GoodValues DEF parse_mem
<1>2. CASE k # 0
  <2>1. \/ k % 1048576 = 0 /\ v = Str(Size(k \div 1048576, "G"))
        \/ v = Str(Size(k \div 1024, "M"))
    BY <1>2 DEF format_memory_field, None
  <2>2. KiB["G"] = 1048576 /\ KiB["M"] = 1024 /\ {"G", "M"} \subseteq DOMAIN KiB
    BY DEF KiB
  <2>3. /\ k % 1048576 = 0 => (k \div 1048576) * 1048576 = k
        /\ (k \div 1024) * 1024 = k
        /\ k \div 1048576 \in Nat /\ k \div 1024 \in Nat
    OBVIOUS
  <2>4. PICK m \in Nat, u \in {"G", "M"} : v = Str(Size(m, u)) /\ m * KiB[u] = k
    BY <2>1, <2>2, <2>3
  <2>5. IsText(Size(m, u))
    BY <2>2, GoodTexts
  <2>6. v.text = Size(m, u) /\ parse_mem(v.text) = k
    BY <2>4, ValueParts, TextParts DEF parse_mem
  <2> QED
    BY <2>4, <2>5, <2>6, ValueParts, GoodValues
<1> QED
  BY <1>1, <1>2

\* A job without a sub directory, and one whose memory limit is a number of
\* whole mebibytes: others are not read back as they are shown.
NoSubdir(d) == At(d, "mirror_subdir").text = Empty
WholeText(x) == parse_mem(x) = None \/ parse_mem(x) % 1024 = 0
Whole(d) == WholeText(At(d, "memory_limit").text)

\* The object differs from what the editor shows for base in edited fields only.
Kept(json, base, edited) ==
    \A f \in Fields \ edited : At(json, f) = At(spec_to_editor(base), f)

Parts == {"enabled", "worker", "provider", "upstream", "storage", "mirror_subdir", "timeout",
          "retry", "misfire", "schedule", "memory"}

LEMMA ResolvedParts ==
    ASSUME NEW d
    PROVE  LET s == resolve_job(d)
           IN  /\ DOMAIN s = Parts
               /\ s.enabled = (At(d, "enabled") \in {Null, Bool(TRUE)})
               /\ s.worker = At(d, "worker").text /\ s.provider = resolve_provider(d)
               /\ s.upstream = At(d, "upstream").text
               /\ s.storage = IF At(d, "mirror_subdir") = Null THEN At(d, "storage").text
                              ELSE Path(At(d, "storage").text.word, At(d, "storage").text.num + 1)
               /\ s.mirror_subdir = At(d, "mirror_subdir").text
               /\ s.timeout = CASE At(d, "timeout") = Null -> None
                                [] At(d, "timeout").type = "number" -> At(d, "timeout").text.num
                                [] OTHER -> parse_duration_human(At(d, "timeout").text)
               /\ s.retry = IF At(d, "retry") = Null THEN 3 ELSE At(d, "retry").text.num
               /\ s.misfire = OrElse(At(d, "misfire_policy"), Word("skip"))
               /\ s.schedule = resolve_schedule(d)
               /\ s.memory = IF At(d, "memory_limit") = Null THEN None
                             ELSE parse_mem(At(d, "memory_limit").text)
BY DEF resolve_job, Parts

\* What the parsers return is None or a number.
LEMMA ParsedNumbers ==
    ASSUME NEW x, IsText(x)
    PROVE  /\ parse_duration_human(x) \in Nat \cup {None}
           /\ parse_mem(x) \in Nat \cup {None}
<1>1. x.num \in Nat /\ (x.class = "span" => x.word \in DOMAIN Seconds)
      /\ (x.class = "size" => x.word \in DOMAIN KiB)
  BY DEF IsText
<1>2. ASSUME NEW u \in DOMAIN Seconds PROVE Seconds[u] \in Nat
  BY DEF Seconds
<1>3. ASSUME NEW u \in DOMAIN KiB PROVE KiB[u] \in Nat
  BY DEF KiB
<1>4. \A m, n \in Nat : m * n \in Nat
  OBVIOUS
<1>5. parse_duration_human(x) \in Nat \cup {None}
  BY <1>1, <1>2, <1>4 DEF parse_duration_human
<1>6. parse_mem(x) \in Nat \cup {None}
  BY <1>1, <1>3, <1>4 DEF parse_mem
<1> QED
  BY <1>5, <1>6

\* Which fields decide a part.
LEMMA Deciders ==
    /\ \A f \in ScheduleRows : "schedule" \in Decides(f)
    /\ \A f \in ProviderRows : "provider" \in Decides(f)
    /\ "memory" \in Decides("memory_limit") /\ "misfire" \in Decides("misfire_policy")
    /\ {"mirror_subdir", "storage"} \subseteq Decides("mirror_subdir")
    /\ "storage" \in Decides("storage") /\ "timeout" \in Decides("timeout")
    /\ "enabled" \in Decides("enabled") /\ "worker" \in Decides("worker")
    /\ "upstream" \in Decides("upstream") /\ "retry" \in Decides("retry")
<1>1. \A f \in ScheduleRows : "schedule" \in Decides(f)
  BY DEF Decides, ScheduleRows, ProviderRows
<1>2. \A f \in ProviderRows : "provider" \in Decides(f)
  BY DEF Decides, ScheduleRows, ProviderRows
<1>3. /\ "memory" \in Decides("memory_limit") /\ "misfire" \in Decides("misfire_policy")
        /\ {"mirror_subdir", "storage"} \subseteq Decides("mirror_subdir")
  BY DEF Decides, ScheduleRows, ProviderRows
<1>4. /\ "storage" \in Decides("storage") /\ "timeout" \in Decides("timeout")
      /\ "enabled" \in Decides("enabled") /\ "worker" \in Decides("worker")
      /\ "upstream" \in Decides("upstream") /\ "retry" \in Decides("retry")
  BY DEF Decides, ScheduleRows, ProviderRows
<1> QED
  BY <1>1, <1>2, <1>3, <1>4

\* The schedule: daily and weekly ones are refused, so nothing of them is
\* written back.
LEMMA ScheduleBack ==
    ASSUME NEW d, IsDoc(d), ~Refused(d), NEW json, ~Refused(json),
           \A f \in ScheduleRows : At(json, f) = schedule_to_editor(resolve_schedule(d), f)
    PROVE  resolve_schedule(json) = resolve_schedule(d)
<1> DEFINE k == At(d, "schedule").text.word
           s == resolve_schedule(d)
<1>1. k \in DOMAIN ScheduleFields /\ ~ScheduleRefused(d) /\ ~ScheduleRefused(json)
  BY DEF Refused, ScheduleRefused
<1>2. k \in {"cron", "daily", "weekly", "interval", "manual", "startup"}
  BY <1>1 DEF ScheduleFields
<1>3. /\ s = Schedule(k, s.first, s.second) /\ s.kind = k
      /\ k = "interval" => s = Schedule(k, Digits(parse_duration_human(At(d, "every").text)), Empty)
      /\ k = "cron" => s = Schedule(k, At(d, "cron").text, Empty)
      /\ k \in {"manual", "startup"} => s = Schedule(k, Empty, Empty)
  BY <1>2 DEF resolve_schedule, Schedule
<1> HIDE DEF s
<1>4. /\ At(json, "schedule") = Str(Word(k))
      /\ k = "interval" => At(json, "every") = format_duration_field(s.first.num)
      /\ k = "cron" => At(json, "cron") = Str(s.first)
      /\ k = "daily" => At(json, "at") = Str(Scalar(s.first))
      /\ k = "weekly" => At(json, "at") = Str(Scalar(s.second))
  BY <1>3 DEF schedule_to_editor, ScheduleRows, s
<1>5. At(json, "schedule").text.word = k
  BY <1>4, ValueParts, TextParts
<1>6. \A f \in ScheduleFields[k] : Parses(f, At(json, f).text)
  BY <1>1, <1>5 DEF ScheduleRefused
<1>7. CASE k \in {"daily", "weekly"}
  <2>1. "at" \in ScheduleFields[k]
    BY <1>7 DEF ScheduleFields
  <2>2. At(json, "at").text.class = "time"
    BY <1>6, <2>1 DEF Parses
  <2>3. At(json, "at").text.class = "raw"
    BY <1>4, <1>7, ValueParts, TextParts DEF Scalar
  <2> QED
    BY <2>2, <2>3
<1>8. CASE k = "interval"
  <2>1. "every" \in ScheduleFields[k]
    BY <1>8 DEF ScheduleFields
  <2>2. parse_duration_human(At(json, "every").text) # None
    BY <1>6, <2>1 DEF Parses
  <2>3. PICK n \in Nat : n = parse_duration_human(At(d, "every").text)
    <3>1. parse_duration_human(At(d, "every").text) # None
      BY <1>1, <2>1 DEF ScheduleRefused, Parses
    <3> QED
      BY <3>1, DocParts, ParsedNumbers
  <2>4. s = Schedule("interval", Digits(n), Empty) /\ s.first = Digits(n)
    BY <1>3, <1>8, <2>3 DEF Schedule
  <2>5. At(json, "every") = format_duration_field(n)
    BY <1>4, <1>8, <2>4, TextParts
  <2>6. parse_duration_human(At(json, "every").text) = n
    BY <2>2, <2>5, DurationBack
  <2> QED
    BY <1>5, <1>8, <2>4, <2>6 DEF resolve_schedule, s
<1>9. CASE k = "cron"
  <2>1. At(json, "cron").text = s.first /\ s.first = At(d, "cron").text
    BY <1>3, <1>4, <1>9, ValueParts DEF Schedule
  <2>2. resolve_schedule(json) = Schedule("cron", At(json, "cron").text, Empty)
    BY <1>5, <1>9 DEF resolve_schedule
  <2> QED
    BY <1>3, <1>9, <2>1, <2>2 DEF s
<1>10. CASE k \in {"manual", "startup"}
  <2>1. resolve_schedule(json) = Schedule(k, Empty, Empty)
    BY <1>5, <1>10 DEF resolve_schedule
  <2> QED
    BY <1>3, <1>10, <2>1 DEF s
<1> QED
  BY <1>2, <1>7, <1>8, <1>9, <1>10

\* The provider: the name shown for a two-stage job is refused.
LEMMA ProviderBack ==
    ASSUME NEW d, IsDoc(d), ~Refused(d), NEW json, ~Refused(json),
           \A f \in ProviderRows : At(json, f) = provider_to_editor(resolve_provider(d), f)
    PROVE  resolve_provider(json) = resolve_provider(d)
<1> DEFINE p == resolve_provider(d)
           q == resolve_provider(json)
           k == At(d, "provider").text.word
<1>1. k \in ProviderNames /\ At(json, "provider").text.word \in ProviderNames
  BY DEF Refused, ProviderRefused
<1>2. /\ k \in {"rsync", "git", "script", "docker", "http", "two-stage-rsync"}
      /\ "twostagersync" \notin ProviderNames
  BY <1>1 DEF ProviderNames, Required
<1>3. /\ p.type = k
      /\ p.options = IF k \in {"rsync", "two-stage-rsync"} THEN At(d, "options").items ELSE {}
      /\ p = [type |-> p.type, own |-> p.own, options |-> p.options]
  BY DEF resolve_provider
<1>4. k = "rsync" => p.own = Empty
  BY DEF resolve_provider
<1> HIDE DEF p, k
<1>5. At(json, "provider").text.word = Serialized(k)
  <2>1. At(json, "provider") = Str(Word(Serialized(k)))
    BY <1>3 DEF provider_to_editor, ProviderRows, p
  <2> QED
    BY <2>1, ValueParts, TextParts
<1>6. k # "two-stage-rsync" /\ At(json, "provider").text.word = k
  BY <1>1, <1>2, <1>5 DEF Serialized
<1>7. /\ k = "rsync" => At(json, "options") = List(p.options)
      /\ k = "script" => At(json, "command") = Str(p.own)
      /\ k = "docker" => At(json, "image") = Str(p.own)
      /\ k = "http" => At(json, "parser") = Str(p.own)
      /\ k = "git" => At(json, "branch") = OptStr(p.own)
  BY <1>3 DEF provider_to_editor, ProviderRows, p
<1>8. q.type = k /\ q = [type |-> q.type, own |-> q.own, options |-> q.options]
  BY <1>6 DEF resolve_provider
<1>9. q.options = p.options
  <2>1. q.options = IF k \in {"rsync", "two-stage-rsync"} THEN At(json, "options").items ELSE {}
    BY <1>6 DEF resolve_provider
  <2> QED
    BY <1>3, <1>6, <1>7, <2>1, ValueParts
<1>10. q.own = p.own
  <2>1. /\ k = "rsync" => q.own = Empty
        /\ k = "script" => q.own = At(json, "command").text
        /\ k = "docker" => q.own = At(json, "image").text
        /\ k = "http" => q.own = At(json, "parser").text
        /\ k = "git" => q.own = At(json, "branch").text
    BY <1>6 DEF resolve_provider
  <2>2. OptStr(p.own).text = p.own
    BY ValueParts DEF OptStr
  <2> HIDE DEF q
  <2> QED
    BY <1>2, <1>4, <1>6, <1>7, <2>1, <2>2, ValueParts
<1> HIDE DEF q
<1> QED
  BY <1>3, <1>8, <1>9, <1>10 DEF p, q

\* resolve_job after spec_to_editor: of what was not edited, nothing changes.
LEMMA RoundTrip ==
    ASSUME NEW d, IsDoc(d), ~Refused(d), NoSubdir(d), Whole(d),
           NEW json, IsDoc(json), ~Refused(json), NEW E, Kept(json, resolve_job(d), E)
    PROVE  Differs(resolve_job(d), resolve_job(json)) \subseteq UNION {Decides(f) : f \in E}
<1> DEFINE s == resolve_job(d)
           t == resolve_job(json)
           e == spec_to_editor(s)
<1>0. \A f \in Fields : f \notin E => At(json, f) = At(e, f)
  BY DEF Kept
<1>1. "enabled" \notin E => s.enabled = t.enabled
  <2> SUFFICES ASSUME "enabled" \notin E PROVE s.enabled = t.enabled
    OBVIOUS
  <2>1. At(json, "enabled") = Bool(s.enabled)
    BY <1>0, EditorRows DEF Fields, Flags
  <2>2. s.enabled \in BOOLEAN
    <3>1. s.enabled = (At(d, "enabled") \in {Null, Bool(TRUE)})
      BY ResolvedParts
    <3>2. (At(d, "enabled") \in {Null, Bool(TRUE)}) \in BOOLEAN
      OBVIOUS
    <3> HIDE DEF s
    <3> QED
      BY <3>1, <3>2
  <2>3. t.enabled = (At(json, "enabled") \in {Null, Bool(TRUE)})
    BY ResolvedParts
  <2> HIDE DEF s, t
  <2>4. CASE s.enabled = TRUE
    BY <2>1, <2>3, <2>4
  <2>5. CASE s.enabled = FALSE
    <3>1. At(json, "enabled") = Bool(FALSE)
      BY <2>1, <2>5
    <3>2. ~(At(json, "enabled") \in {Null, Bool(TRUE)})
      BY <3>1, ValueParts
    <3>3. ~t.enabled
      BY <2>3, <3>2
    <3>4. t.enabled \in BOOLEAN
      BY <2>3
    <3> QED
      BY <2>5, <3>3, <3>4
  <2> QED
    BY <2>2, <2>4, <2>5
<1>2. ASSUME NEW x PROVE OptStr(x).text = x
  BY ValueParts DEF OptStr
<1>3. "worker" \notin E => s.worker = t.worker
  <2>1. "worker" \notin E => At(json, "worker") = OptStr(s.worker)
    BY <1>0, EditorRows DEF Fields, Texts
  <2>2. t.worker = At(json, "worker").text
    BY ResolvedParts
  <2> HIDE DEF s, t
  <2> QED
    BY <1>2, <2>1, <2>2
<1>4. "upstream" \notin E => s.upstream = t.upstream
  <2>1. "upstream" \notin E => At(json, "upstream") = OptStr(s.upstream)
    BY <1>0, EditorRows DEF Fields, Texts
  <2>2. t.upstream = At(json, "upstream").text
    BY ResolvedParts
  <2> HIDE DEF s, t
  <2> QED
    BY <1>2, <2>1, <2>2
<1>5. "mirror_subdir" \notin E => s.mirror_subdir = t.mirror_subdir /\ At(json, "mirror_subdir") = Null
  <2>1. "mirror_subdir" \notin E => At(json, "mirror_subdir") = OptStr(s.mirror_subdir)
    BY <1>0, EditorRows DEF Fields, Texts
  <2>2. t.mirror_subdir = At(json, "mirror_subdir").text /\ s.mirror_subdir = Empty
    BY ResolvedParts DEF NoSubdir
  <2> HIDE DEF s, t
  <2> QED
    BY <1>2, <2>1, <2>2 DEF OptStr
<1>6. "storage" \notin E /\ "mirror_subdir" \notin E => s.storage = t.storage
  <2>1. "storage" \notin E => At(json, "storage") = Str(s.storage)
    BY <1>0, EditorRows DEF Fields, Texts
  <2>2. At(json, "mirror_subdir") = Null => t.storage = At(json, "storage").text
    BY ResolvedParts
  <2> HIDE DEF s, t
  <2> QED
    BY <1>5, <2>1, <2>2, ValueParts
<1>7. "retry" \notin E => s.retry = t.retry
  <2>1. "retry" \notin E => At(json, "retry") = Num(s.retry)
    BY <1>0, EditorRows DEF Fields, Numbers
  <2>2. t.retry = IF At(json, "retry") = Null THEN 3 ELSE At(json, "retry").text.num
    BY ResolvedParts
  <2> HIDE DEF s, t
  <2> QED
    BY <2>1, <2>2, ValueParts, TextParts
<1>8. ASSUME NEW f, NEW w, NEW v, NEW x, v = OrElse(At(json, f), w), At(json, f) = Str(x)
      PROVE  v = x
  BY <1>8, ValueParts DEF OrElse
<1>9. "misfire_policy" \notin E => s.misfire = t.misfire
  <2>1. "misfire_policy" \notin E => At(json, "misfire_policy") = Str(s.misfire)
    BY <1>0, EditorRows DEF Fields, Texts
  <2>2. t.misfire = OrElse(At(json, "misfire_policy"), Word("skip"))
    BY ResolvedParts
  <2> HIDE DEF s, t
  <2> QED
    BY <1>8, <2>1, <2>2
<1>12. "timeout" \notin E => s.timeout = t.timeout
  <2> SUFFICES ASSUME "timeout" \notin E PROVE s.timeout = t.timeout
    OBVIOUS
  <2>1. At(json, "timeout") = format_duration_field(s.timeout)
    BY <1>0, EditorRows DEF Fields, Texts
  <2>2. s.timeout \in Nat \cup {None}
    <3>1. IsText(At(d, "timeout").text) /\ At(d, "timeout").text.num \in Nat
      BY DocParts DEF IsText
    <3> QED
      BY <3>1, ResolvedParts, ParsedNumbers
  <2>3. t.timeout = CASE At(json, "timeout") = Null -> None
                      [] At(json, "timeout").type = "number" -> At(json, "timeout").text.num
                      [] OTHER -> parse_duration_human(At(json, "timeout").text)
    BY ResolvedParts
  <2>4. At(json, "timeout").type = "string" => parse_duration_human(At(json, "timeout").text) # None
    BY DEF Refused
  <2> HIDE DEF s, t
  <2>5. CASE s.timeout = None
    BY <2>1, <2>3, <2>5, ValueParts DEF format_duration_field
  <2>6. CASE s.timeout \in Nat
    BY <2>1, <2>3, <2>4, <2>6, DurationBack
  <2> QED
    BY <2>2, <2>5, <2>6
<1>13. "memory_limit" \notin E => s.memory = t.memory
  <2> SUFFICES ASSUME "memory_limit" \notin E PROVE s.memory = t.memory
    OBVIOUS
  <2>1. At(json, "memory_limit") = format_memory_field(s.memory)
    BY <1>0, EditorRows DEF Fields, Texts
  <2>2. s.memory \in Nat \cup {None} /\ (s.memory = None \/ s.memory % 1024 = 0)
    <3>1. IsText(At(d, "memory_limit").text)
      BY DocParts
    <3>2. s.memory = IF At(d, "memory_limit") = Null THEN None
                     ELSE parse_mem(At(d, "memory_limit").text)
      BY ResolvedParts
    <3> HIDE DEF s
    <3> QED
      BY <3>1, <3>2, ParsedNumbers DEF Whole, WholeText
  <2>3. t.memory = IF At(json, "memory_limit") = Null THEN None
                   ELSE parse_mem(At(json, "memory_limit").text)
    BY ResolvedParts
  <2>4. At(json, "memory_limit") # Null => parse_mem(At(json, "memory_limit").text) # None
    BY DEF Refused
  <2> HIDE DEF s, t
  <2>5. CASE s.memory = None
    BY <2>1, <2>3, <2>5 DEF format_memory_field
  <2>6. CASE s.memory # None
    <3>1. s.memory \in Nat /\ s.memory % 1024 = 0
      BY <2>2, <2>6
    <3> QED
      BY <2>1, <2>3, <2>4, <3>1, MemoryBack
  <2> QED
    BY <2>5, <2>6
<1>14. ScheduleRows \cap E = {} => s.schedule = t.schedule
  <2> SUFFICES ASSUME ScheduleRows \cap E = {} PROVE s.schedule = t.schedule
    OBVIOUS
  <2>1. s.schedule = resolve_schedule(d) /\ t.schedule = resolve_schedule(json)
    BY ResolvedParts
  <2>2. ScheduleRows \subseteq Fields
    BY DEF ScheduleRows, Fields, Texts
  <2>3. \A f \in ScheduleRows : At(e, f) = schedule_to_editor(s.schedule, f)
    BY EditorRows
  <2> HIDE DEF s, t, e
  <2>4. \A f \in ScheduleRows : At(json, f) = schedule_to_editor(resolve_schedule(d), f)
    BY <1>0, <2>1, <2>2, <2>3
  <2> QED
    BY <2>1, <2>4, ScheduleBack
<1>15. ProviderRows \cap E = {} => s.provider = t.provider
  <2> SUFFICES ASSUME ProviderRows \cap E = {} PROVE s.provider = t.provider
    OBVIOUS
  <2>1. s.provider = resolve_provider(d) /\ t.provider = resolve_provider(json)
    BY ResolvedParts
  <2>2. ProviderRows \subseteq Fields
    BY DEF ProviderRows, Fields, Lists, Texts
  <2>3. \A f \in ProviderRows : At(e, f) = provider_to_editor(s.provider, f)
    BY EditorRows
  <2> HIDE DEF s, t, e
  <2>4. \A f \in ProviderRows : At(json, f) = provider_to_editor(resolve_provider(d), f)
    BY <1>0, <2>1, <2>2, <2>3
  <2> QED
    BY <2>1, <2>4, ProviderBack
<1>16. DOMAIN s = Parts
  BY ResolvedParts
<1> HIDE DEF s, t, e
<1>17. ASSUME NEW part \in Parts, s[part] # t[part] PROVE \E f \in E : part \in Decides(f)
  <2>1. CASE part \in {"enabled", "worker", "upstream", "retry", "timeout"}
    BY <1>1, <1>3, <1>4, <1>7, <1>12, <1>17, <2>1, Deciders
  <2>2. CASE part \in {"mirror_subdir", "storage"}
    BY <1>5, <1>6, <1>17, <2>2, Deciders
  <2>3. CASE part \in {"misfire", "memory"}
    BY <1>9, <1>13, <1>17, <2>3, Deciders
  <2>4. CASE part = "schedule"
    BY <1>14, <1>17, <2>4, Deciders
  <2>5. CASE part = "provider"
    BY <1>15, <1>17, <2>5, Deciders
  <2> QED
    BY <2>1, <2>2, <2>3, <2>4, <2>5 DEF Parts
<1> QED
  BY <1>16, <1>17 DEF Differs, s, t


-----------------------------------------------------------------------------
(* The editor's objects. *)

LEMMA OptStrValue ==
    ASSUME NEW x, IsText(x)
    PROVE  OptStr(x) = Null \/ IsValue(OptStr(x))
BY GoodValues DEF OptStr

\* What the schedule and the provider of a block are made of.
LEMMA ScheduleTexts ==
    ASSUME NEW d, IsDoc(d), ~Refused(d)
    PROVE  LET s == resolve_schedule(d) IN IsText(s.first) /\ IsText(s.second)
<1> DEFINE k == At(d, "schedule").text.word
           s == resolve_schedule(d)
<1>1. \A f : IsText(At(d, f).text)
  BY DocParts
<1>2. \A x, y : Schedule(k, x, y).first = x /\ Schedule(k, x, y).second = y
  BY DEF Schedule
<1>3. CASE k = "interval"
  <2>1. ~ScheduleRefused(d)
    BY DEF Refused
  <2>2. "every" \in ScheduleFields[k]
    BY <1>3 DEF ScheduleFields
  <2>3. parse_duration_human(At(d, "every").text) # None
    BY <2>1, <2>2 DEF ScheduleRefused, Parses
  <2>4. parse_duration_human(At(d, "every").text) \in Nat
    BY <1>1, <2>3, ParsedNumbers
  <2>5. s = Schedule(k, Digits(parse_duration_human(At(d, "every").text)), Empty)
    BY <1>3 DEF resolve_schedule
  <2> QED
    BY <1>2, <2>4, <2>5, GoodTexts
<1>4. CASE k # "interval"
  <2>1. \E x, y \in {Empty, At(d, "weekday").text, At(d, "at").text, At(d, "cron").text} :
            s = Schedule(k, x, y)
    BY <1>4 DEF resolve_schedule
  <2> QED
    BY <1>1, <1>2, <2>1, GoodTexts
<1> QED
  BY <1>3, <1>4

LEMMA ProviderTexts ==
    ASSUME NEW d, IsDoc(d)
    PROVE  IsText(resolve_provider(d).own)
<1>1. \A f : IsText(At(d, f).text)
  BY DocParts
<1>2. resolve_provider(d).own \in {Empty, Word("debian"), At(d, "stage1_profile").text,
          At(d, "command").text, At(d, "image").text, At(d, "parser").text, At(d, "branch").text}
  BY DEF resolve_provider
<1> QED
  BY <1>1, <1>2, GoodTexts

LEMMA ResolvedTexts ==
    ASSUME NEW d, IsDoc(d), ~Refused(d)
    PROVE  LET s == resolve_job(d)
           IN  /\ s.enabled \in BOOLEAN
               /\ IsText(s.worker) /\ IsText(s.upstream) /\ IsText(s.storage)
               /\ IsText(s.mirror_subdir) /\ IsText(s.misfire)
               /\ s.retry \in Nat /\ s.timeout \in Nat \cup {None} /\ s.memory \in Nat \cup {None}
<1> DEFINE s == resolve_job(d)
<1>1. \A f : IsText(At(d, f).text)
  BY DocParts
<1>2. s.enabled \in BOOLEAN
  <2>1. s.enabled = (At(d, "enabled") \in {Null, Bool(TRUE)})
    BY ResolvedParts
  <2>2. (At(d, "enabled") \in {Null, Bool(TRUE)}) \in BOOLEAN
    OBVIOUS
  <2> HIDE DEF s
  <2> QED
    BY <2>1, <2>2
<1>3. IsText(s.worker) /\ IsText(s.upstream) /\ IsText(s.mirror_subdir)
  BY <1>1, ResolvedParts
<1>4. IsText(s.storage)
  <2>1. \/ s.storage = At(d, "storage").text
        \/ s.storage = Path(At(d, "storage").text.word, At(d, "storage").text.num + 1)
    BY ResolvedParts
  <2>2. At(d, "storage").text.num \in Nat
    BY <1>1 DEF IsText
  <2> HIDE DEF s
  <2> QED
    BY <1>1, <2>1, <2>2, GoodTexts
<1>5. ASSUME NEW f, NEW w PROVE IsText(OrElse(At(d, f), Word(w)))
  BY <1>1, GoodTexts DEF OrElse
<1>6. IsText(s.misfire)
  BY <1>5, ResolvedParts
<1>7. \A f : At(d, f).text.num \in Nat
  BY <1>1 DEF IsText
<1>8. s.retry \in Nat
  <2>1. s.retry = IF At(d, "retry") = Null THEN 3 ELSE At(d, "retry").text.num
    BY ResolvedParts
  <2> HIDE DEF s
  <2> QED
    BY <1>7, <2>1
<1>9. s.timeout \in Nat \cup {None}
  BY <1>1, <1>7, ResolvedParts, ParsedNumbers
<1>10. s.memory \in Nat \cup {None}
  BY <1>1, ResolvedParts, ParsedNumbers
<1> QED
  BY <1>2, <1>3, <1>4, <1>6, <1>8, <1>9, <1>10

LEMMA EditorDoc ==
    ASSUME NEW d, IsDoc(d), ~Refused(d)
    PROVE  IsDoc(spec_to_editor(resolve_job(d)))
<1> DEFINE s == resolve_job(d)
           e == spec_to_editor(s)
           ok(v) == v = Null \/ IsValue(v)
<1>1. /\ s.enabled \in BOOLEAN
      /\ IsText(s.worker) /\ IsText(s.upstream) /\ IsText(s.storage) /\ IsText(s.mirror_subdir)
      /\ IsText(s.misfire)
      /\ s.retry \in Nat /\ s.timeout \in Nat \cup {None} /\ s.memory \in Nat \cup {None}
  BY ResolvedTexts
<1>2. IsText(s.schedule.first) /\ IsText(s.schedule.second) /\ IsText(s.provider.own)
  BY ResolvedParts, ScheduleTexts, ProviderTexts
<1> HIDE DEF s
<1>3. ASSUME NEW n \in Nat \cup {None} PROVE ok(format_duration_field(n))
  <2>1. CASE n = None
    BY <2>1 DEF format_duration_field
  <2>2. CASE n \in Nat
    BY <2>2, DurationBack
  <2> QED
    BY <2>1, <2>2
<1>4. ASSUME NEW n \in Nat \cup {None} PROVE ok(format_memory_field(n))
  <2>1. CASE n = None
    BY <2>1 DEF format_memory_field
  <2>2. CASE n # None
    <3>1. /\ "G" \in DOMAIN KiB /\ "M" \in DOMAIN KiB
          /\ n \div 1048576 \in Nat /\ n \div 1024 \in Nat /\ n * 1024 \in Nat
      BY <2>2 DEF KiB
    <3>2. \E x \in {Empty, Size(n \div 1048576, "G"), Size(n \div 1024, "M"), Digits(n * 1024)} :
              format_memory_field(n) = Str(x)
      BY <2>2 DEF format_memory_field
    <3> QED
      BY <3>1, <3>2, GoodTexts, GoodValues
  <2> QED
    BY <2>1, <2>2
<1>5. ASSUME NEW f \in ScheduleRows PROVE ok(At(e, f))
  <2>1. At(e, f) = schedule_to_editor(s.schedule, f)
    BY EditorRows
  <2>2. s.schedule.first.num \in Nat
    BY <1>2 DEF IsText
  <2>3. ASSUME NEW x, IsText(x) PROVE IsText(Scalar(x))
    BY <2>3 DEF IsText, Scalar, Text
  <2>4. \/ schedule_to_editor(s.schedule, f) \in
              {Null, Str(Word(s.schedule.kind)), Str(s.schedule.first),
               Str(Scalar(s.schedule.first)), Str(Scalar(s.schedule.second))}
        \/ schedule_to_editor(s.schedule, f) = format_duration_field(s.schedule.first.num)
    BY DEF schedule_to_editor
  <2> QED
    BY <1>2, <1>3, <2>1, <2>2, <2>3, <2>4, GoodTexts, GoodValues
<1>6. ASSUME NEW f \in ProviderRows PROVE ok(At(e, f))
  <2>1. At(e, f) = provider_to_editor(s.provider, f)
    BY EditorRows
  <2>2. provider_to_editor(s.provider, f) \in
            {Null, Str(Word(Serialized(s.provider.type))), List(s.provider.options),
             Str(s.provider.own), OptStr(s.provider.own)}
    BY DEF provider_to_editor
  <2> QED
    BY <1>2, <2>1, <2>2, GoodTexts, GoodValues, OptStrValue
<1>7. ok(At(e, "memory_limit")) /\ ok(At(e, "timeout"))
  BY <1>1, <1>3, <1>4, EditorRows, GoodValues
<1>8. ok(At(e, "enabled"))
  <2>1. At(e, "enabled") = Bool(s.enabled)
    BY EditorRows
  <2> HIDE DEF e
  <2>2. CASE s.enabled = TRUE
    BY <2>1, <2>2, GoodValues
  <2>3. CASE s.enabled = FALSE
    BY <2>1, <2>3, GoodValues
  <2> QED
    BY <1>1, <2>2, <2>3
<1>9. /\ ok(At(e, "worker")) /\ ok(At(e, "upstream")) /\ ok(At(e, "storage"))
      /\ ok(At(e, "mirror_subdir")) /\ ok(At(e, "retry")) /\ ok(At(e, "misfire_policy"))
  BY <1>1, EditorRows, GoodValues, OptStrValue
<1>10. DOMAIN e \subseteq Fields
  BY ObjectParts DEF spec_to_editor
<1> HIDE DEF e
<1>11. \A f \in Fields : ok(At(e, f))
  <2>1. Fields = ScheduleRows \cup ProviderRows \cup
                 {"memory_limit", "timeout", "enabled", "worker",
                  "upstream", "storage", "mirror_subdir", "retry", "misfire_policy"}
    BY DEF Fields, Numbers, Flags, Lists, Texts, ScheduleRows, ProviderRows
  <2> HIDE DEF ok
  <2> QED
    BY <1>5, <1>6, <1>7, <1>8, <1>9, <2>1
<1>12. (\A f \in DOMAIN e : e[f] # Null) /\ e = [f \in DOMAIN e |-> e[f]]
  BY DEF e, spec_to_editor, Object
<1>13. IsDoc(e)
  BY <1>10, <1>11, <1>12 DEF IsDoc, At
<1> QED
  BY <1>13 DEF e, s

\* No block has a sub directory and none gets one; memory limits are whole
\* mebibytes, as those the editor offers are, also where a variable is one.
NoSubdirs == "mirror_subdir" \notin Editable /\ \A d \in GivenDocs : NoSubdir(d)
WholeMebibytes == /\ \A d \in GivenDocs : Whole(d)
                  /\ \A v \in DOMAIN Env : WholeText(Env[v])

\* A block, or an object of the editor.
Fine(d) == IsDoc(d) /\ (NoSubdirs => NoSubdir(d)) /\ (WholeMebibytes => Whole(d))

\* What the loader makes of a block it does not refuse, once its variables are
\* replaced.
IsSpec(s) == \E d : Fine(d) /\ ~Refused(d) /\ s = resolve_job(d)

LEMMA ShownIsFine ==
    ASSUME NEW s, IsSpec(s)
    PROVE  Fine(spec_to_editor(s))
<1>1. PICK d : Fine(d) /\ ~Refused(d) /\ s = resolve_job(d)
  BY DEF IsSpec
<1> DEFINE e == spec_to_editor(s)
<1>2. IsDoc(d) /\ IsDoc(e)
  BY <1>1, EditorDoc DEF Fine
<1>3. ASSUME NoSubdir(d) PROVE NoSubdir(e)
  <2>1. At(e, "mirror_subdir") = OptStr(s.mirror_subdir) /\ s.mirror_subdir = Empty
    BY <1>1, <1>3, EditorRows, ResolvedParts DEF NoSubdir
  <2> HIDE DEF e
  <2> QED
    BY <2>1, ValueParts DEF OptStr, NoSubdir
<1>4. ASSUME Whole(d) PROVE Whole(e)
  <2>1. At(e, "memory_limit") = format_memory_field(s.memory)
    BY EditorRows
  <2>2. s.memory = IF At(d, "memory_limit") = Null THEN None
                   ELSE parse_mem(At(d, "memory_limit").text)
    BY <1>1, ResolvedParts
  <2>3. s.memory \in Nat \cup {None}
    BY <1>1, <1>2, ResolvedTexts
  <2>4. s.memory = None \/ s.memory % 1024 = 0
    BY <1>4, <2>2 DEF Whole, WholeText
  <2> HIDE DEF e
  <2>5. CASE s.memory = None
    <3>1. At(e, "memory_limit").text = Empty
      BY <2>1, <2>5, ValueParts DEF format_memory_field
    <3> QED
      BY <3>1, TextParts DEF Whole, WholeText, parse_mem
  <2>6. CASE s.memory # None
    <3>1. parse_mem(At(e, "memory_limit").text) \in {None, s.memory}
      BY <2>1, <2>3, <2>4, <2>6, MemoryBack
    <3> QED
      BY <2>4, <3>1 DEF Whole, WholeText
  <2> QED
    BY <2>5, <2>6
<1> HIDE DEF e
<1>5. Fine(e)
  BY <1>1, <1>2, <1>3, <1>4 DEF Fine
<1> QED
  BY <1>5 DEF e

\* A field is set to a value, or taken away.
LEMMA SetIsFine ==
    ASSUME NEW json, Fine(json), NEW f, NEW v, v = Null \/ IsValue(v),
           NoSubdirs => f # "mirror_subdir",
           f = "memory_limit" => WholeText(v.text)
    PROVE  Fine(Set(json, f, v))
<1>1. \A g \in Fields : At(Set(json, f, v), g) = IF g = f THEN v ELSE At(json, g)
  BY SetParts
<1>2. IsDoc(Set(json, f, v))
  BY SetParts DEF Fine
<1>3. "mirror_subdir" \in Fields /\ "memory_limit" \in Fields
  BY DEF Fields, Texts
<1>4. NoSubdirs => NoSubdir(Set(json, f, v))
  BY <1>1, <1>3 DEF Fine, NoSubdir
<1>5. WholeMebibytes => Whole(Set(json, f, v))
  BY <1>1, <1>3 DEF Fine, Whole
<1> QED
  BY <1>2, <1>4, <1>5 DEF Fine

\* Nothing but the field changes.
LEMMA SetIsKept ==
    ASSUME NEW json, NEW base, NEW E, Kept(json, base, E), NEW f, NEW v
    PROVE  Kept(Set(json, f, v), base, E \cup {f})
<1>1. \A g \in Fields : At(Set(json, f, v), g) = IF g = f THEN v ELSE At(json, g)
  BY SetParts
<1> QED
  BY <1>1 DEF Kept

\* A value the editor offers, or one the operator types, is set.
LEMMA FieldEdit ==
    ASSUME NEW json, Fine(json), NEW f \in Editable, NEW x \in pick_options_for_field(f)
    PROVE  /\ Fine(set_json_field(json, f, x))
           /\ \A base, E : Kept(json, base, E) => Kept(set_json_field(json, f, x), base, E \cup {f})
<1> DEFINE old == At(json, f).type
           v == CASE x = Empty /\ old # "list" -> Null
                  [] old = "number" -> IF x.class = "digits" THEN Num(x.num) ELSE Str(x)
                  [] old = "bool" -> Bool(x = Word("true"))
                  [] old = "list" -> List({x})
                  [] OTHER -> Str(x)
<1>1. set_json_field(json, f, x) = Set(json, f, v)
  BY DEF set_json_field
<1>2. \/ f = "memory_limit" /\ x \in {Empty} \cup {Size(n, "G") : n \in {1, 4}}
      \/ f # "memory_limit" /\ (x \in Typed \/ x = Empty \/ \E w : x = Word(w))
  BY DEF pick_options_for_field, schedule_options, provider_options
<1>3. "G" \in DOMAIN KiB /\ KiB["G"] = 1048576
  BY DEF KiB
<1>4. IsText(x)
  <2>1. \A n \in {1, 4} : IsText(Size(n, "G"))
    BY <1>3, GoodTexts
  <2>2. \A y \in Typed : IsText(y)
    BY ConsoleAssumption
  <2> QED
    BY <1>2, <2>1, <2>2, GoodTexts
<1>5. x.num \in Nat
  BY <1>4 DEF IsText
<1>6. v \in {Null, Num(x.num), Str(x), Bool(TRUE), Bool(FALSE), List({x})}
  OBVIOUS
<1>7. f = "memory_limit" => v # Num(x.num)
  <2>1. f = "memory_limit" => x.class # "digits"
    BY <1>2, TextParts
  <2>2. \A n : Num(n) \notin {Null, Str(x), Bool(TRUE), Bool(FALSE), List({x})}
    BY ValueParts
  <2> QED
    BY <2>1, <2>2
<1> HIDE DEF v
<1>8. v = Null \/ IsValue(v)
  BY <1>4, <1>5, <1>6, GoodValues
<1>9. f = "memory_limit" => WholeText(v.text)
  <2> SUFFICES ASSUME f = "memory_limit"
               PROVE  parse_mem(v.text) = None \/ parse_mem(v.text) % 1024 = 0
    BY DEF WholeText
  <2>1. v.text \in {Empty, x, Word("true"), Word("false")}
    <3>1. v \in {Null, Str(x), Bool(TRUE), Bool(FALSE), List({x})}
      BY <1>6, <1>7
    <3>2. /\ Null.text = Empty /\ Str(x).text = x /\ List({x}).text = Empty
          /\ Bool(TRUE).text = Word("true") /\ Bool(FALSE).text = Word("false")
      BY ValueParts
    <3> QED
      BY <3>1, <3>2
  <2>2. \A w : parse_mem(Word(w)) = None
    BY TextParts DEF parse_mem
  <2>3. parse_mem(Empty) = None
    BY TextParts DEF parse_mem
  <2>4. \A n \in {1, 4} : parse_mem(Size(n, "G")) = n * 1048576
    BY <1>3, TextParts DEF parse_mem
  <2>5. 1 * 1048576 % 1024 = 0 /\ 4 * 1048576 % 1024 = 0
    OBVIOUS
  <2> QED
    BY <1>2, <2>1, <2>2, <2>3, <2>4, <2>5
<1>10. NoSubdirs => f # "mirror_subdir"
  BY DEF NoSubdirs
<1> QED
  BY <1>1, <1>8, <1>9, <1>10, SetIsFine, SetIsKept

LEMMA ListEdit ==
    ASSUME NEW json, Fine(json), NEW f \in Editable, NEW items
    PROVE  /\ Fine(set_json_array(json, f, items))
           /\ \A base, E : Kept(json, base, E) => Kept(set_json_array(json, f, items), base, E \cup {f})
<1>1. set_json_array(json, f, items) = Set(json, f, List(items))
  BY DEF set_json_array
<1>2. IsValue(List(items)) /\ List(items).text = Empty
  BY GoodValues, ValueParts
<1>3. parse_mem(Empty) = None
  BY TextParts DEF parse_mem
<1>4. NoSubdirs => f # "mirror_subdir"
  BY DEF NoSubdirs
<1>5. Fine(Set(json, f, List(items)))
  BY <1>2, <1>3, <1>4, SetIsFine DEF WholeText
<1> QED
  BY <1>1, <1>5, SetIsKept

\* What comes from outside the console is fine.
LEMMA GivenIsFine ==
    ASSUME NEW d \in GivenDocs
    PROVE  Fine(d)
BY ConsoleAssumption DEF Fine, NoSubdirs, WholeMebibytes

-----------------------------------------------------------------------------
(* The variables in a block. *)

\* A document with its variables replaced is one, and the fields of which no
\* text has a variable are as they were.
LEMMA ExpandedParts ==
    ASSUME NEW d, IsDoc(d)
    PROVE  /\ IsDoc(expand_env(d))
           /\ \A f \in Fields : f \notin Referring(d) => At(expand_env(d), f) = At(d, f)
<1>1. ASSUME NEW x, IsText(x) PROVE IsText(try_expand(x))
  <2>1. IsText(Ref(x.word))
    BY DEF IsText, Ref, Text
  <2> QED
    BY <1>1, <2>1, EnvAssumption DEF try_expand
<1>2. ASSUME NEW x, x.class \notin {"ref", "escaped"} PROVE try_expand(x) = x
  BY <1>2 DEF try_expand
<1>3. /\ \A n : try_expand(Digits(n)) = Digits(n)
      /\ \A w : try_expand(Word(w)) = Word(w)
      /\ try_expand(Empty) = Empty
  BY <1>2, TextParts
<1> DEFINE new(v) == Value(v.type, try_expand(v.text), {try_expand(x) : x \in v.items})
<1>4. DOMAIN expand_env(d) = DOMAIN d /\ \A f \in DOMAIN d : expand_env(d)[f] = new(d[f])
  BY DEF expand_env
<1>5. ASSUME NEW v, IsValue(v) PROVE IsValue(new(v))
  <2>0. IsText(v.text) /\ v \in {Str(v.text), Num(v.text.num), Bool(TRUE), Bool(FALSE), List(v.items)}
    BY <1>5 DEF IsValue
  <2>1. CASE v = Str(v.text)
    <3>1. new(v) = Str(try_expand(v.text))
      <4>1. v.type = "string" /\ v.items = {}
        BY <2>1, ValueParts
      <4> QED
        BY <4>1 DEF Str
    <3> QED
      BY <1>1, <2>0, <3>1, GoodValues
  <2>2. CASE v = Num(v.text.num)
    <3>1. v.type = "number" /\ v.items = {} /\ v.text = Digits(v.text.num) /\ v.text.num \in Nat
      BY <2>0, <2>2, ValueParts DEF IsText
    <3>2. try_expand(v.text) = Digits(v.text.num)
      BY <1>3, <3>1
    <3>3. new(v) = Num(v.text.num)
      BY <3>1, <3>2 DEF Num
    <3> QED
      BY <3>1, <3>3, GoodValues
  <2>3. ASSUME NEW b \in BOOLEAN, v = Bool(b) PROVE new(v) = Bool(b)
    <3>1. v.type = "bool" /\ v.items = {} /\ v.text = Word(IF b THEN "true" ELSE "false")
      BY <2>3 DEF Bool, Value
    <3>2. try_expand(v.text) = Word(IF b THEN "true" ELSE "false")
      BY <1>3, <3>1
    <3> QED
      BY <3>1, <3>2 DEF Bool
  <2>4. CASE v = List(v.items)
    <3>1. v.type = "list" /\ v.text = Empty
      BY <2>4, ValueParts
    <3>2. new(v) = List({try_expand(x) : x \in v.items})
      BY <1>3, <3>1 DEF List
    <3> QED
      BY <3>2, GoodValues
  <2> HIDE DEF new
  <2>5. v = Bool(TRUE) \/ v = Bool(FALSE) => IsValue(new(v))
    BY <2>3, GoodValues
  <2> QED
    BY <2>0, <2>1, <2>2, <2>4, <2>5
<1>6. IsDoc(expand_env(d))
  <2>1. expand_env(d) = [f \in DOMAIN expand_env(d) |-> expand_env(d)[f]]
    BY DEF expand_env
  <2> HIDE DEF new
  <2> QED
    BY <1>4, <1>5, <2>1 DEF IsDoc
<1>7. ASSUME NEW f \in DOMAIN d, f \notin Referring(d) PROVE new(d[f]) = d[f]
  <2>1. \A x \in {d[f].text} \cup d[f].items : x.class \notin {"ref", "escaped"}
    BY <1>7 DEF Referring, TextsOf
  <2>2. try_expand(d[f].text) = d[f].text /\ \A x \in d[f].items : try_expand(x) = x
    BY <1>2, <2>1
  <2>3. {try_expand(x) : x \in d[f].items} = d[f].items
    BY <2>2
  <2>4. d[f] = Value(d[f].type, d[f].text, d[f].items)
    <3>1. IsValue(d[f])
      BY DEF IsDoc
    <3>2. \A t, x, u : Value(t, x, u) = Value(Value(t, x, u).type, Value(t, x, u).text, Value(t, x, u).items)
      BY DEF Value
    <3>3. \E t, x, u : d[f] = Value(t, x, u)
      BY <3>1 DEF IsValue, Str, Num, Bool, List
    <3> QED
      BY <3>2, <3>3
  <2> QED
    BY <2>2, <2>3, <2>4
<1> HIDE DEF new
<1>8. \A f \in Fields : f \notin Referring(d) => At(expand_env(d), f) = At(d, f)
  BY <1>4, <1>7 DEF At
<1> QED
  BY <1>6, <1>8

LEMMA ExpandedIsFine ==
    ASSUME NEW d, Fine(d)
    PROVE  Fine(expand_env(d))
<1> DEFINE e == expand_env(d)
<1>1. IsDoc(d) /\ IsDoc(e)
  BY ExpandedParts DEF Fine
<1>2. ASSUME NEW f PROVE At(e, f).text = try_expand(At(d, f).text)
  <2>1. CASE f \in DOMAIN d
    <3>1. e[f] = Value(d[f].type, try_expand(d[f].text), {try_expand(x) : x \in d[f].items}) /\ f \in DOMAIN e
      BY <2>1 DEF expand_env
    <3> QED
      BY <2>1, <3>1 DEF At, Value
  <2>2. CASE f \notin DOMAIN d
    <3>1. At(e, f) = Null /\ At(d, f) = Null
      BY <2>2 DEF At, expand_env
    <3> QED
      BY <3>1, ValueParts, TextParts DEF try_expand
  <2> QED
    BY <2>1, <2>2
<1>3. try_expand(Empty) = Empty
  BY TextParts DEF try_expand
<1> HIDE DEF e
<1>4. NoSubdir(d) => NoSubdir(e)
  BY <1>2, <1>3 DEF NoSubdir
<1>5. ASSUME WholeMebibytes, Whole(d) PROVE Whole(e)
  <2>1. ASSUME NEW x, WholeText(x) PROVE WholeText(try_expand(x))
    <3>1. WholeText(Ref(x.word))
      BY TextParts DEF WholeText, parse_mem, Ref
    <3> QED
      BY <1>5, <2>1, <3>1 DEF try_expand, WholeMebibytes
  <2> QED
    BY <1>2, <1>5, <2>1 DEF Whole
<1>6. Fine(e)
  BY <1>1, <1>4, <1>5 DEF Fine
<1> QED
  BY <1>6 DEF e

\* The parts of a specification depend on the fields that decide them.
LEMMA SameParts ==
    ASSUME NEW a, NEW b, NEW E, \A f \in Fields : f \notin E => At(a, f) = At(b, f)
    PROVE  Differs(resolve_job(a), resolve_job(b)) \subseteq UNION {Decides(f) : f \in E}
<1> DEFINE s == resolve_job(a)
           t == resolve_job(b)
<1>1. /\ "enabled" \notin E => s.enabled = t.enabled
      /\ "worker" \notin E => s.worker = t.worker
      /\ "upstream" \notin E => s.upstream = t.upstream
      /\ "retry" \notin E => s.retry = t.retry
      /\ "timeout" \notin E => s.timeout = t.timeout
  BY ResolvedParts DEF Fields, Numbers, Flags, Texts
<1>2. /\ "mirror_subdir" \notin E => s.mirror_subdir = t.mirror_subdir
      /\ "mirror_subdir" \notin E /\ "storage" \notin E => s.storage = t.storage
  BY ResolvedParts DEF Fields, Texts
<1>3. /\ "misfire_policy" \notin E => s.misfire = t.misfire
      /\ "memory_limit" \notin E => s.memory = t.memory
  BY ResolvedParts DEF Fields, Texts
<1>4. ScheduleRows \cap E = {} => s.schedule = t.schedule
  <2> SUFFICES ASSUME ScheduleRows \cap E = {} PROVE s.schedule = t.schedule
    OBVIOUS
  <2>1. \A f \in ScheduleRows : At(a, f) = At(b, f)
    BY DEF ScheduleRows, Fields, Texts
  <2>2. resolve_schedule(a) = resolve_schedule(b)
    BY <2>1 DEF resolve_schedule, ScheduleRows
  <2> QED
    BY <2>2, ResolvedParts
<1>5. ProviderRows \cap E = {} => s.provider = t.provider
  <2> SUFFICES ASSUME ProviderRows \cap E = {} PROVE s.provider = t.provider
    OBVIOUS
  <2>1. \A f \in ProviderRows : At(a, f) = At(b, f)
    BY DEF ProviderRows, Fields, Lists, Texts
  <2>2. resolve_provider(a) = resolve_provider(b)
    BY <2>1 DEF resolve_provider, ProviderRows
  <2> QED
    BY <2>2, ResolvedParts
<1>6. DOMAIN s = Parts
  BY ResolvedParts
<1> HIDE DEF s, t
<1>7. ASSUME NEW part \in Parts, s[part] # t[part] PROVE \E f \in E : part \in Decides(f)
  <2>1. CASE part \in {"enabled", "worker", "upstream", "retry", "timeout"}
    BY <1>1, <1>7, <2>1, Deciders
  <2>2. CASE part \in {"mirror_subdir", "storage"}
    BY <1>2, <1>7, <2>2, Deciders
  <2>3. CASE part \in {"misfire", "memory"}
    BY <1>3, <1>7, <2>3, Deciders
  <2>4. CASE part = "schedule"
    BY <1>4, <1>7, <2>4, Deciders
  <2>5. CASE part = "provider"
    BY <1>5, <1>7, <2>5, Deciders
  <2> QED
    BY <2>1, <2>2, <2>3, <2>4, <2>5 DEF Parts
<1> QED
  BY <1>6, <1>7 DEF Differs, s, t

-----------------------------------------------------------------------------
(* The inductive invariant. *)

\* Blocks of jobs: those of the files, and those in the file editor.
BlocksOK(b) == DOMAIN b = Jobs /\ \A j \in Jobs : b[j] # Absent => Fine(b[j])

\* A specification in the editor is that of a job, but for the edited fields.
HeldOK(e) ==
    /\ DOMAIN e = {"job", "json", "base", "edited"}
    /\ e.job \in Jobs \cup {NoJob}
    /\ e.job # NoJob => Fine(e.json) /\ IsSpec(e.base) /\ Kept(e.json, e.base, e.edited)

SnapOK(s) ==
    /\ DOMAIN s = {"jobs", "workers", "editor"}
    /\ s.jobs \subseteq Jobs
    /\ HeldOK(s.editor)

LiveOK(l) == DOMAIN l = Jobs /\ \A j \in Jobs : l[j] # Absent => IsSpec(l[j])

DetailOK(t) ==
    /\ DOMAIN t = {"pc", "name", "editor"}
    /\ t.pc \in {"idle", "fetched"}
    /\ HeldOK(t.editor)

InputOK(i) ==
    /\ DOMAIN i = {"kind", "field", "items", "job"}
    /\ i.kind \in {"value", "list", "append"} => i.field \in Editable

AppOK(a) ==
    /\ DOMAIN a = {"mode", "sel", "edit", "input", "key", "pending", "search", "dirty", "file",
                   "buf", "clean"}
    /\ a.mode \in Modes
    /\ a.sel \in Jobs \cup {NoJob} /\ a.edit \in Jobs \cup {NoJob}
    /\ InputOK(a.input)
    /\ BlocksOK(a.buf)

\* A command saves the specification of the job under whose name it is saved,
\* but for the edited fields.
ActOK(a) ==
    /\ DOMAIN a = {"pc", "kind", "job", "object", "word", "file", "blocks", "from", "base",
                   "edited", "ok"}
    /\ a.pc \in {"none", "todo", "sent", "done"}
    /\ a.kind = "save" => /\ a.from = a.job
                          /\ Fine(a.object) /\ IsSpec(a.base) /\ Kept(a.object, a.base, a.edited)
    /\ a.kind = "new" => Fine(a.object)
    /\ BlocksOK(a.blocks)

ConInv ==
    /\ BlocksOK(disk)
    /\ LiveOK(live)
    /\ workers \subseteq Workers
    /\ SnapOK(snap) /\ SnapOK(view)
    /\ DetailOK(detail)
    /\ AppOK(app)
    /\ ActOK(act)
    /\ app.pending <=> act.pc # "none"

LEMMA InvGives ==
    ASSUME ConInv
    PROVE  EditorInv
<1>1. \A j \in Defined(disk) : DOMAIN disk[j] \subseteq Fields
  BY DEF ConInv, BlocksOK, Defined, Fine, IsDoc
<1>2. ConsoleTypeOK
  BY <1>1 DEF ConsoleTypeOK, ConInv, BlocksOK, SnapOK, HeldOK, AppOK, ActOK, DetailOK
<1>3. SavedIsOwn
  BY DEF SavedIsOwn, ConInv, ActOK
<1> QED
  BY <1>2, <1>3 DEF EditorInv

\* The parts with nothing in them.
LEMMA NothingOK ==
    /\ BlocksOK(NoBlocks) /\ HeldOK(NoEditor) /\ SnapOK(NoSnapshot) /\ DetailOK(NoDetail)
    /\ InputOK(NoInput) /\ AppOK(AtStart) /\ ActOK(NoAct)
    /\ AtStart.pending = FALSE /\ NoAct.pc = "none"
<1>1. BlocksOK(NoBlocks)
  BY DEF BlocksOK, NoBlocks
<1>2. HeldOK(NoEditor)
  BY DEF HeldOK, NoEditor
<1>3. SnapOK(NoSnapshot)
  BY <1>2 DEF SnapOK, NoSnapshot
<1>4. DetailOK(NoDetail)
  BY <1>2 DEF DetailOK, NoDetail
<1>5. InputOK(NoInput)
  BY DEF InputOK, NoInput
<1>6. AppOK(AtStart) /\ AtStart.pending = FALSE
  BY <1>1, <1>5 DEF AppOK, AtStart, Modes, Browsing
<1>7. ActOK(NoAct) /\ NoAct.pc = "none"
  BY <1>1 DEF ActOK, NoAct
<1> QED
  BY <1>1, <1>2, <1>3, <1>4, <1>5, <1>6, <1>7

\* What is loaded from blocks that the loader does not refuse.
LEMMA ResolvedOK ==
    ASSUME NEW b, BlocksOK(b), Loads(b)
    PROVE  LiveOK(Resolved(b))
<1>1. \A j \in Jobs : b[j] # Absent => IsSpec(resolve_job(expand_env(b[j])))
  BY ExpandedIsFine DEF BlocksOK, Loads, Defined, IsSpec
<1> QED
  BY <1>1 DEF LiveOK, Resolved

LEMMA ConInit ==
    ASSUME ConsoleInit
    PROVE  ConInv
<1>1. \A j \in Defined(InitDisk) : InitDisk[j] \in GivenDocs
  BY DEF GivenDocs
<1>2. BlocksOK(InitDisk)
  BY <1>1, ConsoleAssumption, GivenIsFine DEF BlocksOK, Defined
<1>3. LiveOK(Resolved(InitDisk))
  BY <1>2, ConsoleAssumption, ResolvedOK
<1> QED
  BY <1>2, <1>3, NothingOK DEF ConInv, ConsoleInit

\* The file editor is left as it is, or one of its keys is pressed.
FileSame(a) ==
    /\ a.file = app.file /\ a.buf = app.buf /\ a.clean = app.clean /\ a.dirty = app.dirty
    /\ a.mode = "config" => app.mode = "config"

FileKey == OpenConfig \/ NextFile \/ TypeInFile \/ CloseConfig

\* What the console's state becomes by a key that is not the file editor's.
NextOK(a) == AppOK(a) /\ a.pending = app.pending /\ FileSame(a)

\* What a key does: it is used up, edits in the snapshot are only added to, and
\* a command that starts is one the console is used for.
KeyShape ==
    /\ app.key /\ ~app'.key
    /\ UNCHANGED <<disk, orphans>>
    /\ FileSame(app') \/ FileKey
    /\ \/ snap' = snap
       \/ snap'.editor.job = snap.editor.job /\ snap.editor.edited \subseteq snap'.editor.edited
    /\ \/ act' = act
       \/ /\ act'.pc = "todo"
          /\ act'.kind = "file" => act'.file = app.file /\ act'.blocks = app.buf /\ FileSame(app')
          /\ act'.kind = "delete" => "commands" \in Uses

\* A key that only changes the console's own state.
LEMMA AnyKeyInv ==
    ASSUME ConInv, NEW next, AppOK(next), next.pending = app.pending,
           FileSame(next) \/ FileKey, Key(next)
    PROVE  ConInv' /\ KeyShape
<1>1. app' = [next EXCEPT !.key = FALSE] /\ app.key
  BY DEF Key
<1>2. AppOK(app') /\ app'.pending = app.pending /\ ~app'.key
  BY <1>1 DEF AppOK
<1>3. FileSame(app') \/ FileKey
  BY <1>1 DEF FileSame, AppOK
<1>4. UNCHANGED <<disk, live, workers, snap, shared, view, detail, act, orphans, spent>>
  BY DEF Key, manager
<1>5. ConInv'
  BY <1>2, <1>4 DEF ConInv
<1>6. KeyShape
  BY <1>1, <1>2, <1>3, <1>4 DEF KeyShape
<1> QED
  BY <1>5, <1>6

LEMMA KeyInv ==
    ASSUME ConInv, NEW next, NextOK(next), Key(next)
    PROVE  ConInv' /\ KeyShape
<1>1. AppOK(next) /\ next.pending = app.pending /\ FileSame(next)
  BY DEF NextOK
<1> QED
  BY <1>1, AnyKeyInv

\* A key that starts a command.
LEMMA CommandInv ==
    ASSUME ConInv, NEW next, NextOK(next), NEW kind, NEW a,
           ActOK([a EXCEPT !.pc = "todo", !.kind = kind]), DOMAIN a = DOMAIN NoAct,
           kind = "file" => a.file = app.file /\ a.blocks = app.buf,
           kind = "delete" => "commands" \in Uses,
           start_action(next, kind, a)
    PROVE  ConInv' /\ KeyShape
<1>0. UNCHANGED <<disk, live, workers, snap, shared, view, detail, orphans>> /\ app.key
  BY DEF start_action, manager
<1>1. CASE app.pending
  <2>1. app' = [next EXCEPT !.key = FALSE] /\ act' = act
    BY <1>1 DEF start_action
  <2>2. AppOK(app') /\ app'.pending = app.pending /\ ~app'.key /\ FileSame(app')
    BY <2>1 DEF NextOK, AppOK, FileSame
  <2>3. ConInv'
    BY <1>0, <2>1, <2>2 DEF ConInv
  <2>4. KeyShape
    BY <1>0, <2>1, <2>2 DEF KeyShape
  <2> QED
    BY <2>3, <2>4
<1>2. CASE ~app.pending
  <2>1. /\ app' = [next EXCEPT !.key = FALSE, !.pending = TRUE]
        /\ act' = [a EXCEPT !.pc = "todo", !.kind = kind]
    BY <1>2 DEF start_action
  <2>2. AppOK(app') /\ app'.pending = TRUE /\ ~app'.key /\ FileSame(app')
    BY <2>1 DEF NextOK, AppOK, FileSame
  <2>3. /\ ActOK(act') /\ act'.pc = "todo" /\ act'.kind = kind
        /\ act'.file = a.file /\ act'.blocks = a.blocks
    BY <2>1 DEF NoAct
  <2>4. ConInv'
    BY <1>0, <2>2, <2>3 DEF ConInv
  <2>5. KeyShape
    BY <1>0, <2>2, <2>3 DEF KeyShape
  <2> QED
    BY <2>4, <2>5
<1> QED
  BY <1>1, <1>2

\* Commands that save nothing.
LEMMA PlainAct ==
    ASSUME NEW a, ActOK(a), NEW kind, kind \notin {"save", "new"}
    PROVE  ActOK([a EXCEPT !.pc = "todo", !.kind = kind])
BY DEF ActOK

\* A row above another one.
Above == {rr \in Nat \X Nat : rr[1] < rr[2]}

LEMMA AboveWellFounded == IsWellFoundedOn(Above, Nat)
BY NatLessThanWellFounded DEF Above, OpToRel

\* Listed rows are jobs, and rows that are there have a topmost one.
LEMMA ListedRows ==
    /\ DOMAIN Order \subseteq Nat
    /\ \A i \in DOMAIN Order : Order[i] \in Jobs
    /\ \A rows \in SUBSET DOMAIN Order : rows # {} => \E i \in rows : Topmost(rows) = Order[i]
<1>1. Order \in Seq(Jobs)
  BY ConsoleAssumption
<1>2. DOMAIN Order \subseteq Nat /\ \A i \in DOMAIN Order : Order[i] \in Jobs
  BY <1>1
<1>3. ASSUME NEW rows \in SUBSET DOMAIN Order, rows # {}
      PROVE  \E i \in rows : Topmost(rows) = Order[i]
  <2>1. rows \subseteq Nat
    BY <1>2
  <2>2. \E i \in rows : \A k \in rows : i <= k
    <3>1. PICK i \in rows : \A k \in rows : ~(<<k, i>> \in Above)
      BY <1>3, <2>1, AboveWellFounded, WFMin
    <3>2. \A k \in rows : ~(k < i)
      BY <2>1, <3>1 DEF Above
    <3> QED
      BY <2>1, <3>2
  <2> QED
    BY <2>2 DEF Topmost
<1> QED
  BY <1>2, <1>3

LEMMA AppChanges ==
    ASSUME NEW a, AppOK(a)
    PROVE  /\ \A m \in Modes : AppOK([a EXCEPT !.mode = m])
           /\ \A i : InputOK(i) => AppOK([a EXCEPT !.input = i])
           /\ \A s \in Jobs : AppOK([a EXCEPT !.sel = s])
<1>1. ASSUME NEW m \in Modes PROVE AppOK([a EXCEPT !.mode = m])
  BY DEF AppOK
<1>2. ASSUME NEW i, InputOK(i) PROVE AppOK([a EXCEPT !.input = i])
  BY <1>2 DEF AppOK
<1>3. ASSUME NEW s \in Jobs PROVE AppOK([a EXCEPT !.sel = s])
  BY DEF AppOK
<1> QED
  BY <1>1, <1>2, <1>3

\* A block is written, or taken away.
LEMMA BlockWritten ==
    ASSUME NEW b, BlocksOK(b), NEW j \in Jobs, NEW d, d = Absent \/ Fine(d)
    PROVE  BlocksOK([b EXCEPT ![j] = d])
BY DEF BlocksOK

\* The first part of a command writes blocks.
LEMMA WrittenOK ==
    ASSUME ConInv
    PROVE  BlocksOK(Written.disk)
<1>0. BlocksOK(disk) /\ ActOK(act) /\ BlocksOK(act.blocks) /\ Defined(disk) \subseteq Jobs
  BY DEF ConInv, ActOK, Defined
<1>1. CASE act.kind = "save"
  <2>1. Written = upsert_job_block(act.job, act.object)
    BY <1>1 DEF Written
  <2>2. Fine(act.object)
    BY <1>0, <1>1 DEF ActOK
  <2>3. \/ Written.disk = disk
        \/ act.job \in Jobs /\ Written.disk = [disk EXCEPT ![act.job] = act.object]
    BY <1>0, <2>1 DEF upsert_job_block
  <2> QED
    BY <1>0, <2>2, <2>3, BlockWritten
<1>2. CASE act.kind = "new"
  <2>1. Written = upsert_job_section(act.job, act.object)
    BY <1>2 DEF Written
  <2>2. Fine(act.object)
    BY <1>0, <1>2 DEF ActOK
  <2>3. \/ Written.disk = disk
        \/ Written.disk = [disk EXCEPT ![act.job] = act.object]
    BY <2>1 DEF upsert_job_section
  <2>4. BlocksOK([disk EXCEPT ![act.job] = act.object])
    BY <1>0, <2>2 DEF BlocksOK
  <2> QED
    BY <1>0, <2>3, <2>4
<1>3. CASE act.kind = "pin"
  <2> DEFINE j == act.job
             alike == {k \in Defined(disk) : FileOf[k] = FileOf[j] /\ (k = j \/ <<k, j>> \in Resembles)}
             lines == {i \in DOMAIN Order : Order[i] \in alike /\ At(disk[Order[i]], "worker") # Null}
             hit == IF lines = {} THEN j ELSE Topmost(lines)
             v == Str(Word(act.word))
  <2>1. Written = upsert_job_worker(j, act.word)
    BY <1>3 DEF Written
  <2>2. \/ Written.disk = disk
        \/ j \in Defined(disk) /\ Written.disk = [disk EXCEPT ![hit] = Set(@, "worker", v)]
    BY <2>1 DEF upsert_job_worker
  <2>3. j \in Defined(disk) => hit \in Defined(disk)
    <3>1. lines \subseteq DOMAIN Order /\ \A i \in lines : Order[i] \in Defined(disk)
      OBVIOUS
    <3> HIDE DEF lines
    <3>2. lines # {} => \E i \in lines : Topmost(lines) = Order[i]
      BY <3>1, ListedRows
    <3> QED
      BY <3>1, <3>2
  <2>4. IsValue(v)
    BY GoodTexts, GoodValues
  <2> HIDE DEF hit, v
  <2>5. ASSUME j \in Defined(disk) PROVE BlocksOK([disk EXCEPT ![hit] = Set(@, "worker", v)])
    <3>1. hit \in Jobs /\ disk[hit] # Absent /\ Fine(disk[hit])
      BY <1>0, <2>3, <2>5 DEF BlocksOK, Defined
    <3>2. Fine(Set(disk[hit], "worker", v))
      BY <2>4, <3>1, SetIsFine
    <3> QED
      BY <1>0, <3>1, <3>2 DEF BlocksOK
  <2> QED
    BY <1>0, <2>2, <2>5
<1>4. CASE act.kind = "file"
  <2>1. Written.disk = [j \in Jobs |-> IF FileOf[j] = act.file THEN act.blocks[j] ELSE disk[j]]
    BY <1>4 DEF Written
  <2> QED
    BY <1>0, <2>1 DEF BlocksOK
<1>5. CASE act.kind \notin {"save", "new", "pin", "file"}
  <2>1. Written.disk = disk
    BY <1>5 DEF Written
  <2> QED
    BY <1>0, <2>1
<1> QED
  BY <1>1, <1>2, <1>3, <1>4, <1>5

\* What the manager does for a request.
LEMMA HandleOK ==
    ASSUME ConInv, NEW kind, NEW j, NEW w, Handle(kind, j, w)
    PROVE  BlocksOK(disk') /\ LiveOK(live') /\ workers' \subseteq Workers
<1>0. BlocksOK(disk) /\ LiveOK(live) /\ workers \subseteq Workers
  BY DEF ConInv
<1>1. CASE Reloads
  <2>1. live' = (IF Loads(disk) THEN Resolved(disk) ELSE live) /\ disk' = disk /\ workers' = workers
    BY <1>1 DEF Reloads
  <2> QED
    BY <1>0, <2>1, ResolvedOK
<1>2. CASE j \in Known /\ Deletes(j)
  <2>1. j \in Jobs
    BY <1>2 DEF Known
  <2>2. disk' = [disk EXCEPT ![j] = Absent] /\ live' = [live EXCEPT ![j] = Absent] /\ workers' = workers
    BY <1>2 DEF Deletes, remove_job_block
  <2>3. BlocksOK(disk')
    BY <1>0, <2>1, <2>2, BlockWritten
  <2>4. LiveOK(live')
    BY <1>0, <2>1, <2>2 DEF LiveOK
  <2> QED
    BY <1>0, <2>2, <2>3, <2>4
<1>3. CASE Unregisters(w)
  BY <1>0, <1>3 DEF Unregisters
<1>4. CASE UNCHANGED <<disk, live, workers>>
  BY <1>0, <1>4
<1> QED
  BY <1>1, <1>2, <1>3, <1>4 DEF Handle

\* The rest of a command: it ends, or goes on to its request.
LEMMA ActEnds ==
    ASSUME NEW a, ActOK(a), NEW b, NEW ok,
           \/ b = [a EXCEPT !.pc = "done", !.ok = ok]
           \/ b = [a EXCEPT !.pc = "sent"]
           \/ b = [a EXCEPT !.pc = "done", !.ok = ok, !.kind = "timeout"]
    PROVE  ActOK(b) /\ b.pc # "none"
<1>1. CASE b = [a EXCEPT !.pc = "done", !.ok = ok]
  BY <1>1 DEF ActOK
<1>2. CASE b = [a EXCEPT !.pc = "sent"]
  BY <1>2 DEF ActOK
<1>3. CASE b = [a EXCEPT !.pc = "done", !.ok = ok, !.kind = "timeout"]
  BY <1>3 DEF ActOK
<1> QED
  BY <1>1, <1>2, <1>3

LEMMA TasksInv ==
    ASSUME ConInv, Tasks
    PROVE  ConInv'
<1>0. /\ SnapOK(snap) /\ DetailOK(detail) /\ HeldOK(snap.editor) /\ HeldOK(detail.editor)
      /\ LiveOK(live) /\ AppOK(app) /\ ActOK(act)
      /\ app.pending <=> act.pc # "none"
  BY DEF ConInv, SnapOK, DetailOK
<1>1. CASE Refresh
  <2>1. snap' = [snap EXCEPT !.jobs = Known, !.workers = workers]
    BY <1>1 DEF Refresh
  <2>2. SnapOK(snap')
    BY <1>0, <2>1 DEF SnapOK, Known
  <2> QED
    BY <1>1, <2>2 DEF ConInv, Refresh, manager, loop
<1>2. CASE DetailFetches
  <2>1. ASSUME NEW j \in Known PROVE HeldOK(Fetched(j))
    <3>1. j \in Jobs /\ IsSpec(live[j])
      BY <1>0 DEF Known, LiveOK
    <3>2. Fine(spec_to_editor(live[j])) /\ Kept(spec_to_editor(live[j]), live[j], {})
      BY <3>1, ShownIsFine DEF Kept
    <3> QED
      BY <3>1, <3>2 DEF HeldOK, Fetched
  <2> DEFINE name == IF shared.edit # NoJob THEN shared.edit ELSE shared.sel
             fetch == shared.detail /\ snap.editor.job # name /\ name \in Known
  <2>2. PICK answered \in BOOLEAN :
            detail' = [pc |-> "fetched", name |-> name,
                       editor |-> IF fetch /\ answered THEN Fetched(name) ELSE snap.editor]
    BY <1>2 DEF DetailFetches
  <2> HIDE DEF name
  <2>3. DetailOK(detail')
    BY <1>0, <2>1, <2>2 DEF DetailOK
  <2> QED
    BY <1>2, <2>3 DEF ConInv, DetailFetches, manager, loop
<1>3. CASE DetailSwaps
  <2>1. snap' = snap \/ \E e \in {snap.editor, detail.editor} : snap' = [snap EXCEPT !.editor = e]
    BY <1>3 DEF DetailSwaps, preserve_editor
  <2>2. SnapOK(snap')
    BY <1>0, <2>1 DEF SnapOK
  <2>3. DetailOK(detail')
    BY <1>3, NothingOK DEF DetailSwaps
  <2> QED
    BY <1>3, <2>2, <2>3 DEF ConInv, DetailSwaps, manager, loop
<1>4. CASE ActWrites
  <2>1. BlocksOK(disk')
    BY <1>4, WrittenOK DEF ActWrites
  <2>2. ActOK(act') /\ act'.pc # "none"
    <3>1. PICK ok : \/ act' = [act EXCEPT !.pc = "sent"]
                    \/ act' = [act EXCEPT !.pc = "done", !.ok = ok]
      BY <1>4 DEF ActWrites, Finish
    <3> QED
      BY <1>0, <3>1, ActEnds
  <2>3. AppOK(app') /\ app'.pending = app.pending
    <3>1. app' = app \/ app' = [app EXCEPT !.clean = @ \cup {act.blocks}]
      BY <1>4 DEF ActWrites
    <3> QED
      BY <1>0, <3>1 DEF AppOK
  <2>4. act.pc # "none"
    BY <1>4 DEF ActWrites
  <2> QED
    BY <1>4, <2>1, <2>2, <2>3, <2>4 DEF ConInv, ActWrites, manager
<1>5. CASE WriteFails \/ RequestFails
  <2>1. PICK ok : act' = [act EXCEPT !.pc = "done", !.ok = ok]
    BY <1>5 DEF WriteFails, RequestFails, Finish
  <2>2. ActOK(act') /\ act'.pc # "none" /\ act.pc # "none"
    BY <1>0, <1>5, <2>1, ActEnds DEF WriteFails, RequestFails
  <2> QED
    BY <1>5, <2>2 DEF ConInv, WriteFails, RequestFails, manager, loop
<1>6. CASE ManagerAnswers
  <2>1. PICK ok : act' = [act EXCEPT !.pc = "done", !.ok = ok]
    BY <1>6 DEF ManagerAnswers, Finish
  <2>2. ActOK(act') /\ act'.pc # "none" /\ act.pc # "none"
    BY <1>0, <1>6, <2>1, ActEnds DEF ManagerAnswers
  <2>3. BlocksOK(disk') /\ LiveOK(live') /\ workers' \subseteq Workers
    BY <1>6, HandleOK DEF ManagerAnswers
  <2> QED
    BY <1>6, <2>2, <2>3 DEF ConInv, ManagerAnswers, loop
<1>7. CASE ActTimesOut
  <2>1. act' = [act EXCEPT !.pc = "done", !.ok = FALSE, !.kind = "timeout"]
    BY <1>7 DEF ActTimesOut
  <2>2. ActOK(act') /\ act'.pc # "none" /\ act.pc # "none"
    BY <1>0, <1>7, <2>1, ActEnds DEF ActTimesOut
  <2> QED
    BY <1>7, <2>2 DEF ConInv, ActTimesOut, manager, loop
<1> QED
  BY <1>1, <1>2, <1>3, <1>4, <1>5, <1>6, <1>7 DEF Tasks

\* The completion of a command leaves most of the console alone.
LEMMA CompletedParts ==
    ASSUME NEW a, AppOK(a)
    PROVE  /\ AppOK(Completed(a))
           /\ \A f \in DOMAIN a \ {"pending", "dirty", "mode"} : Completed(a)[f] = a[f]
           /\ Completed(a).mode \in {a.mode, "jobs"}
           /\ Completed(a).pending = (IF act.pc = "done" THEN FALSE ELSE a.pending)
           /\ \/ Completed(a).dirty = a.dirty
              \/ /\ act.pc = "done" /\ act.kind = "file" /\ act.ok
                 /\ a.file = act.file /\ a.buf = act.blocks
<1> DEFINE b == [a EXCEPT !.pending = FALSE]
<1>0. "jobs" \in Modes
  BY DEF Modes, Browsing
<1>1. CASE Completed(a) = a /\ act.pc # "done"
  BY <1>1
<1>2. CASE Completed(a) = b /\ act.pc = "done"
  BY <1>2 DEF AppOK
<1>3. CASE Completed(a) = [b EXCEPT !.mode = "jobs"] /\ act.pc = "done"
  BY <1>0, <1>3 DEF AppOK
<1>4. CASE /\ Completed(a) = [b EXCEPT !.dirty = FALSE] /\ act.pc = "done"
           /\ act.kind = "file" /\ act.ok /\ a.file = act.file /\ a.buf = act.blocks
  BY <1>4 DEF AppOK
<1>5. b.file = a.file /\ b.buf = a.buf
  BY DEF AppOK
<1> HIDE DEF b
<1> QED
  BY <1>1, <1>2, <1>3, <1>4, <1>5 DEF Completed, finish_file_save, b

LEMMA CompletedSel ==
    ASSUME AppOK(app)
    PROVE  AppOK(Completed(app)) /\ Completed(app).sel = app.sel
<1>1. "sel" \in DOMAIN app \ {"pending", "dirty", "mode"}
  BY DEF AppOK
<1>2. \A f \in DOMAIN app \ {"pending", "dirty", "mode"} : Completed(app)[f] = app[f]
  BY CompletedParts
<1>3. Completed(app)["sel"] = app["sel"]
  BY <1>1, <1>2
<1> QED
  BY <1>3, CompletedParts

\* The selection stays on a visible job.
LEMMA ReconcileParts ==
    ASSUME NEW v, v.jobs \subseteq Jobs, NEW sel \in Jobs \cup {NoJob}, NEW hits
    PROVE  /\ reconcile_selection(v, sel, hits) \in Jobs \cup {NoJob}
           /\ sel \in Jobs /\ sel \in v.jobs \cap hits => reconcile_selection(v, sel, hits) = sel
<1> DEFINE rows == visible_jobs(v, hits)
<1>1. rows \subseteq DOMAIN Order /\ \A i \in DOMAIN Order : i \in rows <=> Order[i] \in v.jobs \cap hits
  BY DEF visible_jobs
<1>2. \A j \in Jobs : \E i \in DOMAIN Order : Order[i] = j
  BY ConsoleAssumption
<1> HIDE DEF rows
<1>3. rows # {} => Topmost(rows) \in Jobs
  BY <1>1, ListedRows
<1>4. reconcile_selection(v, sel, hits) = IF \E i \in rows : Order[i] = sel THEN sel
                                          ELSE IF rows = {} THEN NoJob ELSE Topmost(rows)
  BY DEF reconcile_selection, rows
<1> QED
  BY <1>1, <1>2, <1>3, <1>4

LEMMA LoopInv ==
    ASSUME ConInv, LoopHead \/ LoopBusy
    PROVE  ConInv'
<1>0. /\ AppOK(app) /\ ActOK(act) /\ SnapOK(snap) /\ SnapOK(view)
      /\ app.pending <=> act.pc # "none"
  BY DEF ConInv
<1> DEFINE a == Completed(app)
<1>1. AppOK(a) /\ a.pending = (IF act.pc = "done" THEN FALSE ELSE app.pending)
  BY <1>0, CompletedParts
<1>2. act' = IF act.pc = "done" THEN NoAct ELSE act
  BY DEF LoopHead, LoopBusy
<1>3. ActOK(act') /\ (act'.pc # "none" <=> act.pc # "none" /\ act.pc # "done")
  BY <1>0, <1>2, NothingOK
<1>4. AppOK(app') /\ app'.pending = a.pending
  <2>1. CASE LoopHead
    <3> DEFINE sel == reconcile_selection(snap, a.sel, Searched)
    <3>1. app' = [a EXCEPT !.sel = sel, !.key = TRUE]
      BY <2>1 DEF LoopHead
    <3>2. sel \in Jobs \cup {NoJob}
      BY <1>0, <1>1, ReconcileParts DEF SnapOK, AppOK
    <3> HIDE DEF sel, a
    <3> QED
      BY <1>1, <3>1, <3>2 DEF AppOK
  <2>2. CASE LoopBusy
    <3>1. app' = [a EXCEPT !.key = FALSE]
      BY <2>2 DEF LoopBusy
    <3> HIDE DEF a
    <3> QED
      BY <1>1, <3>1 DEF AppOK
  <2> QED
    BY <2>1, <2>2
<1>5. app'.pending <=> act'.pc # "none"
  BY <1>0, <1>1, <1>3, <1>4
<1>6. view' \in {view, snap} /\ UNCHANGED <<disk, live, workers, snap, detail>>
  BY DEF LoopHead, LoopBusy, manager
<1> QED
  BY <1>0, <1>3, <1>4, <1>5, <1>6 DEF ConInv

LEMMA OthersInv ==
    ASSUME ConInv, LateRequest \/ Outside \/ Quit
    PROVE  ConInv'
<1>1. CASE LateRequest
  <2>1. PICK r \in orphans : Handle(r[1], r[2], r[3]) /\ UNCHANGED <<snap, loop, detail, act, spent>>
    BY <1>1 DEF LateRequest
  <2>2. BlocksOK(disk') /\ LiveOK(live') /\ workers' \subseteq Workers
    BY <2>1, HandleOK
  <2> QED
    BY <2>1, <2>2 DEF ConInv, loop
<1>2. CASE Outside
  <2>1. BlocksOK(disk')
    <3>1. disk' = disk \/ \E j \in Jobs, d \in FileDocs : disk' = [disk EXCEPT ![j] = d]
      BY <1>2 DEF Outside
    <3>2. \A d \in FileDocs : Fine(d)
      BY GivenIsFine DEF GivenDocs
    <3> QED
      BY <3>1, <3>2, BlockWritten DEF ConInv
  <2>2. LiveOK(live')
    <3>1. live' = IF Loads(disk') THEN Resolved(disk') ELSE live
      BY <1>2 DEF Outside
    <3> QED
      BY <2>1, <3>1, ResolvedOK DEF ConInv
  <2> QED
    BY <1>2, <2>1, <2>2 DEF ConInv, Outside, loop
<1>3. CASE Quit
  <2>1. AppOK(app') /\ app'.pending = FALSE
    <3>1. app' = [AtStart EXCEPT !.mode = "quit"] /\ "quit" \in Modes
      BY <1>3 DEF Quit, Modes
    <3> QED
      BY <3>1, NothingOK DEF AppOK
  <2>2. ActOK(act') /\ act'.pc = "none" /\ DetailOK(detail') /\ SnapOK(snap') /\ SnapOK(view')
    BY <1>3, NothingOK DEF Quit
  <2> QED
    BY <1>3, <2>1, <2>2 DEF ConInv, Quit, manager
<1> QED
  BY <1>1, <1>2, <1>3

\* Keys in the lists, the overlays and the forms.
LEMMA BrowseInv ==
    ASSUME ConInv, Browse
    PROVE  ConInv' /\ (Quit \/ KeyShape)
<1>0. /\ AppOK(app) /\ SnapOK(view) /\ InputOK(NoInput) /\ ActOK(NoAct)
      /\ DOMAIN NoAct = {"pc", "kind", "job", "object", "word", "file", "blocks", "from", "base",
                         "edited", "ok"}
  BY NothingOK DEF ConInv, ActOK
<1>1. Browsing \subseteq Modes /\ {"jobs", "detail", "workers", "proxies"} \subseteq Modes
  BY DEF Modes, Browsing
<1>2. ASSUME NEW kind, kind \notin {"value", "list", "append"} PROVE InputOK(Input(kind))
  BY <1>0, <1>2 DEF Input, InputOK
<1>3. ASSUME NEW next, NextOK(next), NEW kind, kind \notin {"save", "new", "file"},
             kind = "delete" => "commands" \in Uses, NEW a, ActOK(a), start_action(next, kind, a)
      PROVE  ConInv' /\ KeyShape
  <2>1. ActOK([a EXCEPT !.pc = "todo", !.kind = kind]) /\ DOMAIN a = DOMAIN NoAct
    BY <1>0, <1>3, PlainAct DEF ActOK
  <2> QED
    BY <1>3, <2>1, CommandInv
<1>4. NextOK([app EXCEPT !.input = NoInput])
  BY <1>0, AppChanges DEF NextOK, AppOK, FileSame
<1>5. \A j, w : ActOK([NoAct EXCEPT !.job = j]) /\ ActOK([NoAct EXCEPT !.word = w])
                 /\ ActOK([NoAct EXCEPT !.job = j, !.word = w])
  <2> TAKE j, w
  <2>1. NoAct.kind \notin {"save", "new"}
    BY DEF NoAct
  <2>2. ActOK([NoAct EXCEPT !.job = j])
    BY <1>0, <2>1 DEF ActOK
  <2>3. ActOK([NoAct EXCEPT !.word = w])
    BY <1>0, <2>1 DEF ActOK
  <2>4. ActOK([NoAct EXCEPT !.job = j, !.word = w])
    BY <1>0, <2>1 DEF ActOK
  <2> QED
    BY <2>2, <2>3, <2>4
<1>6. CASE move_job
  <2>1. PICK k \in DOMAIN Order : Key([app EXCEPT !.sel = Order[k]])
    BY <1>6 DEF move_job, visible_jobs
  <2>2. NextOK([app EXCEPT !.sel = Order[k]])
    BY <1>0, ListedRows DEF NextOK, AppOK, FileSame
  <2> QED
    BY <2>1, <2>2, KeyInv
<1>7. CASE SwitchMode \/ OpenDetail \/ CloseDetail
  <2>1. PICK m \in {"jobs", "detail", "workers", "proxies"} : Key([app EXCEPT !.mode = m])
    BY <1>7 DEF SwitchMode, OpenDetail, CloseDetail
  <2>2. NextOK([app EXCEPT !.mode = m])
    BY <1>0, <1>1 DEF NextOK, AppOK, FileSame
  <2> QED
    BY <2>1, <2>2, KeyInv
<1>8. CASE OpenSearch \/ OpenForm
  <2>1. PICK kind \in {"search", "job", "proxy"} : Key([app EXCEPT !.input = Input(kind)])
    BY <1>8 DEF OpenSearch, OpenForm
  <2>2. NextOK([app EXCEPT !.input = Input(kind)])
    BY <1>0, <1>2 DEF NextOK, AppOK, FileSame
  <2> QED
    BY <2>1, <2>2, KeyInv
<1>9. CASE CommitSearch
  <2>1. PICK b \in BOOLEAN : Key([app EXCEPT !.search = b, !.input = NoInput])
    BY <1>9 DEF CommitSearch
  <2>2. NextOK([app EXCEPT !.search = b, !.input = NoInput])
    BY <1>0 DEF NextOK, AppOK, FileSame
  <2> QED
    BY <2>1, <2>2, KeyInv
<1>10. CASE CloseInput
  BY <1>4, <1>10, KeyInv DEF CloseInput
<1>11. CASE CommandJob
  <2>1. PICK kind \in {"run", "delete"} : start_action(app, kind, [NoAct EXCEPT !.job = app.sel])
    BY <1>11 DEF CommandJob
  <2>2. "commands" \in Uses /\ NextOK(app)
    BY <1>0, <1>11 DEF CommandJob, FileSame, NextOK
  <2> QED
    BY <1>0, <1>3, <1>5, <2>1, <2>2
<1>12. CASE RemoveWorker
  <2>1. PICK w : start_action(app, "unregister", [NoAct EXCEPT !.word = w])
    BY <1>12 DEF RemoveWorker
  <2> QED
    BY <1>0, <1>3, <1>5, <2>1 DEF FileSame, NextOK
<1>13. CASE ChooseWorker
  <2> DEFINE i == [Input("worker") EXCEPT !.job = app.sel, !.items = view.workers]
  <2>1. Key([app EXCEPT !.input = i])
    BY <1>13 DEF ChooseWorker
  <2>2. InputOK(i)
    BY <1>2 DEF InputOK, Input, NoInput
  <2> HIDE DEF i
  <2>3. NextOK([app EXCEPT !.input = i])
    BY <1>0, <2>2 DEF NextOK, AppOK, FileSame
  <2> QED
    BY <2>1, <2>3, KeyInv
<1>14. CASE PinWorker
  <2>1. PICK w : start_action([app EXCEPT !.input = NoInput], "pin",
                              [NoAct EXCEPT !.job = app.input.job, !.word = w])
    BY <1>14 DEF PinWorker
  <2> QED
    BY <1>3, <1>4, <1>5, <2>1
<1>15. CASE CreateJob
  <2>1. PICK j \in Jobs, doc \in FormDocs :
            start_action([app EXCEPT !.input = NoInput], "new", [NoAct EXCEPT !.job = j, !.object = doc])
    BY <1>15 DEF CreateJob
  <2> DEFINE a == [NoAct EXCEPT !.job = j, !.object = doc]
  <2>2. Fine(doc)
    BY GivenIsFine DEF GivenDocs
  <2>3. ActOK([a EXCEPT !.pc = "todo", !.kind = "new"]) /\ DOMAIN a = DOMAIN NoAct
    BY <1>0, <2>2 DEF ActOK
  <2> HIDE DEF a
  <2>4. start_action([app EXCEPT !.input = NoInput], "new", a)
    BY <2>1 DEF a
  <2> QED
    BY <1>4, <2>3, <2>4, CommandInv
<1>16. CASE AddProxy
  <2>1. start_action([app EXCEPT !.input = NoInput], "proxy", NoAct)
    BY <1>16 DEF AddProxy
  <2> QED
    BY <1>0, <1>3, <1>4, <2>1
<1>17. CASE register_cf_warp
  <2>1. start_action(app, "proxy", NoAct)
    BY <1>17 DEF register_cf_warp
  <2> QED
    BY <1>0, <1>3, <2>1 DEF FileSame, NextOK
<1>18. CASE Quit
  BY <1>18, OthersInv
<1> QED
  BY <1>6, <1>7, <1>8, <1>9, <1>10, <1>11, <1>12, <1>13, <1>14, <1>15, <1>16, <1>17, <1>18 DEF Browse

\* An edit of the object in the snapshot.
LEMMA EditInv ==
    ASSUME ConInv, NEW json, NEW f, EditSnapshot(json, f),
           snap.editor.job # NoJob => /\ Fine(json)
                                      /\ Kept(json, snap.editor.base, snap.editor.edited \cup {f}),
           AppOK(app'), app'.pending = app.pending, ~app'.key, FileSame(app')
    PROVE  ConInv' /\ KeyShape
<1>0. app.key /\ UNCHANGED <<disk, live, workers, view, detail, act, orphans>>
  BY DEF EditSnapshot, manager
<1>1. SnapOK(snap) /\ HeldOK(snap.editor)
  BY DEF ConInv, SnapOK
<1>2. CASE snap.editor.job = NoJob
  <2>1. snap' = snap
    BY <1>2 DEF EditSnapshot
  <2> QED
    BY <1>0, <2>1 DEF ConInv, KeyShape
<1>3. CASE snap.editor.job # NoJob
  <2> DEFINE e == [job |-> snap.editor.job, json |-> json, base |-> snap.editor.base,
                   edited |-> snap.editor.edited \cup {f}]
  <2>1. snap' = [snap EXCEPT !.editor.json = json, !.editor.edited = @ \cup {f}]
    BY <1>3 DEF EditSnapshot
  <2>2. /\ DOMAIN snap' = DOMAIN snap /\ snap'.jobs = snap.jobs
        /\ DOMAIN snap'.editor = DOMAIN snap.editor /\ snap'.editor.job = snap.editor.job
        /\ snap'.editor.json = json /\ snap'.editor.base = snap.editor.base
        /\ snap'.editor.edited = snap.editor.edited \cup {f}
    BY <1>1, <2>1 DEF SnapOK, HeldOK
  <2>3. SnapOK(snap')
    BY <1>1, <1>3, <2>2 DEF SnapOK, HeldOK
  <2>4. KeyShape
    BY <1>0, <2>2 DEF KeyShape
  <2> QED
    BY <1>0, <2>3, <2>4 DEF ConInv
<1> QED
  BY <1>2, <1>3

LEMMA BlocksOfFile ==
    ASSUME ConInv, NEW f
    PROVE  BlocksOK(Blocks(f))
BY DEF ConInv, BlocksOK, Blocks

\* Keys in the two editors.
LEMMA EditorsInv ==
    ASSUME ConInv, Edit
    PROVE  ConInv' /\ KeyShape
<1>0. /\ AppOK(app) /\ SnapOK(view) /\ HeldOK(view.editor) /\ InputOK(app.input) /\ InputOK(NoInput)
      /\ ActOK(NoAct) /\ NoAct.kind \notin {"save", "new"}
      /\ SnapOK(snap) /\ HeldOK(snap.editor)
  BY NothingOK DEF ConInv, SnapOK, AppOK, NoAct
<1>1. {"jobs", "detail", "spec", "config"} \subseteq Modes
  BY DEF Modes, Browsing
<1>2. CASE OpenEditor
  <2> DEFINE edit == IF app.sel \in view.jobs THEN app.sel ELSE NoJob
  <2>1. Key([app EXCEPT !.edit = edit, !.mode = "spec"])
    BY <1>2 DEF OpenEditor
  <2>2. edit \in Jobs \cup {NoJob}
    BY <1>0 DEF AppOK, FileSame
  <2> HIDE DEF edit
  <2>3. NextOK([app EXCEPT !.edit = edit, !.mode = "spec"])
    BY <1>0, <1>1, <2>2 DEF NextOK, AppOK, FileSame
  <2> QED
    BY <2>1, <2>3, KeyInv
<1>3. CASE CloseEditor
  <2>1. Key([app EXCEPT !.mode = "detail", !.edit = NoJob])
    BY <1>3 DEF CloseEditor
  <2>2. NextOK([app EXCEPT !.mode = "detail", !.edit = NoJob])
    BY <1>0, <1>1 DEF NextOK, AppOK, FileSame
  <2> QED
    BY <2>1, <2>2, KeyInv
<1>4. CASE OpenField
  <2>1. PICK f \in Editable :
            Key([app EXCEPT !.input =
                   IF f \in Lists
                   THEN [Input("list") EXCEPT !.field = f, !.items = At(view.editor.json, f).items]
                   ELSE [Input("value") EXCEPT !.field = f]])
    BY <1>4 DEF OpenField
  <2> DEFINE i == IF f \in Lists
                  THEN [Input("list") EXCEPT !.field = f, !.items = At(view.editor.json, f).items]
                  ELSE [Input("value") EXCEPT !.field = f]
  <2>2. InputOK(i)
    <3>1. DOMAIN Input("list") = {"kind", "field", "items", "job"} /\ DOMAIN Input("value") = DOMAIN Input("list")
      BY DEF Input, NoInput
    <3>2. DOMAIN i = {"kind", "field", "items", "job"} /\ i.field = f
      BY <3>1
    <3> QED
      BY <3>2 DEF InputOK
  <2> HIDE DEF i
  <2>3. NextOK([app EXCEPT !.input = i])
    BY <1>0, <2>2 DEF NextOK, AppOK, FileSame
  <2>4. Key([app EXCEPT !.input = i])
    BY <2>1 DEF i
  <2> QED
    BY <2>3, <2>4, KeyInv
<1>5. CASE CommitField
  <2> DEFINE f == app.input.field
  <2>1. PICK x \in pick_options_for_field(f) :
            /\ EditSnapshot(set_json_field(snap.editor.json, f, x), f)
            /\ app' = [app EXCEPT !.input = NoInput, !.mode = "spec", !.key = FALSE]
    BY <1>5 DEF CommitField
  <2>2. f \in Editable
    BY <1>0, <1>5 DEF CommitField, InputOK
  <2>3. AppOK(app') /\ app'.pending = app.pending /\ ~app'.key /\ FileSame(app')
    BY <1>0, <1>1, <2>1 DEF AppOK, FileSame
  <2> HIDE DEF f
  <2>4. snap.editor.job # NoJob =>
            /\ Fine(set_json_field(snap.editor.json, f, x))
            /\ Kept(set_json_field(snap.editor.json, f, x), snap.editor.base, snap.editor.edited \cup {f})
    BY <1>0, <2>1, <2>2, FieldEdit DEF HeldOK
  <2> QED
    BY <2>1, <2>3, <2>4, EditInv
<1>6. CASE RemoveItem
  <2>1. PICK x : Key([app EXCEPT !.input.items = @ \ {x}])
    BY <1>6 DEF RemoveItem
  <2>2. NextOK([app EXCEPT !.input.items = @ \ {x}])
    BY <1>0 DEF NextOK, AppOK, InputOK, FileSame
  <2> QED
    BY <2>1, <2>2, KeyInv
<1>7. CASE AddItem
  <2> DEFINE next == [app EXCEPT !.input.kind = "append", !.input.items = {}]
  <2>1. Key(next) /\ app.input.kind = "list"
    BY <1>7 DEF AddItem
  <2>2. NextOK(next)
    BY <1>0, <2>1 DEF NextOK, AppOK, InputOK, FileSame
  <2> QED
    BY <2>1, <2>2, KeyInv
<1>8. CASE CommitItem
  <2> DEFINE f == app.input.field
  <2>1. PICK x \in OptionSet :
          /\ EditSnapshot(set_json_array(snap.editor.json, f, At(snap.editor.json, f).items \cup {x}), f)
          /\ app' = [app EXCEPT !.mode = "spec", !.key = FALSE,
                       !.input = IF snap.editor.job = NoJob THEN NoInput
                                 ELSE [app.input EXCEPT !.kind = "list",
                                         !.items = At(snap.editor.json, f).items \cup {x}]]
    BY <1>8 DEF CommitItem
  <2>2. f \in Editable
    BY <1>0, <1>8 DEF CommitItem, InputOK
  <2> DEFINE i == IF snap.editor.job = NoJob THEN NoInput
                  ELSE [app.input EXCEPT !.kind = "list", !.items = At(snap.editor.json, f).items \cup {x}]
             s == At(snap.editor.json, f).items \cup {x}
  <2>3. InputOK(i)
    BY <1>0, <2>2 DEF InputOK
  <2>4. AppOK(app') /\ app'.pending = app.pending /\ ~app'.key /\ FileSame(app')
    <3>1. app' = [app EXCEPT !.mode = "spec", !.key = FALSE, !.input = i]
      BY <2>1
    <3> HIDE DEF i
    <3> QED
      BY <1>0, <1>1, <2>3, <3>1 DEF AppOK, FileSame
  <2>5. EditSnapshot(set_json_array(snap.editor.json, f, s), f)
    BY <2>1
  <2> HIDE DEF f, s
  <2>6. snap.editor.job # NoJob =>
            /\ Fine(set_json_array(snap.editor.json, f, s))
            /\ Kept(set_json_array(snap.editor.json, f, s), snap.editor.base, snap.editor.edited \cup {f})
    BY <1>0, <2>2, ListEdit DEF HeldOK
  <2> QED
    BY <2>4, <2>5, <2>6, EditInv
<1>9. CASE CloseList
  <2> DEFINE f == app.input.field
             s == app.input.items
  <2>1. /\ EditSnapshot(set_json_array(snap.editor.json, f, s), f)
        /\ app' = [app EXCEPT !.input = NoInput, !.key = FALSE]
    BY <1>9 DEF CloseList
  <2>2. f \in Editable
    BY <1>0, <1>9 DEF CloseList, InputOK
  <2>3. AppOK(app') /\ app'.pending = app.pending /\ ~app'.key /\ FileSame(app')
    BY <1>0, <2>1 DEF AppOK, FileSame
  <2> HIDE DEF f, s
  <2>4. snap.editor.job # NoJob =>
            /\ Fine(set_json_array(snap.editor.json, f, s))
            /\ Kept(set_json_array(snap.editor.json, f, s), snap.editor.base, snap.editor.edited \cup {f})
    BY <1>0, <2>2, ListEdit DEF HeldOK
  <2> QED
    BY <2>1, <2>3, <2>4, EditInv
<1>10. CASE SaveJob
  <2> DEFINE a == [NoAct EXCEPT !.job = app.edit, !.object = view.editor.json,
                                !.from = view.editor.job, !.base = view.editor.base,
                                !.edited = view.editor.edited]
             next == [app EXCEPT !.mode = "detail"]
  <2>1. start_action(next, "save", a) /\ app.edit # NoJob /\ view.editor.job = app.edit
    BY <1>10 DEF SaveJob, Loaded
  <2>2. NextOK(next)
    BY <1>0, <1>1 DEF NextOK, AppOK, FileSame
  <2>3. /\ Fine(view.editor.json) /\ IsSpec(view.editor.base)
        /\ Kept(view.editor.json, view.editor.base, view.editor.edited)
    BY <1>0, <2>1 DEF HeldOK
  <2>4. ActOK([a EXCEPT !.pc = "todo", !.kind = "save"]) /\ DOMAIN a = DOMAIN NoAct
    BY <1>0, <2>1, <2>3 DEF ActOK
  <2> HIDE DEF a, next
  <2> QED
    BY <2>1, <2>2, <2>4, CommandInv
<1>11. CASE OpenConfig \/ NextFile
  <2>1. ASSUME NEW f PROVE AppOK(load_config_file(app, f)) /\ load_config_file(app, f).pending = app.pending
    <3>1. BlocksOK(Blocks(f))
      BY BlocksOfFile
    <3> QED
      BY <1>0, <3>1 DEF AppOK, load_config_file
  <2>2. CASE OpenConfig
    <3> DEFINE next == load_config_file(app, FirstFile)
    <3>1. Key([next EXCEPT !.mode = "config"])
      BY <2>2 DEF OpenConfig
    <3>2. AppOK(next) /\ next.pending = app.pending
      BY <2>1
    <3> HIDE DEF next
    <3>3. AppOK([next EXCEPT !.mode = "config"]) /\ [next EXCEPT !.mode = "config"].pending = app.pending
      BY <1>1, <3>2 DEF AppOK
    <3> QED
      BY <2>2, <3>1, <3>3, AnyKeyInv DEF FileKey
  <2>3. CASE NextFile
    <3>1. PICK f : Key(load_config_file(app, f))
      BY <2>3 DEF NextFile
    <3> QED
      BY <2>1, <2>3, <3>1, AnyKeyInv DEF FileKey
  <2> QED
    BY <1>11, <2>2, <2>3
<1>12. CASE TypeInFile
  <2>1. PICK j \in Jobs, doc \in FileDocs : app' = [app EXCEPT !.buf[j] = doc, !.dirty = TRUE, !.key = FALSE]
    BY <1>12 DEF TypeInFile
  <2>2. Fine(doc)
    BY GivenIsFine DEF GivenDocs
  <2>3. BlocksOK([app.buf EXCEPT ![j] = doc])
    BY <1>0, <2>2, BlockWritten DEF AppOK
  <2>4. app'.buf = [app.buf EXCEPT ![j] = doc]
    BY <1>0, <2>1 DEF AppOK
  <2>5. AppOK(app') /\ app'.pending = app.pending /\ ~app'.key
    BY <1>0, <2>1, <2>3, <2>4 DEF AppOK
  <2>6. app.key /\ UNCHANGED <<disk, live, workers, snap, view, detail, act, orphans>>
    BY <1>12 DEF TypeInFile, manager
  <2>7. KeyShape
    BY <1>12, <2>5, <2>6 DEF KeyShape, FileKey
  <2> QED
    BY <2>5, <2>6, <2>7 DEF ConInv
<1>13. CASE SaveFile
  <2> DEFINE a == [NoAct EXCEPT !.file = app.file, !.blocks = app.buf]
  <2>1. start_action(app, "file", a)
    BY <1>13 DEF SaveFile
  <2>2. ActOK([a EXCEPT !.pc = "todo", !.kind = "file"]) /\ DOMAIN a = DOMAIN NoAct
    BY <1>0 DEF ActOK, AppOK
  <2>3. a.file = app.file /\ a.blocks = app.buf
    BY DEF NoAct
  <2> HIDE DEF a
  <2> QED
    BY <1>0, <2>1, <2>2, <2>3, CommandInv DEF FileSame, NextOK
<1>14. CASE CloseConfig
  <2>1. Key([app EXCEPT !.dirty = FALSE, !.mode = "jobs"])
    BY <1>14 DEF CloseConfig
  <2>2. AppOK([app EXCEPT !.dirty = FALSE, !.mode = "jobs"])
        /\ [app EXCEPT !.dirty = FALSE, !.mode = "jobs"].pending = app.pending
    BY <1>0, <1>1 DEF AppOK
  <2> QED
    BY <1>14, <2>1, <2>2, AnyKeyInv DEF FileKey
<1> QED
  BY <1>2, <1>3, <1>4, <1>5, <1>6, <1>7, <1>8, <1>9, <1>10, <1>11, <1>12, <1>13, <1>14 DEF Edit

LEMMA ConNext ==
    ASSUME ConInv, [ConsoleNext]_cvars
    PROVE  ConInv'
<1>1. CASE ConsoleNext
  BY <1>1, LoopInv, TasksInv, BrowseInv, EditorsInv, OthersInv DEF ConsoleNext
<1>2. CASE UNCHANGED cvars
  BY <1>2 DEF ConInv, cvars
<1> QED
  BY <1>1, <1>2

-----------------------------------------------------------------------------
(* The theorems. *)

LEMMA ConAlways == ConsoleSpec => []ConInv
<1>1. ConsoleInit => ConInv
  BY ConInit
<1>2. ConInv /\ [ConsoleNext]_cvars => ConInv'
  BY ConNext
<1> QED
  BY <1>1, <1>2, PTL DEF ConsoleSpec

\* The parts keep their types, a command is under way exactly while the console
\* believes one is, and a specification is only saved under its own job's name
\* (the guard of the structured editor's keys, lib.rs 2322).
THEOREM SavesItsOwn == ConsoleSpec => []EditorInv
<1>1. ConInv => EditorInv
  BY InvGives
<1> QED
  BY <1>1, ConAlways, PTL

\* Edits in the snapshot: a step keeps them, unless it is the end of the console
\* or the detail task's, which asks which job is edited.
LEMMA EditsKept ==
    ASSUME ConInv, [ConsoleNext]_cvars
    PROVE  \/ snap'.editor.job = snap.editor.job /\ snap.editor.edited \subseteq snap'.editor.edited
           \/ DetailSwaps
           \/ app'.mode = "quit"
<1>0. SnapOK(snap)
  BY DEF ConInv
<1>1. CASE snap' = snap
  BY <1>1
<1>2. CASE LoopHead \/ LoopBusy \/ LateRequest \/ Outside \/ UNCHANGED cvars
  <2>1. snap' = snap
    BY <1>2 DEF LoopHead, LoopBusy, LateRequest, Outside, cvars
  <2> QED
    BY <1>1, <2>1
<1>3. CASE Tasks
  <2>1. CASE Refresh
    BY <1>0, <2>1 DEF Refresh, SnapOK
  <2>2. CASE DetailFetches \/ ActWrites \/ WriteFails \/ ManagerAnswers \/ RequestFails \/ ActTimesOut
    <3>1. snap' = snap
      BY <2>2 DEF DetailFetches, ActWrites, WriteFails, ManagerAnswers, RequestFails, ActTimesOut
    <3> QED
      BY <1>1, <3>1
  <2> QED
    BY <1>3, <2>1, <2>2 DEF Tasks
<1>4. CASE KeyShape
  BY <1>4 DEF KeyShape
<1>5. CASE Quit
  BY <1>5 DEF Quit, AtStart
<1>6. Browse \/ Edit => Quit \/ KeyShape
  BY BrowseInv, EditorsInv
<1> QED
  BY <1>2, <1>3, <1>4, <1>5, <1>6 DEF ConsoleNext

\* Once the job that is edited is published, no task that writes an older copy
\* of the snapshot back discards an edit (preserve_editor).
THEOREM EditsAreKept == ConsoleSpec => EditsStay
<1> DEFINE A == snap.editor.job = app.edit /\ app.edit # NoJob /\ shared.edit = app.edit
                   /\ app'.mode # "quit"
                 => snap'.editor.job = app.edit /\ snap.editor.edited \subseteq snap'.editor.edited
<1>1. ConInv /\ [ConsoleNext]_cvars => A
  <2> SUFFICES ASSUME ConInv, [ConsoleNext]_cvars,
                      snap.editor.job = app.edit, app.edit # NoJob, shared.edit = app.edit,
                      app'.mode # "quit"
               PROVE  /\ snap'.editor.job = app.edit
                      /\ snap.editor.edited \subseteq snap'.editor.edited
    OBVIOUS
  <2>1. CASE DetailSwaps
    <3>1. snap' = snap \/ snap' = [snap EXCEPT !.editor = snap.editor]
      BY <2>1 DEF DetailSwaps, preserve_editor
    <3> QED
      BY <3>1 DEF ConInv, SnapOK
  <2> QED
    BY <2>1, EditsKept
<1> QED
  BY <1>1, ConAlways, PTL DEF ConsoleSpec, EditsStay

\* The step that writes the object of the structured editor.
LEMMA SavingStep ==
    ASSUME ConInv, [ConsoleNext]_cvars, Saving
    PROVE  /\ ~Refused(act.object) /\ act.job \in Jobs
           /\ disk' = [disk EXCEPT ![act.job] = act.object]
<1>0. ActOK(act) /\ act.kind = "save" /\ act.pc = "todo" /\ act'.pc = "sent"
  BY DEF Saving, ConInv
<1>1. act' # act
  BY <1>0
<1>2. ~(Browse \/ Edit)
  <2>1. Quit => act'.pc = "none"
    BY NothingOK DEF Quit
  <2>2. KeyShape => act' = act \/ act'.pc = "todo"
    BY DEF KeyShape
  <2> QED
    BY <1>0, <1>1, <2>1, <2>2, BrowseInv, EditorsInv
<1>3. ~(LoopHead \/ LoopBusy)
  BY <1>0, <1>1, NothingOK DEF LoopHead, LoopBusy
<1>4. ~(LateRequest \/ Outside \/ UNCHANGED cvars)
  BY <1>1 DEF LateRequest, Outside, cvars
<1>5. ~(Refresh \/ DetailFetches \/ DetailSwaps)
  BY <1>1 DEF Refresh, DetailFetches, DetailSwaps
<1>6. ~WriteFails
  <2>1. WriteFails => act'.pc = "done"
    BY <1>0 DEF WriteFails, Finish, ActOK
  <2> QED
    BY <1>0, <2>1
<1>7. ~(ManagerAnswers \/ RequestFails \/ ActTimesOut)
  BY <1>0 DEF ManagerAnswers, RequestFails, ActTimesOut
<1>8. ActWrites
  BY <1>2, <1>3, <1>4, <1>5, <1>6, <1>7 DEF ConsoleNext, Tasks
<1>9. Written = upsert_job_block(act.job, act.object)
  BY <1>0 DEF Written
<1>10. Written.ok
  <2>1. ~Written.ok => act' = [act EXCEPT !.pc = "done", !.ok = FALSE]
    BY <1>0, <1>8 DEF ActWrites, Finish
  <2> QED
    BY <1>0, <2>1 DEF ActOK
<1>11. Valid(act.object) /\ act.job \in Defined(disk)
  BY <1>9, <1>10 DEF upsert_job_block
<1>12. disk' = [disk EXCEPT ![act.job] = act.object]
  BY <1>8, <1>9, <1>11 DEF ActWrites, upsert_job_block
<1> QED
  BY <1>11, <1>12 DEF Valid, Defined

\* An object without a variable in it is read as it is written.
LEMMA PlainIsRead ==
    ASSUME NEW d, IsDoc(d), Referring(d) = {}
    PROVE  ~Unset(d) /\ expand_env(d) = d
<1>1. ~Unset(d)
  BY DEF Unset, Referring
<1>2. DOMAIN expand_env(d) = DOMAIN d /\ \A f \in DOMAIN d : expand_env(d)[f] = d[f]
  BY ExpandedParts DEF expand_env, At, IsDoc
<1>3. d = [f \in DOMAIN d |-> d[f]] /\ expand_env(d) = [f \in DOMAIN d |-> expand_env(d)[f]]
  BY DEF IsDoc, expand_env
<1> QED
  BY <1>1, <1>2, <1>3

\* A save of the structured editor of texts without a ${ does not turn files that
\* load into files the manager cannot reload (validate_job_text).
THEOREM SavingNeverBreaks == ConsoleSpec => EditorNeverBreaks
<1>1. ConInv /\ [ConsoleNext]_cvars
        => (Saving /\ Referring(act.object) = {} /\ Loads(disk) => Loads(disk)')
  <2> SUFFICES ASSUME ConInv, [ConsoleNext]_cvars, Saving, Referring(act.object) = {}, Loads(disk)
               PROVE  Loads(disk')
    BY DEF Loads, Defined
  <2>1. /\ ~Refused(act.object) /\ act.job \in Jobs /\ DOMAIN disk = Jobs
        /\ disk' = [disk EXCEPT ![act.job] = act.object]
    BY SavingStep DEF ConInv, BlocksOK
  <2>2. ~Unset(act.object) /\ expand_env(act.object) = act.object
    BY PlainIsRead DEF Saving, ConInv, ActOK, Fine
  <2> QED
    BY <2>1, <2>2 DEF Loads, Defined
<1> QED
  BY <1>1, ConAlways, PTL DEF ConsoleSpec, EditorNeverBreaks

\* Without sub directories, and with memory limits of whole mebibytes, what the
\* operator did not touch and no ${ changes survives the way from the
\* specification through the editor's object, the file and the loader
\* (spec_to_editor, upsert_job_block, expand_env, resolve_job).
THEOREM SavingKeepsBase ==
    ASSUME NoSubdirs, WholeMebibytes
    PROVE  ConsoleSpec => SaveKeepsBase
<1> DEFINE A == Saving => Differs(act.base, resolve_job(expand_env(disk'[act.job])))
                            \subseteq UNION {Decides(f) : f \in act.edited \cup Referring(act.object)}
<1>1. ConInv /\ [ConsoleNext]_cvars => A
  <2> SUFFICES ASSUME ConInv, [ConsoleNext]_cvars, Saving
               PROVE  Differs(act.base, resolve_job(expand_env(disk'[act.job])))
                        \subseteq UNION {Decides(f) : f \in act.edited \cup Referring(act.object)}
    OBVIOUS
  <2> DEFINE o == act.object
  <2>1. /\ ~Refused(o) /\ act.job \in Jobs /\ DOMAIN disk = Jobs
        /\ disk' = [disk EXCEPT ![act.job] = o]
    BY SavingStep DEF ConInv, BlocksOK
  <2>2. disk'[act.job] = o
    BY <2>1
  <2>3. Fine(o) /\ IsSpec(act.base) /\ Kept(o, act.base, act.edited)
    BY DEF Saving, ConInv, ActOK
  <2>4. PICK d : Fine(d) /\ ~Refused(d) /\ act.base = resolve_job(d)
    BY <2>3 DEF IsSpec
  <2>5. IsDoc(d) /\ NoSubdir(d) /\ Whole(d) /\ IsDoc(o)
    BY <2>3, <2>4 DEF Fine
  <2>6. Kept(o, resolve_job(d), act.edited)
    BY <2>3, <2>4
  <2> HIDE DEF o
  <2>7. Differs(resolve_job(d), resolve_job(o)) \subseteq UNION {Decides(f) : f \in act.edited}
    BY <2>1, <2>4, <2>5, <2>6, RoundTrip
  <2>8. Differs(resolve_job(o), resolve_job(expand_env(o))) \subseteq UNION {Decides(f) : f \in Referring(o)}
    <3>1. \A f \in Fields : f \notin Referring(o) => At(o, f) = At(expand_env(o), f)
      BY <2>5, ExpandedParts
    <3> QED
      BY <3>1, SameParts
  <2>9. DOMAIN resolve_job(d) = Parts /\ DOMAIN resolve_job(o) = Parts
    BY ResolvedParts
  <2>10. Differs(resolve_job(d), resolve_job(expand_env(o)))
           \subseteq Differs(resolve_job(d), resolve_job(o))
                       \cup Differs(resolve_job(o), resolve_job(expand_env(o)))
    BY <2>9 DEF Differs
  <2> QED
    BY <2>2, <2>4, <2>7, <2>8, <2>10 DEF o
<1> QED
  BY <1>1, ConAlways, PTL DEF ConsoleSpec, SaveKeepsBase

\* The selection moves by a key, or because its job is no longer visible
\* (reconcile_selection).
THEOREM SelectionStays == ConsoleSpec => SelectionSticks
<1> DEFINE A == app'.sel # app.sel /\ app.sel # NoJob
                 => (app.key /\ ~app'.key) \/ app.sel \notin view'.jobs \cap Searched
<1>1. ConInv /\ [ConsoleNext]_cvars => A
  <2> SUFFICES ASSUME ConInv, [ConsoleNext]_cvars, app'.sel # app.sel, app.sel # NoJob,
                      app.sel \in view'.jobs \cap Searched
               PROVE  app.key /\ ~app'.key
    OBVIOUS
  <2>0. AppOK(app) /\ SnapOK(snap)
    BY DEF ConInv
  <2>1. CASE LoopHead
    <3> DEFINE a == Completed(app)
               sel == reconcile_selection(snap, a.sel, Searched)
    <3>1. AppOK(a) /\ a.sel = app.sel
      BY <2>0, CompletedSel
    <3>2. app' = [a EXCEPT !.sel = sel, !.key = TRUE] /\ view' = snap
      BY <2>1 DEF LoopHead
    <3>3. sel = app.sel
      <4>1. app.sel \in Jobs /\ snap.jobs \subseteq Jobs
        BY <2>0 DEF AppOK, SnapOK
      <4> QED
        BY <3>1, <3>2, <4>1, ReconcileParts
    <3> HIDE DEF a, sel
    <3> QED
      BY <3>1, <3>2, <3>3 DEF AppOK
  <2>2. CASE LoopBusy
    <3> DEFINE a == Completed(app)
    <3>1. AppOK(a) /\ a.sel = app.sel
      BY <2>0, CompletedSel
    <3>2. app' = [a EXCEPT !.key = FALSE]
      BY <2>2 DEF LoopBusy
    <3> HIDE DEF a
    <3> QED
      BY <3>1, <3>2 DEF AppOK
  <2>3. CASE Tasks
    <3>1. app' = app \/ app' = [app EXCEPT !.clean = @ \cup {act.blocks}]
      BY <2>3 DEF Tasks, Refresh, DetailFetches, DetailSwaps, ActWrites, WriteFails, ManagerAnswers,
           RequestFails, ActTimesOut, loop
    <3> QED
      BY <2>0, <3>1 DEF AppOK
  <2>4. CASE LateRequest \/ Outside \/ UNCHANGED cvars
    BY <2>4 DEF LateRequest, Outside, cvars, loop
  <2>5. Quit => app.key /\ ~app'.key
    BY DEF Quit, AtStart
  <2>6. KeyShape => app.key /\ ~app'.key
    BY DEF KeyShape
  <2> QED
    BY <2>1, <2>2, <2>3, <2>4, <2>5, <2>6, BrowseInv, EditorsInv DEF ConsoleNext
<1> QED
  BY <1>1, ConAlways, PTL DEF ConsoleSpec, SelectionSticks

-----------------------------------------------------------------------------
(* The file editor. *)

\* Nobody else changes the files: no other console or shell, and no deletion
\* that the manager handles after the console gave up waiting for it.
LateDelete == \E r \in orphans : r[1] = "delete" /\ orphans' = orphans \ {r}

SoleWriter == [][~Outside /\ ~LateDelete]_cvars

\* The blocks are those of one file.
OnlyIn(f, b) == b = [j \in Jobs |-> IF FileOf[j] = f THEN b[j] ELSE Absent]

\* The file under way has been written.
Stored == act.kind = "file" /\ (act.pc = "sent" \/ (act.pc = "done" /\ act.ok))

\* From when it was written until its completion is handled, the file holds
\* what is being saved, and the editor knows that when it shows the file.
FileInv ==
    /\ OnlyIn(app.file, app.buf)
    /\ act.kind = "file" => OnlyIn(act.file, act.blocks)
    /\ Stored => act.blocks = Blocks(act.file)
    /\ Stored /\ app.file = act.file => act.blocks \in app.clean
    /\ UnsavedIsDirty

LEMMA FileInit ==
    ASSUME ConsoleInit
    PROVE  FileInv
<1>1. app = AtStart /\ act = NoAct
  BY DEF ConsoleInit
<1>2. OnlyIn(app.file, app.buf)
  BY <1>1 DEF OnlyIn, AtStart, NoBlocks
<1>3. act.kind # "file"
  BY <1>1 DEF NoAct
<1>4. UnsavedIsDirty
  BY <1>1 DEF UnsavedIsDirty, AtStart
<1> QED
  BY <1>2, <1>3, <1>4 DEF FileInv, Stored

LEMMA OneFilesBlocks ==
    ASSUME NEW f
    PROVE  OnlyIn(f, Blocks(f))
BY DEF OnlyIn, Blocks

\* The file editor's state stays, and no file is being saved.
LEMMA NoSaveFrame ==
    ASSUME FileInv, FileSame(app'), act'.kind # "file"
    PROVE  FileInv'
<1>1. OnlyIn(app'.file, app'.buf)
  BY DEF FileInv, FileSame
<1>2. UnsavedIsDirty'
  BY DEF FileInv, UnsavedIsDirty, FileSame
<1> QED
  BY <1>1, <1>2 DEF FileInv, Stored

\* The file editor's state, the blocks and the command stay.
LEMMA FileFrame ==
    ASSUME FileInv, FileSame(app'), disk' = disk, act' = act
    PROVE  FileInv'
<1>1. OnlyIn(app'.file, app'.buf)
  BY DEF FileInv, FileSame
<1>2. UnsavedIsDirty'
  BY DEF FileInv, UnsavedIsDirty, FileSame
<1>3. Blocks(act.file)' = Blocks(act.file) /\ (Stored' <=> Stored)
  BY DEF Blocks, Stored
<1>4. Stored' => act'.blocks = Blocks(act.file)'
  BY <1>3 DEF FileInv
<1>5. Stored' /\ app'.file = act'.file => act'.blocks \in app'.clean
  BY <1>3 DEF FileInv, FileSame
<1>6. act'.kind = "file" => OnlyIn(act'.file, act'.blocks)
  BY DEF FileInv
<1> QED
  BY <1>1, <1>2, <1>4, <1>5, <1>6 DEF FileInv

\* The file editor's state stays, and what it holds is to be saved.
LEMMA SaveFrame ==
    ASSUME FileInv, FileSame(app'), act'.pc = "todo", act'.file = app.file, act'.blocks = app.buf
    PROVE  FileInv'
<1>1. OnlyIn(app'.file, app'.buf)
  BY DEF FileInv, FileSame
<1>2. UnsavedIsDirty'
  BY DEF FileInv, UnsavedIsDirty, FileSame
<1>3. ~Stored'
  BY DEF Stored
<1>4. OnlyIn(act'.file, act'.blocks)
  BY DEF FileInv
<1> QED
  BY <1>1, <1>2, <1>3, <1>4 DEF FileInv

\* The keys of the file editor.
LEMMA FileKeys ==
    ASSUME ConInv, FileInv, FileKey
    PROVE  FileInv'
<1>0. AppOK(app) /\ UNCHANGED <<disk, act>>
  BY DEF ConInv, FileKey, OpenConfig, NextFile, TypeInFile, CloseConfig, Key
<1>1. /\ Stored' <=> Stored
      /\ Blocks(act.file)' = Blocks(act.file)
      /\ act.kind = "file" => OnlyIn(act.file, act.blocks)
      /\ Stored => act.blocks = Blocks(act.file)
  BY <1>0 DEF Stored, Blocks, FileInv
<1>2. CASE OpenConfig \/ NextFile
  <2>1. PICK f : app'.file = f /\ app'.buf = Blocks(f) /\ app'.clean = {Blocks(f)}
    <3>1. CASE OpenConfig
      <4>1. app' = [[load_config_file(app, FirstFile) EXCEPT !.mode = "config"] EXCEPT !.key = FALSE]
        BY <3>1 DEF OpenConfig, Key
      <4>2. /\ app'.file = FirstFile /\ app'.buf = Blocks(FirstFile)
            /\ app'.clean = {Blocks(FirstFile)}
        BY <1>0, <4>1 DEF load_config_file, AppOK
      <4> QED
        BY <4>2
    <3>2. CASE NextFile
      <4>1. PICK f : app' = [load_config_file(app, f) EXCEPT !.key = FALSE]
        BY <3>2 DEF NextFile, Key
      <4>2. app'.file = f /\ app'.buf = Blocks(f) /\ app'.clean = {Blocks(f)}
        BY <1>0, <4>1 DEF load_config_file, AppOK
      <4> QED
        BY <4>2
    <3> QED
      BY <1>2, <3>1, <3>2
  <2>2. OnlyIn(app'.file, app'.buf)
    BY <2>1, OneFilesBlocks
  <2>3. UnsavedIsDirty'
    BY <2>1 DEF UnsavedIsDirty
  <2>4. Stored /\ app'.file = act.file => act.blocks \in app'.clean
    BY <1>1, <2>1
  <2> QED
    BY <1>0, <1>1, <2>2, <2>3, <2>4 DEF FileInv
<1>3. CASE TypeInFile
  <2>1. PICK j \in Jobs, doc \in FileDocs :
            FileOf[j] = app.file /\ app' = [app EXCEPT !.buf[j] = doc, !.dirty = TRUE, !.key = FALSE]
    BY <1>3 DEF TypeInFile
  <2>2. /\ app'.file = app.file /\ app'.buf = [app.buf EXCEPT ![j] = doc]
        /\ app'.clean = app.clean /\ app'.dirty = TRUE
    BY <1>0, <2>1 DEF AppOK
  <2>3. OnlyIn(app'.file, app'.buf)
    BY <2>1, <2>2 DEF FileInv, OnlyIn
  <2>4. UnsavedIsDirty'
    BY <2>2 DEF UnsavedIsDirty
  <2>5. Stored /\ app'.file = act.file => act.blocks \in app'.clean
    BY <2>2 DEF FileInv
  <2> QED
    BY <1>0, <1>1, <2>3, <2>4, <2>5 DEF FileInv
<1>4. CASE CloseConfig
  <2>1. app' = [[app EXCEPT !.dirty = FALSE, !.mode = "jobs"] EXCEPT !.key = FALSE]
    BY <1>4 DEF CloseConfig, Key
  <2>2. app'.file = app.file /\ app'.buf = app.buf /\ app'.clean = app.clean /\ app'.mode = "jobs"
    BY <1>0, <2>1 DEF AppOK
  <2>3. UnsavedIsDirty'
    BY <2>2 DEF UnsavedIsDirty
  <2> QED
    BY <1>0, <1>1, <2>2, <2>3 DEF FileInv
<1> QED
  BY <1>2, <1>3, <1>4 DEF FileKey

\* The head of the loop: a completion takes the mark away only where the file
\* shown holds what was saved.
LEMMA FileLoop ==
    ASSUME ConInv, FileInv, LoopHead \/ LoopBusy
    PROVE  FileInv'
<1>0. AppOK(app)
  BY DEF ConInv
<1> DEFINE a == Completed(app)
<1>1. PICK sel, key : app' = [a EXCEPT !.sel = sel, !.key = key]
  <2>1. CASE LoopHead
    BY <2>1 DEF LoopHead
  <2>2. CASE LoopBusy
    <3>1. app' = [a EXCEPT !.key = FALSE] /\ AppOK(a)
      BY <1>0, <2>2, CompletedParts DEF LoopBusy
    <3> HIDE DEF a
    <3>2. app' = [a EXCEPT !.sel = a.sel, !.key = FALSE]
      BY <3>1 DEF AppOK
    <3> QED
      BY <3>2
  <2> QED
    BY <2>1, <2>2
<1>2. /\ AppOK(a) /\ a.mode \in {app.mode, "jobs"}
      /\ \A f \in DOMAIN app \ {"pending", "dirty", "mode"} : a[f] = app[f]
      /\ \/ a.dirty = app.dirty
         \/ /\ act.pc = "done" /\ act.kind = "file" /\ act.ok
            /\ app.file = act.file /\ app.buf = act.blocks
  BY <1>0, CompletedParts
<1> HIDE DEF a
<1>3. {"file", "buf", "clean"} \subseteq DOMAIN app \ {"pending", "dirty", "mode"}
  BY <1>0 DEF AppOK
<1>4. a["file"] = app["file"] /\ a["buf"] = app["buf"] /\ a["clean"] = app["clean"]
  BY <1>2, <1>3
<1>5. /\ app'.file = app.file /\ app'.buf = app.buf /\ app'.clean = app.clean
      /\ app'.mode = a.mode /\ app'.dirty = a.dirty
  BY <1>1, <1>2, <1>4 DEF AppOK
<1>6. disk' = disk /\ act' = IF act.pc = "done" THEN NoAct ELSE act
  BY DEF LoopHead, LoopBusy
<1>7. act' = act \/ act'.kind # "file"
  BY <1>6 DEF NoAct
<1>8. CASE a.dirty = app.dirty
  <2>1. FileSame(app')
    BY <1>2, <1>5, <1>8 DEF FileSame
  <2> QED
    BY <1>6, <1>7, <2>1, FileFrame, NoSaveFrame
<1>9. CASE /\ act.pc = "done" /\ act.kind = "file" /\ act.ok
           /\ app.file = act.file /\ app.buf = act.blocks
  <2>1. app.buf \in app.clean /\ OnlyIn(app.file, app.buf)
    BY <1>9 DEF FileInv, Stored
  <2>2. UnsavedIsDirty' /\ OnlyIn(app'.file, app'.buf)
    BY <1>5, <2>1 DEF UnsavedIsDirty
  <2>3. act'.kind # "file"
    BY <1>6, <1>9 DEF NoAct
  <2> QED
    BY <2>2, <2>3 DEF FileInv, Stored
<1> QED
  BY <1>2, <1>8, <1>9

\* The task of the command: the file is written as it is saved, and a reload
\* does not change it.
LEMMA FileTasks ==
    ASSUME ConInv, FileInv, Tasks
    PROVE  FileInv'
<1>0. AppOK(app) /\ ActOK(act) /\ BlocksOK(act.blocks)
  BY DEF ConInv, ActOK
<1>1. CASE Refresh \/ DetailFetches \/ DetailSwaps
  <2>1. disk' = disk /\ act' = act /\ app' = app
    BY <1>1 DEF Refresh, DetailFetches, DetailSwaps, loop
  <2> QED
    BY <2>1, FileFrame DEF FileSame
<1>2. CASE ActTimesOut
  <2>1. act'.kind # "file" /\ app' = app
    BY <1>0, <1>2 DEF ActTimesOut, ActOK, loop
  <2> QED
    BY <2>1, NoSaveFrame DEF FileSame
<1>3. CASE WriteFails \/ RequestFails \/ ManagerAnswers
  <2>1. PICK ok : act' = [act EXCEPT !.pc = "done", !.ok = ok]
    BY <1>3 DEF WriteFails, RequestFails, ManagerAnswers, Finish
  <2>2. /\ act'.pc = "done" /\ act'.kind = act.kind /\ act'.ok = ok /\ act'.file = act.file
        /\ act'.blocks = act.blocks
    BY <1>0, <2>1 DEF ActOK
  <2>3. app' = app
    BY <1>3 DEF WriteFails, RequestFails, ManagerAnswers, loop
  <2>4. CASE act.kind # "file"
    BY <2>2, <2>3, <2>4, NoSaveFrame DEF FileSame
  <2>5. CASE act.kind = "file"
    <3>1. disk' = disk
      <4>1. CASE WriteFails \/ RequestFails
        BY <4>1 DEF WriteFails, RequestFails
      <4>2. CASE ManagerAnswers
        <5>1. Handle("reload", act.job, act.word)
          BY <2>5, <4>2 DEF ManagerAnswers, Request, Writes
        <5> QED
          BY <5>1 DEF Handle, Reloads
      <4> QED
        BY <1>3, <4>1, <4>2
    <3>2. Stored' => Stored
      <4>1. CASE WriteFails
        <5>1. act' = [act EXCEPT !.pc = "done", !.ok = FALSE]
          BY <4>1 DEF WriteFails, Finish
        <5>2. ~act'.ok
          BY <1>0, <5>1 DEF ActOK
        <5> QED
          BY <2>2, <5>2 DEF Stored
      <4>2. CASE RequestFails \/ ManagerAnswers
        <5>1. act.pc = "sent"
          BY <4>2 DEF RequestFails, ManagerAnswers
        <5>2. Stored
          BY <2>5, <5>1 DEF Stored
        <5> QED
          BY <5>2
      <4> QED
        BY <1>3, <4>1, <4>2
    <3>3. Blocks(act.file)' = Blocks(act.file)
      BY <2>2, <3>1 DEF Blocks
    <3>4. /\ Stored' => act'.blocks = Blocks(act.file)'
          /\ Stored' /\ app'.file = act'.file => act'.blocks \in app'.clean
      BY <2>2, <2>3, <3>2, <3>3 DEF FileInv
    <3>5. OnlyIn(app'.file, app'.buf) /\ OnlyIn(act'.file, act'.blocks)
      BY <2>2, <2>3, <2>5 DEF FileInv
    <3>6. UnsavedIsDirty'
      BY <2>3 DEF FileInv, UnsavedIsDirty
    <3> QED
      BY <3>4, <3>5, <3>6 DEF FileInv
  <2> QED
    BY <2>4, <2>5
<1>4. CASE ActWrites
  <2>1. PICK ok : \/ act' = [act EXCEPT !.pc = "sent"]
                  \/ act' = [act EXCEPT !.pc = "done", !.ok = ok]
    BY <1>4 DEF ActWrites, Finish
  <2>2. act'.kind = act.kind /\ act'.file = act.file /\ act'.blocks = act.blocks
    BY <1>0, <2>1 DEF ActOK
  <2>3. CASE act.kind # "file"
    <3>1. app' = app
      BY <1>4, <2>3 DEF ActWrites
    <3> QED
      BY <2>2, <2>3, <3>1, NoSaveFrame DEF FileSame
  <2>4. CASE act.kind = "file"
    <3>1. app' = IF app.file = act.file THEN [app EXCEPT !.clean = @ \cup {act.blocks}] ELSE app
      BY <1>4, <2>4 DEF ActWrites
    <3>2. /\ app'.file = app.file /\ app'.buf = app.buf /\ app'.dirty = app.dirty
          /\ app'.mode = app.mode
          /\ app'.clean = IF app.file = act.file THEN app.clean \cup {act.blocks} ELSE app.clean
      BY <1>0, <3>1 DEF AppOK
    <3>3. disk' = [j \in Jobs |-> IF FileOf[j] = act.file THEN act.blocks[j] ELSE disk[j]]
      BY <1>4, <2>4 DEF ActWrites, Written
    <3>4. OnlyIn(act.file, act.blocks) /\ OnlyIn(app.file, app.buf)
      BY <2>4 DEF FileInv
    <3>5. Blocks(act.file)' = [j \in Jobs |-> IF FileOf[j] = act.file THEN disk'[j] ELSE Absent]
      BY <2>2 DEF Blocks
    <3>6. Blocks(act.file)' = act.blocks
      BY <3>3, <3>4, <3>5 DEF OnlyIn
    <3>7. UnsavedIsDirty'
      BY <3>2 DEF FileInv, UnsavedIsDirty
    <3>8. app'.file = act'.file => act'.blocks \in app'.clean
      BY <2>2, <3>2
    <3>9. OnlyIn(app'.file, app'.buf) /\ OnlyIn(act'.file, act'.blocks)
      BY <2>2, <3>2, <3>4
    <3> QED
      BY <2>2, <3>6, <3>7, <3>8, <3>9 DEF FileInv
  <2> QED
    BY <2>3, <2>4
<1> QED
  BY <1>1, <1>2, <1>3, <1>4 DEF Tasks

LEMMA FileNext ==
    ASSUME ConInv, FileInv, [ConsoleNext]_cvars, [~Outside /\ ~LateDelete]_cvars
    PROVE  FileInv'
<1>1. CASE UNCHANGED cvars
  BY <1>1, FileFrame DEF cvars, FileSame
<1>2. CASE Browse \/ Edit
  <2>1. CASE Quit
    <3>1. act' = NoAct /\ app' = [AtStart EXCEPT !.mode = "quit"]
      BY <2>1 DEF Quit
    <3>2. act'.kind # "file"
      BY <3>1 DEF NoAct
    <3>3. OnlyIn(app'.file, app'.buf)
      BY <3>1 DEF OnlyIn, AtStart, NoBlocks
    <3>4. UnsavedIsDirty'
      BY <3>1 DEF UnsavedIsDirty, AtStart
    <3> QED
      BY <3>2, <3>3, <3>4 DEF FileInv, Stored
  <2>2. CASE KeyShape
    <3>1. CASE FileKey
      BY <3>1, FileKeys
    <3>2. CASE FileSame(app')
      <4>1. CASE act' = act
        BY <2>2, <3>2, <4>1, FileFrame DEF KeyShape
      <4>2. CASE act' # act /\ act'.kind = "file"
        BY <2>2, <3>2, <4>2, SaveFrame DEF KeyShape
      <4>3. CASE act'.kind # "file"
        BY <3>2, <4>3, NoSaveFrame
      <4> QED
        BY <4>1, <4>2, <4>3
    <3> QED
      BY <2>2, <3>1, <3>2 DEF KeyShape
  <2> QED
    BY <1>2, <2>1, <2>2, BrowseInv, EditorsInv
<1>3. CASE ConsoleNext /\ ~Outside /\ ~LateDelete
  <2>1. CASE LateRequest
    <3>1. PICK r \in orphans : /\ orphans' = orphans \ {r} /\ Handle(r[1], r[2], r[3])
                               /\ UNCHANGED <<snap, loop, detail, act, spent>>
      BY <2>1 DEF LateRequest
    <3>2. r[1] # "delete"
      BY <1>3, <3>1 DEF LateDelete
    <3>3. disk' = disk
      BY <3>1, <3>2 DEF Handle, Reloads, Unregisters
    <3> QED
      BY <3>1, <3>3, FileFrame DEF FileSame, loop
  <2> QED
    BY <1>2, <1>3, <2>1, FileLoop, FileTasks DEF ConsoleNext
<1> QED
  BY <1>1, <1>3

\* While nobody else changes the files, the file editor marks its buffer as
\* unsaved whenever it differs from what was last read from or written to the
\* file, also when a save completes while the operator types on
\* (finish_file_save).
THEOREM UnsavedIsMarked == ConsoleSpec /\ SoleWriter => []UnsavedIsDirty
<1>1. ConsoleInit => FileInv
  BY FileInit
<1>2. ConInv /\ FileInv /\ [ConsoleNext]_cvars /\ [~Outside /\ ~LateDelete]_cvars => FileInv'
  BY FileNext
<1>3. FileInv => UnsavedIsDirty
  BY DEF FileInv
<1> QED
  BY <1>1, <1>2, <1>3, ConAlways, PTL DEF ConsoleSpec, SoleWriter
=============================================================================
