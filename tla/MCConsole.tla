------------------------------ MODULE MCConsole ------------------------------
(* Instances of Console for TLC. *)
EXTENDS Console, TLC

CONSTANTS j1, j2, main, wconf

Listed == <<j1, j2>>
OneFile == [j \in Jobs |-> main]

\* One variable is set.
OneVariable == ("HOST" :> Word("h"))

Block(provider, schedule, storage) ==
    ("provider" :> Str(Word(provider))) @@ ("schedule" :> Str(Word(schedule)))
      @@ ("upstream" :> Str(Word("u"))) @@ ("storage" :> Str(Path(storage, 0)))

\* A job that is mirrored every ninety minutes from where a variable says, with
\* an option that has a literal ${, and one started by hand.
Plain == ("upstream" :> Str(Ref("HOST"))) @@ Block("rsync", "interval", "r")
           @@ ("every" :> Str(Span(90, "m"))) @@ ("options" :> List({Escaped("o1")}))
           @@ ("worker" :> Str(Word("w1"))) @@ ("memory_limit" :> Str(Size(2048, "M")))
           @@ ("timeout" :> Num(7200))
ByHand == Block("git", "manual", "s") @@ ("retry" :> Num(1))

\* The second of the two jobs that may be, only.
OneJob == (j1 :> Absent) @@ (j2 :> ByHand)

\* The form asks for a provider, an upstream, a storage path and a schedule.
Forms == {Block("rsync", "manual", "f")}

\* What somebody else writes: the mirrored job.
Elsewhere == {Plain}

\* What the operator types in the file editor: a block that does not load.
Mistake == {Block("rsync", "never", "s")}

\* A number, a word, and a variable that is not set.
Said == {Digits(5), Word("many"), Ref("x")}
Offered == {Word("o2")}
=============================================================================
