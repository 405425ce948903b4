----------------------------- MODULE MCDispatch -----------------------------
(* Instances of Dispatch for TLC. *)
EXTENDS Dispatch, TLC

CONSTANTS j1, j2

\* Days of three minutes.  The clock is put forward over the reading 4 and,
\* later, back over the reading 7, which comes twice.
SummerTime == [t \in 0..Ahead |-> IF t \in 4..6 THEN 1 ELSE 0]
\* Put forward over the reading 13, a week after the reading 4.
LateGap == [t \in 0..Ahead |-> IF t >= 13 THEN 1 ELSE 0]

\* A leap year (the end of it, with the leap day 3 of month 2) and three years of
\* two months of two days: the next leap day is more than two years away.
LeapDayOf == [d \in 0..16 |-> IF d = 1 THEN 3 ELSE IF d = 0 THEN 2 ELSE ((d - 2) % 2) + 1]
LeapMonthOf == [d \in 0..16 |-> IF d < 2 THEN 2 ELSE (((d - 2) \div 2) % 2) + 1]

Job(s, p) == [sched |-> s, pol |-> p, enabled |-> TRUE, gated |-> FALSE]
Field(a, b, s) == {[a |-> a, b |-> b, step |-> s]}
AllOf == Field(Star, Star, 1)

DailyAtGap == [kind |-> "daily", at |-> 1]
Weekly(wd, hm) == [kind |-> "weekly", wd |-> wd, at |-> hm]
Every(n) == [kind |-> "interval", every |-> n]
\* The first minute of leap days.
LeapDay == [kind |-> "cron", expr |-> [hour |-> Field(0, 0, 1), dom |-> Field(3, 3, 1),
                                       month |-> Field(2, 2, 1), dow |-> AllOf]]
\* Every first minute of the third of the month and of the last weekday.
EitherDay == [kind |-> "cron", expr |-> [hour |-> Field(0, 0, 1), dom |-> Field(3, 3, 1),
                                         month |-> AllOf, dow |-> Field(2, WeekLen - 1, 1)]]
\* Every other minute of the first day of the week, by its second number.
OtherMinute == [kind |-> "cron", expr |-> [hour |-> Field(Star, Star, 2), dom |-> AllOf,
                                           month |-> Field(1, 2, 1), dow |-> Field(WeekLen, WeekLen, 1)]]

Five == << (j1 :> Job(DailyAtGap, "skip")) @@ (j2 :> Job(Every(4), "run-immediately")),
            (j1 :> [Job(EitherDay, "run-immediately") EXCEPT !.gated = TRUE])
               @@ (j2 :> Job(Every(2), "skip")),
            (j1 :> [Job(OtherMinute, "run-next") EXCEPT !.enabled = FALSE])
               @@ (j2 :> [Job([kind |-> "startup"], "skip") EXCEPT !.gated = TRUE]),
            (j1 :> Job(Weekly(1, 0), "skip")) @@ (j2 :> Absent),
            (j1 :> Absent) @@ (j2 :> Job(LeapDay, "run-immediately")) >>

SundayNight == << (j1 :> Job(Weekly(1, 1), "skip")) >>

=============================================================================
