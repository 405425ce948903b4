------------------------------ MODULE Calendar ------------------------------
(***************************************************************************)
(* crates/synora-core/src/schedule.rs: when a schedule fires next.  Time   *)
(* is counted in minutes of UTC.  Days and weeks are as long as the        *)
(* constants say; months and years are what the calendar, a cycle of dates,*)
(* makes of them, so that years differ in length and a date of one year    *)
(* can be missing from the next.  A zone is its offset at every instant,   *)
(* so that readings of the wall clock can be missing or come twice.        *)
(***************************************************************************)
EXTENDS Integers

CONSTANTS DayLen,     \* minutes in a day
          WeekLen,    \* days in a week
          MonthLen,   \* days in the longest month
          YearLen,    \* months in a year
          YearDays,   \* days in the longest year
          Cycle,      \* days after which the calendar repeats
          DayOf,      \* [0..(Cycle - 1) -> 1..MonthLen]: days of the month,
          MonthOf,    \* [0..(Cycle - 1) -> 1..YearLen]: and months, of a cycle
          Ahead,      \* bound: the last instant the zone is defined for
          Offset      \* [0..Ahead -> Int]: the zone

ASSUME CalendarAssumption ==
    /\ {DayLen, WeekLen, MonthLen, YearLen, YearDays, Cycle} \subseteq Nat \ {0}
    /\ DayOf \in [0..(Cycle - 1) -> 1..MonthLen]
    /\ MonthOf \in [0..(Cycle - 1) -> 1..YearLen]
    /\ Ahead \in Nat /\ Offset \in [0..Ahead -> (-DayLen)..DayLen]

None == -1
Instants == 0..Ahead
Earliest(S) == CHOOSE t \in S : \A u \in S : t <= u

-----------------------------------------------------------------------------
(* Wall clock and calendar. *)

wall(t) == t + Offset[t]
Readings(w) == {t \in Instants : wall(t) = w}

\* A reading in a gap has no instant; of two, the first.
to_utc(w) == IF Readings(w) = {} THEN None ELSE Earliest(Readings(w))

date(w) == w \div DayLen
with_time(d, at) == d * DayLen + at
weekday(d) == d % WeekLen
day(d) == DayOf[d % Cycle]
month(d) == MonthOf[d % Cycle]

\* The first of the readings w(0), w(1).. w(n-1) that is an instant after now.
FirstAfter(now, n, w(_), ok(_)) ==
    LET hits == {i \in 0..(n - 1) : ok(w(i)) /\ to_utc(w(i)) > now}
    IN IF hits = {} THEN None ELSE to_utc(w(Earliest(hits)))

-----------------------------------------------------------------------------
(* The kinds of schedules. *)

Always(w) == TRUE

\* Mutant: today or tomorrow.
daily_next_of_two(at, now) ==
    FirstAfter(now, 2, LAMBDA i : with_time(date(wall(now)) + i, at), Always)

\* Three days are enough: one of them may have a gap there.
daily_next(at, now) ==
    FirstAfter(now, 3, LAMBDA i : with_time(date(wall(now)) + i, at), Always)

\* A week and two days, of which at most two have the right name.
weekly_next(wd, at, now) ==
    FirstAfter(now, WeekLen + 2, LAMBDA i : with_time(date(wall(now)) + i, at),
               LAMBDA w : weekday(date(w)) = wd)

\* The grid anchor + k * every.  (The loop of the code has nothing left to do.)
interval_next(anchor, every, now) ==
    LET step == IF every < 1 THEN 1 ELSE every
        span == IF now < anchor THEN 0 ELSE now - anchor
    IN anchor + ((span \div step) + 1) * step

-----------------------------------------------------------------------------
(* Cron: a field is a set of parts; an expression, four fields. *)

Star == -1
Bad == {[min |-> 1, max |-> 0, step |-> 1]}

\* chunks: [a, b, step] as written; last: the alias of the first day, or None.
parse_field(chunks, lo, hi, last) ==
    LET resolve(v) == IF v = last THEN lo ELSE v
        part(c) == [min |-> IF c.a = Star THEN lo ELSE resolve(c.a),
                    max |-> IF c.b = Star THEN hi ELSE resolve(c.b), step |-> c.step]
        parts == {part(c) : c \in chunks}
    IN IF \A p \in parts : p.step > 0 /\ lo <= p.min /\ p.min <= p.max /\ p.max <= hi
       THEN parts ELSE Bad

\* hour: hours and minutes together.
parse(expr) == [hour |-> parse_field(expr.hour, 0, DayLen - 1, None),
                dom |-> parse_field(expr.dom, 1, MonthLen, None),
                month |-> parse_field(expr.month, 1, YearLen, None),
                dow |-> parse_field(expr.dow, 0, WeekLen, WeekLen)]

field_matches(f, v) == \E p \in f : p.min <= v /\ v <= p.max /\ (v - p.min) % p.step = 0
is_full_range(f, lo, hi) == f = {[min |-> lo, max |-> hi, step |-> 1]}

\* Either day field will do when both are restricted.
cron_matches(c, w) ==
    LET dom == field_matches(c.dom, day(date(w)))
        dow == field_matches(c.dow, weekday(date(w)))
    IN /\ field_matches(c.month, month(date(w)))
       /\ IF is_full_range(c.dom, 1, MonthLen) \/ is_full_range(c.dow, 0, WeekLen)
          THEN dom /\ dow ELSE dom \/ dow
       /\ field_matches(c.hour, w % DayLen)

\* Two of the longest years: a date that comes less often is not found.
MaxMinutes == 2 * YearDays * DayLen

cron_next(expr, now) ==
    LET c == parse(expr)
    IN IF \E f \in DOMAIN c : c[f] = Bad THEN None
       ELSE FirstAfter(now, MaxMinutes, LAMBDA i : wall(now) + 1 + i,
                       LAMBDA w : cron_matches(c, w))

Untimed == {"manual", "startup"}

\* What the loader lets through.
Chunks == [a : Nat \cup {Star}, b : Nat \cup {Star}, step : Nat]
IsSchedule(s) ==
    /\ s.kind \in {"daily", "weekly", "interval", "cron"} \cup Untimed
    /\ s.kind \in {"daily", "weekly"} => s.at \in 0..(DayLen - 1)
    /\ s.kind = "interval" => s.every \in Nat
    /\ s.kind = "cron" => /\ s.expr \in [hour : SUBSET Chunks, dom : SUBSET Chunks,
                                         month : SUBSET Chunks, dow : SUBSET Chunks]
                       /\ \A f \in DOMAIN parse(s.expr) : parse(s.expr)[f] # Bad

next_after(s, now, anchor) ==
    CASE s.kind = "daily"    -> daily_next(s.at, now)
      [] s.kind = "weekly"   -> weekly_next(s.wd, s.at, now)
      [] s.kind = "interval" -> interval_next(IF anchor = None THEN now ELSE anchor, s.every, now)
      [] s.kind = "cron"     -> cron_next(s.expr, now)
      [] s.kind \in Untimed  -> None

-----------------------------------------------------------------------------
(* What a schedule means, without an algorithm. *)

\* The values a field names.
Named(chunks, lo, hi, v) ==
    \E c \in chunks : LET a == IF c.a = Star THEN lo ELSE c.a
                          b == IF c.b = Star THEN hi ELSE c.b
                      IN a <= v /\ v <= b /\ (v - a) % c.step = 0
IsStar(chunks) == chunks = {[a |-> Star, b |-> Star, step |-> 1]}

\* Of the days of the week, the last is the first: a range from it begins the week.
FromFirst(chunks) == {IF c.a = WeekLen /\ c.b # WeekLen THEN [c EXCEPT !.a = 0] ELSE c : c \in chunks}

CronMeans(e, w) ==
    LET d == date(w)
        dom == Named(e.dom, 1, MonthLen, day(d))
        dow == \/ Named(FromFirst(e.dow), 0, WeekLen, weekday(d))
               \/ weekday(d) = 0 /\ Named(FromFirst(e.dow), 0, WeekLen, WeekLen)
    IN /\ Named(e.month, 1, YearLen, month(d)) /\ Named(e.hour, 0, DayLen - 1, w % DayLen)
       /\ IF IsStar(e.dom) THEN dow ELSE IF IsStar(e.dow) THEN dom ELSE dom \/ dow

\* Schedule s fires at t: the clock reads it, and reads it for the first time.
Fires(s, anchor, t) ==
    LET w == wall(t)
        first == \A u \in Readings(w) : t <= u
    IN \/ s.kind = "daily" /\ first /\ w % DayLen = s.at
       \/ s.kind = "weekly" /\ first /\ w % DayLen = s.at /\ weekday(date(w)) = s.wd
       \/ s.kind = "interval" /\ t > anchor /\ (t - anchor) % s.every = 0
       \/ s.kind = "cron" /\ first /\ CronMeans(s.expr, w)

FirstFiring(s, anchor, now) ==
    LET after == {t \in Instants : t > now /\ Fires(s, anchor, t)}
    IN IF after = {} THEN None ELSE Earliest(after)

\* How far ahead of now the code looks: a day or a week of a daily or weekly
\* schedule is never far away, a date of a cron expression can be.
InReach(s, now, t) == s.kind = "cron" => wall(t) <= wall(now) + MaxMinutes

=============================================================================
