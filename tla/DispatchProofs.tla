--------------------------- MODULE DispatchProofs ---------------------------
(***************************************************************************)
(* Proofs about the scheduler (modules Calendar and Dispatch): stored      *)
(* points stay on the grid of their schedules, ticks leave nothing behind, *)
(* what was missed is made up for, a point gets one run and a reload makes *)
(* nothing due; for every calendar, zone, set of jobs, configuration and   *)
(* bound.  The last part shows that the next time of a schedule is its     *)
(* first firing, in zones that skip none of its readings.                  *)
(***************************************************************************)
EXTENDS Dispatch, WellFoundedInduction, TLAPS

\* The loader accepts an interval of 0s.  The theorems that need it say that
\* there is none.
NoZero == \A g \in DOMAIN Configs : \A j \in Jobs :
    (Configs[g][j] # Absent /\ Configs[g][j].sched.kind = "interval")
        => Configs[g][j].sched.every # 0

-----------------------------------------------------------------------------
(* The inductive invariant. *)

AllSchedules == Schedules \cup {NoRow.sched}
Rows == [sched : AllSchedules, next : Nat \cup {None}, pol : Policies \cup {"none"},
         anchor : Nat \cup {None}]

\* The clock goes on, and a loop has one row in hand.
InOrder ==
    /\ boot <= at /\ at <= now
    /\ pc = "boot_pass" => at = boot
    /\ pc \in {"down", "synced", "ready"} => todo = {} /\ cur = {}
    /\ todo \subseteq Known(Configs[live])
    /\ \A i, k \in cur : i = k

\* The table has the schedules of the configuration in memory, and an interval
\* has its anchor.
Follows ==
    /\ row \in [Jobs -> Rows]
    /\ pc # "down" => \A j \in Known(Configs[live]) :
                         row[j].sched = job(j).sched /\ row[j].pol = job(j).pol
    /\ \A j \in Jobs : row[j].sched.kind = "interval" => row[j].anchor \in 0..now

\* What the boot pass has been over is not older than the start.
SinceBoot ==
    /\ pc = "boot_pass" => \A j \in Jobs \ todo : row[j].next = None \/ row[j].next >= boot
    /\ pc \in {"ready", "due"} => \A j \in Jobs : row[j].next = None \/ row[j].next >= boot

\* What a tick has been over is later than the tick.
Caught ==
    /\ NothingOverdue
    /\ pc = "due" => \A j \in Jobs \ todo : row[j].next = None \/ row[j].next > at

\* A served point is replaced in the same loop, or the process died before.
Served == served \subseteq torn \cup cur

\* What is to be made up for is still overdue, and ahead of the boot pass.
Missing ==
    /\ pc \notin {"synced", "boot_pass"} => missed = {}
    /\ pc = "boot_pass" => missed \subseteq todo \ cur
    /\ \A j \in missed : /\ j \in Known(Configs[live]) /\ Configs[live][j].enabled
                         /\ row[j].next # None /\ row[j].pol = "run-immediately"
                         /\ row[j].next < (IF pc = "synced" THEN now ELSE boot)

SchedInv ==
    /\ SchedTypeOK /\ InOrder /\ Follows /\ SinceBoot /\ Served /\ Missing
    /\ NoZero => OnTheGrid /\ Caught

-----------------------------------------------------------------------------
(* The least number of a set, and remainders. *)

Below == {ss \in Nat \X Nat : ss[1] < ss[2]}

LEMMA BelowWellFounded == IsWellFoundedOn(Below, Nat)
  BY NatLessThanWellFounded DEF Below, OpToRel

\* Earliest is what its name says.
LEMMA EarliestIsFirst ==
    ASSUME NEW S, S \subseteq Nat, S # {}
    PROVE  Earliest(S) \in S /\ \A u \in S : Earliest(S) <= u
  <1>1. PICK x \in S : \A y \in S : ~(<<y, x>> \in Below)
    BY BelowWellFounded, WFMin
  <1>2. ASSUME NEW y \in S PROVE x <= y
    <2>1. x \in Nat /\ y \in Nat
      OBVIOUS
    <2>2. ~(y < x)
      BY <1>1, <2>1 DEF Below
    <2> QED BY <2>1, <2>2
  <1>3. \E t \in S : \A u \in S : t <= u
    BY <1>2
  <1> QED BY <1>3 DEF Earliest

\* The time of day of the reading at `a` of day d is a.
LEMMA TimeOfDay ==
    ASSUME NEW d \in Int, NEW L \in Nat \ {0}, NEW a \in 0..(L - 1)
    PROVE  (d * L + a) % L = a
  OBVIOUS

\* The next point of a grid.
LEMMA GridNext ==
    ASSUME NEW a \in Nat, NEW span \in Nat, NEW step \in Nat \ {0},
           NEW x, x = a + ((span \div step) + 1) * step
    PROVE  /\ x \in Nat /\ x > a + span
           /\ (x - a) % step = 0
  <1>1. PICK q \in Nat : q = span \div step
    OBVIOUS
  <1>2. span = step * q + (span % step) /\ span % step \in 0..(step - 1)
    BY <1>1
  <1>3. (q + 1) * step = q * step + step /\ q * step \in Nat
    OBVIOUS
  <1>4. x \in Nat /\ x > a + span
    BY <1>1, <1>2, <1>3
  <1>5. x - a = (q + 1) * step + 0
    BY <1>1, <1>3
  <1>6. ((q + 1) * step + 0) % step = 0
    BY TimeOfDay
  <1> QED BY <1>4, <1>5, <1>6

-----------------------------------------------------------------------------
(* When a schedule fires next. *)

\* A reading of the clock that is an instant is its first instant.
LEMMA ToUtc ==
    ASSUME NEW w, to_utc(w) # None
    PROVE  /\ to_utc(w) \in Instants /\ wall(to_utc(w)) = w
           /\ \A u \in Readings(w) : to_utc(w) <= u
  <1>1. Readings(w) # {} /\ to_utc(w) = Earliest(Readings(w))
    BY DEF to_utc
  <1>2. Readings(w) \subseteq Nat
    BY CalendarAssumption DEF Readings, Instants
  <1>3. Earliest(Readings(w)) \in Readings(w) /\ \A u \in Readings(w) : Earliest(Readings(w)) <= u
    BY <1>1, <1>2, EarliestIsFirst
  <1> QED BY <1>1, <1>3 DEF Readings

LEMMA DailyNext ==
    ASSUME NEW a, NEW t \in Nat, daily_next(a, t) # None
    PROVE  \E i \in Nat : LET w == with_time(date(wall(t)) + i, a) IN
             to_utc(w) = daily_next(a, t) /\ to_utc(w) > t
  <1> DEFINE w(i) == with_time(date(wall(t)) + i, a)
             hits == {i \in 0..2 : to_utc(w(i)) > t}
  <1>1. daily_next(a, t) = IF hits = {} THEN None ELSE to_utc(w(Earliest(hits)))
    BY DEF daily_next, FirstAfter, Always
  <1>2. hits \subseteq Nat
    OBVIOUS
  <1>3. hits # {} /\ Earliest(hits) \in hits
    <2> HIDE DEF hits
    <2> QED BY <1>1, <1>2, EarliestIsFirst
  <1> QED BY <1>1, <1>2, <1>3

LEMMA WeeklyNext ==
    ASSUME NEW wd, NEW a, NEW t \in Nat, weekly_next(wd, a, t) # None
    PROVE  \E i \in Nat : LET w == with_time(date(wall(t)) + i, a) IN
             /\ to_utc(w) = weekly_next(wd, a, t) /\ to_utc(w) > t
             /\ weekday(date(w)) = wd
  <1> DEFINE w(i) == with_time(date(wall(t)) + i, a)
             hits == {i \in 0..((WeekLen + 2) - 1) : (weekday(date(w(i))) = wd) /\ (to_utc(w(i)) > t)}
  <1>1. weekly_next(wd, a, t) = IF hits = {} THEN None ELSE to_utc(w(Earliest(hits)))
    BY CalendarAssumption DEF weekly_next, FirstAfter
  <1>2. hits \subseteq Nat
    BY CalendarAssumption
  <1>3. hits # {} /\ Earliest(hits) \in hits
    <2> HIDE DEF hits
    <2> QED BY <1>1, <1>2, EarliestIsFirst
  <1> QED BY <1>1, <1>2, <1>3

LEMMA CronNext ==
    ASSUME NEW e, NEW t \in Nat, cron_next(e, t) # None
    PROVE  \E i \in Nat : LET w == wall(t) + 1 + i IN
             /\ to_utc(w) = cron_next(e, t) /\ to_utc(w) > t
             /\ cron_matches(parse(e), w)
             /\ \A f \in DOMAIN parse(e) : parse(e)[f] # Bad
  <1> DEFINE c == parse(e)
             w(i) == wall(t) + 1 + i
             hits == {i \in 0..(MaxMinutes - 1) : cron_matches(c, w(i)) /\ to_utc(w(i)) > t}
  <1>0. ~(\E f \in DOMAIN c : c[f] = Bad)
    BY DEF cron_next
  <1>1. cron_next(e, t) = IF hits = {} THEN None ELSE to_utc(w(Earliest(hits)))
    BY <1>0 DEF cron_next, FirstAfter
  <1>2. hits \subseteq Nat
    <2>1. \A m, n \in Nat : m * n \in Nat
      OBVIOUS
    <2>2. MaxMinutes \in Nat
      BY <2>1, CalendarAssumption DEF MaxMinutes
    <2> QED BY <2>2
  <1>3. hits # {} /\ Earliest(hits) \in hits
    <2> HIDE DEF hits
    <2> QED BY <1>1, <1>2, EarliestIsFirst
  <1> QED BY <1>0, <1>1, <1>2, <1>3

\* A field that was accepted names what it matches.
LEMMA FieldNames ==
    ASSUME NEW chunks, NEW lo, NEW hi, NEW v,
           parse_field(chunks, lo, hi, None) # Bad,
           field_matches(parse_field(chunks, lo, hi, None), v)
    PROVE  Named(chunks, lo, hi, v)
  <1> DEFINE part(c) == [min |-> IF c.a = Star THEN lo ELSE IF c.a = None THEN lo ELSE c.a,
                         max |-> IF c.b = Star THEN hi ELSE IF c.b = None THEN lo ELSE c.b,
                         step |-> c.step]
  <1>1. parse_field(chunks, lo, hi, None) = {part(c) : c \in chunks}
    BY DEF parse_field
  <1>2. PICK c \in chunks : LET p == part(c) IN
                            p.min <= v /\ v <= p.max /\ (v - p.min) % p.step = 0
    BY <1>1 DEF field_matches
  <1>3. /\ part(c).min = (IF c.a = Star THEN lo ELSE c.a)
        /\ part(c).max = (IF c.b = Star THEN hi ELSE c.b)
        /\ part(c).step = c.step
    BY DEF Star, None
  <1> QED BY <1>2, <1>3 DEF Named

\* The days of the week: the last is the first.
LEMMA DayNames ==
    ASSUME NEW chunks \in SUBSET Chunks, NEW v \in 0..(WeekLen - 1),
           parse_field(chunks, 0, WeekLen, WeekLen) # Bad,
           field_matches(parse_field(chunks, 0, WeekLen, WeekLen), v)
    PROVE  \/ Named(FromFirst(chunks), 0, WeekLen, v)
           \/ v = 0 /\ Named(FromFirst(chunks), 0, WeekLen, WeekLen)
  <1>0. WeekLen \in Nat \ {0} /\ WeekLen # Star
    BY CalendarAssumption DEF Star
  <1> DEFINE part(c) == [min |-> IF c.a = Star THEN 0 ELSE IF c.a = WeekLen THEN 0 ELSE c.a,
                         max |-> IF c.b = Star THEN WeekLen ELSE IF c.b = WeekLen THEN 0 ELSE c.b,
                         step |-> c.step]
  <1>1. /\ parse_field(chunks, 0, WeekLen, WeekLen) = {part(c) : c \in chunks}
        /\ \A p \in {part(c) : c \in chunks} :
              p.step > 0 /\ 0 <= p.min /\ p.min <= p.max /\ p.max <= WeekLen
    BY DEF parse_field
  <1>2. PICK c \in chunks : LET p == part(c) IN
                            p.min <= v /\ v <= p.max /\ (v - p.min) % p.step = 0
    BY <1>1 DEF field_matches
  <1>3. /\ part(c).min = (IF c.a = Star THEN 0 ELSE IF c.a = WeekLen THEN 0 ELSE c.a)
        /\ part(c).max = (IF c.b = Star THEN WeekLen ELSE IF c.b = WeekLen THEN 0 ELSE c.b)
        /\ part(c).step = c.step
        /\ c.step > 0 /\ 0 <= part(c).min /\ part(c).min <= part(c).max
    <2>1. /\ part(c).min = (IF c.a = Star THEN 0 ELSE IF c.a = WeekLen THEN 0 ELSE c.a)
          /\ part(c).max = (IF c.b = Star THEN WeekLen ELSE IF c.b = WeekLen THEN 0 ELSE c.b)
          /\ part(c).step = c.step
      OBVIOUS
    <2>2. part(c).step > 0 /\ 0 <= part(c).min /\ part(c).min <= part(c).max
      <3> HIDE DEF part
      <3> QED BY <1>1
    <2> QED BY <2>1, <2>2
  <1>4. c \in Chunks /\ c.a \in Nat \cup {Star} /\ c.b \in Nat \cup {Star} /\ c.step \in Nat \ {0}
    BY <1>3 DEF Chunks
  <1> HIDE DEF part
  <1>5. CASE c.b # WeekLen
    <2>1. PICK k \in FromFirst(chunks) :
              k = IF c.a = WeekLen /\ c.b # WeekLen THEN [c EXCEPT !.a = 0] ELSE c
      BY DEF FromFirst
    <2>2. k.a = (IF c.a = WeekLen THEN 0 ELSE c.a) /\ k.b = c.b /\ k.step = c.step
      BY <1>4, <1>5, <2>1 DEF Chunks
    <2>3. /\ (IF k.a = Star THEN 0 ELSE k.a) = part(c).min
          /\ (IF k.b = Star THEN WeekLen ELSE k.b) = part(c).max
      BY <1>0, <1>3, <1>5, <2>2 DEF Star
    <2> QED BY <1>2, <1>3, <2>2, <2>3 DEF Named
  <1>6. CASE c.b = WeekLen
    <2>0. c \in FromFirst(chunks)
      BY <1>6 DEF FromFirst
    <2>1. part(c).max = 0 /\ part(c).min = 0 /\ v = 0
      BY <1>0, <1>2, <1>3, <1>4, <1>6 DEF Star
    <2>2. (0 - 0) % c.step = 0 /\ (WeekLen - WeekLen) % c.step = 0
      BY <1>0, <1>4
    <2>3. CASE c.a = WeekLen
      BY <1>0, <1>6, <2>0, <2>1, <2>2, <2>3 DEF Named
    <2>4. CASE c.a # WeekLen
      <3>1. (IF c.a = Star THEN 0 ELSE c.a) = 0 /\ (IF c.b = Star THEN WeekLen ELSE c.b) = WeekLen
        BY <1>0, <1>3, <1>6, <2>1, <2>4
      <3> QED BY <1>0, <2>0, <2>1, <2>2, <3>1 DEF Named
    <2> QED BY <2>3, <2>4
  <1> QED BY <1>5, <1>6

\* A reading that cron_matches accepts is one the expression means.
LEMMA CronSound ==
    ASSUME NEW e, e.dow \in SUBSET Chunks, NEW w \in Int,
           cron_matches(parse(e), w), \A f \in DOMAIN parse(e) : parse(e)[f] # Bad
    PROVE  CronMeans(e, w)
  <1> DEFINE H == parse_field(e.hour, 0, DayLen - 1, None)
             D == parse_field(e.dom, 1, MonthLen, None)
             M == parse_field(e.month, 1, YearLen, None)
             W == parse_field(e.dow, 0, WeekLen, WeekLen)
             d == date(w)
  <1>1. /\ parse(e).hour = H /\ parse(e).dom = D /\ parse(e).month = M /\ parse(e).dow = W
        /\ H # Bad /\ D # Bad /\ M # Bad /\ W # Bad
    BY DEF parse
  <1>2. d \in Int /\ weekday(d) \in 0..(WeekLen - 1)
    BY CalendarAssumption DEF date, weekday
  <1> HIDE DEF H, D, M, W, d
  <1>3. /\ field_matches(M, month(d)) /\ field_matches(H, w % DayLen)
        /\ IF is_full_range(D, 1, MonthLen) \/ is_full_range(W, 0, WeekLen)
           THEN field_matches(D, day(d)) /\ field_matches(W, weekday(d))
           ELSE field_matches(D, day(d)) \/ field_matches(W, weekday(d))
    BY <1>1 DEF cron_matches, d
  <1>4. Named(e.month, 1, YearLen, month(d)) /\ Named(e.hour, 0, DayLen - 1, w % DayLen)
    BY <1>1, <1>3, FieldNames DEF H, M
  <1>5. field_matches(D, day(d)) => Named(e.dom, 1, MonthLen, day(d))
    BY <1>1, FieldNames DEF D
  <1>6. field_matches(W, weekday(d)) => \/ Named(FromFirst(e.dow), 0, WeekLen, weekday(d))
                                        \/ weekday(d) = 0 /\ Named(FromFirst(e.dow), 0, WeekLen, WeekLen)
    BY <1>1, <1>2, DayNames DEF W
  <1>7. IsStar(e.dom) => is_full_range(D, 1, MonthLen)
    <2>1. D = {[min |-> IF c.a = Star THEN 1 ELSE IF c.a = None THEN 1 ELSE c.a,
                max |-> IF c.b = Star THEN MonthLen ELSE IF c.b = None THEN 1 ELSE c.b,
                step |-> c.step] : c \in e.dom}
      BY <1>1 DEF D, parse_field
    <2> QED BY <2>1 DEF IsStar, is_full_range
  <1>8. IsStar(e.dow) => is_full_range(W, 0, WeekLen)
    <2>1. W = {[min |-> IF c.a = Star THEN 0 ELSE IF c.a = WeekLen THEN 0 ELSE c.a,
                max |-> IF c.b = Star THEN WeekLen ELSE IF c.b = WeekLen THEN 0 ELSE c.b,
                step |-> c.step] : c \in e.dow}
      BY <1>1 DEF W, parse_field
    <2> QED BY <2>1 DEF IsStar, is_full_range
  <1> QED BY <1>3, <1>4, <1>5, <1>6, <1>7, <1>8 DEF CronMeans, d

Positive(s) == s.kind = "interval" => s.every # 0

\* A clock reading within the bounds is a number.
LEMMA WallTyped == \A t \in Instants : t \in Nat /\ wall(t) \in Int /\ date(wall(t)) \in Int
  <1> SUFFICES ASSUME NEW t \in Instants
               PROVE  t \in Nat /\ wall(t) \in Int /\ date(wall(t)) \in Int
    OBVIOUS
  <1>1. t \in Nat /\ Offset[t] \in Int /\ DayLen \in Nat \ {0}
    BY CalendarAssumption DEF Instants
  <1>2. wall(t) \in Int
    BY <1>1 DEF wall
  <1> QED BY <1>1, <1>2 DEF date

\* The next time of a schedule is later than the clock, and is a time at which
\* the schedule fires.
LEMMA NextFires ==
    ASSUME NEW s, IsSchedule(s), NEW t \in 0..MaxTime, NEW a \in Nat \cup {None},
           s.kind = "interval" => a \in 0..t,
           NEW x, x = next_after(s, t, a), x # None
    PROVE  x \in Nat /\ x > t /\ (Positive(s) => Fires(s, a, x))
  <1>0. t \in Instants /\ t \in Nat /\ wall(t) \in Int /\ date(wall(t)) \in Int
        /\ DayLen \in Nat \ {0}
    BY DispatchAssumption, CalendarAssumption, WallTyped DEF Instants
  <1>1. ASSUME NEW w, x = to_utc(w) PROVE x \in Nat /\ wall(x) = w /\ \A u \in Readings(w) : x <= u
    BY <1>1, ToUtc, CalendarAssumption DEF Instants
  <1>2. CASE s.kind = "daily"
    <2>1. x = daily_next(s.at, t)
      BY <1>2 DEF next_after
    <2>2. PICK i \in Nat : LET w == with_time(date(wall(t)) + i, s.at) IN x = to_utc(w) /\ x > t
      BY <1>0, <2>1, DailyNext
    <2>3. PICK w : w = with_time(date(wall(t)) + i, s.at)
      OBVIOUS
    <2>4. x \in Nat /\ x > t /\ wall(x) = w /\ \A u \in Readings(w) : x <= u
      BY <1>1, <2>2, <2>3
    <2>5. w % DayLen = s.at
      <3>1. PICK d \in Int : d = date(wall(t)) + i
        BY <1>0
      <3>2. s.at \in 0..(DayLen - 1)
        BY <1>2 DEF IsSchedule
      <3>3. w = d * DayLen + s.at
        BY <2>3, <3>1 DEF with_time
      <3> QED BY <1>0, <3>2, <3>3, TimeOfDay
    <2> QED BY <1>2, <2>4, <2>5 DEF Fires
  <1>3. CASE s.kind = "weekly"
    <2>1. x = weekly_next(s.wd, s.at, t)
      BY <1>3 DEF next_after
    <2>2. PICK i \in Nat : LET w == with_time(date(wall(t)) + i, s.at) IN
                           x = to_utc(w) /\ x > t /\ weekday(date(w)) = s.wd
      BY <1>0, <2>1, WeeklyNext
    <2>3. PICK w : w = with_time(date(wall(t)) + i, s.at)
      OBVIOUS
    <2>4. x \in Nat /\ x > t /\ wall(x) = w /\ \A u \in Readings(w) : x <= u
      BY <1>1, <2>2, <2>3
    <2>5. w % DayLen = s.at
      <3>1. PICK d \in Int : d = date(wall(t)) + i
        BY <1>0
      <3>2. s.at \in 0..(DayLen - 1)
        BY <1>3 DEF IsSchedule
      <3>3. w = d * DayLen + s.at
        BY <2>3, <3>1 DEF with_time
      <3> QED BY <1>0, <3>2, <3>3, TimeOfDay
    <2> QED BY <1>3, <2>2, <2>3, <2>4, <2>5 DEF Fires
  <1>4. CASE s.kind = "interval"
    <2>1. x = interval_next(a, s.every, t) /\ a \in 0..t /\ s.every \in Nat
      BY <1>0, <1>4 DEF next_after, None, IsSchedule
    <2>2. PICK step \in Nat \ {0} : /\ x = a + (((t - a) \div step) + 1) * step
                                    /\ s.every # 0 => step = s.every
      <3>1. PICK p \in Nat \ {0} : p = IF s.every < 1 THEN 1 ELSE s.every
        BY <2>1
      <3>2. ~(t < a)
        BY <1>0, <2>1
      <3>3. x = a + (((t - a) \div p) + 1) * p
        BY <2>1, <3>1, <3>2 DEF interval_next
      <3>4. s.every # 0 => p = s.every
        BY <2>1, <3>1
      <3> QED BY <3>3, <3>4
    <2>3. x \in Nat /\ x > a + (t - a) /\ (x - a) % step = 0
      <3>1. PICK span \in Nat : span = t - a
        BY <1>0, <2>1
      <3>2. a \in Nat /\ x = a + ((span \div step) + 1) * step
        BY <1>0, <2>1, <2>2, <3>1
      <3> QED BY <3>1, <3>2, GridNext
    <2>4. x > t /\ x > a
      BY <1>0, <2>1, <2>3
    <2>5. Positive(s) => (x - a) % s.every = 0
      <3>1. Positive(s) => step = s.every
        BY <1>4, <2>2 DEF Positive
      <3> QED BY <2>3, <3>1
    <2>6. Positive(s) => Fires(s, a, x)
      BY <1>4, <2>4, <2>5, Zenon DEF Fires
    <2> QED BY <2>3, <2>4, <2>6
  <1>5. CASE s.kind = "cron"
    <2>1. x = cron_next(s.expr, t)
      BY <1>5 DEF next_after
    <2>2. PICK i \in Nat : LET w == wall(t) + 1 + i IN
             /\ x = to_utc(w) /\ x > t
             /\ cron_matches(parse(s.expr), w)
             /\ \A f \in DOMAIN parse(s.expr) : parse(s.expr)[f] # Bad
      BY <1>0, <2>1, CronNext
    <2>3. PICK w \in Int : w = wall(t) + 1 + i
      BY <1>0
    <2>4. x \in Nat /\ x > t /\ wall(x) = w /\ \A u \in Readings(w) : x <= u
      BY <1>1, <2>2, <2>3
    <2>5. s.expr.dow \in SUBSET Chunks
      BY <1>5 DEF IsSchedule
    <2>6. CronMeans(s.expr, w)
      BY <2>2, <2>3, <2>5, CronSound
    <2> QED BY <1>5, <2>4, <2>6 DEF Fires
  <1>6. CASE s.kind \in Untimed
    BY <1>6 DEF next_after, Untimed
  <1> QED BY <1>2, <1>3, <1>4, <1>5, <1>6 DEF IsSchedule

\* The anchor of a schedule that is no interval does not matter.
LEMMA AnchorFree ==
    ASSUME NEW s, s.kind # "interval", NEW a, NEW b, NEW x, Fires(s, a, x)
    PROVE  Fires(s, b, x)
  BY DEF Fires

-----------------------------------------------------------------------------
(* The rows that sync_config and reload write. *)

LEMMA SpecsTyped ==
    ASSUME NEW g \in DOMAIN Configs, NEW j \in Known(Configs[g])
    PROVE  /\ IsSpec(Configs[g][j]) /\ Configs[g][j].sched \in Schedules
           /\ NoZero => Positive(Configs[g][j].sched)
  <1>1. j \in Jobs /\ Configs[g][j] # Absent
    BY DEF Known
  <1>2. IsSpec(Configs[g][j])
    BY <1>1, DispatchAssumption
  <1>3. Configs[g][j].sched \in Schedules
    <2>1. <<g, j>> \in {y \in (DOMAIN Configs) \X Jobs : Configs[y[1]][y[2]] # Absent}
      BY <1>1
    <2> QED BY <2>1 DEF Schedules
  <1>4. NoZero => Positive(Configs[g][j].sched)
    BY <1>1 DEF NoZero, Positive
  <1> QED BY <1>2, <1>3, <1>4

\* A point is on the grid of its schedule.
OnGrid(r) == r.next # None => \/ Fires(r.sched, r.anchor, r.next)
                              \/ r.sched.kind = "interval" /\ r.next = r.anchor

\* What the rows are made from.
TableOK ==
    /\ row \in [Jobs -> Rows] /\ now \in 0..MaxTime
    /\ \A j \in Jobs : row[j].sched.kind = "interval" => row[j].anchor \in 0..now
    /\ NoZero => \A j \in Jobs : OnGrid(row[j])

LEMMA GridRows == OnTheGrid <=> \A j \in Jobs : OnGrid(row[j])
  BY DEF OnTheGrid, OnGrid

LEMMA InvTable == SchedInv => TableOK
  BY GridRows DEF SchedInv, SchedTypeOK, Follows, TableOK

\* A row is written for a job: an unchanged schedule keeps its point, another
\* one gets a point that is not past.
LEMMA RowWritten ==
    ASSUME TableOK, NEW g \in DOMAIN Configs, NEW j \in Known(Configs[g]), NEW imm \in BOOLEAN,
           NEW r, r = sync_schedule_for(j, Configs[g][j], imm)
    PROVE  /\ r \in Rows /\ r.sched = Configs[g][j].sched /\ r.pol = Configs[g][j].pol
           /\ r.sched.kind = "interval" => r.anchor \in 0..now
           /\ NoZero => OnGrid(r)
           /\ \/ r.next = row[j].next
              \/ r.next = None
              \/ r.next >= now /\ ((NoZero /\ ~imm) => r.next > now)
           /\ row[j] # NoRow /\ row[j].sched = Configs[g][j].sched => r.next = row[j].next
  <1> DEFINE spec == Configs[g][j]
             s == spec.sched
             na == NextAndAnchor(j, spec, imm)
  <1>0. /\ j \in Jobs /\ row[j] \in Rows /\ now \in Nat /\ now \in 0..MaxTime
        /\ IsSpec(spec) /\ s \in AllSchedules /\ (NoZero => Positive(s))
        /\ IsSchedule(s) /\ spec.pol \in Policies \cup {"none"}
    <2>1. /\ IsSpec(spec) /\ s \in AllSchedules /\ (NoZero => Positive(s))
      BY SpecsTyped DEF AllSchedules
    <2>2. j \in Jobs /\ row[j] \in Rows /\ now \in 0..MaxTime
      BY DEF Known, TableOK
    <2>3. now \in Nat
      BY <2>2, DispatchAssumption, CalendarAssumption DEF Instants
    <2> QED BY <2>1, <2>2, <2>3 DEF IsSpec
  <1>1. PICK x, y : x = na[1] /\ y = na[2]
    OBVIOUS
  <1> HIDE DEF na
  <1>2. r = [sched |-> s, next |-> x, pol |-> spec.pol, anchor |-> IF y = None THEN row[j].anchor ELSE y]
    BY <1>1 DEF sync_schedule_for, na
  <1>3. /\ r.sched = s /\ r.next = x /\ r.pol = spec.pol
        /\ r.anchor = IF y = None THEN row[j].anchor ELSE y
    BY <1>2
  <1>4. row[j].next \in Nat \cup {None} /\ row[j].anchor \in Nat \cup {None}
    BY <1>0 DEF Rows
  <1> HIDE DEF s, spec
  <1>5. ASSUME x \in Nat \cup {None}, y \in Nat \cup {None} PROVE r \in Rows
    BY <1>0, <1>2, <1>4, <1>5 DEF Rows
  <1>6. CASE row[j] # NoRow /\ row[j].sched = s
    <2>1. x = row[j].next /\ y = row[j].anchor
      BY <1>1, <1>6 DEF na, NextAndAnchor, s, spec
    <2>2. r.anchor = row[j].anchor
      BY <1>3, <2>1
    <2>3. NoZero => OnGrid(r)
      BY <1>0, <1>3, <1>6, <2>1, <2>2 DEF TableOK, OnGrid
    <2>4. r.sched.kind = "interval" => r.anchor \in 0..now
      BY <1>0, <1>3, <1>6, <2>2 DEF TableOK
    <2> QED BY <1>3, <1>4, <1>5, <2>1, <2>3, <2>4 DEF s, spec
  <1>7. CASE ~(row[j] # NoRow /\ row[j].sched = s) /\ s.kind \in Untimed
    <2>1. x = None /\ y = None
      BY <1>1, <1>7 DEF na, NextAndAnchor, s, spec, Untimed
    <2> QED BY <1>3, <1>5, <1>7, <2>1 DEF OnGrid, Untimed, s, spec
  <1>8. CASE ~(row[j] # NoRow /\ row[j].sched = s) /\ s.kind = "interval"
    <2>1. x = (IF imm THEN now ELSE now + s.every) /\ y = now /\ s.every \in Nat
      BY <1>0, <1>1, <1>8 DEF na, NextAndAnchor, s, spec, Untimed, IsSchedule
    <2>2. y # None /\ r.anchor = now
      BY <1>0, <1>3, <2>1 DEF None
    <2>3. x \in Nat /\ x >= now /\ ((NoZero /\ ~imm) => x > now)
      BY <1>0, <1>8, <2>1 DEF Positive
    <2>4. NoZero => OnGrid(r)
      <3>1. CASE imm
        BY <1>3, <1>8, <2>1, <2>2, <3>1 DEF OnGrid
      <3>2. CASE ~imm /\ NoZero
        <4>1. PICK e \in Nat \ {0} : e = s.every
          BY <1>0, <1>8, <2>1, <3>2 DEF Positive
        <4>2. x - now = e /\ e % e = 0
          BY <1>0, <2>1, <3>2, <4>1
        <4>3. (x - now) % s.every = 0 /\ x > now
          BY <2>3, <3>2, <4>1, <4>2
        <4>4. Fires(s, now, x)
          BY <1>8, <4>3, Zenon DEF Fires
        <4> QED BY <1>3, <2>2, <4>4 DEF OnGrid
      <3> QED BY <3>1, <3>2
    <2>5. r.anchor \in 0..now
      BY <1>0, <2>2
    <2> QED BY <1>0, <1>3, <1>5, <1>8, <2>1, <2>3, <2>4, <2>5 DEF s, spec
  <1>9. CASE ~(row[j] # NoRow /\ row[j].sched = s) /\ s.kind \notin Untimed \cup {"interval"}
    <2>1. x = next_after(s, now, None) /\ y = None
      BY <1>1, <1>9 DEF na, NextAndAnchor, s, spec
    <2>2. x # None => x \in Nat /\ x > now /\ (Positive(s) => Fires(s, None, x))
      BY <1>0, <1>9, <2>1, NextFires
    <2>3. NoZero => OnGrid(r)
      <3>1. ASSUME NoZero, x # None PROVE Fires(s, r.anchor, x)
        <4>1. Fires(s, None, x)
          BY <1>0, <2>2, <3>1
        <4> QED BY <1>9, <4>1, AnchorFree
      <3> QED BY <1>3, <3>1 DEF OnGrid
    <2> QED BY <1>0, <1>3, <1>5, <1>9, <2>1, <2>2, <2>3 DEF s, spec
  <1> QED BY <1>6, <1>7, <1>8, <1>9

LEMMA NoRowFields ==
    /\ NoRow.sched.kind = "manual" /\ NoRow.next = None /\ NoRow.anchor = None
    /\ NoRow.pol = "none" /\ NoRow \in Rows
  <1>1. NoRow.next = None /\ NoRow.anchor = None /\ NoRow.pol = "none" /\ NoRow.sched.kind = "manual"
    BY DEF NoRow
  <1>2. NoRow.sched \in AllSchedules
    BY DEF AllSchedules
  <1> QED BY <1>1, <1>2 DEF Rows, NoRow

\* The whole table is written with configuration g: the jobs of J anew, the
\* others have their schedules and policies.
LEMMA TableWritten ==
    ASSUME TableOK, NEW g \in DOMAIN Configs, NEW imm \in BOOLEAN, NEW J,
           row' = Synced(Configs[g], imm, J), now' = now,
           \A j \in Known(Configs[g]) : j \notin J =>
               /\ row[j].sched = Configs[g][j].sched /\ row[j].pol = Configs[g][j].pol
    PROVE  /\ TableOK'
           /\ \A j \in Jobs : row'[j] # NoRow <=> j \in Known(Configs[g])
           /\ \A j \in Known(Configs[g]) : /\ row'[j].sched = Configs[g][j].sched
                                           /\ row'[j].pol = Configs[g][j].pol
           /\ \A j \in Jobs : \/ row'[j].next = row[j].next
                              \/ row'[j].next = None
                              \/ row'[j].next >= now /\ ((NoZero /\ ~imm) => row'[j].next > now)
           /\ \A j \in Known(Configs[g]) :
                 (j \notin J \/ (row[j] # NoRow /\ row[j].sched = Configs[g][j].sched))
                     => row'[j].next = row[j].next
  <1> DEFINE K == Known(Configs[g])
  <1>1. ASSUME NEW j \in Jobs, j \notin K
        PROVE  row'[j] = NoRow
    BY <1>1 DEF Known, Synced
  <1>2. ASSUME NEW j \in K
        PROVE  row'[j] = IF j \in J THEN sync_schedule_for(j, Configs[g][j], imm) ELSE row[j]
    BY <1>2 DEF Known, Synced
  <1>3. ASSUME NEW j \in K
        PROVE  /\ row'[j] \in Rows
               /\ row'[j].sched = Configs[g][j].sched /\ row'[j].pol = Configs[g][j].pol
               /\ row'[j].sched.kind = "interval" => row'[j].anchor \in 0..now
               /\ NoZero => OnGrid(row'[j])
               /\ \/ row'[j].next = row[j].next
                  \/ row'[j].next = None
                  \/ row'[j].next >= now /\ ((NoZero /\ ~imm) => row'[j].next > now)
               /\ (j \notin J \/ (row[j] # NoRow /\ row[j].sched = Configs[g][j].sched))
                     => row'[j].next = row[j].next
    <2>1. CASE j \in J
      <3>1. PICK r : r = sync_schedule_for(j, Configs[g][j], imm)
        OBVIOUS
      <3>2. row'[j] = r
        BY <1>2, <2>1, <3>1
      <3> QED BY <2>1, <3>1, <3>2, RowWritten
    <2>2. CASE j \notin J
      <3>1. row'[j] = row[j] /\ j \in Jobs
        BY <1>2, <2>2 DEF Known
      <3> QED BY <2>2, <3>1 DEF TableOK
    <2> QED BY <2>1, <2>2
  <1>4. K \subseteq Jobs
    BY DEF Known
  <1> HIDE DEF K
  <1>5. row' \in [Jobs -> Rows]
    <2>1. \A j \in Jobs : row'[j] \in Rows
      BY <1>1, <1>3, NoRowFields
    <2>2. row' = [j \in Jobs |-> row'[j]]
      BY DEF Synced
    <2> QED BY <2>1, <2>2
  <1>6. TableOK'
    <2>1. \A j \in Jobs : row'[j].sched.kind = "interval" => row'[j].anchor \in 0..now
      BY <1>1, <1>3, NoRowFields
    <2>2. NoZero => \A j \in Jobs : OnGrid(row'[j])
      <3>1. OnGrid(NoRow)
        BY NoRowFields DEF OnGrid
      <3> QED BY <1>1, <1>3, <3>1
    <2>3. now' \in 0..MaxTime
      BY DEF TableOK
    <2>4. NoZero => \A j \in Jobs : OnGrid(row[j])'
      BY <2>2 DEF OnGrid
    <2> QED BY <1>5, <2>1, <2>3, <2>4 DEF TableOK
  <1>7. ASSUME NEW j \in K PROVE row'[j] # NoRow
    <2>1. Configs[g][j].pol \in Policies
      BY <1>7, SpecsTyped DEF K, IsSpec
    <2>2. row'[j].pol # "none"
      BY <1>3, <2>1 DEF Policies
    <2> QED BY <2>2, NoRowFields
  <1>8. \A j \in Jobs : \/ row'[j].next = row[j].next
                        \/ row'[j].next = None
                        \/ row'[j].next >= now /\ ((NoZero /\ ~imm) => row'[j].next > now)
    BY <1>1, <1>3, NoRowFields
  <1> QED BY <1>1, <1>3, <1>4, <1>6, <1>7, <1>8 DEF K

-----------------------------------------------------------------------------
(* The steps. *)

\* Numbers and rows, as the steps use them.
LEMMA InvTyped ==
    ASSUME SchedInv
    PROVE  /\ now \in Nat /\ boot \in Nat /\ at \in Nat /\ MaxTime \in Nat
           /\ now \in 0..MaxTime /\ live \in DOMAIN Configs
           /\ \A j \in Jobs : row[j] \in Rows /\ row[j].next \in Nat \cup {None}
  <1>1. MaxTime \in Nat
    BY DispatchAssumption, CalendarAssumption DEF Instants
  <1> QED BY <1>1 DEF SchedInv, SchedTypeOK, Follows, Rows

\* What a written table gives of the invariant.
LEMMA TableGives ==
    ASSUME TableOK', live' \in DOMAIN Configs,
           \A j \in Jobs : row'[j] # NoRow <=> j \in Known(Configs[live']),
           \A j \in Known(Configs[live']) : /\ row'[j].sched = Configs[live'][j].sched
                                            /\ row'[j].pol = Configs[live'][j].pol
    PROVE  /\ Follows' /\ (NoZero => OnTheGrid')
           /\ \A j \in Jobs : /\ row'[j].next \in Nat \cup {None}
                              /\ row'[j].anchor \in Nat \cup {None}
                              /\ row'[j].pol \in Policies \cup {"none"}
  <1>1. row' \in [Jobs -> Rows]
    BY DEF TableOK
  <1>2. \A j \in Jobs : row'[j] \in Rows
    BY <1>1
  <1>3. Follows'
    BY DEF TableOK, Follows, job
  <1>4. NoZero => OnTheGrid'
    BY DEF TableOK, OnTheGrid, OnGrid
  <1> QED BY <1>2, <1>3, <1>4 DEF Rows

LEMMA SyncKeeps ==
    ASSUME SchedInv, NEW g \in DOMAIN Configs, sync_config(g)
    PROVE  SchedInv'
  <1>0. /\ TableOK /\ pc = "down" /\ pc' = "synced" /\ live' = g
        /\ todo = {} /\ cur = {} /\ todo' = {} /\ cur' = {}
        /\ UNCHANGED <<now, boot, at, events>>
    BY InvTable DEF sync_config, SchedInv, InOrder
  <1>1. row' = Synced(Configs[g], TRUE, Jobs) /\ missed' = Overdue(Configs[g]) /\ KeepServed
        /\ busy' = busy \cap Known(Configs[g])
    BY DEF sync_config
  <1>2. Known(Configs[g]) \subseteq Jobs
    BY DEF Known
  <1>3. /\ TableOK'
        /\ \A j \in Jobs : row'[j] # NoRow <=> j \in Known(Configs[g])
        /\ \A j \in Known(Configs[g]) : /\ row'[j].sched = Configs[g][j].sched
                                        /\ row'[j].pol = Configs[g][j].pol
        /\ \A j \in Known(Configs[g]) :
              (row[j] # NoRow /\ row[j].sched = Configs[g][j].sched)
                  => row'[j].next = row[j].next
    BY <1>0, <1>1, <1>2, TableWritten
  <1>4. /\ Follows' /\ (NoZero => OnTheGrid')
        /\ \A j \in Jobs : /\ row'[j].next \in Nat \cup {None}
                           /\ row'[j].anchor \in Nat \cup {None}
                           /\ row'[j].pol \in Policies \cup {"none"}
    BY <1>0, <1>3, TableGives
  <1>5. served' \subseteq served /\ torn' = torn \cap served'
    BY <1>1 DEF KeepServed
  <1>6. Overdue(Configs[g]) \subseteq Known(Configs[g])
    BY DEF Overdue
  <1>7. SchedTypeOK'
    BY <1>0, <1>1, <1>2, <1>3, <1>4, <1>5, <1>6 DEF SchedInv, SchedTypeOK
  <1>8. InOrder' /\ SinceBoot' /\ Served' /\ Caught'
    BY <1>0, <1>5 DEF SchedInv, InOrder, SinceBoot, Served, Caught, NothingOverdue
  <1>9. Missing'
    <2> SUFFICES ASSUME NEW j \in Overdue(Configs[g])
                 PROVE  /\ j \in Known(Configs[g]) /\ Configs[g][j].enabled
                        /\ row'[j].next # None /\ row'[j].pol = "run-immediately"
                        /\ row'[j].next < now
      BY <1>0, <1>1 DEF Missing
    <2> QED BY <1>3 DEF Overdue
  <1> QED BY <1>4, <1>7, <1>8, <1>9 DEF SchedInv

\* A reload writes the rows of the jobs that changed.
LEMMA ReloadWrites ==
    ASSUME SchedInv, NEW g \in DOMAIN Configs, reload(g)
    PROVE  /\ TableOK'
           /\ \A j \in Jobs : row'[j] # NoRow <=> j \in Known(Configs[g])
           /\ \A j \in Known(Configs[g]) : /\ row'[j].sched = Configs[g][j].sched
                                           /\ row'[j].pol = Configs[g][j].pol
           /\ \A j \in Jobs : \/ row'[j].next = row[j].next
                              \/ row'[j].next = None
                              \/ row'[j].next >= now /\ (NoZero => row'[j].next > now)
           /\ \A j \in Known(Configs[g]) : Configs[g][j] = job(j) =>
                 /\ j \in Known(Configs[live]) /\ row'[j].next = row[j].next
                 /\ row'[j].pol = row[j].pol
  <1> DEFINE J == {j \in Known(Configs[g]) : Configs[g][j] # job(j)}
  <1>0. TableOK /\ pc # "down" /\ now' = now /\ row' = Synced(Configs[g], FALSE, J)
    BY InvTable DEF reload
  <1>1. ASSUME NEW j \in Known(Configs[g]), Configs[g][j] = job(j)
        PROVE  /\ j \in Known(Configs[live])
               /\ row[j].sched = Configs[g][j].sched /\ row[j].pol = Configs[g][j].pol
    <2>1. j \in Known(Configs[live])
      BY <1>1 DEF Known, job
    <2> QED BY <1>0, <1>1, <2>1 DEF SchedInv, Follows
  <1>2. \A j \in Known(Configs[g]) : j \notin J => Configs[g][j] = job(j)
    OBVIOUS
  <1>3. \A j \in Known(Configs[g]) : Configs[g][j] = job(j) => j \notin J
    OBVIOUS
  <1> HIDE DEF J
  <1>4. /\ TableOK'
        /\ \A j \in Jobs : row'[j] # NoRow <=> j \in Known(Configs[g])
        /\ \A j \in Known(Configs[g]) : /\ row'[j].sched = Configs[g][j].sched
                                        /\ row'[j].pol = Configs[g][j].pol
        /\ \A j \in Jobs : \/ row'[j].next = row[j].next
                           \/ row'[j].next = None
                           \/ row'[j].next >= now /\ ((NoZero /\ ~FALSE) => row'[j].next > now)
        /\ \A j \in Known(Configs[g]) :
              (j \notin J \/ (row[j] # NoRow /\ row[j].sched = Configs[g][j].sched))
                  => row'[j].next = row[j].next
    <2>1. \A j \in Known(Configs[g]) : j \notin J =>
               /\ row[j].sched = Configs[g][j].sched /\ row[j].pol = Configs[g][j].pol
      BY <1>1, <1>2
    <2> QED BY <1>0, <2>1, TableWritten
  <1> QED BY <1>1, <1>3, <1>4

LEMMA ReloadKeeps ==
    ASSUME SchedInv, NEW g \in DOMAIN Configs, reload(g)
    PROVE  SchedInv'
  <1>0. /\ pc \in {"synced", "ready"} /\ pc' = pc /\ live' = g
        /\ todo = {} /\ cur = {} /\ todo' = {} /\ cur' = {}
        /\ UNCHANGED <<now, boot, at>> /\ KeepServed
    BY DEF reload, SchedInv, InOrder
  <1>1. /\ TableOK'
        /\ \A j \in Jobs : row'[j] # NoRow <=> j \in Known(Configs[g])
        /\ \A j \in Known(Configs[g]) : /\ row'[j].sched = Configs[g][j].sched
                                        /\ row'[j].pol = Configs[g][j].pol
        /\ \A j \in Jobs : \/ row'[j].next = row[j].next
                           \/ row'[j].next = None
                           \/ row'[j].next >= now /\ (NoZero => row'[j].next > now)
        /\ \A j \in Known(Configs[g]) : Configs[g][j] = job(j) =>
              /\ j \in Known(Configs[live]) /\ row'[j].next = row[j].next
              /\ row'[j].pol = row[j].pol
    BY ReloadWrites
  <1>2. /\ Follows' /\ (NoZero => OnTheGrid')
        /\ \A j \in Jobs : /\ row'[j].next \in Nat \cup {None}
                           /\ row'[j].anchor \in Nat \cup {None}
                           /\ row'[j].pol \in Policies \cup {"none"}
    BY <1>0, <1>1, TableGives
  <1>3. served' \subseteq served /\ torn' = torn \cap served'
    BY <1>0 DEF KeepServed
  <1>4. /\ busy' \subseteq busy /\ events' \in 0..MaxEvents
        /\ missed' = missed \ ({j \in Known(Configs[g]) : Configs[g][j] # job(j)}
                                 \cup (Jobs \ Known(Configs[g])))
    BY DispatchAssumption DEF reload, Event, SchedInv, SchedTypeOK
  <1>5. SchedTypeOK'
    <2>1. busy' \cup served' \cup torn' \cup missed' \subseteq Jobs
      BY <1>3, <1>4 DEF SchedInv, SchedTypeOK
    <2> QED BY <1>0, <1>1, <1>2, <1>4, <2>1 DEF SchedInv, SchedTypeOK
  <1>6. InOrder' /\ Served'
    BY <1>0, <1>3 DEF SchedInv, InOrder, Served
  <1>7. now \in Nat /\ boot \in Nat /\ at \in Nat /\ boot <= at /\ at <= now
    BY InvTyped DEF SchedInv, InOrder
  <1>8. SinceBoot'
    <2> SUFFICES ASSUME pc = "ready", NEW j \in Jobs
                 PROVE  row'[j].next = None \/ row'[j].next >= boot
      BY <1>0 DEF SinceBoot
    <2>1. row[j].next = None \/ row[j].next >= boot
      BY DEF SchedInv, SinceBoot
    <2> QED BY <1>1, <1>2, <1>7, <2>1
  <1>9. NoZero => Caught'
    <2> SUFFICES ASSUME NoZero, pc = "ready", at > boot, NEW j \in Jobs
                 PROVE  row'[j].next = None \/ row'[j].next > at
      BY <1>0 DEF Caught, NothingOverdue
    <2>1. row[j].next = None \/ row[j].next > at
      BY DEF SchedInv, Caught, NothingOverdue
    <2> QED BY <1>1, <1>2, <1>7, <2>1
  <1>10. Missing'
    <2>1. pc = "ready" => missed' = {}
      BY <1>4 DEF SchedInv, Missing
    <2>2. ASSUME NEW j \in missed', pc = "synced"
          PROVE  /\ j \in Known(Configs[g]) /\ Configs[g][j].enabled
                 /\ row'[j].next # None /\ row'[j].pol = "run-immediately"
                 /\ row'[j].next < now
      <3>1. j \in missed /\ j \in Known(Configs[g]) /\ Configs[g][j] = job(j)
        BY <1>4, <2>2 DEF SchedInv, SchedTypeOK
      <3>2. /\ row[j].next # None /\ row[j].pol = "run-immediately" /\ row[j].next < now
            /\ job(j).enabled
        BY <2>2, <3>1 DEF SchedInv, Missing, job
      <3> QED BY <1>1, <3>1, <3>2
    <2> QED BY <1>0, <2>1, <2>2 DEF Missing
  <1> QED BY <1>2, <1>5, <1>6, <1>8, <1>9, <1>10 DEF SchedInv

\* A step that leaves the table, the configuration and the clock alone.
LEMMA SameTable ==
    ASSUME SchedInv, UNCHANGED <<row, live, now>>, pc # "down" \/ pc' = pc
    PROVE  Follows' /\ (NoZero => OnTheGrid')
  BY DEF SchedInv, Follows, OnTheGrid, job

LEMMA BesidesKeep ==
    ASSUME SchedInv, NEW j \in Jobs, trigger_run(j) \/ RunEnds(j)
    PROVE  SchedInv'
  <1>0. /\ UNCHANGED <<now, live, row, pc, boot, at, todo, cur, served, torn, missed>>
        /\ busy' \subseteq Jobs /\ events' \in 0..MaxEvents
    BY DispatchAssumption
    DEF trigger_run, RunEnds, Event, Queue, ghosts, SchedInv, SchedTypeOK
  <1>1. Follows' /\ (NoZero => OnTheGrid')
    BY <1>0, SameTable
  <1>2. SchedTypeOK'
    BY <1>0 DEF SchedInv, SchedTypeOK
  <1>3. InOrder' /\ SinceBoot' /\ Served' /\ Missing' /\ (NoZero => Caught')
    BY <1>0 DEF SchedInv, InOrder, SinceBoot, Served, Missing, Caught, NothingOverdue
  <1> QED BY <1>1, <1>2, <1>3 DEF SchedInv

\* A job without a block has no point.
LEMMA UnknownHasNone ==
    ASSUME SchedInv, pc # "down", NEW j \in Jobs \ Known(Configs[live])
    PROVE  row[j].next = None
  <1>1. row[j] = NoRow
    BY DEF SchedInv, SchedTypeOK
  <1> QED BY <1>1, NoRowFields

LEMMA RunKeeps == SchedInv /\ run => SchedInv'
  <1> SUFFICES ASSUME SchedInv, run PROVE SchedInv'
    OBVIOUS
  <1>0. /\ pc = "synced" /\ pc' = "boot_pass" /\ boot' = now /\ at' = now
        /\ todo' = Known(Configs[live]) /\ cur' = {}
        /\ UNCHANGED <<now, live, row, served, torn, missed, events>>
        /\ busy' \subseteq busy \cup Jobs
    BY DEF run, ghosts
  <1>1. Follows' /\ (NoZero => OnTheGrid')
    BY <1>0, SameTable
  <1>2. Known(Configs[live]) \subseteq Jobs
    BY DEF Known
  <1>3. SchedTypeOK'
    BY <1>0, <1>2 DEF SchedInv, SchedTypeOK
  <1>4. InOrder'
    BY <1>0, InvTyped DEF InOrder
  <1>5. SinceBoot'
    BY <1>0, UnknownHasNone DEF SinceBoot
  <1>6. Served' /\ Caught'
    BY <1>0 DEF SchedInv, InOrder, Served, Caught, NothingOverdue
  <1>7. Missing'
    BY <1>0 DEF SchedInv, Missing
  <1> QED BY <1>1, <1>3, <1>4, <1>5, <1>6, <1>7 DEF SchedInv

LEMMA TickKeeps == SchedInv /\ TickBegin => SchedInv'
  <1> SUFFICES ASSUME SchedInv, TickBegin PROVE SchedInv'
    OBVIOUS
  <1>0. /\ pc = "ready" /\ pc' = "due" /\ at' = now /\ todo' = Known(Configs[live])
        /\ UNCHANGED <<now, live, row, boot, cur, busy, served, torn, missed, events>>
    BY DEF TickBegin, ghosts
  <1>1. Follows' /\ (NoZero => OnTheGrid')
    BY <1>0, SameTable
  <1>2. Known(Configs[live]) \subseteq Jobs
    BY DEF Known
  <1>3. cur = {}
    BY <1>0 DEF SchedInv, InOrder
  <1>4. SchedTypeOK'
    BY <1>0, <1>2, <1>3 DEF SchedInv, SchedTypeOK
  <1>5. InOrder'
    BY <1>0, <1>3, InvTyped DEF SchedInv, InOrder
  <1>6. SinceBoot' /\ Served' /\ Missing'
    BY <1>0 DEF SchedInv, SinceBoot, Served, Missing
  <1>7. Caught'
    BY <1>0, UnknownHasNone DEF Caught, NothingOverdue
  <1> QED BY <1>1, <1>4, <1>5, <1>6, <1>7 DEF SchedInv

\* The scheduler's dispatch of a row.
LEMMA ScheduledTyped ==
    ASSUME SchedInv, NEW j \in Jobs, Scheduled(j)
    PROVE  /\ busy' \subseteq Jobs /\ served' \subseteq served \cup {j} /\ served' \subseteq Jobs
           /\ missed' \subseteq missed /\ (CanDispatch(j) => j \notin missed')
  <1>1. busy \subseteq Jobs /\ served \subseteq Jobs
    BY DEF SchedInv, SchedTypeOK
  <1>2. /\ busy' \subseteq busy \cup {j} /\ served' = served \cup (busy' \ busy)
        /\ missed' \subseteq missed /\ (CanDispatch(j) => j \notin missed')
    BY DEF Scheduled, Queue
  <1> QED BY <1>1, <1>2

LEMMA BootKeeps ==
    ASSUME SchedInv, NEW j \in Jobs, boot_pass(j)
    PROVE  SchedInv'
  <1>0. /\ pc = "boot_pass" /\ cur = {} /\ j \in todo /\ at = boot
        /\ UNCHANGED <<now, live, row, pc, boot, at, torn, events>>
    BY DEF boot_pass, SchedInv, InOrder
  <1>1. Follows' /\ (NoZero => OnTheGrid')
    BY <1>0, SameTable
  <1>2. CASE /\ row[j].next = None \/ row[j].next > at \/ row[j].next >= boot
             /\ Passes(j)
    <2>0. todo' = todo \ {j} /\ UNCHANGED <<cur, busy, served, missed>>
      BY <1>2 DEF Passes
    <2>1. row[j].next = None \/ row[j].next >= boot
      BY <1>0, <1>2, InvTyped
    <2>2. SchedTypeOK' /\ InOrder'
      BY <1>0, <2>0 DEF SchedInv, SchedTypeOK, InOrder
    <2>3. SinceBoot' /\ Served' /\ Caught'
      BY <1>0, <2>0, <2>1 DEF SchedInv, SinceBoot, Served, Caught, NothingOverdue
    <2>4. j \notin missed
      <3> SUFFICES ASSUME j \in missed PROVE FALSE
        OBVIOUS
      <3>1. row[j].next # None /\ row[j].next < boot
        BY <1>0 DEF SchedInv, Missing
      <3> QED BY <2>1, <3>1, InvTyped
    <2>5. Missing'
      BY <1>0, <2>0, <2>4 DEF SchedInv, Missing
    <2> QED BY <1>1, <2>2, <2>3, <2>5 DEF SchedInv
  <1>3. CASE /\ Holds(j)
             /\ IF row[j].pol = "run-immediately" THEN Scheduled(j)
                ELSE UNCHANGED <<busy, served, missed>>
    <2>0. cur' = {j} /\ todo' = todo
      BY <1>3 DEF Holds
    <2>1. /\ busy' \subseteq Jobs /\ served' \subseteq served \cup {j} /\ served' \subseteq Jobs
          /\ missed' \subseteq missed /\ j \notin missed'
      <3>1. CASE row[j].pol = "run-immediately"
        <4>1. j \in missed => CanDispatch(j)
          BY DEF SchedInv, Missing, CanDispatch, Known, job
        <4> QED BY <1>3, <3>1, <4>1, ScheduledTyped
      <3>2. CASE row[j].pol # "run-immediately"
        BY <1>3, <3>2 DEF SchedInv, SchedTypeOK, Missing
      <3> QED BY <3>1, <3>2
    <2>2. SchedTypeOK' /\ InOrder'
      BY <1>0, <2>0, <2>1 DEF SchedInv, SchedTypeOK, InOrder
    <2>3. SinceBoot' /\ Caught'
      BY <1>0, <2>0 DEF SchedInv, SinceBoot, Caught, NothingOverdue
    <2>4. Served'
      BY <1>0, <2>0, <2>1 DEF SchedInv, Served
    <2>5. Missing'
      BY <1>0, <2>0, <2>1 DEF SchedInv, Missing
    <2> QED BY <1>1, <2>2, <2>3, <2>4, <2>5 DEF SchedInv
  <1> QED BY <1>2, <1>3 DEF boot_pass

LEMMA DueKeeps ==
    ASSUME SchedInv, NEW j \in Jobs, dispatch_due(j)
    PROVE  SchedInv'
  <1>0. /\ pc = "due" /\ cur = {} /\ j \in todo /\ missed = {}
        /\ UNCHANGED <<now, live, row, pc, boot, at, torn, events>>
    BY DEF dispatch_due, SchedInv, Missing
  <1>1. Follows' /\ (NoZero => OnTheGrid')
    BY <1>0, SameTable
  <1>2. CASE (row[j].next = None \/ row[j].next > at) /\ Passes(j)
    <2>0. todo' = todo \ {j} /\ UNCHANGED <<cur, busy, served, missed>>
      BY <1>2 DEF Passes
    <2>1. SchedTypeOK' /\ InOrder'
      BY <1>0, <2>0 DEF SchedInv, SchedTypeOK, InOrder
    <2>2. SinceBoot' /\ Served' /\ Missing'
      BY <1>0, <2>0 DEF SchedInv, SinceBoot, Served, Missing
    <2>3. NoZero => Caught'
      BY <1>0, <1>2, <2>0 DEF SchedInv, Caught, NothingOverdue
    <2> QED BY <1>1, <2>1, <2>2, <2>3 DEF SchedInv
  <1>3. CASE Holds(j) /\ Scheduled(j)
    <2>0. cur' = {j} /\ todo' = todo
      BY <1>3 DEF Holds
    <2>1. /\ busy' \subseteq Jobs /\ served' \subseteq served \cup {j} /\ served' \subseteq Jobs
          /\ missed' = {}
      BY <1>0, <1>3, ScheduledTyped
    <2>2. SchedTypeOK' /\ InOrder'
      BY <1>0, <2>0, <2>1 DEF SchedInv, SchedTypeOK, InOrder
    <2>3. SinceBoot' /\ (NoZero => Caught')
      BY <1>0, <2>0 DEF SchedInv, SinceBoot, Caught, NothingOverdue
    <2>4. Served' /\ Missing'
      BY <1>0, <2>0, <2>1 DEF SchedInv, Served, Missing
    <2> QED BY <1>1, <2>2, <2>3, <2>4 DEF SchedInv
  <1> QED BY <1>2, <1>3 DEF dispatch_due

LEMMA LoopEndsKeeps == SchedInv /\ LoopEnds => SchedInv'
  <1> SUFFICES ASSUME SchedInv, LoopEnds PROVE SchedInv'
    OBVIOUS
  <1>0. /\ pc \in {"boot_pass", "due"} /\ todo = {} /\ pc' = "ready" /\ cur = {}
        /\ UNCHANGED <<now, live, row, boot, at, todo, cur, busy, served, torn, missed, events>>
    BY DEF LoopEnds, ghosts, SchedInv, SchedTypeOK
  <1>1. Follows' /\ (NoZero => OnTheGrid')
    BY <1>0, SameTable
  <1>2. SchedTypeOK' /\ InOrder'
    BY <1>0 DEF SchedInv, SchedTypeOK, InOrder
  <1>3. SinceBoot' /\ Served' /\ Missing'
    BY <1>0 DEF SchedInv, SinceBoot, Served, Missing
  <1>4. NoZero => Caught'
    <2>1. CASE pc = "boot_pass"
      <3>1. ~(at > boot)
        BY <2>1, InvTyped DEF SchedInv, InOrder
      <3> QED BY <1>0, <3>1 DEF Caught, NothingOverdue
    <2>2. CASE pc = "due"
      BY <1>0, <2>2 DEF SchedInv, Caught, NothingOverdue
    <2> QED BY <1>0, <2>1, <2>2
  <1> QED BY <1>1, <1>2, <1>3, <1>4 DEF SchedInv

\* The new point: later than the clock, on the grid, with the rest of the row.
LEMMA RecomputeWrites ==
    ASSUME SchedInv, NEW j \in Jobs, recompute_next(j)
    PROVE  /\ pc \in {"boot_pass", "due"} /\ cur = {j} /\ j \in Known(Configs[live])
           /\ row' \in [Jobs -> Rows]
           /\ \A k \in Jobs \ {j} : row'[k] = row[k]
           /\ row'[j].next = None \/ (row'[j].next \in Nat /\ row'[j].next > now)
           /\ row'[j].sched = row[j].sched /\ row'[j].pol = row[j].pol
           /\ row'[j].anchor = row[j].anchor /\ row'[j] # NoRow
           /\ NoZero => OnGrid(row'[j])
  <1>1. j \in cur /\ pc \in {"boot_pass", "due"} /\ j \in todo /\ \A i, k \in cur : i = k
    BY DEF recompute_next, SchedInv, SchedTypeOK, InOrder
  <1>2. cur = {j} /\ j \in Known(Configs[live])
    BY <1>1 DEF SchedInv, InOrder
  <1>3. row \in [Jobs -> Rows] /\ row[j] \in Rows /\ live \in DOMAIN Configs /\ now \in 0..MaxTime
        /\ row[j].sched = job(j).sched /\ row[j].pol = job(j).pol
        /\ (row[j].sched.kind = "interval" => row[j].anchor \in 0..now)
    BY <1>1, <1>2, InvTyped DEF SchedInv, Follows
  <1>4. IsSpec(job(j)) /\ (NoZero => Positive(job(j).sched))
    BY <1>2, <1>3, SpecsTyped DEF job
  <1>5. PICK x : x = next_after(job(j).sched, now, row[j].anchor)
    OBVIOUS
  <1>6. row' = [row EXCEPT ![j].next = x]
    BY <1>5 DEF recompute_next
  <1>7. row[j].anchor \in Nat \cup {None}
    BY <1>3 DEF Rows
  <1>8. x # None => x \in Nat /\ x > now /\ (NoZero => Fires(row[j].sched, row[j].anchor, x))
    <2> SUFFICES ASSUME x # None
                 PROVE  x \in Nat /\ x > now /\ (NoZero => Fires(row[j].sched, row[j].anchor, x))
      OBVIOUS
    <2>1. IsSchedule(job(j).sched)
      BY <1>4 DEF IsSpec
    <2>2. x \in Nat /\ x > now /\ (Positive(job(j).sched) => Fires(job(j).sched, row[j].anchor, x))
      BY <1>3, <1>5, <1>7, <2>1, NextFires
    <2> QED BY <1>3, <1>4, <2>2
  <1>9. row'[j] = [row[j] EXCEPT !.next = x] /\ \A k \in Jobs \ {j} : row'[k] = row[k]
    BY <1>3, <1>6
  <1>10. /\ row'[j] \in Rows /\ row'[j].next = x /\ row'[j].sched = row[j].sched
         /\ row'[j].pol = row[j].pol /\ row'[j].anchor = row[j].anchor
    BY <1>3, <1>8, <1>9 DEF Rows
  <1>11. row' \in [Jobs -> Rows]
    BY <1>3, <1>6, <1>9, <1>10
  <1>12. row'[j] # NoRow
    <2>1. row'[j].pol \in Policies
      BY <1>3, <1>4, <1>10 DEF IsSpec
    <2> QED BY <2>1 DEF NoRow, Policies
  <1>13. NoZero => OnGrid(row'[j])
    BY <1>8, <1>10 DEF OnGrid
  <1> QED BY <1>1, <1>2, <1>8, <1>9, <1>10, <1>11, <1>12, <1>13

LEMMA RecomputeKeeps ==
    ASSUME SchedInv, NEW j \in Jobs, recompute_next(j)
    PROVE  SchedInv'
  <1>0. /\ cur' = {} /\ todo' = todo \ {j} /\ served' = served \ {j} /\ torn' = torn \ {j}
        /\ UNCHANGED <<now, live, pc, boot, at, busy, missed, events>>
    BY DEF recompute_next
  <1>1. /\ pc \in {"boot_pass", "due"} /\ cur = {j} /\ j \in Known(Configs[live])
        /\ row' \in [Jobs -> Rows]
        /\ \A k \in Jobs \ {j} : row'[k] = row[k]
        /\ row'[j].next = None \/ (row'[j].next \in Nat /\ row'[j].next > now)
        /\ row'[j].sched = row[j].sched /\ row'[j].pol = row[j].pol
        /\ row'[j].anchor = row[j].anchor /\ row'[j] # NoRow
        /\ NoZero => OnGrid(row'[j])
    BY RecomputeWrites
  <1>2. /\ now \in Nat /\ boot \in Nat /\ at \in Nat /\ boot <= at /\ at <= now
        /\ \A k \in Jobs : row[k].next \in Nat \cup {None}
    BY InvTyped DEF SchedInv, InOrder
  <1>3. Follows'
    <2>1. ASSUME NEW k \in Known(Configs[live])
          PROVE  row'[k].sched = job(k).sched /\ row'[k].pol = job(k).pol
      <3>1. k \in Jobs /\ row[k].sched = job(k).sched /\ row[k].pol = job(k).pol
        BY <1>1 DEF SchedInv, Follows, Known
      <3> QED BY <1>1, <3>1
    <2>2. ASSUME NEW k \in Jobs, row'[k].sched.kind = "interval" PROVE row'[k].anchor \in 0..now
      <3>1. row'[k].sched = row[k].sched /\ row'[k].anchor = row[k].anchor
        BY <1>1
      <3> QED BY <2>2, <3>1 DEF SchedInv, Follows
    <2> QED BY <1>0, <1>1, <2>1, <2>2 DEF Follows, job
  <1>4. NoZero => OnTheGrid'
    <2> SUFFICES ASSUME NoZero, NEW k \in Jobs PROVE OnGrid(row'[k])
      BY DEF OnTheGrid, OnGrid
    <2>1. OnGrid(row[k])
      BY GridRows DEF SchedInv
    <2> QED BY <1>1, <2>1
  <1>5. SchedTypeOK'
    <2>1. \A k \in Jobs : row'[k] \in Rows
      BY <1>1
    <2>2. \A k \in Jobs : /\ row'[k].next \in Nat \cup {None}
                          /\ row'[k].anchor \in Nat \cup {None}
                          /\ row'[k].pol \in Policies \cup {"none"}
      BY <2>1 DEF Rows
    <2>3. \A k \in Jobs : row'[k] # NoRow <=> k \in Known(Configs[live])
      BY <1>1 DEF SchedInv, SchedTypeOK
    <2> QED BY <1>0, <2>2, <2>3 DEF SchedInv, SchedTypeOK
  <1>6. InOrder'
    BY <1>0, <1>1 DEF SchedInv, InOrder
  <1>7. SinceBoot'
    <2> SUFFICES ASSUME NEW k \in Jobs, pc = "boot_pass" => k \notin todo'
                 PROVE  row'[k].next = None \/ row'[k].next >= boot
      BY <1>0, <1>1 DEF SinceBoot
    <2>1. CASE k = j
      BY <1>1, <1>2, <2>1
    <2>2. CASE k # j
      BY <1>0, <1>1, <2>2 DEF SchedInv, SinceBoot
    <2> QED BY <2>1, <2>2
  <1>8. NoZero => Caught'
    <2> SUFFICES ASSUME NoZero, pc = "due", NEW k \in Jobs \ todo'
                 PROVE  row'[k].next = None \/ row'[k].next > at
      BY <1>0, <1>1 DEF Caught, NothingOverdue
    <2>1. CASE k = j
      BY <1>1, <1>2, <2>1
    <2>2. CASE k # j
      BY <1>0, <1>1, <2>2 DEF SchedInv, Caught
    <2> QED BY <2>1, <2>2
  <1>9. Served'
    BY <1>0, <1>1 DEF SchedInv, Served
  <1>10. Missing'
    <2>1. j \notin missed
      BY <1>1 DEF SchedInv, Missing
    <2>2. \A k \in missed : k \in Jobs /\ row'[k] = row[k]
      BY <1>1, <2>1 DEF SchedInv, SchedTypeOK
    <2> QED BY <1>0, <1>1, <2>1, <2>2 DEF SchedInv, Missing
  <1> QED BY <1>3, <1>4, <1>5, <1>6, <1>7, <1>8, <1>9, <1>10 DEF SchedInv

LEMMA WaitKeeps == SchedInv /\ Wait => SchedInv'
  <1> SUFFICES ASSUME SchedInv, Wait PROVE SchedInv'
    OBVIOUS
  <1>0. /\ now < MaxTime /\ now' = now + 1
        /\ UNCHANGED <<live, row, pc, boot, at, todo, cur, busy, served, torn, missed, events>>
    BY DEF Wait, ghosts
  <1>1. now \in Nat /\ MaxTime \in Nat /\ boot \in Nat /\ at \in Nat
        /\ \A j \in Jobs : row[j].next \in Nat \cup {None}
    BY InvTyped
  <1>2. SchedTypeOK'
    BY <1>0, <1>1 DEF SchedInv, SchedTypeOK
  <1>3. InOrder'
    BY <1>0, <1>1 DEF SchedInv, InOrder
  <1>4. Follows'
    BY <1>0, <1>1 DEF SchedInv, Follows, job
  <1>5. SinceBoot' /\ Served' /\ (NoZero => OnTheGrid' /\ Caught')
    BY <1>0 DEF SchedInv, SinceBoot, Served, OnTheGrid, Caught, NothingOverdue
  <1>6. Missing'
    <2>1. ASSUME NEW j \in missed, pc = "synced" PROVE row[j].next < now + 1
      <3>1. row[j].next < now /\ row[j].next \in Nat
        BY <1>1, <2>1 DEF SchedInv, Missing, SchedTypeOK
      <3> QED BY <1>1, <3>1
    <2> QED BY <1>0, <2>1 DEF SchedInv, Missing
  <1> QED BY <1>2, <1>3, <1>4, <1>5, <1>6 DEF SchedInv

LEMMA CrashKeeps == SchedInv /\ Crash => SchedInv'
  <1> SUFFICES ASSUME SchedInv, Crash PROVE SchedInv'
    OBVIOUS
  <1>0. /\ pc' = "down" /\ boot' = 0 /\ at' = 0 /\ todo' = {} /\ cur' = {} /\ missed' = {}
        /\ torn' = torn \cup (cur \cap served) /\ events' \in 0..MaxEvents
        /\ UNCHANGED <<now, live, row, busy, served>>
    BY DispatchAssumption DEF Crash, Event, SchedInv, SchedTypeOK
  <1>1. now \in Nat /\ MaxTime \in Nat
    BY InvTyped
  <1>2. SchedTypeOK' /\ InOrder'
    BY <1>0, <1>1 DEF SchedInv, SchedTypeOK, InOrder
  <1>3. Follows' /\ SinceBoot' /\ Served' /\ Missing'
    BY <1>0 DEF SchedInv, Follows, SinceBoot, Served, Missing
  <1>4. NoZero => OnTheGrid' /\ Caught'
    BY <1>0 DEF SchedInv, OnTheGrid, Caught, NothingOverdue
  <1> QED BY <1>2, <1>3, <1>4 DEF SchedInv

-----------------------------------------------------------------------------
(* The specification. *)

LEMMA StartsOK == SchedInit => SchedInv
  <1> SUFFICES ASSUME SchedInit PROVE SchedInv
    OBVIOUS
  <1>1. MaxTime \in Nat /\ MaxEvents \in Nat /\ 1 \in DOMAIN Configs
    BY DispatchAssumption, CalendarAssumption DEF Instants
  <1>2. /\ NoRow \in Rows /\ NoRow.next = None /\ NoRow.anchor = None
        /\ NoRow.pol = "none" /\ NoRow.sched.kind = "manual"
    BY DEF NoRow, Rows, AllSchedules
  <1>3. row \in [Jobs -> Rows] /\ \A j \in Jobs : row[j] = NoRow
    BY <1>2 DEF SchedInit
  <1>4. SchedTypeOK /\ InOrder
    BY <1>1, <1>2, <1>3 DEF SchedInit, SchedTypeOK, InOrder
  <1>5. Follows
    BY <1>2, <1>3 DEF SchedInit, Follows
  <1>6. SinceBoot /\ Served /\ Missing /\ OnTheGrid /\ Caught
    BY <1>2, <1>3
    DEF SchedInit, SinceBoot, Served, Missing, OnTheGrid, Caught, NothingOverdue
  <1> QED BY <1>4, <1>5, <1>6 DEF SchedInv

LEMMA StutterKeeps == SchedInv /\ UNCHANGED schedVars => SchedInv'
  <1> SUFFICES ASSUME SchedInv, UNCHANGED schedVars PROVE SchedInv'
    OBVIOUS
  <1>1. UNCHANGED <<now, live, row, pc, boot, at, todo, cur, busy, served, torn, missed, events>>
    BY DEF schedVars
  <1>2. SchedTypeOK' /\ InOrder'
    BY <1>1 DEF SchedInv, SchedTypeOK, InOrder
  <1>3. Follows' /\ SinceBoot' /\ Served' /\ Missing'
    BY <1>1 DEF SchedInv, Follows, SinceBoot, Served, Missing, job
  <1>4. NoZero => OnTheGrid' /\ Caught'
    BY <1>1 DEF SchedInv, OnTheGrid, Caught, NothingOverdue
  <1> QED BY <1>2, <1>3, <1>4 DEF SchedInv

LEMMA StepKeeps == SchedInv /\ [SchedNext]_schedVars => SchedInv'
  <1> SUFFICES ASSUME SchedInv, [SchedNext]_schedVars PROVE SchedInv'
    OBVIOUS
  <1>1. CASE \E g \in DOMAIN Configs : sync_config(g) \/ reload(g)
    BY <1>1, SyncKeeps, ReloadKeeps
  <1>2. CASE run \/ TickBegin \/ LoopEnds
    BY <1>2, RunKeeps, TickKeeps, LoopEndsKeeps
  <1>3. CASE \E j \in Jobs : boot_pass(j) \/ dispatch_due(j) \/ recompute_next(j)
    BY <1>3, BootKeeps, DueKeeps, RecomputeKeeps
  <1>4. CASE \E j \in Jobs : trigger_run(j) \/ RunEnds(j)
    BY <1>4, BesidesKeep
  <1>5. CASE Wait \/ Crash
    BY <1>5, WaitKeeps, CrashKeeps
  <1>6. CASE UNCHANGED schedVars
    BY <1>6, StutterKeeps
  <1> QED BY <1>1, <1>2, <1>3, <1>4, <1>5, <1>6 DEF SchedNext

\* The invariant of the scheduler, of sync_config, boot_pass, dispatch_due,
\* recompute_next and reload.
THEOREM SchedInvariant == SchedSpec => []SchedInv
  BY StartsOK, StepKeeps, PTL DEF SchedSpec

\* The configurations are constants.
LEMMA NoZeroStays == NoZero => []NoZero
  <1>1. NoZero => NoZero'
    BY DEF NoZero
  <1> QED BY <1>1, PTL

\* recompute_next and sync_schedule_for store points of the schedule only, and
\* a tick of dispatch_due leaves no due point behind, whatever the zone does
\* and however long a loop takes.  With intervals of 0s (step.max(1) in
\* interval_next) neither holds.
THEOREM PointsOnGrid == NoZero /\ SchedSpec => []RowInv
  <1>1. NoZero /\ SchedInv => RowInv
    BY DEF SchedInv, RowInv, Caught
  <1> QED BY <1>1, NoZeroStays, SchedInvariant, PTL

\* boot_pass makes up for every point that was missed while the process was
\* down, although sync_config has written the table before it.
THEOREM MissedMadeUp == SchedSpec => []MissedAreRun
  <1>1. SchedInv => MissedAreRun
    BY DEF SchedInv, Missing, MissedAreRun
  <1> QED BY <1>1, SchedInvariant, PTL

\* Who queues a run of the scheduler.
LEMMA WhoQueues ==
    ASSUME SchedInv, [SchedNext]_schedVars, NEW j \in Jobs, NewRun(j)
    PROVE  boot_pass(j) \/ dispatch_due(j)
  <1>0. cur = {} /\ cur' = {j} /\ j \in busy' /\ j \notin busy
    BY DEF NewRun
  <1>1. CASE \E g \in DOMAIN Configs : sync_config(g) \/ reload(g)
    BY <1>0, <1>1 DEF sync_config, reload
  <1>2. CASE run \/ TickBegin \/ LoopEnds \/ Wait \/ Crash \/ UNCHANGED schedVars
    BY <1>0, <1>2 DEF run, TickBegin, LoopEnds, Wait, Crash, schedVars
  <1>3. CASE \E k \in Jobs : recompute_next(k) \/ trigger_run(k) \/ RunEnds(k)
    BY <1>0, <1>3 DEF recompute_next, trigger_run, RunEnds
  <1>4. CASE \E k \in Jobs : boot_pass(k) \/ dispatch_due(k)
    <2>1. PICK k \in Jobs : boot_pass(k) \/ dispatch_due(k)
      BY <1>4
    <2>2. cur' = cur \/ cur' = {k}
      BY <2>1 DEF boot_pass, dispatch_due, Passes, Holds
    <2>3. k = j
      BY <1>0, <2>2
    <2> QED BY <2>1, <2>3
  <1> QED BY <1>1, <1>2, <1>3, <1>4 DEF SchedNext

\* A stored point gets one run, unless the process died between dispatch and
\* recompute_next; what lies before the start is run for run-immediately only.
THEOREM OneRun == SchedSpec => OneRunPerPoint
  <1>1. ASSUME SchedInv, [SchedNext]_schedVars, NEW j \in Jobs, NewRun(j)
        PROVE  /\ j \in served => j \in torn
               /\ row[j].next < boot => row[j].pol = "run-immediately"
    <2>1. cur = {} /\ cur' = {j} /\ j \in busy' /\ j \notin busy
      BY <1>1 DEF NewRun
    <2>2. j \in served => j \in torn
      BY <1>1, <2>1 DEF SchedInv, Served
    <2>3. boot_pass(j) \/ dispatch_due(j)
      BY <1>1, WhoQueues
    <2>4. CASE boot_pass(j)
      BY <2>1, <2>2, <2>4 DEF boot_pass, Passes
    <2>5. CASE dispatch_due(j)
      <3>1. row[j].next # None /\ pc = "due"
        BY <2>1, <2>5 DEF dispatch_due, Passes
      <3>2. row[j].next >= boot /\ row[j].next \in Nat /\ boot \in Nat
        BY <1>1, <3>1, InvTyped DEF SchedInv, SinceBoot
      <3> QED BY <2>2, <3>2
    <2> QED BY <2>3, <2>4, <2>5
  <1>2. SchedInv /\ [SchedNext]_schedVars
           => [\A j \in Jobs : NewRun(j) =>
                 /\ j \in served => j \in torn
                 /\ row[j].next < boot => row[j].pol = "run-immediately"]_schedVars
    BY <1>1
  <1> QED BY <1>2, SchedInvariant, PTL DEF SchedSpec, OneRunPerPoint

\* A reload makes nothing due: a new or changed interval starts after its
\* length, every other schedule at its first time to come.
THEOREM QuietReload == NoZero /\ SchedSpec => ReloadIsQuiet
  <1>1. ASSUME NoZero, SchedInv, [SchedNext]_schedVars, live' # live, pc # "down",
               NEW j \in Jobs, row'[j].next # None, row'[j].next <= now
        PROVE  row'[j].next = row[j].next
    <2>1. PICK g \in DOMAIN Configs : reload(g)
      BY <1>1 DEF SchedNext, sync_config, run, TickBegin, LoopEnds, boot_pass, dispatch_due,
                  recompute_next, trigger_run, RunEnds, Wait, Crash, schedVars
    <2>2. \/ row'[j].next = row[j].next
          \/ row'[j].next = None
          \/ row'[j].next > now
      BY <1>1, <2>1, ReloadWrites
    <2>3. SchedInv'
      BY <1>1, <2>1, ReloadKeeps
    <2>4. row'[j].next \in Nat /\ now \in Nat
      BY <1>1, <2>3, InvTyped DEF SchedInv, SchedTypeOK
    <2> QED BY <1>1, <2>2, <2>4
  <1>2. NoZero /\ SchedInv /\ [SchedNext]_schedVars
           => [live' # live /\ pc # "down"
                => \A j \in Jobs : row'[j].next # None /\ row'[j].next <= now
                                   => row'[j].next = row[j].next]_schedVars
    BY <1>1
  <1> QED BY <1>2, NoZeroStays, SchedInvariant, PTL DEF SchedSpec, ReloadIsQuiet

-----------------------------------------------------------------------------
(* The first firing: next_after misses none, in zones of the usual kind. *)

\* The readings of the wall clock at which a schedule is to run.
Reads(s, w) ==
    \/ s.kind = "daily" /\ w % DayLen = s.at
    \/ s.kind = "weekly" /\ w % DayLen = s.at /\ weekday(date(w)) = s.wd
    \/ s.kind = "cron" /\ CronMeans(s.expr, w)

\* A clock that is put back is put back by less than a day, to readings it had.
PutBack == \A t, u \in Instants : t < u /\ wall(u) < wall(t) =>
    /\ wall(t) < wall(u) + DayLen
    /\ \E v \in Instants : v < u /\ wall(v) = wall(u)

\* The clock went past a reading without showing it.
Skipped(w) == /\ Readings(w) = {}
              /\ \E t, u \in Instants : t < u /\ wall(t) < w /\ w < wall(u)

\* A clock that is put forward skips no time of a weekly schedule, and times of
\* daily ones on one day at a time and not after it was put back on the day before.
SkipsLittle == \A s \in Schedules : \A w \in Int :
  s.kind \in {"daily", "weekly"} /\ Reads(s, w) /\ Skipped(w) =>
    /\ s.kind = "daily" /\ ~Skipped(w + DayLen)
    /\ \A t, u \in Instants : t < u /\ wall(t) = w - DayLen => wall(t) < wall(u)

\* No day of the month is written as the whole range, no range of weekdays ends
\* in the second number of the first day.
Plain(e) ==
    /\ is_full_range(parse(e).dom, 1, MonthLen) => IsStar(e.dom)
    /\ \A c \in e.dow : (c.b = Star => c.a = Star) /\ (c.b = WeekLen => c.a = WeekLen)
PlainCron == \A s \in Schedules : s.kind = "cron" => Plain(s.expr)

\* Everything but an interval fires at the first instant of its readings.
LEMMA FiresAtReading ==
    ASSUME NEW s, s.kind # "interval", NEW a, NEW t
    PROVE  Fires(s, a, t) <=> Reads(s, wall(t)) /\ \A u \in Readings(wall(t)) : t <= u
  BY DEF Fires, Reads

\* A reading that the clock shows has its first instant.
LEMMA ToUtcOf ==
    ASSUME NEW w, Readings(w) # {}
    PROVE  to_utc(w) \in Instants /\ to_utc(w) # None
  <1>1. Readings(w) \subseteq Nat /\ Readings(w) \subseteq Instants
    BY CalendarAssumption DEF Readings, Instants
  <1>2. Earliest(Readings(w)) \in Readings(w)
    BY <1>1, EarliestIsFirst
  <1> QED BY <1>1, <1>2 DEF to_utc, None

\* The first instant of a reading is what to_utc returns.
LEMMA ToUtcAt ==
    ASSUME NEW t \in Instants, \A u \in Readings(wall(t)) : t <= u
    PROVE  to_utc(wall(t)) = t
  <1>1. t \in Readings(wall(t))
    BY DEF Readings
  <1>2. to_utc(wall(t)) # None
    BY <1>1, ToUtcOf
  <1>3. /\ to_utc(wall(t)) \in Instants /\ wall(to_utc(wall(t))) = wall(t)
        /\ to_utc(wall(t)) <= t
    BY <1>1, <1>2, ToUtc
  <1>4. t <= to_utc(wall(t))
    BY <1>3 DEF Readings
  <1> QED BY <1>3, <1>4, CalendarAssumption DEF Instants

\* A clock that keeps to PutBack shows new readings in their order.
LEMMA FirstsInOrder ==
    ASSUME PutBack, NEW t \in Instants, NEW u \in Instants, t < u,
           \A v \in Readings(wall(u)) : u <= v
    PROVE  wall(t) < wall(u)
  <1>1. t \in Nat /\ u \in Nat /\ wall(t) \in Int /\ wall(u) \in Int
    BY WallTyped
  <1>2. wall(t) # wall(u)
    BY <1>1 DEF Readings
  <1>3. ASSUME wall(u) < wall(t) PROVE FALSE
    <2>1. PICK v \in Instants : v < u /\ wall(v) = wall(u)
      BY <1>3 DEF PutBack
    <2>2. v \in Readings(wall(u)) /\ v \in Nat
      BY <2>1, WallTyped DEF Readings
    <2> QED BY <1>1, <2>1, <2>2
  <1> QED BY <1>1, <1>2, <1>3

\* The sequence W goes up over all readings of s later than that of t, and ok
\* says which of its readings are readings of s.
Covers(s, t, W, ok) ==
    /\ W \in [Nat -> Int] /\ ok \in [Nat -> BOOLEAN]
    /\ \A i, k \in Nat : i < k => W[i] < W[k]
    /\ \A i \in Nat : ok[i] <=> Reads(s, W[i])
    /\ \A w \in Int : wall(t) < w /\ Reads(s, w) => \E i \in Nat : W[i] = w

\* What the first n readings of a sequence offer.
Hits(t, n, W, ok) == {i \in 0..(n - 1) : ok[i] /\ to_utc(W[i]) > t}

\* The first firing is what a scan over the readings returns, if it finds any.
LEMMA ScanFinds ==
    ASSUME PutBack, NEW s, s.kind # "interval", NEW a, NEW t \in Instants,
           NEW n \in Nat, NEW W, NEW ok, Covers(s, t, W, ok), Hits(t, n, W, ok) # {}
    PROVE  FirstFiring(s, a, t) = to_utc(W[Earliest(Hits(t, n, W, ok))])
  <1> DEFINE hits == Hits(t, n, W, ok)
  <1>1. /\ W \in [Nat -> Int] /\ ok \in [Nat -> BOOLEAN]
        /\ \A i, k \in Nat : i < k => W[i] < W[k]
        /\ \A i \in Nat : ok[i] <=> Reads(s, W[i])
        /\ \A w \in Int : wall(t) < w /\ Reads(s, w) => \E i \in Nat : W[i] = w
        /\ hits = {i \in 0..(n - 1) : ok[i] /\ to_utc(W[i]) > t} /\ hits # {}
    BY DEF Covers, Hits
  <1> HIDE DEF hits
  <1> DEFINE after == {x \in Instants : x > t /\ Fires(s, a, x)}
  <1>2. hits \subseteq Nat /\ t \in Nat /\ wall(t) \in Int
    BY <1>1, WallTyped
  <1>3. PICK i \in Nat : /\ i = Earliest(hits) /\ i \in hits
                         /\ \A k \in hits : i <= k
    <2>1. Earliest(hits) \in hits /\ \A k \in hits : Earliest(hits) <= k
      BY <1>1, <1>2, EarliestIsFirst
    <2> QED BY <1>2, <2>1
  <1>4. PICK y : y = to_utc(W[i])
    OBVIOUS
  <1>5. y > t /\ ok[i] /\ Reads(s, W[i]) /\ y # None
    BY <1>1, <1>2, <1>3, <1>4 DEF None
  <1>6. y \in Instants /\ y \in Nat /\ wall(y) = W[i] /\ \A u \in Readings(W[i]) : y <= u
    BY <1>4, <1>5, ToUtc, WallTyped
  <1>7. Fires(s, a, y)
    BY <1>5, <1>6, FiresAtReading
  <1>8. y \in after
    BY <1>5, <1>6, <1>7
  <1>9. after \subseteq Nat
    BY WallTyped
  <1>10. PICK x \in after : x = Earliest(after) /\ x <= y
    <2> HIDE DEF after
    <2> QED BY <1>8, <1>9, EarliestIsFirst
  <1>11. x \in Instants /\ x \in Nat /\ wall(x) \in Int /\ x > t /\ Fires(s, a, x)
    BY <1>10, WallTyped
  <1>12. Reads(s, wall(x)) /\ \A u \in Readings(wall(x)) : x <= u
    BY <1>11, FiresAtReading
  <1>13. wall(t) < wall(x)
    BY <1>2, <1>11, <1>12, FirstsInOrder
  <1>14. PICK k \in Nat : W[k] = wall(x)
    BY <1>1, <1>11, <1>12, <1>13
  <1>15. to_utc(W[k]) = x /\ ok[k]
    BY <1>1, <1>11, <1>12, <1>14, ToUtcAt
  <1>16. i <= k
    <2>1. CASE k < n
      <3>1. k \in hits
        BY <1>1, <1>11, <1>15, <2>1
      <3> QED BY <1>3, <3>1
    <2>2. CASE ~(k < n)
      BY <1>1, <1>3, <2>2
    <2> QED BY <2>1, <2>2
  <1>17. i = k
    <2> SUFFICES ASSUME i < k PROVE FALSE
      BY <1>16
    <2>1. wall(y) < wall(x)
      BY <1>1, <1>6, <1>14
    <2>2. x < y
      BY <1>6, <1>10, <1>11, <2>1
    <2>3. wall(x) < wall(y)
      BY <1>6, <1>11, <2>2, FirstsInOrder
    <2> QED BY <1>6, <1>11, <2>1, <2>3, WallTyped
  <1>18. FirstFiring(s, a, t) = x
    BY <1>8, <1>10 DEF FirstFiring
  <1> QED BY <1>3, <1>4, <1>15, <1>17, <1>18 DEF hits

\* A reading of a later day that is not skipped comes later.
LEMMA LaterDay ==
    ASSUME PutBack, NEW t \in Instants, NEW x \in Instants, t < x, NEW w \in Int,
           wall(t) + DayLen <= w, w < wall(x), ~Skipped(w)
    PROVE  to_utc(w) > t
  <1>1. /\ t \in Nat /\ wall(t) \in Int /\ wall(x) \in Int
        /\ DayLen \in Nat \ {0} /\ wall(t) < w
    BY WallTyped, CalendarAssumption
  <1>2. Readings(w) # {}
    BY <1>1 DEF Skipped
  <1>3. PICK y \in Instants : y = to_utc(w) /\ wall(y) = w /\ y \in Nat
    BY <1>2, ToUtcOf, ToUtc, WallTyped
  <1>4. ASSUME y <= t PROVE FALSE
    <2>1. y < t
      BY <1>1, <1>3, <1>4
    <2>2. wall(y) < wall(t) + DayLen
      BY <1>1, <1>3, <2>1 DEF PutBack
    <2> QED BY <1>1, <1>3, <2>2
  <1> QED BY <1>1, <1>3, <1>4

\* The reading at `a` of the i-th day from that of t.
DaysFrom(t, a) == [i \in Nat |-> with_time(date(wall(t)) + i, a)]

GoUpByDays(t, a, W) ==
    /\ W \in [Nat -> Int]
    /\ \A i, k \in Nat : i < k => W[i] < W[k]
    /\ \A i \in Nat : W[i] % DayLen = a /\ date(W[i]) = date(wall(t)) + i
    /\ \A i \in Nat : W[i + 1] = W[i] + DayLen
    /\ wall(t) < W[1] /\ \A i \in Nat : i >= 2 => wall(t) + DayLen <= W[i]
    /\ \A w \in Int : wall(t) < w /\ w % DayLen = a => \E i \in Nat : W[i] = w

LEMMA DayReadings ==
    ASSUME NEW t \in Instants, NEW a \in 0..(DayLen - 1)
    PROVE  GoUpByDays(t, a, DaysFrom(t, a))
  <1> DEFINE W == DaysFrom(t, a)
  <1>1. DayLen \in Nat \ {0} /\ wall(t) \in Int
    BY CalendarAssumption, WallTyped
  <1>2. PICK D \in Int : D = date(wall(t))
    BY WallTyped
  <1>3. \A w \in Int : w = date(w) * DayLen + (w % DayLen) /\ w % DayLen \in 0..(DayLen - 1)
                       /\ date(w) \in Int
    BY <1>1 DEF date
  <1>4. \A i \in Nat : W[i] = (D + i) * DayLen + a
    BY <1>2 DEF with_time, DaysFrom
  <1>5. W \in [Nat -> Int]
    BY <1>1, <1>2 DEF with_time, DaysFrom
  <1> HIDE DEF W
  <1>6. ASSUME NEW i \in Int, NEW k \in Int, i < k
        PROVE  i * DayLen + DayLen <= k * DayLen
    <2>1. PICK m \in Nat : k = i + 1 + m
      BY <1>6
    <2>2. k * DayLen = i * DayLen + DayLen + m * DayLen /\ m * DayLen >= 0
      BY <1>1, <2>1
    <2> QED BY <1>1, <2>2
  <1>7. ASSUME NEW i \in Nat, NEW k \in Nat, i < k
        PROVE  W[i] < W[k]
    <2>1. (D + i) * DayLen + DayLen <= (D + k) * DayLen
      BY <1>6, <1>7
    <2> QED BY <1>1, <1>4, <2>1
  <1>8. ASSUME NEW i \in Nat
        PROVE  W[i] % DayLen = a /\ date(W[i]) = D + i /\ W[i + 1] = W[i] + DayLen
    <2>1. PICK d \in Int : d = D + i
      OBVIOUS
    <2>2. W[i] = d * DayLen + a /\ (d * DayLen + a) % DayLen = a
      BY <1>1, <1>4, <2>1, TimeOfDay
    <2>3. (d * DayLen + a) \div DayLen = d
      BY <1>1
    <2>4. W[i + 1] = (d + 1) * DayLen + a
      BY <1>4, <2>1
    <2>5. (d + 1) * DayLen = d * DayLen + DayLen
      BY <1>1
    <2> QED BY <1>1, <2>1, <2>2, <2>3, <2>4, <2>5 DEF date
  <1>9. wall(t) < D * DayLen + DayLen /\ D * DayLen <= wall(t)
    <2>1. wall(t) = D * DayLen + (wall(t) % DayLen) /\ wall(t) % DayLen \in 0..(DayLen - 1)
      BY <1>1, <1>3, <1>2
    <2>2. PICK p \in Int : p = D * DayLen
      BY <1>1
    <2> QED BY <1>1, <2>1, <2>2
  <1>10. ASSUME NEW i \in Nat, i >= 1
        PROVE  wall(t) < W[i] /\ (i >= 2 => wall(t) + DayLen <= W[i])
    <2>1. D * DayLen + DayLen <= (D + i) * DayLen
      BY <1>6, <1>10
    <2>2. i >= 2 => (D + 1) * DayLen + DayLen <= (D + i) * DayLen
      BY <1>6
    <2>3. (D + 1) * DayLen = D * DayLen + DayLen
      BY <1>1
    <2> QED BY <1>1, <1>4, <1>9, <2>1, <2>2, <2>3
  <1>11. ASSUME NEW w \in Int, wall(t) < w, w % DayLen = a
         PROVE  \E i \in Nat : W[i] = w
    <2>1. date(w) >= D
      <3> SUFFICES ASSUME date(w) < D PROVE FALSE
        BY <1>3
      <3>1. date(w) * DayLen + DayLen <= D * DayLen
        BY <1>3, <1>6
      <3>2. w = date(w) * DayLen + (w % DayLen) /\ w % DayLen \in 0..(DayLen - 1)
        BY <1>3
      <3>3. PICK p \in Int : p = date(w) * DayLen
        BY <1>1, <1>3
      <3>4. PICK q \in Int : q = D * DayLen
        BY <1>1
      <3> QED BY <1>1, <1>9, <1>11, <3>1, <3>2, <3>3, <3>4
    <2>2. PICK i \in Nat : i = date(w) - D
      BY <1>3, <2>1
    <2>3. D + i = date(w)
      BY <1>3, <2>2
    <2>4. W[i] = w
      BY <1>3, <1>4, <1>11, <2>3
    <2> QED BY <2>4
  <1>12. GoUpByDays(t, a, W)
    BY <1>2, <1>5, <1>7, <1>8, <1>10, <1>11 DEF GoUpByDays
  <1> QED BY <1>12 DEF W

\* FirstFiring is a firing when there is one.
LEMMA SomeFiring ==
    ASSUME NEW s, NEW a, NEW t, FirstFiring(s, a, t) # None
    PROVE  \E x \in Instants : x > t /\ Fires(s, a, x)
  BY DEF FirstFiring

\* One of three days has the time of a daily schedule.
LEMMA DailyFirst ==
    ASSUME PutBack, SkipsLittle, NEW s \in Schedules, IsSchedule(s), s.kind = "daily",
           NEW t \in Instants, NEW a, FirstFiring(s, a, t) # None
    PROVE  daily_next(s.at, t) = FirstFiring(s, a, t)
  <1>1. s.at \in 0..(DayLen - 1) /\ DayLen \in Nat \ {0}
    BY CalendarAssumption DEF IsSchedule
  <1>2. t \in Nat /\ wall(t) \in Int
    BY WallTyped
  <1>3. s.kind # "interval"
    OBVIOUS
  <1>4. PICK W : W = DaysFrom(t, s.at)
    OBVIOUS
  <1>5. /\ W \in [Nat -> Int]
        /\ \A i, k \in Nat : i < k => W[i] < W[k]
        /\ \A i \in Nat : W[i] % DayLen = s.at
        /\ \A i \in Nat : W[i + 1] = W[i] + DayLen
        /\ wall(t) < W[1] /\ \A i \in Nat : i >= 2 => wall(t) + DayLen <= W[i]
        /\ \A w \in Int : wall(t) < w /\ w % DayLen = s.at => \E i \in Nat : W[i] = w
    <2>1. GoUpByDays(t, s.at, W)
      BY <1>1, <1>4, DayReadings
    <2> QED BY <2>1 DEF GoUpByDays
  <1>6. PICK ok \in [Nat -> BOOLEAN] : ok = [i \in Nat |-> TRUE]
    OBVIOUS
  <1>7. PICK hits : hits = Hits(t, 3, W, ok)
    OBVIOUS
  <1>8. hits = {i \in 0..(3 - 1) : to_utc(W[i]) > t}
    BY <1>6, <1>7 DEF Hits
  <1>9. \A w : Reads(s, w) <=> w % DayLen = s.at
    BY DEF Reads
  <1>10. \A i \in Nat : Reads(s, W[i]) /\ (Skipped(W[i]) =>
            /\ ~Skipped(W[i + 1])
            /\ \A u, v \in Instants : u < v /\ wall(u) = W[i] - DayLen => wall(u) < wall(v))
    <2>1. \A w \in Int : Reads(s, w) /\ Skipped(w) =>
            /\ ~Skipped(w + DayLen)
            /\ \A u, v \in Instants : u < v /\ wall(u) = w - DayLen => wall(u) < wall(v)
      BY DEF SkipsLittle
    <2> QED BY <1>5, <1>9, <2>1
  <1>11. daily_next(s.at, t) = IF hits = {} THEN None ELSE to_utc(W[Earliest(hits)])
    <2> DEFINE w(i) == with_time(date(wall(t)) + i, s.at)
               h == {i \in 0..(3 - 1) : TRUE /\ to_utc(w(i)) > t}
    <2>1. daily_next(s.at, t) = IF h = {} THEN None ELSE to_utc(w(Earliest(h)))
      BY DEF daily_next, FirstAfter, Always
    <2>2. \A i \in Nat : W[i] = w(i)
      BY <1>4 DEF DaysFrom
    <2> HIDE DEF w
    <2>3. h = hits
      BY <1>8, <2>2
    <2>4. hits \subseteq Nat
      BY <1>8
    <2>5. hits # {} => Earliest(hits) \in Nat
      BY <2>4, EarliestIsFirst
    <2> QED BY <2>1, <2>2, <2>3, <2>5
  <1>12. hits # {}
    <2>1. PICK x \in Instants : x > t /\ Fires(s, a, x)
      BY SomeFiring
    <2>2. x \in Nat /\ wall(x) \in Int
      BY WallTyped
    <2>3. Reads(s, wall(x)) /\ \A u \in Readings(wall(x)) : x <= u
      BY <2>1, FiresAtReading
    <2>4. wall(t) < wall(x)
      BY <1>2, <2>1, <2>2, <2>3, FirstsInOrder
    <2>5. PICK k \in Nat : W[k] = wall(x)
      BY <1>5, <1>9, <2>2, <2>3, <2>4
    <2>6. CASE k < 3
      <3>1. to_utc(W[k]) = x
        BY <2>3, <2>5, ToUtcAt
      <3>2. k \in 0..(3 - 1)
        BY <2>6
      <3> QED BY <1>8, <2>1, <3>1, <3>2
    <2>7. CASE k >= 3 /\ ~Skipped(W[2])
      <3>1. wall(t) + DayLen <= W[2] /\ W[2] < wall(x) /\ W[2] \in Int
        BY <1>5, <2>5, <2>7
      <3>2. to_utc(W[2]) > t
        BY <1>2, <2>1, <2>2, <2>7, <3>1, LaterDay
      <3> QED BY <1>8, <3>2
    <2>8. CASE k >= 3 /\ Skipped(W[2])
      <3>0. W[2] = W[1] + DayLen /\ W[1] \in Int
        <4>1. 1 \in Nat /\ 1 + 1 = 2
          OBVIOUS
        <4> QED BY <1>5, <4>1
      <3>1. ~Skipped(W[1])
        <4>1. 1 \in Nat /\ 1 + 1 = 2
          OBVIOUS
        <4> QED BY <1>10, <2>8, <4>1
      <3>2. wall(t) < W[1] /\ W[1] < wall(x)
        BY <1>5, <2>5, <2>8
      <3>3. Readings(W[1]) # {}
        BY <1>2, <2>1, <2>2, <3>1, <3>2 DEF Skipped
      <3>4. PICK y \in Instants : y = to_utc(W[1]) /\ wall(y) = W[1] /\ y \in Nat
        BY <3>3, ToUtcOf, ToUtc, WallTyped
      <3>5. ASSUME y <= t PROVE FALSE
        <4>1. y < t
          BY <1>2, <3>2, <3>4, <3>5, <3>0
        <4>2. wall(y) = W[2] - DayLen
          BY <1>1, <3>0, <3>4
        <4>3. wall(y) < wall(t)
          BY <1>10, <2>8, <4>1, <4>2
        <4> QED BY <1>2, <3>0, <3>2, <3>4, <4>3
      <3>6. to_utc(W[1]) > t
        BY <1>2, <3>4, <3>5
      <3> QED BY <1>8, <3>6
    <2> QED BY <2>6, <2>7, <2>8
  <1>13. FirstFiring(s, a, t) = to_utc(W[Earliest(hits)])
    <2>1. Covers(s, t, W, ok)
      BY <1>5, <1>6, <1>9, <1>10 DEF Covers
    <2> QED BY <1>3, <1>12, <1>7, <2>1, ScanFinds
  <1> QED BY <1>11, <1>12, <1>13

\* Days that are whole weeks apart have the same name.
LEMMA SameWeekday ==
    ASSUME NEW d \in Int, NEW q \in Int, NEW L \in Nat \ {0}
    PROVE  (d + q * L) % L = d % L
  <1>1. PICK p \in Int : p = d \div L
    OBVIOUS
  <1>2. PICK c \in 0..(L - 1) : c = d % L
    OBVIOUS
  <1>3. d = p * L + c
    BY <1>1, <1>2
  <1>4. d + q * L = (p + q) * L + c
    BY <1>3
  <1> QED BY <1>2, <1>4, TimeOfDay

\* One of the days of a week and two has the weekday and the time.
LEMMA WeeklyFirst ==
    ASSUME PutBack, SkipsLittle, NEW s \in Schedules, IsSchedule(s), s.kind = "weekly",
           NEW t \in Instants, NEW a, FirstFiring(s, a, t) # None
    PROVE  weekly_next(s.wd, s.at, t) = FirstFiring(s, a, t)
  <1>1. s.at \in 0..(DayLen - 1) /\ DayLen \in Nat \ {0} /\ WeekLen \in Nat \ {0}
    BY CalendarAssumption DEF IsSchedule
  <1>2. t \in Nat /\ wall(t) \in Int
    BY WallTyped
  <1>3. s.kind # "interval" /\ s.kind # "daily"
    OBVIOUS
  <1>4. PICK W : W = DaysFrom(t, s.at)
    OBVIOUS
  <1>5. PICK D \in Int : D = date(wall(t))
    BY WallTyped
  <1>6. /\ W \in [Nat -> Int]
        /\ \A i, k \in Nat : i < k => W[i] < W[k]
        /\ \A i \in Nat : W[i] % DayLen = s.at /\ date(W[i]) = D + i
        /\ \A i \in Nat : i >= 2 => wall(t) + DayLen <= W[i]
        /\ \A w \in Int : wall(t) < w /\ w % DayLen = s.at => \E i \in Nat : W[i] = w
    <2>1. GoUpByDays(t, s.at, W)
      BY <1>1, <1>4, DayReadings
    <2> QED BY <1>5, <2>1 DEF GoUpByDays
  <1>7. \A w : Reads(s, w) <=> w % DayLen = s.at /\ weekday(date(w)) = s.wd
    BY DEF Reads
  <1>8. \A w \in Int : Reads(s, w) => ~Skipped(w)
    BY <1>3 DEF SkipsLittle
  <1>9. PICK ok \in [Nat -> BOOLEAN] : ok = [i \in Nat |-> weekday(date(W[i])) = s.wd]
    OBVIOUS
  <1>10. PICK hits : hits = Hits(t, WeekLen + 2, W, ok)
    OBVIOUS
  <1>11. hits \subseteq Nat
    BY <1>1, <1>10 DEF Hits
  <1>12. /\ hits = {i \in 0..((WeekLen + 2) - 1) : weekday(date(W[i])) = s.wd /\ to_utc(W[i]) > t}
         /\ \A i \in Nat : i < WeekLen + 2 /\ Reads(s, W[i]) /\ to_utc(W[i]) > t => i \in hits
    <2>1. \A i \in Nat : ok[i] <=> weekday(date(W[i])) = s.wd
      BY <1>9
    <2>2. 0..((WeekLen + 2) - 1) \subseteq Nat
      BY <1>1
    <2>3. hits = {i \in 0..((WeekLen + 2) - 1) : weekday(date(W[i])) = s.wd /\ to_utc(W[i]) > t}
      BY <1>10, <2>1, <2>2 DEF Hits
    <2>4. ASSUME NEW i \in Nat, i < WeekLen + 2, Reads(s, W[i]), to_utc(W[i]) > t
          PROVE  i \in hits
      <3>1. i \in 0..((WeekLen + 2) - 1)
        BY <1>1, <2>4
      <3>2. weekday(date(W[i])) = s.wd
        BY <1>7, <2>4
      <3> QED BY <2>3, <2>4, <3>1, <3>2
    <2> QED BY <2>3, <2>4
  <1>13. weekly_next(s.wd, s.at, t) = IF hits = {} THEN None ELSE to_utc(W[Earliest(hits)])
    <2> DEFINE w(i) == with_time(date(wall(t)) + i, s.at)
               h == {i \in 0..((WeekLen + 2) - 1) : weekday(date(w(i))) = s.wd /\ to_utc(w(i)) > t}
    <2>1. weekly_next(s.wd, s.at, t) = IF h = {} THEN None ELSE to_utc(w(Earliest(h)))
      BY <1>1 DEF weekly_next, FirstAfter
    <2>2. \A i \in Nat : W[i] = w(i)
      BY <1>4 DEF DaysFrom
    <2> HIDE DEF w
    <2>3. h = hits
      <3>1. 0..((WeekLen + 2) - 1) \subseteq Nat
        BY <1>1
      <3> QED BY <1>12, <2>2, <3>1
    <2>4. hits # {} => Earliest(hits) \in Nat
      BY <1>11, EarliestIsFirst
    <2> QED BY <2>1, <2>2, <2>3, <2>4
  <1>14. hits # {}
    <2>1. PICK x \in Instants : x > t /\ Fires(s, a, x)
      BY SomeFiring
    <2>2. x \in Nat /\ wall(x) \in Int
      BY WallTyped
    <2>3. Reads(s, wall(x)) /\ \A u \in Readings(wall(x)) : x <= u
      BY <1>3, <2>1, FiresAtReading
    <2>4. wall(t) < wall(x)
      BY <1>2, <2>1, <2>2, <2>3, FirstsInOrder
    <2>5. PICK k \in Nat : W[k] = wall(x)
      BY <1>6, <1>7, <2>2, <2>3, <2>4
    <2>6. CASE k < WeekLen + 2
      <3>1. to_utc(W[k]) = x
        BY <2>3, <2>5, ToUtcAt
      <3> QED BY <1>12, <2>1, <2>3, <2>5, <2>6, <3>1
    <2>7. CASE ~(k < WeekLen + 2)
      <3>1. PICK q \in Int, r \in 0..(WeekLen - 1) : k - 2 = q * WeekLen + r
        <4>1. k - 2 = ((k - 2) \div WeekLen) * WeekLen + ((k - 2) % WeekLen)
              /\ (k - 2) \div WeekLen \in Int /\ (k - 2) % WeekLen \in 0..(WeekLen - 1)
          BY <1>1
        <4> QED BY <4>1
      <3>2. PICK i \in Nat : i = 2 + r
        BY <1>1, <3>1
      <3>3. i < WeekLen + 2 /\ i < k /\ i >= 2
        BY <1>1, <2>7, <3>1, <3>2
      <3>4. D + k = (D + i) + q * WeekLen
        <4>1. PICK p \in Int : p = q * WeekLen
          BY <1>1, <3>1
        <4> QED BY <3>1, <3>2, <4>1
      <3>5. weekday(date(W[i])) = weekday(date(W[k]))
        <4>1. PICK d \in Int : d = D + i
          OBVIOUS
        <4>2. (d + q * WeekLen) % WeekLen = d % WeekLen
          BY <1>1, SameWeekday
        <4> QED BY <1>6, <3>4, <4>1, <4>2 DEF weekday
      <3>6. Reads(s, W[i])
        BY <1>6, <1>7, <2>3, <2>5, <3>5
      <3>7. W[i] \in Int /\ wall(t) + DayLen <= W[i] /\ W[i] < wall(x) /\ ~Skipped(W[i])
        BY <1>6, <1>8, <2>5, <3>3, <3>6
      <3>8. to_utc(W[i]) > t
        BY <1>2, <2>1, <2>2, <3>7, LaterDay
      <3> QED BY <1>12, <3>3, <3>6, <3>8
    <2> QED BY <2>6, <2>7
  <1>15. FirstFiring(s, a, t) = to_utc(W[Earliest(hits)])
    <2>1. \A i \in Nat : ok[i] <=> Reads(s, W[i])
      BY <1>6, <1>7, <1>9
    <2>2. Covers(s, t, W, ok)
      BY <1>6, <1>7, <2>1 DEF Covers
    <2>3. WeekLen + 2 \in Nat
      BY <1>1
    <2> QED BY <1>3, <1>10, <1>14, <2>2, <2>3, ScanFinds
  <1> QED BY <1>13, <1>14, <1>15

\* No point of the grid is passed over.
LEMMA IntervalFirst ==
    ASSUME NEW every \in Nat \ {0}, NEW t \in Instants, NEW a \in 0..t,
           NEW s, s.kind = "interval", s.every = every, FirstFiring(s, a, t) # None
    PROVE  interval_next(a, every, t) = FirstFiring(s, a, t)
  <1>1. t \in Nat /\ a \in Nat /\ Instants \subseteq Nat
    BY WallTyped
  <1>2. PICK span \in Nat : span = t - a
    BY <1>1
  <1>3. PICK x : x = interval_next(a, every, t)
    OBVIOUS
  <1>4. x = a + ((span \div every) + 1) * every
    BY <1>1, <1>2, <1>3 DEF interval_next
  <1>5. x \in Nat /\ x > a + span /\ (x - a) % every = 0
    BY <1>1, <1>4, GridNext
  <1>6. x > t /\ x > a
    BY <1>1, <1>2, <1>5
  <1>7. \A y : Fires(s, a, y) <=> y > a /\ (y - a) % every = 0
    BY Zenon DEF Fires
  <1> DEFINE after == {y \in Instants : y > t /\ Fires(s, a, y)}
  <1>8. ASSUME NEW y \in Instants, y > t, Fires(s, a, y) PROVE x <= y
    <2>1. y \in Nat /\ y > a /\ (y - a) % every = 0
      BY <1>1, <1>7, <1>8
    <2>2. PICK p \in Int : y - a = p * every
      <3>1. y - a = ((y - a) \div every) * every + ((y - a) % every) /\ (y - a) \div every \in Int
        BY <1>1, <2>1
      <3>2. ((y - a) \div every) * every \in Int
        BY <3>1
      <3> QED BY <2>1, <3>1, <3>2
    <2>3. PICK q \in Int : q = span \div every
      OBVIOUS
    <2>4. span = q * every + (span % every) /\ span % every \in 0..(every - 1)
      BY <2>3
    <2>5. q < p
      <3> SUFFICES ASSUME p <= q PROVE FALSE
        OBVIOUS
      <3>1. PICK m \in Nat : q = p + m
        OBVIOUS
      <3>2. q * every = p * every + m * every /\ m * every >= 0
        BY <3>1
      <3>3. PICK qe \in Int : qe = q * every
        OBVIOUS
      <3>4. y - a <= qe /\ qe <= span
        BY <2>1, <1>1, <2>2, <2>4, <3>2, <3>3
      <3> QED BY <1>1, <1>2, <1>8, <2>1, <3>3, <3>4
    <2>6. PICK m \in Nat : p = (q + 1) + m
      BY <2>5
    <2>7. p * every = (q + 1) * every + m * every /\ m * every >= 0
      BY <2>6
    <2>8. x = a + (q + 1) * every
      BY <1>4, <2>3
    <2> QED BY <1>1, <1>5, <2>1, <2>2, <2>7, <2>8
  <1>9. PICK y \in Instants : y > t /\ Fires(s, a, y)
    BY SomeFiring
  <1>10. x \in Instants
    <2>1. x <= y
      BY <1>8, <1>9
    <2> QED BY <1>5, <2>1, CalendarAssumption DEF Instants
  <1>11. x \in after /\ after \subseteq Nat /\ \A z \in after : x <= z
    BY <1>1, <1>5, <1>6, <1>7, <1>8, <1>10
  <1> HIDE DEF after
  <1>12. Earliest(after) \in after /\ Earliest(after) <= x
    BY <1>11, EarliestIsFirst
  <1>13. x <= Earliest(after) /\ Earliest(after) \in Nat
    BY <1>11, <1>12
  <1>14. Earliest(after) = x
    BY <1>5, <1>12, <1>13
  <1> QED BY <1>3, <1>11, <1>14 DEF FirstFiring, after

\* A field that was accepted matches what it names.
LEMMA NamesMatch ==
    ASSUME NEW chunks, NEW lo, NEW hi, NEW v,
           parse_field(chunks, lo, hi, None) # Bad, Named(chunks, lo, hi, v)
    PROVE  field_matches(parse_field(chunks, lo, hi, None), v)
  <1> DEFINE part(c) == [min |-> IF c.a = Star THEN lo ELSE IF c.a = None THEN lo ELSE c.a,
                         max |-> IF c.b = Star THEN hi ELSE IF c.b = None THEN lo ELSE c.b,
                         step |-> c.step]
  <1>1. parse_field(chunks, lo, hi, None) = {part(c) : c \in chunks}
    BY DEF parse_field
  <1>2. PICK c \in chunks : LET b == IF c.b = Star THEN hi ELSE c.b
                                m == IF c.a = Star THEN lo ELSE c.a
                            IN m <= v /\ v <= b /\ (v - m) % c.step = 0
    BY DEF Named
  <1>3. /\ part(c).min = (IF c.a = Star THEN lo ELSE c.a)
        /\ part(c).max = (IF c.b = Star THEN hi ELSE c.b)
        /\ part(c).step = c.step
    BY DEF Star, None
  <1>4. part(c) \in {part(k) : k \in chunks}
    OBVIOUS
  <1> HIDE DEF part
  <1> QED BY <1>1, <1>2, <1>3, <1>4 DEF field_matches

\* The days of the week that a plain field names.
LEMMA DaysMatch ==
    ASSUME NEW chunks \in SUBSET Chunks, NEW v \in 0..(WeekLen - 1),
           parse_field(chunks, 0, WeekLen, WeekLen) # Bad,
           \A c \in chunks : (c.b = Star => c.a = Star) /\ (c.b = WeekLen => c.a = WeekLen),
           \/ Named(FromFirst(chunks), 0, WeekLen, v)
           \/ v = 0 /\ Named(FromFirst(chunks), 0, WeekLen, WeekLen)
    PROVE  field_matches(parse_field(chunks, 0, WeekLen, WeekLen), v)
  <1>0. WeekLen \in Nat \ {0} /\ WeekLen # Star
    BY CalendarAssumption DEF Star
  <1> DEFINE part(c) == [min |-> IF c.a = Star THEN 0 ELSE IF c.a = WeekLen THEN 0 ELSE c.a,
                         max |-> IF c.b = Star THEN WeekLen ELSE IF c.b = WeekLen THEN 0 ELSE c.b,
                         step |-> c.step]
  <1>1. /\ parse_field(chunks, 0, WeekLen, WeekLen) = {part(c) : c \in chunks}
        /\ \A p \in {part(c) : c \in chunks} :
              p.step > 0 /\ 0 <= p.min /\ p.min <= p.max /\ p.max <= WeekLen
    BY DEF parse_field
  <1>2. PICK k \in FromFirst(chunks), n \in {v, WeekLen} :
              /\ n = v \/ v = 0
              /\ (IF k.a = Star THEN 0 ELSE k.a) <= n
              /\ n <= (IF k.b = Star THEN WeekLen ELSE k.b)
              /\ (n - (IF k.a = Star THEN 0 ELSE k.a)) % k.step = 0
    BY DEF Named
  <1>3. PICK c \in chunks : k = IF c.a = WeekLen /\ c.b # WeekLen THEN [c EXCEPT !.a = 0] ELSE c
    BY DEF FromFirst
  <1>4. /\ part(c).min = (IF c.a = Star THEN 0 ELSE IF c.a = WeekLen THEN 0 ELSE c.a)
        /\ part(c).max = (IF c.b = Star THEN WeekLen ELSE IF c.b = WeekLen THEN 0 ELSE c.b)
        /\ part(c).step = c.step /\ part(c) \in {part(i) : i \in chunks}
    OBVIOUS
  <1> HIDE DEF part
  <1>5. c.step > 0 /\ part(c).max <= WeekLen
    BY <1>1, <1>4
  <1>6. c \in Chunks /\ c.a \in Nat \cup {Star} /\ c.b \in Nat \cup {Star} /\ c.step \in Nat \ {0}
    BY <1>5 DEF Chunks
  <1>7. k.b = c.b /\ k.step = c.step /\ k.a = (IF c.a = WeekLen /\ c.b # WeekLen THEN 0 ELSE c.a)
    BY <1>3, <1>6 DEF Chunks
  <1>8. \A i \in Nat \ {0} : (0 - 0) % i = 0
    OBVIOUS
  <1>9. part(c).min <= v /\ v <= part(c).max /\ (v - part(c).min) % part(c).step = 0
    <2>1. CASE c.b = WeekLen
      <3>1. part(c).min = 0 /\ part(c).max = 0 /\ k.a = WeekLen /\ k.b = WeekLen
        BY <1>0, <1>4, <1>7, <2>1
      <3>2. v = 0
        BY <1>0, <1>2, <3>1
      <3> QED BY <1>4, <1>6, <1>8, <3>1, <3>2
    <2>2. CASE c.b = Star
      <3>1. part(c).min = 0 /\ part(c).max = WeekLen /\ k.a = Star /\ k.b = Star
        BY <1>0, <1>4, <1>7, <2>2
      <3>2. CASE v = 0
        BY <1>0, <1>4, <1>6, <1>8, <3>1, <3>2
      <3>3. CASE n = v
        BY <1>0, <1>2, <1>4, <1>7, <3>1, <3>3
      <3> QED BY <1>2, <3>2, <3>3
    <2>3. CASE c.b # WeekLen /\ c.b # Star
      <3>1. part(c).max = c.b /\ c.b < WeekLen
        BY <1>0, <1>4, <1>5, <1>6, <2>3
      <3>2. n = v
        BY <1>0, <1>2, <1>6, <1>7, <2>3, <3>1 DEF Star
      <3>3. (IF k.a = Star THEN 0 ELSE k.a) = part(c).min
        BY <1>0, <1>4, <1>7, <2>3 DEF Star
      <3> QED BY <1>2, <1>4, <1>7, <2>3, <3>1, <3>2, <3>3
    <2> QED BY <2>1, <2>2, <2>3
  <1> QED BY <1>1, <1>4, <1>9 DEF field_matches

\* The number and the name of a day.
LEMMA DayParts ==
    ASSUME NEW d \in Int
    PROVE  /\ day(d) \in 1..MonthLen /\ weekday(d) \in 0..(WeekLen - 1)
  <1>1. /\ Cycle \in Nat \ {0} /\ WeekLen \in Nat \ {0}
        /\ DayOf \in [0..(Cycle - 1) -> 1..MonthLen]
    BY CalendarAssumption
  <1>2. d % Cycle \in 0..(Cycle - 1) /\ d % WeekLen \in 0..(WeekLen - 1)
    BY <1>1
  <1> QED BY <1>1, <1>2 DEF day, weekday

\* cron_matches accepts what a plain expression means.
LEMMA CronComplete ==
    ASSUME NEW e, e.dow \in SUBSET Chunks, NEW w \in Int, Plain(e),
           \A f \in DOMAIN parse(e) : parse(e)[f] # Bad
    PROVE  cron_matches(parse(e), w) <=> CronMeans(e, w)
  <1>1. SUFFICES ASSUME CronMeans(e, w) PROVE cron_matches(parse(e), w)
    BY CronSound
  <1> DEFINE H == parse_field(e.hour, 0, DayLen - 1, None)
             D == parse_field(e.dom, 1, MonthLen, None)
             M == parse_field(e.month, 1, YearLen, None)
             W == parse_field(e.dow, 0, WeekLen, WeekLen)
             d == date(w)
  <1>2. /\ parse(e).hour = H /\ parse(e).dom = D /\ parse(e).month = M /\ parse(e).dow = W
        /\ H # Bad /\ D # Bad /\ M # Bad /\ W # Bad
    BY DEF parse
  <1>3. d \in Int /\ weekday(d) \in 0..(WeekLen - 1) /\ day(d) \in 1..MonthLen
    <2>1. d \in Int
      BY CalendarAssumption DEF date
    <2> HIDE DEF d
    <2> QED BY <2>1, DayParts
  <1> DEFINE inDom == Named(e.dom, 1, MonthLen, day(d))
             inDow == \/ Named(FromFirst(e.dow), 0, WeekLen, weekday(d))
                      \/ weekday(d) = 0 /\ Named(FromFirst(e.dow), 0, WeekLen, WeekLen)
  <1>4. /\ Named(e.month, 1, YearLen, month(d)) /\ Named(e.hour, 0, DayLen - 1, w % DayLen)
        /\ IF IsStar(e.dom) THEN inDow ELSE IF IsStar(e.dow) THEN inDom ELSE inDom \/ inDow
    BY <1>1 DEF CronMeans
  <1> HIDE DEF H, D, M, W, d
  <1>5. field_matches(M, month(d)) /\ field_matches(H, w % DayLen)
    BY <1>2, <1>4, NamesMatch DEF H, M
  <1>6. inDom => field_matches(D, day(d))
    BY <1>2, NamesMatch DEF D
  <1>7. inDow => field_matches(W, weekday(d))
    BY <1>2, <1>3, DaysMatch DEF W, Plain
  <1> HIDE DEF inDom, inDow
  <1>8. is_full_range(D, 1, MonthLen) => IsStar(e.dom) /\ field_matches(D, day(d))
    <2>1. (day(d) - 1) % 1 = 0
      BY <1>3
    <2>2. is_full_range(D, 1, MonthLen) => field_matches(D, day(d))
      BY <1>3, <2>1 DEF is_full_range, field_matches
    <2> QED BY <1>2, <2>2 DEF Plain
  <1>9. IsStar(e.dom) => is_full_range(D, 1, MonthLen)
    <2>1. D = {[min |-> IF c.a = Star THEN 1 ELSE IF c.a = None THEN 1 ELSE c.a,
                max |-> IF c.b = Star THEN MonthLen ELSE IF c.b = None THEN 1 ELSE c.b,
                step |-> c.step] : c \in e.dom}
      BY <1>2 DEF D, parse_field
    <2> QED BY <2>1 DEF IsStar, is_full_range
  <1>10. is_full_range(W, 0, WeekLen) => IsStar(e.dow) /\ field_matches(W, weekday(d))
    <2> SUFFICES ASSUME is_full_range(W, 0, WeekLen)
                 PROVE  IsStar(e.dow) /\ field_matches(W, weekday(d))
      OBVIOUS
    <2>0. WeekLen \in Nat \ {0}
      BY CalendarAssumption
    <2>1. (weekday(d) - 0) % 1 = 0
      BY <1>3, <2>0
    <2>2. field_matches(W, weekday(d))
      BY <1>3, <2>0, <2>1 DEF is_full_range, field_matches
    <2> DEFINE part(c) == [min |-> IF c.a = Star THEN 0 ELSE IF c.a = WeekLen THEN 0 ELSE c.a,
                           max |-> IF c.b = Star THEN WeekLen ELSE IF c.b = WeekLen THEN 0 ELSE c.b,
                           step |-> c.step]
    <2>3. W = {part(c) : c \in e.dow}
      BY <1>2 DEF W, parse_field
    <2>4. W = {[min |-> 0, max |-> WeekLen, step |-> 1]}
      BY DEF is_full_range
    <2>5. ASSUME NEW c \in e.dow PROVE c = [a |-> Star, b |-> Star, step |-> 1]
      <3>1. c \in Chunks
        OBVIOUS
      <3>2. part(c) = [min |-> 0, max |-> WeekLen, step |-> 1]
        <4> HIDE DEF part
        <4> QED BY <2>3, <2>4
      <3>3. part(c).max = WeekLen /\ part(c).step = 1
        <4> HIDE DEF part
        <4> QED BY <3>2
      <3>4. (IF c.b = Star THEN WeekLen ELSE IF c.b = WeekLen THEN 0 ELSE c.b) = WeekLen /\ c.step = 1
        BY <3>3
      <3>5. c.b = Star
        BY <2>0, <3>4
      <3>6. c.a = Star
        BY <3>5 DEF Plain
      <3> QED BY <3>1, <3>4, <3>5, <3>6 DEF Chunks
    <2>6. e.dow # {}
      BY <2>3, <2>4
    <2>7. IsStar(e.dow)
      BY <2>5, <2>6 DEF IsStar
    <2> QED BY <2>2, <2>7
  <1>11. IF is_full_range(D, 1, MonthLen) \/ is_full_range(W, 0, WeekLen)
        THEN field_matches(D, day(d)) /\ field_matches(W, weekday(d))
        ELSE field_matches(D, day(d)) \/ field_matches(W, weekday(d))
    BY <1>4, <1>6, <1>7, <1>8, <1>10, <1>9
  <1> QED BY <1>2, <1>5, <1>11 DEF cron_matches, d

\* The minutes that are looked at hold the first firing of a cron expression, or
\* none.
LEMMA CronFirst ==
    ASSUME PutBack, NEW s \in Schedules, IsSchedule(s), s.kind = "cron",
           Plain(s.expr), NEW t \in Instants, NEW a, FirstFiring(s, a, t) # None
    PROVE  cron_next(s.expr, t) = IF InReach(s, t, FirstFiring(s, a, t))
                                  THEN FirstFiring(s, a, t) ELSE None
  <1>1. DayLen \in Nat \ {0} /\ YearDays \in Nat \ {0}
    BY CalendarAssumption
  <1>2. t \in Nat /\ wall(t) \in Int
    BY WallTyped
  <1>3. s.kind # "interval" /\ s.kind # "daily"
    OBVIOUS
  <1>4. s.expr.dow \in SUBSET Chunks /\ \A f \in DOMAIN parse(s.expr) : parse(s.expr)[f] # Bad
    BY DEF IsSchedule
  <1>5. \A w \in Int : /\ Reads(s, w) <=> CronMeans(s.expr, w)
                       /\ Reads(s, w) <=> cron_matches(parse(s.expr), w)
    BY <1>4, CronComplete DEF Reads
  <1>7. PICK W \in [Nat -> Int] : W = [i \in Nat |-> wall(t) + 1 + i]
    <2>1. [i \in Nat |-> wall(t) + 1 + i] \in [Nat -> Int]
      BY <1>2
    <2> QED BY <2>1
  <1>8. PICK ok \in [Nat -> BOOLEAN] : \A i \in Nat : ok[i] <=> cron_matches(parse(s.expr), W[i])
    <2>1. PICK o : o = [i \in Nat |-> cron_matches(parse(s.expr), W[i])]
      OBVIOUS
    <2>2. \A w : cron_matches(parse(s.expr), w) \in BOOLEAN
      BY DEF cron_matches
    <2> QED BY <2>1, <2>2
  <1>9. MaxMinutes \in Nat
    <2>1. \A m, n \in Nat : m * n \in Nat
      OBVIOUS
    <2> QED BY <1>1, <2>1 DEF MaxMinutes
  <1>10. PICK hits : hits = Hits(t, MaxMinutes, W, ok)
    OBVIOUS
  <1>11. /\ hits \subseteq Nat
         /\ hits = {i \in 0..(MaxMinutes - 1) : cron_matches(parse(s.expr), W[i]) /\ to_utc(W[i]) > t}
         /\ \A i \in Nat : i < MaxMinutes /\ Reads(s, W[i]) /\ to_utc(W[i]) > t => i \in hits
    <2>1. 0..(MaxMinutes - 1) \subseteq Nat
      BY <1>9
    <2>2. hits = {i \in 0..(MaxMinutes - 1) : cron_matches(parse(s.expr), W[i]) /\ to_utc(W[i]) > t}
      BY <1>8, <1>10, <2>1 DEF Hits
    <2>3. ASSUME NEW i \in Nat, i < MaxMinutes, Reads(s, W[i]), to_utc(W[i]) > t
          PROVE  i \in hits
      <3>1. i \in 0..(MaxMinutes - 1)
        BY <1>9, <2>3
      <3>2. cron_matches(parse(s.expr), W[i])
        BY <1>5, <1>7, <2>3
      <3> QED BY <2>2, <2>3, <3>1, <3>2
    <2> QED BY <2>1, <2>2, <2>3
  <1>12. cron_next(s.expr, t) = IF hits = {} THEN None ELSE to_utc(W[Earliest(hits)])
    <2> DEFINE w(i) == wall(t) + 1 + i
               h == {i \in 0..(MaxMinutes - 1) : cron_matches(parse(s.expr), w(i)) /\ to_utc(w(i)) > t}
    <2>1. cron_next(s.expr, t) = IF h = {} THEN None ELSE to_utc(w(Earliest(h)))
      BY <1>4 DEF cron_next, FirstAfter
    <2>2. \A i \in Nat : W[i] = w(i)
      BY <1>7
    <2> HIDE DEF w
    <2>3. h = hits
      <3>1. 0..(MaxMinutes - 1) \subseteq Nat
        BY <1>9
      <3> QED BY <1>11, <2>2, <3>1
    <2>4. hits # {} => Earliest(hits) \in Nat
      BY <1>11, EarliestIsFirst
    <2> QED BY <2>1, <2>2, <2>3, <2>4
  <1>13. \A w \in Int : wall(t) < w => \E i \in Nat : W[i] = w /\ i = w - (wall(t) + 1)
    <2> SUFFICES ASSUME NEW w \in Int, wall(t) < w
                 PROVE  \E i \in Nat : W[i] = w /\ i = w - (wall(t) + 1)
      OBVIOUS
    <2>1. w - (wall(t) + 1) \in Nat /\ wall(t) + 1 + (w - (wall(t) + 1)) = w
      BY <1>2
    <2> QED BY <1>7, <2>1
  <1>14. Covers(s, t, W, ok)
    <2>1. \A i \in Nat : ok[i] <=> Reads(s, W[i])
      BY <1>5, <1>7, <1>8
    <2>2. \A i, k \in Nat : i < k => W[i] < W[k]
      BY <1>2, <1>7
    <2>3. \A w \in Int : wall(t) < w /\ Reads(s, w) => \E i \in Nat : W[i] = w
      BY <1>13
    <2> QED BY <2>1, <2>2, <2>3 DEF Covers
  <1>15. PICK x \in Instants : x = FirstFiring(s, a, t) /\ x > t /\ Fires(s, a, x)
    <2> DEFINE after == {y \in Instants : y > t /\ Fires(s, a, y)}
    <2>1. after # {} /\ after \subseteq Nat
      BY SomeFiring, WallTyped
    <2>2. FirstFiring(s, a, t) = Earliest(after)
      BY <2>1 DEF FirstFiring
    <2>3. Earliest(after) \in after
      <3> HIDE DEF after
      <3> QED BY <2>1, EarliestIsFirst
    <2> QED BY <2>2, <2>3
  <1>16. x \in Nat /\ wall(x) \in Int
    BY WallTyped
  <1>17. InReach(s, t, x) <=> wall(x) <= wall(t) + MaxMinutes
    BY DEF InReach
  <1>18. CASE hits = {}
    <2>1. Reads(s, wall(x)) /\ \A u \in Readings(wall(x)) : x <= u
      BY <1>3, <1>15, FiresAtReading
    <2>2. wall(t) < wall(x)
      BY <1>2, <1>15, <1>16, <2>1, FirstsInOrder
    <2>3. PICK k \in Nat : W[k] = wall(x) /\ k = wall(x) - (wall(t) + 1)
      BY <1>13, <1>16, <2>2
    <2>4. to_utc(W[k]) = x
      BY <2>1, <2>3, ToUtcAt
    <2>5. ~(k < MaxMinutes)
      BY <1>11, <1>15, <1>18, <2>1, <2>3, <2>4
    <2>6. ~InReach(s, t, x)
      BY <1>2, <1>9, <1>16, <1>17, <2>3, <2>5
    <2> QED BY <1>12, <1>15, <1>18, <2>6
  <1>19. CASE hits # {}
    <2>1. x = to_utc(W[Earliest(hits)])
      BY <1>3, <1>9, <1>10, <1>14, <1>15, <1>19, ScanFinds
    <2>2. Earliest(hits) \in hits
      BY <1>11, <1>19, EarliestIsFirst
    <2>3. PICK i \in 0..(MaxMinutes - 1) : i = Earliest(hits) /\ i \in Nat
      BY <1>11, <2>2
    <2>4. x = to_utc(W[i]) /\ to_utc(W[i]) # None
      BY <1>16, <2>1, <2>3 DEF None
    <2>5. wall(x) = W[i]
      BY <2>4, ToUtc
    <2>6. W[i] = wall(t) + 1 + i
      BY <1>7, <2>3
    <2>7. InReach(s, t, x)
      BY <1>2, <1>9, <1>17, <2>3, <2>5, <2>6
    <2> QED BY <1>12, <1>15, <1>19, <2>1, <2>7
  <1> QED BY <1>18, <1>19

\* What next_after computes for each kind.
LEMMA NextByKind ==
    ASSUME NEW s, NEW t, NEW a, NEW x, x = next_after(s, t, a)
    PROVE  /\ s.kind = "daily" => x = daily_next(s.at, t)
           /\ s.kind = "weekly" => x = weekly_next(s.wd, s.at, t)
           /\ s.kind = "interval" => x = interval_next(IF a = None THEN t ELSE a, s.every, t)
           /\ s.kind = "cron" => x = cron_next(s.expr, t)
  <1>1. ASSUME s.kind = "daily" PROVE x = daily_next(s.at, t)
    BY <1>1 DEF next_after, Untimed
  <1>2. ASSUME s.kind = "weekly" PROVE x = weekly_next(s.wd, s.at, t)
    BY <1>2 DEF next_after, Untimed
  <1>3. ASSUME s.kind = "interval"
        PROVE  x = interval_next(IF a = None THEN t ELSE a, s.every, t)
    BY <1>3 DEF next_after, Untimed
  <1>4. ASSUME s.kind = "cron" PROVE x = cron_next(s.expr, t)
    BY <1>4 DEF next_after, Untimed
  <1> QED BY <1>1, <1>2, <1>3, <1>4

\* The next time of a schedule is its first firing after now, if that is in reach.
LEMMA NextIsFirst ==
    ASSUME NoZero, PlainCron, PutBack, SkipsLittle,
           NEW s \in Schedules, NEW t \in 0..MaxTime, NEW a \in {None} \cup 0..t,
           NEW b, b = (IF a = None THEN t ELSE a), FirstFiring(s, b, t) # None
    PROVE  next_after(s, t, a) = IF InReach(s, t, FirstFiring(s, b, t))
                                 THEN FirstFiring(s, b, t) ELSE None
  <1>0. s.kind # "cron" => InReach(s, t, FirstFiring(s, b, t))
    BY DEF InReach
  <1>1. t \in Instants /\ t \in Nat
    BY DispatchAssumption, CalendarAssumption DEF Instants
  <1>2. b \in 0..t
    BY <1>1
  <1>3. IsSchedule(s) /\ Positive(s)
    <2>1. PICK g \in DOMAIN Configs, j \in Jobs : Configs[g][j] # Absent /\ s = Configs[g][j].sched
      BY DEF Schedules
    <2>2. j \in Known(Configs[g])
      BY <2>1 DEF Known
    <2> QED BY <2>1, <2>2, SpecsTyped DEF IsSpec
  <1>4. CASE s.kind = "daily"
    <2>1. next_after(s, t, a) = daily_next(s.at, t)
      BY <1>4, NextByKind
    <2> QED BY <1>0, <1>1, <1>3, <1>4, <2>1, DailyFirst
  <1>5. CASE s.kind = "weekly"
    <2>1. next_after(s, t, a) = weekly_next(s.wd, s.at, t)
      BY <1>5, NextByKind
    <2> QED BY <1>0, <1>1, <1>3, <1>5, <2>1, WeeklyFirst
  <1>6. CASE s.kind = "interval"
    <2>1. s.every \in Nat \ {0}
      BY <1>3, <1>6 DEF IsSchedule, Positive
    <2>2. next_after(s, t, a) = interval_next(b, s.every, t)
      BY <1>6, NextByKind
    <2> QED BY <1>0, <1>1, <1>2, <1>6, <2>1, <2>2, IntervalFirst
  <1>7. CASE s.kind = "cron"
    <2>1. Plain(s.expr)
      BY <1>7 DEF PlainCron
    <2>2. next_after(s, t, a) = cron_next(s.expr, t)
      BY <1>7, NextByKind
    <2> QED BY <1>1, <1>3, <1>7, <2>1, <2>2, CronFirst
  <1>8. CASE s.kind \in Untimed
    <2>1. \A x : ~Fires(s, b, x)
      BY <1>8 DEF Fires, Untimed
    <2> QED BY <2>1 DEF FirstFiring
  <1> QED BY <1>3, <1>4, <1>5, <1>6, <1>7, <1>8 DEF IsSchedule

\* next_after (schedule.rs) is the schedule's first firing after now, for every
\* kind of schedule and whatever the calendar's months and years are, unless a
\* cron expression fires next more than two of the longest years ahead, as one
\* for leap days does after a leap day: then, and only then, it is None.  In zones
\* whose clock is put back over readings it had, and is put forward over none of
\* the times of weekly schedules and over one day's time of daily ones; for
\* intervals that are not 0s and cron expressions that are written plainly.
THEOREM NextIsTheFirst ==
    ASSUME NoZero, PlainCron, PutBack, SkipsLittle
    PROVE  SchedSpec => []NextIsEarliest
<1>1. SchedInv => NextIsEarliest
  <2> SUFFICES ASSUME SchedInv, NEW s \in Schedules, NEW a \in {None} \cup 0..now,
                      NEW b, b = (IF a = None THEN now ELSE a), FirstFiring(s, b, now) # None
               PROVE  next_after(s, now, a) = IF InReach(s, now, FirstFiring(s, b, now))
                                              THEN FirstFiring(s, b, now) ELSE None
    BY DEF NextIsEarliest
  <2>1. now \in 0..MaxTime
    BY DEF SchedInv, SchedTypeOK
  <2> QED BY <2>1, NextIsFirst
<1> QED BY <1>1, SchedInvariant, PTL

=============================================================================
