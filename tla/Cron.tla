---- MODULE Cron ----
(***************************************************************************)
(* The schedule of a script (ccronexpr.c): cron_parse_expr() turns the six *)
(* fields of an expression into bit sets, cron_next() looks for the next   *)
(* time they match.                                                        *)
(*                                                                         *)
(* A struct tm that mktime() has normalised is an instant, so the calendar *)
(* is a number of seconds and the fields are read from it.  The sizes of   *)
(* minutes, hours, days, weeks and months are parameters.                  *)
(***************************************************************************)
EXTENDS Naturals, Sequences, FiniteSets, FiniteSetsExt

CONSTANTS
    SecsPerMin, MinsPerHour, HoursPerDay, DaysPerWeek,
    MonthsPerYear,
    MonthDays,      \* the lengths of the months of one or more years, which repeat
    Years,          \* bound on the years of the calendar
    DayTries,       \* max of find_next_day(): the days of the longest year
    Exprs,          \* cron expressions
    CheckSecs,      \* CRON_CHECK_MS: how late a check may be
    CrDates         \* the dates at which a script may be loaded

NoTime == 0     \* CRON_INVALID_INSTANT; dates begin at 1

VARIABLES
    crExpr,     \* the expression of the script
    crDate,     \* when cron_next() was called last
    crDue       \* what it returned: cron.next

crVars == <<crExpr, crDate, crDue>>

----
(* The calendar: gmtime_r(), timegm()                                      *)

DaySecs == SecsPerMin * MinsPerHour * HoursPerDay

\* The first day of a month, from the first year on
MonthStart[k \in 0..(Years * MonthsPerYear)] ==
    IF k = 0 THEN 0 ELSE MonthStart[k - 1] + MonthDays[((k - 1) % Len(MonthDays)) + 1]

MonthNo ==
    [d \in 0..(MonthStart[Years * MonthsPerYear] - 1) |->
        CHOOSE k \in 0..(Years * MonthsPerYear - 1) : MonthStart[k] <= d /\ d < MonthStart[k + 1]]

MonthAt(t) == MonthNo[t \div DaySecs]
YearAt(t) == MonthAt(t) \div MonthsPerYear
WdayAt(t) == (t \div DaySecs) % DaysPerWeek

Get(t, field) ==
    CASE field = "sec"  -> t % SecsPerMin
      [] field = "min"  -> (t \div SecsPerMin) % MinsPerHour
      [] field = "hour" -> (t \div (SecsPerMin * MinsPerHour)) % HoursPerDay
      [] field = "mday" -> (t \div DaySecs) - MonthStart[MonthAt(t)] + 1
      [] field = "mon"  -> MonthAt(t) % MonthsPerYear
      [] field = "year" -> YearAt(t)

Unit(field) ==
    CASE field = "sec" -> 1 [] field = "min" -> SecsPerMin
      [] field = "hour" -> SecsPerMin * MinsPerHour [] field = "mday" -> DaySecs

\* set_field(): mktime() carries what is too much into the higher fields.  A month
\* that is shorter than the day of the month becomes the following one.
SetField(t, field, val) ==
    LET MonthSet(k) == (MonthStart[k] + Get(t, "mday") - 1) * DaySecs + (t % DaySecs)
    IN CASE field = "mon"  -> MonthSet(YearAt(t) * MonthsPerYear + val)
         [] field = "year" -> MonthSet(val * MonthsPerYear + Get(t, "mon"))
         [] OTHER -> t + val * Unit(field) - Get(t, field) * Unit(field)

AddToField(t, field) == SetField(t, field, Get(t, field) + 1)

ResetMin(t, field) == SetField(t, field, IF field = "mday" THEN 1 ELSE 0)

ResetAllMin(t, fields) == FoldSet(LAMBDA f, u : ResetMin(u, f), t, fields)

----
(* cron_parse_expr(): a field is a set of items, a value, a range from-to or the *)
(* steps from-to/step                                                      *)

\* set_number_hits()
NumberHits(items) ==
    UNION {{v \in r.from..r.to : (v - r.from) % r.step = 0} : r \in items}

\* set_months() counts from 0, set_days_of_week() takes 7 for Sunday, which is 0.
Parsed(e) ==
    [sec  |-> NumberHits(e.sec),
     min  |-> NumberHits(e.min),
     hour |-> NumberHits(e.hour),
     mday |-> NumberHits(e.mday),
     mon  |-> {m - 1 : m \in NumberHits(e.mon)},
     wday |-> {d % DaysPerWeek : d \in NumberHits(e.wday)}]

\* get_range(), for every field
InRange(items, min, max) ==
    items # {} /\ \A r \in items : min <= r.from /\ r.from <= r.to /\ r.to < max /\ r.step > 0

ParseOK(e) ==
    /\ InRange(e.sec, 0, SecsPerMin)
    /\ InRange(e.min, 0, MinsPerHour)
    /\ InRange(e.hour, 0, HoursPerDay)
    /\ InRange(e.mday, 1, Max({MonthDays[i] : i \in DOMAIN MonthDays}) + 1)
    /\ InRange(e.mon, 1, MonthsPerYear + 1)
    /\ InRange(e.wday, 0, DaysPerWeek + 1)

----
(* cron_next()                                                             *)

\* The field is set in the next unit, but the fields below it are kept.
FindNext_KeepsLower(bits, t, field, nextField, lower) ==
    LET ahead == {b \in bits : b >= Get(t, field)}
    IN IF Get(t, field) \in bits THEN t
       ELSE IF ahead # {} THEN SetField(t, field, Min(ahead))
       ELSE SetField(ResetMin(AddToField(t, nextField), field), field, Min(bits))

\* find_next(), next_set_bit()
FindNext(bits, t, field, nextField, lower) ==
    LET ahead == {b \in bits : b >= Get(t, field)}
    IN IF Get(t, field) \in bits THEN t
       ELSE IF ahead # {} THEN ResetAllMin(SetField(t, field, Min(ahead)), lower)
       ELSE ResetAllMin(SetField(ResetMin(AddToField(t, nextField), field), field, Min(bits)), lower)

\* find_next_day(): day by day, not more than DayTries
FindNextDay(bits, t, resets) ==
    LET Day(n) == IF n = 0 THEN t ELSE ResetAllMin(t + n * DaySecs, resets)
        found == {n \in 0..DayTries : /\ Get(Day(n), "mday") \in bits.mday
                                      /\ WdayAt(Day(n)) \in bits.wday}
    IN IF found # {} THEN Day(Min(found)) ELSE Day(DayTries)

Order == <<"sec", "min", "hour", "mday", "mon">>
Above == [sec |-> "min", min |-> "hour", hour |-> "mday", mon |-> "year"]

\* What do_next() makes of field i
FindField(bits, i, t, resets) ==
    IF Order[i] = "mday" THEN FindNextDay(bits, t, resets)
    ELSE FindNext(bits[Order[i]], t, Order[i], Above[Order[i]], resets)

Same(bits, i, t, u) ==
    IF Order[i] = "mday" THEN Get(u, "mday") = Get(t, "mday") ELSE Get(t, Order[i]) \in bits[Order[i]]

\* do_next(), from field i on: a field that has changed begins all over with the
\* seconds, except for the seconds themselves; the fields that have not changed are
\* the ones to reset.
DoNext(bits, dot) ==
    LET Fields == {Order[k] : k \in DOMAIN Order}
        Do[i \in 1..(Len(Order) + 1), t \in Nat, resets \in SUBSET Fields] ==
            LET From(v) == IF v = NoTime THEN NoTime ELSE Do[i + 1, v, resets]
                Found(u) ==
                    IF Same(bits, i, t, u) THEN Do[i + 1, u, resets \cup {Order[i]}]
                    ELSE IF Order[i] = "sec" THEN From(u)
                    ELSE IF Order[i] = "mon" /\ YearAt(u) - dot > 4 THEN NoTime
                    ELSE From(Do[1, u, {}])
            IN IF i > Len(Order) THEN t ELSE Found(FindField(bits, i, t, resets))
    IN Do

CronNext(e, date) ==
    LET From(t) == DoNext(Parsed(e), YearAt(t))[1, t, {}]
        Later(t) == IF t = date THEN From(date + 1) ELSE t
    IN Later(From(date))

----
(* The script                                                              *)

\* script_param_load(), script_cron_set_next()
CronSet(e, date) == IF ParseOK(e) THEN CronNext(e, date) ELSE NoTime

CronLoad(e, date) ==
    /\ crExpr = e
    /\ crDate = date
    /\ crDue = CronSet(e, date)

CrInit == \E e \in Exprs, date \in CrDates : CronLoad(e, date)

\* script_cron_check(), called every CRON_CHECK_MS: the script is run and its next time set.
CronFires ==
    /\ crDue # NoTime /\ YearAt(crDue) = 0
    /\ crDate' \in crDue..(crDue + CheckSecs)
    /\ crDue' = CronSet(crExpr, crDate')
    /\ UNCHANGED crExpr

\* A schedule without a next time is looked at again by the next checks.
CronRetries ==
    /\ crDue = NoTime /\ ParseOK(crExpr)
    /\ \E now \in CrDates :
         /\ now > crDate
         /\ crDate' = now
         /\ crDue' = CronSet(crExpr, now)
    /\ UNCHANGED crExpr

CrNext == CronFires \/ CronRetries

CrSpec == CrInit /\ [][CrNext]_crVars

----
\* When an expression matches, field by field as it is written
Matches(e, t) ==
    LET In(items, v) == \E r \in items : r.from <= v /\ v <= r.to /\ (v - r.from) % r.step = 0
    IN /\ In(e.sec, Get(t, "sec")) /\ In(e.min, Get(t, "min")) /\ In(e.hour, Get(t, "hour"))
       /\ In(e.mday, Get(t, "mday")) /\ In(e.mon, Get(t, "mon") + 1)
       /\ In(e.wday, WdayAt(t)) \/ (WdayAt(t) = 0 /\ In(e.wday, DaysPerWeek))

\* cron_next() returns the next time the expression matches: a time it matches, and
\* none between the date and it is left out.
CronIsNext ==
    ParseOK(crExpr) /\ crDue # NoTime =>
        /\ crDue > crDate
        /\ Matches(crExpr, crDue)
        /\ \A t \in (crDate + 1)..(crDue - 1) : ~Matches(crExpr, t)

\* The schedules for which it does: one second of the minute, all months, and not both
\* days of the month and days of the week.
Plain(e) ==
    LET bits == Parsed(e)
    IN /\ Cardinality(bits.sec) = 1
       /\ bits.mon = 0..(MonthsPerYear - 1)
       /\ \/ bits.wday = 0..(DaysPerWeek - 1)
          \/ bits.mday = 1..Max({MonthDays[i] : i \in DOMAIN MonthDays})

\* For the usual schedules cron_next() returns the next time the expression matches,
\* over the ends of minutes, hours, days, months of any length and years.
PlainIsNext == Plain(crExpr) => CronIsNext /\ (ParseOK(crExpr) => crDue # NoTime)
====
