---- MODULE MCCron ----
\* A small calendar and schedules for TLC: minutes of 3 seconds, hours of 2
\* minutes, days of 2 hours, weeks of 2 days, years of 2 months, which have 2 to 4
\* days and not the same every year.
EXTENDS Cron

MCMonthDays == <<4, 2, 3, 3>>

Items(a, b, s) == {[from |-> a, to |-> b, step |-> s]}
Only(v) == Items(v, v, 1)

\* Single values, lists, ranges and steps; a schedule of the 4th day skips the
\* months that have none, and a week day may be written 0 or 2.
MCExprs ==
    {e \in [sec : {Only(0), Items(0, 2, 2)},
            min : {Only(1), Items(0, 1, 1)},
            hour : {Only(0), Only(1), Items(0, 1, 1)},
            mday : {Items(1, 4, 1), Items(1, 4, 3), Only(3), Only(4), Only(1) \cup Only(2)},
            mon : {Items(1, 2, 1), Only(2)},
            wday : {Items(0, 1, 1), Only(1), Only(2)}] :
        \/ Plain(e)
        \/ Cardinality(e.mday) = 1 /\ e.mon = Only(2) /\ e.wday = Items(0, 1, 1)}

MCDates == {1, 8, 13, 22, 35, 59}
====
