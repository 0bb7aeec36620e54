------------------------------- MODULE Calendar -------------------------------
(***************************************************************************)
(* The Gregorian calendar by its rules, one day after the other, beside    *)
(* what Date makes of the same days.                                       *)
(***************************************************************************)
EXTENDS Date

CONSTANTS
    FirstYear,      \* the calendar starts on January 1st of this year,
    FirstWeekDay,   \* which is this day of the week (0 is Sunday),
    LastYear        \* and, to bound it, ends with this year

VARIABLES
    today,      \* the day by the rules of the calendar
    weekDay,    \* its day of the week
    days        \* how many days have gone by

vars == <<today, weekDay, days>>

Init ==
    /\ today = [year |-> FirstYear, month |-> 1, day |-> 1]
    /\ weekDay = FirstWeekDay
    /\ days = 0

IsLeapYear(year) == year % 4 = 0 /\ (year % 100 # 0 \/ year % 400 = 0)

DaysOfMonth(year, month) ==
    CASE month \in {4, 6, 9, 11} -> 30
      [] month = 2 -> IF IsLeapYear(year) THEN 29 ELSE 28
      [] OTHER -> 31

LastOfMonth == today.day = DaysOfMonth(today.year, today.month)

Tomorrow(day) ==
    /\ today' = day
    /\ weekDay' = (weekDay + 1) % 7
    /\ days' = days + 1

NextDay ==
    /\ ~LastOfMonth
    /\ Tomorrow([today EXCEPT !.day = @ + 1])

NextMonth ==
    /\ LastOfMonth /\ today.month < 12
    /\ Tomorrow([today EXCEPT !.month = @ + 1, !.day = 1])

NextYear ==
    /\ LastOfMonth /\ today.month = 12 /\ today.year < LastYear
    /\ Tomorrow([year |-> today.year + 1, month |-> 1, day |-> 1])

Next == NextDay \/ NextMonth \/ NextYear

Spec == Init /\ [][Next]_vars

------------------------------------------------------------------------------
JulianDay == get_julian_day_number(today.year, today.month, today.day)

\* Julian day numbers count the days without a gap or a repetition,
\* get_year_month_day finds the day back from its number, and week_day is its day
\* of the week (Date.cc:11-33), over the leap years and centuries of Date's range.
DateIsRight ==
    /\ JulianDay = get_julian_day_number(FirstYear, 1, 1) + days
    /\ get_year_month_day(JulianDay) = today
    /\ week_day(JulianDay) = weekDay
===============================================================================
