--------------------------------- MODULE Date ---------------------------------
(***************************************************************************)
(* src/muduo/base/Date.cc: days of the Gregorian calendar and their Julian *)
(* day numbers, both ways, and the day of the week.                        *)
(*                                                                         *)
(* `/` and `%` of C round towards zero, \div and % of TLA+ downwards: they *)
(* agree here, where no operand is negative after the year -4800.          *)
(***************************************************************************)
EXTENDS Integers

\* Mutant of get_julian_day_number: every hundredth year is a leap year.
JulianDayNumberJulian(year, month, day) ==
    LET a == (14 - month) \div 12
        y == year + 4800 - a
        m == month + 12 * a - 3
    IN day + (153 * m + 2) \div 5 + y * 365 + y \div 4 - 32083

get_julian_day_number(year, month, day) ==
    LET a == (14 - month) \div 12
        y == year + 4800 - a
        m == month + 12 * a - 3
    IN day + (153 * m + 2) \div 5
           + y * 365 + y \div 4 - y \div 100 + y \div 400 - 32045

get_year_month_day(julian_day_number) ==
    LET a == julian_day_number + 32044
        b == (4 * a + 3) \div 146097
        c == a - (b * 146097) \div 4
        d == (4 * c + 3) \div 1461
        e == c - (1461 * d) \div 4
        m == (5 * e + 2) \div 153
    IN [year  |-> b * 100 + d - 4800 + m \div 10,
        month |-> m + 3 - 12 * (m \div 10),
        day   |-> e - (153 * m + 2) \div 5 + 1]

\* Date::kJulianDayOf1970_01_01
kJulianDayOf1970_01_01 == get_julian_day_number(1970, 1, 1)

week_day(julian_day_number) == (julian_day_number + 1) % 7
===============================================================================
