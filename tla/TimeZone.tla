------------------------------- MODULE TimeZone -------------------------------
(***************************************************************************)
(* src/muduo/base/TimeZone.cc: broken-down time, in UTC and in a zone read *)
(* from a zone file, and back.                                             *)
(*                                                                         *)
(* A struct tm of gmtime_r() and timegm(), which are each other's inverse, *)
(* is the number of seconds it stands for; the two conversions the file    *)
(* makes itself are modelled field by field.  The seconds are integers of  *)
(* any size: the time_t in use has 64 bits.                                *)
(***************************************************************************)
EXTENDS Date, SequencesExt, FiniteSetsExt

CONSTANTS
    Zones,      \* the zone files: [trans : when which type begins, types : ...]
    Clock       \* for each zone, the times converted: [first, last : the range,
                \* tick : the distance from one to the next], to bound them

VARIABLES
    time,       \* the time converted
    zone        \* the file of the zone it is converted for

vars == <<time, zone>>

kSecondsPerDay == 24 * 60 * 60

\* A zone file has one type at least, and its transitions in the order of time.  The
\* times are those of days Date can number.
ZoneAssumption(z) ==
    /\ z.types \in Seq([gmt_offset : Int, is_dst : BOOLEAN]) /\ z.types # <<>>
    /\ z.trans \in Seq([at : Int, type : DOMAIN z.types])
    /\ \A i, j \in DOMAIN z.trans : i < j => z.trans[i].at < z.trans[j].at
    /\ Clock[z].first \in Int /\ Clock[z].tick \in Nat
    /\ Clock[z].first \div kSecondsPerDay + kJulianDayOf1970_01_01 >= 0

ASSUME TimeZoneAssumption == \A z \in Zones : ZoneAssumption(z)

\* `/` of C, which rounds towards zero.
Quotient(a, b) == IF a < 0 THEN -((-a) \div b) ELSE a \div b

------------------------------------------------------------------------------
\* UTC

\* fill_hms: the minutes are those of the day, not of the hour.
fill_hms(seconds) ==
    [tm_sec |-> seconds % 60, tm_min |-> seconds \div 60, tm_hour |-> seconds \div 3600]

Utc(days, seconds) ==
    LET julian == days + kJulianDayOf1970_01_01
        ymd == get_year_month_day(julian)
        hms == fill_hms(seconds)
    IN [tm_sec |-> hms.tm_sec, tm_min |-> hms.tm_min, tm_hour |-> hms.tm_hour,
        tm_year |-> ymd.year - 1900, tm_mon |-> ymd.month - 1, tm_mday |-> ymd.day,
        tm_wday |-> week_day(julian),
        tm_yday |-> julian - get_julian_day_number(ymd.year, 1, 1)]

\* Mutant of to_utc_time: the seconds of a negative time stay negative.
ToUtcTruncated(t) ==
    LET days == Quotient(t, kSecondsPerDay)
    IN Utc(days, t - days * kSecondsPerDay)

\* to_utc_time(t, true)
to_utc_time(t) ==
    LET days == Quotient(t, kSecondsPerDay)
        seconds == t - days * kSecondsPerDay
    IN IF seconds < 0 THEN Utc(days - 1, seconds + kSecondsPerDay) ELSE Utc(days, seconds)

\* from_utc_time(year, month, day, hour, minute, seconds)
from_utc_fields(year, month, day, hour, minute, seconds) ==
    (get_julian_day_number(year, month, day) - kJulianDayOf1970_01_01) * kSecondsPerDay
        + hour * 3600 + minute * 60 + seconds

\* from_utc_time(const struct tm&): the month is passed for the minute.
from_utc_time(utc) ==
    from_utc_fields(utc.tm_year + 1900, utc.tm_mon + 1, utc.tm_mday,
                    utc.tm_hour, utc.tm_mon, utc.tm_sec)

------------------------------------------------------------------------------
\* Local time

\* read_time_zone_file: a transition also has the local time at which it happens,
\* by the clock it introduces.
Data(file) ==
    [local_times |-> file.types,
     transitions |-> [i \in DOMAIN file.trans |->
        [gmt_time |-> file.trans[i].at,
         local_time |-> file.trans[i].at + file.types[file.trans[i].type].gmt_offset,
         local_time_index |-> file.trans[i].type]]]

\* std::lower_bound: the first transition whose key is not less than t, or one
\* past the last.
LowerBound(transitions, key, t) ==
    Min({i \in DOMAIN transitions : transitions[i][key] >= t} \cup {Len(transitions) + 1})

\* find_local_time, by GMT or by local time; the first type before any transition.
find_local_time(data, key, t) ==
    LET i == LowerBound(data.transitions, key, t)
        exact == i <= Len(data.transitions) /\ data.transitions[i][key] = t
        current == IF exact THEN i ELSE i - 1
    IN IF data.transitions = <<>> \/ t < data.transitions[1][key]
       THEN data.local_times[1]
       ELSE data.local_times[data.transitions[current].local_time_index]

\* to_local_time
to_local_time(data, t) ==
    LET local == find_local_time(data, "gmt_time", t)
    IN [seconds |-> t + local.gmt_offset, tm_isdst |-> local.is_dst,
        tm_gmtoff |-> local.gmt_offset]

\* Whether two struct tm show the same tm_hour and tm_min.
SameHourAndMinute(tm1, tm2) ==
    (tm1.seconds % kSecondsPerDay) \div 60 = (tm2.seconds % kSecondsPerDay) \div 60

\* Mutant of from_local_time: the hour that is repeated when daylight saving
\* ends is always read as the second one.
FromLocalTimeOnce(data, local) ==
    local.seconds - find_local_time(data, "local_time", local.seconds).gmt_offset

\* from_local_time: in the hour that is repeated when daylight saving ends,
\* tm_isdst tells which one is meant.
from_local_time(data, local) ==
    LET offset == find_local_time(data, "local_time", local.seconds).gmt_offset
        try == to_local_time(data, local.seconds - offset)
        first == local.tm_isdst /\ ~try.tm_isdst /\ SameHourAndMinute(try, local)
    IN local.seconds - (IF first THEN 3600 ELSE 0) - offset

------------------------------------------------------------------------------
Init == zone \in Zones /\ time = Clock[zone].first

Tick ==
    /\ time + Clock[zone].tick <= Clock[zone].last
    /\ time' = time + Clock[zone].tick
    /\ UNCHANGED zone

Spec == Init /\ [][Tick]_vars

------------------------------------------------------------------------------
\* The day of a time and the second of that day, for times before 1970 too.
Day == time \div kSecondsPerDay
SecondOfDay == time % kSecondsPerDay

\* to_utc_time gives the date, the day of the week and of the year, the hour and
\* the second of every time, before 1970 too (TimeZone.cc:292), and from_utc_time of
\* the year, month, day, hour, minute and second gives the time back.
UtcIsRight ==
    LET utc == to_utc_time(time)
        julian == kJulianDayOf1970_01_01 + Day
    IN /\ get_julian_day_number(utc.tm_year + 1900, utc.tm_mon + 1, utc.tm_mday) = julian
       /\ get_julian_day_number(utc.tm_year + 1900, 1, 1) + utc.tm_yday = julian
       /\ utc.tm_wday = (4 + Day) % 7
       /\ utc.tm_hour * 3600 <= SecondOfDay /\ SecondOfDay < (utc.tm_hour + 1) * 3600
       /\ utc.tm_sec = SecondOfDay % 60
       /\ from_utc_fields(utc.tm_year + 1900, utc.tm_mon + 1, utc.tm_mday,
                          utc.tm_hour, (SecondOfDay % 3600) \div 60, utc.tm_sec) = time

\* time_zone_test.cc:233-248: to_utc_time shows the minutes gmtime shows, and
\* from_utc_time gives back what to_utc_time was given.
UtcTestPasses ==
    LET utc == to_utc_time(time)
    IN utc.tm_min = (SecondOfDay % 3600) \div 60 /\ from_utc_time(utc) = time

\* The type of local time in force: that of the last transition that is not later, or
\* the first one if there is none.
Current ==
    LET past == {i \in DOMAIN zone.trans : zone.trans[i].at <= time}
    IN zone.types[IF past = {} THEN 1 ELSE zone.trans[Max(past)].type]

OffsetIsInForce == to_local_time(Data(zone), time).tm_gmtoff = Current.gmt_offset

\* The fields of every time are those of its second, in UTC (TimeZone.cc:285) but for the
\* minute, which UtcTestPasses is about, and with the offset in force in a zone
\* (TimeZone.cc:203).
FieldsAreRight == UtcIsRight /\ OffsetIsInForce

\* The next change of the zone, if there is one, and the type it introduces.
Later == {i \in DOMAIN zone.trans : zone.trans[i].at > time}
NextChange == zone.trans[Min(Later)]
NextType == zone.types[NextChange.type]

\* The clock is put back at the next change, so that it shows this local time again.
ShownAgain ==
    Later # {} /\ time + Current.gmt_offset >= NextChange.at + NextType.gmt_offset

\* The next change ends daylight saving time, by one hour.
SummerEnds ==
    Current.is_dst /\ ~NextType.is_dst /\ Current.gmt_offset = NextType.gmt_offset + 3600

\* from_local_time gives back what to_local_time was given, in both of the hours that
\* look the same when daylight saving time ends (TimeZone.cc:279).  Left out are only the
\* times the clock shows twice for another reason, as when a city gives up its own mean
\* time, which no tm_isdst tells apart, or when daylight saving time is half an hour.
LocalRoundTrip ==
    (ShownAgain => SummerEnds) =>
        from_local_time(Data(zone), to_local_time(Data(zone), time)) = time
===============================================================================
