--------------------------- MODULE ConversionProofs ---------------------------
(***************************************************************************)
(* What the functions that only compute give for every input: the days of  *)
(* the Gregorian calendar, the fields of a time in UTC and in a zone and   *)
(* back, the orders of strings, and what is read out of the texts of /proc *)
(* (Date.cc, TimeZone.cc, StringPiece.h, ProcessInfo.cc).                  *)
(***************************************************************************)
EXTENDS MCConversions, SequenceTheorems, WellFoundedInduction, TLAPS

------------------------------------------------------------------------------
(* Julian day numbers. *)

\* The Julian day number by the year y that begins in March, 4800 years earlier, the
\* months m after March and the day.
NumberOf(y, m, day) ==
    day + (153 * m + 2) \div 5 + y * 365 + y \div 4 - y \div 100 + y \div 400 - 32045

\* The year of get_julian_day_number begins in March.
LEMMA ByMarch ==
  ASSUME NEW year \in Int, NEW month \in 1..12, NEW day \in Int
  PROVE  get_julian_day_number(year, month, day) =
           IF month <= 2 THEN NumberOf(year + 4799, month + 9, day)
                         ELSE NumberOf(year + 4800, month - 3, day)
  <1> DEFINE a == (14 - month) \div 12
  <1>1. a = IF month <= 2 THEN 1 ELSE 0
    OBVIOUS
  <1>2. get_julian_day_number(year, month, day) = NumberOf(year + 4800 - a, month + 12 * a - 3, day)
    BY DEF get_julian_day_number, NumberOf
  <1> HIDE DEF a
  <1>3. CASE month <= 2
    <2>1. year + 4800 - a = year + 4799 /\ month + 12 * a - 3 = month + 9
      BY <1>1, <1>3
    <2> QED BY <1>2, <1>3, <2>1
  <1>4. CASE ~(month <= 2)
    <2>1. year + 4800 - a = year + 4800 /\ month + 12 * a - 3 = month - 3
      BY <1>1, <1>4
    <2> QED BY <1>2, <1>4, <2>1
  <1> QED BY <1>3, <1>4

\* The same for the first two months.
LEMMA BeforeMarch ==
  ASSUME NEW year \in Int, NEW month \in 1..12, NEW day \in Int, NEW y \in Int, NEW m \in Int,
         month <= 2, y = year + 4799, m = month + 9
  PROVE  get_julian_day_number(year, month, day) = NumberOf(y, m, day)
  BY ByMarch

\* The same from March on.
LEMMA SinceMarch ==
  ASSUME NEW year \in Int, NEW month \in 1..12, NEW day \in Int, NEW y \in Int, NEW m \in Int,
         ~(month <= 2), y = year + 4800, m = month - 3
  PROVE  get_julian_day_number(year, month, day) = NumberOf(y, m, day)
  BY ByMarch

\* Years and centuries.
LEMMA Centuries ==
  ASSUME NEW y \in Nat
  PROVE  \E c \in Nat, r \in 0..99 : /\ y = 100 * c + r
                                     /\ y \div 100 = c
                                     /\ y \div 400 = c \div 4
                                     /\ y \div 4 = 25 * c + r \div 4
  <1> DEFINE c == y \div 100
             r == y % 100
  <1>1. c \in Nat /\ r \in 0..99 /\ y = 100 * c + r
    OBVIOUS
  <1> HIDE DEF c, r
  <1>2. y \div 400 = c \div 4
    BY <1>1
  <1>3. y \div 4 = 25 * c + r \div 4
    BY <1>1
  <1> QED BY <1>1, <1>2, <1>3 DEF c

\* The day n of the year that begins in March belongs to the month m, on the day given.
LEMMA MonthOfDay ==
  ASSUME NEW m \in 0..11, NEW day \in 1..31,
         m \in {1, 3, 6, 8} => day <= 30, m = 11 => day <= 29
  PROVE  /\ (5 * (day - 1 + (153 * m + 2) \div 5) + 2) \div 153 = m
         /\ day - 1 + (153 * m + 2) \div 5 \in Nat /\ day - 1 + (153 * m + 2) \div 5 <= 365
  <1>1. CASE m = 0 BY <1>1
  <1>2. CASE m = 1 BY <1>2
  <1>3. CASE m = 2 BY <1>3
  <1>4. CASE m = 3 BY <1>4
  <1>5. CASE m = 4 BY <1>5
  <1>6. CASE m = 5 BY <1>6
  <1>7. CASE m = 6 BY <1>7
  <1>8. CASE m = 7 BY <1>8
  <1>9. CASE m = 8 BY <1>9
  <1>10. CASE m = 9 BY <1>10
  <1>11. CASE m = 10 BY <1>11
  <1>12. CASE m = 11 BY <1>12
  <1> QED BY <1>1, <1>2, <1>3, <1>4, <1>5, <1>6, <1>7, <1>8, <1>9, <1>10, <1>11, <1>12

\* get_year_month_day finds the century, the year and the day of the year.
LEMMA YearOfNumber ==
  ASSUME NEW c \in Nat, NEW r \in 0..99, NEW e \in Nat, e <= 365,
         e = 365 => r % 4 = 3 /\ (r = 99 => c % 4 = 3),
         NEW a, a = 36524 * c + c \div 4 + 365 * r + r \div 4 + e
  PROVE  LET b == (4 * a + 3) \div 146097
             f == a - (b * 146097) \div 4
             d == (4 * f + 3) \div 1461
         IN  b = c /\ d = r /\ f - (1461 * d) \div 4 = e
  <1> DEFINE k == 365 * r + r \div 4 + e
             b == (4 * a + 3) \div 146097
             f == a - (b * 146097) \div 4
             d == (4 * f + 3) \div 1461
  <1>1. k \in Nat /\ k <= 36524 /\ (k = 36524 => c % 4 = 3)
    <2> DEFINE q == r \div 4
               p == r % 4
               o == c % 4
    <2>1. q \in Nat /\ q <= 24 /\ r = 4 * q + p /\ p \in Nat /\ p <= 3 /\ r <= 99
      OBVIOUS
    <2>2. e = 365 => p = 3 /\ (r = 99 => o = 3)
      OBVIOUS
    <2> HIDE DEF q, p, o
    <2>3. /\ 365 * r + q + e \in Nat /\ 365 * r + q + e <= 36524
          /\ 365 * r + q + e = 36524 => o = 3
      BY ONLY <2>1, <2>2, r \in Nat, e \in Nat, e <= 365
    <2> QED BY ONLY <2>3 DEF q, o
  <1>2. a = 36524 * c + c \div 4 + k /\ a \in Nat
    OBVIOUS
  <1>3. 4 * a + 3 = 146097 * c + (4 * k + 3 - (c % 4))
    BY <1>2
  <1>4. 0 <= 4 * k + 3 - (c % 4) /\ 4 * k + 3 - (c % 4) < 146097
    <2> HIDE DEF k
    <2> QED BY <1>1
  <1>5. b = c
    <2> HIDE DEF k
    <2> QED BY <1>1, <1>2, <1>3, <1>4
  <1>6. f = k
    <2> HIDE DEF k, b
    <2>1. (c * 146097) \div 4 = 36524 * c + c \div 4
      OBVIOUS
    <2> QED BY <1>1, <1>2, <1>5, <2>1
  <1>7. 4 * k + 3 = 1461 * r + (4 * e + 3 - (r % 4))
    OBVIOUS
  <1>8. 0 <= 4 * e + 3 - (r % 4) /\ 4 * e + 3 - (r % 4) < 1461
    OBVIOUS
  <1>9. d = r
    <2> HIDE DEF k, f
    <2> QED BY <1>1, <1>6, <1>7, <1>8
  <1>10. k - (1461 * r) \div 4 = e
    OBVIOUS
  <1> QED BY <1>5, <1>6, <1>9, <1>10

\* The date of a day of the year that begins in March, if there is such a day.
YearOf(y, m) == y - 4800 + m \div 10
MonthOf(m) == m + 3 - 12 * (m \div 10)
Exists(y, m, day) ==
    /\ m \in {1, 3, 6, 8} => day <= 30
    /\ m = 11 => day <= 28 \/ (day = 29 /\ y % 4 = 3 /\ (y % 100 = 99 => y % 400 = 399))

\* get_year_month_day is the inverse of the number of such a day.
LEMMA ThereAndBack ==
  ASSUME NEW y \in Nat, NEW m \in 0..11, NEW day \in 1..31, Exists(y, m, day)
  PROVE  get_year_month_day(NumberOf(y, m, day)) =
           [year |-> YearOf(y, m), month |-> MonthOf(m), day |-> day]
  <1> USE DEF Exists
  <1> DEFINE e == day - 1 + (153 * m + 2) \div 5
  <1>1. PICK c \in Nat, r \in 0..99 : /\ y = 100 * c + r
                                      /\ y \div 100 = c
                                      /\ y \div 400 = c \div 4
                                      /\ y \div 4 = 25 * c + r \div 4
    BY Centuries
  <1>2. (5 * e + 2) \div 153 = m /\ e \in Nat /\ e <= 365
    BY MonthOfDay
  <1>3. e = 365 => r % 4 = 3 /\ (r = 99 => c % 4 = 3)
    <2> SUFFICES ASSUME e = 365 PROVE r % 4 = 3 /\ (r = 99 => c % 4 = 3)
      OBVIOUS
    <2>1. m = 11 /\ day = 29
      <3>1. m = 11
        BY <1>2
      <3> QED BY <3>1
    <2>2. r % 4 = 3
      BY <1>1, <2>1
    <2>3. r = 99 => c % 4 = 3
      BY <1>1, <2>1
    <2> QED BY <2>2, <2>3
  <1> DEFINE j == NumberOf(y, m, day)
             a == j + 32044
             b == (4 * a + 3) \div 146097
             f == a - (b * 146097) \div 4
             d == (4 * f + 3) \div 1461
             g == f - (1461 * d) \div 4
             n == (5 * g + 2) \div 153
  <1>4. a = 36524 * c + c \div 4 + 365 * r + r \div 4 + e
    <2> DEFINE s == (153 * m + 2) \div 5
    <2>1. s \in Int
      OBVIOUS
    <2>2. j = day + s + y * 365 + y \div 4 - y \div 100 + y \div 400 - 32045 /\ e = day - 1 + s
      BY DEF NumberOf
    <2> HIDE DEF s, j, e
    <2> QED BY <1>1, <2>1, <2>2
  <1> HIDE DEF e, j, a
  <1>5. b = c /\ d = r /\ g = e
    BY ONLY <1>2, <1>3, <1>4, c \in Nat, r \in 0..99, YearOfNumber
  <1> HIDE DEF b, f, d, g
  <1>6. n = m
    BY <1>2, <1>5
  <1>7. get_year_month_day(j) = [year  |-> b * 100 + d - 4800 + n \div 10,
                                 month |-> n + 3 - 12 * (n \div 10),
                                 day   |-> g - (153 * n + 2) \div 5 + 1]
    BY DEF get_year_month_day, a, b, f, d, g
  <1> HIDE DEF n
  <1>8. e - (153 * m + 2) \div 5 + 1 = day
    BY DEF e
  <1>9. b * 100 + d - 4800 + n \div 10 = y - 4800 + m \div 10
    BY <1>1, <1>5, <1>6
  <1> QED BY <1>5, <1>6, <1>7, <1>8, <1>9 DEF j, YearOf, MonthOf

\* The number of a date found by get_year_month_day.
LEMMA BackAndThere ==
  ASSUME NEW j \in Nat
  PROVE  LET date == get_year_month_day(j)
         IN  /\ date.year \in Int /\ date.year >= -4800 /\ date.month \in 1..12 /\ date.day \in Int
             /\ get_julian_day_number(date.year, date.month, date.day) = j
  <1> DEFINE a == j + 32044
             b == (4 * a + 3) \div 146097
             f == a - (b * 146097) \div 4
             d == (4 * f + 3) \div 1461
             e == f - (1461 * d) \div 4
             m == (5 * e + 2) \div 153
             y == 100 * b + d
             day == e - (153 * m + 2) \div 5 + 1
             date == get_year_month_day(j)
  <1>1. date = [year  |-> b * 100 + d - 4800 + m \div 10, month |-> m + 3 - 12 * (m \div 10),
                day   |-> day]
    BY DEF get_year_month_day
  <1>2. a \in Nat /\ b \in Nat
    OBVIOUS
  <1>3. (b * 146097) \div 4 = 36524 * b + b \div 4
    <2> HIDE DEF b
    <2> QED BY <1>2
  <1>4. f \in Nat /\ f <= 36524 /\ a = f + 36524 * b + b \div 4
    <2>1. 146097 * b <= 4 * a + 3 /\ 4 * a + 3 < 146097 * b + 146097
      OBVIOUS
    <2> DEFINE q == b \div 4
    <2>2. q \in Nat /\ 4 * q <= b /\ b < 4 * q + 4
      <3> HIDE DEF b
      <3> QED BY <1>2
    <2>3. f = a - (36524 * b + q)
      BY <1>3
    <2> HIDE DEF a, b, q, f
    <2>4. f \in Nat /\ f <= 36524 /\ a = f + 36524 * b + q
      BY ONLY <1>2, <2>1, <2>2, <2>3
    <2> QED BY ONLY <2>4 DEF q
  <1> HIDE DEF a, b, f
  <1>5. d \in 0..99 /\ 1461 * d <= 4 * f + 3 /\ 4 * f + 3 < 1461 * d + 1461
    BY <1>4
  <1> HIDE DEF d
  <1>6. e \in Nat /\ e <= 365 /\ f = e + 365 * d + d \div 4
    BY <1>4, <1>5
  <1> HIDE DEF e
  <1>7. m \in 0..11 /\ day \in Int
    BY <1>6
  <1>8. /\ y \div 100 = b /\ y \div 4 = 25 * b + d \div 4 /\ y \div 400 = b \div 4 /\ y \in Nat
    BY <1>2, <1>5
  <1>9. NumberOf(y, m, day) = j
    <2> DEFINE s == (153 * m + 2) \div 5
    <2>1. s \in Int /\ day = e - s + 1
      BY <1>7
    <2>2. NumberOf(y, m, day) = day + s + y * 365 + y \div 4 - y \div 100 + y \div 400 - 32045
      BY DEF NumberOf
    <2> HIDE DEF s, day, m
    <2>3. y * 365 = 36500 * b + 365 * d
      BY <1>2, <1>5
    <2>4. j = f + 36524 * b + b \div 4 - 32044
      BY <1>2, <1>4 DEF a
    <2> DEFINE q == b \div 4
               p == d \div 4
    <2>5. NumberOf(y, m, day) = day + s + y * 365 + (25 * b + p) - b + q - 32045
      BY ONLY <1>8, <2>2
    <2>6. f = e + 365 * d + p /\ j = f + 36524 * b + q - 32044
      BY ONLY <1>6, <2>4
    <2>7. p \in Int /\ q \in Int /\ y * 365 \in Int
      BY ONLY <1>2, <1>5, <1>8
    <2>8. b \in Nat /\ d \in 0..99 /\ e \in Nat /\ f \in Nat
      BY ONLY <1>2, <1>4, <1>5, <1>6
    <2> HIDE DEF p, q
    <2> QED BY ONLY <2>1, <2>3, <2>5, <2>6, <2>7, <2>8
  <1>10. /\ date.year = y - 4800 + m \div 10 /\ date.day = day
         /\ date.month = m + 3 - 12 * (m \div 10)
    <2> HIDE DEF m, day, date
    <2> QED BY ONLY <1>1, <1>2, <1>5
  <1> HIDE DEF m, day, y, date
  <1>11. CASE m <= 9
    <2>1. date.year = y - 4800 /\ date.month = m + 3
      BY ONLY <1>7, <1>8, <1>10, <1>11
    <2>9. date.month \in 1..12 /\ date.year \in Int /\ date.day \in Int
      BY <1>7, <1>8, <1>10, <2>1
    <2>2. get_julian_day_number(date.year, date.month, date.day) = NumberOf(y, m, day)
      <3> DEFINE yy == date.year
                 mm == date.month
                 dd == date.day
      <3>1. /\ yy \in Int /\ mm \in 1..12 /\ dd \in Int /\ ~(mm <= 2)
            /\ y = yy + 4800 /\ m = mm - 3 /\ dd = day /\ y \in Int /\ m \in Int
        BY ONLY <1>7, <1>8, <1>10, <1>11, <2>1, <2>9
      <3> HIDE DEF yy, mm, dd
      <3>2. get_julian_day_number(yy, mm, dd) = NumberOf(y, m, dd)
        BY ONLY <3>1, SinceMarch
      <3> QED BY ONLY <3>1, <3>2 DEF yy, mm, dd
    <2> QED BY ONLY <1>7, <1>8, <1>9, <1>10, <1>11, <2>1, <2>2 DEF date
  <1>12. CASE m > 9
    <2>1. date.year = y - 4799 /\ date.month = m - 9
      BY ONLY <1>7, <1>8, <1>10, <1>12
    <2>9. date.month \in 1..12 /\ date.year \in Int /\ date.day \in Int
      BY <1>7, <1>8, <1>10, <2>1
    <2>2. get_julian_day_number(date.year, date.month, date.day) = NumberOf(y, m, day)
      <3> DEFINE yy == date.year
                 mm == date.month
                 dd == date.day
      <3>1. /\ yy \in Int /\ mm \in 1..12 /\ dd \in Int /\ mm <= 2
            /\ y = yy + 4799 /\ m = mm + 9 /\ dd = day /\ y \in Int /\ m \in Int
        BY ONLY <1>7, <1>8, <1>10, <1>12, <2>1, <2>9
      <3> HIDE DEF yy, mm, dd
      <3>2. get_julian_day_number(yy, mm, dd) = NumberOf(y, m, dd)
        BY ONLY <3>1, BeforeMarch
      <3> QED BY ONLY <3>1, <3>2 DEF yy, mm, dd
    <2> QED BY ONLY <1>7, <1>8, <1>9, <1>10, <1>12, <2>1, <2>2 DEF date
  <1> QED BY <1>7, <1>11, <1>12

------------------------------------------------------------------------------
(* The calendar. *)

\* The number of the next day of the same month.
LEMMA AfterDay ==
  ASSUME NEW year \in Nat, NEW month \in 1..12, NEW day \in Int
  PROVE  /\ get_julian_day_number(year, month, day) \in Int
         /\ get_julian_day_number(year, month, day + 1)
              = get_julian_day_number(year, month, day) + 1
  <1> DEFINE y == IF month <= 2 THEN year + 4799 ELSE year + 4800
             m == IF month <= 2 THEN month + 9 ELSE month - 3
             rest == (153 * m + 2) \div 5 + y * 365 + y \div 4 - y \div 100 + y \div 400 - 32045
  <1>1. rest \in Int
    OBVIOUS
  <1>2. ASSUME NEW d \in Int PROVE get_julian_day_number(year, month, d) = d + rest
    <2>1. y \in Int /\ m \in Int
      OBVIOUS
    <2>2. get_julian_day_number(year, month, d) = NumberOf(y, m, d)
      <3>1. CASE month <= 2
        <4>1. y = year + 4799 /\ m = month + 9
          BY <3>1
        <4> HIDE DEF y, m
        <4> QED BY <2>1, <3>1, <4>1, BeforeMarch
      <3>2. CASE ~(month <= 2)
        <4>1. y = year + 4800 /\ m = month - 3
          BY <3>2
        <4> HIDE DEF y, m
        <4> QED BY <2>1, <3>2, <4>1, SinceMarch
      <3> QED BY <3>1, <3>2
    <2> DEFINE s == (153 * m + 2) \div 5
               k == y * 365
               q == y \div 4
               c == y \div 100
               f == y \div 400
    <2>3. s \in Int /\ k \in Int /\ q \in Int /\ c \in Int /\ f \in Int
      <3> HIDE DEF y, m
      <3> QED BY <2>1
    <2>4. NumberOf(y, m, d) = d + s + k + q - c + f - 32045 /\ rest = s + k + q - c + f - 32045
      BY DEF NumberOf
    <2> HIDE DEF s, k, q, c, f, y, m, rest
    <2> QED BY ONLY <2>2, <2>3, <2>4, d \in Int
  <1> HIDE DEF rest
  <1> QED BY <1>1, <1>2

\* The number of the day after the last of a month, and of a year.
LEMMA AfterMonth ==
  ASSUME NEW year \in Nat, NEW month \in 1..11
  PROVE  get_julian_day_number(year, month + 1, 1)
           = get_julian_day_number(year, month, Days!DaysOfMonth(year, month)) + 1
  <1> DEFINE last == Days!DaysOfMonth(year, month)
  <1>1. CASE month = 2
    <2> DEFINE y == year + 4799
               z == year + 4800
    <2>1. last = IF year % 4 = 0 /\ (year % 100 # 0 \/ year % 400 = 0) THEN 29 ELSE 28
      BY <1>1 DEF Days!DaysOfMonth, Days!IsLeapYear
    <2>2. /\ get_julian_day_number(year, month, last) = NumberOf(y, 11, last)
          /\ get_julian_day_number(year, month + 1, 1) = NumberOf(z, 0, 1)
      <3> HIDE DEF last
      <3>1. last \in Int
        BY <2>1
      <3>2. y \in Int /\ z \in Int /\ y = year + 4799 /\ z = year + 4800 /\ year \in Int
        OBVIOUS
      <3> HIDE DEF y, z
      <3>3. get_julian_day_number(year, 2, last) = NumberOf(y, 11, last)
        BY ONLY <3>1, <3>2, BeforeMarch
      <3>4. get_julian_day_number(year, 3, 1) = NumberOf(z, 0, 1)
        BY ONLY <3>2, SinceMarch
      <3>5. month + 1 = 3
        BY <1>1
      <3> QED BY ONLY <1>1, <3>3, <3>4, <3>5
    <2>3. /\ NumberOf(y, 11, last) =
               last + 337 + y * 365 + y \div 4 - y \div 100 + y \div 400 - 32045
          /\ NumberOf(z, 0, 1) = 1 + z * 365 + z \div 4 - z \div 100 + z \div 400 - 32045
      BY DEF NumberOf
    <2>4. /\ z \div 4 = y \div 4 + (IF year % 4 = 0 THEN 1 ELSE 0)
          /\ z \div 100 = y \div 100 + (IF year % 100 = 0 THEN 1 ELSE 0)
          /\ z \div 400 = y \div 400 + (IF year % 400 = 0 THEN 1 ELSE 0)
      OBVIOUS
    <2>5. /\ year % 400 = 0 => year % 100 = 0
          /\ year % 100 = 0 => year % 4 = 0
      OBVIOUS
    <2> DEFINE a == y \div 4
               b == y \div 100
               c == y \div 400
               k == y * 365
    <2>6. a \in Int /\ b \in Int /\ c \in Int /\ k \in Int /\ z * 365 = k + 365
      OBVIOUS
    <2> DEFINE p == year % 4 = 0
               q == year % 100 = 0
               r == year % 400 = 0
               first == get_julian_day_number(year, 3, 1)
               end == get_julian_day_number(year, 2, last)
    <2>7. /\ end = last + 337 + k + a - b + c - 32045
          /\ first = 1 + (k + 365) + (a + IF p THEN 1 ELSE 0) - (b + IF q THEN 1 ELSE 0)
                       + (c + IF r THEN 1 ELSE 0) - 32045
      <3>1. end = NumberOf(y, 11, last) /\ first = NumberOf(z, 0, 1)
        BY <1>1, <2>2
      <3> HIDE DEF y, z, p, q, r, first, end, last
      <3>2. z \div 4 = a + (IF p THEN 1 ELSE 0) /\ z \div 100 = b + (IF q THEN 1 ELSE 0)
            /\ z \div 400 = c + (IF r THEN 1 ELSE 0)
        BY ONLY <2>4 DEF p, q, r
      <3>3. NumberOf(y, 11, last) = last + 337 + k + a - b + c - 32045
        BY ONLY <2>3
      <3>4. NumberOf(z, 0, 1) = 1 + (k + 365) + (a + IF p THEN 1 ELSE 0)
                - (b + IF q THEN 1 ELSE 0) + (c + IF r THEN 1 ELSE 0) - 32045
        BY ONLY <2>3, <2>6, <3>2
      <3> QED BY ONLY <3>1, <3>3, <3>4
    <2>8. (r => q) /\ (q => p) /\ last = IF p /\ (~q \/ r) THEN 29 ELSE 28
      <3> HIDE DEF last
      <3> QED BY ONLY <2>1, <2>5
    <2> HIDE DEF last, a, b, c, k, y, z, p, q, r, first, end
    <2>9. first = end + 1
      <3>1. CASE r
        BY ONLY <2>6, <2>7, <2>8, <3>1
      <3>2. CASE ~r /\ q
        BY ONLY <2>6, <2>7, <2>8, <3>2
      <3>3. CASE ~r /\ ~q /\ p
        BY ONLY <2>6, <2>7, <2>8, <3>3
      <3>4. CASE ~p
        BY ONLY <2>6, <2>7, <2>8, <3>4
      <3> QED BY <3>1, <3>2, <3>3, <3>4
    <2>10. get_julian_day_number(year, 3, 1) = get_julian_day_number(year, 2, last) + 1
      BY ONLY <2>9 DEF first, end
    <2>11. month + 1 = 3
      BY <1>1
    <2> QED BY ONLY <1>1, <2>10, <2>11 DEF last
  <1>2. CASE month = 1
    <2>1. last = 31
      BY <1>2 DEF Days!DaysOfMonth
    <2> DEFINE y == year + 4799
    <2>2. y \in Int /\ year \in Int
      OBVIOUS
    <2>3. NumberOf(y, 11, 1) = NumberOf(y, 10, 31) + 1
      BY DEF NumberOf
    <2>4. y = year + 4799 /\ month + 1 = 2
      BY <1>2
    <2> HIDE DEF y
    <2>5. /\ get_julian_day_number(year, 1, 31) = NumberOf(y, 10, 31)
          /\ get_julian_day_number(year, 2, 1) = NumberOf(y, 11, 1)
      BY ONLY <2>2, <2>4, BeforeMarch
    <2> QED BY ONLY <1>2, <2>1, <2>3, <2>4, <2>5
  <1>3. CASE month > 2
    <2>1. last = IF month \in {4, 6, 9, 11} THEN 30 ELSE 31
      BY <1>3 DEF Days!DaysOfMonth
    <2>2. /\ get_julian_day_number(year, month, last) = NumberOf(year + 4800, month - 3, last)
          /\ get_julian_day_number(year, month + 1, 1) = NumberOf(year + 4800, month - 2, 1)
      <3> HIDE DEF last
      <3> DEFINE n == month + 1
                 k == month - 3
                 q == month - 2
                 y == year + 4800
      <3>1. /\ last \in Int /\ n \in 1..12 /\ ~(n <= 2) /\ ~(month <= 2)
            /\ month \in 1..12 /\ k = month - 3 /\ q = n - 3 /\ year \in Int
            /\ y = year + 4800 /\ y \in Int /\ k \in Int /\ q \in Int
        BY <1>3, <2>1
      <3> HIDE DEF n, k, q, y
      <3>2. get_julian_day_number(year, month, last) = NumberOf(y, k, last)
        BY ONLY <3>1, SinceMarch
      <3>3. get_julian_day_number(year, n, 1) = NumberOf(y, q, 1)
        BY ONLY <3>1, SinceMarch
      <3> QED BY ONLY <3>2, <3>3 DEF n, k, q, y
    <2>3. (153 * (month - 2) + 2) \div 5 + 1 = last + (153 * (month - 3) + 2) \div 5 + 1
      <3> HIDE DEF last
      <3>1. month \in {3, 4, 5, 6, 7, 8, 9, 10, 11}
        BY <1>3
      <3>2. CASE month = 3 BY <2>1, <3>2
      <3>3. CASE month = 4 BY <2>1, <3>3
      <3>4. CASE month = 5 BY <2>1, <3>4
      <3>5. CASE month = 6 BY <2>1, <3>5
      <3>6. CASE month = 7 BY <2>1, <3>6
      <3>7. CASE month = 8 BY <2>1, <3>7
      <3>8. CASE month = 9 BY <2>1, <3>8
      <3>9. CASE month = 10 BY <2>1, <3>9
      <3>10. CASE month = 11 BY <2>1, <3>10
      <3> QED BY <3>1, <3>2, <3>3, <3>4, <3>5, <3>6, <3>7, <3>8, <3>9, <3>10
    <2> DEFINE y == year + 4800
               rest == y * 365 + y \div 4 - y \div 100 + y \div 400 - 32045
               s == (153 * (month - 3) + 2) \div 5
               t == (153 * (month - 2) + 2) \div 5
    <2>4. /\ NumberOf(y, month - 3, last) = last + s + rest
          /\ NumberOf(y, month - 2, 1) = 1 + t + rest
      <3>1. /\ y * 365 \in Int /\ y \div 4 \in Int /\ y \div 100 \in Int /\ y \div 400 \in Int
            /\ s \in Int /\ t \in Int /\ last \in Int
        <4> HIDE DEF last
        <4> QED BY <2>1
      <3> DEFINE k == y * 365
                 a == y \div 4
                 b == y \div 100
                 c == y \div 400
      <3>2. /\ NumberOf(y, month - 3, last) = last + s + k + a - b + c - 32045
            /\ NumberOf(y, month - 2, 1) = 1 + t + k + a - b + c - 32045
            /\ rest = k + a - b + c - 32045
        BY DEF NumberOf
      <3>3. /\ k \in Int /\ a \in Int /\ b \in Int /\ c \in Int /\ s \in Int /\ t \in Int
            /\ last \in Int
        BY ONLY <3>1
      <3> HIDE DEF y, s, t, k, a, b, c, rest, last
      <3> QED BY ONLY <3>2, <3>3
    <2>5. rest \in Int /\ s \in Int /\ t \in Int /\ last \in Int
      <3> HIDE DEF last
      <3> QED BY <2>1
    <2>6. t + 1 = last + s + 1
      BY <2>3
    <2> HIDE DEF rest, s, t, last
    <2>7. 1 + t + rest = (last + s + rest) + 1
      BY ONLY <2>5, <2>6
    <2> QED BY ONLY <2>2, <2>4, <2>7 DEF y, last
  <1> QED BY <1>1, <1>2, <1>3

\* January 1st comes after December 31st.
LEMMA AfterYear ==
  ASSUME NEW year \in Nat
  PROVE  get_julian_day_number(year + 1, 1, 1) = get_julian_day_number(year, 12, 31) + 1
  <1> DEFINE y == year + 4800
             next == year + 1
  <1>1. y \in Int /\ next \in Int /\ y = next + 4799 /\ y = year + 4800 /\ year \in Int
    OBVIOUS
  <1>2. NumberOf(y, 10, 1) = NumberOf(y, 9, 31) + 1
    BY DEF NumberOf
  <1> HIDE DEF y, next
  <1>3. get_julian_day_number(next, 1, 1) = NumberOf(y, 10, 1)
    BY ONLY <1>1, BeforeMarch
  <1>4. get_julian_day_number(year, 12, 31) = NumberOf(y, 9, 31)
    BY ONLY <1>1, SinceMarch
  <1> QED BY ONLY <1>2, <1>3, <1>4 DEF next

\* The modules of the calendar and of the zones mean the same functions.
LEMMA SameDates ==
  /\ \A y, m, d : Days!get_julian_day_number(y, m, d) = get_julian_day_number(y, m, d)
  /\ \A j : Days!get_year_month_day(j) = get_year_month_day(j) /\ Days!week_day(j) = week_day(j)
  BY DEF Days!get_julian_day_number, get_julian_day_number, Days!get_year_month_day,
         get_year_month_day, Days!week_day, week_day

\* get_year_month_day finds the day back from its number.
LEMMA DateOfNumber ==
  ASSUME NEW year \in Nat, NEW month \in 1..12, NEW day \in 1..31,
         day <= Days!DaysOfMonth(year, month)
  PROVE  get_year_month_day(get_julian_day_number(year, month, day)) =
           [year |-> year, month |-> month, day |-> day]
  <1>1. CASE month <= 2
    <2> DEFINE y == year + 4799
               m == month + 9
    <2>1. /\ y \in Nat /\ m \in 0..11 /\ year = YearOf(y, m)
          /\ month = MonthOf(m) /\ m \in {10, 11} /\ (m = 11 <=> month = 2)
      BY <1>1 DEF YearOf, MonthOf
    <2>2. m = 11 => day <= 28 \/ (day = 29 /\ y % 4 = 3 /\ (y % 100 = 99 => y % 400 = 399))
      <3> SUFFICES ASSUME month = 2
                   PROVE  day <= 28 \/ (day = 29 /\ y % 4 = 3 /\ (y % 100 = 99 => y % 400 = 399))
        BY <2>1
      <3>1. day <= IF year % 4 = 0 /\ (year % 100 # 0 \/ year % 400 = 0) THEN 29 ELSE 28
        BY DEF Days!DaysOfMonth, Days!IsLeapYear
      <3>2. /\ year % 4 = 0 => y % 4 = 3
            /\ year % 100 # 0 => y % 100 # 99
            /\ year % 400 = 0 => y % 400 = 399
        OBVIOUS
      <3> HIDE DEF y
      <3> QED BY ONLY <3>1, <3>2, day \in 1..31
    <2>3. y = year + 4799 /\ m = month + 9 /\ y \in Int /\ m \in Int
      OBVIOUS
    <2> HIDE DEF y, m
    <2>6. get_julian_day_number(year, month, day) = NumberOf(y, m, day)
      BY <1>1, <2>3, BeforeMarch
    <2>4. m \in {1, 3, 6, 8} => day <= 30
      BY ONLY <2>1
    <2>7. Exists(y, m, day)
      BY ONLY <2>2, <2>4 DEF Exists
    <2>5. get_year_month_day(NumberOf(y, m, day)) = [year |-> year, month |-> month, day |-> day]
      BY ONLY <2>1, <2>7, day \in 1..31, ThereAndBack
    <2> QED BY ONLY <2>1, <2>5, <2>6
  <1>2. CASE month > 2
    <2> DEFINE y == year + 4800
               m == month - 3
    <2>1. /\ y \in Nat /\ m \in 0..11 /\ year = YearOf(y, m)
          /\ month = MonthOf(m) /\ m # 11
      BY <1>2 DEF YearOf, MonthOf
    <2>2. m \in {1, 3, 6, 8} => day <= 30
      <3> SUFFICES ASSUME month \in {4, 6, 9, 11} PROVE day <= 30
        BY <1>2
      <3> QED BY DEF Days!DaysOfMonth
    <2>3. y = year + 4800 /\ m = month - 3 /\ y \in Int /\ m \in Int /\ ~(month <= 2)
      BY <1>2
    <2> HIDE DEF y, m
    <2>6. get_julian_day_number(year, month, day) = NumberOf(y, m, day)
      BY <2>3, SinceMarch
    <2>7. Exists(y, m, day)
      BY ONLY <2>1, <2>2 DEF Exists
    <2>5. get_year_month_day(NumberOf(y, m, day)) = [year |-> year, month |-> month, day |-> day]
      BY ONLY <2>1, <2>7, day \in 1..31, ThereAndBack
    <2> QED BY ONLY <2>1, <2>5, <2>6
  <1> QED BY <1>1, <1>2

\* January 1st, 1900 was a Monday.
LEMMA FirstMonday == week_day(get_julian_day_number(1900, 1, 1)) = 1
  BY DEF week_day, get_julian_day_number

------------------------------------------------------------------------------
Number(date) == get_julian_day_number(date.year, date.month, date.day)

\* The inductive invariant of the calendar: today is a day there is, its number says
\* how many days have gone by, and which day of the week it is.
CalendarInv ==
    /\ today \in [year : Nat, month : 1..12, day : 1..31]
    /\ today.day <= Days!DaysOfMonth(today.year, today.month)
    /\ days \in Nat
    /\ Number(today) = get_julian_day_number(FirstYear, 1, 1) + days
    /\ weekDay = week_day(Number(today))

\* What a step to the next day has to show.
LEMMA OneDayLater ==
  ASSUME CalendarInv, NEW day \in [year : Nat, month : 1..12, day : 1..31],
         day.day <= Days!DaysOfMonth(day.year, day.month),
         Number(day) = Number(today) + 1,
         Days!Tomorrow(day)
  PROVE  CalendarInv'
  <1> DEFINE first == get_julian_day_number(FirstYear, 1, 1)
             n == Number(today)
             k == Number(day)
  <1>1. first \in Int
    BY CalendarAssumption, AfterDay
  <1>2. n = first + days /\ weekDay = (n + 1) % 7 /\ days \in Nat /\ k = n + 1
    BY DEF CalendarInv, week_day
  <1>3. today' = day /\ weekDay' = (weekDay + 1) % 7 /\ days' = days + 1
    BY DEF Days!Tomorrow
  <1>4. Number(today') = k
    BY <1>3
  <1> HIDE DEF first, n, k
  <1>5. weekDay' = (k + 1) % 7 /\ k = first + days' /\ days' \in Nat
    <2> DEFINE q == n
    <2>1. q \in Int /\ weekDay = (q + 1) % 7
      BY <1>1, <1>2
    <2>2. (((q + 1) % 7) + 1) % 7 = (q + 2) % 7
      <3> HIDE DEF q
      <3> QED BY <2>1
    <2>3. k + 1 = q + 2
      BY <1>2, <2>1
    <2> QED BY <1>1, <1>2, <1>3, <2>1, <2>2, <2>3
  <1> QED BY <1>3, <1>4, <1>5 DEF CalendarInv, first, k, week_day

\* Every step of the calendar preserves its invariant.
LEMMA CalendarStep ==
  ASSUME CalendarInv, Days!Next
  PROVE  CalendarInv'
  <1> DEFINE y == today.year
             m == today.month
             d == today.day
             last == Days!DaysOfMonth(y, m)
  <1>1. /\ y \in Nat /\ m \in 1..12 /\ d \in 1..31 /\ d <= last
        /\ Number(today) = get_julian_day_number(y, m, d)
    BY DEF CalendarInv, Number
  <1>2. last \in {28, 29, 30, 31} /\ (m = 12 => last = 31)
    <2> HIDE DEF y, m
    <2> QED BY DEF Days!DaysOfMonth, Days!IsLeapYear
  <1>3. CASE Days!NextDay
    <2> DEFINE day == [today EXCEPT !.day = @ + 1]
    <2>1. Days!Tomorrow(day) /\ d # last
      BY <1>3 DEF Days!NextDay, Days!LastOfMonth
    <2>2. day.year = y /\ day.month = m /\ day.day = d + 1
      BY DEF CalendarInv
    <2>3. d + 1 \in 1..31 /\ d + 1 <= last
      <3> HIDE DEF d, last
      <3> QED BY <1>1, <1>2, <2>1
    <2>4. day \in [year : Nat, month : 1..12, day : 1..31]
      BY <2>3 DEF CalendarInv
    <2>5. Number(day) = Number(today) + 1
      BY <1>1, <2>2, AfterDay DEF Number
    <2> HIDE DEF day
    <2> QED BY <2>1, <2>2, <2>3, <2>4, <2>5, OneDayLater
  <1>4. CASE Days!NextMonth
    <2> DEFINE day == [today EXCEPT !.month = @ + 1, !.day = 1]
    <2>1. Days!Tomorrow(day) /\ d = last /\ m < 12
      BY <1>4 DEF Days!NextMonth, Days!LastOfMonth
    <2>2. day.year = y /\ day.month = m + 1 /\ day.day = 1
      BY DEF CalendarInv
    <2>7. day = [year |-> y, month |-> m + 1, day |-> 1]
      <3> DEFINE one == [today EXCEPT !.month = @ + 1]
      <3>1. one = [year |-> y, month |-> m + 1, day |-> d]
        BY DEF CalendarInv
      <3>2. day = [one EXCEPT !.day = 1]
        OBVIOUS
      <3> HIDE DEF one, day, y, m, d
      <3> QED BY <3>1, <3>2
    <2>3. m + 1 \in 1..12 /\ m \in 1..11
      <3> HIDE DEF m
      <3> QED BY <1>1, <2>1
    <2>4. day \in [year : Nat, month : 1..12, day : 1..31]
      <3> HIDE DEF day, y, m
      <3> QED BY <1>1, <2>3, <2>7
    <2>5. Number(day) = Number(today) + 1
      BY <1>1, <2>1, <2>2, <2>3, AfterMonth DEF Number
    <2>6. 1 <= Days!DaysOfMonth(y, m + 1)
      <3> HIDE DEF y, m
      <3> QED BY <1>1, <2>3 DEF Days!DaysOfMonth, Days!IsLeapYear
    <2> HIDE DEF day
    <2> QED BY <2>1, <2>2, <2>4, <2>5, <2>6, OneDayLater
  <1>5. CASE Days!NextYear
    <2> DEFINE day == [year |-> today.year + 1, month |-> 1, day |-> 1]
    <2>1. Days!Tomorrow(day) /\ d = last /\ m = 12
      BY <1>5 DEF Days!NextYear, Days!LastOfMonth
    <2>2. day.year = y + 1 /\ day.month = 1 /\ day.day = 1
      OBVIOUS
    <2>4. day \in [year : Nat, month : 1..12, day : 1..31]
      BY <1>1
    <2>5. Number(day) = Number(today) + 1
      BY <1>1, <1>2, <2>1, <2>2, AfterYear DEF Number
    <2>6. 1 <= Days!DaysOfMonth(y + 1, 1)
      BY DEF Days!DaysOfMonth
    <2> HIDE DEF day
    <2> QED BY <2>1, <2>2, <2>4, <2>5, <2>6, OneDayLater
  <1> QED BY <1>3, <1>4, <1>5 DEF Days!Next

\* Julian day numbers count the days of the calendar without a gap or a repetition,
\* get_year_month_day finds each day back from its number, and week_day is its day of the
\* week, in every year whatever (Date.cc:11-33), where the first day is one week_day is
\* right about, as January 1st, 1900, is by FirstMonday.
THEOREM DatesAreRight ==
  ASSUME FirstWeekDay = week_day(get_julian_day_number(FirstYear, 1, 1))
  PROVE  SpecWalk => []DateIsRight
  <1>1. InitWalk => CalendarInv
    <2> SUFFICES ASSUME InitWalk PROVE CalendarInv
      OBVIOUS
    <2>1. today = [year |-> FirstYear, month |-> 1, day |-> 1] /\ weekDay = FirstWeekDay /\ days = 0
      BY DEF InitWalk, Days!Init
    <2>2. get_julian_day_number(FirstYear, 1, 1) \in Int
      BY CalendarAssumption, AfterDay
    <2>3. Number(today) = get_julian_day_number(FirstYear, 1, 1)
      BY <2>1 DEF Number
    <2>4. 1 <= Days!DaysOfMonth(today.year, today.month)
      BY <2>1 DEF Days!DaysOfMonth
    <2> QED BY <2>1, <2>2, <2>3, <2>4, CalendarAssumption DEF CalendarInv
  <1>2. CalendarInv /\ [NextWalk]_<<walk, time, zone, today, weekDay, days, left, right>>
          => CalendarInv'
    <2> SUFFICES ASSUME CalendarInv,
                        [NextWalk]_<<walk, time, zone, today, weekDay, days, left, right>>
                 PROVE  CalendarInv'
      OBVIOUS
    <2>1. CASE Days!Next
      BY <2>1, CalendarStep
    <2>2. CASE UNCHANGED <<today, weekDay, days>>
      BY <2>2 DEF CalendarInv
    <2> QED BY <2>1, <2>2 DEF NextWalk, Choose
  <1>3. CalendarInv => DateIsRight
    <2> SUFFICES ASSUME CalendarInv PROVE DateIsRight
      OBVIOUS
    <2>1. /\ Number(today) = get_julian_day_number(FirstYear, 1, 1) + days
          /\ week_day(Number(today)) = weekDay
      BY DEF CalendarInv
    <2>2. get_year_month_day(Number(today)) = today
      <3>1. today = [year |-> today.year, month |-> today.month, day |-> today.day]
        BY DEF CalendarInv
      <3> QED BY <3>1, DateOfNumber DEF CalendarInv, Number
    <2>3. Days!JulianDay = Number(today)
      BY SameDates DEF Days!JulianDay, Number
    <2> QED BY <2>1, <2>2, <2>3, SameDates DEF DateIsRight, Days!DateIsRight
  <1> QED BY <1>1, <1>2, <1>3, PTL DEF SpecWalk

\* A set of numbers has a least one.
LEMMA LeastNumber ==
  ASSUME NEW T, T \subseteq Nat, T # {}
  PROVE  \E n \in T : \A m \in T : n <= m
  <1> DEFINE R == OpToRel(<, Nat)
  <1>1. IsWellFoundedOn(R, Nat)
    BY NatLessThanWellFounded
  <1>2. ASSUME NEW x \in Nat, NEW y \in Nat, y < x
        PROVE <<y, x>> \in R
    BY <1>2 DEF OpToRel
  <1> HIDE DEF R
  <1>3. PICK n \in T : \A m \in T : <<m, n>> \notin R
    BY <1>1, WFMin
  <1>4. ASSUME NEW m \in T PROVE n <= m
    <2>1. n \in Nat /\ m \in Nat OBVIOUS
    <2>2. ~ (m < n) BY <1>2, <1>3, <2>1
    <2> QED BY <2>1, <2>2
  <1> QED BY <1>4

\* The Julian day of the epoch.
LEMMA Epoch == kJulianDayOf1970_01_01 = 2440588
  BY DEF kJulianDayOf1970_01_01, get_julian_day_number

\* to_utc_time, which divides as C does, finds the day of a time and its second, before
\* 1970 too.
LEMMA UtcOfTime ==
  ASSUME NEW t \in Int
  PROVE  to_utc_time(t) = Utc(t \div kSecondsPerDay, t % kSecondsPerDay)
  <1> DEFINE q == Quotient(t, kSecondsPerDay)
             s == t - q * kSecondsPerDay
             d == t \div 86400
             r == t % 86400
  <1>1. kSecondsPerDay = 86400
    BY DEF kSecondsPerDay
  <1>2. to_utc_time(t) = IF s < 0 THEN Utc(q - 1, s + 86400) ELSE Utc(q, s)
    BY <1>1 DEF to_utc_time
  <1>3. CASE t < 0
    <2>1. q = -((-t) \div 86400)
      BY <1>1, <1>3 DEF Quotient
    <2>2. q \in Int /\ s = t - q * 86400
      BY <1>1, <2>1
    <2> HIDE DEF q, s
    <2>3. IF s < 0 THEN q - 1 = d /\ s + 86400 = r ELSE q = d /\ s = r
      BY <2>1, <2>2
    <2> HIDE DEF d, r
    <2> QED BY <1>1, <1>2, <2>3 DEF d, r
  <1>4. CASE ~(t < 0)
    <2>1. q = d
      BY <1>1, <1>4 DEF Quotient
    <2>2. q \in Int /\ s = t - q * 86400
      BY <1>1, <2>1
    <2> HIDE DEF q, s
    <2>3. q = d /\ s = r /\ ~(s < 0)
      BY <2>1, <2>2
    <2> HIDE DEF d, r
    <2> QED BY <1>1, <1>2, <2>3 DEF d, r
  <1> QED BY <1>3, <1>4

\* The number of a date is an integer.
LEMMA NumberIsInt ==
  ASSUME NEW year \in Int, NEW month \in 1..12, NEW day \in Int
  PROVE  get_julian_day_number(year, month, day) \in Int
  BY DEF get_julian_day_number

\* The fields of a second of a day.
LEMMA UtcOfDay ==
  ASSUME time \in Int, Day + kJulianDayOf1970_01_01 >= 0
  PROVE  UtcIsRight
  <1> DEFINE julian == kJulianDayOf1970_01_01 + Day
             ymd == get_year_month_day(julian)
             s == SecondOfDay
             utc == to_utc_time(time)
             y == utc.tm_year + 1900
             m == utc.tm_mon + 1
             d == utc.tm_mday
             h == utc.tm_hour
             n == (s % 3600) \div 60
  <1>1. /\ Day \in Int /\ s \in Nat /\ s < 86400 /\ time = Day * 86400 + s
        /\ julian \in Nat /\ julian = 2440588 + Day
    BY Epoch DEF Day, SecondOfDay, kSecondsPerDay
  <1>2. utc = Utc(Day, s)
    BY UtcOfTime DEF Day, SecondOfDay
  <1>3. /\ ymd.year \in Int /\ ymd.month \in 1..12 /\ ymd.day \in Int
        /\ get_julian_day_number(ymd.year, ymd.month, ymd.day) = julian
    <2> HIDE DEF julian
    <2> QED BY <1>1, BackAndThere
  <1>4. /\ utc.tm_year = ymd.year - 1900 /\ utc.tm_mon = ymd.month - 1 /\ utc.tm_mday = ymd.day
        /\ utc.tm_wday = week_day(julian)
        /\ utc.tm_yday = julian - get_julian_day_number(ymd.year, 1, 1)
        /\ utc.tm_hour = s \div 3600 /\ utc.tm_sec = s % 60
    <2>1. Day + kJulianDayOf1970_01_01 = julian
      BY <1>1, Epoch
    <2> HIDE DEF julian, s, ymd
    <2> QED BY <1>2, <2>1 DEF Utc, fill_hms, ymd
  <1>5. y = ymd.year /\ m = ymd.month /\ d = ymd.day
    <2> HIDE DEF ymd, utc
    <2> QED BY <1>3, <1>4
  <1>6. get_julian_day_number(y, m, d) = julian
    BY <1>3, <1>5
  <1>7. get_julian_day_number(y, 1, 1) + utc.tm_yday = julian
    <2>1. get_julian_day_number(ymd.year, 1, 1) \in Int
      <3> DEFINE year == ymd.year
      <3>1. year \in Int /\ 1 \in 1..12 /\ 1 \in Int
        BY <1>3
      <3> HIDE DEF year
      <3>2. get_julian_day_number(year, 1, 1) \in Int
        BY ONLY <3>1, NumberIsInt
      <3> QED BY ONLY <3>2 DEF year
    <2> HIDE DEF ymd, utc, julian
    <2> QED BY <1>1, <1>4, <1>5, <2>1
  <1>8. utc.tm_wday = (4 + Day) % 7
    <2>1. (julian + 1) % 7 = (4 + Day) % 7
      BY <1>1
    <2> QED BY <1>4, <2>1 DEF week_day
  <1>9. h * 3600 <= s /\ s < (h + 1) * 3600 /\ h \in Int /\ h * 3600 + n * 60 + utc.tm_sec = s
    <2>1. h = s \div 3600 /\ utc.tm_sec = s % 60
      BY <1>4
    <2> HIDE DEF utc, s
    <2> QED BY <1>1, <2>1
  <1>10. from_utc_fields(y, m, d, h, n, utc.tm_sec) = time
    <2> DEFINE sec == utc.tm_sec
    <2>1. from_utc_fields(y, m, d, h, n, sec) =
            (julian - kJulianDayOf1970_01_01) * 86400 + h * 3600 + n * 60 + sec
      <3> HIDE DEF y, m, d, h, n, sec, julian
      <3> QED BY <1>6 DEF from_utc_fields, kSecondsPerDay
    <2>2. julian - kJulianDayOf1970_01_01 = Day
      BY <1>1, Epoch
    <2>3. sec \in Int /\ n \in Int
      <3>1. sec = s % 60
        BY <1>4
      <3> HIDE DEF s, sec
      <3> QED BY <1>1, <3>1
    <2>4. /\ from_utc_fields(y, m, d, h, n, sec) = Day * 86400 + h * 3600 + n * 60 + sec
          /\ h * 3600 + n * 60 + sec = s /\ time = Day * 86400 + s
      <3> HIDE DEF y, m, d, h, n, julian, s
      <3> QED BY ONLY <1>1, <1>9, <2>1, <2>2 DEF sec
    <2>5. /\ Day * 86400 \in Int /\ h * 3600 \in Int /\ n * 60 \in Int /\ sec \in Int
      <3> HIDE DEF h, n, sec, s
      <3> QED BY ONLY <1>1, <1>9, <2>3
    <2> DEFINE a == Day * 86400
               b == h * 3600
               c == n * 60
               total == from_utc_fields(y, m, d, h, n, sec)
    <2>6. total = a + b + c + sec /\ b + c + sec = s /\ time = a + s
      BY ONLY <2>4
    <2>7. a \in Int /\ b \in Int /\ c \in Int /\ sec \in Int
      BY ONLY <2>5
    <2> HIDE DEF a, b, c, sec, s, total
    <2>8. total = time
      BY ONLY <2>6, <2>7
    <2> QED BY ONLY <2>8 DEF total, sec
  <1> HIDE DEF y, m, d, h, n, julian, s
  <1> QED BY <1>4, <1>6, <1>7, <1>8, <1>9, <1>10 DEF UtcIsRight, y, m, d, h, n, julian, s

------------------------------------------------------------------------------
(* Local time. *)

\* The first k of n times in order are those that are not later than t.
Increasing(times, n) == \A i, j \in 1..n : i < j => times[i] < times[j]
Splits(times, n, t, k) == \A i \in 1..n : times[i] <= t <=> i <= k

\* There is such a k for every time.
LEMMA LastNotLater ==
  ASSUME NEW n \in Nat, NEW times \in [1..n -> Int], Increasing(times, n), NEW t \in Int
  PROVE  \E k \in 0..n : Splits(times, n, t, k)
  <1> DEFINE later == {i \in 1..n : times[i] > t} \cup {n + 1}
  <1>1. PICK m \in later : \A i \in later : m <= i
    <2>1. later \subseteq Nat /\ later # {}
      OBVIOUS
    <2> HIDE DEF later
    <2> QED BY <2>1, LeastNumber
  <1>2. m \in 1..(n + 1)
    OBVIOUS
  <1>3. ASSUME NEW i \in 1..n, i < m PROVE times[i] <= t
    <2>1. i \notin later
      BY <1>1, <1>2, <1>3
    <2> QED BY <2>1
  <1>4. ASSUME NEW i \in 1..n, ~(i < m) PROVE ~(times[i] <= t)
    <2>1. m \in 1..n /\ times[m] > t
      BY <1>2, <1>4
    <2>2. times[m] <= times[i]
      <3>1. CASE m = i
        BY <2>1, <3>1
      <3>2. CASE m # i
        <4>1. m < i
          BY <1>2, <1>4, <3>2
        <4> QED BY <2>1, <4>1 DEF Increasing
      <3> QED BY <3>1, <3>2
    <2> QED BY <2>1, <2>2
  <1>5. m - 1 \in 0..n
    BY <1>2
  <1>6. Splits(times, n, t, m - 1)
    <2> SUFFICES ASSUME NEW i \in 1..n PROVE times[i] <= t <=> i <= m - 1
      BY DEF Splits
    <2>1. i <= m - 1 <=> i < m
      BY <1>2
    <2> QED BY <1>3, <1>4, <2>1
  <1> QED BY <1>5, <1>6

\* Min, of a set of any size that has a least element.
LEMMA MinIs ==
  ASSUME NEW S, S \subseteq Int, NEW m \in S, \A x \in S : m <= x
  PROVE  Min(S) = m
  <1> DEFINE P(x) == x \in S /\ \A y \in S : x <= y
  <1>1. ASSUME NEW x, P(x) PROVE x = m
    <2>1. x \in Int /\ m \in Int /\ x <= m /\ m <= x
      BY <1>1
    <2> QED BY <2>1
  <1>3. P(m)
    OBVIOUS
  <1>2. Min(S) = CHOOSE x : P(x)
    BY DEF Min
  <1> HIDE DEF P
  <1> QED BY <1>1, <1>2, <1>3

\* Likewise the greatest.
LEMMA MaxIs ==
  ASSUME NEW S, S \subseteq Int, NEW m \in S, \A x \in S : m >= x
  PROVE  Max(S) = m
  <1> DEFINE P(x) == x \in S /\ \A y \in S : x >= y
  <1>1. ASSUME NEW x, P(x) PROVE x = m
    <2>1. x \in Int /\ m \in Int /\ x >= m /\ m >= x
      BY <1>1
    <2> QED BY <2>1
  <1>3. P(m)
    OBVIOUS
  <1>2. Max(S) = CHOOSE x : P(x)
    BY DEF Max
  <1> HIDE DEF P
  <1> QED BY <1>1, <1>2, <1>3

\* find_local_time's data, by one of its two times, and a search in it.
KeyedBy(data, key, times, n) ==
    /\ Len(data.transitions) = n /\ DOMAIN data.transitions = 1..n
    /\ data.transitions = <<>> <=> n = 0
    /\ \A i \in 1..n : data.transitions[i][key] = times[i]

\* find_local_time finds the last transition that is not later, with lower_bound.
Searches(data, key, times, n, t, k) ==
    /\ n \in Nat /\ times \in [1..n -> Int] /\ Increasing(times, n)
    /\ KeyedBy(data, key, times, n)
    /\ t \in Int /\ k \in 0..n /\ Splits(times, n, t, k)

\* Such a search finds the type of the last transition that is not later.
LEMMA Found ==
  ASSUME NEW data, NEW key, NEW times, NEW n, NEW t, NEW k, Searches(data, key, times, n, t, k)
  PROVE  find_local_time(data, key, t) =
           IF k = 0 THEN data.local_times[1]
                    ELSE data.local_times[data.transitions[k].local_time_index]
  <1>0. /\ n \in Nat /\ times \in [1..n -> Int] /\ Increasing(times, n)
        /\ KeyedBy(data, key, times, n)
        /\ t \in Int /\ k \in 0..n /\ Splits(times, n, t, k)
    BY DEF Searches
  <1> USE <1>0
  <1> DEFINE found == {i \in DOMAIN data.transitions : data.transitions[i][key] >= t}
                        \cup {Len(data.transitions) + 1}
             i == Min(found)
             exact == i <= Len(data.transitions) /\ data.transitions[i][key] = t
             current == IF exact THEN i ELSE i - 1
  <1>1. found = {j \in 1..n : times[j] >= t} \cup {n + 1}
    BY DEF KeyedBy
  <1>2. find_local_time(data, key, t) =
          IF data.transitions = <<>> \/ t < data.transitions[1][key]
          THEN data.local_times[1]
          ELSE data.local_times[data.transitions[current].local_time_index]
    BY DEF find_local_time, LowerBound
  <1>3. CASE k = 0
    <2>1. n = 0 \/ ~(times[1] <= t)
      BY <1>3 DEF Splits
    <2>2. data.transitions = <<>> \/ t < data.transitions[1][key]
      <3>1. CASE n = 0
        BY <3>1 DEF KeyedBy
      <3>2. CASE n # 0
        <4>1. 1 \in 1..n /\ times[1] \in Int
          BY <3>2
        <4>2. data.transitions[1][key] = times[1]
          BY <4>1 DEF KeyedBy
        <4> QED BY <2>1, <3>2, <4>1, <4>2
      <3> QED BY <3>1, <3>2
    <2> HIDE DEF current
    <2> QED BY <1>2, <1>3, <2>2
  <1>4. CASE k # 0
    <2>1. k \in 1..n /\ 1 \in 1..n /\ times[k] <= t /\ times[1] <= t
      BY <1>4 DEF Splits
    <2>2. ~(data.transitions = <<>> \/ t < data.transitions[1][key])
      <3>1. data.transitions[1][key] = times[1] /\ times[1] \in Int
        BY <2>1 DEF KeyedBy
      <3> QED BY <2>1, <3>1 DEF KeyedBy
    <2>3. ASSUME NEW j \in 1..n PROVE (j < k => times[j] < t) /\ (j > k => times[j] > t)
      <3>1. j < k => times[j] < times[k]
        BY <2>1 DEF Increasing
      <3>2. j > k => ~(times[j] <= t)
        BY <2>1 DEF Splits
      <3>3. times[j] \in Int /\ times[k] \in Int
        BY <2>1
      <3> QED BY <2>1, <3>1, <3>2, <3>3
    <2>4. current = k
      <3>1. CASE times[k] = t
        <4>1. k \in found /\ \A j \in found : k <= j
          <5>1. ASSUME NEW j \in 1..n, times[j] >= t PROVE k <= j
            BY <2>1, <2>3, <5>1
          <5> HIDE DEF found
          <5> QED BY <1>1, <2>1, <3>1, <5>1
        <4>2. found \subseteq Int
          <5> HIDE DEF found
          <5> QED BY <1>1
        <4>3. i = k
          <5> HIDE DEF found
          <5> QED BY <4>1, <4>2, MinIs
        <4>4. exact
          <5> HIDE DEF i
          <5> QED BY <2>1, <3>1, <4>3 DEF KeyedBy
        <4> QED BY <4>3, <4>4
      <3>2. CASE times[k] # t
        <4>0. times[k] < t
          <5>1. times[k] \in Int
            BY <2>1
          <5> QED BY <2>1, <3>2, <5>1
        <4>1. k + 1 \in found /\ \A j \in found : k + 1 <= j
          <5>1. ASSUME NEW j \in 1..n, times[j] >= t PROVE k + 1 <= j
            <6>1. times[j] \in Int /\ times[k] \in Int
              BY <2>1
            <6> QED BY <2>1, <2>3, <4>0, <5>1, <6>1
          <5>2. k + 1 = n + 1 \/ (k + 1 \in 1..n /\ times[k + 1] >= t)
            <6>1. CASE k = n
              BY <6>1
            <6>2. CASE k # n
              <7>1. k + 1 \in 1..n /\ k + 1 > k
                BY <2>1, <6>2
              <7> QED BY <2>3, <7>1
            <6> QED BY <6>1, <6>2
          <5> HIDE DEF found
          <5> QED BY <1>1, <2>1, <5>1, <5>2
        <4>2. found \subseteq Int
          <5> HIDE DEF found
          <5> QED BY <1>1
        <4>3. i = k + 1
          <5> HIDE DEF found
          <5> QED BY <4>1, <4>2, MinIs
        <4>4. ~exact
          <5> SUFFICES ASSUME exact PROVE FALSE
            OBVIOUS
          <5>1. k + 1 \in 1..n /\ times[k + 1] = t
            <6> HIDE DEF i
            <6>1. k + 1 <= n /\ data.transitions[k + 1][key] = t
              BY <4>3 DEF KeyedBy
            <6>2. k + 1 \in 1..n
              BY <2>1, <6>1
            <6> QED BY <6>1, <6>2 DEF KeyedBy
          <5>2. times[k + 1] > t
            BY <2>1, <2>3, <5>1
          <5> QED BY <5>1, <5>2
        <4> HIDE DEF exact, i
        <4> QED BY <2>1, <4>3, <4>4
      <3> QED BY <3>1, <3>2
    <2> HIDE DEF current
    <2> QED BY <1>2, <1>4, <2>2, <2>4
  <1> QED BY <1>3, <1>4

TypeInForce(z, k) == IF k = 0 THEN z.types[1] ELSE z.types[z.trans[k].type]
GmtTimes(z) == [i \in 1..Len(z.trans) |-> z.trans[i].at]
LocalTimes(z) == [i \in 1..Len(z.trans) |-> z.trans[i].at + TypeInForce(z, i).gmt_offset]

\* The data of a zone file, as far as the proofs need it.
LEMMA ZoneFile ==
  ASSUME NEW z \in Zones
  PROVE  /\ Len(z.trans) \in Nat /\ DOMAIN z.trans = 1..Len(z.trans)
         /\ GmtTimes(z) \in [1..Len(z.trans) -> Int] /\ LocalTimes(z) \in [1..Len(z.trans) -> Int]
         /\ Increasing(GmtTimes(z), Len(z.trans))
         /\ KeyedBy(Data(z), "gmt_time", GmtTimes(z), Len(z.trans))
         /\ KeyedBy(Data(z), "local_time", LocalTimes(z), Len(z.trans))
         /\ Data(z).local_times = z.types
         /\ \A k \in 0..Len(z.trans) : TypeInForce(z, k) \in [gmt_offset : Int, is_dst : BOOLEAN]
         /\ \A k \in 1..Len(z.trans) : Data(z).transitions[k].local_time_index = z.trans[k].type
  <1> DEFINE n == Len(z.trans)
             types == z.types
             trans == z.trans
  <1>1. /\ types \in Seq([gmt_offset : Int, is_dst : BOOLEAN]) /\ types # <<>>
        /\ trans \in Seq([at : Int, type : DOMAIN types])
        /\ \A i, j \in DOMAIN trans : i < j => trans[i].at < trans[j].at
    BY TimeZoneAssumption DEF ZoneAssumption
  <1>2. n \in Nat /\ DOMAIN trans = 1..n /\ (n = 0 <=> trans = <<>>)
    <2> HIDE DEF trans
    <2> QED BY <1>1, EmptySeq DEF trans
  <1>3. ASSUME NEW i \in 1..n PROVE trans[i].at \in Int /\ trans[i].type \in DOMAIN types
    <2>1. trans[i] \in [at : Int, type : DOMAIN types]
      <3> DEFINE S == [at : Int, type : DOMAIN types]
      <3>1. trans \in Seq(S) /\ i \in 1..Len(trans)
        BY <1>1
      <3> HIDE DEF trans, S
      <3>2. trans[i] \in S
        BY ONLY <3>1, ElementOfSeq
      <3> QED BY <3>2 DEF S
    <2> QED BY <2>1
  <1>4. ASSUME NEW k \in 0..n PROVE TypeInForce(z, k) \in [gmt_offset : Int, is_dst : BOOLEAN]
    <2>1. CASE k = 0
      <3>1. 1 \in DOMAIN types
        BY <1>1, EmptySeq
      <3>2. types[1] \in [gmt_offset : Int, is_dst : BOOLEAN]
        <4> DEFINE S == [gmt_offset : Int, is_dst : BOOLEAN]
        <4>1. types \in Seq(S) /\ 1 \in 1..Len(types)
          <5> HIDE DEF types
          <5> QED BY <1>1, <3>1, LenProperties
        <4> HIDE DEF types, S
        <4>2. types[1] \in S
          BY ONLY <4>1, ElementOfSeq
        <4> QED BY <4>2 DEF S
      <3> QED BY <2>1, <3>2 DEF TypeInForce
    <2>2. CASE k # 0
      <3>1. z.trans[k].type \in DOMAIN types
        BY <1>3, <2>2
      <3> DEFINE type == z.trans[k].type
      <3>2. types[type] \in [gmt_offset : Int, is_dst : BOOLEAN]
        <4> DEFINE S == [gmt_offset : Int, is_dst : BOOLEAN]
        <4>1. types \in Seq(S) /\ type \in DOMAIN types
          BY <1>1, <3>1
        <4> HIDE DEF types, type, S
        <4>2. types[type] \in S
          BY ONLY <4>1, ElementOfSeq, LenProperties
        <4> QED BY <4>2 DEF S
      <3> QED BY <2>2, <3>2 DEF TypeInForce
    <2> QED BY <2>1, <2>2
  <1>5. GmtTimes(z) \in [1..n -> Int] /\ Increasing(GmtTimes(z), n)
    BY <1>1, <1>2, <1>3 DEF GmtTimes, Increasing
  <1>6. LocalTimes(z) \in [1..n -> Int]
    <2> SUFFICES ASSUME NEW i \in 1..n PROVE z.trans[i].at + TypeInForce(z, i).gmt_offset \in Int
      BY DEF LocalTimes
    <2>1. TypeInForce(z, i) \in [gmt_offset : Int, is_dst : BOOLEAN]
      BY <1>2, <1>4
    <2> QED BY <1>3, <2>1
  <1> DEFINE transitions == Data(z).transitions
  <1>7. /\ transitions = [i \in 1..n |->
             [gmt_time |-> z.trans[i].at,
              local_time |-> z.trans[i].at + z.types[z.trans[i].type].gmt_offset,
              local_time_index |-> z.trans[i].type]]
        /\ Data(z).local_times = z.types
    BY <1>2 DEF Data
  <1>8. Len(transitions) = n /\ DOMAIN transitions = 1..n /\ (transitions = <<>> <=> n = 0)
    <2> HIDE DEF transitions
    <2>1. DOMAIN transitions = 1..n
      BY <1>7
    <2>2. Len(transitions) = n
      BY <1>2, <2>1, LenProperties DEF Data
    <2> QED BY <1>2, <2>1, <2>2
  <1>9. \A i \in 1..n : /\ transitions[i]["gmt_time"] = GmtTimes(z)[i]
                        /\ transitions[i]["local_time"] = LocalTimes(z)[i]
                        /\ transitions[i].local_time_index = z.trans[i].type
    <2> SUFFICES ASSUME NEW i \in 1..n
                 PROVE  /\ transitions[i]["gmt_time"] = GmtTimes(z)[i]
                        /\ transitions[i]["local_time"] = LocalTimes(z)[i]
                        /\ transitions[i].local_time_index = z.trans[i].type
      OBVIOUS
    <2>1. TypeInForce(z, i) = z.types[z.trans[i].type]
      BY <1>2 DEF TypeInForce
    <2>2. GmtTimes(z)[i] = z.trans[i].at
      BY DEF GmtTimes
    <2>3. LocalTimes(z)[i] = z.trans[i].at + z.types[z.trans[i].type].gmt_offset
      BY <2>1 DEF LocalTimes
    <2> HIDE DEF transitions
    <2> QED BY <1>7, <2>2, <2>3
  <1> QED BY <1>2, <1>4, <1>5, <1>6, <1>7, <1>8, <1>9 DEF KeyedBy

\* The same for the data of a zone file.
LEMMA FoundType ==
  ASSUME NEW z \in Zones, NEW key, NEW times, NEW t \in Int, NEW k,
         Searches(Data(z), key, times, Len(z.trans), t, k)
  PROVE  find_local_time(Data(z), key, t) = TypeInForce(z, k)
  <1> DEFINE n == Len(z.trans)
             data == Data(z)
  <1>1. Searches(data, key, times, n, t, k) /\ n \in Nat /\ k \in 0..n
    BY DEF Searches
  <1>2. /\ data.local_times = z.types
        /\ \A i \in 1..n : data.transitions[i].local_time_index = z.trans[i].type
    BY ZoneFile
  <1> HIDE DEF data, n
  <1>3. find_local_time(data, key, t) =
          IF k = 0 THEN data.local_times[1]
                   ELSE data.local_times[data.transitions[k].local_time_index]
    BY ONLY <1>1, Found
  <1>4. CASE k = 0
    BY <1>2, <1>3, <1>4 DEF TypeInForce, data
  <1>5. CASE k # 0
    <2>1. k \in 1..n
      BY <1>1, <1>5
    <2>2. data.transitions[k].local_time_index = z.trans[k].type
      BY <1>2, <2>1
    <2> QED BY <1>2, <1>3, <1>5, <2>2 DEF TypeInForce, data
  <1> QED BY <1>4, <1>5

\* to_local_time shows a time by the type in force.
LEMMA LocalTime ==
  ASSUME NEW z \in Zones, NEW t \in Int, NEW k \in 0..Len(z.trans),
         Splits(GmtTimes(z), Len(z.trans), t, k)
  PROVE  LET type == TypeInForce(z, k)
         IN  to_local_time(Data(z), t) =
               [seconds |-> t + type.gmt_offset, tm_isdst |-> type.is_dst,
                tm_gmtoff |-> type.gmt_offset]
  <1> DEFINE data == Data(z)
             type == TypeInForce(z, k)
  <1>1. Searches(Data(z), "gmt_time", GmtTimes(z), Len(z.trans), t, k)
    BY ZoneFile DEF Searches
  <1>2. find_local_time(data, "gmt_time", t) = type
    BY <1>1, FoundType
  <1> HIDE DEF data, type
  <1>3. to_local_time(data, t) =
          [seconds |-> t + type.gmt_offset, tm_isdst |-> type.is_dst, tm_gmtoff |-> type.gmt_offset]
    BY <1>2 DEF to_local_time
  <1> QED BY <1>3 DEF data, type

\* The type in force is that of the last transition that is not later.
LEMMA CurrentType ==
  ASSUME zone \in Zones, time \in Int
  PROVE  \E k \in 0..Len(zone.trans) : /\ Splits(GmtTimes(zone), Len(zone.trans), time, k)
                                        /\ Current = TypeInForce(zone, k)
  <1> DEFINE n == Len(zone.trans)
             times == GmtTimes(zone)
             past == {i \in DOMAIN zone.trans : zone.trans[i].at <= time}
  <1>1. n \in Nat /\ DOMAIN zone.trans = 1..n /\ times \in [1..n -> Int] /\ Increasing(times, n)
    BY ZoneFile
  <1>2. PICK k \in 0..n : Splits(times, n, time, k)
    <2> HIDE DEF n, times
    <2> QED BY <1>1, LastNotLater
  <1>3. past = 1..k
    <2>1. ASSUME NEW i \in 1..n PROVE zone.trans[i].at <= time <=> i <= k
      BY <1>2, <2>1 DEF Splits, GmtTimes
    <2>2. \A i : i \in past <=> i \in 1..n /\ i <= k
      BY <1>1, <2>1
    <2>3. \A i : i \in 1..k <=> i \in 1..n /\ i <= k
      BY <1>1, <1>2
    <2> HIDE DEF past
    <2> QED BY <2>2, <2>3
  <1> DEFINE type == IF past = {} THEN 1 ELSE zone.trans[Max(past)].type
  <1>4. zone.types[type] = TypeInForce(zone, k)
    <2>1. CASE k = 0
      <3>1. past = {}
        BY <1>3, <2>1
      <3> HIDE DEF past
      <3> QED BY <2>1, <3>1 DEF TypeInForce
    <2>2. CASE k # 0
      <3>1. k \in 1..k /\ 1..k \subseteq Int /\ \A i \in 1..k : k >= i
        BY <1>1, <1>2, <2>2
      <3>2. Max(1..k) = k
        <4> DEFINE S == 1..k
        <4>1. k \in S /\ S \subseteq Int /\ \A i \in S : k >= i
          BY <3>1
        <4> HIDE DEF S
        <4>2. Max(S) = k
          BY <4>1, MaxIs
        <4> QED BY <4>2 DEF S
      <3>3. past # {} /\ Max(past) = k
        <4> HIDE DEF past
        <4> QED BY <1>3, <3>1, <3>2
      <3> HIDE DEF past
      <3> QED BY <2>2, <3>3 DEF TypeInForce
    <2> QED BY <2>1, <2>2
  <1> HIDE DEF past
  <1> QED BY <1>2, <1>4 DEF Current, past

LEMMA InForce ==
  ASSUME zone \in Zones, time \in Int
  PROVE  OffsetIsInForce
  <1>1. PICK k \in 0..Len(zone.trans) : /\ Splits(GmtTimes(zone), Len(zone.trans), time, k)
                                        /\ Current = TypeInForce(zone, k)
    BY CurrentType
  <1>2. to_local_time(Data(zone), time).tm_gmtoff = TypeInForce(zone, k).gmt_offset
    BY <1>1, LocalTime
  <1> QED BY <1>1, <1>2 DEF OffsetIsInForce

\* The inductive invariant of the times: the day can be numbered.
TimesInv == zone \in Zones /\ time \in Int /\ Day + kJulianDayOf1970_01_01 >= 0

\* It holds at the first time, and later times have later days.
LEMMA TimesInvHolds == SpecWalk => []TimesInv
  <1>1. InitWalk => TimesInv
    <2> SUFFICES ASSUME InitWalk PROVE TimesInv
      OBVIOUS
    <2>1. zone \in Zones /\ time = Clock[zone].first
      BY DEF InitWalk, Init
    <2>2. ZoneAssumption(zone)
      BY <2>1, TimeZoneAssumption
    <2> QED BY <2>1, <2>2 DEF ZoneAssumption, TimesInv, Day
  <1>2. TimesInv /\ [NextWalk]_<<walk, time, zone, today, weekDay, days, left, right>>
          => TimesInv'
    <2> SUFFICES ASSUME TimesInv,
                        [NextWalk]_<<walk, time, zone, today, weekDay, days, left, right>>
                 PROVE  TimesInv'
      OBVIOUS
    <2>1. CASE Tick
      <3> DEFINE tick == Clock[zone].tick
                 t == time
                 u == time'
      <3>1. tick \in Nat /\ t \in Int
        BY TimeZoneAssumption DEF TimesInv, ZoneAssumption
      <3>2. u = t + tick /\ zone' = zone
        BY <2>1 DEF Tick
      <3>3. t \div 86400 + 2440588 >= 0
        BY Epoch DEF TimesInv, Day, kSecondsPerDay
      <3>4. u \in Int /\ u \div 86400 + 2440588 >= 0
        <4> HIDE DEF tick, t, u
        <4> QED BY <3>1, <3>2, <3>3
      <3>5. Day' = u \div 86400
        BY DEF Day, kSecondsPerDay
      <3> HIDE DEF u
      <3>6. (zone \in Zones)' /\ (time \in Int)'
        BY <3>2, <3>4 DEF TimesInv, u
      <3>7. (kJulianDayOf1970_01_01)' = 2440588
        BY Epoch DEF kJulianDayOf1970_01_01, get_julian_day_number
      <3> QED BY <3>4, <3>5, <3>6, Epoch DEF TimesInv
    <2>2. CASE UNCHANGED <<time, zone>>
      BY <2>2 DEF TimesInv, Day
    <2> QED BY <2>1, <2>2 DEF NextWalk, Choose
  <1> QED BY <1>1, <1>2, PTL DEF SpecWalk

\* The fields of every time but for the minute, before 1970 too, are those of its second: in
\* UTC (TimeZone.cc:285) back to the first Julian day, and in every zone, with the offset in
\* force (TimeZone.cc:203).
THEOREM FieldsAreTheTimes == SpecWalk => []FieldsAreRight
  <1>1. TimesInv => FieldsAreRight
    BY UtcOfDay, InForce DEF TimesInv, FieldsAreRight
  <1> QED BY <1>1, TimesInvHolds, PTL

------------------------------------------------------------------------------
\* Two changes of a zone are farther apart than any two of its offsets: so it is in every
\* zone of the tz database, and without it local times are not in the order of time.
ChangesApart(z) ==
    \A i, j \in DOMAIN z.trans, a, b \in DOMAIN z.types :
        i < j => z.types[a].gmt_offset - z.types[b].gmt_offset < z.trans[j].at - z.trans[i].at

\* Of the times between changes k and k + 1, t is shown again after change k + 1.
Again(z, t, k) ==
    /\ k + 1 \in 1..Len(z.trans)
    /\ LocalTimes(z)[k + 1] <= t + TypeInForce(z, k).gmt_offset

\* Change k + 1 ends daylight saving time, by one hour.
Ends(z, k) ==
    /\ TypeInForce(z, k).is_dst /\ ~TypeInForce(z, k + 1).is_dst
    /\ TypeInForce(z, k).gmt_offset = TypeInForce(z, k + 1).gmt_offset + 3600

\* A type in force is one of the file.
LEMMA TypeOfFile ==
  ASSUME NEW z \in Zones, NEW k \in 0..Len(z.trans)
  PROVE  \E i \in DOMAIN z.types : TypeInForce(z, k) = z.types[i]
  <1>1. z.types \in Seq([gmt_offset : Int, is_dst : BOOLEAN]) /\ z.types # <<>>
        /\ z.trans \in Seq([at : Int, type : DOMAIN z.types])
    BY TimeZoneAssumption DEF ZoneAssumption
  <1>2. CASE k = 0
    <2>1. 1 \in DOMAIN z.types
      BY <1>1, EmptySeq
    <2> QED BY <1>2, <2>1 DEF TypeInForce
  <1>3. CASE k # 0
    <2> DEFINE S == [at : Int, type : DOMAIN z.types]
               trans == z.trans
    <2>1. trans \in Seq(S) /\ k \in 1..Len(trans)
      BY <1>1, <1>3, ZoneFile
    <2> HIDE DEF trans, S
    <2>2. trans[k] \in S
      BY ONLY <2>1, ElementOfSeq
    <2>3. z.trans[k].type \in DOMAIN z.types
      BY <2>2 DEF S, trans
    <2> QED BY <1>3, <2>3 DEF TypeInForce
  <1> QED BY <1>2, <1>3

\* Two types in force differ by less than two changes.
LEMMA Apart ==
  ASSUME NEW z \in Zones, ChangesApart(z),
         NEW k \in 0..Len(z.trans), NEW l \in 0..Len(z.trans),
         NEW i \in 1..Len(z.trans), NEW j \in 1..Len(z.trans), i < j
  PROVE  TypeInForce(z, k).gmt_offset - TypeInForce(z, l).gmt_offset
           < GmtTimes(z)[j] - GmtTimes(z)[i]
  <1>1. PICK a \in DOMAIN z.types : TypeInForce(z, k) = z.types[a]
    BY TypeOfFile
  <1>2. PICK b \in DOMAIN z.types : TypeInForce(z, l) = z.types[b]
    BY TypeOfFile
  <1>3. i \in DOMAIN z.trans /\ j \in DOMAIN z.trans
    BY ZoneFile
  <1>4. z.types[a].gmt_offset - z.types[b].gmt_offset < z.trans[j].at - z.trans[i].at
    BY <1>3 DEF ChangesApart
  <1> QED BY <1>1, <1>2, <1>4 DEF GmtTimes

\* Where the changes of a zone are that far apart, its local times are in order too.
LEMMA LocalTimesIncrease ==
  ASSUME NEW z \in Zones, ChangesApart(z)
  PROVE  Increasing(LocalTimes(z), Len(z.trans))
  <1> SUFFICES ASSUME NEW i \in 1..Len(z.trans), NEW j \in 1..Len(z.trans), i < j
               PROVE  LocalTimes(z)[i] < LocalTimes(z)[j]
    BY DEF Increasing
  <1> DEFINE a == GmtTimes(z)[i]
             b == GmtTimes(z)[j]
             o == TypeInForce(z, i).gmt_offset
             p == TypeInForce(z, j).gmt_offset
  <1>1. /\ Len(z.trans) \in Nat /\ GmtTimes(z) \in [1..Len(z.trans) -> Int]
        /\ \A k \in 0..Len(z.trans) : TypeInForce(z, k) \in [gmt_offset : Int, is_dst : BOOLEAN]
    BY ZoneFile
  <1>2. i \in 0..Len(z.trans) /\ j \in 0..Len(z.trans)
    BY <1>1
  <1>3. o \in Int /\ p \in Int /\ a \in Int /\ b \in Int
    BY <1>1, <1>2
  <1>4. o - p < b - a
    BY <1>2, Apart
  <1>5. LocalTimes(z)[i] = a + o /\ LocalTimes(z)[j] = b + p
    BY DEF LocalTimes, GmtTimes
  <1> HIDE DEF a, b, o, p
  <1> QED BY ONLY <1>3, <1>4, <1>5

\* find_local_time by local time.
LEMMA ByLocalTime ==
  ASSUME NEW z \in Zones, ChangesApart(z), NEW t \in Int,
         NEW k \in 0..Len(z.trans), Splits(LocalTimes(z), Len(z.trans), t, k)
  PROVE  find_local_time(Data(z), "local_time", t) = TypeInForce(z, k)
  <1>1. Searches(Data(z), "local_time", LocalTimes(z), Len(z.trans), t, k)
    BY ZoneFile, LocalTimesIncrease DEF Searches
  <1> QED BY <1>1, FoundType

\* A local time is that of the type in force, or, if it is shown again because daylight
\* saving time ends within the hour, that of the next type.
LEMMA LocalIndex ==
  ASSUME NEW z \in Zones, ChangesApart(z), NEW t \in Int,
         NEW k \in 0..Len(z.trans), Splits(GmtTimes(z), Len(z.trans), t, k),
         Again(z, t, k) => Ends(z, k)
  PROVE  LET n == Len(z.trans)
             local == t + TypeInForce(z, k).gmt_offset
         IN  \/ Splits(LocalTimes(z), n, local, k)
             \/ /\ k + 1 \in 1..n
                /\ Splits(LocalTimes(z), n, local, k + 1)
                /\ Splits(GmtTimes(z), n, t + 3600, k + 1)
                /\ Ends(z, k)
  <1> DEFINE n == Len(z.trans)
             G == GmtTimes(z)
             L == LocalTimes(z)
             o(i) == TypeInForce(z, i).gmt_offset
             local == t + o(k)
  <1>1. /\ n \in Nat /\ G \in [1..n -> Int] /\ L \in [1..n -> Int]
        /\ Increasing(G, n) /\ Increasing(L, n)
    BY ZoneFile, LocalTimesIncrease
  <1>2. \A i \in 0..n : o(i) \in Int
    BY ZoneFile
  <1>3. \A i, j \in 0..n : \A h, l \in 1..n : h < l => o(i) - o(j) < G[l] - G[h]
    BY Apart
  <1>4. \A i \in 1..n : L[i] = G[i] + o(i)
    BY DEF LocalTimes, GmtTimes
  <1>5. k + 1 \in 1..n /\ L[k + 1] <= local => Ends(z, k) /\ o(k) = o(k + 1) + 3600
    BY DEF Again, Ends
  <1>6. \A i \in 1..n : G[i] <= t <=> i <= k
    BY DEF Splits
  <1>7. k \in 0..n /\ \A i, j \in 1..n : i < j => L[i] < L[j]
    BY <1>1 DEF Increasing
  <1> HIDE DEF n, G, L, o
  <1>8. ASSUME NEW i \in 1..n, i <= k PROVE L[i] <= local
    <2>1. k \in 1..n /\ G[k] <= t /\ L[k] = G[k] + o(k) /\ G[k] \in Int /\ o(k) \in Int
      BY ONLY <1>1, <1>2, <1>4, <1>6, <1>7, <1>8, i \in 1..n
    <2>2. L[k] <= local /\ L[k] \in Int /\ L[i] \in Int /\ local \in Int
      BY ONLY <1>1, <2>1, t \in Int, i \in 1..n
    <2>3. L[i] <= L[k]
      BY ONLY <1>1, <1>7, <1>8, <2>1, <2>2, i \in 1..n
    <2> QED BY ONLY <2>2, <2>3
  <1>9. ASSUME NEW i \in 1..n, i > k + 1
        PROVE  /\ ~(L[i] <= local)
               /\ o(k) = o(k + 1) + 3600 => G[i] > t + 3600
    <2>1. k + 1 \in 1..n /\ ~(G[k + 1] <= t) /\ G[k + 1] \in Int /\ G[i] \in Int
      BY ONLY <1>1, <1>6, <1>7, <1>9, i \in 1..n
    <2>2. i \in 0..n /\ k + 1 \in 0..n /\ k + 1 < i
      BY ONLY <1>1, <1>7, <1>9, i \in 1..n, <2>1
    <2>3. o(i) \in Int /\ o(k) \in Int /\ o(k + 1) \in Int /\ L[i] = G[i] + o(i)
      BY ONLY <1>2, <1>4, <1>7, <2>2, i \in 1..n
    <2>4. o(k) - o(i) < G[i] - G[k + 1] /\ o(k) - o(k + 1) < G[i] - G[k + 1]
      BY ONLY <1>3, <1>7, <2>1, <2>2, i \in 1..n
    <2>5. ~(G[i] + o(i) <= t + o(k))
      BY ONLY <2>1, <2>3, <2>4, t \in Int
    <2>6. o(k) = o(k + 1) + 3600 => G[i] > t + 3600
      BY ONLY <2>1, <2>3, <2>4, t \in Int
    <2> QED BY <2>3, <2>5, <2>6
  <1>10. CASE k + 1 \in 1..n /\ L[k + 1] <= local
    <2>1. ~(G[k + 1] <= t) /\ G[k + 1] \in Int /\ L[k + 1] = G[k + 1] + o(k + 1)
      BY ONLY <1>1, <1>4, <1>6, <1>7, <1>10
    <2>2. k + 1 \in 0..n
      BY <1>7, <1>10
    <2>3. o(k) \in Int /\ o(k + 1) \in Int /\ o(k) = o(k + 1) + 3600 /\ Ends(z, k)
      BY ONLY <1>2, <1>5, <1>7, <1>10, <2>2
    <2>6. G[k + 1] <= t + 3600
      BY ONLY <1>10, <2>1, <2>3, t \in Int
    <2>7. Splits(L, n, local, k + 1)
      <3> SUFFICES ASSUME NEW i \in 1..n PROVE L[i] <= local <=> i <= k + 1
        BY DEF Splits
      <3>1. CASE i <= k BY <1>7, <1>8, <3>1
      <3>2. CASE i = k + 1 BY <1>7, <1>10, <3>2
      <3>3. CASE i > k + 1 BY <1>7, <1>9, <3>3
      <3> QED BY <1>7, <3>1, <3>2, <3>3
    <2>8. Splits(G, n, t + 3600, k + 1)
      <3> SUFFICES ASSUME NEW i \in 1..n PROVE G[i] <= t + 3600 <=> i <= k + 1
        BY DEF Splits
      <3>0. G[i] \in Int
        BY <1>1
      <3>1. CASE i <= k
        <4>1. G[i] <= t
          BY <1>6, <3>1
        <4> QED BY <1>7, <3>0, <3>1, <4>1
      <3>2. CASE i = k + 1 BY <1>7, <2>6, <3>2
      <3>3. CASE i > k + 1
        <4>1. G[i] > t + 3600
          BY <1>9, <2>3, <3>3
        <4> QED BY <1>7, <3>0, <3>3, <4>1
      <3> QED BY <1>7, <3>1, <3>2, <3>3
    <2> QED BY <1>10, <2>3, <2>7, <2>8 DEF n, G, L, o
  <1>11. CASE ~(k + 1 \in 1..n /\ L[k + 1] <= local)
    <2>1. Splits(L, n, local, k)
      <3> SUFFICES ASSUME NEW i \in 1..n PROVE L[i] <= local <=> i <= k
        BY DEF Splits
      <3>1. CASE i <= k BY <1>7, <1>8, <3>1
      <3>2. CASE i = k + 1 BY <1>7, <1>11, <3>2
      <3>3. CASE i > k + 1 BY <1>7, <1>9, <3>3
      <3> QED BY <1>7, <3>1, <3>2, <3>3
    <2> QED BY <2>1 DEF n, L, o
  <1> QED BY <1>10, <1>11

\* from_local_time gives back what to_local_time was given.
LEMMA RoundTrip ==
  ASSUME NEW z \in Zones, ChangesApart(z), NEW t \in Int,
         NEW k \in 0..Len(z.trans), Splits(GmtTimes(z), Len(z.trans), t, k),
         Again(z, t, k) => Ends(z, k)
  PROVE  from_local_time(Data(z), to_local_time(Data(z), t)) = t
  <1> DEFINE n == Len(z.trans)
             data == Data(z)
  <1>1. k \in 0..n /\ Splits(GmtTimes(z), n, t, k)
    OBVIOUS
  <1> DEFINE type == TypeInForce(z, k)
             next == TypeInForce(z, k + 1)
             o == type.gmt_offset
             local == to_local_time(data, t)
             s == t + o
             found == find_local_time(data, "local_time", s)
             offset == found.gmt_offset
             try == to_local_time(data, s - offset)
             first == type.is_dst /\ ~try.tm_isdst /\ SameHourAndMinute(try, local)
  <1>2. local = [seconds |-> s, tm_isdst |-> type.is_dst, tm_gmtoff |-> o] /\ o \in Int
    BY <1>1, LocalTime, ZoneFile
  <1>3. from_local_time(data, local) = s - (IF first THEN 3600 ELSE 0) - offset
    <2> HIDE DEF data, type, o, s, local
    <2> QED BY <1>2 DEF from_local_time
  <1>4. s \in Int
    BY <1>2
  <1>5. CASE Splits(LocalTimes(z), n, s, k)
    <2>1. found = type
      <3> HIDE DEF s
      <3> QED BY <1>4, <1>5, ByLocalTime
    <2>2. offset = o /\ s - offset = t
      <3> HIDE DEF found, type
      <3> QED BY <1>2, <2>1
    <2>3. try.tm_isdst = type.is_dst
      <3>1. try = local
        BY <2>2
      <3> HIDE DEF try, local, type
      <3> QED BY <1>2, <3>1
    <2>4. ~first
      BY <2>3
    <2> HIDE DEF first, offset, s, local, data
    <2>5. from_local_time(data, local) = t
      BY <1>2, <1>3, <1>4, <2>2, <2>4
    <2> QED BY <2>5 DEF local, data
  <1>6. CASE /\ k + 1 \in 1..n
             /\ Splits(LocalTimes(z), n, s, k + 1)
             /\ Splits(GmtTimes(z), n, t + 3600, k + 1)
             /\ type.is_dst /\ ~next.is_dst
             /\ o = next.gmt_offset + 3600
    <2> DEFINE l == k + 1
               u == t + 3600
    <2>0. l \in 0..n /\ u \in Int
      BY <1>6
    <2>1. found = next
      <3>1. Splits(LocalTimes(z), n, s, l)
        BY <1>6
      <3> HIDE DEF s, l
      <3>2. found = TypeInForce(z, l)
        BY <1>4, <2>0, <3>1, ByLocalTime
      <3> QED BY <3>2 DEF l
    <2>2. next.gmt_offset \in Int /\ offset = next.gmt_offset
      <3>1. TypeInForce(z, l) \in [gmt_offset : Int, is_dst : BOOLEAN]
        BY <2>0, ZoneFile
      <3> QED BY <2>1, <3>1
    <2>3. s - offset = u
      <3> HIDE DEF offset, o, next
      <3> QED BY <1>2, <1>6, <2>2
    <2>4. try = [seconds |-> u + next.gmt_offset, tm_isdst |-> next.is_dst,
                 tm_gmtoff |-> next.gmt_offset]
      <3>1. Splits(GmtTimes(z), n, u, l)
        BY <1>6
      <3> HIDE DEF u, l, n, offset, s, data, next
      <3>2. to_local_time(Data(z), u) =
              [seconds |-> u + TypeInForce(z, l).gmt_offset,
               tm_isdst |-> TypeInForce(z, l).is_dst,
               tm_gmtoff |-> TypeInForce(z, l).gmt_offset]
        BY <2>0, <3>1, LocalTime DEF n
      <3> QED BY <2>3, <3>2 DEF data, next, l
    <2>5. u + next.gmt_offset = s
      <3> HIDE DEF o, next
      <3> QED BY <1>2, <1>6, <2>2
    <2>6. first
      <3>1. try.seconds = s /\ local.seconds = s /\ ~try.tm_isdst
        <4> HIDE DEF try, local, s, u, next
        <4> QED BY <1>2, <1>6, <2>4, <2>5
      <3>2. SameHourAndMinute(try, local)
        <4> HIDE DEF try, local
        <4> QED BY <3>1 DEF SameHourAndMinute
      <3> QED BY <1>6, <3>1, <3>2
    <2>7. s - 3600 - offset = t
      <3>1. offset \in Int
        BY <2>2
      <3> HIDE DEF s, offset
      <3> QED BY <1>4, <2>3, <3>1 DEF u
    <2> HIDE DEF first, offset, s, local, data
    <2>8. from_local_time(data, local) = t
      BY <1>3, <2>6, <2>7
    <2> QED BY <2>8 DEF local, data
  <1> QED BY <1>1, <1>5, <1>6, LocalIndex DEF Ends

\* The next change is the one after the last that is not later.
LEMMA NextIs ==
  ASSUME zone \in Zones, time \in Int, NEW k \in 0..Len(zone.trans),
         Splits(GmtTimes(zone), Len(zone.trans), time, k), Current = TypeInForce(zone, k),
         ShownAgain => SummerEnds
  PROVE  Again(zone, time, k) => Ends(zone, k)
  <1> SUFFICES ASSUME Again(zone, time, k) PROVE Ends(zone, k)
    OBVIOUS
  <1> DEFINE n == Len(zone.trans)
             l == k + 1
  <1>1. n \in Nat /\ DOMAIN zone.trans = 1..n /\ GmtTimes(zone) \in [1..n -> Int]
    BY ZoneFile
  <1>2. l \in 1..n /\ l \in Int
    BY DEF Again
  <1>3. \A i \in 1..n : zone.trans[i].at \in Int /\ (zone.trans[i].at <= time <=> i <= k)
    <2> SUFFICES ASSUME NEW i \in 1..n
                 PROVE  zone.trans[i].at \in Int /\ (zone.trans[i].at <= time <=> i <= k)
      OBVIOUS
    <2>1. GmtTimes(zone)[i] = zone.trans[i].at
      BY DEF GmtTimes
    <2> QED BY <1>1, <2>1 DEF Splits
  <1> HIDE DEF n
  <1>4. \A i : i \in Later <=> i \in 1..n /\ i >= l
    <2>1. \A i \in 1..n : zone.trans[i].at > time <=> i >= l
      BY <1>1, <1>3
    <2> QED BY <1>1, <2>1 DEF Later
  <1>5. Min(Later) = l
    <2>1. l \in Later /\ Later \subseteq Int /\ \A i \in Later : l <= i
      BY <1>2, <1>4
    <2> HIDE DEF l
    <2> QED BY ONLY <2>1, MinIs
  <1>6. Later # {} /\ NextChange = zone.trans[l]
    BY <1>2, <1>4, <1>5 DEF NextChange
  <1>7. NextType = TypeInForce(zone, l)
    <2>1. l # 0
      BY <1>2
    <2> HIDE DEF l
    <2> QED BY <1>6, <2>1 DEF NextType, TypeInForce
  <1>8. LocalTimes(zone)[l] = NextChange.at + NextType.gmt_offset
    <2> HIDE DEF l
    <2> QED BY <1>2, <1>6, <1>7 DEF LocalTimes, n
  <1>9. /\ LocalTimes(zone)[l] \in Int
        /\ TypeInForce(zone, k).gmt_offset \in Int
        /\ LocalTimes(zone)[l] <= time + TypeInForce(zone, k).gmt_offset
    BY <1>2, ZoneFile DEF Again, n
  <1>10. ShownAgain
    <2> DEFINE x == LocalTimes(zone)[l]
               y == time + TypeInForce(zone, k).gmt_offset
    <2>1. x \in Int /\ y \in Int /\ x <= y
      BY <1>9
    <2>2. x = NextChange.at + NextType.gmt_offset /\ y = time + Current.gmt_offset
      BY <1>8
    <2> HIDE DEF x, y
    <2>3. y >= x
      BY ONLY <2>1
    <2> QED BY <1>6, <2>2, <2>3 DEF ShownAgain
  <1> QED BY <1>7, <1>10 DEF SummerEnds, Ends

\* from_local_time gives back every time to_local_time was given, in both of the hours that
\* look the same when daylight saving time ends (TimeZone.cc:279), in every zone whose
\* changes are farther apart than its offsets; but for the times that the clock of the
\* zone shows twice for another reason than a daylight saving time of one hour.
THEOREM LocalTimesGoRound ==
  ASSUME \A z \in Zones : ChangesApart(z)
  PROVE  SpecWalk => []LocalRoundTrip
  <1>1. ASSUME TimesInv, ShownAgain => SummerEnds
        PROVE  from_local_time(Data(zone), to_local_time(Data(zone), time)) = time
    <2>1. zone \in Zones /\ time \in Int /\ ChangesApart(zone)
      BY <1>1 DEF TimesInv
    <2>2. PICK k \in 0..Len(zone.trans) : /\ Splits(GmtTimes(zone), Len(zone.trans), time, k)
                                          /\ Current = TypeInForce(zone, k)
      BY <2>1, CurrentType
    <2>3. Again(zone, time, k) => Ends(zone, k)
      BY <1>1, <2>1, <2>2, NextIs
    <2> QED BY <2>1, <2>2, <2>3, RoundTrip
  <1>2. TimesInv => LocalRoundTrip
    BY <1>1 DEF LocalRoundTrip
  <1> QED BY <1>2, TimesInvHolds, PTL

------------------------------------------------------------------------------
(* Strings. *)

\* a and b are the same up to n, or differ at i first.
SameTo(a, b, n) == \A i \in 1..n : a[i] = b[i]
DifferAt(a, b, n, i) == i \in 1..n /\ SameTo(a, b, i - 1) /\ a[i] # b[i]

\* memcmp is 0 where nothing differs, and else has the sign of the first byte that does.
LEMMA SameOrDiffer ==
  ASSUME NEW a \in Seq(Int), NEW b \in Seq(Int), NEW n \in Nat, n <= Len(a), n <= Len(b)
  PROVE  \/ SameTo(a, b, n) /\ Piece!memcmp(a, b, n) = 0
         \/ \E i \in 1..n :
              /\ DifferAt(a, b, n, i)
              /\ Piece!memcmp(a, b, n) = IF a[i] < b[i] THEN -1 ELSE 1
  <1> DEFINE differ == {i \in 1..n : a[i] # b[i]}
             first == Piece!Min(differ)
  <1>1. Piece!memcmp(a, b, n) =
          IF differ = {} THEN 0 ELSE IF a[first] < b[first] THEN -1 ELSE 1
    BY DEF Piece!memcmp
  <1>2. CASE differ = {}
    <2>1. SameTo(a, b, n)
      BY <1>2 DEF SameTo
    <2> HIDE DEF differ, first
    <2> QED BY <1>1, <1>2, <2>1
  <1>3. CASE differ # {}
    <2>1. PICK i \in differ : \A j \in differ : i <= j
      <3>1. differ \subseteq Nat
        OBVIOUS
      <3> HIDE DEF differ
      <3> QED BY <1>3, <3>1, LeastNumber
    <2>2. first = i
      <3>1. differ \subseteq Int
        OBVIOUS
      <3>2. first = Min(differ)
        BY DEF Piece!Min, Min
      <3> HIDE DEF differ, first
      <3> QED BY <2>1, <3>1, <3>2, MinIs
    <2>3. DifferAt(a, b, n, i)
      <3>1. ASSUME NEW j \in 1..(i - 1) PROVE a[j] = b[j]
        <4>1. i \in 1..n
          OBVIOUS
        <4>2. j \in 1..n /\ ~(i <= j)
          BY ONLY <4>1, n \in Nat, j \in 1..(i - 1)
        <4>3. j \notin differ
          <5> HIDE DEF differ
          <5> QED BY <2>1, <4>2
        <4> QED BY <4>2, <4>3
      <3> QED BY <2>1, <3>1 DEF DifferAt, SameTo
    <2>4. i \in 1..n
      BY <2>3 DEF DifferAt
    <2> HIDE DEF differ, first
    <2> QED BY <1>1, <1>3, <2>2, <2>3, <2>4
  <1> QED BY <1>2, <1>3

\* Two beginnings of the same length are equal where no byte differs.
LEMMA SamePrefix ==
  ASSUME NEW S, NEW a \in Seq(S), NEW b \in Seq(S), NEW n \in Nat, n <= Len(a), n <= Len(b)
  PROVE  SubSeq(a, 1, n) = SubSeq(b, 1, n) <=> SameTo(a, b, n)
  <1> DEFINE s == SubSeq(a, 1, n)
             t == SubSeq(b, 1, n)
  <1>1. \A i \in 1..n : a[i] \in S /\ b[i] \in S
    BY ElementOfSeq
  <1>2. s \in Seq(S) /\ Len(s) = n /\ \A i \in 1..n : s[i] = a[i]
    <2>1. 1 \in Int /\ n \in Int /\ \A i \in 1..n : a[i] \in S
      BY <1>1
    <2>2. /\ s \in Seq(S) /\ Len(s) = (IF 1 <= n THEN n - 1 + 1 ELSE 0)
          /\ \A i \in 1..n - 1 + 1 : s[i] = a[1 + i - 1]
      BY ONLY <2>1, SubSeqProperties
    <2> HIDE DEF s
    <2> QED BY <2>2
  <1>3. t \in Seq(S) /\ Len(t) = n /\ \A i \in 1..n : t[i] = b[i]
    <2>1. 1 \in Int /\ n \in Int /\ \A i \in 1..n : b[i] \in S
      BY <1>1
    <2>2. /\ t \in Seq(S) /\ Len(t) = (IF 1 <= n THEN n - 1 + 1 ELSE 0)
          /\ \A i \in 1..n - 1 + 1 : t[i] = b[1 + i - 1]
      BY ONLY <2>1, SubSeqProperties
    <2> HIDE DEF t
    <2> QED BY <2>2
  <1> HIDE DEF s, t
  <1>4. ASSUME s = t PROVE SameTo(a, b, n)
    BY <1>2, <1>3, <1>4 DEF SameTo
  <1>5. ASSUME SameTo(a, b, n) PROVE s = t
    <2>1. Len(s) = Len(t) /\ \A i \in 1..Len(s) : s[i] = t[i]
      BY <1>2, <1>3, <1>5 DEF SameTo
    <2> QED BY ONLY <1>2, <1>3, <2>1, SeqEqual
  <1> QED BY <1>4, <1>5 DEF s, t

\* Two strings are equal where their lengths are and no byte differs.
LEMMA SameSequence ==
  ASSUME NEW S, NEW a \in Seq(S), NEW b \in Seq(S)
  PROVE  a = b <=> Len(a) = Len(b) /\ SameTo(a, b, Len(a))
  <1>1. ASSUME Len(a) = Len(b), SameTo(a, b, Len(a)) PROVE a = b
    BY <1>1, SeqEqual DEF SameTo
  <1> QED BY <1>1 DEF SameTo

\* The common part of two strings, and what the orders make of it.
LEMMA Orders ==
  ASSUME NEW a \in Seq(Int), NEW b \in Seq(Int),
         NEW n \in Nat, n <= Len(a), n <= Len(b), n = Len(a) \/ n = Len(b)
  PROVE  /\ Piece!CommonPart(a, b) = Piece!memcmp(a, b, n)
         /\ Piece!IsStrictPrefix(a, b) <=> Len(a) < Len(b) /\ SameTo(a, b, n)
         /\ Piece!ComesBefore(a, b) <=>
              \/ Len(a) < Len(b) /\ SameTo(a, b, n)
              \/ \E i \in 1..n : SameTo(a, b, i - 1) /\ a[i] < b[i]
  <1>0. Len(a) \in Nat /\ Len(b) \in Nat
    OBVIOUS
  <1>1. Piece!Min({Len(a), Len(b)}) = n
    <2> DEFINE S == {Len(a), Len(b)}
    <2>1. S \subseteq Int /\ n \in S /\ \A x \in S : n <= x
      BY <1>0
    <2> HIDE DEF S
    <2>2. Min(S) = n
      BY <2>1, MinIs
    <2> QED BY <2>2 DEF S, Min, Piece!Min
  <1>2. Piece!CommonPart(a, b) = Piece!memcmp(a, b, n)
    BY <1>1 DEF Piece!CommonPart, Piece!size
  <1>3. Piece!IsStrictPrefix(a, b) <=> Len(a) < Len(b) /\ SameTo(a, b, n)
    <2>1. CASE Len(a) <= Len(b)
      <3>1. n = Len(a)
        BY <1>0, <2>1
      <3>2. SubSeq(a, 1, n) = SubSeq(b, 1, n) <=> SameTo(a, b, n)
        BY SamePrefix
      <3>3. a = b <=> Len(a) = Len(b) /\ SameTo(a, b, n)
        BY <3>1, SameSequence
      <3> QED BY <1>0, <2>1, <3>1, <3>2, <3>3 DEF Piece!IsStrictPrefix, Piece!IsPrefix
    <2>2. CASE ~(Len(a) <= Len(b))
      BY <1>0, <2>2 DEF Piece!IsStrictPrefix, Piece!IsPrefix
    <2> QED BY <2>1, <2>2
  <1>4. ASSUME NEW i \in 1..n
        PROVE  SubSeq(a, 1, i - 1) = SubSeq(b, 1, i - 1) <=> SameTo(a, b, i - 1)
    <2> DEFINE k == i - 1
    <2>1. k \in Nat /\ k <= Len(a) /\ k <= Len(b)
      BY <1>0
    <2> HIDE DEF k
    <2>2. SubSeq(a, 1, k) = SubSeq(b, 1, k) <=> SameTo(a, b, k)
      BY <2>1, SamePrefix
    <2> QED BY <2>2 DEF k
  <1>5. Piece!ComesBefore(a, b) <=>
              \/ Len(a) < Len(b) /\ SameTo(a, b, n)
              \/ \E i \in 1..n : SameTo(a, b, i - 1) /\ a[i] < b[i]
    BY <1>1, <1>3, <1>4 DEF Piece!ComesBefore
  <1> QED BY <1>2, <1>3, <1>5

\* start_with, by the beginning of a and by what remove_prefix leaves of it.
LEMMA StartWith ==
  ASSUME NEW a \in Seq(Int), NEW b \in Seq(Int)
  PROVE  /\ Piece!start_with(a, b) <=>
              Len(b) <= Len(a) /\ a = b \o Piece!remove_prefix(a, Len(b))
         /\ Piece!start_with(a, b) <=>
              Len(b) <= Len(a) /\ b = Piece!remove_suffix(a, Len(a) - Len(b))
  <1> DEFINE n == Len(b)
             m == Len(a)
             s == SubSeq(a, 1, n)
             t == SubSeq(a, n + 1, m)
             u == b \o t
  <1>1. n \in Nat /\ m \in Nat
    OBVIOUS
  <1>2. CASE ~(n <= m)
    BY <1>2 DEF Piece!start_with, Piece!size
  <1>3. CASE n <= m
    <2>1. Piece!start_with(a, b) <=> SameTo(a, b, n)
      <3>1. Piece!start_with(a, b) <=> Piece!memcmp(a, b, n) = 0
        BY <1>1, <1>3 DEF Piece!start_with, Piece!size
      <3>2. \/ SameTo(a, b, n) /\ Piece!memcmp(a, b, n) = 0
            \/ \E i \in 1..n :
                 /\ DifferAt(a, b, n, i)
                 /\ Piece!memcmp(a, b, n) = IF a[i] < b[i] THEN -1 ELSE 1
        <4>1. n \in Nat /\ n <= Len(a) /\ n <= Len(b)
          BY <1>1, <1>3
        <4> HIDE DEF n
        <4> QED BY <4>1, SameOrDiffer
      <3> HIDE DEF n
      <3> QED BY <3>1, <3>2 DEF SameTo, DifferAt
    <2>2. \A i \in 1..m : a[i] \in Int
      BY ElementOfSeq
    <2>3. /\ t \in Seq(Int) /\ Len(t) = m - n
          /\ \A i \in 1..(m - n) : t[i] = a[n + i]
      <3> DEFINE p == n + 1
      <3>1. p \in Int /\ m \in Int /\ p = n + 1 /\ \A i \in p..m : a[i] \in Int
        BY <1>1, <1>3, <2>2
      <3> HIDE DEF n, m, p
      <3>2. /\ SubSeq(a, p, m) \in Seq(Int)
            /\ Len(SubSeq(a, p, m)) = (IF p <= m THEN m - p + 1 ELSE 0)
            /\ \A i \in 1..m - p + 1 : SubSeq(a, p, m)[i] = a[p + i - 1]
        BY ONLY <3>1, SubSeqProperties
      <3>3. t = SubSeq(a, p, m)
        BY DEF p
      <3> HIDE DEF t
      <3>4. Len(t) = m - n
        BY <1>1, <1>3, <3>1, <3>2, <3>3
      <3>5. ASSUME NEW i \in 1..(m - n) PROVE t[i] = a[n + i]
        <4>1. i \in 1..m - p + 1 /\ p + i - 1 = n + i
          BY <1>1, <3>1
        <4> QED BY <3>2, <3>3, <4>1
      <3> QED BY <3>2, <3>3, <3>4, <3>5
    <2>4. /\ u \in Seq(Int) /\ Len(u) = n + (m - n)
          /\ \A i \in 1..n + (m - n) : u[i] = IF i <= n THEN b[i] ELSE t[i - n]
      <3>1. t \in Seq(Int) /\ Len(t) = m - n
        BY <2>3
      <3> HIDE DEF t, m
      <3> QED BY <3>1, ConcatProperties
    <2>5. n + (m - n) = m
      BY <1>1
    <2>6. a = u <=> SameTo(a, u, m)
      <3>1. u \in Seq(Int) /\ Len(u) = Len(a)
        BY <2>4, <2>5
      <3> HIDE DEF u
      <3> QED BY <3>1, SameSequence
    <2>7. SameTo(a, u, m) <=> SameTo(a, b, n)
      <3> HIDE DEF u, t, m, n
      <3>1. ASSUME SameTo(a, u, m), NEW i \in 1..n PROVE a[i] = b[i]
        <4>1. i \in 1..m /\ i <= n
          BY <1>1, <1>3
        <4> QED BY <2>4, <2>5, <3>1, <4>1 DEF SameTo
      <3>2. ASSUME SameTo(a, b, n), NEW i \in 1..m PROVE a[i] = u[i]
        <4>1. CASE i <= n
          <5>1. i \in 1..n
            BY <1>1, <4>1
          <5> QED BY <2>4, <2>5, <3>2, <4>1, <5>1 DEF SameTo
        <4>2. CASE ~(i <= n)
          <5>1. i - n \in 1..(m - n) /\ n + (i - n) = i
            BY <1>1, <4>2
          <5>2. u[i] = t[i - n]
            BY <2>4, <2>5, <4>2
          <5> QED BY <2>3, <5>1, <5>2
        <4> QED BY <4>1, <4>2
      <3> QED BY <3>1, <3>2 DEF SameTo
    <2>8. b = s <=> SameTo(a, b, n)
      <3>1. SubSeq(a, 1, n) = SubSeq(b, 1, n) <=> SameTo(a, b, n)
        <4>1. n \in Nat /\ n <= Len(a) /\ n <= Len(b)
          BY <1>1, <1>3
        <4> HIDE DEF n
        <4> QED BY <4>1, SamePrefix
      <3>2. SubSeq(b, 1, n) = b
        BY SubSeqFull
      <3> QED BY <3>1, <3>2
    <2>9. Piece!remove_prefix(a, Len(b)) = t
      BY DEF Piece!remove_prefix
    <2>10. Piece!remove_suffix(a, Len(a) - Len(b)) = s
      <3>1. Len(a) - (Len(a) - Len(b)) = Len(b)
        BY <1>1
      <3> QED BY <3>1 DEF Piece!remove_suffix
    <2> HIDE DEF s, t
    <2> QED BY <1>3, <2>1, <2>6, <2>7, <2>8, <2>9, <2>10
  <1> QED BY <1>2, <1>3

\* The six orders where the common part is the same, and where it differs.
LEMMA TotalOrder ==
  ASSUME NEW a \in Seq(Int), NEW b \in Seq(Int)
  PROVE  Piece!OrdersAgree(a, b)
  <1> DEFINE la == Len(a)
             lb == Len(b)
             n == IF la <= lb THEN la ELSE lb
             c == Piece!CommonPart(a, b)
             d == Piece!CommonPart(b, a)
  <1>1. /\ la \in Nat /\ lb \in Nat /\ n \in Nat /\ n <= la /\ n <= lb
        /\ (n = la \/ n = lb) /\ (la <= lb => n = la) /\ (lb <= la => n = lb)
    <2>1. la \in Nat /\ lb \in Nat
      OBVIOUS
    <2> HIDE DEF la, lb
    <2> QED BY <2>1
  <1> HIDE DEF n
  <1>2. /\ c = Piece!memcmp(a, b, n)
        /\ Piece!ComesBefore(a, b) <=>
              \/ la < lb /\ SameTo(a, b, n)
              \/ \E i \in 1..n : SameTo(a, b, i - 1) /\ a[i] < b[i]
    BY <1>1, Orders
  <1>3. /\ d = Piece!memcmp(b, a, n)
        /\ Piece!ComesBefore(b, a) <=>
              \/ lb < la /\ SameTo(b, a, n)
              \/ \E i \in 1..n : SameTo(b, a, i - 1) /\ b[i] < a[i]
    BY <1>1, Orders
  <1>4. \/ SameTo(a, b, n) /\ c = 0
        \/ \E i \in 1..n : DifferAt(a, b, n, i) /\ c = IF a[i] < b[i] THEN -1 ELSE 1
    BY <1>1, <1>2, SameOrDiffer
  <1>5. \A i \in 1..n : a[i] \in Int /\ b[i] \in Int
    <2>1. \A i \in 1..n : i \in 1..la /\ i \in 1..lb
      <3> HIDE DEF la, lb
      <3> QED BY <1>1
    <2> QED BY <2>1, ElementOfSeq
  <1>6. a = b <=> la = lb /\ SameTo(a, b, la)
    BY SameSequence
  <1>7. Piece!Equal(a, b) <=> a = b
    <2>1. CASE la = lb
      <3>1. n = la
        BY <1>1, <2>1
      <3>2. Piece!Equal(a, b) <=> c = 0
        BY <1>2, <2>1, <3>1 DEF Piece!Equal, Piece!size
      <3> HIDE DEF la, lb, c
      <3> QED BY <1>4, <1>6, <2>1, <3>1, <3>2 DEF SameTo, DifferAt
    <2>2. CASE la # lb
      BY <1>6, <2>2 DEF Piece!Equal, Piece!size
    <2> QED BY <2>1, <2>2
  <1>8. /\ Piece!Less(a, b) <=> c < 0 \/ (c = 0 /\ la < lb)
        /\ Piece!Greater(a, b) <=> c > 0 \/ (c = 0 /\ la > lb)
        /\ Piece!LessOrEqual(a, b) <=> c < 0 \/ (c = 0 /\ la <= lb)
        /\ Piece!GreaterOrEqual(a, b) <=> c > 0 \/ (c = 0 /\ la >= lb)
    BY DEF Piece!Less, Piece!Greater, Piece!LessOrEqual, Piece!GreaterOrEqual, Piece!size
  <1>9. Piece!compare(a, b) =
          CASE c # 0 -> c
            [] c = 0 /\ la < lb -> -1
            [] c = 0 /\ la > lb -> 1
            [] OTHER -> 0
    BY DEF Piece!compare, Piece!size
  <1>10. c \in {-1, 0, 1}
    <2> HIDE DEF c
    <2> QED BY <1>4
  <1> DEFINE Prefix(x, y) == \E i \in 1..n : SameTo(x, y, i - 1) /\ x[i] < y[i]
  <1>11. CASE SameTo(a, b, n) /\ c = 0
    <2>1. SameTo(b, a, n) /\ ~Prefix(a, b) /\ ~Prefix(b, a)
      <3>1. \A i \in 1..n : a[i] = b[i]
        BY <1>11 DEF SameTo
      <3> QED BY <1>5, <3>1 DEF SameTo
    <2>2. /\ Piece!ComesBefore(a, b) <=> la < lb
          /\ Piece!ComesBefore(b, a) <=> lb < la
      BY <1>2, <1>3, <1>11, <2>1
    <2>3. /\ Piece!Less(a, b) <=> Piece!ComesBefore(a, b)
          /\ Piece!Greater(a, b) <=> Piece!ComesBefore(b, a)
          /\ Piece!LessOrEqual(a, b) <=> ~Piece!Greater(a, b)
          /\ Piece!GreaterOrEqual(a, b) <=> ~Piece!Less(a, b)
          /\ Piece!compare(a, b) =
               (IF Piece!Less(a, b) THEN -1 ELSE IF Piece!Greater(a, b) THEN 1 ELSE 0)
      <3> HIDE DEF la, lb, c
      <3> QED BY <1>1, <1>8, <1>9, <1>11, <2>2
    <2> QED BY <1>7, <2>3, StartWith DEF Piece!OrdersAgree, Piece!size
  <1>12. ASSUME NEW i \in 1..n, DifferAt(a, b, n, i), c = IF a[i] < b[i] THEN -1 ELSE 1
         PROVE  Piece!OrdersAgree(a, b)
    <2>1. a[i] \in Int /\ b[i] \in Int /\ a[i] # b[i]
      BY <1>5, <1>12 DEF DifferAt
    <2>2. ~SameTo(a, b, n) /\ ~SameTo(b, a, n)
      BY <2>1 DEF SameTo
    <2>3. ASSUME NEW j \in 1..n PROVE /\ SameTo(a, b, j - 1) => j <= i
                                      /\ SameTo(b, a, j - 1) => j <= i
                                      /\ j < i => a[j] = b[j]
      <3>1. ~(j <= i) => i \in 1..(j - 1)
        BY <1>1
      <3>2. j < i => j \in 1..(i - 1)
        BY <1>1
      <3> QED BY <1>12, <2>1, <3>1, <3>2 DEF SameTo, DifferAt
    <2>4. SameTo(a, b, i - 1) /\ SameTo(b, a, i - 1)
      BY <1>12 DEF DifferAt, SameTo
    <2>5. Prefix(a, b) <=> a[i] < b[i]
      <3>1. ASSUME NEW j \in 1..n, SameTo(a, b, j - 1), a[j] < b[j] PROVE j = i
        <4>1. j <= i /\ (j < i => a[j] = b[j]) /\ a[j] \in Int
          BY <1>5, <2>3, <3>1
        <4> QED BY <1>1, <3>1, <4>1
      <3> QED BY <2>4, <3>1
    <2>6. Prefix(b, a) <=> b[i] < a[i]
      <3>1. ASSUME NEW j \in 1..n, SameTo(b, a, j - 1), b[j] < a[j] PROVE j = i
        <4>1. j <= i /\ (j < i => a[j] = b[j]) /\ b[j] \in Int
          BY <1>5, <2>3, <3>1
        <4> QED BY <1>1, <3>1, <4>1
      <3> QED BY <2>4, <3>1
    <2>7. /\ Piece!ComesBefore(a, b) <=> a[i] < b[i]
          /\ Piece!ComesBefore(b, a) <=> b[i] < a[i]
      <3> HIDE DEF Prefix
      <3>1. /\ Piece!ComesBefore(a, b) <=> (la < lb /\ SameTo(a, b, n)) \/ Prefix(a, b)
            /\ Piece!ComesBefore(b, a) <=> (lb < la /\ SameTo(b, a, n)) \/ Prefix(b, a)
        BY <1>2, <1>3 DEF Prefix
      <3> QED BY <2>2, <2>5, <2>6, <3>1
    <2>8. /\ Piece!Less(a, b) <=> Piece!ComesBefore(a, b)
          /\ Piece!Greater(a, b) <=> Piece!ComesBefore(b, a)
          /\ Piece!LessOrEqual(a, b) <=> ~Piece!Greater(a, b)
          /\ Piece!GreaterOrEqual(a, b) <=> ~Piece!Less(a, b)
          /\ Piece!compare(a, b) =
               (IF Piece!Less(a, b) THEN -1 ELSE IF Piece!Greater(a, b) THEN 1 ELSE 0)
      <3> HIDE DEF la, lb, c
      <3>1. IF a[i] < b[i] THEN c = -1 /\ ~(b[i] < a[i]) ELSE c = 1 /\ b[i] < a[i]
        BY ONLY <1>12, <2>1
      <3> QED BY <1>8, <1>9, <2>7, <3>1
    <2> QED BY <1>7, <2>8, StartWith DEF Piece!OrdersAgree, Piece!size
  <1> QED BY <1>4, <1>11, <1>12

------------------------------------------------------------------------------
(* What is chosen. *)

\* The inductive invariant of the strings and of the names.
ChosenInv ==
    /\ walk \in {"times", "days", "strings", "names"}
    /\ walk = "strings" => left \in Seq(Bytes) /\ right \in Seq(Bytes)
    /\ walk = "names" => left \in Seq(Words) /\ right \in Seq(Words)

\* What is chosen is a sequence.
LEMMA TextsAreSequences ==
  ASSUME NEW S, NEW t \in Texts(S)
  PROVE  t \in Seq(S)
  <1>1. PICK length \in 0..MaxLength : t \in [1..length -> S]
    BY DEF Texts
  <1>2. length \in Nat
    BY TextAssumption
  <1> QED BY <1>1, <1>2

\* It holds where nothing is chosen, and every choice preserves it.
LEMMA ChosenInvHolds == SpecWalk => []ChosenInv
  <1> DEFINE wvars == <<walk, time, zone, today, weekDay, days, left, right>>
  <1>1. InitWalk => ChosenInv
    BY DEF InitWalk, ChosenInv
  <1>2. ChosenInv /\ [NextWalk]_wvars => ChosenInv'
    <2> SUFFICES ASSUME ChosenInv, [NextWalk]_wvars PROVE ChosenInv'
      OBVIOUS
    <2>1. CASE walk = "strings" /\ Choose(Bytes)
      BY <2>1, TextsAreSequences DEF ChosenInv, Choose
    <2>2. CASE walk = "names" /\ Choose(Words)
      BY <2>2, TextsAreSequences DEF ChosenInv, Choose
    <2>3. CASE UNCHANGED <<walk, left, right>>
      BY <2>3 DEF ChosenInv
    <2> QED BY <2>1, <2>2, <2>3 DEF NextWalk
  <1> QED BY <1>1, <1>2, PTL DEF SpecWalk

\* For strings of any bytes and of any length: the five predicates and compare() are one
\* total order, that of a dictionary, and start_with() finds what remove_prefix() takes
\* away (StringPiece.h:67-115).
THEOREM StringsAreOrdered == SpecWalk => []OrderIsTotal
  <1>1. ChosenInv => OrderIsTotal
    <2> SUFFICES ASSUME ChosenInv, walk = "strings" PROVE Piece!OrdersAgree(left, right)
      BY DEF OrderIsTotal
    <2>1. Seq(Bytes) \subseteq Seq(Int)
      BY TextAssumption, SeqMonotonic
    <2> QED BY <2>1, TotalOrder DEF ChosenInv
  <1> QED BY <1>1, ChosenInvHolds, PTL

------------------------------------------------------------------------------
(* Names. *)

\* What is where in a text with a name in it.
Surrounds(text, a, name, b) ==
    /\ Len(text) = (Len(a) + Len(name)) + Len(b)
    /\ \A i \in 1..Len(a) : text[i] = a[i]
    /\ \A i \in 1..Len(name) : text[Len(a) + i] = name[i]
    /\ \A i \in 1..Len(b) : text[(Len(a) + Len(name)) + i] = b[i]

\* The words around a name, and those of it, are where they were put.
LEMMA Around ==
  ASSUME NEW S, NEW a \in Seq(S), NEW name \in Seq(S), NEW b \in Seq(S)
  PROVE  a \o name \o b \in Seq(S) /\ Surrounds(a \o name \o b, a, name, b)
  <1> DEFINE h == a \o name
             text == h \o b
             l == Len(a)
             k == Len(name)
             j == Len(b)
  <1>1. /\ h \in Seq(S) /\ Len(h) = l + k
        /\ \A i \in 1..l + k : h[i] = IF i <= l THEN a[i] ELSE name[i - l]
    BY ConcatProperties
  <1>2. l \in Nat /\ k \in Nat /\ j \in Nat
    OBVIOUS
  <1>3. /\ text \in Seq(S) /\ Len(text) = (l + k) + j
        /\ \A i \in 1..(l + k) + j : text[i] = IF i <= l + k THEN h[i] ELSE b[i - (l + k)]
    <2> HIDE DEF h
    <2>1. /\ text \in Seq(S) /\ Len(text) = Len(h) + j
          /\ \A i \in 1..Len(h) + j : text[i] = IF i <= Len(h) THEN h[i] ELSE b[i - Len(h)]
      <3>1. h \in Seq(S)
        BY <1>1
      <3> QED BY ONLY <3>1, b \in Seq(S), ConcatProperties
    <2> HIDE DEF text
    <2> QED BY <1>1, <2>1
  <1> HIDE DEF l, k, j, h, text
  <1>4. ASSUME NEW i \in 1..l PROVE text[i] = a[i]
    BY <1>1, <1>2, <1>3
  <1>5. ASSUME NEW i \in 1..k PROVE text[l + i] = name[i]
    <2>1. l + i \in 1..(l + k) /\ l + i \in 1..(l + k) + j /\ ~(l + i <= l) /\ (l + i) - l = i
          /\ l + i <= l + k
      BY <1>2
    <2> QED BY <1>1, <1>3, <2>1
  <1>6. ASSUME NEW i \in 1..j PROVE text[(l + k) + i] = b[i]
    <2>1. (l + k) + i \in 1..(l + k) + j /\ ~((l + k) + i <= l + k) /\ ((l + k) + i) - (l + k) = i
      BY <1>2
    <2> QED BY <1>3, <2>1
  <1>7. text \in Seq(S) /\ Surrounds(text, a, name, b)
    BY <1>3, <1>4, <1>5, <1>6 DEF Surrounds, l, k, j
  <1> QED BY <1>7 DEF h, text

\* proc_name() takes what is between the first opening bracket, which comes before the
\* name, and the last closing one, which comes after it.
LEMMA NameIsFound ==
  ASSUME NEW S, NEW name \in Seq(S), {"pid", "(", ")", "state", "ppid"} \subseteq S
  PROVE  Process!proc_name(Process!Stat(name)) = name
  <1> DEFINE a == <<"pid", "(">>
             b == <<")", "state", "ppid">>
             text == Process!Stat(name)
             n == Len(name)
             open == Process!Places(text, "(")
             close == Process!Places(text, ")")
  <1>1. n \in Nat
    OBVIOUS
  <1>0. "pid" \in S /\ "(" \in S /\ ")" \in S /\ "state" \in S /\ "ppid" \in S
    OBVIOUS
  <1>2. a \in Seq(S) /\ Len(a) = 2 /\ a[1] = "pid" /\ a[2] = "("
    BY ONLY <1>0
  <1>3. b \in Seq(S) /\ Len(b) = 3 /\ b[1] = ")" /\ b[2] = "state" /\ b[3] = "ppid"
    BY ONLY <1>0
  <1>4. text = a \o name \o b
    BY DEF Process!Stat
  <1> HIDE DEF a, b, text
  <1>5. /\ text \in Seq(S) /\ Len(text) = (2 + n) + 3
        /\ \A i \in 1..2 : text[i] = a[i]
        /\ \A i \in 1..n : text[2 + i] = name[i]
        /\ \A i \in 1..3 : text[(2 + n) + i] = b[i]
    <2>1. a \o name \o b \in Seq(S) /\ Surrounds(a \o name \o b, a, name, b)
      BY <1>2, <1>3, Around
    <2>2. text \in Seq(S) /\ Surrounds(text, a, name, b)
      BY <1>4, <2>1
    <2> QED BY <1>2, <1>3, <2>2 DEF Surrounds
  <1> HIDE DEF n
  <1>6. /\ text[1] = "pid" /\ text[2] = "("
        /\ text[n + 3] = ")" /\ text[n + 4] = "state" /\ text[n + 5] = "ppid"
    <2>1. (2 + n) + 1 = n + 3 /\ (2 + n) + 2 = n + 4 /\ (2 + n) + 3 = n + 5
      BY <1>1
    <2> QED BY <1>2, <1>3, <1>5, <2>1
  <1>7. DOMAIN text = 1..(n + 5)
    <2>1. (2 + n) + 3 = n + 5
      BY <1>1
    <2> QED BY <1>5, <2>1
  <1>8. /\ open \subseteq Int /\ 2 \in open /\ \A i \in open : 2 <= i
    <2>1. ASSUME NEW i \in open PROVE 2 <= i
      <3>1. i \in 1..(n + 5) /\ text[i] = "("
        BY <1>7 DEF Process!Places
      <3>2. i # 1
        BY <1>6, <3>1
      <3> QED BY <1>1, <3>1, <3>2
    <2>2. open \subseteq Int
      BY <1>7 DEF Process!Places
    <2>3. 2 \in 1..(n + 5)
      BY <1>1
    <2> QED BY <1>6, <1>7, <2>1, <2>2, <2>3 DEF Process!Places
  <1>9. /\ close \subseteq Int /\ n + 3 \in close /\ \A i \in close : n + 3 >= i
    <2>1. ASSUME NEW i \in close PROVE n + 3 >= i
      <3>1. i \in 1..(n + 5) /\ text[i] = ")"
        BY <1>7 DEF Process!Places
      <3>2. i # n + 4 /\ i # n + 5
        BY <1>6, <3>1
      <3> QED BY <1>1, <3>1, <3>2
    <2>2. close \subseteq Int
      BY <1>7 DEF Process!Places
    <2>3. n + 3 \in 1..(n + 5)
      BY <1>1
    <2> QED BY <1>6, <1>7, <2>1, <2>2, <2>3 DEF Process!Places
  <1> HIDE DEF open, close
  <1>10. Process!Min(open) = 2
    <2>1. Process!Min(open) = Min(open)
      BY DEF Process!Min, Min
    <2> QED BY <1>8, <2>1, MinIs
  <1>11. Process!Max(close) = n + 3
    <2>1. Process!Max(close) = Max(close)
      BY DEF Process!Max, Max
    <2> DEFINE m == n + 3
    <2>2. close \subseteq Int /\ m \in close /\ \A i \in close : m >= i
      BY <1>9
    <2> HIDE DEF m
    <2>3. Max(close) = m
      BY <2>2, MaxIs
    <2> QED BY <2>1, <2>3 DEF m
  <1>12. Process!proc_name(text) = SubSeq(text, 3, n + 2)
    <2>1. open # {} /\ close # {} /\ 2 < n + 3 /\ 2 + 1 = 3 /\ (n + 3) - 1 = n + 2
      BY <1>1, <1>8, <1>9
    <2>2. Process!proc_name(text) =
            IF open # {} /\ close # {} /\ Process!Min(open) < Process!Max(close)
            THEN SubSeq(text, Process!Min(open) + 1, Process!Max(close) - 1) ELSE <<>>
      BY DEF Process!proc_name, open, close
    <2> QED BY <1>10, <1>11, <2>1, <2>2
  <1>13. SubSeq(text, 3, n + 2) = name
    <2> DEFINE m == n + 2
               s == SubSeq(text, 3, m)
    <2>1. \A i \in 3..m : text[i] \in S
      <3>1. \A i \in 3..m : i \in 1..Len(text)
        BY <1>1, <1>5
      <3> QED BY <1>5, <3>1, ElementOfSeq
    <2>2. m \in Int /\ m - 3 + 1 = n /\ (IF 3 <= m THEN m - 3 + 1 ELSE 0) = n
      BY <1>1
    <2>3. /\ s \in Seq(S) /\ Len(s) = (IF 3 <= m THEN m - 3 + 1 ELSE 0)
          /\ \A i \in 1..m - 3 + 1 : s[i] = text[3 + i - 1]
      <3> HIDE DEF m
      <3> QED BY ONLY <2>1, <2>2, SubSeqProperties
    <2> HIDE DEF s, m
    <2>4. Len(s) = n /\ \A i \in 1..n : s[i] = text[3 + i - 1]
      BY <2>2, <2>3
    <2>5. ASSUME NEW i \in 1..n PROVE s[i] = name[i]
      <3>1. 3 + i - 1 = 2 + i
        BY <1>1
      <3> QED BY <1>5, <2>4, <3>1
    <2>6. s = name
      BY <2>3, <2>4, <2>5, SeqEqual DEF n
    <2> QED BY <2>6 DEF s, m
  <1> QED BY <1>12, <1>13 DEF text

\* num_threads() takes the number after the first "Threads:", which comes after the name.
LEMMA ThreadsAreFound ==
  ASSUME NEW S, NEW name \in Seq(S),
         {"Name:", "Pid:", "pid", "Threads:", "SigQ:"} \subseteq S,
         NEW threads \in S, threads \in Numbers, Process!Places(name, "Threads:") = {}
  PROVE  Process!num_threads(Process!Status(name, threads)) = threads
  <1> DEFINE a == <<"Name:">>
             b == <<"Pid:", "pid", "Threads:", threads, "SigQ:">>
             text == Process!Status(name, threads)
             n == Len(name)
             places == Process!Places(text, "Threads:")
  <1>1. n \in Nat
    OBVIOUS
  <1>0. /\ "Name:" \in S /\ "Pid:" \in S /\ "pid" \in S /\ "Threads:" \in S
        /\ threads \in S /\ "SigQ:" \in S
    OBVIOUS
  <1>2. a \in Seq(S) /\ Len(a) = 1 /\ a[1] = "Name:"
    BY ONLY <1>0
  <1>3. b \in Seq(S) /\ Len(b) = 5 /\ b[1] = "Pid:" /\ b[2] = "pid" /\ b[3] = "Threads:"
        /\ b[4] = threads
    BY ONLY <1>0
  <1>4. text = a \o name \o b
    BY DEF Process!Status
  <1> HIDE DEF a, b, text
  <1>5. /\ text \in Seq(S) /\ Len(text) = (1 + n) + 5
        /\ \A i \in 1..1 : text[i] = a[i]
        /\ \A i \in 1..n : text[1 + i] = name[i]
        /\ \A i \in 1..5 : text[(1 + n) + i] = b[i]
    <2>1. a \o name \o b \in Seq(S) /\ Surrounds(a \o name \o b, a, name, b)
      BY <1>2, <1>3, Around
    <2>2. text \in Seq(S) /\ Surrounds(text, a, name, b)
      BY <1>4, <2>1
    <2> QED BY <1>2, <1>3, <2>2 DEF Surrounds
  <1>6. ASSUME NEW i \in 1..n PROVE text[1 + i] # "Threads:"
    <2>1. name[i] # "Threads:"
      BY DEF Process!Places
    <2> QED BY <1>5, <2>1
  <1> HIDE DEF n
  <1>7. /\ text[1] = "Name:" /\ text[n + 2] = "Pid:" /\ text[n + 3] = "pid"
        /\ text[n + 4] = "Threads:" /\ text[n + 5] = threads
    <2>1. (1 + n) + 1 = n + 2 /\ (1 + n) + 2 = n + 3 /\ (1 + n) + 3 = n + 4 /\ (1 + n) + 4 = n + 5
      BY <1>1
    <2> QED BY <1>2, <1>3, <1>5, <2>1
  <1>8. DOMAIN text = 1..(n + 6)
    <2>1. (1 + n) + 5 = n + 6
      BY <1>1
    <2> QED BY <1>5, <2>1
  <1>9. /\ places \subseteq Int /\ n + 4 \in places /\ \A i \in places : n + 4 <= i
    <2>1. ASSUME NEW i \in places PROVE n + 4 <= i
      <3>1. i \in 1..(n + 6) /\ text[i] = "Threads:"
        BY <1>8 DEF Process!Places
      <3>2. i # 1 /\ i # n + 2 /\ i # n + 3
        BY <1>7, <3>1
      <3>3. i - 1 \in 1..n => text[1 + (i - 1)] # "Threads:"
        BY <1>6
      <3>4. 1 + (i - 1) = i
        BY <3>1
      <3>5. i - 1 \notin 1..n
        BY <3>1, <3>3, <3>4
      <3> QED BY <1>1, <3>1, <3>2, <3>5
    <2>2. places \subseteq Int
      BY <1>8 DEF Process!Places
    <2>3. n + 4 \in 1..(n + 6)
      BY <1>1
    <2> QED BY <1>7, <1>8, <2>1, <2>2, <2>3 DEF Process!Places
  <1> HIDE DEF places
  <1>10. Process!Min(places) = n + 4
    <2>1. Process!Min(places) = Min(places)
      BY DEF Process!Min, Min
    <2> DEFINE m == n + 4
    <2>2. places \subseteq Int /\ m \in places /\ \A i \in places : m <= i
      BY <1>9
    <2> HIDE DEF m
    <2>3. Min(places) = m
      BY <2>2, MinIs
    <2> QED BY <2>1, <2>3 DEF m
  <1>11. Process!num_threads(text) = Process!atoi(text[(n + 4) + 1])
    <2>1. Process!num_threads(text) =
            IF places = {} THEN "0" ELSE Process!atoi(text[Process!Min(places) + 1])
      BY DEF Process!num_threads, places
    <2> QED BY <1>9, <1>10, <2>1
  <1>12. (n + 4) + 1 = n + 5
    BY <1>1
  <1> QED BY <1>7, <1>11, <1>12 DEF Process!atoi, text

\* Whatever a process is called, proc_name() is its name and num_threads() its number of
\* threads (ProcessInfo.cc:136-146,216-226), but that a name with "Threads:" in it may
\* hide the number.
THEOREM NamesAreRead == SpecWalk => []NamesDoNotConfuse
  <1>1. ChosenInv => NamesDoNotConfuse
    <2> SUFFICES ASSUME ChosenInv, walk = "names"
                 PROVE  Process!TextsAreRead(left \o right, "7")
      BY DEF NamesDoNotConfuse
    <2> DEFINE S == Words \cup {"pid", "(", ")", "state", "ppid"}
                          \cup {"Name:", "Pid:", "Threads:", "SigQ:", "7"}
               name == left \o right
    <2>1. left \in Seq(S) /\ right \in Seq(S)
      BY SeqMonotonic DEF ChosenInv
    <2>2. name \in Seq(S)
      <3> HIDE DEF S
      <3> QED BY <2>1, ConcatProperties
    <2>3. /\ {"pid", "(", ")", "state", "ppid"} \subseteq S
          /\ {"Name:", "Pid:", "pid", "Threads:", "SigQ:"} \subseteq S /\ "7" \in S
      OBVIOUS
    <2> HIDE DEF S, name
    <2>4. Process!proc_name(Process!Stat(name)) = name
      BY <2>2, <2>3, NameIsFound
    <2>5. ASSUME Process!Places(name, "Threads:") = {}
          PROVE  Process!num_threads(Process!Status(name, "7")) = "7"
      <3>1. "7" \in Numbers
        BY TextAssumption
      <3> QED BY ONLY <2>2, <2>3, <2>5, <3>1, ThreadsAreFound
    <2> QED BY <2>4, <2>5 DEF Process!TextsAreRead, name
  <1> QED BY <1>1, ChosenInvHolds, PTL
===============================================================================
