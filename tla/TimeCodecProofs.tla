-------------------------- MODULE TimeCodecProofs --------------------------
(***************************************************************************)
(* Theorems about TimeCodec, for every length of a day, every summer time  *)
(* and all the days of two centuries: the device's calendar of 31-day      *)
(* months and two-digit years keeps step with the real one.                *)
(***************************************************************************)
EXTENDS TimeCodec, TLAPS

\* Summer time is at most a day, and the server's clock starts in the century
\* before 2000 and ends in the two after it.
CodecAssumption ==
  /\ DayTicks \in Nat \ {0} /\ Shift \in 0 .. DayTicks
  /\ SummerFrom \in Int /\ SummerTill \in Int
  /\ Before \in Nat /\ Before <= 99 * 365 * DayTicks
  /\ End \in Nat /\ End <= 200 * 365 * DayTicks

-----------------------------------------------------------------------------
(* Years                                                                   *)

LEMMA YearLength ==
  ASSUME NEW y \in Nat
  PROVE  /\ YearDay(y) \in Int
         /\ YearDay(y + 1) = YearDay(y) + IF IsLeap(y) THEN 366 ELSE 365
BY SMTT(30) DEF YearDay, LeapDays, IsLeap

\* A later year starts a whole number of years later, at least.
LEMMA YearsGrow ==
  ASSUME NEW y \in Nat, NEW z \in Nat, y < z
  PROVE  YearDay(z) >= YearDay(y) + 365 * (z - y)
BY SMTT(30) DEF YearDay, LeapDays

LEMMA CenturyDays ==
  /\ YearDay(1901) = -36159
  /\ YearDay(2000) = 0
  /\ YearDay(2100) = 36525
  /\ YearDay(2200) = 73049
BY DEF YearDay, LeapDays

\* The year that DateOf guesses is never two years late, nor three years early.
LEMMA GuessNear ==
  ASSUME NEW day \in Int, -36159 <= day, day < 73049, NEW k \in Int,
         366 * k <= day, day < 366 * k + 366
  PROVE  /\ k >= -99 /\ k <= 199
         /\ YearDay(2000 + k - 1) <= day
         /\ day < YearDay(2000 + k + 3)
<1>1. k >= -99
  OBVIOUS
<1>2. k <= 199
  OBVIOUS
<1>3. YearDay(2000 + k - 1) <= day
  BY <1>1, <1>2, SMTT(30) DEF YearDay, LeapDays
<1>4. day < YearDay(2000 + k + 3)
  BY <1>1, <1>2, SMTT(30) DEF YearDay, LeapDays
<1> QED
  BY <1>1, <1>2, <1>3, <1>4

LEMMA YearFound ==
  ASSUME NEW day \in Int, -36159 <= day, day < 73049
  PROVE  \E y \in (2000 + day \div 366) - 1 .. (2000 + day \div 366) + 2 :
            YearDay(y) <= day /\ day < YearDay(y + 1)
<1> DEFINE k == day \div 366
           g == 2000 + k
<1>1. k \in Int /\ 366 * k <= day /\ day < 366 * k + 366
  OBVIOUS
<1>2. k >= -99 /\ YearDay(g - 1) <= day /\ day < YearDay(g + 3)
  BY <1>1, GuessNear
<1> HIDE DEF k
<1>4. g - 1 \in Nat /\ g \in Nat /\ g + 1 \in Nat /\ g + 2 \in Nat /\ g + 3 \in Nat
  BY <1>1, <1>2
<1> HIDE DEF g
<1>5. /\ g - 1 \in g - 1 .. g + 2 /\ g \in g - 1 .. g + 2
      /\ g + 1 \in g - 1 .. g + 2 /\ g + 2 \in g - 1 .. g + 2
      /\ (g - 1) + 1 = g /\ (g + 1) + 1 = g + 2 /\ (g + 2) + 1 = g + 3
  BY <1>4
<1>6. /\ YearDay(g - 1) \in Int /\ YearDay(g) \in Int /\ YearDay(g + 1) \in Int
      /\ YearDay(g + 2) \in Int /\ YearDay(g + 3) \in Int
  BY <1>4, YearLength
<1>7. \E y \in g - 1 .. g + 2 : YearDay(y) <= day /\ day < YearDay(y + 1)
  BY <1>2, <1>5, <1>6
<1> QED
  BY <1>7 DEF g, k

-----------------------------------------------------------------------------
(* Months                                                                  *)

LEMMA MonthsLie ==
  ASSUME NEW y \in Nat, NEW m \in 1 .. 12
  PROVE  /\ MonthDay(y, m) \in Int /\ MonthDay(y, m) >= YearDay(y)
         /\ m < 12 => MonthDay(y, m + 1) = MonthDay(y, m) + DaysIn(y, m)
         /\ m = 12 => YearDay(y + 1) = MonthDay(y, m) + DaysIn(y, m)
         /\ m = 1 => MonthDay(y, m) = YearDay(y)
<1>1. /\ YearDay(y) \in Int /\ IsLeap(y) \in BOOLEAN
      /\ YearDay(y + 1) = YearDay(y) + IF IsLeap(y) THEN 366 ELSE 365
  BY YearLength DEF IsLeap
<1>2. m = 1 \/ m = 2 \/ m = 3 \/ m = 4 \/ m = 5 \/ m = 6 \/ m = 7 \/ m = 8 \/ m = 9
      \/ m = 10 \/ m = 11 \/ m = 12
  OBVIOUS
<1> QED
  BY <1>1, <1>2, SMTT(60) DEF MonthDay, DaysIn, MonthOffset

LEMMA MonthFound ==
  ASSUME NEW y \in Nat, NEW day \in Int, YearDay(y) <= day
  PROVE  \E m \in 1 .. 12 :
            /\ MonthDay(y, m) <= day
            /\ m = 12 \/ day < MonthDay(y, m + 1)
<1>1. MonthDay(y, 1) = YearDay(y)
  BY MonthsLie
<1>2. \A m \in 1 .. 12 : MonthDay(y, m) \in Int
  BY MonthsLie
<1> SUFFICES ASSUME \A m \in 1 .. 12 : 
                      MonthDay(y, m) <= day => m # 12 /\ MonthDay(y, m + 1) <= day
             PROVE  FALSE
  BY <1>2
<1>3. MonthDay(y, 4) <= day
  BY <1>1
<1>4. MonthDay(y, 8) <= day
  BY <1>3
<1>5. MonthDay(y, 12) <= day
  BY <1>4
<1> QED
  BY <1>5

-----------------------------------------------------------------------------
(* Dates.  DateOf and DayOf are inverse to each other, and the device's    *)
(* next date is the date of the next day.                                  *)

Dates == [year : 1901 .. 2200, month : 1 .. 12, day : 1 .. 31]

IsDate(date) == date \in Dates /\ date.day <= DaysIn(date.year, date.month)

LEMMA DateFound ==
  ASSUME NEW day \in Int, -36159 <= day, day < 73049
  PROVE  /\ IsDate(DateOf(day)) /\ DayOf(DateOf(day)) = day
         /\ DateOf(day).year <= 2199
<1> DEFINE guess == 2000 + day \div 366
           year == YearOf(day)
           month == MonthOf(year, day)
<1>1. year \in guess - 1 .. guess + 2 /\ YearDay(year) <= day /\ day < YearDay(year + 1)
  <2>1. \E y \in guess - 1 .. guess + 2 : YearDay(y) <= day /\ day < YearDay(y + 1)
    BY YearFound
  <2>2. year = CHOOSE y \in guess - 1 .. guess + 2 : YearDay(y) <= day /\ day < YearDay(y + 1)
    BY DEF YearOf
  <2> HIDE DEF guess, year
  <2> QED
    BY <2>1, <2>2
<1> HIDE DEF year
<1>2. year \in Nat
  <2>1. day \div 366 \in Int /\ 366 * (day \div 366) + 366 > day
    OBVIOUS
  <2> QED
    BY <1>1, <2>1
<1>3. 1901 <= year /\ year <= 2199
  <2>1. \A z \in Nat : YearDay(z) \in Int
    BY YearLength
  <2>2. year >= 2200 => YearDay(year) >= 73049
    <3>1. year > 2200 => YearDay(year) >= YearDay(2200) + 365 * (year - 2200)
      BY <1>2, YearsGrow
    <3>2. year = 2200 => YearDay(year) = 73049
      BY CenturyDays
    <3>3. YearDay(year) \in Int /\ YearDay(2200) = 73049
      BY <1>2, <2>1, CenturyDays
    <3> QED
      BY <1>2, <3>1, <3>2, <3>3
  <2>3. year + 1 <= 1901 => YearDay(year + 1) <= -36159
    <3>1. year + 1 < 1901 => YearDay(1901) >= YearDay(year + 1) + 365 * (1901 - (year + 1))
      BY <1>2, YearsGrow
    <3> QED
      BY <1>2, <2>1, <3>1, CenturyDays
  <2> QED
    BY <1>1, <1>2, <2>1, <2>2, <2>3
<1>4. /\ month \in 1 .. 12 /\ MonthDay(year, month) <= day
      /\ month = 12 \/ day < MonthDay(year, month + 1)
  BY <1>1, <1>2, MonthFound DEF MonthOf
<1> HIDE DEF month
<1>5. /\ MonthDay(year, month) \in Int
      /\ month < 12 => MonthDay(year, month + 1) = MonthDay(year, month) + DaysIn(year, month)
      /\ month = 12 => YearDay(year + 1) = MonthDay(year, month) + DaysIn(year, month)
  BY <1>2, <1>4, MonthsLie
<1>6. DaysIn(year, month) \in 28 .. 31
  BY DEF DaysIn
<1>7. day - MonthDay(year, month) + 1 \in 1 .. DaysIn(year, month)
  BY <1>1, <1>4, <1>5, <1>6
<1>8. DateOf(day) = [year |-> year, month |-> month, day |-> day - MonthDay(year, month) + 1]
  BY DEF DateOf, year, month
<1>9. DateOf(day) \in Dates
  BY <1>3, <1>2, <1>4, <1>6, <1>7, <1>8 DEF Dates
<1>10. DayOf(DateOf(day)) = day
  BY <1>5, <1>8 DEF DayOf
<1> QED
  BY <1>3, <1>7, <1>8, <1>9, <1>10 DEF IsDate

\* The days of a month come before those of the next, and of the next year.
LEMMA DayRange ==
  ASSUME NEW y \in Nat, NEW m \in 1 .. 12, NEW d \in Nat, 1 <= d, d <= DaysIn(y, m)
  PROVE  /\ MonthDay(y, m) + d - 1 >= YearDay(y)
         /\ MonthDay(y, m) + d - 1 < YearDay(y + 1)
         /\ \A p \in 1 .. 12 : m < p => MonthDay(y, m) + d - 1 < MonthDay(y, p)
<1>1. /\ YearDay(y) \in Int /\ IsLeap(y) \in BOOLEAN
      /\ YearDay(y + 1) = YearDay(y) + IF IsLeap(y) THEN 366 ELSE 365
  BY YearLength DEF IsLeap
<1>2. ASSUME NEW p \in 1 .. 13
      PROVE  \/ p = 1 \/ p = 2 \/ p = 3 \/ p = 4 \/ p = 5 \/ p = 6 \/ p = 7 \/ p = 8
             \/ p = 9 \/ p = 10 \/ p = 11 \/ p = 12 \/ p = 13
  OBVIOUS
<1> DEFINE leap == IF IsLeap(y) THEN 1 ELSE 0
           start(p) == IF p = 13 THEN YearDay(y + 1) ELSE MonthDay(y, p)
<1>3. /\ start(1) = YearDay(y) /\ start(2) = start(1) + 31
      /\ start(3) = start(2) + DaysIn(y, 2) /\ start(4) = start(3) + 31
      /\ start(5) = start(4) + 30 /\ start(6) = start(5) + 31
      /\ start(7) = start(6) + 30 /\ start(8) = start(7) + 31
      /\ start(9) = start(8) + 31 /\ start(10) = start(9) + 30
      /\ start(11) = start(10) + 31 /\ start(12) = start(11) + 30
      /\ start(13) = start(12) + 31
  BY <1>1 DEF MonthDay, DaysIn, MonthOffset
<1>4. /\ DaysIn(y, 2) \in {28, 29}
      /\ m = 2 => DaysIn(y, m) = DaysIn(y, 2)
      /\ m \in {4, 6, 9, 11} => DaysIn(y, m) = 30
      /\ m \in {1, 3, 5, 7, 8, 10, 12} => DaysIn(y, m) = 31
  BY DEF DaysIn
<1>5. MonthDay(y, m) = start(m) /\ start(13) = YearDay(y + 1) /\ start(1) = YearDay(y)
  BY <1>3
<1>6. \A p \in 1 .. 12 : MonthDay(y, p) = start(p)
  OBVIOUS
<1> HIDE DEF start
<1>7. \A p \in 1 .. 13 : start(p) \in Int /\ start(p) >= start(1)
  BY <1>1, <1>2, <1>3, <1>4, <1>5
<1>8. \A p \in 1 .. 13 : m < p => start(m) + DaysIn(y, m) <= start(p)
  BY <1>1, <1>2, <1>3, <1>4, <1>5
<1>9. DaysIn(y, m) \in Int /\ start(m) + DaysIn(y, m) <= start(13)
      /\ \A p \in 1 .. 12 : m < p => start(m) + DaysIn(y, m) <= start(p)
  BY <1>4, <1>8 DEF DaysIn
<1>10. ASSUME NEW p \in 1 .. 12, m < p
       PROVE  MonthDay(y, m) + d - 1 < MonthDay(y, p)
  BY <1>5, <1>6, <1>7, <1>9, <1>10
<1>11. /\ MonthDay(y, m) + d - 1 >= YearDay(y)
       /\ MonthDay(y, m) + d - 1 < YearDay(y + 1)
  BY <1>5, <1>7, <1>9
<1> QED
  BY <1>10, <1>11

LEMMA DatesEqual ==
  ASSUME NEW a, NEW b, IsDate(a), IsDate(b), DayOf(a) = DayOf(b)
  PROVE  a = b
<1> DEFINE y == a.year  m == a.month  d == a.day
           z == b.year  p == b.month  e == b.day
<1>0. /\ y \in Nat /\ y + 1 \in Nat /\ m \in 1 .. 12 /\ d \in Nat /\ 1 <= d /\ d <= DaysIn(y, m)
      /\ z \in Nat /\ z + 1 \in Nat /\ p \in 1 .. 12 /\ e \in Nat /\ 1 <= e /\ e <= DaysIn(z, p)
      /\ MonthDay(y, m) + d - 1 = MonthDay(z, p) + e - 1
  <2>1. /\ a \in Dates /\ b \in Dates
        /\ a.day <= DaysIn(a.year, a.month) /\ b.day <= DaysIn(b.year, b.month)
        /\ MonthDay(a.year, a.month) + a.day - 1 = MonthDay(b.year, b.month) + b.day - 1
    BY DEF IsDate, DayOf
  <2> QED
    BY <2>1 DEF Dates
<1> HIDE DEF y, m, d, z, p, e
<1>1. /\ MonthDay(y, m) \in Int /\ MonthDay(z, p) \in Int
      /\ YearDay(y) \in Int /\ YearDay(z) \in Int
      /\ YearDay(y + 1) \in Int /\ YearDay(z + 1) \in Int
  BY <1>0, MonthsLie, YearLength
<1>2. /\ MonthDay(y, m) + d - 1 >= YearDay(y) /\ MonthDay(y, m) + d - 1 < YearDay(y + 1)
      /\ MonthDay(z, p) + e - 1 >= YearDay(z) /\ MonthDay(z, p) + e - 1 < YearDay(z + 1)
  BY <1>0, DayRange
<1>3. y + 1 < z => YearDay(z) >= YearDay(y + 1)
  <2>1. y + 1 < z => YearDay(z) >= YearDay(y + 1) + 365 * (z - (y + 1))
    BY <1>0, YearsGrow
  <2> QED
    BY <1>0, <1>1, <2>1
<1>4. z + 1 < y => YearDay(y) >= YearDay(z + 1)
  <2>1. z + 1 < y => YearDay(y) >= YearDay(z + 1) + 365 * (y - (z + 1))
    BY <1>0, YearsGrow
  <2> QED
    BY <1>0, <1>1, <2>1
<1>5. y + 1 # z /\ z + 1 # y
  BY <1>0, <1>1, <1>2
<1>6. y = z
  BY <1>0, <1>1, <1>2, <1>3, <1>4, <1>5
<1>7. ~(m < p) /\ ~(p < m)
  <2>1. m < p => MonthDay(y, m) + d - 1 < MonthDay(y, p)
    BY <1>0, DayRange
  <2>2. p < m => MonthDay(z, p) + e - 1 < MonthDay(z, m)
    BY <1>0, DayRange
  <2>3. MonthDay(y, p) = MonthDay(z, p) /\ MonthDay(z, m) = MonthDay(y, m)
    BY <1>6
  <2> QED
    BY <1>0, <1>1, <2>1, <2>2, <2>3
<1>8. d = e /\ m = p
  BY <1>0, <1>1, <1>6, <1>7
<1> QED
  BY <1>6, <1>8 DEF IsDate, Dates, y, m, d, z, p, e

\* What NextDate makes of a record with these fields, whatever is in them.
IntDates == [year : Int, month : Int, day : Int]

LEMMA OneByOne ==
  ASSUME NEW date
  PROVE  [date EXCEPT !.month = @ + 1, !.day = 1]
           = [[date EXCEPT !.month = @ + 1] EXCEPT !.day = 1]
BY Zenon
LEMMA NextMonth ==
  ASSUME NEW date \in IntDates, ~(date.day < DaysIn(date.year, date.month)), date.month < 12
  PROVE  NextDate(date) = [year |-> date.year, month |-> date.month + 1, day |-> 1]
<1> DEFINE both == [date EXCEPT !.month = @ + 1, !.day = 1]
           first == [date EXCEPT !.month = @ + 1]
           second == [first EXCEPT !.day = 1]
           next == [year |-> date.year, month |-> date.month + 1, day |-> 1]
<1>1. NextDate(date) = both
  BY DEF NextDate
<1>2. both = second
  BY OneByOne
<1>3. first \in IntDates /\ first.year = date.year /\ first.month = date.month + 1
  BY DEF IntDates
<1> HIDE DEF first, both
<1>4. /\ second \in IntDates /\ second.year = date.year /\ second.month = date.month + 1
      /\ second.day = 1
  BY <1>3 DEF IntDates
<1>5. /\ next \in IntDates /\ next.year = date.year /\ next.month = date.month + 1
      /\ next.day = 1
  BY DEF IntDates
<1> HIDE DEF second, next
<1>6. NextDate(date) = next
  BY <1>1, <1>2, <1>3, <1>4, <1>5 DEF IntDates
<1> QED
  BY <1>6 DEF next

LEMMA NextDateIs ==
  ASSUME NEW date, IsDate(date), date.year <= 2199
  PROVE  IsDate(NextDate(date)) /\ DayOf(NextDate(date)) = DayOf(date) + 1
<1> DEFINE y == date.year
           m == date.month
           d == date.day
<1>1. /\ y \in Nat /\ 1901 <= y /\ y <= 2199 /\ m \in 1 .. 12 /\ d \in 1 .. 31
      /\ d <= DaysIn(y, m)
      /\ date = [year |-> y, month |-> m, day |-> d]
  BY DEF IsDate, Dates
<1>2. DayOf(date) = MonthDay(y, m) + d - 1 /\ MonthDay(y, m) \in Int
  BY <1>1, MonthsLie DEF DayOf
<1>3. \A z, p : DaysIn(z, p) \in 28 .. 31
  BY DEF DaysIn
<1>4. CASE d < DaysIn(y, m)
  <2>1. NextDate(date) = [year |-> y, month |-> m, day |-> d + 1]
    BY <1>1, <1>4 DEF NextDate
  <2>2. d + 1 \in 1 .. 31 /\ d + 1 <= DaysIn(y, m)
    BY <1>1, <1>3, <1>4
  <2>3. NextDate(date) \in Dates
    BY <1>1, <2>1, <2>2 DEF Dates
  <2> QED
    BY <1>1, <1>2, <2>1, <2>2, <2>3 DEF IsDate, DayOf
<1>5. CASE ~(d < DaysIn(y, m)) /\ m < 12
  <2>1. NextDate(date) = [year |-> y, month |-> m + 1, day |-> 1]
    <3>1. date \in IntDates
      BY DEF IsDate, Dates, IntDates
    <3> QED
      BY <1>5, <3>1, NextMonth
  <2>2. d = DaysIn(y, m)
    BY <1>1, <1>3, <1>5
  <2>3. NextDate(date) \in Dates /\ 1 <= DaysIn(y, m + 1)
    BY <1>1, <1>3, <1>5, <2>1 DEF Dates
  <2>4. MonthDay(y, m + 1) = MonthDay(y, m) + DaysIn(y, m)
    BY <1>1, <1>5, MonthsLie
  <2> HIDE DEF y, m, d
  <2> QED
    BY <1>1, <1>2, <2>1, <2>2, <2>3, <2>4 DEF IsDate, DayOf
<1>6. CASE ~(d < DaysIn(y, m)) /\ m = 12
  <2>1. NextDate(date) = [year |-> y + 1, month |-> 1, day |-> 1]
    BY <1>1, <1>6 DEF NextDate
  <2>2. d = DaysIn(y, m)
    BY <1>1, <1>3, <1>6
  <2>3. NextDate(date) \in Dates /\ 1 <= DaysIn(y + 1, 1)
    BY <1>1, <1>3, <1>6, <2>1 DEF Dates
  <2>4. MonthDay(y + 1, 1) = MonthDay(y, m) + DaysIn(y, m)
    <3>1. y + 1 \in Nat /\ 1 \in 1 .. 12
      BY <1>1
    <3>2. MonthDay(y + 1, 1) = YearDay(y + 1)
      BY <3>1, MonthsLie
    <3> QED
      BY <1>1, <1>6, <3>2, MonthsLie
  <2> HIDE DEF y, m, d
  <2> QED
    BY <1>1, <1>2, <2>1, <2>2, <2>3, <2>4 DEF IsDate, DayOf
<1> QED
  BY <1>1, <1>4, <1>5, <1>6

LEMMA DayAfter ==
  ASSUME NEW day \in Int, -36159 <= day, day < 73048
  PROVE  DateOf(day + 1) = NextDate(DateOf(day))
<1>1. IsDate(DateOf(day)) /\ DayOf(DateOf(day)) = day /\ DateOf(day).year <= 2199
  BY DateFound
<1>2. IsDate(DateOf(day + 1)) /\ DayOf(DateOf(day + 1)) = day + 1
  BY DateFound
<1>3. IsDate(NextDate(DateOf(day))) /\ DayOf(NextDate(DateOf(day))) = day + 1
  BY <1>1, NextDateIs
<1> QED
  BY <1>2, <1>3, DatesEqual

-----------------------------------------------------------------------------
(* The device's values.  Decoding gives the date back, but for the century *)
(* of its year, and the device's clock steps as time does.                 *)

LEMMA DayAndTick ==
  ASSUME NEW D \in Nat \ {0}, NEW day \in Int, NEW tick \in Int, 0 <= tick, tick < D
  PROVE  (day * D + tick) \div D = day /\ (day * D + tick) % D = tick
<1> DEFINE v == day * D + tick
           q == v \div D
           r == v % D
<1>1. q \in Int /\ r \in Int /\ v = D * q + r /\ 0 <= r /\ r < D
  OBVIOUS
<1>2. v = day * D + tick
  OBVIOUS
<1> HIDE DEF v, q, r
<1>3. q = day
  <2>1. ~(q < day)
    BY <1>1, <1>2
  <2>2. ~(q > day)
    BY <1>1, <1>2
  <2> QED
    BY <1>1, <2>1, <2>2
<1>4. r = tick
  BY <1>1, <1>2, <1>3
<1> QED
  BY <1>3, <1>4 DEF v, q, r

LEMMA DivBounds ==
  ASSUME NEW D \in Nat \ {0}, NEW v \in Int, NEW a \in Int, NEW b \in Int,
         a * D <= v, v < b * D
  PROVE  /\ v \div D \in Int /\ a <= v \div D /\ v \div D < b
         /\ v % D \in Int /\ 0 <= v % D /\ v % D < D
         /\ v = (v \div D) * D + (v % D)
<1> DEFINE q == v \div D
           r == v % D
<1>1. q \in Int /\ r \in Int /\ v = q * D + r /\ 0 <= r /\ r < D
  OBVIOUS
<1> HIDE DEF q, r
<1>2. a <= q
  BY <1>1
<1>3. q < b
  BY <1>1
<1> QED
  BY <1>1, <1>2, <1>3 DEF q, r

LEMMA PackedParts ==
  ASSUME CodecAssumption, NEW date, IsDate(date), NEW tick \in Int, 0 <= tick, tick < DayTicks
  PROVE  /\ Packed(date, tick) \in Int /\ Packed(date, tick) % DayTicks = tick
         /\ DecodedDate(Packed(date, tick))
              = [year |-> 2000 + (date.year % 100), month |-> date.month, day |-> date.day]
<1> DEFINE c == date.year % 100
           m == date.month
           d == date.day
           days == c * 12 * 31 + (m - 1) * 31 + d - 1
           v == Packed(date, tick)
<1>1. c \in 0 .. 99 /\ m \in 1 .. 12 /\ d \in 1 .. 31
  BY DEF IsDate, Dates
<1>2. v = days * DayTicks + tick
  BY DEF Packed
<1> HIDE DEF c, m, d, v
<1>3. days \in Int
  BY <1>1
<1>4. days \div (12 * 31) = c /\ ((days \div 31) % 12) + 1 = m /\ (days % 31) + 1 = d
  <2>1. days \div (12 * 31) = c
    BY <1>1
  <2>2. days % 31 = d - 1 /\ days \div 31 = c * 12 + (m - 1)
    BY <1>1
  <2>3. (c * 12 + (m - 1)) % 12 = m - 1
    BY <1>1
  <2> HIDE DEF days
  <2> QED
    BY <1>1, <2>1, <2>2, <2>3
<1>5. v \div DayTicks = days /\ v % DayTicks = tick
  <2> HIDE DEF days
  <2> QED
    BY <1>2, <1>3, DayAndTick DEF CodecAssumption
<1>6. v \in Int
  BY <1>2, <1>3 DEF CodecAssumption
<1> HIDE DEF days
<1>7. DecodedDate(v) = [year |-> 2000 + c, month |-> m, day |-> d]
  BY <1>4, <1>5 DEF DecodedDate
<1> QED
  BY <1>5, <1>6, <1>7 DEF c, m, d, v

LEMMA NextParts ==
  ASSUME NEW date \in IntDates
  PROVE  /\ NextDate(date) \in IntDates
         /\ date.day < DaysIn(date.year, date.month) =>
              /\ NextDate(date).year = date.year /\ NextDate(date).month = date.month
              /\ NextDate(date).day = date.day + 1
         /\ ~(date.day < DaysIn(date.year, date.month)) /\ date.month < 12 =>
              /\ NextDate(date).year = date.year /\ NextDate(date).month = date.month + 1
              /\ NextDate(date).day = 1
         /\ ~(date.day < DaysIn(date.year, date.month)) /\ ~(date.month < 12) =>
              /\ NextDate(date).year = date.year + 1 /\ NextDate(date).month = 1
              /\ NextDate(date).day = 1
<1>1. CASE date.day < DaysIn(date.year, date.month)
  <2>1. NextDate(date) = [date EXCEPT !.day = @ + 1]
    BY <1>1 DEF NextDate
  <2> QED
    BY <1>1, <2>1 DEF IntDates
<1>2. CASE ~(date.day < DaysIn(date.year, date.month)) /\ date.month < 12
  <2>1. NextDate(date) = [year |-> date.year, month |-> date.month + 1, day |-> 1]
    BY <1>2, NextMonth
  <2> QED
    BY <1>2, <2>1 DEF IntDates
<1>3. CASE ~(date.day < DaysIn(date.year, date.month)) /\ ~(date.month < 12)
  BY <1>3 DEF NextDate, IntDates
<1> QED
  BY <1>1, <1>2, <1>3


\* Two digits of a year are enough to tell the leap years from 1901 to 2099.
LEMMA SameLeap ==
  ASSUME NEW y \in 1901 .. 2099
  PROVE  IsLeap(2000 + (y % 100)) = IsLeap(y)
BY DEF IsLeap

LEMMA NextPacked ==
  ASSUME CodecAssumption, NEW date, IsDate(date), date.year <= 2099,
         NEW tick \in Int, 0 <= tick, tick < DayTicks
  PROVE  Packed(NextDate(DecodedDate(Packed(date, tick))), 0) = Packed(NextDate(date), 0)
<1> DEFINE y == date.year  m == date.month  d == date.day
           z == 2000 + (y % 100)
           read == [year |-> z, month |-> m, day |-> d]
<1>1. DecodedDate(Packed(date, tick)) = read
  BY PackedParts
<1>2. y \in 1901 .. 2099 /\ m \in 1 .. 12 /\ d \in 1 .. 31 /\ z \in Int
  BY DEF IsDate, Dates
<1>3. DaysIn(z, m) = DaysIn(y, m)
  BY <1>2, SameLeap DEF DaysIn
<1>4. date \in IntDates /\ read \in IntDates
  BY <1>2 DEF IsDate, Dates, IntDates
<1>5. read.year = z /\ read.month = m /\ read.day = d
  OBVIOUS
<1>6. z % 100 = y % 100 /\ (z + 1) % 100 = (y + 1) % 100
  BY <1>2
<1> HIDE DEF read, z
<1>7. /\ NextDate(read).year % 100 = NextDate(date).year % 100
      /\ NextDate(read).month = NextDate(date).month
      /\ NextDate(read).day = NextDate(date).day
  <2>1. CASE d < DaysIn(y, m)
    <3>1. /\ NextDate(date).year = y /\ NextDate(date).month = m /\ NextDate(date).day = d + 1
      BY <1>4, <2>1, NextParts
    <3>2. /\ NextDate(read).year = z /\ NextDate(read).month = m /\ NextDate(read).day = d + 1
      BY <1>3, <1>4, <1>5, <2>1, NextParts
    <3> QED
      BY <1>6, <3>1, <3>2
  <2>2. CASE ~(d < DaysIn(y, m)) /\ m < 12
    <3>1. /\ NextDate(date).year = y /\ NextDate(date).month = m + 1 /\ NextDate(date).day = 1
      BY <1>4, <2>2, NextParts
    <3>2. /\ NextDate(read).year = z /\ NextDate(read).month = m + 1 /\ NextDate(read).day = 1
      BY <1>3, <1>4, <1>5, <2>2, NextParts
    <3> QED
      BY <1>6, <3>1, <3>2
  <2>3. CASE ~(d < DaysIn(y, m)) /\ ~(m < 12)
    <3>1. /\ NextDate(date).year = y + 1 /\ NextDate(date).month = 1 /\ NextDate(date).day = 1
      BY <1>4, <2>3, NextParts
    <3>2. /\ NextDate(read).year = z + 1 /\ NextDate(read).month = 1 /\ NextDate(read).day = 1
      BY <1>3, <1>4, <1>5, <2>3, NextParts
    <3> QED
      BY <1>6, <3>1, <3>2
  <2> QED
    BY <2>1, <2>2, <2>3
<1> QED
  BY <1>1, <1>7 DEF Packed

LEMMA YearsOf ==
  ASSUME NEW day \in Int, -36159 <= day, day < 36525
  PROVE  /\ IsDate(DateOf(day)) /\ DayOf(DateOf(day)) = day
         /\ DateOf(day).year <= 2099
         /\ day >= 0 => DateOf(day).year >= 2000
<1> DEFINE y == DateOf(day).year
           m == DateOf(day).month
           d == DateOf(day).day
<1>1. IsDate(DateOf(day)) /\ DayOf(DateOf(day)) = day
  BY DateFound
<1>2. y \in Nat /\ y + 1 \in Nat /\ m \in 1 .. 12 /\ d \in Nat /\ 1 <= d /\ d <= DaysIn(y, m)
      /\ day = MonthDay(y, m) + d - 1
  BY <1>1 DEF IsDate, Dates, DayOf
<1> HIDE DEF y, m, d
<1>3. YearDay(y) <= day /\ day < YearDay(y + 1) /\ YearDay(y) \in Int /\ YearDay(y + 1) \in Int
  <2>1. YearDay(y) \in Int /\ YearDay(y + 1) \in Int
    BY <1>2, YearLength
  <2>2. /\ MonthDay(y, m) + d - 1 >= YearDay(y)
        /\ MonthDay(y, m) + d - 1 < YearDay(y + 1)
    BY <1>2, DayRange
  <2> QED
    BY <1>2, <2>1, <2>2
<1>4. y <= 2099
  <2>1. y > 2100 => YearDay(y) >= YearDay(2100) + 365 * (y - 2100)
    BY <1>2, YearsGrow
  <2>2. y = 2100 => YearDay(y) = 36525
    BY CenturyDays
  <2> QED
    BY <1>2, <1>3, <2>1, <2>2, CenturyDays
<1>5. day >= 0 => y >= 2000
  <2>1. y + 1 < 2000 => YearDay(2000) >= YearDay(y + 1) + 365 * (2000 - (y + 1))
    BY <1>2, YearsGrow
  <2>2. y + 1 = 2000 => YearDay(y + 1) = 0
    BY CenturyDays
  <2> QED
    BY <1>2, <1>3, <2>1, <2>2, CenturyDays
<1> QED
  BY <1>1, <1>4, <1>5 DEF y

\* What the device has to hold to show a local time.
EncodeLocal(local) == Packed(DateOf(local \div DayTicks), local % DayTicks)

Century == 36525 * DayTicks

LEMMA TickedLocal ==
  ASSUME CodecAssumption, NEW local \in Int, -36159 * DayTicks <= local, local < Century
  PROVE  Ticked(EncodeLocal(local)) = EncodeLocal(local + 1)
<1> DEFINE D == DayTicks
           day == local \div D
           tick == local % D
<1>1. D \in Nat \ {0}
  BY DEF CodecAssumption
<1>2. /\ day \in Int /\ -36159 <= day /\ day < 36525
      /\ tick \in Int /\ 0 <= tick /\ tick < D /\ local = day * D + tick
  BY <1>1, DivBounds DEF Century
<1> HIDE DEF day, tick
<1>3. IsDate(DateOf(day)) /\ DateOf(day).year <= 2099
  BY <1>2, YearsOf
<1>4. EncodeLocal(local) = Packed(DateOf(day), tick)
  BY DEF EncodeLocal, day, tick
<1>5. Packed(DateOf(day), tick) % D = tick /\ Packed(DateOf(day), tick) \in Int
  BY <1>2, <1>3, PackedParts
<1>6. CASE tick < D - 1
  <2>1. (day * D + (tick + 1)) \div D = day /\ (day * D + (tick + 1)) % D = tick + 1
    <3> DEFINE after == tick + 1
    <3>1. after \in Int /\ 0 <= after /\ after < D
      BY <1>1, <1>2, <1>6
    <3> HIDE DEF after
    <3>2. (day * D + after) \div D = day /\ (day * D + after) % D = after
      BY <1>1, <1>2, <3>1, DayAndTick
    <3> QED
      BY <3>2 DEF after
  <2>2. day * D + (tick + 1) = local + 1
    BY <1>1, <1>2
  <2>3. EncodeLocal(local + 1) = Packed(DateOf(day), tick + 1)
    BY <2>1, <2>2 DEF EncodeLocal
  <2>4. Packed(DateOf(day), tick + 1) = Packed(DateOf(day), tick) + 1
    <3>1. DateOf(day).year % 100 \in Int /\ DateOf(day).month \in Int /\ DateOf(day).day \in Int
      BY <1>3 DEF IsDate, Dates
    <3> QED
      BY <1>1, <1>2, <3>1 DEF Packed
  <2> QED
    BY <1>4, <1>5, <1>6, <2>3, <2>4 DEF Ticked
<1>7. CASE ~(tick < D - 1)
  <2>1. ((day + 1) * D + 0) \div D = day + 1 /\ ((day + 1) * D + 0) % D = 0
    BY <1>1, <1>2, DayAndTick
  <2>2. (day + 1) * D + 0 = local + 1
    BY <1>1, <1>2, <1>7
  <2>3. EncodeLocal(local + 1) = Packed(DateOf(day + 1), 0)
    BY <2>1, <2>2 DEF EncodeLocal
  <2>4. DateOf(day + 1) = NextDate(DateOf(day))
    BY <1>2, DayAfter
  <2>5. Ticked(EncodeLocal(local)) = Packed(NextDate(DecodedDate(Packed(DateOf(day), tick))), 0)
    BY <1>4, <1>5, <1>7 DEF Ticked
  <2> QED
    BY <1>2, <1>3, <2>3, <2>4, <2>5, NextPacked
<1> QED
  BY <1>6, <1>7

LEMMA CenturyStarts ==
  ASSUME CodecAssumption
  PROVE  EncodeLocal(0) = 0 /\ EncodeLocal(Century) = 0
<1>1. DayTicks \in Nat \ {0}
  BY DEF CodecAssumption
<1>2. ASSUME NEW year \in {2000, 2100}
      PROVE  /\ YearDay(year) \in {0, 36525}
             /\ DateOf(YearDay(year)) = [year |-> year, month |-> 1, day |-> 1]
  <2> DEFINE date == [year |-> year, month |-> 1, day |-> 1]
  <2>1. YearDay(year) \in {0, 36525}
    BY CenturyDays
  <2>2. IsDate(DateOf(YearDay(year))) /\ DayOf(DateOf(YearDay(year))) = YearDay(year)
    BY <2>1, DateFound
  <2>3. IsDate(date)
    BY DEF IsDate, Dates, DaysIn
  <2>4. DayOf(date) = YearDay(year)
    BY <2>1, MonthsLie DEF DayOf
  <2> QED
    BY <2>1, <2>2, <2>3, <2>4, DatesEqual
<1>3. ASSUME NEW year \in {2000, 2100}
      PROVE  Packed(DateOf(YearDay(year)), 0) = 0
  <2>1. year % 100 = 0
    OBVIOUS
  <2> QED
    BY <1>1, <1>2, <2>1 DEF Packed
<1>4. Packed(DateOf(0), 0) = 0 /\ Packed(DateOf(36525), 0) = 0
  BY <1>3, CenturyDays
<1>5. /\ (0 * DayTicks + 0) \div DayTicks = 0 /\ (0 * DayTicks + 0) % DayTicks = 0
      /\ (36525 * DayTicks + 0) \div DayTicks = 36525 /\ (36525 * DayTicks + 0) % DayTicks = 0
  BY <1>1, DayAndTick
<1>6. 0 * DayTicks + 0 = 0 /\ 36525 * DayTicks + 0 = Century
  BY <1>1 DEF Century
<1> QED
  BY <1>4, <1>5, <1>6 DEF EncodeLocal

LEMMA DecodedLocal ==
  ASSUME CodecAssumption, NEW local \in Int, 0 <= local, local < Century
  PROVE  DecodeZKTime(EncodeLocal(local)) = InstantsOf(local)
<1> DEFINE D == DayTicks
           day == local \div D
           tick == local % D
           date == DateOf(day)
<1>1. D \in Nat \ {0}
  BY DEF CodecAssumption
<1>2. /\ day \in Int /\ 0 <= day /\ day < 36525
      /\ tick \in Int /\ 0 <= tick /\ tick < D /\ local = day * D + tick
  <2>1. 0 * D <= local /\ local < 36525 * D
    BY <1>1 DEF Century
  <2> QED
    BY <1>1, <2>1, DivBounds
<1>3. EncodeLocal(local) = Packed(date, tick)
  BY DEF EncodeLocal
<1> HIDE DEF day, tick
<1>4. IsDate(date) /\ DayOf(date) = day /\ 2000 <= date.year /\ date.year <= 2099
  BY <1>2, YearsOf
<1> HIDE DEF date
<1>5. /\ Packed(date, tick) % D = tick
      /\ DecodedDate(Packed(date, tick))
           = [year |-> 2000 + (date.year % 100), month |-> date.month, day |-> date.day]
  BY <1>2, <1>4, PackedParts
<1>6. date.year \in Int /\ date = [year |-> date.year, month |-> date.month, day |-> date.day]
  BY <1>4 DEF IsDate, Dates
<1>7. 2000 + (date.year % 100) = date.year
  BY <1>4, <1>6
<1>8. DecodedDate(Packed(date, tick)) = date
  BY <1>5, <1>6, <1>7
<1>9. DayOf(DecodedDate(EncodeLocal(local))) * D + (EncodeLocal(local) % D) = local
  BY <1>2, <1>3, <1>4, <1>5, <1>8
<1> QED
  BY <1>9 DEF DecodeZKTime

-----------------------------------------------------------------------------
(* The specification.  A clock that was set shows the local time of its    *)
(* zone up to the end of 2099; one that was not has counted the centuries  *)
(* over from the start.                                                    *)

CodecIInv ==
  /\ TypeOK
  /\ zone # Unset /\ now + zone < Century => stored = EncodeLocal(now + zone)
  /\ zone = Unset => stored = EncodeLocal((now + Before) % Century)

LEMMA PackedFits ==
  ASSUME CodecAssumption, NEW date, date.year \in Int, date.month \in 1 .. 12, date.day \in 1 .. 31,
         NEW tick \in 0 .. DayTicks - 1
  PROVE  Packed(date, tick) \in 0 .. 100 * 12 * 31 * DayTicks - 1
<1> DEFINE c == date.year % 100
           m == date.month
           d == date.day
           days == c * 12 * 31 + (m - 1) * 31 + d - 1
<1>1. c \in 0 .. 99 /\ m \in 1 .. 12 /\ d \in 1 .. 31
  OBVIOUS
<1>2. Packed(date, tick) = days * DayTicks + tick
  BY DEF Packed
<1> HIDE DEF c, m, d
<1>3. days \in Int /\ 0 <= days /\ days <= 100 * 12 * 31 - 1
  BY <1>1
<1>4. DayTicks \in Nat \ {0} /\ tick \in Int /\ 0 <= tick /\ tick < DayTicks
  BY DEF CodecAssumption
<1> HIDE DEF days
<1>5. 0 <= days * DayTicks /\ days * DayTicks <= 37199 * DayTicks /\ days * DayTicks \in Int
  BY <1>3, <1>4
<1> QED
  BY <1>2, <1>4, <1>5

LEMMA CodecInit ==
  ASSUME CodecAssumption, Init
  PROVE  CodecIInv
<1>1. DayTicks \in Nat \ {0} /\ Before \in Nat /\ End \in Nat
  BY DEF CodecAssumption
<1>2. TypeOK
  BY <1>1 DEF Init, TypeOK
<1>3. (now + Before) % Century = 0
  <2>1. now + Before = 0
    BY <1>1 DEF Init
  <2>2. Century \in Nat \ {0}
    BY <1>1 DEF Century
  <2> HIDE DEF Century
  <2> QED
    BY <2>1, <2>2
<1> QED
  BY <1>2, <1>3, CenturyStarts DEF CodecIInv, Init

LEMMA SetStep ==
  ASSUME CodecAssumption, CodecIInv, SetDeviceTime
  PROVE  CodecIInv'
<1> DEFINE D == DayTicks
           local == Local(now)
           day == local \div D
           tick == local % D
<1>1. /\ D \in Nat \ {0} /\ Shift \in 0 .. D
      /\ now \in Int /\ -(99 * 365 * D) <= now /\ now <= 200 * 365 * D
  BY DEF CodecAssumption, CodecIInv, TypeOK
<1>2. Offset(now) \in {0, Shift} /\ local = now + Offset(now)
  BY DEF Offset, Local
<1>3. local \in Int /\ -36159 * D <= local /\ local < 73049 * D
  BY <1>1, <1>2
<1> HIDE DEF local
<1>4. /\ day \in Int /\ -36159 <= day /\ day < 73049
      /\ tick \in Int /\ 0 <= tick /\ tick < D
  BY <1>1, <1>3, DivBounds
<1>5. stored' = EncodeLocal(local) /\ zone' = Offset(now) /\ now' = now
  BY DEF SetDeviceTime, EncodeZKTime, EncodeLocal, local
<1>6. stored' \in 0 .. 100 * 12 * 31 * D - 1
  <2> HIDE DEF day, tick
  <2>1. IsDate(DateOf(day))
    BY <1>4, DateFound
  <2>2. tick \in 0 .. D - 1
    BY <1>1, <1>4
  <2>3. Packed(DateOf(day), tick) \in 0 .. 100 * 12 * 31 * D - 1
    BY <2>1, <2>2, PackedFits DEF IsDate, Dates
  <2> QED
    BY <1>5, <2>3 DEF EncodeLocal, day, tick
<1>7. zone' # Unset /\ zone' \in {0, Shift}
  BY <1>1, <1>2, <1>5 DEF Unset
<1> QED
  BY <1>1, <1>2, <1>5, <1>6, <1>7 DEF CodecIInv, TypeOK

LEMMA TickedFits ==
  ASSUME CodecAssumption, NEW v \in 0 .. 100 * 12 * 31 * DayTicks - 1
  PROVE  Ticked(v) \in 0 .. 100 * 12 * 31 * DayTicks - 1
<1> DEFINE D == DayTicks
           day == v \div D
           tick == v % D
           date == DecodedDate(v)
<1>1. D \in Nat \ {0}
  BY DEF CodecAssumption
<1>2. /\ day \in Int /\ 0 <= day /\ day < 37200
      /\ tick \in Int /\ 0 <= tick /\ tick < D /\ v = day * D + tick
  <2>1. v \in Int /\ 0 * D <= v /\ v < 37200 * D
    BY <1>1
  <2> QED
    BY <1>1, <2>1, DivBounds
<1>3. CASE tick < D - 1
  <2>1. Ticked(v) = v + 1
    BY <1>3 DEF Ticked
  <2> HIDE DEF day, tick
  <2>2. day * D <= 37199 * D /\ day * D \in Int
    BY <1>1, <1>2
  <2> QED
    BY <1>1, <1>2, <1>3, <2>1, <2>2
<1>4. CASE ~(tick < D - 1)
  <2>1. Ticked(v) = Packed(NextDate(date), 0)
    BY <1>4 DEF Ticked
  <2>2. date = [year |-> 2000 + day \div (12 * 31), month |-> ((day \div 31) % 12) + 1,
                day |-> (day % 31) + 1]
    BY DEF DecodedDate
  <2> HIDE DEF day, tick, date
  <2>3. date \in IntDates /\ date.month \in 1 .. 12 /\ date.day \in 1 .. 31
    BY <1>2, <2>2 DEF IntDates
  <2>4. DaysIn(date.year, date.month) \in 28 .. 31
    BY DEF DaysIn
  <2>5. /\ NextDate(date).year \in Int /\ NextDate(date).month \in 1 .. 12
        /\ NextDate(date).day \in 1 .. 31
    BY <2>3, <2>4, NextParts DEF IntDates
  <2>6. 0 \in 0 .. D - 1
    BY <1>1
  <2> QED
    BY <2>1, <2>5, <2>6, PackedFits
<1> QED
  BY <1>3, <1>4

LEMMA TickStep ==
  ASSUME CodecAssumption, CodecIInv, Tick
  PROVE  CodecIInv'
<1> DEFINE D == DayTicks
           x == (now + Before) % Century
<1>1. /\ D \in Nat \ {0} /\ Shift \in 0 .. D /\ Before \in Nat
      /\ Before <= 99 * 365 * D /\ now \in Int /\ -Before <= now
      /\ now \in -Before .. End /\ now < End /\ zone \in {Unset, 0, Shift}
  BY DEF CodecAssumption, CodecIInv, TypeOK, Tick
<1>2. now' = now + 1 /\ stored' = Ticked(stored) /\ zone' = zone
  BY DEF Tick
<1>3. TypeOK'
  <2>1. stored' \in 0 .. 100 * 12 * 31 * DayTicks - 1
    BY <1>2, TickedFits DEF CodecIInv, TypeOK
  <2>2. now' \in -Before .. End
    BY <1>1, <1>2 DEF CodecAssumption
  <2> QED
    BY <1>1, <1>2, <2>1, <2>2 DEF TypeOK
<1>4. Century \in Nat \ {0} /\ Century = 36525 * D
  BY <1>1 DEF Century
<1>5. ASSUME zone # Unset, (now + 1) + zone < Century
      PROVE  stored' = EncodeLocal((now + 1) + zone)
  <2> DEFINE local == now + zone
  <2>1. local \in Int /\ -36159 * D <= local /\ local < Century /\ local + 1 = (now + 1) + zone
    BY <1>1, <1>4, <1>5
  <2>2. stored = EncodeLocal(local)
    BY <1>5, <2>1 DEF CodecIInv
  <2> HIDE DEF local
  <2>3. Ticked(EncodeLocal(local)) = EncodeLocal(local + 1)
    BY <2>1, TickedLocal
  <2> QED
    BY <1>2, <2>1, <2>2, <2>3
<1>6. ASSUME zone = Unset
      PROVE  stored' = EncodeLocal(((now + 1) + Before) % Century)
  <2>1. now + Before \in Nat
    BY <1>1
  <2>2. x \in Int /\ 0 <= x /\ x < Century
    BY <1>4, <2>1
  <2>3. stored = EncodeLocal(x)
    BY <1>6 DEF CodecIInv
  <2>4. ((now + 1) + Before) % Century = IF x + 1 = Century THEN 0 ELSE x + 1
    <3> DEFINE w == now + Before
               q == w \div Century
    <3>1. w = q * Century + x /\ q \in Int
      <4>1. w \in Int
        BY <1>1
      <4> HIDE DEF w
      <4>2. w = (w \div Century) * Century + (w % Century) /\ w \div Century \in Int
        BY <1>4, <4>1
      <4> QED
        BY <4>2 DEF w
    <3>2. (now + 1) + Before = w + 1
      BY <1>1
    <3> HIDE DEF w, q, x
    <3>3. CASE x + 1 = Century
      <4>1. w + 1 = (q + 1) * Century + 0
        BY <1>4, <2>2, <3>1, <3>3
      <4>2. q + 1 \in Int /\ 0 \in Int /\ 0 <= 0 /\ 0 < Century
        BY <1>4, <3>1
      <4>3. ((q + 1) * Century + 0) % Century = 0
        BY <1>4, <4>2, DayAndTick
      <4> QED
        BY <3>2, <3>3, <4>1, <4>3
    <3>4. CASE x + 1 # Century
      <4> DEFINE after == x + 1
      <4>1. w + 1 = q * Century + after
        BY <1>4, <2>2, <3>1
      <4>2. after \in Int /\ 0 <= after /\ after < Century
        BY <1>4, <2>2, <3>4
      <4> HIDE DEF after
      <4>3. (q * Century + after) % Century = after
        BY <1>4, <3>1, <4>2, DayAndTick
      <4> QED
        BY <3>2, <3>4, <4>1, <4>3 DEF after
    <3> QED
      BY <3>3, <3>4
  <2>5. -36159 * D <= x
    BY <1>1, <2>2
  <2> HIDE DEF x
  <2>6. Ticked(EncodeLocal(x)) = EncodeLocal(x + 1)
    BY <2>2, <2>5, TickedLocal
  <2> QED
    BY <1>2, <2>3, <2>4, <2>6, CenturyStarts
<1> HIDE DEF x
<1> QED
  BY <1>2, <1>3, <1>5, <1>6 DEF CodecIInv

LEMMA CodecStep ==
  ASSUME CodecAssumption, CodecIInv, [Next]_vars
  PROVE  CodecIInv'
<1>1. CASE UNCHANGED vars
  BY <1>1 DEF vars, CodecIInv, TypeOK
<1> QED
  BY <1>1, SetStep, TickStep DEF Next

LEMMA CodecReads ==
  ASSUME CodecAssumption, CodecIInv
  PROVE  ReadsAsSet
<1>1. /\ DayTicks \in Nat \ {0} /\ Shift \in Int /\ 0 <= Shift /\ Before \in Nat
      /\ now \in Int /\ -Before <= now /\ zone \in {Unset, 0, Shift}
  BY DEF CodecAssumption, CodecIInv, TypeOK
<1>2. MonthDay(2100, 1) = 36525
  BY MonthsLie, CenturyDays
<1>3. MonthDay(2100, 1) * DayTicks = Century
  BY <1>2 DEF Century
<1>4. ASSUME zone # Unset, InCentury
      PROVE  /\ \A r \in DecodeZKTime(stored) : r - now \in -Shift .. Shift
             /\ (zone = Offset(now) /\ InstantsOf(Local(now)) = {now}) =>
                  DecodeZKTime(stored) = {now}
  <2> DEFINE local == now + zone
  <2>1. local \in Int /\ 0 <= local /\ local < Century /\ zone \in Int /\ zone \in {0, Shift}
    BY <1>1, <1>3, <1>4 DEF InCentury
  <2>2. stored = EncodeLocal(local)
    BY <1>4, <2>1 DEF CodecIInv
  <2>3. local - now = zone
    BY <1>1, <2>1
  <2>4. zone = Offset(now) => local = Local(now)
    BY DEF Local
  <2> HIDE DEF local
  <2>5. DecodeZKTime(stored) = InstantsOf(local)
    BY <2>1, <2>2, DecodedLocal
  <2>6. \A r \in InstantsOf(local) : r = local \/ r = local - Shift
    BY DEF InstantsOf
  <2>7. /\ local - now \in -Shift .. Shift
        /\ (local - Shift) - now \in -Shift .. Shift
    BY <1>1, <2>1, <2>3
  <2> QED
    BY <2>4, <2>5, <2>6, <2>7
<1>5. ASSUME zone = Unset
      PROVE  DecodeZKTime(stored) = InstantsOf((now + Before) % Century)
  <2> DEFINE x == (now + Before) % Century
  <2>1. Century \in Nat \ {0}
    BY <1>1 DEF Century
  <2>2. now + Before \in Int
    BY <1>1
  <2>3. x \in Int /\ 0 <= x /\ x < Century
    BY <2>1, <2>2
  <2>4. stored = EncodeLocal(x)
    BY <1>5 DEF CodecIInv
  <2> HIDE DEF x
  <2>5. DecodeZKTime(stored) = InstantsOf(x)
    BY <2>3, <2>4, DecodedLocal
  <2> QED
    BY <2>5 DEF x
<1> QED
  BY <1>3, <1>4, <1>5 DEF ReadsAsSet

\* Whenever the device is set, and however long it runs on, its clock fits the
\* four bytes it is sent in.
THEOREM TypeCorrect ==
  ASSUME CodecAssumption
  PROVE  Spec => []TypeOK
<1>1. CodecIInv => TypeOK
  BY DEF CodecIInv
<1> QED
  BY <1>1, CodecInit, CodecStep, PTL DEF Spec

\* On every day from 2000 to 2099, over leap years and the ends of months, what
\* is decoded from the device's clock is the server's time, but for summer time.
THEOREM ReadsBack ==
  ASSUME CodecAssumption
  PROVE  Spec => []ReadsAsSet
<1>1. CodecIInv => ReadsAsSet
  BY CodecReads
<1> QED
  BY <1>1, CodecInit, CodecStep, PTL DEF Spec

=============================================================================
