------------------------------ MODULE TimeCodec ------------------------------
(***************************************************************************)
(* The calendar of the device: encodeZKTime and decodeZKTime               *)
(* (attendance_raw.go) around a device clock that is set, runs on by its   *)
(* own calendar, and is read again.                                        *)
(*                                                                         *)
(* The device counts a year as 12 months of 31 days and knows the last two *)
(* digits of a year; the server turns what it reads back into an instant   *)
(* with time.Date, in its local time.  Instants are counted in ticks, zero *)
(* being the start of 2000 in local winter time; hours, minutes and        *)
(* seconds are one number, the tick of the day.                            *)
(***************************************************************************)
EXTENDS Integers

CONSTANTS
  DayTicks,               \* ticks in a day: 24 * 60 * 60
  Shift,                  \* by how much local summer time is ahead
  SummerFrom, SummerTill, \* the instants between which it is
  Before,                 \* bound: the server's clock begins so long before 2000
  End                    \* bound: and ends here

VARIABLES
  now,     \* the server's clock
  stored,  \* the device's clock, as the device encodes it
  zone     \* history: the offset of local time when it was set, or Unset

vars == <<now, stored, zone>>

Unset == -1

-----------------------------------------------------------------------------
(* Calendars.  A day is counted from 2000-01-01, a date is a record.        *)

IsLeap(y) == y % 4 = 0 /\ (y % 100 # 0 \/ y % 400 = 0)

DaysIn(y, m) ==
  CASE m = 2 -> IF IsLeap(y) THEN 29 ELSE 28
    [] m \in {4, 6, 9, 11} -> 30
    [] OTHER -> 31

\* Leap days between the starts of year 1 and year y, from 2000 on.
LeapDays(y) ==
  LET past == y - 1 IN past \div 4 - past \div 100 + past \div 400
YearDay(y) == 365 * (y - 2000) + LeapDays(y) - LeapDays(2000)

\* The day on which month m of year y begins.
MonthOffset == <<0, 31, 59, 90, 120, 151, 181, 212, 243, 273, 304, 334>>
MonthDay(y, m) ==
  YearDay(y) + MonthOffset[m] + IF m > 2 /\ IsLeap(y) THEN 1 ELSE 0

\* time.Date carries a day too many into the next month.
DayOf(date) == MonthDay(date.year, date.month) + date.day - 1

YearOf(day) ==
  LET guess == 2000 + day \div 366 IN
  CHOOSE y \in guess - 1 .. guess + 2 : YearDay(y) <= day /\ day < YearDay(y + 1)
MonthOf(year, day) ==
  CHOOSE m \in 1 .. 12 :
    MonthDay(year, m) <= day /\ (m = 12 \/ day < MonthDay(year, m + 1))

DateOf(day) ==
  LET year == YearOf(day)
      month == MonthOf(year, day)
  IN [year |-> year, month |-> month, day |-> day - MonthDay(year, month) + 1]

-----------------------------------------------------------------------------
(* The server *)

Offset(instant) == IF SummerFrom <= instant /\ instant < SummerTill THEN Shift ELSE 0
Local(instant) == instant + Offset(instant)

\* A date and a tick of the day as the device counts them.  Two variants: months
\* counted from 1, and the whole year.
PackedFrom1(date, tick) ==
  ((date.year % 100) * 12 * 31 + date.month * 31 + date.day - 1) * DayTicks + tick
PackedWholeYear(date, tick) ==
  ((date.year - 2000) * 12 * 31 + (date.month - 1) * 31 + date.day - 1) * DayTicks
    + tick
Packed(date, tick) ==
  ((date.year % 100) * 12 * 31 + (date.month - 1) * 31 + date.day - 1) * DayTicks
    + tick

EncodeZKTime(instant) ==
  Packed(DateOf(Local(instant) \div DayTicks), Local(instant) % DayTicks)

\* The fields that decodeZKTime takes from a value.
DecodedDate(v) ==
  LET days == v \div DayTicks IN
  [year |-> 2000 + days \div (12 * 31), month |-> ((days \div 31) % 12) + 1,
   day |-> (days % 31) + 1]

\* time.Date: a local time that came twice is one of two instants, and one that
\* was skipped is read in one of the two zones.
InstantsOf(local) ==
  LET proper == {i \in {local, local - Shift} : Local(i) = local} IN
  IF proper = {} THEN {local, local - Shift} ELSE proper

DecodeZKTime(v) == InstantsOf(DayOf(DecodedDate(v)) * DayTicks + (v % DayTicks))

\* SetDeviceTime, with the server's time.
SetDeviceTime ==
  /\ stored' = EncodeZKTime(now)
  /\ zone' = Offset(now)
  /\ UNCHANGED now

-----------------------------------------------------------------------------
(* The device and time *)

\* The device's next date: its months have their lengths, its years two digits.
NextDate(date) ==
  IF date.day < DaysIn(date.year, date.month) THEN [date EXCEPT !.day = @ + 1]
  ELSE IF date.month < 12 THEN [date EXCEPT !.month = @ + 1, !.day = 1]
  ELSE [year |-> date.year + 1, month |-> 1, day |-> 1]

\* The device's clock one tick on.
Ticked(v) ==
  IF v % DayTicks < DayTicks - 1 THEN v + 1
  ELSE Packed(NextDate(DecodedDate(v)), 0)

Tick ==
  /\ now < End
  /\ now' = now + 1
  /\ stored' = Ticked(stored)
  /\ UNCHANGED zone

-----------------------------------------------------------------------------
\* A device that was never set, or whose battery is empty, begins with zero.
Init ==
  /\ now = -Before
  /\ stored = 0
  /\ zone = Unset

Next == SetDeviceTime \/ Tick

Spec == Init /\ [][Next]_vars

-----------------------------------------------------------------------------
(* Properties *)

\* The value always fits the four bytes it is sent in.
TypeOK ==
  /\ now \in -Before .. End
  /\ stored \in 0 .. 100 * 12 * 31 * DayTicks - 1
  /\ zone \in {Unset, 0, Shift}

InCentury ==
  \A local \in {Local(now), now + zone} :
    0 <= local /\ local < MonthDay(2100, 1) * DayTicks

\* Whenever the device was set, and over the ends of months, leap years and the
\* turn of 1999: from 2000 to 2099 its clock reads as the server's.  Only a
\* change between summer and winter time since then, or the hour that comes
\* twice, makes a difference, and that of one shift.  A clock that was never set
\* reads 2000-01-01 and the time that it has run.
ReadsAsSet ==
  /\ zone # Unset /\ InCentury =>
       /\ \A r \in DecodeZKTime(stored) : r - now \in -Shift .. Shift
       /\ (zone = Offset(now) /\ InstantsOf(Local(now)) = {now}) =>
            DecodeZKTime(stored) = {now}
  /\ zone = Unset =>
       DecodeZKTime(stored) =
         InstantsOf((now + Before) % (MonthDay(2100, 1) * DayTicks))

=============================================================================
