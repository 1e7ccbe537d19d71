------------------------------ MODULE Calendar ------------------------------
(***************************************************************************)
(* dayofweek of drivers/sys/rtc.c, with which rtc_set_time finds the day   *)
(* of the week that it writes to the clock: 0 is Sunday.                   *)
(***************************************************************************)
EXTENDS Integers

\* A defective variant: January and February count in their own year.
Adjustment_None(month) == 0

Adjustment(month) == (14 - month) \div 12

DayOfWeek(day, month, year) ==
  LET mm == month + 12 * Adjustment(month) - 2
      yy == year - Adjustment(month)
  IN  (day + (13 * mm - 1) \div 5 + yy + yy \div 4 - yy \div 100 + yy \div 400) % 7

-----------------------------------------------------------------------------
(* The reference: counting the days.                                       *)

Leap(year) == year % 4 = 0 /\ (year % 100 # 0 \/ year % 400 = 0)

DaysIn(month, year) ==
  IF month = 2 THEN IF Leap(year) THEN 29 ELSE 28
  ELSE IF month \in {4, 6, 9, 11} THEN 30 ELSE 31

\* The day after a date, with its day of the week.
DayAfter(d) ==
  [d EXCEPT
    !.dow = (@ + 1) % 7,
    !.day = IF @ = DaysIn(d.month, d.year) THEN 1 ELSE @ + 1,
    !.month = IF d.day < DaysIn(d.month, d.year) THEN @ ELSE IF @ = 12 THEN 1 ELSE @ + 1,
    !.year = IF d.day = 31 /\ d.month = 12 THEN @ + 1 ELSE @]

\* The first of January 2000, the first day the clock can hold, was a Saturday.
FirstDay == [day |-> 1, month |-> 1, year |-> 2000, dow |-> 6]

\* The day of the week by the number of days since, for the year 2000 + y of
\* this century: a leap year is every fourth, and longer from March on.
DaysBefore == <<0, 31, 59, 90, 120, 151, 181, 212, 243, 273, 304, 334>>
CountedWeekday(day, month, y) ==
  (6 + 365 * y + (y + 3) \div 4 + DaysBefore[month]
     + (IF month > 2 /\ y % 4 = 0 THEN 1 ELSE 0) + day - 1) % 7
=============================================================================
