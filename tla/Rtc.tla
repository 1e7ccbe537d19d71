-------------------------------- MODULE Rtc ---------------------------------
(***************************************************************************)
(* rtc_get_time and rtc_set_time of drivers/sys/rtc.c: the registers of    *)
(* the clock chip hold one decimal digit each, are read or written one at  *)
(* a time, and the clock goes on between two accesses.  (The HOLD bit      *)
(* keeps it still during one access only; waiting for BUSY to clear is     *)
(* part of an access.)                                                     *)
(***************************************************************************)
EXTENDS Calendar, Sequences

CONSTANTS
  Times,    \* the times the clock may start from, and that do_time may set
  MaxTicks  \* bound: seconds that go by

Fields == {"hour", "min", "sec", "day", "month", "year", "dow"}

\* Times of this century, each with the day of the week of its date.
ASSUME RtcAssumption ==
  /\ Times \subseteq [Fields -> Nat]
  /\ \A t \in Times :
       /\ t.sec < 60 /\ t.month \in 1 .. 12 /\ t.year < 100
       /\ t.dow = CountedWeekday(t.day, t.month, t.year)

VARIABLES
  clock,    \* what the registers hold, as numbers; year is 0 .. 99
  rtc,      \* the call: what it does, its next access, its date, the date asked for
  seen,     \* history: what the clock showed since the call began
  carried,  \* history: a digit other than the last of the seconds has changed
  ticks,    \* history: seconds gone by
  fresh     \* history: seconds gone by since the seconds were written

rtcVars == <<clock, rtc, seen, carried, ticks, fresh>>

Nobody == [does |-> "nothing", next |-> 1]
NoTime == [f \in Fields |-> 0]

\* The order of the accesses; a register is a field and the weight of its digit.
Weekday == <<<<"dow", 1>>>>
ReadOrder ==
  <<<<"hour", 1>>, <<"hour", 10>>, <<"min", 1>>, <<"min", 10>>, <<"sec", 1>>, <<"sec", 10>>,
    <<"day", 1>>, <<"day", 10>>, <<"month", 1>>, <<"month", 10>>, <<"year", 1>>,
    <<"year", 10>>>> \o Weekday
WriteOrder ==
  <<<<"year", 10>>, <<"year", 1>>, <<"month", 10>>, <<"month", 1>>, <<"day", 10>>, <<"day", 1>>,
    <<"hour", 10>>, <<"hour", 1>>, <<"min", 10>>, <<"min", 1>>, <<"sec", 10>>,
    <<"sec", 1>>>> \o Weekday

Digit(v, weight) == IF weight = 10 THEN v \div 10 ELSE v % 10
\* A defective variant: the digit replaces the number.
PutDigit_Only(v, weight, d) == d * weight
PutDigit(v, weight, d) == v - Digit(v, weight) * weight + d * weight

RtcInit ==
  /\ clock \in Times
  /\ rtc = Nobody
  /\ seen = {} /\ carried = FALSE /\ ticks = 0 /\ fresh = 0

-----------------------------------------------------------------------------
(* The chip (external): a second goes by.                                  *)
Midnight(t) ==
  LET d == DayAfter([day |-> t.day, month |-> t.month, year |-> 2000 + t.year, dow |-> t.dow])
  IN  [t EXCEPT !.day = d.day, !.month = d.month, !.year = (d.year - 2000) % 100, !.dow = d.dow]
SecondAfter(t) ==
  LET later == [t EXCEPT
                  !.sec = (@ + 1) % 60,
                  !.min = IF t.sec = 59 THEN (@ + 1) % 60 ELSE @,
                  !.hour = IF t.sec = 59 /\ t.min = 59 THEN (@ + 1) % 24 ELSE @]
  IN  IF t.sec = 59 /\ t.min = 59 /\ t.hour = 23 THEN Midnight(later) ELSE later

Idle == rtc.does = "nothing" \/ rtc.next > Len(ReadOrder)

SecondGoesBy ==
  /\ ticks < MaxTicks
  /\ clock' = SecondAfter(clock)
  /\ ticks' = ticks + 1
  /\ fresh' = fresh + 1
  /\ seen' = IF Idle THEN seen ELSE seen \cup {clock'}
  /\ carried' = (carried \/ clock.sec % 10 = 9)
  /\ UNCHANGED rtc

-----------------------------------------------------------------------------
(* The calls.                                                              *)

Begins(does, date, asked) ==
  /\ Idle
  /\ rtc' = [does |-> does, next |-> 1, date |-> date, asked |-> asked]
  /\ seen' = {clock} /\ carried' = FALSE
  /\ UNCHANGED <<clock, ticks, fresh>>

GetTime == Begins("get", NoTime, NoTime)

ReadRegister ==
  LET r == ReadOrder[rtc.next]
  IN  /\ rtc.does = "get" /\ ~Idle
      /\ rtc' = [rtc EXCEPT !.next = @ + 1,
                            !.date[r[1]] = PutDigit(@, r[2], Digit(clock[r[1]], r[2]))]
      /\ UNCHANGED <<clock, seen, carried, ticks, fresh>>

\* do_time with a date; the day of the week is computed, not asked for.
SetTime(t) ==
  Begins("set", [t EXCEPT !.dow = DayOfWeek(t.day, t.month, 2000 + t.year)], t)

WriteRegister ==
  LET r == WriteOrder[rtc.next]
  IN  /\ rtc.does = "set" /\ ~Idle
      /\ clock' = [clock EXCEPT ![r[1]] = PutDigit(@, r[2], Digit(rtc.date[r[1]], r[2]))]
      /\ rtc' = [rtc EXCEPT !.next = @ + 1]
      /\ fresh' = IF r = <<"sec", 1>> THEN 0 ELSE fresh
      /\ UNCHANGED <<seen, carried, ticks>>

RtcNext ==
  \/ SecondGoesBy \/ GetTime \/ ReadRegister \/ WriteRegister
  \/ \E t \in Times : SetTime(t)

RtcSpec == RtcInit /\ [][RtcNext]_rtcVars

-----------------------------------------------------------------------------
(* Properties.                                                             *)

Finished(does) == rtc.does = does /\ Idle

\* What rtc_get_time returns is a time that the clock showed during the call,
\* unless a digit rolled over meanwhile: only then can 10:59 be read as 10:00.
ReadIsATime == Finished("get") /\ ~carried => rtc.date \in seen

\* After rtc_set_time the clock shows the date set, with its day of the week,
\* and the seconds gone by since the seconds were written, unless a digit
\* rolled over during the call.
SetTakesEffect ==
  Finished("set") /\ ~carried => clock = [rtc.asked EXCEPT !.sec = @ + fresh]
=============================================================================
