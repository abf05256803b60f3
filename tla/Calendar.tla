------------------------------ MODULE Calendar ------------------------------
(***************************************************************************)
(* The conversions of lib/time.c between seconds since 1970 and dates, and *)
(* a calendar that counts days one by one, which they have to agree with.  *)
(* Seconds are kept as a day and a second of that day: the last of the 32  *)
(* bits of seconds is 06:28:15 on the day after 49,710 whole ones.         *)
(***************************************************************************)
EXTENDS Integers

CONSTANTS
  LastDay, LastSecond,  \* the last moment that seconds have bits for
  Moments               \* seconds of a day that are looked at

SECONDS_IN_MINUTE == 60
SECONDS_IN_HOUR   == 3600
SECONDS_IN_DAY    == 86400
EPOCH_YEAR        == 1970
JANUARY           == 0
FEBRUARY          == 1
DECEMBER          == 11
THURSDAY          == 4

\* What every instance assumes of the constants (the MC modules state it).
DaysAssumption    == LastDay \in Nat /\ LastSecond \in 0..(SECONDS_IN_DAY - 1)
MomentsAssumption == Moments \subseteq 0..(SECONDS_IN_DAY - 1)

days_in_month == <<31, 28, 31, 30, 31, 30, 31, 31, 30, 31, 30, 31>>

\* Mutant: every fourth year is a leap year.
M_leap_year(year) == year % 4 = 0

IS_LEAP_YEAR(year) == (year % 4 = 0 /\ year % 100 # 0) \/ year % 400 = 0

get_days_in_month(month, year) ==
  IF month = FEBRUARY /\ IS_LEAP_YEAR(year) THEN 29 ELSE days_in_month[month + 1]

DaysInYear(year) == IF IS_LEAP_YEAR(year) THEN 366 ELSE 365

-----------------------------------------------------------------------------
(***************************************************************************)
(* unix_time_to_time()                                                     *)
(***************************************************************************)
Years  == [year : Nat, days : Nat]
Months == [year : Nat, month : JANUARY..(DECEMBER + 1), days : Nat]

\* The loop over the years, from where it stands to where it ends: the year, and the days
\* that are left of it.
YearOf[at \in Years] ==
  IF at.days >= DaysInYear(at.year)
  THEN YearOf[[year |-> at.year + 1, days |-> at.days - DaysInYear(at.year)]]
  ELSE at

\* The loop over the months of a year; after DECEMBER it ends in any case.
MonthOf[at \in Months] ==
  IF at.month <= DECEMBER /\ at.days >= get_days_in_month(at.month, at.year)
  THEN MonthOf[[at EXCEPT !.month = at.month + 1,
                          !.days = at.days - get_days_in_month(at.month, at.year)]]
  ELSE at

unix_time_to_time(day, second) ==
  LET y == YearOf[[year |-> EPOCH_YEAR, days |-> day]]
      m == MonthOf[[year |-> y.year, month |-> JANUARY, days |-> y.days]]
  IN [hours   |-> second \div SECONDS_IN_HOUR,
      minutes |-> (second % SECONDS_IN_HOUR) \div SECONDS_IN_MINUTE,
      seconds |-> (second % SECONDS_IN_HOUR) % SECONDS_IN_MINUTE,
      year |-> y.year, month |-> m.month, day |-> m.days + 1,
      weekday |-> (day + 4) % 7]

-----------------------------------------------------------------------------
(***************************************************************************)
(* time_to_unix_time()                                                     *)
(***************************************************************************)
DaysBefore[year \in Nat] ==
  IF year <= EPOCH_YEAR THEN 0 ELSE DaysBefore[year - 1] + DaysInYear(year - 1)

DaysOfMonths(month, year) ==
  LET sum[m \in JANUARY..DECEMBER] ==
        IF m = JANUARY THEN 0 ELSE sum[m - 1] + get_days_in_month(m - 1, year)
  IN sum[month]

\* Mutant: the months are those of the year before.
M_time_to_unix_time(tm) ==
  [days   |-> DaysBefore[tm.year] + DaysOfMonths(tm.month, tm.year - 1) + tm.day - 1,
   second |-> tm.hours * SECONDS_IN_HOUR + tm.minutes * SECONDS_IN_MINUTE + tm.seconds]

time_to_unix_time(tm) ==
  [days   |-> DaysBefore[tm.year] + DaysOfMonths(tm.month, tm.year) + tm.day - 1,
   second |-> tm.hours * SECONDS_IN_HOUR + tm.minutes * SECONDS_IN_MINUTE + tm.seconds]

-----------------------------------------------------------------------------
(***************************************************************************)
(* A calendar, day by day                                                  *)
(***************************************************************************)
VARIABLES days, date
vars == <<days, date>>

\* 1 January 1970 was a Thursday.
Init == days = 0 /\ date = [year |-> EPOCH_YEAR, month |-> JANUARY, day |-> 1, weekday |-> THURSDAY]

LeapDay(d) == d.month = FEBRUARY /\ d.day = 28 /\ d.year % 4 = 0
              /\ (d.year % 100 = 0 => d.year % 400 = 0)

LastOfMonth(d) ==
  \/ d.month = FEBRUARY /\ (d.day = 29 \/ (d.day = 28 /\ ~LeapDay(d)))
  \/ d.month \in {3, 5, 8, 10} /\ d.day = 30
  \/ d.month \notin {FEBRUARY, 3, 5, 8, 10} /\ d.day = 31

Tomorrow ==
  /\ days < LastDay
  /\ days' = days + 1
  /\ date' = [weekday |-> (date.weekday + 1) % 7,
              day     |-> IF LastOfMonth(date) THEN 1 ELSE date.day + 1,
              month   |-> IF LastOfMonth(date) THEN (date.month + 1) % 12 ELSE date.month,
              year    |-> IF LastOfMonth(date) /\ date.month = DECEMBER THEN date.year + 1
                          ELSE date.year]

Next == Tomorrow
Spec == Init /\ [][Next]_vars

-----------------------------------------------------------------------------
(***************************************************************************)
(* Properties                                                              *)
(***************************************************************************)
Converted(second) == unix_time_to_time(days, second)

\* unix_time_to_time() gives the date of every day that 32 bits of seconds reach.
DatesAreRight ==
  LET tm == Converted(0)
  IN [year |-> tm.year, month |-> tm.month, day |-> tm.day, weekday |-> tm.weekday] = date

\* The moments of a day that 32 bits of seconds reach.
Reached == {s \in Moments : days < LastDay \/ s <= LastSecond}

\* time_to_unix_time() undoes it, at the last second of a day and at the very last as well.
ConversionsAreInverse ==
  \A s \in Reached : time_to_unix_time(Converted(s)) = [days |-> days, second |-> s]

\* Dates and seconds are two names of one moment.
CalendarIsRight == DatesAreRight /\ ConversionsAreInverse
=============================================================================
