------------------------------- MODULE Dates -------------------------------
(***************************************************************************)
(* class Date, src/src/server/date.h: a day is kept as a Julian day and    *)
(* converted from and to yyyymmdd.  Every Date lies half a day after an    *)
(* integer; what is kept here is julian = m_julian_day + 0.5.  The factors *)
(* 365.25, 30.6001 and 36524.25 are fractions; the floor of the quotient is*)
(* that of the double, as no product comes near enough to an integer from  *)
(* below to be rounded up.                                                 *)
(***************************************************************************)
EXTENDS Integers

CONSTANTS
  FirstDays,   \* the days whose texts a Date is made from, of years with four digits
  ClockDays,   \* the days, counted from 1970, the clock may show
  Julians,     \* a bound of the model: the days a Date is moved to, in the same years
  Steps        \* and the numbers of days it is moved by at a time

ASSUME DatesAssumption ==
  /\ FirstDays \subseteq [year : Nat \ {0}, month : 1 .. 12, day : 1 .. 31]
  /\ \A d \in FirstDays : d.year <= 9999
  /\ ClockDays \subseteq Nat
  /\ \A z \in Julians : z \in Nat /\ 1721426 <= z /\ z <= 5373484
  /\ Steps \subseteq Nat

VARIABLE julian

UnixEpoch == 2440588   \* UNIX_EPOCH_JULIAN_DAY + 0.5

ymd_to_julian_day(d) ==
  LET early == d.month <= 2
      year  == IF early THEN d.year - 1 ELSE d.year
      month == IF early THEN d.month + 12 ELSE d.month
      a     == year \div 100
  IN  2 - a + a \div 4 + d.day + (1461 * (year + 4716)) \div 4
        + (306001 * (month + 1)) \div 10000 - 1524

(* Mutant: February is left in the year its month was counted to.          *)
YearOfJanuaryOnly(c, month) == IF month < 2 THEN c - 4715 ELSE c - 4716

(* The year begins in March until here.                                    *)
YearOf(c, month) == IF month <= 2 THEN c - 4715 ELSE c - 4716

(* The day of a number.  The quotients are the floors of                   *)
(* (z - 1867216.25) / 36524.25 and (b - 122.1) / 365.25.                   *)
DayOf(z) ==
  LET w == (4 * z - 7468865) \div 146097
      b == z + 1 + w - w \div 4 + 1524
      c == (20 * b - 2442) \div 7305
      d == (1461 * c) \div 4
      e == (10000 * (b - d)) \div 306001
      month == IF e - 1 <= 12 THEN e - 1 ELSE e - 13
  IN  [year  |-> YearOf(c, month),
       month |-> month,
       day   |-> b - d - (306001 * e) \div 10000]

(* The text of a day: the last four digits of its year, and two of each of *)
(* the others.                                                             *)
Digit(n, unit) == (n \div unit) % 10

Printed(d) ==
  <<Digit(d.year, 1000), Digit(d.year, 100), Digit(d.year, 10), Digit(d.year, 1),
    Digit(d.month, 10), Digit(d.month, 1), Digit(d.day, 10), Digit(d.day, 1)>>

yyyymmdd(z) == Printed(DayOf(z))

yyyymmdd_to_julian_day(text) ==
  ymd_to_julian_day([year  |-> text[1] * 1000 + text[2] * 100 + text[3] * 10 + text[4],
                     month |-> text[5] * 10 + text[6],
                     day   |-> text[7] * 10 + text[8]])

(* From a text or, without one, from the time.                             *)
DateInit ==
  \/ \E d \in FirstDays : julian = yyyymmdd_to_julian_day(Printed(d))
  \/ \E n \in ClockDays : julian = n + UnixEpoch

(* operator++, += and -=.                                                  *)
Forward(n)  == julian' = julian + n /\ julian' \in Julians
Backward(n) == julian' = julian - n /\ julian' \in Julians

(* A date that is printed and constructed again from what was printed.     *)
Reread == julian' = yyyymmdd_to_julian_day(yyyymmdd(julian))

DateNext == Reread \/ \E n \in Steps : Forward(n) \/ Backward(n)

DateSpec == DateInit /\ [][DateNext]_julian

-----------------------------------------------------------------------------
Gregorian == INSTANCE Calendar WITH today <- DayOf(julian)

(* However a Date is moved, what it prints is the day of the calendar that *)
(* is as many days away, over every end of a month, leap day and century;  *)
(* and a Date constructed from what another printed prints the same, so    *)
(* that going through text never moves a day.                              *)
FollowsCalendar == Gregorian!Spec

=============================================================================
