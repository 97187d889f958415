------------------------------ MODULE Calendar ------------------------------
(***************************************************************************)
(* What a date promises: it is a day of the Gregorian calendar, and it can *)
(* be moved by a number of days.                                           *)
(***************************************************************************)
EXTENDS Integers

CONSTANTS
  FirstDays,   \* the days a date may begin with, as [year, month, day]
  Steps        \* the numbers of days it may be moved by

VARIABLE today

Leap(y) == y % 4 = 0 /\ (y % 100 # 0 \/ y % 400 = 0)

Days(y, m) ==
  CASE m = 2               -> IF Leap(y) THEN 29 ELSE 28
    [] m \in {4, 6, 9, 11} -> 30
    [] OTHER               -> 31

Tomorrow(d) ==
  LET last == d.day = Days(d.year, d.month)
  IN  CASE ~last                 -> [d EXCEPT !.day = @ + 1]
        [] last /\ d.month < 12  -> [d EXCEPT !.day = 1, !.month = @ + 1]
        [] last /\ d.month = 12  -> [year |-> d.year + 1, month |-> 1, day |-> 1]

Later(d, n) ==
  LET after[i \in 0 .. n] == IF i = 0 THEN d ELSE Tomorrow(after[i - 1])
  IN  after[n]

Init == today \in FirstDays

Move ==
  \E n \in Steps : today' = Later(today, n) \/ today = Later(today', n)

Spec == Init /\ [][Move]_today

=============================================================================
