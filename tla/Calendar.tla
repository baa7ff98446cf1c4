------------------------------- MODULE Calendar -------------------------------
(***************************************************************************)
(* The calendar arithmetic of core/date_advance.py and the ways schedules  *)
(* iterate it: money rules keep the day they started on, recurring         *)
(* transfers read it again from their current date in every tick, and      *)
(* insurance policies read it again every policy year.                     *)
(*                                                                         *)
(* A date is a local calendar date: tz_eighteen.py takes the local date of *)
(* 18:00, steps it and goes back to UTC.  Spellings of frequencies that    *)
(* normalize_frequency maps to one name are one name here.                 *)
(***************************************************************************)
EXTENDS Integers

NoAnchor == 0      \* "anchor_day or current.day": absent

Least(a, b) == IF a <= b THEN a ELSE b
Greatest(a, b) == IF a <= b THEN b ELSE a

Leap(y) == y % 4 = 0 /\ (y % 100 # 0 \/ y % 400 = 0)

DaysInMonth(y, m) ==
  CASE m = 2 /\ Leap(y)  -> 29
    [] m = 2 /\ ~Leap(y) -> 28
    [] m \in {4, 6, 9, 11} -> 30
    [] OTHER -> 31

Date == {d \in [year : Nat \ {0}, month : 1..12, day : 1..31] :
           d.day <= DaysInMonth(d.year, d.month)}

Before(d, e) ==
  \/ d.year < e.year
  \/ d.year = e.year /\ d.month < e.month
  \/ d.year = e.year /\ d.month = e.month /\ d.day < e.day

\* Day a of the month that is n months after the one of d, or its last day.
InMonth(d, n, a) ==
  LET i == d.month - 1 + n
      y == d.year + i \div 12
      m == (i % 12) + 1
  IN  [year |-> y, month |-> m, day |-> Least(a, DaysInMonth(y, m))]

AddMonths(d, n) == InMonth(d, n, d.day)

\* timedelta of whole days.
NextDay(d) ==
  IF d.day < DaysInMonth(d.year, d.month)
    THEN [d EXCEPT !.day = @ + 1]
    ELSE InMonth(d, 1, 1)

AddDays(d, n) ==
  LET walk[i \in 0..n] == IF i = 0 THEN d ELSE NextDay(walk[i - 1])
  IN  walk[n]

-----------------------------------------------------------------------------
(* One step of a schedule. *)

Frequencies ==
  {"DAILY", "WEEKLY", "BIWEEKLY", "MONTHLY", "QUARTERLY", "HALF_YEARLY", "YEARLY"}

FrequencyUnit(f) == IF f \in {"DAILY", "WEEKLY", "BIWEEKLY"} THEN "DAY" ELSE "MONTH"

FrequencySize ==
  [DAILY |-> 1, WEEKLY |-> 7, BIWEEKLY |-> 14,
   MONTHLY |-> 1, QUARTERLY |-> 3, HALF_YEARLY |-> 6, YEARLY |-> 12]

\* A month step goes by the first of the month, so no day is lost on the way.
StepMonths(d, steps, anchor) ==
  LET moved == AddMonths([d EXCEPT !.day = 1], steps)
      day   == IF anchor = NoAnchor THEN d.day ELSE anchor
  IN  [moved EXCEPT !.day = Least(day, DaysInMonth(moved.year, moved.month))]

StepLocalDate(d, f, every_n, anchor) ==
  LET steps == FrequencySize[f] * Greatest(1, every_n)
  IN  IF FrequencyUnit(f) = "DAY" THEN AddDays(d, steps) ELSE StepMonths(d, steps, anchor)

\* The previous version's step: by an interval, or by a frequency without anchor.
AdvanceNextDate(d, f, days, months, years) ==
  IF days # 0 \/ months # 0 \/ years # 0
    THEN AddDays(AddMonths(d, 12 * years + months), days)
    ELSE IF FrequencyUnit(f) = "DAY" THEN AddDays(d, FrequencySize[f])
                                     ELSE AddMonths(d, FrequencySize[f])

-----------------------------------------------------------------------------
(* The dates that schedules reach after n periods. *)

\* A money rule keeps anchor_day whatever its ticks do.
RuleDate(d, f, every_n, anchor, n) ==
  LET due[i \in 0..n] == IF i = 0 THEN d ELSE StepLocalDate(due[i - 1], f, every_n, anchor)
  IN  due[n]

\* One tick's run of a recurring transfer: the anchor is the day it finds.
TransferRun(d, f, n) == RuleDate(d, f, 1, d.day, n)

\* Installments of one policy year, and the first of the next one.
PERIODS_PER_YEAR == [MONTHLY |-> 12, QUARTERLY |-> 4, HALF_YEARLY |-> 2, YEARLY |-> 1]
InstallmentDate(first, f, n) == RuleDate(first, f, 1, first.day, n)
NextPolicyYear(first, f) ==
  StepLocalDate(InstallmentDate(first, f, PERIODS_PER_YEAR[f] - 1), f, 1, NoAnchor)

-----------------------------------------------------------------------------
(* A reference: the days before a date, by the rule of the Gregorian       *)
(* calendar alone.                                                         *)

DaysBeforeYear(y) ==
  365 * (y - 1) + (y - 1) \div 4 - (y - 1) \div 100 + (y - 1) \div 400

DaysOfYear(y) ==
  LET sum[m \in 0..12] == IF m = 0 THEN 0 ELSE sum[m - 1] + DaysInMonth(y, m)
  IN  sum

Ordinal(d) == DaysBeforeYear(d.year) + DaysOfYear(d.year)[d.month - 1] + d.day
=============================================================================
