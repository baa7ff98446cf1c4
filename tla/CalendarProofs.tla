---------------------------- MODULE CalendarProofs ----------------------------
(***************************************************************************)
(* TLAPS proofs about Calendar, for every date of every year.              *)
(***************************************************************************)
EXTENDS Calendar, TLAPS

MonthIndex(d) == 12 * d.year + d.month - 1

-----------------------------------------------------------------------------
(* Lemmas about months. *)

\* A month has 28 to 31 days.
LEMMA DaysInMonthRange ==
  ASSUME NEW y \in Nat, NEW m \in 1..12
  PROVE  DaysInMonth(y, m) \in 28..31
BY DEF DaysInMonth

\* What the carry of months into years does, by division with remainder.
LEMMA MonthCarry ==
  ASSUME NEW i \in Nat
  PROVE  i \div 12 \in Nat /\ i % 12 \in 0..11 /\ 12 * (i \div 12) + (i % 12) = i
OBVIOUS

\* Two months with the same index are one month.
LEMMA IndexInjective ==
  ASSUME NEW y1 \in Nat, NEW y2 \in Nat, NEW m1 \in 1..12, NEW m2 \in 1..12,
         12 * y1 + m1 = 12 * y2 + m2
  PROVE  y1 = y2 /\ m1 = m2
OBVIOUS

\* Going n months on reaches that month, on the day asked for or the month's last.
LEMMA InMonthReaches ==
  ASSUME NEW d \in Date, NEW n \in Nat, NEW a \in 1..31
  PROVE  /\ InMonth(d, n, a) \in Date
         /\ MonthIndex(InMonth(d, n, a)) = MonthIndex(d) + n
         /\ InMonth(d, n, a).day = Least(a, DaysInMonth(InMonth(d, n, a).year, InMonth(d, n, a).month))
<1> DEFINE i == d.month - 1 + n
           y == d.year + i \div 12
           m == (i % 12) + 1
<1>1. d.year \in Nat \ {0} /\ d.month \in 1..12
  BY DEF Date
<1>2. i \in Nat
  BY <1>1
<1>3. i \div 12 \in Nat /\ i % 12 \in 0..11 /\ 12 * (i \div 12) + (i % 12) = i
  BY <1>2, MonthCarry
<1> DEFINE q == i \div 12
           r == i % 12
<1> HIDE DEF q, r
<1>4. y \in Nat \ {0} /\ m \in 1..12 /\ 12 * y + m - 1 = MonthIndex(d) + n
  <2>1. q \in Nat /\ r \in 0..11 /\ 12 * q + r = d.month - 1 + n
    BY <1>3 DEF q, r
  <2>2. y = d.year + q /\ m = r + 1
    BY DEF q, r
  <2> HIDE DEF y, m, i
  <2> QED BY <1>1, <2>1, <2>2 DEF MonthIndex
<1>5. DaysInMonth(y, m) \in 28..31
  BY <1>4, DaysInMonthRange
<1>6. InMonth(d, n, a) = [year |-> y, month |-> m, day |-> Least(a, DaysInMonth(y, m))]
  BY DEF InMonth
<1> HIDE DEF y, m, i
<1>7. Least(a, DaysInMonth(y, m)) \in 1..31 /\ Least(a, DaysInMonth(y, m)) <= DaysInMonth(y, m)
  BY <1>5 DEF Least
<1> QED BY <1>4, <1>6, <1>7 DEF Date, MonthIndex

\* A later month is later, whatever the days.
LEMMA LaterMonth ==
  ASSUME NEW d \in Date, NEW e \in Date, MonthIndex(d) < MonthIndex(e)
  PROVE  Before(d, e)
<1>1. /\ d.year \in Nat /\ d.month \in 1..12
      /\ e.year \in Nat /\ e.month \in 1..12
  BY DEF Date
<1> QED BY <1>1 DEF Before, MonthIndex

\* The anchor of a step, given or taken from the date.
AnchorOf(d, anchor) == IF anchor = NoAnchor THEN d.day ELSE anchor

\* Going by the first of the month, a month step is InMonth with the anchor's day.
LEMMA StepMonthsIsInMonth ==
  ASSUME NEW d \in Date, NEW n \in Nat, NEW anchor \in 0..31
  PROVE  /\ StepMonths(d, n, anchor) = InMonth(d, n, AnchorOf(d, anchor))
         /\ AnchorOf(d, anchor) \in 1..31
<1> DEFINE first == [d EXCEPT !.day = 1]
           i == d.month - 1 + n
           y == d.year + i \div 12
           m == (i % 12) + 1
<1>1. d \in [year : Nat \ {0}, month : 1..12, day : 1..31]
  BY DEF Date
<1>2. first.year = d.year /\ first.month = d.month /\ first.day = 1
  BY <1>1
<1>3. InMonth(first, n, 1) = [year |-> y, month |-> m, day |-> Least(1, DaysInMonth(y, m))]
  BY <1>2 DEF InMonth
<1>4. AddMonths(first, n) = [year |-> y, month |-> m, day |-> Least(1, DaysInMonth(y, m))]
  BY <1>2, <1>3 DEF AddMonths
<1>5. InMonth(d, n, AnchorOf(d, anchor))
        = [year |-> y, month |-> m, day |-> Least(AnchorOf(d, anchor), DaysInMonth(y, m))]
  BY DEF InMonth
<1>6. StepMonths(d, n, anchor)
        = [AddMonths(first, n) EXCEPT !.day =
             Least(AnchorOf(d, anchor), DaysInMonth(AddMonths(first, n).year, AddMonths(first, n).month))]
  BY DEF StepMonths, AnchorOf
<1>7. AnchorOf(d, anchor) \in 1..31
  BY <1>1 DEF AnchorOf, NoAnchor
<1> HIDE DEF first, i, y, m
<1> QED BY <1>4, <1>5, <1>6, <1>7

\* So a month step reaches the month asked for, on the anchor or the month's last day.
LEMMA StepMonthsReaches ==
  ASSUME NEW d \in Date, NEW n \in Nat, NEW anchor \in 0..31
  PROVE  LET e == StepMonths(d, n, anchor)
         IN  /\ e \in Date
             /\ MonthIndex(e) = MonthIndex(d) + n
             /\ e.day = Least(AnchorOf(d, anchor), DaysInMonth(e.year, e.month))
<1> DEFINE a == AnchorOf(d, anchor)
<1>1. StepMonths(d, n, anchor) = InMonth(d, n, a) /\ a \in 1..31
  BY StepMonthsIsInMonth
<1> HIDE DEF a
<1>2. /\ InMonth(d, n, a) \in Date
      /\ MonthIndex(InMonth(d, n, a)) = MonthIndex(d) + n
      /\ InMonth(d, n, a).day
           = Least(a, DaysInMonth(InMonth(d, n, a).year, InMonth(d, n, a).month))
  BY <1>1, InMonthReaches
<1> QED BY <1>1, <1>2 DEF a

-----------------------------------------------------------------------------
(* Theorems. *)

\* step_local_date by months: a schedule moves strictly on, to a date that exists, so
\* that the catch-up loops over due dates end, with any anchor and any every_n.
THEOREM StepsForward ==
  \A d \in Date, f \in Frequencies, every_n \in Nat, anchor \in 0..31 :
    FrequencyUnit(f) = "MONTH" =>
      /\ StepLocalDate(d, f, every_n, anchor) \in Date
      /\ Before(d, StepLocalDate(d, f, every_n, anchor))
<1> SUFFICES ASSUME NEW d \in Date, NEW f \in Frequencies, NEW every_n \in Nat,
                    NEW anchor \in 0..31, FrequencyUnit(f) = "MONTH"
             PROVE  /\ StepLocalDate(d, f, every_n, anchor) \in Date
                    /\ Before(d, StepLocalDate(d, f, every_n, anchor))
  OBVIOUS
<1> DEFINE size == FrequencySize[f]
           times == Greatest(1, every_n)
           steps == size * times
           e == StepMonths(d, steps, anchor)
<1>1. f \in {"MONTHLY", "QUARTERLY", "HALF_YEARLY", "YEARLY"}
  BY DEF Frequencies, FrequencyUnit
<1>2. size \in {1, 3, 6, 12}
  BY <1>1 DEF FrequencySize
<1>3. times \in Nat /\ times >= 1
  BY DEF Greatest
<1>4. StepLocalDate(d, f, every_n, anchor) = e
  BY DEF StepLocalDate
<1> HIDE DEF size, times
<1>5. steps \in Nat /\ steps >= 1
  BY <1>2, <1>3
<1> HIDE DEF steps
<1>6. e \in Date /\ MonthIndex(e) = MonthIndex(d) + steps
  BY <1>5, StepMonthsReaches
<1>7. MonthIndex(d) \in Int
  BY DEF MonthIndex, Date
<1>8. Before(d, e)
  BY <1>5, <1>6, <1>7, LaterMonth
<1> QED BY <1>4, <1>6, <1>8

\* Money rules (anchor_day is kept): the day after any step depends on the anchor and the
\* month alone, so a short month is not remembered and the 31st is returned to.
THEOREM ReturnsToAnchor ==
  \A d \in Date, n \in Nat, anchor \in 1..31 :
    LET e == StepMonths(d, n, anchor)
    IN  /\ e.day = Least(anchor, DaysInMonth(e.year, e.month))
        /\ DaysInMonth(e.year, e.month) >= anchor => e.day = anchor
<1> SUFFICES ASSUME NEW d \in Date, NEW n \in Nat, NEW anchor \in 1..31
             PROVE  LET e == StepMonths(d, n, anchor)
                    IN  /\ e.day = Least(anchor, DaysInMonth(e.year, e.month))
                        /\ DaysInMonth(e.year, e.month) >= anchor => e.day = anchor
  OBVIOUS
<1> DEFINE e == StepMonths(d, n, anchor)
<1>1. anchor \in 0..31 /\ AnchorOf(d, anchor) = anchor
  BY DEF AnchorOf, NoAnchor
<1>2. e \in Date /\ e.day = Least(anchor, DaysInMonth(e.year, e.month))
  BY <1>1, StepMonthsReaches
<1>3. DaysInMonth(e.year, e.month) \in 28..31
  BY <1>2, DaysInMonthRange DEF Date
<1> HIDE DEF e
<1>4. DaysInMonth(e.year, e.month) >= anchor => e.day = anchor
  BY <1>2, <1>3 DEF Least
<1> QED BY <1>2, <1>4 DEF e

\* run_rule steps once per period and then jumps over what is still due, in however many
\* ticks: with a kept anchor the dates are the same as by one longer step.
THEOREM StepsCompose ==
  \A d \in Date, n \in Nat, k \in Nat, anchor \in 1..31 :
    StepMonths(StepMonths(d, n, anchor), k, anchor) = StepMonths(d, n + k, anchor)
<1> SUFFICES ASSUME NEW d \in Date, NEW n \in Nat, NEW k \in Nat, NEW anchor \in 1..31
             PROVE  StepMonths(StepMonths(d, n, anchor), k, anchor) = StepMonths(d, n + k, anchor)
  OBVIOUS
<1> DEFINE e == StepMonths(d, n, anchor)
           g == StepMonths(e, k, anchor)
           h == StepMonths(d, n + k, anchor)
<1>1. n + k \in Nat /\ anchor \in 0..31
  OBVIOUS
<1>2. e \in Date /\ MonthIndex(e) = MonthIndex(d) + n
  BY <1>1, StepMonthsReaches
<1> HIDE DEF e
<1>3. g \in Date /\ MonthIndex(g) = MonthIndex(e) + k
  BY <1>1, <1>2, StepMonthsReaches
<1>4. h \in Date /\ MonthIndex(h) = MonthIndex(d) + (n + k)
  BY <1>1, StepMonthsReaches
<1>5. g.day = Least(anchor, DaysInMonth(g.year, g.month))
  BY <1>2, ReturnsToAnchor
<1>6. h.day = Least(anchor, DaysInMonth(h.year, h.month))
  BY <1>1, ReturnsToAnchor
<1> HIDE DEF g, h
<1>7. g.year = h.year /\ g.month = h.month
  <2>1. MonthIndex(g) = MonthIndex(h)
    BY <1>2, <1>3, <1>4 DEF MonthIndex, Date
  <2>2. /\ g.year \in Nat /\ g.month \in 1..12
        /\ h.year \in Nat /\ h.month \in 1..12
    BY <1>3, <1>4 DEF Date
  <2>3. 12 * g.year + g.month = 12 * h.year + h.month
    BY <2>1, <2>2 DEF MonthIndex
  <2>4. PICK y1 \in Nat, m1 \in 1..12 : y1 = g.year /\ m1 = g.month
    BY <2>2
  <2>5. PICK y2 \in Nat, m2 \in 1..12 : y2 = h.year /\ m2 = h.month
    BY <2>2
  <2>6. 12 * y1 + m1 = 12 * y2 + m2
    BY <2>3, <2>4, <2>5
  <2>7. y1 = y2 /\ m1 = m2
    BY <2>6, IndexInjective
  <2> QED BY <2>4, <2>5, <2>7
<1>8. g = h
  <2>1. g = [year |-> g.year, month |-> g.month, day |-> g.day]
    BY <1>3 DEF Date
  <2>2. h = [year |-> h.year, month |-> h.month, day |-> h.day]
    BY <1>4 DEF Date
  <2> QED BY <1>5, <1>6, <1>7, <2>1, <2>2
<1> QED BY <1>8 DEF e, g, h

\* Recurring transfers and policy years (the anchor is read again from the current date):
\* the day never grows, so a day lost to a short month is lost for good; up to the
\* 28th nothing is lost.
THEOREM DayNeverGrows ==
  \A d \in Date, n \in Nat :
    /\ StepMonths(d, n, d.day).day <= d.day
    /\ StepMonths(d, n, NoAnchor).day <= d.day
    /\ d.day <= 28 => StepMonths(d, n, d.day).day = d.day
<1> SUFFICES ASSUME NEW d \in Date, NEW n \in Nat
             PROVE  /\ StepMonths(d, n, d.day).day <= d.day
                    /\ StepMonths(d, n, NoAnchor).day <= d.day
                    /\ d.day <= 28 => StepMonths(d, n, d.day).day = d.day
  OBVIOUS
<1> DEFINE e == StepMonths(d, n, d.day)
<1>1. d.day \in 0..31 /\ d.day \in 1..31
  BY DEF Date
<1>2. StepMonths(d, n, NoAnchor) = e
  BY <1>1 DEF StepMonths, NoAnchor
<1>3. e \in Date
  BY <1>1, StepMonthsReaches
<1>4. e.day = Least(d.day, DaysInMonth(e.year, e.month))
  BY <1>1, ReturnsToAnchor
<1>5. DaysInMonth(e.year, e.month) \in 28..31
  BY <1>3, DaysInMonthRange DEF Date
<1> HIDE DEF e
<1>6. e.day <= d.day /\ (d.day <= 28 => e.day = d.day)
  BY <1>1, <1>4, <1>5 DEF Least
<1> QED BY <1>2, <1>6 DEF e

\* So the dates of a transfer depend on when its ticks ran: two periods in one tick and
\* one period in each of two ticks differ, for which the 31st of January is an example.
THEOREM TicksMatter ==
  \E d \in Date :
    LET e == StepMonths(d, 1, d.day)
    IN  StepMonths(e, 1, d.day) # StepMonths(e, 1, e.day)
<1> DEFINE d == [year |-> 2026, month |-> 1, day |-> 31]
           e == StepMonths(d, 1, d.day)
<1>1. DaysInMonth(2026, 1) = 31 /\ DaysInMonth(2026, 2) = 28 /\ DaysInMonth(2026, 3) = 31
  BY DEF DaysInMonth, Leap
<1>2. d \in Date
  BY <1>1 DEF Date
<1>3. e = [year |-> 2026, month |-> 2, day |-> 28]
  BY <1>1 DEF StepMonths, AddMonths, InMonth, Least, NoAnchor
<1> HIDE DEF e
<1>4. StepMonths(e, 1, 31).day = 31
  BY <1>1, <1>3 DEF StepMonths, AddMonths, InMonth, Least, NoAnchor
<1>5. StepMonths(e, 1, 28).day = 28
  BY <1>1, <1>3 DEF StepMonths, AddMonths, InMonth, Least, NoAnchor
<1>6. StepMonths(e, 1, d.day) # StepMonths(e, 1, e.day)
  BY <1>3, <1>4, <1>5
<1> QED BY <1>2, <1>6 DEF e
=============================================================================
