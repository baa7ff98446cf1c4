----------------------------- MODULE MCTransfers -----------------------------
(***************************************************************************)
(* Small instances of Transfers for TLC.                                   *)
(***************************************************************************)
EXTENDS Transfers, Calendar, TLC

CONSTANTS a, b, t1, t2, t3, t4, t5, t6, w1, w2, q1, q2, k

\* The receiver's pool comes first in lock_pools.
MCRank == [p \in Pools |-> IF p = a THEN 2 ELSE 1]

Once(from, to, key) ==
  [from |-> from, to |-> to, amount |-> 1, key |-> key, recurring |-> FALSE,
   due |-> None, end |-> None]
Schedule(due, end) ==
  [from |-> a, to |-> b, amount |-> 1, key |-> None, recurring |-> TRUE,
   due |-> due, end |-> end]

\* Both ways between the two pools; one of them from a form with a key.
MCOnce == {Once(a, b, k), Once(b, a, None)}

\* A schedule from day 0 on, and a payment that shares its pools.
MCScheduled == {Schedule(0, 2), Once(b, a, None)}

\* A schedule that ends with its first date.
MCEnding == {Schedule(0, 0)}

NoEdit == [due |-> None, amount |-> 0, end_sent |-> FALSE, end |-> None]

\* Go back to day 0; remove the end date and raise the amount.
MCEdits == {[NoEdit EXCEPT !.due = 0],
            [NoEdit EXCEPT !.end_sent = TRUE, !.amount = 2]}

-----------------------------------------------------------------------------
(* Calendar against its reference, over dates around short months, leap    *)
(* years and the centuries that are none.                                  *)

CheckedDates ==
  {d \in [year : {1999, 2000, 2023, 2024, 2100}, month : {1, 2, 3, 4, 12}, day : {1, 28, 29, 30, 31}] :
     d.day <= DaysInMonth(d.year, d.month)}

\* 366 days in the years 4, 8, ... but 100, 200, 300; 365 in the others.
ASSUME YearsAgree ==
  \A y \in 1..401 : DaysOfYear(y)[12] = DaysBeforeYear(y + 1) - DaysBeforeYear(y)

\* n days later is n days later, also through AdvanceNextDate.
ASSUME DaysAgree ==
  \A d \in CheckedDates, n \in {0, 1, 7, 14, 31, 60} :
    /\ AddDays(d, n) \in Date /\ Ordinal(AddDays(d, n)) = Ordinal(d) + n
    /\ n > 0 => AdvanceNextDate(d, "MONTHLY", n, 0, 0) = AddDays(d, n)

\* Every frequency moves on, and no further than its longest period.
Longest == [DAILY |-> 1, WEEKLY |-> 7, BIWEEKLY |-> 14, MONTHLY |-> 61, QUARTERLY |-> 122,
            HALF_YEARLY |-> 214, YEARLY |-> 396]
ASSUME StepsAgree ==
  \A d \in CheckedDates, f \in Frequencies, anchor \in {NoAnchor, 1, 28, 29, 30, 31} :
    LET days == Ordinal(StepLocalDate(d, f, 1, anchor)) - Ordinal(d)
    IN  days > 0 /\ days <= Longest[f]

\* A rule of the 31st is on the 31st in every long month of the year; a transfer is too
\* when one tick runs the whole year, and not when each date has its own tick.  A policy
\* that starts in March loses the 31st to the February its year ends with.
Start == [year |-> 2025, month |-> 3, day |-> 31]
ASSUME ShortMonths ==
  LET later[n \in 0..12] == IF n = 0 THEN Start ELSE TransferRun(later[n - 1], "MONTHLY", 1)
  IN  /\ \A n \in 0..12 : LET d == RuleDate(Start, "MONTHLY", 1, 31, n)
                          IN  d.day = DaysInMonth(d.year, d.month)
      /\ TransferRun(Start, "MONTHLY", 12).day = 31
      /\ later[1].day = 30 /\ later[12].day = 28
      /\ NextPolicyYear(Start, "MONTHLY") = [year |-> 2026, month |-> 3, day |-> 28]
      /\ NextPolicyYear(Start, "QUARTERLY") = [year |-> 2026, month |-> 3, day |-> 31]

Symmetry == Permutations(Ticks) \cup Permutations(Requests)
=============================================================================
