----------------------------- MODULE MCInsurance -----------------------------
(***************************************************************************)
(* Small instances of Insurance for TLC.                                   *)
(***************************************************************************)
EXTENDS Insurance, TLC

CONSTANTS p1, w1, w2, q1, q2

MCPeriodsOf == [YEARLY |-> 1, HALF_YEARLY |-> 2]

Interval(annual, every, next) ==
  [NothingSent EXCEPT !.mode = "INTERVAL", !.annual = annual, !.every = every, !.next = next]

Custom(dates) == [NothingSent EXCEPT !.mode = "CUSTOM", !.dates = [d \in dates |-> 1]]

\* 3 does not divide evenly; 1 is too little for two payments; one that ends; chosen dates.
MCDrafts == {Interval(3, "HALF_YEARLY", 0),
             Interval(1, "HALF_YEARLY", 0),
             [Interval(2, "YEARLY", 1) EXCEPT !.end = 1],
             Custom({0})}

\* Let it lapse and revive; a year that is followed by another one and then ends;
\* schedules on dates that may be free or not, on the date that is shown of a policy from
\* before schedules, and on the first date of a year a tick may add.
MCEdits == {[NothingSent EXCEPT !.status = "LAPSED"],
            [NothingSent EXCEPT !.status = "ACTIVE"],
            [Interval(2, "YEARLY", 1) EXCEPT !.end = 3],
            Custom({1, 3}), Custom({3})}

Symmetry == Permutations(Ticks) \cup Permutations(Requests)
=============================================================================
