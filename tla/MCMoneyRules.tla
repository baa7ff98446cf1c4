----------------------------- MODULE MCMoneyRules ----------------------------
(***************************************************************************)
(* Small instances of MoneyRules for TLC.                                  *)
(***************************************************************************)
EXTENDS MoneyRules, TLC

CONSTANTS r1, r2, p1, e1, e2, e3, e4, w1, w2, q1, q2

MCPoolOf == [r \in Rules |-> p1]
MCExpense == [r \in Rules |-> "EXPENSE"]

Draft(next, end, max, amount) ==
  [next_run_at |-> next, end_at |-> end, max_runs |-> max, amount |-> amount]

\* An edit that sends nothing.
Unsent == [next_run_at |-> None, end_sent |-> FALSE, end_at |-> None,
           max_sent |-> FALSE, max_runs |-> None, amount |-> None, status |-> None]

\* Due from day 0, twice.
MCDrafts == {Draft(0, None, 2, 1)}

\* Go back to day 0; pause; resume and set both limits in one request.
MCEdits == {[Unsent EXCEPT !.next_run_at = 0],
            [Unsent EXCEPT !.status = "PAUSED"],
            [Unsent EXCEPT !.status = "ACTIVE", !.max_sent = TRUE, !.max_runs = None,
                           !.end_sent = TRUE, !.end_at = 2]}

\* For the run on liveness: one rule can be posted, one fails every time.
MCLiveDrafts == {Draft(0, None, None, 1), Draft(0, None, None, 0)}
MCLiveEdits == {[Unsent EXCEPT !.next_run_at = 0], [Unsent EXCEPT !.status = "PAUSED"],
                [Unsent EXCEPT !.status = "ACTIVE"]}

Symmetry == Permutations(Ticks) \cup Permutations(Requests)
=============================================================================
