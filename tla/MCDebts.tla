------------------------------- MODULE MCDebts -------------------------------
(***************************************************************************)
(* Small instances of Debts for TLC.                                       *)
(***************************************************************************)
EXTENDS Debts, TLC

CONSTANTS r1, p1, e1, e2, e3, e4, w1, w2, q1, q2

MCPoolOf == [r \in Rules |-> p1]
MCExpense == [r \in Rules |-> "EXPENSE"]

\* Two installments of 1 settle it; paid already; an installment that is rounded to 0.
MCDebtDrafts == {[amount |-> 3, paid |-> 1, add |-> TRUE, emi |-> 1, due |-> 0],
                 [amount |-> 2, paid |-> 3, add |-> TRUE, emi |-> 1, due |-> 0],
                 [amount |-> 2, paid |-> 0, add |-> TRUE, emi |-> 0, due |-> 0]}

Same == [amount |-> None, paid |-> None, add |-> None, status |-> None, share |-> FALSE]

\* Settle; more is paid elsewhere; stop counting; let everyone edit.
MCDebtEdits == {[Same EXCEPT !.status = "SETTLED"],
                [Same EXCEPT !.paid = 2],
                [Same EXCEPT !.add = FALSE, !.share = TRUE],
                [Same EXCEPT !.amount = 2]}

Unsent == [next_run_at |-> None, end_sent |-> FALSE, end_at |-> None,
           max_sent |-> FALSE, max_runs |-> None, amount |-> None, status |-> None]
MCEdits == {[Unsent EXCEPT !.status = "PAUSED"], [Unsent EXCEPT !.status = "ACTIVE"]}

Symmetry == Permutations(Ticks) \cup Permutations(Requests)
=============================================================================
