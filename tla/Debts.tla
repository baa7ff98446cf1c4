-------------------------------- MODULE Debts --------------------------------
(***************************************************************************)
(* Debts and the rules that pay their installments (EMIs).  A debt that is *)
(* created with an EMI gets a money rule; every installment the scheduler  *)
(* posts for that rule counts as paid, and the last one settles the debt   *)
(* and completes the rule.                                                 *)
(*                                                                         *)
(* This module is MoneyRules with the debts added: the run of a rule has   *)
(* one step more, and users create, edit and delete debts.  A tick locks   *)
(* the rule and then the debt; an edit of a debt locks the debt and then   *)
(* writes the rule, so they can deadlock: PostgreSQL then ends one of them.*)
(*                                                                         *)
(* A debt has the id of its EMI rule; debts without one have it reserved.  *)
(***************************************************************************)
EXTENDS MoneyRules

CONSTANTS
  DebtDrafts,   \* bodies of create-debt requests
  DebtEdits     \* bodies of update-debt requests

DebtStatuses == {"ABSENT", "OPEN", "SETTLED", "DELETED"}

ASSUME DebtAssumption ==
  /\ DebtDrafts \subseteq [amount: Nat \ {0}, paid: Nat, add: BOOLEAN,
                           emi: Nat \cup {None}, due: Day]
  /\ DebtEdits \subseteq [amount: (Nat \ {0}) \cup {None}, paid: Nat \cup {None},
                          add: BOOLEAN \cup {None}, status: {"OPEN", "SETTLED", None},
                          share: BOOLEAN]
  /\ None \notin BOOLEAN
  /\ \A d \in DebtDrafts, r \in Rules : d.emi # None => KindOf[r] = "EXPENSE"

VARIABLES
  debts,      \* committed rows of fos_debts
  debtLock,   \* which transaction holds the lock of each debt
  emi,        \* per tick: is an installment still to be counted, and the debt
              \* as this tick's transaction sees it
  edit        \* per request: the edit of a debt it is about to commit

debtVars == <<debts, debtLock, emi, edit>>
allVars == <<vars, debtVars>>

-----------------------------------------------------------------------------
(* Rows and sessions *)

DebtRow == [status: DebtStatuses, amount: Nat, paid: Nat, add: BOOLEAN, linked: BOOLEAN]
AbsentDebt == [status |-> "ABSENT", amount |-> 0, paid |-> 0, add |-> FALSE,
               linked |-> FALSE]
NoEmi == [wait |-> FALSE, row |-> AbsentDebt]
NoChange == [op |-> None, debt |-> None, row |-> AbsentDebt, stop |-> None, share |-> FALSE]

Least(a, b) == IF a <= b THEN a ELSE b

\* debt_id of the rule: set until the debt is deleted.
Owed(r) == debts[r].linked /\ debts[r].status # "DELETED"

NoDebtLock(r, s) == TRUE      \* mutant: the debt is read without FOR UPDATE
DebtFree(r, s) == debtLock[r] \in {None, s}

ReleaseDebts(s) ==
  debtLock' = [r \in Rules |-> IF debtLock[r] = s THEN None ELSE debtLock[r]]

DebtInit ==
  /\ Init
  /\ debts = [r \in Rules |-> AbsentDebt]
  /\ debtLock = [r \in Rules |-> None]
  /\ emi = [w \in Ticks |-> NoEmi]
  /\ edit = [q \in Requests |-> NoChange]

-----------------------------------------------------------------------------
(* The run of a rule, with _apply_debt_and_legacy_insurance *)

\* The steps of a tick that have nothing to do with debts.
PlainStep(w) ==
  /\ ~emi[w].wait
  /\ LockRule(w) \/ SkipRule(w) \/ RepeatPeriod(w) \/ EndTick(w)
  /\ UNCHANGED debtVars

PostInstallment(w) ==
  /\ ~emi[w].wait
  /\ PostPeriod(w)
  /\ emi' = [emi EXCEPT ![w].wait = Owed(tick[w].rule)]
  /\ UNCHANGED <<debts, debtLock, edit>>

\* Mutant: the debt that is paid to the last cent stays open.
SettledLate(row, amount) ==
  LET paid == Least(row.amount, row.paid + amount) IN
  IF row.status # "OPEN" \/ ~row.add THEN row
  ELSE [row EXCEPT !.paid = paid]

\* An installment counts for an OPEN debt that wants it, up to its amount.
Counted(row, amount) ==
  LET paid == Least(row.amount, row.paid + amount) IN
  IF row.status # "OPEN" \/ ~row.add THEN row
  ELSE [row EXCEPT !.paid = paid, !.status = IF paid >= row.amount THEN "SETTLED" ELSE @]

\* The debt is read FOR UPDATE; when the installment settles it the rule is
\* completed.  Both are written at the commit.
CountInstallment(w) ==
  LET r == tick[w].rule
      old == IF debtLock[r] = w THEN emi[w].row ELSE debts[r]
      new == Counted(old, tick[w].row.amount)
  IN
  /\ emi[w].wait
  /\ DebtFree(r, w)
  /\ debtLock' = [debtLock EXCEPT ![r] = w]
  /\ emi' = [emi EXCEPT ![w] = [wait |-> FALSE, row |-> new]]
  /\ tick' = [tick EXCEPT ![w].row.status =
       IF old.status = "OPEN" /\ new.status = "SETTLED" THEN "COMPLETED" ELSE @]
  /\ UNCHANGED <<clock, rules, events, money, locks, advisory, req, used, faults, debts, edit>>

CommitRun(w) ==
  LET r == tick[w].rule IN
  /\ ~emi[w].wait
  /\ CommitRule(w)
  /\ debts' = IF debtLock[r] = w THEN [debts EXCEPT ![r] = emi[w].row] ELSE debts
  /\ ReleaseDebts(w)
  /\ emi' = [emi EXCEPT ![w] = NoEmi]
  /\ UNCHANGED edit

\* However the transaction of a tick ends without a commit.
Dropped(w) ==
  /\ ReleaseDebts(w)
  /\ emi' = [emi EXCEPT ![w] = NoEmi]
  /\ UNCHANGED <<debts, edit>>

FailRun(w) == ~emi[w].wait /\ FailZeroAmount(w) /\ Dropped(w)

Break(w) ==
  \/ (FailTransient(w) \/ CrashTick(w)) /\ Dropped(w)
  \/ LoseAdvisory(w) /\ UNCHANGED debtVars

-----------------------------------------------------------------------------
(* User requests on debts: create_debt, update_debt, delete_debt *)

Free(q) == edit[q] = NoChange

CreateDebt(q) ==
  /\ Free(q)
  /\ Begin(q)
  /\ \E r \in Rules, d \in DebtDrafts :
       LET paid == Least(d.amount, d.paid)
           open == paid < d.amount
           linked == open /\ d.emi # None
       IN
       /\ debts[r].status = "ABSENT"
       /\ rules[r].status = "ABSENT"
       /\ debts' = [debts EXCEPT ![r] =
            [status |-> IF open THEN "OPEN" ELSE "SETTLED", amount |-> d.amount,
             paid |-> paid, add |-> d.add, linked |-> linked]]
       /\ rules' = IF ~linked THEN rules ELSE
            [rules EXCEPT ![r] =
               [AbsentRule EXCEPT !.status = "ACTIVE", !.next_run_at = d.due, !.amount = d.emi]]
  /\ UNCHANGED <<clock, events, money, locks, advisory, tick, req, faults, debtLock, emi, edit>>

\* What an edit makes of the debt.  Paid in full is SETTLED, whatever was sent.
EditedDebt(row, ed) ==
  LET amount == IF ed.amount # None THEN ed.amount ELSE row.amount
      paid == IF ed.paid # None THEN ed.paid ELSE row.paid
  IN [row EXCEPT
        !.amount = amount,
        !.paid = Least(amount, paid),
        !.add = IF ed.add # None THEN ed.add ELSE @,
        !.status = CASE paid >= amount -> "SETTLED"
                     [] paid < amount /\ ed.status # None -> ed.status
                     [] OTHER -> "OPEN"]

\* Mutant: the rule gets the status of the debt.
StopsAsDebt(r, row) ==
  IF row.linked /\ row.status = "SETTLED" /\ rules[r].status \in {"ACTIVE", "PAUSED"}
  THEN row.status ELSE None

\* Mutant: a paused rule of a settled debt is not completed.
StopsActive(r, row) ==
  IF row.linked /\ row.status = "SETTLED" /\ rules[r].status = "ACTIVE"
  THEN "COMPLETED" ELSE None

\* The status update_debt gives to the rule, as far as it gives one; it reads
\* the rule without a lock.
Stops(r, row) ==
  IF row.linked /\ row.status = "SETTLED" /\ rules[r].status \in {"ACTIVE", "PAUSED"}
  THEN "COMPLETED" ELSE None

\* _get_editable locks the debt; the rest is computed, and waits for the commit.
Hold(q, r, change) ==
  /\ Free(q)
  /\ Begin(q)
  /\ debts[r].status \in {"OPEN", "SETTLED"}
  /\ DebtFree(r, q)
  /\ debtLock' = [debtLock EXCEPT ![r] = q]
  /\ edit' = [edit EXCEPT ![q] = change]
  /\ UNCHANGED <<clock, rules, events, money, locks, advisory, tick, req, faults, debts, emi>>

UpdateDebt(q) ==
  \E r \in Rules, ed \in DebtEdits :
    LET row == EditedDebt(debts[r], ed) IN
    Hold(q, r, [op |-> "update", debt |-> r, row |-> row, stop |-> Stops(r, row),
                share |-> ed.share /\ row.linked])

\* Stops the rule and unlinks it; its events stay.
DeleteDebt(q) ==
  \E r \in Rules :
    Hold(q, r, [op |-> "delete", debt |-> r, row |-> [debts[r] EXCEPT !.status = "DELETED"],
                stop |-> IF debts[r].linked THEN "CANCELLED" ELSE None, share |-> FALSE])

\* Does the commit write the rule?  Then its UPDATE waits for the rule's lock.
WritesRule(q) == edit[q].stop # None \/ edit[q].share

NoRuleWait(q) == TRUE      \* mutant: the rule is written without its lock
RuleReady(q) == WritesRule(q) => RuleFree(edit[q].debt, q)

CommitDebt(q) ==
  LET r == edit[q].debt IN
  /\ edit[q].op # None
  /\ RuleReady(q)
  /\ debts' = [debts EXCEPT ![r] = edit[q].row]
  /\ rules' = IF edit[q].stop = None THEN rules
              ELSE [rules EXCEPT ![r].status = edit[q].stop]
  /\ ReleaseDebts(q)
  /\ edit' = [edit EXCEPT ![q] = NoChange]
  /\ UNCHANGED <<clock, events, money, locks, advisory, tick, req, used, faults, emi>>

\* The request fails or is cut off: nothing of it stays.
AbortDebt(q) ==
  /\ edit[q].op # None
  /\ ReleaseDebts(q)
  /\ edit' = [edit EXCEPT ![q] = NoChange]
  /\ UNCHANGED <<vars, debts, emi>>

\* An EMI payment cannot be edited as an entry: _reject_linked_payment.
Refused(q) ==
  LET e == req'[q].event IN
  e # None /\ events[e].rule # None /\ Owed(events[e].rule)

\* Requests on rules and on entries are those of MoneyRules.
OtherRequest(q) ==
  /\ Free(q)
  /\ UserBegins(q) \/ RequestStep(q)
  /\ ~Refused(q)
  /\ UNCHANGED debtVars

-----------------------------------------------------------------------------
(* The deadlock: the tick has the rule and waits for the debt, the request has *)
(* the debt and waits for the rule.  PostgreSQL ends one of the two.           *)

NoDetection(w, q) == FALSE    \* mutant: nobody ends a deadlock
Deadlocked(w, q) ==
  LET r == tick[w].rule IN
  /\ emi[w].wait
  /\ debtLock[r] = q
  /\ edit[q].debt = r
  /\ WritesRule(q)

EndDeadlock(w, q) ==
  /\ Deadlocked(w, q)
  /\ \/ FailRule(w) /\ Dropped(w) /\ UNCHANGED faults
     \/ AbortDebt(q)

-----------------------------------------------------------------------------
(* The specification *)

RunStep(w) ==
  \/ PlainStep(w)
  \/ PostInstallment(w)
  \/ CountInstallment(w)
  \/ CommitRun(w)
  \/ FailRun(w)

DebtRequest(q) ==
  \/ CreateDebt(q)
  \/ UpdateDebt(q)
  \/ DeleteDebt(q)

DebtNext ==
  \/ Advance /\ UNCHANGED debtVars
  \/ \E w \in Ticks, force \in Forcing : StartTick(w, force) /\ UNCHANGED debtVars
  \/ \E w \in Ticks : RunStep(w) \/ Break(w)
  \/ \E q \in Requests : DebtRequest(q) \/ CommitDebt(q) \/ AbortDebt(q) \/ OtherRequest(q)
  \/ \E w \in Ticks, q \in Requests : EndDeadlock(w, q)

DebtSpec == DebtInit /\ [][DebtNext]_allVars

\* As in MoneyRules; a deadlock is ended after deadlock_timeout, and the lock of a
\* rule that a tick gives up goes to the request that waits for it, not to the
\* next tick minutes later: strong fairness.
DebtFairness ==
  /\ \A w \in Ticks : /\ WF_allVars(StartTick(w, FALSE) /\ UNCHANGED debtVars)
                      /\ WF_allVars(RunStep(w))
  /\ \A q \in Requests : /\ SF_allVars(CommitDebt(q))
                         /\ WF_allVars(Free(q) /\ RequestStep(q) /\ UNCHANGED debtVars)
  /\ \A w \in Ticks, q \in Requests : WF_allVars(EndDeadlock(w, q))

DebtFairSpec == DebtSpec /\ DebtFairness

-----------------------------------------------------------------------------
(* Properties *)

\* Every variable holds a value of its kind, those of MoneyRules included.
DebtTypeOK ==
  /\ TypeOK
  /\ debts \in [Rules -> DebtRow]
  /\ debtLock \in [Rules -> Sessions \cup {None}]
  /\ emi \in [Ticks -> [wait: BOOLEAN, row: DebtRow]]
  /\ edit \in [Requests -> [op: {"update", "delete", None}, debt: Rules \cup {None},
                            row: DebtRow, stop: {"COMPLETED", "CANCELLED", None},
                            share: BOOLEAN]]

\* What a committed run takes from the pool for a debt's installments is what the
\* debt counts as paid, up to its amount, and nothing when the debt does not count
\* them; no edit of the debt in between is lost, and none loses an installment.
EmiReducesDebt ==
  [][\A r \in Rules :
       LET old == debts[r]
           spent == ledger[PoolOf[r]] - ledger'[PoolOf[r]]
       IN (Owed(r) /\ \E e \in Appearing : events[e].rule = r) =>
            debts'[r].paid = IF old.status = "OPEN" /\ old.add
                             THEN Least(old.amount, old.paid + spent) ELSE old.paid]_allVars

\* A debt that is SETTLED, or deleted, has no rule that would go on paying it.
SettledStopsEmi ==
  \A r \in Rules :
    debts[r].linked /\ debts[r].status # "OPEN" => rules[r].status \notin {"ACTIVE", "PAUSED"}

\* No installment of a debt becomes visible after the debt was settled or deleted,
\* though the tick had taken the rule before.
NoEmiAfterSettled ==
  [][\A e \in Appearing :
       LET r == events[e].rule IN
       r # None /\ debts[r].linked => debts[r].status = "OPEN"]_allVars

\* An OPEN debt has something left to pay, and nobody pays more than the amount.
OpenMeansUnpaid ==
  \A r \in Rules : /\ debts[r].paid <= debts[r].amount
                   /\ debts[r].status = "OPEN" => debts[r].paid < debts[r].amount
=============================================================================
