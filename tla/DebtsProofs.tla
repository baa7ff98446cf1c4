----------------------------- MODULE DebtsProofs -----------------------------
(***************************************************************************)
(* TLAPS proofs about Debts, for every value of its constants.             *)
(***************************************************************************)
EXTENDS Debts, MoneyRulesProofs

-----------------------------------------------------------------------------
(* The inductive invariant: that of MoneyRules, which the steps on debts   *)
(* keep as well, and what a tick and an edit know of the debt they hold.   *)

Final == {"COMPLETED", "CANCELLED"}

DebtTypes ==
  /\ debts \in [Rules -> DebtRow]
  /\ debtLock \in [Rules -> Sessions \cup {None}]
  /\ emi \in [Ticks -> [wait: BOOLEAN, row: DebtRow]]
  /\ edit \in [Requests -> [op: {"update", "delete", None}, debt: Rules \cup {None},
                            row: DebtRow, stop: {"COMPLETED", "CANCELLED", None},
                            share: BOOLEAN]]

\* The rule of a debt is an expense, and is never taken for one that does not exist.
Linked ==
  \A r \in Rules : debts[r].linked => rules[r].status # "ABSENT" /\ KindOf[r] = "EXPENSE"

Paid(row) == row.paid <= row.amount /\ (row.status = "OPEN" => row.paid < row.amount)

\* What tick w has posted for the debt and counted already.
Spent(w) == 0 - tick[w].delta - (IF emi[w].wait THEN tick[w].row.amount ELSE 0)

\* A tick that holds the debt has counted what it posted, and runs on only while
\* the debt is OPEN.
Counting(w) ==
  LET row == emi[w].row
      old == debts[tick[w].rule] IN
  /\ row.linked /\ row.amount = old.amount /\ row.add = old.add /\ Paid(row)
  /\ row.status # "OPEN" => tick[w].row.status = "COMPLETED" /\ ~emi[w].wait
  /\ row.paid = IF old.add THEN Least(old.amount, old.paid + Spent(w)) ELSE old.paid

EmiGood(w) ==
  LET r == tick[w].rule IN
  IF tick[w].pc # "run"
  THEN ~emi[w].wait /\ \A x \in Rules : debtLock[x] # w
  ELSE /\ tick[w].row.status \in {"ACTIVE", "COMPLETED"}
       /\ \A x \in Rules : x # r => debtLock[x] # w
       /\ emi[w].wait \/ debtLock[r] = w => debts[r].linked
       /\ debts[r].linked => IF debtLock[r] = w THEN Counting(w) ELSE Spent(w) = 0

\* An edit holds the debt; when it closes the debt it stops the rule, which it read
\* without a lock, or has seen it stopped for good.
EditGood(q) ==
  LET r == edit[q].debt
      row == edit[q].row IN
  edit[q].op # None =>
    /\ r \in Rules /\ debtLock[r] = q /\ debts[r].status # "ABSENT"
    /\ row.linked = debts[r].linked /\ Paid(row)
    /\ row.linked /\ row.status # "OPEN" => edit[q].stop \in Final \/ rules[r].status \in Final

DInv ==
  /\ IInv
  /\ DebtTypes
  /\ OpenMeansUnpaid
  /\ SettledStopsEmi
  /\ Linked
  /\ \A w \in Ticks : EmiGood(w)
  /\ \A q \in Requests : EditGood(q)

-----------------------------------------------------------------------------
(* Rows. *)

LEMMA LeastFacts ==
  ASSUME NEW a \in Nat, NEW b \in Nat
  PROVE  /\ Least(a, b) \in Nat /\ Least(a, b) <= a /\ Least(a, b) <= b
         /\ Least(a, b) \in {a, b}
BY DEF Least

LEMMA CountedFacts ==
  ASSUME NEW row \in DebtRow, Paid(row), NEW amount \in Nat
  PROVE  LET new == Counted(row, amount) IN
         /\ new \in DebtRow /\ Paid(new)
         /\ new.linked = row.linked /\ new.amount = row.amount /\ new.add = row.add
         /\ row.status # "OPEN" => new.status = row.status /\ new.paid = row.paid
         /\ row.status = "OPEN" => new.status \in {"OPEN", "SETTLED"}
         /\ row.status = "OPEN" => new.paid = IF row.add THEN Least(row.amount, row.paid + amount)
                                              ELSE row.paid
<1>1. /\ row.amount \in Nat /\ row.paid \in Nat /\ row.add \in BOOLEAN /\ row.linked \in BOOLEAN
      /\ row.status \in DebtStatuses
  BY DEF DebtRow
<1>2. CASE row.status # "OPEN" \/ ~row.add
  BY <1>2 DEF Counted
<1>3. CASE row.status = "OPEN" /\ row.add
  <2>1. PICK paid : paid = Least(row.amount, row.paid + amount)
    OBVIOUS
  <2>2. paid \in Nat /\ paid <= row.amount
    <3>1. row.paid + amount \in Nat
      BY <1>1
    <3> QED BY <1>1, <2>1, <3>1, LeastFacts
  <2>3. PICK s : s = IF paid >= row.amount THEN "SETTLED" ELSE "OPEN"
    OBVIOUS
  <2>4. PICK new : new = [row EXCEPT !.paid = paid, !.status = s]
    OBVIOUS
  <2>5. Counted(row, amount) = new
    BY <1>3, <2>1, <2>3, <2>4 DEF Counted
  <2>6. /\ new \in DebtRow /\ new.linked = row.linked /\ new.amount = row.amount
        /\ new.add = row.add /\ new.paid = paid /\ new.status = s
    BY <1>1, <2>2, <2>3, <2>4 DEF DebtRow, DebtStatuses
  <2>7. Paid(new)
    BY <1>1, <2>2, <2>3, <2>6 DEF Paid
  <2> QED BY <1>3, <2>1, <2>3, <2>5, <2>6, <2>7
<1> QED BY <1>2, <1>3

LEMMA EditedDebtFacts ==
  ASSUME NEW row \in DebtRow, NEW ed \in DebtEdits
  PROVE  LET new == EditedDebt(row, ed) IN
         /\ new \in DebtRow /\ Paid(new) /\ new.linked = row.linked
         /\ new.status \in {"OPEN", "SETTLED"}
<1>1. /\ row.amount \in Nat /\ row.paid \in Nat /\ row.add \in BOOLEAN /\ row.linked \in BOOLEAN
  BY DEF DebtRow
<1>2. /\ ed.amount \in (Nat \ {0}) \cup {None} /\ ed.paid \in Nat \cup {None}
      /\ ed.add \in BOOLEAN \cup {None} /\ ed.status \in {"OPEN", "SETTLED", None}
  BY DebtAssumption
<1>3. PICK amount \in Nat : amount = IF ed.amount # None THEN ed.amount ELSE row.amount
  BY <1>1, <1>2
<1>4. PICK paid \in Nat : paid = IF ed.paid # None THEN ed.paid ELSE row.paid
  BY <1>1, <1>2
<1>5. PICK add \in BOOLEAN : add = IF ed.add # None THEN ed.add ELSE row.add
  BY <1>1, <1>2
<1>6. PICK least \in Nat : /\ least = Least(amount, paid) /\ least <= amount
                           /\ paid < amount => least < amount
  BY LeastFacts
<1>7. PICK s : s = CASE paid >= amount -> "SETTLED"
                     [] paid < amount /\ ed.status # None -> ed.status
                     [] OTHER -> "OPEN"
  OBVIOUS
<1>8. s \in {"OPEN", "SETTLED"} /\ (paid >= amount => s = "SETTLED")
  BY <1>2, <1>7
<1>9. PICK new : new = [row EXCEPT !.amount = amount, !.paid = least, !.add = add, !.status = s]
  OBVIOUS
<1>10. EditedDebt(row, ed) = new
  BY <1>3, <1>4, <1>5, <1>6, <1>7, <1>9 DEF EditedDebt
<1>11. /\ new \in DebtRow /\ new.linked = row.linked /\ new.amount = amount /\ new.paid = least
       /\ new.status = s
  BY <1>1, <1>6, <1>8, <1>9 DEF DebtRow, DebtStatuses
<1>12. Paid(new)
  BY <1>6, <1>8, <1>11 DEF Paid
<1> QED BY <1>8, <1>10, <1>11, <1>12

-----------------------------------------------------------------------------
(* What rests on rows that others leave alone. *)

LEMMA EmiFrame ==
  ASSUME NEW w \in Ticks, EmiGood(w), tick'[w] = tick[w], emi'[w] = emi[w],
         \A x \in Rules : debtLock'[x] = w <=> debtLock[x] = w,
         tick[w].pc = "run" => /\ tick[w].rule \in Rules
                               /\ debts'[tick[w].rule].linked = debts[tick[w].rule].linked
                               /\ \/ debts'[tick[w].rule] = debts[tick[w].rule]
                                  \/ debtLock[tick[w].rule] # w
  PROVE  EmiGood(w)'
<1> DEFINE r == tick[w].rule
<1>1. CASE tick[w].pc # "run"
  BY <1>1 DEF EmiGood
<1>2. CASE tick[w].pc = "run"
  <2>1. /\ tick[w].row.status \in {"ACTIVE", "COMPLETED"}
        /\ \A x \in Rules : x # r => debtLock[x] # w
        /\ emi[w].wait \/ debtLock[r] = w => debts[r].linked
        /\ debts[r].linked => IF debtLock[r] = w THEN Counting(w) ELSE Spent(w) = 0
    BY <1>2 DEF EmiGood
  <2>2. Spent(w)' = Spent(w)
    BY DEF Spent
  <2>3. debts'[r] = debts[r] /\ Counting(w) => Counting(w)'
    BY <2>2 DEF Counting
  <2>4. debts'[r].linked => IF debtLock'[r] = w THEN Counting(w)' ELSE Spent(w)' = 0
    BY <1>2, <2>1, <2>2, <2>3
  <2> QED BY <1>2, <2>1, <2>4 DEF EmiGood
<1> QED BY <1>1, <1>2

LEMMA EditFrame ==
  ASSUME NEW q \in Requests, EditGood(q), edit'[q] = edit[q],
         edit[q].op # None =>
           LET r == edit[q].debt IN
           /\ debtLock'[r] = q /\ debts'[r].linked = debts[r].linked
           /\ debts[r].status # "ABSENT" => debts'[r].status # "ABSENT"
           /\ rules[r].status \in Final => rules'[r].status \in Final
  PROVE  EditGood(q)'
BY DEF EditGood

\* A rule that came to its end stays there, and no rule ceases to exist.
RulesKept ==
  \A r \in Rules : /\ rules[r].status \in Final => rules'[r].status \in Final
                   /\ rules[r].status # "ABSENT" => rules'[r].status # "ABSENT"

\* A debt that is closed, and linked, has a rule that came to its end.
LEMMA ClosedMeansFinal ==
  ASSUME DInv, NEW r \in Rules, debts[r].linked, debts[r].status # "OPEN"
  PROVE  rules[r].status \in Final
<1>1. rules[r].status \in Statuses /\ rules[r].status # "ABSENT"
  BY DEF DInv, IInv, TypeOK, RuleRow, Linked
<1>2. rules[r].status \notin {"ACTIVE", "PAUSED"}
  BY DEF DInv, SettledStopsEmi
<1> QED BY <1>1, <1>2 DEF Statuses, Final

\* A tick runs a rule only while its debt is OPEN.
LEMMA RunMeansOpen ==
  ASSUME DInv, NEW w \in Ticks, tick[w].pc = "run"
  PROVE  LET r == tick[w].rule IN
         /\ r \in Rules /\ ruleLock[r] = w /\ rules[r].status = "ACTIVE"
         /\ debts[r].linked => debts[r].status = "OPEN"
<1>1. TickGood(w)
  BY DEF DInv, IInv, TickOK
<1>2. tick[w].rule \in Rules /\ ruleLock[tick[w].rule] = w /\ rules[tick[w].rule].status = "ACTIVE"
  BY <1>1 DEF TickGood
<1> QED BY <1>2 DEF DInv, SettledStopsEmi

\* While the debts stay as they are and no rule comes back, so do the rules of closed
\* debts.
LEMMA SameDebts ==
  ASSUME DInv, UNCHANGED debts, RulesKept
  PROVE  OpenMeansUnpaid' /\ SettledStopsEmi' /\ Linked'
<1>1. OpenMeansUnpaid'
  BY DEF DInv, OpenMeansUnpaid
<1>2. SettledStopsEmi'
  <2> SUFFICES ASSUME NEW r \in Rules, debts'[r].linked, debts'[r].status # "OPEN"
               PROVE  rules'[r].status \notin {"ACTIVE", "PAUSED"}
    BY DEF SettledStopsEmi
  <2>1. rules[r].status \in Final
    BY ClosedMeansFinal
  <2> QED BY <2>1 DEF RulesKept, Final
<1>3. Linked'
  BY DEF DInv, Linked, RulesKept
<1> QED BY <1>1, <1>2, <1>3

\* What is left to show of a step of session s is about s alone: the others rest on
\* debts that s has not locked, and on rules that s may not bring back.
LEMMA SessionDebts ==
  ASSUME DInv, IInv', NEW s \in Sessions,
         DebtTypes', OpenMeansUnpaid', SettledStopsEmi', Linked', RulesKept,
         \A x \in Rules, v \in Sessions : v # s => (debtLock'[x] = v <=> debtLock[x] = v),
         \A x \in Rules : \/ debts'[x] = debts[x]
                          \/ debtLock[x] = s /\ debts'[x].linked = debts[x].linked
                          \/ debts[x].status = "ABSENT" /\ rules[x].status = "ABSENT",
         \A v \in Ticks : v # s => tick'[v] = tick[v] /\ emi'[v] = emi[v],
         \A v \in Requests : v # s => edit'[v] = edit[v],
         s \in Ticks => EmiGood(s)',
         s \in Requests => EditGood(s)'
  PROVE  DInv'
<1>1. ASSUME NEW w \in Ticks, w # s PROVE EmiGood(w)'
  <2>1. EmiGood(w) /\ w \in Sessions
    BY DEF DInv, Sessions
  <2>2. \A x \in Rules : debtLock'[x] = w <=> debtLock[x] = w
    BY <1>1, <2>1
  <2>3. tick[w].pc = "run" =>
          /\ tick[w].rule \in Rules
          /\ debts'[tick[w].rule].linked = debts[tick[w].rule].linked
          /\ \/ debts'[tick[w].rule] = debts[tick[w].rule]
             \/ debtLock[tick[w].rule] # w
    BY <1>1, RunMeansOpen
  <2> QED BY <1>1, <2>1, <2>2, <2>3, EmiFrame
<1>2. ASSUME NEW q \in Requests, q # s PROVE EditGood(q)'
  <2>1. EditGood(q) /\ q \in Sessions
    BY DEF DInv, Sessions
  <2>2. edit[q].op # None =>
          LET r == edit[q].debt IN
          /\ debtLock'[r] = q /\ debts'[r].linked = debts[r].linked
          /\ debts[r].status # "ABSENT" => debts'[r].status # "ABSENT"
          /\ rules[r].status \in Final => rules'[r].status \in Final
    BY <1>2, <2>1 DEF EditGood, RulesKept
  <2> QED BY <1>2, <2>1, <2>2, EditFrame
<1> QED BY <1>1, <1>2 DEF DInv

\* A step of MoneyRules that leaves the debts and the runs alone.
NoRunMoves ==
  \A w \in Ticks : \/ tick'[w] = tick[w]
                   \/ tick[w].pc # "run" /\ tick'[w].pc # "run"

LEMMA QuietDebts ==
  ASSUME DInv, IInv', UNCHANGED debtVars, RulesKept, NoRunMoves
  PROVE  DInv'
<1>1. UNCHANGED <<debts, debtLock, emi, edit>>
  BY DEF debtVars
<1>2. DebtTypes'
  BY <1>1 DEF DInv, DebtTypes
<1>3. OpenMeansUnpaid' /\ SettledStopsEmi' /\ Linked'
  BY <1>1, SameDebts
<1>4. ASSUME NEW w \in Ticks PROVE EmiGood(w)'
  <2>1. EmiGood(w)
    BY DEF DInv
  <2>2. CASE tick'[w] = tick[w]
    BY <1>1, <2>1, <2>2, EmiFrame, RunMeansOpen
  <2>3. CASE tick[w].pc # "run" /\ tick'[w].pc # "run"
    BY <1>1, <2>1, <2>3 DEF EmiGood
  <2> QED BY <2>2, <2>3 DEF NoRunMoves
<1>5. ASSUME NEW q \in Requests PROVE EditGood(q)'
  <2>1. EditGood(q)
    BY DEF DInv
  <2>2. edit[q].op # None => edit[q].debt \in Rules /\ debtLock[edit[q].debt] = q
    BY <2>1 DEF EditGood
  <2> QED BY <1>1, <2>1, <2>2, EditFrame DEF RulesKept
<1> QED BY <1>2, <1>3, <1>4, <1>5 DEF DInv

\* The status an edit of a rule leaves it with.
LEMMA RequestKeepsRules ==
  ASSUME IInv, NEW q \in Requests, UserBegins(q) \/ RequestStep(q)
  PROVE  RulesKept /\ UNCHANGED tick
<1>1. CASE CreateRule(q)
  <2>1. PICK r \in Rules, d \in Drafts :
          /\ rules[r].status = "ABSENT"
          /\ rules' = [rules EXCEPT ![r] =
               [status |-> "ACTIVE", next_run_at |-> d.next_run_at, end_at |-> d.end_at,
                max_runs |-> d.max_runs, run_count |-> 0, amount |-> d.amount]]
    BY <1>1 DEF CreateRule
  <2>2. rules'[r].status = "ACTIVE" /\ \A x \in Rules : x # r => rules'[x] = rules[x]
    BY <2>1 DEF IInv, TypeOK
  <2> QED BY <1>1, <2>1, <2>2 DEF CreateRule, RulesKept, Final
<1>2. CASE UpdateRule(q)
  <2>1. PICK ed \in Edits :
          rules' = [rules EXCEPT ![req[q].rule] = Edited(rules[req[q].rule], ed)]
    BY <1>2 DEF UpdateRule
  <2>2. req[q].rule \in Rules
    BY <1>2 DEF IInv, ReqOK, ReqGood, UpdateRule
  <2>3. PICK row \in RuleRow : row = rules[req[q].rule]
    BY <2>2 DEF IInv, TypeOK
  <2>4. /\ row.status \in Final => Edited(row, ed).status = row.status
        /\ row.status # "ABSENT" => Edited(row, ed).status # "ABSENT"
    BY BodyAssumption, NoneAssumption DEF Edited, RuleRow, Statuses, Final
  <2>5. /\ rules'[req[q].rule] = Edited(row, ed)
        /\ \A x \in Rules : x # req[q].rule => rules'[x] = rules[x]
    BY <2>1, <2>2, <2>3 DEF IInv, TypeOK
  <2> QED BY <1>2, <2>3, <2>4, <2>5 DEF UpdateRule, RulesKept
<1>3. CASE DeleteRule(q)
  <2>1. req[q].rule \in Rules
    BY <1>3 DEF IInv, ReqOK, ReqGood, DeleteRule
  <2>2. /\ rules'[req[q].rule].status = "CANCELLED"
        /\ \A x \in Rules : x # req[q].rule => rules'[x] = rules[x]
    BY <1>3, <2>1 DEF DeleteRule, IInv, TypeOK, RuleRow
  <2> QED BY <1>3, <2>2 DEF DeleteRule, RulesKept, Final
<1>4. CASE \/ OpenRule(q) \/ CreateEvent(q) \/ OpenEvent(q) \/ AdjustBalance(q)
           \/ CommitNewEvent(q) \/ CommitEdit(q) \/ AbortRequest(q)
  <2>1. rules' = rules /\ tick' = tick
    BY <1>4 DEF OpenRule, CreateEvent, OpenEvent, AdjustBalance, CommitNewEvent, CommitEdit,
                AbortRequest
  <2> QED BY <2>1 DEF RulesKept
<1> QED BY <1>1, <1>2, <1>3, <1>4 DEF UserBegins, RequestStep

-----------------------------------------------------------------------------
(* The steps of MoneyRules that have nothing to do with debts. *)

LEMMA OtherRequestDebts ==
  ASSUME DInv, NEW q \in Requests, OtherRequest(q)
  PROVE  DInv'
<1>1. IInv /\ (UserBegins(q) \/ RequestStep(q)) /\ UNCHANGED debtVars
  BY DEF DInv, OtherRequest
<1>2. IInv' /\ RulesKept /\ UNCHANGED tick
  BY <1>1, RequestInv, RequestKeepsRules
<1> QED BY <1>1, <1>2, QuietDebts DEF NoRunMoves

LEMMA QuietTicks ==
  ASSUME DInv, UNCHANGED debtVars,
         \/ Advance
         \/ \E w \in Ticks, force \in Forcing : StartTick(w, force)
         \/ \E w \in Ticks : SkipRule(w) \/ EndTick(w) \/ LoseAdvisory(w)
  PROVE  DInv'
<1>1. IInv /\ tick \in [Ticks -> TickState]
  BY DEF DInv, IInv, TypeOK
<1>2. CASE Advance
  <2>1. IInv' /\ rules' = rules /\ tick' = tick
    BY <1>1, <1>2, AdvanceInv DEF Advance
  <2>2. RulesKept /\ NoRunMoves
    BY <2>1 DEF RulesKept, NoRunMoves
  <2> QED BY <2>1, <2>2, QuietDebts
<1>3. CASE \E w \in Ticks, force \in Forcing : StartTick(w, force)
  <2>1. PICK w \in Ticks, force \in Forcing : StartTick(w, force)
    BY <1>3
  <2>2. IInv' /\ rules' = rules
    BY <1>1, <2>1, StartTickInv DEF StartTick
  <2>3. /\ tick[w].pc # "run" /\ tick'[w].pc # "run"
        /\ \A v \in Ticks : v # w => tick'[v] = tick[v]
    BY <1>1, <2>1 DEF StartTick, IdleTick
  <2>4. RulesKept /\ NoRunMoves
    BY <2>2, <2>3 DEF RulesKept, NoRunMoves
  <2> QED BY <2>2, <2>3, <2>4, QuietDebts
<1>4. CASE \E w \in Ticks : SkipRule(w)
  <2>1. PICK w \in Ticks : SkipRule(w)
    BY <1>4
  <2>2. IInv' /\ rules' = rules
    BY <1>1, <2>1, SkipRuleInv DEF SkipRule
  <2>3. PICK item \in tick[w].todo : tick' = [tick EXCEPT ![w].todo = @ \ {item}]
    BY <1>1, <2>1 DEF SkipRule
  <2>4. tick[w].pc = "scan" /\ tick[w] \in TickState
    BY <1>1, <2>1 DEF SkipRule
  <2>5. tick'[w].pc = tick[w].pc /\ \A v \in Ticks : v # w => tick'[v] = tick[v]
    BY <1>1, <2>3, <2>4 DEF TickState
  <2>6. RulesKept /\ NoRunMoves
    BY <2>2, <2>4, <2>5 DEF RulesKept, NoRunMoves
  <2> QED BY <2>2, <2>4, <2>5, <2>6, QuietDebts
<1>5. CASE \E w \in Ticks : EndTick(w)
  <2>1. PICK w \in Ticks : EndTick(w)
    BY <1>5
  <2>2. IInv' /\ rules' = rules
    BY <1>1, <2>1, EndTickInv DEF EndTick
  <2>3. /\ tick[w].pc # "run" /\ tick'[w].pc # "run"
        /\ \A v \in Ticks : v # w => tick'[v] = tick[v]
    BY <1>1, <2>1 DEF EndTick, IdleTick
  <2>4. RulesKept /\ NoRunMoves
    BY <2>2, <2>3 DEF RulesKept, NoRunMoves
  <2> QED BY <2>2, <2>3, <2>4, QuietDebts
<1>6. CASE \E w \in Ticks : LoseAdvisory(w)
  <2>1. IInv' /\ rules' = rules /\ tick' = tick
    BY <1>1, <1>6, LoseAdvisoryInv DEF LoseAdvisory
  <2>2. RulesKept /\ NoRunMoves
    BY <2>1 DEF RulesKept, NoRunMoves
  <2> QED BY <2>1, <2>2, QuietDebts
<1> QED BY <1>2, <1>3, <1>4, <1>5, <1>6

-----------------------------------------------------------------------------
(* The run of a rule. *)

\* A step of a tick that leaves the debts and their locks alone.
LEMMA RunDebts ==
  ASSUME DInv, IInv', NEW w \in Ticks, UNCHANGED <<debts, debtLock, edit, rules>>,
         DebtTypes', EmiGood(w)',
         \A v \in Ticks : v # w => tick'[v] = tick[v] /\ emi'[v] = emi[v]
  PROVE  DInv'
<1>1. RulesKept
  BY DEF RulesKept
<1>2. w \in Sessions /\ w \notin Requests
  BY Distinct DEF Sessions
<1> QED BY <1>1, <1>2, SameDebts, SessionDebts

LEMMA LockRuleDebts ==
  ASSUME DInv, NEW w \in Ticks, LockRule(w), UNCHANGED debtVars
  PROVE  DInv'
<1>1. UNCHANGED <<debts, debtLock, emi, edit>> /\ rules' = rules
  BY DEF debtVars, LockRule
<1>2. IInv /\ IInv' /\ DebtTypes' /\ tick \in [Ticks -> TickState]
  BY <1>1, LockRuleInv DEF DInv, DebtTypes, IInv, TypeOK
<1>3. PICK item \in tick[w].todo : /\ Takes(w, item[1])
                                   /\ tick' = [tick EXCEPT ![w] = Enter(@, item)]
  BY DEF LockRule
<1>4. tick[w].pc # "run"
  BY DEF LockRule
<1>5. ~emi[w].wait /\ \A x \in Rules : debtLock[x] # w
  BY <1>4 DEF DInv, EmiGood
<1>6. /\ tick'[w].pc = "run" /\ tick'[w].rule = item[1] /\ tick'[w].row = rules[item[1]]
      /\ tick'[w].delta = 0
  BY <1>2, <1>3 DEF Enter, IdleTick
<1>7. tick'[w].rule \in Rules /\ tick'[w].row.status = "ACTIVE"
  <2>1. tick'[w] \in TickState /\ TickGood(w)'
    BY <1>2 DEF IInv, TypeOK, TickOK
  <2> QED BY <1>3, <1>6, <2>1 DEF Takes, TickGood
<1>8. Spent(w)' = 0
  BY <1>1, <1>5, <1>6 DEF Spent
<1>9. EmiGood(w)'
  BY <1>1, <1>5, <1>6, <1>7, <1>8 DEF EmiGood
<1>10. \A v \in Ticks : v # w => tick'[v] = tick[v]
  BY <1>2, <1>3
<1> QED BY <1>1, <1>2, <1>9, <1>10, RunDebts

LEMMA SteppedStatus ==
  ASSUME NEW row \in RuleRow, NEW counted \in {0, 1}, row.status \in {"ACTIVE", "COMPLETED"}
  PROVE  /\ Stepped(row, counted).status \in {"ACTIVE", "COMPLETED"}
         /\ Stepped(row, counted).amount = row.amount
BY DEF Stepped, RuleRow

LEMMA RepeatPeriodDebts ==
  ASSUME DInv, NEW w \in Ticks, RepeatPeriod(w), UNCHANGED debtVars
  PROVE  DInv'
<1> DEFINE r == tick[w].rule
<1>1. UNCHANGED <<debts, debtLock, emi, edit>> /\ rules' = rules
  BY DEF debtVars, RepeatPeriod
<1>2. IInv /\ IInv' /\ DebtTypes' /\ tick[w] \in TickState /\ tick \in [Ticks -> TickState]
  BY <1>1, RepeatPeriodInv DEF DInv, DebtTypes, IInv, TypeOK
<1>3. /\ tick[w].pc = "run" /\ tick[w].row.status = "ACTIVE"
      /\ tick' = [tick EXCEPT ![w] =
           [tick[w] EXCEPT !.row = Stepped(tick[w].row, 0), !.steps = tick[w].steps + 1]]
  BY DEF RepeatPeriod, InLoop, LoopRuns
<1>4. PICK row : row = Stepped(tick[w].row, 0)
  OBVIOUS
<1>5. tick[w].row \in RuleRow
  BY <1>2 DEF TickState
<1>6. row.status \in {"ACTIVE", "COMPLETED"} /\ row.amount = tick[w].row.amount
  BY <1>3, <1>4, <1>5, SteppedStatus
<1>7. /\ tick'[w].pc = "run" /\ tick'[w].rule = r /\ tick'[w].delta = tick[w].delta
      /\ tick'[w].row = row
      /\ \A v \in Ticks : v # w => tick'[v] = tick[v]
  BY <1>2, <1>3, <1>4 DEF TickState
<1>8. EmiGood(w)'
  <2>1. EmiGood(w) /\ r \in Rules
    BY <1>3, RunMeansOpen DEF DInv
  <2>2. Spent(w)' = Spent(w)
    BY <1>1, <1>6, <1>7 DEF Spent
  <2>3. Counting(w) => Counting(w)'
    BY <1>1, <1>3, <1>7, <2>2 DEF Counting
  <2> QED BY <1>1, <1>3, <1>6, <1>7, <2>1, <2>2, <2>3 DEF EmiGood
<1> QED BY <1>1, <1>2, <1>7, <1>8, RunDebts

LEMMA PostInstallmentDebts ==
  ASSUME DInv, NEW w \in Ticks, PostInstallment(w)
  PROVE  DInv'
<1> DEFINE r == tick[w].rule
           amount == tick[w].row.amount
<1>1. /\ PostPeriod(w) /\ ~emi[w].wait /\ UNCHANGED <<debts, debtLock, edit>> /\ rules' = rules
      /\ emi' = [emi EXCEPT ![w].wait = Owed(r)]
  BY DEF PostInstallment, PostPeriod
<1>2. IInv /\ IInv' /\ tick[w] \in TickState
  BY <1>1, PostPeriodInv DEF DInv, IInv, TypeOK
<1>3. tick[w].pc = "run" /\ tick[w].row.status = "ACTIVE"
  BY <1>1 DEF PostPeriod, InLoop, LoopRuns
<1>4. r \in Rules /\ (debts[r].linked => debts[r].status = "OPEN")
  BY <1>3, RunMeansOpen
<1>5. /\ debts \in [Rules -> DebtRow] /\ debts[r].linked \in BOOLEAN
      /\ emi \in [Ticks -> [wait: BOOLEAN, row: DebtRow]]
  BY <1>4 DEF DInv, DebtTypes, DebtRow
<1>6. Owed(r) = debts[r].linked
  BY <1>4, <1>5 DEF Owed
<1>7. /\ emi'[w].wait = debts[r].linked /\ emi'[w].row = emi[w].row
      /\ \A v \in Ticks : v # w => emi'[v] = emi[v]
  BY <1>1, <1>5, <1>6
<1>8. DebtTypes'
  <2>1. emi' \in [Ticks -> [wait: BOOLEAN, row: DebtRow]]
    BY <1>1, <1>5, <1>6
  <2> QED BY <1>1, <2>1 DEF DInv, DebtTypes
<1>9. PICK e \in Events : Posts(w, e)
  BY <1>1, <1>2, PostFacts
<1>10. PICK row : row = Stepped(tick[w].row, 1)
  OBVIOUS
<1>11. tick[w].row \in RuleRow /\ amount \in Nat /\ tick[w].delta \in Int
  BY <1>2 DEF TickState, RuleRow
<1>12. row.status \in {"ACTIVE", "COMPLETED"} /\ row.amount = amount
  BY <1>3, <1>10, <1>11, SteppedStatus
<1>13. /\ tick'[w].pc = "run" /\ tick'[w].rule = r /\ tick'[w].row = row
       /\ tick'[w].delta = tick[w].delta + Signed(KindOf[r], amount)
       /\ \A v \in Ticks : v # w => tick'[v] = tick[v]
  BY <1>9, <1>10 DEF Posts
<1>14. EmiGood(w)'
  <2>1. EmiGood(w)
    BY DEF DInv
  <2>2. debts[r].linked => Spent(w)' = Spent(w)
    <3> HAVE debts[r].linked
    <3>1. Signed(KindOf[r], amount) = 0 - amount
      BY <1>4 DEF DInv, Linked, Signed
    <3>2. Spent(w)' = 0 - (tick[w].delta + (0 - amount)) - amount
      BY <1>7, <1>12, <1>13, <3>1 DEF Spent
    <3>3. Spent(w) = 0 - tick[w].delta
      BY <1>1, <1>11 DEF Spent
    <3> HIDE DEF amount
    <3> QED BY <1>11, <3>2, <3>3
  <2>3. debts[r].linked /\ Counting(w) => Counting(w)'
    BY <1>1, <1>3, <1>7, <1>13, <2>2 DEF Counting
  <2> QED BY <1>1, <1>3, <1>4, <1>7, <1>12, <1>13, <2>1, <2>2, <2>3 DEF EmiGood
<1> QED BY <1>1, <1>2, <1>7, <1>8, <1>13, <1>14, RunDebts

\* The session record that CountInstallment leaves.
LEMMA CountInstallmentInv ==
  ASSUME DInv, NEW w \in Ticks, CountInstallment(w)
  PROVE  /\ IInv'
         /\ tick'[w].pc = "run" /\ tick'[w].rule = tick[w].rule
         /\ tick'[w].delta = tick[w].delta /\ tick'[w].row.amount = tick[w].row.amount
         /\ \A v \in Ticks : v # w => tick'[v] = tick[v]
<1>1. PICK status :
        /\ tick' = [tick EXCEPT ![w].row.status = status]
        /\ status \in {"COMPLETED", tick[w].row.status}
  <2> DEFINE r == tick[w].rule
             old == IF debtLock[r] = w THEN emi[w].row ELSE debts[r]
             new == Counted(old, tick[w].row.amount)
  <2>1. PICK status : status = IF old.status = "OPEN" /\ new.status = "SETTLED"
                               THEN "COMPLETED" ELSE tick[w].row.status
    OBVIOUS
  <2>2. tick' = [tick EXCEPT ![w].row.status = status]
    BY <2>1 DEF CountInstallment
  <2> QED BY <2>1, <2>2
<1>2. /\ IInv /\ TypeOK /\ tick[w] \in TickState /\ tick \in [Ticks -> TickState]
      /\ w \in Sessions /\ TickGood(w)
  BY TickTypes DEF DInv, IInv, TypeOK, TickOK
<1>3. tick[w].pc = "run"
  BY DEF DInv, EmiGood, CountInstallment
<1>4. tick[w].row \in RuleRow
  BY <1>2 DEF TickState
<1>5. PICK row : row = [tick[w].row EXCEPT !.status = status]
  OBVIOUS
<1>6. row \in RuleRow /\ row.amount = tick[w].row.amount
  BY <1>1, <1>4, <1>5 DEF RuleRow, Statuses
<1>7. PICK t : t = [tick[w] EXCEPT !.row = row]
  OBVIOUS
<1>8. tick' = [tick EXCEPT ![w] = t]
  BY <1>1, <1>5, <1>7
<1>9. /\ t \in TickState /\ t.pc = "run" /\ t.rule = tick[w].rule /\ t.delta = tick[w].delta
      /\ t.bal = tick[w].bal /\ t.row = row
  BY <1>2, <1>3, <1>6, <1>7 DEF TickState
<1>10. tick'[w] = t /\ tick' \in [Ticks -> TickState] /\ \A v \in Ticks : v # w => tick'[v] = tick[v]
  BY <1>2, <1>8, <1>9
<1>11. UNCHANGED <<clock, rules, events, net, ledger, total, alerted, ruleLock, eventLock,
                   poolLock, advisory, req, used, faults>>
  BY DEF CountInstallment, money, locks
<1>12. TypeOK'
  BY <1>2, <1>10, <1>11 DEF TypeOK
<1>13. TickGood(w)'
  BY <1>2, <1>3, <1>9, <1>10, <1>11 DEF TickGood
<1>14. IInv'
  BY <1>2, <1>10, <1>11, <1>12, <1>13, QuietSession, Distinct
<1> QED BY <1>6, <1>9, <1>10, <1>14

\* What the debt had before, one installment later.
LEMMA LeastTwice ==
  ASSUME NEW limit \in Int, NEW paid \in Int, NEW amount \in Nat
  PROVE  Least(limit, Least(limit, paid) + amount) = Least(limit, paid + amount)
BY DEF Least

LEMMA CountInstallmentDebts ==
  ASSUME DInv, NEW w \in Ticks, CountInstallment(w)
  PROVE  DInv'
<1> DEFINE r == tick[w].rule
           amount == tick[w].row.amount
<1>1. /\ IInv /\ IInv' /\ tick'[w].pc = "run" /\ tick'[w].rule = r
      /\ tick'[w].delta = tick[w].delta /\ tick'[w].row.amount = amount
      /\ \A v \in Ticks : v # w => tick'[v] = tick[v]
  BY CountInstallmentInv DEF DInv
<1>2. /\ emi[w].wait /\ DebtFree(r, w) /\ debtLock' = [debtLock EXCEPT ![r] = w]
      /\ UNCHANGED <<rules, debts, edit>>
  BY DEF CountInstallment
<1>3. EmiGood(w) /\ tick[w].pc = "run"
  BY <1>2 DEF DInv, EmiGood
<1>4. r \in Rules /\ debts[r].linked /\ debts[r].status = "OPEN"
  BY <1>2, <1>3, RunMeansOpen DEF EmiGood
<1>5. /\ debts[r] \in DebtRow /\ Paid(debts[r]) /\ emi[w].row \in DebtRow
      /\ debtLock \in [Rules -> Sessions \cup {None}]
      /\ emi \in [Ticks -> [wait: BOOLEAN, row: DebtRow]]
  BY <1>4 DEF DInv, DebtTypes, OpenMeansUnpaid, Paid
<1>6. /\ debts[r].amount \in Nat /\ debts[r].paid \in Nat /\ debts[r].paid <= debts[r].amount
      /\ debts[r].add \in BOOLEAN
  BY <1>5 DEF DebtRow, Paid
<1>7. tick[w] \in TickState
  BY <1>1 DEF IInv, TypeOK
<1>8. amount \in Nat /\ tick[w].delta \in Int /\ tick[w].row.status \in {"ACTIVE", "COMPLETED"}
  BY <1>3, <1>7 DEF TickState, RuleRow, EmiGood
<1>9. Spent(w) \in Int /\ Spent(w)' = Spent(w) + amount
  <2>1. emi'[w].wait = FALSE
    BY <1>5 DEF CountInstallment
  <2>2. Spent(w) = 0 - tick[w].delta - amount
    BY <1>2 DEF Spent
  <2>3. Spent(w)' = 0 - tick[w].delta
    BY <1>1, <1>8, <2>1 DEF Spent
  <2> HIDE DEF amount
  <2> QED BY <1>8, <2>2, <2>3
<1>10. PICK old : old = IF debtLock[r] = w THEN emi[w].row ELSE debts[r]
  OBVIOUS
<1>11. /\ old \in DebtRow /\ Paid(old) /\ old.status = "OPEN" /\ old.linked
       /\ old.amount = debts[r].amount /\ old.add = debts[r].add
       /\ old.paid = IF debts[r].add THEN Least(debts[r].amount, debts[r].paid + Spent(w))
                                     ELSE debts[r].paid
  <2>1. CASE debtLock[r] = w
    <3>1. Counting(w) /\ old = emi[w].row
      BY <1>3, <1>4, <1>10, <2>1 DEF EmiGood
    <3> QED BY <1>2, <1>5, <3>1 DEF Counting
  <2>2. CASE debtLock[r] # w
    <3>1. Spent(w) = 0 /\ old = debts[r]
      BY <1>3, <1>4, <1>10, <2>2 DEF EmiGood
    <3>2. Least(debts[r].amount, debts[r].paid + Spent(w)) = debts[r].paid
      BY <1>6, <3>1 DEF Least
    <3> QED BY <1>4, <1>5, <3>1, <3>2
  <2> QED BY <2>1, <2>2
<1>12. PICK new : new = Counted(old, amount)
  OBVIOUS
<1>13. /\ new \in DebtRow /\ Paid(new) /\ new.linked /\ new.status \in {"OPEN", "SETTLED"}
       /\ new.amount = debts[r].amount /\ new.add = debts[r].add
       /\ new.paid = IF old.add THEN Least(old.amount, old.paid + amount) ELSE old.paid
  BY <1>8, <1>11, <1>12, CountedFacts
<1>14. new.paid = IF debts[r].add THEN Least(debts[r].amount, debts[r].paid + Spent(w)')
                                  ELSE debts[r].paid
  <2>1. Least(debts[r].amount, Least(debts[r].amount, debts[r].paid + Spent(w)) + amount)
          = Least(debts[r].amount, debts[r].paid + Spent(w) + amount)
    <3>1. debts[r].paid + Spent(w) \in Int
      BY <1>6, <1>9
    <3> QED BY <1>6, <1>8, <3>1, LeastTwice
  <2>2. debts[r].paid + Spent(w) + amount = debts[r].paid + Spent(w)'
    <3> HIDE DEF amount
    <3> QED BY <1>6, <1>8, <1>9
  <2> QED BY <1>11, <1>13, <2>1, <2>2
<1>15. /\ emi' = [emi EXCEPT ![w] = [wait |-> FALSE, row |-> new]]
       /\ tick' = [tick EXCEPT ![w].row.status =
             IF old.status = "OPEN" /\ new.status = "SETTLED" THEN "COMPLETED" ELSE @]
  BY <1>10, <1>12 DEF CountInstallment
<1>16. /\ emi'[w].row = new /\ emi'[w].wait = FALSE
       /\ \A v \in Ticks : v # w => emi'[v] = emi[v]
       /\ emi' \in [Ticks -> [wait: BOOLEAN, row: DebtRow]]
  BY <1>5, <1>13, <1>15
<1>17. tick'[w].row.status = IF new.status = "SETTLED" THEN "COMPLETED" ELSE tick[w].row.status
  BY <1>1, <1>7, <1>11, <1>15 DEF IInv, TypeOK, TickState, RuleRow
<1>18. /\ debtLock'[r] = w /\ \A x \in Rules : x # r => debtLock'[x] = debtLock[x]
       /\ debtLock' \in [Rules -> Sessions \cup {None}]
  BY <1>2, <1>4, <1>5 DEF Sessions
<1>19. DebtTypes'
  BY <1>2, <1>16, <1>18 DEF DInv, DebtTypes
<1>20. EmiGood(w)'
  <2>1. Counting(w)'
    BY <1>1, <1>2, <1>4, <1>13, <1>14, <1>16, <1>17 DEF Counting
  <2> QED BY <1>1, <1>2, <1>3, <1>4, <1>8, <1>16, <1>17, <1>18, <2>1 DEF EmiGood
<1>21. w \in Sessions /\ w \notin Requests /\ None \notin Sessions
  BY Distinct, SessionAssumption DEF Sessions
<1>22. \A x \in Rules, v \in Sessions : v # w => (debtLock'[x] = v <=> debtLock[x] = v)
  BY <1>2, <1>18, <1>21 DEF DebtFree
<1>23. RulesKept
  BY <1>2 DEF RulesKept
<1> QED BY <1>1, <1>2, <1>16, <1>19, <1>20, <1>21, <1>22, <1>23, SameDebts, SessionDebts

LEMMA ReleaseDebtsFacts ==
  ASSUME DebtTypes, NEW s \in Sessions, ReleaseDebts(s)
  PROVE  /\ debtLock' \in [Rules -> Sessions \cup {None}]
         /\ \A x \in Rules : debtLock'[x] # s
         /\ \A x \in Rules, v \in Sessions : v # s => (debtLock'[x] = v <=> debtLock[x] = v)
BY SessionAssumption DEF DebtTypes, ReleaseDebts

\* A tick that is out of a run holds no debt.
LEMMA NoRunGood ==
  ASSUME NEW w \in Ticks, DebtTypes, tick'[w].pc # "run", emi' = [emi EXCEPT ![w] = NoEmi],
         \A x \in Rules : debtLock'[x] # w
  PROVE  /\ EmiGood(w)'
         /\ emi' \in [Ticks -> [wait: BOOLEAN, row: DebtRow]]
         /\ \A v \in Ticks : v # w => emi'[v] = emi[v]
<1>1. emi \in [Ticks -> [wait: BOOLEAN, row: DebtRow]]
  BY DEF DebtTypes
<1>2. NoEmi \in [wait: BOOLEAN, row: DebtRow] /\ NoEmi.wait = FALSE
  BY DEF NoEmi, AbsentDebt, DebtRow, DebtStatuses
<1>3. emi'[w].wait = FALSE
  BY <1>1, <1>2
<1> QED BY <1>1, <1>2, <1>3 DEF EmiGood

\* How the run leaves its rule.
LEMMA LoopExitStatus ==
  ASSUME NEW t \in TickState, t.row.status \in {"ACTIVE", "COMPLETED"}
  PROVE  /\ LoopExit(t).status \in {"ACTIVE", "COMPLETED"}
         /\ t.row.status = "COMPLETED" => LoopExit(t).status = "COMPLETED"
<1>1. t.row \in RuleRow
  BY DEF TickState
<1> QED BY <1>1 DEF LoopExit, LoopRuns, RuleRow

LEMMA CommitRunDebts ==
  ASSUME DInv, NEW w \in Ticks, CommitRun(w)
  PROVE  DInv'
<1> DEFINE r == tick[w].rule
<1>1. /\ CommitRule(w) /\ ReleaseDebts(w) /\ emi' = [emi EXCEPT ![w] = NoEmi] /\ edit' = edit
      /\ debts' = IF debtLock[r] = w THEN [debts EXCEPT ![r] = emi[w].row] ELSE debts
      /\ DebtTypes /\ IInv /\ w \in Sessions /\ w \notin Requests
  BY Distinct DEF CommitRun, DInv, Sessions
<1>2. IInv' /\ tick[w] \in TickState /\ tick[w].pc = "run"
  BY <1>1, CommitRuleInv DEF IInv, TypeOK, CommitRule
<1>3. /\ r \in Rules /\ rules[r].status = "ACTIVE"
      /\ debts[r].linked => debts[r].status = "OPEN"
  BY <1>2, RunMeansOpen
<1>4. /\ EmiGood(w) /\ debts \in [Rules -> DebtRow] /\ emi[w].row \in DebtRow
      /\ emi \in [Ticks -> [wait: BOOLEAN, row: DebtRow]]
      /\ edit \in [Requests -> [op: {"update", "delete", None}, debt: Rules \cup {None},
                            row: DebtRow, stop: {"COMPLETED", "CANCELLED", None},
                            share: BOOLEAN]]
  BY DEF DInv, DebtTypes
<1>5. /\ tick'[w].pc # "run" /\ \A v \in Ticks : v # w => tick'[v] = tick[v]
  BY <1>1 DEF CommitRule, IInv, TypeOK, BackToScan, IdleTick
<1>6. /\ debtLock' \in [Rules -> Sessions \cup {None}]
      /\ \A x \in Rules : debtLock'[x] # w
      /\ \A x \in Rules, v \in Sessions : v # w => (debtLock'[x] = v <=> debtLock[x] = v)
  BY <1>1, ReleaseDebtsFacts
<1>7. /\ EmiGood(w)' /\ \A v \in Ticks : v # w => emi'[v] = emi[v]
      /\ emi' \in [Ticks -> [wait: BOOLEAN, row: DebtRow]]
  BY <1>1, <1>5, <1>6, NoRunGood
<1>8. /\ \A x \in Rules : x # r => rules'[x] = rules[x] /\ debts'[x] = debts[x]
      /\ debts'[r] = IF debtLock[r] = w THEN emi[w].row ELSE debts[r]
      /\ rules'[r] = LoopExit(tick[w])
  BY <1>1, <1>3, <1>4 DEF CommitRule, IInv, TypeOK
<1>9. tick[w].row.status \in {"ACTIVE", "COMPLETED"}
  BY <1>2, <1>4 DEF EmiGood
<1>10. /\ rules'[r].status \in {"ACTIVE", "COMPLETED"}
       /\ tick[w].row.status = "COMPLETED" => rules'[r].status = "COMPLETED"
  BY <1>2, <1>8, <1>9, LoopExitStatus
<1>11. /\ debtLock[r] = w => debts[r].linked /\ Counting(w)
       /\ debts[r].linked = debts'[r].linked
  BY <1>2, <1>4, <1>8 DEF EmiGood, Counting, DebtRow
<1>12. RulesKept
  BY <1>3, <1>8, <1>10 DEF RulesKept, Final
<1>13. OpenMeansUnpaid'
  <2>1. \A x \in Rules : Paid(debts[x])
    BY DEF DInv, OpenMeansUnpaid, Paid
  <2>2. \A x \in Rules : Paid(debts'[x])
    BY <1>8, <1>11, <2>1 DEF Counting
  <2> QED BY <2>2 DEF OpenMeansUnpaid, Paid
<1>14. SettledStopsEmi'
  <2> SUFFICES ASSUME NEW x \in Rules, debts'[x].linked, debts'[x].status # "OPEN"
               PROVE  rules'[x].status \notin {"ACTIVE", "PAUSED"}
    BY DEF SettledStopsEmi
  <2>1. CASE x # r
    BY <1>8, <2>1, ClosedMeansFinal DEF Final
  <2>2. CASE x = r
    BY <1>3, <1>8, <1>10, <1>11, <2>2 DEF Counting
  <2> QED BY <2>1, <2>2
<1>15. Linked'
  BY <1>8, <1>10, <1>11 DEF DInv, Linked
<1>16. DebtTypes'
  <2>1. debts' \in [Rules -> DebtRow]
    BY <1>1, <1>4
  <2> QED BY <1>1, <1>4, <1>6, <1>7, <2>1 DEF DebtTypes
<1>17. \A x \in Rules : \/ debts'[x] = debts[x]
                        \/ debtLock[x] = w /\ debts'[x].linked = debts[x].linked
  BY <1>8, <1>11
<1> QED BY <1>1, <1>2, <1>5, <1>6, <1>7, <1>12, <1>13, <1>14, <1>15, <1>16, <1>17, SessionDebts

LEMMA DroppedDebts ==
  ASSUME DInv, IInv', NEW w \in Ticks, Dropped(w), rules' = rules, tick'[w].pc # "run",
         \A v \in Ticks : v # w => tick'[v] = tick[v]
  PROVE  DInv'
<1>1. /\ ReleaseDebts(w) /\ emi' = [emi EXCEPT ![w] = NoEmi] /\ UNCHANGED <<debts, edit>>
      /\ DebtTypes /\ w \in Sessions /\ w \notin Requests
  BY Distinct DEF Dropped, DInv, Sessions
<1>2. /\ debtLock' \in [Rules -> Sessions \cup {None}]
      /\ \A x \in Rules : debtLock'[x] # w
      /\ \A x \in Rules, v \in Sessions : v # w => (debtLock'[x] = v <=> debtLock[x] = v)
  BY <1>1, ReleaseDebtsFacts
<1>3. /\ EmiGood(w)' /\ \A v \in Ticks : v # w => emi'[v] = emi[v]
      /\ emi' \in [Ticks -> [wait: BOOLEAN, row: DebtRow]]
  BY <1>1, <1>2, NoRunGood
<1>4. DebtTypes'
  BY <1>1, <1>2, <1>3 DEF DebtTypes
<1>5. RulesKept
  BY DEF RulesKept
<1> QED BY <1>1, <1>2, <1>3, <1>4, <1>5, SameDebts, SessionDebts

\* The runs that end without a commit.
LEMMA BreakDebts ==
  ASSUME DInv, NEW w \in Ticks, Dropped(w),
         \/ FailZeroAmount(w) \/ FailTransient(w) \/ CrashTick(w)
         \/ (FailRule(w) /\ UNCHANGED faults)
  PROVE  DInv'
<1>1. IInv /\ tick \in [Ticks -> TickState] /\ faults \in Nat
  BY DEF DInv, IInv, TypeOK
<1>2. CASE CrashTick(w)
  <2>1. IInv' /\ rules' = rules /\ tick' = [tick EXCEPT ![w] = IdleTick]
    BY <1>1, <1>2, CrashTickInv DEF CrashTick
  <2>2. tick'[w].pc # "run" /\ \A v \in Ticks : v # w => tick'[v] = tick[v]
    BY <1>1, <2>1 DEF IdleTick
  <2> QED BY <2>1, <2>2, DroppedDebts
<1>3. CASE FailZeroAmount(w) \/ FailTransient(w) \/ (FailRule(w) /\ UNCHANGED faults)
  <2>1. FailRule(w) /\ faults' \in Nat
    BY <1>1, <1>3 DEF FailZeroAmount, FailTransient
  <2>2. IInv' /\ rules' = rules /\ tick' = [tick EXCEPT ![w] = BackToScan(tick[w])]
    BY <1>1, <2>1, FailRuleInv DEF FailRule
  <2>3. tick'[w].pc # "run" /\ \A v \in Ticks : v # w => tick'[v] = tick[v]
    BY <1>1, <2>2 DEF BackToScan, IdleTick
  <2> QED BY <2>2, <2>3, DroppedDebts
<1> QED BY <1>2, <1>3

-----------------------------------------------------------------------------
(* The requests on debts. *)

\* What MoneyRules knows, while the rows that a tick holds stay ACTIVE.
LEMMA RulesWritten ==
  ASSUME IInv, TypeOK',
         UNCHANGED <<events, net, ledger, total, ruleLock, eventLock, poolLock, tick, req>>,
         \A x \in Rules, v \in Ticks :
           ruleLock[x] = v /\ rules[x].status = "ACTIVE" => rules'[x].status = "ACTIVE"
  PROVE  IInv'
<1>1. TickOK'
  <2> SUFFICES ASSUME NEW v \in Ticks PROVE TickGood(v)'
    BY DEF TickOK
  <2>1. Undisturbed(v)
    BY DEF Undisturbed
  <2> QED BY <2>1, TickFrame
<1>2. ReqOK'
  <2> SUFFICES ASSUME NEW q \in Requests PROVE ReqGood(q)'
    BY DEF ReqOK
  <2>1. ReqGood(q)
    BY DEF IInv, ReqOK
  <2> QED BY <2>1 DEF ReqGood, Editing, Creating, Balanced, Delta
<1>3. RowsOK' /\ UniqueIndex' /\ PoolMatchesLedger' /\ EventMatchesLedger'
  BY DEF IInv, RowsOK, UniqueIndex, PoolMatchesLedger, EventMatchesLedger
<1> QED BY <1>1, <1>2, <1>3 DEF IInv

LEMMA HoldDebts ==
  ASSUME DInv, NEW q \in Requests, NEW r \in Rules, NEW change, Hold(q, r, change),
         change \in [op: {"update", "delete", None}, debt: Rules \cup {None},
                     row: DebtRow, stop: {"COMPLETED", "CANCELLED", None}, share: BOOLEAN],
         change.debt = r, change.row.linked = debts[r].linked, Paid(change.row),
         change.row.linked /\ change.row.status # "OPEN" =>
           change.stop \in Final \/ rules[r].status \in Final
  PROVE  DInv'
<1>1. /\ debts[r].status \in {"OPEN", "SETTLED"} /\ DebtFree(r, q)
      /\ debtLock' = [debtLock EXCEPT ![r] = q] /\ edit' = [edit EXCEPT ![q] = change]
      /\ UNCHANGED <<debts, emi, rules, tick>>
  BY DEF Hold
<1>2. UNCHANGED <<clock, rules, events, net, ledger, total, alerted, ruleLock, eventLock,
                  poolLock, advisory, tick, req, faults>> /\ used' \in Nat
  BY DEF Hold, Begin, money, locks, DInv, IInv, TypeOK
<1>3. /\ DebtTypes /\ IInv /\ q \in Sessions /\ q \notin Ticks /\ None \notin Sessions
      /\ debtLock \in [Rules -> Sessions \cup {None}]
  BY Distinct, SessionAssumption DEF DInv, DebtTypes, Sessions
<1>4. IInv'
  <2>1. TypeOK'
    BY <1>2, <1>3 DEF IInv, TypeOK
  <2> QED BY <1>2, <1>3, <2>1, RulesWritten
<1>5. DebtTypes'
  BY <1>1, <1>3 DEF DebtTypes
<1>6. RulesKept
  BY <1>1 DEF RulesKept
<1>7. edit'[q] = change /\ \A v \in Requests : v # q => edit'[v] = edit[v]
  BY <1>1, <1>3 DEF DebtTypes
<1>8. debtLock'[r] = q
  BY <1>1, <1>3
<1>9. EditGood(q)'
  BY <1>1, <1>7, <1>8 DEF EditGood
<1>10. \A x \in Rules, v \in Sessions : v # q => (debtLock'[x] = v <=> debtLock[x] = v)
  BY <1>1, <1>3 DEF DebtFree
<1> QED BY <1>1, <1>3, <1>4, <1>5, <1>6, <1>7, <1>9, <1>10, SameDebts, SessionDebts

LEMMA UpdateDebtDebts ==
  ASSUME DInv, NEW q \in Requests, UpdateDebt(q)
  PROVE  DInv'
<1>1. PICK r \in Rules, ed \in DebtEdits :
        Hold(q, r, [op |-> "update", debt |-> r, row |-> EditedDebt(debts[r], ed),
                    stop |-> Stops(r, EditedDebt(debts[r], ed)),
                    share |-> ed.share /\ EditedDebt(debts[r], ed).linked])
  BY DEF UpdateDebt
<1>2. debts[r] \in DebtRow
  BY DEF DInv, DebtTypes
<1>3. PICK row : row = EditedDebt(debts[r], ed)
  OBVIOUS
<1>4. /\ row \in DebtRow /\ Paid(row) /\ row.linked = debts[r].linked
      /\ row.status \in {"OPEN", "SETTLED"} /\ row.linked \in BOOLEAN
  BY <1>2, <1>3, EditedDebtFacts DEF DebtRow
<1>5. ed.share \in BOOLEAN
  BY DebtAssumption
<1>6. PICK stop : stop = Stops(r, row)
  OBVIOUS
<1>7. stop \in {"COMPLETED", None}
  BY <1>6 DEF Stops
<1>8. row.linked /\ row.status # "OPEN" => stop \in Final \/ rules[r].status \in Final
  <2> HAVE row.linked /\ row.status # "OPEN"
  <2>1. rules[r].status \in Statuses /\ rules[r].status # "ABSENT"
    BY <1>4 DEF DInv, Linked, IInv, TypeOK, RuleRow
  <2> QED BY <1>4, <1>6, <2>1 DEF Stops, Final, Statuses
<1>9. PICK share \in BOOLEAN : share = (ed.share /\ row.linked)
  BY <1>4, <1>5
<1>10. PICK change : change = [op |-> "update", debt |-> r, row |-> row, stop |-> stop,
                               share |-> share]
  OBVIOUS
<1>11. Hold(q, r, change)
  BY <1>1, <1>3, <1>6, <1>9, <1>10
<1>12. /\ change.debt = r /\ change.row = row /\ change.stop = stop
       /\ change \in [op: {"update", "delete", None}, debt: Rules \cup {None},
                      row: DebtRow, stop: {"COMPLETED", "CANCELLED", None}, share: BOOLEAN]
  BY <1>4, <1>7, <1>10
<1> QED BY <1>4, <1>8, <1>11, <1>12, HoldDebts

LEMMA DeleteDebtDebts ==
  ASSUME DInv, NEW q \in Requests, DeleteDebt(q)
  PROVE  DInv'
<1>1. PICK r \in Rules :
        Hold(q, r, [op |-> "delete", debt |-> r, row |-> [debts[r] EXCEPT !.status = "DELETED"],
                    stop |-> IF debts[r].linked THEN "CANCELLED" ELSE None, share |-> FALSE])
  BY DEF DeleteDebt
<1>2. debts[r] \in DebtRow /\ Paid(debts[r])
  BY DEF DInv, DebtTypes, OpenMeansUnpaid, Paid
<1>3. PICK row : row = [debts[r] EXCEPT !.status = "DELETED"]
  OBVIOUS
<1>4. row \in DebtRow /\ Paid(row) /\ row.linked = debts[r].linked
  BY <1>2, <1>3 DEF DebtRow, DebtStatuses, Paid
<1>5. PICK stop : stop = IF debts[r].linked THEN "CANCELLED" ELSE None
  OBVIOUS
<1>6. PICK change : change = [op |-> "delete", debt |-> r, row |-> row, stop |-> stop,
                              share |-> FALSE]
  OBVIOUS
<1>7. /\ change.debt = r /\ change.row = row /\ change.stop = stop
      /\ change \in [op: {"update", "delete", None}, debt: Rules \cup {None},
                     row: DebtRow, stop: {"COMPLETED", "CANCELLED", None}, share: BOOLEAN]
  BY <1>4, <1>5, <1>6
<1>8. Hold(q, r, change)
  BY <1>1, <1>3, <1>5, <1>6
<1> QED BY <1>4, <1>5, <1>7, <1>8, HoldDebts DEF Final

LEMMA CommitDebtDebts ==
  ASSUME DInv, NEW q \in Requests, CommitDebt(q)
  PROVE  DInv'
<1> DEFINE r == edit[q].debt
           row == edit[q].row
           stop == edit[q].stop
<1>1. /\ edit[q].op # None /\ RuleReady(q)
      /\ debts' = [debts EXCEPT ![r] = row]
      /\ rules' = IF stop = None THEN rules ELSE [rules EXCEPT ![r].status = stop]
      /\ ReleaseDebts(q) /\ edit' = [edit EXCEPT ![q] = NoChange] /\ UNCHANGED emi
  BY DEF CommitDebt
<1>2. UNCHANGED <<clock, events, net, ledger, total, alerted, ruleLock, eventLock,
                  poolLock, advisory, tick, req, used, faults>>
  BY DEF CommitDebt, money, locks
<1>3. /\ DebtTypes /\ IInv /\ TypeOK /\ q \in Sessions /\ q \notin Ticks /\ EditGood(q)
      /\ rules \in [Rules -> RuleRow] /\ debts \in [Rules -> DebtRow]
  BY Distinct DEF DInv, DebtTypes, Sessions, IInv, TypeOK
<1>4. /\ r \in Rules /\ debtLock[r] = q /\ row.linked = debts[r].linked /\ Paid(row)
      /\ row.linked /\ row.status # "OPEN" => stop \in Final \/ rules[r].status \in Final
  BY <1>1, <1>3 DEF EditGood
<1>5. row \in DebtRow /\ stop \in Final \cup {None} /\ None \notin Final
  BY NoneAssumption DEF DInv, DebtTypes, Final, Statuses
<1> HIDE DEF r, row, stop
<1>6. /\ \A x \in Rules : x # r => rules'[x] = rules[x] /\ debts'[x] = debts[x]
      /\ debts'[r] = row
  BY <1>1, <1>3, <1>4
<1>7. /\ rules' \in [Rules -> RuleRow]
      /\ stop = None => rules' = rules
      /\ stop # None => rules'[r].status = stop
  <2>1. CASE stop = None
    BY <1>1, <1>3, <2>1
  <2>2. CASE stop # None
    <3>1. stop \in Statuses
      BY <1>5, <2>2 DEF Final, Statuses
    <3>2. [rules[r] EXCEPT !.status = stop] \in RuleRow
      BY <1>3, <1>4, <3>1 DEF RuleRow
    <3> QED BY <1>1, <1>3, <1>4, <2>2, <3>2 DEF RuleRow
  <2> QED BY <2>1, <2>2
<1>8. IInv'
  <2>1. TypeOK'
    BY <1>2, <1>3, <1>7 DEF TypeOK
  <2>2. \A x \in Rules, v \in Ticks :
          ruleLock[x] = v /\ rules[x].status = "ACTIVE" => rules'[x].status = "ACTIVE"
    <3> SUFFICES ASSUME NEW x \in Rules, NEW v \in Ticks, ruleLock[x] = v,
                        rules[x].status = "ACTIVE", rules'[x] # rules[x]
                 PROVE  FALSE
      OBVIOUS
    <3>1. x = r /\ stop # None
      BY <1>6, <1>7
    <3>2. RuleFree(r, q)
      BY <1>1, <3>1 DEF RuleReady, WritesRule, r, stop
    <3> QED BY <3>1, <3>2, Distinct DEF RuleFree
  <2> QED BY <1>2, <1>3, <2>1, <2>2, RulesWritten
<1>9. RulesKept
  BY <1>5, <1>6, <1>7 DEF RulesKept, Final
<1>10. /\ debtLock' \in [Rules -> Sessions \cup {None}]
       /\ \A x \in Rules, v \in Sessions : v # q => (debtLock'[x] = v <=> debtLock[x] = v)
  BY <1>1, <1>3, ReleaseDebtsFacts
<1>11. /\ \A v \in Requests : v # q => edit'[v] = edit[v]
       /\ edit' \in [Requests -> [op: {"update", "delete", None}, debt: Rules \cup {None},
                            row: DebtRow, stop: {"COMPLETED", "CANCELLED", None},
                            share: BOOLEAN]]
       /\ edit'[q].op = None
  BY <1>1, <1>3 DEF DebtTypes, NoChange, AbsentDebt, DebtRow, DebtStatuses
<1>12. DebtTypes'
  BY <1>1, <1>3, <1>4, <1>5, <1>10, <1>11 DEF DebtTypes
<1>13. OpenMeansUnpaid'
  <2>1. \A x \in Rules : Paid(debts[x])
    BY DEF DInv, OpenMeansUnpaid, Paid
  <2>2. \A x \in Rules : Paid(debts'[x])
    BY <1>4, <1>6, <2>1
  <2> QED BY <2>2 DEF OpenMeansUnpaid, Paid
<1>14. SettledStopsEmi'
  <2> SUFFICES ASSUME NEW x \in Rules, debts'[x].linked, debts'[x].status # "OPEN"
               PROVE  rules'[x].status \notin {"ACTIVE", "PAUSED"}
    BY DEF SettledStopsEmi
  <2>1. CASE x # r
    BY <1>6, <2>1, ClosedMeansFinal DEF Final
  <2>2. CASE x = r
    BY <1>4, <1>5, <1>6, <1>7, <2>2 DEF Final
  <2> QED BY <2>1, <2>2
<1>15. Linked'
  BY <1>4, <1>6, <1>9 DEF DInv, Linked, RulesKept
<1>16. EditGood(q)'
  BY <1>11 DEF EditGood
<1>17. \A x \in Rules : \/ debts'[x] = debts[x]
                        \/ debtLock[x] = q /\ debts'[x].linked = debts[x].linked
  BY <1>4, <1>6
<1>18. \A v \in Ticks : tick'[v] = tick[v] /\ emi'[v] = emi[v]
  BY <1>1, <1>2
<1> QED BY <1>3, <1>8, <1>9, <1>10, <1>11, <1>12, <1>13, <1>14, <1>15, <1>16, <1>17, <1>18,
           SessionDebts

LEMMA AbortDebtDebts ==
  ASSUME DInv, NEW q \in Requests, AbortDebt(q)
  PROVE  DInv'
<1>1. /\ ReleaseDebts(q) /\ edit' = [edit EXCEPT ![q] = NoChange]
      /\ UNCHANGED vars /\ UNCHANGED <<debts, emi>>
  BY DEF AbortDebt
<1>2. UNCHANGED <<rules, tick>>
  BY <1>1 DEF vars
<1>3. DebtTypes /\ q \in Sessions /\ q \notin Ticks /\ IInv'
  BY <1>1, StutterInv, Distinct DEF DInv, Sessions
<1>4. RulesKept
  BY <1>2 DEF RulesKept
<1>5. /\ debtLock' \in [Rules -> Sessions \cup {None}]
      /\ \A x \in Rules, v \in Sessions : v # q => (debtLock'[x] = v <=> debtLock[x] = v)
  BY <1>1, <1>3, ReleaseDebtsFacts
<1>6. /\ \A v \in Requests : v # q => edit'[v] = edit[v]
      /\ edit' \in [Requests -> [op: {"update", "delete", None}, debt: Rules \cup {None},
                            row: DebtRow, stop: {"COMPLETED", "CANCELLED", None},
                            share: BOOLEAN]]
      /\ edit'[q].op = None
  BY <1>1, <1>3 DEF DebtTypes, NoChange, AbsentDebt, DebtRow, DebtStatuses
<1>7. DebtTypes' /\ EditGood(q)'
  BY <1>1, <1>3, <1>5, <1>6 DEF DebtTypes, EditGood
<1> QED BY <1>1, <1>2, <1>3, <1>4, <1>5, <1>6, <1>7, SameDebts, SessionDebts

LEMMA CreateDebtDebts ==
  ASSUME DInv, NEW q \in Requests, CreateDebt(q)
  PROVE  DInv'
<1>1. PICK r \in Rules, d \in DebtDrafts :
       LET paid == Least(d.amount, d.paid)
           open == paid < d.amount
           linked == open /\ d.emi # None
       IN
       /\ debts[r].status = "ABSENT"
       /\ rules[r].status = "ABSENT"
       /\ debts' = [debts EXCEPT ![r] =
            [status |-> IF open THEN "OPEN" ELSE "SETTLED", amount |-> d.amount,
             paid |-> paid, add |-> d.add, linked |-> linked]]
       /\ rules' = IF ~linked THEN rules ELSE
            [rules EXCEPT ![r] =
               [AbsentRule EXCEPT !.status = "ACTIVE", !.next_run_at = d.due, !.amount = d.emi]]
  BY DEF CreateDebt
<1>2. UNCHANGED <<clock, events, net, ledger, total, alerted, ruleLock, eventLock,
                  poolLock, advisory, tick, req, faults, debtLock, emi, edit>>
      /\ used' \in Nat
  BY DEF CreateDebt, Begin, money, locks, DInv, IInv, TypeOK
<1>3. /\ DebtTypes /\ IInv /\ TypeOK /\ q \in Sessions /\ q \notin Ticks /\ EditGood(q)
      /\ rules \in [Rules -> RuleRow] /\ debts \in [Rules -> DebtRow]
  BY Distinct DEF DInv, DebtTypes, Sessions, IInv, TypeOK
<1>4. /\ d.amount \in Nat /\ d.paid \in Nat /\ d.add \in BOOLEAN /\ d.emi \in Nat \cup {None}
      /\ d.due \in Day /\ (d.emi # None => KindOf[r] = "EXPENSE")
  BY DebtAssumption
<1>5. PICK paid \in Nat : paid = Least(d.amount, d.paid) /\ paid <= d.amount
  BY <1>4, LeastFacts
<1>6. PICK open \in BOOLEAN : open = (paid < d.amount)
  <2>1. (paid < d.amount) \in BOOLEAN
    BY <1>4
  <2> QED BY <2>1
<1>7. PICK linked \in BOOLEAN : linked = (open /\ d.emi # None)
  OBVIOUS
<1>8. PICK row : row = [status |-> IF open THEN "OPEN" ELSE "SETTLED", amount |-> d.amount,
                        paid |-> paid, add |-> d.add, linked |-> linked]
  OBVIOUS
<1>9. PICK rule : rule = [AbsentRule EXCEPT !.status = "ACTIVE", !.next_run_at = d.due,
                                            !.amount = d.emi]
  OBVIOUS
<1>10. /\ debts[r].status = "ABSENT" /\ rules[r].status = "ABSENT"
       /\ debts' = [debts EXCEPT ![r] = row]
       /\ rules' = IF ~linked THEN rules ELSE [rules EXCEPT ![r] = rule]
  BY <1>1, <1>5, <1>6, <1>7, <1>8, <1>9
<1>11. /\ row \in DebtRow /\ Paid(row) /\ row.linked = linked
       /\ row.linked => row.status = "OPEN"
  BY <1>4, <1>5, <1>6, <1>7, <1>8 DEF DebtRow, DebtStatuses, Paid
<1>12. rule.status = "ACTIVE" /\ (linked => rule \in RuleRow)
  BY <1>4, <1>7, <1>9 DEF AbsentRule, RuleRow, Statuses, Day
<1>13. /\ \A x \in Rules : x # r => rules'[x] = rules[x] /\ debts'[x] = debts[x]
       /\ debts'[r] = row /\ rules'[r] = IF linked THEN rule ELSE rules[r]
       /\ rules' \in [Rules -> RuleRow] /\ debts' \in [Rules -> DebtRow]
  BY <1>3, <1>10, <1>11, <1>12
<1>14. IInv'
  <2>1. TypeOK'
    BY <1>2, <1>3, <1>13 DEF TypeOK
  <2>2. \A x \in Rules, v \in Ticks :
          ruleLock[x] = v /\ rules[x].status = "ACTIVE" => rules'[x].status = "ACTIVE"
    BY <1>10, <1>13
  <2> QED BY <1>2, <1>3, <2>1, <2>2, RulesWritten
<1>15. RulesKept
  BY <1>10, <1>13 DEF RulesKept, Final
<1>16. DebtTypes'
  BY <1>2, <1>3, <1>13 DEF DebtTypes
<1>17. OpenMeansUnpaid'
  <2>1. \A x \in Rules : Paid(debts[x])
    BY DEF DInv, OpenMeansUnpaid, Paid
  <2>2. \A x \in Rules : Paid(debts'[x])
    BY <1>11, <1>13, <2>1
  <2> QED BY <2>2 DEF OpenMeansUnpaid, Paid
<1>18. SettledStopsEmi'
  BY <1>11, <1>13, ClosedMeansFinal DEF SettledStopsEmi, Final
<1>19. Linked'
  BY <1>4, <1>7, <1>11, <1>12, <1>13 DEF DInv, Linked
<1>20. EditGood(q)'
  <2>1. edit[q].op # None => edit[q].debt # r /\ edit[q].debt \in Rules
    BY <1>3, <1>10 DEF EditGood
  <2> QED BY <1>2, <1>3, <1>13, <2>1 DEF EditGood
<1>21. \A x \in Rules : \/ debts'[x] = debts[x]
                        \/ debts[x].status = "ABSENT" /\ rules[x].status = "ABSENT"
  BY <1>10, <1>13
<1>22. /\ \A v \in Ticks : tick'[v] = tick[v] /\ emi'[v] = emi[v]
       /\ \A v \in Requests : edit'[v] = edit[v]
       /\ \A x \in Rules, v \in Sessions : v # q => (debtLock'[x] = v <=> debtLock[x] = v)
  BY <1>2
<1> QED BY <1>3, <1>14, <1>15, <1>16, <1>17, <1>18, <1>19, <1>20, <1>21, <1>22, SessionDebts

-----------------------------------------------------------------------------
(* The invariant. *)

LEMMA DebtInitInv == DebtInit => DInv
<1> SUFFICES ASSUME DebtInit PROVE DInv
  OBVIOUS
<1>1. /\ Init /\ debts = [r \in Rules |-> AbsentDebt] /\ debtLock = [r \in Rules |-> None]
      /\ emi = [w \in Ticks |-> NoEmi] /\ edit = [q \in Requests |-> NoChange]
  BY DEF DebtInit
<1>2. /\ AbsentDebt \in DebtRow /\ AbsentDebt.status = "ABSENT" /\ AbsentDebt.linked = FALSE
      /\ AbsentDebt.paid = 0 /\ AbsentDebt.amount = 0
  BY DEF AbsentDebt, DebtRow, DebtStatuses
<1>3. NoEmi \in [wait: BOOLEAN, row: DebtRow] /\ NoEmi.wait = FALSE
  BY <1>2 DEF NoEmi
<1>4. /\ NoChange \in [op: {"update", "delete", None}, debt: Rules \cup {None}, row: DebtRow,
                       stop: {"COMPLETED", "CANCELLED", None}, share: BOOLEAN]
      /\ NoChange.op = None
  BY <1>2 DEF NoChange
<1>5. IInv
  BY <1>1, InitInv
<1>6. DebtTypes
  BY <1>1, <1>2, <1>3, <1>4 DEF DebtTypes
<1>7. OpenMeansUnpaid /\ SettledStopsEmi /\ Linked
  BY <1>1, <1>2 DEF OpenMeansUnpaid, SettledStopsEmi, Linked
<1>8. ASSUME NEW w \in Ticks PROVE EmiGood(w)
  <2>1. tick[w].pc # "run"
    BY <1>1 DEF Init, IdleTick
  <2> QED BY <1>1, <1>3, <2>1, Distinct DEF EmiGood
<1>9. \A q \in Requests : EditGood(q)
  BY <1>1, <1>4 DEF EditGood
<1> QED BY <1>5, <1>6, <1>7, <1>8, <1>9 DEF DInv

LEMMA DebtNextInv == DInv /\ [DebtNext]_allVars => DInv'
<1> SUFFICES ASSUME DInv, [DebtNext]_allVars PROVE DInv'
  OBVIOUS
<1>1. CASE Advance /\ UNCHANGED debtVars
  BY <1>1, QuietTicks
<1>2. CASE \E w \in Ticks, force \in Forcing : StartTick(w, force) /\ UNCHANGED debtVars
  BY <1>2, QuietTicks
<1>3. ASSUME NEW w \in Ticks, RunStep(w) PROVE DInv'
  <2>1. CASE PlainStep(w)
    BY <2>1, LockRuleDebts, RepeatPeriodDebts, QuietTicks DEF PlainStep
  <2>2. CASE FailRun(w)
    BY <2>2, BreakDebts DEF FailRun
  <2> QED BY <1>3, <2>1, <2>2, PostInstallmentDebts, CountInstallmentDebts, CommitRunDebts
          DEF RunStep
<1>4. ASSUME NEW w \in Ticks, Break(w) PROVE DInv'
  BY <1>4, BreakDebts, QuietTicks DEF Break
<1>5. ASSUME NEW q \in Requests,
             DebtRequest(q) \/ CommitDebt(q) \/ AbortDebt(q) \/ OtherRequest(q)
      PROVE  DInv'
  BY <1>5, CreateDebtDebts, UpdateDebtDebts, DeleteDebtDebts, CommitDebtDebts, AbortDebtDebts,
     OtherRequestDebts DEF DebtRequest
<1>6. ASSUME NEW w \in Ticks, NEW q \in Requests, EndDeadlock(w, q) PROVE DInv'
  <2>1. \/ FailRule(w) /\ Dropped(w) /\ UNCHANGED faults
        \/ AbortDebt(q)
    BY <1>6 DEF EndDeadlock
  <2> QED BY <2>1, BreakDebts, AbortDebtDebts
<1>7. CASE UNCHANGED allVars
  <2>1. UNCHANGED vars /\ UNCHANGED debtVars /\ UNCHANGED <<rules, tick>>
    BY <1>7 DEF allVars, vars
  <2>2. IInv' /\ RulesKept /\ NoRunMoves
    BY <2>1, StutterInv DEF DInv, RulesKept, NoRunMoves
  <2> QED BY <2>1, <2>2, QuietDebts
<1> QED BY <1>1, <1>2, <1>3, <1>4, <1>5, <1>6, <1>7 DEF DebtNext

THEOREM DebtInvariance == DebtSpec => []DInv
BY DebtInitInv, DebtNextInv, PTL DEF DebtSpec

\* Every variable of rules and of debts holds a value of its kind.
THEOREM DebtTypeCorrect == DebtSpec => []DebtTypeOK
<1>1. DInv => DebtTypeOK
  BY DEF DInv, IInv, DebtTypes, DebtTypeOK
<1> QED BY <1>1, DebtInvariance, PTL

\* A debt that is SETTLED, or deleted, has no rule that would go on paying it, though
\* an edit decides with the rule's status as it was before it waited for the rule.
THEOREM SettledCorrect == DebtSpec => []SettledStopsEmi
<1>1. DInv => SettledStopsEmi
  BY DEF DInv
<1> QED BY <1>1, DebtInvariance, PTL

\* An OPEN debt has something left to pay, and nobody pays more than the amount.
THEOREM UnpaidCorrect == DebtSpec => []OpenMeansUnpaid
<1>1. DInv => OpenMeansUnpaid
  BY DEF DInv
<1> QED BY <1>1, DebtInvariance, PTL

\* What MoneyRules says of pools, of ledger rows and of periods stays true with debts:
\* the steps on debts write rules, but none that a tick holds.
THEOREM MoneyCorrect ==
  DebtSpec => [](PoolMatchesLedger /\ EventMatchesLedger /\ OneEventPerPeriod)
<1>1. DInv => PoolMatchesLedger /\ EventMatchesLedger /\ OneEventPerPeriod
  BY DEF DInv, IInv, UniqueIndex, OneEventPerPeriod
<1> QED BY <1>1, DebtInvariance, PTL

-----------------------------------------------------------------------------
(* The installments that a commit makes visible. *)

\* Postings of a rule appear with the commit of its run only.
LEMMA DebtAppearing ==
  ASSUME DInv, [DebtNext]_allVars, NEW e \in Appearing, events[e].rule # None
  PROVE  \E w \in Ticks : CommitRun(w) /\ tick[w].rule = events[e].rule
<1>1. /\ IInv /\ e \in Events /\ events[e].state = "new" /\ events'[e].state = "live"
  BY DEF DInv, Appearing
<1>2. events' # events
  BY <1>1
<1>3. ASSUME NEW s, Rollback(s) PROVE FALSE
  BY <1>1, <1>3 DEF Rollback, BlankEvent
<1>4. ASSUME NEW w \in Ticks, CommitRun(w) PROVE tick[w].rule = events[e].rule
  <2>1. CommitRule(w) /\ w \in Sessions
    BY <1>4 DEF CommitRun, Sessions
  <2>2. events' = Publish(w) /\ UNCHANGED net /\ tick[w].pc = "run" /\ TickGood(w)
    BY <1>1, <2>1 DEF CommitRule, IInv, TickOK
  <2>3. events[e].by = w
    BY <1>1, <2>1, <2>2, PublishFacts
  <2> QED BY <1>1, <2>2, <2>3 DEF TickGood
<1>5. ASSUME NEW w \in Ticks, PostInstallment(w) PROVE FALSE
  <2>1. PICK f \in Events : Posts(w, f)
    BY <1>1, <1>5, PostFacts DEF PostInstallment
  <2>2. events'[f].state = "new" /\ \A x \in Events : x # f => events'[x] = events[x]
    BY <2>1 DEF Posts
  <2> QED BY <1>1, <2>2
<1>6. ASSUME NEW q \in Requests, OtherRequest(q) PROVE FALSE
  <2>1. UserBegins(q) \/ RequestStep(q)
    BY <1>6 DEF OtherRequest
  <2>2. [Next]_vars /\ tick' = tick
    BY <1>1, <2>1, RequestKeepsRules DEF Next
  <2>3. PICK w \in Ticks : CommitRule(w)
    BY <1>1, <2>2, AppearingStep
  <2>4. tick[w].pc = "run" /\ tick' = [tick EXCEPT ![w] = BackToScan(tick[w])]
    BY <2>3 DEF CommitRule
  <2>5. tick'[w].pc = "scan"
    BY <1>1, <2>4 DEF IInv, TypeOK, BackToScan, IdleTick
  <2> QED BY <2>2, <2>4, <2>5
<1>7. CASE Advance \/ \E w \in Ticks, force \in Forcing : StartTick(w, force)
  BY <1>2, <1>7 DEF Advance, StartTick
<1>8. ASSUME NEW w \in Ticks, RunStep(w) PROVE CommitRun(w)
  <2>1. CASE PlainStep(w) \/ CountInstallment(w)
    BY <1>2, <2>1 DEF PlainStep, LockRule, SkipRule, RepeatPeriod, EndTick, CountInstallment
  <2>2. CASE FailRun(w)
    BY <1>3, <2>2 DEF FailRun, FailZeroAmount, FailRule
  <2> QED BY <1>5, <1>8, <2>1, <2>2 DEF RunStep
<1>9. ASSUME NEW w \in Ticks, Break(w) PROVE FALSE
  BY <1>2, <1>3, <1>9 DEF Break, FailTransient, FailRule, CrashTick, LoseAdvisory
<1>10. ASSUME NEW q \in Requests, DebtRequest(q) \/ CommitDebt(q) \/ AbortDebt(q) PROVE FALSE
  <2>1. CASE DebtRequest(q)
    BY <1>2, <2>1 DEF DebtRequest, CreateDebt, UpdateDebt, DeleteDebt, Hold
  <2>2. CASE CommitDebt(q) \/ AbortDebt(q)
    BY <1>2, <2>2 DEF CommitDebt, AbortDebt, vars
  <2> QED BY <1>10, <2>1, <2>2
<1>11. ASSUME NEW w \in Ticks, NEW q \in Requests, EndDeadlock(w, q) PROVE FALSE
  BY <1>2, <1>3, <1>11 DEF EndDeadlock, FailRule, AbortDebt, vars
<1>12. CASE UNCHANGED allVars
  BY <1>2, <1>12 DEF allVars, vars
<1> QED BY <1>4, <1>6, <1>7, <1>8, <1>9, <1>10, <1>11, <1>12 DEF DebtNext

\* No installment of a debt becomes visible after the debt was settled or deleted: the
\* tick holds the rule, which is ACTIVE, and so no rule of a closed debt.
THEOREM NoEmiCorrect == DebtSpec => NoEmiAfterSettled
<1> DEFINE A == \A e \in Appearing :
                  LET r == events[e].rule IN
                  r # None /\ debts[r].linked => debts[r].status = "OPEN"
<1>1. ASSUME DInv, [DebtNext]_allVars PROVE A
  <2> SUFFICES ASSUME NEW e \in Appearing, events[e].rule # None, debts[events[e].rule].linked
               PROVE  debts[events[e].rule].status = "OPEN"
    OBVIOUS
  <2>1. PICK w \in Ticks : CommitRun(w) /\ tick[w].rule = events[e].rule
    BY <1>1, DebtAppearing
  <2>2. tick[w].pc = "run"
    BY <2>1 DEF CommitRun, CommitRule
  <2> QED BY <1>1, <2>1, <2>2, RunMeansOpen
<1>2. DInv /\ [DebtNext]_allVars => [A]_allVars
  BY <1>1
<1> QED BY <1>2, DebtInvariance, PTL DEF DebtSpec, NoEmiAfterSettled

\* What a committed run takes from the pool for a debt is what the debt counts as paid,
\* up to its amount: nothing that the tick or an edit did in between is lost.
THEOREM EmiCorrect == DebtSpec => EmiReducesDebt
<1> DEFINE A == \A r \in Rules :
                  LET old == debts[r]
                      spent == ledger[PoolOf[r]] - ledger'[PoolOf[r]]
                  IN (Owed(r) /\ \E e \in Appearing : events[e].rule = r) =>
                       debts'[r].paid = IF old.status = "OPEN" /\ old.add
                                        THEN Least(old.amount, old.paid + spent) ELSE old.paid
<1>1. ASSUME DInv, [DebtNext]_allVars PROVE A
  <2> SUFFICES ASSUME NEW r \in Rules, Owed(r), NEW e \in Appearing, events[e].rule = r
               PROVE  LET old == debts[r]
                          spent == ledger[PoolOf[r]] - ledger'[PoolOf[r]]
                      IN debts'[r].paid = IF old.status = "OPEN" /\ old.add
                                          THEN Least(old.amount, old.paid + spent) ELSE old.paid
    OBVIOUS
  <2>1. PICK w \in Ticks : CommitRun(w) /\ tick[w].rule = r
    BY <1>1, DebtAppearing, NoneAssumption
  <2>2. /\ CommitRule(w) /\ ~emi[w].wait /\ tick[w].pc = "run"
        /\ debts' = IF debtLock[r] = w THEN [debts EXCEPT ![r] = emi[w].row] ELSE debts
    BY <2>1 DEF CommitRun, CommitRule
  <2>3. /\ debts \in [Rules -> DebtRow] /\ EmiGood(w) /\ ledger \in [Pools -> Int]
        /\ tick[w].delta \in Int /\ PoolOf[r] \in Pools /\ Paid(debts[r])
    BY <1>1, RulesAssumption
       DEF DInv, DebtTypes, IInv, TypeOK, TickState, OpenMeansUnpaid, Paid
  <2>4. debts[r].linked /\ debts[r].status = "OPEN"
    BY <1>1, <2>1, <2>2, RunMeansOpen DEF Owed
  <2>5. ledger'[PoolOf[r]] = ledger[PoolOf[r]] + tick[w].delta
    BY <2>1, <2>2, <2>3 DEF CommitRule
  <2>6. PICK spent : spent = ledger[PoolOf[r]] - ledger'[PoolOf[r]]
    OBVIOUS
  <2>7. Spent(w) = spent
    BY <2>2, <2>3, <2>5, <2>6 DEF Spent
  <2>8. CASE debtLock[r] = w
    <3>1. Counting(w) /\ debts'[r] = emi[w].row
      BY <2>1, <2>2, <2>3, <2>4, <2>8 DEF EmiGood
    <3> QED BY <2>1, <2>4, <2>6, <2>7, <3>1 DEF Counting
  <2>9. CASE debtLock[r] # w
    <3>1. spent = 0 /\ debts'[r] = debts[r]
      BY <2>1, <2>2, <2>3, <2>4, <2>7, <2>9 DEF EmiGood
    <3>2. Least(debts[r].amount, debts[r].paid + spent) = debts[r].paid
      BY <2>3, <3>1 DEF Least, Paid, DebtRow
    <3> QED BY <2>6, <3>1, <3>2
  <2> QED BY <2>8, <2>9
<1>2. DInv /\ [DebtNext]_allVars => [A]_allVars
  BY <1>1
<1> QED BY <1>2, DebtInvariance, PTL DEF DebtSpec, EmiReducesDebt
=============================================================================
