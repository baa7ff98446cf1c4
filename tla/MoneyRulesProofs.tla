-------------------------- MODULE MoneyRulesProofs ---------------------------
(***************************************************************************)
(* TLAPS proofs about MoneyRules, for every value of its constants.        *)
(***************************************************************************)
EXTENDS MoneyRules, SumsProofs, TLAPS

-----------------------------------------------------------------------------
(* The next due date after now is a day. *)

LEMMA NextAfterType ==
  ASSUME NEW d \in Day, NEW now \in Day
  PROVE  NextAfter(d, now) \in Day
<1>1. CASE d > now
  BY <1>1 DEF NextAfter, Day
<1>2. CASE ~(d > now)
  <2> DEFINE k == (now - d) \div Step
  <2>1. Step \in Nat /\ Step > 0
    BY NumberAssumption
  <2>2. now - d \in Nat
    BY <1>2 DEF Day
  <2>3. k \in Nat
    BY <2>1, <2>2
  <2> HIDE DEF k
  <2>4. Step * (k + 1) \in Nat
    BY <2>1, <2>3
  <2>5. d + Step * (k + 1) \in Nat
    BY <2>4 DEF Day
  <2> QED BY <1>2, <2>5 DEF NextAfter, Day, k
<1> QED BY <1>1, <1>2

LEMMA SteppedType ==
  ASSUME NEW row \in RuleRow, NEW counted \in {0, 1}
  PROVE  Stepped(row, counted) \in RuleRow
<1> DEFINE next == row.next_run_at + Step
           count == row.run_count + counted
           status == Stepped(row, counted).status
<1>1. next \in Day /\ count \in Nat
  BY NumberAssumption DEF RuleRow, Day
<1>2. Stepped(row, counted) = [row EXCEPT !.next_run_at = next, !.run_count = count,
                                          !.status = status]
  BY DEF Stepped, RuleRow
<1>3. status \in {"COMPLETED", row.status}
  BY DEF Stepped, RuleRow
<1> QED BY <1>1, <1>2, <1>3 DEF RuleRow, Statuses

LEMMA LoopExitType ==
  ASSUME NEW t \in TickState
  PROVE  LoopExit(t) \in RuleRow
<1>1. t.row \in RuleRow /\ t.now \in Day
  BY DEF TickState
<1>2. NextAfter(t.row.next_run_at, t.now) \in Day
  BY <1>1, NextAfterType DEF RuleRow
<1> QED BY <1>1, <1>2 DEF LoopExit, RuleRow, Statuses

LEMMA EditedType ==
  ASSUME clock \in Day, NEW row \in RuleRow, NEW ed \in Edits
  PROVE  Edited(row, ed) \in RuleRow
<1> DEFINE moved == IF ed.next_run_at # None THEN ed.next_run_at ELSE row.next_run_at
<1>1. moved \in Day
  BY BodyAssumption DEF RuleRow
<1>2. NextAfter(moved, clock) \in Day
  BY <1>1, NextAfterType
<1> DEFINE next == IF ed.status = "ACTIVE" /\ row.status = "PAUSED"
                   THEN NextAfter(moved, clock) ELSE moved
           end == IF ed.end_sent THEN ed.end_at ELSE row.end_at
           max == IF ed.max_sent THEN ed.max_runs ELSE row.max_runs
           amount == IF ed.amount # None THEN ed.amount ELSE row.amount
           status == IF ed.status # None /\ row.status \in {"ACTIVE", "PAUSED"}
                     THEN ed.status ELSE row.status
<1>3. next \in Day
  BY <1>1, <1>2
<1>4. end \in Day \cup {None} /\ max \in (Nat \ {0}) \cup {None}
  BY BodyAssumption DEF RuleRow
<1>5. amount \in Nat /\ status \in Statuses
  BY BodyAssumption DEF RuleRow, Statuses
<1>6. Edited(row, ed) = [row EXCEPT !.next_run_at = next, !.end_at = end, !.max_runs = max,
                                    !.amount = amount, !.status = status]
  BY DEF Edited, RuleRow
<1> HIDE DEF next, end, max, amount, status
<1> QED BY <1>3, <1>4, <1>5, <1>6 DEF RuleRow

LEMMA Constants ==
  /\ AbsentRule \in RuleRow
  /\ IdleTick \in TickState
  /\ IdleReq \in ReqState
  /\ \A s \in {"free", "gone"} : BlankEvent(s) \in EventRow
BY DEF AbsentRule, RuleRow, Statuses, IdleTick, TickState, IdleReq, ReqState,
       BlankEvent, EventRow, Kinds, Day
-----------------------------------------------------------------------------
(* The inductive invariant.                                                *)
(*                                                                         *)
(* TypeOK, PoolMatchesLedger, EventMatchesLedger and OneEventPerPeriod are *)
(* not inductive: what a transaction will publish at its commit is in its  *)
(* session, and stays right until then only because of the locks it holds. *)

\* A row that is not committed belongs to the session that inserted it.
RowsOK ==
  \A e \in Events :
    /\ events[e].state = "new" => events[e].by \in Sessions
    /\ events[e].state # "new" => events[e].by = None
    /\ events[e].state \in {"new", "live"} => events[e].pool \in Pools

\* Inside run_rule a tick holds the rule's row, which is still ACTIVE; what it
\* inserted belongs to that rule; if it has locked the pool, it knows the
\* balance that its commit will leave, and if it has not, it moved no money.
TickGood(w) ==
  IF tick[w].pc = "run"
  THEN LET r == tick[w].rule IN
       /\ r \in Rules
       /\ ruleLock[r] = w
       /\ rules[r].status = "ACTIVE"
       /\ \A e \in Events : events[e].by = w => events[e].rule = r
       /\ IF poolLock[PoolOf[r]] = w
          THEN tick[w].bal = total[PoolOf[r]] + tick[w].delta
          ELSE tick[w].delta = 0
  ELSE /\ \A e \in Events : events[e].by # w
       /\ \A p \in Pools : poolLock[p] # w

TickOK == \A w \in Ticks : TickGood(w)

\* A request that creates an event owns the new row and has locked the pool; one
\* that edits an event has locked it; if it moves money it has locked the pool,
\* too; in each case it knows the balance that its commit will leave.
Editing(q) ==
  /\ req[q].event \in Events
  /\ events[req[q].event].state = "live"
  /\ eventLock[req[q].event] = q
  /\ req[q].op = "delete" => req[q].amount = 0

Creating(q) ==
  LET e == req[q].event
      p == events[e].pool
  IN /\ e \in Events
     /\ events[e].state = "new" /\ events[e].by = q /\ events[e].rule = None
     /\ poolLock[p] = q
     /\ req[q].bal = total[p] + net[e]

Balanced(q) ==
  LET p == events[req[q].event].pool IN
  Delta(q) # 0 => poolLock[p] = q /\ req[q].bal = total[p] + Delta(q)

ReqGood(q) ==
  /\ req[q].pc = "rule" => req[q].rule \in Rules /\ ruleLock[req[q].rule] = q
  /\ req[q].pc = "event" => req[q].op \in {"update", "delete"} /\ Editing(q)
  /\ req[q].pc = "pool" => \/ req[q].op = "create" /\ Creating(q)
                           \/ /\ req[q].op \in {"update", "delete"}
                              /\ Editing(q)
                              /\ Balanced(q)
  /\ \A e \in Events : events[e].by = q =>
       req[q].pc = "pool" /\ req[q].op = "create" /\ req[q].event = e

ReqOK == \A q \in Requests : ReqGood(q)

\* The unique index holds for the rows that are not committed yet as well.
UniqueIndex ==
  \A e, f \in Events :
    /\ events[e].state \in {"new", "live"}
    /\ events[f].state \in {"new", "live"}
    /\ events[e].rule # None
    /\ events[e].rule = events[f].rule
    /\ events[e].period = events[f].period
    => e = f

IInv ==
  /\ TypeOK
  /\ RowsOK
  /\ TickOK
  /\ ReqOK
  /\ UniqueIndex
  /\ PoolMatchesLedger
  /\ EventMatchesLedger

-----------------------------------------------------------------------------
(* Type correctness. *)

LockTypes ==
  /\ ruleLock \in [Rules -> Sessions \cup {None}]
  /\ eventLock \in [Events -> Sessions \cup {None}]
  /\ poolLock \in [Pools -> Sessions \cup {None}]

LEMMA ReleaseType ==
  ASSUME TypeOK, NEW s, Release(s)
  PROVE  LockTypes'
BY DEF TypeOK, Release, LockTypes

LEMMA RollbackType ==
  ASSUME TypeOK, NEW s, Rollback(s)
  PROVE  /\ LockTypes'
         /\ events' \in [Events -> EventRow]
         /\ net' \in [Events -> Int]
         /\ ledger' \in [Pools -> Int]
         /\ total' \in [Pools -> Int]
         /\ alerted' \subseteq Events
<1>1. LockTypes'
  BY ReleaseType DEF Rollback
<1>2. \A e \in Events : BlankEvent("free") \in EventRow
  BY Constants
<1> QED BY <1>1, <1>2 DEF TypeOK, Rollback

LEMMA PublishType ==
  ASSUME TypeOK, NEW s
  PROVE  Publish(s) \in [Events -> EventRow]
<1>1. ASSUME NEW e \in Events
      PROVE  [events[e] EXCEPT !.state = "live", !.by = None] \in EventRow
  BY DEF TypeOK, EventRow
<1> QED BY <1>1 DEF TypeOK, Publish

LEMMA BackToScanType ==
  ASSUME NEW t \in TickState
  PROVE  BackToScan(t) \in TickState
<1>1. t.now \in Day /\ t.force \in BOOLEAN /\ t.todo \in SUBSET (Rules \X Day)
  BY DEF TickState
<1> QED BY <1>1, Constants DEF BackToScan, TickState

LEMMA EnterType ==
  ASSUME TypeOK, NEW t \in TickState, NEW item \in t.todo
  PROVE  Enter(t, item) \in TickState
<1>1. t.now \in Day /\ t.force \in BOOLEAN /\ t.todo \in SUBSET (Rules \X Day)
  BY DEF TickState
<1>2. item[1] \in Rules
  BY <1>1
<1>3. t.todo \ {item} \in SUBSET (Rules \X Day) /\ rules[item[1]] \in RuleRow
  BY <1>1, <1>2 DEF TypeOK
<1> QED BY <1>1, <1>2, <1>3, Constants DEF Enter, TickState

LEMMA TickTypes ==
  ASSUME TypeOK, NEW w \in Ticks
  PROVE  /\ tick[w] \in TickState
         /\ w \in Sessions
BY DEF TypeOK, Sessions

LEMMA ReqTypes ==
  ASSUME TypeOK, NEW q \in Requests
  PROVE  /\ req[q] \in ReqState
         /\ q \in Sessions
BY DEF TypeOK, Sessions

-----------------------------------------------------------------------------
(* TypeOK is preserved, one action at a time. *)

LEMMA StartTickType ==
  ASSUME IInv, NEW w \in Ticks, NEW force \in Forcing, StartTick(w, force)
  PROVE  TypeOK'
<1> TypeOK /\ RowsOK /\ TickOK /\ ReqOK
  BY DEF IInv
<1> DEFINE todo == {<<r, rules[r].next_run_at>> : r \in
                     {r \in Rules : /\ rules[r].status = "ACTIVE"
                                    /\ force \/ rules[r].next_run_at <= clock}}
<1>1. force \in BOOLEAN
  BY NumberAssumption
<1>2. todo \in SUBSET (Rules \X Day)
  BY DEF TypeOK, RuleRow
<1>3. [IdleTick EXCEPT !.pc = "scan", !.now = clock, !.force = force, !.todo = todo]
         \in TickState
  BY <1>1, <1>2, Constants DEF TypeOK, TickState
<1> HIDE DEF todo
<1>4. tick' \in [Ticks -> TickState]
  BY <1>3 DEF StartTick, TypeOK, todo
<1> QED BY <1>4 DEF StartTick, TypeOK, locks, money

LEMMA StepType ==
  ASSUME NEW t \in TickState, NEW row \in RuleRow
  PROVE  [t EXCEPT !.row = row, !.steps = t.steps + 1] \in TickState
<1>1. t.steps + 1 \in Nat
  BY DEF TickState
<1> QED BY <1>1 DEF TickState

LEMMA PostType ==
  ASSUME NEW t \in TickState, NEW row \in RuleRow, NEW bal \in Int, NEW delta \in Int,
         NEW over \in Events \cup {None}
  PROVE  [t EXCEPT !.row = row, !.steps = t.steps + 1, !.bal = bal,
                   !.delta = delta, !.over = over] \in TickState
<1>1. t.steps + 1 \in Nat
  BY DEF TickState
<1> QED BY <1>1 DEF TickState

LEMMA NewEventType ==
  ASSUME NEW s \in Sessions, NEW r \in Rules \cup {None}, NEW period \in Day,
         NEW p \in Pools, NEW kind \in Kinds, NEW amount \in Nat, NEW after \in Int
  PROVE  NewEvent(s, r, period, p, kind, amount, after) \in EventRow
BY DEF NewEvent, EventRow

LEMMA LockRuleType ==
  ASSUME IInv, NEW w \in Ticks, LockRule(w)
  PROVE  TypeOK'
<1> TypeOK /\ RowsOK /\ TickOK /\ ReqOK
  BY DEF IInv
<1>1. PICK item \in tick[w].todo :
        /\ ruleLock' = [ruleLock EXCEPT ![item[1]] = w]
        /\ tick' = [tick EXCEPT ![w] = Enter(tick[w], item)]
  BY DEF LockRule, TypeOK
<1>2. Enter(tick[w], item) \in TickState
  BY TickTypes, EnterType
<1>3. tick' \in [Ticks -> TickState]
  BY <1>1, <1>2 DEF TypeOK
<1>4. ruleLock' \in [Rules -> Sessions \cup {None}]
  BY <1>1, TickTypes DEF TypeOK
<1> QED BY <1>3, <1>4 DEF LockRule, TypeOK, money

LEMMA SkipRuleType ==
  ASSUME IInv, NEW w \in Ticks, SkipRule(w)
  PROVE  TypeOK'
<1> TypeOK /\ RowsOK /\ TickOK /\ ReqOK
  BY DEF IInv
<1>1. PICK item \in tick[w].todo : tick' = [tick EXCEPT ![w].todo = @ \ {item}]
  BY DEF SkipRule, TypeOK
<1>2. tick[w] \in TickState /\ tick[w].todo \ {item} \in SUBSET (Rules \X Day)
  BY TickTypes DEF TickState
<1>3. [tick[w] EXCEPT !.todo = tick[w].todo \ {item}] \in TickState
  BY <1>2 DEF TickState
<1>4. tick' \in [Ticks -> TickState]
  BY <1>1, <1>3 DEF TypeOK
<1> QED BY <1>4 DEF SkipRule, TypeOK, money, locks

LEMMA PostPeriodType ==
  ASSUME IInv, NEW w \in Ticks, PostPeriod(w)
  PROVE  TypeOK'
<1> TypeOK /\ RowsOK /\ TickOK /\ ReqOK
  BY DEF IInv
<1> DEFINE t == tick[w]
           r == t.rule
           p == PoolOf[r]
           signed == Signed(KindOf[r], t.row.amount)
           after == (IF poolLock[p] = w THEN t.bal ELSE total[p]) + signed
           over == KindOf[r] = "EXPENSE" /\ after < 0
<1>1. PICK e \in Events :
        /\ events' = [events EXCEPT ![e] =
             NewEvent(w, r, t.row.next_run_at, p, KindOf[r], t.row.amount, after)]
        /\ net' = [net EXCEPT ![e] = signed]
        /\ tick' = [tick EXCEPT ![w] =
             [t EXCEPT !.row = Stepped(t.row, 1), !.steps = t.steps + 1, !.bal = after,
                       !.delta = t.delta + signed, !.over = IF over THEN e ELSE t.over]]
        /\ poolLock' = [poolLock EXCEPT ![p] = w]
  BY DEF PostPeriod
<1>2. /\ r \in Rules /\ p \in Pools /\ KindOf[r] \in Kinds
      /\ t \in TickState /\ w \in Sessions
  BY RulesAssumption, TickTypes DEF PostPeriod, TickOK, TickGood
<1>3. /\ t.row \in RuleRow /\ t.row.amount \in Nat /\ t.row.next_run_at \in Day
  BY <1>2 DEF TickState, RuleRow
<1>4. signed \in Int /\ after \in Int /\ over \in BOOLEAN
  BY <1>2, <1>3 DEF Signed, TypeOK, TickState
<1>5. Stepped(t.row, 1) \in RuleRow
  BY <1>3, SteppedType
<1> HIDE DEF r, p, signed, after, over
<1>6. events' \in [Events -> EventRow]
  BY <1>1, <1>2, <1>3, <1>4, NewEventType DEF TypeOK
<1>7. tick' \in [Ticks -> TickState]
  <2> DEFINE last == IF over THEN e ELSE t.over
             new == [t EXCEPT !.row = Stepped(t.row, 1), !.steps = t.steps + 1,
                              !.bal = after, !.delta = t.delta + signed, !.over = last]
  <2>1. last \in Events \cup {None} /\ t.delta + signed \in Int
    BY <1>2, <1>4 DEF TickState
  <2>2. new \in TickState
    BY <1>2, <1>4, <1>5, <2>1, PostType
  <2>3. tick' = [tick EXCEPT ![w] = new]
    BY <1>1
  <2> QED BY <2>2, <2>3 DEF TypeOK
<1>8. net' \in [Events -> Int] /\ poolLock' \in [Pools -> Sessions \cup {None}]
  BY <1>1, <1>2, <1>4 DEF TypeOK
<1> QED BY <1>6, <1>7, <1>8 DEF PostPeriod, TypeOK

LEMMA RepeatPeriodType ==
  ASSUME IInv, NEW w \in Ticks, RepeatPeriod(w)
  PROVE  TypeOK'
<1> TypeOK /\ RowsOK /\ TickOK /\ ReqOK
  BY DEF IInv
<1>1. tick[w] \in TickState /\ tick[w].row \in RuleRow /\ tick[w].steps \in Nat
  BY TickTypes DEF TickState
<1>2. Stepped(tick[w].row, 0) \in RuleRow
  BY <1>1, SteppedType
<1>3. [tick[w] EXCEPT !.row = Stepped(tick[w].row, 0), !.steps = tick[w].steps + 1]
         \in TickState
  BY <1>1, <1>2, StepType
<1>4. tick' = [tick EXCEPT ![w] = [tick[w] EXCEPT !.row = Stepped(tick[w].row, 0),
                                                  !.steps = tick[w].steps + 1]]
  BY DEF RepeatPeriod
<1>5. tick' \in [Ticks -> TickState]
  BY <1>3, <1>4 DEF TypeOK
<1> QED BY <1>5 DEF RepeatPeriod, TypeOK, money, locks

LEMMA CommitRuleType ==
  ASSUME IInv, NEW w \in Ticks, CommitRule(w)
  PROVE  TypeOK'
<1> TypeOK /\ RowsOK /\ TickOK /\ ReqOK
  BY DEF IInv
<1> DEFINE t == tick[w]
           r == t.rule
           p == PoolOf[r]
<1>1. /\ t \in TickState /\ r \in Rules /\ p \in Pools /\ w \in Sessions
      /\ t.bal \in Int /\ t.delta \in Int /\ t.over \in Events \cup {None}
  BY TickTypes, RulesAssumption DEF TickState, CommitRule, TickOK, TickGood
<1>2. LoopExit(t) \in RuleRow
  BY <1>1, LoopExitType
<1>3. rules' \in [Rules -> RuleRow]
  BY <1>1, <1>2 DEF CommitRule, TypeOK
<1>4. events' \in [Events -> EventRow]
  BY PublishType DEF CommitRule
<1>5. BackToScan(t) \in TickState
  BY <1>1, BackToScanType
<1>6. tick' \in [Ticks -> TickState]
  BY <1>1, <1>5 DEF CommitRule, TypeOK
<1>7. alerted' \subseteq Events
  BY <1>1 DEF CommitRule, TypeOK, QueuedAlerts
<1>8. LockTypes'
  BY ReleaseType DEF CommitRule
<1>9. ledger' \in [Pools -> Int] /\ total' \in [Pools -> Int]
  BY <1>1 DEF CommitRule, TypeOK
<1> QED BY <1>3, <1>4, <1>6, <1>7, <1>8, <1>9 DEF CommitRule, TypeOK, LockTypes

LEMMA FailRuleType ==
  ASSUME IInv, NEW w \in Ticks, FailRule(w), faults' \in Nat
  PROVE  TypeOK'
<1> TypeOK /\ RowsOK /\ TickOK /\ ReqOK
  BY DEF IInv
<1>1. BackToScan(tick[w]) \in TickState
  BY TickTypes, BackToScanType
<1>2. tick' \in [Ticks -> TickState]
  BY <1>1 DEF FailRule, TypeOK
<1>3. Rollback(w)
  BY DEF FailRule
<1> QED BY <1>2, <1>3, RollbackType DEF FailRule, TypeOK, LockTypes

LEMMA EndTickType ==
  ASSUME IInv, NEW w \in Ticks, EndTick(w)
  PROVE  TypeOK'
<1> TypeOK /\ RowsOK /\ TickOK /\ ReqOK
  BY DEF IInv
<1>1. tick' \in [Ticks -> TickState]
  BY Constants DEF EndTick, TypeOK
<1> QED BY <1>1 DEF EndTick, TypeOK, money, locks

LEMMA CrashTickType ==
  ASSUME IInv, NEW w \in Ticks, CrashTick(w)
  PROVE  TypeOK'
<1> TypeOK /\ RowsOK /\ TickOK /\ ReqOK
  BY DEF IInv
<1>1. tick' \in [Ticks -> TickState]
  BY Constants DEF CrashTick, TypeOK
<1>2. Rollback(w)
  BY DEF CrashTick
<1> QED BY <1>1, <1>2, RollbackType DEF CrashTick, TypeOK, LockTypes

LEMMA CreateRuleType ==
  ASSUME IInv, NEW q \in Requests, CreateRule(q)
  PROVE  TypeOK'
<1> TypeOK /\ RowsOK /\ TickOK /\ ReqOK
  BY DEF IInv
<1>1. PICK r \in Rules, d \in Drafts :
        rules' = [rules EXCEPT ![r] =
            [status |-> "ACTIVE", next_run_at |-> d.next_run_at, end_at |-> d.end_at,
             max_runs |-> d.max_runs, run_count |-> 0, amount |-> d.amount]]
  BY DEF CreateRule
<1>2. [status |-> "ACTIVE", next_run_at |-> d.next_run_at, end_at |-> d.end_at,
       max_runs |-> d.max_runs, run_count |-> 0, amount |-> d.amount] \in RuleRow
  BY BodyAssumption DEF RuleRow, Statuses
<1>3. rules' \in [Rules -> RuleRow]
  BY <1>1, <1>2 DEF TypeOK
<1> QED BY <1>3 DEF CreateRule, Begin, TypeOK, money, locks

LEMMA OpenRuleType ==
  ASSUME IInv, NEW q \in Requests, OpenRule(q)
  PROVE  TypeOK'
<1> TypeOK /\ RowsOK /\ TickOK /\ ReqOK
  BY DEF IInv
<1>1. PICK r \in Rules :
        /\ ruleLock' = [ruleLock EXCEPT ![r] = q]
        /\ req' = [req EXCEPT ![q] = [IdleReq EXCEPT !.pc = "rule", !.rule = r]]
  BY DEF OpenRule
<1>2. [IdleReq EXCEPT !.pc = "rule", !.rule = r] \in ReqState
  BY Constants DEF ReqState
<1>3. ruleLock' \in [Rules -> Sessions \cup {None}] /\ req' \in [Requests -> ReqState]
  BY <1>1, <1>2, ReqTypes DEF TypeOK
<1> QED BY <1>3 DEF OpenRule, Begin, TypeOK, money

LEMMA UpdateRuleType ==
  ASSUME IInv, NEW q \in Requests, UpdateRule(q)
  PROVE  TypeOK'
<1> TypeOK /\ RowsOK /\ TickOK /\ ReqOK
  BY DEF IInv
<1>1. PICK ed \in Edits :
        rules' = [rules EXCEPT ![req[q].rule] = Edited(rules[req[q].rule], ed)]
  BY DEF UpdateRule
<1>2. req[q].rule \in Rules
  BY DEF UpdateRule, ReqOK, ReqGood
<1>3. Edited(rules[req[q].rule], ed) \in RuleRow
  BY <1>2, EditedType DEF TypeOK
<1>4. rules' \in [Rules -> RuleRow]
  BY <1>1, <1>2, <1>3 DEF TypeOK
<1>5. LockTypes'
  BY ReleaseType DEF UpdateRule
<1>6. req' \in [Requests -> ReqState]
  BY Constants DEF UpdateRule, TypeOK
<1> QED BY <1>4, <1>5, <1>6 DEF UpdateRule, TypeOK, LockTypes, money

LEMMA DeleteRuleType ==
  ASSUME IInv, NEW q \in Requests, DeleteRule(q)
  PROVE  TypeOK'
<1> TypeOK /\ RowsOK /\ TickOK /\ ReqOK
  BY DEF IInv
<1>1. req[q].rule \in Rules
  BY DEF DeleteRule, ReqOK, ReqGood
<1>2. [rules[req[q].rule] EXCEPT !.status = "CANCELLED"] \in RuleRow
  BY <1>1 DEF TypeOK, RuleRow, Statuses
<1>3. rules' \in [Rules -> RuleRow]
  BY <1>1, <1>2 DEF DeleteRule, TypeOK
<1>4. LockTypes'
  BY ReleaseType DEF DeleteRule
<1>5. req' \in [Requests -> ReqState]
  BY Constants DEF DeleteRule, TypeOK
<1> QED BY <1>3, <1>4, <1>5 DEF DeleteRule, TypeOK, LockTypes, money

LEMMA CreateEventType ==
  ASSUME IInv, NEW q \in Requests, CreateEvent(q)
  PROVE  TypeOK'
<1> TypeOK /\ RowsOK /\ TickOK /\ ReqOK
  BY DEF IInv
<1>1. PICK e \in Events, p \in Pools, k \in Kinds, a \in Amounts \ {0} :
       /\ Fresh(e)
       /\ PoolFree(p, q)
       /\ poolLock' = [poolLock EXCEPT ![p] = q]
       /\ events' = [events EXCEPT ![e] =
            NewEvent(q, None, 0, p, k, a, total[p] + Signed(k, a))]
       /\ net' = [net EXCEPT ![e] = Signed(k, a)]
       /\ req' = [req EXCEPT ![q] =
            [IdleReq EXCEPT !.pc = "pool", !.op = "create", !.event = e, !.amount = a,
                            !.bal = total[p] + Signed(k, a)]]
  BY DEF CreateEvent
<1>2. /\ a \in Nat /\ Signed(k, a) \in Int /\ total[p] + Signed(k, a) \in Int
  BY NumberAssumption DEF Signed, TypeOK
<1>3. NewEvent(q, None, 0, p, k, a, total[p] + Signed(k, a)) \in EventRow
  BY <1>2, ReqTypes, NewEventType DEF Day
<1>4. [IdleReq EXCEPT !.pc = "pool", !.op = "create", !.event = e, !.amount = a,
                      !.bal = total[p] + Signed(k, a)] \in ReqState
  BY <1>2, Constants DEF ReqState
<1>5. events' \in [Events -> EventRow] /\ req' \in [Requests -> ReqState]
  BY <1>1, <1>3, <1>4 DEF TypeOK
<1>6. net' \in [Events -> Int] /\ poolLock' \in [Pools -> Sessions \cup {None}]
  BY <1>1, <1>2, ReqTypes DEF TypeOK
<1> QED BY <1>5, <1>6 DEF CreateEvent, Begin, TypeOK

LEMMA OpenEventType ==
  ASSUME IInv, NEW q \in Requests, OpenEvent(q)
  PROVE  TypeOK'
<1> TypeOK /\ RowsOK /\ TickOK /\ ReqOK
  BY DEF IInv
<1>1. PICK e \in Events, op \in {"update", "delete"}, a \in Amounts :
        /\ eventLock' = [eventLock EXCEPT ![e] = q]
        /\ req' = [req EXCEPT ![q] =
             [IdleReq EXCEPT !.pc = "event", !.op = op, !.event = e, !.amount = a]]
  BY DEF OpenEvent
<1>2. [IdleReq EXCEPT !.pc = "event", !.op = op, !.event = e, !.amount = a] \in ReqState
  BY Constants, NumberAssumption DEF ReqState
<1>3. /\ eventLock' \in [Events -> Sessions \cup {None}]
      /\ req' \in [Requests -> ReqState]
  BY <1>1, <1>2, ReqTypes DEF TypeOK
<1> QED BY <1>3 DEF OpenEvent, Begin, TypeOK, money

LEMMA DeltaType ==
  ASSUME IInv, NEW q \in Requests, req[q].event \in Events
  PROVE  Delta(q) \in Int
<1>1. events[req[q].event] \in EventRow /\ req[q] \in ReqState
  BY ReqTypes DEF IInv, TypeOK
<1> QED BY <1>1 DEF Delta, Signed, EventRow, ReqState

LEMMA AdjustBalanceType ==
  ASSUME IInv, NEW q \in Requests, AdjustBalance(q)
  PROVE  TypeOK'
<1> TypeOK /\ RowsOK /\ TickOK /\ ReqOK
  BY DEF IInv
<1> DEFINE p == events[req[q].event].pool
<1>1. req[q].event \in Events /\ p \in Pools
  BY DEF AdjustBalance, ReqOK, ReqGood, Editing, RowsOK
<1>2. total[p] + Delta(q) \in Int
  BY <1>1, DeltaType DEF TypeOK
<1>3. [req[q] EXCEPT !.pc = "pool", !.bal = total[p] + Delta(q)] \in ReqState
  BY <1>2, ReqTypes DEF ReqState
<1>4. req' \in [Requests -> ReqState]
  BY <1>3 DEF AdjustBalance, TypeOK
<1>5. poolLock' \in [Pools -> Sessions \cup {None}]
  BY <1>1, ReqTypes DEF AdjustBalance, TypeOK
<1> QED BY <1>4, <1>5 DEF AdjustBalance, TypeOK, money

LEMMA CommitNewEventType ==
  ASSUME IInv, NEW q \in Requests, CommitNewEvent(q)
  PROVE  TypeOK'
<1> TypeOK /\ RowsOK /\ TickOK /\ ReqOK
  BY DEF IInv
<1> DEFINE e == req[q].event
           p == events[e].pool
<1>1. e \in Events /\ req[q].bal \in Int /\ p \in Pools
  BY ReqTypes DEF CommitNewEvent, ReqOK, ReqGood, Creating, RowsOK, ReqState
<1>2. events' \in [Events -> EventRow]
  BY PublishType DEF CommitNewEvent
<1>3. ledger' \in [Pools -> Int] /\ total' \in [Pools -> Int] /\ alerted' \subseteq Events
  BY <1>1 DEF CommitNewEvent, TypeOK
<1>4. LockTypes'
  BY ReleaseType DEF CommitNewEvent
<1>5. req' \in [Requests -> ReqState]
  BY Constants DEF CommitNewEvent, TypeOK
<1> QED BY <1>2, <1>3, <1>4, <1>5 DEF CommitNewEvent, TypeOK, LockTypes

LEMMA CommitEditType ==
  ASSUME IInv, NEW q \in Requests, CommitEdit(q)
  PROVE  TypeOK'
<1> TypeOK /\ RowsOK /\ TickOK /\ ReqOK
  BY DEF IInv
<1> DEFINE e == req[q].event
           row == events[e]
           over == row.kind = "EXPENSE" /\ req[q].bal < 0
           edited == [row EXCEPT !.amount = req[q].amount, !.over = over]
<1>1. /\ e \in Events /\ req[q].bal \in Int /\ req[q].amount \in Nat
      /\ row.pool \in Pools /\ row \in EventRow
  BY ReqTypes DEF CommitEdit, ReqOK, ReqGood, Editing, RowsOK, ReqState, TypeOK
<1>2. edited \in EventRow
  BY <1>1 DEF EventRow
<1>3. events' \in [Events -> EventRow]
  BY <1>1, <1>2, Constants DEF CommitEdit, TypeOK
<1>4. net' \in [Events -> Int] /\ ledger' \in [Pools -> Int] /\ total' \in [Pools -> Int]
  BY <1>1, DeltaType DEF CommitEdit, TypeOK
<1>5. LockTypes'
  BY ReleaseType DEF CommitEdit
<1>6. req' \in [Requests -> ReqState]
  BY Constants DEF CommitEdit, TypeOK
<1> QED BY <1>3, <1>4, <1>5, <1>6 DEF CommitEdit, TypeOK, LockTypes

LEMMA AbortRequestType ==
  ASSUME IInv, NEW q \in Requests, AbortRequest(q)
  PROVE  TypeOK'
<1> TypeOK /\ RowsOK /\ TickOK /\ ReqOK
  BY DEF IInv
<1>1. req' \in [Requests -> ReqState]
  BY Constants DEF AbortRequest, TypeOK
<1>2. Rollback(q)
  BY DEF AbortRequest
<1> QED BY <1>1, <1>2, RollbackType DEF AbortRequest, TypeOK, LockTypes

LEMMA AdvanceType ==
  ASSUME IInv, Advance
  PROVE  TypeOK'
BY DEF IInv, Advance, TypeOK, money, locks, Day

LEMMA LoseAdvisoryType ==
  ASSUME IInv, NEW w \in Ticks, LoseAdvisory(w)
  PROVE  TypeOK'
BY DEF IInv, LoseAdvisory, TypeOK, money, locks

-----------------------------------------------------------------------------
(* Sessions do not disturb each other: what TickGood and ReqGood say of a  *)
(* session rests on rows it has locked or inserted, and no step of another *)
(* session touches those.                                                  *)

Undisturbed(s) ==
  /\ \A r \in Rules : ruleLock[r] = s =>
       /\ ruleLock'[r] = s
       /\ rules[r].status = "ACTIVE" => rules'[r].status = "ACTIVE"
  /\ \A p \in Pools :
       /\ poolLock[p] = s => poolLock'[p] = s /\ total'[p] = total[p]
       /\ poolLock'[p] = s => poolLock[p] = s
  /\ \A e \in Events :
       /\ events[e].by = s => events'[e] = events[e] /\ net'[e] = net[e]
       /\ events'[e].by = s => events[e].by = s
       /\ eventLock[e] = s /\ events[e].state = "live" =>
            eventLock'[e] = s /\ events'[e] = events[e]

LEMMA TickFrame ==
  ASSUME IInv, NEW w \in Ticks, Undisturbed(w), tick'[w] = tick[w]
  PROVE  TickGood(w)'
<1>1. TickGood(w)
  BY DEF IInv, TickOK
<1>2. CASE tick[w].pc = "run"
  <2>1. tick[w].rule \in Rules /\ PoolOf[tick[w].rule] \in Pools
    BY <1>1, <1>2, RulesAssumption DEF TickGood
  <2> QED BY <1>1, <1>2, <2>1 DEF TickGood, Undisturbed
<1>3. CASE tick[w].pc # "run"
  BY <1>1, <1>3 DEF TickGood, Undisturbed
<1> QED BY <1>2, <1>3

LEMMA ReqFrame ==
  ASSUME IInv, NEW q \in Requests, Undisturbed(q), req'[q] = req[q]
  PROVE  ReqGood(q)'
<1> DEFINE e == req[q].event
           p == events[e].pool
<1>1. ReqGood(q) /\ RowsOK
  BY DEF IInv, ReqOK
<1>2. req[q].pc = "rule" => ruleLock'[req[q].rule] = q
  BY <1>1 DEF ReqGood, Undisturbed
<1>3. ASSUME Editing(q)
      PROVE  Editing(q)' /\ events'[e] = events[e] /\ p \in Pools
  BY <1>1, <1>3 DEF Editing, Undisturbed, RowsOK
<1>4. ASSUME Editing(q), Balanced(q)
      PROVE  Balanced(q)'
  BY <1>3, <1>4 DEF Balanced, Delta, Undisturbed
<1>5. ASSUME Creating(q)
      PROVE  Creating(q)'
  BY <1>1, <1>5 DEF Creating, Undisturbed, RowsOK
<1>6. \A f \in Events : events'[f].by = q =>
        req'[q].pc = "pool" /\ req'[q].op = "create" /\ req'[q].event = f
  BY <1>1 DEF ReqGood, Undisturbed
<1> QED BY <1>1, <1>2, <1>3, <1>4, <1>5, <1>6 DEF ReqGood

LEMMA Distinct ==
  /\ None \notin Ticks /\ None \notin Requests
  /\ \A w \in Ticks, q \in Requests : w # q
BY SessionAssumption DEF Sessions

\* What is true after every step of session s: the others are as they were.
Others(s) ==
  /\ \A w \in Ticks : w # s => TickGood(w)'
  /\ \A q \in Requests : q # s => ReqGood(q)'

LEMMA OthersFrame ==
  ASSUME IInv, NEW s,
         \A v \in Sessions : v # s => Undisturbed(v),
         \A w \in Ticks : w # s => tick'[w] = tick[w],
         \A q \in Requests : q # s => req'[q] = req[q]
  PROVE  Others(s)
BY TickFrame, ReqFrame DEF Others, Sessions

LEMMA QuietStep ==
  ASSUME UNCHANGED <<rules, ruleLock, poolLock, eventLock, total, events, net>>
  PROVE  \A v \in Sessions : Undisturbed(v)
BY DEF Undisturbed

\* Every session but s is as it was, and so are the rows: what is left to show
\* of a step of s is about s alone.
LEMMA QuietSession ==
  ASSUME IInv, NEW s \in Sessions, TypeOK',
         UNCHANGED <<rules, ruleLock, poolLock, eventLock, total, ledger, events, net>>,
         \A w \in Ticks : w # s => tick'[w] = tick[w],
         \A q \in Requests : q # s => req'[q] = req[q],
         s \in Ticks => TickGood(s)',
         s \in Requests => ReqGood(s)'
  PROVE  IInv'
<1>1. Others(s)
  BY QuietStep, OthersFrame
<1>2. TickOK' /\ ReqOK'
  BY <1>1 DEF Others, TickOK, ReqOK
<1>3. RowsOK' /\ UniqueIndex' /\ PoolMatchesLedger' /\ EventMatchesLedger'
  BY DEF IInv, RowsOK, UniqueIndex, PoolMatchesLedger, EventMatchesLedger
<1> QED BY <1>2, <1>3 DEF IInv

-----------------------------------------------------------------------------
(* IInv is preserved, one action at a time. *)

LEMMA StartTickInv ==
  ASSUME IInv, NEW w \in Ticks, NEW force \in Forcing, StartTick(w, force)
  PROVE  IInv'
<1>1. /\ tick[w] \in TickState /\ TickGood(w) /\ w \in Sessions
  BY TickTypes DEF IInv, TickOK
<1>2. tick'[w].pc = "scan"
  BY DEF StartTick, IInv, TypeOK, IdleTick
<1>3. TickGood(w)'
  BY <1>1, <1>2 DEF StartTick, TickGood, locks
<1>4. \A v \in Ticks : v # w => tick'[v] = tick[v]
  BY DEF StartTick, IInv, TypeOK
<1> QED BY <1>1, <1>3, <1>4, StartTickType, QuietSession, Distinct DEF StartTick, locks, money

LEMMA SkipRuleInv ==
  ASSUME IInv, NEW w \in Ticks, SkipRule(w)
  PROVE  IInv'
<1>1. /\ tick[w] \in TickState /\ TickGood(w) /\ w \in Sessions
  BY TickTypes DEF IInv, TickOK
<1>2. PICK item \in tick[w].todo : tick' = [tick EXCEPT ![w].todo = @ \ {item}]
  BY DEF SkipRule, IInv, TypeOK
<1>3. tick[w].pc = "scan" /\ tick'[w].pc = "scan"
  BY <1>1, <1>2 DEF SkipRule, IInv, TypeOK, TickState
<1>4. TickGood(w)'
  BY <1>1, <1>3 DEF SkipRule, TickGood, locks
<1>5. \A v \in Ticks : v # w => tick'[v] = tick[v]
  BY <1>2 DEF IInv, TypeOK
<1> QED BY <1>1, <1>4, <1>5, SkipRuleType, QuietSession, Distinct DEF SkipRule, locks, money

LEMMA EndTickInv ==
  ASSUME IInv, NEW w \in Ticks, EndTick(w)
  PROVE  IInv'
<1>1. /\ tick[w] \in TickState /\ TickGood(w) /\ w \in Sessions
  BY TickTypes DEF IInv, TickOK
<1>2. tick[w].pc = "scan" /\ tick'[w].pc = "idle"
  BY DEF EndTick, IInv, TypeOK, IdleTick
<1>3. TickGood(w)'
  BY <1>1, <1>2 DEF EndTick, TickGood, locks
<1>4. \A v \in Ticks : v # w => tick'[v] = tick[v]
  BY DEF EndTick, IInv, TypeOK
<1> QED BY <1>1, <1>3, <1>4, EndTickType, QuietSession, Distinct DEF EndTick, locks, money

LEMMA RepeatPeriodInv ==
  ASSUME IInv, NEW w \in Ticks, RepeatPeriod(w)
  PROVE  IInv'
<1>1. /\ tick[w] \in TickState /\ TickGood(w) /\ w \in Sessions
  BY TickTypes DEF IInv, TickOK
<1>2. /\ tick[w].pc = "run" /\ tick'[w].pc = "run"
      /\ tick'[w].rule = tick[w].rule
      /\ tick'[w].bal = tick[w].bal /\ tick'[w].delta = tick[w].delta
  BY <1>1 DEF RepeatPeriod, IInv, TypeOK, TickState
<1>3. TickGood(w)'
  BY <1>1, <1>2 DEF RepeatPeriod, TickGood, locks, money
<1>4. \A v \in Ticks : v # w => tick'[v] = tick[v]
  BY DEF RepeatPeriod, IInv, TypeOK
<1> QED BY <1>1, <1>3, <1>4, RepeatPeriodType, QuietSession, Distinct
        DEF RepeatPeriod, locks, money

LEMMA OpenEventInv ==
  ASSUME IInv, NEW q \in Requests, OpenEvent(q)
  PROVE  IInv'
<1>1. /\ req[q] \in ReqState /\ ReqGood(q) /\ q \in Sessions
  BY ReqTypes DEF IInv, ReqOK
<1>2. PICK e \in Events, op \in {"update", "delete"}, a \in Amounts :
        /\ events[e].state = "live"
        /\ EventFree(e, q)
        /\ eventLock' = [eventLock EXCEPT ![e] = q]
        /\ op = "delete" => a = 0
        /\ req' = [req EXCEPT ![q] =
             [IdleReq EXCEPT !.pc = "event", !.op = op, !.event = e, !.amount = a]]
  BY DEF OpenEvent
<1>3. /\ req'[q].pc = "event" /\ req'[q].op = op /\ req'[q].event = e
      /\ req'[q].amount = a
  BY <1>2 DEF IInv, TypeOK, IdleReq
<1>4. eventLock'[e] = q /\ events' = events
  BY <1>2 DEF IInv, TypeOK, OpenEvent
<1>5. Editing(q)'
  BY <1>2, <1>3, <1>4 DEF Editing
<1>6. \A f \in Events : events'[f].by # q
  BY <1>1, <1>4 DEF ReqGood, OpenEvent, Begin
<1>7. ReqGood(q)'
  BY <1>3, <1>5, <1>6 DEF ReqGood
<1>8. ASSUME NEW v \in Sessions, v # q
      PROVE  Undisturbed(v)
  BY <1>1, <1>2, <1>4, <1>8, SessionAssumption
     DEF Undisturbed, OpenEvent, money, EventFree, IInv, TypeOK, Sessions
<1>9. Others(q)
  BY <1>2, <1>8, OthersFrame, Distinct DEF OpenEvent, IInv, TypeOK
<1>10. TickOK' /\ ReqOK'
  BY <1>7, <1>9, Distinct DEF Others, TickOK, ReqOK
<1>11. RowsOK' /\ UniqueIndex' /\ PoolMatchesLedger' /\ EventMatchesLedger'
  BY DEF IInv, RowsOK, UniqueIndex, PoolMatchesLedger, EventMatchesLedger, OpenEvent, money
<1> QED BY <1>10, <1>11, OpenEventType DEF IInv

LEMMA AdjustBalanceInv ==
  ASSUME IInv, NEW q \in Requests, AdjustBalance(q)
  PROVE  IInv'
<1> DEFINE e == req[q].event
           p == events[e].pool
<1>1. /\ req[q] \in ReqState /\ ReqGood(q) /\ q \in Sessions
  BY ReqTypes DEF IInv, ReqOK
<1>2. Editing(q) /\ req[q].op \in {"update", "delete"} /\ req[q].pc = "event"
  BY <1>1 DEF AdjustBalance, ReqGood
<1>3. e \in Events /\ p \in Pools
  BY <1>2 DEF Editing, IInv, RowsOK
<1>4. /\ req'[q].pc = "pool" /\ req'[q].op = req[q].op /\ req'[q].event = e
      /\ req'[q].amount = req[q].amount /\ req'[q].bal = total[p] + Delta(q)
  BY <1>1 DEF AdjustBalance, IInv, TypeOK, ReqState
<1>5. UNCHANGED <<rules, ruleLock, eventLock, events, net, ledger, total>>
  BY DEF AdjustBalance, money
<1>6. Editing(q)' /\ Delta(q)' = Delta(q)
  BY <1>2, <1>4, <1>5 DEF Editing, Delta
<1>7. Balanced(q)'
  BY <1>3, <1>4, <1>5, <1>6 DEF Balanced, AdjustBalance, IInv, TypeOK
<1>8. ReqGood(q)'
  BY <1>1, <1>2, <1>4, <1>5, <1>6, <1>7 DEF ReqGood
<1>9. ASSUME NEW v \in Sessions, v # q
      PROVE  Undisturbed(v)
  BY <1>1, <1>3, <1>5, <1>9, SessionAssumption
     DEF Undisturbed, AdjustBalance, PoolFree, IInv, TypeOK
<1>10. Others(q)
  BY <1>9, OthersFrame, Distinct DEF AdjustBalance, IInv, TypeOK
<1>11. TickOK' /\ ReqOK'
  BY <1>8, <1>10, Distinct DEF Others, TickOK, ReqOK
<1>12. RowsOK' /\ UniqueIndex' /\ PoolMatchesLedger' /\ EventMatchesLedger'
  BY <1>5 DEF IInv, RowsOK, UniqueIndex, PoolMatchesLedger, EventMatchesLedger
<1> QED BY <1>11, <1>12, AdjustBalanceType DEF IInv

LEMMA LockRuleInv ==
  ASSUME IInv, NEW w \in Ticks, LockRule(w)
  PROVE  IInv'
<1>1. /\ tick[w] \in TickState /\ TickGood(w) /\ w \in Sessions
  BY TickTypes DEF IInv, TickOK
<1>2. PICK item \in tick[w].todo :
        /\ Takes(w, item[1])
        /\ ruleLock' = [ruleLock EXCEPT ![item[1]] = w]
        /\ tick' = [tick EXCEPT ![w] = Enter(tick[w], item)]
  BY DEF LockRule, IInv, TypeOK
<1>3. item[1] \in Rules
  BY <1>1 DEF TickState
<1>4. tick'[w].pc = "run" /\ tick'[w].rule = item[1] /\ tick'[w].delta = 0
  BY <1>2 DEF Enter, IdleTick, IInv, TypeOK
<1>5. TickGood(w)'
  BY <1>1, <1>2, <1>3, <1>4, RulesAssumption
     DEF TickGood, LockRule, Takes, IInv, TypeOK, money
<1>6. ASSUME NEW v \in Sessions, v # w
      PROVE  Undisturbed(v)
  BY <1>1, <1>2, <1>3, <1>6, SessionAssumption
     DEF Undisturbed, LockRule, Takes, IInv, TypeOK, money
<1>7. Others(w)
  BY <1>2, <1>6, OthersFrame, Distinct DEF LockRule, IInv, TypeOK
<1>8. TickOK' /\ ReqOK'
  BY <1>5, <1>7, Distinct DEF Others, TickOK, ReqOK
<1>9. RowsOK' /\ UniqueIndex' /\ PoolMatchesLedger' /\ EventMatchesLedger'
  BY DEF IInv, RowsOK, UniqueIndex, PoolMatchesLedger, EventMatchesLedger, LockRule, money
<1> QED BY <1>8, <1>9, LockRuleType DEF IInv

LEMMA OpenRuleInv ==
  ASSUME IInv, NEW q \in Requests, OpenRule(q)
  PROVE  IInv'
<1>1. /\ req[q] \in ReqState /\ ReqGood(q) /\ q \in Sessions
  BY ReqTypes DEF IInv, ReqOK
<1>2. PICK r \in Rules :
        /\ RuleFree(r, q)
        /\ ruleLock' = [ruleLock EXCEPT ![r] = q]
        /\ req' = [req EXCEPT ![q] = [IdleReq EXCEPT !.pc = "rule", !.rule = r]]
  BY DEF OpenRule
<1>3. req'[q].pc = "rule" /\ req'[q].rule = r /\ ruleLock'[r] = q
  BY <1>2 DEF IInv, TypeOK, IdleReq
<1>4. UNCHANGED <<rules, events, net, ledger, total, eventLock, poolLock>>
  BY DEF OpenRule, money
<1>5. ReqGood(q)'
  BY <1>1, <1>2, <1>3, <1>4 DEF ReqGood, OpenRule, Begin
<1>6. ASSUME NEW v \in Sessions, v # q
      PROVE  Undisturbed(v)
  BY <1>1, <1>2, <1>4, <1>6, SessionAssumption DEF Undisturbed, RuleFree, IInv, TypeOK
<1>7. Others(q)
  BY <1>2, <1>6, OthersFrame, Distinct DEF OpenRule, IInv, TypeOK
<1>8. TickOK' /\ ReqOK'
  BY <1>5, <1>7, Distinct DEF Others, TickOK, ReqOK
<1>9. RowsOK' /\ UniqueIndex' /\ PoolMatchesLedger' /\ EventMatchesLedger'
  BY <1>4 DEF IInv, RowsOK, UniqueIndex, PoolMatchesLedger, EventMatchesLedger
<1> QED BY <1>8, <1>9, OpenRuleType DEF IInv

LEMMA CreateRuleInv ==
  ASSUME IInv, NEW q \in Requests, CreateRule(q)
  PROVE  IInv'
<1>1. PICK r \in Rules, d \in Drafts :
        /\ rules[r].status = "ABSENT"
        /\ rules' = [rules EXCEPT ![r] =
            [status |-> "ACTIVE", next_run_at |-> d.next_run_at, end_at |-> d.end_at,
             max_runs |-> d.max_runs, run_count |-> 0, amount |-> d.amount]]
  BY DEF CreateRule
<1>2. UNCHANGED <<events, net, ledger, total, ruleLock, eventLock, poolLock, tick, req>>
  BY DEF CreateRule, money, locks
<1>3. ASSUME NEW v \in Sessions
      PROVE  Undisturbed(v)
  BY <1>1, <1>2 DEF Undisturbed, IInv, TypeOK
<1>4. TickOK' /\ ReqOK'
  BY <1>2, <1>3, TickFrame, ReqFrame DEF TickOK, ReqOK, Sessions
<1>5. RowsOK' /\ UniqueIndex' /\ PoolMatchesLedger' /\ EventMatchesLedger'
  BY <1>2 DEF IInv, RowsOK, UniqueIndex, PoolMatchesLedger, EventMatchesLedger
<1> QED BY <1>4, <1>5, CreateRuleType DEF IInv

LEMMA AdvanceInv ==
  ASSUME IInv, Advance
  PROVE  IInv'
<1>1. UNCHANGED <<rules, events, net, ledger, total, ruleLock, eventLock, poolLock, tick, req>>
  BY DEF Advance, money, locks
<1>2. TickOK' /\ ReqOK'
  BY <1>1, QuietStep, TickFrame, ReqFrame DEF TickOK, ReqOK, Sessions
<1>3. RowsOK' /\ UniqueIndex' /\ PoolMatchesLedger' /\ EventMatchesLedger'
  BY <1>1 DEF IInv, RowsOK, UniqueIndex, PoolMatchesLedger, EventMatchesLedger
<1> QED BY <1>2, <1>3, AdvanceType DEF IInv

LEMMA LoseAdvisoryInv ==
  ASSUME IInv, NEW w \in Ticks, LoseAdvisory(w)
  PROVE  IInv'
<1>1. UNCHANGED <<rules, events, net, ledger, total, ruleLock, eventLock, poolLock, tick, req>>
  BY DEF LoseAdvisory, money, locks
<1>2. TickOK' /\ ReqOK'
  BY <1>1, QuietStep, TickFrame, ReqFrame DEF TickOK, ReqOK, Sessions
<1>3. RowsOK' /\ UniqueIndex' /\ PoolMatchesLedger' /\ EventMatchesLedger'
  BY <1>1 DEF IInv, RowsOK, UniqueIndex, PoolMatchesLedger, EventMatchesLedger
<1> QED BY <1>2, <1>3, LoseAdvisoryType DEF IInv

\* The end of a transaction of s frees exactly the locks of s.
LEMMA ReleaseFacts ==
  ASSUME TypeOK, NEW s \in Sessions, Release(s)
  PROVE  /\ \A r \in Rules : /\ ruleLock'[r] # s
                             /\ \A v \in Sessions : v # s =>
                                  (ruleLock'[r] = v <=> ruleLock[r] = v)
         /\ \A e \in Events : /\ eventLock'[e] # s
                              /\ \A v \in Sessions : v # s =>
                                   (eventLock'[e] = v <=> eventLock[e] = v)
         /\ \A p \in Pools : /\ poolLock'[p] # s
                             /\ \A v \in Sessions : v # s =>
                                  (poolLock'[p] = v <=> poolLock[p] = v)
BY SessionAssumption DEF TypeOK, Release

\* A rollback of s removes the rows s inserted and nothing else.
LEMMA RollbackFacts ==
  ASSUME IInv, NEW s \in Sessions, Rollback(s)
  PROVE  /\ \A e \in Events :
              IF events[e].by = s
              THEN events'[e] = BlankEvent("free") /\ net'[e] = 0
              ELSE events'[e] = events[e] /\ net'[e] = net[e]
         /\ \A e \in Events : events'[e].by # s
         /\ RowsOK' /\ UniqueIndex' /\ PoolMatchesLedger' /\ EventMatchesLedger'
<1>1. \A e \in Events :
        IF events[e].by = s
        THEN events'[e] = BlankEvent("free") /\ net'[e] = 0
        ELSE events'[e] = events[e] /\ net'[e] = net[e]
  BY DEF Rollback, IInv, TypeOK
<1>2. /\ BlankEvent("free").state = "free" /\ BlankEvent("free").by = None
      /\ BlankEvent("free").rule = None
  BY DEF BlankEvent
<1>3. s # None
  BY SessionAssumption
<1>4. \A e \in Events : events'[e].by # s
  BY <1>1, <1>2, <1>3
<1>5. RowsOK'
  BY <1>1, <1>2 DEF RowsOK, IInv
<1>6. UniqueIndex'
  BY <1>1, <1>2 DEF UniqueIndex, IInv
<1>7. PoolMatchesLedger'
  BY DEF PoolMatchesLedger, IInv, Rollback
<1>8. EventMatchesLedger'
  BY <1>1, <1>2 DEF EventMatchesLedger, IInv
<1> QED BY <1>1, <1>4, <1>5, <1>6, <1>7, <1>8

LEMMA RollbackFrame ==
  ASSUME IInv, NEW s \in Sessions, Rollback(s), UNCHANGED rules
  PROVE  \A v \in Sessions : v # s => Undisturbed(v)
<1> SUFFICES ASSUME NEW v \in Sessions, v # s
             PROVE  Undisturbed(v)
  OBVIOUS
<1>1. \A e \in Events :
        /\ events[e].by = v => events'[e] = events[e] /\ net'[e] = net[e]
        /\ events'[e].by = v => events[e].by = v
        /\ events[e].state = "live" => events'[e] = events[e]
  <2>1. \A e \in Events : events[e].state = "live" => events[e].by # s
    BY SessionAssumption DEF IInv, RowsOK
  <2>2. BlankEvent("free").by # v
    BY SessionAssumption DEF BlankEvent
  <2> QED BY <2>1, <2>2, RollbackFacts
<1> QED BY <1>1, ReleaseFacts DEF IInv, Undisturbed, Rollback

LEMMA FailRuleInv ==
  ASSUME IInv, NEW w \in Ticks, FailRule(w), faults' \in Nat
  PROVE  IInv'
<1>1. /\ tick[w] \in TickState /\ w \in Sessions /\ Rollback(w)
  BY TickTypes DEF IInv, FailRule
<1>2. tick'[w].pc = "scan"
  BY DEF FailRule, IInv, TypeOK, BackToScan, IdleTick
<1>3. TickGood(w)'
  BY <1>1, <1>2, RollbackFacts, ReleaseFacts DEF TickGood, Rollback, IInv
<1>4. Others(w)
  BY <1>1, RollbackFrame, OthersFrame, Distinct DEF FailRule, IInv, TypeOK
<1>5. TickOK' /\ ReqOK'
  BY <1>3, <1>4, Distinct DEF Others, TickOK, ReqOK
<1> QED BY <1>1, <1>5, RollbackFacts, FailRuleType DEF IInv

LEMMA CrashTickInv ==
  ASSUME IInv, NEW w \in Ticks, CrashTick(w)
  PROVE  IInv'
<1>1. /\ tick[w] \in TickState /\ w \in Sessions /\ Rollback(w)
  BY TickTypes DEF IInv, CrashTick
<1>2. tick'[w].pc = "idle"
  BY DEF CrashTick, IInv, TypeOK, IdleTick
<1>3. TickGood(w)'
  BY <1>1, <1>2, RollbackFacts, ReleaseFacts DEF TickGood, Rollback, IInv
<1>4. Others(w)
  BY <1>1, RollbackFrame, OthersFrame, Distinct DEF CrashTick, IInv, TypeOK
<1>5. TickOK' /\ ReqOK'
  BY <1>3, <1>4, Distinct DEF Others, TickOK, ReqOK
<1> QED BY <1>1, <1>5, RollbackFacts, CrashTickType DEF IInv

LEMMA AbortRequestInv ==
  ASSUME IInv, NEW q \in Requests, AbortRequest(q)
  PROVE  IInv'
<1>1. /\ q \in Sessions /\ Rollback(q)
  BY ReqTypes DEF IInv, AbortRequest
<1>2. req'[q].pc = "idle"
  BY DEF AbortRequest, IInv, TypeOK, IdleReq
<1>3. ReqGood(q)'
  BY <1>1, <1>2, RollbackFacts DEF ReqGood
<1>4. Others(q)
  BY <1>1, RollbackFrame, OthersFrame, Distinct DEF AbortRequest, IInv, TypeOK
<1>5. TickOK' /\ ReqOK'
  BY <1>3, <1>4, Distinct DEF Others, TickOK, ReqOK
<1> QED BY <1>1, <1>5, RollbackFacts, AbortRequestType DEF IInv

LEMMA UpdateRuleInv ==
  ASSUME IInv, NEW q \in Requests, UpdateRule(q) \/ DeleteRule(q)
  PROVE  IInv'
<1> DEFINE r == req[q].rule
<1>1. ReqGood(q) /\ q \in Sessions /\ req[q].pc = "rule" /\ Release(q)
  BY ReqTypes DEF IInv, ReqOK, UpdateRule, DeleteRule
<1>2. r \in Rules /\ ruleLock[r] = q
  BY <1>1 DEF ReqGood
<1>3. \A x \in Rules : x # r => rules'[x] = rules[x]
  BY DEF UpdateRule, DeleteRule, IInv, TypeOK
<1>4. UNCHANGED <<events, net, ledger, total, tick>> /\ req' = [req EXCEPT ![q] = IdleReq]
  BY DEF UpdateRule, DeleteRule, money
<1>5. req'[q].pc = "idle"
  BY <1>4 DEF IInv, TypeOK, IdleReq
<1>6. ReqGood(q)'
  BY <1>1, <1>4, <1>5 DEF ReqGood
<1>7. ASSUME NEW v \in Sessions, v # q
      PROVE  Undisturbed(v)
  BY <1>1, <1>2, <1>3, <1>4, <1>7, ReleaseFacts DEF Undisturbed, IInv
<1>8. Others(q)
  BY <1>4, <1>7, OthersFrame, Distinct DEF IInv, TypeOK
<1>9. TickOK' /\ ReqOK'
  BY <1>6, <1>8, Distinct DEF Others, TickOK, ReqOK
<1>10. RowsOK' /\ UniqueIndex' /\ PoolMatchesLedger' /\ EventMatchesLedger'
  BY <1>4 DEF IInv, RowsOK, UniqueIndex, PoolMatchesLedger, EventMatchesLedger
<1> QED BY <1>9, <1>10, UpdateRuleType, DeleteRuleType DEF IInv

\* A session inserts a row: the other rows stay as they were.
LEMMA InsertFacts ==
  ASSUME IInv, NEW s \in Sessions, NEW e \in Events, events[e].state = "free",
         NEW r \in Rules \cup {None}, NEW period \in Day, NEW p \in Pools,
         NEW kind \in Kinds, NEW amount \in Nat, NEW after,
         r # None => ~AlreadyPosted(r, period),
         PoolFree(p, s), poolLock' = [poolLock EXCEPT ![p] = s],
         events' = [events EXCEPT ![e] = NewEvent(s, r, period, p, kind, amount, after)],
         net' = [net EXCEPT ![e] = Signed(kind, amount)],
         UNCHANGED <<rules, ledger, total, ruleLock, eventLock>>
  PROVE  /\ \A f \in Events : f # e => events'[f] = events[f] /\ net'[f] = net[f]
         /\ events'[e].state = "new" /\ events'[e].by = s /\ events'[e].rule = r
         /\ events'[e].pool = p /\ net'[e] = Signed(kind, amount)
         /\ \A v \in Sessions : v # s => Undisturbed(v)
         /\ RowsOK' /\ UniqueIndex' /\ PoolMatchesLedger' /\ EventMatchesLedger'
<1>1. \A f \in Events : f # e => events'[f] = events[f] /\ net'[f] = net[f]
  BY DEF IInv, TypeOK
<1>2. /\ events'[e].state = "new" /\ events'[e].by = s /\ events'[e].rule = r
      /\ events'[e].pool = p /\ events'[e].period = period
      /\ events'[e].kind = kind /\ events'[e].amount = amount
      /\ net'[e] = Signed(kind, amount)
  BY DEF IInv, TypeOK, NewEvent
<1>3. events[e].by = None /\ None \notin Sessions
  BY SessionAssumption DEF IInv, RowsOK
<1>4. ASSUME NEW v \in Sessions, v # s
      PROVE  Undisturbed(v)
  BY <1>1, <1>2, <1>3, <1>4 DEF Undisturbed, PoolFree, IInv, TypeOK
<1>5. RowsOK'
  BY <1>1, <1>2, <1>3 DEF RowsOK, IInv
<1>6. UniqueIndex'
  BY <1>1, <1>2 DEF UniqueIndex, AlreadyPosted, IInv
<1>7. PoolMatchesLedger'
  BY DEF PoolMatchesLedger, IInv
<1>8. EventMatchesLedger'
  BY <1>1, <1>2 DEF EventMatchesLedger, IInv
<1> QED BY <1>1, <1>2, <1>4, <1>5, <1>6, <1>7, <1>8

LEMMA PostPeriodInv ==
  ASSUME IInv, NEW w \in Ticks, PostPeriod(w)
  PROVE  IInv'
<1> DEFINE t == tick[w]
           r == t.rule
           p == PoolOf[r]
           amount == t.row.amount
           signed == Signed(KindOf[r], amount)
           after == (IF poolLock[p] = w THEN t.bal ELSE total[p]) + signed
           over == KindOf[r] = "EXPENSE" /\ after < 0
<1>1. /\ TickGood(w) /\ t \in TickState /\ w \in Sessions /\ t.pc = "run"
  BY TickTypes DEF IInv, TickOK, PostPeriod
<1>2. /\ r \in Rules /\ p \in Pools /\ KindOf[r] \in Kinds
      /\ amount \in Nat /\ t.row.next_run_at \in Day /\ signed \in Int
      /\ t.bal \in Int /\ t.delta \in Int
  BY <1>1, RulesAssumption DEF TickGood, TickState, RuleRow, Signed
<1>3. PICK e \in Events :
        /\ Fresh(e)
        /\ events' = [events EXCEPT ![e] =
             NewEvent(w, r, t.row.next_run_at, p, KindOf[r], amount, after)]
        /\ net' = [net EXCEPT ![e] = signed]
        /\ tick' = [tick EXCEPT ![w] =
             [t EXCEPT !.row = Stepped(t.row, 1), !.steps = t.steps + 1, !.bal = after,
                       !.delta = t.delta + signed, !.over = IF over THEN e ELSE t.over]]
        /\ poolLock' = [poolLock EXCEPT ![p] = w]
  BY DEF PostPeriod
<1>4. /\ ~AlreadyPosted(r, t.row.next_run_at) /\ PoolFree(p, w)
      /\ UNCHANGED <<rules, ledger, total, ruleLock, eventLock, req>>
  BY DEF PostPeriod
<1>5. /\ \A f \in Events : f # e => events'[f] = events[f] /\ net'[f] = net[f]
      /\ events'[e].rule = r
      /\ \A v \in Sessions : v # w => Undisturbed(v)
      /\ RowsOK' /\ UniqueIndex' /\ PoolMatchesLedger' /\ EventMatchesLedger'
  <2> DEFINE period == t.row.next_run_at
             kind == KindOf[r]
  <2>1. /\ events[e].state = "free" /\ period \in Day /\ r \in Rules \cup {None}
        /\ kind \in Kinds /\ ~AlreadyPosted(r, period)
        /\ events' = [events EXCEPT ![e] = NewEvent(w, r, period, p, kind, amount, after)]
        /\ net' = [net EXCEPT ![e] = Signed(kind, amount)]
        /\ poolLock' = [poolLock EXCEPT ![p] = w]
    BY <1>2, <1>3, <1>4 DEF Fresh
  <2>2. w \in Sessions /\ p \in Pools /\ amount \in Nat /\ PoolFree(p, w)
        /\ UNCHANGED <<rules, ledger, total, ruleLock, eventLock>>
    BY <1>1, <1>2, <1>4
  <2> HIDE DEF r, p, amount, after, signed, t, period, kind
  <2>3. /\ \A f \in Events : f # e => events'[f] = events[f] /\ net'[f] = net[f]
        /\ events'[e].rule = r
    BY <2>1 DEF IInv, TypeOK, NewEvent
  <2>4. \A v \in Sessions : v # w => Undisturbed(v)
    BY <2>1, <2>2, InsertFacts
  <2>5. RowsOK' /\ UniqueIndex' /\ PoolMatchesLedger' /\ EventMatchesLedger'
    BY <2>1, <2>2, InsertFacts
  <2> QED BY <2>3, <2>4, <2>5
<1>6. /\ tick'[w].pc = "run" /\ tick'[w].rule = r
      /\ tick'[w].bal = after /\ tick'[w].delta = t.delta + signed
  BY <1>1, <1>3 DEF IInv, TypeOK, TickState
<1>7. poolLock'[p] = w /\ total'[p] = total[p] /\ total[p] \in Int
  BY <1>2, <1>3, <1>4 DEF IInv, TypeOK
<1>8. after = total[p] + (t.delta + signed)
  <2>1. IF poolLock[p] = w THEN t.bal = total[p] + t.delta ELSE t.delta = 0
    BY <1>1 DEF TickGood
  <2>2. after = (IF poolLock[p] = w THEN t.bal ELSE total[p]) + signed
    OBVIOUS
  <2> HIDE DEF signed, after, t, p
  <2>3. CASE poolLock[p] = w
    BY <2>1, <2>2, <2>3, <1>2, <1>7
  <2>4. CASE poolLock[p] # w
    BY <2>1, <2>2, <2>4, <1>2, <1>7
  <2> QED BY <2>3, <2>4
<1>9. TickGood(w)'
  <2> HIDE DEF after, signed
  <2> QED BY <1>1, <1>2, <1>4, <1>5, <1>6, <1>7, <1>8 DEF TickGood
<1>10. Others(w)
  BY <1>3, <1>4, <1>5, OthersFrame, Distinct DEF IInv, TypeOK
<1>11. TickOK' /\ ReqOK'
  BY <1>9, <1>10, Distinct DEF Others, TickOK, ReqOK
<1> QED BY <1>5, <1>11, PostPeriodType DEF IInv

LEMMA CreateEventInv ==
  ASSUME IInv, NEW q \in Requests, CreateEvent(q)
  PROVE  IInv'
<1>1. ReqGood(q) /\ q \in Sessions
  BY ReqTypes DEF IInv, ReqOK
<1>2. PICK e \in Events, p \in Pools, k \in Kinds, a \in Amounts \ {0} :
       /\ Fresh(e)
       /\ PoolFree(p, q)
       /\ poolLock' = [poolLock EXCEPT ![p] = q]
       /\ events' = [events EXCEPT ![e] =
            NewEvent(q, None, 0, p, k, a, total[p] + Signed(k, a))]
       /\ net' = [net EXCEPT ![e] = Signed(k, a)]
       /\ req' = [req EXCEPT ![q] =
            [IdleReq EXCEPT !.pc = "pool", !.op = "create", !.event = e, !.amount = a,
                            !.bal = total[p] + Signed(k, a)]]
  BY DEF CreateEvent
<1>3. UNCHANGED <<rules, ledger, total, ruleLock, eventLock, tick>> /\ req[q].pc = "idle"
  BY DEF CreateEvent, Begin
<1>4. /\ \A f \in Events : f # e => events'[f] = events[f] /\ net'[f] = net[f]
      /\ events'[e].state = "new" /\ events'[e].by = q /\ events'[e].rule = None
      /\ events'[e].pool = p /\ net'[e] = Signed(k, a)
      /\ \A v \in Sessions : v # q => Undisturbed(v)
      /\ RowsOK' /\ UniqueIndex' /\ PoolMatchesLedger' /\ EventMatchesLedger'
  <2>1. events[e].state = "free" /\ a \in Nat /\ 0 \in Day
    BY <1>2, NumberAssumption DEF Fresh, Day
  <2> QED BY <1>1, <1>2, <1>3, <2>1, InsertFacts
<1>5. /\ req'[q].pc = "pool" /\ req'[q].op = "create" /\ req'[q].event = e
      /\ req'[q].bal = total[p] + Signed(k, a)
  BY <1>2 DEF IInv, TypeOK, IdleReq
<1>6. poolLock'[p] = q
  BY <1>2 DEF IInv, TypeOK
<1>7. Creating(q)'
  BY <1>3, <1>4, <1>5, <1>6 DEF Creating
<1>8. \A f \in Events : events'[f].by = q => f = e
  BY <1>1, <1>3, <1>4 DEF ReqGood
<1>9. ReqGood(q)'
  BY <1>5, <1>7, <1>8 DEF ReqGood
<1>10. Others(q)
  BY <1>2, <1>3, <1>4, OthersFrame, Distinct DEF IInv, TypeOK
<1>11. TickOK' /\ ReqOK'
  BY <1>9, <1>10, Distinct DEF Others, TickOK, ReqOK
<1> QED BY <1>4, <1>11, CreateEventType DEF IInv

\* What the commit of s makes visible are the rows s inserted.
LEMMA PublishFacts ==
  ASSUME IInv, NEW s \in Sessions, events' = Publish(s), UNCHANGED net
  PROVE  /\ \A e \in Events :
              IF events[e].by = s
              THEN /\ events[e].state = "new"
                   /\ events'[e].state = "live" /\ events'[e].by = None
                   /\ events'[e].rule = events[e].rule
              ELSE events'[e] = events[e]
         /\ \A e \in Events : events'[e].by # s
         /\ RowsOK' /\ UniqueIndex' /\ EventMatchesLedger'
<1>1. s # None
  BY SessionAssumption
<1>2. \A e \in Events :
        IF events[e].by = s
        THEN /\ events[e].state = "new"
             /\ events'[e].state = "live" /\ events'[e].by = None
             /\ events'[e].rule = events[e].rule /\ events'[e].pool = events[e].pool
             /\ events'[e].period = events[e].period
             /\ events'[e].kind = events[e].kind /\ events'[e].amount = events[e].amount
        ELSE events'[e] = events[e]
  BY <1>1 DEF Publish, IInv, TypeOK, RowsOK, EventRow
<1>3. \A e \in Events : events'[e].by # s
  BY <1>1, <1>2
<1>4. RowsOK'
  BY <1>2 DEF RowsOK, IInv
<1>5. UniqueIndex'
  BY <1>2 DEF UniqueIndex, IInv
<1>6. EventMatchesLedger'
  BY <1>2 DEF EventMatchesLedger, IInv
<1> QED BY <1>2, <1>3, <1>4, <1>5, <1>6

LEMMA CommitRuleInv ==
  ASSUME IInv, NEW w \in Ticks, CommitRule(w)
  PROVE  IInv'
<1> DEFINE t == tick[w]
           r == t.rule
           p == PoolOf[r]
<1>1. /\ TickGood(w) /\ t \in TickState /\ w \in Sessions /\ t.pc = "run"
      /\ Release(w) /\ events' = Publish(w)
      /\ UNCHANGED <<net, req>>
  BY TickTypes DEF IInv, TickOK, CommitRule
<1>2. /\ r \in Rules /\ p \in Pools /\ ruleLock[r] = w
      /\ t.bal \in Int /\ t.delta \in Int
      /\ IF poolLock[p] = w THEN t.bal = total[p] + t.delta ELSE t.delta = 0
  BY <1>1, RulesAssumption DEF TickGood, TickState
<1>3. /\ \A x \in Rules : x # r => rules'[x] = rules[x]
      /\ \A x \in Pools : x # p => ledger'[x] = ledger[x] /\ total'[x] = total[x]
      /\ ledger'[p] = ledger[p] + t.delta
      /\ total'[p] = IF poolLock[p] = w THEN t.bal ELSE total[p]
  BY <1>2 DEF CommitRule, IInv, TypeOK
<1>4. tick'[w].pc = "scan" /\ \A v \in Ticks : v # w => tick'[v] = tick[v]
  BY DEF CommitRule, IInv, TypeOK, BackToScan, IdleTick
<1> HIDE DEF t, r, p
<1>5. TickGood(w)'
  BY <1>1, <1>4, PublishFacts, ReleaseFacts DEF TickGood, IInv
<1>6. ASSUME NEW v \in Sessions, v # w
      PROVE  Undisturbed(v)
  <2>1. \A e \in Events :
          /\ events[e].by = v => events'[e] = events[e] /\ net'[e] = net[e]
          /\ events'[e].by = v => events[e].by = v
          /\ events[e].state = "live" => events'[e] = events[e]
    BY <1>1, <1>6, PublishFacts, SessionAssumption
  <2> QED BY <1>1, <1>2, <1>3, <1>6, <2>1, ReleaseFacts DEF Undisturbed, IInv
<1>7. Others(w)
  BY <1>1, <1>4, <1>6, OthersFrame, Distinct
<1>8. TickOK' /\ ReqOK'
  BY <1>5, <1>7, Distinct DEF Others, TickOK, ReqOK
<1>9. PoolMatchesLedger'
  BY <1>2, <1>3 DEF PoolMatchesLedger, IInv, TypeOK
<1> QED BY <1>1, <1>8, <1>9, PublishFacts, CommitRuleType DEF IInv

LEMMA CommitNewEventInv ==
  ASSUME IInv, NEW q \in Requests, CommitNewEvent(q)
  PROVE  IInv'
<1> DEFINE e == req[q].event
           p == events[e].pool
<1>1. /\ ReqGood(q) /\ q \in Sessions /\ Creating(q) /\ Release(q)
      /\ events' = Publish(q) /\ UNCHANGED <<rules, net, tick>>
  BY ReqTypes DEF IInv, ReqOK, ReqGood, CommitNewEvent
<1>2. /\ e \in Events /\ p \in Pools /\ poolLock[p] = q
      /\ req[q].bal = total[p] + net[e]
  BY <1>1 DEF Creating, IInv, RowsOK
<1>3. /\ \A x \in Pools : x # p => ledger'[x] = ledger[x] /\ total'[x] = total[x]
      /\ ledger'[p] = ledger[p] + net[e] /\ total'[p] = req[q].bal
  BY <1>2 DEF CommitNewEvent, IInv, TypeOK
<1>4. req'[q].pc = "idle" /\ \A x \in Requests : x # q => req'[x] = req[x]
  BY DEF CommitNewEvent, IInv, TypeOK, IdleReq
<1> HIDE DEF e, p
<1>5. ReqGood(q)'
  BY <1>1, <1>4, PublishFacts DEF ReqGood
<1>6. ASSUME NEW v \in Sessions, v # q
      PROVE  Undisturbed(v)
  <2>1. \A f \in Events :
          /\ events[f].by = v => events'[f] = events[f] /\ net'[f] = net[f]
          /\ events'[f].by = v => events[f].by = v
          /\ events[f].state = "live" => events'[f] = events[f]
    BY <1>1, <1>6, PublishFacts, SessionAssumption
  <2> QED BY <1>1, <1>2, <1>3, <1>6, <2>1, ReleaseFacts DEF Undisturbed, IInv
<1>7. Others(q)
  BY <1>1, <1>4, <1>6, OthersFrame, Distinct
<1>8. TickOK' /\ ReqOK'
  BY <1>5, <1>7, Distinct DEF Others, TickOK, ReqOK
<1>9. PoolMatchesLedger'
  BY <1>2, <1>3 DEF PoolMatchesLedger, IInv, TypeOK
<1> QED BY <1>1, <1>8, <1>9, PublishFacts, CommitNewEventType DEF IInv

LEMMA CommitEditInv ==
  ASSUME IInv, NEW q \in Requests, CommitEdit(q)
  PROVE  IInv'
<1> DEFINE e == req[q].event
           p == events[e].pool
           d == Delta(q)
           amount == req[q].amount
<1>1. /\ ReqGood(q) /\ q \in Sessions /\ Editing(q) /\ Balanced(q) /\ Release(q)
      /\ req[q].op \in {"update", "delete"} /\ UNCHANGED <<rules, tick>>
  BY ReqTypes DEF IInv, ReqOK, ReqGood, CommitEdit
<1>2. /\ e \in Events /\ p \in Pools /\ events[e].state = "live" /\ eventLock[e] = q
      /\ events[e].by = None /\ events[e] \in EventRow /\ amount \in Nat
      /\ req[q].op = "delete" => amount = 0
  BY <1>1, ReqTypes DEF Editing, IInv, RowsOK, TypeOK, ReqState
<1>3. /\ d = Signed(events[e].kind, amount - events[e].amount) /\ d \in Int
      /\ d # 0 => poolLock[p] = q /\ req[q].bal = total[p] + d
  BY <1>1, <1>2, DeltaType DEF Balanced, Delta
<1>4. /\ \A x \in Pools : x # p => ledger'[x] = ledger[x] /\ total'[x] = total[x]
      /\ ledger'[p] = ledger[p] + d /\ total'[p] = IF d = 0 THEN total[p] ELSE req[q].bal
  BY <1>2 DEF CommitEdit, IInv, TypeOK
<1>5. req'[q].pc = "idle" /\ \A x \in Requests : x # q => req'[x] = req[x]
  BY DEF CommitEdit, IInv, TypeOK, IdleReq
<1>6. /\ \A f \in Events : f # e => events'[f] = events[f] /\ net'[f] = net[f]
      /\ net'[e] = net[e] + d /\ events'[e].by = None
      /\ \/ req[q].op = "delete" /\ events'[e].state = "gone"
         \/ /\ events'[e].state = "live" /\ events'[e].pool = p
            /\ events'[e].rule = events[e].rule /\ events'[e].period = events[e].period
            /\ events'[e].kind = events[e].kind /\ events'[e].amount = amount
  BY <1>2 DEF CommitEdit, IInv, TypeOK, BlankEvent, EventRow
<1> HIDE DEF e, p, d, amount
<1>7. ReqGood(q)'
  <2>1. \A f \in Events : events[f].by # q
    BY <1>1, SessionAssumption DEF ReqGood
  <2> QED BY <1>1, <1>2, <1>5, <1>6, <2>1, SessionAssumption DEF ReqGood
<1>8. ASSUME NEW v \in Sessions, v # q
      PROVE  Undisturbed(v)
  <2>1. v # None
    BY SessionAssumption, <1>8
  <2> QED BY <1>1, <1>2, <1>3, <1>4, <1>6, <1>8, <2>1, ReleaseFacts DEF Undisturbed, IInv
<1>9. Others(q)
  BY <1>1, <1>5, <1>8, OthersFrame, Distinct
<1>10. TickOK' /\ ReqOK'
  BY <1>7, <1>9, Distinct DEF Others, TickOK, ReqOK
<1>11. RowsOK'
  BY <1>2, <1>6 DEF RowsOK, IInv
<1>12. UniqueIndex'
  BY <1>2, <1>6 DEF UniqueIndex, IInv
<1>13. PoolMatchesLedger'
  BY <1>2, <1>3, <1>4 DEF PoolMatchesLedger, IInv, TypeOK
<1>14. EventMatchesLedger'
  <2>1. net[e] = Signed(events[e].kind, events[e].amount)
    BY <1>2 DEF EventMatchesLedger, IInv
  <2>2. net[e] + d = Signed(events[e].kind, amount)
    BY <1>2, <1>3, <2>1 DEF Signed, EventRow
  <2>3. Signed(events[e].kind, 0) = 0
    BY DEF Signed
  <2>4. net'[e] = IF events'[e].state \in {"new", "live"}
                  THEN Signed(events'[e].kind, events'[e].amount) ELSE 0
    BY <1>2, <1>6, <2>2, <2>3
  <2>5. \A f \in Events : f # e =>
          net'[f] = IF events'[f].state \in {"new", "live"}
                    THEN Signed(events'[f].kind, events'[f].amount) ELSE 0
    BY <1>6 DEF EventMatchesLedger, IInv
  <2> QED BY <2>4, <2>5 DEF EventMatchesLedger
<1> QED BY <1>10, <1>11, <1>12, <1>13, <1>14, CommitEditType DEF IInv

-----------------------------------------------------------------------------
(* The theorems. *)

LEMMA InitInv == Init => IInv
<1> SUFFICES ASSUME Init PROVE IInv
  OBVIOUS
<1>1. /\ BlankEvent("free").state = "free" /\ BlankEvent("free").by = None
      /\ IdleTick.pc = "idle" /\ IdleReq.pc = "idle"
  BY DEF BlankEvent, IdleTick, IdleReq
<1>2. TypeOK
  BY Constants, NumberAssumption DEF Init, TypeOK, Day
<1>3. RowsOK /\ UniqueIndex /\ EventMatchesLedger
  BY <1>1 DEF Init, RowsOK, UniqueIndex, EventMatchesLedger
<1>4. TickOK
  BY <1>1, Distinct DEF Init, TickOK, TickGood
<1>5. ReqOK
  BY <1>1, Distinct DEF Init, ReqOK, ReqGood
<1>6. PoolMatchesLedger
  BY DEF Init, PoolMatchesLedger
<1> QED BY <1>2, <1>3, <1>4, <1>5, <1>6 DEF IInv

LEMMA StutterInv == IInv /\ UNCHANGED vars => IInv'
<1> SUFFICES ASSUME IInv, UNCHANGED vars PROVE IInv'
  OBVIOUS
<1>1. UNCHANGED <<clock, rules, events, net, ledger, total, alerted, ruleLock, eventLock,
                  poolLock, advisory, tick, req, used, faults>>
  BY DEF vars, money, locks
<1>2. TickOK' /\ ReqOK'
  BY <1>1, QuietStep, TickFrame, ReqFrame DEF TickOK, ReqOK, Sessions
<1>3. TypeOK'
  BY <1>1 DEF IInv, TypeOK
<1>4. RowsOK' /\ UniqueIndex' /\ PoolMatchesLedger' /\ EventMatchesLedger'
  BY <1>1 DEF IInv, RowsOK, UniqueIndex, PoolMatchesLedger, EventMatchesLedger
<1> QED BY <1>2, <1>3, <1>4 DEF IInv

LEMMA TickStepInv ==
  ASSUME IInv, NEW w \in Ticks, TickStep(w) \/ Fault(w)
  PROVE  IInv'
<1>1. CASE LockRule(w)
  BY <1>1, LockRuleInv
<1>2. CASE SkipRule(w)
  BY <1>2, SkipRuleInv
<1>3. CASE PostPeriod(w)
  BY <1>3, PostPeriodInv
<1>4. CASE RepeatPeriod(w)
  BY <1>4, RepeatPeriodInv
<1>5. CASE CommitRule(w)
  BY <1>5, CommitRuleInv
<1>6. CASE FailZeroAmount(w)
  BY <1>6, FailRuleInv DEF FailZeroAmount, IInv, TypeOK
<1>7. CASE EndTick(w)
  BY <1>7, EndTickInv
<1>8. CASE FailTransient(w)
  <2>1. faults' \in Nat
    BY <1>8 DEF FailTransient, IInv, TypeOK
  <2> QED BY <1>8, <2>1, FailRuleInv DEF FailTransient
<1>9. CASE CrashTick(w)
  BY <1>9, CrashTickInv
<1>10. CASE LoseAdvisory(w)
  BY <1>10, LoseAdvisoryInv
<1> QED BY <1>1, <1>2, <1>3, <1>4, <1>5, <1>6, <1>7, <1>8, <1>9, <1>10
        DEF TickStep, Fault

LEMMA RequestInv ==
  ASSUME IInv, NEW q \in Requests, UserBegins(q) \/ RequestStep(q)
  PROVE  IInv'
<1>1. CASE CreateRule(q)
  BY <1>1, CreateRuleInv
<1>2. CASE OpenRule(q)
  BY <1>2, OpenRuleInv
<1>3. CASE UpdateRule(q) \/ DeleteRule(q)
  BY <1>3, UpdateRuleInv
<1>4. CASE CreateEvent(q)
  BY <1>4, CreateEventInv
<1>5. CASE OpenEvent(q)
  BY <1>5, OpenEventInv
<1>6. CASE AdjustBalance(q)
  BY <1>6, AdjustBalanceInv
<1>7. CASE CommitNewEvent(q)
  BY <1>7, CommitNewEventInv
<1>8. CASE CommitEdit(q)
  BY <1>8, CommitEditInv
<1>9. CASE AbortRequest(q)
  BY <1>9, AbortRequestInv
<1> QED BY <1>1, <1>2, <1>3, <1>4, <1>5, <1>6, <1>7, <1>8, <1>9
        DEF UserBegins, RequestStep

LEMMA NextInv == IInv /\ [Next]_vars => IInv'
BY StutterInv, AdvanceInv, StartTickInv, TickStepInv, RequestInv DEF Next

\* IInv holds in every reachable state: the sessions' unwritten promises
\* (TickOK, ReqOK) are kept by the locks that create, update, post and commit
\* take.
THEOREM Invariance == Spec => []IInv
<1>1. Init => IInv
  BY InitInv
<1>2. IInv /\ [Next]_vars => IInv'
  BY NextInv
<1> QED BY <1>1, <1>2, PTL DEF Spec

\* Every variable always holds a value of its kind; in particular next_run_at
\* stays a date and a rule's status stays one of the four the code knows,
\* whatever a tick or an edit writes.
THEOREM TypeCorrect == Spec => []TypeOK
<1>1. IInv => TypeOK
  BY DEF IInv
<1> QED BY <1>1, Invariance, PTL

\* No update of a cached pool total is lost: total_savings equals the sum of the
\* pool's committed ledger rows for any number of pools, ticks and requests.
THEOREM PoolCorrect == Spec => []PoolMatchesLedger
<1>1. IInv => PoolMatchesLedger
  BY DEF IInv
<1> QED BY <1>1, Invariance, PTL

\* The ledger rows an event caused always add up to what the event says, through
\* concurrent edits and deletes of it.
THEOREM EventCorrect == Spec => []EventMatchesLedger
<1>1. IInv => EventMatchesLedger
  BY DEF IInv
<1> QED BY <1>1, Invariance, PTL

\* A rule never has two events for one period, for any number of overlapping
\* ticks, forced or not, and any edits that move the rule back.
THEOREM OneEventCorrect == Spec => []OneEventPerPeriod
<1>1. IInv => OneEventPerPeriod
  BY DEF IInv, UniqueIndex, OneEventPerPeriod
<1> QED BY <1>1, Invariance, PTL

\* A row that is not committed yet changes in two ways only: it disappears, or
\* the commit of the rule's run or of the request that inserted it shows it.
LEMMA NewRowStep ==
  ASSUME IInv, [Next]_vars, NEW e \in Events,
         events[e].state = "new", events'[e] # events[e]
  PROVE  \/ events'[e].state = "free"
         \/ \E w \in Ticks : CommitRule(w) /\ events[e].by = w
         \/ \E q \in Requests : CommitNewEvent(q) /\ events[e].by = q
<1> SUFFICES ASSUME events'[e].state # "free"
             PROVE  \/ \E w \in Ticks : CommitRule(w) /\ events[e].by = w
                    \/ \E q \in Requests : CommitNewEvent(q) /\ events[e].by = q
  OBVIOUS
<1>2. events' # events
  OBVIOUS
<1>3. ASSUME NEW s, Rollback(s)
      PROVE  FALSE
  BY <1>3 DEF Rollback, BlankEvent
<1>4. ASSUME NEW s \in Sessions, NEW f \in Events, Fresh(f), NEW x,
             events' = [events EXCEPT ![f] = x]
      PROVE  FALSE
  <2>1. f # e
    BY <1>4 DEF Fresh
  <2> QED BY <1>4, <2>1 DEF IInv, TypeOK
<1>5. ASSUME NEW v, events' = Publish(v)
      PROVE  events[e].by = v
  BY <1>5 DEF Publish
<1>7. ASSUME NEW q \in Requests, CommitEdit(q)
      PROVE  FALSE
  <2>1. req[q].event \in Events /\ events[req[q].event].state = "live"
    BY <1>7 DEF IInv, ReqOK, ReqGood, Editing, CommitEdit
  <2> QED BY <1>7, <2>1 DEF CommitEdit, IInv, TypeOK
<1>8. CASE \E w \in Ticks : TickStep(w) \/ Fault(w)
  <2> PICK w \in Ticks : TickStep(w) \/ Fault(w)
    BY <1>8
  <2>1. CASE PostPeriod(w)
    BY <1>4, <2>1, TickTypes DEF PostPeriod, IInv
  <2>2. CASE CommitRule(w)
    BY <1>5, <2>2 DEF CommitRule
  <2>3. CASE FailZeroAmount(w) \/ FailTransient(w) \/ CrashTick(w)
    BY <1>3, <2>3 DEF FailZeroAmount, FailTransient, FailRule, CrashTick
  <2>4. CASE LockRule(w) \/ SkipRule(w) \/ RepeatPeriod(w) \/ EndTick(w) \/ LoseAdvisory(w)
    BY <1>2, <2>4 DEF LockRule, SkipRule, RepeatPeriod, EndTick, LoseAdvisory
  <2> QED BY <2>1, <2>2, <2>3, <2>4 DEF TickStep, Fault
<1>9. CASE \E q \in Requests : UserBegins(q) \/ RequestStep(q)
  <2> PICK q \in Requests : UserBegins(q) \/ RequestStep(q)
    BY <1>9
  <2>1. CASE CreateEvent(q)
    BY <1>4, <2>1, ReqTypes DEF CreateEvent, IInv
  <2>2. CASE CommitNewEvent(q)
    BY <1>5, <2>2 DEF CommitNewEvent
  <2>3. CASE CommitEdit(q)
    BY <1>7, <2>3
  <2>4. CASE AbortRequest(q)
    BY <1>3, <2>4 DEF AbortRequest
  <2>5. CASE \/ CreateRule(q) \/ OpenRule(q) \/ OpenEvent(q) \/ UpdateRule(q)
             \/ DeleteRule(q) \/ AdjustBalance(q)
    BY <1>2, <2>5 DEF CreateRule, OpenRule, OpenEvent, UpdateRule, DeleteRule, AdjustBalance
  <2> QED BY <2>1, <2>2, <2>3, <2>4, <2>5 DEF UserBegins, RequestStep
<1>10. CASE Advance \/ \E w \in Ticks, force \in Forcing : StartTick(w, force)
  BY <1>2, <1>10 DEF Advance, StartTick
<1>11. CASE UNCHANGED vars
  BY <1>2, <1>11 DEF vars
<1> QED BY <1>8, <1>9, <1>10, <1>11 DEF Next

\* Only two actions make rows visible: the commit of a rule's run, and the
\* commit of an event a user entered, which belongs to no rule.
LEMMA AppearingStep ==
  ASSUME IInv, [Next]_vars, NEW e \in Appearing
  PROVE  \/ \E w \in Ticks : CommitRule(w) /\ events[e].by = w
         \/ /\ events[e].rule = None
            /\ \E q \in Requests : CommitNewEvent(q) /\ events[e].by = q
<1>1. /\ e \in Events /\ events[e].state = "new" /\ events'[e].state = "live"
      /\ events'[e] # events[e]
  BY DEF Appearing
<1>2. ASSUME NEW q \in Requests, CommitNewEvent(q), events[e].by = q
      PROVE  events[e].rule = None
  BY <1>1, <1>2 DEF IInv, ReqOK, ReqGood, Creating, CommitNewEvent
<1> QED BY <1>1, <1>2, NewRowStep

\* A rule that was paused or deleted before a posting becomes visible keeps that
\* posting from becoming visible: the tick holds the rule's row from the time it
\* reads it as ACTIVE until it commits.
THEOREM StopCorrect == Spec => NoPostAfterStop
<1>1. ASSUME IInv, [Next]_vars
      PROVE  \A e \in Appearing :
               events[e].rule # None => rules[events[e].rule].status = "ACTIVE"
  <2> SUFFICES ASSUME NEW e \in Appearing, events[e].rule # None
               PROVE  rules[events[e].rule].status = "ACTIVE"
    OBVIOUS
  <2>1. PICK w \in Ticks : CommitRule(w) /\ events[e].by = w
    BY <1>1, AppearingStep
  <2>2. TickGood(w) /\ tick[w].pc = "run" /\ e \in Events
    BY <1>1, <2>1 DEF IInv, TickOK, CommitRule, Appearing
  <2> QED BY <2>1, <2>2 DEF TickGood
<1>2. IInv /\ [Next]_vars =>
        [\A e \in Appearing :
           events[e].rule # None => rules[events[e].rule].status = "ACTIVE"]_vars
  BY <1>1
<1> QED BY <1>2, Invariance, PTL DEF Spec, NoPostAfterStop

-----------------------------------------------------------------------------
(* What a run of a rule has done so far.                                   *)
(*                                                                         *)
(* OnlyDuePosted, RunsStopAtLimit and OverdraftIsReported speak of all the *)
(* periods that a run posted: a second invariant follows its loop.         *)

\* The rows that tick w inserted and has not committed.
Posted(w) == {e \in Events : events[e].by = w}

\* A run counts what it posted and stops when the limit is reached.
RunsCounted(w) ==
  LET t == tick[w]
      limit == rules[t.rule].max_runs IN
  /\ t.row.max_runs = limit
  /\ IsFiniteSet(Posted(w))
  /\ t.row.run_count = rules[t.rule].run_count + Cardinality(Posted(w))
  /\ limit # None /\ Posted(w) # {} /\ t.row.run_count >= limit => t.row.status = "COMPLETED"
  /\ limit # None /\ Cardinality(Posted(w)) > 1 => t.row.run_count <= limit

\* The periods it posted are behind it; one that was not due was its first step.
Ordered(w) ==
  LET t == tick[w] IN
  /\ \A e \in Posted(w) : /\ events[e].period < t.row.next_run_at
                          /\ events[e].kind = KindOf[t.rule] /\ events[e].pool = PoolOf[t.rule]
  /\ \/ AheadOf(w) = {}
     \/ /\ t.force /\ t.steps > 0 /\ t.row.next_run_at > t.now
        /\ \E e \in Events : AheadOf(w) = {e}

\* The balance it will leave is the one its last posting saw.
Flagged(w) ==
  LET t == tick[w] IN
  \A e \in Posted(w) :
    /\ \A f \in Posted(w) : events[f].period <= events[e].period
    => /\ poolLock[PoolOf[t.rule]] = w
       /\ KindOf[t.rule] = "EXPENSE" =>
            /\ events[e].over = (t.bal < 0)
            /\ t.bal < 0 => t.over = e

\* What it adds to the pool is the sum of its postings.
Summed(w) == tick[w].delta = SumOf(net, Posted(w))

RunGood(w) ==
  tick[w].pc = "run" => RunsCounted(w) /\ Ordered(w) /\ Flagged(w) /\ Summed(w)

\* An expense that a user enters is flagged by the balance its commit will leave.
CreateGood(q) ==
  LET e == events[req[q].event] IN
  req[q].pc = "pool" /\ req[q].op = "create" =>
    e.over = (e.kind = "EXPENSE" /\ req[q].bal < 0)

RInv ==
  /\ IInv
  /\ \A w \in Ticks : RunGood(w)
  /\ \A q \in Requests : CreateGood(q)

\* What RunGood says of w rests on its session, its rule and its rows.
Kept(w) ==
  /\ tick'[w] = tick[w]
  /\ tick[w].pc = "run" => rules'[tick[w].rule] = rules[tick[w].rule]
  /\ \A e \in Events :
       /\ events[e].by = w => events'[e] = events[e] /\ net'[e] = net[e]
       /\ events'[e].by = w => events[e].by = w
  /\ \A p \in Pools : poolLock[p] = w => poolLock'[p] = w

\* A step of another session s leaves them alone.
LEMMA KeptByOthers ==
  ASSUME IInv, NEW w \in Ticks, NEW s \in Sessions \cup {None}, s # w, tick'[w] = tick[w],
         \/ rules' = rules
         \/ \E r \in Rules : /\ ruleLock[r] = s \/ rules[r].status = "ABSENT"
                             /\ \A x \in Rules : x # r => rules'[x] = rules[x],
         \A e \in Events :
           \/ events'[e] = events[e] /\ net'[e] = net[e]
           \/ events[e].by # w /\ events'[e].by # w,
         \A p \in Pools : poolLock[p] = w => poolLock'[p] = w
  PROVE  Kept(w)
<1>1. tick[w].pc = "run" => /\ tick[w].rule \in Rules /\ ruleLock[tick[w].rule] = w
                            /\ rules[tick[w].rule].status = "ACTIVE"
  BY DEF IInv, TickOK, TickGood
<1> QED BY <1>1 DEF Kept

\* Posts and Enters: what an insert leaves behind, field by field.
Posts(w, e) ==
  LET t == tick[w]
      u == tick'[w]
      r == t.rule
      p == PoolOf[r]
      row == events'[e] IN
  /\ events[e].by = None /\ events[e].state = "free" /\ row.state = "new"
  /\ row.by = w /\ row.period = t.row.next_run_at /\ row.kind = KindOf[r] /\ row.pool = p
  /\ net'[e] = Signed(KindOf[r], t.row.amount)
  /\ row.over = (KindOf[r] = "EXPENSE" /\ u.bal < 0)
  /\ \A f \in Events : f # e => events'[f] = events[f] /\ net'[f] = net[f]
  /\ u.pc = "run" /\ u.rule = r /\ u.now = t.now /\ u.force = t.force
  /\ u.row = Stepped(t.row, 1) /\ u.steps = t.steps + 1
  /\ u.delta = t.delta + Signed(KindOf[r], t.row.amount)
  /\ u.over = IF row.over THEN e ELSE t.over
  /\ \A f \in Ticks : f # w => tick'[f] = tick[f]
  /\ \A q \in Pools : poolLock'[q] = IF q = p THEN w ELSE poolLock[q]

LEMMA PostFacts ==
  ASSUME IInv, NEW w \in Ticks, PostPeriod(w)
  PROVE  \E e \in Events : Posts(w, e)
<1> DEFINE t == tick[w]
           r == t.rule
           p == PoolOf[r]
           amount == t.row.amount
           signed == Signed(KindOf[r], amount)
           after == (IF poolLock[p] = w THEN t.bal ELSE total[p]) + signed
           over == KindOf[r] = "EXPENSE" /\ after < 0
           period == t.row.next_run_at
           kind == KindOf[r]
           row == Stepped(t.row, 1)
           delta == t.delta + signed
           steps == t.steps + 1
<1>1. PICK e \in Events :
        /\ Fresh(e)
        /\ events' = [events EXCEPT ![e] = NewEvent(w, r, period, p, kind, amount, after)]
        /\ net' = [net EXCEPT ![e] = signed]
        /\ tick' = [tick EXCEPT ![w] =
             [t EXCEPT !.row = row, !.steps = steps, !.bal = after,
                       !.delta = delta, !.over = IF over THEN e ELSE t.over]]
        /\ poolLock' = [poolLock EXCEPT ![p] = w]
  BY DEF PostPeriod
<1>2. /\ t \in TickState /\ t.pc = "run"
      /\ tick \in [Ticks -> TickState] /\ poolLock \in [Pools -> Sessions \cup {None}]
      /\ events \in [Events -> EventRow] /\ net \in [Events -> Int]
  BY DEF PostPeriod, IInv, TypeOK
<1>3. events[e].by = None /\ events[e].state = "free"
  BY <1>1 DEF IInv, RowsOK, Fresh
<1>4. over = (kind = "EXPENSE" /\ after < 0)
  OBVIOUS
<1>5. delta = t.delta + Signed(kind, amount) /\ signed = Signed(kind, amount)
  OBVIOUS
<1> HIDE DEF after, period, kind, amount, p, row, signed, delta, steps, over
<1>6. PICK x : x = NewEvent(w, r, period, p, kind, amount, after)
  OBVIOUS
<1>7. /\ x.state = "new" /\ x.by = w /\ x.period = period /\ x.kind = kind /\ x.pool = p
      /\ x.over = (kind = "EXPENSE" /\ after < 0)
  BY <1>6 DEF NewEvent
<1>8. PICK u : u = [t EXCEPT !.row = row, !.steps = steps, !.bal = after,
                       !.delta = delta, !.over = IF over THEN e ELSE t.over]
  OBVIOUS
<1>9. /\ u.pc = "run" /\ u.rule = r /\ u.now = t.now /\ u.force = t.force /\ u.bal = after
      /\ u.row = row /\ u.steps = steps /\ u.delta = delta
      /\ u.over = IF over THEN e ELSE t.over
  BY <1>2, <1>8 DEF TickState
<1>10. /\ events'[e] = x /\ net'[e] = signed
       /\ \A f \in Events : f # e => events'[f] = events[f] /\ net'[f] = net[f]
  BY <1>1, <1>2, <1>6
<1>11. tick'[w] = u /\ \A f \in Ticks : f # w => tick'[f] = tick[f]
  BY <1>1, <1>2, <1>8
<1>12. \A q \in Pools : poolLock'[q] = IF q = p THEN w ELSE poolLock[q]
  BY <1>1, <1>2
<1>13. Posts(w, e)
  BY <1>3, <1>4, <1>5, <1>7, <1>9, <1>10, <1>11, <1>12
     DEF Posts, period, kind, amount, p, row, steps
<1> QED BY <1>13

Enters(q, e) ==
  LET row == events'[e]
      u == req'[q] IN
  /\ events[e].by = None /\ events[e].state = "free" /\ row.state = "new"
  /\ row.by = q
  /\ row.over = (row.kind = "EXPENSE" /\ u.bal < 0)
  /\ \A f \in Events : f # e => events'[f] = events[f] /\ net'[f] = net[f]
  /\ u.event = e

LEMMA EnterFacts ==
  ASSUME IInv, NEW q \in Requests, CreateEvent(q)
  PROVE  \E e \in Events : Enters(q, e)
<1>1. PICK e \in Events, p \in Pools, k \in Kinds, a \in Amounts \ {0} :
       /\ Fresh(e)
       /\ PoolFree(p, q)
       /\ poolLock' = [poolLock EXCEPT ![p] = q]
       /\ events' = [events EXCEPT ![e] =
            NewEvent(q, None, 0, p, k, a, total[p] + Signed(k, a))]
       /\ net' = [net EXCEPT ![e] = Signed(k, a)]
       /\ req' = [req EXCEPT ![q] =
            [IdleReq EXCEPT !.pc = "pool", !.op = "create", !.event = e, !.amount = a,
                            !.bal = total[p] + Signed(k, a)]]
  BY DEF CreateEvent
<1> DEFINE after == total[p] + Signed(k, a)
<1>2. /\ req \in [Requests -> ReqState]
      /\ events \in [Events -> EventRow] /\ net \in [Events -> Int]
  BY DEF IInv, TypeOK
<1>3. events[e].by = None /\ events[e].state = "free"
  BY <1>1 DEF IInv, RowsOK, Fresh
<1>4. PICK x : x = NewEvent(q, None, 0, p, k, a, after)
  OBVIOUS
<1>5. PICK u : u = [IdleReq EXCEPT !.pc = "pool", !.op = "create", !.event = e, !.amount = a,
                                   !.bal = after]
  OBVIOUS
<1>6. /\ events'[e] = x /\ req'[q] = u
      /\ \A f \in Events : f # e => events'[f] = events[f] /\ net'[f] = net[f]
  BY <1>1, <1>2, <1>4, <1>5
<1> HIDE DEF after
<1>7. x.state = "new" /\ x.by = q /\ x.kind = k /\ x.over = (k = "EXPENSE" /\ after < 0)
  BY <1>4 DEF NewEvent
<1>8. u.event = e /\ u.bal = after
  BY <1>5 DEF IdleReq
<1> QED BY <1>3, <1>6, <1>7, <1>8 DEF Enters

\* A step of w that ends its run or does not begin one asks nothing of RunGood.
NotRunning(w) == tick'[w].pc # "run"

LEMMA TickKept ==
  ASSUME IInv, NEW w \in Ticks, NEW v \in Ticks, TickStep(v) \/ Fault(v)
  PROVE  \/ Kept(w) \/ NotRunning(w)
         \/ v = w /\ (LockRule(w) \/ PostPeriod(w) \/ RepeatPeriod(w))
<1>0. /\ v \in Sessions /\ w \in Sessions /\ None \notin Sessions
      /\ tick[v] \in TickState /\ tick[w] \in TickState
  BY TickTypes, SessionAssumption DEF IInv
<1>1. CASE LockRule(v)
  <2>1. CASE v # w
    BY <1>0, <1>1, <2>1, KeptByOthers DEF LockRule, IInv, TypeOK, money
  <2> QED BY <1>1, <2>1
<1>2. CASE SkipRule(v)
  <2>1. CASE v # w
    BY <1>0, <1>2, <2>1, KeptByOthers DEF SkipRule, IInv, TypeOK, money, locks
  <2>2. CASE v = w
    BY <1>0, <1>2, <2>2 DEF SkipRule, NotRunning, IInv, TypeOK, TickState
  <2> QED BY <2>1, <2>2
<1>3. CASE PostPeriod(v)
  <2>1. CASE v # w
    <3>1. PICK e \in Events : Posts(v, e)
      BY <1>3, PostFacts
    <3>2. /\ events[e].by = None /\ events'[e].by = v
          /\ \A f \in Events : f # e => events'[f] = events[f] /\ net'[f] = net[f]
      BY <3>1 DEF Posts
    <3>3. \A f \in Events :
           \/ events'[f] = events[f] /\ net'[f] = net[f]
           \/ events[f].by # w /\ events'[f].by # w
      BY <1>0, <2>1, <3>2
    <3>4. tick'[w] = tick[w] /\ rules' = rules
      BY <1>3, <2>1 DEF PostPeriod, IInv, TypeOK
    <3>5. \A p \in Pools : poolLock[p] = w => poolLock'[p] = w
      BY <1>0, <1>3, <2>1 DEF PostPeriod, PoolFree, IInv, TypeOK
    <3> QED BY <1>0, <2>1, <3>3, <3>4, <3>5, KeptByOthers
  <2> QED BY <1>3, <2>1
<1>4. CASE RepeatPeriod(v)
  <2>1. CASE v # w
    BY <1>0, <1>4, <2>1, KeptByOthers DEF RepeatPeriod, IInv, TypeOK, money, locks
  <2> QED BY <1>4, <2>1
<1>5. CASE CommitRule(v)
  <2>1. CASE v # w
    <3>1. /\ Release(v) /\ events' = Publish(v) /\ net' = net
          /\ rules' = [rules EXCEPT ![tick[v].rule] = LoopExit(tick[v])]
      BY <1>5 DEF CommitRule
    <3>2. tick[v].rule \in Rules /\ ruleLock[tick[v].rule] = v
      BY <1>5 DEF CommitRule, IInv, TickOK, TickGood
    <3>3. \A e \in Events :
           \/ events'[e] = events[e] /\ net'[e] = net[e]
           \/ events[e].by # w /\ events'[e].by # w
      BY <1>0, <2>1, <3>1, PublishFacts
    <3>4. \A x \in Rules : x # tick[v].rule => rules'[x] = rules[x]
      BY <3>1 DEF IInv, TypeOK
    <3>5. \A p \in Pools : poolLock[p] = w => poolLock'[p] = w
      BY <1>0, <2>1, <3>1, ReleaseFacts DEF IInv
    <3>6. tick'[w] = tick[w]
      BY <1>5, <2>1 DEF CommitRule, IInv, TypeOK
    <3> QED BY <1>0, <2>1, <3>2, <3>3, <3>4, <3>5, <3>6, KeptByOthers
  <2>2. CASE v = w
    BY <1>5, <2>2 DEF CommitRule, NotRunning, BackToScan, IdleTick, IInv, TypeOK
  <2> QED BY <2>1, <2>2
<1>6. CASE EndTick(v)
  <2>1. CASE v # w
    BY <1>0, <1>6, <2>1, KeptByOthers DEF EndTick, IInv, TypeOK, money, locks
  <2>2. CASE v = w
    BY <1>6, <2>2 DEF EndTick, NotRunning, IdleTick, IInv, TypeOK
  <2> QED BY <2>1, <2>2
<1>7. CASE LoseAdvisory(v)
  BY <1>0, <1>7, KeptByOthers DEF LoseAdvisory, money, locks
<1>8. CASE FailRule(v) \/ CrashTick(v)
  <2>1. CASE v # w
    <3>1. Rollback(v) /\ tick'[w] = tick[w] /\ rules' = rules
      BY <1>8, <2>1 DEF FailRule, CrashTick, IInv, TypeOK
    <3>2. \A e \in Events :
           \/ events'[e] = events[e] /\ net'[e] = net[e]
           \/ events[e].by # w /\ events'[e].by # w
      BY <1>0, <2>1, <3>1, RollbackFacts DEF BlankEvent
    <3>3. \A p \in Pools : poolLock[p] = w => poolLock'[p] = w
      BY <1>0, <2>1, <3>1, ReleaseFacts DEF IInv, Rollback
    <3> QED BY <1>0, <2>1, <3>1, <3>2, <3>3, KeptByOthers
  <2>2. CASE v = w
    <3>1. CASE FailRule(v)
      BY <2>2, <3>1 DEF FailRule, BackToScan, NotRunning, IdleTick, IInv, TypeOK
    <3>2. CASE CrashTick(v)
      BY <2>2, <3>2 DEF CrashTick, NotRunning, IdleTick, IInv, TypeOK
    <3> QED BY <1>8, <3>1, <3>2
  <2> QED BY <2>1, <2>2
<1> QED BY <1>1, <1>2, <1>3, <1>4, <1>5, <1>6, <1>7, <1>8
        DEF TickStep, Fault, FailZeroAmount, FailTransient

LEMMA RequestKept ==
  ASSUME IInv, NEW w \in Ticks, NEW q \in Requests, UserBegins(q) \/ RequestStep(q)
  PROVE  Kept(w)
<1>0. /\ q \in Sessions /\ w \in Sessions /\ None \notin Sessions /\ q # w
  BY Distinct, SessionAssumption DEF Sessions
<1>1. tick' = tick
  BY DEF UserBegins, RequestStep, CreateRule, OpenRule, CreateEvent, OpenEvent, UpdateRule,
     DeleteRule, AdjustBalance, CommitNewEvent, CommitEdit, AbortRequest
<1>2. CASE CreateRule(q)
  <2>1. PICK r, row : r \in Rules /\ rules[r].status = "ABSENT" /\ rules' = [rules EXCEPT ![r] = row]
    BY <1>2 DEF CreateRule
  <2>2. \A x \in Rules : x # r => rules'[x] = rules[x]
    BY <2>1 DEF IInv, TypeOK
  <2> QED BY <1>0, <1>1, <1>2, <2>1, <2>2, KeptByOthers DEF CreateRule, money, locks
<1>3. CASE OpenRule(q) \/ OpenEvent(q)
  BY <1>0, <1>1, <1>3, KeptByOthers DEF OpenRule, OpenEvent, money
<1>4. CASE AdjustBalance(q)
  <2>1. \A p \in Pools : poolLock[p] = w => poolLock'[p] = w
    BY <1>0, <1>4 DEF AdjustBalance, PoolFree, IInv, TypeOK
  <2> QED BY <1>0, <1>1, <1>4, <2>1, KeptByOthers DEF AdjustBalance, money
<1>5. CASE UpdateRule(q) \/ DeleteRule(q)
  <2>1. /\ Release(q) /\ req[q].rule \in Rules /\ ruleLock[req[q].rule] = q
        /\ events' = events /\ net' = net
    BY <1>5 DEF UpdateRule, DeleteRule, IInv, ReqOK, ReqGood, money
  <2>2. \A x \in Rules : x # req[q].rule => rules'[x] = rules[x]
    BY <1>5 DEF UpdateRule, DeleteRule, IInv, TypeOK
  <2>3. \A p \in Pools : poolLock[p] = w => poolLock'[p] = w
    BY <1>0, <2>1, ReleaseFacts DEF IInv
  <2> QED BY <1>0, <1>1, <2>1, <2>2, <2>3, KeptByOthers
<1>6. CASE CreateEvent(q)
  <2>1. PICK e \in Events : Enters(q, e)
    BY <1>6, EnterFacts
  <2>2. /\ events[e].by = None /\ events'[e].by = q
        /\ \A f \in Events : f # e => events'[f] = events[f] /\ net'[f] = net[f]
    BY <2>1 DEF Enters
  <2>3. \A f \in Events :
         \/ events'[f] = events[f] /\ net'[f] = net[f]
         \/ events[f].by # w /\ events'[f].by # w
    BY <1>0, <2>2
  <2>4. rules' = rules
    BY <1>6 DEF CreateEvent
  <2>5. \A p \in Pools : poolLock[p] = w => poolLock'[p] = w
    BY <1>0, <1>6 DEF CreateEvent, PoolFree, IInv, TypeOK
  <2> QED BY <1>0, <1>1, <2>3, <2>4, <2>5, KeptByOthers
<1>7. CASE CommitNewEvent(q)
  <2>1. Release(q) /\ events' = Publish(q) /\ net' = net /\ rules' = rules
    BY <1>7 DEF CommitNewEvent
  <2>2. \A e \in Events :
         \/ events'[e] = events[e] /\ net'[e] = net[e]
         \/ events[e].by # w /\ events'[e].by # w
    BY <1>0, <2>1, PublishFacts
  <2>3. \A p \in Pools : poolLock[p] = w => poolLock'[p] = w
    BY <1>0, <2>1, ReleaseFacts DEF IInv
  <2> QED BY <1>0, <1>1, <2>1, <2>2, <2>3, KeptByOthers
<1>8. CASE CommitEdit(q)
  <2>1. Release(q) /\ rules' = rules
    BY <1>8 DEF CommitEdit
  <2>2. PICK e \in Events : e = req[q].event /\ events[e].state = "live" /\ events[e].by = None
    BY <1>8 DEF CommitEdit, IInv, ReqOK, ReqGood, Editing, RowsOK
  <2>3. \A f \in Events \ {e} : events'[f] = events[f] /\ net'[f] = net[f]
    BY <1>8, <2>2 DEF CommitEdit, IInv, TypeOK
  <2>4. events'[e].by = None
    <3>1. events[e] \in EventRow /\ events \in [Events -> EventRow]
      BY <2>2 DEF IInv, TypeOK
    <3> QED BY <1>8, <2>2, <3>1 DEF CommitEdit, BlankEvent, EventRow
  <2>5. \A p \in Pools : poolLock[p] = w => poolLock'[p] = w
    BY <1>0, <2>1, ReleaseFacts DEF IInv
  <2> QED BY <1>0, <1>1, <2>1, <2>2, <2>3, <2>4, <2>5, KeptByOthers
<1>9. CASE AbortRequest(q)
  <2>1. Rollback(q) /\ rules' = rules
    BY <1>9 DEF AbortRequest
  <2>2. \A e \in Events :
         \/ events'[e] = events[e] /\ net'[e] = net[e]
         \/ events[e].by # w /\ events'[e].by # w
    BY <1>0, <2>1, RollbackFacts DEF BlankEvent
  <2>3. \A p \in Pools : poolLock[p] = w => poolLock'[p] = w
    BY <1>0, <2>1, ReleaseFacts DEF IInv, Rollback
  <2> QED BY <1>0, <1>1, <2>1, <2>2, <2>3, KeptByOthers
<1> QED BY <1>2, <1>3, <1>4, <1>5, <1>6, <1>7, <1>8, <1>9 DEF UserBegins, RequestStep

LEMMA KeptGood ==
  ASSUME IInv, TypeOK', NEW w \in Ticks, Kept(w), RunGood(w)
  PROVE  RunGood(w)'
<1> SUFFICES ASSUME tick[w].pc = "run"
             PROVE  (RunsCounted(w) /\ Ordered(w) /\ Flagged(w) /\ Summed(w))'
  BY DEF RunGood, Kept
<1>1. /\ TickGood(w) /\ tick[w].rule \in Rules /\ PoolOf[tick[w].rule] \in Pools
      /\ RunsCounted(w) /\ Ordered(w) /\ Flagged(w) /\ Summed(w)
  BY RulesAssumption DEF IInv, TickOK, TickGood, RunGood
<1>2. /\ Posted(w)' = Posted(w) /\ AheadOf(w)' = AheadOf(w)
      /\ \A e \in Posted(w) : events'[e] = events[e] /\ net'[e] = net[e]
      /\ tick'[w] = tick[w] /\ rules'[tick[w].rule] = rules[tick[w].rule]
      /\ poolLock[PoolOf[tick[w].rule]] = w => poolLock'[PoolOf[tick[w].rule]] = w
  BY <1>1 DEF Kept, Posted, AheadOf
<1>3. SumOf(net', Posted(w)) = SumOf(net, Posted(w))
  <2>1. IsFiniteSet(Posted(w)) /\ \A e \in Posted(w) : net'[e] = net[e]
    BY <1>1, <1>2 DEF RunsCounted
  <2> QED BY <2>1, SumSame
<1>4. RunsCounted(w)'
  BY <1>1, <1>2 DEF RunsCounted
<1>5. Ordered(w)'
  BY <1>1, <1>2 DEF Ordered
<1>6. Flagged(w)'
  BY <1>1, <1>2 DEF Flagged
<1>7. Summed(w)'
  BY <1>1, <1>2, <1>3 DEF Summed
<1> QED BY <1>4, <1>5, <1>6, <1>7

LEMMA LockRuleGood ==
  ASSUME IInv, NEW w \in Ticks, LockRule(w)
  PROVE  RunGood(w)'
<1>1. PICK item \in tick[w].todo :
        /\ rules[item[1]].status = "ACTIVE"
        /\ tick' = [tick EXCEPT ![w] = Enter(tick[w], item)]
  BY DEF LockRule, Takes
<1>2. events' = events /\ net' = net /\ rules' = rules /\ tick[w].pc = "scan"
  BY DEF LockRule, money
<1>3. \A e \in Events : events[e].by # w
  BY <1>2 DEF IInv, TickOK, TickGood
<1>4. PICK t : t = Enter(tick[w], item)
  OBVIOUS
<1>5. t.rule = item[1] /\ t.row = rules[item[1]] /\ t.steps = 0 /\ t.delta = 0
  BY <1>4 DEF Enter, IdleTick
<1>6. tick'[w] = t
  BY <1>1, <1>4 DEF IInv, TypeOK
<1>7. Posted(w)' = {} /\ AheadOf(w)' = {}
  BY <1>2, <1>3 DEF Posted, AheadOf
<1>8. item[1] \in Rules /\ rules[item[1]] \in RuleRow
  BY TickTypes DEF IInv, TypeOK, TickState
<1>9. RunsCounted(w)'
  BY <1>2, <1>5, <1>6, <1>7, <1>8, FS_EmptySet DEF RunsCounted, RuleRow
<1>10. Ordered(w)' /\ Flagged(w)'
  BY <1>7 DEF Ordered, Flagged
<1>11. Summed(w)'
  BY <1>2, <1>5, <1>6, <1>7, SumEmpty DEF Summed
<1> QED BY <1>9, <1>10, <1>11 DEF RunGood

\* What one iteration does to the row, field by field.
LEMMA SteppedFacts ==
  ASSUME NEW row \in RuleRow, NEW counted \in {0, 1}, NEW next, next = Stepped(row, counted)
  PROVE  /\ next.next_run_at = row.next_run_at + Step
         /\ next.next_run_at > row.next_run_at
         /\ next.run_count = row.run_count + counted
         /\ next.max_runs = row.max_runs
         /\ row.max_runs # None /\ next.run_count >= row.max_runs => next.status = "COMPLETED"
<1>1. Step \in Nat /\ Step > 0
  BY NumberAssumption
<1>2. row.next_run_at \in Nat
  BY DEF RuleRow, Day
<1>3. /\ next.next_run_at = row.next_run_at + Step
      /\ next.run_count = row.run_count + counted /\ next.max_runs = row.max_runs
  BY DEF Stepped, RuleRow
<1>4. row.max_runs # None /\ row.run_count + counted >= row.max_runs => next.status = "COMPLETED"
  BY DEF Stepped, RuleRow
<1> QED BY <1>1, <1>2, <1>3, <1>4

LEMMA PostPeriodGood ==
  ASSUME IInv, NEW w \in Ticks, PostPeriod(w), RunGood(w), IInv'
  PROVE  RunGood(w)'
<1> DEFINE t == tick[w]
           r == t.rule
           S == Posted(w)
           next == Stepped(t.row, 1)
<1>1. PICK e \in Events : Posts(w, e)
  BY PostFacts
<1>2. /\ t \in TickState /\ t.pc = "run" /\ InLoop(t) /\ rules' = rules
  BY TickTypes DEF PostPeriod, IInv
<1>3. /\ t.row \in RuleRow /\ t.now \in Nat /\ t.steps \in Nat /\ t.force \in BOOLEAN
      /\ t.row.next_run_at \in Nat
      /\ t.row.run_count \in Nat /\ (t.row.max_runs # None => t.row.max_runs \in Nat)
  BY <1>2 DEF TickState, RuleRow, Day
<1>4. /\ t.row.status = "ACTIVE" /\ IsDue(t)
  BY <1>2 DEF InLoop, LoopRuns
<1>5. RunsCounted(w) /\ Ordered(w) /\ Flagged(w) /\ Summed(w)
  BY <1>2 DEF RunGood
<1>6. r \in Rules /\ PoolOf[r] \in Pools
  BY <1>2, RulesAssumption DEF IInv, TickOK, TickGood
<1>7. /\ next.next_run_at = t.row.next_run_at + Step /\ next.next_run_at > t.row.next_run_at
      /\ next.run_count = t.row.run_count + 1
      /\ next.max_runs = t.row.max_runs
      /\ t.row.max_runs # None /\ next.run_count >= t.row.max_runs => next.status = "COMPLETED"
  BY <1>3, SteppedFacts
<1>8. /\ events[e].by = None /\ events'[e].by = w
      /\ \A f \in Events : f # e => events'[f] = events[f] /\ net'[f] = net[f]
      /\ tick'[w].rule = r /\ tick'[w].row = next
      /\ tick'[w].now = t.now /\ tick'[w].force = t.force /\ tick'[w].steps = t.steps + 1
  BY <1>1 DEF Posts
<1>9. w # None
  BY Distinct
<1>10. Posted(w)' = S \cup {e} /\ e \notin S
  BY <1>8, <1>9 DEF Posted
<1>11. IsFiniteSet(S) /\ Cardinality(S) \in Nat
  BY <1>5, FS_CardinalityType DEF RunsCounted
<1>12. IsFiniteSet(S \cup {e}) /\ Cardinality(S \cup {e}) = Cardinality(S) + 1
  BY <1>10, <1>11, FS_AddElement
<1>13. Cardinality(S) > 0 => S # {}
  BY <1>11, FS_EmptySet
<1> HIDE DEF S, next
<1>14. RunsCounted(w)'
  <2>1. /\ t.row.max_runs = rules[r].max_runs
        /\ t.row.run_count = rules[r].run_count + Cardinality(S)
        /\ rules[r].max_runs # None /\ S # {} => t.row.run_count < rules[r].max_runs
    <3>1. Posted(w) = S
      BY DEF S
    <3> QED BY <1>3, <1>4, <1>5, <3>1 DEF RunsCounted
  <2>2. rules[r].run_count \in Nat
    BY <1>6 DEF IInv, TypeOK, RuleRow
  <2>3. next.run_count = rules[r].run_count + Cardinality(S \cup {e})
    BY <1>7, <1>11, <1>12, <2>1, <2>2
  <2>4. rules[r].max_runs # None /\ Cardinality(S \cup {e}) > 1 => next.run_count <= rules[r].max_runs
    BY <1>3, <1>7, <1>11, <1>12, <1>13, <2>1
  <2> QED BY <1>2, <1>7, <1>8, <1>10, <1>12, <2>1, <2>3, <2>4 DEF RunsCounted
<1>15. /\ \A f \in Posted(w)' : /\ events'[f].period < next.next_run_at
                                /\ events'[f].kind = KindOf[r] /\ events'[f].pool = PoolOf[r]
  <2>1. \A f \in S : /\ events'[f].period < next.next_run_at
                     /\ events'[f].kind = KindOf[r] /\ events'[f].pool = PoolOf[r]
    <3> SUFFICES ASSUME NEW f \in S
                 PROVE  /\ events'[f].period < next.next_run_at
                        /\ events'[f].kind = KindOf[r] /\ events'[f].pool = PoolOf[r]
      OBVIOUS
    <3>1. f \in Events /\ events'[f] = events[f] /\ events[f].period \in Nat
      BY <1>8, <1>10 DEF S, Posted, IInv, TypeOK, EventRow, Day
    <3>2. /\ events[f].period < t.row.next_run_at
          /\ events[f].kind = KindOf[r] /\ events[f].pool = PoolOf[r]
      BY <1>5 DEF Ordered, S
    <3>3. next.next_run_at \in Nat
      BY <1>3, <1>7, NumberAssumption
    <3> QED BY <1>3, <1>7, <3>1, <3>2, <3>3
  <2>2. /\ events'[e].period < next.next_run_at
        /\ events'[e].kind = KindOf[r] /\ events'[e].pool = PoolOf[r]
    BY <1>1, <1>7 DEF Posts
  <2> QED BY <1>10, <2>1, <2>2
<1>16. \/ AheadOf(w)' = {}
       \/ /\ t.force /\ t.steps = 0 /\ next.next_run_at > t.now
          /\ AheadOf(w)' = {e}
  <2>1. \A f \in Events : f # e =>
          (events'[f].by = w /\ events'[f].period > t.now <=> f \in AheadOf(w))
    BY <1>8 DEF AheadOf
  <2>2. events'[e].period = t.row.next_run_at
    BY <1>1 DEF Posts
  <2>3. AheadOf(w) = {}
    BY <1>3, <1>4, <1>5 DEF Ordered, IsDue
  <2>4. CASE t.row.next_run_at > t.now
    <3>1. t.force /\ t.steps = 0
      BY <1>3, <1>4, <2>4 DEF IsDue
    <3>2. next.next_run_at > t.now
      BY <1>3, <1>7, <2>4, NumberAssumption
    <3> QED BY <1>8, <2>1, <2>2, <2>3, <2>4, <3>1, <3>2 DEF AheadOf
  <2>5. CASE ~(t.row.next_run_at > t.now)
    BY <1>8, <2>1, <2>2, <2>3, <2>5 DEF AheadOf
  <2> QED BY <2>4, <2>5
<1>17. Ordered(w)'
  BY <1>3, <1>8, <1>15, <1>16 DEF Ordered
<1>18. Flagged(w)'
  <2>1. ASSUME NEW f \in Posted(w)',
               \A g \in Posted(w)' : events'[g].period <= events'[f].period
        PROVE  f = e
    <3>1. SUFFICES ASSUME f \in S PROVE FALSE
      BY <1>10
    <3>2. f \in Events /\ events'[f] = events[f] /\ events[f].period \in Nat
      BY <1>8, <1>10, <3>1 DEF S, Posted, IInv, TypeOK, EventRow, Day
    <3>3. events[f].period < t.row.next_run_at
      BY <1>5, <3>1 DEF Ordered, S
    <3>4. events'[e].period = t.row.next_run_at
      BY <1>1 DEF Posts
    <3> QED BY <1>3, <1>10, <2>1, <3>2, <3>3, <3>4
  <2>2. /\ poolLock'[PoolOf[r]] = w
        /\ KindOf[r] = "EXPENSE" =>
             /\ events'[e].over = (tick'[w].bal < 0)
             /\ tick'[w].bal < 0 => tick'[w].over = e
    <3>1. /\ poolLock'[PoolOf[r]] = w
          /\ events'[e].over = (KindOf[r] = "EXPENSE" /\ tick'[w].bal < 0)
          /\ events'[e].over => tick'[w].over = e
      BY <1>1, <1>6 DEF Posts
    <3>2. ASSUME KindOf[r] = "EXPENSE"
          PROVE  /\ events'[e].over = (tick'[w].bal < 0)
                 /\ tick'[w].bal < 0 => tick'[w].over = e
      <4>1. events'[e].over = (tick'[w].bal < 0)
        BY <3>1, <3>2
      <4>2. tick'[w].bal < 0 => tick'[w].over = e
        BY <3>1, <3>2
      <4> QED BY <4>1, <4>2
    <3> QED BY <3>1, <3>2
  <2> QED BY <1>8, <2>1, <2>2 DEF Flagged
<1>19. Summed(w)'
  <2>1. \A f \in S \cup {e} : net'[f] \in Int
    BY <1>10 DEF IInv, TypeOK, S, Posted
  <2>2. SumOf(net', S \cup {e}) = SumOf(net', S) + net'[e]
    BY <1>10, <1>11, <2>1, SumAdd
  <2>3. SumOf(net', S) = SumOf(net, S)
    <3>1. \A f \in S : net'[f] = net[f]
      BY <1>8, <1>10 DEF S, Posted
    <3> QED BY <1>11, <3>1, SumSame
  <2>4. tick'[w].delta = t.delta + net'[e]
    BY <1>1 DEF Posts
  <2>5. t.delta = SumOf(net, S)
    BY <1>5 DEF Summed, S
  <2> QED BY <1>10, <2>2, <2>3, <2>4, <2>5 DEF Summed
<1> QED BY <1>14, <1>17, <1>18, <1>19 DEF RunGood

LEMMA RepeatPeriodGood ==
  ASSUME IInv, NEW w \in Ticks, RepeatPeriod(w), RunGood(w)
  PROVE  RunGood(w)'
<1> DEFINE t == tick[w]
           r == t.rule
           next == Stepped(t.row, 0)
           steps == t.steps + 1
<1>1. /\ t \in TickState /\ t.pc = "run" /\ InLoop(t)
      /\ rules' = rules /\ events' = events /\ net' = net /\ poolLock' = poolLock
  BY TickTypes DEF RepeatPeriod, IInv, money, locks
<1>2. tick' = [tick EXCEPT ![w] = [t EXCEPT !.row = next, !.steps = steps]]
  BY DEF RepeatPeriod
<1>3. /\ t.row \in RuleRow /\ t.now \in Nat /\ t.steps \in Nat
      /\ t.row.next_run_at \in Nat
      /\ t.row.run_count \in Nat /\ (t.row.max_runs # None => t.row.max_runs \in Nat)
  BY <1>1 DEF TickState, RuleRow, Day
<1>4. RunsCounted(w) /\ Ordered(w) /\ Flagged(w) /\ Summed(w)
  BY <1>1 DEF RunGood
<1>5. /\ next.next_run_at = t.row.next_run_at + Step /\ next.next_run_at > t.row.next_run_at
      /\ next.run_count = t.row.run_count + 0
      /\ next.max_runs = t.row.max_runs
      /\ t.row.max_runs # None /\ next.run_count >= t.row.max_runs => next.status = "COMPLETED"
  BY <1>3, SteppedFacts
<1> HIDE DEF next, steps
<1>6. PICK u : u = [t EXCEPT !.row = next, !.steps = steps]
  OBVIOUS
<1>7. /\ u.rule = t.rule /\ u.now = t.now /\ u.force = t.force /\ u.row = next
      /\ u.steps = steps /\ u.bal = t.bal /\ u.delta = t.delta /\ u.over = t.over
  BY <1>1, <1>6 DEF TickState
<1>8. tick'[w] = u
  BY <1>2, <1>6 DEF IInv, TypeOK
<1>9. Posted(w)' = Posted(w) /\ AheadOf(w)' = AheadOf(w)
  BY <1>1, <1>7, <1>8 DEF Posted, AheadOf
<1>10. RunsCounted(w)'
  BY <1>1, <1>3, <1>4, <1>5, <1>7, <1>8, <1>9 DEF RunsCounted
<1>11. next.next_run_at \in Nat /\ steps \in Nat /\ steps > 0
  BY <1>3, <1>5, NumberAssumption DEF steps
<1>12. \A f \in Posted(w) : events[f].period \in Nat
  BY DEF Posted, IInv, TypeOK, EventRow, Day
<1>13. \A f \in Posted(w) : events[f].period < next.next_run_at
  BY <1>3, <1>4, <1>5, <1>11, <1>12 DEF Ordered
<1>14. Ordered(w)'
  <2>1. t.row.next_run_at > t.now => next.next_run_at > t.now
    BY <1>3, <1>5, <1>11
  <2> QED BY <1>1, <1>4, <1>7, <1>8, <1>9, <1>11, <1>13, <2>1 DEF Ordered
<1>15. Flagged(w)'
  BY <1>1, <1>4, <1>7, <1>8, <1>9 DEF Flagged
<1>16. Summed(w)'
  BY <1>1, <1>4, <1>7, <1>8, <1>9 DEF Summed
<1> QED BY <1>10, <1>14, <1>15, <1>16 DEF RunGood

LEMMA CreateGoodKept ==
  ASSUME IInv, IInv', [Next]_vars, NEW q \in Requests, req'[q] = req[q], CreateGood(q)
  PROVE  CreateGood(q)'
<1> SUFFICES ASSUME req[q].pc = "pool", req[q].op = "create"
             PROVE  CreateGood(q)'
  BY DEF CreateGood
<1> DEFINE e == req[q].event
<1>1. e \in Events /\ events[e].state = "new" /\ events[e].by = q
  BY DEF IInv, ReqOK, ReqGood, Creating
<1>2. events'[e].state = "new" /\ events'[e].by = q
  BY <1>1 DEF IInv, ReqOK, ReqGood, Creating
<1> HIDE DEF e
<1>3. CASE events'[e] = events[e]
  BY <1>3 DEF CreateGood, e
<1>4. CASE events'[e] # events[e]
  <2>1. \/ \E w \in Ticks : CommitRule(w) /\ events[e].by = w
        \/ \E v \in Requests : CommitNewEvent(v) /\ events[e].by = v
    BY <1>1, <1>2, <1>4, NewRowStep
  <2>2. CommitNewEvent(q)
    BY <1>1, <2>1, Distinct
  <2>3. req'[q].pc = "idle"
    BY <2>2 DEF CommitNewEvent, IdleReq, IInv, TypeOK
  <2> QED BY <2>3
<1> QED BY <1>3, <1>4

LEMMA CreateGoodStep ==
  ASSUME IInv, IInv', [Next]_vars, NEW q \in Requests, CreateGood(q)
  PROVE  CreateGood(q)'
<1>1. req \in [Requests -> ReqState]
  BY DEF IInv, TypeOK
<1>2. ASSUME NEW v \in Requests, UserBegins(v) \/ RequestStep(v), v # q
      PROVE  req'[q] = req[q]
  <2>1. \/ req' = req
        \/ \E x : req' = [req EXCEPT ![v] = x]
    BY <1>2 DEF UserBegins, RequestStep, CreateRule, OpenRule, CreateEvent, OpenEvent,
       UpdateRule, DeleteRule, AdjustBalance, CommitNewEvent, CommitEdit, AbortRequest
  <2> QED BY <1>1, <1>2, <2>1
<1>3. CASE CreateEvent(q)
  <2>1. PICK e \in Events : Enters(q, e)
    BY <1>3, EnterFacts
  <2> QED BY <2>1 DEF CreateGood, Enters
<1>4. CASE AdjustBalance(q)
  <2>1. req[q].op # "create"
    BY <1>4 DEF AdjustBalance, IInv, ReqOK, ReqGood
  <2>2. req'[q].op = req[q].op
    <3>1. req[q] \in ReqState
      BY <1>1
    <3>2. PICK b : req' = [req EXCEPT ![q] = [@ EXCEPT !.pc = "pool", !.bal = b]]
      BY <1>4 DEF AdjustBalance
    <3> QED BY <1>1, <3>1, <3>2 DEF ReqState
  <2> QED BY <2>1, <2>2 DEF CreateGood
<1>5. CASE OpenRule(q) \/ OpenEvent(q)
  BY <1>1, <1>5 DEF OpenRule, OpenEvent, IdleReq, CreateGood
<1>6. CASE \/ UpdateRule(q) \/ DeleteRule(q) \/ CommitNewEvent(q) \/ CommitEdit(q)
           \/ AbortRequest(q)
  <2>1. req'[q] = IdleReq
    BY <1>1, <1>6 DEF UpdateRule, DeleteRule, CommitNewEvent, CommitEdit, AbortRequest
  <2> QED BY <2>1 DEF IdleReq, CreateGood
<1>7. CASE CreateRule(q)
  BY <1>7, CreateGoodKept DEF CreateRule
<1>8. ASSUME NEW w \in Ticks, TickStep(w) \/ Fault(w)
      PROVE  req' = req
  BY <1>8 DEF TickStep, Fault, LockRule, SkipRule, PostPeriod, RepeatPeriod, CommitRule,
     FailZeroAmount, EndTick, FailTransient, FailRule, CrashTick, LoseAdvisory
<1>9. CASE Advance \/ (\E w \in Ticks, force \in Forcing : StartTick(w, force))
           \/ UNCHANGED vars
  BY <1>9, CreateGoodKept DEF Advance, StartTick, vars
<1> QED BY <1>2, <1>3, <1>4, <1>5, <1>6, <1>7, <1>8, <1>9, CreateGoodKept
        DEF Next, UserBegins, RequestStep

LEMMA RunGoodStep ==
  ASSUME IInv, IInv', [Next]_vars, NEW w \in Ticks, RunGood(w)
  PROVE  RunGood(w)'
<1>1. TypeOK'
  BY DEF IInv
<1>2. CASE Kept(w)
  BY <1>1, <1>2, KeptGood
<1>3. CASE NotRunning(w)
  BY <1>3 DEF NotRunning, RunGood
<1>4. CASE LockRule(w)
  BY <1>4, LockRuleGood
<1>5. CASE PostPeriod(w)
  BY <1>5, PostPeriodGood
<1>6. CASE RepeatPeriod(w)
  BY <1>6, RepeatPeriodGood
<1>7. CASE UNCHANGED vars \/ Advance
  BY <1>2, <1>7 DEF vars, money, locks, Advance, Kept
<1>8. ASSUME NEW v \in Ticks, NEW force \in Forcing, StartTick(v, force)
      PROVE  Kept(w) \/ NotRunning(w)
  <2>1. CASE v # w
    BY <1>8, <2>1 DEF StartTick, Kept, IInv, TypeOK, money, locks
  <2>2. CASE v = w
    BY <1>8, <2>2 DEF StartTick, NotRunning, IdleTick, IInv, TypeOK
  <2> QED BY <2>1, <2>2
<1> QED BY <1>2, <1>3, <1>4, <1>5, <1>6, <1>7, <1>8, TickKept, RequestKept DEF Next

LEMMA RInit == Init => RInv
<1> SUFFICES ASSUME Init PROVE RInv
  OBVIOUS
<1>1. \A w \in Ticks : tick[w].pc # "run"
  BY DEF Init, IdleTick
<1>2. \A q \in Requests : req[q].pc # "pool"
  BY DEF Init, IdleReq
<1> QED BY <1>1, <1>2, InitInv DEF RInv, RunGood, CreateGood

LEMMA RStep == RInv /\ [Next]_vars => RInv'
<1> SUFFICES ASSUME RInv, [Next]_vars PROVE RInv'
  OBVIOUS
<1>1. IInv /\ IInv'
  BY NextInv DEF RInv
<1> QED BY <1>1, RunGoodStep, CreateGoodStep DEF RInv

THEOREM RunInvariance == Spec => []RInv
BY RInit, RStep, PTL DEF Spec

\* A tick posts only what is due at its now, and a forced one adds at most one
\* period that is not: the first step of each run, and only that, may be early,
\* and whatever it posts moves the row beyond now.
THEOREM OnlyDueCorrect == Spec => []OnlyDuePosted
<1>1. ASSUME RInv
      PROVE  OnlyDuePosted
  <2> SUFFICES ASSUME NEW w \in Ticks
               PROVE  Cardinality(AheadOf(w)) <= IF tick[w].force THEN 1 ELSE 0
    BY DEF OnlyDuePosted
  <2>1. IInv /\ RunGood(w) /\ tick[w].force \in BOOLEAN
    BY <1>1, TickTypes DEF RInv, IInv, TickState
  <2>2. \/ AheadOf(w) = {}
        \/ tick[w].force /\ \E e \in Events : AheadOf(w) = {e}
    <3>1. CASE tick[w].pc = "run"
      BY <2>1, <3>1 DEF RunGood, Ordered
    <3>2. CASE tick[w].pc # "run"
      BY <2>1, <3>2 DEF IInv, TickOK, TickGood, AheadOf
    <3> QED BY <3>1, <3>2
  <2>3. Cardinality({}) = 0 /\ \A e : Cardinality({e}) = 1
    BY FS_EmptySet, FS_Singleton
  <2>4. CASE AheadOf(w) = {}
    BY <2>1, <2>3, <2>4
  <2>5. CASE tick[w].force /\ \E e \in Events : AheadOf(w) = {e}
    <3>1. PICK e \in Events : AheadOf(w) = {e}
      BY <2>5
    <3> QED BY <2>3, <2>5, <3>1
  <2> QED BY <2>2, <2>4, <2>5
<1> QED BY <1>1, RunInvariance, PTL

\* The rows that a commit shows are all those of one run, or one entered event.
LEMMA AppearingRows ==
  ASSUME IInv, NEW w \in Ticks, CommitRule(w)
  PROVE  Appearing = Posted(w)
<1>1. \A e \in Events : IF events[e].by = w
                        THEN events[e].state = "new" /\ events'[e].state = "live"
                        ELSE events'[e] = events[e]
  <2>1. w \in Sessions /\ events' = Publish(w) /\ net' = net
    BY TickTypes DEF CommitRule, IInv
  <2> QED BY <2>1, PublishFacts
<1> QED BY <1>1 DEF Appearing, Posted

\* A rule never runs past its limit by more than the run that notices it, and
\* counts exactly the events it shows.
THEOREM LimitCorrect == Spec => RunsStopAtLimit
<1> DEFINE Stops(r) ==
      LET posted == Cardinality({e \in Appearing : events[e].rule = r})
          limit == rules[r].max_runs
          count == rules'[r].run_count
      IN /\ posted > 0 => count = rules[r].run_count + posted
         /\ posted > 0 /\ limit # None /\ count >= limit => rules'[r].status = "COMPLETED"
         /\ posted > 1 /\ limit # None => count <= limit
<1>1. ASSUME RInv, [Next]_vars, NEW r \in Rules
      PROVE  Stops(r)
  <2> DEFINE shown == {e \in Appearing : events[e].rule = r}
  <2>1. CASE shown = {}
    <3>1. Cardinality(shown) = 0
      BY <2>1, FS_EmptySet
    <3> HIDE DEF shown
    <3>2. ~(Cardinality(shown) > 0) /\ ~(Cardinality(shown) > 1)
      BY <3>1
    <3> QED BY <3>2 DEF shown
  <2>2. CASE shown # {}
    <3>1. PICK e \in shown : TRUE
      BY <2>2
    <3>2. r # None /\ IInv
      BY <1>1, NoneAssumption DEF RInv
    <3>3. PICK w \in Ticks : CommitRule(w) /\ events[e].by = w
      BY <1>1, <3>1, <3>2, AppearingStep
    <3>4. tick[w].pc = "run" /\ ~InLoop(tick[w]) /\ TickGood(w) /\ RunGood(w)
          /\ rules' = [rules EXCEPT ![tick[w].rule] = LoopExit(tick[w])]
      BY <1>1, <3>2, <3>3 DEF CommitRule, IInv, TickOK, RInv
    <3>5. e \in Posted(w) /\ e \in Events /\ Appearing = Posted(w)
      BY <3>1, <3>2, <3>3, AppearingRows DEF Posted
    <3>6. tick[w].rule = r
      BY <3>1, <3>4, <3>5 DEF TickGood, Posted
    <3>7. shown = Posted(w)
      BY <3>4, <3>5, <3>6 DEF TickGood, Posted
    <3>8. RunsCounted(w)
      BY <3>4 DEF RunGood
    <3>9. rules'[r] = LoopExit(tick[w]) /\ tick[w] \in TickState
      BY <3>2, <3>4, <3>6, TickTypes DEF IInv, TypeOK
    <3>10. /\ rules'[r].run_count = tick[w].row.run_count
           /\ \/ rules'[r].status = tick[w].row.status
              \/ rules'[r].status = "COMPLETED"
      BY <3>9 DEF LoopExit, TickState, RuleRow
    <3>11. Cardinality(Posted(w)) \in Nat /\ Posted(w) # {}
      BY <3>5, <3>8, FS_CardinalityType DEF RunsCounted
    <3> HIDE DEF shown
    <3>12. /\ rules'[r].run_count = rules[r].run_count + Cardinality(shown)
           /\ rules[r].max_runs # None /\ rules'[r].run_count >= rules[r].max_runs =>
                rules'[r].status = "COMPLETED"
           /\ Cardinality(shown) > 1 /\ rules[r].max_runs # None =>
                rules'[r].run_count <= rules[r].max_runs
      BY <3>6, <3>7, <3>8, <3>10, <3>11 DEF RunsCounted
    <3> QED BY <3>12 DEF shown
  <2> QED BY <2>1, <2>2
<1>2. RInv /\ [Next]_vars => [\A r \in Rules : Stops(r)]_vars
  BY <1>1
<1> QED BY <1>2, RunInvariance, PTL DEF Spec, RunsStopAtLimit

\* The latest expense a commit shows is flagged exactly when the pool it leaves
\* behind is negative, and then it is among the notifications of that commit.
THEOREM OverdraftCorrect == Spec => OverdraftIsReported
<1> DEFINE Reported(e) ==
      /\ events[e].kind = "EXPENSE"
      /\ \A f \in Appearing : events[f].period <= events[e].period
      => LET negative == total'[events[e].pool] < 0 IN
         /\ events'[e].over = negative
         /\ negative => e \in alerted'
<1>1. ASSUME RInv, [Next]_vars, NEW e \in Appearing
      PROVE  Reported(e)
  <2> SUFFICES ASSUME events[e].kind = "EXPENSE",
                      \A f \in Appearing : events[f].period <= events[e].period
               PROVE  /\ events'[e].over = (total'[events[e].pool] < 0)
                      /\ total'[events[e].pool] < 0 => e \in alerted'
    OBVIOUS
  <2>1. IInv /\ e \in Events /\ events[e] \in EventRow
    BY <1>1 DEF RInv, Appearing, IInv, TypeOK
  <2>2. ASSUME NEW s, events' = Publish(s), events[e].by = s
        PROVE  events'[e].over = events[e].over
    BY <2>1, <2>2 DEF Publish, EventRow
  <2>3. CASE \E w \in Ticks : CommitRule(w) /\ events[e].by = w
    <3>1. PICK w \in Ticks : CommitRule(w) /\ events[e].by = w
      BY <2>3
    <3> DEFINE t == tick[w]
               p == PoolOf[t.rule]
    <3>2. Appearing = Posted(w) /\ e \in Posted(w)
      BY <2>1, <3>1, AppearingRows DEF Posted
    <3>3. t.pc = "run" /\ RunGood(w) /\ TickGood(w)
      BY <1>1, <3>1 DEF CommitRule, RInv, IInv, TickOK
    <3>4. p \in Pools
      BY <3>3, RulesAssumption DEF TickGood
    <3>5. /\ poolLock[p] = w
          /\ KindOf[t.rule] = "EXPENSE" =>
               /\ events[e].over = (t.bal < 0)
               /\ t.bal < 0 => t.over = e
      BY <3>2, <3>3 DEF RunGood, Flagged
    <3>6. events[e].kind = KindOf[t.rule] /\ events[e].pool = p
      BY <3>2, <3>3 DEF RunGood, Ordered
    <3>7. /\ total' = [total EXCEPT ![p] = IF poolLock[p] = w THEN t.bal ELSE @]
          /\ alerted' = alerted \cup QueuedAlerts(t) /\ events' = Publish(w)
      BY <3>1 DEF CommitRule
    <3>8. total'[p] = t.bal
      BY <2>1, <3>4, <3>5, <3>7 DEF IInv, TypeOK
    <3>9. e # None
      BY <2>1, NoneAssumption
    <3>10. events'[e].over = events[e].over
      BY <2>2, <3>1, <3>7
    <3> HIDE DEF t, p
    <3> QED BY <3>5, <3>6, <3>7, <3>8, <3>9, <3>10 DEF QueuedAlerts
  <2>4. CASE \E q \in Requests : CommitNewEvent(q) /\ events[e].by = q
    <3>1. PICK q \in Requests : CommitNewEvent(q) /\ events[e].by = q
      BY <2>4
    <3>2. req[q].pc = "pool" /\ req[q].op = "create" /\ CreateGood(q) /\ req[q].event = e
      BY <1>1, <2>1, <3>1 DEF CommitNewEvent, RInv, IInv, ReqOK, ReqGood
    <3>3. events[e].over = (req[q].bal < 0) /\ events[e].pool \in Pools
      <4>1. events[e].state = "new"
        BY DEF Appearing
      <4> QED BY <2>1, <3>2, <4>1 DEF CreateGood, IInv, RowsOK
    <3>4. /\ total' = [total EXCEPT ![events[e].pool] = req[q].bal]
          /\ alerted' = IF events[e].over THEN alerted \cup {e} ELSE alerted
          /\ events' = Publish(q)
      BY <3>1, <3>2 DEF CommitNewEvent
    <3>5. total'[events[e].pool] = req[q].bal
      BY <2>1, <3>3, <3>4 DEF IInv, TypeOK
    <3>6. events'[e].over = events[e].over
      BY <2>2, <3>1, <3>4
    <3> QED BY <3>3, <3>4, <3>5, <3>6
  <2> QED BY <1>1, <2>1, <2>3, <2>4, AppearingStep
<1>2. RInv /\ [Next]_vars => [\A e \in Appearing : Reported(e)]_vars
  BY <1>1
<1> QED BY <1>2, RunInvariance, PTL DEF Spec, OverdraftIsReported

-----------------------------------------------------------------------------
(* The refinement of the savings book.                                     *)

LEMMA SumsOfBook ==
  ASSUME NEW f, NEW S
  PROVE  Book!SumOf(f, S) = SumOf(f, S)
BY DEF Book!SumOf, SumOf, Book!MapThenSumSet, MapThenSumSet,
       Book!MapThenFoldSet, MapThenFoldSet

\* A step that changes no entry and no balance.
Unseen == UNCHANGED <<Entries, total>>

\* What a user sees of a row, by its state.
LEMMA VisibleFacts ==
  ASSUME NEW row \in EventRow
  PROVE  /\ row.state \in {"free", "new"} => Visible(row) = Book!Unused
         /\ row.state = "gone" => Visible(row) = Book!Closed
         /\ row.state = "live" =>
              /\ Visible(row) \in Book!Open(row.pool)
              /\ Visible(row).value = Signed(row.kind, row.amount)
         /\ Visible(row).value \in Int
<1>1. row.state \in {"free", "new", "live", "gone"} /\ Signed(row.kind, row.amount) \in Int
  BY DEF EventRow, Signed
<1>2. row.state \in {"free", "new"} => Visible(row) = Book!Unused
  BY DEF Visible, Book!Unused
<1>3. row.state = "gone" => Visible(row) = Book!Closed
  BY DEF Visible, Book!Closed
<1>4. row.state = "live" => Visible(row) = [status |-> "open", pool |-> row.pool,
                                             value |-> Signed(row.kind, row.amount)]
  BY DEF Visible
<1>5. row.state = "live" => Visible(row) \in Book!Open(row.pool)
  BY <1>1, <1>4 DEF Book!Open
<1>6. Visible(row).value \in Int
  BY <1>1 DEF Visible
<1> QED BY <1>2, <1>3, <1>4, <1>5, <1>6

LEMMA RowsUnseen ==
  ASSUME IInv, TypeOK', total' = total,
         \A e \in Events : \/ events'[e] = events[e]
                           \/ /\ events[e].state \in {"free", "new"}
                              /\ events'[e].state \in {"free", "new"}
  PROVE  Unseen
<1>1. ASSUME NEW e \in Events PROVE Visible(events'[e]) = Visible(events[e])
  <2>1. events[e] \in EventRow /\ events'[e] \in EventRow
    BY DEF IInv, TypeOK
  <2> QED BY <2>1, VisibleFacts
<1>2. Entries' = Entries
  BY <1>1 DEF Entries
<1> QED BY <1>2 DEF Unseen

\* A step that changes the entries S of pool p, and its balance by their sum.
LEMMA PostsToBook ==
  ASSUME IInv, IInv', NEW p \in Pools, NEW S \in SUBSET Events, IsFiniteSet(S),
         \A e \in Events \ S : Entries'[e] = Entries[e],
         \A e \in S : /\ Entries'[e] # Entries[e]
                      /\ \/ Book!OpenEntry(Entries[e], Entries'[e], p)
                         \/ Book!Amend(Entries[e], Entries'[e], p)
                         \/ Book!Close(Entries[e], Entries'[e], p),
         NEW g, \A e \in S : g[e] = Entries'[e].value - Entries[e].value,
         NEW d, d = SumOf(g, S),
         total' = [total EXCEPT ![p] = total[p] + d]
  PROVE  Book!Post(p)
<1>1. {e \in Events : Entries'[e] # Entries[e]} = S
  OBVIOUS
<1> DEFINE f == [e \in S |-> Entries'[e].value - Entries[e].value]
<1>2. \A e \in S : f[e] = g[e]
  OBVIOUS
<1> HIDE DEF f
<1>3. Book!SumOf(f, S) = d
  <2>1. SumOf(f, S) = SumOf(g, S)
    BY <1>2, SumSame
  <2> QED BY <2>1, SumsOfBook
<1>4. total' = [total EXCEPT ![p] = total[p] + Book!SumOf(f, S)]
  BY <1>3
<1>5. \A e \in S : \/ Book!OpenEntry(Entries[e], Entries'[e], p)
                   \/ Book!Amend(Entries[e], Entries'[e], p)
                   \/ Book!Close(Entries[e], Entries'[e], p)
  OBVIOUS
<1>6. LET changed == {e \in Events : Entries'[e] # Entries[e]} IN
      /\ \A e \in changed : \/ Book!OpenEntry(Entries[e], Entries'[e], p)
                            \/ Book!Amend(Entries[e], Entries'[e], p)
                            \/ Book!Close(Entries[e], Entries'[e], p)
      /\ total' = [total EXCEPT ![p] = total[p] +
           Book!SumOf([e \in changed |-> Entries'[e].value - Entries[e].value], changed)]
  BY <1>1, <1>4, <1>5 DEF f
<1> QED BY <1>6 DEF Book!Post

\* A commit shows the rows S of session s, which are all entries of pool p.
LEMMA PublishToBook ==
  ASSUME IInv, IInv', NEW s \in Sessions, events' = Publish(s), net' = net,
         NEW p \in Pools, NEW S, S = {e \in Events : events[e].by = s}, IsFiniteSet(S),
         \A e \in S : events[e].pool = p,
         NEW d, d = SumOf(net, S),
         total' = [total EXCEPT ![p] = total[p] + d]
  PROVE  Book!Post(p)
<1>1. \A e \in Events :
        /\ e \notin S => Entries'[e] = Entries[e]
        /\ e \in S => /\ Entries[e] = Book!Unused
                      /\ Entries'[e] \in Book!Open(p)
                      /\ Entries'[e].value = net[e]
  <2> SUFFICES ASSUME NEW e \in Events
               PROVE  /\ e \notin S => Entries'[e] = Entries[e]
                      /\ e \in S => /\ Entries[e] = Book!Unused
                                    /\ Entries'[e] \in Book!Open(p)
                                    /\ Entries'[e].value = net[e]
    OBVIOUS
  <2>1. events[e] \in EventRow /\ events'[e] \in EventRow
    BY DEF IInv, TypeOK
  <2>2. Entries[e] = Visible(events[e]) /\ Entries'[e] = Visible(events'[e])
    BY DEF Entries
  <2>3. IF events[e].by = s
        THEN /\ events[e].state = "new" /\ events'[e].state = "live"
             /\ events'[e].pool = events[e].pool /\ events'[e].kind = events[e].kind
             /\ events'[e].amount = events[e].amount
        ELSE events'[e] = events[e]
    <3>1. events[e].by = s => events[e].state = "new"
      BY SessionAssumption DEF IInv, RowsOK
    <3> QED BY <2>1, <3>1 DEF Publish, EventRow
  <2>4. events[e].state = "new" => net[e] = Signed(events[e].kind, events[e].amount)
    BY DEF IInv, EventMatchesLedger
  <2>5. CASE e \in S
    <3>1. Visible(events[e]) = Book!Unused
      BY <2>1, <2>3, <2>5, VisibleFacts
    <3>2. /\ Visible(events'[e]) \in Book!Open(p)
          /\ Visible(events'[e]).value = net[e]
      BY <2>1, <2>3, <2>4, <2>5, VisibleFacts
    <3> QED BY <2>2, <2>5, <3>1, <3>2
  <2> QED BY <2>2, <2>3, <2>5
<1>2. \A e \in S : /\ Entries'[e] # Entries[e]
                   /\ Book!OpenEntry(Entries[e], Entries'[e], p)
                   /\ net[e] = Entries'[e].value - Entries[e].value
  <2> SUFFICES ASSUME NEW e \in S
               PROVE  /\ Entries'[e] # Entries[e]
                      /\ Book!OpenEntry(Entries[e], Entries'[e], p)
                      /\ net[e] = Entries'[e].value - Entries[e].value
    OBVIOUS
  <2>1. /\ Entries[e] = Book!Unused /\ Entries'[e] \in Book!Open(p)
        /\ Entries'[e].value = net[e] /\ net[e] \in Int
    BY <1>1 DEF IInv, TypeOK
  <2>2. Entries[e].status = "unused" /\ Entries[e].value = 0 /\ Entries'[e].status = "open"
    BY <2>1 DEF Book!Unused, Book!Open
  <2> QED BY <2>1, <2>2 DEF Book!OpenEntry
<1>3. S \in SUBSET Events
  OBVIOUS
<1>4. \A e \in Events \ S : Entries'[e] = Entries[e]
  BY <1>1
<1> QED BY <1>2, <1>3, <1>4, PostsToBook

LEMMA CommitRuleBook ==
  ASSUME IInv, IInv', NEW w \in Ticks, RunGood(w), CommitRule(w)
  PROVE  \E p \in Pools : Book!Post(p)
<1> DEFINE t == tick[w]
           p == PoolOf[t.rule]
<1>1. /\ t.pc = "run" /\ TickGood(w) /\ w \in Sessions /\ t \in TickState
      /\ RunsCounted(w) /\ Ordered(w) /\ Summed(w)
  BY TickTypes DEF CommitRule, IInv, TickOK, RunGood
<1>2. p \in Pools /\ total[p] \in Int /\ t.delta \in Int
  BY <1>1, RulesAssumption DEF TickGood, IInv, TypeOK, TickState
<1>3. /\ events' = Publish(w) /\ net' = net
      /\ total' = [total EXCEPT ![p] = IF poolLock[p] = w THEN t.bal ELSE total[p]]
  BY DEF CommitRule
<1>4. IF poolLock[p] = w THEN t.bal = total[p] + t.delta ELSE t.delta = 0
  BY <1>1 DEF TickGood
<1> DEFINE d == t.delta
<1>5. (IF poolLock[p] = w THEN t.bal ELSE total[p]) = total[p] + d
  BY <1>2, <1>4
<1>6. total' = [total EXCEPT ![p] = total[p] + d]
  BY <1>3, <1>5
<1> DEFINE S == Posted(w)
<1>7. S = {e \in Events : events[e].by = w} /\ IsFiniteSet(S) /\ d = SumOf(net, S)
  BY <1>1 DEF Posted, RunsCounted, Summed
<1>8. \A e \in S : events[e].pool = p
  BY <1>1 DEF Ordered
<1> HIDE DEF p, d, S
<1>9. Book!Post(p)
  BY <1>1, <1>2, <1>3, <1>6, <1>7, <1>8, PublishToBook
<1> QED BY <1>2, <1>9

LEMMA CommitNewEventBook ==
  ASSUME IInv, IInv', NEW q \in Requests, CommitNewEvent(q)
  PROVE  \E p \in Pools : Book!Post(p)
<1> DEFINE e == req[q].event
           p == events[e].pool
<1>1. ReqGood(q) /\ Creating(q) /\ q \in Sessions
  BY ReqTypes DEF CommitNewEvent, IInv, ReqOK, ReqGood
<1>2. e \in Events /\ p \in Pools /\ events[e].by = q /\ req[q].bal = total[p] + net[e]
      /\ net[e] \in Int
  BY <1>1 DEF Creating, IInv, RowsOK, TypeOK
<1>3. /\ events' = Publish(q) /\ net' = net
      /\ total' = [total EXCEPT ![p] = req[q].bal]
  BY DEF CommitNewEvent
<1> DEFINE S == {e}
           d == net[e]
<1>4. S = {f \in Events : events[f].by = q} /\ IsFiniteSet(S)
  BY <1>1, <1>2, FS_Singleton DEF ReqGood
<1>5. d = SumOf(net, S)
  BY <1>2, SumOne
<1>6. total' = [total EXCEPT ![p] = total[p] + d]
  BY <1>2, <1>3
<1>7. \A f \in S : events[f].pool = p
  OBVIOUS
<1> HIDE DEF e, p, S, d
<1>8. Book!Post(p)
  BY <1>1, <1>2, <1>3, <1>4, <1>5, <1>6, <1>7, PublishToBook
<1> QED BY <1>2, <1>8

LEMMA CommitEditBook ==
  ASSUME IInv, IInv', NEW q \in Requests, CommitEdit(q)
  PROVE  Unseen \/ \E p \in Pools : Book!Post(p)
<1> DEFINE e == req[q].event
           old == events[e]
           new == events'[e]
           p == old.pool
           d == Delta(q)
           x == IF req[q].op = "delete" THEN BlankEvent("gone")
                ELSE [old EXCEPT !.amount = req[q].amount,
                                 !.over = old.kind = "EXPENSE" /\ req[q].bal < 0]
<1>1. /\ ReqGood(q) /\ Editing(q) /\ Balanced(q)
      /\ req[q] \in ReqState /\ req[q].amount \in Nat
  BY ReqTypes DEF CommitEdit, IInv, ReqOK, ReqGood, ReqState
<1>2. /\ e \in Events /\ old.state = "live" /\ p \in Pools
      /\ old \in EventRow /\ new \in EventRow /\ old.amount \in Nat
  BY <1>1 DEF Editing, IInv, RowsOK, TypeOK, EventRow
<1>3. /\ events' = [events EXCEPT ![e] = x]
      /\ total' = [total EXCEPT ![p] = IF d = 0 THEN total[p] ELSE req[q].bal]
  BY DEF CommitEdit
<1>4. /\ \A f \in Events : f # e => events'[f] = events[f]
      /\ new = x
  BY <1>2, <1>3 DEF IInv, TypeOK
<1>5. d = Signed(old.kind, req[q].amount - old.amount) /\ d \in Int
  BY <1>1, <1>2 DEF Delta, Signed
<1>6. Signed(old.kind, req[q].amount) = Signed(old.kind, old.amount) + d
  BY <1>1, <1>2, <1>5 DEF Signed
<1>7. d # 0 => req[q].bal = total[p] + d
  BY <1>1 DEF Balanced
<1>8. total[p] \in Int
  BY <1>2 DEF IInv, TypeOK
<1>9. total' = [total EXCEPT ![p] = total[p] + d]
  <2>1. (IF d = 0 THEN total[p] ELSE req[q].bal) = total[p] + d
    BY <1>7, <1>8
  <2> QED BY <1>3, <2>1
<1>10. IF req[q].op = "delete" THEN new.state = "gone" /\ req[q].amount = 0
       ELSE new.state = "live" /\ new.pool = p /\ new.kind = old.kind
            /\ new.amount = req[q].amount
  BY <1>1, <1>2, <1>4 DEF Editing, BlankEvent, EventRow
<1>11. /\ \A f \in Events \ {e} : Entries'[f] = Entries[f]
       /\ Entries[e] = Visible(old) /\ Entries'[e] = Visible(new)
  BY <1>2, <1>4 DEF Entries
<1> HIDE DEF e, old, new, p, d, x
<1>12. /\ Visible(old) \in Book!Open(p)
       /\ Visible(old).value = Signed(old.kind, old.amount)
       /\ Visible(old).value \in Int
  BY <1>2, VisibleFacts DEF p
<1>13. Visible(new).value = Visible(old).value + d
  <2>1. CASE req[q].op = "delete"
    <3>1. Visible(new) = Book!Closed
      BY <1>2, <1>10, <2>1, VisibleFacts
    <3>2. Visible(new).value = 0
      BY <3>1 DEF Book!Closed
    <3>3. Signed(old.kind, req[q].amount) = 0
      BY <1>10, <2>1 DEF Signed
    <3> QED BY <1>6, <1>12, <3>2, <3>3
  <2>2. CASE req[q].op # "delete"
    <3>1. Visible(new).value = Signed(old.kind, req[q].amount)
      BY <1>2, <1>10, <2>2, VisibleFacts
    <3> QED BY <1>6, <1>12, <3>1
  <2> QED BY <2>1, <2>2
<1>14. \/ Book!Amend(Visible(old), Visible(new), p)
       \/ Book!Close(Visible(old), Visible(new), p)
  <2>1. CASE req[q].op = "delete"
    <3>1. Visible(new) = Book!Closed
      BY <1>2, <1>10, <2>1, VisibleFacts
    <3> QED BY <1>12, <3>1 DEF Book!Close
  <2>2. CASE req[q].op # "delete"
    <3>1. Visible(new) \in Book!Open(p)
      BY <1>2, <1>10, <2>2, VisibleFacts
    <3> QED BY <1>12, <3>1 DEF Book!Amend
  <2> QED BY <2>1, <2>2
<1>15. CASE Visible(new) = Visible(old)
  <2>1. Entries' = Entries
    BY <1>11, <1>15 DEF Entries
  <2>2. d = 0
    BY <1>5, <1>12, <1>13, <1>15
  <2>3. total' = total
    BY <1>2, <1>3, <2>2 DEF IInv, TypeOK
  <2> QED BY <2>1, <2>3 DEF Unseen
<1>16. CASE Visible(new) # Visible(old)
  <2> DEFINE g == [f \in Events |-> d]
  <2>1. \A f \in {e} : g[f] = Entries'[f].value - Entries[f].value
    BY <1>2, <1>5, <1>11, <1>12, <1>13
  <2>2. d = SumOf(g, {e})
    <3>1. g[e] = d
      BY <1>2
    <3> HIDE DEF g
    <3> QED BY <1>5, <3>1, SumOne
  <2>3. IsFiniteSet({e}) /\ {e} \in SUBSET Events
    BY <1>2, FS_Singleton
  <2>4. \A f \in {e} : /\ Entries'[f] # Entries[f]
                       /\ \/ Book!OpenEntry(Entries[f], Entries'[f], p)
                          \/ Book!Amend(Entries[f], Entries'[f], p)
                          \/ Book!Close(Entries[f], Entries'[f], p)
    BY <1>11, <1>14, <1>16
  <2> HIDE DEF g
  <2>5. \A f \in Events \ {e} : Entries'[f] = Entries[f]
    BY <1>11
  <2>6. p \in Pools
    BY <1>2
  <2>7. Book!Post(p)
    BY <1>9, <2>1, <2>2, <2>3, <2>4, <2>5, <2>6, PostsToBook
  <2> QED BY <2>6, <2>7
<1> QED BY <1>15, <1>16

LEMMA BookStep ==
  ASSUME RInv, IInv', [Next]_vars
  PROVE  Unseen \/ \E p \in Pools : Book!Post(p)
<1>1. IInv /\ TypeOK'
  BY DEF RInv, IInv
<1>2. CASE UNCHANGED <<events, total>>
  BY <1>1, <1>2, RowsUnseen
<1>3. ASSUME NEW s \in Sessions, Rollback(s)
      PROVE  Unseen
  <2>1. \A e \in Events : \/ events'[e] = events[e]
                          \/ /\ events[e].state \in {"free", "new"}
                             /\ events'[e].state \in {"free", "new"}
    <3> SUFFICES ASSUME NEW e \in Events, events[e].by = s
                 PROVE  events[e].state = "new" /\ events'[e].state = "free"
      BY <1>3 DEF Rollback
    <3> QED BY <1>1, <1>3, SessionAssumption DEF Rollback, BlankEvent, IInv, RowsOK
  <2> QED BY <1>1, <1>3, <2>1, RowsUnseen DEF Rollback
<1>4. ASSUME NEW e \in Events, events[e].state = "free", events'[e].state = "new",
             \A f \in Events : f # e => events'[f] = events[f], total' = total
      PROVE  Unseen
  BY <1>1, <1>4, RowsUnseen
<1>5. ASSUME NEW w \in Ticks, TickStep(w) \/ Fault(w)
      PROVE  Unseen \/ \E p \in Pools : Book!Post(p)
  <2> w \in Sessions
    BY DEF Sessions
  <2>1. CASE PostPeriod(w)
    <3>1. PICK e \in Events : Posts(w, e)
      BY <1>1, <2>1, PostFacts
    <3>2. total' = total
      BY <2>1 DEF PostPeriod
    <3> QED BY <1>4, <3>1, <3>2 DEF Posts
  <2>2. CASE CommitRule(w)
    BY <1>1, <2>2, CommitRuleBook DEF RInv
  <2>3. CASE FailZeroAmount(w) \/ FailTransient(w) \/ CrashTick(w)
    BY <1>3, <2>3 DEF FailZeroAmount, FailTransient, FailRule, CrashTick
  <2>4. CASE LockRule(w) \/ SkipRule(w) \/ RepeatPeriod(w) \/ EndTick(w) \/ LoseAdvisory(w)
    BY <1>2, <2>4 DEF LockRule, SkipRule, RepeatPeriod, EndTick, LoseAdvisory, money
  <2> QED BY <1>5, <2>1, <2>2, <2>3, <2>4 DEF TickStep, Fault
<1>6. ASSUME NEW q \in Requests, UserBegins(q) \/ RequestStep(q)
      PROVE  Unseen \/ \E p \in Pools : Book!Post(p)
  <2> q \in Sessions
    BY DEF Sessions
  <2>1. CASE CreateEvent(q)
    <3>1. PICK e \in Events : Enters(q, e)
      BY <1>1, <2>1, EnterFacts
    <3>2. total' = total
      BY <2>1 DEF CreateEvent
    <3> QED BY <1>4, <3>1, <3>2 DEF Enters
  <2>2. CASE CommitNewEvent(q)
    BY <1>1, <2>2, CommitNewEventBook
  <2>3. CASE CommitEdit(q)
    BY <1>1, <2>3, CommitEditBook
  <2>4. CASE AbortRequest(q)
    BY <1>3, <2>4 DEF AbortRequest
  <2>5. CASE \/ CreateRule(q) \/ OpenRule(q) \/ OpenEvent(q) \/ UpdateRule(q)
             \/ DeleteRule(q) \/ AdjustBalance(q)
    BY <1>2, <2>5 DEF CreateRule, OpenRule, OpenEvent, UpdateRule, DeleteRule, AdjustBalance,
       money
  <2> QED BY <1>6, <2>1, <2>2, <2>3, <2>4, <2>5 DEF UserBegins, RequestStep
<1>7. CASE Advance \/ \E w \in Ticks, force \in Forcing : StartTick(w, force)
  BY <1>2, <1>7 DEF Advance, StartTick, money
<1>8. CASE UNCHANGED vars
  BY <1>2, <1>8 DEF vars, money
<1> QED BY <1>5, <1>6, <1>7, <1>8 DEF Next

\* The service implements the savings book: a commit opens, amends or closes
\* entries of one pool and moves its balance by what they changed by, and no
\* other step of a tick, a request or a fault can be seen at all.
THEOREM BookImplemented == Spec => ImplementsBook
<1>1. Init => Book!Init
  <2> SUFFICES ASSUME Init PROVE Book!Init
    OBVIOUS
  <2>1. \A e \in Events : Entries[e] = Book!Unused
    BY Constants, VisibleFacts DEF Init, Entries, BlankEvent
  <2>2. Entries = [e \in Events |-> Book!Unused]
    BY <2>1 DEF Entries
  <2> QED BY <2>2 DEF Init, Book!Init
<1>2. RInv /\ RInv' /\ [Next]_vars => [Book!Next]_<<Entries, total>>
  BY BookStep DEF RInv, Unseen, Book!Next
<1> QED BY <1>1, <1>2, RunInvariance, PTL DEF Spec, ImplementsBook, Book!Spec
=============================================================================
