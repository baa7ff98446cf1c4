----------------------------- MODULE MoneyRules -----------------------------
(***************************************************************************)
(* Recurring income/expense rules (FosMoneyRule), the events they post     *)
(* (FosMoneyEvent), the savings ledger and the cached pool totals.         *)
(*                                                                         *)
(* Scheduler ticks post what is due, user requests edit rules and events,  *)
(* all of them as PostgreSQL transactions at READ COMMITTED.  A            *)
(* transaction is split where another one can interleave: when it takes a  *)
(* row lock, and when it commits.  What it has written so far is kept in   *)
(* its session record (or in an event row marked "new"), invisible to the  *)
(* others until the commit publishes all of it in one step.                *)
(*                                                                         *)
(* Time is counted in days; a rule is due every Step days.  The calendar   *)
(* arithmetic behind next_due is not part of this module.                  *)
(***************************************************************************)
EXTENDS Integers, FiniteSets

CONSTANTS
  Rules,        \* ids of rows of fos_money_rules
  Events,       \* ids of rows of fos_money_events (a bound: ids are not reused)
  Pools,        \* savings pools, family or personal
  Ticks,        \* scheduler ticks that may be running
  Requests,     \* user requests that may be running
  None,         \* SQL NULL
  PoolOf,       \* pool_for(scope, family_id, owner_user_id) of each rule
  KindOf,       \* kind of each rule
  Drafts,       \* bodies of create-rule requests
  Edits,        \* bodies of update-rule requests
  Amounts,      \* amounts an event request may carry, 0.00 included
  Forcing,      \* the values "force" may have: TRUE only if admins use it
  Opening,      \* what every pool holds when the model starts
  Step,         \* distance of two due dates of a rule, in days
  MaxCatchUp,   \* MAX_CATCH_UP
  MaxDay,       \* bound of the clock
  MaxRequests,  \* bound of the number of user requests
  MaxFaults     \* bound of the number of crashes, errors and lost connections

Sessions == Ticks \cup Requests
Kinds == {"INCOME", "EXPENSE"}
Statuses == {"ABSENT", "ACTIVE", "PAUSED", "COMPLETED", "CANCELLED"}
Day == Nat

ASSUME RulesAssumption ==
  /\ PoolOf \in [Rules -> Pools]
  /\ KindOf \in [Rules -> Kinds]
ASSUME SessionAssumption ==
  /\ Ticks \cap Requests = {}
  /\ None \notin Sessions
ASSUME NoneAssumption ==
  /\ None \notin Rules
  /\ None \notin Events
  /\ None \notin Pools
  /\ None \notin Nat
  /\ None \notin Statuses
ASSUME NumberAssumption ==
  /\ Amounts \subseteq Nat
  /\ Forcing \subseteq BOOLEAN
  /\ Opening \in Int
  /\ Step \in Nat \ {0}
  /\ MaxCatchUp \in Nat \ {0}
  /\ MaxDay \in Nat
  /\ MaxRequests \in Nat
  /\ MaxFaults \in Nat
\* Unsent fields of an edit are None; end_at and max_runs say "sent" apart,
\* because sending null clears them.
ASSUME BodyAssumption ==
  /\ Drafts \subseteq [next_run_at: Day, end_at: Day \cup {None},
                       max_runs: (Nat \ {0}) \cup {None}, amount: Nat]
  /\ Edits \subseteq [next_run_at: Day \cup {None},
                      end_sent: BOOLEAN, end_at: Day \cup {None},
                      max_sent: BOOLEAN, max_runs: (Nat \ {0}) \cup {None},
                      amount: Nat \cup {None},
                      status: {"ACTIVE", "PAUSED", None}]

VARIABLES
  clock,      \* today
  rules,      \* committed rows of fos_money_rules
  events,     \* rows of fos_money_events, uncommitted inserts included
  net,        \* per event, the signed sum of the savings_ledger rows it caused
  ledger,     \* per pool, the signed sum of its committed savings_ledger rows
  total,      \* per pool, the cached total_savings
  alerted,    \* events an overdraft notification was committed for
  ruleLock, eventLock, poolLock,  \* which transaction holds each row lock
  advisory,   \* the tick that holds pg_advisory_lock(TICK_LOCK_KEY)
  tick,       \* the state of each tick's session
  req,        \* the state of each request's session
  used,       \* requests begun so far (bounded by MaxRequests)
  faults      \* faults so far (bounded by MaxFaults)

locks == <<ruleLock, eventLock, poolLock>>
money == <<net, ledger, total, alerted>>
vars == <<clock, rules, events, money, locks, advisory, tick, req, used, faults>>

-----------------------------------------------------------------------------
(* Rows and sessions *)

RuleRow == [status: Statuses, next_run_at: Day, end_at: Day \cup {None},
            max_runs: (Nat \ {0}) \cup {None}, run_count: Nat, amount: Nat]
EventRow == [state: {"free", "new", "live", "gone"}, by: Sessions \cup {None},
             rule: Rules \cup {None}, period: Day, pool: Pools \cup {None},
             kind: Kinds, amount: Nat, over: BOOLEAN]
TickState == [pc: {"idle", "scan", "run"}, now: Day, force: BOOLEAN,
              todo: SUBSET (Rules \X Day), rule: Rules \cup {None}, row: RuleRow,
              steps: Nat, bal: Int, delta: Int, over: Events \cup {None}]
ReqState == [pc: {"idle", "rule", "event", "pool"},
             op: {"create", "update", "delete", None},
             rule: Rules \cup {None}, event: Events \cup {None},
             amount: Nat, bal: Int]

AbsentRule == [status |-> "ABSENT", next_run_at |-> 0, end_at |-> None,
               max_runs |-> None, run_count |-> 0, amount |-> 0]
BlankEvent(s) == [state |-> s, by |-> None, rule |-> None, period |-> 0,
                  pool |-> None, kind |-> "INCOME", amount |-> 0, over |-> FALSE]
IdleTick == [pc |-> "idle", now |-> 0, force |-> FALSE, todo |-> {}, rule |-> None,
             row |-> AbsentRule, steps |-> 0, bal |-> 0, delta |-> 0, over |-> None]
IdleReq == [pc |-> "idle", op |-> None, rule |-> None, event |-> None,
            amount |-> 0, bal |-> 0]

\* LEDGER_IN rows add to the pool, LEDGER_OUT rows take from it.
Signed(kind, amount) == IF kind = "INCOME" THEN amount ELSE 0 - amount

\* SELECT ... FOR UPDATE waits until no other transaction holds the row.
NoRuleLock(r, s) == TRUE     \* mutant: the row is read without FOR UPDATE
RuleFree(r, s) == ruleLock[r] \in {None, s}
EventFree(e, s) == eventLock[e] \in {None, s}
NoPoolLock(p, s) == TRUE     \* mutant: the pool is read without FOR UPDATE
PoolFree(p, s) == poolLock[p] \in {None, s}

\* Mutant: the index of migration fos009 does not exist.
NoUniqueIndex(r, d) == FALSE

\* The partial unique index on (rule_id, period_key), fos009.  Uncommitted
\* inserts count: PostgreSQL makes the second insert wait for the first.
AlreadyPosted(r, d) ==
  \E e \in Events : /\ events[e].state \in {"new", "live"}
                    /\ events[e].rule = r
                    /\ events[e].period = d

\* The id of a new row: any unused one would do, so one is picked.
Fresh(e) == /\ events[e].state = "free"
            /\ e = CHOOSE f \in Events : events[f].state = "free"

\* The first due date of the sequence d, d + Step, ... that is after now.
NextAfter(d, now) ==
  IF d > now THEN d ELSE d + Step * (((now - d) \div Step) + 1)

Init ==
  /\ clock = 0
  /\ rules = [r \in Rules |-> AbsentRule]
  /\ events = [e \in Events |-> BlankEvent("free")]
  /\ net = [e \in Events |-> 0]
  /\ ledger = [p \in Pools |-> Opening]
  /\ total = [p \in Pools |-> Opening]
  /\ alerted = {}
  /\ ruleLock = [r \in Rules |-> None]
  /\ eventLock = [e \in Events |-> None]
  /\ poolLock = [p \in Pools |-> None]
  /\ advisory = None
  /\ tick = [w \in Ticks |-> IdleTick]
  /\ req = [q \in Requests |-> IdleReq]
  /\ used = 0
  /\ faults = 0

-----------------------------------------------------------------------------
(* The end of a transaction.  Release drops every lock of session s. *)

Release(s) ==
  /\ ruleLock' = [r \in Rules |-> IF ruleLock[r] = s THEN None ELSE ruleLock[r]]
  /\ eventLock' = [e \in Events |-> IF eventLock[e] = s THEN None ELSE eventLock[e]]
  /\ poolLock' = [p \in Pools |-> IF poolLock[p] = s THEN None ELSE poolLock[p]]

\* Rollback: the rows session s inserted disappear with their ledger rows.
Rollback(s) ==
  /\ events' = [e \in Events |-> IF events[e].by = s THEN BlankEvent("free") ELSE events[e]]
  /\ net' = [e \in Events |-> IF events[e].by = s THEN 0 ELSE net[e]]
  /\ UNCHANGED <<ledger, total, alerted>>
  /\ Release(s)

\* The rows session s inserted become visible.
Publish(s) ==
  [e \in Events |-> IF events[e].by = s
                    THEN [events[e] EXCEPT !.state = "live", !.by = None]
                    ELSE events[e]]

-----------------------------------------------------------------------------
(* The scheduler tick: run_fos_tick, run_money_rules_cron, run_rule *)

AdvisoryFree == advisory = None

\* pg_try_advisory_lock, then the ids of the ACTIVE rules that are due, with
\* the due date they are ordered by.  force (admins only) takes all ACTIVE ones.
StartTick(w, force) ==
  /\ tick[w].pc = "idle"
  /\ AdvisoryFree
  /\ advisory' = w
  /\ tick' = [tick EXCEPT ![w] =
       [IdleTick EXCEPT !.pc = "scan", !.now = clock, !.force = force,
          !.todo = {<<r, rules[r].next_run_at>> : r \in
                     {r \in Rules : /\ rules[r].status = "ACTIVE"
                                    /\ force \/ rules[r].next_run_at <= clock}}]]
  /\ UNCHANGED <<clock, rules, events, money, locks, req, used, faults>>

\* The rules are visited in the order of the due dates that were read.
NextInLine(w, item) ==
  /\ item \in tick[w].todo
  /\ \A other \in tick[w].todo : item[2] <= other[2]

\* SELECT ... WHERE status = 'ACTIVE' FOR UPDATE SKIP LOCKED finds the row, and
\* it is (still) due or the tick is forced.
Takes(w, r) ==
  /\ ruleLock[r] = None
  /\ rules[r].status = "ACTIVE"
  /\ tick[w].force \/ rules[r].next_run_at <= tick[w].now

\* Between two rules a tick keeps only what it was started with and what is left.
BackToScan(t) ==
  [IdleTick EXCEPT !.pc = "scan", !.now = t.now, !.force = t.force, !.todo = t.todo]

\* run_rule begins: the row as it was read under the lock, and no step done.
Enter(t, item) ==
  [IdleTick EXCEPT !.pc = "run", !.now = t.now, !.force = t.force,
                   !.todo = t.todo \ {item}, !.rule = item[1], !.row = rules[item[1]]]

LockRule(w) ==
  /\ tick[w].pc = "scan"
  /\ \E item \in tick[w].todo :
       LET r == item[1] IN
       /\ NextInLine(w, item)
       /\ Takes(w, r)
       /\ ruleLock' = [ruleLock EXCEPT ![r] = w]
       /\ tick' = [tick EXCEPT ![w] = Enter(@, item)]
  /\ UNCHANGED <<clock, rules, events, money, eventLock, poolLock, advisory, req,
                 used, faults>>

SkipRule(w) ==
  /\ tick[w].pc = "scan"
  /\ \E item \in tick[w].todo :
       /\ NextInLine(w, item)
       /\ ~Takes(w, item[1])
       /\ tick' = [tick EXCEPT ![w].todo = @ \ {item}]
  /\ UNCHANGED <<clock, rules, events, money, locks, advisory, req, used, faults>>

\* Mutant: every step of a forced run may.
IsDueForced(t) == t.row.next_run_at <= t.now \/ t.force

\* Only the first step of a forced run may be a period that is not due yet.
IsDue(t) ==
  \/ t.row.next_run_at <= t.now
  \/ t.force /\ t.steps = 0

PastEnd(row) == row.end_at # None /\ row.next_run_at > row.end_at

\* The condition of the catch-up loop, its first two breaks included.
LoopRuns(t) ==
  /\ t.row.status = "ACTIVE"
  /\ t.steps < MaxCatchUp
  /\ IsDue(t)

InLoop(t) == LoopRuns(t) /\ ~PastEnd(t.row)

\* Mutant: the limit is noticed one run too late.
SteppedPastLimit(row, counted) ==
  LET next == row.next_run_at + Step
      count == row.run_count + counted
      done == \/ row.max_runs # None /\ count > row.max_runs
              \/ row.end_at # None /\ next > row.end_at
  IN [row EXCEPT !.next_run_at = next, !.run_count = count,
                 !.status = IF done THEN "COMPLETED" ELSE @]

\* What one iteration does to the rule: it always moves on to the next period,
\* and counts the run only when the period was posted by this iteration.
Stepped(row, counted) ==
  LET next == row.next_run_at + Step
      count == row.run_count + counted
      done == \/ row.max_runs # None /\ count >= row.max_runs
              \/ row.end_at # None /\ next > row.end_at
  IN [row EXCEPT !.next_run_at = next, !.run_count = count,
                 !.status = IF done THEN "COMPLETED" ELSE @]

\* The row that session s inserts; an expense is flagged by the balance after it.
NewEvent(s, r, period, p, kind, amount, after) ==
  [state |-> "new", by |-> s, rule |-> r, period |-> period, pool |-> p,
   kind |-> kind, amount |-> amount, over |-> kind = "EXPENSE" /\ after < 0]

\* _post_period: insert the event, the ledger row, and add to the cached total
\* under the pool's row lock, which is kept until the commit.
PostPeriod(w) ==
  LET t == tick[w]
      r == t.rule
      p == PoolOf[r]
      signed == Signed(KindOf[r], t.row.amount)
      after == (IF poolLock[p] = w THEN t.bal ELSE total[p]) + signed
      over == KindOf[r] = "EXPENSE" /\ after < 0
  IN
  /\ t.pc = "run"
  /\ InLoop(t)
  /\ t.row.amount > 0
  /\ ~AlreadyPosted(r, t.row.next_run_at)
  /\ PoolFree(p, w)
  /\ poolLock' = [poolLock EXCEPT ![p] = w]
  /\ \E e \in Events :
       /\ Fresh(e)
       /\ events' = [events EXCEPT ![e] =
            NewEvent(w, r, t.row.next_run_at, p, KindOf[r], t.row.amount, after)]
       /\ net' = [net EXCEPT ![e] = signed]
       /\ tick' = [tick EXCEPT ![w] =
            [t EXCEPT !.row = Stepped(t.row, 1), !.steps = t.steps + 1, !.bal = after,
                      !.delta = t.delta + signed, !.over = IF over THEN e ELSE t.over]]
  /\ UNCHANGED <<clock, rules, ledger, total, alerted, ruleLock, eventLock, advisory,
                 req, used, faults>>

\* The unique index refuses the insert: the savepoint is rolled back and the
\* loop moves on.
RepeatPeriod(w) ==
  LET t == tick[w] IN
  /\ t.pc = "run"
  /\ InLoop(t)
  /\ AlreadyPosted(t.rule, t.row.next_run_at)
  /\ tick' = [tick EXCEPT ![w] = [t EXCEPT !.row = Stepped(t.row, 0), !.steps = t.steps + 1]]
  /\ UNCHANGED <<clock, rules, events, money, locks, advisory, req, used, faults>>

\* How the loop leaves the row: past its end date the rule is finished; a run
\* that used up MaxCatchUp steps jumps over whatever is still due.
LoopExit(t) ==
  IF LoopRuns(t)
  THEN [t.row EXCEPT !.status = "COMPLETED"]
  ELSE IF t.row.status = "ACTIVE" /\ t.steps >= MaxCatchUp
       THEN [t.row EXCEPT !.next_run_at = NextAfter(@, t.now)]
       ELSE t.row

\* The in-app notification of the run's last overdraft, in its transaction.
AlertsAlways(t) == {t.over}      \* mutant: also when nothing was overdrawn
AlertsNever(t) == {}             \* mutant: left to the e-mail after the commit
QueuedAlerts(t) == {t.over} \ {None}

CommitRule(w) ==
  LET t == tick[w]
      r == t.rule
      p == PoolOf[r]
  IN
  /\ t.pc = "run"
  /\ ~InLoop(t)
  /\ rules' = [rules EXCEPT ![r] = LoopExit(t)]
  /\ events' = Publish(w)
  /\ ledger' = [ledger EXCEPT ![p] = @ + t.delta]
  /\ total' = [total EXCEPT ![p] = IF poolLock[p] = w THEN t.bal ELSE @]
  /\ alerted' = alerted \cup QueuedAlerts(t)
  /\ Release(w)
  /\ tick' = [tick EXCEPT ![w] = BackToScan(t)]
  /\ UNCHANGED <<clock, net, advisory, req, used, faults>>

\* Mutant: the exception ends the tick and the advisory lock stays taken.
FailTick(w) ==
  /\ tick[w].pc = "run"
  /\ Rollback(w)
  /\ tick' = [tick EXCEPT ![w] = IdleTick]
  /\ UNCHANGED <<clock, rules, advisory, req, used>>

\* An exception in run_rule: roll back this rule and go on with the others.
FailRule(w) ==
  /\ tick[w].pc = "run"
  /\ Rollback(w)
  /\ tick' = [tick EXCEPT ![w] = BackToScan(tick[w])]
  /\ UNCHANGED <<clock, rules, advisory, req, used>>

\* A rule whose amount was rounded to 0.00 fails at apply_movement every time.
FailZeroAmount(w) ==
  /\ InLoop(tick[w])
  /\ tick[w].row.amount = 0
  /\ ~AlreadyPosted(tick[w].rule, tick[w].row.next_run_at)
  /\ FailRule(w)
  /\ UNCHANGED faults

\* Any other error of the database or of the code.  When the model runs out of
\* event ids the insert fails too, without being counted as a fault.
FailTransient(w) ==
  /\ \/ /\ faults < MaxFaults
        /\ faults' = faults + 1
     \/ /\ InLoop(tick[w])
        /\ ~AlreadyPosted(tick[w].rule, tick[w].row.next_run_at)
        /\ ~\E e \in Events : Fresh(e)
        /\ UNCHANGED faults
  /\ FailRule(w)

EndTick(w) ==
  /\ tick[w].pc = "scan"
  /\ tick[w].todo = {}
  /\ advisory' = IF advisory = w THEN None ELSE advisory
  /\ tick' = [tick EXCEPT ![w] = IdleTick]
  /\ UNCHANGED <<clock, rules, events, money, locks, req, used, faults>>

\* The process dies: its transaction is rolled back, its connections close.
CrashTick(w) ==
  /\ tick[w].pc # "idle"
  /\ faults < MaxFaults
  /\ faults' = faults + 1
  /\ Rollback(w)
  /\ advisory' = IF advisory = w THEN None ELSE advisory
  /\ tick' = [tick EXCEPT ![w] = IdleTick]
  /\ UNCHANGED <<clock, rules, req, used>>

\* The connection that holds the advisory lock is closed while the tick, which
\* uses another connection, goes on: from here on two ticks may overlap.
LoseAdvisory(w) ==
  /\ advisory = w
  /\ faults < MaxFaults
  /\ faults' = faults + 1
  /\ advisory' = None
  /\ UNCHANGED <<clock, rules, events, money, locks, tick, req, used>>

-----------------------------------------------------------------------------
(* User requests on rules: create_rule, update_rule, delete_rule *)

Begin(q) ==
  /\ req[q].pc = "idle"
  /\ used < MaxRequests
  /\ used' = used + 1

CreateRule(q) ==
  /\ Begin(q)
  /\ \E r \in Rules, d \in Drafts :
       /\ rules[r].status = "ABSENT"
       /\ d.end_at # None => d.end_at >= d.next_run_at
       /\ rules' = [rules EXCEPT ![r] =
            [status |-> "ACTIVE", next_run_at |-> d.next_run_at, end_at |-> d.end_at,
             max_runs |-> d.max_runs, run_count |-> 0, amount |-> d.amount]]
  /\ UNCHANGED <<clock, events, money, locks, advisory, tick, req, faults>>

\* _get_rule_for_edit: the row is read under FOR UPDATE; 404 when CANCELLED.
OpenRule(q) ==
  /\ Begin(q)
  /\ \E r \in Rules :
       /\ rules[r].status \notin {"ABSENT", "CANCELLED"}
       /\ RuleFree(r, q)
       /\ ruleLock' = [ruleLock EXCEPT ![r] = q]
       /\ req' = [req EXCEPT ![q] = [IdleReq EXCEPT !.pc = "rule", !.rule = r]]
  /\ UNCHANGED <<clock, rules, events, money, eventLock, poolLock, advisory, tick, faults>>

\* Resuming skips the paused periods instead of back-posting them.
Edited(row, ed) ==
  LET moved == IF ed.next_run_at # None THEN ed.next_run_at ELSE row.next_run_at
      resumed == ed.status = "ACTIVE" /\ row.status = "PAUSED"
  IN [row EXCEPT
        !.next_run_at = IF resumed THEN NextAfter(moved, clock) ELSE moved,
        !.end_at = IF ed.end_sent THEN ed.end_at ELSE @,
        !.max_runs = IF ed.max_sent THEN ed.max_runs ELSE @,
        !.amount = IF ed.amount # None THEN ed.amount ELSE @,
        !.status = IF ed.status # None /\ @ \in {"ACTIVE", "PAUSED"} THEN ed.status ELSE @]

UpdateRule(q) ==
  /\ req[q].pc = "rule"
  /\ \E ed \in Edits :
       LET row == Edited(rules[req[q].rule], ed) IN
       /\ ~(row.end_at # None /\ row.end_at < row.next_run_at)
       /\ rules' = [rules EXCEPT ![req[q].rule] = row]
  /\ Release(q)
  /\ req' = [req EXCEPT ![q] = IdleReq]
  /\ UNCHANGED <<clock, events, money, advisory, tick, used, faults>>

DeleteRule(q) ==
  /\ req[q].pc = "rule"
  /\ rules' = [rules EXCEPT ![req[q].rule].status = "CANCELLED"]
  /\ Release(q)
  /\ req' = [req EXCEPT ![q] = IdleReq]
  /\ UNCHANGED <<clock, events, money, advisory, tick, used, faults>>

-----------------------------------------------------------------------------
(* User requests on events: create_event, update_event, delete_event *)

\* The insert, the ledger row and the pool lock; committed by CommitEvent.
CreateEvent(q) ==
  /\ Begin(q)
  /\ \E e \in Events, p \in Pools, k \in Kinds, a \in Amounts \ {0} :
       /\ Fresh(e)
       /\ PoolFree(p, q)
       /\ poolLock' = [poolLock EXCEPT ![p] = q]
       /\ events' = [events EXCEPT ![e] =
            NewEvent(q, None, 0, p, k, a, total[p] + Signed(k, a))]
       /\ net' = [net EXCEPT ![e] = Signed(k, a)]
       /\ req' = [req EXCEPT ![q] =
            [IdleReq EXCEPT !.pc = "pool", !.op = "create", !.event = e, !.amount = a,
                            !.bal = total[p] + Signed(k, a)]]
  /\ UNCHANGED <<clock, rules, ledger, total, alerted, ruleLock, eventLock, advisory,
                 tick, faults>>

\* _get_event_for_edit: the event is read under FOR UPDATE.
OpenEvent(q) ==
  /\ Begin(q)
  /\ \E e \in Events, op \in {"update", "delete"}, a \in Amounts :
       /\ events[e].state = "live"
       /\ EventFree(e, q)
       /\ eventLock' = [eventLock EXCEPT ![e] = q]
       /\ op = "delete" => a = 0
       /\ req' = [req EXCEPT ![q] =
            [IdleReq EXCEPT !.pc = "event", !.op = op, !.event = e, !.amount = a]]
  /\ UNCHANGED <<clock, rules, events, money, ruleLock, poolLock, advisory, tick, faults>>

\* Mutant: the kind of the event is forgotten.
DeltaOfIncome(q) == req[q].amount - events[req[q].event].amount

\* The change of the pool that the request makes: a deleted entry counts 0.
Delta(q) ==
  LET row == events[req[q].event] IN
  Signed(row.kind, req[q].amount - row.amount)

\* _adjust_balance: no ledger row, and so no lock, when the amount is the same.
AdjustBalance(q) ==
  LET p == events[req[q].event].pool IN
  /\ req[q].pc = "event"
  /\ \/ /\ Delta(q) = 0
        /\ UNCHANGED poolLock
     \/ /\ Delta(q) # 0
        /\ PoolFree(p, q)
        /\ poolLock' = [poolLock EXCEPT ![p] = q]
  /\ req' = [req EXCEPT ![q] = [@ EXCEPT !.pc = "pool", !.bal = total[p] + Delta(q)]]
  /\ UNCHANGED <<clock, rules, events, money, ruleLock, eventLock, advisory, tick,
                 used, faults>>

CommitNewEvent(q) ==
  LET e == req[q].event
      row == events[e]
  IN
  /\ req[q].pc = "pool"
  /\ req[q].op = "create"
  /\ events' = Publish(q)
  /\ ledger' = [ledger EXCEPT ![row.pool] = @ + net[e]]
  /\ total' = [total EXCEPT ![row.pool] = req[q].bal]
  /\ alerted' = IF row.over THEN alerted \cup {e} ELSE alerted
  /\ Release(q)
  /\ req' = [req EXCEPT ![q] = IdleReq]
  /\ UNCHANGED <<clock, rules, net, advisory, tick, used, faults>>

CommitEdit(q) ==
  LET e == req[q].event
      row == events[e]
      d == Delta(q)
  IN
  /\ req[q].pc = "pool"
  /\ req[q].op \in {"update", "delete"}
  /\ events' = [events EXCEPT ![e] =
       IF req[q].op = "delete" THEN BlankEvent("gone")
       ELSE [row EXCEPT !.amount = req[q].amount,
                        !.over = row.kind = "EXPENSE" /\ req[q].bal < 0]]
  /\ net' = [net EXCEPT ![e] = @ + d]
  /\ ledger' = [ledger EXCEPT ![row.pool] = @ + d]
  /\ total' = [total EXCEPT ![row.pool] = IF d = 0 THEN @ ELSE req[q].bal]
  /\ Release(q)
  /\ req' = [req EXCEPT ![q] = IdleReq]
  /\ UNCHANGED <<clock, rules, alerted, advisory, tick, used, faults>>

\* The request fails or is cut off: nothing of it stays.
AbortRequest(q) ==
  /\ req[q].pc # "idle"
  /\ Rollback(q)
  /\ req' = [req EXCEPT ![q] = IdleReq]
  /\ UNCHANGED <<clock, rules, advisory, tick, used, faults>>

-----------------------------------------------------------------------------
(* The specification *)

Advance ==
  /\ clock < MaxDay
  /\ clock' = clock + 1
  /\ UNCHANGED <<rules, events, money, locks, advisory, tick, req, used, faults>>

\* What a tick does on its own, once it is started.
TickStep(w) ==
  \/ LockRule(w)
  \/ SkipRule(w)
  \/ PostPeriod(w)
  \/ RepeatPeriod(w)
  \/ CommitRule(w)
  \/ FailZeroAmount(w)
  \/ EndTick(w)

Fault(w) ==
  \/ FailTransient(w)
  \/ CrashTick(w)
  \/ LoseAdvisory(w)

\* What a request does on its own, once it is begun.
RequestStep(q) ==
  \/ UpdateRule(q)
  \/ DeleteRule(q)
  \/ AdjustBalance(q)
  \/ CommitNewEvent(q)
  \/ CommitEdit(q)
  \/ AbortRequest(q)

UserBegins(q) ==
  \/ CreateRule(q)
  \/ OpenRule(q)
  \/ CreateEvent(q)
  \/ OpenEvent(q)

Next ==
  \/ Advance
  \/ \E w \in Ticks, force \in Forcing : StartTick(w, force)
  \/ \E w \in Ticks : TickStep(w)
  \/ \E w \in Ticks : Fault(w)
  \/ \E q \in Requests : UserBegins(q)
  \/ \E q \in Requests : RequestStep(q)

Spec == Init /\ [][Next]_vars

\* APScheduler starts a tick every few minutes and a started tick or request
\* runs to its end; users need not come, and no forced tick need ever come.
Fairness ==
  /\ \A w \in Ticks : WF_vars(StartTick(w, FALSE)) /\ WF_vars(TickStep(w))
  /\ \A q \in Requests : WF_vars(RequestStep(q))

FairSpec == Spec /\ Fairness

-----------------------------------------------------------------------------
(* Properties *)

\* Every variable holds a value of its kind.
TypeOK ==
  /\ clock \in Day
  /\ rules \in [Rules -> RuleRow]
  /\ events \in [Events -> EventRow]
  /\ net \in [Events -> Int]
  /\ ledger \in [Pools -> Int]
  /\ total \in [Pools -> Int]
  /\ alerted \subseteq Events
  /\ ruleLock \in [Rules -> Sessions \cup {None}]
  /\ eventLock \in [Events -> Sessions \cup {None}]
  /\ poolLock \in [Pools -> Sessions \cup {None}]
  /\ advisory \in Ticks \cup {None}
  /\ tick \in [Ticks -> TickState]
  /\ req \in [Requests -> ReqState]
  /\ used \in Nat
  /\ faults \in Nat

\* The cached total of a pool is the signed sum of its committed ledger rows,
\* however ticks and requests interleave on the pool (apply_movement and
\* _update_cache, savings_ledger_service.py).
PoolMatchesLedger == \A p \in Pools : total[p] = ledger[p]

\* The ledger rows an event caused add up to what the event says now: its signed
\* amount while it exists, through any number of edits, and nothing once it is
\* deleted, even when two requests delete or edit it at the same time.
EventMatchesLedger ==
  \A e \in Events :
    net[e] = IF events[e].state \in {"new", "live"}
             THEN Signed(events[e].kind, events[e].amount)
             ELSE 0

\* A rule has at most one event for a period, also when two ticks overlap after
\* the advisory lock was lost, when a tick is forced, or when a user moves the
\* rule back to days it already ran for.
OneEventPerPeriod ==
  \A e, f \in Events :
    /\ events[e].state = "live"
    /\ events[f].state = "live"
    /\ events[e].rule # None
    /\ events[e].rule = events[f].rule
    /\ events[e].period = events[f].period
    => e = f

\* A tick posts only periods that are due at its now; a forced tick posts, per
\* rule, one period that is not due yet and never a second one.
AheadOf(w) == {e \in Events : /\ events[e].by = w
                              /\ events[e].period > tick[w].now}
OnlyDuePosted ==
  \A w \in Ticks : Cardinality(AheadOf(w)) <= IF tick[w].force THEN 1 ELSE 0

\* The events that a step makes visible.
Appearing == {e \in Events : events[e].state = "new" /\ events'[e].state = "live"}

\* When a posting of a rule becomes visible, the rule is ACTIVE: a pause or a
\* delete that was committed before is never followed by one more posting, even
\* of a tick that had already read the rule.
NoPostAfterStop ==
  [][\A e \in Appearing :
       events[e].rule # None => rules[events[e].rule].status = "ACTIVE"]_vars

\* A commit of a tick counts in run_count exactly the events it makes visible,
\* never passes max_runs with more than the one run that notices it, and leaves
\* the rule COMPLETED as soon as the limit is reached.
RunsStopAtLimit ==
  [][\A r \in Rules :
       LET posted == Cardinality({e \in Appearing : events[e].rule = r})
           limit == rules[r].max_runs
           count == rules'[r].run_count
       IN /\ posted > 0 => count = rules[r].run_count + posted
          /\ posted > 0 /\ limit # None /\ count >= limit => rules'[r].status = "COMPLETED"
          /\ posted > 1 /\ limit # None => count <= limit]_vars

\* When a commit makes expenses visible, the flag of the latest one says whether
\* the pool it leaves behind is negative, and then somebody is notified in the
\* same commit.
OverdraftIsReported ==
  [][\A e \in Appearing :
       /\ events[e].kind = "EXPENSE"
       /\ \A f \in Appearing : events[f].period <= events[e].period
       => LET negative == total'[events[e].pool] < 0 IN
          /\ events'[e].over = negative
          /\ negative => e \in alerted']_vars

\* Module doc of money_rule_cron.py: "Missed periods (downtime) are posted one by
\* one, up to MAX_CATCH_UP; older periods beyond that are skipped": a period the
\* run leaves behind unposted is not newer than one it posts.
SkipsOlderPeriods ==
  [][\A e \in Appearing : events[e].rule # None =>
       LET r == events[e].rule
           later == (events[e].period + 1)..(rules'[r].next_run_at - 1)
       IN \A d \in later : (d - events[e].period) % Step = 0 =>
            \E f \in Events : /\ events'[f].state = "live"
                              /\ events'[f].rule = r
                              /\ events'[f].period = d]_vars

\* A rule that can be posted does not stay due for ever: a failing rule does not
\* block the others, and a rule skipped because its row was locked, or rolled
\* back by a crash, is taken by a later tick.
Overdue(r) ==
  /\ rules[r].status = "ACTIVE"
  /\ rules[r].next_run_at <= clock
  /\ rules[r].amount > 0
DueRulesMove == \A r \in Rules : Overdue(r) ~> ~Overdue(r)

\* What a user sees of an event: its pool and its signed amount while it is live.
Visible(row) ==
  [status |-> CASE row.state \in {"free", "new"} -> "unused"
                [] row.state = "live" -> "open"
                [] row.state = "gone" -> "closed",
   pool |-> IF row.state = "live" THEN row.pool ELSE None,
   value |-> IF row.state = "live" THEN Signed(row.kind, row.amount) ELSE 0]
Entries == [e \in Events |-> Visible(events[e])]

\* The service implements a savings book: entries that are opened, amended and
\* closed, the balance of their pool moving by the same amount in the same step.
Book == INSTANCE SavingsBook WITH Entries <- Events, book <- Entries, balance <- total
ImplementsBook == Book!Spec
=============================================================================
