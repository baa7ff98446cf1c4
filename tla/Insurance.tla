------------------------------ MODULE Insurance ------------------------------
(***************************************************************************)
(* Insurance policies and the premiums the scheduler charges for them.  A  *)
(* policy has a schedule: a year of installments that renews itself        *)
(* (INTERVAL), dates the user chose (CUSTOM), or nothing.  A tick charges  *)
(* the installments that are due, each in a transaction of its own; users  *)
(* create, edit and delete policies.                                       *)
(*                                                                         *)
(* An installment is known by its policy and its due date: the unique      *)
(* constraint on the two counts rows of every status.  Only one tick holds *)
(* the scheduler's advisory lock, but it can lose it and run on (see       *)
(* MoneyRules), so the ticks here may overlap.                             *)
(***************************************************************************)
EXTENDS Integers, FiniteSets

CONSTANTS
  Policies,       \* ids of policies
  Ticks,          \* runs of the scheduler's insurance part
  Requests,       \* user requests on policies
  None,
  YearLength,     \* days of a policy year
  PeriodsOf,      \* payments a year, per frequency
  Drafts,         \* bodies of create requests
  Edits,          \* bodies of update requests
  MaxDay,         \* bound on the clock
  MaxRequests,    \* bound on the requests that change a policy
  MaxFaults       \* bound on transient failures and crashes

Frequencies == DOMAIN PeriodsOf
Dates == 0..(MaxDay + 2 * YearLength)
Sessions == Ticks \cup Requests

Modes == {"NONE", "INTERVAL", "CUSTOM"}
Statuses == {"ABSENT", "ACTIVE", "LAPSED", "COMPLETED", "CANCELLED"}

ASSUME SessionAssumption ==
  /\ Ticks \cap Requests = {}
  /\ None \notin Sessions
  /\ None \notin Policies \X Dates
ASSUME NoneAssumption ==
  /\ None \notin Nat
  /\ None \notin Frequencies
  /\ None \notin Policies
ASSUME InsuranceAssumption ==
  /\ YearLength \in Nat \ {0} /\ MaxDay \in Nat /\ MaxRequests \in Nat /\ MaxFaults \in Nat
  /\ PeriodsOf \in [Frequencies -> 1..YearLength]
  /\ \A f \in Frequencies : YearLength % PeriodsOf[f] = 0
  /\ \A d \in Drafts \cup Edits :
       /\ d.mode \in Modes \cup {None} /\ d.annual \in (Nat \ {0}) \cup {None}
       /\ d.every \in Frequencies \cup {None} /\ d.next \in (0..(MaxDay + 1)) \cup {None}
       /\ d.status \in {"ACTIVE", "LAPSED", None} /\ d.end \in Dates \cup {None}
       /\ DOMAIN d.dates \subseteq Dates /\ \A x \in DOMAIN d.dates : d.dates[x] \in Nat \ {0}

VARIABLES
  day,        \* the clock
  policies,   \* committed rows of family_insurances and personal_insurances
  inst,       \* committed rows of fos_insurance_installments
  spent,      \* what the premium ledger rows of each installment took from the pool
  policyLock, \* which transaction holds the lock of each policy
  rowLock,    \* which transaction holds the lock of each installment
  charge,     \* per tick: the installments it listed and the one it works on
  edit,       \* per request: what it loaded, and how far it is
  used, faults

vars == <<day, policies, inst, spent, policyLock, rowLock, charge, edit, used, faults>>

-----------------------------------------------------------------------------
(* Rows *)

\* "rule": a legacy money rule, ACTIVE or PAUSED, still pays the premium.
AbsentPolicy == [status |-> "ABSENT", mode |-> "NONE", annual |-> None, every |-> None,
                 next |-> None, end |-> None, rule |-> FALSE]
LegacyPolicy == [AbsentPolicy EXCEPT !.status = "ACTIVE", !.mode = "LEGACY", !.next = 1,
                                     !.rule = TRUE]

PolicyRow ==
  [status: Statuses, mode: Modes \cup {"LEGACY"}, annual: (Nat \ {0}) \cup {None},
   every: Frequencies \cup {None}, next: Dates \cup {None}, end: Dates \cup {None},
   rule: BOOLEAN]

AbsentRow == [status |-> "ABSENT", amount |-> 0]
InstallmentRow == [status: {"ABSENT", "PENDING", "PAID", "CANCELLED"}, amount: Nat]
NothingSent == [mode |-> None, annual |-> None, every |-> None, next |-> None,
                dates |-> [d \in {} |-> 0], status |-> None, end |-> None]

\* What a tick keeps between its statements: the pending installments it counted when
\* it looked whether the year is over, and the next date it selected.
NoCharge == [ids |-> {}, at |-> None, on |-> FALSE, phase |-> "IDLE", saw |-> {}, next |-> None]
NoEdit == [op |-> None, policy |-> None, seen |-> AbsentPolicy, req |-> NothingSent,
           targets |-> {}, phase |-> "IDLE", next |-> None]

Charge == [ids: SUBSET (Policies \X Dates), at: (Policies \X Dates) \cup {None}, on: BOOLEAN,
           phase: {"IDLE", "LOCKED", "COUNTED", "SELECTED"}, saw: SUBSET Dates,
           next: Dates \cup {None}]
EditRecord ==
  [op: {"update", "delete", None}, policy: Policies \cup {None}, seen: PolicyRow,
   req: Edits \cup {NothingSent}, targets: SUBSET Dates, next: Dates \cup {None},
   phase: {"IDLE", "LOADED", "FLUSHED", "CANCELLING", "READY", "SCHEDULED"}]

PendingOf(rows) == {d \in Dates : rows[d].status = "PENDING"}

\* Mutant: the pending rows are not put in order.
LastPending(rows) ==
  IF PendingOf(rows) = {} THEN None
  ELSE CHOOSE d \in PendingOf(rows) : \A e \in PendingOf(rows) : e <= d

\* refresh_next_due
Earliest(rows) ==
  IF PendingOf(rows) = {} THEN None
  ELSE CHOOSE d \in PendingOf(rows) : \A e \in PendingOf(rows) : d <= e

Init ==
  /\ day = 0
  /\ policies \in [Policies -> {AbsentPolicy, LegacyPolicy}]
  /\ inst = [p \in Policies |-> [d \in Dates |-> AbsentRow]]
  /\ spent = [p \in Policies |-> [d \in Dates |-> 0]]
  /\ policyLock = [p \in Policies |-> None]
  /\ rowLock = [p \in Policies |-> [d \in Dates |-> None]]
  /\ charge = [w \in Ticks |-> NoCharge]
  /\ edit = [q \in Requests |-> NoEdit]
  /\ used = 0
  /\ faults = 0

Advance ==
  /\ day < MaxDay
  /\ day' = day + 1
  /\ UNCHANGED <<policies, inst, spent, policyLock, rowLock, charge, edit, used, faults>>

-----------------------------------------------------------------------------
(* Schedules: split_annual, generate_interval_year, check_schedule *)

Gap(every) == YearLength \div PeriodsOf[every]

\* Payment k of n: an even split, and the last payment absorbs the rounding.
Split(annual, n, k) ==
  LET base == annual \div n IN
  IF k = n - 1 THEN annual - base * (n - 1) ELSE base

\* One policy year from "first", cut at the end of the policy.
IntervalYear(annual, every, first, end) ==
  LET n == PeriodsOf[every]
      kept == {k \in 0..(n - 1) : end = None \/ first + k * Gap(every) <= end}
  IN [d \in {first + k * Gap(every) : k \in kept} |->
        Split(annual, n, (d - first) \div Gap(every))]

\* The rows a schedule inserts must be new, and their amounts positive.
Insertable(rows, schedule) ==
  \A d \in DOMAIN schedule : rows[d].status = "ABSENT" /\ schedule[d] > 0

Insert(rows, schedule) ==
  [d \in Dates |-> IF d \in DOMAIN schedule
                   THEN [status |-> "PENDING", amount |-> schedule[d]] ELSE rows[d]]

\* A schedule key was sent.
Reschedules(req) ==
  \/ req.mode # None \/ req.annual # None \/ req.every # None \/ req.next # None
  \/ DOMAIN req.dates # {}

\* The schedule an update asks for: what it leaves out comes from the policy.
MergedMode(seen, req) ==
  CASE req.mode # None -> req.mode
    [] req.mode = None /\ seen.mode = "LEGACY" -> "NONE"
    [] OTHER -> seen.mode

Merged(seen, req) ==
  [mode |-> MergedMode(seen, req),
   annual |-> IF req.annual # None THEN req.annual ELSE seen.annual,
   every |-> IF req.every # None THEN req.every ELSE seen.every,
   next |-> IF req.next # None THEN req.next ELSE seen.next,
   dates |-> req.dates]

ValidSchedule(m) ==
  /\ m.mode = "INTERVAL" => m.annual # None /\ m.every # None /\ m.next # None
  /\ m.mode = "CUSTOM" => DOMAIN m.dates # {}

Wanted(m, end) ==
  CASE m.mode = "INTERVAL" -> IntervalYear(m.annual, m.every, m.next, end)
    [] m.mode = "CUSTOM" -> m.dates
    [] OTHER -> [d \in {} |-> 0]

-----------------------------------------------------------------------------
(* Charging: run_insurance_installments, charge_installment *)

Due == {x \in Policies \X Dates : inst[x[1]][x[2]].status = "PENDING" /\ x[2] <= day}

StartTick(w) ==
  /\ ~charge[w].on
  /\ Due # {}
  /\ charge' = [charge EXCEPT ![w] = [NoCharge EXCEPT !.ids = Due, !.on = TRUE]]
  /\ UNCHANGED <<day, policies, inst, spent, policyLock, rowLock, edit, used, faults>>

\* The listed installments are taken by due date.
Oldest(w, x) == x \in charge[w].ids /\ \A y \in charge[w].ids : x[2] <= y[2]

Payable(x) == inst[x[1]][x[2]].status = "PENDING"

LockInstallment(w) ==
  /\ charge[w].at = None
  /\ \E x \in charge[w].ids :
       /\ Oldest(w, x)
       /\ Payable(x) /\ rowLock[x[1]][x[2]] = None
       /\ charge' = [charge EXCEPT ![w].at = x, ![w].ids = @ \ {x}, ![w].phase = "LOCKED"]
       /\ rowLock' = [rowLock EXCEPT ![x[1]][x[2]] = w]
  /\ UNCHANGED <<day, policies, inst, spent, policyLock, edit, used, faults>>

\* Charged or cancelled meanwhile, or locked: SKIP LOCKED.
SkipInstallment(w) ==
  /\ charge[w].at = None
  /\ \E x \in charge[w].ids :
       /\ Oldest(w, x)
       /\ ~Payable(x) \/ rowLock[x[1]][x[2]] # None
       /\ charge' = [charge EXCEPT ![w].ids = @ \ {x}]
  /\ UNCHANGED <<day, policies, inst, spent, policyLock, rowLock, edit, used, faults>>

EndTick(w) ==
  /\ charge[w].on /\ charge[w].at = None /\ charge[w].ids = {}
  /\ charge' = [charge EXCEPT ![w] = NoCharge]
  /\ UNCHANGED <<day, policies, inst, spent, policyLock, rowLock, edit, used, faults>>

Release(w) ==
  /\ rowLock' = [p \in Policies |->
                  [d \in Dates |-> IF rowLock[p][d] = w THEN None ELSE rowLock[p][d]]]
  /\ policyLock' = [p \in Policies |-> IF policyLock[p] = w THEN None ELSE policyLock[p]]
  /\ charge' = [charge EXCEPT ![w] = [NoCharge EXCEPT !.ids = charge[w].ids, !.on = TRUE]]

PolicyFree(p, s) == policyLock[p] \in {None, s}

\* The lock of the policy: FOR UPDATE, or what an UPDATE of the policy takes.
ReadPolicy(p, s) == UNCHANGED policyLock      \* mutant: the policy is read without a lock
TakePolicy(p, s) == PolicyFree(p, s) /\ policyLock' = [policyLock EXCEPT ![p] = s]

Chargeable(p) == policies[p].status = "ACTIVE"

\* The rows after the premium of date d is charged, before the next year is added.
PaidRows(p, d) == [inst[p] EXCEPT ![d].status = "PAID"]

\* _extend_interval_year: "paid" is the last payment of the year.
Extends(pol, pending) ==
  pol.mode = "INTERVAL" /\ pending = {} /\ pol.annual # None /\ pol.every # None

NextYear(pol, paid) == IntervalYear(pol.annual, pol.every, paid + Gap(pol.every), pol.end)

PastEnd(pol, paid) == pol.end # None /\ paid + Gap(pol.every) > pol.end

\* The year would begin after the end of the policy: it is over.
Completes(pol, pending, paid) == Extends(pol, pending) /\ PastEnd(pol, paid)

NewYear(pol, pending, paid) ==
  IF Extends(pol, pending) /\ ~PastEnd(pol, paid)
  THEN NextYear(pol, paid) ELSE [x \in {} |-> 0]

\* The year a tick has inserted and not yet committed.
YearOf(w) ==
  IF charge[w].phase \in {"COUNTED", "SELECTED"}
  THEN NewYear(policies[charge[w].at[1]], charge[w].saw, charge[w].at[2])
  ELSE [x \in {} |-> 0]

\* What a tick sees of its policy: what is committed, and its own statements.
ChargedRows(w) == Insert(PaidRows(charge[w].at[1], charge[w].at[2]), YearOf(w))

\* An edit that has inserted its schedule and not yet committed it.
Scheduling(q, p) == edit[q].phase = "SCHEDULED" /\ edit[q].policy = p

\* The schedule an edit asks for.
NewEnd(e) == IF e.req.end # None THEN e.req.end ELSE e.seen.end
NewSchedule(e) ==
  IF Reschedules(e.req) THEN Wanted(Merged(e.seen, e.req), NewEnd(e))
  ELSE [d \in {} |-> 0]

\* An INSERT waits for a transaction that has inserted the same date.
Inserting(p) ==
  UNION ({DOMAIN YearOf(w) : w \in {v \in Ticks : charge[v].at # None /\ charge[v].at[1] = p}}
         \cup {DOMAIN NewSchedule(edit[q]) : q \in {r \in Requests : Scheduling(r, p)}})

\* FOR UPDATE of the policy, the count of what is pending, the INSERTs of the next year.
LockPolicy(w) ==
  /\ charge[w].phase = "LOCKED"
  /\ LET p == charge[w].at[1]
         d == charge[w].at[2]
         saw == PendingOf(PaidRows(p, d))
         year == NewYear(policies[p], saw, d)
     IN
     /\ TakePolicy(p, w)
     /\ Chargeable(p)
     /\ Insertable(inst[p], year)
     /\ DOMAIN year \cap Inserting(p) = {}
     /\ charge' = [charge EXCEPT ![w].phase = "COUNTED", ![w].saw = saw]
  /\ UNCHANGED <<day, policies, inst, spent, rowLock, edit, used, faults>>

\* refresh_next_due: an edit may have committed since the count.
SelectNext(w) ==
  /\ charge[w].phase = "COUNTED"
  /\ charge' = [charge EXCEPT ![w].phase = "SELECTED", ![w].next = Earliest(ChargedRows(w))]
  /\ UNCHANGED <<day, policies, inst, spent, policyLock, rowLock, edit, used, faults>>

ChargeInstallment(w) ==
  /\ charge[w].phase = "SELECTED"
  /\ LET p == charge[w].at[1]
         d == charge[w].at[2]
     IN
     /\ inst' = [inst EXCEPT ![p] = ChargedRows(w)]
     /\ spent' = [spent EXCEPT ![p][d] = @ + inst[p][d].amount]
     /\ policies' = [policies EXCEPT
          ![p].status = IF Completes(policies[p], charge[w].saw, d) THEN "COMPLETED" ELSE @,
          ![p].next = charge[w].next]
  /\ Release(w)
  /\ UNCHANGED <<day, edit, used, faults>>

\* The policy is no longer ACTIVE: the installment is cancelled, not charged.
CancelInstallment(w) ==
  /\ charge[w].phase = "LOCKED"
  /\ LET p == charge[w].at[1] IN
     /\ PolicyFree(p, w)
     /\ ~Chargeable(p)
     /\ inst' = [inst EXCEPT ![p][charge[w].at[2]].status = "CANCELLED"]
  /\ Release(w)
  /\ UNCHANGED <<day, policies, spent, edit, used, faults>>

\* The next year meets a date that is taken, or that an edit has inserted and commits
\* first, or rounds to 0: rolled back, and the tick goes on with the next installment.
FailYear(w) ==
  /\ charge[w].phase = "LOCKED"
  /\ LET p == charge[w].at[1]
         d == charge[w].at[2]
         year == NewYear(policies[p], PendingOf(PaidRows(p, d)), d)
     IN
     /\ PolicyFree(p, w)
     /\ Chargeable(p)
     /\ ~Insertable(inst[p], year) \/ DOMAIN year \cap Inserting(p) # {}
  /\ Release(w)
  /\ UNCHANGED <<day, policies, inst, spent, edit, used, faults>>

FailTransient(w) ==
  /\ charge[w].at # None
  /\ faults < MaxFaults
  /\ faults' = faults + 1
  /\ Release(w)
  /\ UNCHANGED <<day, policies, inst, spent, edit, used>>

CrashTick(w) ==
  /\ charge[w].on
  /\ faults < MaxFaults
  /\ faults' = faults + 1
  /\ rowLock' = [p \in Policies |->
                  [d \in Dates |-> IF rowLock[p][d] = w THEN None ELSE rowLock[p][d]]]
  /\ policyLock' = [p \in Policies |-> IF policyLock[p] = w THEN None ELSE policyLock[p]]
  /\ charge' = [charge EXCEPT ![w] = NoCharge]
  /\ UNCHANGED <<day, policies, inst, spent, edit, used>>

-----------------------------------------------------------------------------
(* User requests: create_insurance, update_insurance, delete_insurance *)

Count == used < MaxRequests /\ used' = used + 1

\* What apply_schedule leaves in the policy besides next_premium_date.
Rescheduled(pol, m) ==
  [pol EXCEPT !.mode = m.mode, !.rule = FALSE,
              !.annual = IF m.mode = "INTERVAL" THEN m.annual ELSE None,
              !.every = IF m.mode = "INTERVAL" THEN m.every ELSE None]

CreateInsurance ==
  /\ Count
  /\ \E p \in Policies, req \in Drafts :
       LET m == [Merged(AbsentPolicy, req) EXCEPT !.mode = IF @ = None THEN "NONE" ELSE @]
           schedule == Wanted(m, req.end)
           rows == Insert(inst[p], schedule)
       IN
       /\ policies[p].status = "ABSENT"
       /\ ValidSchedule(m)
       /\ Insertable(inst[p], schedule)
       /\ inst' = [inst EXCEPT ![p] = rows]
       /\ policies' = [policies EXCEPT ![p] =
            [Rescheduled(AbsentPolicy, m) EXCEPT !.status = "ACTIVE", !.end = req.end,
                                                 !.next = Earliest(rows)]]
  /\ UNCHANGED <<day, spent, policyLock, rowLock, charge, edit, faults>>

\* get_insurance, without a lock.
Load(q, op, req) ==
  /\ edit[q].op = None
  /\ Count
  /\ \E p \in Policies :
       /\ policies[p].status \notin {"ABSENT", "CANCELLED"}
       /\ Reschedules(req) => ValidSchedule(Merged(policies[p], req))
       /\ edit' = [edit EXCEPT ![q] = [op |-> op, policy |-> p, seen |-> policies[p],
                                       req |-> req, targets |-> {}, phase |-> "LOADED",
                                       next |-> None]]
  /\ UNCHANGED <<day, policies, inst, spent, policyLock, rowLock, charge, faults>>

BeginUpdate(q) == \E req \in Edits : Load(q, "update", req)
BeginDelete(q) == Load(q, "delete", NothingSent)

\* The attributes update_insurance sets before it looks at the schedule.
SentStatus(e) == e.req.status     \* mutant: a status that was not sent is set too
NewStatus(e) ==
  IF e.req.status # None THEN e.req.status ELSE e.seen.status
Dirty(e) == NewStatus(e) # e.seen.status \/ NewEnd(e) # e.seen.end

Cancels(e) == e.op = "delete" \/ Reschedules(e.req) \/ NewStatus(e) # "ACTIVE"

Move(q, from, to) ==
  edit[q].phase = from /\ edit' = [edit EXCEPT ![q].phase = to]

\* Autoflush writes a policy that was changed before the next statement runs.  (An
\* update may change columns that are not modelled: its policy is locked, too.)
FlushPolicy(q) ==
  /\ Move(q, "LOADED", "FLUSHED")
  /\ edit[q].op = "update"
  /\ TakePolicy(edit[q].policy, q)
  /\ UNCHANGED <<day, policies, inst, spent, rowLock, charge, used, faults>>

Flushed(e) == e.phase = "FLUSHED" \/ (e.phase = "LOADED" /\ ~Dirty(e))

\* _cancel_pending: the UPDATE sees the rows that are PENDING when it starts, ...
SelectPending(q) ==
  /\ Flushed(edit[q]) /\ Cancels(edit[q])
  /\ edit' = [edit EXCEPT ![q].phase = "CANCELLING",
                          ![q].targets = PendingOf(inst[edit[q].policy])]
  /\ UNCHANGED <<day, policies, inst, spent, policyLock, rowLock, charge, used, faults>>

\* Mutant: the rows are cancelled as they were selected.
AsSelected(e) == e.targets

StillPending(e) == e.targets \cap PendingOf(inst[e.policy])

\* ... waits for those that are locked, and leaves out what is PENDING no more.
LockPending(q) ==
  LET p == edit[q].policy IN
  /\ edit[q].phase = "CANCELLING"
  /\ \A d \in edit[q].targets : rowLock[p][d] \in {None, q}
  /\ edit' = [edit EXCEPT ![q].phase = "READY", ![q].targets = StillPending(edit[q])]
  /\ rowLock' = [rowLock EXCEPT ![p] =
       [d \in Dates |-> IF d \in StillPending(edit[q]) THEN q ELSE rowLock[p][d]]]
  /\ UNCHANGED <<day, policies, inst, spent, policyLock, charge, used, faults>>

Finish(q) ==
  /\ rowLock' = [p \in Policies |->
                  [d \in Dates |-> IF rowLock[p][d] = q THEN None ELSE rowLock[p][d]]]
  /\ policyLock' = [p \in Policies |-> IF policyLock[p] = q THEN None ELSE policyLock[p]]
  /\ edit' = [edit EXCEPT ![q] = NoEdit]

CancelledRows(e) ==
  [d \in Dates |-> IF d \in e.targets THEN [inst[e.policy][d] EXCEPT !.status = "CANCELLED"]
                   ELSE inst[e.policy][d]]

LeavesRule(e, now) == now      \* mutant: _cancel_legacy_rules is forgotten
KeepsRule(e, now) == e.op = "update" /\ ~Reschedules(e.req) /\ now

\* _cancel_legacy_rules has locked the rule until the edit commits.
RuleLocked(p) ==
  policies[p].rule /\ \E q \in Requests : Scheduling(q, p) /\ ~KeepsRule(edit[q], TRUE)

\* The schedule columns differ from what was loaded: they are written with the rows.
WritesSchedule(e) ==
  /\ e.op = "update" /\ Reschedules(e.req)
  /\ LET m == Merged(e.seen, e.req) IN
     Rescheduled(e.seen, m) # [e.seen EXCEPT !.rule = FALSE]

\* So may be the premium, which is not modelled.
MayWriteSchedule(e) ==
  e.op = "update" /\ Reschedules(e.req) /\ Merged(e.seen, e.req).mode \in {"INTERVAL", "CUSTOM"}

\* The rest of apply_schedule: the rule, the policy and the new rows are written, then
\* refresh_next_due selects the date the commit will write.  A delete selects none.
ApplySchedule(q) ==
  LET e == edit[q]
      p == e.policy
  IN
  /\ e.phase = "READY"
  /\ ~KeepsRule(e, TRUE) => ~RuleLocked(p)
  /\ Insertable(CancelledRows(e), NewSchedule(e))
  /\ DOMAIN NewSchedule(e) \cap Inserting(p) = {}
  /\ \/ (WritesSchedule(e) \/ MayWriteSchedule(e)) /\ TakePolicy(p, q)
     \/ ~WritesSchedule(e) /\ UNCHANGED policyLock
  /\ edit' = [edit EXCEPT ![q].phase = "SCHEDULED",
       ![q].next = IF e.op = "delete" THEN None
                   ELSE Earliest(Insert(CancelledRows(e), NewSchedule(e)))]
  /\ UNCHANGED <<day, policies, inst, spent, rowLock, charge, used, faults>>

\* An UPDATE writes the attributes that differ from what was loaded.
Written(old, new, now) == IF new # old THEN new ELSE now

\* What the request makes of the policy it loaded.
NewPolicy(e) ==
  IF e.op = "delete" THEN [e.seen EXCEPT !.status = "CANCELLED", !.next = None]
  ELSE LET pol == [e.seen EXCEPT !.status = NewStatus(e), !.end = NewEnd(e),
                                 !.next = IF Cancels(e) THEN e.next ELSE @]
       IN IF Reschedules(e.req) THEN Rescheduled(pol, Merged(e.seen, e.req)) ELSE pol

\* Something of the policy is left for the commit to write; else it takes no lock.
LeftToWrite(e) == e.op = "delete" \/ e.next # e.seen.next

CommitEdit(q) ==
  LET e == edit[q]
      new == NewPolicy(e)
  IN
  /\ e.op # None
  /\ IF Cancels(e)
     THEN e.phase = "SCHEDULED" /\ (LeftToWrite(e) => PolicyFree(e.policy, q))
     ELSE Flushed(e)
  /\ inst' = [inst EXCEPT ![e.policy] = Insert(CancelledRows(e), NewSchedule(e))]
  /\ policies' = [policies EXCEPT ![e.policy] =
       [status |-> Written(e.seen.status, new.status, @.status),
        mode |-> Written(e.seen.mode, new.mode, @.mode),
        annual |-> Written(e.seen.annual, new.annual, @.annual),
        every |-> Written(e.seen.every, new.every, @.every),
        next |-> Written(e.seen.next, new.next, @.next),
        end |-> Written(e.seen.end, new.end, @.end),
        rule |-> KeepsRule(e, @.rule)]]
  /\ Finish(q)
  /\ UNCHANGED <<day, spent, charge, used, faults>>

\* A new date is taken by a row of any status, an amount is 0, the connection is lost,
\* or the transaction is the victim of a deadlock: nothing is changed.
FailEdit(q) ==
  /\ edit[q].op # None
  /\ Finish(q)
  /\ UNCHANGED <<day, policies, inst, spent, charge, used, faults>>

-----------------------------------------------------------------------------
(* Deadlocks: PostgreSQL ends one of the transactions.  FailEdit has the cases    *)
(* in which that is an edit, FailYear those in which a tick waits for the date of  *)
(* an edit that waits for the policy.                                              *)

HoldsAwaited(w, q) ==
  \E d \in edit[q].targets : rowLock[edit[q].policy][d] = w

\* The edit holds the policy and waits for the tick's installment.
EndDeadlock(w, q) ==
  /\ charge[w].phase = "LOCKED" /\ charge[w].at[1] = edit[q].policy
  /\ edit[q].phase = "CANCELLING" /\ policyLock[edit[q].policy] = q
  /\ HoldsAwaited(w, q)
  /\ Release(w)
  /\ UNCHANGED <<day, policies, inst, spent, edit, used, faults>>

-----------------------------------------------------------------------------
(* Policies older than schedules: their money rule counts the premiums down. *)

\* The rule posts its last premium and completes itself and the policy, of whose row
\* the run writes nothing but the status.  (SKIP LOCKED; should it and an edit wait for
\* each other, the run is repeated later or FailEdit ends the edit.)
LastLegacyPremium(p) ==
  /\ policies[p].rule /\ ~RuleLocked(p)
  /\ policyLock[p] = None
  /\ policies' = [policies EXCEPT ![p].status = "COMPLETED", ![p].rule = FALSE]
  /\ UNCHANGED <<day, inst, spent, policyLock, rowLock, charge, edit, used, faults>>

-----------------------------------------------------------------------------
(* The specification *)

TickStep(w) ==
  \/ LockInstallment(w)
  \/ SkipInstallment(w)
  \/ LockPolicy(w)
  \/ SelectNext(w)
  \/ ChargeInstallment(w)
  \/ CancelInstallment(w)
  \/ FailYear(w)
  \/ EndTick(w)

EditStep(q) ==
  \/ FlushPolicy(q)
  \/ SelectPending(q)
  \/ LockPending(q)
  \/ ApplySchedule(q)
  \/ CommitEdit(q)
  \/ FailEdit(q)

Next ==
  \/ Advance
  \/ CreateInsurance
  \/ \E w \in Ticks : StartTick(w) \/ TickStep(w) \/ FailTransient(w) \/ CrashTick(w)
  \/ \E q \in Requests : BeginUpdate(q) \/ BeginDelete(q) \/ EditStep(q)
  \/ \E w \in Ticks, q \in Requests : EndDeadlock(w, q)
  \/ \E p \in Policies : LastLegacyPremium(p)

Spec == Init /\ [][Next]_vars

-----------------------------------------------------------------------------
(* Properties *)

\* Every variable holds a value of its kind.
TypeOK ==
  /\ day \in 0..MaxDay /\ used \in 0..MaxRequests /\ faults \in 0..MaxFaults
  /\ policies \in [Policies -> PolicyRow]
  /\ inst \in [Policies -> [Dates -> InstallmentRow]]
  /\ spent \in [Policies -> [Dates -> Nat]]
  /\ policyLock \in [Policies -> Sessions \cup {None}]
  /\ rowLock \in [Policies -> [Dates -> Sessions \cup {None}]]
  /\ charge \in [Ticks -> Charge]
  /\ edit \in [Requests -> EditRecord]

\* An installment is charged once, in full, and is PAID exactly then; an edit or a
\* deletion that cancels what is pending leaves out what a tick charged meanwhile.
ChargedOnce ==
  \A p \in Policies, d \in Dates :
    spent[p][d] = IF inst[p][d].status = "PAID" THEN inst[p][d].amount ELSE 0

\* No premium becomes visible for a policy that is not ACTIVE when it is committed,
\* though the tick looked at the status two statements before: no edit, no deletion and
\* no other tick ends the policy in between.
NoChargeAfterEnd ==
  [][\A p \in Policies : spent'[p] # spent[p] => policies[p].status = "ACTIVE"]_vars

\* A policy with installments is not paid by its legacy rule as well.
OneCollector ==
  \A p \in Policies : (\E d \in Dates : inst[p][d].status # "ABSENT") => ~policies[p].rule

\* All that a tick counted when it charged an installment of p is cancelled.
CountedIsCancelled(p) ==
  \E w \in Ticks :
    /\ charge[w].at # None /\ charge[w].at[1] = p /\ charge[w].saw # {}
    /\ \A d \in charge[w].saw : inst[p][d].status = "CANCELLED"

\* The tick that charges the last installment of a year adds the next year or, past
\* the end of the policy, completes it: whichever of two ticks comes last, no interval
\* policy is left with nothing to charge.  Only an edit that has nothing to write to the
\* policy, and so does not wait for it, can cancel what the tick has counted.  (Each edit
\* writes only the columns that differ from what it loaded, so two pairs of edits that
\* overlap can mix an INTERVAL policy out of columns of which none is its amount or its
\* frequency; that one just ends.)
YearGoesOn ==
  [][\A p \in Policies :
       LET pol == policies[p] IN
       /\ spent'[p] # spent[p]
       /\ pol.mode = "INTERVAL" /\ pol.annual # None /\ pol.every # None
       => \/ PendingOf(inst'[p]) # {}
          \/ policies'[p].status = "COMPLETED"
          \/ CountedIsCancelled(p)]_vars

\* The date shown as the next one is not after the first installment to charge.
ShownInTime(p) ==
  policies[p].next # None => \A d \in PendingOf(inst[p]) : policies[p].next <= d

\* q selected the date that p shows next without the lock of p, or it loaded p when it
\* was a policy from before schedules.
SelectedUnlocked(q, p) ==
  edit[q].policy = p /\ (policyLock[p] # q \/ edit[q].seen.mode = "LEGACY")

\* No premium is charged before the date the user is shown as the next one, as far as
\* ticks and the edits that hold the policy when they select that date are concerned.
\* (The date may be early: one whose installment the tick cancelled.  And none may be
\* shown, when an edit that loaded a policy before its deletion was committed sets it to
\* ACTIVE again.)  Two kinds of edit can undo it: one that had nothing to write to the
\* policy before it selected the date, so that the commit writes a date that another
\* edit has overtaken; and one that loaded a policy from before schedules, and believes
\* that the date it loaded is still in the row.
NoChargeBeforeShown ==
  [][\A p \in Policies :
       ShownInTime(p) =>
         \/ ShownInTime(p)'
         \/ \E q \in Requests : SelectedUnlocked(q, p) /\ edit'[q] = NoEdit]_vars

\* apply_schedule: "Replace future installments with the requested schedule (paid
\* ones stay)".  So a requested schedule can be inserted whenever none of its dates is
\* paid: what was pending makes way for it.
ScheduleReplaced ==
  \A q \in Requests :
    LET e == edit[q] IN
    (/\ e.phase = "READY"
     /\ \A d \in DOMAIN NewSchedule(e) : /\ inst[e.policy][d].status # "PAID"
                                         /\ NewSchedule(e)[d] > 0)
    => Insertable(CancelledRows(e), NewSchedule(e))
=============================================================================
