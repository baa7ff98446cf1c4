# Family OS backend: a TLA+ verification project

The repository is the backend of a family finance application: FastAPI handlers and a scheduler
over PostgreSQL (SQLAlchemy async sessions, `READ COMMITTED`, `expire_on_commit=False`). Almost
everything that can go wrong in it is a matter of transactions that meet: a scheduler tick posts
what is due while users edit the same rules, two members answer the same offer, a process dies
between two rows, a form is sent twice. This project models that part of the program, checks it
with TLC on small instances and proves parts of it with TLAPS for every size.

Contents: [1 the system](#1-the-system), [2 the plan](#2-the-plan), [3 the modules](#3-the-modules),
[4 the runs](#4-the-runs), [5 fairness](#5-fairness), [6 the proofs](#6-the-proofs),
[7 findings](#7-findings), [8 what is not modelled](#8-what-is-not-modelled).

## 1 The system

`main.py` starts `run_fos_tick` (`app/scheduler/fos_tick.py`) once at startup and then every few
minutes; `POST /api/familyos/cron/run` runs the same tick on demand, and an administrator may *force* it,
which runs every active item whether it is due or not. A tick takes a PostgreSQL advisory lock on a
connection of its own (a second tick finds it taken and leaves), and runs three phases: money rules,
insurance installments, recurring transfers. In every phase the ids of what is due are read once;
then each item is a transaction of its own that takes the row with `FOR UPDATE SKIP LOCKED`, and an
exception rolls back that item and goes on with the next.

| component | state | operations | hard behaviour | what makes it correct |
|---|---|---|---|---|
| Scheduler tick (`fos_tick.py`) | the advisory lock | run, forced run | overlap when the lock's connection is lost; crash between items; one item failing | every item once, failures stay local, nothing due is forgotten |
| Recurring money rules (`money_rule_cron.py`, `routes/money`) | `fos_money_rules`, `fos_money_events` | create / update / pause / resume / delete a rule; post due periods; create / update / delete an event | catch-up after downtime, edits during a run, repeated periods, limits | one event per rule and period; the ledger follows every edit; limits hold |
| Savings ledger (`savings_ledger_service.py`) | `savings_ledger` rows, cached `total_savings` of families and users | `apply_movement`, `lock_pools`, `adjust` | lost updates of the cache, lock order of two pools | the cache is the sum of the rows |
| Transfers (`routes/transfer`, `fos_tick.py`) | `transfers` | create (direct, offer by code, recurring), accept, decline, cancel, update, run of a schedule | double submit, two answers to one offer, balance checks, savepoints of failing children | money moves once per transfer, never more than the sender has |
| Overdraft alerts (`core/money_alerts.py`) | notifications, e-mails | notify in the transaction, e-mail after it | crash between the two | an overdraft that is committed is reported |
| Calendar arithmetic (`core/date_advance.py`) | none | advance by days, weeks, months with an anchor day | short months, leap days | strictly forward, returns to the anchor |
| Debts with EMI rules (`routes/debt/simple_debt_*`) | debts, each with a money rule | create, pay through the rule, edit, settle, delete | opposite lock orders, reopening | the remaining amount follows the posted installments |
| Insurance (`routes/insurance`, `insurance_installment_cron.py`) | policies, installments | create, schedule, charge, edit, delete, next policy year, last premium of a legacy rule | edits during a charge, two ticks at the end of a year, unique due dates of cancelled rows | every installment charged once, none for an ended policy, a year follows a year |
| Families and membership (`routes/family`) | families, links, join requests, invites | create, ask to join, answer, invite, accept | no lock anywhere: checks and inserts apart from each other | the cap holds but for requests that overlap; an accepted offer is a membership |
| Relationships and friends (`routes/family_relationship`, `routes/friend`) | pairs with a status | request, confirm, reject, cancel, remove, connect by code | both sides asking at once, answers that cross | one friendship per pair, none without both sides' consent |
| Administration (`routes/admin`) | caps, profiles, families | set a cap, delete a user, delete a family | deletions while offers are answered | no membership from a half-done deletion |
| Notifications, job actions (`routes/notification`, `core/job_action_service.py`) | jobs, notifications | accept, adjust, split, skip, delay, stop | an answer given twice, or while the source is edited | a period is answered once |
| Legacy scheduler (`scheduler/engine.py`, `*_cron.py`, `materialize.py`, `reschedule.py`) | jobs of incomes, expenses, debts and more | ask for confirmation, confirm the stale, retry, create the next job | get-or-create without constraint or lock | one job per period, one EMI per period |
| Legacy money features | tables of the previous version | edit, cancel, part payment, defaults, logs | as above; their routers are not mounted | one job per period |
| Vault, documents, assets, profiles, sign-in, admin, categories, currency, upcoming, history, health | single rows, objects in storage | reads and single-row writes | little | |

How they interact: the tick calls the runs of rules, installments and transfers; all three, and the
event and transfer requests, meet in `apply_movement`, which locks the row of the pool (a family or a
user), adds a ledger row and writes the new cached total; a rule may belong to a debt or an insurance and
then updates it in the same transaction; overdrafts write a notification in the transaction that causes
them; whether a transfer is direct depends on friendships, memberships and relationships.

`PROJECT.json` lists every component with its status, and under `hazards` each thing in this code that
a test would hardly reach, at its line, with the properties that would catch it. Hazards with no property
have a note that says why.

## 2 The plan

In order of importance, what moves money first:

1. **MoneyRules**, with the abstract **SavingsBook** it implements: done. **MoneyRulesProofs** states every property
   of its runs but the liveness one.
2. **Transfers**, with the abstract **Payments** it implements: done. **TransfersProofs** states every
   property of its runs but the liveness one.
3. **Debts**, which extends MoneyRules by the debts, their requests and the EMI hook
   `_apply_debt_and_legacy_insurance` in the run of a rule: done, and **DebtsProofs**, which reuses the invariant of MoneyRules.
4. **Insurance**: done. **InsuranceProofs** states every property of the run that passes.
5. **Families**: memberships, join requests, invites, ties, friendships and the administrator's deletions in
   one module, because the four kinds of offers share one life: done. **FamiliesProofs** states all its properties.
6. **Calendar** and **CalendarProofs**: done.
7. **Jobs**, the job engine of the previous version for incomes, expenses and debts: done, and **JobsProofs**, which states all
   its properties. Savings plans, goals and investments would be further kinds of its source.

Every safety and action property of a run that passes is proved, as are the refinements; §6 says what stays with TLC. The abstract specifications are worth keeping small: a savings book,
payments of orders.

## 3 The modules

### How transactions are modelled

A request, and each item of a tick, is one transaction. It is split into steps exactly where another
transaction can come in between with an effect: where it waits for or takes a row lock, where it uses something it
read earlier, and where it commits. What it has written but not committed sits in its session
record (`tick[w]`, `req[q]`, `sess[s]`) or in a row that is marked as its own (`by = s`), so nobody else sees it; the commit
publishes all of it in one step, and `Rollback(s)` removes all of it. `FOR UPDATE` is a guard that the
lock is free and an assignment of it; `SKIP LOCKED` is the choice between `LockRule`/`TakeParent` and
`SkipRule`/`SkipParent`. A unique index counts uncommitted rows as well (`AlreadyPosted`, `KeyTaken`): PostgreSQL lets the second
insert wait for the first, and the model lets it see the outcome, an insert that is rolled back having left no row.

Time is counted in days, and the dates of a rule or schedule are `Step` days apart. Amounts are natural
numbers; 0 is an amount whose decimals were rounded away. Parties, permissions, categories, currencies and texts
are left out: who may ask is decided before any of the steps modelled here and changes none of them.

### MoneyRules

| in the module | in the code |
|---|---|
| `rules`, `events` | rows of `fos_money_rules`, `fos_money_events`; `state` is free, new (inserted, not committed), live, gone |
| `net[e]`, `ledger[p]` | the signed sums of the `savings_ledger` rows an event caused, and of a pool's rows |
| `total[p]` | the cached `total_savings` |
| `ruleLock`, `eventLock`, `poolLock`, `advisory` | row locks, `pg_advisory_lock(TICK_LOCK_KEY)` |
| `tick[w]`, `req[q]` | the session of a tick, of a request |
| `StartTick`, `LockRule`, `SkipRule`, `EndTick` | `run_fos_tick`, `run_money_rules_cron` |
| `PostPeriod`, `RepeatPeriod`, `CommitRule` | the loop of `run_rule`, `_post_period`, and the commit |
| `FailZeroAmount`, `FailTransient` | the `except` of the loop over rules |
| `CrashTick`, `LoseAdvisory` | the process or the lock's connection dies |
| `CreateRule`, `OpenRule` then `UpdateRule` or `DeleteRule` | `create_rule`, `update_rule`, `delete_rule` |
| `CreateEvent`, `OpenEvent`, `AdjustBalance`, `CommitNewEvent`, `CommitEdit` | `create_event`, `update_event`, `delete_event` |

Rules that pay a debt are in Debts; what a rule's last premium does to a policy older than installment schedules is in Insurance. The insert of an event and the lock of its
pool are one step, because nothing another transaction can see lies between them.
`AbortRequest` is a request that fails at any point.

### SavingsBook

What MoneyRules promises, with no transaction or scheduler in sight: entries of one pool each are opened,
amended and closed, and the balance of the pool moves by the same amount in the same step.
`ImplementsBook` maps the live events to open entries (`Entries`) and `total` to the balances. The events that a run posts
for several periods are published by one commit, so a step of the book posts any number of entries of one pool.
`SumOf` of the module **Sums**, which both abstract modules extend, adds up what they moved.

### Transfers

| in the module | in the code |
|---|---|
| `rows` | rows of `transfers`, parents and children of schedules included; `key` is the idempotency key, for a child the pair of parent and date |
| `moved[t]` | how often both ledger rows of `t` were committed |
| `sess[s]` | the session of a tick or a request: what it loaded (`seen`), the balances it read under a lock (`bal`), what it will add (`delta`, `paid`) |
| `CreateSchedule`, `CreateOffer`, `CreateDirect` | `create_transfer` |
| `OpenTransfer` | the route loads the row without a lock, and refuses by what it loaded |
| `LockOffer`, `RefuseAccept` | `accept_transfer` loads it again under `FOR UPDATE` |
| `LockPool`, `PayRequest`, `RefusePayment` | `execute_transfer_run` over `lock_pools` |
| `DeclineTransfer`, `CancelTransfer`, `UpdateTransfer` | the handlers of those names, which write to the row that was loaded |
| `TakeParent`, `SkipParent`, `RunDirect`, `RunOffer`, `RepeatPeriod`, `PayChild`, `FailChild`, `CommitParent`, `FailParent` | `run_recurring_transfers`, `_run_parent` with its savepoints |
| `PostElsewhere` | income and expenses of the other parts of the application: one committed posting to a pool |

Whether a destination is direct is a free choice at every look, because the friendships and memberships
it depends on change at any time. A request that finds its key taken returns the existing
transfer and changes nothing, so it is no action.

### Payments

What Transfers promises: orders are placed and never changed, each is paid at most once, and a payment
takes from the sender what the receiver gets and never more than the sender has. `ImplementsPayments` maps
the one-off rows to orders (`Order`) and the transfers with ledger rows to the paid ones (`Paid`). A run of a schedule commits its
children together, so one step may pay several orders, all between the same two pools; incomes and
expenses from elsewhere move a pool and pay nothing.

### Debts

MoneyRules with the debts added (`EXTENDS`): its actions are conjoined with what they do to the debts, so a run of a
rule, overlapping ticks, faults and edits of rules are all those of MoneyRules. A debt has the id of its EMI rule; a debt
created without an EMI reserves it, and its rule stays absent.

| in the module | in the code |
|---|---|
| `debts` | rows of `fos_debts`; `linked` is `linked_rule_id` |
| `debtLock` | row locks of debts |
| `emi[w]` | in the session of a tick: an installment was posted and is to be counted; the debt as that transaction sees it |
| `edit[q]` | in the session of a request: the debt and the status of the rule it will write at its commit |
| `PostInstallment`, `CountInstallment`, `CommitRun` | `_post_period`, `_apply_debt_and_legacy_insurance`, the commit |
| `PlainStep`, `FailRun`, `Break` | the steps of MoneyRules that touch no debt; a transaction of a tick that ends without a commit |
| `CreateDebt` | `create_debt` |
| `UpdateDebt` or `DeleteDebt`, then `CommitDebt` or `AbortDebt` | `update_debt`, `delete_debt`: lock and compute, then write |
| `OtherRequest`, `Refused` | the requests of MoneyRules; `_reject_linked_payment` keeps them off the entries of EMIs |
| `EndDeadlock` | PostgreSQL ends a transaction of a circle of two |

`update_debt` reads the rule without a lock, decides whether to complete it, and its `UPDATE` then waits for the
tick that has the rule. `RuleReady` is that wait. A tick that has posted an installment wants the debt,
which the request has locked: this circle is real, and `EndDeadlock` lets the database end the transaction of
either one, which loses no money (`EmiReducesDebt`) and no installment for good (`DueRulesMove`).

### Insurance

| in the module | in the code |
|---|---|
| `policies`, `inst[p]` | rows of `family_insurances` and `personal_insurances`; of `fos_insurance_installments`, by due date, CANCELLED ones included, as the unique constraint counts them |
| `spent[p][d]` | what the ledger rows of an installment's premium took from the pool |
| `charge[w]` | in the session of a tick: the installments it listed, the one it has locked, what it counted as pending (`saw`), the next date it selected, how far it is |
| `edit[q]` | in the session of a request: what it loaded (`seen`), the pending rows it will cancel (`targets`), the next date it selected (`next`), how far it is |
| `policyLock`, `rowLock` | row locks of policies and installments |
| `CreateInsurance` | `create_insurance` |
| `BeginUpdate` or `BeginDelete`, `FlushPolicy`, `SelectPending`, `LockPending` | `update_insurance`, `delete_insurance`: load, autoflush of what was set, the `UPDATE` of the pending rows, which selects them and then waits for those that are locked |
| `ApplySchedule`, `CommitEdit`, `FailEdit` | the rest of `apply_schedule` (the legacy rule, the schedule columns, the new rows, the `SELECT` of `refresh_next_due`), the commit with the last `UPDATE`, an end without one |
| `StartTick`, `LockInstallment`, `SkipInstallment`, `EndTick` | `run_insurance_installments`, the `FOR UPDATE` of `charge_installment` |
| `LockPolicy`, `SelectNext`, `ChargeInstallment` | `charge_installment`: the policy `FOR UPDATE`, its status, the count and the new rows of `_extend_interval_year`; `refresh_next_due`; the commit |
| `CancelInstallment`, `FailYear` | cancelled because its policy has ended; rolled back because a row of the new year is taken |
| `FailTransient`, `CrashTick`, `EndDeadlock` | errors, the end of the process, PostgreSQL ending a circle |
| `LastLegacyPremium` | the end of `_apply_debt_and_legacy_insurance` for a policy whose money rule counts the premiums down |

An `UPDATE` of the ORM writes the attributes that differ from what was loaded (`Written`), so an edit that
loaded a policy before another commit overwrites only what it changed itself. Two edits that overlap can therefore leave a
policy whose columns nobody asked for together; the properties below say which of them still hold of it.

An edit locks the policy only by writing to it. `FlushPolicy` is the lock by what `update_insurance` sets first, `ApplySchedule` takes it when a
column of the schedule differs from what was loaded (`WritesSchedule`) and may take it for `premium_amount`, which is not
modelled (`MayWriteSchedule`). Else the edit takes no lock until its commit writes the next date, and none at all if that date is the one
it loaded (`LeftToWrite`). The rows it has inserted make the inserts of others wait (`Inserting`).

### Families

| in the module | in the code |
|---|---|
| `links`, `cap`, `profiles`, `families` | `user_family_links`, `max_family_memberships`, `fos_profiles`, `families` |
| `offers` | rows of join requests, invites, ties between families and friendships |
| `work[q]` | what a request has read and which `SELECT` or write comes next (`phase`) |
| `CreateFamily`, `Found` | `create_family` |
| `AskToJoin`, `CheckPending`, `CreateInvite`, `InsertOffer` | `create_join_request`, `create_invite` |
| `AcceptJoin` or `AcceptInvite`, then `CheckCap`, `CheckMember`, `Admit`; `DeclineJoin`, `WriteStatus` | the answers to them |
| `AskForTie`, `ConnectByCode`, `CheckPair`, `AnswerTie` | `family_relationship_service.py` |
| `AskFriend`, `InsertFriend`, `AnswerFriend` | `friend_service.py` |
| `SetCap`, `DeleteUser`, `UnlinkUser`, `DropUser`, `DeleteFamily`, `PurgeFamily`, `DropFamily` | `admin_service.py` |
| `Expire`, `Crash` | an invite's date passes; a request ends before it writes |

Each phase is one statement, because other requests commit between any two of them. `allowed` and `guests` are history
variables for the properties only.

### Jobs

| in the module | in the code |
|---|---|
| `source`, `kind` | the recurring income, recurring expense or debt the jobs belong to |
| `rows` | its `scheduled_jobs`, in the order of insertion; `told` is a notification that can be answered |
| `events`, `bucket` | finalized EMI events per period key; open entries of the default bucket |
| `tx[c]`, `owner` | what a session has loaded; who has updated the source's row and not committed |
| `StartTick`, `Tick` | the income, expense and debt crons, `materialize_due_jobs`, `apply_auto_jobs`, `process_delayed_jobs` |
| `Answer` | `take_action`: ACCEPT, ADJUST, splits, paid by others, skip, delay, stop |
| `Move`, `Ask` | `reschedule_family_job`, `reschedule_personal_job`; editing or cancelling the source, part payment, closing defaults |
| `Look`, `Commit`, `Rollback` | the `SELECT`s after the source's row is flushed; the end of the transaction |

What a session does is a function from the world it sees to the one it writes (`Outcome`), made of the
functions of the code (`Replace` is `create_or_replace_next_job`, `AddEvent` is
`finalize_payment_event`, ...). It is computed at `Look`'s view and written by `Commit`.

### Calendar

Operators only: `AddMonths`, `StepLocalDate` and `AdvanceNextDate` of `date_advance.py`, and how they are iterated: a money rule keeps
`anchor_day` (`RuleDate`), a run of a recurring transfer takes it from the date it finds (`TransferRun`), and so does a
policy year (`NextPolicyYear`). The other modules count days instead and need no month lengths.

### MC modules

`MCMoneyRules`, `MCDebts`, `MCTransfers`, `MCInsurance`, `MCFamilies` and `MCJobs` define the drafts, edits and pool ranks of the instances and the symmetry
over ticks and over requests (ids that no formula tells apart; used in safety runs only). The
definitions commented `mutant:` in the modules are weakened forms of the definition below them; no
specification uses one. `MCTransfers` also has TLC compare Calendar with a reference, the number of a day in the
Gregorian calendar, over dates around short months, leap years and centuries (`YearsAgree`, `DaysAgree`, `StepsAgree`, `ShortMonths`). `PROJECT.json` names, for every checked property, the one that breaks it.

## 4 The runs

Each is `tlc -config <cfg> <module>` in this directory.

| run | shows | distinct states |
|---|---|---|
| `money_rules` (`MoneyRules.cfg`) | type, ledger, uniqueness, limits, alerts, and the refinement of SavingsBook | 308 276 |
| `money_rules_live` (`MoneyRulesLive.cfg`) | a rule that can be posted does not stay due | 146 376 |
| `money_rules_catch_up` (`MoneyRulesCatchUp.cfg`) | counterexample to "older periods are skipped" | - |
| `transfer_requests` (`Transfers.cfg`) | requests against each other: paid once, one per key, no circle of locks, the refinement of Payments | 113 486 |
| `transfer_tick` (`TransfersTick.cfg`) | schedules, run by two ticks, forced ones included, against a request | 524 048 |
| `transfer_live` (`TransfersLive.cfg`) | a schedule that can run does not stay due | 55 273 |
| `debts` (`Debts.cfg`) | installments, edits and deletions of a debt against overlapping ticks; deadlocks do not keep a due EMI rule waiting for ever | 177 458 |
| `insurance` (`Insurance.cfg`) | two ticks charge installments while the policy is edited, deleted or ended by its legacy rule | 604 173 |
| `insurance_replace` (`InsuranceReplace.cfg`) | counterexample to "replaces future installments" | - |
| `families` (`Families.cfg`) | requests that read and write without locks, with an administrator among them | 504 425 |
| `jobs` (`Jobs.cfg`) | a tick, answers and edits on the jobs of one source | 1 236 802 |
| `transfer_cancel` (`TransfersCancel.cfg`) | counterexample to "a cancelled transfer moved nothing" | - |

**MoneyRules**: `PoolMatchesLedger` (no lost update of the cache), `EventMatchesLedger` (concurrent edits of one event),
`OneEventPerPeriod` (overlapping ticks, forced ticks, rules moved back), `OnlyDuePosted` (a forced run posts
one period ahead and no second one), `NoPostAfterStop` (nothing appears for a rule whose pause or deletion was
committed), `RunsStopAtLimit`, `OverdraftIsReported`, `ImplementsBook`, `DueRulesMove`.

**Transfers**: `PoolMatchesLedger`, `PaidOnce`, `OneTransferPerKey`, `NoDeadlock` (over pool and transfer rows),
`NoRunAfterStop`, `ImplementsPayments`, `SchedulesMove`.

**Debts**: `EmiReducesDebt` (what a commit takes from the pool for a debt is what the debt counts as paid, capped at its amount:
neither an edit nor an installment is lost), `NoEmiAfterSettled` (nothing appears for a debt whose settlement or deletion was
committed, though a tick had taken the rule before), `SettledStopsEmi` (in no committed state a settled debt has a
rule that would go on), `OpenMeansUnpaid`, and `DueRulesMove` again in presence of the deadlock.

**Insurance**: `ChargedOnce` (ledger and status of every installment agree, though an edit cancels what a tick charges), `NoChargeAfterEnd`
(no premium is committed for a policy that is no longer ACTIVE then: a charge looks at the status, counts, selects and commits in
statements of their own, so this is lost when the policy is read without its lock), `OneCollector` (never a schedule and a
legacy rule at once), `YearGoesOn` (of two ticks that charge the last two installments, one adds the next year or completes the policy, because the second
one counts what is pending after the first has committed), `NoChargeBeforeShown` (the date the user is shown does not move past the first installment to charge).

The last two do not hold without exceptions, and both exceptions are faults of the code, described in [7](#7-findings). An edit that changes no
column of the policy does not wait for a tick that holds it. So it may cancel all that the tick has counted (`CountedIsCancelled`): the tick adds no year, because
something was pending, and when both have committed nothing is. That takes five requests, more than the run has; the theorem covers it.
`YearGoesOn` also leaves out an INTERVAL policy without an amount or a frequency: one edit to CUSTOM and one back that overlap leave such a row.
`NoChargeBeforeShown` leaves out two commits (`SelectedUnlocked`). One is of an edit that selected the date without the lock of the policy:
another edit commits an earlier installment between that `SELECT` and the commit. The other is of an edit that loaded the policy before it had a schedule: it
writes what it was sent as next date only if that differs from the date it *loaded*, so a later date, written in between, stays beside the new installments. The
run reaches both: without either exception TLC finds the property violated. The edits to `{3}` and `{1, 3}` and the one that
asks for one installment on day 1 are there for that.

**Families**: `OverlapBounded` (a user is above the highest cap they ever had by at most the other requests that can overlap, and an
invite lets in no more than them: the unlocked checks are worth something), `AcceptedMeansMember` (an accepted join request is a
membership for as long as the profile exists), `OneFriendship` (two users have one row, also when each asks the other), `ByConsent` (an active friendship or a tie that was asked for has
been agreed to by the other side, whatever answers crossed).

**Jobs**: `OneRowPerPeriod` (no constraint says so, it rests on the flush of the source before the look), `OneEventPerPeriod` (an
EMI is finalized once per period key, through answers, retries, auto-acceptance and keys that cover several dates).

Bounds. Two ticks and two requests are what a conflict needs: each hazard listed is one of two
actors, and a third waits as the second does. One rule and one pool make every pair of sessions meet on the same
rows; the rows of distinct rules are independent but for the pool. `MaxCatchUp = 2` with
`MaxDay = 2` lets a rule be due three times and exceed the limit of one run, with `max_runs = 2` the limit
is met in a run, between runs, and again after an edit removes it. The opening balance is smaller than what the rule
takes, so overdrafts occur. Three events (`Events`) are one more than the limit of runs. Three requests are enough for create, move back and pause
or delete of the rule, or for an event that is created, edited and deleted; one fault is a crash, an error or the lost connection
that lets two ticks overlap. In Transfers, six requests over three transfers cover double submits, two accepts, an accept
and a decline, payments in both directions of the same two pools, with money for one of them; the tick's
runs need four transfers: a schedule, its two children and one more payment.
In Debts a debt of 3 with 1 paid and installments of 1 is settled by the second installment, inside a run of several
periods or between runs; a second draft is settled when it is created, and the installment of a third is rounded to 0, so its runs fail. The edits settle it, change the paid or the whole amount, stop the
counting and share the rule; a settled debt edited without a status is reopened. Four requests are create, two edits that may
overlap, and one that pauses or resumes the rule. Requests on entries are left out of this instance (`Amounts` is empty):
those of EMIs are refused, and the others meet rules only in the pool, which the run `money_rules` shows.
When the ids of events or transfers run out, an insert fails and its transaction is rolled back, as after any
error. In Insurance a year is 2 days with one or two installments, and `MaxDay = 1` with `Dates` two years further lets a
year end and the next begin; the drafts have an amount that does not divide, one too small to divide and one that ends within its year;
three requests are create, edit, delete, or three edits of a policy with a legacy rule, two of which overlap (the same properties hold with four, 3.8
million states). In Families two users lead a family each and a third has none, with caps of 1 and 2, two offers and four requests, two at
a time: ask, accept, and two that interfere; they hold with five as well. In Jobs two dates, three rows and two requests beside the
tick, which may run any number of times, with keys that cover one or three dates; a third request gave no violation in the first 15 million states.
`transfer_requests`, `insurance`, `families` and `jobs` have an end as well: their requests are used up. `transfer_requests` switches the deadlock check off: no tick runs in it, so it stops when its requests are used up.
Circular waits are what `NoDeadlock` is about.

## 5 Fairness

`FairSpec` assumes weak fairness of an unforced `StartTick` of each tick and of what a tick or a request does
once it is begun. APScheduler starts a tick every few minutes for as long as the process runs, a deployment restarts it
after a crash, and no handler waits for anything but locks, which transactions release at their end. Nothing is assumed
of users, of forced ticks, of faults or of the clock. `DebtFairSpec` adds weak fairness of `EndDeadlock` (PostgreSQL
looks for a circle after `deadlock_timeout`) and strong fairness of `CommitDebt`: the wait of a request for the rule's lock is a place in
PostgreSQL's queue of that row, so it is served when the tick that has the lock ends, while other
ticks, which ask with `SKIP LOCKED`, do not get in line. `DueRulesMove` asks for a rule with a positive amount: one whose amount
was rounded to 0.00 fails in every tick and stays due for ever, which the module shows and the property leaves out.
Insurance, Families and Jobs state no fairness: what must happen
there waits for a user, or for an engine that no live scheduler starts, or (a due installment) can fail for ever, as section 7 says.
Because each tick may be started again for ever, the clock's bound does not end these behaviours.

## 6 The proofs

Eight modules prove theorems about the specifications for every set of rules, pools, users, ticks and requests and every
bound, under the named assumptions of those modules on their constants, which TLC evaluates in each run. Most of the
assumptions give types and keep `None` and the sessions apart from other ids. Those that say more come from the code: the kind and the
pool of a rule never change (MoneyRules), the pools have a total order, the ids that `lock_pools` sorts, and money is
sent to another pool (Transfers), a frequency divides the year (Insurance), and nobody heads more families at the start than
the first cap allows (Families).

| module | theorem | property |
|---|---|---|
| `MoneyRulesProofs` | `TypeCorrect`, `PoolCorrect`, `EventCorrect`, `OneEventCorrect` | `TypeOK`, `PoolMatchesLedger`, `EventMatchesLedger`, `OneEventPerPeriod` |
| | `StopCorrect`, `OnlyDueCorrect`, `LimitCorrect`, `OverdraftCorrect` | `NoPostAfterStop`, `OnlyDuePosted`, `RunsStopAtLimit`, `OverdraftIsReported` |
| | `BookImplemented` | `ImplementsBook` |
| `TransfersProofs` | `TypeCorrect`, `PoolsCorrect`, `PaidOnceCorrect`, `KeysCorrect` | `TypeOK`, `PoolMatchesLedger`, `PaidOnce`, `OneTransferPerKey` |
| | `StopCorrect`, `DeadlockFree`, `Refinement` | `NoRunAfterStop`, `NoDeadlock`, `ImplementsPayments` |
| `DebtsProofs` | `DebtTypeCorrect`, `SettledCorrect`, `UnpaidCorrect` | `DebtTypeOK`, `SettledStopsEmi`, `OpenMeansUnpaid` |
| | `NoEmiCorrect`, `EmiCorrect` | `NoEmiAfterSettled`, `EmiReducesDebt` |
| | `MoneyCorrect` | `PoolMatchesLedger`, `EventMatchesLedger`, `OneEventPerPeriod`, with the debts |
| `InsuranceProofs` | `TypeCorrect`, `ChargedOnceCorrect`, `OneCollectorCorrect` | `TypeOK`, `ChargedOnce`, `OneCollector` |
| | `NoChargeAfterEndCorrect`, `YearGoesOnCorrect`, `ShownCorrect` | `NoChargeAfterEnd`, `YearGoesOn`, `NoChargeBeforeShown` |
| `FamiliesProofs` | `TypeCorrect`, `OverlapCorrect`, `AcceptedCorrect` | `TypeOK`, `OverlapBounded`, `AcceptedMeansMember` |
| | `OneFriendshipCorrect`, `ConsentCorrect` | `OneFriendship`, `ByConsent` |
| `JobsProofs` | `JobTypes`, `OneRow`, `OneEvent` | `JobTypeOK`, `OneRowPerPeriod`, `OneEventPerPeriod` |
| `CalendarProofs` | below | |
| `SumsProofs` | `SumSame`, `SumEmpty`, `SumAdd`, `SumOne` | how a sum over a finite set grows |

Every proof has the same shape: an inductive invariant, one lemma per action that preserves it (types first, then the rest),
and theorems that read the properties off. Each inductive invariant was checked by TLC on the instance of its run first.

### MoneyRules

    IInv == TypeOK /\ RowsOK /\ TickOK /\ ReqOK /\ UniqueIndex /\ PoolMatchesLedger /\ EventMatchesLedger

None of the first five properties is inductive by itself. When a commit writes `total[p]` from the balance in its session, the
cache matches the ledger only if that balance is still the committed total plus what the session will add to the
ledger: `TickOK` and `ReqOK` say so of each session that holds a pool's lock. `TickOK` also says that a tick in a run
holds the lock of its rule, that this rule is committed as ACTIVE and that every row it inserted belongs to it, which is
what `NoPostAfterStop` needs; a tick outside a run owns no rows and no pool locks. `ReqOK` says that a
request that edits a rule or an event holds its lock, and that one that creates an event owns the new row and has its pool. `RowsOK` says that an uncommitted row belongs to the session that inserted it and that
committed rows belong to nobody; `UniqueIndex` is `OneEventPerPeriod` over uncommitted rows too, without
which two commits would each publish one half of a duplicate.

Most of the work is that an action of one session
leaves what is promised about the *others* intact: `Undisturbed(s)` states which variables a step may
not change for another session `s` (the rows and locks it owns), the lemmas `TickFrame`, `ReqFrame` and `OthersFrame` conclude that
`s`'s part of the invariant is kept, and the lemma of an action shows that it is undisturbed by it, which
comes down to the locks: who changes `total[p]` holds `poolLock[p]`.

Three properties speak of all the periods a run posted, so `RInv` adds to `IInv` what a run has done so far (`RunGood`): it has counted the
rows it inserted and stops at the limit (`RunsCounted`), they lie behind the next date and one ahead of time was its first
and only step (`Ordered`), the last one is flagged by the balance that the commit will leave (`Flagged`), and their
sum is what that commit adds to the pool (`Summed`, kept by `SumAdd` at each posting). `OnlyDueCorrect`, `LimitCorrect` and `OverdraftCorrect` follow
from the first three, `BookImplemented` from the last.

### Transfers

    IInv == TypeOK /\ RowsOK /\ MovedOK /\ UniqueIndex /\ SessionsOK /\ PoolMatchesLedger

`MovedOK` reads off a row's status whether its money was moved, except for a CANCELLED one, which may have been paid before: this
is the finding `transfer_cancel`, seen from the proof. `SessionsOK` says what a session may rely on: `Reading`, of a row
loaded without a lock, only that it exists and is of the same kind; `Paying`, that its row is PENDING and its own or locked; `Running`,
that a tick in `_run_parent` has an ACTIVE schedule locked. `DeadlockFree` gives each wait a rank: a session that waits for a transfer's row
holds no pool, and one that waits for a pool holds only pools before it in the order that `lock_pools` sorts by. So the ranks rise along
a chain of sessions of which each waits for the next. There may be infinitely many pools and sessions, so a second invariant, `RanksBounded`,
says that the locked pools have a highest rank, and a circle would need one above it (`BoundedMax` of SumsProofs).

`Refinement` needs `BatchesOK` on top: what a tick has paid for the children of a schedule adds up to what its commit takes from the sender,
who is never below zero on the way. Each step places orders, settles the batch of one session, or moves a pool elsewhere.

### Debts

`DInv` contains `IInv` of MoneyRules; the lemma `SessionDebts` shows which steps leave the debts of other sessions alone. `EmiGood` says that a tick
which holds its debt has counted in its copy exactly what it posted before (`Spent`), and goes on only while the copy is OPEN.
`EditGood` says that an edit which closes a debt stops its rule or has seen the rule stopped for good. It read the
rule without a lock, so this needs that a final status stays, and `RuleReady`, the wait of the `UPDATE` for the tick.
`SettledStopsEmi` and `NoEmiAfterSettled` then say that the two agree at every commit. `EndDeadlock`, which rolls one of the two back, breaks none of it.

### Insurance

`IInv` says of a tick that the installment it works on is due, PENDING and locked by it, and, once it has counted, that the policy is ACTIVE and
locked by it (`TickOK`), and of an edit that
the rows it will cancel are PENDING and locked by it and that its schedule was valid against what it loaded
(`EditOK`): it is not said that this is what the row holds now, because it need not be. `StepOf` and `OthersKept` are the frame: a step changes an installment only where
it is unlocked or locked by its own session. `NoChargeAfterEnd` is read off `TickOK`: no
other session ends a policy that a tick holds. `YearGoesOn` needs what a tick counted (`saw`) to stay PENDING until its commit or to be cancelled by an edit, because another tick
that charges one of the rows has to wait for the policy.

Between its statements a session has inserted rows that nobody else sees. `Fits` says that their dates are still new,
because the rows of any two sessions are apart (`AddsApart`): the unique index makes the second `INSERT` wait.

`NoChargeBeforeShown` needs a second invariant, `ShownInv`. A date that an edit loaded or selected has an installment
(`Backs`; rows of every status keep their date from a new schedule), so an edit that inserts any installment
selects another date than it loaded and does write it (`NextOK`). A date that a tick selected, or an edit that holds the policy, is not after
the first installment to charge and stays so (`InTime`), because another edit has to wait for the policy
before it commits an earlier one. Without the lock that argument fails, and so does the property: the first exception. A policy
from before schedules shows a date without a row (`Unbacked`) until some edit reschedules it: the second one.

### Families

Nothing is locked here, so no invariant can say that what a request has read is still so. `WorkGood` keeps what does stay: a row keeps its kind
and parties until it is deleted, no status becomes PENDING again, a deleted profile does not come back, and a family does not go while a
row refers to it (`RowsKept`, `LinksKept`, `Keeps` are these as relations between two states). `OverlapBounded` counts: the families of a user
plus the requests that have passed the check of the cap and may still add one (`Adding`) are at most the highest cap plus all
requests but one (`CapKept`), because a request that passes the check has seen fewer families than the cap; for invites `Working` is counted in
the same way. `ByConsent` rests on the parties of a row: whoever may answer it is the other side of whoever asked.

### Jobs

    JInv == TypeInv /\ BusyInv /\ TxsInv /\ OwnerInv /\ RowsInv /\ OneEventPerPeriod

What a session does is a function, so most of the proof is about worlds and has no step in it. `Fine(b, m, v)` says what no operator
may break on the way from the world `b` a session looked at to the world `v` it writes: keys stay, no date is past the source's own (`Since`),
an event is there just for each period it saw paid (`Even`), and the jobs have different keys, one of them for the date (`Sound`). Each
operator keeps it, and so does the loop of the tick over its jobs (`EachKeeps`, by the size of the set of jobs). A `...Result` lemma for
each request adds that it is `Quiet` if it does not move the date: no event, and no job but those that are there.

`MovesOf` reads off what a session has loaded whether it will move the date, before it looks. `TxInv` then is the argument of the
code: a session that has looked and moves the date owns the source's row, so what it saw of the jobs and the
events is all there is of them until it commits (`OwnerInv`), and `Even` and `Sound` of its world follow from the invariant; one that is quiet
may commit over any other, because it adds nothing. `RowsInv` has the job of the unmoved date on top of
`OneRowPerPeriod`: without it a quiet session would add one. `BusyInv` bounds the delays a job may still count by the requests under way.

### Calendar

`CalendarProofs` proves, for every date of every year, with no assumptions:

| theorem | says |
|---|---|
| `StepsForward` | a step by months, with any `every_n` and anchor, reaches an existing date strictly later: the loops over due dates end |
| `ReturnsToAnchor` | with a kept anchor (money rules) the day is the anchor or the last of a shorter month, as the doc of `step_local_date` says |
| `StepsCompose` | with a kept anchor it does not matter how periods are divided among ticks and jumps |
| `DayNeverGrows` | with an anchor read again (transfers, policy years) the day never grows, and up to the 28th stays |
| `TicksMatter` | so the dates of a transfer depend on its ticks: two periods in one tick or in two differ after the 31st of January |

They rest on `InMonthReaches` (division with remainder carries months into years) and `StepMonthsReaches`. Steps by days are recursive
and only compared with the reference by TLC, because induction over data is out of reach. (The induction over the size of a set that
SumsProofs needs is written as a least element of a set of numbers, `NatMin`.)

### Checked by TLC only

- `DueRulesMove` (in MoneyRules and in Debts) and `SchedulesMove`: liveness under fairness, and `ENABLED`, are beyond the prover.
- The runs that expect a violation, and the comparisons of Calendar with a reference in `MCTransfers`.

No module uses a `RECURSIVE` operator.

## 7 Findings

- `money_rules_catch_up`: the doc of `money_rule_cron.py` (lines 7-8) says that periods *older* than `MAX_CATCH_UP` are
  skipped. The loop starts with the oldest due period and then jumps over what is still due
  (line 202): the *newer* ones are skipped.
- `transfer_cancel`: `decline_transfer` and `cancel_transfer` (`transfer_service.py:406`, `:415`) write `CANCELLED` to the row the
  route loaded, without a lock. When another member of the receiving family accepts in between, the money has moved and the transfer
  says that it was declined. `accept_transfer` does read the row again under a lock, and the
  refusals of `can_accept` and `can_cancel` show that a paid transfer is not meant to be cancelled.

- `insurance_replace`: `apply_schedule` says that it replaces future installments (`insurance_service.py:116`). It marks them CANCELLED, and
  the unique constraint counts cancelled rows: an edit that has cancelled what is pending cannot insert a schedule that has a date of the old
  one, though none of its dates is paid. So neither an amount alone can be changed nor an earlier date returned to.

Observed while modelling, with no property of their own:

- Insurance. `refresh_next_due` selects the date to show (`insurance_service.py:101-113`), and the commit writes it, without a lock of
  the policy between the two unless the edit has changed a column of it before. Take a CUSTOM policy whose
  installments are all paid, and two edits with the same total, one to day 3 and one to day 2. The first inserts day 3 and selects 3; the
  second inserts day 2, selects 2 and commits; the first commits 3. Installments of days 2 and 3 are to be charged, and 3 is shown. In the same way such an edit
  can cancel the last installments of a year that a tick has counted as pending, while it asks for a year that begins after the end of the policy: the tick neither adds
  a year nor completes the policy, which stays ACTIVE with nothing to charge.
- Insurance. An edit of a policy from before schedules that sends the date it loaded does not write it: when another edit has given the policy
  a later date meanwhile, that one stays on show beside the earlier installment.
- Insurance. An edit that loaded a policy before its deletion committed, and sends a status, makes the deleted policy ACTIVE again, with no
  next date shown. When an earlier installment fails once and a later one of the
  same year is charged meanwhile, the earlier one is the last pending one: it extends the policy from its own date, meets the later one's
  row there and is rolled back in every tick, against "each due PENDING installment becomes one expense entry"
  (`insurance_installment_cron.py:3`). A policy of a family without a head has no actor and is skipped for ever (lines 94-96).
- Families. "Sole head" in the doc of `delete_user` (`admin_service.py:107`) is a count of all members (line 118): a family with other members can
  lose its only head. Two join requests or ties of the same pair can exist, and every later look, a `scalar_one_or_none()`, raises. A friendship
  that was rejected or cancelled keeps its row in the unique pair, so a second request fails. A link committed during the deletion of its user stays.
- Jobs. Two ACCEPTs of one job, or one and the automatic acceptance, post an income or expense twice: the status that makes a retry a no-op
  ("Idempotent retries", `job_action_service.py:115`) is read without a lock. A delayed job whose date is edited is pending beside its successor, against
  "exactly one pending job" (`income_cron.py:70`). Jobs set to await by `materialize_due_jobs` or `process_delayed_jobs` get no time stamp, so they are never accepted automatically.
  Declining up to the retry limit skips the period without creating the next job; a period key that covers several dates marks the next job as
  applied: in both cases the chain ends. An error in `apply_auto_jobs` fails the whole tick, each time.
- Calendar. A monthly transfer of the 31st drifts to the 28th when its ticks run on time, and the projection of upcoming payments
  (`upcoming_service.py:44`), which keeps its first day, shows other dates.

## 8 What is not modelled

- The e-mail after an overdraft: it is sent after the commit and lost when the process dies in between.
- `is_overdrawn` of an edit that keeps the amount: it is read without the lock of the pool and may be stale for as long as the next edit; nothing else depends on it.
- The conversion of local dates to UTC, and custom patterns of frequency strings. Outside Calendar, dates are days that are `Step` apart.
- Of the previous version: amounts, splits, funding and interest, and the jobs of savings plans, goals, investments, assets and insurance.
  Their shape is that of Jobs. `main_router.py` mounts none of their routers and no live tick starts the engine.
- The rest of the administrator's routes, which read or write single rows.
- Vault, documents, assets, profiles, sign-in, administration, categories, currency, upcoming, history and health:
  reads and single-row writes, or calls to services outside the repository.
- Reads by the dashboards: they are single `SELECT`s of committed rows.
