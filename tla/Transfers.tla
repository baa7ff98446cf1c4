------------------------------ MODULE Transfers ------------------------------
(***************************************************************************)
(* Transfers between savings pools: direct ones, which pay at once; offers *)
(* by code, which wait for the receiver; and recurring ones, of which the  *)
(* scheduler tick makes a child transfer for every period.                 *)
(*                                                                         *)
(* Each request and each recurring transfer of a tick is one PostgreSQL    *)
(* transaction at READ COMMITTED, split where it takes a lock, where it    *)
(* read a row earlier than it uses it, and where it commits.  What it has  *)
(* not committed is in its session record, or in a row whose "by" is the   *)
(* session.                                                                *)
(*                                                                         *)
(* Whether a destination is direct depends on friendships, memberships and *)
(* family connections, which come and go: every look at them may find      *)
(* either answer.                                                          *)
(***************************************************************************)
EXTENDS Integers, FiniteSets

CONSTANTS
  Transfers,    \* ids of rows of transfers (a bound: ids are not reused)
  Pools,        \* savings pools, family or personal
  Rank,         \* the order of the pools in lock_pools
  Ticks,        \* scheduler ticks that may be running
  Requests,     \* user requests that may be running
  None,         \* SQL NULL
  Keys,         \* idempotency keys, each of one user
  Drafts,       \* bodies of create requests
  Edits,        \* bodies of update requests
  Forcing,      \* the values "force" may have
  Opening,      \* what every pool holds when the model starts
  Step,         \* distance of two dates of a recurring transfer, in days
  MaxCatchUp,   \* MAX_CATCH_UP
  MaxDay,       \* bound of the clock
  MaxRequests,  \* bound of the number of user requests
  MaxFaults     \* bound of the number of crashes, errors and lost connections

Sessions == Ticks \cup Requests
Day == Nat
Statuses == {"ABSENT", "PENDING", "ACTIVE", "COMPLETED", "CANCELLED", "FAILED"}

ASSUME PoolsAssumption ==
  /\ Rank \in [Pools -> Nat]
  /\ \A p, o \in Pools : Rank[p] = Rank[o] => p = o
ASSUME SessionAssumption ==
  /\ Ticks \cap Requests = {}
  /\ None \notin Sessions
ASSUME NoneAssumption ==
  /\ None \notin Transfers \cup Pools \cup Keys
  /\ None \notin Nat
  /\ None \notin [from: Pools, to: Pools, amount: Nat]
  /\ (Keys \cup {None}) \cap (Transfers \X Day) = {}
ASSUME NumberAssumption ==
  /\ Forcing \subseteq BOOLEAN
  /\ Opening \in Nat
  /\ Step \in Nat \ {0}
  /\ MaxCatchUp \in Nat \ {0}
  /\ MaxDay \in Nat
  /\ MaxRequests \in Nat
  /\ MaxFaults \in Nat
\* A pool does not send to itself; a one-off transfer has no dates.
ASSUME BodyAssumption ==
  /\ Drafts \subseteq [from: Pools, to: Pools, amount: Nat \ {0},
                       key: Keys \cup {None}, recurring: BOOLEAN,
                       due: Day \cup {None}, end: Day \cup {None}]
  /\ \A d \in Drafts : /\ d.from # d.to
                       /\ d.recurring <=> d.due # None
                       /\ d.end # None => d.due # None /\ d.end >= d.due
  /\ Edits \subseteq [due: Day \cup {None}, amount: Nat, end_sent: BOOLEAN,
                      end: Day \cup {None}]

VARIABLES
  clock,      \* today
  rows,       \* rows of transfers, uncommitted inserts included
  moved,      \* per transfer, how often its two ledger rows were committed
  ledger,     \* per pool, the signed sum of its committed savings_ledger rows
  total,      \* per pool, the cached total_savings
  rowLock, poolLock,  \* which transaction holds each row lock
  advisory,   \* the tick that holds pg_advisory_lock(TICK_LOCK_KEY)
  sess,       \* the state of each session
  used,       \* requests begun so far (bounded by MaxRequests)
  faults      \* faults so far (bounded by MaxFaults)

money == <<moved, ledger, total>>
locks == <<rowLock, poolLock>>
vars == <<clock, rows, money, locks, advisory, sess, used, faults>>

-----------------------------------------------------------------------------
(* Rows and sessions *)

Row == [status: Statuses, by: Sessions \cup {None}, from: Pools \cup {None},
        to: Pools \cup {None}, amount: Nat, recurring: BOOLEAN,
        key: Keys \cup (Transfers \X Day) \cup {None},
        due: Day \cup {None}, end: Day \cup {None}]
Session == [pc: {"idle", "read", "scan", "run", "pay"},
            op: {"create", "accept", "decline", "cancel", "update", None},
            id: Transfers \cup {None}, seen: Row, parent: Transfers \cup {None},
            bal: [Pools -> Int], delta: [Pools -> Int], paid: SUBSET Transfers,
            made: 0..MaxCatchUp, now: Day, force: BOOLEAN, todo: SUBSET Transfers]

AbsentRow == [status |-> "ABSENT", by |-> None, from |-> None, to |-> None,
              amount |-> 0, recurring |-> FALSE, key |-> None, due |-> None,
              end |-> None]
Idle == [pc |-> "idle", op |-> None, id |-> None, seen |-> AbsentRow, parent |-> None,
         bal |-> [p \in Pools |-> 0], delta |-> [p \in Pools |-> 0], paid |-> {},
         made |-> 0, now |-> 0, force |-> FALSE, todo |-> {}]

Committed(t) == rows[t].status # "ABSENT" /\ rows[t].by = None

NoRowLock(t) == TRUE       \* mutant: the row is not locked
RowFree(t) == rowLock[t] = None
NoPoolLock(p) == TRUE      \* mutant: the pool is read without FOR UPDATE
PoolFree(p) == poolLock[p] = None

\* Mutant: the index uq_transfers_idempotency does not exist.
NoUniqueKey(key) == FALSE

\* The unique index on (created_by, idempotency_key), fos011.  Uncommitted
\* inserts count: PostgreSQL makes the second insert wait for the first.
KeyTaken(key) ==
  key # None /\ \E t \in Transfers : rows[t].status # "ABSENT" /\ rows[t].key = key

\* The id of a new row: any unused one would do, so one is picked.
Fresh(t) == /\ rows[t].status = "ABSENT"
            /\ t = CHOOSE u \in Transfers : rows[u].status = "ABSENT"

NewRow(d, s, status) ==
  [status |-> status, by |-> s, from |-> d.from, to |-> d.to, amount |-> d.amount,
   recurring |-> d.recurring, key |-> d.key, due |-> d.due, end |-> d.end]

Init ==
  /\ clock = 0
  /\ rows = [t \in Transfers |-> AbsentRow]
  /\ moved = [t \in Transfers |-> 0]
  /\ ledger = [p \in Pools |-> Opening]
  /\ total = [p \in Pools |-> Opening]
  /\ rowLock = [t \in Transfers |-> None]
  /\ poolLock = [p \in Pools |-> None]
  /\ advisory = None
  /\ sess = [s \in Sessions |-> Idle]
  /\ used = 0
  /\ faults = 0

-----------------------------------------------------------------------------
(* The end of a transaction *)

ReleasePools(s) ==
  poolLock' = [p \in Pools |-> IF poolLock[p] = s THEN None ELSE poolLock[p]]

Release(s) ==
  /\ rowLock' = [t \in Transfers |-> IF rowLock[t] = s THEN None ELSE rowLock[t]]
  /\ ReleasePools(s)

\* Rollback: the rows session s inserted disappear, and it moved no money.
Rollback(s) ==
  /\ rows' = [t \in Transfers |-> IF rows[t].by = s THEN AbsentRow ELSE rows[t]]
  /\ UNCHANGED money
  /\ Release(s)

\* The rows session s inserted become visible.
Publish(s) ==
  [t \in Transfers |-> IF rows[t].by = s THEN [rows[t] EXCEPT !.by = None] ELSE rows[t]]

-----------------------------------------------------------------------------
(* execute_transfer_run: lock both pools, check the balance, move the money *)

\* Mutant: the sender's pool is locked first.
SenderFirst(s) ==
  LET row == rows[sess[s].id] IN
  IF poolLock[row.from] # s THEN row.from ELSE row.to

\* lock_pools takes the pools in a fixed order; one it holds already is passed.
NextPool(s) ==
  LET row == rows[sess[s].id]
      missing == {p \in {row.from, row.to} : poolLock[p] # s}
  IN CHOOSE p \in missing : \A o \in missing : Rank[p] <= Rank[o]

HoldsPools(s) ==
  LET row == rows[sess[s].id] IN poolLock[row.from] = s /\ poolLock[row.to] = s

LockPool(s) ==
  /\ sess[s].pc = "pay"
  /\ ~HoldsPools(s)
  /\ LET p == NextPool(s) IN
       /\ PoolFree(p)
       /\ poolLock' = [poolLock EXCEPT ![p] = s]
       /\ sess' = [sess EXCEPT ![s].bal[p] = total[p]]
  /\ UNCHANGED <<clock, rows, money, rowLock, advisory, used, faults>>

CanPay(s) ==
  /\ sess[s].pc = "pay"
  /\ HoldsPools(s)

NotChecked(s) == TRUE      \* mutant: the balance is not checked
Enough(s) == LET row == rows[sess[s].id] IN sess[s].bal[row.from] >= row.amount

\* What apply_movement does to the sender's and the receiver's entry of f.
Movement(f, row) == [f EXCEPT ![row.from] = @ - row.amount, ![row.to] = @ + row.amount]

\* A commit of s writes the totals of the pools it has locked.
Settled(s, bal) == [p \in Pools |-> IF poolLock[p] = s THEN bal[p] ELSE total[p]]

-----------------------------------------------------------------------------
(* Requests: create, accept, decline, cancel, update *)

Begin(q) ==
  /\ sess[q].pc = "idle"
  /\ used < MaxRequests
  /\ used' = used + 1

\* A request that finds its idempotency key taken returns that transfer and
\* changes nothing; only the other ones are actions.
Created(q, t, d, status, by) ==
  /\ Begin(q)
  /\ Fresh(t)
  /\ ~KeyTaken(d.key)
  /\ rows' = [rows EXCEPT ![t] = NewRow(d, by, status)]
  /\ UNCHANGED <<clock, money, locks, advisory, faults>>

\* A schedule is stored; an offer is stored and its receiver notified.
CreateSchedule(q) ==
  /\ \E t \in Transfers, d \in Drafts :
       d.recurring /\ Created(q, t, d, "ACTIVE", None)
  /\ UNCHANGED sess

CreateOffer(q) ==
  /\ \E t \in Transfers, d \in Drafts :
       ~d.recurring /\ Created(q, t, d, "PENDING", None)
  /\ UNCHANGED sess

\* The row is inserted, and the payment follows in the same transaction.
CreateDirect(q) ==
  \E t \in Transfers, d \in Drafts :
    /\ ~d.recurring
    /\ Created(q, t, d, "PENDING", q)
    /\ sess' = [sess EXCEPT ![q] = [Idle EXCEPT !.pc = "pay", !.op = "create", !.id = t]]

\* can_accept and can_cancel, of the row they are given; who asks is left out.
Allows(op, row) ==
  CASE op \in {"accept", "decline"} -> row.status = "PENDING"
    [] op = "cancel" -> row.status \in {"PENDING", "ACTIVE"}
    [] op = "update" -> row.recurring /\ row.status = "ACTIVE"

\* The route loads the transfer without a lock.  accept reads it again; the
\* others go on with what was loaded here, and refuse here.
OpenTransfer(q) ==
  /\ Begin(q)
  /\ \E t \in Transfers, op \in {"accept", "decline", "cancel", "update"} :
       /\ Committed(t)
       /\ op # "accept" => Allows(op, rows[t])
       /\ sess' = [sess EXCEPT ![q] =
            [Idle EXCEPT !.pc = "read", !.op = op, !.id = t, !.seen = rows[t]]]
  /\ UNCHANGED <<clock, rows, money, locks, advisory, faults>>

Read(q, op) == sess[q].pc = "read" /\ sess[q].op = op

\* Mutant: accept looks at the row as the route loaded it.
SeenPending(q) == sess[q].seen.status = "PENDING"

\* The row as it is read again under FOR UPDATE with populate_existing.
StillPending(q) == Allows("accept", rows[sess[q].id])

LockOffer(q) ==
  /\ Read(q, "accept")
  /\ RowFree(sess[q].id)
  /\ StillPending(q)
  /\ rowLock' = [rowLock EXCEPT ![sess[q].id] = q]
  /\ sess' = [sess EXCEPT ![q].pc = "pay"]
  /\ UNCHANGED <<clock, rows, money, poolLock, advisory, used, faults>>

RefuseAccept(q) ==
  /\ Read(q, "accept")
  /\ RowFree(sess[q].id)
  /\ ~StillPending(q)
  /\ sess' = [sess EXCEPT ![q] = Idle]
  /\ UNCHANGED <<clock, rows, money, locks, advisory, used, faults>>

\* The commit of a direct transfer, or of an accepted offer.
PayRequest(q) ==
  LET t == sess[q].id
      row == rows[t]
  IN
  /\ q \in Requests
  /\ CanPay(q)
  /\ Enough(q)
  /\ rows' = [rows EXCEPT ![t].status = "COMPLETED", ![t].by = None]
  /\ moved' = [moved EXCEPT ![t] = @ + 1]
  /\ ledger' = Movement(ledger, row)
  /\ total' = Settled(q, Movement(sess[q].bal, row))
  /\ Release(q)
  /\ sess' = [sess EXCEPT ![q] = Idle]
  /\ UNCHANGED <<clock, advisory, used, faults>>

\* InsufficientFundsError: 409, and nothing stays; an offer is still PENDING.
RefusePayment(q) ==
  /\ CanPay(q)
  /\ ~Enough(q)
  /\ Rollback(q)
  /\ sess' = [sess EXCEPT ![q] = Idle]
  /\ UNCHANGED <<clock, advisory, used, faults>>

\* An UPDATE waits for the row; it does not look at the status again.
Written(q, row) ==
  /\ RowFree(sess[q].id)
  /\ rows' = [rows EXCEPT ![sess[q].id] = row]
  /\ sess' = [sess EXCEPT ![q] = Idle]
  /\ UNCHANGED <<clock, money, locks, advisory, used, faults>>

DeclineTransfer(q) ==
  /\ Read(q, "decline")
  /\ Written(q, [rows[sess[q].id] EXCEPT !.status = "CANCELLED"])

CancelTransfer(q) ==
  /\ Read(q, "cancel")
  /\ Written(q, [rows[sess[q].id] EXCEPT !.status = "CANCELLED",
                                         !.due = IF sess[q].seen.recurring THEN None ELSE @])

\* The session writes the columns whose new value is not the one it loaded.
UpdateTransfer(q) ==
  LET seen == sess[q].seen IN
  /\ Read(q, "update")
  /\ \E ed \in Edits :
       Written(q, [rows[sess[q].id] EXCEPT
         !.due = IF ed.due \notin {None, seen.due} THEN ed.due ELSE @,
         !.end = IF ed.end_sent /\ ed.end # seen.end THEN ed.end ELSE @,
         !.amount = IF ed.amount \notin {0, seen.amount} THEN ed.amount ELSE @])

\* The request fails or is cut off: nothing of it stays.
AbortRequest(q) ==
  /\ sess[q].pc # "idle"
  /\ Rollback(q)
  /\ sess' = [sess EXCEPT ![q] = Idle]
  /\ UNCHANGED <<clock, advisory, used, faults>>

\* Income or an expense of another part of the application moves a pool.
PostElsewhere(p) ==
  /\ used < MaxRequests
  /\ used' = used + 1
  /\ PoolFree(p)
  /\ \E d \in {1, -1} : /\ ledger' = [ledger EXCEPT ![p] = @ + d]
                        /\ total' = [total EXCEPT ![p] = @ + d]
  /\ UNCHANGED <<clock, rows, moved, locks, advisory, sess, faults>>

-----------------------------------------------------------------------------
(* The tick: run_recurring_transfers and _run_parent *)

StartTick(w, force) ==
  /\ sess[w].pc = "idle"
  /\ advisory = None
  /\ advisory' = w
  /\ sess' = [sess EXCEPT ![w] =
       [Idle EXCEPT !.pc = "scan", !.now = clock, !.force = force,
          !.todo = {t \in Transfers : /\ rows[t].recurring
                                      /\ rows[t].status = "ACTIVE"
                                      /\ rows[t].due # None
                                      /\ force \/ rows[t].due <= clock}]]
  /\ UNCHANGED <<clock, rows, money, locks, used, faults>>

\* FOR UPDATE SKIP LOCKED finds the row, ACTIVE and with a date; whether that
\* date has come is left to the loop.
Takes(t) == rowLock[t] = None /\ rows[t].status = "ACTIVE" /\ rows[t].due # None

TakeParent(w) ==
  /\ sess[w].pc = "scan"
  /\ \E t \in sess[w].todo :
       /\ Takes(t)
       /\ rowLock' = [rowLock EXCEPT ![t] = w]
       /\ sess' = [sess EXCEPT ![w].pc = "run", ![w].todo = @ \ {t},
                               ![w].parent = t, ![w].seen = rows[t]]
  /\ UNCHANGED <<clock, rows, money, poolLock, advisory, used, faults>>

SkipParent(w) ==
  /\ sess[w].pc = "scan"
  /\ \E t \in sess[w].todo : /\ ~Takes(t)
                             /\ sess' = [sess EXCEPT ![w].todo = @ \ {t}]
  /\ UNCHANGED <<clock, rows, money, locks, advisory, used, faults>>

PastEnd(row) == row.end # None /\ row.due > row.end

\* Mutant: the number of children is not limited.
NoCatchUpLimit(s) == s.pc = "run" /\ s.seen.due <= s.now /\ ~PastEnd(s.seen)

\* The conditions of the loop.  A period that ran before is not counted in made.
LoopRuns(s) ==
  /\ s.pc = "run"
  /\ s.made < MaxCatchUp
  /\ \/ s.seen.due <= s.now
     \/ s.force /\ s.made = 0
  /\ ~PastEnd(s.seen)

ChildKey(w) == <<sess[w].parent, sess[w].seen.due>>

\* The next date of the schedule.
Stepped(row) == [row EXCEPT !.due = @ + Step]

\* The child of one period is inserted, inside a savepoint.
InsertChild(w, t, pc, made) ==
  LET s == sess[w] IN
  /\ LoopRuns(s)
  /\ ~KeyTaken(ChildKey(w))
  /\ Fresh(t)
  /\ rows' = [rows EXCEPT ![t] =
       [NewRow(s.seen, w, "PENDING") EXCEPT !.key = ChildKey(w), !.recurring = FALSE,
                                            !.due = None, !.end = None]]
  /\ sess' = [sess EXCEPT ![w] = [s EXCEPT !.pc = pc, !.id = t, !.made = @ + made,
                                           !.seen = Stepped(@)]]
  /\ UNCHANGED <<clock, money, locks, advisory, used, faults>>

\* The destination is direct now: the child is paid at once.
RunDirect(w) == \E t \in Transfers : InsertChild(w, t, "pay", 1)

\* It is not: the child waits for the receiver.
RunOffer(w) == \E t \in Transfers : InsertChild(w, t, "run", 1)

\* The unique index refuses the child: this period ran already.
RepeatPeriod(w) ==
  LET s == sess[w] IN
  /\ LoopRuns(s)
  /\ KeyTaken(ChildKey(w))
  /\ sess' = [sess EXCEPT ![w].seen = Stepped(@)]
  /\ UNCHANGED <<clock, rows, money, locks, advisory, used, faults>>

PayChild(w) ==
  LET s == sess[w]
      row == rows[s.id]
  IN
  /\ w \in Ticks
  /\ CanPay(w)
  /\ Enough(w)
  /\ rows' = [rows EXCEPT ![s.id].status = "COMPLETED"]
  /\ sess' = [sess EXCEPT ![w] =
       [s EXCEPT !.pc = "run", !.id = None, !.paid = @ \cup {s.id},
                 !.bal = Movement(@, row), !.delta = Movement(@, row)]]
  /\ UNCHANGED <<clock, money, locks, advisory, used, faults>>

\* InsufficientFundsError: the savepoint is rolled back, and with it the locks
\* taken since; locks from a child paid earlier stay.
FailChild(w) ==
  LET s == sess[w] IN
  /\ w \in Ticks
  /\ CanPay(w)
  /\ ~Enough(w)
  /\ rows' = [rows EXCEPT ![s.id].status = "FAILED"]
  /\ IF s.paid = {} THEN ReleasePools(w) ELSE UNCHANGED poolLock
  /\ sess' = [sess EXCEPT ![w].pc = "run", ![w].id = None]
  /\ UNCHANGED <<clock, money, rowLock, advisory, used, faults>>

\* Mutant: the session's other pending work is not forgotten.
KeepsWork(s) == [s EXCEPT !.pc = "scan"]

\* Between two schedules a tick keeps what it was started with and what is left.
BackToScan(s) ==
  [Idle EXCEPT !.pc = "scan", !.now = s.now, !.force = s.force, !.todo = s.todo]

CommitParent(w) ==
  LET s == sess[w] IN
  /\ s.pc = "run"
  /\ ~LoopRuns(s)
  /\ rows' = [Publish(w) EXCEPT ![s.parent].due = s.seen.due,
                                ![s.parent].status = IF PastEnd(s.seen) THEN "COMPLETED" ELSE @]
  /\ moved' = [t \in Transfers |-> IF t \in s.paid THEN moved[t] + 1 ELSE moved[t]]
  /\ ledger' = [p \in Pools |-> ledger[p] + s.delta[p]]
  /\ total' = Settled(w, s.bal)
  /\ Release(w)
  /\ sess' = [sess EXCEPT ![w] = BackToScan(s)]
  /\ UNCHANGED <<clock, advisory, used, faults>>

\* Mutant: the exception ends the tick, which keeps its lock.
LeaveTick(w) == sess' = [sess EXCEPT ![w] = Idle]

\* An exception: roll back this schedule and go on with the others.
NextParent(w) == sess' = [sess EXCEPT ![w] = BackToScan(sess[w])]

\* When the model has no id left the insert fails, without counting as a fault.
FailParent(w) ==
  /\ sess[w].pc \in {"run", "pay"}
  /\ \/ faults < MaxFaults /\ faults' = faults + 1
     \/ /\ LoopRuns(sess[w]) /\ ~KeyTaken(ChildKey(w))
        /\ ~\E t \in Transfers : Fresh(t)
        /\ UNCHANGED faults
  /\ Rollback(w)
  /\ NextParent(w)
  /\ UNCHANGED <<clock, advisory, used>>

EndTick(w) ==
  /\ sess[w].pc = "scan"
  /\ sess[w].todo = {}
  /\ advisory' = IF advisory = w THEN None ELSE advisory
  /\ sess' = [sess EXCEPT ![w] = Idle]
  /\ UNCHANGED <<clock, rows, money, locks, used, faults>>

\* The process dies: its transaction is rolled back, its connections close.
CrashTick(w) ==
  /\ sess[w].pc # "idle"
  /\ faults < MaxFaults
  /\ faults' = faults + 1
  /\ Rollback(w)
  /\ advisory' = IF advisory = w THEN None ELSE advisory
  /\ sess' = [sess EXCEPT ![w] = Idle]
  /\ UNCHANGED <<clock, used>>

\* The connection of the advisory lock is closed while the tick goes on.
LoseAdvisory(w) ==
  /\ advisory = w
  /\ faults < MaxFaults
  /\ faults' = faults + 1
  /\ advisory' = None
  /\ UNCHANGED <<clock, rows, money, locks, sess, used>>

-----------------------------------------------------------------------------
(* The specification *)

Advance ==
  /\ clock < MaxDay
  /\ clock' = clock + 1
  /\ UNCHANGED <<rows, money, locks, advisory, sess, used, faults>>

UserBegins(q) ==
  \/ CreateSchedule(q)
  \/ CreateOffer(q)
  \/ CreateDirect(q)
  \/ OpenTransfer(q)

RequestStep(q) ==
  \/ LockOffer(q)
  \/ RefuseAccept(q)
  \/ LockPool(q)
  \/ PayRequest(q)
  \/ RefusePayment(q)
  \/ DeclineTransfer(q)
  \/ CancelTransfer(q)
  \/ UpdateTransfer(q)

TickStep(w) ==
  \/ TakeParent(w)
  \/ SkipParent(w)
  \/ RunDirect(w)
  \/ RunOffer(w)
  \/ RepeatPeriod(w)
  \/ LockPool(w)
  \/ PayChild(w)
  \/ FailChild(w)
  \/ CommitParent(w)
  \/ EndTick(w)

Fault(w) ==
  \/ FailParent(w)
  \/ CrashTick(w)
  \/ LoseAdvisory(w)

Next ==
  \/ Advance
  \/ \E p \in Pools : PostElsewhere(p)
  \/ \E w \in Ticks, force \in Forcing : StartTick(w, force)
  \/ \E w \in Ticks : TickStep(w) \/ Fault(w)
  \/ \E q \in Requests : UserBegins(q) \/ RequestStep(q) \/ AbortRequest(q)

Spec == Init /\ [][Next]_vars

\* A tick starts every few minutes, and what is started goes on as long as it can;
\* users need not come, and no request need be cut off.
Fairness ==
  /\ \A w \in Ticks : WF_vars(StartTick(w, FALSE)) /\ WF_vars(TickStep(w))
  /\ \A q \in Requests : WF_vars(RequestStep(q))

FairSpec == Spec /\ Fairness

-----------------------------------------------------------------------------
(* Properties *)

TypeOK ==
  /\ clock \in Day
  /\ rows \in [Transfers -> Row]
  /\ moved \in [Transfers -> Nat]
  /\ ledger \in [Pools -> Int]
  /\ total \in [Pools -> Int]
  /\ rowLock \in [Transfers -> Sessions \cup {None}]
  /\ poolLock \in [Pools -> Sessions \cup {None}]
  /\ advisory \in Ticks \cup {None}
  /\ sess \in [Sessions -> Session]
  /\ used \in Nat
  /\ faults \in Nat

\* The cached totals of both pools of a transfer stay the sums of their ledger
\* rows, whichever requests, ticks and other postings meet on the pools
\* (lock_pools and _update_cache, savings_ledger_service.py).
PoolMatchesLedger == \A p \in Pools : total[p] = ledger[p]

\* A transfer that is COMPLETED has moved its money exactly once, even when its
\* receivers accept it at the same moment or a crash cuts the payment off; one
\* that waits or FAILED, and a schedule itself, has moved none.
PaidOnce ==
  \A t \in Transfers : Committed(t) =>
    /\ rows[t].status = "COMPLETED" /\ ~rows[t].recurring => moved[t] = 1
    /\ rows[t].status \in {"PENDING", "ACTIVE", "FAILED"} \/ rows[t].recurring
         => moved[t] = 0

\* A form that is submitted twice, or a period of a schedule that a second tick,
\* a forced tick or a changed date comes back to, has one transfer.
OneTransferPerKey ==
  \A t, u \in Transfers :
    Committed(t) /\ Committed(u) /\ rows[t].key # None /\ rows[t].key = rows[u].key => t = u

\* The session a session waits for, None if there is none.
WaitsFor(s) ==
  CASE sess[s].pc = "pay" /\ ~HoldsPools(s) -> poolLock[NextPool(s)]
    [] sess[s].pc = "read" -> rowLock[sess[s].id]
    [] OTHER -> None

\* Docstring of lock_pools, "two-sided moves can't deadlock": no sessions wait for
\* each other in a circle, over the pools or over the rows of transfers.
NoDeadlock ==
  \A S \in (SUBSET Sessions) \ {{}} : \E s \in S : WaitsFor(s) \notin S

\* A child of a schedule becomes visible only while the schedule is ACTIVE: what
\* was cancelled or completed before makes no further transfer, though the tick
\* listed it earlier.
NoRunAfterStop ==
  [][\A t \in Transfers :
       ~Committed(t) /\ Committed(t)' /\ rows'[t].key \in Transfers \X Day
       => rows[rows'[t].key[1]].status = "ACTIVE"]_vars

\* A schedule that can run does not stay due for ever: a failing schedule does not
\* block the others, and what a crash or a locked row left over is taken later.
Overdue(t) ==
  /\ Committed(t)
  /\ rows[t].status = "ACTIVE"
  /\ rows[t].due <= clock
SchedulesMove == \A t \in Transfers : Overdue(t) ~> ~Overdue(t)

\* Module doc of transfer_service.py: what is not direct "waits for the receiver
\* (the person, or any member of the receiving family) to accept", and can_accept
\* and can_cancel refuse what is no longer PENDING: a CANCELLED transfer moved
\* nothing.
CancelledIsUnpaid ==
  \A t \in Transfers : Committed(t) /\ rows[t].status = "CANCELLED" => moved[t] = 0

\* The orders and payments a service would see: the rows that are one-off
\* transfers are the orders, and their ledger rows the payments.
Order ==
  [t \in Transfers |->
    IF Committed(t) /\ ~rows[t].recurring
    THEN [from |-> rows[t].from, to |-> rows[t].to, amount |-> rows[t].amount]
    ELSE None]
Paid == {t \in Transfers : moved[t] > 0}

Service == INSTANCE Payments WITH
  Orders <- Transfers, order <- Order, paid <- Paid, balance <- total

\* The service implements the payment of orders: whatever requests and ticks
\* there are, each step of them places orders, pays some of them together from
\* a sender that has enough, or moves a pool elsewhere.
ImplementsPayments == Service!Spec
=============================================================================
