--------------------------- MODULE TransfersProofs ---------------------------
(***************************************************************************)
(* TLAPS proofs about Transfers, for every value of its constants.         *)
(***************************************************************************)
EXTENDS Transfers, SumsProofs, TLAPS

-----------------------------------------------------------------------------
(* The inductive invariant.                                                *)
(*                                                                         *)
(* PoolMatchesLedger and PaidOnce are not inductive: what a transaction    *)
(* will write at its commit is in its session and in rows nobody else      *)
(* sees, and stays right until then only because of the locks it holds.    *)

\* A row has two pools; one that is not committed is no schedule; only a
\* schedule is ACTIVE, and it is never PENDING or FAILED.
RowOK(t) ==
  LET row == rows[t] IN
  /\ row.status = "ABSENT" => row = AbsentRow
  /\ row.status # "ABSENT" => row.from \in Pools /\ row.to \in Pools /\ row.from # row.to
  /\ row.by # None => ~row.recurring /\ row.status \in {"PENDING", "COMPLETED", "FAILED"}
  /\ row.status \in {"PENDING", "FAILED"} => ~row.recurring
  /\ row.status = "ACTIVE" => row.recurring

RowsOK == \A t \in Transfers : RowOK(t)

\* How often the money of a transfer was moved follows from its row, except
\* for one that was CANCELLED: it may have been paid before.
MovedOK ==
  \A t \in Transfers :
    /\ \/ rows[t].by # None
       \/ rows[t].recurring
       \/ rows[t].status \in {"ABSENT", "PENDING", "ACTIVE", "FAILED"}
       => moved[t] = 0
    /\ rows[t].by = None /\ rows[t].status = "COMPLETED" /\ ~rows[t].recurring
       => moved[t] = 1

\* The unique index holds for the rows that are not committed yet as well.
UniqueIndex ==
  \A t, u \in Transfers : rows[t].key # None /\ rows[t].key = rows[u].key => t = u

\* A request that waits for a row knows a row that stays, and of the same kind.
Reading(s) ==
  /\ s \in Requests
  /\ sess[s].id \in Transfers
  /\ Committed(sess[s].id)
  /\ sess[s].seen.recurring = rows[sess[s].id].recurring
  /\ sess[s].op = "update" => rows[sess[s].id].recurring

\* A session that pays has a PENDING row to itself: it inserted the row, or it
\* is a request and has locked it.
Paying(s) ==
  LET t == sess[s].id IN
  /\ t \in Transfers
  /\ rows[t].status = "PENDING"
  /\ rows[t].by = s \/ (s \in Requests /\ rows[t].by = None /\ rowLock[t] = s)

\* A tick inside _run_parent holds the row of the schedule, which is still
\* ACTIVE, and knows its pools; a child it pays has the same.
Running(w) ==
  LET s == sess[w] IN
  /\ s.parent \in Transfers
  /\ rowLock[s.parent] = w
  /\ rows[s.parent].status = "ACTIVE"
  /\ s.seen.due \in Day
  /\ s.seen.from \in Pools /\ s.seen.to \in Pools /\ s.seen.from # s.seen.to
  /\ s.pc = "pay" => /\ rows[s.id].by = w
                     /\ rows[s.id].from = s.seen.from
                     /\ rows[s.id].to = s.seen.to

\* What a session has inserted and not committed: a tick the children of one
\* schedule, a request the row it is about to pay.
Inserted(s) ==
  \A t \in Transfers : rows[t].by = s =>
    IF s \in Ticks
    THEN /\ sess[s].pc \in {"run", "pay"}
         /\ rows[t].key \in Transfers \X Day
         /\ rows[t].key[1] = sess[s].parent
         /\ rows[t].from = sess[s].seen.from
         /\ rows[t].to = sess[s].seen.to
    ELSE /\ sess[s].pc = "pay"
         /\ sess[s].id = t
         /\ rows[t].key \notin Transfers \X Day

\* The row locks a session holds: a tick the schedule's, a request its offer's.
Locking(s) ==
  \A t \in Transfers : rowLock[t] = s =>
    IF s \in Ticks
    THEN sess[s].pc \in {"run", "pay"} /\ sess[s].parent = t
    ELSE sess[s].pc = "pay" /\ sess[s].id = t

\* The balance a session knows of a pool it has locked is the one its commit
\* will leave; it moved no money of a pool it has not locked.
Balanced(s) ==
  \A p \in Pools :
    IF poolLock[p] = s
    THEN sess[s].bal[p] = total[p] + sess[s].delta[p]
    ELSE sess[s].delta[p] = 0

\* The pools a session holds: both of the schedule once a child of it is paid;
\* of the transfer it pays, in the order of lock_pools.
HoldsInOrder(s) ==
  LET row == rows[sess[s].id] IN
  /\ \A p \in Pools : poolLock[p] = s => p \in {row.from, row.to}
  /\ \A p, o \in {row.from, row.to} :
       poolLock[o] = s /\ Rank[p] < Rank[o] => poolLock[p] = s

Holding(s) ==
  /\ sess[s].pc \in {"idle", "read", "scan"} => \A p \in Pools : poolLock[p] # s
  /\ sess[s].pc = "run" => \A p \in Pools :
       poolLock[p] = s => sess[s].paid # {} /\ p \in {sess[s].seen.from, sess[s].seen.to}
  /\ sess[s].pc = "pay" => HoldsInOrder(s)
  /\ IF sess[s].paid = {}
     THEN \A p \in Pools : sess[s].delta[p] = 0
     ELSE poolLock[sess[s].seen.from] = s /\ poolLock[sess[s].seen.to] = s

SessionOK(s) ==
  /\ sess[s].pc \in {"scan", "run"} => s \in Ticks
  /\ sess[s].pc = "read" => Reading(s)
  /\ sess[s].pc = "pay" => Paying(s)
  /\ sess[s].pc \in {"run", "pay"} /\ s \in Ticks => Running(s)
  /\ sess[s].paid = {t \in Transfers : rows[t].by = s /\ rows[t].status = "COMPLETED"}
  /\ Inserted(s)
  /\ Locking(s)
  /\ Balanced(s)
  /\ Holding(s)

SessionsOK == \A s \in Sessions : SessionOK(s)

\* Finitely many pools are locked; the ones that are have a greatest rank.
LockedBelow(n) == \A p \in Pools : poolLock[p] # None => Rank[p] < n
RanksBounded == \E n \in Nat : LockedBelow(n)

IInv ==
  /\ TypeOK
  /\ RowsOK
  /\ MovedOK
  /\ UniqueIndex
  /\ SessionsOK
  /\ PoolMatchesLedger

-----------------------------------------------------------------------------
(* Types of rows and sessions. *)

LEMMA RowType ==
  ASSUME NEW r \in Row
  PROVE  /\ r.status \in Statuses /\ r.by \in Sessions \cup {None}
         /\ r.from \in Pools \cup {None} /\ r.to \in Pools \cup {None}
         /\ r.amount \in Nat /\ r.recurring \in BOOLEAN
         /\ r.key \in Keys \cup (Transfers \X Day) \cup {None}
         /\ r.due \in Day \cup {None} /\ r.end \in Day \cup {None}
BY DEF Row

LEMMA SessionType ==
  ASSUME NEW x \in Session
  PROVE  /\ x.pc \in {"idle", "read", "scan", "run", "pay"}
         /\ x.op \in {"create", "accept", "decline", "cancel", "update", None}
         /\ x.id \in Transfers \cup {None} /\ x.seen \in Row
         /\ x.parent \in Transfers \cup {None}
         /\ x.bal \in [Pools -> Int] /\ x.delta \in [Pools -> Int]
         /\ x.paid \in SUBSET Transfers /\ x.made \in 0..MaxCatchUp /\ x.now \in Day
         /\ x.force \in BOOLEAN /\ x.todo \in SUBSET Transfers
BY DEF Session

LEMMA Constants ==
  /\ AbsentRow \in Row
  /\ Idle \in Session
  /\ None \notin Sessions /\ None \notin Pools /\ None \notin Transfers /\ None \notin Day
  /\ None \notin Transfers \X Day
<1>1. AbsentRow \in Row
  BY DEF AbsentRow, Row, Statuses, Day
<1>2. 0 \in 0..MaxCatchUp /\ 0 \in Day
  BY NumberAssumption DEF Day
<1>3. Idle \in Session
  BY <1>1, <1>2 DEF Idle, Session
<1> QED BY <1>1, <1>3, NoneAssumption, SessionAssumption DEF Day

\* What the state is made of, of one row and of one session.
LEMMA StateTypes ==
  ASSUME TypeOK
  PROVE  /\ \A t \in Transfers : rows[t] \in Row
         /\ \A s \in Sessions : sess[s] \in Session
         /\ Ticks \subseteq Sessions /\ Requests \subseteq Sessions
BY DEF TypeOK, Sessions

LEMMA NewRowType ==
  ASSUME NEW d, d.from \in Pools, d.to \in Pools, d.amount \in Nat, d.recurring \in BOOLEAN,
         d.key \in Keys \cup (Transfers \X Day) \cup {None},
         d.due \in Day \cup {None}, d.end \in Day \cup {None},
         NEW s \in Sessions \cup {None}, NEW status \in Statuses
  PROVE  NewRow(d, s, status) \in Row
BY DEF NewRow, Row

LEMMA SteppedType ==
  ASSUME NEW r \in Row, r.due \in Day
  PROVE  /\ Stepped(r) \in Row /\ Stepped(r).due \in Day
         /\ Stepped(r).from = r.from /\ Stepped(r).to = r.to
<1>1. r.due + Step \in Day
  BY NumberAssumption DEF Day
<1> QED BY <1>1 DEF Stepped, Row

LEMMA BackToScanType ==
  ASSUME NEW x \in Session
  PROVE  BackToScan(x) \in Session
BY Constants DEF BackToScan, Session

LEMMA MovementType ==
  ASSUME NEW f \in [Pools -> Int], NEW row \in Row,
         row.from \in Pools, row.to \in Pools, row.from # row.to
  PROVE  /\ Movement(f, row) \in [Pools -> Int]
         /\ Movement(f, row)[row.from] = f[row.from] - row.amount
         /\ Movement(f, row)[row.to] = f[row.to] + row.amount
         /\ \A p \in Pools \ {row.from, row.to} : Movement(f, row)[p] = f[p]
<1>1. row.amount \in Nat
  BY RowType
<1> QED BY <1>1 DEF Movement

LEMMA ReleaseType ==
  ASSUME TypeOK, NEW s \in Sessions, Release(s)
  PROVE  /\ rowLock' \in [Transfers -> Sessions \cup {None}]
         /\ poolLock' \in [Pools -> Sessions \cup {None}]
         /\ \A t \in Transfers : rowLock'[t] = IF rowLock[t] = s THEN None ELSE rowLock[t]
         /\ \A p \in Pools : poolLock'[p] = IF poolLock[p] = s THEN None ELSE poolLock[p]
BY DEF TypeOK, Release, ReleasePools

\* The two pools of the row a session pays.
LEMMA PayPools ==
  ASSUME TypeOK, RowsOK, NEW s \in Sessions, SessionOK(s), sess[s].pc = "pay"
  PROVE  LET row == rows[sess[s].id] IN
         /\ sess[s].id \in Transfers /\ row \in Row
         /\ row.from \in Pools /\ row.to \in Pools /\ row.from # row.to
         /\ row.status = "PENDING" /\ ~row.recurring
<1>1. sess[s].id \in Transfers /\ rows[sess[s].id].status = "PENDING"
  BY DEF SessionOK, Paying
<1>2. RowOK(sess[s].id)
  BY <1>1 DEF RowsOK
<1> QED BY <1>1, <1>2, StateTypes DEF RowOK

\* lock_pools asks for the pool of the lowest rank it does not hold.
LEMMA NextPoolIsLowest ==
  ASSUME TypeOK, RowsOK, NEW s \in Sessions, SessionOK(s), sess[s].pc = "pay", ~HoldsPools(s)
  PROVE  LET row == rows[sess[s].id] IN
         /\ NextPool(s) \in {row.from, row.to} /\ NextPool(s) \in Pools
         /\ poolLock[NextPool(s)] # s
         /\ \A o \in {row.from, row.to} : poolLock[o] # s => Rank[NextPool(s)] <= Rank[o]
<1> DEFINE row == rows[sess[s].id]
           missing == {p \in {row.from, row.to} : poolLock[p] # s}
<1>1. row.from \in Pools /\ row.to \in Pools
  BY PayPools
<1>2. Rank[row.from] \in Nat /\ Rank[row.to] \in Nat
  BY <1>1, PoolsAssumption
<1>3. missing # {}
  BY DEF HoldsPools
<1>4. \E p \in missing : \A o \in missing : Rank[p] <= Rank[o]
  BY <1>2, <1>3
<1>5. NextPool(s) = CHOOSE p \in missing : \A o \in missing : Rank[p] <= Rank[o]
  BY DEF NextPool
<1> HIDE DEF missing
<1>6. NextPool(s) \in missing /\ \A o \in missing : Rank[NextPool(s)] <= Rank[o]
  BY <1>4, <1>5
<1> QED BY <1>1, <1>6 DEF missing

-----------------------------------------------------------------------------
(* What a step leaves to the sessions that do not take it. *)

\* The session, its rows and locks, the row it reads and the totals of the pools
\* it holds are as before.
Undisturbed(u) ==
  /\ sess'[u] = sess[u]
  /\ \A t \in Transfers :
       /\ rows'[t].by = u <=> rows[t].by = u
       /\ rows[t].by = u \/ rowLock[t] = u => rows'[t] = rows[t]
       /\ rowLock'[t] = u <=> rowLock[t] = u
       /\ Committed(t) => Committed(t)' /\ rows'[t].recurring = rows[t].recurring
  /\ \A p \in Pools :
       /\ poolLock'[p] = u <=> poolLock[p] = u
       /\ poolLock[p] = u => total'[p] = total[p]

LEMMA UndisturbedOK ==
  ASSUME TypeOK, RowsOK, NEW u \in Sessions, SessionOK(u), Undisturbed(u)
  PROVE  SessionOK(u)'
<1>1. sess'[u] = sess[u]
  BY DEF Undisturbed
<1>2. (sess[u].pc \in {"scan", "run"} => u \in Ticks)'
  BY <1>1 DEF SessionOK
<1>3. (sess[u].pc = "read" => Reading(u))'
  <2> SUFFICES ASSUME sess[u].pc = "read"  PROVE Reading(u)'
    BY <1>1
  <2>1. Reading(u)
    BY DEF SessionOK
  <2> QED BY <1>1, <2>1 DEF Undisturbed, Reading
<1>4. ASSUME sess[u].pc = "pay"
      PROVE  sess[u].id \in Transfers /\ rows'[sess[u].id] = rows[sess[u].id]
  BY <1>4 DEF Undisturbed, SessionOK, Paying
<1>5. (sess[u].pc = "pay" => Paying(u))'
  <2> SUFFICES ASSUME sess[u].pc = "pay"  PROVE Paying(u)'
    BY <1>1
  <2>1. Paying(u)
    BY DEF SessionOK
  <2> QED BY <1>1, <1>4, <2>1 DEF Undisturbed, Paying
<1>6. (sess[u].pc \in {"run", "pay"} /\ u \in Ticks => Running(u))'
  <2> SUFFICES ASSUME sess[u].pc \in {"run", "pay"}, u \in Ticks  PROVE Running(u)'
    BY <1>1
  <2>1. Running(u)
    BY DEF SessionOK
  <2>2. rows'[sess[u].parent] = rows[sess[u].parent] /\ rowLock'[sess[u].parent] = u
    BY <2>1 DEF Undisturbed, Running
  <2> QED BY <1>1, <1>4, <2>1, <2>2 DEF Running
<1>7. (sess[u].paid = {t \in Transfers : rows[t].by = u /\ rows[t].status = "COMPLETED"})'
  BY <1>1 DEF Undisturbed, SessionOK
<1>8. Inserted(u)'
  BY <1>1 DEF Undisturbed, SessionOK, Inserted
<1>9. Balanced(u)'
  BY <1>1 DEF Undisturbed, SessionOK, Balanced
<1>10. Locking(u)'
  BY <1>1 DEF Undisturbed, SessionOK, Locking
<1>11. Holding(u)'
  <2>1. Holding(u) /\ \A p \in Pools : poolLock'[p] = u <=> poolLock[p] = u
    BY DEF SessionOK, Undisturbed
  <2>2. (sess[u].pc \in {"idle", "read", "scan"} => \A p \in Pools : poolLock[p] # u)'
    BY <1>1, <2>1 DEF Holding
  <2>3. (sess[u].pc = "run" => \A p \in Pools :
          poolLock[p] = u => sess[u].paid # {} /\ p \in {sess[u].seen.from, sess[u].seen.to})'
    BY <1>1, <2>1 DEF Holding
  <2>4. (sess[u].pc = "pay" => HoldsInOrder(u))'
    <3> SUFFICES ASSUME sess[u].pc = "pay"  PROVE HoldsInOrder(u)'
      BY <1>1
    <3>1. rows[sess[u].id].from \in Pools /\ rows[sess[u].id].to \in Pools
      BY PayPools
    <3> QED BY <1>1, <1>4, <2>1, <3>1 DEF Holding, HoldsInOrder
  <2>5. (IF sess[u].paid = {}
         THEN \A p \in Pools : sess[u].delta[p] = 0
         ELSE poolLock[sess[u].seen.from] = u /\ poolLock[sess[u].seen.to] = u)'
    <3>1. CASE sess[u].paid = {}
      BY <1>1, <2>1, <3>1 DEF Holding
    <3>2. CASE sess[u].paid # {}
      <4>1. u \in Ticks /\ sess[u].pc \in {"run", "pay"}
        BY <3>2 DEF SessionOK, Inserted, Paying
      <4>2. sess[u].seen.from \in Pools /\ sess[u].seen.to \in Pools
        BY <4>1 DEF SessionOK, Running
      <4> QED BY <1>1, <2>1, <3>2, <4>2 DEF Holding
    <3> QED BY <3>1, <3>2
  <2> QED BY <2>2, <2>3, <2>4, <2>5 DEF Holding
<1> QED BY <1>2, <1>3, <1>5, <1>6, <1>7, <1>8, <1>9, <1>10, <1>11 DEF SessionOK

\* A step of session s keeps the invariant if it keeps every part of it that is
\* about the rows, and about s, and leaves the others undisturbed.
LEMMA StepKeeps ==
  ASSUME IInv, TypeOK', RowsOK', MovedOK', UniqueIndex', PoolMatchesLedger',
         NEW s, \A u \in Sessions \ {s} : Undisturbed(u), s \in Sessions => SessionOK(s)'
  PROVE  IInv'
<1>1. ASSUME NEW u \in Sessions PROVE SessionOK(u)'
  <2>1. CASE u = s
    BY <2>1
  <2>2. CASE u # s
    BY <2>2, UndisturbedOK DEF IInv, SessionsOK
  <2> QED BY <2>1, <2>2
<1> QED BY <1>1 DEF IInv, SessionsOK

\* A session outside run_transfer has nothing to commit and holds no pool.
Empty(s) ==
  /\ sess[s].pc = "idle" \/ (sess[s].pc = "scan" /\ s \in Ticks)
  /\ sess[s].paid = {}
  /\ \A p \in Pools : sess[s].delta[p] = 0 /\ poolLock[p] # s
  /\ \A t \in Transfers : rows[t].by # s /\ rowLock[t] # s

LEMMA EmptyOK ==
  ASSUME NEW s \in Sessions, Empty(s)'
  PROVE  SessionOK(s)'
BY DEF Empty, SessionOK, Inserted, Locking, Balanced, Holding

\* A session outside run_transfer that knows nothing has nothing to do at its end.
LEMMA OutsideIsEmpty ==
  ASSUME TypeOK, NEW s \in Sessions, SessionOK(s), sess[s].pc \in {"idle", "read", "scan"}
  PROVE  /\ sess[s].paid = {}
         /\ \A p \in Pools : sess[s].delta[p] = 0 /\ poolLock[p] # s
         /\ \A t \in Transfers : rows[t].by # s /\ rowLock[t] # s
<1>1. \A t \in Transfers : rows[t].by # s /\ rowLock[t] # s
  BY DEF SessionOK, Inserted, Locking
<1>2. sess[s].paid = {}
  BY <1>1 DEF SessionOK
<1> QED BY <1>1, <1>2 DEF SessionOK, Holding

LEMMA IdleFields ==
  /\ Idle.pc = "idle" /\ Idle.paid = {}
  /\ \A p \in Pools : Idle.delta[p] = 0 /\ Idle.bal[p] = 0
BY DEF Idle

\* A locked row exists.
LEMMA LockedRow ==
  ASSUME TypeOK, RowsOK, NEW s \in Sessions, SessionOK(s),
         NEW t \in Transfers, rowLock[t] = s
  PROVE  rows[t].status # "ABSENT"
BY DEF SessionOK, Locking, Running, Paying

\* A step that changes nothing but the session that takes it.
LEMMA SessionStep ==
  ASSUME IInv, NEW s \in Sessions, NEW x \in Session,
         sess' = [sess EXCEPT ![s] = x], UNCHANGED <<rows, money, locks>>,
         clock' \in Day, advisory' \in Ticks \cup {None}, used' \in Nat, faults' \in Nat,
         SessionOK(s)'
  PROVE  IInv'
<1>1. TypeOK'
  BY DEF IInv, TypeOK, money, locks
<1>2. RowsOK' /\ MovedOK' /\ UniqueIndex' /\ PoolMatchesLedger'
  BY DEF IInv, RowsOK, RowOK, MovedOK, UniqueIndex, PoolMatchesLedger, money
<1>3. \A u \in Sessions \ {s} : Undisturbed(u)
  BY DEF Undisturbed, Committed, IInv, TypeOK, money, locks
<1> QED BY <1>1, <1>2, <1>3, StepKeeps

\* A step after which a session is outside run_transfer again, as it was before.
LEMMA OutsideStep ==
  ASSUME IInv, NEW s \in Sessions, NEW x \in Session,
         sess[s].pc \in {"idle", "read", "scan"},
         x.pc = "idle" \/ (x.pc = "scan" /\ s \in Ticks),
         x.paid = {}, \A p \in Pools : x.delta[p] = 0,
         sess' = [sess EXCEPT ![s] = x], UNCHANGED <<rows, money, locks>>,
         clock' \in Day, advisory' \in Ticks \cup {None}, used' \in Nat, faults' \in Nat
  PROVE  IInv'
<1>1. sess'[s] = x
  BY DEF IInv, TypeOK
<1>2. Empty(s)'
  BY <1>1, OutsideIsEmpty DEF IInv, SessionsOK, Empty, locks
<1> QED BY <1>2, EmptyOK, SessionStep

\* The insert of a row.
LEMMA InsertRow ==
  ASSUME IInv, NEW t \in Transfers, NEW r \in Row,
         rows[t].status = "ABSENT", ~KeyTaken(r.key),
         r.status \in {"PENDING", "ACTIVE"}, r.recurring = (r.status = "ACTIVE"),
         r.by # None => r.status = "PENDING",
         r.from \in Pools, r.to \in Pools, r.from # r.to,
         rows' = [rows EXCEPT ![t] = r], UNCHANGED money
  PROVE  /\ rows' \in [Transfers -> Row]
         /\ RowsOK' /\ MovedOK' /\ UniqueIndex' /\ PoolMatchesLedger'
         /\ rows'[t] = r /\ rows[t].by = None /\ rows[t].key = None
         /\ \A u \in Transfers \ {t} : rows'[u] = rows[u]
<1>1. rows' \in [Transfers -> Row] /\ rows'[t] = r
      /\ \A u \in Transfers \ {t} : rows'[u] = rows[u]
  BY DEF IInv, TypeOK
<1>2. rows[t] = AbsentRow
  BY DEF IInv, RowsOK, RowOK
<1>3. rows[t].by = None /\ rows[t].key = None
  BY <1>2 DEF AbsentRow
<1>4. RowsOK'
  <2>1. RowOK(t)'
    BY <1>1 DEF RowOK
  <2>2. ASSUME NEW u \in Transfers \ {t} PROVE RowOK(u)'
    BY <1>1 DEF RowOK, IInv, RowsOK
  <2> QED BY <2>1, <2>2 DEF RowsOK
<1>5. MovedOK'
  BY <1>1, <1>3 DEF MovedOK, IInv, money
<1>6. UniqueIndex'
  <2>1. \A u \in Transfers : rows[u].key = r.key => r.key = None
    BY DEF KeyTaken, IInv, RowsOK, RowOK, AbsentRow
  <2> QED BY <1>1, <2>1 DEF UniqueIndex, IInv
<1>7. PoolMatchesLedger'
  BY DEF PoolMatchesLedger, IInv, money
<1> QED BY <1>1, <1>3, <1>4, <1>5, <1>6, <1>7

LEMMA InsertFrame ==
  ASSUME IInv, NEW s, NEW t \in Transfers, NEW r \in Row,
         rows[t].status = "ABSENT", r.status # "ABSENT", r.by \in {s, None},
         rows' = [rows EXCEPT ![t] = r], UNCHANGED <<money, locks>>,
         \A u \in Sessions \ {s} : sess'[u] = sess[u]
  PROVE  \A u \in Sessions \ {s} : Undisturbed(u)
<1> TAKE u \in Sessions \ {s}
<1>1. rows[t].by = None
  BY DEF IInv, RowsOK, RowOK, AbsentRow
<1>2. rowLock[t] # u
  BY LockedRow DEF IInv, SessionsOK
<1>3. u # None
  BY Constants
<1> QED BY <1>1, <1>2, <1>3 DEF Undisturbed, Committed, IInv, TypeOK, money, locks

\* After the end of a transaction the session holds nothing, and the others
\* hold what they held.
LEMMA ReleaseFrame ==
  ASSUME TypeOK, NEW s \in Sessions, Release(s)
  PROVE  /\ \A t \in Transfers : rowLock'[t] # s
         /\ \A p \in Pools : poolLock'[p] # s
         /\ \A u \in Sessions \ {s} :
              /\ \A t \in Transfers : rowLock'[t] = u <=> rowLock[t] = u
              /\ \A p \in Pools : poolLock'[p] = u <=> poolLock[p] = u
BY ReleaseType, Constants

\* A rollback, after which the session is idle or back to its scan.
LEMMA RollbackStep ==
  ASSUME IInv, NEW s \in Sessions, NEW x \in Session, Rollback(s),
         x.pc = "idle" \/ (x.pc = "scan" /\ s \in Ticks),
         x.paid = {}, \A p \in Pools : x.delta[p] = 0,
         sess' = [sess EXCEPT ![s] = x],
         clock' \in Day, advisory' \in Ticks \cup {None}, used' \in Nat, faults' \in Nat
  PROVE  IInv'
<1> TypeOK /\ RowsOK /\ MovedOK /\ UniqueIndex /\ SessionsOK /\ PoolMatchesLedger
  BY DEF IInv
<1>1. Release(s) /\ UNCHANGED money
  BY DEF Rollback
<1>2. \A t \in Transfers : rows'[t] = IF rows[t].by = s THEN AbsentRow ELSE rows[t]
  BY DEF Rollback
<1>3. TypeOK'
  <2>1. rows' \in [Transfers -> Row]
    BY Constants DEF Rollback, TypeOK
  <2> QED BY <1>1, <2>1, ReleaseType DEF TypeOK, money
<1>4. AbsentRow.status = "ABSENT" /\ AbsentRow.by = None /\ AbsentRow.key = None
      /\ ~AbsentRow.recurring
  BY DEF AbsentRow
<1>5. RowsOK'
  <2> SUFFICES ASSUME NEW t \in Transfers PROVE RowOK(t)'
    BY DEF RowsOK
  <2>1. CASE rows[t].by = s
    BY <1>2, <1>4, <2>1 DEF RowOK
  <2>2. CASE rows[t].by # s
    BY <1>2, <2>2 DEF RowOK, RowsOK
  <2> QED BY <2>1, <2>2
<1>6. MovedOK'
  BY <1>1, <1>2, <1>4, Constants DEF MovedOK, money
<1>7. UniqueIndex'
  BY <1>2, <1>4 DEF UniqueIndex
<1>8. PoolMatchesLedger'
  BY <1>1 DEF PoolMatchesLedger, money
<1>9. SessionOK(s)'
  <2>1. sess'[s] = x
    BY DEF TypeOK
  <2>2. \A t \in Transfers : rows'[t].by # s
    BY <1>2, <1>4, Constants
  <2> QED BY <1>1, <2>1, <2>2, ReleaseFrame, EmptyOK DEF Empty
<1>10. ASSUME NEW u \in Sessions \ {s} PROVE Undisturbed(u)
  <2>1. sess'[u] = sess[u]
    BY DEF TypeOK
  <2>2. ASSUME NEW t \in Transfers
        PROVE  /\ rows'[t].by = u <=> rows[t].by = u
               /\ rows[t].by = u => rows'[t] = rows[t]
               /\ Committed(t) => Committed(t)' /\ rows'[t] = rows[t]
    BY <1>2, <1>4, Constants DEF Committed
  <2>3. ASSUME NEW t \in Transfers, rowLock[t] = u
        PROVE  rows'[t] = rows[t]
    <3>1. rows[t].by = u \/ rows[t].by = None
      BY <2>3 DEF SessionsOK, SessionOK, Locking, Running, Paying, RowsOK, RowOK
    <3> QED BY <1>2, <3>1, Constants
  <2> QED BY <1>1, <2>1, <2>2, <2>3, ReleaseFrame DEF Undisturbed, money
<1> QED BY <1>3, <1>5, <1>6, <1>7, <1>8, <1>9, <1>10, StepKeeps

-----------------------------------------------------------------------------
(* The requests. *)

LEMMA DraftRow ==
  ASSUME NEW d \in Drafts, NEW s \in Sessions \cup {None}, NEW status \in Statuses
  PROVE  LET r == NewRow(d, s, status) IN
         /\ r \in Row /\ r.status = status /\ r.by = s /\ r.recurring = d.recurring
         /\ r.from \in Pools /\ r.to \in Pools /\ r.from # r.to
         /\ r.key = d.key /\ r.key \in Keys \cup {None}
         /\ r.key \notin Transfers \X Day
<1>1. /\ d.from \in Pools /\ d.to \in Pools /\ d.from # d.to /\ d.amount \in Nat
      /\ d.recurring \in BOOLEAN /\ d.key \in Keys \cup {None}
      /\ d.due \in Day \cup {None} /\ d.end \in Day \cup {None}
  BY BodyAssumption
<1>2. NewRow(d, s, status) \in Row
  BY <1>1, NewRowType
<1>3. d.key \notin Transfers \X Day
  BY <1>1, NoneAssumption
<1> QED BY <1>1, <1>2, <1>3 DEF NewRow

LEMMA CreateStored ==
  ASSUME IInv, NEW q \in Requests, NEW t \in Transfers, NEW d \in Drafts,
         NEW status \in {"PENDING", "ACTIVE"}, d.recurring = (status = "ACTIVE"),
         Created(q, t, d, status, None), UNCHANGED sess
  PROVE  IInv'
<1> DEFINE r == NewRow(d, None, status)
<1>1. /\ r \in Row /\ r.status = status /\ r.by = None /\ r.recurring = d.recurring
      /\ r.from \in Pools /\ r.to \in Pools /\ r.from # r.to /\ r.key = d.key
  BY DraftRow DEF Statuses
<1> HIDE DEF r
<1>2. /\ rows[t].status = "ABSENT" /\ ~KeyTaken(r.key)
      /\ rows' = [rows EXCEPT ![t] = r] /\ UNCHANGED <<clock, money, locks, advisory, faults>>
      /\ used' = used + 1
  BY <1>1 DEF Created, Begin, Fresh, r
<1>3. /\ rows' \in [Transfers -> Row]
      /\ RowsOK' /\ MovedOK' /\ UniqueIndex' /\ PoolMatchesLedger'
  BY <1>1, <1>2, InsertRow
<1>4. \A u \in Sessions \ {None} : Undisturbed(u)
  BY <1>1, <1>2, InsertFrame
<1>5. TypeOK'
  BY <1>2, <1>3 DEF IInv, TypeOK, money, locks
<1> QED BY <1>3, <1>4, <1>5, Constants, StepKeeps

LEMMA CreateScheduleInv ==
  ASSUME IInv, NEW q \in Requests, CreateSchedule(q)
  PROVE  IInv'
BY CreateStored DEF CreateSchedule

LEMMA CreateOfferInv ==
  ASSUME IInv, NEW q \in Requests, CreateOffer(q)
  PROVE  IInv'
BY CreateStored, BodyAssumption DEF CreateOffer

LEMMA CreateDirectInv ==
  ASSUME IInv, NEW q \in Requests, CreateDirect(q)
  PROVE  IInv'
<1> DEFINE x(t) == [Idle EXCEPT !.pc = "pay", !.op = "create", !.id = t]
<1>1. PICK t \in Transfers, d \in Drafts :
        /\ ~d.recurring /\ Created(q, t, d, "PENDING", q)
        /\ sess' = [sess EXCEPT ![q] = x(t)]
  BY DEF CreateDirect
<1>2. q \in Sessions /\ q \notin Ticks /\ sess[q].pc = "idle"
  BY <1>1, SessionAssumption DEF Sessions, Created, Begin
<1> DEFINE r == NewRow(d, q, "PENDING")
<1>3. /\ r \in Row /\ r.status = "PENDING" /\ r.by = q /\ r.recurring = FALSE
      /\ r.from \in Pools /\ r.to \in Pools /\ r.from # r.to /\ r.key = d.key
      /\ r.key \notin Transfers \X Day
  BY <1>1, <1>2, DraftRow, BodyAssumption DEF Statuses
<1> HIDE DEF r
<1>4. /\ rows[t].status = "ABSENT" /\ ~KeyTaken(r.key)
      /\ rows' = [rows EXCEPT ![t] = r] /\ UNCHANGED <<clock, money, locks, advisory, faults>>
      /\ used' = used + 1
  BY <1>1, <1>3 DEF Created, Begin, Fresh, r
<1>5. /\ rows' \in [Transfers -> Row]
      /\ RowsOK' /\ MovedOK' /\ UniqueIndex' /\ PoolMatchesLedger'
      /\ rows'[t] = r /\ \A u \in Transfers \ {t} : rows'[u] = rows[u]
  BY <1>3, <1>4, InsertRow
<1>6. x(t) \in Session
  BY Constants DEF Session
<1>7. x(t).pc = "pay" /\ x(t).id = t /\ x(t).paid = {} /\ \A p \in Pools : x(t).delta[p] = 0
  BY Constants DEF Idle, Session
<1> HIDE DEF x
<1>8. TypeOK' /\ sess'[q] = x(t) /\ \A u \in Sessions \ {q} : sess'[u] = sess[u]
  BY <1>1, <1>2, <1>4, <1>5, <1>6 DEF IInv, TypeOK, money, locks
<1>9. \A u \in Sessions \ {q} : Undisturbed(u)
  BY <1>3, <1>4, <1>8, InsertFrame
<1>10. SessionOK(q)'
  <2>1. /\ \A p \in Pools : poolLock'[p] # q
        /\ \A u \in Transfers : rows[u].by # q /\ rowLock'[u] # q
    BY <1>2, <1>4, OutsideIsEmpty DEF IInv, SessionsOK, locks
  <2>2. \A u \in Transfers : rows'[u].by = q <=> u = t
    BY <1>3, <1>5, <2>1
  <2>3. Paying(q)' /\ Inserted(q)' /\ Locking(q)'
    BY <1>2, <1>3, <1>5, <1>7, <1>8, <2>1, <2>2 DEF Paying, Inserted, Locking
  <2>4. Balanced(q)' /\ Holding(q)'
    BY <1>3, <1>5, <1>7, <1>8, <2>1 DEF Balanced, Holding, HoldsInOrder
  <2>5. sess'[q].paid = {u \in Transfers : rows'[u].by = q /\ rows'[u].status = "COMPLETED"}
    BY <1>3, <1>5, <1>7, <1>8, <2>2
  <2> QED BY <1>2, <1>7, <1>8, <2>3, <2>4, <2>5 DEF SessionOK
<1> QED BY <1>5, <1>8, <1>9, <1>10, StepKeeps

LEMMA OpenTransferInv ==
  ASSUME IInv, NEW q \in Requests, OpenTransfer(q)
  PROVE  IInv'
<1> DEFINE x(t, op) == [Idle EXCEPT !.pc = "read", !.op = op, !.id = t, !.seen = rows[t]]
<1>1. PICK t \in Transfers, op \in {"accept", "decline", "cancel", "update"} :
        /\ Committed(t) /\ (op # "accept" => Allows(op, rows[t]))
        /\ sess' = [sess EXCEPT ![q] = x(t, op)]
  BY DEF OpenTransfer
<1>2. q \in Sessions /\ q \notin Ticks /\ sess[q].pc = "idle"
      /\ UNCHANGED <<clock, rows, money, locks, advisory, faults>> /\ used' = used + 1
  BY SessionAssumption DEF Sessions, OpenTransfer, Begin
<1>3. rows[t] \in Row
  BY StateTypes DEF IInv
<1>4. x(t, op) \in Session
  BY <1>3, Constants DEF Session
<1>5. /\ x(t, op).pc = "read" /\ x(t, op).id = t /\ x(t, op).op = op
      /\ x(t, op).seen = rows[t] /\ x(t, op).paid = {}
      /\ \A p \in Pools : x(t, op).delta[p] = 0
  BY Constants DEF Idle, Session
<1> HIDE DEF x
<1>6. sess'[q] = x(t, op)
  BY <1>1, <1>2 DEF IInv, TypeOK
<1>7. /\ \A p \in Pools : poolLock'[p] # q
      /\ \A u \in Transfers : rows'[u].by # q /\ rowLock'[u] # q
  BY <1>2, OutsideIsEmpty DEF IInv, SessionsOK, locks
<1>8. op = "update" => rows[t].recurring
  BY <1>1 DEF Allows
<1>9. Reading(q)'
  BY <1>1, <1>2, <1>5, <1>6, <1>8 DEF Reading, Committed
<1>10. SessionOK(q)'
  BY <1>5, <1>6, <1>7, <1>9 DEF SessionOK, Inserted, Locking, Balanced, Holding
<1>11. clock' \in Day /\ advisory' \in Ticks \cup {None} /\ used' \in Nat /\ faults' \in Nat
  BY <1>2 DEF IInv, TypeOK
<1> QED BY <1>1, <1>2, <1>4, <1>10, <1>11, SessionStep

LEMMA LockOfferInv ==
  ASSUME IInv, NEW q \in Requests, LockOffer(q)
  PROVE  IInv'
<1> TypeOK /\ RowsOK /\ SessionsOK
  BY DEF IInv
<1> DEFINE t == sess[q].id
<1>1. q \in Sessions /\ q \notin Ticks /\ sess[q].pc = "read"
  BY SessionAssumption DEF Sessions, LockOffer, Read
<1>2. t \in Transfers /\ Committed(t) /\ rowLock[t] = None /\ rows[t].status = "PENDING"
  BY <1>1 DEF SessionsOK, SessionOK, Reading, LockOffer, RowFree, StillPending, Allows
<1>3. /\ rowLock' = [rowLock EXCEPT ![t] = q]
      /\ sess' = [sess EXCEPT ![q] = [sess[q] EXCEPT !.pc = "pay"]]
      /\ UNCHANGED <<clock, rows, money, poolLock, advisory, used, faults>>
  BY DEF LockOffer
<1>4. [sess[q] EXCEPT !.pc = "pay"] \in Session
  BY <1>1, StateTypes DEF Session
<1> HIDE DEF t
<1>5. TypeOK'
  BY <1>1, <1>2, <1>3, <1>4 DEF TypeOK, money
<1>6. RowsOK' /\ MovedOK' /\ UniqueIndex' /\ PoolMatchesLedger'
  BY <1>3 DEF IInv, RowsOK, RowOK, MovedOK, UniqueIndex, PoolMatchesLedger, money
<1>7. \A u \in Sessions \ {q} : Undisturbed(u)
  BY <1>2, <1>3, Constants DEF Undisturbed, Committed, TypeOK, money
<1>8. SessionOK(q)'
  <2>1. /\ \A p \in Pools : sess[q].delta[p] = 0 /\ poolLock[p] # q
        /\ sess[q].paid = {} /\ \A u \in Transfers : rows[u].by # q /\ rowLock[u] # q
    BY <1>1, OutsideIsEmpty DEF SessionsOK
  <2>2. /\ sess'[q].pc = "pay" /\ sess'[q].id = t /\ sess'[q].paid = {}
        /\ sess'[q].delta = sess[q].delta
    BY <1>1, <1>3, <2>1, StateTypes DEF TypeOK, Session, t
  <2>3. \A u \in Transfers : rowLock'[u] = q <=> u = t
    BY <1>2, <1>3, <2>1 DEF TypeOK
  <2>4. Paying(q)' /\ Inserted(q)' /\ Locking(q)'
    BY <1>1, <1>2, <1>3, <2>1, <2>2, <2>3 DEF Paying, Inserted, Locking, Committed
  <2>5. rows[t].from \in Pools /\ rows[t].to \in Pools
    BY <1>2 DEF RowsOK, RowOK
  <2>6. Balanced(q)' /\ Holding(q)'
    BY <1>3, <2>1, <2>2, <2>5 DEF Balanced, Holding, HoldsInOrder
  <2> QED BY <1>1, <1>3, <2>1, <2>2, <2>4, <2>6 DEF SessionOK
<1> QED BY <1>5, <1>6, <1>7, <1>8, StepKeeps

LEMMA RefuseAcceptInv ==
  ASSUME IInv, NEW q \in Requests, RefuseAccept(q)
  PROVE  IInv'
<1>1. q \in Sessions /\ sess[q].pc = "read"
  BY DEF Sessions, RefuseAccept, Read
<1>2. /\ sess' = [sess EXCEPT ![q] = Idle] /\ UNCHANGED <<rows, money, locks>>
      /\ clock' \in Day /\ advisory' \in Ticks \cup {None} /\ used' \in Nat /\ faults' \in Nat
  BY DEF RefuseAccept, IInv, TypeOK
<1> QED BY <1>1, <1>2, Constants, IdleFields, OutsideStep

LEMMA LockPoolInv ==
  ASSUME IInv, NEW s \in Sessions, LockPool(s)
  PROVE  IInv'
<1> TypeOK /\ RowsOK /\ SessionsOK /\ SessionOK(s)
  BY DEF IInv, SessionsOK
<1> DEFINE p == NextPool(s)
           row == rows[sess[s].id]
           bal == [sess[s].bal EXCEPT ![p] = total[p]]
           x == [sess[s] EXCEPT !.bal = bal]
<1>1. /\ sess[s].pc = "pay" /\ ~HoldsPools(s)
      /\ UNCHANGED <<clock, rows, money, rowLock, advisory, used, faults>>
  BY DEF LockPool
<1>2. /\ p \in {row.from, row.to} /\ p \in Pools /\ poolLock[p] = None
      /\ \A o \in {row.from, row.to} : poolLock[o] # s => Rank[p] <= Rank[o]
  BY <1>1, NextPoolIsLowest DEF LockPool, PoolFree
<1>3. /\ poolLock' = [poolLock EXCEPT ![p] = s]
      /\ sess' = [sess EXCEPT ![s] = x]
  BY DEF LockPool
<1>4. /\ row.from \in Pools /\ row.to \in Pools /\ row.from # row.to /\ sess[s].id \in Transfers
  BY <1>1, PayPools
<1> HIDE DEF p
<1>5. bal \in [Pools -> Int] /\ bal[p] = total[p]
      /\ \A o \in Pools \ {p} : bal[o] = sess[s].bal[o]
  BY <1>2, StateTypes DEF TypeOK, Session
<1> HIDE DEF bal
<1>6. x \in Session /\ x.pc = "pay" /\ x.id = sess[s].id /\ x.paid = sess[s].paid
      /\ x.delta = sess[s].delta /\ x.bal = bal /\ x.seen = sess[s].seen
      /\ x.parent = sess[s].parent
  BY <1>1, <1>5, StateTypes DEF Session
<1> HIDE DEF x
<1>7. sess'[s] = x /\ \A u \in Sessions \ {s} : sess'[u] = sess[u]
  BY <1>3 DEF TypeOK
<1>8. poolLock'[p] = s /\ \A o \in Pools \ {p} : poolLock'[o] = poolLock[o]
  BY <1>2, <1>3 DEF TypeOK
<1>9. TypeOK'
  BY <1>1, <1>2, <1>3, <1>6 DEF TypeOK, money
<1>10. RowsOK' /\ MovedOK' /\ UniqueIndex' /\ PoolMatchesLedger'
  BY <1>1 DEF IInv, RowsOK, RowOK, MovedOK, UniqueIndex, PoolMatchesLedger, money
<1>11. \A u \in Sessions \ {s} : Undisturbed(u)
  BY <1>1, <1>2, <1>7, <1>8, Constants DEF Undisturbed, Committed, money
<1>12. SessionOK(s)'
  <2>1. Paying(s)' /\ Inserted(s)' /\ Locking(s)'
    BY <1>1, <1>6, <1>7 DEF SessionOK, Paying, Inserted, Locking
  <2>2. s \in Ticks => Running(s)'
    BY <1>1, <1>6, <1>7 DEF SessionOK, Running
  <2>3. Balanced(s)'
    <3>1. sess[s].delta[p] = 0
      BY <1>2, Constants DEF SessionOK, Balanced
    <3>2. total[p] \in Int
      BY <1>2 DEF TypeOK
    <3>3. ASSUME NEW o \in Pools
          PROVE  IF poolLock'[o] = s THEN sess'[s].bal[o] = total'[o] + sess'[s].delta[o]
                                     ELSE sess'[s].delta[o] = 0
      <4>1. CASE o = p
        BY <1>1, <1>5, <1>6, <1>7, <1>8, <3>1, <3>2, <4>1 DEF money
      <4>2. CASE o # p
        BY <1>1, <1>5, <1>6, <1>7, <1>8, <4>2 DEF money, SessionOK, Balanced
      <4> QED BY <4>1, <4>2
    <3> QED BY <3>3 DEF Balanced
  <2>4. HoldsInOrder(s)'
    <3>1. HoldsInOrder(s)
      BY <1>1 DEF SessionOK, Holding
    <3>2. rows'[sess'[s].id] = row
      BY <1>1, <1>6, <1>7
    <3>3. Rank[row.from] \in Nat /\ Rank[row.to] \in Nat
      BY <1>4, PoolsAssumption
    <3>4. \A o, v \in {row.from, row.to} : poolLock'[v] = s /\ Rank[o] < Rank[v] => poolLock'[o] = s
      BY <1>2, <1>4, <1>8, <3>1, <3>3 DEF HoldsInOrder
    <3>5. \A o \in Pools : poolLock'[o] = s => o \in {row.from, row.to}
      BY <1>2, <1>8, <3>1 DEF HoldsInOrder
    <3> QED BY <3>2, <3>4, <3>5 DEF HoldsInOrder
  <2>5. Holding(s)'
    <3>1. CASE x.paid = {}
      BY <1>1, <1>6, <1>7, <2>4, <3>1 DEF SessionOK, Holding
    <3>2. CASE x.paid # {}
      <4>1. s \in Ticks
        BY <1>6, <3>2 DEF SessionOK, Inserted, Paying
      <4>2. sess[s].seen.from \in Pools /\ sess[s].seen.to \in Pools
        BY <1>1, <4>1 DEF SessionOK, Running
      <4> QED BY <1>1, <1>6, <1>7, <1>8, <2>4, <3>2, <4>2 DEF SessionOK, Holding
    <3> QED BY <3>1, <3>2
  <2>6. sess'[s].paid = {t \in Transfers : rows'[t].by = s /\ rows'[t].status = "COMPLETED"}
    BY <1>1, <1>6, <1>7 DEF SessionOK
  <2> QED BY <1>6, <1>7, <2>1, <2>2, <2>3, <2>5, <2>6 DEF SessionOK
<1> QED BY <1>9, <1>10, <1>11, <1>12, StepKeeps

LEMMA RefusePaymentInv ==
  ASSUME IInv, NEW q \in Requests, RefusePayment(q)
  PROVE  IInv'
<1>1. q \in Sessions
  BY DEF Sessions
<1>2. /\ Rollback(q) /\ sess' = [sess EXCEPT ![q] = Idle]
      /\ clock' \in Day /\ advisory' \in Ticks \cup {None} /\ used' \in Nat /\ faults' \in Nat
  BY DEF RefusePayment, IInv, TypeOK
<1> QED BY <1>1, <1>2, Constants, IdleFields, RollbackStep

LEMMA AbortRequestInv ==
  ASSUME IInv, NEW q \in Requests, AbortRequest(q)
  PROVE  IInv'
<1>1. q \in Sessions
  BY DEF Sessions
<1>2. /\ Rollback(q) /\ sess' = [sess EXCEPT ![q] = Idle]
      /\ clock' \in Day /\ advisory' \in Ticks \cup {None} /\ used' \in Nat /\ faults' \in Nat
  BY DEF AbortRequest, IInv, TypeOK
<1> QED BY <1>1, <1>2, Constants, IdleFields, RollbackStep

\* The UPDATE of a row by a request that read it before.
LEMMA WrittenInv ==
  ASSUME IInv, NEW q \in Requests, sess[q].pc = "read", NEW row \in Row, Written(q, row),
         row.status \in {rows[sess[q].id].status, "CANCELLED"},
         row.by = rows[sess[q].id].by, row.from = rows[sess[q].id].from,
         row.to = rows[sess[q].id].to, row.key = rows[sess[q].id].key,
         row.recurring = rows[sess[q].id].recurring
  PROVE  IInv'
<1> TypeOK /\ RowsOK /\ MovedOK /\ UniqueIndex /\ SessionsOK /\ PoolMatchesLedger
  BY DEF IInv
<1>1. q \in Sessions /\ q \notin Ticks
  BY SessionAssumption DEF Sessions
<1>2. PICK t \in Transfers : t = sess[q].id /\ Committed(t) /\ rowLock[t] = None
  BY <1>1 DEF SessionsOK, SessionOK, Reading, Written, RowFree
<1>3. /\ rows' = [rows EXCEPT ![t] = row] /\ sess' = [sess EXCEPT ![q] = Idle]
      /\ UNCHANGED <<clock, money, locks, advisory, used, faults>>
  BY <1>2 DEF Written
<1>4. rows'[t] = row /\ (\A u \in Transfers \ {t} : rows'[u] = rows[u])
      /\ sess'[q] = Idle /\ (\A u \in Sessions \ {q} : sess'[u] = sess[u])
  BY <1>1, <1>2, <1>3 DEF TypeOK
<1>5. /\ row.status \in {rows[t].status, "CANCELLED"} /\ row.by = rows[t].by
      /\ row.from = rows[t].from /\ row.to = rows[t].to /\ row.key = rows[t].key
      /\ row.recurring = rows[t].recurring
  BY <1>2
<1>6. TypeOK'
  BY <1>1, <1>2, <1>3, Constants DEF TypeOK, money, locks
<1>7. RowsOK'
  <2>1. RowOK(t)'
    BY <1>2, <1>4, <1>5 DEF RowsOK, RowOK, Committed
  <2>2. ASSUME NEW u \in Transfers \ {t} PROVE RowOK(u)'
    BY <1>4 DEF RowOK, RowsOK
  <2> QED BY <2>1, <2>2 DEF RowsOK
<1>8. MovedOK'
  BY <1>2, <1>3, <1>4, <1>5 DEF MovedOK, Committed, money
<1>9. UniqueIndex'
  BY <1>2, <1>4, <1>5 DEF UniqueIndex
<1>10. PoolMatchesLedger'
  BY <1>3 DEF PoolMatchesLedger, money
<1>11. \A u \in Sessions \ {q} : Undisturbed(u)
  BY <1>2, <1>3, <1>4, <1>5, Constants DEF Undisturbed, Committed, money, locks
<1>12. SessionOK(q)'
  <2>1. /\ \A p \in Pools : poolLock[p] # q
        /\ \A u \in Transfers : rows[u].by # q /\ rowLock[u] # q
    BY <1>1, OutsideIsEmpty DEF SessionsOK
  <2>2. \A u \in Transfers : rows'[u].by # q
    BY <1>4, <1>5, <2>1, <1>2
  <2> QED BY <1>1, <1>3, <1>4, <2>1, <2>2, IdleFields, EmptyOK DEF Empty, locks
<1> QED BY <1>6, <1>7, <1>8, <1>9, <1>10, <1>11, <1>12, StepKeeps

LEMMA ReadRow ==
  ASSUME IInv, NEW q \in Requests, sess[q].pc = "read"
  PROVE  rows[sess[q].id] \in Row /\ sess[q].seen \in Row
<1>1. q \in Sessions
  BY DEF Sessions
<1> QED BY <1>1, StateTypes, SessionType DEF IInv, SessionsOK, SessionOK, Reading

LEMMA DeclineTransferInv ==
  ASSUME IInv, NEW q \in Requests, DeclineTransfer(q)
  PROVE  IInv'
<1> DEFINE row == [rows[sess[q].id] EXCEPT !.status = "CANCELLED"]
<1>1. sess[q].pc = "read" /\ Written(q, row)
  BY DEF DeclineTransfer, Read
<1>2. rows[sess[q].id] \in Row
  BY <1>1, ReadRow
<1>3. /\ row \in Row /\ row.status = "CANCELLED" /\ row.by = rows[sess[q].id].by
      /\ row.from = rows[sess[q].id].from /\ row.to = rows[sess[q].id].to
      /\ row.key = rows[sess[q].id].key /\ row.recurring = rows[sess[q].id].recurring
  BY <1>2 DEF Row, Statuses
<1> QED BY <1>1, <1>3, WrittenInv

LEMMA CancelTransferInv ==
  ASSUME IInv, NEW q \in Requests, CancelTransfer(q)
  PROVE  IInv'
<1> DEFINE old == rows[sess[q].id]
           due == IF sess[q].seen.recurring THEN None ELSE old.due
           row == [old EXCEPT !.status = "CANCELLED", !.due = due]
<1>1. sess[q].pc = "read" /\ Written(q, row)
  BY DEF CancelTransfer, Read
<1>2. old \in Row
  BY <1>1, ReadRow
<1>3. due \in Day \cup {None}
  BY <1>2 DEF Row
<1> HIDE DEF due
<1>4. /\ row \in Row /\ row.status = "CANCELLED" /\ row.by = old.by
      /\ row.from = old.from /\ row.to = old.to
      /\ row.key = old.key /\ row.recurring = old.recurring
  BY <1>2, <1>3 DEF Row, Statuses
<1> QED BY <1>1, <1>4, WrittenInv

LEMMA UpdateTransferInv ==
  ASSUME IInv, NEW q \in Requests, UpdateTransfer(q)
  PROVE  IInv'
<1> DEFINE old == rows[sess[q].id]
           seen == sess[q].seen
           due(ed) == IF ed.due \notin {None, seen.due} THEN ed.due ELSE old.due
           end(ed) == IF ed.end_sent /\ ed.end # seen.end THEN ed.end ELSE old.end
           amount(ed) == IF ed.amount \notin {0, seen.amount} THEN ed.amount ELSE old.amount
           row(ed) == [old EXCEPT !.due = due(ed), !.end = end(ed), !.amount = amount(ed)]
<1>1. PICK ed \in Edits : Written(q, row(ed))
  BY DEF UpdateTransfer
<1>2. sess[q].pc = "read" /\ old \in Row
  BY ReadRow DEF UpdateTransfer, Read
<1>3. ed.due \in Day \cup {None} /\ ed.end \in Day \cup {None} /\ ed.amount \in Nat
  BY BodyAssumption
<1>4. due(ed) \in Day \cup {None} /\ end(ed) \in Day \cup {None} /\ amount(ed) \in Nat
  BY <1>2, <1>3, RowType
<1> HIDE DEF due, end, amount
<1>5. /\ row(ed) \in Row /\ row(ed).status = old.status /\ row(ed).by = old.by
      /\ row(ed).from = old.from /\ row(ed).to = old.to
      /\ row(ed).key = old.key /\ row(ed).recurring = old.recurring
  BY <1>2, <1>4 DEF Row
<1> HIDE DEF row
<1> QED BY <1>1, <1>2, <1>5, WrittenInv

\* Nobody else inserted or locked the row a session pays.
LEMMA PaysAlone ==
  ASSUME TypeOK, SessionsOK, NEW s \in Sessions, sess[s].pc = "pay",
         NEW t \in Transfers, t = sess[s].id
  PROVE  \A u \in Sessions \ {s} : rows[t].by # u /\ rowLock[t] # u
<1>1. Paying(s)
  BY DEF SessionsOK, SessionOK
<1>2. rows[t].status = "PENDING" /\ (rows[t].by = s \/ (rows[t].by = None /\ rowLock[t] = s))
  BY <1>1 DEF Paying
<1> TAKE u \in Sessions \ {s}
<1>3. rows[t].by # u
  BY <1>2, Constants
<1>4. ASSUME rowLock[t] = u PROVE FALSE
  <2>1. rows[t].by = s
    BY <1>2, <1>4
  <2>2. CASE u \in Ticks
    BY <1>2, <1>4, <2>2 DEF SessionsOK, SessionOK, Locking, Running
  <2>3. CASE u \notin Ticks
    <3>1. sess[u].pc = "pay" /\ sess[u].id = t
      BY <1>4, <2>3 DEF SessionsOK, SessionOK, Locking
    <3>2. rows[t].by \in {u, None}
      BY <3>1 DEF SessionsOK, SessionOK, Paying
    <3> QED BY <2>1, <3>2, Constants
  <2> QED BY <2>2, <2>3
<1> QED BY <1>3, <1>4

\* What a request moves is in both pools of its row, which it has locked.
LEMMA PaidPools ==
  ASSUME IInv, NEW s \in Sessions, CanPay(s), NEW t \in Transfers, t = sess[s].id,
         NEW f \in [Pools -> Int]
  PROVE  LET row == rows[t] IN
         /\ row \in Row /\ row.amount \in Nat
         /\ row.from \in Pools /\ row.to \in Pools /\ row.from # row.to
         /\ row.status = "PENDING" /\ ~row.recurring
         /\ poolLock[row.from] = s /\ poolLock[row.to] = s
         /\ Movement(f, row) \in [Pools -> Int]
         /\ \A p \in Pools : Movement(f, row)[p] = CASE p = row.from -> f[p] - row.amount
                                                     [] p = row.to -> f[p] + row.amount
                                                     [] OTHER -> f[p]
<1> TypeOK /\ RowsOK /\ SessionsOK /\ SessionOK(s)
  BY DEF IInv, SessionsOK
<1> DEFINE row == rows[t]
<1>1. /\ row \in Row /\ row.from \in Pools /\ row.to \in Pools /\ row.from # row.to
      /\ row.status = "PENDING" /\ ~row.recurring
  BY PayPools DEF CanPay
<1>2. row.amount \in Nat
  BY <1>1, RowType
<1>3. poolLock[row.from] = s /\ poolLock[row.to] = s
  BY DEF CanPay, HoldsPools
<1> HIDE DEF row
<1> QED BY <1>1, <1>2, <1>3, MovementType DEF row

LEMMA PayRequestInv ==
  ASSUME IInv, NEW q \in Requests, PayRequest(q)
  PROVE  IInv'
<1> TypeOK /\ RowsOK /\ MovedOK /\ UniqueIndex /\ SessionsOK /\ PoolMatchesLedger
  BY DEF IInv
<1>1. q \in Sessions /\ q \notin Ticks /\ sess[q].pc = "pay" /\ CanPay(q)
  BY SessionAssumption DEF Sessions, PayRequest, CanPay
<1>2. SessionOK(q) /\ sess[q] \in Session
  BY <1>1, StateTypes DEF SessionsOK
<1>3. PICK t \in Transfers : t = sess[q].id
  BY <1>1, <1>2 DEF SessionOK, Paying
<1> DEFINE row == rows[t]
           bal == sess[q].bal
           paidRow == [row EXCEPT !.status = "COMPLETED", !.by = None]
<1>4. /\ row \in Row /\ row.amount \in Nat
      /\ row.from \in Pools /\ row.to \in Pools /\ row.from # row.to
      /\ row.status = "PENDING" /\ ~row.recurring
      /\ poolLock[row.from] = q /\ poolLock[row.to] = q
      /\ bal \in [Pools -> Int] /\ sess[q].delta \in [Pools -> Int]
  BY <1>1, <1>2, <1>3, PaidPools, SessionType
<1>5. /\ rows' = [rows EXCEPT ![t] = paidRow]
      /\ moved' = [moved EXCEPT ![t] = moved[t] + 1]
      /\ ledger' = Movement(ledger, row)
      /\ total' = Settled(q, Movement(bal, row))
      /\ Release(q) /\ sess' = [sess EXCEPT ![q] = Idle]
      /\ UNCHANGED <<clock, advisory, used, faults>>
  BY <1>3, <1>4 DEF PayRequest, TypeOK
<1>6. /\ paidRow \in Row /\ paidRow.status = "COMPLETED" /\ paidRow.by = None
      /\ paidRow.from = row.from /\ paidRow.to = row.to /\ paidRow.key = row.key
      /\ paidRow.recurring = row.recurring
  BY <1>4 DEF Row, Statuses
<1> HIDE DEF paidRow
<1>7. /\ rows' \in [Transfers -> Row]
      /\ rows'[t] = paidRow /\ (\A u \in Transfers \ {t} : rows'[u] = rows[u])
      /\ moved' \in [Transfers -> Nat]
      /\ moved'[t] = moved[t] + 1 /\ (\A u \in Transfers \ {t} : moved'[u] = moved[u])
      /\ sess'[q] = Idle /\ (\A u \in Sessions \ {q} : sess'[u] = sess[u])
  BY <1>1, <1>5, <1>6 DEF TypeOK
<1>8. \A p \in Pools : /\ total'[p] = IF poolLock[p] = q THEN Movement(bal, row)[p] ELSE total[p]
                       /\ ledger'[p] = Movement(ledger, row)[p]
  BY <1>5 DEF Settled
<1>9. /\ Movement(bal, row) \in [Pools -> Int] /\ Movement(ledger, row) \in [Pools -> Int]
      /\ \A p \in Pools :
           /\ Movement(bal, row)[p] = CASE p = row.from -> bal[p] - row.amount
                                        [] p = row.to -> bal[p] + row.amount
                                        [] OTHER -> bal[p]
           /\ Movement(ledger, row)[p] = CASE p = row.from -> ledger[p] - row.amount
                                           [] p = row.to -> ledger[p] + row.amount
                                           [] OTHER -> ledger[p]
  BY <1>1, <1>3, <1>4, PaidPools DEF TypeOK
<1> HIDE DEF row, bal
<1>10. TypeOK'
  <2>1. total' \in [Pools -> Int]
    BY <1>5, <1>9 DEF Settled, TypeOK
  <2> QED BY <1>1, <1>5, <1>7, <1>9, <2>1, Constants, ReleaseType DEF TypeOK
<1>11. RowsOK'
  <2>1. RowOK(t)'
    BY <1>4, <1>6, <1>7 DEF RowOK
  <2>2. ASSUME NEW u \in Transfers \ {t} PROVE RowOK(u)'
    BY <1>7 DEF RowOK, RowsOK
  <2> QED BY <2>1, <2>2 DEF RowsOK
<1>12. MovedOK'
  <2>1. moved[t] = 0
    BY <1>4 DEF MovedOK, row
  <2> QED BY <1>4, <1>6, <1>7, <2>1 DEF MovedOK
<1>13. UniqueIndex'
  BY <1>6, <1>7 DEF UniqueIndex, row
<1>14. PoolMatchesLedger'
  <2> SUFFICES ASSUME NEW p \in Pools PROVE total'[p] = ledger'[p]
    BY DEF PoolMatchesLedger
  <2>1. total[p] = ledger[p] /\ total[p] \in Int
    BY DEF PoolMatchesLedger, TypeOK
  <2>2. sess[q].paid = {}
    BY <1>1, <1>2 DEF SessionOK, Inserted, Paying
  <2>3. sess[q].delta[p] = 0
    BY <1>2, <2>2 DEF SessionOK, Holding
  <2>4. poolLock[p] = q => bal[p] = total[p]
    BY <1>2, <2>1, <2>3 DEF SessionOK, Balanced, bal
  <2> QED BY <1>4, <1>8, <1>9, <2>1, <2>4
<1>15. ASSUME NEW u \in Sessions \ {q} PROVE Undisturbed(u)
  <2>1. rows[t].by # u /\ rowLock[t] # u
    BY <1>1, <1>3, PaysAlone
  <2> QED BY <1>1, <1>5, <1>6, <1>7, <1>8, <2>1, ReleaseFrame, Constants DEF Undisturbed, Committed, row
<1>16. SessionOK(q)'
  <2>1. \A u \in Transfers : rows'[u].by # q
    BY <1>1, <1>2, <1>3, <1>6, <1>7, Constants DEF SessionOK, Inserted
  <2> QED BY <1>1, <1>5, <1>7, <2>1, IdleFields, EmptyOK, ReleaseFrame DEF Empty
<1> QED BY <1>10, <1>11, <1>12, <1>13, <1>14, <1>15, <1>16, StepKeeps

LEMMA PostElsewhereInv ==
  ASSUME IInv, NEW p \in Pools, PostElsewhere(p)
  PROVE  IInv'
<1>1. PICK d \in {1, -1} : /\ ledger' = [ledger EXCEPT ![p] = @ + d]
                           /\ total' = [total EXCEPT ![p] = @ + d]
  BY DEF PostElsewhere
<1>2. UNCHANGED <<clock, rows, moved, locks, advisory, sess, faults>> /\ used' = used + 1
      /\ poolLock[p] = None
  BY DEF PostElsewhere, PoolFree
<1>3. /\ total[p] \in Int /\ ledger[p] \in Int
      /\ total'[p] = total[p] + d /\ \A o \in Pools \ {p} : total'[o] = total[o]
      /\ ledger'[p] = ledger[p] + d /\ \A o \in Pools \ {p} : ledger'[o] = ledger[o]
      /\ total' \in [Pools -> Int] /\ ledger' \in [Pools -> Int]
  BY <1>1 DEF IInv, TypeOK
<1>4. TypeOK'
  BY <1>2, <1>3 DEF IInv, TypeOK, locks
<1>5. PoolMatchesLedger'
  BY <1>3 DEF IInv, PoolMatchesLedger
<1>6. RowsOK' /\ MovedOK' /\ UniqueIndex'
  BY <1>2 DEF IInv, RowsOK, RowOK, MovedOK, UniqueIndex
<1>7. \A u \in Sessions \ {None} : Undisturbed(u)
  BY <1>2, <1>3, Constants DEF Undisturbed, Committed, locks
<1> QED BY <1>4, <1>5, <1>6, <1>7, Constants, StepKeeps

-----------------------------------------------------------------------------
(* The tick. *)

LEMMA StartTickInv ==
  ASSUME IInv, NEW w \in Ticks, NEW force \in Forcing, StartTick(w, force)
  PROVE  IInv'
<1> DEFINE todo == {t \in Transfers : /\ rows[t].recurring
                                      /\ rows[t].status = "ACTIVE"
                                      /\ rows[t].due # None
                                      /\ force \/ rows[t].due <= clock}
           x == [Idle EXCEPT !.pc = "scan", !.now = clock, !.force = force, !.todo = todo]
<1>1. w \in Sessions /\ sess[w].pc = "idle" /\ force \in BOOLEAN /\ todo \in SUBSET Transfers
  BY NumberAssumption DEF Sessions, StartTick
<1>2. /\ sess' = [sess EXCEPT ![w] = x] /\ UNCHANGED <<rows, money, locks>>
      /\ clock' \in Day /\ advisory' \in Ticks \cup {None} /\ used' \in Nat /\ faults' \in Nat
  BY DEF StartTick, IInv, TypeOK
<1> HIDE DEF todo
<1>3. x \in Session /\ x.pc = "scan" /\ x.paid = {} /\ \A p \in Pools : x.delta[p] = 0
  BY <1>1, Constants, IdleFields DEF Session, IInv, TypeOK
<1> HIDE DEF x
<1> QED BY <1>1, <1>2, <1>3, OutsideStep

LEMMA SkipParentInv ==
  ASSUME IInv, NEW w \in Ticks, SkipParent(w)
  PROVE  IInv'
<1>1. w \in Sessions /\ sess[w].pc = "scan" /\ sess[w] \in Session
  BY StateTypes DEF Sessions, SkipParent, IInv
<1>2. PICK t \in sess[w].todo : sess' = [sess EXCEPT ![w].todo = @ \ {t}]
  BY DEF SkipParent
<1> DEFINE x == [sess[w] EXCEPT !.todo = sess[w].todo \ {t}]
<1>3. sess' = [sess EXCEPT ![w] = x]
  BY <1>2
<1>4. /\ UNCHANGED <<rows, money, locks>>
      /\ clock' \in Day /\ advisory' \in Ticks \cup {None} /\ used' \in Nat /\ faults' \in Nat
  BY DEF SkipParent, IInv, TypeOK
<1>5. x \in Session /\ x.pc = "scan" /\ x.paid = sess[w].paid /\ x.delta = sess[w].delta
  BY <1>1 DEF Session
<1>6. x.paid = {} /\ \A p \in Pools : x.delta[p] = 0
  BY <1>1, <1>5, OutsideIsEmpty DEF IInv, SessionsOK
<1> HIDE DEF x
<1> QED BY <1>1, <1>3, <1>4, <1>5, <1>6, OutsideStep

LEMMA EndTickInv ==
  ASSUME IInv, NEW w \in Ticks, EndTick(w)
  PROVE  IInv'
<1>1. w \in Sessions /\ sess[w].pc = "scan"
  BY DEF Sessions, EndTick
<1>2. /\ sess' = [sess EXCEPT ![w] = Idle] /\ UNCHANGED <<rows, money, locks>>
      /\ clock' \in Day /\ advisory' \in Ticks \cup {None} /\ used' \in Nat /\ faults' \in Nat
  BY DEF EndTick, IInv, TypeOK
<1> QED BY <1>1, <1>2, Constants, IdleFields, OutsideStep

LEMMA TakeParentInv ==
  ASSUME IInv, NEW w \in Ticks, TakeParent(w)
  PROVE  IInv'
<1> TypeOK /\ RowsOK /\ SessionsOK
  BY DEF IInv
<1>1. w \in Sessions /\ sess[w].pc = "scan" /\ sess[w] \in Session
      /\ UNCHANGED <<clock, rows, money, poolLock, advisory, used, faults>>
  BY StateTypes DEF Sessions, TakeParent
<1>2. PICK t \in sess[w].todo :
        /\ Takes(t)
        /\ rowLock' = [rowLock EXCEPT ![t] = w]
        /\ sess' = [sess EXCEPT ![w].pc = "run", ![w].todo = @ \ {t},
                                ![w].parent = t, ![w].seen = rows[t]]
  BY DEF TakeParent
<1> DEFINE x == [sess[w] EXCEPT !.pc = "run", !.todo = sess[w].todo \ {t},
                                !.parent = t, !.seen = rows[t]]
<1>3. t \in Transfers /\ rows[t] \in Row
  BY <1>1, SessionType, StateTypes
<1>4. /\ rows[t].status = "ACTIVE" /\ rows[t].due \in Day /\ rowLock[t] = None
      /\ rows[t].from \in Pools /\ rows[t].to \in Pools /\ rows[t].from # rows[t].to
  BY <1>2, <1>3, RowType DEF Takes, RowsOK, RowOK
<1>5. sess' = [sess EXCEPT ![w] = x]
  BY <1>2
<1>6. /\ x \in Session /\ x.pc = "run" /\ x.parent = t /\ x.seen = rows[t]
      /\ x.paid = sess[w].paid /\ x.delta = sess[w].delta /\ x.bal = sess[w].bal
  BY <1>1, <1>3 DEF Session
<1> HIDE DEF x
<1>7. sess'[w] = x /\ \A u \in Sessions \ {w} : sess'[u] = sess[u]
  BY <1>1, <1>5 DEF TypeOK
<1>8. TypeOK'
  <2>1. rowLock' \in [Transfers -> Sessions \cup {None}]
    BY <1>1, <1>2, <1>3 DEF TypeOK
  <2>2. sess' \in [Sessions -> Session]
    BY <1>1, <1>5, <1>6 DEF TypeOK
  <2> QED BY <1>1, <2>1, <2>2 DEF TypeOK, money
<1>9. RowsOK' /\ MovedOK' /\ UniqueIndex' /\ PoolMatchesLedger'
  BY <1>1 DEF IInv, RowsOK, RowOK, MovedOK, UniqueIndex, PoolMatchesLedger, money
<1>10. \A u \in Sessions \ {w} : Undisturbed(u)
  BY <1>1, <1>2, <1>3, <1>4, <1>7, Constants DEF Undisturbed, Committed, TypeOK, money
<1>11. SessionOK(w)'
  <2>1. /\ \A p \in Pools : sess[w].delta[p] = 0 /\ poolLock[p] # w
        /\ sess[w].paid = {} /\ \A u \in Transfers : rows[u].by # w /\ rowLock[u] # w
    BY <1>1, OutsideIsEmpty DEF SessionsOK
  <2>2. \A u \in Transfers : rowLock'[u] = w <=> u = t
    BY <1>2, <1>3, <2>1 DEF TypeOK
  <2>3. Running(w)' /\ Inserted(w)' /\ Locking(w)'
    BY <1>1, <1>3, <1>4, <1>6, <1>7, <2>1, <2>2 DEF Running, Inserted, Locking
  <2>4. Balanced(w)' /\ Holding(w)'
    BY <1>1, <1>6, <1>7, <2>1 DEF Balanced, Holding
  <2> QED BY <1>1, <1>6, <1>7, <2>1, <2>3, <2>4 DEF SessionOK
<1> QED BY <1>8, <1>9, <1>10, <1>11, StepKeeps

\* What a tick knows inside _run_parent.
LEMMA RunFacts ==
  ASSUME IInv, NEW w \in Ticks, sess[w].pc \in {"run", "pay"}
  PROVE  /\ w \in Sessions /\ SessionOK(w) /\ sess[w] \in Session /\ sess[w].seen \in Row
         /\ Running(w)
         /\ sess[w].parent \in Transfers /\ sess[w].seen.due \in Day
         /\ sess[w].seen.from \in Pools /\ sess[w].seen.to \in Pools
         /\ sess[w].seen.from # sess[w].seen.to
         /\ ChildKey(w) \in Transfers \X Day /\ ChildKey(w)[1] = sess[w].parent
         /\ ChildKey(w) # None
<1>1. w \in Sessions
  BY DEF Sessions
<1>2. SessionOK(w) /\ sess[w] \in Session /\ sess[w].seen \in Row
  BY <1>1, StateTypes, SessionType DEF IInv, SessionsOK
<1>3. Running(w)
  BY <1>2 DEF SessionOK
<1>4. /\ sess[w].parent \in Transfers /\ sess[w].seen.due \in Day
      /\ sess[w].seen.from \in Pools /\ sess[w].seen.to \in Pools
      /\ sess[w].seen.from # sess[w].seen.to
  BY <1>3 DEF Running
<1> QED BY <1>1, <1>2, <1>3, <1>4, Constants DEF ChildKey

LEMMA ChildRow ==
  ASSUME IInv, NEW w \in Ticks, sess[w].pc = "run"
  PROVE  LET r == [NewRow(sess[w].seen, w, "PENDING") EXCEPT
                     !.key = ChildKey(w), !.recurring = FALSE, !.due = None, !.end = None] IN
         /\ r \in Row /\ r.status = "PENDING" /\ r.by = w /\ r.recurring = FALSE
         /\ r.key = ChildKey(w) /\ r.from = sess[w].seen.from /\ r.to = sess[w].seen.to
<1>1. NewRow(sess[w].seen, w, "PENDING") \in Row
  BY RunFacts, RowType, NewRowType DEF Statuses
<1>2. /\ NewRow(sess[w].seen, w, "PENDING").status = "PENDING"
      /\ NewRow(sess[w].seen, w, "PENDING").by = w
      /\ NewRow(sess[w].seen, w, "PENDING").from = sess[w].seen.from
      /\ NewRow(sess[w].seen, w, "PENDING").to = sess[w].seen.to
  BY DEF NewRow
<1>3. ChildKey(w) \in Transfers \X Day
  BY RunFacts
<1> QED BY <1>1, <1>2, <1>3 DEF Row

LEMMA InsertChildInv ==
  ASSUME IInv, NEW w \in Ticks, NEW t \in Transfers, NEW pc \in {"run", "pay"},
         InsertChild(w, t, pc, 1)
  PROVE  IInv'
<1> TypeOK /\ RowsOK /\ SessionsOK
  BY DEF IInv
<1> DEFINE r == [NewRow(sess[w].seen, w, "PENDING") EXCEPT
                   !.key = ChildKey(w), !.recurring = FALSE, !.due = None, !.end = None]
           x == [sess[w] EXCEPT !.pc = pc, !.id = t, !.made = sess[w].made + 1,
                                !.seen = Stepped(sess[w].seen)]
<1>1. /\ sess[w].pc = "run" /\ sess[w].made < MaxCatchUp
      /\ ~KeyTaken(ChildKey(w)) /\ rows[t].status = "ABSENT"
      /\ rows' = [rows EXCEPT ![t] = r] /\ sess' = [sess EXCEPT ![w] = x]
      /\ UNCHANGED <<clock, money, locks, advisory, used, faults>>
  BY DEF InsertChild, LoopRuns, Fresh
<1>2. /\ w \in Sessions /\ SessionOK(w) /\ sess[w] \in Session /\ sess[w].seen \in Row
      /\ Running(w)
      /\ sess[w].parent \in Transfers /\ sess[w].seen.due \in Day
      /\ sess[w].seen.from \in Pools /\ sess[w].seen.to \in Pools
      /\ sess[w].seen.from # sess[w].seen.to
      /\ ChildKey(w) \in Transfers \X Day /\ ChildKey(w)[1] = sess[w].parent
  BY <1>1, RunFacts
<1>3. /\ r \in Row /\ r.status = "PENDING" /\ r.by = w /\ r.recurring = FALSE
      /\ r.key = ChildKey(w) /\ r.from = sess[w].seen.from /\ r.to = sess[w].seen.to
  BY <1>1, ChildRow
<1> HIDE DEF r
<1>4. /\ rows' \in [Transfers -> Row]
      /\ RowsOK' /\ MovedOK' /\ UniqueIndex' /\ PoolMatchesLedger'
      /\ rows'[t] = r /\ rows[t].by = None /\ \A u \in Transfers \ {t} : rows'[u] = rows[u]
  BY <1>1, <1>2, <1>3, InsertRow
<1>5. sess[w].made + 1 \in 0..MaxCatchUp
  BY <1>1, <1>2, NumberAssumption DEF Session
<1>6. /\ Stepped(sess[w].seen) \in Row /\ Stepped(sess[w].seen).due \in Day
      /\ Stepped(sess[w].seen).from = sess[w].seen.from
      /\ Stepped(sess[w].seen).to = sess[w].seen.to
  BY <1>2, SteppedType
<1>7. /\ x \in Session /\ x.pc = pc /\ x.id = t /\ x.parent = sess[w].parent
      /\ x.seen = Stepped(sess[w].seen) /\ x.paid = sess[w].paid
      /\ x.delta = sess[w].delta /\ x.bal = sess[w].bal
  BY <1>2, <1>5, <1>6 DEF Session
<1> HIDE DEF x
<1>8. sess'[w] = x /\ \A u \in Sessions \ {w} : sess'[u] = sess[u]
  BY <1>1, <1>2 DEF TypeOK
<1>9. TypeOK'
  BY <1>1, <1>2, <1>4, <1>7 DEF TypeOK, money, locks
<1>10. \A u \in Sessions \ {w} : Undisturbed(u)
  BY <1>1, <1>3, <1>8, InsertFrame
<1>11. SessionOK(w)'
  <2>1. sess[w].parent # t
    BY <1>1, <1>2 DEF Running
  <2>2. Running(w)'
    BY <1>1, <1>2, <1>3, <1>4, <1>6, <1>7, <1>8, <2>1 DEF Running, locks
  <2>3. pc = "pay" => Paying(w)'
    BY <1>3, <1>4, <1>7, <1>8 DEF Paying
  <2>4. Inserted(w)'
    <3> SUFFICES ASSUME NEW u \in Transfers, rows'[u].by = w
                 PROVE  /\ rows'[u].key \in Transfers \X Day
                        /\ rows'[u].key[1] = sess[w].parent
                        /\ rows'[u].from = sess[w].seen.from
                        /\ rows'[u].to = sess[w].seen.to
      BY <1>6, <1>7, <1>8 DEF Inserted
    <3> QED BY <1>2, <1>3, <1>4 DEF SessionOK, Inserted
  <2>5. Locking(w)'
    BY <1>1, <1>2, <1>7, <1>8 DEF SessionOK, Locking, locks
  <2>6. Balanced(w)'
    BY <1>1, <1>2, <1>7, <1>8 DEF SessionOK, Balanced, locks, money
  <2>7. Holding(w)'
    <3>1. Holding(w)
      BY <1>2 DEF SessionOK
    <3>2. UNCHANGED poolLock
      BY <1>1 DEF locks
    <3>3. pc = "run" => \A p \in Pools :
            poolLock'[p] = w => x.paid # {} /\ p \in {x.seen.from, x.seen.to}
      BY <1>1, <1>6, <1>7, <3>1, <3>2 DEF Holding
    <3>4. pc = "pay" => HoldsInOrder(w)'
      BY <1>1, <1>2, <1>3, <1>4, <1>7, <1>8, <3>1, <3>2 DEF Holding, HoldsInOrder
    <3>5. IF x.paid = {} THEN \A p \in Pools : x.delta[p] = 0
                         ELSE poolLock'[x.seen.from] = w /\ poolLock'[x.seen.to] = w
      BY <1>6, <1>7, <3>1, <3>2 DEF Holding
    <3> QED BY <1>7, <1>8, <3>3, <3>4, <3>5 DEF Holding
  <2>8. sess'[w].paid = {u \in Transfers : rows'[u].by = w /\ rows'[u].status = "COMPLETED"}
    BY <1>2, <1>3, <1>4, <1>7, <1>8, Constants DEF SessionOK
  <2> QED BY <1>7, <1>8, <2>2, <2>3, <2>4, <2>5, <2>6, <2>7, <2>8 DEF SessionOK
<1> QED BY <1>4, <1>9, <1>10, <1>11, StepKeeps

LEMMA RepeatPeriodInv ==
  ASSUME IInv, NEW w \in Ticks, RepeatPeriod(w)
  PROVE  IInv'
<1> DEFINE x == [sess[w] EXCEPT !.seen = Stepped(sess[w].seen)]
<1>1. /\ sess[w].pc = "run" /\ sess' = [sess EXCEPT ![w] = x]
      /\ UNCHANGED <<rows, money, locks>>
      /\ clock' \in Day /\ advisory' \in Ticks \cup {None} /\ used' \in Nat /\ faults' \in Nat
  BY DEF RepeatPeriod, LoopRuns, IInv, TypeOK
<1>2. /\ w \in Sessions /\ SessionOK(w) /\ sess[w] \in Session /\ sess[w].seen \in Row
      /\ Running(w) /\ sess[w].seen.due \in Day
  BY <1>1, RunFacts
<1>3. /\ Stepped(sess[w].seen) \in Row /\ Stepped(sess[w].seen).due \in Day
      /\ Stepped(sess[w].seen).from = sess[w].seen.from
      /\ Stepped(sess[w].seen).to = sess[w].seen.to
  BY <1>2, SteppedType
<1>4. /\ x \in Session /\ x.pc = "run" /\ x.parent = sess[w].parent
      /\ x.seen = Stepped(sess[w].seen) /\ x.paid = sess[w].paid
      /\ x.delta = sess[w].delta /\ x.bal = sess[w].bal
  BY <1>1, <1>2, <1>3 DEF Session
<1> HIDE DEF x
<1>5. sess'[w] = x
  BY <1>1, <1>2 DEF IInv, TypeOK
<1>6. SessionOK(w)'
  <2>1. Running(w)' /\ Inserted(w)' /\ Locking(w)'
    BY <1>1, <1>2, <1>3, <1>4, <1>5 DEF SessionOK, Running, Inserted, Locking, locks
  <2>2. Balanced(w)' /\ Holding(w)'
    BY <1>1, <1>2, <1>3, <1>4, <1>5 DEF SessionOK, Balanced, Holding, locks, money
  <2> QED BY <1>1, <1>2, <1>4, <1>5, <2>1, <2>2 DEF SessionOK
<1> QED BY <1>1, <1>2, <1>4, <1>6, SessionStep

\* Only the status of the row a session pays changes, and it is its own row.
LEMMA StatusStep ==
  ASSUME IInv, NEW w \in Ticks, sess[w].pc = "pay", NEW t \in Transfers, t = sess[w].id,
         NEW status \in {"COMPLETED", "FAILED"},
         rows' = [rows EXCEPT ![t].status = status], UNCHANGED money
  PROVE  /\ rows' \in [Transfers -> Row]
         /\ rows'[t].status = status /\ rows'[t].by = w /\ rows[t].by = w
         /\ rows'[t].from = rows[t].from /\ rows'[t].to = rows[t].to
         /\ rows'[t].key = rows[t].key /\ rows'[t].amount = rows[t].amount
         /\ \A u \in Transfers \ {t} : rows'[u] = rows[u]
         /\ RowsOK' /\ MovedOK' /\ UniqueIndex' /\ PoolMatchesLedger'
<1> TypeOK /\ RowsOK /\ MovedOK /\ UniqueIndex /\ SessionsOK /\ PoolMatchesLedger
  BY DEF IInv
<1> DEFINE row == [rows[t] EXCEPT !.status = status]
<1>1. rows[t] \in Row /\ rows[t].by = w /\ rows[t].status = "PENDING" /\ w # None
  BY RunFacts, StateTypes, Constants DEF Running, SessionOK, Paying
<1>2. /\ row \in Row /\ row.status = status /\ row.by = w /\ row.from = rows[t].from
      /\ row.to = rows[t].to /\ row.key = rows[t].key /\ row.amount = rows[t].amount
      /\ row.recurring = rows[t].recurring
  BY <1>1 DEF Row, Statuses
<1>3. rows' = [rows EXCEPT ![t] = row]
  OBVIOUS
<1> HIDE DEF row
<1>4. rows' \in [Transfers -> Row] /\ rows'[t] = row /\ \A u \in Transfers \ {t} : rows'[u] = rows[u]
  BY <1>2, <1>3 DEF TypeOK
<1>5. RowsOK'
  <2>1. RowOK(t)'
    BY <1>1, <1>2, <1>4 DEF RowsOK, RowOK
  <2>2. ASSUME NEW u \in Transfers \ {t} PROVE RowOK(u)'
    BY <1>4 DEF RowOK, RowsOK
  <2> QED BY <2>1, <2>2 DEF RowsOK
<1>6. MovedOK'
  BY <1>1, <1>2, <1>4 DEF MovedOK, money
<1>7. UniqueIndex'
  BY <1>2, <1>4 DEF UniqueIndex
<1>8. PoolMatchesLedger'
  BY DEF PoolMatchesLedger, money
<1> QED BY <1>1, <1>2, <1>4, <1>5, <1>6, <1>7, <1>8

LEMMA PayChildInv ==
  ASSUME IInv, NEW w \in Ticks, PayChild(w)
  PROVE  IInv'
<1> TypeOK /\ RowsOK /\ SessionsOK
  BY DEF IInv
<1>1. sess[w].pc = "pay" /\ CanPay(w)
  BY DEF PayChild, CanPay
<1>2. /\ w \in Sessions /\ SessionOK(w) /\ sess[w] \in Session /\ Running(w)
      /\ sess[w].seen.from \in Pools /\ sess[w].seen.to \in Pools
  BY <1>1, RunFacts
<1>3. PICK t \in Transfers : t = sess[w].id
  BY <1>1, <1>2 DEF SessionOK, Paying
<1> DEFINE row == rows[t]
           bal == Movement(sess[w].bal, row)
           delta == Movement(sess[w].delta, row)
           x == [sess[w] EXCEPT !.pc = "run", !.id = None, !.paid = sess[w].paid \cup {t},
                                !.bal = bal, !.delta = delta]
<1>4. /\ rows' = [rows EXCEPT ![t].status = "COMPLETED"]
      /\ sess' = [sess EXCEPT ![w] = x]
      /\ UNCHANGED <<clock, money, locks, advisory, used, faults>>
  BY <1>3 DEF PayChild
<1>5. /\ row.amount \in Nat /\ row.from = sess[w].seen.from /\ row.to = sess[w].seen.to
      /\ poolLock[row.from] = w /\ poolLock[row.to] = w
      /\ sess[w].bal \in [Pools -> Int] /\ sess[w].delta \in [Pools -> Int]
      /\ row.from # row.to /\ row.from \in Pools /\ row.to \in Pools
  BY <1>1, <1>2, <1>3, PaidPools, SessionType DEF Running
<1>6. /\ bal \in [Pools -> Int] /\ delta \in [Pools -> Int]
      /\ \A p \in Pools : /\ bal[p] = CASE p = row.from -> sess[w].bal[p] - row.amount
                                        [] p = row.to -> sess[w].bal[p] + row.amount
                                        [] OTHER -> sess[w].bal[p]
                          /\ delta[p] = CASE p = row.from -> sess[w].delta[p] - row.amount
                                          [] p = row.to -> sess[w].delta[p] + row.amount
                                          [] OTHER -> sess[w].delta[p]
  BY <1>1, <1>2, <1>3, <1>5, PaidPools
<1> HIDE DEF bal, delta
<1>7. /\ x \in Session /\ x.pc = "run" /\ x.paid = sess[w].paid \cup {t}
      /\ x.bal = bal /\ x.delta = delta /\ x.seen = sess[w].seen /\ x.parent = sess[w].parent
  BY <1>2, <1>6, Constants DEF Session
<1> HIDE DEF x
<1>8. sess'[w] = x /\ \A u \in Sessions \ {w} : sess'[u] = sess[u]
  BY <1>2, <1>4 DEF TypeOK
<1>9. /\ rows' \in [Transfers -> Row] /\ rows'[t].status = "COMPLETED" /\ rows'[t].by = w
      /\ rows[t].by = w /\ rows'[t].from = row.from /\ rows'[t].to = row.to
      /\ rows'[t].key = row.key
      /\ \A u \in Transfers \ {t} : rows'[u] = rows[u]
      /\ RowsOK' /\ MovedOK' /\ UniqueIndex' /\ PoolMatchesLedger'
  BY <1>1, <1>3, <1>4, StatusStep
<1> HIDE DEF row
<1>10. TypeOK'
  BY <1>2, <1>4, <1>7, <1>9 DEF TypeOK, money, locks
<1>11. ASSUME NEW u \in Sessions \ {w} PROVE Undisturbed(u)
  <2>1. rows[t].by # u /\ rowLock[t] # u
    BY <1>1, <1>2, <1>3, PaysAlone
  <2> QED BY <1>2, <1>4, <1>8, <1>9, <2>1, Constants DEF Undisturbed, Committed, money, locks
<1>12. SessionOK(w)'
  <2>1. Running(w)'
    <3>1. sess[w].parent # t
      BY <1>1, <1>2, <1>3 DEF Running, SessionOK, Paying
    <3> QED BY <1>2, <1>4, <1>7, <1>8, <1>9, <3>1 DEF Running, locks
  <2>2. Inserted(w)'
    BY <1>2, <1>7, <1>8, <1>9 DEF SessionOK, Inserted, row
  <2>3. Locking(w)'
    BY <1>2, <1>4, <1>7, <1>8 DEF SessionOK, Locking, locks
  <2>4. Balanced(w)'
    <3> SUFFICES ASSUME NEW p \in Pools
                 PROVE  IF poolLock[p] = w THEN bal[p] = total[p] + delta[p] ELSE delta[p] = 0
      BY <1>4, <1>7, <1>8 DEF Balanced, locks, money
    <3>1. IF poolLock[p] = w THEN sess[w].bal[p] = total[p] + sess[w].delta[p]
                             ELSE sess[w].delta[p] = 0
      BY <1>2 DEF SessionOK, Balanced
    <3>2. total[p] \in Int /\ sess[w].delta[p] \in Int
      BY <1>5 DEF TypeOK
    <3> QED BY <1>5, <1>6, <3>1, <3>2
  <2>5. Holding(w)'
    <3>1. \A p \in Pools : poolLock[p] = w => p \in {row.from, row.to}
      BY <1>1, <1>2, <1>3 DEF SessionOK, Holding, HoldsInOrder, row
    <3> QED BY <1>4, <1>5, <1>7, <1>8, <3>1 DEF Holding, locks
  <2>6. x.paid = {u \in Transfers : rows'[u].by = w /\ rows'[u].status = "COMPLETED"}
    BY <1>2, <1>7, <1>9 DEF SessionOK
  <2> QED BY <1>7, <1>8, <2>1, <2>2, <2>3, <2>4, <2>5, <2>6 DEF SessionOK
<1> QED BY <1>9, <1>10, <1>11, <1>12, StepKeeps

LEMMA FailChildInv ==
  ASSUME IInv, NEW w \in Ticks, FailChild(w)
  PROVE  IInv'
<1> TypeOK /\ RowsOK /\ SessionsOK
  BY DEF IInv
<1>1. sess[w].pc = "pay"
  BY DEF FailChild, CanPay
<1>2. /\ w \in Sessions /\ SessionOK(w) /\ sess[w] \in Session /\ Running(w)
      /\ sess[w].seen.from \in Pools /\ sess[w].seen.to \in Pools
  BY <1>1, RunFacts
<1>3. PICK t \in Transfers : t = sess[w].id /\ rows[t].status = "PENDING"
  BY <1>1, <1>2 DEF SessionOK, Paying
<1> DEFINE x == [sess[w] EXCEPT !.pc = "run", !.id = None]
<1>4. /\ rows' = [rows EXCEPT ![t].status = "FAILED"]
      /\ IF sess[w].paid = {} THEN ReleasePools(w) ELSE UNCHANGED poolLock
      /\ sess' = [sess EXCEPT ![w] = x]
      /\ UNCHANGED <<clock, money, rowLock, advisory, used, faults>>
  BY <1>3 DEF FailChild
<1>5. /\ x \in Session /\ x.pc = "run" /\ x.paid = sess[w].paid
      /\ x.bal = sess[w].bal /\ x.delta = sess[w].delta
      /\ x.seen = sess[w].seen /\ x.parent = sess[w].parent
  BY <1>2, Constants DEF Session
<1> HIDE DEF x
<1>6. sess'[w] = x /\ \A u \in Sessions \ {w} : sess'[u] = sess[u]
  BY <1>2, <1>4 DEF TypeOK
<1>7. /\ rows' \in [Transfers -> Row] /\ rows'[t].status = "FAILED" /\ rows'[t].by = w
      /\ rows[t].by = w /\ rows'[t].from = rows[t].from /\ rows'[t].to = rows[t].to
      /\ rows'[t].key = rows[t].key
      /\ \A u \in Transfers \ {t} : rows'[u] = rows[u]
      /\ RowsOK' /\ MovedOK' /\ UniqueIndex' /\ PoolMatchesLedger'
  BY <1>1, <1>3, <1>4, StatusStep
<1>8. /\ poolLock' \in [Pools -> Sessions \cup {None}]
      /\ \A p \in Pools : poolLock'[p] = IF sess[w].paid = {} /\ poolLock[p] = w
                                         THEN None ELSE poolLock[p]
  BY <1>4 DEF ReleasePools, TypeOK
<1>9. TypeOK'
  BY <1>2, <1>4, <1>5, <1>7, <1>8 DEF TypeOK, money
<1>10. ASSUME NEW u \in Sessions \ {w} PROVE Undisturbed(u)
  <2>1. rows[t].by # u /\ rowLock[t] # u
    BY <1>1, <1>2, <1>3, PaysAlone
  <2>2. \A p \in Pools : poolLock'[p] = u <=> poolLock[p] = u
    BY <1>8, Constants
  <2> QED BY <1>2, <1>4, <1>6, <1>7, <2>1, <2>2, Constants DEF Undisturbed, Committed, money
<1>11. SessionOK(w)'
  <2>1. Running(w)'
    <3>1. sess[w].parent # t
      BY <1>2, <1>3 DEF Running
    <3> QED BY <1>2, <1>4, <1>5, <1>6, <1>7, <3>1 DEF Running
  <2>2. Inserted(w)'
    BY <1>2, <1>5, <1>6, <1>7 DEF SessionOK, Inserted
  <2>3. Locking(w)'
    BY <1>2, <1>4, <1>5, <1>6 DEF SessionOK, Locking
  <2>4. Balanced(w)'
    <3> SUFFICES ASSUME NEW p \in Pools
                 PROVE  IF poolLock'[p] = w THEN x.bal[p] = total[p] + x.delta[p]
                                            ELSE x.delta[p] = 0
      BY <1>4, <1>6 DEF Balanced, money
    <3>1. Balanced(w) /\ Holding(w) /\ w # None
      BY <1>2, Constants DEF SessionOK
    <3> QED BY <1>5, <1>8, <3>1 DEF Balanced, Holding
  <2>5. Holding(w)'
    <3>1. Holding(w) /\ w # None
      BY <1>2, Constants DEF SessionOK
    <3>2. ASSUME NEW p \in Pools, poolLock'[p] = w
          PROVE  x.paid # {} /\ p \in {x.seen.from, x.seen.to}
      <4>1. poolLock[p] = w /\ x.paid # {}
        BY <1>5, <1>8, <3>1, <3>2
      <4>2. p \in {rows[t].from, rows[t].to}
        BY <1>1, <1>3, <3>1, <4>1 DEF Holding, HoldsInOrder
      <4> QED BY <1>1, <1>2, <1>3, <1>5, <4>1, <4>2 DEF Running
    <3>3. IF x.paid = {} THEN \A p \in Pools : x.delta[p] = 0
                         ELSE poolLock'[x.seen.from] = w /\ poolLock'[x.seen.to] = w
      BY <1>2, <1>5, <1>8, <3>1 DEF Holding
    <3> QED BY <1>5, <1>6, <3>2, <3>3 DEF Holding
  <2>6. x.paid = {u \in Transfers : rows'[u].by = w /\ rows'[u].status = "COMPLETED"}
    BY <1>2, <1>3, <1>5, <1>7 DEF SessionOK
  <2> QED BY <1>5, <1>6, <2>1, <2>2, <2>3, <2>4, <2>5, <2>6 DEF SessionOK
<1> QED BY <1>7, <1>9, <1>10, <1>11, StepKeeps

\* The rows after the commit of a schedule: the children are visible, the schedule
\* has its next date and may be at its end, and the others are as they were.
LEMMA CommitRows ==
  ASSUME IInv, NEW w \in Ticks, CommitParent(w), NEW p \in Transfers, p = sess[w].parent
  PROVE  /\ rows' \in [Transfers -> Row]
         /\ rows[p].by = None /\ rows[p].status = "ACTIVE" /\ rows[p].recurring
         /\ rows'[p].status \in {"ACTIVE", "COMPLETED"} /\ rows'[p].by = None
         /\ rows'[p].from = rows[p].from /\ rows'[p].to = rows[p].to
         /\ rows'[p].recurring = rows[p].recurring /\ rows'[p].key = rows[p].key
         /\ \A t \in Transfers \ {p} : rows[t].by # w => rows'[t] = rows[t]
         /\ \A t \in Transfers \ {p} : rows[t].by = w =>
              /\ rows'[t].by = None /\ rows'[t].status = rows[t].status
              /\ rows'[t].from = rows[t].from /\ rows'[t].to = rows[t].to
              /\ rows'[t].recurring = rows[t].recurring /\ rows'[t].key = rows[t].key
              /\ rows'[t].amount = rows[t].amount
<1> TypeOK /\ RowsOK
  BY DEF IInv
<1>1. /\ w \in Sessions /\ SessionOK(w) /\ sess[w] \in Session /\ Running(w)
      /\ sess[w].seen.due \in Day /\ w # None
  BY RunFacts, Constants DEF CommitParent
<1>2. rows[p].status = "ACTIVE" /\ rows[p].by = None /\ rows[p].recurring /\ rows[p] \in Row
  BY <1>1, StateTypes DEF Running, RowsOK, RowOK
<1> DEFINE status == IF PastEnd(sess[w].seen) THEN "COMPLETED" ELSE "ACTIVE"
           row == [rows[p] EXCEPT !.due = sess[w].seen.due, !.status = status]
           public(t) == [rows[t] EXCEPT !.by = None]
<1>3. ASSUME NEW t \in Transfers
      PROVE  /\ public(t) \in Row /\ public(t).by = None /\ public(t).status = rows[t].status
             /\ public(t).from = rows[t].from /\ public(t).to = rows[t].to
             /\ public(t).recurring = rows[t].recurring /\ public(t).key = rows[t].key
             /\ public(t).amount = rows[t].amount
  BY StateTypes DEF Row
<1>4. status \in {"ACTIVE", "COMPLETED"}
  OBVIOUS
<1> DEFINE f == [t \in Transfers |-> IF rows[t].by = w THEN public(t) ELSE rows[t]]
<1>5. rows' = [f EXCEPT ![p] = row]
  <2> DEFINE end == PastEnd(sess[w].seen)
             due == sess[w].seen.due
  <2>1. f \in [Transfers -> Row] /\ f[p] = rows[p]
    BY <1>1, <1>2, <1>3 DEF TypeOK
  <2>2. rows' = [f EXCEPT ![p].due = due, ![p].status = IF end THEN "COMPLETED" ELSE @]
    BY DEF CommitParent, Publish
  <2>3. row = [f[p] EXCEPT !.due = due, !.status = IF end THEN "COMPLETED" ELSE f[p].status]
    BY <1>2, <2>1
  <2> HIDE DEF f, end, due, row
  <2> QED BY <2>1, <2>2, <2>3
<1> HIDE DEF status
<1>6. /\ row \in Row /\ row.status = status /\ row.by = None
      /\ row.from = rows[p].from /\ row.to = rows[p].to
      /\ row.recurring = rows[p].recurring /\ row.key = rows[p].key
  BY <1>1, <1>2, <1>4 DEF Row, Statuses
<1> HIDE DEF row, public
<1>7. rows' \in [Transfers -> Row]
  BY <1>3, <1>5, <1>6 DEF TypeOK
<1>8. rows'[p] = row
  BY <1>5
<1>9. ASSUME NEW t \in Transfers \ {p}
      PROVE  rows'[t] = IF rows[t].by = w THEN public(t) ELSE rows[t]
  BY <1>5
<1> HIDE DEF f
<1>10. /\ \A t \in Transfers \ {p} : rows[t].by # w => rows'[t] = rows[t]
       /\ \A t \in Transfers \ {p} : rows[t].by = w => rows'[t] = public(t)
  BY <1>9
<1>11. /\ rows'[p].status \in {"ACTIVE", "COMPLETED"} /\ rows'[p].by = None
       /\ rows'[p].from = rows[p].from /\ rows'[p].to = rows[p].to
       /\ rows'[p].recurring = rows[p].recurring /\ rows'[p].key = rows[p].key
  BY <1>4, <1>6, <1>8
<1> QED BY <1>2, <1>3, <1>7, <1>10, <1>11

LEMMA CommitParentInv ==
  ASSUME IInv, NEW w \in Ticks, CommitParent(w)
  PROVE  IInv'
<1> TypeOK /\ RowsOK /\ MovedOK /\ UniqueIndex /\ SessionsOK /\ PoolMatchesLedger
  BY DEF IInv
<1>1. /\ w \in Sessions /\ SessionOK(w) /\ sess[w] \in Session /\ Running(w) /\ w # None
      /\ sess[w].bal \in [Pools -> Int] /\ sess[w].delta \in [Pools -> Int]
  BY RunFacts, SessionType, Constants DEF CommitParent
<1>2. PICK p \in Transfers : p = sess[w].parent /\ rowLock[p] = w
  BY <1>1 DEF Running
<1> DEFINE x == BackToScan(sess[w])
<1>3. /\ moved' = [t \in Transfers |-> IF t \in sess[w].paid THEN moved[t] + 1 ELSE moved[t]]
      /\ ledger' = [o \in Pools |-> ledger[o] + sess[w].delta[o]]
      /\ total' = Settled(w, sess[w].bal)
      /\ Release(w) /\ sess' = [sess EXCEPT ![w] = x]
      /\ UNCHANGED <<clock, advisory, used, faults>>
  BY DEF CommitParent
<1>4. x \in Session /\ x.pc = "scan" /\ x.paid = {} /\ \A o \in Pools : x.delta[o] = 0
  BY <1>1, BackToScanType DEF BackToScan, Idle
<1> HIDE DEF x
<1>5. sess'[w] = x /\ \A u \in Sessions \ {w} : sess'[u] = sess[u]
  BY <1>1, <1>3 DEF TypeOK
<1>6. /\ rows' \in [Transfers -> Row]
      /\ rows[p].by = None /\ rows[p].status = "ACTIVE" /\ rows[p].recurring
      /\ rows'[p].status \in {"ACTIVE", "COMPLETED"} /\ rows'[p].by = None
      /\ rows'[p].from = rows[p].from /\ rows'[p].to = rows[p].to
      /\ rows'[p].recurring = rows[p].recurring /\ rows'[p].key = rows[p].key
      /\ \A t \in Transfers \ {p} : rows[t].by # w => rows'[t] = rows[t]
      /\ \A t \in Transfers \ {p} : rows[t].by = w =>
           /\ rows'[t].by = None /\ rows'[t].status = rows[t].status
           /\ rows'[t].from = rows[t].from /\ rows'[t].to = rows[t].to
           /\ rows'[t].recurring = rows[t].recurring /\ rows'[t].key = rows[t].key
  BY <1>2, CommitRows
<1>7. \A t \in Transfers : t \in sess[w].paid <=> rows[t].by = w /\ rows[t].status = "COMPLETED"
  BY <1>1 DEF SessionOK
<1>8. \A o \in Pools : /\ ledger'[o] = ledger[o] + sess[w].delta[o]
                       /\ total'[o] = IF poolLock[o] = w THEN sess[w].bal[o] ELSE total[o]
  BY <1>3 DEF Settled
<1>9. TypeOK'
  <2>1. moved' \in [Transfers -> Nat]
    BY <1>3 DEF TypeOK
  <2>2. ledger' \in [Pools -> Int] /\ total' \in [Pools -> Int]
    BY <1>1, <1>3 DEF TypeOK, Settled
  <2>3. sess' \in [Sessions -> Session]
    BY <1>1, <1>3, <1>4 DEF TypeOK
  <2> QED BY <1>1, <1>3, <1>6, <2>1, <2>2, <2>3, ReleaseType DEF TypeOK
<1>10. RowsOK'
  <2>1. RowOK(p)'
    BY <1>6 DEF RowsOK, RowOK
  <2>2. ASSUME NEW t \in Transfers \ {p} PROVE RowOK(t)'
    <3>1. CASE rows[t].by = w
      BY <1>1, <1>6, <3>1 DEF RowsOK, RowOK
    <3>2. CASE rows[t].by # w
      BY <1>6, <3>2 DEF RowsOK, RowOK
    <3> QED BY <3>1, <3>2
  <2> QED BY <2>1, <2>2 DEF RowsOK
<1>11. MovedOK'
  <2> SUFFICES ASSUME NEW t \in Transfers
               PROVE  /\ \/ rows'[t].by # None
                         \/ rows'[t].recurring
                         \/ rows'[t].status \in {"ABSENT", "PENDING", "ACTIVE", "FAILED"}
                         => moved'[t] = 0
                      /\ rows'[t].by = None /\ rows'[t].status = "COMPLETED" /\ ~rows'[t].recurring
                         => moved'[t] = 1
    BY DEF MovedOK
  <2>1. moved'[t] = IF rows[t].by = w /\ rows[t].status = "COMPLETED" THEN moved[t] + 1 ELSE moved[t]
    BY <1>3, <1>7
  <2>2. CASE t = p
    BY <1>1, <1>6, <2>1, <2>2 DEF MovedOK
  <2>3. CASE t # p /\ rows[t].by = w
    <3>1. moved[t] = 0 /\ ~rows[t].recurring /\ rows[t].status \in {"PENDING", "COMPLETED", "FAILED"}
      BY <1>1, <2>3 DEF MovedOK, RowsOK, RowOK
    <3> QED BY <1>6, <2>1, <2>3, <3>1
  <2>4. CASE t # p /\ rows[t].by # w
    BY <1>6, <2>1, <2>4 DEF MovedOK
  <2> QED BY <2>2, <2>3, <2>4
<1>12. UniqueIndex'
  <2>1. \A t \in Transfers : rows'[t].key = rows[t].key
    BY <1>6
  <2> QED BY <2>1 DEF UniqueIndex
<1>13. PoolMatchesLedger'
  <2> SUFFICES ASSUME NEW o \in Pools PROVE total'[o] = ledger'[o]
    BY DEF PoolMatchesLedger
  <2>1. total[o] = ledger[o] /\ total[o] \in Int
    BY DEF PoolMatchesLedger, TypeOK
  <2> QED BY <1>1, <1>8, <2>1 DEF SessionOK, Balanced
<1>14. ASSUME NEW u \in Sessions \ {w} PROVE Undisturbed(u)
  <2>1. ASSUME NEW t \in Transfers, rows[t].by = w PROVE rowLock[t] # u
    <3> SUFFICES ASSUME rowLock[t] = u PROVE FALSE
      OBVIOUS
    <3>1. CASE u \in Ticks
      BY <1>1, <2>1, <3>1 DEF SessionsOK, SessionOK, Locking, Running, RowsOK, RowOK
    <3>2. CASE u \notin Ticks
      BY <1>1, <2>1, <3>2 DEF SessionsOK, SessionOK, Locking, Paying
    <3> QED BY <3>1, <3>2
  <2>2. u # None
    BY Constants
  <2>3. ASSUME NEW t \in Transfers
        PROVE  /\ rows'[t].by = u <=> rows[t].by = u
               /\ rows[t].by = u \/ rowLock[t] = u => rows'[t] = rows[t]
               /\ Committed(t) => Committed(t)' /\ rows'[t].recurring = rows[t].recurring
    <3>1. CASE t = p
      BY <1>2, <1>6, <2>2, <3>1 DEF Committed
    <3>2. CASE t # p /\ rows[t].by = w
      BY <1>1, <1>6, <2>1, <2>2, <3>2 DEF Committed
    <3>3. CASE t # p /\ rows[t].by # w
      BY <1>6, <3>3 DEF Committed
    <3> QED BY <3>1, <3>2, <3>3
  <2>4. \A o \in Pools : poolLock[o] = u => total'[o] = total[o]
    BY <1>8
  <2> QED BY <1>1, <1>3, <1>5, <2>3, <2>4, ReleaseFrame DEF Undisturbed
<1>15. SessionOK(w)'
  <2>1. \A t \in Transfers : rows'[t].by # w
    BY <1>1, <1>6
  <2> QED BY <1>1, <1>3, <1>4, <1>5, <2>1, EmptyOK, ReleaseFrame DEF Empty
<1> QED BY <1>9, <1>10, <1>11, <1>12, <1>13, <1>14, <1>15, StepKeeps

LEMMA FailParentInv ==
  ASSUME IInv, NEW w \in Ticks, FailParent(w)
  PROVE  IInv'
<1>1. w \in Sessions /\ sess[w] \in Session
  BY StateTypes DEF Sessions, IInv
<1> DEFINE x == BackToScan(sess[w])
<1>2. Rollback(w) /\ sess' = [sess EXCEPT ![w] = x]
  BY DEF FailParent, NextParent
<1>3. clock' \in Day /\ advisory' \in Ticks \cup {None} /\ used' \in Nat /\ faults' \in Nat
  BY DEF FailParent, IInv, TypeOK
<1>4. x \in Session /\ x.pc = "scan" /\ x.paid = {} /\ \A p \in Pools : x.delta[p] = 0
  BY <1>1, BackToScanType DEF BackToScan, Idle
<1> HIDE DEF x
<1> QED BY <1>1, <1>2, <1>3, <1>4, RollbackStep

LEMMA CrashTickInv ==
  ASSUME IInv, NEW w \in Ticks, CrashTick(w)
  PROVE  IInv'
<1>1. w \in Sessions
  BY DEF Sessions
<1>2. /\ Rollback(w) /\ sess' = [sess EXCEPT ![w] = Idle]
      /\ clock' \in Day /\ advisory' \in Ticks \cup {None} /\ used' \in Nat /\ faults' \in Nat
  BY DEF CrashTick, IInv, TypeOK
<1> QED BY <1>1, <1>2, Constants, IdleFields, RollbackStep

\* Steps of the clock, of the advisory lock, and none at all.
LEMMA QuietInv ==
  ASSUME IInv, UNCHANGED <<rows, money, locks, sess>>,
         clock' \in Day, advisory' \in Ticks \cup {None}, used' \in Nat, faults' \in Nat
  PROVE  IInv'
<1>1. TypeOK'
  BY DEF IInv, TypeOK, money, locks
<1>2. RowsOK' /\ MovedOK' /\ UniqueIndex' /\ PoolMatchesLedger'
  BY DEF IInv, RowsOK, RowOK, MovedOK, UniqueIndex, PoolMatchesLedger, money
<1>3. \A u \in Sessions \ {None} : Undisturbed(u)
  BY DEF Undisturbed, Committed, money, locks
<1> QED BY <1>1, <1>2, <1>3, Constants, StepKeeps

LEMMA LoseAdvisoryInv ==
  ASSUME IInv, NEW w \in Ticks, LoseAdvisory(w)
  PROVE  IInv'
<1>1. clock' \in Day /\ advisory' \in Ticks \cup {None} /\ used' \in Nat /\ faults' \in Nat
  BY DEF LoseAdvisory, IInv, TypeOK
<1> QED BY <1>1, QuietInv DEF LoseAdvisory

LEMMA AdvanceInv ==
  ASSUME IInv, Advance
  PROVE  IInv'
<1>1. clock' \in Day /\ advisory' \in Ticks \cup {None} /\ used' \in Nat /\ faults' \in Nat
  BY DEF Advance, IInv, TypeOK, Day
<1> QED BY <1>1, QuietInv DEF Advance

-----------------------------------------------------------------------------
(* The invariant holds. *)

LEMMA InitInv == Init => IInv
<1> SUFFICES ASSUME Init PROVE IInv
  OBVIOUS
<1>1. TypeOK
  BY Constants, NumberAssumption DEF Init, TypeOK, Day
<1>2. /\ AbsentRow.status = "ABSENT" /\ AbsentRow.by = None /\ AbsentRow.key = None
      /\ ~AbsentRow.recurring
  BY DEF AbsentRow
<1>3. \A t \in Transfers : rows[t] = AbsentRow /\ moved[t] = 0 /\ rowLock[t] = None
  BY DEF Init
<1>4. \A p \in Pools : poolLock[p] = None /\ total[p] = ledger[p]
  BY DEF Init
<1>5. \A s \in Sessions : sess[s] = Idle
  BY DEF Init
<1>6. RowsOK /\ MovedOK /\ UniqueIndex /\ PoolMatchesLedger
  BY <1>2, <1>3, <1>4 DEF RowsOK, RowOK, MovedOK, UniqueIndex, PoolMatchesLedger
<1>7. ASSUME NEW s \in Sessions PROVE SessionOK(s)
  <2>1. s # None
    BY Constants
  <2> QED BY <1>2, <1>3, <1>4, <1>5, <2>1, IdleFields
          DEF SessionOK, Inserted, Locking, Balanced, Holding
<1> QED BY <1>1, <1>6, <1>7 DEF IInv, SessionsOK

LEMMA StutterInv ==
  ASSUME IInv, UNCHANGED vars
  PROVE  IInv'
<1>1. clock' \in Day /\ advisory' \in Ticks \cup {None} /\ used' \in Nat /\ faults' \in Nat
  BY DEF vars, IInv, TypeOK
<1> QED BY <1>1, QuietInv DEF vars

LEMMA TickInv ==
  ASSUME IInv, NEW w \in Ticks, TickStep(w) \/ Fault(w)
  PROVE  IInv'
<1>1. w \in Sessions
  BY DEF Sessions
<1>2. CASE TickStep(w)
  <2>1. RunDirect(w) \/ RunOffer(w) => IInv'
    BY InsertChildInv DEF RunDirect, RunOffer
  <2> QED BY <1>1, <1>2, <2>1, TakeParentInv, SkipParentInv, RepeatPeriodInv, LockPoolInv,
             PayChildInv, FailChildInv, CommitParentInv, EndTickInv DEF TickStep
<1>3. CASE Fault(w)
  BY <1>3, FailParentInv, CrashTickInv, LoseAdvisoryInv DEF Fault
<1> QED BY <1>2, <1>3

LEMMA RequestInv ==
  ASSUME IInv, NEW q \in Requests, UserBegins(q) \/ RequestStep(q) \/ AbortRequest(q)
  PROVE  IInv'
<1>1. q \in Sessions
  BY DEF Sessions
<1>2. CASE UserBegins(q)
  BY <1>2, CreateScheduleInv, CreateOfferInv, CreateDirectInv, OpenTransferInv DEF UserBegins
<1>3. CASE RequestStep(q)
  BY <1>1, <1>3, LockOfferInv, RefuseAcceptInv, LockPoolInv, PayRequestInv, RefusePaymentInv,
     DeclineTransferInv, CancelTransferInv, UpdateTransferInv DEF RequestStep
<1> QED BY <1>2, <1>3, AbortRequestInv

LEMMA NextInv == IInv /\ [Next]_vars => IInv'
<1> SUFFICES ASSUME IInv, [Next]_vars PROVE IInv'
  OBVIOUS
<1>1. CASE UNCHANGED vars
  BY <1>1, StutterInv
<1>2. CASE Next
  BY <1>2, AdvanceInv, PostElsewhereInv, StartTickInv, TickInv, RequestInv DEF Next
<1> QED BY <1>1, <1>2

LEMMA Invariance == Spec => []IInv
BY InitInv, NextInv, PTL DEF Spec

-----------------------------------------------------------------------------
(* The theorems. *)

\* Every variable keeps its type.
THEOREM TypeCorrect == Spec => []TypeOK
<1>1. IInv => TypeOK
  BY DEF IInv
<1> QED BY <1>1, Invariance, PTL

\* The cached totals are the sums of the ledger, whichever requests, ticks and
\* other postings meet on the pools.
THEOREM PoolsCorrect == Spec => []PoolMatchesLedger
<1>1. IInv => PoolMatchesLedger
  BY DEF IInv
<1> QED BY <1>1, Invariance, PTL

\* A completed transfer moved its money exactly once, one that waits or failed
\* never, and neither did a schedule.
THEOREM PaidOnceCorrect == Spec => []PaidOnce
<1>1. IInv => PaidOnce
  BY DEF IInv, MovedOK, PaidOnce, Committed
<1> QED BY <1>1, Invariance, PTL

\* A form submitted twice, or a period a schedule comes back to, has one transfer.
THEOREM KeysCorrect == Spec => []OneTransferPerKey
<1>1. IInv => OneTransferPerKey
  BY DEF IInv, UniqueIndex, OneTransferPerKey
<1> QED BY <1>1, Invariance, PTL

-----------------------------------------------------------------------------
(* No run after the stop. *)

\* Which rows a step makes visible, and why a child among them is one of a
\* schedule that is still ACTIVE.
LEMMA VisibleChild ==
  ASSUME IInv, Next, NEW t \in Transfers, ~Committed(t), Committed(t)',
         rows'[t].key \in Transfers \X Day
  PROVE  rows[rows'[t].key[1]].status = "ACTIVE"
<1> TypeOK /\ RowsOK /\ SessionsOK
  BY DEF IInv
<1>1. ASSUME UNCHANGED rows PROVE FALSE
  BY <1>1 DEF Committed
<1>2. ASSUME NEW q \in Requests, NEW u \in Transfers, NEW d \in Drafts,
             NEW s \in {q, None}, NEW status \in {"PENDING", "ACTIVE"},
             Created(q, u, d, status, s)
      PROVE  FALSE
  <2>1. s \in Sessions \cup {None} /\ status \in Statuses
    BY DEF Sessions, Statuses
  <2>2. NewRow(d, s, status).key \notin Transfers \X Day
    BY <2>1, DraftRow
  <2>3. CASE t = u
    BY <1>2, <2>2, <2>3 DEF Created, TypeOK
  <2>4. CASE t # u
    BY <1>2, <2>4 DEF Created, TypeOK, Committed
  <2> QED BY <2>3, <2>4
<1>3. ASSUME NEW q \in Requests, UserBegins(q) PROVE FALSE
  <2>1. CASE CreateSchedule(q) \/ CreateOffer(q)
    BY <1>2, <2>1 DEF CreateSchedule, CreateOffer
  <2>2. CASE CreateDirect(q)
    BY <1>2, <2>2 DEF CreateDirect
  <2>3. CASE OpenTransfer(q)
    BY <1>1, <2>3 DEF OpenTransfer
  <2> QED BY <1>3, <2>1, <2>2, <2>3 DEF UserBegins
<1>4. ASSUME NEW s, Rollback(s) PROVE FALSE
  BY <1>4 DEF Rollback, Committed, AbsentRow
<1>5. ASSUME NEW q \in Requests, PayRequest(q) PROVE FALSE
  <2>1. q \in Sessions /\ q \notin Ticks /\ sess[q].pc = "pay"
    BY <1>5, SessionAssumption DEF Sessions, PayRequest, CanPay
  <2>2. PICK u \in Transfers : u = sess[q].id /\ rows[u].status = "PENDING" /\ rows[u] \in Row
    BY <2>1, StateTypes DEF SessionsOK, SessionOK, Paying
  <2>3. rows' = [rows EXCEPT ![u] = [rows[u] EXCEPT !.status = "COMPLETED", !.by = None]]
    BY <1>5, <2>2 DEF PayRequest, TypeOK
  <2>4. t = u
    BY <2>3 DEF Committed, TypeOK
  <2>5. rows[u].by = q
    BY <2>1, <2>2, <2>4 DEF SessionsOK, SessionOK, Paying, Committed
  <2>6. rows[u].key \notin Transfers \X Day
    BY <2>1, <2>5 DEF SessionsOK, SessionOK, Inserted
  <2>7. rows'[t].key = rows[u].key
    BY <2>2, <2>3, <2>4 DEF Row, TypeOK
  <2> QED BY <2>6, <2>7
<1>6. ASSUME NEW q \in Requests, NEW row, row.by = rows[sess[q].id].by,
             sess[q].pc = "read", Written(q, row)
      PROVE  FALSE
  <2>1. sess[q].id \in Transfers /\ Committed(sess[q].id)
    BY <1>6 DEF Sessions, SessionsOK, SessionOK, Reading
  <2> QED BY <1>6, <2>1 DEF Written, Committed, TypeOK
<1>7. ASSUME NEW q \in Requests, RequestStep(q) PROVE FALSE
  <2>1. CASE LockOffer(q) \/ RefuseAccept(q) \/ LockPool(q)
    BY <1>1, <2>1 DEF LockOffer, RefuseAccept, LockPool
  <2>2. CASE PayRequest(q)
    BY <1>5, <2>2
  <2>3. CASE RefusePayment(q)
    BY <1>4, <2>3 DEF RefusePayment
  <2>4. sess[q].pc = "read" => rows[sess[q].id] \in Row
    BY ReadRow
  <2>5. CASE DeclineTransfer(q)
    <3> DEFINE row == [rows[sess[q].id] EXCEPT !.status = "CANCELLED"]
    <3>1. sess[q].pc = "read" /\ Written(q, row)
      BY <2>5 DEF DeclineTransfer, Read
    <3>2. row.by = rows[sess[q].id].by
      BY <2>4, <3>1 DEF Row
    <3> HIDE DEF row
    <3> QED BY <1>6, <3>1, <3>2
  <2>6. CASE CancelTransfer(q)
    <3> DEFINE due == IF sess[q].seen.recurring THEN None ELSE rows[sess[q].id].due
               row == [rows[sess[q].id] EXCEPT !.status = "CANCELLED", !.due = due]
    <3>1. sess[q].pc = "read" /\ Written(q, row)
      BY <2>6 DEF CancelTransfer, Read
    <3> HIDE DEF due
    <3>2. row.by = rows[sess[q].id].by
      BY <2>4, <3>1 DEF Row
    <3> HIDE DEF row
    <3> QED BY <1>6, <3>1, <3>2
  <2>7. CASE UpdateTransfer(q)
    <3> DEFINE old == rows[sess[q].id]
               seen == sess[q].seen
               due(ed) == IF ed.due \notin {None, seen.due} THEN ed.due ELSE old.due
               end(ed) == IF ed.end_sent /\ ed.end # seen.end THEN ed.end ELSE old.end
               amount(ed) == IF ed.amount \notin {0, seen.amount} THEN ed.amount ELSE old.amount
               row(ed) == [old EXCEPT !.due = due(ed), !.end = end(ed), !.amount = amount(ed)]
    <3>1. PICK ed \in Edits : sess[q].pc = "read" /\ Written(q, row(ed))
      BY <2>7 DEF UpdateTransfer, Read
    <3> HIDE DEF due, end, amount
    <3>2. row(ed).by = rows[sess[q].id].by
      BY <2>4, <3>1 DEF Row
    <3> HIDE DEF row
    <3> QED BY <1>6, <3>1, <3>2
  <2> QED BY <1>7, <2>1, <2>2, <2>3, <2>5, <2>6, <2>7 DEF RequestStep
<1>8. ASSUME NEW w \in Ticks, NEW u \in Transfers, NEW pc, InsertChild(w, u, pc, 1) PROVE FALSE
  <2> DEFINE r == [NewRow(sess[w].seen, w, "PENDING") EXCEPT
                     !.key = ChildKey(w), !.recurring = FALSE, !.due = None, !.end = None]
  <2>1. sess[w].pc = "run" /\ rows' = [rows EXCEPT ![u] = r]
    BY <1>8 DEF InsertChild, LoopRuns
  <2>2. r.by = w /\ w # None
    BY <2>1, ChildRow, RunFacts, Constants
  <2> HIDE DEF r
  <2> QED BY <2>1, <2>2 DEF Committed, TypeOK
<1>9. ASSUME NEW w \in Ticks, PayChild(w) \/ FailChild(w) PROVE FALSE
  <2>1. sess[w].pc = "pay"
    BY <1>9 DEF PayChild, FailChild, CanPay
  <2>2. PICK u \in Transfers : u = sess[w].id
    BY <2>1, RunFacts DEF SessionOK, Paying
  <2>3. rows'[u].by = w /\ w # None /\ \A v \in Transfers \ {u} : rows'[v] = rows[v]
    BY <1>9, <2>1, <2>2, StatusStep, RunFacts, Constants DEF PayChild, FailChild
  <2> QED BY <2>3 DEF Committed
<1>10. ASSUME NEW w \in Ticks, CommitParent(w)
       PROVE  rows[rows'[t].key[1]].status = "ACTIVE"
  <2>1. SessionOK(w) /\ Running(w)
    BY <1>10, RunFacts DEF CommitParent
  <2>2. PICK p \in Transfers : p = sess[w].parent /\ rows[p].status = "ACTIVE"
    BY <2>1 DEF Running
  <2>3. /\ rows[p].by = None
        /\ \A u \in Transfers \ {p} : rows[u].by # w => rows'[u] = rows[u]
        /\ \A u \in Transfers \ {p} : rows[u].by = w => rows'[u].key = rows[u].key
    BY <1>10, <2>2, CommitRows
  <2>4. rows[t].by = w /\ t # p
    BY <2>2, <2>3 DEF Committed
  <2>5. rows'[t].key[1] = p
    BY <2>1, <2>2, <2>3, <2>4, RunFacts, SessionAssumption DEF SessionOK, Inserted
  <2> QED BY <2>2, <2>5
<1>11. ASSUME NEW w \in Ticks, TickStep(w)
       PROVE  rows[rows'[t].key[1]].status = "ACTIVE"
  <2>1. CASE TakeParent(w) \/ SkipParent(w) \/ RepeatPeriod(w) \/ LockPool(w) \/ EndTick(w)
    BY <1>1, <2>1 DEF TakeParent, SkipParent, RepeatPeriod, LockPool, EndTick
  <2>2. CASE RunDirect(w) \/ RunOffer(w)
    BY <1>8, <2>2 DEF RunDirect, RunOffer
  <2> QED BY <1>9, <1>10, <1>11, <2>1, <2>2 DEF TickStep
<1>12. ASSUME NEW w \in Ticks, Fault(w) PROVE FALSE
  BY <1>1, <1>4, <1>12 DEF Fault, FailParent, CrashTick, LoseAdvisory
<1>13. ASSUME NEW q \in Requests, AbortRequest(q) PROVE FALSE
  BY <1>4, <1>13 DEF AbortRequest
<1>14. ASSUME Advance \/ (\E p \in Pools : PostElsewhere(p))
              \/ (\E w \in Ticks, force \in Forcing : StartTick(w, force))
       PROVE  FALSE
  BY <1>1, <1>14 DEF Advance, PostElsewhere, StartTick
<1> QED BY <1>3, <1>7, <1>11, <1>12, <1>13, <1>14 DEF Next

\* What was cancelled or completed before makes no further transfer, though the
\* tick listed it earlier.
THEOREM StopCorrect == Spec => NoRunAfterStop
<1> DEFINE A == \A t \in Transfers :
                  ~Committed(t) /\ Committed(t)' /\ rows'[t].key \in Transfers \X Day
                  => rows[rows'[t].key[1]].status = "ACTIVE"
<1>1. IInv /\ Next => A
  BY VisibleChild
<1>2. IInv /\ [Next]_vars => [A]_vars
  BY <1>1
<1> QED BY <1>2, Invariance, PTL DEF Spec, NoRunAfterStop

-----------------------------------------------------------------------------
(* No deadlock.                                                            *)
(*                                                                         *)
(* A session that waits for a row holds nothing, and one that waits for a  *)
(* pool holds pools of lower rank only.  So along a chain of sessions each *)
(* of which waits for the next the ranks rise, and a circle of them would  *)
(* rise for ever: but only finitely many pools are locked.                 *)

\* Only lock_pools locks a pool.
LEMMA PoolLocksKept ==
  ASSUME IInv, Next
  PROVE  \/ \A p \in Pools : poolLock'[p] \in {poolLock[p], None}
         \/ \E s \in Sessions, p \in Pools :
              \A o \in Pools \ {p} : poolLock'[o] = poolLock[o]
<1> DEFINE Kept == \A p \in Pools : poolLock'[p] \in {poolLock[p], None}
<1> TypeOK
  BY DEF IInv
<1>1. UNCHANGED poolLock => Kept
  OBVIOUS
<1>2. \A s : ReleasePools(s) => Kept
  BY DEF ReleasePools
<1>3. ASSUME NEW s \in Sessions, LockPool(s)
      PROVE  \E p \in Pools : \A o \in Pools \ {p} : poolLock'[o] = poolLock[o]
  <2>1. NextPool(s) \in Pools
    BY <1>3, NextPoolIsLowest DEF LockPool, IInv, SessionsOK
  <2>2. poolLock' = [poolLock EXCEPT ![NextPool(s)] = s]
    BY <1>3 DEF LockPool
  <2> QED BY <2>1, <2>2 DEF TypeOK
<1>4. ASSUME NEW q \in Requests, UserBegins(q) \/ AbortRequest(q) PROVE Kept
  BY <1>1, <1>2, <1>4 DEF UserBegins, CreateSchedule, CreateOffer, CreateDirect, Created,
     OpenTransfer, AbortRequest, Rollback, Release, locks
<1>5. ASSUME NEW q \in Requests, RequestStep(q), ~LockPool(q) PROVE Kept
  BY <1>1, <1>2, <1>5 DEF RequestStep, LockOffer, RefuseAccept, PayRequest, RefusePayment,
     DeclineTransfer, CancelTransfer, UpdateTransfer, Written, Rollback, Release, locks
<1>6. ASSUME NEW w \in Ticks, TickStep(w), ~LockPool(w) PROVE Kept
  BY <1>1, <1>2, <1>6 DEF TickStep, TakeParent, SkipParent, RunDirect, RunOffer, InsertChild,
     RepeatPeriod, PayChild, FailChild, CommitParent, EndTick, Release, locks
<1>7. ASSUME NEW w \in Ticks, Fault(w) PROVE Kept
  BY <1>1, <1>2, <1>7 DEF Fault, FailParent, CrashTick, LoseAdvisory, Rollback, Release, locks
<1>8. ASSUME Advance \/ (\E p \in Pools : PostElsewhere(p))
             \/ (\E w \in Ticks, force \in Forcing : StartTick(w, force))
      PROVE  Kept
  BY <1>1, <1>8 DEF Advance, PostElsewhere, StartTick, locks
<1> HIDE DEF Kept
<1>9. Ticks \subseteq Sessions /\ Requests \subseteq Sessions
  BY DEF Sessions
<1>10. Kept \/ \E s \in Sessions : LockPool(s)
  BY <1>4, <1>5, <1>6, <1>7, <1>8, <1>9 DEF Next
<1> QED BY <1>3, <1>10 DEF Kept

LEMMA RanksInv ==
  ASSUME IInv, RanksBounded, [Next]_vars
  PROVE  RanksBounded'
<1>1. PICK n \in Nat : \A p \in Pools : poolLock[p] # None => Rank[p] < n
  BY DEF RanksBounded, LockedBelow
<1>2. CASE \A p \in Pools : poolLock'[p] \in {poolLock[p], None}
  BY <1>1, <1>2 DEF RanksBounded, LockedBelow
<1>3. ASSUME NEW p \in Pools, \A o \in Pools \ {p} : poolLock'[o] = poolLock[o]
      PROVE  RanksBounded'
  <2>1. Rank[p] \in Nat /\ \A o \in Pools : Rank[o] \in Nat
    BY PoolsAssumption
  <2>2. n + Rank[p] + 1 \in Nat
    BY <2>1
  <2>3. \A o \in Pools : poolLock'[o] # None => Rank[o] < n + Rank[p] + 1
    BY <1>1, <1>3, <2>1
  <2> QED BY <2>2, <2>3 DEF RanksBounded, LockedBelow
<1>4. CASE UNCHANGED vars
  BY <1>1, <1>4 DEF RanksBounded, LockedBelow, vars, locks
<1>5. CASE Next
  BY <1>2, <1>3, <1>5, PoolLocksKept
<1> QED BY <1>4, <1>5

\* A session others wait for waits for a pool itself, and one it holds has a
\* lower rank.
LEMMA RanksRise ==
  ASSUME IInv, NEW s \in Sessions, NEW u \in Sessions, WaitsFor(s) = u,
         NEW v \in Sessions, WaitsFor(u) = v
  PROVE  /\ sess[u].pc = "pay" /\ ~HoldsPools(u)
         /\ NextPool(u) \in Pools /\ poolLock[NextPool(u)] = v
         /\ sess[s].pc = "pay" => /\ NextPool(s) \in Pools
                                  /\ Rank[NextPool(s)] < Rank[NextPool(u)]
<1> TypeOK /\ RowsOK /\ SessionsOK
  BY DEF IInv
<1>1. u # None /\ v # None
  BY Constants
<1>2. \/ sess[s].pc = "pay" /\ ~HoldsPools(s) /\ poolLock[NextPool(s)] = u
      \/ sess[s].pc = "read" /\ rowLock[sess[s].id] = u
  BY <1>1 DEF WaitsFor
<1>3. \/ sess[u].pc = "pay" /\ ~HoldsPools(u) /\ poolLock[NextPool(u)] = v
      \/ sess[u].pc = "read" /\ rowLock[sess[u].id] = v
  BY <1>1 DEF WaitsFor
<1>4. sess[s].pc = "pay" /\ ~HoldsPools(s) => NextPool(s) \in Pools
  BY NextPoolIsLowest DEF SessionsOK
<1>5. sess[u].pc # "read"
  <2>1. CASE sess[s].pc = "pay"
    BY <1>2, <1>4, <2>1 DEF SessionsOK, SessionOK, Holding
  <2>2. CASE sess[s].pc = "read"
    <3>1. sess[s].id \in Transfers /\ rowLock[sess[s].id] = u
      BY <1>2, <2>2 DEF SessionsOK, SessionOK, Reading
    <3> QED BY <3>1 DEF SessionsOK, SessionOK, Locking
  <2> QED BY <1>2, <2>1, <2>2
<1>6. sess[u].pc = "pay" /\ ~HoldsPools(u) /\ poolLock[NextPool(u)] = v
  BY <1>3, <1>5
<1> DEFINE row == rows[sess[u].id]
           p == NextPool(u)
<1>7. /\ p \in {row.from, row.to} /\ p \in Pools /\ poolLock[p] # u
      /\ \A o \in {row.from, row.to} : poolLock[o] # u => Rank[p] <= Rank[o]
  BY <1>6, NextPoolIsLowest DEF SessionsOK
<1>8. HoldsInOrder(u)
  BY <1>6 DEF SessionsOK, SessionOK, Holding
<1>9. row.from \in Pools /\ row.to \in Pools
  BY <1>6, PayPools DEF SessionsOK
<1>10. ASSUME NEW o \in Pools, poolLock[o] = u PROVE Rank[o] < Rank[p]
  <2>1. o \in {row.from, row.to} /\ o # p
    BY <1>7, <1>8, <1>10 DEF HoldsInOrder
  <2>2. ~(Rank[p] < Rank[o])
    BY <1>7, <1>8, <1>10, <2>1 DEF HoldsInOrder
  <2>3. Rank[p] \in Nat /\ Rank[o] \in Nat /\ Rank[p] # Rank[o]
    BY <1>7, <2>1, PoolsAssumption
  <2> QED BY <2>2, <2>3
<1> HIDE DEF p
<1>11. sess[s].pc = "pay" => NextPool(s) \in Pools /\ poolLock[NextPool(s)] = u
  BY <1>2, <1>4
<1> QED BY <1>6, <1>7, <1>10, <1>11 DEF p

\* No sessions wait for each other in a circle, over pools or rows.
THEOREM DeadlockFree == Spec => []NoDeadlock
<1>1. IInv /\ RanksBounded => NoDeadlock
  <2> SUFFICES ASSUME IInv, RanksBounded, NEW S \in (SUBSET Sessions) \ {{}},
                      \A s \in S : WaitsFor(s) \in S
               PROVE  FALSE
    BY DEF NoDeadlock
  <2> DEFINE P == {s \in S : sess[s].pc = "pay"}
             T == {Rank[NextPool(s)] : s \in P}
  <2>1. PICK n \in Nat : \A p \in Pools : poolLock[p] # None => Rank[p] < n
    BY DEF RanksBounded, LockedBelow
  <2>2. ASSUME NEW s \in S
        PROVE  WaitsFor(s) \in P /\ WaitsFor(WaitsFor(s)) \in S
    BY RanksRise
  <2>3. ASSUME NEW s \in P
        PROVE  /\ NextPool(s) \in Pools
               /\ Rank[NextPool(s)] < Rank[NextPool(WaitsFor(s))]
               /\ WaitsFor(s) \in P
    BY <2>2, RanksRise
  <2>4. ASSUME NEW s \in P PROVE Rank[NextPool(s)] \in Nat /\ Rank[NextPool(s)] < n
    <3>1. WaitsFor(s) \in Sessions /\ NextPool(s) \in Pools
      BY <2>2, <2>3
    <3>2. ~HoldsPools(s) /\ poolLock[NextPool(s)] = WaitsFor(s)
      BY <3>1, Constants DEF WaitsFor
    <3> QED BY <2>1, <3>1, <3>2, Constants, PoolsAssumption
  <2>5. T \in SUBSET Nat /\ T # {} /\ \A m \in T : m < n
    BY <2>2, <2>4
  <2>6. PICK k \in T : \A m \in T : m <= k
    BY <2>5, BoundedMax
  <2>7. PICK s \in P : k = Rank[NextPool(s)]
    BY <2>6
  <2>8. /\ Rank[NextPool(WaitsFor(s))] \in T /\ k < Rank[NextPool(WaitsFor(s))]
        /\ Rank[NextPool(WaitsFor(s))] \in Nat /\ k \in Nat
    BY <2>3, <2>4, <2>5, <2>7
  <2> QED BY <2>6, <2>8
<1>2. Init => RanksBounded
  BY DEF Init, RanksBounded, LockedBelow
<1>3. IInv /\ RanksBounded /\ [Next]_vars => RanksBounded'
  BY RanksInv
<1> QED BY <1>1, <1>2, <1>3, Invariance, PTL DEF Spec

-----------------------------------------------------------------------------
(* Transfers implements Payments: every step places orders, pays some of   *)
(* them together, or moves a pool elsewhere.  The invariant the mapping    *)
(* needs on top of IInv:                                                   *)
(*                                                                         *)
(* A tick pays the children of a schedule one by one, each against the     *)
(* balance the earlier ones left, and commits them together: the sum of    *)
(* what it paid is what its commit will take from the sender, and the      *)
(* sender is never below zero on the way.                                  *)

Amounts == [t \in Transfers |-> rows[t].amount]

BatchOK(s) ==
  LET x == sess[s] IN
  /\ IsFiniteSet(x.paid)
  /\ x.paid # {} => /\ x.delta[x.seen.from] = 0 - SumOf(Amounts, x.paid)
                    /\ x.delta[x.seen.to] = SumOf(Amounts, x.paid)
                    /\ x.bal[x.seen.from] >= 0

BatchesOK == \A s \in Sessions : BatchOK(s)

RInv == IInv /\ BatchesOK

-----------------------------------------------------------------------------
(* What a step does to the orders and to the batches.                      *)

\* A row that is visible stays visible, and a one-off row keeps what it orders.
OrderKept(t) ==
  /\ Committed(t) => Committed(t)'
  /\ rows[t].status # "ABSENT" /\ rows'[t].status # "ABSENT" /\ ~rows[t].recurring =>
       /\ ~rows'[t].recurring /\ rows'[t].amount = rows[t].amount
       /\ rows'[t].from = rows[t].from /\ rows'[t].to = rows[t].to

OrdersKept == \A t \in Transfers : OrderKept(t)

\* A session that has paid no child afterwards, or the same ones as before.
BatchKept(s) ==
  \/ sess'[s].paid = {}
  \/ /\ sess'[s].paid = sess[s].paid
     /\ sess[s].paid # {} =>
          /\ sess'[s].delta = sess[s].delta
          /\ sess'[s].seen.from = sess[s].seen.from /\ sess'[s].seen.to = sess[s].seen.to
          /\ sess'[s].bal[sess[s].seen.from] = sess[s].bal[sess[s].seen.from]

BatchesKept == \A s \in Sessions : BatchKept(s)

\* The amounts of what a session paid stay until it commits them.
LEMMA PaidAmounts ==
  ASSUME IInv, IInv', OrdersKept, NEW s \in Sessions, NEW S \in SUBSET sess[s].paid,
         S \subseteq sess'[s].paid, IsFiniteSet(S)
  PROVE  SumOf(Amounts', S) = SumOf(Amounts, S)
<1>1. ASSUME NEW t \in S PROVE Amounts'[t] = Amounts[t]
  <2>1. /\ t \in Transfers
        /\ rows[t].by = s /\ rows[t].status = "COMPLETED" /\ rows'[t].status = "COMPLETED"
    BY DEF IInv, SessionsOK, SessionOK
  <2>2. ~rows[t].recurring
    BY <2>1, Constants DEF IInv, RowsOK, RowOK
  <2> QED BY <2>1, <2>2 DEF OrdersKept, OrderKept, Amounts
<1> HIDE DEF Amounts
<1> QED BY <1>1, SumSame

LEMMA KeptBatch ==
  ASSUME RInv, IInv', OrdersKept, NEW s \in Sessions, BatchKept(s)
  PROVE  BatchOK(s)'
<1>1. CASE sess'[s].paid = {}
  BY <1>1, FS_EmptySet DEF BatchOK
<1>2. CASE sess'[s].paid # {}
  <2>1. sess'[s].paid = sess[s].paid /\ BatchOK(s)
    BY <1>2 DEF BatchKept, RInv, BatchesOK
  <2>2. SumOf(Amounts', sess[s].paid) = SumOf(Amounts, sess[s].paid)
    BY <2>1, PaidAmounts DEF RInv, BatchOK
  <2> HIDE DEF Amounts
  <2> QED BY <1>2, <2>1, <2>2 DEF BatchOK, BatchKept
<1> QED BY <1>1, <1>2

\* A step of one session leaves the batches of the others.
LEMMA OthersKept ==
  ASSUME NEW s, sess' = [sess EXCEPT ![s] = sess'[s]], sess \in [Sessions -> Session],
         s \in Sessions => BatchKept(s)
  PROVE  BatchesKept
BY DEF BatchesKept, BatchKept

LEMMA RowsKept ==
  ASSUME UNCHANGED rows
  PROVE  OrdersKept
BY DEF OrdersKept, OrderKept, Committed

LEMMA RollbackKept ==
  ASSUME IInv, NEW s \in Sessions, Rollback(s)
  PROVE  OrdersKept
BY Constants DEF Rollback, OrdersKept, OrderKept, Committed, AbsentRow

LEMMA InsertKept ==
  ASSUME IInv, NEW t \in Transfers, rows[t].status = "ABSENT", NEW r,
         rows' = [rows EXCEPT ![t] = r]
  PROVE  OrdersKept
BY DEF OrdersKept, OrderKept, Committed, IInv, TypeOK

-----------------------------------------------------------------------------
(* One lemma per action: the orders and the batches are kept, and, for the *)
(* actions that move no money, so is the money.                            *)

Kept == OrdersKept /\ BatchesKept

\* A session that starts afresh has paid nothing.
LEMMA FreshKept ==
  ASSUME IInv, NEW s \in Sessions, NEW x, x.paid = {}, sess' = [sess EXCEPT ![s] = x]
  PROVE  BatchesKept
<1>1. sess \in [Sessions -> Session]
  BY DEF IInv, TypeOK
<1>2. sess'[s] = x
  BY <1>1
<1>3. sess' = [sess EXCEPT ![s] = sess'[s]]
  BY <1>2
<1> QED BY <1>1, <1>2, <1>3, OthersKept DEF BatchKept

LEMMA CreatedKept ==
  ASSUME IInv, NEW q \in Requests, UserBegins(q)
  PROVE  Kept /\ UNCHANGED money
<1>1. q \in Sessions
  BY DEF Sessions
<1>2. CASE OpenTransfer(q)
  <2>1. PICK t \in Transfers, op \in {"accept", "decline", "cancel", "update"} :
          sess' = [sess EXCEPT ![q] =
            [Idle EXCEPT !.pc = "read", !.op = op, !.id = t, !.seen = rows[t]]]
    BY <1>2 DEF OpenTransfer
  <2>2. [Idle EXCEPT !.pc = "read", !.op = op, !.id = t, !.seen = rows[t]].paid = {}
    BY DEF Idle
  <2>3. UNCHANGED <<rows, money>>
    BY <1>2 DEF OpenTransfer
  <2> QED BY <1>1, <2>1, <2>2, <2>3, FreshKept, RowsKept DEF Kept
<1>3. CASE CreateDirect(q)
  <2>1. PICK t \in Transfers, d \in Drafts :
          /\ Created(q, t, d, "PENDING", q)
          /\ sess' = [sess EXCEPT ![q] = [Idle EXCEPT !.pc = "pay", !.op = "create", !.id = t]]
    BY <1>3 DEF CreateDirect
  <2>2. [Idle EXCEPT !.pc = "pay", !.op = "create", !.id = t].paid = {}
    BY DEF Idle
  <2>3. OrdersKept /\ UNCHANGED money
    BY <2>1, InsertKept DEF Created, Fresh
  <2> QED BY <1>1, <2>1, <2>2, <2>3, FreshKept DEF Kept
<1>4. CASE CreateSchedule(q) \/ CreateOffer(q)
  <2>1. UNCHANGED sess
    BY <1>4 DEF CreateSchedule, CreateOffer
  <2>2. PICK t \in Transfers, d \in Drafts, status \in Statuses : Created(q, t, d, status, None)
    BY <1>4 DEF CreateSchedule, CreateOffer, Statuses
  <2>3. OrdersKept /\ UNCHANGED money
    BY <2>2, InsertKept DEF Created, Fresh
  <2> QED BY <2>1, <2>3 DEF Kept, BatchesKept, BatchKept
<1> QED BY <1>2, <1>3, <1>4 DEF UserBegins

LEMMA AcceptKept ==
  ASSUME IInv, NEW q \in Requests, LockOffer(q) \/ RefuseAccept(q)
  PROVE  Kept /\ UNCHANGED money
<1>1. q \in Sessions
  BY DEF Sessions
<1>2. UNCHANGED <<rows, money>>
  BY DEF LockOffer, RefuseAccept
<1>3. CASE LockOffer(q)
  <2>1. sess' = [sess EXCEPT ![q].pc = "pay"]
    BY <1>3 DEF LockOffer
  <2>2. BatchesKept
    BY <1>1, <2>1 DEF BatchesKept, BatchKept, IInv, TypeOK, Session
  <2> QED BY <1>2, <2>2, RowsKept DEF Kept
<1>4. CASE RefuseAccept(q)
  BY <1>1, <1>2, <1>4, IdleFields, FreshKept, RowsKept DEF Kept, RefuseAccept
<1> QED BY <1>3, <1>4

LEMMA LockPoolKept ==
  ASSUME IInv, NEW s \in Sessions, LockPool(s)
  PROVE  Kept /\ UNCHANGED money
<1> DEFINE p == NextPool(s)
<1>1. /\ sess' = [sess EXCEPT ![s].bal[p] = total[p]]
      /\ UNCHANGED <<rows, money>>
  BY DEF LockPool
<1>2. p \in Pools /\ poolLock[p] # s
  BY NextPoolIsLowest DEF LockPool, IInv, SessionsOK
<1> HIDE DEF p
<1>3. sess[s] \in Session /\ sess \in [Sessions -> Session]
  BY DEF IInv, TypeOK
<1> DEFINE b == [sess[s].bal EXCEPT ![p] = total[p]]
           x == [sess[s] EXCEPT !.bal = b]
<1>4. sess' = [sess EXCEPT ![s] = x]
  BY <1>1, <1>3
<1>5. x.paid = sess[s].paid /\ x.delta = sess[s].delta /\ x.seen = sess[s].seen /\ x.bal = b
  BY <1>3 DEF Session
<1> HIDE DEF x
<1>6. ASSUME sess[s].paid # {} PROVE b[sess[s].seen.from] = sess[s].bal[sess[s].seen.from]
  <2>1. poolLock[sess[s].seen.from] = s
    BY <1>6 DEF IInv, SessionsOK, SessionOK, Holding
  <2> QED BY <1>2, <2>1
<1>7. sess'[s] = x
  BY <1>3, <1>4
<1>8. BatchKept(s)
  BY <1>5, <1>6, <1>7 DEF BatchKept
<1> QED BY <1>1, <1>3, <1>4, <1>7, <1>8, OthersKept, RowsKept DEF Kept

LEMMA RollbackStepKept ==
  ASSUME IInv, NEW s \in Sessions,
         \/ RefusePayment(s) \/ AbortRequest(s)
         \/ s \in Ticks /\ (FailParent(s) \/ CrashTick(s))
  PROVE  Kept /\ UNCHANGED money
<1>1. Rollback(s) /\ UNCHANGED money
  BY DEF RefusePayment, AbortRequest, FailParent, CrashTick, Rollback
<1>2. \/ sess' = [sess EXCEPT ![s] = Idle]
      \/ sess' = [sess EXCEPT ![s] = BackToScan(sess[s])]
  BY DEF RefusePayment, AbortRequest, FailParent, CrashTick, NextParent
<1>3. Idle.paid = {} /\ BackToScan(sess[s]).paid = {}
  BY DEF BackToScan, Idle
<1> QED BY <1>1, <1>2, <1>3, FreshKept, RollbackKept DEF Kept

LEMMA WrittenKept ==
  ASSUME IInv, NEW q \in Requests, NEW t \in Transfers, t = sess[q].id, Committed(t),
         NEW row, Written(q, row), row.status # "ABSENT", row.by = None,
         ~rows[t].recurring => /\ ~row.recurring /\ row.amount = rows[t].amount
                               /\ row.from = rows[t].from /\ row.to = rows[t].to
  PROVE  Kept /\ UNCHANGED money
<1>1. q \in Sessions
  BY DEF Sessions
<1>2. /\ rows' = [rows EXCEPT ![t] = row] /\ sess' = [sess EXCEPT ![q] = Idle]
      /\ UNCHANGED money
  BY DEF Written
<1>3. OrdersKept
  BY <1>2 DEF OrdersKept, OrderKept, Committed, IInv, TypeOK
<1> QED BY <1>1, <1>2, <1>3, IdleFields, FreshKept DEF Kept

LEMMA AnsweredKept ==
  ASSUME IInv, NEW q \in Requests,
         DeclineTransfer(q) \/ CancelTransfer(q) \/ UpdateTransfer(q)
  PROVE  Kept /\ UNCHANGED money
<1>1. sess[q].pc = "read"
  BY DEF DeclineTransfer, CancelTransfer, UpdateTransfer, Read
<1>2. PICK t \in Transfers : t = sess[q].id
  BY <1>1 DEF IInv, SessionsOK, SessionOK, Reading, Sessions
<1>3. /\ Committed(t) /\ rows[t] \in Row
      /\ sess[q].op = "update" => rows[t].recurring
  BY <1>1, <1>2, StateTypes DEF IInv, SessionsOK, SessionOK, Reading, Sessions
<1>4. CASE DeclineTransfer(q)
  <2> DEFINE row == [rows[t] EXCEPT !.status = "CANCELLED"]
  <2>1. Written(q, row)
    BY <1>2, <1>4 DEF DeclineTransfer
  <2>2. /\ row.status = "CANCELLED" /\ row.by = None /\ row.recurring = rows[t].recurring
        /\ row.amount = rows[t].amount /\ row.from = rows[t].from /\ row.to = rows[t].to
    BY <1>3 DEF Row, Committed
  <2> HIDE DEF row
  <2> QED BY <1>2, <1>3, <2>1, <2>2, WrittenKept
<1>5. CASE CancelTransfer(q)
  <2> DEFINE due == IF sess[q].seen.recurring THEN None ELSE rows[t].due
             row == [rows[t] EXCEPT !.status = "CANCELLED", !.due = due]
  <2>1. Written(q, row)
    BY <1>2, <1>5 DEF CancelTransfer
  <2>2. /\ row.status = "CANCELLED" /\ row.by = None /\ row.recurring = rows[t].recurring
        /\ row.amount = rows[t].amount /\ row.from = rows[t].from /\ row.to = rows[t].to
    BY <1>3 DEF Row, Committed
  <2> HIDE DEF row
  <2> QED BY <1>2, <1>3, <2>1, <2>2, WrittenKept
<1>6. CASE UpdateTransfer(q)
  <2> DEFINE seen == sess[q].seen
             row(ed) == [rows[t] EXCEPT
               !.due = IF ed.due \notin {None, seen.due} THEN ed.due ELSE rows[t].due,
               !.end = IF ed.end_sent /\ ed.end # seen.end THEN ed.end ELSE rows[t].end,
               !.amount = IF ed.amount \notin {0, seen.amount} THEN ed.amount ELSE rows[t].amount]
  <2>1. PICK ed \in Edits : Written(q, row(ed))
    BY <1>2, <1>6 DEF UpdateTransfer
  <2>2. row(ed).status = rows[t].status /\ row(ed).by = None
    BY <1>3 DEF Row, Committed
  <2>3. rows[t].recurring
    BY <1>3, <1>6 DEF UpdateTransfer, Read
  <2> HIDE DEF row
  <2> QED BY <1>2, <1>3, <2>1, <2>2, <2>3, WrittenKept DEF Committed
<1> QED BY <1>4, <1>5, <1>6

LEMMA ScanKept ==
  ASSUME IInv, NEW w \in Ticks,
         \/ \E force \in Forcing : StartTick(w, force)
         \/ TakeParent(w) \/ SkipParent(w) \/ EndTick(w) \/ LoseAdvisory(w)
  PROVE  Kept /\ UNCHANGED money
<1>1. w \in Sessions /\ sess \in [Sessions -> Session] /\ sess[w] \in Session
  BY DEF Sessions, IInv, TypeOK
<1>2. UNCHANGED <<rows, money>>
  BY DEF StartTick, TakeParent, SkipParent, EndTick, LoseAdvisory
<1>3. BatchesKept
  <2>1. CASE \E force \in Forcing : StartTick(w, force)
    <3>1. PICK force \in Forcing, todo \in SUBSET Transfers :
            sess' = [sess EXCEPT ![w] = [Idle EXCEPT !.pc = "scan", !.now = clock,
                                                     !.force = force, !.todo = todo]]
      BY <2>1 DEF StartTick
    <3>2. [Idle EXCEPT !.pc = "scan", !.now = clock, !.force = force, !.todo = todo].paid = {}
      BY DEF Idle
    <3> QED BY <1>1, <3>1, <3>2, FreshKept
  <2>2. CASE TakeParent(w) \/ SkipParent(w)
    <3>1. sess[w].paid = {}
      BY <1>1, <2>2, OutsideIsEmpty DEF TakeParent, SkipParent, IInv, SessionsOK
    <3>2. PICK t \in sess[w].todo :
            \/ sess' = [sess EXCEPT ![w].todo = @ \ {t}]
            \/ sess' = [sess EXCEPT ![w].pc = "run", ![w].todo = @ \ {t},
                                    ![w].parent = t, ![w].seen = rows[t]]
      BY <2>2 DEF TakeParent, SkipParent
    <3> DEFINE a == [sess[w] EXCEPT !.todo = sess[w].todo \ {t}]
               b == [sess[w] EXCEPT !.pc = "run", !.todo = sess[w].todo \ {t},
                                    !.parent = t, !.seen = rows[t]]
    <3>3. a.paid = {} /\ b.paid = {}
      BY <1>1, <3>1 DEF Session
    <3>4. sess' = [sess EXCEPT ![w] = a] \/ sess' = [sess EXCEPT ![w] = b]
      BY <1>1, <3>2
    <3> HIDE DEF a, b
    <3> QED BY <1>1, <3>3, <3>4, FreshKept
  <2>3. CASE EndTick(w)
    BY <1>1, <2>3, IdleFields, FreshKept DEF EndTick
  <2>4. CASE LoseAdvisory(w)
    BY <2>4 DEF LoseAdvisory, BatchesKept, BatchKept
  <2> QED BY <2>1, <2>2, <2>3, <2>4
<1> QED BY <1>2, <1>3, RowsKept DEF Kept

\* The row a tick pays or fails keeps what it orders.
LEMMA StatusKept ==
  ASSUME IInv, NEW w \in Ticks, sess[w].pc = "pay", NEW t \in Transfers, t = sess[w].id,
         NEW status \in {"COMPLETED", "FAILED"},
         rows' = [rows EXCEPT ![t].status = status], UNCHANGED money
  PROVE  OrdersKept
<1>1. /\ rows'[t].amount = rows[t].amount /\ rows'[t].by = w
      /\ rows'[t].from = rows[t].from /\ rows'[t].to = rows[t].to
      /\ \A u \in Transfers \ {t} : rows'[u] = rows[u]
      /\ rows[t].by = w
  BY StatusStep
<1>2. rows'[t].recurring = rows[t].recurring
  BY StateTypes DEF IInv, TypeOK, Row
<1>3. w # None
  BY Constants DEF Sessions
<1> QED BY <1>1, <1>2, <1>3 DEF OrdersKept, OrderKept, Committed

LEMMA ChildKept ==
  ASSUME IInv, NEW w \in Ticks,
         RunDirect(w) \/ RunOffer(w) \/ RepeatPeriod(w) \/ FailChild(w)
  PROVE  Kept /\ UNCHANGED money
<1>1. sess[w].pc \in {"run", "pay"}
  BY DEF RunDirect, RunOffer, InsertChild, RepeatPeriod, LoopRuns, FailChild, CanPay
<1>2. /\ w \in Sessions /\ sess \in [Sessions -> Session] /\ sess[w] \in Session
      /\ sess[w].seen \in Row /\ sess[w].seen.due \in Day
  BY <1>1, RunFacts DEF IInv, TypeOK
<1>3. /\ Stepped(sess[w].seen).from = sess[w].seen.from
      /\ Stepped(sess[w].seen).to = sess[w].seen.to
  BY <1>2, SteppedType
<1>4. ASSUME NEW x \in Session, sess' = [sess EXCEPT ![w] = x], x.paid = sess[w].paid,
             x.delta = sess[w].delta, x.bal = sess[w].bal,
             x.seen.from = sess[w].seen.from, x.seen.to = sess[w].seen.to
      PROVE  BatchesKept
  <2>1. sess'[w] = x /\ sess' = [sess EXCEPT ![w] = sess'[w]]
    BY <1>2, <1>4
  <2>2. BatchKept(w)
    BY <1>4, <2>1 DEF BatchKept
  <2> QED BY <1>2, <2>1, <2>2, OthersKept
<1>5. CASE RunDirect(w) \/ RunOffer(w)
  <2>1. PICK t \in Transfers, pc \in {"run", "pay"} : InsertChild(w, t, pc, 1)
    BY <1>5 DEF RunDirect, RunOffer
  <2> DEFINE x == [sess[w] EXCEPT !.pc = pc, !.id = t, !.made = sess[w].made + 1,
                                  !.seen = Stepped(sess[w].seen)]
  <2>2. /\ sess' = [sess EXCEPT ![w] = x] /\ UNCHANGED money
        /\ rows[t].status = "ABSENT" /\ sess[w].made < MaxCatchUp
    BY <2>1 DEF InsertChild, Fresh, LoopRuns
  <2>3. OrdersKept
    BY <2>1, InsertKept DEF InsertChild, Fresh
  <2>4. sess[w].made + 1 \in 0..MaxCatchUp /\ Stepped(sess[w].seen) \in Row
    BY <1>2, <2>2, SteppedType, NumberAssumption DEF Session
  <2>5. /\ x \in Session /\ x.paid = sess[w].paid /\ x.delta = sess[w].delta
        /\ x.bal = sess[w].bal /\ x.seen = Stepped(sess[w].seen)
    BY <1>2, <2>4 DEF Session
  <2> HIDE DEF x
  <2> QED BY <1>3, <1>4, <2>2, <2>3, <2>5 DEF Kept
<1>6. CASE RepeatPeriod(w)
  <2> DEFINE x == [sess[w] EXCEPT !.seen = Stepped(sess[w].seen)]
  <2>1. sess' = [sess EXCEPT ![w] = x] /\ UNCHANGED <<rows, money>>
    BY <1>6 DEF RepeatPeriod
  <2>2. Stepped(sess[w].seen) \in Row
    BY <1>2, SteppedType
  <2>3. /\ x \in Session /\ x.paid = sess[w].paid /\ x.delta = sess[w].delta
        /\ x.bal = sess[w].bal /\ x.seen = Stepped(sess[w].seen)
    BY <1>2, <2>2 DEF Session
  <2> HIDE DEF x
  <2> QED BY <1>3, <1>4, <2>1, <2>3, RowsKept DEF Kept
<1>7. CASE FailChild(w)
  <2> DEFINE x == [sess[w] EXCEPT !.pc = "run", !.id = None]
  <2>1. sess' = [sess EXCEPT ![w] = x] /\ UNCHANGED money
    BY <1>2, <1>7 DEF FailChild
  <2>2. x \in Session /\ x.paid = sess[w].paid /\ x.delta = sess[w].delta
        /\ x.bal = sess[w].bal /\ x.seen = sess[w].seen
    BY <1>2, Constants DEF Session
  <2> HIDE DEF x
  <2>3. sess[w].pc = "pay"
    BY <1>7 DEF FailChild, CanPay
  <2>4. PICK t \in Transfers : t = sess[w].id
    BY <1>1, <2>3, RunFacts DEF SessionOK, Paying
  <2>5. rows' = [rows EXCEPT ![t].status = "FAILED"]
    BY <1>7, <2>4 DEF FailChild
  <2>6. OrdersKept
    BY <2>1, <2>3, <2>4, <2>5, StatusKept
  <2> QED BY <1>4, <2>1, <2>2, <2>6 DEF Kept
<1> QED BY <1>5, <1>6, <1>7

\* A batch that grows by a child: the sums grow by its amount, and the balance
\* was checked against it.
LEMMA PayChildBatches ==
  ASSUME RInv, IInv', NEW w \in Ticks, PayChild(w)
  PROVE  OrdersKept /\ BatchesOK' /\ UNCHANGED money
<1> IInv /\ BatchesOK /\ TypeOK
  BY DEF RInv, IInv
<1>1. sess[w].pc = "pay" /\ CanPay(w) /\ Enough(w)
  BY DEF PayChild, CanPay
<1>2. /\ w \in Sessions /\ SessionOK(w) /\ sess[w] \in Session /\ Running(w)
      /\ sess \in [Sessions -> Session]
  BY <1>1, RunFacts DEF TypeOK
<1>3. PICK t \in Transfers : t = sess[w].id
  BY <1>1, <1>2 DEF SessionOK, Paying
<1> DEFINE row == rows[t]
           from == sess[w].seen.from
           to == sess[w].seen.to
           paid == sess[w].paid
           bal == Movement(sess[w].bal, row)
           delta == Movement(sess[w].delta, row)
           x == [sess[w] EXCEPT !.pc = "run", !.id = None, !.paid = paid \cup {t},
                                !.bal = bal, !.delta = delta]
<1>4. /\ rows' = [rows EXCEPT ![t].status = "COMPLETED"]
      /\ sess' = [sess EXCEPT ![w] = x]
      /\ UNCHANGED money
  BY <1>3 DEF PayChild
<1>5. /\ row.amount \in Nat /\ row.from = from /\ row.to = to
      /\ from # to /\ from \in Pools /\ to \in Pools
      /\ sess[w].bal \in [Pools -> Int] /\ sess[w].delta \in [Pools -> Int]
      /\ paid \subseteq Transfers /\ t \notin paid /\ row.status = "PENDING"
  BY <1>1, <1>2, <1>3, PaidPools, SessionType DEF Running, SessionOK, Paying
<1>6. /\ bal \in [Pools -> Int] /\ delta \in [Pools -> Int]
      /\ bal[from] = sess[w].bal[from] - row.amount
      /\ delta[from] = sess[w].delta[from] - row.amount
      /\ delta[to] = sess[w].delta[to] + row.amount
  BY <1>1, <1>2, <1>3, <1>5, PaidPools
<1>7. sess[w].bal[from] >= row.amount
  BY <1>1, <1>3, <1>5 DEF Enough
<1> HIDE DEF bal, delta
<1>8. /\ x.paid = paid \cup {t} /\ x.bal = bal /\ x.delta = delta
      /\ x.seen.from = from /\ x.seen.to = to
  BY <1>2 DEF Session
<1> HIDE DEF x
<1>9. sess'[w] = x /\ \A u \in Sessions \ {w} : BatchKept(u)
  BY <1>2, <1>4 DEF BatchKept
<1>10. OrdersKept
  BY <1>1, <1>3, <1>4, StatusKept
<1>11. \A u \in Sessions \ {w} : BatchOK(u)'
  BY <1>9, <1>10, KeptBatch
<1>12. Amounts'[t] = row.amount
  BY <1>1, <1>3, <1>4, StatusStep DEF Amounts
<1>13. BatchOK(w)
  BY <1>2 DEF BatchesOK
<1>14. IsFiniteSet(paid) /\ IsFiniteSet(paid \cup {t})
  BY <1>13, FS_AddElement DEF BatchOK
<1>15. SumOf(Amounts', paid) = SumOf(Amounts, paid)
  <2>1. paid \subseteq sess'[w].paid
    BY <1>8, <1>9
  <2> QED BY <1>2, <1>10, <1>14, <2>1, PaidAmounts
<1>16. \A u \in Transfers : Amounts'[u] \in Int
  <2>1. \A u \in Transfers : rows'[u] \in Row
    BY DEF IInv, TypeOK
  <2> QED BY <2>1, RowType DEF Amounts
<1>17. SumOf(Amounts', paid \cup {t}) = SumOf(Amounts', paid) + row.amount
  <2>1. \A u \in paid \cup {t} : Amounts'[u] \in Int
    BY <1>5, <1>16
  <2> HIDE DEF Amounts, row, paid
  <2> QED BY <1>5, <1>12, <1>14, <2>1, SumAdd
<1>18. SumOf(Amounts', paid) \in Int
  <2>1. \A u \in paid : Amounts'[u] \in Int
    BY <1>5, <1>16
  <2> HIDE DEF Amounts, paid
  <2> QED BY <1>14, <2>1, SumInt
<1>19. /\ sess[w].delta[from] = 0 - SumOf(Amounts', paid)
       /\ sess[w].delta[to] = SumOf(Amounts', paid)
  <2>1. CASE paid = {}
    <3>1. SumOf(Amounts', paid) = 0
      BY <2>1, SumEmpty
    <3>2. sess[w].delta[from] = 0 /\ sess[w].delta[to] = 0
      BY <1>2, <1>5, <2>1 DEF SessionOK, Holding
    <3> QED BY <3>1, <3>2
  <2>2. CASE paid # {}
    BY <1>13, <1>15, <2>2 DEF BatchOK
  <2> QED BY <2>1, <2>2
<1> DEFINE sum == SumOf(Amounts', paid)
<1>20. BatchOK(w)'
  <2>1. sess[w].bal[from] \in Int
    BY <1>5
  <2> HIDE DEF sum, Amounts, row, from, to, paid
  <2>2. delta[from] = 0 - (sum + row.amount) /\ delta[to] = sum + row.amount /\ bal[from] >= 0
    BY <1>5, <1>6, <1>7, <1>18, <1>19, <2>1 DEF sum
  <2> QED BY <1>8, <1>9, <1>14, <1>17, <2>2 DEF BatchOK, sum
<1> QED BY <1>4, <1>10, <1>11, <1>20 DEF BatchesOK

-----------------------------------------------------------------------------
(* The mapping.                                                            *)

\* The sum of the abstract specification is the one the lemmas are about.
LEMMA SameSum ==
  ASSUME NEW f, NEW S
  PROVE  Service!SumOf(f, S) = SumOf(f, S)
BY DEF Service!SumOf, SumOf, Service!MapThenSumSet, MapThenSumSet,
       Service!MapThenFoldSet, MapThenFoldSet

\* Orders that are placed stay as they are.
LEMMA KeptPlaces ==
  ASSUME OrdersKept
  PROVE  Service!Place
<1> SUFFICES ASSUME NEW t \in Transfers, Order[t] # None
             PROVE  Order'[t] = Order[t]
  BY DEF Service!Place
<1>1. Committed(t) /\ ~rows[t].recurring
  BY DEF Order
<1>2. Committed(t)' /\ ~rows'[t].recurring
      /\ rows'[t].amount = rows[t].amount
      /\ rows'[t].from = rows[t].from /\ rows'[t].to = rows[t].to
  BY <1>1 DEF OrdersKept, OrderKept, Committed
<1> QED BY <1>1, <1>2 DEF Order

\* A step that moves no money places orders.
LEMMA PlaceStep ==
  ASSUME OrdersKept, UNCHANGED money
  PROVE  Service!Next
BY KeptPlaces DEF Service!Next, money, Paid

\* What it takes for a step to pay the orders of the rows of S, all from pool a
\* to pool b.
LEMMA SettleStep ==
  ASSUME TypeOK, TypeOK', OrdersKept, NEW a \in Pools, NEW b \in Pools, a # b,
         NEW S \in SUBSET Transfers, S # {}, IsFiniteSet(S),
         \A t \in S : /\ moved[t] = 0 /\ moved'[t] = 1
                      /\ Committed(t)' /\ ~rows'[t].recurring
                      /\ rows'[t].from = a /\ rows'[t].to = b,
         \A t \in Transfers \ S : moved'[t] = moved[t],
         NEW sum, sum = SumOf(Amounts', S), total[a] >= sum,
         total' = [total EXCEPT ![a] = @ - sum, ![b] = @ + sum]
  PROVE  Service!Next
<1>1. Paid' \ Paid = S
  <2>1. \A t \in Transfers : t \in Paid' \ Paid <=> t \in S
    BY DEF Paid, TypeOK
  <2> QED BY <2>1 DEF Paid
<1>2. Paid \subseteq Paid'
  BY DEF Paid, TypeOK
<1>3. ASSUME NEW t \in S
      PROVE  /\ Order'[t] # None /\ Order'[t].from = a /\ Order'[t].to = b
             /\ Order'[t].amount = Amounts'[t]
  <2>1. Order'[t] = [from |-> a, to |-> b, amount |-> rows'[t].amount]
    BY DEF Order
  <2>2. rows'[t].amount \in Nat
    BY RowType DEF TypeOK
  <2> QED BY <2>1, <2>2, NoneAssumption DEF Amounts
<1>4. sum = SumOf([t \in S |-> Order'[t].amount], S)
  <2> DEFINE f == [t \in S |-> Order'[t].amount]
  <2>1. \A t \in S : f[t] = Amounts'[t]
    BY <1>3
  <2> HIDE DEF f, Amounts
  <2>2. SumOf(f, S) = SumOf(Amounts', S)
    BY <2>1, SumSame
  <2> QED BY <2>2 DEF f
<1>5. Service!Settle(a, b)
  <2> DEFINE fresh == Paid' \ Paid
  <2>1. fresh # {} /\ \A t \in fresh : Order'[t] # None /\ Order'[t].from = a /\ Order'[t].to = b
    BY <1>1, <1>3
  <2>2. SumOf([t \in fresh |-> Order'[t].amount], fresh) = sum
    BY <1>1, <1>4
  <2> DEFINE all == Service!SumOf([t \in fresh |-> Order'[t].amount], fresh)
  <2>3. total[a] >= all /\ total' = [total EXCEPT ![a] = @ - all, ![b] = @ + all]
    BY <2>2, SameSum
  <2> QED BY <2>1, <2>3 DEF Service!Settle
<1> QED BY <1>2, <1>5, KeptPlaces DEF Service!Next

\* What a state-changing step has to show for the invariant and the mapping.
Maps == BatchesOK' /\ Service!Next

LEMMA KeptMaps ==
  ASSUME RInv, IInv', Kept, UNCHANGED money
  PROVE  Maps
<1>1. BatchesOK'
  BY KeptBatch DEF Kept, BatchesKept, BatchesOK
<1> QED BY <1>1, PlaceStep DEF Kept, Maps

\* The commit of a request pays one order.
LEMMA PayRequestMaps ==
  ASSUME RInv, IInv', NEW q \in Requests, PayRequest(q)
  PROVE  Maps
<1> IInv /\ TypeOK /\ TypeOK' /\ RowsOK /\ MovedOK /\ SessionsOK
  BY DEF RInv, IInv
<1>1. /\ q \in Sessions /\ q \notin Ticks /\ sess[q].pc = "pay" /\ CanPay(q) /\ Enough(q)
      /\ sess[q] \in Session /\ SessionOK(q)
  BY SessionAssumption, StateTypes DEF Sessions, PayRequest, CanPay, SessionsOK
<1>2. PICK t \in Transfers : t = sess[q].id
  BY <1>1 DEF SessionOK, Paying
<1> DEFINE row == rows[t]
           bal == sess[q].bal
           paidRow == [row EXCEPT !.status = "COMPLETED", !.by = None]
<1>3. /\ row \in Row /\ row.amount \in Nat
      /\ row.from \in Pools /\ row.to \in Pools /\ row.from # row.to
      /\ row.status = "PENDING" /\ ~row.recurring
      /\ poolLock[row.from] = q /\ poolLock[row.to] = q
      /\ bal \in [Pools -> Int] /\ total \in [Pools -> Int]
  BY <1>1, <1>2, PaidPools, SessionType DEF TypeOK
<1>4. /\ rows' = [rows EXCEPT ![t] = paidRow]
      /\ moved' = [moved EXCEPT ![t] = moved[t] + 1]
      /\ total' = Settled(q, Movement(bal, row))
      /\ sess' = [sess EXCEPT ![q] = Idle]
  BY <1>2, <1>3 DEF PayRequest, TypeOK
<1>5. /\ paidRow.status = "COMPLETED" /\ paidRow.by = None
      /\ paidRow.from = row.from /\ paidRow.to = row.to
      /\ paidRow.amount = row.amount /\ paidRow.recurring = row.recurring
  BY <1>3 DEF Row, Statuses
<1> HIDE DEF paidRow
<1>6. /\ rows'[t] = paidRow /\ (\A u \in Transfers \ {t} : rows'[u] = rows[u])
      /\ moved'[t] = moved[t] + 1 /\ (\A u \in Transfers \ {t} : moved'[u] = moved[u])
  BY <1>4 DEF TypeOK
<1>7. OrdersKept
  BY <1>3, <1>5, <1>6 DEF OrdersKept, OrderKept, Committed
<1>8. BatchesKept
  BY <1>1, <1>4, IdleFields, FreshKept
<1>9. sess[q].paid = {}
  BY <1>1 DEF SessionOK, Inserted, Paying
<1>10. \A p \in Pools : poolLock[p] = q => bal[p] = total[p]
  BY <1>1, <1>3, <1>9 DEF SessionOK, Holding, Balanced
<1>11. \A p \in Pools : poolLock[p] = q => p \in {row.from, row.to}
  BY <1>1, <1>2 DEF SessionOK, Holding, HoldsInOrder
<1>12. \A p \in Pools :
         Movement(bal, row)[p] = CASE p = row.from -> bal[p] - row.amount
                                   [] p = row.to -> bal[p] + row.amount
                                   [] OTHER -> bal[p]
  BY <1>1, <1>2, <1>3, PaidPools
<1>13. \A p \in Pools : total'[p] = IF poolLock[p] = q THEN Movement(bal, row)[p] ELSE total[p]
  BY <1>4 DEF Settled
<1>14. bal[row.from] >= row.amount
  BY <1>1, <1>2 DEF Enough
<1>15. moved[t] = 0
  BY <1>3 DEF MovedOK
<1> DEFINE a == row.from
           b == row.to
           sum == row.amount
<1>16. total' = [total EXCEPT ![a] = @ - sum, ![b] = @ + sum]
  <2>1. total' = [p \in Pools |-> total'[p]] /\ total = [p \in Pools |-> total[p]]
    BY DEF TypeOK
  <2> HIDE DEF row, bal
  <2> QED BY <1>3, <1>10, <1>11, <1>12, <1>13, <2>1
<1>17. sum = SumOf(Amounts', {t})
  <2>1. Amounts'[t] = sum /\ Amounts'[t] \in Int
    BY <1>3, <1>5, <1>6 DEF Amounts
  <2> HIDE DEF Amounts, sum
  <2>2. SumOf(Amounts', {t}) = Amounts'[t]
    BY <2>1, SumOne
  <2> QED BY <2>1, <2>2
<1>18. Service!Next
  <2> DEFINE S == {t}
  <2>1. S # {} /\ IsFiniteSet(S) /\ S \in SUBSET Transfers
    BY FS_Singleton
  <2>2. \A u \in S : /\ moved[u] = 0 /\ moved'[u] = 1
                     /\ Committed(u)' /\ ~rows'[u].recurring
                     /\ rows'[u].from = a /\ rows'[u].to = b
    BY <1>3, <1>5, <1>6, <1>15 DEF Committed
  <2>3. \A u \in Transfers \ S : moved'[u] = moved[u]
    BY <1>6
  <2>4. a \in Pools /\ b \in Pools /\ a # b /\ total[a] >= sum
    BY <1>3, <1>10, <1>14
  <2> HIDE DEF row, S, Amounts, sum, a, b
  <2>5. sum = SumOf(Amounts', S)
    BY <1>17 DEF S
  <2> QED BY <1>7, <1>16, <2>1, <2>2, <2>3, <2>4, <2>5, SettleStep
<1>19. BatchesOK'
  BY <1>7, <1>8, KeptBatch DEF BatchesKept, BatchesOK
<1> QED BY <1>18, <1>19 DEF Maps

\* The commit of a schedule pays the children it paid, together; when it paid
\* none it has locked no pool and moves nothing.
LEMMA CommitParentMaps ==
  ASSUME RInv, IInv', NEW w \in Ticks, CommitParent(w)
  PROVE  Maps
<1> IInv /\ TypeOK /\ TypeOK' /\ RowsOK /\ MovedOK /\ SessionsOK
  BY DEF RInv, IInv
<1>1. /\ w \in Sessions /\ SessionOK(w) /\ sess[w] \in Session /\ Running(w) /\ w # None
      /\ sess[w].seen.from \in Pools /\ sess[w].seen.to \in Pools
      /\ sess[w].seen.from # sess[w].seen.to
      /\ sess[w].bal \in [Pools -> Int] /\ sess[w].delta \in [Pools -> Int]
      /\ sess[w].paid \in SUBSET Transfers /\ sess[w].pc = "run"
  BY RunFacts, SessionType, Constants DEF CommitParent
<1>2. PICK p \in Transfers : p = sess[w].parent
  BY <1>1 DEF Running
<1> DEFINE a == sess[w].seen.from
           b == sess[w].seen.to
           S == sess[w].paid
           bal == sess[w].bal
           delta == sess[w].delta
<1>3. /\ moved' = [t \in Transfers |-> IF t \in S THEN moved[t] + 1 ELSE moved[t]]
      /\ total' = Settled(w, bal)
      /\ sess' = [sess EXCEPT ![w] = BackToScan(sess[w])]
  BY DEF CommitParent
<1>4. /\ rows[p].by = None /\ rows[p].status = "ACTIVE" /\ rows[p].recurring
      /\ rows'[p].status \in {"ACTIVE", "COMPLETED"} /\ rows'[p].by = None
      /\ \A t \in Transfers \ {p} : rows[t].by # w => rows'[t] = rows[t]
      /\ \A t \in Transfers \ {p} : rows[t].by = w =>
           /\ rows'[t].by = None /\ rows'[t].status = rows[t].status
           /\ rows'[t].from = rows[t].from /\ rows'[t].to = rows[t].to
           /\ rows'[t].recurring = rows[t].recurring /\ rows'[t].amount = rows[t].amount
  BY <1>2, CommitRows
<1>5. OrdersKept
  BY <1>4 DEF OrdersKept, OrderKept, Committed
<1>6. BatchesKept
  <2>1. BackToScan(sess[w]).paid = {}
    BY DEF BackToScan, Idle
  <2> QED BY <1>1, <1>3, <2>1, FreshKept
<1>7. BatchesOK'
  BY <1>5, <1>6, KeptBatch DEF BatchesKept, BatchesOK
<1>8. \A o \in Pools : total'[o] = IF poolLock[o] = w THEN bal[o] ELSE total[o]
  BY <1>3 DEF Settled
<1>9. \A o \in Pools : poolLock[o] = w =>
        S # {} /\ o \in {a, b} /\ bal[o] = total[o] + delta[o]
  BY <1>1 DEF SessionOK, Holding, Balanced
<1>10. total \in [Pools -> Int] /\ total' \in [Pools -> Int]
  BY DEF TypeOK
<1>11. CASE S = {}
  <2>1. total' = total
    <3> HIDE DEF bal
    <3> QED BY <1>8, <1>9, <1>10, <1>11
  <2>2. moved' = moved
    BY <1>3, <1>11 DEF TypeOK
  <2> QED BY <1>5, <1>7, <2>1, <2>2, KeptPlaces DEF Maps, Service!Next, Paid
<1>12. CASE S # {}
  <2> DEFINE sum == SumOf(Amounts, S)
  <2>1. /\ IsFiniteSet(S) /\ delta[a] = 0 - sum /\ delta[b] = sum /\ bal[a] >= 0
    BY <1>1, <1>12 DEF RInv, BatchesOK, BatchOK
  <2>2. poolLock[a] = w /\ poolLock[b] = w
    BY <1>1, <1>12 DEF SessionOK, Holding
  <2>3. bal[a] = total[a] + delta[a] /\ bal[b] = total[b] + delta[b]
    BY <1>1, <1>9, <2>2
  <2>4. ASSUME NEW t \in S
        PROVE  /\ t \in Transfers /\ t # p /\ moved[t] = 0 /\ moved'[t] = 1
               /\ Committed(t)' /\ ~rows'[t].recurring
               /\ rows'[t].from = a /\ rows'[t].to = b
               /\ Amounts'[t] = Amounts[t] /\ Amounts[t] \in Int
    <3>1. t \in Transfers /\ rows[t].by = w /\ rows[t].status = "COMPLETED"
      BY <1>1 DEF SessionOK
    <3>2. ~rows[t].recurring /\ moved[t] = 0 /\ rows[t].from = a /\ rows[t].to = b
          /\ rows[t].amount \in Nat
      BY <1>1, <3>1, StateTypes, RowType DEF RowsOK, RowOK, MovedOK, SessionOK, Inserted
    <3>3. t # p
      BY <1>1, <1>4, <3>1
    <3>4. moved'[t] = 1
      BY <1>3, <3>1, <3>2
    <3> QED BY <1>4, <3>1, <3>2, <3>3, <3>4 DEF Committed, Amounts
  <2>5. \A t \in Transfers \ S : moved'[t] = moved[t]
    BY <1>3
  <2>6. SumOf(Amounts', S) = sum /\ sum \in Int
    <3> HIDE DEF S, Amounts
    <3>1. SumOf(Amounts', S) = SumOf(Amounts, S)
      BY <2>1, <2>4, SumSame
    <3>2. SumOf(Amounts, S) \in Int
      BY <2>1, <2>4, SumInt
    <3> QED BY <3>1, <3>2
  <2>7. sum = SumOf(Amounts', S)
    BY <2>6
  <2>8. a \in Pools /\ b \in Pools /\ a # b /\ S \in SUBSET Transfers
    BY <1>1
  <2>9. delta[a] \in Int /\ delta[b] \in Int /\ total[a] \in Int /\ total[b] \in Int
    BY <1>1, <1>10
  <2> HIDE DEF sum, S, a, b, bal, delta, Amounts
  <2>10. total' = [total EXCEPT ![a] = @ - sum, ![b] = @ + sum]
    <3>1. total' = [o \in Pools |-> total'[o]] /\ total = [o \in Pools |-> total[o]]
      BY <1>10
    <3> QED BY <1>8, <1>9, <2>1, <2>2, <2>3, <2>6, <2>8, <2>9, <3>1
  <2>11. total[a] >= sum
    BY <2>1, <2>3, <2>6, <2>9
  <2>12. Service!Next
    BY <1>5, <1>12, <2>1, <2>4, <2>5, <2>7, <2>8, <2>10, <2>11, SettleStep
  <2> QED BY <1>7, <2>12 DEF Maps
<1> QED BY <1>11, <1>12

LEMMA PostElsewhereMaps ==
  ASSUME RInv, IInv', NEW p \in Pools, PostElsewhere(p)
  PROVE  Maps
<1>1. UNCHANGED <<rows, moved, sess>>
  BY DEF PostElsewhere
<1>2. OrdersKept /\ BatchesKept
  BY <1>1, RowsKept DEF BatchesKept, BatchKept
<1>3. BatchesOK'
  BY <1>2, KeptBatch DEF BatchesKept, BatchesOK
<1>4. \A o \in Pools \ {p} : total'[o] = total[o]
  BY DEF PostElsewhere, RInv, IInv, TypeOK
<1>5. UNCHANGED <<Order, Paid>>
  BY <1>1 DEF Order, Paid, Committed
<1> QED BY <1>3, <1>4, <1>5 DEF Maps, Service!Next, Service!Elsewhere

LEMMA PayChildMaps ==
  ASSUME RInv, IInv', NEW w \in Ticks, PayChild(w)
  PROVE  Maps
BY PayChildBatches, PlaceStep DEF Maps

LEMMA StepMaps ==
  ASSUME RInv, IInv', Next
  PROVE  Maps
<1> IInv
  BY DEF RInv
<1>1. Ticks \subseteq Sessions /\ Requests \subseteq Sessions
  BY DEF Sessions
<1>2. CASE Advance
  BY <1>2, KeptMaps, RowsKept DEF Advance, Kept, BatchesKept, BatchKept
<1>3. CASE \E p \in Pools : PostElsewhere(p)
  BY <1>3, PostElsewhereMaps
<1>4. CASE \E w \in Ticks, force \in Forcing : StartTick(w, force)
  BY <1>4, ScanKept, KeptMaps
<1>5. ASSUME NEW w \in Ticks, TickStep(w) PROVE Maps
  BY <1>1, <1>5, ScanKept, ChildKept, LockPoolKept, PayChildMaps, CommitParentMaps, KeptMaps
     DEF TickStep
<1>6. ASSUME NEW w \in Ticks, Fault(w) PROVE Maps
  BY <1>1, <1>6, ScanKept, RollbackStepKept, KeptMaps DEF Fault
<1>7. ASSUME NEW q \in Requests, UserBegins(q) \/ RequestStep(q) \/ AbortRequest(q) PROVE Maps
  BY <1>1, <1>7, CreatedKept, AcceptKept, LockPoolKept, PayRequestMaps, RollbackStepKept,
     AnsweredKept, KeptMaps DEF RequestStep
<1> QED BY <1>2, <1>3, <1>4, <1>5, <1>6, <1>7 DEF Next

\* The service implements the payment of orders.
THEOREM Refinement == Spec => ImplementsPayments
<1>1. Init => BatchesOK /\ Service!Init
  <2> SUFFICES ASSUME Init PROVE BatchesOK /\ Service!Init
    OBVIOUS
  <2>1. BatchesOK
    BY IdleFields, FS_EmptySet DEF Init, BatchesOK, BatchOK
  <2>2. Order = [t \in Transfers |-> None] /\ Paid = {}
    BY DEF Init, Order, Paid, Committed, AbsentRow
  <2> QED BY <2>1, <2>2 DEF Init, Service!Init
<1>2. RInv /\ IInv' /\ [Next]_vars => BatchesOK' /\ [Service!Next]_<<Order, Paid, total>>
  <2> SUFFICES ASSUME RInv, IInv', [Next]_vars
               PROVE  BatchesOK' /\ [Service!Next]_<<Order, Paid, total>>
    OBVIOUS
  <2>1. CASE Next
    BY <2>1, StepMaps DEF Maps
  <2>2. CASE UNCHANGED vars
    <3>1. UNCHANGED <<rows, sess, moved, total>>
      BY <2>2 DEF vars, money
    <3>2. BatchesOK'
      BY <3>1 DEF RInv, BatchesOK, BatchOK, Amounts
    <3>3. UNCHANGED <<Order, Paid, total>>
      BY <3>1 DEF Order, Paid, Committed
    <3> QED BY <3>2, <3>3
  <2> QED BY <2>1, <2>2
<1> QED BY <1>1, <1>2, Invariance, PTL DEF Spec, RInv, ImplementsPayments, Service!Spec
=============================================================================
