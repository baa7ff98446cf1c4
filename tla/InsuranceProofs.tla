--------------------------- MODULE InsuranceProofs ---------------------------
(***************************************************************************)
(* TLAPS proofs about Insurance, for every value of its constants.         *)
(***************************************************************************)
EXTENDS Insurance, SumsProofs, TLAPS

-----------------------------------------------------------------------------
(* The inductive invariant.                                                *)
(*                                                                         *)
(* ChargedOnce is not inductive: a tick charges and an edit cancels what   *)
(* was PENDING when they locked it, and it is PENDING still because they   *)
(* hold its lock.  What a tick has read of its policy holds until it       *)
(* commits because it holds the lock of the policy; and what a session has *)
(* inserted stays new because no other session inserts the same date.      *)

Request == Edits \cup {NothingSent}

\* The dates of the schedule are new.
Fits(rows, schedule) ==
  \A d \in Dates : d \in DOMAIN schedule => rows[d].status = "ABSENT" /\ schedule[d] > 0

\* The dates session s has inserted for p and not yet committed.
Adds(s, p) ==
  IF s \in Ticks
  THEN IF charge[s].at # None /\ charge[s].at[1] = p THEN DOMAIN YearOf(s) ELSE {}
  ELSE IF Scheduling(s, p) THEN DOMAIN NewSchedule(edit[s]) ELSE {}

AddsApart ==
  \A p \in Policies, s \in Sessions, t \in Sessions : s # t => Adds(s, p) \cap Adds(t, p) = {}

\* Only a policy that exists is locked.
HeldExists == \A p \in Policies : policyLock[p] # None => policies[p].status # "ABSENT"

\* What a tick has read of the policy it holds, and inserted for it.
CountOK(w) ==
  LET p == charge[w].at[1] IN
  /\ policyLock[p] = w /\ policies[p].status = "ACTIVE"
  /\ Fits(inst[p], YearOf(w))
  /\ \A x \in charge[w].saw :
       x # charge[w].at[2] /\ inst[p][x].status \in {"PENDING", "CANCELLED"}

Counted(w) == charge[w].phase \in {"COUNTED", "SELECTED"}

\* What a tick lists is due, and what it works on is PENDING and locked by it.
TickOK(w) ==
  /\ \A x \in charge[w].ids : x[2] <= day
  /\ charge[w].at # None <=> charge[w].phase # "IDLE"
  /\ charge[w].at # None =>
       /\ charge[w].at[2] <= day
       /\ rowLock[charge[w].at[1]][charge[w].at[2]] = w
       /\ inst[charge[w].at[1]][charge[w].at[2]].status = "PENDING"
  /\ Counted(w) => CountOK(w)

\* The edit has written the policy before its commit.
Wrote(e) ==
  \/ e.phase = "FLUSHED"
  \/ e.phase \in {"CANCELLING", "READY", "SCHEDULED"} /\ Dirty(e)
  \/ e.phase = "SCHEDULED" /\ WritesSchedule(e)

\* A request has a policy, and a schedule that was checked against what it
\* loaded; what it will cancel is PENDING and locked by it; a policy it has
\* written is locked by it.
EditOK(q) ==
  LET e == edit[q] IN
  /\ e.phase # "IDLE" => /\ e.policy \in Policies /\ e.seen.status # "ABSENT"
                         /\ policies[e.policy].status # "ABSENT"
  /\ Reschedules(e.req) => ValidSchedule(Merged(e.seen, e.req))
  /\ e.phase \in {"IDLE", "LOADED", "FLUSHED"} => e.targets = {}
  /\ e.phase \in {"READY", "SCHEDULED"} => \A d \in e.targets :
       rowLock[e.policy][d] = q /\ inst[e.policy][d].status = "PENDING"
  /\ Wrote(e) => policyLock[e.policy] = q
  /\ e.phase = "SCHEDULED" => Fits(inst[e.policy], NewSchedule(e))

IInv ==
  /\ TypeOK
  /\ ChargedOnce
  /\ OneCollector
  /\ AddsApart
  /\ HeldExists
  /\ \A w \in Ticks : TickOK(w)
  /\ \A q \in Requests : EditOK(q)

-----------------------------------------------------------------------------
(* Types.                                                                  *)

LEMMA StateTypes ==
  ASSUME TypeOK
  PROVE  /\ \A p \in Policies : policies[p] \in PolicyRow
         /\ \A p \in Policies : inst[p] \in [Dates -> InstallmentRow]
         /\ \A p \in Policies, d \in Dates : /\ inst[p][d] \in InstallmentRow
                                             /\ rowLock[p][d] \in Sessions \cup {None}
         /\ \A p \in Policies : policyLock[p] \in Sessions \cup {None}
         /\ day \in Nat
BY InsuranceAssumption DEF TypeOK

LEMMA PolicyType ==
  ASSUME NEW r \in PolicyRow
  PROVE  /\ r.status \in Statuses /\ r.mode \in Modes \cup {"LEGACY"}
         /\ r.annual \in (Nat \ {0}) \cup {None} /\ r.every \in Frequencies \cup {None}
         /\ r.next \in Dates \cup {None} /\ r.end \in Dates \cup {None} /\ r.rule \in BOOLEAN
BY DEF PolicyRow

LEMMA EditType ==
  ASSUME NEW e \in EditRecord
  PROVE  /\ e.op \in {"update", "delete", None} /\ e.policy \in Policies \cup {None}
         /\ e.seen \in PolicyRow /\ e.req \in Request /\ e.targets \in SUBSET Dates
         /\ e.phase \in {"IDLE", "LOADED", "FLUSHED", "CANCELLING", "READY", "SCHEDULED"}
         /\ e.next \in Dates \cup {None}
BY DEF EditRecord, Request

LEMMA Constants ==
  /\ AbsentPolicy \in PolicyRow /\ LegacyPolicy \in PolicyRow
  /\ AbsentRow \in InstallmentRow
  /\ NoEdit \in EditRecord /\ NoCharge \in Charge
  /\ None \notin Sessions /\ None \notin Policies \X Dates
  /\ Ticks \subseteq Sessions /\ Requests \subseteq Sessions /\ Ticks \cap Requests = {}
<1>1. 1 \in Dates
  BY InsuranceAssumption DEF Dates
<1>2. AbsentPolicy \in PolicyRow
  BY DEF AbsentPolicy, PolicyRow, Statuses, Modes
<1>3. LegacyPolicy \in PolicyRow
  BY <1>1, <1>2 DEF LegacyPolicy, AbsentPolicy, PolicyRow, Statuses, Modes
<1>4. AbsentRow \in InstallmentRow
  BY DEF AbsentRow, InstallmentRow
<1>5. NoEdit \in EditRecord /\ NoCharge \in Charge
  BY <1>2 DEF NoEdit, EditRecord, NoCharge, Charge
<1> QED BY <1>2, <1>3, <1>4, <1>5, SessionAssumption DEF Sessions

\* What a body holds; the one of a deletion holds nothing.
LEMMA RequestType ==
  ASSUME NEW r \in Request \cup Drafts
  PROVE  /\ r.mode \in Modes \cup {None} /\ r.annual \in (Nat \ {0}) \cup {None}
         /\ r.every \in Frequencies \cup {None} /\ r.next \in Dates \cup {None}
         /\ r.status \in {"ACTIVE", "LAPSED", None} /\ r.end \in Dates \cup {None}
         /\ \A d \in DOMAIN r.dates : d \in Dates /\ r.dates[d] \in Nat \ {0}
<1>1. CASE r \in Drafts \cup Edits
  <2>1. /\ r.mode \in Modes \cup {None} /\ r.annual \in (Nat \ {0}) \cup {None}
        /\ r.every \in Frequencies \cup {None} /\ r.next \in (0..(MaxDay + 1)) \cup {None}
        /\ r.status \in {"ACTIVE", "LAPSED", None} /\ r.end \in Dates \cup {None}
        /\ DOMAIN r.dates \subseteq Dates /\ \A x \in DOMAIN r.dates : r.dates[x] \in Nat \ {0}
    BY <1>1, InsuranceAssumption
  <2>2. 0..(MaxDay + 1) \subseteq Dates
    BY InsuranceAssumption DEF Dates
  <2> QED BY <2>1, <2>2
<1>2. CASE r = NothingSent
  BY <1>2 DEF NothingSent
<1> QED BY <1>1, <1>2 DEF Request

-----------------------------------------------------------------------------
(* Schedules.                                                              *)

LEMMA GapType ==
  ASSUME NEW every \in Frequencies
  PROVE  PeriodsOf[every] \in Nat \ {0} /\ Gap(every) \in 1..YearLength
<1>1. PeriodsOf[every] \in 1..YearLength /\ YearLength \in Nat
  BY InsuranceAssumption
<1>2. \A y \in Nat : \A k \in 1..y : y \div k \in 1..y
  OBVIOUS
<1> QED BY <1>1, <1>2 DEF Gap

\* A payment is a whole number; that it is positive is checked at the insert.
LEMMA SplitType ==
  ASSUME NEW annual \in Nat, NEW n \in Nat \ {0}, NEW k \in Int
  PROVE  Split(annual, n, k) \in Int
<1> DEFINE base == annual \div n
<1>1. base \in Int
  OBVIOUS
<1>2. Split(annual, n, k) = IF k = n - 1 THEN annual - base * (n - 1) ELSE base
  BY DEF Split
<1> HIDE DEF base
<1>3. base * (n - 1) \in Int
  BY <1>1
<1> QED BY <1>1, <1>2, <1>3

LEMMA YearType ==
  ASSUME NEW annual \in Nat, NEW every \in Frequencies, NEW first \in Int,
         NEW end \in Dates \cup {None}, NEW d \in DOMAIN IntervalYear(annual, every, first, end)
  PROVE  IntervalYear(annual, every, first, end)[d] \in Int
<1>1. PeriodsOf[every] \in Nat \ {0} /\ Gap(every) \in Nat \ {0}
  BY GapType, InsuranceAssumption
<1>2. d \in Int
  <2>1. PICK k \in 0..(PeriodsOf[every] - 1) : d = first + k * Gap(every)
    BY DEF IntervalYear
  <2>2. k * Gap(every) \in Int
    BY <1>1
  <2> QED BY <2>1, <2>2
<1>3. (d - first) \div Gap(every) \in Int
  <2>1. \A a \in Int, b \in Nat \ {0} : a \div b \in Int
    OBVIOUS
  <2> QED BY <1>1, <1>2, <2>1
<1>4. IntervalYear(annual, every, first, end)[d]
        = Split(annual, PeriodsOf[every], (d - first) \div Gap(every))
  BY DEF IntervalYear
<1> QED BY <1>1, <1>3, <1>4, SplitType

\* Amounts are whole numbers.
Whole(schedule) == \A d \in DOMAIN schedule : schedule[d] \in Int

LEMMA WantedType ==
  ASSUME NEW m, NEW end \in Dates \cup {None}, ValidSchedule(m),
         m.annual \in (Nat \ {0}) \cup {None}, m.every \in Frequencies \cup {None},
         m.next \in Dates \cup {None}, \A d \in DOMAIN m.dates : m.dates[d] \in Nat \ {0}
  PROVE  Whole(Wanted(m, end))
<1>1. CASE m.mode = "INTERVAL"
  <2>1. /\ m.annual \in Nat /\ m.every \in Frequencies /\ m.next \in Int
        /\ Wanted(m, end) = IntervalYear(m.annual, m.every, m.next, end)
    BY <1>1 DEF ValidSchedule, Wanted, Dates
  <2> QED BY <2>1, YearType DEF Whole
<1>2. CASE m.mode = "CUSTOM"
  BY <1>2 DEF Wanted, Whole
<1>3. CASE m.mode \notin {"INTERVAL", "CUSTOM"}
  BY <1>3 DEF Wanted, Whole
<1> QED BY <1>1, <1>2, <1>3

LEMMA MergedType ==
  ASSUME NEW seen \in PolicyRow, NEW req \in Request \cup Drafts
  PROVE  LET m == Merged(seen, req) IN
         /\ m.mode \in Modes
         /\ m.annual \in (Nat \ {0}) \cup {None} /\ m.every \in Frequencies \cup {None}
         /\ m.next \in Dates \cup {None} /\ \A d \in DOMAIN m.dates : m.dates[d] \in Nat \ {0}
<1>1. seen.mode \in Modes \cup {"LEGACY"} /\ req.mode \in Modes \cup {None}
  BY PolicyType, RequestType
<1>2. CASE req.mode # None
  BY <1>1, <1>2, PolicyType, RequestType DEF MergedMode, Merged
<1>3. CASE req.mode = None /\ seen.mode = "LEGACY"
  BY <1>1, <1>3, PolicyType, RequestType DEF MergedMode, Merged, Modes
<1>4. CASE req.mode = None /\ seen.mode # "LEGACY"
  BY <1>1, <1>4, PolicyType, RequestType DEF MergedMode, Merged
<1> QED BY <1>2, <1>3, <1>4

LEMMA InsertType ==
  ASSUME NEW rows \in [Dates -> InstallmentRow], NEW schedule, Whole(schedule),
         Fits(rows, schedule)
  PROVE  /\ Insert(rows, schedule) \in [Dates -> InstallmentRow]
         /\ \A d \in Dates :
              IF d \in DOMAIN schedule
              THEN rows[d].status = "ABSENT" /\ Insert(rows, schedule)[d].status = "PENDING"
              ELSE Insert(rows, schedule)[d] = rows[d]
<1>1. ASSUME NEW d \in Dates, d \in DOMAIN schedule
      PROVE  /\ [status |-> "PENDING", amount |-> schedule[d]] \in InstallmentRow
             /\ rows[d].status = "ABSENT"
  BY <1>1 DEF Whole, Fits, InstallmentRow
<1> QED BY <1>1 DEF Insert

\* refresh_next_due finds the first of the rows that are PENDING.
LEMMA EarliestIs ==
  ASSUME NEW rows, PendingOf(rows) # {}
  PROVE  /\ Earliest(rows) \in PendingOf(rows)
         /\ \A e \in PendingOf(rows) : Earliest(rows) <= e
<1>1. PendingOf(rows) \in SUBSET Nat
  BY InsuranceAssumption DEF PendingOf, Dates
<1>2. \E d \in PendingOf(rows) : \A e \in PendingOf(rows) : d <= e
  BY <1>1, NatMin
<1> QED BY <1>2 DEF Earliest

LEMMA EarliestType ==
  ASSUME NEW rows
  PROVE  Earliest(rows) \in Dates \cup {None}
BY EarliestIs DEF Earliest, PendingOf

-----------------------------------------------------------------------------
(* What a step of one session leaves to the others.                        *)

\* A session changes the rows it has locked and adds new ones, which no other session
\* adds; it takes locks that are free and gives back its own; and it writes no policy
\* that another one has locked.
RowStep(p, d, s) ==
  \/ inst'[p][d] = inst[p][d]
  \/ /\ inst[p][d].status = "ABSENT" /\ inst'[p][d].status = "PENDING"
     /\ \A t \in Sessions : t # s => d \notin Adds(t, p)
  \/ /\ inst[p][d].status = "PENDING" /\ rowLock[p][d] = s
     /\ \/ inst'[p][d].status = "CANCELLED"
        \/ inst'[p][d].status = "PAID" /\ policyLock[p] = s

LockStep(p, d, s) ==
  \/ rowLock'[p][d] = rowLock[p][d]
  \/ rowLock[p][d] \in {None, s} /\ rowLock'[p][d] \in {None, s}

SameColumns(p) ==
  /\ policies'[p].status = policies[p].status /\ policies'[p].mode = policies[p].mode
  /\ policies'[p].annual = policies[p].annual /\ policies'[p].every = policies[p].every
  /\ policies'[p].end = policies[p].end

HoldStep(p, s) ==
  \/ policyLock'[p] = policyLock[p]
  \/ /\ policyLock[p] \in {None, s} /\ policyLock'[p] \in {None, s}
     /\ policies[p].status # "ABSENT"

PolicyStep(p, s) ==
  /\ policyLock[p] \notin {None, s} => SameColumns(p)
  /\ policies[p].status # "ABSENT" => policies'[p].status # "ABSENT"

StepOf(s) ==
  /\ \A p \in Policies, d \in Dates : RowStep(p, d, s) /\ LockStep(p, d, s)
  /\ \A p \in Policies : HoldStep(p, s) /\ PolicyStep(p, s)
  /\ \A w \in Ticks : w # s => charge'[w] = charge[w]
  /\ \A q \in Requests : q # s => edit'[q] = edit[q]

LEMMA Undisturbed ==
  ASSUME NEW s, StepOf(s), NEW t \in Sessions, t # s, NEW p \in Policies
  PROVE  /\ policyLock[p] = t => policyLock'[p] = t /\ SameColumns(p)
         /\ \A d \in Dates :
              /\ rowLock[p][d] = t => rowLock'[p][d] = t
              /\ rowLock[p][d] = t /\ inst[p][d].status = "PENDING"
                   => inst'[p][d].status = "PENDING"
              /\ inst[p][d].status = "ABSENT" /\ d \in Adds(t, p) => inst'[p][d].status = "ABSENT"
              /\ policyLock[p] = t /\ inst[p][d].status \in {"PENDING", "CANCELLED"}
                   => inst'[p][d].status \in {"PENDING", "CANCELLED"}
BY Constants DEF StepOf, RowStep, LockStep, HoldStep, PolicyStep

\* What a tick inserts is decided by the columns of its policy.
LEMMA YearKept ==
  ASSUME NEW w \in Ticks, charge'[w] = charge[w],
         Counted(w) => SameColumns(charge[w].at[1])
  PROVE  YearOf(w)' = YearOf(w)
<1>1. CASE Counted(w)
  <2>1. PICK p : p = charge[w].at[1]
    OBVIOUS
  <2>2. /\ policies'[p].mode = policies[p].mode /\ policies'[p].annual = policies[p].annual
        /\ policies'[p].every = policies[p].every /\ policies'[p].end = policies[p].end
    BY <1>1, <2>1 DEF SameColumns
  <2>3. NewYear(policies'[p], charge[w].saw, charge[w].at[2])
          = NewYear(policies[p], charge[w].saw, charge[w].at[2])
    BY <2>2 DEF NewYear, Extends, PastEnd, NextYear
  <2> HIDE DEF NewYear
  <2>4. YearOf(w) = NewYear(policies[p], charge[w].saw, charge[w].at[2])
    BY <1>1, <2>1 DEF YearOf, Counted
  <2>5. YearOf(w)' = NewYear(policies'[p], charge[w].saw, charge[w].at[2])
    BY <1>1, <2>1 DEF YearOf, Counted
  <2> QED BY <2>3, <2>4, <2>5
<1>2. CASE ~Counted(w)
  BY <1>2 DEF YearOf, Counted
<1> QED BY <1>1, <1>2

LEMMA ChargeType ==
  ASSUME TypeOK, NEW w \in Ticks
  PROVE  /\ charge \in [Ticks -> Charge] /\ charge[w] \in Charge
         /\ charge[w].ids \in SUBSET (Policies \X Dates)
         /\ charge[w].at \in (Policies \X Dates) \cup {None}
         /\ charge[w].at # None => charge[w].at[1] \in Policies /\ charge[w].at[2] \in Dates
         /\ charge[w].saw \in SUBSET Dates /\ charge[w].next \in Dates \cup {None}
         /\ charge[w].phase \in {"IDLE", "LOCKED", "COUNTED", "SELECTED"}
BY DEF TypeOK, Charge

\* The other sessions have inserted what they had.
LEMMA AddsKept ==
  ASSUME IInv, NEW s, StepOf(s), NEW t \in Sessions, t # s, NEW p \in Policies
  PROVE  Adds(t, p)' = Adds(t, p)
<1>1. CASE t \in Ticks
  <2>1. charge'[t] = charge[t]
    BY <1>1 DEF StepOf
  <2>2. Counted(t) => SameColumns(charge[t].at[1])
    <3>1. ASSUME Counted(t)
          PROVE  charge[t].at[1] \in Policies /\ policyLock[charge[t].at[1]] = t
      BY <1>1, <3>1, ChargeType DEF IInv, TickOK, Counted, CountOK
    <3> QED BY <3>1, Undisturbed
  <2>3. YearOf(t)' = YearOf(t)
    BY <1>1, <2>1, <2>2, YearKept
  <2> QED BY <1>1, <2>1, <2>3 DEF Adds
<1>2. CASE t \notin Ticks
  <2>1. edit'[t] = edit[t]
    BY <1>2 DEF StepOf, Sessions
  <2> QED BY <1>2, <2>1 DEF Adds, Scheduling
<1> QED BY <1>1, <1>2

LEMMA OthersTick ==
  ASSUME IInv, NEW s, StepOf(s), day' \in Nat, day <= day', NEW w \in Ticks, w # s
  PROVE  TickOK(w)'
<1>1. charge'[w] = charge[w] /\ TickOK(w) /\ w \in Sessions
  BY Constants DEF StepOf, IInv
<1>2. charge[w].ids \in SUBSET (Policies \X Dates) /\ day \in Nat
  BY StateTypes, ChargeType DEF IInv
<1>3. ASSUME NEW x \in charge[w].ids PROVE x[2] <= day'
  <2>1. x[2] \in Nat /\ x[2] <= day
    BY <1>1, <1>2, InsuranceAssumption DEF TickOK, Dates
  <2> QED BY <2>1, <1>2
<1>4. ASSUME charge[w].at # None
      PROVE  /\ charge[w].at[2] <= day'
             /\ rowLock'[charge[w].at[1]][charge[w].at[2]] = w
             /\ inst'[charge[w].at[1]][charge[w].at[2]].status = "PENDING"
  <2>1. charge[w].at[1] \in Policies /\ charge[w].at[2] \in Dates
    BY <1>4, ChargeType DEF IInv
  <2>2. charge[w].at[2] \in Nat
    BY <2>1, InsuranceAssumption DEF Dates
  <2>3. /\ rowLock'[charge[w].at[1]][charge[w].at[2]] = w
        /\ inst'[charge[w].at[1]][charge[w].at[2]].status = "PENDING"
    BY <1>1, <1>4, <2>1, Undisturbed DEF TickOK
  <2>4. charge[w].at[2] <= day'
    BY <1>1, <1>2, <1>4, <2>2 DEF TickOK
  <2> QED BY <2>3, <2>4
<1>5. ASSUME Counted(w) PROVE CountOK(w)'
  <2>1. PICK p : p = charge[w].at[1]
    OBVIOUS
  <2>2. charge[w].at # None /\ p \in Policies /\ CountOK(w)
    BY <1>1, <1>5, <2>1, ChargeType DEF TickOK, IInv, Counted
  <2>3. policyLock'[p] = w /\ SameColumns(p)
    BY <1>1, <2>1, <2>2, Undisturbed DEF CountOK
  <2>4. YearOf(w)' = YearOf(w)
    BY <1>1, <2>1, <2>3, YearKept
  <2>5. Adds(w, p) = DOMAIN YearOf(w)
    BY <2>1, <2>2 DEF Adds
  <2>6. Fits(inst'[p], YearOf(w))
    BY <1>1, <2>1, <2>2, <2>5, Undisturbed DEF CountOK, Fits
  <2>7. \A x \in charge[w].saw :
          x # charge[w].at[2] /\ inst'[p][x].status \in {"PENDING", "CANCELLED"}
    BY <1>1, <2>1, <2>2, Undisturbed, ChargeType DEF CountOK, IInv
  <2>8. policies'[p].status = "ACTIVE"
    BY <2>1, <2>2, <2>3 DEF CountOK, SameColumns
  <2> HIDE DEF YearOf
  <2> QED BY <1>1, <2>1, <2>3, <2>4, <2>6, <2>7, <2>8 DEF CountOK
<1> QED BY <1>1, <1>3, <1>4, <1>5 DEF TickOK, Counted

LEMMA OthersEdit ==
  ASSUME IInv, NEW s, StepOf(s), NEW q \in Requests, q # s
  PROVE  EditOK(q)'
<1>1. PICK e : e = edit[q]
  OBVIOUS
<1>2. edit'[q] = e /\ EditOK(q) /\ q \in Sessions /\ e \in EditRecord
  BY <1>1, Constants DEF StepOf, IInv, TypeOK
<1>3. PICK p : p = e.policy
  OBVIOUS
<1>4. CASE e.phase = "IDLE"
  BY <1>1, <1>2, <1>4 DEF EditOK, Wrote
<1>5. CASE e.phase # "IDLE"
  <2>1. p \in Policies /\ e.seen.status # "ABSENT" /\ policies'[p].status # "ABSENT"
    BY <1>1, <1>2, <1>3, <1>5 DEF EditOK, StepOf, PolicyStep
  <2>2. ASSUME e.phase \in {"READY", "SCHEDULED"}, NEW d \in e.targets
        PROVE  rowLock'[p][d] = q /\ inst'[p][d].status = "PENDING"
    BY <1>1, <1>2, <1>3, <2>1, <2>2, Undisturbed, EditType DEF EditOK
  <2>3. Wrote(e) => policyLock'[p] = q
    BY <1>1, <1>2, <1>3, <2>1, Undisturbed DEF EditOK
  <2>4. ASSUME e.phase = "SCHEDULED" PROVE Fits(inst'[p], NewSchedule(e))
    <3>1. Adds(q, p) = DOMAIN NewSchedule(e)
      BY <1>1, <1>3, <2>4, Constants DEF Adds, Scheduling
    <3>2. Fits(inst[p], NewSchedule(e))
      BY <1>1, <1>2, <1>3, <2>4 DEF EditOK
    <3> QED BY <1>2, <2>1, <3>1, <3>2, Undisturbed DEF Fits
  <2> QED BY <1>1, <1>2, <1>3, <1>5, <2>1, <2>2, <2>3, <2>4 DEF EditOK
<1> QED BY <1>4, <1>5

LEMMA ChargedOnceKept ==
  ASSUME ChargedOnce, spent' = spent,
         \A p \in Policies, d \in Dates :
           \/ inst'[p][d] = inst[p][d]
           \/ inst[p][d].status # "PAID" /\ inst'[p][d].status # "PAID"
  PROVE  ChargedOnce'
BY DEF ChargedOnce

LEMMA OneCollectorKept ==
  ASSUME OneCollector,
         \A p \in Policies : policies'[p].rule =>
           /\ policies[p].rule
           /\ \A d \in Dates : inst[p][d].status = "ABSENT" => inst'[p][d].status = "ABSENT"
  PROVE  OneCollector'
BY DEF OneCollector

\* What s has inserted, no other session has.
NewApart(s) ==
  \A p \in Policies, t \in Sessions : t # s => Adds(s, p)' \cap Adds(t, p) = {}

\* What is left to show of a step of session s, or of none.
LEMMA StepKeeps ==
  ASSUME IInv, NEW s, StepOf(s), day <= day', TypeOK',
         s \in Ticks => TickOK(s)', s \in Requests => EditOK(s)',
         s \in Sessions => NewApart(s), ChargedOnce', OneCollector'
  PROVE  IInv'
<1>1. day' \in Nat
  BY InsuranceAssumption DEF TypeOK
<1>2. HeldExists'
  <2>1. ASSUME NEW p \in Policies, policyLock'[p] # None PROVE policies'[p].status # "ABSENT"
    <3>1. policies[p].status # "ABSENT"
      BY <2>1 DEF StepOf, HoldStep, IInv, HeldExists
    <3> QED BY <3>1 DEF StepOf, PolicyStep
  <2> QED BY <2>1 DEF HeldExists
<1>3. AddsApart'
  <2>1. ASSUME NEW p \in Policies, NEW t \in Sessions, NEW u \in Sessions, t # u
        PROVE  Adds(t, p)' \cap Adds(u, p)' = {}
    <3>1. t # s => Adds(t, p)' = Adds(t, p)
      BY AddsKept
    <3>2. u # s => Adds(u, p)' = Adds(u, p)
      BY AddsKept
    <3>3. Adds(t, p) \cap Adds(u, p) = {}
      BY <2>1 DEF IInv, AddsApart
    <3>4. CASE t = s
      BY <2>1, <3>2, <3>4 DEF NewApart
    <3>5. CASE u = s
      <4>1. Adds(u, p)' \cap Adds(t, p) = {}
        BY <2>1, <3>5 DEF NewApart
      <4> QED BY <2>1, <3>1, <3>5, <4>1
    <3> QED BY <3>1, <3>2, <3>3, <3>4, <3>5
  <2> QED BY <2>1 DEF AddsApart
<1>4. \A w \in Ticks : TickOK(w)'
  BY <1>1, OthersTick
<1>5. \A q \in Requests : EditOK(q)'
  BY OthersEdit
<1> QED BY <1>2, <1>3, <1>4, <1>5 DEF IInv

\* A step after which s has inserted nothing, or what it had.
LEMMA AddsNone ==
  ASSUME NEW s, \A p \in Policies : Adds(s, p)' = {} \/ Adds(s, p)' = Adds(s, p),
         AddsApart, s \in Sessions
  PROVE  NewApart(s)
BY DEF NewApart, AddsApart

-----------------------------------------------------------------------------
(* The initial states, the clock and the legacy rules.                     *)

LEMMA InitHolds == Init => IInv
<1> SUFFICES ASSUME Init PROVE IInv
  OBVIOUS
<1>1. /\ \A p \in Policies : policies[p] \in PolicyRow
      /\ \A p \in Policies, d \in Dates : inst[p][d] = AbsentRow
  BY Constants DEF Init
<1>2. TypeOK
  <2>1. day \in 0..MaxDay /\ used \in 0..MaxRequests /\ faults \in 0..MaxFaults
    BY InsuranceAssumption DEF Init
  <2>2. policies \in [Policies -> PolicyRow]
    BY Constants DEF Init
  <2>3. /\ inst \in [Policies -> [Dates -> InstallmentRow]]
        /\ spent \in [Policies -> [Dates -> Nat]]
        /\ policyLock \in [Policies -> Sessions \cup {None}]
        /\ rowLock \in [Policies -> [Dates -> Sessions \cup {None}]]
    BY Constants DEF Init
  <2>4. charge \in [Ticks -> Charge] /\ edit \in [Requests -> EditRecord]
    BY Constants DEF Init
  <2> QED BY <2>1, <2>2, <2>3, <2>4 DEF TypeOK
<1>3. ChargedOnce
  BY <1>1 DEF Init, ChargedOnce, AbsentRow
<1>4. OneCollector
  BY <1>1 DEF OneCollector, AbsentRow
<1>5. ASSUME NEW w \in Ticks PROVE TickOK(w)
  BY <1>2, Constants DEF Init, TickOK, NoCharge, Counted
<1>6. ASSUME NEW q \in Requests PROVE EditOK(q)
  BY DEF Init, EditOK, NoEdit, NothingSent, Reschedules, Wrote
<1>7. AddsApart
  <2>1. \A s \in Sessions, p \in Policies : Adds(s, p) = {}
    BY DEF Init, Adds, NoCharge, NoEdit, Scheduling, Sessions
  <2> QED BY <2>1 DEF AddsApart
<1>8. HeldExists
  BY DEF Init, HeldExists
<1> QED BY <1>2, <1>3, <1>4, <1>5, <1>6, <1>7, <1>8 DEF IInv

LEMMA AdvanceKeeps ==
  ASSUME IInv, Advance
  PROVE  IInv'
<1>1. StepOf(None)
  BY DEF Advance, StepOf, RowStep, LockStep, HoldStep, PolicyStep, SameColumns
<1>2. TypeOK'
  BY InsuranceAssumption DEF Advance, IInv, TypeOK
<1>3. ChargedOnce' /\ OneCollector'
  BY DEF Advance, IInv, ChargedOnce, OneCollector
<1>4. day <= day'
  BY DEF Advance, IInv, TypeOK
<1>5. None \notin Ticks /\ None \notin Requests /\ None \notin Sessions
  BY Constants
<1> QED BY <1>1, <1>2, <1>3, <1>4, <1>5, StepKeeps

LEMMA LastLegacyPremiumKeeps ==
  ASSUME IInv, NEW p \in Policies, LastLegacyPremium(p)
  PROVE  IInv'
<1>1. /\ policies' \in [Policies -> PolicyRow] /\ policies'[p].status = "COMPLETED"
      /\ \A o \in Policies : o # p => policies'[o] = policies[o]
  <2>1. policies[p] \in PolicyRow
    BY StateTypes DEF IInv
  <2>2. /\ [policies[p] EXCEPT !.status = "COMPLETED", !.rule = FALSE] \in PolicyRow
        /\ [policies[p] EXCEPT !.status = "COMPLETED", !.rule = FALSE].status = "COMPLETED"
    BY <2>1 DEF PolicyRow, Statuses
  <2> QED BY <2>2 DEF LastLegacyPremium, IInv, TypeOK
<1>2. StepOf(None)
  <2>1. \A o \in Policies : PolicyStep(o, None)
    BY <1>1 DEF LastLegacyPremium, PolicyStep, SameColumns
  <2> QED BY <2>1 DEF LastLegacyPremium, StepOf, RowStep, LockStep, HoldStep
<1>3. TypeOK'
  BY <1>1 DEF LastLegacyPremium, IInv, TypeOK
<1>4. ChargedOnce'
  BY DEF LastLegacyPremium, IInv, ChargedOnce
<1>5. OneCollector'
  <2>1. ASSUME NEW o \in Policies, policies'[o].rule PROVE policies[o].rule
    BY <1>1, <2>1 DEF LastLegacyPremium
  <2>2. inst' = inst
    BY DEF LastLegacyPremium
  <2> QED BY <2>1, <2>2, OneCollectorKept DEF IInv
<1>6. day <= day' /\ None \notin Ticks /\ None \notin Requests /\ None \notin Sessions
  BY Constants DEF LastLegacyPremium, IInv, TypeOK
<1> QED BY <1>2, <1>3, <1>4, <1>5, <1>6, StepKeeps

-----------------------------------------------------------------------------
(* The steps of a tick.                                                    *)

\* Steps that change neither policies nor installments.
RowsSame == policies' = policies /\ inst' = inst /\ spent' = spent /\ day' = day

LEMMA RowsSameKeeps ==
  ASSUME IInv, RowsSame
  PROVE  /\ ChargedOnce' /\ OneCollector' /\ day <= day'
         /\ \A p \in Policies, d \in Dates, s \in Sessions : RowStep(p, d, s)
         /\ \A p \in Policies, s \in Sessions : PolicyStep(p, s)
         /\ \A p \in Policies, d \in Dates : inst'[p][d] = inst[p][d]
<1>1. ChargedOnce' /\ OneCollector'
  BY DEF RowsSame, IInv, ChargedOnce, OneCollector
<1>2. day <= day'
  BY DEF RowsSame, IInv, TypeOK
<1> QED BY <1>1, <1>2 DEF RowsSame, RowStep, PolicyStep, SameColumns

\* A tick has inserted nothing before it has locked the policy.
LEMMA TickAddsNone ==
  ASSUME NEW w \in Ticks
  PROVE  /\ ~Counted(w) => \A p \in Policies : Adds(w, p) = {}
         /\ ~Counted(w)' => \A p \in Policies : Adds(w, p)' = {}
BY DEF Adds, YearOf, Counted

\* A step of a tick that changes no rows, and after which it has inserted nothing.
LEMMA TickKeeps ==
  ASSUME IInv, NEW w \in Ticks, RowsSame, edit' = edit, ~Counted(w)',
         TypeOK', TickOK(w)',
         \A v \in Ticks : v # w => charge'[v] = charge[v],
         \A p \in Policies, d \in Dates : LockStep(p, d, w),
         \A p \in Policies : HoldStep(p, w)
  PROVE  IInv'
<1>1. w \in Sessions /\ w \notin Requests
  BY Constants
<1>2. StepOf(w)
  BY <1>1, RowsSameKeeps DEF StepOf
<1>3. NewApart(w)
  BY <1>1, TickAddsNone, AddsNone DEF IInv
<1> QED BY <1>1, <1>2, <1>3, RowsSameKeeps, StepKeeps

LEMMA SameLocks ==
  ASSUME rowLock' = rowLock, policyLock' = policyLock
  PROVE  /\ \A p \in Policies, d \in Dates, s \in Sessions : LockStep(p, d, s)
         /\ \A p \in Policies, s \in Sessions : HoldStep(p, s)
BY DEF LockStep, HoldStep

LEMMA StatusType ==
  ASSUME NEW row \in InstallmentRow, NEW status \in {"ABSENT", "PENDING", "PAID", "CANCELLED"}
  PROVE  /\ [row EXCEPT !.status = status] \in InstallmentRow
         /\ [row EXCEPT !.status = status].status = status
         /\ [row EXCEPT !.status = status].amount = row.amount
BY DEF InstallmentRow

\* The locks of s are given back.
Unlocks(s) ==
  /\ rowLock' = [p \in Policies |->
                  [d \in Dates |-> IF rowLock[p][d] = s THEN None ELSE rowLock[p][d]]]
  /\ policyLock' = [p \in Policies |-> IF policyLock[p] = s THEN None ELSE policyLock[p]]

LEMMA UnlocksType ==
  ASSUME IInv, NEW s \in Sessions, Unlocks(s)
  PROVE  /\ rowLock' \in [Policies -> [Dates -> Sessions \cup {None}]]
         /\ policyLock' \in [Policies -> Sessions \cup {None}]
         /\ \A p \in Policies, d \in Dates : LockStep(p, d, s)
         /\ \A p \in Policies : HoldStep(p, s)
<1>1. /\ \A p \in Policies, d \in Dates : rowLock[p][d] \in Sessions \cup {None}
      /\ \A p \in Policies : policyLock[p] \in Sessions \cup {None}
  BY StateTypes DEF IInv
<1>2. ASSUME NEW p \in Policies PROVE HoldStep(p, s)
  <2>1. CASE policyLock[p] = s
    <3>1. s # None
      BY Constants
    <3>2. policyLock'[p] = None
      BY <2>1 DEF Unlocks
    <3> QED BY <2>1, <3>1, <3>2 DEF HoldStep, IInv, HeldExists
  <2>2. CASE policyLock[p] # s
    BY <2>2 DEF Unlocks, HoldStep
  <2> QED BY <2>1, <2>2
<1> QED BY <1>1, <1>2 DEF Unlocks, LockStep

LEMMA ReleaseType ==
  ASSUME IInv, NEW w \in Ticks, Release(w)
  PROVE  /\ Unlocks(w)
         /\ charge' \in [Ticks -> Charge]
         /\ charge'[w].ids = charge[w].ids /\ charge'[w].at = None
         /\ charge'[w].phase = "IDLE"
         /\ \A v \in Ticks : v # w => charge'[v] = charge[v]
<1>1. charge \in [Ticks -> Charge] /\ charge[w].ids \in SUBSET (Policies \X Dates)
  BY ChargeType DEF IInv
<1> DEFINE c == [NoCharge EXCEPT !.ids = charge[w].ids, !.on = TRUE]
<1>2. c \in Charge /\ c.ids = charge[w].ids /\ c.at = None /\ c.phase = "IDLE"
  BY <1>1 DEF NoCharge, Charge
<1>3. charge' = [charge EXCEPT ![w] = c]
  BY DEF Release
<1> HIDE DEF c
<1>4. Unlocks(w)
  BY DEF Release, Unlocks
<1> QED BY <1>1, <1>2, <1>3, <1>4

LEMMA StartTickKeeps ==
  ASSUME IInv, NEW w \in Ticks, StartTick(w)
  PROVE  IInv'
<1>1. RowsSame /\ edit' = edit /\ rowLock' = rowLock /\ policyLock' = policyLock
  BY DEF StartTick, RowsSame
<1>2. Due \in SUBSET (Policies \X Dates) /\ \A x \in Due : x[2] <= day
  BY DEF Due
<1> DEFINE c == [NoCharge EXCEPT !.ids = Due, !.on = TRUE]
<1>3. charge' = [charge EXCEPT ![w] = c]
  BY DEF StartTick
<1> HIDE DEF Due
<1>4. c \in Charge /\ c.ids = Due /\ c.at = None /\ c.phase = "IDLE"
  BY <1>2 DEF NoCharge, Charge
<1> HIDE DEF c
<1>5. /\ charge' \in [Ticks -> Charge] /\ charge'[w] = c
      /\ \A v \in Ticks : v # w => charge'[v] = charge[v]
  BY <1>3, <1>4, ChargeType DEF IInv
<1>6. TypeOK'
  BY <1>1, <1>5 DEF StartTick, IInv, TypeOK
<1>7. ~Counted(w)' /\ TickOK(w)'
  BY <1>1, <1>2, <1>4, <1>5 DEF TickOK, RowsSame, Counted
<1> QED BY <1>1, <1>5, <1>6, <1>7, TickKeeps, SameLocks, Constants

LEMMA LockInstallmentKeeps ==
  ASSUME IInv, NEW w \in Ticks, LockInstallment(w)
  PROVE  IInv'
<1>1. RowsSame /\ edit' = edit /\ policyLock' = policyLock /\ w \in Sessions
  BY Constants DEF LockInstallment, RowsSame
<1>2. PICK x \in charge[w].ids :
        /\ Payable(x) /\ rowLock[x[1]][x[2]] = None
        /\ charge' = [charge EXCEPT ![w].at = x, ![w].ids = @ \ {x}, ![w].phase = "LOCKED"]
        /\ rowLock' = [rowLock EXCEPT ![x[1]][x[2]] = w]
  BY DEF LockInstallment
<1>3. /\ x \in Policies \X Dates /\ x[1] \in Policies /\ x[2] \in Dates /\ x[2] <= day
      /\ x # None
  BY ChargeType, Constants DEF IInv, TickOK
<1>4. /\ rowLock' \in [Policies -> [Dates -> Sessions \cup {None}]]
      /\ rowLock'[x[1]][x[2]] = w
      /\ \A p \in Policies, d \in Dates : LockStep(p, d, w)
  <2>1. rowLock \in [Policies -> [Dates -> Sessions \cup {None}]]
    BY DEF IInv, TypeOK
  <2> QED BY <1>1, <1>2, <1>3, <2>1 DEF LockStep
<1> DEFINE c == [charge[w] EXCEPT !.at = x, !.ids = @ \ {x}, !.phase = "LOCKED"]
<1>5. c \in Charge /\ c.at = x /\ c.ids \subseteq charge[w].ids /\ c.phase = "LOCKED"
  BY <1>3, ChargeType DEF Charge, IInv
<1>6. charge' = [charge EXCEPT ![w] = c]
  BY <1>2, ChargeType DEF IInv
<1> HIDE DEF c
<1>7. /\ charge' \in [Ticks -> Charge] /\ charge'[w] = c
      /\ \A v \in Ticks : v # w => charge'[v] = charge[v]
  BY <1>5, <1>6, ChargeType DEF IInv
<1>8. TypeOK'
  BY <1>1, <1>4, <1>7 DEF LockInstallment, IInv, TypeOK
<1>9. ~Counted(w)' /\ TickOK(w)'
  <2>1. \A y \in charge[w].ids : y[2] <= day
    BY DEF IInv, TickOK
  <2>2. inst[x[1]][x[2]].status = "PENDING" /\ inst' = inst /\ day' = day
    BY <1>1, <1>2 DEF Payable, RowsSame
  <2> QED BY <1>3, <1>4, <1>5, <1>7, <2>1, <2>2 DEF TickOK, Counted
<1>10. \A p \in Policies : HoldStep(p, w)
  BY <1>1 DEF HoldStep
<1> QED BY <1>1, <1>4, <1>7, <1>8, <1>9, <1>10, TickKeeps

\* Steps after which a tick works on nothing and has listed no more than before.
LEMMA TickFrame ==
  ASSUME IInv, NEW w \in Ticks, RowsSame, edit' = edit,
         used' = used, faults' \in 0..MaxFaults,
         UNCHANGED <<rowLock, policyLock>> \/ Unlocks(w),
         charge' \in [Ticks -> Charge], charge'[w].at = None, charge'[w].phase = "IDLE",
         charge'[w].ids \subseteq charge[w].ids,
         \A v \in Ticks : v # w => charge'[v] = charge[v]
  PROVE  IInv'
<1>1. /\ rowLock' \in [Policies -> [Dates -> Sessions \cup {None}]]
      /\ policyLock' \in [Policies -> Sessions \cup {None}]
      /\ \A p \in Policies, d \in Dates : LockStep(p, d, w)
      /\ \A p \in Policies : HoldStep(p, w)
  <2>1. CASE UNCHANGED <<rowLock, policyLock>>
    BY <2>1 DEF IInv, TypeOK, LockStep, HoldStep
  <2>2. CASE Unlocks(w)
    BY <2>2, UnlocksType, Constants
  <2> QED BY <2>1, <2>2
<1>2. TypeOK'
  BY <1>1 DEF RowsSame, IInv, TypeOK
<1>3. ~Counted(w)' /\ TickOK(w)'
  BY DEF TickOK, RowsSame, IInv, Counted
<1> QED BY <1>1, <1>2, <1>3, TickKeeps

LEMMA SkipInstallmentKeeps ==
  ASSUME IInv, NEW w \in Ticks, SkipInstallment(w)
  PROVE  IInv'
<1>1. PICK x \in charge[w].ids : charge' = [charge EXCEPT ![w].ids = @ \ {x}]
  BY DEF SkipInstallment
<1> DEFINE c == [charge[w] EXCEPT !.ids = @ \ {x}]
<1>2. /\ c \in Charge /\ c.at = None /\ c.phase = "IDLE"
      /\ c.ids \subseteq charge[w].ids
  BY ChargeType DEF Charge, IInv, SkipInstallment, TickOK
<1>3. charge' = [charge EXCEPT ![w] = c]
  BY <1>1, ChargeType DEF IInv
<1> HIDE DEF c
<1>4. /\ charge' \in [Ticks -> Charge] /\ charge'[w] = c
      /\ \A v \in Ticks : v # w => charge'[v] = charge[v]
  BY <1>2, <1>3, ChargeType DEF IInv
<1> QED BY <1>2, <1>4, TickFrame DEF SkipInstallment, RowsSame, IInv, TypeOK

LEMMA NoChargeType ==
  ASSUME IInv, NEW w \in Ticks, charge' = [charge EXCEPT ![w] = NoCharge]
  PROVE  /\ charge' \in [Ticks -> Charge] /\ charge'[w].at = None
         /\ charge'[w].phase = "IDLE" /\ charge'[w].ids \subseteq charge[w].ids
         /\ \A v \in Ticks : v # w => charge'[v] = charge[v]
<1>1. NoCharge.at = None /\ NoCharge.phase = "IDLE" /\ NoCharge.ids = {}
  BY DEF NoCharge
<1> QED BY <1>1, ChargeType, Constants DEF IInv

LEMMA EndTickKeeps ==
  ASSUME IInv, NEW w \in Ticks, EndTick(w)
  PROVE  IInv'
BY NoChargeType, TickFrame DEF EndTick, RowsSame, IInv, TypeOK

LEMMA CrashTickKeeps ==
  ASSUME IInv, NEW w \in Ticks, CrashTick(w)
  PROVE  IInv'
<1>1. faults' \in 0..MaxFaults
  BY InsuranceAssumption DEF CrashTick, IInv, TypeOK
<1>2. Unlocks(w)
  BY DEF CrashTick, Unlocks
<1> QED BY <1>1, <1>2, NoChargeType, TickFrame DEF CrashTick, RowsSame

LEMMA FailTransientKeeps ==
  ASSUME IInv, NEW w \in Ticks, FailTransient(w)
  PROVE  IInv'
<1>1. faults' \in 0..MaxFaults
  BY InsuranceAssumption DEF FailTransient, IInv, TypeOK
<1> QED BY <1>1, ReleaseType, TickFrame DEF FailTransient, RowsSame

LEMMA FailYearKeeps ==
  ASSUME IInv, NEW w \in Ticks, FailYear(w)
  PROVE  IInv'
BY ReleaseType, TickFrame DEF FailYear, RowsSame, IInv, TypeOK

LEMMA EndDeadlockKeeps ==
  ASSUME IInv, NEW w \in Ticks, NEW q \in Requests, EndDeadlock(w, q)
  PROVE  IInv'
BY ReleaseType, TickFrame DEF EndDeadlock, RowsSame, IInv, TypeOK

LEMMA CancelInstallmentKeeps ==
  ASSUME IInv, NEW w \in Ticks, CancelInstallment(w)
  PROVE  IInv'
<1>0. PICK p, d : p = charge[w].at[1] /\ d = charge[w].at[2]
  OBVIOUS
<1>1. charge[w].at # None /\ p \in Policies /\ d \in Dates
  BY <1>0, ChargeType DEF CancelInstallment, IInv, TickOK
<1>2. rowLock[p][d] = w /\ inst[p][d].status = "PENDING"
  BY <1>0, <1>1 DEF IInv, TickOK
<1>3. /\ inst' = [inst EXCEPT ![p][d].status = "CANCELLED"] /\ Release(w)
      /\ day' = day /\ policies' = policies /\ spent' = spent /\ edit' = edit
      /\ used' = used /\ faults' = faults
  BY <1>0 DEF CancelInstallment
<1>4. /\ inst' \in [Policies -> [Dates -> InstallmentRow]]
      /\ inst'[p][d].status = "CANCELLED"
      /\ \A o \in Policies, e \in Dates : <<o, e>> # <<p, d>> => inst'[o][e] = inst[o][e]
  <2>1. inst \in [Policies -> [Dates -> InstallmentRow]]
    BY DEF IInv, TypeOK
  <2>2. inst[p][d] \in InstallmentRow
    BY <1>1, <2>1
  <2>3. /\ [inst[p][d] EXCEPT !.status = "CANCELLED"] \in InstallmentRow
        /\ [inst[p][d] EXCEPT !.status = "CANCELLED"].status = "CANCELLED"
    BY <2>2, StatusType
  <2> QED BY <1>1, <1>3, <2>1, <2>2, <2>3
<1>5. /\ rowLock' \in [Policies -> [Dates -> Sessions \cup {None}]]
      /\ policyLock' \in [Policies -> Sessions \cup {None}]
      /\ \A o \in Policies, e \in Dates : LockStep(o, e, w)
      /\ \A o \in Policies : HoldStep(o, w)
      /\ charge' \in [Ticks -> Charge] /\ charge'[w].at = None
      /\ charge'[w].ids = charge[w].ids /\ charge'[w].phase = "IDLE"
      /\ \A v \in Ticks : v # w => charge'[v] = charge[v]
  BY <1>3, ReleaseType, UnlocksType, Constants
<1>6. TypeOK'
  BY <1>3, <1>4, <1>5 DEF IInv, TypeOK
<1>7. TickOK(w)' /\ ~Counted(w)'
  BY <1>3, <1>5 DEF TickOK, IInv, Counted
<1>8. StepOf(w)
  <2>1. \A o \in Policies, e \in Dates : RowStep(o, e, w)
    BY <1>2, <1>4 DEF RowStep
  <2>2. \A o \in Policies : PolicyStep(o, w)
    BY <1>3 DEF PolicyStep, SameColumns
  <2> QED BY <1>3, <1>5, <2>1, <2>2 DEF StepOf
<1>9. ChargedOnce'
  <2>1. \A o \in Policies, e \in Dates :
          \/ inst'[o][e] = inst[o][e]
          \/ inst[o][e].status # "PAID" /\ inst'[o][e].status # "PAID"
    BY <1>2, <1>4
  <2> QED BY <1>3, <2>1, ChargedOnceKept DEF IInv
<1>10. OneCollector'
  <2>1. \A o \in Policies, e \in Dates :
          inst[o][e].status = "ABSENT" => inst'[o][e].status = "ABSENT"
    BY <1>2, <1>4
  <2> QED BY <1>3, <2>1, OneCollectorKept DEF IInv
<1>11. day <= day' /\ w \in Sessions /\ w \notin Requests
  BY <1>3, Constants DEF IInv, TypeOK
<1>12. NewApart(w)
  BY <1>7, <1>11, TickAddsNone, AddsNone DEF IInv
<1> QED
  BY <1>6, <1>7, <1>8, <1>9, <1>10, <1>11, <1>12, StepKeeps

-----------------------------------------------------------------------------
(* A charge.                                                               *)

\* What a session has inserted makes the others wait.
LEMMA AddsInserting ==
  ASSUME NEW p \in Policies, NEW t \in Sessions
  PROVE  Adds(t, p) \subseteq Inserting(p)
<1>1. CASE t \in Ticks
  BY <1>1 DEF Adds, Inserting
<1>2. CASE t \notin Ticks
  BY <1>2 DEF Adds, Inserting, Sessions
<1> QED BY <1>1, <1>2

LEMMA LockPolicyKeeps ==
  ASSUME IInv, NEW w \in Ticks, LockPolicy(w)
  PROVE  IInv'
<1>0. PICK p, d, saw : p = charge[w].at[1] /\ d = charge[w].at[2] /\ saw = PendingOf(PaidRows(p, d))
  OBVIOUS
<1>a. PICK year : year = NewYear(policies[p], saw, d)
  OBVIOUS
<1>1. /\ charge[w].phase = "LOCKED" /\ charge[w].at # None /\ p \in Policies /\ d \in Dates
      /\ w \in Sessions /\ w \notin Requests
  BY <1>0, ChargeType, Constants DEF LockPolicy, IInv, TickOK
<1>2. /\ PolicyFree(p, w) /\ policyLock' = [policyLock EXCEPT ![p] = w]
      /\ policies[p].status = "ACTIVE" /\ Insertable(inst[p], year)
      /\ DOMAIN year \cap Inserting(p) = {}
      /\ charge' = [charge EXCEPT ![w].phase = "COUNTED", ![w].saw = saw]
      /\ RowsSame /\ rowLock' = rowLock /\ edit' = edit /\ used' = used /\ faults' = faults
  BY <1>0, <1>a DEF LockPolicy, TakePolicy, Chargeable, RowsSame
<1>3. \A x \in saw : x \in Dates /\ x # d /\ inst[p][x].status = "PENDING"
  <2>1. inst[p] \in [Dates -> InstallmentRow] /\ inst[p][d] \in InstallmentRow
    BY <1>1, StateTypes DEF IInv
  <2>2. /\ PaidRows(p, d)[d].status = "PAID"
        /\ \A x \in Dates \ {d} : PaidRows(p, d)[x] = inst[p][x]
    BY <1>1, <2>1, StatusType DEF PaidRows
  <2> QED BY <1>0, <2>2 DEF PendingOf
<1> DEFINE c == [charge[w] EXCEPT !.phase = "COUNTED", !.saw = saw]
<1>4. /\ c \in Charge /\ c.ids = charge[w].ids /\ c.at = charge[w].at
      /\ c.phase = "COUNTED" /\ c.saw = saw
  BY <1>3, ChargeType DEF Charge, IInv
<1>5. charge' = [charge EXCEPT ![w] = c]
  BY <1>2, ChargeType DEF IInv
<1> HIDE DEF c
<1>6. /\ charge' \in [Ticks -> Charge] /\ charge'[w] = c
      /\ \A v \in Ticks : v # w => charge'[v] = charge[v]
  BY <1>4, <1>5, ChargeType DEF IInv
<1>7. /\ policyLock' \in [Policies -> Sessions \cup {None}] /\ policyLock'[p] = w
      /\ \A o \in Policies : HoldStep(o, w)
  BY <1>1, <1>2 DEF IInv, TypeOK, HoldStep, PolicyFree
<1>8. TypeOK'
  BY <1>2, <1>6, <1>7 DEF IInv, TypeOK, RowsSame
<1>9. YearOf(w)' = year
  BY <1>0, <1>a, <1>2, <1>4, <1>6 DEF YearOf, RowsSame
<1>10. TickOK(w)'
  <2>1. Fits(inst'[p], year)
    BY <1>2 DEF Fits, Insertable, RowsSame
  <2>2. CountOK(w)'
    BY <1>0, <1>2, <1>3, <1>4, <1>6, <1>7, <1>9, <2>1 DEF CountOK, RowsSame
  <2> QED BY <1>1, <1>2, <1>4, <1>6, <2>2 DEF TickOK, RowsSame, IInv
<1>11. NewApart(w)
  <2>1. ASSUME NEW o \in Policies, NEW t \in Sessions PROVE Adds(w, o)' \cap Adds(t, o) = {}
    <3>1. CASE o = p
      <4>1. Adds(w, p)' = DOMAIN year
        BY <1>0, <1>1, <1>4, <1>6, <1>9 DEF Adds
      <4> QED BY <1>1, <1>2, <3>1, <4>1, AddsInserting
    <3>2. CASE o # p
      BY <1>0, <1>4, <1>6, <3>2 DEF Adds
    <3> QED BY <3>1, <3>2
  <2> QED BY <2>1 DEF NewApart
<1>12. StepOf(w)
  BY <1>1, <1>2, <1>6, <1>7, RowsSameKeeps DEF StepOf, LockStep
<1> QED BY <1>1, <1>2, <1>8, <1>10, <1>11, <1>12, RowsSameKeeps, StepKeeps

LEMMA SelectNextKeeps ==
  ASSUME IInv, NEW w \in Ticks, SelectNext(w)
  PROVE  IInv'
<1>1. /\ charge[w].phase = "COUNTED" /\ RowsSame /\ edit' = edit /\ rowLock' = rowLock
      /\ policyLock' = policyLock /\ used' = used /\ faults' = faults
      /\ w \in Sessions /\ w \notin Requests
  BY Constants DEF SelectNext, RowsSame
<1>2. PICK next : next = Earliest(ChargedRows(w))
  OBVIOUS
<1> DEFINE c == [charge[w] EXCEPT !.phase = "SELECTED", !.next = next]
<1>3. charge' = [charge EXCEPT ![w] = c]
  BY <1>2, ChargeType DEF IInv, SelectNext
<1>4. /\ c \in Charge /\ c.ids = charge[w].ids /\ c.at = charge[w].at
      /\ c.phase = "SELECTED" /\ c.saw = charge[w].saw
  <2>1. next \in Dates \cup {None}
    BY <1>2, EarliestType
  <2> QED BY <2>1, ChargeType DEF Charge, IInv
<1> HIDE DEF c
<1>5. /\ charge' \in [Ticks -> Charge] /\ charge'[w] = c
      /\ \A v \in Ticks : v # w => charge'[v] = charge[v]
  BY <1>3, <1>4, ChargeType DEF IInv
<1>6. TypeOK'
  BY <1>1, <1>5 DEF IInv, TypeOK, RowsSame
<1>7. YearOf(w)' = YearOf(w)
  BY <1>1, <1>4, <1>5 DEF YearOf, RowsSame
<1>8. TickOK(w)'
  <2>1. TickOK(w) /\ CountOK(w)
    BY <1>1 DEF IInv, TickOK, Counted
  <2>2. CountOK(w)'
    <3> HIDE DEF YearOf
    <3> QED BY <1>1, <1>4, <1>5, <1>7, <2>1 DEF CountOK, RowsSame
  <2> HIDE DEF CountOK
  <2> QED BY <1>1, <1>4, <1>5, <2>1, <2>2 DEF TickOK, RowsSame
<1>9. NewApart(w)
  <2>1. \A p \in Policies : Adds(w, p)' = Adds(w, p)
    BY <1>4, <1>5, <1>7 DEF Adds
  <2> QED BY <1>1, <2>1, AddsNone DEF IInv
<1>10. StepOf(w)
  BY <1>1, <1>5, RowsSameKeeps, SameLocks DEF StepOf
<1> QED BY <1>1, <1>6, <1>8, <1>9, <1>10, RowsSameKeeps, StepKeeps

LEMMA YearOfType ==
  ASSUME IInv, NEW w \in Ticks
  PROVE  Whole(YearOf(w))
<1>0. PICK p, d : p = charge[w].at[1] /\ d = charge[w].at[2]
  OBVIOUS
<1>1. CASE Counted(w) /\ Extends(policies[p], charge[w].saw)
  <2>1. p \in Policies /\ d \in Dates
    BY <1>0, <1>1, ChargeType DEF IInv, TickOK, Counted
  <2>2. policies[p] \in PolicyRow
    BY <2>1, StateTypes DEF IInv
  <2>3. /\ policies[p].annual \in Nat /\ policies[p].every \in Frequencies
        /\ policies[p].end \in Dates \cup {None}
    BY <1>1, <2>2, PolicyType DEF Extends
  <2>4. d \in Int /\ Gap(policies[p].every) \in Int
    BY <2>1, <2>3, GapType, InsuranceAssumption DEF Dates
  <2>5. d + Gap(policies[p].every) \in Int
    BY <2>4
  <2>6. Whole(NextYear(policies[p], d))
    BY <2>3, <2>5, YearType DEF NextYear, Whole
  <2> QED BY <1>0, <2>6 DEF YearOf, NewYear, Whole
<1>2. CASE ~(Counted(w) /\ Extends(policies[p], charge[w].saw))
  BY <1>0, <1>2 DEF YearOf, NewYear, Whole, Counted
<1> QED BY <1>1, <1>2

ChargedPolicy(w) ==
  LET p == charge[w].at[1] IN
  [policies[p] EXCEPT
     !.status = IF Completes(policies[p], charge[w].saw, charge[w].at[2]) THEN "COMPLETED" ELSE @,
     !.next = charge[w].next]

\* Tick w works on the premium of date d of policy p, which it holds.
Works(w, p, d) ==
  /\ p = charge[w].at[1] /\ d = charge[w].at[2] /\ p \in Policies /\ d \in Dates
  /\ policyLock[p] = w /\ policies[p].status = "ACTIVE"
  /\ rowLock[p][d] = w /\ inst[p][d].status = "PENDING"
  /\ Adds(w, p) = DOMAIN YearOf(w) /\ Fits(inst[p], YearOf(w))

\* The rows of p that a charge of the premium of date d leaves, and its new year.
LEMMA ChargedRowsAre ==
  ASSUME IInv, NEW w \in Ticks, NEW p, NEW d, Works(w, p, d)
  PROVE  /\ ChargedRows(w) \in [Dates -> InstallmentRow]
         /\ ChargedRows(w)[d].status = "PAID"
         /\ ChargedRows(w)[d].amount = inst[p][d].amount
         /\ \A e \in Dates \ {d} :
              \/ ChargedRows(w)[e] = inst[p][e] /\ e \notin DOMAIN YearOf(w)
              \/ /\ inst[p][e].status = "ABSENT" /\ ChargedRows(w)[e].status = "PENDING"
                 /\ e \in DOMAIN YearOf(w)
<1>1. /\ inst[p] \in [Dates -> InstallmentRow] /\ inst[p][d] \in InstallmentRow
  BY StateTypes DEF IInv, Works
<1>2. /\ PaidRows(p, d) \in [Dates -> InstallmentRow]
      /\ PaidRows(p, d)[d].status = "PAID" /\ PaidRows(p, d)[d].amount = inst[p][d].amount
      /\ \A e \in Dates \ {d} : PaidRows(p, d)[e] = inst[p][e]
  BY <1>1, StatusType DEF PaidRows, Works
<1>3. Whole(YearOf(w)) /\ d \notin DOMAIN YearOf(w) /\ Fits(inst[p], YearOf(w)) /\ d \in Dates
  BY YearOfType DEF Works, Fits
<1>4. ChargedRows(w) = Insert(PaidRows(p, d), YearOf(w))
  BY DEF ChargedRows, Works
<1> HIDE DEF YearOf, PaidRows, ChargedRows
<1>5. Fits(PaidRows(p, d), YearOf(w))
  BY <1>2, <1>3 DEF Fits
<1>6. /\ ChargedRows(w) \in [Dates -> InstallmentRow]
      /\ \A e \in Dates :
           IF e \in DOMAIN YearOf(w)
           THEN PaidRows(p, d)[e].status = "ABSENT" /\ ChargedRows(w)[e].status = "PENDING"
           ELSE ChargedRows(w)[e] = PaidRows(p, d)[e]
  BY <1>2, <1>3, <1>4, <1>5, InsertType
<1> QED BY <1>2, <1>3, <1>6

LEMMA WorksIs ==
  ASSUME IInv, NEW w \in Ticks, Counted(w)
  PROVE  Works(w, charge[w].at[1], charge[w].at[2])
<1>1. charge[w].at # None /\ TickOK(w)
  BY DEF IInv, TickOK, Counted
<1>2. charge[w].at[1] \in Policies /\ charge[w].at[2] \in Dates
  BY <1>1, ChargeType DEF IInv
<1>3. Adds(w, charge[w].at[1]) = DOMAIN YearOf(w)
  BY <1>1 DEF Adds
<1> HIDE DEF YearOf, Adds
<1> QED BY <1>1, <1>2, <1>3 DEF Works, TickOK, CountOK

\* It charges that premium.
Charges(w, p, d) ==
  /\ Works(w, p, d)
  /\ inst' = [inst EXCEPT ![p] = ChargedRows(w)]
  /\ spent' = [spent EXCEPT ![p][d] = @ + inst[p][d].amount]
  /\ policies' = [policies EXCEPT ![p] = ChargedPolicy(w)]
  /\ Release(w)

LEMMA ChargeIs ==
  ASSUME IInv, NEW w \in Ticks, ChargeInstallment(w)
  PROVE  Charges(w, charge[w].at[1], charge[w].at[2])
<1>0. PICK p, d : p = charge[w].at[1] /\ d = charge[w].at[2]
  OBVIOUS
<1>1. Works(w, p, d)
  BY <1>0, WorksIs DEF ChargeInstallment, Counted
<1>2. /\ inst' = [inst EXCEPT ![p] = ChargedRows(w)] /\ Release(w)
      /\ spent' = [spent EXCEPT ![p][d] = @ + inst[p][d].amount]
      /\ policies' = [policies EXCEPT
           ![p].status = IF Completes(policies[p], charge[w].saw, d) THEN "COMPLETED" ELSE @,
           ![p].next = charge[w].next]
  BY <1>0 DEF ChargeInstallment
<1>3. policies \in [Policies -> PolicyRow] /\ policies[p] \in PolicyRow /\ p \in Policies
  BY <1>1, StateTypes DEF IInv, TypeOK, Works
<1>4. policies' = [policies EXCEPT ![p] = ChargedPolicy(w)]
  BY <1>0, <1>2, <1>3 DEF PolicyRow, ChargedPolicy
<1> QED BY <1>0, <1>1, <1>2, <1>4 DEF Charges

LEMMA ChargedPolicyIs ==
  ASSUME IInv, NEW w \in Ticks, NEW p, NEW d, Works(w, p, d)
  PROVE  /\ ChargedPolicy(w) \in PolicyRow /\ ChargedPolicy(w).rule = policies[p].rule
         /\ ChargedPolicy(w).next = charge[w].next
         /\ ChargedPolicy(w).status
              = IF Completes(policies[p], charge[w].saw, d) THEN "COMPLETED" ELSE "ACTIVE"
         /\ ChargedPolicy(w).mode = policies[p].mode
         /\ ChargedPolicy(w).annual = policies[p].annual
         /\ ChargedPolicy(w).every = policies[p].every
         /\ ChargedPolicy(w).end = policies[p].end
<1>1. Completes(policies[p], charge[w].saw, d) \in BOOLEAN
  BY DEF Completes, Extends
<1>2. PICK done \in BOOLEAN, next \in Dates \cup {None} :
        /\ done = Completes(policies[p], charge[w].saw, d)
        /\ next = charge[w].next
  BY <1>1, ChargeType DEF IInv
<1>3. policies[p] \in PolicyRow /\ policies[p].status = "ACTIVE"
  BY StateTypes DEF IInv, Works
<1>4. ChargedPolicy(w) = [policies[p] EXCEPT !.status = IF done THEN "COMPLETED" ELSE @,
                                             !.next = next]
  BY <1>2 DEF ChargedPolicy, Works
<1> QED BY <1>2, <1>3, <1>4 DEF PolicyRow, Statuses

LEMMA ChargeInstallmentKeeps ==
  ASSUME IInv, NEW w \in Ticks, ChargeInstallment(w)
  PROVE  IInv'
<1>1. PICK p, d : Charges(w, p, d)
  BY ChargeIs
<1>a. PICK rows, pol : rows = ChargedRows(w) /\ pol = ChargedPolicy(w)
  OBVIOUS
<1>2. /\ p \in Policies /\ d \in Dates /\ rowLock[p][d] = w /\ inst[p][d].status = "PENDING"
      /\ policyLock[p] = w /\ Works(w, p, d)
      /\ inst' = [inst EXCEPT ![p] = rows]
      /\ spent' = [spent EXCEPT ![p][d] = @ + inst[p][d].amount]
      /\ policies' = [policies EXCEPT ![p] = pol]
      /\ Release(w) /\ w \in Sessions /\ w \notin Requests
  BY <1>1, <1>a, Constants DEF Charges, Works
<1>3. /\ inst \in [Policies -> [Dates -> InstallmentRow]]
      /\ spent \in [Policies -> [Dates -> Nat]]
      /\ policies \in [Policies -> PolicyRow]
      /\ inst[p][d].amount \in Nat
  BY <1>2, StateTypes DEF IInv, TypeOK, InstallmentRow
<1>4. /\ rows \in [Dates -> InstallmentRow]
      /\ rows[d].status = "PAID" /\ rows[d].amount = inst[p][d].amount
      /\ \A e \in Dates \ {d} :
           \/ rows[e] = inst[p][e]
           \/ inst[p][e].status = "ABSENT" /\ rows[e].status = "PENDING" /\ e \in Adds(w, p)
  <2>1. Adds(w, p) = DOMAIN YearOf(w)
    BY <1>2 DEF Works
  <2> QED BY <1>a, <1>2, <2>1, ChargedRowsAre
<1>5. pol \in PolicyRow /\ pol.rule = policies[p].rule /\ pol.status # "ABSENT"
  BY <1>a, <1>2, ChargedPolicyIs
<1>6. /\ rowLock' \in [Policies -> [Dates -> Sessions \cup {None}]]
      /\ policyLock' \in [Policies -> Sessions \cup {None}]
      /\ \A o \in Policies, e \in Dates : LockStep(o, e, w)
      /\ \A o \in Policies : HoldStep(o, w)
      /\ charge' \in [Ticks -> Charge] /\ charge'[w].at = None
      /\ charge'[w].ids = charge[w].ids /\ charge'[w].phase = "IDLE"
      /\ \A v \in Ticks : v # w => charge'[v] = charge[v]
  BY <1>2, ReleaseType, UnlocksType
<1>7. /\ inst' \in [Policies -> [Dates -> InstallmentRow]]
      /\ inst'[p] = rows /\ \A o \in Policies : o # p => inst'[o] = inst[o]
  BY <1>2, <1>3, <1>4
<1>8. /\ policies' \in [Policies -> PolicyRow]
      /\ policies'[p] = pol /\ \A o \in Policies : o # p => policies'[o] = policies[o]
  BY <1>2, <1>3, <1>5
<1>9. /\ spent' \in [Policies -> [Dates -> Nat]]
      /\ spent'[p][d] = spent[p][d] + inst[p][d].amount
      /\ \A o \in Policies, e \in Dates : <<o, e>> # <<p, d>> => spent'[o][e] = spent[o][e]
  BY <1>2, <1>3
<1>10. edit' = edit /\ day' = day /\ used' = used /\ faults' = faults
  BY DEF ChargeInstallment
<1>11. TypeOK'
  BY <1>6, <1>7, <1>8, <1>9, <1>10 DEF IInv, TypeOK
<1>12. TickOK(w)' /\ ~Counted(w)'
  BY <1>6, <1>10 DEF TickOK, IInv, Counted
<1>13. StepOf(w)
  <2>1. ASSUME NEW o \in Policies, NEW e \in Dates PROVE RowStep(o, e, w)
    <3>1. \A t \in Sessions : t # w => Adds(w, p) \cap Adds(t, p) = {}
      BY <1>2 DEF IInv, AddsApart
    <3>2. CASE o = p /\ e # d
      BY <1>4, <1>7, <2>1, <3>1, <3>2 DEF RowStep
    <3>3. CASE o = p /\ e = d
      BY <1>2, <1>4, <1>7, <3>3 DEF RowStep
    <3>4. CASE o # p
      BY <1>7, <3>4 DEF RowStep
    <3> QED BY <3>2, <3>3, <3>4
  <2>2. \A o \in Policies : PolicyStep(o, w)
    BY <1>2, <1>5, <1>8 DEF PolicyStep, SameColumns
  <2> QED BY <2>1, <2>2, <1>2, <1>6, <1>10 DEF StepOf
<1>14. ChargedOnce'
  <2>1. spent[p][d] = 0 /\ \A o \in Policies, e \in Dates :
          spent[o][e] = IF inst[o][e].status = "PAID" THEN inst[o][e].amount ELSE 0
    BY <1>2 DEF IInv, ChargedOnce
  <2>2. ASSUME NEW o \in Policies, NEW e \in Dates
        PROVE  spent'[o][e] = IF inst'[o][e].status = "PAID" THEN inst'[o][e].amount ELSE 0
    <3>1. CASE o = p /\ e = d
      BY <1>3, <1>4, <1>7, <1>9, <2>1, <3>1
    <3>2. CASE o = p /\ e # d
      BY <1>4, <1>7, <1>9, <2>1, <3>2
    <3>3. CASE o # p
      BY <1>7, <1>9, <2>1, <3>3
    <3> QED BY <3>1, <3>2, <3>3
  <2> QED BY <2>2 DEF ChargedOnce
<1>15. OneCollector'
  <2>1. ~policies[p].rule
    BY <1>2 DEF IInv, OneCollector
  <2>2. OneCollector
    BY DEF IInv
  <2> QED BY <1>5, <1>7, <1>8, <2>1, <2>2 DEF OneCollector
<1>16. day <= day'
  BY <1>10 DEF IInv, TypeOK
<1>17. NewApart(w)
  BY <1>2, <1>12, TickAddsNone, AddsNone DEF IInv
<1> QED
  BY <1>2, <1>11, <1>12, <1>13, <1>14, <1>15, <1>16, <1>17, StepKeeps

-----------------------------------------------------------------------------
(* The requests.                                                           *)

CreateRows(p, req, m) == Insert(inst[p], Wanted(m, req.end))
CreatedPolicy(p, req, m) ==
  [Rescheduled(AbsentPolicy, m) EXCEPT !.status = "ACTIVE", !.end = req.end,
                                       !.next = Earliest(CreateRows(p, req, m))]

LEMMA RescheduledType ==
  ASSUME NEW pol \in PolicyRow, NEW m, m.mode \in Modes,
         m.annual \in (Nat \ {0}) \cup {None}, m.every \in Frequencies \cup {None}
  PROVE  /\ Rescheduled(pol, m) \in PolicyRow
         /\ Rescheduled(pol, m).rule = FALSE
BY DEF Rescheduled, PolicyRow

\* What a create asks for: no schedule, unless a mode is sent.
Asked(req) == [Merged(AbsentPolicy, req) EXCEPT !.mode = IF @ = None THEN "NONE" ELSE @]

LEMMA CreateInsuranceKeeps ==
  ASSUME IInv, CreateInsurance
  PROVE  IInv'
<1>1. PICK p \in Policies, req \in Drafts :
        /\ policies[p].status = "ABSENT" /\ ValidSchedule(Asked(req))
        /\ Insertable(inst[p], Wanted(Asked(req), req.end))
        /\ inst' = [inst EXCEPT ![p] = CreateRows(p, req, Asked(req))]
        /\ policies' = [policies EXCEPT ![p] = CreatedPolicy(p, req, Asked(req))]
  BY DEF CreateInsurance, CreateRows, CreatedPolicy, Asked
<1>2. /\ Asked(req).mode \in Modes /\ Asked(req).annual \in (Nat \ {0}) \cup {None}
      /\ Asked(req).every \in Frequencies \cup {None} /\ Asked(req).next \in Dates \cup {None}
      /\ \A d \in DOMAIN Asked(req).dates : Asked(req).dates[d] \in Nat \ {0}
  <2> DEFINE c == Merged(AbsentPolicy, req)
  <2>1. /\ c.mode \in Modes /\ c.annual \in (Nat \ {0}) \cup {None}
        /\ c.every \in Frequencies \cup {None} /\ c.next \in Dates \cup {None}
        /\ \A d \in DOMAIN c.dates : c.dates[d] \in Nat \ {0}
    BY MergedType, Constants
  <2>2. c = [mode |-> c.mode, annual |-> c.annual, every |-> c.every, next |-> c.next,
             dates |-> c.dates]
    BY DEF Merged
  <2>3. Asked(req) = [c EXCEPT !.mode = IF @ = None THEN "NONE" ELSE @]
    BY DEF Asked
  <2> HIDE DEF c
  <2> QED BY <2>1, <2>2, <2>3 DEF Modes
<1>3. req.end \in Dates \cup {None}
  BY RequestType
<1> DEFINE rows == CreateRows(p, req, Asked(req))
           pol == CreatedPolicy(p, req, Asked(req))
<1>4. /\ rows \in [Dates -> InstallmentRow]
      /\ \A d \in Dates : \/ rows[d] = inst[p][d]
                          \/ inst[p][d].status = "ABSENT" /\ rows[d].status = "PENDING"
  <2>1. Whole(Wanted(Asked(req), req.end))
    BY <1>1, <1>2, <1>3, WantedType
  <2>2. Fits(inst[p], Wanted(Asked(req), req.end))
    BY <1>1 DEF Fits, Insertable
  <2>3. inst[p] \in [Dates -> InstallmentRow]
    BY StateTypes DEF IInv
  <2> QED BY <2>1, <2>2, <2>3, InsertType DEF CreateRows
<1>5. pol \in PolicyRow /\ pol.rule = FALSE /\ pol.status = "ACTIVE"
  <2>1. /\ Rescheduled(AbsentPolicy, Asked(req)) \in PolicyRow
        /\ Rescheduled(AbsentPolicy, Asked(req)).rule = FALSE
    BY <1>2, RescheduledType, Constants
  <2>2. Earliest(rows) \in Dates \cup {None}
    BY EarliestType
  <2>3. "ACTIVE" \in Statuses
    BY DEF Statuses
  <2> QED BY <1>3, <2>1, <2>2, <2>3 DEF PolicyRow, CreatedPolicy
<1> HIDE DEF rows, pol
<1>6. inst' = [inst EXCEPT ![p] = rows] /\ policies' = [policies EXCEPT ![p] = pol]
  BY <1>1 DEF rows, pol
<1>7. /\ inst' \in [Policies -> [Dates -> InstallmentRow]]
      /\ inst'[p] = rows /\ \A o \in Policies : o # p => inst'[o] = inst[o]
      /\ policies' \in [Policies -> PolicyRow]
      /\ policies'[p] = pol /\ \A o \in Policies : o # p => policies'[o] = policies[o]
  BY <1>4, <1>5, <1>6 DEF IInv, TypeOK
<1>8. /\ day' = day /\ spent' = spent /\ policyLock' = policyLock /\ rowLock' = rowLock
      /\ charge' = charge /\ edit' = edit /\ faults' = faults /\ used' \in 0..MaxRequests
  BY InsuranceAssumption DEF CreateInsurance, Count, IInv, TypeOK
<1>9. TypeOK'
  BY <1>7, <1>8 DEF IInv, TypeOK
<1>a. policyLock[p] = None
  BY <1>1 DEF IInv, HeldExists
<1>b. ASSUME NEW t \in Sessions PROVE Adds(t, p) = {}
  <2>1. CASE t \in Ticks
    <3>1. charge[t].at # None /\ charge[t].at[1] = p => ~Counted(t)
      BY <1>1, <2>1 DEF IInv, TickOK, CountOK
    <3> QED BY <2>1, <3>1 DEF Adds, YearOf, Counted
  <2>2. CASE t \notin Ticks
    <3>1. t \in Requests
      BY <2>2 DEF Sessions
    <3>2. ~Scheduling(t, p)
      BY <1>1, <3>1 DEF IInv, EditOK, Scheduling
    <3> QED BY <2>2, <3>2 DEF Adds
  <2> QED BY <2>1, <2>2
<1>10. StepOf(None)
  <2>1. \A o \in Policies, e \in Dates : RowStep(o, e, None)
    BY <1>4, <1>7, <1>b DEF RowStep
  <2>2. \A o \in Policies : PolicyStep(o, None)
    BY <1>5, <1>7, <1>a DEF PolicyStep, SameColumns
  <2> QED BY <1>8, <2>1, <2>2, SameLocks DEF StepOf, LockStep, HoldStep
<1>11. ChargedOnce'
  <2>1. \A o \in Policies, e \in Dates :
          \/ inst'[o][e] = inst[o][e]
          \/ inst[o][e].status # "PAID" /\ inst'[o][e].status # "PAID"
    BY <1>4, <1>7
  <2> QED BY <1>8, <2>1, ChargedOnceKept DEF IInv
<1>12. OneCollector'
  BY <1>5, <1>7 DEF IInv, OneCollector
<1>13. day <= day' /\ None \notin Ticks /\ None \notin Requests /\ None \notin Sessions
  BY <1>8, Constants DEF IInv, TypeOK
<1> QED BY <1>9, <1>10, <1>11, <1>12, <1>13, StepKeeps

LEMMA EditIs ==
  ASSUME IInv, NEW q \in Requests
  PROVE  /\ edit \in [Requests -> EditRecord] /\ edit[q] \in EditRecord
         /\ EditOK(q)
BY DEF IInv, TypeOK

\* Steps of a request that change its edit only.
LEMMA EditSteps ==
  ASSUME IInv, NEW q \in Requests, NEW e \in EditRecord, edit' = [edit EXCEPT ![q] = e],
         RowsSame, charge' = charge, faults' = faults, used' \in 0..MaxRequests,
         policyLock' \in [Policies -> Sessions \cup {None}],
         rowLock' \in [Policies -> [Dates -> Sessions \cup {None}]],
         \A p \in Policies, d \in Dates : LockStep(p, d, q),
         \A p \in Policies : HoldStep(p, q),
         EditOK(q)', NewApart(q)
  PROVE  IInv'
<1>1. /\ edit' \in [Requests -> EditRecord]
      /\ \A r \in Requests : r # q => edit'[r] = edit[r]
  BY EditIs
<1>2. TypeOK'
  BY <1>1 DEF IInv, TypeOK, RowsSame
<1>3. q \in Sessions /\ q \notin Ticks
  BY Constants
<1>4. StepOf(q)
  BY <1>1, <1>3, RowsSameKeeps DEF StepOf
<1> QED
  BY <1>2, <1>3, <1>4, StepKeeps, RowsSameKeeps

LEMMA EditAddsNone ==
  ASSUME IInv, NEW q \in Requests, (edit[q].phase # "SCHEDULED")'
  PROVE  NewApart(q)
<1>1. q \in Sessions /\ q \notin Ticks
  BY Constants
<1>2. \A p \in Policies : Adds(q, p)' = {}
  BY <1>1 DEF Adds, Scheduling
<1> QED BY <1>1, <1>2, AddsNone DEF IInv

\* ... and after which it has inserted nothing.
LEMMA EditFrame ==
  ASSUME IInv, NEW q \in Requests, NEW e \in EditRecord, edit' = [edit EXCEPT ![q] = e],
         RowsSame, charge' = charge, faults' = faults, used' \in 0..MaxRequests,
         policyLock' \in [Policies -> Sessions \cup {None}],
         rowLock' \in [Policies -> [Dates -> Sessions \cup {None}]],
         \A p \in Policies, d \in Dates : LockStep(p, d, q),
         \A p \in Policies : HoldStep(p, q),
         EditOK(q)', e.phase # "SCHEDULED"
  PROVE  IInv'
<1>1. edit'[q] = e
  BY EditIs
<1>2. NewApart(q)
  BY <1>1, EditAddsNone
<1> QED BY <1>2, EditSteps

\* What a request asks for is decided by its body and what it loaded.
LEMMA SameRequest ==
  ASSUME NEW e, NEW f, e.op = f.op, e.req = f.req, e.seen = f.seen
  PROVE  /\ NewEnd(e) = NewEnd(f) /\ NewStatus(e) = NewStatus(f) /\ Dirty(e) = Dirty(f)
         /\ NewSchedule(e) = NewSchedule(f) /\ WritesSchedule(e) = WritesSchedule(f)
         /\ Cancels(e) = Cancels(f) /\ MayWriteSchedule(e) = MayWriteSchedule(f)
         /\ KeepsRule(e, TRUE) = KeepsRule(f, TRUE)
BY DEF NewEnd, NewStatus, Dirty, NewSchedule, WritesSchedule, Cancels, MayWriteSchedule, KeepsRule

\* A lock of the policy that a request has loaded.
LEMMA TakeType ==
  ASSUME IInv, NEW q \in Requests, edit[q].phase # "IDLE",
         TakePolicy(edit[q].policy, q) \/ UNCHANGED policyLock
  PROVE  /\ policyLock' \in [Policies -> Sessions \cup {None}]
         /\ \A p \in Policies : HoldStep(p, q)
         /\ edit[q].policy \in Policies
         /\ policyLock[edit[q].policy] = q \/ TakePolicy(edit[q].policy, q)
              => policyLock'[edit[q].policy] = q
<1>1. PICK p : p = edit[q].policy
  OBVIOUS
<1>2. p \in Policies /\ policies[p].status # "ABSENT" /\ q \in Sessions
  BY <1>1, EditIs, Constants DEF EditOK
<1>3. policyLock \in [Policies -> Sessions \cup {None}]
  BY DEF IInv, TypeOK
<1>4. CASE TakePolicy(p, q)
  BY <1>1, <1>2, <1>3, <1>4 DEF TakePolicy, PolicyFree, HoldStep
<1>5. CASE UNCHANGED policyLock
  BY <1>1, <1>2, <1>3, <1>5 DEF HoldStep, TakePolicy
<1> QED BY <1>1, <1>4, <1>5

LEMMA LoadKeeps ==
  ASSUME IInv, NEW q \in Requests, NEW op \in {"update", "delete"}, NEW req \in Request,
         Load(q, op, req)
  PROVE  IInv'
<1>1. PICK p \in Policies :
        /\ policies[p].status \notin {"ABSENT", "CANCELLED"}
        /\ Reschedules(req) => ValidSchedule(Merged(policies[p], req))
        /\ edit' = [edit EXCEPT ![q] = [op |-> op, policy |-> p, seen |-> policies[p],
                                        req |-> req, targets |-> {}, phase |-> "LOADED",
                                        next |-> None]]
  BY DEF Load
<1> DEFINE e == [op |-> op, policy |-> p, seen |-> policies[p],
                 req |-> req, targets |-> {}, phase |-> "LOADED", next |-> None]
<1>2. e \in EditRecord
  BY StateTypes DEF IInv, EditRecord, Request
<1>4. /\ RowsSame /\ charge' = charge /\ faults' = faults /\ used' \in 0..MaxRequests
      /\ policyLock' \in [Policies -> Sessions \cup {None}]
      /\ rowLock' \in [Policies -> [Dates -> Sessions \cup {None}]]
      /\ \A o \in Policies, d \in Dates : LockStep(o, d, q)
      /\ \A o \in Policies : HoldStep(o, q)
  BY InsuranceAssumption DEF Load, Count, RowsSame, LockStep, HoldStep, IInv, TypeOK
<1>3. EditOK(q)'
  <2>1. edit'[q] = e
    BY <1>1, EditIs
  <2> QED BY <1>1, <1>4, <2>1 DEF EditOK, Wrote, RowsSame
<1>5. e.phase # "SCHEDULED"
  OBVIOUS
<1> HIDE DEF e
<1>6. edit' = [edit EXCEPT ![q] = e]
  BY <1>1 DEF e
<1> QED BY <1>2, <1>3, <1>4, <1>5, <1>6, EditFrame

LEMMA FlushPolicyKeeps ==
  ASSUME IInv, NEW q \in Requests, FlushPolicy(q)
  PROVE  IInv'
<1> DEFINE e == [edit[q] EXCEPT !.phase = "FLUSHED"]
<1>1. /\ edit[q].phase = "LOADED" /\ edit' = [edit EXCEPT ![q] = e]
      /\ TakePolicy(edit[q].policy, q)
  BY EditIs DEF FlushPolicy, Move
<1>2. /\ e \in EditRecord /\ e.phase = "FLUSHED" /\ e.policy = edit[q].policy
      /\ e.req = edit[q].req /\ e.seen = edit[q].seen /\ e.targets = edit[q].targets
  BY EditIs DEF EditRecord
<1> HIDE DEF e
<1>3. /\ RowsSame /\ charge' = charge /\ faults' = faults /\ used' \in 0..MaxRequests
      /\ policyLock' \in [Policies -> Sessions \cup {None}]
      /\ policyLock'[edit[q].policy] = q
      /\ rowLock' \in [Policies -> [Dates -> Sessions \cup {None}]]
      /\ \A o \in Policies, d \in Dates : LockStep(o, d, q)
      /\ \A o \in Policies : HoldStep(o, q)
  BY <1>1, TakeType DEF FlushPolicy, RowsSame, LockStep, IInv, TypeOK
<1>4. EditOK(q)'
  <2>1. edit'[q] = e /\ EditOK(q)
    BY <1>1, EditIs
  <2> QED BY <1>1, <1>2, <1>3, <2>1 DEF EditOK, RowsSame
<1> QED BY <1>1, <1>2, <1>3, <1>4, EditFrame

LEMMA SelectPendingKeeps ==
  ASSUME IInv, NEW q \in Requests, SelectPending(q)
  PROVE  IInv'
<1> DEFINE e == [edit[q] EXCEPT !.phase = "CANCELLING", !.targets = PendingOf(inst[edit[q].policy])]
<1>1. /\ edit' = [edit EXCEPT ![q] = e] /\ Flushed(edit[q])
      /\ edit[q].phase \in {"LOADED", "FLUSHED"}
  BY EditIs DEF SelectPending, Flushed
<1>2. /\ e \in EditRecord /\ e.phase = "CANCELLING" /\ e.policy = edit[q].policy
      /\ e.op = edit[q].op /\ e.req = edit[q].req /\ e.seen = edit[q].seen
  <2>1. PendingOf(inst[edit[q].policy]) \in SUBSET Dates
    BY DEF PendingOf
  <2> QED BY <2>1, EditIs DEF EditRecord
<1> HIDE DEF e
<1>3. /\ RowsSame /\ charge' = charge /\ faults' = faults /\ used' \in 0..MaxRequests
      /\ policyLock' = policyLock
      /\ policyLock' \in [Policies -> Sessions \cup {None}]
      /\ rowLock' \in [Policies -> [Dates -> Sessions \cup {None}]]
      /\ \A o \in Policies, d \in Dates : LockStep(o, d, q)
      /\ \A o \in Policies : HoldStep(o, q)
  BY DEF SelectPending, RowsSame, LockStep, HoldStep, IInv, TypeOK
<1>4. EditOK(q)'
  <2>1. edit'[q] = e /\ EditOK(q)
    BY <1>1, EditIs
  <2>2. Wrote(e) => policyLock[e.policy] = q
    <3>1. Dirty(e) = Dirty(edit[q])
      BY <1>2, SameRequest
    <3> QED BY <1>1, <1>2, <2>1, <3>1 DEF Wrote, EditOK, Flushed
  <2> HIDE DEF Wrote
  <2> QED BY <1>1, <1>2, <1>3, <2>1, <2>2 DEF EditOK, RowsSame
<1> QED BY <1>1, <1>2, <1>3, <1>4, EditFrame

LEMMA LockPendingKeeps ==
  ASSUME IInv, NEW q \in Requests, LockPending(q)
  PROVE  IInv'
<1>0. PICK p, kept : p = edit[q].policy /\ kept = StillPending(edit[q])
  OBVIOUS
<1> DEFINE e == [edit[q] EXCEPT !.phase = "READY", !.targets = kept]
<1>1. p \in Policies /\ q \in Sessions /\ edit[q].phase = "CANCELLING"
  BY <1>0, EditIs, Constants DEF LockPending, EditOK
<1>2. kept \in SUBSET Dates /\ \A d \in kept : inst[p][d].status = "PENDING"
  BY <1>0, EditIs, EditType DEF StillPending, PendingOf
<1>3. edit' = [edit EXCEPT ![q] = e]
  BY <1>0, EditIs DEF LockPending
<1>4. /\ e \in EditRecord /\ e.phase = "READY" /\ e.policy = p /\ e.targets = kept
      /\ e.op = edit[q].op /\ e.req = edit[q].req /\ e.seen = edit[q].seen
  BY <1>0, <1>2, EditIs DEF EditRecord
<1> HIDE DEF e
<1>5. /\ rowLock' = [rowLock EXCEPT ![p] = [d \in Dates |-> IF d \in kept THEN q ELSE rowLock[p][d]]]
      /\ \A d \in kept : rowLock[p][d] \in {None, q}
  BY <1>0 DEF LockPending, StillPending
<1>6. /\ rowLock' \in [Policies -> [Dates -> Sessions \cup {None}]]
      /\ \A o \in Policies, d \in Dates : LockStep(o, d, q)
      /\ \A d \in kept : rowLock'[p][d] = q
  <2>1. rowLock \in [Policies -> [Dates -> Sessions \cup {None}]]
    BY DEF IInv, TypeOK
  <2> QED BY <1>1, <1>2, <1>5, <2>1 DEF LockStep
<1>7. /\ RowsSame /\ charge' = charge /\ faults' = faults /\ used' \in 0..MaxRequests
      /\ policyLock' = policyLock
      /\ policyLock' \in [Policies -> Sessions \cup {None}]
      /\ \A o \in Policies : HoldStep(o, q)
  BY DEF LockPending, RowsSame, IInv, TypeOK, HoldStep
<1>8. EditOK(q)'
  <2>1. edit'[q] = e /\ EditOK(q)
    BY <1>3, EditIs
  <2>2. inst' = inst /\ policies' = policies
    BY <1>7 DEF RowsSame
  <2>3. Wrote(e) => policyLock[p] = q
    <3>1. Dirty(e) = Dirty(edit[q])
      BY <1>4, SameRequest
    <3> QED BY <1>0, <1>1, <1>4, <2>1, <3>1 DEF Wrote, EditOK
  <2> HIDE DEF Wrote
  <2> QED BY <1>0, <1>1, <1>2, <1>4, <1>6, <1>7, <2>1, <2>2, <2>3 DEF EditOK
<1> QED BY <1>3, <1>4, <1>6, <1>7, <1>8, EditFrame

\* The rows that an edit has locked and will cancel.
LEMMA CancelledRowsAre ==
  ASSUME IInv, NEW q \in Requests, NEW e, e = edit[q],
         e.phase \in {"LOADED", "FLUSHED", "READY", "SCHEDULED"}
  PROVE  /\ e.policy \in Policies /\ e.targets \in SUBSET Dates
         /\ \A d \in e.targets : rowLock[e.policy][d] = q /\ inst[e.policy][d].status = "PENDING"
         /\ CancelledRows(e) \in [Dates -> InstallmentRow]
         /\ \A d \in Dates : IF d \in e.targets THEN CancelledRows(e)[d].status = "CANCELLED"
                             ELSE CancelledRows(e)[d] = inst[e.policy][d]
<1>1. e \in EditRecord /\ EditOK(q)
  BY EditIs
<1>2. e.policy \in Policies
  BY <1>1 DEF EditOK
<1>3. /\ e.targets \in SUBSET Dates
      /\ \A d \in e.targets : rowLock[e.policy][d] = q /\ inst[e.policy][d].status = "PENDING"
  BY <1>1, EditType DEF EditOK
<1>4. inst[e.policy] \in [Dates -> InstallmentRow]
  BY <1>2, StateTypes DEF IInv
<1>5. ASSUME NEW d \in Dates
      PROVE  /\ [inst[e.policy][d] EXCEPT !.status = "CANCELLED"] \in InstallmentRow
             /\ [inst[e.policy][d] EXCEPT !.status = "CANCELLED"].status = "CANCELLED"
  <2>1. inst[e.policy][d] \in InstallmentRow
    BY <1>4
  <2> QED BY <2>1, StatusType
<1> QED BY <1>2, <1>3, <1>4, <1>5 DEF CancelledRows

LEMMA ApplyScheduleKeeps ==
  ASSUME IInv, NEW q \in Requests, ApplySchedule(q)
  PROVE  IInv'
<1>0. PICK e, p : e = edit[q] /\ p = e.policy
  OBVIOUS
<1>a. PICK next : next = IF e.op = "delete" THEN None
                         ELSE Earliest(Insert(CancelledRows(e), NewSchedule(e)))
  OBVIOUS
<1> DEFINE f == [e EXCEPT !.phase = "SCHEDULED", !.next = next]
<1>1. /\ e \in EditRecord /\ EditOK(q) /\ e.phase = "READY"
      /\ Insertable(CancelledRows(e), NewSchedule(e))
      /\ DOMAIN NewSchedule(e) \cap Inserting(p) = {}
      /\ \/ TakePolicy(p, q)
         \/ ~WritesSchedule(e) /\ UNCHANGED policyLock
      /\ RowsSame /\ charge' = charge /\ faults' = faults /\ used' = used /\ rowLock' = rowLock
  BY <1>0, EditIs DEF ApplySchedule, RowsSame
<1>2. edit' = [edit EXCEPT ![q] = f]
  BY <1>0, <1>a, EditIs DEF ApplySchedule
<1>3. /\ f \in EditRecord /\ f.phase = "SCHEDULED" /\ f.policy = p
      /\ f.op = e.op /\ f.req = e.req /\ f.seen = e.seen /\ f.targets = e.targets
  <2>1. next \in Dates \cup {None}
    BY <1>a, EarliestType
  <2> QED BY <1>0, <1>1, <2>1 DEF EditRecord
<1> HIDE DEF f
<1>4. /\ policyLock' \in [Policies -> Sessions \cup {None}]
      /\ \A o \in Policies : HoldStep(o, q)
      /\ p \in Policies
      /\ policyLock[p] = q \/ TakePolicy(p, q) => policyLock'[p] = q
  BY <1>0, <1>1, TakeType
<1>5. /\ used' \in 0..MaxRequests
      /\ rowLock' \in [Policies -> [Dates -> Sessions \cup {None}]]
      /\ \A o \in Policies, d \in Dates : LockStep(o, d, q)
  BY <1>1 DEF IInv, TypeOK, LockStep
<1>6. edit'[q] = f
  BY <1>2, EditIs
<1>7. NewSchedule(f) = NewSchedule(e) /\ Dirty(f) = Dirty(e) /\ WritesSchedule(f) = WritesSchedule(e)
  BY <1>3, SameRequest
<1>8. Fits(inst[p], NewSchedule(e))
  <2>1. \A d \in Dates : IF d \in e.targets THEN CancelledRows(e)[d].status = "CANCELLED"
                         ELSE CancelledRows(e)[d] = inst[p][d]
    BY <1>0, <1>1, CancelledRowsAre
  <2> HIDE DEF CancelledRows, NewSchedule
  <2> QED BY <1>1, <2>1 DEF Fits, Insertable
<1>9. EditOK(q)'
  <2>1. Wrote(f) => policyLock'[p] = q
    <3>1. Wrote(f) => Dirty(e) \/ WritesSchedule(e)
      BY <1>3, <1>7 DEF Wrote
    <3>2. Dirty(e) => policyLock[p] = q
      BY <1>0, <1>1 DEF EditOK, Wrote
    <3> QED BY <1>1, <1>4, <3>1, <3>2
  <2>2. inst' = inst /\ policies' = policies
    BY <1>1 DEF RowsSame
  <2> HIDE DEF Wrote, NewSchedule
  <2> QED BY <1>0, <1>1, <1>3, <1>4, <1>6, <1>7, <1>8, <2>1, <2>2 DEF EditOK
<1>10. NewApart(q)
  <2>1. ASSUME NEW o \in Policies, NEW t \in Sessions PROVE Adds(q, o)' \cap Adds(t, o) = {}
    <3>1. q \in Requests /\ q \notin Ticks
      BY Constants
    <3>2. CASE o = p
      <4>1. Adds(q, p)' = DOMAIN NewSchedule(e)
        BY <1>3, <1>6, <1>7, <3>1 DEF Adds, Scheduling
      <4> QED BY <1>1, <3>2, <4>1, AddsInserting
    <3>3. CASE o # p
      BY <1>3, <1>6, <3>1, <3>3 DEF Adds, Scheduling
    <3> QED BY <3>2, <3>3
  <2> QED BY <2>1 DEF NewApart
<1> QED BY <1>1, <1>2, <1>3, <1>4, <1>5, <1>9, <1>10, EditSteps

LEMMA FinishType ==
  ASSUME IInv, NEW q \in Requests, Finish(q)
  PROVE  /\ rowLock' \in [Policies -> [Dates -> Sessions \cup {None}]]
         /\ policyLock' \in [Policies -> Sessions \cup {None}]
         /\ \A p \in Policies, d \in Dates : LockStep(p, d, q)
         /\ \A p \in Policies : HoldStep(p, q)
         /\ edit' = [edit EXCEPT ![q] = NoEdit]
         /\ edit' \in [Requests -> EditRecord]
         /\ EditOK(q)' /\ NewApart(q)
         /\ \A r \in Requests : r # q => edit'[r] = edit[r]
<1>1. Unlocks(q) /\ q \in Sessions
  BY Constants DEF Finish, Unlocks
<1>2. edit' = [edit EXCEPT ![q] = NoEdit]
  BY DEF Finish
<1>3. edit'[q] = NoEdit /\ edit' \in [Requests -> EditRecord]
  BY <1>2, EditIs, Constants
<1>4. EditOK(q)'
  BY <1>3 DEF EditOK, NoEdit, NothingSent, Reschedules, Wrote
<1>5. NewApart(q)
  BY <1>3, EditAddsNone DEF NoEdit
<1> QED BY <1>1, <1>2, <1>3, <1>4, <1>5, UnlocksType, EditIs

LEMMA FailEditKeeps ==
  ASSUME IInv, NEW q \in Requests, FailEdit(q)
  PROVE  IInv'
<1>1. Finish(q) /\ RowsSame /\ charge' = charge /\ faults' = faults /\ used' \in 0..MaxRequests
  BY DEF FailEdit, RowsSame, IInv, TypeOK
<1> QED BY <1>1, FinishType, EditSteps, Constants

\* The rows a request leaves at its commit.
EditedRows(e) == Insert(CancelledRows(e), NewSchedule(e))

\* The statements of the request are done, but for the last UPDATE.
Committing(e) == IF Cancels(e) THEN e.phase = "SCHEDULED" ELSE Flushed(e)

LEMMA NewScheduleType ==
  ASSUME NEW e \in EditRecord, Reschedules(e.req) => ValidSchedule(Merged(e.seen, e.req))
  PROVE  Whole(NewSchedule(e))
<1>1. CASE Reschedules(e.req)
  <2> DEFINE m == Merged(e.seen, e.req)
  <2>1. e.seen \in PolicyRow /\ e.req \in Request \cup Drafts
    BY EditType
  <2>2. /\ m.annual \in (Nat \ {0}) \cup {None} /\ m.every \in Frequencies \cup {None}
        /\ m.next \in Dates \cup {None} /\ \A d \in DOMAIN m.dates : m.dates[d] \in Nat \ {0}
    BY <2>1, MergedType
  <2>3. NewEnd(e) \in Dates \cup {None}
    BY <2>1, PolicyType, RequestType DEF NewEnd
  <2>4. ValidSchedule(m)
    BY <1>1
  <2> HIDE DEF m
  <2>5. Whole(Wanted(m, NewEnd(e)))
    BY <2>2, <2>3, <2>4, WantedType
  <2> QED BY <1>1, <2>5 DEF m, NewSchedule
<1>2. CASE ~Reschedules(e.req)
  BY <1>2 DEF NewSchedule, Whole
<1> QED BY <1>1, <1>2

LEMMA NewPolicyType ==
  ASSUME NEW e \in EditRecord
  PROVE  /\ NewPolicy(e) \in PolicyRow
         /\ e.seen.status # "ABSENT" => NewPolicy(e).status # "ABSENT"
<1>1. e.seen \in PolicyRow /\ e.req \in Request \cup Drafts /\ e.next \in Dates \cup {None}
  BY EditType
<1>2. CASE e.op = "delete"
  BY <1>1, <1>2 DEF NewPolicy, PolicyRow, Statuses
<1>3. CASE e.op # "delete"
  <2> DEFINE pol == [e.seen EXCEPT !.status = NewStatus(e), !.end = NewEnd(e),
                                   !.next = IF Cancels(e) THEN e.next ELSE @]
  <2>1. /\ NewStatus(e) \in Statuses /\ NewEnd(e) \in Dates \cup {None}
        /\ e.seen.status # "ABSENT" => NewStatus(e) # "ABSENT"
    BY <1>1, PolicyType, RequestType DEF NewStatus, NewEnd, Statuses
  <2>2. pol \in PolicyRow /\ (e.seen.status # "ABSENT" => pol.status # "ABSENT")
    BY <1>1, <2>1 DEF PolicyRow
  <2>3. NewPolicy(e) = IF Reschedules(e.req) THEN Rescheduled(pol, Merged(e.seen, e.req))
                       ELSE pol
    BY <1>3 DEF NewPolicy
  <2> HIDE DEF pol
  <2>4. Rescheduled(pol, Merged(e.seen, e.req)) \in PolicyRow
    BY <1>1, <2>2, MergedType, RescheduledType
  <2>5. Rescheduled(pol, Merged(e.seen, e.req)).status = pol.status
    BY <2>2 DEF Rescheduled, PolicyRow
  <2> QED BY <2>2, <2>3, <2>4, <2>5
<1> QED BY <1>2, <1>3

\* What a request that commits makes of the rows of its policy.
LEMMA EditedRowsAre ==
  ASSUME IInv, NEW q \in Requests, NEW e, e = edit[q], Committing(e)
  PROVE  /\ e.policy \in Policies
         /\ EditedRows(e) \in [Dates -> InstallmentRow]
         /\ \A d \in e.targets : rowLock[e.policy][d] = q /\ inst[e.policy][d].status = "PENDING"
         /\ \A d \in Dates :
              \/ /\ d \in e.targets
                 /\ EditedRows(e)[d].status = "CANCELLED"
              \/ /\ d \notin e.targets
                 /\ EditedRows(e)[d] = inst[e.policy][d]
              \/ /\ d \in DOMAIN NewSchedule(e) /\ d \in Adds(q, e.policy)
                 /\ inst[e.policy][d].status = "ABSENT"
                 /\ EditedRows(e)[d].status = "PENDING"
<1>1. e \in EditRecord /\ EditOK(q)
  BY EditIs
<1>2. e.phase \in {"LOADED", "FLUSHED", "SCHEDULED"}
  BY DEF Committing, Flushed
<1>3. /\ e.policy \in Policies /\ e.targets \in SUBSET Dates
      /\ \A d \in e.targets : rowLock[e.policy][d] = q /\ inst[e.policy][d].status = "PENDING"
      /\ CancelledRows(e) \in [Dates -> InstallmentRow]
      /\ \A d \in Dates : IF d \in e.targets THEN CancelledRows(e)[d].status = "CANCELLED"
                          ELSE CancelledRows(e)[d] = inst[e.policy][d]
  BY <1>2, CancelledRowsAre
<1>4. Whole(NewSchedule(e))
  BY <1>1, NewScheduleType DEF EditOK
<1>5. /\ Fits(inst[e.policy], NewSchedule(e))
      /\ \A d \in DOMAIN NewSchedule(e) : d \in Adds(q, e.policy)
  <2>1. CASE e.phase = "SCHEDULED"
    <3>1. q \notin Ticks
      BY Constants
    <3> QED BY <1>1, <2>1, <3>1 DEF EditOK, Adds, Scheduling
  <2>2. CASE ~Cancels(e)
    <3>1. NewSchedule(e) = [d \in {} |-> 0]
      BY <2>2 DEF Cancels, NewSchedule
    <3> QED BY <3>1 DEF Fits
  <2> QED BY <2>1, <2>2 DEF Committing
<1> HIDE DEF CancelledRows, NewSchedule, Adds
<1>6. Fits(CancelledRows(e), NewSchedule(e))
  BY <1>3, <1>5 DEF Fits
<1>7. /\ EditedRows(e) \in [Dates -> InstallmentRow]
      /\ \A d \in Dates :
           IF d \in DOMAIN NewSchedule(e)
           THEN CancelledRows(e)[d].status = "ABSENT" /\ EditedRows(e)[d].status = "PENDING"
           ELSE EditedRows(e)[d] = CancelledRows(e)[d]
  BY <1>3, <1>4, <1>6, InsertType DEF EditedRows
<1> QED BY <1>3, <1>5, <1>7

WrittenPolicy(e) ==
  LET now == policies[e.policy]
      new == NewPolicy(e)
  IN
  [status |-> Written(e.seen.status, new.status, now.status),
   mode |-> Written(e.seen.mode, new.mode, now.mode),
   annual |-> Written(e.seen.annual, new.annual, now.annual),
   every |-> Written(e.seen.every, new.every, now.every),
   next |-> Written(e.seen.next, new.next, now.next),
   end |-> Written(e.seen.end, new.end, now.end),
   rule |-> KeepsRule(e, now.rule)]

LEMMA WrittenPolicyType ==
  ASSUME IInv, NEW e \in EditRecord, e.policy \in Policies
  PROVE  /\ WrittenPolicy(e) \in PolicyRow
         /\ WrittenPolicy(e).rule = KeepsRule(e, policies[e.policy].rule)
         /\ e.seen.status # "ABSENT" /\ policies[e.policy].status # "ABSENT"
              => WrittenPolicy(e).status # "ABSENT"
<1>1. policies[e.policy] \in PolicyRow
  BY StateTypes DEF IInv
<1>2. PICK new : new = NewPolicy(e)
  OBVIOUS
<1>3. new \in PolicyRow /\ (e.seen.status # "ABSENT" => new.status # "ABSENT")
  BY <1>2, NewPolicyType
<1>4. KeepsRule(e, policies[e.policy].rule) \in BOOLEAN
  BY DEF KeepsRule
<1> HIDE DEF KeepsRule
<1> QED BY <1>1, <1>2, <1>3, <1>4, PolicyType DEF WrittenPolicy, Written, PolicyRow

\* A request that does not hold the policy at its commit writes only the date.
LEMMA UnlockedWrites ==
  ASSUME IInv, NEW q \in Requests, NEW e, e = edit[q], e.op # None, Committing(e),
         Cancels(e) /\ LeftToWrite(e) => PolicyFree(e.policy, q),
         policyLock[e.policy] \notin {None, q}
  PROVE  /\ NewPolicy(e).status = e.seen.status /\ NewPolicy(e).mode = e.seen.mode
         /\ NewPolicy(e).annual = e.seen.annual /\ NewPolicy(e).every = e.seen.every
         /\ NewPolicy(e).end = e.seen.end /\ NewPolicy(e).next = e.seen.next
<1>1. e \in EditRecord /\ EditOK(q) /\ e.seen \in PolicyRow
  BY EditIs, EditType
<1>2. ~Wrote(e)
  BY <1>1 DEF EditOK
<1>3. e.op # "delete" /\ ~Dirty(e)
  BY <1>2 DEF Committing, Cancels, LeftToWrite, PolicyFree, Wrote, Flushed
<1>4. NewStatus(e) = e.seen.status /\ NewEnd(e) = e.seen.end
  BY <1>3 DEF Dirty
<1>5. Cancels(e) => e.next = e.seen.next
  BY DEF LeftToWrite, PolicyFree
<1> DEFINE pol == [e.seen EXCEPT !.status = NewStatus(e), !.end = NewEnd(e),
                                 !.next = IF Cancels(e) THEN e.next ELSE @]
<1>6. pol = e.seen
  BY <1>1, <1>4, <1>5 DEF PolicyRow
<1>7. NewPolicy(e) = IF Reschedules(e.req) THEN Rescheduled(pol, Merged(e.seen, e.req)) ELSE pol
  BY <1>3 DEF NewPolicy
<1> HIDE DEF pol
<1>8. CASE ~Reschedules(e.req)
  BY <1>6, <1>7, <1>8
<1>9. CASE Reschedules(e.req)
  <2>1. e.op = "update" /\ e.phase = "SCHEDULED"
    BY <1>1, <1>3, <1>9, EditType DEF Committing, Cancels
  <2>2. Rescheduled(e.seen, Merged(e.seen, e.req)) = [e.seen EXCEPT !.rule = FALSE]
    BY <1>2, <1>9, <2>1 DEF Wrote, WritesSchedule
  <2>3. NewPolicy(e) = [e.seen EXCEPT !.rule = FALSE]
    BY <1>6, <1>7, <1>9, <2>2
  <2> QED BY <1>1, <2>3 DEF PolicyRow
<1> QED BY <1>8, <1>9

LEMMA CommitIs ==
  ASSUME IInv, NEW q \in Requests, NEW e, e = edit[q], CommitEdit(q)
  PROVE  /\ e.op # None /\ Committing(e) /\ Finish(q)
         /\ Cancels(e) /\ LeftToWrite(e) => PolicyFree(e.policy, q)
         /\ inst' = [inst EXCEPT ![e.policy] = EditedRows(e)]
         /\ policies' = [policies EXCEPT ![e.policy] = WrittenPolicy(e)]
         /\ day' = day /\ spent' = spent /\ charge' = charge
         /\ used' = used /\ faults' = faults
<1>1. Committing(e) /\ (Cancels(e) /\ LeftToWrite(e) => PolicyFree(e.policy, q))
  BY DEF CommitEdit, Committing
<1>2. e.policy \in Policies /\ DOMAIN policies = Policies
  BY <1>1, EditedRowsAre DEF IInv, TypeOK
<1>3. policies' = [policies EXCEPT ![e.policy] = WrittenPolicy(e)]
  BY <1>2 DEF CommitEdit, WrittenPolicy
<1> QED BY <1>1, <1>3 DEF CommitEdit, EditedRows

LEMMA CommitEditKeeps ==
  ASSUME IInv, NEW q \in Requests, CommitEdit(q)
  PROVE  IInv'
<1>1. PICK e, p : e = edit[q] /\ p = e.policy
  OBVIOUS
<1>2. PICK rows, pol : rows = EditedRows(e) /\ pol = WrittenPolicy(e)
  OBVIOUS
<1>3. /\ e \in EditRecord /\ EditOK(q) /\ q \in Sessions /\ q \notin Ticks
      /\ e.op # None /\ Committing(e) /\ Finish(q)
      /\ Cancels(e) /\ LeftToWrite(e) => PolicyFree(p, q)
      /\ inst' = [inst EXCEPT ![p] = rows] /\ policies' = [policies EXCEPT ![p] = pol]
      /\ day' = day /\ spent' = spent /\ charge' = charge
      /\ used' = used /\ faults' = faults
  BY <1>1, <1>2, CommitIs, EditIs, Constants
<1>4. /\ p \in Policies /\ rows \in [Dates -> InstallmentRow]
      /\ \A d \in e.targets : rowLock[p][d] = q /\ inst[p][d].status = "PENDING"
      /\ \A d \in Dates :
           \/ d \in e.targets /\ rows[d].status = "CANCELLED"
           \/ d \notin e.targets /\ rows[d] = inst[p][d]
           \/ /\ d \in DOMAIN NewSchedule(e) /\ d \in Adds(q, p)
              /\ inst[p][d].status = "ABSENT" /\ rows[d].status = "PENDING"
  BY <1>1, <1>2, <1>3, EditedRowsAre
<1>5. /\ pol \in PolicyRow /\ pol.rule = KeepsRule(e, policies[p].rule)
      /\ pol.status # "ABSENT"
  <2>1. e.seen.status # "ABSENT" /\ policies[p].status # "ABSENT"
    BY <1>1, <1>3 DEF EditOK, Committing, Flushed
  <2> QED BY <1>1, <1>2, <1>3, <1>4, <2>1, WrittenPolicyType
<1>6. /\ inst' \in [Policies -> [Dates -> InstallmentRow]]
      /\ inst'[p] = rows /\ \A o \in Policies : o # p => inst'[o] = inst[o]
  BY <1>3, <1>4 DEF IInv, TypeOK
<1>7. /\ policies' \in [Policies -> PolicyRow]
      /\ policies'[p] = pol /\ \A o \in Policies : o # p => policies'[o] = policies[o]
  BY <1>3, <1>4, <1>5 DEF IInv, TypeOK
<1>8. /\ rowLock' \in [Policies -> [Dates -> Sessions \cup {None}]]
      /\ policyLock' \in [Policies -> Sessions \cup {None}]
      /\ \A o \in Policies, d \in Dates : LockStep(o, d, q)
      /\ \A o \in Policies : HoldStep(o, q)
      /\ edit' \in [Requests -> EditRecord]
      /\ EditOK(q)' /\ NewApart(q)
      /\ \A r \in Requests : r # q => edit'[r] = edit[r]
  BY <1>3, FinishType
<1>9. TypeOK'
  BY <1>3, <1>6, <1>7, <1>8 DEF IInv, TypeOK
<1>10. StepOf(q)
  <2>1. ASSUME NEW o \in Policies, NEW d \in Dates PROVE RowStep(o, d, q)
    <3>1. \A t \in Sessions : t # q => Adds(q, p) \cap Adds(t, p) = {}
      BY <1>3, <1>4 DEF IInv, AddsApart
    <3> QED BY <1>4, <1>6, <3>1 DEF RowStep
  <2>2. ASSUME NEW o \in Policies PROVE PolicyStep(o, q)
    <3>1. CASE o # p
      BY <1>7, <3>1 DEF PolicyStep, SameColumns
    <3>2. CASE o = p
      <4>1. ASSUME policyLock[p] \notin {None, q} PROVE SameColumns(p)
        <5>1. /\ NewPolicy(e).status = e.seen.status /\ NewPolicy(e).mode = e.seen.mode
              /\ NewPolicy(e).annual = e.seen.annual /\ NewPolicy(e).every = e.seen.every
              /\ NewPolicy(e).end = e.seen.end
          BY <1>1, <1>3, <4>1, UnlockedWrites
        <5> HIDE DEF NewPolicy
        <5> QED BY <1>1, <1>2, <1>7, <5>1 DEF SameColumns, WrittenPolicy, Written
      <4> QED BY <1>5, <1>7, <3>2, <4>1 DEF PolicyStep
    <3> QED BY <3>1, <3>2
  <2> QED BY <1>3, <1>8, <2>1, <2>2 DEF StepOf
<1>11. ChargedOnce'
  <2>1. \A o \in Policies, d \in Dates :
          \/ inst'[o][d] = inst[o][d]
          \/ inst[o][d].status # "PAID" /\ inst'[o][d].status # "PAID"
    BY <1>4, <1>6
  <2> QED BY <1>3, <2>1, ChargedOnceKept DEF IInv
<1>12. OneCollector'
  <2>1. ASSUME NEW o \in Policies, policies'[o].rule, NEW d \in Dates, inst[o][d].status = "ABSENT"
        PROVE  inst'[o][d].status = "ABSENT"
    <3>1. CASE o # p
      BY <1>6, <2>1, <3>1
    <3>2. CASE o = p
      <4>1. ~Reschedules(e.req)
        BY <1>5, <1>7, <2>1, <3>2 DEF KeepsRule
      <4>2. d \notin DOMAIN NewSchedule(e)
        BY <4>1 DEF NewSchedule
      <4> QED BY <1>4, <1>6, <2>1, <3>2, <4>2
    <3> QED BY <3>1, <3>2
  <2>2. ASSUME NEW o \in Policies, policies'[o].rule PROVE policies[o].rule
    BY <1>5, <1>7, <2>2 DEF KeepsRule
  <2> QED BY <2>1, <2>2, OneCollectorKept DEF IInv
<1>13. day <= day'
  BY <1>3 DEF IInv, TypeOK
<1> QED
  BY <1>3, <1>8, <1>9, <1>10, <1>11, <1>12, <1>13, StepKeeps

-----------------------------------------------------------------------------
(* The theorems.                                                           *)

LEMMA NextKeeps ==
  ASSUME IInv, [Next]_vars
  PROVE  IInv'
<1>1. ASSUME NEW w \in Ticks, StartTick(w) \/ TickStep(w) \/ FailTransient(w) \/ CrashTick(w)
      PROVE  IInv'
  BY <1>1, StartTickKeeps, LockInstallmentKeeps, SkipInstallmentKeeps, LockPolicyKeeps,
     SelectNextKeeps, ChargeInstallmentKeeps, CancelInstallmentKeeps, FailYearKeeps,
     EndTickKeeps, FailTransientKeeps, CrashTickKeeps
  DEF TickStep
<1>2. ASSUME NEW q \in Requests, BeginUpdate(q) \/ BeginDelete(q) PROVE IInv'
  BY <1>2, LoadKeeps DEF BeginUpdate, BeginDelete, Request
<1>3. ASSUME NEW q \in Requests, EditStep(q) PROVE IInv'
  BY <1>3, FlushPolicyKeeps, SelectPendingKeeps, LockPendingKeeps, ApplyScheduleKeeps,
     CommitEditKeeps, FailEditKeeps DEF EditStep
<1>4. CASE UNCHANGED vars
  <2>1. StepOf(None) /\ TypeOK'
    BY <1>4 DEF vars, StepOf, RowStep, LockStep, HoldStep, PolicyStep, SameColumns, IInv, TypeOK
  <2>2. ChargedOnce' /\ OneCollector' /\ day <= day'
    BY <1>4 DEF vars, IInv, ChargedOnce, OneCollector, TypeOK
  <2> QED BY <2>1, <2>2, StepKeeps, Constants
<1> QED
  BY <1>1, <1>2, <1>3, <1>4, AdvanceKeeps, CreateInsuranceKeeps, EndDeadlockKeeps,
     LastLegacyPremiumKeeps DEF Next

LEMMA Invariant == Spec => []IInv
BY InitHolds, NextKeeps, PTL DEF Spec

\* Every variable holds a value of its kind, what the ticks and the requests that
\* overlap have read and selected included, whatever the policies and the users' bodies.
THEOREM TypeCorrect == Spec => []TypeOK
<1>1. IInv => TypeOK
  BY DEF IInv
<1> QED BY <1>1, Invariant, PTL

\* charge_installment and _cancel_pending: an installment takes its amount from the
\* pool once, exactly when it is PAID, however ticks and edits overlap, fail or crash.
THEOREM ChargedOnceCorrect == Spec => []ChargedOnce
<1>1. IInv => ChargedOnce
  BY DEF IInv
<1> QED BY <1>1, Invariant, PTL

\* apply_schedule and _cancel_legacy_rules: no policy is paid by its installments and by
\* its old rule at once.
THEOREM OneCollectorCorrect == Spec => []OneCollector
<1>1. IInv => OneCollector
  BY DEF IInv
<1> QED BY <1>1, Invariant, PTL

\* Only a charge takes money.
LEMMA OnlyCharges ==
  ASSUME IInv, [Next]_vars, NEW p \in Policies, spent'[p] # spent[p]
  PROVE  \E w \in Ticks, d \in Dates : Charges(w, p, d) /\ Counted(w)
<1>1. PICK w \in Ticks : ChargeInstallment(w)
  <2>1. \/ spent' = spent
        \/ \E w \in Ticks : ChargeInstallment(w)
    BY DEF Next, vars, Advance, CreateInsurance, StartTick, TickStep, FailTransient, CrashTick,
       LockInstallment, SkipInstallment, LockPolicy, SelectNext, CancelInstallment, FailYear,
       EndTick, BeginUpdate, BeginDelete, Load, EditStep, FlushPolicy, SelectPending, LockPending,
       ApplySchedule, CommitEdit, FailEdit, EndDeadlock, LastLegacyPremium
  <2> QED BY <2>1
<1>2. PICK o, d : Charges(w, o, d)
  BY <1>1, ChargeIs
<1>3. o \in Policies /\ d \in Dates /\ \A x \in Policies : x # o => spent'[x] = spent[x]
  BY <1>2 DEF Charges, Works, IInv, TypeOK
<1>4. o = p
  BY <1>3
<1>5. Counted(w)
  BY <1>1 DEF ChargeInstallment, Counted
<1> QED BY <1>2, <1>3, <1>4, <1>5

\* charge_installment reads the status of the policy under its lock, which it holds until
\* it commits: no edit, no deletion and no other tick ends the policy in between.
THEOREM NoChargeAfterEndCorrect == Spec => NoChargeAfterEnd
<1>1. ASSUME IInv, [Next]_vars, NEW p \in Policies, spent'[p] # spent[p]
      PROVE  policies[p].status = "ACTIVE"
  BY <1>1, OnlyCharges DEF Charges, Works
<1> DEFINE A == \A p \in Policies : spent'[p] # spent[p] => policies[p].status = "ACTIVE"
<1>2. IInv /\ [Next]_vars => [A]_vars
  BY <1>1
<1> QED BY <1>2, Invariant, PTL DEF Spec, NoChargeAfterEnd

\* The first date of the next year is a day that there is.
LEMMA FirstOfYear ==
  ASSUME IInv, NEW pol \in PolicyRow, NEW pending, NEW d \in Dates, d <= day, day <= MaxDay,
         Extends(pol, pending), ~PastEnd(pol, d)
  PROVE  \E x \in Dates : x \in DOMAIN NewYear(pol, pending, d)
<1> DEFINE x == d + Gap(pol.every)
<1>1. pol.every \in Frequencies /\ pol.end \in Dates \cup {None}
  BY PolicyType DEF Extends
<1>2. PeriodsOf[pol.every] \in Nat \ {0} /\ Gap(pol.every) \in 1..YearLength
  BY <1>1, GapType
<1>3. MaxDay \in Nat /\ YearLength \in Nat
  BY InsuranceAssumption
<1>4. day \in Nat /\ d \in Nat
  BY StateTypes, <1>3 DEF IInv, Dates
<1>5. x \in Dates
  BY <1>2, <1>3, <1>4 DEF Dates
<1>6. 0 \in 0..(PeriodsOf[pol.every] - 1)
  BY <1>2
<1>7. x + 0 * Gap(pol.every) = x
  BY <1>2, <1>5 DEF Dates
<1>8. pol.end = None \/ x <= pol.end
  BY <1>1, <1>5, InsuranceAssumption DEF PastEnd, Dates
<1>9. x \in DOMAIN IntervalYear(pol.annual, pol.every, x, pol.end)
  <2> HIDE DEF x
  <2> QED BY <1>6, <1>7, <1>8 DEF IntervalYear
<1> QED BY <1>5, <1>9 DEF NewYear, NextYear

LEMMA ChargeGoesOn ==
  ASSUME IInv, NEW w \in Ticks, NEW p \in Policies, NEW d \in Dates, Charges(w, p, d), Counted(w),
         policies[p].mode = "INTERVAL", policies[p].annual # None, policies[p].every # None
  PROVE  PendingOf(inst'[p]) # {} \/ policies'[p].status = "COMPLETED" \/ CountedIsCancelled(p)
<1>1. PICK rows, saw : rows = ChargedRows(w) /\ saw = charge[w].saw
  OBVIOUS
<1>2. /\ Works(w, p, d) /\ inst'[p] = rows /\ policies'[p] = ChargedPolicy(w)
      /\ charge[w].at # None /\ charge[w].at[1] = p /\ charge[w].at[2] = d
      /\ saw \in SUBSET Dates /\ d <= day /\ day <= MaxDay
      /\ \A x \in saw : x # d /\ inst[p][x].status \in {"PENDING", "CANCELLED"}
  <2>1. TickOK(w) /\ CountOK(w)
    BY DEF IInv, TickOK, Counted
  <2>2. Works(w, p, d)
    BY DEF Charges
  <2>3. inst'[p] = rows /\ policies'[p] = ChargedPolicy(w)
    BY <1>1 DEF Charges, IInv, TypeOK
  <2>4. charge[w].at # None
    BY <2>1 DEF TickOK, Counted
  <2>5. day <= MaxDay
    BY InsuranceAssumption DEF IInv, TypeOK
  <2> QED BY <1>1, <2>1, <2>2, <2>3, <2>4, <2>5, ChargeType DEF Works, TickOK, CountOK, IInv
<1>3. \A e \in Dates \ {d} :
        \/ rows[e] = inst[p][e] /\ e \notin DOMAIN YearOf(w)
        \/ inst[p][e].status = "ABSENT" /\ rows[e].status = "PENDING"
  BY <1>1, <1>2, ChargedRowsAre
<1>4. CASE saw # {}
  <2>1. CASE \E x \in saw : inst[p][x].status = "PENDING"
    BY <1>2, <1>3, <2>1 DEF PendingOf
  <2>2. CASE \A x \in saw : inst[p][x].status = "CANCELLED"
    BY <1>1, <1>2, <1>4, <2>2 DEF CountedIsCancelled
  <2> QED BY <1>2, <2>1, <2>2
<1>5. CASE saw = {}
  <2>1. Extends(policies[p], saw) /\ policies[p] \in PolicyRow
    BY <1>5, StateTypes DEF Extends, IInv
  <2>2. CASE PastEnd(policies[p], d)
    <3>1. Completes(policies[p], saw, d)
      BY <2>1, <2>2 DEF Completes
    <3> QED BY <1>1, <1>2, <3>1, ChargedPolicyIs
  <2>3. CASE ~PastEnd(policies[p], d)
    <3>1. PICK x \in Dates : x \in DOMAIN NewYear(policies[p], saw, d)
      BY <1>2, <2>1, <2>3, FirstOfYear
    <3>2. YearOf(w) = NewYear(policies[p], saw, d)
      BY <1>1, <1>2 DEF YearOf, Counted
    <3>3. x # d
      BY <1>2, <3>1, <3>2 DEF Works, Fits
    <3> QED BY <1>2, <1>3, <3>1, <3>2, <3>3 DEF PendingOf
  <2> QED BY <2>2, <2>3
<1> QED BY <1>4, <1>5

\* _extend_interval_year: the tick that charges the last installment of a year adds the
\* next year or completes the policy, whichever of the ticks that overlap it is.  Only
\* an edit that cancels all it had counted can leave the policy with nothing to charge.
THEOREM YearGoesOnCorrect == Spec => YearGoesOn
<1>1. ASSUME IInv, [Next]_vars, NEW p \in Policies, spent'[p] # spent[p],
             policies[p].mode = "INTERVAL", policies[p].annual # None, policies[p].every # None
      PROVE  PendingOf(inst'[p]) # {} \/ policies'[p].status = "COMPLETED" \/ CountedIsCancelled(p)
  BY <1>1, OnlyCharges, ChargeGoesOn
<1> DEFINE A == \A p \in Policies :
                  LET pol == policies[p] IN
                  /\ spent'[p] # spent[p]
                  /\ pol.mode = "INTERVAL" /\ pol.annual # None /\ pol.every # None
                  => \/ PendingOf(inst'[p]) # {}
                     \/ policies'[p].status = "COMPLETED"
                     \/ CountedIsCancelled(p)
<1>2. IInv /\ [Next]_vars => [A]_vars
  BY <1>1
<1> QED BY <1>2, Invariant, PTL DEF Spec, YearGoesOn

-----------------------------------------------------------------------------
(* The date that is shown.                                                 *)
(*                                                                         *)
(* NoChargeBeforeShown needs to know of the date a policy shows, and of    *)
(* the date an edit has loaded, that there is an installment for it: an    *)
(* edit that gives a policy a schedule with the date it loaded writes no   *)
(* date.  Only a policy from before schedules shows one without.  And the  *)
(* date a session has selected is not overtaken as long as the session     *)
(* holds the policy.                                                       *)

\* There is, or was, an installment for the date.
Backs(rows, x) == x # None => rows[x].status # "ABSENT"

\* The date is not after the first installment to charge.
InTime(rows, x) == \A d \in PendingOf(rows) : x # None /\ x <= d

\* The policy shows a date for which there never was an installment.
Unbacked(p) == ~Backs(inst[p], policies[p].next)

Known(e) == e.seen.next # None /\ e.seen.mode # "LEGACY"

\* What a request has loaded: a date with an installment, or the date of a policy from
\* before schedules; and a date without one is still as it was loaded.  A deletion asks
\* for no schedule.
LoadOK(e) ==
  /\ Unbacked(e.policy) => e.seen.next = policies[e.policy].next
  /\ Known(e) => inst[e.policy][e.seen.next].status # "ABSENT"
  /\ e.op = "delete" => ~Reschedules(e.req)

\* What it cancels: the installment of the date it loaded, too.
TargetsOK(e) ==
  e.phase \in {"CANCELLING", "READY"} /\ Known(e) /\ inst[e.policy][e.seen.next].status = "PENDING"
    => e.seen.next \in e.targets

\* What it has selected: the date it loaded only if it adds no installment, and if it
\* holds the policy a date that is in time.
NextOK(e, held) ==
  e.phase = "SCHEDULED" /\ e.op = "update" =>
    /\ e.next = e.seen.next /\ e.seen.mode # "LEGACY"
         => \A d \in Dates : d \notin DOMAIN NewSchedule(e)
    /\ Backs(EditedRows(e), e.next)
    /\ held => InTime(EditedRows(e), e.next)

SeenOK(q) ==
  edit[q].phase # "IDLE" =>
    /\ LoadOK(edit[q])
    /\ TargetsOK(edit[q])
    /\ NextOK(edit[q], policyLock[edit[q].policy] = q)

\* What a tick has selected.
SelectOK(w) ==
  charge[w].phase = "SELECTED" =>
    Backs(ChargedRows(w), charge[w].next) /\ InTime(ChargedRows(w), charge[w].next)

ShownInv ==
  /\ \A p \in Policies : Unbacked(p) => policies[p].mode = "LEGACY"
  /\ \A q \in Requests : SeenOK(q)
  /\ \A w \in Ticks : SelectOK(w)

\* A request that loads a policy now.
Loads(e) ==
  /\ e.phase = "LOADED" /\ e.policy \in Policies /\ e.seen = policies[e.policy]
  /\ e.op = "delete" => ~Reschedules(e.req)

\* A request ends, keeps what it has and takes no lock, or takes a step.
EditMove(q) ==
  \/ edit'[q].phase = "IDLE"
  \/ /\ edit'[q] = edit[q]
     /\ \A p \in Policies : policyLock'[p] = q => policyLock[p] = q
  \/ RowsSame /\ edit'[q] \in EditRecord /\ Loads(edit'[q])
  \/ RowsSame /\ (FlushPolicy(q) \/ SelectPending(q) \/ LockPending(q) \/ ApplySchedule(q))

\* What a step of s does to the locks, and whose it does not take.
LEMMA OthersLocks ==
  ASSUME IInv, NEW q \in Sessions, NEW s, s # q,
         \/ UNCHANGED policyLock
         \/ \E o \in Policies : TakePolicy(o, s)
         \/ policyLock' = [p \in Policies |-> IF policyLock[p] = s THEN None ELSE policyLock[p]]
  PROVE  \A p \in Policies : policyLock'[p] = q => policyLock[p] = q
<1>1. policyLock \in [Policies -> Sessions \cup {None}] /\ q # None
  BY Constants DEF IInv, TypeOK
<1>2. ASSUME NEW o \in Policies, TakePolicy(o, s), NEW p \in Policies, policyLock'[p] = q
      PROVE  policyLock[p] = q
  BY <1>1, <1>2 DEF TakePolicy
<1> QED BY <1>1, <1>2

LEMMA EditMoves ==
  ASSUME IInv, [Next]_vars, NEW q \in Requests
  PROVE  EditMove(q)
<1>1. edit \in [Requests -> EditRecord] /\ edit[q] \in EditRecord /\ q \in Sessions
  BY EditIs, Constants
<1>2. ASSUME NEW w \in Ticks, StartTick(w) \/ TickStep(w) \/ FailTransient(w) \/ CrashTick(w)
      PROVE  EditMove(q)
  <2>1. edit' = edit /\ w # q
    BY <1>2, Constants DEF StartTick, TickStep, FailTransient, CrashTick, LockInstallment,
       SkipInstallment, LockPolicy, SelectNext, ChargeInstallment, CancelInstallment, FailYear, EndTick
  <2>2. CASE LockPolicy(w)
    <3>1. charge[w].at[1] \in Policies
      BY <2>2, ChargeType DEF LockPolicy, IInv, TickOK
    <3>2. TakePolicy(charge[w].at[1], w)
      BY <2>2 DEF LockPolicy
    <3> QED BY <1>1, <2>1, <3>1, <3>2, OthersLocks DEF EditMove
  <2>3. CASE ~LockPolicy(w)
    <3>1. \/ UNCHANGED policyLock
          \/ policyLock' = [p \in Policies |-> IF policyLock[p] = w THEN None ELSE policyLock[p]]
      BY <1>2, <2>3 DEF StartTick, TickStep, FailTransient, CrashTick, LockInstallment,
         SkipInstallment, SelectNext, ChargeInstallment, CancelInstallment, FailYear, EndTick, Release
    <3> QED BY <1>1, <2>1, <3>1, OthersLocks DEF EditMove
  <2> QED BY <2>2, <2>3
<1>3. ASSUME NEW r \in Requests, NEW op \in {"update", "delete"}, NEW req \in Request,
             Load(r, op, req), op = "delete" => ~Reschedules(req)
      PROVE  EditMove(q)
  <2>1. PICK p \in Policies :
          edit' = [edit EXCEPT ![r] = [op |-> op, policy |-> p, seen |-> policies[p],
                                       req |-> req, targets |-> {}, phase |-> "LOADED",
                                       next |-> None]]
    BY <1>3 DEF Load
  <2>2. RowsSame /\ policyLock' = policyLock
    BY <1>3 DEF Load, RowsSame
  <2>3. CASE r = q
    <3>1. PICK e : e = edit'[q]
      OBVIOUS
    <3>2. e = [op |-> op, policy |-> p, seen |-> policies[p], req |-> req, targets |-> {},
               phase |-> "LOADED", next |-> None]
      BY <1>1, <2>1, <2>3, <3>1
    <3>3. e \in EditRecord
      BY <3>2, StateTypes DEF EditRecord, Request, IInv
    <3>4. Loads(e)
      BY <1>3, <3>2 DEF Loads
    <3> QED BY <2>2, <3>1, <3>3, <3>4 DEF EditMove, Loads
  <2>4. CASE r # q
    BY <1>1, <2>1, <2>2, <2>4 DEF EditMove
  <2> QED BY <2>3, <2>4
<1>4. ASSUME NEW r \in Requests, BeginUpdate(r) \/ BeginDelete(r) PROVE EditMove(q)
  <2>1. ~Reschedules(NothingSent)
    BY DEF Reschedules, NothingSent
  <2> QED BY <1>3, <1>4, <2>1 DEF BeginUpdate, BeginDelete, Request
<1>5. ASSUME NEW r \in Requests,
             FlushPolicy(r) \/ SelectPending(r) \/ LockPending(r) \/ ApplySchedule(r)
      PROVE  EditMove(q)
  <2>1. RowsSame
    BY <1>5 DEF FlushPolicy, SelectPending, LockPending, ApplySchedule, RowsSame
  <2>2. CASE r = q
    BY <1>5, <2>1, <2>2 DEF EditMove
  <2>3. CASE r # q
    <3>1. edit'[q] = edit[q]
      BY <1>1, <1>5, <2>3 DEF FlushPolicy, Move, SelectPending, LockPending, ApplySchedule
    <3>2. edit[r].phase # "IDLE"
      BY <1>5 DEF FlushPolicy, Move, SelectPending, Flushed, LockPending, ApplySchedule
    <3>3. edit[r].policy \in Policies
      BY <3>2, EditIs DEF EditOK
    <3>4. UNCHANGED policyLock \/ TakePolicy(edit[r].policy, r)
      BY <1>5 DEF FlushPolicy, SelectPending, LockPending, ApplySchedule
    <3> QED BY <1>1, <2>3, <3>1, <3>3, <3>4, OthersLocks DEF EditMove
  <2> QED BY <2>2, <2>3
<1>6. ASSUME NEW r \in Requests, CommitEdit(r) \/ FailEdit(r) PROVE EditMove(q)
  <2>1. Finish(r)
    BY <1>6 DEF CommitEdit, FailEdit
  <2>2. CASE r = q
    BY <1>1, <2>1, <2>2 DEF Finish, EditMove, NoEdit
  <2>3. CASE r # q
    <3>1. edit'[q] = edit[q]
      BY <1>1, <2>1, <2>3 DEF Finish
    <3>2. policyLock' = [p \in Policies |-> IF policyLock[p] = r THEN None ELSE policyLock[p]]
      BY <2>1 DEF Finish
    <3> QED BY <1>1, <2>3, <3>1, <3>2, OthersLocks DEF EditMove
  <2> QED BY <2>2, <2>3
<1>7. ASSUME NEW w \in Ticks, NEW r \in Requests, EndDeadlock(w, r) PROVE EditMove(q)
  <2>1. /\ edit' = edit /\ w # q
        /\ policyLock' = [p \in Policies |-> IF policyLock[p] = w THEN None ELSE policyLock[p]]
    BY <1>7, Constants DEF EndDeadlock, Release
  <2> QED BY <1>1, <2>1, OthersLocks DEF EditMove
<1>8. CASE Advance \/ CreateInsurance \/ (\E p \in Policies : LastLegacyPremium(p)) \/ UNCHANGED vars
  BY <1>8 DEF Advance, CreateInsurance, LastLegacyPremium, vars, EditMove
<1> QED BY <1>2, <1>4, <1>5, <1>6, <1>7, <1>8 DEF Next, EditStep

\* A tick has selected no date, keeps what it has, or selects one now.
ChargeMove(w) ==
  \/ charge'[w].phase # "SELECTED"
  \/ charge'[w] = charge[w]
  \/ SelectNext(w)

LEMMA ChargeMoves ==
  ASSUME IInv, [Next]_vars, NEW w \in Ticks
  PROVE  ChargeMove(w)
<1>1. charge \in [Ticks -> Charge] /\ charge[w] \in Charge
  BY ChargeType DEF IInv
<1>2. ASSUME NEW v \in Ticks, v # w,
             \/ StartTick(v) \/ TickStep(v) \/ FailTransient(v) \/ CrashTick(v)
             \/ \E r \in Requests : EndDeadlock(v, r)
      PROVE  charge'[w] = charge[w]
  BY <1>1, <1>2 DEF StartTick, TickStep, FailTransient, CrashTick, LockInstallment, SkipInstallment,
     LockPolicy, SelectNext, ChargeInstallment, CancelInstallment, FailYear, EndTick, EndDeadlock,
     Release
<1>3. ASSUME \/ FailTransient(w) \/ ChargeInstallment(w) \/ CancelInstallment(w) \/ FailYear(w)
             \/ \E r \in Requests : EndDeadlock(w, r)
      PROVE  charge'[w].phase = "IDLE"
  <2>1. Release(w)
    BY <1>3 DEF FailTransient, ChargeInstallment, CancelInstallment, FailYear, EndDeadlock
  <2> QED BY <2>1, ReleaseType
<1>4. ASSUME StartTick(w) \/ EndTick(w) \/ CrashTick(w) PROVE charge'[w].phase = "IDLE"
  <2>1. CASE StartTick(w)
    <3>1. PICK due : charge' = [charge EXCEPT ![w] = [NoCharge EXCEPT !.ids = due, !.on = TRUE]]
      BY <2>1 DEF StartTick
    <3> QED BY <1>1, <3>1 DEF NoCharge
  <2>2. CASE EndTick(w) \/ CrashTick(w)
    <3>1. charge' = [charge EXCEPT ![w] = NoCharge]
      BY <2>2 DEF EndTick, CrashTick
    <3> QED BY <3>1, NoChargeType
  <2> QED BY <1>4, <2>1, <2>2
<1>5. ASSUME LockInstallment(w) \/ LockPolicy(w) PROVE charge'[w].phase \in {"LOCKED", "COUNTED"}
  <2>1. CASE LockInstallment(w)
    <3>1. PICK x, ids : charge' = [charge EXCEPT ![w].at = x, ![w].ids = ids, ![w].phase = "LOCKED"]
      BY <2>1 DEF LockInstallment
    <3> QED BY <1>1, <3>1 DEF Charge
  <2>2. CASE LockPolicy(w)
    <3>1. PICK saw : charge' = [charge EXCEPT ![w].phase = "COUNTED", ![w].saw = saw]
      BY <2>2 DEF LockPolicy
    <3> QED BY <1>1, <3>1 DEF Charge
  <2> QED BY <1>5, <2>1, <2>2
<1>6. SkipInstallment(w) => charge'[w].phase = "IDLE"
  <2>1. charge[w].at = None => charge[w].phase = "IDLE"
    BY DEF IInv, TickOK
  <2> QED BY <1>1, <2>1 DEF SkipInstallment, Charge
<1>7. ASSUME NEW r \in Requests, BeginUpdate(r) \/ BeginDelete(r) \/ EditStep(r)
      PROVE  charge' = charge
  BY <1>7 DEF BeginUpdate, BeginDelete, Load, EditStep, FlushPolicy, SelectPending, LockPending,
     ApplySchedule, CommitEdit, FailEdit
<1>8. Advance \/ CreateInsurance \/ (\E p \in Policies : LastLegacyPremium(p)) \/ UNCHANGED vars
        => charge' = charge
  BY DEF Advance, CreateInsurance, LastLegacyPremium, vars
<1> QED BY <1>2, <1>3, <1>4, <1>5, <1>6, <1>7, <1>8 DEF Next, TickStep, ChargeMove

\* What a step does to what policy p shows: rows stay, a date without an installment that
\* is shown was shown before, a date that was in time is, unless an edit undoes it, and
\* while a session holds the policy, no other adds an installment or writes its columns.
ShowsStep(p) ==
  /\ \A d \in Dates : /\ inst[p][d].status # "ABSENT" => inst'[p][d].status # "ABSENT"
                      /\ inst'[p][d].status = "PENDING" => inst[p][d].status \in {"PENDING", "ABSENT"}
  /\ Unbacked(p)' => /\ policies'[p].next = policies[p].next
                     /\ policies[p].mode = "LEGACY" => policies'[p].mode = "LEGACY"
  /\ ShownInTime(p) =>
       \/ ShownInTime(p)'
       \/ \E q \in Requests : SelectedUnlocked(q, p) /\ edit'[q] = NoEdit
  /\ policyLock[p] # None /\ policyLock'[p] = policyLock[p]
       => SameColumns(p) /\ PendingOf(inst'[p]) \subseteq PendingOf(inst[p])

LEMMA StepIs ==
  ASSUME [Next]_vars
  PROVE  \/ policies' = policies /\ inst' = inst
         \/ \E p \in Policies : LastLegacyPremium(p)
         \/ CreateInsurance
         \/ \E w \in Ticks : ChargeInstallment(w) \/ CancelInstallment(w)
         \/ \E q \in Requests : CommitEdit(q)
<1>1. Advance => policies' = policies /\ inst' = inst
  BY DEF Advance
<1>2. CASE \E w \in Ticks : StartTick(w) \/ FailTransient(w) \/ CrashTick(w) \/ LockInstallment(w)
                            \/ SkipInstallment(w) \/ LockPolicy(w) \/ SelectNext(w)
                            \/ FailYear(w) \/ EndTick(w)
  BY <1>2 DEF StartTick, FailTransient, CrashTick, LockInstallment, SkipInstallment, LockPolicy,
     SelectNext, FailYear, EndTick
<1>3. CASE \E q \in Requests : BeginUpdate(q) \/ BeginDelete(q) \/ FlushPolicy(q)
                               \/ SelectPending(q) \/ LockPending(q) \/ ApplySchedule(q)
                               \/ FailEdit(q)
  BY <1>3 DEF BeginUpdate, BeginDelete, Load, FlushPolicy, SelectPending, LockPending,
     ApplySchedule, FailEdit
<1>4. CASE \E w \in Ticks, q \in Requests : EndDeadlock(w, q)
  BY <1>4 DEF EndDeadlock
<1>5. CASE UNCHANGED vars
  BY <1>5 DEF vars
<1> QED BY <1>1, <1>2, <1>3, <1>4, <1>5 DEF Next, TickStep, EditStep

\* refresh_next_due: the first of the rows that are PENDING now.
LEMMA EarliestShows ==
  ASSUME NEW rows, NEW x, x = Earliest(rows)
  PROVE  Backs(rows, x) /\ InTime(rows, x)
<1>1. CASE PendingOf(rows) = {}
  BY <1>1 DEF Earliest, Backs, InTime
<1>2. CASE PendingOf(rows) # {}
  <2>1. x \in Dates /\ rows[x].status = "PENDING" /\ \A d \in PendingOf(rows) : x <= d
    BY <1>2, EarliestIs DEF PendingOf
  <2>2. x # None
    BY <2>1, NoneAssumption DEF Dates
  <2> QED BY <2>1, <2>2 DEF Backs, InTime
<1> QED BY <1>1, <1>2

\* A policy that shows such a date.
LEMMA InTimeShows ==
  ASSUME NEW p \in Policies, NEW rows, NEW x, inst'[p] = rows, policies'[p].next = x,
         Backs(rows, x), InTime(rows, x)
  PROVE  ~Unbacked(p)' /\ ShownInTime(p)'
BY DEF Unbacked, Backs, ShownInTime, InTime

\* A step that leaves the date and adds no installment to p.
LEMMA SameShows ==
  ASSUME NEW p \in Policies, policies'[p].next = policies[p].next,
         policies'[p].mode = policies[p].mode,
         policyLock[p] # None /\ policyLock'[p] = policyLock[p] => SameColumns(p),
         \A d \in Dates : \/ inst'[p][d] = inst[p][d]
                          \/ inst[p][d].status = "PENDING" /\ inst'[p][d].status = "CANCELLED"
  PROVE  ShowsStep(p)
<1>1. PendingOf(inst'[p]) \subseteq PendingOf(inst[p])
  BY DEF PendingOf
<1>2. ShownInTime(p) => ShownInTime(p)'
  BY <1>1 DEF ShownInTime
<1> QED BY <1>1, <1>2 DEF ShowsStep

LEMMA UnchangedShows ==
  ASSUME NEW p \in Policies, policies'[p] = policies[p], inst'[p] = inst[p]
  PROVE  ShowsStep(p)
BY SameShows DEF SameColumns

LEMMA LastLegacyPremiumShows ==
  ASSUME IInv, NEW o \in Policies, LastLegacyPremium(o), NEW p \in Policies
  PROVE  ShowsStep(p)
<1>1. policies[o] \in PolicyRow /\ policies \in [Policies -> PolicyRow]
  BY DEF IInv, TypeOK
<1>2. /\ policies' = [policies EXCEPT ![o].status = "COMPLETED", ![o].rule = FALSE]
      /\ inst' = inst /\ policyLock[o] = None
  BY DEF LastLegacyPremium
<1>3. policies'[p].next = policies[p].next /\ policies'[p].mode = policies[p].mode
  BY <1>1, <1>2 DEF PolicyRow
<1>4. CASE p = o
  BY <1>2, <1>3, <1>4, SameShows
<1>5. CASE p # o
  BY <1>1, <1>2, <1>5, UnchangedShows
<1> QED BY <1>4, <1>5

LEMMA CancelInstallmentShows ==
  ASSUME IInv, NEW w \in Ticks, CancelInstallment(w), NEW p \in Policies
  PROVE  ShowsStep(p)
<1>1. PICK o, d : o = charge[w].at[1] /\ d = charge[w].at[2]
  OBVIOUS
<1>2. charge[w].at # None /\ o \in Policies /\ d \in Dates
  BY <1>1, ChargeType DEF CancelInstallment, IInv, TickOK
<1>3. inst[o][d].status = "PENDING"
  BY <1>1, <1>2 DEF IInv, TickOK
<1>4. inst' = [inst EXCEPT ![o][d].status = "CANCELLED"] /\ policies' = policies
  BY <1>1 DEF CancelInstallment
<1>5. inst \in [Policies -> [Dates -> InstallmentRow]] /\ inst[o][d] \in InstallmentRow
  BY <1>2, StateTypes DEF IInv, TypeOK
<1>6. [inst[o][d] EXCEPT !.status = "CANCELLED"].status = "CANCELLED"
  BY <1>5, StatusType
<1>7. ASSUME NEW e \in Dates
      PROVE  \/ inst'[p][e] = inst[p][e]
             \/ inst[p][e].status = "PENDING" /\ inst'[p][e].status = "CANCELLED"
  BY <1>2, <1>3, <1>4, <1>5, <1>6
<1> QED BY <1>4, <1>7, SameShows DEF SameColumns

LEMMA ChargeInstallmentShows ==
  ASSUME IInv, ShownInv, NEW w \in Ticks, ChargeInstallment(w), NEW p \in Policies
  PROVE  ShowsStep(p)
<1>1. PICK o, d : Charges(w, o, d)
  BY ChargeIs
<1>2. PICK rows, pol, x : rows = ChargedRows(w) /\ pol = ChargedPolicy(w) /\ x = charge[w].next
  OBVIOUS
<1>3. /\ o \in Policies /\ d \in Dates /\ inst[o][d].status = "PENDING" /\ policyLock[o] = w
      /\ inst' = [inst EXCEPT ![o] = rows] /\ policies' = [policies EXCEPT ![o] = pol]
      /\ Works(w, o, d) /\ policyLock'[o] = None
  BY <1>1, <1>2 DEF Charges, Works, Release
<1>4. /\ inst'[o] = rows /\ policies'[o] = pol
      /\ \A y \in Policies : y # o => inst'[y] = inst[y] /\ policies'[y] = policies[y]
  BY <1>3 DEF IInv, TypeOK
<1>5. pol.next = x
  BY <1>2, <1>3, ChargedPolicyIs
<1>6. \A e \in Dates : \/ rows[e] = inst[o][e]
                       \/ rows[e].status = "PAID"
                       \/ rows[e].status = "PENDING" /\ inst[o][e].status = "ABSENT"
  BY <1>2, <1>3, ChargedRowsAre
<1>7. Backs(rows, x) /\ InTime(rows, x)
  BY <1>2 DEF ChargeInstallment, ShownInv, SelectOK
<1>8. CASE p = o
  <2>1. ~Unbacked(p)' /\ ShownInTime(p)'
    BY <1>4, <1>5, <1>7, <1>8, InTimeShows
  <2>2. w # None
    BY Constants
  <2> QED BY <1>3, <1>4, <1>6, <1>8, <2>1, <2>2 DEF ShowsStep
<1>9. CASE p # o
  BY <1>4, <1>9, UnchangedShows
<1> QED BY <1>8, <1>9

LEMMA CreateInsuranceShows ==
  ASSUME IInv, CreateInsurance, NEW p \in Policies
  PROVE  ShowsStep(p)
<1>1. PICK o \in Policies, req \in Drafts :
        /\ policies[o].status = "ABSENT"
        /\ Insertable(inst[o], Wanted(Asked(req), req.end))
        /\ inst' = [inst EXCEPT ![o] = CreateRows(o, req, Asked(req))]
        /\ policies' = [policies EXCEPT ![o] = CreatedPolicy(o, req, Asked(req))]
  BY DEF CreateInsurance, CreateRows, CreatedPolicy, Asked
<1>2. PICK rows : rows = CreateRows(o, req, Asked(req))
  OBVIOUS
<1>3. PICK pol : pol = CreatedPolicy(o, req, Asked(req))
  OBVIOUS
<1>4. /\ inst'[o] = rows /\ policies'[o] = pol
      /\ \A x \in Policies : x # o => inst'[x] = inst[x] /\ policies'[x] = policies[x]
  BY <1>1, <1>2, <1>3 DEF IInv, TypeOK
<1>5. pol.next = Earliest(rows)
  BY <1>2, <1>3 DEF CreatedPolicy, Rescheduled, AbsentPolicy
<1>6. \A e \in Dates : \/ rows[e] = inst[o][e]
                       \/ rows[e].status = "PENDING" /\ inst[o][e].status = "ABSENT"
  <2> HIDE DEF Wanted, Asked
  <2> QED BY <1>1, <1>2 DEF CreateRows, Insert, Insertable
<1>7. CASE p = o
  <2>1. ~Unbacked(p)' /\ ShownInTime(p)'
    BY <1>4, <1>5, <1>7, EarliestShows, InTimeShows
  <2>2. policyLock[p] = None
    BY <1>1, <1>7 DEF IInv, HeldExists
  <2> QED BY <1>4, <1>6, <1>7, <2>1, <2>2 DEF ShowsStep
<1>8. CASE p # o
  BY <1>4, <1>8, UnchangedShows
<1> QED BY <1>7, <1>8

LEMMA NewPolicyShows ==
  ASSUME NEW e \in EditRecord
  PROVE  /\ ~Reschedules(e.req) => NewPolicy(e).mode = e.seen.mode
         /\ NewPolicy(e).next = IF e.op = "delete" THEN None
                                ELSE IF Cancels(e) THEN e.next ELSE e.seen.next
         /\ e.op = "delete" => NewPolicy(e).mode = e.seen.mode
         /\ Reschedules(e.req) /\ e.op # "delete" => NewPolicy(e).mode # "LEGACY"
<1>1. e.seen \in PolicyRow /\ e.req \in Request \cup Drafts
  BY EditType
<1>2. CASE e.op = "delete"
  BY <1>1, <1>2 DEF NewPolicy, PolicyRow
<1>3. CASE e.op # "delete"
  <2> DEFINE pol == [e.seen EXCEPT !.status = NewStatus(e), !.end = NewEnd(e),
                                   !.next = IF Cancels(e) THEN e.next ELSE @]
  <2>1. pol.mode = e.seen.mode /\ pol.next = IF Cancels(e) THEN e.next ELSE e.seen.next
    BY <1>1 DEF PolicyRow
  <2>2. DOMAIN pol = {"status", "mode", "annual", "every", "next", "end", "rule"}
    BY <1>1 DEF PolicyRow
  <2>3. NewPolicy(e) = IF Reschedules(e.req) THEN Rescheduled(pol, Merged(e.seen, e.req))
                       ELSE pol
    BY <1>3 DEF NewPolicy
  <2>4. PICK m : m = Merged(e.seen, e.req)
    OBVIOUS
  <2>5. m.mode # "LEGACY"
    BY <1>1, <2>4, MergedType DEF Modes
  <2> HIDE DEF pol
  <2>6. Rescheduled(pol, m).next = pol.next /\ Rescheduled(pol, m).mode = m.mode
    BY <2>2 DEF Rescheduled
  <2> QED BY <1>3, <2>1, <2>3, <2>4, <2>5, <2>6
<1> QED BY <1>2, <1>3

\* What a commit makes of what its policy shows.
LEMMA CommittedShows ==
  ASSUME IInv, ShownInv, NEW q \in Requests, CommitEdit(q), NEW p \in Policies,
         p = edit[q].policy
  PROVE  ShowsStep(p)
<1>1. PICK e, rows, new, pol, now :
        /\ e = edit[q] /\ rows = EditedRows(e) /\ new = NewPolicy(e)
        /\ pol = WrittenPolicy(e) /\ now = policies[p]
  OBVIOUS
<1>2. /\ p = e.policy /\ e \in EditRecord /\ EditOK(q) /\ q # None
      /\ e.op # None /\ Committing(e) /\ Finish(q)
      /\ Cancels(e) /\ LeftToWrite(e) => PolicyFree(p, q)
      /\ inst' = [inst EXCEPT ![p] = rows] /\ policies' = [policies EXCEPT ![p] = pol]
  BY <1>1, CommitIs, EditIs, Constants
<1>3. edit'[q] = NoEdit /\ (policyLock[p] = q => policyLock'[p] = None)
  BY <1>2, EditIs DEF Finish
<1>4. /\ \A d \in e.targets : inst[p][d].status = "PENDING"
      /\ \A d \in Dates :
           \/ d \in e.targets /\ rows[d].status = "CANCELLED"
           \/ d \notin e.targets /\ rows[d] = inst[p][d]
           \/ /\ d \in DOMAIN NewSchedule(e)
              /\ inst[p][d].status = "ABSENT" /\ rows[d].status = "PENDING"
  <2>1. e = edit[q] /\ Committing(e) /\ p = e.policy /\ rows = EditedRows(e)
    BY <1>1, <1>2
  <2>2. /\ \A d \in e.targets : inst[e.policy][d].status = "PENDING"
        /\ \A d \in Dates :
             \/ d \in e.targets /\ EditedRows(e)[d].status = "CANCELLED"
             \/ d \notin e.targets /\ EditedRows(e)[d] = inst[e.policy][d]
             \/ /\ d \in DOMAIN NewSchedule(e)
                /\ inst[e.policy][d].status = "ABSENT" /\ EditedRows(e)[d].status = "PENDING"
    BY <2>1, EditedRowsAre
  <2> QED BY <2>1, <2>2
<1>5. inst'[p] = rows /\ policies'[p] = pol
  BY <1>2 DEF IInv, TypeOK
<1>6. /\ pol.next = IF new.next # e.seen.next THEN new.next ELSE now.next
      /\ pol.mode = IF new.mode # e.seen.mode THEN new.mode ELSE now.mode
  BY <1>1, <1>2 DEF WrittenPolicy, Written
<1>7. /\ ~Reschedules(e.req) \/ e.op = "delete" => new.mode = e.seen.mode
      /\ new.next = IF e.op = "delete" THEN None ELSE IF Cancels(e) THEN e.next ELSE e.seen.next
      /\ Reschedules(e.req) /\ e.op # "delete" => new.mode # "LEGACY"
  BY <1>1, <1>2, NewPolicyShows
<1>8. /\ LoadOK(e) /\ NextOK(e, policyLock[p] = q)
      /\ e.op = "update" \/ e.op = "delete"
  <2>1. e.phase # "IDLE"
    BY <1>2 DEF Committing, Flushed
  <2> QED BY <1>1, <1>2, <2>1, EditType DEF ShownInv, SeenOK
<1>9. /\ Unbacked(p) => e.seen.next = now.next
      /\ Known(e) => inst[p][e.seen.next].status # "ABSENT"
      /\ e.op = "delete" => ~Reschedules(e.req)
  BY <1>1, <1>2, <1>8 DEF LoadOK
<1>10. Cancels(e) /\ e.op = "update" =>
         /\ e.next = e.seen.next /\ e.seen.mode # "LEGACY"
              => \A d \in Dates : d \notin DOMAIN NewSchedule(e)
         /\ Backs(rows, e.next)
         /\ policyLock[p] = q => InTime(rows, e.next)
  BY <1>1, <1>2, <1>8 DEF NextOK, Committing
<1>11. ~Reschedules(e.req) => \A d \in Dates : d \notin DOMAIN NewSchedule(e)
  BY DEF NewSchedule
<1>12. \A d \in Dates : /\ inst[p][d].status # "ABSENT" => inst'[p][d].status # "ABSENT"
                        /\ inst'[p][d].status = "PENDING" => inst[p][d].status \in {"PENDING", "ABSENT"}
  BY <1>4, <1>5
<1>13. (\A d \in Dates : d \notin DOMAIN NewSchedule(e)) => PendingOf(rows) \subseteq PendingOf(inst[p])
  BY <1>4 DEF PendingOf
<1>14. now.next \in Dates \cup {None}
  BY <1>1, StateTypes, PolicyType DEF IInv
<1>15. ASSUME Unbacked(p)'
       PROVE  pol.next = now.next /\ (now.mode = "LEGACY" => pol.mode = "LEGACY")
  <2>1. pol.next # None /\ rows[pol.next].status = "ABSENT"
    BY <1>5, <1>15 DEF Unbacked, Backs
  <2>2. pol.next # new.next \/ ~(Cancels(e) /\ e.op = "update")
    BY <1>7, <1>10, <2>1 DEF Backs
  <2>3. CASE new.next # e.seen.next
    BY <1>6, <1>7, <1>8, <2>1, <2>2, <2>3
  <2>4. CASE new.next = e.seen.next
    <3>1. pol.next = now.next /\ Unbacked(p)
      BY <1>1, <1>5, <1>6, <1>12, <1>14, <2>1, <2>4 DEF Unbacked, Backs
    <3>2. e.seen.next = now.next
      BY <1>9, <3>1
    <3>3. e.op # "delete" /\ ~Cancels(e)
      BY <1>7, <1>8, <2>1, <2>2, <2>4, <3>1, <3>2
    <3>4. ~Reschedules(e.req)
      BY <3>3 DEF Cancels
    <3> QED BY <1>6, <1>7, <3>1, <3>4
  <2> QED BY <2>3, <2>4
<1>16. ASSUME ShownInTime(p)
       PROVE  \/ ShownInTime(p)'
              \/ \E r \in Requests : SelectedUnlocked(r, p) /\ edit'[r] = NoEdit
  <2>1. CASE SelectedUnlocked(q, p)
    BY <1>3, <2>1
  <2>2. CASE ~SelectedUnlocked(q, p)
    <3>1. policyLock[p] = q /\ e.seen.mode # "LEGACY"
      BY <1>1, <1>2, <2>2 DEF SelectedUnlocked
    <3>2. ASSUME pol.next = now.next, \A d \in Dates : d \notin DOMAIN NewSchedule(e)
          PROVE  ShownInTime(p)'
      BY <1>1, <1>5, <1>13, <1>16, <3>2 DEF ShownInTime
    <3>3. CASE Cancels(e) /\ e.op = "update"
      <4>1. CASE e.next = e.seen.next
        BY <1>6, <1>7, <1>8, <1>10, <3>1, <3>2, <3>3, <4>1
      <4>2. CASE e.next # e.seen.next
        BY <1>5, <1>6, <1>7, <1>8, <1>10, <3>1, <3>3, <4>2 DEF ShownInTime, InTime
      <4> QED BY <4>1, <4>2
    <3>4. CASE e.op = "delete"
      <4>1. CASE e.seen.next = None
        BY <1>6, <1>7, <1>9, <1>11, <3>2, <3>4, <4>1
      <4>2. CASE e.seen.next # None
        BY <1>5, <1>6, <1>7, <3>4, <4>2 DEF ShownInTime
      <4> QED BY <4>1, <4>2
    <3>5. CASE ~Cancels(e)
      BY <1>6, <1>7, <1>11, <3>2, <3>5 DEF Cancels
    <3> QED BY <1>8, <3>3, <3>4, <3>5
  <2> QED BY <2>1, <2>2
<1>17. ASSUME policyLock[p] # None, policyLock'[p] = policyLock[p]
       PROVE  SameColumns(p) /\ PendingOf(inst'[p]) \subseteq PendingOf(inst[p])
  <2>1. policyLock[p] \notin {None, q}
    BY <1>2, <1>3, <1>17
  <2>2. /\ new.status = e.seen.status /\ new.mode = e.seen.mode
        /\ new.annual = e.seen.annual /\ new.every = e.seen.every
        /\ new.end = e.seen.end /\ new.next = e.seen.next
    BY <1>1, <1>2, <2>1, UnlockedWrites
  <2>3. SameColumns(p)
    BY <1>1, <1>2, <1>5, <2>2 DEF SameColumns, WrittenPolicy, Written
  <2>4. \A d \in Dates : d \notin DOMAIN NewSchedule(e)
    <3>1. CASE ~Reschedules(e.req)
      BY <1>11, <3>1
    <3>2. CASE Reschedules(e.req)
      <4>1. e.op = "update" /\ Cancels(e)
        BY <1>8, <1>9, <3>2 DEF Cancels
      <4>2. e.seen.mode # "LEGACY"
        BY <1>7, <2>2, <3>2, <4>1
      <4>3. e.next = e.seen.next
        BY <1>7, <1>8, <2>2, <4>1
      <4> QED BY <1>10, <4>1, <4>2, <4>3
    <3> QED BY <3>1, <3>2
  <2> QED BY <1>5, <1>13, <2>3, <2>4
<1> QED BY <1>1, <1>5, <1>12, <1>15, <1>16, <1>17 DEF ShowsStep

LEMMA CommitEditShows ==
  ASSUME IInv, ShownInv, NEW q \in Requests, CommitEdit(q), NEW p \in Policies
  PROVE  ShowsStep(p)
<1>1. CASE p = edit[q].policy
  BY <1>1, CommittedShows
<1>2. CASE p # edit[q].policy
  <2>1. inst'[p] = inst[p] /\ policies'[p] = policies[p]
    BY <1>2 DEF CommitEdit, IInv, TypeOK
  <2> QED BY <2>1, UnchangedShows
<1> QED BY <1>1, <1>2

LEMMA NextShows ==
  ASSUME IInv, ShownInv, [Next]_vars, NEW p \in Policies
  PROVE  ShowsStep(p)
BY StepIs, UnchangedShows, LastLegacyPremiumShows, CreateInsuranceShows, ChargeInstallmentShows,
   CancelInstallmentShows, CommitEditShows

\* The status of the rows that an edit leaves, and that a charge leaves.
LEMMA EditedStatus ==
  ASSUME NEW e, NEW d \in Dates, IInv, IInv', e.policy \in Policies
  PROVE  /\ EditedRows(e)[d].status
              = IF d \in DOMAIN NewSchedule(e) THEN "PENDING"
                ELSE IF d \in e.targets THEN "CANCELLED" ELSE inst[e.policy][d].status
         /\ EditedRows(e)'[d].status
              = IF d \in DOMAIN NewSchedule(e) THEN "PENDING"
                ELSE IF d \in e.targets THEN "CANCELLED" ELSE inst'[e.policy][d].status
<1>1. inst[e.policy][d] \in InstallmentRow /\ inst'[e.policy][d] \in InstallmentRow
  BY DEF IInv, TypeOK
<1>2. /\ [inst[e.policy][d] EXCEPT !.status = "CANCELLED"].status = "CANCELLED"
      /\ [inst'[e.policy][d] EXCEPT !.status = "CANCELLED"].status = "CANCELLED"
  BY <1>1, StatusType
<1> HIDE DEF NewSchedule
<1> QED BY <1>2 DEF EditedRows, Insert, CancelledRows

LEMMA ChargedStatus ==
  ASSUME NEW rows \in [Dates -> InstallmentRow], NEW x \in Dates, NEW year, NEW d \in Dates
  PROVE  Insert([rows EXCEPT ![x].status = "PAID"], year)[d].status
           = IF d \in DOMAIN year THEN "PENDING" ELSE IF d = x THEN "PAID" ELSE rows[d].status
<1>1. [rows[x] EXCEPT !.status = "PAID"].status = "PAID"
  BY StatusType
<1> QED BY <1>1 DEF Insert

\* What a session has selected stays good through the steps of the others, as long as
\* it holds the policy.
LEMMA NextKept ==
  ASSUME IInv, IInv', NEW e \in EditRecord, NEW p \in Policies, p = e.policy, ShowsStep(p),
         NEW held \in BOOLEAN, NEW held2 \in BOOLEAN, NextOK(e, held),
         held2 => held /\ policyLock[p] # None /\ policyLock'[p] = policyLock[p]
  PROVE  NextOK(e, held2)'
<1> SUFFICES ASSUME e.phase = "SCHEDULED", e.op = "update" PROVE NextOK(e, held2)'
  BY DEF NextOK
<1>1. PICK rows, rows2 : rows = EditedRows(e) /\ rows2 = EditedRows(e)'
  OBVIOUS
<1>2. ASSUME NEW d \in Dates
      PROVE  /\ rows[d].status # "ABSENT" => rows2[d].status # "ABSENT"
             /\ held2 /\ rows2[d].status = "PENDING" => rows[d].status = "PENDING"
  <2>1. /\ rows[d].status
              = IF d \in DOMAIN NewSchedule(e) THEN "PENDING"
                ELSE IF d \in e.targets THEN "CANCELLED" ELSE inst[p][d].status
        /\ rows2[d].status
              = IF d \in DOMAIN NewSchedule(e) THEN "PENDING"
                ELSE IF d \in e.targets THEN "CANCELLED" ELSE inst'[p][d].status
    BY <1>1, EditedStatus
  <2>2. /\ inst[p][d].status # "ABSENT" => inst'[p][d].status # "ABSENT"
        /\ held2 /\ inst'[p][d].status = "PENDING" => inst[p][d].status = "PENDING"
    BY DEF ShowsStep, PendingOf
  <2> QED BY <2>1, <2>2
<1>3. e.next \in Dates \cup {None}
  BY EditType
<1>4. Backs(rows2, e.next)
  BY <1>1, <1>2, <1>3 DEF NextOK, Backs
<1>5. held2 => InTime(rows2, e.next)
  BY <1>1, <1>2 DEF NextOK, InTime, PendingOf
<1> QED BY <1>1, <1>4, <1>5 DEF NextOK

LEMMA SelectKept ==
  ASSUME IInv, IInv', NEW w \in Ticks, charge'[w] = charge[w], SelectOK(w),
         \A p \in Policies : ShowsStep(p)
  PROVE  SelectOK(w)'
<1> SUFFICES ASSUME charge[w].phase = "SELECTED" PROVE SelectOK(w)'
  BY DEF SelectOK
<1>1. PICK p, x, year, next : /\ p = charge[w].at[1] /\ x = charge[w].at[2]
                              /\ year = YearOf(w) /\ next = charge[w].next
  OBVIOUS
<1>2. Counted(w) /\ Counted(w)' /\ w # None
  BY Constants DEF Counted
<1>3. p \in Policies /\ x \in Dates /\ policyLock[p] = w
  BY <1>1, <1>2, WorksIs DEF Works
<1>4. policyLock'[p] = w
  BY <1>1, <1>2 DEF IInv, TickOK, CountOK
<1>5. ShowsStep(p) /\ SameColumns(p) /\ PendingOf(inst'[p]) \subseteq PendingOf(inst[p])
  BY <1>2, <1>3, <1>4 DEF ShowsStep
<1>6. YearOf(w)' = year
  BY <1>1, <1>5, YearKept
<1>7. PICK rows, rows2 : rows = ChargedRows(w) /\ rows2 = ChargedRows(w)'
  OBVIOUS
<1>8. /\ rows = Insert([inst[p] EXCEPT ![x].status = "PAID"], year)
      /\ rows2 = Insert([inst'[p] EXCEPT ![x].status = "PAID"], year)
  <2> HIDE DEF YearOf
  <2> QED BY <1>1, <1>6, <1>7 DEF ChargedRows, PaidRows
<1>9. inst[p] \in [Dates -> InstallmentRow] /\ inst'[p] \in [Dates -> InstallmentRow]
  BY <1>3 DEF IInv, TypeOK
<1>10. ASSUME NEW d \in Dates
       PROVE  /\ rows[d].status # "ABSENT" => rows2[d].status # "ABSENT"
              /\ rows2[d].status = "PENDING" => rows[d].status = "PENDING"
  <2>1. /\ rows[d].status = IF d \in DOMAIN year THEN "PENDING"
                            ELSE IF d = x THEN "PAID" ELSE inst[p][d].status
        /\ rows2[d].status = IF d \in DOMAIN year THEN "PENDING"
                             ELSE IF d = x THEN "PAID" ELSE inst'[p][d].status
    BY <1>3, <1>8, <1>9, ChargedStatus
  <2>2. /\ inst[p][d].status # "ABSENT" => inst'[p][d].status # "ABSENT"
        /\ inst'[p][d].status = "PENDING" => inst[p][d].status = "PENDING"
    BY <1>5 DEF ShowsStep, PendingOf
  <2> QED BY <2>1, <2>2
<1>11. next \in Dates \cup {None} /\ Backs(rows, next) /\ InTime(rows, next)
  BY <1>1, <1>7, ChargeType DEF SelectOK, IInv
<1>12. Backs(rows2, next) /\ InTime(rows2, next)
  BY <1>10, <1>11 DEF Backs, InTime, PendingOf
<1> QED BY <1>1, <1>7, <1>12 DEF SelectOK

\* The date that a tick selects.
LEMMA SelectNextSelects ==
  ASSUME IInv, NEW w \in Ticks, SelectNext(w)
  PROVE  SelectOK(w)'
<1>1. PICK rows, next : rows = ChargedRows(w) /\ next = Earliest(rows)
  OBVIOUS
<1>2. /\ charge'[w].next = next /\ charge'[w].at = charge[w].at /\ charge'[w].saw = charge[w].saw
      /\ charge'[w].phase = "SELECTED" /\ charge[w].phase = "COUNTED"
      /\ policies' = policies /\ inst' = inst
  BY <1>1, ChargeType DEF SelectNext, Charge, IInv
<1>3. YearOf(w)' = YearOf(w)
  BY <1>2 DEF YearOf
<1>4. ChargedRows(w)' = rows
  <2> HIDE DEF YearOf
  <2> QED BY <1>1, <1>2, <1>3 DEF ChargedRows, PaidRows
<1>5. Backs(rows, next) /\ InTime(rows, next)
  BY <1>1, EarliestShows
<1> QED BY <1>2, <1>4, <1>5 DEF SelectOK

\* The date that an edit selects.
LEMMA ApplySelects ==
  ASSUME IInv, NEW q \in Requests, NEW e, e = edit[q], ApplySchedule(q), LoadOK(e), TargetsOK(e),
         NEW f \in EditRecord, f.phase = "SCHEDULED", f.policy = e.policy, f.op = e.op,
         f.req = e.req, f.seen = e.seen, f.targets = e.targets,
         f.op = "update" => f.next = Earliest(EditedRows(e)), NEW held
  PROVE  NextOK(f, held)
<1> SUFFICES ASSUME f.op = "update" PROVE NextOK(f, held)
  BY DEF NextOK
<1>1. PICK p, rows, x : p = e.policy /\ rows = EditedRows(e) /\ x = Earliest(rows)
  OBVIOUS
<1>2. NewSchedule(f) = NewSchedule(e)
  BY SameRequest
<1>3. EditedRows(f) = rows
  <2> HIDE DEF NewSchedule
  <2> QED BY <1>1, <1>2 DEF EditedRows, CancelledRows
<1>4. Backs(rows, x) /\ InTime(rows, x) /\ f.next = x
  BY <1>1, EarliestShows
<1>5. ASSUME x = e.seen.next, e.seen.mode # "LEGACY", NEW d \in Dates, d \in DOMAIN NewSchedule(e)
      PROVE  FALSE
  <2>1. e.phase = "READY" /\ Insertable(CancelledRows(e), NewSchedule(e))
    BY DEF ApplySchedule
  <2>2. \A y \in Dates : IF y \in e.targets THEN CancelledRows(e)[y].status = "CANCELLED"
                         ELSE CancelledRows(e)[y] = inst[p][y]
    BY <1>1, <2>1, CancelledRowsAre
  <2> HIDE DEF NewSchedule, CancelledRows
  <2>3. \A y \in Dates : IF y \in DOMAIN NewSchedule(e) THEN rows[y].status = "PENDING"
                         ELSE rows[y] = CancelledRows(e)[y]
    BY <1>1 DEF EditedRows, Insert
  <2>4. d \in PendingOf(rows)
    BY <1>5, <2>3 DEF PendingOf
  <2>5. x \in Dates /\ rows[x].status = "PENDING"
    BY <1>1, <2>4, EarliestIs DEF PendingOf
  <2>6. Known(e)
    BY <1>5, <2>5, NoneAssumption DEF Known, Dates
  <2>7. inst[p][x].status # "ABSENT"
    BY <1>1, <1>5, <2>6 DEF LoadOK
  <2>8. CASE x \in DOMAIN NewSchedule(e)
    BY <2>1, <2>2, <2>5, <2>7, <2>8 DEF Insertable
  <2>9. CASE x \notin DOMAIN NewSchedule(e)
    <3>1. x \notin e.targets /\ inst[p][x].status = "PENDING"
      BY <2>2, <2>3, <2>5, <2>9
    <3> QED BY <1>1, <1>5, <2>1, <2>6, <3>1 DEF TargetsOK
  <2> QED BY <2>8, <2>9
<1> QED BY <1>2, <1>3, <1>4, <1>5 DEF NextOK

\* A step of a request, or a load.
LEMMA OwnKept ==
  ASSUME IInv, IInv', ShownInv, NEW q \in Requests, RowsSame,
         \/ edit'[q] \in EditRecord /\ Loads(edit'[q])
         \/ FlushPolicy(q) \/ SelectPending(q) \/ LockPending(q) \/ ApplySchedule(q)
  PROVE  SeenOK(q)'
<1>1. PICK e, f, p : e = edit[q] /\ f = edit'[q] /\ p = f.policy
  OBVIOUS
<1>1a. PICK held \in BOOLEAN : held = (policyLock'[f.policy] = q)
  OBVIOUS
<1>2. e \in EditRecord /\ f \in EditRecord
  BY <1>1 DEF IInv, TypeOK
<1>3. inst' = inst /\ policies' = policies
  BY DEF RowsSame
<1>4. ASSUME LoadOK(f), TargetsOK(f), NextOK(f, held) PROVE SeenOK(q)'
  <2>1. LoadOK(f)' /\ TargetsOK(f)'
    BY <1>3, <1>4 DEF LoadOK, TargetsOK, Unbacked
  <2>2. NextOK(f, held)'
    BY <1>3, <1>4 DEF NextOK, EditedRows, CancelledRows
  <2> QED BY <1>1, <1>1a, <2>1, <2>2 DEF SeenOK
<1>5. CASE Loads(f)
  <2>1. Known(f) => inst[p][f.seen.next].status # "ABSENT"
    BY <1>1, <1>5 DEF ShownInv, Unbacked, Backs, Known, Loads
  <2>2. LoadOK(f)
    BY <1>1, <1>5, <2>1 DEF LoadOK, Loads
  <2> QED BY <1>4, <1>5, <2>2 DEF Loads, TargetsOK, NextOK
<1>6. CASE FlushPolicy(q) \/ SelectPending(q) \/ LockPending(q) \/ ApplySchedule(q)
  <2>1. e.phase \in {"LOADED", "FLUSHED", "CANCELLING", "READY"}
    BY <1>1, <1>6 DEF FlushPolicy, Move, SelectPending, Flushed, LockPending, ApplySchedule
  <2>2. f.policy = e.policy /\ f.op = e.op /\ f.req = e.req /\ f.seen = e.seen /\ p \in Policies
    <3>1. f.policy = e.policy /\ f.op = e.op /\ f.req = e.req /\ f.seen = e.seen
      <4>1. CASE FlushPolicy(q)
        BY <1>1, <4>1, EditIs DEF FlushPolicy, Move, EditRecord
      <4>2. CASE SelectPending(q)
        <5>1. PICK x : x = PendingOf(inst[edit[q].policy])
          OBVIOUS
        <5> QED BY <1>1, <4>2, <5>1, EditIs DEF SelectPending, EditRecord
      <4>3. CASE LockPending(q)
        <5>1. PICK x : x = StillPending(edit[q])
          OBVIOUS
        <5>2. edit' = [edit EXCEPT ![q].phase = "READY", ![q].targets = x]
          BY <4>3, <5>1 DEF LockPending
        <5> QED BY <1>1, <5>2, EditIs DEF EditRecord
      <4>4. CASE ApplySchedule(q)
        <5>1. PICK x : edit' = [edit EXCEPT ![q].phase = "SCHEDULED", ![q].next = x]
          BY <4>4 DEF ApplySchedule
        <5> QED BY <1>1, <5>1, EditIs DEF EditRecord
      <4> QED BY <1>6, <4>1, <4>2, <4>3, <4>4
    <3> QED BY <1>1, <2>1, <3>1, EditIs DEF EditOK
  <2>3. LoadOK(e) /\ TargetsOK(e)
    BY <1>1, <2>1 DEF ShownInv, SeenOK
  <2>4. LoadOK(f)
    BY <2>2, <2>3 DEF LoadOK, Known
  <2>5. f.seen.next \in Dates \cup {None}
    BY <1>2, EditType, PolicyType
  <2>6. CASE FlushPolicy(q)
    <3>1. f.phase = "FLUSHED"
      BY <1>1, <2>6, EditIs DEF FlushPolicy, Move, EditRecord
    <3> QED BY <1>4, <2>4, <3>1 DEF TargetsOK, NextOK
  <2>7. CASE SelectPending(q)
    <3>1. f.phase = "CANCELLING" /\ f.targets = PendingOf(inst[p])
      BY <1>1, <2>2, <2>7, EditIs DEF SelectPending, EditRecord
    <3>2. TargetsOK(f)
      BY <1>1, <2>5, <3>1 DEF TargetsOK, PendingOf, Known
    <3> QED BY <1>4, <2>4, <3>1, <3>2 DEF NextOK
  <2>8. CASE LockPending(q)
    <3>1. f.phase = "READY" /\ f.targets = StillPending(e) /\ e.phase = "CANCELLING"
      BY <1>1, <2>8, EditIs DEF LockPending, EditRecord
    <3>2. TargetsOK(f)
      BY <1>1, <2>2, <2>3, <2>5, <3>1 DEF TargetsOK, PendingOf, Known, StillPending
    <3> QED BY <1>4, <2>4, <3>1, <3>2 DEF NextOK
  <2>9. CASE ApplySchedule(q)
    <3>1. /\ f.phase = "SCHEDULED" /\ f.targets = e.targets
          /\ f.op = "update" => f.next = Earliest(EditedRows(e))
      BY <1>1, <2>2, <2>9, EditIs DEF ApplySchedule, EditRecord, EditedRows
    <3>2. NextOK(f, held)
      BY <1>1, <1>1a, <1>2, <2>2, <2>3, <2>9, <3>1, ApplySelects
    <3> QED BY <1>4, <2>4, <3>1, <3>2 DEF TargetsOK
  <2> QED BY <1>6, <2>6, <2>7, <2>8, <2>9
<1> QED BY <1>1, <1>5, <1>6

LEMMA ShownKept ==
  ASSUME IInv, IInv', ShownInv, \A p \in Policies : ShowsStep(p),
         \A q \in Requests : EditMove(q), \A w \in Ticks : ChargeMove(w)
  PROVE  ShownInv'
<1>1. /\ \A p \in Policies : policies[p].next \in Dates \cup {None}
      /\ \A p \in Policies : policies'[p].next \in Dates \cup {None}
  <2>1. \A p \in Policies : policies[p] \in PolicyRow /\ policies'[p] \in PolicyRow
    BY DEF IInv, TypeOK
  <2> QED BY <2>1, PolicyType
<1>2. ASSUME NEW p \in Policies, Unbacked(p)'
      PROVE  /\ policies'[p].next = policies[p].next /\ Unbacked(p)
             /\ policies[p].mode = "LEGACY" /\ policies'[p].mode = "LEGACY"
  <2>1. policies'[p].next = policies[p].next /\ policies'[p].next \in Dates
    BY <1>1, <1>2 DEF ShowsStep, Unbacked, Backs
  <2>2. inst'[p][policies'[p].next].status = "ABSENT"
    BY <1>2 DEF Unbacked, Backs
  <2>3. Unbacked(p)
    BY <1>2, <2>1, <2>2 DEF ShowsStep, Unbacked, Backs
  <2> QED BY <1>2, <2>1, <2>3 DEF ShowsStep, ShownInv
<1>3. ASSUME NEW q \in Requests PROVE SeenOK(q)'
  <2>1. SeenOK(q) /\ EditMove(q)
    BY DEF ShownInv
  <2>2. CASE edit'[q].phase = "IDLE"
    BY <2>2 DEF SeenOK
  <2>3. CASE /\ edit'[q] = edit[q]
             /\ \A p \in Policies : policyLock'[p] = q => policyLock[p] = q
    <3>1. PICK e, p : e = edit[q] /\ p = e.policy
      OBVIOUS
    <3>2. CASE e.phase # "IDLE"
      <4>1. /\ p \in Policies /\ e \in EditRecord /\ e.seen.next \in Dates \cup {None}
            /\ ShowsStep(p) /\ q # None
        BY <3>1, <3>2, EditIs, EditType, PolicyType, Constants DEF EditOK
      <4>2. PICK held \in BOOLEAN, held2 \in BOOLEAN :
              held = (policyLock[p] = q) /\ held2 = (policyLock'[p] = q)
        OBVIOUS
      <4>3. LoadOK(e) /\ TargetsOK(e) /\ NextOK(e, held)
        BY <2>1, <3>1, <3>2, <4>2 DEF SeenOK
      <4>4. LoadOK(e)'
        <5>1. Unbacked(p)' => e.seen.next = policies'[p].next
          BY <1>2, <3>1, <4>1, <4>3 DEF LoadOK
        <5>2. Known(e) => inst'[p][e.seen.next].status # "ABSENT"
          BY <3>1, <4>1, <4>3 DEF LoadOK, ShowsStep, Known
        <5> QED BY <3>1, <4>3, <5>1, <5>2 DEF LoadOK
      <4>5. TargetsOK(e)'
        BY <3>1, <4>1, <4>3 DEF TargetsOK, LoadOK, ShowsStep, Known
      <4>6. NextOK(e, held2)'
        BY <2>3, <3>1, <4>1, <4>2, <4>3, NextKept
      <4> QED BY <2>3, <3>1, <4>2, <4>4, <4>5, <4>6 DEF SeenOK
    <3>3. CASE e.phase = "IDLE"
      BY <2>3, <3>1, <3>3 DEF SeenOK
    <3> QED BY <3>2, <3>3
  <2>4. CASE /\ RowsSame
             /\ \/ edit'[q] \in EditRecord /\ Loads(edit'[q])
                \/ FlushPolicy(q) \/ SelectPending(q) \/ LockPending(q) \/ ApplySchedule(q)
    BY <2>4, OwnKept
  <2> QED BY <2>1, <2>2, <2>3, <2>4 DEF EditMove
<1>4. ASSUME NEW w \in Ticks PROVE SelectOK(w)'
  <2>1. SelectOK(w) /\ ChargeMove(w)
    BY DEF ShownInv
  <2>2. charge'[w].phase # "SELECTED" => SelectOK(w)'
    BY DEF SelectOK
  <2> QED BY <2>1, <2>2, SelectKept, SelectNextSelects DEF ChargeMove
<1> QED BY <1>2, <1>3, <1>4 DEF ShownInv

LEMMA ShownInvariant == Spec => []ShownInv
<1>1. Init => ShownInv
  <2> SUFFICES ASSUME Init PROVE ShownInv
    OBVIOUS
  <2>1. ASSUME NEW p \in Policies, Unbacked(p) PROVE policies[p].mode = "LEGACY"
    <3>1. CASE policies[p] = AbsentPolicy
      BY <2>1, <3>1 DEF Unbacked, Backs, AbsentPolicy
    <3>2. CASE policies[p] = LegacyPolicy
      BY <3>2 DEF AbsentPolicy, LegacyPolicy
    <3> QED BY <3>1, <3>2 DEF Init
  <2>2. ASSUME NEW q \in Requests PROVE SeenOK(q)
    BY DEF Init, SeenOK, NoEdit
  <2>3. ASSUME NEW w \in Ticks PROVE SelectOK(w)
    BY DEF Init, SelectOK, NoCharge
  <2> QED BY <2>1, <2>2, <2>3 DEF ShownInv
<1>2. IInv /\ IInv' /\ ShownInv /\ [Next]_vars => ShownInv'
  <2> SUFFICES ASSUME IInv, IInv', ShownInv, [Next]_vars PROVE ShownInv'
    OBVIOUS
  <2>1. \A p \in Policies : ShowsStep(p)
    BY NextShows
  <2>2. \A w \in Ticks : ChargeMove(w)
    BY ChargeMoves
  <2> QED BY <2>1, <2>2, EditMoves, ShownKept
<1> QED BY <1>1, <1>2, Invariant, PTL DEF Spec

\* refresh_next_due and the columns an UPDATE writes: no premium is charged before the
\* date that is shown as the next one, whichever edits and ticks overlap, unless an edit
\* undoes it that selected the date before it held the policy, or that loaded a policy
\* from before schedules.
THEOREM ShownCorrect == Spec => NoChargeBeforeShown
<1> DEFINE A == \A p \in Policies :
                  ShownInTime(p) =>
                    \/ ShownInTime(p)'
                    \/ \E q \in Requests : SelectedUnlocked(q, p) /\ edit'[q] = NoEdit
<1>1. IInv /\ ShownInv /\ [Next]_vars => [A]_vars
  BY NextShows DEF ShowsStep
<1> QED BY <1>1, Invariant, ShownInvariant, PTL DEF Spec, NoChargeBeforeShown
=============================================================================
