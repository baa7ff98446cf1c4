-------------------------------- MODULE Jobs --------------------------------
(***************************************************************************)
(* The job engine: a recurring income, a recurring expense or a debt with  *)
(* EMIs has a date, and one scheduled_jobs row says what is due on it.  A  *)
(* tick asks for confirmation of due jobs and confirms the stale ones; the *)
(* user answers through notifications or edits the source.  Whoever moves  *)
(* the date cancels the pending jobs and gets or creates the next one.     *)
(*                                                                         *)
(* Nothing in the schema makes a job unique per period, or an EMI event:   *)
(* every session looks before it inserts, without locking what it read.    *)
(* What orders two sessions is the UPDATE of the source row, flushed       *)
(* before the first statement that looks.  Amounts are not modelled (see   *)
(* SavingsBook for the pools): a debt is a number of instalments left.     *)
(*                                                                         *)
(* A session loads its job and the source, looks (takes the source row if  *)
(* it has changed it, then runs the statements that look for jobs and      *)
(* events) and commits.                                                    *)
(***************************************************************************)
EXTENDS Integers, Sequences, FiniteSets, SequencesExt

CONSTANTS
  Kinds,        \* subset of {"income", "expense", "debt"}
  Requests,     \* user requests
  Engine,       \* the tick; the advisory lock allows one at a time
  None,
  LastDate,     \* bound on dates, counted in periods
  Spans,        \* EMI dates that share one period key (above 1: fortnightly EMIs, say, with monthly keys)
  MaxRetries,   \* JOB_MAX_RETRIES
  MaxLeft,      \* instalments of the debt
  MaxRows,      \* bound on the jobs
  MaxRequests   \* bound on the requests

Dates == 1..LastDate
Sessions == Requests \cup {Engine}
Statuses == {"SCHEDULED", "AWAITING", "APPLIED", "DELAYED", "SKIPPED", "CANCELLED", "FAILED"}
Pending == {"SCHEDULED", "AWAITING"}

ASSUME JobsAssumption ==
  /\ Kinds \subseteq {"income", "expense", "debt"} /\ Engine \notin Requests
  /\ ({LastDate, MaxRetries, MaxRows} \cup Spans) \subseteq Nat \ {0}
  /\ {MaxLeft, MaxRequests} \subseteq Nat
ASSUME NoneAssumption == None \notin Nat /\ None \notin Sessions

VARIABLES
  kind,     \* what the source is
  source,   \* the committed row of the income, expense or debt
  rows,     \* committed jobs of the source, in the order they were inserted
  events,   \* FINALIZED EMI events, per period key
  bucket,   \* OPEN entries of the debt's default bucket
  today,
  owner,    \* the session that has updated the source row and not committed
  tx,       \* what each session has read, and how far it is
  used

vars == <<kind, source, rows, events, bucket, today, owner, tx, used>>

IsDebt == kind = "debt"

\* Incomes and expenses use the day; a debt's key may cover several EMI dates.
KeyOf(d) == IF IsDebt THEN d \div source.span ELSE d
Keys == 0..LastDate

NewRow(d) == [key |-> KeyOf(d), due |-> d, status |-> "SCHEDULED",
              stamped |-> FALSE, tries |-> 0, told |-> FALSE]

NoTx == [op |-> None, job |-> 0, date |-> None, flag |-> FALSE, src |-> None, seen |-> <<>>,
         flips |-> {}, known |-> FALSE, look |-> 0, paid |-> {}, phase |-> "IDLE"]

-----------------------------------------------------------------------------
(* What a session does to the rows it sees.  A world is the session's view  *)
(* of the source (in memory), of the jobs and of the debt's records; `seen` *)
(* is the status in memory of the jobs it loaded, `look` the last job its   *)
(* statements could see, `ok` whether it has raised.                        *)

WorldOf(c) ==
  [src |-> tx[c].src, rows |-> rows, events |-> events, bucket |-> bucket,
   seen |-> tx[c].seen, look |-> tx[c].look, paid |-> tx[c].paid, ok |-> TRUE]

Raised(w) == [w EXCEPT !.ok = FALSE]

\* The ORM writes a status only when it differs from the one in memory.
Mark(w, j, s) ==
  IF w.seen[j] = s THEN w
  ELSE [w EXCEPT !.rows[j].status = s, !.seen[j] = s]

CancelPending(w) ==
  [w EXCEPT !.rows = [i \in DOMAIN @ |->
       IF i <= w.look /\ @[i].status \in Pending THEN [@[i] EXCEPT !.status = "CANCELLED"]
                                                 ELSE @[i]],
            !.seen = [i \in DOMAIN @ |-> IF @[i] \in Pending THEN "CANCELLED" ELSE @[i]]]

Active(src) == src.emi /\ src.next # None /\ src.status = "ACTIVE"

\* Get or create the job of the source's date; a second match raises.
Put(w) ==
  LET same == {i \in 1..w.look : w.rows[i].key = KeyOf(w.src.next)}
  IN  CASE same = {} ->
             [w EXCEPT !.rows = Append(@, NewRow(w.src.next)), !.look = Len(w.rows) + 1]
        [] Cardinality(same) > 1 -> Raised(w)
        [] OTHER ->
             LET i == CHOOSE x \in same : TRUE
             IN  [w EXCEPT !.rows[i].status = "SCHEDULED", !.rows[i].due = w.src.next,
                           !.rows[i].stamped = FALSE,
                           !.seen = [k \in DOMAIN @ |-> IF k = i THEN "SCHEDULED" ELSE @[k]]]

\* create_or_replace_next_job; a debt without an active EMI is left alone.
Replace(w) ==
  IF ~w.ok \/ (IsDebt /\ ~Active(w.src)) THEN w
  ELSE IF w.src.next = None THEN CancelPending(w)
  ELSE Put(CancelPending(w))

\* The date moves on by one period, if there is one.
Advance(w) ==
  IF w.src.next = None THEN w ELSE Replace([w EXCEPT !.src.next = @ + 1])

AddDefault(w) == Replace([w EXCEPT !.bucket = @ + 1])

\* A debt with nothing left is PAID once its default bucket is empty.
CheckCompletion(w) ==
  IF w.src.left = 0 /\ w.bucket = 0
  THEN [CancelPending(w) EXCEPT !.src.status = "PAID"] ELSE w

\* Mutant: the second look is taken out.
AddEventAgain(w, k) == [w EXCEPT !.events[k] = @ + 1, !.paid = @ \cup {k}]

\* finalize_payment_event: a FINALIZED event for the period is returned as it is.
AddEvent(w, k) ==
  IF k \in w.paid THEN w ELSE [w EXCEPT !.events[k] = @ + 1, !.paid = @ \cup {k}]

\* apply_debt_emi: `known` is its first look at the events, AddEvent the second.
ApplyEmi(w, j, known) ==
  IF known THEN Mark(w, j, "APPLIED")
  ELSE IF w.src.next = None THEN Raised(w)
  ELSE LET paid == [w EXCEPT !.src.left = IF @ = 0 THEN 0 ELSE @ - 1, !.src.next = @ + 1]
       IN  Replace(AddEvent(CheckCompletion(paid), w.rows[j].key))

\* An income or an expense posts its period and moves on.
ApplyFlow(w, j) == Mark(Advance(w), j, "APPLIED")

\* apply_job, and the three ways it ends without applying anything.
Delay(w, j) == [Mark(w, j, "DELAYED") EXCEPT !.rows[j].told = TRUE]

ApplyJob(w, j, known, funded) ==
  IF w.seen[j] = "APPLIED" THEN w
  ELSE IF ~IsDebt /\ w.seen[j] # "AWAITING" THEN Raised(w)
  ELSE IF w.src.next = None \/ ~w.src.emi THEN Raised(Mark(w, j, "FAILED"))
  ELSE IF ~IsDebt THEN ApplyFlow(w, j)
  ELSE IF known \/ funded THEN Mark(ApplyEmi(w, j, known), j, "APPLIED")
  ELSE Delay(w, j)

-----------------------------------------------------------------------------
(* The answers to a notification *)

Accept(w, j, c) == ApplyJob(w, j, tx[c].known, tx[c].flag)

\* An adjusted amount skips the status check.
AdjustFlow(w, j) == IF w.src.next = None THEN Raised(w) ELSE Mark(Advance(w), j, "APPLIED")

\* Nor is has_emi looked at; the next job is put in place once more.
AdjustEmi(w, j, c) ==
  IF ~tx[c].known /\ ~tx[c].flag THEN Raised(w)
  ELSE Replace(Mark(ApplyEmi(w, j, tx[c].known), j, "APPLIED"))

Adjust(w, j, c) ==
  IF w.seen[j] = "APPLIED" THEN w
  ELSE IF IsDebt THEN AdjustEmi(w, j, c) ELSE AdjustFlow(w, j)

\* An expense paid from the sources named in the answer, or by no pool at all.
PaidFromSources(w, j) == Mark(Advance(w), j, "APPLIED")
PaidByOthers(w, j) == Mark(Advance(w), j, "SKIPPED")

\* An EMI that no pool, or named sources pay.
EmiIfActive(w, j, c) ==
  IF w.src.emi THEN Mark(ApplyEmi(w, j, tx[c].known), j, "APPLIED") ELSE Raised(w)

\* ACCEPT_WITH_SPLITS debits before it looks at the source; flag: funds suffice.
AcceptWithSplits(w, j, c) ==
  IF w.seen[j] = "APPLIED" THEN w
  ELSE IF ~tx[c].flag THEN Raised(w)
  ELSE CASE kind = "income"  -> Advance(Mark(w, j, "APPLIED"))
         [] kind = "expense" -> PaidFromSources(w, j)
         [] kind = "debt"    -> EmiIfActive(w, j, c)

PaidExternally(w, j, c) ==
  IF w.seen[j] = "APPLIED" THEN w
  ELSE CASE kind = "income"  -> Advance(Mark(w, j, "SKIPPED"))
         [] kind = "expense" -> PaidByOthers(w, j)
         [] kind = "debt"    -> EmiIfActive(w, j, c)

\* SKIP_PERIOD; for a debt SKIP_DEFAULT (flag) or SKIP_INCREASE.
Skip(w, j, c) ==
  LET skipped == Mark(w, j, "SKIPPED")
  IN  Advance(IF IsDebt /\ tx[c].flag THEN AddDefault(skipped) ELSE skipped)

DeclineDelay(w, j, c) ==
  LET tried == [w EXCEPT !.rows[j].tries = @ + 1]
      skipped == Mark(tried, j, "SKIPPED")
  IN  IF tried.rows[j].tries < MaxRetries THEN Mark(tried, j, "DELAYED")
      ELSE IF IsDebt THEN AddDefault(skipped) ELSE skipped

RemoveRecurring(w, j, c) ==
  CancelPending([Mark(w, j, "CANCELLED") EXCEPT !.src.next = None, !.src.emi = ~IsDebt])

-----------------------------------------------------------------------------
(* The source's own requests, and moving one job *)

\* flag: the request changes some other column of the source.
EditFlow(w, c) ==
  LET src == [w.src EXCEPT !.next = IF tx[c].date = None THEN @ ELSE tx[c].date]
  IN  IF src.next = None THEN Raised(w) ELSE Replace([w EXCEPT !.src = src])

\* flag: has_emi as sent.
EditDebt(w, c) ==
  LET src == [w.src EXCEPT !.next = IF tx[c].date = None THEN @ ELSE tx[c].date,
                           !.emi = tx[c].flag]
      edited == [w EXCEPT !.src = src]
  IN  IF Active(src) THEN Replace(edited) ELSE CancelPending(edited)

Edit(w, c) == IF IsDebt THEN EditDebt(w, c) ELSE EditFlow(w, c)

CancelSource(w, c) ==
  CancelPending([w EXCEPT !.src.next = None, !.src.emi = ~IsDebt,
                          !.src.status = IF IsDebt THEN "CANCELLED" ELSE @])

\* Mutant: the amount is not compared with what is left.
PartPaymentUnchecked(w, c) ==
  Replace(CheckCompletion([w EXCEPT !.src.left = @ - 1, !.src.next = IF @ = None THEN None ELSE @ + 1]))

\* flag: FORECLOSURE; otherwise one instalment, and CLEAR_UPCOMING also skips the
\* next one, while the modes that reduce what follows (date is set) keep its date.
PartPayment(w, c) ==
  LET left == IF tx[c].flag THEN 0 ELSE w.src.left - 1
      keeps == w.src.next = None \/ tx[c].date # None
      src == [w.src EXCEPT !.left = left, !.emi = @ /\ ~tx[c].flag,
                           !.next = IF tx[c].flag THEN None ELSE IF keeps THEN @ ELSE @ + 1]
  IN  IF w.src.left = 0 THEN Raised(w) ELSE Replace(CheckCompletion([w EXCEPT !.src = src]))

\* Settling or waiving an open default.
CloseDefault(w, c) ==
  IF w.bucket = 0 THEN Raised(w) ELSE CheckCompletion([w EXCEPT !.bucket = @ - 1])

\* flag: PERMANENT.
Reschedule(w, j, c) ==
  IF w.seen[j] \notin Pending THEN Raised(w)
  ELSE IF tx[c].flag THEN Replace([Mark(w, j, "CANCELLED") EXCEPT !.src.next = tx[c].date])
  ELSE [w EXCEPT !.rows[j].due = tx[c].date]

JobOps == {"ACCEPT", "ADJUST", "SPLITS", "EXTERNAL", "SKIP", "DECLINE", "REMOVE"}
SourceOps == {"EDIT", "CANCEL", "PREPAY", "CLOSE"}

-----------------------------------------------------------------------------
(* The tick *)

Confirmed(src) == ~IsDebt \/ src.confirm

Due(i) == rows[i].status = "SCHEDULED" /\ rows[i].due <= today

\* _flip_due_*_jobs: what the tick read as due now awaits, and is stamped.
Flip(w, ids) ==
  [w EXCEPT !.rows = [i \in DOMAIN @ |->
     IF i \in ids THEN [@[i] EXCEPT !.status = "AWAITING", !.stamped = TRUE, !.told = TRUE]
                  ELSE @[i]]]

\* The jobs that the tick loaded, in their order: an error is logged and what was done so
\* far stays, or (strict) it fails the tick.
ApplyNext(w, j, c, strict) ==
  IF strict /\ ~w.ok THEN w
  ELSE LET applied == ApplyJob(w, j, w.rows[j].key \in w.paid, tx[c].flag)
       IN  [applied EXCEPT !.ok = @ \/ ~strict]

ApplyEach(w, c, strict) ==
  MapThenFoldSet(LAMBDA j, v : ApplyNext(v, j, c, strict), w, LAMBDA j : j, Max, DOMAIN w.seen)

\* _auto_accept_stale_*_jobs.
AutoAccept(w, c) == ApplyEach(w, c, FALSE)

\* materialize_due_jobs: jobs that became due during this tick; no stamp.
Materialize(w) ==
  [w EXCEPT !.rows = [i \in DOMAIN @ |->
     IF @[i].status = "SCHEDULED" /\ @[i].due <= today
     THEN [@[i] EXCEPT !.status = "AWAITING", !.told = TRUE] ELSE @[i]]]

\* apply_auto_jobs, for a debt that needs no confirmation.
ApplyAuto(w, c) == ApplyEach(w, c, TRUE)

\* process_delayed_jobs, for those whose retry has come: date says until which.
Retry(w, c) ==
  [w EXCEPT !.rows = [i \in DOMAIN @ |->
     IF @[i].status = "DELAYED" /\ tx[c].date # None
     THEN [@[i] EXCEPT !.status = "AWAITING", !.told = TRUE] ELSE @[i]]]

Tick(w, c) ==
  Retry(IF Confirmed(w.src) THEN Materialize(AutoAccept(Flip(w, tx[c].flips), c))
                            ELSE ApplyAuto(w, c), c)

-----------------------------------------------------------------------------
(* Sessions *)

\* What the session commits, with what its statements saw.
Outcome(c) ==
  LET w == WorldOf(c)
      j == tx[c].job
  IN  CASE tx[c].op = "TICK"     -> Tick(w, c)
        [] tx[c].op = "ACCEPT"   -> Accept(w, j, c)
        [] tx[c].op = "ADJUST"   -> Adjust(w, j, c)
        [] tx[c].op = "SPLITS"   -> AcceptWithSplits(w, j, c)
        [] tx[c].op = "EXTERNAL" -> PaidExternally(w, j, c)
        [] tx[c].op = "SKIP"     -> Skip(w, j, c)
        [] tx[c].op = "DECLINE"  -> DeclineDelay(w, j, c)
        [] tx[c].op = "REMOVE"   -> RemoveRecurring(w, j, c)
        [] tx[c].op = "MOVE"     -> Reschedule(w, j, c)
        [] tx[c].op = "EDIT"     -> Edit(w, c)
        [] tx[c].op = "CANCEL"   -> CancelSource(w, c)
        [] tx[c].op = "PREPAY"   -> PartPayment(w, c)
        [] tx[c].op = "CLOSE"    -> CloseDefault(w, c)

\* Mutant: the looks run before the source is written.
UpdatesLate(c) == FALSE

\* Has the session changed the source row before its statements look?  Deleting
\* a debt cancels first; an EMI always changes the total paid.
Updates(c) ==
  LET w == Outcome(c)
  IN  CASE IsDebt /\ tx[c].op = "CANCEL" -> FALSE
        [] ~IsDebt /\ tx[c].op = "EDIT" /\ tx[c].flag -> TRUE
        [] OTHER -> w.src # tx[c].src

\* What a session loads when it begins: its source and the jobs it will write to.
Load(c, ids, answer) ==
  tx' = [tx EXCEPT ![c] =
    [op |-> answer.op, job |-> answer.job, date |-> answer.date, flag |-> answer.flag,
     flips |-> answer.flips, src |-> source, seen |-> [i \in ids |-> rows[i].status],
     known |-> answer.job # 0 /\ events[rows[answer.job].key] > 0,
     look |-> 0, paid |-> {}, phase |-> "READ"]]

Asked(op, j, d, f) == [op |-> op, job |-> j, date |-> d, flag |-> f, flips |-> {}]

\* An answer names a job the user was told of.  flag: funds suffice (ACCEPT,
\* ADJUST, SPLITS), or the default instead of the longer term (SKIP).
Answer(c, op, j, f) ==
  /\ c \in Requests /\ tx[c].phase = "IDLE" /\ used < MaxRequests
  /\ rows[j].told
  /\ op \in {"EXTERNAL", "DECLINE", "REMOVE"} \/ (~IsDebt /\ op # "SPLITS") => ~f
  /\ Load(c, {j}, Asked(op, j, None, f))
  /\ used' = used + 1
  /\ UNCHANGED <<kind, source, rows, events, bucket, today, owner>>

Move(c, j, d, f) ==
  /\ c \in Requests /\ tx[c].phase = "IDLE" /\ used < MaxRequests
  /\ Load(c, {j}, Asked("MOVE", j, d, f))
  /\ used' = used + 1
  /\ UNCHANGED <<kind, source, rows, events, bucket, today, owner>>

Ask(c, op, d, f) ==
  /\ c \in Requests /\ tx[c].phase = "IDLE" /\ used < MaxRequests
  /\ op \in {"PREPAY", "CLOSE"} => IsDebt
  /\ op # "EDIT" => d = None \/ (op = "PREPAY" /\ d = today /\ ~f)
  /\ op \in {"CANCEL", "CLOSE"} => ~f
  /\ Load(c, {}, Asked(op, 0, d, f))
  /\ used' = used + 1
  /\ UNCHANGED <<kind, source, rows, events, bucket, today, owner>>

\* The jobs a tick loads: those that are due now, and those stamped long enough
\* ago to be confirmed.  date: delayed ones whose retry has come are asked again.
StartTick(c, f, retry) ==
  /\ c = Engine /\ tx[c].phase = "IDLE"
  /\ f => IsDebt
  /\ retry # None => \E i \in DOMAIN rows : rows[i].status = "DELAYED"
  /\ LET due == {i \in DOMAIN rows : Due(i)}
         stamped == {i \in DOMAIN rows : rows[i].status = "AWAITING" /\ rows[i].stamped}
         tick == [op |-> "TICK", job |-> 0, date |-> retry, flag |-> f, flips |-> {}]
     IN  /\ due # {} \/ stamped # {} \/ retry # None
         /\ IF Confirmed(source)
            THEN \E stale \in {{}, stamped} : Load(c, stale, [tick EXCEPT !.flips = due])
            ELSE Load(c, due, tick)
  /\ UNCHANGED <<kind, source, rows, events, bucket, today, owner, used>>

Look(c) ==
  /\ tx[c].phase = "READ"
  /\ Updates(c) => owner = None
  /\ owner' = IF Updates(c) THEN c ELSE owner
  /\ tx' = [tx EXCEPT ![c].look = Len(rows), ![c].paid = {k \in Keys : events[k] > 0},
                      ![c].phase = "LOOKED"]
  /\ UNCHANGED <<kind, source, rows, events, bucket, today, used>>

Merge(c, src) ==
  [f \in DOMAIN source |-> IF src[f] = tx[c].src[f] THEN source[f] ELSE src[f]]

Release(c) == owner' = IF owner = c THEN None ELSE owner

Commit(c) ==
  /\ tx[c].phase = "LOOKED"
  /\ LET w == Outcome(c)
     IN  /\ w.ok
         /\ w.src.next # None => w.src.next <= LastDate
         /\ Len(w.rows) <= MaxRows
         /\ source' = Merge(c, w.src)
         /\ rows' = w.rows /\ events' = w.events /\ bucket' = w.bucket
  /\ tx' = [tx EXCEPT ![c] = NoTx]
  /\ Release(c)
  /\ UNCHANGED <<kind, today, used>>

\* It raised, lost its connection or was the victim of a deadlock.
Rollback(c) ==
  /\ tx[c].phase = "LOOKED"
  /\ tx' = [tx EXCEPT ![c] = NoTx]
  /\ Release(c)
  /\ UNCHANGED <<kind, source, rows, events, bucket, today, used>>

NextDay ==
  /\ today < LastDate
  /\ today' = today + 1
  /\ UNCHANGED <<kind, source, rows, events, bucket, owner, tx, used>>

\* Creating the source creates its first job in the same transaction.
Init ==
  /\ kind \in Kinds
  /\ source \in [next : {1}, emi : {TRUE}, status : {"ACTIVE"},
                 left : IF IsDebt THEN {MaxLeft} ELSE {0},
                 confirm : IF IsDebt THEN BOOLEAN ELSE {TRUE},
                 span : IF IsDebt THEN Spans ELSE {1}]
  /\ rows = <<NewRow(1)>>
  /\ events = [k \in Keys |-> 0] /\ bucket = 0
  /\ today = 1 /\ owner = None /\ used = 0
  /\ tx = [c \in Sessions |-> NoTx]

Next ==
  \/ \E c \in Requests, j \in DOMAIN rows, f \in BOOLEAN :
        \/ \E op \in JobOps : Answer(c, op, j, f)
        \/ \E d \in Dates : Move(c, j, d, f)
  \/ \E c \in Requests, op \in SourceOps, d \in Dates \cup {None}, f \in BOOLEAN : Ask(c, op, d, f)
  \/ \E c \in Sessions :
        \/ \E f \in BOOLEAN, retry \in {None, today} : StartTick(c, f, retry)
        \/ Look(c) \/ Commit(c) \/ Rollback(c)
  \/ NextDay

Spec == Init /\ [][Next]_vars

-----------------------------------------------------------------------------
SourceType == [next : Dates \cup {None}, emi : BOOLEAN, left : 0..MaxLeft,
               status : {"ACTIVE", "PAID", "CANCELLED"}, confirm : BOOLEAN, span : Spans \cup {1}]
RowType == [key : Keys, due : Dates, status : Statuses, stamped : BOOLEAN,
            tries : 0..MaxRequests, told : BOOLEAN]
\* A session that has loaded the jobs `ids`.
Underway(ids) == [op : {"TICK", "MOVE"} \cup JobOps \cup SourceOps, job : Nat,
                  date : Dates \cup {None}, flag : BOOLEAN, src : SourceType,
                  seen : [ids -> Statuses], flips : SUBSET Nat, known : BOOLEAN,
                  look : 0..Len(rows), paid : SUBSET Nat, phase : {"READ", "LOOKED"}]

\* Every variable holds a value of its kind, what the sessions have read included; with
\* the bounds it also says that a debt never owes a negative number of instalments,
\* whatever EMIs and part payments are applied to it at once.
JobTypeOK ==
  /\ kind \in Kinds /\ source \in SourceType
  /\ Len(rows) <= MaxRows /\ \A i \in DOMAIN rows : rows[i] \in RowType
  /\ events \in [Keys -> Nat] /\ bucket \in Nat /\ today \in 0..LastDate
  /\ owner \in Sessions \cup {None} /\ used \in 0..MaxRequests
  /\ DOMAIN tx = Sessions
  /\ \A c \in Sessions :
       tx[c] = NoTx \/ \E ids \in SUBSET DOMAIN rows : tx[c] \in Underway(ids)

\* A period of an income or an expense never has two jobs, so the get-or-create
\* of create_or_replace_next_job, which raises on a second match, stays usable.
\* No constraint and no lock on the jobs says so: it rests on the UPDATE of the
\* source being flushed before the job is looked for, and on the job of an
\* unmoved date being there already.
OneRowPerPeriod ==
  ~IsDebt => \A i, j \in DOMAIN rows : rows[i].key = rows[j].key => i = j

\* An EMI period is finalized at most once however many answers, retries, ticks
\* and coarse period keys lead to it: finalize_payment_event looks again once
\* the debt's row is locked.
OneEventPerPeriod == \A k \in Keys : events[k] <= 1
=============================================================================
