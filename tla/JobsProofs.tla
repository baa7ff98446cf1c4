----------------------------- MODULE JobsProofs ------------------------------
(***************************************************************************)
(* TLAPS proofs about Jobs, for every value of its constants.              *)
(***************************************************************************)
EXTENDS Jobs, SumsProofs, SequenceTheorems, TLAPS

-----------------------------------------------------------------------------
(* The loop of a tick over the jobs it loaded.                             *)

LEMMA MaxIn ==
  ASSUME NEW n \in Nat, NEW s \in SUBSET (1..n), s # {}
  PROVE  Max(s) \in s /\ \A x \in s : x <= Max(s)
<1>1. \E m \in s : \A x \in s : x <= m
  <2>1. s \in SUBSET Nat /\ n + 1 \in Nat /\ \A x \in s : x < n + 1
    OBVIOUS
  <2> QED BY <2>1, BoundedMax
<1>2. \E m \in s : \A x \in s : m >= x
  BY <1>1
<1>3. Max(s) \in s /\ \A x \in s : Max(s) >= x
  BY <1>2 DEF Max
<1> QED BY <1>3

\* iter applies the jobs of the sets of D, each in ascending order.
IsEach(iter, w, c, strict, D) ==
  iter = [s \in D |-> IF s = {} THEN w
                      ELSE ApplyNext(iter[s \ {Max(s)}], Max(s), c, strict)]

LEMMA EachIsChosen ==
  ASSUME NEW w, NEW c, NEW strict
  PROVE  ApplyEach(w, c, strict) =
           (CHOOSE iter : IsEach(iter, w, c, strict, SUBSET DOMAIN w.seen))[DOMAIN w.seen]
BY DEF ApplyEach, MapThenFoldSet, IsEach

\* Without its last element a set of numbers lies below it.
LEMMA Below ==
  ASSUME NEW n \in Nat, NEW S \in SUBSET (1..n), NEW k \in Nat,
         NEW s \in SUBSET (S \cap 1..(k + 1)), s # {}
  PROVE  Max(s) \in s /\ s \ {Max(s)} \in SUBSET (S \cap 1..k)
<1>1. Max(s) \in s /\ \A x \in s : x <= Max(s)
  BY MaxIn
<1>2. ASSUME NEW x \in s \ {Max(s)} PROVE x \in S /\ x \in 1..k
  <2>1. x \in S /\ x \in 1..(k + 1) /\ Max(s) \in 1..(k + 1)
    BY <1>1
  <2>2. x <= Max(s) /\ x # Max(s)
    BY <1>1
  <2> QED BY <2>1, <2>2
<1> QED BY <1>1, <1>2

LEMMA EachExists ==
  ASSUME NEW w, NEW c, NEW strict, NEW n \in Nat, NEW S \in SUBSET (1..n)
  PROVE  \E iter : IsEach(iter, w, c, strict, SUBSET S)
<1> DEFINE D(k) == SUBSET (S \cap 1..k)
           T == {k \in Nat : \E g : IsEach(g, w, c, strict, D(k))}
<1>1. 0 \in T
  <2>1. \A s \in D(0) : s = {}
    OBVIOUS
  <2>2. IsEach([s \in D(0) |-> w], w, c, strict, D(0))
    BY <2>1 DEF IsEach
  <2> HIDE DEF D
  <2> QED BY <2>2
<1>2. ASSUME NEW k \in Nat, k \in T PROVE k + 1 \in T
  <2>1. PICK g : IsEach(g, w, c, strict, D(k))
    BY <1>2
  <2> DEFINE h == [s \in D(k + 1) |->
                     IF s = {} THEN w ELSE ApplyNext(g[s \ {Max(s)}], Max(s), c, strict)]
  <2>2. D(k) \subseteq D(k + 1)
    OBVIOUS
  <2>3. ASSUME NEW s \in D(k + 1), s # {} PROVE s \ {Max(s)} \in D(k)
    BY <2>3, Below
  <2> HIDE DEF D
  <2>4. ASSUME NEW s \in D(k) PROVE h[s] = g[s]
    BY <2>1, <2>2 DEF IsEach
  <2>5. ASSUME NEW s \in D(k + 1), s # {}
        PROVE  h[s] = ApplyNext(h[s \ {Max(s)}], Max(s), c, strict)
    BY <2>3, <2>4, <2>5
  <2>6. \A s \in D(k + 1) : s = {} => h[s] = w
    OBVIOUS
  <2>7. h = [s \in D(k + 1) |-> h[s]]
    OBVIOUS
  <2> HIDE DEF h
  <2>8. IsEach(h, w, c, strict, D(k + 1))
    BY <2>5, <2>6, <2>7 DEF IsEach
  <2>9. k + 1 \in Nat
    OBVIOUS
  <2> QED BY <2>8, <2>9
<1>3. D(n) = SUBSET S
  OBVIOUS
<1> HIDE DEF D
<1>4. n \in T
  <2> HIDE DEF T
  <2> QED BY <1>1, <1>2, NatInduct
<1> QED BY <1>3, <1>4

\* What each job keeps, the loop keeps; the last job, if there is one, has the last word.
LEMMA EachKeeps ==
  ASSUME NEW w, NEW c, NEW strict, NEW n \in Nat, DOMAIN w.seen \in SUBSET (1..n),
         NEW S, w \in S,
         \A v \in S, j \in DOMAIN w.seen : ApplyNext(v, j, c, strict) \in S
  PROVE  /\ ApplyEach(w, c, strict) \in S
         /\ DOMAIN w.seen = {} => ApplyEach(w, c, strict) = w
         /\ DOMAIN w.seen # {} => \E v \in S, j \in DOMAIN w.seen :
                                    ApplyEach(w, c, strict) = ApplyNext(v, j, c, strict)
<1> DEFINE ids == DOMAIN w.seen
<1>1. PICK iter : /\ IsEach(iter, w, c, strict, SUBSET ids)
                  /\ ApplyEach(w, c, strict) = iter[ids]
  BY EachExists, EachIsChosen
<1> HIDE DEF ids
<1>2. iter[{}] = w
  BY <1>1 DEF IsEach
<1>3. ASSUME NEW s \in SUBSET ids, s # {}
      PROVE  iter[s] = ApplyNext(iter[s \ {Max(s)}], Max(s), c, strict)
  BY <1>1, <1>3 DEF IsEach
<1> DEFINE T == {k \in Nat : \A s \in SUBSET (ids \cap 1..k) : iter[s] \in S}
<1>4. 0 \in T
  <2>1. \A s \in SUBSET (ids \cap 1..0) : s = {}
    OBVIOUS
  <2> QED BY <1>2, <2>1
<1>5. ASSUME NEW k \in Nat, k \in T PROVE k + 1 \in T
  <2> SUFFICES ASSUME NEW s \in SUBSET (ids \cap 1..(k + 1)) PROVE iter[s] \in S
    OBVIOUS
  <2>1. CASE s = {}
    BY <1>2, <2>1
  <2>2. CASE s # {}
    <3>1. Max(s) \in s /\ s \ {Max(s)} \in SUBSET (ids \cap 1..k)
      BY <2>2, Below DEF ids
    <3>2. iter[s \ {Max(s)}] \in S
      BY <1>5, <3>1
    <3>3. Max(s) \in DOMAIN w.seen
      BY <3>1 DEF ids
    <3> QED BY <1>3, <2>2, <3>2, <3>3
  <2> QED BY <2>1, <2>2
<1>6. n \in T
  <2> HIDE DEF T
  <2> QED BY <1>4, <1>5, NatInduct
<1>7. ASSUME NEW s \in SUBSET ids PROVE iter[s] \in S
  <2>1. s \in SUBSET (ids \cap 1..n)
    BY DEF ids
  <2> QED BY <1>6, <2>1
<1>8. ASSUME ids # {}
      PROVE  \E v \in S, j \in ids : iter[ids] = ApplyNext(v, j, c, strict)
  <2>1. Max(ids) \in ids
    BY <1>8, MaxIn DEF ids
  <2>2. iter[ids \ {Max(ids)}] \in S
    BY <1>7
  <2> QED BY <1>3, <1>8, <2>1, <2>2
<1> QED BY <1>1, <1>2, <1>7, <1>8 DEF ids

-----------------------------------------------------------------------------
(* Worlds, and what is kept of a world in whatever a session does to it.    *)

SourceRow == [next : (Nat \ {0}) \cup {None}, emi : BOOLEAN, left : 0..MaxLeft,
              status : {"ACTIVE", "PAID", "CANCELLED"}, confirm : BOOLEAN, span : Spans \cup {1}]

JobRow(m) == [key : Nat, due : Nat \ {0}, status : Statuses, stamped : BOOLEAN,
              tries : 0..m, told : BOOLEAN]

Beliefs == UNION {[ids -> Statuses] : ids \in SUBSET Nat}

World(m) == [src : SourceRow, rows : Seq(JobRow(m)), events : [Keys -> Nat], bucket : Nat,
             seen : Beliefs, look : Nat, paid : SUBSET Nat, ok : BOOLEAN]

\* No date or key is past the bound but those a date that moved on has reached.
Reached(x, next) == x <= LastDate \/ (next # None /\ x <= next)
Bounded(row, next) == Reached(row.key, next) /\ Reached(row.due, next)

\* v comes from b: jobs were added and changed, but their keys stay.
Since(b, m, v) ==
  /\ v \in World(m) /\ v.look <= Len(v.rows)
  /\ DOMAIN v.seen = DOMAIN b.seen
  /\ v.src.span = b.src.span /\ v.src.confirm = b.src.confirm
  /\ Len(b.rows) <= Len(v.rows)
  /\ \A i \in 1..Len(b.rows) : v.rows[i].key = b.rows[i].key
  /\ \A i \in 1..Len(v.rows) : Bounded(v.rows[i], v.src.next)

LEMMA WorldFields ==
  ASSUME NEW m \in Nat, NEW w \in World(m)
  PROVE  /\ w.src \in SourceRow /\ w.rows \in Seq(JobRow(m)) /\ w.events \in [Keys -> Nat]
         /\ w.bucket \in Nat /\ w.seen \in Beliefs /\ w.look \in Nat /\ w.paid \in SUBSET Nat
         /\ w.ok \in BOOLEAN
         /\ Len(w.rows) \in Nat /\ DOMAIN w.rows = 1..Len(w.rows)
         /\ \A i \in 1..Len(w.rows) : w.rows[i] \in JobRow(m)
         /\ w = [src |-> w.src, rows |-> w.rows, events |-> w.events, bucket |-> w.bucket,
                 seen |-> w.seen, look |-> w.look, paid |-> w.paid, ok |-> w.ok]
<1>1. w.rows \in Seq(JobRow(m))
  BY DEF World
<1>2. Len(w.rows) \in Nat /\ DOMAIN w.rows = 1..Len(w.rows)
  BY <1>1, LenProperties
<1>3. \A i \in 1..Len(w.rows) : w.rows[i] \in JobRow(m)
  BY <1>1, ElementOfSeq
<1> QED BY <1>1, <1>2, <1>3 DEF World

LEMMA BeliefsType ==
  ASSUME NEW s \in Beliefs
  PROVE  /\ \A j \in DOMAIN s : s[j] \in Statuses
         /\ DOMAIN s \in SUBSET Nat
         /\ s = [j \in DOMAIN s |-> s[j]]
BY DEF Beliefs

LEMMA ToBeliefs ==
  ASSUME NEW s, s = [j \in DOMAIN s |-> s[j]], DOMAIN s \in SUBSET Nat,
         \A j \in DOMAIN s : s[j] \in Statuses
  PROVE  s \in Beliefs
<1>1. s \in [DOMAIN s -> Statuses]
  OBVIOUS
<1> QED BY <1>1 DEF Beliefs

LEMMA RowFields ==
  ASSUME NEW m \in Nat, NEW r \in JobRow(m)
  PROVE  /\ r.key \in Nat /\ r.due \in Nat \ {0} /\ r.status \in Statuses
         /\ r.stamped \in BOOLEAN /\ r.tries \in 0..m /\ r.told \in BOOLEAN
BY DEF JobRow

\* A sequence whose elements are changed one by one.
LEMMA MapRows ==
  ASSUME NEW S, NEW r \in Seq(S), NEW f, f = [i \in DOMAIN r |-> f[i]],
         \A i \in 1..Len(r) : f[i] \in S
  PROVE  f \in Seq(S) /\ Len(f) = Len(r) /\ DOMAIN f = DOMAIN r
<1>1. DOMAIN r = 1..Len(r) /\ Len(r) \in Nat
  BY LenProperties
<1>2. f \in [1..Len(r) -> S]
  BY <1>1
<1>3. f \in Seq(S)
  BY <1>1, <1>2, SeqDef
<1>4. DOMAIN f = 1..Len(f) /\ Len(f) \in Nat
  BY <1>3, LenProperties
<1> QED BY <1>1, <1>2, <1>3, <1>4

\* What marking jobs leaves alone.
Kept(w, v) ==
  /\ v.src.next = w.src.next /\ v.src.emi = w.src.emi /\ v.events = w.events /\ v.paid = w.paid
  /\ v.look = w.look /\ Len(v.rows) = Len(w.rows)
  /\ \A i \in 1..Len(w.rows) : v.rows[i].key = w.rows[i].key

\* Only the rows and what is believed of them change.
Marks(w, v) == v.src = w.src /\ v.ok = w.ok /\ Kept(w, v)

LEMMA SinceFields ==
  ASSUME NEW m \in Nat, NEW b, NEW w, Since(b, m, w)
  PROVE  /\ w \in World(m) /\ w.src \in SourceRow /\ w.rows \in Seq(JobRow(m))
         /\ w.events \in [Keys -> Nat] /\ w.bucket \in Nat /\ w.seen \in Beliefs
         /\ w.look \in Nat /\ w.paid \in SUBSET Nat /\ w.ok \in BOOLEAN
         /\ Len(w.rows) \in Nat /\ DOMAIN w.rows = 1..Len(w.rows) /\ w.look <= Len(w.rows)
         /\ DOMAIN w.seen = DOMAIN b.seen
         /\ \A i \in 1..Len(w.rows) : w.rows[i] \in JobRow(m) /\ Bounded(w.rows[i], w.src.next)
BY WorldFields DEF Since

LEMMA MarksKeep ==
  ASSUME NEW m \in Nat, NEW b, NEW w, Since(b, m, w), NEW v \in World(m), Marks(w, v),
         DOMAIN v.seen = DOMAIN w.seen,
         \A i \in 1..Len(w.rows) : Reached(v.rows[i].due, w.src.next)
  PROVE  Since(b, m, v)
<1>1. \A i \in 1..Len(v.rows) : Bounded(v.rows[i], v.src.next)
  BY SinceFields DEF Bounded, Marks, Kept
<1> QED BY <1>1 DEF Since, Marks, Kept

LEMMA SetStatus ==
  ASSUME NEW m \in Nat, NEW r \in JobRow(m), NEW s \in Statuses
  PROVE  /\ [r EXCEPT !.status = s] \in JobRow(m)
         /\ [r EXCEPT !.status = s].key = r.key /\ [r EXCEPT !.status = s].due = r.due
BY DEF JobRow

LEMMA MarkKeeps ==
  ASSUME NEW m \in Nat, NEW b, NEW w, Since(b, m, w), NEW j \in DOMAIN w.seen,
         j \in 1..Len(w.rows), NEW s \in Statuses
  PROVE  Since(b, m, Mark(w, j, s)) /\ Marks(w, Mark(w, j, s))
<1>1. CASE w.seen[j] = s
  BY <1>1 DEF Mark, Marks, Kept
<1>2. CASE w.seen[j] # s
  <2> DEFINE row == [w.rows[j] EXCEPT !.status = s]
             R == [w.rows EXCEPT ![j] = row]
             t == [w.seen EXCEPT ![j] = s]
  <2>1. /\ w \in World(m) /\ w.rows \in Seq(JobRow(m)) /\ w.rows[j] \in JobRow(m)
        /\ DOMAIN w.rows = 1..Len(w.rows) /\ w.seen \in Beliefs
        /\ \A i \in 1..Len(w.rows) : Bounded(w.rows[i], w.src.next)
    BY SinceFields
  <2>2. row \in JobRow(m) /\ row.key = w.rows[j].key /\ row.due = w.rows[j].due
    BY <2>1, SetStatus
  <2>3. Mark(w, j, s) = [w EXCEPT !.rows = R, !.seen = t]
    BY <1>2, <2>1 DEF Mark, World
  <2> HIDE DEF row
  <2>4. R \in Seq(JobRow(m)) /\ Len(R) = Len(w.rows)
    BY <2>1, <2>2, ExceptSeq
  <2>5. \A i \in 1..Len(w.rows) : R[i].key = w.rows[i].key /\ Reached(R[i].due, w.src.next)
    BY <2>1, <2>2 DEF Bounded
  <2>6. t \in Beliefs /\ DOMAIN t = DOMAIN w.seen
    <3>1. /\ \A i \in DOMAIN w.seen : w.seen[i] \in Statuses
          /\ DOMAIN w.seen \in SUBSET Nat
      BY <2>1, BeliefsType
    <3>2. DOMAIN t = DOMAIN w.seen /\ t = [i \in DOMAIN t |-> t[i]]
      OBVIOUS
    <3>3. \A i \in DOMAIN t : t[i] \in Statuses
      BY <3>1
    <3> QED BY <3>1, <3>2, <3>3, ToBeliefs
  <2> HIDE DEF R, t
  <2> DEFINE v == [w EXCEPT !.rows = R, !.seen = t]
  <2>7. /\ v \in World(m) /\ v.rows = R /\ v.seen = t /\ v.src = w.src /\ v.events = w.events
        /\ v.paid = w.paid /\ v.look = w.look /\ v.ok = w.ok
    BY <2>1, <2>4, <2>6 DEF World
  <2> HIDE DEF v
  <2>8. Marks(w, v)
    BY <2>4, <2>5, <2>7 DEF Marks, Kept
  <2>9. Since(b, m, v)
    BY <2>5, <2>6, <2>7, <2>8, MarksKeep
  <2> QED BY <2>3, <2>8, <2>9 DEF v
<1> QED BY <1>1, <1>2

LEMMA CancelKeeps ==
  ASSUME NEW m \in Nat, NEW b, NEW w, Since(b, m, w)
  PROVE  Since(b, m, CancelPending(w)) /\ Marks(w, CancelPending(w))
<1> DEFINE R == [i \in DOMAIN w.rows |->
                   IF i <= w.look /\ w.rows[i].status \in Pending
                   THEN [w.rows[i] EXCEPT !.status = "CANCELLED"] ELSE w.rows[i]]
           t == [i \in DOMAIN w.seen |-> IF w.seen[i] \in Pending THEN "CANCELLED" ELSE w.seen[i]]
<1>1. /\ w \in World(m) /\ w.rows \in Seq(JobRow(m)) /\ w.seen \in Beliefs
      /\ DOMAIN w.rows = 1..Len(w.rows) /\ Len(w.rows) \in Nat
      /\ \A i \in 1..Len(w.rows) : w.rows[i] \in JobRow(m) /\ Bounded(w.rows[i], w.src.next)
  BY SinceFields
<1>2. CancelPending(w) = [w EXCEPT !.rows = R, !.seen = t]
  BY <1>1 DEF CancelPending, World
<1>3. "CANCELLED" \in Statuses
  BY DEF Statuses
<1>4. \A i \in 1..Len(w.rows) : R[i] \in JobRow(m) /\ R[i].key = w.rows[i].key
                                                  /\ R[i].due = w.rows[i].due
  BY <1>1, <1>3, SetStatus
<1>5. R = [i \in DOMAIN w.rows |-> R[i]]
  OBVIOUS
<1>6. t \in Beliefs /\ DOMAIN t = DOMAIN w.seen
  <2>1. DOMAIN t = DOMAIN w.seen /\ t = [i \in DOMAIN t |-> t[i]]
    OBVIOUS
  <2>2. DOMAIN w.seen \in SUBSET Nat /\ \A i \in DOMAIN t : t[i] \in Statuses
    BY <1>1, <1>3, BeliefsType
  <2> QED BY <2>1, <2>2, ToBeliefs
<1> HIDE DEF R, t
<1>7. R \in Seq(JobRow(m)) /\ Len(R) = Len(w.rows)
  BY <1>1, <1>4, <1>5, MapRows
<1>8. \A i \in 1..Len(w.rows) : R[i].key = w.rows[i].key /\ Reached(R[i].due, w.src.next)
  BY <1>1, <1>4 DEF Bounded
<1> DEFINE v == [w EXCEPT !.rows = R, !.seen = t]
<1>9. /\ v \in World(m) /\ v.rows = R /\ v.seen = t /\ v.src = w.src /\ v.events = w.events
      /\ v.paid = w.paid /\ v.look = w.look /\ v.ok = w.ok
  BY <1>1, <1>6, <1>7 DEF World
<1> HIDE DEF v
<1>10. Marks(w, v)
  BY <1>7, <1>8, <1>9 DEF Marks, Kept
<1>11. Since(b, m, v)
  BY <1>6, <1>8, <1>9, <1>10, MarksKeep
<1> QED BY <1>2, <1>10, <1>11 DEF v

LEMMA RaisedKeeps ==
  ASSUME NEW m \in Nat, NEW b, NEW w, Since(b, m, w)
  PROVE  Since(b, m, Raised(w)) /\ Kept(w, Raised(w)) /\ Raised(w).src = w.src
<1>1. w \in World(m)
  BY SinceFields
<1>2. /\ Raised(w) \in World(m) /\ Raised(w).src = w.src /\ Raised(w).rows = w.rows
      /\ Raised(w).seen = w.seen /\ Raised(w).look = w.look /\ Raised(w).events = w.events
      /\ Raised(w).paid = w.paid
  BY <1>1 DEF Raised, World
<1> HIDE DEF Raised
<1> QED BY <1>2 DEF Since, Kept

\* Rows that a tick sets to AWAITING.
Awaits(r, stamped) == [r EXCEPT !.status = "AWAITING", !.stamped = stamped, !.told = TRUE]

LEMMA AwaitsType ==
  ASSUME NEW m \in Nat, NEW r \in JobRow(m), NEW stamped \in BOOLEAN
  PROVE  /\ Awaits(r, stamped) \in JobRow(m) /\ Awaits(r, stamped).key = r.key
         /\ Awaits(r, stamped).due = r.due
BY DEF JobRow, Statuses, Awaits

LEMMA FlagRows ==
  ASSUME NEW m \in Nat, NEW b, NEW w, Since(b, m, w), NEW R,
         R = [i \in DOMAIN w.rows |-> R[i]],
         \A i \in 1..Len(w.rows) :
           \/ R[i] = w.rows[i]
           \/ \E stamped \in BOOLEAN : R[i] = Awaits(w.rows[i], stamped),
         NEW v, v = [w EXCEPT !.rows = R]
  PROVE  Since(b, m, v) /\ Marks(w, v) /\ v.seen = w.seen
<1>1. /\ w \in World(m) /\ w.rows \in Seq(JobRow(m)) /\ w.seen \in Beliefs
      /\ \A i \in 1..Len(w.rows) : w.rows[i] \in JobRow(m) /\ Bounded(w.rows[i], w.src.next)
  BY SinceFields
<1>2. ASSUME NEW i \in 1..Len(w.rows)
      PROVE  R[i] \in JobRow(m) /\ R[i].key = w.rows[i].key /\ R[i].due = w.rows[i].due
  <2>1. CASE R[i] = w.rows[i]
    BY <1>1, <2>1
  <2>2. ASSUME NEW stamped \in BOOLEAN, R[i] = Awaits(w.rows[i], stamped)
        PROVE  R[i] \in JobRow(m) /\ R[i].key = w.rows[i].key /\ R[i].due = w.rows[i].due
    <3>1. w.rows[i] \in JobRow(m)
      BY <1>1
    <3> QED BY <2>2, <3>1, AwaitsType
  <2> QED BY <2>1, <2>2
<1>3. R \in Seq(JobRow(m)) /\ Len(R) = Len(w.rows)
  <2>1. \A i \in 1..Len(w.rows) : R[i] \in JobRow(m)
    BY <1>2
  <2> QED BY <1>1, <2>1, MapRows
<1>4. \A i \in 1..Len(w.rows) : R[i].key = w.rows[i].key /\ Reached(R[i].due, w.src.next)
  BY <1>1, <1>2 DEF Bounded
<1>6. /\ v \in World(m) /\ v.rows = R /\ v.seen = w.seen /\ v.src = w.src
      /\ v.events = w.events /\ v.paid = w.paid /\ v.look = w.look /\ v.ok = w.ok
  BY <1>1, <1>3 DEF World
<1>7. Marks(w, v)
  BY <1>3, <1>4, <1>6 DEF Marks, Kept
<1>8. Since(b, m, v)
  BY <1>4, <1>6, <1>7, MarksKeep
<1> QED BY <1>6, <1>7, <1>8

-----------------------------------------------------------------------------
(* Creating the job of a date, or putting it back.                          *)

\* There is a job for the source's date, among those the statements can see.
Placed(w) == w.src.next # None => \E i \in 1..w.look : w.rows[i].key = KeyOf(w.src.next)

\* The statements see every job, and each has a key of its own.
Whole(w) == /\ w.look = Len(w.rows)
            /\ \A i, j \in 1..Len(w.rows) : w.rows[i].key = w.rows[j].key => i = j

LEMMA Quotients == \A d \in Nat, n \in Nat \ {0} : d \div n \in 0..d
OBVIOUS

LEMMA KeyFacts ==
  ASSUME source \in SourceRow, NEW d \in Nat \ {0}
  PROVE  KeyOf(d) \in Nat /\ KeyOf(d) <= d /\ (~IsDebt => KeyOf(d) = d)
<1>1. CASE ~IsDebt
  BY <1>1 DEF KeyOf
<1>2. CASE IsDebt
  <2>1. PICK n \in Nat \ {0} : n = source.span
    BY JobsAssumption DEF SourceRow
  <2>2. d \div n \in 0..d
    BY Quotients
  <2> QED BY <1>2, <2>1, <2>2 DEF KeyOf
<1> QED BY <1>1, <1>2

\* Neither the source nor the events change; no key is used again.
Puts(w, v) ==
  /\ v.src = w.src /\ v.events = w.events /\ v.paid = w.paid
  /\ Placed(w) => Len(v.rows) = Len(w.rows)
  /\ Whole(w) => Whole(v) /\ Placed(v) /\ (w.ok => v.ok)

LEMMA NewRowType ==
  ASSUME source \in SourceRow, NEW m \in Nat, NEW d \in Nat \ {0}
  PROVE  NewRow(d) \in JobRow(m) /\ NewRow(d).key = KeyOf(d) /\ NewRow(d).due = d
BY KeyFacts DEF NewRow, JobRow, Statuses

LEMMA DueReached ==
  ASSUME source \in SourceRow, NEW d \in Nat \ {0}, d # None
  PROVE  Reached(d, d) /\ Reached(KeyOf(d), d)
BY KeyFacts DEF Reached

LEMMA PutNew ==
  ASSUME source \in SourceRow, NEW m \in Nat, NEW b, NEW w, Since(b, m, w), w.src.next # None,
         \A i \in 1..w.look : w.rows[i].key # KeyOf(w.src.next), NEW v,
         v = [w EXCEPT !.rows = Append(w.rows, NewRow(w.src.next)), !.look = Len(w.rows) + 1]
  PROVE  Since(b, m, v) /\ Puts(w, v)
<1> DEFINE d == w.src.next
           R == Append(w.rows, NewRow(d))
           n == Len(w.rows) + 1
<1>0. v = [w EXCEPT !.rows = R, !.look = n]
  OBVIOUS
<1>1. /\ w \in World(m) /\ w.rows \in Seq(JobRow(m)) /\ w.src \in SourceRow
      /\ Len(w.rows) \in Nat /\ w.look \in Nat /\ w.look <= Len(w.rows)
      /\ \A i \in 1..Len(w.rows) : w.rows[i] \in JobRow(m) /\ Bounded(w.rows[i], w.src.next)
  BY SinceFields
<1>2. d \in Nat \ {0} /\ d # None
  BY <1>1 DEF SourceRow
<1>3. NewRow(d) \in JobRow(m) /\ NewRow(d).key = KeyOf(d) /\ NewRow(d).due = d
  BY <1>2, NewRowType
<1>4. /\ R \in Seq(JobRow(m)) /\ Len(R) = n /\ R[n] = NewRow(d)
      /\ \A i \in 1..Len(w.rows) : R[i] = w.rows[i]
  <2> HIDE DEF d
  <2>1. PICK x : x = NewRow(d)
    OBVIOUS
  <2> QED BY <1>1, <1>3, <2>1
<1>5. Bounded(NewRow(d), d)
  BY <1>2, <1>3, DueReached DEF Bounded
<1> HIDE DEF R
<1>6. n \in Nat /\ \A i \in 1..n : i \in 1..Len(w.rows) \/ i = n
  BY <1>1
<1> HIDE DEF n
<1>7. /\ v \in World(m) /\ v.rows = R /\ v.seen = w.seen /\ v.src = w.src
      /\ v.events = w.events /\ v.paid = w.paid /\ v.look = n /\ v.ok = w.ok
  BY <1>0, <1>1, <1>4, <1>6 DEF World
<1>8. Since(b, m, v)
  <2>1. \A i \in 1..Len(v.rows) : Bounded(v.rows[i], v.src.next)
    BY <1>1, <1>4, <1>5, <1>6, <1>7 DEF d
  <2>2. Len(w.rows) <= n
    BY <1>1 DEF n
  <2>3. Len(b.rows) <= Len(w.rows) /\ \A i \in 1..Len(b.rows) : w.rows[i].key = b.rows[i].key
    BY DEF Since
  <2>4. \A i \in 1..Len(b.rows) : i \in 1..Len(w.rows)
    BY <1>1, <2>3
  <2>5. \A i \in 1..Len(b.rows) : v.rows[i].key = b.rows[i].key
    BY <1>4, <1>7, <2>3, <2>4
  <2>6. Len(b.rows) <= Len(v.rows)
    BY <1>4, <1>7, <2>3 DEF n
  <2>7. n <= Len(R)
    BY <1>4, <1>6
  <2> QED BY <1>4, <1>7, <2>1, <2>5, <2>6, <2>7 DEF Since
<1>9. ~Placed(w)
  BY <1>2 DEF Placed, d
<1>10. ASSUME Whole(w) PROVE Whole(v) /\ Placed(v)
  <2>1. w.look = Len(w.rows)
    BY <1>10 DEF Whole
  <2>2. \A i \in 1..Len(w.rows) : R[i].key # R[n].key
    BY <1>3, <1>4, <2>1 DEF d
  <2>3. \A i, j \in 1..n : R[i].key = R[j].key => i = j
    BY <1>4, <1>6, <1>10, <2>2 DEF Whole
  <2>4. n \in 1..n
    BY <1>1 DEF n
  <2>5. Placed(v)
    BY <1>3, <1>4, <1>7, <2>4 DEF Placed, d
  <2> QED BY <1>4, <1>7, <2>3, <2>5 DEF Whole
<1> QED BY <1>7, <1>8, <1>9, <1>10 DEF Puts

LEMMA PutOld ==
  ASSUME source \in SourceRow, NEW m \in Nat, NEW b, NEW w, Since(b, m, w), w.src.next # None,
         NEW i \in 1..w.look, w.rows[i].key = KeyOf(w.src.next), NEW v,
         v = [w EXCEPT !.rows[i].status = "SCHEDULED", !.rows[i].due = w.src.next,
                       !.rows[i].stamped = FALSE,
                       !.seen = [k \in DOMAIN @ |-> IF k = i THEN "SCHEDULED" ELSE @[k]]]
  PROVE  Since(b, m, v) /\ Puts(w, v)
<1> DEFINE d == w.src.next
           row == [w.rows[i] EXCEPT !.status = "SCHEDULED", !.due = d, !.stamped = FALSE]
           R == [w.rows EXCEPT ![i] = row]
           t == [k \in DOMAIN w.seen |-> IF k = i THEN "SCHEDULED" ELSE w.seen[k]]
<1>1. /\ w \in World(m) /\ w.rows \in Seq(JobRow(m)) /\ w.src \in SourceRow /\ w.seen \in Beliefs
      /\ Len(w.rows) \in Nat /\ DOMAIN w.rows = 1..Len(w.rows)
      /\ w.look \in Nat /\ w.look <= Len(w.rows)
      /\ \A k \in 1..Len(w.rows) : w.rows[k] \in JobRow(m) /\ Bounded(w.rows[k], w.src.next)
  BY SinceFields
<1>2. d \in Nat \ {0} /\ d # None
  BY <1>1 DEF SourceRow
<1>3. i \in 1..Len(w.rows) /\ w.rows[i] \in JobRow(m)
  BY <1>1
<1>4. /\ row \in JobRow(m) /\ row.key = w.rows[i].key /\ row.due = d
      /\ row = [[[w.rows[i] EXCEPT !.status = "SCHEDULED"] EXCEPT !.due = d] EXCEPT !.stamped = FALSE]
  <2> HIDE DEF d
  <2> QED BY <1>2, <1>3 DEF JobRow, Statuses
<1>5. v = [w EXCEPT !.rows = R, !.seen = t]
  <2>1. w.rows = [k \in 1..Len(w.rows) |-> w.rows[k]]
    BY <1>1
  <2> QED BY <1>1, <1>3, <2>1 DEF World, JobRow
<1> HIDE DEF row
<1>6. /\ R \in Seq(JobRow(m)) /\ Len(R) = Len(w.rows)
      /\ \A k \in 1..Len(w.rows) : R[k] = IF k = i THEN row ELSE w.rows[k]
  BY <1>1, <1>3, <1>4, ExceptSeq
<1>7. \A k \in 1..Len(w.rows) : R[k].key = w.rows[k].key /\ Reached(R[k].due, d)
  <2>1. Reached(row.due, d)
    BY <1>2, <1>4, DueReached
  <2> QED BY <1>1, <1>4, <1>6, <2>1 DEF Bounded, d
<1>8. t \in Beliefs /\ DOMAIN t = DOMAIN w.seen
  <2>1. DOMAIN t = DOMAIN w.seen /\ t = [k \in DOMAIN t |-> t[k]]
    OBVIOUS
  <2>2. DOMAIN w.seen \in SUBSET Nat /\ \A k \in DOMAIN t : t[k] \in Statuses
    BY <1>1, BeliefsType DEF Statuses
  <2> QED BY <2>1, <2>2, ToBeliefs
<1> HIDE DEF R, t
<1>9. /\ v \in World(m) /\ v.rows = R /\ v.seen = t /\ v.src = w.src
      /\ v.events = w.events /\ v.paid = w.paid /\ v.look = w.look /\ v.ok = w.ok
  BY <1>1, <1>5, <1>6, <1>8 DEF World
<1>10. Marks(w, v)
  BY <1>6, <1>7, <1>9 DEF Marks, Kept
<1>11. Since(b, m, v)
  BY <1>7, <1>8, <1>9, <1>10, MarksKeep DEF d
<1>12. ASSUME Whole(w) PROVE Whole(v) /\ Placed(v)
  <2>1. \A k \in 1..v.look : k \in 1..Len(w.rows)
    BY <1>1, <1>9
  <2>2. v.rows[i].key = KeyOf(v.src.next)
    BY <1>3, <1>7, <1>9
  <2> QED BY <1>6, <1>7, <1>9, <1>12, <2>2 DEF Whole, Placed
<1>13. Puts(w, v)
  BY <1>6, <1>9, <1>12 DEF Puts
<1> QED BY <1>11, <1>13

LEMMA PutKeeps ==
  ASSUME source \in SourceRow, NEW m \in Nat, NEW b, NEW w, Since(b, m, w), w.src.next # None
  PROVE  Since(b, m, Put(w)) /\ Puts(w, Put(w))
<1> DEFINE same == {i \in 1..w.look : w.rows[i].key = KeyOf(w.src.next)}
<1>1. /\ w \in World(m) /\ Len(w.rows) \in Nat /\ DOMAIN w.rows = 1..Len(w.rows)
      /\ w.look \in Nat /\ w.look <= Len(w.rows)
  BY SinceFields
<1>2. IsFiniteSet(same) /\ Cardinality(same) \in Nat
  <2>1. IsFiniteSet(1..w.look)
    <3>1. 1 \in Int /\ w.look \in Int
      BY <1>1
    <3> QED BY <3>1, FS_Interval
  <2>2. IsFiniteSet(same)
    BY <2>1, FS_Subset
  <2> QED BY <2>2, FS_CardinalityType
<1>3. CASE same = {}
  <2>1. Put(w) = [w EXCEPT !.rows = Append(w.rows, NewRow(w.src.next)), !.look = Len(w.rows) + 1]
    <3>1. ~(Cardinality(same) > 1)
      BY <1>3, FS_EmptySet
    <3> QED BY <1>1, <1>3, <3>1 DEF Put, World
  <2>2. \A i \in 1..w.look : w.rows[i].key # KeyOf(w.src.next)
    BY <1>3
  <2> QED BY <2>1, <2>2, PutNew
<1>4. CASE Cardinality(same) > 1
  <2>1. same # {}
    BY <1>4, FS_EmptySet
  <2>2. Put(w) = Raised(w)
    BY <1>4, <2>1 DEF Put
  <2>3. ~Whole(w)
    <3> SUFFICES ASSUME Whole(w) PROVE FALSE
      OBVIOUS
    <3>1. PICK i \in same : TRUE
      BY <2>1
    <3>2. \A x \in same : x = i
      BY <1>1, <3>1 DEF Whole
    <3>3. same = {i}
      BY <3>1, <3>2
    <3> HIDE DEF same
    <3>4. Cardinality(same) = 1
      BY <3>3, FS_Singleton
    <3> QED BY <1>4, <3>4
  <2>4. Raised(w).src = w.src /\ Raised(w).events = w.events /\ Raised(w).paid = w.paid
        /\ Raised(w).rows = w.rows
    BY <1>1 DEF Raised, World
  <2> QED BY <2>2, <2>3, <2>4, RaisedKeeps DEF Puts
<1>5. CASE same # {} /\ ~(Cardinality(same) > 1)
  <2>1. PICK i \in same :
          Put(w) = [w EXCEPT !.rows[i].status = "SCHEDULED", !.rows[i].due = w.src.next,
                            !.rows[i].stamped = FALSE,
                            !.seen = [k \in DOMAIN @ |-> IF k = i THEN "SCHEDULED" ELSE @[k]]]
    <3>1. PICK i : i = (CHOOSE x \in same : TRUE)
      OBVIOUS
    <3>2. i \in same
      BY <1>5, <3>1
    <3> QED BY <1>5, <3>1, <3>2 DEF Put
  <2>2. i \in 1..w.look /\ w.rows[i].key = KeyOf(w.src.next)
    OBVIOUS
  <2> QED BY <2>1, <2>2, PutOld
<1> QED BY <1>3, <1>4, <1>5

-----------------------------------------------------------------------------
(* What no step of a session may break, if it held when it began: one event *)
(* for each period the session saw paid, and, for an income or an expense,  *)
(* jobs with different keys, one of them for the source's date.             *)

Even(w) == \A k \in Keys : w.events[k] = IF k \in w.paid THEN 1 ELSE 0

Sound(w) == IsDebt \/ (Whole(w) /\ Placed(w))

Fine(b, m, v) == Since(b, m, v) /\ (Even(b) => Even(v)) /\ (Sound(b) => Sound(v))

LEMMA KeptSame ==
  ASSUME NEW m \in Nat, NEW b, NEW w, Since(b, m, w), NEW v, Kept(w, v)
  PROVE  /\ Whole(w) => Whole(v)
         /\ Placed(w) => Placed(v)
         /\ Sound(w) => Sound(v)
         /\ Even(w) => Even(v)
<1>1. /\ w.look \in Nat /\ w.look <= Len(w.rows) /\ Len(w.rows) \in Nat
      /\ v.look = w.look /\ Len(v.rows) = Len(w.rows) /\ v.src.next = w.src.next
      /\ \A i \in 1..Len(w.rows) : v.rows[i].key = w.rows[i].key
  BY SinceFields DEF Kept
<1>2. Whole(w) => Whole(v)
  BY <1>1 DEF Whole
<1>3. Placed(w) => Placed(v)
  <2>1. \A i \in 1..w.look : i \in 1..Len(w.rows)
    BY <1>1
  <2> QED BY <1>1, <2>1 DEF Placed
<1>4. Even(w) => Even(v)
  BY DEF Even, Kept
<1> QED BY <1>2, <1>3, <1>4 DEF Sound

LEMMA FineKept ==
  ASSUME NEW m \in Nat, NEW b, NEW w, Fine(b, m, w), NEW v, Since(b, m, v), Kept(w, v)
  PROVE  Fine(b, m, v)
BY KeptSame DEF Fine

LEMMA MarkFine ==
  ASSUME NEW m \in Nat, NEW b, NEW w, Fine(b, m, w), NEW j \in DOMAIN w.seen,
         j \in 1..Len(w.rows), NEW s \in Statuses
  PROVE  Fine(b, m, Mark(w, j, s)) /\ Marks(w, Mark(w, j, s))
<1>1. Since(b, m, w)
  BY DEF Fine
<1>2. Since(b, m, Mark(w, j, s)) /\ Marks(w, Mark(w, j, s))
  BY <1>1, MarkKeeps
<1>3. Kept(w, Mark(w, j, s))
  BY <1>2 DEF Marks
<1> QED BY <1>2, <1>3, FineKept

LEMMA CancelFine ==
  ASSUME NEW m \in Nat, NEW b, NEW w, Fine(b, m, w)
  PROVE  Fine(b, m, CancelPending(w)) /\ Marks(w, CancelPending(w))
<1>1. Since(b, m, w)
  BY DEF Fine
<1>2. Since(b, m, CancelPending(w)) /\ Marks(w, CancelPending(w))
  BY <1>1, CancelKeeps
<1>3. Kept(w, CancelPending(w))
  BY <1>2 DEF Marks
<1> QED BY <1>2, <1>3, FineKept

LEMMA RaisedFine ==
  ASSUME NEW m \in Nat, NEW b, NEW w, Fine(b, m, w)
  PROVE  Fine(b, m, Raised(w)) /\ Kept(w, Raised(w)) /\ Raised(w).src = w.src
BY RaisedKeeps, FineKept DEF Fine

\* The next job is put in place for a source that does not change any more.
Steady(w, v) ==
  /\ v.src = w.src /\ v.events = w.events /\ v.paid = w.paid
  /\ Placed(w) => Len(v.rows) = Len(w.rows)

LEMMA ReplaceKeeps ==
  ASSUME source \in SourceRow, NEW m \in Nat, NEW b, NEW w, Since(b, m, w)
  PROVE  /\ Since(b, m, Replace(w)) /\ Steady(w, Replace(w))
         /\ ~IsDebt /\ w.ok /\ Whole(w) => Whole(Replace(w)) /\ Placed(Replace(w))
<1> DEFINE v == CancelPending(w)
<1>1. Since(b, m, v) /\ Marks(w, v)
  BY CancelKeeps
<1> HIDE DEF v
<1>2. /\ v.src = w.src /\ v.events = w.events /\ v.paid = w.paid
      /\ Len(v.rows) = Len(w.rows) /\ v.ok = w.ok /\ v.look = w.look
  BY <1>1 DEF Marks, Kept
<1>3. (Whole(w) => Whole(v)) /\ (Placed(w) => Placed(v))
  BY <1>1, KeptSame DEF Marks
<1>4. CASE ~w.ok \/ (IsDebt /\ ~Active(w.src))
  BY <1>4 DEF Replace, Steady
<1>5. CASE ~(~w.ok \/ (IsDebt /\ ~Active(w.src))) /\ w.src.next = None
  <2>1. Replace(w) = v
    BY <1>5 DEF Replace, v
  <2>2. Placed(v)
    BY <1>2, <1>5 DEF Placed
  <2> QED BY <1>1, <1>2, <1>3, <2>1, <2>2 DEF Steady
<1>6. CASE ~(~w.ok \/ (IsDebt /\ ~Active(w.src))) /\ w.src.next # None
  <2>1. Replace(w) = Put(v)
    BY <1>6 DEF Replace, v
  <2>2. Since(b, m, Put(v)) /\ Puts(v, Put(v))
    BY <1>1, <1>2, <1>6, PutKeeps
  <2> QED BY <1>2, <1>3, <2>1, <2>2 DEF Puts, Steady
<1> QED BY <1>4, <1>5, <1>6

LEMMA ReplaceFine ==
  ASSUME source \in SourceRow, NEW m \in Nat, NEW b, NEW w, Fine(b, m, w),
         IsDebt \/ w.ok
  PROVE  Fine(b, m, Replace(w)) /\ Steady(w, Replace(w))
<1>1. /\ Since(b, m, Replace(w)) /\ Steady(w, Replace(w))
      /\ ~IsDebt /\ w.ok /\ Whole(w) => Whole(Replace(w)) /\ Placed(Replace(w))
  BY ReplaceKeeps DEF Fine
<1>2. Even(w) => Even(Replace(w))
  BY <1>1 DEF Even, Steady
<1> QED BY <1>1, <1>2 DEF Fine, Sound

\* A date may go from x to y: nothing lies past the bound and y.
Later(x, y) == x = None \/ x <= LastDate \/ (y # None /\ x <= y)

LEMMA LaterReached ==
  ASSUME NEW x \in (Nat \ {0}) \cup {None}, NEW y \in (Nat \ {0}) \cup {None}, Later(x, y),
         NEW d \in Nat, Reached(d, x)
  PROVE  Reached(d, y)
<1>1. LastDate \in Nat
  BY JobsAssumption
<1>2. CASE d <= LastDate
  BY <1>2 DEF Reached
<1>3. CASE x # None /\ d <= x
  <2>1. x \in Nat
    BY <1>3
  <2>2. CASE x <= LastDate
    BY <1>1, <1>3, <2>1, <2>2 DEF Reached
  <2>3. CASE y # None /\ x <= y
    <3>1. y \in Nat
      BY <2>3
    <3> QED BY <1>3, <2>1, <2>3, <3>1 DEF Reached
  <2> QED BY <1>3, <2>2, <2>3 DEF Later
<1> QED BY <1>2, <1>3 DEF Reached

LEMMA SourceKeeps ==
  ASSUME NEW m \in Nat, NEW b, NEW w, Since(b, m, w), NEW s \in SourceRow,
         s.span = w.src.span, s.confirm = w.src.confirm, Later(w.src.next, s.next),
         NEW v, v = [w EXCEPT !.src = s]
  PROVE  /\ Since(b, m, v) /\ v.src = s /\ v.rows = w.rows /\ v.events = w.events
         /\ v.paid = w.paid /\ v.look = w.look /\ v.ok = w.ok /\ v.seen = w.seen
         /\ v.bucket = w.bucket
<1>1. w \in World(m) /\ w.src \in SourceRow /\ Len(w.rows) \in Nat
      /\ \A i \in 1..Len(w.rows) : w.rows[i] \in JobRow(m) /\ Bounded(w.rows[i], w.src.next)
  BY SinceFields
<1>2. /\ v \in World(m) /\ v.src = s /\ v.rows = w.rows /\ v.events = w.events
      /\ v.paid = w.paid /\ v.look = w.look /\ v.ok = w.ok /\ v.seen = w.seen
      /\ v.bucket = w.bucket
  BY <1>1 DEF World
<1>3. /\ w.src.next \in (Nat \ {0}) \cup {None} /\ s.next \in (Nat \ {0}) \cup {None}
  BY <1>1 DEF SourceRow
<1>4. ASSUME NEW i \in 1..Len(w.rows) PROVE Bounded(w.rows[i], s.next)
  <2>1. w.rows[i].key \in Nat /\ w.rows[i].due \in Nat
    BY <1>1 DEF JobRow
  <2>2. Reached(w.rows[i].key, w.src.next) /\ Reached(w.rows[i].due, w.src.next)
    BY <1>1 DEF Bounded
  <2> QED BY <1>3, <2>1, <2>2, LaterReached DEF Bounded
<1> QED BY <1>2, <1>4 DEF Since

\* The date moves and the next job is put in place.
LEMMA ShiftFine ==
  ASSUME source \in SourceRow, NEW m \in Nat, NEW b, NEW w, Fine(b, m, w),
         IsDebt \/ w.ok, NEW s \in SourceRow, s.span = w.src.span, s.confirm = w.src.confirm,
         Later(w.src.next, s.next), NEW v, v = [w EXCEPT !.src = s]
  PROVE  /\ Fine(b, m, Replace(v)) /\ Replace(v).src = s
         /\ Replace(v).events = w.events /\ Replace(v).paid = w.paid
         /\ Placed(w) /\ s.next = w.src.next => Len(Replace(v).rows) = Len(w.rows)
<1>0. Since(b, m, w)
  BY DEF Fine
<1>1. /\ Since(b, m, v) /\ v.src = s /\ v.rows = w.rows /\ v.events = w.events
      /\ v.paid = w.paid /\ v.look = w.look /\ v.ok = w.ok
  BY <1>0, SourceKeeps
<1>2. /\ Since(b, m, Replace(v)) /\ Steady(v, Replace(v))
      /\ ~IsDebt /\ v.ok /\ Whole(v) => Whole(Replace(v)) /\ Placed(Replace(v))
  BY <1>1, ReplaceKeeps
<1>3. Even(w) => Even(Replace(v))
  BY <1>1, <1>2 DEF Even, Steady
<1>4. Sound(w) => Sound(Replace(v))
  BY <1>1, <1>2 DEF Sound, Whole
<1>5. Placed(w) /\ s.next = w.src.next => Len(Replace(v).rows) = Len(w.rows)
  BY <1>1, <1>2 DEF Steady, Placed
<1> QED BY <1>1, <1>2, <1>3, <1>4, <1>5 DEF Fine, Steady

\* The source changes and no job is asked for: a debt, or the date stays or goes.
LEMMA SourceFine ==
  ASSUME NEW m \in Nat, NEW b, NEW w, Fine(b, m, w), NEW s \in SourceRow,
         s.span = w.src.span, s.confirm = w.src.confirm, Later(w.src.next, s.next),
         IsDebt \/ s.next \in {w.src.next, None}, NEW v, v = [w EXCEPT !.src = s]
  PROVE  /\ Fine(b, m, v) /\ v.src = s /\ v.rows = w.rows /\ v.events = w.events
         /\ v.paid = w.paid /\ v.look = w.look /\ v.ok = w.ok /\ v.seen = w.seen
         /\ v.bucket = w.bucket
<1>1. /\ Since(b, m, v) /\ v.src = s /\ v.rows = w.rows /\ v.events = w.events
      /\ v.paid = w.paid /\ v.look = w.look /\ v.ok = w.ok /\ v.seen = w.seen
      /\ v.bucket = w.bucket
  BY SourceKeeps DEF Fine
<1>2. Even(w) => Even(v)
  BY <1>1 DEF Even
<1>3. Sound(w) => Sound(v)
  BY <1>1 DEF Sound, Whole, Placed
<1> QED BY <1>1, <1>2, <1>3 DEF Fine

LEMMA NextSet ==
  ASSUME NEW s \in SourceRow, NEW n \in (Nat \ {0}) \cup {None}
  PROVE  /\ [s EXCEPT !.next = n] \in SourceRow /\ [s EXCEPT !.next = n].next = n
         /\ [s EXCEPT !.next = n].span = s.span /\ [s EXCEPT !.next = n].confirm = s.confirm
BY DEF SourceRow

LEMMA Onward ==
  ASSUME NEW n \in Nat \ {0}, n # None
  PROVE  n + 1 \in Nat \ {0} /\ n + 1 # None /\ n + 1 # n /\ Later(n, n + 1)
BY NoneAssumption DEF Later

LEMMA AdvanceFine ==
  ASSUME source \in SourceRow, NEW m \in Nat, NEW b, NEW w, Fine(b, m, w), IsDebt \/ w.ok
  PROVE  /\ Fine(b, m, Advance(w))
         /\ Advance(w).events = w.events /\ Advance(w).paid = w.paid
         /\ w.src.next = None => Advance(w) = w
         /\ w.src.next # None => Advance(w).src.next = w.src.next + 1
<1>1. CASE w.src.next = None
  BY <1>1 DEF Advance
<1>2. CASE w.src.next # None
  <2> DEFINE n == w.src.next + 1
             s == [w.src EXCEPT !.next = n]
             v == [w EXCEPT !.src = s]
  <2>1. w \in World(m) /\ w.src \in SourceRow
    BY SinceFields DEF Fine
  <2>2. w.src.next \in Nat \ {0}
    BY <1>2, <2>1 DEF SourceRow
  <2>3. n \in Nat \ {0} /\ n # None /\ Later(w.src.next, n)
    BY <1>2, <2>2, Onward
  <2>4. v = [w EXCEPT !.src.next = @ + 1]
    BY <2>1 DEF World
  <2>5. Advance(w) = Replace(v)
    BY <1>2, <2>4 DEF Advance
  <2>6. s \in SourceRow /\ s.next = n /\ s.span = w.src.span /\ s.confirm = w.src.confirm
    <3> HIDE DEF n
    <3> QED BY <2>1, <2>3, NextSet
  <2> HIDE DEF s
  <2>7. v = [w EXCEPT !.src = s] /\ Later(w.src.next, s.next)
    BY <2>3, <2>6
  <2> HIDE DEF v, n
  <2>8. /\ Fine(b, m, Replace(v)) /\ Replace(v).src = s
        /\ Replace(v).events = w.events /\ Replace(v).paid = w.paid
    BY <2>6, <2>7, ShiftFine
  <2> QED BY <1>2, <2>5, <2>6, <2>8 DEF n
<1> QED BY <1>1, <1>2

LEMMA BucketFine ==
  ASSUME NEW m \in Nat, NEW b, NEW w, Fine(b, m, w), NEW n \in Nat,
         NEW v, v = [w EXCEPT !.bucket = n]
  PROVE  Fine(b, m, v) /\ Marks(w, v) /\ v.seen = w.seen /\ v.bucket = n
<1>1. Since(b, m, w) /\ w \in World(m) /\ Len(w.rows) \in Nat
  BY SinceFields DEF Fine
<1>2. /\ v \in World(m) /\ v.rows = w.rows /\ v.seen = w.seen /\ v.src = w.src /\ v.ok = w.ok
      /\ v.events = w.events /\ v.paid = w.paid /\ v.look = w.look /\ v.bucket = n
  BY <1>1 DEF World
<1>3. Marks(w, v)
  BY <1>2 DEF Marks, Kept
<1>4. Since(b, m, v)
  BY <1>1, <1>2 DEF Since
<1>5. Kept(w, v)
  BY <1>3 DEF Marks
<1> QED BY <1>2, <1>3, <1>4, <1>5, FineKept

LEMMA AddDefaultFine ==
  ASSUME source \in SourceRow, NEW m \in Nat, NEW b, NEW w, Fine(b, m, w), IsDebt
  PROVE  /\ Fine(b, m, AddDefault(w)) /\ AddDefault(w).src = w.src
         /\ AddDefault(w).events = w.events
<1> DEFINE n == w.bucket + 1
           v == [w EXCEPT !.bucket = n]
<1>1. w \in World(m) /\ w.bucket \in Nat
  BY SinceFields DEF Fine
<1>2. n \in Nat
  BY <1>1
<1>3. AddDefault(w) = Replace(v)
  BY <1>1 DEF AddDefault, World
<1> HIDE DEF n
<1>4. Fine(b, m, v) /\ Marks(w, v)
  BY <1>2, BucketFine
<1> HIDE DEF v
<1>5. Fine(b, m, Replace(v)) /\ Steady(v, Replace(v))
  BY <1>4, ReplaceFine
<1> QED BY <1>3, <1>4, <1>5 DEF Steady, Marks, Kept

LEMMA StatusSet ==
  ASSUME NEW s \in SourceRow, NEW x \in {"ACTIVE", "PAID", "CANCELLED"}
  PROVE  /\ [s EXCEPT !.status = x] \in SourceRow
         /\ [s EXCEPT !.status = x].next = s.next /\ [s EXCEPT !.status = x].emi = s.emi
         /\ [s EXCEPT !.status = x].left = s.left
         /\ [s EXCEPT !.status = x].span = s.span /\ [s EXCEPT !.status = x].confirm = s.confirm
BY DEF SourceRow

LEMMA LaterSame ==
  ASSUME NEW x \in (Nat \ {0}) \cup {None}
  PROVE  Later(x, x)
BY DEF Later

LEMMA CompletionFine ==
  ASSUME NEW m \in Nat, NEW b, NEW w, Fine(b, m, w)
  PROVE  /\ Fine(b, m, CheckCompletion(w)) /\ Kept(w, CheckCompletion(w))
         /\ CheckCompletion(w).src.left = w.src.left
<1>1. CASE ~(w.src.left = 0 /\ w.bucket = 0)
  BY <1>1 DEF CheckCompletion, Kept
<1>2. CASE w.src.left = 0 /\ w.bucket = 0
  <2> DEFINE u == CancelPending(w)
             s == [u.src EXCEPT !.status = "PAID"]
             v == [u EXCEPT !.src = s]
  <2>1. Fine(b, m, u) /\ Marks(w, u)
    BY CancelFine
  <2> HIDE DEF u
  <2>2. u \in World(m) /\ u.src \in SourceRow
    BY <2>1, SinceFields DEF Fine
  <2>3. CheckCompletion(w) = v
    BY <1>2, <2>2 DEF CheckCompletion, World, u
  <2>4. /\ s \in SourceRow /\ s.next = u.src.next /\ s.emi = u.src.emi /\ s.left = u.src.left
        /\ s.span = u.src.span /\ s.confirm = u.src.confirm
    BY <2>2, StatusSet
  <2>5. Later(u.src.next, s.next)
    BY <2>2, <2>4, LaterSame DEF SourceRow
  <2> HIDE DEF s
  <2>6. /\ Fine(b, m, v) /\ v.src = s /\ v.rows = u.rows /\ v.events = u.events
        /\ v.paid = u.paid /\ v.look = u.look /\ v.ok = u.ok
    BY <2>1, <2>4, <2>5, SourceFine
  <2> HIDE DEF v
  <2> QED BY <2>1, <2>3, <2>4, <2>6 DEF Marks, Kept
<1> QED BY <1>1, <1>2

LEMMA AddEventFine ==
  ASSUME NEW m \in Nat, NEW b, NEW w, Fine(b, m, w), NEW k \in Nat
  PROVE  Fine(b, m, AddEvent(w, k)) /\ AddEvent(w, k).src = w.src
<1>1. CASE k \in w.paid
  BY <1>1 DEF AddEvent
<1>2. CASE k \notin w.paid
  <2> DEFINE E == [w.events EXCEPT ![k] = w.events[k] + 1]
             P == w.paid \cup {k}
             v == [w EXCEPT !.events = E, !.paid = P]
  <2>1. /\ Since(b, m, w) /\ w \in World(m) /\ w.events \in [Keys -> Nat] /\ w.paid \in SUBSET Nat
        /\ w.look \in Nat /\ w.look <= Len(w.rows) /\ Len(w.rows) \in Nat
    BY SinceFields DEF Fine
  <2>2. AddEvent(w, k) = v
    BY <1>2, <2>1 DEF AddEvent, World
  <2>3. E \in [Keys -> Nat] /\ P \in SUBSET Nat
    <3>1. \A x \in Keys : w.events[x] + 1 \in Nat
      BY <2>1
    <3>2. ASSUME NEW x \in Keys PROVE E[x] \in Nat
      BY <2>1, <3>1
    <3>3. E = [x \in Keys |-> E[x]]
      BY <2>1
    <3> QED BY <2>1, <3>2, <3>3
  <2>4. Even(w) => \A x \in Keys : E[x] = IF x \in P THEN 1 ELSE 0
    BY <1>2, <2>1 DEF Even
  <2> HIDE DEF E, P
  <2>5. /\ v \in World(m) /\ v.rows = w.rows /\ v.seen = w.seen /\ v.src = w.src /\ v.ok = w.ok
        /\ v.events = E /\ v.paid = P /\ v.look = w.look
    BY <2>1, <2>3 DEF World
  <2> HIDE DEF v
  <2>6. Since(b, m, v)
    BY <2>1, <2>5 DEF Since
  <2>7. Even(w) => Even(v)
    BY <2>4, <2>5 DEF Even
  <2>8. Sound(w) => Sound(v)
    BY <2>5 DEF Sound, Whole, Placed
  <2> QED BY <2>2, <2>5, <2>6, <2>7, <2>8 DEF Fine
<1> QED BY <1>1, <1>2

-----------------------------------------------------------------------------
(* Applying a job.                                                          *)

\* A job that the session loaded when it began.
Loaded(b, j) == j \in DOMAIN b.seen /\ j \in 1..Len(b.rows)

LEMMA LoadedIn ==
  ASSUME NEW m \in Nat, NEW b, NEW w, Fine(b, m, w), NEW j, Loaded(b, j), Len(b.rows) \in Nat
  PROVE  /\ j \in DOMAIN w.seen /\ j \in 1..Len(w.rows) /\ w.rows[j] \in JobRow(m)
         /\ w.seen[j] \in Statuses
<1>1. /\ DOMAIN w.seen = DOMAIN b.seen /\ Len(b.rows) <= Len(w.rows) /\ Len(w.rows) \in Nat
      /\ w.seen \in Beliefs /\ \A i \in 1..Len(w.rows) : w.rows[i] \in JobRow(m)
  BY SinceFields DEF Fine, Since
<1>2. j \in 1..Len(w.rows)
  BY <1>1 DEF Loaded
<1> QED BY <1>1, <1>2, BeliefsType DEF Loaded

LEMMA MarkOf ==
  ASSUME NEW m \in Nat, NEW b, NEW w, Fine(b, m, w), NEW j, Loaded(b, j), Len(b.rows) \in Nat,
         NEW s \in Statuses
  PROVE  Fine(b, m, Mark(w, j, s)) /\ Marks(w, Mark(w, j, s))
BY LoadedIn, MarkFine

LEMMA KeptTrans ==
  ASSUME NEW u, NEW v, NEW w, Kept(u, v), Kept(v, w)
  PROVE  Kept(u, w)
BY DEF Kept

LEMMA EmiFine ==
  ASSUME source \in SourceRow, NEW m \in Nat, NEW b, NEW w, Fine(b, m, w), IsDebt,
         NEW j, Loaded(b, j), Len(b.rows) \in Nat, NEW known \in BOOLEAN
  PROVE  /\ Fine(b, m, ApplyEmi(w, j, known))
         /\ known \/ w.src.next = None => Kept(w, ApplyEmi(w, j, known))
         /\ ~known /\ w.src.next # None => ApplyEmi(w, j, known).src.next = w.src.next + 1
<1>1. CASE known
  <2>1. "APPLIED" \in Statuses
    BY DEF Statuses
  <2>2. Fine(b, m, Mark(w, j, "APPLIED")) /\ Marks(w, Mark(w, j, "APPLIED"))
    BY <2>1, MarkOf
  <2> QED BY <1>1, <2>2 DEF ApplyEmi, Marks
<1>2. CASE ~known /\ w.src.next = None
  <2>1. ApplyEmi(w, j, known) = Raised(w)
    BY <1>2 DEF ApplyEmi
  <2> QED BY <1>2, <2>1, RaisedFine
<1>3. CASE ~known /\ w.src.next # None
  <2> DEFINE n == w.src.next + 1
             left == IF w.src.left = 0 THEN 0 ELSE w.src.left - 1
             s == [w.src EXCEPT !.left = left, !.next = n]
             u == [w EXCEPT !.src = s]
             c == CheckCompletion(u)
             k == w.rows[j].key
             e == AddEvent(c, k)
  <2>1. w \in World(m) /\ w.src \in SourceRow
    BY SinceFields DEF Fine
  <2>2. w.src.next \in Nat \ {0} /\ w.src.left \in 0..MaxLeft
    BY <1>3, <2>1 DEF SourceRow
  <2>3. n \in Nat \ {0} /\ n # None /\ Later(w.src.next, n)
    BY <1>3, <2>2, Onward
  <2>4. left \in 0..MaxLeft
    BY <2>2, JobsAssumption
  <2>5. u = [w EXCEPT !.src.left = IF @ = 0 THEN 0 ELSE @ - 1, !.src.next = @ + 1]
    BY <2>1 DEF World, SourceRow
  <2>6. ApplyEmi(w, j, known) = Replace(e)
    BY <1>3, <2>5 DEF ApplyEmi
  <2> HIDE DEF n, left
  <2>7. s \in SourceRow /\ s.next = n /\ s.span = w.src.span /\ s.confirm = w.src.confirm
    BY <2>1, <2>3, <2>4 DEF SourceRow
  <2> HIDE DEF s
  <2>8. Fine(b, m, u) /\ u.src = s
    BY <2>3, <2>7, SourceFine
  <2> HIDE DEF u
  <2>9. Fine(b, m, c) /\ Kept(u, c)
    BY <2>8, CompletionFine
  <2> HIDE DEF c
  <2>10. k \in Nat
    BY LoadedIn, RowFields
  <2> HIDE DEF k
  <2>11. Fine(b, m, e) /\ e.src = c.src
    BY <2>9, <2>10, AddEventFine
  <2> HIDE DEF e
  <2>12. Fine(b, m, Replace(e)) /\ Steady(e, Replace(e))
    BY <2>11, ReplaceFine
  <2>13. Replace(e).src.next = n
    BY <2>7, <2>8, <2>9, <2>11, <2>12 DEF Steady, Kept
  <2> QED BY <1>3, <2>6, <2>12, <2>13 DEF n
<1> QED BY <1>1, <1>2, <1>3

\* One row changes; its key stays.
LEMMA RowFine ==
  ASSUME NEW m \in Nat, NEW b, NEW w, Fine(b, m, w), NEW i \in 1..Len(w.rows),
         NEW row \in JobRow(m), row.key = w.rows[i].key, Reached(row.due, w.src.next),
         NEW v, v = [w EXCEPT !.rows = [w.rows EXCEPT ![i] = row]]
  PROVE  Fine(b, m, v) /\ Marks(w, v) /\ v.seen = w.seen /\ v.rows = [w.rows EXCEPT ![i] = row]
<1> DEFINE R == [w.rows EXCEPT ![i] = row]
<1>1. /\ Since(b, m, w) /\ w \in World(m) /\ w.rows \in Seq(JobRow(m))
      /\ \A k \in 1..Len(w.rows) : Bounded(w.rows[k], w.src.next)
  BY SinceFields DEF Fine
<1>2. /\ R \in Seq(JobRow(m)) /\ Len(R) = Len(w.rows)
      /\ \A k \in 1..Len(w.rows) : R[k] = IF k = i THEN row ELSE w.rows[k]
  BY <1>1, ExceptSeq
<1>3. \A k \in 1..Len(w.rows) : R[k].key = w.rows[k].key /\ Reached(R[k].due, w.src.next)
  BY <1>1, <1>2 DEF Bounded
<1>4. v = [w EXCEPT !.rows = R]
  OBVIOUS
<1> HIDE DEF R
<1>5. /\ v \in World(m) /\ v.rows = R /\ v.seen = w.seen /\ v.src = w.src /\ v.ok = w.ok
      /\ v.events = w.events /\ v.paid = w.paid /\ v.look = w.look
  BY <1>1, <1>2, <1>4 DEF World
<1>6. Marks(w, v)
  BY <1>2, <1>3, <1>5 DEF Marks, Kept
<1>7. Since(b, m, v)
  BY <1>1, <1>3, <1>5, <1>6, MarksKeep
<1>8. Kept(w, v)
  BY <1>6 DEF Marks
<1> QED BY <1>5, <1>6, <1>7, <1>8, FineKept DEF R

LEMMA DelayFine ==
  ASSUME NEW m \in Nat, NEW b, NEW w, Fine(b, m, w), NEW j, Loaded(b, j), Len(b.rows) \in Nat
  PROVE  Fine(b, m, Delay(w, j)) /\ Kept(w, Delay(w, j))
<1> DEFINE u == Mark(w, j, "DELAYED")
           row == [u.rows[j] EXCEPT !.told = TRUE]
           v == [u EXCEPT !.rows = [u.rows EXCEPT ![j] = row]]
<1>1. "DELAYED" \in Statuses
  BY DEF Statuses
<1>2. Fine(b, m, u) /\ Marks(w, u)
  BY <1>1, MarkOf
<1> HIDE DEF u
<1>3. j \in 1..Len(u.rows) /\ u.rows[j] \in JobRow(m)
  BY <1>2, LoadedIn
<1>4. /\ u \in World(m) /\ DOMAIN u.rows = 1..Len(u.rows)
      /\ \A k \in 1..Len(u.rows) : Bounded(u.rows[k], u.src.next)
  BY <1>2, SinceFields DEF Fine
<1>5. row \in JobRow(m) /\ row.key = u.rows[j].key /\ row.due = u.rows[j].due
  BY <1>3 DEF JobRow
<1>6. Delay(w, j) = v
  BY <1>3, <1>4 DEF Delay, World, JobRow, u
<1>7. Reached(row.due, u.src.next)
  BY <1>3, <1>4, <1>5 DEF Bounded
<1> HIDE DEF row
<1>8. Fine(b, m, v) /\ Marks(u, v)
  BY <1>2, <1>3, <1>5, <1>7, RowFine
<1> HIDE DEF v
<1>9. Kept(w, u) /\ Kept(u, v)
  BY <1>2, <1>8 DEF Marks
<1> QED BY <1>6, <1>8, <1>9, KeptTrans

\* When apply_job moves the date (and, for a debt, may add an event).
Applies(w, j, known, funded) ==
  /\ w.seen[j] # "APPLIED" /\ (~IsDebt => w.seen[j] = "AWAITING")
  /\ w.src.next # None /\ w.src.emi
  /\ IsDebt => ~known /\ funded

LEMMA FlowFine ==
  ASSUME source \in SourceRow, NEW m \in Nat, NEW b, NEW w, Fine(b, m, w), IsDebt \/ w.ok,
         NEW j, Loaded(b, j), Len(b.rows) \in Nat, NEW s \in Statuses
  PROVE  LET v == Mark(Advance(w), j, s)
         IN  /\ Fine(b, m, v)
             /\ w.src.next = None => Kept(w, v)
             /\ w.src.next # None => v.src.next = w.src.next + 1
<1> DEFINE u == Advance(w)
           v == Mark(u, j, s)
<1>1. /\ Fine(b, m, u)
      /\ w.src.next = None => u = w
      /\ w.src.next # None => u.src.next = w.src.next + 1
  BY AdvanceFine
<1> HIDE DEF u
<1>2. Fine(b, m, v) /\ Marks(u, v)
  BY <1>1, MarkOf
<1> HIDE DEF v
<1>3. v.src = u.src /\ Kept(u, v)
  BY <1>2 DEF Marks
<1>4. w.src.next = None => Kept(w, v)
  BY <1>1, <1>3
<1> QED BY <1>1, <1>2, <1>3, <1>4 DEF v, u

LEMMA JobFine ==
  ASSUME source \in SourceRow, NEW m \in Nat, NEW b, NEW w, Fine(b, m, w), IsDebt \/ w.ok,
         NEW j, Loaded(b, j), Len(b.rows) \in Nat,
         NEW known \in BOOLEAN, NEW funded \in BOOLEAN
  PROVE  /\ Fine(b, m, ApplyJob(w, j, known, funded))
         /\ ~Applies(w, j, known, funded) => Kept(w, ApplyJob(w, j, known, funded))
         /\ Applies(w, j, known, funded) =>
              ApplyJob(w, j, known, funded).src.next = w.src.next + 1
<1> DEFINE v == ApplyJob(w, j, known, funded)
<1>0. "APPLIED" \in Statuses /\ "FAILED" \in Statuses
  BY DEF Statuses
<1>1. CASE w.seen[j] = "APPLIED"
  BY <1>1 DEF ApplyJob, Applies, Kept
<1>2. CASE w.seen[j] # "APPLIED" /\ ~IsDebt /\ w.seen[j] # "AWAITING"
  <2>1. v = Raised(w) /\ ~Applies(w, j, known, funded)
    BY <1>2 DEF ApplyJob, Applies
  <2> QED BY <2>1, RaisedFine
<1> DEFINE going == w.seen[j] # "APPLIED" /\ ~(~IsDebt /\ w.seen[j] # "AWAITING")
<1>3. CASE going /\ (w.src.next = None \/ ~w.src.emi)
  <2> DEFINE u == Mark(w, j, "FAILED")
  <2>1. v = Raised(u) /\ ~Applies(w, j, known, funded)
    BY <1>3 DEF ApplyJob, Applies
  <2>2. Fine(b, m, u) /\ Marks(w, u)
    BY <1>0, MarkOf
  <2> HIDE DEF u
  <2>3. Fine(b, m, Raised(u)) /\ Kept(u, Raised(u))
    BY <2>2, RaisedFine
  <2>4. Kept(w, Raised(u))
    BY <2>2, <2>3, KeptTrans DEF Marks
  <2> QED BY <2>1, <2>3, <2>4
<1>4. CASE going /\ w.src.next # None /\ w.src.emi /\ ~IsDebt
  <2>1. v = Mark(Advance(w), j, "APPLIED") /\ Applies(w, j, known, funded)
    BY <1>4 DEF ApplyJob, Applies, ApplyFlow
  <2>2. Fine(b, m, v) /\ v.src.next = w.src.next + 1
    BY <1>0, <1>4, <2>1, FlowFine
  <2> QED BY <2>1, <2>2
<1>5. CASE going /\ w.src.next # None /\ w.src.emi /\ IsDebt /\ (known \/ funded)
  <2> DEFINE u == ApplyEmi(w, j, known)
  <2>1. v = Mark(u, j, "APPLIED") /\ (Applies(w, j, known, funded) <=> ~known)
    BY <1>5 DEF ApplyJob, Applies
  <2>2. Fine(b, m, u) /\ (known => Kept(w, u)) /\ (~known => u.src.next = w.src.next + 1)
    BY <1>5, EmiFine
  <2> HIDE DEF u
  <2>3. Fine(b, m, Mark(u, j, "APPLIED")) /\ Marks(u, Mark(u, j, "APPLIED"))
    BY <1>0, <2>2, MarkOf
  <2>4. known => Kept(w, Mark(u, j, "APPLIED"))
    BY <2>2, <2>3, KeptTrans DEF Marks
  <2>5. ~known => Mark(u, j, "APPLIED").src.next = w.src.next + 1
    BY <2>2, <2>3 DEF Marks
  <2> QED BY <2>1, <2>3, <2>4, <2>5
<1>6. CASE going /\ w.src.next # None /\ w.src.emi /\ IsDebt /\ ~(known \/ funded)
  <2>1. v = Delay(w, j) /\ ~Applies(w, j, known, funded)
    BY <1>6 DEF ApplyJob, Applies
  <2> QED BY <2>1, DelayFine
<1> HIDE DEF v
<1>7. going \/ w.seen[j] = "APPLIED" \/ (w.seen[j] # "APPLIED" /\ ~IsDebt /\ w.seen[j] # "AWAITING")
  OBVIOUS
<1> HIDE DEF going
<1> QED BY <1>1, <1>2, <1>3, <1>4, <1>5, <1>6, <1>7 DEF v

LEMMA OkFine ==
  ASSUME NEW m \in Nat, NEW b, NEW w, Fine(b, m, w), NEW x \in BOOLEAN,
         NEW v, v = [w EXCEPT !.ok = x]
  PROVE  Fine(b, m, v) /\ Kept(w, v) /\ v.src = w.src /\ v.ok = x
<1>1. Since(b, m, w) /\ w \in World(m)
  BY SinceFields DEF Fine
<1>2. /\ v \in World(m) /\ v.rows = w.rows /\ v.seen = w.seen /\ v.src = w.src /\ v.ok = x
      /\ v.events = w.events /\ v.paid = w.paid /\ v.look = w.look
  BY <1>1 DEF World
<1>3. Kept(w, v)
  BY <1>2 DEF Kept
<1>4. Since(b, m, v)
  BY <1>1, <1>2 DEF Since
<1> QED BY <1>2, <1>3, <1>4, FineKept

\* The step of the loop, when it does not skip the job.
LEMMA StepFine ==
  ASSUME source \in SourceRow, NEW m \in Nat, NEW b, NEW w, Fine(b, m, w), w.ok,
         NEW c, tx[c].flag \in BOOLEAN, NEW strict \in BOOLEAN,
         NEW j, Loaded(b, j), Len(b.rows) \in Nat
  PROVE  LET v == ApplyNext(w, j, c, strict)
             moves == Applies(w, j, w.rows[j].key \in w.paid, tx[c].flag)
         IN  /\ Fine(b, m, v) /\ (strict \/ v.ok)
             /\ ~moves => Kept(w, v)
             /\ moves => v.src.next = w.src.next + 1
<1> DEFINE known == w.rows[j].key \in w.paid
           u == ApplyJob(w, j, known, tx[c].flag)
           x == u.ok \/ ~strict
           v == [u EXCEPT !.ok = x]
<1>1. known \in BOOLEAN
  OBVIOUS
<1>2. PICK funded \in BOOLEAN : funded = tx[c].flag
  OBVIOUS
<1> HIDE DEF known
<1>3. /\ Fine(b, m, u)
      /\ ~Applies(w, j, known, tx[c].flag) => Kept(w, u)
      /\ Applies(w, j, known, tx[c].flag) => u.src.next = w.src.next + 1
  BY <1>1, <1>2, JobFine
<1> HIDE DEF u
<1>4. u \in World(m)
  BY <1>3, SinceFields DEF Fine
<1>5. ApplyNext(w, j, c, strict) = v
  BY <1>4 DEF ApplyNext, u, known, World
<1>6. x \in BOOLEAN /\ (strict \/ x)
  OBVIOUS
<1> HIDE DEF x
<1>7. Fine(b, m, v) /\ Kept(u, v) /\ v.src = u.src /\ v.ok = x
  BY <1>3, <1>6, OkFine
<1> HIDE DEF v
<1>8. Kept(w, u) => Kept(w, v)
  BY <1>7, KeptTrans
<1> QED BY <1>3, <1>5, <1>6, <1>7, <1>8 DEF known

LEMMA NextFine ==
  ASSUME source \in SourceRow, NEW m \in Nat, NEW b, NEW w, Fine(b, m, w),
         NEW c, tx[c].flag \in BOOLEAN, NEW strict \in BOOLEAN, strict \/ w.ok,
         NEW j, Loaded(b, j), Len(b.rows) \in Nat
  PROVE  /\ Fine(b, m, ApplyNext(w, j, c, strict)) /\ (strict \/ ApplyNext(w, j, c, strict).ok)
         /\ \/ Kept(w, ApplyNext(w, j, c, strict))
            \/ /\ w.src.next # None /\ w.src.emi /\ (IsDebt => tx[c].flag)
               /\ ApplyNext(w, j, c, strict).src.next = w.src.next + 1
         /\ w.ok /\ Applies(w, j, w.rows[j].key \in w.paid, tx[c].flag) =>
              ApplyNext(w, j, c, strict).src.next = w.src.next + 1
<1>1. CASE strict /\ ~w.ok
  BY <1>1 DEF ApplyNext, Kept
<1>2. CASE w.ok
  <2> DEFINE v == ApplyNext(w, j, c, strict)
             moves == Applies(w, j, w.rows[j].key \in w.paid, tx[c].flag)
  <2>1. /\ Fine(b, m, v) /\ (strict \/ v.ok)
        /\ ~moves => Kept(w, v)
        /\ moves => v.src.next = w.src.next + 1
    BY <1>2, StepFine
  <2>2. moves => w.src.next # None /\ w.src.emi /\ (IsDebt => tx[c].flag)
    BY DEF Applies
  <2> HIDE DEF v, moves
  <2> QED BY <2>1, <2>2 DEF v, moves
<1> QED BY <1>1, <1>2

\* The whole loop: it keeps what each job keeps, and whether it moves the date depends
\* on what the session read alone.
LEMMA EachFine ==
  ASSUME source \in SourceRow, NEW m \in Nat, NEW b, NEW w, Fine(b, m, w), w.ok,
         NEW c, tx[c].flag \in BOOLEAN, NEW strict \in BOOLEAN,
         DOMAIN b.seen \in SUBSET (1..Len(b.rows)), Len(b.rows) \in Nat
  PROVE  /\ Fine(b, m, ApplyEach(w, c, strict))
         /\ \/ w.src.next = None \/ ~w.src.emi \/ (IsDebt /\ ~tx[c].flag)
            \/ DOMAIN b.seen = {}
            => Kept(w, ApplyEach(w, c, strict))
         /\ DOMAIN b.seen # {}
            /\ (\A j \in DOMAIN b.seen : Applies(w, j, w.rows[j].key \in w.paid, tx[c].flag))
            => ApplyEach(w, c, strict).src.next # w.src.next
<1> DEFINE still == w.src.next = None \/ ~w.src.emi \/ (IsDebt /\ ~tx[c].flag)
           v == ApplyEach(w, c, strict)
           apply == \A j \in DOMAIN b.seen : Applies(w, j, w.rows[j].key \in w.paid, tx[c].flag)
           n == Len(b.rows)
           P(u) == Fine(b, m, u) /\ (strict \/ u.ok)
           S == {u \in World(m) : P(u)}
           Still == {u \in S : Kept(w, u)}
           Moved == {u \in S : u = w \/ (u.src.next \in Nat /\ w.src.next < u.src.next)}
<1>1. /\ w \in World(m) /\ w.src \in SourceRow /\ DOMAIN w.seen = DOMAIN b.seen
      /\ DOMAIN w.seen \in SUBSET (1..n)
  BY SinceFields DEF Fine
<1>2. \A j \in DOMAIN w.seen : Loaded(b, j)
  BY <1>1 DEF Loaded
<1>3. \A u : Fine(b, m, u) => u \in World(m)
  BY SinceFields DEF Fine
<1>4. ASSUME NEW u \in S, NEW j \in DOMAIN w.seen
      PROVE  /\ ApplyNext(u, j, c, strict) \in S
             /\ \/ Kept(u, ApplyNext(u, j, c, strict))
                \/ /\ u.src.next # None /\ u.src.emi /\ (IsDebt => tx[c].flag)
                   /\ ApplyNext(u, j, c, strict).src.next = u.src.next + 1
             /\ u.ok /\ Applies(u, j, u.rows[j].key \in u.paid, tx[c].flag) =>
                  ApplyNext(u, j, c, strict).src.next = u.src.next + 1
  <2>1. Fine(b, m, u) /\ (strict \/ u.ok) /\ Loaded(b, j)
    BY <1>2
  <2>2. /\ Fine(b, m, ApplyNext(u, j, c, strict)) /\ (strict \/ ApplyNext(u, j, c, strict).ok)
        /\ \/ Kept(u, ApplyNext(u, j, c, strict))
           \/ /\ u.src.next # None /\ u.src.emi /\ (IsDebt => tx[c].flag)
              /\ ApplyNext(u, j, c, strict).src.next = u.src.next + 1
        /\ u.ok /\ Applies(u, j, u.rows[j].key \in u.paid, tx[c].flag) =>
             ApplyNext(u, j, c, strict).src.next = u.src.next + 1
    BY <2>1, NextFine
  <2> QED BY <1>3, <2>2
<1>5. w \in S
  BY <1>1
<1> HIDE DEF S, P
<1>6. v \in S
  BY <1>1, <1>4, <1>5, EachKeeps
<1>7. ASSUME still \/ DOMAIN b.seen = {} PROVE Kept(w, v)
  <2>1. CASE DOMAIN b.seen = {}
    <3>1. v = w
      BY <1>1, <1>4, <1>5, <2>1, EachKeeps
    <3> QED BY <3>1 DEF Kept
  <2>2. CASE still
    <3>1. w \in Still
      BY <1>5 DEF Kept
    <3>2. ASSUME NEW u \in Still, NEW j \in DOMAIN w.seen
          PROVE  ApplyNext(u, j, c, strict) \in Still
      <4>1. u.src.next = w.src.next /\ u.src.emi = w.src.emi /\ u \in S /\ Kept(w, u)
        BY DEF Kept
      <4>2. ApplyNext(u, j, c, strict) \in S /\ Kept(u, ApplyNext(u, j, c, strict))
        BY <1>4, <2>2, <4>1
      <4> QED BY <4>1, <4>2, KeptTrans
    <3> HIDE DEF Still
    <3>3. v \in Still
      BY <1>1, <3>1, <3>2, EachKeeps
    <3> QED BY <3>3 DEF Still
  <2> QED BY <1>7, <2>1, <2>2
<1>8. ASSUME DOMAIN b.seen # {}, apply PROVE v.src.next # w.src.next
  <2>1. w \in Moved
    BY <1>5
  <2>2. PICK j0 : j0 \in DOMAIN b.seen
    BY <1>8
  <2>3. w.src.next \in Nat
    BY <1>1, <1>8, <2>2 DEF Applies, SourceRow
  <2>4. ASSUME NEW u \in Moved, NEW j \in DOMAIN w.seen
        PROVE  LET x == ApplyNext(u, j, c, strict).src.next IN x \in Nat /\ w.src.next < x
    <3>1. CASE u = w
      <4>1. Applies(w, j, w.rows[j].key \in w.paid, tx[c].flag)
        BY <1>1, <1>8
      <4>2. ApplyNext(u, j, c, strict).src.next = w.src.next + 1
        BY <1>4, <1>5, <3>1, <4>1
      <4> QED BY <2>3, <4>2
    <3>2. CASE u.src.next \in Nat /\ w.src.next < u.src.next
      <4>1. ApplyNext(u, j, c, strict).src.next \in {u.src.next, u.src.next + 1}
        BY <1>4 DEF Kept
      <4> QED BY <2>3, <3>2, <4>1
    <3> QED BY <3>1, <3>2
  <2>5. ASSUME NEW u \in Moved, NEW j \in DOMAIN w.seen
        PROVE  ApplyNext(u, j, c, strict) \in Moved
    BY <1>4, <2>4
  <2> HIDE DEF Moved
  <2>6. DOMAIN w.seen # {}
    BY <1>1, <1>8
  <2>7. PICK u \in Moved, j \in DOMAIN w.seen : v = ApplyNext(u, j, c, strict)
    BY <1>1, <2>1, <2>5, <2>6, EachKeeps, SMTT(30)
  <2> QED BY <2>3, <2>4, <2>7
<1> QED BY <1>6, <1>7, <1>8 DEF S, P

-----------------------------------------------------------------------------
(* What each request does to the world it begins with.  `moves` is read off *)
(* what the session has loaded: when it is FALSE no event is added, and no  *)
(* job either of an income or expense whose date has one; when it is TRUE   *)
(* the source's date changes, whatever its statements see.                  *)

Quiet(w, v) ==
  /\ v.events = w.events
  /\ ~IsDebt /\ Placed(w) => /\ Len(v.rows) = Len(w.rows)
                             /\ v.src.next = w.src.next \/ v.src.next = None

Result(w, m, moves, v) ==
  /\ Fine(w, m, v)
  /\ ~moves => Quiet(w, v)
  /\ moves => v.src.next # w.src.next

\* The world of a session that has loaded its source and jobs.
Ready(c, m, w) ==
  /\ Since(w, m, w) /\ w.ok /\ w.src = tx[c].src /\ w.seen = tx[c].seen
  /\ w.src.next # None => w.src.next <= LastDate
  /\ DOMAIN w.seen \in SUBSET (1..Len(w.rows))
  /\ source \in SourceRow
  /\ tx[c].flag \in BOOLEAN /\ tx[c].known \in BOOLEAN /\ tx[c].date \in Dates \cup {None}

LEMMA ReadyFacts ==
  ASSUME NEW c, NEW m \in Nat, NEW w, Ready(c, m, w)
  PROVE  /\ Fine(w, m, w) /\ Len(w.rows) \in Nat /\ w.src \in SourceRow /\ w \in World(m)
         /\ \A j \in DOMAIN w.seen : Loaded(w, j)
         /\ w.src.next \in (Nat \ {0}) \cup {None}
         /\ \A x : Later(w.src.next, x)
<1>1. Since(w, m, w)
  BY DEF Ready
<1>2. Len(w.rows) \in Nat /\ w.src \in SourceRow /\ w \in World(m)
  BY <1>1, SinceFields
<1> QED BY <1>1, <1>2 DEF Ready, Fine, Loaded, SourceRow, Later

LEMMA KeptQuiet ==
  ASSUME NEW w, NEW v, Kept(w, v)
  PROVE  Quiet(w, v)
BY DEF Kept, Quiet

LEMMA RaisedResult ==
  ASSUME NEW c, NEW m \in Nat, NEW w, Ready(c, m, w)
  PROVE  Result(w, m, FALSE, Raised(w))
BY ReadyFacts, RaisedFine, KeptQuiet DEF Result

LEMMA SameResult ==
  ASSUME NEW c, NEW m \in Nat, NEW w, Ready(c, m, w)
  PROVE  Result(w, m, FALSE, w)
<1>1. Kept(w, w)
  BY DEF Kept
<1> QED BY <1>1, ReadyFacts, KeptQuiet DEF Result

LEMMA NextMoved ==
  ASSUME NEW c, NEW m \in Nat, NEW w, Ready(c, m, w), w.src.next # None
  PROVE  w.src.next + 1 # w.src.next
<1>1. w.src.next \in Nat \ {0}
  BY ReadyFacts
<1> QED BY <1>1, Onward

LEMMA AcceptResult ==
  ASSUME NEW c, NEW m \in Nat, NEW w, Ready(c, m, w), NEW j \in DOMAIN w.seen
  PROVE  Result(w, m, Applies(w, j, tx[c].known, tx[c].flag), Accept(w, j, c))
<1> DEFINE v == ApplyJob(w, j, tx[c].known, tx[c].flag)
           moves == Applies(w, j, tx[c].known, tx[c].flag)
<1>1. /\ Fine(w, m, w) /\ w.ok /\ source \in SourceRow /\ Loaded(w, j) /\ Len(w.rows) \in Nat
      /\ tx[c].known \in BOOLEAN /\ tx[c].flag \in BOOLEAN
  BY ReadyFacts DEF Ready
<1>2. Fine(w, m, v) /\ (~moves => Kept(w, v)) /\ (moves => v.src.next = w.src.next + 1)
  BY <1>1, JobFine
<1>3. moves => w.src.next # None
  BY DEF Applies
<1> HIDE DEF v, moves
<1>4. moves => v.src.next # w.src.next
  BY <1>2, <1>3, NextMoved
<1> QED BY <1>2, <1>4, KeptQuiet DEF Result, Accept, v, moves

\* An income or an expense moves on and its job is marked, in either order.
LEMMA MoveOnResult ==
  ASSUME NEW c, NEW m \in Nat, NEW w, Ready(c, m, w), NEW j \in DOMAIN w.seen, NEW s \in Statuses
  PROVE  /\ Result(w, m, w.src.next # None, Mark(Advance(w), j, s))
         /\ Result(w, m, w.src.next # None, Advance(Mark(w, j, s)))
<1>1. /\ Fine(w, m, w) /\ w.ok /\ source \in SourceRow /\ Loaded(w, j) /\ Len(w.rows) \in Nat
  BY ReadyFacts DEF Ready
<1>2. Result(w, m, w.src.next # None, Mark(Advance(w), j, s))
  <2> DEFINE v == Mark(Advance(w), j, s)
  <2>1. /\ Fine(w, m, v)
        /\ w.src.next = None => Kept(w, v)
        /\ w.src.next # None => v.src.next = w.src.next + 1
    BY <1>1, FlowFine
  <2> HIDE DEF v
  <2> QED BY <2>1, NextMoved, KeptQuiet DEF Result, v
<1>3. Result(w, m, w.src.next # None, Advance(Mark(w, j, s)))
  <2> DEFINE u == Mark(w, j, s)
             v == Advance(u)
  <2>1. Fine(w, m, u) /\ Marks(w, u)
    BY <1>1, MarkOf
  <2> HIDE DEF u
  <2>2. u.src = w.src /\ u.ok /\ Kept(w, u)
    BY <1>1, <2>1 DEF Marks
  <2>3. /\ Fine(w, m, v)
        /\ u.src.next = None => v = u
        /\ u.src.next # None => v.src.next = u.src.next + 1
    BY <1>1, <2>1, <2>2, AdvanceFine
  <2> HIDE DEF v
  <2> QED BY <2>2, <2>3, NextMoved, KeptQuiet DEF Result, v, u
<1> QED BY <1>2, <1>3

\* An EMI is paid, and its job marked.
LEMMA PayResult ==
  ASSUME NEW c, NEW m \in Nat, NEW w, Ready(c, m, w), NEW j \in DOMAIN w.seen, IsDebt
  PROVE  LET v == Mark(ApplyEmi(w, j, tx[c].known), j, "APPLIED")
             moves == w.src.next # None /\ ~tx[c].known
         IN  Result(w, m, moves, v) /\ (~moves => Kept(w, v))
<1> DEFINE u == ApplyEmi(w, j, tx[c].known)
           v == Mark(u, j, "APPLIED")
           moves == w.src.next # None /\ ~tx[c].known
<1>1. /\ Fine(w, m, w) /\ w.ok /\ source \in SourceRow /\ Loaded(w, j) /\ Len(w.rows) \in Nat
      /\ tx[c].known \in BOOLEAN /\ "APPLIED" \in Statuses
  BY ReadyFacts DEF Ready, Statuses
<1>2. Fine(w, m, u) /\ (~moves => Kept(w, u)) /\ (moves => u.src.next = w.src.next + 1)
  BY <1>1, EmiFine
<1> HIDE DEF u
<1>3. Fine(w, m, v) /\ Marks(u, v)
  BY <1>1, <1>2, MarkOf
<1> HIDE DEF v
<1>4. ~moves => Kept(w, v)
  BY <1>2, <1>3, KeptTrans DEF Marks
<1>5. moves => v.src.next # w.src.next
  BY <1>2, <1>3, NextMoved DEF Marks
<1> HIDE DEF moves
<1>6. Result(w, m, moves, v)
  BY <1>3, <1>4, <1>5, KeptQuiet DEF Result
<1> QED BY <1>4, <1>6 DEF v, u, moves

Live(w, j) == w.seen[j] # "APPLIED" /\ w.src.next # None

LEMMA AppliedResult ==
  ASSUME NEW c, NEW m \in Nat, NEW w, Ready(c, m, w), NEW j, NEW moves,
         w.seen[j] = "APPLIED", moves => Live(w, j)
  PROVE  Result(w, m, moves, w)
<1>1. ~moves
  BY DEF Live
<1> QED BY <1>1, SameResult DEF Result

LEMMA AdjustResult ==
  ASSUME NEW c, NEW m \in Nat, NEW w, Ready(c, m, w), NEW j \in DOMAIN w.seen
  PROVE  Result(w, m, Live(w, j) /\ (IsDebt => ~tx[c].known /\ tx[c].flag), Adjust(w, j, c))
<1> DEFINE moves == Live(w, j) /\ (IsDebt => ~tx[c].known /\ tx[c].flag)
<1>1. CASE w.seen[j] = "APPLIED"
  BY <1>1, AppliedResult DEF Adjust
<1>2. CASE w.seen[j] # "APPLIED" /\ ~IsDebt
  <2>1. CASE w.src.next = None
    <3>1. Adjust(w, j, c) = Raised(w) /\ ~moves
      BY <1>2, <2>1 DEF Adjust, AdjustFlow, Live
    <3> QED BY <3>1, RaisedResult DEF Result
  <2>2. CASE w.src.next # None
    <3>1. Adjust(w, j, c) = Mark(Advance(w), j, "APPLIED") /\ moves
      BY <1>2, <2>2 DEF Adjust, AdjustFlow, Live
    <3>2. "APPLIED" \in Statuses
      BY DEF Statuses
    <3>3. Result(w, m, w.src.next # None, Mark(Advance(w), j, "APPLIED"))
      BY <3>2, MoveOnResult
    <3> QED BY <2>2, <3>1, <3>3 DEF Result
  <2> QED BY <2>1, <2>2
<1>3. CASE w.seen[j] # "APPLIED" /\ IsDebt /\ ~tx[c].known /\ ~tx[c].flag
  <2>1. Adjust(w, j, c) = Raised(w) /\ ~moves
    BY <1>3 DEF Adjust, AdjustEmi
  <2> QED BY <2>1, RaisedResult DEF Result
<1>4. CASE w.seen[j] # "APPLIED" /\ IsDebt /\ ~(~tx[c].known /\ ~tx[c].flag)
  <2> DEFINE u == Mark(ApplyEmi(w, j, tx[c].known), j, "APPLIED")
             pays == w.src.next # None /\ ~tx[c].known
  <2>1. Adjust(w, j, c) = Replace(u) /\ (moves <=> pays)
    BY <1>4 DEF Adjust, AdjustEmi, Live
  <2>2. Result(w, m, pays, u) /\ (~pays => Kept(w, u))
    BY <1>4, PayResult
  <2> HIDE DEF u, pays
  <2>3. source \in SourceRow /\ Fine(w, m, u)
    BY <2>2 DEF Ready, Result
  <2>4. Fine(w, m, Replace(u)) /\ Steady(u, Replace(u))
    BY <1>4, <2>3, ReplaceFine
  <2>5. ~pays => Quiet(w, Replace(u))
    BY <1>4, <2>2, <2>4 DEF Quiet, Kept, Steady
  <2>6. pays => Replace(u).src.next # w.src.next
    BY <2>2, <2>4 DEF Result, Steady
  <2> QED BY <2>1, <2>4, <2>5, <2>6 DEF Result
<1> QED BY <1>1, <1>2, <1>3, <1>4

LEMMA EmiIfActiveResult ==
  ASSUME NEW c, NEW m \in Nat, NEW w, Ready(c, m, w), NEW j \in DOMAIN w.seen, IsDebt
  PROVE  Result(w, m, w.src.next # None /\ ~tx[c].known /\ w.src.emi, EmiIfActive(w, j, c))
<1>1. CASE w.src.emi
  <2>1. Result(w, m, w.src.next # None /\ ~tx[c].known,
               Mark(ApplyEmi(w, j, tx[c].known), j, "APPLIED"))
    BY PayResult
  <2> QED BY <1>1, <2>1 DEF EmiIfActive, Result
<1>2. CASE ~w.src.emi
  <2>1. Result(w, m, FALSE, Raised(w))
    BY RaisedResult
  <2> QED BY <1>2, <2>1 DEF EmiIfActive, Result
<1> QED BY <1>1, <1>2

LEMMA KindFacts ==
  ASSUME kind \in Kinds
  PROVE  /\ kind = "income" \/ kind = "expense" \/ kind = "debt"
         /\ IsDebt <=> kind = "debt"
BY JobsAssumption DEF IsDebt

LEMMA SplitsResult ==
  ASSUME NEW c, NEW m \in Nat, NEW w, Ready(c, m, w), NEW j \in DOMAIN w.seen, kind \in Kinds
  PROVE  Result(w, m, Live(w, j) /\ tx[c].flag /\ (IsDebt => ~tx[c].known /\ w.src.emi),
                AcceptWithSplits(w, j, c))
<1> DEFINE moves == Live(w, j) /\ tx[c].flag /\ (IsDebt => ~tx[c].known /\ w.src.emi)
<1>0. "APPLIED" \in Statuses
  BY DEF Statuses
<1>1. CASE w.seen[j] = "APPLIED"
  BY <1>1, AppliedResult DEF AcceptWithSplits
<1>2. CASE w.seen[j] # "APPLIED" /\ ~tx[c].flag
  <2>1. AcceptWithSplits(w, j, c) = Raised(w) /\ ~moves
    BY <1>2 DEF AcceptWithSplits
  <2> QED BY <2>1, RaisedResult DEF Result
<1>3. CASE w.seen[j] # "APPLIED" /\ tx[c].flag /\ kind = "income"
  <2>1. AcceptWithSplits(w, j, c) = Advance(Mark(w, j, "APPLIED")) /\ (moves <=> w.src.next # None)
    BY <1>3 DEF AcceptWithSplits, Live, IsDebt
  <2>2. Result(w, m, w.src.next # None, Advance(Mark(w, j, "APPLIED")))
    BY <1>0, MoveOnResult
  <2> QED BY <2>1, <2>2 DEF Result
<1>4. CASE w.seen[j] # "APPLIED" /\ tx[c].flag /\ kind = "expense"
  <2>1. AcceptWithSplits(w, j, c) = Mark(Advance(w), j, "APPLIED") /\ (moves <=> w.src.next # None)
    BY <1>4 DEF AcceptWithSplits, PaidFromSources, Live, IsDebt
  <2>2. Result(w, m, w.src.next # None, Mark(Advance(w), j, "APPLIED"))
    BY <1>0, MoveOnResult
  <2> QED BY <2>1, <2>2 DEF Result
<1>5. CASE w.seen[j] # "APPLIED" /\ tx[c].flag /\ kind = "debt"
  <2> DEFINE pays == w.src.next # None /\ ~tx[c].known /\ w.src.emi
  <2>1. AcceptWithSplits(w, j, c) = EmiIfActive(w, j, c) /\ (moves <=> pays)
    BY <1>5 DEF AcceptWithSplits, Live, IsDebt
  <2>2. Result(w, m, pays, EmiIfActive(w, j, c))
    BY <1>5, KindFacts, EmiIfActiveResult
  <2> QED BY <2>1, <2>2 DEF Result
<1> QED BY <1>1, <1>2, <1>3, <1>4, <1>5, KindFacts

LEMMA ExternalResult ==
  ASSUME NEW c, NEW m \in Nat, NEW w, Ready(c, m, w), NEW j \in DOMAIN w.seen, kind \in Kinds
  PROVE  Result(w, m, Live(w, j) /\ (IsDebt => ~tx[c].known /\ w.src.emi), PaidExternally(w, j, c))
<1> DEFINE moves == Live(w, j) /\ (IsDebt => ~tx[c].known /\ w.src.emi)
<1>0. "SKIPPED" \in Statuses
  BY DEF Statuses
<1>1. CASE w.seen[j] = "APPLIED"
  BY <1>1, AppliedResult DEF PaidExternally
<1>2. CASE w.seen[j] # "APPLIED" /\ kind = "income"
  <2>1. PaidExternally(w, j, c) = Advance(Mark(w, j, "SKIPPED")) /\ (moves <=> w.src.next # None)
    BY <1>2 DEF PaidExternally, Live, IsDebt
  <2>2. Result(w, m, w.src.next # None, Advance(Mark(w, j, "SKIPPED")))
    BY <1>0, MoveOnResult
  <2> QED BY <2>1, <2>2 DEF Result
<1>3. CASE w.seen[j] # "APPLIED" /\ kind = "expense"
  <2>1. PaidExternally(w, j, c) = Mark(Advance(w), j, "SKIPPED") /\ (moves <=> w.src.next # None)
    BY <1>3 DEF PaidExternally, PaidByOthers, Live, IsDebt
  <2>2. Result(w, m, w.src.next # None, Mark(Advance(w), j, "SKIPPED"))
    BY <1>0, MoveOnResult
  <2> QED BY <2>1, <2>2 DEF Result
<1>4. CASE w.seen[j] # "APPLIED" /\ kind = "debt"
  <2> DEFINE pays == w.src.next # None /\ ~tx[c].known /\ w.src.emi
  <2>1. PaidExternally(w, j, c) = EmiIfActive(w, j, c) /\ (moves <=> pays)
    BY <1>4 DEF PaidExternally, Live, IsDebt
  <2>2. Result(w, m, pays, EmiIfActive(w, j, c))
    BY <1>4, KindFacts, EmiIfActiveResult
  <2> QED BY <2>1, <2>2 DEF Result
<1> QED BY <1>1, <1>2, <1>3, <1>4, KindFacts

LEMMA SkipResult ==
  ASSUME NEW c, NEW m \in Nat, NEW w, Ready(c, m, w), NEW j \in DOMAIN w.seen
  PROVE  Result(w, m, w.src.next # None, Skip(w, j, c))
<1> DEFINE u == Mark(w, j, "SKIPPED")
           x == IF IsDebt /\ tx[c].flag THEN AddDefault(u) ELSE u
           v == Advance(x)
<1>1. /\ Fine(w, m, w) /\ w.ok /\ source \in SourceRow /\ Loaded(w, j) /\ Len(w.rows) \in Nat
      /\ "SKIPPED" \in Statuses
  BY ReadyFacts DEF Ready, Statuses
<1>2. Fine(w, m, u) /\ Marks(w, u)
  BY <1>1, MarkOf
<1>3. Skip(w, j, c) = v
  BY DEF Skip
<1> HIDE DEF u
<1>4. /\ Fine(w, m, x) /\ x.src = w.src /\ x.events = w.events
      /\ ~IsDebt => x.ok /\ Kept(w, x)
  <2>1. CASE IsDebt /\ tx[c].flag
    <3>1. Fine(w, m, AddDefault(u)) /\ AddDefault(u).src = u.src /\ AddDefault(u).events = u.events
      BY <1>1, <1>2, <2>1, AddDefaultFine
    <3> QED BY <1>2, <2>1, <3>1 DEF Marks, Kept
  <2>2. CASE ~(IsDebt /\ tx[c].flag)
    BY <1>1, <1>2, <2>2 DEF Marks, Kept
  <2> QED BY <2>1, <2>2
<1> HIDE DEF x
<1>5. /\ Fine(w, m, v) /\ v.events = x.events
      /\ x.src.next = None => v = x
      /\ x.src.next # None => v.src.next = x.src.next + 1
  BY <1>1, <1>4, AdvanceFine
<1> HIDE DEF v
<1>6. w.src.next = None => Quiet(w, v)
  BY <1>4, <1>5 DEF Quiet, Kept
<1> QED BY <1>3, <1>4, <1>5, <1>6, NextMoved DEF Result

LEMMA Grow ==
  ASSUME NEW c, NEW m \in Nat, NEW w, Ready(c, m, w)
  PROVE  m + 1 \in Nat /\ Ready(c, m + 1, w)
<1>1. \A r \in JobRow(m) : r \in JobRow(m + 1)
  BY DEF JobRow
<1>2. /\ w \in World(m) /\ w.rows \in Seq(JobRow(m))
  BY ReadyFacts, WorldFields
<1>3. w.rows \in Seq(JobRow(m + 1))
  BY <1>1, <1>2, SeqMonotonic
<1>4. w \in World(m + 1)
  BY <1>2, <1>3 DEF World
<1>5. Since(w, m, w)
  BY DEF Ready
<1>6. Since(w, m + 1, w)
  BY <1>4, <1>5 DEF Since
<1> QED BY <1>6 DEF Ready

LEMMA DeclineResult ==
  ASSUME NEW c, NEW m \in Nat, NEW w, Ready(c, m, w), NEW j \in DOMAIN w.seen
  PROVE  Result(w, m + 1, FALSE, DeclineDelay(w, j, c))
<1> DEFINE n == m + 1
           row == [w.rows[j] EXCEPT !.tries = w.rows[j].tries + 1]
           u == [w EXCEPT !.rows = [w.rows EXCEPT ![j] = row]]
           x == Mark(u, j, "SKIPPED")
<1>1. n \in Nat /\ Ready(c, n, w)
  BY Grow
<1>2. /\ w.rows[j] \in JobRow(m) /\ Loaded(w, j) /\ w \in World(m)
      /\ j \in 1..Len(w.rows) /\ DOMAIN w.rows = 1..Len(w.rows)
  BY ReadyFacts, LoadedIn, WorldFields
<1>3. row \in JobRow(n) /\ row.key = w.rows[j].key /\ row.due = w.rows[j].due
  BY <1>2 DEF JobRow
<1> HIDE DEF n
<1>4. /\ Fine(w, n, w) /\ Len(w.rows) \in Nat /\ source \in SourceRow
      /\ {"SKIPPED", "DELAYED"} \subseteq Statuses
  BY <1>1, ReadyFacts DEF Ready, Statuses
<1>5. Reached(row.due, w.src.next)
  BY <1>2, <1>3, <1>4 DEF Fine, Since, Bounded
<1>6. [w EXCEPT !.rows[j].tries = @ + 1] = u
  BY <1>2 DEF World, JobRow
<1> HIDE DEF row
<1>7. Fine(w, n, u) /\ Marks(w, u)
  BY <1>1, <1>2, <1>3, <1>4, <1>5, RowFine
<1>8. DeclineDelay(w, j, c) \in
        {Mark(u, j, "DELAYED"), x} \cup (IF IsDebt THEN {AddDefault(x)} ELSE {})
  BY <1>6 DEF DeclineDelay
<1> HIDE DEF u
<1>9. ASSUME NEW s \in Statuses
      PROVE  Fine(w, n, Mark(u, j, s)) /\ Kept(w, Mark(u, j, s))
  <2>1. Fine(w, n, Mark(u, j, s)) /\ Marks(u, Mark(u, j, s))
    BY <1>1, <1>2, <1>4, <1>7, MarkOf
  <2> QED BY <1>7, <2>1, KeptTrans DEF Marks
<1>10. \A s \in Statuses : Result(w, n, FALSE, Mark(u, j, s))
  BY <1>9, KeptQuiet DEF Result
<1>11. ASSUME IsDebt PROVE Result(w, n, FALSE, AddDefault(x))
  <2>1. Fine(w, n, x) /\ Kept(w, x)
    BY <1>4, <1>9
  <2> HIDE DEF x
  <2>2. Fine(w, n, AddDefault(x)) /\ AddDefault(x).events = x.events
    BY <1>1, <1>4, <1>11, <2>1, AddDefaultFine
  <2> QED BY <1>11, <2>1, <2>2 DEF Result, Quiet, Kept
<1>12. Result(w, n, FALSE, x) /\ Result(w, n, FALSE, Mark(u, j, "DELAYED"))
  BY <1>4, <1>10
<1> HIDE DEF x
<1> QED BY <1>8, <1>11, <1>12 DEF n

\* The source loses its date and its pending jobs.
LEMMA EndResult ==
  ASSUME NEW c, NEW m \in Nat, NEW w, Ready(c, m, w), NEW u, Fine(w, m, u), Marks(w, u),
         NEW s \in SourceRow, s.span = w.src.span, s.confirm = w.src.confirm, s.next = None,
         NEW v, v = [u EXCEPT !.src = s]
  PROVE  Result(w, m, FALSE, CancelPending(v))
<1>1. u.src = w.src /\ Kept(w, u)
  BY DEF Marks
<1>2. Later(u.src.next, s.next)
  BY <1>1, ReadyFacts
<1>3. Fine(w, m, v) /\ v.src = s /\ v.rows = u.rows /\ v.events = u.events
  BY <1>1, <1>2, SourceFine
<1>4. Fine(w, m, CancelPending(v)) /\ Marks(v, CancelPending(v))
  BY <1>3, CancelFine
<1>5. Quiet(w, CancelPending(v))
  BY <1>1, <1>3, <1>4 DEF Marks, Kept, Quiet
<1> QED BY <1>4, <1>5 DEF Result

LEMMA RemoveResult ==
  ASSUME NEW c, NEW m \in Nat, NEW w, Ready(c, m, w), NEW j \in DOMAIN w.seen
  PROVE  Result(w, m, FALSE, RemoveRecurring(w, j, c))
<1> DEFINE u == Mark(w, j, "CANCELLED")
           s == [u.src EXCEPT !.next = None, !.emi = ~IsDebt]
           v == [u EXCEPT !.src = s]
<1>1. /\ Fine(w, m, w) /\ Loaded(w, j) /\ Len(w.rows) \in Nat /\ "CANCELLED" \in Statuses
      /\ w.src \in SourceRow
  BY ReadyFacts DEF Statuses
<1>2. Fine(w, m, u) /\ Marks(w, u)
  BY <1>1, MarkOf
<1> HIDE DEF u
<1>3. u \in World(m) /\ u.src = w.src
  BY <1>2, SinceFields DEF Fine, Marks
<1>4. RemoveRecurring(w, j, c) = CancelPending(v)
  <2>1. [u EXCEPT !.src.next = None, !.src.emi = ~IsDebt] = v
    BY <1>1, <1>3 DEF World, SourceRow
  <2> QED BY <2>1 DEF RemoveRecurring, u
<1>5. s \in SourceRow /\ s.span = w.src.span /\ s.confirm = w.src.confirm /\ s.next = None
  BY <1>1, <1>3 DEF SourceRow
<1> HIDE DEF s
<1>6. v = [u EXCEPT !.src = s]
  OBVIOUS
<1> HIDE DEF v
<1> QED BY <1>2, <1>4, <1>5, <1>6, EndResult

LEMMA CancelResult ==
  ASSUME NEW c, NEW m \in Nat, NEW w, Ready(c, m, w)
  PROVE  Result(w, m, FALSE, CancelSource(w, c))
<1> DEFINE s == [w.src EXCEPT !.next = None, !.emi = ~IsDebt,
                              !.status = IF IsDebt THEN "CANCELLED" ELSE w.src.status]
           v == [w EXCEPT !.src = s]
<1>1. Fine(w, m, w) /\ w.src \in SourceRow /\ w \in World(m) /\ Marks(w, w)
  BY ReadyFacts DEF Marks, Kept
<1>2. CancelSource(w, c) = CancelPending(v)
  <2>1. [w EXCEPT !.src.next = None, !.src.emi = ~IsDebt,
                  !.src.status = IF IsDebt THEN "CANCELLED" ELSE @] = v
    BY <1>1 DEF World, SourceRow
  <2> QED BY <2>1 DEF CancelSource
<1>3. s \in SourceRow /\ s.span = w.src.span /\ s.confirm = w.src.confirm /\ s.next = None
  BY <1>1 DEF SourceRow
<1> HIDE DEF s
<1>4. v = [w EXCEPT !.src = s]
  OBVIOUS
<1> HIDE DEF v
<1> QED BY <1>1, <1>2, <1>3, <1>4, EndResult

LEMMA MoveResult ==
  ASSUME NEW c, NEW m \in Nat, NEW w, Ready(c, m, w), NEW j \in DOMAIN w.seen,
         tx[c].date \in Dates
  PROVE  Result(w, m, tx[c].flag /\ w.seen[j] \in Pending /\ w.src.next # tx[c].date,
                Reschedule(w, j, c))
<1> DEFINE d == tx[c].date
           moves == tx[c].flag /\ w.seen[j] \in Pending /\ w.src.next # d
<1>1. /\ Fine(w, m, w) /\ Loaded(w, j) /\ Len(w.rows) \in Nat /\ w.ok /\ source \in SourceRow
      /\ w.src \in SourceRow /\ w \in World(m) /\ "CANCELLED" \in Statuses /\ Since(w, m, w)
  BY ReadyFacts DEF Ready, Statuses
<1>2. d \in Nat \ {0} /\ d # None /\ d <= LastDate
  BY JobsAssumption, NoneAssumption DEF Dates
<1>3. CASE w.seen[j] \notin Pending
  <2>1. Reschedule(w, j, c) = Raised(w) /\ ~moves
    BY <1>3 DEF Reschedule
  <2> QED BY <2>1, RaisedResult DEF Result
<1>4. CASE w.seen[j] \in Pending /\ tx[c].flag
  <2> DEFINE u == Mark(w, j, "CANCELLED")
             s == [u.src EXCEPT !.next = d]
             v == [u EXCEPT !.src = s]
  <2>1. Fine(w, m, u) /\ Marks(w, u)
    BY <1>1, MarkOf
  <2>2. u \in World(m) /\ u.src = w.src /\ u.ok /\ Kept(w, u)
    BY <1>1, <2>1, SinceFields DEF Fine, Marks
  <2> HIDE DEF d
  <2>3. Reschedule(w, j, c) = Replace(v)
    <3> HIDE DEF u
    <3>1. [u EXCEPT !.src.next = tx[c].date] = v
      BY <2>2 DEF World, d
    <3> QED BY <1>4, <3>1 DEF Reschedule, u
  <2> HIDE DEF u
  <2>4. s \in SourceRow /\ s.next = d /\ s.span = u.src.span /\ s.confirm = u.src.confirm
    BY <1>1, <1>2, <2>2, NextSet
  <2>5. Later(u.src.next, s.next)
    BY <2>2, ReadyFacts
  <2> HIDE DEF s
  <2>6. v = [u EXCEPT !.src = s]
    OBVIOUS
  <2> HIDE DEF v
  <2>7. /\ Fine(w, m, Replace(v)) /\ Replace(v).src = s /\ Replace(v).events = u.events
        /\ Placed(u) /\ s.next = u.src.next => Len(Replace(v).rows) = Len(u.rows)
    BY <1>1, <2>1, <2>2, <2>4, <2>5, <2>6, ShiftFine
  <2>8. Placed(w) => Placed(u)
    BY <1>1, <2>2, KeptSame
  <2>9. w.src.next = d => Quiet(w, Replace(v))
    BY <2>2, <2>4, <2>7, <2>8 DEF Quiet, Kept
  <2>10. moves <=> w.src.next # d
    BY <1>4 DEF d
  <2> QED BY <2>3, <2>4, <2>7, <2>9, <2>10 DEF Result, d
<1>5. CASE w.seen[j] \in Pending /\ ~tx[c].flag
  <2> DEFINE row == [w.rows[j] EXCEPT !.due = d]
             v == [w EXCEPT !.rows = [w.rows EXCEPT ![j] = row]]
  <2>1. j \in 1..Len(w.rows) /\ w.rows[j] \in JobRow(m) /\ DOMAIN w.rows = 1..Len(w.rows)
    BY <1>1, LoadedIn, WorldFields
  <2> HIDE DEF d
  <2>2. row \in JobRow(m) /\ row.key = w.rows[j].key /\ row.due = d
    BY <1>2, <2>1 DEF JobRow
  <2>3. Reschedule(w, j, c) = v /\ ~moves
    BY <1>1, <1>5, <2>1 DEF Reschedule, World, JobRow, d
  <2>4. Reached(row.due, w.src.next)
    BY <1>2, <2>2 DEF Reached
  <2> HIDE DEF row
  <2>5. Fine(w, m, v) /\ Marks(w, v)
    BY <1>1, <2>1, <2>2, <2>4, RowFine
  <2> HIDE DEF v
  <2>6. Quiet(w, v)
    BY <2>5, KeptQuiet DEF Marks
  <2> QED BY <2>3, <2>5, <2>6 DEF Result, d
<1> QED BY <1>3, <1>4, <1>5

LEMMA EditFlowResult ==
  ASSUME NEW c, NEW m \in Nat, NEW w, Ready(c, m, w), ~IsDebt
  PROVE  Result(w, m, tx[c].date # None /\ tx[c].date # w.src.next, EditFlow(w, c))
<1> DEFINE d == IF tx[c].date = None THEN w.src.next ELSE tx[c].date
           s == [w.src EXCEPT !.next = d]
           v == [w EXCEPT !.src = s]
           moves == tx[c].date # None /\ tx[c].date # w.src.next
<1>1. /\ Fine(w, m, w) /\ w.ok /\ source \in SourceRow /\ Len(w.rows) \in Nat
      /\ w.src \in SourceRow /\ w.src.next \in (Nat \ {0}) \cup {None}
      /\ tx[c].date \in Dates \cup {None}
  BY ReadyFacts DEF Ready
<1>2. d \in (Nat \ {0}) \cup {None}
  BY <1>1, JobsAssumption DEF Dates
<1>3. moves <=> d # w.src.next
  OBVIOUS
<1>4. EditFlow(w, c) = IF s.next = None THEN Raised(w) ELSE Replace(v)
  <2>1. s = [w.src EXCEPT !.next = IF tx[c].date = None THEN @ ELSE tx[c].date]
    BY <1>1 DEF SourceRow
  <2> QED BY <2>1 DEF EditFlow
<1> HIDE DEF d
<1>5. s \in SourceRow /\ s.next = d /\ s.span = w.src.span /\ s.confirm = w.src.confirm
  BY <1>1, <1>2, NextSet
<1> HIDE DEF s
<1>6. Later(w.src.next, s.next) /\ v = [w EXCEPT !.src = s]
  BY ReadyFacts
<1> HIDE DEF v
<1>7. /\ Fine(w, m, Replace(v)) /\ Replace(v).src = s /\ Replace(v).events = w.events
      /\ Placed(w) /\ s.next = w.src.next => Len(Replace(v).rows) = Len(w.rows)
  BY <1>1, <1>5, <1>6, ShiftFine
<1>8. Result(w, m, moves, Replace(v))
  BY <1>3, <1>5, <1>7 DEF Result, Quiet
<1>9. s.next = None => ~moves
  BY <1>5, NoneAssumption DEF d
<1>10. Result(w, m, FALSE, Raised(w))
  BY RaisedResult
<1> HIDE DEF moves
<1> QED BY <1>4, <1>8, <1>9, <1>10 DEF Result, moves

\* A debt's source changes, and the next job is asked for or not: no event is added.
LEMMA DebtResult ==
  ASSUME NEW c, NEW m \in Nat, NEW w, Ready(c, m, w), IsDebt, NEW s \in SourceRow,
         s.span = w.src.span, s.confirm = w.src.confirm, NEW v, v = [w EXCEPT !.src = s]
  PROVE  /\ Result(w, m, FALSE, Replace(v)) /\ Result(w, m, FALSE, CancelPending(v))
         /\ Result(w, m, FALSE, Replace(CheckCompletion(v)))
<1>1. Fine(w, m, w) /\ source \in SourceRow /\ Later(w.src.next, s.next)
  BY ReadyFacts DEF Ready
<1>2. Fine(w, m, v) /\ v.events = w.events
  BY <1>1, SourceFine
<1>3. Fine(w, m, CancelPending(v)) /\ Marks(v, CancelPending(v))
  BY <1>2, CancelFine
<1>4. Fine(w, m, Replace(v)) /\ Steady(v, Replace(v))
  BY <1>1, <1>2, ReplaceFine
<1> DEFINE u == CheckCompletion(v)
<1>5. Fine(w, m, u) /\ Kept(v, u)
  BY <1>2, CompletionFine
<1> HIDE DEF u
<1>6. Fine(w, m, Replace(u)) /\ Steady(u, Replace(u))
  BY <1>1, <1>5, ReplaceFine
<1> QED BY <1>2, <1>3, <1>4, <1>5, <1>6 DEF Result, Quiet, Marks, Kept, Steady, u

LEMMA EditDebtResult ==
  ASSUME NEW c, NEW m \in Nat, NEW w, Ready(c, m, w), IsDebt
  PROVE  Result(w, m, FALSE, EditDebt(w, c))
<1> DEFINE d == IF tx[c].date = None THEN w.src.next ELSE tx[c].date
           s == [w.src EXCEPT !.next = d, !.emi = tx[c].flag]
           v == [w EXCEPT !.src = s]
<1>1. /\ w.src \in SourceRow /\ w.src.next \in (Nat \ {0}) \cup {None}
      /\ tx[c].date \in Dates \cup {None} /\ tx[c].flag \in BOOLEAN
  BY ReadyFacts DEF Ready
<1>2. d \in (Nat \ {0}) \cup {None}
  BY <1>1, JobsAssumption DEF Dates
<1>3. EditDebt(w, c) = IF Active(s) THEN Replace(v) ELSE CancelPending(v)
  <2>1. s = [w.src EXCEPT !.next = IF tx[c].date = None THEN @ ELSE tx[c].date,
                          !.emi = tx[c].flag]
    BY <1>1 DEF SourceRow
  <2> QED BY <2>1 DEF EditDebt
<1> HIDE DEF d
<1>4. s \in SourceRow /\ s.span = w.src.span /\ s.confirm = w.src.confirm
  <2>1. PICK f \in BOOLEAN : f = tx[c].flag
    BY <1>1
  <2> QED BY <1>1, <1>2, <2>1 DEF SourceRow
<1> HIDE DEF s
<1>5. Result(w, m, FALSE, Replace(v)) /\ Result(w, m, FALSE, CancelPending(v))
  BY <1>4, DebtResult
<1> QED BY <1>3, <1>5

LEMMA PartPaymentResult ==
  ASSUME NEW c, NEW m \in Nat, NEW w, Ready(c, m, w), IsDebt
  PROVE  Result(w, m, FALSE, PartPayment(w, c))
<1> DEFINE left == IF tx[c].flag THEN 0 ELSE w.src.left - 1
           d == IF tx[c].flag THEN None
                ELSE IF w.src.next = None \/ tx[c].date # None THEN w.src.next ELSE w.src.next + 1
           e == w.src.emi /\ ~tx[c].flag
           s == [w.src EXCEPT !.left = left, !.emi = e, !.next = d]
           v == [w EXCEPT !.src = s]
<1>1. w.src \in SourceRow /\ w.src.next \in (Nat \ {0}) \cup {None}
  BY ReadyFacts
<1>2. PartPayment(w, c) = IF w.src.left = 0 THEN Raised(w) ELSE Replace(CheckCompletion(v))
  <2>1. s = [w.src EXCEPT !.left = left, !.emi = @ /\ ~tx[c].flag,
                          !.next = IF tx[c].flag THEN None
                                   ELSE IF w.src.next = None \/ tx[c].date # None THEN @ ELSE @ + 1]
    BY <1>1 DEF SourceRow
  <2> QED BY <2>1 DEF PartPayment
<1>3. CASE w.src.left = 0
  BY <1>2, <1>3, RaisedResult
<1>4. CASE w.src.left # 0
  <2>1. left \in 0..MaxLeft
    BY <1>1, <1>4, JobsAssumption DEF SourceRow
  <2>2. d \in (Nat \ {0}) \cup {None}
    BY <1>1
  <2>3. e \in BOOLEAN
    OBVIOUS
  <2> HIDE DEF left, d, e
  <2>4. s \in SourceRow /\ s.span = w.src.span /\ s.confirm = w.src.confirm
    BY <1>1, <2>1, <2>2, <2>3 DEF SourceRow
  <2> HIDE DEF s
  <2>5. Result(w, m, FALSE, Replace(CheckCompletion(v)))
    BY <2>4, DebtResult
  <2> QED BY <1>2, <1>4, <2>5
<1> QED BY <1>3, <1>4

LEMMA CloseResult ==
  ASSUME NEW c, NEW m \in Nat, NEW w, Ready(c, m, w)
  PROVE  Result(w, m, FALSE, CloseDefault(w, c))
<1> DEFINE n == w.bucket - 1
           v == [w EXCEPT !.bucket = n]
<1>1. Fine(w, m, w) /\ w \in World(m) /\ w.bucket \in Nat
  BY ReadyFacts, WorldFields
<1>2. CASE w.bucket = 0
  <2>1. CloseDefault(w, c) = Raised(w)
    BY <1>2 DEF CloseDefault
  <2> QED BY <2>1, RaisedResult
<1>3. CASE w.bucket # 0
  <2>1. n \in Nat
    BY <1>1, <1>3
  <2>2. CloseDefault(w, c) = CheckCompletion(v)
    BY <1>1, <1>3 DEF CloseDefault, World
  <2> HIDE DEF n
  <2>3. Fine(w, m, v) /\ Kept(w, v)
    BY <1>1, <2>1, BucketFine DEF Marks
  <2> HIDE DEF v
  <2>4. Fine(w, m, CheckCompletion(v)) /\ Kept(v, CheckCompletion(v))
    BY <2>3, CompletionFine
  <2>5. Kept(w, CheckCompletion(v))
    BY <2>3, <2>4, KeptTrans
  <2> QED BY <2>2, <2>4, <2>5, KeptQuiet DEF Result
<1> QED BY <1>2, <1>3

-----------------------------------------------------------------------------
(* The tick                                                                 *)

LEMMA FlagFine ==
  ASSUME NEW m \in Nat, NEW b, NEW w, Fine(b, m, w), NEW R,
         R = [i \in DOMAIN w.rows |-> R[i]],
         \A i \in 1..Len(w.rows) :
           \/ R[i] = w.rows[i]
           \/ \E stamped \in BOOLEAN : R[i] = Awaits(w.rows[i], stamped),
         NEW v, v = [w EXCEPT !.rows = R]
  PROVE  Fine(b, m, v) /\ Marks(w, v) /\ Kept(w, v) /\ v.seen = w.seen
<1>1. Since(b, m, w)
  BY DEF Fine
<1>2. Since(b, m, v) /\ Marks(w, v) /\ v.seen = w.seen
  BY <1>1, FlagRows
<1>3. Kept(w, v)
  BY <1>2 DEF Marks
<1> QED BY <1>2, <1>3, FineKept

LEMMA FlipFine ==
  ASSUME NEW m \in Nat, NEW b, NEW w, Fine(b, m, w), NEW ids
  PROVE  Fine(b, m, Flip(w, ids)) /\ Marks(w, Flip(w, ids)) /\ Flip(w, ids).seen = w.seen
<1> DEFINE R == [i \in DOMAIN w.rows |-> IF i \in ids THEN Awaits(w.rows[i], TRUE) ELSE w.rows[i]]
           v == [w EXCEPT !.rows = R]
<1>1. w \in World(m) /\ DOMAIN w.rows = 1..Len(w.rows)
      /\ \A i \in 1..Len(w.rows) : w.rows[i] \in JobRow(m)
  BY SinceFields DEF Fine
<1>2. \A i \in DOMAIN w.rows : [w.rows[i] EXCEPT !.status = "AWAITING", !.stamped = TRUE, !.told = TRUE]
                                 = Awaits(w.rows[i], TRUE)
  BY <1>1 DEF Awaits, JobRow
<1>3. Flip(w, ids) = v
  BY <1>1, <1>2 DEF Flip, World
<1>4. /\ R = [i \in DOMAIN w.rows |-> R[i]]
      /\ \A i \in 1..Len(w.rows) :
           \/ R[i] = w.rows[i]
           \/ \E stamped \in BOOLEAN : R[i] = Awaits(w.rows[i], stamped)
  BY <1>1
<1> HIDE DEF R
<1>5. v = [w EXCEPT !.rows = R]
  OBVIOUS
<1> HIDE DEF v
<1> QED BY <1>3, <1>4, <1>5, FlagFine

LEMMA MaterializeFine ==
  ASSUME NEW m \in Nat, NEW b, NEW w, Fine(b, m, w)
  PROVE  Fine(b, m, Materialize(w)) /\ Kept(w, Materialize(w))
<1> DEFINE R == [i \in DOMAIN w.rows |->
                   IF w.rows[i].status = "SCHEDULED" /\ w.rows[i].due <= today
                   THEN Awaits(w.rows[i], w.rows[i].stamped) ELSE w.rows[i]]
           v == [w EXCEPT !.rows = R]
<1>1. w \in World(m) /\ DOMAIN w.rows = 1..Len(w.rows)
      /\ \A i \in 1..Len(w.rows) : w.rows[i] \in JobRow(m)
  BY SinceFields DEF Fine
<1>2. \A i \in DOMAIN w.rows : /\ [w.rows[i] EXCEPT !.status = "AWAITING", !.told = TRUE]
                                    = Awaits(w.rows[i], w.rows[i].stamped)
                               /\ w.rows[i].stamped \in BOOLEAN
  BY <1>1 DEF Awaits, JobRow
<1>3. Materialize(w) = v
  BY <1>1, <1>2 DEF Materialize, World
<1>4. /\ R = [i \in DOMAIN w.rows |-> R[i]]
      /\ \A i \in 1..Len(w.rows) :
           \/ R[i] = w.rows[i]
           \/ \E stamped \in BOOLEAN : R[i] = Awaits(w.rows[i], stamped)
  BY <1>1, <1>2
<1> HIDE DEF R
<1> QED BY <1>3, <1>4, FlagFine

LEMMA RetryFine ==
  ASSUME NEW m \in Nat, NEW b, NEW w, Fine(b, m, w), NEW c
  PROVE  Fine(b, m, Retry(w, c)) /\ Kept(w, Retry(w, c))
<1> DEFINE R == [i \in DOMAIN w.rows |->
                   IF w.rows[i].status = "DELAYED" /\ tx[c].date # None
                   THEN Awaits(w.rows[i], w.rows[i].stamped) ELSE w.rows[i]]
           v == [w EXCEPT !.rows = R]
<1>1. w \in World(m) /\ DOMAIN w.rows = 1..Len(w.rows)
      /\ \A i \in 1..Len(w.rows) : w.rows[i] \in JobRow(m)
  BY SinceFields DEF Fine
<1>2. \A i \in DOMAIN w.rows : /\ [w.rows[i] EXCEPT !.status = "AWAITING", !.told = TRUE]
                                    = Awaits(w.rows[i], w.rows[i].stamped)
                               /\ w.rows[i].stamped \in BOOLEAN
  BY <1>1 DEF Awaits, JobRow
<1>3. Retry(w, c) = v
  BY <1>1, <1>2 DEF Retry, World
<1>4. /\ R = [i \in DOMAIN w.rows |-> R[i]]
      /\ \A i \in 1..Len(w.rows) :
           \/ R[i] = w.rows[i]
           \/ \E stamped \in BOOLEAN : R[i] = Awaits(w.rows[i], stamped)
  BY <1>1, <1>2
<1> HIDE DEF R
<1> QED BY <1>3, <1>4, FlagFine

\* A tick moves the date when it has a job to apply; that it does is clear at once when
\* the session has seen no event and the jobs it loaded wait to be applied.
TickMoves(t) == DOMAIN t.seen # {} /\ t.src.next # None /\ t.src.emi /\ (IsDebt => t.flag)

Awaited(seen) ==
  \A j \in DOMAIN seen : seen[j] # "APPLIED" /\ (~IsDebt => seen[j] = "AWAITING")

LEMMA TickResult ==
  ASSUME NEW c, NEW m \in Nat, NEW w, Ready(c, m, w)
  PROVE  /\ Fine(w, m, Tick(w, c))
         /\ ~TickMoves(tx[c]) => Quiet(w, Tick(w, c))
         /\ TickMoves(tx[c]) /\ w.paid = {} /\ Awaited(w.seen) => Tick(w, c).src.next # w.src.next
<1>1. /\ Fine(w, m, w) /\ w.ok /\ source \in SourceRow /\ Len(w.rows) \in Nat
      /\ DOMAIN w.seen \in SUBSET (1..Len(w.rows)) /\ tx[c].flag \in BOOLEAN
      /\ w.src = tx[c].src /\ w.seen = tx[c].seen
  BY ReadyFacts DEF Ready
<1>2. ASSUME NEW u, Fine(w, m, u), Kept(w, u), u.ok, u.seen = w.seen, NEW strict \in BOOLEAN
      PROVE  /\ Fine(w, m, ApplyEach(u, c, strict))
             /\ ~TickMoves(tx[c]) => Kept(w, ApplyEach(u, c, strict))
             /\ TickMoves(tx[c]) /\ w.paid = {} /\ Awaited(w.seen) =>
                  ApplyEach(u, c, strict).src.next # w.src.next
  <2> DEFINE v == ApplyEach(u, c, strict)
             apply == \A j \in DOMAIN w.seen : Applies(u, j, u.rows[j].key \in u.paid, tx[c].flag)
             still == u.src.next = None \/ ~u.src.emi \/ (IsDebt /\ ~tx[c].flag)
                      \/ DOMAIN w.seen = {}
  <2>1. /\ Fine(w, m, v)
        /\ still => Kept(u, v)
        /\ DOMAIN w.seen # {} /\ apply => v.src.next # u.src.next
    BY <1>1, <1>2, EachFine
  <2>2. u.src.next = w.src.next /\ u.src.emi = w.src.emi /\ u.paid = w.paid
    BY <1>2 DEF Kept
  <2>3. ~TickMoves(tx[c]) => still
    BY <1>1, <2>2 DEF TickMoves
  <2>4. TickMoves(tx[c]) /\ w.paid = {} /\ Awaited(w.seen) => DOMAIN w.seen # {} /\ apply
    BY <1>1, <1>2, <2>2 DEF TickMoves, Applies, Awaited
  <2> HIDE DEF v, apply, still
  <2>5. ~TickMoves(tx[c]) => Kept(w, v)
    BY <1>2, <2>1, <2>3, KeptTrans
  <2> QED BY <2>1, <2>2, <2>4, <2>5 DEF v
<1> DEFINE a == Flip(w, tx[c].flips)
           e == AutoAccept(a, c)
           d == Materialize(e)
           f == ApplyAuto(w, c)
           x == IF Confirmed(w.src) THEN d ELSE f
           Good(v) == /\ Fine(w, m, v)
                      /\ ~TickMoves(tx[c]) => Kept(w, v)
                      /\ TickMoves(tx[c]) /\ w.paid = {} /\ Awaited(w.seen) => v.src.next # w.src.next
<1>3. Fine(w, m, a) /\ Marks(w, a) /\ a.seen = w.seen
  BY <1>1, FlipFine
<1> HIDE DEF a
<1>4. Kept(w, a) /\ a.ok
  BY <1>1, <1>3 DEF Marks
<1>5. Good(e)
  <2>1. e = ApplyEach(a, c, FALSE)
    BY DEF AutoAccept
  <2> HIDE DEF e
  <2> QED BY <1>2, <1>3, <1>4, <2>1
<1>6. Good(f)
  <2>1. f = ApplyEach(w, c, TRUE) /\ Kept(w, w)
    BY DEF ApplyAuto, Kept
  <2> HIDE DEF f
  <2> QED BY <1>1, <1>2, <2>1
<1> HIDE DEF e, f
<1>7. ASSUME NEW u, NEW v, Good(u), Fine(w, m, v), Kept(u, v) PROVE Good(v)
  <2>1. Kept(w, u) => Kept(w, v)
    BY <1>7, KeptTrans
  <2>2. v.src.next = u.src.next
    BY <1>7 DEF Kept
  <2> QED BY <1>7, <2>1, <2>2
<1>8. Fine(w, m, d) /\ Kept(e, d)
  BY <1>5, MaterializeFine
<1> HIDE DEF d
<1>9. Good(d)
  <2> HIDE DEF Good
  <2> QED BY <1>5, <1>7, <1>8
<1>10. Good(x)
  BY <1>6, <1>9
<1>11. Tick(w, c) = Retry(x, c)
  BY DEF Tick, x, d, e, a, f
<1> HIDE DEF x
<1>12. Fine(w, m, Retry(x, c)) /\ Kept(x, Retry(x, c))
  BY <1>10, RetryFine
<1>13. Good(Retry(x, c))
  <2> HIDE DEF Good
  <2> QED BY <1>7, <1>10, <1>12
<1> QED BY <1>11, <1>13, KeptQuiet

-----------------------------------------------------------------------------
(* The outcome of a session                                                 *)

\* Whether the session moves the date, read off what it has loaded.
MovesOf(t) ==
  LET j == t.job
  IN  CASE t.op = "TICK"     -> TickMoves(t)
        [] t.op = "ACCEPT"   -> Applies(t, j, t.known, t.flag)
        [] t.op = "ADJUST"   -> Live(t, j) /\ (IsDebt => ~t.known /\ t.flag)
        [] t.op = "SPLITS"   -> Live(t, j) /\ t.flag /\ (IsDebt => ~t.known /\ t.src.emi)
        [] t.op = "EXTERNAL" -> Live(t, j) /\ (IsDebt => ~t.known /\ t.src.emi)
        [] t.op = "SKIP"     -> t.src.next # None
        [] t.op = "MOVE"     -> t.flag /\ t.seen[j] \in Pending /\ t.src.next # t.date
        [] t.op = "EDIT"     -> ~IsDebt /\ t.date # None /\ t.date # t.src.next
        [] OTHER             -> FALSE

Ops == {"TICK", "MOVE"} \cup JobOps \cup SourceOps

\* The request fits what the session has loaded.
Fits(t) ==
  /\ t.op \in Ops
  /\ t.op \in JobOps \cup {"MOVE"} => t.job \in DOMAIN t.seen
  /\ t.op = "MOVE" => t.date \in Dates
  /\ t.op \in {"PREPAY", "CLOSE"} => IsDebt
  /\ t.op = "TICK" => Awaited(t.seen)

LEMMA JobOutcome ==
  ASSUME kind \in Kinds, NEW c, NEW m \in Nat, Ready(c, m, WorldOf(c)), Fits(tx[c]),
         tx[c].op \in JobOps \cup {"MOVE"}
  PROVE  Result(WorldOf(c), m + 1, MovesOf(tx[c]), Outcome(c))
<1> DEFINE w == WorldOf(c)
           t == tx[c]
           j == t.job
           n == m + 1
<1>1. n \in Nat /\ Ready(c, n, w)
  BY Grow
<1>2. w.seen = t.seen /\ w.src = t.src
  BY DEF Ready
<1>3. j \in DOMAIN w.seen
  BY <1>2 DEF Fits
<1>4. /\ Applies(w, j, t.known, t.flag) = Applies(t, j, t.known, t.flag)
      /\ Live(w, j) = Live(t, j)
  BY <1>2 DEF Applies, Live
<1>5. CASE t.op = "ACCEPT"
  <2>1. MovesOf(t) = Applies(t, j, t.known, t.flag) /\ Outcome(c) = Accept(w, j, c)
    BY <1>5 DEF MovesOf, Outcome
  <2> HIDE DEF w, n
  <2>2. Result(w, n, Applies(w, j, t.known, t.flag), Accept(w, j, c))
    BY <1>1, <1>3, AcceptResult
  <2> QED BY <1>4, <2>1, <2>2 DEF w, n
<1>6. CASE t.op = "ADJUST"
  <2>1. /\ MovesOf(t) = (Live(t, j) /\ (IsDebt => ~t.known /\ t.flag))
        /\ Outcome(c) = Adjust(w, j, c)
    BY <1>6 DEF MovesOf, Outcome
  <2> HIDE DEF w, n
  <2>2. Result(w, n, Live(w, j) /\ (IsDebt => ~t.known /\ t.flag), Adjust(w, j, c))
    BY <1>1, <1>3, AdjustResult
  <2> QED BY <1>4, <2>1, <2>2 DEF w, n
<1>7. CASE t.op = "SPLITS"
  <2>1. /\ MovesOf(t) = (Live(t, j) /\ t.flag /\ (IsDebt => ~t.known /\ t.src.emi))
        /\ Outcome(c) = AcceptWithSplits(w, j, c)
    BY <1>7 DEF MovesOf, Outcome
  <2> HIDE DEF w, n
  <2>2. Result(w, n, Live(w, j) /\ t.flag /\ (IsDebt => ~t.known /\ w.src.emi),
               AcceptWithSplits(w, j, c))
    BY <1>1, <1>3, SplitsResult
  <2> QED BY <1>2, <1>4, <2>1, <2>2 DEF w, n
<1>8. CASE t.op = "EXTERNAL"
  <2>1. /\ MovesOf(t) = (Live(t, j) /\ (IsDebt => ~t.known /\ t.src.emi))
        /\ Outcome(c) = PaidExternally(w, j, c)
    BY <1>8 DEF MovesOf, Outcome
  <2> HIDE DEF w, n
  <2>2. Result(w, n, Live(w, j) /\ (IsDebt => ~t.known /\ w.src.emi), PaidExternally(w, j, c))
    BY <1>1, <1>3, ExternalResult
  <2> QED BY <1>2, <1>4, <2>1, <2>2 DEF w, n
<1>9. CASE t.op = "SKIP"
  <2>1. MovesOf(t) = (t.src.next # None) /\ Outcome(c) = Skip(w, j, c)
    BY <1>9 DEF MovesOf, Outcome
  <2> HIDE DEF w, n
  <2>2. Result(w, n, w.src.next # None, Skip(w, j, c))
    BY <1>1, <1>3, SkipResult
  <2> QED BY <1>2, <2>1, <2>2 DEF w, n
<1>10. CASE t.op = "DECLINE"
  <2>1. MovesOf(t) = FALSE /\ Outcome(c) = DeclineDelay(w, j, c)
    BY <1>10 DEF MovesOf, Outcome
  <2> HIDE DEF w
  <2>2. Result(w, m + 1, FALSE, DeclineDelay(w, j, c))
    BY <1>3, DeclineResult DEF w
  <2> QED BY <2>1, <2>2 DEF w
<1>11. CASE t.op = "REMOVE"
  <2>1. MovesOf(t) = FALSE /\ Outcome(c) = RemoveRecurring(w, j, c)
    BY <1>11 DEF MovesOf, Outcome
  <2> HIDE DEF w, n
  <2>2. Result(w, n, FALSE, RemoveRecurring(w, j, c))
    BY <1>1, <1>3, RemoveResult
  <2> QED BY <2>1, <2>2 DEF w, n
<1>12. CASE t.op = "MOVE"
  <2>1. /\ MovesOf(t) = (t.flag /\ t.seen[j] \in Pending /\ t.src.next # t.date)
        /\ Outcome(c) = Reschedule(w, j, c) /\ t.date \in Dates
    BY <1>12 DEF MovesOf, Outcome, Fits
  <2> HIDE DEF w, n
  <2>2. Result(w, n, t.flag /\ w.seen[j] \in Pending /\ w.src.next # t.date, Reschedule(w, j, c))
    BY <1>1, <1>3, <2>1, MoveResult
  <2> QED BY <1>2, <2>1, <2>2 DEF w, n
<1> QED BY <1>5, <1>6, <1>7, <1>8, <1>9, <1>10, <1>11, <1>12 DEF JobOps

LEMMA SourceOutcome ==
  ASSUME kind \in Kinds, NEW c, NEW m \in Nat, Ready(c, m, WorldOf(c)), Fits(tx[c]),
         tx[c].op \in SourceOps
  PROVE  Result(WorldOf(c), m, MovesOf(tx[c]), Outcome(c))
<1> DEFINE w == WorldOf(c)
           t == tx[c]
<1>1. Ready(c, m, w)
  OBVIOUS
<1>2. w.src = t.src
  BY DEF Ready
<1>3. CASE t.op = "EDIT" /\ IsDebt
  <2>1. MovesOf(t) = FALSE /\ Outcome(c) = EditDebt(w, c)
    BY <1>3 DEF MovesOf, Outcome, Edit
  <2> HIDE DEF w
  <2> QED BY <1>1, <1>3, <2>1, EditDebtResult DEF w
<1>4. CASE t.op = "EDIT" /\ ~IsDebt
  <2>1. MovesOf(t) = (t.date # None /\ t.date # t.src.next) /\ Outcome(c) = EditFlow(w, c)
    BY <1>4 DEF MovesOf, Outcome, Edit
  <2> HIDE DEF w
  <2>2. Result(w, m, t.date # None /\ t.date # w.src.next, EditFlow(w, c))
    BY <1>1, <1>4, EditFlowResult
  <2> QED BY <1>2, <2>1, <2>2 DEF w
<1>5. CASE t.op = "CANCEL"
  <2>1. MovesOf(t) = FALSE /\ Outcome(c) = CancelSource(w, c)
    BY <1>5 DEF MovesOf, Outcome
  <2> HIDE DEF w
  <2> QED BY <1>1, <2>1, CancelResult DEF w
<1>6. CASE t.op = "PREPAY"
  <2>1. MovesOf(t) = FALSE /\ Outcome(c) = PartPayment(w, c) /\ IsDebt
    BY <1>6 DEF MovesOf, Outcome, Fits
  <2> HIDE DEF w
  <2> QED BY <1>1, <2>1, PartPaymentResult DEF w
<1>7. CASE t.op = "CLOSE"
  <2>1. MovesOf(t) = FALSE /\ Outcome(c) = CloseDefault(w, c)
    BY <1>7 DEF MovesOf, Outcome
  <2> HIDE DEF w
  <2> QED BY <1>1, <2>1, CloseResult DEF w
<1> QED BY <1>3, <1>4, <1>5, <1>6, <1>7 DEF SourceOps

-----------------------------------------------------------------------------
(* The inductive invariant.  Who has moved the date when its statements look *)
(* owns the source row until it commits, so that what it saw of the jobs and *)
(* of the events stays all there is of them.                                 *)

TxType == [op : Ops, job : Nat, date : Dates \cup {None}, flag : BOOLEAN, src : SourceRow,
           seen : Beliefs, flips : SUBSET Nat, known : BOOLEAN, look : Nat, paid : SUBSET Nat,
           phase : {"READ", "LOOKED"}]

\* The requests under way: each may still count one more delay.
Busy == {c \in Requests : tx[c] # NoTx}
Spare == used - Cardinality(Busy)

BusyInv == /\ used \in 0..MaxRequests /\ IsFiniteSet(Busy) /\ Cardinality(Busy) <= used
           /\ rows \in Seq(JobRow(Spare))

TypeInv ==
  /\ kind \in Kinds
  /\ source \in SourceRow /\ source.next \in Dates \cup {None}
  /\ Len(rows) <= MaxRows
  /\ \A i \in 1..Len(rows) : rows[i].key <= LastDate /\ rows[i].due <= LastDate
  /\ events \in [Keys -> Nat] /\ bucket \in Nat /\ today \in Dates
  /\ owner \in Sessions \cup {None}
  /\ tx \in [Sessions -> {NoTx} \cup TxType]

HasRow(d, n) == \E i \in 1..Len(rows) : i <= n /\ rows[i].key = d

\* A session under way has loaded jobs that are there, and the job of its date is among
\* those its statements have seen.
TxInv(c, t) ==
  t # NoTx =>
    /\ Fits(t) /\ (c \notin Requests => t.op = "TICK")
    /\ t.src.next \in Dates \cup {None}
    /\ DOMAIN t.seen \in SUBSET (1..Len(rows))
    /\ ~IsDebt /\ t.src.next # None => HasRow(t.src.next, Len(rows))
    /\ t.phase = "READ" => t.look = 0 /\ t.paid = {}
    /\ t.phase = "LOOKED" => /\ t.look <= Len(rows)
                             /\ MovesOf(t) => owner = c
                             /\ ~IsDebt /\ t.src.next # None => HasRow(t.src.next, t.look)

TxsInv == \A c \in Sessions : TxInv(c, tx[c])

OwnerInv ==
  owner # None => /\ tx[owner] # NoTx /\ tx[owner].phase = "LOOKED"
                  /\ ~IsDebt => tx[owner].look = Len(rows)
                  /\ tx[owner].paid = {k \in Keys : events[k] > 0}

RowsInv == ~IsDebt => /\ \A i, j \in 1..Len(rows) : rows[i].key = rows[j].key => i = j
                      /\ source.next # None => HasRow(source.next, Len(rows))

JInv == TypeInv /\ BusyInv /\ TxsInv /\ OwnerInv /\ RowsInv /\ OneEventPerPeriod

LEMMA RowsFacts ==
  ASSUME BusyInv
  PROVE  /\ Spare \in Nat /\ Spare \in 0..MaxRequests
         /\ Len(rows) \in Nat /\ DOMAIN rows = 1..Len(rows)
         /\ \A i \in 1..Len(rows) : rows[i] \in JobRow(Spare)
<1>1. Cardinality(Busy) \in Nat /\ used \in Nat /\ MaxRequests \in Nat
  BY FS_CardinalityType, JobsAssumption DEF BusyInv
<1>2. Spare \in Nat /\ Spare \in 0..MaxRequests
  BY <1>1 DEF Spare, BusyInv
<1>3. rows \in Seq(JobRow(Spare))
  BY DEF BusyInv
<1>4. \A i \in 1..Len(rows) : rows[i] \in JobRow(Spare)
  BY <1>3, ElementOfSeq
<1> QED BY <1>2, <1>3, <1>4, LenProperties

LEMMA NoTxIdle ==
  NoTx.phase = "IDLE" /\ NoTx \notin TxType
<1>1. NoTx.phase = "IDLE"
  BY DEF NoTx
<1>2. \A t \in TxType : t.phase # "IDLE"
  BY DEF TxType
<1> QED BY <1>1, <1>2

LEMMA Dated ==
  ASSUME NEW d \in Dates
  PROVE  d \in Nat \ {0} /\ d <= LastDate /\ d # None
BY JobsAssumption, NoneAssumption DEF Dates

LEMMA InReady ==
  ASSUME JInv, NEW c \in Sessions, tx[c] # NoTx
  PROVE  Ready(c, Spare, WorldOf(c)) /\ Fits(tx[c]) /\ kind \in Kinds /\ Spare \in Nat
<1> DEFINE w == WorldOf(c)
           m == Spare
           t == tx[c]
<1>1. t \in TxType /\ TxInv(c, t)
  BY DEF JInv, TypeInv, TxsInv
<1>2. /\ m \in Nat /\ Len(rows) \in Nat /\ DOMAIN rows = 1..Len(rows) /\ rows \in Seq(JobRow(m))
  BY RowsFacts DEF JInv, BusyInv
<1>3. /\ w.src = t.src /\ w.rows = rows /\ w.events = events /\ w.bucket = bucket
      /\ w.seen = t.seen /\ w.look = t.look /\ w.paid = t.paid /\ w.ok = TRUE
  BY DEF WorldOf
<1>4. /\ t.src \in SourceRow /\ t.seen \in Beliefs /\ t.look \in Nat /\ t.paid \in SUBSET Nat
      /\ t.flag \in BOOLEAN /\ t.known \in BOOLEAN /\ t.date \in Dates \cup {None}
      /\ t.phase \in {"READ", "LOOKED"}
  BY <1>1 DEF TxType
<1>5. w \in World(m)
  <2>1. events \in [Keys -> Nat] /\ bucket \in Nat
    BY DEF JInv, TypeInv
  <2> HIDE DEF m, t
  <2> QED BY <1>2, <1>4, <2>1 DEF World, WorldOf, t
<1>6. w.look <= Len(w.rows)
  BY <1>1, <1>2, <1>3, <1>4 DEF TxInv
<1>7. \A i \in 1..Len(w.rows) : Bounded(w.rows[i], w.src.next)
  BY <1>3 DEF JInv, TypeInv, Bounded, Reached
<1>8. Since(w, m, w)
  <2> HIDE DEF w, m
  <2>1. w.rows \in Seq(JobRow(m)) /\ Len(w.rows) \in Nat
    BY <1>2, <1>3
  <2> QED BY <1>5, <1>6, <1>7, <2>1 DEF Since
<1>9. t.src.next # None => t.src.next <= LastDate
  BY <1>1, Dated DEF TxInv
<1>10. DOMAIN t.seen \in SUBSET (1..Len(rows)) /\ Fits(t)
  BY <1>1 DEF TxInv
<1>11. source \in SourceRow /\ kind \in Kinds
  BY DEF JInv, TypeInv
<1> QED BY <1>2, <1>3, <1>4, <1>8, <1>9, <1>10, <1>11 DEF Ready

\* What a session under way does, for the source and the jobs as they are.
LEMMA OutcomeOf ==
  ASSUME JInv, NEW c \in Sessions, tx[c] # NoTx
  PROVE  LET w == WorldOf(c)
             v == Outcome(c)
         IN  /\ Fine(w, IF c \in Requests THEN Spare + 1 ELSE Spare, v)
             /\ ~MovesOf(tx[c]) => Quiet(w, v)
             /\ MovesOf(tx[c]) /\ tx[c].phase = "READ" => v.src.next # tx[c].src.next
<1> DEFINE w == WorldOf(c)
           v == Outcome(c)
           t == tx[c]
           m == Spare
<1>1. Ready(c, m, w) /\ Fits(t) /\ kind \in Kinds /\ m \in Nat
  BY InReady
<1>2. m + 1 \in Nat /\ Ready(c, m + 1, w)
  BY <1>1, Grow
<1>3. w.src = t.src /\ w.seen = t.seen /\ w.paid = t.paid
  BY DEF WorldOf
<1>4. /\ c \notin Requests => t.op = "TICK"
      /\ t.phase = "READ" => t.paid = {}
  BY DEF JInv, TxsInv, TxInv
<1>5. CASE t.op \in JobOps \cup {"MOVE"}
  <2>1. t.op # "TICK"
    BY <1>5 DEF JobOps
  <2>2. Result(w, m + 1, MovesOf(t), v)
    BY <1>1, <1>5, JobOutcome
  <2> HIDE DEF w, v
  <2> QED BY <1>3, <1>4, <2>1, <2>2 DEF Result, w, v
<1>6. CASE t.op \in SourceOps
  <2>1. t.op # "TICK"
    BY <1>6 DEF SourceOps
  <2>2. Result(w, m + 1, MovesOf(t), v)
    BY <1>1, <1>2, <1>6, SourceOutcome
  <2> HIDE DEF w, v
  <2> QED BY <1>3, <1>4, <2>1, <2>2 DEF Result, w, v
<1>7. CASE t.op = "TICK"
  <2>1. MovesOf(t) = TickMoves(t) /\ v = Tick(w, c) /\ Awaited(t.seen)
    BY <1>1, <1>7 DEF MovesOf, Outcome, Fits
  <2> HIDE DEF w, v
  <2>2. /\ ~TickMoves(t) => Quiet(w, v)
        /\ TickMoves(t) /\ w.paid = {} /\ Awaited(w.seen) => v.src.next # w.src.next
    BY <1>1, <2>1, TickResult
  <2>3. Fine(w, m, v) /\ Fine(w, m + 1, v)
    BY <1>1, <1>2, <2>1, TickResult
  <2> QED BY <1>3, <1>4, <2>1, <2>2, <2>3 DEF w, v
<1> QED BY <1>1, <1>5, <1>6, <1>7 DEF Fits, Ops

LEMMA KindSame ==
  ASSUME kind' = kind, NEW t
  PROVE  IsDebt' = IsDebt /\ Fits(t)' = Fits(t) /\ MovesOf(t)' = MovesOf(t)
<1>1. IsDebt' = IsDebt
  BY DEF IsDebt
<1>2. Awaited(t.seen)' = Awaited(t.seen)
  BY <1>1 DEF Awaited
<1>3. Fits(t)' = Fits(t)
  BY <1>1, <1>2 DEF Fits
<1>4. /\ TickMoves(t)' = TickMoves(t)
      /\ Live(t, t.job)' = Live(t, t.job)
      /\ Applies(t, t.job, t.known, t.flag)' = Applies(t, t.job, t.known, t.flag)
  BY <1>1 DEF TickMoves, Live, Applies
<1>5. MovesOf(t)' = MovesOf(t)
  BY <1>1, <1>4 DEF MovesOf
<1> QED BY <1>1, <1>3, <1>5

\* No job goes away or changes its key.
RowsStay ==
  /\ Len(rows) \in Nat /\ Len(rows)' \in Nat /\ Len(rows) <= Len(rows)'
  /\ \A i \in 1..Len(rows) : rows'[i].key = rows[i].key

LEMMA HasRowStays ==
  ASSUME RowsStay, NEW d, NEW n, HasRow(d, n)
  PROVE  HasRow(d, n)' /\ (n = Len(rows) => HasRow(d, Len(rows))')
BY DEF RowsStay, HasRow

LEMMA TxStays ==
  ASSUME kind' = kind, RowsStay, NEW c, NEW t \in TxType, TxInv(c, t), owner = c => owner' = c
  PROVE  TxInv(c, t)'
<1>1. t # NoTx
  BY NoTxIdle
<1>2. IsDebt' = IsDebt /\ Fits(t)' = Fits(t) /\ MovesOf(t)' = MovesOf(t)
  BY KindSame
<1>3. DOMAIN t.seen \in SUBSET (1..Len(rows)')
  BY <1>1 DEF TxInv, RowsStay
<1>4. ~IsDebt /\ t.src.next # None => HasRow(t.src.next, Len(rows))'
  BY <1>1, HasRowStays DEF TxInv
<1>5. t.phase = "LOOKED" => /\ t.look <= Len(rows)'
                            /\ MovesOf(t) => owner' = c
                            /\ ~IsDebt /\ t.src.next # None => HasRow(t.src.next, t.look)'
  <2> SUFFICES ASSUME t.phase = "LOOKED"
               PROVE  /\ t.look <= Len(rows)'
                      /\ MovesOf(t) => owner' = c
                      /\ ~IsDebt /\ t.src.next # None => HasRow(t.src.next, t.look)'
    OBVIOUS
  <2>1. /\ t.look <= Len(rows)
        /\ MovesOf(t) => owner = c
        /\ ~IsDebt /\ t.src.next # None => HasRow(t.src.next, t.look)
    BY <1>1 DEF TxInv
  <2>2. t.look \in Nat
    BY DEF TxType
  <2>3. t.look <= Len(rows)'
    BY <2>1, <2>2 DEF RowsStay
  <2> QED BY <2>1, <2>3, HasRowStays
<1>6. /\ Fits(t) /\ (c \notin Requests => t.op = "TICK") /\ t.src.next \in Dates \cup {None}
      /\ t.phase = "READ" => t.look = 0 /\ t.paid = {}
  BY <1>1 DEF TxInv
<1> QED BY <1>2, <1>3, <1>4, <1>5, <1>6 DEF TxInv

LEMMA SameRows ==
  ASSUME BusyInv, rows' = rows
  PROVE  RowsStay
BY RowsFacts DEF RowsStay

LEMMA JInit ==
  ASSUME Init
  PROVE  JInv
<1>1. /\ kind \in Kinds /\ source \in SourceRow /\ source.next = 1
      /\ rows = <<NewRow(1)>> /\ events = [k \in Keys |-> 0] /\ bucket = 0
      /\ today = 1 /\ owner = None /\ used = 0 /\ tx = [c \in Sessions |-> NoTx]
  <2>1. 0 \in 0..MaxLeft /\ MaxLeft \in 0..MaxLeft /\ 1 \in Nat \ {0}
    BY JobsAssumption
  <2> QED BY <2>1 DEF Init, SourceRow
<1>2. 1 \in Dates /\ 1 <= LastDate /\ 1 <= MaxRows /\ 0 \in 0..MaxRequests
  BY JobsAssumption DEF Dates
<1>3. NewRow(1) \in JobRow(0) /\ NewRow(1).key = KeyOf(1) /\ NewRow(1).due = 1
  BY <1>1, NewRowType
<1>4. KeyOf(1) \in Nat /\ KeyOf(1) <= 1 /\ (~IsDebt => KeyOf(1) = 1)
  BY <1>1, KeyFacts
<1>5. /\ rows \in Seq(JobRow(0)) /\ Len(rows) = 1 /\ rows[1] = NewRow(1)
  <2>1. PICK x : x = NewRow(1)
    OBVIOUS
  <2> QED BY <1>1, <1>3, <2>1
<1>6. TypeInv
  <2>1. \A i \in 1..Len(rows) : rows[i].key <= LastDate /\ rows[i].due <= LastDate
    <3>1. LastDate \in Nat
      BY JobsAssumption
    <3> QED BY <1>2, <1>3, <1>4, <1>5, <3>1
  <2>2. events \in [Keys -> Nat] /\ tx \in [Sessions -> {NoTx} \cup TxType]
    BY <1>1
  <2> QED BY <1>1, <1>2, <1>5, <2>1, <2>2 DEF TypeInv
<1>7. BusyInv
  <2>1. Busy = {}
    BY <1>1 DEF Busy, Sessions
  <2>2. IsFiniteSet(Busy) /\ Cardinality(Busy) = 0
    BY <2>1, FS_EmptySet
  <2> QED BY <1>1, <1>2, <1>5, <2>2 DEF BusyInv, Spare
<1>8. TxsInv
  BY <1>1 DEF TxsInv, TxInv
<1>9. OwnerInv
  BY <1>1 DEF OwnerInv
<1>10. RowsInv
  BY <1>1, <1>3, <1>4, <1>5 DEF RowsInv, HasRow
<1>11. OneEventPerPeriod
  BY <1>1 DEF OneEventPerPeriod
<1> QED BY <1>6, <1>7, <1>8, <1>9, <1>10, <1>11 DEF JInv

\* A session begins: what it asks for fits what it loads.
LEMMA LoadKeeps ==
  ASSUME JInv, NEW c \in Sessions, tx[c].phase = "IDLE",
         NEW ids \in SUBSET (DOMAIN rows), NEW a, Load(c, ids, a),
         a.op \in Ops, a.job \in Nat, a.job # 0 => a.job \in ids,
         a.date \in Dates \cup {None}, a.flag \in BOOLEAN, a.flips \in SUBSET Nat,
         a.op \in JobOps \cup {"MOVE"} => a.job \in ids,
         a.op = "MOVE" => a.date \in Dates,
         a.op \in {"PREPAY", "CLOSE"} => IsDebt,
         a.op = "TICK" => Awaited([i \in ids |-> rows[i].status]),
         c \notin Requests => a.op = "TICK",
         used' = IF c \in Requests THEN used + 1 ELSE used, used' <= MaxRequests,
         UNCHANGED <<kind, source, rows, events, bucket, today, owner>>
  PROVE  JInv'
<1> DEFINE seen == [i \in ids |-> rows[i].status]
           known == a.job # 0 /\ events[rows[a.job].key] > 0
           t == [op |-> a.op, job |-> a.job, date |-> a.date, flag |-> a.flag, src |-> source,
                 seen |-> seen, flips |-> a.flips, known |-> known, look |-> 0, paid |-> {},
                 phase |-> "READ"]
<1>1. tx' = [tx EXCEPT ![c] = t]
  BY DEF Load
<1>2. /\ Len(rows) \in Nat /\ DOMAIN rows = 1..Len(rows) /\ Spare \in Nat
      /\ \A i \in 1..Len(rows) : rows[i] \in JobRow(Spare)
  BY RowsFacts DEF JInv
<1>3. tx \in [Sessions -> {NoTx} \cup TxType] /\ source \in SourceRow
  BY DEF JInv, TypeInv
<1>4. tx[c] = NoTx
  BY <1>3 DEF TxType
<1>5. seen \in Beliefs /\ DOMAIN seen \in SUBSET (1..Len(rows))
  <2>1. \A i \in ids : rows[i].status \in Statuses
    BY <1>2 DEF JobRow
  <2>2. DOMAIN seen = ids /\ seen = [i \in DOMAIN seen |-> seen[i]]
    OBVIOUS
  <2>3. DOMAIN seen \in SUBSET Nat /\ \A i \in DOMAIN seen : seen[i] \in Statuses
    BY <1>2, <2>1
  <2> QED BY <1>2, <2>2, <2>3, ToBeliefs
<1>6. known \in BOOLEAN
  OBVIOUS
<1>7. DOMAIN seen = ids
  OBVIOUS
<1>8. a.op = "TICK" => Awaited(seen)
  OBVIOUS
<1> HIDE DEF seen, known
<1>9. t \in TxType
  BY <1>3, <1>5, <1>6 DEF TxType
<1>10. /\ t.op = a.op /\ t.job = a.job /\ t.date = a.date /\ t.flag = a.flag /\ t.src = source
       /\ t.seen = seen /\ t.look = 0 /\ t.paid = {} /\ t.phase = "READ"
  OBVIOUS
<1> HIDE DEF t
<1>11. /\ \A d \in Sessions : tx'[d] = IF d = c THEN t ELSE tx[d]
       /\ tx' \in [Sessions -> {NoTx} \cup TxType]
  BY <1>1, <1>3, <1>9
<1>12. t # NoTx
  BY <1>9, NoTxIdle
<1>13. RowsStay
  BY SameRows DEF JInv
<1>14. TxInv(c, t)
  <2>1. Fits(t)
    BY <1>7, <1>8, <1>10 DEF Fits
  <2>2. t.src.next \in Dates \cup {None}
    BY <1>10 DEF JInv, TypeInv
  <2>3. ~IsDebt /\ t.src.next # None => HasRow(t.src.next, Len(rows))
    BY <1>10 DEF JInv, RowsInv
  <2> QED BY <1>5, <1>10, <2>1, <2>2, <2>3 DEF TxInv
<1>15. TxsInv'
  <2> SUFFICES ASSUME NEW d \in Sessions PROVE TxInv(d, tx[d])'
    BY DEF TxsInv
  <2>1. PICK x : x = tx'[d]
    OBVIOUS
  <2>2. x \in {NoTx} \cup TxType /\ TxInv(d, x)
    <3>1. CASE d = c
      BY <1>9, <1>11, <1>14, <2>1, <3>1
    <3>2. CASE d # c
      BY <1>3, <1>11, <2>1, <3>2 DEF JInv, TxsInv
    <3> QED BY <3>1, <3>2
  <2>3. TxInv(d, x)'
    <3>1. CASE x = NoTx
      BY <3>1 DEF TxInv
    <3>2. CASE x \in TxType
      BY <1>13, <2>2, <3>2, TxStays
    <3> QED BY <2>2, <3>1, <3>2
  <2> QED BY <2>1, <2>3 DEF TxInv
<1>16. BusyInv'
  <2>1. IsFiniteSet(Busy) /\ Cardinality(Busy) \in Nat /\ Cardinality(Busy) <= used /\ used \in Nat
    BY FS_CardinalityType, JobsAssumption DEF JInv, BusyInv
  <2>2. CASE c \in Requests
    <3>1. Busy' = Busy \cup {c} /\ c \notin Busy
      BY <1>4, <1>11, <1>12, <2>2 DEF Busy, Sessions
    <3>2. IsFiniteSet(Busy') /\ Cardinality(Busy') = Cardinality(Busy) + 1
      BY <2>1, <3>1, FS_AddElement
    <3>3. Spare' = Spare
      BY <2>1, <2>2, <3>2 DEF Spare
    <3>4. used' \in 0..MaxRequests /\ Cardinality(Busy') <= used'
      BY <2>1, <2>2, <3>2, JobsAssumption
    <3> QED BY <3>2, <3>3, <3>4 DEF JInv, BusyInv
  <2>3. CASE c \notin Requests
    <3>1. Busy' = Busy
      BY <1>11, <2>3 DEF Busy, Sessions
    <3> QED BY <2>3, <3>1 DEF JInv, BusyInv, Spare
  <2> QED BY <2>2, <2>3
<1>17. OwnerInv'
  <2>1. IsDebt' = IsDebt
    BY DEF IsDebt
  <2>2. CASE owner = None
    BY <2>2 DEF OwnerInv
  <2>3. CASE owner # None
    <3>1. owner \in Sessions /\ owner # c
      BY <1>4, <2>3 DEF JInv, TypeInv, OwnerInv
    <3>2. tx'[owner] = tx[owner]
      BY <1>11, <3>1
    <3> QED BY <2>1, <3>2 DEF JInv, OwnerInv
  <2> QED BY <2>2, <2>3
<1>18. RowsInv' /\ OneEventPerPeriod'
  BY DEF JInv, RowsInv, OneEventPerPeriod, HasRow, IsDebt
<1>19. TypeInv'
  BY <1>11 DEF JInv, TypeInv
<1> QED BY <1>15, <1>16, <1>17, <1>18, <1>19 DEF JInv

LEMMA AskedFields ==
  ASSUME NEW op, NEW j, NEW d, NEW f
  PROVE  /\ Asked(op, j, d, f).op = op /\ Asked(op, j, d, f).job = j
         /\ Asked(op, j, d, f).date = d /\ Asked(op, j, d, f).flag = f
         /\ Asked(op, j, d, f).flips = {}
BY DEF Asked

LEMMA RequestKeeps ==
  ASSUME JInv, NEW c \in Requests, tx[c].phase = "IDLE", used < MaxRequests,
         NEW ids \in SUBSET (DOMAIN rows), NEW op \in Ops \ {"TICK"}, NEW j \in Nat,
         NEW d \in Dates \cup {None}, NEW f \in BOOLEAN, Load(c, ids, Asked(op, j, d, f)),
         j # 0 => j \in ids, op \in JobOps \cup {"MOVE"} => j \in ids,
         op = "MOVE" => d \in Dates, op \in {"PREPAY", "CLOSE"} => IsDebt,
         used' = used + 1, UNCHANGED <<kind, source, rows, events, bucket, today, owner>>
  PROVE  JInv'
<1> DEFINE a == Asked(op, j, d, f)
<1>1. a.op = op /\ a.job = j /\ a.date = d /\ a.flag = f /\ a.flips = {}
  BY AskedFields
<1>2. Load(c, ids, a)
  OBVIOUS
<1> HIDE DEF a
<1>3. c \in Sessions
  BY DEF Sessions
<1>4. used' <= MaxRequests
  BY JobsAssumption DEF JInv, BusyInv
<1>5. a.op # "TICK" /\ a.op \in Ops /\ a.flips \in SUBSET Nat
  BY <1>1
<1> QED BY <1>1, <1>2, <1>3, <1>4, <1>5, LoadKeeps

LEMMA AnswerKeeps ==
  ASSUME JInv, NEW c \in Requests, NEW op \in JobOps, NEW j \in DOMAIN rows, NEW f \in BOOLEAN,
         Answer(c, op, j, f)
  PROVE  JInv'
<1>1. j \in Nat
  BY RowsFacts DEF JInv
<1>2. op \in Ops \ {"TICK"} /\ op # "MOVE" /\ op \notin {"PREPAY", "CLOSE"}
  BY DEF Ops, JobOps
<1>3. /\ tx[c].phase = "IDLE" /\ used < MaxRequests /\ Load(c, {j}, Asked(op, j, None, f))
      /\ used' = used + 1 /\ UNCHANGED <<kind, source, rows, events, bucket, today, owner>>
  BY DEF Answer
<1> QED BY <1>1, <1>2, <1>3, RequestKeeps

LEMMA MoveKeeps ==
  ASSUME JInv, NEW c \in Requests, NEW j \in DOMAIN rows, NEW d \in Dates, NEW f \in BOOLEAN,
         Move(c, j, d, f)
  PROVE  JInv'
<1>1. j \in Nat
  BY RowsFacts DEF JInv
<1>2. "MOVE" \in Ops \ {"TICK"} /\ "MOVE" \notin {"PREPAY", "CLOSE"}
  BY DEF Ops
<1>3. /\ tx[c].phase = "IDLE" /\ used < MaxRequests /\ Load(c, {j}, Asked("MOVE", j, d, f))
      /\ used' = used + 1 /\ UNCHANGED <<kind, source, rows, events, bucket, today, owner>>
  BY DEF Move
<1> QED BY <1>1, <1>2, <1>3, RequestKeeps

LEMMA AskKeeps ==
  ASSUME JInv, NEW c \in Requests, NEW op \in SourceOps, NEW d \in Dates \cup {None},
         NEW f \in BOOLEAN, Ask(c, op, d, f)
  PROVE  JInv'
<1>1. op \in Ops \ {"TICK"} /\ op \notin JobOps \cup {"MOVE"}
  BY DEF Ops, SourceOps, JobOps
<1>2. /\ tx[c].phase = "IDLE" /\ used < MaxRequests /\ Load(c, {}, Asked(op, 0, d, f))
      /\ op \in {"PREPAY", "CLOSE"} => IsDebt
      /\ used' = used + 1 /\ UNCHANGED <<kind, source, rows, events, bucket, today, owner>>
  BY DEF Ask
<1> QED BY <1>1, <1>2, RequestKeeps

LEMMA StartTickKeeps ==
  ASSUME JInv, NEW c \in Sessions, NEW f \in BOOLEAN, NEW retry \in {None, today},
         StartTick(c, f, retry)
  PROVE  JInv'
<1> DEFINE due == {i \in DOMAIN rows : Due(i)}
           stamped == {i \in DOMAIN rows : rows[i].status = "AWAITING" /\ rows[i].stamped}
           tick == [op |-> "TICK", job |-> 0, date |-> retry, flag |-> f, flips |-> {}]
<1>1. PICK ids \in SUBSET (DOMAIN rows), flips \in SUBSET (DOMAIN rows) :
        /\ Load(c, ids, [tick EXCEPT !.flips = flips])
        /\ Awaited([i \in ids |-> rows[i].status])
  <2>1. CASE Confirmed(source)
    <3>1. PICK stale \in {{}, stamped} : Load(c, stale, [tick EXCEPT !.flips = due])
      BY <2>1 DEF StartTick
    <3>2. Awaited([i \in stale |-> rows[i].status])
      BY DEF Awaited
    <3> QED BY <3>1, <3>2
  <2>2. CASE ~Confirmed(source)
    <3>1. Load(c, due, tick)
      BY <2>2 DEF StartTick
    <3>2. tick = [tick EXCEPT !.flips = {}]
      OBVIOUS
    <3>3. Awaited([i \in due |-> rows[i].status])
      BY <2>2 DEF Awaited, Confirmed, Due
    <3>4. {} \in SUBSET (DOMAIN rows) /\ due \in SUBSET (DOMAIN rows)
      OBVIOUS
    <3> HIDE DEF due, tick
    <3> QED BY <3>1, <3>2, <3>3, <3>4
  <2> QED BY <2>1, <2>2
<1> DEFINE a == [tick EXCEPT !.flips = flips]
<1>2. a.op = "TICK" /\ a.job = 0 /\ a.date = retry /\ a.flag = f /\ a.flips = flips
  OBVIOUS
<1>3. Load(c, ids, a)
  BY <1>1
<1> HIDE DEF a
<1>4. c \notin Requests /\ tx[c].phase = "IDLE"
      /\ UNCHANGED <<kind, source, rows, events, bucket, today, owner, used>>
  BY JobsAssumption DEF StartTick
<1>5. retry \in Dates \cup {None} /\ used \in Nat /\ used <= MaxRequests
  BY JobsAssumption DEF JInv, TypeInv, BusyInv
<1>6. flips \in SUBSET Nat
  BY RowsFacts DEF JInv
<1>7. "TICK" \in Ops /\ "TICK" \notin JobOps \cup {"MOVE"} \cup {"PREPAY", "CLOSE"}
  BY DEF Ops, JobOps
<1>8. /\ a.op \in Ops /\ a.job \in Nat /\ (a.job # 0 => a.job \in ids)
      /\ a.date \in Dates \cup {None} /\ a.flag \in BOOLEAN /\ a.flips \in SUBSET Nat
      /\ (a.op \in JobOps \cup {"MOVE"} => a.job \in ids)
      /\ (a.op = "MOVE" => a.date \in Dates)
      /\ (a.op \in {"PREPAY", "CLOSE"} => IsDebt)
  BY <1>2, <1>5, <1>6, <1>7
<1>9. used' = (IF c \in Requests THEN used + 1 ELSE used) /\ used' <= MaxRequests
  BY <1>4, <1>5
<1> QED BY <1>1, <1>2, <1>3, <1>4, <1>8, <1>9, LoadKeeps

\* A session that moves the date has changed the source row before its statements look.
LEMMA MovesUpdate ==
  ASSUME JInv, NEW c \in Sessions, tx[c] # NoTx, tx[c].phase = "READ", MovesOf(tx[c])
  PROVE  Updates(c)
<1>1. Outcome(c).src.next # tx[c].src.next
  BY OutcomeOf
<1>2. Outcome(c).src # tx[c].src
  BY <1>1
<1>3. tx[c].op # "CANCEL"
  BY DEF MovesOf
<1> QED BY <1>2, <1>3 DEF Updates

\* Looking changes nothing of what the session does.
LEMMA Looked ==
  ASSUME NEW t, NEW u, u.op = t.op, u.job = t.job, u.date = t.date, u.flag = t.flag,
         u.src = t.src, u.seen = t.seen, u.known = t.known
  PROVE  MovesOf(u) = MovesOf(t) /\ Fits(u) = Fits(t)
<1>1. /\ TickMoves(u) = TickMoves(t) /\ Live(u, u.job) = Live(t, t.job)
      /\ Applies(u, u.job, u.known, u.flag) = Applies(t, t.job, t.known, t.flag)
  BY DEF TickMoves, Live, Applies
<1>2. MovesOf(u) = MovesOf(t)
  BY <1>1 DEF MovesOf
<1>3. Fits(u) = Fits(t)
  BY DEF Fits
<1> QED BY <1>2, <1>3

\* The other sessions, when one takes its step.
LEMMA OthersStay ==
  ASSUME JInv, NEW c \in Sessions, kind' = kind, RowsStay, NEW u \in {NoTx} \cup TxType,
         tx' = [tx EXCEPT ![c] = u], TxInv(c, u)',
         \A d \in Sessions \ {c} : owner = d => owner' = d
  PROVE  TxsInv' /\ tx' \in [Sessions -> {NoTx} \cup TxType]
<1>1. tx \in [Sessions -> {NoTx} \cup TxType]
  BY DEF JInv, TypeInv
<1>2. ASSUME NEW d \in Sessions PROVE TxInv(d, tx[d])'
  <2>1. PICK x \in {NoTx} \cup TxType : x = tx'[d] /\ (d # c => x = tx[d]) /\ (d = c => x = u)
    BY <1>1
  <2>2. CASE d = c
    BY <2>1, <2>2 DEF TxInv
  <2>3. CASE d # c
    <3>1. TxInv(d, x)
      BY <2>1, <2>3 DEF JInv, TxsInv
    <3>2. CASE x = NoTx
      BY <2>1, <3>2 DEF TxInv
    <3>3. CASE x \in TxType
      <4>1. TxInv(d, x)'
        BY <2>3, <3>1, <3>3, TxStays
      <4> QED BY <2>1, <4>1 DEF TxInv
    <3> QED BY <3>2, <3>3
  <2> QED BY <2>2, <2>3
<1> QED BY <1>1, <1>2 DEF TxsInv

LEMMA LookKeeps ==
  ASSUME JInv, NEW c \in Sessions, Look(c)
  PROVE  JInv'
<1>1. /\ tx[c].phase = "READ" /\ (Updates(c) => owner = None)
      /\ owner' = IF Updates(c) THEN c ELSE owner
      /\ UNCHANGED <<kind, source, rows, events, bucket, today, used>>
  BY DEF Look
<1>2. PICK t \in TxType : t = tx[c] /\ t # NoTx /\ TxInv(c, t)
  BY <1>1, NoTxIdle DEF JInv, TypeInv, TxsInv
<1>3. tx \in [Sessions -> {NoTx} \cup TxType]
  BY DEF JInv, TypeInv
<1>4. PICK n \in Nat, p \in SUBSET Nat : n = Len(rows) /\ p = {k \in Keys : events[k] > 0}
  <2>1. Len(rows) \in Nat
    BY RowsFacts DEF JInv
  <2>2. {k \in Keys : events[k] > 0} \in SUBSET Nat
    BY JobsAssumption DEF Keys
  <2> QED BY <2>1, <2>2
<1>5. PICK u : /\ u = [t EXCEPT !.look = n, !.paid = p, !.phase = "LOOKED"]
               /\ tx' = [tx EXCEPT ![c] = u]
  <2>1. tx' = [tx EXCEPT ![c].look = n, ![c].paid = p, ![c].phase = "LOOKED"]
    BY <1>4 DEF Look
  <2>2. tx' = [tx EXCEPT ![c] = [t EXCEPT !.look = n, !.paid = p, !.phase = "LOOKED"]]
    BY <1>2, <1>3, <2>1 DEF TxType
  <2> QED BY <2>2
<1>6. /\ u \in TxType /\ u.look = n /\ u.paid = p /\ u.phase = "LOOKED"
      /\ u.op = t.op /\ u.src = t.src /\ u.seen = t.seen
      /\ MovesOf(u) = MovesOf(t) /\ Fits(u) = Fits(t)
  <2>1. u = [t EXCEPT !.look = n, !.paid = p, !.phase = "LOOKED"]
    BY <1>5
  <2>2. /\ u \in TxType /\ u.look = n /\ u.paid = p /\ u.phase = "LOOKED"
        /\ u.op = t.op /\ u.job = t.job /\ u.date = t.date /\ u.flag = t.flag
        /\ u.src = t.src /\ u.seen = t.seen /\ u.known = t.known
    BY <2>1 DEF TxType
  <2> QED BY <2>2, Looked
<1>7. u # NoTx
  BY <1>6, NoTxIdle
<1>8. RowsStay
  BY <1>1, SameRows DEF JInv
<1>9. MovesOf(t) => owner' = c
  <2>1. MovesOf(t) => Updates(c)
    BY <1>1, <1>2, MovesUpdate
  <2> QED BY <1>1, <2>1
<1>10. TxInv(c, u)'
  <2>1. IsDebt' = IsDebt /\ Fits(u)' = Fits(u) /\ MovesOf(u)' = MovesOf(u)
    BY <1>1, KindSame
  <2>2. /\ Fits(t) /\ (c \notin Requests => t.op = "TICK") /\ t.src.next \in Dates \cup {None}
        /\ DOMAIN t.seen \in SUBSET (1..Len(rows))
        /\ ~IsDebt /\ t.src.next # None => HasRow(t.src.next, Len(rows))
    BY <1>2 DEF TxInv
  <2>3. Len(rows)' = n /\ n <= n
    BY <1>1, <1>4
  <2>4. ~IsDebt /\ t.src.next # None => HasRow(t.src.next, n)'
    BY <1>1, <1>4, <2>2 DEF HasRow
  <2>5. DOMAIN u.seen \in SUBSET (1..Len(rows)')
    BY <1>4, <1>6, <2>2, <2>3
  <2> QED BY <1>6, <1>9, <2>1, <2>2, <2>3, <2>4, <2>5 DEF TxInv
<1>11. \A d \in Sessions \ {c} : owner = d => owner' = d
  BY <1>1, NoneAssumption
<1>12. TxsInv' /\ tx' \in [Sessions -> {NoTx} \cup TxType]
  BY <1>1, <1>5, <1>6, <1>8, <1>10, <1>11, OthersStay
<1>13. \A d \in Sessions : tx'[d] = IF d = c THEN u ELSE tx[d]
  BY <1>3, <1>5
<1>14. OwnerInv'
  <2>1. IsDebt' = IsDebt
    BY <1>1 DEF IsDebt
  <2>2. CASE Updates(c)
    <3>1. owner' = c /\ tx'[c] = u
      BY <1>1, <1>13, <2>2
    <3> QED BY <1>1, <1>4, <1>6, <1>7, <3>1 DEF OwnerInv, Keys
  <2>3. CASE ~Updates(c)
    <3>1. owner' = owner
      BY <1>1, <2>3
    <3>2. CASE owner = None
      BY <3>1, <3>2 DEF OwnerInv
    <3>3. CASE owner # None
      <4>1. owner \in Sessions /\ owner # c
        BY <1>1, <3>3 DEF JInv, TypeInv, OwnerInv
      <4>2. tx'[owner] = tx[owner]
        BY <1>13, <4>1
      <4> QED BY <1>1, <2>1, <3>1, <4>2 DEF JInv, OwnerInv, Keys
    <3> QED BY <3>2, <3>3
  <2> QED BY <2>2, <2>3
<1>15. Busy' = Busy
  BY <1>2, <1>7, <1>13 DEF Busy, Sessions
<1>16. BusyInv' /\ RowsInv' /\ OneEventPerPeriod'
  BY <1>1, <1>15 DEF JInv, BusyInv, Spare, RowsInv, OneEventPerPeriod, HasRow, IsDebt, Keys
<1>17. owner' \in Sessions \cup {None}
  BY <1>1 DEF JInv, TypeInv
<1>18. TypeInv'
  BY <1>1, <1>12, <1>17 DEF JInv, TypeInv
<1> QED BY <1>12, <1>14, <1>16, <1>18 DEF JInv

\* The session ends: it owns nothing any more, and one request less is under way.
LEMMA EndKeeps ==
  ASSUME JInv, NEW c \in Sessions, tx[c] # NoTx, tx' = [tx EXCEPT ![c] = NoTx], used' = used,
         rows' \in Seq(JobRow(IF c \in Requests THEN Spare + 1 ELSE Spare))
  PROVE  BusyInv' /\ \A d \in Sessions : tx'[d] = IF d = c THEN NoTx ELSE tx[d]
<1>1. tx \in [Sessions -> {NoTx} \cup TxType]
  BY DEF JInv, TypeInv
<1>2. \A d \in Sessions : tx'[d] = IF d = c THEN NoTx ELSE tx[d]
  BY <1>1
<1>3. IsFiniteSet(Busy) /\ Cardinality(Busy) \in Nat /\ Cardinality(Busy) <= used /\ used \in Nat
  BY FS_CardinalityType, JobsAssumption DEF JInv, BusyInv
<1>4. CASE c \in Requests
  <2>1. Busy' = Busy \ {c} /\ c \in Busy
    BY <1>2, <1>4 DEF Busy, Sessions
  <2>2. IsFiniteSet(Busy') /\ Cardinality(Busy') = Cardinality(Busy) - 1
    BY <1>3, <2>1, FS_RemoveElement
  <2>3. Spare' = Spare + 1
    BY <1>3, <2>2 DEF Spare
  <2>4. Cardinality(Busy') <= used'
    BY <1>3, <2>2
  <2> QED BY <1>2, <1>4, <2>2, <2>3, <2>4 DEF JInv, BusyInv
<1>5. CASE c \notin Requests
  <2>1. Busy' = Busy
    BY <1>2, <1>5 DEF Busy, Sessions
  <2>2. Spare' = Spare
    BY <2>1 DEF Spare
  <2> QED BY <1>2, <1>5, <2>1, <2>2 DEF JInv, BusyInv
<1> QED BY <1>4, <1>5

LEMMA RollbackKeeps ==
  ASSUME JInv, NEW c \in Sessions, Rollback(c)
  PROVE  JInv'
<1>1. /\ tx[c].phase = "LOOKED" /\ tx' = [tx EXCEPT ![c] = NoTx]
      /\ owner' = (IF owner = c THEN None ELSE owner)
      /\ UNCHANGED <<kind, source, rows, events, bucket, today, used>>
  BY DEF Rollback, Release
<1>2. tx[c] # NoTx
  BY <1>1, NoTxIdle
<1>3. rows' \in Seq(JobRow(IF c \in Requests THEN Spare + 1 ELSE Spare))
  <2>1. Spare \in Nat /\ rows \in Seq(JobRow(Spare))
    BY RowsFacts DEF JInv, BusyInv
  <2>2. JobRow(Spare) \subseteq JobRow(Spare + 1)
    BY <2>1 DEF JobRow
  <2>3. rows \in Seq(JobRow(Spare + 1))
    BY <2>1, <2>2, SeqMonotonic
  <2> QED BY <1>1, <2>1, <2>3
<1>4. BusyInv' /\ \A d \in Sessions : tx'[d] = IF d = c THEN NoTx ELSE tx[d]
  BY <1>1, <1>2, <1>3, EndKeeps
<1>5. RowsStay
  BY <1>1, SameRows DEF JInv
<1>6. TxInv(c, NoTx)'
  BY DEF TxInv
<1>7. TxsInv' /\ tx' \in [Sessions -> {NoTx} \cup TxType]
  BY <1>1, <1>5, <1>6, OthersStay
<1>8. OwnerInv'
  <2>1. IsDebt' = IsDebt
    BY <1>1 DEF IsDebt
  <2>2. CASE owner' = None
    BY <2>2 DEF OwnerInv
  <2>3. CASE owner' # None
    <3>1. owner' = owner /\ owner # c /\ owner \in Sessions
      BY <1>1, <2>3 DEF JInv, TypeInv
    <3>2. tx'[owner] = tx[owner]
      BY <1>4, <3>1
    <3> QED BY <1>1, <2>1, <2>3, <3>1, <3>2 DEF JInv, OwnerInv, Keys
  <2> QED BY <2>2, <2>3
<1>9. RowsInv' /\ OneEventPerPeriod'
  BY <1>1 DEF JInv, RowsInv, OneEventPerPeriod, HasRow, IsDebt, Keys
<1>10. TypeInv'
  BY <1>1, <1>7 DEF JInv, TypeInv
<1> QED BY <1>4, <1>7, <1>8, <1>9, <1>10 DEF JInv

\* No session takes a step.
LEMMA StillKeeps ==
  ASSUME JInv, UNCHANGED <<kind, source, rows, events, bucket, owner, tx, used>>,
         today' \in Dates
  PROVE  JInv'
<1>1. UNCHANGED <<kind, source, rows, events, bucket, owner, tx, used>>
  OBVIOUS
<1>2. TypeInv'
  BY DEF JInv, TypeInv
<1>3. BusyInv' /\ OwnerInv' /\ RowsInv' /\ OneEventPerPeriod'
  BY <1>1 DEF JInv, BusyInv, Busy, Spare, OwnerInv, RowsInv, OneEventPerPeriod, HasRow, IsDebt, Keys
<1>4. TxsInv'
  <2> SUFFICES ASSUME NEW d \in Sessions PROVE TxInv(d, tx[d])'
    BY DEF TxsInv
  <2>1. PICK x : x = tx[d]
    OBVIOUS
  <2>2. x \in {NoTx} \cup TxType /\ TxInv(d, x)
    BY <2>1 DEF JInv, TypeInv, TxsInv
  <2>3. RowsStay
    BY <1>1, SameRows DEF JInv
  <2>4. TxInv(d, x)'
    <3>1. CASE x = NoTx
      BY <3>1 DEF TxInv
    <3>2. CASE x \in TxType
      BY <1>1, <2>2, <2>3, <3>2, TxStays
    <3> QED BY <2>2, <3>1, <3>2
  <2> QED BY <1>1, <2>1, <2>4 DEF TxInv
<1> QED BY <1>2, <1>3, <1>4 DEF JInv

LEMMA NextDayKeeps ==
  ASSUME JInv, NextDay
  PROVE  JInv'
<1>1. today \in 1..LastDate /\ today < LastDate /\ today' = today + 1
  BY DEF NextDay, JInv, TypeInv, Dates
<1>2. today' \in Dates
  BY <1>1, JobsAssumption DEF Dates
<1> QED BY <1>2, StillKeeps DEF NextDay

\* The columns a session has changed are written, the others are left as they are.
LEMMA MergeFields ==
  ASSUME source \in SourceRow, NEW c, NEW s \in SourceRow, NEW r, r = Merge(c, s)
  PROVE  /\ r \in SourceRow
         /\ r.next = IF s.next = tx[c].src.next THEN source.next ELSE s.next
<1>1. /\ DOMAIN source = {"next", "emi", "left", "status", "confirm", "span"}
      /\ source = [next |-> source.next, emi |-> source.emi, left |-> source.left,
                   status |-> source.status, confirm |-> source.confirm, span |-> source.span]
  BY DEF SourceRow
<1>2. PICK x : x = tx[c].src
  OBVIOUS
<1>3. r = [f \in {"next", "emi", "left", "status", "confirm", "span"} |->
             IF s[f] = x[f] THEN source[f] ELSE s[f]]
  BY <1>1, <1>2 DEF Merge
<1>4. r = [next |-> IF s.next = x.next THEN source.next ELSE s.next,
           emi |-> IF s.emi = x.emi THEN source.emi ELSE s.emi,
           left |-> IF s.left = x.left THEN source.left ELSE s.left,
           status |-> IF s.status = x.status THEN source.status ELSE s.status,
           confirm |-> IF s.confirm = x.confirm THEN source.confirm ELSE s.confirm,
           span |-> IF s.span = x.span THEN source.span ELSE s.span]
  BY <1>3
<1> QED BY <1>2, <1>4 DEF SourceRow

LEMMA CommitKeeps ==
  ASSUME JInv, NEW c \in Sessions, Commit(c)
  PROVE  JInv'
<1>1. PICK w, v : w = WorldOf(c) /\ v = Outcome(c)
  OBVIOUS
<1>2. /\ tx[c].phase = "LOOKED" /\ tx' = [tx EXCEPT ![c] = NoTx]
      /\ owner' = (IF owner = c THEN None ELSE owner)
      /\ v.src.next # None => v.src.next <= LastDate
      /\ Len(v.rows) <= MaxRows /\ source' = Merge(c, v.src)
      /\ rows' = v.rows /\ events' = v.events /\ bucket' = v.bucket
      /\ kind' = kind /\ today' = today /\ used' = used
  BY <1>1 DEF Commit, Release
<1>3. PICK t \in TxType : t = tx[c] /\ t # NoTx /\ TxInv(c, t)
  BY <1>2, NoTxIdle DEF JInv, TypeInv, TxsInv
<1>4. PICK m : m = IF c \in Requests THEN Spare + 1 ELSE Spare
  OBVIOUS
<1>5. Fine(w, m, v) /\ (~MovesOf(t) => Quiet(w, v))
  BY <1>1, <1>3, <1>4, OutcomeOf
<1>6. /\ Spare \in Nat /\ Len(rows) \in Nat /\ m \in Nat
      /\ \A i \in 1..Len(rows) : rows[i] \in JobRow(Spare)
  BY <1>4, RowsFacts DEF JInv
<1>7. /\ w.src = t.src /\ w.rows = rows /\ w.events = events /\ w.look = t.look
      /\ w.paid = t.paid
  BY <1>1, <1>3 DEF WorldOf
<1>8. /\ v.src \in SourceRow /\ v.rows \in Seq(JobRow(m)) /\ v.events \in [Keys -> Nat]
      /\ v.bucket \in Nat /\ Len(v.rows) \in Nat /\ v.look <= Len(v.rows) /\ v.look \in Nat
      /\ \A i \in 1..Len(v.rows) : v.rows[i] \in JobRow(m) /\ Bounded(v.rows[i], v.src.next)
  BY <1>5, <1>6, SinceFields DEF Fine
<1>9. RowsStay
  BY <1>2, <1>5, <1>6, <1>7, <1>8 DEF RowsStay, Fine, Since
<1>10. BusyInv' /\ \A d \in Sessions : tx'[d] = IF d = c THEN NoTx ELSE tx[d]
  BY <1>2, <1>3, <1>4, <1>8, EndKeeps
<1>11. TxsInv' /\ tx' \in [Sessions -> {NoTx} \cup TxType]
  <2>1. TxInv(c, NoTx)'
    BY DEF TxInv
  <2> QED BY <1>2, <1>9, <2>1, OthersStay
<1>12. /\ source' \in SourceRow
       /\ source'.next = IF v.src.next = t.src.next THEN source.next ELSE v.src.next
  BY <1>2, <1>3, <1>8, MergeFields DEF JInv, TypeInv
<1>13. source'.next \in Dates \cup {None}
  <2>1. v.src.next \in Dates \cup {None}
    BY <1>2, <1>8, JobsAssumption DEF SourceRow, Dates
  <2> QED BY <1>12, <2>1 DEF JInv, TypeInv
<1>14. \A i \in 1..Len(v.rows) : v.rows[i].key <= LastDate /\ v.rows[i].due <= LastDate
  <2> SUFFICES ASSUME NEW i \in 1..Len(v.rows)
               PROVE  v.rows[i].key <= LastDate /\ v.rows[i].due <= LastDate
    OBVIOUS
  <2>1. PICK x, y, d : x = v.rows[i].key /\ y = v.rows[i].due /\ d = v.src.next
    OBVIOUS
  <2>2. x \in Nat /\ y \in Nat /\ d \in Nat \cup {None} /\ LastDate \in Nat
    BY <1>6, <1>8, <2>1, RowFields, JobsAssumption DEF SourceRow
  <2>3. Reached(x, d) /\ Reached(y, d) /\ (d # None => d <= LastDate)
    BY <1>2, <1>8, <2>1 DEF Bounded
  <2> QED BY <2>1, <2>2, <2>3 DEF Reached
<1>15. TypeInv'
  BY <1>2, <1>8, <1>11, <1>12, <1>13, <1>14 DEF JInv, TypeInv
<1>16. IsDebt' = IsDebt
  BY <1>2 DEF IsDebt
<1>17. ~IsDebt => Placed(w)
  <2> SUFFICES ASSUME ~IsDebt, t.src.next # None
               PROVE  \E i \in 1..t.look : rows[i].key = KeyOf(t.src.next)
    BY <1>7 DEF Placed
  <2>1. HasRow(t.src.next, t.look) /\ t.src.next \in Dates
    BY <1>2, <1>3 DEF TxInv
  <2>2. KeyOf(t.src.next) = t.src.next
    BY <2>1, Dated, KeyFacts DEF JInv, TypeInv
  <2>3. PICK i \in 1..Len(rows) : i <= t.look /\ rows[i].key = t.src.next
    BY <2>1 DEF HasRow
  <2>4. i \in 1..t.look
    BY <1>6, <2>3 DEF TxType
  <2> QED BY <2>2, <2>3, <2>4
<1>18. PICK old, new : /\ old = source.next /\ new = source'.next
                      /\ new = IF v.src.next = t.src.next THEN old ELSE v.src.next
  BY <1>12
<1>19. CASE MovesOf(t)
  <2>1. owner = c /\ owner # None /\ owner' = None
    BY <1>2, <1>3, <1>19, NoneAssumption DEF TxInv
  <2>2. (~IsDebt => t.look = Len(rows)) /\ t.paid = {k \in Keys : events[k] > 0}
    BY <1>3, <2>1 DEF JInv, OwnerInv
  <2>3. Even(w)
    <3>1. \A k \in Keys : events[k] \in Nat /\ events[k] <= 1
      BY DEF JInv, TypeInv, OneEventPerPeriod
    <3> QED BY <1>7, <2>2, <3>1 DEF Even
  <2>4. OneEventPerPeriod'
    BY <1>2, <1>5, <2>3 DEF Fine, Even, OneEventPerPeriod, Keys
  <2>5. ~IsDebt => Whole(v) /\ Placed(v)
    BY <1>5, <1>7, <1>17, <2>2 DEF Fine, Sound, Whole, JInv, RowsInv
  <2>6. ASSUME ~IsDebt
        PROVE  /\ \A i, j \in 1..Len(v.rows) : v.rows[i].key = v.rows[j].key => i = j
               /\ new # None => HasRow(new, Len(rows))'
    <3>1. CASE v.src.next = t.src.next
      <4>1. new # None => HasRow(new, Len(rows))'
        BY <1>9, <1>18, <2>6, <3>1, HasRowStays DEF JInv, RowsInv
      <4> QED BY <2>5, <2>6, <4>1 DEF Whole
    <3>2. CASE v.src.next # t.src.next
      <4>1. new = v.src.next
        BY <1>18, <3>2
      <4>2. new # None => KeyOf(new) = new
        BY <1>8, <2>6, <4>1, KeyFacts DEF JInv, TypeInv, SourceRow
      <4>3. new # None => HasRow(new, Len(rows))'
        BY <1>2, <1>8, <2>5, <2>6, <4>1, <4>2 DEF Placed, Whole, HasRow
      <4> QED BY <2>5, <2>6, <4>3 DEF Whole
    <3> QED BY <3>1, <3>2
  <2>7. OwnerInv'
    BY <2>1 DEF OwnerInv
  <2>8. RowsInv'
    BY <1>2, <1>16, <1>18, <2>6 DEF RowsInv
  <2> QED BY <1>10, <1>11, <1>15, <2>4, <2>7, <2>8 DEF JInv
<1>20. CASE ~MovesOf(t)
  <2>1. /\ events' = events
        /\ ~IsDebt => /\ Len(v.rows) = Len(rows)
                      /\ v.src.next = t.src.next \/ v.src.next = None
    BY <1>2, <1>5, <1>7, <1>17, <1>20 DEF Quiet
  <2>2. OneEventPerPeriod'
    BY <2>1 DEF JInv, OneEventPerPeriod, Keys
  <2>3. ASSUME ~IsDebt
        PROVE  /\ \A i, j \in 1..Len(v.rows) : v.rows[i].key = v.rows[j].key => i = j
               /\ new # None => HasRow(new, Len(rows))'
    <3>1. \A i \in 1..Len(rows) : v.rows[i].key = rows[i].key
      BY <1>2, <1>9 DEF RowsStay
    <3>2. new = old \/ new = None
      BY <1>18, <2>1, <2>3
    <3>3. old # None => HasRow(old, Len(rows))'
      BY <1>9, <1>18, <2>3, HasRowStays DEF JInv, RowsInv
    <3>4. \A i, j \in 1..Len(v.rows) : v.rows[i].key = v.rows[j].key => i = j
      BY <2>1, <2>3, <3>1 DEF JInv, RowsInv
    <3> QED BY <3>2, <3>3, <3>4
  <2>5. RowsInv'
    BY <1>2, <1>16, <1>18, <2>3 DEF RowsInv
  <2>4. OwnerInv'
    <3>1. CASE owner' = None
      BY <3>1 DEF OwnerInv
    <3>2. CASE owner' # None
      <4>1. owner' = owner /\ owner # c /\ owner \in Sessions
        BY <1>2, <3>2 DEF JInv, TypeInv
      <4>2. tx'[owner] = tx[owner]
        BY <1>10, <4>1
      <4>3. ~IsDebt => Len(rows') = Len(rows)
        BY <1>2, <2>1
      <4> QED BY <1>16, <2>1, <3>2, <4>1, <4>2, <4>3 DEF JInv, OwnerInv, Keys
    <3> QED BY <3>1, <3>2
  <2> QED BY <1>10, <1>11, <1>15, <2>2, <2>4, <2>5 DEF JInv
<1> QED BY <1>19, <1>20

LEMMA JNext ==
  ASSUME JInv, [Next]_vars
  PROVE  JInv'
<1>1. CASE UNCHANGED vars
  <2>1. today' \in Dates
    BY <1>1 DEF vars, JInv, TypeInv
  <2> QED BY <1>1, <2>1, StillKeeps DEF vars
<1>2. ASSUME NEW c \in Requests, NEW j \in DOMAIN rows, NEW f \in BOOLEAN, NEW op \in JobOps,
             Answer(c, op, j, f)
      PROVE  JInv'
  BY <1>2, AnswerKeeps
<1>3. ASSUME NEW c \in Requests, NEW j \in DOMAIN rows, NEW f \in BOOLEAN, NEW d \in Dates,
             Move(c, j, d, f)
      PROVE  JInv'
  BY <1>3, MoveKeeps
<1>4. ASSUME NEW c \in Requests, NEW op \in SourceOps, NEW d \in Dates \cup {None},
             NEW f \in BOOLEAN, Ask(c, op, d, f)
      PROVE  JInv'
  BY <1>4, AskKeeps
<1>5. ASSUME NEW c \in Sessions, NEW f \in BOOLEAN, NEW retry \in {None, today},
             StartTick(c, f, retry)
      PROVE  JInv'
  BY <1>5, StartTickKeeps
<1>6. ASSUME NEW c \in Sessions, Look(c) \/ Commit(c) \/ Rollback(c)
      PROVE  JInv'
  BY <1>6, LookKeeps, CommitKeeps, RollbackKeeps
<1>7. CASE NextDay
  BY <1>7, NextDayKeeps
<1> QED BY <1>1, <1>2, <1>3, <1>4, <1>5, <1>6, <1>7 DEF Next

LEMMA JTypes ==
  ASSUME JInv
  PROVE  JobTypeOK
<1>1. /\ Len(rows) \in Nat /\ DOMAIN rows = 1..Len(rows) /\ Spare \in 0..MaxRequests
      /\ \A i \in 1..Len(rows) : rows[i] \in JobRow(Spare)
  BY RowsFacts DEF JInv
<1>2. ASSUME NEW i \in 1..Len(rows) PROVE rows[i] \in RowType
  <2>1. rows[i].key <= LastDate /\ rows[i].due <= LastDate
    BY DEF JInv, TypeInv
  <2>2. rows[i] \in JobRow(Spare)
    BY <1>1
  <2>3. rows[i].key \in Keys /\ rows[i].due \in Dates
    BY <2>1, <2>2, JobsAssumption DEF JobRow, Keys, Dates
  <2>4. rows[i].tries \in 0..MaxRequests
    BY <1>1, <2>2, JobsAssumption DEF JobRow
  <2> QED BY <2>2, <2>3, <2>4 DEF JobRow, RowType
<1>3. source \in SourceType
  BY DEF JInv, TypeInv, SourceRow, SourceType
<1>4. today \in 0..LastDate /\ used \in 0..MaxRequests
  BY JobsAssumption DEF JInv, TypeInv, BusyInv, Dates
<1>5. ASSUME NEW c \in Sessions, tx[c] # NoTx
      PROVE  \E ids \in SUBSET DOMAIN rows : tx[c] \in Underway(ids)
  <2>1. PICK t \in TxType : t = tx[c] /\ TxInv(c, t)
    BY <1>5 DEF JInv, TypeInv, TxsInv
  <2>2. PICK ids : ids = DOMAIN t.seen
    OBVIOUS
  <2>3. ids \in SUBSET DOMAIN rows
    BY <1>1, <1>5, <2>1, <2>2 DEF TxInv
  <2>4. t.seen \in [ids -> Statuses]
    BY <2>1, <2>2 DEF TxType, Beliefs
  <2>5. t.src \in SourceType
    BY <1>5, <2>1 DEF TxInv, TxType, SourceRow, SourceType
  <2>6. t.look \in 0..Len(rows)
    BY <1>1, <1>5, <2>1 DEF TxInv, TxType
  <2>7. t \in Underway(ids)
    BY <2>1, <2>4, <2>5, <2>6 DEF TxType, Underway, Ops
  <2> QED BY <2>1, <2>3, <2>7
<1>6. DOMAIN tx = Sessions
  BY DEF JInv, TypeInv
<1> QED BY <1>1, <1>2, <1>3, <1>4, <1>5, <1>6 DEF JInv, TypeInv, JobTypeOK

-----------------------------------------------------------------------------
(* The properties                                                           *)

\* Every variable of Jobs keeps its type, what the sessions have read included, for any
\* number of requests beside the tick: a
\* part payment and an EMI that meet never leave a negative number of instalments, and a
\* debt's row keeps its columns whatever sessions that loaded it at different times write.
THEOREM JobTypes == Spec => []JobTypeOK
<1>1. Spec => []JInv
  BY JInit, JNext, PTL DEF Spec
<1>2. JInv => JobTypeOK
  BY JTypes
<1> QED BY <1>1, <1>2, PTL

\* create_or_replace_next_job never makes a second job for a period of an income or an
\* expense, though it locks no job: whoever moves the date has updated the source row
\* before it looks, and nobody else adds a job until it commits.
THEOREM OneRow == Spec => []OneRowPerPeriod
<1>1. Spec => []JInv
  BY JInit, JNext, PTL DEF Spec
<1>2. JInv => OneRowPerPeriod
  BY RowsFacts DEF JInv, RowsInv, OneRowPerPeriod
<1> QED BY <1>1, <1>2, PTL

\* finalize_payment_event never finalizes an EMI period twice, for any number of answers,
\* retries and ticks and for keys that cover several due dates.
THEOREM OneEvent == Spec => []OneEventPerPeriod
<1>1. Spec => []JInv
  BY JInit, JNext, PTL DEF Spec
<1>2. JInv => OneEventPerPeriod
  BY DEF JInv
<1> QED BY <1>1, <1>2, PTL
=============================================================================
