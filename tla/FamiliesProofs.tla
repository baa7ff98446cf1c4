--------------------------- MODULE FamiliesProofs ---------------------------
(***************************************************************************)
(* TLAPS proofs about Families, for every value of its constants.          *)
(***************************************************************************)
EXTENDS Families, FiniteSetTheorems, TLAPS

-----------------------------------------------------------------------------
(* The inductive invariant.                                                *)
(*                                                                         *)
(* Nothing is locked: what a request has read may no longer be so when it  *)
(* writes.  Four things stay: a row keeps its kind and its parties until   *)
(* it is deleted, no status becomes PENDING again, a profile that is gone  *)
(* does not come back, and a family cannot go while a row refers to it.    *)

\* A row of one of the tables: its parties are of the table's kinds, a friendship is
\* written in the canonical order, and what is ACTIVE was agreed to by the other side.
Proper(row) ==
  /\ row.kind \in DOMAIN StatusesOf
  /\ row.status \in StatusesOf[row.kind]
  /\ row.kind = "JOIN" => row.from \in Users /\ row.to \in Families
  /\ row.kind = "INVITE" => row.from \in Families
  /\ row.kind = "FRIEND" => <<row.from, row.to>> = CanonicalPair(row.from, row.to)
  /\ row.kind \in {"FRIEND", "TIE"} /\ row.status = "ACTIVE" =>
       row.agreed \in {row.from, row.to} \ {row.asker}

RowsProper == \A o \in Offers : Exists(o) => Proper(offers[o])

\* The foreign keys to families.
RefersToLive(row) ==
  row.kind # "FRIEND" => \A f \in {row.from, row.to} \cap Families : families[f] = "LIVE"
ForeignKeys == \A o \in Offers : Exists(o) => RefersToLive(offers[o])

\* What a request has read that is still so, by its phase.
InsertGood(w) ==
  w.phase \in {"INSERT", "TIE"} =>
    /\ w.row \in OfferRow /\ Proper(w.row)
    /\ w.row.kind = "JOIN" => w.row.status = "PENDING"
AdmitGood(w) ==
  w.phase \in Admitting =>
    /\ w.user \in Users /\ w.family \in Families
    /\ w.offer \in Offers /\ offers[w.offer] # None
    /\ Exists(w.offer) =>
         /\ offers[w.offer].kind \in {"JOIN", "INVITE"}
         /\ offers[w.offer].kind = "INVITE" => w.family = offers[w.offer].from
         /\ offers[w.offer].kind = "JOIN" => /\ w.user = offers[w.offer].from
                                             /\ w.family = offers[w.offer].to
StayGood(w) ==
  w.phase = "ADMIT" /\ ~w.adds /\ Exists(w.offer) /\ w.user \in profiles =>
    links[w.user, w.family] # "NONE"
WriteGood(w) ==
  w.phase = "WRITE" =>
    /\ w.offer \in Offers /\ offers[w.offer] # None /\ w.row \in OfferRow
    /\ Exists(w.offer) =>
         /\ Proper(w.row) /\ w.row.status # "PENDING"
         /\ w.row.kind = offers[w.offer].kind /\ w.row.from = offers[w.offer].from
         /\ w.row.to = offers[w.offer].to /\ w.row.asker = offers[w.offer].asker
         /\ w.row.kind = "JOIN" => w.row.status # "ACCEPTED"
DropGood(w) ==
  /\ w.phase \in {"FOUND", "ASK", "UNLINK", "DROP_USER"} => w.user \in Users
  /\ w.phase \in {"ASK", "PURGE", "DROP_FAMILY"} => w.family \in Families
  /\ w.phase = "DROP_FAMILY" => \A o \in w.seen \cap Offers : offers[o] # None

Good(w) == InsertGood(w) /\ AdmitGood(w) /\ StayGood(w) /\ WriteGood(w) /\ DropGood(w)

WorkGood == \A q \in Requests : Good(work[q])

\* Only an invite that was answered has let anybody in.
Guested ==
  \A o \in Offers :
    offers[o] = None \/ offers[o].kind # "INVITE" \/ offers[o].status = "PENDING" => guests[o] = {}

\* The requests that may still add a family to u, or a guest to o.
Adding(u) == {q \in Requests : work[q].phase \in {"FOUND", "MEMBER", "ADMIT"} /\ work[q].user = u}
Working(o) == {q \in Requests : work[q].phase \in Admitting /\ work[q].offer = o}

CapKnown(u) == CapOf(u) <= allowed[u]
CapKept(u) ==
  Cardinality(FamiliesOf(u)) + Cardinality(Adding(u)) <= allowed[u] + Cardinality(Requests) - 1
InviteKept(o) == Cardinality(guests[o]) + Cardinality(Working(o)) <= Cardinality(Requests)

IInv ==
  /\ TypeOK
  /\ RowsProper
  /\ ForeignKeys
  /\ WorkGood
  /\ Guested
  /\ (\A u \in Users : CapKnown(u) /\ CapKept(u))
  /\ (\A o \in Offers : InviteKept(o))
  /\ AcceptedMeansMember
  /\ OneFriendship

-----------------------------------------------------------------------------
(* Constants, rows and cardinalities. *)

LEMMA Tables ==
  /\ DOMAIN StatusesOf = {"JOIN", "INVITE", "TIE", "CODE_TIE", "FRIEND"}
  /\ StatusesOf["JOIN"] = {"PENDING", "ACCEPTED", "DECLINED"}
  /\ StatusesOf["INVITE"] = {"PENDING", "ACCEPTED", "EXPIRED"}
  /\ StatusesOf["TIE"] = {"PENDING", "ACTIVE", "REJECTED", "REMOVED"}
  /\ StatusesOf["CODE_TIE"] = {"ACTIVE", "REMOVED"}
  /\ StatusesOf["FRIEND"] = {"PENDING", "ACTIVE", "REJECTED", "CANCELLED"}
BY DEF StatusesOf

Stated == UNION {StatusesOf[k] : k \in DOMAIN StatusesOf}

LEMMA AllStatuses ==
  \A k \in DOMAIN StatusesOf : \A s \in StatusesOf[k] : s \in Stated
BY DEF Stated

\* A row has the fields of its table, and None is not a row.
LEMMA RowFields ==
  /\ None \notin OfferRow
  /\ \A row \in OfferRow : /\ row.kind \in DOMAIN StatusesOf \cup {"DELETED"}
                           /\ row.from \in Parties /\ row.to \in Parties
                           /\ row.asker \in Parties /\ row.agreed \in Parties
                           /\ row.status \in Stated
BY FamiliesAssumption DEF OfferRow, Stated

LEMMA RowMade ==
  ASSUME NEW k \in DOMAIN StatusesOf \cup {"DELETED"}, NEW f \in Parties, NEW t \in Parties,
         NEW a \in Parties, NEW g \in Parties, NEW s \in Stated
  PROVE  [kind |-> k, from |-> f, to |-> t, asker |-> a, agreed |-> g, status |-> s] \in OfferRow
BY DEF OfferRow, Stated

LEMMA NoneIsNobody == None \notin Users /\ None \notin Families /\ None \notin Offers
BY FamiliesAssumption

LEMMA IdleRow == Idle \in WorkRow /\ Idle.phase = "IDLE"
BY DEF Idle, WorkRow, Phases

LEMMA CanonicalTwice ==
  ASSUME NEW u, NEW v
  PROVE  LET pair == CanonicalPair(u, v) IN
         /\ pair \in {<<u, v>>, <<v, u>>}
         /\ CanonicalPair(pair[1], pair[2]) = pair
<1>1. {u, v} = {v, u}
  OBVIOUS
<1>2. CASE u = CHOOSE x \in {u, v} : TRUE
  BY <1>2 DEF CanonicalPair
<1>3. CASE u # CHOOSE x \in {u, v} : TRUE
  <2>1. CanonicalPair(u, v) = <<v, u>>
    BY <1>3 DEF CanonicalPair
  <2>2. v = CHOOSE x \in {u, v} : TRUE
    BY <1>3
  <2>3. v = CHOOSE x \in {v, u} : TRUE
    BY <1>1, <2>2
  <2>4. CanonicalPair(v, u) = <<v, u>>
    BY <2>3 DEF CanonicalPair
  <2> QED BY <2>1, <2>4
<1> QED BY <1>2, <1>3

\* The order of two users depends on the two of them only.
LEMMA CanonicalSet ==
  ASSUME NEW a, NEW b, NEW c, NEW d, {a, b} = {c, d},
         <<a, b>> = CanonicalPair(a, b), <<c, d>> = CanonicalPair(c, d)
  PROVE  <<a, b>> = <<c, d>>
<1> DEFINE x == CHOOSE y \in {a, b} : TRUE
<1>1. a = x \/ a = b
  BY DEF CanonicalPair
<1>2. c = x \/ c = d
  BY DEF CanonicalPair
<1> HIDE DEF x
<1>3. x \in {a, b}
  BY DEF x
<1> QED BY <1>1, <1>2, <1>3

LEMMA MaxOfTwo ==
  ASSUME NEW a \in Nat, NEW b \in Nat
  PROVE  Max({a, b}) \in Nat /\ Max({a, b}) >= a /\ Max({a, b}) >= b
<1>1. \E x \in {a, b} : \A y \in {a, b} : x >= y
  OBVIOUS
<1> QED BY <1>1 DEF Max

LEMMA Counts ==
  /\ Cardinality(Requests) \in Nat /\ Cardinality(Requests) >= 1
  /\ \A S \in SUBSET Requests : IsFiniteSet(S) /\ Cardinality(S) \in Nat
                                /\ Cardinality(S) <= Cardinality(Requests)
  /\ \A S \in SUBSET Families : IsFiniteSet(S) /\ Cardinality(S) \in Nat
  /\ \A S \in SUBSET Users : IsFiniteSet(S) /\ Cardinality(S) \in Nat
<1>1. \A S \in SUBSET Requests : IsFiniteSet(S) /\ Cardinality(S) \in Nat
                                 /\ Cardinality(S) <= Cardinality(Requests)
  BY FamiliesAssumption, FS_Subset, FS_CardinalityType
<1>2. \A S \in SUBSET Families : IsFiniteSet(S) /\ Cardinality(S) \in Nat
  BY FamiliesAssumption, FS_Subset, FS_CardinalityType
<1>3. \A S \in SUBSET Users : IsFiniteSet(S) /\ Cardinality(S) \in Nat
  BY FamiliesAssumption, FS_Subset, FS_CardinalityType
<1>4. Cardinality(Requests) \in Nat /\ Cardinality(Requests) # 0
  BY FamiliesAssumption, FS_CardinalityType, FS_EmptySet
<1> QED BY <1>1, <1>2, <1>3, <1>4

-----------------------------------------------------------------------------
(* What a step leaves to the requests that do not take it. *)

\* A row stays, its kind and its parties too, until it is deleted.
RowsKept ==
  \A o \in Offers : offers[o] # None =>
    /\ offers'[o] # None
    /\ Exists(o)' =>
         /\ Exists(o)
         /\ offers'[o].kind = offers[o].kind /\ offers'[o].from = offers[o].from
         /\ offers'[o].to = offers[o].to /\ offers'[o].asker = offers[o].asker

\* A link goes with the profile of the user, or with all that refers to the family.
LinksKept ==
  \A u \in Users, f \in Families :
    links[u, f] # "NONE" /\ u \in profiles' =>
      \/ links'[u, f] # "NONE"
      \/ \A o \in Offers : Exists(o)' /\ offers'[o].kind # "FRIEND" =>
                             f \notin {offers'[o].from, offers'[o].to}

Keeps == RowsKept /\ LinksKept /\ profiles' \subseteq profiles

LEMMA GoodKept ==
  ASSUME Keeps, NEW w, Good(w)
  PROVE  Good(w)'
<1>1. InsertGood(w)'
  BY DEF Good, InsertGood
<1>2. AdmitGood(w)'
  BY DEF Good, AdmitGood, Keeps, RowsKept
<1>3. StayGood(w)'
  <2> SUFFICES ASSUME w.phase = "ADMIT", ~w.adds, Exists(w.offer)', w.user \in profiles'
               PROVE  links'[w.user, w.family] # "NONE"
    BY DEF StayGood
  <2>1. /\ w.user \in Users /\ w.family \in Families /\ w.offer \in Offers
        /\ offers[w.offer] # None
    BY DEF Good, AdmitGood, Admitting
  <2>2. /\ Exists(w.offer) /\ offers'[w.offer].kind = offers[w.offer].kind
        /\ offers'[w.offer].from = offers[w.offer].from
        /\ offers'[w.offer].to = offers[w.offer].to
    BY <2>1 DEF Keeps, RowsKept
  <2>3. /\ offers'[w.offer].kind # "FRIEND"
        /\ w.family \in {offers'[w.offer].from, offers'[w.offer].to}
    BY <2>2 DEF Good, AdmitGood, Admitting
  <2>4. links[w.user, w.family] # "NONE"
    BY <2>2 DEF Good, StayGood, Keeps
  <2> QED BY <2>1, <2>3, <2>4 DEF Keeps, LinksKept
<1>4. WriteGood(w)'
  BY DEF Good, WriteGood, Keeps, RowsKept
<1>5. DropGood(w)'
  BY DEF Good, DropGood, Keeps, RowsKept
<1> QED BY <1>1, <1>2, <1>3, <1>4, <1>5 DEF Good

\* Only the request that takes the step has changed what it remembers.
LEMMA WorkKept ==
  ASSUME IInv, Keeps, NEW q \in Requests, NEW x \in WorkRow, Goes(q, x), Good(x)'
  PROVE  /\ WorkGood' /\ work' \in [Requests -> WorkRow]
         /\ work'[q] = x /\ \A p \in Requests : p # q => work'[p] = work[p]
<1>1. work \in [Requests -> WorkRow]
  BY DEF IInv, TypeOK
<1>2. /\ work'[q] = x /\ work' \in [Requests -> WorkRow]
      /\ \A p \in Requests : p # q => work'[p] = work[p]
  BY <1>1 DEF Goes
<1>3. ASSUME NEW p \in Requests PROVE Good(work[p])'
  <2>1. CASE p = q
    BY <1>2, <2>1 DEF Good, InsertGood, AdmitGood, StayGood, WriteGood, DropGood
  <2>2. CASE p # q
    <3>1. PICK w : w = work[p]
      OBVIOUS
    <3>2. Good(w)
      BY <3>1 DEF IInv, WorkGood
    <3>3. Good(w)'
      BY <3>2, GoodKept
    <3>4. work'[p] = w
      BY <1>2, <2>2, <3>1
    <3> QED BY <3>3, <3>4 DEF Good, InsertGood, AdmitGood, StayGood, WriteGood, DropGood
  <2> QED BY <2>1, <2>2
<1> QED BY <1>2, <1>3 DEF WorkGood

\* A request that is not on its way to add a family to u, or a guest to o, counts less.
LEMMA CapFrame ==
  ASSUME IInv, NEW u \in Users, FamiliesOf(u)' \subseteq FamiliesOf(u),
         Adding(u)' \subseteq Adding(u), allowed'[u] \in Nat, allowed'[u] >= allowed[u]
  PROVE  CapKept(u)'
<1>1. /\ FamiliesOf(u) \in SUBSET Families /\ FamiliesOf(u)' \in SUBSET Families
      /\ Adding(u) \in SUBSET Requests /\ Adding(u)' \in SUBSET Requests
      /\ allowed[u] \in Nat
  BY DEF FamiliesOf, Adding, IInv, TypeOK
<1>2. /\ Cardinality(FamiliesOf(u)') <= Cardinality(FamiliesOf(u))
      /\ Cardinality(Adding(u)') <= Cardinality(Adding(u))
  BY <1>1, Counts, FS_Subset
<1>3. Cardinality(FamiliesOf(u)) + Cardinality(Adding(u)) <= allowed[u] + Cardinality(Requests) - 1
  BY DEF IInv, CapKept
<1>4. /\ Cardinality(FamiliesOf(u)) \in Nat /\ Cardinality(FamiliesOf(u)') \in Nat
      /\ Cardinality(Adding(u)) \in Nat /\ Cardinality(Adding(u)') \in Nat
      /\ Cardinality(Requests) \in Nat
  BY <1>1, Counts
<1>5. Cardinality(FamiliesOf(u)') + Cardinality(Adding(u)')
        <= allowed'[u] + Cardinality(Requests) - 1
  BY <1>1, <1>2, <1>3, <1>4
<1> QED BY <1>5 DEF CapKept

LEMMA InviteFrame ==
  ASSUME IInv, NEW o \in Offers, guests'[o] \subseteq guests[o], Working(o)' \subseteq Working(o)
  PROVE  InviteKept(o)'
<1>1. /\ guests[o] \in SUBSET Users /\ guests'[o] \in SUBSET Users
      /\ Working(o) \in SUBSET Requests /\ Working(o)' \in SUBSET Requests
  BY DEF Working, IInv, TypeOK
<1>2. /\ Cardinality(guests'[o]) <= Cardinality(guests[o])
      /\ Cardinality(Working(o)') <= Cardinality(Working(o))
  BY <1>1, Counts, FS_Subset
<1>3. /\ Cardinality(guests[o]) \in Nat /\ Cardinality(guests'[o]) \in Nat
      /\ Cardinality(Working(o)) \in Nat /\ Cardinality(Working(o)') \in Nat
      /\ Cardinality(Requests) \in Nat
  BY <1>1, Counts
<1>4. Cardinality(guests[o]) + Cardinality(Working(o)) <= Cardinality(Requests)
  BY DEF IInv, InviteKept
<1>5. Cardinality(guests'[o]) + Cardinality(Working(o)') <= Cardinality(Requests)
  BY <1>2, <1>3, <1>4
<1> QED BY <1>5 DEF InviteKept

\* The requests that count are the same, but for the one that takes a step.
LEMMA CountedRequests ==
  ASSUME NEW q \in Requests, \A p \in Requests : p # q => work'[p] = work[p],
         work'[q].phase \notin {"FOUND"} \cup Admitting
  PROVE  /\ \A u : Adding(u)' \subseteq Adding(u) \ {q}
         /\ \A o : Working(o)' \subseteq Working(o) \ {q}
BY DEF Adding, Working, Admitting

-----------------------------------------------------------------------------
(* A request reads, decides and remembers: only its work changes. *)

\* It remembers to add a family to a user that has room, and a guest to an invite
\* that has none; both only if it did not already.
Counted(q, x) ==
  /\ x.phase \in {"FOUND", "MEMBER", "ADMIT"} =>
       \/ HasRoom(x.user)
       \/ work[q].phase \in {"FOUND", "MEMBER", "ADMIT"} /\ work[q].user = x.user
  /\ x.phase \in Admitting =>
       \/ guests[x.offer] = {}
       \/ work[q].phase \in Admitting /\ work[q].offer = x.offer

Moves(q) ==
  /\ UNCHANGED tables
  /\ used' \in 0..MaxRequests
  /\ \E x \in WorkRow : Goes(q, x) /\ Good(x) /\ Counted(q, x)

LEMMA RoomKept ==
  ASSUME IInv, NEW u \in Users, HasRoom(u)
  PROVE  Cardinality(FamiliesOf(u)) + Cardinality(Requests)
           <= allowed[u] + Cardinality(Requests) - 1
<1>1. CapOf(u) \in Nat /\ allowed[u] \in Nat /\ CapOf(u) <= allowed[u]
  BY FamiliesAssumption DEF IInv, CapKnown, CapOf, TypeOK
<1>2. Cardinality(FamiliesOf(u)) \in Nat /\ Cardinality(FamiliesOf(u)) < CapOf(u)
  BY Counts DEF HasRoom, FamiliesOf
<1> QED BY <1>1, <1>2, Counts

LEMMA MovesInv ==
  ASSUME IInv, NEW q \in Requests, Moves(q)
  PROVE  IInv'
<1>1. PICK x \in WorkRow : Goes(q, x) /\ Good(x) /\ Counted(q, x)
  BY DEF Moves
<1>2. UNCHANGED <<profiles, cap, families, links, offers, expired, allowed, guests>>
      /\ used' \in 0..MaxRequests
  BY DEF Moves, tables
<1>3. Keeps
  BY <1>2 DEF Keeps, RowsKept, LinksKept, Exists, Rows
<1>4. Good(x)'
  BY <1>1, <1>3, GoodKept
<1>5. /\ WorkGood' /\ work' \in [Requests -> WorkRow]
      /\ work'[q] = x /\ \A p \in Requests : p # q => work'[p] = work[p]
  BY <1>1, <1>3, <1>4, WorkKept
<1>6. TypeOK'
  BY <1>2, <1>5 DEF IInv, TypeOK, Exists, Rows
<1>7. RowsProper' /\ ForeignKeys' /\ Guested' /\ AcceptedMeansMember' /\ OneFriendship'
  BY <1>2 DEF IInv, RowsProper, ForeignKeys, RefersToLive, Guested, AcceptedMeansMember,
              OneFriendship, Exists, Rows
<1>8. ASSUME NEW u \in Users PROVE CapKnown(u)' /\ CapKept(u)'
  <2>1. CapKnown(u)'
    BY <1>2 DEF IInv, CapKnown, CapOf
  <2>2. FamiliesOf(u)' = FamiliesOf(u) /\ allowed'[u] = allowed[u] /\ allowed[u] \in Nat
    BY <1>2 DEF FamiliesOf, IInv, TypeOK
  <2>3. CASE Adding(u)' \subseteq Adding(u)
    BY <2>1, <2>2, <2>3, CapFrame
  <2>4. CASE ~(Adding(u)' \subseteq Adding(u))
    <3>1. x.phase \in {"FOUND", "MEMBER", "ADMIT"} /\ x.user = u /\ HasRoom(u)
      BY <1>1, <1>5, <2>4 DEF Adding, Counted
    <3>2. Adding(u)' \in SUBSET Requests
      BY DEF Adding
    <3>3. Cardinality(Adding(u)') \in Nat /\ Cardinality(Adding(u)') <= Cardinality(Requests)
      BY <3>2, Counts
    <3>4. Cardinality(FamiliesOf(u)) \in Nat
      BY Counts DEF FamiliesOf
    <3>5. Cardinality(FamiliesOf(u)) + Cardinality(Requests)
            <= allowed[u] + Cardinality(Requests) - 1
      BY <3>1, RoomKept
    <3>6. Cardinality(FamiliesOf(u)') + Cardinality(Adding(u)')
            <= allowed'[u] + Cardinality(Requests) - 1
      BY <2>2, <3>3, <3>4, <3>5, Counts
    <3> QED BY <2>1, <3>6 DEF CapKept
  <2> QED BY <2>3, <2>4
<1>9. ASSUME NEW o \in Offers PROVE InviteKept(o)'
  <2>1. guests'[o] = guests[o]
    BY <1>2
  <2>2. CASE Working(o)' \subseteq Working(o)
    BY <2>1, <2>2, InviteFrame
  <2>3. CASE ~(Working(o)' \subseteq Working(o))
    <3>1. guests[o] = {}
      BY <1>1, <1>5, <2>3 DEF Working, Counted
    <3>2. Cardinality(guests'[o]) = 0
      BY <2>1, <3>1, FS_EmptySet
    <3>3. Working(o)' \in SUBSET Requests
      BY DEF Working
    <3>4. Cardinality(Working(o)') \in Nat /\ Cardinality(Working(o)') <= Cardinality(Requests)
      BY <3>3, Counts
    <3> QED BY <3>2, <3>4, Counts DEF InviteKept
  <2> QED BY <2>2, <2>3
<1> QED BY <1>5, <1>6, <1>7, <1>8, <1>9 DEF IInv

LEMMA UsedKept ==
  ASSUME IInv, NEW q, Begin(q) \/ UNCHANGED used
  PROVE  used' \in 0..MaxRequests
<1>1. used \in 0..MaxRequests /\ MaxRequests \in Nat
  BY FamiliesAssumption DEF IInv, TypeOK
<1> QED BY <1>1 DEF Begin

\* It remembers nothing that it must be able to rely on.
LEMMA MovesLightly ==
  ASSUME IInv, NEW q \in Requests, Begin(q) \/ UNCHANGED used, UNCHANGED tables,
         NEW x \in WorkRow, Goes(q, x),
         x.phase \notin {"FOUND", "WRITE"} \cup Admitting,
         InsertGood(x), DropGood(x)
  PROVE  Moves(q)
<1>1. Good(x)
  BY DEF Good, AdmitGood, StayGood, WriteGood, Admitting
<1>2. Counted(q, x)
  BY DEF Counted, Admitting
<1> QED BY <1>1, <1>2, UsedKept DEF Moves

LEMMA ForgetMoves ==
  ASSUME IInv, NEW q \in Requests, Ends(q), Begin(q) \/ UNCHANGED used, UNCHANGED tables
  PROVE  Moves(q)
<1>1. Goes(q, Idle)
  BY DEF Ends
<1>2. InsertGood(Idle) /\ DropGood(Idle) /\ Idle.phase \notin {"FOUND", "WRITE"} \cup Admitting
  BY IdleRow DEF InsertGood, DropGood, Admitting
<1> QED BY <1>1, <1>2, IdleRow, MovesLightly

LEMMA CreateFamilyMoves ==
  ASSUME IInv, NEW q \in Requests, NEW u \in Users, CreateFamily(q, u)
  PROVE  Moves(q)
<1>1. PICK x : x = [Idle EXCEPT !.phase = "FOUND", !.user = u]
  OBVIOUS
<1>2. x \in WorkRow /\ x.phase = "FOUND" /\ x.user = u
  BY <1>1 DEF Idle, WorkRow, Phases
<1>3. Good(x)
  BY <1>2 DEF Good, InsertGood, AdmitGood, StayGood, WriteGood, DropGood, Admitting
<1>4. Counted(q, x)
  BY <1>2 DEF Counted, CreateFamily, Admitting
<1> QED BY <1>1, <1>2, <1>3, <1>4, UsedKept DEF Moves, CreateFamily

\* Reads that only remember a user or a family.
LEMMA AskToJoinMoves ==
  ASSUME IInv, NEW q \in Requests, NEW u \in Users, NEW f \in Families, AskToJoin(q, u, f)
  PROVE  Moves(q)
<1>1. PICK x : x = [Idle EXCEPT !.phase = "ASK", !.user = u, !.family = f]
  OBVIOUS
<1>2. x \in WorkRow /\ x.phase = "ASK" /\ x.user = u /\ x.family = f
  BY <1>1 DEF Idle, WorkRow, Phases
<1>3. InsertGood(x) /\ DropGood(x)
  BY <1>2 DEF InsertGood, DropGood
<1> QED BY <1>1, <1>2, <1>3, MovesLightly DEF AskToJoin, Admitting

LEMMA DeleteUserMoves ==
  ASSUME IInv, NEW q \in Requests, NEW u \in Users, DeleteUser(q, u)
  PROVE  Moves(q)
<1>1. PICK x : x = [Idle EXCEPT !.phase = "UNLINK", !.user = u]
  OBVIOUS
<1>2. x \in WorkRow /\ x.phase = "UNLINK" /\ x.user = u
  BY <1>1 DEF Idle, WorkRow, Phases
<1>3. InsertGood(x) /\ DropGood(x)
  BY <1>2 DEF InsertGood, DropGood
<1> QED BY <1>1, <1>2, <1>3, MovesLightly DEF DeleteUser, Admitting

LEMMA DeleteFamilyMoves ==
  ASSUME IInv, NEW q \in Requests, NEW f \in Families, DeleteFamily(q, f)
  PROVE  Moves(q)
<1>1. PICK x : x = [Idle EXCEPT !.phase = "PURGE", !.family = f]
  OBVIOUS
<1>2. x \in WorkRow /\ x.phase = "PURGE" /\ x.family = f
  BY <1>1 DEF Idle, WorkRow, Phases
<1>3. InsertGood(x) /\ DropGood(x)
  BY <1>2 DEF InsertGood, DropGood
<1> QED BY <1>1, <1>2, <1>3, MovesLightly DEF DeleteFamily, Admitting

\* The rows that the requests ask to insert.
LEMMA OfferMade ==
  ASSUME NEW k \in {"JOIN", "INVITE", "TIE", "FRIEND"}, NEW a \in Parties, NEW b \in Parties,
         NEW c \in Parties,
         k = "JOIN" => a \in Users /\ b \in Families,
         k = "INVITE" => a \in Families,
         k = "FRIEND" => <<a, b>> = CanonicalPair(a, b),
         NEW row, row = Offer(k, a, b, c)
  PROVE  row \in OfferRow /\ Proper(row) /\ row.kind = k /\ row.status = "PENDING"
<1>1. k \in DOMAIN StatusesOf /\ "PENDING" \in StatusesOf[k]
  BY Tables
<1>2. None \in Parties /\ "PENDING" \in Stated
  BY <1>1, AllStatuses DEF Parties
<1>3. row = [kind |-> k, from |-> a, to |-> b, asker |-> c, agreed |-> None, status |-> "PENDING"]
  BY DEF Offer
<1>4. row \in OfferRow
  BY <1>1, <1>2, <1>3, RowMade
<1>5. Proper(row)
  BY <1>1, <1>3 DEF Proper
<1> QED BY <1>3, <1>4, <1>5

\* A request that goes on with a proper row to insert.
LEMMA InsertMoves ==
  ASSUME IInv, NEW q \in Requests, Begin(q) \/ UNCHANGED used, UNCHANGED tables,
         NEW phase \in {"INSERT", "TIE"}, NEW row \in OfferRow, Proper(row),
         row.kind = "JOIN" => row.status = "PENDING",
         NEW w \in WorkRow, Goes(q, [w EXCEPT !.phase = phase, !.row = row])
  PROVE  Moves(q)
<1>1. PICK x : x = [w EXCEPT !.phase = phase, !.row = row]
  OBVIOUS
<1>2. x \in WorkRow /\ x.phase = phase /\ x.row = row
  BY <1>1 DEF WorkRow, Phases
<1>3. InsertGood(x) /\ DropGood(x)
  BY <1>2 DEF InsertGood, DropGood
<1> QED BY <1>1, <1>2, <1>3, MovesLightly DEF Admitting

LEMMA CheckPendingMoves ==
  ASSUME IInv, NEW q \in Requests, CheckPending(q)
  PROVE  Moves(q)
<1> DEFINE w == work[q]
<1>1. w \in WorkRow /\ w.user \in Users /\ w.family \in Families
  BY DEF CheckPending, IInv, TypeOK, WorkGood, Good, DropGood
<1>2. PICK row : row = Offer("JOIN", w.user, w.family, w.user)
  OBVIOUS
<1>3. row \in OfferRow /\ Proper(row) /\ row.status = "PENDING"
  BY <1>1, <1>2, OfferMade DEF Parties
<1>4. \/ Ends(q)
      \/ Goes(q, [w EXCEPT !.phase = "INSERT", !.row = row])
  BY <1>2 DEF CheckPending, Ends
<1>5. UNCHANGED used /\ UNCHANGED tables
  BY DEF CheckPending
<1> HIDE DEF w
<1> QED BY <1>1, <1>3, <1>4, <1>5, ForgetMoves, InsertMoves

LEMMA CreateInviteMoves ==
  ASSUME IInv, NEW q \in Requests, NEW u \in Users, NEW f \in Families, CreateInvite(q, u, f)
  PROVE  Moves(q)
<1>1. PICK row : row = Offer("INVITE", f, None, f)
  OBVIOUS
<1>2. row \in OfferRow /\ Proper(row) /\ row.status = "PENDING"
  BY <1>1, OfferMade DEF Parties
<1>3. Goes(q, [Idle EXCEPT !.phase = "INSERT", !.row = row]) /\ Begin(q) /\ UNCHANGED tables
  BY <1>1 DEF CreateInvite
<1> QED BY <1>2, <1>3, IdleRow, InsertMoves

LEMMA AskForTieMoves ==
  ASSUME IInv, NEW q \in Requests, NEW u, NEW f \in Families, NEW v, AskForTie(q, u, f, v)
  PROVE  Moves(q)
<1>1. PICK g \in Families : Goes(q, [Idle EXCEPT !.phase = "TIE", !.row = Offer("TIE", f, g, f)])
  BY DEF AskForTie
<1>2. PICK row : row = Offer("TIE", f, g, f)
  OBVIOUS
<1>3. row \in OfferRow /\ Proper(row) /\ row.status = "PENDING"
  BY <1>2, OfferMade DEF Parties
<1>4. Goes(q, [Idle EXCEPT !.phase = "TIE", !.row = row]) /\ Begin(q) /\ UNCHANGED tables
  BY <1>1, <1>2 DEF AskForTie
<1> QED BY <1>3, <1>4, IdleRow, InsertMoves

LEMMA ConnectByCodeMoves ==
  ASSUME IInv, NEW q \in Requests, NEW u, NEW f \in Families, NEW g \in Families,
         ConnectByCode(q, u, f, g)
  PROVE  Moves(q)
<1>1. PICK row : row = [Offer("CODE_TIE", f, g, f) EXCEPT !.status = "ACTIVE"]
  OBVIOUS
<1>2. row = [kind |-> "CODE_TIE", from |-> f, to |-> g, asker |-> f, agreed |-> None,
             status |-> "ACTIVE"]
  BY <1>1 DEF Offer
<1>3. "CODE_TIE" \in DOMAIN StatusesOf /\ "ACTIVE" \in StatusesOf["CODE_TIE"]
  BY Tables
<1>4. row \in OfferRow
  BY <1>2, <1>3, AllStatuses, RowMade DEF Parties
<1>5. Proper(row) /\ row.kind # "JOIN"
  BY <1>2, <1>3 DEF Proper
<1>6. Goes(q, [Idle EXCEPT !.phase = "TIE", !.row = row]) /\ Begin(q) /\ UNCHANGED tables
  BY <1>1 DEF ConnectByCode
<1> QED BY <1>4, <1>5, <1>6, IdleRow, InsertMoves

LEMMA CheckPairMoves ==
  ASSUME IInv, NEW q \in Requests, CheckPair(q)
  PROVE  Moves(q)
<1> DEFINE w == work[q]
<1>1. w \in WorkRow /\ w.phase = "TIE" /\ InsertGood(w)
  BY DEF CheckPair, IInv, TypeOK, WorkGood, Good
<1>2. \/ Ends(q)
      \/ Goes(q, [w EXCEPT !.phase = "INSERT"])
  BY DEF CheckPair, Ends
<1>3. UNCHANGED used /\ UNCHANGED tables
  BY DEF CheckPair
<1>4. [w EXCEPT !.phase = "INSERT"] = [w EXCEPT !.phase = "INSERT", !.row = w.row]
  BY <1>1 DEF WorkRow
<1>5. w.row \in OfferRow /\ Proper(w.row) /\ (w.row.kind = "JOIN" => w.row.status = "PENDING")
  BY <1>1 DEF InsertGood
<1> HIDE DEF w
<1> QED BY <1>1, <1>2, <1>3, <1>4, <1>5, ForgetMoves, InsertMoves

LEMMA AskFriendMoves ==
  ASSUME IInv, NEW q \in Requests, NEW u \in Users, NEW v \in Users, AskFriend(q, u, v)
  PROVE  Moves(q)
<1> DEFINE pair == CanonicalPair(u, v)
<1>1. PICK row : row = Offer("FRIEND", pair[1], pair[2], u)
  OBVIOUS
<1>2. pair \in {<<u, v>>, <<v, u>>} /\ CanonicalPair(pair[1], pair[2]) = pair
  BY CanonicalTwice
<1>3. Goes(q, [Idle EXCEPT !.phase = "INSERT", !.row = row]) /\ Begin(q) /\ UNCHANGED tables
  BY <1>1 DEF AskFriend
<1> HIDE DEF pair
<1>4. pair[1] \in Parties /\ pair[2] \in Parties /\ u \in Parties
      /\ <<pair[1], pair[2]>> = CanonicalPair(pair[1], pair[2])
  BY <1>2 DEF Parties
<1>5. row \in OfferRow /\ Proper(row) /\ row.status = "PENDING"
  BY <1>1, <1>4, OfferMade
<1> QED BY <1>3, <1>5, IdleRow, InsertMoves

\* A row that exists, and what is known of it.
LEMMA RowKnown ==
  ASSUME IInv, NEW o \in Offers, Exists(o)
  PROVE  /\ offers[o] # None /\ offers[o] \in OfferRow /\ Proper(offers[o])
         /\ offers[o].kind \in DOMAIN StatusesOf
BY DEF IInv, TypeOK, RowsProper, Exists, Rows, Proper

LEMMA RowsExist ==
  \A o \in Offers, S \in SUBSET (DOMAIN StatusesOf) :
    o \in Rows(S) => Exists(o) /\ offers[o].kind \in S
BY DEF Rows, Exists

\* A request that goes on with a decision on the row it has loaded.
LEMMA WriteMoves ==
  ASSUME IInv, NEW q \in Requests, Begin(q), UNCHANGED tables,
         NEW o \in Offers, Exists(o), NEW s \in Stated, NEW a \in Parties,
         s \in StatusesOf[offers[o].kind], s # "PENDING",
         offers[o].kind = "JOIN" => s # "ACCEPTED",
         s = "ACTIVE" => a \in {offers[o].from, offers[o].to} \ {offers[o].asker},
         NEW row, row = [offers[o] EXCEPT !.status = s, !.agreed = a],
         Goes(q, [Idle EXCEPT !.phase = "WRITE", !.offer = o, !.row = row])
  PROVE  Moves(q)
<1>1. PICK old \in OfferRow : old = offers[o] /\ Proper(old) /\ old # None
  BY RowKnown
<1>2. row = [old EXCEPT !.status = s, !.agreed = a]
  BY <1>1
<1>3. /\ row \in OfferRow /\ row.kind = old.kind /\ row.from = old.from /\ row.to = old.to
      /\ row.asker = old.asker /\ row.status = s /\ row.agreed = a
  BY <1>2 DEF OfferRow, Stated
<1>4. Proper(row)
  BY <1>1, <1>3 DEF Proper
<1>5. PICK x : x = [Idle EXCEPT !.phase = "WRITE", !.offer = o, !.row = row]
  OBVIOUS
<1>6. x \in WorkRow /\ x.phase = "WRITE" /\ x.offer = o /\ x.row = row
  BY <1>3, <1>5 DEF Idle, WorkRow, Phases
<1>7. WriteGood(x)
  BY <1>1, <1>3, <1>4, <1>6 DEF WriteGood
<1>8. Good(x)
  BY <1>6, <1>7 DEF Good, InsertGood, AdmitGood, StayGood, DropGood, Admitting
<1>9. Counted(q, x)
  BY <1>6 DEF Counted, Admitting
<1> QED BY <1>5, <1>6, <1>8, <1>9, UsedKept DEF Moves

LEMMA SameAgreed ==
  \A row \in OfferRow : \A s : [row EXCEPT !.status = s] = [row EXCEPT !.status = s, !.agreed = row.agreed]
BY DEF OfferRow

\* A decision that needs nobody's consent.
LEMMA PlainWriteMoves ==
  ASSUME IInv, NEW q \in Requests, Begin(q), UNCHANGED tables,
         NEW o \in Offers, Exists(o), NEW s \in {"DECLINED", "EXPIRED"},
         s \in StatusesOf[offers[o].kind],
         Goes(q, [Idle EXCEPT !.phase = "WRITE", !.offer = o,
                              !.row = [offers[o] EXCEPT !.status = s]])
  PROVE  Moves(q)
<1>1. offers[o] \in OfferRow /\ offers[o].agreed \in Parties
  BY RowKnown, RowFields
<1>2. [offers[o] EXCEPT !.status = s] = [offers[o] EXCEPT !.status = s, !.agreed = offers[o].agreed]
  BY <1>1, SameAgreed
<1>3. PICK row : row = [offers[o] EXCEPT !.status = s]
  OBVIOUS
<1>4. s \in Stated /\ s # "PENDING" /\ s # "ACTIVE" /\ s # "ACCEPTED"
  BY RowKnown, AllStatuses
<1>5. Goes(q, [Idle EXCEPT !.phase = "WRITE", !.offer = o, !.row = row])
  BY <1>3
<1> QED BY <1>1, <1>2, <1>3, <1>4, <1>5, WriteMoves

LEMMA DeclineJoinMoves ==
  ASSUME IInv, NEW q \in Requests, NEW u \in Users, NEW o \in Offers, DeclineJoin(q, u, o)
  PROVE  Moves(q)
<1>1. Exists(o) /\ offers[o].kind = "JOIN"
  BY Tables, RowsExist DEF DeclineJoin
<1>2. "DECLINED" \in StatusesOf[offers[o].kind] /\ "DECLINED" \in {"DECLINED", "EXPIRED"}
  BY <1>1, Tables
<1>3. Goes(q, [Idle EXCEPT !.phase = "WRITE", !.offer = o,
                           !.row = [offers[o] EXCEPT !.status = "DECLINED"]])
      /\ Begin(q) /\ UNCHANGED tables
  BY DEF DeclineJoin
<1> QED BY <1>1, <1>2, <1>3, PlainWriteMoves

\* A request that goes on to let somebody in by an offer that is PENDING.
LEMMA AdmitMoves ==
  ASSUME IInv, NEW q \in Requests, Begin(q), UNCHANGED tables,
         NEW o \in Offers, Exists(o), offers[o].status = "PENDING",
         NEW u \in Users, NEW f \in Families,
         offers[o].kind \in {"JOIN", "INVITE"},
         offers[o].kind = "INVITE" => f = offers[o].from,
         offers[o].kind = "JOIN" => u = offers[o].from /\ f = offers[o].to,
         Goes(q, [Idle EXCEPT !.phase = "CAP", !.user = u, !.family = f, !.offer = o])
  PROVE  Moves(q)
<1>1. PICK x : x = [Idle EXCEPT !.phase = "CAP", !.user = u, !.family = f, !.offer = o]
  OBVIOUS
<1>2. x \in WorkRow /\ x.phase = "CAP" /\ x.user = u /\ x.family = f /\ x.offer = o
  BY <1>1 DEF Idle, WorkRow, Phases, Admitting
<1>3. AdmitGood(x)
  BY <1>2, RowKnown DEF AdmitGood
<1>4. Good(x)
  BY <1>2, <1>3 DEF Good, InsertGood, StayGood, WriteGood, DropGood
<1>5. guests[o] = {}
  BY DEF IInv, Guested
<1>6. Counted(q, x)
  BY <1>2, <1>5 DEF Counted
<1> QED BY <1>1, <1>2, <1>4, <1>6, UsedKept DEF Moves

LEMMA AcceptJoinMoves ==
  ASSUME IInv, NEW q \in Requests, NEW u \in Users, NEW o \in Offers, AcceptJoin(q, u, o)
  PROVE  Moves(q)
<1>1. Exists(o) /\ offers[o].kind = "JOIN"
  BY Tables, RowsExist DEF AcceptJoin
<1>2. offers[o].from \in Users /\ offers[o].to \in Families
  BY <1>1, RowKnown DEF Proper
<1> QED BY <1>1, <1>2, AdmitMoves DEF AcceptJoin

LEMMA AcceptInviteMoves ==
  ASSUME IInv, NEW q \in Requests, NEW u \in Users, NEW o \in Offers, AcceptInvite(q, u, o)
  PROVE  Moves(q)
<1>1. Exists(o) /\ offers[o].kind = "INVITE"
  BY Tables, RowsExist DEF AcceptInvite
<1>2. offers[o].from \in Families
  BY <1>1, RowKnown DEF Proper
<1>3. "EXPIRED" \in StatusesOf[offers[o].kind] /\ "EXPIRED" \in {"DECLINED", "EXPIRED"}
  BY <1>1, Tables
<1>4. Begin(q) /\ UNCHANGED tables /\ offers[o].status = "PENDING"
  BY DEF AcceptInvite
<1>5. CASE o \in expired
  <2>1. Goes(q, [Idle EXCEPT !.phase = "WRITE", !.offer = o,
                             !.row = [offers[o] EXCEPT !.status = "EXPIRED"]])
    BY <1>5 DEF AcceptInvite
  <2> QED BY <1>1, <1>3, <1>4, <2>1, PlainWriteMoves
<1>6. CASE o \notin expired
  <2>1. Goes(q, [Idle EXCEPT !.phase = "CAP", !.user = u, !.family = offers[o].from, !.offer = o])
    BY <1>6 DEF AcceptInvite
  <2> QED BY <1>1, <1>2, <1>4, <2>1, AdmitMoves
<1> QED BY <1>5, <1>6

\* The answers that a party may give to a row.
LEMMA AnswerMoves ==
  ASSUME IInv, NEW q \in Requests, Begin(q), UNCHANGED tables,
         NEW o \in Offers, Exists(o), offers[o].kind \in {"FRIEND", "TIE", "CODE_TIE"},
         NEW party \in Parties, NEW row \in Answer(o, party),
         Goes(q, [Idle EXCEPT !.phase = "WRITE", !.offer = o, !.row = row])
  PROVE  Moves(q)
<1> DEFINE old == offers[o]
<1>1. old \in OfferRow /\ Proper(old) /\ old.agreed \in Parties
  BY RowKnown, RowFields
<1>2. PICK s : /\ row = [old EXCEPT !.status = s, !.agreed = IF s = "ACTIVE" THEN party ELSE @]
               /\ \/ s \in {"ACTIVE", "REJECTED"} /\ MayAnswer(o, party)
                  \/ s = "CANCELLED" /\ old.kind = "FRIEND" /\ old.status = "PENDING"
                  \/ s = "REMOVED" /\ old.kind \in FamilyTies
  BY DEF Answer
<1>3. MayAnswer(o, party) => /\ old.status = "PENDING" /\ party \in {old.from, old.to}
                             /\ party # old.asker
  BY DEF MayAnswer
<1>4. PICK a : a = IF s = "ACTIVE" THEN party ELSE old.agreed
  OBVIOUS
<1>5. row = [old EXCEPT !.status = s, !.agreed = a] /\ a \in Parties
  BY <1>1, <1>2, <1>4
<1>6. s \in StatusesOf[old.kind]
  BY <1>1, <1>2, <1>3, Tables DEF Proper, FamilyTies
<1>7. s \in Stated /\ s # "PENDING" /\ old.kind # "JOIN"
  BY <1>1, <1>2, <1>6, AllStatuses DEF Proper
<1>8. s = "ACTIVE" => a \in {old.from, old.to} \ {old.asker}
  BY <1>2, <1>3, <1>4
<1> QED BY <1>1, <1>5, <1>6, <1>7, <1>8, WriteMoves

LEMMA AnswerTieMoves ==
  ASSUME IInv, NEW q \in Requests, NEW u, NEW f \in Families, NEW o \in Offers,
         AnswerTie(q, u, f, o)
  PROVE  Moves(q)
<1>1. Exists(o) /\ offers[o].kind \in FamilyTies
  BY Tables, RowsExist DEF AnswerTie, FamilyTies
<1>2. PICK row \in Answer(o, f) : Goes(q, [Idle EXCEPT !.phase = "WRITE", !.offer = o, !.row = row])
  BY DEF AnswerTie
<1>3. Begin(q) /\ UNCHANGED tables /\ f \in Parties
  BY DEF AnswerTie, Parties
<1> QED BY <1>1, <1>2, <1>3, AnswerMoves DEF FamilyTies

LEMMA AnswerFriendMoves ==
  ASSUME IInv, NEW q \in Requests, NEW u \in Users, NEW o \in Offers, AnswerFriend(q, u, o)
  PROVE  Moves(q)
<1>1. Exists(o) /\ offers[o].kind = "FRIEND"
  BY Tables, RowsExist DEF AnswerFriend
<1>2. PICK row \in Answer(o, u) : Goes(q, [Idle EXCEPT !.phase = "WRITE", !.offer = o, !.row = row])
  BY DEF AnswerFriend
<1>3. Begin(q) /\ UNCHANGED tables /\ u \in Parties
  BY DEF AnswerFriend, Parties
<1> QED BY <1>1, <1>2, <1>3, AnswerMoves

LEMMA CheckCapMoves ==
  ASSUME IInv, NEW q \in Requests, CheckCap(q)
  PROVE  Moves(q)
<1> DEFINE w == work[q]
<1>1. w \in WorkRow /\ w.phase = "CAP" /\ Good(w) /\ UNCHANGED used /\ UNCHANGED tables
  BY DEF CheckCap, IInv, TypeOK, WorkGood
<1>2. CASE Ends(q)
  BY <1>1, <1>2, ForgetMoves
<1>3. CASE HasRoom(w.user) /\ Goes(q, [w EXCEPT !.phase = "MEMBER"])
  <2>1. PICK x : x = [w EXCEPT !.phase = "MEMBER"]
    OBVIOUS
  <2>2. /\ x \in WorkRow /\ x.phase = "MEMBER" /\ x.user = w.user /\ x.family = w.family
        /\ x.offer = w.offer
    BY <1>1, <2>1 DEF WorkRow, Phases, Admitting
  <2>3. Good(x)
    BY <1>1, <2>2 DEF Good, InsertGood, AdmitGood, StayGood, WriteGood, DropGood, Admitting
  <2>4. Counted(q, x)
    BY <1>1, <1>3, <2>2 DEF Counted, Admitting
  <2> QED BY <1>1, <1>3, <2>1, <2>2, <2>3, <2>4, UsedKept DEF Moves
<1> QED BY <1>2, <1>3 DEF CheckCap, Ends

LEMMA CheckMemberMoves ==
  ASSUME IInv, NEW q \in Requests, CheckMember(q)
  PROVE  Moves(q)
<1> DEFINE w == work[q]
           adds == ~IsMember(w.user, w.family)
<1>1. w \in WorkRow /\ w.phase = "MEMBER" /\ Good(w) /\ UNCHANGED used /\ UNCHANGED tables
      /\ Goes(q, [w EXCEPT !.phase = "ADMIT", !.adds = adds])
  BY DEF CheckMember, IInv, TypeOK, WorkGood
<1>2. adds \in BOOLEAN /\ (~adds => links[w.user, w.family] # "NONE")
  BY DEF IsMember
<1> HIDE DEF adds
<1>3. PICK x : x = [w EXCEPT !.phase = "ADMIT", !.adds = adds]
  OBVIOUS
<1>4. /\ x \in WorkRow /\ x.phase = "ADMIT" /\ x.user = w.user /\ x.family = w.family
      /\ x.offer = w.offer /\ x.adds = adds
  BY <1>1, <1>2, <1>3 DEF WorkRow, Phases, Admitting
<1>5. Good(x)
  BY <1>1, <1>2, <1>4 DEF Good, InsertGood, AdmitGood, StayGood, WriteGood, DropGood, Admitting
<1>6. Counted(q, x)
  BY <1>1, <1>4 DEF Counted, Admitting
<1> QED BY <1>1, <1>3, <1>4, <1>5, <1>6, UsedKept DEF Moves

LEMMA UnlinkUserMoves ==
  ASSUME IInv, NEW q \in Requests, UnlinkUser(q)
  PROVE  Moves(q)
<1> DEFINE w == work[q]
           seen == FamiliesOf(w.user)
<1>1. w \in WorkRow /\ w.phase = "UNLINK" /\ w.user \in Users /\ UNCHANGED used /\ UNCHANGED tables
      /\ Goes(q, [w EXCEPT !.phase = "DROP_USER", !.seen = seen])
  BY DEF UnlinkUser, IInv, TypeOK, WorkGood, Good, DropGood
<1>2. seen \subseteq Families
  BY DEF FamiliesOf
<1> HIDE DEF seen
<1>3. PICK x : x = [w EXCEPT !.phase = "DROP_USER", !.seen = seen]
  OBVIOUS
<1>4. x \in WorkRow /\ x.phase = "DROP_USER" /\ x.user = w.user
  BY <1>1, <1>2, <1>3 DEF WorkRow, Phases
<1>5. InsertGood(x) /\ DropGood(x)
  BY <1>1, <1>4 DEF InsertGood, DropGood
<1> QED BY <1>1, <1>3, <1>4, <1>5, MovesLightly DEF Admitting

LEMMA PurgeFamilyMoves ==
  ASSUME IInv, NEW q \in Requests, PurgeFamily(q)
  PROVE  Moves(q)
<1> DEFINE w == work[q]
           seen == Referring(w.family)
<1>1. /\ w \in WorkRow /\ w.phase = "PURGE" /\ w.family \in Families
      /\ UNCHANGED used /\ UNCHANGED tables
      /\ Goes(q, [w EXCEPT !.phase = "DROP_FAMILY", !.seen = seen])
  BY DEF PurgeFamily, IInv, TypeOK, WorkGood, Good, DropGood
<1>2. seen \subseteq Users \cup Families \cup Offers
  BY DEF Referring, MembersOf, Rows
<1>3. \A o \in seen \cap Offers : offers[o] # None
  BY FamiliesAssumption DEF Referring, MembersOf, Rows
<1> HIDE DEF seen
<1>4. PICK x : x = [w EXCEPT !.phase = "DROP_FAMILY", !.seen = seen]
  OBVIOUS
<1>5. x \in WorkRow /\ x.phase = "DROP_FAMILY" /\ x.family = w.family /\ x.seen = seen
  BY <1>1, <1>2, <1>4 DEF WorkRow, Phases
<1>6. InsertGood(x) /\ DropGood(x)
  BY <1>1, <1>3, <1>5 DEF InsertGood, DropGood
<1> QED BY <1>1, <1>4, <1>5, <1>6, MovesLightly DEF Admitting

LEMMA CrashMoves ==
  ASSUME IInv, NEW q \in Requests, Crash(q)
  PROVE  Moves(q)
<1>1. Ends(q) /\ UNCHANGED used /\ UNCHANGED tables
  BY DEF Crash
<1> QED BY <1>1, ForgetMoves

-----------------------------------------------------------------------------
(* The steps that write. *)

LEMMA EndsFacts ==
  ASSUME IInv, Keeps, NEW q \in Requests, Ends(q)
  PROVE  /\ WorkGood' /\ work' \in [Requests -> WorkRow]
         /\ \A u : Adding(u)' \subseteq Adding(u) \ {q}
         /\ \A o : Working(o)' \subseteq Working(o) \ {q}
<1>1. Goes(q, Idle) /\ Idle \in WorkRow
  BY IdleRow DEF Ends
<1>2. Good(Idle)'
  BY IdleRow DEF Good, InsertGood, AdmitGood, StayGood, WriteGood, DropGood, Admitting
<1>3. /\ WorkGood' /\ work' \in [Requests -> WorkRow]
      /\ work'[q] = Idle /\ \A p \in Requests : p # q => work'[p] = work[p]
  BY <1>1, <1>2, WorkKept
<1>4. work'[q].phase \notin {"FOUND"} \cup Admitting
  BY <1>3, IdleRow DEF Admitting
<1> QED BY <1>3, <1>4, CountedRequests

\* A step that leaves the offers as they are.
LEMMA OffersKept ==
  ASSUME IInv, offers' = offers
  PROVE  /\ RowsKept /\ RowsProper' /\ OneFriendship'
         /\ \A o \in Offers : Exists(o)' <=> Exists(o)
         /\ Rows({"INVITE"})' = Rows({"INVITE"}) /\ Rows({"JOIN"})' = Rows({"JOIN"})
         /\ guests' = guests => Guested'
         /\ families' = families => ForeignKeys'
         /\ links' = links /\ profiles' = profiles => AcceptedMeansMember' /\ LinksKept
BY DEF IInv, RowsKept, RowsProper, OneFriendship, Exists, Rows, Guested, ForeignKeys,
       RefersToLive, AcceptedMeansMember, LinksKept

LEMMA SetCapInv ==
  ASSUME IInv, NEW q \in Requests, NEW u \in Users, NEW c \in Caps, SetCap(q, u, c)
  PROVE  IInv'
<1>1. /\ UNCHANGED <<profiles, families, links, offers, expired, work, guests>>
      /\ cap' = [cap EXCEPT ![u] = c] /\ allowed' = [allowed EXCEPT ![u] = Max({allowed[u], c})]
  BY DEF SetCap
<1>2. /\ c \in Nat /\ cap \in [Users -> Nat] /\ allowed \in [Users -> Nat]
  BY FamiliesAssumption DEF IInv, TypeOK
<1>3. /\ cap' \in [Users -> Nat] /\ allowed' \in [Users -> Nat] /\ allowed'[u] >= c
      /\ \A v \in Users : allowed'[v] >= allowed[v]
      /\ cap'[u] = c /\ \A v \in Users : v # u => cap'[v] = cap[v]
  BY <1>1, <1>2, MaxOfTwo
<1>4. used' \in 0..MaxRequests
  BY UsedKept DEF SetCap
<1>5. TypeOK'
  BY <1>1, <1>3, <1>4, OffersKept DEF IInv, TypeOK
<1>6. WorkGood'
  BY <1>1 DEF IInv, WorkGood, Good, InsertGood, AdmitGood, StayGood, WriteGood, DropGood, Exists,
              Rows
<1>7. ASSUME NEW v \in Users PROVE CapKnown(v)' /\ CapKept(v)'
  <2>1. CapOf(v) \in Nat /\ CapOf(v) <= allowed[v] /\ allowed[v] \in Nat /\ allowed'[v] \in Nat
    BY <1>2, <1>3, FamiliesAssumption DEF IInv, CapKnown, CapOf
  <2>2. CapKnown(v)'
    BY <1>1, <1>2, <1>3, <2>1 DEF CapKnown, CapOf
  <2>3. FamiliesOf(v)' = FamiliesOf(v) /\ Adding(v)' = Adding(v)
    BY <1>1 DEF FamiliesOf, Adding
  <2>4. CapKept(v)'
    BY <1>3, <2>1, <2>3, CapFrame
  <2> QED BY <2>2, <2>4
<1>8. ASSUME NEW o \in Offers PROVE InviteKept(o)'
  <2>1. guests'[o] = guests[o] /\ Working(o)' = Working(o)
    BY <1>1 DEF Working
  <2> QED BY <2>1 DEF InviteKept, IInv
<1> QED BY <1>1, <1>5, <1>6, <1>7, <1>8, OffersKept DEF IInv

LEMMA InsertInv ==
  ASSUME IInv, NEW q \in Requests, NEW row \in OfferRow, NEW needs, Insert(q, row, needs),
         Proper(row), row.kind = "JOIN" => row.status = "PENDING",
         row.kind # "FRIEND" => {row.from, row.to} \cap Families \subseteq needs,
         row.kind = "FRIEND" => ~\E p \in Rows({"FRIEND"}) : PairOf(p) = <<row.from, row.to>>
  PROVE  IInv'
<1>1. CASE UNCHANGED offers
  <2>1. Ends(q) /\ UNCHANGED used /\ UNCHANGED tables
    BY <1>1 DEF Insert, tables
  <2> QED BY <2>1, ForgetMoves, MovesInv
<1>2. CASE ~UNCHANGED offers
  <2>1. PICK o \in Offers : offers[o] = None /\ offers' = [offers EXCEPT ![o] = row]
    BY <1>2 DEF Insert
  <2>2. /\ Ends(q) /\ UNCHANGED <<profiles, cap, families, links, expired, used, allowed, guests>>
        /\ \A f \in needs : families[f] = "LIVE"
    BY <1>2 DEF Insert
  <2>3. /\ offers'[o] = row /\ \A p \in Offers : p # o => offers'[p] = offers[p]
        /\ offers' \in [Offers -> OfferRow \cup {None}] /\ row # None
    BY <2>1, RowFields DEF IInv, TypeOK
  <2>4. /\ Exists(o)' /\ ~Exists(o)
        /\ \A p \in Offers : p # o => (Exists(p)' <=> Exists(p))
    BY <2>1, <2>3 DEF Exists, Rows, Proper
  <2>5. RowsKept
    BY <2>1, <2>3, <2>4 DEF RowsKept
  <2>6. Keeps
    BY <2>2, <2>5 DEF Keeps, LinksKept
  <2>7. RowsProper'
    BY <2>3, <2>4 DEF IInv, RowsProper, Proper
  <2>8. ForeignKeys'
    BY <2>2, <2>3, <2>4 DEF IInv, ForeignKeys, RefersToLive
  <2>9. Guested'
    BY <2>1, <2>2, <2>3 DEF IInv, Guested
  <2>10. \A p \in Offers : /\ p \in Rows({"INVITE"}) => p \in Rows({"INVITE"})'
                           /\ p \in Rows({"JOIN"})' => p = o \/ p \in Rows({"JOIN"})
                           /\ p \in Rows({"FRIEND"})' => p = o \/ p \in Rows({"FRIEND"})
    BY <2>1, <2>3 DEF Rows
  <2>11. TypeOK'
    <3>1. \A p \in Offers : Exists(p)' => offers'[p].status \in StatusesOf[offers'[p].kind]
      BY <2>7 DEF RowsProper, Proper
    <3>2. expired \subseteq Rows({"INVITE"})'
      BY <2>10 DEF IInv, TypeOK, Rows
    <3> QED BY <2>2, <2>3, <2>6, <3>1, <3>2, EndsFacts DEF IInv, TypeOK
  <2>12. AcceptedMeansMember'
    <3> SUFFICES ASSUME NEW p \in Rows({"JOIN"})', offers'[p].status = "ACCEPTED",
                        offers'[p].from \in profiles'
                 PROVE  links'[offers'[p].from, offers'[p].to] # "NONE"
      BY DEF AcceptedMeansMember
    <3>1. p \in Offers /\ p # o
      BY <2>3 DEF Rows
    <3>2. p \in Rows({"JOIN"}) /\ offers'[p] = offers[p]
      BY <2>3, <2>10, <3>1
    <3> QED BY <2>2, <3>2 DEF IInv, AcceptedMeansMember
  <2>13. OneFriendship'
    <3> SUFFICES ASSUME NEW p \in Rows({"FRIEND"})', NEW r \in Rows({"FRIEND"})',
                        {offers'[p].from, offers'[p].to} = {offers'[r].from, offers'[r].to}
                 PROVE  p = r
      BY DEF OneFriendship
    <3>1. p \in Offers /\ r \in Offers /\ offers'[p].kind = "FRIEND" /\ offers'[r].kind = "FRIEND"
          /\ Exists(p)' /\ Exists(r)'
      BY Tables DEF Rows, Exists
    <3>2. /\ <<offers'[p].from, offers'[p].to>>
                 = CanonicalPair(offers'[p].from, offers'[p].to)
          /\ <<offers'[r].from, offers'[r].to>>
                 = CanonicalPair(offers'[r].from, offers'[r].to)
      BY <2>7, <3>1 DEF RowsProper, Proper
    <3>3. <<offers'[p].from, offers'[p].to>> = <<offers'[r].from, offers'[r].to>>
      BY <3>2, CanonicalSet
    <3>4. CASE p # o /\ r # o
      BY <2>3, <2>10, <3>1, <3>4 DEF IInv, OneFriendship
    <3>5. CASE p = o /\ r # o
      <4>1. r \in Rows({"FRIEND"}) /\ PairOf(r) = <<row.from, row.to>> /\ row.kind = "FRIEND"
        BY <2>3, <2>10, <3>1, <3>3, <3>5 DEF PairOf
      <4> QED BY <4>1
    <3>6. CASE r = o /\ p # o
      <4>1. p \in Rows({"FRIEND"}) /\ PairOf(p) = <<row.from, row.to>> /\ row.kind = "FRIEND"
        BY <2>3, <2>10, <3>1, <3>3, <3>6 DEF PairOf
      <4> QED BY <4>1
    <3> QED BY <3>4, <3>5, <3>6
  <2>14. ASSUME NEW u \in Users PROVE CapKnown(u)' /\ CapKept(u)'
    <3>1. CapKnown(u)'
      BY <2>2 DEF IInv, CapKnown, CapOf
    <3>2. FamiliesOf(u)' = FamiliesOf(u) /\ allowed'[u] = allowed[u] /\ allowed[u] \in Nat
      BY <2>2 DEF FamiliesOf, IInv, TypeOK
    <3>3. Adding(u)' \subseteq Adding(u)
      BY <2>2, <2>6, EndsFacts
    <3> QED BY <3>1, <3>2, <3>3, CapFrame
  <2>15. ASSUME NEW p \in Offers PROVE InviteKept(p)'
    <3>1. Working(p)' \subseteq Working(p) /\ guests'[p] \subseteq guests[p]
      BY <2>2, <2>6, EndsFacts
    <3> QED BY <3>1, InviteFrame
  <2> QED BY <2>2, <2>6, <2>7, <2>8, <2>9, <2>11, <2>12, <2>13, <2>14, <2>15, EndsFacts DEF IInv
<1> QED BY <1>1, <1>2

LEMMA InsertOfferInv ==
  ASSUME IInv, NEW q \in Requests, InsertOffer(q)
  PROVE  IInv'
<1>1. PICK row : row = work[q].row
  OBVIOUS
<1>2. /\ row \in OfferRow /\ Proper(row) /\ (row.kind = "JOIN" => row.status = "PENDING")
      /\ row.kind # "FRIEND" /\ Insert(q, row, {row.from, row.to} \cap Families)
  BY <1>1 DEF InsertOffer, IInv, WorkGood, Good, InsertGood
<1> QED BY <1>2, InsertInv

LEMMA InsertFriendInv ==
  ASSUME IInv, NEW q \in Requests, InsertFriend(q)
  PROVE  IInv'
<1>1. PICK row : row = work[q].row
  OBVIOUS
<1>2. /\ row \in OfferRow /\ Proper(row) /\ row.kind = "FRIEND"
  BY <1>1 DEF InsertFriend, IInv, WorkGood, Good, InsertGood
<1>3. CASE /\ Insert(q, row, {})
           /\ ~\E o \in Rows({"FRIEND"}) : PairOf(o) = <<row.from, row.to>>
  BY <1>2, <1>3, InsertInv
<1>4. CASE Ends(q) /\ UNCHANGED used /\ UNCHANGED tables
  BY <1>4, ForgetMoves, MovesInv
<1> QED BY <1>1, <1>3, <1>4 DEF InsertFriend

\* An invite passes its date.
LEMMA ExpireInv ==
  ASSUME IInv, NEW o \in Offers, Expire(o)
  PROVE  IInv'
<1>1. /\ UNCHANGED <<profiles, cap, families, links, offers, work, used, allowed, guests>>
      /\ expired' \subseteq Rows({"INVITE"})
  BY DEF Expire, IInv, TypeOK
<1>2. TypeOK'
  BY <1>1, OffersKept DEF IInv, TypeOK
<1>3. WorkGood'
  BY <1>1 DEF IInv, WorkGood, Good, InsertGood, AdmitGood, StayGood, WriteGood, DropGood, Exists,
              Rows
<1>4. RowsProper' /\ OneFriendship' /\ Guested' /\ ForeignKeys' /\ AcceptedMeansMember'
  BY <1>1, OffersKept
<1>5. \A u \in Users : CapKnown(u)' /\ CapKept(u)'
  BY <1>1 DEF IInv, CapKnown, CapKept, CapOf, FamiliesOf, Adding
<1>6. \A p \in Offers : InviteKept(p)'
  BY <1>1 DEF IInv, InviteKept, Working
<1> QED BY <1>2, <1>3, <1>4, <1>5, <1>6 DEF IInv

LEMMA OneMore ==
  ASSUME NEW S, IsFiniteSet(S), NEW x
  PROVE  IsFiniteSet(S \cup {x}) /\ Cardinality(S \cup {x}) <= Cardinality(S) + 1
<1>1. IsFiniteSet(S \cup {x})
      /\ Cardinality(S \cup {x}) = IF x \in S THEN Cardinality(S) ELSE Cardinality(S) + 1
  BY FS_AddElement
<1>2. Cardinality(S) \in Nat
  BY FS_CardinalityType
<1> QED BY <1>1, <1>2

\* The link a request writes is the one it was counted for.
LEMMA CapMoved ==
  ASSUME IInv, NEW u \in Users, NEW f \in Families, NEW q \in Adding(u),
         FamiliesOf(u)' \subseteq FamiliesOf(u) \cup {f}, Adding(u)' \subseteq Adding(u) \ {q},
         allowed'[u] = allowed[u]
  PROVE  CapKept(u)'
<1>1. /\ FamiliesOf(u) \in SUBSET Families /\ FamiliesOf(u)' \in SUBSET Families
      /\ Adding(u) \in SUBSET Requests /\ Adding(u)' \in SUBSET Requests
      /\ allowed[u] \in Nat
  BY DEF FamiliesOf, Adding, IInv, TypeOK
<1>2. /\ IsFiniteSet(FamiliesOf(u)) /\ IsFiniteSet(Adding(u))
      /\ Cardinality(FamiliesOf(u)) \in Nat /\ Cardinality(FamiliesOf(u)') \in Nat
      /\ Cardinality(Adding(u)) \in Nat /\ Cardinality(Adding(u)') \in Nat
      /\ Cardinality(Requests) \in Nat
  BY <1>1, Counts
<1>3. /\ IsFiniteSet(FamiliesOf(u) \cup {f})
      /\ Cardinality(FamiliesOf(u) \cup {f}) <= Cardinality(FamiliesOf(u)) + 1
  BY <1>2, OneMore
<1>4. Cardinality(FamiliesOf(u)') <= Cardinality(FamiliesOf(u) \cup {f})
  BY <1>3, FS_Subset
<1>5. /\ IsFiniteSet(Adding(u) \ {q})
      /\ Cardinality(Adding(u) \ {q}) = Cardinality(Adding(u)) - 1
  BY <1>2, FS_RemoveElement
<1>6. Cardinality(Adding(u)') <= Cardinality(Adding(u)) - 1
  BY <1>5, FS_Subset
<1>7. Cardinality(FamiliesOf(u)') <= Cardinality(FamiliesOf(u)) + 1
  <2>1. Cardinality(FamiliesOf(u) \cup {f}) \in Nat
    BY <1>3, FS_CardinalityType
  <2> QED BY <1>2, <1>3, <1>4, <2>1
<1>8. Cardinality(FamiliesOf(u)) + Cardinality(Adding(u)) <= allowed[u] + Cardinality(Requests) - 1
  BY DEF IInv, CapKept
<1>9. Cardinality(FamiliesOf(u)') + Cardinality(Adding(u)')
        <= allowed'[u] + Cardinality(Requests) - 1
  BY <1>1, <1>2, <1>6, <1>7, <1>8
<1> QED BY <1>9 DEF CapKept

LEMMA InviteMoved ==
  ASSUME IInv, NEW o \in Offers, NEW u \in Users, NEW q \in Working(o),
         guests'[o] \subseteq guests[o] \cup {u}, Working(o)' \subseteq Working(o) \ {q}
  PROVE  InviteKept(o)'
<1>1. /\ guests[o] \in SUBSET Users /\ guests'[o] \in SUBSET Users
      /\ Working(o) \in SUBSET Requests /\ Working(o)' \in SUBSET Requests
  BY DEF Working, IInv, TypeOK
<1>2. /\ IsFiniteSet(guests[o]) /\ IsFiniteSet(Working(o))
      /\ Cardinality(guests[o]) \in Nat /\ Cardinality(guests'[o]) \in Nat
      /\ Cardinality(Working(o)) \in Nat /\ Cardinality(Working(o)') \in Nat
      /\ Cardinality(Requests) \in Nat
  BY <1>1, Counts
<1>3. /\ IsFiniteSet(guests[o] \cup {u})
      /\ Cardinality(guests[o] \cup {u}) <= Cardinality(guests[o]) + 1
  BY <1>2, OneMore
<1>4. Cardinality(guests'[o]) <= Cardinality(guests[o] \cup {u})
      /\ Cardinality(guests[o] \cup {u}) \in Nat
  BY <1>3, FS_Subset, FS_CardinalityType
<1>5. /\ IsFiniteSet(Working(o) \ {q})
      /\ Cardinality(Working(o) \ {q}) = Cardinality(Working(o)) - 1
  BY <1>2, FS_RemoveElement
<1>6. Cardinality(Working(o)') <= Cardinality(Working(o)) - 1
  BY <1>5, FS_Subset
<1>7. Cardinality(guests[o]) + Cardinality(Working(o)) <= Cardinality(Requests)
  BY DEF IInv, InviteKept
<1>8. Cardinality(guests'[o]) + Cardinality(Working(o)') <= Cardinality(Requests)
  BY <1>2, <1>3, <1>4, <1>6, <1>7
<1> QED BY <1>8 DEF InviteKept

LEMMA FoundInv ==
  ASSUME IInv, NEW q \in Requests, Found(q)
  PROVE  IInv'
<1>1. PICK u \in Users : u = work[q].user
  BY DEF Found, IInv, WorkGood, Good, DropGood
<1>2. PICK f \in Families : /\ families[f] = "FREE"
                            /\ families' = [families EXCEPT ![f] = "LIVE"]
                            /\ links' = [links EXCEPT ![<<u, f>>] = "HEAD"]
  BY <1>1 DEF Found
<1>3. Ends(q) /\ UNCHANGED <<profiles, cap, offers, expired, used, allowed, guests>>
  BY DEF Found
<1>4. /\ families \in [Families -> {"FREE", "LIVE", "GONE"}]
      /\ links \in [Users \X Families -> {"NONE", "MEMBER", "HEAD"}]
      /\ \A p \in Users \X Families : links[p] # "NONE" => families[p[2]] = "LIVE"
  BY DEF IInv, TypeOK
<1>5. /\ families' \in [Families -> {"FREE", "LIVE", "GONE"}] /\ families'[f] = "LIVE"
      /\ \A g \in Families : families[g] = "LIVE" => families'[g] = "LIVE"
  BY <1>2, <1>4
<1>6. /\ links' \in [Users \X Families -> {"NONE", "MEMBER", "HEAD"}]
      /\ \A p \in Users \X Families : p # <<u, f>> => links'[p] = links[p]
      /\ links'[<<u, f>>] = "HEAD"
  BY <1>2, <1>4
<1>7. \A p \in Users \X Families : links'[p] # "NONE" => families'[p[2]] = "LIVE"
  BY <1>4, <1>5, <1>6
<1>8. \A v \in Users, g \in Families : links[v, g] # "NONE" => links'[v, g] # "NONE"
  BY <1>6
<1>9. Keeps
  BY <1>3, <1>8, OffersKept DEF Keeps, LinksKept
<1>10. TypeOK'
  BY <1>3, <1>5, <1>6, <1>7, <1>9, EndsFacts, OffersKept DEF IInv, TypeOK
<1>11. ForeignKeys'
  BY <1>3, <1>5, OffersKept DEF IInv, ForeignKeys, RefersToLive
<1>12. AcceptedMeansMember'
  <2> SUFFICES ASSUME NEW o \in Rows({"JOIN"}), offers[o].status = "ACCEPTED",
                      offers[o].from \in profiles
               PROVE  links'[offers[o].from, offers[o].to] # "NONE"
    BY <1>3, OffersKept DEF AcceptedMeansMember
  <2>1. Exists(o) /\ offers[o].kind = "JOIN" /\ o \in Offers
    BY Tables DEF Rows, Exists
  <2>2. offers[o].from \in Users /\ offers[o].to \in Families
    BY <2>1, RowKnown DEF Proper
  <2>3. links[offers[o].from, offers[o].to] # "NONE"
    BY DEF IInv, AcceptedMeansMember
  <2> QED BY <1>8, <2>2, <2>3
<1>13. ASSUME NEW v \in Users PROVE CapKnown(v)' /\ CapKept(v)'
  <2>1. CapKnown(v)'
    BY <1>3 DEF IInv, CapKnown, CapOf
  <2>2. allowed'[v] = allowed[v] /\ allowed[v] \in Nat
    BY <1>3 DEF IInv, TypeOK
  <2>3. Adding(v)' \subseteq Adding(v) \ {q}
    BY <1>3, <1>9, EndsFacts
  <2>4. CASE v = u
    <3>1. q \in Adding(v)
      BY <1>1, <2>4 DEF Found, Adding
    <3>2. FamiliesOf(v)' \subseteq FamiliesOf(v) \cup {f}
      BY <1>6, <2>4 DEF FamiliesOf
    <3> QED BY <2>1, <2>2, <2>3, <3>1, <3>2, CapMoved
  <2>5. CASE v # u
    <3>1. FamiliesOf(v)' \subseteq FamiliesOf(v)
      BY <1>6, <2>5 DEF FamiliesOf
    <3> QED BY <2>1, <2>2, <2>3, <3>1, CapFrame
  <2> QED BY <2>4, <2>5
<1>14. ASSUME NEW o \in Offers PROVE InviteKept(o)'
  <2>1. guests'[o] \subseteq guests[o] /\ Working(o)' \subseteq Working(o)
    BY <1>3, <1>9, EndsFacts
  <2> QED BY <2>1, InviteFrame
<1> QED BY <1>3, <1>9, <1>10, <1>11, <1>12, <1>13, <1>14, EndsFacts, OffersKept DEF IInv

\* A step that changes the status of one row, and who agreed to it.
LEMMA RowChanged ==
  ASSUME IInv, NEW o \in Offers, Exists(o), NEW new \in OfferRow, Proper(new),
         new.kind = offers[o].kind, new.from = offers[o].from, new.to = offers[o].to,
         new.asker = offers[o].asker, offers' = [offers EXCEPT ![o] = new]
  PROVE  /\ offers' \in [Offers -> OfferRow \cup {None}] /\ offers'[o] = new
         /\ \A p \in Offers : p # o => offers'[p] = offers[p]
         /\ \A p \in Offers : Exists(p)' <=> Exists(p)
         /\ Rows({"INVITE"})' = Rows({"INVITE"}) /\ Rows({"JOIN"})' = Rows({"JOIN"})
         /\ RowsKept /\ RowsProper' /\ OneFriendship'
         /\ \A p \in Offers : Exists(p)' => offers'[p].status \in StatusesOf[offers'[p].kind]
         /\ families' = families => ForeignKeys'
<1>1. /\ offers[o] # None /\ new # None
      /\ offers \in [Offers -> OfferRow \cup {None}]
  BY RowKnown, RowFields DEF IInv, TypeOK
<1>2. /\ offers' \in [Offers -> OfferRow \cup {None}] /\ offers'[o] = new
      /\ \A p \in Offers : p # o => offers'[p] = offers[p]
  BY <1>1
<1>3. \A p \in Offers : /\ offers'[p] # None <=> offers[p] # None
                        /\ offers'[p].kind = offers[p].kind /\ offers'[p].from = offers[p].from
                        /\ offers'[p].to = offers[p].to /\ offers'[p].asker = offers[p].asker
  BY <1>1, <1>2
<1>4. \A S : Rows(S)' = Rows(S)
  BY <1>3 DEF Rows
<1>5. \A p \in Offers : Exists(p)' <=> Exists(p)
  BY <1>4 DEF Exists
<1>6. RowsKept
  BY <1>3, <1>5 DEF RowsKept
<1>7. RowsProper'
  <2> SUFFICES ASSUME NEW p \in Offers, Exists(p)' PROVE Proper(offers[p])'
    BY DEF RowsProper
  <2>1. CASE p = o
    BY <1>2, <2>1 DEF Proper
  <2>2. CASE p # o
    <3>1. Proper(offers[p]) /\ offers'[p] = offers[p]
      BY <1>2, <1>5, <2>2 DEF IInv, RowsProper
    <3> QED BY <3>1 DEF Proper
  <2> QED BY <2>1, <2>2
<1>8. OneFriendship'
  <2> SUFFICES ASSUME NEW p \in Rows({"FRIEND"})', NEW r \in Rows({"FRIEND"})',
                      {offers'[p].from, offers'[p].to} = {offers'[r].from, offers'[r].to}
               PROVE  p = r
    BY DEF OneFriendship
  <2>1. p \in Rows({"FRIEND"}) /\ r \in Rows({"FRIEND"})
    BY <1>4
  <2>2. p \in Offers /\ r \in Offers
    BY <2>1 DEF Rows
  <2>3. {offers[p].from, offers[p].to} = {offers[r].from, offers[r].to}
    BY <1>3, <2>2
  <2> QED BY <2>1, <2>3 DEF IInv, OneFriendship
<1>9. families' = families => ForeignKeys'
  BY <1>3, <1>5 DEF IInv, ForeignKeys, RefersToLive
<1>10. \A p \in Offers : Exists(p)' => offers'[p].status \in StatusesOf[offers'[p].kind]
  BY <1>7 DEF RowsProper, Proper
<1> QED BY <1>2, <1>4, <1>5, <1>6, <1>7, <1>8, <1>9, <1>10

LEMMA WriteStatusInv ==
  ASSUME IInv, NEW q \in Requests, WriteStatus(q)
  PROVE  IInv'
<1> DEFINE w == work[q]
<1>1. PICK o : o = w.offer
  OBVIOUS
<1>2. /\ Ends(q) /\ UNCHANGED <<profiles, cap, families, links, expired, used, allowed, guests>>
      /\ w.phase = "WRITE" /\ WriteGood(w) /\ o \in Offers
  BY <1>1 DEF WriteStatus, IInv, WorkGood, Good, WriteGood
<1>3. CASE ~Exists(o)
  <2>1. UNCHANGED used /\ UNCHANGED tables
    BY <1>1, <1>2, <1>3 DEF WriteStatus, tables
  <2> QED BY <1>2, <2>1, ForgetMoves, MovesInv
<1>4. CASE Exists(o)
  <2>1. PICK row \in OfferRow : row = w.row
    BY <1>2 DEF WriteGood
  <2>2. /\ Proper(row) /\ row.status # "PENDING" /\ row.kind = offers[o].kind
        /\ row.from = offers[o].from /\ row.to = offers[o].to /\ row.asker = offers[o].asker
        /\ row.kind = "JOIN" => row.status # "ACCEPTED"
    BY <1>1, <1>2, <1>4, <2>1 DEF WriteGood
  <2>3. PICK old \in OfferRow : old = offers[o] /\ Proper(old)
    BY <1>2, <1>4, RowKnown
  <2>4. PICK a : a = IF row.status = "ACTIVE" THEN row.agreed ELSE old.agreed
    OBVIOUS
  <2>5. PICK new : new = [old EXCEPT !.status = row.status, !.agreed = a]
    OBVIOUS
  <2>6. offers' = [offers EXCEPT ![o] = new]
    <3>1. offers' = [offers EXCEPT ![o].status = row.status,
                                   ![o].agreed = IF row.status = "ACTIVE" THEN row.agreed ELSE @]
      BY <1>1, <1>4, <2>1 DEF WriteStatus
    <3>2. offers \in [Offers -> OfferRow \cup {None}]
      BY DEF IInv, TypeOK
    <3> QED BY <1>2, <2>3, <2>4, <2>5, <3>1, <3>2 DEF OfferRow
  <2>7. row.status \in Stated /\ a \in Parties
    BY <2>4, RowFields
  <2>8. /\ new \in OfferRow /\ new.kind = old.kind /\ new.from = old.from /\ new.to = old.to
        /\ new.asker = old.asker /\ new.status = row.status /\ new.agreed = a
    BY <2>5, <2>7 DEF OfferRow, Stated
  <2>9. Proper(new)
    BY <2>2, <2>3, <2>4, <2>8 DEF Proper
  <2>10. /\ offers' \in [Offers -> OfferRow \cup {None}] /\ offers'[o] = new
         /\ \A p \in Offers : p # o => offers'[p] = offers[p]
         /\ \A p \in Offers : Exists(p)' <=> Exists(p)
         /\ Rows({"INVITE"})' = Rows({"INVITE"}) /\ Rows({"JOIN"})' = Rows({"JOIN"})
         /\ RowsKept /\ RowsProper' /\ OneFriendship' /\ ForeignKeys'
         /\ \A p \in Offers : Exists(p)' => offers'[p].status \in StatusesOf[offers'[p].kind]
    BY <1>2, <1>4, <2>3, <2>6, <2>8, <2>9, RowChanged
  <2> HIDE DEF w
  <2>11. Keeps
    BY <1>2, <2>10 DEF Keeps, LinksKept
  <2>12. TypeOK'
    BY <1>2, <2>10, <2>11, EndsFacts DEF IInv, TypeOK
  <2>13. Guested'
    <3> SUFFICES ASSUME NEW p \in Offers,
                        offers'[p] = None \/ offers'[p].kind # "INVITE" \/ offers'[p].status = "PENDING"
                 PROVE  guests'[p] = {}
      BY DEF Guested
    <3>1. CASE p = o
      BY <1>2, <2>2, <2>3, <2>8, <2>10, <3>1, RowFields DEF IInv, Guested
    <3>2. CASE p # o
      BY <1>2, <2>10, <3>2 DEF IInv, Guested
    <3> QED BY <3>1, <3>2
  <2>14. AcceptedMeansMember'
    <3> SUFFICES ASSUME NEW p \in Rows({"JOIN"}), offers'[p].status = "ACCEPTED",
                        offers'[p].from \in profiles'
                 PROVE  links'[offers'[p].from, offers'[p].to] # "NONE"
      BY <2>10 DEF AcceptedMeansMember
    <3>1. p \in Offers /\ offers[p].kind = "JOIN"
      BY DEF Rows
    <3>2. p # o
      BY <2>2, <2>8, <2>10, <3>1
    <3> QED BY <1>2, <2>10, <3>1, <3>2 DEF IInv, AcceptedMeansMember
  <2>15. ASSUME NEW u \in Users PROVE CapKnown(u)' /\ CapKept(u)'
    <3>1. CapKnown(u)'
      BY <1>2 DEF IInv, CapKnown, CapOf
    <3>2. FamiliesOf(u)' = FamiliesOf(u) /\ allowed'[u] = allowed[u] /\ allowed[u] \in Nat
      BY <1>2 DEF FamiliesOf, IInv, TypeOK
    <3>3. Adding(u)' \subseteq Adding(u)
      BY <1>2, <2>11, EndsFacts
    <3> QED BY <3>1, <3>2, <3>3, CapFrame
  <2>16. ASSUME NEW p \in Offers PROVE InviteKept(p)'
    <3>1. Working(p)' \subseteq Working(p) /\ guests'[p] \subseteq guests[p]
      BY <1>2, <2>11, EndsFacts
    <3> QED BY <3>1, InviteFrame
  <2> QED BY <1>2, <2>10, <2>11, <2>12, <2>13, <2>14, <2>15, <2>16, EndsFacts DEF IInv
<1> QED BY <1>3, <1>4

\* The link, the guest and the status are written together.
LEMMA AdmitInv ==
  ASSUME IInv, NEW q \in Requests, Admit(q)
  PROVE  IInv'
<1> DEFINE w == work[q]
           fits == Exists(w.offer) /\ (w.adds => ~IsMember(w.user, w.family))
<1>1. PICK o : o = w.offer
  OBVIOUS
<1>2. PICK u : u = w.user
  OBVIOUS
<1>3. PICK f : f = w.family
  OBVIOUS
<1>4. /\ Ends(q) /\ UNCHANGED <<profiles, cap, families, expired, used, allowed>>
      /\ w.phase = "ADMIT" /\ AdmitGood(w) /\ StayGood(w)
  BY DEF Admit, IInv, WorkGood, Good
<1>5. CASE ~fits
  <2>1. UNCHANGED used /\ UNCHANGED tables
    BY <1>4, <1>5 DEF Admit, tables
  <2> QED BY <1>4, <2>1, ForgetMoves, MovesInv
<1>6. CASE fits
  <2>1. /\ o \in Offers /\ u \in Users /\ f \in Families /\ Exists(o)
        /\ offers[o].kind \in {"JOIN", "INVITE"}
        /\ offers[o].kind = "INVITE" => f = offers[o].from
        /\ offers[o].kind = "JOIN" => u = offers[o].from /\ f = offers[o].to
    BY <1>1, <1>2, <1>3, <1>4, <1>6 DEF AdmitGood, Admitting
  <2>2. PICK adds : adds = w.adds
    OBVIOUS
  <2>3. /\ links' = IF adds THEN [links EXCEPT ![<<u, f>>] = "MEMBER"] ELSE links
        /\ guests' = IF offers[o].kind = "INVITE" THEN [guests EXCEPT ![o] = @ \cup {u}] ELSE guests
        /\ offers' = [offers EXCEPT ![o].status = "ACCEPTED"]
        /\ ~adds /\ u \in profiles => links[u, f] # "NONE"
    BY <1>1, <1>2, <1>3, <1>4, <1>6, <2>2 DEF Admit, StayGood
  <2>4. q \in Adding(u) /\ q \in Working(o)
    BY <1>1, <1>2, <1>4 DEF Adding, Working, Admitting
  <2> HIDE DEF w, fits
  <2>5. PICK old \in OfferRow : old = offers[o] /\ Proper(old)
    BY <2>1, RowKnown
  <2>6. PICK new : new = [old EXCEPT !.status = "ACCEPTED"]
    OBVIOUS
  <2>7. offers' = [offers EXCEPT ![o] = new]
    BY <2>3, <2>5, <2>6
  <2>8. "ACCEPTED" \in StatusesOf[old.kind] /\ "ACCEPTED" \in Stated
    BY <2>1, <2>5, Tables, AllStatuses
  <2>9. /\ new \in OfferRow /\ new.kind = old.kind /\ new.from = old.from /\ new.to = old.to
        /\ new.asker = old.asker /\ new.status = "ACCEPTED" /\ new.agreed = old.agreed
    BY <2>6, <2>8 DEF OfferRow, Stated
  <2>10. Proper(new)
    BY <2>1, <2>5, <2>8, <2>9 DEF Proper
  <2>11. /\ offers' \in [Offers -> OfferRow \cup {None}] /\ offers'[o] = new
         /\ \A p \in Offers : p # o => offers'[p] = offers[p]
         /\ \A p \in Offers : Exists(p)' <=> Exists(p)
         /\ Rows({"INVITE"})' = Rows({"INVITE"}) /\ Rows({"JOIN"})' = Rows({"JOIN"})
         /\ RowsKept /\ RowsProper' /\ OneFriendship' /\ ForeignKeys'
         /\ \A p \in Offers : Exists(p)' => offers'[p].status \in StatusesOf[offers'[p].kind]
    BY <1>4, <2>1, <2>5, <2>7, <2>9, <2>10, RowChanged
  <2>12. /\ links \in [Users \X Families -> {"NONE", "MEMBER", "HEAD"}]
         /\ \A p \in Users \X Families : links[p] # "NONE" => families[p[2]] = "LIVE"
         /\ guests \in [Offers -> SUBSET Users]
    BY DEF IInv, TypeOK
  <2>13. /\ links' \in [Users \X Families -> {"NONE", "MEMBER", "HEAD"}]
         /\ \A p \in Users \X Families : p # <<u, f>> => links'[p] = links[p]
         /\ \A p \in Users \X Families : links[p] # "NONE" => links'[p] # "NONE"
         /\ u \in profiles => links'[<<u, f>>] # "NONE"
    BY <2>1, <2>3, <2>12
  <2>14. families[f] = "LIVE"
    BY <2>1 DEF IInv, ForeignKeys, RefersToLive
  <2>15. \A p \in Users \X Families : links'[p] # "NONE" => families[p[2]] = "LIVE"
    BY <2>12, <2>13, <2>14
  <2>16. /\ guests' \in [Offers -> SUBSET Users]
         /\ \A p \in Offers : p # o => guests'[p] = guests[p]
         /\ guests'[o] \subseteq guests[o] \cup {u}
         /\ offers[o].kind = "JOIN" => guests'[o] = guests[o]
    BY <2>1, <2>3, <2>12
  <2>17. Keeps
    BY <1>4, <2>11, <2>13 DEF Keeps, LinksKept
  <2>18. TypeOK'
    BY <1>4, <2>11, <2>13, <2>15, <2>16, <2>17, EndsFacts DEF IInv, TypeOK
  <2>19. Guested'
    <3> SUFFICES ASSUME NEW p \in Offers,
                        offers'[p] = None \/ offers'[p].kind # "INVITE" \/ offers'[p].status = "PENDING"
                 PROVE  guests'[p] = {}
      BY DEF Guested
    <3>1. CASE p = o
      <4>1. offers[o].kind = "JOIN"
        BY <2>1, <2>5, <2>9, <2>11, <3>1, RowFields
      <4>2. guests[o] = {}
        BY <4>1, <2>1 DEF IInv, Guested
      <4> QED BY <2>16, <3>1, <4>1, <4>2
    <3>2. CASE p # o
      BY <2>11, <2>16, <3>2 DEF IInv, Guested
    <3> QED BY <3>1, <3>2
  <2>20. AcceptedMeansMember'
    <3> SUFFICES ASSUME NEW p \in Rows({"JOIN"}), offers'[p].status = "ACCEPTED",
                        offers'[p].from \in profiles
                 PROVE  links'[offers'[p].from, offers'[p].to] # "NONE"
      BY <1>4, <2>11 DEF AcceptedMeansMember
    <3>1. p \in Offers /\ Exists(p) /\ offers[p].kind = "JOIN"
      BY Tables DEF Rows, Exists
    <3>2. CASE p = o
      <4>1. offers'[p].from = u /\ offers'[p].to = f
        BY <2>1, <2>5, <2>9, <2>11, <3>1, <3>2
      <4> QED BY <2>13, <4>1
    <3>3. CASE p # o
      <4>1. offers[p].from \in Users /\ offers[p].to \in Families
        BY <3>1, RowKnown DEF Proper
      <4>2. offers'[p] = offers[p] /\ links[offers[p].from, offers[p].to] # "NONE"
        BY <2>11, <3>1, <3>3 DEF IInv, AcceptedMeansMember
      <4> QED BY <2>13, <4>1, <4>2
    <3> QED BY <3>2, <3>3
  <2>21. ASSUME NEW v \in Users PROVE CapKnown(v)' /\ CapKept(v)'
    <3>1. CapKnown(v)'
      BY <1>4 DEF IInv, CapKnown, CapOf
    <3>2. allowed'[v] = allowed[v] /\ allowed[v] \in Nat
      BY <1>4 DEF IInv, TypeOK
    <3>3. Adding(v)' \subseteq Adding(v) \ {q}
      BY <1>4, <2>17, EndsFacts
    <3>4. CASE v = u
      <4>1. FamiliesOf(v)' \subseteq FamiliesOf(v) \cup {f}
        BY <2>13, <3>4 DEF FamiliesOf
      <4> QED BY <2>1, <2>4, <3>1, <3>2, <3>3, <3>4, <4>1, CapMoved
    <3>5. CASE v # u
      <4>1. FamiliesOf(v)' \subseteq FamiliesOf(v)
        BY <2>13, <3>5 DEF FamiliesOf
      <4> QED BY <3>1, <3>2, <3>3, <4>1, CapFrame
    <3> QED BY <3>4, <3>5
  <2>22. ASSUME NEW p \in Offers PROVE InviteKept(p)'
    <3>1. Working(p)' \subseteq Working(p) \ {q}
      BY <1>4, <2>17, EndsFacts
    <3>2. CASE p = o
      BY <2>1, <2>4, <2>16, <3>1, <3>2, InviteMoved
    <3>3. CASE p # o
      BY <2>16, <3>1, <3>3, InviteFrame
    <3> QED BY <3>2, <3>3
  <2> QED BY <1>4, <2>11, <2>17, <2>18, <2>19, <2>20, <2>21, <2>22, EndsFacts DEF IInv
<1> QED BY <1>5, <1>6

\* A profile goes, with the links that were seen.
LEMMA DropUserInv ==
  ASSUME IInv, NEW q \in Requests, DropUser(q)
  PROVE  IInv'
<1> DEFINE w == work[q]
<1>1. PICK u \in Users : u = w.user
  BY DEF DropUser, IInv, WorkGood, Good, DropGood
<1>2. PICK seen : seen = w.seen
  OBVIOUS
<1>3. /\ Ends(q) /\ UNCHANGED <<cap, families, offers, expired, used, guests>>
      /\ links' = [p \in Users \X Families |-> IF p[1] = u /\ p[2] \in seen THEN "NONE" ELSE links[p]]
      /\ profiles' = profiles \ {u}
      /\ allowed' = [allowed EXCEPT ![u] = Max({allowed[u], DefaultCap})]
  BY <1>1, <1>2 DEF DropUser
<1> HIDE DEF w
<1>4. /\ links \in [Users \X Families -> {"NONE", "MEMBER", "HEAD"}]
      /\ \A p \in Users \X Families : links[p] # "NONE" => families[p[2]] = "LIVE"
      /\ allowed \in [Users -> Nat] /\ profiles \subseteq Users /\ DefaultCap \in Nat
  BY FamiliesAssumption DEF IInv, TypeOK
<1>5. /\ links' \in [Users \X Families -> {"NONE", "MEMBER", "HEAD"}]
      /\ \A p \in Users \X Families : links'[p] # "NONE" => links[p] # "NONE"
      /\ \A p \in Users \X Families : p[1] # u => links'[p] = links[p]
  BY <1>3, <1>4
<1>6. /\ allowed' \in [Users -> Nat] /\ allowed'[u] >= DefaultCap
      /\ \A v \in Users : allowed'[v] >= allowed[v]
  BY <1>3, <1>4, MaxOfTwo
<1>7. \A v \in Users, g \in Families : v # u => links'[v, g] = links[v, g]
  BY <1>5
<1>8. Keeps
  BY <1>3, <1>7, OffersKept DEF Keeps, LinksKept
<1>9. TypeOK'
  <2>1. \A p \in Users \X Families : links'[p] # "NONE" => families'[p[2]] = "LIVE"
    BY <1>3, <1>4, <1>5
  <2> QED BY <1>3, <1>4, <1>5, <1>6, <1>8, <2>1, EndsFacts, OffersKept DEF IInv, TypeOK
<1>10. AcceptedMeansMember'
  <2> SUFFICES ASSUME NEW o \in Rows({"JOIN"}), offers[o].status = "ACCEPTED",
                      offers[o].from \in profiles'
               PROVE  links'[offers[o].from, offers[o].to] # "NONE"
    BY <1>3, OffersKept DEF AcceptedMeansMember
  <2>1. Exists(o) /\ offers[o].kind = "JOIN" /\ o \in Offers
    BY Tables DEF Rows, Exists
  <2>2. offers[o].from \in Users /\ offers[o].to \in Families
    BY <2>1, RowKnown DEF Proper
  <2>3. offers[o].from # u /\ links[offers[o].from, offers[o].to] # "NONE"
    BY <1>3 DEF IInv, AcceptedMeansMember
  <2> QED BY <1>7, <2>2, <2>3
<1>11. ASSUME NEW v \in Users PROVE CapKnown(v)' /\ CapKept(v)'
  <2>1. CapKnown(v)'
    <3>1. CapOf(v) <= allowed[v] /\ CapOf(v) \in Nat /\ allowed[v] \in Nat /\ allowed'[v] \in Nat
      BY <1>4, <1>6, FamiliesAssumption DEF IInv, CapKnown, CapOf, TypeOK
    <3>2. CASE v = u
      BY <1>3, <1>6, <3>2 DEF CapKnown, CapOf
    <3>3. CASE v # u
      <4>1. CapOf(v)' = CapOf(v)
        BY <1>3, <3>3 DEF CapOf
      <4> QED BY <1>6, <3>1, <4>1 DEF CapKnown
    <3> QED BY <3>2, <3>3
  <2>2. FamiliesOf(v)' \subseteq FamiliesOf(v)
    BY <1>5 DEF FamiliesOf
  <2>3. Adding(v)' \subseteq Adding(v)
    BY <1>3, <1>8, EndsFacts
  <2> QED BY <1>6, <2>1, <2>2, <2>3, CapFrame
<1>12. ASSUME NEW o \in Offers PROVE InviteKept(o)'
  <2>1. guests'[o] \subseteq guests[o] /\ Working(o)' \subseteq Working(o)
    BY <1>3, <1>8, EndsFacts
  <2> QED BY <2>1, InviteFrame
<1> QED BY <1>3, <1>8, <1>9, <1>10, <1>11, <1>12, EndsFacts, OffersKept DEF IInv

\* A family goes, with the rows that referred to it, once nothing else does.
LEMMA DropFamilyInv ==
  ASSUME IInv, NEW q \in Requests, DropFamily(q)
  PROVE  IInv'
<1> DEFINE w == work[q]
<1>1. PICK f \in Families : f = w.family
  BY DEF DropFamily, IInv, WorkGood, Good, DropGood
<1>2. PICK seen : seen = w.seen
  OBVIOUS
<1>3. Ends(q) /\ UNCHANGED <<profiles, cap, used, allowed>>
      /\ \A o \in seen \cap Offers : offers[o] # None
  BY <1>2 DEF DropFamily, IInv, WorkGood, Good, DropGood
<1>4. CASE ~(Referring(f) \subseteq seen)
  <2>1. UNCHANGED used /\ UNCHANGED tables
    BY <1>1, <1>2, <1>4 DEF DropFamily, tables
  <2> QED BY <1>3, <2>1, ForgetMoves, MovesInv
<1>5. CASE Referring(f) \subseteq seen
  <2>1. /\ families' = [families EXCEPT ![f] = "GONE"]
        /\ links' = [p \in Users \X Families |-> IF p[2] = f THEN "NONE" ELSE links[p]]
        /\ offers' = [o \in Offers |-> IF o \in seen THEN Deleted(offers[o]) ELSE offers[o]]
        /\ guests' = [o \in Offers |-> IF o \in seen THEN {} ELSE guests[o]]
        /\ expired' = expired \ seen
    BY <1>1, <1>2, <1>5 DEF DropFamily
  <2> HIDE DEF w
  <2>2. /\ families \in [Families -> {"FREE", "LIVE", "GONE"}]
        /\ links \in [Users \X Families -> {"NONE", "MEMBER", "HEAD"}]
        /\ \A p \in Users \X Families : links[p] # "NONE" => families[p[2]] = "LIVE"
        /\ offers \in [Offers -> OfferRow \cup {None}] /\ guests \in [Offers -> SUBSET Users]
    BY DEF IInv, TypeOK
  <2>3. /\ families' \in [Families -> {"FREE", "LIVE", "GONE"}]
        /\ \A g \in Families : g # f => families'[g] = families[g]
    BY <2>1, <2>2
  <2>4. /\ links' \in [Users \X Families -> {"NONE", "MEMBER", "HEAD"}]
        /\ \A p \in Users \X Families : links'[p] # "NONE" => links[p] # "NONE" /\ p[2] # f
        /\ \A p \in Users \X Families : p[2] # f => links'[p] = links[p]
    BY <2>1, <2>2
  <2>5. \A row \in OfferRow : Deleted(row) \in OfferRow /\ Deleted(row).kind = "DELETED"
    BY DEF Deleted, OfferRow
  <2>6. \A o \in Offers : /\ o \in seen => /\ offers'[o] \in OfferRow
                                           /\ offers'[o].kind = "DELETED"
                          /\ o \notin seen => offers'[o] = offers[o]
    BY <1>3, <2>1, <2>2, <2>5
  <2>7. offers' \in [Offers -> OfferRow \cup {None}]
    BY <2>1, <2>2, <2>6
  <2>8. \A o \in Offers : o \in seen => offers'[o] # None
    BY <2>6, RowFields
  <2>9. \A o \in Offers, S \in SUBSET (DOMAIN StatusesOf) :
          o \in Rows(S)' <=> o \in Rows(S) /\ o \notin seen
    BY <2>6, Tables DEF Rows
  <2>10. \A o \in Offers : Exists(o)' <=> Exists(o) /\ o \notin seen
    BY <2>9 DEF Exists
  <2>11. \A o \in Offers : Exists(o)' /\ offers'[o].kind # "FRIEND" =>
                             f \notin {offers'[o].from, offers'[o].to}
    <3> SUFFICES ASSUME NEW o \in Offers, Exists(o)', offers'[o].kind # "FRIEND",
                        f \in {offers'[o].from, offers'[o].to}
                 PROVE  FALSE
      OBVIOUS
    <3>1. Exists(o) /\ o \notin seen /\ offers'[o] = offers[o]
      BY <2>6, <2>10
    <3>2. o \in Rows(DOMAIN StatusesOf \ {"FRIEND"})
      BY <3>1 DEF Exists, Rows
    <3>3. o \in Referring(f)
      BY <3>1, <3>2 DEF Referring
    <3> QED BY <1>5, <3>1, <3>3
  <2>12. RowsKept
    BY <2>6, <2>8, <2>10 DEF RowsKept
  <2>13. LinksKept
    <3> SUFFICES ASSUME NEW u \in Users, NEW g \in Families, links[u, g] # "NONE"
                 PROVE  \/ links'[u, g] # "NONE"
                        \/ \A o \in Offers : Exists(o)' /\ offers'[o].kind # "FRIEND" =>
                                               g \notin {offers'[o].from, offers'[o].to}
      BY DEF LinksKept
    <3>1. CASE g = f
      BY <2>11, <3>1
    <3>2. CASE g # f
      BY <2>4, <3>2
    <3> QED BY <3>1, <3>2
  <2>14. Keeps
    BY <1>3, <2>12, <2>13 DEF Keeps
  <2>15. RowsProper'
    <3> SUFFICES ASSUME NEW o \in Offers, Exists(o)' PROVE Proper(offers[o])'
      BY DEF RowsProper
    <3>1. offers'[o] = offers[o] /\ Proper(offers[o])
      BY <2>6, <2>10 DEF IInv, RowsProper
    <3> QED BY <3>1 DEF Proper
  <2>16. ForeignKeys'
    <3> SUFFICES ASSUME NEW o \in Offers, Exists(o)', offers'[o].kind # "FRIEND",
                        NEW g \in {offers'[o].from, offers'[o].to} \cap Families
                 PROVE  families'[g] = "LIVE"
      BY DEF ForeignKeys, RefersToLive
    <3>1. offers'[o] = offers[o] /\ Exists(o) /\ g # f
      BY <2>6, <2>10, <2>11
    <3>2. families[g] = "LIVE"
      BY <3>1 DEF IInv, ForeignKeys, RefersToLive
    <3> QED BY <2>3, <3>1, <3>2
  <2>17. Guested'
    BY <2>1, <2>6 DEF IInv, Guested
  <2>18. TypeOK'
    <3>1. \A p \in Users \X Families : links'[p] # "NONE" => families'[p[2]] = "LIVE"
      BY <2>2, <2>3, <2>4
    <3>2. \A o \in Offers : Exists(o)' => offers'[o].status \in StatusesOf[offers'[o].kind]
      BY <2>15 DEF RowsProper, Proper
    <3>3. expired' \subseteq Rows({"INVITE"})'
      BY <2>1, <2>9, Tables DEF IInv, TypeOK, Rows
    <3>4. guests' \in [Offers -> SUBSET Users]
      BY <2>1, <2>2
    <3> QED BY <1>3, <2>3, <2>4, <2>7, <2>14, <3>1, <3>2, <3>3, <3>4, EndsFacts
            DEF IInv, TypeOK
  <2>19. AcceptedMeansMember'
    <3> SUFFICES ASSUME NEW o \in Rows({"JOIN"})', offers'[o].status = "ACCEPTED",
                        offers'[o].from \in profiles
                 PROVE  links'[offers'[o].from, offers'[o].to] # "NONE"
      BY <1>3 DEF AcceptedMeansMember
    <3>1. o \in Offers /\ o \in Rows({"JOIN"}) /\ offers'[o] = offers[o] /\ Exists(o) /\ Exists(o)'
      BY <2>6, <2>9, <2>10, Tables, RowsExist DEF Rows
    <3>2. offers[o].kind = "JOIN"
      BY <3>1 DEF Rows
    <3>3. offers[o].from \in Users /\ offers[o].to \in Families
      BY <3>1, <3>2, RowKnown DEF Proper
    <3>4. offers[o].to # f
      BY <2>11, <3>1, <3>2
    <3>5. links[offers[o].from, offers[o].to] # "NONE"
      BY <3>1 DEF IInv, AcceptedMeansMember
    <3> QED BY <2>4, <3>1, <3>3, <3>4, <3>5
  <2>20. OneFriendship'
    <3> SUFFICES ASSUME NEW o \in Rows({"FRIEND"})', NEW p \in Rows({"FRIEND"})',
                        {offers'[o].from, offers'[o].to} = {offers'[p].from, offers'[p].to}
                 PROVE  o = p
      BY DEF OneFriendship
    <3>1. /\ o \in Rows({"FRIEND"}) /\ offers'[o] = offers[o]
          /\ p \in Rows({"FRIEND"}) /\ offers'[p] = offers[p]
      BY <2>6, <2>9, Tables DEF Rows
    <3> QED BY <3>1 DEF IInv, OneFriendship
  <2>21. ASSUME NEW v \in Users PROVE CapKnown(v)' /\ CapKept(v)'
    <3>1. CapKnown(v)'
      BY <1>3 DEF IInv, CapKnown, CapOf
    <3>2. allowed'[v] = allowed[v] /\ allowed[v] \in Nat
      BY <1>3 DEF IInv, TypeOK
    <3>3. FamiliesOf(v)' \subseteq FamiliesOf(v) /\ Adding(v)' \subseteq Adding(v)
      BY <1>3, <2>4, <2>14, EndsFacts DEF FamiliesOf
    <3> QED BY <3>1, <3>2, <3>3, CapFrame
  <2>22. ASSUME NEW o \in Offers PROVE InviteKept(o)'
    <3>1. guests'[o] \subseteq guests[o] /\ Working(o)' \subseteq Working(o)
      BY <1>3, <2>1, <2>14, EndsFacts
    <3> QED BY <3>1, InviteFrame
  <2> QED BY <1>3, <2>14, <2>15, <2>16, <2>17, <2>18, <2>19, <2>20, <2>21, <2>22, EndsFacts DEF IInv
<1> QED BY <1>4, <1>5

-----------------------------------------------------------------------------
(* The initial states, every step, and the theorems. *)

LEMMA InitInv ==
  ASSUME Init
  PROVE  IInv
<1>1. \A o \in Offers : offers[o] = None /\ guests[o] = {} /\ ~Exists(o)
  BY DEF Init, Exists, Rows
<1>2. \A S : Rows(S) = {}
  BY <1>1 DEF Rows
<1>3. work \in [Requests -> WorkRow] /\ \A q \in Requests : work[q] = Idle /\ work[q].phase = "IDLE"
  BY IdleRow DEF Init
<1>4. \A f \in Families : Founders[f] \in Users => Founders[f] # None
  BY NoneIsNobody
<1>5. /\ families \in [Families -> {"FREE", "LIVE", "GONE"}]
      /\ links \in [Users \X Families -> {"NONE", "MEMBER", "HEAD"}]
  BY DEF Init
<1>6. \A p \in Users \X Families : links[p] # "NONE" => families[p[2]] = "LIVE"
  BY <1>4 DEF Init
<1>7. TypeOK
  <2>1. cap \in [Users -> Nat] /\ allowed \in [Users -> Nat] /\ used \in 0..MaxRequests
        /\ profiles \subseteq Users /\ expired = {}
    BY FamiliesAssumption DEF Init
  <2>2. offers \in [Offers -> OfferRow \cup {None}] /\ guests \in [Offers -> SUBSET Users]
    BY DEF Init
  <2> QED BY <1>1, <1>3, <1>5, <1>6, <2>1, <2>2 DEF TypeOK
<1>8. RowsProper /\ ForeignKeys /\ Guested
  BY <1>1 DEF RowsProper, ForeignKeys, Guested
<1>9. AcceptedMeansMember /\ OneFriendship
  BY <1>2 DEF AcceptedMeansMember, OneFriendship
<1>10. WorkGood
  BY <1>3 DEF WorkGood, Good, InsertGood, AdmitGood, StayGood, WriteGood, DropGood, Admitting
<1>11. ASSUME NEW u \in Users PROVE CapKnown(u) /\ CapKept(u)
  <2>1. FamiliesOf(u) = {f \in Families : Founders[f] = u}
    BY DEF Init, FamiliesOf
  <2>2. Cardinality(FamiliesOf(u)) <= FirstCap /\ FirstCap \in Nat
    BY <2>1, FamiliesAssumption
  <2>3. Adding(u) = {}
    BY <1>3 DEF Adding
  <2>4. Cardinality(Adding(u)) = 0
    BY <2>3, FS_EmptySet
  <2>5. allowed[u] = FirstCap /\ CapOf(u) = FirstCap
    BY DEF Init, CapOf
  <2>6. FamiliesOf(u) \in SUBSET Families
    BY DEF FamiliesOf
  <2>7. Cardinality(FamiliesOf(u)) \in Nat /\ Cardinality(Requests) \in Nat /\ Cardinality(Requests) >= 1
    BY <2>6, Counts
  <2>8. CapKnown(u)
    BY <2>2, <2>5 DEF CapKnown
  <2>9. CapKept(u)
    BY <2>2, <2>4, <2>5, <2>7 DEF CapKept
  <2> QED BY <2>8, <2>9
<1>12. ASSUME NEW o \in Offers PROVE InviteKept(o)
  <2>1. Working(o) = {} /\ guests[o] = {}
    BY <1>1, <1>3 DEF Working, Admitting
  <2>2. Cardinality(Working(o)) = 0 /\ Cardinality(guests[o]) = 0
    BY <2>1, FS_EmptySet
  <2> QED BY <2>2, Counts DEF InviteKept
<1> QED BY <1>7, <1>8, <1>9, <1>10, <1>11, <1>12 DEF IInv

LEMMA StartsInv ==
  ASSUME IInv, NEW q \in Requests, Starts(q)
  PROVE  IInv'
<1>1. CASE \E u \in Users : CreateFamily(q, u)
  BY <1>1, CreateFamilyMoves, MovesInv
<1>2. CASE \E u \in Users : DeleteUser(q, u)
  BY <1>2, DeleteUserMoves, MovesInv
<1>3. CASE \E u \in Users, c \in Caps : SetCap(q, u, c)
  BY <1>3, SetCapInv
<1>4. CASE \E u \in Users, f \in Families : AskToJoin(q, u, f)
  BY <1>4, AskToJoinMoves, MovesInv
<1>5. CASE \E u \in Users, f \in Families : CreateInvite(q, u, f)
  BY <1>5, CreateInviteMoves, MovesInv
<1>6. CASE \E u \in Users, o \in Offers : AcceptJoin(q, u, o)
  BY <1>6, AcceptJoinMoves, MovesInv
<1>7. CASE \E u \in Users, o \in Offers : DeclineJoin(q, u, o)
  BY <1>7, DeclineJoinMoves, MovesInv
<1>8. CASE \E u \in Users, o \in Offers : AcceptInvite(q, u, o)
  BY <1>8, AcceptInviteMoves, MovesInv
<1>9. CASE \E u \in Users, o \in Offers : AnswerFriend(q, u, o)
  BY <1>9, AnswerFriendMoves, MovesInv
<1>10. CASE \E u, v \in Users : AskFriend(q, u, v)
  BY <1>10, AskFriendMoves, MovesInv
<1>11. CASE \E u, v \in Users, f \in Families : AskForTie(q, u, f, v)
  BY <1>11, AskForTieMoves, MovesInv
<1>12. CASE \E u \in Users, f, g \in Families : ConnectByCode(q, u, f, g)
  BY <1>12, ConnectByCodeMoves, MovesInv
<1>13. CASE \E u \in Users, f \in Families, o \in Offers : AnswerTie(q, u, f, o)
  BY <1>13, AnswerTieMoves, MovesInv
<1>14. CASE \E f \in Families : DeleteFamily(q, f)
  BY <1>14, DeleteFamilyMoves, MovesInv
<1> QED BY <1>1, <1>2, <1>3, <1>4, <1>5, <1>6, <1>7, <1>8, <1>9, <1>10, <1>11, <1>12, <1>13, <1>14
        DEF Starts

LEMMA StepsInv ==
  ASSUME IInv, NEW q \in Requests, Steps(q)
  PROVE  IInv'
<1>1. CASE Found(q)
  BY <1>1, FoundInv
<1>2. CASE CheckPending(q)
  BY <1>2, CheckPendingMoves, MovesInv
<1>3. CASE InsertOffer(q)
  BY <1>3, InsertOfferInv
<1>4. CASE CheckCap(q)
  BY <1>4, CheckCapMoves, MovesInv
<1>5. CASE CheckMember(q)
  BY <1>5, CheckMemberMoves, MovesInv
<1>6. CASE Admit(q)
  BY <1>6, AdmitInv
<1>7. CASE WriteStatus(q)
  BY <1>7, WriteStatusInv
<1>8. CASE CheckPair(q)
  BY <1>8, CheckPairMoves, MovesInv
<1>9. CASE InsertFriend(q)
  BY <1>9, InsertFriendInv
<1>10. CASE UnlinkUser(q)
  BY <1>10, UnlinkUserMoves, MovesInv
<1>11. CASE DropUser(q)
  BY <1>11, DropUserInv
<1>12. CASE PurgeFamily(q)
  BY <1>12, PurgeFamilyMoves, MovesInv
<1>13. CASE DropFamily(q)
  BY <1>13, DropFamilyInv
<1>14. CASE Crash(q)
  BY <1>14, CrashMoves, MovesInv
<1> QED BY <1>1, <1>2, <1>3, <1>4, <1>5, <1>6, <1>7, <1>8, <1>9, <1>10, <1>11, <1>12, <1>13, <1>14
        DEF Steps

LEMMA StutterInv ==
  ASSUME IInv, UNCHANGED vars
  PROVE  IInv'
<1>1. /\ UNCHANGED <<profiles, cap, families, links, offers>>
      /\ UNCHANGED <<expired, work, used, allowed, guests>>
  BY DEF vars
<1>2. TypeOK'
  BY <1>1, OffersKept DEF IInv, TypeOK
<1>3. WorkGood'
  BY <1>1 DEF IInv, WorkGood, Good, InsertGood, AdmitGood, StayGood, WriteGood, DropGood, Exists,
              Rows
<1>4. RowsProper' /\ OneFriendship' /\ Guested' /\ ForeignKeys' /\ AcceptedMeansMember'
  BY <1>1, OffersKept
<1>5. \A u \in Users : CapKnown(u)' /\ CapKept(u)'
  BY <1>1 DEF IInv, CapKnown, CapKept, CapOf, FamiliesOf, Adding
<1>6. \A p \in Offers : InviteKept(p)'
  BY <1>1 DEF IInv, InviteKept, Working
<1> QED BY <1>2, <1>3, <1>4, <1>5, <1>6 DEF IInv

LEMMA NextInv == IInv /\ [Next]_vars => IInv'
<1> SUFFICES ASSUME IInv, [Next]_vars PROVE IInv'
  OBVIOUS
<1>1. CASE \E q \in Requests : Starts(q) \/ Steps(q)
  BY <1>1, StartsInv, StepsInv
<1>2. CASE \E o \in Offers : Expire(o)
  BY <1>2, ExpireInv
<1>3. CASE UNCHANGED vars
  BY <1>3, StutterInv
<1> QED BY <1>1, <1>2, <1>3 DEF Next

\* The inductive invariant holds in every reachable state.
THEOREM Invariance == Spec => []IInv
<1>1. Init => IInv
  BY InitInv
<1>2. IInv /\ [Next]_vars => IInv'
  BY NextInv
<1> QED BY <1>1, <1>2, PTL DEF Spec

\* Every variable holds a value of its kind, what the requests have read included: rows have
\* the columns and a status of their table, and every link a family that is there.
THEOREM TypeCorrect == Spec => []TypeOK
<1>1. IInv => TypeOK
  BY DEF IInv
<1> QED BY <1>1, Invariance, PTL

\* However many requests overlap, each exceeds a membership cap by one at most, and an
\* invite lets in no more users than there are requests at once.
THEOREM OverlapCorrect == Spec => []OverlapBounded
<1>1. ASSUME IInv PROVE CapBounded
  <2> SUFFICES ASSUME NEW u \in Users
               PROVE  Cardinality(FamiliesOf(u)) <= allowed[u] + Cardinality(Requests) - 1
    BY DEF CapBounded
  <2>1. Adding(u) \in SUBSET Requests /\ FamiliesOf(u) \in SUBSET Families
    BY DEF Adding, FamiliesOf
  <2>2. /\ Cardinality(Adding(u)) \in Nat /\ Cardinality(FamiliesOf(u)) \in Nat
        /\ Cardinality(Requests) \in Nat /\ allowed[u] \in Nat
    BY <1>1, <2>1, Counts DEF IInv, TypeOK
  <2>3. Cardinality(FamiliesOf(u)) + Cardinality(Adding(u)) <= allowed[u] + Cardinality(Requests) - 1
    BY <1>1 DEF IInv, CapKept
  <2> QED BY <2>2, <2>3
<1>2. ASSUME IInv PROVE InviteBounded
  <2> SUFFICES ASSUME NEW o \in Offers PROVE Cardinality(guests[o]) <= Cardinality(Requests)
    BY DEF InviteBounded
  <2>1. Working(o) \in SUBSET Requests /\ guests[o] \in SUBSET Users
    BY <1>2 DEF Working, IInv, TypeOK
  <2>2. /\ Cardinality(Working(o)) \in Nat /\ Cardinality(guests[o]) \in Nat
        /\ Cardinality(Requests) \in Nat
    BY <2>1, Counts
  <2>3. Cardinality(guests[o]) + Cardinality(Working(o)) <= Cardinality(Requests)
    BY <1>2 DEF IInv, InviteKept
  <2> QED BY <2>2, <2>3
<1>3. IInv => OverlapBounded
  BY <1>1, <1>2 DEF OverlapBounded
<1> QED BY <1>3, Invariance, PTL

\* Whoever has an ACCEPTED request to join is a member while the profile exists.
THEOREM AcceptedCorrect == Spec => []AcceptedMeansMember
<1>1. IInv => AcceptedMeansMember
  BY DEF IInv
<1> QED BY <1>1, Invariance, PTL

\* Two users never have two friendship rows between them.
THEOREM OneFriendshipCorrect == Spec => []OneFriendship
<1>1. IInv => OneFriendship
  BY DEF IInv
<1> QED BY <1>1, Invariance, PTL

\* What is ACTIVE was agreed to by the side that did not ask.
THEOREM ConsentCorrect == Spec => []ByConsent
<1>1. ASSUME IInv PROVE ByConsent
  <2> SUFFICES ASSUME NEW o \in Rows({"FRIEND", "TIE"}), offers[o].status = "ACTIVE"
               PROVE  offers[o].agreed \in {offers[o].from, offers[o].to} \ {offers[o].asker}
    BY DEF ByConsent
  <2>1. o \in Offers /\ Exists(o) /\ offers[o].kind \in {"FRIEND", "TIE"}
    BY Tables DEF Rows, Exists
  <2> QED BY <1>1, <2>1, RowKnown DEF Proper
<1>2. IInv => ByConsent
  BY <1>1
<1> QED BY <1>2, Invariance, PTL
=============================================================================
