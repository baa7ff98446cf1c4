------------------------------ MODULE Families ------------------------------
(***************************************************************************)
(* Who belongs to which family, and who knows whom: memberships, requests  *)
(* to join, invites, ties between families and friendships between users,  *)
(* with the administrator's deletions.                                     *)
(*                                                                         *)
(* No operation takes a lock.  A request reads what it decides by, one     *)
(* SELECT after the other, and then writes; what it read may have changed  *)
(* by then.  The four kinds of offers (a request to join, an invite, a     *)
(* tie, a friendship) share one life: somebody inserts a PENDING row,      *)
(* somebody loads it, decides by its status, and writes another.  In a     *)
(* row, "agreed" is who accepted it.                                       *)
(*                                                                         *)
(* Migration fos006 dropped the foreign keys to users; those to families   *)
(* are in force.                                                           *)
(***************************************************************************)
EXTENDS Integers, FiniteSets, FiniteSetsExt, Functions

CONSTANTS
  Users,        \* ids of profiles
  LegacyUsers,  \* those who also have a row in the old users table
  Families,     \* ids of families
  Offers,       \* ids of join requests, invites, ties and friendships
  Requests,     \* concurrent HTTP requests
  None,
  Founders,     \* the families at the start: the head of each, or None
  Caps,         \* values an administrator may give a membership cap
  FirstCap,     \* cap of every profile at the start
  DefaultCap,   \* cap of a user without a profile
  MaxRequests   \* bound on the number of requests

FamilyTies == {"TIE", "CODE_TIE"}
StatusesOf == [JOIN     |-> {"PENDING", "ACCEPTED", "DECLINED"},
               INVITE   |-> {"PENDING", "ACCEPTED", "EXPIRED"},
               TIE      |-> {"PENDING", "ACTIVE", "REJECTED", "REMOVED"},
               CODE_TIE |-> {"ACTIVE", "REMOVED"},
               FRIEND   |-> {"PENDING", "ACTIVE", "REJECTED", "CANCELLED"}]

Parties == Users \cup Families \cup {None}
OfferRow == [kind : DOMAIN StatusesOf \cup {"DELETED"}, from : Parties, to : Parties,
             asker : Parties, agreed : Parties,
             status : UNION {StatusesOf[k] : k \in DOMAIN StatusesOf}]

\* create_family checks the cap, so nobody heads more families than that at the start.
ASSUME FamiliesAssumption ==
  /\ LegacyUsers \subseteq Users /\ Founders \in [Families -> Users \cup {None}]
  /\ Caps \subseteq Nat /\ FirstCap \in Nat /\ DefaultCap \in Nat /\ MaxRequests \in Nat
  /\ IsFiniteSet(Users) /\ IsFiniteSet(Families) /\ IsFiniteSet(Requests) /\ Requests # {}
  /\ None \notin Users \cup Families \cup Offers \cup OfferRow
  /\ Users \cap Offers = {}
  /\ \A u \in Users : Cardinality({f \in Families : Founders[f] = u}) <= FirstCap

VARIABLES
  profiles,   \* users with a row in fos_profiles
  cap,        \* max_family_memberships of each
  families,   \* state of each family: FREE, LIVE or GONE
  links,      \* committed rows of user_family_links: NONE, MEMBER or HEAD
  offers,     \* committed rows of the four tables, None where there is none
  expired,    \* invites whose expires_at has passed
  work,       \* what each request has read and what it does next
  used,       \* number of requests so far
  allowed,    \* history: the highest cap each user had
  guests      \* history: the users each invite let in

vars == <<profiles, cap, families, links, offers, expired, work, used, allowed, guests>>

Offer(kind, from, to, asker) ==
  [kind |-> kind, from |-> from, to |-> to, asker |-> asker, agreed |-> None, status |-> "PENDING"]

Idle == [phase |-> "IDLE", user |-> None, family |-> None, offer |-> None,
         adds |-> FALSE, row |-> None, seen |-> {}]

\* The phases of a request that was let through and may still add a membership.
Admitting == {"CAP", "MEMBER", "ADMIT"}
Phases == {"IDLE", "FOUND", "ASK", "INSERT", "TIE", "WRITE", "UNLINK", "DROP_USER", "PURGE",
           "DROP_FAMILY"} \cup Admitting
WorkRow == [phase : Phases, user : Users \cup {None}, family : Families \cup {None},
            offer : Offers \cup {None}, adds : BOOLEAN, row : OfferRow \cup {None},
            seen : SUBSET (Users \cup Families \cup Offers)]

-----------------------------------------------------------------------------
(* What the SELECTs return. *)

IsMember(u, f) == links[u, f] # "NONE"

IsHead(u, f) == u \in profiles /\ links[u, f] = "HEAD"

FamiliesOf(u) == {f \in Families : links[u, f] # "NONE"}

MembersOf(f) == {u \in Users : links[u, f] # "NONE"}

CapOf(u) == IF u \in profiles THEN cap[u] ELSE DefaultCap

\* Mutant: off by one.
RoomForOneMore(u) == Cardinality(FamiliesOf(u)) <= CapOf(u)

HasRoom(u) == Cardinality(FamiliesOf(u)) < CapOf(u)

Rows(kinds) == {o \in Offers : offers[o] # None /\ offers[o].kind \in kinds}

\* Ids are never used twice, so a deleted row keeps its id.
Deleted(row) == [row EXCEPT !.kind = "DELETED"]

Exists(o) == o \in Rows(DOMAIN StatusesOf)

Open(o) == offers[o].status \in {"PENDING", "ACTIVE"}

\* Mutant: the pair as it was asked.
AsAsked(u, v) == <<u, v>>

\* canonical_user_pair: one order for the two, whichever it is.
CanonicalPair(u, v) == IF u = CHOOSE x \in {u, v} : TRUE THEN <<u, v>> ELSE <<v, u>>

PairOf(o) == <<offers[o].from, offers[o].to>>

TiedWith(f, g) ==
  \E o \in Rows(FamilyTies) : Open(o) /\ PairOf(o) \in {<<f, g>>, <<g, f>>}

ManagedBy(v, f) == {g \in Families \ {f} : v \in LegacyUsers \cap profiles /\ links[v, g] = "HEAD"}

\* Mutant: the asker may answer.
EitherAnswers(o, party) ==
  offers[o].status = "PENDING" /\ party \in {offers[o].from, offers[o].to}

\* Who may accept or reject a PENDING friendship or tie: the other side.
MayAnswer(o, party) ==
  /\ offers[o].status = "PENDING"
  /\ party \in {offers[o].from, offers[o].to}
  /\ party # offers[o].asker

\* What the row becomes by each answer this party may give.
Answer(o, party) ==
  LET row == offers[o]
      verdicts == {s \in {"ACTIVE", "REJECTED"} : MayAnswer(o, party)}
        \cup {s \in {"CANCELLED"} : row.kind = "FRIEND" /\ row.status = "PENDING" /\ party = row.asker}
        \cup {s \in {"REMOVED"} : /\ row.kind \in FamilyTies /\ row.status = "ACTIVE"
                                  /\ party \in {row.from, row.to}} IN
  {[row EXCEPT !.status = s, !.agreed = IF s = "ACTIVE" THEN party ELSE @] : s \in verdicts}
-----------------------------------------------------------------------------
Init ==
  /\ profiles = Users /\ cap = [u \in Users |-> FirstCap] /\ allowed = cap
  /\ families = [f \in Families |-> IF Founders[f] = None THEN "FREE" ELSE "LIVE"]
  /\ links = [p \in Users \X Families |-> IF Founders[p[2]] = p[1] THEN "HEAD" ELSE "NONE"]
  /\ offers = [o \in Offers |-> None] /\ guests = [o \in Offers |-> {}]
  /\ expired = {} /\ used = 0 /\ work = [q \in Requests |-> Idle]

Begin(q) == work[q] = Idle /\ used < MaxRequests /\ used' = used + 1

Goes(q, w) == work' = [work EXCEPT ![q] = w]

Ends(q) == Goes(q, Idle)

tables == <<profiles, cap, families, links, offers, expired, allowed, guests>>

\* A row that is inserted needs a fresh id and a family that is still there.
Insert(q, row, needs) ==
  /\ \/ /\ \A f \in needs : families[f] = "LIVE"
        /\ \E o \in Offers : offers[o] = None /\ offers' = [offers EXCEPT ![o] = row]
     \/ /\ \E f \in needs : families[f] # "LIVE"
        /\ UNCHANGED offers
  /\ Ends(q)
  /\ UNCHANGED <<profiles, cap, families, links, expired, used, allowed, guests>>

\* Founding a family: the cap is read, then the family and its head are written.
CreateFamily(q, u) ==
  /\ Begin(q) /\ u \in profiles /\ HasRoom(u)
  /\ Goes(q, [Idle EXCEPT !.phase = "FOUND", !.user = u])
  /\ UNCHANGED tables

Found(q) ==
  /\ work[q].phase = "FOUND"
  /\ \E f \in Families :
       /\ families[f] = "FREE"
       /\ families' = [families EXCEPT ![f] = "LIVE"]
       /\ links' = [links EXCEPT ![<<work[q].user, f>>] = "HEAD"]
  /\ Ends(q)
  /\ UNCHANGED <<profiles, cap, offers, expired, used, allowed, guests>>

AskToJoin(q, u, f) ==
  /\ Begin(q) /\ u \in profiles /\ families[f] = "LIVE" /\ ~IsMember(u, f)
  /\ Goes(q, [Idle EXCEPT !.phase = "ASK", !.user = u, !.family = f])
  /\ UNCHANGED tables

CheckPending(q) ==
  LET w == work[q]
      pending == \E o \in Rows({"JOIN"}) : /\ PairOf(o) = <<w.user, w.family>>
                                           /\ offers[o].status = "PENDING" IN
  /\ w.phase = "ASK"
  /\ Goes(q, IF pending THEN Idle
             ELSE [w EXCEPT !.phase = "INSERT", !.row = Offer("JOIN", w.user, w.family, w.user)])
  /\ UNCHANGED <<tables, used>>

CreateInvite(q, u, f) ==
  /\ Begin(q) /\ IsHead(u, f)
  /\ Goes(q, [Idle EXCEPT !.phase = "INSERT", !.row = Offer("INVITE", f, None, f)])
  /\ UNCHANGED tables

InsertOffer(q) ==
  LET row == work[q].row IN
  /\ work[q].phase = "INSERT" /\ row.kind # "FRIEND"
  /\ Insert(q, row, {row.from, row.to} \cap Families)

\* Seven days after it was written, an invite is past its date.
Expire(o) ==
  /\ o \in Rows({"INVITE"}) \ expired
  /\ expired' = expired \cup {o}
  /\ UNCHANGED <<profiles, cap, families, links, offers, work, used, allowed, guests>>

\* A head accepts a request to join; a user accepts an invite.
AcceptJoin(q, u, o) ==
  /\ Begin(q) /\ o \in Rows({"JOIN"}) /\ IsHead(u, offers[o].to) /\ offers[o].status = "PENDING"
  /\ Goes(q, [Idle EXCEPT !.phase = "CAP", !.user = offers[o].from, !.family = offers[o].to,
                          !.offer = o])
  /\ UNCHANGED tables

\* Mutant: the status of another table.
DeclinedAsRejected(q, u, o) ==
  /\ Begin(q) /\ o \in Rows({"JOIN"}) /\ IsHead(u, offers[o].to) /\ offers[o].status = "PENDING"
  /\ Goes(q, [Idle EXCEPT !.phase = "WRITE", !.offer = o, !.row = [offers[o] EXCEPT !.status = "REJECTED"]])
  /\ UNCHANGED tables

DeclineJoin(q, u, o) ==
  /\ Begin(q) /\ o \in Rows({"JOIN"}) /\ IsHead(u, offers[o].to) /\ offers[o].status = "PENDING"
  /\ Goes(q, [Idle EXCEPT !.phase = "WRITE", !.offer = o, !.row = [offers[o] EXCEPT !.status = "DECLINED"]])
  /\ UNCHANGED tables

AcceptInvite(q, u, o) ==
  /\ Begin(q) /\ u \in profiles /\ o \in Rows({"INVITE"}) /\ offers[o].status = "PENDING"
  /\ Goes(q, IF o \in expired
             THEN [Idle EXCEPT !.phase = "WRITE", !.offer = o,
                               !.row = [offers[o] EXCEPT !.status = "EXPIRED"]]
             ELSE [Idle EXCEPT !.phase = "CAP", !.user = u, !.family = offers[o].from, !.offer = o])
  /\ UNCHANGED tables

CheckCap(q) ==
  /\ work[q].phase = "CAP"
  /\ Goes(q, IF HasRoom(work[q].user) THEN [work[q] EXCEPT !.phase = "MEMBER"] ELSE Idle)
  /\ UNCHANGED <<tables, used>>

\* Mutant: a member of some family is taken for a member of this one.
CheckAnyMember(q) ==
  LET w == work[q] IN
  /\ w.phase = "MEMBER"
  /\ Goes(q, [w EXCEPT !.phase = "ADMIT", !.adds = FamiliesOf(w.user) = {}])
  /\ UNCHANGED <<tables, used>>

CheckMember(q) ==
  LET w == work[q] IN
  /\ w.phase = "MEMBER"
  /\ Goes(q, [w EXCEPT !.phase = "ADMIT", !.adds = ~IsMember(w.user, w.family)])
  /\ UNCHANGED <<tables, used>>

\* The link and the new status commit together, or not at all: the offer or the
\* family may be gone, or the user may have become a member meanwhile.
Admit(q) ==
  LET w == work[q]
      fits == Exists(w.offer) /\ (w.adds => ~IsMember(w.user, w.family)) IN
  /\ w.phase = "ADMIT"
  /\ \/ /\ fits
        /\ links' = IF w.adds THEN [links EXCEPT ![<<w.user, w.family>>] = "MEMBER"] ELSE links
        /\ offers' = [offers EXCEPT ![w.offer].status = "ACCEPTED"]
        /\ guests' = IF offers[w.offer].kind = "INVITE"
                     THEN [guests EXCEPT ![w.offer] = @ \cup {w.user}] ELSE guests
     \/ ~fits /\ UNCHANGED <<links, offers, guests>>
  /\ Ends(q)
  /\ UNCHANGED <<profiles, cap, families, expired, used, allowed>>

\* A decision taken on a row that was loaded: written over whatever the row has become.
WriteStatus(q) ==
  LET w == work[q] IN
  /\ w.phase = "WRITE"
  /\ offers' = IF ~Exists(w.offer) THEN offers
               ELSE [offers EXCEPT ![w.offer].status = w.row.status,
                                   ![w.offer].agreed = IF w.row.status = "ACTIVE" THEN w.row.agreed ELSE @]
  /\ Ends(q)
  /\ UNCHANGED <<profiles, cap, families, links, expired, used, allowed, guests>>
-----------------------------------------------------------------------------
(* Ties between families and friendships. *)

AskForTie(q, u, f, v) ==
  /\ Begin(q) /\ IsHead(u, f)
  /\ \E g \in Families : /\ ManagedBy(v, f) = {g}
                         /\ Goes(q, [Idle EXCEPT !.phase = "TIE", !.row = Offer("TIE", f, g, f)])
  /\ UNCHANGED tables

ConnectByCode(q, u, f, g) ==
  /\ Begin(q) /\ IsHead(u, f) /\ families[g] = "LIVE" /\ f # g
  /\ Goes(q, [Idle EXCEPT !.phase = "TIE",
                          !.row = [Offer("CODE_TIE", f, g, f) EXCEPT !.status = "ACTIVE"]])
  /\ UNCHANGED tables

CheckPair(q) ==
  LET w == work[q] IN
  /\ w.phase = "TIE"
  /\ Goes(q, IF TiedWith(w.row.from, w.row.to) THEN Idle ELSE [w EXCEPT !.phase = "INSERT"])
  /\ UNCHANGED <<tables, used>>

AnswerTie(q, u, f, o) ==
  /\ Begin(q) /\ IsHead(u, f) /\ o \in Rows(FamilyTies)
  /\ \E row \in Answer(o, f) : Goes(q, [Idle EXCEPT !.phase = "WRITE", !.offer = o, !.row = row])
  /\ UNCHANGED tables

AskFriend(q, u, v) ==
  LET pair == CanonicalPair(u, v) IN
  /\ Begin(q) /\ u \in profiles /\ v \in profiles /\ u # v
  /\ ~\E o \in Rows({"FRIEND"}) : PairOf(o) = pair /\ Open(o)
  /\ Goes(q, [Idle EXCEPT !.phase = "INSERT", !.row = Offer("FRIEND", pair[1], pair[2], u)])
  /\ UNCHANGED tables

\* The unique constraint counts friendships of every status.
InsertFriend(q) ==
  LET row == work[q].row
      taken == \E o \in Rows({"FRIEND"}) : PairOf(o) = <<row.from, row.to>> IN
  /\ work[q].phase = "INSERT" /\ row.kind = "FRIEND"
  /\ \/ ~taken /\ Insert(q, row, {})
     \/ taken /\ Ends(q) /\ UNCHANGED <<tables, used>>

AnswerFriend(q, u, o) ==
  /\ Begin(q) /\ u \in profiles /\ o \in Rows({"FRIEND"})
  /\ \E row \in Answer(o, u) : Goes(q, [Idle EXCEPT !.phase = "WRITE", !.offer = o, !.row = row])
  /\ UNCHANGED tables
-----------------------------------------------------------------------------
(* The administrator. *)

SetCap(q, u, c) ==
  /\ Begin(q) /\ u \in profiles
  /\ cap' = [cap EXCEPT ![u] = c] /\ allowed' = [allowed EXCEPT ![u] = Max({@, c})]
  /\ UNCHANGED <<profiles, families, links, offers, expired, work, guests>>

MayDelete(u) == \A f \in Families : links[u, f] = "HEAD" => Cardinality(MembersOf(f)) > 1

DeleteUser(q, u) ==
  /\ Begin(q) /\ u \in profiles /\ MayDelete(u)
  /\ Goes(q, [Idle EXCEPT !.phase = "UNLINK", !.user = u])
  /\ UNCHANGED tables

UnlinkUser(q) ==
  /\ work[q].phase = "UNLINK"
  /\ Goes(q, [work[q] EXCEPT !.phase = "DROP_USER", !.seen = FamiliesOf(work[q].user)])
  /\ UNCHANGED <<tables, used>>

\* Only the links the DELETE saw go: one that was committed since stays.
DropUser(q) ==
  LET w == work[q] IN
  /\ w.phase = "DROP_USER"
  /\ links' = [p \in Users \X Families |-> IF p[1] = w.user /\ p[2] \in w.seen THEN "NONE" ELSE links[p]]
  /\ profiles' = profiles \ {w.user}
  /\ allowed' = [allowed EXCEPT ![w.user] = Max({@, DefaultCap})]
  /\ Ends(q)
  /\ UNCHANGED <<cap, families, offers, expired, used, guests>>

\* The rows that refer to a family by a foreign key.
Referring(f) ==
  MembersOf(f) \cup {o \in Rows(DOMAIN StatusesOf \ {"FRIEND"}) : f \in {offers[o].from, offers[o].to}}

DeleteFamily(q, f) ==
  /\ Begin(q) /\ families[f] = "LIVE"
  /\ Goes(q, [Idle EXCEPT !.phase = "PURGE", !.family = f])
  /\ UNCHANGED tables

PurgeFamily(q) ==
  /\ work[q].phase = "PURGE"
  /\ Goes(q, [work[q] EXCEPT !.phase = "DROP_FAMILY", !.seen = Referring(work[q].family)])
  /\ UNCHANGED <<tables, used>>

\* A row that came to refer to the family since the DELETEs makes the last one fail.
DropFamily(q) ==
  LET w == work[q] IN
  /\ w.phase = "DROP_FAMILY"
  /\ IF Referring(w.family) \subseteq w.seen
     THEN /\ families' = [families EXCEPT ![w.family] = "GONE"]
          /\ links' = [p \in Users \X Families |-> IF p[2] = w.family THEN "NONE" ELSE links[p]]
          /\ offers' = [o \in Offers |-> IF o \in w.seen THEN Deleted(offers[o]) ELSE offers[o]]
          /\ guests' = [o \in Offers |-> IF o \in w.seen THEN {} ELSE guests[o]]
          /\ expired' = expired \ w.seen
     ELSE UNCHANGED <<families, links, offers, guests, expired>>
  /\ Ends(q)
  /\ UNCHANGED <<profiles, cap, used, allowed>>
-----------------------------------------------------------------------------
\* A request dies before it commits: nothing of it stays.
Crash(q) ==
  /\ work[q] # Idle /\ Ends(q)
  /\ UNCHANGED <<tables, used>>

Starts(q) ==
  \/ \E u \in Users : CreateFamily(q, u) \/ DeleteUser(q, u) \/ (\E c \in Caps : SetCap(q, u, c))
  \/ \E u \in Users, f \in Families : AskToJoin(q, u, f) \/ CreateInvite(q, u, f)
  \/ \E u \in Users, o \in Offers : \/ AcceptJoin(q, u, o) \/ DeclineJoin(q, u, o)
                                    \/ AcceptInvite(q, u, o) \/ AnswerFriend(q, u, o)
  \/ \E u, v \in Users : AskFriend(q, u, v) \/ (\E f \in Families : AskForTie(q, u, f, v))
  \/ \E u \in Users, f, g \in Families : ConnectByCode(q, u, f, g)
  \/ \E u \in Users, f \in Families, o \in Offers : AnswerTie(q, u, f, o)
  \/ \E f \in Families : DeleteFamily(q, f)

Steps(q) ==
  \/ Found(q) \/ CheckPending(q) \/ InsertOffer(q) \/ CheckCap(q) \/ CheckMember(q) \/ Admit(q)
  \/ WriteStatus(q) \/ CheckPair(q) \/ InsertFriend(q) \/ UnlinkUser(q) \/ DropUser(q)
  \/ PurgeFamily(q) \/ DropFamily(q) \/ Crash(q)

Next == (\E q \in Requests : Starts(q) \/ Steps(q)) \/ (\E o \in Offers : Expire(o))

Spec == Init /\ [][Next]_vars
-----------------------------------------------------------------------------
\* Every variable holds a value of its kind: every row has the columns and a status of
\* its table, every link a family that is still there.
TypeOK ==
  /\ profiles \subseteq Users /\ cap \in [Users -> Nat] /\ allowed \in [Users -> Nat]
  /\ families \in [Families -> {"FREE", "LIVE", "GONE"}]
  /\ links \in [Users \X Families -> {"NONE", "MEMBER", "HEAD"}]
  /\ \A p \in Users \X Families : links[p] # "NONE" => families[p[2]] = "LIVE"
  /\ \A o \in Offers : Exists(o) => offers[o].status \in StatusesOf[offers[o].kind]
  /\ offers \in [Offers -> OfferRow \cup {None}] /\ guests \in [Offers -> SUBSET Users]
  /\ expired \subseteq Rows({"INVITE"}) /\ used \in 0..MaxRequests
  /\ work \in [Requests -> WorkRow]

\* The cap on memberships is checked and then a link is written, in three places and
\* without a lock.  Requests that overlap may exceed it, but each by one membership at
\* most: with one request at a time the cap is exact.
CapBounded ==
  \A u \in Users : Cardinality(FamiliesOf(u)) <= allowed[u] + Cardinality(Requests) - 1

\* The same for an invite, which is meant for one user: it lets in no more of them than
\* there are requests at once.
InviteBounded == \A o \in Offers : Cardinality(guests[o]) <= Cardinality(Requests)

OverlapBounded == CapBounded /\ InviteBounded

\* Whoever has an ACCEPTED request to join is a member of that family as long as the
\* profile exists, whatever else was answered, deleted or accepted at the same time.
AcceptedMeansMember ==
  \A o \in Rows({"JOIN"}) :
    offers[o].status = "ACCEPTED" /\ offers[o].from \in profiles
      => links[offers[o].from, offers[o].to] # "NONE"

\* Two users have one friendship row between them, also when each asks the other at the
\* same moment.
OneFriendship ==
  \A o, p \in Rows({"FRIEND"}) :
    {offers[o].from, offers[o].to} = {offers[p].from, offers[p].to} => o = p

\* An ACTIVE friendship, or a tie that was asked for, was agreed to by the other side:
\* stale answers written over each other never make the asker agree with itself.
ByConsent ==
  \A o \in Rows({"FRIEND", "TIE"}) :
    offers[o].status = "ACTIVE" => offers[o].agreed \in {offers[o].from, offers[o].to} \ {offers[o].asker}
=============================================================================
