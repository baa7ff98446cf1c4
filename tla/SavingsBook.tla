----------------------------- MODULE SavingsBook -----------------------------
(***************************************************************************)
(* What the savings service promises to its users, with no transaction,    *)
(* lock, ledger or scheduler in sight: a book of entries, each in one pool *)
(* with a signed value, and a balance per pool.  A step opens, amends and  *)
(* closes entries and moves the balance of their pools by exactly what the *)
(* entries changed by.                                                     *)
(***************************************************************************)
EXTENDS Integers, Sums

CONSTANTS
  Entries,  \* ids an entry can have; a closed entry's id is not used again
  Pools,    \* savings pools
  None,     \* the pool of an entry that is not open
  Opening   \* the opening balance of every pool

VARIABLES
  book,     \* the entries
  balance   \* the balance of every pool

Unused == [status |-> "unused", pool |-> None, value |-> 0]
Closed == [status |-> "closed", pool |-> None, value |-> 0]
Open(p) == [status : {"open"}, pool : {p}, value : Int]

Init ==
  /\ book = [e \in Entries |-> Unused]
  /\ balance = [p \in Pools |-> Opening]

\* What may happen to one entry of pool p.
OpenEntry(old, new, p) == old = Unused /\ new \in Open(p)
Amend(old, new, p) == old \in Open(p) /\ new \in Open(p)
Close(old, new, p) == old \in Open(p) /\ new = Closed

\* The entries of pool p change and its balance follows.
Post(p) ==
  LET changed == {e \in Entries : book'[e] # book[e]} IN
  /\ \A e \in changed : \/ OpenEntry(book[e], book'[e], p)
                        \/ Amend(book[e], book'[e], p)
                        \/ Close(book[e], book'[e], p)
  /\ balance' = [balance EXCEPT ![p] =
       @ + SumOf([e \in changed |-> book'[e].value - book[e].value], changed)]

Next == \E p \in Pools : Post(p)

Spec == Init /\ [][Next]_<<book, balance>>
=============================================================================
