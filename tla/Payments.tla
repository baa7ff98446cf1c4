------------------------------ MODULE Payments ------------------------------
(***************************************************************************)
(* What the transfer service promises, with no transaction, lock, status   *)
(* or schedule: orders are placed and never changed, an order is paid at   *)
(* most once, and a payment takes from the sender what the receiver gets,  *)
(* and never more than the sender has.                                     *)
(***************************************************************************)
EXTENDS Integers, Sums

CONSTANTS
  Orders,   \* ids an order can have
  Pools,    \* savings pools
  None,     \* an order that is not placed
  Opening   \* what every pool holds at first

VARIABLES
  order,    \* the orders placed: sender, receiver and amount
  paid,     \* the ids of the orders that are paid
  balance   \* what every pool holds

Init ==
  /\ order = [t \in Orders |-> None]
  /\ paid = {}
  /\ balance = [p \in Pools |-> Opening]

\* Orders are placed; the ones that were placed before stay as they are.
Place == \A t \in Orders : order[t] # None => order'[t] = order[t]

\* Some orders from pool a to pool b are paid together.
Settle(a, b) ==
  LET fresh == paid' \ paid
      sum == SumOf([t \in fresh |-> order'[t].amount], fresh)
  IN
  /\ fresh # {}
  /\ \A t \in fresh : order'[t] # None /\ order'[t].from = a /\ order'[t].to = b
  /\ balance[a] >= sum
  /\ balance' = [balance EXCEPT ![a] = @ - sum, ![b] = @ + sum]

\* Income and expenses move one pool, and no order is paid by them.
Elsewhere(p) ==
  /\ UNCHANGED <<order, paid>>
  /\ \A o \in Pools \ {p} : balance'[o] = balance[o]

Next ==
  \/ Place /\ paid \subseteq paid' /\ \E a, b \in Pools : a # b /\ Settle(a, b)
  \/ Place /\ UNCHANGED <<paid, balance>>
  \/ \E p \in Pools : Elsewhere(p)

Spec == Init /\ [][Next]_<<order, paid, balance>>
=============================================================================
