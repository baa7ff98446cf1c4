----------------------------- MODULE MCFamilies -----------------------------
(***************************************************************************)
(* A small instance of Families for TLC: two families with a head each, a  *)
(* user without a family, and one id for a family still to be founded.     *)
(***************************************************************************)
EXTENDS Families, TLC

CONSTANTS u1, u2, u3, f1, f2, f3, o1, o2, q1, q2

MCFounders == [f \in Families |-> CASE f = f1 -> u1 [] f = f2 -> u2 [] OTHER -> None]

Symmetry == Permutations(Offers) \cup Permutations(Requests)
=============================================================================
