------------------------------- MODULE MCJobs -------------------------------
(***************************************************************************)
(* A small instance of Jobs for TLC.                                       *)
(***************************************************************************)
EXTENDS Jobs, TLC

CONSTANTS q1, q2

Symmetry == Permutations(Requests)
=============================================================================
