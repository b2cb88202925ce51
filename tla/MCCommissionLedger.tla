-------------------------- MODULE MCCommissionLedger --------------------------
(* Instances of CommissionLedger for TLC: one entry that may be held twice,  *)
(* and two overlapping requests.                                             *)
EXTENDS CommissionLedger, TLC

\* Requests, and holds, are interchangeable.
Symmetry == Permutations(Requests) \union Permutations(Holds)
=============================================================================
