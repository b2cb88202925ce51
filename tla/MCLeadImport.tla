---------------------------- MODULE MCLeadImport ----------------------------
(* Instances of LeadImport for TLC: two rows of two companies, so that a row *)
(* may repeat the other or a known Lead, and two overlapping requests.       *)
EXTENDS LeadImport, TLC

\* Requests are interchangeable in the safety runs.
Symmetry == Permutations(Requests) \union Permutations(Companies)
=============================================================================
