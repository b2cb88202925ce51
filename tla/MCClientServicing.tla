-------------------------- MODULE MCClientServicing --------------------------
(* Instances of ClientServicing for TLC: one account with one agent, two     *)
(* service cases and two overlapping requests.                               *)
EXTENDS ClientServicing, TLC

\* Requests, and cases, are interchangeable.
Symmetry == Permutations(Requests) \union Permutations(Cases)
=============================================================================
