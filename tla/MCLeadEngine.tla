---------------------------- MODULE MCLeadEngine ----------------------------
(* Instances of LeadEngine for TLC: one Lead, or two where a limit is shared. *)
EXTENDS LeadEngine, TLC

\* A group of handlers that share no branch on the identity of an agent or a
\* request slot may be checked up to renaming them.
Symmetry == Permutations(Agents) \union Permutations(Requests)
=============================================================================
