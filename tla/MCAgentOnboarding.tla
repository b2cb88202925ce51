-------------------------- MODULE MCAgentOnboarding --------------------------
(* Instances of AgentOnboarding for TLC: one applicant with one document, the *)
(* countersigned agreement, and one gate, and two overlapping requests.      *)
EXTENDS AgentOnboarding, TLC

\* Requests, and tokens, are interchangeable.
Symmetry == Permutations(Requests) \union Permutations(Tokens)
=============================================================================
