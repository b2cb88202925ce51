---------------------------- MODULE MCCadenceCron ----------------------------
(* An instance of CadenceCron for TLC: three accounts compete for a sweep   *)
(* that opens two check-ins, with periods that leave room for all of them.   *)
EXTENDS CadenceCron

Periods == [a \in Accounts |-> a + 1]
=============================================================================
