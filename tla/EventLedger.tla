----------------------------- MODULE EventLedger -----------------------------
(***************************************************************************)
(* What the inbox of webhooks promises of an event, whatever deliveries of *)
(* it race: the event is worked on by one holder at a time, which may have *)
(* its effect once; only an event that failed is taken up again, and one   *)
(* that is done never is.  A holder that is lost leaves the event stuck.   *)
(* A call that fails after it was committed ends what is promised.         *)
(***************************************************************************)
EXTENDS Integers

CONSTANTS
  Events

VARIABLES
  phase,  \* how far an event is
  effects \* how often it had its effect

vars == <<phase, effects>>

Phases == {"new", "held", "past", "done", "failed", "stuck", "unknown"}

TypeOK ==
  /\ phase \in [Events -> Phases]
  /\ effects \in [Events -> Nat]

Init ==
  /\ phase = [e \in Events |-> "new"]
  /\ effects = [e \in Events |-> 0]

Move(e, from, to) ==
  /\ phase[e] \in from
  /\ phase' = [phase EXCEPT ![e] = to]

Begin(e) == Move(e, {"new", "failed"}, "held") /\ UNCHANGED effects

\* The holder's one chance of an effect
Perform(e) ==
  /\ Move(e, {"held"}, "past")
  /\ \E n \in {0, 1} : effects' = [effects EXCEPT ![e] = @ + n]

Conclude(e) ==
  \E result \in {"done", "failed"} : Move(e, {"held", "past"}, result) /\ UNCHANGED effects

Lose(e) == Move(e, {"held", "past"}, "stuck") /\ UNCHANGED effects

Blur(e) ==
  /\ Move(e, Phases \ {"unknown"}, "unknown")
  /\ effects' = [effects EXCEPT ![e] = 0]

Next == \E e \in Events : Begin(e) \/ Perform(e) \/ Conclude(e) \/ Lose(e) \/ Blur(e)

Spec == Init /\ [][Next]_vars
=============================================================================
