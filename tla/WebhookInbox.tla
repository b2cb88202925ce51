---------------------------- MODULE WebhookInbox ----------------------------
(***************************************************************************)
(* The inbox of GoHighLevel webhooks: the WebhookEvent ledger, the six     *)
(* routes that share it, and the deliveries that GHL makes of an event.    *)
(* A delivery is a request; each call it makes to the database is a step,  *)
(* and any call may fail: the handler then goes to its catch block, if the *)
(* call was made inside its try.  What an event does to the CRM (a Lead's  *)
(* attribution, an onboarding document) is one step that is counted.       *)
(***************************************************************************)
EXTENDS FiniteSets, Integers

CONSTANTS
  Relays,       \* events of the reply, opportunity and appointment routes
  Documents,    \* events of the document-completion route
  Queues,       \* events of the funding and invoice routes
  Deliveries,   \* slots for deliveries handled at the same time
  MaxErrors,    \* bound on the failures per event
  MaxCrashes    \* bound on the functions killed while they handle an event

Events == Relays \union Documents \union Queues

ASSUME InboxConstants ==
  /\ IsFiniteSet(Deliveries)
  /\ Relays \intersect (Documents \union Queues) = {}
  /\ Documents \intersect Queues = {}
  /\ MaxErrors \in Nat
  /\ MaxCrashes \in Nat

VARIABLES
  status,     \* WebhookEvent.status; ABSENT while there is no row
  delivery,   \* the deliveries being handled
  owed,       \* events that GHL has to deliver: new, or answered with an error
  effects,    \* how many times an event had its effect (history)
  errors,     \* how many times the handling of an event failed (history)
  ambiguous,  \* events one of whose failing calls was committed (history)
  crashes     \* how many functions were killed (history)

vars == <<status, delivery, owed, effects, errors, ambiguous, crashes>>

Statuses == {"ABSENT", "RECEIVED", "PROCESSED", "ERROR"}

\* The next call a delivery makes
Calls == {"insert", "reopen", "apply", "finish", "reject", "fail"}

Free == [call |-> "none"]

TypeOK ==
  /\ status \in [Events -> Statuses]
  /\ delivery \in [Deliveries -> [call: Calls, event: Events] \union {Free}]
  /\ owed \subseteq Events
  /\ effects \in [Events -> Nat]
  /\ errors \in [Events -> 0..MaxErrors]
  /\ ambiguous \subseteq Events
  /\ crashes \in 0..MaxCrashes

Init ==
  /\ status = [e \in Events |-> "ABSENT"]
  /\ delivery = [d \in Deliveries |-> Free]
  /\ owed = Events
  /\ effects = [e \in Events |-> 0]
  /\ errors = [e \in Events |-> 0]
  /\ ambiguous = {}
  /\ crashes = 0

-----------------------------------------------------------------------------
(* Calls *)

\* Delivery d of event e is about to make the call.
At(d, call, e) == delivery[d] = [call |-> call, event |-> e]

Goto(d, call) == delivery' = [delivery EXCEPT ![d].call = call]

\* The request is answered.  GHL delivers again what was not answered by 2xx.
Respond(d, ok) ==
  /\ delivery' = [delivery EXCEPT ![d] = Free]
  /\ owed' = IF ok THEN owed ELSE owed \union {delivery[d].event}

\* Mutant: the reopening update excludes only events being handled.
ReopensFinished(e) == status[e] # "RECEIVED"

\* Mutant: the reopening update excludes only finished events.
ReopensReceived(e) == status[e] # "PROCESSED"

\* The where clause that lets one delivery reopen a failed event
Reopens(e) == status[e] = "ERROR"

\* Mutant: the failed status is not one of the enumeration.
StatusAfterFailed(call, e) ==
  CASE call = "insert" /\ status[e] = "ABSENT"             -> "RECEIVED"
    [] call = "reopen" /\ Reopens(e)                       -> "RECEIVED"
    [] call = "finish"                                     -> "PROCESSED"
    [] call \in {"reject", "fail"} /\ status[e] # "ABSENT" -> "FAILED"
    [] OTHER                                               -> status[e]

\* The row once the call is committed.  An update of a row that is not there
\* throws and changes nothing.
StatusAfter(call, e) ==
  CASE call = "insert" /\ status[e] = "ABSENT"             -> "RECEIVED"
    [] call = "reopen" /\ Reopens(e)                       -> "RECEIVED"
    [] call = "finish"                                     -> "PROCESSED"
    [] call \in {"reject", "fail"} /\ status[e] # "ABSENT" -> "ERROR"
    [] OTHER                                               -> status[e]

Commit(call, e) ==
  /\ status' = [status EXCEPT ![e] = StatusAfter(call, e)]
  /\ effects' = [effects EXCEPT ![e] = IF call = "apply" THEN @ + 1 ELSE @]

-----------------------------------------------------------------------------
(* A delivery *)

\* GHL delivers what it owes, and may deliver again what it has delivered.
Deliver(d, e) ==
  /\ delivery[d] = Free
  /\ delivery' = [delivery EXCEPT ![d] = [call |-> "insert", event |-> e]]
  /\ owed' = owed \ {e}
  /\ UNCHANGED <<status, effects, errors, ambiguous, crashes>>

\* The first call of a consumer once the event is its own: the funding and
\* invoice routes only acknowledge it.
Work(e) == IF e \in Queues THEN "finish" ELSE "apply"

\* recordInboundEvent: the insert, which fails on the unique ghlEventId if the
\* event is known
Insert(d, e) ==
  /\ At(d, "insert", e)
  /\ Commit("insert", e)
  /\ Goto(d, IF status[e] = "ABSENT" THEN Work(e) ELSE "reopen")
  /\ UNCHANGED <<owed, errors, ambiguous, crashes>>

\* recordInboundEvent: the compare-and-set that reopens a failed event
Reopen(d, e) ==
  /\ At(d, "reopen", e)
  /\ Commit("reopen", e)
  /\ \/ Reopens(e) /\ Goto(d, Work(e)) /\ UNCHANGED owed
     \/ ~Reopens(e) /\ Respond(d, TRUE)
  /\ UNCHANGED <<errors, ambiguous, crashes>>

\* The handling of event e fails once more.
Fails(e) ==
  /\ errors[e] < MaxErrors
  /\ errors' = [errors EXCEPT ![e] = @ + 1]

\* The consumer's effect.  A completed document may then turn out to belong to
\* an agent whose email is a privileged user's.
Apply(d, e) ==
  /\ At(d, "apply", e)
  /\ Commit("apply", e)
  /\ \/ Goto(d, "finish") /\ UNCHANGED errors
     \/ e \in Documents /\ Goto(d, "reject") /\ Fails(e)
  /\ UNCHANGED <<owed, ambiguous, crashes>>

\* A document that is not completed has no effect; one of no known agent has
\* none either and is rejected.
Ignore(d, e) ==
  /\ At(d, "apply", e)
  /\ e \in Documents
  /\ \/ Goto(d, "finish") /\ UNCHANGED errors
     \/ Goto(d, "reject") /\ Fails(e)
  /\ UNCHANGED <<status, owed, effects, ambiguous, crashes>>

\* finishInboundEvent at the end of the handler: PROCESSED, or ERROR with a
\* 202 for a document that was rejected
Finish(d, e) ==
  \E call \in {"finish", "reject"} :
    /\ At(d, call, e)
    /\ Commit(call, e)
    /\ Respond(d, TRUE)
    /\ UNCHANGED <<errors, ambiguous, crashes>>

\* finishInboundEvent in the catch block; its own failure is swallowed.
MarkError(d, e) ==
  /\ At(d, "fail", e)
  /\ Commit("fail", e)
  /\ Respond(d, FALSE)
  /\ UNCHANGED <<errors, ambiguous, crashes>>

\* Mutant: the relays record the event before their try.
CaughtAfterRecording(call, e) ==
  call \notin {"insert", "reopen", "fail"} /\ e \notin Queues

\* Whether a failing call leads to a catch block that marks the event.  The
\* relays record the event inside their try, the document route before it; the
\* funding and invoice routes catch and do not mark.
Caught(call, e) ==
  \/ e \in Relays /\ call # "fail"
  \/ e \in Documents /\ call \notin {"insert", "reopen", "fail"}

\* A call to the database throws, whether it was committed or not.
Throw(d, e) ==
  \E call \in Calls :
    /\ At(d, call, e)
    /\ Fails(e)
    /\ \/ UNCHANGED <<status, effects, ambiguous>>
       \/ Commit(call, e) /\ ambiguous' = ambiguous \union {e}
    /\ \/ Caught(call, e) /\ Goto(d, "fail") /\ UNCHANGED owed
       \/ ~Caught(call, e) /\ Respond(d, FALSE)
    /\ UNCHANGED crashes

\* The function is killed between two calls.
Crash(d) ==
  /\ delivery[d] # Free
  /\ crashes < MaxCrashes
  /\ crashes' = crashes + 1
  /\ Respond(d, FALSE)
  /\ UNCHANGED <<status, effects, errors, ambiguous>>

Handle(d, e) ==
  \/ Insert(d, e) \/ Reopen(d, e) \/ Apply(d, e) \/ Ignore(d, e)
  \/ Finish(d, e) \/ MarkError(d, e) \/ Throw(d, e)

Next ==
  \E d \in Deliveries :
    \/ \E e \in Events : Deliver(d, e) \/ Handle(d, e)
    \/ Crash(d)

Spec == Init /\ [][Next]_vars

\* Handlers run to their end, and GHL delivers what it owes.
FairSpec ==
  /\ Spec
  /\ \A d \in Deliveries : WF_vars(\E e \in Events : Handle(d, e))
  /\ \A e \in Events : SF_vars(e \in owed /\ \E d \in Deliveries : Deliver(d, e))

-----------------------------------------------------------------------------
(* Properties *)

\* Deliveries of event e whose next call is in C
Handling(e, C) == {d \in Deliveries : \E call \in C : At(d, call, e)}

\* Every effect of an event after the first is paid for by a failure: without
\* one, however many deliveries race, an event has at most one effect.
EffectsPaidByErrors ==
  \A e \in Events : effects[e] <= 1 + errors[e]

\* The routes that record before their try never handle an event twice at the
\* same time, unless a call of it that failed was committed.
AtMostOneHandler ==
  \A e \in Events \ (Relays \union ambiguous) :
    \A c, d \in Handling(e, Calls \ {"insert", "reopen"}) : c = d

\* An event of these routes that was processed is never touched again, unless a
\* call of it that failed was committed.
ProcessedIsFinal ==
  [][\A e \in Events \ (Relays \union ambiguous') :
        status[e] = "PROCESSED" => status'[e] = "PROCESSED"]_vars

\* A relayed event ends up processed, with its effect, even if one call of one
\* of its deliveries fails, committed or not, and whatever duplicates arrive.
RelaysComplete ==
  \A e \in Relays : [](errors[e] <= 1 /\ crashes = 0) =>
                      <>[](status[e] = "PROCESSED" /\ effects[e] > 0)

-----------------------------------------------------------------------------
(* What the routes that record before their try implement *)

Exclusive == Documents \union Queues

Phase(e) ==
  CASE e \in ambiguous                                          -> "unknown"
    [] e \notin ambiguous /\ status[e] = "ABSENT"               -> "new"
    [] e \notin ambiguous /\ status[e] = "PROCESSED"            -> "done"
    [] e \notin ambiguous /\ status[e] = "ERROR"                -> "failed"
    [] e \notin ambiguous /\ status[e] = "RECEIVED"             ->
         IF Handling(e, {"apply"}) # {} THEN "held"
         ELSE IF Handling(e, {"finish", "reject", "fail"}) # {}
              THEN IF e \in Queues /\ Handling(e, {"finish"}) # {} THEN "held" ELSE "past"
              ELSE "stuck"

Ledger ==
  INSTANCE EventLedger WITH
    Events <- Exclusive,
    phase <- [e \in Exclusive |-> Phase(e)],
    effects <- [e \in Exclusive |-> IF e \in ambiguous THEN 0 ELSE effects[e]]

\* The deliveries of an event, its calls and their failures implement the
\* ledger: one holder at a time, one effect of a holder, no way back from done.
KeepsLedger == Ledger!Spec
=============================================================================
