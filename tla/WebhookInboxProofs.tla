------------------------- MODULE WebhookInboxProofs -------------------------
(***************************************************************************)
(* Theorems about WebhookInbox, for any events, any number of deliveries   *)
(* at the same time and any number of failures and crashes.                *)
(***************************************************************************)
EXTENDS WebhookInbox, FiniteSetTheorems, TLAPS

-----------------------------------------------------------------------------
(* Types *)

\* What a call leaves in the row is a status.
LEMMA StatusAfterType ==
  ASSUME TypeOK, NEW call, NEW e \in Events
  PROVE  StatusAfter(call, e) \in Statuses
  BY DEF StatusAfter, TypeOK, Statuses

\* A commit keeps the types of what it writes.
LEMMA CommitType ==
  ASSUME TypeOK, NEW call, NEW e \in Events, Commit(call, e)
  PROVE  /\ status' \in [Events -> Statuses]
         /\ effects' \in [Events -> Nat]
  <1>1. StatusAfter(call, e) \in Statuses
    BY StatusAfterType
  <1> QED  BY <1>1 DEF Commit, TypeOK

\* Going to the next call, or answering, keeps the types of what it writes.
LEMMA DeliveryType ==
  ASSUME TypeOK, NEW d \in Deliveries, NEW e \in Events, NEW c \in Calls, At(d, c, e)
  PROVE  /\ \A call \in Calls : Goto(d, call) =>
              delivery' \in [Deliveries -> [call: Calls, event: Events] \union {Free}]
         /\ \A ok : Respond(d, ok) =>
              /\ delivery' \in [Deliveries -> [call: Calls, event: Events] \union {Free}]
              /\ owed' \subseteq Events
  <1>1. delivery[d] = [call |-> c, event |-> e]
    BY DEF At
  <1>2. ASSUME NEW call \in Calls, Goto(d, call)
        PROVE  delivery' \in [Deliveries -> [call: Calls, event: Events] \union {Free}]
    <2>1. [delivery[d] EXCEPT !.call = call] \in [call: Calls, event: Events]
      BY <1>1
    <2> QED  BY <1>2, <2>1 DEF Goto, TypeOK
  <1>3. ASSUME NEW ok, Respond(d, ok)
        PROVE  /\ delivery' \in [Deliveries -> [call: Calls, event: Events] \union {Free}]
               /\ owed' \subseteq Events
    BY <1>1, <1>3 DEF Respond, TypeOK
  <1> QED  BY <1>2, <1>3

\* Counting a failure keeps the type of the counters.
LEMMA FailsType ==
  ASSUME TypeOK, NEW e \in Events, Fails(e)
  PROVE  errors' \in [Events -> 0..MaxErrors]
  BY InboxConstants DEF Fails, TypeOK

\* Every step of a delivery keeps the types.
LEMMA HandleType ==
  ASSUME TypeOK, NEW d \in Deliveries, NEW e \in Events, Handle(d, e)
  PROVE  TypeOK'
  <1>1. {"insert", "reopen", "apply", "finish", "reject", "fail"} \subseteq Calls
    BY DEF Calls
  <1>2. Work(e) \in Calls
    BY DEF Work, Calls
  <1>3. CASE Insert(d, e)
    <2>1. At(d, "insert", e) /\ Commit("insert", e)
      BY <1>3 DEF Insert
    <2>2. delivery' \in [Deliveries -> [call: Calls, event: Events] \union {Free}]
      BY <1>1, <1>2, <1>3, <2>1, DeliveryType DEF Insert
    <2> QED  BY <1>3, <2>1, <2>2, CommitType DEF Insert, TypeOK
  <1>4. CASE Reopen(d, e)
    <2>1. At(d, "reopen", e) /\ Commit("reopen", e)
      BY <1>4 DEF Reopen
    <2>2. /\ delivery' \in [Deliveries -> [call: Calls, event: Events] \union {Free}]
          /\ owed' \subseteq Events
      BY <1>1, <1>2, <1>4, <2>1, DeliveryType DEF Reopen, TypeOK
    <2> QED  BY <1>4, <2>1, <2>2, CommitType DEF Reopen, TypeOK
  <1>5. CASE Apply(d, e)
    <2>1. At(d, "apply", e) /\ Commit("apply", e)
      BY <1>5 DEF Apply
    <2>2. /\ delivery' \in [Deliveries -> [call: Calls, event: Events] \union {Free}]
          /\ errors' \in [Events -> 0..MaxErrors]
      BY <1>1, <1>5, <2>1, DeliveryType, FailsType DEF Apply, TypeOK
    <2> QED  BY <1>5, <2>1, <2>2, CommitType DEF Apply, TypeOK
  <1>6. CASE Ignore(d, e)
    <2>1. At(d, "apply", e)
      BY <1>6 DEF Ignore
    <2>2. /\ delivery' \in [Deliveries -> [call: Calls, event: Events] \union {Free}]
          /\ errors' \in [Events -> 0..MaxErrors]
      BY <1>1, <1>6, <2>1, DeliveryType, FailsType DEF Ignore, TypeOK
    <2> QED  BY <1>6, <2>2 DEF Ignore, TypeOK
  <1>7. CASE Finish(d, e)
    <2>1. PICK call \in {"finish", "reject"} :
            At(d, call, e) /\ Commit(call, e) /\ Respond(d, TRUE)
      BY <1>7 DEF Finish
    <2>2. /\ delivery' \in [Deliveries -> [call: Calls, event: Events] \union {Free}]
          /\ owed' \subseteq Events
      BY <1>1, <2>1, DeliveryType
    <2> QED  BY <1>7, <2>1, <2>2, CommitType DEF Finish, TypeOK
  <1>8. CASE MarkError(d, e)
    <2>1. At(d, "fail", e) /\ Commit("fail", e) /\ Respond(d, FALSE)
      BY <1>8 DEF MarkError
    <2>2. /\ delivery' \in [Deliveries -> [call: Calls, event: Events] \union {Free}]
          /\ owed' \subseteq Events
      BY <1>1, <2>1, DeliveryType
    <2> QED  BY <1>8, <2>1, <2>2, CommitType DEF MarkError, TypeOK
  <1>9. CASE Throw(d, e)
    <2>1. PICK call \in Calls :
            /\ At(d, call, e)
            /\ Fails(e)
            /\ \/ UNCHANGED <<status, effects, ambiguous>>
               \/ Commit(call, e) /\ ambiguous' = ambiguous \union {e}
            /\ \/ Goto(d, "fail") /\ UNCHANGED owed
               \/ Respond(d, FALSE)
            /\ UNCHANGED crashes
      BY <1>9 DEF Throw
    <2>2. /\ status' \in [Events -> Statuses]
          /\ effects' \in [Events -> Nat]
          /\ ambiguous' \subseteq Events
      BY <2>1, CommitType DEF TypeOK
    <2>3. /\ delivery' \in [Deliveries -> [call: Calls, event: Events] \union {Free}]
          /\ owed' \subseteq Events
      BY <1>1, <2>1, DeliveryType DEF TypeOK
    <2> QED  BY <2>1, <2>2, <2>3, FailsType DEF TypeOK
  <1> QED
    BY <1>3, <1>4, <1>5, <1>6, <1>7, <1>8, <1>9 DEF Handle

\* Every step keeps the types.
LEMMA NextType ==
  ASSUME TypeOK, [Next]_vars
  PROVE  TypeOK'
  <1>1. ASSUME NEW d \in Deliveries, NEW e \in Events, Deliver(d, e) PROVE TypeOK'
    <2>1. [call |-> "insert", event |-> e] \in [call: Calls, event: Events]
      BY DEF Calls
    <2> QED  BY <1>1, <2>1 DEF Deliver, TypeOK
  <1>2. ASSUME NEW d \in Deliveries, Crash(d) PROVE TypeOK'
    <2>1. delivery[d] \in [call: Calls, event: Events]
      BY <1>2 DEF Crash, TypeOK
    <2>2. crashes' \in 0..MaxCrashes
      BY <1>2, InboxConstants DEF Crash, TypeOK
    <2> QED  BY <1>2, <2>1, <2>2 DEF Crash, Respond, TypeOK
  <1>3. CASE UNCHANGED vars
    BY <1>3 DEF vars, TypeOK
  <1> QED  BY <1>1, <1>2, <1>3, HandleType DEF Next

\* The variables have their types in every reachable state.
THEOREM InboxTypeCorrect == Spec => []TypeOK
  <1>1. Init => TypeOK
    BY InboxConstants DEF Init, TypeOK, Statuses
  <1> QED  BY <1>1, NextType, PTL DEF Spec

-----------------------------------------------------------------------------
(* One step moves one delivery of one event *)

\* The delivery d of event e goes from call c to a call in T, or is answered.
Moves(d, e, T) ==
  /\ \A c \in Deliveries \ {d} : delivery'[c] = delivery[c]
  /\ \/ delivery'[d] = Free
     \/ \E t \in T : delivery'[d] = [call |-> t, event |-> e]

\* Goto and Respond move only their delivery.
LEMMA MovesByCall ==
  ASSUME TypeOK, NEW d \in Deliveries, NEW e \in Events, NEW c \in Calls, At(d, c, e)
  PROVE  /\ \A t : Goto(d, t) => Moves(d, e, {t})
         /\ \A ok : Respond(d, ok) => Moves(d, e, {})
  <1>1. delivery[d] = [call |-> c, event |-> e]
    BY DEF At
  <1>2. delivery = [x \in Deliveries |-> delivery[x]]
    BY DEF TypeOK
  <1>3. ASSUME NEW t, Goto(d, t) PROVE Moves(d, e, {t})
    <2>1. delivery'[d] = [call |-> t, event |-> e]
      BY <1>1, <1>2, <1>3 DEF Goto
    <2>2. \A x \in Deliveries \ {d} : delivery'[x] = delivery[x]
      BY <1>2, <1>3 DEF Goto
    <2> QED  BY <2>1, <2>2 DEF Moves
  <1>4. ASSUME NEW ok, Respond(d, ok) PROVE Moves(d, e, {})
    BY <1>2, <1>4 DEF Respond, Moves
  <1> QED  BY <1>3, <1>4

-----------------------------------------------------------------------------
(* One handler at a time *)

\* The calls of a delivery whose event is its own
Working == Calls \ {"insert", "reopen"}

Holds(d, e) == \E call \in Working : At(d, call, e)

\* AtMostOneHandler is inductive once the row of a handled event is known to
\* be RECEIVED: neither the insert nor the reopening then succeeds for another.
ExclusiveInv ==
  \A e \in Events \ (Relays \union ambiguous), d \in Deliveries :
    Holds(d, e) => /\ status[e] = "RECEIVED"
                   /\ \A c \in Deliveries : Holds(c, e) => c = d

\* The ways in which a step of delivery d may leave ExclusiveInv true: d does
\* not take the event up, d held it and leaves it, or d takes it up when the
\* row was not RECEIVED, and makes it so; a relayed event is of no concern, nor
\* is one whose failing call was committed.
LEMMA ExclusiveMove ==
  ASSUME ExclusiveInv, NEW d \in Deliveries, NEW e \in Events, NEW T,
         Moves(d, e, T), ambiguous \subseteq ambiguous',
         \A f \in Events \ {e} : status'[f] = status[f],
         \/ status'[e] = status[e] /\ (Holds(d, e) \/ T \intersect Working = {})
         \/ Holds(d, e) /\ T = {}
         \/ status[e] # "RECEIVED" /\ status'[e] = "RECEIVED"
         \/ e \in Relays \union ambiguous'
  PROVE  ExclusiveInv'
  <1> SUFFICES ASSUME NEW f \in Events \ (Relays \union ambiguous'),
                      NEW b \in Deliveries, Holds(b, f)'
               PROVE  /\ status'[f] = "RECEIVED"
                      /\ \A c \in Deliveries : Holds(c, f)' => c = b
    BY DEF ExclusiveInv
  <1>1. \A c \in Deliveries \ {d} : \A g \in Events : Holds(c, g)' <=> Holds(c, g)
    BY DEF Moves, Holds, At
  <1>2. \A g \in Events : Holds(d, g)' => g = e /\ T \intersect Working # {}
    <2>1. \A c, g : c \in Working => Free # [call |-> c, event |-> g]
      <3> SUFFICES ASSUME NEW c \in Working, NEW g, Free = [call |-> c, event |-> g]
                   PROVE  FALSE
        OBVIOUS
      <3>1. Free.call = "none" /\ Free.call = c
        BY DEF Free
      <3> QED  BY <3>1 DEF Working, Calls
    <2> SUFFICES ASSUME NEW g \in Events, NEW c \in Working,
                        delivery'[d] = [call |-> c, event |-> g]
                 PROVE  g = e /\ c \in T
      BY DEF Holds, At
    <2>2. PICK t \in T : delivery'[d] = [call |-> t, event |-> e]
      BY <2>1 DEF Moves
    <2>3. delivery'[d].call = c /\ delivery'[d].event = g
      OBVIOUS
    <2>4. delivery'[d].call = t /\ delivery'[d].event = e
      BY <2>2
    <2> QED  BY <2>3, <2>4
  <1>3. CASE f # e
    BY <1>1, <1>2, <1>3 DEF ExclusiveInv
  <1>4. CASE f = e
    BY <1>1, <1>2, <1>4 DEF ExclusiveInv
  <1> QED  BY <1>3, <1>4

\* What a call that does not throw writes, on the rows it is not about and on
\* its own.
LEMMA CommitStatus ==
  ASSUME TypeOK, NEW call, NEW e \in Events, Commit(call, e)
  PROVE  /\ \A f \in Events \ {e} : status'[f] = status[f] /\ effects'[f] = effects[f]
         /\ status'[e] = StatusAfter(call, e)
         /\ effects'[e] = IF call = "apply" THEN effects[e] + 1 ELSE effects[e]
  BY DEF Commit, TypeOK

\* Every step of a delivery preserves ExclusiveInv.
LEMMA ExclusiveHandle ==
  ASSUME TypeOK, ExclusiveInv, NEW d \in Deliveries, NEW e \in Events, Handle(d, e)
  PROVE  ExclusiveInv'
  <1>1. {"insert", "reopen", "apply", "finish", "reject", "fail"} \subseteq Calls
    BY DEF Calls
  <1>2. {"apply", "finish", "reject", "fail"} \subseteq Working
    BY DEF Working, Calls
  <1>3. \A call \in Working : At(d, call, e) => Holds(d, e)
    BY DEF Holds
  <1>4. \A call \in Calls, x \in {"finish", "reject"} :
          At(d, call, e) /\ Goto(d, x) => \E T : Moves(d, e, T)
    BY MovesByCall
  <1>5. CASE Insert(d, e)
    <2>1. At(d, "insert", e) /\ Commit("insert", e) /\ UNCHANGED ambiguous
      BY <1>5 DEF Insert
    <2>2. \A t : Goto(d, t) => Moves(d, e, {t})
      BY <1>1, <2>1, MovesByCall
    <2>3. {"reopen"} \intersect Working = {}
      BY DEF Working
    <2>4. CASE status[e] = "ABSENT"
      <3>1. status'[e] = "RECEIVED" /\ Moves(d, e, {Work(e)})
        BY <1>5, <2>1, <2>2, <2>4, CommitStatus DEF Insert, StatusAfter
      <3> QED  BY <2>1, <2>4, <3>1, CommitStatus, ExclusiveMove
    <2>5. CASE status[e] # "ABSENT"
      <3>1. status'[e] = status[e] /\ Moves(d, e, {"reopen"})
        BY <1>5, <2>1, <2>2, <2>5, CommitStatus DEF Insert, StatusAfter
      <3> QED  BY <2>1, <2>3, <3>1, CommitStatus, ExclusiveMove
    <2> QED  BY <2>4, <2>5
  <1>6. CASE Reopen(d, e)
    <2>1. At(d, "reopen", e) /\ Commit("reopen", e) /\ UNCHANGED ambiguous
      BY <1>6 DEF Reopen
    <2>2. /\ Goto(d, Work(e)) => Moves(d, e, {Work(e)})
          /\ Respond(d, TRUE) => Moves(d, e, {})
      BY <1>1, <2>1, MovesByCall
    <2>3. CASE Reopens(e)
      <3>1. status[e] = "ERROR" /\ status'[e] = "RECEIVED"
        BY <2>1, <2>3, CommitStatus DEF StatusAfter, Reopens
      <3>2. Moves(d, e, {Work(e)})
        BY <1>6, <2>2, <2>3 DEF Reopen
      <3> QED  BY <2>1, <3>1, <3>2, CommitStatus, ExclusiveMove
    <2>4. CASE ~Reopens(e)
      <3>1. status'[e] = status[e]
        BY <2>1, <2>4, CommitStatus DEF StatusAfter
      <3>2. Moves(d, e, {})
        BY <1>6, <2>2, <2>4 DEF Reopen
      <3> QED  BY <2>1, <3>1, <3>2, CommitStatus, ExclusiveMove
    <2> QED  BY <2>3, <2>4
  <1>7. CASE Apply(d, e)
    <2>1. At(d, "apply", e) /\ Commit("apply", e) /\ UNCHANGED ambiguous
      BY <1>7 DEF Apply
    <2>2. Goto(d, "finish") \/ Goto(d, "reject")
      BY <1>7 DEF Apply
    <2>3. \A f \in Events : status'[f] = status[f]
      BY <2>1, CommitStatus DEF StatusAfter
    <2>4. PICK T : Moves(d, e, T)
      BY <1>1, <1>4, <2>1, <2>2
    <2>5. Holds(d, e)
      BY <1>2, <1>3, <2>1
    <2> QED  BY <2>1, <2>3, <2>4, <2>5, ExclusiveMove
  <1>8. CASE Ignore(d, e)
    <2>1. At(d, "apply", e) /\ UNCHANGED <<status, ambiguous>>
      BY <1>8 DEF Ignore
    <2>2. Goto(d, "finish") \/ Goto(d, "reject")
      BY <1>8 DEF Ignore
    <2>3. PICK T : Moves(d, e, T)
      BY <1>1, <1>4, <2>1, <2>2
    <2>4. Holds(d, e)
      BY <1>2, <1>3, <2>1
    <2> QED  BY <2>1, <2>3, <2>4, ExclusiveMove
  <1>9. CASE Finish(d, e)
    <2>1. PICK call \in {"finish", "reject"} :
            At(d, call, e) /\ Commit(call, e) /\ Respond(d, TRUE) /\ UNCHANGED ambiguous
      BY <1>9 DEF Finish
    <2>2. Moves(d, e, {}) /\ Holds(d, e)
      BY <1>1, <1>2, <1>3, <2>1, MovesByCall
    <2> QED  BY <2>1, <2>2, CommitStatus, ExclusiveMove
  <1>10. CASE MarkError(d, e)
    <2>1. At(d, "fail", e) /\ Commit("fail", e) /\ Respond(d, FALSE) /\ UNCHANGED ambiguous
      BY <1>10 DEF MarkError
    <2> QED  BY <1>1, <1>2, <1>3, <2>1, MovesByCall, CommitStatus, ExclusiveMove
  <1>11. CASE Throw(d, e)
    <2>1. PICK call \in Calls :
            /\ At(d, call, e)
            /\ \/ UNCHANGED <<status, ambiguous>>
               \/ Commit(call, e) /\ ambiguous' = ambiguous \union {e}
            /\ \/ Caught(call, e) /\ Goto(d, "fail")
               \/ Respond(d, FALSE)
      BY <1>11 DEF Throw
    <2>2. ambiguous \subseteq ambiguous'
      BY <2>1
    <2>3. \A f \in Events \ {e} : status'[f] = status[f]
      BY <2>1, CommitStatus
    <2>4. PICK T : /\ Moves(d, e, T)
                   /\ T = {} \/ Caught(call, e)
      BY <1>1, <2>1, MovesByCall
    <2>5. CASE UNCHANGED status
      <3>1. CASE T = {}
        BY <2>2, <2>3, <2>4, <2>5, <3>1, ExclusiveMove
      <3>2. CASE Caught(call, e)
        <4>1. e \in Relays \/ call \in Working
          BY <3>2 DEF Caught, Working
        <4> QED  BY <1>3, <2>1, <2>2, <2>3, <2>4, <2>5, <4>1, ExclusiveMove
      <3> QED  BY <2>4, <3>1, <3>2
    <2>6. CASE e \in ambiguous'
      BY <2>2, <2>3, <2>4, <2>6, ExclusiveMove
    <2> QED  BY <2>1, <2>5, <2>6
  <1> QED
    BY <1>5, <1>6, <1>7, <1>8, <1>9, <1>10, <1>11 DEF Handle

\* ExclusiveInv holds in every reachable state.
LEMMA ExclusiveReachable == Spec => []ExclusiveInv
  <1>1. Init => ExclusiveInv
    <2> SUFFICES ASSUME Init PROVE \A e \in Events, d \in Deliveries : ~Holds(d, e)
      BY DEF ExclusiveInv
    <2>1. \A c, e : c \in Working => Free # [call |-> c, event |-> e]
      <3> SUFFICES ASSUME NEW c \in Working, NEW e, Free = [call |-> c, event |-> e]
                   PROVE  FALSE
        OBVIOUS
      <3>1. Free.call = "none" /\ Free.call = c
        BY DEF Free
      <3> QED  BY <3>1 DEF Working, Calls
    <2> QED  BY <2>1 DEF Init, Holds, At
  <1>2. TypeOK /\ ExclusiveInv /\ [Next]_vars => ExclusiveInv'
    <2> SUFFICES ASSUME TypeOK, ExclusiveInv, [Next]_vars PROVE ExclusiveInv'
      OBVIOUS
    <2>1. ASSUME NEW d \in Deliveries, NEW e \in Events, Deliver(d, e)
          PROVE  ExclusiveInv'
      <3>1. Moves(d, e, {"insert"})
        BY <2>1 DEF Deliver, Moves, TypeOK
      <3>2. {"insert"} \intersect Working = {}
        BY DEF Working
      <3> QED  BY <2>1, <3>1, <3>2, ExclusiveMove DEF Deliver
    <2>2. ASSUME NEW d \in Deliveries, Crash(d) PROVE ExclusiveInv'
      <3>1. delivery[d] \in [call: Calls, event: Events]
        BY <2>2 DEF Crash, TypeOK
      <3>2. PICK e \in Events : Moves(d, e, {})
        BY <2>2, <3>1 DEF Crash, Respond, Moves, TypeOK
      <3> QED  BY <2>2, <3>2, ExclusiveMove DEF Crash
    <2>3. CASE UNCHANGED vars
      BY <2>3 DEF vars, ExclusiveInv, Holds, At
    <2> QED  BY <2>1, <2>2, <2>3, ExclusiveHandle DEF Next
  <1> QED  BY <1>1, <1>2, InboxTypeCorrect, PTL DEF Spec

\* The routes that record before their try never handle an event twice at the
\* same time, unless a call of it that failed was committed.
THEOREM HandlersExclude == Spec => []AtMostOneHandler
  <1>1. ExclusiveInv => AtMostOneHandler
    BY DEF ExclusiveInv, AtMostOneHandler, Handling, Holds, Working
  <1> QED  BY <1>1, ExclusiveReachable, PTL

\* A step of a delivery touches no processed row, unless it is of a relayed
\* event or of one whose failing call was committed: its row is written by its
\* only handler.
LEMMA ProcessedHandle ==
  ASSUME TypeOK, ExclusiveInv, NEW d \in Deliveries, NEW e \in Events, Handle(d, e),
         NEW f \in Events \ (Relays \union ambiguous'), status[f] = "PROCESSED"
  PROVE  status'[f] = "PROCESSED"
  <1>1. ASSUME NEW call \in Calls, At(d, call, e), Commit(call, e),
               f \notin ambiguous
        PROVE  status'[f] = "PROCESSED"
    <2>1. CASE f # e
      BY <1>1, <2>1, CommitStatus
    <2>2. CASE f = e
      <3>1. call \notin Working
        BY <1>1, <2>2 DEF ExclusiveInv, Holds
      <3>2. call \in {"insert", "reopen"}
        BY <3>1 DEF Working
      <3> QED  BY <1>1, <2>2, <3>2, CommitStatus DEF StatusAfter, Reopens
    <2> QED  BY <2>1, <2>2
  <1>2. {"insert", "reopen", "apply", "finish", "reject", "fail"} \subseteq Calls
    BY DEF Calls
  <1>3. \/ UNCHANGED status
        \/ \E call \in Calls : /\ At(d, call, e)
                               /\ Commit(call, e)
                               /\ ambiguous' \in {ambiguous, ambiguous \union {e}}
    <2>1. CASE Insert(d, e) \/ Reopen(d, e) \/ Apply(d, e)
      BY <1>2, <2>1 DEF Insert, Reopen, Apply
    <2>2. CASE Finish(d, e) \/ MarkError(d, e)
      BY <1>2, <2>2 DEF Finish, MarkError
    <2>3. CASE Ignore(d, e)
      BY <2>3 DEF Ignore
    <2>4. CASE Throw(d, e)
      BY <2>4 DEF Throw
    <2> QED  BY <2>1, <2>2, <2>3, <2>4 DEF Handle
  <1> QED  BY <1>1, <1>3

\* An event of the routes that record before their try is never touched again
\* once it was processed, unless a call of it that failed was committed.
THEOREM ProcessedStays == Spec => ProcessedIsFinal
  <1>1. TypeOK /\ ExclusiveInv /\ [Next]_vars =>
          [\A e \in Events \ (Relays \union ambiguous') :
             status[e] = "PROCESSED" => status'[e] = "PROCESSED"]_vars
    <2> SUFFICES ASSUME TypeOK, ExclusiveInv, [Next]_vars,
                        NEW e \in Events \ (Relays \union ambiguous'),
                        status[e] = "PROCESSED"
                 PROVE  status'[e] = "PROCESSED"
      OBVIOUS
    <2>1. ASSUME NEW d \in Deliveries, NEW f \in Events, Handle(d, f)
          PROVE  status'[e] = "PROCESSED"
      BY <2>1, ProcessedHandle
    <2>2. CASE UNCHANGED status
      BY <2>2
    <2> QED  BY <2>1, <2>2 DEF Next, Deliver, Crash, vars
  <1> QED  BY <1>1, InboxTypeCorrect, ExclusiveReachable, PTL DEF Spec, ProcessedIsFinal

-----------------------------------------------------------------------------
(* Effects are paid by errors *)

\* The calls at which a delivery may still have an effect, or reopen its event
Owing == {"apply", "reject", "fail"}

Burden(d, e) == IF \E call \in Owing : At(d, call, e) THEN 1 ELSE 0

Retriable(e) == IF status[e] \in {"ABSENT", "ERROR"} THEN 1 ELSE 0

\* EffectsPaidByErrors is inductive once the effects that are still possible
\* are counted with those that happened.
PaidInv ==
  \A e \in Events :
    Cardinality(Handling(e, Owing)) + effects[e] + Retriable(e) <= 1 + errors[e]

\* A step of delivery d changes the deliveries that handle an event by d.
LEMMA HandlingMove ==
  ASSUME NEW d \in Deliveries, NEW e, NEW T, Moves(d, e, T), NEW f
  PROVE  \E n \in Nat : /\ Cardinality(Handling(f, Owing)) = n + Burden(d, f)
                        /\ Cardinality(Handling(f, Owing))' = n + Burden(d, f)'
  <1> DEFINE H == Handling(f, Owing)
             Others == H \ {d}
  <1>1. IsFiniteSet(H) /\ IsFiniteSet(H') /\ IsFiniteSet(Others)
    <2>1. H \in SUBSET Deliveries /\ H' \in SUBSET Deliveries
      BY DEF Handling
    <2>2. Others \in SUBSET Deliveries
      BY <2>1
    <2> QED  BY <2>1, <2>2, InboxConstants, FS_Subset
  <1>2. H' \ {d} = Others
    BY DEF Handling, Moves, At
  <1>3. Cardinality(Others) \in Nat /\ Cardinality(H) \in Nat /\ Cardinality(H') \in Nat
    BY <1>1, FS_CardinalityType
  <1>4. Cardinality(Others) = IF d \in H THEN Cardinality(H) - 1 ELSE Cardinality(H)
    BY <1>1, FS_RemoveElement
  <1>5. Cardinality(Others) = IF d \in H' THEN Cardinality(H') - 1 ELSE Cardinality(H')
    BY <1>1, <1>2, FS_RemoveElement
  <1>6. /\ d \in H <=> \E call \in Owing : At(d, call, f)
        /\ d \in H' <=> (\E call \in Owing : At(d, call, f))'
    BY DEF Handling
  <1>7. /\ Cardinality(H) = Cardinality(Others) + Burden(d, f)
        /\ Cardinality(H') = Cardinality(Others) + Burden(d, f)'
    <2> HIDE DEF H, Others
    <2> QED  BY <1>3, <1>4, <1>5, <1>6 DEF Burden
  <1> QED  BY <1>3, <1>7

\* What a commit adds to the effects of an event and to its right to be
\* reopened is at most what its delivery was charged with.
LEMMA CommitPays ==
  ASSUME TypeOK, NEW d \in Deliveries, NEW e \in Events, NEW call \in Calls,
         At(d, call, e), Commit(call, e)
  PROVE  effects'[e] + Retriable(e)' <= effects[e] + Retriable(e) + Burden(d, e)
  <1>1. effects[e] \in Nat
    BY DEF TypeOK
  <1>2. CASE call \in Owing
    <2>1. Burden(d, e) = 1
      BY <1>2 DEF Burden
    <2>2. CASE call = "apply"
      <3>1. status'[e] = status[e] /\ effects'[e] = effects[e] + 1
        BY <2>2, CommitStatus DEF StatusAfter
      <3> QED  BY <1>1, <2>1, <3>1 DEF Retriable
    <2>3. CASE call # "apply"
      <3>1. effects'[e] = effects[e]
        BY <2>3, CommitStatus
      <3> QED  BY <1>1, <2>1, <3>1 DEF Retriable
    <2> QED  BY <2>2, <2>3
  <1>3. CASE call \notin Owing
    <2>1. effects'[e] = effects[e] /\ status'[e] = StatusAfter(call, e)
      BY <1>3, CommitStatus DEF Owing
    <2>2. Retriable(e)' <= Retriable(e)
      BY <1>3, <2>1 DEF Retriable, StatusAfter, Reopens, Owing
    <2>3. Burden(d, e) \in {0, 1} /\ Retriable(e) \in {0, 1} /\ Retriable(e)' \in {0, 1}
      BY DEF Burden, Retriable
    <2> QED  BY <1>1, <2>1, <2>2, <2>3
  <1> QED  BY <1>2, <1>3

\* The ways in which a step of delivery d leaves PaidInv true: it spends what
\* d was charged with, it is a failure, or d takes a retriable event up.
LEMMA PaidMove ==
  ASSUME TypeOK, TypeOK', PaidInv, NEW d \in Deliveries, NEW e \in Events, NEW T,
         Moves(d, e, T),
         \A f \in Events \ {e} : /\ status'[f] = status[f]
                                 /\ effects'[f] = effects[f]
                                 /\ errors'[f] = errors[f],
         \/ /\ effects'[e] + Retriable(e)' <= effects[e] + Retriable(e) + Burden(d, e)
            /\ \/ T \intersect Owing = {} /\ errors'[e] = errors[e]
               \/ errors'[e] = errors[e] + 1
         \/ /\ Retriable(e) = 1 /\ Retriable(e)' = 0
            /\ effects'[e] = effects[e] /\ errors'[e] = errors[e]
  PROVE  PaidInv'
  <1> SUFFICES ASSUME NEW f \in Events
               PROVE  Cardinality(Handling(f, Owing))' + effects'[f] + Retriable(f)'
                        <= 1 + errors'[f]
    BY DEF PaidInv
  <1>1. PICK n \in Nat : /\ Cardinality(Handling(f, Owing)) = n + Burden(d, f)
                         /\ Cardinality(Handling(f, Owing))' = n + Burden(d, f)'
    BY HandlingMove
  <1>2. n + Burden(d, f) + effects[f] + Retriable(f) <= 1 + errors[f]
    BY <1>1 DEF PaidInv
  <1>3. /\ effects[f] \in Nat /\ effects'[f] \in Nat
        /\ errors[f] \in Nat /\ errors'[f] \in Nat
    BY InboxConstants DEF TypeOK
  <1>4. /\ Burden(d, f) \in {0, 1} /\ Burden(d, f)' \in {0, 1}
        /\ Retriable(f) \in {0, 1} /\ Retriable(f)' \in {0, 1}
    BY DEF Burden, Retriable
  <1>5. Burden(d, f)' = 1 => f = e /\ T \intersect Owing # {}
    <2> SUFFICES ASSUME Burden(d, f)' = 1
                 PROVE  f = e /\ T \intersect Owing # {}
      OBVIOUS
    <2>0. PICK c \in Owing : delivery'[d] = [call |-> c, event |-> f]
      BY DEF Burden, At
    <2>1. delivery'[d].call = c /\ delivery'[d].event = f
      BY <2>0
    <2>2. delivery'[d] # Free
      <3>1. Free.call = "none"
        BY DEF Free
      <3> QED  BY <2>1, <3>1 DEF Owing
    <2>3. PICK t \in T : delivery'[d] = [call |-> t, event |-> e]
      BY <2>2 DEF Moves
    <2>4. delivery'[d].call = t /\ delivery'[d].event = e
      BY <2>3
    <2> QED  BY <2>1, <2>4
  <1>6. CASE f # e
    <2>1. Burden(d, f)' = 0 /\ Retriable(f)' = Retriable(f)
      BY <1>4, <1>5, <1>6 DEF Retriable
    <2> QED  BY <1>1, <1>2, <1>3, <1>4, <1>6, <2>1
  <1>7. CASE f = e
    <2>1. CASE errors'[f] = errors[f] + 1
      <3>1. effects'[f] + Retriable(f)' <= effects[f] + Retriable(f) + Burden(d, f)
        BY <1>3, <1>7, <2>1
      <3> QED  BY <1>1, <1>2, <1>3, <1>4, <2>1, <3>1
    <2>2. CASE errors'[f] = errors[f]
      <3>1. effects'[f] + Retriable(f)' + Burden(d, f)' <=
              effects[f] + Retriable(f) + Burden(d, f)
        <4>1. CASE Burden(d, f)' = 0
          BY <1>3, <1>4, <1>7, <2>2, <4>1
        <4>2. CASE Burden(d, f)' = 1
          <5>1. Retriable(f) = 1 /\ Retriable(f)' = 0 /\ effects'[f] = effects[f]
            BY <1>3, <1>5, <1>7, <2>2, <4>2
          <5> QED  BY <1>3, <1>4, <4>2, <5>1
        <4> QED  BY <1>4, <4>1, <4>2
      <3> QED  BY <1>1, <1>2, <1>3, <1>4, <2>2, <3>1
    <2> QED  BY <1>3, <1>7, <2>1, <2>2
  <1> QED  BY <1>6, <1>7

\* A failure is counted for its event alone.
LEMMA FailsOnce ==
  ASSUME TypeOK, NEW e \in Events, Fails(e)
  PROVE  /\ errors'[e] = errors[e] + 1
         /\ \A f \in Events \ {e} : errors'[f] = errors[f]
  BY DEF Fails, TypeOK

\* Every step of a delivery preserves PaidInv.
LEMMA PaidHandle ==
  ASSUME TypeOK, PaidInv, NEW d \in Deliveries, NEW e \in Events, Handle(d, e)
  PROVE  PaidInv'
  <1>1. {"insert", "reopen", "apply", "finish", "reject", "fail"} \subseteq Calls
    BY DEF Calls
  <1>2. TypeOK'
    BY HandleType
  <1>3. effects[e] \in Nat /\ effects'[e] \in Nat
    BY <1>2 DEF TypeOK
  <1>4. Burden(d, e) \in {0, 1} /\ Retriable(e) \in {0, 1}
    BY DEF Burden, Retriable
  <1>5. {} \intersect Owing = {} /\ {"finish"} \intersect Owing = {}
          /\ {"reopen"} \intersect Owing = {}
    BY DEF Owing
  <1>6. CASE Insert(d, e)
    <2>1. At(d, "insert", e) /\ Commit("insert", e) /\ UNCHANGED errors
      BY <1>6 DEF Insert
    <2>2. \A t : Goto(d, t) => Moves(d, e, {t})
      BY <1>1, <2>1, MovesByCall
    <2>3. CASE status[e] = "ABSENT"
      <3>1. Retriable(e) = 1 /\ Retriable(e)' = 0 /\ effects'[e] = effects[e]
        BY <2>1, <2>3, CommitStatus DEF StatusAfter, Retriable
      <3>2. Moves(d, e, {Work(e)})
        BY <1>6, <2>2, <2>3 DEF Insert
      <3> QED  BY <1>2, <2>1, <3>1, <3>2, CommitStatus, PaidMove
    <2>4. CASE status[e] # "ABSENT"
      <3>1. Moves(d, e, {"reopen"})
        BY <1>6, <2>2, <2>4 DEF Insert
      <3> QED  BY <1>1, <1>2, <1>5, <2>1, <3>1, CommitPays, CommitStatus, PaidMove
    <2> QED  BY <2>3, <2>4
  <1>7. CASE Reopen(d, e)
    <2>1. At(d, "reopen", e) /\ Commit("reopen", e) /\ UNCHANGED errors
      BY <1>7 DEF Reopen
    <2>2. /\ Goto(d, Work(e)) => Moves(d, e, {Work(e)})
          /\ Respond(d, TRUE) => Moves(d, e, {})
      BY <1>1, <2>1, MovesByCall
    <2>3. CASE Reopens(e)
      <3>1. Retriable(e) = 1 /\ Retriable(e)' = 0 /\ effects'[e] = effects[e]
        BY <2>1, <2>3, CommitStatus DEF StatusAfter, Retriable, Reopens
      <3>2. Moves(d, e, {Work(e)})
        BY <1>7, <2>2, <2>3 DEF Reopen
      <3> QED  BY <1>2, <2>1, <3>1, <3>2, CommitStatus, PaidMove
    <2>4. CASE ~Reopens(e)
      <3>1. Moves(d, e, {})
        BY <1>7, <2>2, <2>4 DEF Reopen
      <3> QED  BY <1>1, <1>2, <1>5, <2>1, <3>1, CommitPays, CommitStatus, PaidMove
    <2> QED  BY <2>3, <2>4
  <1>8. CASE Apply(d, e)
    <2>1. At(d, "apply", e) /\ Commit("apply", e)
      BY <1>8 DEF Apply
    <2>2. \A t : Goto(d, t) => Moves(d, e, {t})
      BY <1>1, <2>1, MovesByCall
    <2>3. CASE Goto(d, "finish") /\ UNCHANGED errors
      BY <1>1, <1>2, <1>5, <2>1, <2>2, <2>3, CommitPays, CommitStatus, PaidMove
    <2>4. CASE Goto(d, "reject") /\ Fails(e)
      BY <1>1, <1>2, <2>1, <2>2, <2>4, FailsOnce, CommitPays, CommitStatus, PaidMove
    <2> QED  BY <1>8, <2>3, <2>4 DEF Apply
  <1>9. CASE Ignore(d, e)
    <2>1. At(d, "apply", e) /\ UNCHANGED <<status, effects>>
      BY <1>9 DEF Ignore
    <2>2. \A t : Goto(d, t) => Moves(d, e, {t})
      BY <1>1, <2>1, MovesByCall
    <2>3. effects'[e] + Retriable(e)' <= effects[e] + Retriable(e) + Burden(d, e)
      BY <1>3, <1>4, <2>1 DEF Retriable
    <2>4. CASE Goto(d, "finish") /\ UNCHANGED errors
      BY <1>2, <1>5, <2>1, <2>2, <2>3, <2>4, PaidMove
    <2>5. CASE Goto(d, "reject") /\ Fails(e)
      BY <1>2, <2>1, <2>2, <2>3, <2>5, FailsOnce, PaidMove
    <2> QED  BY <1>9, <2>4, <2>5 DEF Ignore
  <1>10. CASE Finish(d, e) \/ MarkError(d, e)
    <2>1. PICK call \in Calls, ok \in BOOLEAN :
            At(d, call, e) /\ Commit(call, e) /\ Respond(d, ok) /\ UNCHANGED errors
      BY <1>1, <1>10 DEF Finish, MarkError
    <2>2. Moves(d, e, {})
      BY <2>1, MovesByCall
    <2> QED  BY <1>2, <1>5, <2>1, <2>2, CommitPays, CommitStatus, PaidMove
  <1>11. CASE Throw(d, e)
    <2>1. PICK call \in Calls :
            /\ At(d, call, e)
            /\ Fails(e)
            /\ UNCHANGED <<status, effects>> \/ Commit(call, e)
            /\ Goto(d, "fail") \/ Respond(d, FALSE)
      BY <1>11 DEF Throw
    <2>2. PICK T : Moves(d, e, T)
      BY <2>1, MovesByCall
    <2>3. effects'[e] + Retriable(e)' <= effects[e] + Retriable(e) + Burden(d, e)
      <3>1. CASE UNCHANGED <<status, effects>>
        BY <1>3, <1>4, <3>1 DEF Retriable
      <3>2. CASE Commit(call, e)
        BY <2>1, <3>2, CommitPays
      <3> QED  BY <2>1, <3>1, <3>2
    <2>4. \A f \in Events \ {e} : /\ status'[f] = status[f]
                                  /\ effects'[f] = effects[f]
                                  /\ errors'[f] = errors[f]
      BY <2>1, CommitStatus, FailsOnce
    <2> QED  BY <1>2, <2>1, <2>2, <2>3, <2>4, FailsOnce, PaidMove
  <1> QED
    BY <1>6, <1>7, <1>8, <1>9, <1>10, <1>11 DEF Handle

\* However many deliveries of an event race, and whatever fails, each effect
\* of the event after the first is paid for by a failure.
THEOREM EffectsArePaid == Spec => []EffectsPaidByErrors
  <1>1. Init => PaidInv
    <2> SUFFICES ASSUME Init, NEW e \in Events
                 PROVE  Cardinality(Handling(e, Owing)) + effects[e] + Retriable(e)
                          <= 1 + errors[e]
      BY DEF PaidInv
    <2>1. \A c : c \in Owing => Free # [call |-> c, event |-> e]
      <3> SUFFICES ASSUME NEW c \in Owing, Free = [call |-> c, event |-> e] PROVE FALSE
        OBVIOUS
      <3>1. Free.call = "none" /\ Free.call = c
        BY DEF Free
      <3> QED  BY <3>1 DEF Owing
    <2>2. Handling(e, Owing) = {}
      BY <2>1 DEF Init, Handling, At
    <2>3. Cardinality(Handling(e, Owing)) = 0
      BY <2>2, FS_EmptySet
    <2>4. effects[e] = 0 /\ errors[e] = 0 /\ Retriable(e) = 1
      BY DEF Init, Retriable
    <2> QED  BY <2>3, <2>4
  <1>2. TypeOK /\ PaidInv /\ [Next]_vars => PaidInv'
    <2> SUFFICES ASSUME TypeOK, PaidInv, [Next]_vars PROVE PaidInv'
      OBVIOUS
    <2>1. TypeOK'
      BY NextType
    <2>2. ASSUME NEW d \in Deliveries, NEW e \in Events,
                 Moves(d, e, {"insert"}) \/ Moves(d, e, {}),
                 UNCHANGED <<status, effects, errors>>
          PROVE  PaidInv'
      <3>1. effects[e] \in Nat /\ Burden(d, e) \in {0, 1} /\ Retriable(e) \in {0, 1}
        BY DEF TypeOK, Burden, Retriable
      <3>2. effects'[e] + Retriable(e)' <= effects[e] + Retriable(e) + Burden(d, e)
        BY <2>2, <3>1 DEF Retriable
      <3>3. {"insert"} \intersect Owing = {}
        BY DEF Owing
      <3> QED  BY <2>1, <2>2, <3>2, <3>3, PaidMove
    <2>3. ASSUME NEW d \in Deliveries, NEW e \in Events, Deliver(d, e) PROVE PaidInv'
      <3>1. Moves(d, e, {"insert"})
        BY <2>3 DEF Deliver, Moves, TypeOK
      <3> QED  BY <2>2, <2>3, <3>1 DEF Deliver
    <2>4. ASSUME NEW d \in Deliveries, Crash(d) PROVE PaidInv'
      <3>1. delivery[d] \in [call: Calls, event: Events]
        BY <2>4 DEF Crash, TypeOK
      <3>2. PICK e \in Events : Moves(d, e, {})
        BY <2>4, <3>1 DEF Crash, Respond, Moves, TypeOK
      <3> QED  BY <2>2, <2>4, <3>2 DEF Crash
    <2>5. CASE UNCHANGED vars
      BY <2>5 DEF vars, PaidInv, Handling, At, Retriable
    <2> QED  BY <2>3, <2>4, <2>5, PaidHandle DEF Next
  <1>3. TypeOK /\ PaidInv => EffectsPaidByErrors
    <2> SUFFICES ASSUME TypeOK, PaidInv, NEW e \in Events
                 PROVE  effects[e] <= 1 + errors[e]
      BY DEF EffectsPaidByErrors
    <2>1. Cardinality(Handling(e, Owing)) \in Nat
      <3>1. Handling(e, Owing) \in SUBSET Deliveries
        BY DEF Handling
      <3> QED  BY <3>1, InboxConstants, FS_Subset, FS_CardinalityType
    <2>2. effects[e] \in Nat /\ errors[e] \in Nat /\ Retriable(e) \in {0, 1}
      BY InboxConstants DEF TypeOK, Retriable
    <2>3. Cardinality(Handling(e, Owing)) + effects[e] + Retriable(e) <= 1 + errors[e]
      BY DEF PaidInv
    <2> QED  BY <2>1, <2>2, <2>3
  <1> QED  BY <1>1, <1>2, <1>3, InboxTypeCorrect, PTL DEF Spec

-----------------------------------------------------------------------------
(* The ledger is kept *)

\* The effects the ledger counts
Effect(e) == IF e \in ambiguous THEN 0 ELSE effects[e]

\* The phase of an event that is held, from its holder's next call
PhaseAt(e, call) ==
  IF call = "apply" \/ (e \in Queues /\ call = "finish") THEN "held" ELSE "past"

\* What a step of the ledger may make of an event in phase p with n effects
Evolves(p, n, q, m) ==
  \/ q = p /\ m = n
  \/ p \in {"new", "failed"} /\ q = "held" /\ m = n
  \/ p = "held" /\ q = "past" /\ m \in {n, n + 1}
  \/ p \in {"held", "past"} /\ q \in {"done", "failed", "stuck"} /\ m = n
  \/ p # "unknown" /\ q = "unknown" /\ m = 0

\* Phases are those of the ledger.
LEMMA PhaseType ==
  ASSUME TypeOK, NEW e \in Events
  PROVE  Phase(e) \in Ledger!Phases
  BY DEF TypeOK, Statuses, Phase, Ledger!Phases

\* If one event evolves and the others stay, the ledger makes a step.
LEMMA LedgerStep ==
  ASSUME TypeOK, NEW e \in Exclusive,
         \A f \in Exclusive \ {e} : Phase(f)' = Phase(f) /\ Effect(f)' = Effect(f),
         Evolves(Phase(e), Effect(e), Phase(e)', Effect(e)')
  PROVE  [Ledger!Next]_(Ledger!vars)
  <1> DEFINE P == [f \in Exclusive |-> Phase(f)]
             N == [f \in Exclusive |-> Effect(f)]
  <1>1. Effect(e) \in Nat /\ Phase(e) \in Ledger!Phases
    BY PhaseType DEF Effect, TypeOK, Exclusive, Events
  <1>2. P' = [P EXCEPT ![e] = Phase(e)'] /\ N' = [N EXCEPT ![e] = Effect(e)']
    OBVIOUS
  <1>3. P[e] = Phase(e) /\ N[e] = Effect(e)
    OBVIOUS
  <1>4. Effect(e)' = Effect(e) => N' = N
    BY <1>2
  <1>5. /\ Ledger!vars = <<P, N>>
        /\ \A from, to : Ledger!Move(e, from, to) <=> P[e] \in from /\ P' = [P EXCEPT ![e] = to]
    BY DEF Ledger!vars, Ledger!Move, Effect
  <1>6. CASE Phase(e)' = Phase(e) /\ Effect(e)' = Effect(e)
    <2>1. P' = P /\ N' = N
      BY <1>6
    <2> QED  BY <2>1 DEF Ledger!vars, Effect
  <1>7. CASE Phase(e) \in {"new", "failed"} /\ Phase(e)' = "held" /\ Effect(e)' = Effect(e)
    <2>1. Ledger!Begin(e)
      BY <1>2, <1>3, <1>4, <1>5, <1>7 DEF Ledger!Begin, Effect
    <2> QED  BY <2>1 DEF Ledger!Next
  <1>8. CASE Phase(e) = "held" /\ Phase(e)' = "past" /\ Effect(e)' \in {Effect(e), Effect(e) + 1}
    <2>1. PICK n \in {0, 1} : Effect(e)' = Effect(e) + n
      BY <1>1, <1>8
    <2>2. N' = [N EXCEPT ![e] = @ + n]
      BY <1>2, <1>3, <2>1
    <2>3. Ledger!Perform(e)
      BY <1>2, <1>3, <1>5, <1>8, <2>2 DEF Ledger!Perform, Effect
    <2> QED  BY <2>3 DEF Ledger!Next
  <1>9. CASE /\ Phase(e) \in {"held", "past"} /\ Phase(e)' \in {"done", "failed", "stuck"}
              /\ Effect(e)' = Effect(e)
    <2>1. Ledger!Conclude(e) \/ Ledger!Lose(e)
      BY <1>2, <1>3, <1>4, <1>5, <1>9 DEF Ledger!Conclude, Ledger!Lose, Effect
    <2> QED  BY <2>1 DEF Ledger!Next
  <1>10. CASE Phase(e) # "unknown" /\ Phase(e)' = "unknown" /\ Effect(e)' = 0
    <2>1. Ledger!Blur(e)
      BY <1>1, <1>2, <1>3, <1>5, <1>10 DEF Ledger!Blur, Effect
    <2> QED  BY <2>1 DEF Ledger!Next
  <1> QED  BY <1>6, <1>7, <1>8, <1>9, <1>10 DEF Evolves

\* A step of delivery d for event e starts or ends work on e only, and leaves
\* d with work only at a call of T.
LEMMA WorkMove ==
  ASSUME NEW d \in Deliveries, NEW e \in Events, NEW T, NEW b \in Calls,
         At(d, b, e), Moves(d, e, T)
  PROVE  /\ \A c \in Deliveries, f \in Events, call \in Working :
              c # d \/ f # e => (At(c, call, f)' <=> At(c, call, f))
         /\ \A call \in Working : At(d, call, e)' => call \in T
  <1>1. \A c, g : c \in Working => Free # [call |-> c, event |-> g]
    <2> SUFFICES ASSUME NEW c \in Working, NEW g, Free = [call |-> c, event |-> g]
                 PROVE  FALSE
      OBVIOUS
    <2>1. Free.call = "none" /\ Free.call = c
      BY DEF Free
    <2> QED  BY <2>1 DEF Working, Calls
  <1>2. ASSUME NEW f \in Events, NEW call \in Working, At(d, call, f)'
        PROVE  f = e /\ call \in T
    <2>1. delivery'[d] = [call |-> call, event |-> f]
      BY <1>2 DEF At
    <2>2. PICK t \in T : delivery'[d] = [call |-> t, event |-> e]
      BY <1>1, <2>1 DEF Moves
    <2>3. delivery'[d].call = call /\ delivery'[d].event = f
      BY <2>1
    <2>4. delivery'[d].call = t /\ delivery'[d].event = e
      BY <2>2
    <2> QED  BY <2>3, <2>4
  <1>3. ASSUME NEW f \in Events, NEW call \in Working, At(d, call, f)
        PROVE  f = e
    <2>1. delivery[d] = [call |-> call, event |-> f] /\ delivery[d] = [call |-> b, event |-> e]
      BY <1>3 DEF At
    <2>2. delivery[d].event = f /\ delivery[d].event = e
      BY <2>1
    <2> QED  BY <2>2
  <1>4. \A c \in Deliveries \ {d} : \A f, call : At(c, call, f)' <=> At(c, call, f)
    BY DEF Moves, At
  <1> QED  BY <1>2, <1>3, <1>4

\* The phase of an event depends on its row, on the deliveries that work on it
\* and on whether one of its failing calls was committed.
LEMMA PhaseFrame ==
  ASSUME TypeOK, NEW f \in Events,
         status'[f] = status[f], f \in ambiguous' <=> f \in ambiguous,
         \A c \in Deliveries, call \in Working : At(c, call, f)' <=> At(c, call, f)
  PROVE  Phase(f)' = Phase(f)
  <1>1. {"apply"} \subseteq Working /\ {"finish"} \subseteq Working
          /\ {"finish", "reject", "fail"} \subseteq Working
    BY DEF Working, Calls
  <1>2. ASSUME NEW C, C \subseteq Working
        PROVE  Handling(f, C)' = Handling(f, C)
    BY <1>2 DEF Handling
  <1>3. /\ Handling(f, {"apply"})' = Handling(f, {"apply"})
        /\ Handling(f, {"finish"})' = Handling(f, {"finish"})
        /\ Handling(f, {"finish", "reject", "fail"})' = Handling(f, {"finish", "reject", "fail"})
    BY <1>1, <1>2
  <1> QED  BY <1>3 DEF Phase, TypeOK, Statuses

\* The phase of an event somebody works on is that of the worker's next call.
HeldPhases ==
  \A e \in Exclusive \ ambiguous, d \in Deliveries, call \in Working :
    At(d, call, e) => status[e] = "RECEIVED" /\ Phase(e) = PhaseAt(e, call)

\* The phase of an event nobody works on is that of its row.
FreePhases ==
  \A e \in Exclusive \ ambiguous :
    (\A c \in Deliveries, x \in Working : ~At(c, x, e)) =>
      /\ status[e] = "ABSENT" => Phase(e) = "new"
      /\ status[e] = "PROCESSED" => Phase(e) = "done"
      /\ status[e] = "ERROR" => Phase(e) = "failed"
      /\ status[e] = "RECEIVED" => Phase(e) = "stuck"

\* With one handler at a time, the phase of an event is that of its handler's
\* next call, or that of its row.
LEMMA PhaseIsKnown == ExclusiveInv => HeldPhases /\ FreePhases
  <1> SUFFICES ASSUME ExclusiveInv PROVE HeldPhases /\ FreePhases
    OBVIOUS
  <1>0. Working = {"apply", "finish", "reject", "fail"}
    BY DEF Working, Calls
  <1>1. ASSUME NEW e \in Exclusive \ ambiguous, NEW d \in Deliveries,
               NEW call \in Working, At(d, call, e)
        PROVE  status[e] = "RECEIVED" /\ Phase(e) = PhaseAt(e, call)
    <2>1. e \in Events \ (Relays \union ambiguous)
      BY InboxConstants DEF Exclusive, Events
    <2>2. Holds(d, e)
      BY <1>1 DEF Holds
    <2>3. status[e] = "RECEIVED" /\ \A c \in Deliveries : Holds(c, e) => c = d
      BY <2>1, <2>2 DEF ExclusiveInv
    <2>4. \A c \in Deliveries, x \in Working : At(c, x, e) <=> c = d /\ x = call
      <3> SUFFICES ASSUME NEW c \in Deliveries, NEW x \in Working, At(c, x, e)
                   PROVE  c = d /\ x = call
        BY <1>1
      <3>1. c = d
        BY <2>3 DEF Holds
      <3>2. delivery[d] = [call |-> x, event |-> e] /\ delivery[d] = [call |-> call, event |-> e]
        BY <1>1, <3>1 DEF At
      <3>3. delivery[d].call = x /\ delivery[d].call = call
        BY <3>2
      <3> QED  BY <3>1, <3>3
    <2>5. Handling(e, {"apply"}) # {} <=> call = "apply"
      BY <1>0, <2>4 DEF Handling
    <2>6. Handling(e, {"finish"}) # {} <=> call = "finish"
      BY <1>0, <2>4 DEF Handling
    <2>7. Handling(e, {"finish", "reject", "fail"}) # {} <=> call # "apply"
      BY <1>0, <2>4 DEF Handling
    <2> QED  BY <1>0, <2>3, <2>5, <2>6, <2>7 DEF Phase, PhaseAt
  <1>2. FreePhases
    <2> SUFFICES ASSUME NEW e \in Exclusive \ ambiguous,
                        \A c \in Deliveries, x \in Working : ~At(c, x, e)
                 PROVE  /\ status[e] = "ABSENT" => Phase(e) = "new"
                        /\ status[e] = "PROCESSED" => Phase(e) = "done"
                        /\ status[e] = "ERROR" => Phase(e) = "failed"
                        /\ status[e] = "RECEIVED" => Phase(e) = "stuck"
      BY DEF FreePhases
    <2>1. Handling(e, {"apply"}) = {} /\ Handling(e, {"finish", "reject", "fail"}) = {}
      BY <1>0 DEF Handling
    <2> QED  BY <2>1 DEF Phase
  <1> QED  BY <1>1, <1>2 DEF HeldPhases

\* The same of the state after a step
LEMMA PhaseIsKnownAfter == ExclusiveInv' => HeldPhases' /\ FreePhases'
  BY PhaseIsKnown, PTL

\* The events of Queues have no effect: no delivery of theirs applies one.
QueuesHaveNoEffect ==
  \A d \in Deliveries, e \in Queues : ~At(d, "apply", e)

\* A step of delivery d keeps the ledger if it evolves the event of d.
LEMMA LedgerMove ==
  ASSUME TypeOK, NEW d \in Deliveries, NEW e \in Events, NEW T, NEW b \in Calls,
         At(d, b, e), Moves(d, e, T),
         \A f \in Events \ {e} : /\ status'[f] = status[f]
                                 /\ effects'[f] = effects[f]
                                 /\ (f \in ambiguous' <=> f \in ambiguous),
         e \in Exclusive => Evolves(Phase(e), Effect(e), Phase(e)', Effect(e)')
  PROVE  [Ledger!Next]_(Ledger!vars)
  <1>1. \A f \in Exclusive \ {e} : Phase(f)' = Phase(f) /\ Effect(f)' = Effect(f)
    <2> SUFFICES ASSUME NEW f \in Exclusive \ {e}
                 PROVE  Phase(f)' = Phase(f) /\ Effect(f)' = Effect(f)
      OBVIOUS
    <2>1. f \in Events \ {e}
      BY DEF Exclusive, Events
    <2>2. status'[f] = status[f] /\ effects'[f] = effects[f]
            /\ (f \in ambiguous' <=> f \in ambiguous)
      BY <2>1
    <2>3. \A c \in Deliveries, call \in Working : At(c, call, f)' <=> At(c, call, f)
      BY <2>1, WorkMove
    <2>4. Phase(f)' = Phase(f)
      BY <2>1, <2>2, <2>3, PhaseFrame
    <2> QED  BY <2>2, <2>4 DEF Effect
  <1>2. CASE e \in Exclusive
    BY <1>1, <1>2, LedgerStep
  <1>3. CASE e \notin Exclusive
    <2> DEFINE P == [f \in Exclusive |-> Phase(f)]
               N == [f \in Exclusive |-> Effect(f)]
    <2>1. P' = P /\ N' = N
      BY <1>1, <1>3
    <2> QED  BY <2>1 DEF Ledger!vars, Effect
  <1> QED  BY <1>2, <1>3

\* An event stays in its phase while its delivery does not work on it.
LEMMA IdleMove ==
  ASSUME TypeOK, NEW d \in Deliveries, NEW e \in Events, NEW T, NEW b \in Calls,
         At(d, b, e), b \notin Working, Moves(d, e, T), T \intersect Working = {},
         status'[e] = status[e], effects'[e] = effects[e], UNCHANGED ambiguous
  PROVE  Evolves(Phase(e), Effect(e), Phase(e)', Effect(e)')
  <1>1. \A call \in Working : ~At(d, call, e)
    <2> SUFFICES ASSUME NEW call \in Working, At(d, call, e) PROVE FALSE
      OBVIOUS
    <2>1. delivery[d] = [call |-> call, event |-> e] /\ delivery[d] = [call |-> b, event |-> e]
      BY DEF At
    <2>2. delivery[d].call = call /\ delivery[d].call = b
      BY <2>1
    <2> QED  BY <2>2
  <1>2. \A c \in Deliveries, call \in Working : At(c, call, e)' <=> At(c, call, e)
    BY <1>1, WorkMove
  <1>3. Phase(e)' = Phase(e)
    BY <1>2, PhaseFrame
  <1> QED  BY <1>3 DEF Evolves, Effect

\* Taking an event up begins its holding.
LEMMA TakeMove ==
  ASSUME TypeOK, ExclusiveInv, ExclusiveInv', NEW d \in Deliveries, NEW e \in Exclusive,
         status[e] \in {"ABSENT", "ERROR"}, At(d, Work(e), e)',
         effects'[e] = effects[e], UNCHANGED ambiguous
  PROVE  Evolves(Phase(e), Effect(e), Phase(e)', Effect(e)')
  <1>1. CASE e \in ambiguous
    BY <1>1 DEF Evolves, Phase, Effect
  <1>2. CASE e \notin ambiguous
    <2>1. e \in Events \ (Relays \union ambiguous)
      BY <1>2, InboxConstants DEF Exclusive, Events
    <2>2. \A c \in Deliveries, x \in Working : ~At(c, x, e)
      BY <2>1 DEF ExclusiveInv, Holds
    <2>3. Phase(e) \in {"new", "failed"}
      BY <1>2, <2>2, PhaseIsKnown DEF FreePhases
    <2>4. Work(e) \in Working
      BY DEF Work, Working, Calls
    <2>5. Phase(e)' = PhaseAt(e, Work(e))
      <3>1. e \in Exclusive \ ambiguous'
        BY <1>2
      <3> QED  BY <2>4, <3>1, PhaseIsKnownAfter DEF HeldPhases
    <2>6. PhaseAt(e, Work(e)) = "held"
      BY DEF PhaseAt, Work
    <2> QED  BY <2>3, <2>5, <2>6 DEF Evolves, Effect
  <1> QED  BY <1>1, <1>2

\* What becomes of an event whose worker goes on, or leaves it.
LEMMA WorkEvolves ==
  ASSUME TypeOK, TypeOK', ExclusiveInv, ExclusiveInv', NEW d \in Deliveries,
         NEW e \in Exclusive, NEW call \in Working, At(d, call, e), UNCHANGED ambiguous,
         \/ /\ \E t \in Working : At(d, t, e)' /\ PhaseAt(e, t) = "past"
            /\ \/ effects'[e] = effects[e]
               \/ PhaseAt(e, call) = "held" /\ effects'[e] = effects[e] + 1
         \/ /\ \A c \in Deliveries, x \in Working : ~At(c, x, e)'
            /\ status'[e] # "ABSENT" /\ effects'[e] = effects[e]
  PROVE  Evolves(Phase(e), Effect(e), Phase(e)', Effect(e)')
  <1>1. CASE e \in ambiguous
    BY <1>1 DEF Evolves, Phase, Effect
  <1>2. CASE e \notin ambiguous
    <2>1. e \in Exclusive \ ambiguous /\ e \in Exclusive \ ambiguous' /\ e \in Events
      BY <1>2 DEF Exclusive, Events
    <2>2. Phase(e) = PhaseAt(e, call) /\ PhaseAt(e, call) \in {"held", "past"}
      BY <2>1, PhaseIsKnown DEF HeldPhases, PhaseAt
    <2>3. status'[e] \in Statuses
      BY <2>1 DEF TypeOK
    <2>4. CASE /\ \E t \in Working : At(d, t, e)' /\ PhaseAt(e, t) = "past"
               /\ \/ effects'[e] = effects[e]
                  \/ PhaseAt(e, call) = "held" /\ effects'[e] = effects[e] + 1
      <3>1. Phase(e)' = "past"
        BY <2>1, <2>4, PhaseIsKnownAfter DEF HeldPhases
      <3> QED  BY <1>2, <2>2, <2>4, <3>1 DEF Evolves, Effect
    <2>5. CASE /\ \A c \in Deliveries, x \in Working : ~At(c, x, e)'
               /\ status'[e] # "ABSENT" /\ effects'[e] = effects[e]
      <3>1. Phase(e)' \in {"done", "failed", "stuck"}
        BY <2>1, <2>3, <2>5, PhaseIsKnownAfter DEF FreePhases, Statuses
      <3> QED  BY <1>2, <2>2, <2>5, <3>1 DEF Evolves, Effect
    <2> QED  BY <2>4, <2>5
  <1> QED  BY <1>1, <1>2

\* Nobody works on an event that its only worker leaves.
LEMMA WorkerLeaves ==
  ASSUME ExclusiveInv, NEW d \in Deliveries, NEW e \in Exclusive \ ambiguous,
         NEW call \in Working, At(d, call, e), Moves(d, e, {})
  PROVE  /\ status[e] = "RECEIVED"
         /\ \A c \in Deliveries, x \in Working : ~At(c, x, e)'
  <1>1. e \in Events \ (Relays \union ambiguous) /\ e \in Events /\ call \in Calls
    BY InboxConstants DEF Exclusive, Events, Working
  <1>2. status[e] = "RECEIVED" /\ \A c \in Deliveries : Holds(c, e) => c = d
    BY <1>1 DEF ExclusiveInv, Holds
  <1>3. \A c \in Deliveries, x \in Working : At(c, x, e)' => c = d
    BY <1>1, <1>2, WorkMove DEF Holds
  <1>4. \A x \in Working : ~At(d, x, e)'
    BY <1>1, WorkMove
  <1> QED  BY <1>2, <1>3, <1>4

\* Taking up an event, or finding that it is not to be taken up
LEMMA LedgerRecord ==
  ASSUME TypeOK, TypeOK', ExclusiveInv, ExclusiveInv', NEW d \in Deliveries,
         NEW e \in Events, Insert(d, e) \/ Reopen(d, e)
  PROVE  [Ledger!Next]_(Ledger!vars)
  <1>1. Work(e) \in Calls /\ "insert" \in Calls /\ "reopen" \in Calls
          /\ "insert" \notin Working /\ "reopen" \notin Working
    BY DEF Work, Calls, Working
  <1>2. PICK b \in {"insert", "reopen"} : At(d, b, e) /\ Commit(b, e) /\ UNCHANGED ambiguous
    BY DEF Insert, Reopen
  <1>3. /\ \A f \in Events \ {e} : status'[f] = status[f] /\ effects'[f] = effects[f]
        /\ effects'[e] = effects[e] /\ status'[e] = StatusAfter(b, e)
    BY <1>2, CommitStatus
  <1>4. \/ /\ status[e] \in {"ABSENT", "ERROR"}
           /\ Goto(d, Work(e))
        \/ /\ status'[e] = status[e]
           /\ Goto(d, "reopen") \/ Respond(d, TRUE)
    <2>1. CASE Insert(d, e)
      <3>1. At(d, "insert", e) /\ Commit("insert", e)
        BY <2>1 DEF Insert
      <3>2. status'[e] = StatusAfter("insert", e)
        BY <3>1, CommitStatus
      <3> QED  BY <2>1, <3>2 DEF Insert, StatusAfter
    <2>2. CASE Reopen(d, e)
      <3>1. At(d, "reopen", e) /\ Commit("reopen", e)
        BY <2>2 DEF Reopen
      <3>2. status'[e] = StatusAfter("reopen", e)
        BY <3>1, CommitStatus
      <3> QED  BY <2>2, <3>2 DEF Reopen, Reopens, StatusAfter
    <2> QED  BY <2>1, <2>2
  <1>5. CASE status[e] \in {"ABSENT", "ERROR"} /\ Goto(d, Work(e))
    <2>1. Moves(d, e, {Work(e)})
      BY <1>1, <1>2, <1>5, MovesByCall
    <2>2. At(d, Work(e), e)'
      <3>1. delivery[d] = [call |-> b, event |-> e]
        BY <1>2 DEF At
      <3>2. delivery'[d] = [call |-> Work(e), event |-> e]
        BY <1>5, <3>1 DEF Goto, TypeOK
      <3> QED  BY <3>2 DEF At, Work
    <2>3. e \in Exclusive => Evolves(Phase(e), Effect(e), Phase(e)', Effect(e)')
      BY <1>2, <1>3, <1>5, <2>2, TakeMove
    <2> QED  BY <1>1, <1>2, <1>3, <2>1, <2>3, LedgerMove
  <1>6. CASE status'[e] = status[e] /\ (Goto(d, "reopen") \/ Respond(d, TRUE))
    <2>1. PICK T \in {{"reopen"}, {}} : Moves(d, e, T)
      BY <1>1, <1>2, <1>6, MovesByCall
    <2>2. T \intersect Working = {}
      BY <1>1, <2>1
    <2>3. Evolves(Phase(e), Effect(e), Phase(e)', Effect(e)')
      BY <1>1, <1>2, <1>3, <1>6, <2>1, <2>2, IdleMove
    <2> QED  BY <1>1, <1>2, <1>3, <2>1, <2>3, LedgerMove
  <1> QED  BY <1>4, <1>5, <1>6

\* The work on an event that is taken up
LEMMA LedgerWork ==
  ASSUME TypeOK, TypeOK', ExclusiveInv, ExclusiveInv', QueuesHaveNoEffect,
         NEW d \in Deliveries, NEW e \in Events,
         Apply(d, e) \/ Ignore(d, e) \/ Finish(d, e) \/ MarkError(d, e)
  PROVE  [Ledger!Next]_(Ledger!vars)
  <1>1. Working = {"apply", "finish", "reject", "fail"} /\ Working \subseteq Calls
    BY DEF Working, Calls
  <1>2. CASE Apply(d, e) \/ Ignore(d, e)
    <2>1. At(d, "apply", e) /\ UNCHANGED ambiguous /\ (Goto(d, "finish") \/ Goto(d, "reject"))
      BY <1>2 DEF Apply, Ignore
    <2>2. /\ \A f \in Events \ {e} : status'[f] = status[f] /\ effects'[f] = effects[f]
          /\ effects'[e] \in {effects[e], effects[e] + 1}
      BY <1>2, CommitStatus DEF Apply, Ignore
    <2>3. PICK t \in {"finish", "reject"} : Goto(d, t)
      BY <2>1
    <2>4. Moves(d, e, {t})
      BY <1>1, <2>1, <2>3, MovesByCall
    <2>5. At(d, t, e)'
      <3>1. delivery[d] = [call |-> "apply", event |-> e]
        BY <2>1 DEF At
      <3> QED  BY <2>3, <3>1 DEF Goto, TypeOK, At
    <2>6. PhaseAt(e, t) = "past" /\ PhaseAt(e, "apply") = "held"
      BY <2>1, <2>3 DEF PhaseAt, QueuesHaveNoEffect
    <2>7. e \in Exclusive => Evolves(Phase(e), Effect(e), Phase(e)', Effect(e)')
      BY <1>1, <2>1, <2>2, <2>5, <2>6, WorkEvolves
    <2> QED  BY <1>1, <2>1, <2>2, <2>4, <2>7, LedgerMove
  <1>3. CASE Finish(d, e) \/ MarkError(d, e)
    <2>1. PICK call \in {"finish", "reject", "fail"}, ok \in BOOLEAN :
            At(d, call, e) /\ Commit(call, e) /\ Respond(d, ok) /\ UNCHANGED ambiguous
      BY <1>3 DEF Finish, MarkError
    <2>2. Moves(d, e, {})
      BY <1>1, <2>1, MovesByCall
    <2>3. /\ \A f \in Events \ {e} : status'[f] = status[f] /\ effects'[f] = effects[f]
          /\ effects'[e] = effects[e] /\ status'[e] = StatusAfter(call, e)
      BY <2>1, CommitStatus
    <2>4. e \in Exclusive => Evolves(Phase(e), Effect(e), Phase(e)', Effect(e)')
      <3> SUFFICES ASSUME e \in Exclusive
                   PROVE  Evolves(Phase(e), Effect(e), Phase(e)', Effect(e)')
        OBVIOUS
      <3>1. CASE e \in ambiguous
        BY <2>1, <2>3, <3>1 DEF Evolves, Phase, Effect
      <3>2. CASE e \notin ambiguous
        <4>1. /\ status[e] = "RECEIVED"
              /\ \A c \in Deliveries, x \in Working : ~At(c, x, e)'
          BY <1>1, <2>1, <2>2, <3>2, WorkerLeaves
        <4>2. status'[e] # "ABSENT"
          BY <2>1, <2>3, <4>1 DEF StatusAfter
        <4> QED  BY <1>1, <2>1, <2>3, <4>1, <4>2, WorkEvolves
      <3> QED  BY <3>1, <3>2
    <2> QED  BY <1>1, <2>1, <2>2, <2>3, <2>4, LedgerMove
  <1> QED  BY <1>2, <1>3

\* A delivery that ends without a commit leaves its event stuck, or as it was.
LEMMA LedgerEnd ==
  ASSUME TypeOK, TypeOK', ExclusiveInv, ExclusiveInv', NEW d \in Deliveries,
         NEW e \in Events, NEW call \in Calls, At(d, call, e), Moves(d, e, {}),
         UNCHANGED <<status, effects, ambiguous>>
  PROVE  [Ledger!Next]_(Ledger!vars)
  <1>1. CASE call \in Working
    <2>1. e \in Exclusive => Evolves(Phase(e), Effect(e), Phase(e)', Effect(e)')
      <3> SUFFICES ASSUME e \in Exclusive
                   PROVE  Evolves(Phase(e), Effect(e), Phase(e)', Effect(e)')
        OBVIOUS
      <3>1. CASE e \in ambiguous
        BY <3>1 DEF Evolves, Phase, Effect
      <3>2. CASE e \notin ambiguous
        <4>1. /\ status[e] = "RECEIVED"
              /\ \A c \in Deliveries, x \in Working : ~At(c, x, e)'
          BY <1>1, <3>2, WorkerLeaves
        <4> QED  BY <1>1, <4>1, WorkEvolves
      <3> QED  BY <3>1, <3>2
    <2> QED  BY <2>1, LedgerMove
  <1>2. CASE call \notin Working
    <2>1. {} \intersect Working = {}
      OBVIOUS
    <2>2. Evolves(Phase(e), Effect(e), Phase(e)', Effect(e)')
      BY <1>2, <2>1, IdleMove
    <2> QED  BY <2>2, LedgerMove
  <1> QED  BY <1>1, <1>2

\* A call that throws: it was committed, and nothing is known of its event any
\* more; or it was not, and its handler goes to its catch block or ends.
LEMMA LedgerThrow ==
  ASSUME TypeOK, TypeOK', ExclusiveInv, ExclusiveInv', QueuesHaveNoEffect,
         NEW d \in Deliveries, NEW e \in Events, Throw(d, e)
  PROVE  [Ledger!Next]_(Ledger!vars)
  <1>1. PICK call \in Calls :
          /\ At(d, call, e)
          /\ \/ UNCHANGED <<status, effects, ambiguous>>
             \/ Commit(call, e) /\ ambiguous' = ambiguous \union {e}
          /\ \/ Caught(call, e) /\ Goto(d, "fail")
             \/ Respond(d, FALSE)
    BY DEF Throw
  <1>2. "fail" \in Calls
    BY DEF Calls
  <1>3. PICK T : /\ Moves(d, e, T)
                 /\ \/ T = {"fail"} /\ Caught(call, e) /\ Goto(d, "fail")
                    \/ T = {}
    BY <1>1, <1>2, MovesByCall
  <1>4. CASE Commit(call, e) /\ ambiguous' = ambiguous \union {e}
    <2>1. \A f \in Events \ {e} : /\ status'[f] = status[f]
                                 /\ effects'[f] = effects[f]
                                 /\ (f \in ambiguous' <=> f \in ambiguous)
      BY <1>4, CommitStatus
    <2>2. Evolves(Phase(e), Effect(e), Phase(e)', Effect(e)')
      <3>1. Phase(e)' = "unknown" /\ Effect(e)' = 0
        BY <1>4 DEF Phase, Effect
      <3>2. Phase(e) = "unknown" => Effect(e) = 0
        BY DEF Phase, Effect, TypeOK, Statuses
      <3> QED  BY <3>1, <3>2 DEF Evolves
    <2> QED  BY <1>1, <1>3, <2>1, <2>2, LedgerMove
  <1>5. CASE UNCHANGED <<status, effects, ambiguous>> /\ T = {}
    BY <1>1, <1>3, <1>5, LedgerEnd
  <1>6. CASE /\ UNCHANGED <<status, effects, ambiguous>>
             /\ Moves(d, e, {"fail"}) /\ Caught(call, e) /\ Goto(d, "fail")
    <2>1. e \in Exclusive => Evolves(Phase(e), Effect(e), Phase(e)', Effect(e)')
      <3> SUFFICES ASSUME e \in Exclusive
                   PROVE  Evolves(Phase(e), Effect(e), Phase(e)', Effect(e)')
        OBVIOUS
      <3>1. e \in Documents /\ call \in Working /\ "fail" \in Working
        BY <1>6, InboxConstants DEF Exclusive, Caught, Working, Calls
      <3>2. At(d, "fail", e)'
        <4>1. delivery[d] = [call |-> call, event |-> e]
          BY <1>1 DEF At
        <4> QED  BY <1>6, <4>1 DEF Goto, TypeOK, At
      <3>3. PhaseAt(e, "fail") = "past"
        BY DEF PhaseAt
      <3> QED  BY <1>1, <1>6, <3>1, <3>2, <3>3, WorkEvolves
    <2> QED  BY <1>1, <1>6, <2>1, LedgerMove
  <1> QED  BY <1>1, <1>3, <1>4, <1>5, <1>6

\* No step lets a delivery of Queues have an effect.
LEMMA NoEffectStep ==
  ASSUME TypeOK, QueuesHaveNoEffect, [Next]_vars
  PROVE  QueuesHaveNoEffect'
  <1> SUFFICES ASSUME NEW c \in Deliveries, NEW q \in Queues, At(c, "apply", q)'
               PROVE  FALSE
    BY DEF QueuesHaveNoEffect
  <1>1. delivery'[c] = [call |-> "apply", event |-> q]
    BY DEF At
  <1>2. delivery'[c].call = "apply" /\ delivery'[c].event = q
    BY <1>1
  <1>3. delivery'[c] # delivery[c]
    BY <1>1 DEF QueuesHaveNoEffect, At
  <1>4. delivery'[c] # Free
    BY <1>2 DEF Free
  <1>5. \A d \in Deliveries : \A call : Goto(d, call) => d = c /\ call = "apply"
    <2> SUFFICES ASSUME NEW d \in Deliveries, NEW call, Goto(d, call)
                 PROVE  d = c /\ call = "apply"
      OBVIOUS
    <2>1. d = c
      BY <1>3 DEF Goto, TypeOK
    <2>2. delivery'[c] = [delivery[c] EXCEPT !.call = call]
      BY <2>1 DEF Goto, TypeOK
    <2>3. CASE delivery[c] \in [call: Calls, event: Events]
      BY <1>2, <2>1, <2>2, <2>3
    <2>4. CASE delivery[c] = Free
      <3>1. delivery'[c] = [call |-> call]
        BY <2>2, <2>4 DEF Free
      <3>2. DOMAIN delivery'[c] = {"call"} /\ DOMAIN delivery'[c] = {"call", "event"}
        BY <1>1, <3>1
      <3> QED  BY <3>2
    <2> QED  BY <2>1, <2>3, <2>4 DEF TypeOK
  <1>6. \A d \in Deliveries : \A ok : ~Respond(d, ok)
    BY <1>3, <1>4 DEF Respond, TypeOK
  <1>7. ASSUME NEW d \in Deliveries, NEW e \in Events, Deliver(d, e) PROVE FALSE
    <2>1. delivery'[c] = [call |-> "insert", event |-> e]
      BY <1>3, <1>7 DEF Deliver, TypeOK
    <2>2. delivery'[c].call = "insert"
      BY <2>1
    <2> QED  BY <1>2, <2>2
  <1>8. ASSUME NEW d \in Deliveries, NEW e \in Events, Insert(d, e) \/ Reopen(d, e)
        PROVE  FALSE
    <2>1. PICK b \in Calls : At(d, b, e) /\ Goto(d, Work(e)) /\ Work(e) = "apply"
      <3>1. CASE Insert(d, e)
        <4>1. At(d, "insert", e) /\ Goto(d, IF status[e] = "ABSENT" THEN Work(e) ELSE "reopen")
          BY <3>1 DEF Insert
        <4>2. (IF status[e] = "ABSENT" THEN Work(e) ELSE "reopen") = "apply"
          BY <1>5, <4>1
        <4> QED  BY <4>1, <4>2 DEF Calls
      <3>2. CASE Reopen(d, e)
        <4>1. At(d, "reopen", e) /\ Goto(d, Work(e))
          BY <1>6, <3>2 DEF Reopen
        <4> QED  BY <1>5, <4>1 DEF Calls
      <3> QED  BY <1>8, <3>1, <3>2
    <2>2. delivery'[d] = [[call |-> b, event |-> e] EXCEPT !.call = Work(e)]
      BY <2>1 DEF At, Goto, TypeOK
    <2>3. delivery'[d].event = e /\ d = c
      BY <1>5, <2>1, <2>2
    <2> QED  BY <1>2, <2>1, <2>3 DEF Work
  <1>9. ASSUME NEW d \in Deliveries, NEW e \in Events, Apply(d, e) \/ Ignore(d, e)
        PROVE  FALSE
    BY <1>5, <1>9 DEF Apply, Ignore
  <1>10. ASSUME NEW d \in Deliveries, NEW e \in Events,
                Finish(d, e) \/ MarkError(d, e) \/ Throw(d, e)
         PROVE  FALSE
    <2>1. ~Goto(d, "fail")
      BY <1>5
    <2> QED  BY <1>6, <1>10, <2>1 DEF Finish, MarkError, Throw
  <1>11. ASSUME NEW d \in Deliveries, Crash(d) PROVE FALSE
    BY <1>6, <1>11 DEF Crash
  <1>12. CASE UNCHANGED vars
    BY <1>3, <1>12 DEF vars
  <1> QED  BY <1>7, <1>8, <1>9, <1>10, <1>11, <1>12 DEF Next, Handle

\* Every step of the inbox is a step of the ledger, or none.
LEMMA LedgerNext ==
  ASSUME TypeOK, TypeOK', ExclusiveInv, ExclusiveInv', QueuesHaveNoEffect, [Next]_vars
  PROVE  [Ledger!Next]_(Ledger!vars)
  <1>1. ASSUME NEW d \in Deliveries, NEW e \in Events, Deliver(d, e)
        PROVE  [Ledger!Next]_(Ledger!vars)
    <2>1. \A c \in Deliveries, call \in Working : \A f : At(c, call, f)' <=> At(c, call, f)
      <3>1. delivery[d] = Free /\ delivery'[d] = [call |-> "insert", event |-> e]
        BY <1>1 DEF Deliver, TypeOK
      <3>2. delivery[d].call = "none" /\ delivery'[d].call = "insert"
        BY <3>1 DEF Free
      <3>3. \A call \in Working : \A f : ~At(d, call, f) /\ ~At(d, call, f)'
        <4> SUFFICES ASSUME NEW call \in Working, NEW f,
                            \/ delivery[d] = [call |-> call, event |-> f]
                            \/ delivery'[d] = [call |-> call, event |-> f]
                     PROVE  FALSE
          BY DEF At
        <4>1. delivery[d].call = call \/ delivery'[d].call = call
          OBVIOUS
        <4> QED  BY <3>2, <4>1 DEF Working, Calls
      <3>4. \A c \in Deliveries \ {d} : delivery'[c] = delivery[c]
        BY <1>1 DEF Deliver, TypeOK
      <3> QED  BY <3>3, <3>4 DEF At
    <2>2. UNCHANGED <<status, effects, ambiguous>>
      BY <1>1 DEF Deliver
    <2>3. \A f \in Exclusive : Phase(f)' = Phase(f) /\ Effect(f)' = Effect(f)
      BY <2>1, <2>2, PhaseFrame DEF Effect, Exclusive, Events
    <2> DEFINE P == [f \in Exclusive |-> Phase(f)]
               N == [f \in Exclusive |-> Effect(f)]
    <2>4. P' = P /\ N' = N
      BY <2>3
    <2> QED  BY <2>4 DEF Ledger!vars, Effect
  <1>2. ASSUME NEW d \in Deliveries, NEW e \in Events, Handle(d, e)
        PROVE  [Ledger!Next]_(Ledger!vars)
    BY <1>2, LedgerRecord, LedgerWork, LedgerThrow DEF Handle
  <1>3. ASSUME NEW d \in Deliveries, Crash(d)
        PROVE  [Ledger!Next]_(Ledger!vars)
    <2>1. delivery[d] \in [call: Calls, event: Events]
      BY <1>3 DEF Crash, TypeOK
    <2>2. PICK e \in Events, call \in Calls : At(d, call, e)
      BY <2>1 DEF At
    <2>3. Moves(d, e, {}) /\ UNCHANGED <<status, effects, ambiguous>>
      BY <1>3, <2>2, MovesByCall DEF Crash
    <2> QED  BY <2>2, <2>3, LedgerEnd
  <1>4. CASE UNCHANGED vars
    <2>1. \A f \in Exclusive : Phase(f)' = Phase(f) /\ Effect(f)' = Effect(f)
      BY <1>4, PhaseFrame DEF vars, Effect, Exclusive, Events, At
    <2> DEFINE P == [f \in Exclusive |-> Phase(f)]
               N == [f \in Exclusive |-> Effect(f)]
    <2>2. P' = P /\ N' = N
      BY <2>1
    <2> QED  BY <2>2 DEF Ledger!vars, Effect
  <1> QED  BY <1>1, <1>2, <1>3, <1>4 DEF Next

\* Seen through its rows and the deliveries that work on them, the inbox keeps
\* the ledger of the routes that record before their try: one holder of an
\* event at a time, one chance of an effect per holder, no way back from done.
THEOREM InboxKeepsLedger == Spec => KeepsLedger
  <1>1. Init => Ledger!Init /\ QueuesHaveNoEffect
    <2> SUFFICES ASSUME Init PROVE Ledger!Init /\ QueuesHaveNoEffect
      OBVIOUS
    <2>1. \A d \in Deliveries : \A e : ~At(d, "apply", e)
      <3> SUFFICES ASSUME NEW e, Free = [call |-> "apply", event |-> e] PROVE FALSE
        BY DEF Init, At
      <3>1. Free.call = "none" /\ Free.call = "apply"
        BY DEF Free
      <3> QED  BY <3>1
    <2>2. \A e \in Exclusive : Phase(e) = "new" /\ e \notin ambiguous /\ effects[e] = 0
      BY DEF Init, Phase, Exclusive, Events
    <2> QED  BY <2>1, <2>2 DEF Ledger!Init, QueuesHaveNoEffect
  <1>2. TypeOK /\ QueuesHaveNoEffect /\ [Next]_vars => QueuesHaveNoEffect'
    BY NoEffectStep
  <1>3. /\ TypeOK /\ TypeOK' /\ ExclusiveInv /\ ExclusiveInv' /\ QueuesHaveNoEffect
        /\ [Next]_vars
        => [Ledger!Next]_(Ledger!vars)
    BY LedgerNext
  <1> QED
    BY <1>1, <1>2, <1>3, InboxTypeCorrect, ExclusiveReachable, PTL
    DEF Spec, KeepsLedger, Ledger!Spec

=============================================================================
