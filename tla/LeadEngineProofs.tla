------------------------- MODULE LeadEngineProofs -------------------------
(***************************************************************************)
(* Theorems about LeadEngine, for any sets of Leads, agents, request slots *)
(* and handlers and any limits.                                            *)
(***************************************************************************)
EXTENDS LeadEngine, FiniteSetTheorems, TLAPS

-----------------------------------------------------------------------------
(* The vocabulary *)

\* What a disposition maps to is a lifecycle and a pool, and never a pool that
\* Leads return to.
LEMMA VocabularyType ==
  \A d : /\ LifecycleFor(d) \in Lifecycles
         /\ ColdLifecycleFor(d) \in Lifecycles
         /\ ColdPoolFor(d) \in Pools \ ReturnPools
  <1> TAKE d
  <1>1. LifecycleFor(d) \in Lifecycles
    BY DEF LifecycleFor, Lifecycles
  <1>2. ColdLifecycleFor(d) \in Lifecycles
    BY <1>1 DEF ColdLifecycleFor, Lifecycles
  <1>3. ColdPoolFor(d) \in Pools \ ReturnPools
    BY DEF ColdPoolFor, Pools, ReturnPools
  <1> QED  BY <1>1, <1>2, <1>3

-----------------------------------------------------------------------------
(* Types *)

\* A request that is being served holds a handler, a Lead, an actor and what
\* it read.
LEMMA ServedRequest ==
  ASSUME TypeOK, NEW r \in Requests, request[r] # Idle
  PROVE  /\ request[r] \in Pending
         /\ request[r].lead \in Leads
         /\ request[r].agent \in Owners
         /\ request[r].seen \in Snapshot
         /\ lead[request[r].lead] \in LeadRow
  BY DEF TypeOK, Pending

\* Serving a request keeps the types.
LEMMA ServeType ==
  ASSUME TypeOK, NEW r \in Requests, NEW op, NEW l \in Leads, NEW a \in Owners,
         NEW seen \in Snapshot, Serve(r, op, l, a, seen)
  PROVE  TypeOK'
  <1>1. op \in HandlerNames
    BY ConstantsOK DEF Serve
  <1>2. [op |-> op, lead |-> l, agent |-> a, seen |-> seen] \in Pending
    BY <1>1 DEF Pending
  <1> QED  BY <1>2 DEF TypeOK, Serve

\* What a handler may keep of its read is a snapshot.
LEMMA SnapshotType ==
  ASSUME TypeOK, NEW l \in Leads
  PROVE  /\ Nothing \in Snapshot
         /\ Matched(l) \in Snapshot
         /\ [Nothing EXCEPT !.lifecycle = lead[l].lifecycle] \in Snapshot
         /\ [Nothing EXCEPT !.lifecycle = lead[l].lifecycle,
                            !.pool = lead[l].pool] \in Snapshot
         /\ [Nothing EXCEPT !.twoWay = lead[l].twoWay] \in Snapshot
         /\ [Nothing EXCEPT !.twoWay = lead[l].twoWay,
                            !.timer = lead[l].timer] \in Snapshot
  <1>1. lead[l] \in LeadRow
    BY DEF TypeOK
  <1>2. Nothing \in Snapshot
    BY DEF Nothing, Snapshot, Owners, Lifecycles, Pools, Timers
  <1>3. {lead[l].owner} \intersect scheduled[l] \in SUBSET Owners
    BY DEF TypeOK
  <1>4. Matched(l) \in Snapshot
    BY <1>1, <1>2, <1>3 DEF Matched, Snapshot, LeadRow
  <1>5. [Nothing EXCEPT !.lifecycle = lead[l].lifecycle] \in Snapshot
    BY <1>1, <1>2 DEF Snapshot, LeadRow
  <1>6. [Nothing EXCEPT !.lifecycle = lead[l].lifecycle,
                        !.pool = lead[l].pool] \in Snapshot
    BY <1>1, <1>2 DEF Snapshot, LeadRow
  <1>7. [Nothing EXCEPT !.twoWay = lead[l].twoWay] \in Snapshot
    BY <1>1, <1>2 DEF Snapshot, LeadRow
  <1>8. [Nothing EXCEPT !.twoWay = lead[l].twoWay,
                        !.timer = lead[l].timer] \in Snapshot
    BY <1>1, <1>2 DEF Snapshot, LeadRow
  <1> QED  BY <1>2, <1>4, <1>5, <1>6, <1>7, <1>8

\* Every read keeps the types.
LEMMA ReadType ==
  ASSUME TypeOK, NEW r \in Requests, Read(r)
  PROVE  TypeOK'
  <1> PICK l \in Leads :
        \/ ReadOpenPoolRelease(r, l) \/ ReadCloseWon(r, l)
        \/ ReadReply(r, l) \/ ReadOpportunity(r, l) \/ ReadAppointment(r, l)
        \/ \E a \in Agents :
             \/ ReadClaim(r, a, l) \/ ReadWarmReply(r, a, l) \/ ReadAgentDnc(r, a, l)
             \/ ReadColdDisposition(r, a, l) \/ ReadInteraction(r, a, l)
        \/ \E a \in Owners :
             \/ ReadPortalRelease(r, a, l) \/ ReadDncRoute(r, a, l)
             \/ ReadPortalDisposition(r, a, l) \/ ReadPortalCallback(r, a, l)
    BY DEF Read
  <1>1. /\ Nothing \in Snapshot
        /\ Matched(l) \in Snapshot
        /\ [Nothing EXCEPT !.lifecycle = lead[l].lifecycle] \in Snapshot
        /\ [Nothing EXCEPT !.lifecycle = lead[l].lifecycle,
                           !.pool = lead[l].pool] \in Snapshot
        /\ [Nothing EXCEPT !.twoWay = lead[l].twoWay] \in Snapshot
        /\ [Nothing EXCEPT !.twoWay = lead[l].twoWay,
                           !.timer = lead[l].timer] \in Snapshot
    BY SnapshotType
  <1>2. \E op : \E a \in Owners, seen \in Snapshot : Serve(r, op, l, a, seen)
    BY <1>1, ZenonT(60) DEF Owners, ReadOpenPoolRelease, ReadCloseWon, ReadReply,
       ReadOpportunity, ReadAppointment, ReadClaim, ReadWarmReply, ReadAgentDnc,
       ReadColdDisposition, ReadInteraction, ReadPortalRelease, ReadDncRoute,
       ReadPortalDisposition, ReadPortalCallback
  <1> QED  BY <1>2, ServeType

\* The end of a handler keeps the types if what it wrote does.
LEMMA FinishType ==
  ASSUME TypeOK, NEW r \in Requests, NEW op, Finish(r, op),
         lead' \in [Leads -> LeadRow], scheduled' \in [Leads -> SUBSET Owners],
         sweep' = sweep, assigned' \subseteq Leads
  PROVE  TypeOK'
  BY DEF TypeOK, Finish

\* Every write keeps the types.
LEMMA WriteType ==
  ASSUME TypeOK, NEW r \in Requests, Write(r)
  PROVE  TypeOK'
  <1> DEFINE q == request[r]
  <1>0. q.op # "idle"
    BY DEF Write, Finish, Idle, WinClaim, LoseClaim, RecordClaim, WriteWarmReply,
       WriteOpenPoolRelease, WritePortalRelease, WriteColdDisposition,
       WriteInteraction, WritePortalDisposition, WritePortalCallback,
       WriteAgentDnc, WriteDncRoute, WriteCloseWon, WriteReply, WriteOpportunity,
       WriteAppointment
  <1>1. q # Idle
    BY <1>0 DEF Idle
  <1>2. /\ q \in Pending
        /\ q.lead \in Leads
        /\ q.agent \in Owners
        /\ q.seen \in Snapshot
        /\ lead[q.lead] \in LeadRow
    BY <1>1, ServedRequest DEF q
  <1>3. /\ NoAgent \in Owners
        /\ \A event, twoWay : Contacted(q.seen, event, twoWay) \in BOOLEAN
        /\ \A d : InvalidContact(d) \in BOOLEAN
    BY DEF Owners, Contacted, InvalidContact
  <1>4. /\ {"AVAILABLE", "CLAIMED", "CONTACTED", "DEMO_BOOKED", "SUPPRESSED",
            "CLOSED_WON", "CLOSED_LOST"} \subseteq Lifecycles
        /\ {"OPEN", "HOT", "SHARK_TANK"} \subseteq Pools
        /\ {"none", "running", "due", "stale"} \subseteq Timers
    BY DEF Lifecycles, Pools, Timers
  <1>5. /\ lead \in [Leads -> LeadRow]
        /\ scheduled \in [Leads -> SUBSET Owners]
        /\ assigned \subseteq Leads
    BY DEF TypeOK
  <1> HIDE DEF q
  <1>a. CASE WinClaim(r)
    <2>1. lead' \in [Leads -> LeadRow]
      BY <1>a, <1>2, <1>3, <1>4, <1>5 DEF WinClaim, q, LeadRow, Snapshot
    <2>2. [q EXCEPT !.op = "recordClaim", !.seen = Nothing] \in Pending
      BY <1>2, SnapshotType DEF Pending
    <2> QED  BY <1>a, <1>2, <1>5, <2>1, <2>2 DEF WinClaim, q, TypeOK
  <1>b. CASE LoseClaim(r)
    BY <1>b, <1>5, FinishType DEF LoseClaim
  <1>c. CASE RecordClaim(r)
    BY <1>c, <1>5, FinishType DEF RecordClaim
  <1>d. CASE WriteWarmReply(r)
    <2>1. lead' \in [Leads -> LeadRow]
      BY <1>d, <1>2, <1>3, <1>4, <1>5 DEF WriteWarmReply, q, LeadRow, Snapshot
    <2>2. scheduled' \in [Leads -> SUBSET Owners]
      BY <1>d, <1>2, <1>5 DEF WriteWarmReply, q
    <2> QED  BY <1>d, <1>2, <1>5, <2>1, <2>2, FinishType DEF WriteWarmReply, q
  <1>e. CASE WriteOpenPoolRelease(r)
    <2>1. lead' \in [Leads -> LeadRow]
      BY <1>e, <1>2, <1>3, <1>4, <1>5 DEF WriteOpenPoolRelease, Returned, LeadRow
    <2> QED  BY <1>e, <1>5, <2>1, FinishType DEF WriteOpenPoolRelease
  <1>f. CASE WritePortalRelease(r)
    <2>1. lead' \in [Leads -> LeadRow]
      BY <1>f, <1>2, <1>3, <1>4, <1>5 DEF WritePortalRelease, LeadRow
    <2> QED  BY <1>f, <1>5, <2>1, FinishType DEF WritePortalRelease
  <1>g. CASE WriteColdDisposition(r)
    <2>1. PICK d \in Dispositions :
             lead' = [lead EXCEPT ![q.lead] =
               [@ EXCEPT !.pool = ColdPoolFor(d),
                         !.lifecycle = ColdLifecycleFor(d),
                         !.twoWay = Contacted(q.seen, d, TwoWayDispositions),
                         !.suppressed = InvalidContact(d)]]
      BY <1>g DEF WriteColdDisposition, q
    <2>2. lead' \in [Leads -> LeadRow]
      BY <1>2, <1>3, <1>5, <2>1, VocabularyType DEF LeadRow
    <2>3. scheduled' \in [Leads -> SUBSET Owners]
      BY <1>g, <1>2, <1>5 DEF WriteColdDisposition, Rescheduled, q
    <2> QED  BY <1>g, <1>5, <2>2, <2>3, FinishType DEF WriteColdDisposition
  <1>h. CASE WriteInteraction(r)
    <2>1. PICK d \in Dispositions :
             lead' = [lead EXCEPT ![q.lead] =
               [@ EXCEPT !.lifecycle = LifecycleFor(d),
                         !.twoWay = Contacted(q.seen, d, TwoWayDispositions),
                         !.suppressed = InvalidContact(d)]]
      BY <1>h DEF WriteInteraction, q
    <2>2. lead' \in [Leads -> LeadRow]
      BY <1>2, <1>3, <1>5, <2>1, VocabularyType DEF LeadRow
    <2>3. scheduled' \in [Leads -> SUBSET Owners]
      BY <1>h, <1>2, <1>5 DEF WriteInteraction, Rescheduled, q
    <2> QED  BY <1>h, <1>5, <2>2, <2>3, FinishType DEF WriteInteraction
  <1>i. CASE WritePortalDisposition(r)
    <2>1. PICK d \in Dispositions : \E timer \in PortalTimers(d, q.seen) :
             lead' = [lead EXCEPT ![q.lead] =
               [@ EXCEPT !.lifecycle = IF d = "DEMO_BOOKED" THEN d ELSE "CONTACTED",
                         !.twoWay = Contacted(q.seen, d, PortalTwoWayDispositions),
                         !.timer = timer]]
      BY <1>i DEF WritePortalDisposition, q
    <2>2. PortalTimers(d, q.seen) \subseteq Timers
      BY <1>2, <1>4 DEF PortalTimers, Snapshot
    <2>3. PICK lifecycle \in Lifecycles, timer \in Timers :
             lead' = [lead EXCEPT ![q.lead] =
               [@ EXCEPT !.lifecycle = lifecycle,
                         !.twoWay = Contacted(q.seen, d, PortalTwoWayDispositions),
                         !.timer = timer]]
      BY <1>4, <2>1, <2>2
    <2>4. lead' \in [Leads -> LeadRow]
      BY <1>2, <1>3, <1>5, <2>3 DEF LeadRow
    <2> QED  BY <1>i, <1>5, <2>4, FinishType DEF WritePortalDisposition
  <1>j. CASE WritePortalCallback(r)
    <2>1. scheduled' \in [Leads -> SUBSET Owners]
      BY <1>j, <1>2, <1>5 DEF WritePortalCallback, q
    <2> QED  BY <1>j, <1>5, <2>1, FinishType DEF WritePortalCallback
  <1>k. CASE WriteAgentDnc(r)
    <2>1. lead' \in [Leads -> LeadRow]
      BY <1>k, <1>2, <1>3, <1>4, <1>5 DEF WriteAgentDnc, LeadRow
    <2>2. scheduled' \in [Leads -> SUBSET Owners]
      BY <1>k, <1>5 DEF WriteAgentDnc
    <2> QED  BY <1>k, <1>5, <2>1, <2>2, FinishType DEF WriteAgentDnc
  <1>l. CASE WriteDncRoute(r)
    <2>1. lead' \in [Leads -> LeadRow]
      BY <1>l, <1>2, <1>3, <1>4, <1>5 DEF WriteDncRoute, LeadRow
    <2> QED  BY <1>l, <1>5, <2>1, FinishType DEF WriteDncRoute
  <1>m. CASE WriteCloseWon(r)
    <2>1. lead' \in [Leads -> LeadRow]
      BY <1>m, <1>2, <1>3, <1>4, <1>5 DEF WriteCloseWon, LeadRow
    <2> QED  BY <1>m, <1>5, <2>1, FinishType DEF WriteCloseWon
  <1>n. CASE WriteReply(r)
    <2>1. ReplyLifecycle(q.seen) \in Lifecycles
      BY <1>2, <1>4 DEF ReplyLifecycle, Snapshot
    <2>2. lead' \in [Leads -> LeadRow]
      BY <1>n, <1>2, <1>5, <2>1 DEF WriteReply, q, LeadRow
    <2>3. scheduled' \in [Leads -> SUBSET Owners]
      BY <1>n, <1>2, <1>5 DEF WriteReply, OwnerCallback, q, Snapshot
    <2> QED  BY <1>n, <1>5, <2>2, <2>3, FinishType DEF WriteReply
  <1>o. CASE WriteOpportunity(r)
    <2>0. \A event : OpportunityLifecycle(event, q.seen) \in Lifecycles
      BY <1>4 DEF OpportunityLifecycle
    <2>1. lead' \in [Leads -> LeadRow]
      BY <1>o, <1>2, <1>5, <2>0 DEF WriteOpportunity, q, LeadRow
    <2>2. scheduled' \in [Leads -> SUBSET Owners]
      BY <1>o, <1>5 DEF WriteOpportunity
    <2> QED  BY <1>o, <1>5, <2>1, <2>2, FinishType DEF WriteOpportunity
  <1>p. CASE WriteAppointment(r)
    <2>1. \A event : AppointmentLifecycle(event, q.seen) \in Lifecycles
      BY <1>2, <1>4 DEF AppointmentLifecycle, Snapshot
    <2>2. PICK event \in AppointmentEvents :
             lead' = [lead EXCEPT ![q.lead] =
               [@ EXCEPT !.lifecycle = AppointmentLifecycle(event, q.seen),
                         !.twoWay = Contacted(q.seen, event, Booked)]]
      BY <1>p DEF WriteAppointment, q
    <2>3. lead' \in [Leads -> LeadRow]
      BY <1>2, <1>3, <1>5, <2>1, <2>2 DEF LeadRow
    <2>4. scheduled' \in [Leads -> SUBSET Owners]
      BY <1>p, <1>2, <1>5 DEF WriteAppointment, OwnerCallback, q, Snapshot
    <2> QED  BY <1>p, <1>5, <2>3, <2>4, FinishType DEF WriteAppointment
  <1> QED
    BY <1>a, <1>b, <1>c, <1>d, <1>e, <1>f, <1>g, <1>h, <1>i, <1>j, <1>k, <1>l,
       <1>m, <1>n, <1>o, <1>p DEF Write

\* Every step of the sweep, of the review page and of time keeps the types.
LEMMA OtherType ==
  ASSUME TypeOK,
         \/ \E r \in Requests : Abandon(r)
         \/ \E l \in Leads : Review(l) \/ Age(l)
         \/ ReadSweep \/ WriteSweep
  PROVE  TypeOK'
  <1>1. /\ NoAgent \in Owners
        /\ {"AVAILABLE", "DISQUALIFIED", "SUPPRESSED"} \subseteq Lifecycles
        /\ {"OPEN", "SHARK_TANK"} \subseteq Pools
        /\ {"none", "due", "stale"} \subseteq Timers
    BY DEF Owners, Lifecycles, Pools, Timers
  <1>2. ASSUME NEW r \in Requests, Abandon(r) PROVE TypeOK'
    BY <1>2 DEF Abandon, TypeOK
  <1>3. ASSUME NEW l \in Leads, NEW pool \in Pools, Approve(l, pool) PROVE TypeOK'
    BY <1>1, <1>3 DEF Approve, TypeOK, LeadRow
  <1>4. ASSUME NEW l \in Leads, Disqualify(l) PROVE TypeOK'
    BY <1>1, <1>4 DEF Disqualify, TypeOK, LeadRow
  <1>5. ASSUME NEW l \in Leads, Suppress(l) PROVE TypeOK'
    BY <1>1, <1>5 DEF Suppress, TypeOK, LeadRow
  <1>6. ASSUME NEW l \in Leads, Age(l) PROVE TypeOK'
    BY <1>1, <1>6 DEF Age, TypeOK, LeadRow
  <1>7. CASE ReadSweep
    BY <1>7 DEF ReadSweep, Oldest, TypeOK
  <1>8. CASE WriteSweep
    <2>1. \A row \in LeadRow : /\ Returned(row) \in LeadRow
                             /\ [row EXCEPT !.pool = "SHARK_TANK"] \in LeadRow
      BY <1>1 DEF Returned, LeadRow
    <2>2. \A l \in Leads : lead[l] \in LeadRow
      BY DEF TypeOK
    <2>3. lead' \in [Leads -> LeadRow]
      BY <1>8, <2>1, <2>2 DEF WriteSweep
    <2> QED  BY <1>8, <2>3 DEF WriteSweep, TypeOK, NoSweep
  <1> QED
    BY <1>2, <1>3, <1>4, <1>5, <1>6, <1>7, <1>8 DEF Review

\* The variables have their types in every reachable state.
THEOREM TypeCorrect == Spec => []TypeOK
  <1>1. Init => TypeOK
    <2> SUFFICES ASSUME Init PROVE TypeOK
      OBVIOUS
    <2>1. \A l \in Leads :
            [owner |-> NoAgent, lifecycle |-> "PENDING_REVIEW",
             pool |-> IF l \in Referrals THEN "REFERRAL" ELSE "COLD",
             dnc |-> FALSE, suppressed |-> FALSE, twoWay |-> FALSE,
             timer |-> "none"] \in LeadRow
      BY DEF LeadRow, Owners, Lifecycles, Pools, Timers
    <2> QED  BY <2>1 DEF Init, TypeOK, NoSweep
  <1>2. TypeOK /\ [Next]_vars => TypeOK'
    <2> SUFFICES ASSUME TypeOK, [Next]_vars PROVE TypeOK'
      OBVIOUS
    <2>1. CASE UNCHANGED vars
      BY <2>1 DEF vars, TypeOK
    <2> QED  BY <2>1, ReadType, WriteType, OtherType DEF Next
  <1> QED  BY <1>1, <1>2, PTL DEF Spec

-----------------------------------------------------------------------------
(* Ownership *)

\* The owner of a Lead stays, is cleared, or is set on an unowned Lead that is
\* not blocked and has a two-way contact.
OwnerMoves(l) ==
  \/ lead'[l].owner \in {lead[l].owner, NoAgent}
  \/ /\ lead[l].owner = NoAgent
     /\ lead[l].twoWay
     /\ ~Blocked(l)

\* No handler's write moves an owner otherwise.
LEMMA WriteOwner ==
  ASSUME TypeOK, NEW r \in Requests, Write(r), NEW l \in Leads
  PROVE  OwnerMoves(l)
  <1> DEFINE q == request[r]
  <1>1. lead \in [Leads -> LeadRow]
    BY DEF TypeOK
  <1> SUFFICES ASSUME lead'[l].owner \notin {lead[l].owner, NoAgent}
               PROVE  lead[l].owner = NoAgent /\ lead[l].twoWay /\ ~Blocked(l)
    BY DEF OwnerMoves
  <1>2. lead' # lead
    OBVIOUS
  <1>3. CASE WinClaim(r)
    BY <1>1, <1>3 DEF WinClaim, ClaimMatches, LeadRow
  <1>4. CASE WriteWarmReply(r)
    BY <1>1, <1>4 DEF WriteWarmReply, WarmReplyMatches, LeadRow
  <1>5. CASE WriteOpenPoolRelease(r)
    BY <1>1, <1>5 DEF WriteOpenPoolRelease, Returned, LeadRow
  <1>6. CASE WritePortalRelease(r)
    BY <1>1, <1>6 DEF WritePortalRelease, LeadRow
  <1>7. CASE WriteColdDisposition(r)
    <2>1. PICK d \in Dispositions :
             lead' = [lead EXCEPT ![q.lead] =
               [@ EXCEPT !.pool = ColdPoolFor(d),
                         !.lifecycle = ColdLifecycleFor(d),
                         !.twoWay = Contacted(q.seen, d, TwoWayDispositions),
                         !.suppressed = InvalidContact(d)]]
      BY <1>7 DEF WriteColdDisposition
    <2> QED  BY <1>1, <2>1 DEF LeadRow
  <1>8. CASE WriteInteraction(r)
    <2>1. PICK d \in Dispositions :
             lead' = [lead EXCEPT ![q.lead] =
               [@ EXCEPT !.lifecycle = LifecycleFor(d),
                         !.twoWay = Contacted(q.seen, d, TwoWayDispositions),
                         !.suppressed = InvalidContact(d)]]
      BY <1>8 DEF WriteInteraction
    <2> QED  BY <1>1, <2>1 DEF LeadRow
  <1>9. CASE WritePortalDisposition(r)
    <2>1. PICK d \in Dispositions : \E timer \in PortalTimers(d, q.seen) :
             lead' = [lead EXCEPT ![q.lead] =
               [@ EXCEPT !.lifecycle = IF d = "DEMO_BOOKED" THEN d ELSE "CONTACTED",
                         !.twoWay = Contacted(q.seen, d, PortalTwoWayDispositions),
                         !.timer = timer]]
      BY <1>9 DEF WritePortalDisposition
    <2> QED  BY <1>1, <2>1 DEF LeadRow
  <1>10. CASE WriteAgentDnc(r)
    BY <1>1, <1>10 DEF WriteAgentDnc, LeadRow
  <1>11. CASE WriteDncRoute(r)
    BY <1>1, <1>11 DEF WriteDncRoute, LeadRow
  <1>12. CASE WriteCloseWon(r)
    BY <1>1, <1>12 DEF WriteCloseWon, LeadRow
  <1>13. CASE WriteReply(r)
    BY <1>1, <1>13 DEF WriteReply, LeadRow
  <1>14. CASE WriteOpportunity(r)
    BY <1>1, <1>14 DEF WriteOpportunity, LeadRow
  <1>15. CASE WriteAppointment(r)
    <2>1. PICK event \in AppointmentEvents :
             lead' = [lead EXCEPT ![q.lead] =
               [@ EXCEPT !.lifecycle = AppointmentLifecycle(event, q.seen),
                         !.twoWay = Contacted(q.seen, event, Booked)]]
      BY <1>15 DEF WriteAppointment
    <2> QED  BY <1>1, <2>1 DEF LeadRow
  <1>16. CASE LoseClaim(r) \/ RecordClaim(r) \/ WritePortalCallback(r)
    BY <1>2, <1>16 DEF LoseClaim, RecordClaim, WritePortalCallback
  <1> QED
    BY <1>3, <1>4, <1>5, <1>6, <1>7, <1>8, <1>9, <1>10, <1>11, <1>12,
       <1>13, <1>14, <1>15, <1>16 DEF Write

\* No step moves an owner otherwise.
LEMMA NextOwner ==
  ASSUME TypeOK, Next, NEW l \in Leads
  PROVE  OwnerMoves(l)
  <1>1. lead \in [Leads -> LeadRow]
    BY DEF TypeOK
  <1>2. ASSUME lead' = lead PROVE OwnerMoves(l)
    BY <1>2 DEF OwnerMoves
  <1>3. ASSUME NEW r \in Requests, Read(r) PROVE lead' = lead
    BY <1>3 DEF Read, Serve, ReadOpenPoolRelease, ReadCloseWon, ReadReply,
       ReadOpportunity, ReadAppointment, ReadClaim, ReadWarmReply, ReadAgentDnc,
       ReadColdDisposition, ReadInteraction, ReadPortalRelease, ReadDncRoute,
       ReadPortalDisposition, ReadPortalCallback
  <1>4. ASSUME NEW r \in Requests, Abandon(r) PROVE lead' = lead
    BY <1>4 DEF Abandon
  <1>5. ASSUME NEW m \in Leads, Review(m) \/ Age(m) PROVE OwnerMoves(l)
    <2>1. ASSUME NEW pool, Approve(m, pool) PROVE OwnerMoves(l)
      BY <1>1, <2>1 DEF Approve, OwnerMoves, LeadRow
    <2>2. ASSUME Disqualify(m) PROVE OwnerMoves(l)
      BY <1>1, <2>2 DEF Disqualify, OwnerMoves, LeadRow
    <2>3. ASSUME Suppress(m) PROVE OwnerMoves(l)
      BY <1>1, <2>3 DEF Suppress, OwnerMoves, LeadRow
    <2>4. ASSUME Age(m) PROVE OwnerMoves(l)
      BY <1>1, <2>4 DEF Age, OwnerMoves, LeadRow
    <2> QED  BY <1>5, <2>1, <2>2, <2>3, <2>4 DEF Review
  <1>6. ASSUME ReadSweep PROVE lead' = lead
    BY <1>6 DEF ReadSweep
  <1>7. ASSUME WriteSweep PROVE OwnerMoves(l)
    BY <1>1, <1>7 DEF WriteSweep, Returned, OwnerMoves, LeadRow
  <1> QED
    BY <1>2, <1>3, <1>4, <1>5, <1>6, <1>7, WriteOwner DEF Next

\* However the handlers interleave, no write takes a Lead from one agent and
\* gives it to another.
THEOREM OwnershipIsNeverStolen == Spec => OwnershipNeverStolen
  <1>1. TypeOK /\ [Next]_vars =>
          [\A l \in Leads : lead[l].owner # NoAgent =>
               lead'[l].owner \in {lead[l].owner, NoAgent}]_vars
    BY NextOwner DEF OwnerMoves
  <1> QED  BY <1>1, TypeCorrect, PTL DEF Spec, OwnershipNeverStolen

\* However the handlers interleave, an agent acquires a Lead only while the
\* Lead has a two-way contact and is neither DNC nor suppressed.
THEOREM AcquisitionFollowsContact == Spec => AcquiredOnlyAfterContact
  <1>1. TypeOK /\ [Next]_vars =>
          [\A l \in Leads :
             (lead[l].owner = NoAgent /\ lead'[l].owner # NoAgent) =>
                lead[l].twoWay /\ ~lead[l].dnc /\ ~lead[l].suppressed]_vars
    BY NextOwner DEF OwnerMoves, Blocked
  <1> QED  BY <1>1, TypeCorrect, PTL DEF Spec, AcquiredOnlyAfterContact

-----------------------------------------------------------------------------
(* Returns to the pool *)

\* The inductive invariant behind OpenPoolIsEarned and ReferralsStayProtected:
\* what a handler or the sweep has read and may still act on is a Lead that
\* was owned and is no referral, and so is what triage may write back.
ReturnsInv ==
  /\ OpenPoolIsEarned
  /\ ReferralsStayProtected
  /\ \A l \in Leads : lead[l].owner # NoAgent => l \in assigned
  /\ \A r \in Requests : request[r].op = "openPoolRelease" =>
       request[r].lead \in assigned \ Referrals
  /\ \A r \in Requests :
       request[r].op = "warmReply" /\ request[r].seen.pool \in ReturnPools =>
         request[r].lead \in assigned \ Referrals
  /\ sweep.expired \union sweep.stalled \subseteq assigned \ Referrals

\* What a step may do to the row of Lead l: it enters a return pool only if it
\* is entitled to, and gets an owner only if that is remembered.
Entitled(l) ==
  /\ lead'[l].pool \in ReturnPools =>
       lead[l].pool \in ReturnPools \/ l \in assigned \ Referrals
  /\ lead'[l].owner # NoAgent => lead[l].owner # NoAgent \/ l \in assigned'

\* Every write is entitled to what it does.
LEMMA WriteEntitled ==
  ASSUME TypeOK, ReturnsInv, NEW r \in Requests, Write(r), NEW l \in Leads
  PROVE  Entitled(l)
  <1> DEFINE q == request[r]
  <1>1. lead \in [Leads -> LeadRow]
    BY DEF TypeOK
  <1>2. CASE lead' = lead
    BY <1>2 DEF Entitled
  <1>3. CASE WinClaim(r)
    BY <1>1, <1>3 DEF WinClaim, Entitled, LeadRow
  <1>4. CASE WriteWarmReply(r)
    <2>1. q.op = "warmReply"
      BY <1>4 DEF WriteWarmReply, Finish
    <2>2. q.seen.pool \in ReturnPools => q.lead \in assigned \ Referrals
      BY <2>1 DEF ReturnsInv
    <2>3. lead' = [lead EXCEPT ![q.lead] =
            [@ EXCEPT !.owner = q.agent,
                      !.lifecycle = IF q.seen.lifecycle = "DEMO_BOOKED"
                                    THEN "DEMO_BOOKED" ELSE "CLAIMED",
                      !.pool = IF q.seen.pool = "COLD" THEN "HOT" ELSE q.seen.pool,
                      !.timer = "running"]]
      BY <1>4 DEF WriteWarmReply
    <2>4. assigned' = assigned \union {q.lead}
      BY <1>4 DEF WriteWarmReply
    <2> HIDE DEF q
    <2> QED  BY <1>1, <2>2, <2>3, <2>4 DEF Entitled, LeadRow, ReturnPools
  <1>5. CASE WriteOpenPoolRelease(r)
    <2>1. q.op = "openPoolRelease"
      BY <1>5 DEF WriteOpenPoolRelease, Finish
    <2>2. q.lead \in assigned \ Referrals
      BY <2>1 DEF ReturnsInv
    <2> QED  BY <1>1, <1>5, <2>2 DEF WriteOpenPoolRelease, Returned, Entitled, LeadRow
  <1>6. CASE WritePortalRelease(r)
    BY <1>1, <1>6 DEF WritePortalRelease, Entitled, LeadRow
  <1>7. CASE WriteColdDisposition(r)
    <2>1. PICK d \in Dispositions :
             lead' = [lead EXCEPT ![q.lead] =
               [@ EXCEPT !.pool = ColdPoolFor(d),
                         !.lifecycle = ColdLifecycleFor(d),
                         !.twoWay = Contacted(q.seen, d, TwoWayDispositions),
                         !.suppressed = InvalidContact(d)]]
      BY <1>7 DEF WriteColdDisposition
    <2> QED  BY <1>1, <2>1, VocabularyType DEF Entitled, LeadRow
  <1>8. CASE WriteInteraction(r)
    <2>1. PICK d \in Dispositions :
             lead' = [lead EXCEPT ![q.lead] =
               [@ EXCEPT !.lifecycle = LifecycleFor(d),
                         !.twoWay = Contacted(q.seen, d, TwoWayDispositions),
                         !.suppressed = InvalidContact(d)]]
      BY <1>8 DEF WriteInteraction
    <2> QED  BY <1>1, <2>1 DEF Entitled, LeadRow
  <1>9. CASE WritePortalDisposition(r)
    <2>1. PICK d \in Dispositions : \E timer \in PortalTimers(d, q.seen) :
             lead' = [lead EXCEPT ![q.lead] =
               [@ EXCEPT !.lifecycle = IF d = "DEMO_BOOKED" THEN d ELSE "CONTACTED",
                         !.twoWay = Contacted(q.seen, d, PortalTwoWayDispositions),
                         !.timer = timer]]
      BY <1>9 DEF WritePortalDisposition
    <2> QED  BY <1>1, <2>1 DEF Entitled, LeadRow
  <1>10. CASE WriteAgentDnc(r)
    BY <1>1, <1>10 DEF WriteAgentDnc, Entitled, LeadRow
  <1>11. CASE WriteDncRoute(r)
    BY <1>1, <1>11 DEF WriteDncRoute, Entitled, LeadRow
  <1>12. CASE WriteCloseWon(r)
    BY <1>1, <1>12 DEF WriteCloseWon, Entitled, LeadRow
  <1>13. CASE WriteReply(r)
    BY <1>1, <1>13 DEF WriteReply, Entitled, LeadRow
  <1>14. CASE WriteOpportunity(r)
    BY <1>1, <1>14 DEF WriteOpportunity, Entitled, LeadRow
  <1>15. CASE WriteAppointment(r)
    <2>1. PICK event \in AppointmentEvents :
             lead' = [lead EXCEPT ![q.lead] =
               [@ EXCEPT !.lifecycle = AppointmentLifecycle(event, q.seen),
                         !.twoWay = Contacted(q.seen, event, Booked)]]
      BY <1>15 DEF WriteAppointment
    <2> QED  BY <1>1, <2>1 DEF Entitled, LeadRow
  <1>16. CASE LoseClaim(r) \/ RecordClaim(r) \/ WritePortalCallback(r)
    BY <1>2, <1>16 DEF LoseClaim, RecordClaim, WritePortalCallback
  <1> QED
    BY <1>3, <1>4, <1>5, <1>6, <1>7, <1>8, <1>9, <1>10, <1>11, <1>12,
       <1>13, <1>14, <1>15, <1>16 DEF Write

\* A read starts a release, or a triage of a Lead in a return pool, only for a
\* Lead that was owned and is no referral.
LEMMA ReadReturns ==
  ASSUME TypeOK, ReturnsInv, NEW r \in Requests, Read(r)
  PROVE  ReturnsInv'
  <1>1. /\ request \in [Requests -> Pending \union {Idle}]
        /\ lead \in [Leads -> LeadRow]
    BY DEF TypeOK
  <1> DEFINE Safe(op, l, seen) ==
        /\ op = "openPoolRelease" => l \in assigned \ Referrals
        /\ op = "warmReply" /\ seen.pool \in ReturnPools => l \in assigned \ Referrals
  <1>2. PICK l \in Leads :
        \/ ReadOpenPoolRelease(r, l) \/ ReadCloseWon(r, l)
        \/ ReadReply(r, l) \/ ReadOpportunity(r, l) \/ ReadAppointment(r, l)
        \/ \E a \in Agents :
             \/ ReadClaim(r, a, l) \/ ReadWarmReply(r, a, l) \/ ReadAgentDnc(r, a, l)
             \/ ReadColdDisposition(r, a, l) \/ ReadInteraction(r, a, l)
        \/ \E a \in Owners :
             \/ ReadPortalRelease(r, a, l) \/ ReadDncRoute(r, a, l)
             \/ ReadPortalDisposition(r, a, l) \/ ReadPortalCallback(r, a, l)
    BY DEF Read
  <1>3. \E op, a, seen : Serve(r, op, l, a, seen) /\ Safe(op, l, seen)
    <2>1. ASSUME ReadOpenPoolRelease(r, l)
          PROVE  \E op, a, seen : Serve(r, op, l, a, seen) /\ Safe(op, l, seen)
      <3>1. Serve(r, "openPoolRelease", l, NoAgent, Nothing)
        BY <2>1 DEF ReadOpenPoolRelease
      <3>2. Safe("openPoolRelease", l, Nothing)
        BY <2>1 DEF ReadOpenPoolRelease, OpenPoolEligible, ReturnsInv
      <3> QED  BY <3>1, <3>2
    <2>2. ASSUME NEW a \in Agents, ReadWarmReply(r, a, l)
          PROVE  \E op, b, seen : Serve(r, op, l, b, seen) /\ Safe(op, l, seen)
      <3> DEFINE seen == [Nothing EXCEPT !.lifecycle = lead[l].lifecycle,
                                         !.pool = lead[l].pool]
      <3>1. Serve(r, "warmReply", l, a, seen)
        BY <2>2 DEF ReadWarmReply
      <3>2. seen.pool = lead[l].pool
        BY DEF Nothing
      <3>3. Safe("warmReply", l, seen)
        BY <3>2 DEF ReturnsInv, OpenPoolIsEarned, ReferralsStayProtected
      <3> QED  BY <3>1, <3>3
    <2>3. ASSUME NEW op, NEW a, NEW seen, Serve(r, op, l, a, seen),
                 op \notin {"openPoolRelease", "warmReply"}
          PROVE  \E o, b, s : Serve(r, o, l, b, s) /\ Safe(o, l, s)
      BY <2>3
    <2> QED
      BY <1>2, <2>1, <2>2, <2>3 DEF ReadCloseWon, ReadReply, ReadOpportunity,
         ReadAppointment, ReadClaim, ReadAgentDnc, ReadColdDisposition,
         ReadInteraction, ReadPortalRelease, ReadDncRoute, ReadPortalDisposition,
         ReadPortalCallback
  <1>4. PICK op, a, seen : Serve(r, op, l, a, seen) /\ Safe(op, l, seen)
    BY <1>3
  <1>5. /\ UNCHANGED <<lead, sweep, assigned>>
        /\ request' = [request EXCEPT
             ![r] = [op |-> op, lead |-> l, agent |-> a, seen |-> seen]]
    BY <1>4 DEF Serve
  <1>6. \A s \in Requests :
           \/ request'[s] = request[s]
           \/ /\ request'[s].op = op
              /\ request'[s].lead = l
              /\ request'[s].seen = seen
    BY <1>1, <1>5
  <1> QED  BY <1>4, <1>5, <1>6 DEF ReturnsInv, OpenPoolIsEarned, ReferralsStayProtected

\* A write leaves no release or triage behind and forgets no assignment.
LEMMA WriteReturns ==
  ASSUME TypeOK, ReturnsInv, NEW r \in Requests, Write(r)
  PROVE  ReturnsInv'
  <1>1. request \in [Requests -> Pending \union {Idle}]
    BY DEF TypeOK
  <1>2. /\ sweep' = sweep
        /\ assigned \subseteq assigned'
    BY DEF Write, WinClaim, LoseClaim, RecordClaim, WriteWarmReply,
       WriteOpenPoolRelease, WritePortalRelease, WriteColdDisposition,
       WriteInteraction, WritePortalDisposition, WritePortalCallback,
       WriteAgentDnc, WriteDncRoute, WriteCloseWon, WriteReply, WriteOpportunity,
       WriteAppointment
  <1>3. \A s \in Requests : \/ request'[s] = request[s]
                           \/ request'[s].op \in {"idle", "recordClaim"}
    <2>1. CASE WinClaim(r)
      <3>1. request[r] \in Pending
        BY <1>1, <2>1 DEF WinClaim, Idle
      <3> QED  BY <1>1, <2>1, <3>1 DEF WinClaim, Pending
    <2>2. ASSUME NEW op, Finish(r, op)
          PROVE  \A s \in Requests : \/ request'[s] = request[s]
                                    \/ request'[s].op \in {"idle", "recordClaim"}
      BY <1>1, <2>2 DEF Finish, Idle
    <2> QED
      BY <2>1, <2>2 DEF Write, LoseClaim, RecordClaim, WriteWarmReply,
         WriteOpenPoolRelease, WritePortalRelease, WriteColdDisposition,
         WriteInteraction, WritePortalDisposition, WritePortalCallback,
         WriteAgentDnc, WriteDncRoute, WriteCloseWon, WriteReply, WriteOpportunity,
         WriteAppointment
  <1>4. \A l \in Leads : Entitled(l)
    BY WriteEntitled
  <1> QED
    BY <1>2, <1>3, <1>4, ConstantsOK
       DEF ReturnsInv, Entitled, OpenPoolIsEarned, ReferralsStayProtected

\* The sweep reads only Leads that it is entitled to return, and acts on them.
LEMMA OtherReturns ==
  ASSUME TypeOK, ReturnsInv,
         \/ \E r \in Requests : Abandon(r)
         \/ \E l \in Leads : Review(l) \/ Age(l)
         \/ ReadSweep \/ WriteSweep
  PROVE  ReturnsInv'
  <1>1. /\ lead \in [Leads -> LeadRow]
        /\ request \in [Requests -> Pending \union {Idle}]
    BY DEF TypeOK
  <1>2. ASSUME UNCHANGED <<request, sweep, assigned>>, \A l \in Leads : Entitled(l)
        PROVE  ReturnsInv'
    BY <1>2, ConstantsOK
       DEF ReturnsInv, Entitled, OpenPoolIsEarned, ReferralsStayProtected
  <1>3. ASSUME NEW r \in Requests, Abandon(r) PROVE ReturnsInv'
    <2>1. \A s \in Requests : request'[s] = request[s] \/ request'[s].op = "idle"
      BY <1>1, <1>3 DEF Abandon, Idle
    <2> QED
      BY <1>3, <2>1 DEF Abandon, ReturnsInv, OpenPoolIsEarned, ReferralsStayProtected
  <1>4. ASSUME NEW m \in Leads, NEW pool \in Pools \ ReturnPools, Approve(m, pool)
        PROVE  ReturnsInv'
    <2>1. \A l \in Leads : Entitled(l)
      BY <1>1, <1>4 DEF Approve, Entitled, LeadRow
    <2> QED  BY <1>2, <1>4, <2>1 DEF Approve
  <1>5. ASSUME NEW m \in Leads, Disqualify(m) PROVE ReturnsInv'
    <2>1. \A l \in Leads : Entitled(l)
      BY <1>1, <1>5 DEF Disqualify, Entitled, LeadRow
    <2> QED  BY <1>2, <1>5, <2>1 DEF Disqualify
  <1>6. ASSUME NEW m \in Leads, Suppress(m) PROVE ReturnsInv'
    <2>1. \A l \in Leads : Entitled(l)
      BY <1>1, <1>6 DEF Suppress, Entitled, LeadRow
    <2> QED  BY <1>2, <1>6, <2>1 DEF Suppress
  <1>7. ASSUME NEW m \in Leads, Age(m) PROVE ReturnsInv'
    <2>1. \A l \in Leads : Entitled(l)
      BY <1>1, <1>7 DEF Age, Entitled, LeadRow
    <2> QED  BY <1>2, <1>7, <2>1 DEF Age
  <1>8. CASE ReadSweep
    <2>1. PICK expired \in SUBSET {l \in Leads : ClaimExpired(l)},
               stalled \in SUBSET {l \in Leads : OpenPoolStalled(l)} :
             sweep' = [expired |-> expired, stalled |-> stalled]
      BY <1>8 DEF ReadSweep, Oldest
    <2>2. expired \union stalled \subseteq assigned \ Referrals
      BY DEF ClaimExpired, OpenPoolStalled, ReturnsInv, OpenPoolIsEarned, ReturnPools
    <2> QED
      BY <1>8, <2>1, <2>2
         DEF ReadSweep, ReturnsInv, OpenPoolIsEarned, ReferralsStayProtected
  <1>9. CASE WriteSweep
    <2>1. \A l \in Leads : Entitled(l)
      BY <1>1, <1>9 DEF WriteSweep, Returned, Entitled, LeadRow, ReturnsInv
    <2> QED
      BY <1>9, <2>1, ConstantsOK DEF WriteSweep, NoSweep, ReturnsInv, Entitled,
         OpenPoolIsEarned, ReferralsStayProtected
  <1> QED
    BY <1>3, <1>4, <1>5, <1>6, <1>7, <1>8, <1>9 DEF Review

\* The invariant holds in every reachable state.
LEMMA ReturnsInvariant == Spec => []ReturnsInv
  <1>1. Init => ReturnsInv
    <2> SUFFICES ASSUME Init PROVE ReturnsInv
      OBVIOUS
    <2>1. \A l \in Leads : lead[l].owner = NoAgent /\ lead[l].pool \notin ReturnPools
      BY DEF Init, ReturnPools
    <2>2. \A r \in Requests : request[r].op = "idle"
      BY DEF Init, Idle
    <2> QED
      BY <2>1, <2>2, ConstantsOK DEF Init, NoSweep, ReturnsInv, OpenPoolIsEarned,
         ReferralsStayProtected
  <1>2. TypeOK /\ ReturnsInv /\ [Next]_vars => ReturnsInv'
    <2> SUFFICES ASSUME TypeOK, ReturnsInv, [Next]_vars PROVE ReturnsInv'
      OBVIOUS
    <2>1. CASE UNCHANGED vars
      BY <2>1 DEF vars, ReturnsInv, OpenPoolIsEarned, ReferralsStayProtected
    <2> QED  BY <2>1, ReadReturns, WriteReturns, OtherReturns DEF Next
  <1> QED  BY <1>1, <1>2, TypeCorrect, PTL DEF Spec

\* However the handlers and the sweep interleave, only a Lead that an agent has
\* owned is in the Open Pool or the Shark Tank.
THEOREM OpenPoolEntryIsEarned == Spec => []OpenPoolIsEarned
  <1>1. ReturnsInv => OpenPoolIsEarned
    BY DEF ReturnsInv
  <1> QED  BY <1>1, ReturnsInvariant, PTL

\* However the handlers and the sweep interleave, no referral is ever in the
\* Open Pool or the Shark Tank.
THEOREM ReferralsAreProtected == Spec => []ReferralsStayProtected
  <1>1. ReturnsInv => ReferralsStayProtected
    BY DEF ReturnsInv
  <1> QED  BY <1>1, ReturnsInvariant, PTL
-----------------------------------------------------------------------------
(* Do-not-contact *)

\* A write is about the Lead of its request, and ends the request or goes on to
\* record the claim.
LEMMA WritesItsLead ==
  ASSUME TypeOK, NEW r \in Requests, Write(r)
  PROVE  /\ request[r] # Idle
         /\ \A l \in Leads : l # request[r].lead => lead'[l] = lead[l]
         /\ sweep' = sweep
         /\ \A s \in Requests : s # r => request'[s] = request[s]
         /\ \/ request'[r] = Idle
            \/ request'[r] = [request[r] EXCEPT !.op = "recordClaim", !.seen = Nothing]
  <1>1. /\ lead \in [Leads -> LeadRow]
        /\ request \in [Requests -> Pending \union {Idle}]
    BY DEF TypeOK
  <1>2. CASE WinClaim(r)
    <2>1. request[r] # Idle
      BY <1>2 DEF WinClaim, Idle
    <2> QED  BY <1>1, <1>2, <2>1 DEF WinClaim
  <1>3. ASSUME NEW op, op # "idle", Finish(r, op)
        PROVE  /\ request[r] # Idle
               /\ \A s \in Requests : s # r => request'[s] = request[s]
               /\ request'[r] = Idle
    BY <1>1, <1>3 DEF Finish, Idle
  <1>4. CASE \/ LoseClaim(r) \/ RecordClaim(r) \/ WritePortalCallback(r) \/ WriteWarmReply(r)
             \/ WriteOpenPoolRelease(r) \/ WritePortalRelease(r) \/ WriteAgentDnc(r)
             \/ WriteDncRoute(r) \/ WriteCloseWon(r) \/ WriteReply(r)
    <2>1. (\E op : op # "idle" /\ Finish(r, op)) /\ sweep' = sweep
      BY <1>4
      DEF LoseClaim, RecordClaim, WritePortalCallback, WriteWarmReply, WriteOpenPoolRelease,
          WritePortalRelease, WriteAgentDnc, WriteDncRoute, WriteCloseWon, WriteReply
    <2>2. lead' = lead \/ \E row : lead' = [lead EXCEPT ![request[r].lead] = row]
      BY <1>1, <1>4
      DEF LoseClaim, RecordClaim, WritePortalCallback, WriteWarmReply, WriteOpenPoolRelease,
          WritePortalRelease, WriteAgentDnc, WriteDncRoute, WriteCloseWon, WriteReply
    <2> QED  BY <1>1, <1>3, <2>1, <2>2
  <1>5. CASE \/ WriteColdDisposition(r) \/ WriteInteraction(r) \/ WritePortalDisposition(r)
             \/ WriteOpportunity(r) \/ WriteAppointment(r)
    <2>1. (\E op : op # "idle" /\ Finish(r, op)) /\ sweep' = sweep
      BY <1>5
      DEF WriteColdDisposition, WriteInteraction, WritePortalDisposition, WriteOpportunity,
          WriteAppointment
    <2>2. \E row : lead' = [lead EXCEPT ![request[r].lead] = row]
      BY <1>1, <1>5
      DEF WriteColdDisposition, WriteInteraction, WritePortalDisposition, WriteOpportunity,
          WriteAppointment
    <2> QED  BY <1>1, <1>3, <2>1, <2>2
  <1> QED  BY <1>2, <1>4, <1>5 DEF Write

\* The portal's routes, which check who asks and not whether the Lead is blocked
PortalHandlers == {"portalRelease", "dncRoute", "portalDisposition", "portalCallback"}

\* What holds of a Lead when a handler reads it, of the actor and of what the
\* handler keeps.
Fresh(op, l, a, seen) ==
  /\ op \in Handlers
  /\ op \notin PortalHandlers => ~Blocked(l)
  /\ op = "claim" => a \in Agents /\ Cardinality(ActiveLeads(a)) < Capacity
  /\ op = "coldDisposition" => lead[l].owner = NoAgent
  /\ op \in {"coldDisposition", "interaction", "portalDisposition", "appointment"} =>
       seen.twoWay = lead[l].twoWay
  /\ op \in {"reply", "opportunity", "appointment"} => seen.lifecycle = lead[l].lifecycle

LEMMA ReadsAreFresh ==
  ASSUME TypeOK, NEW r \in Requests, Read(r)
  PROVE  \E op, l, a, seen :
           l \in Leads /\ a \in Owners /\ Serve(r, op, l, a, seen) /\ Fresh(op, l, a, seen)
  <1> DEFINE ReadFresh == \E op, l, a, seen :
           l \in Leads /\ a \in Owners /\ Serve(r, op, l, a, seen) /\ Fresh(op, l, a, seen)
  <1> PICK l \in Leads :
        \/ ReadOpenPoolRelease(r, l) \/ ReadCloseWon(r, l)
        \/ ReadReply(r, l) \/ ReadOpportunity(r, l) \/ ReadAppointment(r, l)
        \/ \E a \in Agents :
             \/ ReadClaim(r, a, l) \/ ReadWarmReply(r, a, l) \/ ReadAgentDnc(r, a, l)
             \/ ReadColdDisposition(r, a, l) \/ ReadInteraction(r, a, l)
        \/ \E a \in Owners :
             \/ ReadPortalRelease(r, a, l) \/ ReadDncRoute(r, a, l)
             \/ ReadPortalDisposition(r, a, l) \/ ReadPortalCallback(r, a, l)
    BY DEF Read
  <1>1. Agents \subseteq Owners /\ NoAgent \in Owners
    BY DEF Owners
  <1>2. ASSUME NEW op, NEW a \in Owners, NEW seen, Serve(r, op, l, a, seen), Fresh(op, l, a, seen)
        PROVE  ReadFresh
    BY <1>2
  <1>3. CASE ReadOpenPoolRelease(r, l)
    <2>1. Fresh("openPoolRelease", l, NoAgent, Nothing)
      BY <1>3 DEF ReadOpenPoolRelease, OpenPoolEligible, Fresh, Serve
    <2> QED  BY <1>1, <1>2, <1>3, <2>1 DEF ReadOpenPoolRelease
  <1>4. CASE ReadCloseWon(r, l)
    <2>1. Fresh("closeWon", l, NoAgent, Nothing)
      BY <1>4 DEF ReadCloseWon, Fresh, Serve
    <2> QED  BY <1>1, <1>2, <1>4, <2>1 DEF ReadCloseWon
  <1>5. Matched(l).lifecycle = lead[l].lifecycle /\ Matched(l).twoWay = lead[l].twoWay
    BY DEF Matched, Nothing
  <1>6. CASE ReadReply(r, l)
    <2>1. Fresh("reply", l, NoAgent, Matched(l))
      BY <1>5, <1>6 DEF ReadReply, Fresh, Serve
    <2> QED  BY <1>1, <1>2, <1>6, <2>1 DEF ReadReply
  <1>7. CASE ReadOpportunity(r, l)
    <2> DEFINE seen == [Nothing EXCEPT !.lifecycle = lead[l].lifecycle]
    <2>1. seen.lifecycle = lead[l].lifecycle
      BY DEF Nothing
    <2>2. Serve(r, "opportunity", l, NoAgent, seen) /\ ~Blocked(l)
      BY <1>7 DEF ReadOpportunity
    <2> HIDE DEF seen
    <2>3. Fresh("opportunity", l, NoAgent, seen)
      BY <2>1, <2>2 DEF Fresh, Serve
    <2> QED  BY <1>1, <1>2, <2>2, <2>3
  <1>8. CASE ReadAppointment(r, l)
    <2>1. Fresh("appointment", l, NoAgent, Matched(l))
      BY <1>5, <1>8 DEF ReadAppointment, Fresh, Serve
    <2> QED  BY <1>1, <1>2, <1>8, <2>1 DEF ReadAppointment
  <1>9. ASSUME NEW a \in Agents, ReadClaim(r, a, l) \/ ReadWarmReply(r, a, l)
        PROVE  ReadFresh
    <2>1. PICK op, seen :
             /\ op \in {"claim", "warmReply"}
             /\ Serve(r, op, l, a, seen) /\ ~Blocked(l)
             /\ op = "claim" => Cardinality(ActiveLeads(a)) < Capacity
      BY <1>9 DEF ReadClaim, ClaimEligible, ReadWarmReply, WarmReplyMatches
    <2>2. Fresh(op, l, a, seen)
      BY <2>1 DEF Fresh, Serve
    <2> QED  BY <1>1, <1>2, <2>1, <2>2
  <1>10. ASSUME NEW a \in Agents, ReadAgentDnc(r, a, l)
         PROVE  ReadFresh
    <2>1. Fresh("agentDnc", l, a, Nothing)
      BY <1>10 DEF ReadAgentDnc, Fresh, Serve
    <2> QED  BY <1>1, <1>2, <1>10, <2>1 DEF ReadAgentDnc
  <1>11. [Nothing EXCEPT !.twoWay = lead[l].twoWay].twoWay = lead[l].twoWay
    BY DEF Nothing
  <1>12. ASSUME NEW a \in Agents, ReadColdDisposition(r, a, l) \/ ReadInteraction(r, a, l)
         PROVE  ReadFresh
    <2>1. PICK op \in {"coldDisposition", "interaction"} :
             /\ Serve(r, op, l, a, [Nothing EXCEPT !.twoWay = lead[l].twoWay])
             /\ ~Blocked(l) /\ (op = "coldDisposition" => lead[l].owner = NoAgent)
      BY <1>12 DEF ReadColdDisposition, ColdWorkable, ReadInteraction
    <2>2. Fresh(op, l, a, [Nothing EXCEPT !.twoWay = lead[l].twoWay])
      BY <1>11, <2>1 DEF Fresh, Serve
    <2> QED  BY <1>1, <1>2, <2>1, <2>2
  <1>13. ASSUME NEW a \in Owners,
                ReadPortalRelease(r, a, l) \/ ReadDncRoute(r, a, l) \/ ReadPortalCallback(r, a, l)
         PROVE  ReadFresh
    <2>1. PICK op \in {"portalRelease", "dncRoute", "portalCallback"} :
             Serve(r, op, l, a, Nothing)
      BY <1>13 DEF ReadPortalRelease, ReadDncRoute, ReadPortalCallback
    <2>2. Fresh(op, l, a, Nothing)
      BY <2>1 DEF Fresh, Serve, PortalHandlers
    <2> QED  BY <1>2, <2>1, <2>2
  <1>14. ASSUME NEW a \in Owners, ReadPortalDisposition(r, a, l)
         PROVE  ReadFresh
    <2> DEFINE seen == [Nothing EXCEPT !.twoWay = lead[l].twoWay, !.timer = lead[l].timer]
    <2>1. seen.twoWay = lead[l].twoWay
      BY DEF Nothing
    <2>2. Serve(r, "portalDisposition", l, a, seen)
      BY <1>14 DEF ReadPortalDisposition
    <2> HIDE DEF seen
    <2>3. Fresh("portalDisposition", l, a, seen)
      BY <2>1, <2>2 DEF Fresh, Serve, PortalHandlers
    <2> QED  BY <1>2, <2>2, <2>3
  <1> QED
    BY <1>3, <1>4, <1>6, <1>7, <1>8, <1>9, <1>10, <1>12, <1>13, <1>14

\* Where the portal's routes are not served, once a Lead is do-not-contact and
\* what had read it before is gone, it stays so and nothing takes it up again.
THEOREM DncLeadsRest ==
  ASSUME Handlers \intersect PortalHandlers = {}
  PROVE  Spec => BlackoutAtRest
  <1> DEFINE Rests(l) == lead[l].dnc /\ ~InFlight(l) => lead'[l].dnc /\ ~InFlight(l)'
  <1>1. ASSUME TypeOK, Next, NEW l \in Leads, lead[l].dnc, ~InFlight(l)
        PROVE  lead'[l].dnc /\ ~InFlight(l)'
    <2>1. /\ lead \in [Leads -> LeadRow]
          /\ request \in [Requests -> Pending \union {Idle}]
      BY <1>1 DEF TypeOK
    <2>2. ASSUME NEW r \in Requests, Read(r) PROVE lead'[l].dnc /\ ~InFlight(l)'
      <3>1. PICK op, m, a, seen :
               m \in Leads /\ a \in Owners /\ Serve(r, op, m, a, seen) /\ Fresh(op, m, a, seen)
        BY <1>1, <2>2, ReadsAreFresh
      <3>2. m # l
        BY <1>1, <3>1 DEF Fresh, Blocked
      <3> QED  BY <1>1, <2>1, <3>1, <3>2 DEF Serve, InFlight
    <2>3. ASSUME NEW r \in Requests, Write(r) PROVE lead'[l].dnc /\ ~InFlight(l)'
      <3>1. request[r] # Idle
        BY <1>1, <2>3, WritesItsLead
      <3>2. request[r] \in Pending /\ request[r].lead # l
        BY <1>1, <2>1, <3>1 DEF InFlight
      <3>3. lead'[l] = lead[l] /\ sweep' = sweep
              /\ \A s \in Requests : s # r => request'[s] = request[s]
        BY <1>1, <2>3, <3>2, WritesItsLead
      <3>4. request'[r] = Idle \/ request'[r].lead = request[r].lead
        <4>1. [request[r] EXCEPT !.op = "recordClaim", !.seen = Nothing].lead = request[r].lead
          BY <3>2 DEF Pending
        <4> QED  BY <1>1, <2>3, <4>1, WritesItsLead
      <3> QED  BY <1>1, <3>2, <3>3, <3>4 DEF InFlight
    <2>4. ASSUME NEW r \in Requests, Abandon(r) PROVE lead'[l].dnc /\ ~InFlight(l)'
      BY <1>1, <2>1, <2>4 DEF Abandon, InFlight
    <2>5. ASSUME NEW m \in Leads, Review(m) \/ Age(m) PROVE lead'[l].dnc /\ ~InFlight(l)'
      <3>1. request' = request /\ sweep' = sweep
        BY <2>5 DEF Review, Approve, Disqualify, Suppress, Age
      <3>2. lead'[l].dnc
        BY <1>1, <2>1, <2>5 DEF Review, Approve, Disqualify, Suppress, Age, LeadRow
      <3> QED  BY <1>1, <3>1, <3>2 DEF InFlight
    <2>6. CASE ReadSweep
      <3>1. l \notin sweep'.expired \union sweep'.stalled
        BY <1>1, <2>6 DEF ReadSweep, Oldest, ClaimExpired, OpenPoolStalled, Blocked
      <3> QED  BY <1>1, <2>6, <3>1 DEF ReadSweep, InFlight
    <2>7. CASE WriteSweep
      BY <1>1, <2>7 DEF WriteSweep, NoSweep, InFlight
    <2> QED  BY <1>1, <2>2, <2>3, <2>4, <2>5, <2>6, <2>7 DEF Next
  <1>2. TypeOK /\ [Next]_vars => [\A l \in Leads : Rests(l)]_vars
    BY <1>1
  <1> QED  BY <1>2, TypeCorrect, PTL DEF Spec, BlackoutAtRest

-----------------------------------------------------------------------------
(* While requests do not overlap *)

\* What the request in flight has read still is what its write relies on.
CurrentInv ==
  \A r \in Requests :
    LET q == request[r] IN
    /\ q.op = "claim" => q.agent \in Agents /\ Cardinality(ActiveLeads(q.agent)) < Capacity
    /\ q.op = "coldDisposition" => lead[q.lead].owner = NoAgent
    /\ q.op \in {"coldDisposition", "interaction", "portalDisposition", "appointment"} =>
         (lead[q.lead].twoWay => q.seen.twoWay)
    /\ q.op \in {"reply", "opportunity", "appointment"} =>
         (lead[q.lead].lifecycle = "CLOSED_WON" => q.seen.lifecycle = "CLOSED_WON")

\* The steps that may come between the read and the write of the only request
Between ==
  \/ \E l \in Leads : Review(l) \/ Age(l)
  \/ ReadSweep \/ WriteSweep

\* They take a Lead from its owner but give it to nobody, and bring no Lead back
\* to work or to a customer.
LEMMA BetweenReadAndWrite ==
  ASSUME TypeOK, Between
  PROVE  /\ request' = request
         /\ \A l \in Leads :
              /\ lead'[l].owner \in {lead[l].owner, NoAgent}
              /\ lead'[l].twoWay = lead[l].twoWay
              /\ lead'[l].lifecycle = "CLOSED_WON" => lead[l].lifecycle = "CLOSED_WON"
              /\ lead'[l].lifecycle \in CapacityLifecycles => lead[l].lifecycle \in CapacityLifecycles
              /\ Blocked(l) => lead'[l].dnc \/ lead'[l].suppressed
  <1> DEFINE Kept(l) ==
        /\ lead'[l].owner \in {lead[l].owner, NoAgent}
        /\ lead'[l].twoWay = lead[l].twoWay
        /\ lead'[l].lifecycle = "CLOSED_WON" => lead[l].lifecycle = "CLOSED_WON"
        /\ lead'[l].lifecycle \in CapacityLifecycles => lead[l].lifecycle \in CapacityLifecycles
        /\ Blocked(l) => lead'[l].dnc \/ lead'[l].suppressed
  <1>1. lead \in [Leads -> LeadRow]
    BY DEF TypeOK
  <1>2. request' = request
    BY DEF Between, Review, Approve, Disqualify, Suppress, Age, ReadSweep, WriteSweep
  <1>3. ASSUME NEW l \in Leads, NEW m \in Leads, Review(m) PROVE Kept(l)
    <2>1. ASSUME NEW pool, Approve(m, pool) PROVE Kept(l)
      BY <1>1, <2>1 DEF Approve, LeadRow, CapacityLifecycles, AgingLifecycles, Blocked
    <2>2. CASE Disqualify(m)
      BY <1>1, <2>2 DEF Disqualify, LeadRow, CapacityLifecycles, AgingLifecycles, Blocked
    <2>3. CASE Suppress(m)
      BY <1>1, <2>3 DEF Suppress, LeadRow, CapacityLifecycles, AgingLifecycles, Blocked
    <2> QED  BY <1>3, <2>1, <2>2, <2>3 DEF Review
  <1>4. ASSUME NEW l \in Leads, NEW m \in Leads, Age(m) PROVE Kept(l)
    BY <1>1, <1>4 DEF Age, LeadRow, Blocked
  <1>5. ASSUME NEW l \in Leads, ReadSweep PROVE Kept(l)
    BY <1>5 DEF ReadSweep, Blocked
  <1>6. ASSUME NEW l \in Leads, WriteSweep PROVE Kept(l)
    BY <1>1, <1>6
    DEF WriteSweep, Returned, LeadRow, CapacityLifecycles, AgingLifecycles, Blocked
  <1> QED  BY <1>2, <1>3, <1>4, <1>5, <1>6 DEF Between

\* They put no Lead on an agent's list of active Leads.
LEMMA BetweenCapacity ==
  ASSUME TypeOK, Between, NEW a \in Agents,
         Cardinality(ActiveLeads(a)) < Capacity
  PROVE  Cardinality(ActiveLeads(a)') < Capacity
  <1>1. ActiveLeads(a)' \subseteq ActiveLeads(a)
    BY BetweenReadAndWrite, ConstantsOK DEF ActiveLeads, Blocked
  <1>2. IsFiniteSet(ActiveLeads(a))
    BY ConstantsOK, FS_Subset DEF ActiveLeads
  <1>3. /\ Cardinality(ActiveLeads(a)') <= Cardinality(ActiveLeads(a))
        /\ Cardinality(ActiveLeads(a)) \in Nat /\ Cardinality(ActiveLeads(a)') \in Nat
    BY <1>1, <1>2, FS_Subset, FS_CardinalityType
  <1> QED  BY <1>3, ConstantsOK

LEMMA CurrentStepwise ==
  ASSUME NEW r0, Requests = {r0}, TypeOK, CurrentInv, [Next]_vars
  PROVE  CurrentInv'
  <1>1. request \in [Requests -> Pending \union {Idle}] /\ lead \in [Leads -> LeadRow]
    BY DEF TypeOK
  <1>2. ASSUME request'[r0].op \in {"idle", "recordClaim"} PROVE CurrentInv'
    BY <1>2 DEF CurrentInv
  <1>3. CASE Read(r0)
    <2>1. PICK op, l, a, seen :
             l \in Leads /\ a \in Owners /\ Serve(r0, op, l, a, seen) /\ Fresh(op, l, a, seen)
      BY <1>3, ReadsAreFresh
    <2>2. lead' = lead
            /\ request'[r0] = [op |-> op, lead |-> l, agent |-> a, seen |-> seen]
      BY <1>1, <2>1 DEF Serve
    <2>3. ActiveLeads(a)' = ActiveLeads(a)
      BY <2>2 DEF ActiveLeads, Blocked
    <2> QED  BY <2>1, <2>2, <2>3 DEF CurrentInv, Fresh
  <1>4. CASE Write(r0)
    <2>1. request[r0] \in Pending
      BY <1>1, <1>4, WritesItsLead
    <2>2. request'[r0] = Idle
            \/ request'[r0] = [request[r0] EXCEPT !.op = "recordClaim", !.seen = Nothing]
      BY <1>4, WritesItsLead
    <2>3. CASE request'[r0] = Idle
      BY <1>2, <2>3 DEF Idle
    <2>4. CASE request'[r0] = [request[r0] EXCEPT !.op = "recordClaim", !.seen = Nothing]
      <3>1. request'[r0].op = "recordClaim"
        BY <2>1, <2>4 DEF Pending
      <3> QED  BY <1>2, <3>1
    <2> QED  BY <2>2, <2>3, <2>4
  <1>5. CASE Abandon(r0)
    BY <1>1, <1>2, <1>5 DEF Abandon, Idle
  <1>6. CASE Between
    <2>1. request'[r0] = request[r0]
      BY <1>6, BetweenReadAndWrite
    <2>2. CASE request[r0] = Idle
      BY <1>2, <2>1, <2>2 DEF Idle
    <2>3. CASE request[r0] # Idle
      <3> DEFINE q == request[r0]
      <3>1. q.lead \in Leads
        BY <2>3, ServedRequest
      <3>2. PICK a : a = q.agent
        OBVIOUS
      <3>2a. q.op = "claim" => a \in Agents /\ Cardinality(ActiveLeads(a)') < Capacity
        <4>1. q.op = "claim" => a \in Agents /\ Cardinality(ActiveLeads(a)) < Capacity
          BY <3>2 DEF CurrentInv
        <4> QED  BY <1>6, <4>1, BetweenCapacity
      <3>3. /\ lead'[q.lead].owner \in {lead[q.lead].owner, NoAgent}
            /\ lead'[q.lead].twoWay = lead[q.lead].twoWay
            /\ lead'[q.lead].lifecycle = "CLOSED_WON" => lead[q.lead].lifecycle = "CLOSED_WON"
        BY <1>6, <3>1, BetweenReadAndWrite
      <3>4. ActiveLeads(request[r0].agent)' = ActiveLeads(a)'
        BY <2>1, <3>2 DEF ActiveLeads
      <3> QED  BY <2>1, <3>2, <3>3, <3>4, <3>2a DEF CurrentInv
    <2> QED  BY <2>2, <2>3
  <1>7. CASE UNCHANGED vars
    <2>1. \A a : ActiveLeads(a)' = ActiveLeads(a)
      BY <1>7 DEF vars, ActiveLeads, Blocked
    <2> QED  BY <1>7, <2>1 DEF vars, CurrentInv
  <1> QED  BY <1>3, <1>4, <1>5, <1>6, <1>7 DEF Next, Between

LEMMA ReadsAreCurrent ==
  ASSUME NEW r0, Requests = {r0}
  PROVE  Spec => [](TypeOK /\ CurrentInv)
  <1>1. Init => CurrentInv
    BY DEF Init, CurrentInv, Idle
  <1>2. TypeOK /\ CurrentInv /\ [Next]_vars => CurrentInv'
    BY CurrentStepwise
  <1> QED  BY <1>1, <1>2, TypeCorrect, PTL DEF Spec

\* While requests do not overlap, a claim that succeeds leaves its agent within
\* its capacity, whatever the sweep and the review page do in between.
THEOREM ClaimsRespectCapacity ==
  ASSUME NEW r0, Requests = {r0}
  PROVE  Spec => CapacityRespected
  <1>1. ASSUME TypeOK, CurrentInv, NEW r \in Requests, WinClaim(r)
        PROVE  Cardinality(ActiveLeads(request[r].agent)') <= Capacity
    <2>1. PICK a : a = request[r].agent
      OBVIOUS
    <2>2. PICK l : l = request[r].lead
      OBVIOUS
    <2>3. request[r].op = "claim" /\ request[r] # Idle
      BY <1>1 DEF WinClaim, Idle
    <2>4. request[r] \in Pending
      BY <1>1, <2>3, ServedRequest
    <2>5. a \in Agents /\ Cardinality(ActiveLeads(a)) < Capacity
      BY <1>1, <2>1, <2>3 DEF CurrentInv
    <2>6. request'[r].agent = a
      BY <1>1, <2>1, <2>4 DEF WinClaim, Pending, TypeOK
    <2>7. \A m \in Leads : m # l => lead'[m] = lead[m]
      BY <1>1, <2>2 DEF WinClaim, TypeOK
    <2> DEFINE before == ActiveLeads(a)
               after == {m \in Leads : lead'[m].owner = a /\ lead'[m].lifecycle \in CapacityLifecycles
                                         /\ ~(lead'[m].dnc \/ lead'[m].suppressed)}
    <2>8. after \subseteq before \union {l}
      BY <2>7 DEF ActiveLeads, Blocked
    <2>9. ActiveLeads(request[r].agent)' = after
      BY <2>6 DEF ActiveLeads, Blocked
    <2>10. IsFiniteSet(before)
      BY ConstantsOK, FS_Subset DEF ActiveLeads
    <2> HIDE DEF before, after
    <2>11. IsFiniteSet(before \union {l}) /\ Cardinality(before \union {l}) <= Cardinality(before) + 1
             /\ Cardinality(before) \in Nat
      BY <2>10, FS_AddElement, FS_CardinalityType
    <2>12. Cardinality(after) <= Cardinality(before \union {l}) /\ IsFiniteSet(after)
      BY <2>8, <2>11, FS_Subset
    <2>13. Cardinality(after) \in Nat /\ Cardinality(before \union {l}) \in Nat
      BY <2>11, <2>12, FS_CardinalityType
    <2>14. Cardinality(after) <= Capacity
      BY <2>5, <2>11, <2>12, <2>13, ConstantsOK DEF before
    <2> QED  BY <2>9, <2>14
  <1>2. TypeOK /\ CurrentInv /\ [Next]_vars =>
          [\A r \in Requests : WinClaim(r) =>
             Cardinality(ActiveLeads(request[r].agent)') <= Capacity]_vars
    BY <1>1
  <1>3. Spec => [](TypeOK /\ CurrentInv)
    BY ReadsAreCurrent
  <1> QED  BY <1>2, <1>3, PTL DEF Spec, CapacityRespected

\* While requests do not overlap, an event of GHL leaves a Closed Won Lead as
\* it is, whatever the sweep and the review page do in between.
THEOREM RelaysKeepWonLeads ==
  ASSUME NEW r0, Requests = {r0}
  PROVE  Spec => RelaysKeepClosedWon
  <1>1. ASSUME TypeOK, CurrentInv, [Next]_vars, NEW r \in Requests, RelayWrites(r),
               lead[request[r].lead].lifecycle = "CLOSED_WON"
        PROVE  lead'[request[r].lead].lifecycle = "CLOSED_WON"
    <2> DEFINE q == request[r]
    <2>1. q.op \in {"reply", "opportunity", "appointment"} /\ q # Idle /\ request' # request
      BY <1>1 DEF RelayWrites, Idle
    <2>2. q.lead \in Leads /\ lead \in [Leads -> LeadRow]
      BY <1>1, <2>1, ServedRequest DEF TypeOK
    <2>3. q.seen.lifecycle = "CLOSED_WON"
      BY <1>1, <2>1 DEF CurrentInv
    <2>4. CASE lead' = lead
      BY <1>1, <2>4
    <2>5. CASE WriteReply(r)
      <3>1. ReplyLifecycle(q.seen) = "CLOSED_WON"
        BY <2>3 DEF ReplyLifecycle
      <3> QED  BY <2>2, <2>5, <3>1 DEF WriteReply, LeadRow
    <2>6. CASE WriteOpportunity(r)
      <3>1. \A event \in OpportunityEvents : OpportunityLifecycle(event, q.seen) = "CLOSED_WON"
        BY <2>3 DEF OpportunityLifecycle, PreservesWon, OpportunityEvents
      <3> QED  BY <2>2, <2>6, <3>1 DEF WriteOpportunity, LeadRow
    <2>7. CASE WriteAppointment(r)
      <3>1. \A event \in AppointmentEvents : AppointmentLifecycle(event, q.seen) = "CLOSED_WON"
        BY <2>3 DEF AppointmentLifecycle
      <3> QED  BY <2>2, <2>7, <3>1 DEF WriteAppointment, LeadRow
    <2>8. CASE Read(r)
      <3>1. request[r] = Idle
        BY <1>1, <2>8, ReadsAreFresh DEF Serve
      <3> QED  BY <2>1, <3>1
    <2>9. CASE Write(r)
      BY <2>1, <2>5, <2>6, <2>7, <2>9
      DEF Write, WinClaim, LoseClaim, RecordClaim, WriteWarmReply, WriteOpenPoolRelease,
          WritePortalRelease, WriteColdDisposition, WriteInteraction, WritePortalDisposition,
          WritePortalCallback, WriteAgentDnc, WriteDncRoute, WriteCloseWon, Finish
    <2>10. CASE Abandon(r)
      BY <2>4, <2>10 DEF Abandon
    <2>11. ~Between /\ ~(UNCHANGED vars)
      BY <1>1, <2>1, BetweenReadAndWrite DEF vars
    <2> QED  BY <1>1, <2>8, <2>9, <2>10, <2>11 DEF Next, Between
  <1>2. TypeOK /\ CurrentInv /\ [Next]_vars =>
          [\A r \in Requests : RelayWrites(r) =>
             LET l == request[r].lead IN
             lead[l].lifecycle = "CLOSED_WON" => lead'[l].lifecycle = "CLOSED_WON"]_vars
    BY <1>1
  <1>3. Spec => [](TypeOK /\ CurrentInv)
    BY ReadsAreCurrent
  <1> QED  BY <1>2, <1>3, PTL DEF Spec, RelaysKeepClosedWon

-----------------------------------------------------------------------------
(* While requests do not overlap and the review page is not used *)

\* What a write relies on besides CurrentInv: a disposition is written on a Lead
\* that is not suppressed, and an appointment that read an available Lead is
\* written on an unowned one.
UnreviewedInv ==
  /\ OwnedIsNotAvailable
  /\ \A r \in Requests :
       LET q == request[r] IN
       /\ q.op \in {"coldDisposition", "interaction"} => ~lead[q.lead].suppressed
       /\ q.op = "appointment" /\ q.seen.lifecycle = "AVAILABLE" =>
            lead[q.lead].owner = NoAgent

\* What a step does to a Lead it may change
Marked(l) ==
  /\ lead[l].suppressed => lead'[l].suppressed
  /\ lead[l].twoWay => lead'[l].twoWay
  /\ lead'[l].owner # NoAgent => lead'[l].lifecycle # "AVAILABLE"

\* An owned Lead's disposition never makes it available.
LEMMA OwnedLifecycles ==
  \A d : /\ LifecycleFor(d) # "AVAILABLE"
         /\ ColdLifecycleFor(d) \in Lifecycles
  BY VocabularyType DEF LifecycleFor

\* A write keeps the marks of its Lead, and leaves it unowned if available.
LEMMA WriteMarked ==
  ASSUME TypeOK, CurrentInv, UnreviewedInv, NEW r \in Requests, Write(r), NEW l \in Leads
  PROVE  Marked(l)
  <1> DEFINE q == request[r]
  <1>1. lead \in [Leads -> LeadRow] /\ q \in Pending /\ q.lead \in Leads
    BY WritesItsLead, ServedRequest DEF TypeOK
  <1>2. lead[l].owner # NoAgent => lead[l].lifecycle # "AVAILABLE"
    BY DEF UnreviewedInv, OwnedIsNotAvailable
  <1>3. ASSUME l # q.lead \/ lead'[l] = lead[l] PROVE Marked(l)
    BY <1>2, <1>3, WritesItsLead DEF Marked
  <1>4. /\ q.op = "coldDisposition" => lead[q.lead].owner = NoAgent
        /\ q.op \in {"coldDisposition", "interaction", "portalDisposition", "appointment"} =>
             (lead[q.lead].twoWay => q.seen.twoWay)
    BY DEF CurrentInv
  <1>5. /\ q.op \in {"coldDisposition", "interaction"} => ~lead[q.lead].suppressed
        /\ q.op = "appointment" /\ q.seen.lifecycle = "AVAILABLE" => lead[q.lead].owner = NoAgent
    BY DEF UnreviewedInv
  <1>6. CASE WinClaim(r)
    BY <1>1, <1>3, <1>6 DEF WinClaim, Marked, LeadRow
  <1>7. CASE WriteWarmReply(r)
    BY <1>1, <1>3, <1>7 DEF WriteWarmReply, Marked, LeadRow
  <1>8. CASE WriteOpenPoolRelease(r) \/ WritePortalRelease(r)
    BY <1>1, <1>3, <1>8 DEF WriteOpenPoolRelease, Returned, WritePortalRelease, Marked, LeadRow
  <1>9. CASE WriteColdDisposition(r)
    <2>1. PICK d \in Dispositions :
             lead' = [lead EXCEPT ![q.lead] =
               [@ EXCEPT !.pool = ColdPoolFor(d),
                         !.lifecycle = ColdLifecycleFor(d),
                         !.twoWay = Contacted(q.seen, d, TwoWayDispositions),
                         !.suppressed = InvalidContact(d)]]
      BY <1>9 DEF WriteColdDisposition
    <2>2. q.op = "coldDisposition"
      BY <1>9 DEF WriteColdDisposition, Finish
    <2>3. lead[q.lead].twoWay => Contacted(q.seen, d, TwoWayDispositions)
      BY <1>4, <2>2 DEF Contacted
    <2> QED  BY <1>1, <1>3, <1>4, <1>5, <2>1, <2>2, <2>3 DEF Marked, LeadRow
  <1>10. CASE WriteInteraction(r)
    <2>1. PICK d \in Dispositions :
             lead' = [lead EXCEPT ![q.lead] =
               [@ EXCEPT !.lifecycle = LifecycleFor(d),
                         !.twoWay = Contacted(q.seen, d, TwoWayDispositions),
                         !.suppressed = InvalidContact(d)]]
      BY <1>10 DEF WriteInteraction
    <2>2. q.op = "interaction"
      BY <1>10 DEF WriteInteraction, Finish
    <2>3. lead[q.lead].twoWay => Contacted(q.seen, d, TwoWayDispositions)
      BY <1>4, <2>2 DEF Contacted
    <2> QED  BY <1>1, <1>3, <1>5, <2>1, <2>2, <2>3, OwnedLifecycles DEF Marked, LeadRow
  <1>11. CASE WritePortalDisposition(r)
    <2>1. PICK d \in Dispositions : \E timer \in PortalTimers(d, q.seen) :
             lead' = [lead EXCEPT ![q.lead] =
               [@ EXCEPT !.lifecycle = IF d = "DEMO_BOOKED" THEN d ELSE "CONTACTED",
                         !.twoWay = Contacted(q.seen, d, PortalTwoWayDispositions),
                         !.timer = timer]]
      BY <1>11 DEF WritePortalDisposition
    <2>2. q.op = "portalDisposition"
      BY <1>11 DEF WritePortalDisposition, Finish
    <2>3. lead[q.lead].twoWay => Contacted(q.seen, d, PortalTwoWayDispositions)
      BY <1>4, <2>2 DEF Contacted
    <2> QED  BY <1>1, <1>3, <2>1, <2>3 DEF Marked, LeadRow
  <1>12. CASE WriteAgentDnc(r) \/ WriteDncRoute(r) \/ WriteCloseWon(r)
    <2>1. ASSUME WriteAgentDnc(r) PROVE Marked(l)
      BY <1>1, <1>3, <2>1 DEF WriteAgentDnc, Marked, LeadRow
    <2>2. ASSUME WriteDncRoute(r) PROVE Marked(l)
      BY <1>1, <1>3, <2>2 DEF WriteDncRoute, Marked, LeadRow
    <2>3. ASSUME WriteCloseWon(r) PROVE Marked(l)
      BY <1>1, <1>3, <2>3 DEF WriteCloseWon, Marked, LeadRow
    <2> QED  BY <1>12, <2>1, <2>2, <2>3
  <1>13. CASE WriteReply(r)
    <2>1. ReplyLifecycle(q.seen) # "AVAILABLE"
      BY DEF ReplyLifecycle
    <2> QED  BY <1>1, <1>3, <1>13, <2>1 DEF WriteReply, Marked, LeadRow
  <1>14. CASE WriteOpportunity(r)
    <2>1. \A event : OpportunityLifecycle(event, q.seen) # "AVAILABLE"
      BY DEF OpportunityLifecycle
    <2> QED  BY <1>1, <1>3, <1>14, <2>1 DEF WriteOpportunity, Marked, LeadRow
  <1>15. CASE WriteAppointment(r)
    <2>1. PICK event \in AppointmentEvents :
             lead' = [lead EXCEPT ![q.lead] =
               [@ EXCEPT !.lifecycle = AppointmentLifecycle(event, q.seen),
                         !.twoWay = Contacted(q.seen, event, Booked)]]
      BY <1>15 DEF WriteAppointment
    <2>2. q.op = "appointment"
      BY <1>15 DEF WriteAppointment, Finish
    <2>3. lead[q.lead].twoWay => Contacted(q.seen, event, Booked)
      BY <1>4, <2>2 DEF Contacted
    <2>4. AppointmentLifecycle(event, q.seen) = "AVAILABLE" => q.seen.lifecycle = "AVAILABLE"
      BY DEF AppointmentLifecycle
    <2> QED  BY <1>1, <1>3, <1>5, <2>1, <2>2, <2>3, <2>4 DEF Marked, LeadRow
  <1>16. CASE LoseClaim(r) \/ RecordClaim(r) \/ WritePortalCallback(r)
    BY <1>3, <1>16 DEF LoseClaim, RecordClaim, WritePortalCallback
  <1> QED
    BY <1>6, <1>7, <1>8, <1>9, <1>10, <1>11, <1>12, <1>13, <1>14, <1>15, <1>16 DEF Write

\* Neither the sweep nor time lifts a mark or gives an available Lead an owner.
LEMMA BetweenMarked ==
  ASSUME TypeOK, UnreviewedInv, "review" \notin Handlers, Between, NEW l \in Leads
  PROVE  /\ Marked(l)
         /\ lead'[l].suppressed = lead[l].suppressed
  <1>1. lead \in [Leads -> LeadRow]
    BY DEF TypeOK
  <1>2. lead[l].owner # NoAgent => lead[l].lifecycle # "AVAILABLE"
    BY DEF UnreviewedInv, OwnedIsNotAvailable
  <1>3. ~Review(l) /\ \A m \in Leads : ~Review(m)
    BY DEF Review, Approve, Disqualify, Suppress
  <1>4. ASSUME NEW m \in Leads, Age(m)
        PROVE  Marked(l) /\ lead'[l].suppressed = lead[l].suppressed
    BY <1>1, <1>2, <1>4 DEF Age, Marked, LeadRow
  <1>5. CASE ReadSweep
    BY <1>2, <1>5 DEF ReadSweep, Marked
  <1>6. CASE WriteSweep
    <2>1. lead[l] \in LeadRow
      BY <1>1
    <2>2. CASE lead'[l] = Returned(lead[l])
      BY <2>1, <2>2 DEF Returned, Marked, LeadRow
    <2>3. CASE lead'[l] = [lead[l] EXCEPT !.pool = "SHARK_TANK"] \/ lead'[l] = lead[l]
      BY <1>2, <2>1, <2>3 DEF Marked, LeadRow
    <2> QED  BY <1>6, <2>2, <2>3 DEF WriteSweep
  <1> QED  BY <1>3, <1>4, <1>5, <1>6 DEF Between

LEMMA UnreviewedStepwise ==
  ASSUME NEW r0, Requests = {r0}, "review" \notin Handlers,
         TypeOK, CurrentInv, UnreviewedInv, [Next]_vars
  PROVE  UnreviewedInv'
  <1>1. request \in [Requests -> Pending \union {Idle}] /\ lead \in [Leads -> LeadRow]
    BY DEF TypeOK
  <1> DEFINE Relied ==
        LET q == request[r0] IN
        /\ q.op \in {"coldDisposition", "interaction"} => ~lead[q.lead].suppressed
        /\ q.op = "appointment" /\ q.seen.lifecycle = "AVAILABLE" =>
             lead[q.lead].owner = NoAgent
  <1>2. OwnedIsNotAvailable /\ Relied
    BY DEF UnreviewedInv
  <1>3. ASSUME OwnedIsNotAvailable', Relied' PROVE UnreviewedInv'
    BY <1>3 DEF UnreviewedInv
  <1>4. ASSUME lead' = lead PROVE OwnedIsNotAvailable'
    BY <1>2, <1>4 DEF OwnedIsNotAvailable
  <1>5. ASSUME \A l \in Leads : Marked(l) PROVE OwnedIsNotAvailable'
    BY <1>5 DEF Marked, OwnedIsNotAvailable
  <1>6. ASSUME request'[r0].op \in {"idle", "recordClaim"} PROVE Relied'
    BY <1>6
  <1>7. CASE Read(r0)
    <2>1. PICK op, l, a, seen :
             l \in Leads /\ a \in Owners /\ Serve(r0, op, l, a, seen) /\ Fresh(op, l, a, seen)
      BY <1>7, ReadsAreFresh
    <2>2. lead' = lead
            /\ request'[r0] = [op |-> op, lead |-> l, agent |-> a, seen |-> seen]
      BY <1>1, <2>1 DEF Serve
    <2>3. op \in {"coldDisposition", "interaction"} => ~lead[l].suppressed
      BY <2>1 DEF Fresh, Blocked, PortalHandlers
    <2>4. op = "appointment" /\ seen.lifecycle = "AVAILABLE" => lead[l].owner = NoAgent
      BY <1>2, <2>1 DEF Fresh, OwnedIsNotAvailable
    <2>5. Relied'
      BY <2>2, <2>3, <2>4
    <2> QED  BY <1>3, <1>4, <2>2, <2>5
  <1>8. CASE Write(r0)
    <2>1. request[r0] \in Pending
      BY <1>1, <1>8, WritesItsLead
    <2>2. [request[r0] EXCEPT !.op = "recordClaim", !.seen = Nothing].op = "recordClaim"
      BY <2>1 DEF Pending
    <2>3. \/ request'[r0] = Idle
          \/ request'[r0] = [request[r0] EXCEPT !.op = "recordClaim", !.seen = Nothing]
      BY <1>8, WritesItsLead
    <2>4. Idle.op = "idle"
      BY DEF Idle
    <2>5. request'[r0].op \in {"idle", "recordClaim"}
      BY <2>2, <2>3, <2>4
    <2> QED  BY <1>3, <1>5, <1>6, <1>8, <2>5, WriteMarked
  <1>9. CASE Abandon(r0)
    BY <1>1, <1>3, <1>4, <1>6, <1>9 DEF Abandon, Idle
  <1>10. CASE Between
    <2>1. request'[r0] = request[r0]
      BY <1>10, BetweenReadAndWrite
    <2>2. CASE request[r0] = Idle
      BY <1>3, <1>5, <1>6, <1>10, <2>1, <2>2, BetweenMarked DEF Idle
    <2>3. CASE request[r0] # Idle
      <3>1. request[r0].lead \in Leads
        BY <2>3, ServedRequest
      <3>2. /\ lead'[request[r0].lead].owner \in {lead[request[r0].lead].owner, NoAgent}
            /\ lead'[request[r0].lead].suppressed = lead[request[r0].lead].suppressed
        BY <1>10, <3>1, BetweenReadAndWrite, BetweenMarked
      <3>3. Relied'
        BY <1>2, <2>1, <3>2
      <3> QED  BY <1>3, <1>5, <1>10, <3>3, BetweenMarked
    <2> QED  BY <2>2, <2>3
  <1>11. CASE UNCHANGED vars
    BY <1>2, <1>3, <1>4, <1>11 DEF vars
  <1> QED  BY <1>7, <1>8, <1>9, <1>10, <1>11 DEF Next, Between

LEMMA UnreviewedInvariant ==
  ASSUME NEW r0, Requests = {r0}, "review" \notin Handlers
  PROVE  Spec => [](TypeOK /\ CurrentInv /\ UnreviewedInv)
  <1>1. Init => UnreviewedInv
    BY DEF Init, UnreviewedInv, OwnedIsNotAvailable, Idle
  <1>2. TypeOK /\ CurrentInv /\ UnreviewedInv /\ [Next]_vars => UnreviewedInv'
    BY UnreviewedStepwise
  <1>3. Spec => [](TypeOK /\ CurrentInv)
    BY ReadsAreCurrent
  <1> QED  BY <1>1, <1>2, <1>3, PTL DEF Spec

\* While requests do not overlap and no one approves an owned Lead again, an
\* owned Lead is never on the list of available Leads.
THEOREM OwnedLeadsAreWithdrawn ==
  ASSUME NEW r0, Requests = {r0}, "review" \notin Handlers
  PROVE  Spec => []OwnedIsNotAvailable
  <1>1. Spec => [](TypeOK /\ CurrentInv /\ UnreviewedInv)
    BY UnreviewedInvariant
  <1>2. UnreviewedInv => OwnedIsNotAvailable
    BY DEF UnreviewedInv
  <1> QED  BY <1>1, <1>2, PTL

\* While requests do not overlap, nothing lifts a suppression or forgets a
\* two-way contact, although dispositions write both back from their reads.
THEOREM MarksAreKept ==
  ASSUME NEW r0, Requests = {r0}, "review" \notin Handlers
  PROVE  Spec => MarksStick
  <1>1. ASSUME TypeOK, CurrentInv, UnreviewedInv, [Next]_vars, NEW l \in Leads
        PROVE  /\ lead[l].suppressed => lead'[l].suppressed
               /\ lead[l].twoWay => lead'[l].twoWay
    <2>1. CASE Read(r0)
      <3>1. lead' = lead
        BY <1>1, <2>1, ReadsAreFresh DEF Serve
      <3> QED  BY <3>1
    <2>2. CASE Write(r0)
      BY <1>1, <2>2, WriteMarked DEF Marked
    <2>3. CASE Abandon(r0)
      BY <2>3 DEF Abandon
    <2>4. CASE Between
      BY <1>1, <2>4, BetweenMarked DEF Marked
    <2>5. CASE UNCHANGED vars
      BY <2>5 DEF vars
    <2> QED  BY <1>1, <2>1, <2>2, <2>3, <2>4, <2>5 DEF Next, Between
  <1>2. TypeOK /\ CurrentInv /\ UnreviewedInv /\ [Next]_vars =>
          [\A l \in Leads :
             /\ lead[l].suppressed => lead'[l].suppressed
             /\ lead[l].twoWay => lead'[l].twoWay]_vars
    BY <1>1
  <1>3. Spec => [](TypeOK /\ CurrentInv /\ UnreviewedInv)
    BY UnreviewedInvariant
  <1> QED  BY <1>2, <1>3, PTL DEF Spec, MarksStick

=============================================================================
