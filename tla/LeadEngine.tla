----------------------------- MODULE LeadEngine -----------------------------
(***************************************************************************)
(* The Lead engine: every server action, route and cron job that changes a *)
(* Lead's owner, lifecycle, pool or suppression.  The database runs at     *)
(* READ COMMITTED and a handler is a read, an await, and a transaction, so *)
(* a handler is modelled by two steps: one that reads and checks, keeping  *)
(* in request[r].seen what the write will use, and one that writes.  Any   *)
(* other handler may write in between.                                     *)
(***************************************************************************)
EXTENDS LeadVocabulary, FiniteSets, Integers

CONSTANTS
  Leads,       \* Lead ids
  Agents,      \* certified agents: canClaimLeads, status ACTIVE
  NoAgent,     \* a null agent id; as the actor of a request, an admin
  Referrals,   \* Leads created with isReferral = true
  Requests,    \* slots for requests served at the same time
  Handlers,    \* the handlers an instance of the model serves
  Capacity,    \* LEAD_CLAIM_CAPACITY
  SweepLimit   \* batch limit of the aging sweep

HandlerNames == {"claim", "openPoolRelease", "portalRelease", "coldDisposition",
                 "interaction", "agentDnc", "dncRoute", "portalCallback",
                 "portalDisposition", "review", "closeWon", "warmReply",
                 "reply", "opportunity", "appointment", "sweep"}

ASSUME ConstantsOK ==
  /\ NoAgent \notin Agents
  /\ IsFiniteSet(Leads)
  /\ Referrals \subseteq Leads
  /\ Handlers \subseteq HandlerNames
  /\ Capacity \in Nat \ {0}
  /\ SweepLimit \in Nat \ {0}

VARIABLES
  lead,        \* the Lead rows
  scheduled,   \* per Lead, whose SCHEDULED callbacks exist (NoAgent: agentId null)
  request,     \* the requests in flight
  sweep,       \* what the aging sweep read and has not written yet
  assigned     \* Leads that an agent has owned (history)

vars == <<lead, scheduled, request, sweep, assigned>>

-----------------------------------------------------------------------------
(* Types *)

\* openPoolReleaseAt: null, in the future, past, or past by 21 days or more
Timers == {"none", "running", "due", "stale"}

Owners == Agents \union {NoAgent}

LeadRow == [owner: Owners, lifecycle: Lifecycles, pool: Pools, dnc: BOOLEAN,
            suppressed: BOOLEAN, twoWay: BOOLEAN, timer: Timers]

\* What a handler keeps from its read because its write depends on it
Snapshot == [owner: Owners, lifecycle: Lifecycles, pool: Pools,
             twoWay: BOOLEAN, timer: Timers, callback: SUBSET Owners]

Nothing == [owner |-> NoAgent, lifecycle |-> "RAW", pool |-> "COLD",
            twoWay |-> FALSE, timer |-> "none", callback |-> {}]

Pending == [op: HandlerNames \union {"recordClaim"}, lead: Leads,
            agent: Owners, seen: Snapshot]

Idle == [op |-> "idle"]

NoSweep == [expired |-> {}, stalled |-> {}]

TypeOK ==
  /\ lead \in [Leads -> LeadRow]
  /\ scheduled \in [Leads -> SUBSET Owners]
  /\ request \in [Requests -> Pending \union {Idle}]
  /\ sweep \in [expired: SUBSET Leads, stalled: SUBSET Leads]
  /\ assigned \subseteq Leads

\* Imports create Leads for review, unowned, in the pool of their source.
Init ==
  /\ lead = [l \in Leads |->
               [owner |-> NoAgent, lifecycle |-> "PENDING_REVIEW",
                pool |-> IF l \in Referrals THEN "REFERRAL" ELSE "COLD",
                dnc |-> FALSE, suppressed |-> FALSE, twoWay |-> FALSE,
                timer |-> "none"]]
  /\ scheduled = [l \in Leads |-> {}]
  /\ request = [r \in Requests |-> Idle]
  /\ sweep = NoSweep
  /\ assigned = {}

-----------------------------------------------------------------------------
(* Requests *)

Blocked(l) == lead[l].dnc \/ lead[l].suppressed

\* An agent reaches the portal's routes for Leads it owns, an admin for all.
MayAccess(a, l) == a = NoAgent \/ lead[l].owner = a

\* The read of handler op, on behalf of agent a, about Lead l.
Serve(r, op, l, a, seen) ==
  /\ op \in Handlers
  /\ request[r] = Idle
  /\ request' = [request EXCEPT
                   ![r] = [op |-> op, lead |-> l, agent |-> a, seen |-> seen]]
  /\ UNCHANGED <<lead, scheduled, sweep, assigned>>

\* The end of handler op.
Finish(r, op) ==
  /\ request[r].op = op
  /\ request' = [request EXCEPT ![r] = Idle]

\* The function dies, or its transaction is rolled back, before the write.
Abandon(r) ==
  /\ request[r] # Idle
  /\ request' = [request EXCEPT ![r] = Idle]
  /\ UNCHANGED <<lead, scheduled, sweep, assigned>>

-----------------------------------------------------------------------------
(* claimAvailableLead *)

ActiveLeads(a) ==
  {l \in Leads : /\ lead[l].owner = a
                 /\ lead[l].lifecycle \in CapacityLifecycles
                 /\ ~Blocked(l)}

ClaimEligible(l) ==
  /\ lead[l].owner = NoAgent
  /\ lead[l].lifecycle \in {"CONTACTED", "NURTURING", "DEMO_BOOKED"}
  /\ lead[l].pool \in {"HOT", "NURTURE"}
  /\ lead[l].twoWay
  /\ ~Blocked(l)

\* Mutant: the capacity is compared with > instead of >=.
ReadClaimAtCapacity(r, a, l) ==
  /\ Cardinality(ActiveLeads(a)) <= Capacity
  /\ ClaimEligible(l)
  /\ Serve(r, "claim", l, a, [Nothing EXCEPT !.lifecycle = lead[l].lifecycle,
                                             !.pool = lead[l].pool])

ReadClaim(r, a, l) ==
  /\ Cardinality(ActiveLeads(a)) < Capacity
  /\ ClaimEligible(l)
  /\ Serve(r, "claim", l, a, [Nothing EXCEPT !.lifecycle = lead[l].lifecycle,
                                             !.pool = lead[l].pool])

\* Mutant: the compare-and-set trusts the read for the owner.
ClaimMatchesAnyOwner(l, seen) ==
  /\ lead[l].pool = seen.pool
  /\ lead[l].twoWay
  /\ ~Blocked(l)

\* The where clause of the compare-and-set updateMany
ClaimMatches(l, seen) ==
  /\ lead[l].owner = NoAgent
  /\ lead[l].lifecycle = seen.lifecycle
  /\ lead[l].pool = seen.pool
  /\ lead[l].twoWay
  /\ ~Blocked(l)

\* The updateMany commits on its own, before the transaction of its evidence.
WinClaim(r) ==
  LET q == request[r] IN
  /\ q.op = "claim"
  /\ ClaimMatches(q.lead, q.seen)
  /\ lead' = [lead EXCEPT ![q.lead] = [@ EXCEPT !.owner = q.agent,
                                                !.lifecycle = "CLAIMED",
                                                !.timer = "running"]]
  /\ assigned' = assigned \union {q.lead}
  /\ request' = [request EXCEPT ![r] = [q EXCEPT !.op = "recordClaim",
                                                 !.seen = Nothing]]
  /\ UNCHANGED <<scheduled, sweep>>

LoseClaim(r) ==
  /\ Finish(r, "claim")
  /\ ~ClaimMatches(request[r].lead, request[r].seen)
  /\ UNCHANGED <<lead, scheduled, sweep, assigned>>

\* The claim event, the activity and the audit row, which no guard reads
RecordClaim(r) ==
  /\ Finish(r, "recordClaim")
  /\ UNCHANGED <<lead, scheduled, sweep, assigned>>

-----------------------------------------------------------------------------
(* assignWarmReply: an admin gives an answered, unowned Lead to an agent *)

WarmLifecycles == {"AVAILABLE", "DEMO_BOOKED"} \union AgingLifecycles

\* Mutant: triage takes the lifecycle as evidence of a contact.
WarmReplyMatchesUncontacted(l) ==
  /\ lead[l].owner = NoAgent
  /\ ~Blocked(l)
  /\ lead[l].lifecycle \in WarmLifecycles

WarmReplyMatches(l) ==
  /\ lead[l].owner = NoAgent
  /\ ~Blocked(l)
  /\ lead[l].twoWay
  /\ lead[l].lifecycle \in WarmLifecycles

ReadWarmReply(r, a, l) ==
  /\ WarmReplyMatches(l)
  /\ Serve(r, "warmReply", l, a, [Nothing EXCEPT !.lifecycle = lead[l].lifecycle,
                                                 !.pool = lead[l].pool])

WriteWarmReply(r) ==
  LET q == request[r] IN
  /\ Finish(r, "warmReply")
  /\ WarmReplyMatches(q.lead)
  /\ lead' = [lead EXCEPT ![q.lead] =
       [@ EXCEPT !.owner = q.agent,
                 !.lifecycle = IF q.seen.lifecycle = "DEMO_BOOKED"
                               THEN "DEMO_BOOKED" ELSE "CLAIMED",
                 !.pool = IF q.seen.pool = "COLD" THEN "HOT" ELSE q.seen.pool,
                 !.timer = "running"]]
  /\ scheduled' = [scheduled EXCEPT ![q.lead] = @ \union {q.agent}]
  /\ assigned' = assigned \union {q.lead}
  /\ UNCHANGED sweep

-----------------------------------------------------------------------------
(* Returns to the pool *)

\* Mutant: prior ownership is not checked.
OpenPoolEligibleUnowned(l) ==
  /\ ~Blocked(l)
  /\ l \notin Referrals
  /\ lead[l].pool # "REFERRAL"
  /\ lead[l].twoWay
  /\ lead[l].lifecycle \in AgingLifecycles

OpenPoolEligible(l) ==
  /\ ~Blocked(l)
  /\ l \notin Referrals
  /\ lead[l].pool # "REFERRAL"
  /\ lead[l].owner # NoAgent
  /\ lead[l].twoWay
  /\ lead[l].lifecycle \in AgingLifecycles

\* What a return to the Open Pool writes, whatever the row holds by then
Returned(row) == [row EXCEPT !.owner = NoAgent, !.lifecycle = "AVAILABLE",
                             !.pool = "OPEN", !.timer = "due"]

ReadOpenPoolRelease(r, l) ==
  /\ OpenPoolEligible(l)
  /\ Serve(r, "openPoolRelease", l, NoAgent, Nothing)

WriteOpenPoolRelease(r) ==
  /\ Finish(r, "openPoolRelease")
  /\ lead' = [lead EXCEPT ![request[r].lead] = Returned(@)]
  /\ UNCHANGED <<scheduled, sweep, assigned>>

ReadPortalRelease(r, a, l) ==
  /\ MayAccess(a, l)
  /\ lead[l].lifecycle \notin {"DEMO_BOOKED", "CLOSED_WON"}
  /\ Serve(r, "portalRelease", l, a, Nothing)

WritePortalRelease(r) ==
  /\ Finish(r, "portalRelease")
  /\ lead' = [lead EXCEPT ![request[r].lead] =
       [@ EXCEPT !.owner = NoAgent, !.lifecycle = "AVAILABLE", !.timer = "none"]]
  /\ UNCHANGED <<scheduled, sweep, assigned>>

-----------------------------------------------------------------------------
(* runLeadAgingSweep: the daily cron job *)

\* Mutant: referrals are recognised by their pool alone.
ClaimExpiredByPool(l) ==
  /\ lead[l].owner # NoAgent
  /\ lead[l].timer \in {"due", "stale"}
  /\ lead[l].lifecycle \in AgingLifecycles
  /\ ~Blocked(l)
  /\ lead[l].pool # "REFERRAL"

ClaimExpired(l) ==
  /\ lead[l].owner # NoAgent
  /\ lead[l].timer \in {"due", "stale"}
  /\ lead[l].lifecycle \in AgingLifecycles
  /\ ~Blocked(l)
  /\ l \notin Referrals
  /\ lead[l].pool # "REFERRAL"

OpenPoolStalled(l) ==
  /\ lead[l].owner = NoAgent
  /\ lead[l].pool = "OPEN"
  /\ lead[l].lifecycle = "AVAILABLE"
  /\ lead[l].timer = "stale"
  /\ ~Blocked(l)
  /\ l \notin Referrals

\* Mutant: one Lead fewer than the limit allows.
OldestButOne(n, S) ==
  {T \in SUBSET S :
     /\ Cardinality(T) = IF Cardinality(S) < n THEN Cardinality(S) ELSE n - 1
     /\ \A x \in T, y \in S \ T : lead[y].timer = "stale" => lead[x].timer = "stale"}

\* take n of the Leads in S, ordered by openPoolReleaseAt
Oldest(n, S) ==
  {T \in SUBSET S :
     /\ Cardinality(T) = IF Cardinality(S) < n THEN Cardinality(S) ELSE n
     /\ \A x \in T, y \in S \ T : lead[y].timer = "stale" => lead[x].timer = "stale"}

ReadSweep ==
  /\ "sweep" \in Handlers
  /\ sweep = NoSweep
  /\ \E expired \in Oldest(SweepLimit, {l \in Leads : ClaimExpired(l)}) :
     \E stalled \in Oldest(SweepLimit - Cardinality(expired),
                           {l \in Leads : OpenPoolStalled(l)}) :
       sweep' = [expired |-> expired, stalled |-> stalled]
  /\ UNCHANGED <<lead, scheduled, request, assigned>>

\* One transaction; each row is updated by id alone.
WriteSweep ==
  /\ sweep # NoSweep
  /\ lead' = [l \in Leads |->
       CASE l \in sweep.expired -> Returned(lead[l])
         [] l \in sweep.stalled -> [lead[l] EXCEPT !.pool = "SHARK_TANK"]
         [] OTHER               -> lead[l]]
  /\ sweep' = NoSweep
  /\ UNCHANGED <<scheduled, request, assigned>>

\* Time passes for a Lead's openPoolReleaseAt.
Age(l) ==
  /\ lead[l].timer \in {"running", "due"}
  /\ lead' = [lead EXCEPT ![l].timer = IF @ = "running" THEN "due" ELSE "stale"]
  /\ UNCHANGED <<scheduled, request, sweep, assigned>>

-----------------------------------------------------------------------------
(* Dispositions *)

ColdWorkable(l) ==
  /\ lead[l].owner = NoAgent
  /\ lead[l].pool \in {"COLD", "HOT", "NURTURE"}
  /\ lead[l].lifecycle \in {"AVAILABLE", "CONTACTED", "NURTURING"}
  /\ ~Blocked(l)

\* twoWayContactAt after an event: what was read, or now for a two-way contact
Contacted(seen, event, twoWay) == seen.twoWay \/ event \in twoWay

\* A wrong number or a closed business suppresses the Lead.
InvalidContact(d) == d \in InvalidContactDispositions

\* Callbacks of agent a after a disposition: its own are completed, and one
\* is created when a follow-up time came with a disposition that allows it.
Rescheduled(agents, a, follow) ==
  IF follow THEN agents \union {a} ELSE agents \ {a}

ReadColdDisposition(r, a, l) ==
  /\ ColdWorkable(l)
  /\ Serve(r, "coldDisposition", l, a, [Nothing EXCEPT !.twoWay = lead[l].twoWay])

\* suppressed is written with or without an invalid contact, and twoWayContactAt
\* is written back from the read when the disposition is not a contact.
WriteColdDisposition(r) ==
  LET q == request[r] IN
  /\ Finish(r, "coldDisposition")
  /\ \E d \in Dispositions, callback \in BOOLEAN :
       /\ d = "CALLBACK_REQUESTED" => callback
       /\ lead' = [lead EXCEPT ![q.lead] =
            [@ EXCEPT !.pool = ColdPoolFor(d),
                      !.lifecycle = ColdLifecycleFor(d),
                      !.twoWay = Contacted(q.seen, d, TwoWayDispositions),
                      !.suppressed = InvalidContact(d)]]
       /\ scheduled' = [scheduled EXCEPT ![q.lead] =
            Rescheduled(@, q.agent,
              callback /\ ColdLifecycleFor(d) \notin
                            {"DISQUALIFIED", "CLOSED_LOST", "DEMO_BOOKED"})]
  /\ UNCHANGED <<sweep, assigned>>

ReadInteraction(r, a, l) ==
  /\ lead[l].owner = a
  /\ ~Blocked(l)
  /\ Serve(r, "interaction", l, a, [Nothing EXCEPT !.twoWay = lead[l].twoWay])

WriteInteraction(r) ==
  LET q == request[r] IN
  /\ Finish(r, "interaction")
  /\ \E d \in Dispositions, callback \in BOOLEAN :
       /\ lead' = [lead EXCEPT ![q.lead] =
            [@ EXCEPT !.lifecycle = LifecycleFor(d),
                      !.twoWay = Contacted(q.seen, d, TwoWayDispositions),
                      !.suppressed = InvalidContact(d)]]
       /\ scheduled' = [scheduled EXCEPT ![q.lead] =
            Rescheduled(@, q.agent,
              callback /\ LifecycleFor(d) \notin
                            {"DISQUALIFIED", "CLOSED_LOST", "DEMO_BOOKED"})]
  /\ UNCHANGED <<sweep, assigned>>

ReadPortalDisposition(r, a, l) ==
  /\ MayAccess(a, l)
  /\ Serve(r, "portalDisposition", l, a, [Nothing EXCEPT !.twoWay = lead[l].twoWay,
                                                         !.timer = lead[l].timer])

\* twoWayContactAt + 45 days: in the future for a contact made now, anywhere
\* for one recorded earlier.
PortalTimers(d, seen) ==
  CASE d = "DEMO_BOOKED"                -> {"none"}
    [] d # "DEMO_BOOKED" /\ seen.twoWay -> {"running", "due", "stale"}
    [] d \in PortalTwoWayDispositions \ {"DEMO_BOOKED"} /\ ~seen.twoWay -> {"running"}
    [] OTHER                            -> {seen.timer}

WritePortalDisposition(r) ==
  LET q == request[r] IN
  /\ Finish(r, "portalDisposition")
  /\ \E d \in Dispositions : \E timer \in PortalTimers(d, q.seen) :
       lead' = [lead EXCEPT ![q.lead] =
         [@ EXCEPT !.lifecycle = IF d = "DEMO_BOOKED" THEN d ELSE "CONTACTED",
                   !.twoWay = Contacted(q.seen, d, PortalTwoWayDispositions),
                   !.timer = timer]]
  /\ UNCHANGED <<scheduled, sweep, assigned>>

ReadPortalCallback(r, a, l) ==
  /\ MayAccess(a, l)
  /\ Serve(r, "portalCallback", l, a, Nothing)

WritePortalCallback(r) ==
  LET q == request[r] IN
  /\ Finish(r, "portalCallback")
  /\ scheduled' = [scheduled EXCEPT ![q.lead] = @ \union {q.agent}]
  /\ UNCHANGED <<lead, sweep, assigned>>

-----------------------------------------------------------------------------
(* Do-not-contact and suppression *)

ReadAgentDnc(r, a, l) ==
  /\ ~Blocked(l)
  /\ lead[l].owner \in {a, NoAgent}
  /\ Serve(r, "agentDnc", l, a, Nothing)

\* suppressLeadForDnc leaves the owner on the row.
WriteAgentDnc(r) ==
  LET l == request[r].lead IN
  /\ Finish(r, "agentDnc")
  /\ lead' = [lead EXCEPT ![l] = [@ EXCEPT !.lifecycle = "SUPPRESSED", !.dnc = TRUE,
                                           !.suppressed = TRUE, !.timer = "none"]]
  /\ scheduled' = [scheduled EXCEPT ![l] = {}]
  /\ UNCHANGED <<sweep, assigned>>

ReadDncRoute(r, a, l) ==
  /\ MayAccess(a, l)
  /\ Serve(r, "dncRoute", l, a, Nothing)

\* The portal's DNC route clears the owner and leaves the callbacks.
WriteDncRoute(r) ==
  /\ Finish(r, "dncRoute")
  /\ lead' = [lead EXCEPT ![request[r].lead] =
       [@ EXCEPT !.owner = NoAgent, !.lifecycle = "SUPPRESSED", !.dnc = TRUE,
                 !.suppressed = TRUE, !.timer = "none"]]
  /\ UNCHANGED <<scheduled, sweep, assigned>>

\* The review page: its read only checks that the Lead exists, so each of its
\* three decisions is one step.
Approve(l, pool) ==
  /\ "review" \in Handlers
  /\ lead' = [lead EXCEPT ![l] = [@ EXCEPT !.lifecycle = "AVAILABLE", !.pool = pool,
                                           !.timer = "none"]]
  /\ UNCHANGED <<scheduled, request, sweep, assigned>>

Disqualify(l) ==
  /\ "review" \in Handlers
  /\ lead' = [lead EXCEPT ![l].lifecycle = "DISQUALIFIED"]
  /\ UNCHANGED <<scheduled, request, sweep, assigned>>

Suppress(l) ==
  /\ "review" \in Handlers
  /\ lead' = [lead EXCEPT ![l] = [@ EXCEPT !.owner = NoAgent,
                                           !.lifecycle = "SUPPRESSED",
                                           !.suppressed = TRUE, !.timer = "none"]]
  /\ scheduled' = [scheduled EXCEPT ![l] = {}]
  /\ UNCHANGED <<request, sweep, assigned>>

-----------------------------------------------------------------------------
(* Closing, by an admin or by a GHL event *)

ReadCloseWon(r, l) ==
  /\ ~Blocked(l)
  /\ lead[l].lifecycle = "DEMO_BOOKED"
  /\ Serve(r, "closeWon", l, NoAgent, Nothing)

WriteCloseWon(r) ==
  /\ Finish(r, "closeWon")
  /\ lead' = [lead EXCEPT ![request[r].lead].lifecycle = "CLOSED_WON"]
  /\ UNCHANGED <<scheduled, sweep, assigned>>

\* Mutant: the read does not select twoWayContactAt.
MatchedNoContact(l) == [Nothing EXCEPT !.owner = lead[l].owner,
                                       !.lifecycle = lead[l].lifecycle,
                                       !.callback = {lead[l].owner} \intersect scheduled[l]]

\* What the attribution of a GHL event keeps of the Lead it matched
Matched(l) == [Nothing EXCEPT !.owner = lead[l].owner,
                              !.lifecycle = lead[l].lifecycle,
                              !.twoWay = lead[l].twoWay,
                              !.callback = {lead[l].owner} \intersect scheduled[l]]

\* The owner gets a callback unless it had one; an existing one is expedited,
\* which leaves its status alone.
OwnerCallback(l, seen) ==
  scheduled' = [scheduled EXCEPT ![l] =
    IF seen.owner = NoAgent \/ seen.callback # {} THEN @ ELSE @ \union {seen.owner}]

\* A terminal lifecycle and a booked demo survive a reply.
ReplyLifecycle(seen) ==
  IF seen.lifecycle \in {"CLOSED_WON", "CLOSED_LOST", "DISQUALIFIED", "DEMO_BOOKED"}
  THEN seen.lifecycle ELSE "CONTACTED"

\* Mutant: a reply to a DNC or suppressed Lead is handled like any other.
ReadReplyBlocked(r, l) == Serve(r, "reply", l, NoAgent, Matched(l))

ReadReply(r, l) ==
  /\ ~Blocked(l)
  /\ Serve(r, "reply", l, NoAgent, Matched(l))

WriteReply(r) ==
  LET q == request[r] IN
  /\ Finish(r, "reply")
  /\ lead' = [lead EXCEPT ![q.lead] = [@ EXCEPT !.lifecycle = ReplyLifecycle(q.seen),
                                                !.twoWay = TRUE]]
  /\ OwnerCallback(q.lead, q.seen)
  /\ UNCHANGED <<sweep, assigned>>

ReadOpportunity(r, l) ==
  /\ ~Blocked(l)
  /\ Serve(r, "opportunity", l, NoAgent,
           [Nothing EXCEPT !.lifecycle = lead[l].lifecycle])

\* A lost opportunity is ignored if the Lead was Closed Won when it was read.
PreservesWon(event, seen) ==
  event = "OPPORTUNITY_LOST" /\ seen.lifecycle = "CLOSED_WON"

OpportunityLifecycle(event, seen) ==
  IF event = "OPPORTUNITY_WON" \/ PreservesWon(event, seen)
  THEN "CLOSED_WON" ELSE "CLOSED_LOST"

WriteOpportunity(r) ==
  LET q == request[r] IN
  /\ Finish(r, "opportunity")
  /\ \E event \in OpportunityEvents :
       /\ lead' = [lead EXCEPT ![q.lead].lifecycle = OpportunityLifecycle(event, q.seen)]
       /\ scheduled' = [scheduled EXCEPT ![q.lead] =
            IF PreservesWon(event, q.seen) THEN @ ELSE {}]
  /\ UNCHANGED <<sweep, assigned>>

ReadAppointment(r, l) ==
  /\ ~Blocked(l)
  /\ Serve(r, "appointment", l, NoAgent, Matched(l))

\* Mutant: a cancelled or missed appointment reopens a Closed Won Lead.
AppointmentLifecycleReopens(event, seen) ==
  CASE event \in Recovery                                    -> "CONTACTED"
    [] event \in Booked /\ seen.lifecycle # "CLOSED_WON"     -> "DEMO_BOOKED"
    [] OTHER                                                  -> seen.lifecycle

\* Booking and recovery events are ignored if the Lead was Closed Won when it
\* was read; a completed appointment writes back the lifecycle it read.
AppointmentLifecycle(event, seen) ==
  CASE event \in Booked /\ seen.lifecycle # "CLOSED_WON"     -> "DEMO_BOOKED"
    [] event \in Recovery /\ seen.lifecycle # "CLOSED_WON"   -> "CONTACTED"
    [] OTHER                                                  -> seen.lifecycle

WriteAppointment(r) ==
  LET q == request[r] IN
  /\ Finish(r, "appointment")
  /\ \E event \in AppointmentEvents :
       /\ lead' = [lead EXCEPT ![q.lead] =
            [@ EXCEPT !.lifecycle = AppointmentLifecycle(event, q.seen),
                      !.twoWay = Contacted(q.seen, event, Booked)]]
       /\ IF event \in Recovery /\ q.seen.lifecycle # "CLOSED_WON"
          THEN OwnerCallback(q.lead, q.seen)
          ELSE UNCHANGED scheduled
  /\ UNCHANGED <<sweep, assigned>>

-----------------------------------------------------------------------------
(* The system *)

Read(r) ==
  \E l \in Leads :
    \/ ReadOpenPoolRelease(r, l) \/ ReadCloseWon(r, l)
    \/ ReadReply(r, l) \/ ReadOpportunity(r, l) \/ ReadAppointment(r, l)
    \/ \E a \in Agents :
         \/ ReadClaim(r, a, l) \/ ReadWarmReply(r, a, l) \/ ReadAgentDnc(r, a, l)
         \/ ReadColdDisposition(r, a, l) \/ ReadInteraction(r, a, l)
    \/ \E a \in Owners :
         \/ ReadPortalRelease(r, a, l) \/ ReadDncRoute(r, a, l)
         \/ ReadPortalDisposition(r, a, l) \/ ReadPortalCallback(r, a, l)

Write(r) ==
  \/ WinClaim(r) \/ LoseClaim(r) \/ RecordClaim(r) \/ WriteWarmReply(r)
  \/ WriteOpenPoolRelease(r) \/ WritePortalRelease(r)
  \/ WriteColdDisposition(r) \/ WriteInteraction(r)
  \/ WritePortalDisposition(r) \/ WritePortalCallback(r)
  \/ WriteAgentDnc(r) \/ WriteDncRoute(r) \/ WriteCloseWon(r)
  \/ WriteReply(r) \/ WriteOpportunity(r) \/ WriteAppointment(r)

Review(l) == Disqualify(l) \/ Suppress(l)
             \/ \E pool \in Pools \ ReturnPools : Approve(l, pool)

Next ==
  \/ \E r \in Requests : Read(r) \/ Write(r) \/ Abandon(r)
  \/ \E l \in Leads : Review(l) \/ Age(l)
  \/ ReadSweep \/ WriteSweep

Spec == Init /\ [][Next]_vars

\* The cron job runs every day: what it read is written, and a sweep starts
\* whenever there is something to do.
FairSpec == Spec /\ WF_vars(ReadSweep) /\ WF_vars(WriteSweep)

-----------------------------------------------------------------------------
(* Properties that hold whatever the interleaving *)

\* No handler takes a Lead from one agent and gives it to another in one
\* write, however stale its read: a Lead changes hands through being unowned.
OwnershipNeverStolen ==
  [][\A l \in Leads : lead[l].owner # NoAgent =>
        lead'[l].owner \in {lead[l].owner, NoAgent}]_vars

\* A Lead is acquired, by claim or by triage, only in a state in which it has
\* a recorded two-way contact and is neither DNC nor suppressed.
AcquiredOnlyAfterContact ==
  [][\A l \in Leads :
        (lead[l].owner = NoAgent /\ lead'[l].owner # NoAgent) =>
           lead[l].twoWay /\ ~lead[l].dnc /\ ~lead[l].suppressed]_vars

\* Only Leads that an agent has owned are in the Open Pool or the Shark Tank:
\* no import, approval or late write puts any other Lead there.
OpenPoolIsEarned ==
  \A l \in Leads : lead[l].pool \in ReturnPools => l \in assigned

\* A referral never reaches the Open Pool or the Shark Tank.
ReferralsStayProtected ==
  \A l \in Referrals : lead[l].pool \notin ReturnPools

InFlight(l) ==
  \/ \E r \in Requests : request[r] # Idle /\ request[r].lead = l
  \/ l \in sweep.expired \union sweep.stalled

\* Once a Lead is DNC and no handler that had read it before is left, it stays
\* DNC and no handler of the workspace, the relays or the cron job takes it up.
BlackoutAtRest ==
  [][\A l \in Leads : lead[l].dnc /\ ~InFlight(l) =>
        lead'[l].dnc /\ ~InFlight(l)']_vars

\* The daily sweep leaves no expired claim with its owner and no stalled Lead
\* in the Open Pool.
SweepCatchesUp ==
  \A l \in Leads : /\ ClaimExpired(l) ~> ~ClaimExpired(l)
                   /\ OpenPoolStalled(l) ~> ~OpenPoolStalled(l)

-----------------------------------------------------------------------------
(* Properties that hold while requests do not overlap, and not otherwise *)

\* A write on behalf of a GHL event ends the handler op of request r.
RelayWrites(r) ==
  /\ request[r].op \in {"reply", "opportunity", "appointment"}
  /\ request'[r] = Idle

\* A GHL event leaves an already Closed Won Lead alone.
RelaysKeepClosedWon ==
  [][\A r \in Requests : RelayWrites(r) =>
        LET l == request[r].lead IN
        lead[l].lifecycle = "CLOSED_WON" => lead'[l].lifecycle = "CLOSED_WON"]_vars

\* Nothing lifts a suppression, and a recorded two-way contact is not
\* forgotten: no handler writes back what it would have been without them.
MarksStick ==
  [][\A l \in Leads :
       /\ lead[l].suppressed => lead'[l].suppressed
       /\ lead[l].twoWay => lead'[l].twoWay]_vars

\* An owned Lead is nobody else's available Lead.
OwnedIsNotAvailable ==
  \A l \in Leads : lead[l].owner # NoAgent => lead[l].lifecycle # "AVAILABLE"

\* A claim that succeeds leaves its agent within its capacity.
CapacityRespected ==
  [][\A r \in Requests : WinClaim(r) =>
        Cardinality(ActiveLeads(request[r].agent)') <= Capacity]_vars

-----------------------------------------------------------------------------
(* A statement of the documentation that the code does not keep *)

\* A DNC Lead stays out of every working lifecycle and gets no callback.
DncIsBlackout ==
  [][\A l \in Leads : lead[l].dnc => /\ lead'[l].lifecycle = lead[l].lifecycle
                                     /\ scheduled'[l] \subseteq scheduled[l]]_vars
=============================================================================
