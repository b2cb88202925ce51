--------------------------- MODULE LeadVocabulary ---------------------------
(***************************************************************************)
(* The enumerations of the Lead engine and the pure rules that map a       *)
(* recorded disposition to a lifecycle and a pool.  Everything here is a   *)
(* constant operator; LeadEngine gives it state.                           *)
(***************************************************************************)

\* prisma/schema.prisma, enum LeadLifecycle
Lifecycles == {"RAW", "PENDING_REVIEW", "AVAILABLE", "CLAIMED", "CONTACTED",
               "NURTURING", "DEMO_BOOKED", "CLOSED_WON", "CLOSED_LOST",
               "DISQUALIFIED", "SUPPRESSED"}

\* prisma/schema.prisma, enum LeadPool
Pools == {"COLD", "OPEN", "HOT", "REFERRAL", "SHARK_TANK", "HOUSE", "NURTURE"}

\* prisma/schema.prisma, enum LeadDisposition.  DO_NOT_CONTACT is refused by
\* every disposition handler, so it is not an input of any of them.
Dispositions == {"NO_ANSWER", "VOICEMAIL", "CALLBACK_REQUESTED", "QUALIFIED",
                 "NOT_INTERESTED", "WRONG_NUMBER", "OUT_OF_BUSINESS",
                 "DEMO_BOOKED", "FOLLOW_UP"}

TwoWayDispositions == {"CALLBACK_REQUESTED", "QUALIFIED", "NOT_INTERESTED",
                       "DEMO_BOOKED", "FOLLOW_UP"}

ClaimEligibleDispositions == TwoWayDispositions \ {"NOT_INTERESTED"}

InvalidContactDispositions == {"WRONG_NUMBER", "OUT_OF_BUSINESS"}

NoContact == {"NO_ANSWER", "VOICEMAIL"}

\* Mutant: an unanswered call makes an owned Lead available, as it does a cold one.
LifecycleForAvailable(d) ==
  CASE d = "DEMO_BOOKED"                   -> "DEMO_BOOKED"
    [] d = "NOT_INTERESTED"                -> "CLOSED_LOST"
    [] d \in InvalidContactDispositions    -> "DISQUALIFIED"
    [] d \in NoContact                     -> "AVAILABLE"
    [] d = "CALLBACK_REQUESTED"            -> "NURTURING"
    [] OTHER                               -> "CONTACTED"

\* lifecycleFor: what a disposition on an owned Lead does to its lifecycle
LifecycleFor(d) ==
  CASE d = "DEMO_BOOKED"                   -> "DEMO_BOOKED"
    [] d = "NOT_INTERESTED"                -> "CLOSED_LOST"
    [] d \in InvalidContactDispositions    -> "DISQUALIFIED"
    [] d \in NoContact                     -> "CLAIMED"
    [] d = "CALLBACK_REQUESTED"            -> "NURTURING"
    [] OTHER                               -> "CONTACTED"

\* Mutant: a lifecycle where a pool is due.
ColdPoolForLifecycle(d) ==
  CASE d = "CALLBACK_REQUESTED"            -> "NURTURING"
    [] d \in ClaimEligibleDispositions \ {"CALLBACK_REQUESTED"} -> "HOT"
    [] OTHER                               -> "COLD"

\* coldPoolFor: the pool of an unowned Lead after a disposition
ColdPoolFor(d) ==
  CASE d = "CALLBACK_REQUESTED"            -> "NURTURE"
    [] d \in ClaimEligibleDispositions \ {"CALLBACK_REQUESTED"} -> "HOT"
    [] OTHER                               -> "COLD"

\* coldLifecycleFor: an unanswered cold call leaves the Lead available
ColdLifecycleFor(d) == IF d \in NoContact THEN "AVAILABLE" ELSE LifecycleFor(d)

\* The dispositions the portal route counts as two-way contact: a shorter list
\* than the workspace's.
PortalTwoWayDispositions == {"QUALIFIED", "CALLBACK_REQUESTED", "DEMO_BOOKED"}

\* GHL opportunity events
OpportunityEvents == {"OPPORTUNITY_WON", "OPPORTUNITY_LOST"}

\* GHL appointment events, by family
Booked == {"APPOINTMENT_BOOKED", "APPOINTMENT_CONFIRMED", "APPOINTMENT_RESCHEDULED"}
Recovery == {"APPOINTMENT_CANCELLED", "APPOINTMENT_NO_SHOW"}
AppointmentEvents == Booked \union Recovery \union {"APPOINTMENT_COMPLETED"}

\* The lifecycles of a claim that is still being worked
AgingLifecycles == {"CLAIMED", "CONTACTED", "NURTURING"}

\* The lifecycles counted against an agent's claim capacity
CapacityLifecycles == AgingLifecycles \union {"DEMO_BOOKED"}

\* The pools only a Lead that an agent has owned may be in
ReturnPools == {"OPEN", "SHARK_TANK"}
=============================================================================
