--------------------------- MODULE ClientServicing ---------------------------
(***************************************************************************)
(* Client accounts and their service cases: an account is created from a   *)
(* won Lead, launched, worked on case by case, and may be transferred to   *)
(* House; the cadence sweep opens check-in cases.  The handlers read first *)
(* and write in a transaction of their own, so that others run in between. *)
(* An admin may do whatever the servicing agent may, with the same effect, *)
(* so the two are not told apart here.                                     *)
(***************************************************************************)
EXTENDS FiniteSets, Integers

CONSTANTS
  Accounts, \* client accounts, each of the one won Lead it is created from
  Agents,   \* servicing agents
  NoAgent,  \* House
  Cases,    \* service cases: a bound on how many are opened
  NoCase,   \* the case of a request about none
  Triggers, \* triggers that are used in an instance of the model
  Requests  \* slots for requests served at the same time

AllTriggers == {"CLIENT_REQUEST", "SUPPORT_ISSUE", "PAYMENT_PROBLEM", "RENEWAL_EVENT",
                "ESCALATION", "MANUAL_REVIEW"}

ASSUME ServicingConstants ==
  /\ NoAgent \notin Agents
  /\ NoCase \notin Cases
  /\ Triggers \subseteq AllTriggers
  /\ IsFiniteSet(Cases)

VARIABLES
  account,    \* the ClientAccount rows
  case,       \* the ClientServiceCase rows
  assignment, \* the toAgentId of an account's latest assignment event
  request,    \* the requests in flight
  races       \* kinds of requests that others ran beside (history)

vars == <<account, case, assignment, request, races>>

AccountStatuses == {"ABSENT", "PENDING_LAUNCH", "ACTIVE", "PAYMENT_FAILED", "AT_RISK", "HOUSE"}

HealthStatuses == {"HEALTHY", "PAYMENT_FAILED", "NEEDS_ATTENTION", "AT_RISK"}

\* No code writes WAITING_ON_CLIENT.
OpenStatuses == {"OPEN", "IN_PROGRESS"}

Owners == Agents \union {NoAgent}

\* due: the cadence's period has passed since the last touch
Account == [status: AccountStatuses, health: HealthStatuses, current: BOOLEAN,
            attention: BOOLEAN, launched: BOOLEAN, owner: Owners, due: BOOLEAN]

\* checkIn: the trigger is SERVICE_CADENCE
Case == [status: {"ABSENT", "RESOLVED"} \union OpenStatuses, account: Accounts,
         checkIn: BOOLEAN, assigned: Owners]

\* The next call of a request
Calls == {"confirm", "launch", "open", "respond", "resolve", "update", "retain", "sweep"}

Idle == [call |-> "none"]

\* current, owner, remaining, targets: what was read before the write
Pending == [call: Calls, account: Accounts, case: Cases \union {NoCase},
            trigger: AllTriggers, current: BOOLEAN, owner: Owners,
            remaining: BOOLEAN, targets: SUBSET (Accounts \X Owners)]

TypeOK ==
  /\ account \in [Accounts -> Account]
  /\ case \in [Cases -> Case]
  /\ assignment \in [Accounts -> Owners]
  /\ request \in [Requests -> Pending \union {Idle}]
  /\ races \subseteq {"launch", "resolve", "sweep"}

Init ==
  /\ account = [a \in Accounts |->
                  [status |-> "ABSENT", health |-> "HEALTHY", current |-> TRUE,
                   attention |-> FALSE, launched |-> FALSE, owner |-> NoAgent, due |-> FALSE]]
  /\ case \in [Cases -> {[status |-> "ABSENT", account |-> a, checkIn |-> FALSE,
                          assigned |-> NoAgent] : a \in Accounts}]
  /\ assignment = [a \in Accounts |-> NoAgent]
  /\ request = [r \in Requests |-> Idle]
  /\ races = {}

-----------------------------------------------------------------------------
(* Requests *)

Kind(call) == IF call = "update" THEN "resolve" ELSE call

InFlight == {Kind(request[r].call) : r \in {p \in Requests : request[p] # Idle}}

Blank(a) == [call |-> "open", account |-> a, case |-> NoCase, trigger |-> "MANUAL_REVIEW",
             current |-> TRUE, owner |-> NoAgent, remaining |-> FALSE, targets |-> {}]

Start(r, pending) ==
  /\ request[r] = Idle
  /\ request' = [request EXCEPT ![r] = pending]
  /\ races' = races
       \union (IF InFlight = {} THEN {}
               ELSE (InFlight \union {pending.call}) \intersect {"launch", "resolve"})
       \union ({pending.call} \intersect InFlight \intersect {"sweep"})

\* A step of one transaction
AtOnce == races' = races \union (InFlight \intersect {"launch", "resolve"})

At(r, call) == request[r].call = call

Done(r) == request' = [request EXCEPT ![r] = Idle]

Exists(a) == account[a].status # "ABSENT"

OpenCases(a) == {k \in Cases : case[k].account = a /\ case[k].status \in OpenStatuses}

OpenCheckIns(a) == {k \in OpenCases(a) : case[k].checkIn}

\* A running resolution holds its case's row until it commits.
Locked(k) == \E r \in Requests : At(r, "update") /\ request[r].case = k

\* The function dies, or a transaction of it fails and is rolled back.
Abandon(r) ==
  /\ request[r] # Idle
  /\ Done(r)
  /\ UNCHANGED <<account, case, assignment, races>>

-----------------------------------------------------------------------------
(* Account creation: under the lock of the Lead, or the unique index over    *)
(* leadId, there is one account of it.                                       *)

InsertAccount(a, owner) ==
  /\ ~Exists(a)
  /\ account' = [account EXCEPT ![a].status = "PENDING_LAUNCH", ![a].owner = owner]
  /\ AtOnce
  /\ UNCHANGED <<case, assignment, request>>

\* An admin names the servicing agent, or nobody.
CreateClientAccount(a, owner) == InsertAccount(a, owner)

\* The owner of the Lead, if any, services the account; a second creation
\* returns the first.
CreateClientAccountFromWonLead(a) == \E owner \in Owners : InsertAccount(a, owner)

-----------------------------------------------------------------------------
(* Launch *)

\* confirmClientLaunch, from the queue of accounts that are pending
ReadConfirm(r, a, current) ==
  /\ account[a].status = "PENDING_LAUNCH"
  /\ Start(r, [Blank(a) EXCEPT !.call = "confirm", !.current = current])
  /\ UNCHANGED <<account, case, assignment>>

WriteConfirm(r) ==
  LET q == request[r] IN
  /\ At(r, "confirm")
  /\ account' = [account EXCEPT
       ![q.account].launched = TRUE,
       ![q.account].status = IF q.current THEN "ACTIVE" ELSE "PAYMENT_FAILED",
       ![q.account].health = IF q.current THEN "HEALTHY" ELSE "PAYMENT_FAILED",
       ![q.account].current = q.current,
       ![q.account].attention = ~q.current]
  /\ Done(r)
  /\ UNCHANGED <<case, assignment, races>>

\* completeClientLaunch
ReadLaunch(r, a) ==
  /\ account[a].status \notin {"ABSENT", "HOUSE"}
  /\ ~account[a].launched
  /\ Start(r, [Blank(a) EXCEPT !.call = "launch", !.current = account[a].current])
  /\ UNCHANGED <<account, case, assignment>>

\* Mutant: an account that is not current is launched like any other.
LaunchRegardless(row, current) ==
  [row EXCEPT !.launched = TRUE, !.status = "ACTIVE", !.health = "HEALTHY", !.due = FALSE]

\* The payment standing is the one that was read; it is not written itself.
Launched(row, current) ==
  [row EXCEPT !.launched = TRUE, !.due = FALSE,
              !.status = IF current THEN "ACTIVE" ELSE "PAYMENT_FAILED",
              !.health = IF current THEN "HEALTHY" ELSE "PAYMENT_FAILED"]

WriteLaunch(r) ==
  LET q == request[r] IN
  /\ At(r, "launch")
  /\ account' = [account EXCEPT ![q.account] = Launched(@, q.current)]
  /\ Done(r)
  /\ UNCHANGED <<case, assignment, races>>

-----------------------------------------------------------------------------
(* Service cases *)

\* openClientServiceCase: the case is assigned to the owner that was read.
ReadOpen(r, a, trigger) ==
  /\ Exists(a)
  /\ Start(r, [Blank(a) EXCEPT !.trigger = trigger, !.owner = account[a].owner])
  /\ UNCHANGED <<account, case, assignment>>

\* Mutant: the account of an escalation is not marked.
AfterTriggerQuietly(row, trigger) ==
  IF trigger = "ESCALATION" THEN [row EXCEPT !.status = "ESCALATED"]
  ELSE [row EXCEPT !.attention = TRUE]

\* A manual review is recorded as a health confirmation.
AfterTrigger(row, trigger) ==
  LET marked == [row EXCEPT !.attention = TRUE, !.due = trigger # "MANUAL_REVIEW" /\ @] IN
  CASE trigger = "PAYMENT_PROBLEM" ->
         [marked EXCEPT !.status = "PAYMENT_FAILED", !.health = "PAYMENT_FAILED", !.current = FALSE]
    [] trigger = "ESCALATION" -> [marked EXCEPT !.status = "AT_RISK", !.health = "AT_RISK"]
    [] OTHER -> [marked EXCEPT !.health = "NEEDS_ATTENTION"]

WriteOpen(r) ==
  LET q == request[r] IN
  /\ At(r, "open")
  /\ \E k \in Cases :
       /\ case[k].status = "ABSENT"
       /\ case' = [case EXCEPT ![k] = [status |-> "OPEN", account |-> q.account,
                                       checkIn |-> FALSE, assigned |-> q.owner]]
  /\ account' = [account EXCEPT ![q.account] = AfterTrigger(@, q.trigger)]
  /\ Done(r)
  /\ UNCHANGED <<assignment, races>>

\* serviceCaseForActor
ReadCase(r, k, call) ==
  /\ case[k].status \in OpenStatuses
  /\ Start(r, [Blank(case[k].account) EXCEPT !.call = call, !.case = k])
  /\ UNCHANGED <<account, case, assignment>>

\* Mutant: the response puts the case that was read into progress.
RespondedByRead(status) == "IN_PROGRESS"

\* recordServiceResponse writes where the case is still open.
Responded(status) == IF status = "OPEN" THEN "IN_PROGRESS" ELSE status

WriteResponse(r) ==
  LET k == request[r].case IN
  /\ At(r, "respond")
  /\ ~Locked(k)
  /\ case' = [case EXCEPT ![k].status = Responded(@)]
  /\ Done(r)
  /\ UNCHANGED <<account, assignment, races>>

\* resolveClientServiceCase updates its case; the update of the account that
\* follows sees the other cases as they are committed when it begins ...
ResolveCase(r) ==
  LET q == request[r] IN
  /\ At(r, "resolve")
  /\ ~Locked(q.case)
  /\ request' = [request EXCEPT ![r].call = "update",
                                ![r].remaining = OpenCases(q.account) \ {q.case} # {}]
  /\ UNCHANGED <<account, case, assignment, races>>

\* Mutant: the account keeps asking for attention.
ResolvedWithAttention(row, remaining) ==
  [row EXCEPT !.status = IF row.current THEN "ACTIVE" ELSE "PAYMENT_FAILED",
              !.health = IF ~row.current THEN "PAYMENT_FAILED"
                         ELSE IF remaining THEN "NEEDS_ATTENTION" ELSE "HEALTHY"]

\* ... and the payment standing as it is once it has the account's row.
Resolved(row, remaining) ==
  [row EXCEPT !.status = IF row.current THEN "ACTIVE" ELSE "PAYMENT_FAILED",
              !.health = IF ~row.current THEN "PAYMENT_FAILED"
                         ELSE IF remaining THEN "NEEDS_ATTENTION" ELSE "HEALTHY",
              !.attention = @ /\ (~row.current \/ remaining)]

UpdateAccount(r) ==
  LET q == request[r] IN
  /\ At(r, "update")
  /\ case' = [case EXCEPT ![q.case].status = "RESOLVED"]
  /\ account' = [account EXCEPT ![q.account] = Resolved(@, q.remaining)]
  /\ Done(r)
  /\ UNCHANGED <<assignment, races>>

\* recordPaymentResolved
ResolvePayment(a) ==
  /\ Exists(a)
  /\ account' = [account EXCEPT ![a].status = "ACTIVE", ![a].health = "HEALTHY",
                                ![a].current = TRUE, ![a].attention = FALSE]
  /\ AtOnce
  /\ UNCHANGED <<case, assignment, request>>

-----------------------------------------------------------------------------
(* Servicing ownership *)

\* transferClientServiceToHouse; its update of the cases waits for their rows.
TransferToHouse(a) ==
  /\ Exists(a)
  /\ \A k \in OpenCases(a) : ~Locked(k)
  /\ account' = [account EXCEPT ![a].owner = NoAgent, ![a].status = "HOUSE"]
  /\ case' = [k \in Cases |-> IF k \in OpenCases(a)
                              THEN [case[k] EXCEPT !.assigned = NoAgent] ELSE case[k]]
  /\ assignment' = [assignment EXCEPT ![a] = NoAgent]
  /\ AtOnce
  /\ UNCHANGED request

\* recordAgentContinuesService
ReadRetain(r, a) ==
  /\ account[a].owner # NoAgent
  /\ Start(r, [Blank(a) EXCEPT !.call = "retain", !.owner = account[a].owner])
  /\ UNCHANGED <<account, case, assignment>>

WriteRetain(r) ==
  /\ At(r, "retain")
  /\ assignment' = [assignment EXCEPT ![request[r].account] = request[r].owner]
  /\ Done(r)
  /\ UNCHANGED <<account, case, races>>

-----------------------------------------------------------------------------
(* runServiceCadenceSweep *)

PeriodPasses(a) ==
  /\ Exists(a)
  /\ ~account[a].due
  /\ account' = [account EXCEPT ![a].due = TRUE]
  /\ UNCHANGED <<case, assignment, request, races>>

\* Mutant: an account gets a check-in although one is open.
DueRegardless(a) == account[a].status = "ACTIVE" /\ account[a].due

DueCheckIn(a) ==
  /\ account[a].status = "ACTIVE"
  /\ account[a].due
  /\ OpenCheckIns(a) = {}

ReadSweep(r) ==
  LET targets == {<<a, account[a].owner>> : a \in {b \in Accounts : DueCheckIn(b)}} IN
  /\ targets # {}
  /\ Start(r, [Blank(CHOOSE a \in Accounts : TRUE) EXCEPT !.call = "sweep", !.targets = targets])
  /\ UNCHANGED <<account, case, assignment>>

\* One transaction opens a case for every account that was found due.
WriteSweep(r) ==
  LET targets == request[r].targets IN
  /\ At(r, "sweep")
  /\ \E new \in [targets -> {k \in Cases : case[k].status = "ABSENT"}] :
       /\ \A s, t \in targets : new[s] = new[t] => s = t
       /\ case' = [k \in Cases |->
            IF \E t \in targets : new[t] = k
            THEN LET t == CHOOSE t \in targets : new[t] = k IN
                 [status |-> "OPEN", account |-> t[1], checkIn |-> TRUE,
                  assigned |-> t[2]]
            ELSE case[k]]
  /\ account' = [a \in Accounts |-> [account[a] EXCEPT
                   !.due = @ /\ \A t \in targets : t[1] # a]]
  /\ Done(r)
  /\ UNCHANGED <<assignment, races>>

-----------------------------------------------------------------------------

Next ==
  \/ \E a \in Accounts :
       \/ \E owner \in Owners : CreateClientAccount(a, owner)
       \/ CreateClientAccountFromWonLead(a)
       \/ ResolvePayment(a) \/ TransferToHouse(a) \/ PeriodPasses(a)
  \/ \E r \in Requests :
       \/ Abandon(r)
       \/ \E a \in Accounts :
            \/ \E current \in BOOLEAN : ReadConfirm(r, a, current)
            \/ ReadLaunch(r, a) \/ ReadRetain(r, a)
            \/ \E trigger \in Triggers : ReadOpen(r, a, trigger)
       \/ \E k \in Cases, call \in {"respond", "resolve"} : ReadCase(r, k, call)
       \/ WriteConfirm(r) \/ WriteLaunch(r) \/ WriteOpen(r) \/ WriteResponse(r)
       \/ ResolveCase(r) \/ UpdateAccount(r) \/ WriteRetain(r)
       \/ ReadSweep(r) \/ WriteSweep(r)

Spec == Init /\ [][Next]_vars

-----------------------------------------------------------------------------
(* Properties *)

\* As long as no two sweeps overlap, an account has at most one open check-in,
\* whatever is opened, answered and resolved beside them.
CheckInsAreSingle ==
  "sweep" \in races \/ \A a \in Accounts : Cardinality(OpenCheckIns(a)) <= 1

\* As long as nothing runs beside a launch, the status and the health that the
\* workspaces show agree with the account's payments, through every order of
\* confirmations, problems, resolutions and transfers.
PaymentStandingShows ==
  "launch" \in races \/
  \A a \in Accounts :
    /\ account[a].status = "ACTIVE" \/ account[a].health = "HEALTHY" => account[a].current
    /\ account[a].health = "PAYMENT_FAILED" => ~account[a].current

\* As long as nothing runs beside a resolution, an account that asks for
\* attention has an open case or a payment issue.
AttentionHasReason ==
  "resolve" \in races \/
  \A a \in Accounts :
    account[a].attention => ~account[a].current \/ OpenCases(a) # {}

\* A resolved case stays resolved and assigned as it was, however late a
\* response to it, a second resolution or a transfer is.
ResolvedStaysResolved ==
  [][\A k \in Cases : case[k].status = "RESOLVED" => case'[k] = case[k]]_vars
=============================================================================
