--------------------------- MODULE CommissionLedger ---------------------------
(***************************************************************************)
(* Commission eligibility and the ledger: an admin sets agents' profiles,  *)
(* reviews who is eligible on an account, takes payments into the ledger,  *)
(* holds and releases its entries and records that a payment cleared.      *)
(* Reviews, clearances and releases read first and write in a transaction  *)
(* of their own; the other actions of an admin are one transaction, or     *)
(* read only what never changes.  Amounts and dates are left out: an entry *)
(* is its pair of a payment reference and an entry type.                   *)
(***************************************************************************)
EXTENDS CommissionPolicy, FiniteSets

CONSTANTS
  Accounts, \* client accounts
  Agents,   \* agents who may earn on them
  NoAgent,  \* no owner, no earning agent
  Entries,  \* ledger entries, a bound on how many are taken in
  NoEntry,  \* the entry of a request about none
  Holds,    \* holds, a bound on how many are applied
  Profiles, \* profile statuses used in an instance of the model
  Requests  \* slots for requests served at the same time

ASSUME LedgerConstants ==
  /\ NoAgent \notin Agents
  /\ NoEntry \notin Entries
  /\ Profiles \subseteq ProfileStates

VARIABLES
  account,  \* what a review reads of the ClientAccount rows
  profile,  \* the AgentCommissionProfile rows' status
  decision, \* the status of the CommissionEligibilityDecision that is current
  entry,    \* the CommissionLedgerEntry rows
  hold,     \* the CommissionHold rows
  request,  \* the requests in flight
  disturbed \* entries cleared by a request that another overtook (history)

vars == <<account, profile, decision, entry, hold, request, disturbed>>

Owners == Agents \union {NoAgent}

Pairs == Accounts \X Agents

Account == [owner: Owners, house: BOOLEAN, current: BOOLEAN]

Entry == [status: LedgerStates \union {"ABSENT"}, account: Accounts, earning: Owners,
          cleared: BOOLEAN]

Hold == [state: {"ABSENT", "ACTIVE", "RELEASED"}, entry: Entries \union {NoEntry}]

Idle == [call |-> "none"]

\* todo: the reads still to make; read, profile, eligible: what they gave;
\* alone: nothing else was written since the request began (history)
Review == [call: {"review"}, pair: Pairs, todo: SUBSET {"account", "profile"},
           read: Account, profile: ProfileStates, alone: BOOLEAN]

Clear == [call: {"clear"}, entry: Entries, todo: SUBSET {"decision", "holds"},
          eligible: BOOLEAN, alone: BOOLEAN]

Release == [call: {"release"}, hold: Holds, alone: BOOLEAN]

TypeOK ==
  /\ account \in [Accounts -> Account]
  /\ profile \in [Agents -> ProfileStates]
  /\ decision \in [Pairs -> EligibilityStates \union {"NONE"}]
  /\ entry \in [Entries -> Entry]
  /\ hold \in [Holds -> Hold]
  /\ \A h \in Holds : hold[h].state = "ABSENT" <=> hold[h].entry = NoEntry
  /\ request \in [Requests -> Review \union Clear \union Release \union {Idle}]
  /\ disturbed \subseteq Entries
  /\ \A e \in Entries : entry[e].status = "ELIGIBLE" => entry[e].cleared

Init ==
  /\ account \in [Accounts -> {[owner |-> g, house |-> FALSE, current |-> TRUE] : g \in Owners}]
  /\ profile = [g \in Agents |-> "MISSING"]
  /\ decision = [p \in Pairs |-> "NONE"]
  /\ entry \in [Entries -> {[status |-> "ABSENT", account |-> a, earning |-> NoAgent,
                             cleared |-> FALSE] : a \in Accounts}]
  /\ hold = [h \in Holds |-> [state |-> "ABSENT", entry |-> NoEntry]]
  /\ request = [r \in Requests |-> Idle]
  /\ disturbed = {}

-----------------------------------------------------------------------------
(* Requests *)

At(r, call) == request[r].call = call

Start(r, pending) ==
  /\ request[r] = Idle
  /\ request' = [request EXCEPT ![r] = pending]

Overtaken(q) == IF request[q] = Idle THEN Idle ELSE [request[q] EXCEPT !.alone = FALSE]

\* A transaction commits: every other request in flight is overtaken.
Commit == request' = [q \in Requests |-> Overtaken(q)]

CommitOf(r) == request' = [q \in Requests |-> IF q = r THEN Idle ELSE Overtaken(q)]

\* The function dies, or its transaction fails: the second of two reviews of a
\* pair whose transactions overlap breaks the index over current decisions.
Abandon(r) ==
  /\ request[r] # Idle
  /\ request' = [request EXCEPT ![r] = Idle]
  /\ UNCHANGED <<account, profile, decision, entry, hold, disturbed>>

-----------------------------------------------------------------------------
(* The accounts, as the servicing workflow changes them *)

\* Either writes the status, whether or not the account had gone to House.
PaymentProblem(a) ==
  /\ account' = [account EXCEPT ![a].current = FALSE, ![a].house = FALSE]
  /\ Commit
  /\ UNCHANGED <<profile, decision, entry, hold, disturbed>>

PaymentResolved(a) ==
  /\ account' = [account EXCEPT ![a].current = TRUE, ![a].house = FALSE]
  /\ Commit
  /\ UNCHANGED <<profile, decision, entry, hold, disturbed>>

TransferToHouse(a) ==
  /\ ~account[a].house
  /\ account' = [account EXCEPT ![a].house = TRUE, ![a].owner = NoAgent]
  /\ Commit
  /\ UNCHANGED <<profile, decision, entry, hold, disturbed>>

-----------------------------------------------------------------------------
(* setCommissionProfileStatus *)

SetProfile(g, status) ==
  /\ profile' = [profile EXCEPT ![g] = status]
  /\ Commit
  /\ UNCHANGED <<account, decision, entry, hold, disturbed>>

-----------------------------------------------------------------------------
(* recordCommissionEligibilityReview: the account and the profile are read   *)
(* by two queries at once, in either order.                                  *)

ServiceState(row) ==
  IF row.house THEN "HOUSE" ELSE IF row.owner = NoAgent THEN "UNASSIGNED" ELSE "ACTIVE"

StartReview(r, pair) ==
  /\ Start(r, [call |-> "review", pair |-> pair, todo |-> {"account", "profile"},
               read |-> [owner |-> NoAgent, house |-> FALSE, current |-> FALSE],
               profile |-> "MISSING", alone |-> TRUE])
  /\ UNCHANGED <<account, profile, decision, entry, hold, disturbed>>

ReadAccount(r) ==
  /\ At(r, "review") /\ "account" \in request[r].todo
  /\ request' = [request EXCEPT ![r].todo = @ \ {"account"},
                                ![r].read = account[request[r].pair[1]]]
  /\ UNCHANGED <<account, profile, decision, entry, hold, disturbed>>

ReadProfile(r) ==
  /\ At(r, "review") /\ "profile" \in request[r].todo
  /\ request' = [request EXCEPT ![r].todo = @ \ {"profile"},
                                ![r].profile = profile[request[r].pair[2]]]
  /\ UNCHANGED <<account, profile, decision, entry, hold, disturbed>>

\* The answer of a review that read these rows about an agent
Reviewed(state, row, g) ==
  CommissionEligibility(state, ServiceState(row), row.owner # NoAgent, row.owner = g, row.current)

\* The current decision is superseded and the new one inserted.
RecordDecision(r) ==
  /\ At(r, "review") /\ request[r].todo = {}
  /\ decision' = [decision EXCEPT ![request[r].pair] =
                    Reviewed(request[r].profile, request[r].read, request[r].pair[2])]
  /\ CommitOf(r)
  /\ UNCHANGED <<account, profile, entry, hold, disturbed>>

-----------------------------------------------------------------------------
(* intakeCommissionLedgerEntry.  The account's owner is read before the      *)
(* entry is inserted, which nothing can tell from an entry inserted when the *)
(* owner was read.                                                           *)

Intake(e, given) ==
  /\ entry[e].status = "ABSENT"
  /\ LET earning == IF given = NoAgent THEN account[entry[e].account].owner ELSE given
     IN  entry' = [entry EXCEPT ![e].status = "PENDING_VERIFICATION", ![e].earning = earning]
  /\ Commit
  /\ UNCHANGED <<account, profile, decision, hold, disturbed>>

-----------------------------------------------------------------------------
(* applyCommissionLedgerHold *)

ApplyHold(h, e) ==
  /\ entry[e].status # "ABSENT"
  /\ hold[h].state = "ABSENT"
  /\ hold' = [hold EXCEPT ![h] = [state |-> "ACTIVE", entry |-> e]]
  /\ entry' = [entry EXCEPT ![e].status = "ON_HOLD"]
  /\ Commit
  /\ UNCHANGED <<account, profile, decision, disturbed>>

ActiveHolds(e) == {h \in Holds : hold[h] = [state |-> "ACTIVE", entry |-> e]}

-----------------------------------------------------------------------------
(* markCommissionLedgerPaymentCleared: the decision and the number of active *)
(* holds are read by two queries at once, in either order.                   *)

StartClear(r, e) ==
  /\ entry[e].status # "ABSENT"
  /\ entry[e].earning # NoAgent
  /\ Start(r, [call |-> "clear", entry |-> e, todo |-> {"decision", "holds"},
               eligible |-> TRUE, alone |-> TRUE])
  /\ UNCHANGED <<account, profile, decision, entry, hold, disturbed>>

\* Mutant: an agent without a decision is eligible.
DecidedByDefault(e) == decision[<<entry[e].account, entry[e].earning>>] \in {"NONE", "ELIGIBLE"}

Decided(e) == decision[<<entry[e].account, entry[e].earning>>] = "ELIGIBLE"

\* Mutant: the entry's status stands for the count of its active holds.
UnheldByStatus(e) == entry[e].status # "ON_HOLD"

Unheld(e) == ActiveHolds(e) = {}

ReadDecision(r) ==
  /\ At(r, "clear") /\ "decision" \in request[r].todo
  /\ request' = [request EXCEPT ![r].todo = @ \ {"decision"},
                                ![r].eligible = @ /\ Decided(request[r].entry)]
  /\ UNCHANGED <<account, profile, decision, entry, hold, disturbed>>

CountHolds(r) ==
  /\ At(r, "clear") /\ "holds" \in request[r].todo
  /\ request' = [request EXCEPT ![r].todo = @ \ {"holds"},
                                ![r].eligible = @ /\ Unheld(request[r].entry)]
  /\ UNCHANGED <<account, profile, decision, entry, hold, disturbed>>

\* Mutant: a cleared entry is not marked as cleared.
ClearedUnmarked(row, eligible) ==
  [row EXCEPT !.status = IF eligible THEN "ELIGIBLE" ELSE "ON_HOLD"]

\* The entry as a clearance leaves it
Cleared(row, eligible) ==
  [row EXCEPT !.cleared = TRUE, !.status = IF eligible THEN "ELIGIBLE" ELSE "ON_HOLD"]

RecordClearance(r) ==
  LET e == request[r].entry IN
  /\ At(r, "clear") /\ request[r].todo = {}
  /\ entry' = [entry EXCEPT ![e] = Cleared(@, request[r].eligible)]
  /\ disturbed' = IF request[r].alone THEN disturbed \ {e} ELSE disturbed \union {e}
  /\ CommitOf(r)
  /\ UNCHANGED <<account, profile, decision, hold>>

-----------------------------------------------------------------------------
(* releaseCommissionHold *)

ReadHold(r, h) ==
  /\ hold[h].state = "ACTIVE"
  /\ Start(r, [call |-> "release", hold |-> h, alone |-> TRUE])
  /\ UNCHANGED <<account, profile, decision, entry, hold, disturbed>>

\* The entry as a release leaves it
Released(row) == [row EXCEPT !.status = "PENDING_VERIFICATION"]

\* The hold is released if it is still active, and the entry set back in any case.
ReleaseHold(r) ==
  LET h == request[r].hold IN
  /\ At(r, "release")
  /\ hold' = [hold EXCEPT ![h].state = "RELEASED"]
  /\ entry' = [entry EXCEPT ![hold[h].entry] = Released(@)]
  /\ CommitOf(r)
  /\ UNCHANGED <<account, profile, decision, disturbed>>

-----------------------------------------------------------------------------

RequestStep(r) ==
  \/ Abandon(r)
  \/ \E pair \in Pairs : StartReview(r, pair)
  \/ ReadAccount(r)
  \/ ReadProfile(r)
  \/ RecordDecision(r)
  \/ \E e \in Entries : StartClear(r, e)
  \/ ReadDecision(r)
  \/ CountHolds(r)
  \/ RecordClearance(r)
  \/ \E h \in Holds : ReadHold(r, h)
  \/ ReleaseHold(r)

Next ==
  \/ \E r \in Requests : RequestStep(r)
  \/ \E a \in Accounts : PaymentProblem(a) \/ PaymentResolved(a) \/ TransferToHouse(a)
  \/ \E g \in Agents, status \in Profiles \ {"MISSING"} : SetProfile(g, status)
  \/ \E e \in Entries, given \in Owners : Intake(e, given)
  \/ \E h \in Holds, e \in Entries : ApplyHold(h, e)

Spec == Init /\ [][Next]_vars

-----------------------------------------------------------------------------
(* Properties *)

\* "Payment clearance can mark an entry eligible only when there is a current
\* eligible decision and no active hold" (COMMISSION_ELIGIBILITY_LEDGER_STATUS).
\* An eligible entry has no active hold, whatever was held, released and cleared
\* in between, unless another request committed between the reads and the write
\* of the clearance that made it eligible: nothing ties the count of the holds to
\* the write that relies on it, and a hold that comes in between is the case.
EligibleIsNotHeld ==
  \A e \in Entries \ disturbed : entry[e].status = "ELIGIBLE" => ActiveHolds(e) = {}

\* An entry becomes eligible only by a clearance, and by one that nothing
\* overtook only while the current decision about its earning agent, which may
\* be another than the account's owner, is that the agent is eligible.
EligibleWasDecided ==
  [][\A e \in Entries :
       (entry[e].status # "ELIGIBLE" /\ entry'[e].status = "ELIGIBLE") =>
         \E r \in Requests :
           /\ At(r, "clear") /\ request[r].entry = e
           /\ request[r].alone =>
                decision[<<entry[e].account, entry[e].earning>>] = "ELIGIBLE"]_vars

\* A review that nothing overtook leaves the decision the policy states for the
\* rows as they are ("Policy currently encoded"): eligible are a retired agent,
\* and an active agent who services the account, while its payments are current.
\* A review that was overtaken may leave a decision from older rows, and so
\* supersede a newer one.
DecisionFollowsPolicy ==
  [][\A p \in Pairs :
       LET a == account[p[1]] IN
       decision'[p] # decision[p] =>
         \E r \in Requests :
           /\ At(r, "review") /\ request[r].pair = p
           /\ request[r].alone =>
                (decision'[p] = "ELIGIBLE" <=>
                   /\ a.current
                   /\ \/ profile[p[2]] = "RETIRED"
                      \/ profile[p[2]] = "ACTIVE" /\ a.owner = p[2] /\ ~a.house)]_vars
=============================================================================
