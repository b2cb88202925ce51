--------------------------- MODULE AgentOnboarding ---------------------------
(***************************************************************************)
(* The way of a partner from the sign-up form to an account that can sign  *)
(* in and claim Leads: the signup route, the applicant review, the         *)
(* onboarding and certification pages, the document webhook that provisions *)
(* the user and mails an activation link, and the activation route.        *)
(* A request is a sequence of database calls; between two of them any      *)
(* other request may run, and at any of them the function may die.         *)
(***************************************************************************)
EXTENDS FiniteSets, Integers

CONSTANTS
  Agents,      \* applicants; each has an email, and so at most one user
  Privileged,  \* applicants whose email is a privileged user's
  Documents,   \* the document types an applicant has to complete
  Agreement,   \* the one of them that is countersigned: SALES_AGREEMENT
  Gates,       \* the activation gates that an admin records
  Declines,    \* the ways a reviewer declines in an instance of the model
  Assignable,  \* the statuses the users page sets in an instance of the model
  Requests,    \* slots for requests served at the same time
  Tokens       \* activation tokens: a bound on the links that are issued

ASSUME OnboardingConstants ==
  /\ Privileged \subseteq Agents
  /\ Agreement \in Documents
  /\ Agents \intersect Tokens = {}
  /\ IsFiniteSet(Tokens)
  /\ IsFiniteSet(Requests)
  /\ Declines \subseteq {"correct", "reject"}
  /\ Assignable \subseteq {"ACTIVE", "SUSPENDED", "DISABLED", "INVITED"}

VARIABLES
  agent,    \* the Agent rows
  user,     \* the User row with the applicant's email
  live,     \* per applicant, the unused and unexpired tokens of its user
  mailed,   \* tokens whose link was mailed
  request,  \* the requests in flight
  minted,   \* per applicant, the tokens that were ever created for its user
  issued,   \* per applicant, those the webhook created (history)
  activations  \* per applicant, how many activations were completed (history)

vars == <<agent, user, live, mailed, request, minted, issued, activations>>

AgentStatuses == {"ABSENT", "SUBMITTED", "NEEDS_CORRECTION", "REJECTED", "APPROVED"}

UserStatuses == {"NONE", "INVITED", "ACTIVE", "SUSPENDED", "DISABLED"}

\* The next call of a request
Calls == {"link", "approve", "correct", "reject", "evaluate", "create",
          "provision", "revoke", "issue", "mail", "consume", "activate"}

Idle == [call |-> "none"]

\* byWebhook: the request is a document event; old: the tokens it revokes;
\* token: the link it was mailed or presented with (an applicant when none)
Pending == [call: Calls, agent: Agents, byWebhook: BOOLEAN, old: SUBSET Tokens,
            token: Tokens \union Agents]

AgentRow == [status: AgentStatuses, confirmed: BOOLEAN, linked: BOOLEAN,
             complete: SUBSET Documents, countersigned: BOOLEAN,
             gates: SUBSET Gates, provisioned: BOOLEAN, canClaim: BOOLEAN]

TypeOK ==
  /\ agent \in [Agents -> AgentRow]
  /\ user \in [Agents -> [status: UserStatuses, password: BOOLEAN]]
  /\ live \in [Agents -> SUBSET Tokens]
  /\ mailed \subseteq Tokens
  /\ request \in [Requests -> Pending \union {Idle}]
  /\ minted \in [Agents -> SUBSET Tokens]
  /\ issued \in [Agents -> SUBSET Tokens]
  /\ activations \in [Agents -> Nat]

Init ==
  /\ agent = [a \in Agents |->
                [status |-> "ABSENT", confirmed |-> FALSE, linked |-> FALSE,
                 complete |-> {}, countersigned |-> FALSE, gates |-> {},
                 provisioned |-> FALSE, canClaim |-> FALSE]]
  /\ user = [a \in Agents |-> [status |-> "NONE", password |-> FALSE]]
  /\ live = [a \in Agents |-> {}]
  /\ mailed = {}
  /\ request = [r \in Requests |-> Idle]
  /\ minted = [a \in Agents |-> {}]
  /\ issued = [a \in Agents |-> {}]
  /\ activations = [a \in Agents |-> 0]

-----------------------------------------------------------------------------
(* Requests *)

Start(r, call, a, byWebhook, token) ==
  /\ request[r] = Idle
  /\ request' = [request EXCEPT
       ![r] = [call |-> call, agent |-> a, byWebhook |-> byWebhook,
               old |-> {}, token |-> token]]

At(r, call) == request[r].call = call

Goto(r, call) == request' = [request EXCEPT ![r].call = call]

Done(r) == request' = [request EXCEPT ![r] = Idle]

Write(a, row) == agent' = [agent EXCEPT ![a] = row]

Known(a) == agent[a].status # "ABSENT"

accountVars == <<user, live, mailed, minted, issued, activations>>

\* The function dies, or the call it was to make fails.  A transaction that
\* has consumed a token commits or never happened.
Abandon(r) ==
  /\ request[r] # Idle
  /\ ~At(r, "activate")
  /\ Done(r)
  /\ UNCHANGED <<agent, accountVars>>

-----------------------------------------------------------------------------
(* Sign-up *)

\* The form creates the agent; a second one with the email is refused.
SignUp(r, a) ==
  /\ ~Known(a)
  /\ Write(a, [agent[a] EXCEPT !.status = "SUBMITTED"])
  /\ Start(r, "link", a, FALSE, a)
  /\ UNCHANGED accountVars

\* The contact was created in GoHighLevel; its id is stored.
LinkContact(r) ==
  LET a == request[r].agent IN
  /\ At(r, "link")
  /\ Write(a, [agent[a] EXCEPT !.linked = TRUE])
  /\ Done(r)
  /\ UNCHANGED accountVars

-----------------------------------------------------------------------------
(* Applicant review *)

ConfirmCall(a) ==
  /\ Known(a)
  /\ ~agent[a].confirmed
  /\ Write(a, [agent[a] EXCEPT !.confirmed = TRUE])
  /\ UNCHANGED <<accountVars, request>>

\* Mutant: the confirmation call is not required.
ReadApproveUnconfirmed(r, a) ==
  /\ Known(a)
  /\ agent[a].status # "APPROVED"
  /\ agent[a].linked
  /\ Start(r, "approve", a, FALSE, a)
  /\ UNCHANGED <<agent, accountVars>>

\* The reviewer approves, and the tag that starts the e-sign workflow is added.
ReadApprove(r, a) ==
  /\ Known(a)
  /\ agent[a].status # "APPROVED"
  /\ agent[a].confirmed
  /\ agent[a].linked
  /\ Start(r, "approve", a, FALSE, a)
  /\ UNCHANGED <<agent, accountVars>>

ReadDecline(r, a, call) ==
  /\ call \in Declines
  /\ Known(a)
  /\ agent[a].status # "APPROVED"
  /\ Start(r, call, a, FALSE, a)
  /\ UNCHANGED <<agent, accountVars>>

\* The decision is written by id, whatever the status has become.
WriteReview(r) ==
  LET a == request[r].agent IN
  \E decision \in {<<"approve", "APPROVED">>, <<"correct", "NEEDS_CORRECTION">>,
                   <<"reject", "REJECTED">>} :
    /\ At(r, decision[1])
    /\ Write(a, [agent[a] EXCEPT !.status = decision[2]])
    /\ Done(r)
    /\ UNCHANGED accountVars

-----------------------------------------------------------------------------
(* Documents and gates *)

\* onboardingComplete
DocumentsComplete(a) ==
  agent[a].complete = Documents /\ agent[a].countersigned

WithDocument(row, d, completed, countersigned) ==
  [row EXCEPT !.complete = IF completed THEN @ \union {d} ELSE @ \ {d},
              !.countersigned = IF d = Agreement THEN countersigned ELSE @]

\* The onboarding page records a document's status.
RecordDocument(a, d, completed, countersigned) ==
  /\ Known(a)
  /\ Write(a, WithDocument(agent[a], d, completed, countersigned))
  /\ UNCHANGED <<accountVars, request>>

\* The onboarding page records a gate or clears it.
RecordGate(a, g, recording) ==
  /\ Known(a)
  /\ Write(a, [agent[a] EXCEPT !.gates = IF recording THEN @ \union {g} ELSE @ \ {g}])
  /\ UNCHANGED <<accountVars, request>>

-----------------------------------------------------------------------------
(* The document webhook *)

\* A COMPLETED document of a known agent is stored.  A later event of the
\* agreement may clear the countersignature again.
DocumentEvent(r, a, d, countersigned) ==
  /\ Known(a)
  /\ Write(a, WithDocument(agent[a], d, TRUE, countersigned))
  /\ Start(r, "evaluate", a, TRUE, a)
  /\ UNCHANGED accountVars

\* Mutant: a provisioned agent may be issued another activation.
MayIssueAgain(a) ==
  /\ agent[a].status = "APPROVED"
  /\ DocumentsComplete(a)
  /\ agent[a].gates = Gates

\* evaluateAgentActivation
MayIssueActivation(a) ==
  /\ ~agent[a].provisioned
  /\ agent[a].status = "APPROVED"
  /\ DocumentsComplete(a)
  /\ agent[a].gates = Gates

\* The policy is evaluated on the stored row.  An agent whose email is a
\* privileged user's is not provisioned.
EvaluatePolicy(r) ==
  LET a == request[r].agent IN
  /\ At(r, "evaluate")
  /\ IF MayIssueActivation(a) /\ a \notin Privileged THEN Goto(r, "create") ELSE Done(r)
  /\ UNCHANGED <<agent, accountVars>>

\* Mutant: the user takes over the status of the agent.
CreateUserAsAgent(r) ==
  LET a == request[r].agent IN
  /\ At(r, "create")
  /\ user' = [user EXCEPT ![a].status = IF @ = "NONE" THEN agent[a].status ELSE @]
  /\ Goto(r, "provision")
  /\ UNCHANGED <<agent, live, mailed, minted, issued, activations>>

\* Whoever loses the race for the unique email picks up the winner's row.
CreateUser(r) ==
  LET a == request[r].agent IN
  /\ At(r, "create")
  /\ user' = [user EXCEPT ![a].status = IF @ = "NONE" THEN "INVITED" ELSE @]
  /\ Goto(r, "provision")
  /\ UNCHANGED <<agent, live, mailed, minted, issued, activations>>

ProvisionAgent(r) ==
  LET a == request[r].agent IN
  /\ At(r, "provision")
  /\ Write(a, [agent[a] EXCEPT !.provisioned = TRUE])
  /\ Goto(r, "revoke")
  /\ UNCHANGED accountVars

-----------------------------------------------------------------------------
(* createActivation, for the webhook and for an admin who resends the link *)

ReadResend(r, a) ==
  /\ agent[a].status = "APPROVED"
  /\ agent[a].provisioned
  /\ user[a].status = "INVITED"
  /\ DocumentsComplete(a)
  /\ Start(r, "revoke", a, FALSE, a)
  /\ UNCHANGED <<agent, accountVars>>

\* The transaction uses up the tokens that are committed when it runs ...
RevokeTokens(r) ==
  /\ At(r, "revoke")
  /\ request' = [request EXCEPT ![r].call = "issue",
                                ![r].old = live[request[r].agent]]
  /\ UNCHANGED <<agent, accountVars>>

\* Mutant: the tokens of the user stay valid.
WithNewToken(tokens, old, t) == tokens \union {t}

\* The user's tokens once the transaction is committed
Replaced(tokens, old, t) == (tokens \ old) \union {t}

\* ... and commits with a new one.
IssueToken(r) ==
  LET a == request[r].agent IN
  /\ At(r, "issue")
  /\ \E t \in Tokens \ UNION {minted[b] : b \in Agents} :
       /\ live' = [live EXCEPT ![a] = Replaced(@, request[r].old, t)]
       /\ request' = [request EXCEPT ![r].call = "mail", ![r].token = t]
       /\ minted' = [minted EXCEPT ![a] = @ \union {t}]
       /\ issued' = [issued EXCEPT
                       ![a] = IF request[r].byWebhook THEN @ \union {t} ELSE @]
  /\ UNCHANGED <<agent, user, mailed, activations>>

\* The mail is sent, or the mail server refuses it.
MailLink(r) ==
  /\ At(r, "mail")
  /\ \E sent \in BOOLEAN :
       mailed' = IF sent THEN mailed \union {request[r].token} ELSE mailed
  /\ Done(r)
  /\ UNCHANGED <<agent, user, live, minted, issued, activations>>

-----------------------------------------------------------------------------
(* Activation *)

\* 72 hours pass.
ExpireToken(a, t) ==
  /\ t \in live[a]
  /\ live' = [live EXCEPT ![a] = @ \ {t}]
  /\ UNCHANGED <<agent, user, mailed, request, minted, issued, activations>>

\* loadActivation, the code of the authenticator and the password's hash
ReadActivation(r, a, t) ==
  /\ t \in mailed \intersect live[a]
  /\ user[a].status # "DISABLED"
  /\ Start(r, "consume", a, FALSE, t)
  /\ UNCHANGED <<agent, accountVars>>

\* Mutant: the token that was read is consumed by id.
ConsumableByRead(a, t) ==
  /\ t \in minted[a]
  /\ user[a].status # "DISABLED"

\* The compare-and-set on the token, and the second look at the user
Consumable(a, t) ==
  /\ t \in live[a]
  /\ user[a].status # "DISABLED"

ConsumeToken(r) ==
  LET q == request[r] IN
  /\ At(r, "consume")
  /\ IF Consumable(q.agent, q.token)
     THEN live' = [live EXCEPT ![q.agent] = @ \ {q.token}] /\ Goto(r, "activate")
     ELSE Done(r) /\ UNCHANGED live
  /\ UNCHANGED <<agent, user, mailed, minted, issued, activations>>

\* The rest of that transaction: the user is updated by id.
ActivateUser(r) ==
  LET a == request[r].agent IN
  /\ At(r, "activate")
  /\ user' = [user EXCEPT ![a] = [status |-> "ACTIVE", password |-> TRUE]]
  /\ activations' = [activations EXCEPT ![a] = @ + 1]
  /\ Done(r)
  /\ UNCHANGED <<agent, live, mailed, minted, issued>>

\* The users page sets a status.
SaveUser(a, status) ==
  /\ user[a].status # "NONE"
  /\ status \in Assignable
  /\ user' = [user EXCEPT ![a].status = status]
  /\ UNCHANGED <<agent, live, mailed, request, minted, issued, activations>>

-----------------------------------------------------------------------------
(* Certification *)

\* The certify page of an agent approves ACTIVE, documented agents only; no
\* code makes an agent ACTIVE.
CertifyAgent(a, approving) ==
  /\ Known(a)
  /\ approving => agent[a].status = "ACTIVE" /\ agent[a].complete = Documents
  /\ Write(a, [agent[a] EXCEPT !.canClaim = approving])
  /\ UNCHANGED <<accountVars, request>>

\* The certification page takes any decision for any agent.
Certify(a, approving) ==
  /\ Known(a)
  /\ Write(a, [agent[a] EXCEPT !.canClaim = approving])
  /\ UNCHANGED <<accountVars, request>>

-----------------------------------------------------------------------------

Review ==
  \/ \E a \in Agents : ConfirmCall(a)
  \/ \E r \in Requests, a \in Agents :
       \/ ReadApprove(r, a)
       \/ \E call \in Declines : ReadDecline(r, a, call)
  \/ \E r \in Requests : WriteReview(r)

Record ==
  \E a \in Agents :
    \/ \E d \in Documents, completed, countersigned \in BOOLEAN :
         RecordDocument(a, d, completed, countersigned)
    \/ \E g \in Gates, recording \in BOOLEAN : RecordGate(a, g, recording)
    \/ \E approving \in BOOLEAN : CertifyAgent(a, approving) \/ Certify(a, approving)
    \/ \E status \in Assignable : SaveUser(a, status)

Provision ==
  \E r \in Requests :
    \/ \E a \in Agents, d \in Documents, countersigned \in BOOLEAN :
         DocumentEvent(r, a, d, countersigned)
    \/ EvaluatePolicy(r) \/ CreateUser(r) \/ ProvisionAgent(r)

Activation ==
  \/ \E r \in Requests, a \in Agents :
       ReadResend(r, a) \/ \E t \in Tokens : ReadActivation(r, a, t)
  \/ \E r \in Requests :
       \/ RevokeTokens(r) \/ IssueToken(r) \/ MailLink(r)
       \/ ConsumeToken(r) \/ ActivateUser(r)
  \/ \E a \in Agents, t \in Tokens : ExpireToken(a, t)

Next ==
  \/ \E r \in Requests : Abandon(r) \/ LinkContact(r) \/ \E a \in Agents : SignUp(r, a)
  \/ Review \/ Record \/ Provision \/ Activation

Spec == Init /\ [][Next]_vars

-----------------------------------------------------------------------------
(* Properties *)

\* Whoever can sign in with an applicant's email was called by a reviewer, is
\* linked to a GoHighLevel contact and was provisioned by the webhook: no order
\* of reviews, events, resent links and changes of access gets around that.
SignInIsEarned ==
  \A a \in Agents :
    user[a].status = "ACTIVE" /\ user[a].password =>
      agent[a].confirmed /\ agent[a].linked /\ agent[a].provisioned

\* No applicant is activated more often than links were issued to it, however many
\* requests present a link at the same time.  Activations are counted for the
\* applicant, not for the link.
LinksWorkOnce ==
  \A a \in Agents : activations[a] <= Cardinality(minted[a])

\* Document events can issue a second activation only while they overlap: no
\* more are ever issued than requests were served at the same time.
OverlapBoundsIssues ==
  \A a \in Agents : Cardinality(issued[a]) <= Cardinality(Requests)

\* A resent link replaces the earlier ones: an applicant never has more valid
\* links than requests are served at the same time, so only one where they are
\* served one after the other.
LiveLinksBounded ==
  \A a \in Agents : Cardinality(live[a]) <= Cardinality(Requests)
=============================================================================
