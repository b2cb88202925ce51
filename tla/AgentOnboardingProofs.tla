------------------------ MODULE AgentOnboardingProofs ------------------------
(***************************************************************************)
(* Theorems about AgentOnboarding, for any applicants, documents and gates,*)
(* any number of activation links and any number of requests at a time.    *)
(***************************************************************************)
EXTENDS AgentOnboarding, FiniteSetTheorems, TLAPS

-----------------------------------------------------------------------------
(* Types *)

\* A request that is not idle is one in flight.
LEMMA InFlight ==
  ASSUME TypeOK, NEW r \in Requests
  PROVE  /\ request[r].call # "none" => request[r] \in Pending
         /\ \A call \in Calls : At(r, call) => request[r] \in Pending
  <1>1. request[r] \in Pending \union {Idle} /\ "none" \notin Calls
    BY DEF TypeOK, Calls
  <1>2. Idle.call = "none"
    BY DEF Idle
  <1> QED  BY <1>1, <1>2 DEF At

\* Requests start, go on and end as requests.
LEMMA RequestTypes ==
  ASSUME TypeOK, NEW r \in Requests
  PROVE  /\ Done(r) => request' \in [Requests -> Pending \union {Idle}]
         /\ \A call \in Calls :
              Goto(r, call) /\ request[r].call # "none" =>
                request' \in [Requests -> Pending \union {Idle}]
         /\ \A call \in Calls, a \in Agents, byWebhook \in BOOLEAN, t \in Tokens \union Agents :
              Start(r, call, a, byWebhook, t) =>
                request' \in [Requests -> Pending \union {Idle}]
  <1>1. Done(r) => request' \in [Requests -> Pending \union {Idle}]
    BY DEF Done, TypeOK
  <1>2. ASSUME NEW call \in Calls, Goto(r, call), request[r].call # "none"
        PROVE  request' \in [Requests -> Pending \union {Idle}]
    <2>1. request[r] \in Pending
      BY <1>2, InFlight
    <2>2. [request[r] EXCEPT !.call = call] \in Pending
      BY <2>1 DEF Pending
    <2> QED  BY <1>2, <2>2 DEF Goto, TypeOK
  <1>3. ASSUME NEW call \in Calls, NEW a \in Agents, NEW byWebhook \in BOOLEAN,
               NEW t \in Tokens \union Agents, Start(r, call, a, byWebhook, t)
        PROVE  request' \in [Requests -> Pending \union {Idle}]
    <2>1. [call |-> call, agent |-> a, byWebhook |-> byWebhook, old |-> {}, token |-> t] \in Pending
      BY DEF Pending
    <2> QED  BY <1>3, <2>1 DEF Start, TypeOK
  <1> QED  BY <1>1, <1>2, <1>3

\* A step that writes at most a row of an agent, and moves a request.
LEMMA AgentStepType ==
  ASSUME TypeOK, UNCHANGED accountVars,
         request' \in [Requests -> Pending \union {Idle}],
         \/ agent' = agent
         \/ \E a \in Agents, row \in AgentRow : Write(a, row)
  PROVE  TypeOK'
  BY DEF TypeOK, accountVars, Write

\* A document or its lack is part of a row.
LEMMA WithDocumentType ==
  ASSUME TypeOK, NEW a \in Agents, NEW d \in Documents,
         NEW completed \in BOOLEAN, NEW countersigned \in BOOLEAN
  PROVE  WithDocument(agent[a], d, completed, countersigned) \in AgentRow
  <1>1. agent[a] \in AgentRow
    BY DEF TypeOK
  <1> QED  BY <1>1 DEF WithDocument, AgentRow

\* The steps of the sign-up, the review, the pages and the policy
LEMMA PageTypes ==
  ASSUME TypeOK,
         \/ \E r \in Requests : Abandon(r) \/ LinkContact(r) \/ \E a \in Agents : SignUp(r, a)
         \/ Review \/ Record
  PROVE  TypeOK'
  <1>0. \A a \in Agents : agent[a] \in AgentRow
    BY DEF TypeOK
  <1>1. ASSUME NEW r \in Requests, Abandon(r)
        PROVE  TypeOK'
    BY <1>1, RequestTypes, AgentStepType DEF Abandon
  <1>2. ASSUME NEW r \in Requests, LinkContact(r)
        PROVE  TypeOK'
    <2>1. request[r].agent \in Agents
      BY <1>2, InFlight DEF LinkContact, Calls, Pending
    <2>2. [agent[request[r].agent] EXCEPT !.linked = TRUE] \in AgentRow
      BY <1>0, <2>1 DEF AgentRow
    <2> QED  BY <1>2, <2>1, <2>2, RequestTypes, AgentStepType DEF LinkContact
  <1>3. ASSUME NEW r \in Requests, NEW a \in Agents, SignUp(r, a)
        PROVE  TypeOK'
    <2>1. [agent[a] EXCEPT !.status = "SUBMITTED"] \in AgentRow
      BY <1>0 DEF AgentRow, AgentStatuses
    <2>2. "link" \in Calls
      BY DEF Calls
    <2> QED  BY <1>3, <2>1, <2>2, RequestTypes, AgentStepType DEF SignUp
  <1>4. ASSUME NEW a \in Agents, ConfirmCall(a)
        PROVE  TypeOK'
    <2>1. [agent[a] EXCEPT !.confirmed = TRUE] \in AgentRow
      BY <1>0 DEF AgentRow
    <2> QED  BY <1>4, <2>1, AgentStepType DEF ConfirmCall, TypeOK
  <1>5. ASSUME NEW r \in Requests, NEW a \in Agents, ReadApprove(r, a)
        PROVE  TypeOK'
    <2>1. "approve" \in Calls
      BY DEF Calls
    <2> QED  BY <1>5, <2>1, RequestTypes, AgentStepType DEF ReadApprove
  <1>6. ASSUME NEW r \in Requests, NEW a \in Agents, NEW call \in Declines, ReadDecline(r, a, call)
        PROVE  TypeOK'
    <2>1. call \in Calls
      BY OnboardingConstants DEF Calls
    <2> QED  BY <1>6, <2>1, RequestTypes, AgentStepType DEF ReadDecline
  <1>7. ASSUME NEW r \in Requests, WriteReview(r)
        PROVE  TypeOK'
    <2>1. request[r].agent \in Agents
      BY <1>7, InFlight DEF WriteReview, Calls, Pending
    <2>2. PICK status \in AgentStatuses : Write(request[r].agent, [agent[request[r].agent] EXCEPT !.status = status])
      BY <1>7 DEF WriteReview, AgentStatuses
    <2>3. [agent[request[r].agent] EXCEPT !.status = status] \in AgentRow
      BY <1>0, <2>1 DEF AgentRow
    <2> QED  BY <1>7, <2>1, <2>2, <2>3, RequestTypes, AgentStepType DEF WriteReview
  <1>8. ASSUME NEW a \in Agents, NEW d \in Documents, NEW completed \in BOOLEAN,
               NEW countersigned \in BOOLEAN, RecordDocument(a, d, completed, countersigned)
        PROVE  TypeOK'
    BY <1>8, WithDocumentType, AgentStepType DEF RecordDocument, TypeOK
  <1>9. ASSUME NEW a \in Agents, NEW g \in Gates, NEW recording \in BOOLEAN, RecordGate(a, g, recording)
        PROVE  TypeOK'
    <2>1. [agent[a] EXCEPT !.gates = IF recording THEN @ \union {g} ELSE @ \ {g}] \in AgentRow
      BY <1>0 DEF AgentRow
    <2> QED  BY <1>9, <2>1, AgentStepType DEF RecordGate, TypeOK
  <1>10. ASSUME NEW a \in Agents, NEW approving \in BOOLEAN,
                CertifyAgent(a, approving) \/ Certify(a, approving)
         PROVE  TypeOK'
    <2>1. [agent[a] EXCEPT !.canClaim = approving] \in AgentRow
      BY <1>0 DEF AgentRow
    <2> QED  BY <1>10, <2>1, AgentStepType DEF CertifyAgent, Certify, TypeOK
  <1>11. ASSUME NEW a \in Agents, NEW status \in Assignable, SaveUser(a, status)
         PROVE  TypeOK'
    <2>1. status \in UserStatuses
      BY OnboardingConstants DEF UserStatuses
    <2> QED  BY <1>11, <2>1 DEF SaveUser, TypeOK
  <1> QED  BY <1>1, <1>2, <1>3, <1>4, <1>5, <1>6, <1>7, <1>8, <1>9, <1>10, <1>11 DEF Review, Record

\* The steps of the document webhook
LEMMA ProvisionTypes ==
  ASSUME TypeOK, Provision
  PROVE  TypeOK'
  <1>0. {"evaluate", "create", "provision", "revoke"} \subseteq Calls
    BY DEF Calls
  <1>1. ASSUME NEW r \in Requests, NEW a \in Agents, NEW d \in Documents,
               NEW countersigned \in BOOLEAN, DocumentEvent(r, a, d, countersigned)
        PROVE  TypeOK'
    BY <1>0, <1>1, WithDocumentType, RequestTypes, AgentStepType DEF DocumentEvent
  <1>2. ASSUME NEW r \in Requests, EvaluatePolicy(r)
        PROVE  TypeOK'
    BY <1>0, <1>2, RequestTypes, AgentStepType DEF EvaluatePolicy, At
  <1>3. ASSUME NEW r \in Requests, CreateUser(r)
        PROVE  TypeOK'
    <2>1. request' \in [Requests -> Pending \union {Idle}]
      BY <1>0, <1>3, RequestTypes DEF CreateUser, At
    <2>2. user' \in [Agents -> [status: UserStatuses, password: BOOLEAN]]
      BY <1>3 DEF CreateUser, TypeOK, UserStatuses
    <2> QED  BY <1>3, <2>1, <2>2 DEF CreateUser, TypeOK
  <1>4. ASSUME NEW r \in Requests, ProvisionAgent(r)
        PROVE  TypeOK'
    <2>1. request[r].agent \in Agents
      BY <1>0, <1>4, InFlight DEF ProvisionAgent, Pending
    <2>2. [agent[request[r].agent] EXCEPT !.provisioned = TRUE] \in AgentRow
      <3>1. agent[request[r].agent] \in AgentRow
        BY <2>1 DEF TypeOK
      <3> QED  BY <3>1 DEF AgentRow
    <2> QED  BY <1>0, <1>4, <2>1, <2>2, RequestTypes, AgentStepType DEF ProvisionAgent, At
  <1> QED  BY <1>1, <1>2, <1>3, <1>4 DEF Provision

\* A link that is being mailed is one.
LinksAreTokens == \A r \in Requests : At(r, "mail") => request[r].token \in Tokens

\* The steps of the links
LEMMA ActivationTypes ==
  ASSUME TypeOK, LinksAreTokens, Activation
  PROVE  TypeOK'
  <1>0. {"revoke", "issue", "mail", "consume", "activate"} \subseteq Calls
    BY DEF Calls
  <1>1. ASSUME NEW r \in Requests, NEW a \in Agents, ReadResend(r, a)
        PROVE  TypeOK'
    BY <1>0, <1>1, RequestTypes, AgentStepType DEF ReadResend
  <1>2. ASSUME NEW r \in Requests, NEW a \in Agents, NEW t \in Tokens, ReadActivation(r, a, t)
        PROVE  TypeOK'
    BY <1>0, <1>2, RequestTypes, AgentStepType DEF ReadActivation
  <1>3. ASSUME NEW r \in Requests, RevokeTokens(r)
        PROVE  TypeOK'
    <2>1. request[r] \in Pending
      BY <1>0, <1>3, InFlight DEF RevokeTokens
    <2>2. live[request[r].agent] \subseteq Tokens
      BY <2>1 DEF TypeOK, Pending
    <2>3. [request[r] EXCEPT !.call = "issue", !.old = live[request[r].agent]] \in Pending
      BY <1>0, <2>1, <2>2 DEF Pending
    <2>4. request' \in [Requests -> Pending \union {Idle}]
      BY <1>3, <2>3 DEF RevokeTokens, TypeOK
    <2> QED  BY <1>3, <2>4, AgentStepType DEF RevokeTokens
  <1>4. ASSUME NEW r \in Requests, IssueToken(r)
        PROVE  TypeOK'
    <2>1. request[r] \in Pending /\ request[r].agent \in Agents
      BY <1>0, <1>4, InFlight DEF IssueToken, Pending
    <2>2. PICK t \in Tokens :
            /\ live' = [live EXCEPT ![request[r].agent] = Replaced(@, request[r].old, t)]
            /\ request' = [request EXCEPT ![r].call = "mail", ![r].token = t]
            /\ minted' = [minted EXCEPT ![request[r].agent] = @ \union {t}]
            /\ issued' = [issued EXCEPT
                 ![request[r].agent] = IF request[r].byWebhook THEN @ \union {t} ELSE @]
      BY <1>4 DEF IssueToken
    <2>3. [request[r] EXCEPT !.call = "mail", !.token = t] \in Pending
      BY <1>0, <2>1 DEF Pending
    <2>4. request' \in [Requests -> Pending \union {Idle}]
      BY <2>2, <2>3 DEF TypeOK
    <2>5. live' \in [Agents -> SUBSET Tokens] /\ minted' \in [Agents -> SUBSET Tokens]
      BY <2>1, <2>2 DEF Replaced, TypeOK
    <2>6. issued' \in [Agents -> SUBSET Tokens]
      BY <2>1, <2>2 DEF TypeOK
    <2> QED  BY <1>4, <2>4, <2>5, <2>6 DEF IssueToken, TypeOK
  <1>5. ASSUME NEW r \in Requests, MailLink(r)
        PROVE  TypeOK'
    <2>1. mailed' \subseteq Tokens
      <3>1. request[r].token \in Tokens
        BY <1>5 DEF MailLink, LinksAreTokens
      <3> QED  BY <1>5, <3>1 DEF MailLink, TypeOK
    <2> QED  BY <1>5, <2>1, RequestTypes DEF MailLink, TypeOK
  <1>6. ASSUME NEW a \in Agents, NEW t \in Tokens, ExpireToken(a, t)
        PROVE  TypeOK'
    BY <1>6 DEF ExpireToken, TypeOK
  <1>7. ASSUME NEW r \in Requests, ConsumeToken(r)
        PROVE  TypeOK'
    <2>1. request' \in [Requests -> Pending \union {Idle}]
      BY <1>0, <1>7, RequestTypes DEF ConsumeToken, At
    <2>2. live' \in [Agents -> SUBSET Tokens]
      BY <1>7 DEF ConsumeToken, TypeOK
    <2> QED  BY <1>7, <2>1, <2>2 DEF ConsumeToken, TypeOK
  <1>8. ASSUME NEW r \in Requests, ActivateUser(r)
        PROVE  TypeOK'
    <2>1. request[r].agent \in Agents
      BY <1>0, <1>8, InFlight DEF ActivateUser, Pending
    <2>2. user' \in [Agents -> [status: UserStatuses, password: BOOLEAN]]
      BY <1>8, <2>1 DEF ActivateUser, TypeOK, UserStatuses
    <2>3. activations' \in [Agents -> Nat]
      BY <1>8, <2>1 DEF ActivateUser, TypeOK
    <2> QED  BY <1>8, <2>2, <2>3, RequestTypes DEF ActivateUser, TypeOK
  <1> QED  BY <1>1, <1>2, <1>3, <1>4, <1>5, <1>6, <1>7, <1>8 DEF Activation

\* The steps on the way from a complete applicant to an activated user
LinkStep(r) ==
  \/ EvaluatePolicy(r) \/ CreateUser(r) \/ ProvisionAgent(r)
  \/ RevokeTokens(r) \/ IssueToken(r) \/ ConsumeToken(r) \/ ActivateUser(r)

\* A step that keeps the links and their history but for links that end, and
\* starts or ends requests, or none
Aside ==
  /\ UNCHANGED <<minted, issued, activations>>
  /\ \A a \in Agents : live'[a] \subseteq live[a]
  /\ \A q \in Requests :
       \/ request'[q] = request[q]
       \/ request'[q].call = "none" /\ request[q].call # "activate"
       \/ /\ request[q].call = "none"
          /\ request'[q].call \in {"link", "approve", "correct", "reject", "evaluate",
                                   "revoke", "consume"}
          /\ request'[q].call = "revoke" => request'[q].byWebhook = FALSE

\* Whoever starts a request or ends one leaves the others alone.
LEMMA StartsAndEnds ==
  ASSUME TypeOK, NEW r \in Requests, UNCHANGED <<live, minted, issued, activations>>,
         \/ Done(r) /\ request[r].call # "activate"
         \/ \E call \in {"link", "approve", "correct", "reject", "evaluate", "revoke", "consume"},
               a \in Agents, byWebhook \in BOOLEAN, t \in Tokens \union Agents :
              Start(r, call, a, byWebhook, t) /\ (call = "revoke" => byWebhook = FALSE)
  PROVE  Aside
  <1>0. Idle.call = "none"
    BY DEF Idle
  <1>1. CASE Done(r) /\ request[r].call # "activate"
    BY <1>0, <1>1 DEF Done, TypeOK, Aside
  <1>2. ASSUME NEW call \in {"link", "approve", "correct", "reject", "evaluate", "revoke", "consume"},
               NEW a \in Agents, NEW byWebhook \in BOOLEAN, NEW t \in Tokens \union Agents,
               Start(r, call, a, byWebhook, t), call = "revoke" => byWebhook = FALSE
        PROVE  Aside
    <2>1. request[r].call = "none" /\ request'[r].call = call /\ request'[r].byWebhook = byWebhook
      BY <1>0, <1>2 DEF Start, TypeOK
    <2>2. \A q \in Requests \ {r} : request'[q] = request[q]
      BY <1>2 DEF Start, TypeOK
    <2> QED  BY <1>2, <2>1, <2>2 DEF Aside
  <1> QED  BY <1>1, <1>2

\* A step is one of those or one on the way to an activated user.
LEMMA StepsOfOnboarding ==
  ASSUME TypeOK, Next
  PROVE  Aside \/ \E r \in Requests : LinkStep(r)
  <1>1. ASSUME NEW r \in Requests, Abandon(r) \/ LinkContact(r) \/ WriteReview(r) \/ MailLink(r)
        PROVE  Aside
    <2>1. request[r].call # "activate" /\ Done(r)
      BY <1>1 DEF Abandon, LinkContact, WriteReview, MailLink, At
    <2> QED  BY <1>1, <2>1, StartsAndEnds
         DEF Abandon, LinkContact, WriteReview, MailLink, accountVars
  <1>2. ASSUME NEW r \in Requests, NEW a \in Agents,
               SignUp(r, a) \/ ReadApprove(r, a) \/ ReadResend(r, a)
        PROVE  Aside
    BY <1>2, StartsAndEnds DEF SignUp, ReadApprove, ReadResend, accountVars
  <1>3. ASSUME NEW r \in Requests, NEW a \in Agents, NEW call \in Declines, ReadDecline(r, a, call)
        PROVE  Aside
    <2>1. call \in {"correct", "reject"}
      BY OnboardingConstants
    <2> QED  BY <1>3, <2>1, StartsAndEnds DEF ReadDecline, accountVars
  <1>4. ASSUME NEW r \in Requests, NEW a \in Agents, NEW d \in Documents,
               NEW countersigned \in BOOLEAN, DocumentEvent(r, a, d, countersigned)
        PROVE  Aside
    BY <1>4, StartsAndEnds DEF DocumentEvent, accountVars
  <1>5. ASSUME NEW r \in Requests, NEW a \in Agents, NEW t \in Tokens, ReadActivation(r, a, t)
        PROVE  Aside
    BY <1>5, StartsAndEnds DEF ReadActivation, accountVars
  <1>6. ASSUME \/ \E a \in Agents : ConfirmCall(a)
               \/ Record
        PROVE  Aside
    BY <1>6 DEF ConfirmCall, Record, RecordDocument, RecordGate, CertifyAgent, Certify, SaveUser,
                accountVars, Aside
  <1>7. ASSUME NEW a \in Agents, NEW t \in Tokens, ExpireToken(a, t)
        PROVE  Aside
    BY <1>7 DEF ExpireToken, TypeOK, Aside
  <1> QED  BY <1>1, <1>2, <1>3, <1>4, <1>5, <1>6, <1>7
       DEF Next, Review, Provision, Activation, LinkStep

LEMMA OnboardingInvariant == Spec => [](TypeOK /\ LinksAreTokens)
  <1>0. Idle.call = "none"
    BY DEF Idle
  <1>1. Init => TypeOK /\ LinksAreTokens
    <2> SUFFICES ASSUME Init PROVE TypeOK /\ LinksAreTokens
      OBVIOUS
    <2>1. agent \in [Agents -> AgentRow]
      BY DEF Init, AgentRow, AgentStatuses
    <2>2. user \in [Agents -> [status: UserStatuses, password: BOOLEAN]]
      BY DEF Init, UserStatuses
    <2> QED  BY <1>0, <2>1, <2>2 DEF Init, TypeOK, LinksAreTokens, At
  <1>2. TypeOK /\ LinksAreTokens /\ [Next]_vars => TypeOK'
    <2>1. TypeOK /\ UNCHANGED vars => TypeOK'
      BY DEF TypeOK, vars
    <2> QED  BY <2>1, PageTypes, ProvisionTypes, ActivationTypes DEF Next
  <1>3. TypeOK /\ LinksAreTokens /\ [Next]_vars => LinksAreTokens'
    <2> SUFFICES ASSUME TypeOK, LinksAreTokens, [Next]_vars, NEW q \in Requests, At(q, "mail")'
                 PROVE  request'[q].token \in Tokens
      BY DEF LinksAreTokens
    <2>1. CASE UNCHANGED vars
      BY <2>1 DEF vars, LinksAreTokens, At
    <2>2. CASE Aside
      BY <2>2 DEF Aside, LinksAreTokens, At
    <2>3. ASSUME NEW r \in Requests, IssueToken(r)
          PROVE  request'[q].token \in Tokens
      <3>1. PICK t \in Tokens : request' = [request EXCEPT ![r].call = "mail", ![r].token = t]
        BY <2>3 DEF IssueToken
      <3>2. request[r] \in Pending
        BY <2>3, InFlight DEF IssueToken, Calls
      <3> QED  BY <3>1, <3>2 DEF LinksAreTokens, At, TypeOK, Pending
    <2>4. ASSUME NEW r \in Requests, LinkStep(r), ~IssueToken(r)
          PROVE  request'[q].token \in Tokens
      <3>1. request[r].call # "none" => request[r] \in Pending
        BY InFlight
      <3>2. request'[r].call # "mail"
        BY <1>0, <2>4, <3>1
           DEF LinkStep, EvaluatePolicy, CreateUser, ProvisionAgent, RevokeTokens, ConsumeToken,
               ActivateUser, Goto, Done, At, TypeOK, Pending
      <3>3. \A p \in Requests \ {r} : request'[p] = request[p]
        BY <2>4 DEF LinkStep, EvaluatePolicy, CreateUser, ProvisionAgent, RevokeTokens,
               ConsumeToken, ActivateUser, Goto, Done, TypeOK
      <3> QED  BY <3>2, <3>3 DEF LinksAreTokens, At
    <2> QED  BY <2>1, <2>2, <2>3, <2>4, StepsOfOnboarding
  <1> QED  BY <1>1, <1>2, <1>3, PTL DEF Spec

\* The rows, links and requests have their types in every reachable state; what
\* is mailed is a link.
THEOREM OnboardingTypeCorrect == Spec => []TypeOK
  BY OnboardingInvariant, PTL

-----------------------------------------------------------------------------
(* Who can sign in *)

Called(a) == agent[a].confirmed /\ agent[a].linked

Earned(a) == Called(a) /\ agent[a].provisioned

\* What a request on the way to an activation relies on, and what is never taken
\* back: so it need not be looked at again.
RequestIsEarned(r) ==
  /\ request[r].call \in {"approve", "create", "provision"} => Called(request[r].agent)
  /\ request[r].call \in {"revoke", "issue", "consume", "activate"} => Earned(request[r].agent)

\* SignInIsEarned is inductive with what approvals, links and requests need.
EarnedInv ==
  /\ \A a \in Agents :
       /\ agent[a].status = "APPROVED" => Called(a)
       /\ user[a].password \/ live[a] # {} => Earned(a)
  /\ \A r \in Requests : RequestIsEarned(r)

\* Nothing unconfirms, unlinks or deprovisions an applicant, and only a reviewer
\* who found it confirmed and linked approves one.
LEMMA RowsGrow ==
  ASSUME TypeOK, Next, NEW a \in Agents
  PROVE  /\ Called(a) => Called(a)'
         /\ Earned(a) => Earned(a)'
         /\ agent'[a].status = "APPROVED" =>
              \/ agent[a].status = "APPROVED"
              \/ \E r \in Requests : At(r, "approve") /\ request[r].agent = a
  <1> DEFINE Grows(row) ==
               /\ agent[a].confirmed => row.confirmed
               /\ agent[a].linked => row.linked
               /\ agent[a].provisioned => row.provisioned
               /\ row.status = "APPROVED" =>
                    \/ agent[a].status = "APPROVED"
                    \/ \E r \in Requests : At(r, "approve") /\ request[r].agent = a
  <1>0. agent[a] \in AgentRow
    BY DEF TypeOK
  <1> SUFFICES Grows(agent'[a])
    BY DEF Called, Earned
  <1>1. agent' = agent => Grows(agent'[a])
    OBVIOUS
  <1>2. ASSUME NEW b \in Agents, NEW row, Write(b, row), b = a => Grows(row)
        PROVE  Grows(agent'[a])
    BY <1>2 DEF Write, TypeOK
  <1> HIDE DEF Grows
  <1>3. ASSUME NEW r \in Requests, LinkContact(r)
        PROVE  Grows(agent'[a])
    <2>1. request[r].agent \in Agents
      BY <1>3, InFlight DEF LinkContact, Calls, Pending
    <2>2. Grows([agent[a] EXCEPT !.linked = TRUE])
      BY <1>0 DEF Grows, AgentRow
    <2> QED  BY <1>2, <1>3, <2>1, <2>2 DEF LinkContact
  <1>4. ASSUME NEW b \in Agents, NEW r \in Requests, SignUp(r, b)
        PROVE  Grows(agent'[a])
    <2>1. Grows([agent[a] EXCEPT !.status = "SUBMITTED"])
      BY <1>0 DEF Grows, AgentRow
    <2> QED  BY <1>2, <1>4, <2>1 DEF SignUp
  <1>5. ASSUME NEW b \in Agents, ConfirmCall(b)
        PROVE  Grows(agent'[a])
    <2>1. Grows([agent[a] EXCEPT !.confirmed = TRUE])
      BY <1>0 DEF Grows, AgentRow
    <2> QED  BY <1>2, <1>5, <2>1 DEF ConfirmCall
  <1>6. ASSUME NEW r \in Requests, WriteReview(r)
        PROVE  Grows(agent'[a])
    <2>1. request[r].agent \in Agents
      BY <1>6, InFlight DEF WriteReview, Calls, Pending
    <2>2. PICK status \in AgentStatuses :
            /\ Write(request[r].agent, [agent[request[r].agent] EXCEPT !.status = status])
            /\ status = "APPROVED" => At(r, "approve")
      BY <1>6 DEF WriteReview, AgentStatuses
    <2>3. request[r].agent = a => Grows([agent[a] EXCEPT !.status = status])
      BY <1>0, <2>2 DEF Grows, AgentRow
    <2> QED  BY <1>2, <2>1, <2>2, <2>3
  <1>7. ASSUME NEW b \in Agents, NEW d \in Documents, NEW completed \in BOOLEAN,
               NEW countersigned \in BOOLEAN,
               Write(b, WithDocument(agent[b], d, completed, countersigned))
        PROVE  Grows(agent'[a])
    <2>1. Grows(WithDocument(agent[a], d, completed, countersigned))
      BY <1>0 DEF Grows, AgentRow, WithDocument
    <2> QED  BY <1>2, <1>7, <2>1
  <1>8. ASSUME NEW b \in Agents, NEW g \in Gates, NEW recording \in BOOLEAN, RecordGate(b, g, recording)
        PROVE  Grows(agent'[a])
    <2>1. Grows([agent[a] EXCEPT !.gates = IF recording THEN @ \union {g} ELSE @ \ {g}])
      BY <1>0 DEF Grows, AgentRow
    <2> QED  BY <1>2, <1>8, <2>1 DEF RecordGate
  <1>9. ASSUME NEW b \in Agents, NEW approving \in BOOLEAN,
               CertifyAgent(b, approving) \/ Certify(b, approving)
        PROVE  Grows(agent'[a])
    <2>1. Grows([agent[a] EXCEPT !.canClaim = approving])
      BY <1>0 DEF Grows, AgentRow
    <2> QED  BY <1>2, <1>9, <2>1 DEF CertifyAgent, Certify
  <1>10. ASSUME NEW r \in Requests, ProvisionAgent(r)
         PROVE  Grows(agent'[a])
    <2>1. request[r].agent \in Agents
      BY <1>10, InFlight DEF ProvisionAgent, Calls, Pending
    <2>2. Grows([agent[a] EXCEPT !.provisioned = TRUE])
      BY <1>0 DEF Grows, AgentRow
    <2> QED  BY <1>2, <1>10, <2>1, <2>2 DEF ProvisionAgent
  <1>11. CASE Activation \/ \E r \in Requests : Abandon(r) \/ EvaluatePolicy(r) \/ CreateUser(r)
    BY <1>1, <1>11 DEF Activation, Abandon, EvaluatePolicy, CreateUser, ReadResend,
         ReadActivation, RevokeTokens, IssueToken, MailLink, ConsumeToken, ActivateUser, ExpireToken
  <1>12. CASE Provision
    BY <1>7, <1>10, <1>11, <1>12 DEF Provision, DocumentEvent
  <1>13. CASE Record
    BY <1>1, <1>7, <1>8, <1>9, <1>13 DEF Record, RecordDocument, SaveUser
  <1>14. CASE Review
    BY <1>1, <1>5, <1>6, <1>14 DEF Review, ReadApprove, ReadDecline
  <1> QED  BY <1>3, <1>4, <1>11, <1>12, <1>13, <1>14 DEF Next

\* A password comes from an activation, and a link from an issue.
LEMMA PasswordsAndLinks ==
  ASSUME TypeOK, Next, NEW a \in Agents
  PROVE  /\ user'[a].password =>
              user[a].password \/ \E r \in Requests : At(r, "activate") /\ request[r].agent = a
         /\ live'[a] # {} =>
              live[a] # {} \/ \E r \in Requests : At(r, "issue") /\ request[r].agent = a
  <1>1. user'[a].password =>
          user[a].password \/ \E r \in Requests : At(r, "activate") /\ request[r].agent = a
    <2>1. ASSUME NEW r \in Requests, ActivateUser(r)
          PROVE  user'[a].password => user[a].password \/ (At(r, "activate") /\ request[r].agent = a)
      BY <2>1 DEF ActivateUser, TypeOK
    <2>2. ASSUME \/ \E b \in Agents, status \in Assignable : SaveUser(b, status)
                 \/ \E r \in Requests : CreateUser(r)
          PROVE  user'[a].password = user[a].password
      <3>1. PICK b, status : user' = [user EXCEPT ![b].status = status]
        BY <2>2 DEF SaveUser, CreateUser
      <3>2. user[a] \in [status: UserStatuses, password: BOOLEAN]
        BY DEF TypeOK
      <3> QED  BY <3>1, <3>2 DEF TypeOK
    <2>3. \/ user' = user
          \/ \E r \in Requests : ActivateUser(r) \/ CreateUser(r)
          \/ \E b \in Agents, status \in Assignable : SaveUser(b, status)
      BY DEF Next, Review, Record, Provision, Activation, Abandon, LinkContact, SignUp,
             ConfirmCall, ReadApprove, ReadDecline, WriteReview, RecordDocument, RecordGate,
             CertifyAgent, Certify, DocumentEvent, EvaluatePolicy, ProvisionAgent, ReadResend,
             ReadActivation, RevokeTokens, IssueToken, MailLink, ConsumeToken, ExpireToken, accountVars
    <2> QED  BY <2>1, <2>2, <2>3
  <1>2. live'[a] # {} =>
          live[a] # {} \/ \E r \in Requests : At(r, "issue") /\ request[r].agent = a
    <2>1. ASSUME NEW r \in Requests, LinkStep(r)
          PROVE  live'[a] \subseteq live[a] \/ (At(r, "issue") /\ request[r].agent = a)
      BY <2>1 DEF LinkStep, EvaluatePolicy, CreateUser, ProvisionAgent, RevokeTokens, IssueToken,
                  ConsumeToken, ActivateUser, accountVars, TypeOK
    <2> QED  BY <2>1, StepsOfOnboarding DEF Aside
  <1> QED  BY <1>1, <1>2

\* A request that starts, or goes on, relies on what is so.
LEMMA RequestsAreEarned ==
  ASSUME TypeOK, EarnedInv, Next, NEW q \in Requests, request'[q] # request[q]
  PROVE  RequestIsEarned(q)'
  <1> DEFINE Relies == RequestIsEarned(q)'
  <1> SUFFICES Relies
    OBVIOUS
  <1>0. \A a \in Agents : (Called(a) => Called(a)') /\ (Earned(a) => Earned(a)')
    BY RowsGrow
  <1>1. ASSUME NEW r \in Requests, NEW call, NEW a \in Agents, NEW byWebhook, NEW t,
               Start(r, call, a, byWebhook, t),
               \/ call \in {"link", "correct", "reject", "evaluate"}
               \/ call = "approve" /\ Called(a)
               \/ call \in {"revoke", "consume"} /\ Earned(a)
        PROVE  Relies
    <2>1. request'[q].call = call /\ request'[q].agent = a
      BY <1>1 DEF Start, TypeOK
    <2> QED  BY <1>0, <1>1, <2>1 DEF RequestIsEarned, Called, Earned
  <1>2. ASSUME NEW r \in Requests, Done(r)
        PROVE  Relies
    BY <1>2 DEF Done, Idle, TypeOK, RequestIsEarned
  <1>3. ASSUME NEW r \in Requests, NEW call, Goto(r, call), request[r] \in Pending,
               request[r].agent \in Agents,
               /\ agent'[request[r].agent].confirmed /\ agent'[request[r].agent].linked
               /\ \/ call \in {"create", "provision"}
                  \/ call \in {"revoke", "activate"} /\ agent'[request[r].agent].provisioned
        PROVE  Relies
    <2>1. request'[q].call = call /\ request'[q].agent = request[r].agent
      BY <1>3 DEF Goto, TypeOK, Pending
    <2> QED  BY <1>3, <2>1 DEF RequestIsEarned, Called, Earned
  <1> HIDE DEF Relies
  <1>4. \A r \in Requests : Abandon(r) \/ LinkContact(r) \/ WriteReview(r) \/ MailLink(r)
                            \/ ActivateUser(r) => Relies
    BY <1>2 DEF Abandon, LinkContact, WriteReview, MailLink, ActivateUser
  <1>5. \A r \in Requests, a \in Agents : SignUp(r, a) \/ ReadApprove(r, a) => Relies
    BY <1>1 DEF SignUp, ReadApprove, Called
  <1>6. \A r \in Requests, a \in Agents, call \in Declines : ReadDecline(r, a, call) => Relies
    BY <1>1, OnboardingConstants DEF ReadDecline
  <1>7. \A r \in Requests, a \in Agents, d \in Documents, countersigned \in BOOLEAN :
          DocumentEvent(r, a, d, countersigned) => Relies
    BY <1>1 DEF DocumentEvent
  <1>8. ASSUME NEW r \in Requests, NEW a \in Agents, ReadResend(r, a)
        PROVE  Relies
    <2>1. Earned(a)
      BY <1>8 DEF ReadResend, EarnedInv, Earned
    <2> QED  BY <1>1, <1>8, <2>1 DEF ReadResend
  <1>9. ASSUME NEW r \in Requests, NEW a \in Agents, NEW t \in Tokens, ReadActivation(r, a, t)
        PROVE  Relies
    <2>1. Earned(a)
      BY <1>9 DEF ReadActivation, EarnedInv
    <2> QED  BY <1>1, <1>9, <2>1 DEF ReadActivation
  <1>10. ASSUME NEW r \in Requests, LinkStep(r)
         PROVE  Relies
    <2> DEFINE a == request[r].agent
    <2>1. request[r] \in Pending /\ a \in Agents
      BY <1>10, InFlight DEF LinkStep, EvaluatePolicy, CreateUser, ProvisionAgent, RevokeTokens,
           IssueToken, ConsumeToken, ActivateUser, Calls, Pending
    <2>2. /\ Called(request[r].agent) => agent'[a].confirmed /\ agent'[a].linked
          /\ Earned(request[r].agent) =>
               agent'[a].confirmed /\ agent'[a].linked /\ agent'[a].provisioned
      BY <1>0, <2>1 DEF Called, Earned
    <2>3. RequestIsEarned(r)
      BY DEF EarnedInv
    <2>4. EvaluatePolicy(r) => Relies
      <3>1. ASSUME MayIssueActivation(a) PROVE Called(a)
        BY <2>1, <3>1 DEF MayIssueActivation, EarnedInv
      <3> QED  BY <1>2, <2>1, <2>2, <3>1, <1>3 DEF EvaluatePolicy
    <2>5. CreateUser(r) => Relies
      BY <2>1, <2>2, <2>3, <1>3 DEF CreateUser, RequestIsEarned, At
    <2>6. ProvisionAgent(r) => Relies
      <3>1. ASSUME ProvisionAgent(r) PROVE agent'[a].provisioned
        BY <2>1, <3>1 DEF ProvisionAgent, Write, TypeOK, AgentRow
      <3> QED  BY <2>1, <2>2, <2>3, <3>1, <1>3 DEF ProvisionAgent, RequestIsEarned, At
    <2>7. ASSUME RevokeTokens(r) \/ IssueToken(r) PROVE Relies
      <3>1. agent'[a].confirmed /\ agent'[a].linked /\ agent'[a].provisioned
        BY <2>2, <2>3, <2>7 DEF RevokeTokens, IssueToken, RequestIsEarned, At
      <3>2. /\ request'[r].agent = a /\ request'[r].call \in {"issue", "mail"}
            /\ \A p \in Requests \ {r} : request'[p] = request[p]
        BY <2>1, <2>7 DEF RevokeTokens, IssueToken, TypeOK, Pending
      <3> QED  BY <2>1, <3>1, <3>2 DEF Relies, RequestIsEarned, Called, Earned
    <2>8. ConsumeToken(r) => Relies
      BY <1>2, <2>1, <2>2, <2>3, <1>3 DEF ConsumeToken, RequestIsEarned, At
    <2> QED  BY <1>4, <1>10, <2>4, <2>5, <2>6, <2>7, <2>8 DEF LinkStep
  <1>11. request' # request
    OBVIOUS
  <1> QED
    BY <1>4, <1>5, <1>6, <1>7, <1>8, <1>9, <1>10, <1>11
       DEF Next, Review, Record, Provision, Activation, LinkStep, ConfirmCall, RecordDocument,
           RecordGate, CertifyAgent, Certify, SaveUser, ExpireToken

LEMMA EarnedInvariant == Spec => []EarnedInv
  <1>1. Init => EarnedInv
    BY DEF Init, EarnedInv, RequestIsEarned, Idle
  <1>2. TypeOK /\ EarnedInv /\ [Next]_vars => EarnedInv'
    <2>1. EarnedInv /\ UNCHANGED vars => EarnedInv'
      BY DEF EarnedInv, RequestIsEarned, Called, Earned, vars
    <2>2. ASSUME TypeOK, EarnedInv, Next
          PROVE  EarnedInv'
      <3>1. ASSUME NEW a \in Agents
            PROVE  /\ agent'[a].status = "APPROVED" => Called(a)'
                   /\ user'[a].password \/ live'[a] # {} => Earned(a)'
        BY <2>2, RowsGrow, PasswordsAndLinks DEF EarnedInv, RequestIsEarned, At
      <3>2. ASSUME NEW q \in Requests
            PROVE  RequestIsEarned(q)'
        <4>1. CASE request'[q] # request[q]
          BY <2>2, <4>1, RequestsAreEarned
        <4>2. CASE request'[q] = request[q]
          <5>1. request[q].call # "none" => request[q].agent \in Agents
            BY <2>2, InFlight DEF Pending
          <5> QED  BY <2>2, <4>2, <5>1, RowsGrow DEF EarnedInv, RequestIsEarned
        <4> QED  BY <4>1, <4>2
      <3> QED  BY <3>1, <3>2 DEF EarnedInv
    <2> QED  BY <2>1, <2>2
  <1> QED  BY <1>1, <1>2, OnboardingInvariant, PTL DEF Spec

\* Whoever can sign in with an applicant's email was called by a reviewer, is
\* linked to a contact and was provisioned by the webhook, in whatever order the
\* reviews, events, resent links and changes of access come.
THEOREM SignInsAreEarned == Spec => []SignInIsEarned
  <1>1. EarnedInv => SignInIsEarned
    BY DEF EarnedInv, SignInIsEarned, Earned, Called
  <1> QED  BY <1>1, EarnedInvariant, PTL

-----------------------------------------------------------------------------
(* How many links *)

\* Sizes of links and of sets of requests
LEMMA Sizes ==
  ASSUME TypeOK
  PROVE  /\ \A s \in SUBSET Tokens : IsFiniteSet(s) /\ Cardinality(s) \in Nat
         /\ \A s \in SUBSET Requests : /\ IsFiniteSet(s) /\ Cardinality(s) \in Nat
                                       /\ Cardinality(s) <= Cardinality(Requests)
         /\ \A s \in SUBSET Tokens : \A t \in SUBSET s : Cardinality(t) <= Cardinality(s)
         /\ \A s \in SUBSET Requests : \A t \in SUBSET s : Cardinality(t) <= Cardinality(s)
         /\ \A a \in Agents : live[a] \subseteq Tokens /\ minted[a] \subseteq Tokens
                              /\ issued[a] \subseteq Tokens /\ activations[a] \in Nat
  BY OnboardingConstants, FS_Subset, FS_CardinalityType DEF TypeOK

\* A step on the way to an activation moves its request only.
LEMMA LinkStepMoves ==
  ASSUME TypeOK, NEW r \in Requests, LinkStep(r)
  PROVE  /\ request[r] \in Pending /\ request[r].agent \in Agents
         /\ \A q \in Requests \ {r} : request'[q] = request[q]
         /\ request'[r].call # "none" =>
              /\ request'[r].agent = request[r].agent
              /\ request'[r].byWebhook = request[r].byWebhook
  <1>1. request[r] \in Pending
    BY InFlight DEF LinkStep, EvaluatePolicy, CreateUser, ProvisionAgent, RevokeTokens,
         IssueToken, ConsumeToken, ActivateUser, Calls
  <1>2. \A q \in Requests \ {r} : request'[q] = request[q]
    BY DEF LinkStep, EvaluatePolicy, CreateUser, ProvisionAgent, RevokeTokens,
         IssueToken, ConsumeToken, ActivateUser, Goto, Done, TypeOK
  <1>3. Idle.call = "none"
    BY DEF Idle
  <1>4. Done(r) => request'[r].call = "none"
    BY <1>3 DEF Done, TypeOK
  <1>5. \A call : Goto(r, call) => /\ request'[r].agent = request[r].agent
                                   /\ request'[r].byWebhook = request[r].byWebhook
    BY <1>1 DEF Goto, Pending, TypeOK
  <1>6. RevokeTokens(r) \/ IssueToken(r) => /\ request'[r].agent = request[r].agent
                                            /\ request'[r].byWebhook = request[r].byWebhook
    BY <1>1 DEF RevokeTokens, IssueToken, Pending, TypeOK
  <1> QED
    BY <1>1, <1>2, <1>4, <1>5, <1>6
       DEF LinkStep, EvaluatePolicy, CreateUser, ProvisionAgent, ConsumeToken, ActivateUser, Pending

\* The requests whose transaction has consumed a link of a
Activating(a) == {r \in Requests : At(r, "activate") /\ request[r].agent = a}

\* LinksWorkOnce is inductive with what is still to be activated: every link is
\* live, being activated, has activated, or is gone.
ActivationsInv ==
  \A a \in Agents :
    activations[a] + Cardinality(Activating(a)) + Cardinality(live[a]) <= Cardinality(minted[a])

LEMMA ActivationsKept ==
  ASSUME TypeOK, TypeOK', ActivationsInv, Next
  PROVE  ActivationsInv'
  <1> SUFFICES ASSUME NEW a \in Agents
               PROVE  activations'[a] + Cardinality(Activating(a)') + Cardinality(live'[a])
                        <= Cardinality(minted'[a])
    BY DEF ActivationsInv, Activating
  <1> DEFINE before == Activating(a)
             after == Activating(a)'
  <1>0. /\ before \subseteq Requests /\ after \subseteq Requests
        /\ IsFiniteSet(before) /\ Cardinality(before) \in Nat /\ Cardinality(after) \in Nat
        /\ IsFiniteSet(live[a]) /\ live[a] \subseteq Tokens /\ live'[a] \subseteq Tokens
        /\ Cardinality(live[a]) \in Nat /\ Cardinality(live'[a]) \in Nat
        /\ IsFiniteSet(minted[a]) /\ Cardinality(minted[a]) \in Nat
        /\ activations[a] \in Nat
        /\ activations[a] + Cardinality(before) + Cardinality(live[a]) <= Cardinality(minted[a])
    <2>1. before \subseteq Requests /\ after \subseteq Requests
      BY DEF Activating
    <2>2. live'[a] \subseteq Tokens
      BY DEF TypeOK
    <2> QED  BY <2>1, <2>2, Sizes DEF ActivationsInv
  <1>1. ASSUME UNCHANGED <<minted, activations>>, live'[a] \subseteq live[a], after \subseteq before
        PROVE  activations'[a] + Cardinality(after) + Cardinality(live'[a]) <= Cardinality(minted'[a])
    <2>1. Cardinality(live'[a]) <= Cardinality(live[a]) /\ Cardinality(after) <= Cardinality(before)
      BY <1>0, <1>1, Sizes
    <2> QED  BY <1>0, <1>1, <2>1
  <1>2. CASE Aside
    <2>1. after \subseteq before
      BY <1>2 DEF Aside, Activating, At
    <2> QED  BY <1>1, <1>2, <2>1 DEF Aside
  <1>3. ASSUME NEW r \in Requests, EvaluatePolicy(r) \/ CreateUser(r) \/ ProvisionAgent(r) \/ RevokeTokens(r)
        PROVE  activations'[a] + Cardinality(after) + Cardinality(live'[a]) <= Cardinality(minted'[a])
    <2>1. UNCHANGED <<live, minted, activations>>
      BY <1>3 DEF EvaluatePolicy, CreateUser, ProvisionAgent, RevokeTokens, accountVars
    <2>2. /\ request[r] \in Pending
          /\ \A q \in Requests \ {r} : request'[q] = request[q]
      BY <1>3, LinkStepMoves DEF LinkStep
    <2>3. request'[r].call # "activate"
      BY <1>3, <2>2 DEF EvaluatePolicy, CreateUser, ProvisionAgent, RevokeTokens, Goto, Done, Idle,
                  Pending, TypeOK
    <2>4. after \subseteq before
      BY <2>2, <2>3 DEF Activating, At
    <2> QED  BY <1>1, <2>1, <2>4
  <1>4. ASSUME NEW r \in Requests, IssueToken(r)
        PROVE  activations'[a] + Cardinality(after) + Cardinality(live'[a]) <= Cardinality(minted'[a])
    <2>1. /\ request[r] \in Pending
          /\ \A q \in Requests \ {r} : request'[q] = request[q]
      BY <1>4, LinkStepMoves DEF LinkStep
    <2>2. request'[r].call = "mail"
      BY <1>4, <2>1 DEF IssueToken, Pending, TypeOK
    <2>3. after \subseteq before
      BY <2>1, <2>2 DEF Activating, At
    <2>4. CASE request[r].agent # a
      <3>1. live'[a] = live[a] /\ minted'[a] = minted[a] /\ activations' = activations
        BY <1>4, <2>4 DEF IssueToken, TypeOK
      <3>2. Cardinality(after) <= Cardinality(before)
        BY <1>0, <2>3, Sizes
      <3> QED  BY <1>0, <3>1, <3>2
    <2>5. CASE request[r].agent = a
      <3>1. PICK t \in Tokens \ minted[a] :
              /\ live'[a] \subseteq live[a] \union {t}
              /\ minted'[a] = minted[a] \union {t}
              /\ activations' = activations
        BY <1>4, <2>5 DEF IssueToken, Replaced, TypeOK
      <3>2. Cardinality(minted'[a]) = Cardinality(minted[a]) + 1
        BY <1>0, <3>1, FS_AddElement
      <3>3. Cardinality(live'[a]) <= Cardinality(live[a]) + 1
        <4>1. live[a] \union {t} \subseteq Tokens
          BY <1>0
        <4>2. Cardinality(live'[a]) <= Cardinality(live[a] \union {t})
          BY <3>1, <4>1, Sizes
        <4>3. Cardinality(live[a] \union {t}) \in Nat
          BY <4>1, Sizes
        <4>4. Cardinality(live[a] \union {t}) <= Cardinality(live[a]) + 1
          <5>1. IsFiniteSet(live[a]) /\ Cardinality(live[a]) \in Nat
            BY <1>0
          <5>2. Cardinality(live[a] \union {t}) =
                  IF t \in live[a] THEN Cardinality(live[a]) ELSE Cardinality(live[a]) + 1
            BY <5>1, FS_AddElement
          <5> QED  BY <5>1, <5>2
        <4> QED  BY <1>0, <4>2, <4>3, <4>4
      <3>4. Cardinality(after) <= Cardinality(before)
        BY <1>0, <2>3, Sizes
      <3> QED  BY <1>0, <3>1, <3>2, <3>3, <3>4
    <2> QED  BY <2>4, <2>5
  <1>5. ASSUME NEW r \in Requests, ConsumeToken(r)
        PROVE  activations'[a] + Cardinality(after) + Cardinality(live'[a]) <= Cardinality(minted'[a])
    <2>1. /\ request[r] \in Pending
          /\ \A q \in Requests \ {r} : request'[q] = request[q]
          /\ UNCHANGED <<minted, activations>>
      BY <1>5, LinkStepMoves DEF LinkStep, ConsumeToken
    <2>2. CASE Done(r) /\ UNCHANGED live
      <3>1. after \subseteq before
        BY <2>1, <2>2 DEF Done, Idle, Activating, At, TypeOK
      <3> QED  BY <1>1, <2>1, <2>2, <3>1
    <2>3. CASE /\ Consumable(request[r].agent, request[r].token) /\ Goto(r, "activate")
               /\ live' = [live EXCEPT ![request[r].agent] = @ \ {request[r].token}]
      <3>1. CASE request[r].agent # a
        <4>1. request'[r].agent = request[r].agent
          BY <2>1, <2>3 DEF Goto, TypeOK, Pending
        <4>2. after \subseteq before
          BY <2>1, <3>1, <4>1 DEF Activating, At
        <4>3. live'[a] = live[a]
          BY <2>3, <3>1 DEF TypeOK
        <4> QED  BY <1>1, <2>1, <4>2, <4>3
      <3>2. CASE request[r].agent = a
        <4>1. after \subseteq before \union {r} /\ r \notin before
          BY <1>5, <2>1 DEF Activating, At, ConsumeToken
        <4>2. Cardinality(after) <= Cardinality(before) + 1
          <5>1. before \union {r} \subseteq Requests
            BY <1>0
          <5>2. Cardinality(before \union {r}) = Cardinality(before) + 1
            BY <1>0, <4>1, FS_AddElement
          <5> QED  BY <4>1, <5>1, <5>2, Sizes
        <4>3. live'[a] = live[a] \ {request[r].token} /\ request[r].token \in live[a]
          BY <2>3, <3>2 DEF Consumable, TypeOK
        <4>4. Cardinality(live'[a]) = Cardinality(live[a]) - 1
          <5>1. IsFiniteSet(live[a])
            BY <1>0
          <5>2. Cardinality(live[a] \ {request[r].token}) = Cardinality(live[a]) - 1
            BY <4>3, <5>1, FS_RemoveElement
          <5> QED  BY <4>3, <5>2
        <4> QED  BY <1>0, <2>1, <4>2, <4>4
      <3> QED  BY <3>1, <3>2
    <2> QED  BY <1>5, <2>2, <2>3 DEF ConsumeToken
  <1>6. ASSUME NEW r \in Requests, ActivateUser(r)
        PROVE  activations'[a] + Cardinality(after) + Cardinality(live'[a]) <= Cardinality(minted'[a])
    <2>1. /\ request[r] \in Pending
          /\ \A q \in Requests \ {r} : request'[q] = request[q]
          /\ UNCHANGED <<live, minted>>
          /\ request'[r].call = "none"
      BY <1>6, LinkStepMoves DEF LinkStep, ActivateUser, Done, Idle, TypeOK
    <2>2. CASE request[r].agent # a
      <3>1. activations'[a] = activations[a] /\ after \subseteq before
        BY <1>6, <2>1, <2>2 DEF ActivateUser, Activating, At, TypeOK
      <3>2. Cardinality(after) <= Cardinality(before)
        BY <1>0, <3>1, Sizes
      <3> QED  BY <1>0, <2>1, <3>1, <3>2
    <2>3. CASE request[r].agent = a
      <3>1. activations'[a] = activations[a] + 1
        BY <1>6, <2>3 DEF ActivateUser, TypeOK
      <3>2. after \subseteq before \ {r} /\ r \in before
        BY <1>6, <2>1, <2>3 DEF ActivateUser, Activating, At
      <3>3. Cardinality(before \ {r}) = Cardinality(before) - 1
        BY <1>0, <3>2, FS_RemoveElement
      <3>4. Cardinality(after) <= Cardinality(before) - 1
        <4>1. before \ {r} \subseteq Requests
          BY <1>0
        <4> QED  BY <3>2, <3>3, <4>1, Sizes
      <3> QED  BY <1>0, <2>1, <3>1, <3>4
    <2> QED  BY <2>2, <2>3
  <1> QED  BY <1>2, <1>3, <1>4, <1>5, <1>6, StepsOfOnboarding DEF LinkStep

\* However many requests present its links, an applicant completes no more
\* activations than links were ever created for it.
THEOREM LinksActivateOnce == Spec => []LinksWorkOnce
  <1>1. Init /\ TypeOK => ActivationsInv
    <2> SUFFICES ASSUME Init, TypeOK, NEW a \in Agents
                 PROVE  activations[a] + Cardinality(Activating(a)) + Cardinality(live[a])
                          <= Cardinality(minted[a])
      BY DEF ActivationsInv
    <2>1. Activating(a) = {}
      BY DEF Init, Activating, At, Idle
    <2>2. activations[a] = 0 /\ live[a] = {} /\ minted[a] = {}
      BY DEF Init
    <2> QED  BY <2>1, <2>2, FS_EmptySet
  <1>2. TypeOK /\ TypeOK' /\ ActivationsInv /\ [Next]_vars => ActivationsInv'
    <2>1. ActivationsInv /\ UNCHANGED vars => ActivationsInv'
      BY DEF ActivationsInv, Activating, At, vars
    <2> QED  BY <2>1, ActivationsKept
  <1>3. TypeOK /\ ActivationsInv => LinksWorkOnce
    <2> SUFFICES ASSUME TypeOK, ActivationsInv, NEW a \in Agents
                 PROVE  activations[a] <= Cardinality(minted[a])
      BY DEF LinksWorkOnce
    <2>1. Activating(a) \subseteq Requests
      BY DEF Activating
    <2>2. /\ Cardinality(Activating(a)) \in Nat /\ Cardinality(live[a]) \in Nat
          /\ Cardinality(minted[a]) \in Nat /\ activations[a] \in Nat
      BY <2>1, Sizes
    <2> QED  BY <2>2 DEF ActivationsInv
  <1> QED  BY <1>1, <1>2, <1>3, OnboardingInvariant, PTL DEF Spec

\* The document events that were let through and have yet to issue a link to a
Issuing(a) ==
  {r \in Requests : /\ request[r].call \in {"create", "provision", "revoke", "issue"}
                    /\ request[r].byWebhook
                    /\ request[r].agent = a}

\* OverlapBoundsIssues is inductive with the events that were let through: once
\* one of them has provisioned the agent, no other follows them.
IssuesInv ==
  \A a \in Agents :
    /\ issued[a] # {} => Earned(a)
    /\ Cardinality(issued[a]) + Cardinality(Issuing(a)) <= Cardinality(Requests)

LEMMA IssuesKept ==
  ASSUME TypeOK, TypeOK', EarnedInv, IssuesInv, Next
  PROVE  IssuesInv'
  <1> SUFFICES ASSUME NEW a \in Agents
               PROVE  /\ issued'[a] # {} => Earned(a)'
                      /\ Cardinality(issued'[a]) + Cardinality(Issuing(a)') <= Cardinality(Requests)
    BY DEF IssuesInv, Issuing, Earned, Called
  <1> DEFINE before == Issuing(a)
             after == Issuing(a)'
             Bounded == /\ issued'[a] # {} => Earned(a)'
                        /\ Cardinality(issued'[a]) + Cardinality(after) <= Cardinality(Requests)
  <1>0. /\ before \subseteq Requests /\ after \subseteq Requests
        /\ IsFiniteSet(before) /\ Cardinality(before) \in Nat /\ Cardinality(after) \in Nat
        /\ Cardinality(after) <= Cardinality(Requests) /\ Cardinality(Requests) \in Nat
        /\ IsFiniteSet(issued[a]) /\ Cardinality(issued[a]) \in Nat
        /\ Cardinality(issued[a]) + Cardinality(before) <= Cardinality(Requests)
    <2>1. before \subseteq Requests /\ after \subseteq Requests
      BY DEF Issuing
    <2> QED  BY <2>1, Sizes DEF IssuesInv
  <1>1. (issued[a] # {} => Earned(a)) /\ (Earned(a) => Earned(a)')
    BY RowsGrow DEF IssuesInv
  <1>2. ASSUME issued' = issued, after \subseteq before
        PROVE  Bounded
    <2>1. Cardinality(after) <= Cardinality(before)
      BY <1>0, <1>2, Sizes
    <2> QED  BY <1>0, <1>1, <1>2, <2>1
  <1>3. CASE Aside
    <2>1. after \subseteq before
      BY <1>3 DEF Aside, Issuing
    <2> QED  BY <1>2, <1>3, <2>1 DEF Aside
  <1>4. ASSUME NEW r \in Requests, LinkStep(r), ~IssueToken(r), ~EvaluatePolicy(r)
        PROVE  Bounded
    <2>1. issued' = issued
      BY <1>4 DEF LinkStep, CreateUser, ProvisionAgent, RevokeTokens, ConsumeToken, ActivateUser,
                  accountVars
    <2>2. /\ request[r] \in Pending
          /\ \A q \in Requests \ {r} : request'[q] = request[q]
          /\ request'[r].call # "none" => /\ request'[r].agent = request[r].agent
                                          /\ request'[r].byWebhook = request[r].byWebhook
      BY <1>4, LinkStepMoves
    <2>3. request'[r].call \in {"create", "provision", "revoke", "issue"} =>
            request[r].call \in {"create", "provision", "revoke", "issue"}
      BY <1>4, <2>2 DEF LinkStep, CreateUser, ProvisionAgent, RevokeTokens, ConsumeToken,
                        ActivateUser, Goto, Done, At, Idle, Pending, TypeOK
    <2>4. after \subseteq before
      BY <2>2, <2>3 DEF Issuing
    <2> QED  BY <1>2, <2>1, <2>4
  <1>5. ASSUME NEW r \in Requests, EvaluatePolicy(r)
        PROVE  Bounded
    <2>1. /\ request[r] \in Pending
          /\ \A q \in Requests \ {r} : request'[q] = request[q]
          /\ request'[r].call # "none" => request'[r].agent = request[r].agent
          /\ issued' = issued
      BY <1>5, LinkStepMoves DEF LinkStep, EvaluatePolicy, accountVars
    <2>2. CASE request[r].agent = a /\ MayIssueActivation(a)
      <3>1. issued[a] = {}
        BY <1>1, <2>2 DEF MayIssueActivation, Earned
      <3> QED  BY <1>0, <2>1, <3>1, FS_EmptySet
    <2>3. CASE request[r].agent # a
      <3>1. after \subseteq before
        BY <2>1, <2>3 DEF Issuing
      <3> QED  BY <1>2, <2>1, <3>1
    <2>4. CASE request[r].agent = a /\ ~MayIssueActivation(a)
      <3>1. request'[r].call = "none"
        BY <1>5, <2>4 DEF EvaluatePolicy, Done, Idle, TypeOK
      <3>2. after \subseteq before
        BY <2>1, <3>1 DEF Issuing
      <3> QED  BY <1>2, <2>1, <3>2
    <2> QED  BY <2>2, <2>3, <2>4
  <1>6. ASSUME NEW r \in Requests, IssueToken(r)
        PROVE  Bounded
    <2>1. /\ request[r] \in Pending
          /\ \A q \in Requests \ {r} : request'[q] = request[q]
      BY <1>6, LinkStepMoves DEF LinkStep
    <2>2. request'[r].call = "mail"
      BY <1>6, <2>1 DEF IssueToken, Pending, TypeOK
    <2>3. after \subseteq before \ {r}
      BY <2>1, <2>2 DEF Issuing
    <2>4. CASE request[r].agent # a \/ ~request[r].byWebhook
      <3>1. issued'[a] = issued[a]
        BY <1>6, <2>4 DEF IssueToken, TypeOK
      <3>2. Cardinality(after) <= Cardinality(before)
        BY <1>0, <2>3, Sizes
      <3> QED  BY <1>0, <1>1, <3>1, <3>2
    <2>5. CASE request[r].agent = a /\ request[r].byWebhook
      <3>1. PICK t \in Tokens : issued'[a] = issued[a] \union {t}
        BY <1>6, <2>5 DEF IssueToken, TypeOK
      <3>2. Earned(a)
        BY <1>6, <2>5 DEF IssueToken, At, EarnedInv, RequestIsEarned
      <3>3. r \in before
        BY <1>6, <2>5 DEF IssueToken, At, Issuing
      <3>4. Cardinality(before \ {r}) = Cardinality(before) - 1
        BY <1>0, <3>3, FS_RemoveElement
      <3>5. Cardinality(after) <= Cardinality(before) - 1
        <4>1. before \ {r} \subseteq Requests
          BY <1>0
        <4> QED  BY <2>3, <3>4, <4>1, Sizes
      <3>6. Cardinality(issued'[a]) \in Nat /\ Cardinality(issued'[a]) <= Cardinality(issued[a]) + 1
        <4>1. IsFiniteSet(issued[a]) /\ Cardinality(issued[a]) \in Nat
          BY <1>0
        <4>2. Cardinality(issued[a] \union {t}) =
                IF t \in issued[a] THEN Cardinality(issued[a]) ELSE Cardinality(issued[a]) + 1
          BY <4>1, FS_AddElement
        <4> QED  BY <3>1, <4>1, <4>2
      <3> QED  BY <1>0, <1>1, <3>2, <3>5, <3>6
    <2> QED  BY <2>4, <2>5
  <1> QED  BY <1>3, <1>4, <1>5, <1>6, StepsOfOnboarding

\* The transactions that replace the links of a, and the live links that none of
\* those in p will revoke: issued after the last of their reads
Replacing(a) == {r \in Requests : At(r, "issue") /\ request[r].agent = a}

Missed(a, p) == {t \in live[a] : \A r \in p : t \notin request[r].old}

\* LiveLinksBounded is inductive with what any set of transactions leaves live:
\* every link that they all miss was issued, by another request, since they read.
LiveInv ==
  \A a \in Agents : \A p \in SUBSET Replacing(a) :
    Cardinality(Missed(a, p)) + Cardinality(p) <= Cardinality(Requests)

LEMMA LiveKept ==
  ASSUME TypeOK, TypeOK', LiveInv, Next
  PROVE  LiveInv'
  <1> SUFFICES ASSUME NEW a \in Agents, NEW p \in SUBSET (Replacing(a)')
               PROVE  Cardinality(Missed(a, p)') + Cardinality(p) <= Cardinality(Requests)
    BY DEF LiveInv, Replacing, Missed
  <1> DEFINE after == Missed(a, p)'
             Bounded == Cardinality(after) + Cardinality(p) <= Cardinality(Requests)
  <1>0. /\ p \subseteq Requests /\ after \subseteq Tokens
        /\ IsFiniteSet(p) /\ Cardinality(p) \in Nat /\ Cardinality(after) \in Nat
        /\ Cardinality(Requests) \in Nat /\ Cardinality(p) <= Cardinality(Requests)
    <2>1. p \subseteq Requests /\ after \subseteq live'[a]
      BY DEF Replacing, Missed
    <2>2. live'[a] \subseteq Tokens
      BY DEF TypeOK
    <2> QED  BY <2>1, <2>2, Sizes
  <1>1. ASSUME NEW s \in SUBSET Replacing(a)
        PROVE  /\ IsFiniteSet(Missed(a, s)) /\ Missed(a, s) \subseteq Tokens
               /\ Cardinality(Missed(a, s)) \in Nat /\ Cardinality(s) \in Nat
               /\ Cardinality(Missed(a, s)) + Cardinality(s) <= Cardinality(Requests)
    <2>1. s \subseteq Requests /\ Missed(a, s) \subseteq Tokens
      BY <1>1, Sizes DEF Replacing, Missed
    <2> QED  BY <1>1, <2>1, Sizes DEF LiveInv
  <1>2. ASSUME live'[a] \subseteq live[a], p \subseteq Replacing(a),
               \A r \in p : request'[r] = request[r]
        PROVE  Bounded
    <2>1. after \subseteq Missed(a, p)
      BY <1>2 DEF Missed
    <2>2. Cardinality(after) <= Cardinality(Missed(a, p))
      BY <1>1, <1>2, <2>1, Sizes
    <2> QED  BY <1>0, <1>1, <1>2, <2>2
  <1>3. CASE Aside
    <2>1. p \subseteq Replacing(a) /\ \A r \in p : request'[r] = request[r]
      BY <1>3 DEF Aside, Replacing, At
    <2> QED  BY <1>2, <1>3, <2>1 DEF Aside
  <1>4. ASSUME NEW r \in Requests, LinkStep(r), ~IssueToken(r), ~RevokeTokens(r)
        PROVE  Bounded
    <2>1. live'[a] \subseteq live[a]
      BY <1>4 DEF LinkStep, EvaluatePolicy, CreateUser, ProvisionAgent, ConsumeToken, ActivateUser,
                  accountVars, TypeOK
    <2>2. /\ request[r] \in Pending
          /\ \A q \in Requests \ {r} : request'[q] = request[q]
      BY <1>4, LinkStepMoves
    <2>3. request'[r].call # "issue"
      BY <1>4, <2>2 DEF LinkStep, EvaluatePolicy, CreateUser, ProvisionAgent, ConsumeToken,
                        ActivateUser, Goto, Done, At, Idle, Pending, TypeOK
    <2>4. p \subseteq Replacing(a) /\ \A q \in p : request'[q] = request[q]
      BY <2>2, <2>3 DEF Replacing, At
    <2> QED  BY <1>2, <2>1, <2>4
  <1>5. ASSUME NEW r \in Requests, RevokeTokens(r)
        PROVE  Bounded
    <2>1. /\ request[r] \in Pending
          /\ \A q \in Requests \ {r} : request'[q] = request[q]
          /\ live' = live
      BY <1>5, LinkStepMoves DEF LinkStep, RevokeTokens, accountVars
    <2>2. CASE r \notin p
      <3>1. p \subseteq Replacing(a) /\ \A q \in p : request'[q] = request[q]
        BY <2>1, <2>2 DEF Replacing, At
      <3> QED  BY <1>2, <2>1, <3>1
    <2>3. CASE r \in p
      <3>1. request'[r].old = live[request[r].agent] /\ request'[r].agent = request[r].agent
        BY <1>5, <2>1 DEF RevokeTokens, Pending, TypeOK
      <3>2. request'[r].agent = a
        BY <2>3 DEF Replacing
      <3>3. after = {}
        BY <2>1, <2>3, <3>1, <3>2 DEF Missed
      <3> QED  BY <1>0, <3>3, FS_EmptySet
    <2> QED  BY <2>2, <2>3
  <1>6. ASSUME NEW r \in Requests, IssueToken(r)
        PROVE  Bounded
    <2>1. /\ request[r] \in Pending
          /\ \A q \in Requests \ {r} : request'[q] = request[q]
      BY <1>6, LinkStepMoves DEF LinkStep
    <2>2. request'[r].call = "mail"
      BY <1>6, <2>1 DEF IssueToken, Pending, TypeOK
    <2>3. r \notin p
      BY <2>2 DEF Replacing, At
    <2>4. p \subseteq Replacing(a) /\ \A q \in p : request'[q] = request[q]
      BY <2>1, <2>3 DEF Replacing, At
    <2>5. CASE request[r].agent # a
      <3>1. live'[a] = live[a]
        BY <1>6, <2>5 DEF IssueToken, TypeOK
      <3> QED  BY <1>2, <2>4, <3>1
    <2>6. CASE request[r].agent = a
      <3> DEFINE s == p \union {r}
      <3>1. s \in SUBSET Replacing(a)
        BY <1>6, <2>4, <2>6 DEF IssueToken, Replacing
      <3>2. PICK t \in Tokens : live'[a] = (live[a] \ request[r].old) \union {t}
        BY <1>6, <2>6 DEF IssueToken, Replaced, TypeOK
      <3>3. after \subseteq Missed(a, s) \union {t}
        BY <2>4, <3>2 DEF Missed
      <3>4. Cardinality(s) = Cardinality(p) + 1
        BY <1>0, <2>3, FS_AddElement
      <3>5. Cardinality(Missed(a, s) \union {t}) =
              IF t \in Missed(a, s) THEN Cardinality(Missed(a, s)) ELSE Cardinality(Missed(a, s)) + 1
        BY <1>1, <3>1, FS_AddElement
      <3>6. Cardinality(after) <= Cardinality(Missed(a, s) \union {t})
        <4>1. Missed(a, s) \union {t} \subseteq Tokens
          BY <1>1, <3>1
        <4> QED  BY <3>3, <4>1, Sizes
      <3>7. /\ Cardinality(Missed(a, s)) \in Nat
            /\ Cardinality(Missed(a, s)) + Cardinality(s) <= Cardinality(Requests)
        BY <1>1, <3>1
      <3> HIDE DEF s, after
      <3> QED  BY <1>0, <3>4, <3>5, <3>6, <3>7
    <2> QED  BY <2>5, <2>6
  <1> QED  BY <1>3, <1>4, <1>5, <1>6, StepsOfOnboarding

\* Document events issue no more links to an applicant than requests are served
\* at the same time, however many events come: a second one takes an overlap.
THEOREM EventsIssueFewLinks == Spec => []OverlapBoundsIssues
  <1>1. Init /\ TypeOK => IssuesInv
    <2> SUFFICES ASSUME Init, TypeOK, NEW a \in Agents
                 PROVE  /\ issued[a] = {}
                        /\ Cardinality(issued[a]) + Cardinality(Issuing(a)) <= Cardinality(Requests)
      BY DEF IssuesInv
    <2>1. Issuing(a) = {} /\ issued[a] = {}
      BY DEF Init, Issuing, Idle
    <2>2. Cardinality(Requests) \in Nat
      BY Sizes
    <2> QED  BY <2>1, <2>2, FS_EmptySet
  <1>2. TypeOK /\ TypeOK' /\ EarnedInv /\ IssuesInv /\ [Next]_vars => IssuesInv'
    <2>1. IssuesInv /\ UNCHANGED vars => IssuesInv'
      BY DEF IssuesInv, Issuing, Earned, Called, vars
    <2> QED  BY <2>1, IssuesKept
  <1>3. TypeOK /\ IssuesInv => OverlapBoundsIssues
    <2> SUFFICES ASSUME TypeOK, IssuesInv, NEW a \in Agents
                 PROVE  Cardinality(issued[a]) <= Cardinality(Requests)
      BY DEF OverlapBoundsIssues
    <2>1. Issuing(a) \subseteq Requests
      BY DEF Issuing
    <2>2. /\ Cardinality(Issuing(a)) \in Nat /\ Cardinality(issued[a]) \in Nat
          /\ Cardinality(Requests) \in Nat
      BY <2>1, Sizes
    <2> QED  BY <2>2 DEF IssuesInv
  <1> QED  BY <1>1, <1>2, <1>3, OnboardingInvariant, EarnedInvariant, PTL DEF Spec

\* No more links to an applicant are valid than requests are served at the same
\* time: a resent link replaces the earlier ones but those issued while it was.
THEOREM LiveLinksAreFew == Spec => []LiveLinksBounded
  <1>1. Init /\ TypeOK => LiveInv
    <2> SUFFICES ASSUME Init, TypeOK, NEW a \in Agents, NEW p \in SUBSET Replacing(a)
                 PROVE  Cardinality(Missed(a, p)) + Cardinality(p) <= Cardinality(Requests)
      BY DEF LiveInv
    <2>1. p = {} /\ Missed(a, p) = {}
      BY DEF Init, Replacing, At, Idle, Missed
    <2>2. Cardinality(Requests) \in Nat
      BY Sizes
    <2> QED  BY <2>1, <2>2, FS_EmptySet
  <1>2. TypeOK /\ TypeOK' /\ LiveInv /\ [Next]_vars => LiveInv'
    <2>1. LiveInv /\ UNCHANGED vars => LiveInv'
      BY DEF LiveInv, Replacing, Missed, At, vars
    <2> QED  BY <2>1, LiveKept
  <1>3. TypeOK /\ LiveInv => LiveLinksBounded
    <2> SUFFICES ASSUME TypeOK, LiveInv, NEW a \in Agents
                 PROVE  Cardinality(live[a]) <= Cardinality(Requests)
      BY DEF LiveLinksBounded
    <2>1. Missed(a, {}) = live[a]
      BY DEF Missed
    <2>2. Cardinality(live[a]) + 0 <= Cardinality(Requests)
      BY <2>1, FS_EmptySet DEF LiveInv
    <2>3. Cardinality(live[a]) \in Nat
      BY Sizes
    <2> QED  BY <2>2, <2>3
  <1> QED  BY <1>1, <1>2, <1>3, OnboardingInvariant, PTL DEF Spec
=============================================================================
