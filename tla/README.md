# Mercury Call Desk: TLA+ models and proofs

Mercury Call Desk (MCD) is a CRM for a sales force of agents. It is a Next.js
application on serverless functions and PostgreSQL (Prisma, READ COMMITTED, no
row versions), fed by webhooks from GoHighLevel (GHL) and by daily cron jobs.
Nothing is kept in memory between requests: the state is the database, and every
concurrency question is one of handlers that read, await and write.

Run a model with `tlc -config LeadOwnership.cfg MCLeadEngine.tla`, check the
proofs with `tlapm LeadEngineProofs.tla`, and likewise for the other modules.

## Inventory

| Component | State | Operations | What is hard |
|---|---|---|---|
| **Lead claims, triage, ownership** (`lib/claims.ts`, `admin/leads/replies`, `api/portal/release`, `lib/open-pool-release.ts`) | `Lead.ownerAgentId`, `lifecycle`, `pool`, `openPoolReleaseAt` | claim, assign warm reply, release, return to Open Pool | agents race for a Lead; capacity is counted before the write; a claim and its evidence are two commits |
| **Lead workspace** (`lib/lead-workspace.ts`, `api/portal/actions`) | the same, `twoWayContactAt`, callbacks | cold disposition, interaction, callback, call, note | writes by id what was decided from an older read |
| **DNC and suppression** (`suppressLeadForDnc`, `api/portal/dnc`, review page) | `dnc`, `suppressed`, callbacks, `LeadSuppression` | agent DNC, portal DNC, admin suppression | must hold against every handler already under way |
| **Review and Closed Won** (`admin/leads`, `admin/leads/[leadId]`) | `lifecycle`, `pool` | approve, disqualify, suppress, record a win | decisions on Leads of any state |
| **Lead aging** (`lib/lead-aging-jobs.ts`) | `openPoolReleaseAt` | the daily sweep | reads outside its transaction; a batch limit |
| **GHL attribution** (`lib/lead-*-attribution.ts`) | Lead, callbacks | reply, opportunity, appointment | late, duplicated and reordered events |
| **Webhook inbox** (`lib/ghl-webhook.ts`, six routes of `api/ghl`) | `WebhookEvent` | record, reopen, finish, mark error | duplicates race; calls fail, ambiguously or not; functions are killed |
| **Onboarding and activation** (`api/signup`, `admin/page-v3.tsx`, `admin/agents/[id]/*`, `api/ghl/documents`, `lib/activation.ts`, `api/activate`, `admin/certification`) | `Agent`, `OnboardingDocument`, gates, `User`, activation tokens | sign up, review, record gates and documents, provision, mail a link, activate, certify | six commits and an email in one handler; two documents complete the gates together; single use of a link |
| **Authentication** (`auth.ts`, `auth.config.ts`, `middleware.ts`, `lib/authz.ts`, `admin/users`) | `failedLogins`, `lockedUntil`, role and status of a `User`, the token | sign in, sign out, lock out, change access | counters under concurrent attempts; tokens older than the access they stand for |
| **Lead imports** (`lib/lead-import-*.ts`, `lib/import-audit-service.ts`) | `LeadImportBatch`, rows, acquisition record | create, upload, preview, submit, reconcile | racing uploads and submissions; a crash in the middle; stale previews |
| **Client servicing** (`lib/client-servicing-*.ts`, `lib/client-launch-actions.ts`, `lib/lead-client-account.ts`) | `ClientAccount`, service cases | create, launch, open, answer and resolve a case, transfer to House | counts over cases others are opening; payments that change meanwhile |
| **Service cadence** (`lib/service-cadence-jobs.ts`) | check-in cases | the cadence sweep | one open check-in; a limit over accounts in a fixed order |
| **Commission ledger** (`lib/commission-*.ts`) | profiles, decisions, entries, holds | review, intake, hold, release, clear | order of holds and clearances; decisions from older rows |
| **Cron routes** (`api/cron`, `lib/transient-database-retry.ts`) | none | probe with retries, then sweep once | retry without repeating the sweep |
| Outbound handoff, reports, controlled test data, pages | | | not modelled, see below |

How they interact: a partner signs up, is reviewed, documented, provisioned and
activated, and signs in. Imports create Leads for review; review makes them
available; the workspace, triage and GHL's attributions move them; claims,
releases and the sweep change their owner; a win leads to a client account, its
servicing and its commissions. All of them meet in database rows that no one
locks. The inbox decides whether an event runs, once or again.

What makes each correct: a Lead never passes from one agent to another in a
write; it is acquired only after a two-way contact, never while it is blocked;
only Leads that were owned are in the Open Pool; referrals are never there; DNC
is for good; an expired claim comes back. An event has its effect, and a second
one only after a failure. Only a reviewed, documented, provisioned agent can
sign in; a link works once; a lock stops wrong passwords; access is changed by
those who are managers now. A Lead comes from a row that was found valid, and a
batch leaves SUBMITTED. What an account shows agrees with its payments and
cases. A commission is eligible by a decision, without a hold.

## Modules

| Module | What it is |
|---|---|
| `LeadVocabulary` | the enumerations of the Lead engine and the rules from a disposition to a lifecycle and a pool |
| `LeadEngine` | the Lead rows, their callbacks, the requests in flight and the sweep; one action for the read and one for the write of each handler |
| `WebhookInbox` | the rows of `WebhookEvent`, the deliveries being handled and what GHL still has to deliver; one action per database call |
| `EventLedger` | the abstract specification of one event that `WebhookInbox` implements: held by one, an effect of a holder, done for good |
| `AgentOnboarding` | the agent, its user, its links and its document events, from sign-up to activation; one action per database call |
| `SignIn` | users with their counters and locks, their tokens, and the users page |
| `LeadImport` | one batch of the signed import API, its rows, the Leads it creates, with an admin's own import beside it |
| `ClientServicing` | client accounts and their cases, each handler as a read and a write, the sweep among them |
| `CadenceCron` | the daily cron route and its sweep over days, accounts by name and a limit |
| `CommissionPolicy` | the pure rules: eligibility, readiness of an entry, finance and payout conditions, splits, payout timing |
| `CommissionLedger` | profiles, decisions, entries and holds, over `CommissionPolicy` |
| `MC…` | the instances of the modules for TLC |
| `LeadEngineProofs`, `WebhookInboxProofs`, `AgentOnboardingProofs`, `SignInProofs`, `LeadImportProofs`, `ClientServicingProofs`, `CadenceCronProofs`, `CommissionProofs` | the theorems about each module and their proofs |

`CommissionLedger` extends `CommissionPolicy`, and `WebhookInbox` instantiates
`EventLedger`; the document route is in `WebhookInbox` (how its event is
recorded) and in `AgentOnboarding` (what it does); the cadence sweep is in
`ClientServicing` (its races) and in `CadenceCron` (its days).

### LeadEngine and the code

A handler is a read and checks, an `await`, and a transaction. The action
`ReadX` takes a free request slot, checks what the code checks, and keeps in
`request[r].seen` the values of the row that the write is going to use;
`WriteX` does the whole transaction, from those values and not from the row, as
the code does. `Abandon` is a function that dies, or a transaction that is rolled back, in
between. A claim is three steps, because its `updateMany` and its evidence are
two commits. The sweep has variables of its own, since it handles many Leads.
The three decisions of the review page are single steps: their read only checks
that the Lead exists.

| Code | Actions |
|---|---|
| `claimAvailableLead` | `ReadClaim`, `WinClaim`, `LoseClaim`, `RecordClaim` |
| `assignWarmReply` | `ReadWarmReply`, `WriteWarmReply` |
| `releaseLeadToOpenPool`; `api/portal/release` | `…OpenPoolRelease`; `…PortalRelease` |
| `runLeadAgingSweep` | `ReadSweep`, `WriteSweep`, with `Age` for the passing of time |
| `logColdLeadDisposition`; `logLeadInteraction` | `…ColdDisposition`; `…Interaction` |
| `api/portal/actions` | `…PortalDisposition`, `…PortalCallback` |
| `suppressLeadForDnc`; `api/portal/dnc` | `…AgentDnc`; `…DncRoute` |
| review page; `recordCloseWon` | `Approve`, `Disqualify`, `Suppress`; `…CloseWon` |
| the three attributions | `…Reply`, `…Opportunity`, `…Appointment` |

What the data is abstracted to:

- `openPoolReleaseAt` is a timer: none, running, due (past), stale (21 days past).
  `nextActionAt`, `lastActionAt`, `claimedAt`, the GHL ids and the rows of logs
  are left out: no guard that is modelled reads them. `twoWayContactAt` is
  whether it is set.
- The scheduled callbacks of a Lead are the set of agents that have one. Two of
  one agent are one; an expedited callback stays what it is.
- The count of the capacity and the read of the Lead are one step, and so are
  the reads of a Lead and of its owner's callback, and the sweep's two queries.
  `RecordClaim`, the evidence of a claim, changes nothing that is modelled; it is
  a step because the request may die before it.
- Agents are certified and ACTIVE throughout. An admin acts as `NoAgent`. The
  admins' path for controlled test Leads is left out.
- `isReferral` is written at creation only, so it is the constant `Referrals`.
- A call or a note changes nothing that is modelled; a dry run of the sweep
  changes nothing at all. One sweep runs at a time.
- Which Lead an event is matched to is a free choice.

### WebhookInbox and the code

Every database call of a delivery is a step. `Insert` and `Reopen` are
`recordInboundEvent`, `Apply` is the consumer's work, `Finish` and `MarkError`
are `finishInboundEvent` at the end and in the catch block. `Throw` is a call
that fails; it may have been committed, and then the event is in `ambiguous`. `Caught` says which
failing calls reach a catch block that marks the event: the reply, opportunity
and appointment routes record the event inside their `try`, the document route
before it, and the funding and invoice routes mark nothing. `Crash` kills a
function between two calls. GHL (external) delivers what it has not had a 2xx
for, and may deliver again what it has.

A consumer's work is one step that is counted in `effects`; a call after it that
fails stands for the audit row or any later call. `effects`, `errors` and
`ambiguous` are history variables.

### EventLedger and the inbox

`EventLedger` says of one event what a reader of the route wants to know: it is
new, held, past its effect, done, failed or stuck. `WebhookInbox!Ledger` maps the
row, the deliveries and the history of a document, funding or invoice event to
it (`Phase`), and `KeepsLedger` is the property that the inbox implements it. A
call that fails after it was committed leaves the promise: the event is
`unknown` from then on. The relays are not mapped: they record inside their
`try`, so that a failing duplicate moves a processed event back to ERROR.

### AgentOnboarding and the code

A request is at a call (`request[r].call`) and holds the applicant and the
tokens it has read; every step is one database call or one transaction, and
`Abandon` is a function that dies at one of them.

| Code | Actions |
|---|---|
| `api/signup` | `SignUp`, `LinkContact` |
| `admin/page-v3.tsx` | `ConfirmCall`; `ReadApprove`, `ReadDecline`, `WriteReview`; `ReadResend` |
| `admin/agents/[id]/onboarding` | `RecordDocument`, `RecordGate` |
| `api/ghl/documents` | `DocumentEvent`, `EvaluatePolicy`, `CreateUser`, `ProvisionAgent`, then `RevokeTokens`, `IssueToken`, `MailLink` |
| `api/activate` | `ReadActivation`, `ConsumeToken`, `ActivateUser`; `ExpireToken` for the clock |
| users page, certification pages | `SaveUser`; `CertifyAgent`, `Certify` |

A CRM contact, a mail or an evaluation that fails is a free choice. An
applicant has one email and so one user; `Privileged` are those whose email is an
administrator's.

### SignIn and the code

`ReadCredentials` is `authorize` up to its checks; `FailSignIn`, `FailCode` and
`CompleteSignIn` are its three ends, which write the counter from what was read.
`ExpireLock` is the clock, `Activate` the activation route. On the users page
`ReadManager` is the middleware and `requireRole`, `ReadTarget` the read of the
other user and the rules, `SaveUser` the transaction. The middleware looks at
the role in the token (`Authorized`), `requireRole` at the user.

### LeadImport and the code

One batch, with rows that are told apart by their dedupe key. `Create`,
`Upload`, `Preview`, `Import` group the calls of the four requests in the order
of `lead-import-batch.ts`; `RetryUpload` is the recovery of
`lead-import-concurrency.ts`, `MayReplay` the check of `lead-import-replay.ts`,
`ReloadErrors` to `SettleBatch` the reconciliation of
`import-audit-service.ts`. A row's transaction (`LookUpRow`, `InsertRow`) may be
rolled back for any reason (`FailRow`), or be committed without the submission
learning it; the catch block (`MarkRow`) writes IMPORT_ERROR in either case. The
reconciliation then makes a row that knows its Lead IMPORTED, one whose key a Lead
has a duplicate, and leaves the others (`NothingReconciled` if there are no more).
`AdminImport` and `Suppress` are what admins do beside it, `Crash` kills a request
between two calls.

### ClientServicing and the code

`ReadX` and `WriteX` as in the Lead engine. `CreateClientAccount` and
`CreateClientAccountFromWonLead` are single steps: the unique `leadId` decides
between them. `ReadCase` is the read of a response and of a resolution;
`ResolveCase` and `UpdateAccount` are the two statements of a resolution, between
which another request may be seen. `PeriodPasses` is the clock of the cadence.
An admin does what the servicing agent does, with the same effect.

### CadenceCron and the code

A day is one call of the route: the probe with its retries, then the sweep once,
which may fail or whose answer may be lost. `Chosen` are the first `Limit` due
accounts by name. Days pass whether or not the sweep succeeds. Accounts leave
`ACTIVE` and return for reasons that `ClientServicing` has.

### CommissionLedger and the code

Reviews, clearances and releases are reads and a write; the order of two reads
that the code starts together is free (`todo`). `CommissionPolicy` has the pure
functions: `CommissionEligibility`, `LedgerReadiness`, `FinanceReadiness`,
`FiftyFifty` and the others are the functions of the same names in
`lib/commission-*.ts`, `finance-readiness.ts`, `payout-*.ts` and
`revenue-policy.ts`. A rule that answers with a sentence is its reason.

## Runs

Passing:

| Run | Checks | Instance |
|---|---|---|
| `LeadOwnership` | `TypeOK`, `OwnershipNeverStolen`, `AcquiredOnlyAfterContact`, `BlackoutAtRest` | 1 Lead, 2 agents, 2 requests at a time and the sweep: claim, triage, dispositions, agent DNC, reply, appointment |
| `LeadReturns` | `OpenPoolIsEarned`, `ReferralsStayProtected`, `CapacityRespected` | 2 Leads, one a referral, capacity 1, 1 request at a time; review, claim, triage, reply, admin return and sweep |
| `LeadSerial` | `OwnedIsNotAvailable`, `RelaysKeepClosedWon`, `MarksStick` | 1 Lead, 2 agents, 1 request at a time, every handler but review and sweep |
| `LeadAging` | `SweepCatchesUp` | 2 Leads, limit 2, with fairness |
| `InboxHandlers` | `TypeOK`, `EffectsPaidByErrors`, `AtMostOneHandler`, `KeepsLedger`, `ServedRelaysComplete` | a relayed event, or a document and a funding or invoice event together; 2 deliveries at a time, 2 failures each, 1 crash, with fairness |
| `Onboarding` | `TypeOK`, `SignInIsEarned`, `LinksWorkOnce`, `OverlapBoundsIssues`, `LiveLinksBounded` | 1 applicant, 1 countersigned document, 1 gate, 3 tokens, 2 requests at a time |
| `SignIn` | `TypeOK`, `GuessesAreLimited`, `AccessIsManaged` | an owner and 2 users, 2 requests at a time, a lock after 2 wrong passwords, 1 lock that expires |
| `LeadImport` | `TypeOK`, `LeadsComeFromValidRows`, `AcceptedIsStored`, `SerialBatchIsSettled`, `SubmittedIsRunning` | 1 batch, 2 rows, 2 companies, 2 requests at a time, 1 crash, 1 suppression; any number of failed transactions and lost answers |
| `ClientCases` | `TypeOK`, `CheckInsAreSingle`, `PaymentStandingShows`, `AttentionHasReason`, `ResolvedStaysResolved` | 1 account, 1 agent, 2 cases, payment problems and escalations, 2 requests at a time |
| `CadenceCron` | `TypeOK`, `DueAccountsAreReached` | 3 accounts of different periods, limit 2, a probe with 2 attempts, 1 failed day, with fairness |
| `CommissionLedger` | `TypeOK`, `EligibleIsNotHeld`, `EligibleWasDecided`, `DecisionFollowsPolicy` | 1 account, 1 agent, 1 entry, 2 holds, 2 requests at a time |

`DncLeadIsWorked` is violated: see "Where the code and its documents differ".

The bounds. No guard of the Lead engine relates two Leads but the capacity and
the limit of the sweep, so one Lead is enough elsewhere, and two where they
matter. Two requests at a time are what it takes for one to be stale; the
proofs have no bound. `Handlers` selects what an instance serves: a run serves
the handlers that write what its property reads, and those that lead there. A
suppressed or won Lead is taken up by few handlers, so a small selection may
come to a stop; the configurations of such runs do not check for deadlock, and
neither does that of `LeadImport`, whose completed batch has nothing to do. The
portal's routes are left out of `LeadOwnership`, since `BlackoutAtRest` is not
true of them (`DncLeadIsWorked`).
`MaxErrors` and `MaxCrashes` bound failures and crashes; two failures let an
event fail, be reopened and fail again, or two of its deliveries fail at once.
One applicant, batch or account is enough where every guard reads one; two
rows, because rows of a batch repeat each other; two cases and two holds,
because one may be settled while the other is open; three tokens, because two
overlapping requests issue two, and a third shows that no more come of them
before an old one is revoked. `Declines`, `Assignable`, `Settable`, `Triggers` and
`Profiles` leave out values that the guards do not tell apart. The code's five
wrong passwords are two: what matters is that an expired lock meets a counter
that is already at its limit. In the runs with symmetry no definition
distinguishes the values that are permuted, and no liveness is checked. Events do
not read each other's rows and share only the slots and the crashes, so a
behaviour of `MCWebhookInbox` has the relayed event, or those of the exclusive
routes (`served`).

"Unless requests overlap". READ COMMITTED transactions that write what an
earlier read decided lose updates. Where the code has no guard against it, a
property is stated of what was not overtaken, and a history variable says which
that is (`disturbed`, `alone`, `races`, `overlapped`, `crossed`, `raced`). What
overlap can do is then a documented limit: two failed sign-ins may lose a lock
(`FailSignIn` writes `lockedUntil` null from an old counter), a preview that
overlaps a submission writes VALID over IMPORTED, a resolution that overlaps a new case
clears its attention, a launch beside a payment problem shows an active
account, a clearance beside a hold leaves an eligible entry held, and a change
of access beside another may be that of a manager who no longer is one.

Fairness. `LeadEngine!FairSpec` assumes that the daily cron job keeps running
(a sweep that has something to do starts, and its write follows its read), and
nothing of users or GHL. The deployment schedules the job daily and the route
retries a database that is away. `SweepCatchesUp` needs a limit that covers the
Leads that are due on a day (two Leads, limit two: the run does not reach a
sweep that must leave one behind): timers are in three classes, so ties are broken
freely by the model. `WebhookInbox!FairSpec` assumes that a function that is
not killed makes its next call, and that GHL goes on delivering what it owes
(strong fairness, since a delivery needs a free slot). `RelaysComplete` promises
completion to an event that had at most one failing call and no killed function:
see the limits below. `CadenceCron!FairSpec` assumes that the route is called
and runs on, and that days pass. `DueAccountsAreReached` needs a limit that the
accounts due within a period do not outgrow: the sweep takes accounts by name,
so with a limit of one and periods of a day, the last by name is never reached.

`CapacityRespected` and the properties of `LeadSerial` hold when requests do not
overlap. With `Requests = {r1, r2}` in their configurations TLC finds each of
them violated, by a write that trusts an older read.

## Proofs

Every safety property that a passing run checks is a theorem, for any values of
the constants that satisfy the named assumption of its module (`ConstantsOK`,
`InboxConstants`, …). The assumptions say what the deployment gives: sets are
finite, limits are at least one, and a "null" is no member of the set it stands
beside. `ImportConstants` also asks for a row, a manifest and a company. Four of
the theorems about the Lead engine, and `DncLeadsRest`, have a hypothesis more: see there.

Few invariants are inductive, since a write does not look again at what its
handler has read. What each of them needs is a statement of what the requests in
flight know, and of why nothing that may come in between makes it untrue. Such an
`…Inv` is what a reader of the code would have to keep in mind; TLC checked
those that say most on the runs' instances before they were proved.

`LeadEngineProofs`

- `TypeCorrect`: `TypeOK` is inductive as it stands. The lemmas follow the code:
  `ServeType` for a read, `FinishType` for a write, then `ReadType`,
  `WriteType` and `OtherType` for the three groups of actions.
- `OwnershipIsNeverStolen`, `AcquisitionFollowsContact`: action properties, from
  `TypeOK` and `OwnerMoves`. Only a claim or a triage gives an owner, and its where
  clause holds of the row it writes; every other write keeps the owner or clears
  it (`WriteOwner`).
- `OpenPoolEntryIsEarned`, `ReferralsAreProtected`: `ReturnsInv` adds what the
  reads have established and no other handler can undo: the Lead of an admin
  return in flight, and of every row the sweep has read, has been owned and is no
  referral; the pool that a stale triage will write is one the Lead may
  be in; and an owner has been an owner.
- `DncLeadsRest`: for any number of requests, where the portal's four routes are
  not served, as in the run: these are the routes that do not look at `dnc`
  (`DncLeadIsWorked`). `ReadsAreFresh` says once what every read has checked.
- `ClaimsRespectCapacity`, `RelaysKeepWonLeads`: for one request at a time
  (`Requests = {r0}`), since with two TLC finds them violated. The sweep, the
  passing of time and the review page still come between the read and the write.
  `CurrentInv` says what a write relies on is still so: they free Leads, win none
  and contact none (`BetweenReadAndWrite`), so the list of an agent's active
  Leads only shrinks (`BetweenCapacity`).
- `OwnedLeadsAreWithdrawn`, `MarksAreKept`: for one request at a time and without
  the review page, which approves owned Leads again and suppresses a Lead under
  a disposition. `UnreviewedInv` adds that a disposition writes `suppressed` only on
  a Lead that is not suppressed, and that a completed appointment writes back AVAILABLE only
  on an unowned Lead. The theorems include the sweep, which the run leaves out.

`WebhookInboxProofs`

- `InboxTypeCorrect`.
- `EffectsArePaid`: `EffectsPaidByErrors` is inductive once the deliveries that may
  still have an effect or reopen the event, and a row that may be inserted or
  reopened, are counted with the effects (`PaidInv`). A step moves one delivery
  (`HandlingMove`), and spends what was counted, or is a failure (`CommitPays`,
  `PaidMove`).
- `HandlersExclude`: unless a failed call of it was committed, the row of an event that
  is being handled is RECEIVED and its handler is the only one (`ExclusiveInv`), because the
  insert needs no row and the reopening needs ERROR.
- `ProcessedStays`: `ProcessedIsFinal`, about the routes that record before their
  `try`, from the same invariant. For the relays it fails: see below.
- `InboxKeepsLedger`: the refinement. Under `ExclusiveInv` the phase that the
  mapping gives an event is that of its only handler's next call, or of its row
  if it has none (`PhaseIsKnown`); each database call is then a step of
  `EventLedger` or leaves the phase (`LedgerMove`), whatever the other deliveries do.

`AgentOnboardingProofs`

- `OnboardingTypeCorrect`, with what is known of the links a request holds.
- `SignInsAreEarned`: `EarnedInv`, that a confirmed call, the contact and the
  provisioning stand behind an approved status, a password, a live link and every
  request on the way to one. None of the three is ever taken back (`RowsGrow`),
  which is why the handlers' stale reads do no harm here.
- `LinksActivateOnce`: `ActivationsInv` counts a link that was consumed, and whose
  activation is not completed yet, with the activations.
- `EventsIssueFewLinks`: `IssuesInv` counts the events that were let through before
  the first of them provisioned the applicant; each of them is a request.
- `LiveLinksAreFew`: the links that are live are bounded by requests, but the set
  that a request will revoke is the one it read. `LiveInv` is about any set of
  requests that replace links: what all of them miss, and their own, are no more
  than the requests.

`SignInProofs`

- `SignInTypeCorrect`, with what a request's reads are.
- `LockoutLimitsGuesses`: `CounterInv`, that the counter is the number of wrong
  passwords, an unlocked account is one short of the limit, and a sign-in in
  flight has read the counter as it is, for users whose counter no two writers
  overlapped on.
- `ManagersManageAccess`: `AccessInv`, that a manager that was read is still one
  unless another change of access came since.

`LeadImportProofs`

- `ImportTypeCorrect`: not inductive alone: a Lead could be created from a row
  that has no company. `StagedInv` says that the rows that are handled are staged
  and have a content.
- `OnlyValidRowsBecomeLeads`: `ValidInv`, about the rows that wait, that a
  submission has read and that it has looked up.
- `UploadsAgree`: `AcceptedInv`, that the row a request answers for has its content,
  which never changes (`RowsEvolve`).
- `SubmissionsEnd`: inductive.
- `SerialBatchesSettle`: unless two requests of the client have overlapped, the
  batch's status bounds the statuses of its rows (`BatchFits`), a row says so
  only if it created a Lead, and one that created a Lead and does not say so knows it
  (`CreatedSaysSo`), a preview, a submission or a reconciliation in flight has
  read what is stored (`AllFit`), and unless a function died a row that is still to be
  reconciled is waited for by the submission in flight (`AllAwaited`).

`ClientServicingProofs`

- `ServicingTypeCorrect`; `ResolvedCasesStay`, an action property.
- `StandingShows`, `AttentionIsReasoned`, `SweepsOpenOne`: each with `RaceInv`,
  that the history of overlaps is right about the requests in flight, and with what
  a launch has read of the payments (`StandingInv`), a resolution of the other
  open cases (`AttentionInv`), and a sweep of the accounts without a check-in
  (`SingleInv`).

`CadenceCronProofs`

- `CronTypeCorrect`.
- `SweepsReachTheFirst`: about any finite set of accounts, a sweep opens at most
  `Limit` check-ins, for due accounts, the first by name; all if they are within
  the limit; and one at least if any is due. The number of due accounts before
  one grows along the due accounts (`RanksGrow`), so it maps those that are chosen
  one to one into `0..Limit-1`. `SweepReachesFirst` is the safe part of
  `DueAccountsAreReached`.

`CommissionProofs`, for every amount in whole cents and every answer of the
policy, and for any accounts, agents, entries, holds and requests

- `SplitIsExact`, `MoreCollectedPaysNoLess`, `SetupEarnsNoMore`: the splits. The
  lemmas are about clamping at zero and about halves.
- `EligibleOnlyWhileCurrent`: the ordered conditions of the policy amount to the
  sentence of its document. `FinanceAgreesWithLedger`: the finance review and the
  ledger, which are written apart, agree.
- `LedgerTypeCorrect`, with a release naming a hold that was applied.
- `HeldIsNotEligible`, `ClearancesAreDecided`, `DecisionsFollowPolicy`: `CurrentInv`,
  that what a review or a clearance has read so far is as it was, unless
  another transaction committed in between; any commit marks the others as
  overtaken (`CommitForgets`).

Only model-checked: the liveness properties `SweepCatchesUp`,
`ServedRelaysComplete` and `DueAccountsAreReached`, since fairness is out of the
prover's reach. `DncIsBlackout` is violated, as its run shows.

## Where the code and its documents differ

`DncLeadIsWorked`: the portal's action route checks `dnc` and `suppressed` for calls
only, so a disposition or a callback works a DNC Lead, of which
docs/LEAD_FLOW_ALIGNMENT_20260708.md:12 says that it is an absolute blackout.

Others that the models contain and no run is spent on:

- An appointment's attribution writes by id what it decided from an older read,
  over a win that came in between (`WriteAppointment`; the comment at
  lead-appointment-attribution.ts:32).
- A failing duplicate marks ERROR an event of a relay that another delivery
  processed (`MarkError`; docs/GHL_WEBHOOK_REPLAY.md:11).
- The portal's DNC route leaves callbacks scheduled (`WriteDncRoute`;
  README.md:120), a claim and its evidence are two commits (`WinClaim`;
  docs/LEAD_FLOW_ALIGNMENT_20260708.md:122), the count of the capacity is not part of
  the compare-and-set (`ReadClaim`; docs/BUILD-SPECS-INDEX.md:56), the sweep updates by
  id what it read outside its transaction (`WriteSweep`;
  docs/LEAD_FLOW_ALIGNMENT_20260708.md:171), and a cold disposition writes its
  lifecycle and `suppressed` by id, after a claim or a suppression that it has
  not seen (`WriteColdDisposition`; docs/LEAD_FLOW_ALIGNMENT_20260708.md:95,
  README.md:58).
- The certification page makes an agent that is not active Lead-eligible
  (`Certify`), which the agent's own certify page refuses (`CertifyAgent`).
- A preview that overlaps a submission writes VALID over an IMPORTED row
  (`PreviewRow`), which `rowTransitions` forbids.
- A payment problem or a retirement after a review does not redo its decision,
  so that a clearance still makes the entry ELIGIBLE (`RecordClearance`;
  docs/COMMISSION_ELIGIBILITY_LEDGER_STATUS.md:15-16).

Limits of the inbox that the model shows and no property can hold against: an
event whose function is killed, or whose failure cannot be marked, stays RECEIVED
and is answered as a duplicate from then on; a failed funding or invoice event
stays RECEIVED as well. A batch whose submission dies stays SUBMITTED, and a
row whose commit lost its answer then stays IMPORT_ERROR although its Lead exists.

## Not modelled

The map covers about a seventh of the repository's TypeScript. Nearly all of
the rest changes no state:

- Readiness, acceptance and health reports, static registries, CSV exports and
  the pages that show them: they read.
- Scripts: guards over source text, smoke tests, seeds, end-to-end tests.
- Pages, components, forms, validation schemas, request boundaries, signatures
  and headers: a rejected request changes no state.
- `lib/lead-ghl-handoff.ts` and `lib/ghl.ts`: calls to an external service that
  write a contact id, which no modelled guard reads.
- Controlled test data: fixtures for operators, which go through the modelled
  attributions.
- `lib/workflow.ts`, `lib/lead-opt-out-relay.ts`, `admin/page-v2.tsx`: no code calls them.
- Resolving an integration error sets a flag that nothing else reads.

## Plan

Every component that changes state has its module, and every safety property a
theorem. What is left:

1. Where a property holds only without overlap, a theorem of how far overlap can
   go, as `EventsIssueFewLinks` is of the links.
2. The relays of the inbox, of which `EventLedger` promises too much: an
   abstract specification that says what a failing duplicate may undo.
3. The safe parts of the liveness properties, as `SweepReachesFirst` is of
   `DueAccountsAreReached`: what a step towards completion never undoes.
