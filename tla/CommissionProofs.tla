-------------------------- MODULE CommissionProofs --------------------------
(***************************************************************************)
(* What the rules of CommissionPolicy guarantee for every amount and every *)
(* answer of the conditions they look at, and what CommissionLedger does   *)
(* with them for any accounts, agents, entries, holds and requests.        *)
(***************************************************************************)
EXTENDS CommissionLedger, Integers, TLAPS

-----------------------------------------------------------------------------
(* Money *)

LEMMA ClampedIsNatural ==
  ASSUME NEW cents \in Int
  PROVE  AtLeastZero(cents) \in Nat /\ AtLeastZero(cents) >= cents
BY DEF AtLeastZero

LEMMA ClampKeepsOrder ==
  ASSUME NEW low \in Int, NEW high \in Int, low <= high
  PROVE  AtLeastZero(low) <= AtLeastZero(high)
BY DEF AtLeastZero

LEMMA HalfIsBounded ==
  ASSUME NEW net \in Nat
  PROVE  /\ net \div 2 \in Nat
         /\ net \div 2 <= net - net \div 2
         /\ net - net \div 2 <= net \div 2 + 1
OBVIOUS

LEMMA HalfKeepsOrder ==
  ASSUME NEW low \in Nat, NEW high \in Nat, low <= high
  PROVE  low \div 2 <= high \div 2
OBVIOUS

LEMMA NetIsBounded ==
  ASSUME NEW collected \in Nat, NEW tax \in Nat, NEW wholesale \in Nat, NEW processing \in Nat
  PROVE  /\ Net(collected, tax, wholesale, processing) \in Nat
         /\ Net(collected, tax, wholesale, processing) <= collected
<1>1. AtLeastZero(collected - tax) \in Nat /\ AtLeastZero(collected - tax) <= collected
  BY DEF AtLeastZero
<1> QED  BY <1>1 DEF Net, AtLeastZero

\* calculateFiftyFiftyCommission loses and creates no cent: the two shares are
\* the net profit, which is at most what was collected; the agent's share is
\* never above the company's, and within a cent of it once the minimum is met.
THEOREM SplitIsExact ==
  ASSUME NEW collected \in Nat, NEW tax \in Nat, NEW wholesale \in Nat,
         NEW processing \in Nat, NEW minimum \in Nat
  PROVE  LET s == FiftyFifty(collected, tax, wholesale, processing, minimum) IN
         /\ s.agent \in Nat /\ s.company \in Nat
         /\ s.agent + s.company = s.net /\ s.net <= collected
         /\ s.agent <= s.company
         /\ s.net >= minimum => s.company <= s.agent + 1
<1> DEFINE net == Net(collected, tax, wholesale, processing)
           agent == IF net >= minimum THEN net \div 2 ELSE 0
<1>1. net \in Nat /\ net <= collected
  BY NetIsBounded
<1>2. FiftyFifty(collected, tax, wholesale, processing, minimum)
        = [net |-> net, agent |-> agent, company |-> net - agent]
  BY DEF FiftyFifty
<1> HIDE DEF net
<1>3. CASE net >= minimum
  BY <1>1, <1>2, <1>3, HalfIsBounded
<1>4. CASE ~(net >= minimum)
  BY <1>1, <1>2, <1>4
<1> QED  BY <1>3, <1>4

\* A larger collection under the same costs never pays the agent less:
\* giving part of it back cannot raise the share, whatever the minimum is.
THEOREM MoreCollectedPaysNoLess ==
  ASSUME NEW low \in Nat, NEW high \in Nat, low <= high,
         NEW tax \in Nat, NEW wholesale \in Nat, NEW processing \in Nat, NEW minimum \in Nat
  PROVE  FiftyFifty(low, tax, wholesale, processing, minimum).agent
           <= FiftyFifty(high, tax, wholesale, processing, minimum).agent
<1> DEFINE small == Net(low, tax, wholesale, processing)
           large == Net(high, tax, wholesale, processing)
           Share(net) == IF net >= minimum THEN net \div 2 ELSE 0
<1>1. small \in Nat /\ large \in Nat
  BY NetIsBounded
<1>2. small <= large
  <2>1. AtLeastZero(low - tax) \in Nat /\ AtLeastZero(high - tax) \in Nat
    BY ClampedIsNatural
  <2>2. AtLeastZero(low - tax) <= AtLeastZero(high - tax)
    BY ClampKeepsOrder
  <2>3. AtLeastZero(low - tax) - wholesale - processing \in Int
        /\ AtLeastZero(high - tax) - wholesale - processing \in Int
        /\ AtLeastZero(low - tax) - wholesale - processing
             <= AtLeastZero(high - tax) - wholesale - processing
    BY <2>1, <2>2
  <2> QED  BY <2>3, ClampKeepsOrder DEF Net
<1>3. /\ FiftyFifty(low, tax, wholesale, processing, minimum).agent = Share(small)
      /\ FiftyFifty(high, tax, wholesale, processing, minimum).agent = Share(large)
  BY DEF FiftyFifty
<1> HIDE DEF small, large
<1>4. small \div 2 <= large \div 2
  BY <1>1, <1>2, HalfKeepsOrder
<1>5. large \div 2 \in Nat
  BY <1>1, HalfIsBounded
<1> QED  BY <1>1, <1>2, <1>3, <1>4, <1>5

\* A setup payment earns its partner no more than the same money in a month,
\* and nothing below the package's target: the target is the only difference.
THEOREM SetupEarnsNoMore ==
  ASSUME NEW code \in DOMAIN PackageSchedule,
         NEW collected \in Nat, NEW fee \in Nat, NEW tax \in Nat
  PROVE  LET setup == SetupSplit(code, collected, fee, tax)
             month == MonthlySplit(code, collected, fee, tax) IN
         /\ setup.net = month.net
         /\ setup.agent <= month.agent
         /\ setup.net < PackageSchedule[code].setupTarget => setup.agent = 0
<1> DEFINE wholesale == PackageSchedule[code].wholesale
           target == PackageSchedule[code].setupTarget
           net == Net(collected, tax, wholesale, fee)
<1>1. wholesale \in Nat /\ target \in Nat
  BY DEF PackageSchedule
<1>2. net \in Nat
  BY <1>1, NetIsBounded
<1>3. SetupSplit(code, collected, fee, tax)
        = [net |-> net, agent |-> IF net >= target THEN net \div 2 ELSE 0,
           company |-> net - (IF net >= target THEN net \div 2 ELSE 0)]
  BY DEF SetupSplit, FiftyFifty
<1>4. MonthlySplit(code, collected, fee, tax)
        = [net |-> net, agent |-> IF net >= 0 THEN net \div 2 ELSE 0,
           company |-> net - (IF net >= 0 THEN net \div 2 ELSE 0)]
  BY DEF MonthlySplit, FiftyFifty
<1> HIDE DEF net, target, wholesale
<1>5. net \div 2 \in Nat
  BY <1>2, HalfIsBounded
<1>6. SetupSplit(code, collected, fee, tax).agent <= MonthlySplit(code, collected, fee, tax).agent
  BY <1>2, <1>3, <1>4, <1>5
<1>7. net < target => SetupSplit(code, collected, fee, tax).agent = 0
  BY <1>1, <1>2, <1>3
<1>8. SetupSplit(code, collected, fee, tax).net = net /\ MonthlySplit(code, collected, fee, tax).net = net
  BY <1>3, <1>4
<1> QED  BY <1>6, <1>7, <1>8 DEF target

-----------------------------------------------------------------------------
(* Eligibility *)

\* evaluateCommissionEligibility makes an agent eligible only while the client's
\* payments are current, and an active agent only on an account it services.
THEOREM EligibleOnlyWhileCurrent ==
  ASSUME NEW standing \in ProfileStates, NEW serviceState \in ServiceStates,
         NEW hasOwner \in BOOLEAN, NEW isOwner \in BOOLEAN, NEW current \in BOOLEAN
  PROVE  CommissionEligibility(standing, serviceState, hasOwner, isOwner, current) = "ELIGIBLE"
           <=> /\ current
               /\ \/ standing = "RETIRED"
                  \/ standing = "ACTIVE" /\ serviceState = "ACTIVE" /\ hasOwner /\ isOwner
<1>1. CASE standing = "ACTIVE"
  BY <1>1 DEF CommissionEligibility
<1>2. CASE standing = "RETIRED"
  BY <1>2 DEF CommissionEligibility
<1>3. CASE standing \in {"TERMINATED", "ON_HOLD", "MISSING"}
  BY <1>3 DEF CommissionEligibility
<1> QED  BY <1>1, <1>2, <1>3 DEF ProfileStates

\* Whatever the finance review finds ready is an entry the ledger shows as
\* ELIGIBLE: cleared, not held, and of an eligible agent.
THEOREM FinanceAgreesWithLedger ==
  ASSUME NEW enabled \in BOOLEAN, NEW eligibility \in EligibilityStates,
         NEW cleared \in BOOLEAN, NEW held \in BOOLEAN,
         NEW approved \in BOOLEAN, NEW verified \in BOOLEAN,
         FinanceReadiness(enabled, eligibility = "ELIGIBLE", cleared, held, approved, verified)
           = "READY_FOR_MANUAL_REVIEW"
  PROVE  LedgerReadiness(cleared, eligibility, held) = "ELIGIBLE" /\ approved /\ verified
<1> DEFINE conditions ==
      <<Unless("FINANCE_DISABLED", enabled),
        Unless("COMMISSION_NOT_ELIGIBLE", eligibility = "ELIGIBLE"),
        Unless("PAYMENT_NOT_CLEARED", cleared), Unless("ACTIVE_HOLD", ~held),
        Unless("FINANCE_APPROVAL_REQUIRED", approved),
        Unless("DESTINATION_NOT_VERIFIED", verified)>>
<1>1. DOMAIN conditions = 1..6
  OBVIOUS
<1>2. \A i \in DOMAIN conditions : conditions[i].ok
  <2> SUFFICES ASSUME NEW j \in DOMAIN conditions, ~conditions[j].ok
               PROVE  FALSE
    OBVIOUS
  <2>1. \A i \in DOMAIN conditions : conditions[i].reason # "READY_FOR_MANUAL_REVIEW"
    BY <1>1 DEF Unless
  <2>2. PICK i \in DOMAIN conditions :
          ~conditions[i].ok /\ \A k \in 1..(i - 1) : conditions[k].ok
    BY <1>1 DEF Unless
  <2> QED  BY <2>1, <2>2 DEF FinanceReadiness, Blocker
<1>3. eligibility = "ELIGIBLE" /\ cleared /\ ~held /\ approved /\ verified
  <2>1. /\ conditions[2].ok = (eligibility = "ELIGIBLE") /\ conditions[3].ok = cleared
        /\ conditions[4].ok = ~held /\ conditions[5].ok = approved
        /\ conditions[6].ok = verified
    BY DEF Unless
  <2>2. conditions[2].ok /\ conditions[3].ok /\ conditions[4].ok /\ conditions[5].ok
        /\ conditions[6].ok
    BY <1>1, <1>2
  <2> HIDE DEF conditions
  <2> QED  BY <2>1, <2>2, Zenon
<1> QED  BY <1>3 DEF LedgerReadiness

-----------------------------------------------------------------------------
(* Requests over the ledger *)

Pending == Review \union Clear \union Release \union {Idle}

\* A request to release names a hold that was applied.
ReleasesAreOfHolds ==
  \A r \in Requests : At(r, "release") => hold[request[r].hold].state # "ABSENT"

\* TypeOK is inductive with what a release knows of its hold.
TypeInv == TypeOK /\ ReleasesAreOfHolds

\* The call of a request tells its kind.
LEMMA KindOfCall ==
  ASSUME TypeOK, NEW r \in Requests
  PROVE  /\ request[r] \in Pending
         /\ At(r, "review") => request[r] \in Review
         /\ At(r, "clear") => request[r] \in Clear
         /\ At(r, "release") => request[r] \in Release
         /\ Idle.call = "none"
<1>1. request[r] \in Review \/ request[r] \in Clear \/ request[r] \in Release \/ request[r] = Idle
  BY DEF TypeOK
<1>2. request[r] \in Pending
  BY <1>1 DEF Pending
<1>3. Idle.call = "none"
  BY DEF Idle
<1>4. CASE request[r] \in Review
  <2>1. request[r].call = "review"
    BY <1>4 DEF Review
  <2> QED  BY <1>2, <1>3, <1>4, <2>1 DEF At
<1>5. CASE request[r] \in Clear
  <2>1. request[r].call = "clear"
    BY <1>5 DEF Clear
  <2> QED  BY <1>2, <1>3, <1>5, <2>1 DEF At
<1>6. CASE request[r] \in Release
  <2>1. request[r].call = "release"
    BY <1>6 DEF Release
  <2> QED  BY <1>2, <1>3, <1>6, <2>1 DEF At
<1> QED  BY <1>1, <1>2, <1>3, <1>4, <1>5, <1>6 DEF At

\* An overtaken request goes on as what it was, and is not alone.
LEMMA OvertakenIsPending ==
  ASSUME TypeOK, NEW q \in Requests
  PROVE  /\ Overtaken(q) \in Pending
         /\ Overtaken(q).call = request[q].call
         /\ Overtaken(q).call # "none" => Overtaken(q).alone = FALSE
         /\ At(q, "release") => Overtaken(q).hold = request[q].hold
<1>1. CASE request[q] = Idle
  BY <1>1 DEF Overtaken, Pending, Idle, At
<1>2. CASE request[q] # Idle /\ request[q] \in Review
  BY <1>2 DEF Overtaken, Pending, Review, At
<1>3. CASE request[q] # Idle /\ request[q] \in Clear
  BY <1>3 DEF Overtaken, Pending, Clear, At
<1>4. CASE request[q] # Idle /\ request[q] \in Release
  BY <1>4 DEF Overtaken, Pending, Release
<1> QED  BY <1>1, <1>2, <1>3, <1>4, KindOfCall DEF Pending

\* After a commit nobody who is still in flight is alone.
LEMMA NobodyAlone ==
  ASSUME TypeOK, Commit \/ \E r \in Requests : CommitOf(r)
  PROVE  /\ request' \in [Requests -> Pending]
         /\ \A q \in Requests :
              /\ request'[q].call # "none" => request'[q].alone = FALSE
              /\ request'[q].call = "release" =>
                   At(q, "release") /\ request'[q].hold = request[q].hold
<1>1. Idle \in Pending /\ Idle.call = "none"
  BY DEF Pending, Idle
<1>2. \A q \in Requests : request'[q] = Idle \/ request'[q] = Overtaken(q)
  BY DEF Commit, CommitOf
<1>3. DOMAIN request' = Requests /\ request' = [q \in Requests |-> request'[q]]
  BY DEF Commit, CommitOf
<1>4. request' \in [Requests -> Pending]
  BY <1>1, <1>2, <1>3, OvertakenIsPending
<1>5. ASSUME NEW q \in Requests
      PROVE  /\ request'[q].call # "none" => request'[q].alone = FALSE
             /\ request'[q].call = "release" =>
                  At(q, "release") /\ request'[q].hold = request[q].hold
  <2>1. CASE request'[q] = Idle
    BY <1>1, <2>1
  <2>2. CASE request'[q] = Overtaken(q)
    BY <2>2, OvertakenIsPending DEF At
  <2> QED  BY <1>2, <2>1, <2>2
<1> QED  BY <1>4, <1>5

\* A commit that changes only accounts, profiles, decisions or what is not of a
\* type keeps TypeInv.
LEMMA CommitType ==
  ASSUME TypeInv, Commit \/ \E r \in Requests : CommitOf(r),
         account' \in [Accounts -> Account], profile' \in [Agents -> ProfileStates],
         decision' \in [Pairs -> EligibilityStates \union {"NONE"}],
         entry' = entry, hold' = hold, disturbed' = disturbed
  PROVE  TypeInv'
BY NobodyAlone DEF TypeInv, TypeOK, ReleasesAreOfHolds, At, Pending

\* A step of one request that writes no row keeps TypeInv.
LEMMA RequestType ==
  ASSUME TypeInv, UNCHANGED <<account, profile, decision, entry, hold, disturbed>>,
         NEW r \in Requests, NEW pending \in Pending,
         request' = [request EXCEPT ![r] = pending],
         pending.call = "release" => hold[pending.hold].state # "ABSENT"
  PROVE  TypeInv'
BY DEF TypeInv, TypeOK, ReleasesAreOfHolds, At, Pending

\* The rows and the requests keep their types in every step of a request.
LEMMA RequestStepType ==
  ASSUME TypeInv, NEW r \in Requests, RequestStep(r)
  PROVE  TypeInv'
<1> USE DEF TypeInv
<1>1. CASE Abandon(r)
  <2>1. Idle \in Pending /\ Idle.call = "none"
    BY DEF Pending, Idle
  <2> QED  BY <1>1, <2>1, RequestType DEF Abandon
<1>2. ASSUME NEW pair \in Pairs, StartReview(r, pair)
      PROVE  TypeInv'
  <2> DEFINE pending == [call |-> "review", pair |-> pair, todo |-> {"account", "profile"},
                         read |-> [owner |-> NoAgent, house |-> FALSE, current |-> FALSE],
                         profile |-> "MISSING", alone |-> TRUE]
  <2>1. pending \in Review
    BY DEF Review, Account, Owners, ProfileStates
  <2>2. pending \in Pending /\ pending.call = "review"
    BY <2>1 DEF Pending
  <2> HIDE DEF pending
  <2>3. request' = [request EXCEPT ![r] = pending]
    BY <1>2 DEF StartReview, Start, pending
  <2> QED  BY <1>2, <2>2, <2>3, RequestType DEF StartReview
<1>3. ASSUME ReadAccount(r) \/ ReadProfile(r)
      PROVE  TypeInv'
  <2>1. request[r] \in Review
    BY <1>3, KindOfCall DEF ReadAccount, ReadProfile
  <2>2. account[request[r].pair[1]] \in Account /\ profile[request[r].pair[2]] \in ProfileStates
    BY <2>1 DEF Review, Pairs, TypeOK
  <2>3. /\ [request[r] EXCEPT !.todo = @ \ {"account"}, !.read = account[request[r].pair[1]]] \in Review
        /\ [request[r] EXCEPT !.todo = @ \ {"profile"}, !.profile = profile[request[r].pair[2]]] \in Review
    BY <2>1, <2>2 DEF Review
  <2>4. PICK pending \in Review : request' = [request EXCEPT ![r] = pending]
    BY <1>3, <2>3 DEF ReadAccount, ReadProfile, TypeOK
  <2>5. pending \in Pending /\ pending.call = "review"
    BY DEF Pending, Review
  <2> QED  BY <1>3, <2>4, <2>5, RequestType DEF ReadAccount, ReadProfile
<1>4. CASE RecordDecision(r)
  <2>1. request[r] \in Review
    BY <1>4, KindOfCall DEF RecordDecision
  <2>2. Reviewed(request[r].profile, request[r].read, request[r].pair[2]) \in EligibilityStates
    BY DEF Reviewed, CommissionEligibility, EligibilityStates
  <2>3. decision' \in [Pairs -> EligibilityStates \union {"NONE"}]
    BY <1>4, <2>2 DEF RecordDecision, TypeOK
  <2> QED  BY <1>4, <2>3, CommitType DEF RecordDecision, TypeOK
<1>5. ASSUME NEW e \in Entries, StartClear(r, e)
      PROVE  TypeInv'
  <2> DEFINE pending == [call |-> "clear", entry |-> e, todo |-> {"decision", "holds"},
                         eligible |-> TRUE, alone |-> TRUE]
  <2>1. pending \in Clear
    BY DEF Clear
  <2>2. pending \in Pending /\ pending.call = "clear"
    BY <2>1 DEF Pending
  <2> HIDE DEF pending
  <2>3. request' = [request EXCEPT ![r] = pending]
    BY <1>5 DEF StartClear, Start, pending
  <2> QED  BY <1>5, <2>2, <2>3, RequestType DEF StartClear
<1>6. ASSUME ReadDecision(r) \/ CountHolds(r)
      PROVE  TypeInv'
  <2>1. request[r] \in Clear
    BY <1>6, KindOfCall DEF ReadDecision, CountHolds
  <2>2. \A found \in BOOLEAN :
          /\ [request[r] EXCEPT !.todo = @ \ {"decision"}, !.eligible = @ /\ found] \in Clear
          /\ [request[r] EXCEPT !.todo = @ \ {"holds"}, !.eligible = @ /\ found] \in Clear
    BY <2>1 DEF Clear
  <2>3. Decided(request[r].entry) \in BOOLEAN /\ Unheld(request[r].entry) \in BOOLEAN
    BY DEF Decided, Unheld
  <2>4. PICK pending \in Clear : request' = [request EXCEPT ![r] = pending]
    BY <1>6, <2>2, <2>3 DEF ReadDecision, CountHolds, TypeOK
  <2>5. pending \in Pending /\ pending.call = "clear"
    BY DEF Pending, Clear
  <2> QED  BY <1>6, <2>4, <2>5, RequestType DEF ReadDecision, CountHolds
<1>7. CASE RecordClearance(r)
  <2>1. request[r] \in Clear
    BY <1>7, KindOfCall DEF RecordClearance
  <2>2. request[r].entry \in Entries
    BY <2>1 DEF Clear
  <2>3. /\ entry' \in [Entries -> Entry]
        /\ \A e \in Entries : entry'[e].status = "ELIGIBLE" => entry'[e].cleared
        /\ disturbed' \subseteq Entries
    <3> DEFINE row == Cleared(entry[request[r].entry], request[r].eligible)
    <3>1. row \in Entry /\ row.cleared
      BY <2>2 DEF Cleared, TypeOK, Entry, LedgerStates
    <3>2. entry' = [entry EXCEPT ![request[r].entry] = row]
      BY <1>7 DEF RecordClearance
    <3>3. disturbed' \subseteq Entries
      BY <1>7, <2>2 DEF RecordClearance, TypeOK
    <3> HIDE DEF row
    <3> QED  BY <2>2, <3>1, <3>2, <3>3 DEF TypeOK
  <2> QED  BY <1>7, <2>3, NobodyAlone DEF RecordClearance, TypeOK, ReleasesAreOfHolds, At, Pending
<1>8. ASSUME NEW h \in Holds, ReadHold(r, h)
      PROVE  TypeInv'
  <2> DEFINE pending == [call |-> "release", hold |-> h, alone |-> TRUE]
  <2>1. pending \in Release /\ pending.call = "release" /\ pending.hold = h
    BY DEF Release
  <2>2. pending \in Pending
    BY <2>1 DEF Pending
  <2> HIDE DEF pending
  <2>3. request' = [request EXCEPT ![r] = pending]
    BY <1>8 DEF ReadHold, Start, pending
  <2>4. hold[pending.hold].state # "ABSENT"
    BY <1>8, <2>1 DEF ReadHold
  <2> QED  BY <1>8, <2>2, <2>3, <2>4, RequestType DEF ReadHold
<1>9. CASE ReleaseHold(r)
  <2> DEFINE h == request[r].hold
  <2>1. h \in Holds /\ hold[h].state # "ABSENT"
    BY <1>9, KindOfCall DEF ReleaseHold, Release, ReleasesAreOfHolds
  <2>2. hold[h].entry \in Entries
    BY <2>1 DEF TypeOK, Hold
  <2>3. /\ hold' \in [Holds -> Hold]
        /\ \A g \in Holds : hold'[g].entry = hold[g].entry
        /\ \A g \in Holds : hold'[g].state = "ABSENT" <=> hold[g].state = "ABSENT"
    BY <1>9, <2>1 DEF ReleaseHold, TypeOK, Hold
  <2>4. /\ entry' \in [Entries -> Entry]
        /\ \A e \in Entries : entry'[e].status = "ELIGIBLE" => entry'[e].cleared
    BY <1>9, <2>2 DEF ReleaseHold, Released, TypeOK, Entry, LedgerStates
  <2>5. TypeOK'
    BY <1>9, <2>3, <2>4, NobodyAlone DEF ReleaseHold, TypeOK, Pending
  <2>6. ReleasesAreOfHolds'
    <3>1. ASSUME NEW q \in Requests, request'[q].call = "release"
          PROVE  request[q].hold \in Holds /\ hold[request[q].hold].state # "ABSENT"
                 /\ request'[q].hold = request[q].hold
      BY <1>9, <3>1, NobodyAlone, KindOfCall DEF ReleaseHold, Release, ReleasesAreOfHolds
    <3> QED  BY <2>3, <3>1 DEF ReleasesAreOfHolds, At
  <2> QED  BY <2>5, <2>6
<1> QED  BY <1>1, <1>2, <1>3, <1>4, <1>5, <1>6, <1>7, <1>8, <1>9 DEF RequestStep

\* The other transactions of the admins, and of the servicing workflow
Written ==
  \/ \E a \in Accounts : PaymentProblem(a) \/ PaymentResolved(a) \/ TransferToHouse(a)
  \/ \E g \in Agents, status \in Profiles \ {"MISSING"} : SetProfile(g, status)
  \/ \E e \in Entries, given \in Owners : Intake(e, given)
  \/ \E h \in Holds, e \in Entries : ApplyHold(h, e)

\* The rows and the requests keep their types in every other transaction.
LEMMA WrittenType ==
  ASSUME TypeInv, Written
  PROVE  TypeInv'
<1> USE DEF TypeInv
<1>1. ASSUME NEW a \in Accounts, PaymentProblem(a) \/ PaymentResolved(a) \/ TransferToHouse(a)
      PROVE  TypeInv'
  <2>1. account' \in [Accounts -> Account]
    <3>1. NoAgent \in Owners /\ account[a] \in Account
      BY DEF Owners, TypeOK
    <3>2. \A current \in BOOLEAN :
            [account[a] EXCEPT !.current = current, !.house = FALSE] \in Account
      BY <3>1 DEF Account
    <3>3. [account[a] EXCEPT !.house = TRUE, !.owner = NoAgent] \in Account
      BY <3>1 DEF Account
    <3>4. PICK row \in Account : account' = [account EXCEPT ![a] = row]
      BY <1>1, <3>2, <3>3 DEF PaymentProblem, PaymentResolved, TransferToHouse, TypeOK
    <3> QED  BY <3>4 DEF TypeOK
  <2> QED  BY <1>1, <2>1, CommitType DEF PaymentProblem, PaymentResolved, TransferToHouse, TypeOK
<1>2. ASSUME NEW g \in Agents, NEW status \in Profiles \ {"MISSING"}, SetProfile(g, status)
      PROVE  TypeInv'
  <2>1. profile' \in [Agents -> ProfileStates]
    BY <1>2, LedgerConstants DEF SetProfile, TypeOK
  <2> QED  BY <1>2, <2>1, CommitType DEF SetProfile, TypeOK
<1>3. ASSUME NEW e \in Entries, NEW given \in Owners, Intake(e, given)
      PROVE  TypeInv'
  <2>1. PICK earning \in Owners :
          entry' = [entry EXCEPT ![e].status = "PENDING_VERIFICATION", ![e].earning = earning]
    BY <1>3 DEF Intake, TypeOK, Entry, Account
  <2>2. /\ entry' \in [Entries -> Entry]
        /\ \A f \in Entries : entry'[f].status = "ELIGIBLE" => entry'[f].cleared
    BY <2>1 DEF TypeOK, Entry, LedgerStates
  <2> QED  BY <1>3, <2>2, NobodyAlone DEF Intake, TypeOK, ReleasesAreOfHolds, At, Pending
<1>4. ASSUME NEW h \in Holds, NEW e \in Entries, ApplyHold(h, e)
      PROVE  TypeInv'
  <2>1. /\ entry' \in [Entries -> Entry]
        /\ \A f \in Entries : entry'[f].status = "ELIGIBLE" => entry'[f].cleared
    BY <1>4 DEF ApplyHold, TypeOK, Entry, LedgerStates
  <2>2. hold' \in [Holds -> Hold]
    BY <1>4 DEF ApplyHold, TypeOK, Hold
  <2>3. /\ \A g \in Holds : hold'[g].state = "ABSENT" <=> hold'[g].entry = NoEntry
        /\ \A g \in Holds : hold[g].state # "ABSENT" => hold'[g].state # "ABSENT"
    BY <1>4, LedgerConstants DEF ApplyHold, TypeOK, Hold
  <2>4. TypeOK'
    BY <1>4, <2>1, <2>2, <2>3, NobodyAlone DEF ApplyHold, TypeOK, Pending
  <2>5. ReleasesAreOfHolds'
    <3>1. ASSUME NEW q \in Requests, request'[q].call = "release"
          PROVE  request[q].hold \in Holds /\ hold[request[q].hold].state # "ABSENT"
                 /\ request'[q].hold = request[q].hold
      BY <1>4, <3>1, NobodyAlone, KindOfCall DEF ApplyHold, Release, ReleasesAreOfHolds
    <3> QED  BY <2>3, <3>1 DEF ReleasesAreOfHolds, At
  <2> QED  BY <2>4, <2>5
<1> QED  BY <1>1, <1>2, <1>3, <1>4 DEF Written

\* A step is one of a request, or another transaction.
LEMMA StepsOfLedger == Next <=> (\E r \in Requests : RequestStep(r)) \/ Written
BY DEF Next, Written

LEMMA LedgerInvariant == Spec => []TypeInv
<1>1. Init => TypeInv
  <2> SUFFICES ASSUME Init PROVE TypeInv
    OBVIOUS
  <2>1. account \in [Accounts -> Account] /\ entry \in [Entries -> Entry]
    <3>1. NoAgent \in Owners
      BY DEF Owners
    <3>2. \A g \in Owners : [owner |-> g, house |-> FALSE, current |-> TRUE] \in Account
      BY DEF Account
    <3>3. \A a \in Accounts :
            [status |-> "ABSENT", account |-> a, earning |-> NoAgent, cleared |-> FALSE] \in Entry
      BY <3>1 DEF Entry
    <3> QED  BY <3>2, <3>3 DEF Init
  <2>2. \A e \in Entries : entry[e].status = "ABSENT"
    BY DEF Init
  <2>3. hold \in [Holds -> Hold] /\ request \in [Requests -> Pending]
    BY DEF Init, Hold, Pending
  <2>4. Idle.call = "none"
    BY DEF Idle
  <2>5. decision \in [Pairs -> EligibilityStates \union {"NONE"}]
        /\ profile \in [Agents -> ProfileStates]
    BY DEF Init, ProfileStates
  <2>6. \A h \in Holds : hold[h].state = "ABSENT" <=> hold[h].entry = NoEntry
    BY DEF Init
  <2>7. TypeOK
    BY <2>1, <2>2, <2>3, <2>5, <2>6 DEF Init, TypeOK, Pending
  <2>8. ReleasesAreOfHolds
    BY <2>4 DEF Init, ReleasesAreOfHolds, At
  <2> QED  BY <2>7, <2>8 DEF TypeInv
<1>2. TypeInv /\ [Next]_vars => TypeInv'
  <2>1. TypeInv /\ UNCHANGED vars => TypeInv'
    BY DEF TypeInv, TypeOK, ReleasesAreOfHolds, At, vars
  <2> QED  BY <2>1, RequestStepType, WrittenType, StepsOfLedger
<1> QED  BY <1>1, <1>2, PTL DEF Spec

\* The rows have their types: whatever is held, released and cleared, and in
\* whatever order, an entry is eligible only if its payment was recorded as
\* cleared, and what was applied as a hold never ceases to be one of an entry.
THEOREM LedgerTypeCorrect == Spec => []TypeOK
BY LedgerInvariant, PTL DEF TypeInv

-----------------------------------------------------------------------------
(* Eligibility in the ledger *)

\* What a request has read is still so as long as nothing overtook it.
ReviewIsCurrent(r) ==
  At(r, "review") /\ request[r].alone =>
    /\ "account" \notin request[r].todo => request[r].read = account[request[r].pair[1]]
    /\ "profile" \notin request[r].todo => request[r].profile = profile[request[r].pair[2]]

ClearanceIsCurrent(r) ==
  At(r, "clear") /\ request[r].alone /\ request[r].eligible =>
    /\ "decision" \notin request[r].todo => Decided(request[r].entry)
    /\ "holds" \notin request[r].todo => Unheld(request[r].entry)

\* EligibleIsNotHeld is inductive with what requests know.
CurrentInv ==
  /\ \A r \in Requests : ReviewIsCurrent(r) /\ ClearanceIsCurrent(r)
  /\ EligibleIsNotHeld

\* After a commit nobody's reads matter any more.
LEMMA CommitForgets ==
  ASSUME TypeOK, Commit \/ \E r \in Requests : CommitOf(r)
  PROVE  \A r \in Requests : ReviewIsCurrent(r)' /\ ClearanceIsCurrent(r)'
<1> SUFFICES ASSUME NEW r \in Requests PROVE ReviewIsCurrent(r)' /\ ClearanceIsCurrent(r)'
  OBVIOUS
<1>1. request'[r].call # "none" => request'[r].alone = FALSE
  BY NobodyAlone
<1> QED  BY <1>1 DEF ReviewIsCurrent, ClearanceIsCurrent, At

\* A step of one request that writes no row keeps what the others know.
LEMMA ReadKeeps ==
  ASSUME CurrentInv, UNCHANGED <<account, profile, decision, entry, hold, disturbed>>,
         NEW r \in Requests, NEW pending,
         request \in [Requests -> Pending], request' = [request EXCEPT ![r] = pending],
         ReviewIsCurrent(r)' /\ ClearanceIsCurrent(r)'
  PROVE  CurrentInv'
<1>1. ASSUME NEW q \in Requests
      PROVE  ReviewIsCurrent(q)' /\ ClearanceIsCurrent(q)'
  <2>1. CASE q = r
    BY <2>1
  <2>2. CASE q # r
    BY <2>2 DEF CurrentInv, ReviewIsCurrent, ClearanceIsCurrent, At, Decided, Unheld, ActiveHolds
  <2> QED  BY <2>1, <2>2
<1>2. EligibleIsNotHeld'
  BY DEF CurrentInv, EligibleIsNotHeld, ActiveHolds
<1> QED  BY <1>1, <1>2 DEF CurrentInv

\* Every step of a request preserves CurrentInv.
LEMMA RequestStepCurrent ==
  ASSUME TypeInv, CurrentInv, NEW r \in Requests, RequestStep(r)
  PROVE  CurrentInv'
<1> USE DEF TypeInv
<1>0. request \in [Requests -> Pending]
  BY DEF TypeOK, Pending
<1>1. CASE Abandon(r)
  <2>1. request'[r] = Idle /\ Idle.call = "none"
    BY <1>0, <1>1 DEF Abandon, Idle
  <2>2. ReviewIsCurrent(r)' /\ ClearanceIsCurrent(r)'
    BY <2>1 DEF ReviewIsCurrent, ClearanceIsCurrent, At
  <2> QED  BY <1>0, <1>1, <2>2, ReadKeeps DEF Abandon
<1>2. ASSUME NEW pair \in Pairs, StartReview(r, pair)
      PROVE  CurrentInv'
  <2>1. request'[r].call = "review" /\ request'[r].todo = {"account", "profile"}
    BY <1>0, <1>2 DEF StartReview, Start
  <2>2. ReviewIsCurrent(r)' /\ ClearanceIsCurrent(r)'
    BY <2>1 DEF ReviewIsCurrent, ClearanceIsCurrent, At
  <2> QED  BY <1>0, <1>2, <2>2, ReadKeeps DEF StartReview, Start
<1>3. CASE ReadAccount(r)
  <2>1. request[r] \in Review /\ ReviewIsCurrent(r)
    BY <1>3, KindOfCall DEF ReadAccount, CurrentInv
  <2>2. request'[r] = [request[r] EXCEPT !.todo = @ \ {"account"},
                                         !.read = account[request[r].pair[1]]]
    BY <1>0, <1>3 DEF ReadAccount
  <2>3. /\ request'[r].call = "review" /\ request'[r].todo = request[r].todo \ {"account"}
        /\ request'[r].read = account[request[r].pair[1]] /\ request'[r].pair = request[r].pair
        /\ request'[r].profile = request[r].profile /\ request'[r].alone = request[r].alone
    BY <2>1, <2>2 DEF Review
  <2>4. ReviewIsCurrent(r)' /\ ClearanceIsCurrent(r)'
    BY <1>3, <2>1, <2>3 DEF ReadAccount, ReviewIsCurrent, ClearanceIsCurrent, At
  <2> QED  BY <1>0, <1>3, <2>4, ReadKeeps DEF ReadAccount
<1>4. CASE ReadProfile(r)
  <2>1. request[r] \in Review /\ ReviewIsCurrent(r)
    BY <1>4, KindOfCall DEF ReadProfile, CurrentInv
  <2>2. request'[r] = [request[r] EXCEPT !.todo = @ \ {"profile"},
                                         !.profile = profile[request[r].pair[2]]]
    BY <1>0, <1>4 DEF ReadProfile
  <2>3. /\ request'[r].call = "review" /\ request'[r].todo = request[r].todo \ {"profile"}
        /\ request'[r].profile = profile[request[r].pair[2]] /\ request'[r].pair = request[r].pair
        /\ request'[r].read = request[r].read /\ request'[r].alone = request[r].alone
    BY <2>1, <2>2 DEF Review
  <2>4. ReviewIsCurrent(r)' /\ ClearanceIsCurrent(r)'
    BY <1>4, <2>1, <2>3 DEF ReadProfile, ReviewIsCurrent, ClearanceIsCurrent, At
  <2> QED  BY <1>0, <1>4, <2>4, ReadKeeps DEF ReadProfile
<1>5. CASE RecordDecision(r)
  <2>1. EligibleIsNotHeld'
    BY <1>5 DEF RecordDecision, CurrentInv, EligibleIsNotHeld, ActiveHolds
  <2> QED  BY <1>5, <2>1, CommitForgets DEF RecordDecision, CurrentInv
<1>6. ASSUME NEW e \in Entries, StartClear(r, e)
      PROVE  CurrentInv'
  <2>1. request'[r].call = "clear" /\ request'[r].todo = {"decision", "holds"}
    BY <1>0, <1>6 DEF StartClear, Start
  <2>2. ReviewIsCurrent(r)' /\ ClearanceIsCurrent(r)'
    BY <2>1 DEF ReviewIsCurrent, ClearanceIsCurrent, At
  <2> QED  BY <1>0, <1>6, <2>2, ReadKeeps DEF StartClear, Start
<1>7. ASSUME ReadDecision(r) \/ CountHolds(r)
      PROVE  CurrentInv'
  <2> DEFINE e == request[r].entry
  <2>1. request[r] \in Clear /\ ClearanceIsCurrent(r)
    BY <1>7, KindOfCall DEF ReadDecision, CountHolds, CurrentInv
  <2>2. /\ request'[r].call = "clear" /\ request'[r].entry = e
        /\ request'[r].alone = request[r].alone
        /\ \/ /\ request'[r].todo = request[r].todo \ {"decision"}
              /\ request'[r].eligible => request[r].eligible /\ Decided(e)
           \/ /\ request'[r].todo = request[r].todo \ {"holds"}
              /\ request'[r].eligible => request[r].eligible /\ Unheld(e)
    BY <1>0, <1>7, <2>1 DEF ReadDecision, CountHolds, Clear
  <2>3. UNCHANGED <<account, profile, decision, entry, hold, disturbed>>
    BY <1>7 DEF ReadDecision, CountHolds
  <2>4. ClearanceIsCurrent(r)'
    <3>1. UNCHANGED <<entry, decision, hold>> /\ request'[r].entry = e
      BY <2>2, <2>3
    <3>2. Decided(request[r].entry)' <=> Decided(e)
      BY <3>1 DEF Decided
    <3>3. Unheld(request[r].entry)' <=> Unheld(e)
      BY <3>1 DEF Unheld, ActiveHolds
    <3> QED  BY <1>7, <2>1, <2>2, <3>2, <3>3 DEF ReadDecision, CountHolds, ClearanceIsCurrent, At
  <2>5. ReviewIsCurrent(r)'
    BY <2>2 DEF ReviewIsCurrent, At
  <2> QED  BY <1>0, <1>7, <2>3, <2>4, <2>5, ReadKeeps DEF ReadDecision, CountHolds
<1>8. CASE RecordClearance(r)
  <2> DEFINE e == request[r].entry
  <2>1. request[r] \in Clear /\ ClearanceIsCurrent(r) /\ e \in Entries
    BY <1>8, KindOfCall DEF RecordClearance, CurrentInv, Clear
  <2>2. \A f \in Entries : ActiveHolds(f)' = ActiveHolds(f)
    BY <1>8 DEF RecordClearance, ActiveHolds
  <2>3. /\ \A f \in Entries \ {e} : entry'[f] = entry[f] /\ (f \in disturbed' <=> f \in disturbed)
        /\ e \notin disturbed' => request[r].alone
        /\ entry'[e].status = "ELIGIBLE" => request[r].eligible
    BY <1>8, <2>1 DEF RecordClearance, Cleared, TypeOK, Entry
  <2>4. request[r].alone /\ request[r].eligible => ActiveHolds(e) = {}
    BY <1>8, <2>1 DEF RecordClearance, ClearanceIsCurrent, Unheld
  <2>5. EligibleIsNotHeld'
    BY <2>2, <2>3, <2>4 DEF CurrentInv, EligibleIsNotHeld
  <2> QED  BY <1>8, <2>5, CommitForgets DEF RecordClearance, CurrentInv
<1>9. ASSUME NEW h \in Holds, ReadHold(r, h)
      PROVE  CurrentInv'
  <2>1. request'[r].call = "release"
    BY <1>0, <1>9 DEF ReadHold, Start
  <2>2. ReviewIsCurrent(r)' /\ ClearanceIsCurrent(r)'
    BY <2>1 DEF ReviewIsCurrent, ClearanceIsCurrent, At
  <2> QED  BY <1>0, <1>9, <2>2, ReadKeeps DEF ReadHold, Start
<1>10. CASE ReleaseHold(r)
  <2> DEFINE h == request[r].hold
  <2>1. h \in Holds
    BY <1>10, KindOfCall DEF ReleaseHold, Release
  <2>2. \A g \in Holds : hold'[g].state = "ACTIVE" => hold'[g] = hold[g]
    BY <1>10, <2>1 DEF ReleaseHold, TypeOK, Hold
  <2>3. \A f \in Entries : ActiveHolds(f)' \subseteq ActiveHolds(f)
    BY <2>2 DEF ActiveHolds
  <2>4. \A f \in Entries : entry'[f].status = "ELIGIBLE" => entry[f].status = "ELIGIBLE"
    BY <1>10 DEF ReleaseHold, Released, TypeOK, Entry
  <2>5. EligibleIsNotHeld'
    BY <1>10, <2>3, <2>4 DEF ReleaseHold, CurrentInv, EligibleIsNotHeld
  <2> QED  BY <1>10, <2>5, CommitForgets DEF ReleaseHold, CurrentInv
<1> QED  BY <1>1, <1>2, <1>3, <1>4, <1>5, <1>6, <1>7, <1>8, <1>9, <1>10 DEF RequestStep

\* Every other transaction preserves CurrentInv: what it overtakes is recorded,
\* and a hold takes its entry out of the eligible ones.
LEMMA WrittenCurrent ==
  ASSUME TypeInv, CurrentInv, Written
  PROVE  CurrentInv'
<1> USE DEF TypeInv
<1>1. Commit /\ disturbed' = disturbed
  BY DEF Written, PaymentProblem, PaymentResolved, TransferToHouse, SetProfile, Intake, ApplyHold
<1>2. entry' = entry /\ hold' = hold => EligibleIsNotHeld'
  BY <1>1 DEF CurrentInv, EligibleIsNotHeld, ActiveHolds
<1>3. ASSUME NEW e \in Entries, NEW given \in Owners, Intake(e, given)
      PROVE  EligibleIsNotHeld'
  <2>1. hold' = hold
        /\ \A f \in Entries : entry'[f].status = "ELIGIBLE" => entry[f].status = "ELIGIBLE"
    BY <1>3 DEF Intake, TypeOK, Entry
  <2> QED  BY <1>1, <2>1 DEF CurrentInv, EligibleIsNotHeld, ActiveHolds
<1>4. ASSUME NEW h \in Holds, NEW e \in Entries, ApplyHold(h, e)
      PROVE  EligibleIsNotHeld'
  <2>1. /\ entry'[e].status = "ON_HOLD"
        /\ \A f \in Entries \ {e} : entry'[f] = entry[f]
    BY <1>4 DEF ApplyHold, TypeOK, Entry
  <2>2. \A f \in Entries \ {e} : ActiveHolds(f)' \subseteq ActiveHolds(f)
    <3>1. /\ hold'[h] = [state |-> "ACTIVE", entry |-> e]
          /\ \A g \in Holds \ {h} : hold'[g] = hold[g]
      BY <1>4 DEF ApplyHold, TypeOK
    <3>2. hold'[h].entry = e
      BY <3>1
    <3> QED  BY <3>1, <3>2 DEF ActiveHolds
  <2> QED  BY <1>1, <2>1, <2>2 DEF CurrentInv, EligibleIsNotHeld
<1>5. (entry' = entry /\ hold' = hold) \/ EligibleIsNotHeld'
  BY <1>3, <1>4 DEF Written, PaymentProblem, PaymentResolved, TransferToHouse, SetProfile
<1>6. EligibleIsNotHeld'
  BY <1>2, <1>5
<1> QED  BY <1>1, <1>6, CommitForgets DEF CurrentInv

LEMMA CurrentInvariant == Spec => []CurrentInv
<1>1. Init => CurrentInv
  <2> SUFFICES ASSUME Init PROVE CurrentInv
    OBVIOUS
  <2>1. \A r \in Requests : request[r].call = "none"
    BY DEF Init, Idle
  <2>2. EligibleIsNotHeld
    BY DEF Init, EligibleIsNotHeld
  <2> QED  BY <2>1, <2>2 DEF CurrentInv, ReviewIsCurrent, ClearanceIsCurrent, At
<1>2. TypeInv /\ CurrentInv /\ [Next]_vars => CurrentInv'
  <2>1. CurrentInv /\ UNCHANGED vars => CurrentInv'
    BY DEF CurrentInv, ReviewIsCurrent, ClearanceIsCurrent, At, Decided, Unheld, ActiveHolds,
           EligibleIsNotHeld, vars
  <2> QED  BY <2>1, RequestStepCurrent, WrittenCurrent, StepsOfLedger
<1> QED  BY <1>1, <1>2, LedgerInvariant, PTL DEF Spec

\* An eligible entry has no active hold, for any number of entries, holds and
\* overlapping requests, unless another transaction overtook the clearance that
\* made it eligible.
THEOREM HeldIsNotEligible == Spec => []EligibleIsNotHeld
BY CurrentInvariant, PTL DEF CurrentInv

\* An entry becomes eligible only by its clearance, and by one that nothing
\* overtook only while the current decision is that its agent is eligible.
THEOREM ClearancesAreDecided == Spec => EligibleWasDecided
<1> DEFINE Becomes(e) == entry[e].status # "ELIGIBLE" /\ entry'[e].status = "ELIGIBLE"
           Was(e) == \E r \in Requests :
             /\ At(r, "clear") /\ request[r].entry = e
             /\ request[r].alone => decision[<<entry[e].account, entry[e].earning>>] = "ELIGIBLE"
<1>1. TypeInv /\ CurrentInv /\ [Next]_vars => \A e \in Entries : Becomes(e) => Was(e)
  <2> SUFFICES ASSUME TypeInv, CurrentInv, [Next]_vars, NEW e \in Entries, Becomes(e)
               PROVE  Was(e)
    OBVIOUS
  <2>1. entry' # entry
    OBVIOUS
  <2>2. ~Written
    <3>1. \A f \in Entries, given \in Owners : ~Intake(f, given)
      BY DEF Intake, TypeInv, TypeOK, Entry
    <3>2. \A h \in Holds, f \in Entries : ~ApplyHold(h, f)
      BY DEF ApplyHold, TypeInv, TypeOK, Entry
    <3> QED  BY <2>1, <3>1, <3>2
         DEF Written, PaymentProblem, PaymentResolved, TransferToHouse, SetProfile
  <2>3. \A r \in Requests : ~ReleaseHold(r)
    BY DEF ReleaseHold, Released, TypeInv, TypeOK, Entry
  <2>4. PICK r \in Requests : RecordClearance(r)
    BY <2>1, <2>2, <2>3, StepsOfLedger
       DEF vars, RequestStep, Abandon, StartReview, ReadAccount, ReadProfile, RecordDecision,
           StartClear, ReadDecision, CountHolds, ReadHold
  <2>5. request[r].entry = e /\ request[r].eligible
    BY <2>4, KindOfCall DEF RecordClearance, Cleared, Clear, TypeInv, TypeOK, Entry
  <2>6. ClearanceIsCurrent(r)
    BY DEF CurrentInv
  <2> QED  BY <2>4, <2>5, <2>6 DEF RecordClearance, ClearanceIsCurrent, Decided
<1> QED  BY <1>1, LedgerInvariant, CurrentInvariant, PTL DEF Spec, EligibleWasDecided

\* A review that nothing overtook leaves the decision that the policy states for
\* the account and the profile as they are.
THEOREM DecisionsFollowPolicy == Spec => DecisionFollowsPolicy
<1> DEFINE Stated(p) ==
             /\ account[p[1]].current
             /\ \/ profile[p[2]] = "RETIRED"
                \/ profile[p[2]] = "ACTIVE" /\ account[p[1]].owner = p[2] /\ ~account[p[1]].house
           Was(p) == \E r \in Requests :
             /\ At(r, "review") /\ request[r].pair = p
             /\ request[r].alone => (decision'[p] = "ELIGIBLE" <=> Stated(p))
<1>1. TypeInv /\ CurrentInv /\ [Next]_vars => \A p \in Pairs : decision'[p] # decision[p] => Was(p)
  <2> SUFFICES ASSUME TypeInv, CurrentInv, [Next]_vars, NEW p \in Pairs, decision'[p] # decision[p]
               PROVE  Was(p)
    OBVIOUS
  <2>1. decision' # decision
    OBVIOUS
  <2>2. ~Written
    BY <2>1 DEF Written, PaymentProblem, PaymentResolved, TransferToHouse, SetProfile, Intake,
                ApplyHold
  <2>3. PICK r \in Requests : RecordDecision(r)
    BY <2>1, <2>2, StepsOfLedger
       DEF vars, RequestStep, Abandon, StartReview, ReadAccount, ReadProfile, StartClear,
           ReadDecision, CountHolds, RecordClearance, ReadHold, ReleaseHold
  <2>4. /\ request[r] \in Review /\ request[r].pair = p /\ request[r].todo = {}
        /\ decision'[p] = Reviewed(request[r].profile, request[r].read, p[2])
    BY <2>3, KindOfCall DEF RecordDecision, Review, TypeInv, TypeOK
  <2>5. ASSUME request[r].alone
        PROVE  decision'[p] = "ELIGIBLE" <=> Stated(p)
    <3>1. request[r].read = account[p[1]] /\ request[r].profile = profile[p[2]]
      BY <2>3, <2>4, <2>5 DEF CurrentInv, ReviewIsCurrent, RecordDecision
    <3>2. account[p[1]] \in Account /\ profile[p[2]] \in ProfileStates /\ p[2] \in Agents
      BY DEF TypeInv, TypeOK, Pairs
    <3> DEFINE row == account[p[1]]
    <3>3. /\ ServiceState(row) \in ServiceStates
          /\ ServiceState(row) = "ACTIVE" <=> ~row.house /\ row.owner # NoAgent
          /\ row.current \in BOOLEAN
      BY <3>2 DEF ServiceState, ServiceStates, Account
    <3>4. decision'[p] = CommissionEligibility(profile[p[2]], ServiceState(row),
                           row.owner # NoAgent, row.owner = p[2], row.current)
      BY <2>4, <3>1 DEF Reviewed
    <3>5. decision'[p] = "ELIGIBLE" <=>
            /\ row.current
            /\ \/ profile[p[2]] = "RETIRED"
               \/ /\ profile[p[2]] = "ACTIVE" /\ ServiceState(row) = "ACTIVE"
                  /\ row.owner # NoAgent /\ row.owner = p[2]
      <4> DEFINE has == row.owner # NoAgent
                 is == row.owner = p[2]
      <4>1. has \in BOOLEAN /\ is \in BOOLEAN
        OBVIOUS
      <4>2. decision'[p] = CommissionEligibility(profile[p[2]], ServiceState(row), has, is, row.current)
        BY <3>4
      <4> HIDE DEF has, is, row
      <4>3. decision'[p] = "ELIGIBLE" <=>
              /\ row.current
              /\ \/ profile[p[2]] = "RETIRED"
                 \/ profile[p[2]] = "ACTIVE" /\ ServiceState(row) = "ACTIVE" /\ has /\ is
        BY <3>2, <3>3, <4>1, <4>2, EligibleOnlyWhileCurrent
      <4> QED  BY <4>3 DEF has, is
    <3> QED  BY <3>2, <3>3, <3>5, LedgerConstants
  <2> QED  BY <2>3, <2>4, <2>5 DEF RecordDecision
<1> QED  BY <1>1, LedgerInvariant, CurrentInvariant, PTL DEF Spec, DecisionFollowsPolicy
=============================================================================
