--------------------------- MODULE CommissionPolicy ---------------------------
(***************************************************************************)
(* The rules of commissions and payouts, as functions of what they look    *)
(* at: who is eligible, what an entry of the ledger may become, what must  *)
(* hold before a payout, and how collected money is split.  Amounts are    *)
(* whole cents.  A rule that answers with a reason is its reason.          *)
(***************************************************************************)
LOCAL INSTANCE Integers

ProfileStates == {"ACTIVE", "RETIRED", "TERMINATED", "ON_HOLD", "MISSING"}

ServiceStates == {"ACTIVE", "HOUSE", "UNASSIGNED"}

EligibilityStates == {"PENDING", "ELIGIBLE", "ON_HOLD", "INELIGIBLE"}

LedgerStates == {"PENDING_VERIFICATION", "ON_HOLD", "ELIGIBLE"}

\* Mutant: a retired agent's eligibility does not look at the payments.
EligibilityOfRetired(profile, serviceState, hasOwner, isOwner, current) ==
  IF profile = "RETIRED" \/ (profile = "ACTIVE" /\ current /\ serviceState = "ACTIVE" /\ isOwner)
  THEN "ELIGIBLE" ELSE "ON_HOLD"

\* evaluateCommissionEligibility: the order of the conditions is the rule.
CommissionEligibility(profile, serviceState, hasOwner, isOwner, current) ==
  CASE profile = "MISSING"            -> "PENDING"
    [] profile = "TERMINATED"         -> "INELIGIBLE"
    [] profile = "ON_HOLD"            -> "ON_HOLD"
    [] profile \in {"ACTIVE", "RETIRED"} /\ ~current -> "ON_HOLD"
    [] profile = "RETIRED" /\ current -> "ELIGIBLE"
    [] OTHER                          ->
         IF serviceState = "ACTIVE" /\ hasOwner /\ isOwner THEN "ELIGIBLE" ELSE "INELIGIBLE"

\* evaluateCommissionLedgerReadiness
LedgerReadiness(cleared, eligibility, held) ==
  CASE ~cleared                                         -> "PENDING_VERIFICATION"
    [] cleared /\ held                                  -> "ON_HOLD"
    [] cleared /\ ~held /\ eligibility = "ELIGIBLE"     -> "ELIGIBLE"
    [] cleared /\ ~held /\ eligibility = "PENDING"      -> "PENDING_VERIFICATION"
    [] OTHER                                            -> "ON_HOLD"

\* The first condition of a list, in its order, that does not hold
Blocker(conditions, answer) ==
  IF \A i \in DOMAIN conditions : conditions[i].ok
  THEN answer
  ELSE conditions[CHOOSE i \in DOMAIN conditions :
                    ~conditions[i].ok /\ \A j \in 1..(i - 1) : conditions[j].ok].reason

Unless(reason, ok) == [reason |-> reason, ok |-> ok]

\* evaluateFinanceReadiness
FinanceReadiness(enabled, eligible, cleared, held, approved, verified) ==
  Blocker(<<Unless("FINANCE_DISABLED", enabled), Unless("COMMISSION_NOT_ELIGIBLE", eligible),
            Unless("PAYMENT_NOT_CLEARED", cleared), Unless("ACTIVE_HOLD", ~held),
            Unless("FINANCE_APPROVAL_REQUIRED", approved),
            Unless("DESTINATION_NOT_VERIFIED", verified)>>,
          "READY_FOR_MANUAL_REVIEW")

\* evaluateStripeConnectReadiness
StripeReadiness(route, configured, connected, onboarded, enabled, finance, approval, execution) ==
  Blocker(<<Unless("MANUAL_EXTERNAL_ROUTE", route # "MANUAL_EXTERNAL"),
            Unless("STRIPE_CONFIGURATION_REQUIRED", configured),
            Unless("CONNECTED_ACCOUNT_REQUIRED", connected),
            Unless("CONNECT_ONBOARDING_INCOMPLETE", onboarded),
            Unless("STRIPE_PAYOUTS_DISABLED", enabled),
            Unless("FINANCE_REVIEW_REQUIRED", finance),
            Unless("MANUAL_APPROVAL_REQUIRED", approval),
            Unless("TRANSFER_EXECUTION_DISABLED", execution)>>,
          "READY_FOR_MANUAL_REVIEW")

\* payoutPermitted
PayoutPermitted(cents, approved, ready, complianceHold, risk) ==
  cents > 0 /\ approved /\ ready /\ ~complianceHold /\ ~risk

-----------------------------------------------------------------------------
(* Money *)

AtLeastZero(cents) == IF cents > 0 THEN cents ELSE 0

\* The net commissionable profit
Net(collected, tax, wholesale, processing) ==
  AtLeastZero(AtLeastZero(collected - tax) - wholesale - processing)

\* calculateFiftyFiftyCommission: below the minimum the company keeps it all.
FiftyFifty(collected, tax, wholesale, processing, minimum) ==
  LET net   == Net(collected, tax, wholesale, processing)
      agent == IF net >= minimum THEN net \div 2 ELSE 0
  IN  [net |-> net, agent |-> agent, company |-> net - agent]

\* packageSchedule, in the fields the split looks at
PackageSchedule ==
  [STANDARD_STARTER   |-> [wholesale |-> 100000, setupTarget |-> 100000],
   STANDARD_GROWTH    |-> [wholesale |-> 125000, setupTarget |-> 150000],
   STANDARD_PRO       |-> [wholesale |-> 150000, setupTarget |-> 300000],
   ENTERPRISE_STARTER |-> [wholesale |-> 250000, setupTarget |-> 500000],
   ENTERPRISE_GROWTH  |-> [wholesale |-> 350000, setupTarget |-> 500000],
   ENTERPRISE_PRO     |-> [wholesale |-> 500000, setupTarget |-> 500000]]

\* monthlyRevenueSplit is the split without a minimum, setupRevenueSplit that
\* with the package's target as the minimum.
MonthlySplit(code, collected, fee, tax) ==
  FiftyFifty(collected, tax, PackageSchedule[code].wholesale, fee, 0)

SetupSplit(code, collected, fee, tax) ==
  FiftyFifty(collected, tax, PackageSchedule[code].wholesale, fee,
             PackageSchedule[code].setupTarget)

\* reconcileCollection
Reconciled(expected, collected, refunded, disputed) ==
  LET variance == AtLeastZero(collected - refunded) - expected
  IN  CASE disputed > 0                   -> "DISPUTED"
        [] disputed = 0 /\ variance = 0   -> "MATCHED"
        [] disputed = 0 /\ variance < 0   -> "SHORTFALL"
        [] OTHER                          -> "OVERAGE"

\* payoutTiming: the days from clearance to the payout, or that it waits for
\* the launch
TreatedAsNew(first, setupFee, changed) == first \/ setupFee \/ changed

PayoutWaits(first, setupFee, changed, launched) ==
  TreatedAsNew(first, setupFee, changed) /\ ~launched

PayoutDays(first, setupFee, changed) == IF TreatedAsNew(first, setupFee, changed) THEN 30 ELSE 15
=============================================================================
