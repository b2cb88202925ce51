SPECIFICATION Spec
CONSTANTS
  Accounts = {a1}
  Agents = {g1}
  NoAgent = NoAgent
  Cases = {k1, k2}
  NoCase = NoCase
  Triggers = {"PAYMENT_PROBLEM", "ESCALATION"}
  Requests = {r1, r2}
SYMMETRY Symmetry
INVARIANTS TypeOK CheckInsAreSingle PaymentStandingShows AttentionHasReason
PROPERTIES ResolvedStaysResolved
