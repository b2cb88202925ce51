SPECIFICATION Spec
CONSTANTS
  Leads = {l1}
  Agents = {a1, a2}
  NoAgent = NoAgent
  Referrals = {}
  Requests = {r1, r2}
  Handlers = {"claim", "warmReply", "coldDisposition", "reply", "interaction", "agentDnc", "appointment", "sweep"}
  Capacity = 1
  SweepLimit = 1
SYMMETRY Symmetry
INVARIANT TypeOK
PROPERTIES OwnershipNeverStolen AcquiredOnlyAfterContact BlackoutAtRest
