SPECIFICATION Spec
CONSTANTS
  Leads = {l1}
  Agents = {a1}
  NoAgent = NoAgent
  Referrals = {}
  Requests = {r1}
  Handlers = {"agentDnc", "portalCallback", "portalDisposition"}
  Capacity = 1
  SweepLimit = 1
CHECK_DEADLOCK FALSE
PROPERTY DncIsBlackout
