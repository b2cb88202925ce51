SPECIFICATION Spec
CONSTANTS
  Leads = {l1}
  Agents = {a1, a2}
  NoAgent = NoAgent
  Referrals = {}
  Requests = {r1}
  Handlers = {"claim", "warmReply", "coldDisposition", "interaction", "portalDisposition", "portalCallback", "portalRelease", "openPoolRelease", "agentDnc", "dncRoute", "closeWon", "reply", "opportunity", "appointment"}
  Capacity = 1
  SweepLimit = 1
INVARIANT OwnedIsNotAvailable
PROPERTIES RelaysKeepClosedWon MarksStick
