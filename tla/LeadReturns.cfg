SPECIFICATION Spec
CONSTANTS
  Leads = {l1, l2}
  Agents = {a1}
  NoAgent = NoAgent
  Referrals = {l2}
  Requests = {r1}
  Handlers = {"claim", "warmReply", "reply", "review", "openPoolRelease", "sweep"}
  Capacity = 1
  SweepLimit = 1
INVARIANTS OpenPoolIsEarned ReferralsStayProtected
PROPERTY CapacityRespected
