SPECIFICATION FairSpec
CONSTANTS
  Leads = {l1, l2}
  Agents = {a1}
  NoAgent = NoAgent
  Referrals = {}
  Requests = {r1}
  Handlers = {"warmReply", "reply", "sweep"}
  Capacity = 1
  SweepLimit = 2
PROPERTY SweepCatchesUp
