SPECIFICATION Spec
CONSTANTS
  Accounts = {a1}
  Agents = {g1}
  NoAgent = NoAgent
  Entries = {e1}
  NoEntry = NoEntry
  Holds = {h1, h2}
  Profiles = {"ACTIVE", "RETIRED"}
  Requests = {r1, r2}
SYMMETRY Symmetry
INVARIANTS TypeOK EligibleIsNotHeld
PROPERTIES EligibleWasDecided DecisionFollowsPolicy
