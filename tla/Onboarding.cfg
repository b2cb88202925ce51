SPECIFICATION Spec
CONSTANTS
  Agents = {a1}
  Privileged = {}
  Documents = {agreement}
  Agreement = agreement
  Gates = {w9}
  Declines = {"reject"}
  Assignable = {"ACTIVE", "DISABLED"}
  Requests = {r1, r2}
  Tokens = {t1, t2, t3}
SYMMETRY Symmetry
INVARIANTS TypeOK SignInIsEarned LinksWorkOnce OverlapBoundsIssues LiveLinksBounded
