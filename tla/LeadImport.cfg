SPECIFICATION Spec
CONSTANTS
  Manifests = {m1}
  NoManifest = NoManifest
  Rows = {1, 2}
  Companies = {c1, c2}
  NoCompany = NoCompany
  Sources = {s1}
  NoSource = NoSource
  Requests = {r1, r2}
  MaxCrashes = 1
  MaxSuppressed = 1
SYMMETRY Symmetry
INVARIANTS TypeOK LeadsComeFromValidRows AcceptedIsStored SerialBatchIsSettled SubmittedIsRunning
CHECK_DEADLOCK FALSE
