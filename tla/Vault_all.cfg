SPECIFICATION ControlSpec
CONSTANTS
  c1 = c1  c2 = c2
  k1 = k1  k2 = k2
  e1 = e1  m1 = m1
  i1 = i1  i2 = i2
  h1 = h1  h2 = h2
  Clients = {c1, c2}
  Custodians = {c1, c2}
  Collectors = {c2}
  Contents = {k1}
  Metas = {m1}
  Executions = {e1}
  VerdictOf <- OneVerdict
  EvidenceIds = {i1, i2}
  HoldIds = {h1}
  MaxTime = 1
  MaxVersions = 1
  Environment = {"corrupt", "dbError", "crash", "memory", "failure"}
  None = None
CHECK_DEADLOCK FALSE
SYMMETRY Interchangeable
INVARIANT ControlTypeOK
INVARIANT VerdictsAreEvidenced
INVARIANT OutcomesHaveResults
PROPERTY ObjectsOutliveRetention
PROPERTY LostEvidenceIsKept
PROPERTY RefinesRetention
