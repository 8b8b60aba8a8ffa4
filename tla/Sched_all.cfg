SPECIFICATION Spec
CONSTANTS
  n1 = n1  n2 = n2
  a1 = a1  a2 = a2
  s1 = s1
  r1 = r1  r2 = r2
  l1 = l1  l2 = l2
  Connections = {n1, n2}
  AwsAccounts = {a1, a2}
  Requests = {r1, r2}
  Schedules = {s1}
  Plan <- Early
  Loops = {l1, l2}
  Instants = {0, 27}
  Snapshots = {i1, i2}
  i1 = i1  i2 = i2
  Environment = {"failure", "crash", "breaker", "refused"}
  None = None
SYMMETRY Interchangeable
INVARIANT SchedTypeOK
INVARIANT AccountsAreVerified
INVARIANT OccurrencesAreClaimedOnce
PROPERTY IdentityStands
PROPERTY SchedulesKeepTime
PROPERTY RefinesCalendar
