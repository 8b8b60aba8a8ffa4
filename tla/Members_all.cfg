SPECIFICATION Spec
CONSTANTS
  u1 = u1  u2 = u2
  v1 = v1  v2 = v2
  s1 = s1  s2 = s2
  r1 = r1  r2 = r2
  Users = {u1, u2}
  Invitations = {v1}
  Sessions = {s1, s2}
  Requests = {r1, r2}
  Environment = {"failure", "expiry"}
  None = None
SYMMETRY Interchangeable
INVARIANT TypeOK
INVARIANT OwnerRemains
INVARIANT SessionsFollowMembership
PROPERTY AdmissionUsesInvitation
