\* A user with two requests at a time and a second session, a stranger, and
\* one administrator; nothing fails.
SPECIFICATION Spec
CHECK_DEADLOCK FALSE
SYMMETRY AlikeUsers
CONSTANTS
  s1 = s1
  s2 = s2
  s3 = s3
  a1 = a1
  a2 = a2
  r1 = r1
  r2 = r2
  r3 = r3
  Session <- ThreeSessions
  AccountOf <- ThreeOwners
  Request <- ThreeRequests
  UserOf <- ThreeUsers
  Account = {a1, a2}
  NoSession = NoSession
  NoAccount = NoAccount
  NoAdmin = NoAdmin
  Admin = {d1}
  Verdict = {v1}
  MaxReports = 1
  MayFail = FALSE
INVARIANT
  RestrictedAreOut
