\* A user with two requests at a time, a stranger with one, and requests of
\* two administrators.  The system stops when the sessions are gone, so
\* deadlock is no error.
SPECIFICATION Spec
CHECK_DEADLOCK FALSE
SYMMETRY AlikeRequests
CONSTANTS
  s1 = s1
  s2 = s2
  s3 = s3
  a1 = a1
  a2 = a2
  r1 = r1
  r2 = r2
  r3 = r3
  Session <- TwoSessions
  AccountOf <- TwoOwners
  Request <- ThreeRequests
  UserOf <- ThreeUsers
  Account = {a1, a2}
  NoSession = NoSession
  NoAccount = NoAccount
  NoAdmin = NoAdmin
  Admin = {d1, d2}
  Verdict = {v1, v2}
  MaxReports = 1
  MayFail = TRUE
INVARIANTS
  OnlyActiveChat
  TypeOK
  ReportsPartners
  ReviewAudited
  RestrictionAudited
  RevokedForGood
PROPERTIES
  StaysOut
  KeepsPairing
