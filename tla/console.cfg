\* Two reports about one account, which is restricted for the first of them when
\* the console opens; two clicks, three functions under way.  The console stops
\* when the clicks are used up, so deadlock is no error.
SPECIFICATION Spec
CHECK_DEADLOCK FALSE
CONSTANTS
  a1 = a1
  spam = spam
  v1 = v1
  Report = {1, 2}
  Account = {a1}
  ReportedOf <- ReportedTwo
  Reason = {spam}
  ReasonOf <- ReasonTwo
  Verdict = {v1}
  NoAccount = NoAccount
  FirstStatus <- AllOpen
  FirstRestriction <- RestrictedForFirst
  MaxTasks = 3
  MaxClicks = 2
INVARIANTS
  TypeOK
  FlagsOwned
  NoBlankDetail
