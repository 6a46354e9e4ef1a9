SPECIFICATION LiveSpec
CHECK_DEADLOCK FALSE
CONSTANTS
  t1 = t1
  t2 = t2
  Tab = {t1, t2}
  FirstTabs = {t1}
  MaxSessions = 2
  MaxEvents = 6
INVARIANTS
  TypeOK
  LateAnswersIgnored
PROPERTIES
  GetsSession
