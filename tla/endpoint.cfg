\* Two sessions of two accounts, one tab each: all handlers, clients and
\* the expiry loop interleaved.  The system stops when both sessions are
\* gone, so deadlock is no error.
SPECIFICATION ESpec
CHECK_DEADLOCK FALSE
CONSTANTS
  s1 = s1
  s2 = s2
  a1 = a1
  a2 = a2
  t1 = t1
  t2 = t2
  Session <- TwoSessions
  Account = {a1, a2}
  AccountOf <- Owners
  Tab <- TwoTabs
  SessionOf <- OneTabEach
  BlankSent = TRUE
  NoSession = NoSession
  MessageId = {}
  NoId = NoId
  HistoryLimit = 1
  MaxTabs = 2
  OnePerAccount = TRUE
INVARIANTS
  EInv
  HubCounts
  DropHasHandler
PROPERTY
  UsesRuntime
