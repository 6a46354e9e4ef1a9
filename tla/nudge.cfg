\* Two sessions of two accounts, one tab each, and no blank messages, which
\* end a match by themselves.
SPECIFICATION ESpec
CHECK_DEADLOCK FALSE
CONSTANTS
  s1 = s1
  s2 = s2
  a1 = a1
  a2 = a2
  t1 = t1
  t2 = t2
  Session <- TwoSessions
  Account = {a1, a2}
  AccountOf <- Owners
  Tab <- TwoTabs
  SessionOf <- OneTabEach
  BlankSent = FALSE
  NoSession = NoSession
  MessageId = {}
  NoId = NoId
  HistoryLimit = 1
  MaxTabs = 2
  OnePerAccount = TRUE
PROPERTY
  QueueEntryStands
