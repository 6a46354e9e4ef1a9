\* Does a session without a socket always expire?
SPECIFICATION LiveSpec
CONSTANTS
  s1 = s1
  s2 = s2
  s3 = s3
  a1 = a1
  a2 = a2
  m1 = m1
  m2 = m2
  Session <- TwoSessions
  Account <- TwoAccounts
  AccountOf <- OwnAccounts
  NoSession = NoSession
  MessageId = {}
  NoId = NoId
  HistoryLimit = 1
  MaxTabs = 1
  OnePerAccount = TRUE
PROPERTIES
  WindowDecides
