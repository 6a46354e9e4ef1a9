\* Two sessions with two tabs each, under fairness; messages with and
\* without an id.
SPECIFICATION LiveSpec
CONSTANTS
  s1 = s1
  s2 = s2
  s3 = s3
  a1 = a1
  a2 = a2
  m1 = m1
  m2 = m2
  Session <- TwoSessions
  Account <- TwoAccounts
  AccountOf <- OwnAccounts
  NoSession = NoSession
  MessageId = {m1}
  NoId = NoId
  HistoryLimit = 3
  MaxTabs = 2
  OnePerAccount = TRUE
INVARIANTS
  TranscriptPrivate
  TranscriptsMirror
  DeliveredOnce
  Inv
PROPERTIES
  LockReleased
  AbandonedMatchEnds
