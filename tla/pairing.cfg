\* Three sessions, two of one account, before the unique index.
SPECIFICATION Spec
CONSTANTS
  s1 = s1
  s2 = s2
  s3 = s3
  a1 = a1
  a2 = a2
  m1 = m1
  m2 = m2
  Session <- ThreeSessions
  Account <- TwoAccounts
  AccountOf <- SharedOwner
  NoSession = NoSession
  MessageId = {}
  NoId = NoId
  HistoryLimit = 1
  MaxTabs = 1
  OnePerAccount = FALSE
INVARIANTS
  TypeOK
  PartnersMutual
  DurableMatchesAgree
  NoLostSearcher
  WaitsOnce
  NobodyOverlooked
  PresenceExact
  AbandonedMatchHasClock
  OnlyActiveMatched
PROPERTIES
  KeepsOrder
  Refines
