CONSTANTS
  a1 = a1
  a2 = a2
  a3 = a3
  e1 = e1
  e2 = e2
  Accounts = {a1, a2, a3}
  Addresses = {e1, e2}
  Address <- SharedAddress
  MaxStates = 1
  MaxCodes = 2
  MaxUsers = 2
  MaxSessions = 2
  Calls = {h1, h2}
  MaxCalls = 3
  StateTTL = 1
  AccessTTL = 1
  RefreshTTL = 1
  MaxTime = 2
SPECIFICATION FairSpec
CHECK_DEADLOCK FALSE
INVARIANTS
  TypeOK
  SameUserAtEveryLogin
  SessionOfOwner
  LogoutIsFinal
  AccessEnds
  LateCallbackRefused
PROPERTIES
  AbandonedStatesFreed
  ImplementsLogin
