\* Two messages of one chat and one of another; two callers of the breaker.
SPECIFICATION TurnSpec
CONSTANTS
  m1 = m1
  m2 = m2
  m3 = m3
  c1 = c1
  c2 = c2
  None = None
  Msgs = {m1, m2, m3}
  Chats = {c1, c2}
  ChatOf <- TwoChats
  MaxRounds = 2
  MaxTools = 2
  Limit = 2
  V2 = TRUE
  Scenes <- AllScenes
  Callers = {k1, k2}
  FailureThreshold = 2
  BaseTimeout = 1
  MaxRecoveryTimeout = 2
  NeverOpened = NeverOpened
CHECK_DEADLOCK FALSE
INVARIANTS
  TurnTypeOK
  PastIntact
  StopTakesHold
  SpendBounded
  ShownOnce
  TripNotLost
PROPERTIES
  TurnsEnd
  BreakerRecovers
