\* One chat under every event of the environment, or two requests and a heartbeat of it in quiet.
SPECIFICATION EitherSpec
CONSTANTS
  a = a
  b = b
  w1 = w1
  w2 = w2
  au1 = au1
  au2 = au2
  au3 = au3
  as1 = as1
  ah1 = ah1
  aa1 = aa1
  bu1 = bu1
  bu2 = bu2
  None = None
  Wake = Wake
  Chats = {a}
  Msgs = {au1, as1, aa1}
  Workers = {w1, w2}
  ChatOf <- MCChatOf
  KindOf <- MCKindOf
  MaxQueue = 1
  MaxActive = 1
  InqCap = 2
  ChanCap = 1
  MaxPending = 1
  MaxConcurrency = 2
  t1 = t1
  t2 = t2
  t3 = t3
  t4 = t4
  MaxRetries = 2
  Env = {"reap", "remote", "offline", "panic", "error", "reply", "cancel"}
SYMMETRY WorkerSymmetry
INVARIANTS
  TypeOK
  PermitsConserved
  ActiveWithinLimit
  MessageConserved
  RunningIsBusy
  QuietChat
PROPERTIES
  ReapLosesNothing
  LifeImplemented
CHECK_DEADLOCK FALSE
