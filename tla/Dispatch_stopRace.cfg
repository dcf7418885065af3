\* 
SPECIFICATION TimedSpec
CONSTANTS
  a = a
  b = b
  w1 = w1
  w2 = w2
  au1 = au1
  au2 = au2
  au3 = au3
  as1 = as1
  ah1 = ah1
  aa1 = aa1
  bu1 = bu1
  bu2 = bu2
  None = None
  Wake = Wake
  Chats = {a}
  Msgs = {au1, as1, au2}
  Workers = {w1}
  ChatOf <- MCChatOf
  KindOf <- MCKindOf
  MaxQueue = 2
  MaxActive = 1
  InqCap = 4
  ChanCap = 1
  MaxPending = 1
  MaxConcurrency = 1
  Env = {"slow"}
PROPERTIES
  BufferedIsSettled
CHECK_DEADLOCK FALSE
