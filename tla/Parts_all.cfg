\* One behaviour of one component at a time.
SPECIFICATION PartsSpec
CONSTANTS
  MaxTries = 3
  Keys = {k1, k2}
  Users = {u1}
  MaxStores = 2
  Threshold = 2
  Planners = {p1, p2, p3}
  MaxAgents = 2
  MaxParts = 2
  SubTasks = {s1, s2, s3}
  SessionKeys = {k1, k2, k3}
  Requests = {r1, r2}
  MaxSessions = 1
  NoKey = NoKey
  BatchSize = 3
  Files = {f1, f2}
  MaxConcurrent = 2
  MaxHistory = 5
  MaxRecent = 2
  Window = 1
  MaxBudget = 8
  Candidates = 3
  MaxLambda = 14
  MinEntry = 1
  Header = 7
  Footer = 7
  ServerNames = {n1, n2}
  McpUsers = {u1}
  Checkers = {h1, h2}
  MaxServers = 1
  MaxRestarts = 2
  MaxConns = 2
  TokenUsers = {u1, u2}
  MaxTokens = 4
  NoUser = NoUser
  VaultWriters = {w1, w2}
  Secrets = {x1, x2}
  MaxChanges = 3
  MaxCalls = 2
  PoolWorkers = {w1, w2, w3}
  PoolSize = 2
  Tasks = {t1}
  Scanners = {s1}
  MaxRounds = 2
  MaxChars = 6
  LongToken = 2
  Orders = {o1, o2}
  PlainOrders = {o2}
  TaskIds = {q1, q2, q3}
  HeavyTask = q1
  MaxAttempts = 2
  MinSpeedup = 13
  m1 = m1
  m2 = m2
  m3 = m3
  m4 = m4
  ca = ca
  cb = cb
  Chats = {ca, cb}
  Msgs = {m1, m2, m3, m4}
  ChatOf <- ChatOfMsg
  MaxQueue = 3
  MaxActive = 1
  NoMsg = NoMsg
  na = na
  f1 = f1
  BrowserCalls = {b1, b2}
  MaxLaunches = 3
  NoCall = NoCall
  Managers = {g1, g2}
  Names = {na, nb}
  ReplicaOf <- NamesUnder
  MaxInstances = 1
  MaxContainers = 3
  QuotaCalls = {q1, q2, q3}
  DailyLimit = 2
  MaxDays = 2
  MaxPerDay = 4
  ToolIds = {i1, i2}
  MaxMessages = 4
  MaxLen = 3
  MaxText = 7
  MaxPosts = 4
  PageSize = 2
  MaxStarts = 2
  Senders = {u1, u2}
  Handlers = {h1, h2}
  Configured <- NoneConfigured
  Bootstrap = TRUE
  MaxCommands = 3
  Nobody = Nobody
  FunctionCalls = {c1, c2}
  ArgParts = 2
  StreamFaults = {"blank", "cut", "silent"}
  MdFiles = {f1, f2}
  MdEntries = {e1, e2}
  MdCalls = {k1, k2}
  FileOf <- FirstFile
  NoFile = NoFile
  Providers = {pa, pb}
  TuiCap = 1
  MaxTyped = 3
  NoProvider = NoProvider
  Pids = {d1, d2}
  Shells = {sh1, sh2}
  NoPid = NoPid
  u1 = u1
  u2 = u2
  Accounts <- UserAccounts
  IdCalls = {k1, k2}
  MaxFlows = 2
  MaxIssued = 3
  NoAccount = NoAccount
  HbCap = 2
  MaxTicks = 4
  MaxOthers = 1
  PipeRoom = 2
  InputBlocks = 3
  MaxOutput = 3
  OutChunk = 2
  MaxWritten = 4
  KeyCount = 3
  KeyCalls = {k1, k2}
  MaxRefusals = 2
  WireCalls = 3
  WireParts = 2
  WireTexts = 2
  CredChats = {ca, cb}
  WizardProc = wz
  Vendors = {pa, pb}
  FirstVendor = pa
  NoVendor = NoVendor
  MaxKeys = 2
  MaxCommandsRun = 2
  MaxBoots = 2
INVARIANTS
  PartsTypeOK
  RemoteRunsOnce
  StoresSound
  PlansSound
  ChannelsSound
  BatchInOrder
  
  McpSound
  TokensSound
  VaultDurable
  PoolSound
  RecoverySound
  TextsWhole
  BrowserSound
  ProcessesSound
  LimitsSound
PROPERTIES
  DelegationAllocates
  WaitShrinks
CHECK_DEADLOCK FALSE
