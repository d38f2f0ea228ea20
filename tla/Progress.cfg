SPECIFICATION FairPartsSpec
CONSTANTS
  Parts = {"dial", "serve", "flow", "log", "file", "signin", "ca", "settings", "saves", "tabs"}
  v4 = v4
  v6 = v6
  Families = {v4, v6}
  AddrLists <- MCAddrLists
  NoAddrs = NoAddrs
  Payers = {r1, r2}
  Scopes = {"rule", "listener"}
  Rates = {1}
  Unlimited = 0
  Costs = {1, 3}
  Burst = 2
  MaxClock = 2
  MaxCharges = 3
  MaxReloads = 1
  Borrowers = {b1, b2, b3}
  MaxIdle = 1
  RingCap = 2
  Ports = {"A", "B"}
  Addrs = {"x", "y"}
  Closed = Closed
  PortConfigs <- MCPortConfigs
  Elsewhere = {"y"}
  MaxStores = 3
  Served = {c1}
  ServeNames = {"A", "B"}
  ServeConfigs <- MCServeConfigs
  Passwords = {"p", "q"}
  RememberFor = 2
  RememberMax = 1
  HashSlots = 1
  MaxGens = 2
  MaxAuthClock = 0
  MaxRequests = 1
  Flows = {c1}
  Refused = {}
  OtherFlows = TRUE
  FlowQueue = 1
  FlowBatch = 1
  FlowHistory = 1
  SnapshotFlows = 1
  NoFlow = NoFlow
  Callers = {g1, g2}
  MaxPending = 2
  RingLines = 2
  MaxCalls = 2
  MaxSinks = 1
  FileSinks = {1}
  MaxSize = 1
  MaxKeep = 0
  CompressAfter = 0
  Absent = Absent
  MaxLines = 5
  MaxLogFaults = 2
  Tabs = {t1}
  Paths = {"open", "admin"}
  OidcGroups = {"g"}
  OidcConfigs <- MCOidcConfigs
  StateTokens = {1, 2}
  CookieRoom = 0
  SessionTTL = 1
  StateTTL = 1
  KeysMinAge = 1
  DiscoTTL = 2
  RetryAfter = 1
  NoCookie = NoCookie
  MaxOidcClock = 0
  MaxVisits = 1
  MaxRestarts = 1
  MaxRotations = 1
  MaxOidcReloads = 1
  Askers = {h1}
  Hosts = {n}
  NoneYet = NoneYet
  MaxCAKeys = 1
  MaxCARenewals = 1
  MaxLeaves = 1
  MaxOpens = 2
  MaxCACrashes = 1
  GoodTexts = {x1, x2}
  BrokenTexts = {y1}
  DefaultText = x1
  NoText = NoText
  MaxEdits = 2
  MaxSetFaults = 1
  Domains <- MCDomains
  Snis <- MCSnis
  Globs <- MCGlobs
  LabelChars <- MCChars
  Targets = {"t1", "t2", "t3"}
  TableListeners = {"A", "B", "$console"}
  Addresses = {"ip", "any"}
  AnyAddress = "any"
  TextPorts = {80, 443}
  GroupNames = {"g", "h"}
  ConsoleDomain <- MCConsoleDomain
  ConsoleBinds = {"any"}
  ConsolePort = 8443
  FirstTexts <- MCFirstTexts
  MaxTextEdits = 2
  MaxStopped = 1
  SavingPages = {"t1", "t2"}
  Watching = {FALSE}
  maxBackups = 1
  MaxWrites = 2
  MaxOutside = 1
  MaxFaults = 1
  Pages = {p1}
  lockAfter = 1
  maxLock = 1
  sessionLifetime = 1
  stateQueueCapacity = 1
  MaxConsoleClock = 1
  MaxGuesses = 2
  MaxTraffic = 1
  MaxToggles = 1
CHECK_DEADLOCK FALSE
INVARIANTS PartsHold
PROPERTIES PartsProgress
