SPECIFICATION PartsSpec
CONSTANTS
  Parts = {"serve"}
  v4 = v4
  v6 = v6
  Families = {v4, v6}
  AddrLists <- MCAddrLists
  NoAddrs = NoAddrs
  Payers = {r1, r2}
  Scopes = {"rule", "listener"}
  Rates = {1}
  Unlimited = 0
  Costs = {2}
  Burst = 2
  MaxClock = 2
  MaxCharges = 2
  MaxReloads = 1
  Borrowers = {b1, b2, b3}
  MaxIdle = 1
  RingCap = 2
  Ports = {"A", "B"}
  Addrs = {"x", "y"}
  Closed = Closed
  PortConfigs <- MCPortConfigs
  Elsewhere = {"y"}
  MaxStores = 3
  Served = {c1}
  ServeNames = {"A", "B"}
  ServeConfigs <- MCServeConfigs
  Passwords = {"p", "q"}
  RememberFor = 2
  RememberMax = 1
  HashSlots = 1
  MaxGens = 2
  MaxAuthClock = 1
  MaxRequests = 2
  Flows = {c1, c2}
  Refused = {c2}
  OtherFlows = FALSE
  FlowQueue = 1
  FlowBatch = 1
  FlowHistory = 1
  SnapshotFlows = 1
  NoFlow = NoFlow
  Callers = {g1, g2}
  MaxPending = 2
  RingLines = 2
  MaxCalls = 3
  MaxSinks = 1
  FileSinks = {1}
  MaxSize = 1
  MaxKeep = 3
  CompressAfter = 1
  Absent = Absent
  MaxLines = 5
  MaxLogFaults = 2
  Tabs = {t1, t2}
  Paths = {"open", "admin"}
  OidcGroups = {"g"}
  OidcConfigs <- MCOidcConfigs
  StateTokens = {1, 2, 3, 4}
  CookieRoom = 0
  SessionTTL = 1
  StateTTL = 1
  KeysMinAge = 1
  DiscoTTL = 2
  RetryAfter = 1
  NoCookie = NoCookie
  MaxOidcClock = 1
  MaxVisits = 2
  MaxRestarts = 0
  MaxRotations = 0
  MaxOidcReloads = 1
  Askers = {h1, h2}
  Hosts = {n}
  NoneYet = NoneYet
  MaxCAKeys = 2
  MaxCARenewals = 0
  MaxLeaves = 2
  MaxOpens = 1
  MaxCACrashes = 0
  GoodTexts = {x1, x2}
  BrokenTexts = {y1}
  DefaultText = x1
  NoText = NoText
  MaxEdits = 3
  MaxSetFaults = 1
  Domains <- MCDomains
  Snis <- MCSnis
  Globs <- MCGlobs
  LabelChars <- MCChars
  Targets = {"t1", "t2", "t3"}
  TableListeners = {"A", "B", "$console"}
  Addresses = {"ip", "any"}
  AnyAddress = "any"
  TextPorts = {80, 443}
  GroupNames = {"g", "h"}
  ConsoleDomain <- MCConsoleDomain
  ConsoleBinds = {"any"}
  ConsolePort = 8443
  FirstTexts <- MCFirstTexts
  MaxTextEdits = 2
  MaxStopped = 1
  SavingPages = {"t1", "t2"}
  Watching = {TRUE, FALSE}
  maxBackups = 1
  MaxWrites = 3
  MaxOutside = 0
  MaxFaults = 1
  Pages = {p1, p2}
  lockAfter = 2
  maxLock = 1
  sessionLifetime = 1
  stateQueueCapacity = 1
  MaxConsoleClock = 2
  MaxGuesses = 2
  MaxTraffic = 0
  MaxToggles = 0
CHECK_DEADLOCK FALSE
INVARIANTS ReloadKeepsServing
