SPECIFICATION Spec
CONSTANTS
  None = None
  Names = {a}
  Goroutines = {g1}
  Handshakes = {}
  Configs = {"list"}
  AutoDomains <- MCAutoDomains
  ScriptNames <- MCScriptNames
  maxParallelJobs = 1
  maxCandidates = 1
  maxRejected = 2
  certAttempts = 1
  ProposalCap = 1
  MaxApplies = 1
  MaxIssued = 2
  MaxCrashes = 1
  MaxConsole = 0
INVARIANT CertHasItsKey
