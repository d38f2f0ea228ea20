SPECIFICATION FairSpec
CONSTANTS
  None = None
  Names = {a}
  Goroutines = {g1}
  Handshakes = {}
  Configs = {"list", "open"}
  AutoDomains <- MCAutoDomains
  ScriptNames <- MCScriptNames
  maxParallelJobs = 1
  maxCandidates = 1
  maxRejected = 1
  certAttempts = 2
  ProposalCap = 1
  MaxApplies = 2
  MaxIssued = 1
  MaxCrashes = 1
  MaxConsole = 0
INVARIANT CommitsAreCurrent
PROPERTIES JobsEnd NeverForgotten KeepsUsable
