SPECIFICATION Spec
CONSTANTS
  None = None
  Names = {a, b}
  Goroutines = {g1, g2}
  Handshakes = {h1}
  Configs = {"open", "none"}
  AutoDomains <- MCAutoDomains
  ScriptNames <- MCScriptNames
  maxParallelJobs = 1
  maxCandidates = 1
  maxRejected = 1
  certAttempts = 1
  ProposalCap = 1
  MaxApplies = 2
  MaxIssued = 0
  MaxCrashes = 0
  MaxConsole = 0
SYMMETRY Symmetry
INVARIANTS AskHasScript WaitingHasReason OneJobPerName
