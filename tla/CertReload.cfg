SPECIFICATION Spec
CONSTANTS
  None = None
  Names = {a}
  Goroutines = {g1}
  Handshakes = {}
  Configs = {"both"}
  AutoDomains <- MCAutoDomains
  ScriptNames <- MCScriptNames
  maxParallelJobs = 1
  maxCandidates = 1
  maxRejected = 1
  certAttempts = 2
  ProposalCap = 1
  MaxApplies = 2
  MaxIssued = 2
  MaxCrashes = 0
  MaxConsole = 1
SYMMETRY Symmetry
INVARIANTS TypeOK ChallengeOwned DiskNotBehind NoLostWakeup
PROPERTIES StaleNeverInstalls NoRollback
