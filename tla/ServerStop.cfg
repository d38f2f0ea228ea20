SPECIFICATION Spec
CONSTANTS
  r1 = r1
  r2 = r2
  l1 = l1
  Conns = {c1, c2}
  Listeners = {l1}
  Consoles = {k1, k2}
  Sources = {s1}
  Trusted = {}
  RuleSet = {r1, r2}
  Rules <- TwoRules
  Deny = Deny
  None = None
  MaxConnections = 2
  ListenerMax <- NoListenerMax
  MaxHandshakes = 0
  Operations <- AllOperations
  MaxRuntimes = 3
CHECK_DEADLOCK FALSE
SYMMETRY Symmetry
INVARIANTS StoppedRuleIsIdle
