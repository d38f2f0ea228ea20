SPECIFICATION Spec
CONSTANTS
  r1 = r1
  r2 = r2
  l1 = l1
  Conns = {c1, c2, c3}
  Listeners = {l1, l2}
  Consoles = {}
  Sources = {s1, s2}
  Trusted = {s1, s2}
  RuleSet = {r1, r2}
  Rules <- OneRule
  Deny = Deny
  None = None
  MaxConnections = 2
  ListenerMax <- OneOnFirst
  MaxHandshakes = 1
  Operations <- NoOperations
  MaxRuntimes = 1
CHECK_DEADLOCK FALSE
SYMMETRY Symmetry
INVARIANTS WithinLimits NothingLeaks
