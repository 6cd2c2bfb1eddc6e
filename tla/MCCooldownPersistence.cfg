SPECIFICATION Spec
CONSTANTS
  k1 = k1
  k2 = k2
  p1 = p1
  p2 = p2
  Keys <- MCKeys
  Policies <- MCPolicies
  PolicyOf <- MCPolicyOf
  Cooldown <- MCCooldown
  MinPersist = 2
  MaxTime = 3
  MaxStarts = 2
INVARIANTS
  TypeOK
  HonouredOncePersisted
PROPERTIES
  CleanStopPersists
  StopReturns
\* the clock stops at MaxTime and no process starts after the last
CHECK_DEADLOCK FALSE
