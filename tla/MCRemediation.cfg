SPECIFICATION Spec
CONSTANTS
  e1 = e1
  e2 = e2
  o1 = o1
  o2 = o2
  cronjob = cronjob
  p1 = p1
  Events <- MCEvents
  Objects <- MCPods
  Transient <- MCPods
  ObjectOf <- MCPodOf
  KeyOf <- MCKeyOf
  Policies <- MCPolicies
  Matches <- MCMatches
  EventsPerMinute <- MCEventsPerMinute
  CooldownMinutes <- MCCooldownMinutes
  Minute = 1
  ObjectCooldown = 1
  ProcessedAge = 1
  MaxAttempts = 2
  MaxOccurrences = 2
  MaxTime = 3
  MaxStarts = 2
SYMMETRY MCSymmetry
INVARIANTS
  TypeOK
  CountersHonest
PROPERTIES
  NoEarlyRepeat
  Spaced
\* the environment is bounded
CHECK_DEADLOCK FALSE
