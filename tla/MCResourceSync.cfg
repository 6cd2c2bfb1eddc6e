SPECIFICATION Spec
CONSTANTS
  r1 = r1
  OthersExist = TRUE
  c1 = c1
  c2 = c2
  s1 = s1
  s2 = s2
  w1 = w1
  w2 = w2
  Gone = Gone
  NoSpec = NoSpec
  NoWatcher = NoWatcher
  Resources <- MCResources
  Contents = {c1}
  LabelsOf <- MCLabelsOf
  Specs <- MCSpecs
  Watchers <- MCWatchers
  MaxEvents = 2
INVARIANTS
  TypeOK
  MapIsTruth
PROPERTIES
  NoStaleResync
  SlotsAreLoops
  StaleEnds
  Converges
  StatusSettles
\* without a config nothing runs once the environment is done
CHECK_DEADLOCK FALSE
