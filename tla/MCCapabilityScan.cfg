SPECIFICATION Spec
CONSTANTS
  r1 = r1
  s1 = s1
  s2 = s2
  w1 = w1
  w2 = w2
  NoSpec = NoSpec
  NoState = NoState
  Resources = {r1}
  Specs = {s1, s2}
  Scanned <- MCScanned
  States <- MCStates
  BufferSize = 1
  MaxEvents = 2
INVARIANTS
  TypeOK
  DeletesJustified
  ReadyIsClean
PROPERTIES
  Converges
\* without a config nothing runs once the environment is done
CHECK_DEADLOCK FALSE
