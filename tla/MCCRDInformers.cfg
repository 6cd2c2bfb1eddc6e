SPECIFICATION Spec
CONSTANTS
  crontabs = crontabs
  deployments = deployments
  v1 = v1
  v2 = v2
  Names = {crontabs, deployments}
  Versions = {v1, v2}
  BuiltIn = {deployments}
  BuiltInVersions = {v1}
  Absent = Absent
  MaxEvents = 4
INVARIANTS
  TypeOK
  MapFollows
PROPERTIES
  InitialIsComplete
  Settles
\* a watcher whose wait for the caches never ends has nothing left to do
CHECK_DEADLOCK FALSE
