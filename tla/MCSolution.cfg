SPECIFICATION Spec
CONSTANTS
  web = web
  deployment = deployment
  service = service
  Solutions = {web}
  Resources = {deployment, service}
  Foreign = {service}
  MaxAttempts = 2
  MaxEvents = 3
INVARIANTS
  TypeOK
  StatusIsOfItsSpec
  OwnersNamedIt
PROPERTIES
  Settles
\* when every solution is gone nothing is left to do
CHECK_DEADLOCK FALSE
