SPECIFICATION Spec
CONSTANTS
  Refs = {r1, r2}
  Clients = {c1, c2}
  Ops <- AllOps
  Faults <- AllFaults
  ShardMax = 2
  MaxRequests = 2
  MaxDay = 2
  MaxRebuilds = 2
  MaxUnread = 1
  Unreadable <- Fragile
CONSTRAINT Explored
SYMMETRY Interchangeable
INVARIANTS
  TypeOK
  PlainCasesKeepTheirReferral
  BackedByShards
  CommittedIsRestored
  
PROPERTIES
  RulesSurviveRebuilds
