\* Two processes, one attempt id (or none), two records and a foreign one.
CONSTANTS
  p1 = p1
  p2 = p2
  a1 = a1
  i1 = i1
  i2 = i2
  x = x
  Publishers <- MCPublishers
  NoPublisher = NoPublisher
  Attempts <- MCAttempts
  NoAttempt = NoAttempt
  Ids <- MCIds
  Foreign <- MCForeign
  MaxFaults = 2
  MaxTampers = 1
SPECIFICATION Spec
INVARIANTS
  TypeOK
  OneOutcome
  ToldIsKept
  AcceptedStays
  EvidenceComposes
