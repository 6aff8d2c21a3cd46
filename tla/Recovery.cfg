\* Two workers that keep being run; two good messages and a malformed third;
\* one fault and two lost sessions.
CONSTANTS
  w1 = w1
  w2 = w2
  none = none
  Workers <- MCWorkers
  NoWorker <- none
  LogLength = 3
  Poison <- LatePoison
  MaxFaults = 1
  MaxSessionLoss = 2
SPECIFICATION FairSpec
INVARIANTS
  TypeOK
  AcknowledgedIsDurable
  SuccessIsDurable
  PoisonBlocks
  DuplicatesNeedLostSessions
  ClaimIsExclusive
PROPERTIES
  SuccessIsFinal
  EventuallyAcknowledged
CHECK_DEADLOCK FALSE
