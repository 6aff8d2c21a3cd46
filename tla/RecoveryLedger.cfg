\* No session is lost: the pipeline implements the abstract ledger.
CONSTANTS
  w1 = w1
  w2 = w2
  none = none
  Workers <- MCWorkers
  NoWorker <- none
  LogLength = 3
  Poison <- LatePoison
  MaxFaults = 2
  MaxSessionLoss = 0
SPECIFICATION Spec
PROPERTY ImplementsLedger
CHECK_DEADLOCK FALSE
