\* One session dies under a worker between its scan and its append.
CONSTANTS
  w1 = w1
  w2 = w2
  none = none
  Workers <- MCWorkers
  NoWorker <- none
  LogLength = 1
  Poison <- NoPoison
  MaxFaults = 0
  MaxSessionLoss = 1
SPECIFICATION Spec
INVARIANT ReplayNeverDuplicates
CHECK_DEADLOCK FALSE
