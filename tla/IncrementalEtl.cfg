\* Two runs, two events, two seconds, a fault.
CONSTANTS
  run1 = run1
  run2 = run2
  id1 = id1
  id2 = id2
  number = number
  NoId = NoId
  Runs <- MCRuns
  Ids <- MCIds
  Numbers <- MCNumbers
  Lines <- MCLines
  Seconds = 2
  MaxLines = 2
  MaxFaults = 1
SPECIFICATION FairSpec
INVARIANTS
  TypeOK
  SkippedIsWritten
  DuplicatesNeedFaults
  ManifestIsTrue
PROPERTY EventuallyRecorded
