\* One run that is killed in the middle of saving its checkpoint.
CONSTANTS
  run1 = run1
  run2 = run2
  id1 = id1
  id2 = id2
  number = number
  NoId = NoId
  Runs <- OneRun
  Ids <- MCIds
  Numbers <- MCNumbers
  Lines <- MCLines
  Seconds = 2
  MaxLines = 2
  MaxFaults = 1
SPECIFICATION Spec
INVARIANT CheckpointSurvivesCrash
