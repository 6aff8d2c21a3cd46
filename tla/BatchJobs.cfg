\* Two runs of one program in one language, with up to three failures.
CONSTANTS
  MaxRuns = 2
  MaxFaults = 3
  Inputs <- MCInputs
  Absent = Absent
  Limits <- MCLimits
  Served <- MCServed
  Newcomers <- MCNewcomers
  PageSize = 2
  MaxPages = 3
  MaxChanges = 1
  Directories <- MCDirectories
  Required = {"id"}
  Customers = {"c", "d"}
  Products = {"p"}
  Orders = {"o", "q"}
  Events = {"e"}
  NoOne = "nobody"
  Datasets <- MCDatasets
  Absences <- MCFiles
SPECIFICATION Spec
INVARIANTS
  SuccessIsWhole
  CountedOnce
  JudgedAgainstPast
CHECK_DEADLOCK FALSE
