\* Three runs, two vintages of one source, two handoff files, a fault, a rewrite.
CONSTANTS
  run1 = run1
  run2 = run2
  run3 = run3
  pin1 = pin1
  pin2 = pin2
  source1 = source1
  text1 = text1
  text2 = text2
  file1 = file1
  file2 = file2
  out1 = out1
  out2 = out2
  NoRun = NoRun
  Runs <- MCRuns
  Pins <- MCPins
  SourceOf <- MCSourceOf
  Texts <- MCTexts
  Files <- MCFiles
  Batches <- MCBatches
  Outputs <- MCOutputs
  MaxFaults = 1
  MaxRewrites = 1
SPECIFICATION Spec
SYMMETRY MCSymmetry
CHECK_DEADLOCK FALSE
INVARIANTS
  TypeOK
  ReceiptMeansStored
  CatalogNeedsOneText
  AuditIsTrue
  RerunsResume
