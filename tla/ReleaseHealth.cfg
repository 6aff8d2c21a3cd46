\* Two assessors, two vintages, two decisions, one fault.
CONSTANTS
  a1 = a1
  a2 = a2
  v1 = v1
  v2 = v2
  None = None
  Vintages <- MCVintages
  NoVintage = NoVintage
  Passes <- MCPasses
  Assessors <- MCAssessors
  Writer = Writer
  Nobody = Nobody
  NoWork = NoWork
  MissingPay <- MCMissingPay
  PayLimits <- MCPayLimits
  SourceLimit = 3
  RefreshLimit = 3
  BasePolicy <- MCBasePolicy
  Overrides <- MCOverrides
  MaxClock = 4
  MaxEvents = 2
  MaxFaults = 1
  Outcomes <- MCOutcomes
  MaxAudits = 2
SPECIFICATION Spec
INVARIANTS
  TypeOK
  ArchiveVerifies
  BaselineIsFinal
  OkMeansAssessed
  ReplayReproducesLive
  LooseningAddsNoAlert
CHECK_DEADLOCK FALSE
SYMMETRY MCSymmetry
