\* Two operators, two vintages, three decisions, two faults, one damaged vintage.
CONSTANTS
  o1 = o1
  o2 = o2
  v1 = v1
  v2 = v2
  Operators <- MCOperators
  NoOperator = NoOperator
  Vintages <- MCVintages
  NoVintage = NoVintage
  NoRequest = NoRequest
  Passes <- MCPasses
  MaxEvents = 3
  MaxFaults = 2
  MaxDamage = 1
SPECIFICATION FairSpec
INVARIANTS
  TypeOK
  HistoryReadable
  AppliedSurvives
  OneWriter
PROPERTIES
  MovesFromExpected
  ImplementsLedger
  WaiterAnswered
CHECK_DEADLOCK FALSE
