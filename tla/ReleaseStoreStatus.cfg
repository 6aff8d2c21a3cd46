\* A vintage that was never released is damaged.
CONSTANTS
  o1 = o1
  o2 = o2
  v1 = v1
  v2 = v2
  Operators <- MCOperators
  NoOperator = NoOperator
  Vintages <- MCVintages
  NoVintage = NoVintage
  NoRequest = NoRequest
  Passes <- MCPasses
  MaxEvents = 1
  MaxFaults = 0
  MaxDamage = 1
SPECIFICATION Spec
INVARIANT StatusNeedsOnlyActive
CHECK_DEADLOCK FALSE
