SPECIFICATION Spec
CHECK_DEADLOCK FALSE
CONSTANTS
  Radix <- MCRadix
  Gaps = {1, 2, 6, 9}
  MaxElapsed = 4
INVARIANTS TypeOK
PROPERTIES EstimateIsExact DateIsShown DateIsRead
