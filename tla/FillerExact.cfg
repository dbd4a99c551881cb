SPECIFICATION Spec
CONSTANTS
  WordBytes = 2
  MaxAddr = 2
  Bases = {0}
  Lengths = {0, 3, 4}
  Data = {0}
  Timeouts = {0}
  ClkDiv = 2
  Manners = {TRUE}
INVARIANT FillExact
