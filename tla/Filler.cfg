SPECIFICATION Spec
CONSTANTS
  WordBytes = 2
  MaxAddr = 2
  Bases = {0, 5}
  Lengths = {0, 3, 4}
  Data = {0, 1}
  Timeouts = {0, 4}
  ClkDiv = 1
  Manners = {TRUE, FALSE}
INVARIANTS FillCovers AddressInOrder NeverWaitsForNothing DataInOrder StartsFresh
PROPERTIES IdleUntilStart TimeoutOnTime Implements FillEnds TimeoutEnds
