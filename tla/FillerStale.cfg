SPECIFICATION Spec
CONSTANTS
  WordBytes = 2
  MaxAddr = 2
  Bases = {0}
  Lengths = {0}
  Data = {0}
  Timeouts = {0, 4}
  ClkDiv = 2
  Manners = {FALSE}
PROPERTY IdleUntilStarted
