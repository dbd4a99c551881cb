SPECIFICATION Spec
CONSTANTS
  Timer = 2
  RunTime = 11
  TimerMax = 15
  CountMod = 3
  Slack = 4
  MaxPushes = 1
INVARIANTS ReleasedIsRunning TimerKept ArmedAsCommanded CountsReleases
PROPERTIES PhaseLengths UnreleasedIsReset Implements
