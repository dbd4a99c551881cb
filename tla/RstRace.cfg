SPECIFICATION Spec
CONSTANTS
  Timer = 2
  RunTime = 11
  TimerMax = 15
  CountMod = 3
  Slack = 0
  MaxPushes = 0
PROPERTY ReleaseEndsReset
