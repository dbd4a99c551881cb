SPECIFICATION BusySpec
CONSTANTS
  Bits = 8
  MemSize = 2
  DeviceAddr = 160
  MayNack = TRUE
  Used = {"I2C_Write", "I2C_Read", "I2C_MultipleRead"}
  Addrs = {1}
  Values = {0, 5, 255}
  Lens = {1, 3}
  MaxResets = 1
INVARIANTS BusReleased NoFight
PROPERTIES AckMeansTaken LineDiscipline Implements BackInStep
