SPECIFICATION Spec
CONSTANTS
  Halves = {lower, upper}
  Limit = 32
  WordBytes = 4
  Items = 2
  LocalItems = 3
  ByteLen = 20
  Values = {0, 1}
  Zero = 0
INVARIANTS WriteCovers StaysInside NoFalseAlarm
PROPERTIES TrueMeansVerified TestsEnd
