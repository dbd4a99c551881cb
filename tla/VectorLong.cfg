SPECIFICATION Spec
CONSTANTS
  Halves = {lower, upper}
  Limit = 16
  WordBytes = 4
  Items = 2
  LocalItems = 3
  ByteLen = 16
  Values = {0, 1}
  Zero = 0
PROPERTIES TrueMeansVerified
