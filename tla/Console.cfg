SPECIFICATION Spec
CONSTANTS
  BufLen = 4
  Depth = 2
  Near = 0
  Timeout = 2
  IntMax = 4
  Labels = 6
  Uses <- SomeUses
INVARIANTS TransmitterAwake ReceiverAwake
PROPERTIES Implements OutputEnds OutputArrives InputArrives
