CONSTANTS
  Base = 128
  TopBit = 64
  Short = 9
  Modulus = 268435456
  DefaultLen = 6
  MaxGrow = 24
  MaxRead = 3
  Window = 2
  Sizes = {8, 15}
  MaxMessages = 3
  Payload <- CountedPayload
SPECIFICATION Spec
INVARIANTS DeliveredPlain StalledOnlyByLargeFrame
PROPERTIES FramesArrive
CHECK_DEADLOCK FALSE
