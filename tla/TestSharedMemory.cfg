CONSTANTS
  mCapacity = 8
  StreamLength = 13
  Strings = {1, 3}
SPECIFICATION TestSpec
INVARIANT StringIsWhole
