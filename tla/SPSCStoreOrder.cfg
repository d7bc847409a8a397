CONSTANTS
  mCapacity = 5
  StreamLength = 6
  StoreOrder = "program"
  MaxPending = 5
SPECIFICATION Spec
INVARIANTS InOrderExactlyOnce ViewsAreConservative
