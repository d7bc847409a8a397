CONSTANTS
  mCapacity = 6
  StreamLength = 9
SPECIFICATION FairSpec
INVARIANTS TypeOK InOrderExactlyOnce NoSharedCell SizeIsExact
PROPERTIES ImplementsFifo EverythingDelivered
