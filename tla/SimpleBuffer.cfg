CONSTANTS
  DefaultLen = 2
  MaxGrow = 10
  Sizes = {1, 3}
  ResetSizes = {0, 2}
  MaxAdded = 9
  Modulus = 64
  CopyOrders = {"ascending"}
SPECIFICATION Spec
INVARIANTS InBounds RetainsContent RefusedOnlyNearLimit
