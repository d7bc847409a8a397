CONSTANTS
  Client = {"a", "b"}
  Capacity = 2
  MaxBytes = 2
  MaxStarts = 2
SPECIFICATION Spec
INVARIANTS KeptWhileRunning ServerReadsThisRun FoundIsReal
PROPERTIES ClientIsFound
