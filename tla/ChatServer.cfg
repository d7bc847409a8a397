CONSTANTS
  Client = {"c1", "c2"}
  Talkers = {"c1"}
  Slow = {"c2"}
  Descriptor = {4, 5}
  Script <- MCScript
  MaxMessages = 3
  Long = {2}
SPECIFICATION Spec
INVARIANTS LinesInOrder OwnDescriptor SameOrderForAll DroppedOnlyIfSuperseded
PROPERTIES LastIsEchoed ByeEnds
