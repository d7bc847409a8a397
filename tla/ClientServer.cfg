CONSTANTS
  Endpoint = {"client", "server"}
  Window = 2
  MaxMessages = 2
  MaxPings = 1
  Lengths = {0, 2}
  Kinds = {"TEXT"}
  Reactions = {"none", "echo"}
  Senders = {"client", "server"}
  Pingers = {"client"}
  Closers = {}
  Deleters = {}
  Urls = {"GET /"}
SPECIFICATION Spec
INVARIANTS TypeOK DeliveredInOrder NothingLost WholeFrames PingsAnswered
