CONSTANTS
  Endpoint = {"client", "server"}
  Window = 2
  MaxMessages = 1
  MaxPings = 1
  Lengths = {2}
  Kinds = {"TEXT"}
  Reactions = {"none"}
  Senders = {"client", "server"}
  Pingers = {}
  Closers = {"client"}
  Deleters = {}
  Urls = {"GET /"}
SPECIFICATION Spec
INVARIANT ReceivedIsDispatched
