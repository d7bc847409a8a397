CONSTANTS
  Endpoint = {"client", "server"}
  Window = 2
  MaxMessages = 1
  MaxPings = 1
  Lengths = {1}
  Kinds = {"BINARY"}
  Reactions = {"none", "close"}
  Senders = {"client", "server"}
  Pingers = {}
  Closers = {"client", "server"}
  Deleters = {"client", "server"}
  Urls = {"GET /", "GET /path"}
SPECIFICATION FairSpec
INVARIANTS CloseIsLast OnlyFramesDispatched
PROPERTIES ImplementsChannel MessageArrives HandshakeEnds LossIsNoticed CloseCompletes
