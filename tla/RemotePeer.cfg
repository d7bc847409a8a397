CONSTANTS
  Endpoint = {"client"}
  Window = 2
  MaxMessages = 0
  MaxPings = 1
  Lengths = {0, 1}
  Kinds = {"TEXT"}
  Reactions = {"none", "close"}
  Senders = {}
  Pingers = {}
  Closers = {"client"}
  Deleters = {}
  MaxFrames = 3
  Reads = TRUE
  ConnectMayFail = TRUE
  Answers <- AllAnswers
SPECIFICATION FairSpec
INVARIANTS Reassembled PongsEchoPings HandshakeApart
PROPERTY CloseAnswered
