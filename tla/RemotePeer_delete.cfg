CONSTANTS
  Endpoint = {"client"}
  Window = 2
  MaxMessages = 1
  MaxPings = 1
  Lengths = {}
  Kinds = {"TEXT"}
  Reactions = {"none"}
  Senders = {}
  Pingers = {}
  Closers = {}
  Deleters = {"client"}
  MaxFrames = 1
  Reads = FALSE
  ConnectMayFail = TRUE
  Answers <- AllAnswers
SPECIFICATION FairSpec
PROPERTY DestructorEnds
