---------------------------- MODULE ClientServer ----------------------------
(***************************************************************************)
(* A client and a server connection of this code talking to each other     *)
(* over TCP: WebSocketImpl at both ends.  The client's constructor has     *)
(* sent its request; the server's object was made from an accepted socket. *)
(***************************************************************************)
EXTENDS WebSocketImpl

CONSTANT Urls   \* the first lines a client may send: "GET /", "GET /path"

\* Both ends run this code; the request line is not blank.
ASSUME ClientServerAssumption == Endpoint = Node /\ EmptyLine \notin Urls

\* Both sockets are connected, and block: connect() gives such a socket, and on
\* Linux accept() does.  (On Windows an accepted socket takes over from the
\* listening one, wsocket.cpp:251, that it does not block; the models are about
\* the Linux build.)
Init ==
  /\ mReadyState = [e \in Endpoint |-> "CONNECTING"]
  /\ mConnectionPhase = [e \in Endpoint |-> "HTTP_STATUS"]
  /\ mSocket = [e \in Endpoint |-> "open"]
  /\ nonblocking = [e \in Endpoint |-> FALSE]
  /\ mReceiveBuffer = [e \in Endpoint |-> <<>>]
  /\ mTransmitBuffer = [e \in Endpoint |-> <<>>]
  /\ mReceivedData = [e \in Endpoint |-> <<>>]
  /\ pc = [e \in Endpoint |-> "idle"]
  /\ deleting = [e \in Endpoint |-> FALSE]
  /\ \E get \in Urls : wire = [n \in Node |-> IF n = "server" THEN Request(get) ELSE <<>>]
  /\ eof = [n \in Node |-> FALSE]
  /\ remote = <<>>
  /\ sent = [e \in Endpoint |-> <<>>]
  /\ delivered = [e \in Endpoint |-> <<>>]
  /\ pings = [e \in Endpoint |-> 0]
  /\ pongs = [e \in Endpoint |-> 0]

\* recv() on a socket that is still blocking, with nothing to come.
BlockedInReceive(e) ==
  pc[e] = "recv" /\ ~nonblocking[e] /\ wire[e] = <<>> /\ ~eof[e]

\* Nothing is left to happen: each end is deleted, or closed and only polled,
\* or waits in a recv() that nothing will end.
Finished ==
  /\ \A e \in Endpoint :
       \/ pc[e] = "gone"
       \/ pc[e] = "idle" /\ mReadyState[e] = "CLOSED"
       \/ BlockedInReceive(e)
  /\ UNCHANGED vars

Next == (\E e \in Endpoint : EndpointStep(e)) \/ Finished

Spec == Init /\ [][Next]_vars

\* Each application keeps polling, and TCP delivers what it accepted: a
\* socket polled again and again does not answer "would block" for ever while
\* something is on its way to it.
Fairness ==
  \A e \in Endpoint :
    /\ WF_vars(PollStep(e) \/ DeletedClosed(e))
    /\ SF_vars(Receive(e))
    /\ SF_vars(ReceiveEnd(e))

FairSpec == Spec /\ Fairness
-----------------------------------------------------------------------------
(* What is on its way to e, oldest first: received, in the network, queued *)
(* at the other end.                                                       *)
Stream(e) == mReceiveBuffer[e] \o wire[e] \o mTransmitBuffer[Peer(e)]

MessageOps == {"TEXT", "BINARY", "CONTINUATION"}

\* How many frames of a stream have an opcode in ops.
Frames(stream, ops) ==
  Cardinality({i \in DOMAIN stream : stream[i].kind = "head" /\ stream[i].op \in ops})

\* Nothing was cut off yet: neither end has dropped the connection.
Connected == \A e \in Endpoint : mSocket[e] = "open"

\* Type invariant of both ends and the network.
TypeOK ==
  /\ mReadyState \in [Endpoint -> {"CONNECTING", "OPEN", "CLOSING", "CLOSED"}]
  /\ mConnectionPhase \in [Endpoint -> Phases]
  /\ mSocket \in [Endpoint -> {"open", "closed", "null"}]
  /\ pc \in [Endpoint -> {"idle", "recv", "send", "dispatch", "gone"}]
  /\ nonblocking \in [Endpoint -> BOOLEAN] /\ deleting \in [Endpoint -> BOOLEAN]
  /\ eof \in [Node -> BOOLEAN]
  /\ \A e \in Endpoint : pings[e] \in 0 .. MaxPings /\ pongs[e] \in Nat
  /\ \A e \in Endpoint : Len(sent[e]) <= MaxMessages /\ Len(delivered[e]) <= MaxMessages

\* receiveMessage() is given the messages the other side sent, whole, in order
\* and as text or binary as they were, however the stream was split and
\* whatever was dispatched in between.
DeliveredInOrder ==
  \A e \in Endpoint :
    /\ Len(delivered[e]) <= Len(sent[Peer(e)])
    /\ \A k \in 1 .. Len(delivered[e]) : delivered[e][k] = sent[Peer(e)][k]

\* While the connection stands no message is lost, repeated or overtaken: what
\* sendData() accepted is delivered or on its way.
NothingLost ==
  Connected =>
    \A e \in Endpoint :
      Len(sent[Peer(e)]) = Len(delivered[e]) + Frames(Stream(e), MessageOps)

\* From the end of the handshake the stream to each end is a sequence of whole
\* frames: both handshake parsers stopped at the right byte, and frames never
\* interleave, also when they were queued before the handshake ended.
WholeFrames ==
  \A e \in Endpoint :
    Connected /\ mReadyState[e] = "OPEN" =>
      LET s == Stream(e)
      IN  /\ s # <<>> => s[1].kind = "head"
          /\ \A i \in DOMAIN s :
               s[i].kind = "head" =>
                 /\ i + s[i].len <= Len(s)
                 /\ \A j \in i + 1 .. i + s[i].len : s[j].kind = "data"
                 /\ i + s[i].len < Len(s) => s[i + s[i].len + 1].kind = "head"

\* Nothing follows the close frame, and no end queues two of them: whatever
\* order close(), the callback's close() and the peer's close frame come in.
CloseIsLast ==
  \A e \in Endpoint :
    LET s == Stream(e)
    IN  \A i \in DOMAIN s : s[i] = CloseFrame[1] => i = Len(s)

\* Every ping of an open connection is on its way, or its pong is, or the pong
\* has arrived: none is answered twice or forgotten.
PingsAnswered ==
  Connected /\ (\A e \in Endpoint : ~ClosingOrClosed(e)) =>
    \A e \in Endpoint :
      pings[e] = Frames(Stream(Peer(e)), {"PING"}) + Frames(Stream(e), {"PONG"}) + pongs[e]

\* What poll() dispatches never contains a line of the handshake, also when
\* close() came before the handshake ended: poll() is then still waiting in
\* recv(), where sockets block until the handshake ends (Linux, see Init).
OnlyFramesDispatched ==
  \A e \in Endpoint : pc[e] = "dispatch" =>
    \A i \in DOMAIN mReceiveBuffer[e] : mReceiveBuffer[e][i].kind # "line"
-----------------------------------------------------------------------------
Messages ==
  {[text |-> t, body |-> Body(k, len)] :
     t \in BOOLEAN, k \in 1 .. MaxMessages, len \in Lengths}

Channel ==
  INSTANCE MessageChannel WITH
    End <- Endpoint, Message <- Messages,
    state <- mReadyState, accepted <- sent, received <- delivered

\* The connection keeps the promise of MessageChannel, while either end may
\* close, from a callback too, or be deleted: a state never goes back, when the
\* rest of the handshake arrives after close() or close() is called again,
\* nothing is taken behind the close frame, and what is delivered is the
\* next message of the other end (easywsclient.h:36-68).
ImplementsChannel == Channel!Spec

\* A message that was accepted is delivered, unless somebody closes.
MessageArrives ==
  \A e \in Endpoint, k \in 1 .. MaxMessages :
    Len(sent[e]) >= k ~> \/ Len(delivered[Peer(e)]) >= k
                         \/ \E n \in Endpoint : ClosingOrClosed(n) \/ deleting[n]

\* The handshake ends for both ends, unless somebody closes before it has.
HandshakeEnds ==
  \A e \in Endpoint :
    mReadyState[e] = "CONNECTING"
      ~> mReadyState[e] # "CONNECTING" \/ \E n \in Endpoint : ClosingOrClosed(n)

\* An end that is OPEN while the other has dropped the connection, by a timeout
\* that fired after the server had accepted, a refusal, or a close, sees its end.
LossIsNoticed ==
  \A e \in Endpoint :
    mSocket[Peer(e)] # "open" /\ mReadyState[e] = "OPEN"
      ~> mReadyState[e] = "CLOSED" \/ pc[e] = "gone"

\* close() of an established connection ends: the frames that were queued are
\* sent, or the other side has gone.
CloseCompletes ==
  \A e \in Endpoint :
    mReadyState[e] = "CLOSING" /\ nonblocking[e]
      ~> mReadyState[e] = "CLOSED" \/ pc[e] = "gone"
-----------------------------------------------------------------------------
(* What the header promises of poll(), and the code does not keep.         *)

\* "If any new messages have been received [...] it will send incoming messages
\* back through that interface" (easywsclient.h:55-56): when poll() was given a
\* callback and returns, it leaves no whole message undispatched.
ReceivedIsDispatched ==
  \A e \in Endpoint :
    pc[e] = "idle" /\ ~deleting[e] /\ Rx(e) # <<>> /\ Head(Rx(e)).kind = "head" =>
      ~(HasFrame(e) /\ Head(Rx(e)).op \in MessageOps)

\* Checked by no run, since it is false after close() during the handshake:
\* "While this 'poll' call is non-blocking" (easywsclient.h:52): poll() does not
\* stay in recv().
PollReturns == \A e \in Endpoint : pc[e] = "recv" ~> pc[e] # "recv"
=============================================================================
