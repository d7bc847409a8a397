---------------------------- MODULE WebSocketImpl ----------------------------
(***************************************************************************)
(* easywsclient::WebSocketImpl (easywsclient.cpp): one end of a WebSocket  *)
(* connection, as the steps its application's calls take.  The object is   *)
(* used by one thread; what interleaves is the two ends and the network,   *)
(* and within poll() the other end may run between any two socket calls,   *)
(* so poll() is a walk over the control points "recv", "send", "dispatch". *)
(*                                                                         *)
(* The byte streams are sequences of units: a handshake line, a frame      *)
(* header (masking key included), or one piece of a payload.  A socket     *)
(* call moves one unit; since poll() repeats each call until it would      *)
(* block, any split of the stream over polls occurs.                       *)
(***************************************************************************)
EXTENDS Integers, Sequences, FiniteSets

CONSTANTS
  Endpoint,     \* the ends of the connection that run this code
  Window,       \* units a socket accepts before send() would block
  MaxMessages,  \* bound on the messages an application sends
  MaxPings,     \* bound on the pings an application sends
  Lengths,      \* payload lengths the applications choose from
  Kinds,        \* and message opcodes: "TEXT", "BINARY"
  Reactions,    \* what a callback may do: "none", "echo", "close"
  Senders,      \* the ends whose application sends messages,
  Pingers,      \* ... pings,
  Closers,      \* ... calls close(),
  Deleters      \* ... deletes the object

Node == {"client", "server"}
Peer(e) == IF e = "client" THEN "server" ELSE "client"

ASSUME EndpointAssumption ==
  /\ Endpoint \subseteq Node
  /\ Window \in Nat \ {0}
  /\ MaxMessages \in Nat /\ MaxPings \in Nat
  /\ Lengths \subseteq Nat
  /\ Kinds \subseteq {"TEXT", "BINARY"}
  /\ Reactions \subseteq {"none", "echo", "close"}

VARIABLES
  mReadyState,       \* CONNECTING, OPEN, CLOSING, CLOSED
  mConnectionPhase,  \* which handshake line is expected next
  mSocket,           \* "open", "closed", or "null" (released)
  nonblocking,       \* whether disableNaglesAlgorithm() has run
  mReceiveBuffer,    \* units received and not dispatched
  mTransmitBuffer,   \* units to be sent
  mReceivedData,     \* payload of the fragments of an unfinished message
  pc,                \* where poll() is; "gone" once the object is deleted
  deleting,          \* whether the destructor is running
  wire,              \* per node: units on their way to it
  eof,               \* per node: whether the other side has closed
  remote,            \* state of an end that does not run this code, if any
  sent,              \* history: messages sendData() accepted
  delivered,         \* history: messages given to receiveMessage()
  pings, pongs       \* history: pings accepted, pongs received

connectionVars == <<mConnectionPhase, nonblocking>>
bufferVars == <<mReceiveBuffer, mTransmitBuffer, mReceivedData>>
netVars == <<wire, eof>>
historyVars == <<sent, delivered, pings, pongs>>
vars == <<mReadyState, mSocket, pc, deleting,
          connectionVars, bufferVars, netVars, remote, historyVars>>
-----------------------------------------------------------------------------
(* Units.                                                                  *)

Line(text) == [kind |-> "line", text |-> text]
TooLong == "255 characters"     \* a line no shorter than that
EmptyLine == ""                     \* the line that ends a request or an answer
Header(op, fin, len) == [kind |-> "head", op |-> op, fin |-> fin, len |-> len]
Piece(m, i) == [kind |-> "data", msg |-> m, part |-> i]

Body(m, len) == [i \in 1 .. len |-> Piece(m, i)]
Frame(op, fin, body) == <<Header(op, fin, Len(body))>> \o body
CloseFrame == Frame("CLOSE", TRUE, <<>>)

\* What the client's constructor sends; the first line names the path.
Request(get) ==
  << Line(get), Line("Host"), Line("Upgrade"), Line("Connection"),
     Line("Sec-WebSocket-Key"), Line("Sec-WebSocket-Version"), Line(EmptyLine) >>

\* What a server of this code answers to the first line.
Response ==
  << Line("101"), Line("HConnection"), Line("HSec-WebSocket-Accept"),
     Line("HServer"), Line("HUpgrade"), Line(EmptyLine) >>

\* A mutant: a phase leads back to one that is over.
NextPhase_Loop ==
  [ HCONNECTION_UPGRADE   |-> "HSEC_WEBSOCKET_ACCEPT",
    HSEC_WEBSOCKET_ACCEPT |-> "HSERVER_WEBSOCKET",
    HSERVER_WEBSOCKET     |-> "HCONNECTION_UPGRADE",
    HUPGRADE_WEBSOCKET    |-> "H" ]

\* The phases in which a client takes any line for the one it expects.
NextPhase ==
  [ HCONNECTION_UPGRADE   |-> "HSEC_WEBSOCKET_ACCEPT",
    HSEC_WEBSOCKET_ACCEPT |-> "HSERVER_WEBSOCKET",
    HSERVER_WEBSOCKET     |-> "HUPGRADE_WEBSOCKET",
    HUPGRADE_WEBSOCKET    |-> "H" ]

Phases == DOMAIN NextPhase \cup {"HTTP_STATUS", "H", "SERVER_CLIENT_STRINGS"}
-----------------------------------------------------------------------------
(* Helpers shared by the actions.                                          *)

mIsServerClient(e) == e = "server"

\* The application may call in: no call is in progress.
Idle(e) == pc[e] = "idle" /\ ~deleting[e]

ClosingOrClosed(e) == mReadyState[e] \in {"CLOSING", "CLOSED"}

\* A mutant: frames are queued behind the close frame.
SendData_Always(e, op, body) ==
  mTransmitBuffer' = [mTransmitBuffer EXCEPT ![e] = @ \o Frame(op, TRUE, body)]

\* sendData(): one unfragmented frame, unless the connection is closing.
SendData(e, op, body) ==
  mTransmitBuffer' =
    [mTransmitBuffer EXCEPT ![e] =
       IF ClosingOrClosed(e) THEN @ ELSE @ \o Frame(op, TRUE, body)]

\* A mutant: a second close() queues a second frame and reopens the state.
DoClose_Again(e) ==
  /\ mReadyState' = [mReadyState EXCEPT ![e] = "CLOSING"]
  /\ mTransmitBuffer' = [mTransmitBuffer EXCEPT ![e] = @ \o CloseFrame]

\* close(): queue the close frame once.
DoClose(e) ==
  /\ mReadyState' =
       [mReadyState EXCEPT ![e] = IF ClosingOrClosed(e) THEN @ ELSE "CLOSING"]
  /\ mTransmitBuffer' =
       [mTransmitBuffer EXCEPT ![e] = IF ClosingOrClosed(e) THEN @ ELSE @ \o CloseFrame]

\* ::close() of the socket: the other side reads the end of the stream after
\* what was sent, and what was not read here is lost.
HangUp(e) ==
  /\ wire' = [wire EXCEPT ![e] = <<>>]
  /\ eof' = [eof EXCEPT ![Peer(e)] = TRUE]

\* poll() ends the connection: mSocket->close(), CLOSED.
Drop(e) ==
  /\ mReadyState' = [mReadyState EXCEPT ![e] = "CLOSED"]
  /\ mSocket' = [mSocket EXCEPT ![e] = "closed"]
  /\ HangUp(e)

\* A mutant: mSocket is set to null and not released.
GiveUp_NoRelease(e) ==
  /\ mReadyState' = [mReadyState EXCEPT ![e] = "CLOSED"]
  /\ mSocket' = [mSocket EXCEPT ![e] = "null"]
  /\ UNCHANGED netVars

\* processConnection() gives up: the socket is released.
GiveUp(e) ==
  /\ mReadyState' = [mReadyState EXCEPT ![e] = "CLOSED"]
  /\ mSocket' = [mSocket EXCEPT ![e] = "null"]
  /\ HangUp(e)
-----------------------------------------------------------------------------
(* Calls of the application.                                               *)

\* sendData() of an application's message of len pieces.
SendMessage(e, op, len) ==
  LET body == Body(Len(sent[e]) + 1, len)
  IN  /\ SendData(e, op, body)
      /\ sent' = IF ClosingOrClosed(e) THEN sent
                 ELSE [sent EXCEPT ![e] = Append(@, [text |-> op = "TEXT", body |-> body])]

\* sendText(), sendBinary(): refused once the connection is closing.
Send(e, op, len) ==
  /\ e \in Senders /\ Idle(e)
  /\ Len(sent[e]) < MaxMessages
  /\ SendMessage(e, op, len)
  /\ UNCHANGED <<mReadyState, mSocket, pc, deleting, connectionVars, mReceiveBuffer,
                 mReceivedData, netVars, delivered, pings, pongs, remote>>

SendPing(e) ==
  /\ e \in Pingers /\ Idle(e)
  /\ pings[e] < MaxPings
  /\ SendData(e, "PING", <<>>)
  /\ pings' = [pings EXCEPT ![e] = IF ClosingOrClosed(e) THEN @ ELSE @ + 1]
  /\ UNCHANGED <<mReadyState, mSocket, pc, deleting, connectionVars, mReceiveBuffer,
                 mReceivedData, netVars, sent, delivered, pongs, remote>>

Close(e) ==
  /\ e \in Closers /\ Idle(e)
  /\ DoClose(e)
  /\ UNCHANGED <<mSocket, pc, deleting, connectionVars, mReceiveBuffer, mReceivedData,
                 netVars, historyVars, remote>>

\* The destructor starts: close(), then poll(nullptr) until CLOSED.
Delete(e) ==
  /\ e \in Deleters /\ Idle(e)
  /\ DoClose(e)
  /\ deleting' = [deleting EXCEPT ![e] = TRUE]
  /\ UNCHANGED <<mSocket, pc, connectionVars, mReceiveBuffer, mReceivedData,
                 netVars, historyVars, remote>>

\* ... its loop ends: CLOSED was reached, or one round of the loop happened to
\* take CLOSE_TIMEOUT (getElapsedSeconds() restarts the timer in every round).
Deleted(e) ==
  /\ deleting[e] /\ pc[e] = "idle"
  /\ pc' = [pc EXCEPT ![e] = "gone"]
  /\ mSocket' = [mSocket EXCEPT ![e] = "null"]
  /\ IF mSocket[e] = "open" THEN HangUp(e) ELSE UNCHANGED netVars
  /\ UNCHANGED <<mReadyState, deleting, connectionVars, bufferVars, historyVars, remote>>

DeletedClosed(e) == mReadyState[e] = "CLOSED" /\ Deleted(e)
DeletedSlowRound(e) == mReadyState[e] # "CLOSED" /\ Deleted(e)
-----------------------------------------------------------------------------
(* poll() while CONNECTING: processConnection(), at most one line a call.  *)

CanConnect(e) ==
  pc[e] = "idle" /\ mSocket[e] = "open" /\ mReadyState[e] = "CONNECTING"

\* CONNECTION_TIME_OUT has passed since the last complete line.
ConnectTimeout(e) ==
  /\ CanConnect(e)
  /\ GiveUp(e)
  /\ UNCHANGED <<pc, deleting, connectionVars, bufferVars, historyVars, remote>>

\* The line that ends at the unit at the head of the stream.
NextLine(e) == Head(wire[e]).text

\* A line of the handshake is next; what else may be is the case of SwallowFrame.
AtLine(e) == CanConnect(e) /\ wire[e] # <<>> /\ Head(wire[e]).kind = "line"

HasLine(e) == AtLine(e) /\ NextLine(e) # TooLong

\* The line does not fit mConnectionBuffer, in whatever phase it comes.
LongLine(e) ==
  /\ AtLine(e) /\ NextLine(e) = TooLong
  /\ GiveUp(e)
  /\ UNCHANGED <<pc, deleting, connectionVars, bufferVars, historyVars, remote>>

Opened(e) ==
  /\ mReadyState' = [mReadyState EXCEPT ![e] = "OPEN"]
  /\ nonblocking' = [nonblocking EXCEPT ![e] = TRUE]

\* The server accepts the request and answers, all of it, at once.
AcceptRequest(e) ==
  /\ HasLine(e) /\ mIsServerClient(e)
  /\ mConnectionPhase[e] = "HTTP_STATUS" /\ NextLine(e) = "GET /"
  /\ mConnectionPhase' = [mConnectionPhase EXCEPT ![e] = "SERVER_CLIENT_STRINGS"]
  /\ wire' = [wire EXCEPT ![e] = Tail(@),
                          ![Peer(e)] = IF eof[e] THEN @ ELSE @ \o Response]
  /\ UNCHANGED <<mReadyState, mSocket, nonblocking, pc, deleting, bufferVars, eof,
                 historyVars, remote>>

\* The client reads status 101.
AcceptStatus(e) ==
  /\ HasLine(e) /\ ~mIsServerClient(e)
  /\ mConnectionPhase[e] = "HTTP_STATUS" /\ NextLine(e) = "101"
  /\ mConnectionPhase' = [mConnectionPhase EXCEPT ![e] = "HCONNECTION_UPGRADE"]
  /\ wire' = [wire EXCEPT ![e] = Tail(@)]
  /\ UNCHANGED <<mReadyState, mSocket, nonblocking, pc, deleting, bufferVars, eof,
                 historyVars, remote>>

\* Any other first line ends the attempt.
RefuseLine(e) ==
  /\ HasLine(e)
  /\ mConnectionPhase[e] = "HTTP_STATUS"
  /\ NextLine(e) # IF mIsServerClient(e) THEN "GET /" ELSE "101"
  /\ GiveUp(e)
  /\ UNCHANGED <<pc, deleting, connectionVars, bufferVars, historyVars, remote>>

\* A mutant: the blank line is not waited for.
ServerLine_AnyOpens(e) ==
  /\ HasLine(e)
  /\ mConnectionPhase[e] = "SERVER_CLIENT_STRINGS"
  /\ Opened(e)
  /\ wire' = [wire EXCEPT ![e] = Tail(@)]
  /\ UNCHANGED <<mConnectionPhase, mSocket, pc, deleting, bufferVars, eof, historyVars, remote>>

\* The server skips the request's other lines; the blank one opens.
ServerLine(e) ==
  /\ HasLine(e)
  /\ mConnectionPhase[e] = "SERVER_CLIENT_STRINGS"
  /\ IF NextLine(e) = EmptyLine THEN Opened(e) ELSE UNCHANGED <<mReadyState, nonblocking>>
  /\ wire' = [wire EXCEPT ![e] = Tail(@)]
  /\ UNCHANGED <<mConnectionPhase, mSocket, pc, deleting, bufferVars, eof, historyVars, remote>>

\* The client counts the response's other lines; the sixth opens.
ClientLine(e) ==
  /\ HasLine(e)
  /\ IF mConnectionPhase[e] = "H"
     THEN Opened(e) /\ UNCHANGED mConnectionPhase
     ELSE /\ mConnectionPhase[e] \in DOMAIN NextPhase
          /\ mConnectionPhase' = [mConnectionPhase EXCEPT ![e] = NextPhase[@]]
          /\ UNCHANGED <<mReadyState, nonblocking>>
  /\ wire' = [wire EXCEPT ![e] = Tail(@)]
  /\ UNCHANGED <<mSocket, pc, deleting, bufferVars, eof, historyVars, remote>>

\* processConnection() takes every byte up to a newline for a line
\* (easywsclient.cpp:818-831): of a server whose answer has fewer lines than the
\* client counts, a whole frame is read into the next line.  No byte of it is a
\* newline and the line goes on, or the last byte of its payload is one and the
\* line ends, or it makes the line one that is refused or too long.  (A newline
\* amid a frame is left out: the client would go on inside the frame, at bytes
\* the units do not tell apart.)
SwallowFrame(e) ==
  /\ CanConnect(e) /\ ~mIsServerClient(e)
  /\ wire[e] # <<>> /\ Head(wire[e]).kind = "head" /\ Len(wire[e]) > Head(wire[e]).len
  /\ \/ /\ wire' = [wire EXCEPT ![e] = SubSeq(@, 2 + Head(@).len, Len(@))]
        /\ \/ UNCHANGED <<mReadyState, connectionVars>>
           \/ /\ Head(wire[e]).len > 0 /\ mConnectionPhase[e] \in DOMAIN NextPhase
              /\ mConnectionPhase' = [mConnectionPhase EXCEPT ![e] = NextPhase[@]]
              /\ UNCHANGED <<mReadyState, nonblocking>>
           \/ /\ Head(wire[e]).len > 0 /\ mConnectionPhase[e] = "H"
              /\ Opened(e) /\ UNCHANGED mConnectionPhase
        /\ UNCHANGED <<mSocket, eof>>
     \/ GiveUp(e) /\ UNCHANGED connectionVars
  /\ UNCHANGED <<pc, deleting, bufferVars, historyVars, remote>>

ProcessConnection(e) ==
  \/ LongLine(e)
  \/ SwallowFrame(e)
  \/ AcceptRequest(e)
  \/ AcceptStatus(e)
  \/ RefuseLine(e)
  \/ ServerLine(e)
  \/ ClientLine(e)
-----------------------------------------------------------------------------
(* poll() once the connection is up: receive, send, dispatch.              *)

\* The destructor polls without a callback, so it dispatches nothing.
HasCallback(e) == ~deleting[e]

At(e, point) == pc[e] = point /\ UNCHANGED <<deleting, connectionVars, remote>>
Goto(e, point) == pc' = [pc EXCEPT ![e] = point]

PollBegin(e) ==
  /\ At(e, "idle")
  /\ mSocket[e] # "null" /\ mReadyState[e] \in {"OPEN", "CLOSING"}
  /\ Goto(e, "recv")
  /\ UNCHANGED <<mReadyState, mSocket, bufferVars, netVars, historyVars>>

Receive(e) ==
  /\ At(e, "recv")
  /\ wire[e] # <<>>
  /\ mReceiveBuffer' = [mReceiveBuffer EXCEPT ![e] = Append(@, Head(wire[e]))]
  /\ wire' = [wire EXCEPT ![e] = Tail(@)]
  /\ UNCHANGED <<mReadyState, mSocket, pc, mTransmitBuffer, mReceivedData, eof,
                 historyVars>>

\* A mutant: a socket that never blocks, as if connect() gave one.
ReceiveWouldBlock_Always(e) ==
  /\ At(e, "recv")
  /\ Goto(e, "send")
  /\ UNCHANGED <<mReadyState, mSocket, bufferVars, netVars, historyVars>>

\* Nothing has arrived: a non-blocking socket says so, a blocking one waits.
ReceiveWouldBlock(e) ==
  /\ At(e, "recv")
  /\ nonblocking[e]
  /\ Goto(e, "send")
  /\ UNCHANGED <<mReadyState, mSocket, bufferVars, netVars, historyVars>>

\* recv() returns 0 or an error: poll() returns at once.
ReceiveEnd(e) ==
  /\ At(e, "recv")
  /\ wire[e] = <<>> /\ eof[e]
  /\ Drop(e)
  /\ Goto(e, "idle")
  /\ UNCHANGED <<bufferVars, historyVars>>

PeerClosed(e) == eof[e]

SendSome(e) ==
  /\ At(e, "send")
  /\ mTransmitBuffer[e] # <<>>
  /\ ~PeerClosed(e)
  /\ Len(wire[Peer(e)]) < Window
  /\ wire' = [wire EXCEPT ![Peer(e)] = Append(@, Head(mTransmitBuffer[e]))]
  /\ mTransmitBuffer' = [mTransmitBuffer EXCEPT ![e] = Tail(@)]
  /\ UNCHANGED <<mReadyState, mSocket, pc, mReceiveBuffer, mReceivedData, eof,
                 historyVars>>

\* The other side has closed: what is sent is lost until it answers ...
SendLost(e) ==
  /\ At(e, "send")
  /\ mTransmitBuffer[e] # <<>>
  /\ PeerClosed(e)
  /\ mTransmitBuffer' = [mTransmitBuffer EXCEPT ![e] = Tail(@)]
  /\ UNCHANGED <<mReadyState, mSocket, pc, mReceiveBuffer, mReceivedData, netVars,
                 historyVars>>

\* ... and then send() fails, and poll() returns.
SendError(e) ==
  /\ At(e, "send")
  /\ mTransmitBuffer[e] # <<>>
  /\ PeerClosed(e)
  /\ Drop(e)
  /\ Goto(e, "idle")
  /\ UNCHANGED <<bufferVars, historyVars>>

AfterSend(e) == IF HasCallback(e) THEN "dispatch" ELSE "idle"

SendWouldBlock(e) ==
  /\ At(e, "send")
  /\ mTransmitBuffer[e] # <<>>
  /\ Len(wire[Peer(e)]) >= Window
  /\ Goto(e, AfterSend(e))
  /\ UNCHANGED <<mReadyState, mSocket, bufferVars, netVars, historyVars>>

\* A mutant: a closing connection stays open when all is sent.
SendDone_Stay(e) ==
  /\ At(e, "send")
  /\ mTransmitBuffer[e] = <<>>
  /\ Goto(e, AfterSend(e))
  /\ UNCHANGED <<mReadyState, mSocket, bufferVars, netVars, historyVars>>

\* All is sent; if that included the close frame, the connection ends.
SendDone(e) ==
  /\ At(e, "send")
  /\ mTransmitBuffer[e] = <<>>
  /\ IF mReadyState[e] = "CLOSING"
     THEN Drop(e)
     ELSE UNCHANGED <<mReadyState, mSocket, netVars>>
  /\ Goto(e, AfterSend(e))
  /\ UNCHANGED <<bufferVars, historyVars>>
-----------------------------------------------------------------------------
(* _dispatchBinary(): one frame a step.  While the callback runs the       *)
(* application may call in: it may answer with a message, or close.        *)

Rx(e) == mReceiveBuffer[e]

\* A mutant: one unit behind the frame is waited for as well.
HasFrame_OneMore(e) == Rx(e) # <<>> /\ Len(Rx(e)) > 1 + Head(Rx(e)).len

\* A whole frame is there.
HasFrame(e) == Rx(e) # <<>> /\ Len(Rx(e)) >= 1 + Head(Rx(e)).len

FramePayload(e) == SubSeq(Rx(e), 2, 1 + Head(Rx(e)).len)

\* A mutant: everything received is taken for consumed.
Consumed_All(e) == [mReceiveBuffer EXCEPT ![e] = <<>>]

Consumed(e) ==
  [mReceiveBuffer EXCEPT ![e] = SubSeq(@, 2 + Head(@).len, Len(@))]

Dispatching(e, ops) == At(e, "dispatch") /\ HasFrame(e) /\ Head(Rx(e)).op \in ops

\* What the callback does before it returns.
Reaction(e, reaction) ==
  \/ /\ reaction = "none"
     /\ UNCHANGED <<mReadyState, mTransmitBuffer, sent>>
  \/ /\ reaction = "close" /\ e \in Closers
     /\ DoClose(e) /\ UNCHANGED sent
  \/ /\ reaction = "echo" /\ e \in Senders
     /\ Len(sent[e]) < MaxMessages
     /\ SendMessage(e, "TEXT", Head(Rx(e)).len)
     /\ UNCHANGED mReadyState

\* A mutant: the frame is not consumed.
DispatchMessage_Keep(e, reaction) ==
  /\ Dispatching(e, {"TEXT", "BINARY", "CONTINUATION"})
  /\ Head(Rx(e)).fin
  /\ delivered' = [delivered EXCEPT ![e] =
       Append(@, [text |-> Head(Rx(e)).op = "TEXT",
                  body |-> mReceivedData[e] \o FramePayload(e)])]
  /\ mReceivedData' = [mReceivedData EXCEPT ![e] = <<>>]
  /\ Reaction(e, reaction)
  /\ UNCHANGED <<mSocket, pc, mReceiveBuffer, netVars, pings, pongs>>

\* A mutant: mReceivedData is not cleared.
DispatchMessage_NoClear(e, reaction) ==
  /\ Dispatching(e, {"TEXT", "BINARY", "CONTINUATION"})
  /\ Head(Rx(e)).fin
  /\ delivered' = [delivered EXCEPT ![e] =
       Append(@, [text |-> Head(Rx(e)).op = "TEXT",
                  body |-> mReceivedData[e] \o FramePayload(e)])]
  /\ mReceiveBuffer' = Consumed(e)
  /\ Reaction(e, reaction)
  /\ UNCHANGED <<mSocket, pc, mReceivedData, netVars, pings, pongs>>

\* The payload's last piece completes a message, alone or after fragments.
DispatchMessage(e, reaction) ==
  /\ Dispatching(e, {"TEXT", "BINARY", "CONTINUATION"})
  /\ Head(Rx(e)).fin
  /\ delivered' = [delivered EXCEPT ![e] =
       Append(@, [text |-> Head(Rx(e)).op = "TEXT",
                  body |-> mReceivedData[e] \o FramePayload(e)])]
  /\ mReceivedData' = [mReceivedData EXCEPT ![e] = <<>>]
  /\ mReceiveBuffer' = Consumed(e)
  /\ Reaction(e, reaction)
  /\ UNCHANGED <<mSocket, pc, netVars, pings, pongs>>

DispatchFragment(e) ==
  /\ Dispatching(e, {"TEXT", "BINARY", "CONTINUATION"})
  /\ ~Head(Rx(e)).fin
  /\ mReceivedData' = [mReceivedData EXCEPT ![e] = @ \o FramePayload(e)]
  /\ mReceiveBuffer' = Consumed(e)
  /\ UNCHANGED <<mReadyState, mSocket, pc, mTransmitBuffer, netVars, historyVars>>

\* A mutant: the ping is answered and left in the buffer.
DispatchPing_Keep(e) ==
  /\ Dispatching(e, {"PING"})
  /\ SendData(e, "PONG", FramePayload(e))
  /\ UNCHANGED <<mReadyState, mSocket, pc, mReceiveBuffer, mReceivedData, netVars,
                 historyVars>>

\* A mutant: the pong is empty.
DispatchPing_Empty(e) ==
  /\ Dispatching(e, {"PING"})
  /\ SendData(e, "PONG", <<>>)
  /\ mReceiveBuffer' = Consumed(e)
  /\ UNCHANGED <<mReadyState, mSocket, pc, mReceivedData, netVars, historyVars>>

\* A ping is answered with its own payload.
DispatchPing(e) ==
  /\ Dispatching(e, {"PING"})
  /\ SendData(e, "PONG", FramePayload(e))
  /\ mReceiveBuffer' = Consumed(e)
  /\ UNCHANGED <<mReadyState, mSocket, pc, mReceivedData, netVars, historyVars>>

DispatchPong(e) ==
  /\ Dispatching(e, {"PONG"})
  /\ pongs' = [pongs EXCEPT ![e] = @ + 1]
  /\ mReceiveBuffer' = Consumed(e)
  /\ UNCHANGED <<mReadyState, mSocket, pc, mTransmitBuffer, mReceivedData, netVars,
                 sent, delivered, pings>>

\* A mutant: the loop is left, but the close frame is not answered.
DispatchClose_Ignore(e) ==
  /\ Dispatching(e, {"CLOSE", "RESERVED"})
  /\ Goto(e, "idle")
  /\ UNCHANGED <<mReadyState, mSocket, bufferVars, netVars, historyVars>>

\* A close frame, or an opcode nobody knows: close(), and the loop is left
\* without consuming the frame.
DispatchClose(e) ==
  /\ Dispatching(e, {"CLOSE", "RESERVED"})
  /\ DoClose(e)
  /\ Goto(e, "idle")
  /\ UNCHANGED <<mSocket, mReceiveBuffer, mReceivedData, netVars, historyVars>>

DispatchDone(e) ==
  /\ At(e, "dispatch")
  /\ ~HasFrame(e)
  /\ Goto(e, "idle")
  /\ UNCHANGED <<mReadyState, mSocket, bufferVars, netVars, historyVars>>
-----------------------------------------------------------------------------
\* What the application does of its own accord ...
UserStep(e) ==
  \/ \E op \in Kinds, len \in Lengths : Send(e, op, len)
  \/ SendPing(e)
  \/ Close(e)
  \/ Delete(e)

\* ... and what its loop of calls to poll(), or the destructor's, does.
PollStep(e) ==
  \/ ProcessConnection(e)
  \/ PollBegin(e)
  \/ Receive(e) \/ ReceiveWouldBlock(e) \/ ReceiveEnd(e)
  \/ SendSome(e) \/ SendLost(e) \/ SendError(e) \/ SendWouldBlock(e) \/ SendDone(e)
  \/ \E reaction \in Reactions : DispatchMessage(e, reaction)
  \/ DispatchFragment(e) \/ DispatchPing(e) \/ DispatchPong(e)
  \/ DispatchClose(e) \/ DispatchDone(e)

EndpointStep(e) ==
  UserStep(e) \/ PollStep(e) \/ ConnectTimeout(e) \/ DeletedClosed(e) \/ DeletedSlowRound(e)
=============================================================================
