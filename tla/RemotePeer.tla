----------------------------- MODULE RemotePeer -----------------------------
(***************************************************************************)
(* A client of this code connected to a server that is not: any server     *)
(* that answers the handshake and then keeps to RFC 6455, the protocol the *)
(* code refers to (easywsclient.cpp:54).  The server may send a message in *)
(* fragments, pings between them, close in an orderly way or hang up.  It  *)
(* also may never read what the client sends.                              *)
(***************************************************************************)
EXTENDS WebSocketImpl

CONSTANTS
  Answers,          \* the responses to the handshake it may give
  MaxFrames,        \* bound on the frames it sends
  Reads,            \* whether it reads what the client sends
  ConnectMayFail    \* whether connect() may fail

\* The client runs this code, the server does not.  An answer has no more lines
\* than the six after which the client takes the handshake for over
\* (easywsclient.cpp:893): it would take a seventh for a frame.  It may have
\* fewer, as most do: the status, Upgrade, Connection, Sec-WebSocket-Accept and
\* the blank line are all RFC 6455 asks for.
ASSUME RemotePeerAssumption ==
  /\ Endpoint = {"client"}
  /\ \A lines \in Answers : lines \in Seq([kind : {"line"}, text : STRING]) /\ Len(lines) <= 6
  /\ MaxFrames \in Nat /\ Reads \in BOOLEAN /\ ConnectMayFail \in BOOLEAN

\* The server's own state, as the record remote:
\*   answered  whether it has answered the handshake
\*   short     whether its answer ends where the client waits for another line
\*   frames    frames it has sent
\*   open      the message it has begun: <<>> or <<[text, body]>>
\*   sent      the messages it has finished, in order
\*   pings     payloads of the pings it has sent
\*   pongs     payloads of the pongs it has read
RemoteStart ==
  [answered |-> FALSE, short |-> FALSE, frames |-> 0, open |-> <<>>, sent |-> <<>>,
   pings |-> <<>>, pongs |-> <<>>]

\* The client is done with these lines when it has read them: there are six, or
\* it gives up at one of them.
Counted(lines) ==
  \/ Len(lines) = 6
  \/ lines # <<>> /\ lines[1].text # "101"
  \/ \E i \in DOMAIN lines : lines[i].text = TooLong

\* create(): connected with the request sent, or mSocket is null and create()
\* deletes the object it has just made, whose state is OPEN.
Init ==
  \E connected \in {TRUE} \cup (IF ConnectMayFail THEN {FALSE} ELSE {}) :
    /\ mReadyState = [e \in Endpoint |-> IF connected THEN "CONNECTING" ELSE "CLOSING"]
    /\ mSocket = [e \in Endpoint |-> IF connected THEN "open" ELSE "null"]
    /\ deleting = [e \in Endpoint |-> ~connected]
    /\ mTransmitBuffer = [e \in Endpoint |-> IF connected THEN <<>> ELSE CloseFrame]
    /\ wire = [n \in Node |-> IF n = "server" /\ connected THEN Request("GET /") ELSE <<>>]
    /\ mConnectionPhase = [e \in Endpoint |-> "HTTP_STATUS"]
    /\ nonblocking = [e \in Endpoint |-> FALSE]
    /\ mReceiveBuffer = [e \in Endpoint |-> <<>>]
    /\ mReceivedData = [e \in Endpoint |-> <<>>]
    /\ pc = [e \in Endpoint |-> "idle"]
    /\ eof = [n \in Node |-> FALSE]
    /\ sent = [e \in Endpoint |-> <<>>]
    /\ delivered = [e \in Endpoint |-> <<>>]
    /\ pings = [e \in Endpoint |-> 0]
    /\ pongs = [e \in Endpoint |-> 0]
    /\ remote = RemoteStart
-----------------------------------------------------------------------------
(* The server.  It is gone once eof["client"] is set.                      *)

clientVars == <<mReadyState, mSocket, pc, deleting, connectionVars, bufferVars,
                historyVars>>

RemoteUp == ~eof["client"] /\ UNCHANGED clientVars

\* Put units on the way to the client; nobody takes them if it has closed.
ToClient(units) ==
  wire' = [wire EXCEPT !["client"] = IF eof["server"] THEN @ ELSE @ \o units]

RemoteAnswer(lines) ==
  /\ RemoteUp /\ ~remote.answered
  /\ wire["server"] # <<>>
  /\ remote' = [remote EXCEPT !.answered = TRUE, !.short = ~Counted(lines)]
  /\ ToClient(lines)
  /\ UNCHANGED eof

\* It may send another frame.
MaySend == RemoteUp /\ remote.answered /\ remote.frames < MaxFrames

\* One frame of a message: the first gives the type, the last ends it.
RemoteMessage(op, len, fin) ==
  /\ MaySend
  /\ LET first  == remote.open = <<>>
         number == Len(remote.sent) + 1
         \* Pieces are numbered through the whole message.
         before == IF first THEN <<>> ELSE remote.open[1].body
         part   == [i \in 1 .. len |-> Piece(number, Len(before) + i)]
         whole  == [text |-> IF first THEN op = "TEXT" ELSE remote.open[1].text,
                    body |-> before \o part]
     IN  /\ op \in IF first THEN Kinds ELSE {"CONTINUATION"}
         /\ ToClient(Frame(op, fin, part))
         /\ remote' = [remote EXCEPT
              !.frames = @ + 1,
              !.open = IF fin THEN <<>> ELSE <<whole>>,
              !.sent = IF fin THEN Append(@, whole) ELSE @]
  /\ UNCHANGED eof

RemotePing(len) ==
  /\ MaySend
  /\ LET body == [i \in 1 .. len |-> Piece(-1 - Len(remote.pings), i)]
     IN  /\ ToClient(Frame("PING", TRUE, body))
         /\ remote' = [remote EXCEPT !.frames = @ + 1, !.pings = Append(@, body)]
  /\ UNCHANGED eof

\* After its close frame the server sends nothing more.
RemoteClose ==
  /\ MaySend
  /\ remote' = [remote EXCEPT !.frames = MaxFrames]
  /\ ToClient(CloseFrame)
  /\ UNCHANGED eof

\* The server ends, at any moment.
RemoteHangUp ==
  /\ RemoteUp
  /\ eof' = [eof EXCEPT !["client"] = TRUE]
  /\ wire' = [wire EXCEPT !["server"] = <<>>]
  /\ UNCHANGED remote

\* It reads a line, or a whole frame.
RemoteRead ==
  /\ RemoteUp /\ Reads /\ remote.answered
  /\ wire["server"] # <<>>
  /\ LET unit == Head(wire["server"])
         size == IF unit.kind = "head" THEN 1 + unit.len ELSE 1
     IN  /\ Len(wire["server"]) >= size
         /\ wire' = [wire EXCEPT !["server"] = SubSeq(@, size + 1, Len(@))]
         /\ remote' = IF unit.kind = "head" /\ unit.op = "PONG"
                      THEN [remote EXCEPT
                              !.pongs = Append(@, SubSeq(wire["server"], 2, size))]
                      ELSE remote
  /\ UNCHANGED eof

RemoteStep ==
  \/ \E lines \in Answers : RemoteAnswer(lines)
  \/ \E op \in Kinds \cup {"CONTINUATION"}, len \in Lengths, fin \in BOOLEAN :
       RemoteMessage(op, len, fin)
  \/ \E len \in Lengths : RemotePing(len)
  \/ RemoteClose
  \/ RemoteHangUp
  \/ RemoteRead
-----------------------------------------------------------------------------
\* A poll of the closed connection, a recv() that nothing will end, or the
\* destructor's loop going round without effect: nothing changes any more.
Stuck(e) ==
  \/ pc[e] = "gone"
  \/ pc[e] = "idle" /\ (mReadyState[e] \in {"CONNECTING", "CLOSED"} \/ mSocket[e] = "null")
  \/ pc[e] = "recv" /\ wire[e] = <<>>

Finished == eof["client"] /\ (\A e \in Endpoint : Stuck(e)) /\ UNCHANGED vars

Next == (\E e \in Endpoint : EndpointStep(e)) \/ RemoteStep \/ Finished

Spec == Init /\ [][Next]_vars

\* The application, or the destructor, keeps calling poll(), and what TCP has
\* accepted arrives.  Nothing is assumed of the server, unless it reads.
Fairness ==
  /\ \A e \in Endpoint :
       /\ WF_vars(PollStep(e) \/ DeletedClosed(e))
       /\ SF_vars(Receive(e))
       /\ SF_vars(ReceiveEnd(e))
  /\ WF_vars(RemoteRead)

FairSpec == Spec /\ Fairness
-----------------------------------------------------------------------------
\* While the handshake lasts, the client stands at a line of it, and once it is
\* open at the first byte of a frame: the six lines of easywsclient.cpp:865-897
\* are counted to the byte, whatever the server sends behind them at once.
HandshakeApart ==
  \A e \in Endpoint : ~remote.short =>
    /\ CanConnect(e) /\ wire[e] # <<>> => Head(wire[e]).kind = "line"
    /\ nonblocking[e] /\ Rx(e) # <<>> => Head(Rx(e)).kind = "head"

\* The messages given to receiveMessage() are the server's, in order and each
\* with the payload of all its fragments; what is kept meanwhile is the first
\* part of the next message, which the server has begun or finished.
MessagesReassembled ==
  \A e \in Endpoint :
    LET next == Len(delivered[e]) + 1
        body == IF next <= Len(remote.sent) THEN remote.sent[next].body
                ELSE IF remote.open # <<>> THEN remote.open[1].body ELSE <<>>
    IN  /\ Len(delivered[e]) <= Len(remote.sent)
        /\ \A k \in 1 .. Len(delivered[e]) : delivered[e][k].body = remote.sent[k].body
        /\ Len(mReceivedData[e]) <= Len(body)
        /\ mReceivedData[e] = SubSeq(body, 1, Len(mReceivedData[e]))

\* A message is given to receiveMessage() when its last fragment is there and
\* with the payload of all of them, also when pings came between the fragments,
\* when fragments are empty, and when the stream was split inside them.  (Only
\* the payload: the type comes from the last fragment, easywsclient.cpp:451; and
\* only of a server whose lines the client counts rightly, line 893.)
Reassembled == ~remote.short => MessagesReassembled

\* The pongs the server has read are those to its first pings.
PingsEchoed ==
  /\ Len(remote.pongs) <= Len(remote.pings)
  /\ \A k \in 1 .. Len(remote.pongs) : remote.pongs[k] = remote.pings[k]

\* Pongs carry the payloads of the server's pings, in their order, unless the
\* client took pings for lines of a short answer.
PongsEchoPings == ~remote.short => PingsEchoed

\* The server's close frame is answered and the connection ends, also when the
\* server only waits, though the frame is left in the receive buffer
\* (easywsclient.cpp:477-481).
CloseAnswered ==
  \A e \in Endpoint :
    Rx(e) # <<>> /\ Rx(e)[1] = CloseFrame[1] /\ mReadyState[e] = "OPEN"
      ~> mReadyState[e] = "CLOSED"

\* "if we don't receive a response to our close command in this time, go ahead
\* and exit" (easywsclient.cpp:209): the destructor ends.
DestructorEnds == \A e \in Endpoint : deleting[e] ~> pc[e] = "gone"
=============================================================================
