----------------------------- MODULE ChatServer -----------------------------
(***************************************************************************)
(* The chat server (TestServer.cpp): one thread accepts clients, asks for  *)
(* console lines, forgets the clients that are gone, polls the others and  *)
(* sends every message to all of them.  The console is InputLine.  The     *)
(* connections are what ClientServer shows of WebSocketImpl, taken message *)
(* by message, with the descriptors of wsocket.cpp, which the system gives *)
(* out again.  The clients are TestClient.cpp: their request is on its way *)
(* once they connect; they send lines, and leave in order or crash.        *)
(***************************************************************************)
EXTENDS InputLine, FiniteSetsExt, SequencesExt

CONSTANTS
  Client,        \* connections, each used once
  Descriptor,    \* numbers accept() may return
  Talkers,       \* clients that send messages, and not only listen
  Slow,          \* clients whose sockets may be full
  MaxMessages,   \* bound on the messages of a client
  Long           \* which of them have 511 characters or more

ASSUME ChatAssumption ==
  /\ Descriptor \subseteq Nat \ {0} /\ MaxMessages \in Nat \ {0}
  /\ Talkers \subseteq Client /\ Slow \subseteq Client
  /\ Client \cap {"none", "console", "close"} = {}

VARIABLES
  present,       \* clients that have connected and not closed their socket
  backlog,       \* connections that wait for accept()
  up,            \* what a client sent and the server did not read
  mReadyState,   \* of the server's WebSocketImpl
  mSocket,       \* its descriptor; 0 when it is closed or there is none
  owner,         \* per descriptor: the connection it stands for, or "none"
  out,           \* mTransmitBuffer: what waits to be sent to the client
  down,          \* history: what was sent to the client
  mClients,      \* the vector, oldest first
  pc, at,        \* where run() is, and in a loop over the clients
  exit,          \* whether "bye" was read
  log,           \* history: the messages that were sent to everybody
  joined,        \* history: length of the log when the client was added
  sent,          \* history: how many messages a client sent
  dispatched     \* history: how many of them receiveMessage() was given

clientVars == <<present, up, sent>>
socketVars == <<mSocket, owner>>
bufferVars == <<out, down>>
vars == <<inputVars, clientVars, backlog, mReadyState, socketVars, bufferVars,
          mClients, pc, at, exit, log, joined, dispatched>>

Init ==
  /\ InputInit
  /\ present = {} /\ backlog = <<>> /\ mClients = <<>> /\ log = <<>>
  /\ up = [c \in Client |-> <<>>] /\ sent = [c \in Client |-> 0]
  /\ mReadyState = [c \in Client |-> "CONNECTING"]
  /\ mSocket = [c \in Client |-> 0]
  /\ owner = [d \in Descriptor |-> "none"]
  /\ out = [c \in Client |-> <<>>] /\ down = [c \in Client |-> <<>>]
  /\ pc = "poll" /\ at = 1 /\ exit = FALSE
  /\ joined = [c \in Client |-> 0] /\ dispatched = [c \in Client |-> 0]
-----------------------------------------------------------------------------
(* Messages.  A client sends its request, texts and a close frame.         *)

Unit(kind, n) == [kind |-> kind, n |-> n]
Message(from, n) == [from |-> from, n |-> n]
CloseFrame == Message("close", 0)

ClosingOrClosed(state, c) == state[c] \in {"CLOSING", "CLOSED"}

\* A mutant: only clients whose handshake is over are sent to.
Broadcast_OpenOnly(buffers, state, m) ==
  [c \in Client |-> IF c \in ToSet(mClients) /\ state[c] = "OPEN"
                    THEN Append(buffers[c], m) ELSE buffers[c]]

\* sendText() to every client in the vector, in the states they are in.
Broadcast(buffers, state, m) ==
  [c \in Client |-> IF c \in ToSet(mClients) /\ ~ClosingOrClosed(state, c)
                    THEN Append(buffers[c], m) ELSE buffers[c]]

\* A mutant: WsocketImpl::close() keeps the number.
CloseSocket_Keep(c) ==
  /\ owner' = [d \in Descriptor |-> IF d = mSocket[c] THEN "none" ELSE owner[d]]
  /\ UNCHANGED mSocket

\* WsocketImpl::close(), which release() calls again: the number is free for
\* the next accept() and forgotten here.
CloseSocket(c) ==
  /\ owner' = [d \in Descriptor |-> IF d = mSocket[c] THEN "none" ELSE owner[d]]
  /\ mSocket' = [mSocket EXCEPT ![c] = 0]
-----------------------------------------------------------------------------
(* The clients.  A bound: once the server was told to end, they connect    *)
(* and talk no more, but leave.                                            *)

Closes(c) == \E i \in DOMAIN up[c] : up[c][i].kind = "close"

\* It has connected, and has not said good-bye.
Talking(c) == c \in present /\ ~Closes(c) /\ ~ClosingOrClosed(mReadyState, c)

Connect(c) ==
  /\ c \notin present /\ up[c] = <<>> /\ sent[c] = 0
  /\ mReadyState[c] = "CONNECTING" /\ c \notin ToSet(mClients) /\ ~exit
  /\ present' = present \cup {c}
  /\ backlog' = Append(backlog, c)
  /\ up' = [up EXCEPT ![c] = <<Unit("request", 0)>>]
  /\ UNCHANGED <<inputVars, sent, mReadyState, socketVars, bufferVars, mClients, pc, at,
                 exit, log, joined, dispatched>>

Send(c) ==
  /\ c \in Talkers /\ Talking(c) /\ ~exit /\ sent[c] < MaxMessages
  /\ up' = [up EXCEPT ![c] = Append(@, Unit("text", sent[c] + 1))]
  /\ sent' = [sent EXCEPT ![c] = @ + 1]
  /\ UNCHANGED <<inputVars, present, backlog, mReadyState, socketVars, bufferVars,
                 mClients, pc, at, exit, log, joined, dispatched>>

\* "bye": that text is sent like any other (Send), and the client's destructor
\* sends a close frame ...
SendClose(c) ==
  /\ Talking(c) /\ ~exit
  /\ up' = [up EXCEPT ![c] = Append(@, Unit("close", 0))]
  /\ UNCHANGED <<inputVars, present, backlog, sent, mReadyState, socketVars, bufferVars,
                 mClients, pc, at, exit, log, joined, dispatched>>

\* ... and closes the socket, as a crash does at any time.
Leave(c) ==
  /\ c \in present /\ pc # "ended"
  /\ present' = present \ {c}
  /\ UNCHANGED <<inputVars, backlog, up, sent, mReadyState, socketVars, bufferVars,
                 mClients, pc, at, exit, log, joined, dispatched>>
-----------------------------------------------------------------------------
(* SimpleServer::run().  A server that got no socket to listen on is one   *)
(* that nobody connects to.                                                *)

\* The loop over the clients is at its end; the next round begins, or not.
RoundOver == pc = "poll" /\ at > Len(mClients)

Free == {d \in Descriptor : owner[d] = "none"}

\* pollServer() returns a client: the lowest free number stands for it.
Accept ==
  /\ RoundOver /\ ~exit /\ backlog # <<>> /\ Free # {}
  /\ LET c == Head(backlog)
     IN  /\ owner' = [owner EXCEPT ![Min(Free)] = c]
         /\ mSocket' = [mSocket EXCEPT ![c] = Min(Free)]
         /\ mClients' = Append(mClients, c)
         /\ joined' = [joined EXCEPT ![c] = Len(log)]
  /\ backlog' = Tail(backlog)
  /\ pc' = "input"
  /\ UNCHANGED <<inputVars, clientVars, mReadyState, bufferVars, at, exit, log, dispatched>>

AcceptNone ==
  /\ RoundOver /\ ~exit /\ (backlog = <<>> \/ Free = {})
  /\ pc' = "input"
  /\ UNCHANGED <<inputVars, clientVars, backlog, mReadyState, socketVars, bufferVars,
                 mClients, at, exit, log, joined, dispatched>>

InputNone ==
  /\ pc = "input" /\ NoLine
  /\ pc' = "drop"
  /\ UNCHANGED <<clientVars, backlog, mReadyState, socketVars, bufferVars, mClients, at,
                 exit, log, joined, dispatched>>

InputCopy ==
  /\ pc = "input" /\ CopyLine
  /\ pc' = "take"
  /\ UNCHANGED <<clientVars, backlog, mReadyState, socketVars, bufferVars, mClients, at,
                 exit, log, joined, dispatched>>

\* A mutant: the line still has its end.
Ends_WithNewline(line) == line \in {"bye\n", "quit\n", "exit\n"}

Ends(line) == line \in {"bye", "quit", "exit"}

\* A line is sent to everybody, unless it ends the server.
InputTake ==
  /\ pc = "take" /\ TakeLine
  /\ LET m == Message("console", Len(taken'))
     IN  IF Ends(copied)
         THEN exit' = TRUE /\ UNCHANGED <<out, log>>
         ELSE /\ out' = Broadcast(out, mReadyState, m)
              /\ log' = Append(log, m)
              /\ UNCHANGED exit
  /\ pc' = "drop"
  /\ UNCHANGED <<clientVars, backlog, mReadyState, socketVars, down, mClients, at,
                 joined, dispatched>>

\* What is left of a sequence without these elements: SelectSeq, in a form that
\* proofs can use.
Without(s, gone) ==
  LET kept[n \in 0 .. Len(s)] ==
        IF n = 0 THEN <<>>
        ELSE IF s[n] \in gone THEN kept[n - 1] ELSE Append(kept[n - 1], s[n])
  IN  kept[Len(s)]

\* The clients whose connection is closed are deleted, with their buffers and
\* the socket, which release() closes again.
Released(c) == mReadyState[c] = "CLOSED" /\ c \in ToSet(mClients)

Drop ==
  /\ pc = "drop"
  /\ owner' = [d \in Descriptor |-> IF \E c \in Client : Released(c) /\ d = mSocket[c]
                                   THEN "none" ELSE owner[d]]
  /\ mSocket' = [c \in Client |-> IF Released(c) THEN 0 ELSE mSocket[c]]
  /\ mClients' = Without(mClients, {c \in Client : Released(c)})
  /\ out' = [c \in Client |-> IF Released(c) THEN <<>> ELSE out[c]]
  /\ down' = [c \in Client |-> IF Released(c) THEN <<>> ELSE down[c]]
  /\ joined' = [c \in Client |-> IF Released(c) THEN 0 ELSE joined[c]]
  /\ pc' = "poll" /\ at' = 1
  /\ UNCHANGED <<inputVars, clientVars, backlog, mReadyState, exit, log, dispatched>>
-----------------------------------------------------------------------------
(* getMessage() of one client after the other: poll(), and what came last. *)

Polled(c) ==
  /\ pc = "poll" /\ at <= Len(mClients) /\ c = mClients[at]
  /\ at' = at + 1
  /\ UNCHANGED <<inputVars, present, sent, backlog, mClients, pc, exit, joined>>

\* The handshake, which takes one poll() a character: the request is there.
PollRequest(c) ==
  /\ Polled(c)
  /\ mReadyState[c] = "CONNECTING" /\ up[c] # <<>>
  /\ mReadyState' = [mReadyState EXCEPT ![c] = "OPEN"]
  /\ up' = [up EXCEPT ![c] = Tail(@)]
  /\ UNCHANGED <<socketVars, bufferVars, log, dispatched>>

\* CONNECTION_TIME_OUT: the socket is released.
PollTimeout(c) ==
  /\ Polled(c)
  /\ mReadyState[c] = "CONNECTING"
  /\ mReadyState' = [mReadyState EXCEPT ![c] = "CLOSED"]
  /\ CloseSocket(c)
  /\ UNCHANGED <<up, bufferVars, log, dispatched>>

\* Nothing that arrived is kept.
Unread(c) == [up EXCEPT ![c] = <<>>]

\* The end of the stream: what came before it is not dispatched any more.
PollEnd(c) ==
  /\ Polled(c)
  /\ mReadyState[c] \in {"OPEN", "CLOSING"} /\ c \notin present
  /\ mReadyState' = [mReadyState EXCEPT ![c] = "CLOSED"]
  /\ CloseSocket(c)
  /\ up' = Unread(c)
  /\ UNCHANGED <<bufferVars, log, dispatched>>

\* The network takes the first k messages that wait: all, or fewer while a client
\* that is slow does not read.
Taken(c) == IF c \in Slow THEN 0 .. Len(out[c]) ELSE {Len(out[c])}
Flushed(c, k) == [down EXCEPT ![c] = @ \o SubSeq(out[c], 1, k)]
Waiting(c, k) == [out EXCEPT ![c] = SubSeq(@, k + 1, Len(@))]

\* The close frame is queued; the socket is closed once it is sent.
PollClosing(c, k) ==
  /\ Polled(c)
  /\ mReadyState[c] = "CLOSING" /\ c \in present
  /\ down' = Flushed(c, k) /\ out' = Waiting(c, k)
  /\ IF out'[c] = <<>>
     THEN mReadyState' = [mReadyState EXCEPT ![c] = "CLOSED"] /\ CloseSocket(c)
     ELSE UNCHANGED <<mReadyState, socketVars>>
  /\ UNCHANGED <<up, log, dispatched>>

Texts(c) == {up[c][i].n : i \in {j \in DOMAIN up[c] : up[c][j].kind = "text"}}

\* A mutant: a long message makes those before it forgotten.
Kept_Long(c) == {n \in Texts(c) : n = Max(Texts(c))} \ Long

\* The texts that arrived and that receiveMessage() keeps.
Kept(c) == Texts(c) \ Long

\* A mutant: the first message that arrived is what getMessage() returns.
NewMessage_First(c) == {n \in Kept(c) : \A k \in Kept(c) : n <= k}

\* What getMessage() returns: the last of them, if any.
NewMessage(c) == {n \in Kept(c) : \A k \in Kept(c) : n >= k}

\* poll() receives, sends and dispatches; the message goes to everybody, the
\* client it came from included.
PollOpen(c, k) ==
  /\ Polled(c)
  /\ mReadyState[c] = "OPEN" /\ c \in present
  /\ mReadyState' = [mReadyState EXCEPT ![c] = IF Closes(c) THEN "CLOSING" ELSE @]
  /\ down' = Flushed(c, k)
  /\ LET buffers == IF Closes(c)
                    THEN [Waiting(c, k) EXCEPT ![c] = Append(@, CloseFrame)]
                    ELSE Waiting(c, k)
     IN  IF NewMessage(c) = {}
         THEN out' = buffers /\ UNCHANGED log
         ELSE \E n \in NewMessage(c) :
                /\ out' = Broadcast(buffers, mReadyState', Message(c, n))
                /\ log' = Append(log, Message(c, n))
  /\ dispatched' = [dispatched EXCEPT ![c] = sent[c]]
  /\ up' = Unread(c)
  /\ UNCHANGED socketVars

PollClient(c) ==
  \/ PollRequest(c) \/ PollTimeout(c) \/ PollEnd(c)
  \/ \E k \in Taken(c) : PollClosing(c, k) \/ PollOpen(c, k)

\* ~SimpleServer(): the console first, then the clients ...
Exit ==
  /\ RoundOver /\ exit
  /\ ReleaseInput
  /\ pc' = "delete" /\ at' = 1
  /\ UNCHANGED <<clientVars, backlog, mReadyState, socketVars, bufferVars, mClients,
                 exit, log, joined, dispatched>>

\* What ~WebSocketImpl() may wait for without an end: recv() on the socket of a
\* handshake, which blocks, or a client that takes nothing.
Waits(c) ==
  /\ c \in present
  /\ mReadyState[c] = "CONNECTING" \/ (mReadyState[c] # "CLOSED" /\ c \in Slow)

\* What waits once the destructor has called close().
Farewell(c) ==
  IF ClosingOrClosed(mReadyState, c) THEN out[c] ELSE Append(out[c], CloseFrame)

\* ... each of them in turn; it got k more messages before the socket is closed.
DeleteAt(c, k) ==
  /\ pc = "delete" /\ at <= Len(mClients) /\ c = mClients[at]
  /\ down' = [down EXCEPT ![c] = @ \o SubSeq(Farewell(c), 1, k)]
  /\ out' = [out EXCEPT ![c] = SubSeq(Farewell(c), k + 1, Len(Farewell(c)))]
  /\ mReadyState' = [mReadyState EXCEPT ![c] = "CLOSED"]
  /\ CloseSocket(c)
  /\ at' = at + 1
  /\ UNCHANGED <<inputVars, clientVars, backlog, mClients, pc, exit, log, joined, dispatched>>

\* poll() sends all that waits, the close frame last, unless the stream has ended.
DeleteClient(c) ==
  /\ ~Waits(c)
  /\ DeleteAt(c, IF c \in present /\ mReadyState[c] # "CLOSED" THEN Len(Farewell(c)) ELSE 0)

\* A slow client takes what is queued at last, or the time limit happens to be
\* met: it counts from one round to the next.
DeleteSlow(c) ==
  /\ Waits(c) /\ mReadyState[c] # "CONNECTING"
  /\ \E k \in 0 .. Len(Farewell(c)) : DeleteAt(c, k)

Ended ==
  /\ pc = "delete" /\ at > Len(mClients)
  /\ pc' = "ended" /\ mClients' = <<>> /\ backlog' = <<>>
  /\ UNCHANGED <<inputVars, clientVars, mReadyState, socketVars, bufferVars, at, exit,
                 log, joined, dispatched>>
-----------------------------------------------------------------------------
ServerStep ==
  \/ Accept \/ AcceptNone
  \/ InputNone \/ InputCopy \/ InputTake
  \/ Drop
  \/ \E c \in Client : PollClient(c)
  \/ Exit
  \/ \E c \in Client : DeleteClient(c)
  \/ Ended

ConsoleStep ==
  CheckFlag /\ UNCHANGED <<clientVars, backlog, mReadyState, socketVars, bufferVars,
                            mClients, pc, at, exit, log, joined, dispatched>>

Type ==
  Fgets /\ UNCHANGED <<clientVars, backlog, mReadyState, socketVars, bufferVars,
                             mClients, pc, at, exit, log, joined, dispatched>>

\* Nothing is left to do.
Finished == pc = "ended" /\ UNCHANGED vars

Next ==
  \/ \E c \in Client : Connect(c) \/ Send(c) \/ SendClose(c) \/ Leave(c)
  \/ Type
  \/ ConsoleStep
  \/ ServerStep
  \/ \E c \in Client : DeleteSlow(c)
  \/ Finished

\* Two threads that run: the server's and the console's.
Spec == Init /\ [][Next]_vars /\ WF_vars(ServerStep) /\ WF_vars(ConsoleStep)
-----------------------------------------------------------------------------
\* A client's socket is its own as long as it is open: poll() closes a socket,
\* accept() gives the number to the next client, and only then the old client
\* is deleted, which closes once more (easywsclient.cpp:297,
\* wsocket.cpp:210-217, TestServer.cpp:129-176).
SocketIsOwn == \A c \in Client, d \in Descriptor : mSocket[c] = d <=> owner[d] = c

\* ... and no descriptor is left behind.
OwnDescriptor ==
  /\ SocketIsOwn
  /\ \A d \in Descriptor : owner[d] # "none" => owner[d] \in ToSet(mClients) \/ pc = "ended"

\* What waits for a client, or was sent to it.
Stream(c) == Without(down[c] \o out[c], {CloseFrame})

\* Every client sees the one order of messages, without gaps, from the time it
\* was added on, also what was sent while its handshake went on
\* (TestServer.cpp:151-154, 182-193); until it closes, all of it.
SameOrderForAll ==
  \A c \in Client :
    LET since == SubSeq(log, joined[c] + 1, Len(log))
    IN  /\ c \in ToSet(mClients) /\ ~ClosingOrClosed(mReadyState, c) => Stream(c) = since
        /\ Stream(c) = SubSeq(since, 1, Len(Stream(c)))

\* getMessage() keeps the last message only; so one that receiveMessage() was
\* given is sent to everybody or followed by a later one that is, unless it is
\* too long, and none is repeated or overtaken (TestServer.cpp:35-70).
DroppedOnlyIfSuperseded ==
  /\ \A c \in Client : \A n \in 1 .. dispatched[c] :
       n \notin Long => \E i \in DOMAIN log : log[i].from = c /\ log[i].n >= n
  /\ \A i, j \in DOMAIN log :
       i < j /\ log[i].from = log[j].from => log[i].n < log[j].n

\* Checked by no run, since it is false of all but the last message of a poll():
\* "If we have received a message from a client, then we echo that message back
\* to all currently connected clients" (TestServer.cpp:180-181): each message
\* that receiveMessage() was given and that is not too long for it.
EachIsEchoed ==
  \A c \in Client : \A n \in 1 .. dispatched[c] :
    n \notin Long => Message(c, n) \in ToSet(log)

\* The last message of a client is sent to everybody, unless one of the two
\* closes.
LastIsEchoed ==
  \A c \in Talkers :
    sent[c] = MaxMessages /\ MaxMessages \notin Long
      ~> \/ Message(c, MaxMessages) \in ToSet(log)
         \/ c \notin present \/ ClosingOrClosed(mReadyState, c) \/ exit

\* "Type 'bye' [...] to stop the server" (TestServer.cpp:101): it stops, unless
\* it waits for a client whose handshake has not ended, or that takes nothing.
ByeEnds ==
  (\E i \in 1 .. typed : Script[i] \in {"bye", "quit", "exit"})
    ~> \/ pc = "ended"
       \/ pc = "delete" /\ at <= Len(mClients) /\ Waits(mClients[at])
=============================================================================
