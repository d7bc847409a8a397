# wsclient: TLA+ specifications and proofs

`wsclient` is a small C++ library for WebSocket connections (`ext/easywsclient`)
with a chat client and a chat server as its demonstrations (`app/`). This
directory holds its models in TLA+, the TLC configurations that check them, and
proofs for TLAPS. File names below are relative to `src/`; files without a
directory are in `src/ext/easywsclient/`.

Run a check with `tlc -config X.cfg M`, the proofs with `tlapm M_proofs.tla`.

## 1. The system

| Part | State | Operations | Interacts with |
|---|---|---|---|
| `spsc::SPSC` (`SPSC.h`) | ring bytes, `mReadIndex`, `mWriteIndex`, sequence number, in shared memory | `init`, `read`, `write`, `size`, `capacity` | one writer, one reader, in two threads or processes, without a lock |
| `WebSocketImpl` (`easywsclient.cpp`) | ready state, connection phase, transmit, receive and fragment buffers, socket | constructor, `poll`, `sendText`, `sendBinary`, `sendPing`, `close`, destructor | called by one application thread; calls back `receiveMessage`; talks to the peer over `Wsocket` |
| `SimpleBuffer` (`SimpleBuffer.cpp`) | memory, start, end, allocated size | `addBuffer`, `confirmCapacity`, `consume`, `clear`, `reset`, `shrinkBuffer` | three of them in every `WebSocketImpl` |
| `Wsocket` over TCP (`wsocket.cpp`) | descriptor, listening or connected | create, `pollServer`, `receive`, `send`, `close`, `disableNaglesAlgorithm` | operating system |
| shared memory socket (`socketsharedmemory.cpp`) | two rings in two mapped files, sequence numbers | the same interface | two SPSC rings, `MemoryMap` |
| playback socket (`wsocket.cpp`) | file | `receive` | file system |
| `FastXOR` | none | mask a block, eight bytes at a time | framing |
| `Timer` | start time | peek, read and restart | handshake and destructor timeouts |
| `InputLine` (`src/InputLine.cpp`) | line buffer, `mHaveNewData`, `mExit` | console thread, `getInputLine`, destructor | chat client and server |
| chat server (`app/TestServer`) | connections, their last message | `run` | sockets, `InputLine` |
| chat client (`app/TestClient/TestClient.cpp`) | one connection | main loop | `WebSocket`, `InputLine` |
| shared memory test (`app/TestClient/TestSharedMemory.cpp`) | a ring in a mapped file | writer thread, reader loop | SPSC |
| `MemoryMap`, `wplatform` | operating system handles | wrappers | |

### What is hard, and what makes each part correct

* **Two sides without a lock.** The ring is written and read at the same time;
  an index is the only announcement. Correct: bytes arrive once and in order,
  the copies never meet, a full ring is never taken for an empty one, and the
  stream never stops. The index stores are relaxed, so this depends on the
  order in which stores become visible.
* **A stream cut anywhere.** `poll()` sees any prefix of what the peer has sent,
  in the handshake as well as in frames, and control frames come between the
  fragments of a message. Correct: messages are delivered whole, in order, once;
  handshake and frames never mix.
* **Closing.** `close()` may come from the application, from a callback, from the
  destructor or in answer to the peer, before the handshake has ended too.
  Correct: one close frame, nothing behind it, the state never goes back, the
  connection ends.
* **Limits.** Buffers refuse to grow and calls ignore that; timeouts race answers.
  Correct: a refusal comes only near the limit, and a stall only from a frame that
  does not fit.
* **Growing buffers.** Content must survive growth and compaction, and the mask goes
  on and off at other addresses. Correct: what is received is what was sent.
* **Many connections, one thread.** Clients come, go and crash while the server walks
  over them, and the system gives descriptors out again. Correct: all clients see
  one order of messages, a socket is closed only by the connection it belongs to.
* **Processes that restart.** Mapped files outlive the processes that made them.
  Correct: no start clears a ring in use, no server reads bytes of an earlier run.
* **Hand-over by a flag.** The console thread and the application share a line buffer.

`PROJECT.json` lists these hazards line by line with the property that covers
each, or why none does.

## 2. The modules

| Module | Models | Used with |
|---|---|---|
| `ByteFifo` | abstract: a bounded byte transport | implemented by `SPSC` |
| `SPSCIndex` | the ring's index arithmetic | extended by the next two |
| `SPSC` | the ring, both sides, accesses in program order | `SPSC.cfg` |
| `SPSC_proofs` | theorems about `SPSC` | TLAPS |
| `SPSCStoreOrder` | the ring when stores become visible late | `SPSCStoreOrder.cfg` |
| `SPSCStoreOrder_proofs` | theorems about `SPSCStoreOrder` | TLAPS |
| `TestSharedMemory` | the two-call strings of the shared memory test, over `SPSC` | `TestSharedMemory.cfg` |
| `SharedMemorySocket` | server and client processes over two mapped files | `SharedMemorySocket.cfg` |
| `SharedMemorySocket_proofs` | theorems about `SharedMemorySocket` | TLAPS |
| `MessageChannel` | abstract: what a connection promises two applications | implemented by `ClientServer` |
| `WebSocketImpl` | one end of a connection: helpers and actions | extended by the next two |
| `ClientServer` | two ends of this code and TCP between them | three cfgs |
| `ClientServer_proofs` | theorems about `ClientServer` | TLAPS |
| `RemotePeer`, `MCRemotePeer` | a client of this code and an RFC 6455 server | two cfgs |
| `RemotePeer_proofs` | theorems about `RemotePeer` | TLAPS |
| `GrowingBuffer` | the byte buffer's operations as functions | extended by the next and `BufferedTransfer` |
| `SimpleBuffer` | one buffer under every sequence of calls | `SimpleBuffer.cfg` |
| `SimpleBuffer_proofs` | theorems about `SimpleBuffer` | TLAPS |
| `FrameHeader` | a frame's header as written and as read | `BufferedTransfer` |
| `FastXOR` | which key byte masks which byte | `BufferedTransfer` |
| `BufferedTransfer`, `MCBufferedTransfer` | one direction of a connection through both limited buffers, byte by byte | `BufferedTransfer.cfg` |
| `BufferedTransfer_proofs` | theorems about `BufferedTransfer`, `FrameHeader` and `FastXOR` | TLAPS |
| `InputLine` | the console thread and `getInputLine()` | extended by the next |
| `ChatServer`, `MCChatServer` | the chat server with its clients, sockets and console | `ChatServer.cfg` |
| `ChatServer_proofs` | theorems about `ChatServer` and `InputLine` | TLAPS |

Definitions named `X_Something`, marked "A mutant", are plausible bugs of `X`;
they take no part in any specification. `PROJECT.json` names for each property
the mutant that breaks it.

### The ring: `SPSC`, `SPSCStoreOrder`, `ByteFifo`

`write()` is three actions. `WriteBegin` loads the reader's index, asks
`capacity()` and clips the request; `WriteCopy` copies one byte; `WriteCommit`
stores `mWriteIndex`. `read()` is split the same way. That is as fine as the code's
accesses to shared memory: each side loads the index of the other exactly once per
call, and `memcpy` promises no order of its bytes, so `WriteCopy` takes any. The
branch for a copy that wraps is the two ranges of `CellAt`, and `Advance` is the
index each branch stores. A byte is its position in the stream, so that any loss,
repetition or tear shows in `delivered`.

`SPSCStoreOrder` adds a queue of the writer's stores that are not yet visible. With
`StoreOrder = "program"` they become visible in order (x86-64, and a compiler that
keeps the order); with `"any"` stores to different places may overtake each other,
which `memory_order_relaxed` permits.

### The connection: `WebSocketImpl`, `ClientServer`, `RemotePeer`

An application calls in while `pc` is `"idle"`. `poll()` walks through `"recv"`,
`"send"` and `"dispatch"`, and one socket call or one dispatched frame is a step,
because the other end and the network may run between any two. A handshake line,
a frame header, a piece of a payload are the *units* of the stream, and a socket
call moves one; since `poll()` repeats each call until it would block, every
split of the stream between polls occurs. A header includes its masking key;
masking and limited buffers are `BufferedTransfer`'s subject. `Window` is what a socket accepts before it would block.

| Code | Actions |
|---|---|
| client constructor (168-197) | the request in `Init` |
| `processConnection` (807-919) | `ConnectTimeout`, `LongLine`, `SwallowFrame`, `AcceptRequest`, `AcceptStatus`, `RefuseLine`, `ServerLine`, `ClientLine` |
| `poll`, receive loop (280-311) | `PollBegin`, `Receive`, `ReceiveWouldBlock`, `ReceiveEnd` |
| `poll`, send loop (312-341) | `SendSome`, `SendLost`, `SendError`, `SendWouldBlock`, `SendDone` |
| `_dispatchBinary` (348-489) | `DispatchMessage`, `DispatchFragment`, `DispatchPing`, `DispatchPong`, `DispatchClose`, `DispatchDone` |
| `sendText`, `sendBinary`, `sendPing`, `close` | `Send`, `SendPing`, `Close` |
| destructor (205-240) | `Delete`, then polls without callback, then `DeletedClosed` or `DeletedSlowRound` |

A callback may queue a message or close before it returns (`Reaction`). The
socket blocks until the handshake ends (`nonblocking`). That is so on Linux: on Windows a socket
from `accept()` takes over from the listening one that it does not block (`wsocket.cpp:251, 311`),
so a server's `poll()` could go past `recv()` after a `close()` during the handshake. What is
checked and proved of `OnlyFramesDispatched` holds for servers on Linux and for clients. A message that was sent
and the message that is delivered are compared with their type and every piece.

`RemotePeer` replaces the server by one that does what RFC 6455 allows: fragments,
empty ones too, pings between them, a close frame, an end at any moment; it may
refuse the handshake, send a line that is too long, or never read. Its `Init` also has the failed
`connect()`, after which `create()` deletes the object it has just made. Its answer may have six
lines, as many as the client counts, or fewer, as most servers send: the client then takes every
byte up to a newline for the lines it still waits for, which `SwallowFrame` models frame by frame,
and `remote.short` says that the server is one of those. (A newline amid a frame is left out: the
client would go on inside the frame.)

`ClientServer` is shown to implement `MessageChannel`: the state of an end is
`mReadyState`, what it accepted is `sent`, what it was given is `delivered`. A step
of `poll()` that dispatches a message and whose callback answers or closes is one
step of the channel.

### The buffers: `GrowingBuffer`, `SimpleBuffer`, `BufferedTransfer`

`GrowingBuffer` has every operation of `SimpleBufferImpl` as a function from a buffer
to the next one: memory, start, end, size and limit, arithmetic modulo `Modulus`.
`growBuffer` is `Grown`, built of `Compacted` and `Enlarged`; `memcpy` on overlapping memory
copies in an order that is a parameter. `SimpleBuffer` calls them in any sequence.

`BufferedTransfer` puts two such buffers, `FrameHeader` and `FastXOR` together:
`SendData` adds header and payload and masks the payload where it lies, `SendSome`,
`Receive` and `ReceiveEnd` are the two loops of `poll()`, `Dispatch` decodes a header,
takes the mask off in place and consumes the frame. `addBuffer()` may refuse either
part, which `sendData()` does not look at; the history variable `cut` says so. What
messages hold is a parameter, `Payload(m, n)`: the run counts bytes up
(`CountedPayload`), the proofs take any.

### The shared memory socket: `SharedMemorySocket`

One action is one access of a starting process to what both share: making or
opening a file, the header of a ring, its indexes, its sequence number. The rings
themselves are sequences, as `SPSC` shows. `StopServer` and `StopClient` are the end of a
process, orderly or not, at any of these steps. `MayCreate` is the rule of Windows that
keeps a file in view from being made anew. A file is made, filled with zeros, opened again and
mapped (`MemoryMap.cpp:54-112`) in one step, `CreateFile`: a client that opens it in between finds no valid
header, as it does right after. A client with a null header counts nobody in (`Count`). `Held` is all that came into a file since it was
last cleared, read or not, and `Own` the places of one process's bytes in it. `StartClient` lets one client process run at
a time, since `SPSC.h:11` allows one writer.

### The chat server: `ChatServer`, `InputLine`

`pc` is the place in `run()`: `Accept`/`AcceptNone`, `InputNone` or `InputCopy` and
`InputTake`, `Drop`, then one `Poll...` action for each client in turn. Connections are
taken message by message, as `ClientServer` justifies: `PollOpen` receives all that
arrived, keeps the last text that is short enough (`Kept`, `NewMessage`) and broadcasts
it. The network takes all that waits for a client, or, of one that reads slowly, any number of
messages (`Taken`); a message sent in part waits like the rest. `Without` is the vector, or a stream, without what is dropped. Descriptors are what is detailed: `owner` says which connection a number stands
for, `CloseSocket` frees it, `Accept` takes the lowest free one. The destructor is
`Exit`, `DeleteClient` or `DeleteSlow`, `Ended`; deleting a connection queues its close frame
behind what waits (`Farewell`). A client's "bye" is a text like any other (`Send`), which
`SendClose` follows. The console thread's steps are `CheckFlag` and `Fgets`; a step of `Fgets` is
one return of `fgets()`, so a line of 512 characters or more comes in pieces
(`InputLine.cpp:29`), and an empty line is a line, which the server sends on.

## 3. What the runs show

| Run | States | Shows |
|---|---|---|
| `SPSC.cfg` | 14 thousand | all interleavings on 6 cells and 9 bytes: exact delivery, no shared cell, exact size, `ByteFifo`, everything arrives |
| `SPSCStoreOrder.cfg` | 3 thousand | still exact when stores are late but ordered; each side's view errs to the safe side |
| `ClientServer.cfg` | 830 thousand | messages, pings and echoed messages both ways: in order, none lost, whole frames, each ping answered once |
| `ClientServer_close.cfg` | 67 thousand | closing at any moment by anyone, refusals and timeouts too: `MessageChannel` is implemented, close frame last, no handshake line dispatched; with both ends polled, the handshake and closing end, messages arrive, and an end that is open notices that the other is gone |
| `RemotePeer.cfg` | 840 thousand | a server that fragments, pings, closes or hangs up, and answers in six lines or fewer: the handshake ends at the right byte unless the answer is short, reassembly, fragments kept apart from control frames, pongs, and the server's close frame is answered |
| `SimpleBuffer.cfg` | 330 thousand | locations in bounds, content retained, refusals only near the limit |
| `BufferedTransfer.cfg` | 57 thousand | payloads arrive unmasked and in order through buffers that grow and move; the receiver stalls only on a frame near the limit; all others arrive |
| `SharedMemorySocket.cfg` | 300 thousand | starts, ends and crashes at every step: what a running process sent is kept, a server reads nothing of earlier runs, announces a client only if one came, and does find it |
| `ChatServer.cfg` | 1.3 million | clients that come, talk, leave, crash and do not read: one order of messages for all, descriptors never mixed up, a message is dropped only if a later one is echoed, console lines once and in order; the last message is echoed; "bye" ends the server |

Runs that show the code breaking what it says (details under "findings"):

| Run | Shows |
|---|---|
| `TestSharedMemory.cfg` | with exactly `capacity()` bytes to write the line end is cut |
| `ClientServer_last_message.cfg` | messages read together with the end of the stream are never dispatched |
| `RemotePeer_delete.cfg` | deleting a client that could not connect never ends |

More deviations are in the models and have no run of their own. Where a property is named
that says what the code does not keep, TLC finds it violated when it is added to the
cfg of its module:

* `PollReturns` (`ClientServer_close.cfg`): "this 'poll' call is non-blocking" (`easywsclient.h:52`),
  but after `close()` during the handshake it enters `recv()` on a socket that blocks until the
  handshake ends, and waits for ever when nothing comes. Since it may (`BlockedInReceive`),
  `CloseCompletes` is about connections past the handshake.
* `MessagesReassembled` (`RemotePeer.cfg`): of a "websockets compatible client" (the repository's `README.md:3`), but
  the first frames of a server that answers in fewer than six lines are read into the
  handshake and lost (`SwallowFrame`).
* `EachIsEchoed` (`ChatServer.cfg`): "If we have received a message from a client, then we echo
  that message back to all currently connected clients" (`TestServer.cpp:180`), but of the messages
  that arrive in one `poll()` only the last is echoed (line 67). What is kept of the promise is
  `DroppedOnlyIfSuperseded` and `LastIsEchoed`.
* `EveryClientIsFound` (`SharedMemorySocket.cfg`): a client that comes while the server writes a
  ring's header (`early`) may be cleared away by `init()` (`SPSC.h:50`) and never be announced; it may
  lose the bytes it sent as well. `KeptWhileRunning` and `ClientIsFound` leave it out.
* With `StoreOrder = "any"`, the order that the ring's relaxed stores allow,
  `InOrderExactlyOnce` fails; the mutant `MayPublish_Any` is that case.
* `DispatchMessage` takes the type of a fragmented message from its last frame
  (`easywsclient.cpp:451`), so fragmented text is reported as binary and `Reassembled`
  compares payloads only.
* Growth is refused when twice the allocation and the request exceed the maximum
  (`NewMaxLen`; `SimpleBuffer.cpp:117-125`), far below the maximum that
  `SimpleBuffer.h:27` names.
* `CopyOrders` containing `"descending"` breaks `RetainsContent`, because
  `SimpleBuffer.cpp:108` moves overlapping memory with `memcpy`. The run takes the
  ascending order, the one that current x86-64 C libraries have for a copy to a
  lower address; the C++ standard gives no such promise.
* `shrinkBuffer()` loses the content when the start had moved (`misplaced`).

### Bounds

* Ring: 6 cells, one more than two copies of two bytes and the two bytes the code
  keeps free need; 9 bytes, so that both indexes wrap. The proofs have no bound.
* `MaxPending = 5`: more stores than a call can queue on 5 cells, so calls overlap.
* Connection: `Window` 2 is below the length of a frame with its payload, so a
  frame is always split; two messages each way show order, one where only closing
  matters; payloads of 0, 1 and 2 pieces, where 0 is the empty message and 2 one
  that can be cut inside. `MaxMessages` and `MaxPings` bound what applications send,
  nothing else is bounded in `ClientServer`.
* `MaxFrames = 3`: a fragment, a ping, a last fragment. `RemotePeer.cfg` has
  `MaxMessages = 0`: there the client only answers what the server sends. The
  answers are one of six lines, one of five, one that is refused and one with a line too long.
* Buffer: default 2, maximum 10, requests 1 and 3: doubling suffices for one and
  not for the other, compaction both with and without overlap, the limit is
  reached. `MaxAdded = 9` is above the 8 bytes that doubling gets to, so that
  consumption is needed. The proofs have no bound.
* `BufferedTransfer`: default 6 and maximum 24 (two doublings); bytes have 128
  values and lengths from 9 on need two bytes, so messages of 8 and 15 bytes have
  headers of both lengths, at changing addresses; 15 makes a frame of 23
  bytes, beyond what the receiver's limit leaves for a read of `MaxRead` 3. Three messages
  fill the transmit buffer, so that one is cut.
* `SharedMemorySocket`: two starts of the server, so that the second meets the
  first one's files; two clients, one after the other, so that the second meets the first
  one's ring; rings of 2 bytes and 2 bytes from each process.
* `ChatServer`: two clients and two descriptors are enough for a number to be given
  out again while its old connection waits to be deleted; one of them talks, with
  three messages of which the second is too long, the other is slow; the console
  gives an empty line and "bye". A client connects once, and once "bye" was read clients
  connect and talk no more, though they may still leave.

### Fairness

* Ring: weak fairness of each side, a thread or process of its own that loops.
* Connection: weak fairness of `PollStep` per end, since both applications call
  `poll()` in a loop (`TestClient.cpp:55-67`, `TestServer.cpp:125-194`), the
  destructor too. Strong fairness of `Receive` and `ReceiveEnd` is TCP: a socket
  polled for ever does not answer "would block" for ever while something is on
  its way. Nothing is assumed of `ConnectTimeout` and `DeletedSlowRound`, which need
  a delay nobody guarantees, of applications' calls, or of the foreign server,
  except in `RemotePeer` that one which reads keeps reading.
* `BufferedTransfer`: weak fairness of the steps of the two `poll()` loops.
* `SharedMemorySocket`: weak fairness of `PollServer`, which the server's loop calls
  (`TestServer.cpp:129`). Processes need not start, end, send or receive.
* `ChatServer`: weak fairness of `ServerStep` and of `ConsoleStep`, two threads that run.
  Nothing is assumed of clients, of the user who types, of `PollTimeout` (within
  the fair `ServerStep`, but never the only choice), nor of `DeleteSlow`, which needs
  a client that reads at last; `ByeEnds` therefore allows a server that waits in the
  destructor of a connection (`Waits`).

`Finished` steps stand for the end of a behaviour, so that deadlock checking stays
on in every run but `BufferedTransfer.cfg`, which has CHECK_DEADLOCK FALSE: there a
behaviour stops when all messages have arrived, where a frame was cut, since the
stream has no structure behind it, and where the receive buffer stalls.

## 4. What is proved

`SPSC_proofs` proves, for every `mCapacity` above 0 and every `StreamLength`
(`CapacityAssumption`, `StreamAssumption`):

* `TypeCorrect`: `Spec => []TypeOK`
* `SizeCorrect`: `Spec => []SizeIsExact`
* `DeliveryCorrect`: `Spec => []InOrderExactlyOnce`
* `RaceFree`: `Spec => []NoSharedCell`
* `Refinement`: `Spec => ImplementsFifo`

None of the invariants is inductive. `IInv` adds `WaitingBytes` (the cells between the indexes
hold the stream's next bytes), `WriterInv` (a running `write()` has room for its
bytes behind the waiting ones, at least one cell stays free, and what it has copied
is right) and `ReaderInv` (a running `read()` has its bytes, and what it
has copied is right). `InitInv` and one lemma per action give `NextInv`, and from it
`InvCorrect`. The arithmetic is in lemmas about `CellAt`, `Advance` and `CalcSize`: copies shorter
than the ring touch distinct cells, and moving an index renumbers the cells behind
it. `RaceFree` follows because the writer's cells are `CellAt(mReadIndex, Size + i)` and
the reader's are `CellAt(mReadIndex, j)` with `j < Size`. For the refinement, in a good state the abstract queue is
a run of consecutive numbers, and the two commits append to it and
cut it; every other step leaves it alone.

`SimpleBuffer_proofs` proves, for every buffer size, limit, set of requests and order
of calls whose doubled sizes do not wrap (`SizeAssumption`, `ModulusAssumption`):

* `TypeCorrect` (`TypeOK`, which also keeps every allocation within `mMaxGrowSize`; it is proved
  and no run repeats it)
* `LocationsInBounds` (`InBounds`), `RefusalsNearLimit` (`RefusedOnlyNearLimit`)
* `ContentRetained`: `RetainsContent`, if `memcpy` copies upwards (`CopyOrders`)

The inductive invariant `IInv` is `WellFormed` (ordered locations inside an allocation that may
be larger than `mMaxLen`), the type of the rest, and, for ascending copies,
that the waiting bytes are the last ones added (`Holds`). One lemma per function of
`GrowingBuffer` says what it keeps (`CompactedKeeps`, `EnlargedKeeps`, `PreparedKeeps`, ...), one
per action carries `IInv` over a step. Retention needs the bounds, since a location
outside the allocation would have no content to keep.

`SPSCStoreOrder_proofs`, for every capacity, stream and bound `MaxPending`, if a thread's
stores become visible in their order (`StoreOrder = "program"`; without it they do not
hold, as section 3 says):

* `InOrderCorrect`: `Spec => []InOrderExactlyOnce`
* `ViewsCorrect`: `Spec => []ViewsAreConservative`

Here the invariant has to say what is still on its way. `IndexInv` puts the four views of
the indexes in their order around the ring: what the writer knows of the reader, the
reader's own, what the reader knows of the writer, the writer's own. `StoresFit` says
of the pending stores that a byte goes to its place behind everything the reader knows
of, and that an index announces only bytes whose stores are ahead of it in the queue;
`MemoryFits` that each byte accepted and not delivered is in its place or pending. The
store that `Publish` takes is the oldest, so an index reaches the reader after its bytes
(`FitsAnnounced`): that is the step which needs program order, and the only one.

`BufferedTransfer_proofs` begins with the two modules that `BufferedTransfer` rests on.

* `KeyPhase`: byte `i` of a block is masked with key byte `i % 4` at every address and
  length; `MaskingCancels`: so a mask put on at one address comes off at another. No
  assumption; the machine is little-endian.
* For every shape of byte that `HeaderAssumption` allows, the code's 256, 128 and 126 among
  them: `HeaderLength`, the header has the length the assertion at `easywsclient.cpp:679`
  expects; `RoundTrip`, the reader finds the length, the mask flag and, if there is one, the
  key that were written, for every length below 2^64; `FrameSizeExact`, the 32-bit `frameSize`
  is exact if the frame is shorter than 2^32 bytes.

Then, for every window, number, size and content of messages, read size and limit
(`TransferAssumption`):

* `PlainCorrect`: `Spec => []DeliveredPlain`
* `StallCorrect`: `Spec => []StalledOnlyByLargeFrame`

The assumption asks that the limit is the default size times a power of two, as 16 KB and
512 MB are (`StalledOnlyByLargeFrame` is false of a limit that doubling oversteps), that a
read fits the default size, that sizes do not wrap 32 bits, and that a payload byte has none of
the bits the key turns, which is how XOR is modelled.

Until a frame is cut, the invariant `IInv` says three things. Both buffers have their locations
in order within their memory (`WellFormed`). The receive buffer's size is the default times a
factor of the growth (`Graded`), so it can be doubled until it is at the limit, and
an empty one begins at its start. And the bytes in the receive buffer, on the wire and in the
transmit buffer, one behind the other, are the masked frames of the messages queued and not
delivered (`Flow`): no variable holds a frame as such, since the wire and two moving buffers cut it
where they like. `Flow` carries both theorems: with as many bytes as its first frame has,
the receive buffer has the header whose fields `RoundTrip` gives, so `Complete` holds exactly
then (`FlowHead`), the payload comes out as it went in (`DispatchBuffer`), and what is
left is the frames of the others (`FlowDispatch`). A refusal means that the buffer is at its
limit and still holds more than it less two reads (`ConfirmedIs`), all of one frame.

`RemotePeer_proofs`, for every set of answers of at most six lines (`RemotePeerAssumption`), every
window, reaction and bound:

* `HandshakeKeptApart`: `Spec => []HandshakeApart`
* `ReassemblyCorrect`: `Spec => []Reassembled`
* `PongsCorrect`: `Spec => []PongsEchoPings`

All three say what they say of servers whose answer the client counts rightly: of exactly six
lines, or with one at which the client gives up (`Counted`). Of a server that answers in fewer they
say nothing, and could not, since such a server's messages are lost (section 3). A
seventh line the client would take for a frame (`easywsclient.cpp:893`), which the assumption
excludes. The first theorem is what the other two rest on: it says that `SwallowFrame` is never
enabled for the servers they are about. `IInv` compares what the server has sent with the
place the client has reached in it: messages delivered, pieces of the unfinished one, pings
answered (`PlaceOf`). `Inbound` (by `Down`) says that what is in the receive buffer and on the
wire is a sequence of whole items, the first of which may still be lines of the handshake, and
that they lead from that place to the server's own end, one frame at a time; once the client
has hung up, there is a rest that it will not get. `Outbound` (by `Up`) says
that what goes the other way holds the pongs that follow those the server has read, in the
order of the pings, all of them up to that place unless the client is closing. `Got` says that
the messages delivered and `mReceivedData` are the server's, `Control` that no frame is
dispatched before the handshake is over. The number of pings answered is in no variable, so
the invariant quantifies over it.

`ClientServer_proofs`, for every `Window`, `MaxMessages`, `MaxPings`, set of lengths, kinds and
reactions and every URL that is not the empty line (`EndpointAssumption`,
`ClientServerAssumption`):

* `TypeCorrectness` (`TypeOK`), `DeliveryInOrder` (`DeliveredInOrder`), `NoMessageLost`
  (`NothingLost`), `FramesStayWhole` (`WholeFrames`), `CloseStaysLast` (`CloseIsLast`),
  `FramesDispatched` (`OnlyFramesDispatched`), `PingsAddUp` (`PingsAnswered`)
* `ConnectionImplementsChannel`: `Spec => ImplementsChannel`

The stream to an end is one sequence in three variables: what it has received, what is on
the wire, what its peer has queued. The inductive invariant `IInv` speaks of it:

* `Control` ties socket, ready state and place in `poll()` of an end together with what its
  peer sees of them; `Handshake` says how many lines each parser still has ahead of it, that
  they are the first ones, and that none is left in front of a dispatch;
* `StreamInv`: what is on its way is a sequence of frames, only the last of them cut
  (`Framed`), they carry the sender's messages from the first one that was not delivered
  (`Carries`), and all of them while both sockets are open (`Complete`). Once a socket is
  closed only what had left the other end counts (`Inbound`);
* `CloseInv`: a close frame has nothing behind it and its sender is closing;
* `DeliveredInOrder`, and `PingsAnswered` beside it.

Without `StreamInv` nothing says which message a frame stands for, without `Handshake` not
where the first frame begins, and without `Control` a closed end could still be sending.
The 27 actions of an end fall into nine classes by what they do to the streams
(`StepClass`, `StepEffect`): queue, send, receive, lose, hang up, take a line, answer the
request, take a frame, nothing. The invariant is shown per class: `StreamStep`,
`HandshakeStep`, `CloseStep`, `PingStep`, each with a lemma for every class that can disturb
it. `ChannelStep` maps each step to one of the channel's or to none: a queued message to `Accept`,
a change of the ready state to `Advance`, a dispatched message to `Deliver`, with what its callback
does, and everything else to a stutter. The first part of the module has what this needs about
sequences and about counting frames (`Frames` is a cardinality, so concatenation, cutting
and taking off are lemmas about finite sets).

`ChatServer_proofs`, for every set of clients and descriptors, every number of messages and
every script of lines (`ChatAssumption`, `ScriptAssumption`). `Inductive` proves the
invariant `LineInv`, `SocketInv`, `OrderInv`, `EchoInv`:

* `LinesCorrect`: `Spec => []LinesInOrder`. `LineInv` ties the flag to the count of lines:
  while it is up, exactly one line is typed and not taken, and it is what the buffer
  holds; the thread fills the buffer only while it is down.
* `DescriptorsCorrect`: `Spec => []OwnDescriptor`. `SocketInv` adds that a connection waits
  once and has no descriptor while it does, so `accept()` gives it only one; `Held` in
  `OrderInv`, that whoever has a socket is in the vector until the server has ended.
* `OneOrderForAll`: `Spec => []SameOrderForAll`. What a client was given (`Given`) must be the log
  since it was added, with a close frame behind it if it is closing (`Ordered`), and be
  complete unless the loop has yet to reach that client (`UpToDate`). A step does one of six
  things to a client: nothing, leave it out, send it a message, close it, add it,
  drop it (`Effect`), and each keeps the two (`EffectKeeps`).
* `EchoesCorrect`: `Spec => []DroppedOnlyIfSuperseded`. `EchoInv` says that the texts of a client
  that wait are those between its last dispatched and its last sent one.

`SharedMemorySocket_proofs`, for every set of clients, capacity and number of starts
(`SocketAssumption`):

* `ServerReadsThisRunCorrect`: `Spec => []ServerReadsThisRun`
* `FoundIsRealCorrect`: `Spec => []FoundIsReal`
* `KeptWhileRunningCorrect`: `Spec => []KeptWhileRunning`

The first needs to know why nobody of an earlier run is in the ring: `ClientInv` (a
running client has in view what it mapped, and maps before it uses), `ServerInv`
(a server past its checks has both files, and whoever has the clients' file in view and
is ready was counted in this run, since `MayCreate` demanded that nobody had it),
`RingInv` (once the indexes are cleared, the ring holds bytes of such clients only).
`FoundInv` says the same of the sequence number. The third adds `KeepInv`: the indexes are cleared
only while nobody who is not `early` has the header (`HeaderInv`), who is not ready has sent nothing
(`SentInv`), and the bytes of a running process in `Held` are numbered from 1 to what
it has sent, in order. Sending appends to `Held`, receiving leaves it as it is.

### What is only model-checked

Every invariant of a passing run is proved, and so are the two refinements. There remain:

* The liveness properties (`EverythingDelivered`, `MessageArrives`, `HandshakeEnds`,
  `LossIsNoticed`, `CloseCompletes`, `CloseAnswered`, `FramesArrive`, `LastIsEchoed`, `ByeEnds`, `ClientIsFound`):
  TLAPS proves neither liveness under fairness nor `ENABLED`.
* What a recursive definition computes for every input. The library's induction theorems have
  an operator as parameter, which the provers here cannot instantiate. `Without` is
  defined by a recursive function, and what the proofs need of it follows from the least index at
  which it would fail (`LeastOfNats`); two properties are stated with sets of indexes and not
  with a filtered sequence for the same reason.

## 5. Not modelled, and why

* `SPSCStoreOrder` delays stores; loads are in order. The writer's loads precede its
  stores by data dependence, the reader's do not.
* A handshake line received in part: it is the same as one not received, except
  for its length, and that is `LongLine`.
* The fragment buffer at its limit, and growth refused in the middle of a handshake:
  `BufferedTransfer` has the transmit and receive buffers of an open connection.
* Frames longer than 2^32 bytes, which only a foreign peer could announce.
* Creating and binding sockets, name resolution (a failed `getaddrinfo()` is taken for
  descriptor 1, `wsocket.cpp:282`): system calls with one outcome each.
* The URL parser, the proxy build, log files, the playback socket, `wplatform`:
  data or wrappers without protocol.
* `MemoryMap` on Linux opens and maps read-only whatever it is asked for
  (lines 172-178), so the shared memory socket is for Windows as the code stands,
  and that is what `SharedMemorySocket` takes.
* Two clients of the shared memory socket at a time: both would write one ring, which
  `SPSC.h:11` forbids and nothing prevents. The server's use of the connection object
  that its caller has released (`socketsharedmemory.cpp:74`) is undefined.
* Signals: a `send()` to a closed connection raises `SIGPIPE`, which the code does
  not handle; the models take the error return.
* A chat client that connects and sends nothing: the server waits in `recv()` for it
  and serves nobody (`TestServer.cpp:184`), so nothing about the others holds.
* The deleted `InputLineImpl` that a detached thread may still write to: undefined.
* The chat client's own console and printing.

## 6. Plan

Done: the ring with its proofs, with late stores and over shared memory; the connection,
the channel it implements and the proof of that; the buffers, framing and masking with
theirs; an RFC 6455 server against the client, with proofs; the chat server with console and
sockets and the proofs of its safety properties.

What would come next:

1. The fragment buffer's limit in `BufferedTransfer`.
2. Two shared memory clients at a time, with a ring that has two writers.
3. `InputLine` as a component with a specification of its own, for the chat client too.
