-------------------------------- MODULE SPSC --------------------------------
(***************************************************************************)
(* spsc::SPSC (SPSC.h): the ring buffer through which one writer hands a   *)
(* stream of bytes to one reader, each in a thread or process of its own,  *)
(* without a lock.  The writer owns mWriteIndex, the reader owns           *)
(* mReadIndex, and either may run between any two accesses of the other    *)
(* to shared memory: an operation begins by loading the other side's       *)
(* index, then copies byte by byte, then stores its own index.             *)
(*                                                                         *)
(* A byte is named by its position in the stream the writer sends, 1, 2,   *)
(* ..., StreamLength, so a lost, repeated, torn or reordered byte shows.   *)
(* Accesses take effect in program order here.                             *)
(***************************************************************************)
EXTENDS SPSCIndex, Sequences

CONSTANT StreamLength   \* bytes the writer's user has to send

ASSUME StreamAssumption == StreamLength \in Nat

VARIABLES
  mBaseMemory,   \* the ring: for each cell the byte it holds, 0 if none yet
  mReadIndex,    \* header field, stored by the reader only
  mWriteIndex,   \* header field, stored by the writer only
  wpc,           \* where the writer is: "idle" or inside write()
  wLen,          \* dataLen of the write() in progress, after clipping
  wTodo,         \* offsets its memcpy has not copied yet
  sent,          \* bytes the completed calls of write() have accepted
  rpc,           \* where the reader is: "idle" or inside read()
  rLen,          \* len of the read() in progress
  rTodo,         \* offsets its memcpy has not copied yet
  dest,          \* the reader's destination buffer
  delivered      \* every byte the completed calls of read() have returned

writerVars == <<mWriteIndex, wpc, wLen, wTodo, sent>>
readerVars == <<mReadIndex, rpc, rLen, rTodo, dest, delivered>>
vars == <<mBaseMemory, mReadIndex, mWriteIndex, wpc, wLen, wTodo, sent,
          rpc, rLen, rTodo, dest, delivered>>

\* SPSC::size(), as either side evaluates it.
Size == CalcSize(mReadIndex, mWriteIndex)

\* init() with isServer set: both indexes start at the base.
Init ==
  /\ mBaseMemory = [c \in Cell |-> 0]
  /\ mReadIndex = 0 /\ mWriteIndex = 0
  /\ wpc = "idle" /\ wLen = 0 /\ wTodo = {} /\ sent = 0
  /\ rpc = "idle" /\ rLen = 0 /\ rTodo = {}
  /\ dest = [c \in Cell |-> 0]
  /\ delivered = <<>>
-----------------------------------------------------------------------------
(* write(): the writer asks capacity(), gives up when it is 0, keeps one   *)
(* more byte unused, and accepts as much of the n bytes as then fits.      *)

\* A mutant: only capacity()'s own reserve, and a ring that can be filled.
WriteBegin_NoReserve(n) ==
  /\ wpc = "idle"
  /\ n \in 1 .. (StreamLength - sent)
  /\ mCapacity - Size # 0
  /\ wLen' = Clip(n, mCapacity - Size)
  /\ wTodo' = 0 .. (wLen' - 1)
  /\ wpc' = "copy"
  /\ UNCHANGED <<mBaseMemory, mWriteIndex, sent, readerVars>>

WriteBegin(n) ==
  /\ wpc = "idle"
  /\ n \in 1 .. (StreamLength - sent)
  /\ Room(Size) # 0
  /\ wLen' = Clip(n, Room(Size) - 1)
  /\ wTodo' = 0 .. (wLen' - 1)
  /\ wpc' = "copy"
  /\ UNCHANGED <<mBaseMemory, mWriteIndex, sent, readerVars>>

\* memcpy promises no order among the bytes of a copy.
WriteCopy(k) ==
  /\ wpc = "copy"
  /\ k \in wTodo
  /\ mBaseMemory' = [mBaseMemory EXCEPT ![CellAt(mWriteIndex, k)] = sent + k + 1]
  /\ wTodo' = wTodo \ {k}
  /\ UNCHANGED <<mWriteIndex, wpc, wLen, sent, readerVars>>

\* A mutant: the index is stored before the copy has ended.
WriteCommit_Early ==
  /\ wpc = "copy"
  /\ mWriteIndex' = Advance(mWriteIndex, wLen)
  /\ sent' = sent + wLen
  /\ wpc' = "idle"
  /\ UNCHANGED <<mBaseMemory, wLen, wTodo, readerVars>>

\* The index is stored after the whole copy; the call returns wLen.
WriteCommit ==
  /\ wpc = "copy"
  /\ wTodo = {}
  /\ mWriteIndex' = Advance(mWriteIndex, wLen)
  /\ sent' = sent + wLen
  /\ wpc' = "idle"
  /\ UNCHANGED <<mBaseMemory, wLen, wTodo, readerVars>>
-----------------------------------------------------------------------------
(* read(): the reader takes at most maxLen of the bytes that are waiting.  *)

ReadBegin(maxLen) ==
  /\ rpc = "idle"
  /\ Clip(maxLen, Size) # 0
  /\ rLen' = Clip(maxLen, Size)
  /\ rTodo' = 0 .. (rLen' - 1)
  /\ rpc' = "copy"
  /\ UNCHANGED <<mBaseMemory, mReadIndex, dest, delivered, writerVars>>

ReadCopy(k) ==
  /\ rpc = "copy"
  /\ k \in rTodo
  /\ dest' = [dest EXCEPT ![k] = mBaseMemory[CellAt(mReadIndex, k)]]
  /\ rTodo' = rTodo \ {k}
  /\ UNCHANGED <<mBaseMemory, mReadIndex, rpc, rLen, delivered, writerVars>>

\* What the call returns: the first rLen bytes of the destination.
Block == [k \in 1 .. rLen |-> dest[k - 1]]

\* A mutant: the space is given back to the writer before it was copied.
ReadCommit_Early ==
  /\ rpc = "copy"
  /\ mReadIndex' = Advance(mReadIndex, rLen)
  /\ delivered' = delivered \o Block
  /\ rpc' = "idle"
  /\ UNCHANGED <<mBaseMemory, rLen, rTodo, dest, writerVars>>

ReadCommit ==
  /\ rpc = "copy"
  /\ rTodo = {}
  /\ mReadIndex' = Advance(mReadIndex, rLen)
  /\ delivered' = delivered \o Block
  /\ rpc' = "idle"
  /\ UNCHANGED <<mBaseMemory, rLen, rTodo, dest, writerVars>>
-----------------------------------------------------------------------------
\* Both loop: whoever uses the ring calls write() until everything is
\* accepted (poll()'s transmit loop) and read() until nothing waits.
Writer ==
  \/ \E n \in 1 .. StreamLength : WriteBegin(n)
  \/ \E k \in Cell : WriteCopy(k)
  \/ WriteCommit

Reader ==
  \/ \E maxLen \in 1 .. mCapacity : ReadBegin(maxLen)
  \/ \E k \in Cell : ReadCopy(k)
  \/ ReadCommit

\* The stream has been handed over; nothing is left to do.
Finished ==
  /\ Len(delivered) = StreamLength
  /\ wpc = "idle" /\ rpc = "idle"
  /\ UNCHANGED vars

Next == Writer \/ Reader \/ Finished

Spec == Init /\ [][Next]_vars

\* Each side is scheduled by its own thread or process and never waits.
FairSpec == Spec /\ WF_vars(Writer) /\ WF_vars(Reader)
-----------------------------------------------------------------------------
\* Type invariant of the ring, of the two calls in progress and of the
\* history of delivered bytes.
TypeOK ==
  /\ mBaseMemory \in [Cell -> Nat]
  /\ mReadIndex \in Index /\ mWriteIndex \in Index
  /\ wpc \in {"idle", "copy"} /\ rpc \in {"idle", "copy"}
  /\ wLen \in 0 .. mCapacity /\ rLen \in 0 .. mCapacity
  /\ wTodo \subseteq 0 .. (wLen - 1) /\ rTodo \subseteq 0 .. (rLen - 1)
  /\ sent \in 0 .. StreamLength
  /\ dest \in [Cell -> Nat]
  /\ delivered \in Seq(Nat)

\* The bytes read() returns are the bytes write() accepted, each once and in
\* order, whatever the two sides' steps interleave to (SPSC.h:9-10).
InOrderExactlyOnce == \A k \in 1 .. Len(delivered) : delivered[k] = k

\* The memcpy of write() and the memcpy of read() never touch the same cell,
\* so the copies need no lock (SPSC.h:86-100 against 130-147).
NoSharedCell ==
  \A i \in wTodo, j \in rTodo : CellAt(mWriteIndex, i) # CellAt(mReadIndex, j)

\* calcSize() on the two indexes always is the number of bytes accepted and
\* not delivered: a full ring is never taken for an empty one.
SizeIsExact == Size = sent - Len(delivered)

\* Every byte of the stream is delivered although the ring is smaller than
\* the stream, is never filled, and write() may accept nothing (SPSC.h:118).
EverythingDelivered == <>(Len(delivered) = StreamLength)
-----------------------------------------------------------------------------
\* The bytes between the two indexes, oldest first.
Waiting == [i \in 1 .. Size |-> mBaseMemory[CellAt(mReadIndex, i - 1)]]

Fifo == INSTANCE ByteFifo WITH queue <- Waiting, Limit <- mCapacity - 2

\* The ring implements the transport: write() takes effect when it stores
\* mWriteIndex and read() when it stores mReadIndex; the copies change
\* nothing that the other side may rely on (SPSC.h:131, 149 and 87, 102).
ImplementsFifo == Fifo!Spec
=============================================================================
