--------------------------- MODULE SPSCStoreOrder ---------------------------
(***************************************************************************)
(* The ring of SPSC.h on a memory where a store is not at once visible to  *)
(* the other side.  write() copies with plain stores and publishes the     *)
(* index with memory_order_relaxed (SPSC.h:131, 149), read() gives space   *)
(* back the same way (87, 102), so nothing orders a copy before the index  *)
(* that announces it except the machine:                                   *)
(*   StoreOrder = "program"  a thread's stores become visible in program   *)
(*                order, as on the x86-64 targets of build_win64.bat and   *)
(*                build_linux64.sh when the compiler keeps their order;    *)
(*   StoreOrder = "any"      stores to different locations become visible  *)
(*                in any order, which a relaxed store allows.              *)
(* The writer loads shared memory only once per call, at its start, so a   *)
(* whole write() is one step here: it queues its stores, and Publish lets  *)
(* them become visible one at a time between the reader's loads.           *)
(***************************************************************************)
EXTENDS SPSCIndex, Sequences

CONSTANTS
  StreamLength,  \* bytes the writer's user has to send
  StoreOrder,    \* see above
  MaxPending     \* bound: stores of the writer not yet visible

ASSUME StoreOrderAssumption ==
  /\ StreamLength \in Nat
  /\ StoreOrder \in {"program", "any"}
  /\ MaxPending \in Nat

VARIABLES
  mBaseMemory,   \* the ring as the reader sees it
  mWriteIndex,   \* the header fields as the other side sees them
  mReadIndex,
  wIndex,        \* mWriteIndex as the writer, who stores it, sees it
  wPending,      \* the writer's stores that are not visible yet, oldest first
  sent,          \* bytes write() has accepted
  rIndex,        \* mReadIndex as the reader, who stores it, sees it
  rPending,      \* the reader's stores to mReadIndex not visible yet
  rLen, rTodo, dest,   \* the read() in progress, as in SPSC.tla
  delivered

writerVars == <<wIndex, wPending, sent>>
readerVars == <<rIndex, rPending, rLen, rTodo, dest, delivered>>
vars == <<mBaseMemory, mWriteIndex, mReadIndex, wIndex, wPending, sent,
          rIndex, rPending, rLen, rTodo, dest, delivered>>

IndexField == -1    \* where a store to mWriteIndex goes; others go to a cell

Init ==
  /\ mBaseMemory = [c \in Cell |-> 0]
  /\ mWriteIndex = 0 /\ mReadIndex = 0
  /\ wIndex = 0 /\ wPending = <<>> /\ sent = 0
  /\ rIndex = 0 /\ rPending = <<>>
  /\ rLen = 0 /\ rTodo = {} /\ dest = [c \in Cell |-> 0]
  /\ delivered = <<>>

\* size() as the writer sees it: its own index against the reader's last
\* visible one; and as the reader sees it.
WriterSize == CalcSize(mReadIndex, wIndex)
ReaderSize == CalcSize(rIndex, mWriteIndex)
-----------------------------------------------------------------------------
\* The stores of a call that accepts len bytes: its memcpy, then the index.
StoresOf(len) ==
  [k \in 1 .. len |-> [loc |-> CellAt(wIndex, k - 1), val |-> sent + k]]
    \o <<[loc |-> IndexField, val |-> Advance(wIndex, len)]>>

\* write() called with n bytes.
Write(n) ==
  /\ n \in 1 .. (StreamLength - sent)
  /\ Room(WriterSize) # 0
  /\ LET len == Clip(n, Room(WriterSize) - 1)
     IN  /\ Len(wPending) + len + 1 <= MaxPending
         /\ wPending' = wPending \o StoresOf(len)
         /\ wIndex' = Advance(wIndex, len)
         /\ sent' = sent + len
  /\ UNCHANGED <<mBaseMemory, mWriteIndex, mReadIndex, readerVars>>

\* A mutant: no order at all between the copy and the index.
MayPublish_Any(i) == i \in 1 .. Len(wPending)

\* Stores to one location never overtake each other; others may not either
\* when the machine keeps program order.
MayPublish(i) ==
  /\ i \in 1 .. Len(wPending)
  /\ StoreOrder = "program" => i = 1
  /\ \A j \in 1 .. (i - 1) : wPending[j].loc # wPending[i].loc

\* The i-th pending store becomes visible to the reader.
Publish(i) ==
  /\ MayPublish(i)
  /\ LET store == wPending[i]
     IN  IF store.loc = IndexField
         THEN mWriteIndex' = store.val /\ UNCHANGED mBaseMemory
         ELSE /\ mBaseMemory' = [mBaseMemory EXCEPT ![store.loc] = store.val]
              /\ UNCHANGED mWriteIndex
  /\ wPending' = [j \in 1 .. (Len(wPending) - 1) |->
                    IF j < i THEN wPending[j] ELSE wPending[j + 1]]
  /\ UNCHANGED <<mReadIndex, wIndex, sent, readerVars>>
-----------------------------------------------------------------------------
Reading == rLen # 0     \* inside read()

ReadBegin(maxLen) ==
  /\ ~Reading
  /\ rLen' = Clip(maxLen, ReaderSize)
  /\ rLen' # 0
  /\ rTodo' = 0 .. (rLen' - 1)
  /\ UNCHANGED <<mBaseMemory, mWriteIndex, mReadIndex, writerVars,
                 rIndex, rPending, dest, delivered>>

ReadCopy(k) ==
  /\ k \in rTodo
  /\ dest' = [dest EXCEPT ![k] = mBaseMemory[CellAt(rIndex, k)]]
  /\ rTodo' = rTodo \ {k}
  /\ UNCHANGED <<mBaseMemory, mWriteIndex, mReadIndex, writerVars,
                 rIndex, rPending, rLen, delivered>>

\* A mutant: the writer sees the space given back before the copy is made.
ReadCommit_Early ==
  /\ Reading
  /\ rIndex' = Advance(rIndex, rLen)
  /\ rPending' = Append(rPending, rIndex')
  /\ delivered' = delivered \o [k \in 1 .. rLen |-> dest[k - 1]]
  /\ rLen' = 0 /\ rTodo' = {}
  /\ UNCHANGED <<mBaseMemory, mWriteIndex, mReadIndex, writerVars, dest>>

ReadCommit ==
  /\ Reading
  /\ rTodo = {}
  /\ rIndex' = Advance(rIndex, rLen)
  /\ rPending' = Append(rPending, rIndex')
  /\ delivered' = delivered \o [k \in 1 .. rLen |-> dest[k - 1]]
  /\ rLen' = 0
  /\ UNCHANGED <<mBaseMemory, mWriteIndex, mReadIndex, writerVars, rTodo, dest>>

\* The reader's oldest pending store to mReadIndex becomes visible.
PublishRead ==
  /\ rPending # <<>>
  /\ mReadIndex' = Head(rPending)
  /\ rPending' = Tail(rPending)
  /\ UNCHANGED <<mBaseMemory, mWriteIndex, writerVars,
                 rIndex, rLen, rTodo, dest, delivered>>
-----------------------------------------------------------------------------
Finished ==
  /\ Len(delivered) = StreamLength
  /\ UNCHANGED vars

Next ==
  \/ \E n \in 1 .. StreamLength : Write(n)
  \/ \E i \in 1 .. MaxPending : Publish(i)
  \/ \E maxLen \in 1 .. mCapacity : ReadBegin(maxLen)
  \/ \E k \in Cell : ReadCopy(k)
  \/ ReadCommit
  \/ PublishRead
  \/ Finished

Spec == Init /\ [][Next]_vars
-----------------------------------------------------------------------------
\* SPSC.h:10, "Lock-free thread safe communications between two threads
\* and/or processes using shared memory": the reader gets the bytes the
\* writer sent, each once and in order.
InOrderExactlyOnce == \A k \in 1 .. Len(delivered) : delivered[k] = k

\* However late stores become visible, each side errs on the safe side: the
\* writer never believes in more free space than there is, the reader never
\* in more bytes than were accepted (size() as SPSC.h:116 and 73 use it).
ViewsAreConservative ==
  /\ WriterSize >= sent - Len(delivered)
  /\ ReaderSize <= sent - Len(delivered)
=============================================================================
