---------------------------- MODULE SimpleBuffer ----------------------------
(***************************************************************************)
(* One simplebuffer::SimpleBufferImpl (SimpleBuffer.cpp), the growing byte *)
(* queue behind the receive buffer, the transmit buffer and the fragment   *)
(* buffer of a WebSocket, under every sequence of calls.  Bytes are named  *)
(* by the order in which they were added, 1, 2, ...                        *)
(***************************************************************************)
EXTENDS GrowingBuffer

CONSTANTS
  DefaultLen,    \* the constructor's arguments ...
  MaxGrow,       \* ... ditto
  Sizes,         \* sizes the callers ask for
  ResetSizes,    \* sizes reset() is called with
  MaxAdded,      \* bound on the bytes added in a behaviour
  CopyOrders     \* the orders memcpy() may copy in: "ascending", "descending"

\* mMaxGrowSize, as the constructor sets it.
mMaxGrowSize == NewBuffer(DefaultLen, MaxGrow).grow

\* Callers ask for less than would make the doubled size wrap.
ASSUME SizeAssumption ==
  /\ DefaultLen \in Nat /\ MaxGrow \in Nat /\ MaxAdded \in Nat
  /\ Sizes \subseteq Nat
  /\ ResetSizes \subseteq 0 .. mMaxGrowSize
  /\ \A n \in Sizes : 2 * mMaxGrowSize + n < Modulus
  /\ 2 * mMaxGrowSize < Modulus
  /\ CopyOrders \subseteq {"ascending", "descending"}

VARIABLES
  buffer,        \* the object, as GrowingBuffer describes it
  mDefaultSize,
  misplaced,     \* history: shrinkBuffer() has moved the start off the content
  added          \* history: bytes added so far

vars == <<buffer, mDefaultSize, misplaced, added>>

Init ==
  /\ buffer = NewBuffer(DefaultLen, MaxGrow)
  /\ mDefaultSize = DefaultLen
  /\ misplaced = FALSE /\ added = 0

\* The next n bytes.
Fresh(n) == [i \in 1 .. n |-> added + i]
-----------------------------------------------------------------------------
\* addBuffer(data, n) with data to copy.
AddBuffer(n, order) ==
  /\ added + n <= MaxAdded
  /\ buffer' = Added(buffer, Fresh(n), n, order)
  /\ added' = IF Fits(Prepared(buffer, n, order), n) THEN added + n ELSE added
  /\ UNCHANGED <<mDefaultSize, misplaced>>

\* confirmCapacity(n), and nothing arrives to be put there, or it is refused.
ConfirmCapacity(n, order) ==
  /\ buffer' = Prepared(buffer, n, order)
  /\ UNCHANGED <<mDefaultSize, misplaced, added>>

\* A mutant: the bytes are taken over, the end stays where it was.
ReadInto_NoAdvance(n, k, order) ==
  LET p == Prepared(buffer, n, order)
  IN  /\ Fits(p, n) /\ added + k <= MaxAdded
      /\ buffer' = [Written(p, Fresh(k), k) EXCEPT !.end = p.end]
      /\ added' = added + k
      /\ UNCHANGED <<mDefaultSize, misplaced>>

\* confirmCapacity(n), the socket writes k bytes at the place it returned, and
\* addBuffer(nullptr, k) takes them over.  poll() makes no other call in between,
\* and addBuffer() finds the room there, so that it does not move the buffer.
ReadInto(n, k, order) ==
  LET p == Prepared(buffer, n, order)
  IN  /\ Fits(p, n) /\ added + k <= MaxAdded
      /\ buffer' = Written(p, Fresh(k), k)
      /\ added' = added + k
      /\ UNCHANGED <<mDefaultSize, misplaced>>

\* What shrinkBuffer() spoilt is forgotten when nothing is left of it.
StillMisplaced(b) == misplaced /\ Size(b) # 0

\* consume(n); every caller stays within getSize().
Consume(n) ==
  /\ n \in 1 .. Size(buffer)
  /\ buffer' = Consumed(buffer, n)
  /\ misplaced' = StillMisplaced(buffer')
  /\ UNCHANGED <<mDefaultSize, added>>

Clear ==
  /\ buffer' = Cleared(buffer)
  /\ misplaced' = FALSE
  /\ UNCHANGED <<mDefaultSize, added>>

Reset(size) ==
  /\ buffer' = ResetTo(buffer, size)
  /\ mDefaultSize' = size
  /\ misplaced' = FALSE
  /\ UNCHANGED added

\* shrinkBuffer().
ShrinkBuffer ==
  /\ buffer' = Shrunk(buffer, mDefaultSize)
  /\ misplaced' = (Size(buffer) # 0 /\ (misplaced \/ buffer.start # 0))
  /\ UNCHANGED <<mDefaultSize, added>>

Next ==
  \/ \E n \in Sizes, order \in CopyOrders : AddBuffer(n, order) \/ ConfirmCapacity(n, order)
  \/ \E n \in Sizes, order \in CopyOrders : \E k \in 1 .. n : ReadInto(n, k, order)
  \/ \E n \in 1 .. mMaxGrowSize : Consume(n)
  \/ Clear
  \/ \E size \in ResetSizes : Reset(size)
  \/ ShrinkBuffer

Spec == Init /\ [][Next]_vars
-----------------------------------------------------------------------------
\* Type invariant: bytes and locations are numbers, and no allocation is made
\* beyond mMaxGrowSize (SimpleBuffer.cpp:123).
TypeOK ==
  /\ \A i \in DOMAIN buffer.mem : buffer.mem[i] \in Nat
  /\ buffer.start \in Nat /\ buffer.end \in Nat
  /\ buffer.max \in 0 .. mMaxGrowSize /\ buffer.grow = mMaxGrowSize
  /\ mDefaultSize \in 0 .. mMaxGrowSize
  /\ misplaced \in BOOLEAN /\ added \in 0 .. MaxAdded

\* The locations stay ordered and inside the allocation, so that no copy of
\* addBuffer(), growBuffer() or a reader of getData() leaves it; also after
\* shrinkBuffer(), which keeps the larger allocation.
InBounds ==
  /\ buffer.start <= buffer.end /\ buffer.end <= buffer.max
  /\ 0 .. buffer.max - 1 \subseteq DOMAIN buffer.mem

\* getData() gives the bytes that were added and not consumed, in order,
\* whatever growing and compacting happened in between (SimpleBuffer.h:14,
\* SimpleBuffer.cpp:99-101), unless shrinkBuffer() was called on a buffer
\* whose start had moved (SimpleBuffer.cpp:196-203).
RetainsContent ==
  ~misplaced =>
    \A i \in 1 .. Size(buffer) : Content(buffer)[i] = added - Size(buffer) + i

\* Room is refused, so that a caller that ignores it loses data
\* (easywsclient.cpp:682-686), only when the content and twice the bytes asked
\* for are beyond half of what the limit leaves: growing doubles, so the upper
\* half may stay unused, and compaction needs the bytes in front
\* (SimpleBuffer.cpp:102-125).
RefusedOnlyNearLimit ==
  \A n \in Sizes, order \in CopyOrders :
    ~Fits(Prepared(buffer, n, order), n) => 2 * (Size(buffer) + 2 * n) + n > mMaxGrowSize
=============================================================================
