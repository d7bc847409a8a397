---------------------------- MODULE SPSC_proofs ----------------------------
(***************************************************************************)
(* Proofs about SPSC for every ring size and every stream length.  The     *)
(* index arithmetic comes first, then the inductive invariant.             *)
(***************************************************************************)
EXTENDS SPSC, SequenceTheorems, TLAPS

USE CapacityAssumption, StreamAssumption

-----------------------------------------------------------------------------
(* Index arithmetic.                                                       *)

\* A copy shorter than the ring stays inside it.
LEMMA CellAtInRing ==
  ASSUME NEW index \in Index, NEW k \in Cell
  PROVE  CellAt(index, k) \in Cell
BY DEF CellAt, Index, Cell

\* A copy shorter than the ring touches no cell twice.
LEMMA CellAtInjective ==
  ASSUME NEW index \in Index, NEW j \in Cell, NEW k \in Cell, j # k
  PROVE  CellAt(index, j) # CellAt(index, k)
BY DEF CellAt, Index, Cell

\* Moving an index renumbers the cells that follow it.
LEMMA CellAtAdvance ==
  ASSUME NEW index \in Index, NEW n \in Nat, NEW k \in Nat, n + k < mCapacity
  PROVE  CellAt(Advance(index, n), k) = CellAt(index, n + k)
BY DEF CellAt, Advance, Index

\* The writer's next cell is the first one behind the waiting bytes.
LEMMA CellBehindWaiting ==
  ASSUME NEW r \in Index, NEW w \in Index, NEW k \in Nat,
         CalcSize(r, w) + k < mCapacity
  PROVE  CellAt(w, k) = CellAt(r, CalcSize(r, w) + k)
BY DEF CellAt, CalcSize, Index

\* calcSize() counts the bytes between the indexes.
LEMMA CalcSizeNat ==
  ASSUME NEW r \in Index, NEW w \in Index
  PROVE  CalcSize(r, w) \in Nat
BY DEF CalcSize, Index

\* Storing mWriteIndex adds exactly the bytes of the call, if they fit.
LEMMA CalcSizeAfterWrite ==
  ASSUME NEW r \in Index, NEW w \in Index, NEW n \in Nat,
         CalcSize(r, w) + n < mCapacity
  PROVE  /\ Advance(w, n) \in Index
         /\ CalcSize(r, Advance(w, n)) = CalcSize(r, w) + n
BY DEF CalcSize, Advance, Index

\* Storing mReadIndex removes exactly the bytes of the call.
LEMMA CalcSizeAfterRead ==
  ASSUME NEW r \in Index, NEW w \in Index, NEW n \in Nat,
         CalcSize(r, w) < mCapacity, n <= CalcSize(r, w)
  PROVE  /\ Advance(r, n) \in Index
         /\ CalcSize(Advance(r, n), w) = CalcSize(r, w) - n
BY DEF CalcSize, Advance, Index
-----------------------------------------------------------------------------
(* The inductive invariant.  SizeIsExact and InOrderExactlyOnce speak of   *)
(* completed calls; what makes them inductive is what holds in the middle  *)
(* of a call: the space the writer reserved is still free, the bytes it    *)
(* has copied and the bytes that wait are the ones the stream says, and    *)
(* what the reader has copied so far is right.                             *)

\* Every waiting byte lies where its position in the stream puts it.
WaitingBytes ==
  \A i \in Cell : i < Size =>
    mBaseMemory[CellAt(mReadIndex, i)] = Len(delivered) + i + 1

\* The write() in progress still fits, and what it has copied is right.
WriterInv ==
  /\ Size < mCapacity
  /\ wpc = "idle" => wTodo = {}
  /\ wpc = "copy" =>
       /\ Size + wLen <= mCapacity - 2
       /\ sent + wLen <= StreamLength
       /\ \A k \in Cell : k < wLen /\ k \notin wTodo =>
            mBaseMemory[CellAt(mWriteIndex, k)] = sent + k + 1

\* The read() in progress still has its bytes, and what it has copied is
\* right.
ReaderInv ==
  /\ rpc = "idle" => rTodo = {}
  /\ rpc = "copy" =>
       /\ 1 <= rLen /\ rLen <= Size
       /\ \A k \in Cell : k < rLen /\ k \notin rTodo =>
            dest[k] = Len(delivered) + k + 1

IInv ==
  /\ TypeOK
  /\ SizeIsExact
  /\ InOrderExactlyOnce
  /\ WaitingBytes
  /\ WriterInv
  /\ ReaderInv
-----------------------------------------------------------------------------
(* The invariance proof.                                                   *)

\* init() establishes the invariant.
LEMMA InitInv == Init => IInv
BY DEF Init, IInv, TypeOK, SizeIsExact, InOrderExactlyOnce, WaitingBytes,
       WriterInv, ReaderInv, Size, CalcSize, Index, Cell

\* The indexes of a ring in a good state bound the bytes that wait.
LEMMA SizeType == TypeOK => Size \in Nat
BY CalcSizeNat DEF TypeOK, Size

\* write() reserves no more than what is free.
LEMMA WriteBeginInv ==
  ASSUME IInv, NEW n \in 1 .. StreamLength, WriteBegin(n)
  PROVE  IInv'
<1> USE DEF WriteBegin, readerVars
<1>1. Size \in Nat /\ Size' = Size
  BY SizeType DEF IInv, Size
<1>2. Room(Size) \in 1 .. (mCapacity - 1) /\ Room(Size) <= mCapacity - Size - 1
  BY <1>1 DEF Room, IInv, WriterInv
<1>3. wLen' \in Nat /\ wLen' <= n /\ wLen' < Room(Size)
  BY <1>2 DEF Clip
<1>4. n <= StreamLength - sent /\ sent \in Nat
  BY DEF IInv, TypeOK
<1>5. TypeOK'
  BY <1>2, <1>3 DEF IInv, TypeOK
<1>6. WriterInv'
  BY <1>1, <1>2, <1>3, <1>4 DEF WriterInv, Cell, IInv
<1> QED
  BY <1>1, <1>5, <1>6 DEF IInv, SizeIsExact, InOrderExactlyOnce, WaitingBytes, ReaderInv

\* A byte of write()'s copy goes behind the waiting bytes.
LEMMA WriteCopyInv ==
  ASSUME IInv, NEW k \in Cell, WriteCopy(k)
  PROVE  IInv'
<1> USE DEF WriteCopy, readerVars
<1>1. Size \in Nat /\ Size' = Size /\ sent \in Nat
  BY SizeType DEF IInv, Size, TypeOK
<1>2. mReadIndex \in Index /\ mWriteIndex \in Index
  BY DEF IInv, TypeOK
<1>3. k \in Nat /\ k < wLen /\ wLen \in Nat /\ Size + wLen < mCapacity
  BY <1>1 DEF IInv, TypeOK, WriterInv, Cell
<1>4. CellAt(mWriteIndex, k) \in Cell
  BY <1>2, CellAtInRing
<1>5. \A i \in Cell : i < Size => CellAt(mReadIndex, i) # CellAt(mWriteIndex, k)
  <2> SUFFICES ASSUME NEW i \in Cell, i < Size
               PROVE  CellAt(mReadIndex, i) # CellAt(mWriteIndex, k)
    OBVIOUS
  <2>1. CellAt(mWriteIndex, k) = CellAt(mReadIndex, Size + k)
    BY <1>1, <1>2, <1>3, CellBehindWaiting DEF Size
  <2>2. Size + k \in Cell /\ Size + k # i
    BY <1>1, <1>3 DEF Cell
  <2> QED
    BY <1>2, <2>1, <2>2, CellAtInjective
<1>6. \A j \in Cell : j # k => CellAt(mWriteIndex, j) # CellAt(mWriteIndex, k)
  BY <1>2, CellAtInjective
<1>7. \A i \in Cell : CellAt(mReadIndex, i) \in Cell /\ CellAt(mWriteIndex, i) \in Cell
  BY <1>2, CellAtInRing
<1>8. TypeOK'
  <2>1. mBaseMemory' \in [Cell -> Nat]
    BY <1>1, <1>3, <1>4 DEF IInv, TypeOK
  <2>2. wTodo' \subseteq 0 .. (wLen' - 1)
    BY DEF IInv, TypeOK
  <2> QED
    BY <2>1, <2>2 DEF IInv, TypeOK
<1>9. WaitingBytes'
  BY <1>1, <1>5, <1>7 DEF IInv, TypeOK, WaitingBytes
<1>10. WriterInv'
  BY <1>1, <1>4, <1>6, <1>7 DEF IInv, TypeOK, WriterInv
<1> QED
  BY <1>1, <1>8, <1>9, <1>10 DEF IInv, SizeIsExact, InOrderExactlyOnce, ReaderInv

\* Storing mWriteIndex turns what was copied into waiting bytes.
LEMMA WriteCommitInv ==
  ASSUME IInv, WriteCommit
  PROVE  IInv'
<1> USE DEF WriteCommit, readerVars
<1>1. Size \in Nat /\ sent \in Nat /\ wLen \in Nat
  BY SizeType DEF IInv, TypeOK
<1>2. mReadIndex \in Index /\ mWriteIndex \in Index
  BY DEF IInv, TypeOK
<1>3. Size + wLen < mCapacity /\ sent + wLen <= StreamLength
  BY <1>1 DEF IInv, WriterInv
<1>4. mWriteIndex' \in Index /\ Size' = Size + wLen
  BY <1>1, <1>2, <1>3, CalcSizeAfterWrite DEF Size
<1>5. TypeOK'
  BY <1>1, <1>3, <1>4 DEF IInv, TypeOK
<1>6. SizeIsExact'
  BY <1>1, <1>4 DEF IInv, TypeOK, SizeIsExact
<1>7. WaitingBytes'
  <2> SUFFICES ASSUME NEW i \in Cell, i < Size + wLen
               PROVE  mBaseMemory[CellAt(mReadIndex, i)] = Len(delivered) + i + 1
    BY <1>4 DEF WaitingBytes
  <2>1. CASE i < Size
    BY <2>1 DEF IInv, WaitingBytes
  <2>2. CASE i >= Size
    <3> DEFINE k == i - Size
    <3>1. k \in Cell /\ k \in Nat /\ k < wLen /\ Size + k = i /\ i < mCapacity
      BY <1>1, <2>2 DEF Cell
    <3>2. CellAt(mWriteIndex, k) = CellAt(mReadIndex, i)
      BY <1>2, <3>1, CellBehindWaiting DEF Size
    <3>3. mBaseMemory[CellAt(mWriteIndex, k)] = sent + k + 1
      BY <3>1 DEF IInv, WriterInv
    <3>4. sent = Len(delivered) + Size /\ Len(delivered) \in Nat /\ i \in Nat
      BY <1>1 DEF IInv, SizeIsExact, TypeOK, Cell
    <3> HIDE DEF k
    <3> QED
      BY <1>1, <3>1, <3>2, <3>3, <3>4
  <2> QED
    BY <1>1, <2>1, <2>2 DEF Cell
<1>8. WriterInv'
  BY <1>3, <1>4 DEF WriterInv
<1>9. ReaderInv'
  BY <1>1, <1>4 DEF IInv, TypeOK, ReaderInv
<1> QED
  BY <1>5, <1>6, <1>7, <1>8, <1>9 DEF IInv, InOrderExactlyOnce

\* read() takes no more than what waits.
LEMMA ReadBeginInv ==
  ASSUME IInv, NEW maxLen \in 1 .. mCapacity, ReadBegin(maxLen)
  PROVE  IInv'
<1> USE DEF ReadBegin, writerVars
<1>1. Size \in Nat /\ Size' = Size
  BY SizeType DEF IInv, Size
<1>2. rLen' \in 0 .. mCapacity /\ rLen' <= Size
  BY <1>1 DEF Clip
<1>3. TypeOK'
  BY <1>1, <1>2 DEF IInv, TypeOK
<1>4. ReaderInv'
  BY <1>1, <1>2 DEF ReaderInv, Cell
<1> QED
  BY <1>1, <1>3, <1>4 DEF IInv, SizeIsExact, InOrderExactlyOnce, WaitingBytes, WriterInv

\* A byte of read()'s copy is a waiting byte.
LEMMA ReadCopyInv ==
  ASSUME IInv, NEW k \in Cell, ReadCopy(k)
  PROVE  IInv'
<1> USE DEF ReadCopy, writerVars
<1>1. Size \in Nat /\ Size' = Size /\ k < rLen /\ rLen <= Size
  BY SizeType DEF IInv, Size, TypeOK, ReaderInv, Cell
<1>2. mBaseMemory[CellAt(mReadIndex, k)] = Len(delivered) + k + 1
  BY <1>1 DEF IInv, WaitingBytes, TypeOK, Cell
<1>3. mBaseMemory[CellAt(mReadIndex, k)] \in Nat
  BY CellAtInRing DEF IInv, TypeOK
<1>4. TypeOK'
  BY <1>3 DEF IInv, TypeOK
<1>5. ReaderInv'
  BY <1>1, <1>2 DEF IInv, TypeOK, ReaderInv
<1> QED
  BY <1>1, <1>4, <1>5 DEF IInv, SizeIsExact, InOrderExactlyOnce, WaitingBytes, WriterInv

\* Storing mReadIndex gives back exactly the cells that were copied.
LEMMA ReadCommitInv ==
  ASSUME IInv, ReadCommit
  PROVE  IInv'
<1> USE DEF ReadCommit, writerVars
<1>1. Size \in Nat /\ rLen \in Nat /\ rLen <= Size /\ Size < mCapacity
  BY SizeType DEF IInv, TypeOK, ReaderInv, WriterInv
<1>2. mReadIndex \in Index /\ mWriteIndex \in Index
  BY DEF IInv, TypeOK
<1>3. mReadIndex' \in Index /\ Size' = Size - rLen
  BY <1>1, <1>2, CalcSizeAfterRead DEF Size
<1>4. \A k \in 1 .. rLen : k - 1 \in Cell /\ dest[k - 1] = Len(delivered) + k
  BY <1>1 DEF IInv, TypeOK, ReaderInv, Cell
<1>5. Block \in Seq(Nat) /\ Len(Block) = rLen
      /\ \A k \in 1 .. rLen : Block[k] = Len(delivered) + k
  <2>1. Len(delivered) \in Nat
    BY DEF IInv, TypeOK
  <2>2. \A k \in 1 .. rLen : dest[k - 1] \in Nat
    BY <1>4 DEF IInv, TypeOK
  <2> QED
    BY <1>1, <1>4, <2>1, <2>2 DEF Block
<1>6. /\ delivered' \in Seq(Nat)
      /\ Len(delivered') = Len(delivered) + rLen
      /\ \A k \in 1 .. Len(delivered) : delivered'[k] = delivered[k]
      /\ \A k \in 1 .. rLen : delivered'[Len(delivered) + k] = Len(delivered) + k
  BY <1>1, <1>5 DEF IInv, TypeOK
<1>7. TypeOK'
  BY <1>1, <1>3, <1>6 DEF IInv, TypeOK
<1>8. SizeIsExact'
  BY <1>1, <1>3, <1>6 DEF IInv, TypeOK, SizeIsExact
<1>9. InOrderExactlyOnce'
  <2> SUFFICES ASSUME NEW k \in 1 .. Len(delivered')
               PROVE  delivered'[k] = k
    BY DEF InOrderExactlyOnce
  <2>1. CASE k <= Len(delivered)
    BY <1>6, <2>1 DEF IInv, TypeOK, InOrderExactlyOnce
  <2>2. CASE k > Len(delivered)
    <3>1. Len(delivered) \in Nat
      BY DEF IInv, TypeOK
    <3>2. k - Len(delivered) \in 1 .. rLen
      BY <1>1, <1>6, <2>2, <3>1
    <3> QED
      BY <1>6, <3>1, <3>2
  <2> QED
    BY <1>6, <2>1, <2>2 DEF IInv, TypeOK
<1>10. WaitingBytes'
  <2> SUFFICES ASSUME NEW i \in Cell, i < Size - rLen
               PROVE  mBaseMemory[CellAt(mReadIndex', i)] = Len(delivered) + rLen + i + 1
    BY <1>3, <1>6 DEF WaitingBytes
  <2>1. i \in Nat /\ rLen + i \in Cell /\ rLen + i < Size /\ Len(delivered) \in Nat
    BY <1>1 DEF Cell, IInv, TypeOK
  <2>2. CellAt(mReadIndex', i) = CellAt(mReadIndex, rLen + i)
    BY <1>1, <1>2, <2>1, CellAtAdvance
  <2>3. mBaseMemory[CellAt(mReadIndex, rLen + i)] = Len(delivered) + (rLen + i) + 1
    BY <2>1 DEF IInv, WaitingBytes
  <2> QED
    BY <1>1, <2>1, <2>2, <2>3
<1>11. WriterInv'
  BY <1>1, <1>3 DEF IInv, TypeOK, WriterInv
<1>12. ReaderInv'
  BY DEF IInv, ReaderInv
<1> QED
  BY <1>7, <1>8, <1>9, <1>10, <1>11, <1>12 DEF IInv

\* Every step of the two sides keeps the invariant.
LEMMA NextInv == IInv /\ [Next]_vars => IInv'
<1> SUFFICES ASSUME IInv, [Next]_vars PROVE IInv'
  OBVIOUS
<1>1. CASE UNCHANGED vars
  BY <1>1 DEF vars, IInv, TypeOK, SizeIsExact, InOrderExactlyOnce, WaitingBytes,
              WriterInv, ReaderInv, Size
<1>2. CASE Writer
  BY <1>2, WriteBeginInv, WriteCopyInv, WriteCommitInv DEF Writer
<1>3. CASE Reader
  BY <1>3, ReadBeginInv, ReadCopyInv, ReadCommitInv DEF Reader
<1> QED
  BY <1>1, <1>2, <1>3 DEF Next, Finished

\* The inductive invariant holds throughout.
LEMMA InvCorrect == Spec => []IInv
BY InitInv, NextInv, PTL DEF Spec
-----------------------------------------------------------------------------
(* The theorems.                                                           *)

\* The two sides never touch the same cell: the bytes the writer reserved lie
\* behind all that wait, and what the reader copies are the first of them.
LEMMA InvNoSharedCell == IInv => NoSharedCell
<1> SUFFICES ASSUME IInv, NEW i \in wTodo, NEW j \in rTodo
             PROVE  CellAt(mWriteIndex, i) # CellAt(mReadIndex, j)
  BY DEF NoSharedCell
<1>1. Size \in Nat /\ mReadIndex \in Index /\ mWriteIndex \in Index
  BY SizeType DEF IInv, TypeOK
<1>2. i \in Nat /\ i < wLen /\ wLen \in Nat /\ Size + wLen < mCapacity
  BY <1>1 DEF IInv, TypeOK, WriterInv
<1>3. j \in Nat /\ j < rLen /\ rLen \in Nat /\ rLen <= Size
  BY DEF IInv, TypeOK, ReaderInv
<1>4. CellAt(mWriteIndex, i) = CellAt(mReadIndex, Size + i)
  BY <1>1, <1>2, CellBehindWaiting DEF Size
<1>5. Size + i \in Cell /\ j \in Cell /\ Size + i # j
  BY <1>1, <1>2, <1>3 DEF Cell
<1> QED
  BY <1>1, <1>4, <1>5, CellAtInjective

\* The state of the ring and of both calls stays in its type.
THEOREM TypeCorrect == Spec => []TypeOK
BY InvCorrect, PTL DEF IInv

\* calcSize() is the number of bytes accepted and not delivered.
THEOREM SizeCorrect == Spec => []SizeIsExact
BY InvCorrect, PTL DEF IInv

\* read() returns what write() accepted, each byte once and in order.
THEOREM DeliveryCorrect == Spec => []InOrderExactlyOnce
BY InvCorrect, PTL DEF IInv

\* The lock-free copies of the two sides never meet.
THEOREM RaceFree == Spec => []NoSharedCell
BY InvCorrect, InvNoSharedCell, PTL
-----------------------------------------------------------------------------
(* The ring implements the byte transport.                                 *)

\* What the transport sees of a good state.
StreamWaits ==
  /\ Waiting = [i \in 1 .. Size |-> Len(delivered) + i]
  /\ Waiting \in Seq(Nat)
  /\ Len(Waiting) = Size
  /\ Size \in Nat /\ Size < mCapacity
  /\ Len(delivered) \in Nat
  /\ sent = Len(delivered) + Size

\* The bytes between the indexes are the stream's next ones.
LEMMA WaitingIsStream == IInv => StreamWaits
<1> SUFFICES ASSUME IInv PROVE StreamWaits
  OBVIOUS
<1>1. Size \in Nat /\ Size < mCapacity /\ Len(delivered) \in Nat
  BY SizeType DEF IInv, TypeOK, WriterInv
<1>2. ASSUME NEW i \in 1 .. Size
      PROVE  mBaseMemory[CellAt(mReadIndex, i - 1)] = Len(delivered) + i
  <2>1. i - 1 \in Cell /\ i - 1 < Size
    BY <1>1 DEF Cell
  <2>2. mBaseMemory[CellAt(mReadIndex, i - 1)] = Len(delivered) + (i - 1) + 1
    BY <2>1 DEF IInv, WaitingBytes
  <2> QED
    BY <1>1, <2>2
<1>3. Waiting = [i \in 1 .. Size |-> Len(delivered) + i]
  BY <1>2 DEF Waiting
<1> QED
  BY <1>1, <1>3 DEF IInv, TypeOK, SizeIsExact, StreamWaits

\* ... before a step and after it.
LEMMA WaitingIsStreamNext == IInv' => StreamWaits'
BY WaitingIsStream, PTL

\* The next n bytes appended to m consecutive ones are consecutive.
LEMMA StreamConcat ==
  ASSUME NEW a \in Nat, NEW m \in Nat, NEW n \in Nat
  PROVE  [i \in 1 .. m |-> a + i] \o [i \in 1 .. n |-> a + m + i]
           = [i \in 1 .. m + n |-> a + i]
<1> DEFINE s == [i \in 1 .. m |-> a + i]
           t == [i \in 1 .. n |-> a + m + i]
           u == [i \in 1 .. m + n |-> a + i]
<1>1. s \in Seq(Nat) /\ Len(s) = m /\ t \in Seq(Nat) /\ Len(t) = n
  OBVIOUS
<1>2. u \in Seq(Nat) /\ Len(u) = m + n
  OBVIOUS
<1>3. \A i \in 1 .. m + n : u[i] = a + i
  OBVIOUS
<1>4. \A i \in 1 .. m + n : (s \o t)[i] = a + i
  BY <1>1, ConcatProperties
<1>5. s \o t \in Seq(Nat) /\ Len(s \o t) = m + n
  BY <1>1, ConcatProperties
<1> HIDE DEF s, t, u
<1>6. s \o t = u
  BY <1>2, <1>3, <1>4, <1>5, SeqEqual
<1> QED
  BY <1>6 DEF s, t, u

\* What is left of m consecutive bytes without the first n.
LEMMA StreamTail ==
  ASSUME NEW a \in Nat, NEW m \in Nat, NEW n \in Nat, n <= m
  PROVE  SubSeq([i \in 1 .. m |-> a + i], n + 1, m) = [i \in 1 .. m - n |-> a + n + i]
<1> DEFINE s == [i \in 1 .. m |-> a + i]
           u == [i \in 1 .. m - n |-> a + n + i]
<1>1. \A i \in n + 1 .. m : s[i] \in Nat /\ s[i] = a + i
  OBVIOUS
<1>2. u \in Seq(Nat) /\ Len(u) = m - n /\ \A i \in 1 .. m - n : u[i] = a + n + i
  OBVIOUS
<1> HIDE DEF s, u
<1>3. /\ SubSeq(s, n + 1, m) \in Seq(Nat)
      /\ Len(SubSeq(s, n + 1, m)) = m - n
      /\ \A i \in 1 .. m - n : SubSeq(s, n + 1, m)[i] = s[n + i]
  BY <1>1, SubSeqProperties
<1>4. \A i \in 1 .. m - n : SubSeq(s, n + 1, m)[i] = u[i]
  BY <1>1, <1>2, <1>3
<1>5. SubSeq(s, n + 1, m) = u
  BY <1>2, <1>3, <1>4, SeqEqual
<1> QED
  BY <1>5 DEF s, u

\* Storing mWriteIndex is the transport's Put.
LEMMA WriteCommitPuts ==
  ASSUME IInv, IInv', WriteCommit
  PROVE  [Fifo!Next]_<<Waiting, delivered>>
<1>1. /\ wLen \in Nat /\ Size + wLen <= mCapacity - 2 /\ sent + wLen <= StreamLength
      /\ sent' = sent + wLen /\ delivered' = delivered
  BY DEF IInv, TypeOK, WriterInv, WriteCommit, readerVars
<1>2. Size' = Size + wLen
  BY <1>1, WaitingIsStream, WaitingIsStreamNext DEF StreamWaits, IInv, SizeIsExact
<1>3. Waiting' = [i \in 1 .. Size + wLen |-> Len(delivered) + i]
  BY <1>1, <1>2, WaitingIsStream, WaitingIsStreamNext DEF StreamWaits
<1>4. CASE wLen = 0
  <2>1. Size' = Size
    BY <1>2, <1>4, WaitingIsStream DEF StreamWaits
  <2> QED
    BY <1>1, <2>1, WaitingIsStream, WaitingIsStreamNext DEF StreamWaits
<1>5. CASE wLen # 0
  <2>1. Waiting' = Waiting \o [i \in 1 .. wLen |-> Len(delivered) + Size + i]
    <3>1. Len(delivered) \in Nat /\ Size \in Nat
          /\ Waiting = [i \in 1 .. Size |-> Len(delivered) + i]
      BY WaitingIsStream DEF StreamWaits
    <3>2. [i \in 1 .. Size |-> Len(delivered) + i]
            \o [i \in 1 .. wLen |-> Len(delivered) + Size + i]
            = [i \in 1 .. Size + wLen |-> Len(delivered) + i]
      BY <1>1, <3>1, StreamConcat
    <3> QED
      BY <1>3, <3>1, <3>2
  <2>2. Fifo!Put(wLen)
    BY <1>1, <2>1, WaitingIsStream DEF StreamWaits, Fifo!Put, Fifo!Accepted
  <2>3. wLen \in 1 .. StreamLength
    BY <1>1, <1>5, WaitingIsStream DEF StreamWaits
  <2> QED
    BY <2>2, <2>3 DEF Fifo!Next
<1> QED
  BY <1>4, <1>5

\* Storing mReadIndex is the transport's Get.
LEMMA ReadCommitGets ==
  ASSUME IInv, IInv', ReadCommit
  PROVE  [Fifo!Next]_<<Waiting, delivered>>
<1>1. /\ rLen \in Nat /\ 1 <= rLen /\ rLen <= Size /\ sent' = sent
      /\ sent \in Nat /\ sent <= StreamLength /\ delivered' = delivered \o Block
      /\ \A k \in 1 .. rLen : dest[k - 1] = Len(delivered) + k
  BY DEF IInv, TypeOK, ReaderInv, ReadCommit, writerVars, Cell, SizeIsExact
<1>2. Block = [k \in 1 .. rLen |-> Len(delivered) + k]
  BY <1>1 DEF Block
<1>3. Block = SubSeq(Waiting, 1, rLen)
  BY <1>1, <1>2, WaitingIsStream DEF StreamWaits
<1>4. Len(delivered') = Len(delivered) + rLen
  BY <1>1, <1>2, WaitingIsStream DEF StreamWaits, IInv, TypeOK
<1>5. Size' = Size - rLen
  BY <1>1, <1>4, WaitingIsStream, WaitingIsStreamNext DEF StreamWaits, IInv, SizeIsExact
<1>6. Waiting' = [i \in 1 .. Size - rLen |-> Len(delivered) + rLen + i]
  BY <1>4, <1>5, WaitingIsStreamNext DEF StreamWaits
<1>7. Waiting' = SubSeq(Waiting, rLen + 1, Size)
  <2>1. Len(delivered) \in Nat /\ Size \in Nat
        /\ Waiting = [i \in 1 .. Size |-> Len(delivered) + i]
    BY WaitingIsStream DEF StreamWaits
  <2>2. SubSeq([i \in 1 .. Size |-> Len(delivered) + i], rLen + 1, Size)
          = [i \in 1 .. Size - rLen |-> Len(delivered) + rLen + i]
    BY <1>1, <2>1, StreamTail
  <2> QED
    BY <1>6, <2>1, <2>2
<1>8. Fifo!Get(rLen)
  BY <1>1, <1>3, <1>7, WaitingIsStream DEF StreamWaits, Fifo!Get
<1>9. rLen \in 1 .. StreamLength
  BY <1>1, WaitingIsStream DEF StreamWaits
<1> QED
  BY <1>8, <1>9 DEF Fifo!Next

\* Every other step changes nothing that the transport shows.
LEMMA StepImplements ==
  ASSUME IInv, IInv', [Next]_vars
  PROVE  [Fifo!Next]_<<Waiting, delivered>>
<1>1. CASE UNCHANGED <<Size, delivered>>
  BY <1>1, WaitingIsStream, WaitingIsStreamNext DEF StreamWaits
<1>2. ASSUME NEW n \in 1 .. StreamLength, WriteBegin(n)
      PROVE  UNCHANGED <<Size, delivered>>
  BY <1>2 DEF WriteBegin, readerVars, Size
<1>3. ASSUME NEW k \in Cell, WriteCopy(k) PROVE UNCHANGED <<Size, delivered>>
  BY <1>3 DEF WriteCopy, readerVars, Size
<1>4. ASSUME NEW n \in 1 .. mCapacity, ReadBegin(n)
      PROVE  UNCHANGED <<Size, delivered>>
  BY <1>4 DEF ReadBegin, writerVars, Size
<1>5. ASSUME NEW k \in Cell, ReadCopy(k) PROVE UNCHANGED <<Size, delivered>>
  BY <1>5 DEF ReadCopy, writerVars, Size
<1>6. ASSUME UNCHANGED vars PROVE UNCHANGED <<Size, delivered>>
  BY <1>6 DEF vars, Size
<1> QED
  BY <1>1, <1>2, <1>3, <1>4, <1>5, <1>6, WriteCommitPuts, ReadCommitGets
  DEF Next, Writer, Reader, Finished

\* The empty ring is the empty transport.
LEMMA InitImplements == Init => Fifo!Init
<1> SUFFICES ASSUME Init PROVE Fifo!Init
  OBVIOUS
<1>1. Size = 0 /\ delivered = <<>>
  BY DEF Init, Size, CalcSize
<1> QED
  BY <1>1, InitInv, WaitingIsStream DEF StreamWaits, Fifo!Init

\* The ring implements the abstract transport: write() takes effect when it
\* stores mWriteIndex, read() when it stores mReadIndex.
THEOREM Refinement == Spec => ImplementsFifo
BY InitImplements, StepImplements, InvCorrect, PTL
DEF Spec, ImplementsFifo, Fifo!Spec, Fifo!fifoVars
=============================================================================
