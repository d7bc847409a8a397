----------------------- MODULE SPSCStoreOrder_proofs -----------------------
(***************************************************************************)
(* The ring whose stores become visible late, for every ring size, stream  *)
(* and number of stores on their way, if a thread's stores keep their      *)
(* order: the reader gets the stream, and each side's view of the size     *)
(* errs on the safe side.  Places are counted from the reader's own index: *)
(* byte n of the stream belongs n - Len(delivered) - 1 cells ahead of it.  *)
(***************************************************************************)
EXTENDS SPSCStoreOrder, TLAPS

Count == Len(delivered)      \* bytes delivered

\* A store to the index, not to a cell.
Announces(store) == store.loc = IndexField

\* The cell of byte n, when c bytes are delivered and the reader is at r.
Place(r, c, n) == CellAt(r, n - c - 1)

Stores == [loc : Cell \cup {IndexField}, val : Nat]

Types ==
  /\ mBaseMemory \in [Cell -> Nat] /\ dest \in [Cell -> Nat]
  /\ mWriteIndex \in Index /\ mReadIndex \in Index /\ wIndex \in Index /\ rIndex \in Index
  /\ wPending \in Seq(Stores) /\ rPending \in Seq(Index)
  /\ sent \in Nat /\ delivered \in Seq(Nat)
  /\ rLen \in 0 .. mCapacity /\ rTodo \subseteq 0 .. rLen - 1

\* The indexes in their order: what the writer knows of the reader, the
\* reader's own, what the reader knows of the writer, the writer's own.
IndexInv ==
  /\ Count <= sent /\ CalcSize(rIndex, wIndex) = sent - Count
  /\ ReaderSize <= sent - Count
  /\ CalcSize(mReadIndex, rIndex) + (sent - Count) < mCapacity
  /\ \A i \in 1 .. Len(rPending) :
       CalcSize(rPending[i], rIndex) <= CalcSize(mReadIndex, rIndex)
  /\ \A i, j \in 1 .. Len(rPending) :
       i < j => CalcSize(rPending[j], rIndex) <= CalcSize(rPending[i], rIndex)

(* The stores p on their way, when the reader is at r, c bytes are         *)
(* delivered, s accepted, and the reader knows of a bytes ahead.           *)

\* A byte goes to its place, behind what the reader knows of.
BytesFit(p, r, c, s, a) ==
  \A i \in 1 .. Len(p) :
    ~Announces(p[i]) => p[i].val \in c + a + 1 .. s /\ p[i].loc = Place(r, c, p[i].val)

\* An index announces bytes that were accepted ...
IndexesFit(p, r, c, s, a) ==
  \A i \in 1 .. Len(p) :
    Announces(p[i]) =>
      p[i].val \in Index /\ a <= CalcSize(r, p[i].val) /\ CalcSize(r, p[i].val) <= s - c

\* ... and none that comes after it.
InOrder(p, r, c) ==
  \A i, j \in 1 .. Len(p) :
    i < j /\ Announces(p[i]) =>
      /\ Announces(p[j]) => CalcSize(r, p[i].val) <= CalcSize(r, p[j].val)
      /\ ~Announces(p[j]) => c + CalcSize(r, p[i].val) < p[j].val

StoresFit(p, r, c, s, a) ==
  BytesFit(p, r, c, s, a) /\ IndexesFit(p, r, c, s, a) /\ InOrder(p, r, c)

\* A byte that was accepted is in its place in memory m, or on its way there.
MemoryFits(m, p, r, c, s) ==
  \A n \in c + 1 .. s :
    \/ m[Place(r, c, n)] = n
    \/ \E i \in 1 .. Len(p) : ~Announces(p[i]) /\ p[i].val = n

\* What read() takes is visible, and what it has copied is right.
ReaderInv ==
  /\ rLen <= ReaderSize
  /\ \A k \in 0 .. rLen - 1 : k \notin rTodo => dest[k] = Count + k + 1

IInv ==
  /\ Types /\ IndexInv /\ ReaderInv /\ InOrderExactlyOnce
  /\ StoresFit(wPending, rIndex, Count, sent, ReaderSize)
  /\ MemoryFits(mBaseMemory, wPending, rIndex, Count, sent)

-----------------------------------------------------------------------------
(* Index arithmetic.                                                       *)

\* A copy shorter than the ring stays inside it and touches no cell twice.
LEMMA Cells ==
  ASSUME NEW index \in Index, NEW j \in Cell, NEW k \in Cell
  PROVE  CellAt(index, k) \in Cell /\ (j # k => CellAt(index, j) # CellAt(index, k))
BY CapacityAssumption DEF CellAt, Index, Cell

\* The cells behind an index that lies ahead.
LEMMA CellsAhead ==
  ASSUME NEW r \in Index, NEW w \in Index, NEW k \in Nat, CalcSize(r, w) + k < mCapacity
  PROVE  CellAt(w, k) = CellAt(r, CalcSize(r, w) + k)
BY CapacityAssumption DEF CellAt, CalcSize, Index

\* The cells behind an index that was moved.
LEMMA CellsMoved ==
  ASSUME NEW r \in Index, NEW n \in Nat, NEW k \in Nat, n + k < mCapacity
  PROVE  CellAt(Advance(r, n), k) = CellAt(r, n + k)
BY CapacityAssumption DEF CellAt, Advance, Index

\* Distances are numbers, and none from an index to itself.
LEMMA Distance ==
  ASSUME NEW r \in Index, NEW w \in Index
  PROVE  CalcSize(r, w) \in Nat /\ CalcSize(r, r) = 0
BY CapacityAssumption DEF CalcSize, Index

\* Distances shorter than the ring add up.
LEMMA Distances ==
  ASSUME NEW a \in Index, NEW b \in Index, NEW c \in Index,
         CalcSize(a, b) + CalcSize(b, c) < mCapacity
  PROVE  CalcSize(a, c) = CalcSize(a, b) + CalcSize(b, c)
BY CapacityAssumption DEF CalcSize, Index

\* Moving the farther index lengthens the distance ...
LEMMA Lengthened ==
  ASSUME NEW r \in Index, NEW w \in Index, NEW n \in Nat, CalcSize(r, w) + n < mCapacity
  PROVE  Advance(w, n) \in Index /\ CalcSize(r, Advance(w, n)) = CalcSize(r, w) + n
BY CapacityAssumption DEF CalcSize, Advance, Index

\* ... moving the nearer one shortens it.
LEMMA Shortened ==
  ASSUME NEW r \in Index, NEW w \in Index, NEW n \in Nat,
         CalcSize(r, w) < mCapacity, n <= CalcSize(r, w)
  PROVE  Advance(r, n) \in Index /\ CalcSize(Advance(r, n), w) = CalcSize(r, w) - n
BY CapacityAssumption DEF CalcSize, Advance, Index

\* The bytes that wait have cells of their own.
LEMMA Places ==
  ASSUME NEW r \in Index, NEW c \in Nat, NEW s \in Nat, s - c < mCapacity,
         NEW n \in c + 1 .. s, NEW m \in c + 1 .. s
  PROVE  Place(r, c, n) \in Cell /\ (m # n => Place(r, c, m) # Place(r, c, n))
<1>1. n - c - 1 \in Cell /\ m - c - 1 \in Cell /\ (m # n => m - c - 1 # n - c - 1)
  BY CapacityAssumption DEF Cell
<1> QED
  BY <1>1, Cells DEF Place

\* What a sequence holds.
LEMMA Element ==
  ASSUME NEW S, NEW s \in Seq(S), NEW i \in 1 .. Len(s)
  PROVE  s[i] \in S
OBVIOUS

\* Stores on their way have a first one.
LEMMA EmptyStores ==
  ASSUME NEW p \in Seq(Stores), p # <<>>
  PROVE  Len(p) - 1 \in Nat /\ Len(p) = (Len(p) - 1) + 1
OBVIOUS

\* A store is to the index, or to a cell.
LEMMA StoreParts ==
  ASSUME NEW x \in Stores
  PROVE  x.val \in Nat /\ (~Announces(x) <=> x.loc \in Cell)
BY DEF Stores, Announces, IndexField, Cell

-----------------------------------------------------------------------------
(* What happens to the stores on their way.                                *)

\* write() of l bytes: they and their index go behind the others.
LEMMA FitsWritten ==
  ASSUME NEW r \in Index, NEW c \in Nat, NEW s \in Nat, NEW a \in Nat, NEW l \in Nat,
         NEW p \in Seq(Stores), NEW q \in Seq(Stores), NEW m,
         c <= s, a <= s - c,
         Len(q) = Len(p) + l + 1, \A i \in 1 .. Len(p) : q[i] = p[i],
         \A i \in Len(p) + 1 .. Len(p) + l :
           /\ ~Announces(q[i]) /\ q[i].val = s + (i - Len(p))
           /\ q[i].loc = Place(r, c, q[i].val),
         Announces(q[Len(q)]), q[Len(q)].val \in Index,
         CalcSize(r, q[Len(q)].val) = (s - c) + l,
         StoresFit(p, r, c, s, a), MemoryFits(m, p, r, c, s)
  PROVE  StoresFit(q, r, c, s + l, a) /\ MemoryFits(m, q, r, c, s + l)
<1>1. PICK n \in Nat : n = Len(p)
  OBVIOUS
<1>2. /\ Len(q) = n + l + 1 /\ \A i \in 1 .. n : q[i] = p[i]
      /\ \A i \in n + 1 .. n + l : /\ ~Announces(q[i]) /\ q[i].val = s + (i - n)
                                   /\ q[i].loc = Place(r, c, q[i].val)
      /\ Announces(q[n + l + 1]) /\ q[n + l + 1].val \in Index
      /\ CalcSize(r, q[n + l + 1].val) = (s - c) + l
  BY <1>1
<1>3. \A i \in 1 .. n : ~Announces(p[i]) => /\ p[i].val \in c + a + 1 .. s
                                            /\ p[i].loc = Place(r, c, p[i].val)
  BY <1>1 DEF StoresFit, BytesFit
<1>4. \A i \in 1 .. n : Announces(p[i]) =>
        p[i].val \in Index /\ a <= CalcSize(r, p[i].val) /\ CalcSize(r, p[i].val) <= s - c
  BY <1>1 DEF StoresFit, IndexesFit
<1>5. \A i \in 1 .. n : Announces(p[i]) => CalcSize(r, p[i].val) \in Nat
  BY <1>4, Distance
<1>6. \A i \in 1 .. Len(q) : i \in 1 .. n \/ i \in n + 1 .. n + l \/ i = n + l + 1
  BY <1>2
<1>7. BytesFit(q, r, c, s + l, a)
  <2> SUFFICES ASSUME NEW i \in 1 .. Len(q), ~Announces(q[i])
               PROVE  q[i].val \in c + a + 1 .. s + l /\ q[i].loc = Place(r, c, q[i].val)
    BY DEF BytesFit
  <2>1. CASE i \in 1 .. n
    <3>1. q[i].val \in c + a + 1 .. s /\ q[i].loc = Place(r, c, q[i].val)
      BY <1>2, <1>3, <2>1
    <3> QED
      BY <3>1
  <2>2. CASE i \in n + 1 .. n + l
    <3>1. i - n \in 1 .. l /\ q[i].val = s + (i - n)
      BY <1>2, <2>2
    <3>2. s + (i - n) \in c + a + 1 .. s + l
      BY <3>1
    <3> QED
      BY <1>2, <2>2, <3>1, <3>2
  <2> QED
    BY <1>2, <1>6, <2>1, <2>2
<1>8. IndexesFit(q, r, c, s + l, a)
  <2> SUFFICES ASSUME NEW i \in 1 .. Len(q), Announces(q[i])
               PROVE  /\ q[i].val \in Index /\ a <= CalcSize(r, q[i].val)
                      /\ CalcSize(r, q[i].val) <= (s + l) - c
    BY DEF IndexesFit
  <2>1. CASE i \in 1 .. n
    <3>1. /\ q[i].val \in Index /\ a <= CalcSize(r, q[i].val)
          /\ CalcSize(r, q[i].val) <= s - c /\ CalcSize(r, q[i].val) \in Nat
      BY <1>2, <1>4, <1>5, <2>1
    <3> QED
      BY <3>1
  <2>2. CASE i = n + l + 1
    BY <1>2, <2>2
  <2> QED
    BY <1>2, <1>6, <2>1, <2>2
<1>9. InOrder(q, r, c)
  <2> SUFFICES ASSUME NEW i \in 1 .. Len(q), NEW j \in 1 .. Len(q), i < j, Announces(q[i])
               PROVE  /\ Announces(q[j]) => CalcSize(r, q[i].val) <= CalcSize(r, q[j].val)
                      /\ ~Announces(q[j]) => c + CalcSize(r, q[i].val) < q[j].val
    BY DEF InOrder
  <2>1. i \in 1 .. n
    BY <1>2, <1>6
  <2>2. PICK d \in Nat : d = CalcSize(r, q[i].val) /\ d <= s - c
    BY <1>2, <1>4, <1>5, <2>1
  <2>3. CASE j \in 1 .. n
    <3>1. q[i] = p[i] /\ q[j] = p[j] /\ n = Len(p)
      BY <1>2, <2>1, <2>3
    <3>2. InOrder(p, r, c)
      BY <1>1 DEF StoresFit
    <3> QED
      BY <2>1, <2>3, <3>1, <3>2 DEF InOrder
  <2>4. CASE j \in n + 1 .. n + l
    <3>1. ~Announces(q[j]) /\ q[j].val = s + (j - n) /\ j - n \in 1 .. l
      BY <1>2, <2>4
    <3> QED
      BY <2>2, <3>1
  <2>5. CASE j = n + l + 1
    <3>1. Announces(q[j]) /\ CalcSize(r, q[j].val) = (s - c) + l
      BY <1>2, <2>5
    <3> QED
      BY <2>2, <3>1
  <2> QED
    BY <1>6, <2>3, <2>4, <2>5
<1>10. MemoryFits(m, q, r, c, s + l)
  <2> SUFFICES ASSUME NEW b \in c + 1 .. s + l
               PROVE  \/ m[Place(r, c, b)] = b
                      \/ \E i \in 1 .. Len(q) : ~Announces(q[i]) /\ q[i].val = b
    BY DEF MemoryFits
  <2>1. CASE b <= s
    <3>1. b \in c + 1 .. s
      BY <2>1
    <3>2. \/ m[Place(r, c, b)] = b
          \/ \E i \in 1 .. n : ~Announces(p[i]) /\ p[i].val = b
      BY <1>1, <3>1 DEF MemoryFits
    <3>3. \A i \in 1 .. n : i \in 1 .. Len(q) /\ q[i] = p[i]
      BY <1>2
    <3> QED
      BY <3>2, <3>3
  <2>2. CASE b > s
    <3>1. n + (b - s) \in n + 1 .. n + l /\ n + (b - s) \in 1 .. Len(q)
      BY <1>2, <2>2
    <3>2. s + ((n + (b - s)) - n) = b
      OBVIOUS
    <3>3. ~Announces(q[n + (b - s)]) /\ q[n + (b - s)].val = b
      BY <1>2, <3>1, <3>2
    <3> QED
      BY <3>1, <3>3
  <2> QED
    BY <2>1, <2>2
<1> QED
  BY <1>7, <1>8, <1>9, <1>10 DEF StoresFit

\* The oldest store is visible and taken off.
LEMMA FitsTail ==
  ASSUME NEW r \in Index, NEW c \in Nat, NEW s \in Nat, NEW a,
         NEW p \in Seq(Stores), NEW q \in Seq(Stores), p # <<>>,
         Len(q) = Len(p) - 1, \A i \in 1 .. Len(q) : q[i] = p[i + 1],
         StoresFit(p, r, c, s, a)
  PROVE  /\ StoresFit(q, r, c, s, a)
         /\ \A i \in 1 .. Len(p) : i # 1 => i - 1 \in 1 .. Len(q) /\ q[i - 1] = p[i]
<1>1. PICK n \in Nat : n = Len(q) /\ Len(p) = n + 1
  BY EmptyStores
<1>2. \A i \in 1 .. n : i + 1 \in 1 .. Len(p) /\ q[i] = p[i + 1]
  BY <1>1
<1>3. \A i, j \in 1 .. n : i < j => i + 1 < j + 1
  OBVIOUS
<1>4. BytesFit(q, r, c, s, a)
  BY <1>1, <1>2 DEF StoresFit, BytesFit
<1>5. IndexesFit(q, r, c, s, a)
  BY <1>1, <1>2 DEF StoresFit, IndexesFit
<1>6. InOrder(q, r, c)
  BY <1>1, <1>2, <1>3 DEF StoresFit, InOrder
<1>7. ASSUME NEW i \in 1 .. Len(p), i # 1 PROVE i - 1 \in 1 .. Len(q) /\ q[i - 1] = p[i]
  <2>1. i - 1 \in 1 .. n /\ (i - 1) + 1 = i
    BY <1>1, <1>7
  <2> QED
    BY <1>1, <1>2, <2>1
<1> QED
  BY <1>4, <1>5, <1>6, <1>7 DEF StoresFit

\* The oldest store is an index: the reader knows of the bytes it announces,
\* which are all in their places.
LEMMA FitsAnnounced ==
  ASSUME NEW r \in Index, NEW c \in Nat, NEW s \in Nat, NEW a, NEW m,
         NEW p \in Seq(Stores), NEW q \in Seq(Stores), p # <<>>,
         Len(q) = Len(p) - 1, \A i \in 1 .. Len(q) : q[i] = p[i + 1], Announces(p[1]),
         StoresFit(p, r, c, s, a), MemoryFits(m, p, r, c, s)
  PROVE  /\ p[1].val \in Index /\ CalcSize(r, p[1].val) <= s - c
         /\ a <= CalcSize(r, p[1].val)
         /\ StoresFit(q, r, c, s, CalcSize(r, p[1].val)) /\ MemoryFits(m, q, r, c, s)
<1>1. PICK n \in Nat : n = Len(q) /\ Len(p) = n + 1
  BY EmptyStores
<1>2. /\ StoresFit(q, r, c, s, a)
      /\ \A i \in 1 .. Len(p) : i # 1 => i - 1 \in 1 .. Len(q) /\ q[i - 1] = p[i]
  BY FitsTail
<1>3. 1 \in 1 .. Len(p)
  BY <1>1
<1>4. p[1].val \in Index /\ CalcSize(r, p[1].val) <= s - c /\ a <= CalcSize(r, p[1].val)
  BY <1>3 DEF StoresFit, IndexesFit
<1>5. PICK d \in Nat : d = CalcSize(r, p[1].val)
  BY <1>4, Distance
<1>6. ASSUME NEW i \in 1 .. n
      PROVE  /\ Announces(q[i]) => d <= CalcSize(r, q[i].val)
             /\ ~Announces(q[i]) => c + d < q[i].val
  <2>1. i + 1 \in 1 .. Len(p) /\ 1 < i + 1 /\ q[i] = p[i + 1]
    BY <1>1
  <2> QED
    BY <1>3, <1>5, <2>1 DEF StoresFit, InOrder
<1>7. BytesFit(q, r, c, s, d)
  <2> SUFFICES ASSUME NEW i \in 1 .. n, ~Announces(q[i])
               PROVE  q[i].val \in c + d + 1 .. s /\ q[i].loc = Place(r, c, q[i].val)
    BY <1>1 DEF BytesFit
  <2>1. q[i].val \in c + a + 1 .. s /\ q[i].loc = Place(r, c, q[i].val)
    BY <1>1, <1>2 DEF StoresFit, BytesFit
  <2>2. q[i] \in Stores /\ c + d < q[i].val
    BY <1>1, <1>6, Element
  <2>3. PICK v \in Nat : v = q[i].val
    BY <2>2, StoreParts
  <2> QED
    BY <2>1, <2>2, <2>3
<1>8. IndexesFit(q, r, c, s, d)
  BY <1>1, <1>2, <1>6 DEF StoresFit, IndexesFit
<1>9. MemoryFits(m, q, r, c, s)
  <2> SUFFICES ASSUME NEW b \in c + 1 .. s, m[Place(r, c, b)] # b
               PROVE  \E i \in 1 .. Len(q) : ~Announces(q[i]) /\ q[i].val = b
    BY DEF MemoryFits
  <2>1. PICK i \in 1 .. Len(p) : ~Announces(p[i]) /\ p[i].val = b
    BY DEF MemoryFits
  <2> QED
    BY <1>2, <2>1
<1> QED
  BY <1>2, <1>4, <1>5, <1>7, <1>8, <1>9 DEF StoresFit

\* The oldest store is a byte: it is in its place.
LEMMA FitsStored ==
  ASSUME NEW r \in Index, NEW c \in Nat, NEW s \in Nat, NEW a, NEW m \in [Cell -> Nat],
         NEW p \in Seq(Stores), NEW q \in Seq(Stores), p # <<>>,
         Len(q) = Len(p) - 1, \A i \in 1 .. Len(q) : q[i] = p[i + 1], ~Announces(p[1]),
         s - c < mCapacity, a \in Nat,
         StoresFit(p, r, c, s, a), MemoryFits(m, p, r, c, s)
  PROVE  /\ p[1].loc \in Cell /\ p[1].val \in Nat /\ StoresFit(q, r, c, s, a)
         /\ MemoryFits([m EXCEPT ![p[1].loc] = p[1].val], q, r, c, s)
<1>1. PICK n \in Nat : n = Len(q) /\ Len(p) = n + 1
  BY EmptyStores
<1>2. /\ StoresFit(q, r, c, s, a)
      /\ \A i \in 1 .. Len(p) : i # 1 => i - 1 \in 1 .. Len(q) /\ q[i - 1] = p[i]
  BY FitsTail
<1>3. 1 \in 1 .. Len(p)
  BY <1>1
<1>4. p[1].val \in c + a + 1 .. s /\ p[1].loc = Place(r, c, p[1].val)
  BY <1>3 DEF StoresFit, BytesFit
<1>5. PICK v \in c + 1 .. s : v = p[1].val
  BY <1>4
<1>6. p[1].loc = Place(r, c, v) /\ Place(r, c, v) \in Cell /\ v \in Nat
  <2>1. Place(r, c, v) \in Cell
    BY <1>5, Places
  <2> QED
    BY <1>4, <1>5, <2>1
<1> DEFINE m1 == [m EXCEPT ![Place(r, c, v)] = v]
<1>7. MemoryFits(m1, q, r, c, s)
  <2> SUFFICES ASSUME NEW b \in c + 1 .. s, m1[Place(r, c, b)] # b
               PROVE  \E i \in 1 .. Len(q) : ~Announces(q[i]) /\ q[i].val = b
    BY DEF MemoryFits
  <2>1. b # v
    BY <1>6
  <2>2. m1[Place(r, c, b)] = m[Place(r, c, b)]
    BY <1>6, <2>1, Places
  <2>3. PICK i \in 1 .. Len(p) : ~Announces(p[i]) /\ p[i].val = b
    BY <2>2 DEF MemoryFits
  <2>4. i # 1
    BY <1>5, <2>1, <2>3
  <2> QED
    BY <1>2, <2>3, <2>4
<1> QED
  BY <1>2, <1>5, <1>6, <1>7

\* read() of l bytes: the rest is counted from where it ended.
LEMMA FitsRead ==
  ASSUME NEW r \in Index, NEW c \in Nat, NEW s \in Nat, NEW a \in Nat, NEW l \in Nat,
         NEW p \in Seq(Stores), NEW m, l <= a, a <= s - c, s - c < mCapacity,
         StoresFit(p, r, c, s, a), MemoryFits(m, p, r, c, s)
  PROVE  /\ StoresFit(p, Advance(r, l), c + l, s, a - l)
         /\ MemoryFits(m, p, Advance(r, l), c + l, s)
<1> DEFINE r1 == Advance(r, l)
<1>1. ASSUME NEW b \in c + l + 1 .. s PROVE Place(r1, c + l, b) = Place(r, c, b)
  <2>1. /\ b - (c + l) - 1 \in Nat /\ l + (b - (c + l) - 1) < mCapacity
        /\ l + (b - (c + l) - 1) = b - c - 1
    BY CapacityAssumption
  <2> QED
    BY <2>1, CellsMoved DEF Place
<1>2. ASSUME NEW w \in Index, a <= CalcSize(r, w), CalcSize(r, w) <= s - c
      PROVE  CalcSize(r1, w) = CalcSize(r, w) - l
  <2>1. PICK d \in Nat : d = CalcSize(r, w)
    BY Distance
  <2>2. d < mCapacity /\ l <= d
    BY <1>2, <2>1, CapacityAssumption
  <2> QED
    BY <2>1, <2>2, Shortened
<1> HIDE DEF r1
<1>3. \A i \in 1 .. Len(p) : ~Announces(p[i]) => /\ p[i].val \in c + a + 1 .. s
                                                 /\ p[i].loc = Place(r, c, p[i].val)
  BY DEF StoresFit, BytesFit
<1>4. \A i \in 1 .. Len(p) : Announces(p[i]) =>
        /\ p[i].val \in Index /\ a <= CalcSize(r, p[i].val) /\ CalcSize(r, p[i].val) <= s - c
        /\ CalcSize(r, p[i].val) \in Nat /\ CalcSize(r1, p[i].val) = CalcSize(r, p[i].val) - l
  BY <1>2, Distance DEF StoresFit, IndexesFit
<1>5. BytesFit(p, r1, c + l, s, a - l)
  <2> SUFFICES ASSUME NEW i \in 1 .. Len(p), ~Announces(p[i])
               PROVE  /\ p[i].val \in c + l + (a - l) + 1 .. s
                      /\ p[i].loc = Place(r1, c + l, p[i].val)
    BY DEF BytesFit
  <2>1. p[i].val \in c + a + 1 .. s /\ p[i].loc = Place(r, c, p[i].val)
    BY <1>3
  <2>2. p[i].val \in c + l + 1 .. s /\ c + l + (a - l) + 1 = c + a + 1
    BY <2>1
  <2> QED
    BY <1>1, <2>1, <2>2
<1>6. IndexesFit(p, r1, c + l, s, a - l)
  <2> SUFFICES ASSUME NEW i \in 1 .. Len(p), Announces(p[i])
               PROVE  /\ p[i].val \in Index /\ a - l <= CalcSize(r1, p[i].val)
                      /\ CalcSize(r1, p[i].val) <= s - (c + l)
    BY DEF IndexesFit
  <2>1. PICK d \in Nat : d = CalcSize(r, p[i].val)
    BY <1>4
  <2> QED
    BY <1>4, <2>1
<1>7. InOrder(p, r1, c + l)
  <2> SUFFICES ASSUME NEW i \in 1 .. Len(p), NEW j \in 1 .. Len(p), i < j, Announces(p[i])
               PROVE  /\ Announces(p[j]) => CalcSize(r1, p[i].val) <= CalcSize(r1, p[j].val)
                      /\ ~Announces(p[j]) => c + l + CalcSize(r1, p[i].val) < p[j].val
    BY DEF InOrder
  <2>1. PICK d \in Nat : d = CalcSize(r, p[i].val) /\ CalcSize(r1, p[i].val) = d - l
    BY <1>4
  <2>2. CASE Announces(p[j])
    <3>1. PICK e \in Nat : e = CalcSize(r, p[j].val) /\ CalcSize(r1, p[j].val) = e - l
      BY <1>4, <2>2
    <3>2. d <= e
      BY <2>1, <2>2, <3>1 DEF StoresFit, InOrder
    <3> QED
      BY <2>1, <2>2, <3>1, <3>2
  <2>3. CASE ~Announces(p[j])
    <3>1. c + d < p[j].val
      BY <2>1, <2>3 DEF StoresFit, InOrder
    <3>2. c + l + (d - l) = c + d
      OBVIOUS
    <3> QED
      BY <2>1, <2>3, <3>1, <3>2
  <2> QED
    BY <2>2, <2>3
<1>8. MemoryFits(m, p, r1, c + l, s)
  <2> SUFFICES ASSUME NEW b \in c + l + 1 .. s
               PROVE  \/ m[Place(r1, c + l, b)] = b
                      \/ \E i \in 1 .. Len(p) : ~Announces(p[i]) /\ p[i].val = b
    BY DEF MemoryFits
  <2>1. b \in c + 1 .. s
    OBVIOUS
  <2> QED
    BY <1>1, <2>1 DEF MemoryFits
<1> QED
  BY <1>5, <1>6, <1>7, <1>8 DEF StoresFit, r1

-----------------------------------------------------------------------------
(* The invariance proof.                                                   *)

\* The numbers that the invariant is about.
LEMMA Numbers ==
  ASSUME Types, IndexInv
  PROVE  /\ Count \in Nat /\ sent \in Nat /\ Count <= sent /\ sent - Count < mCapacity
         /\ rIndex \in Index /\ wIndex \in Index /\ mWriteIndex \in Index /\ mReadIndex \in Index
         /\ ReaderSize \in Nat /\ ReaderSize <= sent - Count /\ CalcSize(mReadIndex, rIndex) \in Nat
         /\ WriterSize = CalcSize(mReadIndex, rIndex) + (sent - Count)
<1>1. /\ Count \in Nat /\ sent \in Nat /\ rIndex \in Index /\ wIndex \in Index
      /\ mWriteIndex \in Index /\ mReadIndex \in Index
  BY DEF Types, Count
<1>2. ReaderSize \in Nat /\ CalcSize(mReadIndex, rIndex) \in Nat
  BY <1>1, Distance DEF ReaderSize
<1>3. /\ Count <= sent /\ sent - Count < mCapacity /\ ReaderSize <= sent - Count
      /\ CalcSize(rIndex, wIndex) = sent - Count
      /\ CalcSize(mReadIndex, rIndex) + CalcSize(rIndex, wIndex) < mCapacity
  <2>1. PICK b \in Nat : b = CalcSize(mReadIndex, rIndex)
    BY <1>2
  <2>2. b + (sent - Count) < mCapacity /\ Count <= sent
    BY <2>1 DEF IndexInv
  <2>3. sent - Count < mCapacity
    BY <1>1, <2>2, CapacityAssumption
  <2> QED
    BY <2>3 DEF IndexInv
<1>4. WriterSize = CalcSize(mReadIndex, rIndex) + (sent - Count)
  BY <1>1, <1>3, Distances DEF WriterSize
<1> QED
  BY <1>1, <1>2, <1>3, <1>4

\* The ring is empty, and nothing is on its way.
LEMMA InitInv == Init => IInv
<1> SUFFICES ASSUME Init PROVE IInv
  OBVIOUS
<1>1. 0 \in Index /\ CalcSize(0, 0) = 0 /\ mCapacity \in Nat \ {0}
  BY CapacityAssumption DEF Index, CalcSize
<1>2. /\ wPending = <<>> /\ rPending = <<>> /\ delivered = <<>> /\ Len(<<>>) = 0
      /\ <<>> \in Seq(Stores) /\ <<>> \in Seq(Index) /\ <<>> \in Seq(Nat)
  BY DEF Init
<1>3. Count = 0 /\ sent = 0 /\ ReaderSize = 0 /\ 0 - 0 = 0 /\ 0 + 0 = 0
  BY <1>1, <1>2 DEF Init, Count, ReaderSize
<1>4. Types
  <2>1. /\ mBaseMemory \in [Cell -> Nat] /\ dest \in [Cell -> Nat] /\ rLen \in 0 .. mCapacity
        /\ rTodo \subseteq 0 .. rLen - 1
    BY <1>1 DEF Init
  <2> QED
    BY <1>1, <1>2, <2>1 DEF Init, Types
<1>5. IndexInv
  BY <1>1, <1>2, <1>3 DEF Init, IndexInv
<1>6. StoresFit(wPending, rIndex, Count, sent, ReaderSize) /\ InOrderExactlyOnce
  BY <1>2 DEF StoresFit, BytesFit, IndexesFit, InOrder, InOrderExactlyOnce
<1>7. MemoryFits(mBaseMemory, wPending, rIndex, Count, sent)
  BY <1>3 DEF MemoryFits
<1>8. ReaderInv
  BY <1>3 DEF Init, ReaderInv
<1> QED
  BY <1>4, <1>5, <1>6, <1>7, <1>8 DEF IInv

\* The stores of a write() of l bytes at index w, after s bytes.
CallStores(w, s, l) ==
  [k \in 1 .. l |-> [loc |-> CellAt(w, k - 1), val |-> s + k]]
    \o <<[loc |-> IndexField, val |-> Advance(w, l)]>>

\* Stores q are l bytes on their way to their places, then index w moved over them.
BytesThenIndex(q, r, c, s, l, w) ==
  /\ Len(q) = l + 1
  /\ \A k \in 1 .. l :
       ~Announces(q[k]) /\ q[k].val = s + k /\ q[k].loc = Place(r, c, q[k].val)
  /\ Announces(q[l + 1]) /\ q[l + 1].val = Advance(w, l)

\* The stores of a call are that.
LEMMA WrittenStores ==
  ASSUME NEW r \in Index, NEW w \in Index, NEW c \in Nat, NEW s \in Nat, NEW l \in Nat,
         c <= s, CalcSize(r, w) = s - c, (s - c) + l < mCapacity
  PROVE  \E q \in Seq(Stores) : q = CallStores(w, s, l) /\ BytesThenIndex(q, r, c, s, l, w)
<1> DEFINE copy == [k \in 1 .. l |-> [loc |-> CellAt(w, k - 1), val |-> s + k]]
           last == [loc |-> IndexField, val |-> Advance(w, l)]
<1>1. ASSUME NEW k \in 1 .. l
      PROVE  /\ CellAt(w, k - 1) = Place(r, c, s + k) /\ Place(r, c, s + k) \in Cell
  <2>1. /\ k - 1 \in Nat /\ (s - c) + (k - 1) < mCapacity /\ s + k - c - 1 = (s - c) + (k - 1)
        /\ s + k - c - 1 \in Cell
    BY <1>1, CapacityAssumption DEF Cell
  <2>2. CellAt(w, k - 1) = Place(r, c, s + k)
    BY <2>1, CellsAhead DEF Place
  <2>3. Place(r, c, s + k) \in Cell
    BY <2>1, Cells DEF Place
  <2> QED
    BY <2>2, <2>3
<1>2. \A k \in 1 .. l : copy[k] \in Stores
  BY <1>1 DEF Stores
<1>3. last \in Stores
  <2>1. Advance(w, l) \in Nat
    BY Lengthened DEF Index
  <2> QED
    BY <2>1 DEF Stores
<1>4. copy \in Seq(Stores) /\ Len(copy) = l
  <2>1. copy \in [1 .. l -> Stores]
    BY <1>2
  <2> QED
    BY <2>1
<1>5. \A k \in 1 .. l : /\ ~Announces(copy[k]) /\ copy[k].val = s + k
                        /\ copy[k].loc = Place(r, c, s + k)
  BY <1>1 DEF Announces, IndexField, Cell
<1>6. Announces(last) /\ last.val = Advance(w, l)
  BY DEF Announces
<1> HIDE DEF copy, last
<1>7. /\ copy \o <<last>> \in Seq(Stores) /\ Len(copy \o <<last>>) = l + 1
      /\ \A k \in 1 .. l : (copy \o <<last>>)[k] = copy[k]
      /\ (copy \o <<last>>)[l + 1] = last
  BY <1>3, <1>4
<1>8. PICK q \in Seq(Stores) : q = copy \o <<last>>
  BY <1>7
<1>9. q = CallStores(w, s, l)
  BY <1>8 DEF CallStores, copy, last
<1>10. /\ Len(q) = l + 1 /\ \A k \in 1 .. l : q[k] = copy[k]
       /\ q[l + 1] = last
  BY <1>7, <1>8
<1>11. \A k \in 1 .. l : ~Announces(q[k]) /\ q[k].val = s + k
                         /\ q[k].loc = Place(r, c, q[k].val)
  BY <1>5, <1>10
<1> QED
  BY <1>6, <1>9, <1>10, <1>11 DEF BytesThenIndex

\* What a sequence put behind another holds where.
LEMMA Joined ==
  ASSUME NEW p \in Seq(Stores), NEW e \in Seq(Stores), NEW q, q = p \o e
  PROVE  /\ q \in Seq(Stores) /\ Len(q) = Len(p) + Len(e) /\ Len(p) \in Nat /\ Len(e) \in Nat
         /\ \A i \in 1 .. Len(p) : q[i] = p[i]
         /\ \A i \in 1 .. Len(e) : q[Len(p) + i] = e[i]
OBVIOUS

\* How many bytes write() takes of n, when it believes that d are there.
LEMMA Accepted ==
  ASSUME NEW n \in Nat \ {0}, NEW d \in Nat, Room(d) # 0
  PROVE  Clip(n, Room(d) - 1) \in Nat /\ d + Clip(n, Room(d) - 1) < mCapacity
BY CapacityAssumption DEF Clip, Room

\* write() of l bytes, its stores behind those that are on their way.
LEMMA FitsAppended ==
  ASSUME NEW r \in Index, NEW w \in Index, NEW c \in Nat, NEW s \in Nat, NEW l \in Nat,
         NEW a \in Nat, NEW m, NEW p \in Seq(Stores), NEW x \in Seq(Stores), NEW q \in Seq(Stores),
         c <= s, a <= s - c, CalcSize(r, w) = s - c, (s - c) + l < mCapacity,
         BytesThenIndex(x, r, c, s, l, w), q = p \o x,
         StoresFit(p, r, c, s, a), MemoryFits(m, p, r, c, s)
  PROVE  StoresFit(q, r, c, s + l, a) /\ MemoryFits(m, q, r, c, s + l)
<1>1. /\ Len(x) = l + 1
      /\ \A k \in 1 .. l :
           ~Announces(x[k]) /\ x[k].val = s + k /\ x[k].loc = Place(r, c, x[k].val)
      /\ Announces(x[l + 1]) /\ x[l + 1].val = Advance(w, l)
  BY DEF BytesThenIndex
<1>2. PICK n \in Nat : n = Len(p)
  OBVIOUS
<1>3. Len(q) = n + (l + 1)
  <2>1. Len(q) = Len(p) + Len(x)
    BY Joined
  <2> QED
    BY <1>1, <1>2, <2>1
<1>4. Len(q) = n + l + 1
  BY <1>3
<1>5. \A i \in 1 .. l + 1 : q[n + i] = x[i]
  <2>1. \A i \in 1 .. Len(x) : q[Len(p) + i] = x[i]
    BY Joined
  <2> QED
    BY <1>1, <1>2, <2>1
<1>6. \A i \in 1 .. n : q[i] = p[i]
  BY <1>2, Joined
<1>7. ASSUME NEW i \in n + 1 .. n + l
      PROVE  ~Announces(q[i]) /\ q[i].val = s + (i - n) /\ q[i].loc = Place(r, c, q[i].val)
  <2>1. i - n \in 1 .. l /\ i - n \in 1 .. l + 1 /\ n + (i - n) = i
    BY <1>7
  <2>2. q[i] = x[i - n]
    BY <1>5, <2>1
  <2> QED
    BY <1>1, <2>1, <2>2
<1>8. /\ Announces(q[n + l + 1]) /\ q[n + l + 1].val \in Index
      /\ CalcSize(r, q[n + l + 1].val) = (s - c) + l
  <2>1. l + 1 \in 1 .. l + 1 /\ n + (l + 1) = n + l + 1
    OBVIOUS
  <2>2. q[n + l + 1] = x[l + 1]
    BY <1>5, <2>1
  <2>3. Advance(w, l) \in Index /\ CalcSize(r, Advance(w, l)) = (s - c) + l
    BY Lengthened
  <2> QED
    BY <1>1, <2>2, <2>3
<1> QED
  BY <1>2, <1>3, <1>4, <1>6, <1>7, <1>8, FitsWritten

\* write() takes no more than is free, and its stores go behind the others.
LEMMA WriteInv ==
  ASSUME IInv, NEW n \in 1 .. StreamLength, Write(n)
  PROVE  IInv'
<1> DEFINE asked == Clip(n, Room(WriterSize) - 1)
<1>1. /\ n \in 1 .. (StreamLength - sent) /\ Room(WriterSize) # 0
      /\ wPending' = wPending \o StoresOf(asked)
      /\ wIndex' = Advance(wIndex, asked) /\ sent' = sent + asked
      /\ UNCHANGED <<mBaseMemory, mWriteIndex, mReadIndex, rIndex, rPending, rLen, rTodo,
                     dest, delivered>>
  BY DEF Write, readerVars
<1>2. /\ Types /\ IndexInv /\ ReaderInv /\ InOrderExactlyOnce
      /\ StoresFit(wPending, rIndex, Count, sent, ReaderSize)
      /\ MemoryFits(mBaseMemory, wPending, rIndex, Count, sent)
  BY DEF IInv
<1>3. /\ Count \in Nat /\ sent \in Nat /\ Count <= sent /\ sent - Count < mCapacity
      /\ rIndex \in Index /\ wIndex \in Index /\ ReaderSize \in Nat /\ ReaderSize <= sent - Count
      /\ CalcSize(mReadIndex, rIndex) \in Nat
      /\ WriterSize = CalcSize(mReadIndex, rIndex) + (sent - Count)
      /\ CalcSize(rIndex, wIndex) = sent - Count
  BY <1>2, Numbers DEF IndexInv
<1>4. WriterSize \in Nat
  BY <1>3
<1>5. asked \in Nat /\ WriterSize + asked < mCapacity
  BY <1>1, <1>4, Accepted
<1>6. PICK len \in Nat : len = asked
  BY <1>5
<1> HIDE DEF asked
<1>7. PICK b \in Nat, c \in Nat, s \in Nat, a \in Nat :
        b = CalcSize(mReadIndex, rIndex) /\ c = Count /\ s = sent /\ a = ReaderSize
  BY <1>3
<1>8. /\ c <= s /\ a <= s - c /\ CalcSize(rIndex, wIndex) = s - c
      /\ b + (s - c) + len < mCapacity /\ (s - c) + len < mCapacity
  <2>1. WriterSize = b + (s - c) /\ c <= s
    BY <1>3, <1>7
  <2> QED
    BY <1>3, <1>5, <1>6, <1>7, <2>1, CapacityAssumption
<1>9. /\ wPending' \in Seq(Stores) /\ StoresFit(wPending', rIndex, c, s + len, a)
      /\ MemoryFits(mBaseMemory, wPending', rIndex, c, s + len)
  <2>1. PICK p \in Seq(Stores) : p = wPending
    BY <1>2 DEF Types
  <2>2. StoresOf(len) = CallStores(wIndex, s, len)
    BY <1>7 DEF StoresOf, CallStores
  <2>3. StoresFit(p, rIndex, c, s, a) /\ MemoryFits(mBaseMemory, p, rIndex, c, s)
    BY <1>2, <1>7, <2>1
  <2>4. wPending' = p \o CallStores(wIndex, s, len)
    BY <1>1, <1>6, <2>1, <2>2
  <2>5. PICK r \in Index, w \in Index, m \in [Cell -> Nat] :
          r = rIndex /\ w = wIndex /\ m = mBaseMemory
    BY <1>2, <1>3 DEF Types
  <2>6. /\ CalcSize(r, w) = s - c /\ c <= s /\ a <= s - c /\ (s - c) + len < mCapacity
        /\ StoresFit(p, r, c, s, a) /\ MemoryFits(m, p, r, c, s)
    BY <1>8, <2>3, <2>5
  <2>7. PICK x \in Seq(Stores) :
          x = CallStores(w, s, len) /\ BytesThenIndex(x, r, c, s, len, w)
    BY <2>6, WrittenStores, CapacityAssumption
  <2>8. PICK q \in Seq(Stores) : q = p \o x
    BY Joined
  <2>9. StoresFit(q, r, c, s + len, a)
    BY <2>6, <2>7, <2>8, FitsAppended, CapacityAssumption
  <2>10. MemoryFits(m, q, r, c, s + len)
    BY <2>6, <2>7, <2>8, FitsAppended, CapacityAssumption
  <2>11. wPending' = q
    BY <2>4, <2>5, <2>7, <2>8
  <2> QED
    BY <2>5, <2>9, <2>10, <2>11
<1>10. Count' = c /\ ReaderSize' = a /\ sent' = s + len /\ (s + len) - c = (s - c) + len
  BY <1>1, <1>6, <1>7 DEF Count, ReaderSize
<1>11. wIndex' \in Index /\ CalcSize(rIndex, wIndex') = (s - c) + len
  BY <1>1, <1>3, <1>6, <1>8, Lengthened
<1>12. Types'
  BY <1>1, <1>2, <1>9, <1>10, <1>11 DEF Types
<1>13. IndexInv'
  <2>1. sent' - Count' = (s - c) + len
    BY <1>10
  <2>2. c <= s + len /\ a <= (s - c) + len /\ b + ((s - c) + len) < mCapacity
    BY <1>8, CapacityAssumption
  <2>3. CalcSize(rIndex, wIndex)' = sent' - Count'
    BY <1>1, <1>11, <2>1
  <2>4. Count' <= sent' /\ ReaderSize' <= sent' - Count'
    BY <1>10, <2>1, <2>2
  <2>5. CalcSize(mReadIndex, rIndex)' + (sent' - Count') < mCapacity
    BY <1>1, <1>7, <2>1, <2>2
  <2> QED
    BY <1>1, <1>2, <2>3, <2>4, <2>5 DEF IndexInv
<1>14. ReaderInv' /\ InOrderExactlyOnce'
  BY <1>1, <1>2, <1>7, <1>10 DEF ReaderInv, InOrderExactlyOnce
<1>15. /\ StoresFit(wPending, rIndex, Count, sent, ReaderSize)'
       /\ MemoryFits(mBaseMemory, wPending, rIndex, Count, sent)'
  BY <1>1, <1>9, <1>10
<1> QED
  BY <1>12, <1>13, <1>14, <1>15 DEF IInv

\* The oldest store reaches the reader: a byte behind what it knows of, or an
\* index that tells it of bytes that are in place.
LEMMA PublishInv ==
  ASSUME StoreOrder = "program", IInv, NEW i \in 1 .. MaxPending, Publish(i)
  PROVE  IInv'
<1>1. /\ Types /\ IndexInv /\ ReaderInv /\ InOrderExactlyOnce
      /\ StoresFit(wPending, rIndex, Count, sent, ReaderSize)
      /\ MemoryFits(mBaseMemory, wPending, rIndex, Count, sent)
  BY DEF IInv
<1>2. /\ i = 1 /\ 1 \in 1 .. Len(wPending)
      /\ UNCHANGED <<mReadIndex, wIndex, sent, rIndex, rPending, rLen, rTodo, dest, delivered>>
  BY DEF Publish, MayPublish, readerVars
<1>3. PICK p \in Seq(Stores) : p = wPending
  BY <1>1 DEF Types
<1>4. PICK l \in Nat : Len(p) = l + 1
  <2>1. Len(p) \in Nat /\ 1 <= Len(p)
    BY <1>2, <1>3
  <2>2. Len(p) - 1 \in Nat /\ Len(p) = (Len(p) - 1) + 1
    BY <2>1
  <2> QED
    BY <2>2
<1>5. PICK q : q = [j \in 1 .. l |-> p[j + 1]]
  OBVIOUS
<1>6. q \in Seq(Stores) /\ Len(q) = l /\ \A j \in 1 .. l : q[j] = p[j + 1]
  <2>1. ASSUME NEW j \in 1 .. l PROVE p[j + 1] \in Stores
    <3>1. j + 1 \in 1 .. Len(p)
      BY <1>4
    <3> QED
      BY <3>1, Element
  <2>2. q \in [1 .. l -> Stores]
    BY <1>5, <2>1
  <2> QED
    BY <1>5, <2>2
<1>7. wPending' = q
  <2>1. wPending' = [j \in 1 .. (Len(p) - 1) |-> IF j < 1 THEN p[j] ELSE p[j + 1]]
    BY <1>2, <1>3 DEF Publish
  <2>2. Len(p) - 1 = l
    BY <1>4
  <2>3. \A j \in 1 .. l : ~(j < 1)
    OBVIOUS
  <2> QED
    BY <1>5, <2>1, <2>2, <2>3
<1>8. /\ Count \in Nat /\ sent \in Nat /\ Count <= sent /\ sent - Count < mCapacity
      /\ rIndex \in Index /\ ReaderSize \in Nat /\ ReaderSize <= sent - Count
  BY <1>1, Numbers
<1>9. PICK c \in Nat, s \in Nat, a \in Nat : c = Count /\ s = sent /\ a = ReaderSize
  BY <1>8
<1>10. PICK m \in [Cell -> Nat] : m = mBaseMemory
  BY <1>1 DEF Types
<1>11. /\ StoresFit(p, rIndex, c, s, a) /\ MemoryFits(m, p, rIndex, c, s)
       /\ s - c < mCapacity /\ p # <<>> /\ Len(q) = Len(p) - 1
       /\ \A j \in 1 .. Len(q) : q[j] = p[j + 1]
  BY <1>1, <1>3, <1>4, <1>6, <1>8, <1>9, <1>10
<1>12. Count' = c /\ sent' = s /\ InOrderExactlyOnce'
  BY <1>1, <1>2, <1>9 DEF Count, InOrderExactlyOnce
<1>13. CASE Announces(p[1])
  <2>1. mWriteIndex' = p[1].val /\ mBaseMemory' = m
    BY <1>2, <1>3, <1>10, <1>13 DEF Publish, Announces
  <2>2. /\ p[1].val \in Index /\ CalcSize(rIndex, p[1].val) <= s - c
        /\ a <= CalcSize(rIndex, p[1].val)
        /\ StoresFit(q, rIndex, c, s, CalcSize(rIndex, p[1].val))
        /\ MemoryFits(m, q, rIndex, c, s)
    BY <1>6, <1>8, <1>11, <1>13, FitsAnnounced
  <2>3. PICK d \in Nat : d = CalcSize(rIndex, p[1].val)
    BY <1>8, <2>2, Distance
  <2>4. ReaderSize' = d
    BY <1>2, <2>1, <2>3 DEF ReaderSize
  <2>5. Types'
    BY <1>1, <1>2, <1>6, <1>7, <1>10, <2>1, <2>2 DEF Types
  <2>6. IndexInv'
    <3>1. ReaderSize' <= sent' - Count' /\ sent' - Count' = sent - Count /\ Count' = Count
      BY <1>9, <1>12, <2>2, <2>3, <2>4
    <3> QED
      BY <1>1, <1>2, <3>1 DEF IndexInv
  <2>7. ReaderInv'
    <3>1. rLen' \in Nat /\ rLen' <= a /\ a <= d
      BY <1>1, <1>2, <1>9, <2>2, <2>3 DEF ReaderInv, Types
    <3>2. rLen' <= ReaderSize'
      BY <2>4, <3>1
    <3> QED
      BY <1>1, <1>2, <1>9, <1>12, <3>2 DEF ReaderInv
  <2>8. /\ StoresFit(wPending, rIndex, Count, sent, ReaderSize)'
        /\ MemoryFits(mBaseMemory, wPending, rIndex, Count, sent)'
    BY <1>2, <1>7, <1>12, <2>1, <2>2, <2>3, <2>4
  <2> QED
    BY <1>12, <2>5, <2>6, <2>7, <2>8 DEF IInv
<1>14. CASE ~Announces(p[1])
  <2>1. mWriteIndex' = mWriteIndex /\ mBaseMemory' = [m EXCEPT ![p[1].loc] = p[1].val]
    BY <1>2, <1>3, <1>10, <1>14 DEF Publish, Announces
  <2>2. /\ p[1].loc \in Cell /\ p[1].val \in Nat /\ StoresFit(q, rIndex, c, s, a)
        /\ MemoryFits([m EXCEPT ![p[1].loc] = p[1].val], q, rIndex, c, s)
    BY <1>6, <1>8, <1>11, <1>14, FitsStored
  <2>3. ReaderSize' = a
    BY <1>2, <1>9, <2>1 DEF ReaderSize
  <2>4. Types'
    BY <1>1, <1>2, <1>6, <1>7, <2>1, <2>2 DEF Types
  <2>5. IndexInv' /\ ReaderInv'
    <3>1. Count' = Count /\ ReaderSize' = ReaderSize
      BY <1>9, <1>12, <2>3
    <3>2. IndexInv'
      BY <1>1, <1>2, <3>1 DEF IndexInv
    <3>3. ReaderInv'
      BY <1>1, <1>2, <3>1 DEF ReaderInv
    <3> QED
      BY <3>2, <3>3
  <2>6. /\ StoresFit(wPending, rIndex, Count, sent, ReaderSize)'
        /\ MemoryFits(mBaseMemory, wPending, rIndex, Count, sent)'
    BY <1>2, <1>7, <1>12, <2>1, <2>2, <2>3
  <2> QED
    BY <1>12, <2>4, <2>5, <2>6 DEF IInv
<1> QED
  BY <1>13, <1>14

\* read() starts on what the reader knows of.
LEMMA ReadBeginInv ==
  ASSUME IInv, NEW maxLen \in 1 .. mCapacity, ReadBegin(maxLen)
  PROVE  IInv'
<1>1. /\ Types /\ IndexInv /\ InOrderExactlyOnce
      /\ StoresFit(wPending, rIndex, Count, sent, ReaderSize)
      /\ MemoryFits(mBaseMemory, wPending, rIndex, Count, sent)
  BY DEF IInv
<1>2. /\ rLen' = Clip(maxLen, ReaderSize) /\ rTodo' = 0 .. (rLen' - 1)
      /\ UNCHANGED <<mBaseMemory, mWriteIndex, mReadIndex, wIndex, wPending, sent, rIndex,
                     rPending, dest, delivered>>
  BY DEF ReadBegin, writerVars
<1>3. ReaderSize \in Nat
  BY <1>1, Numbers
<1>4. rLen' \in 0 .. mCapacity /\ rLen' <= ReaderSize
  BY <1>2, <1>3, CapacityAssumption DEF Clip
<1>5. /\ Count' = Count /\ ReaderSize' = ReaderSize
      /\ (IndexInv <=> IndexInv') /\ InOrderExactlyOnce'
  <2>1. Count' = Count /\ ReaderSize' = ReaderSize /\ InOrderExactlyOnce'
    BY <1>1, <1>2 DEF Count, ReaderSize, InOrderExactlyOnce
  <2> QED
    BY <1>2, <2>1 DEF IndexInv
<1>6. Types'
  BY <1>1, <1>2, <1>4 DEF Types
<1>7. ReaderInv'
  BY <1>2, <1>4, <1>5 DEF ReaderInv
<1> QED
  BY <1>1, <1>2, <1>5, <1>6, <1>7 DEF IInv

\* A byte that the reader knows of is in its place: no store to it is on its way.
LEMMA KnownInPlace ==
  ASSUME NEW r \in Index, NEW c \in Nat, NEW s \in Nat, NEW a \in Nat, NEW m,
         NEW p \in Seq(Stores), NEW k \in 0 .. a - 1, a <= s - c,
         StoresFit(p, r, c, s, a), MemoryFits(m, p, r, c, s)
  PROVE  m[CellAt(r, k)] = c + k + 1
<1>1. PICK b \in c + 1 .. s : b = c + k + 1 /\ b < c + a + 1 /\ b - c - 1 = k
  OBVIOUS
<1>2. ASSUME NEW i \in 1 .. Len(p), ~Announces(p[i]) PROVE p[i].val # b
  <2>1. p[i].val \in c + a + 1 .. s
    BY <1>2 DEF StoresFit, BytesFit
  <2> QED
    BY <1>1, <2>1
<1>3. m[Place(r, c, b)] = b
  BY <1>1, <1>2 DEF MemoryFits
<1> QED
  BY <1>1, <1>3 DEF Place

\* What read() copies is what the writer put there.
LEMMA ReadCopyInv ==
  ASSUME IInv, NEW k \in Cell, ReadCopy(k)
  PROVE  IInv'
<1>1. /\ Types /\ IndexInv /\ ReaderInv /\ InOrderExactlyOnce
      /\ StoresFit(wPending, rIndex, Count, sent, ReaderSize)
      /\ MemoryFits(mBaseMemory, wPending, rIndex, Count, sent)
  BY DEF IInv
<1>2. /\ k \in rTodo /\ dest' = [dest EXCEPT ![k] = mBaseMemory[CellAt(rIndex, k)]]
      /\ rTodo' = rTodo \ {k}
      /\ UNCHANGED <<mBaseMemory, mWriteIndex, mReadIndex, wIndex, wPending, sent, rIndex,
                     rPending, rLen, delivered>>
  BY DEF ReadCopy, writerVars
<1>3. PICK r \in Index, c \in Nat, s \in Nat, a \in Nat, p \in Seq(Stores), m \in [Cell -> Nat] :
        /\ r = rIndex /\ c = Count /\ s = sent /\ a = ReaderSize /\ p = wPending
        /\ m = mBaseMemory
  BY <1>1, Numbers DEF Types
<1>4. k \in 0 .. a - 1 /\ a <= s - c
  <2>1. rLen \in Nat /\ rTodo \subseteq 0 .. rLen - 1 /\ rLen <= a
    BY <1>1, <1>3 DEF Types, ReaderInv
  <2>2. a <= s - c
    BY <1>1, <1>3 DEF IndexInv
  <2> QED
    BY <1>2, <2>1, <2>2
<1>5. mBaseMemory[CellAt(rIndex, k)] = Count + k + 1
  <2>1. m[CellAt(r, k)] = c + k + 1
    BY <1>1, <1>3, <1>4, KnownInPlace
  <2> QED
    BY <1>3, <2>1
<1>6. dest' = [dest EXCEPT ![k] = Count + k + 1] /\ dest \in [Cell -> Nat] /\ Count + k + 1 \in Nat
  BY <1>1, <1>2, <1>3, <1>4, <1>5 DEF Types
<1>7. Count' = Count /\ ReaderSize' = ReaderSize /\ InOrderExactlyOnce'
  BY <1>1, <1>2 DEF Count, ReaderSize, InOrderExactlyOnce
<1>8. IndexInv'
  BY <1>1, <1>2, <1>7 DEF IndexInv
<1>9. Types'
  <2>1. dest' \in [Cell -> Nat]
    BY <1>6
  <2>2. rTodo' \subseteq 0 .. rLen' - 1
    BY <1>1, <1>2 DEF Types
  <2> QED
    BY <1>1, <1>2, <2>1, <2>2 DEF Types
<1>10. ReaderInv'
  <2>1. ASSUME NEW j \in 0 .. rLen - 1, j \notin rTodo \ {k} PROVE dest'[j] = Count + j + 1
    <3>1. CASE j = k
      BY <1>6, <3>1
    <3>2. CASE j # k
      <4>1. j \notin rTodo
        BY <2>1, <3>2
      <4>2. dest[j] = Count + j + 1 /\ j \in Cell
        <5>1. rLen \in 0 .. mCapacity
          BY <1>1 DEF Types
        <5> QED
          BY <1>1, <4>1, <5>1, CapacityAssumption DEF ReaderInv, Cell
      <4> QED
        BY <1>6, <3>2, <4>2
    <3> QED
      BY <3>1, <3>2
  <2> QED
    BY <1>1, <1>2, <1>7, <2>1 DEF ReaderInv
<1> QED
  BY <1>1, <1>2, <1>7, <1>8, <1>9, <1>10 DEF IInv

\* What was delivered with more behind it.
LEMMA Delivered ==
  ASSUME NEW d \in Seq(Nat), NEW e \in Seq(Nat)
  PROVE  /\ d \o e \in Seq(Nat) /\ Len(d \o e) = Len(d) + Len(e)
         /\ \A k \in 1 .. Len(d) : (d \o e)[k] = d[k]
         /\ \A k \in 1 .. Len(e) : (d \o e)[Len(d) + k] = e[k]
OBVIOUS

\* read() hands over what it copied, the next bytes of the stream, and moves
\* its index over them.
LEMMA ReadCommitInv ==
  ASSUME IInv, ReadCommit
  PROVE  IInv'
<1>1. /\ Types /\ IndexInv /\ ReaderInv /\ InOrderExactlyOnce
      /\ StoresFit(wPending, rIndex, Count, sent, ReaderSize)
      /\ MemoryFits(mBaseMemory, wPending, rIndex, Count, sent)
  BY DEF IInv
<1>2. /\ rTodo = {} /\ rIndex' = Advance(rIndex, rLen) /\ rPending' = Append(rPending, rIndex')
      /\ delivered' = delivered \o [k \in 1 .. rLen |-> dest[k - 1]] /\ rLen' = 0
      /\ UNCHANGED <<mBaseMemory, mWriteIndex, mReadIndex, wIndex, wPending, sent, rTodo, dest>>
  BY DEF ReadCommit, writerVars
<1>3. /\ Count \in Nat /\ sent \in Nat /\ Count <= sent /\ sent - Count < mCapacity
      /\ rIndex \in Index /\ wIndex \in Index /\ mWriteIndex \in Index /\ mReadIndex \in Index
      /\ ReaderSize \in Nat /\ ReaderSize <= sent - Count
      /\ CalcSize(mReadIndex, rIndex) \in Nat
      /\ CalcSize(mReadIndex, rIndex) + (sent - Count) < mCapacity
      /\ CalcSize(rIndex, wIndex) = sent - Count
  BY <1>1, Numbers DEF IndexInv
<1>4. PICK b \in Nat, c \in Nat, s \in Nat, a \in Nat, r \in Index :
        /\ b = CalcSize(mReadIndex, rIndex) /\ c = Count /\ s = sent /\ a = ReaderSize
        /\ r = rIndex
  BY <1>3
<1>5. PICK l \in Nat : l = rLen /\ l <= a
  BY <1>1, <1>4 DEF Types, ReaderInv
<1>6. /\ c <= s /\ l <= a /\ a <= s - c /\ l <= s - c /\ b + (s - c) < mCapacity
      /\ b + l < mCapacity /\ s - c < mCapacity
      /\ s - (c + l) = (s - c) - l /\ (b + l) + ((s - c) - l) = b + (s - c) /\ c + l \in Nat
      /\ c + l <= s /\ a - l <= (s - c) - l
  BY <1>3, <1>4, <1>5, CapacityAssumption
<1>7. /\ rIndex' = Advance(r, l) /\ rIndex' \in Index
      /\ CalcSize(rIndex', wIndex) = (s - c) - l /\ CalcSize(rIndex', mWriteIndex) = a - l
      /\ CalcSize(mReadIndex, rIndex') = b + l
  <2>1. CalcSize(r, wIndex) = s - c /\ CalcSize(r, mWriteIndex) = a /\ CalcSize(mReadIndex, r) = b
    BY <1>3, <1>4 DEF ReaderSize
  <2>2. /\ Advance(r, l) \in Index /\ CalcSize(Advance(r, l), wIndex) = (s - c) - l
    BY <1>3, <1>6, <2>1, Shortened
  <2>3. CalcSize(Advance(r, l), mWriteIndex) = a - l
    <3>1. a < mCapacity
      BY <1>6, CapacityAssumption
    <3> QED
      BY <1>3, <1>6, <2>1, <3>1, Shortened
  <2>4. CalcSize(mReadIndex, Advance(r, l)) = b + l
    BY <1>3, <1>6, <2>1, Lengthened
  <2> QED
    BY <1>2, <1>4, <1>5, <2>2, <2>3, <2>4
<1>8. /\ delivered' \in Seq(Nat) /\ Len(delivered') = c + l
      /\ \A k \in 1 .. c + l : delivered'[k] = k
  <2>1. PICK d \in Seq(Nat) : d = delivered /\ Len(d) = c
    BY <1>1, <1>4 DEF Types, Count
  <2>2. PICK e : e = [k \in 1 .. l |-> dest[k - 1]]
    OBVIOUS
  <2>3. ASSUME NEW k \in 1 .. l PROVE dest[k - 1] = c + k
    <3>1. k - 1 \in 0 .. rLen - 1 /\ k - 1 \notin rTodo /\ Count + (k - 1) + 1 = c + k
      BY <1>2, <1>4, <1>5
    <3> QED
      BY <1>1, <3>1 DEF ReaderInv
  <2>4. e \in Seq(Nat) /\ Len(e) = l /\ \A k \in 1 .. l : e[k] = c + k
    <3>1. e \in [1 .. l -> Nat]
      BY <2>2, <2>3
    <3> QED
      BY <2>2, <2>3, <3>1
  <2>5. \A k \in 1 .. c : d[k] = k
    BY <1>1, <2>1 DEF InOrderExactlyOnce
  <2>6. PICK f \in Seq(Nat) : f = d \o e
    BY <2>1, <2>4, Delivered
  <2>7. Len(f) = c + l /\ (\A k \in 1 .. c : f[k] = d[k]) /\ \A k \in 1 .. l : f[c + k] = e[k]
    <3>1. PICK g \in Seq(Nat) : g = e
      BY <2>4
    <3>2. /\ Len(d \o g) = Len(d) + Len(g) /\ (\A k \in 1 .. Len(d) : (d \o g)[k] = d[k])
          /\ \A k \in 1 .. Len(g) : (d \o g)[Len(d) + k] = g[k]
      BY Delivered
    <3>3. Len(g) = l /\ Len(d) = c /\ f = d \o g
      BY <2>1, <2>4, <2>6, <3>1
    <3> QED
      BY <3>1, <3>2, <3>3
  <2>8. ASSUME NEW k \in 1 .. c + l PROVE f[k] = k
    <3>1. CASE k <= c
      BY <2>5, <2>7, <3>1
    <3>2. CASE k > c
      <4>1. k - c \in 1 .. l /\ c + (k - c) = k
        BY <3>2
      <4> QED
        BY <2>4, <2>7, <4>1
    <3> QED
      BY <3>1, <3>2
  <2>9. delivered' = f
    BY <1>2, <1>5, <2>1, <2>2, <2>6
  <2> QED
    BY <2>7, <2>8, <2>9
<1>9. Count' = c + l /\ sent' = s /\ ReaderSize' = a - l
  BY <1>2, <1>4, <1>7, <1>8 DEF Count, ReaderSize
<1>10. PICK x \in Seq(Index), y \in Seq(Index) :
         /\ x = rPending /\ y = rPending' /\ Len(y) = Len(x) + 1 /\ Len(x) \in Nat
         /\ (\A i \in 1 .. Len(x) : y[i] = x[i]) /\ y[Len(x) + 1] = rIndex'
  <2>1. PICK x \in Seq(Index) : x = rPending
    BY <1>1 DEF Types
  <2>2. PICK y : y = Append(x, rIndex')
    OBVIOUS
  <2>3. /\ y \in Seq(Index) /\ Len(y) = Len(x) + 1 /\ Len(x) \in Nat
        /\ (\A i \in 1 .. Len(x) : y[i] = x[i]) /\ y[Len(x) + 1] = rIndex'
    BY <1>7, <2>2
  <2> QED
    BY <1>2, <2>1, <2>2, <2>3
<1>11. PICK n \in Nat : n = Len(x)
  BY <1>10
<1>12. ASSUME NEW i \in 1 .. n
       PROVE  /\ y[i] = x[i] /\ x[i] \in Index /\ CalcSize(x[i], r) \in Nat
              /\ CalcSize(x[i], r) <= b /\ CalcSize(x[i], rIndex') = CalcSize(x[i], r) + l
  <2>1. y[i] = x[i] /\ x[i] \in Index
    BY <1>10, <1>11, Element
  <2>2. PICK d \in Nat : d = CalcSize(x[i], r)
    BY <2>1, Distance
  <2>3. CalcSize(x[i], r) <= b
    BY <1>1, <1>4, <1>10, <1>11 DEF IndexInv
  <2>4. d + l < mCapacity
    BY <1>6, <2>2, <2>3, CapacityAssumption
  <2>5. CalcSize(x[i], Advance(r, l)) = CalcSize(x[i], r) + l
    BY <2>1, <2>2, <2>4, Lengthened
  <2> QED
    BY <1>7, <2>1, <2>2, <2>3, <2>5
<1>13. CalcSize(y[n + 1], rIndex') = 0
  BY <1>7, <1>10, <1>11, Distance
<1>14. Types'
  <2>1. rLen' \in 0 .. mCapacity /\ rTodo' \subseteq 0 .. rLen' - 1
    BY <1>2, CapacityAssumption
  <2> QED
    BY <1>1, <1>2, <1>7, <1>8, <1>10, <2>1 DEF Types
<1>15. IndexInv'
  <2>1. \A i \in 1 .. Len(y) : i \in 1 .. n \/ i = n + 1
    BY <1>10, <1>11
  <2>2. ASSUME NEW i \in 1 .. Len(y) PROVE CalcSize(y[i], rIndex') <= b + l
    <3>1. CASE i \in 1 .. n
      <4>1. PICK d \in Nat : d = CalcSize(x[i], r) /\ d <= b
        BY <1>12, <3>1
      <4> QED
        BY <1>12, <3>1, <4>1
    <3>2. CASE i = n + 1
      BY <1>13, <3>2
    <3> QED
      BY <2>1, <3>1, <3>2
  <2>3. ASSUME NEW i \in 1 .. Len(y), NEW j \in 1 .. Len(y), i < j
        PROVE  CalcSize(y[j], rIndex') <= CalcSize(y[i], rIndex')
    <3>1. i \in 1 .. n
      BY <1>10, <1>11, <2>1, <2>3
    <3>2. PICK d \in Nat : d = CalcSize(x[i], r) /\ CalcSize(y[i], rIndex') = d + l
      BY <1>12, <3>1
    <3>3. CASE j \in 1 .. n
      <4>1. PICK e \in Nat : e = CalcSize(x[j], r) /\ CalcSize(y[j], rIndex') = e + l
        BY <1>12, <3>3
      <4>2. e <= d
        BY <1>1, <1>4, <1>10, <1>11, <2>3, <3>1, <3>2, <3>3, <4>1 DEF IndexInv
      <4> QED
        BY <3>2, <4>1, <4>2
    <3>4. CASE j = n + 1
      BY <1>13, <3>2, <3>4
    <3> QED
      BY <2>1, <3>3, <3>4
  <2>4. /\ Count' <= sent' /\ CalcSize(rIndex, wIndex)' = sent' - Count'
        /\ ReaderSize' <= sent' - Count'
        /\ CalcSize(mReadIndex, rIndex)' + (sent' - Count') < mCapacity
    BY <1>2, <1>6, <1>7, <1>9
  <2>5. /\ \A i \in 1 .. Len(rPending') :
             CalcSize(rPending'[i], rIndex') <= CalcSize(mReadIndex', rIndex')
        /\ \A i, j \in 1 .. Len(rPending') :
             i < j => CalcSize(rPending'[j], rIndex') <= CalcSize(rPending'[i], rIndex')
    BY <1>2, <1>7, <1>10, <2>2, <2>3
  <2> QED
    BY <2>4, <2>5 DEF IndexInv
<1>16. InOrderExactlyOnce'
  BY <1>8 DEF InOrderExactlyOnce
<1>17. ReaderInv'
  <2>1. a - l \in Nat /\ 0 <= a - l
    BY <1>6
  <2> QED
    BY <1>2, <1>9, <2>1 DEF ReaderInv
<1>18. /\ StoresFit(wPending, rIndex, Count, sent, ReaderSize)'
       /\ MemoryFits(mBaseMemory, wPending, rIndex, Count, sent)'
  <2>1. PICK p \in Seq(Stores), m \in [Cell -> Nat] : p = wPending /\ m = mBaseMemory
    BY <1>1 DEF Types
  <2>2. StoresFit(p, r, c, s, a) /\ MemoryFits(m, p, r, c, s)
    BY <1>1, <1>4, <2>1
  <2>3. /\ StoresFit(p, Advance(r, l), c + l, s, a - l)
        /\ MemoryFits(m, p, Advance(r, l), c + l, s)
    BY <1>6, <2>2, FitsRead, CapacityAssumption
  <2> QED
    BY <1>2, <1>7, <1>9, <2>1, <2>3
<1> QED
  BY <1>14, <1>15, <1>16, <1>17, <1>18 DEF IInv

\* The indexes on their way without the oldest.
LEMMA Oldest ==
  ASSUME NEW x \in Seq(Index), x # <<>>
  PROVE  /\ Tail(x) \in Seq(Index) /\ Head(x) = x[1]
         /\ Len(Tail(x)) \in Nat /\ Len(x) = Len(Tail(x)) + 1
         /\ \A i \in 1 .. Len(Tail(x)) : Tail(x)[i] = x[i + 1]
OBVIOUS

\* The writer learns of the oldest read() it did not know of.
LEMMA PublishReadInv ==
  ASSUME IInv, PublishRead
  PROVE  IInv'
<1>1. /\ Types /\ IndexInv /\ ReaderInv /\ InOrderExactlyOnce
      /\ StoresFit(wPending, rIndex, Count, sent, ReaderSize)
      /\ MemoryFits(mBaseMemory, wPending, rIndex, Count, sent)
  BY DEF IInv
<1>2. /\ rPending # <<>> /\ mReadIndex' = Head(rPending) /\ rPending' = Tail(rPending)
      /\ UNCHANGED <<mBaseMemory, mWriteIndex, wIndex, wPending, sent, rIndex, rLen, rTodo,
                     dest, delivered>>
  BY DEF PublishRead, writerVars
<1>3. PICK x \in Seq(Index), y \in Seq(Index), n \in Nat :
        /\ x = rPending /\ y = rPending' /\ n = Len(y) /\ Len(x) = n + 1
        /\ mReadIndex' = x[1] /\ \A i \in 1 .. n : y[i] = x[i + 1]
  <2>1. PICK x \in Seq(Index) : x = rPending /\ x # <<>>
    BY <1>1, <1>2 DEF Types
  <2>2. PICK y \in Seq(Index) : y = Tail(x)
    BY <2>1, Oldest
  <2>3. /\ Len(y) \in Nat /\ Len(x) = Len(y) + 1 /\ Head(x) = x[1]
        /\ \A i \in 1 .. Len(y) : y[i] = x[i + 1]
    BY <2>1, <2>2, Oldest
  <2> QED
    BY <1>2, <2>1, <2>2, <2>3
<1>4. PICK b \in Nat, r \in Index : b = CalcSize(mReadIndex, rIndex) /\ r = rIndex
  BY <1>1, Numbers
<1>5. /\ \A i \in 1 .. n + 1 : CalcSize(x[i], r) <= b
      /\ \A i, j \in 1 .. n + 1 : i < j => CalcSize(x[j], r) <= CalcSize(x[i], r)
  BY <1>1, <1>3, <1>4 DEF IndexInv
<1>6. 1 \in 1 .. n + 1 /\ x[1] \in Index
  BY <1>3, Element
<1>7. PICK d \in Nat : d = CalcSize(x[1], r) /\ d <= b
  BY <1>5, <1>6, Distance
<1>8. Count' = Count /\ ReaderSize' = ReaderSize /\ InOrderExactlyOnce'
  BY <1>1, <1>2 DEF Count, ReaderSize, InOrderExactlyOnce
<1>9. Types'
  BY <1>1, <1>2, <1>3, <1>6 DEF Types
<1>10. IndexInv'
  <2>1. PICK f \in Nat : f = sent - Count /\ b + f < mCapacity
    BY <1>1, <1>4, Numbers DEF IndexInv
  <2>2. d + f < mCapacity
    BY <1>7, <2>1, CapacityAssumption
  <2>3. CalcSize(mReadIndex', rIndex') + (sent' - Count') < mCapacity
    BY <1>2, <1>3, <1>4, <1>7, <1>8, <2>1, <2>2
  <2>4. ASSUME NEW i \in 1 .. n
        PROVE  i + 1 \in 1 .. n + 1 /\ 1 < i + 1 /\ y[i] = x[i + 1]
    BY <1>3
  <2>5. \A i \in 1 .. n : CalcSize(y[i], r) <= CalcSize(x[1], r)
    BY <1>5, <1>6, <2>4
  <2>6. \A i, j \in 1 .. n : i < j => CalcSize(y[j], r) <= CalcSize(y[i], r)
    <3>1. \A i, j \in 1 .. n : i < j => i + 1 < j + 1
      OBVIOUS
    <3> QED
      BY <1>5, <2>4, <3>1
  <2>7. /\ \A i \in 1 .. Len(rPending') :
             CalcSize(rPending'[i], rIndex') <= CalcSize(mReadIndex', rIndex')
        /\ \A i, j \in 1 .. Len(rPending') :
             i < j => CalcSize(rPending'[j], rIndex') <= CalcSize(rPending'[i], rIndex')
    BY <1>2, <1>3, <1>4, <2>5, <2>6
  <2>8. /\ Count' <= sent' /\ CalcSize(rIndex', wIndex') = sent' - Count'
        /\ ReaderSize' <= sent' - Count'
    BY <1>1, <1>2, <1>8 DEF IndexInv
  <2> QED
    BY <2>3, <2>7, <2>8 DEF IndexInv
<1>11. ReaderInv'
  BY <1>1, <1>2, <1>8 DEF ReaderInv
<1> QED
  BY <1>1, <1>2, <1>8, <1>9, <1>10, <1>11 DEF IInv

\* The invariant is inductive if a thread's stores keep their order.
LEMMA Inductive ==
  StoreOrder = "program" => (IInv /\ [Next]_vars => IInv')
<1> SUFFICES ASSUME StoreOrder = "program", IInv, [Next]_vars
             PROVE  IInv'
  OBVIOUS
<1>1. ASSUME NEW n \in 1 .. StreamLength, Write(n) PROVE IInv'
  BY <1>1, WriteInv
<1>2. ASSUME NEW i \in 1 .. MaxPending, Publish(i) PROVE IInv'
  BY <1>2, PublishInv
<1>3. ASSUME NEW maxLen \in 1 .. mCapacity, ReadBegin(maxLen) PROVE IInv'
  BY <1>3, ReadBeginInv
<1>4. ASSUME NEW k \in Cell, ReadCopy(k) PROVE IInv'
  BY <1>4, ReadCopyInv
<1>5. CASE ReadCommit
  BY <1>5, ReadCommitInv
<1>6. CASE PublishRead
  BY <1>6, PublishReadInv
<1>7. CASE Finished \/ UNCHANGED vars
  <2>1. UNCHANGED vars
    BY <1>7 DEF Finished
  <2>2. Count' = Count /\ ReaderSize' = ReaderSize
    BY <2>1 DEF vars, Count, ReaderSize
  <2>3. Types' /\ IndexInv' /\ ReaderInv' /\ InOrderExactlyOnce'
    BY <2>1, <2>2 DEF vars, IInv, Types, IndexInv, ReaderInv, InOrderExactlyOnce
  <2>4. /\ StoresFit(wPending, rIndex, Count, sent, ReaderSize)'
        /\ MemoryFits(mBaseMemory, wPending, rIndex, Count, sent)'
    BY <2>1, <2>2 DEF vars, IInv
  <2> QED
    BY <2>3, <2>4 DEF IInv
<1> QED
  BY <1>1, <1>2, <1>3, <1>4, <1>5, <1>6, <1>7 DEF Next

\* Every reachable state satisfies the invariant.
THEOREM Invariance ==
  ASSUME StoreOrder = "program"
  PROVE  Spec => []IInv
<1>1. Init => IInv
  BY InitInv
<1>2. IInv /\ [Next]_vars => IInv'
  BY Inductive
<1> QED
  BY <1>1, <1>2, PTL DEF Spec

\* The reader gets each byte of the stream once, in order, whatever the ring's
\* size, although copies and indexes are stored without a barrier (SPSC.h:131,
\* 149), as long as the machine and the compiler keep a thread's stores in
\* order; the run SPSCStoreOrder shows it of the same order.
THEOREM InOrderCorrect ==
  ASSUME StoreOrder = "program"
  PROVE  Spec => []InOrderExactlyOnce
<1>1. IInv => InOrderExactlyOnce
  BY DEF IInv
<1> QED
  BY <1>1, Invariance, PTL

\* size() never makes the writer believe in space, nor the reader in bytes,
\* that are not there (SPSC.h:116, 73), however late the other side's index
\* becomes visible.
THEOREM ViewsCorrect ==
  ASSUME StoreOrder = "program"
  PROVE  Spec => []ViewsAreConservative
<1>1. IInv => ViewsAreConservative
  <2> SUFFICES ASSUME IInv PROVE ViewsAreConservative
    OBVIOUS
  <2>1. /\ WriterSize = CalcSize(mReadIndex, rIndex) + (sent - Count)
        /\ CalcSize(mReadIndex, rIndex) \in Nat /\ ReaderSize <= sent - Count
        /\ Count \in Nat /\ sent \in Nat
    BY Numbers DEF IInv
  <2>2. WriterSize >= sent - Count
    BY <2>1
  <2> QED
    BY <2>1, <2>2 DEF ViewsAreConservative, Count
<1> QED
  BY <1>1, Invariance, PTL
=============================================================================
