------------------------ MODULE SimpleBuffer_proofs ------------------------
(***************************************************************************)
(* The buffer's safety for every size, limit and sequence of calls.  The   *)
(* invariant says what a buffer is (WellFormed): its locations are ordered *)
(* and lie inside the allocation, which may be larger than mMaxLen says    *)
(* (shrinkBuffer()); each operation of GrowingBuffer keeps it.             *)
(***************************************************************************)
EXTENDS SimpleBuffer, TLAPS

Limit == mMaxGrowSize

\* What malloc() returns.
Memory == UNION {[0 .. a - 1 -> Nat] : a \in Nat}

Buffers == [mem : Memory, start : Nat, end : Nat, max : Nat, grow : Nat]

WellFormed(b) ==
  /\ b \in Buffers
  /\ b.start <= b.end /\ b.end <= b.max /\ b.max <= Limit /\ b.grow = Limit
  /\ 0 .. b.max - 1 \subseteq DOMAIN b.mem

\* The bytes that wait are the last ones added before "last".
Holds(b, last) ==
  \A i \in 1 .. b.end - b.start : b.mem[b.start + i - 1] = last - (b.end - b.start) + i

\* The same bytes wait in both.
SameContent(b, c) ==
  /\ c.end - c.start = b.end - b.start
  /\ \A i \in 0 .. b.end - b.start - 1 : c.mem[c.start + i] = b.mem[b.start + i]

\* What the assumptions on the sizes say of them one by one.
LEMMA ConstantFacts ==
  /\ Limit \in Nat /\ DefaultLen \in 0 .. Limit /\ MaxAdded \in Nat /\ Modulus \in Nat
  /\ 2 * Limit < Modulus
  /\ \A n \in Sizes : n \in Nat /\ 2 * Limit + n < Modulus
  /\ \A size \in ResetSizes : size \in 0 .. Limit
BY SizeAssumption, ModulusAssumption DEF Limit, mMaxGrowSize, NewBuffer

\* The memory the constructor allocates has a byte at each location.
LEMMA BlankIsMemory ==
  ASSUME NEW len \in Nat
  PROVE  Blank(len) \in Memory /\ DOMAIN Blank(len) = 0 .. len - 1
<1>1. Blank(len) \in [0 .. len - 1 -> Nat]
  BY DEF Blank, Unwritten
<1> QED
  BY <1>1 DEF Memory, Blank

\* Memory keeps its extent when bytes in it change.
LEMMA SameExtent ==
  ASSUME NEW mem \in Memory, NEW f, f = [i \in DOMAIN mem |-> f[i]],
         \A i \in DOMAIN mem : f[i] \in Nat
  PROVE  f \in Memory /\ DOMAIN f = DOMAIN mem
<1>1. PICK a \in Nat : mem \in [0 .. a - 1 -> Nat]
  BY DEF Memory
<1>2. f \in [0 .. a - 1 -> Nat]
  BY <1>1
<1> QED
  BY <1>1, <1>2 DEF Memory

\* What is stored at a location of a memory is a byte.
LEMMA MemoryBytes ==
  ASSUME NEW mem \in Memory, NEW i \in DOMAIN mem
  PROVE  mem[i] \in Nat
BY DEF Memory

\* Within the limit unsigned arithmetic is plain arithmetic.
LEMMA SizeIs ==
  ASSUME NEW b, WellFormed(b)
  PROVE  /\ Size(b) = b.end - b.start /\ Size(b) \in Nat
         /\ Available(b) = b.max - b.end /\ Available(b) \in Nat
BY ConstantFacts DEF WellFormed, Buffers, Size, Available, U

\* A buffer with other memory and locations.
LEMMA Replaced ==
  ASSUME NEW b \in Buffers, NEW mem \in Memory, NEW start \in Nat, NEW end \in Nat
  PROVE  LET c == [b EXCEPT !.mem = mem, !.start = start, !.end = end]
         IN  /\ c \in Buffers /\ c.mem = mem /\ c.start = start /\ c.end = end
             /\ c.max = b.max /\ c.grow = b.grow
BY DEF Buffers

\* Rounding down to a multiple gives no more than the number rounded.
LEMMA Multiple ==
  ASSUME NEW n \in Nat, NEW d \in Nat \ {0}
  PROVE  d * (n \div d) \in 0 .. n
<1>1. n \div d \in Nat /\ n = (n \div d) * d + (n % d) /\ n % d \in 0 .. d - 1
  OBVIOUS
<1>2. d * (n \div d) = (n \div d) * d /\ d * (n \div d) \in Nat
  BY <1>1
<1> QED
  BY <1>1, <1>2

\* Compaction moves the content to the front; in ascending order every byte is
\* fetched before it is written over.
LEMMA CompactedKeeps ==
  ASSUME NEW b, WellFormed(b), NEW order \in {"ascending", "descending"}, b.start # 0
  PROVE  LET c == Compacted(b, order)
         IN  /\ WellFormed(c) /\ c.start = 0 /\ c.end = Size(b) /\ c.max = b.max
             /\ order = "ascending" =>
                  \A i \in 0 .. Size(b) - 1 : c.mem[i] = b.mem[b.start + i]
<1> DEFINE from(i) == Source(order, b.start, Size(b), i)
           mem == [i \in DOMAIN b.mem |-> IF i < Size(b) THEN b.mem[from(i)] ELSE b.mem[i]]
           c == Compacted(b, order)
<1>1. b \in Buffers /\ b.mem \in Memory /\ b.start \in Nat /\ b.end \in Nat /\ b.max \in Nat
  BY DEF WellFormed, Buffers
<1>2. Size(b) = b.end - b.start /\ Size(b) \in Nat
  BY SizeIs
<1>3. DOMAIN b.mem \subseteq Nat
  BY <1>1 DEF Memory
<1>4. ASSUME NEW i \in 0 .. Size(b) - 1 PROVE from(i) \in b.start .. b.end - 1
  <2>1. i \in Nat /\ Size(b) - 1 - i \in Nat /\ b.start \in Nat \ {0}
    BY <1>1, <1>2, <1>4
  <2>2. b.start * ((Size(b) - 1 - i) \div b.start) \in 0 .. Size(b) - 1 - i
    BY <2>1, Multiple
  <2>3. from(i) = b.start + i \/ from(i) = b.start + i + b.start * ((Size(b) - 1 - i) \div b.start)
    BY <1>1, <2>1 DEF Source
  <2> HIDE DEF from
  <2> QED
    BY <1>1, <1>2, <2>1, <2>2, <2>3
<1>5. ASSUME NEW i \in DOMAIN b.mem
      PROVE  (IF i < Size(b) THEN b.mem[from(i)] ELSE b.mem[i]) \in Nat
  <2>1. CASE i < Size(b)
    <3>1. from(i) \in b.start .. b.end - 1
      BY <1>2, <1>3, <1>4, <2>1
    <3> HIDE DEF from
    <3>2. from(i) \in DOMAIN b.mem
      BY <1>1, <3>1 DEF WellFormed
    <3> QED
      BY <1>1, <2>1, <3>2, MemoryBytes
  <2>2. CASE ~(i < Size(b))
    BY <1>1, <2>2, MemoryBytes
  <2> QED
    BY <2>1, <2>2
<1> HIDE DEF from
<1>6. mem \in Memory /\ DOMAIN mem = DOMAIN b.mem
  BY <1>1, <1>5, SameExtent
<1>7. c = [b EXCEPT !.mem = mem, !.start = 0, !.end = Size(b)]
  BY DEF Compacted, from
<1>8. Size(b) \in 0 .. b.max
  BY <1>1, <1>2 DEF WellFormed
<1> HIDE DEF mem, c
<1>9. /\ c \in Buffers /\ c.mem = mem /\ c.start = 0 /\ c.end = Size(b)
      /\ c.max = b.max /\ c.grow = b.grow
  <2>1. 0 \in Nat
    OBVIOUS
  <2> HIDE DEF mem
  <2>2. \A s, e \in Nat : LET d == [b EXCEPT !.mem = mem, !.start = s, !.end = e]
                          IN  /\ d \in Buffers /\ d.mem = mem /\ d.start = s /\ d.end = e
                              /\ d.max = b.max /\ d.grow = b.grow
    BY <1>1, <1>6, Replaced
  <2> QED
    BY <1>2, <1>7, <2>1, <2>2
<1>10. WellFormed(c)
  BY <1>6, <1>8, <1>9 DEF WellFormed
<1>11. ASSUME order = "ascending", NEW i \in 0 .. Size(b) - 1
       PROVE  c.mem[i] = b.mem[b.start + i]
  <2>1. i \in DOMAIN b.mem /\ i < Size(b)
    BY <1>1, <1>2, <1>8, <1>11 DEF WellFormed
  <2>2. from(i) = b.start + i
    BY <1>11 DEF Source, from
  <2> QED
    BY <1>9, <2>1, <2>2 DEF mem
<1> QED
  BY <1>9, <1>10, <1>11 DEF c

\* Growing leaves room for what was asked for.
LEMMA NewMaxLenIs ==
  ASSUME NEW b, WellFormed(b), NEW n \in Nat, 2 * Limit + n < Modulus
  PROVE  LET m == NewMaxLen(b, n)
         IN  m \in Nat /\ m >= b.max /\ m - Size(b) >= n
             /\ m <= 2 * b.max + n
             /\ (m > 2 * b.max => 2 * b.max - b.end < n)
<1>1. /\ b.start \in Nat /\ b.end \in Nat /\ b.max \in Nat
      /\ b.start <= b.end /\ b.end <= b.max /\ b.max <= Limit
  BY DEF WellFormed, Buffers
<1>2. Size(b) = b.end - b.start
  BY SizeIs
<1>3. U(b.max * 2) = 2 * b.max /\ U(2 * b.max - b.end) = 2 * b.max - b.end
      /\ U(2 * b.max + n) = 2 * b.max + n
  BY <1>1, ConstantFacts DEF U
<1>4. NewMaxLen(b, n) = IF 2 * b.max - b.end < n THEN 2 * b.max + n ELSE 2 * b.max
  BY <1>3 DEF NewMaxLen
<1> QED
  BY <1>1, <1>2, <1>4

\* Growing the memory makes the room asked for and keeps the content.
LEMMA EnlargedKeeps ==
  ASSUME NEW b, WellFormed(b), NEW n \in Nat, 2 * Limit + n < Modulus,
         NewMaxLen(b, n) <= b.grow
  PROVE  LET c == Enlarged(b, n)
         IN  /\ WellFormed(c) /\ c.max >= b.max /\ c.max - c.end >= n
             /\ SameContent(b, c)
<1> DEFINE m == NewMaxLen(b, n)
           mem == [i \in 0 .. m - 1 |-> IF i < Size(b) THEN b.mem[b.start + i] ELSE Unwritten]
           c == Enlarged(b, n)
<1>1. /\ b \in Buffers /\ b.mem \in Memory
      /\ b.start \in Nat /\ b.end \in Nat /\ b.max \in Nat
      /\ b.start <= b.end /\ b.end <= b.max /\ b.grow = Limit
      /\ 0 .. b.max - 1 \subseteq DOMAIN b.mem
  BY DEF WellFormed, Buffers
<1>2. Size(b) = b.end - b.start /\ Size(b) \in Nat
  BY SizeIs
<1>3. m \in Nat /\ m >= b.max /\ m - Size(b) >= n
  BY NewMaxLenIs
<1>4. c = [b EXCEPT !.mem = mem, !.start = 0, !.end = Size(b), !.max = m]
  BY DEF Enlarged
<1> HIDE DEF m
<1>5. ASSUME NEW i \in 0 .. m - 1
      PROVE  (IF i < Size(b) THEN b.mem[b.start + i] ELSE Unwritten) \in Nat
  <2>1. CASE i < Size(b)
    <3>1. b.start + i \in DOMAIN b.mem
      BY <1>1, <1>2, <1>3, <2>1
    <3> QED
      BY <1>1, <2>1, <3>1, MemoryBytes
  <2>2. CASE ~(i < Size(b))
    BY <2>2 DEF Unwritten
  <2> QED
    BY <2>1, <2>2
<1>6. mem \in [0 .. m - 1 -> Nat]
  BY <1>5
<1>7. mem \in Memory
  BY <1>3, <1>6 DEF Memory
<1>8. DOMAIN mem = 0 .. m - 1
  BY <1>6
<1>9. \A i \in 0 .. Size(b) - 1 : mem[i] = b.mem[b.start + i]
  BY <1>1, <1>2, <1>3
<1> HIDE DEF mem, c
<1>10. /\ c \in Buffers /\ c.mem = mem /\ c.start = 0 /\ c.end = Size(b)
       /\ c.max = m /\ c.grow = Limit
  BY <1>1, <1>2, <1>3, <1>4, <1>7 DEF Buffers
<1>11. WellFormed(c)
  BY <1>1, <1>2, <1>3, <1>8, <1>10 DEF WellFormed, m
<1>12. SameContent(b, c)
  BY <1>1, <1>2, <1>9, <1>10 DEF SameContent
<1> QED
  BY <1>3, <1>10, <1>11, <1>12 DEF c

\* What a call finds after the buffer was grown or growing was refused.
LEMMA PreparedKeeps ==
  ASSUME NEW b, WellFormed(b), NEW n \in Nat, 2 * Limit + n < Modulus,
         NEW order \in {"ascending", "descending"}
  PROVE  LET p == Prepared(b, n, order)
         IN  /\ WellFormed(p) /\ p.max >= b.max /\ Size(p) = Size(b)
             /\ order = "ascending" => SameContent(b, p)
<1> DEFINE p == Prepared(b, n, order)
<1>1. b.start \in Nat /\ b.end \in Nat /\ b.max \in Nat /\ b.start <= b.end
  BY DEF WellFormed, Buffers
<1>2. Size(b) = b.end - b.start /\ Size(b) \in Nat
  BY SizeIs
<1>3. CASE p = b
  BY <1>1, <1>3 DEF SameContent
<1>4. CASE p = Compacted(b, order) /\ n < b.start
  <2>1. b.start # 0
    BY <1>1, <1>4
  <2>2. /\ WellFormed(p) /\ p.start = 0 /\ p.end = Size(b) /\ p.max = b.max
        /\ order = "ascending" => \A i \in 0 .. Size(b) - 1 : p.mem[i] = b.mem[b.start + i]
    BY <1>4, <2>1, CompactedKeeps
  <2>3. Size(p) = p.end - p.start
    BY <2>2, SizeIs
  <2> HIDE DEF p
  <2> QED
    BY <1>1, <1>2, <2>2, <2>3 DEF SameContent, p
<1>5. CASE p = Enlarged(b, n) /\ ~(NewMaxLen(b, n) > b.grow)
  <2>1. NewMaxLen(b, n) \in Nat /\ b.grow \in Nat
    BY NewMaxLenIs, ConstantFacts DEF WellFormed
  <2>2. NewMaxLen(b, n) <= b.grow
    BY <1>5, <2>1
  <2>3. WellFormed(p) /\ p.max >= b.max /\ SameContent(b, p)
    BY <1>5, <2>2, EnlargedKeeps
  <2>4. Size(p) = p.end - p.start
    BY <2>3, SizeIs
  <2> HIDE DEF p
  <2> QED
    BY <1>2, <2>3, <2>4 DEF SameContent, p
<1>6. \/ p = b
      \/ p = Compacted(b, order) /\ n < b.start
      \/ p = Enlarged(b, n) /\ ~(NewMaxLen(b, n) > b.grow)
  BY DEF Prepared, Grown
<1> QED
  BY <1>3, <1>4, <1>5, <1>6

\* A refusal means that doubling would exceed the limit and that the place in
\* front of the content is too small.
LEMMA RefusedOnlyWhen ==
  ASSUME NEW b, WellFormed(b), NEW n \in Nat, 2 * Limit + n < Modulus,
         NEW order \in {"ascending", "descending"}, ~Fits(Prepared(b, n, order), n)
  PROVE  2 * (Size(b) + 2 * n) + n > Limit
<1> DEFINE p == Prepared(b, n, order)
<1>1. /\ b.start \in Nat /\ b.end \in Nat /\ b.max \in Nat /\ Limit \in Nat
      /\ b.start <= b.end /\ b.end <= b.max /\ b.grow = Limit
  BY ConstantFacts DEF WellFormed, Buffers
<1>2. Size(b) = b.end - b.start /\ Available(b) = b.max - b.end
  BY SizeIs
<1>3. WellFormed(p)
  BY PreparedKeeps
<1>4. p.max \in Nat /\ p.end \in Nat /\ Available(p) = p.max - p.end
  BY <1>3, SizeIs DEF WellFormed, Buffers
<1>5. ~(n <= p.max - p.end)
  BY <1>4 DEF Fits
<1>6. NewMaxLen(b, n) \in Nat /\ NewMaxLen(b, n) <= 2 * b.max + n
      /\ (NewMaxLen(b, n) > 2 * b.max => 2 * b.max - b.end < n)
  BY NewMaxLenIs
<1>7. CASE p = Compacted(b, order) /\ n < b.start
  <2>1. b.start # 0
    BY <1>1, <1>7
  <2>2. p.end = Size(b) /\ p.max = b.max
    BY <1>7, <2>1, CompactedKeeps
  <2> QED
    BY <1>1, <1>2, <1>5, <1>7, <2>2
<1>8. CASE p = Enlarged(b, n) /\ NewMaxLen(b, n) <= b.grow
  <2>1. p.max - p.end >= n
    BY <1>8, EnlargedKeeps
  <2> QED
    BY <1>4, <1>5, <2>1
<1>9. CASE p = b /\ n <= Available(b)
  BY <1>1, <1>2, <1>5, <1>9
<1>10. CASE n > Available(b) /\ ~(n < b.start) /\ NewMaxLen(b, n) > b.grow
  BY <1>1, <1>2, <1>6, <1>10
<1>11. \/ p = Compacted(b, order) /\ n < b.start
       \/ p = Enlarged(b, n) /\ ~(NewMaxLen(b, n) > b.grow)
       \/ p = b /\ ~(n > Available(b))
       \/ n > Available(b) /\ ~(n < b.start) /\ NewMaxLen(b, n) > b.grow
  BY DEF Prepared, Grown
<1>12. /\ ~(NewMaxLen(b, n) > b.grow) => NewMaxLen(b, n) <= b.grow
       /\ ~(n > Available(b)) => n <= Available(b)
  BY <1>1, <1>2, <1>6
<1> QED
  BY <1>7, <1>8, <1>9, <1>10, <1>11, <1>12

\* Writing behind the content, as far as there is room.
LEMMA WrittenKeeps ==
  ASSUME NEW b, WellFormed(b), NEW n \in Nat, Fits(b, n),
         NEW bytes \in [1 .. n -> Nat]
  PROVE  LET c == Written(b, bytes, n)
         IN  /\ WellFormed(c) /\ c.max = b.max /\ c.start = b.start /\ c.end = b.end + n
             /\ DOMAIN c.mem = DOMAIN b.mem
             /\ \A i \in DOMAIN b.mem :
                  c.mem[i] = IF i \in b.end .. b.end + n - 1 THEN bytes[i - b.end + 1]
                             ELSE b.mem[i]
<1> DEFINE mem == [i \in DOMAIN b.mem |->
                     IF i \in b.end .. b.end + n - 1 THEN bytes[i - b.end + 1] ELSE b.mem[i]]
           c == Written(b, bytes, n)
<1>1. /\ b \in Buffers /\ b.mem \in Memory
      /\ b.start \in Nat /\ b.end \in Nat /\ b.max \in Nat
      /\ b.start <= b.end /\ b.end <= b.max /\ b.grow = Limit
      /\ 0 .. b.max - 1 \subseteq DOMAIN b.mem
  BY DEF WellFormed, Buffers
<1>2. b.end + n <= b.max
  BY <1>1, SizeIs DEF Fits
<1>3. ASSUME NEW i \in DOMAIN b.mem
      PROVE  (IF i \in b.end .. b.end + n - 1 THEN bytes[i - b.end + 1] ELSE b.mem[i]) \in Nat
  <2>1. CASE i \in b.end .. b.end + n - 1
    <3>1. i - b.end + 1 \in 1 .. n
      BY <1>1, <2>1
    <3> QED
      BY <2>1, <3>1
  <2>2. CASE i \notin b.end .. b.end + n - 1
    BY <1>1, <2>2, MemoryBytes
  <2> QED
    BY <2>1, <2>2
<1>4. mem \in Memory /\ DOMAIN mem = DOMAIN b.mem
  BY <1>1, <1>3, SameExtent
<1>5. \A i \in DOMAIN b.mem :
        mem[i] = IF i \in b.end .. b.end + n - 1 THEN bytes[i - b.end + 1] ELSE b.mem[i]
  OBVIOUS
<1>6. c = [b EXCEPT !.mem = mem, !.end = b.end + n]
  BY <1>1 DEF Written, Buffers
<1> HIDE DEF mem, c
<1>7. /\ c \in Buffers /\ c.mem = mem /\ c.start = b.start /\ c.end = b.end + n
      /\ c.max = b.max /\ c.grow = Limit
  <2>1. b.end + n \in Nat
    BY <1>1
  <2>2. c \in Buffers /\ c.mem = mem
    BY <1>1, <1>4, <1>6, <2>1 DEF Buffers
  <2>3. c.start = b.start /\ c.end = b.end + n
    BY <1>1, <1>6 DEF Buffers
  <2>4. c.max = b.max /\ c.grow = Limit
    BY <1>1, <1>6 DEF Buffers
  <2> QED
    BY <2>2, <2>3, <2>4
<1>8. WellFormed(c)
  BY <1>1, <1>2, <1>4, <1>7 DEF WellFormed
<1> QED
  BY <1>4, <1>5, <1>7, <1>8 DEF c

\* New bytes are held behind the old ones.
LEMMA WrittenHolds ==
  ASSUME NEW b, WellFormed(b), NEW n \in Nat, Fits(b, n), NEW last \in Nat, Holds(b, last)
  PROVE  Holds(Written(b, [i \in 1 .. n |-> last + i], n), last + n)
<1> DEFINE bytes == [i \in 1 .. n |-> last + i]
           c == Written(b, bytes, n)
<1>1. /\ b.start \in Nat /\ b.end \in Nat /\ b.max \in Nat
      /\ b.start <= b.end /\ b.end <= b.max
      /\ 0 .. b.max - 1 \subseteq DOMAIN b.mem
  BY DEF WellFormed, Buffers
<1>2. bytes \in [1 .. n -> Nat] /\ \A i \in 1 .. n : bytes[i] = last + i
  OBVIOUS
<1> HIDE DEF bytes
<1>3. /\ c.start = b.start /\ c.end = b.end + n
      /\ \A i \in DOMAIN b.mem :
           c.mem[i] = IF i \in b.end .. b.end + n - 1 THEN bytes[i - b.end + 1] ELSE b.mem[i]
  BY <1>2, WrittenKeeps
<1>4. b.end + n <= b.max
  BY <1>1, SizeIs DEF Fits
<1> HIDE DEF c
<1>5. ASSUME NEW i \in 1 .. c.end - c.start
      PROVE  c.mem[c.start + i - 1] = last + n - (c.end - c.start) + i
  <2>1. b.start + i - 1 \in DOMAIN b.mem /\ i \in Nat
    BY <1>1, <1>3, <1>4
  <2>2. CASE b.start + i - 1 < b.end
    <3>1. i \in 1 .. b.end - b.start
      BY <1>1, <2>1, <2>2
    <3>2. b.mem[b.start + i - 1] = last - (b.end - b.start) + i
      BY <3>1 DEF Holds
    <3>3. c.mem[b.start + i - 1] = b.mem[b.start + i - 1]
      BY <1>1, <1>3, <2>1, <2>2
    <3> QED
      BY <1>1, <1>3, <3>2, <3>3
  <2>3. CASE ~(b.start + i - 1 < b.end)
    <3>1. PICK j \in DOMAIN b.mem : j = b.start + i - 1
      BY <2>1
    <3>2. j \in b.end .. b.end + n - 1 /\ j - b.end + 1 \in 1 .. n /\ j = c.start + i - 1
      BY <1>1, <1>3, <2>1, <2>3, <3>1
    <3>3. c.mem[j] = bytes[j - b.end + 1]
      BY <1>3, <3>2
    <3>4. bytes[j - b.end + 1] = last + (j - b.end + 1)
      BY <1>2, <3>2
    <3>5. last + (j - b.end + 1) = last + n - (c.end - c.start) + i
      BY <1>1, <1>3, <2>1, <3>1
    <3> QED
      BY <3>2, <3>3, <3>4, <3>5
  <2> QED
    BY <2>2, <2>3
<1>6. Holds(c, last + n)
  BY <1>1, <1>3, <1>5 DEF Holds
<1> QED
  BY <1>6 DEF c, bytes

\* Buffers with the same content hold the same bytes in order.
LEMMA SameHolds ==
  ASSUME NEW b, WellFormed(b), NEW c, WellFormed(c), SameContent(b, c), NEW last \in Nat,
         Holds(b, last)
  PROVE  Holds(c, last)
<1>1. /\ b.start \in Nat /\ b.end \in Nat /\ b.start <= b.end
      /\ c.start \in Nat /\ c.end \in Nat
      /\ c.end - c.start = b.end - b.start
  BY DEF WellFormed, Buffers, SameContent
<1>2. ASSUME NEW i \in 1 .. c.end - c.start
      PROVE  c.mem[c.start + i - 1] = last - (c.end - c.start) + i
  <2>1. i - 1 \in 0 .. b.end - b.start - 1 /\ i \in 1 .. b.end - b.start
    BY <1>1
  <2>2. c.mem[c.start + (i - 1)] = b.mem[b.start + (i - 1)]
    BY <2>1 DEF SameContent
  <2>3. b.mem[b.start + i - 1] = last - (b.end - b.start) + i
    BY <2>1 DEF Holds
  <2>4. c.start + (i - 1) = c.start + i - 1 /\ b.start + (i - 1) = b.start + i - 1
    BY <1>1, <2>1
  <2> QED
    BY <1>1, <2>2, <2>3, <2>4
<1> QED
  BY <1>2 DEF Holds

\* The operations that copy nothing.
LEMMA ConsumedKeeps ==
  ASSUME NEW b, WellFormed(b), NEW n \in 1 .. Size(b), NEW last \in Nat
  PROVE  LET c == Consumed(b, n)
         IN  /\ WellFormed(c) /\ c.max = b.max /\ c.end <= b.end /\ c.mem = b.mem
             /\ Holds(b, last) => Holds(c, last)
             /\ Size(c) = Size(b) - n
<1> DEFINE c == Consumed(b, n)
<1>1. /\ b \in Buffers /\ b.start \in Nat /\ b.end \in Nat /\ b.max \in Nat
      /\ b.start <= b.end /\ b.end <= b.max /\ b.max <= Limit
  BY DEF WellFormed, Buffers
<1>2. Size(b) = b.end - b.start
  BY SizeIs
<1>3. CASE b.start + n = b.end
  <2>1. c = [b EXCEPT !.start = 0, !.end = 0]
    BY <1>3 DEF Consumed
  <2> HIDE DEF c
  <2>2. /\ c \in Buffers /\ c.mem = b.mem /\ c.start = 0 /\ c.end = 0
        /\ c.max = b.max /\ c.grow = b.grow
    BY <1>1, <2>1 DEF Buffers
  <2>3. WellFormed(c)
    BY <1>1, <2>2 DEF WellFormed
  <2>4. Holds(c, last)
    BY <2>2 DEF Holds
  <2>5. Size(c) = 0
    BY <2>2, <2>3, SizeIs
  <2> QED
    BY <1>1, <1>2, <1>3, <2>2, <2>3, <2>4, <2>5 DEF c
<1>4. CASE b.start + n # b.end
  <2>1. c = [b EXCEPT !.start = b.start + n]
    BY <1>1, <1>4 DEF Consumed, Buffers
  <2>2. b.start + n \in Nat /\ b.start + n <= b.end
    BY <1>1, <1>2
  <2> HIDE DEF c
  <2>3. /\ c \in Buffers /\ c.mem = b.mem /\ c.start = b.start + n /\ c.end = b.end
        /\ c.max = b.max /\ c.grow = b.grow
    BY <1>1, <2>1, <2>2 DEF Buffers
  <2>4. WellFormed(c)
    BY <1>1, <2>2, <2>3 DEF WellFormed
  <2>5. Size(c) = c.end - c.start
    BY <2>4, SizeIs
  <2>6. ASSUME Holds(b, last), NEW i \in 1 .. c.end - c.start
        PROVE  c.mem[c.start + i - 1] = last - (c.end - c.start) + i
    <3>1. n + i \in 1 .. b.end - b.start
      BY <1>1, <1>2, <2>3
    <3>2. b.mem[b.start + (n + i) - 1] = last - (b.end - b.start) + (n + i)
      BY <2>6, <3>1 DEF Holds
    <3>3. b.start + (n + i) - 1 = c.start + i - 1
      BY <1>1, <1>2, <2>3
    <3> QED
      BY <1>1, <1>2, <2>3, <3>2, <3>3
  <2>7. Holds(b, last) => Holds(c, last)
    BY <2>6 DEF Holds
  <2> QED
    BY <1>1, <1>2, <2>3, <2>4, <2>5, <2>7 DEF c
<1> QED
  BY <1>3, <1>4

\* clear() leaves a well-formed buffer with nothing in it and the same memory.
LEMMA ClearedKeeps ==
  ASSUME NEW b, WellFormed(b), NEW last \in Nat
  PROVE  LET c == Cleared(b)
         IN  WellFormed(c) /\ c.max = b.max /\ c.end = 0 /\ Holds(c, last)
<1>1. /\ Cleared(b) \in Buffers /\ Cleared(b).mem = b.mem /\ Cleared(b).start = 0
      /\ Cleared(b).end = 0 /\ Cleared(b).max = b.max /\ Cleared(b).grow = b.grow
  BY DEF Cleared, WellFormed, Buffers
<1> QED
  BY <1>1 DEF WellFormed, Buffers, Holds

\* reset() leaves a well-formed buffer of the size asked for with nothing in it.
LEMMA ResetToKeeps ==
  ASSUME NEW b, WellFormed(b), NEW size \in 0 .. Limit, NEW last \in Nat
  PROVE  LET c == ResetTo(b, size)
         IN  WellFormed(c) /\ c.max = size /\ c.end = 0 /\ Holds(c, last)
<1>0. size \in Nat
  BY ConstantFacts
<1>1. Blank(size) \in Memory /\ DOMAIN Blank(size) = 0 .. size - 1
  BY <1>0, BlankIsMemory
<1>2. LET c == ResetTo(b, size)
      IN  /\ c \in Buffers /\ c.mem = Blank(size) /\ c.start = 0
          /\ c.end = 0 /\ c.max = size /\ c.grow = b.grow
  BY <1>0, <1>1 DEF ResetTo, WellFormed, Buffers
<1> QED
  BY <1>0, <1>1, <1>2, ConstantFacts DEF WellFormed, Buffers, Holds

\* shrinkBuffer() keeps the content if there is none or it starts at the front.
LEMMA ShrunkKeeps ==
  ASSUME NEW b, WellFormed(b), NEW size \in Nat, size <= b.max, NEW last \in Nat
  PROVE  LET c == Shrunk(b, size)
         IN  /\ WellFormed(c) /\ c.max >= size /\ c.end <= c.max
             /\ Size(b) = 0 \/ b.start = 0 => (Holds(b, last) => Holds(c, last))
<1> DEFINE c == Shrunk(b, size)
           max == IF Size(b) > size THEN Size(b) ELSE size
<1>1. /\ b \in Buffers /\ b.start \in Nat /\ b.end \in Nat /\ b.max \in Nat
      /\ b.start <= b.end /\ b.end <= b.max /\ b.max <= Limit
      /\ 0 .. b.max - 1 \subseteq DOMAIN b.mem
  BY DEF WellFormed, Buffers
<1>2. Size(b) = b.end - b.start /\ Size(b) \in Nat
  BY SizeIs
<1>3. max \in Nat /\ max >= size /\ max >= Size(b) /\ max <= b.max
  BY <1>1, <1>2
<1>4. c = [b EXCEPT !.start = 0, !.end = Size(b), !.max = max]
  BY DEF Shrunk
<1> HIDE DEF c, max
<1>5. /\ c \in Buffers /\ c.mem = b.mem /\ c.start = 0 /\ c.end = Size(b)
      /\ c.max = max /\ c.grow = b.grow
  BY <1>1, <1>2, <1>3, <1>4 DEF Buffers
<1>6. 0 .. c.max - 1 \subseteq DOMAIN c.mem
  BY <1>1, <1>3, <1>5
<1>7. WellFormed(c)
  BY <1>1, <1>2, <1>3, <1>5, <1>6, ConstantFacts DEF WellFormed
<1>8. Size(b) = 0 \/ b.start = 0 => (Holds(b, last) => Holds(c, last))
  BY <1>1, <1>2, <1>5 DEF Holds
<1> QED
  BY <1>3, <1>5, <1>2, <1>7, <1>8 DEF c
-----------------------------------------------------------------------------
\* mDefaultSize never exceeds mMaxLen, so that shrinkBuffer() cannot raise the
\* limit beyond the allocation; the content is what was added unless memcpy()
\* copies downwards.
IInv ==
  /\ WellFormed(buffer)
  /\ mDefaultSize \in Nat /\ mDefaultSize <= buffer.max
  /\ misplaced \in BOOLEAN
  /\ added \in 0 .. MaxAdded
  /\ CopyOrders \subseteq {"ascending"} /\ ~misplaced => Holds(buffer, added)

\* The invariant holds of the buffer just constructed.
LEMMA InitIInv == Init => IInv
<1> SUFFICES ASSUME Init PROVE IInv
  OBVIOUS
<1>1. DefaultLen \in Nat /\ Limit \in Nat /\ DefaultLen <= Limit /\ MaxAdded \in Nat
  BY ConstantFacts
<1>2. Blank(DefaultLen) \in Memory /\ DOMAIN Blank(DefaultLen) = 0 .. DefaultLen - 1
  BY <1>1, BlankIsMemory
<1>3. /\ buffer = [mem |-> Blank(DefaultLen), start |-> 0, end |-> 0, max |-> DefaultLen,
                   grow |-> Limit]
  BY DEF Init, NewBuffer, Limit, mMaxGrowSize
<1>4. /\ buffer \in Buffers /\ buffer.mem = Blank(DefaultLen) /\ buffer.start = 0
      /\ buffer.end = 0 /\ buffer.max = DefaultLen /\ buffer.grow = Limit
  BY <1>1, <1>2, <1>3 DEF Buffers
<1>5. WellFormed(buffer) /\ Holds(buffer, added)
  BY <1>1, <1>2, <1>4 DEF WellFormed, Holds
<1>6. /\ mDefaultSize = DefaultLen /\ misplaced = FALSE /\ added = 0
  BY DEF Init
<1>7. mDefaultSize <= buffer.max
  BY <1>1, <1>4, <1>6
<1>8. added \in 0 .. MaxAdded
  BY <1>1, <1>6
<1> QED
  BY <1>1, <1>5, <1>6, <1>7, <1>8 DEF IInv

\* What the invariant says of the locations.
LEMMA Locations ==
  ASSUME IInv
  PROVE  /\ buffer.start \in Nat /\ buffer.end \in Nat /\ buffer.max \in Nat
         /\ buffer.start <= buffer.end /\ buffer.end <= buffer.max /\ buffer.max <= Limit
         /\ Limit \in Nat /\ MaxAdded \in Nat /\ added \in Nat
BY ConstantFacts DEF IInv, WellFormed, Buffers

\* addBuffer() preserves the invariant.
LEMMA AddBufferIInv ==
  ASSUME IInv, NEW n \in Sizes, NEW order \in CopyOrders, AddBuffer(n, order)
  PROVE  IInv'
<1> DEFINE p == Prepared(buffer, n, order)
<1>1. /\ n \in Nat /\ 2 * Limit + n < Modulus /\ order \in {"ascending", "descending"}
      /\ CopyOrders \subseteq {"ascending"} => order = "ascending"
  BY ConstantFacts, SizeAssumption
<1>2. WellFormed(buffer)
  BY DEF IInv
<1>3. /\ WellFormed(p) /\ p.max >= buffer.max
      /\ order = "ascending" => SameContent(buffer, p)
  BY <1>1, <1>2, PreparedKeeps
<1>4. p.max \in Nat /\ p.end \in Nat /\ p.end <= p.max
  BY <1>3 DEF WellFormed, Buffers
<1>5. Fresh(n) = [i \in 1 .. n |-> added + i] /\ Fresh(n) \in [1 .. n -> Nat]
  BY Locations DEF Fresh
<1> HIDE DEF p
<1>6. CopyOrders \subseteq {"ascending"} /\ ~misplaced => Holds(p, added)
  BY <1>1, <1>2, <1>3, Locations, SameHolds DEF IInv
<1>7. /\ added + n <= MaxAdded
      /\ buffer' = IF Fits(p, n) THEN Written(p, Fresh(n), n) ELSE p
      /\ added' = IF Fits(p, n) THEN added + n ELSE added
      /\ UNCHANGED <<mDefaultSize, misplaced>>
  BY DEF AddBuffer, Added, p
<1>8. CASE Fits(p, n)
  <2> DEFINE c == Written(p, Fresh(n), n)
  <2>1. WellFormed(c) /\ c.max = p.max
    BY <1>1, <1>3, <1>5, <1>8, WrittenKeeps
  <2>2. CopyOrders \subseteq {"ascending"} /\ ~misplaced => Holds(c, added + n)
    BY <1>1, <1>3, <1>5, <1>6, <1>8, Locations, WrittenHolds
  <2> HIDE DEF c
  <2>3. buffer' = c /\ added' = added + n
    BY <1>7, <1>8 DEF c
  <2>4. added' \in 0 .. MaxAdded
    BY <1>1, <1>7, <2>3, Locations
  <2>5. mDefaultSize' \in Nat /\ mDefaultSize' <= buffer'.max
    BY <1>3, <1>4, <1>7, <2>1, <2>3, Locations DEF IInv
  <2> QED
    BY <1>7, <2>1, <2>2, <2>3, <2>4, <2>5 DEF IInv
<1>9. CASE ~Fits(p, n)
  <2>1. buffer' = p /\ added' = added
    BY <1>7, <1>9
  <2>2. mDefaultSize' \in Nat /\ mDefaultSize' <= buffer'.max
    BY <1>3, <1>4, <1>7, <2>1, Locations DEF IInv
  <2> QED
    BY <1>3, <1>6, <1>7, <2>1, <2>2 DEF IInv
<1> QED
  BY <1>8, <1>9

\* confirmCapacity() preserves the invariant.
LEMMA ConfirmCapacityIInv ==
  ASSUME IInv, NEW n \in Sizes, NEW order \in CopyOrders, ConfirmCapacity(n, order)
  PROVE  IInv'
<1> DEFINE p == Prepared(buffer, n, order)
<1>1. /\ n \in Nat /\ 2 * Limit + n < Modulus /\ order \in {"ascending", "descending"}
      /\ CopyOrders \subseteq {"ascending"} => order = "ascending"
  BY ConstantFacts, SizeAssumption
<1>2. WellFormed(buffer)
  BY DEF IInv
<1>3. /\ WellFormed(p) /\ p.max >= buffer.max
      /\ order = "ascending" => SameContent(buffer, p)
  BY <1>1, <1>2, PreparedKeeps
<1>4. p.max \in Nat /\ p.end \in Nat /\ p.end <= p.max
  BY <1>3 DEF WellFormed, Buffers
<1> HIDE DEF p
<1>5. CopyOrders \subseteq {"ascending"} /\ ~misplaced => Holds(p, added)
  BY <1>1, <1>2, <1>3, Locations, SameHolds DEF IInv
<1>6. buffer' = p /\ UNCHANGED <<mDefaultSize, misplaced, added>>
  BY DEF ConfirmCapacity, p
<1>7. mDefaultSize' \in Nat /\ mDefaultSize' <= buffer'.max
  BY <1>3, <1>4, <1>6, Locations DEF IInv
<1> QED
  BY <1>3, <1>5, <1>6, <1>7 DEF IInv

\* Reading k bytes into the room confirmCapacity() returned and taking them
\* over preserves the invariant.
LEMMA ReadIntoIInv ==
  ASSUME IInv, NEW n \in Sizes, NEW order \in CopyOrders, NEW k \in 1 .. n,
         ReadInto(n, k, order)
  PROVE  IInv'
<1> DEFINE p == Prepared(buffer, n, order)
           c == Written(p, Fresh(k), k)
<1>1. /\ n \in Nat /\ 2 * Limit + n < Modulus /\ order \in {"ascending", "descending"}
      /\ CopyOrders \subseteq {"ascending"} => order = "ascending"
  BY ConstantFacts, SizeAssumption
<1>2. WellFormed(buffer)
  BY DEF IInv
<1>3. /\ WellFormed(p) /\ p.max >= buffer.max
      /\ order = "ascending" => SameContent(buffer, p)
  BY <1>1, <1>2, PreparedKeeps
<1>4. /\ Fits(p, n) /\ added + k <= MaxAdded
      /\ buffer' = c /\ added' = added + k /\ UNCHANGED <<mDefaultSize, misplaced>>
  BY DEF ReadInto
<1> HIDE DEF p
<1>5. CopyOrders \subseteq {"ascending"} /\ ~misplaced => Holds(p, added)
  BY <1>1, <1>2, <1>3, Locations, SameHolds DEF IInv
<1>6. k \in Nat /\ Fits(p, k)
  <2>1. Available(p) = p.max - p.end /\ p.max \in Nat /\ p.end \in Nat
    BY <1>3, SizeIs DEF WellFormed, Buffers
  <2> QED
    BY <1>1, <1>4, <2>1 DEF Fits
<1>7. Fresh(k) = [i \in 1 .. k |-> added + i] /\ Fresh(k) \in [1 .. k -> Nat]
  BY <1>6, Locations DEF Fresh
<1>8. WellFormed(c) /\ c.max = p.max
  BY <1>3, <1>6, <1>7, WrittenKeeps
<1>9. CopyOrders \subseteq {"ascending"} /\ ~misplaced => Holds(c, added + k)
  BY <1>3, <1>5, <1>6, <1>7, Locations, WrittenHolds
<1>10. p.max \in Nat
  BY <1>3 DEF WellFormed, Buffers
<1> HIDE DEF c
<1>11. added' \in 0 .. MaxAdded
  BY <1>4, <1>6, Locations
<1>12. mDefaultSize' \in Nat /\ mDefaultSize' <= buffer'.max
  BY <1>3, <1>4, <1>8, <1>10, Locations DEF IInv
<1> QED
  BY <1>4, <1>8, <1>9, <1>11, <1>12 DEF IInv

\* consume() preserves the invariant.
LEMMA ConsumeIInv ==
  ASSUME IInv, NEW n \in 1 .. mMaxGrowSize, Consume(n)
  PROVE  IInv'
<1> DEFINE c == Consumed(buffer, n)
<1>1. WellFormed(buffer) /\ n \in 1 .. Size(buffer)
  BY DEF IInv, Consume
<1>2. /\ WellFormed(c) /\ c.max = buffer.max
      /\ Holds(buffer, added) => Holds(c, added)
  BY <1>1, Locations, ConsumedKeeps
<1>3. c.max \in Nat /\ c.start \in Nat /\ c.end \in Nat /\ c.start <= c.end /\ c.end <= c.max
  BY <1>2 DEF WellFormed, Buffers
<1>4. Size(c) = c.end - c.start
  BY <1>2, SizeIs
<1> HIDE DEF c
<1>5. /\ buffer' = c /\ misplaced' = (misplaced /\ Size(c) # 0)
      /\ UNCHANGED <<mDefaultSize, added>>
  BY DEF Consume, StillMisplaced, c
<1>6. Size(c) = 0 => Holds(c, added)
  BY <1>3, <1>4 DEF Holds
<1>7. CopyOrders \subseteq {"ascending"} /\ ~misplaced' => Holds(c, added)
  BY <1>2, <1>5, <1>6 DEF IInv
<1>8. misplaced' \in BOOLEAN
  BY <1>5
<1> QED
  BY <1>2, <1>5, <1>7, <1>8 DEF IInv

\* clear() and reset() preserve the invariant.
LEMMA EmptyingIInv ==
  ASSUME IInv, Clear \/ \E size \in ResetSizes : Reset(size)
  PROVE  IInv'
<1>1. WellFormed(buffer)
  BY DEF IInv
<1>2. CASE Clear
  <2> DEFINE c == Cleared(buffer)
  <2>1. WellFormed(c) /\ c.max = buffer.max /\ c.end = 0 /\ Holds(c, added)
    BY <1>1, Locations, ClearedKeeps
  <2> HIDE DEF c
  <2>2. /\ buffer' = c /\ misplaced' = FALSE
        /\ UNCHANGED <<mDefaultSize, added>>
    BY <1>2 DEF Clear, c
  <2> QED
    BY <2>1, <2>2 DEF IInv
<1>3. ASSUME NEW size \in ResetSizes, Reset(size) PROVE IInv'
  <2> DEFINE c == ResetTo(buffer, size)
  <2>1. size \in 0 .. Limit /\ size \in Nat
    BY ConstantFacts
  <2>2. WellFormed(c) /\ c.max = size /\ c.end = 0 /\ Holds(c, added)
    BY <1>1, <2>1, Locations, ResetToKeeps
  <2> HIDE DEF c
  <2>3. /\ buffer' = c /\ mDefaultSize' = size /\ misplaced' = FALSE
        /\ UNCHANGED added
    BY <1>3 DEF Reset, c
  <2>4. mDefaultSize' \in Nat /\ mDefaultSize' <= buffer'.max
    BY <2>1, <2>2, <2>3
  <2> QED
    BY <2>2, <2>3, <2>4 DEF IInv
<1> QED
  BY <1>2, <1>3

\* shrinkBuffer() preserves the invariant.
LEMMA ShrinkBufferIInv ==
  ASSUME IInv, ShrinkBuffer
  PROVE  IInv'
<1> DEFINE c == Shrunk(buffer, mDefaultSize)
<1>1. WellFormed(buffer) /\ mDefaultSize \in Nat /\ mDefaultSize <= buffer.max
  BY DEF IInv
<1>2. /\ WellFormed(c) /\ c.max >= mDefaultSize /\ c.end <= c.max
      /\ Size(buffer) = 0 \/ buffer.start = 0 => (Holds(buffer, added) => Holds(c, added))
  BY <1>1, Locations, ShrunkKeeps
<1>3. Size(buffer) = 0 => Holds(buffer, added)
  BY <1>1, SizeIs, Locations DEF Holds
<1>4. c.max \in Nat /\ c.end \in Nat
  BY <1>2 DEF WellFormed, Buffers
<1> HIDE DEF c
<1>5. /\ buffer' = c
      /\ misplaced' = (Size(buffer) # 0 /\ (misplaced \/ buffer.start # 0))
      /\ UNCHANGED <<mDefaultSize, added>>
  BY DEF ShrinkBuffer, c
<1>6. CopyOrders \subseteq {"ascending"} /\ ~misplaced' => Holds(c, added)
  BY <1>2, <1>3, <1>5 DEF IInv
<1>7. mDefaultSize' <= buffer'.max
  BY <1>1, <1>2, <1>4, <1>5
<1> QED
  BY <1>1, <1>2, <1>5, <1>6, <1>7 DEF IInv

\* Every step preserves the invariant.
LEMMA NextIInv == IInv /\ [Next]_vars => IInv'
<1> SUFFICES ASSUME IInv, [Next]_vars PROVE IInv'
  OBVIOUS
<1>1. CASE UNCHANGED vars
  BY <1>1 DEF vars, IInv
<1>2. ASSUME NEW n \in Sizes, NEW order \in CopyOrders,
             AddBuffer(n, order) \/ ConfirmCapacity(n, order)
      PROVE  IInv'
  BY <1>2, AddBufferIInv, ConfirmCapacityIInv
<1>3. ASSUME NEW n \in Sizes, NEW order \in CopyOrders, NEW k \in 1 .. n,
             ReadInto(n, k, order)
      PROVE  IInv'
  BY <1>3, ReadIntoIInv
<1>4. ASSUME NEW n \in 1 .. mMaxGrowSize, Consume(n) PROVE IInv'
  BY <1>4, ConsumeIInv
<1>5. CASE Clear \/ \E size \in ResetSizes : Reset(size)
  BY <1>5, EmptyingIInv
<1>6. CASE ShrinkBuffer
  BY <1>6, ShrinkBufferIInv
<1> QED
  BY <1>1, <1>2, <1>3, <1>4, <1>5, <1>6 DEF Next

\* The invariant holds in every state (SimpleBuffer.cpp).
THEOREM Inductive == Spec => []IInv
BY InitIInv, NextIInv, PTL DEF Spec

\* The properties that are parts of the invariant follow from it.
LEMMA IInvImplies ==
  IInv => /\ TypeOK /\ InBounds
          /\ CopyOrders \subseteq {"ascending"} => RetainsContent
<1> SUFFICES ASSUME IInv
             PROVE  /\ TypeOK /\ InBounds
                    /\ CopyOrders \subseteq {"ascending"} => RetainsContent
  OBVIOUS
<1>1. WellFormed(buffer) /\ buffer.mem \in Memory /\ buffer.grow = Limit
  BY DEF IInv, WellFormed, Buffers
<1>2. \A i \in DOMAIN buffer.mem : buffer.mem[i] \in Nat
  BY <1>1, MemoryBytes
<1>3. mDefaultSize \in 0 .. Limit /\ buffer.max \in 0 .. Limit
  BY Locations DEF IInv
<1>4. TypeOK
  BY <1>1, <1>2, <1>3, Locations DEF IInv, TypeOK, Limit
<1>5. InBounds
  BY <1>1, Locations DEF IInv, InBounds, WellFormed
<1>6. Size(buffer) = buffer.end - buffer.start /\ Size(buffer) \in Nat
  BY <1>1, SizeIs
<1>7. ASSUME CopyOrders \subseteq {"ascending"}, ~misplaced, NEW i \in 1 .. Size(buffer)
      PROVE  Content(buffer)[i] = added - Size(buffer) + i
  <2>1. Holds(buffer, added)
    BY <1>7 DEF IInv
  <2>2. Content(buffer)[i] = buffer.mem[buffer.start + i - 1]
    BY DEF Content
  <2> QED
    BY <1>6, <2>1, <2>2 DEF Holds
<1> QED
  BY <1>4, <1>5, <1>7 DEF RetainsContent

\* Every location, size and byte keeps its type.
THEOREM TypeCorrect == Spec => []TypeOK
BY Inductive, IInvImplies, PTL

\* No copy of addBuffer(), growBuffer() or a reader leaves the allocation
\* (SimpleBuffer.cpp:43-64, 95-144), also after shrinkBuffer() (188-205).
THEOREM LocationsInBounds == Spec => []InBounds
BY Inductive, IInvImplies, PTL

\* A caller that ignores a refusal loses data only near the limit
\* (SimpleBuffer.cpp:102-125, easywsclient.cpp:682).
THEOREM RefusalsNearLimit == Spec => []RefusedOnlyNearLimit
<1>1. IInv => RefusedOnlyNearLimit
  <2> SUFFICES ASSUME IInv, NEW n \in Sizes, NEW order \in CopyOrders,
                      ~Fits(Prepared(buffer, n, order), n)
               PROVE  2 * (Size(buffer) + 2 * n) + n > Limit
    BY DEF RefusedOnlyNearLimit, Limit
  <2>1. n \in Nat /\ 2 * Limit + n < Modulus /\ order \in {"ascending", "descending"}
    BY ConstantFacts, SizeAssumption
  <2> QED
    BY <2>1, RefusedOnlyWhen DEF IInv
<1> QED
  BY <1>1, Inductive, PTL

\* Where memcpy() copies upwards, the content is what was added and not
\* consumed (SimpleBuffer.cpp:99-113).
THEOREM ContentRetained ==
  ASSUME CopyOrders \subseteq {"ascending"}
  PROVE  Spec => []RetainsContent
<1>1. IInv => RetainsContent
  BY IInvImplies
<1> QED
  BY <1>1, Inductive, PTL
=============================================================================
