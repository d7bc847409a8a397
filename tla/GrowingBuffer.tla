---------------------------- MODULE GrowingBuffer ----------------------------
(***************************************************************************)
(* The methods of simplebuffer::SimpleBufferImpl (SimpleBuffer.cpp) as     *)
(* functions from a buffer to the buffer they leave.  A buffer is a record *)
(*   mem    mBuffer: 0 .. allocated - 1 -> byte                            *)
(*   start  mStartLoc,  end  mEndLoc,  max  mMaxLen,  grow  mMaxGrowSize   *)
(***************************************************************************)
EXTENDS Integers

CONSTANT Modulus      \* uint32_t holds 0 .. Modulus - 1

ASSUME ModulusAssumption == Modulus \in Nat \ {0}

Unwritten == 0        \* a byte that malloc() left there

\* Unsigned arithmetic.
U(x) == IF x < 0 THEN x + Modulus ELSE IF x >= Modulus THEN x - Modulus ELSE x

Blank(len) == [i \in 0 .. len - 1 |-> Unwritten]

\* The constructor.
NewBuffer(defaultLen, maxGrow) ==
  [mem |-> Blank(defaultLen), start |-> 0, end |-> 0, max |-> defaultLen,
   grow |-> IF defaultLen > maxGrow THEN defaultLen ELSE maxGrow]

Size(b) == U(b.end - b.start)
Available(b) == U(b.max - b.end)

\* getData(): the bytes that wait, oldest first.
Content(b) == [i \in 1 .. Size(b) |-> b.mem[b.start + i - 1]]
-----------------------------------------------------------------------------
(* growBuffer().                                                           *)

\* Where the byte comes from that memcpy(mem, mem + start, len) leaves at i.
\* The ranges overlap if start < len; copied from the top, a byte then may be
\* fetched from a place that was written before.
Source(order, start, len, i) ==
  IF order = "ascending" \/ start = 0 THEN start + i
  ELSE start + i + start * ((len - 1 - i) \div start)

\* The content moves down to the start of the memory.
Compacted(b, order) ==
  [b EXCEPT !.mem = [i \in DOMAIN b.mem |->
                       IF i < Size(b) THEN b.mem[Source(order, b.start, Size(b), i)]
                       ELSE b.mem[i]],
            !.start = 0, !.end = Size(b)]

\* Twice the size, and more if that is not enough.
NewMaxLen(b, n) ==
  LET doubled == U(b.max * 2)
  IN  IF U(doubled - b.end) < n THEN U(doubled + n) ELSE doubled

\* The content moves to a larger allocation.
Enlarged(b, n) ==
  [b EXCEPT !.mem = [i \in 0 .. NewMaxLen(b, n) - 1 |->
                       IF i < Size(b) THEN b.mem[b.start + i] ELSE Unwritten],
            !.start = 0, !.end = Size(b), !.max = NewMaxLen(b, n)]

\* A mutant: the place in front of the content is not used again.
Grown_NoCompact(b, n, order) == IF NewMaxLen(b, n) > b.grow THEN b ELSE Enlarged(b, n)

Grown(b, n, order) ==
  IF n < b.start THEN Compacted(b, order)
  ELSE IF NewMaxLen(b, n) > b.grow THEN b
  ELSE Enlarged(b, n)

\* What addBuffer() and confirmCapacity() go on with.
Prepared(b, n, order) == IF n > Available(b) THEN Grown(b, n, order) ELSE b

Fits(b, n) == n <= Available(b)
-----------------------------------------------------------------------------
\* The bytes of a sequence written from a location on.
Written(b, bytes, len) ==
  [b EXCEPT !.mem = [i \in DOMAIN b.mem |->
                       IF i \in b.end .. b.end + len - 1 THEN bytes[i - b.end + 1]
                       ELSE b.mem[i]],
            !.end = @ + len]

\* addBuffer(data, len): nothing is added if growing was refused.
Added(b, bytes, len, order) ==
  LET p == Prepared(b, len, order)
  IN  IF Fits(p, len) THEN Written(p, bytes, len) ELSE p

\* consume(): an emptied buffer starts again at its first location.
Consumed(b, n) ==
  IF b.start + n = b.end THEN [b EXCEPT !.start = 0, !.end = 0]
  ELSE [b EXCEPT !.start = @ + n]

Cleared(b) == [b EXCEPT !.start = 0, !.end = 0]

\* A mutant: the locations are kept.
ResetTo_KeepLocations(b, size) == [b EXCEPT !.mem = Blank(size), !.max = size]

\* reset(): new memory, nothing in it.
ResetTo(b, size) ==
  [b EXCEPT !.mem = Blank(size), !.start = 0, !.end = 0, !.max = size]

\* shrinkBuffer(): the smaller allocation is filled but never installed.
Shrunk(b, defaultSize) ==
  [b EXCEPT !.start = 0, !.end = Size(b),
            !.max = IF Size(b) > defaultSize THEN Size(b) ELSE defaultSize]
=============================================================================
