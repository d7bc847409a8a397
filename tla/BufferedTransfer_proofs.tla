---------------------- MODULE BufferedTransfer_proofs ----------------------
(***************************************************************************)
(* Proofs about one direction of an open connection, for every size of     *)
(* message, buffer and read.  First the operators: what sendData() writes  *)
(* is what _dispatchBinary() reads, for every length that the header can   *)
(* carry; the key phase of fastXOR(), for blocks of every length at every  *)
(* address; what growing, compacting, writing, consuming and masking do to *)
(* the content of a buffer.  Then the composition: the bytes in the        *)
(* receive buffer, on the wire and in the transmit buffer are together the *)
(* encoded messages that were sent and not yet delivered.                  *)
(***************************************************************************)
EXTENDS BufferedTransfer, SequenceTheorems, TLAPS

-----------------------------------------------------------------------------
(* The header.                                                             *)

\* The lengths a 64-bit field holds.
Lengths == 0 .. Word * Word - 1

Bytes == 0 .. Base - 1

\* A masking key.
Keys == {k \in Seq(Bytes) : Len(k) = 4}

\* What the assumption on the header's constants says of them one by one.
LEMMA BaseFacts == /\ Base \in Nat \ {0} /\ Short \in Nat \ {0} /\ TopBit \in Nat \ {0}
                   /\ Quarter \in Nat \ {0} /\ Word \in Nat \ {0}
                   /\ Short + 1 < TopBit /\ 2 * TopBit <= Base
BY HeaderAssumption DEF Quarter, Word

\* Division by a byte's range gives back the number with its last digit.
LEMMA DivMod ==
  ASSUME NEW n \in Nat, NEW b \in Nat \ {0}
  PROVE  /\ n \div b \in Nat /\ n % b \in 0 .. b - 1
         /\ n = ((n \div b) * b) + (n % b)
OBVIOUS

\* The digit above it, as long as the number stays below the bound.
LEMMA DivBound ==
  ASSUME NEW n \in Nat, NEW b \in Nat \ {0}, NEW m \in Nat, n < m * b
  PROVE  n \div b \in 0 .. m - 1
<1>1. /\ n \div b \in Nat /\ n % b \in 0 .. b - 1
      /\ n = ((n \div b) * b) + (n % b)
  BY DivMod
<1>2. SUFFICES ASSUME n \div b >= m PROVE FALSE
  BY <1>1
<1>3. (n \div b) * b >= m * b
  BY <1>1, <1>2
<1> QED
  BY <1>1, <1>3

\* The two lowest digits of a number and what is above them.
LEMMA LowPair ==
  ASSUME NEW n \in Nat
  PROVE  LET a == n \div Base
             b == a \div Base
         IN  /\ a \in Nat /\ b \in Nat
             /\ a % Base \in Bytes /\ n % Base \in Bytes
             /\ n = b * Quarter + TwoByteValue(a % Base, n % Base)
<1> DEFINE a == n \div Base
           b == a \div Base
<1>1. a \in Nat /\ n % Base \in Bytes /\ n = a * Base + (n % Base)
  BY BaseFacts, DivMod DEF Bytes
<1>2. b \in Nat /\ a % Base \in Bytes /\ a = b * Base + (a % Base)
  BY <1>1, BaseFacts, DivMod DEF Bytes
<1> HIDE DEF a, b
<1>3. n = (b * Base + (a % Base)) * Base + (n % Base)
  BY <1>1, <1>2
<1>4. n = b * Quarter + TwoByteValue(a % Base, n % Base)
  BY <1>1, <1>2, <1>3, BaseFacts DEF Quarter, TwoByteValue, Bytes
<1> QED
  BY <1>1, <1>2, <1>4 DEF a, b

\* Two divisions by the range of a byte divide by the range of two bytes.
LEMMA PairBound ==
  ASSUME NEW n \in Nat, NEW m \in Nat, n < m * Quarter
  PROVE  (n \div Base) \div Base \in 0 .. m - 1
<1>1. m * Base \in Nat /\ n < (m * Base) * Base
  BY BaseFacts DEF Quarter
<1> DEFINE a == n \div Base
<1>2. a \in 0 .. m * Base - 1
  BY <1>1, BaseFacts, DivBound
<1> HIDE DEF a
<1>3. a \in Nat /\ a < m * Base
  BY <1>1, <1>2
<1>4. a \div Base \in 0 .. m - 1
  BY <1>3, BaseFacts, DivBound
<1> QED
  BY <1>4 DEF a

\* A length of 16 bits is read as it was written.
LEMMA TwoBytesRead ==
  ASSUME NEW n \in 0 .. Quarter - 1
  PROVE  /\ TwoBytes(n)[1] \in Bytes /\ TwoBytes(n)[2] \in Bytes
         /\ TwoByteValue(TwoBytes(n)[1], TwoBytes(n)[2]) = n
<1>0. n \in Nat /\ n < Base * Base
  BY BaseFacts DEF Quarter
<1>1. n \div Base \in 0 .. Base - 1
  BY <1>0, BaseFacts, DivBound
<1>2. n % Base \in Bytes /\ n = (n \div Base) * Base + (n % Base)
  BY <1>0, BaseFacts, DivMod DEF Bytes
<1>3. (n \div Base) % Base = n \div Base
  BY <1>1, BaseFacts
<1> QED
  BY <1>1, <1>2, <1>3 DEF TwoBytes, TwoByteValue, Bytes

\* A length of 64 bits is read as it was written: four pairs of digits.
LEMMA EightBytesRead ==
  ASSUME NEW n \in Lengths
  PROVE  /\ \A i \in 1 .. 8 : EightBytes(n)[i] \in Bytes
         /\ EightByteValue(EightBytes(n), 1) = n
<1> DEFINE a == n \div Base   b == a \div Base   c == b \div Base
           d == c \div Base   e == d \div Base   f == e \div Base   g == f \div Base
<1>1. n \in Nat /\ n < ((Quarter * Quarter) * Quarter) * Quarter
  BY BaseFacts DEF Lengths, Word
<1>2. /\ a % Base \in Bytes /\ n % Base \in Bytes /\ b \in Nat
      /\ n = b * Quarter + TwoByteValue(a % Base, n % Base)
  BY <1>1, LowPair
<1> DEFINE two == Quarter * Quarter   three == two * Quarter
<1>0. Quarter \in Nat /\ two \in Nat /\ three \in Nat /\ n < three * Quarter
  BY <1>1, BaseFacts
<1> HIDE DEF three
<1>3. b \in 0 .. three - 1
  BY <1>0, <1>1, PairBound
<1>31. b \in Nat /\ b < two * Quarter
  BY <1>0, <1>3 DEF three
<1> HIDE DEF two
<1> HIDE DEF a, b
<1>4. /\ b % Base \in Bytes /\ c % Base \in Bytes /\ d \in Nat
      /\ b = d * Quarter + TwoByteValue(c % Base, b % Base)
  BY <1>2, LowPair
<1>5. d \in 0 .. two - 1
  BY <1>0, <1>31, PairBound
<1>51. d \in Nat /\ d < Quarter * Quarter
  BY <1>0, <1>5 DEF two
<1> HIDE DEF c, d
<1>6. /\ e % Base \in Bytes /\ d % Base \in Bytes /\ f \in Nat
      /\ d = f * Quarter + TwoByteValue(e % Base, d % Base)
  BY <1>4, LowPair
<1>7. f \in 0 .. Quarter - 1
  BY <1>0, <1>51, PairBound
<1> HIDE DEF e, f
<1>8. /\ g % Base \in Bytes /\ f % Base \in Bytes
      /\ f = TwoByteValue(g % Base, f % Base)
  <2>1. TwoBytes(f) = <<g % Base, f % Base>>
    BY DEF TwoBytes, g
  <2> HIDE DEF g
  <2>2. TwoBytes(f)[1] = g % Base /\ TwoBytes(f)[2] = f % Base
    BY <2>1
  <2> QED
    BY <1>7, <2>2, TwoBytesRead
<1> DEFINE bytes == <<g % Base, f % Base, e % Base, d % Base,
                      c % Base, b % Base, a % Base, n % Base>>
<1>9. EightBytes(n) = bytes
  BY DEF EightBytes, a, b, c, d, e, f, g
<1>10. \A i \in 1 .. 8 : bytes[i] \in Bytes
  <2> SUFFICES ASSUME NEW i \in 1 .. 8 PROVE bytes[i] \in Bytes
    OBVIOUS
  <2>1. i = 1 \/ i = 2 \/ i = 3 \/ i = 4 \/ i = 5 \/ i = 6 \/ i = 7 \/ i = 8
    OBVIOUS
  <2> HIDE DEF g
  <2> QED
    BY <2>1, <1>2, <1>4, <1>6, <1>8
<1>11. EightByteValue(bytes, 1) =
         ((TwoByteValue(g % Base, f % Base) * Quarter
           + TwoByteValue(e % Base, d % Base)) * Quarter
           + TwoByteValue(c % Base, b % Base)) * Quarter
           + TwoByteValue(a % Base, n % Base)
  <2> HIDE DEF g
  <2> QED
    BY DEF EightByteValue
<1> HIDE DEF g, bytes
<1>12. EightByteValue(bytes, 1) = n
  BY <1>2, <1>4, <1>6, <1>8, <1>11
<1> QED
  BY <1>9, <1>10, <1>12
-----------------------------------------------------------------------------
\* A byte put before a sequence of bytes.
LEMMA Prepended ==
  ASSUME NEW x \in Bytes, NEW s \in Seq(Bytes)
  PROVE  LET t == <<x>> \o s
         IN  /\ t \in Seq(Bytes) /\ Len(t) = Len(s) + 1
             /\ t[1] = x /\ \A i \in 1 .. Len(s) : t[i + 1] = s[i]
<1>1. <<x>> \in Seq(Bytes) /\ Len(<<x>>) = 1 /\ <<x>>[1] = x
  OBVIOUS
<1> QED
  BY <1>1

\* Two bytes are a sequence of bytes of length two.
LEMMA PairIsSeq ==
  ASSUME NEW x \in Bytes, NEW y \in Bytes
  PROVE  <<x, y>> \in Seq(Bytes) /\ Len(<<x, y>>) = 2
OBVIOUS

\* The bytes that announce the length, by the three forms they have.
LEMMA LengthBytesForm ==
  ASSUME NEW n \in Lengths, NEW bit \in {0, TopBit}
  PROVE  LET L == LengthBytes(n, bit)
         IN  /\ L \in Seq(Bytes)
             /\ n < Short => Len(L) = 1 /\ L[1] = n + bit
             /\ n >= Short /\ n < Quarter =>
                  Len(L) = 3 /\ L[1] = Short + bit /\ L[2] = TwoBytes(n)[1] /\ L[3] = TwoBytes(n)[2]
             /\ n >= Short /\ n >= Quarter =>
                  Len(L) = 9 /\ L[1] = Short + 1 + bit
                  /\ \A i \in 1 .. 8 : L[i + 1] = EightBytes(n)[i]
<1> DEFINE L == LengthBytes(n, bit)
<1>1. n \in Nat
  BY BaseFacts DEF Lengths
<1>2. CASE n < Short
  <2>1. n + bit \in Bytes
    BY <1>1, <1>2, BaseFacts DEF Bytes
  <2>2. L = <<n + bit>>
    BY <1>2 DEF LengthBytes
  <2> QED
    BY <1>1, <1>2, <2>1, <2>2, BaseFacts
<1>3. CASE n >= Short /\ n < Quarter
  <2>1. Short + bit \in Bytes /\ TwoBytes(n)[1] \in Bytes /\ TwoBytes(n)[2] \in Bytes
    BY <1>1, <1>3, BaseFacts, TwoBytesRead DEF Bytes
  <2>2. TwoBytes(n) = <<TwoBytes(n)[1], TwoBytes(n)[2]>>
    BY DEF TwoBytes
  <2>3. L = <<Short + bit>> \o TwoBytes(n)
    BY <1>1, <1>3, BaseFacts DEF LengthBytes
  <2> DEFINE T == TwoBytes(n)
  <2> HIDE DEF T, L
  <2>4. T \in Seq(Bytes) /\ Len(T) = 2
    BY <2>1, <2>2, PairIsSeq DEF T
  <2>5. L = <<Short + bit>> \o T
    BY <2>3 DEF T
  <2>6. L \in Seq(Bytes) /\ Len(L) = 3 /\ L[1] = Short + bit
    BY <2>1, <2>4, <2>5, Prepended
  <2>7. L[2] = T[1] /\ L[3] = T[2]
    <3>1. \A i \in 1 .. 2 : L[i + 1] = T[i]
      BY <2>1, <2>4, <2>5, Prepended
    <3> QED
      BY <3>1
  <2> QED
    BY <1>1, <1>3, <2>6, <2>7, BaseFacts DEF L, T
<1>4. CASE n >= Short /\ n >= Quarter
  <2>1. Short + 1 + bit \in Bytes /\ \A i \in 1 .. 8 : EightBytes(n)[i] \in Bytes
    BY <1>1, BaseFacts, EightBytesRead DEF Bytes
  <2>2. L = <<Short + 1 + bit>> \o EightBytes(n)
    BY <1>1, <1>4, BaseFacts DEF LengthBytes
  <2>3. EightBytes(n) \in Seq(Bytes) /\ Len(EightBytes(n)) = 8
    <3> DEFINE E == EightBytes(n)
    <3>1. Len(E) = 8 /\ E = [i \in 1 .. 8 |-> E[i]]
      BY DEF EightBytes
    <3> HIDE DEF E
    <3>2. E \in [1 .. 8 -> Bytes]
      BY <2>1, <3>1 DEF E
    <3> QED
      BY <3>1, <3>2 DEF E
  <2> HIDE DEF L
  <2>4. \A i \in 1 .. 8 : L[i + 1] = EightBytes(n)[i]
    BY <2>1, <2>2, <2>3, Prepended
  <2>5. L \in Seq(Bytes) /\ Len(L) = 9 /\ L[1] = Short + 1 + bit
    <3> DEFINE E == EightBytes(n)   first == Short + 1 + bit
    <3>1. E \in Seq(Bytes) /\ Len(E) = 8 /\ first \in Bytes /\ L = <<first>> \o E
      BY <2>1, <2>2, <2>3
    <3> HIDE DEF E, first
    <3>2. L \in Seq(Bytes) /\ Len(L) = Len(E) + 1 /\ L[1] = first
      BY <3>1, Prepended
    <3> QED
      BY <3>1, <3>2 DEF first
  <2> QED
    BY <1>1, <1>4, <2>4, <2>5, BaseFacts DEF L
<1> QED
  BY <1>1, <1>2, <1>3, <1>4, BaseFacts

\* The bytes of two sequences of bytes joined.
LEMMA Joined ==
  ASSUME NEW s \in Seq(Bytes), NEW t \in Seq(Bytes)
  PROVE  /\ s \o t \in Seq(Bytes) /\ Len(s \o t) = Len(s) + Len(t)
         /\ \A i \in 1 .. Len(s) : (s \o t)[i] = s[i]
         /\ \A i \in 1 .. Len(t) : (s \o t)[Len(s) + i] = t[i]
OBVIOUS

\* The MASK bit of the header.
MaskBit(useMask) == IF useMask THEN TopBit ELSE 0

\* The key as the header carries it.
KeyBytes(useMask, key) == IF useMask THEN key ELSE << >>

\* A masked header carries the four bytes of the key, an unmasked one none.
LEMMA KeyBytesForm ==
  ASSUME NEW useMask \in BOOLEAN, NEW key \in Keys
  PROVE  /\ KeyBytes(useMask, key) \in Seq(Bytes)
         /\ Len(KeyBytes(useMask, key)) = IF useMask THEN 4 ELSE 0
         /\ useMask => KeyBytes(useMask, key) = key
<1>1. CASE useMask
  BY <1>1 DEF KeyBytes, Keys
<1>2. CASE ~useMask
  <2>1. KeyBytes(useMask, key) = << >>
    BY <1>2 DEF KeyBytes
  <2> QED
    BY <1>2, <2>1
<1> QED
  BY <1>1, <1>2

\* Where the parts of a header lie in whatever begins with it.
LEMMA HeaderParts ==
  ASSUME NEW type \in 0 .. TopBit - 1, NEW n \in Lengths, NEW useMask \in BOOLEAN, NEW key \in Keys,
         NEW rest \in Seq(Bytes)
  PROVE  LET L == LengthBytes(n, MaskBit(useMask))
             H == Header(type, n, useMask, key)
             K == KeyBytes(useMask, key)
             d == H \o rest
         IN  /\ L \in Seq(Bytes) /\ K \in Seq(Bytes)
             /\ Len(H) = 1 + Len(L) + Len(K) /\ H \in Seq(Bytes)
             /\ \A i \in 1 .. Len(L) : d[i + 1] = L[i]
             /\ \A i \in 1 .. Len(K) : d[1 + Len(L) + i] = K[i]
             /\ d \in Seq(Bytes)
<1> DEFINE L == LengthBytes(n, MaskBit(useMask))
           H == Header(type, n, useMask, key)
           K == KeyBytes(useMask, key)
           first == TopBit + type
           head == <<first>> \o L
           d == H \o rest
<1>1. MaskBit(useMask) \in {0, TopBit} /\ K \in Seq(Bytes) /\ first \in Bytes
  BY BaseFacts, KeyBytesForm DEF MaskBit, Bytes
<1>2. L \in Seq(Bytes)
  BY <1>1, LengthBytesForm
<1>3. H = head \o K
  BY DEF Header, MaskBit, KeyBytes
<1> HIDE DEF L, first, H, K
<1>4. head \in Seq(Bytes) /\ Len(head) = Len(L) + 1 /\ \A i \in 1 .. Len(L) : head[i + 1] = L[i]
  BY <1>1, <1>2, Prepended
<1> HIDE DEF head
<1>5. /\ H \in Seq(Bytes) /\ Len(H) = Len(head) + Len(K)
      /\ \A i \in 1 .. Len(head) : H[i] = head[i]
      /\ \A i \in 1 .. Len(K) : H[Len(head) + i] = K[i]
  BY <1>1, <1>3, <1>4, Joined
<1>6. d \in Seq(Bytes) /\ \A i \in 1 .. Len(H) : d[i] = H[i]
  BY <1>5, Joined
<1> HIDE DEF d
<1>7. Len(L) \in Nat /\ Len(K) \in Nat
  BY <1>1, <1>2
<1>8. \A i \in 1 .. Len(L) : d[i + 1] = L[i]
  <2> TAKE i \in 1 .. Len(L)
  <2>1. i + 1 \in 1 .. Len(head) /\ i + 1 \in 1 .. Len(H)
    BY <1>4, <1>5, <1>7
  <2> QED
    BY <1>4, <1>5, <1>6, <2>1
<1>9. \A i \in 1 .. Len(K) : d[1 + Len(L) + i] = K[i]
  <2> TAKE i \in 1 .. Len(K)
  <2>1. Len(head) + i = 1 + Len(L) + i /\ Len(head) + i \in 1 .. Len(H)
    BY <1>4, <1>5, <1>7
  <2> QED
    BY <1>5, <1>6, <2>1
<1> QED
  BY <1>1, <1>2, <1>4, <1>5, <1>6, <1>7, <1>8, <1>9 DEF d, H, L, K

\* The lengths written in one byte are among those of a 16-bit field.
LEMMA ShortBelowQuarter == Short < Quarter
<1>1. Base \in Nat /\ Short \in Nat /\ Base > 0 /\ Short < Base
  BY BaseFacts
<1>2. Base * Base >= Base
  BY <1>1
<1> QED
  BY <1>1, <1>2 DEF Quarter

\* The header that sendData() fills in has the length its assertion
\* (easywsclient.cpp:679) computes beforehand, for every size of message, with
\* and without a masking key.
THEOREM HeaderLength ==
  ASSUME NEW type \in 0 .. TopBit - 1, NEW n \in Lengths, NEW useMask \in BOOLEAN, NEW key \in Keys
  PROVE  Len(Header(type, n, useMask, key)) = ExpectedHeaderLen(n, useMask)
<1> DEFINE L == LengthBytes(n, MaskBit(useMask))
           K == KeyBytes(useMask, key)
<1>1. << >> \in Seq(Bytes) /\ n \in Nat /\ MaskBit(useMask) \in {0, TopBit}
  BY BaseFacts DEF Lengths, MaskBit
<1>2. Len(Header(type, n, useMask, key)) = 1 + Len(L) + Len(K)
  BY <1>1, HeaderParts
<1>3. Len(K) = IF useMask THEN 4 ELSE 0
  BY KeyBytesForm
<1>4. /\ n < Short => Len(L) = 1
      /\ n >= Short /\ n < Quarter => Len(L) = 3
      /\ n >= Short /\ n >= Quarter => Len(L) = 9
  BY <1>1, LengthBytesForm
<1> HIDE DEF L, K
<1>5. Len(Header(type, n, useMask, key)) = 1 + Len(L) + (IF useMask THEN 4 ELSE 0)
  BY <1>2, <1>3
<1>6. 1 + Len(L) = 2 + (IF n >= Short THEN 2 ELSE 0) + (IF n >= Quarter THEN 6 ELSE 0)
  <2>1. CASE n < Short
    <3>1. Len(L) = 1
      BY <1>1, <1>4, <2>1, BaseFacts
    <3>2. n < Quarter <=> TRUE
      BY <1>1, <2>1, BaseFacts, ShortBelowQuarter
    <3> QED
      BY <1>1, <2>1, <3>1, <3>2, BaseFacts
  <2>2. CASE n >= Short /\ n < Quarter
    <3>1. Len(L) = 3
      BY <1>1, <1>4, <2>2, BaseFacts
    <3>2. n < Quarter <=> TRUE
      BY <1>1, <2>2, BaseFacts, ShortBelowQuarter
    <3> QED
      BY <1>1, <2>2, <3>1, <3>2, BaseFacts
  <2>3. CASE n >= Short /\ n >= Quarter
    <3>1. Len(L) = 9
      BY <1>1, <1>4, <2>3, BaseFacts
    <3>2. n < Quarter <=> FALSE
      BY <1>1, <2>3, BaseFacts, ShortBelowQuarter
    <3> QED
      BY <1>1, <2>3, <3>1, <3>2, BaseFacts
  <2> QED
    BY <1>1, <2>1, <2>2, <2>3, BaseFacts
<1> QED
  BY <1>5, <1>6 DEF ExpectedHeaderLen

\* The four bytes that end at a place are the key if they are one by one.
LEMMA KeyIsRead ==
  ASSUME NEW key \in Keys, NEW d \in Seq(Bytes), NEW h \in 4 .. Len(d),
         \A i \in 1 .. 4 : d[h - 4 + i] = key[i]
  PROVE  SubSeq(d, h - 3, h) = key
<1> DEFINE k == SubSeq(d, h - 3, h)
<1>1. key \in Seq(Bytes) /\ Len(key) = 4
  BY DEF Keys
<1>2. PICK l \in Nat : l = Len(d) /\ h \in Nat /\ 4 <= h /\ h <= l
  OBVIOUS
<1>3. \A i \in h - 3 .. h : d[i] \in Bytes
  BY <1>2
<1>4. k \in Seq(Bytes) /\ Len(k) = 4 /\ \A i \in 1 .. 4 : k[i] = d[h - 4 + i]
  <2>1. h - 3 \in Int /\ h \in Int /\ h - 3 <= h /\ h - (h - 3) + 1 = 4
    BY <1>2
  <2>2. /\ k \in Seq(Bytes) /\ Len(k) = h - (h - 3) + 1
        /\ \A i \in 1 .. h - (h - 3) + 1 : k[i] = d[(h - 3) + i - 1]
    BY <1>3, <2>1, SubSeqProperties
  <2> HIDE DEF k
  <2>3. \A i \in 1 .. 4 : (h - 3) + i - 1 = h - 4 + i
    BY <1>2
  <2> QED
    BY <2>1, <2>2, <2>3
<1> HIDE DEF k
<1>5. Len(k) = Len(key) /\ \A i \in 1 .. Len(k) : k[i] = key[i]
  BY <1>1, <1>4
<1>6. k = key
  BY <1>1, <1>4, <1>5, SeqEqual
<1> QED
  BY <1>6 DEF k

\* _dispatchBinary() (easywsclient.cpp:359-409) reads from a header, with
\* whatever bytes behind it, the length, the mask bit and the key that
\* sendData() put there, and knows where the header ends.
THEOREM RoundTrip ==
  ASSUME NEW type \in 0 .. TopBit - 1, NEW n \in Lengths, NEW useMask \in BOOLEAN, NEW key \in Keys,
         NEW rest \in Seq(Bytes)
  PROVE  LET H == Header(type, n, useMask, key)
             d == H \o rest
         IN  /\ N(d) = n
             /\ HeaderSize(d) = Len(H)
             /\ (Mask(d) <=> useMask)
             /\ useMask => MaskingKey(d) = key
<1> DEFINE L == LengthBytes(n, MaskBit(useMask))
           H == Header(type, n, useMask, key)
           K == KeyBytes(useMask, key)
           d == H \o rest
           bit == MaskBit(useMask)
<1>1. n \in Nat /\ bit \in {0, TopBit}
  BY BaseFacts DEF Lengths, MaskBit
<1>2. /\ Len(H) = 1 + Len(L) + Len(K) /\ L \in Seq(Bytes)
      /\ \A i \in 1 .. Len(L) : d[i + 1] = L[i]
      /\ \A i \in 1 .. Len(K) : d[1 + Len(L) + i] = K[i]
  BY HeaderParts
<1>3. /\ Len(K) = IF useMask THEN 4 ELSE 0
      /\ useMask => K = key
      /\ bit = IF useMask THEN TopBit ELSE 0
  BY KeyBytesForm DEF MaskBit
<1>4. /\ n < Short => Len(L) = 1 /\ L[1] = n + bit
      /\ n >= Short /\ n < Quarter =>
           Len(L) = 3 /\ L[1] = Short + bit /\ L[2] = TwoBytes(n)[1] /\ L[3] = TwoBytes(n)[2]
      /\ n >= Short /\ n >= Quarter =>
           Len(L) = 9 /\ L[1] = Short + 1 + bit /\ \A i \in 1 .. 8 : L[i + 1] = EightBytes(n)[i]
  BY <1>1, LengthBytesForm
<1> HIDE DEF L, H, K, d, bit
<1>5. ASSUME NEW x \in 0 .. TopBit - 1, d[2] = x + bit
      PROVE  N0(d) = x /\ (Mask(d) <=> useMask)
  BY <1>1, <1>3, <1>5, BaseFacts DEF N0, Mask
<1> DEFINE Read == /\ N(d) = n /\ HeaderSize(d) = Len(H) /\ (Mask(d) <=> useMask)
                   /\ useMask => \A i \in 1 .. 4 : d[HeaderSize(d) - 4 + i] = key[i]
<1>6. ASSUME n < Short PROVE Read
  <2>0. Len(L) = 1 /\ L[1] = n + bit
    BY <1>1, <1>4, <1>6, BaseFacts
  <2>1. Len(L) = 1 /\ d[2] = n + bit
    BY <1>2, <2>0
  <2>2. N0(d) = n /\ (Mask(d) <=> useMask)
    BY <1>1, <1>5, <1>6, <2>1, BaseFacts
  <2>3. N(d) = n /\ HeaderSize(d) = Len(H)
    BY <1>1, <1>2, <1>3, <1>6, <2>1, <2>2, BaseFacts DEF N, HeaderSize
  <2>4. useMask => HeaderSize(d) - 4 = 1 + Len(L)
    <3>1. useMask => Len(K) = 4
      BY <1>3
    <3>2. HeaderSize(d) = 1 + Len(L) + Len(K)
      BY <1>2, <2>3
    <3> QED
      BY <2>1, <3>1, <3>2
  <2> QED
    BY <1>2, <1>3, <2>1, <2>2, <2>3, <2>4
<1>7. ASSUME n >= Short /\ n < Quarter PROVE Read
  <2>1. Len(L) = 3 /\ d[2] = Short + bit /\ d[3] = TwoBytes(n)[1] /\ d[4] = TwoBytes(n)[2]
    <3>1. Len(L) = 3 /\ L[1] = Short + bit /\ L[2] = TwoBytes(n)[1] /\ L[3] = TwoBytes(n)[2]
      BY <1>1, <1>4, <1>7, BaseFacts
    <3>2. d[1 + 1] = L[1] /\ d[2 + 1] = L[2] /\ d[3 + 1] = L[3]
      BY <1>2, <3>1
    <3> QED
      BY <3>1, <3>2
  <2>2. N0(d) = Short /\ (Mask(d) <=> useMask)
    BY <1>1, <1>5, <2>1, BaseFacts
  <2>3. N(d) = n
    BY <1>1, <1>7, <2>1, <2>2, BaseFacts, TwoBytesRead DEF N
  <2>4. HeaderSize(d) = Len(H)
    BY <1>2, <1>3, <2>1, <2>2, BaseFacts DEF HeaderSize
  <2>5. useMask => HeaderSize(d) - 4 = 1 + Len(L)
    <3>1. useMask => Len(K) = 4
      BY <1>3
    <3>2. HeaderSize(d) = 1 + Len(L) + Len(K)
      BY <1>2, <2>4
    <3> QED
      BY <2>1, <3>1, <3>2
  <2> QED
    BY <1>2, <1>3, <2>1, <2>2, <2>3, <2>4, <2>5
<1>8. ASSUME n >= Short /\ n >= Quarter PROVE Read
  <2>1. /\ Len(L) = 9 /\ d[2] = Short + 1 + bit
        /\ \A i \in 1 .. 8 : d[i + 2] = EightBytes(n)[i]
    <3>0. Len(L) = 9 /\ L[1] = Short + 1 + bit /\ \A i \in 1 .. 8 : L[i + 1] = EightBytes(n)[i]
      BY <1>1, <1>4, <1>8, BaseFacts
    <3>1. d[1 + 1] = L[1]
      BY <1>2, <3>0
    <3>2. ASSUME NEW i \in 1 .. 8 PROVE d[i + 2] = EightBytes(n)[i]
      <4>1. i + 1 \in 1 .. Len(L) /\ (i + 1) + 1 = i + 2
        BY <3>0
      <4>2. d[(i + 1) + 1] = L[i + 1]
        BY <1>2, <4>1
      <4> QED
        BY <3>0, <4>1, <4>2
    <3> QED
      BY <3>0, <3>1, <3>2
  <2>2. N0(d) = Short + 1 /\ (Mask(d) <=> useMask)
    BY <1>1, <1>5, <2>1, BaseFacts
  <2>3. EightByteValue(d, 3) = EightByteValue(EightBytes(n), 1)
    <3>1. /\ d[3] = EightBytes(n)[1] /\ d[4] = EightBytes(n)[2]
          /\ d[5] = EightBytes(n)[3] /\ d[6] = EightBytes(n)[4]
          /\ d[7] = EightBytes(n)[5] /\ d[8] = EightBytes(n)[6]
          /\ d[9] = EightBytes(n)[7] /\ d[10] = EightBytes(n)[8]
      <4> DEFINE E == EightBytes(n)
      <4> HIDE DEF E
      <4>1. /\ d[1 + 2] = E[1] /\ d[2 + 2] = E[2] /\ d[3 + 2] = E[3] /\ d[4 + 2] = E[4]
            /\ d[5 + 2] = E[5] /\ d[6 + 2] = E[6] /\ d[7 + 2] = E[7] /\ d[8 + 2] = E[8]
        BY <2>1 DEF E
      <4> QED
        BY <4>1 DEF E
    <3> QED
      BY <3>1 DEF EightByteValue
  <2>4. N(d) = n
    BY <1>1, <2>2, <2>3, BaseFacts, EightBytesRead DEF N
  <2>5. HeaderSize(d) = Len(H)
    BY <1>2, <1>3, <2>1, <2>2, BaseFacts DEF HeaderSize
  <2>6. useMask => HeaderSize(d) - 4 = 1 + Len(L)
    <3> SUFFICES ASSUME useMask PROVE HeaderSize(d) - 4 = 1 + Len(L)
      OBVIOUS
    <3>1. Len(K) = 4 /\ Len(L) = 9
      BY <1>3, <2>1
    <3>2. HeaderSize(d) = 1 + Len(L) + Len(K)
      BY <1>2, <2>5
    <3>3. HeaderSize(d) = 14
      BY <3>1, <3>2
    <3> QED
      BY <3>1, <3>3
  <2> QED
    BY <1>2, <1>3, <2>1, <2>2, <2>4, <2>5, <2>6
<1>9. n < Short \/ (n >= Short /\ n < Quarter) \/ (n >= Short /\ n >= Quarter)
  BY <1>1, BaseFacts
<1>10. /\ N(d) = n /\ HeaderSize(d) = Len(H) /\ (Mask(d) <=> useMask)
       /\ useMask => \A i \in 1 .. 4 : d[HeaderSize(d) - 4 + i] = key[i]
  BY <1>6, <1>7, <1>8, <1>9
<1>11. ASSUME useMask PROVE MaskingKey(d) = key
  <2>1. H \in Seq(Bytes) /\ d \in Seq(Bytes) /\ d = H \o rest
    BY HeaderParts DEF H, d
  <2>2. Len(H) \in 4 .. Len(d)
    <3>1. Len(K) = 4 /\ Len(L) \in Nat
      BY <1>2, <1>3, <1>11
    <3>2. Len(H) \in Nat /\ Len(H) >= 4
      BY <1>2, <2>1, <3>1
    <3>3. Len(d) = Len(H) + Len(rest) /\ Len(rest) \in Nat
      BY <2>1
    <3> QED
      BY <3>2, <3>3
  <2>3. \A i \in 1 .. 4 : d[Len(H) - 4 + i] = key[i]
    BY <1>10, <1>11
  <2>4. MaskingKey(d) = SubSeq(d, Len(H) - 3, Len(H))
    BY <1>10 DEF MaskingKey
  <2> QED
    BY <2>1, <2>2, <2>3, <2>4, KeyIsRead
<1> QED
  BY <1>10, <1>11 DEF d, H

\* The frame size that _dispatchBinary() computes in 32 bits
\* (easywsclient.cpp:410) is the size of the frame, if that is below 2^32: the
\* truncation of the length before the sum loses nothing then.
THEOREM FrameSizeExact ==
  ASSUME NEW type \in 0 .. TopBit - 1, NEW n \in Lengths, NEW useMask \in BOOLEAN, NEW key \in Keys,
         NEW rest \in Seq(Bytes), Len(Header(type, n, useMask, key)) + n < Word
  PROVE  FrameSize(Header(type, n, useMask, key) \o rest) = Len(Header(type, n, useMask, key)) + n
<1> DEFINE H == Header(type, n, useMask, key)
           d == H \o rest
<1>1. N(d) = n /\ HeaderSize(d) = Len(H)
  BY RoundTrip
<1>2. n \in Nat /\ Len(H) \in Nat /\ Word \in Nat \ {0}
  BY BaseFacts, HeaderParts DEF Lengths
<1> HIDE DEF H
<1>3. n % Word = n /\ (Len(H) + n) % Word = Len(H) + n
  <2>1. n < Word /\ Len(H) + n < Word
    BY <1>2 DEF H
  <2> QED
    BY <1>2, <2>1
<1> QED
  BY <1>1, <1>3 DEF FrameSize, H

-----------------------------------------------------------------------------
(* The mask.                                                               *)

\* The head is shorter than one block and never longer than the data.
LEMMA SkipBytesRange ==
  ASSUME NEW address \in Nat, NEW dataLen \in Nat
  PROVE  SkipBytes(address, dataLen) \in 0 .. dataLen
BY DEF SkipBytes

\* The blocks lie between the head and the rest, and the rest begins a whole
\* number of blocks after the head.
LEMMA RestRange ==
  ASSUME NEW address \in Nat, NEW dataLen \in Nat
  PROVE  /\ BlockCount(address, dataLen) \in Nat
         /\ RestAt(address, dataLen) \in SkipBytes(address, dataLen) .. dataLen
<1>1. SkipBytes(address, dataLen) \in 0 .. dataLen
  BY SkipBytesRange
<1> QED
  BY <1>1 DEF BlockCount, RestAt

\* The turned key continues the phase of the head: byte s + o takes what an
\* unaligned byte-by-byte pass takes for it.
LEMMA PhaseContinues ==
  ASSUME NEW s \in Nat, NEW o \in Nat
  PROVE  AlignKey(s, Phase(o)) = Phase(s + o)
BY DEF AlignKey, Phase

\* fastXOR() masks byte i of a message with key byte i % 4, as slowXOR() does
\* (FastXOR.cpp:28) and as RFC 6455 asks, for every address and every length:
\* through the unaligned head, the blocks of 8 and the rest.
THEOREM KeyPhase ==
  ASSUME NEW address \in Nat, NEW dataLen \in Nat, NEW i \in 0 .. dataLen - 1
  PROVE  KeyByte(address, dataLen, i) = Phase(i)
<1> DEFINE skip == SkipBytes(address, dataLen)
           rest == RestAt(address, dataLen)
           blocks == BlockCount(address, dataLen)
<1>1. skip \in Nat /\ blocks \in Nat /\ rest = skip + 8 * blocks /\ rest \in Nat
  BY SkipBytesRange, RestRange DEF RestAt
<1> HIDE DEF skip, rest, blocks
<1>2. CASE i < skip
  BY <1>2 DEF KeyByte, skip
<1>3. CASE skip <= i /\ i < rest
  <2>1. (i - skip) \in Nat
    BY <1>1, <1>3
  <2>2. MaskByte(skip, (i - skip) % 8) = AlignKey(skip, Phase(i - skip))
    BY <2>1 DEF MaskByte, Phase
  <2>3. AlignKey(skip, Phase(i - skip)) = Phase(i)
    BY <1>1, <2>1, PhaseContinues
  <2> QED
    BY <1>1, <1>3, <2>2, <2>3 DEF KeyByte, skip, rest
<1>4. CASE rest <= i
  <2>1. (i - rest) \in Nat /\ (i - skip) = (i - rest) + 8 * blocks
    BY <1>1, <1>4
  <2>2. Phase(i - rest) = Phase(i - skip)
    BY <1>1, <2>1 DEF Phase
  <2>3. AlignKey(skip, Phase(i - skip)) = Phase(i)
    BY <1>1, <2>1, PhaseContinues
  <2> QED
    BY <1>1, <1>4, <2>2, <2>3 DEF KeyByte, skip, rest
<1> QED
  BY <1>1, <1>2, <1>3, <1>4

\* A byte masked by the sender is unmasked by the receiver with the same key
\* byte, though the message lies at another address (easywsclient.cpp:424,
\* :691): XOR takes the mask off again.
THEOREM MaskingCancels ==
  ASSUME NEW from \in Nat, NEW to \in Nat, NEW dataLen \in Nat,
         NEW i \in 0 .. dataLen - 1
  PROVE  KeyByte(from, dataLen, i) = KeyByte(to, dataLen, i)
BY KeyPhase

-----------------------------------------------------------------------------
(* A sequence that is the concatenation of others.                         *)

\* s is made of the members of fs one after the other: member k begins behind
\* place pos[k - 1] and ends at place pos[k].
LaidAt(s, fs, pos) ==
  /\ pos \in [0 .. Len(fs) -> Nat] /\ pos[0] = 0 /\ pos[Len(fs)] = Len(s)
  /\ \A k \in 1 .. Len(fs) :
       /\ pos[k] = pos[k - 1] + Len(fs[k])
       /\ \A i \in 1 .. Len(fs[k]) : s[pos[k - 1] + i] = fs[k][i]
  /\ \A j, k \in 0 .. Len(fs) : j <= k => pos[j] <= pos[k]

Laid(s, fs) == \E pos \in [0 .. Len(fs) -> Nat] : LaidAt(s, fs, pos)

\* What the elements of a concatenation are.
LEMMA ConcatFacts ==
  ASSUME NEW Elem, NEW s \in Seq(Elem), NEW t \in Seq(Elem)
  PROVE  /\ s \o t \in Seq(Elem) /\ Len(s \o t) = Len(s) + Len(t)
         /\ \A i \in 1 .. Len(s) : (s \o t)[i] = s[i]
         /\ \A i \in 1 .. Len(t) : (s \o t)[Len(s) + i] = t[i]
OBVIOUS

\* What the elements of the rest of a sequence are.
LEMMA RestFacts ==
  ASSUME NEW Elem, NEW s \in Seq(Elem), NEW n \in 0 .. Len(s)
  PROVE  /\ SubSeq(s, n + 1, Len(s)) \in Seq(Elem)
         /\ Len(SubSeq(s, n + 1, Len(s))) = Len(s) - n
         /\ \A i \in 1 .. Len(s) - n : SubSeq(s, n + 1, Len(s))[i] = s[n + i]
OBVIOUS

\* The same for what follows the first element.
LEMMA TailFacts ==
  ASSUME NEW Elem, NEW s \in Seq(Elem), Len(s) >= 1
  PROVE  /\ Tail(s) \in Seq(Elem) /\ Len(Tail(s)) = Len(s) - 1
         /\ \A i \in 1 .. Len(s) - 1 : Tail(s)[i] = s[i + 1]
OBVIOUS

\* Sequences with the same elements are the same.
LEMMA SameSeq ==
  ASSUME NEW Elem, NEW s \in Seq(Elem), NEW t \in Seq(Elem), Len(s) = Len(t),
         \A i \in 1 .. Len(s) : s[i] = t[i]
  PROVE  s = t
BY SeqEqual

\* Nothing is made of nothing.
LEMMA LaidEmpty == Laid(<<>>, <<>>)
<1> DEFINE pos == [k \in 0 .. 0 |-> 0]
<1>1. Len(<<>>) = 0 /\ pos \in [0 .. 0 -> Nat] /\ pos[0] = 0
  OBVIOUS
<1> HIDE DEF pos
<1>2. LaidAt(<<>>, <<>>, pos)
  BY <1>1 DEF LaidAt
<1> QED
  BY <1>1, <1>2 DEF Laid

\* One more member is put behind the others.
LEMMA LaidAppend ==
  ASSUME NEW Elem, NEW s \in Seq(Elem), NEW fs \in Seq(Seq(Elem)), NEW f \in Seq(Elem), Laid(s, fs)
  PROVE  Laid(s \o f, Append(fs, f))
<1>1. PICK pos \in [0 .. Len(fs) -> Nat] : LaidAt(s, fs, pos)
  BY DEF Laid
<1>2. PICK n \in Nat, l \in Nat, m \in Nat : n = Len(fs) /\ l = Len(s) /\ m = Len(f)
  OBVIOUS
<1> DEFINE t == s \o f
           gs == Append(fs, f)
           new == [k \in 0 .. n + 1 |-> IF k <= n THEN pos[k] ELSE l + m]
<1>3. /\ Len(t) = l + m /\ (\A i \in 1 .. l : t[i] = s[i]) /\ \A i \in 1 .. m : t[l + i] = f[i]
  BY <1>2, ConcatFacts
<1>4. Len(gs) = n + 1 /\ gs[n + 1] = f /\ \A k \in 1 .. n : gs[k] = fs[k]
  BY <1>2
<1>5. /\ pos \in [0 .. n -> Nat] /\ pos[0] = 0 /\ pos[n] = l
      /\ \A k \in 1 .. n : /\ pos[k] = pos[k - 1] + Len(fs[k])
                           /\ \A i \in 1 .. Len(fs[k]) : s[pos[k - 1] + i] = fs[k][i]
      /\ \A j, k \in 0 .. n : j <= k => pos[j] <= pos[k]
  BY <1>1, <1>2 DEF LaidAt
<1>6. /\ new \in [0 .. n + 1 -> Nat] /\ new[n + 1] = l + m
      /\ \A k \in 0 .. n : new[k] = pos[k]
  BY <1>5
<1>a. \A k \in 1 .. n : fs[k] \in Seq(Elem)
  BY <1>2
<1> HIDE DEF t, gs, new
<1>7. ASSUME NEW k \in 1 .. n + 1
      PROVE  /\ new[k] = new[k - 1] + Len(gs[k])
             /\ \A i \in 1 .. Len(gs[k]) : t[new[k - 1] + i] = gs[k][i]
  <2>1. CASE k = n + 1
    <3>1. new[k - 1] = l /\ gs[k] = f /\ new[k] = l + m
      BY <1>4, <1>5, <1>6, <2>1
    <3> QED
      BY <1>2, <1>3, <3>1
  <2>2. CASE k <= n
    <3>1. k \in 1 .. n /\ k - 1 \in 0 .. n /\ k \in 0 .. n
      BY <2>2
    <3>2. gs[k] = fs[k] /\ new[k] = pos[k] /\ new[k - 1] = pos[k - 1]
      BY <1>4, <1>6, <3>1
    <3>a. pos[k - 1] \in Nat /\ fs[k] \in Seq(Elem)
      BY <1>5, <1>a, <3>1
    <3>b. Len(fs[k]) \in Nat
      BY <3>a
    <3>3. PICK p \in Nat, b \in Nat : p = pos[k - 1] /\ b = Len(fs[k])
      BY <3>a, <3>b
    <3>4. p + b <= l
      <4>1. pos[k] <= pos[n] /\ pos[k] = p + b
        BY <1>5, <3>1, <3>3, SMTT(30)
      <4> QED
        BY <1>5, <4>1
    <3>5. \A i \in 1 .. b : t[p + i] = s[p + i]
      BY <1>3, <3>4
    <3> QED
      BY <1>5, <3>1, <3>2, <3>3, <3>5
  <2> QED
    BY <2>1, <2>2
<1>8. ASSUME NEW j \in 0 .. n + 1, NEW k \in 0 .. n + 1, j <= k
      PROVE  new[j] <= new[k]
  <2>1. CASE k <= n
    <3>1. j \in 0 .. n /\ k \in 0 .. n
      BY <1>8, <2>1
    <3>2. pos[j] <= pos[k]
      BY <1>5, <1>8, <3>1
    <3> QED
      BY <1>6, <3>1, <3>2
  <2>2. CASE k = n + 1 /\ j <= n
    <3>1. pos[j] <= pos[n] /\ new[j] = pos[j] /\ pos[j] \in Nat
      BY <1>5, <1>6, <2>2
    <3> QED
      BY <1>5, <1>6, <2>2, <3>1
  <2>3. CASE k = n + 1 /\ j = n + 1
    BY <1>6, <2>3
  <2> QED
    BY <1>8, <2>1, <2>2, <2>3
<1>9. LaidAt(t, gs, new)
  <2>1. new \in [0 .. Len(gs) -> Nat] /\ new[0] = 0 /\ new[Len(gs)] = Len(t)
    BY <1>3, <1>4, <1>5, <1>6
  <2> QED
    BY <1>4, <1>7, <1>8, <2>1 DEF LaidAt
<1> QED
  BY <1>4, <1>6, <1>9 DEF Laid, t, gs

\* What is not empty has a first member; it is at the front, and the others
\* make up the rest.
LEMMA LaidFirst ==
  ASSUME NEW Elem, NEW s \in Seq(Elem), NEW fs \in Seq(Seq(Elem)), Laid(s, fs), Len(fs) >= 1
  PROVE  /\ Len(fs[1]) <= Len(s) /\ \A i \in 1 .. Len(fs[1]) : s[i] = fs[1][i]
         /\ Laid(SubSeq(s, Len(fs[1]) + 1, Len(s)), Tail(fs))
<1>1. PICK pos \in [0 .. Len(fs) -> Nat] : LaidAt(s, fs, pos)
  BY DEF Laid
<1>0. \A k \in 1 .. Len(fs) : fs[k] \in Seq(Elem)
  OBVIOUS
<1>2. PICK n \in Nat, l \in Nat, m \in Nat : n = Len(fs) /\ l = Len(s) /\ m = Len(fs[1]) /\ n >= 1
  BY <1>0
<1>5. /\ pos \in [0 .. n -> Nat] /\ pos[0] = 0 /\ pos[n] = l
      /\ \A k \in 1 .. n : /\ pos[k] = pos[k - 1] + Len(fs[k])
                           /\ \A i \in 1 .. Len(fs[k]) : s[pos[k - 1] + i] = fs[k][i]
      /\ \A j, k \in 0 .. n : j <= k => pos[j] <= pos[k]
  BY <1>1, <1>2 DEF LaidAt
<1>6. pos[1] = m /\ (\A i \in 1 .. m : s[i] = fs[1][i]) /\ m <= l
  <2>1. 1 \in 1 .. n /\ 1 - 1 = 0 /\ 1 \in 0 .. n /\ n \in 0 .. n
    BY <1>2
  <2>a. pos[1] = pos[1 - 1] + Len(fs[1]) /\ \A i \in 1 .. Len(fs[1]) : s[pos[1 - 1] + i] = fs[1][i]
    BY <1>5, <2>1
  <2>2. pos[1] = 0 + m /\ \A i \in 1 .. m : s[0 + i] = fs[1][i]
    BY <1>2, <1>5, <2>1, <2>a
  <2>3. pos[1] <= pos[n]
    BY <1>2, <1>5, <2>1
  <2> QED
    BY <1>5, <2>2, <2>3
<1> DEFINE t == SubSeq(s, m + 1, l)
           gs == Tail(fs)
           new == [k \in 0 .. n - 1 |-> pos[k + 1] - m]
<1>3. Len(t) = l - m /\ \A i \in 1 .. l - m : t[i] = s[m + i]
  <2>1. m \in 0 .. Len(s) /\ l = Len(s)
    BY <1>2, <1>6
  <2> QED
    BY <2>1, RestFacts
<1>4. Len(gs) = n - 1 /\ \A k \in 1 .. n - 1 : gs[k] = fs[k + 1]
  BY <1>2
<1>7. \A k \in 0 .. n - 1 : new[k] = pos[k + 1] - m /\ new[k] \in Nat
  <2> TAKE k \in 0 .. n - 1
  <2>1. k + 1 \in 0 .. n /\ 1 \in 0 .. n /\ 1 <= k + 1
    BY <1>2
  <2>2. pos[1] <= pos[k + 1] /\ pos[k + 1] \in Nat
    BY <1>5, <2>1
  <2> QED
    BY <1>6, <2>2
<1>8. new \in [0 .. n - 1 -> Nat]
  BY <1>7
<1> HIDE DEF t, gs, new
<1>9. ASSUME NEW k \in 1 .. n - 1
      PROVE  /\ new[k] = new[k - 1] + Len(gs[k])
             /\ \A i \in 1 .. Len(gs[k]) : t[new[k - 1] + i] = gs[k][i]
  <2>1. k + 1 \in 1 .. n /\ k + 1 \in 0 .. n /\ k \in 0 .. n - 1 /\ k - 1 \in 0 .. n - 1
        /\ (k - 1) + 1 = k /\ (k + 1) - 1 = k /\ n \in 0 .. n /\ k + 1 <= n /\ k \in 0 .. n
    BY <1>2
  <2>a. fs[k + 1] \in Seq(Elem) /\ pos[k] \in Nat
    BY <1>0, <1>2, <1>5, <2>1
  <2>2. PICK p \in Nat, b \in Nat : p = pos[k] /\ b = Len(fs[k + 1])
    BY <2>a
  <2>3. /\ pos[k + 1] = p + b /\ (\A i \in 1 .. b : s[p + i] = fs[k + 1][i])
        /\ pos[k + 1] <= l
    BY <1>5, <2>1, <2>2
  <2>4. new[k] = (p + b) - m /\ new[k - 1] = p - m /\ p - m \in Nat
    BY <1>7, <2>1, <2>2, <2>3
  <2>5. gs[k] = fs[k + 1]
    BY <1>4
  <2>6. ASSUME NEW i \in 1 .. b PROVE t[(p - m) + i] = s[p + i]
    <3>1. (p - m) + i \in 1 .. l - m /\ m + ((p - m) + i) = p + i
      BY <2>3, <2>4
    <3> QED
      BY <1>3, <3>1
  <2>7. new[k] = new[k - 1] + Len(gs[k])
    BY <2>2, <2>4, <2>5
  <2>8. \A i \in 1 .. Len(gs[k]) : t[new[k - 1] + i] = gs[k][i]
    BY <2>2, <2>3, <2>4, <2>5, <2>6
  <2> QED
    BY <2>7, <2>8
<1>10. ASSUME NEW j \in 0 .. n - 1, NEW k \in 0 .. n - 1, j <= k
       PROVE  new[j] <= new[k]
  <2>1. j + 1 \in 0 .. n /\ k + 1 \in 0 .. n /\ j + 1 <= k + 1
    BY <1>2, <1>10
  <2>2. pos[j + 1] <= pos[k + 1] /\ pos[j + 1] \in Nat /\ pos[k + 1] \in Nat
    BY <1>5, <2>1
  <2> QED
    BY <1>7, <2>2
<1>11. LaidAt(t, gs, new)
  <2>1. new[0] = 0 /\ new[n - 1] = l - m
    <3>1. 0 \in 0 .. n - 1 /\ n - 1 \in 0 .. n - 1 /\ 0 + 1 = 1 /\ (n - 1) + 1 = n
      BY <1>2
    <3>2. new[0] = pos[1] - m /\ new[n - 1] = pos[n] - m
      BY <1>7, <3>1
    <3> QED
      BY <1>5, <1>6, <3>2
  <2> QED
    BY <1>3, <1>4, <1>8, <1>9, <1>10, <2>1 DEF LaidAt
<1>12. Laid(t, gs)
  BY <1>4, <1>8, <1>11 DEF Laid
<1> QED
  BY <1>2, <1>6, <1>12 DEF t, gs

\* What has no members is empty.
LEMMA LaidNone ==
  ASSUME NEW Elem, NEW s \in Seq(Elem), NEW fs \in Seq(Seq(Elem)), Laid(s, fs), s # <<>>
  PROVE  Len(fs) >= 1
<1>1. PICK pos \in [0 .. Len(fs) -> Nat] : LaidAt(s, fs, pos)
  BY DEF Laid
<1>2. Len(s) # 0 /\ Len(fs) \in Nat
  OBVIOUS
<1> QED
  BY <1>1, <1>2 DEF LaidAt

\* Concatenation is associative.
LEMMA ConcatAssoc ==
  ASSUME NEW Elem, NEW s \in Seq(Elem), NEW t \in Seq(Elem), NEW u \in Seq(Elem)
  PROVE  (s \o t) \o u = s \o (t \o u)
OBVIOUS

\* The beginning of a concatenation is taken from its first part.
LEMMA TakeFront ==
  ASSUME NEW Elem, NEW s \in Seq(Elem), NEW t \in Seq(Elem), NEW n \in 0 .. Len(s)
  PROVE  SubSeq(s \o t, n + 1, Len(s \o t)) = SubSeq(s, n + 1, Len(s)) \o t
<1> DEFINE u == SubSeq(s \o t, n + 1, Len(s \o t))
           r == SubSeq(s, n + 1, Len(s))
<1>1. PICK l \in Nat, m \in Nat : l = Len(s) /\ m = Len(t) /\ n \in Nat /\ n <= l
  OBVIOUS
<1>2. /\ s \o t \in Seq(Elem) /\ Len(s \o t) = l + m
      /\ (\A i \in 1 .. l : (s \o t)[i] = s[i]) /\ \A i \in 1 .. m : (s \o t)[l + i] = t[i]
  BY <1>1, ConcatFacts
<1>3. n \in 0 .. Len(s \o t)
  BY <1>1, <1>2
<1>4. u \in Seq(Elem) /\ Len(u) = (l + m) - n /\ \A i \in 1 .. (l + m) - n : u[i] = (s \o t)[n + i]
  BY <1>2, <1>3, RestFacts
<1>5. r \in Seq(Elem) /\ Len(r) = l - n /\ \A i \in 1 .. l - n : r[i] = s[n + i]
  BY <1>1, RestFacts
<1> HIDE DEF u, r
<1>6. /\ r \o t \in Seq(Elem) /\ Len(r \o t) = (l - n) + m
      /\ (\A i \in 1 .. l - n : (r \o t)[i] = r[i])
      /\ \A i \in 1 .. m : (r \o t)[(l - n) + i] = t[i]
  <2>1. /\ r \o t \in Seq(Elem) /\ Len(r \o t) = Len(r) + Len(t)
        /\ (\A i \in 1 .. Len(r) : (r \o t)[i] = r[i])
        /\ \A i \in 1 .. Len(t) : (r \o t)[Len(r) + i] = t[i]
    <3>1. r \in Seq(Elem)
      BY <1>5
    <3> QED
      BY <3>1, ConcatFacts
  <2> QED
    BY <1>1, <1>5, <2>1
<1>7. ASSUME NEW i \in 1 .. Len(u) PROVE u[i] = (r \o t)[i]
  <2>1. i \in 1 .. (l + m) - n
    BY <1>4
  <2>2. CASE i <= l - n
    <3>1. i \in 1 .. l - n /\ n + i \in 1 .. l
      BY <1>1, <2>1, <2>2
    <3> QED
      BY <1>2, <1>4, <1>5, <1>6, <2>1, <3>1
  <2>3. CASE i > l - n
    <3>1. PICK j \in 1 .. m : i = (l - n) + j /\ n + i = l + j
      <4>1. i - (l - n) \in 1 .. m /\ i = (l - n) + (i - (l - n)) /\ n + i = l + (i - (l - n))
        BY <1>1, <2>1, <2>3
      <4> QED
        BY <4>1
    <3> QED
      BY <1>2, <1>4, <1>6, <2>1, <3>1
  <2>4. i <= l - n \/ i > l - n
    BY <1>1, <2>1
  <2> QED
    BY <2>2, <2>3, <2>4
<1>8. Len(u) = Len(r \o t)
  BY <1>1, <1>4, <1>6
<1>9. u = r \o t
  BY <1>4, <1>6, <1>7, <1>8, SameSeq
<1> QED
  BY <1>9 DEF u, r

-----------------------------------------------------------------------------
(* A buffer and what its methods keep.                                    *)

\* What malloc() returns.
Memory == UNION {[0 .. a - 1 -> Nat] : a \in Nat}

Buffers == [mem : Memory, start : Nat, end : Nat, max : Nat, grow : Nat]

WellFormed(b) ==
  /\ b \in Buffers
  /\ b.start <= b.end /\ b.end <= b.max /\ b.max <= MaxGrow /\ b.grow = MaxGrow
  /\ 0 .. b.max - 1 \subseteq DOMAIN b.mem
\* The same bytes wait in both.
SameContent(b, c) ==
  /\ c.end - c.start = b.end - b.start
  /\ \A i \in 0 .. b.end - b.start - 1 : c.mem[c.start + i] = b.mem[b.start + i]
\* What the assumptions on the sizes say of them one by one.
LEMMA SizeFacts ==
  /\ MaxGrow \in Nat \ {0} /\ Modulus \in Nat /\ DefaultLen \in 1 .. MaxGrow
  /\ MaxRead \in 1 .. DefaultLen /\ 2 * MaxGrow + MaxRead < Modulus /\ 2 * MaxGrow < Modulus
  /\ Modulus = Word /\ Window \in Nat \ {0} /\ MaxMessages \in Nat
  /\ \A n \in Sizes : n \in Nat /\ 2 * MaxGrow + n + 14 < Modulus
<1>1. /\ DefaultLen \in Nat \ {0} /\ MaxRead \in 1 .. DefaultLen
      /\ Growth \in Nat \ {0} /\ MaxGrow = DefaultLen * Growth
      /\ Window \in Nat \ {0} /\ MaxMessages \in Nat
      /\ \A n \in Sizes : n \in Nat /\ 2 * MaxGrow + n + 14 < Modulus
      /\ 3 * MaxGrow < Modulus /\ Modulus = Word /\ Modulus \in Nat
  BY TransferAssumption, ModulusAssumption
<1>2. MaxGrow \in Nat \ {0} /\ DefaultLen <= MaxGrow
  <2> HIDE DEF Growth
  <2>1. \A a, g \in Nat \ {0} : a * g \in Nat \ {0} /\ a <= a * g
    OBVIOUS
  <2> QED
    BY <1>1, <2>1
<1> QED
  BY <1>1, <1>2

\* The memory the constructor allocates has a byte at each location.
LEMMA BlankIsMemory ==
  ASSUME NEW len \in Nat
  PROVE  Blank(len) \in Memory /\ DOMAIN Blank(len) = 0 .. len - 1
<1>1. Blank(len) \in [0 .. len - 1 -> Nat]
  BY DEF Blank, Unwritten
<1> QED
  BY <1>1 DEF Memory, Blank

\* Memory keeps its extent when bytes in it change.
LEMMA SameExtent ==
  ASSUME NEW mem \in Memory, NEW f, f = [i \in DOMAIN mem |-> f[i]],
         \A i \in DOMAIN mem : f[i] \in Nat
  PROVE  f \in Memory /\ DOMAIN f = DOMAIN mem
<1>1. PICK a \in Nat : mem \in [0 .. a - 1 -> Nat]
  BY DEF Memory
<1>2. f \in [0 .. a - 1 -> Nat]
  BY <1>1
<1> QED
  BY <1>1, <1>2 DEF Memory

\* What is stored at a location of a memory is a byte.
LEMMA MemoryBytes ==
  ASSUME NEW mem \in Memory, NEW i \in DOMAIN mem
  PROVE  mem[i] \in Nat
BY DEF Memory

\* Within the limit unsigned arithmetic is plain arithmetic.
LEMMA SizeIs ==
  ASSUME NEW b, WellFormed(b)
  PROVE  /\ Size(b) = b.end - b.start /\ Size(b) \in Nat
         /\ Available(b) = b.max - b.end /\ Available(b) \in Nat
BY SizeFacts DEF WellFormed, Buffers, Size, Available, U

\* Compaction moves the content to the front; in ascending order every byte is
\* fetched before it is written over.
LEMMA CompactedKeeps ==
  ASSUME NEW b, WellFormed(b)
  PROVE  LET c == Compacted(b, "ascending")
         IN  /\ WellFormed(c) /\ c.start = 0 /\ c.end = Size(b) /\ c.max = b.max
             /\ \A i \in 0 .. Size(b) - 1 : c.mem[i] = b.mem[b.start + i]
<1> DEFINE mem == [i \in DOMAIN b.mem |-> IF i < Size(b) THEN b.mem[b.start + i] ELSE b.mem[i]]
           c == Compacted(b, "ascending")
<1>1. /\ b \in Buffers /\ b.mem \in Memory /\ b.start \in Nat /\ b.end \in Nat /\ b.max \in Nat
      /\ b.start <= b.end /\ b.end <= b.max
      /\ 0 .. b.max - 1 \subseteq DOMAIN b.mem
  BY DEF WellFormed, Buffers
<1>2. Size(b) = b.end - b.start /\ Size(b) \in Nat
  BY SizeIs
<1>3. DOMAIN b.mem \subseteq Nat
  BY <1>1 DEF Memory
<1>5. ASSUME NEW i \in DOMAIN b.mem
      PROVE  (IF i < Size(b) THEN b.mem[b.start + i] ELSE b.mem[i]) \in Nat
  <2>1. CASE i < Size(b)
    <3>1. b.start + i \in 0 .. b.max - 1
      BY <1>1, <1>2, <1>3, <2>1
    <3>2. b.start + i \in DOMAIN b.mem
      BY <1>1, <3>1
    <3> QED
      BY <1>1, <2>1, <3>2, MemoryBytes
  <2>2. CASE ~(i < Size(b))
    BY <1>1, <2>2, MemoryBytes
  <2> QED
    BY <2>1, <2>2
<1>6. mem \in Memory /\ DOMAIN mem = DOMAIN b.mem
  BY <1>1, <1>5, SameExtent
<1>7. c = [b EXCEPT !.mem = mem, !.start = 0, !.end = Size(b)]
  BY DEF Compacted, Source
<1>8. Size(b) \in 0 .. b.max
  BY <1>1, <1>2
<1>9. ASSUME NEW i \in 0 .. Size(b) - 1 PROVE mem[i] = b.mem[b.start + i]
  <2>1. i \in DOMAIN b.mem /\ i < Size(b)
    BY <1>1, <1>2, <1>8
  <2> QED
    BY <2>1
<1> HIDE DEF mem, c
<1>10. /\ c \in Buffers /\ c.mem = mem /\ c.start = 0 /\ c.end = Size(b)
       /\ c.max = b.max /\ c.grow = b.grow
  BY <1>1, <1>2, <1>6, <1>7 DEF Buffers
<1>11. WellFormed(c)
  BY <1>6, <1>8, <1>10 DEF WellFormed
<1> QED
  BY <1>9, <1>10, <1>11 DEF c

\* Growing leaves room for what was asked for.
LEMMA NewMaxLenIs ==
  ASSUME NEW b, WellFormed(b), NEW n \in Nat, 2 * MaxGrow + n < Modulus
  PROVE  LET m == NewMaxLen(b, n)
         IN  m \in Nat /\ m >= b.max /\ m - Size(b) >= n
             /\ m >= 2 * b.max /\ m <= 2 * b.max + n
             /\ (m > 2 * b.max => 2 * b.max - b.end < n)
<1>1. /\ b.start \in Nat /\ b.end \in Nat /\ b.max \in Nat
      /\ b.start <= b.end /\ b.end <= b.max /\ b.max <= MaxGrow
  BY DEF WellFormed, Buffers
<1>2. Size(b) = b.end - b.start
  BY SizeIs
<1>3. U(b.max * 2) = 2 * b.max /\ U(2 * b.max - b.end) = 2 * b.max - b.end
      /\ U(2 * b.max + n) = 2 * b.max + n
  BY <1>1, SizeFacts DEF U
<1>4. NewMaxLen(b, n) = IF 2 * b.max - b.end < n THEN 2 * b.max + n ELSE 2 * b.max
  BY <1>3 DEF NewMaxLen
<1> QED
  BY <1>1, <1>2, <1>4

\* Growing the memory makes the room asked for and keeps the content.
LEMMA EnlargedKeeps ==
  ASSUME NEW b, WellFormed(b), NEW n \in Nat, 2 * MaxGrow + n < Modulus,
         NewMaxLen(b, n) <= b.grow
  PROVE  LET c == Enlarged(b, n)
         IN  /\ WellFormed(c) /\ c.max >= b.max /\ c.max - c.end >= n
             /\ SameContent(b, c)
<1> DEFINE m == NewMaxLen(b, n)
           mem == [i \in 0 .. m - 1 |-> IF i < Size(b) THEN b.mem[b.start + i] ELSE Unwritten]
           c == Enlarged(b, n)
<1>1. /\ b \in Buffers /\ b.mem \in Memory
      /\ b.start \in Nat /\ b.end \in Nat /\ b.max \in Nat
      /\ b.start <= b.end /\ b.end <= b.max /\ b.grow = MaxGrow
      /\ 0 .. b.max - 1 \subseteq DOMAIN b.mem
  BY DEF WellFormed, Buffers
<1>2. Size(b) = b.end - b.start /\ Size(b) \in Nat
  BY SizeIs
<1>3. m \in Nat /\ m >= b.max /\ m - Size(b) >= n
  BY NewMaxLenIs
<1>4. c = [b EXCEPT !.mem = mem, !.start = 0, !.end = Size(b), !.max = m]
  BY DEF Enlarged
<1> HIDE DEF m
<1>5. ASSUME NEW i \in 0 .. m - 1
      PROVE  (IF i < Size(b) THEN b.mem[b.start + i] ELSE Unwritten) \in Nat
  <2>1. CASE i < Size(b)
    <3>1. b.start + i \in DOMAIN b.mem
      BY <1>1, <1>2, <1>3, <2>1
    <3> QED
      BY <1>1, <2>1, <3>1, MemoryBytes
  <2>2. CASE ~(i < Size(b))
    BY <2>2 DEF Unwritten
  <2> QED
    BY <2>1, <2>2
<1>6. mem \in [0 .. m - 1 -> Nat]
  BY <1>5
<1>7. mem \in Memory
  BY <1>3, <1>6 DEF Memory
<1>8. DOMAIN mem = 0 .. m - 1
  BY <1>6
<1>9. \A i \in 0 .. Size(b) - 1 : mem[i] = b.mem[b.start + i]
  BY <1>1, <1>2, <1>3
<1> HIDE DEF mem, c
<1>10. /\ c \in Buffers /\ c.mem = mem /\ c.start = 0 /\ c.end = Size(b)
       /\ c.max = m /\ c.grow = MaxGrow
  BY <1>1, <1>2, <1>3, <1>4, <1>7 DEF Buffers
<1>11. WellFormed(c)
  BY <1>1, <1>2, <1>3, <1>8, <1>10 DEF WellFormed, m
<1>12. SameContent(b, c)
  BY <1>1, <1>2, <1>9, <1>10 DEF SameContent
<1> QED
  BY <1>3, <1>10, <1>11, <1>12 DEF c

\* What a call finds after the buffer was grown or growing was refused.
LEMMA PreparedKeeps ==
  ASSUME NEW b, WellFormed(b), NEW n \in Nat, 2 * MaxGrow + n < Modulus
  PROVE  LET p == Prepared(b, n, "ascending")
         IN  /\ WellFormed(p) /\ p.max >= b.max /\ Size(p) = Size(b)
             /\ SameContent(b, p)
<1> DEFINE p == Prepared(b, n, "ascending")
<1>1. b.start \in Nat /\ b.end \in Nat /\ b.max \in Nat /\ b.start <= b.end
  BY DEF WellFormed, Buffers
<1>2. Size(b) = b.end - b.start /\ Size(b) \in Nat
  BY SizeIs
<1>3. CASE p = b
  BY <1>1, <1>3 DEF SameContent
<1>4. CASE p = Compacted(b, "ascending") /\ n < b.start
  <2>2. /\ WellFormed(p) /\ p.start = 0 /\ p.end = Size(b) /\ p.max = b.max
        /\ \A i \in 0 .. Size(b) - 1 : p.mem[i] = b.mem[b.start + i]
    BY <1>4, CompactedKeeps
  <2>3. Size(p) = p.end - p.start
    BY <2>2, SizeIs
  <2> HIDE DEF p
  <2> QED
    BY <1>1, <1>2, <2>2, <2>3 DEF SameContent, p
<1>5. CASE p = Enlarged(b, n) /\ ~(NewMaxLen(b, n) > b.grow)
  <2>1. NewMaxLen(b, n) \in Nat /\ b.grow \in Nat
    BY NewMaxLenIs, SizeFacts DEF WellFormed
  <2>2. NewMaxLen(b, n) <= b.grow
    BY <1>5, <2>1
  <2>3. WellFormed(p) /\ p.max >= b.max /\ SameContent(b, p)
    BY <1>5, <2>2, EnlargedKeeps
  <2>4. Size(p) = p.end - p.start
    BY <2>3, SizeIs
  <2> HIDE DEF p
  <2> QED
    BY <1>2, <2>3, <2>4 DEF SameContent, p
<1>6. \/ p = b
      \/ p = Compacted(b, "ascending") /\ n < b.start
      \/ p = Enlarged(b, n) /\ ~(NewMaxLen(b, n) > b.grow)
  BY DEF Prepared, Grown
<1> QED
  BY <1>3, <1>4, <1>5, <1>6

\* Writing behind the content, as far as there is room.
LEMMA WrittenKeeps ==
  ASSUME NEW b, WellFormed(b), NEW n \in Nat, Fits(b, n),
         NEW bytes \in [1 .. n -> Nat]
  PROVE  LET c == Written(b, bytes, n)
         IN  /\ WellFormed(c) /\ c.max = b.max /\ c.start = b.start /\ c.end = b.end + n
             /\ DOMAIN c.mem = DOMAIN b.mem
             /\ \A i \in DOMAIN b.mem :
                  c.mem[i] = IF i \in b.end .. b.end + n - 1 THEN bytes[i - b.end + 1]
                             ELSE b.mem[i]
<1> DEFINE mem == [i \in DOMAIN b.mem |->
                     IF i \in b.end .. b.end + n - 1 THEN bytes[i - b.end + 1] ELSE b.mem[i]]
           c == Written(b, bytes, n)
<1>1. /\ b \in Buffers /\ b.mem \in Memory
      /\ b.start \in Nat /\ b.end \in Nat /\ b.max \in Nat
      /\ b.start <= b.end /\ b.end <= b.max /\ b.grow = MaxGrow
      /\ 0 .. b.max - 1 \subseteq DOMAIN b.mem
  BY DEF WellFormed, Buffers
<1>2. b.end + n <= b.max
  BY <1>1, SizeIs DEF Fits
<1>3. ASSUME NEW i \in DOMAIN b.mem
      PROVE  (IF i \in b.end .. b.end + n - 1 THEN bytes[i - b.end + 1] ELSE b.mem[i]) \in Nat
  <2>1. CASE i \in b.end .. b.end + n - 1
    <3>1. i - b.end + 1 \in 1 .. n
      BY <1>1, <2>1
    <3> QED
      BY <2>1, <3>1
  <2>2. CASE i \notin b.end .. b.end + n - 1
    BY <1>1, <2>2, MemoryBytes
  <2> QED
    BY <2>1, <2>2
<1>4. mem \in Memory /\ DOMAIN mem = DOMAIN b.mem
  BY <1>1, <1>3, SameExtent
<1>5. \A i \in DOMAIN b.mem :
        mem[i] = IF i \in b.end .. b.end + n - 1 THEN bytes[i - b.end + 1] ELSE b.mem[i]
  OBVIOUS
<1>6. c = [b EXCEPT !.mem = mem, !.end = b.end + n]
  BY <1>1 DEF Written, Buffers
<1> HIDE DEF mem, c
<1>7. /\ c \in Buffers /\ c.mem = mem /\ c.start = b.start /\ c.end = b.end + n
      /\ c.max = b.max /\ c.grow = MaxGrow
  <2>1. b.end + n \in Nat
    BY <1>1
  <2>2. c \in Buffers /\ c.mem = mem
    BY <1>1, <1>4, <1>6, <2>1 DEF Buffers
  <2>3. c.start = b.start /\ c.end = b.end + n
    BY <1>1, <1>6 DEF Buffers
  <2>4. c.max = b.max /\ c.grow = MaxGrow
    BY <1>1, <1>6 DEF Buffers
  <2> QED
    BY <2>2, <2>3, <2>4
<1>8. WellFormed(c)
  BY <1>1, <1>2, <1>4, <1>7 DEF WellFormed
<1> QED
  BY <1>4, <1>5, <1>7, <1>8 DEF c

-----------------------------------------------------------------------------
(* The bytes that wait in a buffer, as a sequence.                         *)

\* getData() shows the bytes between the two locations.
LEMMA ContentIs ==
  ASSUME NEW b, WellFormed(b)
  PROVE  /\ Content(b) \in Seq(Nat) /\ Len(Content(b)) = b.end - b.start
         /\ b.end - b.start \in Nat /\ Size(b) = b.end - b.start
         /\ \A i \in 1 .. b.end - b.start : Content(b)[i] = b.mem[b.start + i - 1]
<1>1. /\ b.mem \in Memory /\ b.start \in Nat /\ b.end \in Nat /\ b.max \in Nat
      /\ b.start <= b.end /\ b.end <= b.max
      /\ 0 .. b.max - 1 \subseteq DOMAIN b.mem
  BY DEF WellFormed, Buffers
<1>2. Size(b) = b.end - b.start /\ Size(b) \in Nat
  BY SizeIs
<1>3. \A i \in 1 .. Size(b) : b.mem[b.start + i - 1] \in Nat
  <2> TAKE i \in 1 .. Size(b)
  <2>1. b.start + i - 1 \in 0 .. b.max - 1
    BY <1>1, <1>2
  <2>2. b.start + i - 1 \in DOMAIN b.mem
    BY <1>1, <2>1
  <2> QED
    BY <1>1, <2>2, MemoryBytes
<1>4. Content(b) \in [1 .. Size(b) -> Nat]
  BY <1>3 DEF Content
<1>5. Content(b) \in Seq(Nat) /\ Len(Content(b)) = Size(b)
  BY <1>2, <1>4
<1>6. \A i \in 1 .. Size(b) : Content(b)[i] = b.mem[b.start + i - 1]
  BY DEF Content
<1> QED
  BY <1>2, <1>5, <1>6

\* Buffers in which the same bytes wait show the same content.
LEMMA SameContentIs ==
  ASSUME NEW b, WellFormed(b), NEW c, WellFormed(c), SameContent(b, c)
  PROVE  Content(c) = Content(b)
<1>1. PICK s \in Nat, e \in Nat, t \in Nat, f \in Nat :
        s = b.start /\ e = b.end /\ t = c.start /\ f = c.end
  BY DEF WellFormed, Buffers
<1>2. /\ f - t = e - s /\ e - s \in Nat
      /\ \A i \in 0 .. e - s - 1 : c.mem[t + i] = b.mem[s + i]
  BY <1>1, ContentIs DEF SameContent
<1>3. /\ Content(b) \in Seq(Nat) /\ Len(Content(b)) = e - s
      /\ \A i \in 1 .. e - s : Content(b)[i] = b.mem[s + i - 1]
  BY <1>1, ContentIs
<1>4. /\ Content(c) \in Seq(Nat) /\ Len(Content(c)) = e - s
      /\ \A i \in 1 .. e - s : Content(c)[i] = c.mem[t + i - 1]
  BY <1>1, <1>2, ContentIs
<1>5. ASSUME NEW i \in 1 .. e - s PROVE Content(c)[i] = Content(b)[i]
  <2>1. i - 1 \in 0 .. e - s - 1 /\ t + (i - 1) = t + i - 1 /\ s + (i - 1) = s + i - 1
    BY <1>2
  <2>2. c.mem[t + (i - 1)] = b.mem[s + (i - 1)]
    BY <1>2, <2>1
  <2> QED
    BY <1>3, <1>4, <2>1, <2>2
<1> QED
  BY <1>3, <1>4, <1>5, SameSeq

\* Growing and compacting keep the bytes that wait.
LEMMA PreparedContent ==
  ASSUME NEW b, WellFormed(b), NEW n \in Nat, 2 * MaxGrow + n < Modulus
  PROVE  LET p == Prepared(b, n, "ascending")
         IN  WellFormed(p) /\ Content(p) = Content(b)
BY PreparedKeeps, SameContentIs

\* What is written follows what waits.
LEMMA WrittenContent ==
  ASSUME NEW b, WellFormed(b), NEW n \in Nat, Fits(b, n),
         NEW bytes \in Seq(Nat), Len(bytes) = n
  PROVE  LET c == Written(b, bytes, n)
         IN  /\ WellFormed(c) /\ Content(c) = Content(b) \o bytes
             /\ c.start = b.start /\ c.end = b.end + n /\ c.max = b.max
<1> DEFINE c == Written(b, bytes, n)
<1>0. bytes \in [1 .. n -> Nat]
  OBVIOUS
<1>1. /\ WellFormed(c) /\ c.max = b.max /\ c.start = b.start /\ c.end = b.end + n
      /\ DOMAIN c.mem = DOMAIN b.mem
      /\ \A i \in DOMAIN b.mem :
           c.mem[i] = IF i \in b.end .. b.end + n - 1 THEN bytes[i - b.end + 1] ELSE b.mem[i]
  BY <1>0, WrittenKeeps
<1> HIDE DEF c
<1>2. PICK s \in Nat, l \in Nat, m \in Nat :
        s = b.start /\ s + l = b.end /\ m = b.max /\ l = b.end - b.start
  <2>1. b.start \in Nat /\ b.end - b.start \in Nat /\ b.max \in Nat /\ b.end \in Nat
    BY ContentIs DEF WellFormed, Buffers
  <2>2. b.start + (b.end - b.start) = b.end
    BY <2>1
  <2> QED
    BY <2>1, <2>2
<1>3. s + l + n <= m
  BY <1>2, SizeIs DEF Fits
<1>4. 0 .. m - 1 \subseteq DOMAIN b.mem
  BY <1>2 DEF WellFormed
<1>5. /\ Content(b) \in Seq(Nat) /\ Len(Content(b)) = l
      /\ \A i \in 1 .. l : Content(b)[i] = b.mem[s + i - 1]
  BY <1>2, ContentIs
<1>6. /\ Content(c) \in Seq(Nat) /\ Len(Content(c)) = l + n
      /\ \A i \in 1 .. l + n : Content(c)[i] = c.mem[s + i - 1]
  <2>1. /\ Content(c) \in Seq(Nat) /\ Len(Content(c)) = c.end - c.start
        /\ \A i \in 1 .. c.end - c.start : Content(c)[i] = c.mem[c.start + i - 1]
    BY <1>1, ContentIs
  <2>2. c.start = s /\ c.end - c.start = l + n
    BY <1>1, <1>2
  <2> QED
    BY <2>1, <2>2
<1> DEFINE a == Content(b)   d == a \o bytes
<1> HIDE DEF a, d
<1>7. /\ d \in Seq(Nat) /\ Len(d) = l + n
      /\ (\A i \in 1 .. l : d[i] = a[i]) /\ \A i \in 1 .. n : d[l + i] = bytes[i]
  <2>1. a \in Seq(Nat) /\ Len(a) = l
    BY <1>5 DEF a
  <2>2. /\ d \in Seq(Nat) /\ Len(d) = Len(a) + Len(bytes)
        /\ \A i \in 1 .. Len(a) : d[i] = a[i]
        /\ \A i \in 1 .. Len(bytes) : d[Len(a) + i] = bytes[i]
    <3>1. \A x, y \in Seq(Nat) :
            /\ x \o y \in Seq(Nat) /\ Len(x \o y) = Len(x) + Len(y)
            /\ \A i \in 1 .. Len(x) : (x \o y)[i] = x[i]
            /\ \A i \in 1 .. Len(y) : (x \o y)[Len(x) + i] = y[i]
      BY ConcatFacts
    <3> QED
      BY <2>1, <3>1 DEF d
  <2> QED
    BY <2>1, <2>2
<1>8. ASSUME NEW i \in 1 .. l + n PROVE Content(c)[i] = d[i]
  <2>1. s + i - 1 \in 0 .. m - 1
    BY <1>3
  <2>2. s + i - 1 \in DOMAIN b.mem
    BY <1>4, <2>1
  <2>3. PICK j \in DOMAIN b.mem : j = s + i - 1 /\ j \in Nat
    BY <2>1, <2>2
  <2>4. c.mem[j] = IF j \in s + l .. s + l + n - 1 THEN bytes[j - (s + l) + 1] ELSE b.mem[j]
    BY <1>1, <1>2
  <2>5. Content(c)[i] = c.mem[j]
    BY <1>6, <2>3
  <2>6. CASE i <= l
    <3>1. i \in 1 .. l /\ j \notin s + l .. s + l + n - 1
      BY <2>3, <2>6
    <3>2. d[i] = b.mem[j]
      BY <1>5, <1>7, <2>3, <3>1 DEF a
    <3> QED
      BY <2>4, <2>5, <3>1, <3>2
  <2>7. CASE i > l
    <3>1. PICK k \in 1 .. n : i = l + k
      <4>1. i - l \in 1 .. n /\ i = l + (i - l)
        BY <2>7
      <4> QED
        BY <4>1
    <3>2. j \in s + l .. s + l + n - 1 /\ j - (s + l) + 1 = k
      BY <2>3, <3>1
    <3>3. d[i] = bytes[k]
      BY <1>7, <3>1
    <3> QED
      BY <2>4, <2>5, <3>2, <3>3
  <2>8. i <= l \/ i > l
    OBVIOUS
  <2> QED
    BY <2>6, <2>7, <2>8
<1>9. Content(c) = d
  <2>1. Len(Content(c)) = Len(d) /\ \A i \in 1 .. Len(Content(c)) : Content(c)[i] = d[i]
    BY <1>6, <1>7, <1>8
  <2> QED
    BY <1>6, <1>7, <2>1, SameSeq
<1> QED
  BY <1>1, <1>9 DEF a, c, d

\* Consuming takes bytes off the front; an emptied buffer starts at 0 again.
LEMMA ConsumedContent ==
  ASSUME NEW b, WellFormed(b), NEW n \in 1 .. Size(b)
  PROVE  LET c == Consumed(b, n)
         IN  /\ WellFormed(c) /\ c.max = b.max
             /\ Content(c) = SubSeq(Content(b), n + 1, Len(Content(b)))
             /\ c.start = c.end => c.start = 0
<1> DEFINE c == Consumed(b, n)
<1>1. /\ b \in Buffers /\ b.start \in Nat /\ b.end \in Nat /\ b.max \in Nat
      /\ b.start <= b.end /\ b.end <= b.max
  BY DEF WellFormed, Buffers
<1>2. Size(b) = b.end - b.start /\ Content(b) \in Seq(Nat) /\ Len(Content(b)) = b.end - b.start
      /\ \A i \in 1 .. b.end - b.start : Content(b)[i] = b.mem[b.start + i - 1]
  BY ContentIs
<1>0. n \in Nat /\ 1 <= n /\ n <= b.end - b.start
  BY <1>2
<1> DEFINE d == SubSeq(Content(b), n + 1, Len(Content(b)))
<1>3. /\ d \in Seq(Nat) /\ Len(d) = (b.end - b.start) - n
      /\ \A i \in 1 .. (b.end - b.start) - n : d[i] = Content(b)[n + i]
  <2> DEFINE a == Content(b)
  <2>1. a \in Seq(Nat) /\ Len(a) = b.end - b.start
    BY <1>2
  <2> HIDE DEF a
  <2>2. n \in 0 .. Len(a)
    BY <1>0, <1>1, <2>1
  <2>3. /\ SubSeq(a, n + 1, Len(a)) \in Seq(Nat) /\ Len(SubSeq(a, n + 1, Len(a))) = Len(a) - n
        /\ \A i \in 1 .. Len(a) - n : SubSeq(a, n + 1, Len(a))[i] = a[n + i]
    BY <2>1, <2>2, RestFacts
  <2> QED
    BY <2>1, <2>3 DEF a
<1> HIDE DEF d
<1>4. CASE b.start + n = b.end
  <2>1. c = [b EXCEPT !.start = 0, !.end = 0]
    BY <1>4 DEF Consumed
  <2> HIDE DEF c
  <2>2. /\ c \in Buffers /\ c.mem = b.mem /\ c.start = 0 /\ c.end = 0
        /\ c.max = b.max /\ c.grow = b.grow
    BY <1>1, <2>1 DEF Buffers
  <2>3. WellFormed(c)
    BY <1>1, <2>2 DEF WellFormed
  <2>4. Content(c) \in Seq(Nat) /\ Len(Content(c)) = 0
    BY <2>2, <2>3, ContentIs
  <2>5. Len(d) = 0
    BY <1>1, <1>3, <1>4
  <2>6. Content(c) = d
    BY <1>3, <2>4, <2>5, SameSeq
  <2> QED
    BY <2>2, <2>3, <2>6 DEF c, d
<1>5. CASE b.start + n # b.end
  <2>1. c = [b EXCEPT !.start = b.start + n]
    BY <1>1, <1>5 DEF Consumed, Buffers
  <2>2. b.start + n \in Nat /\ b.start + n <= b.end
    BY <1>1, <1>2
  <2> HIDE DEF c
  <2>3. /\ c \in Buffers /\ c.mem = b.mem /\ c.start = b.start + n /\ c.end = b.end
        /\ c.max = b.max /\ c.grow = b.grow
    BY <1>1, <2>1, <2>2 DEF Buffers
  <2>4. WellFormed(c)
    BY <1>1, <2>2, <2>3 DEF WellFormed
  <2>5. PICK s \in Nat, e \in Nat : s = b.start /\ e = b.end /\ s <= e /\ s + n <= e /\ s + n # e
                                    /\ n \in Nat
    BY <1>0, <1>1, <1>5
  <2>6. /\ Content(c) \in Seq(Nat) /\ Len(Content(c)) = e - (s + n)
        /\ \A i \in 1 .. e - (s + n) : Content(c)[i] = b.mem[(s + n) + i - 1]
    <3>1. /\ Content(c) \in Seq(Nat) /\ Len(Content(c)) = c.end - c.start
          /\ \A i \in 1 .. c.end - c.start : Content(c)[i] = c.mem[c.start + i - 1]
      BY <2>4, ContentIs
    <3>2. c.mem = b.mem /\ c.start = s + n /\ c.end = e
      BY <2>3, <2>5
    <3> QED
      BY <3>1, <3>2
  <2>7. ASSUME NEW i \in 1 .. e - (s + n) PROVE Content(c)[i] = d[i]
    <3>1. i \in 1 .. (e - s) - n /\ n + i \in 1 .. e - s /\ (s + n) + i - 1 = s + (n + i) - 1
      BY <2>5
    <3>2. d[i] = Content(b)[n + i]
      BY <1>3, <2>5, <3>1
    <3>3. Content(b)[n + i] = b.mem[s + (n + i) - 1]
      BY <1>2, <2>5, <3>1
    <3> QED
      BY <2>6, <3>1, <3>2, <3>3
  <2>8. Len(d) = e - (s + n)
    BY <1>3, <2>5
  <2>9. Content(c) = d
    BY <1>3, <2>6, <2>7, <2>8, SameSeq
  <2>10. c.start # c.end
    BY <2>3, <2>5
  <2> QED
    BY <2>3, <2>4, <2>9, <2>10 DEF c, d
<1> QED
  BY <1>4, <1>5

-----------------------------------------------------------------------------
(* The mask on the content of a buffer.                                    *)

\* The values of the key's bytes.
KeyValues == {KeyBit, 2 * KeyBit, 4 * KeyBit, 8 * KeyBit}

\* The bytes of payloads.
Plain == 0 .. KeyBit - 1

\* The key lies above the payload and inside a byte.
LEMMA KeyBitFacts == KeyBit \in Nat \ {0} /\ 16 * KeyBit <= Base /\ Base \in Nat
<1>1. Base \in Nat /\ Base >= 16
  BY TransferAssumption, BaseFacts
<1> QED
  BY <1>1 DEF KeyBit

\* The bytes of the key are numbers of one bit each.
LEMMA KeyFacts ==
  /\ NewKey \in Keys
  /\ \A i \in Nat : Phase(i) \in 0 .. 3 /\ NewKey[Phase(i) + 1] \in KeyValues
  /\ \A i \in 1 .. 4 : NewKey[i] \in KeyValues
  /\ KeyValues \subseteq Nat \ {0}
<1>1. PICK k \in Nat \ {0} : k = KeyBit /\ 16 * k <= Base /\ Base \in Nat
  BY KeyBitFacts
<1>2. NewKey = <<k, 2 * k, 4 * k, 8 * k>> /\ KeyValues = {k, 2 * k, 4 * k, 8 * k}
  BY <1>1 DEF NewKey, KeyValues
<1>3. NewKey \in Keys
  <2>1. k \in Bytes /\ 2 * k \in Bytes /\ 4 * k \in Bytes /\ 8 * k \in Bytes
    BY <1>1 DEF Bytes
  <2> QED
    BY <1>2, <2>1 DEF Keys
<1>4. \A i \in 1 .. 4 : NewKey[i] \in KeyValues
  BY <1>2
<1>5. \A i \in Nat : Phase(i) \in 0 .. 3
  BY DEF Phase
<1>6. ASSUME NEW i \in Nat PROVE NewKey[Phase(i) + 1] \in KeyValues
  <2>1. Phase(i) + 1 \in 1 .. 4
    BY <1>5
  <2> QED
    BY <1>4, <2>1
<1>7. KeyValues \subseteq Nat \ {0}
  BY <1>1, <1>2
<1> QED
  BY <1>3, <1>4, <1>5, <1>6, <1>7

\* XOR with a byte of the key turns a bit that the payload does not have, and
\* turns it back.
LEMMA XorTwice ==
  ASSUME NEW x \in Plain, NEW k \in KeyValues
  PROVE  /\ Xor(x, k) \in Bytes /\ Xor(Xor(x, k), k) = x
<1>1. /\ x \in Nat /\ k \in Nat \ {0} /\ x < k /\ k + x < Base /\ Base \in Nat
  BY KeyBitFacts DEF Plain, KeyValues
<1>2. x \div k = 0
  <2>1. x \div k \in 0 .. 1 - 1
    <3>1. x < 1 * k /\ 1 \in Nat
      BY <1>1
    <3> QED
      BY <1>1, <3>1, DivBound
  <2> QED
    BY <2>1
<1>3. Xor(x, k) = x + k
  BY <1>2 DEF Xor
<1>4. (x + k) \div k = 1
  <2>1. x + k \in Nat /\ x + k < 2 * k /\ 2 \in Nat
    BY <1>1
  <2>2. (x + k) \div k \in 0 .. 2 - 1
    BY <1>1, <2>1, DivBound
  <2>3. /\ (x + k) % k \in 0 .. k - 1
        /\ x + k = (((x + k) \div k) * k) + ((x + k) % k)
    BY <1>1, <2>1, DivMod
  <2>4. (x + k) \div k # 0
    <3> SUFFICES ASSUME (x + k) \div k = 0 PROVE FALSE
      OBVIOUS
    <3>1. x + k = (0 * k) + ((x + k) % k)
      BY <2>3
    <3> QED
      BY <1>1, <2>3, <3>1
  <2> QED
    BY <2>2, <2>4
<1>5. Xor(x + k, k) = (x + k) - k
  BY <1>4 DEF Xor
<1> QED
  BY <1>1, <1>3, <1>5 DEF Bytes

\* XOR of numbers gives a number.
LEMMA XorIsNat ==
  ASSUME NEW x \in Nat, NEW k \in Nat \ {0}
  PROVE  Xor(x, k) \in Nat
<1>1. CASE (x \div k) % 2 = 1
  <2>1. x \div k \in Nat /\ x % k \in Nat /\ x = ((x \div k) * k) + (x % k)
    BY DivMod
  <2>2. PICK q \in Nat, r \in Nat : q = x \div k /\ r = x % k /\ x = q * k + r /\ q % 2 = 1
    BY <1>1, <2>1
  <2>3. q >= 1
    BY <2>2
  <2>4. q * k >= 1 * k
    BY <2>3
  <2> QED
    BY <1>1, <2>2, <2>4 DEF Xor
<1>2. CASE (x \div k) % 2 # 1
  BY <1>2 DEF Xor
<1> QED
  BY <1>1, <1>2

\* Masking in a buffer changes the bytes of the block, each with the byte of
\* the key that its place in the block calls for, and nothing else.
LEMMA MaskedContent ==
  ASSUME NEW b, WellFormed(b), NEW offset \in Nat, NEW len \in Nat,
         offset + len <= Len(Content(b))
  PROVE  LET c == Masked(b, offset, len, NewKey)
         IN  /\ WellFormed(c) /\ c.start = b.start /\ c.end = b.end /\ c.max = b.max
             /\ Content(c) \in Seq(Nat) /\ Len(Content(c)) = Len(Content(b))
             /\ \A i \in 1 .. Len(Content(b)) :
                  Content(c)[i] = IF i \in offset + 1 .. offset + len
                                  THEN Xor(Content(b)[i], NewKey[Phase(i - offset - 1) + 1])
                                  ELSE Content(b)[i]
<1> DEFINE c == Masked(b, offset, len, NewKey)
           new(i) == IF i \in b.start + offset .. b.start + offset + len - 1
                     THEN Xor(b.mem[i], NewKey[KeyByte(b.start + offset, len,
                                                       i - (b.start + offset)) + 1])
                     ELSE b.mem[i]
           mem == [i \in DOMAIN b.mem |-> new(i)]
<1>1. PICK s \in Nat, l \in Nat, m \in Nat :
        s = b.start /\ s + l = b.end /\ m = b.max /\ l = b.end - b.start /\ s + l <= m
  <2>1. /\ b.start \in Nat /\ b.end - b.start \in Nat /\ b.max \in Nat /\ b.end \in Nat
        /\ b.end <= b.max
    BY ContentIs DEF WellFormed, Buffers
  <2>2. b.start + (b.end - b.start) = b.end
    BY <2>1
  <2> QED
    BY <2>1, <2>2
<1>2. 0 .. m - 1 \subseteq DOMAIN b.mem /\ b \in Buffers /\ b.mem \in Memory
  BY <1>1 DEF WellFormed, Buffers
<1>3. /\ Content(b) \in Seq(Nat) /\ Len(Content(b)) = l
      /\ \A i \in 1 .. l : Content(b)[i] = b.mem[s + i - 1]
  BY <1>1, ContentIs
<1>4. offset + len <= l
  BY <1>3
<1>5. ASSUME NEW i \in DOMAIN b.mem, NEW o \in 0 .. len - 1, i = s + offset + o
      PROVE  /\ new(i) = Xor(b.mem[i], NewKey[Phase(o) + 1])
             /\ NewKey[Phase(o) + 1] \in Nat \ {0}
  <2>1. s + offset \in Nat /\ i - (s + offset) = o /\ o \in Nat
    BY <1>5
  <2>2. KeyByte(s + offset, len, o) = Phase(o)
    BY <2>1, KeyPhase
  <2>3. i \in s + offset .. s + offset + len - 1
    BY <1>5
  <2>4. NewKey[Phase(o) + 1] \in Nat \ {0}
    BY <2>1, KeyFacts
  <2> QED
    BY <1>1, <2>1, <2>2, <2>3, <2>4
<1>6. ASSUME NEW i \in DOMAIN b.mem, i \notin s + offset .. s + offset + len - 1
      PROVE  new(i) = b.mem[i]
  BY <1>1, <1>6
<1>7. ASSUME NEW i \in DOMAIN b.mem PROVE new(i) \in Nat
  <2>1. b.mem[i] \in Nat
    BY <1>2, MemoryBytes
  <2>2. CASE i \in s + offset .. s + offset + len - 1
    <3>1. PICK o \in 0 .. len - 1 : i = s + offset + o
      <4>1. i - (s + offset) \in 0 .. len - 1 /\ i = s + offset + (i - (s + offset))
        BY <2>2
      <4> QED
        BY <4>1
    <3>2. new(i) = Xor(b.mem[i], NewKey[Phase(o) + 1]) /\ NewKey[Phase(o) + 1] \in Nat \ {0}
      BY <1>5, <3>1
    <3> HIDE DEF new
    <3> QED
      BY <2>1, <3>2, XorIsNat
  <2>3. CASE i \notin s + offset .. s + offset + len - 1
    <3>1. new(i) = b.mem[i]
      BY <1>6, <2>3
    <3> HIDE DEF new
    <3> QED
      BY <2>1, <3>1
  <2> QED
    BY <2>2, <2>3
<1>8. c = [b EXCEPT !.mem = mem]
  BY DEF Masked
<1> HIDE DEF new
<1>9. mem \in Memory /\ DOMAIN mem = DOMAIN b.mem /\ \A i \in DOMAIN b.mem : mem[i] = new(i)
  BY <1>2, <1>7, SameExtent
<1> HIDE DEF c, mem
<1>10. /\ c \in Buffers /\ c.mem = mem /\ c.start = b.start /\ c.end = b.end
       /\ c.max = b.max /\ c.grow = b.grow
  BY <1>2, <1>8, <1>9 DEF Buffers
<1>11. WellFormed(c)
  BY <1>9, <1>10 DEF WellFormed
<1>12. /\ Content(c) \in Seq(Nat) /\ Len(Content(c)) = l
       /\ \A i \in 1 .. l : Content(c)[i] = mem[s + i - 1]
  <2>1. /\ Content(c) \in Seq(Nat) /\ Len(Content(c)) = c.end - c.start
        /\ \A i \in 1 .. c.end - c.start : Content(c)[i] = c.mem[c.start + i - 1]
    BY <1>11, ContentIs
  <2> QED
    BY <1>1, <1>10, <2>1
<1>13. ASSUME NEW i \in 1 .. l
       PROVE  Content(c)[i] = IF i \in offset + 1 .. offset + len
                              THEN Xor(Content(b)[i], NewKey[Phase(i - offset - 1) + 1])
                              ELSE Content(b)[i]
  <2>1. s + i - 1 \in 0 .. m - 1
    <3>1. s \in Nat /\ l \in Nat /\ m \in Nat /\ i \in 1 .. l /\ s + l <= m
      BY <1>1
    <3> QED
      BY <3>1
  <2>2. PICK j \in DOMAIN b.mem : j = s + i - 1 /\ j \in Nat
    BY <1>2, <2>1
  <2>3. Content(c)[i] = new(j) /\ Content(b)[i] = b.mem[j]
    BY <1>3, <1>9, <1>12, <2>2
  <2>4. CASE i \in offset + 1 .. offset + len
    <3>1. PICK o \in 0 .. len - 1 : o = i - offset - 1 /\ j = s + offset + o
      <4>1. i - offset - 1 \in 0 .. len - 1 /\ j = s + offset + (i - offset - 1)
        BY <2>2, <2>4
      <4> QED
        BY <4>1
    <3>2. new(j) = Xor(b.mem[j], NewKey[Phase(o) + 1])
      BY <1>5, <3>1
    <3> QED
      BY <2>3, <2>4, <3>1, <3>2
  <2>5. CASE i \notin offset + 1 .. offset + len
    <3>1. j \notin s + offset .. s + offset + len - 1
      BY <2>2, <2>5
    <3>2. new(j) = b.mem[j]
      BY <1>6, <3>1
    <3> QED
      BY <2>3, <2>5, <3>2
  <2> QED
    BY <2>4, <2>5
<1> QED
  BY <1>3, <1>10, <1>11, <1>12, <1>13 DEF c

-----------------------------------------------------------------------------
(* A message as it is encoded.                                             *)

\* The payloads of messages.
Payloads == {p \in Seq(Plain) : Len(p) \in Sizes}

MaskedBytes(p) == [i \in 1 .. Len(p) |-> Xor(p[i], NewKey[Phase(i - 1) + 1])]

HeaderOf(p) == Header(1, Len(p), TRUE, NewKey)

\* The frame that sendData() makes of a payload.
Encoded(p) == HeaderOf(p) \o MaskedBytes(p)

\* The sizes of messages are lengths a header can carry.
LEMMA SizesAreLengths ==
  ASSUME NEW n \in Sizes
  PROVE  n \in Lengths /\ n \in Nat /\ 1 \in 0 .. TopBit - 1
<1>1. n \in Nat /\ n < Word /\ Word \in Nat \ {0}
  BY SizeFacts, BaseFacts
<1>2. Word <= Word * Word
  <2> HIDE DEF Word
  <2>1. \A w \in Nat \ {0} : w <= w * w
    OBVIOUS
  <2> QED
    BY <1>1, <2>1
<1>3. Word * Word \in Nat
  BY <1>1
<1> HIDE DEF Word
<1>4. n \in Lengths
  BY <1>1, <1>2, <1>3 DEF Lengths
<1>5. 1 \in 0 .. TopBit - 1
  BY BaseFacts
<1> QED
  BY <1>1, <1>4, <1>5

\* A frame's header is 6 to 14 bytes long.
LEMMA HeaderIs ==
  ASSUME NEW p \in Payloads
  PROVE  /\ HeaderOf(p) \in Seq(Bytes)
         /\ Len(HeaderOf(p)) = ExpectedHeaderLen(Len(p), TRUE)
         /\ Len(HeaderOf(p)) \in 6 .. 14
         /\ FrameLen(Len(p)) = Len(HeaderOf(p)) + Len(p) /\ FrameLen(Len(p)) \in Nat
         /\ FrameLen(Len(p)) < Word
<1>1. Len(p) \in Lengths /\ Len(p) \in Nat /\ 1 \in 0 .. TopBit - 1 /\ Len(p) \in Sizes
  BY SizesAreLengths DEF Payloads
<1>2. NewKey \in Keys /\ TRUE \in BOOLEAN /\ << >> \in Seq(Bytes)
  BY KeyFacts
<1>3. Header(1, Len(p), TRUE, NewKey) \in Seq(Bytes)
  BY <1>1, <1>2, HeaderParts
<1>4. Len(Header(1, Len(p), TRUE, NewKey)) = ExpectedHeaderLen(Len(p), TRUE)
  BY <1>1, <1>2, HeaderLength
<1>5. ExpectedHeaderLen(Len(p), TRUE) \in 6 .. 14
  BY DEF ExpectedHeaderLen
<1>6. Len(p) + 14 < Word
  BY <1>1, SizeFacts
<1>7. Word \in Nat
  BY BaseFacts
<1> DEFINE e == ExpectedHeaderLen(Len(p), TRUE)   H == HeaderOf(p)
<1>8. H \in Seq(Bytes) /\ Len(H) = e /\ FrameLen(Len(p)) = e + Len(p)
  BY <1>3, <1>4 DEF HeaderOf, FrameLen
<1>9. e \in 6 .. 14 /\ e + Len(p) \in Nat /\ e + Len(p) < Word
  <2> HIDE DEF e
  <2>1. e \in 6 .. 14
    BY <1>5 DEF e
  <2> QED
    BY <1>1, <1>6, <1>7, <2>1
<1> HIDE DEF e, H
<1> QED
  BY <1>8, <1>9 DEF e, H

\* RoundTrip without its abbreviations.
LEMMA ReadBack ==
  ASSUME NEW type \in 0 .. TopBit - 1, NEW n \in Lengths, NEW useMask \in BOOLEAN, NEW key \in Keys,
         NEW rest \in Seq(Bytes)
  PROVE  /\ N(Header(type, n, useMask, key) \o rest) = n
         /\ HeaderSize(Header(type, n, useMask, key) \o rest) = Len(Header(type, n, useMask, key))
         /\ useMask => MaskingKey(Header(type, n, useMask, key) \o rest) = key
BY RoundTrip

\* What a reader finds at the front of a frame.
LEMMA MaskedRoundTrip ==
  ASSUME NEW p \in Payloads, NEW rest \in Seq(Bytes)
  PROVE  LET d == HeaderOf(p) \o rest
         IN  /\ N(d) = Len(p) /\ HeaderSize(d) = Len(HeaderOf(p))
             /\ MaskingKey(d) = NewKey
             /\ FrameSize(d) = FrameLen(Len(p))
<1> DEFINE n == Len(p)
<1>1. /\ n \in Lengths /\ 1 \in 0 .. TopBit - 1 /\ NewKey \in Keys /\ TRUE \in BOOLEAN
  BY SizesAreLengths, KeyFacts DEF Payloads
<1>2. HeaderOf(p) = Header(1, n, TRUE, NewKey)
  BY DEF HeaderOf
<1>3. Len(HeaderOf(p)) + n < Word /\ Len(HeaderOf(p)) + n = FrameLen(n)
  BY HeaderIs
<1> HIDE DEF n
<1> DEFINE G == Header(1, n, TRUE, NewKey)
<1>4. /\ N(G \o rest) = n /\ HeaderSize(G \o rest) = Len(G)
      /\ MaskingKey(G \o rest) = NewKey
  <2>1. PICK t \in 0 .. TopBit - 1, m \in BOOLEAN, k \in Keys : t = 1 /\ m = TRUE /\ k = NewKey
    BY <1>1
  <2>2. /\ N(Header(t, n, m, k) \o rest) = n
        /\ HeaderSize(Header(t, n, m, k) \o rest) = Len(Header(t, n, m, k))
        /\ m => MaskingKey(Header(t, n, m, k) \o rest) = k
    BY <1>1, ReadBack
  <2> QED
    BY <2>1, <2>2
<1>5. FrameSize(G \o rest) = Len(G) + n
  <2>1. Len(Header(1, n, TRUE, NewKey)) + n < Word
    BY <1>2, <1>3
  <2> QED
    BY <1>1, <2>1, FrameSizeExact
<1> QED
  BY <1>2, <1>3, <1>4, <1>5 DEF n

\* Masking makes bytes of a payload, as many as it has.
LEMMA MaskedIs ==
  ASSUME NEW p \in Payloads
  PROVE  /\ MaskedBytes(p) \in Seq(Bytes) /\ Len(MaskedBytes(p)) = Len(p)
         /\ \A i \in 1 .. Len(p) :
              /\ p[i] \in Plain /\ i - 1 \in Nat
              /\ MaskedBytes(p)[i] = Xor(p[i], NewKey[Phase(i - 1) + 1])
              /\ Xor(MaskedBytes(p)[i], NewKey[Phase(i - 1) + 1]) = p[i]
<1>1. p \in Seq(Plain) /\ Len(p) \in Nat
  BY DEF Payloads
<1>2. ASSUME NEW i \in 1 .. Len(p)
      PROVE  /\ p[i] \in Plain /\ i - 1 \in Nat
             /\ Xor(p[i], NewKey[Phase(i - 1) + 1]) \in Bytes
             /\ Xor(Xor(p[i], NewKey[Phase(i - 1) + 1]), NewKey[Phase(i - 1) + 1]) = p[i]
  <2>1. p[i] \in Plain /\ i - 1 \in Nat
    BY <1>1
  <2>2. NewKey[Phase(i - 1) + 1] \in KeyValues
    BY <2>1, KeyFacts
  <2> QED
    BY <2>1, <2>2, XorTwice
<1>3. MaskedBytes(p) \in [1 .. Len(p) -> Bytes]
  BY <1>2 DEF MaskedBytes
<1>4. \A i \in 1 .. Len(p) : MaskedBytes(p)[i] = Xor(p[i], NewKey[Phase(i - 1) + 1])
  BY DEF MaskedBytes
<1>5. MaskedBytes(p) \in Seq(Bytes) /\ Len(MaskedBytes(p)) = Len(p)
  BY <1>1, <1>3
<1> QED
  BY <1>2, <1>4, <1>5

\* A frame is its header and then its masked payload.
LEMMA EncodedIs ==
  ASSUME NEW p \in Payloads
  PROVE  /\ Encoded(p) \in Seq(Bytes) /\ Len(Encoded(p)) = FrameLen(Len(p))
         /\ \A i \in 1 .. Len(HeaderOf(p)) : Encoded(p)[i] = HeaderOf(p)[i]
         /\ \A i \in 1 .. Len(p) : Encoded(p)[Len(HeaderOf(p)) + i] = MaskedBytes(p)[i]
<1> DEFINE H == HeaderOf(p)   M == MaskedBytes(p)
<1>1. H \in Seq(Bytes) /\ FrameLen(Len(p)) = Len(H) + Len(p)
  BY HeaderIs
<1>2. M \in Seq(Bytes) /\ Len(M) = Len(p)
  BY MaskedIs
<1> HIDE DEF H, M
<1>3. /\ H \o M \in Seq(Bytes) /\ Len(H \o M) = Len(H) + Len(M)
      /\ \A i \in 1 .. Len(H) : (H \o M)[i] = H[i]
      /\ \A i \in 1 .. Len(M) : (H \o M)[Len(H) + i] = M[i]
  BY <1>1, <1>2, Joined
<1>4. Encoded(p) = H \o M
  BY DEF Encoded, H, M
<1> QED
  BY <1>1, <1>2, <1>3, <1>4 DEF H, M

\* What _dispatchBinary() makes of bytes that begin as a frame does: it finds
\* it complete exactly if all of the frame is there, and then reads what was
\* written.
LEMMA FrameRead ==
  ASSUME NEW p \in Payloads, NEW data \in Seq(Bytes), NEW s \in Seq(Bytes),
         Len(data) <= Len(s), \A i \in 1 .. Len(data) : data[i] = s[i],
         FrameLen(Len(p)) <= Len(s), \A i \in 1 .. FrameLen(Len(p)) : s[i] = Encoded(p)[i]
  PROVE  /\ Complete(data) <=> Len(data) >= FrameLen(Len(p))
         /\ Complete(data) =>
              /\ HeaderSize(data) = Len(HeaderOf(p)) /\ N(data) = Len(p)
              /\ MaskingKey(data) = NewKey /\ FrameSize(data) = FrameLen(Len(p))
<1> DEFINE H == HeaderOf(p)   n == Len(p)
<1>1. /\ H \in Seq(Bytes) /\ Len(H) \in 6 .. 14 /\ n \in Nat
      /\ FrameLen(n) = Len(H) + n /\ FrameLen(n) < Word /\ FrameLen(n) \in Nat
      /\ n \in Sizes
  <2>1. n \in Sizes
    BY DEF Payloads
  <2>2. n \in Nat
    BY <2>1, SizesAreLengths
  <2> QED
    BY <2>1, <2>2, HeaderIs
<1>2. n \in Lengths /\ 1 \in 0 .. TopBit - 1 /\ NewKey \in Keys
  BY SizesAreLengths, KeyFacts DEF Payloads
<1>3. \A i \in 1 .. Len(H) : s[i] = H[i]
  <2> TAKE i \in 1 .. Len(H)
  <2>1. i \in 1 .. FrameLen(n)
    BY <1>1
  <2> QED
    BY <2>1, EncodedIs
<1>4. PICK h \in Nat, l \in Nat : h = Len(H) /\ l = Len(data) /\ h \in 6 .. 14
  <2> HIDE DEF H
  <2>1. Len(H) \in Nat /\ Len(data) \in Nat
    BY <1>1
  <2> QED
    BY <1>1, <2>1
<1>5. ASSUME l >= h
      PROVE  /\ N(data) = n /\ HeaderSize(data) = h /\ FrameSize(data) = FrameLen(n)
             /\ MaskingKey(data) = NewKey
  <2> DEFINE rest == SubSeq(data, h + 1, l)
  <2>1. h \in 0 .. Len(data)
    BY <1>4, <1>5
  <2>2. /\ rest \in Seq(Bytes) /\ Len(rest) = l - h
        /\ \A i \in 1 .. l - h : rest[i] = data[h + i]
    BY <1>4, <2>1, RestFacts
  <2> HIDE DEF rest, H
  <2>3. /\ H \o rest \in Seq(Bytes) /\ Len(H \o rest) = Len(H) + Len(rest)
        /\ \A i \in 1 .. Len(H) : (H \o rest)[i] = H[i]
        /\ \A i \in 1 .. Len(rest) : (H \o rest)[Len(H) + i] = rest[i]
    BY <1>1, <2>2, Joined
  <2>4. ASSUME NEW i \in 1 .. l PROVE data[i] = (H \o rest)[i]
    <3>1. CASE i <= h
      <4>1. i \in 1 .. Len(H) /\ i \in 1 .. Len(data)
        BY <1>4, <3>1
      <4>2. data[i] = s[i] /\ s[i] = H[i]
        BY <1>3, <4>1
      <4> QED
        BY <2>3, <4>1, <4>2
    <3>2. CASE i > h
      <4>1. PICK k \in 1 .. l - h : i = h + k
        <5>1. i - h \in 1 .. l - h /\ i = h + (i - h)
          BY <1>4, <3>2
        <5> QED
          BY <5>1
      <4> QED
        BY <1>4, <2>2, <2>3, <4>1
    <3>3. i <= h \/ i > h
      BY <1>4
    <3> QED
      BY <3>1, <3>2, <3>3
  <2>5. data = H \o rest
    <3>1. Len(data) = Len(H \o rest) /\ \A i \in 1 .. Len(data) : data[i] = (H \o rest)[i]
      BY <1>4, <1>5, <2>2, <2>3, <2>4
    <3> QED
      BY <2>3, <3>1, SameSeq
  <2>7. /\ N(data) = n /\ HeaderSize(data) = Len(H)
        /\ MaskingKey(data) = NewKey /\ FrameSize(data) = FrameLen(n)
    BY <2>2, <2>5, MaskedRoundTrip DEF H
  <2> QED
    BY <1>4, <2>7
<1>6. ASSUME l >= 2 PROVE HeaderSize(data) = h
  <2>1. /\ H \o << >> \in Seq(Bytes)
        /\ \A i \in 1 .. Len(H) : (H \o << >>)[i] = H[i]
    BY <1>1, Joined
  <2>2. data[2] = (H \o << >>)[2]
    <3>1. 2 \in 1 .. Len(data) /\ 2 \in 1 .. Len(H)
      BY <1>4, <1>6
    <3>2. data[2] = s[2] /\ s[2] = H[2]
      BY <1>3, <3>1
    <3> QED
      BY <2>1, <3>1, <3>2
  <2>3. HeaderSize(H \o << >>) = Len(H)
    <3>1. << >> \in Seq(Bytes)
      OBVIOUS
    <3> QED
      BY <3>1, MaskedRoundTrip
  <2> HIDE DEF H
  <2>4. HeaderSize(data) = HeaderSize(H \o << >>)
    BY <2>2 DEF HeaderSize, N0, Mask
  <2> QED
    BY <1>4, <2>3, <2>4
<1>7. ASSUME Complete(data) PROVE l >= h /\ l >= FrameLen(n)
  <2>1. l >= 2 /\ l >= HeaderSize(data) /\ l >= FrameSize(data)
    BY <1>4, <1>7 DEF Complete
  <2>2. l >= h
    BY <1>6, <2>1
  <2> QED
    BY <1>5, <2>1, <2>2
<1>8. ASSUME l >= FrameLen(n) PROVE Complete(data)
  <2>1. l >= h /\ l >= 2
    BY <1>1, <1>4, <1>8
  <2> QED
    BY <1>4, <1>5, <1>8, <2>1 DEF Complete
<1> QED
  BY <1>4, <1>5, <1>7, <1>8

-----------------------------------------------------------------------------
(* The receive buffer grows by doubling.                                   *)

\* The sizes the receive buffer takes: the default size doubled some times,
\* never past the limit.
Graded(b) == \E p, r \in 1 .. Growth : b.max = DefaultLen * p /\ p * r = Growth

\* A factor of the growth is all of it or can be doubled.
LEMMA Doubling ==
  ASSUME NEW p \in 1 .. Growth, NEW r \in 1 .. Growth, p * r = Growth
  PROVE  p = Growth \/ (2 * p \in 1 .. Growth /\ \E s \in 1 .. Growth : (2 * p) * s = Growth)
<1>1. PICK g \in Nat \ {0} : g = Growth
  BY TransferAssumption
<1>2. \A d, e \in 1 .. Growth : d * e = Growth => d = 1 \/ d % 2 = 0
  BY TransferAssumption
<1>3. r * p = Growth
  BY <1>1
<1>4. r = 1 \/ r % 2 = 0
  BY <1>2, <1>3
<1>5. CASE r = 1
  BY <1>1, <1>5
<1>6. CASE r % 2 = 0
  <2>1. PICK s \in 1 .. Growth : r = 2 * s
    <3>1. r = 2 * (r \div 2) /\ r \div 2 \in 1 .. g
      BY <1>1, <1>6
    <3> QED
      BY <1>1, <3>1
  <2>2. PICK x \in Nat, t \in Nat : x = p /\ t = s /\ t >= 1 /\ x >= 1 /\ x * (2 * t) = g
    BY <1>1, <2>1
  <2>3. (2 * x) * t = x * (2 * t)
    BY <2>2
  <2>4. 2 * x <= (2 * x) * t
    BY <2>2
  <2> QED
    BY <1>1, <2>1, <2>2, <2>3, <2>4
<1> QED
  BY <1>4, <1>5, <1>6

\* A graded buffer is as large as it may be, or twice its size is within the
\* limit and graded again.
LEMMA GradedMore ==
  ASSUME NEW b, b.max \in Nat, Graded(b)
  PROVE  /\ b.max >= DefaultLen
         /\ 2 * b.max <= MaxGrow => \A c : c.max = 2 * b.max => Graded(c)
         /\ 2 * b.max > MaxGrow => b.max = MaxGrow
<1>1. PICK p \in 1 .. Growth, r \in 1 .. Growth : b.max = DefaultLen * p /\ p * r = Growth
  BY DEF Graded
<1>2. PICK g \in Nat \ {0}, d \in Nat \ {0} : g = Growth /\ d = DefaultLen /\ MaxGrow = d * g
  BY TransferAssumption
<1>3. p \in Nat /\ p >= 1 /\ p <= g /\ b.max = d * p
  BY <1>1, <1>2
<1>4. b.max >= DefaultLen
  BY <1>2, <1>3
<1>5. 2 * b.max = d * (2 * p)
  BY <1>2, <1>3
<1>6. CASE p = Growth
  <2>1. b.max = MaxGrow /\ b.max > 0
    BY <1>2, <1>3, <1>6
  <2> QED
    BY <1>4, <2>1
<1>7. CASE 2 * p \in 1 .. Growth /\ \E s \in 1 .. Growth : (2 * p) * s = Growth
  <2>1. 2 * b.max <= MaxGrow
    BY <1>2, <1>3, <1>5, <1>7
  <2>2. ASSUME NEW c, c.max = 2 * b.max PROVE Graded(c)
    BY <1>2, <1>5, <1>7, <2>2 DEF Graded
  <2>3. ~(2 * b.max > MaxGrow)
    BY <1>2, <2>1
  <2> QED
    BY <1>4, <2>2, <2>3
<1> QED
  BY <1>1, <1>6, <1>7, Doubling

\* The receive buffer after room was made for a read, and what it means that
\* there is none.
LEMMA ConfirmedKeeps ==
  ASSUME NEW b, WellFormed(b), Graded(b), b.start = b.end => b.start = 0
  PROVE  LET c == Prepared(b, MaxRead, "ascending")
         IN  /\ WellFormed(c) /\ Content(c) = Content(b) /\ Graded(c)
             /\ c.start = c.end => c.start = 0
             /\ ~Fits(c, MaxRead) =>
                  Len(Content(b)) >= 1 /\ Len(Content(b)) + 2 * MaxRead > MaxGrow
<1> DEFINE n == MaxRead
           c == Prepared(b, n, "ascending")
<1>1. /\ n \in Nat /\ 1 <= n /\ n <= DefaultLen /\ DefaultLen \in Nat /\ 2 * MaxGrow + n < Modulus
      /\ MaxGrow \in Nat /\ DefaultLen <= MaxGrow
  BY SizeFacts
<1> HIDE DEF n
<1>2. WellFormed(c) /\ Content(c) = Content(b)
  BY <1>1, PreparedContent
<1>3. /\ b.start \in Nat /\ b.end \in Nat /\ b.max \in Nat
      /\ b.start <= b.end /\ b.end <= b.max /\ b.max <= MaxGrow /\ b.grow = MaxGrow
      /\ Available(b) = b.max - b.end /\ Size(b) = b.end - b.start
      /\ Len(Content(b)) = b.end - b.start
  BY SizeIs, ContentIs DEF WellFormed, Buffers
<1>4. /\ b.max >= DefaultLen
      /\ 2 * b.max <= MaxGrow => \A d : d.max = 2 * b.max => Graded(d)
      /\ 2 * b.max > MaxGrow => b.max = MaxGrow
  BY <1>3, GradedMore
<1>5. NewMaxLen(b, n) = 2 * b.max
  <2>1. /\ NewMaxLen(b, n) \in Nat /\ NewMaxLen(b, n) >= 2 * b.max
        /\ (NewMaxLen(b, n) > 2 * b.max => 2 * b.max - b.end < n)
    BY <1>1, NewMaxLenIs
  <2>2. ~(2 * b.max - b.end < n)
    BY <1>1, <1>3, <1>4
  <2>3. 2 * b.max \in Nat
    BY <1>3
  <2> QED
    BY <2>1, <2>2, <2>3
<1>6. /\ c.start \in Nat /\ c.end \in Nat /\ c.max \in Nat /\ Available(c) = c.max - c.end
      /\ c.start <= c.end /\ c.end - c.start = b.end - b.start
  <2>1. Len(Content(c)) = c.end - c.start
    BY <1>2, ContentIs
  <2> HIDE DEF c
  <2> QED
    BY <1>2, <1>3, <2>1, SizeIs DEF WellFormed, Buffers
<1>7. CASE c = b /\ n <= Available(b)
  <2>1. Fits(c, n)
    BY <1>7 DEF Fits
  <2> QED
    BY <1>2, <1>7, <2>1 DEF n
<1>8. CASE c = Compacted(b, "ascending") /\ n < b.start
  <2>1. c.start = 0 /\ c.end = b.end - b.start /\ c.max = b.max
    BY <1>3, <1>8, CompactedKeeps
  <2> HIDE DEF c
  <2>2. Graded(c)
    BY <2>1 DEF Graded
  <2>3. Fits(c, n)
    BY <1>1, <1>3, <1>6, <1>8, <2>1 DEF Fits
  <2> QED
    BY <1>2, <2>1, <2>2, <2>3 DEF c, n
<1>9. CASE c = Enlarged(b, n) /\ NewMaxLen(b, n) <= b.grow
  <2>1. c.max - c.end >= n
    BY <1>1, <1>9, EnlargedKeeps
  <2>2. c.start = 0 /\ c.max = NewMaxLen(b, n)
    BY <1>9 DEF Enlarged, WellFormed, Buffers
  <2> HIDE DEF c
  <2>3. Graded(c)
    BY <1>3, <1>4, <1>5, <1>9, <2>2
  <2>4. Fits(c, n)
    BY <1>1, <1>6, <2>1 DEF Fits
  <2> QED
    BY <1>2, <2>2, <2>3, <2>4 DEF c, n
<1>10. CASE c = b /\ n > Available(b) /\ ~(n < b.start) /\ NewMaxLen(b, n) > b.grow
  <2>1. b.max = MaxGrow
    BY <1>3, <1>4, <1>5, <1>10
  <2>2. b.end > MaxGrow - n /\ b.start <= n
    BY <1>1, <1>3, <1>10, <2>1
  <2>3. b.end # b.start
    BY <1>1, <1>3, <2>2
  <2>4. Len(Content(b)) >= 1 /\ Len(Content(b)) + 2 * n > MaxGrow
    BY <1>1, <1>3, <2>2, <2>3
  <2> QED
    BY <1>2, <1>10, <2>4 DEF n
<1>11. \/ c = b /\ ~(n > Available(b))
       \/ c = Compacted(b, "ascending") /\ n < b.start
       \/ c = Enlarged(b, n) /\ ~(NewMaxLen(b, n) > b.grow)
       \/ c = b /\ n > Available(b) /\ ~(n < b.start) /\ NewMaxLen(b, n) > b.grow
  BY DEF Prepared, Grown
<1>12. /\ ~(n > Available(b)) => n <= Available(b)
       /\ ~(NewMaxLen(b, n) > b.grow) => NewMaxLen(b, n) <= b.grow
  BY <1>1, <1>3, <1>5
<1> QED
  BY <1>7, <1>8, <1>9, <1>10, <1>11, <1>12
-----------------------------------------------------------------------------
(* The frames that are under way.                                          *)

\* The messages behind the first d, as they are encoded.
Frames(q, d) == [k \in 1 .. Len(q) - d |-> Encoded(q[d + k])]

\* They are sequences of bytes.
LEMMA FramesAre ==
  ASSUME NEW q \in Seq(Payloads), NEW d \in 0 .. Len(q)
  PROVE  /\ Frames(q, d) \in Seq(Seq(Bytes)) /\ Len(Frames(q, d)) = Len(q) - d
         /\ \A k \in 1 .. Len(q) - d : Frames(q, d)[k] = Encoded(q[d + k])
<1>1. PICK l \in Nat : l = Len(q) /\ d \in Nat /\ d <= l
  OBVIOUS
<1>2. ASSUME NEW k \in 1 .. l - d PROVE Encoded(q[d + k]) \in Seq(Bytes)
  <2>1. d + k \in 1 .. Len(q)
    BY <1>1
  <2>2. q[d + k] \in Payloads
    BY <2>1
  <2> QED
    BY <2>2, EncodedIs
<1>3. Frames(q, d) \in [1 .. l - d -> Seq(Bytes)]
  BY <1>1, <1>2 DEF Frames
<1>4. l - d \in Nat
  BY <1>1
<1>5. Frames(q, d) \in Seq(Seq(Bytes)) /\ Len(Frames(q, d)) = l - d
  <2> DEFINE m == l - d   fs == Frames(q, d)
  <2>1. m \in Nat /\ fs \in [1 .. m -> Seq(Bytes)]
    BY <1>3, <1>4
  <2> HIDE DEF m, fs
  <2>2. fs \in Seq(Seq(Bytes)) /\ Len(fs) = m
    BY <2>1
  <2> QED
    BY <2>2 DEF m, fs
<1>6. \A k \in 1 .. l - d : Frames(q, d)[k] = Encoded(q[d + k])
  BY <1>1 DEF Frames
<1> QED
  BY <1>1, <1>5, <1>6

\* A message more is a frame more at the end.
LEMMA FramesAppend ==
  ASSUME NEW q \in Seq(Payloads), NEW d \in 0 .. Len(q), NEW p \in Payloads
  PROVE  Frames(Append(q, p), d) = Append(Frames(q, d), Encoded(p))
<1> DEFINE r == Append(q, p)   fs == Frames(q, d)   gs == Append(fs, Encoded(p))
<1>1. PICK l \in Nat : l = Len(q) /\ d \in Nat /\ d <= l
  OBVIOUS
<1>2. r \in Seq(Payloads) /\ Len(r) = l + 1 /\ (\A i \in 1 .. l : r[i] = q[i]) /\ r[l + 1] = p
  BY <1>1
<1>3. d \in 0 .. Len(r)
  BY <1>1, <1>2
<1> HIDE DEF r
<1>4. /\ Frames(r, d) \in Seq(Seq(Bytes)) /\ Len(Frames(r, d)) = (l + 1) - d
      /\ \A k \in 1 .. (l + 1) - d : Frames(r, d)[k] = Encoded(r[d + k])
  BY <1>2, <1>3, FramesAre
<1>5. /\ fs \in Seq(Seq(Bytes)) /\ Len(fs) = l - d
      /\ \A k \in 1 .. l - d : fs[k] = Encoded(q[d + k])
  BY <1>1, FramesAre
<1>6. Encoded(p) \in Seq(Bytes)
  BY EncodedIs
<1> HIDE DEF fs
<1>7. PICK m \in Nat : m = l - d /\ d + m = l /\ (l + 1) - d = m + 1
  <2>1. l - d \in Nat /\ d + (l - d) = l /\ (l + 1) - d = (l - d) + 1
    BY <1>1
  <2> QED
    BY <2>1
<1>8. /\ gs \in Seq(Seq(Bytes)) /\ Len(gs) = m + 1
      /\ (\A k \in 1 .. m : gs[k] = fs[k]) /\ gs[m + 1] = Encoded(p)
  BY <1>5, <1>6, <1>7
<1> HIDE DEF gs
<1>9. ASSUME NEW k \in 1 .. m + 1 PROVE Frames(r, d)[k] = gs[k]
  <2>1. Frames(r, d)[k] = Encoded(r[d + k])
    BY <1>4, <1>7
  <2>2. CASE k <= m
    <3>1. k \in 1 .. m /\ d + k \in 1 .. l
      BY <1>1, <1>7, <2>2
    <3>2. gs[k] = Encoded(q[d + k])
      BY <1>5, <1>7, <1>8, <3>1
    <3>3. r[d + k] = q[d + k]
      BY <1>2, <3>1
    <3> QED
      BY <2>1, <3>2, <3>3
  <2>3. CASE k > m
    <3>1. k = m + 1 /\ d + k = l + 1
      BY <1>1, <1>7, <2>3
    <3> QED
      BY <1>2, <1>8, <2>1, <3>1
  <2>4. k <= m \/ k > m
    OBVIOUS
  <2> QED
    BY <2>2, <2>3, <2>4
<1>10. /\ Len(Frames(r, d)) = Len(gs)
       /\ \A k \in 1 .. Len(Frames(r, d)) : Frames(r, d)[k] = gs[k]
  BY <1>4, <1>7, <1>8, <1>9
<1>11. Frames(r, d) = gs
  BY <1>4, <1>8, <1>10, SeqEqual
<1> QED
  BY <1>11 DEF r, gs, fs

\* A message delivered is a frame less at the front.
LEMMA FramesTail ==
  ASSUME NEW q \in Seq(Payloads), NEW d \in 0 .. Len(q), d < Len(q)
  PROVE  /\ Frames(q, d)[1] = Encoded(q[d + 1])
         /\ Tail(Frames(q, d)) = Frames(q, d + 1)
<1> DEFINE fs == Frames(q, d)   gs == Frames(q, d + 1)
<1>1. PICK l \in Nat : l = Len(q) /\ d \in Nat /\ d < l
  OBVIOUS
<1>2. /\ fs \in Seq(Seq(Bytes)) /\ Len(fs) = l - d
      /\ \A k \in 1 .. l - d : fs[k] = Encoded(q[d + k])
  BY <1>1, FramesAre
<1>3. /\ gs \in Seq(Seq(Bytes)) /\ Len(gs) = l - (d + 1)
      /\ \A k \in 1 .. l - (d + 1) : gs[k] = Encoded(q[(d + 1) + k])
  <2>1. d + 1 \in 0 .. Len(q)
    BY <1>1
  <2> QED
    BY <1>1, <2>1, FramesAre
<1> HIDE DEF fs, gs
<1>4. PICK m \in Nat : l - d = m + 1 /\ l - (d + 1) = m
  <2>1. l - (d + 1) \in Nat /\ l - d = (l - (d + 1)) + 1
    BY <1>1
  <2> QED
    BY <2>1
<1>5. fs[1] = Encoded(q[d + 1])
  BY <1>2, <1>4
<1>6. Tail(fs) \in Seq(Seq(Bytes)) /\ Len(Tail(fs)) = m /\ \A k \in 1 .. m : Tail(fs)[k] = fs[k + 1]
  BY <1>2, <1>4
<1>7. ASSUME NEW k \in 1 .. m PROVE Tail(fs)[k] = gs[k]
  <2>1. k + 1 \in 1 .. l - d /\ d + (k + 1) = (d + 1) + k /\ k \in 1 .. l - (d + 1)
    BY <1>1, <1>4
  <2>2. fs[k + 1] = Encoded(q[d + (k + 1)])
    BY <1>2, <2>1
  <2>3. gs[k] = Encoded(q[(d + 1) + k])
    BY <1>3, <2>1
  <2> QED
    BY <1>6, <2>1, <2>2, <2>3
<1>8. Tail(fs) = gs
  BY <1>3, <1>4, <1>6, <1>7, SeqEqual
<1> QED
  BY <1>5, <1>8 DEF fs, gs

-----------------------------------------------------------------------------
(* The bytes between the two applications: r in the receive buffer, w under *)
(* way, t in the transmit buffer, and the messages q sent and d delivered. *)

Flow(r, w, t, q, d) ==
  /\ r \in Seq(Bytes) /\ w \in Seq(Bytes) /\ t \in Seq(Bytes)
  /\ q \in Seq(Payloads) /\ Len(q) <= MaxMessages
  /\ d \in Seq(Payloads) /\ Len(d) <= Len(q) /\ \A i \in 1 .. Len(d) : d[i] = q[i]
  /\ Laid((r \o w) \o t, Frames(q, Len(d)))

\* Concatenation of bytes is associative.
LEMMA BytesAssoc ==
  ASSUME NEW s \in Seq(Bytes), NEW t \in Seq(Bytes), NEW u \in Seq(Bytes)
  PROVE  (s \o t) \o u = s \o (t \o u)
OBVIOUS

\* At first there is nothing.
LEMMA FlowInit == Flow(<< >>, << >>, << >>, << >>, << >>)
<1>1. /\ << >> \in Seq(Bytes) /\ << >> \in Seq(Payloads) /\ Len(<< >>) = 0 /\ 0 \in 0 .. Len(<< >>)
      /\ (<< >> \o << >>) \o << >> = << >>
  OBVIOUS
<1>2. Frames(<< >>, 0) \in Seq(Seq(Bytes)) /\ Len(Frames(<< >>, 0)) = 0
  <2> DEFINE q == << >>   d == 0
  <2>1. q \in Seq(Payloads) /\ d \in 0 .. Len(q) /\ Len(q) - d = 0
    BY <1>1
  <2> HIDE DEF q, d
  <2>2. Frames(q, d) \in Seq(Seq(Bytes)) /\ Len(Frames(q, d)) = Len(q) - d
    BY <2>1, FramesAre
  <2> QED
    BY <2>1, <2>2 DEF q, d
<1>3. Frames(<< >>, 0) = << >>
  BY <1>2
<1>4. Laid((<< >> \o << >>) \o << >>, Frames(<< >>, Len(<< >>)))
  BY <1>1, <1>3, LaidEmpty
<1>5. MaxMessages \in Nat
  BY SizeFacts
<1> QED
  BY <1>1, <1>4, <1>5 DEF Flow

\* sendData() puts a frame behind what is there.
LEMMA FlowSend ==
  ASSUME NEW r, NEW w, NEW t, NEW q, NEW d, Flow(r, w, t, q, d),
         NEW p \in Payloads, Len(q) < MaxMessages
  PROVE  Flow(r, w, t \o Encoded(p), Append(q, p), d)
<1>1. /\ r \in Seq(Bytes) /\ w \in Seq(Bytes) /\ t \in Seq(Bytes)
      /\ q \in Seq(Payloads) /\ Len(q) <= MaxMessages
      /\ d \in Seq(Payloads) /\ Len(d) <= Len(q) /\ \A i \in 1 .. Len(d) : d[i] = q[i]
      /\ Laid((r \o w) \o t, Frames(q, Len(d)))
  BY DEF Flow
<1>2. PICK e \in Seq(Bytes) : e = Encoded(p)
  BY EncodedIs
<1>3. Len(d) \in 0 .. Len(q) /\ Len(d) \in Nat /\ Len(q) \in Nat
  BY <1>1
<1>4. /\ Frames(q, Len(d)) \in Seq(Seq(Bytes))
      /\ (r \o w) \in Seq(Bytes) /\ (r \o w) \o t \in Seq(Bytes)
  BY <1>1, <1>3, FramesAre
<1>5. Laid(((r \o w) \o t) \o e, Append(Frames(q, Len(d)), e))
  BY <1>1, <1>4, LaidAppend
<1>6. ((r \o w) \o t) \o e = (r \o w) \o (t \o e)
  <2>1. (r \o w) \in Seq(Bytes) /\ t \in Seq(Bytes) /\ e \in Seq(Bytes)
    BY <1>1, <1>4
  <2> QED
    BY <2>1, BytesAssoc
<1>7. Frames(Append(q, p), Len(d)) = Append(Frames(q, Len(d)), e)
  BY <1>1, <1>2, <1>3, FramesAppend
<1>8. t \o e \in Seq(Bytes)
  BY <1>1
<1>9. /\ Append(q, p) \in Seq(Payloads) /\ Len(Append(q, p)) = Len(q) + 1
      /\ \A i \in 1 .. Len(q) : Append(q, p)[i] = q[i]
  BY <1>1
<1> DEFINE Q == Append(q, p)
<1> HIDE DEF Q
<1>10. Q \in Seq(Payloads) /\ Len(Q) = Len(q) + 1 /\ \A i \in 1 .. Len(q) : Q[i] = q[i]
  BY <1>9 DEF Q
<1>11. Len(Q) <= MaxMessages /\ Len(d) <= Len(Q) /\ \A i \in 1 .. Len(d) : d[i] = Q[i]
  BY <1>1, <1>3, <1>10, SizeFacts
<1>12. Laid((r \o w) \o (t \o e), Frames(Q, Len(d)))
  BY <1>5, <1>6, <1>7 DEF Q
<1>13. Flow(r, w, t \o e, Q, d)
  BY <1>1, <1>8, <1>10, <1>11, <1>12 DEF Flow
<1> QED
  BY <1>2, <1>13 DEF Q

\* What the elements of a part of a sequence are.
LEMMA SliceFacts ==
  ASSUME NEW Elem, NEW s \in Seq(Elem), NEW h \in Nat, NEW n \in Nat, h + n <= Len(s)
  PROVE  /\ SubSeq(s, h + 1, h + n) \in Seq(Elem) /\ Len(SubSeq(s, h + 1, h + n)) = n
         /\ \A i \in 1 .. n : SubSeq(s, h + 1, h + n)[i] = s[h + i]
OBVIOUS

\* A sequence is its first k members and the rest.
LEMMA CutAt ==
  ASSUME NEW s \in Seq(Bytes), NEW k \in 0 .. Len(s)
  PROVE  /\ SubSeq(s, 1, k) \in Seq(Bytes) /\ SubSeq(s, k + 1, Len(s)) \in Seq(Bytes)
         /\ Len(SubSeq(s, 1, k)) = k
         /\ SubSeq(s, 1, k) \o SubSeq(s, k + 1, Len(s)) = s
<1> DEFINE a == SubSeq(s, 1, k)   b == SubSeq(s, k + 1, Len(s))
<1>1. PICK l \in Nat : l = Len(s) /\ k \in Nat /\ k <= l
  OBVIOUS
<1>2. a \in Seq(Bytes) /\ Len(a) = k /\ \A i \in 1 .. k : a[i] = s[i]
  BY <1>1
<1>3. b \in Seq(Bytes) /\ Len(b) = l - k /\ \A i \in 1 .. l - k : b[i] = s[k + i]
  BY <1>1, RestFacts
<1> HIDE DEF a, b
<1>4. /\ a \o b \in Seq(Bytes) /\ Len(a \o b) = k + (l - k)
      /\ (\A i \in 1 .. k : (a \o b)[i] = a[i]) /\ \A i \in 1 .. l - k : (a \o b)[k + i] = b[i]
  <2>1. /\ a \o b \in Seq(Bytes) /\ Len(a \o b) = Len(a) + Len(b)
        /\ \A i \in 1 .. Len(a) : (a \o b)[i] = a[i]
        /\ \A i \in 1 .. Len(b) : (a \o b)[Len(a) + i] = b[i]
    BY <1>2, <1>3, Joined
  <2> QED
    BY <1>2, <1>3, <2>1
<1>5. ASSUME NEW i \in 1 .. l PROVE (a \o b)[i] = s[i]
  <2>1. CASE i <= k
    <3>1. i \in 1 .. k
      BY <2>1
    <3> QED
      BY <1>2, <1>4, <3>1
  <2>2. CASE i > k
    <3>1. PICK j \in 1 .. l - k : i = k + j
      <4>1. i - k \in 1 .. l - k /\ i = k + (i - k)
        BY <1>1, <2>2
      <4> QED
        BY <4>1
    <3> QED
      BY <1>3, <1>4, <3>1
  <2>3. i <= k \/ i > k
    BY <1>1
  <2> QED
    BY <2>1, <2>2, <2>3
<1>6. k + (l - k) = l
  BY <1>1
<1>7. Len(a \o b) = Len(s) /\ \A i \in 1 .. Len(a \o b) : (a \o b)[i] = s[i]
  BY <1>1, <1>4, <1>5, <1>6
<1>8. a \o b = s
  BY <1>4, <1>7, SeqEqual
<1> QED
  BY <1>2, <1>3, <1>8 DEF a, b

\* So there are two parts that make it up.
LEMMA CutParts ==
  ASSUME NEW s \in Seq(Bytes), NEW k \in 0 .. Len(s)
  PROVE  \E a \in Seq(Bytes), b \in Seq(Bytes) :
           a = SubSeq(s, 1, k) /\ b = SubSeq(s, k + 1, Len(s)) /\ a \o b = s
BY CutAt

\* The socket takes bytes from the transmit buffer.
LEMMA FlowSome ==
  ASSUME NEW r, NEW w, NEW t, NEW q, NEW d, Flow(r, w, t, q, d), NEW k \in 0 .. Len(t)
  PROVE  Flow(r, w \o SubSeq(t, 1, k), SubSeq(t, k + 1, Len(t)), q, d)
<1>1. /\ r \in Seq(Bytes) /\ w \in Seq(Bytes) /\ t \in Seq(Bytes)
      /\ q \in Seq(Payloads) /\ Len(q) <= MaxMessages
      /\ d \in Seq(Payloads) /\ Len(d) <= Len(q) /\ \A i \in 1 .. Len(d) : d[i] = q[i]
      /\ Laid((r \o w) \o t, Frames(q, Len(d)))
  BY DEF Flow
<1>2. PICK a \in Seq(Bytes), b \in Seq(Bytes) :
        a = SubSeq(t, 1, k) /\ b = SubSeq(t, k + 1, Len(t)) /\ a \o b = t
  <2>1. t \in Seq(Bytes)
    BY <1>1
  <2> QED
    BY <2>1, CutParts, ZenonT(30)
<1>3. r \o w \in Seq(Bytes) /\ w \o a \in Seq(Bytes)
  BY <1>1
<1>4. (r \o w) \o (a \o b) = ((r \o w) \o a) \o b
  BY <1>3, BytesAssoc
<1>5. (r \o w) \o a = r \o (w \o a)
  BY <1>1, BytesAssoc
<1>6. Laid((r \o (w \o a)) \o b, Frames(q, Len(d)))
  BY <1>1, <1>2, <1>4, <1>5
<1>7. Flow(r, w \o a, b, q, d)
  BY <1>1, <1>3, <1>6 DEF Flow
<1> QED
  BY <1>2, <1>7

\* The receive buffer takes bytes from the wire.
LEMMA FlowReceive ==
  ASSUME NEW r, NEW w, NEW t, NEW q, NEW d, Flow(r, w, t, q, d), NEW k \in 0 .. Len(w)
  PROVE  Flow(r \o SubSeq(w, 1, k), SubSeq(w, k + 1, Len(w)), t, q, d)
<1>1. /\ r \in Seq(Bytes) /\ w \in Seq(Bytes) /\ t \in Seq(Bytes)
      /\ q \in Seq(Payloads) /\ Len(q) <= MaxMessages
      /\ d \in Seq(Payloads) /\ Len(d) <= Len(q) /\ \A i \in 1 .. Len(d) : d[i] = q[i]
      /\ Laid((r \o w) \o t, Frames(q, Len(d)))
  BY DEF Flow
<1>2. PICK a \in Seq(Bytes), b \in Seq(Bytes) :
        a = SubSeq(w, 1, k) /\ b = SubSeq(w, k + 1, Len(w)) /\ a \o b = w
  <2>1. w \in Seq(Bytes)
    BY <1>1
  <2> QED
    BY <2>1, CutParts, ZenonT(30)
<1>3. r \o a \in Seq(Bytes)
  BY <1>1
<1>4. r \o (a \o b) = (r \o a) \o b
  BY <1>1, BytesAssoc
<1>5. Laid(((r \o a) \o b) \o t, Frames(q, Len(d)))
  BY <1>1, <1>2, <1>4
<1>6. Flow(r \o a, b, t, q, d)
  BY <1>1, <1>3, <1>5 DEF Flow
<1> QED
  BY <1>2, <1>6

\* What waits in the receive buffer begins with the first message that is not
\* delivered, and is dispatched once all of its frame is there.
LEMMA FlowHead ==
  ASSUME NEW r, NEW w, NEW t, NEW q, NEW d, Flow(r, w, t, q, d), Len(r) >= 1
  PROVE  /\ Len(d) < Len(q) /\ q[Len(d) + 1] \in Payloads
         /\ LET p == q[Len(d) + 1]
            IN  /\ Complete(r) <=> Len(r) >= FrameLen(Len(p))
                /\ Complete(r) =>
                     /\ HeaderSize(r) = Len(HeaderOf(p)) /\ N(r) = Len(p)
                     /\ MaskingKey(r) = NewKey /\ FrameSize(r) = FrameLen(Len(p))
                     /\ \A i \in 1 .. FrameLen(Len(p)) : r[i] = Encoded(p)[i]
<1>1. /\ r \in Seq(Bytes) /\ w \in Seq(Bytes) /\ t \in Seq(Bytes)
      /\ q \in Seq(Payloads) /\ d \in Seq(Payloads) /\ Len(d) <= Len(q)
      /\ Laid((r \o w) \o t, Frames(q, Len(d)))
  BY DEF Flow
<1> DEFINE s == (r \o w) \o t   fs == Frames(q, Len(d))   p == q[Len(d) + 1]
<1>2. /\ r \o w \in Seq(Bytes) /\ Len(r \o w) = Len(r) + Len(w)
      /\ \A i \in 1 .. Len(r) : (r \o w)[i] = r[i]
  BY <1>1, Joined
<1>3. /\ s \in Seq(Bytes) /\ Len(s) = Len(r \o w) + Len(t)
      /\ \A i \in 1 .. Len(r \o w) : s[i] = (r \o w)[i]
  BY <1>1, <1>2, Joined
<1> HIDE DEF s
<1>4. Len(r) \in Nat /\ Len(w) \in Nat /\ Len(t) \in Nat
  BY <1>1
<1>5. Len(r) <= Len(s) /\ s # << >>
  BY <1>2, <1>3, <1>4
<1>6. ASSUME NEW i \in 1 .. Len(r) PROVE r[i] = s[i]
  <2>1. i \in 1 .. Len(r \o w)
    BY <1>2, <1>4
  <2> QED
    BY <1>2, <1>3, <2>1
<1>7. Len(d) \in 0 .. Len(q) /\ Len(d) \in Nat /\ Len(q) \in Nat
  BY <1>1
<1>8. fs \in Seq(Seq(Bytes)) /\ Len(fs) = Len(q) - Len(d)
  BY <1>1, <1>7, FramesAre
<1>9. Laid(s, fs)
  BY <1>1 DEF s
<1> HIDE DEF fs
<1>10. Len(fs) >= 1
  BY <1>3, <1>5, <1>8, <1>9, LaidNone
<1>11. Len(d) < Len(q)
  BY <1>7, <1>8, <1>10
<1>12. p \in Payloads
  <2>1. Len(d) + 1 \in 1 .. Len(q)
    BY <1>7, <1>11
  <2> QED
    BY <1>1, <2>1
<1>13. Len(fs[1]) <= Len(s) /\ \A i \in 1 .. Len(fs[1]) : s[i] = fs[1][i]
  BY <1>3, <1>8, <1>9, <1>10, LaidFirst
<1>14. fs[1] = Encoded(p)
  BY <1>1, <1>7, <1>11, FramesTail DEF fs
<1> HIDE DEF p
<1>15. Len(Encoded(p)) = FrameLen(Len(p)) /\ FrameLen(Len(p)) \in Nat
  BY <1>12, EncodedIs, HeaderIs
<1>16. FrameLen(Len(p)) <= Len(s) /\ \A i \in 1 .. FrameLen(Len(p)) : s[i] = Encoded(p)[i]
  BY <1>13, <1>14, <1>15
<1>17. /\ Complete(r) <=> Len(r) >= FrameLen(Len(p))
       /\ Complete(r) =>
            /\ HeaderSize(r) = Len(HeaderOf(p)) /\ N(r) = Len(p)
            /\ MaskingKey(r) = NewKey /\ FrameSize(r) = FrameLen(Len(p))
  BY <1>1, <1>3, <1>5, <1>6, <1>12, <1>16, FrameRead
<1>18. ASSUME Complete(r), NEW i \in 1 .. FrameLen(Len(p)) PROVE r[i] = Encoded(p)[i]
  <2>1. i \in 1 .. Len(r)
    BY <1>4, <1>15, <1>17, <1>18
  <2> QED
    BY <1>6, <1>16, <2>1
<1> QED
  BY <1>11, <1>12, <1>17, <1>18 DEF p

\* A frame that is dispatched is taken off the front.
LEMMA FlowDeliver ==
  ASSUME NEW r, NEW w, NEW t, NEW q, NEW d, Flow(r, w, t, q, d), Len(d) < Len(q),
         NEW p, p = q[Len(d) + 1], NEW f, f = FrameLen(Len(p)), f <= Len(r)
  PROVE  Flow(SubSeq(r, f + 1, Len(r)), w, t, q, Append(d, p))
<1>1. /\ r \in Seq(Bytes) /\ w \in Seq(Bytes) /\ t \in Seq(Bytes)
      /\ q \in Seq(Payloads) /\ Len(q) <= MaxMessages
      /\ d \in Seq(Payloads) /\ Len(d) <= Len(q) /\ \A i \in 1 .. Len(d) : d[i] = q[i]
      /\ Laid((r \o w) \o t, Frames(q, Len(d)))
  BY DEF Flow
<1>2. Len(d) \in 0 .. Len(q) /\ Len(d) \in Nat /\ Len(q) \in Nat /\ Len(d) + 1 \in 1 .. Len(q)
  BY <1>1
<1>3. p \in Payloads
  BY <1>1, <1>2
<1>4. f \in Nat /\ f = Len(Encoded(p)) /\ f \in 0 .. Len(r)
  BY <1>1, <1>3, EncodedIs, HeaderIs
<1> DEFINE s == (r \o w) \o t   fs == Frames(q, Len(d))   x == SubSeq(r, f + 1, Len(r))
           y == SubSeq(r \o w, f + 1, Len(r \o w))
<1>5. r \o w \in Seq(Bytes) /\ Len(r \o w) = Len(r) + Len(w)
  BY <1>1, Joined
<1>6. s \in Seq(Bytes)
  BY <1>1, <1>5
<1>7. f \in 0 .. Len(r \o w)
  BY <1>1, <1>4, <1>5
<1>8. y = x \o w /\ SubSeq(s, f + 1, Len(s)) = y \o t
  BY <1>1, <1>4, <1>5, <1>7, TakeFront
<1>9. x \in Seq(Bytes)
  BY <1>1, <1>4, RestFacts
<1> HIDE DEF s, y, x
<1>10. fs \in Seq(Seq(Bytes)) /\ Len(fs) = Len(q) - Len(d) /\ Laid(s, fs)
  BY <1>1, <1>2, FramesAre DEF s
<1>11. fs[1] = Encoded(p) /\ Tail(fs) = Frames(q, Len(d) + 1)
  BY <1>1, <1>2, FramesTail
<1> HIDE DEF fs
<1>12. Len(fs) >= 1
  BY <1>2, <1>10
<1>13. Laid(SubSeq(s, f + 1, Len(s)), Tail(fs))
  BY <1>4, <1>6, <1>10, <1>11, <1>12, LaidFirst
<1> DEFINE D == Append(d, p)
<1>14. /\ D \in Seq(Payloads) /\ Len(D) = Len(d) + 1
       /\ (\A i \in 1 .. Len(d) : D[i] = d[i]) /\ D[Len(d) + 1] = p
  BY <1>1, <1>3
<1> HIDE DEF D
<1>15. ASSUME NEW i \in 1 .. Len(D) PROVE D[i] = q[i]
  <2>1. CASE i = Len(d) + 1
    BY <1>14, <2>1
  <2>2. CASE i # Len(d) + 1
    <3>1. i \in 1 .. Len(d)
      BY <1>2, <1>14, <2>2
    <3> QED
      BY <1>1, <1>14, <3>1
  <2> QED
    BY <2>1, <2>2
<1>16. Laid((x \o w) \o t, Frames(q, Len(D)))
  BY <1>8, <1>11, <1>13, <1>14
<1>17. Len(D) <= Len(q)
  BY <1>2, <1>14
<1>18. Flow(x, w, t, q, D)
  BY <1>1, <1>9, <1>14, <1>15, <1>16, <1>17 DEF Flow
<1> QED
  BY <1>18 DEF x, D

-----------------------------------------------------------------------------
(* What the two sides do to their buffers.                                 *)

\* Sequences of bytes are sequences of numbers.
LEMMA BytesAreNumbers ==
  ASSUME NEW s \in Seq(Bytes)
  PROVE  s \in Seq(Nat)
<1>1. Bytes \subseteq Nat
  BY BaseFacts DEF Bytes
<1>2. \A i \in 1 .. Len(s) : s[i] \in Nat
  <2> TAKE i \in 1 .. Len(s)
  <2>1. s[i] \in Bytes
    OBVIOUS
  <2> QED
    BY <1>1, <2>1
<1> QED
  BY <1>2

\* A payload is a sequence of bytes.
LEMMA PayloadBytes ==
  ASSUME NEW p \in Payloads
  PROVE  p \in Seq(Bytes) /\ Len(p) \in Nat /\ 2 * MaxGrow + Len(p) + 14 < Modulus
<1>1. Plain \subseteq Bytes
  BY KeyBitFacts DEF Plain, Bytes
<1>2. p \in Seq(Plain) /\ Len(p) \in Sizes
  BY DEF Payloads
<1>3. \A i \in 1 .. Len(p) : p[i] \in Bytes
  BY <1>1, <1>2
<1> QED
  BY <1>2, <1>3, SizeFacts

\* addBuffer() that is not refused puts the bytes behind the content.
LEMMA AddedContent ==
  ASSUME NEW b, WellFormed(b), NEW bytes \in Seq(Bytes), NEW n \in Nat, n = Len(bytes),
         2 * MaxGrow + n < Modulus, Fits(Prepared(b, n, "ascending"), n)
  PROVE  LET c == Added(b, bytes, n, "ascending")
         IN  WellFormed(c) /\ Content(c) = Content(b) \o bytes
<1> DEFINE p == Prepared(b, n, "ascending")
<1>1. WellFormed(p) /\ Content(p) = Content(b)
  BY PreparedContent
<1>2. Added(b, bytes, n, "ascending") = Written(p, bytes, n)
  BY DEF Added
<1> HIDE DEF p
<1>3. bytes \in Seq(Nat) /\ Fits(p, n)
  BY BytesAreNumbers DEF p
<1>4. WellFormed(Written(p, bytes, n)) /\ Content(Written(p, bytes, n)) = Content(p) \o bytes
  BY <1>1, <1>3, WrittenContent
<1> QED
  BY <1>1, <1>2, <1>4

\* The mask over the last bytes of the transmit buffer meets the payload and
\* nothing else, so that the encoded message follows what was there.
LEMMA SendBuffer ==
  ASSUME NEW b, WellFormed(b), Content(b) \in Seq(Bytes), NEW p \in Payloads,
         NEW c, WellFormed(c), Content(c) = (Content(b) \o HeaderOf(p)) \o p
  PROVE  LET e == Masked(c, U(Size(c) - Len(p)), Len(p), NewKey)
         IN  WellFormed(e) /\ Content(e) = Content(b) \o Encoded(p)
<1> DEFINE H == HeaderOf(p)   M == MaskedBytes(p)   a == Content(b)   g == Content(c)
           E == Encoded(p)
<1>1. PICK h \in Nat, n \in Nat, l \in Nat : h = Len(H) /\ n = Len(p) /\ l = Len(a)
  <2>1. Len(H) \in Nat /\ Len(p) \in Nat /\ Len(a) \in Nat
    BY HeaderIs, PayloadBytes, ContentIs
  <2> QED
    BY <2>1
<1>2. H \in Seq(Bytes) /\ a \in Seq(Bytes) /\ p \in Seq(Bytes) /\ g = (a \o H) \o p
  BY HeaderIs, PayloadBytes
<1>3. /\ E \in Seq(Bytes) /\ Len(E) = h + n
      /\ \A i \in 1 .. h : E[i] = H[i]
      /\ \A i \in 1 .. n : E[h + i] = M[i]
  BY <1>1, EncodedIs, HeaderIs
<1>4. \A i \in 1 .. n : M[i] = Xor(p[i], NewKey[Phase(i - 1) + 1])
  BY <1>1, MaskedIs
<1> HIDE DEF H, M, a, g, E
<1> DEFINE j == a \o H
<1>5. /\ j \in Seq(Bytes) /\ Len(j) = l + h
      /\ (\A i \in 1 .. l : j[i] = a[i]) /\ \A i \in 1 .. h : j[l + i] = H[i]
  <2>1. /\ a \o H \in Seq(Bytes) /\ Len(a \o H) = Len(a) + Len(H)
        /\ \A i \in 1 .. Len(a) : (a \o H)[i] = a[i]
        /\ \A i \in 1 .. Len(H) : (a \o H)[Len(a) + i] = H[i]
    BY <1>2, Joined
  <2> QED
    BY <1>1, <2>1
<1>6. g = j \o p
  BY <1>2
<1> HIDE DEF j
<1>7. /\ g \in Seq(Bytes) /\ Len(g) = l + h + n
      /\ (\A i \in 1 .. l + h : g[i] = j[i]) /\ \A i \in 1 .. n : g[l + h + i] = p[i]
  <2>1. /\ j \o p \in Seq(Bytes) /\ Len(j \o p) = Len(j) + Len(p)
        /\ \A i \in 1 .. Len(j) : (j \o p)[i] = j[i]
        /\ \A i \in 1 .. Len(p) : (j \o p)[Len(j) + i] = p[i]
    BY <1>2, <1>5, Joined
  <2> QED
    BY <1>1, <1>5, <1>6, <2>1
<1>8. U(Size(c) - n) = l + h
  <2>1. Size(c) = l + h + n /\ Size(c) <= MaxGrow
    <3>1. Size(c) = c.end - c.start /\ Len(Content(c)) = c.end - c.start
      BY ContentIs
    <3>2. c.start \in Nat /\ c.end \in Nat /\ c.max \in Nat /\ c.end <= c.max /\ c.max <= MaxGrow
      BY DEF WellFormed, Buffers
    <3> QED
      BY <1>7, <3>1, <3>2, SizeFacts DEF g
  <2>2. l + h < Modulus /\ Size(c) - n = l + h
    BY <2>1, SizeFacts
  <2> QED
    BY <2>2, SizeFacts DEF U
<1> DEFINE e == Masked(c, l + h, n, NewKey)
<1>9. /\ WellFormed(e) /\ Content(e) \in Seq(Nat) /\ Len(Content(e)) = l + h + n
      /\ \A i \in 1 .. l + h + n :
           Content(e)[i] = IF i \in l + h + 1 .. l + h + n
                           THEN Xor(g[i], NewKey[Phase(i - (l + h) - 1) + 1])
                           ELSE g[i]
  <2> DEFINE o == l + h
  <2>1. o \in Nat /\ n \in Nat /\ o + n <= Len(Content(c)) /\ Len(Content(c)) = o + n
    BY <1>7 DEF g
  <2> HIDE DEF o
  <2> DEFINE f == Masked(c, o, n, NewKey)
  <2>2. /\ WellFormed(f) /\ Content(f) \in Seq(Nat) /\ Len(Content(f)) = Len(Content(c))
        /\ \A i \in 1 .. Len(Content(c)) :
             Content(f)[i] = IF i \in o + 1 .. o + n
                             THEN Xor(Content(c)[i], NewKey[Phase(i - o - 1) + 1])
                             ELSE Content(c)[i]
    BY <2>1, MaskedContent
  <2> HIDE DEF f
  <2>3. /\ WellFormed(f) /\ Content(f) \in Seq(Nat) /\ Len(Content(f)) = o + n
        /\ \A i \in 1 .. o + n :
             Content(f)[i] = IF i \in o + 1 .. o + n
                             THEN Xor(g[i], NewKey[Phase(i - o - 1) + 1])
                             ELSE g[i]
    BY <2>1, <2>2 DEF g
  <2>4. e = f
    BY DEF e, f, o
  <2> HIDE DEF e
  <2> QED
    BY <2>3, <2>4 DEF o
<1> HIDE DEF e
<1> DEFINE x == Content(e)
<1> HIDE DEF x
<1>10. /\ a \o E \in Seq(Bytes) /\ Len(a \o E) = l + (h + n)
       /\ (\A i \in 1 .. l : (a \o E)[i] = a[i])
       /\ \A i \in 1 .. h + n : (a \o E)[l + i] = E[i]
  <2>1. /\ a \o E \in Seq(Bytes) /\ Len(a \o E) = Len(a) + Len(E)
        /\ \A i \in 1 .. Len(a) : (a \o E)[i] = a[i]
        /\ \A i \in 1 .. Len(E) : (a \o E)[Len(a) + i] = E[i]
    BY <1>2, <1>3, Joined
  <2> QED
    BY <1>1, <1>3, <2>1
<1>11. ASSUME NEW i \in 1 .. l + h + n PROVE x[i] = (a \o E)[i]
  <2>1. CASE i <= l
    <3>1. i \in 1 .. l /\ i \in 1 .. l + h /\ i \notin l + h + 1 .. l + h + n
      BY <2>1
    <3>2. x[i] = g[i]
      BY <1>9, <3>1 DEF x
    <3> QED
      BY <1>5, <1>7, <1>10, <3>1, <3>2
  <2>2. CASE i > l /\ i <= l + h
    <3>1. PICK k \in 1 .. h : i = l + k
      <4>1. i - l \in 1 .. h /\ i = l + (i - l)
        BY <2>2
      <4> QED
        BY <4>1
    <3>2. i \in 1 .. l + h /\ i \notin l + h + 1 .. l + h + n /\ k \in 1 .. h + n
      BY <2>2, <3>1
    <3>3. x[i] = g[i]
      BY <1>9, <3>2 DEF x
    <3>4. g[i] = H[k]
      BY <1>5, <1>7, <3>1, <3>2
    <3>5. (a \o E)[i] = H[k]
      BY <1>3, <1>10, <3>1, <3>2
    <3> QED
      BY <3>3, <3>4, <3>5
  <2>3. CASE i > l + h
    <3>1. PICK k \in 1 .. n : i = l + h + k
      <4>1. i - (l + h) \in 1 .. n /\ i = l + h + (i - (l + h))
        BY <2>3
      <4> QED
        BY <4>1
    <3>2. /\ i \in l + h + 1 .. l + h + n /\ i - (l + h) - 1 = k - 1
          /\ h + k \in 1 .. h + n /\ i = l + (h + k)
      BY <3>1
    <3>3. x[i] = Xor(g[i], NewKey[Phase(k - 1) + 1])
      BY <1>9, <3>2 DEF x
    <3>4. g[i] = p[k]
      BY <1>7, <3>1
    <3>5. (a \o E)[i] = M[k]
      <4>1. (a \o E)[l + (h + k)] = E[h + k]
        BY <1>10, <3>2
      <4> QED
        BY <1>3, <3>2, <4>1
    <3> QED
      BY <1>4, <3>3, <3>4, <3>5
  <2>4. i <= l \/ (i > l /\ i <= l + h) \/ i > l + h
    OBVIOUS
  <2> QED
    BY <2>1, <2>2, <2>3, <2>4
<1>12. x \in Seq(Nat) /\ a \o E \in Seq(Nat) /\ Len(x) = Len(a \o E)
       /\ \A i \in 1 .. Len(x) : x[i] = (a \o E)[i]
  <2>1. l + (h + n) = l + h + n
    OBVIOUS
  <2>2. a \o E \in Seq(Nat)
    BY <1>10, BytesAreNumbers
  <2> QED
    BY <1>9, <1>10, <1>11, <2>1, <2>2 DEF x
<1>13. x = a \o E
  BY <1>12, SeqEqual
<1> QED
  BY <1>1, <1>8, <1>9, <1>13 DEF x, a, E, e

\* The mask is taken off the payload in the receive buffer, and what follows
\* the frame stays as it is.
LEMMA DispatchBuffer ==
  ASSUME NEW b, WellFormed(b), NEW p \in Payloads,
         FrameLen(Len(p)) <= Len(Content(b)),
         \A i \in 1 .. FrameLen(Len(p)) : Content(b)[i] = Encoded(p)[i]
  PROVE  LET c == Masked(b, Len(HeaderOf(p)), Len(p), NewKey)
             f == FrameLen(Len(p))
         IN  /\ WellFormed(c) /\ c.max = b.max /\ Len(Content(c)) = Len(Content(b))
             /\ SubSeq(Content(c), Len(HeaderOf(p)) + 1, f) = p
             /\ SubSeq(Content(c), f + 1, Len(Content(c)))
                  = SubSeq(Content(b), f + 1, Len(Content(b)))
<1> DEFINE M == MaskedBytes(p)   a == Content(b)
<1>1. PICK h \in Nat, n \in Nat, l \in Nat :
        h = Len(HeaderOf(p)) /\ n = Len(p) /\ l = Len(a) /\ FrameLen(Len(p)) = h + n /\ h + n <= l
  <2>1. Len(HeaderOf(p)) \in Nat /\ Len(p) \in Nat /\ Len(a) \in Nat
    BY HeaderIs, PayloadBytes, ContentIs
  <2> QED
    BY <2>1, HeaderIs
<1>2. a \in Seq(Nat)
  BY ContentIs
<1>3. ASSUME NEW i \in 1 .. n
      PROVE  /\ a[h + i] = M[i]
             /\ Xor(M[i], NewKey[Phase(i - 1) + 1]) = p[i]
  <2>1. h + i \in 1 .. FrameLen(Len(p))
    BY <1>1
  <2>2. a[h + i] = Encoded(p)[h + i]
    BY <2>1
  <2>3. Encoded(p)[h + i] = M[i]
    BY <1>1, EncodedIs
  <2> QED
    BY <1>1, <2>2, <2>3, MaskedIs
<1> DEFINE c == Masked(b, h, n, NewKey)   x == Content(c)
<1>4. /\ WellFormed(c) /\ c.max = b.max /\ x \in Seq(Nat) /\ Len(x) = l
      /\ \A i \in 1 .. l : x[i] = IF i \in h + 1 .. h + n
                                  THEN Xor(a[i], NewKey[Phase(i - h - 1) + 1])
                                  ELSE a[i]
  <2>1. h \in Nat /\ n \in Nat /\ h + n <= Len(a) /\ Len(a) = l
    BY <1>1
  <2> HIDE DEF M
  <2> QED
    BY <2>1, MaskedContent
<1> HIDE DEF x, c, a, M
<1>5. ASSUME NEW i \in 1 .. n PROVE x[h + i] = p[i]
  <2>1. h + i \in 1 .. l /\ h + i \in h + 1 .. h + n /\ (h + i) - h - 1 = i - 1
    BY <1>1
  <2>2. x[h + i] = Xor(a[h + i], NewKey[Phase(i - 1) + 1])
    BY <1>4, <2>1
  <2> QED
    BY <1>3, <2>2
<1>6. SubSeq(x, h + 1, h + n) = p
  <2> DEFINE y == SubSeq(x, h + 1, h + n)
  <2>1. x \in Seq(Nat) /\ h + n <= Len(x)
    BY <1>1, <1>4
  <2>2. y \in Seq(Nat) /\ Len(y) = n /\ \A i \in 1 .. n : y[i] = x[h + i]
    BY <2>1, SliceFacts
  <2> HIDE DEF y
  <2>3. \A i \in 1 .. n : y[i] = p[i]
    BY <1>5, <2>2
  <2>4. p \in Seq(Nat)
    BY PayloadBytes, BytesAreNumbers
  <2>5. y = p
    BY <1>1, <2>2, <2>3, <2>4, SeqEqual
  <2> QED
    BY <2>5 DEF y
<1>7. SubSeq(x, h + n + 1, l) = SubSeq(a, h + n + 1, l)
  <2> DEFINE f == h + n
             y == SubSeq(x, f + 1, Len(x))   z == SubSeq(a, f + 1, Len(a))
  <2>1. f \in 0 .. Len(x) /\ f \in 0 .. Len(a)
    BY <1>1, <1>4 DEF a
  <2>2. y \in Seq(Nat) /\ Len(y) = Len(x) - f /\ \A i \in 1 .. Len(x) - f : y[i] = x[f + i]
    BY <1>4, <2>1, RestFacts
  <2>3. z \in Seq(Nat) /\ Len(z) = Len(a) - f /\ \A i \in 1 .. Len(a) - f : z[i] = a[f + i]
    BY <1>2, <2>1, RestFacts DEF a
  <2>4. Len(x) = l /\ Len(a) = l
    BY <1>1, <1>4 DEF a
  <2> HIDE DEF y, z
  <2>5. ASSUME NEW i \in 1 .. l - f PROVE y[i] = z[i]
    <3>1. f + i \in 1 .. l /\ f + i \notin h + 1 .. h + n
      BY <1>1
    <3>2. x[f + i] = a[f + i]
      BY <1>4, <3>1
    <3> QED
      BY <2>2, <2>3, <2>4, <3>2
  <2>6. y = z
    BY <2>2, <2>3, <2>4, <2>5, SeqEqual
  <2> QED
    BY <2>4, <2>6 DEF y, z
<1>8. Len(a) = l
  BY <1>1 DEF a
<1> QED
  BY <1>1, <1>4, <1>6, <1>7, <1>8 DEF x, a, c

-----------------------------------------------------------------------------
(* The inductive invariant.                                                *)

Sound ==
  /\ WellFormed(tx) /\ WellFormed(rx)
  /\ Graded(rx)
  /\ rx.start = rx.end => rx.start = 0

IInv == ~cut => Sound /\ Flow(Content(rx), wire, Content(tx), queued, delivered)

\* New buffers are empty.
LEMMA NewIs ==
  LET b == NewBuffer(DefaultLen, MaxGrow)
  IN  WellFormed(b) /\ Graded(b) /\ b.start = 0 /\ Content(b) = << >>
<1> DEFINE b == NewBuffer(DefaultLen, MaxGrow)
<1>1. DefaultLen \in Nat /\ DefaultLen <= MaxGrow /\ MaxGrow \in Nat
  BY SizeFacts
<1>2. Blank(DefaultLen) \in Memory /\ DOMAIN Blank(DefaultLen) = 0 .. DefaultLen - 1
  BY <1>1, BlankIsMemory
<1>3. /\ b \in Buffers /\ b.mem = Blank(DefaultLen) /\ b.start = 0 /\ b.end = 0
      /\ b.max = DefaultLen /\ b.grow = MaxGrow
  <2>1. b = [mem |-> Blank(DefaultLen), start |-> 0, end |-> 0, max |-> DefaultLen,
             grow |-> MaxGrow]
    BY <1>1 DEF NewBuffer
  <2> HIDE DEF b
  <2> QED
    BY <1>1, <1>2, <2>1 DEF Buffers
<1> HIDE DEF b
<1>4. WellFormed(b)
  BY <1>1, <1>2, <1>3 DEF WellFormed
<1>5. Graded(b)
  <2>1. PICK g \in Nat \ {0} : g = Growth
    BY TransferAssumption
  <2>2. 1 \in 1 .. Growth /\ Growth \in 1 .. Growth /\ 1 * Growth = Growth
        /\ b.max = DefaultLen * 1
    BY <1>1, <1>3, <2>1
  <2> QED
    BY <2>2 DEF Graded
<1>6. Content(b) = << >>
  <2>1. Content(b) \in Seq(Nat) /\ Len(Content(b)) = 0
    BY <1>3, <1>4, ContentIs
  <2> QED
    BY <2>1
<1> QED
  BY <1>3, <1>4, <1>5, <1>6 DEF b

\* A new connection satisfies the invariant.
LEMMA InitIInv == Init => IInv
<1> SUFFICES ASSUME Init PROVE IInv
  OBVIOUS
<1>1. /\ tx = NewBuffer(DefaultLen, MaxGrow) /\ rx = NewBuffer(DefaultLen, MaxGrow)
      /\ wire = << >> /\ queued = << >> /\ delivered = << >>
  BY DEF Init
<1>2. Sound /\ Content(rx) = << >> /\ Content(tx) = << >>
  BY <1>1, NewIs DEF Sound
<1> QED
  BY <1>1, <1>2, FlowInit DEF IInv

\* sendData() puts a whole frame into the transmit buffer, unless it is cut.
LEMMA SendStep ==
  ASSUME IInv, NEW n \in Sizes, SendData(n)
  PROVE  IInv'
<1> SUFFICES ASSUME ~cut' PROVE Sound' /\ Flow(Content(rx), wire, Content(tx), queued, delivered)'
  BY DEF IInv
<1> DEFINE p == NextPayload(n)
           H == HeaderOf(p)
           headed == Added(tx, H, Len(H), "ascending")
           filled == Added(headed, p, n, "ascending")
<1>1. ~cut /\ Sound /\ Flow(Content(rx), wire, Content(tx), queued, delivered)
  BY DEF SendData, IInv
<1>2. p \in Payloads /\ Len(p) = n
  <2>1. Len(queued) \in Nat /\ Len(queued) < MaxMessages /\ MaxMessages \in Nat
    BY <1>1, SizeFacts DEF Flow, SendData
  <2>2. PICK m \in 1 .. MaxMessages : m = Len(queued) + 1
    BY <2>1
  <2>3. Payload(m, n) \in [1 .. n -> Plain] /\ n \in Nat
    BY TransferAssumption, SizeFacts DEF Plain
  <2>4. Payload(m, n) \in Seq(Plain) /\ Len(Payload(m, n)) = n
    BY <2>3
  <2> QED
    BY <2>2, <2>4 DEF NextPayload, Payloads
<1>3. H = Header(1, n, TRUE, NewKey)
  BY <1>2 DEF HeaderOf
<1>4. /\ tx' = Masked(filled, U(Size(filled) - n), n, NewKey)
      /\ queued' = Append(queued, p)
      /\ wire' = wire /\ rx' = rx /\ delivered' = delivered
      /\ Len(queued) < MaxMessages
  BY <1>3 DEF SendData
<1>5. Fits(Prepared(tx, Len(H), "ascending"), Len(H)) /\ Fits(Prepared(headed, n, "ascending"), n)
  <2>1. cut' = ~(/\ Fits(Prepared(tx, Len(H), "ascending"), Len(H))
                 /\ Fits(Prepared(headed, n, "ascending"), n))
    BY <1>3 DEF SendData
  <2> HIDE DEF H, headed
  <2> QED
    BY <2>1
<1> HIDE DEF p, H, headed, filled
<1>6. /\ H \in Seq(Bytes) /\ Len(H) \in 6 .. 14 /\ Len(H) \in Nat /\ n \in Nat
      /\ 2 * MaxGrow + n + 14 < Modulus /\ p \in Seq(Bytes)
  <2>1. H \in Seq(Bytes) /\ Len(H) \in 6 .. 14
    BY <1>2, HeaderIs DEF H
  <2> QED
    BY <1>2, <2>1, PayloadBytes
<1>7. 2 * MaxGrow + Len(H) < Modulus /\ 2 * MaxGrow + n < Modulus
  <2>1. PICK h \in Nat, g \in Nat, w \in Nat : h = Len(H) /\ g = MaxGrow /\ w = Modulus
    BY <1>6, SizeFacts
  <2>2. h \in 6 .. 14
    BY <1>6, <2>1
  <2>3. 2 * g + n + 14 < w /\ n \in Nat
    <3>1. 2 * MaxGrow + n + 14 < Modulus /\ n \in Nat
      BY <1>6
    <3> QED
      BY <2>1, <3>1
  <2>4. 2 * g + h < w /\ 2 * g + n < w
    BY <2>2, <2>3
  <2> QED
    BY <2>1, <2>4
<1>8. WellFormed(tx) /\ Content(tx) \in Seq(Bytes)
  BY <1>1 DEF Sound, Flow
<1>9. WellFormed(headed) /\ Content(headed) = Content(tx) \o H
  BY <1>5, <1>6, <1>7, <1>8, AddedContent DEF headed
<1>10. WellFormed(filled) /\ Content(filled) = Content(headed) \o p
  BY <1>2, <1>5, <1>6, <1>7, <1>9, AddedContent DEF filled
<1>11. WellFormed(tx') /\ Content(tx') = Content(tx) \o Encoded(p)
  <2>1. Content(filled) = (Content(tx) \o HeaderOf(p)) \o p
    BY <1>9, <1>10 DEF H
  <2>2. LET e == Masked(filled, U(Size(filled) - Len(p)), Len(p), NewKey)
        IN  WellFormed(e) /\ Content(e) = Content(tx) \o Encoded(p)
    BY <1>2, <1>8, <1>10, <2>1, SendBuffer
  <2> QED
    BY <1>2, <1>4, <2>2
<1>12. Flow(Content(rx), wire, Content(tx) \o Encoded(p), Append(queued, p), delivered)
  BY <1>1, <1>2, <1>4, FlowSend
<1>13. Flow(Content(rx'), wire', Content(tx'), queued', delivered')
  BY <1>4, <1>11, <1>12
<1>14. Sound'
  BY <1>1, <1>4, <1>11 DEF Sound
<1> QED
  BY <1>13, <1>14

\* send() moves bytes from the transmit buffer to the wire.
LEMMA SomeStep ==
  ASSUME IInv, NEW k \in 1 .. Window, SendSome(k)
  PROVE  IInv'
<1>1. ~cut /\ Sound /\ Flow(Content(rx), wire, Content(tx), queued, delivered)
  BY DEF SendSome, IInv
<1>2. /\ k \in 1 .. Size(tx)
      /\ wire' = wire \o SubSeq(Content(tx), 1, k) /\ tx' = Consumed(tx, k)
      /\ rx' = rx /\ queued' = queued /\ delivered' = delivered /\ cut' = cut
  BY DEF SendSome
<1>3. WellFormed(tx)
  BY <1>1 DEF Sound
<1>4. WellFormed(tx') /\ Content(tx') = SubSeq(Content(tx), k + 1, Len(Content(tx)))
  BY <1>2, <1>3, ConsumedContent
<1>5. k \in 0 .. Len(Content(tx))
  <2>1. Len(Content(tx)) = Size(tx) /\ Size(tx) \in Nat
    BY <1>3, ContentIs
  <2> QED
    BY <1>2, <2>1
<1>6. Flow(Content(rx), wire \o SubSeq(Content(tx), 1, k),
           SubSeq(Content(tx), k + 1, Len(Content(tx))), queued, delivered)
  BY <1>1, <1>5, FlowSome
<1>7. Flow(Content(rx'), wire', Content(tx'), queued', delivered')
  BY <1>2, <1>4, <1>6
<1>8. Sound'
  BY <1>1, <1>2, <1>4 DEF Sound
<1> QED
  BY <1>7, <1>8 DEF IInv

\* What the receive buffer is after room was asked for.
LEMMA ConfirmedIs ==
  ASSUME Sound
  PROVE  /\ WellFormed(Confirmed) /\ Content(Confirmed) = Content(rx) /\ Graded(Confirmed)
         /\ Confirmed.start = Confirmed.end => Confirmed.start = 0
         /\ ~Fits(Confirmed, MaxRead) =>
              Len(Content(rx)) >= 1 /\ Len(Content(rx)) + 2 * MaxRead > MaxGrow
BY ConfirmedKeeps DEF Sound, Confirmed

\* receive() moves bytes from the wire to the receive buffer.
LEMMA ReceiveStep ==
  ASSUME IInv, NEW k \in 1 .. MaxRead, Receive(k)
  PROVE  IInv'
<1>1. ~cut /\ Sound /\ Flow(Content(rx), wire, Content(tx), queued, delivered)
  BY DEF Receive, IInv
<1>2. /\ Fits(Confirmed, MaxRead) /\ k <= Len(wire)
      /\ rx' = Written(Confirmed, SubSeq(wire, 1, k), k)
      /\ wire' = SubSeq(wire, k + 1, Len(wire))
      /\ tx' = tx /\ queued' = queued /\ delivered' = delivered /\ cut' = cut
  BY DEF Receive
<1>3. /\ WellFormed(Confirmed) /\ Content(Confirmed) = Content(rx) /\ Graded(Confirmed)
      /\ Confirmed.start = Confirmed.end => Confirmed.start = 0
  BY <1>1, ConfirmedIs
<1>4. wire \in Seq(Bytes) /\ k \in 0 .. Len(wire) /\ k \in Nat /\ k >= 1
  <2>1. wire \in Seq(Bytes)
    BY <1>1 DEF Flow
  <2> QED
    BY <1>2, <2>1, SizeFacts
<1> DEFINE c == Confirmed
<1> HIDE DEF c
<1>5. Fits(c, k)
  <2>1. Available(c) \in Nat /\ MaxRead \in Nat
    BY <1>3, SizeIs, SizeFacts DEF c
  <2> QED
    BY <1>2, <2>1 DEF Fits, c
<1> DEFINE bytes == SubSeq(wire, 1, k)
<1>6. bytes \in Seq(Nat) /\ Len(bytes) = k
  BY <1>4, CutAt, BytesAreNumbers
<1> HIDE DEF bytes
<1>7. /\ WellFormed(Written(c, bytes, k)) /\ Content(Written(c, bytes, k)) = Content(c) \o bytes
      /\ Written(c, bytes, k).start = c.start /\ Written(c, bytes, k).end = c.end + k
      /\ Written(c, bytes, k).max = c.max
  <2>1. WellFormed(c)
    BY <1>3 DEF c
  <2> QED
    BY <1>4, <1>5, <1>6, <2>1, WrittenContent
<1>8. /\ WellFormed(rx') /\ Content(rx') = Content(rx) \o SubSeq(wire, 1, k)
      /\ rx'.start = c.start /\ rx'.end = c.end + k /\ rx'.max = c.max
  BY <1>2, <1>3, <1>7 DEF c, bytes
<1>9. Graded(rx')
  BY <1>3, <1>8 DEF Graded, c
<1>10. rx'.start # rx'.end
  <2>1. c.start \in Nat /\ c.end \in Nat /\ c.start <= c.end
    BY <1>3 DEF WellFormed, Buffers, c
  <2> QED
    BY <1>4, <1>8, <2>1
<1>11. Flow(Content(rx) \o SubSeq(wire, 1, k), SubSeq(wire, k + 1, Len(wire)), Content(tx),
            queued, delivered)
  BY <1>1, <1>4, FlowReceive
<1>12. Flow(Content(rx'), wire', Content(tx'), queued', delivered')
  BY <1>2, <1>8, <1>11
<1>13. Sound'
  BY <1>1, <1>2, <1>8, <1>9, <1>10 DEF Sound
<1> QED
  BY <1>12, <1>13 DEF IInv

\* The end of the receive loop moves no bytes.
LEMMA ReceiveEndStep ==
  ASSUME IInv, ReceiveEnd
  PROVE  IInv'
<1>1. ~cut /\ Sound /\ Flow(Content(rx), wire, Content(tx), queued, delivered)
  BY DEF ReceiveEnd, IInv
<1>2. /\ rx' = Confirmed
      /\ tx' = tx /\ wire' = wire /\ queued' = queued /\ delivered' = delivered /\ cut' = cut
  BY DEF ReceiveEnd
<1>3. /\ WellFormed(Confirmed) /\ Content(Confirmed) = Content(rx) /\ Graded(Confirmed)
      /\ Confirmed.start = Confirmed.end => Confirmed.start = 0
  BY <1>1, ConfirmedIs
<1>4. Flow(Content(rx'), wire', Content(tx'), queued', delivered')
  BY <1>1, <1>2, <1>3
<1>5. Sound'
  BY <1>1, <1>2, <1>3 DEF Sound
<1> QED
  BY <1>4, <1>5 DEF IInv

\* Dispatching a frame delivers the first message that was not delivered.
LEMMA DispatchStep ==
  ASSUME IInv, Dispatch
  PROVE  IInv'
<1>1. ~cut /\ Sound /\ Flow(Content(rx), wire, Content(tx), queued, delivered)
  BY DEF Dispatch, IInv
<1> DEFINE data == Content(rx)
           plain == Masked(rx, HeaderSize(data), N(data), MaskingKey(data))
<1>2. /\ Complete(data)
      /\ delivered' = Append(delivered,
                             SubSeq(Content(plain), HeaderSize(data) + 1, FrameSize(data)))
      /\ rx' = Consumed(plain, FrameSize(data))
      /\ tx' = tx /\ wire' = wire /\ queued' = queued /\ cut' = cut
  BY DEF Dispatch
<1>3. WellFormed(rx)
  BY <1>1 DEF Sound
<1>4. Len(data) >= 1 /\ Len(data) \in Nat
  BY <1>2, <1>3, ContentIs DEF Complete
<1> DEFINE p == queued[Len(delivered) + 1]
           f == FrameLen(Len(p))
<1>5. /\ Len(delivered) < Len(queued) /\ p \in Payloads /\ Len(data) >= f
      /\ HeaderSize(data) = Len(HeaderOf(p)) /\ N(data) = Len(p)
      /\ MaskingKey(data) = NewKey /\ FrameSize(data) = f
      /\ \A i \in 1 .. f : data[i] = Encoded(p)[i]
  BY <1>1, <1>2, <1>4, FlowHead
<1> HIDE DEF p
<1>6. f \in Nat /\ f >= 6
  <2>1. Len(HeaderOf(p)) \in 6 .. 14 /\ f = Len(HeaderOf(p)) + Len(p)
    BY <1>5, HeaderIs
  <2>2. Len(p) \in Nat
    BY <1>5, PayloadBytes
  <2> HIDE DEF f
  <2>3. PICK h \in Nat, n \in Nat : h = Len(HeaderOf(p)) /\ n = Len(p)
    BY <2>1, <2>2
  <2>4. f = h + n /\ h >= 6
    BY <2>1, <2>3
  <2> QED
    BY <2>4
<1>7. plain = Masked(rx, Len(HeaderOf(p)), Len(p), NewKey)
  BY <1>5
<1> HIDE DEF plain, f
<1>8. /\ WellFormed(plain) /\ plain.max = rx.max /\ Len(Content(plain)) = Len(data)
      /\ SubSeq(Content(plain), Len(HeaderOf(p)) + 1, f) = p
      /\ SubSeq(Content(plain), f + 1, Len(Content(plain))) = SubSeq(data, f + 1, Len(data))
  <2>1. FrameLen(Len(p)) <= Len(data)
    BY <1>4, <1>5, <1>6 DEF f
  <2> QED
    BY <1>3, <1>5, <1>7, <2>1, DispatchBuffer DEF f
<1>9. f \in 1 .. Size(plain)
  <2>1. Size(plain) = Len(Content(plain)) /\ Size(plain) \in Nat
    BY <1>8, ContentIs
  <2> HIDE DEF data
  <2> QED
    BY <1>4, <1>5, <1>6, <1>8, <2>1
<1>10. /\ WellFormed(rx') /\ rx'.max = rx.max
       /\ Content(rx') = SubSeq(data, f + 1, Len(data))
       /\ rx'.start = rx'.end => rx'.start = 0
  BY <1>2, <1>5, <1>8, <1>9, ConsumedContent
<1>11. delivered' = Append(delivered, p)
  BY <1>2, <1>5, <1>8
<1>12. Flow(SubSeq(data, f + 1, Len(data)), wire, Content(tx), queued, Append(delivered, p))
  <2>1. FrameLen(Len(p)) <= Len(data)
    BY <1>4, <1>5, <1>6 DEF f
  <2> QED
    BY <1>1, <1>5, <2>1, FlowDeliver DEF p, f
<1>13. Flow(Content(rx'), wire', Content(tx'), queued', delivered')
  BY <1>2, <1>10, <1>11, <1>12
<1>14. Graded(rx')
  BY <1>1, <1>10 DEF Graded, Sound
<1>15. Sound'
  BY <1>1, <1>2, <1>10, <1>14 DEF Sound
<1> QED
  BY <1>13, <1>15 DEF IInv

\* Every step keeps the invariant.
LEMMA NextIInv == IInv /\ [Next]_vars => IInv'
<1> SUFFICES ASSUME IInv, [Next]_vars PROVE IInv'
  OBVIOUS
<1>1. CASE \E n \in Sizes : SendData(n)
  BY <1>1, SendStep
<1>2. CASE \E k \in 1 .. Window : SendSome(k)
  BY <1>2, SomeStep
<1>3. CASE \E k \in 1 .. MaxRead : Receive(k)
  BY <1>3, ReceiveStep
<1>4. CASE ReceiveEnd
  BY <1>4, ReceiveEndStep
<1>5. CASE Dispatch
  BY <1>5, DispatchStep
<1>6. CASE UNCHANGED <<tx, wire, rx, queued, delivered, cut>>
  <2>1. Sound' <=> Sound
    BY <1>6 DEF Sound
  <2>2. Flow(Content(rx), wire, Content(tx), queued, delivered)'
          <=> Flow(Content(rx), wire, Content(tx), queued, delivered)
    BY <1>6
  <2> QED
    BY <1>6, <2>1, <2>2 DEF IInv
<1> QED
  BY <1>1, <1>2, <1>3, <1>4, <1>5, <1>6 DEF Next, DispatchEnd, vars

\* The invariant holds in every state of a behaviour.
LEMMA SpecIInv == Spec => []IInv
<1>1. Init /\ [][Next]_vars => []IInv
  BY InitIInv, NextIInv, PTL
<1> QED
  BY <1>1, PTL DEF Spec

\* receiveMessage() gets the payloads of sendData() in order and unmasked
\* (easywsclient.cpp:424, :691), wherever they lay in the two buffers and
\* however often these grew or were compacted, as long as no frame was cut.
THEOREM PlainCorrect == Spec => []DeliveredPlain
<1>1. IInv => DeliveredPlain
  <2> SUFFICES ASSUME IInv, ~cut PROVE IsPrefix(delivered, queued)
    BY DEF DeliveredPlain
  <2>1. /\ queued \in Seq(Payloads) /\ delivered \in Seq(Payloads)
        /\ Len(delivered) <= Len(queued)
        /\ \A i \in 1 .. Len(delivered) : delivered[i] = queued[i]
    BY DEF IInv, Flow
  <2> DEFINE n == Len(delivered)   a == SubSeq(delivered, 1, n)   b == SubSeq(queued, 1, n)
  <2>2. a \in Seq(Payloads) /\ Len(a) = n /\ \A i \in 1 .. n : a[i] = delivered[i]
    BY <2>1
  <2>3. b \in Seq(Payloads) /\ Len(b) = n /\ \A i \in 1 .. n : b[i] = queued[i]
    BY <2>1
  <2> HIDE DEF a, b
  <2>4. a = b
    BY <2>1, <2>2, <2>3, SeqEqual
  <2> QED
    BY <2>1, <2>4 DEF IsPrefix, a, b
<1> QED
  BY <1>1, SpecIInv, PTL

\* The receive loop is refused room while no frame is complete
\* (easywsclient.cpp:283-287) only if the frame it waits for comes within two
\* reads of the limit of the buffer.
THEOREM StallCorrect == Spec => []StalledOnlyByLargeFrame
<1>1. IInv => StalledOnlyByLargeFrame
  <2> SUFFICES ASSUME IInv, ~Fits(Confirmed, MaxRead), ~Complete(Content(rx)), ~cut
               PROVE  /\ Len(delivered) < Len(queued)
                      /\ Large(queued[Len(delivered) + 1])
    BY DEF StalledOnlyByLargeFrame
  <2>1. Sound /\ Flow(Content(rx), wire, Content(tx), queued, delivered)
    BY DEF IInv
  <2>2. Len(Content(rx)) >= 1 /\ Len(Content(rx)) + 2 * MaxRead > MaxGrow
    BY <2>1, ConfirmedIs
  <2> DEFINE p == queued[Len(delivered) + 1]
  <2>3. /\ Len(delivered) < Len(queued) /\ p \in Payloads
        /\ Complete(Content(rx)) <=> Len(Content(rx)) >= FrameLen(Len(p))
    BY <2>1, <2>2, FlowHead
  <2> HIDE DEF p
  <2>4. FrameLen(Len(p)) \in Nat /\ Len(Content(rx)) \in Nat /\ MaxRead \in Nat /\ MaxGrow \in Nat
    <3>1. FrameLen(Len(p)) \in Nat
      BY <2>3, HeaderIs
    <3>2. WellFormed(rx)
      BY <2>1 DEF Sound
    <3>3. Len(Content(rx)) \in Nat
      BY <3>2, ContentIs
    <3>4. MaxRead \in Nat /\ MaxGrow \in Nat
      BY SizeFacts
    <3> QED
      BY <3>1, <3>3, <3>4
  <2>5. FrameLen(Len(p)) > Len(Content(rx))
    BY <2>3, <2>4
  <2>6. Large(p)
    BY <2>2, <2>4, <2>5 DEF Large
  <2> QED
    BY <2>3, <2>6 DEF p
<1> QED
  BY <1>1, SpecIInv, PTL
=============================================================================
