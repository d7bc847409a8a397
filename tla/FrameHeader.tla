---------------------------- MODULE FrameHeader ----------------------------
(***************************************************************************)
(* The frame header as sendData() writes it (easywsclient.cpp:616-679) and *)
(* as _dispatchBinary() reads it (:359-412).  Bytes are numbers; the byte  *)
(* values that give a header its shape are constants, 256, 128 and 126 in  *)
(* the code.                                                               *)
(***************************************************************************)
EXTENDS Integers, Sequences

CONSTANTS
  Base,     \* values of a byte, 256
  TopBit,   \* 0x80: the bit of FIN and of MASK
  Short     \* 126: lengths below it are written in one byte

ASSUME HeaderAssumption ==
  /\ Base \in Nat /\ TopBit \in Nat /\ Short \in Nat \ {0}
  /\ Short + 1 < TopBit /\ 2 * TopBit <= Base

Quarter == Base * Base             \* 2^16
Word == Quarter * Quarter          \* 2^32
-----------------------------------------------------------------------------
(* Writing.                                                                *)

\* (message_size >> 8) & 0xff, (message_size >> 0) & 0xff.
TwoBytes(n) == <<(n \div Base) % Base, n % Base>>

\* (message_size >> 56) & 0xff ... (message_size >> 0) & 0xff.
EightBytes(n) ==
  LET a == n \div Base   b == a \div Base   c == b \div Base   d == c \div Base
      e == d \div Base   f == e \div Base   g == f \div Base
  IN  <<g % Base, f % Base, e % Base, d % Base, c % Base, b % Base, a % Base, n % Base>>

\* header[1] and the bytes up to the masking key.
LengthBytes(n, bit) ==
  IF n < Short THEN <<n + bit>>
  ELSE IF n < Quarter THEN <<Short + bit>> \o TwoBytes(n)
  ELSE <<Short + 1 + bit>> \o EightBytes(n)

\* The header of a message of n bytes.
Header(type, n, useMask, key) ==
  <<TopBit + type>> \o LengthBytes(n, IF useMask THEN TopBit ELSE 0)
                   \o (IF useMask THEN key ELSE << >>)

\* What the assertion compares its length with (:616, :679).
ExpectedHeaderLen(n, useMask) ==
  2 + (IF n >= Short THEN 2 ELSE 0) + (IF n >= Quarter THEN 6 ELSE 0)
    + (IF useMask THEN 4 ELSE 0)
-----------------------------------------------------------------------------
(* Reading: d holds the bytes from the start of a frame on.                *)

Mask(d) == d[2] >= TopBit
N0(d) == d[2] % TopBit

HeaderSize(d) ==
  2 + (IF N0(d) = Short THEN 2 ELSE 0) + (IF N0(d) = Short + 1 THEN 8 ELSE 0)
    + (IF Mask(d) THEN 4 ELSE 0)

TwoByteValue(a, b) == a * Base + b

\* Eight bytes from place i on, the first one the highest.
EightByteValue(d, i) ==
  LET Pair(j) == TwoByteValue(d[i + j], d[i + j + 1])
  IN  ((Pair(0) * Quarter + Pair(2)) * Quarter + Pair(4)) * Quarter + Pair(6)

N(d) == IF N0(d) < Short THEN N0(d)
        ELSE IF N0(d) = Short THEN TwoByteValue(d[3], d[4])
        ELSE EightByteValue(d, 3)

\* The masking key, read where the header ends.
MaskingKey(d) == SubSeq(d, HeaderSize(d) - 3, HeaderSize(d))

\* uint32_t frameSize = ws.header_size + uint32_t(ws.N).
FrameSize(d) == (HeaderSize(d) + (N(d) % Word)) % Word

\* A mutant: waits for a byte behind the frame.
Complete_OneMore(d) == Len(d) >= 2 /\ Len(d) >= HeaderSize(d) /\ Len(d) > FrameSize(d)

\* What a dispatch waits for.
Complete(d) == Len(d) >= 2 /\ Len(d) >= HeaderSize(d) /\ Len(d) >= FrameSize(d)
=============================================================================
