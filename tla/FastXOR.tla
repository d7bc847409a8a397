------------------------------ MODULE FastXOR ------------------------------
(***************************************************************************)
(* fastXOR() (FastXOR.cpp) as the function that gives, for byte i of a     *)
(* block that begins at an address, the index of the key byte it is XORed  *)
(* with.  WebSocket masking is right iff that index is i % 4, wherever the *)
(* block lies: sender and receiver have it at different addresses.         *)
(***************************************************************************)
EXTENDS Integers

\* xorBytes(): key[i & 3].  It returns Phase of the length.
Phase(i) == i % 4

\* How many bytes come before the first address that is a multiple of 8, at
\* most the whole block.
SkipBytes(address, dataLen) ==
  LET over == address % 8
  IN  IF over = 0 THEN 0
      ELSE IF 8 - over > dataLen THEN dataLen ELSE 8 - over

\* A mutant: the key is not turned.
AlignKey_NotTurned(skip, j) == j

\* alignKey[j], the key turned by the phase that the head ended on.
AlignKey(skip, j) == (Phase(skip) + j) % 4

\* The 64-bit mask is alignKey twice; its byte o, on a little-endian machine.
MaskByte(skip, o) == AlignKey(skip, o % 4)

BlockCount(address, dataLen) == (dataLen - SkipBytes(address, dataLen)) \div 8

\* Where the rest begins that is no whole block of 8.
RestAt(address, dataLen) ==
  SkipBytes(address, dataLen) + 8 * BlockCount(address, dataLen)

\* The key byte that fastXOR() takes for byte i.
KeyByte(address, dataLen, i) ==
  LET skip == SkipBytes(address, dataLen)
      rest == RestAt(address, dataLen)
  IN  IF i < skip THEN Phase(i)
      ELSE IF i < rest THEN MaskByte(skip, (i - skip) % 8)
      ELSE AlignKey(skip, Phase(i - rest))
=============================================================================
