----------------------------- MODULE SPSCIndex -----------------------------
(***************************************************************************)
(* The index arithmetic of spsc::SPSC (SPSC.h): how much a ring of         *)
(* mCapacity bytes holds, how much may still be written to it, which byte  *)
(* of the ring a copy touches, and where an index moves.  An index may     *)
(* rest on mCapacity itself: read() and write() only wrap when a copy      *)
(* does not fit above the index.                                           *)
(***************************************************************************)
EXTENDS Integers

CONSTANT mCapacity   \* bytes of the ring, the header excluded

\* init() refuses a mapping that leaves no room for the ring (SPSC.h:37).
ASSUME CapacityAssumption == mCapacity \in Nat \ {0}

Index == 0 .. mCapacity
Cell  == 0 .. (mCapacity - 1)

\* A mutant: forget that the writer's index may have wrapped.
CalcSize_NoWrap(readIndex, writeIndex) ==
  IF writeIndex >= readIndex THEN writeIndex - readIndex ELSE 0

\* Bytes waiting between the two indexes.
CalcSize(readIndex, writeIndex) ==
  IF writeIndex >= readIndex
  THEN writeIndex - readIndex
  ELSE writeIndex + mCapacity - readIndex

\* SPSC::capacity(): the room a writer is told of.  One byte stays unused so
\* that a full ring and an empty one have different indexes.
Room(size) ==
  LET avail == mCapacity - size
  IN  IF avail <= 1 THEN 0 ELSE avail - 1

\* The smaller of what is asked for and what there is.
Clip(asked, available) == IF available < asked THEN available ELSE asked

\* The cell that byte k of a copy starting at index touches: first up to the
\* top of the ring, then from its base.
CellAt(index, k) ==
  IF k < mCapacity - index THEN index + k ELSE k - (mCapacity - index)

\* A mutant: start again at the base although the copy stopped above it.
Advance_Reset(index, len) == IF len <= mCapacity - index THEN index + len ELSE 0

\* A mutant: the index is never wrapped.
Advance_NoWrap(index, len) == index + len

\* The index stored after len bytes were copied.
Advance(index, len) ==
  IF len <= mCapacity - index THEN index + len ELSE len - (mCapacity - index)
=============================================================================
