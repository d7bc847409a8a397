------------------------------ MODULE ByteFifo ------------------------------
(***************************************************************************)
(* What a one-way byte transport promises, whatever carries it: bytes come *)
(* out in the order they went in, each once, and at most Limit of them are *)
(* on the way.  Bytes are named by their position in the stream.           *)
(***************************************************************************)
EXTENDS Integers, Sequences

CONSTANTS
  Limit,         \* most bytes accepted and not yet handed over
  StreamLength   \* bytes there are to send

VARIABLES
  queue,         \* bytes accepted and not yet handed over
  delivered      \* bytes handed over

fifoVars == <<queue, delivered>>

Accepted == Len(delivered) + Len(queue)

Init == queue = <<>> /\ delivered = <<>>

\* Accept the next n bytes of the stream.
Put(n) ==
  /\ Len(queue) + n <= Limit
  /\ Accepted + n <= StreamLength
  /\ queue' = queue \o [i \in 1 .. n |-> Accepted + i]
  /\ UNCHANGED delivered

\* Hand over the n bytes that waited longest.
Get(n) ==
  /\ n <= Len(queue)
  /\ delivered' = delivered \o SubSeq(queue, 1, n)
  /\ queue' = SubSeq(queue, n + 1, Len(queue))

Next == \E n \in 1 .. StreamLength : Put(n) \/ Get(n)

Spec == Init /\ [][Next]_fifoVars
=============================================================================
