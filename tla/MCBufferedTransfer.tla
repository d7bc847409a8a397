------------------------- MODULE MCBufferedTransfer -------------------------
(* The payloads of BufferedTransfer's messages for model checking.         *)
EXTENDS BufferedTransfer

\* Bytes of three bits that count up, from another value in each message.
CountedPayload(m, n) == [i \in 1 .. n |-> (3 * m + i) % KeyBit]
=============================================================================
