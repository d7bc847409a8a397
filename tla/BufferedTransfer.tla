-------------------------- MODULE BufferedTransfer --------------------------
(***************************************************************************)
(* One direction of an open connection with the buffers as they are: the   *)
(* application calls sendData(), which puts a header and a payload into    *)
(* the transmit buffer and masks the payload there; poll() hands the       *)
(* buffer to the socket; poll() on the other side reads up to MaxRead      *)
(* bytes at a time into the receive buffer and dispatches whole frames,    *)
(* taking the mask off in place.  Both buffers grow up to a limit and      *)
(* refuse beyond it, which sendData() does not look at.                    *)
(*                                                                         *)
(* Masking is bitwise: payload bytes have their bits below KeyBit, the     *)
(* four key bytes one bit each from KeyBit on, so that XOR with a key byte *)
(* turns one bit and no two maskings cancel by accident.  A behaviour ends *)
(* where a frame was cut: the stream has no frame structure from there on. *)
(***************************************************************************)
EXTENDS GrowingBuffer, FrameHeader, FastXOR, SequencesExt

CONSTANTS
  DefaultLen,    \* DEFAULT_TRANSMIT_BUFFER_SIZE, DEFAULT_RECEIVE_BUFFER_SIZE
  MaxGrow,       \* DEFAULT_MAXIMUM_BUFFER_SIZE
  MaxRead,       \* DEFAULT_MAX_READ_SIZE
  Window,        \* bytes that TCP holds between the two sides
  Sizes,         \* sizes of messages
  MaxMessages,   \* bound on the messages of a behaviour
  Payload(_, _)  \* the bytes of the m-th message, of n bytes

KeyBit == Base \div 16

\* The limit is the default size times a power of two, a number without an odd
\* divisor but 1: 2^15 in the code, from 16 KB to 512 MB.  A read is 4 KB.
Growth == MaxGrow \div DefaultLen

ASSUME TransferAssumption ==
  /\ DefaultLen \in Nat \ {0} /\ MaxRead \in 1 .. DefaultLen
  /\ Growth \in Nat \ {0} /\ MaxGrow = DefaultLen * Growth
  /\ \A d, r \in 1 .. Growth : d * r = Growth => d = 1 \/ d % 2 = 0
  /\ Window \in Nat \ {0} /\ MaxMessages \in Nat
  /\ \A n \in Sizes : n \in Nat /\ 2 * MaxGrow + n + 14 < Modulus
  /\ 3 * MaxGrow < Modulus /\ Modulus = Word
  /\ Base >= 16
  /\ \A m \in 1 .. MaxMessages, n \in Sizes : Payload(m, n) \in [1 .. n -> 0 .. KeyBit - 1]

VARIABLES
  tx,         \* mTransmitBuffer of the sender
  wire,       \* the bytes under way
  rx,         \* mReceiveBuffer of the receiver
  at,         \* the receiver's poll(): "receive" or "dispatch"
  queued,     \* history: payloads given to sendData()
  delivered,  \* history: payloads given to receiveMessage()
  cut         \* history: addBuffer() has refused a part of a frame

vars == <<tx, wire, rx, at, queued, delivered, cut>>

Init ==
  /\ tx = NewBuffer(DefaultLen, MaxGrow) /\ rx = NewBuffer(DefaultLen, MaxGrow)
  /\ wire = << >> /\ at = "receive"
  /\ queued = << >> /\ delivered = << >> /\ cut = FALSE
-----------------------------------------------------------------------------
\* getMaskingKey().
NewKey == <<KeyBit, 2 * KeyBit, 4 * KeyBit, 8 * KeyBit>>

\* byte ^ key for a key of one bit.
Xor(byte, key) == IF (byte \div key) % 2 = 1 THEN byte - key ELSE byte + key

\* fastXOR() over len bytes from an offset of getData() on.  Allocations begin
\* at multiples of 8, so a location tells the alignment.
Masked(b, offset, len, key) ==
  LET at0 == b.start + offset
  IN  [b EXCEPT !.mem =
         [i \in DOMAIN b.mem |->
            IF i \in at0 .. at0 + len - 1
            THEN Xor(b.mem[i], key[KeyByte(at0, len, i - at0) + 1])
            ELSE b.mem[i]]]

NextPayload(n) == Payload(Len(queued) + 1, n)

\* sendData(TEXT_FRAME, payload): what addBuffer() returns is not looked at, and
\* the mask goes over the last n bytes of the buffer, whatever they are.
SendData(n) ==
  LET header   == Header(1, n, TRUE, NewKey)
      prepared == Prepared(tx, Len(header), "ascending")
      headed   == Added(tx, header, Len(header), "ascending")
      filled   == Added(headed, NextPayload(n), n, "ascending")
  IN  /\ ~cut /\ Len(queued) < MaxMessages
      /\ tx' = Masked(filled, U(Size(filled) - n), n, NewKey)
      /\ cut' = ~(Fits(prepared, Len(header)) /\ Fits(Prepared(headed, n, "ascending"), n))
      /\ queued' = Append(queued, NextPayload(n))
      /\ UNCHANGED <<wire, rx, at, delivered>>

\* One send() of poll(): the socket takes as much as it likes.
SendSome(k) ==
  /\ ~cut
  /\ k \in 1 .. Size(tx) /\ Len(wire) + k <= Window
  /\ wire' = wire \o SubSeq(Content(tx), 1, k)
  /\ tx' = Consumed(tx, k)
  /\ UNCHANGED <<rx, at, queued, delivered, cut>>

\* confirmCapacity(MaxRead) at the top of the receive loop.
Confirmed == Prepared(rx, MaxRead, "ascending")

\* A receive() that returns k bytes.
Receive(k) ==
  /\ ~cut /\ at = "receive"
  /\ Fits(Confirmed, MaxRead)
  /\ k \in 1 .. MaxRead /\ k <= Len(wire)
  /\ rx' = Written(Confirmed, SubSeq(wire, 1, k), k)
  /\ wire' = SubSeq(wire, k + 1, Len(wire))
  /\ UNCHANGED <<tx, at, queued, delivered, cut>>

\* The loop ends: no room, or nothing to read.
ReceiveEnd ==
  /\ ~cut /\ at = "receive"
  /\ ~Fits(Confirmed, MaxRead) \/ wire = << >>
  /\ rx' = Confirmed
  /\ at' = "dispatch"
  /\ UNCHANGED <<tx, wire, queued, delivered, cut>>

\* A whole frame: the mask is taken off in the buffer, the callback gets the
\* payload, the frame is consumed.  (Values bound by \E are evaluated once.)
Dispatch ==
  /\ ~cut /\ at = "dispatch"
  /\ \E data \in {Content(rx)} :
       /\ Complete(data)
       /\ \E plain \in {Masked(rx, HeaderSize(data), N(data), MaskingKey(data))} :
            /\ delivered' = Append(delivered,
                                  SubSeq(Content(plain), HeaderSize(data) + 1, FrameSize(data)))
            /\ rx' = Consumed(plain, FrameSize(data))
  /\ UNCHANGED <<tx, wire, at, queued, cut>>

DispatchEnd ==
  /\ ~cut /\ at = "dispatch"
  /\ ~Complete(Content(rx))
  /\ at' = "receive"
  /\ UNCHANGED <<tx, wire, rx, queued, delivered, cut>>

Next ==
  \/ \E n \in Sizes : SendData(n)
  \/ \E k \in 1 .. Window : SendSome(k)
  \/ \E k \in 1 .. MaxRead : Receive(k)
  \/ ReceiveEnd
  \/ Dispatch
  \/ DispatchEnd

\* Both applications keep calling poll().
Fairness ==
  /\ WF_vars(\E k \in 1 .. Window : SendSome(k))
  /\ WF_vars(\E k \in 1 .. MaxRead : Receive(k))
  /\ WF_vars(ReceiveEnd) /\ WF_vars(Dispatch) /\ WF_vars(DispatchEnd)

Spec == Init /\ [][Next]_vars /\ Fairness
-----------------------------------------------------------------------------
FrameLen(n) == ExpectedHeaderLen(n, TRUE) + n

\* A frame the receive buffer is too small for (see StalledOnlyByLargeFrame).
Large(payload) == FrameLen(Len(payload)) + 2 * MaxRead > MaxGrow

\* receiveMessage() gets the payloads of sendData() unmasked and in order,
\* though each byte was masked at one address and unmasked at another, in
\* buffers that grew and moved in between (easywsclient.cpp:424, :691).
DeliveredPlain == ~cut => IsPrefix(delivered, queued)

\* The receive loop is refused its MaxRead bytes while no frame is complete
\* (easywsclient.cpp:283-287), after which nothing can go on, only if the frame
\* it waits for comes within two reads of the limit.
StalledOnlyByLargeFrame ==
  ~Fits(Confirmed, MaxRead) /\ ~Complete(Content(rx)) /\ ~cut =>
    Len(delivered) < Len(queued) /\ Large(queued[Len(delivered) + 1])

\* Every message is delivered when both sides keep polling, unless a frame up
\* to it is too large for the receive buffer or was cut.
FramesArrive ==
  \A i \in 1 .. MaxMessages :
    (Len(queued) >= i /\ \A j \in 1 .. i : ~Large(queued[j]))
      ~> (Len(delivered) >= i \/ cut)
=============================================================================
