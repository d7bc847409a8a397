------------------------- MODULE ClientServer_proofs -------------------------
(***************************************************************************)
(* Proofs about a client's and a server's end of one connection, for every *)
(* window, number and length of messages.  First lemmas about the streams  *)
(* of units between two ends: how many frames a stream holds, and what     *)
(* keeps it a sequence of whole frames whose payloads are the messages the *)
(* sender's application gave.  Then the inductive invariant of             *)
(* ClientServer, and what follows from it.                                 *)
(***************************************************************************)
EXTENDS ClientServer, SequenceTheorems, FunctionTheorems, FiniteSetTheorems, TLAPS

\* The opcodes this code sends, and the lines.
ControlOps == {"PING", "PONG", "CLOSE"}
Op == {"TEXT", "BINARY"} \cup ControlOps

Text ==
  Urls \cup {"Host", "Upgrade", "Connection", "Sec-WebSocket-Key", "Sec-WebSocket-Version",
           EmptyLine, "101", "HConnection", "HSec-WebSocket-Accept", "HServer", "HUpgrade"}

FrameUnit ==
  [kind : {"head"}, op : Op, fin : BOOLEAN, len : Nat]
    \cup [kind : {"data"}, msg : Nat, part : Nat]

Unit == [kind : {"line"}, text : Text] \cup FrameUnit

-----------------------------------------------------------------------------
(* Sequences.                                                              *)

\* The elements of s \o t are those of s and then those of t.
LEMMA ConcatFacts ==
  ASSUME NEW U, NEW s \in Seq(U), NEW t \in Seq(U)
  PROVE  /\ s \o t \in Seq(U) /\ Len(s \o t) = Len(s) + Len(t)
         /\ \A i \in 1 .. Len(s) : (s \o t)[i] = s[i]
         /\ \A i \in 1 .. Len(t) : (s \o t)[Len(s) + i] = t[i]
         /\ \A i \in Len(s) + 1 .. Len(s) + Len(t) : (s \o t)[i] = t[i - Len(s)]
OBVIOUS

\* The length and the elements of a subsequence.
LEMMA SubSeqFacts ==
  ASSUME NEW U, NEW s \in Seq(U), NEW m \in 1 .. Len(s) + 1, NEW n \in m - 1 .. Len(s)
  PROVE  /\ SubSeq(s, m, n) \in Seq(U) /\ Len(SubSeq(s, m, n)) = n - m + 1
         /\ \A i \in 1 .. n - m + 1 : SubSeq(s, m, n)[i] = s[m + i - 1]
OBVIOUS

\* Appending is associative.
LEMMA ConcatAssoc ==
  ASSUME NEW U, NEW s \in Seq(U), NEW t \in Seq(U), NEW u \in Seq(U)
  PROVE  (s \o t) \o u = s \o (t \o u)
OBVIOUS

\* A unit moves from the head of one part of a stream to the end of the part
\* before it.
LEMMA MoveHead ==
  ASSUME NEW U, NEW s \in Seq(U), NEW t \in Seq(U), t # <<>>
  PROVE  Append(s, Head(t)) \o Tail(t) = s \o t
OBVIOUS

\* A stream is its beginning and its rest.
LEMMA SplitSeq ==
  ASSUME NEW U, NEW s \in Seq(U), NEW n \in 0 .. Len(s)
  PROVE  s = SubSeq(s, 1, n) \o SubSeq(s, n + 1, Len(s))
<1> DEFINE a == SubSeq(s, 1, n)
           b == SubSeq(s, n + 1, Len(s))
<1>1. /\ a \in Seq(U) /\ Len(a) = n /\ \A i \in 1 .. n : a[i] = s[i]
      /\ b \in Seq(U) /\ Len(b) = Len(s) - n /\ \A i \in 1 .. Len(s) - n : b[i] = s[n + i]
  OBVIOUS
<1> HIDE DEF a, b
<1>2. /\ a \o b \in Seq(U) /\ Len(a \o b) = Len(a) + Len(b)
      /\ \A i \in 1 .. Len(a) : (a \o b)[i] = a[i]
      /\ \A i \in Len(a) + 1 .. Len(a) + Len(b) : (a \o b)[i] = b[i - Len(a)]
  BY <1>1, ConcatFacts
<1>3. Len(s) \in Nat /\ Len(a) + Len(b) = Len(s)
  BY <1>1
<1>4. \A i \in 1 .. Len(s) : s[i] = (a \o b)[i]
  <2> TAKE i \in 1 .. Len(s)
  <2>1. CASE i <= n
    BY <1>1, <1>2, <1>3, <2>1
  <2>2. CASE i > n
    <3>1. i - n \in 1 .. Len(s) - n /\ n + (i - n) = i
      BY <1>3, <2>2
    <3> QED
      BY <1>1, <1>2, <1>3, <2>2, <3>1
  <2> QED
    BY <1>3, <2>1, <2>2
<1>5. s = a \o b
  BY <1>2, <1>3, <1>4, SeqEqual
<1> QED
  BY <1>5 DEF a, b

\* A prefix that ends within s does not see what is behind s.
LEMMA PrefixOfConcat ==
  ASSUME NEW U, NEW s \in Seq(U), NEW t \in Seq(U), NEW i \in 0 .. Len(s)
  PROVE  SubSeq(s \o t, 1, i) = SubSeq(s, 1, i)
OBVIOUS

\* A prefix that ends behind s is all of s and a prefix of the rest.
LEMMA PrefixBeyond ==
  ASSUME NEW U, NEW s \in Seq(U), NEW t \in Seq(U), NEW i \in 0 .. Len(t)
  PROVE  SubSeq(s \o t, 1, Len(s) + i) = s \o SubSeq(t, 1, i)
OBVIOUS

\* A prefix of a prefix is one of the whole.
LEMMA PrefixOfPrefix ==
  ASSUME NEW U, NEW s \in Seq(U), NEW n \in 0 .. Len(s), NEW i \in 0 .. n
  PROVE  SubSeq(SubSeq(s, 1, n), 1, i) = SubSeq(s, 1, i)
OBVIOUS
-----------------------------------------------------------------------------
(* How many frames of a kind a stream holds.                               *)

\* The places of the frames that Frames() counts.
Places(s, ops) == {i \in 1 .. Len(s) : s[i].kind = "head" /\ s[i].op \in ops}

\* Frames counts the headers with one of the given opcodes, a finite number.
LEMMA FramesPlaces ==
  ASSUME NEW s \in Seq(Unit), NEW ops
  PROVE  /\ Frames(s, ops) = Cardinality(Places(s, ops))
         /\ IsFiniteSet(Places(s, ops)) /\ Frames(s, ops) \in Nat
<1>1. DOMAIN s = 1 .. Len(s) /\ Len(s) \in Nat
  OBVIOUS
<1>2. Frames(s, ops) = Cardinality(Places(s, ops))
  BY <1>1 DEF Frames, Places
<1>3. IsFiniteSet(1 .. Len(s)) /\ Places(s, ops) \subseteq 1 .. Len(s)
  BY <1>1, FS_Interval DEF Places
<1>4. IsFiniteSet(Places(s, ops))
  BY <1>3, FS_Subset
<1> QED
  BY <1>2, <1>4, FS_CardinalityType

\* A stream without such a header has no such frame.
LEMMA NoFrames ==
  ASSUME NEW s \in Seq(Unit), NEW ops,
         \A i \in 1 .. Len(s) : ~(s[i].kind = "head" /\ s[i].op \in ops)
  PROVE  Frames(s, ops) = 0
<1>1. Places(s, ops) = {}
  BY DEF Places
<1> QED
  BY <1>1, FramesPlaces, FS_EmptySet

\* Frames are counted part by part.
LEMMA FramesConcat ==
  ASSUME NEW s \in Seq(Unit), NEW t \in Seq(Unit), NEW ops
  PROVE  Frames(s \o t, ops) = Frames(s, ops) + Frames(t, ops)
<1> DEFINE A == Places(s, ops)
           B == Places(t, ops)
           C == {i \in Len(s) + 1 .. Len(s) + Len(t) :
                   t[i - Len(s)].kind = "head" /\ t[i - Len(s)].op \in ops}
           f == [i \in B |-> Len(s) + i]
<1>1. Places(s \o t, ops) = A \cup C /\ A \cap C = {}
  <2>1. \A i : i \in Places(s \o t, ops) <=> i \in A \/ i \in C
    BY ConcatFacts DEF Places
  <2>2. A \cap C = {}
    BY DEF Places
  <2> QED
    BY <2>1, <2>2
<1>2. f \in Bijection(B, C)
  <2>1. f \in [B -> C]
    BY DEF Places
  <2>2. \A i, j \in B : f[i] = f[j] => i = j
    BY DEF Places
  <2>3. \A c \in C : \E i \in B : f[i] = c
    <3> SUFFICES ASSUME NEW c \in C PROVE \E i \in B : f[i] = c
      OBVIOUS
    <3>1. c - Len(s) \in B /\ f[c - Len(s)] = c
      BY DEF Places
    <3> QED
      BY <3>1
  <2> QED
    BY <2>1, <2>2, <2>3, Fun_IsBij
<1>3. IsFiniteSet(A) /\ IsFiniteSet(B)
  BY FramesPlaces
<1>4. IsFiniteSet(C) /\ Cardinality(C) = Cardinality(B)
  BY <1>2, <1>3, FS_Bijection, Fun_ExistsBij DEF ExistsBijection
<1>5. Cardinality(A \cup C) = Cardinality(A) + Cardinality(C) - Cardinality(A \cap C)
  BY <1>3, <1>4, FS_Union
<1>6. Cardinality(A) \in Nat /\ Cardinality(C) \in Nat /\ Cardinality(A \cap C) = 0
  BY <1>1, <1>3, <1>4, FS_CardinalityType, FS_EmptySet
<1> HIDE DEF A, B, C, f
<1>7. s \o t \in Seq(Unit)
  OBVIOUS
<1>8. /\ Frames(s \o t, ops) = Cardinality(A \cup C)
      /\ Frames(s, ops) = Cardinality(A) /\ Frames(t, ops) = Cardinality(B)
  BY <1>1, <1>7, FramesPlaces DEF A, B
<1> QED
  BY <1>4, <1>5, <1>6, <1>8
-----------------------------------------------------------------------------
(* What streams look like.  All of it holds of every beginning of a        *)
(* stream as well, which is what is left of one when a socket is closed.   *)

\* Lines first, then headers, each followed by its payload and nothing else.
Framed(s) ==
  /\ s # <<>> => s[1].kind # "data"
  /\ \A i \in 1 .. Len(s) :
       /\ s[i].kind = "line" /\ i < Len(s) => s[i + 1].kind # "data"
       /\ s[i].kind = "head" =>
            /\ s[i].fin /\ s[i].op \in Op
            /\ \A j \in 1 .. s[i].len : i + j <= Len(s) => s[i + j].kind = "data"
            /\ i + s[i].len < Len(s) => s[i + s[i].len + 1].kind = "head"

\* The number of the message whose header is at i, among those in s.
Number(s, i) == Frames(SubSeq(s, 1, i), MessageOps)

\* The frames carry the messages of q behind the first done ones.
Carries(s, done, q) ==
  \A i \in Places(s, MessageOps) :
    /\ done + Number(s, i) <= Len(q)
    /\ q[done + Number(s, i)].text = (s[i].op = "TEXT")
    /\ Len(q[done + Number(s, i)].body) = s[i].len
    /\ \A j \in 1 .. s[i].len :
         i + j <= Len(s) => s[i + j] = q[done + Number(s, i)].body[j]

\* No frame is cut off, and all messages of q are there.
Whole(s) == \A i \in 1 .. Len(s) : s[i].kind = "head" => i + s[i].len <= Len(s)

Counted(s, done, q) == Len(q) = done + Frames(s, MessageOps)

Complete(s, done, q) == Whole(s) /\ Counted(s, done, q)

\* A line is never behind a frame or a blank line.
LinesFirst(s) ==
  \A i, j \in 1 .. Len(s) :
    i < j /\ s[j].kind = "line" => s[i].kind = "line" /\ s[i].text # EmptyLine

NoLines(s) == \A i \in 1 .. Len(s) : s[i].kind # "line"

\* Exactly the first n units are lines.
StartsWithLines(s, n) ==
  /\ n <= Len(s)
  /\ \A i \in 1 .. Len(s) : s[i].kind = "line" <=> i <= n

\* A close frame is the last of its stream.
ClosesLast(s) == \A i \in 1 .. Len(s) : s[i] = CloseFrame[1] => i = Len(s)

HasClose(s) == \E i \in 1 .. Len(s) : s[i] = CloseFrame[1]
-----------------------------------------------------------------------------
(* Frames.                                                                 *)

\* A payload.
Payload == {b \in Seq(Unit) : \A j \in 1 .. Len(b) : b[j].kind = "data"}

\* What sendData() queues: a header that announces the payload, then the payload.
LEMMA FrameFacts ==
  ASSUME NEW op \in Op, NEW body \in Payload
  PROVE  /\ Frame(op, TRUE, body) \in Seq(Unit) /\ Len(Frame(op, TRUE, body)) = 1 + Len(body)
         /\ Frame(op, TRUE, body)[1] = Header(op, TRUE, Len(body))
         /\ \A j \in 1 .. Len(body) : Frame(op, TRUE, body)[1 + j] = body[j]
<1> DEFINE h == Header(op, TRUE, Len(body))
<1>1. body \in Seq(Unit) /\ Len(body) \in Nat
  BY DEF Payload
<1>2. h \in Unit
  BY <1>1 DEF Header, Unit, FrameUnit
<1> HIDE DEF h
<1>3. <<h>> \in Seq(Unit) /\ Len(<<h>>) = 1 /\ <<h>>[1] = h
  BY <1>2
<1>4. /\ <<h>> \o body \in Seq(Unit) /\ Len(<<h>> \o body) = 1 + Len(body)
      /\ (<<h>> \o body)[1] = h
      /\ \A j \in 1 .. Len(body) : (<<h>> \o body)[1 + j] = body[j]
  BY <1>1, <1>3
<1> QED
  BY <1>4 DEF Frame, h

\* In a frame only the header counts.
LEMMA FrameCount ==
  ASSUME NEW op \in Op, NEW body \in Payload, NEW ops
  PROVE  /\ op \in ops => Places(Frame(op, TRUE, body), ops) = {1}
         /\ op \notin ops => Places(Frame(op, TRUE, body), ops) = {}
         /\ Frames(Frame(op, TRUE, body), ops) = IF op \in ops THEN 1 ELSE 0
<1> DEFINE f == Frame(op, TRUE, body)
<1>a. /\ f \in Seq(Unit) /\ Len(f) = 1 + Len(body) /\ f[1] = Header(op, TRUE, Len(body))
      /\ \A j \in 1 .. Len(body) : f[1 + j] = body[j]
  BY FrameFacts
<1> HIDE DEF f
<1>b. body \in Seq(Unit) /\ \A j \in 1 .. Len(body) : body[j].kind = "data"
  BY DEF Payload
<1>1. /\ f \in Seq(Unit) /\ Len(f) = 1 + Len(body) /\ Len(body) \in Nat
      /\ f[1].kind = "head" /\ f[1].op = op
      /\ \A j \in 1 .. Len(body) : f[1 + j].kind = "data"
  BY <1>a, <1>b DEF Header
<1>2. \A i \in 2 .. Len(f) : f[i].kind = "data"
  <2> TAKE i \in 2 .. Len(f)
  <2>1. i - 1 \in 1 .. Len(body) /\ 1 + (i - 1) = i
    BY <1>1
  <2> QED
    BY <1>1, <2>1
<1>3. \A i \in 1 .. Len(f) : i = 1 \/ i \in 2 .. Len(f)
  BY <1>1
<1>4. op \in ops => Places(f, ops) = {1}
  BY <1>1, <1>2, <1>3 DEF Places
<1>5. op \notin ops => Places(f, ops) = {}
  BY <1>1, <1>2, <1>3 DEF Places
<1>6. Frames(f, ops) = IF op \in ops THEN 1 ELSE 0
  <2>1. Frames(f, ops) = Cardinality(Places(f, ops))
    BY <1>1, FramesPlaces
  <2>2. CASE op \in ops
    BY <1>4, <2>1, <2>2, FS_Singleton
  <2>3. CASE op \notin ops
    BY <1>5, <2>1, <2>3, FS_EmptySet
  <2> QED
    BY <2>2, <2>3
<1> QED
  BY <1>4, <1>5, <1>6 DEF f

\* A frame may be queued behind whole frames.
LEMMA FramedAppend ==
  ASSUME NEW s \in Seq(Unit), Framed(s), Whole(s),
         NEW op \in Op, NEW body \in Payload
  PROVE  Framed(s \o Frame(op, TRUE, body)) /\ Whole(s \o Frame(op, TRUE, body))
<1> DEFINE f == Frame(op, TRUE, body)
           t == s \o f
<1>b. /\ f \in Seq(Unit) /\ Len(f) = 1 + Len(body) /\ f[1] = Header(op, TRUE, Len(body))
      /\ \A j \in 1 .. Len(body) : f[1 + j] = body[j]
  BY FrameFacts
<1> HIDE DEF f
<1>c. body \in Seq(Unit) /\ \A j \in 1 .. Len(body) : body[j].kind = "data"
  BY DEF Payload
<1>1. Len(body) \in Nat /\ \A j \in 1 .. Len(body) : f[1 + j].kind = "data"
  BY <1>b, <1>c
<1>2. /\ f[1].kind = "head" /\ f[1].fin = TRUE /\ f[1].op = op /\ f[1].len = Len(body)
  BY <1>b DEF Header
<1>3. /\ t \in Seq(Unit) /\ Len(t) = Len(s) + 1 + Len(body) /\ Len(s) \in Nat
      /\ \A i \in 1 .. Len(s) : t[i] = s[i]
      /\ t[Len(s) + 1] = f[1]
      /\ \A j \in 1 .. Len(body) : t[Len(s) + 1 + j].kind = "data"
  <2>1. /\ t \in Seq(Unit) /\ Len(t) = Len(s) + Len(f) /\ Len(s) \in Nat
        /\ \A i \in 1 .. Len(s) : t[i] = s[i]
        /\ \A i \in 1 .. Len(f) : t[Len(s) + i] = f[i]
    <3>1. f \in Seq(Unit)
      BY <1>b
    <3> QED
      BY <3>1
  <2> HIDE DEF t
  <2>2. 1 \in 1 .. Len(f) /\ \A j \in 1 .. Len(body) : 1 + j \in 1 .. Len(f)
    BY <1>b, <1>1
  <2>3. \A j \in 1 .. Len(body) : t[Len(s) + 1 + j].kind = "data"
    <3> TAKE j \in 1 .. Len(body)
    <3>1. t[Len(s) + (1 + j)].kind = "data"
      BY <1>1, <2>1, <2>2
    <3>2. Len(s) + (1 + j) = Len(s) + 1 + j
      BY <1>1, <2>1
    <3> QED
      BY <3>1, <3>2
  <2>4. t[Len(s) + 1] = f[1]
    BY <2>1, <2>2
  <2>5. Len(t) = Len(s) + 1 + Len(body)
    <3>1. Len(f) = 1 + Len(body) /\ Len(t) = Len(s) + Len(f) /\ Len(s) \in Nat /\ Len(body) \in Nat
      BY <1>b, <1>1, <2>1
    <3> QED
      BY <3>1
  <2> QED
    BY <2>1, <2>3, <2>4, <2>5
<1> HIDE DEF t
<1>4. \A i \in 1 .. Len(t) : t[i].kind = "head" => i \in 1 .. Len(s) \/ i = Len(s) + 1
  <2> SUFFICES ASSUME NEW i \in 1 .. Len(t), i > Len(s) + 1
               PROVE  t[i].kind = "data"
    BY <1>3
  <2>1. i - Len(s) - 1 \in 1 .. Len(body) /\ Len(s) + 1 + (i - Len(s) - 1) = i
    BY <1>3
  <2> QED
    BY <1>3, <2>1
<1>5. ASSUME NEW i \in 1 .. Len(s), s[i].kind = "head"
      PROVE  /\ s[i].len \in Nat /\ i + s[i].len <= Len(s)
             /\ s[i].fin /\ s[i].op \in Op
             /\ \A j \in 1 .. s[i].len : t[i + j].kind = "data"
             /\ t[i + s[i].len + 1].kind = "head"
  <2>1. s[i] \in Unit
    BY <1>5
  <2>2. s[i].len \in Nat
    BY <1>5, <2>1 DEF Unit, FrameUnit
  <2>3. i + s[i].len <= Len(s)
    BY <1>5 DEF Whole
  <2>4. \A j \in 1 .. s[i].len : t[i + j].kind = "data"
    <3> TAKE j \in 1 .. s[i].len
    <3>1. i + j \in 1 .. Len(s)
      BY <1>3, <2>2, <2>3
    <3>2. s[i + j].kind = "data"
      BY <1>3, <1>5, <2>2, <3>1 DEF Framed
    <3> QED
      BY <1>3, <3>1, <3>2
  <2>5. CASE i + s[i].len = Len(s)
    BY <1>2, <1>3, <1>5, <2>2, <2>3, <2>4, <2>5 DEF Framed
  <2>6. CASE i + s[i].len < Len(s)
    <3>1. i + s[i].len + 1 \in 1 .. Len(s)
      BY <1>3, <2>2, <2>6
    <3> QED
      BY <1>3, <1>5, <2>2, <2>3, <2>4, <2>6, <3>1 DEF Framed
  <2> QED
    BY <1>3, <2>2, <2>3, <2>5, <2>6
<1>6. ASSUME NEW i \in 1 .. Len(t), t[i].kind = "head"
      PROVE  /\ t[i].fin /\ t[i].op \in Op
             /\ i + t[i].len <= Len(t)
             /\ \A j \in 1 .. t[i].len : i + j <= Len(t) => t[i + j].kind = "data"
             /\ i + t[i].len < Len(t) => t[i + t[i].len + 1].kind = "head"
  <2>1. CASE i \in 1 .. Len(s)
    <3>1. t[i] = s[i]
      BY <1>3, <2>1
    <3>2. s[i].kind = "head"
      BY <1>6, <3>1
    <3> QED
      BY <1>3, <1>5, <2>1, <3>1, <3>2
  <2>2. CASE i = Len(s) + 1
    <3>1. PICK n \in Nat, l \in Nat : n = Len(s) /\ l = Len(body)
      BY <1>1, <1>3
    <3>2. /\ i = n + 1 /\ Len(t) = n + 1 + l
          /\ t[i].fin /\ t[i].op \in Op /\ t[i].len = l
      BY <1>2, <1>3, <2>2, <3>1
    <3>3. \A j \in 1 .. l : t[i + j].kind = "data"
      BY <1>3, <3>1, <3>2
    <3> QED
      BY <3>1, <3>2, <3>3
  <2> QED
    BY <1>4, <1>6, <2>1, <2>2
<1>7. t # <<>> => t[1].kind # "data"
  <2>1. CASE s = <<>>
    <3>1. Len(s) = 0
      BY <2>1
    <3> QED
      BY <1>2, <1>3, <3>1
  <2>2. CASE s # <<>>
    <3>1. 1 \in 1 .. Len(s)
      BY <1>3, <2>2
    <3> QED
      BY <1>3, <2>2, <3>1 DEF Framed
  <2> QED
    BY <2>1, <2>2
<1>8. ASSUME NEW i \in 1 .. Len(t), t[i].kind = "line", i < Len(t)
      PROVE  t[i + 1].kind # "data"
  <2>1. i \in 1 .. Len(s)
    <3> SUFFICES ASSUME i > Len(s) PROVE FALSE
      BY <1>3
    <3>1. CASE i = Len(s) + 1
      BY <1>2, <1>3, <1>8, <3>1
    <3>2. CASE i > Len(s) + 1
      <4>1. i - Len(s) - 1 \in 1 .. Len(body) /\ Len(s) + 1 + (i - Len(s) - 1) = i
        BY <1>3, <3>2
      <4> QED
        BY <1>3, <1>8, <4>1
    <3> QED
      BY <1>3, <3>1, <3>2
  <2>2. CASE i = Len(s)
    BY <1>2, <1>3, <2>2
  <2>3. CASE i < Len(s)
    <3>1. i + 1 \in 1 .. Len(s)
      BY <1>3, <2>1, <2>3
    <3> QED
      BY <1>3, <1>8, <2>1, <2>3, <3>1 DEF Framed
  <2> QED
    BY <1>3, <2>1, <2>2, <2>3
<1>9. Framed(t)
  BY <1>6, <1>7, <1>8 DEF Framed
<1>10. Whole(t)
  BY <1>6 DEF Whole
<1> QED
  BY <1>9, <1>10 DEF t, f
-----------------------------------------------------------------------------
(* Messages and their numbers.                                             *)

Message == [text : BOOLEAN, body : Seq(Unit)]

\* A header that is there has a number from 1 on.
LEMMA NumberFacts ==
  ASSUME NEW s \in Seq(Unit), NEW i \in Places(s, MessageOps)
  PROVE  /\ i \in 1 .. Len(s) /\ SubSeq(s, 1, i) \in Seq(Unit)
         /\ Number(s, i) \in Nat /\ Number(s, i) >= 1
         /\ s[i].op \in {"TEXT", "BINARY"} /\ s[i].len \in Nat
<1>1. i \in 1 .. Len(s) /\ Len(s) \in Nat /\ s[i].kind = "head" /\ s[i].op \in MessageOps
  BY DEF Places
<1>2. s[i] \in Unit
  BY <1>1
<1>3. s[i].op \in {"TEXT", "BINARY"} /\ s[i].len \in Nat
  BY <1>1, <1>2 DEF Unit, FrameUnit, MessageOps, Op, ControlOps
<1> DEFINE u == SubSeq(s, 1, i)
<1>4. u \in Seq(Unit) /\ Len(u) = i /\ u[i] = s[i]
  BY <1>1
<1> HIDE DEF u
<1>5. i \in Places(u, MessageOps)
  BY <1>1, <1>4 DEF Places
<1>6. IsFiniteSet(Places(u, MessageOps)) /\ Frames(u, MessageOps) \in Nat
      /\ Frames(u, MessageOps) = Cardinality(Places(u, MessageOps))
  BY <1>4, FramesPlaces
<1>7. Frames(u, MessageOps) # 0
  BY <1>5, <1>6, FS_EmptySet
<1> QED
  BY <1>1, <1>3, <1>4, <1>6, <1>7 DEF Number, u

\* The frame at the front of a stream is the first of its messages.
LEMMA FirstIsNumberOne ==
  ASSUME NEW s \in Seq(Unit), 1 \in Places(s, MessageOps)
  PROVE  Number(s, 1) = 1
<1> DEFINE u == SubSeq(s, 1, 1)
<1>1. 1 \in 1 .. Len(s) /\ s[1].kind = "head" /\ s[1].op \in MessageOps
  BY DEF Places
<1>2. u \in Seq(Unit) /\ Len(u) = 1 /\ u[1] = s[1]
  BY <1>1
<1> HIDE DEF u
<1>3. Places(u, MessageOps) = {1}
  BY <1>1, <1>2 DEF Places
<1>4. Frames(u, MessageOps) = 1
  BY <1>2, <1>3, FramesPlaces, FS_Singleton
<1> QED
  BY <1>4 DEF Number, u

\* What follows does not change a number, what goes before adds to it.
LEMMA NumberInConcat ==
  ASSUME NEW s \in Seq(Unit), NEW t \in Seq(Unit)
  PROVE  /\ \A i \in 1 .. Len(s) : Number(s \o t, i) = Number(s, i)
         /\ \A i \in 1 .. Len(t) :
              Number(s \o t, Len(s) + i) = Frames(s, MessageOps) + Number(t, i)
<1>1. ASSUME NEW i \in 1 .. Len(s)
      PROVE  Number(s \o t, i) = Number(s, i)
  <2>1. i \in 0 .. Len(s)
    OBVIOUS
  <2> QED
    BY <2>1, PrefixOfConcat DEF Number
<1>2. ASSUME NEW i \in 1 .. Len(t)
      PROVE  Number(s \o t, Len(s) + i) = Frames(s, MessageOps) + Number(t, i)
  <2>1. i \in 0 .. Len(t) /\ SubSeq(t, 1, i) \in Seq(Unit)
    OBVIOUS
  <2>2. SubSeq(s \o t, 1, Len(s) + i) = s \o SubSeq(t, 1, i)
    BY <2>1, PrefixBeyond
  <2>3. Frames(s \o SubSeq(t, 1, i), MessageOps)
          = Frames(s, MessageOps) + Frames(SubSeq(t, 1, i), MessageOps)
    BY <2>1, FramesConcat
  <2> QED
    BY <2>2, <2>3 DEF Number
<1> QED
  BY <1>1, <1>2

\* More messages may be given.
LEMMA CarriesMore ==
  ASSUME NEW s \in Seq(Unit), NEW done \in Nat, NEW q \in Seq(Message), Carries(s, done, q),
         NEW m \in Message
  PROVE  Carries(s, done, Append(q, m))
<1>1. /\ Append(q, m) \in Seq(Message) /\ Len(Append(q, m)) = Len(q) + 1 /\ Len(q) \in Nat
      /\ \A k \in 1 .. Len(q) : Append(q, m)[k] = q[k]
  OBVIOUS
<1> DEFINE q2 == Append(q, m)
<1> HIDE DEF q2
<1>2. /\ Len(q2) = Len(q) + 1 /\ Len(q) \in Nat /\ \A k \in 1 .. Len(q) : q2[k] = q[k]
  BY <1>1 DEF q2
<1>3. Carries(s, done, q2)
  <2> SUFFICES ASSUME NEW i \in Places(s, MessageOps)
               PROVE  /\ done + Number(s, i) <= Len(q2)
                      /\ q2[done + Number(s, i)].text = (s[i].op = "TEXT")
                      /\ Len(q2[done + Number(s, i)].body) = s[i].len
                      /\ \A j \in 1 .. s[i].len :
                           i + j <= Len(s) => s[i + j] = q2[done + Number(s, i)].body[j]
    BY DEF Carries
  <2>1. Number(s, i) \in Nat /\ Number(s, i) >= 1 /\ done + Number(s, i) <= Len(q)
    BY NumberFacts DEF Carries
  <2>2. q2[done + Number(s, i)] = q[done + Number(s, i)] /\ done + Number(s, i) <= Len(q2)
    BY <1>2, <2>1
  <2> QED
    BY <2>2 DEF Carries
<1> QED
  BY <1>3 DEF q2

\* What a frame adds to the messages of its stream.
Given(q, op, body) ==
  IF op \in MessageOps THEN Append(q, [text |-> op = "TEXT", body |-> body]) ELSE q

\* A frame that is no message changes nothing, a message's frame carries it.
LEMMA CarriesAppend ==
  ASSUME NEW s \in Seq(Unit), NEW done \in Nat, NEW q \in Seq(Message),
         Carries(s, done, q), Whole(s), Counted(s, done, q),
         NEW op \in Op, NEW body \in Payload,
         NEW q2 \in Seq(Message),
         q2 = Given(q, op, body)
  PROVE  /\ Carries(s \o Frame(op, TRUE, body), done, q2)
         /\ Counted(s \o Frame(op, TRUE, body), done, q2)
<1> DEFINE f == Frame(op, TRUE, body)
           t == s \o f
           m == [text |-> op = "TEXT", body |-> body]
<1>1. /\ f \in Seq(Unit) /\ Len(f) = 1 + Len(body) /\ f[1] = Header(op, TRUE, Len(body))
      /\ \A j \in 1 .. Len(body) : f[1 + j] = body[j]
  BY FrameFacts
<1>2. /\ op \in MessageOps => Places(f, MessageOps) = {1} /\ Frames(f, MessageOps) = 1
      /\ op \notin MessageOps => Places(f, MessageOps) = {} /\ Frames(f, MessageOps) = 0
  <2>1. /\ op \in MessageOps => Places(f, MessageOps) = {1}
        /\ op \notin MessageOps => Places(f, MessageOps) = {}
        /\ Frames(f, MessageOps) = IF op \in MessageOps THEN 1 ELSE 0
    BY FrameCount
  <2> HIDE DEF f
  <2> QED
    BY <2>1
<1>3. body \in Seq(Unit) /\ Len(body) \in Nat
  BY DEF Payload
<1>4. m \in Message /\ m.body = body /\ m.text = (op = "TEXT")
  BY <1>3 DEF Message
<1> HIDE DEF f, m
<1>5. /\ t \in Seq(Unit) /\ Len(t) = Len(s) + Len(f) /\ Len(s) \in Nat
      /\ \A i \in 1 .. Len(s) : t[i] = s[i]
      /\ \A i \in 1 .. Len(f) : t[Len(s) + i] = f[i]
  <2>1. f \in Seq(Unit)
    BY <1>1
  <2> QED
    BY <2>1
<1>6. /\ \A i \in 1 .. Len(s) : Number(t, i) = Number(s, i)
      /\ \A i \in 1 .. Len(f) : Number(t, Len(s) + i) = Frames(s, MessageOps) + Number(f, i)
  BY <1>1, NumberInConcat
<1>7. Frames(t, MessageOps) = Frames(s, MessageOps) + Frames(f, MessageOps)
  BY <1>1, FramesConcat
<1>8. Frames(s, MessageOps) \in Nat /\ Len(q) \in Nat
  BY FramesPlaces
<1>a. Len(q) = done + Frames(s, MessageOps)
  BY DEF Counted
<1> HIDE DEF t
<1>9. Len(q2) = done + Frames(t, MessageOps)
  <2>1. CASE op \in MessageOps
    <3>1. q2 = Append(q, m)
      BY <2>1 DEF m, Given
    <3>2. Len(q2) = Len(q) + 1
      BY <1>4, <3>1
    <3>3. Frames(f, MessageOps) = 1
      BY <1>2, <2>1
    <3> QED
      BY <1>7, <1>8, <1>a, <3>2, <3>3
  <2>2. CASE op \notin MessageOps
    BY <1>2, <1>7, <1>8, <1>a, <2>2 DEF Given
  <2> QED
    BY <2>1, <2>2
<1>10. Carries(s, done, q2)
  <2>1. CASE op \in MessageOps
    <3>1. q2 = Append(q, m)
      BY <2>1 DEF m, Given
    <3> QED
      BY <1>4, <3>1, CarriesMore
  <2>2. CASE op \notin MessageOps
    BY <2>2 DEF Given
  <2> QED
    BY <2>1, <2>2
<1>11. ASSUME NEW i \in Places(t, MessageOps)
       PROVE  /\ done + Number(t, i) <= Len(q2)
              /\ q2[done + Number(t, i)].text = (t[i].op = "TEXT")
              /\ Len(q2[done + Number(t, i)].body) = t[i].len
              /\ \A j \in 1 .. t[i].len :
                   i + j <= Len(t) => t[i + j] = q2[done + Number(t, i)].body[j]
  <2>1. CASE i \in 1 .. Len(s)
    <3>1. i \in Places(s, MessageOps) /\ t[i] = s[i] /\ Number(t, i) = Number(s, i)
      BY <1>5, <1>6, <1>11, <2>1 DEF Places
    <3>2. i + s[i].len <= Len(s) /\ s[i].len \in Nat
      BY <3>1, NumberFacts DEF Whole, Places
    <3>3. \A j \in 1 .. s[i].len : i + j \in 1 .. Len(s) /\ t[i + j] = s[i + j]
      <4> TAKE j \in 1 .. s[i].len
      <4>1. i + j \in 1 .. Len(s)
        BY <1>5, <2>1, <3>2
      <4> QED
        BY <1>5, <4>1
    <3>4. /\ done + Number(s, i) <= Len(q2)
          /\ q2[done + Number(s, i)].text = (s[i].op = "TEXT")
          /\ Len(q2[done + Number(s, i)].body) = s[i].len
          /\ \A j \in 1 .. s[i].len :
               i + j <= Len(s) => s[i + j] = q2[done + Number(s, i)].body[j]
      BY <1>10, <3>1 DEF Carries
    <3>5. \A j \in 1 .. s[i].len : t[i + j] = q2[done + Number(s, i)].body[j]
      <4> TAKE j \in 1 .. s[i].len
      <4>1. i + j <= Len(s) /\ t[i + j] = s[i + j]
        BY <1>5, <3>3
      <4> QED
        BY <3>4, <4>1
    <3> QED
      BY <3>1, <3>4, <3>5
  <2>2. CASE i \notin 1 .. Len(s)
    <3>1. i - Len(s) \in 1 .. Len(f) /\ Len(s) + (i - Len(s)) = i
      BY <1>1, <1>3, <1>5, <1>11, <2>2 DEF Places
    <3>2. i - Len(s) \in Places(f, MessageOps)
      BY <1>5, <1>11, <3>1 DEF Places
    <3>a. i - Len(s) = 1 /\ op \in MessageOps
      BY <1>2, <3>2
    <3>3. i = Len(s) + 1 /\ op \in MessageOps /\ 1 \in Places(f, MessageOps) /\ 1 \in 1 .. Len(f)
      BY <3>a, <3>1, <3>2
    <3>4. Number(t, i) = Frames(s, MessageOps) + 1 /\ t[i] = f[1]
      BY <1>1, <1>5, <1>6, <3>3, FirstIsNumberOne
    <3>5. q2 = Append(q, m)
      BY <3>3 DEF m, Given
    <3>b. Len(q2) = Len(q) + 1 /\ q2[Len(q) + 1] = m
      BY <1>4, <3>5
    <3>6. done + Number(t, i) = Len(q) + 1 /\ Len(q2) = Len(q) + 1 /\ q2[Len(q) + 1] = m
      BY <1>8, <1>a, <3>4, <3>b
    <3>7. t[i].op = op /\ t[i].len = Len(body)
      BY <1>1, <3>4 DEF Header
    <3>8. \A j \in 1 .. Len(body) : t[i + j] = body[j]
      <4> TAKE j \in 1 .. Len(body)
      <4>1. 1 + j \in 1 .. Len(f) /\ f[1 + j] = body[j]
        BY <1>1, <1>3
      <4>2. t[Len(s) + (1 + j)] = f[1 + j] /\ Len(s) + (1 + j) = i + j
        BY <1>5, <3>3, <4>1
      <4> QED
        BY <4>1, <4>2
    <3> QED
      <4>1. PICK r \in Nat : r = done + Number(t, i) /\ r = Len(q) + 1
        BY <1>8, <3>6
      <4>2. q2[r] = m /\ r <= Len(q2)
        BY <1>8, <3>6, <4>1
      <4>3. t[i].op = op /\ t[i].len = Len(body) /\ m.body = body /\ m.text = (op = "TEXT")
        BY <1>4, <3>7
      <4> QED
        BY <3>8, <4>1, <4>2, <4>3
  <2> QED
    BY <2>1, <2>2
<1>12. Carries(t, done, q2)
  BY <1>11 DEF Carries
<1> QED
  BY <1>9, <1>12 DEF t, f, Counted
-----------------------------------------------------------------------------
(* What is left of a stream when its head is taken, or its end is lost.    *)

\* A beginning of a stream.
LEMMA PrefixKeeps ==
  ASSUME NEW s \in Seq(Unit), NEW n \in 0 .. Len(s), NEW done, NEW q,
         Framed(s), Carries(s, done, q)
  PROVE  Framed(SubSeq(s, 1, n)) /\ Carries(SubSeq(s, 1, n), done, q)
<1> DEFINE t == SubSeq(s, 1, n)
<1>1. /\ t \in Seq(Unit) /\ Len(t) = n /\ Len(s) \in Nat /\ \A i \in 1 .. n : t[i] = s[i]
  OBVIOUS
<1>2. \A i \in 1 .. n : Number(t, i) = Number(s, i)
  <2> TAKE i \in 1 .. n
  <2>1. i \in 0 .. n
    OBVIOUS
  <2> QED
    BY <2>1, PrefixOfPrefix DEF Number
<1> HIDE DEF t
<1>3. Framed(t)
  <2>1. t # <<>> => t[1].kind # "data"
    <3> SUFFICES ASSUME t # <<>> PROVE t[1].kind # "data"
      OBVIOUS
    <3>1. 1 \in 1 .. n
      BY <1>1
    <3>2. s # <<>>
      BY <1>1, <3>1
    <3> QED
      BY <1>1, <3>1, <3>2 DEF Framed
  <2>2. ASSUME NEW i \in 1 .. n, t[i].kind = "line", i < n
        PROVE  t[i + 1].kind # "data"
    <3>1. i \in 1 .. Len(s) /\ i + 1 \in 1 .. n /\ i < Len(s) /\ s[i].kind = "line"
      BY <1>1, <2>2
    <3> QED
      BY <1>1, <3>1 DEF Framed
  <2>3. ASSUME NEW i \in 1 .. n, t[i].kind = "head"
        PROVE  /\ t[i].fin /\ t[i].op \in Op
               /\ \A j \in 1 .. t[i].len : i + j <= n => t[i + j].kind = "data"
               /\ i + t[i].len < n => t[i + t[i].len + 1].kind = "head"
    <3>1. i \in 1 .. Len(s) /\ t[i] = s[i] /\ s[i] \in Unit
      BY <1>1
    <3>2. s[i].len \in Nat
      BY <2>3, <3>1 DEF Unit, FrameUnit
    <3>3. /\ s[i].fin /\ s[i].op \in Op
          /\ \A j \in 1 .. s[i].len : i + j <= Len(s) => s[i + j].kind = "data"
          /\ i + s[i].len < Len(s) => s[i + s[i].len + 1].kind = "head"
      BY <2>3, <3>1 DEF Framed
    <3>4. \A j \in 1 .. s[i].len : i + j <= n => t[i + j].kind = "data"
      <4> TAKE j \in 1 .. s[i].len
      <4> HAVE i + j <= n
      <4>1. i + j \in 1 .. n /\ i + j <= Len(s)
        BY <1>1, <3>2
      <4> QED
        BY <1>1, <3>3, <4>1
    <3>5. i + s[i].len < n => t[i + s[i].len + 1].kind = "head"
      <4> HAVE i + s[i].len < n
      <4>1. i + s[i].len + 1 \in 1 .. n /\ i + s[i].len < Len(s)
        BY <1>1, <3>2
      <4> QED
        BY <1>1, <3>3, <4>1
    <3> QED
      BY <3>1, <3>3, <3>4, <3>5
  <2> QED
    BY <1>1, <2>1, <2>2, <2>3 DEF Framed
<1>4. Carries(t, done, q)
  <2> SUFFICES ASSUME NEW i \in Places(t, MessageOps)
               PROVE  /\ done + Number(t, i) <= Len(q)
                      /\ q[done + Number(t, i)].text = (t[i].op = "TEXT")
                      /\ Len(q[done + Number(t, i)].body) = t[i].len
                      /\ \A j \in 1 .. t[i].len :
                           i + j <= Len(t) => t[i + j] = q[done + Number(t, i)].body[j]
    BY DEF Carries
  <2>1. i \in 1 .. n /\ t[i] = s[i] /\ i \in Places(s, MessageOps)
    BY <1>1 DEF Places
  <2>2. Number(t, i) = Number(s, i) /\ s[i].len \in Nat
    BY <1>2, <2>1, NumberFacts
  <2>3. /\ done + Number(s, i) <= Len(q)
        /\ q[done + Number(s, i)].text = (s[i].op = "TEXT")
        /\ Len(q[done + Number(s, i)].body) = s[i].len
        /\ \A j \in 1 .. s[i].len :
             i + j <= Len(s) => s[i + j] = q[done + Number(s, i)].body[j]
    BY <2>1 DEF Carries
  <2>4. \A j \in 1 .. s[i].len :
          i + j <= n => t[i + j] = q[done + Number(s, i)].body[j]
    <3> TAKE j \in 1 .. s[i].len
    <3> HAVE i + j <= n
    <3>1. i + j \in 1 .. n /\ i + j <= Len(s)
      BY <1>1, <2>1, <2>2
    <3> QED
      BY <1>1, <2>3, <3>1
  <2> QED
    BY <1>1, <2>1, <2>2, <2>3, <2>4
<1> QED
  BY <1>3, <1>4 DEF t

\* The rest of a stream behind its first n units, if it starts right.
LEMMA RestKeeps ==
  ASSUME NEW s \in Seq(Unit), NEW n \in 0 .. Len(s), NEW done \in Nat, NEW q,
         Framed(s), Carries(s, done, q), n < Len(s) => s[n + 1].kind # "data"
  PROVE  /\ Framed(SubSeq(s, n + 1, Len(s)))
         /\ Carries(SubSeq(s, n + 1, Len(s)), done + Frames(SubSeq(s, 1, n), MessageOps), q)
         /\ Whole(s) => Whole(SubSeq(s, n + 1, Len(s)))
         /\ Frames(s, MessageOps) = Frames(SubSeq(s, 1, n), MessageOps)
                                    + Frames(SubSeq(s, n + 1, Len(s)), MessageOps)
<1> DEFINE a == SubSeq(s, 1, n)
           t == SubSeq(s, n + 1, Len(s))
<1>1. /\ t \in Seq(Unit) /\ Len(t) = Len(s) - n /\ Len(s) \in Nat
      /\ \A i \in 1 .. Len(s) - n : t[i] = s[n + i]
      /\ a \in Seq(Unit) /\ Len(a) = n
  OBVIOUS
<1>2. s = a \o t
  BY SplitSeq
<1> HIDE DEF a, t
<1>3. Frames(s, MessageOps) = Frames(a, MessageOps) + Frames(t, MessageOps)
  <2>1. Frames(a \o t, MessageOps) = Frames(a, MessageOps) + Frames(t, MessageOps)
    BY <1>1, FramesConcat
  <2> QED
    BY <1>2, <2>1
<1>4. \A i \in 1 .. Len(t) : Number(s, n + i) = Frames(a, MessageOps) + Number(t, i)
  <2>1. \A i \in 1 .. Len(t) :
          Number(a \o t, Len(a) + i) = Frames(a, MessageOps) + Number(t, i)
    BY <1>1, NumberInConcat
  <2> QED
    BY <1>1, <1>2, <2>1
<1>5. Frames(a, MessageOps) \in Nat
  BY <1>1, FramesPlaces
<1>6. Framed(t)
  <2>1. t # <<>> => t[1].kind # "data"
    <3> SUFFICES ASSUME t # <<>> PROVE t[1].kind # "data"
      OBVIOUS
    <3>1. n < Len(s) /\ 1 \in 1 .. Len(s) - n
      BY <1>1
    <3> QED
      BY <1>1, <3>1
  <2>2. ASSUME NEW i \in 1 .. Len(t), t[i].kind = "line", i < Len(t)
        PROVE  t[i + 1].kind # "data"
    <3>1. /\ n + i \in 1 .. Len(s) /\ n + i < Len(s) /\ i \in 1 .. Len(s) - n
          /\ i + 1 \in 1 .. Len(s) - n /\ n + (i + 1) = n + i + 1
      BY <1>1, <2>2
    <3>2. s[n + i].kind = "line" /\ t[i + 1] = s[n + i + 1]
      BY <1>1, <2>2, <3>1
    <3> QED
      BY <3>1, <3>2 DEF Framed
  <2>3. ASSUME NEW i \in 1 .. Len(t), t[i].kind = "head"
        PROVE  /\ t[i].fin /\ t[i].op \in Op
               /\ \A j \in 1 .. t[i].len : i + j <= Len(t) => t[i + j].kind = "data"
               /\ i + t[i].len < Len(t) => t[i + t[i].len + 1].kind = "head"
    <3>1. n + i \in 1 .. Len(s) /\ t[i] = s[n + i] /\ s[n + i] \in Unit
      BY <1>1
    <3>2. s[n + i].len \in Nat
      BY <2>3, <3>1 DEF Unit, FrameUnit
    <3>3. /\ s[n + i].fin /\ s[n + i].op \in Op
          /\ \A j \in 1 .. s[n + i].len :
               n + i + j <= Len(s) => s[n + i + j].kind = "data"
          /\ n + i + s[n + i].len < Len(s) => s[n + i + s[n + i].len + 1].kind = "head"
      BY <2>3, <3>1 DEF Framed
    <3>4. \A j \in 1 .. s[n + i].len : i + j <= Len(t) => t[i + j].kind = "data"
      <4> TAKE j \in 1 .. s[n + i].len
      <4> HAVE i + j <= Len(t)
      <4>1. i + j \in 1 .. Len(s) - n /\ n + (i + j) = n + i + j /\ n + i + j <= Len(s)
        BY <1>1, <3>2
      <4>2. s[n + i + j].kind = "data"
        BY <3>3, <4>1
      <4> QED
        BY <1>1, <4>1, <4>2
    <3>5. i + s[n + i].len < Len(t) => t[i + s[n + i].len + 1].kind = "head"
      <4> HAVE i + s[n + i].len < Len(t)
      <4> DEFINE k == i + s[n + i].len + 1
      <4>1. k \in 1 .. Len(s) - n /\ n + k = n + i + s[n + i].len + 1
            /\ n + i + s[n + i].len < Len(s)
        <5>1. PICK l \in Nat : l = s[n + i].len
          BY <3>2
        <5>2. n + i + l < Len(s) /\ i + l + 1 \in 1 .. Len(s) - n
          BY <1>1, <5>1
        <5>3. n + (i + l + 1) = n + i + l + 1
          BY <1>1
        <5> QED
          BY <5>1, <5>2, <5>3
      <4>2. t[k] = s[n + k]
        BY <1>1, <4>1
      <4> QED
        BY <3>3, <4>1, <4>2
    <3> QED
      BY <3>1, <3>3, <3>4, <3>5
  <2> QED
    BY <2>1, <2>2, <2>3 DEF Framed
<1>7. Carries(t, done + Frames(a, MessageOps), q)
  <2> DEFINE d == done + Frames(a, MessageOps)
  <2> SUFFICES ASSUME NEW i \in Places(t, MessageOps)
               PROVE  /\ d + Number(t, i) <= Len(q)
                      /\ q[d + Number(t, i)].text = (t[i].op = "TEXT")
                      /\ Len(q[d + Number(t, i)].body) = t[i].len
                      /\ \A j \in 1 .. t[i].len :
                           i + j <= Len(t) => t[i + j] = q[d + Number(t, i)].body[j]
    BY DEF Carries
  <2>a. /\ i \in 1 .. Len(t) /\ t[i].kind = "head" /\ t[i].op \in MessageOps
        /\ Number(t, i) \in Nat /\ t[i].len \in Nat
    BY <1>1, NumberFacts DEF Places
  <2>b. n + i \in 1 .. Len(s) /\ t[i] = s[n + i]
    BY <1>1, <2>a
  <2>1. /\ i \in 1 .. Len(t) /\ t[i] = s[n + i] /\ n + i \in Places(s, MessageOps)
        /\ Number(t, i) \in Nat /\ s[n + i].len \in Nat
    BY <2>a, <2>b DEF Places
  <2>2. done + Number(s, n + i) = d + Number(t, i)
    BY <1>4, <1>5, <2>1
  <2>3. /\ done + Number(s, n + i) <= Len(q)
        /\ q[done + Number(s, n + i)].text = (s[n + i].op = "TEXT")
        /\ Len(q[done + Number(s, n + i)].body) = s[n + i].len
        /\ \A j \in 1 .. s[n + i].len :
             n + i + j <= Len(s) => s[n + i + j] = q[done + Number(s, n + i)].body[j]
    BY <2>1 DEF Carries
  <2> HIDE DEF d
  <2>4. \A j \in 1 .. s[n + i].len :
          i + j <= Len(t) => t[i + j] = q[d + Number(t, i)].body[j]
    <3> TAKE j \in 1 .. s[n + i].len
    <3> HAVE i + j <= Len(t)
    <3>1. i + j \in 1 .. Len(s) - n /\ n + (i + j) = n + i + j /\ n + i + j <= Len(s)
      BY <1>1, <2>1
    <3>2. t[i + j] = s[n + i + j]
      BY <1>1, <3>1
    <3> QED
      BY <2>2, <2>3, <3>1, <3>2
  <2> QED
    BY <2>1, <2>2, <2>3, <2>4
<1>8. Whole(s) => Whole(t)
  <2> SUFFICES ASSUME Whole(s), NEW i \in 1 .. Len(t), t[i].kind = "head"
               PROVE  i + t[i].len <= Len(t)
    BY DEF Whole
  <2>1. n + i \in 1 .. Len(s) /\ t[i] = s[n + i] /\ s[n + i] \in Unit
    BY <1>1
  <2>2. s[n + i].len \in Nat
    BY <2>1 DEF Unit, FrameUnit
  <2>3. n + i + s[n + i].len <= Len(s)
    BY <2>1 DEF Whole
  <2> QED
    BY <1>1, <2>1, <2>2, <2>3
<1> QED
  BY <1>3, <1>6, <1>7, <1>8 DEF a, t

\* The first line of a stream is read.
LEMMA LineTaken ==
  ASSUME NEW s \in Seq(Unit), s # <<>>, Head(s).kind = "line",
         NEW done \in Nat, NEW q, Framed(s), Carries(s, done, q)
  PROVE  /\ Framed(Tail(s)) /\ Carries(Tail(s), done, q)
         /\ Whole(s) => Whole(Tail(s))
         /\ \A ops : Frames(s, ops) = Frames(Tail(s), ops)
<1> DEFINE a == SubSeq(s, 1, 1)
           t == Tail(s)
<1>1. /\ Len(s) \in Nat /\ Len(s) >= 1 /\ 1 \in 0 .. Len(s) /\ s[1].kind = "line"
      /\ SubSeq(s, 1 + 1, Len(s)) = t /\ t \in Seq(Unit)
      /\ a \in Seq(Unit) /\ Len(a) = 1 /\ a[1] = s[1]
  OBVIOUS
<1>2. s = a \o t
  BY <1>1, SplitSeq
<1> HIDE DEF a, t
<1>3. 1 < Len(s) => s[1 + 1].kind # "data"
  BY <1>1 DEF Framed
<1>4. \A ops : Frames(a, ops) = 0
  BY <1>1, NoFrames
<1>5. \A ops : Frames(a \o t, ops) = Frames(a, ops) + Frames(t, ops) /\ Frames(t, ops) \in Nat
  BY <1>1, FramesConcat, FramesPlaces
<1>6. \A ops : Frames(s, ops) = Frames(t, ops)
  BY <1>2, <1>4, <1>5
<1>7. /\ Framed(SubSeq(s, 1 + 1, Len(s)))
      /\ Carries(SubSeq(s, 1 + 1, Len(s)), done + Frames(SubSeq(s, 1, 1), MessageOps), q)
      /\ Whole(s) => Whole(SubSeq(s, 1 + 1, Len(s)))
  BY <1>1, <1>3, RestKeeps
<1>8. done + Frames(SubSeq(s, 1, 1), MessageOps) = done
  BY <1>4 DEF a
<1>9. /\ Framed(t) /\ Carries(t, done, q) /\ (Whole(s) => Whole(t))
  BY <1>1, <1>7, <1>8
<1> QED
  BY <1>6, <1>9 DEF t

\* The frame at the head of r carries its payload, the next message of q if it
\* is a message at all.
FrameAhead(r, done, q) ==
  LET h    == Head(r)
      body == SubSeq(r, 2, 1 + h.len)
  IN  /\ h.fin /\ h.op \in Op
      /\ body \in Payload /\ Len(body) = h.len
      /\ h.op \in MessageOps =>
           /\ done + 1 <= Len(q)
           /\ q[done + 1].text = (h.op = "TEXT")
           /\ Len(q[done + 1].body) = h.len
           /\ \A j \in 1 .. h.len : body[j] = q[done + 1].body[j]

\* rest is what s was behind its first frame.
FrameGone(s, op, rest, done, q) ==
  /\ Framed(rest) /\ Carries(rest, done + (IF op \in MessageOps THEN 1 ELSE 0), q)
  /\ Whole(s) => Whole(rest)
  /\ \A ops : Frames(s, ops) = Frames(rest, ops) + (IF op \in ops THEN 1 ELSE 0)

\* The first frame of a stream, all of which has been received, is dispatched.
LEMMA FrameTaken ==
  ASSUME NEW r \in Seq(Unit), NEW w \in Seq(Unit), NEW done \in Nat, NEW q,
         Framed(r \o w), Carries(r \o w, done, q),
         r # <<>>, Head(r).kind = "head", Len(r) >= 1 + Head(r).len
  PROVE  /\ FrameAhead(r, done, q)
         /\ FrameGone(r \o w, Head(r).op, SubSeq(r, 2 + Head(r).len, Len(r)) \o w, done, q)
<1> DEFINE s == r \o w
           h == Head(r)
           l == h.len
           a == SubSeq(r, 1, 1 + l)
           b == SubSeq(r, 2 + l, Len(r))
           rest == b \o w
           body == SubSeq(r, 2, 1 + l)
<1>1. /\ s \in Seq(Unit) /\ Len(s) = Len(r) + Len(w) /\ Len(r) \in Nat /\ Len(w) \in Nat
      /\ Len(r) >= 1 /\ h = r[1] /\ h \in Unit
      /\ \A i \in 1 .. Len(r) : s[i] = r[i]
  OBVIOUS
<1>2. l \in Nat
  BY <1>1 DEF Unit, FrameUnit
<1> HIDE DEF s, h
<1> SUFFICES
      /\ Framed(rest) /\ Carries(rest, done + (IF h.op \in MessageOps THEN 1 ELSE 0), q)
      /\ Whole(s) => Whole(rest)
      /\ \A ops : Frames(s, ops) = Frames(rest, ops) + (IF h.op \in ops THEN 1 ELSE 0)
      /\ h.fin /\ h.op \in Op
      /\ body \in Payload /\ Len(body) = l
      /\ h.op \in MessageOps =>
           /\ done + 1 <= Len(q)
           /\ q[done + 1].text = (h.op = "TEXT")
           /\ Len(q[done + 1].body) = l
           /\ \A j \in 1 .. l : body[j] = q[done + 1].body[j]
  BY DEF s, h, l, FrameAhead, FrameGone
<1> HIDE DEF l
<1>3. /\ h.kind = "head" /\ Len(r) >= 1 + l /\ h.len = l
      /\ Framed(s) /\ Carries(s, done, q)
  BY DEF s, h, l
<1>4. /\ a \in Seq(Unit) /\ Len(a) = 1 + l /\ \A i \in 1 .. 1 + l : a[i] = r[i]
      /\ b \in Seq(Unit)
      /\ body \in Seq(Unit) /\ Len(body) = l /\ \A j \in 1 .. l : body[j] = r[1 + j]
  BY <1>1, <1>2, <1>3
<1>5. /\ 1 + l \in 0 .. Len(r) /\ 1 + l \in 0 .. Len(s)
      /\ (1 + l) + 1 = 2 + l /\ Len(s) \in Nat
  BY <1>1, <1>2, <1>3
<1>6. r = a \o b
  <2>1. r = SubSeq(r, 1, 1 + l) \o SubSeq(r, (1 + l) + 1, Len(r))
    BY <1>5, SplitSeq
  <2> QED
    BY <1>5, <2>1
<1>7. SubSeq(s, 1, 1 + l) = a
  BY <1>5, PrefixOfConcat DEF s
<1> HIDE DEF a, b
<1>8. rest \in Seq(Unit) /\ s = a \o rest
  <2>0. a \in Seq(Unit) /\ b \in Seq(Unit)
    BY <1>4
  <2>1. (a \o b) \o w = a \o (b \o w)
    BY <2>0
  <2> QED
    BY <1>4, <1>6, <2>1 DEF s
<1> HIDE DEF rest
<1>9. SubSeq(s, (1 + l) + 1, Len(s)) = rest
  <2>1. Len(a) = 1 + l /\ a \in Seq(Unit) /\ rest \in Seq(Unit)
    BY <1>4, <1>8
  <2>2. SubSeq(a \o rest, Len(a) + 1, Len(a \o rest)) = rest
    BY <2>1
  <2> QED
    BY <1>8, <2>1, <2>2
<1>10. /\ 1 \in 1 .. Len(s) /\ s[1] = h
  BY <1>1
<1>11. /\ h.fin /\ h.op \in Op
       /\ \A j \in 1 .. l : 1 + j <= Len(s) => s[1 + j].kind = "data"
       /\ 1 + l < Len(s) => s[1 + l + 1].kind = "head"
  BY <1>3, <1>10 DEF Framed
<1>12. \A j \in 1 .. l : /\ 1 + j <= Len(s) /\ 1 + j \in 1 .. Len(r)
                         /\ body[j] = s[1 + j] /\ body[j].kind = "data"
  <2> TAKE j \in 1 .. l
  <2>1. 1 + j \in 1 .. Len(r) /\ 1 + j <= Len(s)
    BY <1>1, <1>2, <1>3
  <2>2. body[j] = s[1 + j]
    BY <1>1, <1>4, <2>1
  <2>3. s[1 + j].kind = "data"
    BY <1>11, <2>1
  <2> QED
    BY <2>1, <2>2, <2>3
<1>13. body \in Payload
  BY <1>4, <1>12 DEF Payload
<1>14. ASSUME NEW ops
       PROVE  Frames(a, ops) = IF h.op \in ops THEN 1 ELSE 0
  <2>1. a[1] = h /\ \A j \in 1 .. l : a[1 + j].kind = "data"
    <3>1. 1 \in 1 .. 1 + l /\ \A j \in 1 .. l : 1 + j \in 1 .. 1 + l /\ 1 + j \in 1 .. Len(r)
      BY <1>2, <1>3
    <3>2. \A j \in 1 .. l : a[1 + j] = r[1 + j] /\ r[1 + j] = body[j]
      BY <1>4, <3>1
    <3>3. a[1] = h /\ \A j \in 1 .. l : body[j].kind = "data"
      BY <1>1, <1>4, <1>12, <3>1
    <3> QED
      BY <3>2, <3>3
  <2>2. \A i \in 1 .. Len(a) : i = 1 \/ a[i].kind = "data"
    <3> SUFFICES ASSUME NEW i \in 1 .. Len(a), i # 1 PROVE a[i].kind = "data"
      OBVIOUS
    <3>1. i - 1 \in 1 .. l /\ 1 + (i - 1) = i
      BY <1>2, <1>4
    <3> QED
      BY <2>1, <3>1
  <2>3. 1 \in 1 .. Len(a)
    BY <1>2, <1>4
  <2>4. /\ h.op \in ops => Places(a, ops) = {1}
        /\ h.op \notin ops => Places(a, ops) = {}
    BY <1>3, <2>1, <2>2, <2>3 DEF Places
  <2>5. Frames(a, ops) = Cardinality(Places(a, ops))
    BY <1>4, FramesPlaces
  <2>6. Cardinality({1}) = 1
    BY FS_Singleton
  <2>7. Cardinality({}) = 0
    BY FS_EmptySet
  <2> QED
    BY <2>4, <2>5, <2>6, <2>7
<1>15. \A ops : Frames(s, ops) = Frames(rest, ops) + (IF h.op \in ops THEN 1 ELSE 0)
  <2> TAKE ops
  <2>1. Frames(a \o rest, ops) = Frames(a, ops) + Frames(rest, ops) /\ Frames(rest, ops) \in Nat
    BY <1>4, <1>8, FramesConcat, FramesPlaces
  <2> QED
    BY <1>8, <1>14, <2>1
<1>16. /\ Framed(rest) /\ Carries(rest, done + Frames(a, MessageOps), q)
       /\ Whole(s) => Whole(rest)
  <2>1. 1 + l < Len(s) => s[(1 + l) + 1].kind # "data"
    BY <1>11
  <2>2. s \in Seq(Unit)
    BY <1>1
  <2>3. /\ Framed(SubSeq(s, (1 + l) + 1, Len(s)))
        /\ Carries(SubSeq(s, (1 + l) + 1, Len(s)),
                   done + Frames(SubSeq(s, 1, 1 + l), MessageOps), q)
        /\ Whole(s) => Whole(SubSeq(s, (1 + l) + 1, Len(s)))
    BY <1>3, <1>5, <2>1, <2>2, RestKeeps
  <2> QED
    BY <1>7, <1>9, <2>3
<1>17. ASSUME h.op \in MessageOps
       PROVE  /\ done + 1 <= Len(q)
              /\ q[done + 1].text = (h.op = "TEXT")
              /\ Len(q[done + 1].body) = l
              /\ \A j \in 1 .. l : body[j] = q[done + 1].body[j]
  <2>1. 1 \in Places(s, MessageOps)
    BY <1>3, <1>10, <1>17 DEF Places
  <2>2. Number(s, 1) = 1
    BY <1>1, <2>1, FirstIsNumberOne
  <2>3. /\ done + 1 <= Len(q)
        /\ q[done + 1].text = (h.op = "TEXT")
        /\ Len(q[done + 1].body) = l
        /\ \A j \in 1 .. l : 1 + j <= Len(s) => s[1 + j] = q[done + 1].body[j]
    BY <1>3, <1>10, <2>1, <2>2 DEF Carries
  <2> QED
    BY <1>12, <2>3
<1> QED
  BY <1>4, <1>11, <1>13, <1>14, <1>15, <1>16, <1>17

\* Lines are put before a stream.
LEMMA LinesBefore ==
  ASSUME NEW a \in Seq(Unit), \A i \in 1 .. Len(a) : a[i].kind = "line",
         NEW s \in Seq(Unit), NEW done \in Nat, NEW q, Framed(s), Carries(s, done, q)
  PROVE  /\ Framed(a \o s) /\ Carries(a \o s, done, q)
         /\ Whole(s) => Whole(a \o s)
         /\ \A ops : Frames(a \o s, ops) = Frames(s, ops)
<1> DEFINE t == a \o s
           n == Len(a)
<1>1. /\ t \in Seq(Unit) /\ Len(t) = n + Len(s) /\ n \in Nat /\ Len(s) \in Nat
      /\ \A i \in 1 .. n : t[i] = a[i]
      /\ \A i \in 1 .. Len(s) : t[n + i] = s[i]
  OBVIOUS
<1>0. Len(t) = n + Len(s) /\ n \in Nat /\ Len(s) \in Nat
  BY <1>1
<1>2. \A ops : Frames(t, ops) = Frames(s, ops)
  <2> TAKE ops
  <2>1. Frames(a, ops) = 0
    BY NoFrames
  <2>2. Frames(t, ops) = Frames(a, ops) + Frames(s, ops) /\ Frames(s, ops) \in Nat
    BY FramesConcat, FramesPlaces
  <2> QED
    BY <2>1, <2>2
<1>3. \A i \in 1 .. Len(s) : Number(t, n + i) = Number(s, i)
  <2> TAKE i \in 1 .. Len(s)
  <2>1. Number(t, n + i) = Frames(a, MessageOps) + Number(s, i)
    BY NumberInConcat
  <2>2. Frames(a, MessageOps) = 0
    BY NoFrames
  <2>3. SubSeq(s, 1, i) \in Seq(Unit)
    OBVIOUS
  <2>4. Number(s, i) \in Nat
    BY <2>3, FramesPlaces DEF Number
  <2> QED
    BY <2>1, <2>2, <2>4
<1> HIDE DEF t
<1>4. ASSUME NEW i \in 1 .. Len(t), t[i].kind = "head"
      PROVE  /\ i - n \in 1 .. Len(s) /\ n + (i - n) = i /\ t[i] = s[i - n]
             /\ s[i - n].kind = "head" /\ s[i - n].len \in Nat
  <2>1. i \notin 1 .. n
    BY <1>1, <1>4
  <2>2. i - n \in 1 .. Len(s) /\ n + (i - n) = i
    BY <1>1, <2>1
  <2>3. t[i] = s[i - n] /\ s[i - n] \in Unit
    BY <1>1, <2>2
  <2> QED
    BY <1>4, <2>2, <2>3 DEF Unit, FrameUnit
<1>5. Framed(t)
  <2>0. s # <<>> => s[1].kind # "data"
    BY DEF Framed
  <2>1. t # <<>> => t[1].kind # "data"
    <3>1. CASE n = 0
      <4>1. t # <<>> => Len(s) # 0
        BY <1>1, <3>1
      <4>2. Len(s) # 0 => 1 \in 1 .. Len(s) /\ n + 1 = 1 /\ s # <<>>
        BY <1>1, <3>1
      <4> QED
        BY <1>1, <2>0, <4>1, <4>2
    <3>2. CASE n # 0
      BY <1>1, <3>2
    <3> QED
      BY <3>1, <3>2
  <2>2. ASSUME NEW i \in 1 .. Len(t), t[i].kind = "line", i < Len(t)
        PROVE  t[i + 1].kind # "data"
    <3>1. CASE i < n
      <4>1. i + 1 \in 1 .. n
        BY <1>1, <3>1
      <4> QED
        BY <1>1, <4>1
    <3>2. CASE i = n
      <4>1. 1 \in 1 .. Len(s) /\ s # <<>> /\ i + 1 = n + 1
        BY <1>1, <2>2, <3>2
      <4> QED
        BY <1>1, <2>0, <4>1
    <3>3. CASE i > n
      <4> DEFINE k == i - n
      <4>1. k \in 1 .. Len(s) /\ k + 1 \in 1 .. Len(s) /\ n + k = i /\ n + (k + 1) = i + 1
            /\ k < Len(s)
        BY <1>0, <2>2, <3>3
      <4>2. t[i] = s[k] /\ t[i + 1] = s[k + 1]
        BY <1>1, <4>1
      <4> QED
        BY <2>2, <4>1, <4>2 DEF Framed
    <3> QED
      BY <1>1, <3>1, <3>2, <3>3
  <2>3. ASSUME NEW i \in 1 .. Len(t), t[i].kind = "head"
        PROVE  /\ t[i].fin /\ t[i].op \in Op
               /\ \A j \in 1 .. t[i].len : i + j <= Len(t) => t[i + j].kind = "data"
               /\ i + t[i].len < Len(t) => t[i + t[i].len + 1].kind = "head"
    <3> DEFINE k == i - n
    <3>1. /\ k \in 1 .. Len(s) /\ n + k = i /\ t[i] = s[k]
          /\ s[k].kind = "head" /\ s[k].len \in Nat
      BY <1>4, <2>3
    <3> HIDE DEF k, n
    <3>0. PICK l \in Nat : l = s[k].len
      BY <3>1
    <3>2. /\ s[k].fin /\ s[k].op \in Op
          /\ \A j \in 1 .. l : k + j <= Len(s) => s[k + j].kind = "data"
          /\ k + l < Len(s) => s[k + l + 1].kind = "head"
      BY <3>0, <3>1 DEF Framed
    <3>3. \A j \in 1 .. l : i + j <= Len(t) => t[i + j].kind = "data"
      <4> TAKE j \in 1 .. l
      <4> HAVE i + j <= Len(t)
      <4>1. k + j \in 1 .. Len(s) /\ k + j <= Len(s) /\ n + (k + j) = i + j
        BY <1>0, <3>1
      <4>2. t[i + j] = s[k + j] /\ s[k + j].kind = "data"
        BY <1>1, <3>2, <4>1
      <4> QED
        BY <4>2
    <3>4. i + l < Len(t) => t[i + l + 1].kind = "head"
      <4> HAVE i + l < Len(t)
      <4>1. k + l + 1 \in 1 .. Len(s) /\ k + l < Len(s) /\ n + (k + l + 1) = i + l + 1
        <5>1. k \in Nat /\ k >= 1 /\ n \in Nat /\ Len(s) \in Nat /\ n + k = i
          BY <1>0, <3>1
        <5>2. n + k + l < n + Len(s)
          BY <1>0, <5>1
        <5>3. k + l < Len(s)
          BY <5>1, <5>2
        <5>4. k + l + 1 \in 1 .. Len(s)
          BY <5>1, <5>3
        <5>5. n + (k + l + 1) = i + l + 1
          BY <5>1
        <5> QED
          BY <5>3, <5>4, <5>5
      <4>2. t[i + l + 1] = s[k + l + 1]
        BY <1>1, <4>1
      <4> QED
        BY <3>2, <4>1, <4>2
    <3> QED
      BY <3>0, <3>1, <3>2, <3>3, <3>4
  <2> QED
    BY <2>1, <2>2, <2>3 DEF Framed
<1>6. Carries(t, done, q)
  <2> SUFFICES ASSUME NEW i \in Places(t, MessageOps)
               PROVE  /\ done + Number(t, i) <= Len(q)
                      /\ q[done + Number(t, i)].text = (t[i].op = "TEXT")
                      /\ Len(q[done + Number(t, i)].body) = t[i].len
                      /\ \A j \in 1 .. t[i].len :
                           i + j <= Len(t) => t[i + j] = q[done + Number(t, i)].body[j]
    BY DEF Carries
  <2> DEFINE k == i - n
  <2>1. i \in 1 .. Len(t) /\ t[i].kind = "head" /\ t[i].op \in MessageOps
    BY DEF Places
  <2>2. /\ k \in 1 .. Len(s) /\ n + k = i /\ t[i] = s[k]
        /\ s[k].kind = "head" /\ s[k].len \in Nat
    BY <1>4, <2>1
  <2> HIDE DEF k
  <2>3. k \in Places(s, MessageOps) /\ Number(t, i) = Number(s, k)
    BY <1>3, <2>1, <2>2 DEF Places
  <2>4. /\ done + Number(s, k) <= Len(q)
        /\ q[done + Number(s, k)].text = (s[k].op = "TEXT")
        /\ Len(q[done + Number(s, k)].body) = s[k].len
        /\ \A j \in 1 .. s[k].len :
             k + j <= Len(s) => s[k + j] = q[done + Number(s, k)].body[j]
    BY <2>3 DEF Carries
  <2>5. \A j \in 1 .. s[k].len : i + j <= Len(t) => t[i + j] = q[done + Number(s, k)].body[j]
    <3> TAKE j \in 1 .. s[k].len
    <3> HAVE i + j <= Len(t)
    <3>1. k + j \in 1 .. Len(s) /\ k + j <= Len(s) /\ n + (k + j) = i + j
      BY <1>1, <2>2
    <3>2. t[i + j] = s[k + j] /\ s[k + j] = q[done + Number(s, k)].body[j]
      BY <1>1, <2>4, <3>1
    <3> QED
      BY <3>2
  <2> QED
    BY <2>2, <2>3, <2>4, <2>5
<1>7. Whole(s) => Whole(t)
  <2> SUFFICES ASSUME Whole(s), NEW i \in 1 .. Len(t), t[i].kind = "head"
               PROVE  i + t[i].len <= Len(t)
    BY DEF Whole
  <2> DEFINE k == i - n
  <2>1. /\ k \in 1 .. Len(s) /\ n + k = i /\ t[i] = s[k]
        /\ s[k].kind = "head" /\ s[k].len \in Nat
    BY <1>4
  <2> HIDE DEF k
  <2>2. k + s[k].len <= Len(s)
    BY <2>1 DEF Whole
  <2> QED
    BY <1>1, <2>1, <2>2
<1> QED
  BY <1>2, <1>5, <1>6, <1>7 DEF t
-----------------------------------------------------------------------------
(* Lines and close frames.                                                 *)

\* The close frame is a frame without payload.
LEMMA CloseFrameFacts ==
  /\ CloseFrame \in Seq(Unit) /\ Len(CloseFrame) = 1
  /\ CloseFrame = Frame("CLOSE", TRUE, <<>>)
  /\ CloseFrame[1] = Header("CLOSE", TRUE, 0)
  /\ <<>> \in Payload
<1>1. <<>> \in Payload /\ Len(<<>>) = 0 /\ "CLOSE" \in Op
  BY DEF Payload, Op, ControlOps
<1>2. /\ Frame("CLOSE", TRUE, <<>>) \in Seq(Unit)
      /\ Len(Frame("CLOSE", TRUE, <<>>)) = 1 + Len(<<>>)
      /\ Frame("CLOSE", TRUE, <<>>)[1] = Header("CLOSE", TRUE, Len(<<>>))
  BY <1>1, FrameFacts
<1>3. CloseFrame = Frame("CLOSE", TRUE, <<>>)
  BY DEF CloseFrame
<1>4. Len(CloseFrame) = 1
  <2>1. 1 + Len(<<>>) = 1
    BY <1>1
  <2> QED
    BY <1>2, <1>3, <2>1
<1>5. CloseFrame[1] = Header("CLOSE", TRUE, 0)
  BY <1>1, <1>2, <1>3
<1>6. CloseFrame \in Seq(Unit)
  BY <1>2, <1>3
<1> QED
  BY <1>1, <1>3, <1>4, <1>5, <1>6

\* Some units are lost.
LEMMA RemoveKeeps ==
  ASSUME NEW a \in Seq(Unit), NEW b \in Seq(Unit), NEW c \in Seq(Unit)
  PROVE  /\ a \o c \in Seq(Unit)
         /\ NoLines((a \o b) \o c) => NoLines(a \o c)
         /\ LinesFirst((a \o b) \o c) => LinesFirst(a \o c)
         /\ ClosesLast((a \o b) \o c) => ClosesLast(a \o c)
         /\ HasClose(a \o c) => HasClose((a \o b) \o c)
<1> DEFINE s == (a \o b) \o c
           t == a \o c
           at(i) == IF i <= Len(a) THEN i ELSE i + Len(b)
<1>1. /\ t \in Seq(Unit) /\ Len(t) = Len(a) + Len(c) /\ Len(s) = Len(a) + Len(b) + Len(c)
      /\ Len(a) \in Nat /\ Len(b) \in Nat /\ Len(c) \in Nat
  OBVIOUS
<1>2. \A i \in 1 .. Len(t) : t[i] = s[at(i)]
  OBVIOUS
<1> HIDE DEF s, t
<1>3. \A i \in 1 .. Len(t) : at(i) \in 1 .. Len(s) /\ (at(i) = Len(s) => i = Len(t))
  BY <1>1
<1>4. \A i, j \in 1 .. Len(t) : i < j => at(i) < at(j)
  BY <1>1
<1> HIDE DEF at
<1>5. NoLines(s) => NoLines(t)
  BY <1>2, <1>3 DEF NoLines
<1>6. LinesFirst(s) => LinesFirst(t)
  BY <1>2, <1>3, <1>4 DEF LinesFirst
<1>7. ClosesLast(s) => ClosesLast(t)
  BY <1>2, <1>3 DEF ClosesLast
<1>8. HasClose(t) => HasClose(s)
  BY <1>2, <1>3 DEF HasClose
<1> QED
  BY <1>1, <1>5, <1>6, <1>7, <1>8 DEF s, t

\* A stream of frames only has its lines, none, first.
LEMMA NoLinesFirst ==
  ASSUME NEW s \in Seq(Unit), NoLines(s)
  PROVE  LinesFirst(s)
BY DEF NoLines, LinesFirst

\* A unit of a frame is sent.
LEMMA UnitSent ==
  ASSUME NEW s \in Seq(Unit), NEW u \in Unit, u.kind # "line"
  PROVE  /\ NoLines(s) => NoLines(Append(s, u))
         /\ LinesFirst(s) => LinesFirst(Append(s, u))
         /\ \A n \in Nat : StartsWithLines(s, n) => StartsWithLines(Append(s, u), n)
<1> DEFINE t == Append(s, u)
<1>1. /\ Len(t) = Len(s) + 1 /\ Len(s) \in Nat /\ t[Len(s) + 1] = u
      /\ \A i \in 1 .. Len(s) : t[i] = s[i]
      /\ \A i \in 1 .. Len(t) : i \in 1 .. Len(s) \/ i = Len(s) + 1
  OBVIOUS
<1> HIDE DEF t
<1>2. NoLines(s) => NoLines(t)
  BY <1>1 DEF NoLines
<1>3. LinesFirst(s) => LinesFirst(t)
  <2> SUFFICES ASSUME LinesFirst(s), NEW i \in 1 .. Len(t), NEW j \in 1 .. Len(t),
                      i < j, t[j].kind = "line"
               PROVE  t[i].kind = "line" /\ t[i].text # EmptyLine
    BY DEF LinesFirst
  <2>1. j \in 1 .. Len(s) /\ i \in 1 .. Len(s)
    BY <1>1
  <2> QED
    BY <1>1, <2>1 DEF LinesFirst
<1>4. \A n \in Nat : StartsWithLines(s, n) => StartsWithLines(t, n)
  <2> SUFFICES ASSUME NEW n \in Nat, StartsWithLines(s, n) PROVE StartsWithLines(t, n)
    OBVIOUS
  <2>1. n <= Len(s) /\ \A i \in 1 .. Len(s) : s[i].kind = "line" <=> i <= n
    BY DEF StartsWithLines
  <2>2. \A i \in 1 .. Len(t) : t[i].kind = "line" <=> i <= n
    BY <1>1, <2>1
  <2> QED
    BY <1>1, <2>1, <2>2 DEF StartsWithLines
<1> QED
  BY <1>2, <1>3, <1>4 DEF t

\* The rest of the lines of a stream comes first as well.
LEMMA LinesFirstTail ==
  ASSUME NEW s \in Seq(Unit), s # <<>>, LinesFirst(s)
  PROVE  LinesFirst(Tail(s)) /\ <<>> \o Tail(s) = Tail(s)
<1>1. /\ Tail(s) \in Seq(Unit) /\ Len(Tail(s)) = Len(s) - 1 /\ Len(s) \in Nat
      /\ \A i \in 1 .. Len(s) - 1 : Tail(s)[i] = s[i + 1]
      /\ <<>> \o Tail(s) = Tail(s)
  OBVIOUS
<1>2. \A i \in 1 .. Len(s) - 1 : i + 1 \in 1 .. Len(s)
  BY <1>1
<1>3. LinesFirst(Tail(s))
  BY <1>1, <1>2 DEF LinesFirst
<1> QED
  BY <1>1, <1>3

\* Behind the blank line there is none.
LEMMA BlankLineEnds ==
  ASSUME NEW s \in Seq(Unit), s # <<>>, LinesFirst(s), Head(s).text = EmptyLine
  PROVE  NoLines(Tail(s))
<1>1. Len(s) \in Nat /\ Len(s) >= 1 /\ s[1] = Head(s)
  OBVIOUS
<1>2. Len(Tail(s)) = Len(s) - 1 /\ \A i \in 1 .. Len(s) - 1 : Tail(s)[i] = s[i + 1]
  BY <1>1
<1> SUFFICES ASSUME NEW i \in 1 .. Len(s) - 1, s[i + 1].kind = "line" PROVE FALSE
  BY <1>2 DEF NoLines
<1>3. 1 \in 1 .. Len(s) /\ i + 1 \in 1 .. Len(s) /\ 1 < i + 1
  BY <1>1
<1>4. s[1].text # EmptyLine
  BY <1>3 DEF LinesFirst
<1> QED
  BY <1>1, <1>4

\* One line fewer is left.
LEMMA OneLineLess ==
  ASSUME NEW s \in Seq(Unit), NEW n \in Nat \ {0}, StartsWithLines(s, n)
  PROVE  /\ s # <<>> /\ Head(s).kind = "line"
         /\ StartsWithLines(Tail(s), n - 1)
         /\ n = 1 => NoLines(Tail(s))
<1>1. n <= Len(s) /\ \A i \in 1 .. Len(s) : s[i].kind = "line" <=> i <= n
  BY DEF StartsWithLines
<1>2. Len(s) \in Nat /\ Len(s) >= 1 /\ s # <<>>
  BY <1>1
<1>3. /\ s[1] = Head(s) /\ Len(Tail(s)) = Len(s) - 1
      /\ \A i \in 1 .. Len(s) - 1 : Tail(s)[i] = s[i + 1]
  BY <1>2
<1>4. \A i \in 1 .. Len(Tail(s)) : Tail(s)[i].kind = "line" <=> i <= n - 1
  <2> TAKE i \in 1 .. Len(Tail(s))
  <2>1. i + 1 \in 1 .. Len(s) /\ i \in 1 .. Len(s) - 1 /\ (i + 1 <= n <=> i <= n - 1)
    BY <1>2, <1>3
  <2> QED
    BY <1>1, <1>3, <2>1
<1>5. n - 1 <= Len(Tail(s))
  BY <1>1, <1>2, <1>3
<1>6. Head(s).kind = "line"
  BY <1>1, <1>2, <1>3
<1>7. n = 1 => NoLines(Tail(s))
  BY <1>4 DEF NoLines
<1> QED
  BY <1>2, <1>4, <1>5, <1>6, <1>7 DEF StartsWithLines

\* A frame is queued.
LEMMA FrameQueued ==
  ASSUME NEW s \in Seq(Unit), ~HasClose(s), NEW op \in Op, NEW body \in Payload
  PROVE  /\ ClosesLast(s \o Frame(op, TRUE, body))
         /\ op # "CLOSE" => ~HasClose(s \o Frame(op, TRUE, body))
<1> DEFINE f == Frame(op, TRUE, body)
           t == s \o f
<1>1. /\ f \in Seq(Unit) /\ Len(f) = 1 + Len(body) /\ f[1] = Header(op, TRUE, Len(body))
      /\ \A j \in 1 .. Len(body) : f[1 + j] = body[j]
  BY FrameFacts
<1>2. Len(body) \in Nat /\ \A j \in 1 .. Len(body) : body[j].kind = "data"
  BY DEF Payload
<1> HIDE DEF f
<1>3. /\ Len(t) = Len(s) + Len(f) /\ Len(s) \in Nat
      /\ \A i \in 1 .. Len(s) : t[i] = s[i]
      /\ \A i \in 1 .. Len(f) : t[Len(s) + i] = f[i]
  <2>1. f \in Seq(Unit)
    BY <1>1
  <2> QED
    BY <2>1
<1> HIDE DEF t
<1>4. ASSUME NEW i \in 1 .. Len(t), t[i] = CloseFrame[1]
      PROVE  i = Len(t) /\ op = "CLOSE"
  <2>1. i \notin 1 .. Len(s)
    BY <1>3, <1>4 DEF HasClose
  <2>2. i - Len(s) \in 1 .. Len(f) /\ Len(s) + (i - Len(s)) = i
    BY <1>3, <2>1
  <2>3. f[i - Len(s)] = Header("CLOSE", TRUE, 0)
    BY <1>3, <1>4, <2>2, CloseFrameFacts
  <2>4. i - Len(s) = 1
    <3> SUFFICES ASSUME i - Len(s) # 1 PROVE FALSE
      OBVIOUS
    <3> DEFINE j == i - Len(s) - 1
    <3>1. j \in 1 .. Len(body) /\ 1 + j = i - Len(s)
      BY <1>1, <1>2, <2>2
    <3>2. f[1 + j].kind = "data"
      BY <1>1, <1>2, <3>1
    <3> QED
      BY <2>3, <3>1, <3>2 DEF Header
  <2>5. Header(op, TRUE, Len(body)) = Header("CLOSE", TRUE, 0)
    BY <1>1, <2>3, <2>4
  <2>6. op = "CLOSE" /\ Len(body) = 0
    BY <2>5 DEF Header
  <2> QED
    BY <1>1, <1>3, <2>4, <2>6
<1>5. ClosesLast(t)
  BY <1>4 DEF ClosesLast
<1>6. op # "CLOSE" => ~HasClose(t)
  BY <1>4 DEF HasClose
<1> QED
  BY <1>5, <1>6 DEF t, f

\* Lines before a stream are no close frames.
LEMMA LinesBeforeClose ==
  ASSUME NEW a \in Seq(Unit), \A i \in 1 .. Len(a) : a[i].kind = "line",
         NEW s \in Seq(Unit)
  PROVE  /\ ClosesLast(s) => ClosesLast(a \o s)
         /\ HasClose(a \o s) => HasClose(s)
<1> DEFINE t == a \o s
           n == Len(a)
<1>1. /\ Len(t) = n + Len(s) /\ n \in Nat /\ Len(s) \in Nat
      /\ \A i \in 1 .. n : t[i] = a[i]
      /\ \A i \in 1 .. Len(s) : t[n + i] = s[i]
  OBVIOUS
<1> HIDE DEF t
<1>2. CloseFrame[1].kind = "head"
  <2>1. CloseFrame[1] = Header("CLOSE", TRUE, 0)
    BY CloseFrameFacts
  <2> QED
    BY <2>1 DEF Header
<1>3. ASSUME NEW i \in 1 .. Len(t), t[i] = CloseFrame[1]
      PROVE  i - n \in 1 .. Len(s) /\ n + (i - n) = i /\ s[i - n] = CloseFrame[1]
  <2>1. i \notin 1 .. n
    BY <1>1, <1>2, <1>3
  <2>2. i - n \in 1 .. Len(s) /\ n + (i - n) = i
    BY <1>1, <2>1
  <2> QED
    BY <1>1, <1>3, <2>2
<1>4. ClosesLast(s) => ClosesLast(t)
  BY <1>1, <1>3 DEF ClosesLast
<1>5. HasClose(t) => HasClose(s)
  BY <1>3 DEF HasClose
<1> QED
  BY <1>4, <1>5 DEF t
-----------------------------------------------------------------------------
(* Messages of this model, and the server's answer.                        *)

\* The payload of an application's message has the length asked for.
LEMMA BodyFacts ==
  ASSUME NEW k \in Nat, NEW len \in Nat
  PROVE  Body(k, len) \in Payload /\ Len(Body(k, len)) = len
<1> DEFINE b == Body(k, len)
<1>1. \A i \in 1 .. len : Piece(k, i) \in Unit /\ Piece(k, i).kind = "data"
  BY DEF Piece, Unit, FrameUnit
<1>2. b = [i \in 1 .. len |-> Piece(k, i)]
  BY DEF Body
<1> HIDE DEF b
<1>3. b \in Seq(Unit) /\ Len(b) = len /\ \A i \in 1 .. len : b[i] = Piece(k, i)
  BY <1>1, <1>2
<1> QED
  BY <1>1, <1>3 DEF b, Payload

\* What an application may send is a message.
LEMMA MessagesFacts ==
  ASSUME NEW m \in Messages
  PROVE  m \in Message /\ m.body \in Payload /\ Len(m.body) \in Lengths
<1>1. PICK t \in BOOLEAN, k \in 1 .. MaxMessages, len \in Lengths :
        m = [text |-> t, body |-> Body(k, len)]
  BY DEF Messages
<1>2. k \in Nat /\ len \in Nat
  BY EndpointAssumption
<1>3. Body(k, len) \in Payload /\ Len(Body(k, len)) = len
  BY <1>2, BodyFacts
<1>4. Body(k, len) \in Seq(Unit)
  BY <1>3 DEF Payload
<1> QED
  BY <1>1, <1>3, <1>4 DEF Message

\* A handshake line is a unit and keeps its text.
LEMMA LineFacts ==
  ASSUME NEW t \in Text
  PROVE  Line(t) \in Unit /\ Line(t).kind = "line" /\ Line(t).text = t
BY DEF Line, Unit

\* The server's answer is six lines and no frame.
LEMMA ResponseFacts ==
  /\ Response \in Seq(Unit) /\ StartsWithLines(Response, 6)
  /\ \A i \in 1 .. Len(Response) : Response[i].kind = "line"
<1>1. /\ "101" \in Text /\ "HConnection" \in Text /\ "HSec-WebSocket-Accept" \in Text
      /\ "HServer" \in Text /\ "HUpgrade" \in Text /\ EmptyLine \in Text
  BY DEF Text
<1>2. /\ Line("101") \in Unit /\ Line("HConnection") \in Unit
      /\ Line("HSec-WebSocket-Accept") \in Unit /\ Line("HServer") \in Unit
      /\ Line("HUpgrade") \in Unit /\ Line(EmptyLine) \in Unit
  BY <1>1, LineFacts
<1>3. /\ Line("101").kind = "line" /\ Line("HConnection").kind = "line"
      /\ Line("HSec-WebSocket-Accept").kind = "line" /\ Line("HServer").kind = "line"
      /\ Line("HUpgrade").kind = "line" /\ Line(EmptyLine).kind = "line"
  BY <1>1, LineFacts
<1>4. Response \in Seq(Unit) /\ Len(Response) = 6
  BY <1>2 DEF Response
<1>5. \A i \in 1 .. 6 : Response[i].kind = "line"
  BY <1>2, <1>3 DEF Response
<1> QED
  BY <1>4, <1>5 DEF StartsWithLines

\* The client's request is lines, of which only the last is empty.
LEMMA RequestFacts ==
  ASSUME NEW get \in Urls
  PROVE  /\ Request(get) \in Seq(Unit) /\ LinesFirst(Request(get))
         /\ \A i \in 1 .. Len(Request(get)) : Request(get)[i].kind = "line"
<1>1. /\ get \in Text /\ "Host" \in Text /\ "Upgrade" \in Text /\ "Connection" \in Text
      /\ "Sec-WebSocket-Key" \in Text /\ "Sec-WebSocket-Version" \in Text /\ EmptyLine \in Text
  BY DEF Text
<1>2. /\ Line(get) \in Unit /\ Line("Host") \in Unit /\ Line("Upgrade") \in Unit
      /\ Line("Connection") \in Unit /\ Line("Sec-WebSocket-Key") \in Unit
      /\ Line("Sec-WebSocket-Version") \in Unit /\ Line(EmptyLine) \in Unit
  BY <1>1, LineFacts
<1>3. /\ Line(get).kind = "line" /\ Line("Host").kind = "line" /\ Line("Upgrade").kind = "line"
      /\ Line("Connection").kind = "line" /\ Line("Sec-WebSocket-Key").kind = "line"
      /\ Line("Sec-WebSocket-Version").kind = "line" /\ Line(EmptyLine).kind = "line"
  BY <1>1, LineFacts
<1>4. /\ Line(get).text # EmptyLine /\ Line("Host").text # EmptyLine
      /\ Line("Upgrade").text # EmptyLine
      /\ Line("Connection").text # EmptyLine /\ Line("Sec-WebSocket-Key").text # EmptyLine
      /\ Line("Sec-WebSocket-Version").text # EmptyLine
  <2>1. /\ EmptyLine # "Host" /\ EmptyLine # "Upgrade" /\ EmptyLine # "Connection"
        /\ EmptyLine # "Sec-WebSocket-Key" /\ EmptyLine # "Sec-WebSocket-Version"
    BY Zenon DEF EmptyLine
  <2>2. get # EmptyLine
    BY ClientServerAssumption
  <2> QED
    BY <1>1, <2>1, <2>2, LineFacts
<1>5. Request(get) \in Seq(Unit) /\ Len(Request(get)) = 7
  BY <1>2 DEF Request
<1>6. \A i \in 1 .. 7 : Request(get)[i].kind = "line"
  BY <1>3 DEF Request
<1>7. \A i \in 1 .. 6 : Request(get)[i].text # EmptyLine
  BY <1>4 DEF Request
<1>8. ASSUME NEW i \in 1 .. 7, NEW j \in 1 .. 7, i < j
      PROVE  Request(get)[i].kind = "line" /\ Request(get)[i].text # EmptyLine
  <2>1. i \in 1 .. 6
    BY <1>8
  <2> QED
    BY <1>6, <1>7, <2>1
<1> QED
  BY <1>5, <1>6, <1>8 DEF LinesFirst

\* Lines alone carry no message, and no close frame.
LEMMA OnlyLines ==
  ASSUME NEW s \in Seq(Unit), \A i \in 1 .. Len(s) : s[i].kind = "line"
  PROVE  /\ Framed(s) /\ Carries(s, 0, <<>>) /\ Complete(s, 0, <<>>)
         /\ ClosesLast(s) /\ ~HasClose(s)
         /\ \A ops : Frames(s, ops) = 0
<1>1. \A i \in 1 .. Len(s) : s[i].kind = "line" /\ s[i].kind # "head" /\ s[i].kind # "data"
  OBVIOUS
<1>2. Framed(s)
  <2>1. Len(s) \in Nat /\ (s # <<>> => 1 \in 1 .. Len(s))
    OBVIOUS
  <2>2. \A i \in 1 .. Len(s) : i < Len(s) => i + 1 \in 1 .. Len(s)
    BY <2>1
  <2> QED
    BY <1>1, <2>1, <2>2 DEF Framed
<1>3. Carries(s, 0, <<>>) /\ Whole(s)
  BY <1>1 DEF Carries, Places, Whole
<1>4. \A ops : Frames(s, ops) = 0
  BY <1>1, NoFrames
<1>5. Counted(s, 0, <<>>)
  <2>1. Len(<<>>) = 0 /\ Frames(s, MessageOps) = 0
    BY <1>4
  <2> QED
    BY <2>1 DEF Counted
<1>6. ~HasClose(s) /\ ClosesLast(s)
  <2>1. CloseFrame[1] = Header("CLOSE", TRUE, 0)
    BY CloseFrameFacts
  <2>2. CloseFrame[1].kind = "head"
    BY <2>1 DEF Header
  <2> QED
    BY <1>1, <2>2 DEF HasClose, ClosesLast
<1> QED
  BY <1>2, <1>3, <1>4, <1>5, <1>6 DEF Complete

-----------------------------------------------------------------------------
(* The inductive invariant.                                                *)

States == {"CONNECTING", "OPEN", "CLOSING", "CLOSED"}
Sockets == {"open", "closed", "null"}
Points == {"idle", "recv", "send", "dispatch", "gone"}

ControlTypes ==
  /\ mReadyState \in [Node -> States] /\ mConnectionPhase \in [Node -> Phases]
  /\ mSocket \in [Node -> Sockets] /\ pc \in [Node -> Points]
  /\ nonblocking \in [Node -> BOOLEAN] /\ deleting \in [Node -> BOOLEAN]
  /\ eof \in [Node -> BOOLEAN]

StreamTypes ==
  /\ mReceiveBuffer \in [Node -> Seq(Unit)] /\ mTransmitBuffer \in [Node -> Seq(Unit)]
  /\ wire \in [Node -> Seq(Unit)]
  /\ mReceivedData = [e \in Node |-> <<>>]
  /\ sent \in [Node -> Seq(Messages)] /\ delivered \in [Node -> Seq(Message)]
  /\ pings \in [Node -> 0 .. MaxPings] /\ pongs \in [Node -> Nat]
  /\ \A e \in Node : Len(sent[e]) <= MaxMessages

\* Sockets, state and control point of an end, and what its peer sees of them.
ControlOf(e) ==
  /\ eof[Peer(e)] = (mSocket[e] # "open")
  /\ mSocket[e] # "open" => wire[e] = <<>>
  /\ mSocket[e] = "open" => pc[e] # "gone"
  /\ pc[e] # "gone" /\ mReadyState[e] # "CLOSED" => mSocket[e] = "open"
  /\ pc[e] \in {"recv", "send"} => mReadyState[e] \in {"OPEN", "CLOSING"}
  /\ pc[e] \in {"send", "dispatch"} => nonblocking[e]
  /\ mReadyState[e] = "OPEN" => nonblocking[e]
  /\ mReadyState[e] = "CONNECTING" =>
       pc[e] = "idle" /\ ~nonblocking[e] /\ mReceiveBuffer[e] = <<>>
  /\ deleting[e] => ClosingOrClosed(e)

Control == \A e \in Node : ControlOf(e)

\* What has left the other end.
In(e) == mReceiveBuffer[e] \o wire[e]

\* The lines of the answer a client still waits for.
LinesLeft ==
  [ HTTP_STATUS |-> 6, HCONNECTION_UPGRADE |-> 5, HSEC_WEBSOCKET_ACCEPT |-> 4,
    HSERVER_WEBSOCKET |-> 3, HUPGRADE_WEBSOCKET |-> 2, H |-> 1 ]

\* Each parser is where the lines on their way to it end.
Handshake ==
  /\ mConnectionPhase["server"] \in {"HTTP_STATUS", "SERVER_CLIENT_STRINGS"}
  /\ mConnectionPhase["client"] \in DOMAIN LinesLeft
  /\ nonblocking["server"] => mConnectionPhase["server"] = "SERVER_CLIENT_STRINGS"
  /\ nonblocking["client"] => mConnectionPhase["client"] = "H"
  /\ mConnectionPhase["server"] = "HTTP_STATUS" =>
       mConnectionPhase["client"] = "HTTP_STATUS" /\ In("client") = <<>>
  /\ mReadyState["client"] = "CONNECTING" /\ mConnectionPhase["server"] # "HTTP_STATUS" =>
       StartsWithLines(wire["client"], LinesLeft[mConnectionPhase["client"]])
  /\ LinesFirst(In("server"))
  /\ \A e \in Node : nonblocking[e] => NoLines(In(e))
  /\ \A e \in Node : NoLines(mTransmitBuffer[e])

\* What is or may still be on its way to e: once an end has closed, what its
\* peer has queued is never sent to it.
Inbound(e) == IF Connected THEN Stream(e) ELSE In(e)

\* The stream to e carries the messages of its peer that e was not given yet.
StreamOK(s, e) ==
  /\ Framed(s)
  /\ Carries(s, Len(delivered[e]), sent[Peer(e)])
  /\ Connected => Complete(s, Len(delivered[e]), sent[Peer(e)])

StreamInv == \A e \in Node : StreamOK(Inbound(e), e)

\* An end that has queued its close frame queues nothing more.
CloseInv ==
  \A e \in Node :
    /\ ClosesLast(Stream(e))
    /\ HasClose(Stream(e)) => ClosingOrClosed(Peer(e))

IInv ==
  /\ ControlTypes /\ StreamTypes /\ Control /\ Handshake
  /\ StreamInv /\ CloseInv /\ DeliveredInOrder
-----------------------------------------------------------------------------
\* The two ends are each other's peer.
LEMMA PeerFacts ==
  /\ Endpoint = Node
  /\ \A e \in Node : /\ Peer(e) \in Node /\ Peer(e) # e /\ Peer(Peer(e)) = e
                     /\ \A n \in Node : n = e \/ n = Peer(e)
BY ClientServerAssumption DEF Node, Peer

\* A step of one end that takes no frame for a line; between two ends of this
\* code there are no others (OnlyProperSteps).
ProperStep(e) == EndpointStep(e) /\ ~SwallowFrame(e)

\* The steps of one end, by name.
LEMMA StepCases ==
  ASSUME NEW e \in Node, ProperStep(e)
  PROVE  \/ \E op \in Kinds, len \in Lengths : Send(e, op, len)
         \/ SendPing(e)
         \/ Close(e)
         \/ Delete(e)
         \/ ConnectTimeout(e)
         \/ LongLine(e)
         \/ AcceptRequest(e)
         \/ AcceptStatus(e)
         \/ RefuseLine(e)
         \/ ServerLine(e)
         \/ ClientLine(e)
         \/ PollBegin(e)
         \/ Receive(e)
         \/ ReceiveWouldBlock(e)
         \/ ReceiveEnd(e)
         \/ SendSome(e)
         \/ SendLost(e)
         \/ SendError(e)
         \/ SendWouldBlock(e)
         \/ SendDone(e)
         \/ \E reaction \in Reactions : DispatchMessage(e, reaction)
         \/ DispatchFragment(e)
         \/ DispatchPing(e)
         \/ DispatchPong(e)
         \/ DispatchClose(e)
         \/ DispatchDone(e)
         \/ Deleted(e)
BY DEF ProperStep, EndpointStep, UserStep, PollStep, ProcessConnection, DeletedClosed,
   DeletedSlowRound

\* Every step keeps the types of ready state, place, phase and socket.
LEMMA ControlTypesStep ==
  ASSUME ControlTypes, NEW e \in Node, ProperStep(e)
  PROVE  ControlTypes'
<1>1. Peer(e) \in Node
  BY PeerFacts
<1> USE <1>1 DEF ControlTypes, ClosingOrClosed, States, Sockets, Points,
       connectionVars, bufferVars, netVars, historyVars
<1>2. CASE \E op \in Kinds, len \in Lengths : Send(e, op, len)
  BY <1>2 DEF Send, SendMessage
<1>3. CASE SendPing(e)
  BY <1>3 DEF SendPing
<1>4. CASE Close(e)
  BY <1>4 DEF Close, DoClose
<1>5. CASE Delete(e)
  BY <1>5 DEF Delete, DoClose, Idle
<1>6. CASE ConnectTimeout(e)
  BY <1>6 DEF ConnectTimeout, CanConnect, GiveUp, HangUp
<1>7. CASE LongLine(e)
  BY <1>7 DEF LongLine, AtLine, CanConnect, GiveUp, HangUp
<1>8. CASE AcceptRequest(e)
  BY <1>8 DEF AcceptRequest, HasLine, AtLine, CanConnect, Phases
<1>9. CASE AcceptStatus(e)
  BY <1>9 DEF AcceptStatus, HasLine, AtLine, CanConnect, Phases, NextPhase
<1>10. CASE RefuseLine(e)
  BY <1>10 DEF RefuseLine, HasLine, AtLine, CanConnect, GiveUp, HangUp
<1>11. CASE ServerLine(e)
  BY <1>11 DEF ServerLine, HasLine, AtLine, CanConnect, Opened
<1>12. CASE ClientLine(e)
  <2>1. \A phase \in DOMAIN NextPhase : NextPhase[phase] \in Phases
    BY DEF Phases, NextPhase
  <2> QED
    BY <1>12, <2>1 DEF ClientLine, HasLine, AtLine, CanConnect, Opened
<1>13. CASE PollBegin(e)
  BY <1>13 DEF PollBegin, At, Goto
<1>14. CASE Receive(e)
  BY <1>14 DEF Receive, At
<1>15. CASE ReceiveWouldBlock(e)
  BY <1>15 DEF ReceiveWouldBlock, At, Goto
<1>16. CASE ReceiveEnd(e)
  BY <1>16 DEF ReceiveEnd, At, Goto, Drop, HangUp
<1>17. CASE SendSome(e)
  BY <1>17 DEF SendSome, At, PeerClosed
<1>18. CASE SendLost(e)
  BY <1>18 DEF SendLost, At
<1>19. CASE SendError(e)
  BY <1>19 DEF SendError, At, Goto, Drop, HangUp
<1>20. CASE SendWouldBlock(e)
  BY <1>20 DEF SendWouldBlock, At, Goto, AfterSend
<1>21. CASE SendDone(e)
  BY <1>21 DEF SendDone, At, Goto, AfterSend, Drop, HangUp
<1>22. CASE \E reaction \in Reactions : DispatchMessage(e, reaction)
  BY <1>22, SMTT(30) DEF DispatchMessage, Dispatching, At, Consumed, Reaction, DoClose
<1>23. CASE DispatchFragment(e)
  BY <1>23 DEF DispatchFragment, Dispatching, At, Consumed
<1>24. CASE DispatchPing(e)
  BY <1>24 DEF DispatchPing, Dispatching, At, Consumed
<1>25. CASE DispatchPong(e)
  BY <1>25 DEF DispatchPong, Dispatching, At, Consumed
<1>26. CASE DispatchClose(e)
  BY <1>26 DEF DispatchClose, Dispatching, At, Goto, DoClose
<1>27. CASE DispatchDone(e)
  BY <1>27 DEF DispatchDone, At, Goto
<1>28. CASE Deleted(e)
  BY <1>28 DEF Deleted, HangUp
<1> QED
  BY <1>2, <1>3, <1>4, <1>5, <1>6, <1>7, <1>8, <1>9, <1>10, <1>11, <1>12, <1>13, <1>14,
     <1>15, <1>16, <1>17, <1>18, <1>19, <1>20, <1>21, <1>22, <1>23, <1>24, <1>25, <1>26,
     <1>27, <1>28, StepCases

\* Sockets, states and control points keep together.
LEMMA ControlStep ==
  ASSUME ControlTypes, StreamTypes, Control, NEW e \in Node, ProperStep(e)
  PROVE  Control'
<1> DEFINE p == Peer(e)
<1>1. p \in Node /\ p # e /\ Peer(e) = p /\ Peer(p) = e /\ \A n \in Node : n = e \/ n = p
  BY PeerFacts
<1> HIDE DEF p
<1>2. ControlOf(e) /\ ControlOf(p)
  BY <1>1 DEF Control
<1>3. /\ mReadyState \in [Node -> States] /\ mSocket \in [Node -> Sockets]
      /\ pc \in [Node -> Points] /\ nonblocking \in [Node -> BOOLEAN]
      /\ deleting \in [Node -> BOOLEAN] /\ eof \in [Node -> BOOLEAN]
      /\ DOMAIN mReceiveBuffer = Node /\ DOMAIN wire = Node
  BY DEF ControlTypes, StreamTypes
<1> SUFFICES ControlOf(e)' /\ ControlOf(p)'
  BY <1>1 DEF Control
<1> USE <1>1, <1>2, <1>3 DEF ControlOf, ClosingOrClosed, States, Sockets, Points,
        connectionVars, bufferVars, netVars, historyVars
<1>4. CASE \E op \in Kinds, len \in Lengths : Send(e, op, len)
  <2>1. ControlOf(e)'
    BY <1>4 DEF Send, SendMessage
  <2>2. ControlOf(p)'
    BY <1>4 DEF Send, SendMessage
  <2> QED
    BY <2>1, <2>2
<1>5. CASE SendPing(e)
  <2>1. ControlOf(e)'
    BY <1>5 DEF SendPing
  <2>2. ControlOf(p)'
    BY <1>5 DEF SendPing
  <2> QED
    BY <2>1, <2>2
<1>6. CASE Close(e)
  <2>1. ControlOf(e)'
    BY <1>6 DEF Close, DoClose
  <2>2. ControlOf(p)'
    BY <1>6 DEF Close, DoClose
  <2> QED
    BY <2>1, <2>2
<1>7. CASE Delete(e)
  <2>1. ControlOf(e)'
    BY <1>7 DEF Delete, DoClose, Idle
  <2>2. ControlOf(p)'
    BY <1>7 DEF Delete, DoClose, Idle
  <2> QED
    BY <2>1, <2>2
<1>8. CASE ConnectTimeout(e)
  <2>1. ControlOf(e)'
    BY <1>8 DEF ConnectTimeout, CanConnect, GiveUp, HangUp
  <2>2. ControlOf(p)'
    BY <1>8 DEF ConnectTimeout, CanConnect, GiveUp, HangUp
  <2> QED
    BY <2>1, <2>2
<1>9. CASE LongLine(e)
  <2>1. ControlOf(e)'
    BY <1>9 DEF LongLine, AtLine, CanConnect, GiveUp, HangUp
  <2>2. ControlOf(p)'
    BY <1>9 DEF LongLine, AtLine, CanConnect, GiveUp, HangUp
  <2> QED
    BY <2>1, <2>2
<1>10. CASE AcceptRequest(e)
  <2>1. ControlOf(e)'
    BY <1>10 DEF AcceptRequest, HasLine, AtLine, CanConnect
  <2>2. ControlOf(p)'
    BY <1>10 DEF AcceptRequest, HasLine, AtLine, CanConnect
  <2> QED
    BY <2>1, <2>2
<1>11. CASE AcceptStatus(e)
  <2>1. ControlOf(e)'
    BY <1>11 DEF AcceptStatus, HasLine, AtLine, CanConnect
  <2>2. ControlOf(p)'
    BY <1>11 DEF AcceptStatus, HasLine, AtLine, CanConnect
  <2> QED
    BY <2>1, <2>2
<1>12. CASE RefuseLine(e)
  <2>1. ControlOf(e)'
    BY <1>12 DEF RefuseLine, HasLine, AtLine, CanConnect, GiveUp, HangUp
  <2>2. ControlOf(p)'
    BY <1>12 DEF RefuseLine, HasLine, AtLine, CanConnect, GiveUp, HangUp
  <2> QED
    BY <2>1, <2>2
<1>13. CASE ServerLine(e)
  <2>1. ControlOf(e)'
    BY <1>13 DEF ServerLine, HasLine, AtLine, CanConnect, Opened
  <2>2. ControlOf(p)'
    BY <1>13 DEF ServerLine, HasLine, AtLine, CanConnect, Opened
  <2> QED
    BY <2>1, <2>2
<1>14. CASE ClientLine(e)
  <2>1. ControlOf(e)'
    BY <1>14 DEF ClientLine, HasLine, AtLine, CanConnect, Opened
  <2>2. ControlOf(p)'
    BY <1>14 DEF ClientLine, HasLine, AtLine, CanConnect, Opened
  <2> QED
    BY <2>1, <2>2
<1>15. CASE PollBegin(e)
  <2>1. ControlOf(e)'
    BY <1>15 DEF PollBegin, At, Goto
  <2>2. ControlOf(p)'
    BY <1>15 DEF PollBegin, At, Goto
  <2> QED
    BY <2>1, <2>2
<1>16. CASE Receive(e)
  <2>1. ControlOf(e)'
    BY <1>16 DEF Receive, At
  <2>2. ControlOf(p)'
    BY <1>16 DEF Receive, At
  <2> QED
    BY <2>1, <2>2
<1>17. CASE ReceiveWouldBlock(e)
  <2>1. ControlOf(e)'
    BY <1>17 DEF ReceiveWouldBlock, At, Goto
  <2>2. ControlOf(p)'
    BY <1>17 DEF ReceiveWouldBlock, At, Goto
  <2> QED
    BY <2>1, <2>2
<1>18. CASE ReceiveEnd(e)
  <2>1. ControlOf(e)'
    BY <1>18 DEF ReceiveEnd, At, Goto, Drop, HangUp
  <2>2. ControlOf(p)'
    BY <1>18 DEF ReceiveEnd, At, Goto, Drop, HangUp
  <2> QED
    BY <2>1, <2>2
<1>19. CASE SendSome(e)
  <2>1. ControlOf(e)'
    BY <1>19 DEF SendSome, At, PeerClosed
  <2>2. ControlOf(p)'
    BY <1>19 DEF SendSome, At, PeerClosed
  <2> QED
    BY <2>1, <2>2
<1>20. CASE SendLost(e)
  <2>1. ControlOf(e)'
    BY <1>20 DEF SendLost, At
  <2>2. ControlOf(p)'
    BY <1>20 DEF SendLost, At
  <2> QED
    BY <2>1, <2>2
<1>21. CASE SendError(e)
  <2>1. ControlOf(e)'
    BY <1>21 DEF SendError, At, Goto, Drop, HangUp
  <2>2. ControlOf(p)'
    BY <1>21 DEF SendError, At, Goto, Drop, HangUp
  <2> QED
    BY <2>1, <2>2
<1>22. CASE SendWouldBlock(e)
  <2>1. ControlOf(e)'
    BY <1>22 DEF SendWouldBlock, At, Goto, AfterSend
  <2>2. ControlOf(p)'
    BY <1>22 DEF SendWouldBlock, At, Goto, AfterSend
  <2> QED
    BY <2>1, <2>2
<1>23. CASE SendDone(e)
  <2>1. ControlOf(e)'
    BY <1>23 DEF SendDone, At, Goto, AfterSend, Drop, HangUp
  <2>2. ControlOf(p)'
    BY <1>23 DEF SendDone, At, Goto, AfterSend, Drop, HangUp
  <2> QED
    BY <2>1, <2>2
<1>24. CASE \E reaction \in Reactions : DispatchMessage(e, reaction)
  <2>1. ControlOf(e)'
    BY <1>24 DEF DispatchMessage, Dispatching, At, Consumed, Reaction, DoClose
  <2>2. ControlOf(p)'
    BY <1>24 DEF DispatchMessage, Dispatching, At, Consumed, Reaction, DoClose
  <2> QED
    BY <2>1, <2>2
<1>25. CASE DispatchFragment(e)
  <2>1. ControlOf(e)'
    BY <1>25 DEF DispatchFragment, Dispatching, At, Consumed
  <2>2. ControlOf(p)'
    BY <1>25 DEF DispatchFragment, Dispatching, At, Consumed
  <2> QED
    BY <2>1, <2>2
<1>26. CASE DispatchPing(e)
  <2>1. ControlOf(e)'
    BY <1>26 DEF DispatchPing, Dispatching, At, Consumed
  <2>2. ControlOf(p)'
    BY <1>26 DEF DispatchPing, Dispatching, At, Consumed
  <2> QED
    BY <2>1, <2>2
<1>27. CASE DispatchPong(e)
  <2>1. ControlOf(e)'
    BY <1>27 DEF DispatchPong, Dispatching, At, Consumed
  <2>2. ControlOf(p)'
    BY <1>27 DEF DispatchPong, Dispatching, At, Consumed
  <2> QED
    BY <2>1, <2>2
<1>28. CASE DispatchClose(e)
  <2>1. ControlOf(e)'
    BY <1>28 DEF DispatchClose, Dispatching, At, Goto, DoClose
  <2>2. ControlOf(p)'
    BY <1>28 DEF DispatchClose, Dispatching, At, Goto, DoClose
  <2> QED
    BY <2>1, <2>2
<1>29. CASE DispatchDone(e)
  <2>1. ControlOf(e)'
    BY <1>29 DEF DispatchDone, At, Goto
  <2>2. ControlOf(p)'
    BY <1>29 DEF DispatchDone, At, Goto
  <2> QED
    BY <2>1, <2>2
<1>30. CASE Deleted(e)
  <2>1. ControlOf(e)'
    BY <1>30 DEF Deleted, HangUp
  <2>2. ControlOf(p)'
    BY <1>30 DEF Deleted, HangUp
  <2> QED
    BY <2>1, <2>2
<1> QED
  BY <1>4, <1>5, <1>6, <1>7, <1>8, <1>9, <1>10, <1>11, <1>12, <1>13, <1>14, <1>15,
     <1>16, <1>17, <1>18, <1>19, <1>20, <1>21, <1>22, <1>23, <1>24, <1>25, <1>26, <1>27,
     <1>28, <1>29, <1>30, StepCases
-----------------------------------------------------------------------------
(* What the steps do to the streams.                                       *)

Rest(e) == IF Connected THEN wire[e] \o mTransmitBuffer[Peer(e)] ELSE wire[e]

\* Everything between an application that sends and the one that receives is a
\* sequence of units, of which the receive buffer is the front.
LEMMA InboundParts ==
  ASSUME StreamTypes, NEW e \in Node
  PROVE  /\ mReceiveBuffer[e] \in Seq(Unit) /\ wire[e] \in Seq(Unit)
         /\ mTransmitBuffer[e] \in Seq(Unit) /\ mTransmitBuffer[Peer(e)] \in Seq(Unit)
         /\ In(e) \in Seq(Unit) /\ Stream(e) \in Seq(Unit)
         /\ Rest(e) \in Seq(Unit) /\ Inbound(e) \in Seq(Unit)
         /\ Inbound(e) = mReceiveBuffer[e] \o Rest(e)
         /\ sent[e] \in Seq(Messages) /\ sent[e] \in Seq(Message)
         /\ delivered[e] \in Seq(Message) /\ Len(delivered[e]) \in Nat
<1> DEFINE r == mReceiveBuffer[e]
           w == wire[e]
           x == mTransmitBuffer[Peer(e)]
<1>1. r \in Seq(Unit) /\ w \in Seq(Unit) /\ x \in Seq(Unit) /\ mTransmitBuffer[e] \in Seq(Unit)
  BY PeerFacts DEF StreamTypes
<1>2. sent[e] \in Seq(Messages) /\ delivered[e] \in Seq(Message)
  BY DEF StreamTypes
<1>3. sent[e] \in Seq(Message)
  <2>1. Messages \subseteq Message
    BY MessagesFacts
  <2> QED
    BY <1>2, <2>1
<1>4. Len(delivered[e]) \in Nat
  BY <1>2
<1> HIDE DEF r, w, x
<1>5. r \o w \in Seq(Unit) /\ (r \o w) \o x \in Seq(Unit) /\ w \o x \in Seq(Unit)
      /\ (r \o w) \o x = r \o (w \o x)
  BY <1>1
<1>6. In(e) = r \o w /\ Stream(e) = (r \o w) \o x
  BY DEF In, Stream, r, w, x
<1>7. Rest(e) = (IF Connected THEN w \o x ELSE w)
  BY DEF Rest, w, x
<1>8. Inbound(e) = IF Connected THEN Stream(e) ELSE In(e)
  BY DEF Inbound
<1>9. Inbound(e) = r \o Rest(e) /\ Inbound(e) \in Seq(Unit) /\ Rest(e) \in Seq(Unit)
  BY <1>1, <1>5, <1>6, <1>7, <1>8
<1> QED
  BY <1>1, <1>2, <1>3, <1>4, <1>5, <1>6, <1>9 DEF r, w, x

\* The frame at the head of the receive buffer, once the handshake is over:
\* it is one of the peer, and if it is a message it is the next one.
LEMMA HeadFrame ==
  ASSUME IInv, NEW e \in Node, nonblocking[e], HasFrame(e)
  PROVE  LET h == Head(Rx(e))
             q == sent[Peer(e)]
             d == Len(delivered[e])
         IN  /\ Rx(e) \in Seq(Unit) /\ Rx(e) # <<>> /\ Len(Rx(e)) >= 1 + h.len
             /\ h \in Unit /\ h.kind = "head" /\ h.fin /\ h.op \in Op /\ h.len \in Nat
             /\ FramePayload(e) \in Payload /\ Len(FramePayload(e)) = h.len
             /\ h.op \in MessageOps =>
                  /\ d + 1 <= Len(q) /\ h.len \in Lengths
                  /\ q[d + 1] = [text |-> h.op = "TEXT", body |-> FramePayload(e)]
<1> DEFINE r == mReceiveBuffer[e]
           w == Rest(e)
           h == Head(r)
           q == sent[Peer(e)]
           d == Len(delivered[e])
           body == SubSeq(r, 2, 1 + h.len)
<1>1. /\ r \in Seq(Unit) /\ w \in Seq(Unit) /\ Inbound(e) = r \o w /\ d \in Nat
      /\ In(e) = r \o wire[e] /\ wire[e] \in Seq(Unit)
  BY InboundParts DEF IInv, In
<1>2. q \in Seq(Messages)
  BY InboundParts, PeerFacts DEF IInv
<1>3. r # <<>> /\ Len(r) >= 1 + h.len
  BY DEF HasFrame, Rx
<1>4. Framed(r \o w) /\ Carries(r \o w, d, q)
  BY <1>1 DEF IInv, StreamInv, StreamOK
<1>5. NoLines(r \o wire[e])
  BY <1>1 DEF IInv, Handshake
<1> HIDE DEF w, q, d
<1>6. h \in Unit /\ h.kind = "head" /\ h.len \in Nat
  <2>1. h \in Unit /\ Len(r) >= 1 /\ h = r[1]
    BY <1>1, <1>3
  <2> DEFINE u == wire[e]
  <2>a. r \in Seq(Unit) /\ w \in Seq(Unit) /\ u \in Seq(Unit) /\ Len(r) >= 1 /\ h = r[1]
    BY <1>1, <2>1
  <2> HIDE DEF r, h, u
  <2>b. r \o w # <<>> /\ (r \o w)[1] = h /\ 1 \in 1 .. Len(r \o u) /\ (r \o u)[1] = h
    BY <2>a
  <2>2. /\ r \o w # <<>> /\ (r \o w)[1] = h
        /\ 1 \in 1 .. Len(r \o wire[e]) /\ (r \o wire[e])[1] = h
    BY <2>b DEF u
  <2>3. h.kind # "data" /\ h.kind # "line"
    BY <1>4, <1>5, <2>2 DEF Framed, NoLines
  <2> QED
    BY <2>1, <2>3 DEF Unit, FrameUnit
<1> HIDE DEF r, h
<1>7. /\ h.fin /\ h.op \in Op /\ body \in Payload /\ Len(body) = h.len
      /\ h.op \in MessageOps =>
           /\ d + 1 <= Len(q)
           /\ q[d + 1].text = (h.op = "TEXT")
           /\ Len(q[d + 1].body) = h.len
           /\ \A j \in 1 .. h.len : body[j] = q[d + 1].body[j]
  <2>1. /\ r \in Seq(Unit) /\ w \in Seq(Unit) /\ d \in Nat
        /\ Framed(r \o w) /\ Carries(r \o w, d, q)
        /\ r # <<>> /\ Head(r).kind = "head" /\ Len(r) >= 1 + Head(r).len
    BY <1>1, <1>3, <1>4, <1>6 DEF h
  <2>2. /\ Head(r).fin /\ Head(r).op \in Op
        /\ SubSeq(r, 2, 1 + Head(r).len) \in Payload
        /\ Len(SubSeq(r, 2, 1 + Head(r).len)) = Head(r).len
        /\ Head(r).op \in MessageOps =>
             /\ d + 1 <= Len(q)
             /\ q[d + 1].text = (Head(r).op = "TEXT")
             /\ Len(q[d + 1].body) = Head(r).len
             /\ \A j \in 1 .. Head(r).len :
                  SubSeq(r, 2, 1 + Head(r).len)[j] = q[d + 1].body[j]
    <3>1. FrameAhead(r, d, q)
      BY <2>1, FrameTaken
    <3> HIDE DEF r
    <3> QED
      BY <3>1 DEF FrameAhead
  <2>3. Head(r) = h
    BY DEF h
  <2> QED
    BY <2>2, <2>3
<1>8. ASSUME h.op \in MessageOps
      PROVE  /\ d + 1 <= Len(q) /\ h.len \in Lengths
             /\ q[d + 1] = [text |-> h.op = "TEXT", body |-> body]
  <2> DEFINE m == q[d + 1]
  <2>1. /\ d + 1 <= Len(q) /\ m.text = (h.op = "TEXT") /\ Len(m.body) = h.len
        /\ \A j \in 1 .. h.len : body[j] = m.body[j]
    BY <1>7, <1>8
  <2>2. m \in Messages
    BY <1>1, <1>2, <2>1
  <2> HIDE DEF m, body
  <2>3. m \in Message /\ m.body \in Payload /\ Len(m.body) \in Lengths
    BY <2>2, MessagesFacts
  <2>4. body \in Seq(Unit) /\ m.body \in Seq(Unit) /\ Len(body) = h.len
    BY <1>7, <2>3 DEF Payload
  <2>5. m.body = body
    <3>1. /\ body \in Seq(Unit) /\ m.body \in Seq(Unit) /\ Len(body) = Len(m.body)
          /\ \A j \in 1 .. Len(body) : body[j] = m.body[j]
      BY <2>1, <2>4
    <3> QED
      BY <3>1, SeqEqual
  <2>6. m = [text |-> m.text, body |-> m.body]
    BY <2>3 DEF Message
  <2> QED
    BY <2>1, <2>3, <2>5, <2>6 DEF m
<1>9. Rx(e) = r /\ FramePayload(e) = body /\ Head(Rx(e)) = h
  BY DEF Rx, FramePayload, r, h
<1> QED
  BY <1>1, <1>3, <1>6, <1>7, <1>8, <1>9 DEF q, d

\* Each class is one way a step of e changes the streams.
streamVars == <<mReceiveBuffer, mTransmitBuffer, wire, mSocket, sent, delivered, pings, pongs>>

Queue(e, op, body) ==
  /\ ~ClosingOrClosed(e)
  /\ mTransmitBuffer' = [mTransmitBuffer EXCEPT ![e] = @ \o Frame(op, TRUE, body)]
  /\ sent' = [sent EXCEPT ![e] = Given(@, op, body)]
  /\ op \in MessageOps =>
       Len(sent[e]) < MaxMessages /\ [text |-> op = "TEXT", body |-> body] \in Messages
  /\ op = "CLOSE" => ClosingOrClosed(e)'

Queues(e) ==
  /\ \E op \in Op \ {"PONG"}, body \in Payload :
       /\ Queue(e, op, body)
       /\ pings' = [pings EXCEPT ![e] = IF op = "PING" THEN @ + 1 ELSE @]
       /\ op = "PING" => pings[e] < MaxPings
  /\ UNCHANGED <<mReceiveBuffer, wire, mSocket, delivered, pongs>>

Receives(e) ==
  /\ wire[e] # <<>> /\ mReadyState[e] # "CONNECTING"
  /\ mReceiveBuffer' = [mReceiveBuffer EXCEPT ![e] = Append(@, Head(wire[e]))]
  /\ wire' = [wire EXCEPT ![e] = Tail(@)]
  /\ UNCHANGED <<mTransmitBuffer, mSocket, sent, delivered, pings, pongs>>

Sends(e) ==
  /\ Connected /\ nonblocking[e] /\ mTransmitBuffer[e] # <<>>
  /\ wire' = [wire EXCEPT ![Peer(e)] = Append(@, Head(mTransmitBuffer[e]))]
  /\ mTransmitBuffer' = [mTransmitBuffer EXCEPT ![e] = Tail(@)]
  /\ UNCHANGED <<mReceiveBuffer, mSocket, sent, delivered, pings, pongs>>

Loses(e) ==
  /\ ~Connected /\ mTransmitBuffer[e] # <<>>
  /\ mTransmitBuffer' = [mTransmitBuffer EXCEPT ![e] = Tail(@)]
  /\ UNCHANGED <<mReceiveBuffer, wire, mSocket, sent, delivered, pings, pongs>>

HangsUp(e) ==
  /\ \E s \in Sockets \ {"open"} : mSocket' = [mSocket EXCEPT ![e] = s]
  /\ wire' = [wire EXCEPT ![e] = <<>>]
  /\ UNCHANGED <<mReceiveBuffer, mTransmitBuffer, sent, delivered, pings, pongs>>

TakesLine(e) ==
  /\ HasLine(e) /\ (AcceptStatus(e) \/ ServerLine(e) \/ ClientLine(e))
  /\ wire' = [wire EXCEPT ![e] = Tail(@)]
  /\ UNCHANGED <<mReceiveBuffer, mTransmitBuffer, mSocket, sent, delivered, pings, pongs>>

Dispatches(e) ==
  /\ nonblocking[e] /\ HasFrame(e)
  /\ mReceiveBuffer' = Consumed(e)
  /\ delivered' =
       [delivered EXCEPT ![e] =
          IF Head(Rx(e)).op \in MessageOps
          THEN Append(@, [text |-> Head(Rx(e)).op = "TEXT", body |-> FramePayload(e)]) ELSE @]
  /\ pongs' = [pongs EXCEPT ![e] = IF Head(Rx(e)).op = "PONG" THEN @ + 1 ELSE @]
  /\ \/ /\ Head(Rx(e)).op = "PING" => ClosingOrClosed(e)
        /\ UNCHANGED <<mTransmitBuffer, sent>>
     \/ \E op \in Op \ {"PING"}, body \in Payload :
          Queue(e, op, body) /\ (op = "PONG" <=> Head(Rx(e)).op = "PING")
  /\ UNCHANGED <<wire, mSocket, pings>>

\* sendText() and sendBinary() queue a frame or refuse.
LEMMA SendMessageQueues ==
  ASSUME StreamTypes, NEW e \in Node, NEW op \in {"TEXT", "BINARY"}, NEW len \in Lengths,
         Len(sent[e]) < MaxMessages, SendMessage(e, op, len)
  PROVE  \/ UNCHANGED <<mTransmitBuffer, sent>>
         \/ \E body \in Payload : Queue(e, op, body)
<1> DEFINE k == Len(sent[e]) + 1
           body == Body(k, len)
<1>1. k \in Nat /\ k \in 1 .. MaxMessages /\ len \in Nat
  BY EndpointAssumption DEF StreamTypes
<1>2. body \in Payload
  BY <1>1, BodyFacts
<1>3. op \in MessageOps /\ op # "CLOSE" /\ (op = "TEXT") \in BOOLEAN
  BY DEF MessageOps
<1>4. [text |-> op = "TEXT", body |-> body] \in Messages
  <2> DEFINE t == op = "TEXT"
  <2>1. t \in BOOLEAN
    BY <1>3
  <2> HIDE DEF t
  <2>2. [text |-> t, body |-> Body(k, len)] \in Messages
    BY <1>1, <2>1 DEF Messages
  <2> QED
    BY <2>2 DEF t
<1> HIDE DEF body
<1>5. /\ mTransmitBuffer' = [mTransmitBuffer EXCEPT ![e] =
                               IF ClosingOrClosed(e) THEN @ ELSE @ \o Frame(op, TRUE, body)]
      /\ sent' = IF ClosingOrClosed(e) THEN sent
                 ELSE [sent EXCEPT ![e] = Append(@, [text |-> op = "TEXT", body |-> body])]
  BY DEF SendMessage, SendData, body
<1>6. DOMAIN mTransmitBuffer = Node /\ mTransmitBuffer = [n \in Node |-> mTransmitBuffer[n]]
  BY DEF StreamTypes
<1>7. CASE ClosingOrClosed(e)
  <2>1. mTransmitBuffer' = [mTransmitBuffer EXCEPT ![e] = mTransmitBuffer[e]] /\ sent' = sent
    BY <1>5, <1>7
  <2>2. mTransmitBuffer' = mTransmitBuffer
    BY <1>6, <2>1
  <2> QED
    BY <2>1, <2>2
<1>8. CASE ~ClosingOrClosed(e)
  <2>1. Queue(e, op, body)
    BY <1>3, <1>4, <1>5, <1>8 DEF Queue, Given
  <2> QED
    BY <1>2, <2>1
<1> QED
  BY <1>7, <1>8

\* close() queues a close frame or has nothing to do.
LEMMA DoCloseQueues ==
  ASSUME StreamTypes, ControlTypes, NEW e \in Node, DoClose(e), UNCHANGED sent
  PROVE  \/ UNCHANGED <<mTransmitBuffer, sent>>
         \/ \E body \in Payload : Queue(e, "CLOSE", body)
<1>1. DOMAIN mTransmitBuffer = Node /\ mTransmitBuffer = [n \in Node |-> mTransmitBuffer[n]]
      /\ DOMAIN sent = Node /\ sent = [n \in Node |-> sent[n]] /\ DOMAIN mReadyState = Node
  BY DEF StreamTypes, ControlTypes
<1>2. <<>> \in Payload /\ CloseFrame = Frame("CLOSE", TRUE, <<>>) /\ "CLOSE" \notin MessageOps
  BY CloseFrameFacts DEF MessageOps
<1>3. CASE ClosingOrClosed(e)
  BY <1>1, <1>3 DEF DoClose
<1>4. CASE ~ClosingOrClosed(e)
  <2>1. Queue(e, "CLOSE", <<>>)
    BY <1>1, <1>2, <1>4 DEF DoClose, Queue, Given, ClosingOrClosed
  <2> QED
    BY <1>2, <2>1
<1> QED
  BY <1>3, <1>4

Class(e) ==
  \/ UNCHANGED streamVars
  \/ Queues(e)
  \/ Receives(e)
  \/ Sends(e)
  \/ Loses(e)
  \/ HangsUp(e)
  \/ TakesLine(e)
  \/ AcceptRequest(e)
  \/ Dispatches(e)

\* Every step is of one of the classes.
LEMMA StepClass ==
  ASSUME IInv, NEW e \in Node, ProperStep(e)
  PROVE  Class(e) /\ UNCHANGED mReceivedData
<1> DEFINE p == Peer(e)
<1>a. p \in Node /\ p # e /\ Peer(e) = p /\ Peer(p) = e /\ \A n \in Node : n = e \/ n = p
  BY PeerFacts
<1>b. ControlOf(e) /\ ControlOf(p)
  BY <1>a DEF IInv, Control
<1>c. ControlTypes /\ StreamTypes
  BY DEF IInv
<1>d. /\ DOMAIN mReceiveBuffer = Node /\ DOMAIN wire = Node /\ DOMAIN mTransmitBuffer = Node
      /\ DOMAIN mReceivedData = Node /\ mReceivedData[e] = <<>>
      /\ DOMAIN sent = Node /\ DOMAIN delivered = Node /\ DOMAIN pings = Node
      /\ DOMAIN pongs = Node /\ DOMAIN mSocket = Node /\ mSocket[e] \in Sockets
      /\ mSocket[p] \in Sockets
  BY <1>a, <1>c DEF StreamTypes, ControlTypes
<1>e. Connected <=> mSocket[e] = "open" /\ mSocket[p] = "open"
  BY <1>a, PeerFacts DEF Connected
<1>f. nonblocking[e] /\ HasFrame(e) =>
        LET h == Head(Rx(e))
        IN  /\ h.fin /\ h.op \in Op /\ FramePayload(e) \in Payload
            /\ h.op \in MessageOps => h.len \in Lengths
  BY HeadFrame
<1> HIDE DEF p
<1>1. CASE \E op \in Kinds, len \in Lengths : Send(e, op, len)
  <2>1. PICK op \in Kinds, len \in Lengths : Send(e, op, len)
    BY <1>1
  <2>2. op \in {"TEXT", "BINARY"} /\ op \in Op \ {"PONG"} /\ op # "PING"
    BY EndpointAssumption DEF Op, ControlOps
  <2>3. \/ UNCHANGED <<mTransmitBuffer, sent>>
        \/ \E body \in Payload : Queue(e, op, body)
    BY <1>c, <2>1, <2>2, SendMessageQueues DEF Send
  <2>4. UNCHANGED <<mReceiveBuffer, wire, mSocket, delivered, pings, pongs, mReceivedData>>
    BY <2>1 DEF Send, netVars
  <2>5. UNCHANGED streamVars \/ Queues(e)
    <3>1. pings = [pings EXCEPT ![e] = pings[e]]
      BY <1>c DEF StreamTypes
    <3> QED
      BY <2>2, <2>3, <2>4, <3>1 DEF Queues, streamVars
  <2> QED
    BY <2>4, <2>5 DEF Class
<1>2. CASE SendPing(e)
  <2>1. UNCHANGED <<mReceiveBuffer, wire, mSocket, sent, delivered, pongs, mReceivedData>>
    BY <1>2 DEF SendPing, netVars
  <2>2. /\ mTransmitBuffer' = [mTransmitBuffer EXCEPT ![e] =
                                 IF ClosingOrClosed(e) THEN @ ELSE @ \o Frame("PING", TRUE, <<>>)]
        /\ pings' = [pings EXCEPT ![e] = IF ClosingOrClosed(e) THEN @ ELSE @ + 1]
        /\ pings[e] < MaxPings
    BY <1>2 DEF SendPing, SendData
  <2>3. CASE ClosingOrClosed(e)
    <3>1. UNCHANGED <<mTransmitBuffer, pings>>
      BY <1>c, <2>2, <2>3 DEF StreamTypes
    <3>2. UNCHANGED streamVars
      BY <2>1, <3>1 DEF streamVars
    <3> QED
      BY <2>1, <3>2 DEF Class
  <2>4. CASE ~ClosingOrClosed(e)
    <3>1. "PING" \in Op \ {"PONG"} /\ "PING" \notin MessageOps /\ <<>> \in Payload
      BY CloseFrameFacts DEF Op, ControlOps, MessageOps
    <3>2. sent = [sent EXCEPT ![e] = sent[e]]
      BY <1>c DEF StreamTypes
    <3>3. Queue(e, "PING", <<>>)
      BY <2>1, <2>2, <2>4, <3>1, <3>2 DEF Queue, Given
    <3>4. pings' = [pings EXCEPT ![e] = IF "PING" = "PING" THEN @ + 1 ELSE @]
      BY <2>2, <2>4
    <3>5. Queues(e)
      BY <2>1, <2>2, <3>1, <3>3, <3>4 DEF Queues
    <3> QED
      BY <2>1, <3>5 DEF Class
  <2> QED
    BY <2>3, <2>4
<1>3. CASE Close(e)
  <2>1. DoClose(e) /\ UNCHANGED <<mReceiveBuffer, wire, mSocket, sent, delivered, pings, pongs,
                                  mReceivedData>>
    BY <1>3 DEF Close, netVars, historyVars
  <2>2. \/ UNCHANGED <<mTransmitBuffer, sent>>
        \/ \E body \in Payload : Queue(e, "CLOSE", body)
    BY <1>c, <2>1, DoCloseQueues
  <2>3. UNCHANGED streamVars \/ Queues(e)
    <3>1. pings = [pings EXCEPT ![e] = pings[e]] /\ "CLOSE" \in Op \ {"PONG"}
      BY <1>c DEF StreamTypes, Op, ControlOps
    <3> QED
      BY <2>1, <2>2, <3>1 DEF Queues, streamVars
  <2> QED
    BY <2>1, <2>3 DEF Class
<1>4. CASE Delete(e)
  <2>1. DoClose(e) /\ UNCHANGED <<mReceiveBuffer, wire, mSocket, sent, delivered, pings, pongs,
                                  mReceivedData>>
    BY <1>4 DEF Delete, netVars, historyVars
  <2>2. \/ UNCHANGED <<mTransmitBuffer, sent>>
        \/ \E body \in Payload : Queue(e, "CLOSE", body)
    BY <1>c, <2>1, DoCloseQueues
  <2>3. UNCHANGED streamVars \/ Queues(e)
    <3>1. pings = [pings EXCEPT ![e] = pings[e]] /\ "CLOSE" \in Op \ {"PONG"}
      BY <1>c DEF StreamTypes, Op, ControlOps
    <3> QED
      BY <2>1, <2>2, <3>1 DEF Queues, streamVars
  <2> QED
    BY <2>1, <2>3 DEF Class
<1>5. CASE ConnectTimeout(e)
  <2>1. HangsUp(e) /\ UNCHANGED mReceivedData
    BY <1>a, <1>b, <1>d, <1>e, <1>5 DEF ConnectTimeout, CanConnect, GiveUp, HangUp,
       HangsUp, Sockets, connectionVars, bufferVars, netVars, historyVars
  <2> QED
    BY <2>1 DEF Class
<1>6. CASE LongLine(e)
  <2>1. HangsUp(e) /\ UNCHANGED mReceivedData
    BY <1>a, <1>b, <1>d, <1>e, <1>6 DEF LongLine, AtLine, CanConnect, GiveUp, HangUp,
       HangsUp, Sockets, connectionVars, bufferVars, netVars, historyVars
  <2> QED
    BY <2>1 DEF Class
<1>7. CASE AcceptRequest(e)
  BY <1>7 DEF AcceptRequest, bufferVars, Class
<1>8. CASE AcceptStatus(e)
  <2>1. TakesLine(e) /\ UNCHANGED mReceivedData
    BY <1>a, <1>b, <1>d, <1>e, <1>8 DEF AcceptStatus, TakesLine, connectionVars,
       bufferVars, netVars, historyVars
  <2> QED
    BY <2>1 DEF Class
<1>9. CASE RefuseLine(e)
  <2>1. HangsUp(e) /\ UNCHANGED mReceivedData
    BY <1>a, <1>b, <1>d, <1>e, <1>9 DEF RefuseLine, HasLine, AtLine, CanConnect, GiveUp,
       HangUp, HangsUp, Sockets, connectionVars, bufferVars, netVars, historyVars
  <2> QED
    BY <2>1 DEF Class
<1>10. CASE ServerLine(e)
  <2>1. TakesLine(e) /\ UNCHANGED mReceivedData
    BY <1>a, <1>b, <1>d, <1>e, <1>10 DEF ServerLine, TakesLine, connectionVars,
       bufferVars, netVars, historyVars
  <2> QED
    BY <2>1 DEF Class
<1>11. CASE ClientLine(e)
  <2>1. TakesLine(e) /\ UNCHANGED mReceivedData
    BY <1>a, <1>b, <1>d, <1>e, <1>11 DEF ClientLine, TakesLine, connectionVars,
       bufferVars, netVars, historyVars
  <2> QED
    BY <2>1 DEF Class
<1>12. CASE PollBegin(e)
  <2>1. UNCHANGED streamVars /\ UNCHANGED mReceivedData
    BY <1>a, <1>b, <1>d, <1>e, <1>12 DEF PollBegin, At, Goto, streamVars,
       connectionVars, bufferVars, netVars, historyVars
  <2> QED
    BY <2>1 DEF Class
<1>13. CASE Receive(e)
  <2>1. Receives(e) /\ UNCHANGED mReceivedData
    BY <1>a, <1>b, <1>d, <1>e, <1>13 DEF Receive, At, Receives, ControlOf,
       connectionVars, bufferVars, netVars, historyVars
  <2> QED
    BY <2>1 DEF Class
<1>14. CASE ReceiveWouldBlock(e)
  <2>1. UNCHANGED streamVars /\ UNCHANGED mReceivedData
    BY <1>a, <1>b, <1>d, <1>e, <1>14 DEF ReceiveWouldBlock, At, Goto, streamVars,
       connectionVars, bufferVars, netVars, historyVars
  <2> QED
    BY <2>1 DEF Class
<1>15. CASE ReceiveEnd(e)
  <2>1. HangsUp(e) /\ UNCHANGED mReceivedData
    BY <1>a, <1>b, <1>d, <1>e, <1>15 DEF ReceiveEnd, At, Goto, Drop, HangUp, HangsUp,
       Sockets, connectionVars, bufferVars, netVars, historyVars
  <2> QED
    BY <2>1 DEF Class
<1>16. CASE SendSome(e)
  <2>1. Sends(e) /\ UNCHANGED mReceivedData
    BY <1>a, <1>b, <1>d, <1>e, <1>16 DEF SendSome, At, PeerClosed, Sends, ControlOf,
       connectionVars, bufferVars, netVars, historyVars
  <2> QED
    BY <2>1 DEF Class
<1>17. CASE SendLost(e)
  <2>1. Loses(e) /\ UNCHANGED mReceivedData
    BY <1>a, <1>b, <1>d, <1>e, <1>17 DEF SendLost, At, PeerClosed, Loses, ControlOf,
       connectionVars, bufferVars, netVars, historyVars
  <2> QED
    BY <2>1 DEF Class
<1>18. CASE SendError(e)
  <2>1. HangsUp(e) /\ UNCHANGED mReceivedData
    BY <1>a, <1>b, <1>d, <1>e, <1>18 DEF SendError, At, Goto, Drop, HangUp, HangsUp,
       Sockets, connectionVars, bufferVars, netVars, historyVars
  <2> QED
    BY <2>1 DEF Class
<1>19. CASE SendWouldBlock(e)
  <2>1. UNCHANGED streamVars /\ UNCHANGED mReceivedData
    BY <1>a, <1>b, <1>d, <1>e, <1>19 DEF SendWouldBlock, At, Goto, AfterSend,
       streamVars, connectionVars, bufferVars, netVars, historyVars
  <2> QED
    BY <2>1 DEF Class
<1>20. CASE SendDone(e)
  <2>1. UNCHANGED streamVars \/ HangsUp(e)
    BY <1>d, <1>20 DEF SendDone, Drop, HangUp, HangsUp, streamVars, Sockets,
       connectionVars, bufferVars, netVars, historyVars
  <2>2. UNCHANGED mReceivedData
    BY <1>20 DEF SendDone, bufferVars
  <2> QED
    BY <2>1, <2>2 DEF Class
<1>21. CASE \E reaction \in Reactions : DispatchMessage(e, reaction)
  <2>1. PICK reaction \in Reactions : DispatchMessage(e, reaction)
    BY <1>21
  <2>2. /\ nonblocking[e] /\ HasFrame(e) /\ Head(Rx(e)).op \in MessageOps
        /\ Head(Rx(e)).op # "PONG" /\ Head(Rx(e)).op # "PING"
    BY <1>b, <2>1 DEF DispatchMessage, Dispatching, At, ControlOf, MessageOps
  <2>3. FramePayload(e) \in Payload /\ Head(Rx(e)).len \in Lengths
    BY <1>f, <2>2
  <2>4. /\ mReceiveBuffer' = Consumed(e)
        /\ mReceivedData' = [mReceivedData EXCEPT ![e] = <<>>]
        /\ UNCHANGED <<mSocket, wire, pings, pongs>>
        /\ Reaction(e, reaction)
        /\ delivered' = [delivered EXCEPT ![e] =
              Append(@, [text |-> Head(Rx(e)).op = "TEXT",
                         body |-> mReceivedData[e] \o FramePayload(e)])]
    BY <2>1 DEF DispatchMessage, netVars
  <2>5. mReceivedData' = mReceivedData
    BY <1>c, <2>4 DEF StreamTypes
  <2>6. mReceivedData[e] \o FramePayload(e) = FramePayload(e)
    <3> DEFINE body == FramePayload(e)
    <3>1. body \in Seq(Unit)
      BY <2>3 DEF Payload
    <3> HIDE DEF body
    <3>2. <<>> \o body = body
      BY <3>1
    <3> QED
      BY <1>d, <3>2 DEF body
  <2>7. /\ delivered' =
             [delivered EXCEPT ![e] =
                IF Head(Rx(e)).op \in MessageOps
                THEN Append(@, [text |-> Head(Rx(e)).op = "TEXT", body |-> FramePayload(e)])
                ELSE @]
        /\ pongs' = [pongs EXCEPT ![e] = IF Head(Rx(e)).op = "PONG" THEN @ + 1 ELSE @]
    <3>1. pongs = [pongs EXCEPT ![e] = pongs[e]]
      BY <1>c DEF StreamTypes
    <3> QED
      BY <2>2, <2>4, <2>6, <3>1
  <2>8. \/ UNCHANGED <<mTransmitBuffer, sent>>
        \/ \E op \in Op \ {"PING", "PONG"}, body \in Payload : Queue(e, op, body)
    <3>1. CASE reaction = "none"
      BY <2>4, <3>1 DEF Reaction
    <3>2. CASE reaction = "close"
      <4>1. DoClose(e) /\ UNCHANGED sent
        BY <2>4, <3>2 DEF Reaction
      <4>2. "CLOSE" \in Op \ {"PING", "PONG"}
        BY DEF Op, ControlOps
      <4> QED
        BY <1>c, <4>1, <4>2, DoCloseQueues
    <3>3. CASE reaction = "echo"
      <4>1. SendMessage(e, "TEXT", Head(Rx(e)).len) /\ Len(sent[e]) < MaxMessages
        BY <2>4, <3>3 DEF Reaction
      <4>2. "TEXT" \in Op \ {"PING", "PONG"} /\ "TEXT" \in {"TEXT", "BINARY"}
        BY DEF Op, ControlOps
      <4> QED
        BY <1>c, <2>3, <4>1, <4>2, SendMessageQueues
    <3> QED
      BY <2>4, <3>1, <3>2, <3>3 DEF Reaction
  <2>9. \/ /\ Head(Rx(e)).op = "PING" => ClosingOrClosed(e)
           /\ UNCHANGED <<mTransmitBuffer, sent>>
        \/ \E op \in Op \ {"PING"}, body \in Payload :
             Queue(e, op, body) /\ (op = "PONG" <=> Head(Rx(e)).op = "PING")
    BY <2>2, <2>8
  <2>10. Dispatches(e)
    BY <2>2, <2>4, <2>7, <2>9 DEF Dispatches
  <2> QED
    BY <2>5, <2>10 DEF Class
<1>22. CASE DispatchFragment(e)
  <2>1. nonblocking[e] /\ HasFrame(e) /\ ~Head(Rx(e)).fin
    BY <1>b, <1>22 DEF DispatchFragment, Dispatching, At, ControlOf
  <2> QED
    BY <1>f, <2>1
<1>23. CASE DispatchPing(e)
  <2>1. nonblocking[e] /\ HasFrame(e) /\ Head(Rx(e)).op = "PING"
    BY <1>b, <1>23 DEF DispatchPing, Dispatching, At, ControlOf
  <2>2. FramePayload(e) \in Payload /\ "PONG" \in Op \ {"PING"} /\ "PONG" \notin MessageOps
        /\ "PING" \notin MessageOps
    BY <1>f, <2>1 DEF Op, ControlOps, MessageOps
  <2>3. /\ mReceiveBuffer' = Consumed(e)
        /\ UNCHANGED <<wire, mSocket, pings, sent, delivered, pongs, mReceivedData>>
        /\ mTransmitBuffer' = [mTransmitBuffer EXCEPT ![e] =
              IF ClosingOrClosed(e) THEN @ ELSE @ \o Frame("PONG", TRUE, FramePayload(e))]
    BY <1>23 DEF DispatchPing, SendData, netVars, historyVars
  <2>4. /\ sent = [sent EXCEPT ![e] = sent[e]] /\ delivered = [delivered EXCEPT ![e] = delivered[e]]
        /\ pongs = [pongs EXCEPT ![e] = pongs[e]]
    BY <1>c DEF StreamTypes
  <2>5. \/ ClosingOrClosed(e) /\ UNCHANGED <<mTransmitBuffer, sent>>
        \/ Queue(e, "PONG", FramePayload(e))
    <3>1. CASE ClosingOrClosed(e)
      BY <1>c, <2>3, <3>1 DEF StreamTypes
    <3>2. CASE ~ClosingOrClosed(e)
      BY <2>2, <2>3, <2>4, <3>2 DEF Queue, Given
    <3> QED
      BY <3>1, <3>2
  <2>6. Dispatches(e)
    <3>1. \/ /\ Head(Rx(e)).op = "PING" => ClosingOrClosed(e)
             /\ UNCHANGED <<mTransmitBuffer, sent>>
          \/ \E op \in Op \ {"PING"}, body \in Payload :
               Queue(e, op, body) /\ (op = "PONG" <=> Head(Rx(e)).op = "PING")
      BY <2>1, <2>2, <2>5
    <3>2. /\ delivered' =
               [delivered EXCEPT ![e] =
                  IF Head(Rx(e)).op \in MessageOps
                  THEN Append(@, [text |-> Head(Rx(e)).op = "TEXT", body |-> FramePayload(e)])
                  ELSE @]
          /\ pongs' = [pongs EXCEPT ![e] = IF Head(Rx(e)).op = "PONG" THEN @ + 1 ELSE @]
      BY <2>1, <2>2, <2>3, <2>4
    <3> QED
      BY <2>1, <2>3, <3>1, <3>2 DEF Dispatches
  <2> QED
    BY <2>3, <2>6 DEF Class
<1>24. CASE DispatchPong(e)
  <2>1. nonblocking[e] /\ HasFrame(e) /\ Head(Rx(e)).op = "PONG" /\ "PONG" \notin MessageOps
    BY <1>b, <1>24 DEF DispatchPong, Dispatching, At, ControlOf, MessageOps
  <2>2. /\ mReceiveBuffer' = Consumed(e) /\ pongs' = [pongs EXCEPT ![e] = @ + 1]
        /\ UNCHANGED <<mTransmitBuffer, wire, mSocket, pings, sent, delivered, mReceivedData>>
    BY <1>24 DEF DispatchPong, netVars
  <2>3. delivered = [delivered EXCEPT ![e] = delivered[e]]
    BY <1>c DEF StreamTypes
  <2>4. /\ delivered' =
             [delivered EXCEPT ![e] =
                IF Head(Rx(e)).op \in MessageOps
                THEN Append(@, [text |-> Head(Rx(e)).op = "TEXT", body |-> FramePayload(e)])
                ELSE @]
        /\ pongs' = [pongs EXCEPT ![e] = IF Head(Rx(e)).op = "PONG" THEN @ + 1 ELSE @]
    BY <2>1, <2>2, <2>3
  <2>5. Dispatches(e)
    BY <2>1, <2>2, <2>4 DEF Dispatches
  <2> QED
    BY <2>2, <2>5 DEF Class
<1>25. CASE DispatchClose(e)
  <2>1. DoClose(e) /\ UNCHANGED <<mReceiveBuffer, wire, mSocket, sent, delivered, pings, pongs,
                                  mReceivedData>>
    BY <1>25 DEF DispatchClose, Dispatching, netVars, historyVars
  <2>2. \/ UNCHANGED <<mTransmitBuffer, sent>>
        \/ \E body \in Payload : Queue(e, "CLOSE", body)
    BY <1>c, <2>1, DoCloseQueues
  <2>3. UNCHANGED streamVars \/ Queues(e)
    <3>1. pings = [pings EXCEPT ![e] = pings[e]] /\ "CLOSE" \in Op \ {"PONG"}
      BY <1>c DEF StreamTypes, Op, ControlOps
    <3> QED
      BY <2>1, <2>2, <3>1 DEF Queues, streamVars
  <2> QED
    BY <2>1, <2>3 DEF Class
<1>26. CASE DispatchDone(e)
  <2>1. UNCHANGED streamVars /\ UNCHANGED mReceivedData
    BY <1>a, <1>b, <1>d, <1>e, <1>26 DEF DispatchDone, At, Goto, streamVars,
       connectionVars, bufferVars, netVars, historyVars
  <2> QED
    BY <2>1 DEF Class
<1>27. CASE Deleted(e)
  <2>1. HangsUp(e) /\ UNCHANGED mReceivedData
    <3>1. mSocket[e] # "open" => wire[e] = <<>> /\ wire = [wire EXCEPT ![e] = <<>>]
      BY <1>b, <1>c DEF ControlOf, StreamTypes
    <3> QED
      BY <1>d, <1>27, <3>1 DEF Deleted, HangUp, HangsUp, Sockets, connectionVars,
         bufferVars, netVars, historyVars
  <2> QED
    BY <2>1 DEF Class
<1> QED
  BY <1>1, <1>2, <1>3, <1>4, <1>5, <1>6, <1>7, <1>8, <1>9, <1>10, <1>11, <1>12, <1>13,
     <1>14, <1>15, <1>16, <1>17, <1>18, <1>19, <1>20, <1>21, <1>22, <1>23, <1>24, <1>25,
     <1>26, <1>27, StepCases
-----------------------------------------------------------------------------
(* Each part of the invariant is kept.                                     *)

\* A queued frame keeps the types of what it is added to.
LEMMA QueueTypes ==
  ASSUME StreamTypes, NEW e \in Node, NEW op \in Op, NEW body \in Payload, Queue(e, op, body)
  PROVE  /\ mTransmitBuffer' \in [Node -> Seq(Unit)] /\ sent' \in [Node -> Seq(Messages)]
         /\ \A n \in Node : Len(sent'[n]) <= MaxMessages
<1> DEFINE x == mTransmitBuffer[e] \o Frame(op, TRUE, body)
           q == Given(sent[e], op, body)
<1>1. x \in Seq(Unit)
  <2> DEFINE a == mTransmitBuffer[e]
             f == Frame(op, TRUE, body)
  <2>1. a \in Seq(Unit) /\ f \in Seq(Unit)
    BY FrameFacts DEF StreamTypes
  <2> HIDE DEF a, f
  <2>2. a \o f \in Seq(Unit)
    BY <2>1
  <2> QED
    BY <2>2 DEF a, f
<1>2. q \in Seq(Messages) /\ Len(q) <= MaxMessages
  <2> DEFINE m == [text |-> op = "TEXT", body |-> body]
             old == sent[e]
  <2>1. old \in Seq(Messages) /\ Len(old) <= MaxMessages /\ MaxMessages \in Nat
    BY EndpointAssumption DEF StreamTypes
  <2>2. op \in MessageOps => Len(old) < MaxMessages /\ m \in Messages
    BY DEF Queue
  <2>3. q = IF op \in MessageOps THEN Append(old, m) ELSE old
    BY DEF Given
  <2> HIDE DEF m, old, q
  <2> QED
    BY <2>1, <2>2, <2>3
<1> HIDE DEF x, q
<1>3. mTransmitBuffer' = [mTransmitBuffer EXCEPT ![e] = x] /\ sent' = [sent EXCEPT ![e] = q]
  BY DEF Queue, x, q
<1> QED
  BY <1>1, <1>2, <1>3 DEF StreamTypes

\* Every class of step keeps the types of streams and messages.
LEMMA StreamTypesStep ==
  ASSUME IInv, NEW e \in Node, Class(e), UNCHANGED mReceivedData
  PROVE  StreamTypes'
<1> DEFINE p == Peer(e)
<1>a. p \in Node /\ p # e /\ Peer(e) = p
  BY PeerFacts
<1>b. StreamTypes
  BY DEF IInv
<1>c. /\ mReceiveBuffer \in [Node -> Seq(Unit)] /\ mTransmitBuffer \in [Node -> Seq(Unit)]
      /\ wire \in [Node -> Seq(Unit)]
      /\ mReceivedData' = [n \in Node |-> <<>>]
      /\ sent \in [Node -> Seq(Messages)] /\ delivered \in [Node -> Seq(Message)]
      /\ pings \in [Node -> 0 .. MaxPings] /\ pongs \in [Node -> Nat]
      /\ \A n \in Node : Len(sent[n]) <= MaxMessages
  BY <1>b DEF StreamTypes
<1>d. MaxPings \in Nat
  BY EndpointAssumption
<1> HIDE DEF p
<1>1. CASE UNCHANGED streamVars
  BY <1>c, <1>1 DEF streamVars, StreamTypes
<1>2. CASE Queues(e)
  <2>1. PICK op \in Op, body \in Payload :
          /\ Queue(e, op, body)
          /\ pings' = [pings EXCEPT ![e] = IF op = "PING" THEN @ + 1 ELSE @]
          /\ op = "PING" => pings[e] < MaxPings
    BY <1>2 DEF Queues
  <2>2. /\ mTransmitBuffer' \in [Node -> Seq(Unit)] /\ sent' \in [Node -> Seq(Messages)]
        /\ \A n \in Node : Len(sent'[n]) <= MaxMessages
    BY <1>b, <2>1, QueueTypes
  <2>3. pings' \in [Node -> 0 .. MaxPings]
    BY <1>c, <1>d, <2>1
  <2>4. UNCHANGED <<mReceiveBuffer, wire, delivered, pongs>>
    BY <1>2 DEF Queues
  <2> QED
    BY <1>c, <2>2, <2>3, <2>4 DEF StreamTypes
<1>3. CASE Receives(e)
  <2>1. wire[e] # <<>> /\ wire[e] \in Seq(Unit) /\ mReceiveBuffer[e] \in Seq(Unit)
    BY <1>c, <1>3 DEF Receives
  <2>2. Append(mReceiveBuffer[e], Head(wire[e])) \in Seq(Unit) /\ Tail(wire[e]) \in Seq(Unit)
    BY <2>1
  <2>3. mReceiveBuffer' \in [Node -> Seq(Unit)] /\ wire' \in [Node -> Seq(Unit)]
    BY <1>c, <1>3, <2>2 DEF Receives
  <2> QED
    BY <1>c, <1>3, <2>3 DEF Receives, StreamTypes
<1>4. CASE Sends(e)
  <2>1. /\ mTransmitBuffer[e] # <<>> /\ mTransmitBuffer[e] \in Seq(Unit)
        /\ wire[p] \in Seq(Unit)
    BY <1>a, <1>c, <1>4 DEF Sends
  <2>2. /\ Append(wire[p], Head(mTransmitBuffer[e])) \in Seq(Unit)
        /\ Tail(mTransmitBuffer[e]) \in Seq(Unit)
    BY <2>1
  <2>3. mTransmitBuffer' \in [Node -> Seq(Unit)] /\ wire' \in [Node -> Seq(Unit)]
    BY <1>a, <1>c, <1>4, <2>2 DEF Sends
  <2> QED
    BY <1>c, <1>4, <2>3 DEF Sends, StreamTypes
<1>5. CASE Loses(e)
  <2>1. mTransmitBuffer[e] # <<>> /\ mTransmitBuffer[e] \in Seq(Unit)
    BY <1>c, <1>5 DEF Loses
  <2>2. Tail(mTransmitBuffer[e]) \in Seq(Unit)
    BY <2>1
  <2>3. mTransmitBuffer' \in [Node -> Seq(Unit)]
    BY <1>c, <1>5, <2>2 DEF Loses
  <2> QED
    BY <1>c, <1>5, <2>3 DEF Loses, StreamTypes
<1>6. CASE HangsUp(e)
  <2>1. wire' \in [Node -> Seq(Unit)]
    <3>1. <<>> \in Seq(Unit)
      OBVIOUS
    <3> QED
      BY <1>c, <1>6, <3>1 DEF HangsUp
  <2> QED
    BY <1>c, <1>6, <2>1 DEF HangsUp, StreamTypes
<1>7. CASE TakesLine(e)
  <2>1. wire[e] # <<>> /\ wire[e] \in Seq(Unit)
    BY <1>c, <1>7 DEF TakesLine, HasLine, AtLine
  <2>2. Tail(wire[e]) \in Seq(Unit)
    BY <2>1
  <2>3. wire' \in [Node -> Seq(Unit)]
    BY <1>c, <1>7, <2>2 DEF TakesLine
  <2> QED
    BY <1>c, <1>7, <2>3 DEF TakesLine, StreamTypes
<1>8. CASE AcceptRequest(e)
  <2>1. wire[e] # <<>> /\ wire[e] \in Seq(Unit) /\ wire[p] \in Seq(Unit)
    BY <1>a, <1>c, <1>8 DEF AcceptRequest, HasLine, AtLine
  <2>2. Tail(wire[e]) \in Seq(Unit) /\ wire[p] \o Response \in Seq(Unit)
    <3>1. Response \in Seq(Unit)
      BY ResponseFacts
    <3> QED
      BY <2>1, <3>1
  <2>3. wire' \in [Node -> Seq(Unit)]
    BY <1>a, <1>c, <1>8, <2>1, <2>2 DEF AcceptRequest
  <2> QED
    BY <1>c, <1>8, <2>3 DEF AcceptRequest, StreamTypes, bufferVars, historyVars
<1>9. CASE Dispatches(e)
  <2> DEFINE r == Rx(e)
             m == [text |-> Head(r).op = "TEXT", body |-> FramePayload(e)]
  <2>1. /\ Rx(e) \in Seq(Unit) /\ Rx(e) # <<>> /\ Len(Rx(e)) >= 1 + Head(Rx(e)).len
        /\ Head(Rx(e)).len \in Nat /\ FramePayload(e) \in Payload
    BY <1>9, HeadFrame DEF Dispatches
  <2>2. m \in Message
    BY <2>1 DEF Message, Payload
  <2>3. SubSeq(r, 2 + Head(r).len, Len(r)) \in Seq(Unit)
    BY <2>1
  <2>4. mReceiveBuffer' = [mReceiveBuffer EXCEPT ![e] = SubSeq(r, 2 + Head(r).len, Len(r))]
    BY <1>9 DEF Dispatches, Consumed, Rx
  <2> HIDE DEF r, m
  <2>5. mReceiveBuffer' \in [Node -> Seq(Unit)]
    BY <1>c, <2>3, <2>4
  <2>6. delivered' \in [Node -> Seq(Message)]
    <3>1. Append(delivered[e], m) \in Seq(Message) /\ delivered[e] \in Seq(Message)
      BY <1>c, <2>2
    <3>2. delivered' = [delivered EXCEPT ![e] = IF Head(Rx(e)).op \in MessageOps
                                                THEN Append(delivered[e], m) ELSE delivered[e]]
      BY <1>9 DEF Dispatches, m, r
    <3> QED
      BY <1>c, <3>1, <3>2
  <2>7. /\ mTransmitBuffer' \in [Node -> Seq(Unit)] /\ sent' \in [Node -> Seq(Messages)]
        /\ \A n \in Node : Len(sent'[n]) <= MaxMessages
    <3>1. CASE UNCHANGED <<mTransmitBuffer, sent>>
      BY <1>c, <3>1
    <3>2. CASE \E op \in Op, body \in Payload : Queue(e, op, body)
      BY <1>b, <3>2, QueueTypes
    <3> QED
      BY <1>9, <3>1, <3>2 DEF Dispatches
  <2>8. pongs' \in [Node -> Nat] /\ UNCHANGED <<wire, pings>>
    BY <1>c, <1>9 DEF Dispatches
  <2> QED
    BY <1>c, <2>5, <2>6, <2>7, <2>8 DEF StreamTypes
<1> QED
  BY <1>1, <1>2, <1>3, <1>4, <1>5, <1>6, <1>7, <1>8, <1>9 DEF Class

\* A state only moves on, and never in a step in which a message is taken.
Advances(e) ==
  /\ \E s \in States :
       /\ Channel!Rank[s] > Channel!Rank[mReadyState[e]]
       /\ mReadyState' = [mReadyState EXCEPT ![e] = s]
  /\ UNCHANGED sent

\* The order in which a connection goes through its states.
LEMMA RankFacts ==
  /\ DOMAIN Channel!Rank = States
  /\ Channel!Rank["CONNECTING"] = 0 /\ Channel!Rank["OPEN"] = 1
  /\ Channel!Rank["CLOSING"] = 2 /\ Channel!Rank["CLOSED"] = 3
BY DEF Channel!Rank, States

\* close() moves the state forward or leaves it.
LEMMA CloseAdvances ==
  ASSUME mReadyState \in [Node -> States], NEW e \in Node, DoClose(e), UNCHANGED sent
  PROVE  UNCHANGED mReadyState \/ Advances(e)
<1>1. CASE ClosingOrClosed(e)
  <2>1. mReadyState' = [mReadyState EXCEPT ![e] = mReadyState[e]]
    BY <1>1 DEF DoClose
  <2> QED
    BY <2>1
<1>2. CASE ~ClosingOrClosed(e)
  <2>1. mReadyState' = [mReadyState EXCEPT ![e] = "CLOSING"]
    BY <1>2 DEF DoClose
  <2>2. mReadyState[e] = "CONNECTING" \/ mReadyState[e] = "OPEN"
    BY <1>2 DEF ClosingOrClosed, States
  <2>3. "CLOSING" \in States
    BY DEF States
  <2>4. Channel!Rank["CLOSING"] > Channel!Rank[mReadyState[e]]
    BY <2>2, RankFacts
  <2> QED
    BY <2>1, <2>3, <2>4 DEF Advances
<1> QED
  BY <1>1, <1>2

\* No step takes the state of a connection back, and each changes one end only.
LEMMA ReadyStateStep ==
  ASSUME ControlTypes, Control, NEW e \in Node, ProperStep(e)
  PROVE  UNCHANGED mReadyState \/ Advances(e)
<1>1. ControlOf(e)
  BY DEF Control
<1>2. mReadyState \in [Node -> States]
  BY DEF ControlTypes
<1> USE <1>1, <1>2 DEF connectionVars, bufferVars, netVars, historyVars
<1>3. CASE \E op \in Kinds, len \in Lengths : Send(e, op, len)
  BY <1>3 DEF Send
<1>4. CASE SendPing(e)
  BY <1>4 DEF SendPing
<1>5. CASE Close(e)
  <2>1. DoClose(e) /\ UNCHANGED sent
    BY <1>5 DEF Close
  <2> QED
    BY <2>1, CloseAdvances
<1>6. CASE Delete(e)
  <2>1. DoClose(e) /\ UNCHANGED sent
    BY <1>6 DEF Delete
  <2> QED
    BY <2>1, CloseAdvances
<1>7. CASE ConnectTimeout(e)
  <2>1. mReadyState[e] # "CLOSED" /\ UNCHANGED sent
    BY <1>7 DEF ConnectTimeout, CanConnect, GiveUp, HangUp, ControlOf
  <2>2. mReadyState' = [mReadyState EXCEPT ![e] = "CLOSED"]
    BY <1>7 DEF ConnectTimeout, CanConnect, GiveUp, HangUp
  <2> QED
    BY <2>1, <2>2, RankFacts DEF States, Advances
<1>8. CASE LongLine(e)
  <2>1. mReadyState[e] # "CLOSED" /\ UNCHANGED sent
    BY <1>8 DEF LongLine, AtLine, CanConnect, GiveUp, HangUp, ControlOf
  <2>2. mReadyState' = [mReadyState EXCEPT ![e] = "CLOSED"]
    BY <1>8 DEF LongLine, AtLine, CanConnect, GiveUp, HangUp
  <2> QED
    BY <2>1, <2>2, RankFacts DEF States, Advances
<1>9. CASE AcceptRequest(e)
  BY <1>9 DEF AcceptRequest
<1>10. CASE AcceptStatus(e)
  BY <1>10 DEF AcceptStatus
<1>11. CASE RefuseLine(e)
  <2>1. mReadyState[e] # "CLOSED" /\ UNCHANGED sent
    BY <1>11 DEF RefuseLine, HasLine, AtLine, CanConnect, GiveUp, HangUp, ControlOf
  <2>2. mReadyState' = [mReadyState EXCEPT ![e] = "CLOSED"]
    BY <1>11 DEF RefuseLine, HasLine, AtLine, CanConnect, GiveUp, HangUp
  <2> QED
    BY <2>1, <2>2, RankFacts DEF States, Advances
<1>12. CASE ServerLine(e)
  <2>1. mReadyState[e] = "CONNECTING" /\ UNCHANGED sent
    BY <1>12 DEF ServerLine, HasLine, AtLine, CanConnect, Opened
  <2>2. mReadyState' = [mReadyState EXCEPT ![e] = "OPEN"] \/ UNCHANGED mReadyState
    BY <1>12 DEF ServerLine, Opened
  <2> QED
    BY <2>1, <2>2, RankFacts DEF States, Advances
<1>13. CASE ClientLine(e)
  <2>1. mReadyState[e] = "CONNECTING" /\ UNCHANGED sent
    BY <1>13 DEF ClientLine, HasLine, AtLine, CanConnect, Opened
  <2>2. mReadyState' = [mReadyState EXCEPT ![e] = "OPEN"] \/ UNCHANGED mReadyState
    BY <1>13 DEF ClientLine, Opened
  <2> QED
    BY <2>1, <2>2, RankFacts DEF States, Advances
<1>14. CASE PollBegin(e)
  BY <1>14 DEF PollBegin
<1>15. CASE Receive(e)
  BY <1>15 DEF Receive
<1>16. CASE ReceiveWouldBlock(e)
  BY <1>16 DEF ReceiveWouldBlock
<1>17. CASE ReceiveEnd(e)
  <2>1. mReadyState[e] # "CLOSED" /\ UNCHANGED sent
    BY <1>17 DEF ReceiveEnd, At, Goto, Drop, HangUp, ControlOf
  <2>2. mReadyState' = [mReadyState EXCEPT ![e] = "CLOSED"]
    BY <1>17 DEF ReceiveEnd, At, Goto, Drop, HangUp
  <2> QED
    BY <2>1, <2>2, RankFacts DEF States, Advances
<1>18. CASE SendSome(e)
  BY <1>18 DEF SendSome
<1>19. CASE SendLost(e)
  BY <1>19 DEF SendLost
<1>20. CASE SendError(e)
  <2>1. mReadyState[e] # "CLOSED" /\ UNCHANGED sent
    BY <1>20 DEF SendError, At, Goto, Drop, HangUp, ControlOf
  <2>2. mReadyState' = [mReadyState EXCEPT ![e] = "CLOSED"]
    BY <1>20 DEF SendError, At, Goto, Drop, HangUp
  <2> QED
    BY <2>1, <2>2, RankFacts DEF States, Advances
<1>21. CASE SendWouldBlock(e)
  BY <1>21 DEF SendWouldBlock
<1>22. CASE SendDone(e)
  <2>1. mReadyState[e] # "CLOSED" /\ UNCHANGED sent
    BY <1>22 DEF SendDone, At, Goto, AfterSend, Drop, HangUp, ControlOf
  <2>2. mReadyState' = [mReadyState EXCEPT ![e] = "CLOSED"] \/ UNCHANGED mReadyState
    BY <1>22 DEF SendDone, At, Goto, AfterSend, Drop, HangUp
  <2> QED
    BY <2>1, <2>2, RankFacts DEF States, Advances
<1>23. CASE \E reaction \in Reactions : DispatchMessage(e, reaction)
  <2>1. (DoClose(e) /\ UNCHANGED sent) \/ UNCHANGED mReadyState
    BY <1>23 DEF DispatchMessage, Reaction
  <2> QED
    BY <2>1, CloseAdvances
<1>24. CASE DispatchFragment(e)
  BY <1>24 DEF DispatchFragment
<1>25. CASE DispatchPing(e)
  BY <1>25 DEF DispatchPing
<1>26. CASE DispatchPong(e)
  BY <1>26 DEF DispatchPong
<1>27. CASE DispatchClose(e)
  <2>1. DoClose(e) /\ UNCHANGED sent
    BY <1>27 DEF DispatchClose
  <2> QED
    BY <2>1, CloseAdvances
<1>28. CASE DispatchDone(e)
  BY <1>28 DEF DispatchDone
<1>29. CASE Deleted(e)
  BY <1>29 DEF Deleted
<1> QED
  BY <1>3, <1>4, <1>5, <1>6, <1>7, <1>8, <1>9, <1>10, <1>11, <1>12, <1>13, <1>14, <1>15,
     <1>16, <1>17, <1>18, <1>19, <1>20, <1>21, <1>22, <1>23, <1>24, <1>25, <1>26, <1>27,
     <1>28, <1>29, StepCases

\* An end that is closing stays closing or becomes closed.
LEMMA ClosingStays ==
  ASSUME ControlTypes, Control, NEW e \in Node, ProperStep(e), NEW n \in Node,
         ClosingOrClosed(n)
  PROVE  ClosingOrClosed(n)'
<1>1. CASE UNCHANGED mReadyState
  BY <1>1 DEF ClosingOrClosed
<1>2. CASE Advances(e)
  BY <1>2, RankFacts DEF Advances, ClosingOrClosed, ControlTypes, States
<1> QED
  BY <1>1, <1>2, ReadyStateStep

\* What a step means for the stream to an end n.
Same(n) == Stream(n)' = Stream(n) /\ Inbound(n)' = Inbound(n)

Queued(n, op, body) ==
  /\ Stream(n)' = Stream(n) \o Frame(op, TRUE, body)
  /\ Inbound(n)' = IF Connected THEN Inbound(n) \o Frame(op, TRUE, body) ELSE Inbound(n)

\* Units are lost, and from now on nothing that is only queued will arrive.
Cut(n) ==
  /\ ~Connected'
  /\ \E a, b, c \in Seq(Unit) : Stream(n) = (a \o b) \o c /\ Stream(n)' = a \o c
  /\ \E k \in 0 .. Len(Inbound(n)) : Inbound(n)' = SubSeq(Inbound(n), 1, k)

LineGone(n) ==
  /\ Stream(n) # <<>> /\ Head(Stream(n)).kind = "line" /\ Stream(n)' = Tail(Stream(n))
  /\ Inbound(n) # <<>> /\ Head(Inbound(n)).kind = "line" /\ Inbound(n)' = Tail(Inbound(n))

Answered(n) ==
  Stream(n)' = Response \o Stream(n) /\ Inbound(n)' = Response \o Inbound(n)

\* The first frame of what has been received is gone, y is what follows.
Taken(n) ==
  LET r    == Rx(n)
      rest == SubSeq(r, 2 + Head(r).len, Len(r))
  IN  /\ \E y \in Seq(Unit) : Stream(n) = r \o y /\ Stream(n)' = rest \o y
      /\ \E y \in Seq(Unit) : Inbound(n) = r \o y /\ Inbound(n)' = rest \o y

\* If the parts of the stream to n stay, so does the stream.
LEMMA SameParts ==
  ASSUME NEW n \in Node, mSocket' = mSocket,
         mReceiveBuffer'[n] = mReceiveBuffer[n], wire'[n] = wire[n],
         mTransmitBuffer'[Peer(n)] = mTransmitBuffer[Peer(n)]
  PROVE  Same(n)
<1>1. Connected' = Connected
  BY DEF Connected
<1>2. Stream(n)' = Stream(n) /\ In(n)' = In(n)
  BY DEF Stream, In
<1> QED
  BY <1>1, <1>2 DEF Same, Inbound

\* A frame queued at e comes to the end of the stream towards e's peer.
LEMMA QueuedEffect ==
  ASSUME StreamTypes, NEW e \in Node, NEW op \in Op, NEW body \in Payload, Queue(e, op, body),
         mSocket' = mSocket, wire' = wire, mReceiveBuffer'[Peer(e)] = mReceiveBuffer[Peer(e)]
  PROVE  Queued(Peer(e), op, body)
<1> DEFINE p == Peer(e)
           r == mReceiveBuffer[p]
           w == wire[p]
           x == mTransmitBuffer[e]
           f == Frame(op, TRUE, body)
<1>1. p \in Node /\ Peer(p) = e
  BY PeerFacts
<1>2. r \in Seq(Unit) /\ w \in Seq(Unit) /\ x \in Seq(Unit) /\ f \in Seq(Unit)
  BY <1>1, FrameFacts DEF StreamTypes
<1>3. /\ mReceiveBuffer'[p] = r /\ wire'[p] = w /\ mTransmitBuffer'[e] = x \o f
  BY DEF Queue, StreamTypes
<1>4. /\ Stream(p) = (r \o w) \o x /\ Stream(p)' = (r \o w) \o (x \o f)
      /\ In(p)' = In(p)
  BY <1>1, <1>3 DEF Stream, In
<1>5. Connected' = Connected
  BY DEF Connected
<1> HIDE DEF r, w, x, f, p
<1>6. (r \o w) \o (x \o f) = ((r \o w) \o x) \o f
  BY <1>2
<1>7. Stream(p)' = Stream(p) \o f
  BY <1>4, <1>6
<1>8. Queued(p, op, body)
  BY <1>4, <1>5, <1>7 DEF Queued, Inbound, f
<1> QED
  BY <1>8 DEF p

\* recv() moves bytes within the stream: no stream changes.
LEMMA ReceivesEffect ==
  ASSUME StreamTypes, NEW e \in Node, Receives(e)
  PROVE  Same(e) /\ Same(Peer(e)) /\ Connected' = Connected
<1> DEFINE r == mReceiveBuffer[e]
           w == wire[e]
           x == mTransmitBuffer[Peer(e)]
<1>1. r \in Seq(Unit) /\ w \in Seq(Unit) /\ w # <<>>
  BY DEF StreamTypes, Receives
<1>2. /\ mReceiveBuffer'[e] = Append(r, Head(w)) /\ wire'[e] = Tail(w)
      /\ mTransmitBuffer' = mTransmitBuffer /\ mSocket' = mSocket
      /\ mReceiveBuffer'[Peer(e)] = mReceiveBuffer[Peer(e)] /\ wire'[Peer(e)] = wire[Peer(e)]
  BY PeerFacts DEF Receives, StreamTypes
<1>3. Connected' = Connected
  BY <1>2 DEF Connected
<1>4. /\ Stream(e) = (r \o w) \o x /\ In(e) = r \o w
      /\ Stream(e)' = (Append(r, Head(w)) \o Tail(w)) \o x /\ In(e)' = Append(r, Head(w)) \o Tail(w)
  BY <1>2 DEF Stream, In
<1> HIDE DEF r, w, x
<1>5. Append(r, Head(w)) \o Tail(w) = r \o w
  BY <1>1
<1>6. Same(e)
  BY <1>3, <1>4, <1>5 DEF Same, Inbound
<1>7. Same(Peer(e))
  BY <1>2, PeerFacts, SameParts
<1> QED
  BY <1>3, <1>6, <1>7

\* send() moves bytes within the stream: no stream changes.
LEMMA SendsEffect ==
  ASSUME StreamTypes, NEW e \in Node, Sends(e)
  PROVE  Same(e) /\ Same(Peer(e)) /\ Connected' = Connected
<1> DEFINE p == Peer(e)
           s == mReceiveBuffer[p]
           w == wire[p]
           x == mTransmitBuffer[e]
<1>0. p \in Node /\ Peer(p) = e /\ p # e
  BY PeerFacts
<1>1. s \in Seq(Unit) /\ w \in Seq(Unit) /\ x \in Seq(Unit) /\ x # <<>>
  BY <1>0 DEF StreamTypes, Sends
<1>2. /\ wire'[p] = Append(w, Head(x)) /\ mTransmitBuffer'[e] = Tail(x)
      /\ mReceiveBuffer' = mReceiveBuffer /\ mSocket' = mSocket
      /\ mTransmitBuffer'[p] = mTransmitBuffer[p] /\ wire'[e] = wire[e]
  BY <1>0 DEF Sends, StreamTypes
<1>3. Connected' = Connected /\ Connected
  BY <1>2 DEF Connected, Sends
<1>4. Stream(p) = (s \o w) \o x /\ Stream(p)' = (s \o Append(w, Head(x))) \o Tail(x)
  BY <1>0, <1>2 DEF Stream
<1> HIDE DEF s, w, x, p
<1>5. (s \o Append(w, Head(x))) \o Tail(x) = (s \o w) \o x
  BY <1>1, SMTT(30)
<1>6. Same(p)
  BY <1>3, <1>4, <1>5 DEF Same, Inbound
<1>7. Same(e)
  BY <1>2, SameParts DEF p
<1> QED
  BY <1>3, <1>6, <1>7 DEF p

\* A stream with an empty part cut from it, or cut behind its end, is itself.
LEMMA CutWhole ==
  ASSUME NEW s \in Seq(Unit)
  PROVE  /\ \E a, b, c \in Seq(Unit) : s = (a \o b) \o c /\ s = a \o c
         /\ \E k \in 0 .. Len(s) : s = SubSeq(s, 1, k)
<1>1. <<>> \in Seq(Unit) /\ (s \o <<>>) \o <<>> = s /\ s \o <<>> = s
  OBVIOUS
<1>2. Len(s) \in 0 .. Len(s) /\ SubSeq(s, 1, Len(s)) = s
  OBVIOUS
<1>3. \E a, b, c \in Seq(Unit) : s = (a \o b) \o c /\ s = a \o c
  BY <1>1
<1>4. \E k \in 0 .. Len(s) : s = SubSeq(s, 1, k)
  BY <1>2
<1> QED
  BY <1>3, <1>4

\* Bytes sent to a closed socket are cut from the stream.
LEMMA LosesEffect ==
  ASSUME StreamTypes, NEW e \in Node, Loses(e)
  PROVE  Cut(e) /\ Cut(Peer(e))
<1> DEFINE p == Peer(e)
           s == In(p)
           x == mTransmitBuffer[e]
<1>0. p \in Node /\ Peer(p) = e /\ p # e
  BY PeerFacts
<1>1. /\ s \in Seq(Unit) /\ x \in Seq(Unit) /\ x # <<>>
      /\ Stream(e) \in Seq(Unit) /\ Inbound(e) \in Seq(Unit)
  BY <1>0, InboundParts DEF Loses
<1>2. /\ mTransmitBuffer'[e] = Tail(x) /\ mTransmitBuffer'[p] = mTransmitBuffer[p]
      /\ mReceiveBuffer' = mReceiveBuffer /\ wire' = wire /\ mSocket' = mSocket
  BY <1>0 DEF Loses, StreamTypes
<1>3. ~Connected' /\ ~Connected
  BY <1>2 DEF Connected, Loses
<1>4. Stream(p) = s \o x /\ Stream(p)' = s \o Tail(x) /\ In(p)' = In(p)
  BY <1>0, <1>2 DEF Stream, In
<1>5. Inbound(p) = s /\ Inbound(p)' = s
  BY <1>3, <1>4 DEF Inbound
<1>6. Same(e)
  BY <1>2, SameParts
<1>7. Cut(e)
  <2>1. \E a, b, c \in Seq(Unit) : Stream(e) = (a \o b) \o c /\ Stream(e) = a \o c
    BY <1>1, CutWhole
  <2>2. \E k \in 0 .. Len(Inbound(e)) : Inbound(e) = SubSeq(Inbound(e), 1, k)
    BY <1>1, CutWhole
  <2>3. Stream(e)' = Stream(e) /\ Inbound(e)' = Inbound(e)
    BY <1>6 DEF Same
  <2> QED
    BY <1>3, <2>1, <2>2, <2>3 DEF Cut
<1> HIDE DEF s, x, p
<1>8. /\ <<Head(x)>> \in Seq(Unit) /\ Tail(x) \in Seq(Unit)
      /\ (s \o <<Head(x)>>) \o Tail(x) = s \o x
  BY <1>1
<1>9. \E k \in 0 .. Len(s) : s = SubSeq(s, 1, k)
  BY <1>1, CutWhole
<1>10. \E a, b, c \in Seq(Unit) : Stream(p) = (a \o b) \o c /\ Stream(p)' = a \o c
  BY <1>1, <1>4, <1>8
<1>11. Cut(p)
  BY <1>3, <1>5, <1>9, <1>10 DEF Cut
<1> QED
  BY <1>7, <1>11 DEF p

\* Closing a socket cuts both streams.
LEMMA HangsUpEffect ==
  ASSUME ControlTypes, StreamTypes, NEW e \in Node, HangsUp(e)
  PROVE  Cut(e) /\ Cut(Peer(e))
<1> DEFINE p == Peer(e)
           r == mReceiveBuffer[e]
           w == wire[e]
           x == mTransmitBuffer[p]
<1>0. p \in Node /\ Peer(p) = e /\ p # e
  BY PeerFacts
<1>1. r \in Seq(Unit) /\ w \in Seq(Unit) /\ x \in Seq(Unit)
  BY <1>0 DEF StreamTypes
<1>2. /\ wire'[e] = <<>> /\ wire'[p] = wire[p]
      /\ mReceiveBuffer' = mReceiveBuffer /\ mTransmitBuffer' = mTransmitBuffer
  BY <1>0 DEF HangsUp, StreamTypes
<1>3. ~Connected'
  <2>1. mSocket'[e] # "open"
    BY DEF HangsUp, Sockets, ControlTypes
  <2> QED
    BY <2>1, PeerFacts DEF Connected
<1>4. /\ Stream(e) = (r \o w) \o x /\ Stream(e)' = (r \o <<>>) \o x /\ In(e)' = r \o <<>>
      /\ Stream(p)' = Stream(p) /\ In(p)' = In(p)
  BY <1>0, <1>2 DEF Stream, In
<1>5. Inbound(e)' = In(e)' /\ Inbound(p)' = In(p)
  BY <1>3, <1>4 DEF Inbound
<1>6. /\ Inbound(e) = r \o Rest(e) /\ Rest(e) \in Seq(Unit) /\ Inbound(p) \in Seq(Unit)
      /\ Inbound(e) \in Seq(Unit) /\ In(p) \in Seq(Unit) /\ Stream(p) \in Seq(Unit)
  BY <1>0, InboundParts
<1>7. \E k \in 0 .. Len(Inbound(p)) : In(p) = SubSeq(Inbound(p), 1, k)
  <2> DEFINE s == In(p)
             y == mTransmitBuffer[e]
  <2>1. s \in Seq(Unit) /\ y \in Seq(Unit)
    BY <1>6 DEF StreamTypes
  <2>2. Inbound(p) = s \/ Inbound(p) = s \o y
    BY <1>0 DEF Inbound, Stream, In
  <2> HIDE DEF s, y
  <2>3. Len(s) \in 0 .. Len(s \o y) /\ SubSeq(s \o y, 1, Len(s)) = s
    BY <2>1
  <2>4. \E k \in 0 .. Len(s) : s = SubSeq(s, 1, k)
    BY <2>1, CutWhole
  <2>5. \E k \in 0 .. Len(Inbound(p)) : s = SubSeq(Inbound(p), 1, k)
    BY <2>2, <2>3, <2>4
  <2> QED
    BY <2>5 DEF s
<1>8. \E a, b, c \in Seq(Unit) : Stream(p) = (a \o b) \o c /\ Stream(p)' = a \o c
  <2>1. \E a, b, c \in Seq(Unit) : Stream(p) = (a \o b) \o c /\ Stream(p) = a \o c
    BY <1>6, CutWhole
  <2> QED
    BY <1>4, <2>1
<1>9. Cut(p)
  BY <1>3, <1>5, <1>7, <1>8 DEF Cut
<1> DEFINE rest == Rest(e)
<1> HIDE DEF r, w, x, p, rest
<1>10. /\ r \o <<>> = r /\ rest \in Seq(Unit)
  BY <1>1, <1>6 DEF rest
<1>11. Len(r) \in 0 .. Len(r \o rest) /\ SubSeq(r \o rest, 1, Len(r)) = r
  BY <1>1, <1>10
<1>12. \E k \in 0 .. Len(Inbound(e)) : Inbound(e)' = SubSeq(Inbound(e), 1, k)
  BY <1>4, <1>5, <1>6, <1>10, <1>11 DEF rest
<1>13. \E a, b, c \in Seq(Unit) : Stream(e) = (a \o b) \o c /\ Stream(e)' = a \o c
  BY <1>1, <1>4, <1>10
<1>14. Cut(e)
  BY <1>3, <1>12, <1>13 DEF Cut
<1> QED
  BY <1>9, <1>14 DEF p

\* Taking a handshake line removes the first unit of one stream.
LEMMA LineEffect ==
  ASSUME IInv, NEW e \in Node, HasLine(e), mSocket' = mSocket,
         mReceiveBuffer'[e] = mReceiveBuffer[e], wire'[e] = Tail(wire[e]),
         mTransmitBuffer'[Peer(e)] = mTransmitBuffer[Peer(e)]
  PROVE  LineGone(e)
<1> DEFINE w == wire[e]
           x == mTransmitBuffer[Peer(e)]
<1>1. mReceiveBuffer[e] = <<>>
  BY DEF IInv, Control, ControlOf, HasLine, AtLine, CanConnect
<1>2. /\ w \in Seq(Unit) /\ x \in Seq(Unit)
  BY InboundParts DEF IInv
<1>3. w # <<>> /\ Head(w).kind = "line"
  BY DEF HasLine, AtLine
<1>4. Connected' = Connected
  BY DEF Connected
<1>5. /\ Stream(e) = (<<>> \o w) \o x /\ Stream(e)' = (<<>> \o Tail(w)) \o x
      /\ In(e) = <<>> \o w /\ In(e)' = <<>> \o Tail(w)
  BY <1>1 DEF Stream, In
<1> HIDE DEF w, x
<1>6. /\ (<<>> \o w) \o x # <<>> /\ Head((<<>> \o w) \o x) = Head(w)
      /\ (<<>> \o Tail(w)) \o x = Tail((<<>> \o w) \o x)
  BY <1>2, <1>3
<1>7. <<>> \o w = w /\ <<>> \o Tail(w) = Tail(w)
  BY <1>2, <1>3
<1>8. /\ Stream(e) # <<>> /\ Head(Stream(e)).kind = "line" /\ Stream(e)' = Tail(Stream(e))
      /\ In(e) # <<>> /\ Head(In(e)).kind = "line" /\ In(e)' = Tail(In(e))
  BY <1>3, <1>5, <1>6, <1>7
<1> QED
  BY <1>4, <1>8 DEF LineGone, Inbound

\* AcceptRequest takes the first line of the request and puts the answer in front
\* of the other stream, unless the client has gone.
LEMMA AnswerEffect ==
  ASSUME IInv, NEW e \in Node, AcceptRequest(e)
  PROVE  LineGone(e) /\ (Same(Peer(e)) \/ Answered(Peer(e))) /\ Connected' = Connected
<1> DEFINE p == Peer(e)
           x == mTransmitBuffer[e]
<1>0. /\ p \in Node /\ Peer(p) = e /\ p # e /\ e = "server" /\ p = "client"
      /\ StreamTypes /\ DOMAIN wire = Node
  BY PeerFacts DEF AcceptRequest, mIsServerClient, Peer, IInv, StreamTypes
<1>1. /\ HasLine(e) /\ mConnectionPhase[e] = "HTTP_STATUS"
      /\ mReceiveBuffer' = mReceiveBuffer /\ mTransmitBuffer' = mTransmitBuffer
      /\ mSocket' = mSocket
      /\ wire' = [wire EXCEPT ![e] = Tail(@), ![p] = IF eof[e] THEN @ ELSE @ \o Response]
  BY DEF AcceptRequest, bufferVars
<1>2. wire'[e] = Tail(wire[e]) /\ wire'[p] = IF eof[e] THEN wire[p] ELSE wire[p] \o Response
  BY <1>0, <1>1
<1>3. LineGone(e)
  BY <1>1, <1>2, LineEffect
<1>4. Connected' = Connected
  BY <1>1 DEF Connected
<1>5. CASE eof[e]
  <2>1. Same(p)
    BY <1>0, <1>1, <1>2, <1>5, SameParts
  <2> QED
    BY <1>3, <1>4, <2>1
<1>6. CASE ~eof[e]
  <2>1. mReceiveBuffer[p] \o wire[p] = <<>>
    BY <1>0, <1>1 DEF IInv, Handshake, In
  <2>2. mReceiveBuffer[p] \in Seq(Unit) /\ wire[p] \in Seq(Unit) /\ x \in Seq(Unit)
    BY <1>0 DEF StreamTypes
  <2>3. mReceiveBuffer[p] = <<>> /\ wire[p] = <<>>
    BY <2>1, <2>2
  <2>4. Response \in Seq(Unit)
    BY ResponseFacts
  <2>5. /\ Stream(p) = (<<>> \o <<>>) \o x /\ In(p) = <<>> \o <<>>
        /\ Stream(p)' = (<<>> \o (<<>> \o Response)) \o x /\ In(p)' = <<>> \o (<<>> \o Response)
    BY <1>0, <1>1, <1>2, <1>6, <2>3 DEF Stream, In
  <2> HIDE DEF x, p
  <2>6. /\ (<<>> \o <<>>) \o x = x /\ <<>> \o <<>> = <<>>
        /\ (<<>> \o (<<>> \o Response)) \o x = Response \o x
        /\ <<>> \o (<<>> \o Response) = Response \o <<>>
    BY <2>2, <2>4
  <2>7. Answered(p)
    BY <1>4, <2>5, <2>6 DEF Answered, Inbound
  <2> QED
    BY <1>3, <1>4, <2>7 DEF p
<1> QED
  BY <1>5, <1>6

\* Dispatching takes one frame from the front of a stream.
LEMMA TakenEffect ==
  ASSUME IInv, NEW e \in Node, Dispatches(e)
  PROVE  Taken(e) /\ Connected' = Connected
<1> DEFINE p == Peer(e)
           r == Rx(e)
           rest == SubSeq(r, 2 + Head(r).len, Len(r))
           w == wire[e]
           x == mTransmitBuffer[p]
<1>0. p \in Node /\ Peer(p) = e /\ p # e /\ StreamTypes
  BY PeerFacts DEF IInv
<1>1. r \in Seq(Unit) /\ r # <<>> /\ Head(r).len \in Nat /\ Len(r) >= 1 + Head(r).len
  BY HeadFrame DEF Dispatches
<1>2. rest \in Seq(Unit) /\ w \in Seq(Unit) /\ x \in Seq(Unit)
  <2>1. w \in Seq(Unit) /\ x \in Seq(Unit)
    BY <1>0 DEF StreamTypes
  <2> HIDE DEF r
  <2>2. rest \in Seq(Unit)
    BY <1>1
  <2> QED
    BY <2>1, <2>2
<1>3. /\ mReceiveBuffer[e] = r /\ mReceiveBuffer'[e] = rest
      /\ wire' = wire /\ mSocket' = mSocket /\ mTransmitBuffer'[p] = x
  BY <1>0 DEF Dispatches, Consumed, Rx, Queue, StreamTypes
<1>4. Connected' = Connected
  BY <1>3 DEF Connected
<1>5. /\ Stream(e) = (r \o w) \o x /\ Stream(e)' = (rest \o w) \o x
      /\ In(e) = r \o w /\ In(e)' = rest \o w
  BY <1>3 DEF Stream, In
<1> HIDE DEF rest, r, w, x, p
<1>6. /\ (r \o w) \o x = r \o (w \o x) /\ (rest \o w) \o x = rest \o (w \o x)
      /\ w \o x \in Seq(Unit)
  <2>1. r \in Seq(Unit) /\ rest \in Seq(Unit) /\ w \in Seq(Unit) /\ x \in Seq(Unit)
    BY <1>1, <1>2
  <2> QED
    BY <2>1
<1>7. \E y \in Seq(Unit) : Stream(e) = r \o y /\ Stream(e)' = rest \o y
  BY <1>5, <1>6
<1>8. \E y \in Seq(Unit) : In(e) = r \o y /\ In(e)' = rest \o y
  BY <1>2, <1>5
<1>9. \E y \in Seq(Unit) : Inbound(e) = r \o y /\ Inbound(e)' = rest \o y
  BY <1>4, <1>7, <1>8 DEF Inbound
<1> QED
  BY <1>4, <1>7, <1>9 DEF Taken, rest, r

-----------------------------------------------------------------------------
(* The effects of a step keep the streams right.                           *)

\* Nobody gives or is given a message, or sends or hears a ping.
Unheard == UNCHANGED <<sent, delivered, pings, pongs>>

\* The effects of a step of e.
Effect(e) ==
  \/ Unheard /\ Connected' = Connected /\ Same(e) /\ Same(Peer(e))
  \/ Unheard /\ Cut(e) /\ Cut(Peer(e))
  \/ Unheard /\ Connected' = Connected /\ LineGone(e) /\ (Same(Peer(e)) \/ Answered(Peer(e)))
  \/ /\ Queues(e) /\ Connected' = Connected /\ Same(e)
     /\ \A op \in Op, body \in Payload : Queue(e, op, body) => Queued(Peer(e), op, body)
  \/ /\ Dispatches(e) /\ Connected' = Connected /\ Taken(e)
     /\ UNCHANGED mTransmitBuffer => Same(Peer(e))
     /\ \A op \in Op, body \in Payload : Queue(e, op, body) => Queued(Peer(e), op, body)

\* Each class of step has an effect on each of the two streams.
LEMMA StepEffect ==
  ASSUME IInv, NEW e \in Node, Class(e)
  PROVE  Effect(e)
<1>0. /\ StreamTypes /\ ControlTypes
      /\ Peer(e) \in Node /\ Peer(Peer(e)) = e /\ Peer(e) # e
  BY PeerFacts DEF IInv
<1>1. CASE UNCHANGED streamVars
  <2>1. Same(e) /\ Same(Peer(e)) /\ Connected' = Connected /\ Unheard
    BY <1>0, <1>1, SameParts DEF streamVars, Connected, Unheard
  <2> QED
    BY <2>1 DEF Effect
<1>2. CASE Queues(e)
  <2>1. /\ mSocket' = mSocket /\ wire' = wire /\ mReceiveBuffer' = mReceiveBuffer
        /\ mTransmitBuffer'[Peer(e)] = mTransmitBuffer[Peer(e)]
    BY <1>0, <1>2 DEF Queues, Queue, StreamTypes
  <2>2. Same(e) /\ Connected' = Connected
    BY <2>1, SameParts DEF Connected
  <2>3. \A op \in Op, body \in Payload : Queue(e, op, body) => Queued(Peer(e), op, body)
    BY <1>0, <2>1, QueuedEffect
  <2> QED
    BY <1>2, <2>2, <2>3 DEF Effect
<1>3. CASE Receives(e)
  BY <1>0, <1>3, ReceivesEffect DEF Effect, Receives, Unheard
<1>4. CASE Sends(e)
  BY <1>0, <1>4, SendsEffect DEF Effect, Sends, Unheard
<1>5. CASE Loses(e)
  BY <1>0, <1>5, LosesEffect DEF Effect, Loses, Unheard
<1>6. CASE HangsUp(e)
  BY <1>0, <1>6, HangsUpEffect DEF Effect, HangsUp, Unheard
<1>7. CASE TakesLine(e)
  <2>1. /\ HasLine(e) /\ mSocket' = mSocket /\ mReceiveBuffer' = mReceiveBuffer
        /\ mTransmitBuffer' = mTransmitBuffer /\ wire'[e] = Tail(wire[e])
        /\ wire'[Peer(e)] = wire[Peer(e)] /\ Unheard
    BY <1>0, <1>7 DEF TakesLine, StreamTypes, Unheard
  <2>2. LineGone(e) /\ Same(Peer(e)) /\ Connected' = Connected
    BY <1>0, <2>1, LineEffect, SameParts DEF Connected
  <2> QED
    BY <2>1, <2>2 DEF Effect
<1>8. CASE AcceptRequest(e)
  <2>1. Unheard
    BY <1>8 DEF AcceptRequest, historyVars, Unheard
  <2> QED
    BY <1>8, <2>1, AnswerEffect DEF Effect
<1>9. CASE Dispatches(e)
  <2>1. /\ mSocket' = mSocket /\ wire' = wire
        /\ mReceiveBuffer'[Peer(e)] = mReceiveBuffer[Peer(e)]
    BY <1>0, <1>9 DEF Dispatches, Consumed, StreamTypes
  <2>2. UNCHANGED mTransmitBuffer => Same(Peer(e))
    BY <1>0, <2>1, SameParts
  <2>3. \A op \in Op, body \in Payload : Queue(e, op, body) => Queued(Peer(e), op, body)
    BY <1>0, <2>1, QueuedEffect
  <2>4. Taken(e) /\ Connected' = Connected
    BY <1>9, TakenEffect
  <2> QED
    BY <1>9, <2>2, <2>3, <2>4 DEF Effect
<1> QED
  BY <1>1, <1>2, <1>3, <1>4, <1>5, <1>6, <1>7, <1>8, <1>9 DEF Class

\* Only queueing a frame can put a close frame into a stream.
LEMMA ClosesKept ==
  ASSUME StreamTypes, NEW n \in Node,
         \/ Same(n) \/ Cut(n) \/ LineGone(n) \/ Answered(n)
         \/ Taken(n) /\ HasFrame(n) /\ Head(Rx(n)).len \in Nat
  PROVE  /\ ClosesLast(Stream(n)) => ClosesLast(Stream(n)')
         /\ HasClose(Stream(n)') => HasClose(Stream(n))
<1> DEFINE s == Stream(n)
           t == Stream(n)'
<1>0. s \in Seq(Unit)
  BY InboundParts
<1> SUFFICES /\ ClosesLast(s) => ClosesLast(t)
             /\ HasClose(t) => HasClose(s)
  OBVIOUS
<1>1. ASSUME NEW a \in Seq(Unit), NEW b \in Seq(Unit), NEW c \in Seq(Unit),
             s = (a \o b) \o c, t = a \o c
      PROVE  (ClosesLast(s) => ClosesLast(t)) /\ (HasClose(t) => HasClose(s))
  BY <1>1, RemoveKeeps
<1>2. CASE Same(n)
  BY <1>2 DEF Same
<1>3. CASE Cut(n)
  <2>1. PICK a, b, c \in Seq(Unit) : s = (a \o b) \o c /\ t = a \o c
    BY <1>3 DEF Cut
  <2> QED
    BY <1>1, <2>1
<1>4. CASE LineGone(n)
  <2>1. s # <<>> /\ t = Tail(s)
    BY <1>4 DEF LineGone
  <2> HIDE DEF s, t
  <2>2. /\ <<>> \in Seq(Unit) /\ <<Head(s)>> \in Seq(Unit) /\ Tail(s) \in Seq(Unit)
        /\ s = (<<>> \o <<Head(s)>>) \o Tail(s) /\ Tail(s) = <<>> \o Tail(s)
    BY <1>0, <2>1
  <2> QED
    BY <1>1, <2>1, <2>2
<1>5. CASE Answered(n)
  <2>1. t = Response \o s
    BY <1>5 DEF Answered
  <2> HIDE DEF s, t
  <2> QED
    BY <1>0, <2>1, ResponseFacts, LinesBeforeClose
<1>6. CASE Taken(n) /\ HasFrame(n) /\ Head(Rx(n)).len \in Nat
  <2> DEFINE r == Rx(n)
             k == 1 + Head(r).len
             rest == SubSeq(r, 2 + Head(r).len, Len(r))
  <2>1. PICK y \in Seq(Unit) : s = r \o y /\ t = rest \o y
    BY <1>6 DEF Taken
  <2>2. r \in Seq(Unit) /\ Head(r).len \in Nat /\ Len(r) >= 1 + Head(r).len
    BY <1>6, InboundParts DEF Rx, HasFrame
  <2> HIDE DEF s, t, r
  <2>3. k \in 0 .. Len(r) /\ k + 1 = 2 + Head(r).len
    BY <2>2
  <2> DEFINE a == SubSeq(r, 1, k)
  <2>4. a \in Seq(Unit) /\ rest \in Seq(Unit)
    BY <2>2
  <2>5. r = a \o rest
    BY <2>2, <2>3, SplitSeq
  <2> HIDE DEF a, rest
  <2>6. /\ <<>> \in Seq(Unit) /\ rest \o y \in Seq(Unit)
        /\ (<<>> \o a) \o (rest \o y) = (a \o rest) \o y
        /\ <<>> \o (rest \o y) = rest \o y
    BY <2>4
  <2>7. s = (<<>> \o a) \o (rest \o y) /\ t = <<>> \o (rest \o y)
    BY <2>1, <2>5, <2>6
  <2> QED
    BY <1>1, <2>4, <2>6, <2>7
<1> QED
  BY <1>2, <1>3, <1>4, <1>5, <1>6

CloseOf(n) ==
  ClosesLast(Stream(n)) /\ (HasClose(Stream(n)) => ClosingOrClosed(Peer(n)))

\* Every step keeps the close frame last, and a stream that holds one belongs to
\* an end that is closing.
LEMMA CloseStep ==
  ASSUME IInv, NEW e \in Node, ProperStep(e), Effect(e)
  PROVE  CloseInv'
<1> DEFINE p == Peer(e)
<1>0. /\ p \in Node /\ Peer(p) = e /\ p # e /\ \A n \in Node : n = e \/ n = p
      /\ StreamTypes /\ ControlTypes /\ Control /\ CloseOf(e) /\ CloseOf(p)
  BY PeerFacts DEF IInv, CloseInv, CloseOf
<1>1. SUFFICES CloseOf(e)' /\ CloseOf(p)'
  <2> HIDE DEF p
  <2> QED
    BY <1>0 DEF CloseInv, CloseOf
<1>2. \A n \in Node : ClosingOrClosed(n) => ClosingOrClosed(n)'
  BY <1>0, ClosingStays
<1>3. ASSUME NEW n \in Node, CloseOf(n),
             \/ Same(n) \/ Cut(n) \/ LineGone(n) \/ Answered(n)
             \/ Taken(n) /\ HasFrame(n) /\ Head(Rx(n)).len \in Nat
      PROVE  CloseOf(n)'
  <2>2. /\ ClosesLast(Stream(n)) => ClosesLast(Stream(n)')
        /\ HasClose(Stream(n)') => HasClose(Stream(n))
    BY <1>0, <1>3, ClosesKept
  <2>3. ClosesLast(Stream(n)') /\ (HasClose(Stream(n)') => ClosingOrClosed(Peer(n))')
    BY <1>2, <1>3, <2>2, PeerFacts DEF CloseOf
  <2>4. CloseOf(n)' = ( /\ ClosesLast(Stream(n)')
                        /\ HasClose(Stream(n)') => ClosingOrClosed(Peer(n))' )
    BY DEF CloseOf, ClosesLast, HasClose
  <2> QED
    BY <2>3, <2>4
<1> HIDE DEF p
<1>4. ASSUME NEW op \in Op, NEW body \in Payload, Queue(e, op, body),
             Queued(p, op, body)
      PROVE  CloseOf(p)'
  <2>1. ~ClosingOrClosed(e) /\ (op = "CLOSE" => ClosingOrClosed(e)')
    BY <1>4 DEF Queue
  <2>2. ~HasClose(Stream(p)) /\ Stream(p) \in Seq(Unit)
    BY <1>0, <2>1, InboundParts DEF CloseOf
  <2>3. Stream(p)' = Stream(p) \o Frame(op, TRUE, body)
    BY <1>4 DEF Queued
  <2>4. /\ ClosesLast(Stream(p) \o Frame(op, TRUE, body))
        /\ op # "CLOSE" => ~HasClose(Stream(p) \o Frame(op, TRUE, body))
    BY <2>2, FrameQueued
  <2>5. ClosesLast(Stream(p)') /\ (HasClose(Stream(p)') => ClosingOrClosed(e)')
    BY <2>1, <2>3, <2>4
  <2>6. CloseOf(p)' = (ClosesLast(Stream(p)') /\ (HasClose(Stream(p)') => ClosingOrClosed(e)'))
    BY <1>0 DEF CloseOf, ClosesLast, HasClose
  <2> QED
    BY <2>5, <2>6
<1>5. CASE Same(e) /\ Same(p)
  BY <1>0, <1>3, <1>5
<1>6. CASE Cut(e) /\ Cut(p)
  BY <1>0, <1>3, <1>6
<1>7. CASE LineGone(e) /\ (Same(p) \/ Answered(p))
  BY <1>0, <1>3, <1>7
<1>8. CASE /\ Queues(e) /\ Same(e)
           /\ \A op \in Op, body \in Payload : Queue(e, op, body) => Queued(p, op, body)
  <2>1. PICK op \in Op \ {"PONG"}, body \in Payload : Queue(e, op, body)
    BY <1>8 DEF Queues
  <2>2. CloseOf(p)'
    BY <1>4, <1>8, <2>1
  <2>3. CloseOf(e)'
    BY <1>0, <1>3, <1>8
  <2> QED
    BY <2>2, <2>3
<1>9. CASE /\ Dispatches(e) /\ Taken(e)
           /\ UNCHANGED mTransmitBuffer => Same(p)
           /\ \A op \in Op, body \in Payload : Queue(e, op, body) => Queued(p, op, body)
  <2>1. HasFrame(e) /\ Head(Rx(e)).len \in Nat
    BY <1>9, HeadFrame DEF Dispatches
  <2>2. CloseOf(e)'
    BY <1>0, <1>3, <1>9, <2>1
  <2>3. UNCHANGED mTransmitBuffer \/ \E op \in Op, body \in Payload : Queue(e, op, body)
    BY <1>9 DEF Dispatches
  <2>4. CloseOf(p)'
    BY <1>0, <1>3, <1>4, <1>9, <2>3
  <2> QED
    BY <2>2, <2>4
<1> QED
  BY <1>5, <1>6, <1>7, <1>8, <1>9 DEF Effect, p

\* A stream s that carries the messages of q behind the first done ones, and
\* all of them if nothing was cut off.
Good(s, done, q, connected) ==
  Framed(s) /\ Carries(s, done, q) /\ (connected => Complete(s, done, q))

\* StreamOK of the next state, in terms of the next values.
LEMMA StreamOKNext ==
  ASSUME NEW n \in Node,
         Good(Inbound(n)', Len(delivered'[n]), sent'[Peer(n)], Connected')
  PROVE  StreamOK(Inbound(n), n)'
<1>1. StreamOK(Inbound(n), n)' = Good(Inbound(n)', Len(delivered'[n]), sent'[Peer(n)], Connected')
  BY DEF StreamOK, Good, Framed, Carries, Complete, Counted, Whole, Places, Number, Frames, Op,
         ControlOps, MessageOps
<1> QED
  BY <1>1

\* Taking a line, answering the request and losing the end of a stream leave
\* the messages on their way as they are.
LEMMA StreamKept ==
  ASSUME StreamTypes, NEW n \in Node, StreamOK(Inbound(n), n),
         \/ Connected' = Connected /\ (Same(n) \/ LineGone(n) \/ Answered(n))
         \/ Cut(n),
         delivered'[n] = delivered[n], sent'[Peer(n)] = sent[Peer(n)]
  PROVE  StreamOK(Inbound(n), n)'
<1> DEFINE s == Inbound(n)
           t == Inbound(n)'
           d == Len(delivered[n])
           q == sent[Peer(n)]
<1>1. s \in Seq(Unit) /\ d \in Nat
  BY InboundParts
<1>2. Good(s, d, q, Connected)
  BY DEF StreamOK, Good
<1> SUFFICES Good(t, d, q, Connected')
  BY StreamOKNext
<1>3. CASE Connected' = Connected /\ Same(n)
  BY <1>2, <1>3 DEF Same
<1>4. CASE Connected' = Connected /\ LineGone(n)
  <2>1. s # <<>> /\ Head(s).kind = "line" /\ t = Tail(s) /\ Connected' = Connected
    BY <1>4 DEF LineGone
  <2> HIDE DEF s, t, d, q
  <2>2. /\ Framed(Tail(s)) /\ Carries(Tail(s), d, q)
        /\ Whole(s) => Whole(Tail(s))
        /\ \A ops : Frames(s, ops) = Frames(Tail(s), ops)
    BY <1>1, <1>2, <2>1, LineTaken DEF Good
  <2>3. Frames(s, MessageOps) = Frames(Tail(s), MessageOps)
    BY <2>2
  <2> QED
    BY <1>2, <2>1, <2>2, <2>3 DEF Good, Complete, Counted
<1>5. CASE Connected' = Connected /\ Answered(n)
  <2>1. t = Response \o s /\ Connected' = Connected
    BY <1>5 DEF Answered
  <2> HIDE DEF s, t, d, q
  <2>2. /\ Framed(Response \o s) /\ Carries(Response \o s, d, q)
        /\ Whole(s) => Whole(Response \o s)
        /\ \A ops : Frames(Response \o s, ops) = Frames(s, ops)
    BY <1>1, <1>2, ResponseFacts, LinesBefore DEF Good
  <2>3. Frames(s, MessageOps) = Frames(Response \o s, MessageOps)
    BY <2>2
  <2> QED
    BY <1>2, <2>1, <2>2, <2>3 DEF Good, Complete, Counted
<1>6. CASE Cut(n)
  <2>1. ~Connected'
    BY <1>6 DEF Cut
  <2>2. PICK k \in 0 .. Len(s) : t = SubSeq(s, 1, k)
    BY <1>6 DEF Cut
  <2> HIDE DEF s, t, d, q
  <2>3. Framed(SubSeq(s, 1, k)) /\ Carries(SubSeq(s, 1, k), d, q)
    BY <1>1, <1>2, PrefixKeeps DEF Good
  <2> QED
    BY <2>1, <2>2, <2>3 DEF Good
<1> QED
  BY <1>3, <1>4, <1>5, <1>6

\* A frame is queued for n: a message of its peer, or none.
LEMMA StreamQueued ==
  ASSUME StreamTypes, NEW n \in Node, StreamOK(Inbound(n), n), Connected' = Connected,
         NEW op \in Op, NEW body \in Payload,
         Queued(n, op, body), Queue(Peer(n), op, body), delivered'[n] = delivered[n]
  PROVE  StreamOK(Inbound(n), n)'
<1> DEFINE s == Inbound(n)
           t == Inbound(n)'
           d == Len(delivered[n])
           q == sent[Peer(n)]
           m == [text |-> op = "TEXT", body |-> body]
           q2 == Given(q, op, body)
<1>1. s \in Seq(Unit) /\ d \in Nat /\ q \in Seq(Message)
  BY InboundParts, PeerFacts
<1>2. Good(s, d, q, Connected)
  BY DEF StreamOK, Good
<1>3. sent'[Peer(n)] = q2
  BY PeerFacts DEF Queue, StreamTypes
<1>g. q2 = Given(q, op, body)
  OBVIOUS
<1>4. q2 = IF op \in MessageOps THEN Append(q, m) ELSE q
  BY DEF Given
<1>5. op \in MessageOps => m \in Message
  BY MessagesFacts DEF Queue
<1>6. t = IF Connected THEN s \o Frame(op, TRUE, body) ELSE s
  BY DEF Queued
<1> SUFFICES Good(t, d, q2, Connected')
  BY <1>3, StreamOKNext
<1> HIDE DEF s, t, d, q, q2
<1>7. q2 \in Seq(Message)
  <2> HIDE DEF m
  <2> QED
    BY <1>1, <1>4, <1>5
<1>8. CASE Connected
  <2>1. Framed(s) /\ Carries(s, d, q) /\ Whole(s) /\ Counted(s, d, q)
    BY <1>2, <1>8 DEF Good, Complete, Counted
  <2>2. Framed(s \o Frame(op, TRUE, body)) /\ Whole(s \o Frame(op, TRUE, body))
    BY <1>1, <2>1, FramedAppend
  <2>3. /\ Carries(s \o Frame(op, TRUE, body), d, q2)
        /\ Counted(s \o Frame(op, TRUE, body), d, q2)
    <3>1. /\ s \in Seq(Unit) /\ d \in Nat /\ q \in Seq(Message) /\ q2 \in Seq(Message)
          /\ Carries(s, d, q) /\ Whole(s) /\ Counted(s, d, q)
      BY <1>1, <1>7, <2>1
    <3> QED
      BY <1>g, <3>1, CarriesAppend
  <2> QED
    BY <1>6, <1>8, <2>2, <2>3 DEF Good, Complete, Counted
<1>9. CASE ~Connected
  <2>1. Framed(s) /\ Carries(s, d, q)
    BY <1>2 DEF Good
  <2>2. Carries(s, d, q2)
    <3>1. CASE op \in MessageOps
      <4> HIDE DEF m
      <4> QED
        BY <1>1, <1>4, <1>5, <2>1, <3>1, CarriesMore
    <3>2. CASE op \notin MessageOps
      BY <1>4, <2>1, <3>2
    <3> QED
      BY <3>1, <3>2
  <2> QED
    BY <1>6, <1>9, <2>1, <2>2 DEF Good
<1> QED
  BY <1>8, <1>9

\* The frame at the head of what n has received is dispatched.
LEMMA StreamTaken ==
  ASSUME IInv, NEW n \in Node, Dispatches(n), Taken(n), Connected' = Connected,
         sent'[Peer(n)] = sent[Peer(n)]
  PROVE  StreamOK(Inbound(n), n)'
<1> DEFINE s == Inbound(n)
           t == Inbound(n)'
           d == Len(delivered[n])
           q == sent[Peer(n)]
           r == Rx(n)
           h == Head(r)
           rest == SubSeq(r, 2 + h.len, Len(r))
           d2 == Len(delivered'[n])
           body == FramePayload(n)
<1>1. d \in Nat /\ delivered[n] \in Seq(Message) /\ delivered \in [Node -> Seq(Message)]
      /\ StreamOK(s, n)
  BY InboundParts DEF IInv, StreamTypes, StreamInv
<1>2. Good(s, d, q, Connected)
  BY <1>1 DEF StreamOK, Good
<1>3. /\ r \in Seq(Unit) /\ r # <<>> /\ Len(r) >= 1 + h.len /\ h.kind = "head"
      /\ h.op \in Op /\ h.len \in Nat
  BY HeadFrame DEF Dispatches
<1>4. d2 = d + (IF h.op \in MessageOps THEN 1 ELSE 0)
  <2> DEFINE m == [text |-> h.op = "TEXT", body |-> body]
  <2>1. delivered' = [delivered EXCEPT ![n] = IF h.op \in MessageOps THEN Append(@, m) ELSE @]
    BY DEF Dispatches
  <2> HIDE DEF m, h, body
  <2>2. delivered'[n] = IF h.op \in MessageOps THEN Append(delivered[n], m) ELSE delivered[n]
    BY <1>1, <2>1
  <2>3. Len(Append(delivered[n], m)) = Len(delivered[n]) + 1
    BY <1>1
  <2> QED
    BY <1>1, <2>2, <2>3
<1>5. PICK y \in Seq(Unit) : s = r \o y /\ t = rest \o y
  BY DEF Taken
<1> SUFFICES Good(t, d2, q, Connected)
  BY StreamOKNext
<1> HIDE DEF s, t, d, q, r, d2
<1>6. FrameGone(r \o y, h.op, rest \o y, d, q)
  <2>1. Framed(r \o y) /\ Carries(r \o y, d, q)
    BY <1>2, <1>5 DEF Good
  <2> QED
    BY <1>1, <1>3, <2>1, FrameTaken
<1> HIDE DEF rest
<1>7. /\ Framed(t) /\ Carries(t, d2, q)
      /\ Whole(s) => Whole(t)
      /\ Frames(s, MessageOps) = Frames(t, MessageOps) + (IF h.op \in MessageOps THEN 1 ELSE 0)
  BY <1>4, <1>5, <1>6 DEF FrameGone
<1>8. Frames(t, MessageOps) \in Nat
  <2> HIDE DEF h
  <2>a. rest \in Seq(Unit)
    BY <1>3 DEF rest
  <2>1. t \in Seq(Unit)
    BY <1>5, <2>a
  <2> QED
    BY <2>1, FramesPlaces
<1>9. Connected => Complete(t, d2, q)
  <2> SUFFICES ASSUME Connected PROVE Complete(t, d2, q)
    OBVIOUS
  <2>1. Whole(s) /\ Len(q) = d + Frames(s, MessageOps)
    BY <1>2 DEF Good, Complete, Counted
  <2> QED
    BY <1>1, <1>4, <1>7, <1>8, <2>1 DEF Complete, Counted
<1> QED
  BY <1>7, <1>9 DEF Good

\* The streams stay good.
LEMMA StreamStep ==
  ASSUME IInv, NEW e \in Node, Effect(e)
  PROVE  StreamInv'
<1> DEFINE p == Peer(e)
<1>0. /\ p \in Node /\ Peer(p) = e /\ Peer(e) = p /\ p # e /\ \A n \in Node : n = e \/ n = p
      /\ StreamTypes /\ StreamOK(Inbound(e), e) /\ StreamOK(Inbound(p), p)
  BY PeerFacts DEF IInv, StreamInv
<1> HIDE DEF p
<1>1. SUFFICES StreamOK(Inbound(e), e)' /\ StreamOK(Inbound(p), p)'
  BY <1>0 DEF StreamInv
<1>2. DOMAIN sent = Node /\ DOMAIN delivered = Node
  BY <1>0 DEF StreamTypes
<1>3. ASSUME NEW n \in Node, StreamOK(Inbound(n), n), Unheard,
             \/ Connected' = Connected /\ (Same(n) \/ LineGone(n) \/ Answered(n))
             \/ Cut(n)
      PROVE  StreamOK(Inbound(n), n)'
  <2>1. delivered'[n] = delivered[n] /\ sent'[Peer(n)] = sent[Peer(n)]
    BY <1>3 DEF Unheard
  <2> QED
    BY <1>0, <1>3, <2>1, StreamKept
<1>4. CASE Unheard /\ Connected' = Connected /\ Same(e) /\ Same(p)
  BY <1>0, <1>3, <1>4
<1>5. CASE Unheard /\ Cut(e) /\ Cut(p)
  BY <1>0, <1>3, <1>5
<1>6. CASE Unheard /\ Connected' = Connected /\ LineGone(e) /\ (Same(p) \/ Answered(p))
  BY <1>0, <1>3, <1>6
<1>7. CASE /\ Queues(e) /\ Connected' = Connected /\ Same(e)
           /\ \A op \in Op, body \in Payload : Queue(e, op, body) => Queued(p, op, body)
  <2>1. PICK op \in Op \ {"PONG"}, body \in Payload : Queue(e, op, body)
    BY <1>7 DEF Queues
  <2>2. delivered' = delivered /\ sent'[p] = sent[p]
    BY <1>0, <1>2, <1>7, <2>1 DEF Queues, Queue
  <2>3. StreamOK(Inbound(p), p)'
    BY <1>0, <1>7, <2>1, <2>2, StreamQueued
  <2>4. StreamOK(Inbound(e), e)'
    BY <1>0, <1>7, <2>2, StreamKept
  <2> QED
    BY <2>3, <2>4
<1>8. CASE /\ Dispatches(e) /\ Connected' = Connected /\ Taken(e)
           /\ UNCHANGED mTransmitBuffer => Same(p)
           /\ \A op \in Op, body \in Payload : Queue(e, op, body) => Queued(p, op, body)
  <2>1. delivered'[p] = delivered[p]
    BY <1>0, <1>2, <1>8 DEF Dispatches
  <2>2. \/ UNCHANGED <<mTransmitBuffer, sent>>
        \/ \E op \in Op, body \in Payload : Queue(e, op, body)
    BY <1>8 DEF Dispatches
  <2>3. sent'[p] = sent[p]
    BY <1>0, <1>2, <2>2 DEF Queue
  <2>4. StreamOK(Inbound(e), e)'
    BY <1>0, <1>8, <2>3, StreamTaken
  <2>5. CASE UNCHANGED <<mTransmitBuffer, sent>>
    <3>1. Same(p) /\ sent'[Peer(p)] = sent[Peer(p)]
      BY <1>8, <2>5
    <3>2. StreamOK(Inbound(p), p)'
      BY <1>0, <1>8, <2>1, <3>1, StreamKept
    <3> QED
      BY <2>4, <3>2
  <2>6. CASE \E op \in Op, body \in Payload : Queue(e, op, body)
    <3>1. PICK op \in Op, body \in Payload : Queue(e, op, body)
      BY <2>6
    <3>2. StreamOK(Inbound(p), p)'
      BY <1>0, <1>8, <2>1, <3>1, StreamQueued
    <3> QED
      BY <2>4, <3>2
  <2> QED
    BY <2>2, <2>5, <2>6
<1> QED
  BY <1>4, <1>5, <1>6, <1>7, <1>8 DEF Effect, p

\* A message that is delivered is the one whose turn it is; what was sent
\* stays sent.
LEMMA DeliveredStep ==
  ASSUME IInv, NEW e \in Node, Effect(e)
  PROVE  DeliveredInOrder'
<1> DEFINE p == Peer(e)
           InOrder(n) ==
             /\ Len(delivered[n]) <= Len(sent[Peer(n)])
             /\ \A k \in 1 .. Len(delivered[n]) : delivered[n][k] = sent[Peer(n)][k]
           Grows(s, t) == Len(t) >= Len(s) /\ \A k \in 1 .. Len(s) : t[k] = s[k]
<1>0. /\ p \in Node /\ Peer(p) = e /\ Peer(e) = p /\ p # e /\ \A n \in Node : n = e \/ n = p
      /\ InOrder(e) /\ InOrder(p) /\ Endpoint = Node
      /\ delivered \in [Node -> Seq(Message)] /\ sent \in [Node -> Seq(Messages)]
  BY PeerFacts DEF IInv, StreamTypes, DeliveredInOrder
<1> HIDE DEF p
<1>1. SUFFICES InOrder(e)' /\ InOrder(p)'
  BY <1>0 DEF DeliveredInOrder
<1>2. /\ \A n \in Node : Len(sent[n]) \in Nat /\ Grows(sent[n], sent[n])
      /\ \A n \in Node : Len(delivered[n]) \in Nat
  BY <1>0
<1>3. ASSUME NEW n \in Node, InOrder(n), delivered'[n] = delivered[n],
             Grows(sent[Peer(n)], sent'[Peer(n)]), Len(sent'[Peer(n)]) \in Nat
      PROVE  InOrder(n)'
  <2>1. Peer(n) \in Node /\ Len(sent[Peer(n)]) \in Nat /\ Len(delivered[n]) \in Nat
    BY <1>0, <1>2, PeerFacts
  <2>2. \A k \in 1 .. Len(delivered[n]) : k \in 1 .. Len(sent[Peer(n)])
    BY <1>3, <2>1
  <2> QED
    BY <1>3, <2>1, <2>2
<1>4. ASSUME NEW op \in Op, NEW body \in Payload, Queue(e, op, body)
      PROVE  Grows(sent[e], sent'[e]) /\ Len(sent'[e]) \in Nat /\ sent'[p] = sent[p]
  <2> DEFINE m == [text |-> op = "TEXT", body |-> body]
  <2>1. sent' = [sent EXCEPT ![e] = Given(@, op, body)] /\ (op \in MessageOps => m \in Messages)
    BY <1>4 DEF Queue
  <2>2. sent'[e] = Given(sent[e], op, body) /\ sent'[p] = sent[p]
    BY <1>0, <2>1
  <2>3. Given(sent[e], op, body) = IF op \in MessageOps THEN Append(sent[e], m) ELSE sent[e]
    BY DEF Given
  <2> HIDE DEF m
  <2>4. CASE op \in MessageOps
    <3>1. m \in Messages /\ sent'[e] = Append(sent[e], m) /\ sent[e] \in Seq(Messages)
      BY <1>0, <2>1, <2>2, <2>3, <2>4
    <3>2. Len(sent'[e]) = Len(sent[e]) + 1 /\ \A k \in 1 .. Len(sent[e]) : sent'[e][k] = sent[e][k]
      BY <3>1
    <3> QED
      BY <1>2, <2>2, <3>2
  <2>5. CASE op \notin MessageOps
    BY <1>2, <2>2, <2>3, <2>5
  <2> QED
    BY <2>4, <2>5
<1>5. CASE UNCHANGED <<sent, delivered>>
  BY <1>0, <1>2, <1>3, <1>5
<1>6. CASE Queues(e)
  <2>1. PICK op \in Op \ {"PONG"}, body \in Payload : Queue(e, op, body)
    BY <1>6 DEF Queues
  <2>2. delivered' = delivered
    BY <1>6 DEF Queues
  <2>3. Grows(sent[e], sent'[e]) /\ Len(sent'[e]) \in Nat /\ sent'[p] = sent[p]
    BY <1>4, <2>1
  <2> QED
    BY <1>0, <1>2, <1>3, <2>2, <2>3
<1>7. CASE Dispatches(e)
  <2>1. UNCHANGED sent \/ \E op \in Op, body \in Payload : Queue(e, op, body)
    BY <1>7 DEF Dispatches
  <2>2. Grows(sent[e], sent'[e]) /\ Len(sent'[e]) \in Nat /\ sent'[p] = sent[p]
    BY <1>2, <1>4, <2>1
  <2> DEFINE h == Head(Rx(e))
             m == [text |-> h.op = "TEXT", body |-> FramePayload(e)]
  <2>3. delivered' = [delivered EXCEPT ![e] = IF h.op \in MessageOps THEN Append(@, m) ELSE @]
    BY <1>7 DEF Dispatches
  <2>4. h.op \in MessageOps =>
          Len(delivered[e]) + 1 <= Len(sent[p]) /\ sent[p][Len(delivered[e]) + 1] = m
    BY <1>7, HeadFrame DEF Dispatches, p
  <2> HIDE DEF m, h
  <2>5. /\ delivered'[p] = delivered[p]
        /\ delivered'[e] = IF h.op \in MessageOps THEN Append(delivered[e], m) ELSE delivered[e]
    BY <1>0, <2>3
  <2>6. InOrder(p)'
    BY <1>0, <1>3, <2>2, <2>5
  <2>7. CASE h.op \notin MessageOps
    BY <1>0, <1>2, <1>3, <2>2, <2>5, <2>6, <2>7
  <2>8. CASE h.op \in MessageOps
    <3>1. /\ Len(delivered'[e]) = Len(delivered[e]) + 1
          /\ delivered'[e][Len(delivered[e]) + 1] = m
          /\ \A k \in 1 .. Len(delivered[e]) : delivered'[e][k] = delivered[e][k]
      <4>1. delivered[e] \in Seq(Message) /\ delivered'[e] = Append(delivered[e], m)
        BY <1>0, <2>5, <2>8
      <4> QED
        BY <4>1
    <3>2. Len(delivered'[e]) <= Len(sent'[p])
      BY <2>2, <2>4, <2>8, <3>1
    <3>3. \A k \in 1 .. Len(delivered'[e]) : delivered'[e][k] = sent'[p][k]
      <4> TAKE k \in 1 .. Len(delivered'[e])
      <4>1. CASE k = Len(delivered[e]) + 1
        BY <2>2, <2>4, <2>8, <3>1, <4>1
      <4>2. CASE k # Len(delivered[e]) + 1
        <5>1. k \in 1 .. Len(delivered[e])
          BY <1>2, <3>1, <4>2
        <5> QED
          BY <1>0, <2>2, <3>1, <5>1
      <4> QED
        BY <4>1, <4>2
    <3> QED
      BY <1>0, <2>6, <3>2, <3>3
  <2> QED
    BY <2>7, <2>8
<1> QED
  BY <1>5, <1>6, <1>7 DEF Effect, Unheard
-----------------------------------------------------------------------------
(* Pings and their answers.                                                *)

\* How the frames of a stream are counted in the next state.
LEMMA CountNext ==
  ASSUME NEW n \in Node, NEW ops
  PROVE  Frames(Stream(n), ops)' = Frames(Stream(n)', ops)
BY DEF Frames

\* Lines are no frames.
LEMMA CountKept ==
  ASSUME StreamTypes, NEW n \in Node, StreamOK(Inbound(n), n), Connected,
         Same(n) \/ LineGone(n) \/ Answered(n)
  PROVE  \A ops : Frames(Stream(n)', ops) = Frames(Stream(n), ops)
<1> DEFINE s == Stream(n)
           t == Stream(n)'
           d == Len(delivered[n])
           q == sent[Peer(n)]
<1>1. s \in Seq(Unit) /\ d \in Nat
  BY InboundParts
<1>2. Framed(s) /\ Carries(s, d, q)
  BY DEF StreamOK, Inbound
<1>3. CASE Same(n)
  BY <1>3 DEF Same
<1>4. CASE LineGone(n)
  <2>1. s # <<>> /\ Head(s).kind = "line" /\ t = Tail(s)
    BY <1>4 DEF LineGone
  <2> HIDE DEF s, t, d, q
  <2>2. \A ops : Frames(s, ops) = Frames(Tail(s), ops)
    BY <1>1, <1>2, <2>1, LineTaken
  <2>3. \A ops : Frames(t, ops) = Frames(s, ops)
    BY <2>1, <2>2
  <2> QED
    BY <2>3 DEF s, t
<1>5. CASE Answered(n)
  <2>1. t = Response \o s
    BY <1>5 DEF Answered
  <2> HIDE DEF s, t, d, q
  <2>2. \A ops : Frames(Response \o s, ops) = Frames(s, ops)
    BY <1>1, <1>2, ResponseFacts, LinesBefore
  <2>3. \A ops : Frames(t, ops) = Frames(s, ops)
    BY <2>1, <2>2
  <2> QED
    BY <2>3 DEF s, t
<1> QED
  BY <1>3, <1>4, <1>5

\* A queued frame counts once.
LEMMA CountQueued ==
  ASSUME StreamTypes, NEW n \in Node, NEW op \in Op, NEW body \in Payload, Queued(n, op, body)
  PROVE  \A ops : Frames(Stream(n)', ops)
                    = Frames(Stream(n), ops) + (IF op \in ops THEN 1 ELSE 0)
<1> TAKE ops
<1> DEFINE s == Stream(n)
           t == Stream(n)'
           f == Frame(op, TRUE, body)
<1>1. s \in Seq(Unit) /\ f \in Seq(Unit) /\ t = s \o f
  BY InboundParts, FrameFacts DEF Queued
<1>2. Frames(f, ops) = IF op \in ops THEN 1 ELSE 0
  BY FrameCount
<1> HIDE DEF s, t, f
<1>3. Frames(s \o f, ops) = Frames(s, ops) + Frames(f, ops)
  BY <1>1, FramesConcat
<1>4. Frames(t, ops) = Frames(s, ops) + (IF op \in ops THEN 1 ELSE 0)
  BY <1>1, <1>2, <1>3
<1> QED
  BY <1>4 DEF s, t

\* The frame that is dispatched counts no more.
LEMMA CountTaken ==
  ASSUME IInv, NEW n \in Node, Connected, Dispatches(n), Taken(n)
  PROVE  \A ops : Frames(Stream(n), ops)
                    = Frames(Stream(n)', ops) + (IF Head(Rx(n)).op \in ops THEN 1 ELSE 0)
<1> DEFINE s == Stream(n)
           t == Stream(n)'
           d == Len(delivered[n])
           q == sent[Peer(n)]
           r == Rx(n)
           h == Head(r)
           rest == SubSeq(r, 2 + h.len, Len(r))
<1>1. d \in Nat
  BY InboundParts DEF IInv
<1>2. Framed(s) /\ Carries(s, d, q)
  BY DEF IInv, StreamInv, StreamOK, Inbound
<1>3. r \in Seq(Unit) /\ r # <<>> /\ Len(r) >= 1 + h.len /\ h.kind = "head"
  BY HeadFrame DEF Dispatches
<1>4. PICK y \in Seq(Unit) : s = r \o y /\ t = rest \o y
  BY DEF Taken
<1> HIDE DEF s, t, d, q, r
<1>5. FrameGone(r \o y, h.op, rest \o y, d, q)
  BY <1>1, <1>2, <1>3, <1>4, FrameTaken
<1> HIDE DEF rest, h
<1>6. \A ops : Frames(s, ops) = Frames(t, ops) + (IF h.op \in ops THEN 1 ELSE 0)
  BY <1>4, <1>5 DEF FrameGone
<1> QED
  BY <1>6 DEF s, t, h, r

\* What a ping of e adds up to.
PingSum(e) ==
  Frames(Stream(Peer(e)), {"PING"}) + Frames(Stream(e), {"PONG"}) + pongs[e]

Undisturbed == Connected /\ \A e \in Node : ~ClosingOrClosed(e)

\* Pings, their pongs and what is on its way keep adding up until somebody
\* closes.
LEMMA PingStep ==
  ASSUME IInv, PingsAnswered, NEW e \in Node, ProperStep(e), Effect(e)
  PROVE  PingsAnswered'
<1> DEFINE p == Peer(e)
<1>0. /\ p \in Node /\ Peer(p) = e /\ Peer(e) = p /\ p # e /\ \A n \in Node : n = e \/ n = p
      /\ StreamTypes /\ ControlTypes /\ Control /\ Endpoint = Node
      /\ StreamOK(Inbound(e), e) /\ StreamOK(Inbound(p), p)
  BY PeerFacts DEF IInv, StreamInv
<1> HIDE DEF p
<1>1. /\ pings[e] \in Nat /\ pings[p] \in Nat /\ pongs[e] \in Nat /\ pongs[p] \in Nat
      /\ DOMAIN pings = Node /\ DOMAIN pongs = Node
  BY <1>0, EndpointAssumption DEF StreamTypes
<1> DEFINE a == Frames(Stream(p), {"PING"})
           b == Frames(Stream(e), {"PONG"})
           c == Frames(Stream(e), {"PING"})
           d == Frames(Stream(p), {"PONG"})
           a2 == Frames(Stream(p)', {"PING"})
           b2 == Frames(Stream(e)', {"PONG"})
           c2 == Frames(Stream(e)', {"PING"})
           d2 == Frames(Stream(p)', {"PONG"})
<1>2. a \in Nat /\ b \in Nat /\ c \in Nat /\ d \in Nat
  BY <1>0, InboundParts, FramesPlaces
<1>3. SUFFICES ASSUME Undisturbed'
               PROVE  pings'[e] = a2 + b2 + pongs'[e] /\ pings'[p] = c2 + d2 + pongs'[p]
  <2>1. /\ PingSum(e)' = a2 + b2 + pongs'[e] /\ PingSum(p)' = c2 + d2 + pongs'[p]
    BY <1>0, CountNext DEF PingSum
  <2>2. PingsAnswered' = (Undisturbed' => \A n \in Node : pings'[n] = PingSum(n)')
    BY <1>0 DEF PingsAnswered, Undisturbed, PingSum
  <2> QED
    BY <1>0, <1>3, <2>1, <2>2
<1>4. \A n \in Node : ~ClosingOrClosed(n)
  BY <1>0, <1>3, ClosingStays DEF Undisturbed
<1>5. Connected'
  BY <1>3 DEF Undisturbed
<1>6. Connected' = Connected => pings[e] = a + b + pongs[e] /\ pings[p] = c + d + pongs[p]
  BY <1>0, <1>4, <1>5 DEF PingsAnswered
<1>7. CASE /\ Unheard /\ Connected' = Connected
           /\ Same(e) \/ LineGone(e)
           /\ Same(p) \/ Answered(p)
  <2>1. a2 = a /\ b2 = b /\ c2 = c /\ d2 = d
    <3>1. \A n \in Node : StreamOK(Inbound(n), n) /\ (Same(n) \/ LineGone(n) \/ Answered(n)) =>
            \A ops : Frames(Stream(n)', ops) = Frames(Stream(n), ops)
      BY <1>0, <1>5, <1>7, CountKept
    <3> QED
      BY <1>0, <1>7, <3>1
  <2>2. pings' = pings /\ pongs' = pongs
    BY <1>7 DEF Unheard
  <2> HIDE DEF a, b, c, d, a2, b2, c2, d2
  <2> QED
    BY <1>6, <1>7, <2>1, <2>2
<1>8. CASE /\ Queues(e) /\ Connected' = Connected /\ Same(e)
           /\ \A op \in Op, body \in Payload : Queue(e, op, body) => Queued(p, op, body)
  <2>1. PICK op \in Op \ {"PONG"}, body \in Payload :
          /\ Queue(e, op, body)
          /\ pings' = [pings EXCEPT ![e] = IF op = "PING" THEN @ + 1 ELSE @]
    BY <1>8 DEF Queues
  <2>2. pongs' = pongs
    BY <1>8 DEF Queues
  <2>3. Queued(p, op, body)
    BY <1>8, <2>1
  <2>4. a2 = a + (IF op = "PING" THEN 1 ELSE 0) /\ d2 = d
    <3>1. \A ops : Frames(Stream(p)', ops) = Frames(Stream(p), ops) + (IF op \in ops THEN 1 ELSE 0)
      BY <1>0, <2>3, CountQueued
    <3>2. a2 = a + (IF op \in {"PING"} THEN 1 ELSE 0)
      BY <3>1
    <3>3. d2 = d + (IF op \in {"PONG"} THEN 1 ELSE 0)
      BY <3>1
    <3> HIDE DEF a, d, a2, d2
    <3> QED
      BY <1>2, <3>2, <3>3
  <2>5. b2 = b /\ c2 = c
    BY <1>8 DEF Same
  <2>6. pings'[e] = pings[e] + (IF op = "PING" THEN 1 ELSE 0) /\ pings'[p] = pings[p]
    BY <1>0, <1>1, <2>1
  <2> HIDE DEF a, b, c, d, a2, b2, c2, d2
  <2> QED
    BY <1>1, <1>2, <1>6, <1>8, <2>2, <2>4, <2>5, <2>6
<1>9. CASE /\ Dispatches(e) /\ Connected' = Connected /\ Taken(e)
           /\ UNCHANGED mTransmitBuffer => Same(p)
           /\ \A op \in Op, body \in Payload : Queue(e, op, body) => Queued(p, op, body)
  <2> DEFINE o == Head(Rx(e)).op
  <2>1. /\ pings' = pings
        /\ pongs' = [pongs EXCEPT ![e] = IF o = "PONG" THEN @ + 1 ELSE @]
    BY <1>9 DEF Dispatches
  <2>2. pongs'[e] = pongs[e] + (IF o = "PONG" THEN 1 ELSE 0) /\ pongs'[p] = pongs[p]
    BY <1>0, <1>1, <2>1
  <2>3. /\ b = b2 + (IF o = "PONG" THEN 1 ELSE 0)
        /\ c = c2 + (IF o = "PING" THEN 1 ELSE 0)
    <3>1. \A ops : Frames(Stream(e), ops) = Frames(Stream(e)', ops) + (IF o \in ops THEN 1 ELSE 0)
      BY <1>5, <1>9, CountTaken
    <3>2. b = b2 + (IF o \in {"PONG"} THEN 1 ELSE 0)
      BY <3>1
    <3>3. c = c2 + (IF o \in {"PING"} THEN 1 ELSE 0)
      BY <3>1
    <3> HIDE DEF b, c, b2, c2, o
    <3> QED
      BY <3>2, <3>3
  <2>4. b2 \in Nat /\ c2 \in Nat
    <3>1. Stream(e)' \in Seq(Unit)
      <4>1. PICK y \in Seq(Unit) :
              Stream(e)' = SubSeq(Rx(e), 2 + Head(Rx(e)).len, Len(Rx(e))) \o y
        BY <1>9 DEF Taken
      <4>2. Rx(e) \in Seq(Unit) /\ Head(Rx(e)).len \in Nat
        BY <1>9, HeadFrame DEF Dispatches
      <4> DEFINE r == Rx(e)
                 k == Head(r).len
      <4> HIDE DEF r, k
      <4>3. SubSeq(r, 2 + k, Len(r)) \in Seq(Unit)
        BY <4>2 DEF r, k
      <4> DEFINE rest == SubSeq(r, 2 + k, Len(r))
      <4> HIDE DEF rest
      <4>4. rest \o y \in Seq(Unit)
        BY <4>3 DEF rest
      <4> QED
        BY <4>1, <4>4 DEF rest, r, k
    <3> QED
      BY <3>1, FramesPlaces
  <2>5. a2 = a /\ d2 = d + (IF o = "PING" THEN 1 ELSE 0)
    <3>1. CASE UNCHANGED mTransmitBuffer /\ (o = "PING" => ClosingOrClosed(e))
      <4>1. Same(p) /\ o # "PING"
        BY <1>4, <1>9, <3>1
      <4>2. Stream(p)' = Stream(p)
        BY <4>1 DEF Same
      <4> QED
        BY <1>2, <4>1, <4>2
    <3>2. CASE \E op \in Op \ {"PING"}, body \in Payload :
                 Queue(e, op, body) /\ (op = "PONG" <=> o = "PING")
      <4>1. PICK op \in Op \ {"PING"}, body \in Payload :
              Queue(e, op, body) /\ (op = "PONG" <=> o = "PING")
        BY <3>2
      <4>2. \A ops :
              Frames(Stream(p)', ops) = Frames(Stream(p), ops) + (IF op \in ops THEN 1 ELSE 0)
        BY <1>0, <1>9, <4>1, CountQueued
      <4>3. a2 = a + (IF op \in {"PING"} THEN 1 ELSE 0)
        BY <4>2
      <4>4. d2 = d + (IF op \in {"PONG"} THEN 1 ELSE 0)
        BY <4>2
      <4> HIDE DEF a, d, a2, d2, o
      <4> QED
        BY <1>2, <4>1, <4>3, <4>4
    <3> QED
      BY <1>9, <3>1, <3>2 DEF Dispatches
  <2> HIDE DEF a, b, c, d, a2, b2, c2, d2, o
  <2> QED
    BY <1>1, <1>2, <1>6, <1>9, <2>1, <2>2, <2>3, <2>4, <2>5
<1>10. ~Cut(e)
  BY <1>5 DEF Cut
<1> QED
  BY <1>7, <1>8, <1>9, <1>10 DEF Effect, p
-----------------------------------------------------------------------------
(* The handshake.                                                          *)

\* Who moves the parsers on, and decides that a socket does not block.
LEMMA PhasesKept ==
  ASSUME NEW e \in Node, ProperStep(e)
  PROVE  \/ UNCHANGED connectionVars
         \/ AcceptRequest(e) \/ AcceptStatus(e) \/ ServerLine(e) \/ ClientLine(e)
<1> USE DEF connectionVars
<1>1. CASE \E op \in Kinds, len \in Lengths : Send(e, op, len)
  BY <1>1 DEF Send
<1>2. CASE SendPing(e) \/ Close(e) \/ Delete(e)
  BY <1>2 DEF SendPing, Close, Delete
<1>3. CASE ConnectTimeout(e) \/ LongLine(e) \/ RefuseLine(e)
  BY <1>3 DEF ConnectTimeout, LongLine, RefuseLine
<1>4. CASE PollBegin(e) \/ Receive(e) \/ ReceiveWouldBlock(e) \/ ReceiveEnd(e)
  BY <1>4 DEF PollBegin, Receive, ReceiveWouldBlock, ReceiveEnd, At
<1>5. CASE SendSome(e) \/ SendLost(e) \/ SendError(e) \/ SendWouldBlock(e) \/ SendDone(e)
  BY <1>5 DEF SendSome, SendLost, SendError, SendWouldBlock, SendDone, At
<1>6. CASE \E reaction \in Reactions : DispatchMessage(e, reaction)
  BY <1>6 DEF DispatchMessage, Dispatching, At
<1>7. CASE DispatchFragment(e) \/ DispatchPing(e) \/ DispatchPong(e)
  BY <1>7 DEF DispatchFragment, DispatchPing, DispatchPong, Dispatching, At
<1>8. CASE DispatchClose(e) \/ DispatchDone(e) \/ Deleted(e)
  BY <1>8 DEF DispatchClose, DispatchDone, Deleted, Dispatching, At
<1> QED
  BY <1>1, <1>2, <1>3, <1>4, <1>5, <1>6, <1>7, <1>8, StepCases

\* Units that have left for n are lost, or a unit that is no line follows.
Shorter(s, t) == \E a, b, c \in Seq(Unit) : s = (a \o b) \o c /\ t = a \o c

Longer(s, t) == \E u \in Unit : u.kind # "line" /\ t = Append(s, u)

Flows(n) ==
  \/ In(n)' = In(n)
  \/ Shorter(In(n), In(n)')
  \/ nonblocking[Peer(n)] /\ Longer(In(n), In(n)')

\* The handshake's part of the invariant in the next state, in terms of the
\* next values.
LEMMA HandshakeNext ==
  ASSUME /\ mConnectionPhase'["server"] \in {"HTTP_STATUS", "SERVER_CLIENT_STRINGS"}
         /\ mConnectionPhase'["client"] \in DOMAIN LinesLeft
         /\ nonblocking'["server"] => mConnectionPhase'["server"] = "SERVER_CLIENT_STRINGS"
         /\ nonblocking'["client"] => mConnectionPhase'["client"] = "H",
         mConnectionPhase'["server"] = "HTTP_STATUS" =>
           mConnectionPhase'["client"] = "HTTP_STATUS" /\ In("client")' = <<>>,
         mReadyState'["client"] = "CONNECTING" /\ mConnectionPhase'["server"] # "HTTP_STATUS" =>
           StartsWithLines(wire'["client"], LinesLeft[mConnectionPhase'["client"]]),
         /\ LinesFirst(In("server")')
         /\ \A n \in Node : nonblocking'[n] => NoLines(In(n)')
         /\ \A n \in Node : NoLines(mTransmitBuffer'[n])
  PROVE  Handshake'
BY DEF Handshake, LinesFirst, NoLines, StartsWithLines, LinesLeft

\* No parser moves: nothing but frames is added to what is on its way.
LEMMA HandshakeKept ==
  ASSUME StreamTypes, Handshake, UNCHANGED connectionVars,
         \A n \in Node : Flows(n) /\ NoLines(mTransmitBuffer'[n]),
         mReadyState'["client"] = "CONNECTING" =>
           /\ mReadyState["client"] = "CONNECTING"
           /\ wire'["client"] = wire["client"] \/ Longer(wire["client"], wire'["client"])
  PROVE  Handshake'
<1> DEFINE c == "client"
           v == "server"
<1>0. c \in Node /\ v \in Node /\ Peer(c) = v /\ Peer(v) = c
  BY DEF Node, Peer
<1>1. nonblocking' = nonblocking /\ mConnectionPhase' = mConnectionPhase
  BY DEF connectionVars
<1>2. \A n \in Node : In(n) \in Seq(Unit) /\ wire[n] \in Seq(Unit)
  BY InboundParts
<1>3. ASSUME NEW n \in Node
      PROVE  /\ NoLines(In(n)) => NoLines(In(n)')
             /\ LinesFirst(In(n)) => LinesFirst(In(n)')
             /\ In(n) = <<>> /\ ~nonblocking[Peer(n)] => In(n)' = <<>>
  <2> DEFINE s == In(n)
             t == In(n)'
  <2>1. s \in Seq(Unit)
    BY <1>2
  <2>2. \/ t = s
        \/ Shorter(s, t)
        \/ nonblocking[Peer(n)] /\ Longer(s, t)
    BY DEF Flows
  <2> HIDE DEF s, t
  <2>3. CASE Shorter(s, t)
    <3>1. PICK a, b, d \in Seq(Unit) : s = (a \o b) \o d /\ t = a \o d
      BY <2>3 DEF Shorter
    <3>2. /\ NoLines((a \o b) \o d) => NoLines(a \o d)
          /\ LinesFirst((a \o b) \o d) => LinesFirst(a \o d)
      BY RemoveKeeps
    <3>3. (a \o b) \o d = <<>> => a \o d = <<>>
      OBVIOUS
    <3>4. (NoLines(s) => NoLines(t)) /\ (LinesFirst(s) => LinesFirst(t)) /\ (s = <<>> => t = <<>>)
      BY <3>1, <3>2, <3>3
    <3> QED
      BY <3>4 DEF s, t
  <2>4. CASE nonblocking[Peer(n)] /\ Longer(s, t)
    <3>1. PICK u \in Unit : u.kind # "line" /\ t = Append(s, u)
      BY <2>4 DEF Longer
    <3>2. (NoLines(s) => NoLines(t)) /\ (LinesFirst(s) => LinesFirst(t))
      BY <2>1, <3>1, UnitSent
    <3> QED
      BY <2>4, <3>2 DEF s, t
  <2>5. CASE t = s
    BY <2>5 DEF s, t
  <2> QED
    BY <2>2, <2>3, <2>4, <2>5
<1>4. /\ LinesFirst(In(v)')
      /\ \A n \in Node : nonblocking'[n] => NoLines(In(n)')
      /\ \A n \in Node : NoLines(mTransmitBuffer'[n])
  BY <1>0, <1>1, <1>3 DEF Handshake
<1>5. mConnectionPhase'[v] = "HTTP_STATUS" =>
        mConnectionPhase'[c] = "HTTP_STATUS" /\ In(c)' = <<>>
  <2> SUFFICES ASSUME mConnectionPhase[v] = "HTTP_STATUS"
               PROVE  mConnectionPhase[c] = "HTTP_STATUS" /\ In(c)' = <<>>
    BY <1>1
  <2>1. ~nonblocking[Peer(c)] /\ mConnectionPhase[c] = "HTTP_STATUS" /\ In(c) = <<>>
    BY <1>0 DEF Handshake
  <2> QED
    BY <1>0, <1>3, <2>1
<1>6. mReadyState'[c] = "CONNECTING" /\ mConnectionPhase'[v] # "HTTP_STATUS" =>
        StartsWithLines(wire'[c], LinesLeft[mConnectionPhase'[c]])
  <2> DEFINE k == LinesLeft[mConnectionPhase[c]]
             w == wire[c]
             w2 == wire'[c]
  <2> SUFFICES ASSUME mReadyState'[c] = "CONNECTING", mConnectionPhase[v] # "HTTP_STATUS"
               PROVE  StartsWithLines(w2, k)
    BY <1>1
  <2>1. StartsWithLines(w, k) /\ k \in Nat /\ w \in Seq(Unit)
    BY <1>0, <1>2 DEF Handshake, LinesLeft
  <2>2. w2 = w \/ Longer(w, w2)
    OBVIOUS
  <2> HIDE DEF w, w2, k
  <2>3. CASE Longer(w, w2)
    <3>1. PICK u \in Unit : u.kind # "line" /\ w2 = Append(w, u)
      BY <2>3 DEF Longer
    <3> QED
      BY <2>1, <3>1, UnitSent
  <2> QED
    BY <2>1, <2>2, <2>3
<1>7. /\ mConnectionPhase'[v] \in {"HTTP_STATUS", "SERVER_CLIENT_STRINGS"}
      /\ mConnectionPhase'[c] \in DOMAIN LinesLeft
      /\ nonblocking'[v] => mConnectionPhase'[v] = "SERVER_CLIENT_STRINGS"
      /\ nonblocking'[c] => mConnectionPhase'[c] = "H"
  BY <1>1 DEF Handshake
<1> QED
  BY <1>4, <1>5, <1>6, <1>7, HandshakeNext

\* What is known while a parser still waits for lines.
LEMMA Parsing ==
  ASSUME IInv, NEW e \in Node, HasLine(e)
  PROVE  /\ mReadyState[e] = "CONNECTING" /\ ~nonblocking[e] /\ mSocket[e] = "open"
         /\ In(e) = wire[e] /\ wire[e] \in Seq(Unit) /\ wire[e] # <<>>
<1>1. /\ mReadyState[e] = "CONNECTING" /\ ~nonblocking[e] /\ mSocket[e] = "open"
      /\ mReceiveBuffer[e] = <<>> /\ wire[e] # <<>>
  BY DEF IInv, Control, ControlOf, HasLine, AtLine, CanConnect
<1>2. wire[e] \in Seq(Unit) /\ In(e) = mReceiveBuffer[e] \o wire[e]
  BY InboundParts DEF IInv, In
<1> DEFINE w == wire[e]
<1> HIDE DEF w
<1>3. w \in Seq(Unit) => <<>> \o w = w
  OBVIOUS
<1> QED
  BY <1>1, <1>2, <1>3 DEF w

\* The server answers the request: the client waits for the whole answer.
LEMMA HandshakeRequest ==
  ASSUME IInv, NEW e \in Node, AcceptRequest(e)
  PROVE  Handshake'
<1>0. /\ e = "server" /\ Peer(e) = "client" /\ Peer("client") = e
      /\ e \in Node /\ "client" \in Node /\ StreamTypes /\ Handshake /\ ControlTypes
      /\ \A n \in Node : n = e \/ n = "client"
  BY DEF AcceptRequest, mIsServerClient, Peer, Node, IInv
<1>1. /\ HasLine(e) /\ mConnectionPhase[e] = "HTTP_STATUS"
      /\ mConnectionPhase' = [mConnectionPhase EXCEPT ![e] = "SERVER_CLIENT_STRINGS"]
      /\ wire' = [wire EXCEPT ![e] = Tail(@), ![Peer(e)] = IF eof[e] THEN @ ELSE @ \o Response]
      /\ UNCHANGED <<mReadyState, mSocket, nonblocking, mReceiveBuffer, mTransmitBuffer>>
  BY DEF AcceptRequest, bufferVars
<1>2. /\ mConnectionPhase["client"] = "HTTP_STATUS" /\ In("client") = <<>>
      /\ ~nonblocking["client"] /\ ~nonblocking[e] /\ LinesFirst(In(e))
      /\ \A n \in Node : NoLines(mTransmitBuffer[n])
  BY <1>0, <1>1 DEF Handshake
<1>3. /\ mConnectionPhase'[e] = "SERVER_CLIENT_STRINGS"
      /\ mConnectionPhase'["client"] = "HTTP_STATUS"
      /\ wire'[e] = Tail(wire[e])
      /\ wire'["client"] = IF eof[e] THEN wire["client"] ELSE wire["client"] \o Response
  BY <1>0, <1>1, <1>2 DEF StreamTypes, ControlTypes
<1>4. In(e) = wire[e] /\ wire[e] \in Seq(Unit) /\ wire[e] # <<>> /\ mReceiveBuffer[e] = <<>>
  BY <1>0, <1>1, Parsing DEF IInv, Control, ControlOf
<1>5. LinesFirst(In(e)')
  <2> DEFINE w == wire[e]
  <2>1. In(e)' = <<>> \o Tail(w)
    BY <1>1, <1>3, <1>4 DEF In
  <2>2. w \in Seq(Unit) /\ w # <<>> /\ LinesFirst(w)
    BY <1>2, <1>4
  <2> HIDE DEF w
  <2>3. LinesFirst(Tail(w)) /\ <<>> \o Tail(w) = Tail(w)
    BY <2>2, LinesFirstTail
  <2> QED
    BY <2>1, <2>3
<1>6. ASSUME mReadyState["client"] = "CONNECTING"
      PROVE  StartsWithLines(wire'["client"], 6)
  <2>1. ~eof[e]
    BY <1>0, <1>6 DEF IInv, Control, ControlOf
  <2> DEFINE r == mReceiveBuffer["client"]
             w == wire["client"]
  <2>2. r \in Seq(Unit) /\ w \in Seq(Unit) /\ r \o w = <<>>
    BY <1>0, <1>2 DEF StreamTypes, In
  <2>3. wire'["client"] = w \o Response
    BY <1>3, <2>1
  <2> HIDE DEF r, w
  <2>4. w = <<>>
    BY <2>2
  <2>5. Response \in Seq(Unit) /\ StartsWithLines(Response, 6)
    BY ResponseFacts
  <2>6. <<>> \o Response = Response
    BY <2>5
  <2> QED
    BY <2>3, <2>4, <2>5, <2>6
<1>7. mReadyState'["client"] = "CONNECTING" =>
        StartsWithLines(wire'["client"], LinesLeft[mConnectionPhase'["client"]])
  BY <1>1, <1>3, <1>6 DEF LinesLeft
<1>8. \A n \in Node : ~nonblocking'[n] /\ NoLines(mTransmitBuffer'[n])
  BY <1>0, <1>1, <1>2
<1>9. mConnectionPhase'["client"] \in DOMAIN LinesLeft
  BY <1>3 DEF LinesLeft
<1> QED
  BY <1>0, <1>3, <1>5, <1>7, <1>8, <1>9, HandshakeNext

\* The client reads a line of the answer, and waits for one less.
LEMMA HandshakeAnswer ==
  ASSUME IInv, HasLine("client"), wire' = [wire EXCEPT !["client"] = Tail(@)],
         UNCHANGED <<mReceiveBuffer, mTransmitBuffer>>,
         mConnectionPhase'["server"] = mConnectionPhase["server"],
         nonblocking'["server"] = nonblocking["server"],
         \/ /\ mConnectionPhase["client"] # "H" /\ UNCHANGED nonblocking
            /\ mConnectionPhase'["client"] \in DOMAIN LinesLeft
            /\ LinesLeft[mConnectionPhase'["client"]] + 1 = LinesLeft[mConnectionPhase["client"]]
         \/ /\ mConnectionPhase["client"] = "H" /\ mConnectionPhase'["client"] = "H"
            /\ mReadyState'["client"] = "OPEN"
  PROVE  Handshake'
<1> DEFINE c == "client"
           v == "server"
           w == wire[c]
           k == LinesLeft[mConnectionPhase[c]]
<1>0. /\ c \in Node /\ v \in Node /\ c # v /\ StreamTypes /\ Handshake
      /\ \A n \in Node : n = c \/ n = v
  BY DEF Node, IInv
<1>1. /\ mReadyState[c] = "CONNECTING" /\ ~nonblocking[c] /\ In(c) = w
      /\ w \in Seq(Unit) /\ w # <<>>
  BY <1>0, Parsing
<1>2. mReceiveBuffer[c] = <<>>
  BY <1>0, <1>1 DEF IInv, Control, ControlOf
<1>3. mConnectionPhase[v] # "HTTP_STATUS"
  BY <1>0, <1>1 DEF Handshake
<1>4. StartsWithLines(w, k) /\ k \in Nat \ {0}
  BY <1>0, <1>1, <1>3 DEF Handshake, LinesLeft
<1>5. wire'[c] = Tail(w) /\ wire'[v] = wire[v]
  BY <1>0 DEF StreamTypes
<1>6. In(c)' = <<>> \o Tail(w) /\ In(v)' = In(v)
  BY <1>2, <1>5 DEF In
<1> HIDE DEF w, k
<1>7. /\ StartsWithLines(Tail(w), k - 1)
      /\ k = 1 => NoLines(Tail(w))
  BY <1>1, <1>4, OneLineLess
<1>8. <<>> \o Tail(w) = Tail(w)
  BY <1>1
<1>9. CASE /\ mConnectionPhase[c] # "H" /\ UNCHANGED nonblocking
           /\ mConnectionPhase'[c] \in DOMAIN LinesLeft
           /\ LinesLeft[mConnectionPhase'[c]] + 1 = LinesLeft[mConnectionPhase[c]]
  <2>1. LinesLeft[mConnectionPhase'[c]] = k - 1
    <3>1. LinesLeft[mConnectionPhase'[c]] \in Nat
      BY <1>9 DEF LinesLeft
    <3> QED
      BY <1>4, <1>9, <3>1 DEF k
  <2>2. StartsWithLines(wire'[c], LinesLeft[mConnectionPhase'[c]])
    BY <1>5, <1>7, <2>1
  <2>3. /\ \A n \in Node : nonblocking'[n] => NoLines(In(n)')
        /\ \A n \in Node : NoLines(mTransmitBuffer'[n])
        /\ LinesFirst(In(v)')
    BY <1>0, <1>1, <1>6, <1>9 DEF Handshake
  <2>4. /\ mConnectionPhase'[v] \in {"HTTP_STATUS", "SERVER_CLIENT_STRINGS"}
        /\ nonblocking'[v] => mConnectionPhase'[v] = "SERVER_CLIENT_STRINGS"
        /\ ~nonblocking'[c]
    BY <1>0, <1>1, <1>9 DEF Handshake
  <2> QED
    BY <1>3, <1>9, <2>2, <2>3, <2>4, HandshakeNext
<1>10. CASE /\ mConnectionPhase[c] = "H" /\ mConnectionPhase'[c] = "H"
            /\ mReadyState'[c] = "OPEN"
  <2>1. k = 1 /\ mConnectionPhase'[c] \in DOMAIN LinesLeft
    BY <1>10 DEF k, LinesLeft
  <2>2. NoLines(In(c)')
    BY <1>6, <1>7, <1>8, <2>1
  <2>3. /\ \A n \in Node : nonblocking'[n] => NoLines(In(n)')
        /\ \A n \in Node : NoLines(mTransmitBuffer'[n])
        /\ LinesFirst(In(v)')
    BY <1>0, <1>6, <2>2 DEF Handshake
  <2>4. /\ mConnectionPhase'[v] \in {"HTTP_STATUS", "SERVER_CLIENT_STRINGS"}
        /\ nonblocking'[v] => mConnectionPhase'[v] = "SERVER_CLIENT_STRINGS"
    BY <1>0 DEF Handshake
  <2> QED
    BY <1>3, <1>10, <2>1, <2>3, <2>4, HandshakeNext
<1> QED
  BY <1>9, <1>10

\* The server skips a line of the request; behind the blank one no line comes.
LEMMA HandshakeSkipped ==
  ASSUME IInv, HasLine("server"), mConnectionPhase["server"] = "SERVER_CLIENT_STRINGS",
         wire' = [wire EXCEPT !["server"] = Tail(@)],
         UNCHANGED <<mReceiveBuffer, mTransmitBuffer, mConnectionPhase>>,
         nonblocking'["client"] = nonblocking["client"],
         mReadyState'["client"] = mReadyState["client"],
         nonblocking'["server"] => nonblocking["server"] \/ NextLine("server") = EmptyLine
  PROVE  Handshake'
<1> DEFINE c == "client"
           v == "server"
           w == wire[v]
<1>0. /\ c \in Node /\ v \in Node /\ c # v /\ StreamTypes /\ Handshake
      /\ \A n \in Node : n = c \/ n = v
  BY DEF Node, IInv
<1>1. /\ ~nonblocking[v] /\ In(v) = w /\ w \in Seq(Unit) /\ w # <<>>
      /\ mReadyState[v] = "CONNECTING"
  BY <1>0, Parsing
<1>2. mReceiveBuffer[v] = <<>> /\ LinesFirst(w)
  BY <1>0, <1>1 DEF IInv, Control, ControlOf, Handshake
<1>3. wire'[v] = Tail(w) /\ wire'[c] = wire[c]
  BY <1>0 DEF StreamTypes
<1>4. In(v)' = <<>> \o Tail(w) /\ In(c)' = In(c)
  BY <1>2, <1>3 DEF In
<1>5. nonblocking'[v] => Head(w).text = EmptyLine
  BY <1>1 DEF NextLine
<1> HIDE DEF w
<1>6. LinesFirst(Tail(w)) /\ <<>> \o Tail(w) = Tail(w)
  BY <1>1, <1>2, LinesFirstTail
<1>7. LinesFirst(In(v)')
  BY <1>4, <1>6
<1>8. nonblocking'[v] => NoLines(In(v)')
  BY <1>1, <1>2, <1>4, <1>5, <1>6, BlankLineEnds
<1>9. /\ \A n \in Node : nonblocking'[n] => NoLines(In(n)')
      /\ \A n \in Node : NoLines(mTransmitBuffer'[n])
  BY <1>0, <1>4, <1>8 DEF Handshake
<1>10. /\ mConnectionPhase'[v] = "SERVER_CLIENT_STRINGS"
       /\ mConnectionPhase'[c] \in DOMAIN LinesLeft
       /\ nonblocking'[c] => mConnectionPhase'[c] = "H"
       /\ mReadyState'[c] = "CONNECTING" =>
            StartsWithLines(wire'[c], LinesLeft[mConnectionPhase'[c]])
  BY <1>0, <1>3 DEF Handshake
<1> QED
  BY <1>7, <1>9, <1>10, HandshakeNext

\* What an end queues, sends or loses leaves no line among its frames.
LEMMA QueueNoLines ==
  ASSUME StreamTypes, NEW e \in Node, NoLines(mTransmitBuffer[e]),
         \/ mTransmitBuffer'[e] = mTransmitBuffer[e]
         \/ mTransmitBuffer[e] # <<>> /\ mTransmitBuffer'[e] = Tail(mTransmitBuffer[e])
         \/ \E op \in Op, body \in Payload : Queue(e, op, body)
  PROVE  NoLines(mTransmitBuffer'[e])
<1> DEFINE x == mTransmitBuffer[e]
           x2 == mTransmitBuffer'[e]
<1>1. x \in Seq(Unit) /\ NoLines(x)
  BY DEF StreamTypes
<1> SUFFICES NoLines(x2)
  OBVIOUS
<1>2. CASE x # <<>> /\ x2 = Tail(x)
  <2> HIDE DEF x, x2
  <2>1. /\ Len(Tail(x)) = Len(x) - 1 /\ Len(x) \in Nat
        /\ \A i \in 1 .. Len(x) - 1 : Tail(x)[i] = x[i + 1] /\ i + 1 \in 1 .. Len(x)
    BY <1>1, <1>2
  <2> QED
    BY <1>1, <1>2, <2>1 DEF NoLines
<1>3. CASE \E op \in Op, body \in Payload : Queue(e, op, body)
  <2>1. PICK op \in Op, body \in Payload : Queue(e, op, body)
    BY <1>3
  <2> DEFINE f == Frame(op, TRUE, body)
  <2>2. x2 = x \o f
    BY <2>1 DEF Queue, StreamTypes
  <2>3. /\ f \in Seq(Unit) /\ Len(f) = 1 + Len(body) /\ f[1] = Header(op, TRUE, Len(body))
        /\ \A j \in 1 .. Len(body) : f[1 + j] = body[j]
    BY FrameFacts
  <2>4. body \in Seq(Unit) /\ \A j \in 1 .. Len(body) : body[j].kind = "data"
    BY DEF Payload
  <2> HIDE DEF x, x2, f
  <2>5. NoLines(f)
    <3> SUFFICES ASSUME NEW i \in 1 .. Len(f) PROVE f[i].kind # "line"
      BY DEF NoLines
    <3>1. CASE i = 1
      BY <2>3, <3>1 DEF Header
    <3>2. CASE i # 1
      <4>1. i - 1 \in 1 .. Len(body) /\ 1 + (i - 1) = i
        BY <2>3, <2>4, <3>2
      <4> QED
        BY <2>3, <2>4, <4>1
    <3> QED
      BY <3>1, <3>2
  <2>6. /\ Len(x \o f) = Len(x) + Len(f) /\ Len(x) \in Nat /\ Len(f) \in Nat
        /\ \A i \in 1 .. Len(x) : (x \o f)[i] = x[i]
        /\ \A i \in Len(x) + 1 .. Len(x) + Len(f) : (x \o f)[i] = f[i - Len(x)]
    <3>1. x \in Seq(Unit) /\ f \in Seq(Unit)
      BY <1>1, <2>3
    <3> QED
      BY <3>1, ConcatFacts
  <2> SUFFICES ASSUME NEW i \in 1 .. Len(x \o f) PROVE (x \o f)[i].kind # "line"
    BY <2>2 DEF NoLines
  <2>7. CASE i <= Len(x)
    <3>1. i \in 1 .. Len(x)
      BY <2>6, <2>7
    <3> QED
      BY <1>1, <2>6, <3>1 DEF NoLines
  <2>8. CASE i > Len(x)
    <3>1. i \in Len(x) + 1 .. Len(x) + Len(f) /\ i - Len(x) \in 1 .. Len(f)
      BY <2>6, <2>8
    <3> QED
      BY <2>5, <2>6, <3>1 DEF NoLines
  <2> QED
    BY <2>6, <2>7, <2>8
<1> QED
  BY <1>1, <1>2, <1>3

\* Units are taken from or lost at the end of what has left for n, or one
\* frame unit follows.
LEMMA FlowsStep ==
  ASSUME IInv, NEW e \in Node, Class(e), ~TakesLine(e), ~AcceptRequest(e),
         NEW n \in Node
  PROVE  Flows(n)
<1> DEFINE p == Peer(e)
           r == mReceiveBuffer[e]
           w == wire[e]
<1>0. /\ p \in Node /\ Peer(p) = e /\ Peer(e) = p /\ p # e /\ (n = e \/ n = p)
      /\ StreamTypes /\ Handshake
  BY PeerFacts DEF IInv
<1>1. /\ r \in Seq(Unit) /\ w \in Seq(Unit) /\ mReceiveBuffer[p] \in Seq(Unit)
      /\ wire[p] \in Seq(Unit) /\ In(e) = r \o w /\ In(p) = mReceiveBuffer[p] \o wire[p]
  BY <1>0 DEF StreamTypes, In
<1> HIDE DEF p
<1>2. CASE UNCHANGED streamVars \/ Queues(e) \/ Loses(e)
  BY <1>2 DEF streamVars, Queues, Loses, Flows, In
<1>3. CASE Receives(e)
  <2>1. /\ w # <<>> /\ mReceiveBuffer'[e] = Append(r, Head(w)) /\ wire'[e] = Tail(w)
        /\ mReceiveBuffer'[p] = mReceiveBuffer[p] /\ wire'[p] = wire[p]
    BY <1>0, <1>3 DEF Receives, StreamTypes
  <2>2. In(e)' = Append(r, Head(w)) \o Tail(w) /\ In(p)' = In(p)
    BY <2>1 DEF In
  <2> HIDE DEF r, w
  <2>3. Append(r, Head(w)) \o Tail(w) = r \o w
    BY <1>1, <2>1, MoveHead
  <2> QED
    BY <1>0, <1>1, <2>2, <2>3 DEF Flows
<1>4. CASE Sends(e)
  <2> DEFINE x == mTransmitBuffer[e]
             s == mReceiveBuffer[p]
             y == wire[p]
  <2>1. /\ nonblocking[e] /\ x # <<>> /\ x \in Seq(Unit)
        /\ wire'[p] = Append(y, Head(x)) /\ wire'[e] = w
        /\ mReceiveBuffer' = mReceiveBuffer
    BY <1>0, <1>4 DEF Sends, StreamTypes
  <2>2. NoLines(x)
    BY <1>0 DEF Handshake
  <2>3. In(e)' = In(e) /\ In(p)' = s \o Append(y, Head(x)) /\ In(p) = s \o y
    BY <2>1 DEF In
  <2>4. s \in Seq(Unit) /\ y \in Seq(Unit)
    BY <1>1
  <2> HIDE DEF x, s, y
  <2>5. Head(x) \in Unit /\ Head(x).kind # "line"
    <3>1. Head(x) = x[1] /\ 1 \in 1 .. Len(x) /\ x[1] \in Unit
      BY <2>1
    <3> QED
      BY <2>2, <3>1 DEF NoLines
  <2> DEFINE u == Head(x)
  <2> HIDE DEF u
  <2>6. u \in Unit => s \o Append(y, u) = Append(s \o y, u)
    BY <2>4
  <2>7. Longer(In(p), In(p)')
    BY <2>3, <2>5, <2>6 DEF Longer, u
  <2> QED
    BY <1>0, <2>1, <2>3, <2>7 DEF Flows
<1>5. CASE HangsUp(e)
  <2>1. /\ wire'[e] = <<>> /\ wire'[p] = wire[p] /\ mReceiveBuffer' = mReceiveBuffer
    BY <1>0, <1>5 DEF HangsUp, StreamTypes
  <2>2. In(e)' = r \o <<>> /\ In(p)' = In(p)
    BY <2>1 DEF In
  <2> HIDE DEF r, w
  <2>3. (r \o w) \o <<>> = r \o w /\ <<>> \in Seq(Unit)
    BY <1>1
  <2>4. Shorter(In(e), In(e)')
    BY <1>1, <2>2, <2>3 DEF Shorter
  <2> QED
    BY <1>0, <2>2, <2>4 DEF Flows
<1>6. CASE Dispatches(e)
  <2> DEFINE k == 1 + Head(r).len
             rest == SubSeq(r, k + 1, Len(r))
             a == SubSeq(r, 1, k)
  <2>1. Rx(e) = r /\ Head(r).len \in Nat /\ Len(r) >= 1 + Head(r).len
    BY <1>6, HeadFrame DEF Dispatches, Rx
  <2>2. k + 1 = 2 + Head(r).len /\ k \in 0 .. Len(r)
    BY <1>1, <2>1
  <2>3. /\ mReceiveBuffer'[e] = rest /\ wire' = wire /\ mReceiveBuffer'[p] = mReceiveBuffer[p]
    BY <1>0, <1>6, <2>2 DEF Dispatches, Consumed, StreamTypes
  <2>4. In(e)' = rest \o w /\ In(p)' = In(p)
    BY <2>3 DEF In
  <2> HIDE DEF r, w, k
  <2>5. r = a \o rest
    BY <1>1, <2>2, SplitSeq
  <2>6. a \in Seq(Unit) /\ rest \in Seq(Unit)
    BY <1>1, <2>2
  <2> HIDE DEF a, rest
  <2>7. /\ rest \o w \in Seq(Unit) /\ <<>> \in Seq(Unit)
        /\ (<<>> \o a) \o (rest \o w) = (a \o rest) \o w /\ <<>> \o (rest \o w) = rest \o w
    BY <1>1, <2>6
  <2> DEFINE z == rest \o w
             o == <<>>
  <2>8. In(e) = (o \o a) \o z /\ In(e)' = o \o z /\ o \in Seq(Unit) /\ z \in Seq(Unit)
    BY <1>1, <2>4, <2>5, <2>7
  <2> HIDE DEF z, o
  <2>9. Shorter(In(e), In(e)')
    BY <2>6, <2>8 DEF Shorter
  <2> QED
    BY <1>0, <2>4, <2>9 DEF Flows
<1> QED
  BY <1>2, <1>3, <1>4, <1>5, <1>6 DEF Class

\* The parsers stay where the lines on their way end.
LEMMA HandshakeStep ==
  ASSUME IInv, NEW e \in Node, ProperStep(e), Class(e), ControlTypes', Control'
  PROVE  Handshake'
<1> DEFINE c == "client"
           v == "server"
<1>0. /\ c \in Node /\ v \in Node /\ c # v /\ Peer(c) = v /\ Peer(v) = c
      /\ (e = c \/ e = v)
      /\ StreamTypes /\ Handshake /\ Control /\ ControlTypes
  BY DEF Node, Peer, IInv
<1>1. CASE AcceptRequest(e)
  BY <1>1, HandshakeRequest
<1>2. CASE AcceptStatus(e)
  <2>1. /\ e = c /\ HasLine(e) /\ mConnectionPhase[e] = "HTTP_STATUS"
        /\ mConnectionPhase' = [mConnectionPhase EXCEPT ![e] = "HCONNECTION_UPGRADE"]
        /\ wire' = [wire EXCEPT ![e] = Tail(@)]
        /\ UNCHANGED <<nonblocking, mReceiveBuffer, mTransmitBuffer>>
    BY <1>0, <1>2 DEF AcceptStatus, mIsServerClient, bufferVars
  <2>2. mConnectionPhase'[c] = "HCONNECTION_UPGRADE" /\ mConnectionPhase'[v] = mConnectionPhase[v]
    BY <1>0, <2>1 DEF ControlTypes
  <2>3. /\ mConnectionPhase'[c] \in DOMAIN LinesLeft /\ mConnectionPhase[c] # "H"
        /\ LinesLeft[mConnectionPhase'[c]] + 1 = LinesLeft[mConnectionPhase[c]]
    BY <2>1, <2>2 DEF LinesLeft
  <2> QED
    BY <2>1, <2>2, <2>3, HandshakeAnswer
<1>3. CASE ServerLine(e)
  <2>1. mConnectionPhase[e] = "SERVER_CLIENT_STRINGS" /\ HasLine(e)
    BY <1>3 DEF ServerLine
  <2>2. e = v
    BY <1>0, <2>1 DEF Handshake, LinesLeft
  <2>3. /\ wire' = [wire EXCEPT ![v] = Tail(@)]
        /\ UNCHANGED <<mReceiveBuffer, mTransmitBuffer, mConnectionPhase>>
    BY <1>3, <2>2 DEF ServerLine, bufferVars
  <2>4. /\ nonblocking'[c] = nonblocking[c] /\ mReadyState'[c] = mReadyState[c]
        /\ nonblocking'[v] => nonblocking[v] \/ NextLine(v) = EmptyLine
    BY <1>0, <1>3, <2>2 DEF ServerLine, Opened, ControlTypes
  <2> QED
    BY <2>1, <2>2, <2>3, <2>4, HandshakeSkipped
<1>4. CASE ClientLine(e)
  <2>1. HasLine(e) /\ (mConnectionPhase[e] = "H" \/ mConnectionPhase[e] \in DOMAIN NextPhase)
    BY <1>4 DEF ClientLine
  <2>2. e = c
    BY <1>0, <2>1 DEF Handshake, NextPhase
  <2>3. /\ wire' = [wire EXCEPT ![c] = Tail(@)]
        /\ UNCHANGED <<mReceiveBuffer, mTransmitBuffer>>
    BY <1>4, <2>2 DEF ClientLine, bufferVars
  <2>4. CASE mConnectionPhase[c] = "H"
    <3>1. Opened(c) /\ UNCHANGED mConnectionPhase
      BY <1>4, <2>2, <2>4 DEF ClientLine
    <3>2. mReadyState'[c] = "OPEN" /\ nonblocking'[v] = nonblocking[v]
      BY <1>0, <3>1 DEF Opened, ControlTypes
    <3> QED
      BY <2>1, <2>2, <2>3, <2>4, <3>1, <3>2, HandshakeAnswer
  <2>5. CASE mConnectionPhase[c] # "H"
    <3>1. /\ mConnectionPhase[c] \in DOMAIN NextPhase /\ UNCHANGED nonblocking
          /\ mConnectionPhase' = [mConnectionPhase EXCEPT ![c] = NextPhase[@]]
      BY <1>4, <2>2, <2>5 DEF ClientLine
    <3>2. /\ mConnectionPhase'[c] = NextPhase[mConnectionPhase[c]]
          /\ mConnectionPhase'[v] = mConnectionPhase[v]
      BY <1>0, <3>1 DEF ControlTypes
    <3>3. /\ mConnectionPhase'[c] \in DOMAIN LinesLeft
          /\ LinesLeft[mConnectionPhase'[c]] + 1 = LinesLeft[mConnectionPhase[c]]
      BY <3>1, <3>2 DEF NextPhase, LinesLeft
    <3> QED
      BY <2>1, <2>2, <2>3, <2>5, <3>1, <3>2, <3>3, HandshakeAnswer
  <2> QED
    BY <2>4, <2>5
<1>5. CASE UNCHANGED connectionVars /\ ~TakesLine(e) /\ ~AcceptRequest(e)
  <2>1. \A n \in Node : Flows(n)
    BY <1>5, FlowsStep
  <2>2. \A n \in Node : NoLines(mTransmitBuffer'[n])
    <3>1. \A n \in Node : NoLines(mTransmitBuffer[n])
      BY <1>0 DEF Handshake
    <3>2. \A n \in Node :
            \/ mTransmitBuffer'[n] = mTransmitBuffer[n]
            \/ mTransmitBuffer[n] # <<>> /\ mTransmitBuffer'[n] = Tail(mTransmitBuffer[n])
            \/ \E op \in Op, body \in Payload : Queue(n, op, body)
      <4> TAKE n \in Node
      <4>1. DOMAIN mTransmitBuffer = Node
        BY <1>0 DEF StreamTypes
      <4>2. CASE n # e
        BY <1>5, <4>1, <4>2 DEF Class, streamVars, Queues, Queue, Receives, Sends,
           Loses, HangsUp, Dispatches
      <4>3. CASE n = e
        BY <1>5, <4>1, <4>3 DEF Class, streamVars, Queues, Receives, Sends, Loses,
           HangsUp, Dispatches
      <4> QED
        BY <4>2, <4>3
    <3> QED
      BY <1>0, <3>1, <3>2, QueueNoLines
  <2>3. ASSUME mReadyState'[c] = "CONNECTING"
        PROVE  /\ mReadyState[c] = "CONNECTING"
               /\ wire'[c] = wire[c] \/ Longer(wire[c], wire'[c])
    <3>1. mReadyState[c] = "CONNECTING"
      <4>1. CASE UNCHANGED mReadyState
        BY <2>3, <4>1
      <4>2. CASE Advances(e)
        BY <1>0, <2>3, <4>2, RankFacts DEF Advances, ControlTypes, States
      <4> QED
        BY <1>0, <4>1, <4>2, ReadyStateStep
    <3>2. mSocket'[c] = "open"
      BY <1>0, <2>3 DEF Control, ControlOf
    <3>3. DOMAIN wire = Node /\ mSocket \in [Node -> Sockets]
      BY <1>0 DEF StreamTypes, ControlTypes
    <3>4. CASE UNCHANGED streamVars \/ Queues(e) \/ Loses(e) \/ Dispatches(e)
      BY <3>1, <3>4 DEF streamVars, Queues, Loses, Dispatches
    <3>5. CASE Receives(e)
      <4>1. e # c
        BY <3>1, <3>5 DEF Receives
      <4> QED
        BY <1>0, <3>1, <3>3, <3>5, <4>1 DEF Receives
    <3>6. CASE HangsUp(e)
      <4>1. e # c
        BY <1>0, <3>2, <3>3, <3>6 DEF HangsUp, Sockets
      <4> QED
        BY <1>0, <3>1, <3>3, <3>6, <4>1 DEF HangsUp
    <3>7. CASE Sends(e)
      <4>1. CASE e = c
        BY <1>0, <3>1, <3>3, <3>7, <4>1 DEF Sends
      <4>2. CASE e = v
        <5> DEFINE x == mTransmitBuffer[e]
        <5>1. x # <<>> /\ x \in Seq(Unit) /\ NoLines(x) /\ wire'[c] = Append(wire[c], Head(x))
          BY <1>0, <3>3, <3>7, <4>2 DEF Sends, StreamTypes, Handshake
        <5> HIDE DEF x
        <5>2. Head(x) = x[1] /\ 1 \in 1 .. Len(x) /\ x[1] \in Unit
          BY <5>1
        <5>3. Head(x) \in Unit /\ Head(x).kind # "line"
          BY <5>1, <5>2 DEF NoLines
        <5> QED
          BY <3>1, <5>1, <5>3 DEF Longer
      <4> QED
        BY <1>0, <4>1, <4>2
    <3> QED
      BY <1>5, <3>4, <3>5, <3>6, <3>7 DEF Class
  <2> QED
    BY <1>0, <1>5, <2>1, <2>2, <2>3, HandshakeKept
<1>6. TakesLine(e) => AcceptStatus(e) \/ ServerLine(e) \/ ClientLine(e)
  BY DEF TakesLine
<1> QED
  BY <1>1, <1>2, <1>3, <1>4, <1>5, <1>6, PhasesKept
-----------------------------------------------------------------------------
(* The theorems.                                                           *)

\* The invariant holds when the two sockets are connected.
LEMMA InitIInv ==
  ASSUME Init
  PROVE  IInv /\ PingsAnswered
<1> DEFINE c == "client"
           v == "server"
<1>0. /\ Endpoint = Node /\ c \in Node /\ v \in Node /\ Peer(c) = v /\ Peer(v) = c
      /\ \A n \in Node : n = c \/ n = v
  BY PeerFacts DEF Node, Peer
<1>1. PICK get \in Urls : wire = [n \in Node |-> IF n = "server" THEN Request(get) ELSE <<>>]
  BY DEF Init
<1> DEFINE q == Request(get)
<1>2. q \in Seq(Unit) /\ LinesFirst(q) /\ \A i \in 1 .. Len(q) : q[i].kind = "line"
  BY RequestFacts
<1>3. wire[c] = <<>> /\ wire[v] = q
  BY <1>0, <1>1
<1> HIDE DEF q
<1>4. /\ \A n \in Node : /\ mReadyState[n] = "CONNECTING" /\ mConnectionPhase[n] = "HTTP_STATUS"
                         /\ mSocket[n] = "open" /\ ~nonblocking[n] /\ ~deleting[n]
                         /\ pc[n] = "idle" /\ eof[n] = FALSE
                         /\ mReceiveBuffer[n] = <<>> /\ mTransmitBuffer[n] = <<>>
                         /\ sent[n] = <<>> /\ delivered[n] = <<>>
                         /\ pings[n] = 0 /\ pongs[n] = 0
  BY <1>0 DEF Init
<1>5. /\ <<>> \in Seq(Unit) /\ <<>> \in Seq(Messages) /\ <<>> \in Seq(Message) /\ Len(<<>>) = 0
      /\ <<>> \o <<>> = <<>> /\ (<<>> \o q) \o <<>> = q /\ <<>> \o q = q
      /\ \A i \in 1 .. Len(<<>>) : FALSE
  BY <1>2
<1>6. /\ In(c) = <<>> /\ In(v) = q /\ Stream(c) = <<>> /\ Stream(v) = q
  BY <1>0, <1>3, <1>4, <1>5 DEF In, Stream
<1>7. Inbound(c) = <<>> /\ Inbound(v) = q
  BY <1>6 DEF Inbound
<1>8. ControlTypes
  BY <1>0 DEF Init, ControlTypes, States, Sockets, Points, Phases
<1>9. StreamTypes
  <2>1. \A n \in Node : wire[n] \in Seq(Unit)
    BY <1>0, <1>2, <1>3, <1>5
  <2>2. wire \in [Node -> Seq(Unit)]
    BY <1>1, <2>1
  <2>3. /\ mReceiveBuffer \in [Node -> Seq(Unit)] /\ mTransmitBuffer \in [Node -> Seq(Unit)]
        /\ sent \in [Node -> Seq(Messages)] /\ delivered \in [Node -> Seq(Message)]
    BY <1>0, <1>5 DEF Init
  <2>4. pings \in [Node -> 0 .. MaxPings] /\ pongs \in [Node -> Nat]
        /\ mReceivedData = [e \in Node |-> <<>>]
    BY <1>0, EndpointAssumption DEF Init
  <2>5. \A e \in Node : Len(sent[e]) <= MaxMessages
    BY <1>4, <1>5, EndpointAssumption
  <2> QED
    BY <2>2, <2>3, <2>4, <2>5 DEF StreamTypes
<1>10. Control
  <2> SUFFICES ASSUME NEW n \in Node PROVE ControlOf(n)
    BY DEF Control
  <2>1. Peer(n) \in Node
    BY PeerFacts
  <2> QED
    BY <1>4, <2>1 DEF ControlOf
<1>11. Handshake
  <2>1. NoLines(<<>>)
    BY <1>5 DEF NoLines
  <2>2. mConnectionPhase[c] \in DOMAIN LinesLeft
    BY <1>0, <1>4 DEF LinesLeft
  <2> QED
    BY <1>0, <1>2, <1>4, <1>6, <2>1, <2>2 DEF Handshake
<1>12. \A n \in Node : /\ Inbound(n) \in Seq(Unit) /\ Stream(n) = Inbound(n)
                       /\ \A i \in 1 .. Len(Inbound(n)) : Inbound(n)[i].kind = "line"
  BY <1>0, <1>2, <1>5, <1>6, <1>7
<1>13. \A n \in Node : /\ Framed(Inbound(n)) /\ Carries(Inbound(n), 0, <<>>)
                       /\ Complete(Inbound(n), 0, <<>>)
                       /\ ClosesLast(Stream(n)) /\ ~HasClose(Stream(n))
                       /\ \A ops : Frames(Stream(n), ops) = 0
  BY <1>12, OnlyLines
<1>14. StreamInv
  BY <1>4, <1>5, <1>13, PeerFacts DEF StreamInv, StreamOK
<1>15. CloseInv
  BY <1>13 DEF CloseInv
<1>16. DeliveredInOrder
  BY <1>0, <1>4, <1>5, PeerFacts DEF DeliveredInOrder
<1>17. PingsAnswered
  BY <1>0, <1>4, <1>13, PeerFacts DEF PingsAnswered
<1> QED
  BY <1>8, <1>9, <1>10, <1>11, <1>14, <1>15, <1>16, <1>17 DEF IInv

\* A step that changes nothing changes nothing.
LEMMA IInvStutters ==
  ASSUME IInv, PingsAnswered, UNCHANGED vars
  PROVE  IInv' /\ PingsAnswered'
<1> USE DEF vars, connectionVars, bufferVars, netVars, historyVars
<1>1. ControlTypes' /\ StreamTypes'
  BY DEF IInv, ControlTypes, StreamTypes
<1>2. Control'
  BY DEF IInv, Control, ControlOf, ClosingOrClosed
<1>3. Handshake'
  BY DEF IInv, Handshake, In, NoLines, LinesFirst, StartsWithLines
<1>4. "client" \in Node /\ Peer("client") \in Node
  BY PeerFacts DEF Node
<1>5. \A n \in Node : Same(n) /\ Connected' = Connected /\ Unheard
  BY SameParts DEF Connected, Unheard
<1>6. Effect("client")
  BY <1>4, <1>5 DEF Effect
<1>7. StreamInv' /\ DeliveredInOrder'
  BY <1>4, <1>6, StreamStep, DeliveredStep
<1>8. CloseInv'
  BY DEF IInv, CloseInv, ClosesLast, HasClose, Stream, ClosingOrClosed
<1>9. PingsAnswered'
  BY DEF PingsAnswered, Stream, Connected, ClosingOrClosed, Frames
<1> QED
  BY <1>1, <1>2, <1>3, <1>7, <1>8, <1>9 DEF IInv

\* A client that is connecting stands at a line: the server has sent nothing, or
\* the lines the client waits for are first.
LEMMA OnlyProperSteps ==
  ASSUME IInv, NEW e \in Node, EndpointStep(e)
  PROVE  ProperStep(e)
<1>1. SUFFICES ASSUME SwallowFrame(e) PROVE FALSE
  BY DEF ProperStep
<1>2. /\ e = "client" /\ mReadyState["client"] = "CONNECTING"
      /\ wire["client"] # <<>> /\ Head(wire["client"]).kind = "head"
  BY <1>1 DEF SwallowFrame, CanConnect, mIsServerClient, Node
<1>3. wire["client"] \in Seq(Unit) /\ mReceiveBuffer["client"] = <<>>
  BY <1>2 DEF IInv, StreamTypes, Control, ControlOf, Node
<1> DEFINE w == wire["client"]
<1>4. w \in Seq(Unit) /\ w # <<>> /\ Head(w).kind = "head"
  BY <1>2, <1>3
<1>5. mConnectionPhase["server"] # "HTTP_STATUS"
  <2>1. In("client") = <<>> \o w
    BY <1>3 DEF In
  <2> HIDE DEF w
  <2>2. <<>> \o w # <<>>
    BY <1>4
  <2> QED
    BY <2>1, <2>2 DEF IInv, Handshake
<1>6. /\ mConnectionPhase["client"] \in DOMAIN LinesLeft
      /\ StartsWithLines(w, LinesLeft[mConnectionPhase["client"]])
  BY <1>2, <1>5 DEF IInv, Handshake
<1>7. PICK n \in 1 .. 6 : StartsWithLines(w, n)
  BY <1>6 DEF LinesLeft
<1> HIDE DEF w
<1>8. 1 \in 1 .. Len(w) /\ Head(w) = w[1] /\ 1 <= n
  BY <1>4, <1>7
<1>9. w[1].kind = "line"
  BY <1>7, <1>8 DEF StartsWithLines
<1> QED
  BY <1>4, <1>8, <1>9

\* Every step keeps the invariant and the balance of pings.
LEMMA IInvStep ==
  ASSUME IInv, PingsAnswered, [Next]_vars
  PROVE  IInv' /\ PingsAnswered'
<1>1. CASE UNCHANGED vars
  BY <1>1, IInvStutters
<1>2. CASE Finished
  BY <1>2, IInvStutters DEF Finished
<1>3. ASSUME NEW e \in Node, EndpointStep(e)
      PROVE  IInv' /\ PingsAnswered'
  <2>0. ProperStep(e)
    BY <1>3, OnlyProperSteps
  <2>1. ControlTypes /\ StreamTypes /\ Control
    BY DEF IInv
  <2>2. ControlTypes' /\ Control'
    BY <2>0, <2>1, ControlTypesStep, ControlStep
  <2>3. Class(e) /\ UNCHANGED mReceivedData
    BY <2>0, StepClass
  <2>4. StreamTypes'
    BY <2>3, StreamTypesStep
  <2>5. Effect(e)
    BY <2>3, StepEffect
  <2>6. Handshake'
    BY <2>0, <2>2, <2>3, HandshakeStep
  <2>7. StreamInv' /\ DeliveredInOrder' /\ CloseInv'
    BY <2>0, <2>5, StreamStep, DeliveredStep, CloseStep
  <2>8. PingsAnswered'
    BY <2>0, <2>5, PingStep
  <2> QED
    BY <2>2, <2>4, <2>6, <2>7, <2>8 DEF IInv
<1> QED
  BY <1>1, <1>2, <1>3, PeerFacts DEF Next

\* The inductive invariant holds in every state.
THEOREM Inductive == Spec => [](IInv /\ PingsAnswered)
<1>1. Init => IInv /\ PingsAnswered
  BY InitIInv
<1>2. (IInv /\ PingsAnswered) /\ [Next]_vars => (IInv /\ PingsAnswered)'
  BY IInvStep
<1> QED
  BY <1>1, <1>2, PTL DEF Spec

\* Both ends, the network and the histories keep their types, and no more
\* messages and pings are sent than the applications may.
THEOREM TypeCorrectness == Spec => []TypeOK
<1>1. ASSUME IInv PROVE TypeOK
  <2>1. Endpoint = Node /\ ControlTypes /\ StreamTypes /\ DeliveredInOrder
    BY <1>1, PeerFacts DEF IInv
  <2>2. ASSUME NEW e \in Node
        PROVE  /\ pings[e] \in 0 .. MaxPings /\ pongs[e] \in Nat
               /\ Len(sent[e]) <= MaxMessages /\ Len(delivered[e]) <= MaxMessages
    <3>1. /\ Peer(e) \in Node /\ Len(delivered[e]) \in Nat /\ Len(sent[Peer(e)]) \in Nat
          /\ Len(sent[Peer(e)]) <= MaxMessages /\ Len(sent[e]) <= MaxMessages
          /\ pings[e] \in 0 .. MaxPings /\ pongs[e] \in Nat
      BY <2>1, PeerFacts DEF StreamTypes
    <3>2. Len(delivered[e]) <= Len(sent[Peer(e)])
      BY <2>1 DEF DeliveredInOrder
    <3> QED
      BY <3>1, <3>2, EndpointAssumption
  <2> QED
    BY <2>1, <2>2 DEF TypeOK, ControlTypes, States, Sockets, Points
<1> QED
  BY <1>1, Inductive, PTL

\* receiveMessage() is given the peer's messages whole, in order and as text or
\* binary as they were: however the stream is split, whatever is dispatched in
\* between, and whoever closes, times out or is deleted at whatever moment.
THEOREM DeliveryInOrder == Spec => []DeliveredInOrder
<1>1. IInv => DeliveredInOrder
  BY DEF IInv
<1> QED
  BY <1>1, Inductive, PTL

\* While both sockets are open, every message sendData() accepted is delivered
\* or on its way.
THEOREM NoMessageLost == Spec => []NothingLost
<1>1. ASSUME IInv PROVE NothingLost
  <2>1. Endpoint = Node
    BY PeerFacts
  <2>2. ASSUME NEW e \in Node, Connected
        PROVE  Len(sent[Peer(e)]) = Len(delivered[e]) + Frames(Stream(e), MessageOps)
    BY <1>1, <2>2 DEF IInv, StreamInv, StreamOK, Inbound, Complete, Counted
  <2> QED
    BY <2>1, <2>2 DEF NothingLost
<1> QED
  BY <1>1, Inductive, PTL

\* Both handshake parsers stop at the right byte: from then on the stream is a
\* sequence of whole frames, also of those queued before the handshake ended.
THEOREM FramesStayWhole == Spec => []WholeFrames
<1>1. ASSUME IInv, NEW e \in Node, Connected, mReadyState[e] = "OPEN"
      PROVE  LET s == Stream(e)
             IN  /\ s # <<>> => s[1].kind = "head"
                 /\ \A i \in DOMAIN s :
                      s[i].kind = "head" =>
                        /\ i + s[i].len <= Len(s)
                        /\ \A j \in i + 1 .. i + s[i].len : s[j].kind = "data"
                        /\ i + s[i].len < Len(s) => s[i + s[i].len + 1].kind = "head"
  <2> DEFINE s == Stream(e)
             y == mTransmitBuffer[Peer(e)]
             a == In(e)
  <2>1. s \in Seq(Unit) /\ a \in Seq(Unit) /\ y \in Seq(Unit) /\ s = a \o y
    BY <1>1, InboundParts, PeerFacts DEF IInv, StreamTypes, Stream, In
  <2>2. NoLines(a) /\ NoLines(y)
    BY <1>1, PeerFacts DEF IInv, Control, ControlOf, Handshake
  <2>3. Framed(s) /\ Whole(s)
    BY <1>1 DEF IInv, StreamInv, StreamOK, Inbound, Complete
  <2> HIDE DEF s, y, a
  <2>4. s # <<>> => s[1].kind = "head"
    <3> SUFFICES ASSUME s # <<>> PROVE s[1].kind = "head"
      OBVIOUS
    <3>1. s[1] \in Unit /\ Len(s) \in Nat /\ Len(s) >= 1 /\ s[1].kind # "data"
      BY <2>1, <2>3 DEF Framed
    <3>2. s[1].kind # "line"
      <4>1. /\ Len(s) = Len(a) + Len(y) /\ Len(a) \in Nat /\ Len(y) \in Nat
            /\ \A i \in 1 .. Len(a) : s[i] = a[i]
            /\ \A i \in 1 .. Len(y) : s[Len(a) + i] = y[i]
        BY <2>1, ConcatFacts
      <4>2. CASE Len(a) >= 1
        BY <2>2, <4>1, <4>2 DEF NoLines
      <4>3. CASE Len(a) = 0
        <5>1. 1 \in 1 .. Len(y) /\ Len(a) + 1 = 1
          BY <3>1, <4>1, <4>3
        <5>2. s[1] = y[1]
          BY <4>1, <5>1
        <5> QED
          BY <2>2, <5>1, <5>2 DEF NoLines
      <4> QED
        BY <4>1, <4>2, <4>3
    <3> QED
      BY <3>1, <3>2 DEF Unit, FrameUnit
  <2>5. ASSUME NEW i \in DOMAIN s, s[i].kind = "head"
        PROVE  /\ i + s[i].len <= Len(s)
               /\ \A j \in i + 1 .. i + s[i].len : s[j].kind = "data"
               /\ i + s[i].len < Len(s) => s[i + s[i].len + 1].kind = "head"
    <3>1. i \in 1 .. Len(s) /\ s[i] \in Unit
      BY <2>1
    <3>2. s[i].len \in Nat /\ i + s[i].len <= Len(s)
      BY <2>3, <2>5, <3>1 DEF Unit, FrameUnit, Whole
    <3>3. /\ \A j \in 1 .. s[i].len : i + j <= Len(s) => s[i + j].kind = "data"
          /\ i + s[i].len < Len(s) => s[i + s[i].len + 1].kind = "head"
      BY <2>3, <2>5, <3>1 DEF Framed
    <3>4. \A j \in i + 1 .. i + s[i].len : s[j].kind = "data"
      <4> TAKE j \in i + 1 .. i + s[i].len
      <4> DEFINE len == s[i].len
      <4>a. /\ i \in Nat /\ Len(s) \in Nat /\ len \in Nat /\ i + len <= Len(s)
            /\ j \in i + 1 .. i + len
        BY <2>1, <3>1, <3>2
      <4> HIDE DEF len
      <4>b. j - i \in 1 .. len /\ i + (j - i) = j /\ j <= Len(s)
        BY <4>a
      <4>1. j - i \in 1 .. s[i].len /\ i + (j - i) = j /\ j <= Len(s)
        BY <4>b DEF len
      <4> QED
        BY <3>3, <4>1
    <3> QED
      BY <3>2, <3>3, <3>4
  <2> QED
    BY <2>4, <2>5 DEF s
<1>2. IInv => WholeFrames
  BY <1>1, PeerFacts DEF WholeFrames
<1> QED
  BY <1>2, Inductive, PTL

\* Nothing follows the close frame, and no end queues a second one, in whatever
\* order close(), a callback's close() and the peer's close frame come.
THEOREM CloseStaysLast == Spec => []CloseIsLast
<1>1. ASSUME IInv, NEW e \in Node
      PROVE  \A i \in DOMAIN Stream(e) : Stream(e)[i] = CloseFrame[1] => i = Len(Stream(e))
  <2>1. Stream(e) \in Seq(Unit) /\ ClosesLast(Stream(e))
    BY <1>1, InboundParts DEF IInv, CloseInv
  <2>2. DOMAIN Stream(e) = 1 .. Len(Stream(e))
    BY <2>1
  <2> QED
    BY <2>1, <2>2 DEF ClosesLast
<1>2. IInv => CloseIsLast
  BY <1>1, PeerFacts DEF CloseIsLast
<1> QED
  BY <1>2, Inductive, PTL

\* poll() never dispatches a line of the handshake, also when close() came
\* before the handshake ended.
THEOREM FramesDispatched == Spec => []OnlyFramesDispatched
<1>1. ASSUME IInv, NEW e \in Node, pc[e] = "dispatch"
      PROVE  \A i \in DOMAIN mReceiveBuffer[e] : mReceiveBuffer[e][i].kind # "line"
  <2> DEFINE r == mReceiveBuffer[e]
             w == wire[e]
  <2>1. r \in Seq(Unit) /\ w \in Seq(Unit) /\ NoLines(r \o w)
    BY <1>1 DEF IInv, StreamTypes, Control, ControlOf, Handshake, In
  <2> HIDE DEF r, w
  <2>2. /\ DOMAIN r = 1 .. Len(r) /\ Len(r \o w) = Len(r) + Len(w)
        /\ Len(r) \in Nat /\ Len(w) \in Nat
        /\ \A i \in 1 .. Len(r) : (r \o w)[i] = r[i]
    BY <2>1
  <2>3. \A i \in 1 .. Len(r) : i \in 1 .. Len(r \o w)
    BY <2>2
  <2>4. \A i \in DOMAIN r : r[i].kind # "line"
    BY <2>1, <2>2, <2>3 DEF NoLines
  <2> QED
    BY <2>4 DEF r
<1>2. IInv => OnlyFramesDispatched
  BY <1>1, PeerFacts DEF OnlyFramesDispatched
<1> QED
  BY <1>2, Inductive, PTL

\* Until somebody closes, every ping is on its way, or its pong is, or the pong
\* has arrived: none is answered twice or forgotten.
THEOREM PingsAddUp == Spec => []PingsAnswered
BY Inductive, PTL
-----------------------------------------------------------------------------
(* The connection implements MessageChannel.                               *)

\* What a step of e does to its state and to the messages it has sent.
LEMMA ChannelSends ==
  ASSUME IInv, NEW e \in Node, ProperStep(e)
  PROVE  Channel!Accept(e) \/ Channel!Advance(e) \/ UNCHANGED <<mReadyState, sent>>
<1>1. CASE Advances(e)
  BY <1>1, RankFacts DEF Advances, Channel!Advance
<1>2. CASE UNCHANGED mReadyState
  <2>1. Class(e) /\ sent \in [Node -> Seq(Messages)] /\ mReadyState \in [Node -> States]
    BY StepClass DEF IInv, StreamTypes, ControlTypes
  <2>2. UNCHANGED sent \/ \E op \in Op, body \in Payload : Queue(e, op, body)
    BY <2>1 DEF Class, streamVars, Queues, Receives, Sends, Loses, HangsUp, TakesLine,
                Dispatches, AcceptRequest, historyVars
  <2>3. ASSUME NEW op \in Op, NEW body \in Payload, Queue(e, op, body)
        PROVE  UNCHANGED sent \/ Channel!Accept(e)
    <3> DEFINE m == [text |-> op = "TEXT", body |-> body]
    <3>1. /\ ~ClosingOrClosed(e) /\ sent' = [sent EXCEPT ![e] = Given(@, op, body)]
          /\ op \in MessageOps => m \in Messages
      BY <2>3 DEF Queue
    <3>2. Given(sent[e], op, body) = IF op \in MessageOps THEN Append(sent[e], m) ELSE sent[e]
      BY DEF Given
    <3> HIDE DEF m
    <3>3. CASE op \notin MessageOps
      BY <2>1, <3>1, <3>2, <3>3
    <3>4. CASE op \in MessageOps
      <4>1. Channel!Rank[mReadyState[e]] < Channel!Rank["CLOSING"]
        BY <2>1, <3>1, RankFacts DEF ClosingOrClosed, States
      <4>2. m \in Messages /\ sent' = [sent EXCEPT ![e] = Append(@, m)]
        BY <3>1, <3>2, <3>4
      <4> QED
        BY <1>2, <4>1, <4>2 DEF Channel!Accept
    <3> QED
      BY <3>3, <3>4
  <2> QED
    BY <1>2, <2>2, <2>3
<1> QED
  BY <1>1, <1>2, ReadyStateStep DEF IInv

\* ... and to those it was given.
LEMMA ChannelDelivers ==
  ASSUME IInv, NEW e \in Node, ProperStep(e)
  PROVE  \/ UNCHANGED delivered
         \/ /\ Len(delivered[e]) < Len(sent[Peer(e)])
            /\ delivered' =
                 [delivered EXCEPT ![e] = Append(@, sent[Peer(e)][Len(@) + 1])]
<1>1. Class(e) /\ delivered \in [Node -> Seq(Message)] /\ sent \in [Node -> Seq(Messages)]
  BY StepClass DEF IInv, StreamTypes
<1>2. UNCHANGED delivered \/ Dispatches(e)
  BY <1>1 DEF Class, streamVars, Queues, Receives, Sends, Loses, HangsUp, TakesLine,
              AcceptRequest, historyVars
<1>3. CASE Dispatches(e)
  <2> DEFINE o == Head(Rx(e)).op
             m == [text |-> o = "TEXT", body |-> FramePayload(e)]
             q == sent[Peer(e)]
  <2>1. delivered' = [delivered EXCEPT ![e] = IF o \in MessageOps THEN Append(@, m) ELSE @]
    BY <1>3 DEF Dispatches
  <2>2. o \in MessageOps => Len(delivered[e]) + 1 <= Len(q) /\ q[Len(delivered[e]) + 1] = m
    BY <1>3, HeadFrame DEF Dispatches
  <2>3. Len(delivered[e]) \in Nat /\ Len(q) \in Nat
    BY <1>1, PeerFacts
  <2> HIDE DEF o, m, q
  <2>4. CASE o \in MessageOps
    <3>1. delivered' = [delivered EXCEPT ![e] = Append(@, m)]
      BY <2>1, <2>4
    <3>2. delivered' = [delivered EXCEPT ![e] = Append(@, q[Len(@) + 1])]
      BY <2>2, <2>4, <3>1
    <3> QED
      BY <2>2, <2>3, <2>4, <3>2 DEF q
  <2>5. CASE o \notin MessageOps
    BY <1>1, <2>1, <2>5
  <2> QED
    BY <2>4, <2>5
<1> QED
  BY <1>2, <1>3

\* Each step of the connection is one of the channel or changes nothing of it.
LEMMA ChannelStep ==
  ASSUME IInv, [Next]_vars
  PROVE  [Channel!Next]_(Channel!channelVars)
<1>1. CASE UNCHANGED vars
  BY <1>1 DEF vars, historyVars, Channel!channelVars
<1>2. CASE Finished
  BY <1>2 DEF Finished, vars, historyVars, Channel!channelVars
<1>3. ASSUME NEW e \in Node, EndpointStep(e)
      PROVE  Channel!Next \/ UNCHANGED Channel!channelVars
  <2>0. ProperStep(e)
    BY <1>3, OnlyProperSteps
  <2>1. Channel!Accept(e) \/ Channel!Advance(e) \/ UNCHANGED <<mReadyState, sent>>
    BY <2>0, ChannelSends
  <2>2. CASE UNCHANGED delivered
    BY <2>1, <2>2, PeerFacts DEF Channel!Next, Channel!channelVars
  <2>3. CASE /\ Len(delivered[e]) < Len(sent[Peer(e)])
             /\ delivered' = [delivered EXCEPT ![e] = Append(@, sent[Peer(e)][Len(@) + 1])]
    <3>1. Channel!Deliver(e)
      BY <2>1, <2>3 DEF Channel!Deliver
    <3> QED
      BY <3>1, PeerFacts DEF Channel!Next
  <2> QED
    BY <2>0, <2>2, <2>3, ChannelDelivers
<1> QED
  BY <1>1, <1>2, <1>3, PeerFacts DEF Next

\* The connection keeps the channel's promise: a state never goes back, nothing
\* is taken once an end closes, and what poll() delivers is the next message.
THEOREM ConnectionImplementsChannel == Spec => ImplementsChannel
<1>1. Init => Channel!Init
  BY DEF Init, Channel!Init
<1>2. IInv /\ [Next]_vars => [Channel!Next]_(Channel!channelVars)
  BY ChannelStep
<1>3. Spec => []IInv
  BY Inductive, PTL
<1> QED
  BY <1>1, <1>2, <1>3, PTL DEF Spec, ImplementsChannel, Channel!Spec
=============================================================================
