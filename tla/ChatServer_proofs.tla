------------------------- MODULE ChatServer_proofs -------------------------
(***************************************************************************)
(* The chat server's invariants for any number of clients and descriptors  *)
(* and everything a user may type.  The console's lines arrive whole, once *)
(* and in order though a flag is all that guards the buffer; a connection  *)
(* never closes the socket of another one; whoever is connected sees one   *)
(* order of the messages for everybody; and a message that is not sent on  *)
(* was dropped for a later one of the same poll, or was too long.          *)
(***************************************************************************)
EXTENDS ChatServer, WellFoundedInduction, TLAPS

-----------------------------------------------------------------------------
(* The console.  A line is in the buffer, announced by the flag, and maybe *)
(* copied; or the thread fills the buffer while the flag is down.          *)

LineWaits == mHaveNewData = TRUE

\* Length and elements of a sequence with one element more.
LEMMA Appended ==
  ASSUME NEW S, NEW s \in Seq(S), NEW e \in S
  PROVE  /\ Append(s, e) \in Seq(S) /\ Len(Append(s, e)) = Len(s) + 1
         /\ Append(s, e)[Len(s) + 1] = e
         /\ \A i \in 1 .. Len(s) : Append(s, e)[i] = s[i]
OBVIOUS

\* What a sequence holds.
LEMMA Element ==
  ASSUME NEW S, NEW s \in Seq(S), NEW i \in 1 .. Len(s)
  PROVE  s[i] \in S
OBVIOUS

\* A sequence that agrees with a longer one is its prefix.
LEMMA Prefix ==
  ASSUME NEW S, NEW s \in Seq(S), NEW t \in Seq(S), Len(t) <= Len(s),
         \A i \in 1 .. Len(t) : t[i] = s[i]
  PROVE  t = SubSeq(s, 1, Len(t))
OBVIOUS

Line == STRING

\* What is typed is a sequence of lines.
LEMMA ScriptIsSeq == Script \in Seq(Line)
BY ScriptAssumption, Zenon DEF Line

LineInv ==
  /\ typed \in 0 .. Len(Script) /\ taken \in Seq(Line) /\ mHaveNewData \in BOOLEAN
  /\ LineWaits => typed = Len(taken) + 1 /\ mInputBuffer = Script[typed]
  /\ ~LineWaits => typed = Len(taken)
  /\ \A i \in 1 .. Len(taken) : taken[i] = Script[i]
  /\ worker = "read" => ~LineWaits
  /\ pc = "take" => LineWaits /\ copied = Script[typed]

\* getInputLine() hands over the line that was typed last.
LEMMA TakeLineInv ==
  ASSUME LineInv, pc = "take", TakeLine, pc' # "take"
  PROVE  LineInv'
<1>1. LineWaits /\ copied = Script[typed] /\ typed = Len(taken) + 1 /\ typed \in 1 .. Len(Script)
  BY DEF LineInv
<1>2. copied \in Line
  BY <1>1, ScriptIsSeq, Element
<1>3. taken' = Append(taken, copied) /\ taken \in Seq(Line)
  BY DEF LineInv, TakeLine
<1>4. /\ taken' \in Seq(Line) /\ Len(taken') = typed /\ taken'[typed] = copied
      /\ \A i \in 1 .. Len(taken) : taken'[i] = taken[i]
  BY <1>1, <1>2, <1>3, Appended
<1>5. \A i \in 1 .. Len(taken') : taken'[i] = Script[i]
  BY <1>1, <1>4 DEF LineInv
<1> QED
  BY <1>1, <1>4, <1>5 DEF LineInv, TakeLine, LineWaits

\* Steps that neither console nor getInputLine() takes.
LEMMA OtherLineInv ==
  ASSUME LineInv, UNCHANGED inputVars, pc' # "take" \/ pc' = pc
  PROVE  LineInv'
BY DEF LineInv, LineWaits, inputVars

\* Every step keeps the buffer and the flag in agreement.
LEMMA NextLineInv == LineInv /\ [Next]_vars => LineInv'
<1> SUFFICES ASSUME LineInv, [Next]_vars PROVE LineInv'
  OBVIOUS
<1>1. CASE UNCHANGED vars
  BY <1>1, OtherLineInv DEF vars
<1>2. ASSUME NEW c \in Client, Connect(c) \/ Send(c) \/ SendClose(c) \/ Leave(c)
      PROVE  LineInv'
  BY <1>2, OtherLineInv DEF Connect, Send, SendClose, Leave
<1>3. CASE Type
  BY <1>3, ScriptIsSeq DEF Type, Fgets, LineInv, LineWaits
<1>4. CASE ConsoleStep
  BY <1>4 DEF ConsoleStep, CheckFlag, LineInv, LineWaits
<1>5. CASE ServerStep
  <2>1. CASE Accept \/ AcceptNone \/ Drop \/ Ended
    BY <2>1, OtherLineInv DEF Accept, AcceptNone, Drop, Ended
  <2>2. CASE InputNone
    BY <2>2, OtherLineInv DEF InputNone, NoLine
  <2>3. CASE InputCopy
    BY <2>3 DEF InputCopy, CopyLine, LineInv, LineWaits
  <2>4. CASE InputTake
    BY <2>4, TakeLineInv DEF InputTake
  <2>5. ASSUME NEW c \in Client, PollClient(c) PROVE LineInv'
    <3>1. Polled(c)
      BY <2>5 DEF PollClient, PollRequest, PollTimeout, PollEnd, PollClosing, PollOpen
    <3> QED
      BY <3>1, OtherLineInv DEF Polled
  <2>6. CASE Exit
    BY <2>6 DEF Exit, ReleaseInput, LineInv, LineWaits
  <2>7. ASSUME NEW c \in Client, DeleteClient(c) PROVE LineInv'
    BY <2>7, OtherLineInv DEF DeleteClient, DeleteAt
  <2> QED
    BY <1>5, <2>1, <2>2, <2>3, <2>4, <2>5, <2>6, <2>7 DEF ServerStep
<1>6. ASSUME NEW c \in Client, DeleteSlow(c) PROVE LineInv'
  BY <1>6, OtherLineInv DEF DeleteSlow, DeleteAt
<1>7. CASE Finished
  BY <1>7, OtherLineInv DEF Finished, vars
<1> QED
  BY <1>1, <1>2, <1>3, <1>4, <1>5, <1>6, <1>7 DEF Next

\* Nothing was typed yet.
LEMMA InitLineInv ==
  ASSUME Init
  PROVE  LineInv
<1>1. Len(Script) \in Nat
  BY ScriptIsSeq
<1>2. typed = 0 /\ taken = <<>> /\ mHaveNewData = FALSE /\ worker = "check" /\ pc = "poll"
  BY DEF Init, InputInit
<1>3. taken \in Seq(Line) /\ Len(taken) = 0
  BY <1>2
<1>4. mHaveNewData \in BOOLEAN /\ ~LineWaits /\ worker # "read" /\ pc # "take"
  BY <1>2 DEF LineWaits
<1>5. /\ typed \in 0 .. Len(Script) /\ typed = Len(taken)
      /\ \A i \in 1 .. Len(taken) : taken[i] = Script[i]
  BY <1>1, <1>2, <1>3
<1> QED
  BY <1>3, <1>4, <1>5 DEF LineInv

-----------------------------------------------------------------------------
(* Least elements, and by them what Without computes: induction on how     *)
(* much of the sequence has been gone through, as the search for the least *)
(* counterexample.                                                         *)

\* A set of natural numbers has a least element ...
LEMMA LeastOfNats ==
  ASSUME NEW S \in SUBSET Nat, S # {}
  PROVE  \E x \in S : \A y \in S : x <= y
<1>1. PICK x \in S : \A y \in S : ~ (<<y, x>> \in OpToRel(<, Nat))
  BY WFMin, NatLessThanWellFounded, Zenon
<1>2. \A y \in S : x <= y
  <2> SUFFICES ASSUME NEW y \in S PROVE x <= y
    OBVIOUS
  <2>1. x \in Nat /\ y \in Nat /\ ~ (y < x)
    BY <1>1 DEF OpToRel
  <2> QED
    BY <2>1
<1> QED
  BY <1>2

\* ... which Min finds.
LEMMA MinOfNats ==
  ASSUME NEW S \in SUBSET Nat, S # {}
  PROVE  Min(S) \in S
BY LeastOfNats, Zenon DEF Min

\* The step of the recursion in Without.
KeptStep(s, gone, f, n) ==
  IF n = 0 THEN <<>> ELSE IF s[n] \in gone THEN f[n - 1] ELSE Append(f[n - 1], s[n])

\* A function that takes this step everywhere exists up to any length.
LEMMA KeptExists ==
  ASSUME NEW s, NEW gone, NEW m \in Nat
  PROVE  \E f : f = [n \in 0 .. m |-> KeptStep(s, gone, f, n)]
<1> DEFINE Bad == {k \in Nat : ~ \E f : f = [n \in 0 .. k |-> KeptStep(s, gone, f, n)]}
<1>1. CASE Bad = {}
  BY <1>1
<1>2. CASE Bad # {}
  <2>1. PICK k \in Bad : \A j \in Bad : k <= j
    BY <1>2, LeastOfNats
  <2>2. k # 0
    <3>1. [n \in 0 .. 0 |-> <<>>]
            = [n \in 0 .. 0 |-> KeptStep(s, gone, [i \in 0 .. 0 |-> <<>>], n)]
      BY DEF KeptStep
    <3> QED
      BY <2>1, <3>1
  <2>3. k - 1 \in Nat /\ k \in Nat /\ k - 1 \notin Bad
    BY <2>1, <2>2
  <2>4. PICK f : f = [n \in 0 .. k - 1 |-> KeptStep(s, gone, f, n)]
    BY <2>3
  <2> DEFINE g == [n \in 0 .. k |-> KeptStep(s, gone, f, n)]
  <2>5. \A n \in 0 .. k - 1 : g[n] = f[n]
    <3> SUFFICES ASSUME NEW n \in 0 .. k - 1 PROVE g[n] = f[n]
      OBVIOUS
    <3>1. f[n] = KeptStep(s, gone, f, n)
      BY <2>4
    <3> QED
      BY <2>3, <3>1
  <2>6. \A n \in 0 .. k : KeptStep(s, gone, f, n) = KeptStep(s, gone, g, n)
    <3> SUFFICES ASSUME NEW n \in 0 .. k
                 PROVE  KeptStep(s, gone, f, n) = KeptStep(s, gone, g, n)
      OBVIOUS
    <3> HIDE DEF g
    <3>1. n # 0 => n - 1 \in 0 .. k - 1
      BY <2>3
    <3> QED
      BY <2>5, <3>1 DEF KeptStep
  <2>7. g = [n \in 0 .. k |-> KeptStep(s, gone, g, n)]
    BY <2>6
  <2> QED
    BY <2>1, <2>7
<1> QED
  BY <1>1, <1>2

\* Without goes through the sequence by that step.
LEMMA WithoutSteps ==
  ASSUME NEW S, NEW s \in Seq(S), NEW gone
  PROVE  \E f : /\ \A n \in 0 .. Len(s) : f[n] = KeptStep(s, gone, f, n)
               /\ Without(s, gone) = f[Len(s)]
<1> DEFINE f == CHOOSE f : f = [n \in 0 .. Len(s) |-> KeptStep(s, gone, f, n)]
<1>1. f = [n \in 0 .. Len(s) |-> KeptStep(s, gone, f, n)]
  <2>1. Len(s) \in Nat
    OBVIOUS
  <2>2. \E g : g = [n \in 0 .. Len(s) |-> KeptStep(s, gone, g, n)]
    BY <2>1, KeptExists, Zenon
  <2> QED
    BY <2>2
<1>2. Without(s, gone) = f[Len(s)]
  BY DEF Without, KeptStep
<1> HIDE DEF f
<1>3. \A n \in 0 .. Len(s) : f[n] = KeptStep(s, gone, f, n)
  BY <1>1
<1> QED
  BY <1>2, <1>3

\* What is left are the elements that are not gone.
LEMMA WithoutElements ==
  ASSUME NEW S, NEW s \in Seq(S), NEW gone
  PROVE  Without(s, gone) \in Seq(S) /\ ToSet(Without(s, gone)) = ToSet(s) \ gone
<1>1. PICK f : /\ \A n \in 0 .. Len(s) : f[n] = KeptStep(s, gone, f, n)
               /\ Without(s, gone) = f[Len(s)]
  BY WithoutSteps
<1> DEFINE Good(n) ==
             /\ f[n] \in Seq(S)
             /\ \A x : (\E i \in 1 .. Len(f[n]) : f[n][i] = x)
                       <=> x \notin gone /\ \E i \in 1 .. n : s[i] = x
           Bad == {n \in 0 .. Len(s) : ~Good(n)}
<1>2. Bad = {}
  <2> SUFFICES ASSUME Bad # {} PROVE FALSE
    OBVIOUS
  <2>1. Bad \in SUBSET Nat
    OBVIOUS
  <2>2. PICK k \in Bad : \A j \in Bad : k <= j
    BY <2>1, LeastOfNats
  <2>3. k \in 0 .. Len(s) /\ ~Good(k)
    BY <2>2
  <2>4. k # 0
    <3>1. Len(s) \in Nat /\ 0 \in 0 .. Len(s)
      OBVIOUS
    <3>2. f[0] = <<>>
      BY <1>1, <3>1 DEF KeptStep
    <3>3. Good(0)
      BY <3>2
    <3> QED
      BY <2>3, <3>3
  <2>5. k - 1 \in 0 .. Len(s) /\ k - 1 < k /\ k \in 1 .. Len(s) /\ s[k] \in S
    BY <2>3, <2>4
  <2>6. Good(k - 1)
    <3>1. k - 1 \notin Bad
      BY <2>1, <2>2, <2>5
    <3> QED
      BY <2>5, <3>1
  <2> DEFINE a == f[k - 1]
  <2>7. a \in Seq(S) /\ f[k] = IF s[k] \in gone THEN a ELSE Append(a, s[k])
    BY <1>1, <2>3, <2>4, <2>6 DEF KeptStep
  <2>8. \A x : (\E i \in 1 .. Len(a) : a[i] = x)
                <=> x \notin gone /\ \E i \in 1 .. k - 1 : s[i] = x
    BY <2>6
  <2>9. \A x : (\E i \in 1 .. k : s[i] = x) <=> x = s[k] \/ \E i \in 1 .. k - 1 : s[i] = x
    <3>1. \A i : i \in 1 .. k <=> i = k \/ i \in 1 .. k - 1
      BY <2>5
    <3> QED
      BY <3>1
  <2> HIDE DEF a
  <2>10. CASE s[k] \in gone
    BY <2>3, <2>7, <2>8, <2>9, <2>10
  <2>11. CASE s[k] \notin gone
    <3> DEFINE b == Append(a, s[k])
    <3>1. /\ b \in Seq(S) /\ Len(a) \in Nat /\ Len(b) = Len(a) + 1 /\ b[Len(a) + 1] = s[k]
          /\ \A i \in 1 .. Len(a) : b[i] = a[i]
      BY <2>5, <2>7, Appended
    <3> HIDE DEF b
    <3>2. \A i : i \in 1 .. Len(b) <=> i = Len(a) + 1 \/ i \in 1 .. Len(a)
      BY <3>1
    <3>3. \A x : (\E i \in 1 .. Len(b) : b[i] = x)
                  <=> x = s[k] \/ \E i \in 1 .. Len(a) : a[i] = x
      BY <3>1, <3>2
    <3>4. f[k] = b
      BY <2>7, <2>11 DEF b
    <3>5. \A x : (\E i \in 1 .. Len(b) : b[i] = x)
                  <=> x \notin gone /\ \E i \in 1 .. k : s[i] = x
      BY <2>8, <2>9, <2>11, <3>3
    <3> QED
      BY <2>3, <3>1, <3>4, <3>5
  <2> QED
    BY <2>10, <2>11
<1>3. Good(Len(s))
  <2>1. Len(s) \in Nat
    OBVIOUS
  <2>2. Len(s) \in 0 .. Len(s)
    BY <2>1
  <2>3. Len(s) \notin Bad
    BY <1>2
  <2> QED
    BY <2>2, <2>3
<1> DEFINE w == Without(s, gone)
<1>4. /\ w \in Seq(S)
      /\ \A x : (\E i \in 1 .. Len(w) : w[i] = x)
                <=> x \notin gone /\ \E i \in 1 .. Len(s) : s[i] = x
  BY <1>1, <1>3
<1> HIDE DEF w
<1>5. DOMAIN w = 1 .. Len(w) /\ DOMAIN s = 1 .. Len(s)
  BY <1>4
<1>6. ToSet(w) = ToSet(s) \ gone
  BY <1>4, <1>5 DEF ToSet
<1> QED
  BY <1>4, <1>6 DEF w

\* Nothing changes as far as no element is gone.
LEMMA WithoutPrefix ==
  ASSUME NEW S, NEW s \in Seq(S), NEW gone, NEW m \in 0 .. Len(s),
         \A i \in 1 .. m : s[i] \notin gone, m < Len(s) => m + 1 = Len(s) /\ s[m + 1] \in gone
  PROVE  Without(s, gone) = SubSeq(s, 1, m)
<1>1. PICK f : /\ \A n \in 0 .. Len(s) : f[n] = KeptStep(s, gone, f, n)
               /\ Without(s, gone) = f[Len(s)]
  BY WithoutSteps
<1> DEFINE Bad == {n \in 0 .. m : f[n] # SubSeq(s, 1, n)}
<1>2. Bad = {}
  <2> SUFFICES ASSUME Bad # {} PROVE FALSE
    OBVIOUS
  <2>1. Bad \in SUBSET Nat
    OBVIOUS
  <2>2. PICK k \in Bad : \A j \in Bad : k <= j
    BY <2>1, LeastOfNats
  <2>3. k \in 0 .. m /\ f[k] # SubSeq(s, 1, k) /\ Len(s) \in Nat /\ m \in 0 .. Len(s)
    BY <2>2
  <2>4. k # 0
    <3>1. f[0] = <<>> /\ SubSeq(s, 1, 0) = <<>>
      BY <1>1 DEF KeptStep
    <3> QED
      BY <2>3, <3>1
  <2>5. k - 1 \in 0 .. m /\ k \in 0 .. Len(s) /\ k \in 1 .. m /\ k \in Nat \ {0}
    BY <2>3, <2>4
  <2>6. k - 1 \notin Bad
    <3>1. k - 1 \in Nat /\ ~(k <= k - 1)
      BY <2>5
    <3> QED
      BY <2>2, <3>1
  <2>7. f[k - 1] = SubSeq(s, 1, k - 1)
    BY <2>5, <2>6
  <2>8. f[k] = Append(SubSeq(s, 1, k - 1), s[k])
    BY <1>1, <2>4, <2>5, <2>7 DEF KeptStep
  <2>9. Append(SubSeq(s, 1, k - 1), s[k]) = SubSeq(s, 1, k)
    BY <2>3, <2>5
  <2> QED
    BY <2>3, <2>8, <2>9
<1>3. f[m] = SubSeq(s, 1, m)
  <2>1. m \in 0 .. m /\ m \notin Bad
    BY <1>2
  <2> QED
    BY <2>1
<1>4. CASE m = Len(s)
  BY <1>1, <1>3, <1>4
<1>5. CASE m # Len(s)
  <2>1. m + 1 = Len(s) /\ s[m + 1] \in gone /\ Len(s) - 1 = m /\ Len(s) # 0
    BY <1>5
  <2>2. f[Len(s)] = f[m]
    BY <1>1, <2>1 DEF KeptStep
  <2> QED
    BY <1>1, <1>3, <2>2
<1> QED
  BY <1>4, <1>5

-----------------------------------------------------------------------------
(* The sockets.  A client that has a descriptor, or waits to get one, is   *)
(* used: its request is under way or read.  It never is unused again, so   *)
(* it does not connect twice.                                              *)

Units == [kind : {"request", "text", "close"}, n : Nat]
States == {"CONNECTING", "OPEN", "CLOSING", "CLOSED"}

SocketTypes ==
  /\ mSocket \in [Client -> Descriptor \cup {0}]
  /\ owner \in [Descriptor -> Client \cup {"none"}]
  /\ backlog \in Seq(Client)

StreamTypes ==
  /\ mReadyState \in [Client -> States]
  /\ up \in [Client -> Seq(Units)] /\ sent \in [Client -> Nat]

Used(c) == up[c] # <<>> \/ mReadyState[c] # "CONNECTING"

UsedStays == \A c \in Client : Used(c) => Used(c)'

\* A client waits once, and has no descriptor yet.
BacklogOK ==
  \A i \in 1 .. Len(backlog) :
    /\ Used(backlog[i]) /\ mSocket[backlog[i]] = 0
    /\ \A j \in 1 .. Len(backlog) : i # j => backlog[i] # backlog[j]

SocketInv ==
  /\ SocketTypes /\ StreamTypes
  /\ SocketIsOwn
  /\ \A c \in Client : mSocket[c] # 0 => Used(c)
  /\ BacklogOK

\* Zero is no descriptor, and what stands for "no owner" is no client.
LEMMA Descriptors == Descriptor \subseteq Nat \ {0} /\ "none" \notin Client
BY ChatAssumption

\* The first element of a sequence and the others.
LEMMA HeadAndTail ==
  ASSUME NEW S, NEW s \in Seq(S), s # <<>>
  PROVE  /\ Head(s) = s[1] /\ Head(s) \in S /\ Tail(s) \in Seq(S)
         /\ Len(s) \in Nat \ {0} /\ Len(Tail(s)) = Len(s) - 1
         /\ \A i \in 1 .. Len(Tail(s)) : Tail(s)[i] = s[i + 1]
OBVIOUS

\* Nothing happens to sockets and the backlog.
LEMMA QuietInv ==
  ASSUME SocketInv, UNCHANGED <<socketVars, backlog>>, StreamTypes', UsedStays
  PROVE  SocketInv'
<1>1. SocketTypes' /\ SocketIsOwn'
  BY DEF SocketInv, SocketTypes, SocketIsOwn, socketVars
<1>2. \A i \in 1 .. Len(backlog) : backlog[i] \in Client
  BY Element DEF SocketInv, SocketTypes
<1>3. BacklogOK'
  BY <1>2 DEF SocketInv, BacklogOK, UsedStays, socketVars
<1>4. \A c \in Client : mSocket'[c] # 0 => Used(c)'
  BY DEF SocketInv, UsedStays, socketVars
<1> QED
  BY <1>1, <1>3, <1>4 DEF SocketInv

\* WsocketImpl::close() frees the number it has, and no other.
LEMMA CloseSocketInv ==
  ASSUME SocketInv, NEW c \in Client, CloseSocket(c), UNCHANGED backlog,
         StreamTypes', UsedStays
  PROVE  SocketInv'
<1>1. SocketTypes'
  BY Descriptors DEF SocketInv, SocketTypes, CloseSocket
<1>2. SocketIsOwn'
  <2> SUFFICES ASSUME NEW b \in Client, NEW d \in Descriptor
               PROVE  mSocket'[b] = d <=> owner'[d] = b
    BY DEF SocketIsOwn
  <2>1. (mSocket[b] = d <=> owner[d] = b) /\ (mSocket[c] = d <=> owner[d] = c)
    BY DEF SocketInv, SocketIsOwn
  <2>2. /\ owner'[d] = IF d = mSocket[c] THEN "none" ELSE owner[d]
        /\ mSocket'[b] = IF b = c THEN 0 ELSE mSocket[b]
    BY DEF SocketInv, SocketTypes, CloseSocket
  <2> QED
    BY <2>1, <2>2, Descriptors
<1>3. \A b \in Client : mSocket'[b] # 0 => mSocket[b] # 0
  BY DEF SocketInv, SocketTypes, CloseSocket
<1>4. \A i \in 1 .. Len(backlog) : backlog[i] \in Client
  BY Element DEF SocketInv, SocketTypes
<1>5. BacklogOK'
  BY <1>3, <1>4 DEF SocketInv, BacklogOK, UsedStays
<1> QED
  BY <1>1, <1>2, <1>3, <1>5 DEF SocketInv, UsedStays

\* accept() gives a free number to a client that has none.
LEMMA AcceptSocketInv ==
  ASSUME SocketInv, Accept
  PROVE  SocketInv'
<1> DEFINE c == Head(backlog)
           n == Min(Free)
<1>1. /\ c = backlog[1] /\ c \in Client /\ backlog' = Tail(backlog)
      /\ backlog' \in Seq(Client) /\ Len(backlog) \in Nat \ {0}
      /\ Len(backlog') = Len(backlog) - 1
      /\ \A i \in 1 .. Len(backlog') : backlog'[i] = backlog[i + 1]
  BY HeadAndTail DEF Accept, SocketInv, SocketTypes
<1>2. Free \in SUBSET Nat /\ Free # {} /\ Free \subseteq Descriptor
  BY Descriptors DEF Free, Accept
<1>3. n \in Descriptor /\ owner[n] = "none"
  BY <1>2, MinOfNats DEF Free
<1>4. Used(c) /\ mSocket[c] = 0
  BY <1>1 DEF SocketInv, BacklogOK
<1>5. owner' = [owner EXCEPT ![n] = c] /\ mSocket' = [mSocket EXCEPT ![c] = n]
  BY DEF Accept
<1>6. StreamTypes' /\ \A b \in Client : Used(b)' <=> Used(b)
  BY DEF Accept, clientVars, SocketInv, StreamTypes, Used
<1>7. SocketTypes'
  BY <1>1, <1>3, <1>5 DEF SocketInv, SocketTypes
<1>8. SocketIsOwn'
  <2> SUFFICES ASSUME NEW b \in Client, NEW d \in Descriptor
               PROVE  mSocket'[b] = d <=> owner'[d] = b
    BY DEF SocketIsOwn
  <2>1. (mSocket[b] = d <=> owner[d] = b) /\ (mSocket[b] = n <=> owner[n] = b)
        /\ (mSocket[c] = d <=> owner[d] = c)
    BY <1>1, <1>3 DEF SocketInv, SocketIsOwn
  <2>2. /\ owner'[d] = IF d = n THEN c ELSE owner[d]
        /\ mSocket'[b] = IF b = c THEN n ELSE mSocket[b]
    BY <1>1, <1>3, <1>5 DEF SocketInv, SocketTypes
  <2> QED
    BY <1>1, <1>3, <1>4, <2>1, <2>2, Descriptors
<1>9. \A b \in Client : b # c => mSocket'[b] = mSocket[b]
  BY <1>5 DEF SocketInv, SocketTypes
<1>10. BacklogOK'
  <2> SUFFICES ASSUME NEW i \in 1 .. Len(backlog')
               PROVE  /\ Used(backlog[i])' /\ mSocket'[backlog'[i]] = 0
                      /\ \A j \in 1 .. Len(backlog') : i # j => backlog'[i] # backlog'[j]
    BY DEF BacklogOK
  <2>1. /\ i + 1 \in 1 .. Len(backlog) /\ backlog'[i] = backlog[i + 1]
        /\ 1 \in 1 .. Len(backlog) /\ i + 1 # 1
    BY <1>1
  <2>2. backlog[i + 1] \in Client
    BY <2>1, Element DEF SocketInv, SocketTypes
  <2>3. Used(backlog[i + 1]) /\ mSocket[backlog[i + 1]] = 0 /\ backlog[i + 1] # c
    BY <1>1, <2>1 DEF SocketInv, BacklogOK
  <2>4. ASSUME NEW j \in 1 .. Len(backlog'), i # j PROVE backlog'[i] # backlog'[j]
    <3>1. /\ j + 1 \in 1 .. Len(backlog) /\ backlog'[j] = backlog[j + 1]
          /\ i + 1 # j + 1
      BY <1>1, <2>4
    <3> QED
      BY <2>1, <3>1 DEF SocketInv, BacklogOK
  <2>5. Used(backlog[i])'
    BY <1>6, <2>1, <2>2, <2>3 DEF Used
  <2>6. mSocket'[backlog'[i]] = 0
    BY <1>9, <2>1, <2>2, <2>3
  <2> QED
    BY <2>4, <2>5, <2>6
<1>11. \A b \in Client : mSocket'[b] # 0 => Used(b)'
  BY <1>4, <1>6, <1>9 DEF SocketInv
<1> QED
  BY <1>6, <1>7, <1>8, <1>10, <1>11 DEF SocketInv

\* A client connects once: it is not in the backlog, and has no descriptor.
LEMMA ConnectSocketInv ==
  ASSUME SocketInv, NEW c \in Client, Connect(c)
  PROVE  SocketInv'
<1>1. /\ up' = [up EXCEPT ![c] = <<Unit("request", 0)>>] /\ backlog' = Append(backlog, c)
      /\ ~Used(c) /\ UNCHANGED <<mSocket, owner, mReadyState, sent>>
  BY DEF Connect, socketVars, Used
<1>2. Unit("request", 0) \in Units
  BY DEF Unit, Units
<1>3. <<Unit("request", 0)>> \in Seq(Units) /\ <<Unit("request", 0)>> # <<>>
  BY <1>2
<1>4. StreamTypes'
  BY <1>1, <1>3 DEF SocketInv, StreamTypes
<1>5. Used(c)' /\ UsedStays
  BY <1>1, <1>3 DEF SocketInv, StreamTypes, Used, UsedStays
<1>6. mSocket[c] = 0 /\ \A i \in 1 .. Len(backlog) : backlog[i] # c
  BY <1>1 DEF SocketInv, BacklogOK
<1>7. /\ backlog' \in Seq(Client) /\ Len(backlog) \in Nat /\ Len(backlog') = Len(backlog) + 1
      /\ backlog'[Len(backlog')] = c
      /\ \A i \in 1 .. Len(backlog) : backlog'[i] = backlog[i] /\ backlog[i] \in Client
  BY <1>1, Appended, Element DEF SocketInv, SocketTypes
<1>8. SocketTypes' /\ SocketIsOwn'
  BY <1>1, <1>7 DEF SocketInv, SocketTypes, SocketIsOwn
<1>9. BacklogOK'
  <2> SUFFICES ASSUME NEW i \in 1 .. Len(backlog')
               PROVE  /\ Used(backlog[i])' /\ mSocket'[backlog'[i]] = 0
                      /\ \A j \in 1 .. Len(backlog') : i # j => backlog'[i] # backlog'[j]
    BY DEF BacklogOK
  <2>1. CASE i = Len(backlog')
    <3>1. backlog'[i] = c
      BY <1>7, <2>1
    <3>2. ASSUME NEW j \in 1 .. Len(backlog'), i # j PROVE backlog'[i] # backlog'[j]
      <4>1. j \in 1 .. Len(backlog)
        BY <1>7, <2>1, <3>2
      <4> QED
        BY <1>6, <1>7, <3>1, <4>1
    <3> QED
      BY <1>1, <1>5, <1>6, <3>1, <3>2 DEF Used
  <2>2. CASE i # Len(backlog')
    <3>1. i \in 1 .. Len(backlog)
      BY <1>7, <2>2
    <3>2. Used(backlog[i]) /\ mSocket[backlog[i]] = 0
      BY <3>1 DEF SocketInv, BacklogOK
    <3>3. ASSUME NEW j \in 1 .. Len(backlog'), i # j PROVE backlog'[i] # backlog'[j]
      <4>1. CASE j = Len(backlog')
        BY <1>6, <1>7, <3>1, <4>1
      <4>2. CASE j # Len(backlog')
        <5>1. j \in 1 .. Len(backlog)
          BY <1>7, <4>2
        <5>2. backlog[i] # backlog[j]
          BY <3>1, <3>3, <5>1 DEF SocketInv, BacklogOK
        <5> QED
          BY <1>7, <3>1, <5>1, <5>2
      <4> QED
        BY <4>1, <4>2
    <3>4. backlog'[i] = backlog[i] /\ backlog[i] \in Client
      BY <1>7, <3>1
    <3>5. Used(backlog[i])'
      BY <1>5, <3>2, <3>4 DEF UsedStays, Used
    <3> QED
      BY <1>1, <3>2, <3>3, <3>4, <3>5
  <2> QED
    BY <2>1, <2>2
<1>10. \A b \in Client : mSocket'[b] # 0 => Used(b)'
  BY <1>1, <1>5 DEF SocketInv, UsedStays
<1> QED
  BY <1>4, <1>8, <1>9, <1>10 DEF SocketInv

\* Deleting the connections that are closed frees their own numbers only.
LEMMA DropSocketInv ==
  ASSUME SocketInv, Drop
  PROVE  SocketInv'
<1> DEFINE Freed(d) == \E c \in Client : Released(c) /\ d = mSocket[c]
<1>1. /\ owner' = [d \in Descriptor |-> IF Freed(d) THEN "none" ELSE owner[d]]
      /\ mSocket' = [c \in Client |-> IF Released(c) THEN 0 ELSE mSocket[c]]
      /\ UNCHANGED <<up, sent, mReadyState, backlog>>
  BY DEF Drop, clientVars
<1>2. StreamTypes' /\ UsedStays
  BY <1>1 DEF SocketInv, StreamTypes, UsedStays, Used
<1>3. SocketTypes'
  BY <1>1 DEF SocketInv, SocketTypes
<1>4. SocketIsOwn'
  <2> SUFFICES ASSUME NEW b \in Client, NEW d \in Descriptor
               PROVE  mSocket'[b] = d <=> owner'[d] = b
    BY DEF SocketIsOwn
  <2>1. \A c \in Client : mSocket[c] = d <=> owner[d] = c
    BY DEF SocketInv, SocketIsOwn
  <2>2. owner'[d] = (IF Freed(d) THEN "none" ELSE owner[d])
        /\ mSocket'[b] = (IF Released(b) THEN 0 ELSE mSocket[b])
    BY <1>1
  <2>3. CASE Released(b)
    BY <2>1, <2>2, <2>3, Descriptors
  <2>4. CASE ~Released(b)
    <3>1. mSocket[b] = d => ~Freed(d)
      BY <2>1, <2>4
    <3> QED
      BY <2>1, <2>2, <2>4, <3>1, Descriptors
  <2> QED
    BY <2>3, <2>4
<1>5. \A b \in Client : mSocket'[b] # 0 => mSocket[b] # 0
  BY <1>1
<1>6. \A i \in 1 .. Len(backlog) : backlog[i] \in Client
  BY Element DEF SocketInv, SocketTypes
<1>7. BacklogOK'
  BY <1>1, <1>2, <1>5, <1>6 DEF SocketInv, BacklogOK, UsedStays
<1> QED
  BY <1>2, <1>3, <1>4, <1>5, <1>7 DEF SocketInv, UsedStays

\* A poll() closes the socket of its own connection, or none.
LEMMA PollSocketInv ==
  ASSUME SocketInv, NEW c \in Client, PollClient(c)
  PROVE  SocketInv'
<1>1. backlog' = backlog /\ sent' = sent
  BY DEF PollClient, PollRequest, PollTimeout, PollEnd, PollClosing, PollOpen, Polled
<1>2. ASSUME NEW s \in States, s # "CONNECTING", UNCHANGED up \/ up' = Unread(c)
                 \/ (up[c] # <<>> /\ up' = [up EXCEPT ![c] = Tail(@)]),
             mReadyState' = [mReadyState EXCEPT ![c] = s]
      PROVE  StreamTypes' /\ UsedStays
  <2>1. up' \in [Client -> Seq(Units)] /\ \A b \in Client : b # c => up'[b] = up[b]
    <3>1. CASE UNCHANGED up
      BY <3>1 DEF SocketInv, StreamTypes
    <3>2. CASE up' = Unread(c)
      BY <3>2 DEF SocketInv, StreamTypes, Unread
    <3>3. CASE up[c] # <<>> /\ up' = [up EXCEPT ![c] = Tail(@)]
      <4>1. Tail(up[c]) \in Seq(Units)
        BY <3>3, HeadAndTail DEF SocketInv, StreamTypes
      <4> QED
        BY <3>3, <4>1 DEF SocketInv, StreamTypes
    <3> QED
      BY <1>2, <3>1, <3>2, <3>3
  <2> QED
    BY <1>1, <1>2, <2>1 DEF SocketInv, StreamTypes, UsedStays, Used
<1>3. CASE PollRequest(c)
  BY <1>1, <1>2, <1>3, QuietInv DEF PollRequest, States
<1>4. CASE PollTimeout(c)
  BY <1>1, <1>2, <1>4, CloseSocketInv DEF PollTimeout, States
<1>5. CASE PollEnd(c)
  BY <1>1, <1>2, <1>5, CloseSocketInv DEF PollEnd, States
<1>6. ASSUME NEW k \in Taken(c), PollClosing(c, k) PROVE SocketInv'
  <2>1. UNCHANGED up
    BY <1>6 DEF PollClosing
  <2>2. CASE mReadyState' = [mReadyState EXCEPT ![c] = "CLOSED"] /\ CloseSocket(c)
    BY <1>1, <1>2, <2>1, <2>2, CloseSocketInv DEF States
  <2>3. CASE UNCHANGED <<mReadyState, socketVars>>
    <3>1. StreamTypes' /\ UsedStays
      BY <1>1, <2>1, <2>3 DEF SocketInv, StreamTypes, UsedStays, Used
    <3> QED
      BY <1>1, <2>3, <3>1, QuietInv
  <2> QED
    BY <1>6, <2>2, <2>3 DEF PollClosing
<1>7. ASSUME NEW k \in Taken(c), PollOpen(c, k) PROVE SocketInv'
  <2>1. /\ mReadyState' = [mReadyState EXCEPT ![c] = IF Closes(c) THEN "CLOSING" ELSE @]
        /\ mReadyState[c] = "OPEN" /\ up' = Unread(c) /\ UNCHANGED socketVars
    BY <1>7 DEF PollOpen
  <2>2. CASE Closes(c)
    BY <1>1, <1>2, <2>1, <2>2, QuietInv DEF States
  <2>3. CASE ~Closes(c)
    BY <1>1, <1>2, <2>1, <2>3, QuietInv DEF States
  <2> QED
    BY <2>2, <2>3
<1> QED
  BY <1>3, <1>4, <1>5, <1>6, <1>7 DEF PollClient

\* A destructor closes its own socket.
LEMMA DeleteSocketInv ==
  ASSUME SocketInv, NEW c \in Client, NEW k, DeleteAt(c, k)
  PROVE  SocketInv'
<1>1. /\ mReadyState' = [mReadyState EXCEPT ![c] = "CLOSED"] /\ CloseSocket(c)
      /\ UNCHANGED <<up, sent, backlog>>
  BY DEF DeleteAt, clientVars
<1>2. StreamTypes' /\ UsedStays
  BY <1>1 DEF SocketInv, StreamTypes, UsedStays, Used, States
<1> QED
  BY <1>1, <1>2, CloseSocketInv

\* A message or a close frame that a client sends.
LEMMA SendSocketInv ==
  ASSUME SocketInv, NEW c \in Client, Send(c) \/ SendClose(c)
  PROVE  SocketInv'
<1>1. PICK u \in Units : up' = [up EXCEPT ![c] = Append(@, u)]
  <2>1. CASE Send(c)
    <3>1. Unit("text", sent[c] + 1) \in Units
      BY DEF Unit, Units, SocketInv, StreamTypes
    <3> QED
      BY <2>1, <3>1 DEF Send
  <2>2. CASE SendClose(c)
    <3>1. Unit("close", 0) \in Units
      BY DEF Unit, Units
    <3> QED
      BY <2>2, <3>1 DEF SendClose
  <2> QED
    BY <2>1, <2>2
<1>2. UNCHANGED <<mSocket, owner, backlog, mReadyState>> /\ sent' \in [Client -> Nat]
  BY DEF Send, SendClose, socketVars, SocketInv, StreamTypes
<1>3. Append(up[c], u) \in Seq(Units) /\ Append(up[c], u) # <<>>
  <2>1. up[c] \in Seq(Units) /\ Len(up[c]) \in Nat
    BY DEF SocketInv, StreamTypes
  <2>2. Append(up[c], u) \in Seq(Units) /\ Len(Append(up[c], u)) = Len(up[c]) + 1
    BY <2>1, Appended
  <2> QED
    BY <2>1, <2>2
<1>4. StreamTypes' /\ UsedStays
  BY <1>1, <1>2, <1>3 DEF SocketInv, StreamTypes, UsedStays, Used
<1> QED
  BY <1>2, <1>4, QuietInv DEF socketVars

\* Steps that leave sockets and streams alone, and at most empty the backlog.
LEMMA OtherSocketInv ==
  ASSUME SocketInv, UNCHANGED <<mSocket, owner, mReadyState, up, sent>>,
         backlog' = backlog \/ backlog' = <<>>
  PROVE  SocketInv'
<1>1. StreamTypes' /\ UsedStays
  BY DEF SocketInv, StreamTypes, UsedStays, Used
<1>2. CASE backlog' = backlog
  BY <1>1, <1>2, QuietInv DEF socketVars
<1>3. CASE backlog' = <<>>
  <2>1. backlog' \in Seq(Client) /\ Len(backlog') = 0
    BY <1>3
  <2>2. SocketTypes' /\ SocketIsOwn'
    BY <2>1 DEF SocketInv, SocketTypes, SocketIsOwn
  <2>3. BacklogOK'
    BY <2>1 DEF BacklogOK
  <2> QED
    BY <1>1, <2>2, <2>3 DEF SocketInv, UsedStays
<1> QED
  BY <1>2, <1>3

\* Every step keeps descriptors and owners in agreement.
LEMMA NextSocketInv == SocketInv /\ [Next]_vars => SocketInv'
<1> SUFFICES ASSUME SocketInv, [Next]_vars PROVE SocketInv'
  OBVIOUS
<1> USE DEF clientVars, socketVars
<1>1. CASE UNCHANGED vars
  BY <1>1, OtherSocketInv DEF vars
<1>2. ASSUME NEW c \in Client, Connect(c) \/ Send(c) \/ SendClose(c) \/ Leave(c)
      PROVE  SocketInv'
  <2>1. CASE Leave(c)
    BY <2>1, OtherSocketInv DEF Leave
  <2> QED
    BY <1>2, <2>1, ConnectSocketInv, SendSocketInv
<1>3. CASE Type \/ ConsoleStep
  BY <1>3, OtherSocketInv DEF Type, ConsoleStep
<1>4. CASE ServerStep
  <2>1. CASE AcceptNone \/ InputNone \/ InputCopy \/ InputTake \/ Exit \/ Ended
    BY <2>1, OtherSocketInv DEF AcceptNone, InputNone, InputCopy, InputTake, Exit, Ended
  <2>2. ASSUME NEW c \in Client, PollClient(c) \/ DeleteClient(c) PROVE SocketInv'
    BY <2>2, PollSocketInv, DeleteSocketInv DEF DeleteClient
  <2> QED
    BY <1>4, <2>1, <2>2, AcceptSocketInv, DropSocketInv DEF ServerStep
<1>5. ASSUME NEW c \in Client, DeleteSlow(c) PROVE SocketInv'
  BY <1>5, DeleteSocketInv DEF DeleteSlow
<1>6. CASE Finished
  BY <1>6, OtherSocketInv DEF Finished, vars
<1> QED
  BY <1>1, <1>2, <1>3, <1>4, <1>5, <1>6 DEF Next

\* Nobody has connected yet.
LEMMA InitSocketInv ==
  ASSUME Init
  PROVE  SocketInv
<1>1. /\ up = [c \in Client |-> <<>>] /\ sent = [c \in Client |-> 0]
      /\ mReadyState = [c \in Client |-> "CONNECTING"] /\ backlog = <<>>
      /\ mSocket = [c \in Client |-> 0] /\ owner = [d \in Descriptor |-> "none"]
  BY DEF Init
<1>2. SocketTypes /\ StreamTypes
  BY <1>1 DEF SocketTypes, StreamTypes, States
<1>3. SocketIsOwn
  BY <1>1, Descriptors DEF SocketIsOwn
<1>4. BacklogOK
  BY <1>1 DEF BacklogOK
<1> QED
  BY <1>1, <1>2, <1>3, <1>4 DEF SocketInv

-----------------------------------------------------------------------------
(* The messages.  Talk is what everybody is sent; Given(c) is what was put *)
(* into c's transmit buffer since it was accepted, sent or not, Since(c)   *)
(* what everybody was sent in that time.                                   *)

Talk == [from : Client \cup {"console"}, n : Nat]
Frames == Talk \cup {CloseFrame}

MessageTypes ==
  /\ mClients \in Seq(Client) /\ at \in Nat \ {0}
  /\ log \in Seq(Talk)
  /\ down \in [Client -> Seq(Frames)] /\ out \in [Client -> Seq(Frames)]
  /\ joined \in [Client -> Nat]
  /\ \A c \in Client : joined[c] <= Len(log)

Member(c) == c \in ToSet(mClients)
Closing(c) == ClosingOrClosed(mReadyState, c)
Given(c) == down[c] \o out[c]
Since(c) == SubSeq(log, joined[c] + 1, Len(log))

\* g is the first n of the messages s, and perhaps a close frame.
OrderedIn(g, s, closing) ==
  \E n \in 0 .. Len(s) :
    \/ g = SubSeq(s, 1, n)
    \/ closing /\ g = Append(SubSeq(s, 1, n), CloseFrame)

Ordered(c) == OrderedIn(Given(c), Since(c), Closing(c))

\* One that does not close was given all of them, or is not in the vector yet.
UpToDate(c) ==
  ~Closing(c) => /\ Member(c) => Given(c) = Since(c)
                 /\ ~Member(c) /\ pc # "ended" => Given(c) = <<>>

\* A client that waits for accept() is new.
Newcomers ==
  \A i \in 1 .. Len(backlog) : ~Closing(backlog[i]) /\ ~Member(backlog[i])

\* A connection with a descriptor is in the vector.
Held == \A c \in Client : mSocket[c] # 0 => Member(c) \/ pc = "ended"

OrderInv ==
  /\ MessageTypes /\ Newcomers /\ Held
  /\ \A c \in Client : Ordered(c) /\ UpToDate(c)

\* A close frame is no message.
LEMMA CloseIsNoTalk == CloseFrame \notin Talk
<1>1. CloseFrame.from = "close" /\ \A m \in Talk : m.from # "close"
  BY ChatAssumption DEF CloseFrame, Message, Talk
<1> QED
  BY <1>1

\* What stays in order.
LEMMA OrderedFacts ==
  ASSUME NEW s \in Seq(Talk), NEW m \in Talk, NEW g, NEW b, NEW d, b => d
  PROVE  /\ OrderedIn(g, s, b) => OrderedIn(g, s, d) /\ OrderedIn(g, Append(s, m), d)
         /\ OrderedIn(s, s, d) /\ OrderedIn(<<>>, s, d)
         /\ OrderedIn(Append(s, CloseFrame), s, TRUE)
         /\ OrderedIn(Append(s, CloseFrame), Append(s, m), TRUE)
<1> DEFINE t == Append(s, m)
<1>1. Len(s) \in Nat /\ Len(t) = Len(s) + 1 /\ SubSeq(s, 1, Len(s)) = s /\ SubSeq(s, 1, 0) = <<>>
  OBVIOUS
<1>2. \A n \in 0 .. Len(s) : SubSeq(t, 1, n) = SubSeq(s, 1, n)
  OBVIOUS
<1> HIDE DEF t
<1>3. 0 \in 0 .. Len(s) /\ Len(s) \in 0 .. Len(s) /\ \A n \in 0 .. Len(s) : n \in 0 .. Len(t)
  BY <1>1
<1>4. OrderedIn(g, s, b) => OrderedIn(g, s, d) /\ OrderedIn(g, t, d)
  BY <1>2, <1>3 DEF OrderedIn
<1>5. OrderedIn(s, s, d) /\ OrderedIn(<<>>, s, d) /\ OrderedIn(Append(s, CloseFrame), s, TRUE)
  BY <1>1, <1>3 DEF OrderedIn
<1>6. OrderedIn(Append(s, CloseFrame), t, TRUE)
  BY <1>1, <1>2, <1>3 DEF OrderedIn
<1> QED
  BY <1>4, <1>5, <1>6 DEF t

\* The types of what a client was given and of what it should be given.
LEMMA GivenTypes ==
  ASSUME MessageTypes, NEW c \in Client
  PROVE  /\ down[c] \in Seq(Frames) /\ out[c] \in Seq(Frames) /\ Given(c) \in Seq(Frames)
         /\ Since(c) \in Seq(Talk) /\ joined[c] \in 0 .. Len(log) /\ Len(log) \in Nat
<1>1. down[c] \in Seq(Frames) /\ out[c] \in Seq(Frames) /\ joined[c] \in 0 .. Len(log)
  BY DEF MessageTypes
<1>2. Since(c) \in Seq(Talk) /\ Len(log) \in Nat
  BY <1>1 DEF Since, MessageTypes
<1> QED
  BY <1>1, <1>2 DEF Given

\* What is behind the first j elements, with one more.
LEMMA RestGrows ==
  ASSUME NEW S, NEW s \in Seq(S), NEW m \in S, NEW j \in 0 .. Len(s)
  PROVE  SubSeq(Append(s, m), j + 1, Len(Append(s, m))) = Append(SubSeq(s, j + 1, Len(s)), m)
<1> DEFINE t == Append(s, m)
           a == SubSeq(t, j + 1, Len(t))
           b == SubSeq(s, j + 1, Len(s))
<1>1. /\ t \in Seq(S) /\ Len(t) = Len(s) + 1 /\ Len(s) \in Nat /\ t[Len(s) + 1] = m
      /\ \A i \in 1 .. Len(s) : t[i] = s[i]
  BY Appended
<1>2. b \in Seq(S) /\ Len(b) = Len(s) - j /\ \A i \in 1 .. Len(s) - j : b[i] = s[i + j]
  OBVIOUS
<1> HIDE DEF t, b
<1>3. /\ a \in Seq(S) /\ Len(a) = Len(s) + 1 - j
      /\ \A i \in 1 .. Len(s) + 1 - j : a[i] = t[i + j]
  BY <1>1
<1> DEFINE e == Append(b, m)
<1>4. /\ e \in Seq(S) /\ Len(e) = Len(s) - j + 1 /\ e[Len(s) - j + 1] = m
      /\ \A i \in 1 .. Len(s) - j : e[i] = s[i + j]
  BY <1>2, Appended
<1> HIDE DEF a, e
<1>5. ASSUME NEW i \in 1 .. Len(s) - j + 1 PROVE a[i] = e[i]
  <2>1. CASE i = Len(s) - j + 1
    BY <1>1, <1>3, <1>4, <2>1
  <2>2. CASE i # Len(s) - j + 1
    <3>1. i \in 1 .. Len(s) - j /\ i + j \in 1 .. Len(s)
      BY <1>1, <2>2
    <3> QED
      BY <1>1, <1>3, <1>4, <3>1
  <2> QED
    BY <2>1, <2>2
<1>6. Len(a) = Len(e) /\ Len(a) \in Nat /\ \A i \in 1 .. Len(a) : a[i] = e[i]
  <2>1. PICK d \in Nat : d = Len(s) - j
    BY <1>1
  <2>2. Len(a) = d + 1 /\ Len(e) = d + 1
    BY <1>1, <1>3, <1>4, <2>1
  <2> QED
    BY <1>5, <2>1, <2>2
<1>7. a = e
  BY <1>3, <1>4, <1>6
<1> QED
  BY <1>7 DEF a, b, e, t

\* A sequence is its first k elements and the others.
LEMMA SplitAt ==
  ASSUME NEW S, NEW s \in Seq(S), NEW k \in 0 .. Len(s)
  PROVE  /\ SubSeq(s, 1, k) \in Seq(S) /\ SubSeq(s, k + 1, Len(s)) \in Seq(S)
         /\ SubSeq(s, 1, k) \o SubSeq(s, k + 1, Len(s)) = s
<1> DEFINE a == SubSeq(s, 1, k)
           b == SubSeq(s, k + 1, Len(s))
<1>1. /\ a \in Seq(S) /\ Len(a) = k /\ \A i \in 1 .. k : a[i] = s[i]
      /\ b \in Seq(S) /\ Len(b) = Len(s) - k
      /\ \A i \in 1 .. Len(s) - k : b[i] = s[i + k]
  OBVIOUS
<1> HIDE DEF a, b
<1> DEFINE e == a \o b
<1>2. /\ e \in Seq(S) /\ Len(e) = Len(a) + Len(b)
      /\ \A i \in 1 .. Len(a) + Len(b) : e[i] = IF i <= Len(a) THEN a[i] ELSE b[i - Len(a)]
  BY <1>1
<1> HIDE DEF e
<1>3. e \in Seq(S) /\ Len(e) = Len(s) /\ \A i \in 1 .. Len(s) : e[i] = s[i]
  BY <1>1, <1>2
<1>4. e = s
  BY <1>3
<1> QED
  BY <1>1, <1>4 DEF e, a, b

\* A message for everybody is one more that c should be given.
LEMMA SinceGrows ==
  ASSUME MessageTypes, NEW c \in Client, NEW m \in Talk, log' = Append(log, m),
         joined'[c] = joined[c]
  PROVE  Since(c)' = Append(Since(c), m)
<1> DEFINE j == joined[c]
<1>1. log \in Seq(Talk) /\ j \in 0 .. Len(log) /\ Len(log) \in Nat
  BY GivenTypes DEF MessageTypes
<1>2. /\ Since(c)' = SubSeq(Append(log, m), j + 1, Len(Append(log, m)))
      /\ Since(c) = SubSeq(log, j + 1, Len(log))
  BY DEF Since
<1> HIDE DEF j
<1>3. SubSeq(Append(log, m), j + 1, Len(Append(log, m)))
        = Append(SubSeq(log, j + 1, Len(log)), m)
  BY <1>1, RestGrows
<1> QED
  BY <1>2, <1>3

\* Appending is associative.
LEMMA ConcatAssoc ==
  ASSUME NEW S, NEW s \in Seq(S), NEW t \in Seq(S), NEW u \in Seq(S)
  PROVE  (s \o t) \o u = s \o (t \o u)
OBVIOUS

\* The network takes the first k messages: nothing is lost, and what is added
\* behind the others comes last.
LEMMA FlushedGiven ==
  ASSUME NEW d \in Seq(Frames), NEW o \in Seq(Frames), NEW k \in 0 .. Len(o), NEW x \in Frames
  PROVE  /\ (d \o SubSeq(o, 1, k)) \in Seq(Frames) /\ SubSeq(o, k + 1, Len(o)) \in Seq(Frames)
         /\ (d \o SubSeq(o, 1, k)) \o SubSeq(o, k + 1, Len(o)) = d \o o
         /\ (d \o SubSeq(o, 1, k)) \o Append(SubSeq(o, k + 1, Len(o)), x) = Append(d \o o, x)
         /\ d \o Append(o, x) = Append(d \o o, x)
<1> DEFINE a == SubSeq(o, 1, k)
           b == SubSeq(o, k + 1, Len(o))
<1>1. a \in Seq(Frames) /\ b \in Seq(Frames) /\ a \o b = o
  BY SplitAt
<1> HIDE DEF a, b
<1>2. (d \o a) \in Seq(Frames)
  BY <1>1
<1>3. \A u, v, w \in Seq(Frames) : (u \o v) \o w = u \o (v \o w)
  BY ConcatAssoc
<1>4. \A u, v \in Seq(Frames) : u \o Append(v, x) = Append(u \o v, x)
  OBVIOUS
<1>5. (d \o a) \o b = d \o (a \o b)
  BY <1>1, <1>3
<1>6. (d \o a) \o b = d \o o
  BY <1>1, <1>5
<1>7. (d \o a) \o Append(b, x) = Append(d \o o, x)
  BY <1>1, <1>2, <1>4, <1>6
<1> QED
  BY <1>1, <1>2, <1>4, <1>6, <1>7 DEF a, b

-----------------------------------------------------------------------------
(* What a step does to one client.                                         *)

\* Everybody is sent a message.
Grows(c) == \E m \in Talk : Since(c)' = Append(Since(c), m)

\* The client stays in the vector or outside, or the server ends.
Remains(c) ==
  /\ (Member(c)' <=> Member(c)) \/ (~Member(c)' /\ pc' = "ended")
  /\ pc = "ended" => pc' = "ended"

\* Nothing ...
Untouched(c) ==
  /\ Given(c)' = Given(c) /\ Since(c)' = Since(c) /\ Closing(c)' = Closing(c)
  /\ Remains(c)

\* ... a message it is not sent, or the end of its connection ...
Misses(c) ==
  /\ Given(c)' = Given(c)
  /\ Since(c)' = Since(c) \/ Grows(c)
  /\ \/ Closing(c)'
     \/ ~Closing(c) /\ pc # "ended" /\ ~Member(c) /\ ~Member(c)'

\* ... a message ...
IsSent(c) ==
  /\ \E m \in Talk : Since(c)' = Append(Since(c), m) /\ Given(c)' = Append(Given(c), m)
  /\ Member(c) /\ Member(c)' /\ ~Closing(c)

\* ... a close frame ...
IsClosed(c) ==
  /\ Given(c)' = Append(Given(c), CloseFrame)
  /\ Since(c)' = Since(c) \/ Grows(c)
  /\ Member(c) /\ ~Closing(c) /\ Closing(c)'

\* ... its place in the vector ...
IsAdded(c) ==
  /\ Given(c)' = Given(c) /\ Since(c)' = <<>>
  /\ ~Member(c) /\ Member(c)' /\ pc # "ended" /\ ~Closing(c)

\* ... or its deletion.
IsDropped(c) == Given(c)' = <<>> /\ Since(c)' \in Seq(Talk) /\ Closing(c)'

Effect(c) ==
  \/ Untouched(c) \/ Misses(c) \/ IsSent(c) \/ IsClosed(c) \/ IsAdded(c) \/ IsDropped(c)

\* Each of these keeps the order and what a client was given complete.
LEMMA EffectKeeps ==
  ASSUME MessageTypes, NEW c \in Client, Ordered(c), UpToDate(c), Effect(c)
  PROVE  Ordered(c)' /\ UpToDate(c)'
<1> DEFINE g == Given(c)
           s == Since(c)
<1>1. s \in Seq(Talk) /\ OrderedIn(g, s, Closing(c))
  BY GivenTypes DEF Ordered
<1>2. Ordered(c)' <=> OrderedIn(g', s', Closing(c)')
  BY DEF Ordered
<1>3. /\ ~Closing(c) => /\ Member(c) => g = s
                        /\ ~Member(c) /\ pc # "ended" => g = <<>>
      /\ UpToDate(c)' <=>
           (~Closing(c)' => /\ Member(c)' => g' = s'
                            /\ ~Member(c)' /\ pc' # "ended" => g' = <<>>)
  BY DEF UpToDate
<1>4. CASE Untouched(c)
  BY <1>1, <1>2, <1>3, <1>4 DEF Untouched, Remains
<1>5. CASE Misses(c)
  <2>1. /\ g' = g
        /\ s' = s \/ \E m \in Talk : s' = Append(s, m)
        /\ Closing(c)' \/ (~Closing(c) /\ pc # "ended" /\ ~Member(c) /\ ~Member(c)')
    BY <1>5 DEF Misses, Grows
  <2>2. Closing(c) => Closing(c)'
    BY <2>1
  <2> HIDE DEF g, s
  <2>3. OrderedIn(g, s, Closing(c)')
    BY <1>1, <2>2 DEF OrderedIn
  <2>4. OrderedIn(g', s', Closing(c)')
    <3>1. CASE s' = s
      BY <2>1, <2>3, <3>1
    <3>2. ASSUME NEW m \in Talk, s' = Append(s, m) PROVE OrderedIn(g', s', Closing(c)')
      <4>1. OrderedIn(g, Append(s, m), Closing(c)')
        BY <1>1, <2>3, OrderedFacts
      <4> QED
        BY <2>1, <3>2, <4>1
    <3> QED
      BY <2>1, <3>1, <3>2
  <2> QED
    BY <1>2, <1>3, <2>1, <2>4
<1>6. CASE IsSent(c)
  <2>1. \E m \in Talk : s' = Append(s, m) /\ g' = Append(g, m)
    BY <1>6 DEF IsSent
  <2>2. g = s /\ Member(c)'
    BY <1>3, <1>6 DEF IsSent
  <2> HIDE DEF g, s
  <2>3. g' = s' /\ s' \in Seq(Talk)
    BY <1>1, <2>1, <2>2
  <2>4. OrderedIn(g', s', Closing(c)')
    <3>1. PICK m \in Talk : TRUE
      BY <2>1
    <3> QED
      BY <2>3, <3>1, OrderedFacts
  <2> QED
    BY <1>2, <1>3, <2>2, <2>3, <2>4
<1>7. CASE IsClosed(c)
  <2>1. /\ g' = Append(g, CloseFrame)
        /\ s' = s \/ \E m \in Talk : s' = Append(s, m)
        /\ g = s /\ Closing(c)' = TRUE
    BY <1>3, <1>7 DEF IsClosed, Grows, Closing, ClosingOrClosed
  <2> HIDE DEF g, s
  <2>2. OrderedIn(g', s', TRUE)
    <3>1. CASE s' = s
      <4>1. Message("console", 0) \in Talk
        BY DEF Message, Talk
      <4> QED
        BY <1>1, <2>1, <3>1, <4>1, OrderedFacts
    <3>2. ASSUME NEW m \in Talk, s' = Append(s, m) PROVE OrderedIn(g', s', TRUE)
      BY <1>1, <2>1, <3>2, OrderedFacts
    <3> QED
      BY <2>1, <3>1, <3>2
  <2> QED
    BY <1>2, <1>3, <2>1, <2>2
<1>8. CASE IsAdded(c) \/ IsDropped(c)
  <2>1. /\ g' = <<>> /\ s' \in Seq(Talk)
        /\ Closing(c)' \/ (Member(c)' /\ s' = <<>>)
    <3>1. <<>> \in Seq(Talk)
      OBVIOUS
    <3> QED
      BY <1>3, <1>8, <3>1 DEF IsAdded, IsDropped
  <2> HIDE DEF g, s
  <2>2. OrderedIn(g', s', Closing(c)')
    <3>1. Message("console", 0) \in Talk
      BY DEF Message, Talk
    <3> QED
      BY <2>1, <3>1, OrderedFacts
  <2> QED
    BY <1>2, <1>3, <2>1, <2>2
<1> QED
  BY <1>4, <1>5, <1>6, <1>7, <1>8 DEF Effect

\* The parts of the invariant that are not about one client.
LEMMA EffectsSuffice ==
  ASSUME OrderInv, MessageTypes', Newcomers', Held', \A c \in Client : Effect(c)
  PROVE  OrderInv'
<1>1. \A c \in Client : Ordered(c)' /\ UpToDate(c)'
  BY EffectKeeps DEF OrderInv
<1> QED
  BY <1>1 DEF OrderInv

\* What is in the vector after one more was added.
LEMMA AppendedSet ==
  ASSUME NEW S, NEW s \in Seq(S), NEW e \in S
  PROVE  ToSet(Append(s, e)) = ToSet(s) \cup {e}
<1> DEFINE t == Append(s, e)
<1>1. /\ t \in Seq(S) /\ Len(t) = Len(s) + 1 /\ t[Len(s) + 1] = e /\ Len(s) \in Nat
      /\ \A i \in 1 .. Len(s) : t[i] = s[i]
  BY Appended
<1> HIDE DEF t
<1>2. /\ DOMAIN t = 1 .. Len(s) + 1 /\ DOMAIN s = 1 .. Len(s)
      /\ \A i : i \in 1 .. Len(s) + 1 <=> i \in 1 .. Len(s) \/ i = Len(s) + 1
  BY <1>1
<1>3. ToSet(t) = ToSet(s) \cup {e}
  BY <1>1, <1>2 DEF ToSet
<1> QED
  BY <1>3 DEF t

\* Who waits for accept() is a client.
LEMMA BacklogClients ==
  ASSUME SocketInv
  PROVE  /\ backlog \in Seq(Client) /\ Len(backlog) \in Nat
         /\ \A i \in 1 .. Len(backlog) : backlog[i] \in Client
BY Element DEF SocketInv, SocketTypes

\* Steps that send nothing to anybody: at most they close connections.
LEMMA SilentOrder ==
  ASSUME SocketInv, OrderInv, UNCHANGED <<log, joined, mClients, backlog>>,
         down' \in [Client -> Seq(Frames)], out' \in [Client -> Seq(Frames)],
         at' \in Nat \ {0}, pc = "ended" => pc' = "ended",
         \A b \in Client : mSocket'[b] # 0 => mSocket[b] # 0,
         \A b \in Client : /\ Given(b)' = Given(b)
                           /\ Closing(b)' = Closing(b) \/ (Member(b) /\ Closing(b)')
  PROVE  OrderInv'
<1>1. MessageTypes'
  BY DEF OrderInv, MessageTypes
<1>2. \A b \in Client : (Member(b)' <=> Member(b)) /\ Since(b)' = Since(b)
  BY DEF Member, Since
<1>3. Held'
  BY <1>2 DEF OrderInv, Held
<1>4. Newcomers'
  <2>1. \A i \in 1 .. Len(backlog) : ~Member(backlog[i]) /\ ~Closing(backlog[i])
    BY DEF OrderInv, Newcomers
  <2>2. \A i \in 1 .. Len(backlog) : ~Member(backlog[i])' /\ ~Closing(backlog[i])'
    BY <1>2, <2>1, BacklogClients DEF Member, Closing
  <2> QED
    BY <2>2 DEF Newcomers
<1>5. \A b \in Client : Untouched(b) \/ Misses(b)
  BY <1>2 DEF Untouched, Misses, Remains
<1> QED
  BY <1>1, <1>3, <1>4, <1>5, EffectsSuffice DEF Effect

\* accept(): the client is new, so what it is to be sent begins now.
LEMMA AcceptOrder ==
  ASSUME SocketInv, OrderInv, Accept
  PROVE  OrderInv'
<1>0. PICK c \in Client : c = Head(backlog)
  BY HeadAndTail DEF Accept, SocketInv, SocketTypes
<1>1. /\ c = backlog[1] /\ c \in Client /\ backlog' = Tail(backlog)
      /\ backlog' \in Seq(Client) /\ Len(backlog) \in Nat \ {0}
      /\ Len(backlog') = Len(backlog) - 1
      /\ \A i \in 1 .. Len(backlog') : backlog'[i] = backlog[i + 1]
  BY <1>0, HeadAndTail DEF Accept, SocketInv, SocketTypes
<1>2. /\ mClients' = Append(mClients, c) /\ joined' = [joined EXCEPT ![c] = Len(log)]
      /\ mSocket' = [mSocket EXCEPT ![c] = Min(Free)]
      /\ UNCHANGED <<mReadyState, down, out, at, log>> /\ pc = "poll" /\ pc' = "input"
  BY <1>0 DEF Accept, bufferVars, RoundOver
<1>3. MessageTypes /\ ~Closing(c) /\ ~Member(c) /\ Given(c) = <<>>
  BY <1>1, <1>2 DEF OrderInv, Newcomers, UpToDate
<1>4. /\ mClients' \in Seq(Client)
      /\ \A b \in Client : Member(b)' <=> Member(b) \/ b = c
  BY <1>1, <1>2, <1>3, Appended, AppendedSet DEF MessageTypes, Member
<1>5. Len(log) \in Nat /\ joined \in [Client -> Nat]
  BY <1>3 DEF MessageTypes
<1>6. MessageTypes'
  BY <1>1, <1>2, <1>3, <1>4, <1>5 DEF MessageTypes
<1>7. Held'
  <2> SUFFICES ASSUME NEW b \in Client, mSocket'[b] # 0, b # c PROVE Member(b)'
    BY <1>1, <1>4 DEF Held
  <2>1. mSocket[b] # 0
    BY <1>2 DEF SocketInv, SocketTypes
  <2> QED
    BY <1>2, <1>4, <2>1 DEF OrderInv, Held
<1>8. Newcomers'
  <2> SUFFICES ASSUME NEW i \in 1 .. Len(backlog')
               PROVE  (~Closing(backlog[i]) /\ ~Member(backlog[i]))'
    BY DEF Newcomers
  <2>1. /\ i + 1 \in 1 .. Len(backlog) /\ backlog'[i] = backlog[i + 1]
        /\ 1 \in 1 .. Len(backlog) /\ i + 1 # 1
    BY <1>1
  <2>2. /\ backlog[i + 1] # c /\ backlog[i + 1] \in Client
        /\ ~Closing(backlog[i + 1]) /\ ~Member(backlog[i + 1])
    BY <1>1, <2>1, BacklogClients DEF SocketInv, BacklogOK, OrderInv, Newcomers
  <2>3. PICK b \in Client : b = backlog'[i] /\ b # c /\ ~Closing(b) /\ ~Member(b)
    BY <2>1, <2>2
  <2>4. ~Closing(b)' /\ ~Member(b)'
    BY <1>2, <1>4, <2>3 DEF Closing
  <2> QED
    BY <2>3, <2>4 DEF Closing, Member
<1>9. \A b \in Client : Given(b)' = Given(b) /\ Closing(b)' = Closing(b)
  BY <1>2 DEF Given, Closing
<1>10. ASSUME NEW b \in Client, b # c PROVE Effect(b)
  <2>1. joined'[b] = joined[b]
    BY <1>1, <1>2, <1>5, <1>10
  <2>2. Since(b)' = Since(b) /\ (Member(b)' <=> Member(b))
    BY <1>2, <1>4, <1>10, <2>1 DEF Since
  <2> QED
    BY <1>2, <1>9, <2>2 DEF Effect, Untouched, Remains
<1>11. Effect(c)
  <2>1. joined'[c] = Len(log)
    BY <1>1, <1>2, <1>5
  <2>2. SubSeq(log, Len(log) + 1, Len(log)) = <<>>
    BY <1>3 DEF MessageTypes
  <2>3. Since(c)' = <<>>
    BY <1>2, <2>1, <2>2 DEF Since
  <2>4. Member(c)'
    BY <1>1, <1>4
  <2> QED
    BY <1>1, <1>2, <1>3, <1>9, <2>3, <2>4 DEF Effect, IsAdded
<1> QED
  BY <1>6, <1>7, <1>8, <1>10, <1>11, EffectsSuffice

\* A client that connects is new.
LEMMA ConnectOrder ==
  ASSUME SocketInv, OrderInv, NEW c \in Client, Connect(c)
  PROVE  OrderInv'
<1>1. /\ backlog' = Append(backlog, c) /\ ~Member(c) /\ ~Closing(c)
      /\ UNCHANGED <<mReadyState, mSocket, down, out, mClients, pc, at, log, joined>>
  BY DEF Connect, socketVars, bufferVars, Member, Closing, ClosingOrClosed
<1>2. /\ Len(backlog') = Len(backlog) + 1 /\ backlog'[Len(backlog) + 1] = c
      /\ Len(backlog) \in Nat /\ \A i \in 1 .. Len(backlog) : backlog'[i] = backlog[i]
  BY <1>1, BacklogClients, Appended
<1>3. MessageTypes' /\ Held'
  BY <1>1 DEF OrderInv, MessageTypes, Held, Member
<1>4. Newcomers'
  <2>1. \A i \in 1 .. Len(backlog') : i \in 1 .. Len(backlog) \/ i = Len(backlog) + 1
    BY <1>2
  <2>2. \A i \in 1 .. Len(backlog') : ~Closing(backlog'[i]) /\ ~Member(backlog'[i])
    BY <1>1, <1>2, <2>1 DEF OrderInv, Newcomers
  <2> QED
    BY <1>1, <2>2 DEF Newcomers, Closing, Member
<1>5. \A b \in Client : Untouched(b)
  BY <1>1 DEF Untouched, Remains, Given, Since, Member, Closing
<1> QED
  BY <1>3, <1>4, <1>5, EffectsSuffice DEF Effect

\* The clients whose connections are closed go, with all they were given.
LEMMA DropOrder ==
  ASSUME SocketInv, OrderInv, Drop
  PROVE  OrderInv'
<1> DEFINE gone == {c \in Client : Released(c)}
<1>1. /\ mSocket' = [c \in Client |-> IF Released(c) THEN 0 ELSE mSocket[c]]
      /\ mClients' = Without(mClients, gone)
      /\ out' = [c \in Client |-> IF Released(c) THEN <<>> ELSE out[c]]
      /\ down' = [c \in Client |-> IF Released(c) THEN <<>> ELSE down[c]]
      /\ joined' = [c \in Client |-> IF Released(c) THEN 0 ELSE joined[c]]
      /\ pc = "drop" /\ pc' = "poll" /\ at' = 1
      /\ UNCHANGED <<backlog, mReadyState, log>>
  BY DEF Drop
<1>2. MessageTypes
  BY DEF OrderInv
<1>3. mClients' \in Seq(Client) /\ \A c \in Client : Member(c)' <=> Member(c) /\ ~Released(c)
  BY <1>1, <1>2, WithoutElements DEF MessageTypes, Member
<1>4. MessageTypes'
  <2>1. <<>> \in Seq(Frames) /\ Len(log) \in Nat
    BY <1>2 DEF MessageTypes
  <2> QED
    BY <1>1, <1>2, <1>3, <2>1 DEF MessageTypes
<1>5. Held'
  BY <1>1, <1>3 DEF OrderInv, Held
<1>6. Newcomers'
  <2>1. \A i \in 1 .. Len(backlog) : backlog[i] \in Client /\ ~Member(backlog[i])
    BY BacklogClients DEF OrderInv, Newcomers
  <2> QED
    BY <1>1, <1>3, <2>1 DEF OrderInv, Newcomers, Closing, Member
<1>7. ASSUME NEW c \in Client, Released(c) PROVE Effect(c)
  <2>1. Given(c)' = <<>> \o <<>> /\ joined'[c] = 0 /\ Closing(c)'
    BY <1>1, <1>7 DEF Given, Closing, ClosingOrClosed, Released
  <2>2. Since(c)' \in Seq(Talk)
    BY <1>4, GivenTypes, <1>1, <1>2, <2>1 DEF Since, MessageTypes
  <2>3. <<>> \o <<>> = <<>>
    OBVIOUS
  <2> QED
    BY <2>1, <2>2, <2>3 DEF Effect, IsDropped
<1>8. ASSUME NEW c \in Client, ~Released(c) PROVE Effect(c)
  <2>1. Given(c)' = Given(c) /\ Since(c)' = Since(c) /\ Closing(c)' = Closing(c)
    BY <1>1, <1>8 DEF Given, Since, Closing
  <2> QED
    BY <1>1, <1>3, <1>8, <2>1 DEF Effect, Untouched, Remains
<1> QED
  BY <1>4, <1>5, <1>6, <1>7, <1>8, EffectsSuffice

\* Who is polled or deleted is in the vector.
LEMMA InTurn ==
  ASSUME OrderInv, NEW c \in Client, at <= Len(mClients), c = mClients[at]
  PROVE  Member(c)
<1>1. mClients \in Seq(Client) /\ at \in Nat \ {0}
  BY DEF OrderInv, MessageTypes
<1>2. at \in 1 .. Len(mClients) /\ DOMAIN mClients = 1 .. Len(mClients)
  BY <1>1
<1> QED
  BY <1>2 DEF Member, ToSet

\* What the network takes was given before.
LEMMA FlushKeeps ==
  ASSUME MessageTypes, NEW c \in Client, NEW k \in 0 .. Len(out[c]),
         down' = Flushed(c, k), out' = Waiting(c, k)
  PROVE  /\ down' \in [Client -> Seq(Frames)] /\ out' \in [Client -> Seq(Frames)]
         /\ \A b \in Client : Given(b)' = Given(b)
<1>1. down[c] \in Seq(Frames) /\ out[c] \in Seq(Frames) /\ CloseFrame \in Frames
  BY GivenTypes DEF Frames
<1>2. /\ (down[c] \o SubSeq(out[c], 1, k)) \in Seq(Frames)
      /\ SubSeq(out[c], k + 1, Len(out[c])) \in Seq(Frames)
      /\ (down[c] \o SubSeq(out[c], 1, k)) \o SubSeq(out[c], k + 1, Len(out[c])) = Given(c)
  BY <1>1, FlushedGiven DEF Given
<1>3. down \in [Client -> Seq(Frames)] /\ out \in [Client -> Seq(Frames)]
  BY DEF MessageTypes
<1>4. /\ down' = [down EXCEPT ![c] = down[c] \o SubSeq(out[c], 1, k)]
      /\ out' = [out EXCEPT ![c] = SubSeq(out[c], k + 1, Len(out[c]))]
  BY <1>3 DEF Flushed, Waiting
<1>5. down' \in [Client -> Seq(Frames)] /\ out' \in [Client -> Seq(Frames)]
  BY <1>2, <1>3, <1>4
<1>6. Given(c)' = Given(c)
  BY <1>2, <1>3, <1>4 DEF Given
<1>7. \A b \in Client : b # c => Given(b)' = Given(b)
  BY <1>3, <1>4 DEF Given
<1> QED
  BY <1>5, <1>6, <1>7

\* The network takes no more than there is.
LEMMA TakenBound ==
  ASSUME MessageTypes, NEW c \in Client, NEW k \in Taken(c)
  PROVE  k \in 0 .. Len(out[c])
<1>1. Len(out[c]) \in Nat
  BY GivenTypes
<1>2. k = Len(out[c]) \/ k \in 0 .. Len(out[c])
  BY DEF Taken
<1> QED
  BY <1>1, <1>2

\* A closed socket is no other socket's business.
LEMMA CloseSocketZero ==
  ASSUME SocketInv, NEW c \in Client, CloseSocket(c)
  PROVE  \A b \in Client : mSocket'[b] # 0 => mSocket[b] # 0
BY DEF CloseSocket, SocketInv, SocketTypes

\* The handshake, its end, the end of the stream, and waiting for the close
\* frame to be taken.
LEMMA PollOrder ==
  ASSUME SocketInv, OrderInv, NEW c \in Client, NEW k \in Taken(c),
         PollRequest(c) \/ PollTimeout(c) \/ PollEnd(c) \/ PollClosing(c, k)
  PROVE  OrderInv'
<1>1. Polled(c) /\ UNCHANGED log
  BY DEF PollRequest, PollTimeout, PollEnd, PollClosing
<1>2. /\ Member(c) /\ at' \in Nat \ {0} /\ pc' = pc
      /\ UNCHANGED <<log, joined, mClients, backlog>>
  BY <1>1, InTurn DEF Polled, OrderInv, MessageTypes
<1>3. MessageTypes /\ mReadyState \in [Client -> States]
  BY DEF OrderInv, SocketInv, StreamTypes
<1>4. /\ down' \in [Client -> Seq(Frames)] /\ out' \in [Client -> Seq(Frames)]
      /\ \A b \in Client : Given(b)' = Given(b)
  <2>1. CASE UNCHANGED bufferVars
    BY <1>3, <2>1 DEF bufferVars, Given, MessageTypes
  <2>2. CASE PollClosing(c, k)
    BY <1>3, <2>2, TakenBound, FlushKeeps DEF PollClosing
  <2> QED
    BY <2>1, <2>2 DEF PollRequest, PollTimeout, PollEnd
<1>5. UNCHANGED socketVars \/ CloseSocket(c)
  BY DEF PollRequest, PollTimeout, PollEnd, PollClosing
<1>6. \A b \in Client : mSocket'[b] # 0 => mSocket[b] # 0
  BY <1>5, CloseSocketZero DEF socketVars
<1>7. \/ UNCHANGED mReadyState
      \/ mReadyState' = [mReadyState EXCEPT ![c] = "CLOSED"]
      \/ mReadyState' = [mReadyState EXCEPT ![c] = "OPEN"] /\ mReadyState[c] = "CONNECTING"
  BY DEF PollRequest, PollTimeout, PollEnd, PollClosing
<1>8. ASSUME NEW b \in Client
      PROVE  Closing(b)' = Closing(b) \/ (Member(b) /\ Closing(b)')
  BY <1>2, <1>3, <1>7 DEF Closing, ClosingOrClosed
<1> QED
  BY <1>2, <1>4, <1>6, <1>8, SilentOrder

\* A destructor queues a close frame, unless there was one, sends what it can and
\* closes the socket.
LEMMA DeleteOrder ==
  ASSUME SocketInv, OrderInv, NEW c \in Client, NEW k \in 0 .. Len(Farewell(c)), DeleteAt(c, k)
  PROVE  OrderInv'
<1> DEFINE f == Farewell(c)
<1>0. pc = "delete" /\ pc' = pc /\ UNCHANGED <<log, joined, mClients, backlog>>
  BY DEF DeleteAt
<1>1. Member(c) /\ at' \in Nat \ {0}
  <2>1. at <= Len(mClients) /\ c = mClients[at] /\ at' = at + 1
    BY DEF DeleteAt
  <2> QED
    BY <2>1, InTurn DEF OrderInv, MessageTypes
<1>2. MessageTypes /\ mReadyState \in [Client -> States]
  BY DEF OrderInv, SocketInv, StreamTypes
<1>3. /\ down[c] \in Seq(Frames) /\ out[c] \in Seq(Frames) /\ CloseFrame \in Frames
      /\ down \in [Client -> Seq(Frames)] /\ out \in [Client -> Seq(Frames)]
  BY <1>2, GivenTypes DEF Frames, MessageTypes
<1>4. f \in Seq(Frames)
  BY <1>3, Appended DEF Farewell
<1>5. 0 \in 0 .. Len(out[c])
  BY <1>3
<1>6. down[c] \o f = IF Closing(c) THEN Given(c) ELSE Append(Given(c), CloseFrame)
  BY <1>3, <1>5, FlushedGiven DEF Farewell, Given, Closing
<1>7. /\ down' = [down EXCEPT ![c] = down[c] \o SubSeq(f, 1, k)]
      /\ out' = [out EXCEPT ![c] = SubSeq(f, k + 1, Len(f))]
  BY <1>3 DEF DeleteAt
<1>8. k \in 0 .. Len(f)
  OBVIOUS
<1> HIDE DEF f
<1>9. /\ (down[c] \o SubSeq(f, 1, k)) \in Seq(Frames) /\ SubSeq(f, k + 1, Len(f)) \in Seq(Frames)
      /\ (down[c] \o SubSeq(f, 1, k)) \o SubSeq(f, k + 1, Len(f)) = down[c] \o f
  BY <1>3, <1>4, <1>8, FlushedGiven
<1>10. down' \in [Client -> Seq(Frames)] /\ out' \in [Client -> Seq(Frames)]
  BY <1>3, <1>7, <1>9
<1>11. Given(c)' = IF Closing(c) THEN Given(c) ELSE Append(Given(c), CloseFrame)
  BY <1>3, <1>6, <1>7, <1>9 DEF Given
<1>12. \A b \in Client : b # c => Given(b)' = Given(b)
  BY <1>3, <1>7 DEF Given
<1>13. \A b \in Client : mSocket'[b] # 0 => mSocket[b] # 0
  BY CloseSocketZero DEF DeleteAt
<1>14. Closing(c)' /\ \A b \in Client : b # c => Closing(b)' = Closing(b)
  BY <1>2 DEF DeleteAt, Closing, ClosingOrClosed
<1>15. \A b \in Client : (Member(b)' <=> Member(b)) /\ Since(b)' = Since(b)
  BY <1>0, <1>1 DEF Member, Since
<1>16. MessageTypes'
  BY <1>0, <1>1, <1>2, <1>10 DEF MessageTypes
<1>17. Held'
  BY <1>0, <1>1, <1>13, <1>15 DEF OrderInv, Held
<1>18. Newcomers'
  <2>1. \A i \in 1 .. Len(backlog) : /\ backlog[i] \in Client /\ backlog[i] # c
                                     /\ ~Member(backlog[i]) /\ ~Closing(backlog[i])
    BY <1>0, <1>1, BacklogClients DEF OrderInv, Newcomers
  <2>2. \A i \in 1 .. Len(backlog) : ~Member(backlog[i])' /\ ~Closing(backlog[i])'
    BY <1>0, <1>1, <1>14, <1>15, <2>1 DEF Member, Closing
  <2> QED
    BY <1>0, <1>1, <2>2 DEF Newcomers
<1>19. \A b \in Client : b # c => Untouched(b)
  BY <1>0, <1>1, <1>12, <1>14, <1>15 DEF Untouched, Remains
<1>20. CASE Closing(c)
  <2>1. Closing(c)' = Closing(c)
    BY <1>14, <1>20 DEF Closing, ClosingOrClosed
  <2>2. Untouched(c)
    BY <1>0, <1>1, <1>11, <1>15, <1>20, <2>1 DEF Untouched, Remains
  <2> QED
    BY <1>16, <1>17, <1>18, <1>19, <2>2, EffectsSuffice DEF Effect
<1>21. CASE ~Closing(c)
  <2>1. IsClosed(c)
    BY <1>0, <1>1, <1>11, <1>14, <1>15, <1>21 DEF IsClosed
  <2> QED
    BY <1>16, <1>17, <1>18, <1>19, <2>1, EffectsSuffice DEF Effect
<1> QED
  BY <1>20, <1>21

\* A line of the console is sent to those who do not close.
LEMMA InputOrder ==
  ASSUME LineInv, SocketInv, OrderInv, InputTake
  PROVE  OrderInv'
<1> DEFINE m == Message("console", Len(taken'))
<1>1. /\ pc = "take" /\ pc' = "drop"
      /\ UNCHANGED <<down, mClients, at, joined, mReadyState, mSocket, backlog>>
  BY DEF InputTake, socketVars
<1>2. CASE UNCHANGED <<out, log>>
  <2>1. \A b \in Client : Given(b)' = Given(b) /\ Closing(b)' = Closing(b)
    BY <1>1, <1>2 DEF Given, Closing
  <2> QED
    BY <1>1, <1>2, <2>1, SilentOrder DEF OrderInv, MessageTypes
<1>3. CASE out' = Broadcast(out, mReadyState, m) /\ log' = Append(log, m)
  <2>1. Len(taken') \in Nat
    <3>1. taken \in Seq(Line) /\ copied \in Line
      BY <1>1, ScriptIsSeq, Element DEF LineInv
    <3>2. taken' = Append(taken, copied)
      BY DEF InputTake, TakeLine
    <3> QED
      BY <3>1, <3>2
  <2>2. m \in Talk /\ m \in Frames
    BY <2>1 DEF Message, Talk, Frames
  <2> HIDE DEF m
  <2>3. MessageTypes
    BY DEF OrderInv
  <2>4. out' = [b \in Client |-> IF Member(b) /\ ~Closing(b) THEN Append(out[b], m) ELSE out[b]]
    BY <1>3 DEF Broadcast, Member, Closing
  <2>5. /\ \A b \in Client : Append(out[b], m) \in Seq(Frames) /\ out[b] \in Seq(Frames)
        /\ log' \in Seq(Talk) /\ Len(log') = Len(log) + 1 /\ Len(log) \in Nat
    BY <1>3, <2>2, <2>3, Appended DEF MessageTypes
  <2>6. MessageTypes'
    BY <1>1, <2>3, <2>4, <2>5 DEF MessageTypes
  <2>7. \A b \in Client : /\ Since(b)' = Append(Since(b), m)
                          /\ Closing(b)' = Closing(b) /\ (Member(b)' <=> Member(b))
    BY <1>1, <1>3, <2>2, <2>3, SinceGrows DEF Closing, Member
  <2>8. ASSUME NEW b \in Client, Member(b), ~Closing(b) PROVE IsSent(b)
    <3>1. down[b] \in Seq(Frames) /\ out[b] \in Seq(Frames) /\ 0 \in 0 .. Len(out[b])
      BY <2>3, GivenTypes
    <3>2. Given(b)' = down[b] \o Append(out[b], m)
      BY <1>1, <2>4, <2>8 DEF Given
    <3>3. Given(b)' = Append(Given(b), m)
      BY <2>2, <3>1, <3>2, FlushedGiven DEF Given
    <3> QED
      BY <2>2, <2>7, <2>8, <3>3 DEF IsSent
  <2>9. ASSUME NEW b \in Client, ~Member(b) \/ Closing(b) PROVE Misses(b)
    <3>1. Given(b)' = Given(b)
      BY <1>1, <2>4, <2>9 DEF Given
    <3> QED
      BY <1>1, <2>2, <2>7, <2>9, <3>1 DEF Misses, Grows
  <2>10. Held' /\ Newcomers'
    <3>1. \A i \in 1 .. Len(backlog) : backlog[i] \in Client
      BY BacklogClients
    <3> QED
      BY <1>1, <2>7, <3>1 DEF OrderInv, Held, Newcomers, Closing, Member
  <2> QED
    BY <2>6, <2>8, <2>9, <2>10, EffectsSuffice DEF Effect
<1> QED
  BY <1>2, <1>3 DEF InputTake

\* A poll() of an open connection: what arrived is sent to all that do not
\* close, and if a close frame was among it the answer goes behind the rest.
LEMMA OpenOrder ==
  ASSUME SocketInv, OrderInv, NEW c \in Client, NEW k \in Taken(c), PollOpen(c, k)
  PROVE  OrderInv'
<1> DEFINE w == SubSeq(out[c], k + 1, Len(out[c]))
           d == down[c] \o SubSeq(out[c], 1, k)
           queue == IF Closes(c) THEN [Waiting(c, k) EXCEPT ![c] = Append(@, CloseFrame)]
                                 ELSE Waiting(c, k)
<1>1. /\ Polled(c) /\ mReadyState[c] = "OPEN" /\ down' = Flushed(c, k)
      /\ mReadyState' = [mReadyState EXCEPT ![c] = IF Closes(c) THEN "CLOSING" ELSE @]
      /\ up' = Unread(c) /\ UNCHANGED socketVars
      /\ \/ out' = queue /\ UNCHANGED log
         \/ \E n \in NewMessage(c) :
              /\ out' = Broadcast(queue, mReadyState', Message(c, n))
              /\ log' = Append(log, Message(c, n))
  BY DEF PollOpen
<1>2. /\ Member(c) /\ at' \in Nat \ {0} /\ pc' = pc /\ pc = "poll"
      /\ UNCHANGED <<mSocket, joined, mClients, backlog>>
  BY <1>1, InTurn DEF Polled, OrderInv, MessageTypes, socketVars
<1>3. MessageTypes /\ mReadyState \in [Client -> States]
  BY DEF OrderInv, SocketInv, StreamTypes
<1>4. down[c] \in Seq(Frames) /\ out[c] \in Seq(Frames) /\ k \in 0 .. Len(out[c])
  BY <1>3, GivenTypes, TakenBound
<1>5. \A x \in Frames : d \o Append(w, x) = Append(Given(c), x)
  BY <1>4, FlushedGiven DEF Given
<1>6. d \in Seq(Frames) /\ w \in Seq(Frames) /\ d \o w = Given(c) /\ CloseFrame \in Frames
  <2>1. CloseFrame \in Frames
    BY DEF Frames
  <2> QED
    BY <1>4, <2>1, FlushedGiven DEF Given
<1>7. /\ down \in [Client -> Seq(Frames)] /\ out \in [Client -> Seq(Frames)]
      /\ down' = [down EXCEPT ![c] = d]
      /\ queue = [out EXCEPT ![c] = IF Closes(c) THEN Append(w, CloseFrame) ELSE w]
  BY <1>1, <1>3 DEF MessageTypes, Flushed, Waiting
<1> HIDE DEF w, d, queue
<1>8. down' \in [Client -> Seq(Frames)] /\ queue \in [Client -> Seq(Frames)]
  <2>1. Append(w, CloseFrame) \in Seq(Frames)
    BY <1>6, Appended
  <2> QED
    BY <1>6, <1>7, <2>1
<1>9. /\ ~Closing(c) /\ (Closing(c)' <=> Closes(c))
      /\ \A b \in Client : b # c => Closing(b)' = Closing(b)
  BY <1>1, <1>3 DEF Closing, ClosingOrClosed, States
<1>10. /\ \A b \in Client : (Member(b)' <=> Member(b)) /\ down'[b] \in Seq(Frames)
       /\ \A b \in Client : b # c => down'[b] \o queue[b] = Given(b)
       /\ down'[c] \o queue[c] = IF Closes(c) THEN Append(Given(c), CloseFrame) ELSE Given(c)
  BY <1>2, <1>5, <1>6, <1>7, <1>8 DEF Given, Member
<1>11. Held' /\ Newcomers'
  <2>1. \A i \in 1 .. Len(backlog) : /\ backlog[i] \in Client /\ backlog[i] # c
                                     /\ ~Member(backlog[i]) /\ ~Closing(backlog[i])
    BY <1>2, BacklogClients DEF OrderInv, Newcomers
  <2>2. \A i \in 1 .. Len(backlog) : ~Member(backlog[i])' /\ ~Closing(backlog[i])'
    BY <1>2, <1>9, <1>10, <2>1 DEF Member, Closing
  <2> QED
    BY <1>2, <1>10, <2>2 DEF OrderInv, Held, Newcomers, Member, Closing
<1>12. CASE out' = queue /\ UNCHANGED log
  <2>1. MessageTypes'
    BY <1>2, <1>3, <1>8, <1>12 DEF MessageTypes
  <2>2. \A b \in Client : Since(b)' = Since(b) /\ Given(b)' = down'[b] \o queue[b]
    BY <1>2, <1>12 DEF Since, Given
  <2>3. ASSUME NEW b \in Client, b # c \/ ~Closes(c) PROVE Untouched(b)
    <3>1. Closing(b)' = Closing(b)
      BY <1>9, <2>3 DEF Closing, ClosingOrClosed
    <3>2. Given(b)' = Given(b)
      BY <1>10, <2>2, <2>3
    <3> QED
      BY <1>2, <1>10, <2>2, <3>1, <3>2 DEF Untouched, Remains
  <2>4. ASSUME Closes(c) PROVE IsClosed(c)
    BY <1>2, <1>9, <1>10, <2>2, <2>4 DEF IsClosed
  <2> QED
    BY <1>11, <2>1, <2>3, <2>4, EffectsSuffice DEF Effect
<1>13. ASSUME NEW n \in NewMessage(c),
              out' = Broadcast(queue, mReadyState', Message(c, n)),
              log' = Append(log, Message(c, n))
       PROVE  OrderInv'
  <2> DEFINE m == Message(c, n)
  <2>1. m \in Talk /\ m \in Frames
    <3>1. PICK i \in DOMAIN up[c] : n = up[c][i].n
      BY <1>13 DEF NewMessage, Kept, Texts
    <3>2. up[c] \in Seq(Units)
      BY DEF SocketInv, StreamTypes
    <3>3. up[c][i] \in Units
      BY <3>1, <3>2
    <3> QED
      BY <3>1, <3>3 DEF Units, Message, Talk, Frames
  <2>2. out' = [b \in Client |-> IF Member(b) /\ ~Closing(b)' THEN Append(queue[b], m)
                                                            ELSE queue[b]]
    BY <1>13 DEF Broadcast, Member, Closing
  <2>3. log' = Append(log, m)
    BY <1>13
  <2> HIDE DEF m
  <2>4. /\ \A b \in Client : Append(queue[b], m) \in Seq(Frames) /\ queue[b] \in Seq(Frames)
        /\ log' \in Seq(Talk) /\ Len(log') = Len(log) + 1 /\ Len(log) \in Nat
    BY <1>3, <1>8, <2>1, <2>3, Appended DEF MessageTypes
  <2>5. MessageTypes'
    BY <1>2, <1>3, <1>8, <2>2, <2>4 DEF MessageTypes
  <2>6. \A b \in Client : Since(b)' = Append(Since(b), m)
    BY <1>2, <1>3, <2>1, <2>3, SinceGrows
  <2>7. ASSUME NEW b \in Client, ~Member(b) \/ Closing(b)', b # c \/ ~Closes(c)
        PROVE  Misses(b)
    <3>1. Given(b)' = down'[b] \o queue[b]
      BY <2>2, <2>7 DEF Given
    <3>2. Given(b)' = Given(b)
      BY <1>10, <2>7, <3>1
    <3>3. Closing(b)' \/ (~Closing(b) /\ ~Member(b) /\ ~Member(b)')
      BY <1>2, <1>9, <1>10, <2>7 DEF Closing
    <3> QED
      BY <1>2, <2>1, <2>6, <3>2, <3>3 DEF Misses, Grows
  <2>8. ASSUME NEW b \in Client, Member(b), ~Closing(b)' PROVE IsSent(b)
    <3>1. Given(b)' = down'[b] \o Append(queue[b], m)
      BY <2>2, <2>8 DEF Given
    <3>2. down'[b] \o Append(queue[b], m) = Append(down'[b] \o queue[b], m)
      <4>1. /\ down'[b] \in Seq(Frames) /\ queue[b] \in Seq(Frames)
            /\ 0 \in 0 .. Len(queue[b])
        BY <1>10, <2>4
      <4> QED
        BY <2>1, <4>1, FlushedGiven
    <3>3. b # c \/ ~Closes(c)
      BY <1>9, <2>8
    <3>4. Given(b)' = Append(Given(b), m)
      BY <1>10, <3>1, <3>2, <3>3
    <3>5. Member(b)' /\ ~Closing(b)
      BY <1>9, <1>10, <2>8 DEF Closing
    <3> QED
      BY <2>1, <2>6, <2>8, <3>4, <3>5 DEF IsSent
  <2>9. ASSUME Closes(c) PROVE IsClosed(c)
    <3>1. Given(c)' = down'[c] \o queue[c]
      BY <1>9, <2>2, <2>9 DEF Given
    <3>2. Given(c)' = Append(Given(c), CloseFrame)
      BY <1>10, <2>9, <3>1
    <3> QED
      BY <1>2, <1>9, <2>1, <2>6, <2>9, <3>2 DEF IsClosed, Grows
  <2> QED
    BY <1>11, <2>5, <2>7, <2>8, <2>9, EffectsSuffice DEF Effect
<1> QED
  BY <1>1, <1>12, <1>13

\* The vector is gone with the server.
LEMMA EndedOrder ==
  ASSUME SocketInv, OrderInv, Ended
  PROVE  OrderInv'
<1>1. /\ pc' = "ended" /\ mClients' = <<>> /\ backlog' = <<>>
      /\ UNCHANGED <<mReadyState, mSocket, down, out, at, log, joined>>
  BY DEF Ended, socketVars, bufferVars
<1>2. mClients' \in Seq(Client) /\ Len(backlog') = 0 /\ \A b \in Client : ~Member(b)'
  BY <1>1 DEF Member, ToSet
<1>3. MessageTypes' /\ Held' /\ Newcomers'
  BY <1>1, <1>2 DEF OrderInv, MessageTypes, Held, Newcomers
<1>4. \A b \in Client : Untouched(b)
  BY <1>1, <1>2 DEF Untouched, Remains, Given, Since, Closing
<1> QED
  BY <1>3, <1>4, EffectsSuffice DEF Effect

\* Every step keeps it.
LEMMA NextOrderInv ==
  ASSUME LineInv, SocketInv, OrderInv, [Next]_vars
  PROVE  OrderInv'
<1> USE DEF clientVars, socketVars, bufferVars
<1> DEFINE Silent == /\ UNCHANGED <<log, joined, mClients, backlog, down, out, mSocket,
                                    mReadyState>>
                     /\ at' = at \/ at' = 1
                     /\ pc = "ended" => pc' = "ended"
<1>0. ASSUME Silent PROVE OrderInv'
  <2>1. \A b \in Client : Given(b)' = Given(b) /\ Closing(b)' = Closing(b)
    BY <1>0 DEF Given, Closing
  <2> QED
    BY <1>0, <2>1, SilentOrder DEF OrderInv, MessageTypes
<1>1. CASE UNCHANGED vars
  BY <1>0, <1>1 DEF vars
<1>2. ASSUME NEW c \in Client, Connect(c) \/ Send(c) \/ SendClose(c) \/ Leave(c)
      PROVE  OrderInv'
  <2>1. CASE Send(c) \/ SendClose(c) \/ Leave(c)
    BY <1>0, <2>1 DEF Send, SendClose, Leave
  <2> QED
    BY <1>2, <2>1, ConnectOrder
<1>3. CASE Type \/ ConsoleStep
  BY <1>0, <1>3 DEF Type, ConsoleStep
<1>4. CASE ServerStep
  <2>1. CASE AcceptNone \/ InputNone \/ InputCopy \/ Exit
    BY <1>0, <2>1 DEF AcceptNone, InputNone, InputCopy, Exit, RoundOver
  <2>2. ASSUME NEW c \in Client, PollClient(c) PROVE OrderInv'
    <3>1. Len(out[c]) \in Nat
      BY GivenTypes DEF OrderInv
    <3>2. Len(out[c]) \in Taken(c)
      BY <3>1 DEF Taken
    <3> QED
      BY <2>2, <3>2, PollOrder, OpenOrder DEF PollClient
  <2>3. ASSUME NEW c \in Client, DeleteClient(c) PROVE OrderInv'
    <3>1. Len(Farewell(c)) \in 0 .. Len(Farewell(c)) /\ 0 \in 0 .. Len(Farewell(c))
      <4>1. Len(Farewell(c)) \in Nat
        BY GivenTypes DEF OrderInv, Farewell, Frames
      <4> QED
        BY <4>1
    <3> QED
      BY <2>3, <3>1, DeleteOrder DEF DeleteClient
  <2> QED
    BY <1>4, <2>1, <2>2, <2>3, AcceptOrder, InputOrder, DropOrder, EndedOrder DEF ServerStep
<1>5. ASSUME NEW c \in Client, DeleteSlow(c) PROVE OrderInv'
  BY <1>5, DeleteOrder DEF DeleteSlow
<1>6. CASE Finished
  BY <1>0, <1>6 DEF Finished, vars
<1> QED
  BY <1>1, <1>2, <1>3, <1>4, <1>5, <1>6 DEF Next

-----------------------------------------------------------------------------
(* What is sent to everybody and what is dropped.                          *)

\* The numbers of the texts in a stream.
TextsOf(u) == {u[i].n : i \in {j \in DOMAIN u : u[j].kind = "text"}}

\* The texts that were sent and not dispatched wait, behind the request.
Sound(c) ==
  /\ dispatched[c] \in 0 .. sent[c]
  /\ mReadyState[c] = "CONNECTING" =>
       /\ c \in present => up[c] # <<>>
       /\ up[c] # <<>> => up[c][1].kind = "request"
  /\ ~Closing(c) => TextsOf(up[c]) = dispatched[c] + 1 .. sent[c]

\* A message for everybody was dispatched, or typed.
Known(m) ==
  /\ \A c \in Client : m.from = c => m.n <= dispatched[c]
  /\ m.from = "console" => m.n <= Len(taken)

EchoInv ==
  /\ dispatched \in [Client -> Nat]
  /\ \A c \in Client : Sound(c)
  /\ \A i \in 1 .. Len(log) : Known(log[i])
  /\ DroppedOnlyIfSuperseded

\* A stream with one unit more.
LEMMA TextsAppended ==
  ASSUME NEW u \in Seq(Units), NEW x \in Units
  PROVE  /\ x.kind = "text" => TextsOf(Append(u, x)) = TextsOf(u) \cup {x.n}
         /\ x.kind # "text" => TextsOf(Append(u, x)) = TextsOf(u)
         /\ u # <<>> => Append(u, x)[1] = u[1]
<1> DEFINE t == Append(u, x)
<1>1. /\ t \in Seq(Units) /\ Len(t) = Len(u) + 1 /\ t[Len(u) + 1] = x /\ Len(u) \in Nat
      /\ \A i \in 1 .. Len(u) : t[i] = u[i]
  BY Appended
<1>2. u # <<>> => 1 \in 1 .. Len(u)
  OBVIOUS
<1> HIDE DEF t
<1>3. /\ DOMAIN t = 1 .. Len(u) + 1 /\ DOMAIN u = 1 .. Len(u)
      /\ \A i : i \in 1 .. Len(u) + 1 <=> i \in 1 .. Len(u) \/ i = Len(u) + 1
  BY <1>1
<1>4. ASSUME x.kind = "text" PROVE TextsOf(t) = TextsOf(u) \cup {x.n}
  BY <1>1, <1>3, <1>4 DEF TextsOf
<1>5. ASSUME x.kind # "text" PROVE TextsOf(t) = TextsOf(u)
  BY <1>1, <1>3, <1>5 DEF TextsOf
<1> QED
  BY <1>1, <1>2, <1>4, <1>5 DEF t

\* A stream without the unit at its head, which is no text.
LEMMA TextsBehind ==
  ASSUME NEW u \in Seq(Units), u # <<>>, u[1].kind # "text"
  PROVE  TextsOf(Tail(u)) = TextsOf(u)
<1> DEFINE t == Tail(u)
<1>1. /\ t \in Seq(Units) /\ Len(u) \in Nat \ {0} /\ Len(t) = Len(u) - 1
      /\ \A i \in 1 .. Len(t) : t[i] = u[i + 1]
  BY HeadAndTail
<1> HIDE DEF t
<1>2. /\ DOMAIN t = 1 .. Len(t) /\ DOMAIN u = 1 .. Len(u)
      /\ \A i \in 1 .. Len(t) : i + 1 \in 1 .. Len(u)
      /\ \A i \in 1 .. Len(u) : i # 1 => i - 1 \in 1 .. Len(t) /\ (i - 1) + 1 = i
  BY <1>1
<1>3. \A i \in 1 .. Len(u) : i # 1 => t[i - 1] = u[i]
  BY <1>1, <1>2
<1>4. TextsOf(t) \subseteq TextsOf(u)
  BY <1>1, <1>2 DEF TextsOf
<1>5. TextsOf(u) \subseteq TextsOf(t)
  <2> SUFFICES ASSUME NEW i \in 1 .. Len(u), u[i].kind = "text"
               PROVE  u[i].n \in TextsOf(t)
    BY <1>2 DEF TextsOf
  <2>1. i - 1 \in 1 .. Len(t) /\ t[i - 1] = u[i]
    BY <1>2, <1>3
  <2> QED
    BY <1>2, <2>1 DEF TextsOf
<1> QED
  BY <1>4, <1>5 DEF t

\* getMessage() returns the last message, if there is one.
LEMMA LastOfKept ==
  ASSUME NEW c \in Client, NEW a \in Nat, NEW b \in Nat, TextsOf(up[c]) = a + 1 .. b,
         NEW n \in a + 1 .. b, n \notin Long
  PROVE  NewMessage(c) # {}
<1>1. n \in Kept(c) /\ \A k \in Kept(c) : k \in a + 1 .. b
  BY DEF Kept, Texts, TextsOf
<1> DEFINE T == {j \in Nat : j <= b /\ b - j \in Kept(c)}
<1>2. b - n \in Nat /\ b - n <= b /\ b - (b - n) = n
  OBVIOUS
<1>3. T \in SUBSET Nat /\ T # {}
  BY <1>1, <1>2
<1>4. PICK j \in T : \A i \in T : j <= i
  BY <1>3, LeastOfNats
<1>5. ASSUME NEW k \in Kept(c) PROVE b - j >= k
  <2>1. k \in a + 1 .. b
    BY <1>1, <1>5
  <2>2. b - k \in Nat /\ b - k <= b /\ b - (b - k) = k
    BY <2>1
  <2>3. b - k \in T
    BY <1>5, <2>2
  <2>4. j <= b - k /\ j \in Nat
    BY <1>4, <2>3
  <2> QED
    BY <2>1, <2>4
<1>6. b - j \in NewMessage(c)
  BY <1>4, <1>5 DEF NewMessage
<1> QED
  BY <1>6

\* Nothing about a client changes but that it may have left.
LEMMA SoundStays ==
  ASSUME NEW c \in Client, Sound(c), up'[c] = up[c], sent'[c] = sent[c],
         dispatched'[c] = dispatched[c], mReadyState'[c] = mReadyState[c],
         c \in present' => c \in present
  PROVE  Sound(c)'
BY DEF Sound, Closing, ClosingOrClosed

\* What is sent to everybody comes behind what was sent before.
LEMMA LogGrows ==
  ASSUME EchoInv, OrderInv, NEW m \in Talk, log' = Append(log, m),
         \A i \in 1 .. Len(log) : Known(log[i])' /\ (log[i].from = m.from => log[i].n < m.n),
         Known(m)',
         \A c \in Client : \A n \in 1 .. dispatched'[c] :
           n \notin Long => n \in 1 .. dispatched[c] \/ (m.from = c /\ m.n >= n)
  PROVE  (\A i \in 1 .. Len(log) : Known(log[i]))' /\ DroppedOnlyIfSuperseded'
<1> DEFINE g == log'
<1>1. /\ log \in Seq(Talk) /\ g \in Seq(Talk) /\ Len(log) \in Nat /\ Len(g) = Len(log) + 1
      /\ g[Len(log) + 1] = m /\ \A i \in 1 .. Len(log) : g[i] = log[i]
  BY Appended DEF OrderInv, MessageTypes
<1>2. /\ DOMAIN g = 1 .. Len(g) /\ DOMAIN log = 1 .. Len(log) /\ Len(log) + 1 \in 1 .. Len(g)
      /\ \A i \in 1 .. Len(g) : i \in 1 .. Len(log) \/ i = Len(log) + 1
      /\ \A i \in 1 .. Len(log) : i \in 1 .. Len(g)
      /\ \A i, j \in 1 .. Len(g) : i < j => i \in 1 .. Len(log)
  BY <1>1
<1>3. (\A i \in 1 .. Len(log) : Known(log[i]))'
  BY <1>1, <1>2 DEF Known
<1>4. ASSUME NEW c \in Client, NEW n \in 1 .. dispatched'[c], n \notin Long
      PROVE  \E i \in DOMAIN g : g[i].from = c /\ g[i].n >= n
  <2>1. CASE n \in 1 .. dispatched[c]
    <3>1. PICK i \in DOMAIN log : log[i].from = c /\ log[i].n >= n
      BY <1>4, <2>1 DEF EchoInv, DroppedOnlyIfSuperseded
    <3> QED
      BY <1>1, <1>2, <3>1
  <2>2. CASE m.from = c /\ m.n >= n
    BY <1>1, <1>2, <2>2
  <2> QED
    BY <1>4, <2>1, <2>2
<1>5. ASSUME NEW i \in DOMAIN g, NEW j \in DOMAIN g, i < j, g[i].from = g[j].from
      PROVE  g[i].n < g[j].n
  <2>1. i \in 1 .. Len(log) /\ g[i] = log[i]
    BY <1>1, <1>2, <1>5
  <2>2. CASE j = Len(log) + 1
    BY <1>1, <1>5, <2>1, <2>2
  <2>3. CASE j \in 1 .. Len(log)
    BY <1>1, <1>2, <1>5, <2>1, <2>3 DEF EchoInv, DroppedOnlyIfSuperseded
  <2> QED
    BY <1>2, <1>5, <2>2, <2>3
<1> QED
  BY <1>3, <1>4, <1>5 DEF DroppedOnlyIfSuperseded

\* Steps that send nothing to everybody and dispatch nothing.
LEMMA QuietEcho ==
  ASSUME EchoInv, UNCHANGED <<log, dispatched>>, taken' = taken, \A c \in Client : Sound(c)'
  PROVE  EchoInv'
BY DEF EchoInv, Known, DroppedOnlyIfSuperseded

\* A client connects, talks, says good-bye, leaves.
LEMMA ClientEcho ==
  ASSUME SocketInv, EchoInv, NEW c \in Client,
         Connect(c) \/ Send(c) \/ SendClose(c) \/ Leave(c)
  PROVE  EchoInv'
<1>1. /\ UNCHANGED <<log, dispatched, mReadyState>> /\ taken' = taken
      /\ up \in [Client -> Seq(Units)] /\ sent \in [Client -> Nat]
      /\ Sound(c) /\ \A b \in Client : Sound(b)
  BY DEF Connect, Send, SendClose, Leave, inputVars, SocketInv, StreamTypes, EchoInv
<1>2. ASSUME NEW b \in Client, b # c PROVE Sound(b)'
  <2>1. up'[b] = up[b] /\ sent'[b] = sent[b] /\ (b \in present' => b \in present)
    BY <1>1, <1>2 DEF Connect, Send, SendClose, Leave
  <2> QED
    BY <1>1, <2>1, SoundStays
<1>3. CASE Leave(c)
  <2>1. up' = up /\ sent' = sent /\ (c \in present' => c \in present)
    BY <1>3 DEF Leave
  <2>2. Sound(c)'
    BY <1>1, <2>1, SoundStays
  <2> QED
    BY <1>1, <1>2, <2>2, QuietEcho
<1>4. CASE Connect(c)
  <2> DEFINE x == Unit("request", 0)
             e == <<>>
  <2>1. /\ x \in Units /\ x.kind = "request" /\ e \in Seq(Units) /\ TextsOf(e) = {}
        /\ Append(e, x) = <<x>> /\ <<x>>[1] = x
    BY DEF Unit, Units, TextsOf
  <2>2. TextsOf(<<x>>) = {} /\ <<x>> # <<>> /\ <<x>>[1].kind = "request"
    BY <2>1, TextsAppended
  <2>3. up'[c] = <<x>> /\ sent[c] = 0 /\ sent'[c] = 0
    BY <1>1, <1>4 DEF Connect
  <2> HIDE DEF x, e
  <2>4. dispatched[c] = 0 /\ dispatched'[c] = 0
    BY <1>1, <2>3 DEF Sound
  <2>5. Sound(c)'
    BY <1>1, <2>2, <2>3, <2>4 DEF Sound
  <2> QED
    BY <1>1, <1>2, <2>5, QuietEcho
<1>5. CASE Send(c) \/ SendClose(c)
  <2> DEFINE y == Append(up[c], IF Send(c) THEN Unit("text", sent[c] + 1) ELSE Unit("close", 0))
  <2>1. /\ present' = present /\ ~Closing(c) /\ c \in present
        /\ up[c] \in Seq(Units) /\ sent[c] \in Nat /\ dispatched[c] \in 0 .. sent[c]
    BY <1>1, <1>5 DEF Send, SendClose, Talking, Closing, clientVars, Sound
  <2>2. PICK x \in Units :
          /\ up'[c] = Append(up[c], x)
          /\ \/ x.kind = "text" /\ x.n = sent[c] + 1 /\ sent'[c] = sent[c] + 1
             \/ x.kind # "text" /\ sent'[c] = sent[c]
    <3>1. CASE Send(c)
      <4>1. Unit("text", sent[c] + 1) \in Units
        BY <2>1 DEF Unit, Units
      <4> QED
        BY <1>1, <3>1, <4>1 DEF Send, Unit
    <3>2. CASE SendClose(c)
      <4>1. Unit("close", 0) \in Units
        BY DEF Unit, Units
      <4> QED
        BY <1>1, <3>2, <4>1 DEF SendClose, Unit
    <3> QED
      BY <1>5, <3>1, <3>2
  <2>3. /\ TextsOf(up[c]) = dispatched[c] + 1 .. sent[c]
        /\ mReadyState[c] = "CONNECTING" => up[c] # <<>> /\ up[c][1].kind = "request"
    BY <1>1, <2>1 DEF Sound
  <2>4. TextsOf(up'[c]) = dispatched[c] + 1 .. sent'[c]
    <3>1. CASE x.kind = "text"
      <4>1. TextsOf(up'[c]) = (dispatched[c] + 1 .. sent[c]) \cup {sent[c] + 1}
        BY <2>1, <2>2, <2>3, <3>1, TextsAppended
      <4>2. (dispatched[c] + 1 .. sent[c]) \cup {sent[c] + 1} = dispatched[c] + 1 .. sent[c] + 1
        BY <2>1
      <4> QED
        BY <2>2, <3>1, <4>1, <4>2
    <3>2. CASE x.kind # "text"
      BY <2>1, <2>2, <2>3, <3>2, TextsAppended
    <3> QED
      BY <3>1, <3>2
  <2>5. mReadyState[c] = "CONNECTING" => up'[c][1].kind = "request"
    BY <2>1, <2>2, <2>3, TextsAppended
  <2>6. up'[c] # <<>> /\ sent'[c] \in Nat /\ dispatched[c] \in 0 .. sent'[c]
    <3>1. Append(up[c], x) # <<>>
      <4>1. Len(Append(up[c], x)) = Len(up[c]) + 1 /\ Len(up[c]) \in Nat
        BY <2>1, Appended
      <4>2. Len(Append(up[c], x)) # 0
        BY <4>1
      <4> QED
        BY <4>2
    <3> QED
      BY <2>1, <2>2, <3>1
  <2>7. Sound(c)'
    BY <1>1, <2>1, <2>4, <2>5, <2>6 DEF Sound
  <2> QED
    BY <1>1, <1>2, <2>7, QuietEcho
<1> QED
  BY <1>3, <1>4, <1>5

\* The end of a handshake, and the ways a connection ends.
LEMMA PollEcho ==
  ASSUME SocketInv, EchoInv, NEW c \in Client, NEW k,
         PollRequest(c) \/ PollTimeout(c) \/ PollEnd(c) \/ PollClosing(c, k) \/ DeleteAt(c, k)
  PROVE  EchoInv'
<1>1. /\ UNCHANGED <<log, dispatched, sent, present>> /\ taken' = taken
      /\ up \in [Client -> Seq(Units)] /\ mReadyState \in [Client -> States]
      /\ Sound(c) /\ \A b \in Client : Sound(b)
  BY DEF PollRequest, PollTimeout, PollEnd, PollClosing, DeleteAt, Polled, inputVars, clientVars,
         SocketInv, StreamTypes, EchoInv
<1>2. ASSUME NEW b \in Client, b # c PROVE Sound(b)'
  <2>1. up'[b] = up[b] /\ mReadyState'[b] = mReadyState[b]
    BY <1>1, <1>2 DEF PollRequest, PollTimeout, PollEnd, PollClosing, DeleteAt, Unread, clientVars
  <2> QED
    BY <1>1, <2>1, SoundStays
<1>3. CASE PollRequest(c)
  <2>1. /\ up'[c] = Tail(up[c]) /\ up[c] # <<>> /\ up[c][1].kind = "request"
        /\ mReadyState'[c] = "OPEN" /\ mReadyState[c] = "CONNECTING"
    BY <1>1, <1>3 DEF PollRequest, Sound
  <2>2. TextsOf(Tail(up[c])) = TextsOf(up[c])
    BY <1>1, <2>1, TextsBehind
  <2>3. Sound(c)'
    BY <1>1, <2>1, <2>2 DEF Sound, Closing, ClosingOrClosed
  <2> QED
    BY <1>1, <1>2, <2>3, QuietEcho
<1>4. CASE ~PollRequest(c)
  <2>1. mReadyState'[c] = "CLOSED" \/ (mReadyState[c] = "CLOSING" /\ UNCHANGED mReadyState)
    BY <1>1, <1>4 DEF PollTimeout, PollEnd, PollClosing, DeleteAt
  <2>2. Sound(c)'
    BY <1>1, <2>1 DEF Sound, Closing, ClosingOrClosed
  <2> QED
    BY <1>1, <1>2, <2>2, QuietEcho
<1> QED
  BY <1>3, <1>4

\* A line of the console has a number of its own.
LEMMA InputEcho ==
  ASSUME LineInv, SocketInv, OrderInv, EchoInv, InputTake
  PROVE  EchoInv'
<1>1. /\ UNCHANGED <<dispatched, up, sent, present, mReadyState>>
      /\ \A c \in Client : Sound(c)
      /\ log' = log \/ log' = Append(log, Message("console", Len(taken')))
  BY DEF InputTake, clientVars, EchoInv
<1>2. Len(taken) \in Nat /\ Len(taken') = Len(taken) + 1
  <2>1. taken \in Seq(Line) /\ copied \in Line
    BY ScriptIsSeq, Element DEF LineInv, InputTake
  <2>2. taken' = Append(taken, copied)
    BY DEF InputTake, TakeLine
  <2> QED
    BY <2>1, <2>2
<1>3. PICK m \in Talk : /\ m = Message("console", Len(taken'))
                       /\ m.from = "console" /\ m.n = Len(taken) + 1
  <2> DEFINE x == Message("console", Len(taken'))
  <2>1. x \in Talk /\ x.from = "console" /\ x.n = Len(taken) + 1
    BY <1>2 DEF Message, Talk
  <2> HIDE DEF x
  <2>2. \E m \in Talk : m = x /\ m.from = "console" /\ m.n = Len(taken) + 1
    BY <2>1
  <2> QED
    BY <2>2 DEF x
<1>4. \A c \in Client : Sound(c)'
  BY <1>1, SoundStays
<1>5. \A x \in Talk : Known(x) => Known(x)'
  BY <1>1, <1>2 DEF Known, Talk
<1>6. /\ log \in Seq(Talk) /\ \A i \in 1 .. Len(log) : log[i] \in Talk /\ Known(log[i])
  BY Element DEF OrderInv, MessageTypes, EchoInv
<1>7. dispatched' \in [Client -> Nat]
  BY <1>1 DEF EchoInv
<1>8. CASE log' = log
  <2>1. \A i \in 1 .. Len(log) : Known(log[i])'
    BY <1>5, <1>6, <1>8 DEF Known
  <2>2. DroppedOnlyIfSuperseded'
    BY <1>1, <1>8 DEF EchoInv, DroppedOnlyIfSuperseded
  <2> QED
    BY <1>4, <1>7, <1>8, <2>1, <2>2 DEF EchoInv
<1>9. CASE log' = Append(log, m)
  <2>1. \A i \in 1 .. Len(log) : log'[i] = log[i]
    BY <1>3, <1>6, <1>9, Appended
  <2>2. ASSUME NEW i \in 1 .. Len(log)
        PROVE  Known(log[i])' /\ (log[i].from = m.from => log[i].n < m.n)
    <3>1. PICK x \in Talk : x = log[i] /\ x = log'[i] /\ Known(x) /\ Known(x)'
      BY <1>5, <1>6, <2>1
    <3>2. Known(log[i])'
      BY <3>1 DEF Known
    <3>3. x.from = m.from => x.n < m.n
      BY <1>2, <1>3, <3>1 DEF Known, Talk
    <3> QED
      BY <3>1, <3>2, <3>3
  <2>3. Known(m)'
    <3>1. \A c \in Client : m.from # c
      BY <1>3, ChatAssumption
    <3> QED
      BY <1>2, <1>3, <3>1 DEF Known
  <2>4. \A c \in Client : \A n \in 1 .. dispatched'[c] : n \in 1 .. dispatched[c]
    BY <1>1
  <2>5. (\A i \in 1 .. Len(log) : Known(log[i]))' /\ DroppedOnlyIfSuperseded'
    BY <1>3, <1>9, <2>2, <2>3, <2>4, LogGrows
  <2> QED
    BY <1>4, <1>7, <2>5 DEF EchoInv
<1> QED
  BY <1>1, <1>3, <1>8, <1>9

\* getMessage() returns the last message that is not too long: all that arrived
\* are dispatched, and the one that is sent on is behind those that are not.
LEMMA OpenEcho ==
  ASSUME SocketInv, OrderInv, EchoInv, NEW c \in Client, NEW k, PollOpen(c, k)
  PROVE  EchoInv'
<1>1. /\ UNCHANGED <<sent, present>> /\ taken' = taken /\ up' = Unread(c)
      /\ mReadyState[c] = "OPEN" /\ dispatched' = [dispatched EXCEPT ![c] = sent[c]]
      /\ mReadyState' = [mReadyState EXCEPT ![c] = IF Closes(c) THEN "CLOSING" ELSE @]
      /\ \/ NewMessage(c) = {} /\ log' = log
         \/ \E n \in NewMessage(c) : log' = Append(log, Message(c, n))
  BY DEF PollOpen, Polled, inputVars
<1>2. /\ up \in [Client -> Seq(Units)] /\ mReadyState \in [Client -> States]
      /\ sent \in [Client -> Nat] /\ dispatched \in [Client -> Nat]
      /\ \A b \in Client : Sound(b)
  BY DEF SocketInv, StreamTypes, EchoInv
<1>3. /\ dispatched[c] \in 0 .. sent[c] /\ TextsOf(up[c]) = dispatched[c] + 1 .. sent[c]
      /\ sent[c] \in Nat /\ dispatched[c] \in Nat
  BY <1>1, <1>2 DEF Sound, Closing, ClosingOrClosed
<1>4. /\ dispatched' \in [Client -> Nat] /\ dispatched'[c] = sent[c]
      /\ \A b \in Client : b # c => dispatched'[b] = dispatched[b]
      /\ \A b \in Client : dispatched[b] <= dispatched'[b]
  BY <1>1, <1>2, <1>3
<1>5. ASSUME NEW b \in Client PROVE Sound(b)'
  <2>1. CASE b = c
    <3>1. up'[c] = <<>> /\ sent'[c] = sent[c] /\ mReadyState'[c] \in {"OPEN", "CLOSING"}
      BY <1>1, <1>2 DEF Unread
    <3>2. TextsOf(<<>>) = {} /\ sent[c] + 1 .. sent[c] = {}
      BY <1>3 DEF TextsOf
    <3>3. TextsOf(up'[c]) = dispatched'[c] + 1 .. sent'[c]
      BY <1>4, <3>1, <3>2
    <3>4. dispatched'[c] \in 0 .. sent'[c] /\ mReadyState'[c] # "CONNECTING"
      BY <1>3, <1>4, <3>1
    <3>5. Sound(c)'
      BY <3>3, <3>4, Zenon DEF Sound, TextsOf
    <3> QED
      BY <2>1, <3>5
  <2>2. CASE b # c
    <3>1. up'[b] = up[b] /\ mReadyState'[b] = mReadyState[b]
      BY <1>1, <1>2, <2>2 DEF Unread
    <3> QED
      BY <1>1, <1>2, <1>4, <2>2, <3>1, SoundStays
  <2> QED
    BY <2>1, <2>2
<1>6. ASSUME NEW n \in 1 .. dispatched'[c], n \notin Long
      PROVE  n \in 1 .. dispatched[c] \/ (n \in Kept(c) /\ NewMessage(c) # {})
  <2>1. CASE n \in 1 .. dispatched[c]
    BY <2>1
  <2>2. CASE n \notin 1 .. dispatched[c]
    <3>1. n \in dispatched[c] + 1 .. sent[c]
      BY <1>3, <1>4, <2>2
    <3>2. n \in Kept(c)
      BY <1>3, <1>6, <3>1 DEF Kept, Texts, TextsOf
    <3>3. NewMessage(c) # {}
      BY <1>3, <1>6, <3>1, LastOfKept
    <3> QED
      BY <3>2, <3>3
  <2> QED
    BY <2>1, <2>2
<1>7. \A x \in Talk : Known(x) => Known(x)'
  BY <1>1, <1>2, <1>4 DEF Known, Talk
<1>8. /\ log \in Seq(Talk) /\ \A i \in 1 .. Len(log) : log[i] \in Talk /\ Known(log[i])
  BY Element DEF OrderInv, MessageTypes, EchoInv
<1>9. CASE NewMessage(c) = {} /\ log' = log
  <2>1. \A i \in 1 .. Len(log) : Known(log[i])'
    BY <1>7, <1>8, <1>9 DEF Known
  <2>2. \A b \in Client : \A n \in 1 .. dispatched'[b] : n \notin Long => n \in 1 .. dispatched[b]
    BY <1>4, <1>6, <1>9
  <2>3. DroppedOnlyIfSuperseded'
    BY <1>9, <2>2 DEF EchoInv, DroppedOnlyIfSuperseded
  <2> QED
    BY <1>4, <1>5, <1>9, <2>1, <2>3 DEF EchoInv
<1>10. ASSUME NEW l \in NewMessage(c), log' = Append(log, Message(c, l)) PROVE EchoInv'
  <2>1. l \in Kept(c) /\ (\A j \in Kept(c) : l >= j) /\ l \in dispatched[c] + 1 .. sent[c]
    BY <1>3, <1>10 DEF NewMessage, Kept, Texts, TextsOf
  <2>2. PICK m \in Talk : m = Message(c, l) /\ m.from = c /\ m.n = l
    <3>1. Message(c, l) \in Talk /\ Message(c, l).from = c /\ Message(c, l).n = l
      BY <1>3, <2>1 DEF Message, Talk
    <3> QED
      BY <3>1
  <2>3. \A i \in 1 .. Len(log) : log'[i] = log[i]
    BY <1>8, <1>10, <2>2, Appended
  <2>4. ASSUME NEW i \in 1 .. Len(log)
        PROVE  Known(log[i])' /\ (log[i].from = m.from => log[i].n < m.n)
    <3>1. PICK x \in Talk : x = log[i] /\ x = log'[i] /\ Known(x) /\ Known(x)'
      BY <1>7, <1>8, <2>3
    <3>2. Known(log[i])'
      BY <3>1 DEF Known
    <3>3. x.from = m.from => x.n <= dispatched[c] /\ x.n \in Nat
      BY <2>2, <3>1 DEF Known, Talk
    <3> QED
      BY <1>3, <2>1, <2>2, <3>1, <3>2, <3>3
  <2>5. Known(m)'
    <3>1. m.from # "console"
      BY <2>2, ChatAssumption
    <3>2. m.n <= dispatched'[c]
      BY <1>3, <1>4, <2>1, <2>2
    <3> QED
      BY <2>2, <3>1, <3>2 DEF Known
  <2>6. ASSUME NEW b \in Client, NEW n \in 1 .. dispatched'[b], n \notin Long
        PROVE  n \in 1 .. dispatched[b] \/ (m.from = b /\ m.n >= n)
    BY <1>4, <1>6, <2>1, <2>2, <2>6
  <2>7. (\A i \in 1 .. Len(log) : Known(log[i]))' /\ DroppedOnlyIfSuperseded'
    BY <1>10, <2>2, <2>4, <2>5, <2>6, LogGrows
  <2> QED
    BY <1>4, <1>5, <2>7 DEF EchoInv
<1> QED
  BY <1>1, <1>9, <1>10

\* Every step keeps it.
LEMMA NextEchoInv ==
  ASSUME LineInv, SocketInv, OrderInv, EchoInv, [Next]_vars
  PROVE  EchoInv'
<1> USE DEF clientVars
<1> DEFINE Quiet == /\ UNCHANGED <<log, dispatched, up, sent, present, mReadyState>>
                    /\ taken' = taken
<1>0. ASSUME Quiet PROVE EchoInv'
  <2>1. \A c \in Client : Sound(c)'
    BY <1>0, SoundStays DEF EchoInv
  <2> QED
    BY <1>0, <2>1, QuietEcho
<1>1. CASE UNCHANGED vars
  BY <1>0, <1>1 DEF vars, inputVars
<1>2. ASSUME NEW c \in Client, Connect(c) \/ Send(c) \/ SendClose(c) \/ Leave(c)
      PROVE  EchoInv'
  BY <1>2, ClientEcho
<1>3. CASE Type \/ ConsoleStep
  BY <1>0, <1>3 DEF Type, Fgets, ConsoleStep, CheckFlag
<1>4. CASE ServerStep
  <2>1. CASE Accept \/ AcceptNone \/ Drop \/ Ended
    BY <1>0, <2>1 DEF Accept, AcceptNone, Drop, Ended, inputVars
  <2>2. CASE InputNone \/ InputCopy \/ Exit
    BY <1>0, <2>2 DEF InputNone, NoLine, InputCopy, CopyLine, Exit, ReleaseInput, inputVars
  <2>3. ASSUME NEW c \in Client, PollClient(c) PROVE EchoInv'
    BY <2>3, PollEcho, OpenEcho DEF PollClient
  <2>4. ASSUME NEW c \in Client, DeleteClient(c) PROVE EchoInv'
    BY <2>4, PollEcho DEF DeleteClient
  <2> QED
    BY <1>4, <2>1, <2>2, <2>3, <2>4, InputEcho DEF ServerStep
<1>5. ASSUME NEW c \in Client, DeleteSlow(c) PROVE EchoInv'
  BY <1>5, PollEcho DEF DeleteSlow
<1>6. CASE Finished
  BY <1>0, <1>6 DEF Finished, vars, inputVars
<1> QED
  BY <1>1, <1>2, <1>3, <1>4, <1>5, <1>6 DEF Next

-----------------------------------------------------------------------------
(* The invariant of the server, and what follows from it.                  *)

IInv == LineInv /\ SocketInv /\ OrderInv /\ EchoInv

\* A server that has just started.
LEMMA InitIInv ==
  ASSUME Init
  PROVE  IInv
<1>1. /\ up = [c \in Client |-> <<>>] /\ sent = [c \in Client |-> 0] /\ present = {}
      /\ mReadyState = [c \in Client |-> "CONNECTING"] /\ backlog = <<>> /\ log = <<>>
      /\ mSocket = [c \in Client |-> 0] /\ mClients = <<>> /\ at = 1
      /\ out = [c \in Client |-> <<>>] /\ down = [c \in Client |-> <<>>]
      /\ joined = [c \in Client |-> 0] /\ dispatched = [c \in Client |-> 0]
  BY DEF Init
<1>2. /\ <<>> \in Seq(Frames) /\ <<>> \in Seq(Talk) /\ <<>> \in Seq(Client) /\ Len(<<>>) = 0
      /\ <<>> \o <<>> = <<>> /\ SubSeq(<<>>, 1, 0) = <<>>
  OBVIOUS
<1>3. MessageTypes /\ Newcomers /\ Held
  BY <1>1, <1>2 DEF MessageTypes, Newcomers, Held
<1>4. ASSUME NEW c \in Client PROVE Ordered(c) /\ UpToDate(c)
  <2>1. Given(c) = <<>> /\ Since(c) = <<>>
    BY <1>1, <1>2 DEF Given, Since
  <2> QED
    BY <1>2, <2>1 DEF Ordered, OrderedIn, UpToDate
<1>5. OrderInv
  BY <1>3, <1>4 DEF OrderInv
<1>6. ASSUME NEW c \in Client PROVE Sound(c)
  <2>1. TextsOf(<<>>) = {} /\ 0 + 1 .. 0 = {}
    BY DEF TextsOf
  <2> QED
    BY <1>1, <2>1 DEF Sound
<1>7. DroppedOnlyIfSuperseded
  BY <1>1, <1>2 DEF DroppedOnlyIfSuperseded
<1>8. EchoInv
  BY <1>1, <1>2, <1>6, <1>7 DEF EchoInv
<1> QED
  BY <1>5, <1>8, InitLineInv, InitSocketInv DEF IInv

\* The server's invariant, in every state.
THEOREM Inductive == Spec => []IInv
<1>1. IInv /\ [Next]_vars => IInv'
  BY NextLineInv, NextSocketInv, NextOrderInv, NextEchoInv DEF IInv
<1> QED
  BY <1>1, InitIInv, PTL DEF Spec

\* getInputLine() returns the lines of the console as they were typed, each of
\* them once, whole and in order (InputLine.cpp:23-39, 53-71).
THEOREM LinesCorrect == Spec => []LinesInOrder
<1>1. LineInv => LinesInOrder
  <2> SUFFICES ASSUME LineInv PROVE LinesInOrder
    OBVIOUS
  <2>1. Len(taken) \in Nat /\ Len(taken) <= typed /\ typed <= Len(Script)
    BY DEF LineInv
  <2>2. taken = SubSeq(Script, 1, Len(taken))
    <3>1. Len(taken) <= Len(Script)
      BY <2>1, ScriptIsSeq DEF LineInv
    <3> QED
      BY <3>1, ScriptIsSeq, Prefix, Zenon DEF LineInv
  <2> QED
    BY <2>1, <2>2 DEF LinesInOrder
<1> QED
  BY <1>1, Inductive, PTL DEF IInv

\* A connection whose socket is open has the descriptor for itself, however
\* often the number was given out before, and no descriptor stays behind when
\* its connection is deleted (wsocket.cpp:210-217, TestServer.cpp:159-176).
THEOREM DescriptorsCorrect == Spec => []OwnDescriptor
<1>1. IInv => OwnDescriptor
  <2> SUFFICES ASSUME IInv PROVE OwnDescriptor
    OBVIOUS
  <2>1. SocketIsOwn /\ owner \in [Descriptor -> Client \cup {"none"}]
    BY DEF IInv, SocketInv, SocketTypes
  <2>2. ASSUME NEW d \in Descriptor, owner[d] # "none"
        PROVE  owner[d] \in ToSet(mClients) \/ pc = "ended"
    <3>1. owner[d] \in Client /\ mSocket[owner[d]] = d /\ d # 0
      BY <2>1, <2>2, Descriptors DEF SocketIsOwn
    <3> QED
      BY <3>1 DEF IInv, OrderInv, Held, Member
  <2> QED
    BY <2>1, <2>2 DEF OwnDescriptor
<1> QED
  BY <1>1, Inductive, PTL

\* All clients see one order of messages, without gaps from the time they were
\* added, also those that are polled before the sender or whose handshake goes
\* on; one that closes sees the beginning of it (TestServer.cpp:151-154, 182-193).
THEOREM OneOrderForAll == Spec => []SameOrderForAll
<1>1. ASSUME IInv, NEW c \in Client
      PROVE  LET since == Since(c)
             IN  /\ Member(c) /\ ~Closing(c) => Stream(c) = since
                 /\ Stream(c) = SubSeq(since, 1, Len(Stream(c)))
  <2> DEFINE g == Given(c)
             s == Since(c)
             w == Without(g, {CloseFrame})
  <2>1. s \in Seq(Talk) /\ g \in Seq(Frames) /\ Stream(c) = w
    BY <1>1, GivenTypes DEF IInv, OrderInv, Stream, Given
  <2>2. PICK n \in 0 .. Len(s) :
          g = SubSeq(s, 1, n) \/ g = Append(SubSeq(s, 1, n), CloseFrame)
    BY <1>1 DEF IInv, OrderInv, Ordered, OrderedIn
  <2>3. Member(c) /\ ~Closing(c) => g = s
    BY <1>1 DEF IInv, OrderInv, UpToDate
  <2> DEFINE p == SubSeq(s, 1, n)
  <2> HIDE DEF g, s
  <2>4. p \in Seq(Talk) /\ Len(p) = n /\ \A i \in 1 .. n : p[i] \in Talk
    BY <2>1, <2>2
  <2>5. \A i \in 1 .. n : p[i] # CloseFrame
    BY <2>4, CloseIsNoTalk
  <2>6. w = p
    <3>1. CASE g = p
      <4> HIDE DEF p
      <4>1. n \in 0 .. Len(g) /\ Len(g) = n /\ SubSeq(g, 1, n) = g
        BY <2>1, <2>2, <2>4, <3>1
      <4> QED
        BY <2>1, <2>5, <3>1, <4>1, WithoutPrefix
    <3>2. CASE g = Append(p, CloseFrame)
      <4> HIDE DEF p
      <4>1. p \in Seq(Frames) /\ CloseFrame \in Frames
        BY <2>4 DEF Frames
      <4>2. /\ n \in 0 .. Len(g) /\ Len(g) = n + 1 /\ g[n + 1] = CloseFrame
            /\ \A i \in 1 .. n : g[i] = p[i]
            /\ SubSeq(g, 1, n) = p
        BY <2>2, <2>4, <3>2, <4>1
      <4> QED
        BY <2>1, <2>5, <4>2, WithoutPrefix
    <3> QED
      BY <2>2, <3>1, <3>2
  <2>7. Member(c) /\ ~Closing(c) => w = s
    <3>1. ASSUME g = s PROVE n = Len(s)
      <4>1. g # Append(p, CloseFrame)
        <5> HIDE DEF p
        <5>1. ASSUME g = Append(p, CloseFrame) PROVE FALSE
          <6>1. n + 1 \in 1 .. Len(s) /\ s[n + 1] = CloseFrame
            BY <2>1, <2>2, <2>4, <3>1, <5>1
          <6>2. s[n + 1] \in Talk
            BY <2>1, <6>1
          <6> QED
            BY <6>1, <6>2, CloseIsNoTalk
        <5> QED
          BY <5>1
      <4> QED
        BY <2>1, <2>2, <2>4, <3>1, <4>1
    <3>2. Len(s) \in Nat /\ SubSeq(s, 1, Len(s)) = s
      BY <2>1
    <3> QED
      BY <2>3, <2>6, <3>1, <3>2
  <2> HIDE DEF w
  <2>8. w = SubSeq(s, 1, Len(w))
    BY <2>4, <2>6
  <2> QED
    BY <2>1, <2>7, <2>8 DEF s
<1>2. IInv => SameOrderForAll
  BY <1>1 DEF SameOrderForAll, Since, Member, Closing
<1> QED
  BY <1>2, Inductive, PTL

\* A message that was received is sent to everybody or followed by one that is,
\* unless it is too long, and none is repeated or overtaken (TestServer.cpp:35-70).
THEOREM EchoesCorrect == Spec => []DroppedOnlyIfSuperseded
<1>1. IInv => DroppedOnlyIfSuperseded
  BY DEF IInv, EchoInv
<1> QED
  BY <1>1, Inductive, PTL
=============================================================================
