-------------------------- MODULE RemotePeer_proofs --------------------------
(***************************************************************************)
(* Proofs about a client of this code and a server that is not, for every  *)
(* such server: however it fragments its messages and splits the stream,   *)
(* what the client reassembles and which pings its pongs answer.           *)
(***************************************************************************)
EXTENDS RemotePeer, SequenceTheorems, TLAPS

-----------------------------------------------------------------------------
(* A sequence that is the concatenation of others.                         *)

\* s is made of the members of fs one after the other: member k begins behind
\* place pos[k - 1] and ends at place pos[k].
LaidAt(s, fs, pos) ==
  /\ pos \in [0 .. Len(fs) -> Nat] /\ pos[0] = 0 /\ pos[Len(fs)] = Len(s)
  /\ \A k \in 1 .. Len(fs) :
       /\ pos[k] = pos[k - 1] + Len(fs[k])
       /\ \A i \in 1 .. Len(fs[k]) : s[pos[k - 1] + i] = fs[k][i]
  /\ \A j, k \in 0 .. Len(fs) : j <= k => pos[j] <= pos[k]

Laid(s, fs) == \E pos \in [0 .. Len(fs) -> Nat] : LaidAt(s, fs, pos)

\* What the elements of a concatenation are.
LEMMA ConcatFacts ==
  ASSUME NEW U, NEW s \in Seq(U), NEW t \in Seq(U)
  PROVE  /\ s \o t \in Seq(U) /\ Len(s \o t) = Len(s) + Len(t)
         /\ \A i \in 1 .. Len(s) : (s \o t)[i] = s[i]
         /\ \A i \in 1 .. Len(t) : (s \o t)[Len(s) + i] = t[i]
OBVIOUS

\* What the elements of the rest of a sequence are.
LEMMA RestFacts ==
  ASSUME NEW U, NEW s \in Seq(U), NEW n \in 0 .. Len(s)
  PROVE  /\ SubSeq(s, n + 1, Len(s)) \in Seq(U)
         /\ Len(SubSeq(s, n + 1, Len(s))) = Len(s) - n
         /\ \A i \in 1 .. Len(s) - n : SubSeq(s, n + 1, Len(s))[i] = s[n + i]
OBVIOUS

\* The same for what follows the first element.
LEMMA TailFacts ==
  ASSUME NEW U, NEW s \in Seq(U), Len(s) >= 1
  PROVE  /\ Tail(s) \in Seq(U) /\ Len(Tail(s)) = Len(s) - 1
         /\ \A i \in 1 .. Len(s) - 1 : Tail(s)[i] = s[i + 1]
OBVIOUS

\* Sequences with the same elements are the same.
LEMMA SameSeq ==
  ASSUME NEW U, NEW s \in Seq(U), NEW t \in Seq(U), Len(s) = Len(t),
         \A i \in 1 .. Len(s) : s[i] = t[i]
  PROVE  s = t
BY SeqEqual

\* Nothing is made of nothing.
LEMMA LaidEmpty == Laid(<<>>, <<>>)
<1> DEFINE pos == [k \in 0 .. 0 |-> 0]
<1>1. Len(<<>>) = 0 /\ pos \in [0 .. 0 -> Nat] /\ pos[0] = 0
  OBVIOUS
<1> HIDE DEF pos
<1>2. LaidAt(<<>>, <<>>, pos)
  BY <1>1 DEF LaidAt
<1> QED
  BY <1>1, <1>2 DEF Laid

\* One more member is put behind the others.
LEMMA LaidAppend ==
  ASSUME NEW U, NEW s \in Seq(U), NEW fs \in Seq(Seq(U)), NEW f \in Seq(U), Laid(s, fs)
  PROVE  Laid(s \o f, Append(fs, f))
<1>1. PICK pos \in [0 .. Len(fs) -> Nat] : LaidAt(s, fs, pos)
  BY DEF Laid
<1>2. PICK n \in Nat, l \in Nat, m \in Nat : n = Len(fs) /\ l = Len(s) /\ m = Len(f)
  OBVIOUS
<1> DEFINE t == s \o f
           gs == Append(fs, f)
           new == [k \in 0 .. n + 1 |-> IF k <= n THEN pos[k] ELSE l + m]
<1>3. /\ Len(t) = l + m /\ (\A i \in 1 .. l : t[i] = s[i]) /\ \A i \in 1 .. m : t[l + i] = f[i]
  BY <1>2, ConcatFacts
<1>4. Len(gs) = n + 1 /\ gs[n + 1] = f /\ \A k \in 1 .. n : gs[k] = fs[k]
  BY <1>2
<1>5. /\ pos \in [0 .. n -> Nat] /\ pos[0] = 0 /\ pos[n] = l
      /\ \A k \in 1 .. n : /\ pos[k] = pos[k - 1] + Len(fs[k])
                           /\ \A i \in 1 .. Len(fs[k]) : s[pos[k - 1] + i] = fs[k][i]
      /\ \A j, k \in 0 .. n : j <= k => pos[j] <= pos[k]
  BY <1>1, <1>2 DEF LaidAt
<1>6. /\ new \in [0 .. n + 1 -> Nat] /\ new[n + 1] = l + m
      /\ \A k \in 0 .. n : new[k] = pos[k]
  BY <1>5
<1>a. \A k \in 1 .. n : fs[k] \in Seq(U)
  BY <1>2
<1> HIDE DEF t, gs, new
<1>7. ASSUME NEW k \in 1 .. n + 1
      PROVE  /\ new[k] = new[k - 1] + Len(gs[k])
             /\ \A i \in 1 .. Len(gs[k]) : t[new[k - 1] + i] = gs[k][i]
  <2>1. CASE k = n + 1
    <3>1. new[k - 1] = l /\ gs[k] = f /\ new[k] = l + m
      BY <1>4, <1>5, <1>6, <2>1
    <3> QED
      BY <1>2, <1>3, <3>1
  <2>2. CASE k <= n
    <3>1. k \in 1 .. n /\ k - 1 \in 0 .. n /\ k \in 0 .. n
      BY <2>2
    <3>2. gs[k] = fs[k] /\ new[k] = pos[k] /\ new[k - 1] = pos[k - 1]
      BY <1>4, <1>6, <3>1
    <3>a. pos[k - 1] \in Nat /\ fs[k] \in Seq(U)
      BY <1>5, <1>a, <3>1
    <3>b. Len(fs[k]) \in Nat
      BY <3>a
    <3>3. PICK p \in Nat, b \in Nat : p = pos[k - 1] /\ b = Len(fs[k])
      BY <3>a, <3>b
    <3>4. p + b <= l
      <4>1. pos[k] <= pos[n] /\ pos[k] = p + b
        BY <1>5, <3>1, <3>3, SMTT(30)
      <4> QED
        BY <1>5, <4>1
    <3>5. \A i \in 1 .. b : t[p + i] = s[p + i]
      BY <1>3, <3>4
    <3> QED
      BY <1>5, <3>1, <3>2, <3>3, <3>5
  <2> QED
    BY <2>1, <2>2
<1>8. ASSUME NEW j \in 0 .. n + 1, NEW k \in 0 .. n + 1, j <= k
      PROVE  new[j] <= new[k]
  <2>1. CASE k <= n
    <3>1. j \in 0 .. n /\ k \in 0 .. n
      BY <1>8, <2>1
    <3>2. pos[j] <= pos[k]
      BY <1>5, <1>8, <3>1
    <3> QED
      BY <1>6, <3>1, <3>2
  <2>2. CASE k = n + 1 /\ j <= n
    <3>1. pos[j] <= pos[n] /\ new[j] = pos[j] /\ pos[j] \in Nat
      BY <1>5, <1>6, <2>2
    <3> QED
      BY <1>5, <1>6, <2>2, <3>1
  <2>3. CASE k = n + 1 /\ j = n + 1
    BY <1>6, <2>3
  <2> QED
    BY <1>8, <2>1, <2>2, <2>3
<1>9. LaidAt(t, gs, new)
  <2>1. new \in [0 .. Len(gs) -> Nat] /\ new[0] = 0 /\ new[Len(gs)] = Len(t)
    BY <1>3, <1>4, <1>5, <1>6
  <2> QED
    BY <1>4, <1>7, <1>8, <2>1 DEF LaidAt
<1> QED
  BY <1>4, <1>6, <1>9 DEF Laid, t, gs

\* What is not empty has a first member; it is at the front, and the others
\* make up the rest.
LEMMA LaidFirst ==
  ASSUME NEW U, NEW s \in Seq(U), NEW fs \in Seq(Seq(U)), Laid(s, fs), Len(fs) >= 1
  PROVE  /\ Len(fs[1]) <= Len(s) /\ \A i \in 1 .. Len(fs[1]) : s[i] = fs[1][i]
         /\ Laid(SubSeq(s, Len(fs[1]) + 1, Len(s)), Tail(fs))
<1>1. PICK pos \in [0 .. Len(fs) -> Nat] : LaidAt(s, fs, pos)
  BY DEF Laid
<1>0. \A k \in 1 .. Len(fs) : fs[k] \in Seq(U)
  OBVIOUS
<1>2. PICK n \in Nat, l \in Nat, m \in Nat : n = Len(fs) /\ l = Len(s) /\ m = Len(fs[1]) /\ n >= 1
  BY <1>0
<1>5. /\ pos \in [0 .. n -> Nat] /\ pos[0] = 0 /\ pos[n] = l
      /\ \A k \in 1 .. n : /\ pos[k] = pos[k - 1] + Len(fs[k])
                           /\ \A i \in 1 .. Len(fs[k]) : s[pos[k - 1] + i] = fs[k][i]
      /\ \A j, k \in 0 .. n : j <= k => pos[j] <= pos[k]
  BY <1>1, <1>2 DEF LaidAt
<1>6. pos[1] = m /\ (\A i \in 1 .. m : s[i] = fs[1][i]) /\ m <= l
  <2>1. 1 \in 1 .. n /\ 1 - 1 = 0 /\ 1 \in 0 .. n /\ n \in 0 .. n
    BY <1>2
  <2>a. pos[1] = pos[1 - 1] + Len(fs[1]) /\ \A i \in 1 .. Len(fs[1]) : s[pos[1 - 1] + i] = fs[1][i]
    BY <1>5, <2>1
  <2>2. pos[1] = 0 + m /\ \A i \in 1 .. m : s[0 + i] = fs[1][i]
    BY <1>2, <1>5, <2>1, <2>a
  <2>3. pos[1] <= pos[n]
    BY <1>2, <1>5, <2>1
  <2> QED
    BY <1>5, <2>2, <2>3
<1> DEFINE t == SubSeq(s, m + 1, l)
           gs == Tail(fs)
           new == [k \in 0 .. n - 1 |-> pos[k + 1] - m]
<1>3. Len(t) = l - m /\ \A i \in 1 .. l - m : t[i] = s[m + i]
  <2>1. m \in 0 .. Len(s) /\ l = Len(s)
    BY <1>2, <1>6
  <2> QED
    BY <2>1, RestFacts
<1>4. Len(gs) = n - 1 /\ \A k \in 1 .. n - 1 : gs[k] = fs[k + 1]
  BY <1>2
<1>7. \A k \in 0 .. n - 1 : new[k] = pos[k + 1] - m /\ new[k] \in Nat
  <2> TAKE k \in 0 .. n - 1
  <2>1. k + 1 \in 0 .. n /\ 1 \in 0 .. n /\ 1 <= k + 1
    BY <1>2
  <2>2. pos[1] <= pos[k + 1] /\ pos[k + 1] \in Nat
    BY <1>5, <2>1
  <2> QED
    BY <1>6, <2>2
<1>8. new \in [0 .. n - 1 -> Nat]
  BY <1>7
<1> HIDE DEF t, gs, new
<1>9. ASSUME NEW k \in 1 .. n - 1
      PROVE  /\ new[k] = new[k - 1] + Len(gs[k])
             /\ \A i \in 1 .. Len(gs[k]) : t[new[k - 1] + i] = gs[k][i]
  <2>1. k + 1 \in 1 .. n /\ k + 1 \in 0 .. n /\ k \in 0 .. n - 1 /\ k - 1 \in 0 .. n - 1
        /\ (k - 1) + 1 = k /\ (k + 1) - 1 = k /\ n \in 0 .. n /\ k + 1 <= n /\ k \in 0 .. n
    BY <1>2
  <2>a. fs[k + 1] \in Seq(U) /\ pos[k] \in Nat
    BY <1>0, <1>2, <1>5, <2>1
  <2>2. PICK p \in Nat, b \in Nat : p = pos[k] /\ b = Len(fs[k + 1])
    BY <2>a
  <2>3. /\ pos[k + 1] = p + b /\ (\A i \in 1 .. b : s[p + i] = fs[k + 1][i])
        /\ pos[k + 1] <= l
    BY <1>5, <2>1, <2>2
  <2>4. new[k] = (p + b) - m /\ new[k - 1] = p - m /\ p - m \in Nat
    BY <1>7, <2>1, <2>2, <2>3
  <2>5. gs[k] = fs[k + 1]
    BY <1>4
  <2>6. ASSUME NEW i \in 1 .. b PROVE t[(p - m) + i] = s[p + i]
    <3>1. (p - m) + i \in 1 .. l - m /\ m + ((p - m) + i) = p + i
      BY <2>3, <2>4
    <3> QED
      BY <1>3, <3>1
  <2>7. new[k] = new[k - 1] + Len(gs[k])
    BY <2>2, <2>4, <2>5
  <2>8. \A i \in 1 .. Len(gs[k]) : t[new[k - 1] + i] = gs[k][i]
    BY <2>2, <2>3, <2>4, <2>5, <2>6
  <2> QED
    BY <2>7, <2>8
<1>10. ASSUME NEW j \in 0 .. n - 1, NEW k \in 0 .. n - 1, j <= k
       PROVE  new[j] <= new[k]
  <2>1. j + 1 \in 0 .. n /\ k + 1 \in 0 .. n /\ j + 1 <= k + 1
    BY <1>2, <1>10
  <2>2. pos[j + 1] <= pos[k + 1] /\ pos[j + 1] \in Nat /\ pos[k + 1] \in Nat
    BY <1>5, <2>1
  <2> QED
    BY <1>7, <2>2
<1>11. LaidAt(t, gs, new)
  <2>1. new[0] = 0 /\ new[n - 1] = l - m
    <3>1. 0 \in 0 .. n - 1 /\ n - 1 \in 0 .. n - 1 /\ 0 + 1 = 1 /\ (n - 1) + 1 = n
      BY <1>2
    <3>2. new[0] = pos[1] - m /\ new[n - 1] = pos[n] - m
      BY <1>7, <3>1
    <3> QED
      BY <1>5, <1>6, <3>2
  <2> QED
    BY <1>3, <1>4, <1>8, <1>9, <1>10, <2>1 DEF LaidAt
<1>12. Laid(t, gs)
  BY <1>4, <1>8, <1>11 DEF Laid
<1> QED
  BY <1>2, <1>6, <1>12 DEF t, gs

\* What has no members is empty.
LEMMA LaidNone ==
  ASSUME NEW U, NEW s \in Seq(U), NEW fs \in Seq(Seq(U)), Laid(s, fs), s # <<>>
  PROVE  Len(fs) >= 1
<1>1. PICK pos \in [0 .. Len(fs) -> Nat] : LaidAt(s, fs, pos)
  BY DEF Laid
<1>2. Len(s) # 0 /\ Len(fs) \in Nat
  OBVIOUS
<1> QED
  BY <1>1, <1>2 DEF LaidAt

-----------------------------------------------------------------------------
(* Units, and the items that streams are made of: lines and frames.        *)

MessageOps == {"TEXT", "BINARY", "CONTINUATION"}
Op == MessageOps \cup {"PING", "PONG", "CLOSE"}

\* The client's own lines are named: no backend knows what is in STRING.
Text ==
  STRING \cup {"GET /", "Host", "Upgrade", "Connection", "Sec-WebSocket-Key",
               "Sec-WebSocket-Version", EmptyLine}

LineUnit == [kind : {"line"}, text : Text]
HeadUnit == [kind : {"head"}, op : Op, fin : BOOLEAN, len : Nat]
DataUnit == [kind : {"data"}, msg : Int, part : Nat]
Unit == LineUnit \cup HeadUnit \cup DataUnit

Item(f) ==
  /\ f \in Seq(Unit) /\ Len(f) >= 1 /\ f[1].kind \in {"line", "head"}
  /\ Len(f) = IF f[1].kind = "head" THEN 1 + f[1].len ELSE 1

Carrying(f) == f[1].kind = "head" /\ f[1].op \in MessageOps
Pinging(f) == f[1].kind = "head" /\ f[1].op = "PING"
Ponging(f) == f[1].kind = "head" /\ f[1].op = "PONG"

\* What follows the header.
Carried(f) == SubSeq(f, 2, Len(f))

-----------------------------------------------------------------------------
(* What the server has sent.                                               *)

Messages == [text : BOOLEAN, body : Seq(Unit)]

Remotes ==
  [answered : BOOLEAN, short : BOOLEAN, frames : Nat, open : Seq(Messages), sent : Seq(Messages),
   pings : Seq(Seq(Unit)), pongs : Seq(Seq(Unit))]

\* The payload of message n so far.
BodyIn(R, n) ==
  IF n <= Len(R.sent) THEN R.sent[n].body
  ELSE IF R.open # <<>> THEN R.open[1].body ELSE <<>>

\* A place between two items: n messages are complete before it, a pieces of
\* the next one and p pings have come.
Place == [n : Nat, a : Nat, p : Nat]

Within(R, x) ==
  x.n <= Len(R.sent) /\ x.a <= Len(BodyIn(R, x.n + 1)) /\ x.p <= Len(R.pings)

\* Where the server is.
End(R) ==
  [n |-> Len(R.sent), a |-> Len(BodyIn(R, Len(R.sent) + 1)), p |-> Len(R.pings)]

\* A frame of a message goes on where the last one ended, and is the last of
\* its message if the message is complete.
MessageStep(R, f, x, y) ==
  /\ y.p = x.p
  /\ x.a + f[1].len <= Len(BodyIn(R, x.n + 1))
  /\ \A i \in 1 .. f[1].len : f[1 + i] = BodyIn(R, x.n + 1)[x.a + i]
  /\ \/ /\ f[1].fin /\ y.n = x.n + 1 /\ y.a = 0
        /\ y.n <= Len(R.sent) /\ x.a + f[1].len = Len(BodyIn(R, x.n + 1))
     \/ ~f[1].fin /\ y.n = x.n /\ y.a = x.a + f[1].len

PingStep(R, f, x, y) ==
  /\ y.n = x.n /\ y.a = x.a /\ y.p = x.p + 1
  /\ y.p <= Len(R.pings) /\ Carried(f) = R.pings[y.p]

OtherStep(x, y) == y.n = x.n /\ y.a = x.a /\ y.p = x.p

\* Item f leads from one place to the next.
Leads(R, f, x, y) ==
  \/ Carrying(f) /\ MessageStep(R, f, x, y)
  \/ Pinging(f) /\ PingStep(R, f, x, y)
  \/ ~Carrying(f) /\ ~Pinging(f) /\ OtherStep(x, y)

\* From place x to the server's end the items fs make up s, lines only among
\* the first b of them.
Path(s, fs, q, x, R, b) ==
  /\ Laid(s, fs)
  /\ \A k \in 1 .. Len(fs) : Item(fs[k]) /\ (fs[k][1].kind = "line" => k <= b)
  /\ Len(q) = Len(fs) + 1
  /\ \A k \in 1 .. Len(fs) : Leads(R, fs[k], q[k], q[k + 1])
  /\ \A k \in 1 .. Len(fs) + 1 : Within(R, q[k])
  /\ q[1] = x /\ q[Len(fs) + 1] = End(R)

Way(s, x, R, b) ==
  \E fs \in Seq(Seq(Unit)), q \in Seq(Place) : Path(s, fs, q, x, R, b)

\* What is received and what is under way lead from x to the server's end;
\* after the client has hung up, with a rest that it will not get.
Down(received, under, gone, x, R, b) ==
  \E v \in Seq(Unit) : (~gone => v = under) /\ Way(received \o v, x, R, b)

\* S is R after the server has sent more.
Extends(R, S) ==
  /\ Len(R.sent) <= Len(S.sent) /\ Len(R.pings) <= Len(S.pings)
  /\ \A n \in 1 .. Len(R.sent) : BodyIn(S, n) = BodyIn(R, n)
  /\ LET last == Len(R.sent) + 1
     IN  /\ Len(BodyIn(R, last)) <= Len(BodyIn(S, last))
         /\ \A i \in 1 .. Len(BodyIn(R, last)) : BodyIn(S, last)[i] = BodyIn(R, last)[i]
  /\ \A k \in 1 .. Len(R.pings) : S.pings[k] = R.pings[k]

\* Where the server is, is a place.
LEMMA EndFacts ==
  ASSUME NEW R \in Remotes
  PROVE  /\ End(R) \in Place /\ Within(R, End(R))
         /\ \A n \in Nat \ {0} : n <= Len(R.sent) + 1 => BodyIn(R, n) \in Seq(Unit)
<1>1. ASSUME NEW n \in Nat \ {0}, n <= Len(R.sent) + 1 PROVE BodyIn(R, n) \in Seq(Unit)
  <2>1. R.sent \in Seq(Messages) /\ R.open \in Seq(Messages)
    BY DEF Remotes
  <2>2. CASE n <= Len(R.sent)
    <3>1. R.sent[n] \in Messages
      BY <2>1, <2>2
    <3> QED
      BY <2>2, <3>1 DEF BodyIn, Messages
  <2>3. CASE ~(n <= Len(R.sent)) /\ R.open # <<>>
    <3>1. R.open[1] \in Messages
      BY <2>1, <2>3
    <3> QED
      BY <2>3, <3>1 DEF BodyIn, Messages
  <2>4. CASE ~(n <= Len(R.sent)) /\ R.open = <<>>
    <3>1. BodyIn(R, n) = <<>>
      BY <2>4 DEF BodyIn
    <3> QED
      BY <3>1
  <2> QED
    BY <2>2, <2>3, <2>4
<1>2. Len(R.sent) \in Nat /\ Len(R.pings) \in Nat
  BY DEF Remotes
<1>3. BodyIn(R, Len(R.sent) + 1) \in Seq(Unit)
  BY <1>1, <1>2
<1>4. Len(BodyIn(R, Len(R.sent) + 1)) \in Nat
  BY <1>3
<1> QED
  BY <1>1, <1>2, <1>4 DEF End, Place, Within

\* What led from a place of the server to the next still does.
LEMMA LeadsMore ==
  ASSUME NEW R \in Remotes, NEW S \in Remotes, Extends(R, S), NEW f, Item(f),
         NEW x \in Place, NEW y \in Place, Within(R, x), Within(R, y), Leads(R, f, x, y)
  PROVE  Leads(S, f, x, y) /\ Within(S, y)
<1> DEFINE b == BodyIn(R, x.n + 1)
           c == BodyIn(S, x.n + 1)
<1>1. /\ Len(R.sent) \in Nat /\ Len(S.sent) \in Nat /\ Len(R.pings) \in Nat /\ Len(S.pings) \in Nat
      /\ x.n \in Nat /\ x.a \in Nat /\ y.n \in Nat /\ y.a \in Nat /\ y.p \in Nat
  BY DEF Remotes, Place
<1>2. ASSUME NEW n \in Nat, n <= Len(R.sent)
      PROVE  /\ BodyIn(R, n + 1) \in Seq(Unit) /\ BodyIn(S, n + 1) \in Seq(Unit)
             /\ Len(BodyIn(R, n + 1)) <= Len(BodyIn(S, n + 1))
             /\ \A i \in 1 .. Len(BodyIn(R, n + 1)) : BodyIn(S, n + 1)[i] = BodyIn(R, n + 1)[i]
             /\ n < Len(R.sent) => BodyIn(S, n + 1) = BodyIn(R, n + 1)
  <2>1. n + 1 \in Nat \ {0} /\ n + 1 <= Len(R.sent) + 1 /\ n + 1 <= Len(S.sent) + 1
    BY <1>1, <1>2 DEF Extends
  <2>2. BodyIn(R, n + 1) \in Seq(Unit) /\ BodyIn(S, n + 1) \in Seq(Unit)
    BY <2>1, EndFacts
  <2>3. CASE n < Len(R.sent)
    <3>1. n + 1 \in 1 .. Len(R.sent)
      BY <1>1, <2>3
    <3>2. BodyIn(S, n + 1) = BodyIn(R, n + 1)
      BY <3>1 DEF Extends
    <3> QED
      BY <2>2, <3>2
  <2>4. CASE n = Len(R.sent)
    BY <2>2, <2>4 DEF Extends
  <2> QED
    BY <1>1, <1>2, <2>3, <2>4
<1>3. /\ x.n <= Len(R.sent) /\ y.n <= Len(R.sent)
      /\ y.a <= Len(BodyIn(R, y.n + 1)) /\ y.p <= Len(R.pings)
  BY DEF Within
<1>4. Within(S, y)
  <2>1. Len(BodyIn(R, y.n + 1)) <= Len(BodyIn(S, y.n + 1)) /\ Len(BodyIn(R, y.n + 1)) \in Nat
        /\ Len(BodyIn(S, y.n + 1)) \in Nat
    BY <1>1, <1>2, <1>3, SMTT(30)
  <2>2. y.n <= Len(S.sent) /\ y.p <= Len(S.pings)
    BY <1>1, <1>3, SMTT(30) DEF Extends
  <2> QED
    BY <1>1, <1>3, <2>1, <2>2 DEF Within
<1>5. CASE Carrying(f) /\ MessageStep(R, f, x, y)
  <2>1. f[1].len \in Nat
    <3>1. f[1] \in Unit /\ f[1].kind = "head"
      BY <1>5 DEF Item, Carrying
    <3> QED
      BY <3>1 DEF Unit, LineUnit, HeadUnit, DataUnit
  <2>2. /\ b \in Seq(Unit) /\ c \in Seq(Unit) /\ Len(b) <= Len(c)
        /\ \A i \in 1 .. Len(b) : c[i] = b[i]
        /\ x.n < Len(R.sent) => c = b
    BY <1>1, <1>2, <1>3
  <2>3. /\ y.p = x.p /\ x.a + f[1].len <= Len(b)
        /\ \A i \in 1 .. f[1].len : f[1 + i] = b[x.a + i]
        /\ \/ /\ f[1].fin /\ y.n = x.n + 1 /\ y.a = 0
              /\ y.n <= Len(R.sent) /\ x.a + f[1].len = Len(b)
           \/ ~f[1].fin /\ y.n = x.n /\ y.a = x.a + f[1].len
    BY <1>5 DEF MessageStep
  <2> HIDE DEF b, c
  <2>4. PICK l \in Nat, a \in Nat, m \in Nat, k \in Nat :
          l = f[1].len /\ a = x.a /\ m = Len(b) /\ k = Len(c)
    BY <1>1, <2>1, <2>2
  <2>5. a + l <= m /\ m <= k
    BY <2>2, <2>3, <2>4
  <2>6. a + l <= k /\ \A i \in 1 .. l : a + i \in 1 .. m
    BY <2>5
  <2>7. \A i \in 1 .. l : f[1 + i] = c[a + i]
    BY <2>2, <2>3, <2>4, <2>6
  <2>8. \/ /\ f[1].fin /\ y.n = x.n + 1 /\ y.a = 0
           /\ y.n <= Len(S.sent) /\ x.a + f[1].len = Len(c)
        \/ ~f[1].fin /\ y.n = x.n /\ y.a = x.a + f[1].len
    <3>1. CASE ~f[1].fin
      BY <2>3, <3>1
    <3>2. CASE f[1].fin
      <4>1. y.n = x.n + 1 /\ y.a = 0 /\ y.n <= Len(R.sent) /\ a + l = m
        BY <2>3, <2>4, <3>2
      <4>2. x.n < Len(R.sent) /\ y.n <= Len(S.sent)
        BY <1>1, <4>1 DEF Extends
      <4> QED
        BY <2>2, <2>4, <3>2, <4>1, <4>2
    <3> QED
      BY <3>1, <3>2
  <2> QED
    BY <1>4, <1>5, <2>3, <2>4, <2>6, <2>7, <2>8 DEF MessageStep, Leads, c
<1>6. CASE Pinging(f) /\ PingStep(R, f, x, y)
  <2>1. y.p \in 1 .. Len(R.pings) /\ y.p <= Len(S.pings)
    BY <1>1, <1>6 DEF PingStep, Extends, Place
  <2>2. S.pings[y.p] = R.pings[y.p]
    BY <2>1 DEF Extends
  <2> QED
    BY <1>4, <1>6, <2>1, <2>2 DEF PingStep, Leads
<1>7. CASE ~Carrying(f) /\ ~Pinging(f) /\ OtherStep(x, y)
  BY <1>4, <1>7 DEF Leads
<1> QED
  BY <1>5, <1>6, <1>7 DEF Leads

\* A place of the server stays one.
LEMMA WithinMore ==
  ASSUME NEW R \in Remotes, NEW S \in Remotes, Extends(R, S), NEW x \in Place, Within(R, x)
  PROVE  Within(S, x)
<1> DEFINE f == CloseFrame
<1>1. Carrying(f) = FALSE /\ Pinging(f) = FALSE /\ Item(f)
  <2>1. f = <<Header("CLOSE", TRUE, 0)>>
    BY DEF CloseFrame, Frame, Header
  <2>2. f[1] \in HeadUnit /\ Len(f) = 1 /\ f[1].op = "CLOSE" /\ f[1].len = 0 /\ f[1].kind = "head"
    BY <2>1 DEF Header, HeadUnit, Op
  <2>3. f \in Seq(Unit)
    <3>1. Header("CLOSE", TRUE, 0) \in Unit
      BY DEF Header, HeadUnit, Op, Unit
    <3>2. \A h \in Unit : <<h>> \in Seq(Unit)
      OBVIOUS
    <3> QED
      BY <2>1, <3>1, <3>2
  <2> QED
    BY <2>2, <2>3 DEF Carrying, Pinging, Item, MessageOps
<1> HIDE DEF f
<1>2. Leads(R, f, x, x)
  BY <1>1 DEF Leads, OtherStep
<1> QED
  BY <1>1, <1>2, LeadsMore

\* What the server sends next goes on where it was.
LEMMA WayMore ==
  ASSUME NEW R \in Remotes, NEW S \in Remotes, Extends(R, S),
         NEW s \in Seq(Unit), NEW x \in Place, NEW b \in Nat, Way(s, x, R, b),
         NEW f, Item(f), f[1].kind # "line", Leads(S, f, End(R), End(S))
  PROVE  Way(s \o f, x, S, b)
<1>1. PICK fs \in Seq(Seq(Unit)), q \in Seq(Place) : Path(s, fs, q, x, R, b)
  BY DEF Way
<1>2. PICK n \in Nat : n = Len(fs) /\ Len(q) = n + 1
  BY <1>1 DEF Path
<1> DEFINE gs == Append(fs, f)
           r == Append(q, End(S))
<1>3. f \in Seq(Unit) /\ End(S) \in Place /\ Within(S, End(S))
  BY EndFacts DEF Item
<1>4. /\ gs \in Seq(Seq(Unit)) /\ Len(gs) = n + 1 /\ gs[n + 1] = f
      /\ \A k \in 1 .. n : gs[k] = fs[k]
  BY <1>2, <1>3
<1>5. /\ r \in Seq(Place) /\ Len(r) = n + 2 /\ r[n + 2] = End(S)
      /\ \A k \in 1 .. n + 1 : r[k] = q[k]
  BY <1>2, <1>3
<1>6. Laid(s \o f, gs)
  BY <1>1, <1>3, LaidAppend DEF Path
<1> HIDE DEF gs, r
<1>7. /\ \A k \in 1 .. n : Item(fs[k]) /\ (fs[k][1].kind = "line" => k <= b)
      /\ \A k \in 1 .. n : Leads(R, fs[k], q[k], q[k + 1])
      /\ \A k \in 1 .. n + 1 : Within(R, q[k])
      /\ q[1] = x /\ q[n + 1] = End(R)
  BY <1>1, <1>2 DEF Path
<1>8. \A k \in 1 .. n + 1 : q[k] \in Place
  BY <1>2
<1>9. \A k \in 1 .. n + 1 : Item(gs[k]) /\ (gs[k][1].kind = "line" => k <= b)
  <2> TAKE k \in 1 .. n + 1
  <2>1. CASE k = n + 1
    BY <1>4, <2>1
  <2>2. CASE k \in 1 .. n
    BY <1>4, <1>7, <2>2
  <2> QED
    BY <2>1, <2>2
<1>10. \A k \in 1 .. n + 1 : Leads(S, gs[k], r[k], r[k + 1])
  <2> TAKE k \in 1 .. n + 1
  <2>1. CASE k = n + 1
    <3>1. gs[k] = f /\ r[k] = End(R) /\ r[k + 1] = End(S)
      BY <1>4, <1>5, <1>7, <2>1
    <3> QED
      BY <3>1
  <2>2. CASE k \in 1 .. n
    <3>1. k \in 1 .. n + 1 /\ k + 1 \in 1 .. n + 1
      BY <2>2
    <3>2. gs[k] = fs[k] /\ r[k] = q[k] /\ r[k + 1] = q[k + 1]
      BY <1>4, <1>5, <2>2, <3>1
    <3>3. Item(fs[k]) /\ Leads(R, fs[k], q[k], q[k + 1]) /\ Within(R, q[k]) /\ Within(R, q[k + 1])
      BY <1>7, <2>2, <3>1
    <3>4. q[k] \in Place /\ q[k + 1] \in Place
      BY <1>8, <3>1
    <3> QED
      BY <3>2, <3>3, <3>4, LeadsMore
  <2> QED
    BY <2>1, <2>2
<1>11. \A k \in 1 .. n + 2 : Within(S, r[k])
  <2> TAKE k \in 1 .. n + 2
  <2>1. CASE k = n + 2
    BY <1>3, <1>5, <2>1
  <2>2. CASE k \in 1 .. n + 1
    BY <1>5, <1>7, <1>8, <2>2, WithinMore
  <2> QED
    BY <2>1, <2>2
<1>12. r[1] = x /\ r[n + 2] = End(S)
  <2>1. 1 \in 1 .. n + 1
    OBVIOUS
  <2> QED
    BY <1>5, <1>7, <2>1
<1>13. (n + 1) + 1 = n + 2
  BY <1>2
<1>14. Path(s \o f, gs, r, x, S, b)
  BY <1>4, <1>5, <1>6, <1>9, <1>10, <1>11, <1>12, <1>13 DEF Path
<1> QED
  BY <1>4, <1>5, <1>14 DEF Way

\* What is not empty begins with an item, and the rest leads on from behind it.
LEMMA WayFirst ==
  ASSUME NEW R \in Remotes, NEW s \in Seq(Unit), NEW x \in Place, NEW b \in Nat,
         Way(s, x, R, b), s # <<>>
  PROVE  \E f \in Seq(Unit), y \in Place :
           /\ Item(f) /\ Len(f) <= Len(s) /\ \A i \in 1 .. Len(f) : s[i] = f[i]
           /\ f[1].kind = "line" => 1 <= b
           /\ Leads(R, f, x, y) /\ Within(R, x) /\ Within(R, y)
           /\ Way(SubSeq(s, Len(f) + 1, Len(s)), y, R, IF b = 0 THEN 0 ELSE b - 1)
<1>1. PICK fs \in Seq(Seq(Unit)), q \in Seq(Place) : Path(s, fs, q, x, R, b)
  BY DEF Way
<1>2. PICK n \in Nat : n = Len(fs) /\ Len(q) = n + 1 /\ n >= 1
  BY <1>1, LaidNone DEF Path
<1> DEFINE c == IF b = 0 THEN 0 ELSE b - 1
           gs == Tail(fs)
           r == Tail(q)
           t == SubSeq(s, Len(fs[1]) + 1, Len(s))
<1>3. /\ Len(fs[1]) <= Len(s) /\ \A i \in 1 .. Len(fs[1]) : s[i] = fs[1][i]
      /\ Laid(t, gs)
  BY <1>1, <1>2, LaidFirst DEF Path
<1>4. gs \in Seq(Seq(Unit)) /\ Len(gs) = n - 1 /\ \A k \in 1 .. n - 1 : gs[k] = fs[k + 1]
  BY <1>2
<1>5. r \in Seq(Place) /\ Len(r) = n /\ \A k \in 1 .. n : r[k] = q[k + 1]
  BY <1>2
<1> HIDE DEF gs, r, t
<1>7. /\ \A k \in 1 .. n : Item(fs[k]) /\ (fs[k][1].kind = "line" => k <= b)
      /\ \A k \in 1 .. n : Leads(R, fs[k], q[k], q[k + 1])
      /\ \A k \in 1 .. n + 1 : Within(R, q[k])
      /\ q[1] = x /\ q[n + 1] = End(R)
  BY <1>1, <1>2 DEF Path
<1>8. 1 \in 1 .. n /\ 1 + 1 = 2 /\ 2 \in 1 .. n + 1 /\ 1 \in 1 .. n + 1
  BY <1>2
<1>9. /\ Item(fs[1]) /\ (fs[1][1].kind = "line" => 1 <= b)
      /\ Leads(R, fs[1], x, q[2]) /\ Within(R, x) /\ Within(R, q[2])
  BY <1>7, <1>8
<1>10. q[2] \in Place /\ fs[1] \in Seq(Unit)
  BY <1>2, <1>8
<1>11. c \in Nat /\ \A k \in 1 .. n - 1 : k + 1 <= b => k <= c
  OBVIOUS
<1> HIDE DEF c
<1>12. Path(t, gs, r, q[2], R, c)
  <2>1. \A k \in 1 .. n - 1 : Item(gs[k]) /\ (gs[k][1].kind = "line" => k <= c)
    <3> TAKE k \in 1 .. n - 1
    <3>1. k + 1 \in 1 .. n
      BY <1>2
    <3>2. Item(fs[k + 1]) /\ (fs[k + 1][1].kind = "line" => k + 1 <= b)
      BY <1>7, <3>1
    <3> QED
      BY <1>4, <1>11, <3>2
  <2>2. \A k \in 1 .. n - 1 : Leads(R, gs[k], r[k], r[k + 1])
    <3> TAKE k \in 1 .. n - 1
    <3>1. k + 1 \in 1 .. n /\ k \in 1 .. n
      BY <1>2
    <3>2. Leads(R, fs[k + 1], q[k + 1], q[(k + 1) + 1])
      BY <1>7, <3>1
    <3>3. gs[k] = fs[k + 1] /\ r[k] = q[k + 1] /\ r[k + 1] = q[(k + 1) + 1]
      BY <1>4, <1>5, <3>1
    <3> QED
      BY <3>2, <3>3
  <2>3. \A k \in 1 .. n : Within(R, r[k])
    <3> TAKE k \in 1 .. n
    <3>1. k + 1 \in 1 .. n + 1
      BY <1>2
    <3> QED
      BY <1>5, <1>7, <3>1
  <2>4. r[1] = q[2] /\ r[n] = End(R) /\ (n - 1) + 1 = n
    <3>1. n \in 1 .. n
      BY <1>2
    <3> QED
      BY <1>5, <1>7, <1>8, <3>1
  <2> QED
    BY <1>3, <1>4, <1>5, <2>1, <2>2, <2>3, <2>4 DEF Path
<1>13. Way(t, q[2], R, c)
  BY <1>4, <1>5, <1>12 DEF Way
<1>14. /\ Item(fs[1]) /\ Len(fs[1]) <= Len(s) /\ \A i \in 1 .. Len(fs[1]) : s[i] = fs[1][i]
       /\ fs[1][1].kind = "line" => 1 <= b
       /\ Leads(R, fs[1], x, q[2]) /\ Within(R, x) /\ Within(R, q[2])
       /\ Way(SubSeq(s, Len(fs[1]) + 1, Len(s)), q[2], R, IF b = 0 THEN 0 ELSE b - 1)
  BY <1>3, <1>9, <1>13 DEF t, c
<1> QED
  BY <1>10, <1>14

\* More lines may still be allowed.
LEMMA WayBound ==
  ASSUME NEW R \in Remotes, NEW s \in Seq(Unit), NEW x \in Place,
         NEW b \in Nat, NEW c \in Nat, b <= c, Way(s, x, R, b)
  PROVE  Way(s, x, R, c)
<1>1. PICK fs \in Seq(Seq(Unit)), q \in Seq(Place) : Path(s, fs, q, x, R, b)
  BY DEF Way
<1>2. \A k \in 1 .. Len(fs) : k <= b => k <= c
  OBVIOUS
<1>3. Path(s, fs, q, x, R, c)
  BY <1>1, <1>2 DEF Path
<1> QED
  BY <1>3 DEF Way

\* The places of a server depend on what it has sent alone.
LEMMA WaySame ==
  ASSUME NEW R, NEW S, S.sent = R.sent, S.open = R.open, S.pings = R.pings,
         NEW s, NEW x, NEW b, Way(s, x, R, b)
  PROVE  Way(s, x, S, b)
<1>1. PICK fs \in Seq(Seq(Unit)), q \in Seq(Place) : Path(s, fs, q, x, R, b)
  BY DEF Way
<1>2. \A n : BodyIn(S, n) = BodyIn(R, n)
  BY DEF BodyIn
<1>3. End(S) = End(R) /\ (\A y : Within(R, y) => Within(S, y))
  BY <1>2 DEF End, Within
<1>4. \A f, y, z : Leads(R, f, y, z) => Leads(S, f, y, z)
  BY <1>2 DEF Leads, MessageStep, PingStep
<1>5. Path(s, fs, q, x, S, b)
  BY <1>1, <1>3, <1>4 DEF Path
<1> QED
  BY <1>5 DEF Way

-----------------------------------------------------------------------------
(* What the client gets.                                                   *)

\* Concatenation is associative.
LEMMA ConcatAssoc ==
  ASSUME NEW U, NEW s \in Seq(U), NEW t \in Seq(U), NEW u \in Seq(U)
  PROVE  (s \o t) \o u = s \o (t \o u)
OBVIOUS

\* The first unit of the second of two sequences moves to the end of the first.
LEMMA MoveHead ==
  ASSUME NEW U, NEW s \in Seq(U), NEW t \in Seq(U), t # <<>>
  PROVE  /\ Append(s, Head(t)) \in Seq(U) /\ Tail(t) \in Seq(U)
         /\ Append(s, Head(t)) \o Tail(t) = s \o t
<1>1. Len(t) >= 1 /\ Head(t) \in U
  OBVIOUS
<1> QED
  BY <1>1

\* The beginning of a concatenation is taken from its first part.
LEMMA TakeFront ==
  ASSUME NEW U, NEW s \in Seq(U), NEW t \in Seq(U), NEW n \in 0 .. Len(s)
  PROVE  SubSeq(s \o t, n + 1, Len(s \o t)) = SubSeq(s, n + 1, Len(s)) \o t
<1> DEFINE u == SubSeq(s \o t, n + 1, Len(s \o t))
           r == SubSeq(s, n + 1, Len(s))
<1>1. PICK l \in Nat, m \in Nat : l = Len(s) /\ m = Len(t) /\ n \in Nat /\ n <= l
  OBVIOUS
<1>2. /\ s \o t \in Seq(U) /\ Len(s \o t) = l + m
      /\ (\A i \in 1 .. l : (s \o t)[i] = s[i]) /\ \A i \in 1 .. m : (s \o t)[l + i] = t[i]
  BY <1>1, ConcatFacts
<1>3. n \in 0 .. Len(s \o t)
  BY <1>1, <1>2
<1>4. u \in Seq(U) /\ Len(u) = (l + m) - n /\ \A i \in 1 .. (l + m) - n : u[i] = (s \o t)[n + i]
  BY <1>2, <1>3, RestFacts
<1>5. r \in Seq(U) /\ Len(r) = l - n /\ \A i \in 1 .. l - n : r[i] = s[n + i]
  BY <1>1, RestFacts
<1> HIDE DEF u, r
<1>6. /\ r \o t \in Seq(U) /\ Len(r \o t) = (l - n) + m
      /\ (\A i \in 1 .. l - n : (r \o t)[i] = r[i])
      /\ \A i \in 1 .. m : (r \o t)[(l - n) + i] = t[i]
  <2>1. /\ r \o t \in Seq(U) /\ Len(r \o t) = Len(r) + Len(t)
        /\ (\A i \in 1 .. Len(r) : (r \o t)[i] = r[i])
        /\ \A i \in 1 .. Len(t) : (r \o t)[Len(r) + i] = t[i]
    <3>1. r \in Seq(U)
      BY <1>5
    <3> QED
      BY <3>1, ConcatFacts
  <2> QED
    BY <1>1, <1>5, <2>1
<1>7. ASSUME NEW i \in 1 .. Len(u) PROVE u[i] = (r \o t)[i]
  <2>1. i \in 1 .. (l + m) - n
    BY <1>4
  <2>2. CASE i <= l - n
    <3>1. i \in 1 .. l - n /\ n + i \in 1 .. l
      BY <1>1, <2>1, <2>2
    <3> QED
      BY <1>2, <1>4, <1>5, <1>6, <2>1, <3>1
  <2>3. CASE i > l - n
    <3>1. PICK j \in 1 .. m : i = (l - n) + j /\ n + i = l + j
      <4>1. i - (l - n) \in 1 .. m /\ i = (l - n) + (i - (l - n)) /\ n + i = l + (i - (l - n))
        BY <1>1, <2>1, <2>3
      <4> QED
        BY <4>1
    <3> QED
      BY <1>2, <1>4, <1>6, <2>1, <3>1
  <2>4. i <= l - n \/ i > l - n
    BY <1>1, <2>1
  <2> QED
    BY <2>2, <2>3, <2>4
<1>8. Len(u) = Len(r \o t)
  BY <1>1, <1>4, <1>6
<1>9. u = r \o t
  BY <1>4, <1>6, <1>7, <1>8, SameSeq
<1> QED
  BY <1>9 DEF u, r

\* What the server sends follows what is under way, or is lost.
LEMMA DownSend ==
  ASSUME NEW R \in Remotes, NEW S \in Remotes, Extends(R, S),
         NEW rb \in Seq(Unit), NEW w \in Seq(Unit), NEW gone, NEW x \in Place, NEW b \in Nat,
         Down(rb, w, gone, x, R, b),
         NEW f, Item(f), f[1].kind # "line", Leads(S, f, End(R), End(S))
  PROVE  Down(rb, IF gone THEN w ELSE w \o f, gone, x, S, b)
<1>1. PICK v \in Seq(Unit) : (~gone => v = w) /\ Way(rb \o v, x, R, b)
  BY DEF Down
<1>2. f \in Seq(Unit) /\ rb \o v \in Seq(Unit) /\ v \o f \in Seq(Unit)
  BY DEF Item
<1>3. Way((rb \o v) \o f, x, S, b)
  BY <1>1, <1>2, WayMore
<1>4. Way(rb \o (v \o f), x, S, b)
  <2>1. (rb \o v) \o f = rb \o (v \o f)
    BY <1>2, ConcatAssoc, SMTT(30)
  <2> QED
    BY <1>3, <2>1
<1>5. ~gone => v \o f = IF gone THEN w ELSE w \o f
  BY <1>1
<1> QED
  BY <1>2, <1>4, <1>5 DEF Down

\* A unit that arrives stays in the stream.
LEMMA DownReceive ==
  ASSUME NEW R, NEW rb \in Seq(Unit), NEW w \in Seq(Unit), NEW gone, NEW x, NEW b,
         Down(rb, w, gone, x, R, b), w # <<>>, ~gone
  PROVE  Down(Append(rb, Head(w)), Tail(w), gone, x, R, b)
<1>1. Way(rb \o w, x, R, b)
  BY DEF Down
<1>2. Tail(w) \in Seq(Unit) /\ Append(rb, Head(w)) \o Tail(w) = rb \o w
  BY MoveHead
<1> QED
  BY <1>1, <1>2 DEF Down

\* Of what was under way when the client hangs up nothing arrives.
LEMMA DownCut ==
  ASSUME NEW R, NEW rb, NEW w \in Seq(Unit), NEW gone, NEW x, NEW b,
         Down(rb, w, gone, x, R, b), NEW u
  PROVE  Down(rb, u, TRUE, x, R, b)
BY DEF Down

\* A line that is read counts, and is no place of the server's.
LEMMA DownLine ==
  ASSUME NEW R \in Remotes, NEW w \in Seq(Unit), NEW gone, NEW x \in Place, NEW b \in Nat,
         Down(<<>>, w, gone, x, R, b), w # <<>>, ~gone, w[1].kind = "line",
         NEW c \in Nat, b <= c + 1
  PROVE  Down(<<>>, Tail(w), gone, x, R, c) /\ b >= 1
<1>1. Way(w, x, R, b)
  <2>1. Way(<<>> \o w, x, R, b) /\ <<>> \o w = w
    BY DEF Down
  <2> QED
    BY <2>1
<1>2. PICK f \in Seq(Unit), y \in Place :
        /\ Item(f) /\ Len(f) <= Len(w) /\ \A i \in 1 .. Len(f) : w[i] = f[i]
        /\ f[1].kind = "line" => 1 <= b
        /\ Leads(R, f, x, y)
        /\ Way(SubSeq(w, Len(f) + 1, Len(w)), y, R, IF b = 0 THEN 0 ELSE b - 1)
  BY <1>1, WayFirst
<1>3. f[1] = w[1] /\ Len(f) = 1 /\ b >= 1
  <2>1. Len(f) >= 1 /\ Len(f) \in Nat
    BY <1>2 DEF Item
  <2>2. f[1] = w[1]
    BY <1>2, <2>1
  <2> QED
    BY <1>2, <2>2 DEF Item
<1>4. y = x
  <2>1. ~Carrying(f) /\ ~Pinging(f)
    BY <1>3 DEF Carrying, Pinging
  <2> QED
    BY <1>2, <2>1 DEF Leads, OtherStep, Place
<1>5. SubSeq(w, Len(f) + 1, Len(w)) = Tail(w) /\ Tail(w) \in Seq(Unit)
  BY <1>3
<1>6. Way(Tail(w), x, R, b - 1)
  <2>1. b # 0 /\ (IF b = 0 THEN 0 ELSE b - 1) = b - 1
    BY <1>3
  <2> QED
    BY <1>2, <1>4, <1>5, <2>1
<1>7. b - 1 \in Nat /\ b - 1 <= c
  BY <1>3
<1>8. Way(Tail(w), x, R, c)
  BY <1>5, <1>6, <1>7, WayBound
<1>9. <<>> \o Tail(w) = Tail(w)
  BY <1>5
<1> QED
  BY <1>3, <1>5, <1>8, <1>9 DEF Down

\* Once no more lines come, what is first in the receive buffer is a frame; when
\* all of it is there, the rest leads on from behind it.
LEMMA DownFrame ==
  ASSUME NEW R \in Remotes, NEW rb \in Seq(Unit), NEW w \in Seq(Unit), NEW gone,
         NEW x \in Place, Down(rb, w, gone, x, R, 0),
         rb # <<>>, Len(rb) >= 1 + rb[1].len
  PROVE  /\ rb[1] \in HeadUnit
         /\ \E y \in Place, f \in Seq(Unit) :
              /\ Item(f) /\ f = SubSeq(rb, 1, 1 + rb[1].len) /\ f[1] = rb[1]
              /\ Carried(f) = SubSeq(rb, 2, 1 + rb[1].len)
              /\ Leads(R, f, x, y) /\ Within(R, x) /\ Within(R, y)
              /\ Down(SubSeq(rb, 2 + rb[1].len, Len(rb)), w, gone, y, R, 0)
<1>1. PICK v \in Seq(Unit) : (~gone => v = w) /\ Way(rb \o v, x, R, 0)
  BY DEF Down
<1> DEFINE s == rb \o v
<1>2. /\ s \in Seq(Unit) /\ Len(s) = Len(rb) + Len(v)
      /\ \A i \in 1 .. Len(rb) : s[i] = rb[i]
  BY ConcatFacts
<1>3. Len(rb) >= 1 /\ s # <<>>
  BY <1>2
<1> HIDE DEF s
<1>4. PICK f \in Seq(Unit), y \in Place :
        /\ Item(f) /\ Len(f) <= Len(s) /\ \A i \in 1 .. Len(f) : s[i] = f[i]
        /\ f[1].kind = "line" => 1 <= 0
        /\ Leads(R, f, x, y) /\ Within(R, x) /\ Within(R, y)
        /\ Way(SubSeq(s, Len(f) + 1, Len(s)), y, R, 0)
  BY <1>1, <1>2, <1>3, WayFirst DEF s
<1>5. f[1] = rb[1] /\ f[1].kind = "head" /\ Len(f) = 1 + f[1].len /\ f[1] \in Unit
  <2>1. Len(f) >= 1 /\ Len(f) \in Nat
    BY <1>4 DEF Item
  <2>2. 1 \in 1 .. Len(f) /\ 1 \in 1 .. Len(rb)
    BY <1>3, <2>1
  <2>3. f[1] = rb[1]
    BY <1>2, <1>4, <2>2
  <2>4. f[1].kind # "line"
    BY <1>4
  <2> QED
    BY <1>4, <2>2, <2>3, <2>4 DEF Item
<1>6. rb[1] \in HeadUnit
  BY <1>5 DEF Unit, LineUnit, HeadUnit, DataUnit
<1>7. PICK n \in Nat, l \in Nat : n = rb[1].len /\ l = Len(rb) /\ 1 + n <= l
  BY <1>6 DEF HeadUnit
<1>8. f = SubSeq(rb, 1, 1 + n)
  <2>1. /\ SubSeq(rb, 1, 1 + n) \in Seq(Unit) /\ Len(SubSeq(rb, 1, 1 + n)) = 1 + n
        /\ \A i \in 1 .. 1 + n : SubSeq(rb, 1, 1 + n)[i] = rb[i]
    BY <1>7
  <2>2. Len(f) = 1 + n /\ \A i \in 1 .. 1 + n : f[i] = rb[i]
    BY <1>2, <1>4, <1>5, <1>7
  <2> QED
    BY <2>1, <2>2, SameSeq
<1>9. Carried(f) = SubSeq(rb, 2, 1 + n)
  <2>1. /\ SubSeq(rb, 2, 1 + n) \in Seq(Unit) /\ Len(SubSeq(rb, 2, 1 + n)) = n
        /\ \A i \in 1 .. n : SubSeq(rb, 2, 1 + n)[i] = rb[i + 1]
    BY <1>7
  <2>2. Len(f) = 1 + n /\ \A i \in 1 .. 1 + n : f[i] = rb[i]
    BY <1>2, <1>4, <1>5, <1>7
  <2>3. /\ SubSeq(f, 2, 1 + n) \in Seq(Unit) /\ Len(SubSeq(f, 2, 1 + n)) = n
        /\ \A i \in 1 .. n : SubSeq(f, 2, 1 + n)[i] = f[i + 1]
    BY <2>2
  <2>4. \A i \in 1 .. n : SubSeq(f, 2, 1 + n)[i] = SubSeq(rb, 2, 1 + n)[i]
    BY <2>1, <2>2, <2>3
  <2>5. SubSeq(f, 2, 1 + n) = SubSeq(rb, 2, 1 + n)
    BY <2>1, <2>3, <2>4, SameSeq
  <2> QED
    BY <2>2, <2>5 DEF Carried
<1> DEFINE r == SubSeq(rb, 2 + n, Len(rb))
<1>10. SubSeq(s, Len(f) + 1, Len(s)) = r \o v /\ r \in Seq(Unit)
  <2>1. 1 + n \in 0 .. Len(rb) /\ (1 + n) + 1 = 2 + n /\ Len(f) = 1 + n
    BY <1>5, <1>7
  <2> QED
    BY <2>1, TakeFront, RestFacts DEF s
<1>11. Down(r, w, gone, y, R, 0)
  BY <1>1, <1>4, <1>10 DEF Down
<1> QED
  BY <1>4, <1>5, <1>6, <1>7, <1>8, <1>9, <1>11

\* More lines may still be allowed, and what the server has read does not matter.
LEMMA DownSame ==
  ASSUME NEW R \in Remotes, NEW S \in Remotes,
         S.sent = R.sent, S.open = R.open, S.pings = R.pings,
         NEW rb \in Seq(Unit), NEW w, NEW gone, NEW x \in Place,
         NEW b \in Nat, NEW c \in Nat, b <= c, Down(rb, w, gone, x, R, b)
  PROVE  Down(rb, w, gone, x, S, c)
<1>1. PICK v \in Seq(Unit) : (~gone => v = w) /\ Way(rb \o v, x, R, b)
  BY DEF Down
<1>a. rb \o v \in Seq(Unit)
  OBVIOUS
<1>2. Way(rb \o v, x, R, c)
  BY <1>1, <1>a, WayBound
<1>3. Way(rb \o v, x, S, c)
  BY <1>2, WaySame
<1> QED
  BY <1>1, <1>3 DEF Down

-----------------------------------------------------------------------------
(* What the server gets.                                                   *)

\* l pings are answered behind item f if k are before it.
PongStep(R, f, k, l) ==
  \/ Ponging(f) /\ l = k + 1 /\ l <= Len(R.pings) /\ Carried(f) = R.pings[l]
  \/ ~Ponging(f) /\ l = k

\* The items gs make up s; behind the k-th of them r[k + 1] pings are answered.
Back(s, gs, r, R, m) ==
  /\ Laid(s, gs)
  /\ Len(r) = Len(gs) + 1
  /\ \A k \in 1 .. Len(gs) : Item(gs[k]) /\ PongStep(R, gs[k], r[k], r[k + 1])
  /\ r[1] = Len(R.pongs) /\ r[Len(gs) + 1] = m

\* What is on its way to the server and what the client has still to send
\* answer the server's pings up to the m-th.
Up(s, R, m) == \E gs \in Seq(Seq(Unit)), r \in Seq(Nat) : Back(s, gs, r, R, m)

\* The client adds an item.
LEMMA UpAppend ==
  ASSUME NEW R, NEW s \in Seq(Unit), NEW m \in Nat, Up(s, R, m),
         NEW f, Item(f), NEW l \in Nat, PongStep(R, f, m, l)
  PROVE  Up(s \o f, R, l)
<1>1. PICK gs \in Seq(Seq(Unit)), r \in Seq(Nat) : Back(s, gs, r, R, m)
  BY DEF Up
<1>2. PICK n \in Nat : n = Len(gs) /\ Len(r) = n + 1
  BY <1>1 DEF Back
<1> DEFINE hs == Append(gs, f)
           t == Append(r, l)
<1>3. f \in Seq(Unit)
  BY DEF Item
<1>4. /\ hs \in Seq(Seq(Unit)) /\ Len(hs) = n + 1 /\ hs[n + 1] = f
      /\ \A k \in 1 .. n : hs[k] = gs[k]
  BY <1>2, <1>3
<1>5. /\ t \in Seq(Nat) /\ Len(t) = n + 2 /\ t[n + 2] = l
      /\ \A k \in 1 .. n + 1 : t[k] = r[k]
  BY <1>2
<1>6. Laid(s \o f, hs)
  BY <1>1, <1>3, LaidAppend DEF Back
<1> HIDE DEF hs, t
<1>7. /\ \A k \in 1 .. n : Item(gs[k]) /\ PongStep(R, gs[k], r[k], r[k + 1])
      /\ r[1] = Len(R.pongs) /\ r[n + 1] = m
  BY <1>1, <1>2 DEF Back
<1>8. \A k \in 1 .. n + 1 : Item(hs[k]) /\ PongStep(R, hs[k], t[k], t[k + 1])
  <2> TAKE k \in 1 .. n + 1
  <2>1. CASE k = n + 1
    <3>1. hs[k] = f /\ t[k] = m /\ t[k + 1] = l
      BY <1>4, <1>5, <1>7, <2>1
    <3> QED
      BY <3>1
  <2>2. CASE k \in 1 .. n
    <3>1. k \in 1 .. n + 1 /\ k + 1 \in 1 .. n + 1
      BY <2>2
    <3>2. hs[k] = gs[k] /\ t[k] = r[k] /\ t[k + 1] = r[k + 1]
      BY <1>4, <1>5, <2>2, <3>1
    <3> QED
      BY <1>7, <2>2, <3>2
  <2> QED
    BY <2>1, <2>2
<1>9. t[1] = Len(R.pongs) /\ t[n + 2] = l /\ (n + 1) + 1 = n + 2
  <2>1. 1 \in 1 .. n + 1
    OBVIOUS
  <2> QED
    BY <1>5, <1>7, <2>1
<1>10. Back(s \o f, hs, t, R, l)
  BY <1>4, <1>5, <1>6, <1>8, <1>9 DEF Back
<1> QED
  BY <1>4, <1>5, <1>10 DEF Up

\* The server reads the first item.
LEMMA UpFirst ==
  ASSUME NEW R, NEW s \in Seq(Unit), NEW m \in Nat, Up(s, R, m), s # <<>>
  PROVE  \E f \in Seq(Unit), k \in Nat :
           /\ Item(f) /\ Len(f) <= Len(s) /\ \A i \in 1 .. Len(f) : s[i] = f[i]
           /\ PongStep(R, f, Len(R.pongs), k)
           /\ \A S : S.pings = R.pings /\ Len(S.pongs) = k
                       => Up(SubSeq(s, Len(f) + 1, Len(s)), S, m)
<1>1. PICK gs \in Seq(Seq(Unit)), r \in Seq(Nat) : Back(s, gs, r, R, m)
  BY DEF Up
<1>2. PICK n \in Nat : n = Len(gs) /\ Len(r) = n + 1 /\ n >= 1
  BY <1>1, LaidNone DEF Back
<1> DEFINE hs == Tail(gs)
           t == Tail(r)
           rest == SubSeq(s, Len(gs[1]) + 1, Len(s))
<1>3. /\ Len(gs[1]) <= Len(s) /\ \A i \in 1 .. Len(gs[1]) : s[i] = gs[1][i]
      /\ Laid(rest, hs)
  BY <1>1, <1>2, LaidFirst DEF Back
<1>4. hs \in Seq(Seq(Unit)) /\ Len(hs) = n - 1 /\ \A k \in 1 .. n - 1 : hs[k] = gs[k + 1]
  BY <1>2
<1>5. t \in Seq(Nat) /\ Len(t) = n /\ \A k \in 1 .. n : t[k] = r[k + 1]
  BY <1>2
<1> HIDE DEF hs, t, rest
<1>7. /\ \A k \in 1 .. n : Item(gs[k]) /\ PongStep(R, gs[k], r[k], r[k + 1])
      /\ r[1] = Len(R.pongs) /\ r[n + 1] = m
  BY <1>1, <1>2 DEF Back
<1>8. 1 \in 1 .. n /\ 1 + 1 = 2 /\ 2 \in 1 .. n + 1
  BY <1>2
<1>9. Item(gs[1]) /\ PongStep(R, gs[1], Len(R.pongs), r[2])
  BY <1>7, <1>8
<1>10. r[2] \in Nat /\ gs[1] \in Seq(Unit)
  BY <1>2, <1>8
<1>11. ASSUME NEW S, S.pings = R.pings, Len(S.pongs) = r[2]
       PROVE  Up(rest, S, m)
  <2>1. \A k \in 1 .. n - 1 : Item(hs[k]) /\ PongStep(S, hs[k], t[k], t[k + 1])
    <3> TAKE k \in 1 .. n - 1
    <3>1. k + 1 \in 1 .. n /\ k \in 1 .. n
      BY <1>2
    <3>2. Item(gs[k + 1]) /\ PongStep(R, gs[k + 1], r[k + 1], r[(k + 1) + 1])
      BY <1>7, <3>1
    <3>3. hs[k] = gs[k + 1] /\ t[k] = r[k + 1] /\ t[k + 1] = r[(k + 1) + 1]
      BY <1>4, <1>5, <3>1
    <3> QED
      BY <1>11, <3>2, <3>3 DEF PongStep
  <2>2. t[1] = r[2] /\ t[n] = m /\ (n - 1) + 1 = n
    <3>1. n \in 1 .. n
      BY <1>2
    <3> QED
      BY <1>5, <1>7, <1>8, <3>1
  <2>3. Back(rest, hs, t, S, m)
    BY <1>3, <1>4, <1>5, <1>11, <2>1, <2>2 DEF Back
  <2> QED
    BY <1>4, <1>5, <2>3 DEF Up
<1> QED
  BY <1>3, <1>9, <1>10, <1>11 DEF rest

\* More pings do not change which are answered.
LEMMA UpMore ==
  ASSUME NEW R \in Remotes, NEW S \in Remotes, Extends(R, S), S.pongs = R.pongs,
         NEW s, NEW m, Up(s, R, m)
  PROVE  Up(s, S, m)
<1>1. PICK gs \in Seq(Seq(Unit)), r \in Seq(Nat) : Back(s, gs, r, R, m)
  BY DEF Up
<1>2. Len(R.pings) \in Nat /\ Len(S.pings) \in Nat /\ Len(R.pings) <= Len(S.pings)
  BY DEF Remotes, Extends
<1>3. ASSUME NEW f, NEW k \in Nat, NEW l \in Nat, PongStep(R, f, k, l) PROVE PongStep(S, f, k, l)
  <2>1. CASE Ponging(f)
    <3>1. l = k + 1 /\ l <= Len(R.pings) /\ Carried(f) = R.pings[l]
      BY <1>3, <2>1 DEF PongStep
    <3>2. l \in 1 .. Len(R.pings) /\ l <= Len(S.pings)
      BY <1>2, <3>1
    <3>3. S.pings[l] = R.pings[l]
      BY <3>2 DEF Extends
    <3> QED
      BY <2>1, <3>1, <3>2, <3>3 DEF PongStep
  <2>2. CASE ~Ponging(f)
    BY <1>3, <2>2 DEF PongStep
  <2> QED
    BY <2>1, <2>2
<1>4. \A k \in 1 .. Len(gs) : Item(gs[k]) /\ PongStep(S, gs[k], r[k], r[k + 1])
  <2> TAKE k \in 1 .. Len(gs)
  <2>1. r[k] \in Nat /\ r[k + 1] \in Nat
    BY <1>1 DEF Back
  <2>2. Item(gs[k]) /\ PongStep(R, gs[k], r[k], r[k + 1])
    BY <1>1 DEF Back
  <2> QED
    BY <1>3, <2>1, <2>2
<1>5. Back(s, gs, r, S, m)
  BY <1>1, <1>4 DEF Back
<1> QED
  BY <1>5 DEF Up

-----------------------------------------------------------------------------
(* What the server sends.                                                  *)

\* A frame is an item.
LEMMA FrameFacts ==
  ASSUME NEW op \in Op, NEW fin \in BOOLEAN, NEW body \in Seq(Unit)
  PROVE  /\ Item(Frame(op, fin, body)) /\ Frame(op, fin, body) \in Seq(Unit)
         /\ Frame(op, fin, body)[1] = Header(op, fin, Len(body))
         /\ \A i \in 1 .. Len(body) : Frame(op, fin, body)[1 + i] = body[i]
         /\ Carried(Frame(op, fin, body)) = body
<1> DEFINE f == Frame(op, fin, body)
           h == Header(op, fin, Len(body))
<1>1. h \in Unit /\ h.kind = "head" /\ h.len = Len(body) /\ Len(body) \in Nat
  BY DEF Header, HeadUnit, Unit
<1> HIDE DEF h
<1>2. f = <<h>> \o body
  BY DEF Frame, h
<1>3. \A u \in Unit : <<u>> \in Seq(Unit) /\ Len(<<u>>) = 1 /\ <<u>>[1] = u
  OBVIOUS
<1>4. <<h>> \in Seq(Unit) /\ Len(<<h>>) = 1 /\ <<h>>[1] = h
  BY <1>1, <1>3
<1>5. /\ f \in Seq(Unit) /\ Len(f) = 1 + Len(body) /\ f[1] = h
      /\ \A i \in 1 .. Len(body) : f[1 + i] = body[i]
  BY <1>2, <1>4, ConcatFacts
<1> HIDE DEF f
<1>6. Item(f)
  BY <1>1, <1>5 DEF Item
<1>7. SubSeq(f, 2, Len(f)) = body
  <2>1. 1 \in 0 .. Len(f) /\ 1 + 1 = 2 /\ Len(f) - 1 = Len(body)
    BY <1>1, <1>5
  <2>2. /\ SubSeq(f, 2, Len(f)) \in Seq(Unit) /\ Len(SubSeq(f, 2, Len(f))) = Len(body)
        /\ \A i \in 1 .. Len(body) : SubSeq(f, 2, Len(f))[i] = f[1 + i]
    BY <1>5, <2>1, RestFacts
  <2>3. \A i \in 1 .. Len(body) : SubSeq(f, 2, Len(f))[i] = body[i]
    BY <1>5, <2>2
  <2> QED
    BY <2>2, <2>3, SameSeq
<1> QED
  BY <1>5, <1>6, <1>7 DEF f, h, Carried

\* Pieces are units.
LEMMA PiecesFacts ==
  ASSUME NEW number \in Int, NEW first \in Nat, NEW len \in Nat
  PROVE  /\ [i \in 1 .. len |-> Piece(number, first + i)] \in Seq(Unit)
         /\ Len([i \in 1 .. len |-> Piece(number, first + i)]) = len
<1>1. \A i \in 1 .. len : Piece(number, first + i) \in Unit
  BY DEF Piece, DataUnit, Unit
<1> QED
  BY <1>1

\* The close frame is an item that is no message and no ping.
LEMMA CloseFacts ==
  /\ Item(CloseFrame) /\ CloseFrame[1] = Header("CLOSE", TRUE, 0)
  /\ ~Carrying(CloseFrame) /\ ~Pinging(CloseFrame) /\ ~Ponging(CloseFrame)
  /\ CloseFrame[1].kind # "line"
<1>1. "CLOSE" \in Op /\ TRUE \in BOOLEAN /\ <<>> \in Seq(Unit) /\ Len(<<>>) = 0
  BY DEF Op
<1>2. Item(CloseFrame) /\ CloseFrame[1] = Header("CLOSE", TRUE, 0)
  <2>1. /\ Item(Frame("CLOSE", TRUE, <<>>))
        /\ Frame("CLOSE", TRUE, <<>>)[1] = Header("CLOSE", TRUE, Len(<<>>))
    BY <1>1, FrameFacts
  <2> QED
    BY <1>1, <2>1 DEF CloseFrame
<1>3. CloseFrame[1].kind = "head" /\ CloseFrame[1].op = "CLOSE"
  BY <1>2 DEF Header
<1> QED
  BY <1>2, <1>3 DEF Carrying, Pinging, Ponging, MessageOps

\* The server adds item f to what it sends.
Adds(f) ==
  /\ remote' \in Remotes /\ Extends(remote, remote') /\ remote'.pongs = remote.pongs
  /\ remote'.answered = remote.answered
  /\ Item(f) /\ f[1].kind # "line"
  /\ Leads(remote', f, End(remote), End(remote'))

\* A frame of a message ends where the server then is.
LEMMA MessageSent ==
  ASSUME remote \in Remotes, NEW op \in Kinds \cup {"CONTINUATION"}, NEW len \in Lengths,
         NEW fin \in BOOLEAN, RemoteMessage(op, len, fin)
  PROVE  \E f \in Seq(Unit) : Adds(f) /\ ToClient(f)
<1> DEFINE R == remote
           S == remote'
           first == R.open = <<>>
           n == Len(R.sent)
           before == IF first THEN <<>> ELSE R.open[1].body
           part == [i \in 1 .. len |-> Piece(n + 1, Len(before) + i)]
           whole == [text |-> IF first THEN op = "TEXT" ELSE R.open[1].text,
                     body |-> before \o part]
           f == Frame(op, fin, part)
           x == End(R)
           y == End(S)
<1>1. /\ ToClient(f)
      /\ S = [R EXCEPT !.frames = @ + 1,
                       !.open = IF fin THEN <<>> ELSE <<whole>>,
                       !.sent = IF fin THEN Append(@, whole) ELSE @]
  BY DEF RemoteMessage
<1>2. /\ op \in MessageOps /\ op \in Op /\ len \in Nat
  BY EndpointAssumption DEF MessageOps, Op
<1>3. /\ R.sent \in Seq(Messages) /\ R.open \in Seq(Messages) /\ n \in Nat
      /\ R.pings \in Seq(Seq(Unit)) /\ R.frames \in Nat /\ R.pongs \in Seq(Seq(Unit))
      /\ R.answered \in BOOLEAN /\ R.short \in BOOLEAN
  BY DEF Remotes
<1>4. before \in Seq(Unit)
  <2>1. CASE first
    BY <2>1
  <2>2. CASE ~first
    <3>1. R.open[1] \in Messages
      BY <1>3, <2>2
    <3> QED
      BY <2>2, <3>1 DEF Messages
  <2> QED
    BY <2>1, <2>2
<1>5. BodyIn(R, n + 1) = before
  BY <1>3 DEF BodyIn
<1> HIDE DEF before
<1>6. part \in Seq(Unit) /\ Len(part) = len
  <2>1. n + 1 \in Int /\ Len(before) \in Nat
    BY <1>3, <1>4
  <2> QED
    BY <1>2, <2>1, PiecesFacts
<1> HIDE DEF part
<1>7. /\ Item(f) /\ f \in Seq(Unit) /\ f[1] = Header(op, fin, len)
      /\ \A i \in 1 .. len : f[1 + i] = part[i]
  BY <1>2, <1>6, FrameFacts
<1>8. f[1].kind = "head" /\ f[1].op = op /\ f[1].fin = fin /\ f[1].len = len
  BY <1>7 DEF Header
<1> HIDE DEF f
<1>9. /\ before \o part \in Seq(Unit) /\ Len(before \o part) = Len(before) + len
      /\ \A i \in 1 .. Len(before) : (before \o part)[i] = before[i]
      /\ \A i \in 1 .. len : (before \o part)[Len(before) + i] = part[i]
  <2>1. /\ before \o part \in Seq(Unit) /\ Len(before \o part) = Len(before) + Len(part)
        /\ \A i \in 1 .. Len(before) : (before \o part)[i] = before[i]
        /\ \A i \in 1 .. Len(part) : (before \o part)[Len(before) + i] = part[i]
    <3>1. before \in Seq(Unit) /\ part \in Seq(Unit)
      BY <1>4, <1>6
    <3> QED
      BY <3>1, ConcatFacts
  <2> QED
    BY <1>6, <2>1
<1>10. whole \in Messages /\ whole.body = before \o part
  <2>1. CASE first
    BY <1>9, <2>1 DEF Messages
  <2>2. CASE ~first
    <3>1. R.open[1] \in Messages
      BY <1>3, <2>2
    <3> QED
      BY <1>9, <2>2, <3>1 DEF Messages
  <2> QED
    BY <2>1, <2>2
<1> HIDE DEF whole
<1>11. /\ S.answered = R.answered /\ S.short = R.short /\ S.frames = R.frames + 1
       /\ S.pings = R.pings /\ S.pongs = R.pongs
       /\ S.open = (IF fin THEN <<>> ELSE <<whole>>)
       /\ S.sent = (IF fin THEN Append(R.sent, whole) ELSE R.sent)
  BY <1>1 DEF Remotes
<1>12. S \in Remotes
  <2>1. S.open \in Seq(Messages) /\ S.sent \in Seq(Messages)
    BY <1>3, <1>10, <1>11
  <2>2. S = [answered |-> S.answered, short |-> S.short, frames |-> S.frames,
             open |-> S.open, sent |-> S.sent, pings |-> S.pings, pongs |-> S.pongs]
    BY <1>1 DEF Remotes
  <2>3. /\ S.answered \in BOOLEAN /\ S.short \in BOOLEAN /\ S.frames \in Nat
        /\ S.pings \in Seq(Seq(Unit)) /\ S.pongs \in Seq(Seq(Unit))
    BY <1>3, <1>11
  <2> HIDE DEF S
  <2> QED
    BY <2>1, <2>2, <2>3 DEF Remotes
<1>13. /\ Len(S.sent) = (IF fin THEN n + 1 ELSE n)
       /\ \A k \in 1 .. n : S.sent[k] = R.sent[k]
       /\ fin => S.sent[n + 1] = whole
  BY <1>3, <1>10, <1>11
<1>14. BodyIn(S, n + 1) = before \o part
  <2>1. CASE fin
    <3>1. n + 1 <= Len(S.sent) /\ S.sent[n + 1] = whole
      BY <1>3, <1>13, <2>1
    <3> QED
      BY <1>10, <3>1 DEF BodyIn
  <2>2. CASE ~fin
    <3>1. ~(n + 1 <= Len(S.sent)) /\ S.open = <<whole>> /\ <<whole>> # <<>> /\ <<whole>>[1] = whole
      BY <1>3, <1>11, <1>13, <2>2
    <3> QED
      BY <1>10, <3>1 DEF BodyIn
  <2> QED
    BY <2>1, <2>2
<1>15. \A k \in 1 .. n : BodyIn(S, k) = BodyIn(R, k)
  <2> TAKE k \in 1 .. n
  <2>1. k <= Len(S.sent) /\ k <= Len(R.sent)
    BY <1>3, <1>13
  <2> QED
    BY <1>13, <2>1 DEF BodyIn
<1>16. Extends(R, S)
  <2>1. Len(R.sent) <= Len(S.sent) /\ Len(R.pings) <= Len(S.pings)
    BY <1>3, <1>11, <1>13
  <2>2. Len(before) <= Len(before \o part)
    BY <1>2, <1>4, <1>9
  <2> QED
    BY <1>5, <1>9, <1>11, <1>14, <1>15, <2>1, <2>2 DEF Extends
<1>17. x.n = n /\ x.a = Len(before) /\ x.p = Len(R.pings)
  BY <1>5 DEF End
<1>18. /\ y.p = Len(R.pings)
       /\ fin => y.n = n + 1 /\ y.a = 0
       /\ ~fin => y.n = n /\ y.a = Len(before) + len
  <2>1. y.p = Len(R.pings) /\ y.n = Len(S.sent) /\ y.a = Len(BodyIn(S, Len(S.sent) + 1))
    BY <1>11 DEF End
  <2>2. CASE fin
    <3>1. Len(S.sent) = n + 1 /\ ~((n + 1) + 1 <= Len(S.sent)) /\ S.open = <<>>
      BY <1>3, <1>11, <1>13, <2>2
    <3>2. BodyIn(S, Len(S.sent) + 1) = <<>>
      BY <3>1 DEF BodyIn
    <3> QED
      BY <2>1, <2>2, <3>1, <3>2
  <2>3. CASE ~fin
    BY <1>9, <1>13, <1>14, <2>1, <2>3
  <2> QED
    BY <2>2, <2>3
<1>19. MessageStep(S, f, x, y)
  <2>1. /\ x.a + f[1].len <= Len(BodyIn(S, x.n + 1))
        /\ x.a + f[1].len = Len(BodyIn(S, x.n + 1))
    BY <1>2, <1>4, <1>8, <1>9, <1>14, <1>17
  <2>2. \A i \in 1 .. f[1].len : f[1 + i] = BodyIn(S, x.n + 1)[x.a + i]
    BY <1>7, <1>8, <1>9, <1>14, <1>17
  <2>3. \/ /\ f[1].fin /\ y.n = x.n + 1 /\ y.a = 0 /\ y.n <= Len(S.sent)
        \/ ~f[1].fin /\ y.n = x.n /\ y.a = x.a + f[1].len
    <3>1. CASE fin
      <4>1. y.n <= Len(S.sent)
        BY <1>3, <1>13, <1>18, <3>1
      <4> QED
        BY <1>8, <1>17, <1>18, <3>1, <4>1
    <3>2. CASE ~fin
      BY <1>8, <1>17, <1>18, <3>2
    <3> QED
      BY <3>1, <3>2
  <2> HIDE DEF x, y
  <2> QED
    BY <1>17, <1>18, <2>1, <2>2, <2>3 DEF MessageStep
<1>20. Carrying(f)
  BY <1>2, <1>8 DEF Carrying
<1>21. Leads(S, f, x, y) /\ f[1].kind # "line"
  BY <1>8, <1>19, <1>20 DEF Leads
<1>22. Adds(f)
  BY <1>7, <1>11, <1>12, <1>16, <1>21 DEF Adds
<1> QED
  BY <1>1, <1>7, <1>22 DEF f

\* So does a ping.
LEMMA PingSent ==
  ASSUME remote \in Remotes, NEW len \in Lengths, RemotePing(len)
  PROVE  \E f \in Seq(Unit) : Adds(f) /\ ToClient(f)
<1> DEFINE R == remote
           S == remote'
           l == Len(R.pings)
           body == [i \in 1 .. len |-> Piece(-1 - l, i)]
           f == Frame("PING", TRUE, body)
<1>1. ToClient(f) /\ S = [R EXCEPT !.frames = @ + 1, !.pings = Append(@, body)]
  BY DEF RemotePing
<1>2. /\ R.pings \in Seq(Seq(Unit)) /\ l \in Nat /\ R.frames \in Nat /\ len \in Nat
  BY EndpointAssumption DEF Remotes
<1>3. body \in Seq(Unit)
  <2>1. \A i \in 1 .. len : Piece(-1 - l, i) \in Unit
    BY <1>2 DEF Piece, DataUnit, Unit
  <2> QED
    BY <1>2, <2>1
<1> HIDE DEF body
<1>4. "PING" \in Op /\ TRUE \in BOOLEAN
  BY DEF Op
<1>5. /\ Item(f) /\ f \in Seq(Unit) /\ f[1] = Header("PING", TRUE, Len(body))
      /\ Carried(f) = body
  BY <1>3, <1>4, FrameFacts
<1> HIDE DEF f
<1>6. f[1].kind = "head" /\ f[1].op = "PING"
  BY <1>5 DEF Header
<1>7. /\ S.answered = R.answered /\ S.open = R.open /\ S.sent = R.sent /\ S.pongs = R.pongs
      /\ S.pings = Append(R.pings, body)
  BY <1>1 DEF Remotes
<1>8. S \in Remotes
  <2>1. Append(R.pings, body) \in Seq(Seq(Unit))
    BY <1>2, <1>3
  <2>2. S = [R EXCEPT !.frames = R.frames + 1, !.pings = Append(R.pings, body)]
    BY <1>1 DEF Remotes
  <2> HIDE DEF S
  <2>3. R.frames + 1 \in Nat
    BY <1>2
  <2> QED
    BY <2>1, <2>2, <2>3 DEF Remotes
<1>9. /\ Len(S.pings) = l + 1 /\ S.pings[l + 1] = body
      /\ \A k \in 1 .. l : S.pings[k] = R.pings[k]
  BY <1>2, <1>3, <1>7
<1>10. \A k : BodyIn(S, k) = BodyIn(R, k)
  BY <1>7 DEF BodyIn
<1>11. Extends(R, S)
  <2>1. Len(R.sent) \in Nat /\ Len(BodyIn(R, Len(R.sent) + 1)) \in Nat
    BY EndFacts DEF End, Place
  <2> QED
    BY <1>2, <1>7, <1>9, <1>10, <2>1 DEF Extends
<1>12. End(S).n = End(R).n /\ End(S).a = End(R).a /\ End(S).p = l + 1 /\ End(R).p = l
  BY <1>7, <1>9, <1>10 DEF End
<1>13. PingStep(S, f, End(R), End(S))
  BY <1>2, <1>5, <1>9, <1>12 DEF PingStep
<1>14. Pinging(f) /\ ~Carrying(f) /\ f[1].kind # "line"
  BY <1>6 DEF Pinging, Carrying, MessageOps
<1>15. Adds(f)
  BY <1>5, <1>7, <1>8, <1>11, <1>13, <1>14 DEF Adds, Leads
<1> QED
  BY <1>1, <1>5, <1>15 DEF f

\* And the close frame.
LEMMA CloseSent ==
  ASSUME remote \in Remotes, RemoteClose
  PROVE  \E f \in Seq(Unit) : Adds(f) /\ ToClient(f)
<1> DEFINE R == remote
           S == remote'
<1>1. ToClient(CloseFrame) /\ S = [R EXCEPT !.frames = MaxFrames]
  BY DEF RemoteClose
<1>2. /\ S.open = R.open /\ S.sent = R.sent /\ S.pongs = R.pongs /\ S.pings = R.pings
      /\ S.answered = R.answered /\ S \in Remotes
  BY <1>1, RemotePeerAssumption DEF Remotes
<1>3. \A k : BodyIn(S, k) = BodyIn(R, k)
  BY <1>2 DEF BodyIn
<1>4. Extends(R, S)
  <2>1. Len(R.sent) \in Nat /\ Len(R.pings) \in Nat /\ Len(BodyIn(R, Len(R.sent) + 1)) \in Nat
    BY EndFacts DEF End, Place
  <2> QED
    BY <1>2, <1>3, <2>1 DEF Extends
<1>5. End(S) = End(R)
  BY <1>2, <1>3 DEF End
<1>6. Leads(S, CloseFrame, End(R), End(S))
  BY <1>5, CloseFacts DEF Leads, OtherStep
<1>7. CloseFrame \in Seq(Unit)
  BY CloseFacts DEF Item
<1>8. Adds(CloseFrame)
  BY <1>2, <1>4, <1>6, CloseFacts DEF Adds
<1> QED
  BY <1>1, <1>7, <1>8

-----------------------------------------------------------------------------
(* The inductive invariant.                                                *)

States == {"CONNECTING", "OPEN", "CLOSING", "CLOSED"}
Points == {"idle", "recv", "send", "dispatch", "gone"}

ControlTypes ==
  /\ mReadyState \in [Endpoint -> States] /\ mConnectionPhase \in [Endpoint -> Phases]
  /\ pc \in [Endpoint -> Points] /\ nonblocking \in [Endpoint -> BOOLEAN]
  /\ eof \in [Node -> BOOLEAN]

StreamTypes ==
  /\ mReceiveBuffer \in [Endpoint -> Seq(Unit)] /\ mTransmitBuffer \in [Endpoint -> Seq(Unit)]
  /\ mReceivedData \in [Endpoint -> Seq(Unit)] /\ wire \in [Node -> Seq(Unit)]
  /\ sent \in [Endpoint -> Seq(Messages)] /\ delivered \in [Endpoint -> Seq(Messages)]
  /\ remote \in Remotes

\* The lines of the answer the client still waits for ...
LinesLeft ==
  [ HTTP_STATUS |-> 6, HCONNECTION_UPGRADE |-> 5, HSEC_WEBSOCKET_ACCEPT |-> 4,
    HSERVER_WEBSOCKET |-> 3, HUPGRADE_WEBSOCKET |-> 2, H |-> 1 ]

\* ... are all that may come before the first frame.
Bound ==
  IF nonblocking["client"] THEN 0
  ELSE IF mReadyState["client"] = "CONNECTING" THEN LinesLeft[mConnectionPhase["client"]]
  ELSE 6

\* Ready state, handshake phase and control point of the client keep together.
Control ==
  /\ pc["client"] \in {"send", "dispatch"} => nonblocking["client"]
  /\ mReadyState["client"] = "CONNECTING" =>
       /\ pc["client"] \in {"idle", "gone"}
       /\ ~nonblocking["client"] /\ mReceiveBuffer["client"] = <<>>
       /\ mConnectionPhase["client"] \in DOMAIN LinesLeft
  /\ ~remote.answered =>
       /\ mConnectionPhase["client"] = "HTTP_STATUS"
       /\ mReceiveBuffer["client"] = <<>> /\ wire["client"] = <<>>
  /\ nonblocking["client"] => mConnectionPhase["client"] = "H"
  /\ eof["server"] => wire["client"] = <<>>

\* Where the client is in what the server has sent when it has answered d pings.
PlaceOf(d) == [n |-> Len(delivered["client"]), a |-> Len(mReceivedData["client"]), p |-> d]

\* All that comes leads on from there ...
Inbound(d) ==
  Down(mReceiveBuffer["client"], wire["client"], eof["server"], PlaceOf(d), remote, Bound)

\* ... and all that goes answers the pings up to there, unless the client closes.
Outgoing == wire["server"] \o mTransmitBuffer["client"]

Outbound(d) ==
  ~eof["client"] =>
    \E m \in Nat : Up(Outgoing, remote, m) /\ (~ClosingOrClosed("client") => m = d)

\* What the client has got is what the server has sent first.
Got ==
  /\ \A k \in 1 .. Len(delivered["client"]) : delivered["client"][k].body = remote.sent[k].body
  /\ \A i \in 1 .. Len(mReceivedData["client"]) :
       mReceivedData["client"][i] = BodyIn(remote, Len(delivered["client"]) + 1)[i]

IInv ==
  /\ ControlTypes /\ StreamTypes /\ Control
  /\ \E d \in Nat : Inbound(d) /\ Outbound(d)
  /\ Got /\ PingsEchoed

\* There is one end that runs this code.
LEMMA OneEnd ==
  /\ Endpoint = {"client"} /\ Node = {"client", "server"} /\ Peer("client") = "server"
  /\ "client" # "server" /\ "client" \in Endpoint /\ "client" \in Node /\ "server" \in Node
  /\ ~mIsServerClient("client") /\ \A e \in Endpoint : e = "client"
BY RemotePeerAssumption DEF Node, Peer, mIsServerClient

\* Fewer lines are left after each one.
LEMMA LinesFacts ==
  /\ DOMAIN LinesLeft = Phases \ {"SERVER_CLIENT_STRINGS"}
  /\ \A phase \in DOMAIN LinesLeft : LinesLeft[phase] \in 1 .. 6
  /\ LinesLeft["HTTP_STATUS"] = 6 /\ LinesLeft["HCONNECTION_UPGRADE"] = 5 /\ LinesLeft["H"] = 1
  /\ \A phase \in DOMAIN NextPhase :
       /\ phase \in DOMAIN LinesLeft /\ NextPhase[phase] \in DOMAIN LinesLeft
       /\ LinesLeft[phase] = LinesLeft[NextPhase[phase]] + 1
BY DEF LinesLeft, Phases, NextPhase

\* A step of the client that takes no frame for a line of the handshake; there
\* are others only after a short answer (OnlyProperSteps).
ProperStep == EndpointStep("client") /\ ~SwallowFrame("client")

\* The steps of the client, by name.
LEMMA StepCases ==
  ASSUME ProperStep
  PROVE  \/ \E op \in Kinds, len \in Lengths : Send("client", op, len)
         \/ SendPing("client")
         \/ Close("client")
         \/ Delete("client")
         \/ ConnectTimeout("client")
         \/ LongLine("client")
         \/ AcceptStatus("client")
         \/ RefuseLine("client")
         \/ ServerLine("client")
         \/ ClientLine("client")
         \/ PollBegin("client")
         \/ Receive("client")
         \/ ReceiveWouldBlock("client")
         \/ ReceiveEnd("client")
         \/ SendSome("client")
         \/ SendLost("client")
         \/ SendError("client")
         \/ SendWouldBlock("client")
         \/ SendDone("client")
         \/ \E reaction \in Reactions : DispatchMessage("client", reaction)
         \/ DispatchFragment("client")
         \/ DispatchPing("client")
         \/ DispatchPong("client")
         \/ DispatchClose("client")
         \/ DispatchDone("client")
         \/ Deleted("client")
<1>1. ~AcceptRequest("client")
  BY OneEnd DEF AcceptRequest
<1> QED
  BY <1>1 DEF ProperStep, EndpointStep, UserStep, PollStep, ProcessConnection, DeletedClosed,
     DeletedSlowRound

\* Every step of the client keeps the types of state, phase and control point; a
\* connection that is closing stays so, and the server is not disturbed.
LEMMA ControlTypesStep ==
  ASSUME ControlTypes, Control, ProperStep
  PROVE  /\ ControlTypes' /\ remote' = remote /\ eof'["client"] = eof["client"]
         /\ ClosingOrClosed("client") => ClosingOrClosed("client")'
<1> USE OneEnd DEF ControlTypes, Control, ClosingOrClosed, States, Points,
       connectionVars, bufferVars, netVars, historyVars
<1>1. CASE \E op \in Kinds, len \in Lengths : Send("client", op, len)
  BY <1>1 DEF Send, SendMessage
<1>2. CASE SendPing("client")
  BY <1>2 DEF SendPing
<1>3. CASE Close("client")
  BY <1>3 DEF Close, DoClose
<1>4. CASE Delete("client")
  BY <1>4 DEF Delete, DoClose, Idle
<1>5. CASE ConnectTimeout("client")
  BY <1>5 DEF ConnectTimeout, CanConnect, GiveUp, HangUp
<1>6. CASE LongLine("client")
  BY <1>6 DEF LongLine, AtLine, CanConnect, GiveUp, HangUp
<1>7. CASE AcceptStatus("client")
  <2>1. "HCONNECTION_UPGRADE" \in Phases
    BY DEF Phases, NextPhase
  <2> QED
    BY <1>7, <2>1 DEF AcceptStatus, HasLine, AtLine, CanConnect
<1>8. CASE RefuseLine("client")
  BY <1>8 DEF RefuseLine, HasLine, AtLine, CanConnect, GiveUp, HangUp
<1>9. CASE ServerLine("client")
  BY <1>9 DEF ServerLine, HasLine, AtLine, CanConnect, Opened
<1>10. CASE ClientLine("client")
  <2>1. \A phase \in DOMAIN NextPhase : NextPhase[phase] \in Phases
    BY DEF Phases, NextPhase
  <2> QED
    BY <1>10, <2>1 DEF ClientLine, HasLine, AtLine, CanConnect, Opened
<1>11. CASE PollBegin("client")
  BY <1>11 DEF PollBegin, At, Goto
<1>12. CASE Receive("client")
  BY <1>12 DEF Receive, At
<1>13. CASE ReceiveWouldBlock("client")
  BY <1>13 DEF ReceiveWouldBlock, At, Goto
<1>14. CASE ReceiveEnd("client")
  BY <1>14 DEF ReceiveEnd, At, Goto, Drop, HangUp
<1>15. CASE SendSome("client")
  BY <1>15 DEF SendSome, At, PeerClosed
<1>16. CASE SendLost("client")
  BY <1>16 DEF SendLost, At
<1>17. CASE SendError("client")
  BY <1>17 DEF SendError, At, Goto, Drop, HangUp
<1>18. CASE SendWouldBlock("client")
  BY <1>18 DEF SendWouldBlock, At, Goto, AfterSend
<1>19. CASE SendDone("client")
  BY <1>19 DEF SendDone, At, Goto, AfterSend, Drop, HangUp
<1>20. CASE \E reaction \in Reactions : DispatchMessage("client", reaction)
  BY SMTT(30), <1>20 DEF DispatchMessage, Dispatching, At, Consumed, Reaction, DoClose
<1>21. CASE DispatchFragment("client")
  BY <1>21 DEF DispatchFragment, Dispatching, At, Consumed
<1>22. CASE DispatchPing("client")
  BY <1>22 DEF DispatchPing, Dispatching, At, Consumed
<1>23. CASE DispatchPong("client")
  BY <1>23 DEF DispatchPong, Dispatching, At, Consumed
<1>24. CASE DispatchClose("client")
  BY <1>24 DEF DispatchClose, Dispatching, At, Goto, DoClose
<1>25. CASE DispatchDone("client")
  BY <1>25 DEF DispatchDone, At, Goto
<1>26. CASE Deleted("client")
  BY <1>26 DEF Deleted, HangUp
<1> QED
  BY <1>1, <1>2, <1>3, <1>4, <1>5, <1>6, <1>7, <1>8, <1>9, <1>10, <1>11, <1>12, <1>13, <1>14,
     <1>15, <1>16, <1>17, <1>18, <1>19, <1>20, <1>21, <1>22, <1>23, <1>24, <1>25, <1>26,
     StepCases

\* Every step of the client keeps state, phase and control point together.
LEMMA ControlStep ==
  ASSUME ControlTypes, StreamTypes, Control, ProperStep
  PROVE  Control'
<1> DEFINE L == DOMAIN LinesLeft
<1>a. /\ "H" \in L /\ "HTTP_STATUS" \in L /\ "HCONNECTION_UPGRADE" \in L
      /\ "SERVER_CLIENT_STRINGS" \notin L
      /\ \A phase \in DOMAIN NextPhase : phase \in L /\ NextPhase[phase] \in L
  BY LinesFacts DEF Phases, NextPhase
<1>b. /\ mReadyState \in [Endpoint -> States] /\ mConnectionPhase \in [Endpoint -> Phases]
      /\ pc \in [Endpoint -> Points] /\ nonblocking \in [Endpoint -> BOOLEAN]
      /\ eof \in [Node -> BOOLEAN] /\ DOMAIN mReceiveBuffer = Endpoint /\ DOMAIN wire = Node
      /\ wire["client"] \in Seq(Unit)
  BY OneEnd DEF ControlTypes, StreamTypes
<1> HIDE DEF L
<1> USE OneEnd, <1>a, <1>b DEF Control, L, ClosingOrClosed, States, Points,
       connectionVars, bufferVars, netVars, historyVars
<1>1. CASE \E op \in Kinds, len \in Lengths : Send("client", op, len)
  BY <1>1 DEF Send, SendMessage
<1>2. CASE SendPing("client")
  BY <1>2 DEF SendPing
<1>3. CASE Close("client")
  BY <1>3 DEF Close, DoClose
<1>4. CASE Delete("client")
  BY <1>4 DEF Delete, DoClose, Idle
<1>5. CASE ConnectTimeout("client")
  BY <1>5 DEF ConnectTimeout, CanConnect, GiveUp, HangUp
<1>6. CASE LongLine("client")
  BY <1>6 DEF LongLine, AtLine, CanConnect, GiveUp, HangUp
<1>7. CASE AcceptStatus("client")
  BY <1>7 DEF AcceptStatus, HasLine, AtLine, CanConnect
<1>8. CASE RefuseLine("client")
  BY <1>8 DEF RefuseLine, HasLine, AtLine, CanConnect, GiveUp, HangUp
<1>9. CASE ServerLine("client")
  BY <1>9 DEF ServerLine, HasLine, AtLine, CanConnect, Opened
<1>10. CASE ClientLine("client")
  BY <1>10 DEF ClientLine, HasLine, AtLine, CanConnect, Opened
<1>11. CASE PollBegin("client")
  BY <1>11 DEF PollBegin, At, Goto
<1>12. CASE Receive("client")
  BY <1>12 DEF Receive, At
<1>13. CASE ReceiveWouldBlock("client")
  BY <1>13 DEF ReceiveWouldBlock, At, Goto
<1>14. CASE ReceiveEnd("client")
  BY <1>14 DEF ReceiveEnd, At, Goto, Drop, HangUp
<1>15. CASE SendSome("client")
  BY <1>15 DEF SendSome, At, PeerClosed
<1>16. CASE SendLost("client")
  BY <1>16 DEF SendLost, At
<1>17. CASE SendError("client")
  BY <1>17 DEF SendError, At, Goto, Drop, HangUp
<1>18. CASE SendWouldBlock("client")
  BY <1>18 DEF SendWouldBlock, At, Goto, AfterSend
<1>19. CASE SendDone("client")
  BY <1>19 DEF SendDone, At, Goto, AfterSend, Drop, HangUp
<1>20. CASE \E reaction \in Reactions : DispatchMessage("client", reaction)
  BY SMTT(30), <1>20 DEF DispatchMessage, Dispatching, At, Consumed, Reaction, DoClose
<1>21. CASE DispatchFragment("client")
  BY <1>21 DEF DispatchFragment, Dispatching, At, Consumed
<1>22. CASE DispatchPing("client")
  BY <1>22 DEF DispatchPing, Dispatching, At, Consumed
<1>23. CASE DispatchPong("client")
  BY <1>23 DEF DispatchPong, Dispatching, At, Consumed
<1>24. CASE DispatchClose("client")
  BY <1>24 DEF DispatchClose, Dispatching, At, Goto, DoClose
<1>25. CASE DispatchDone("client")
  BY <1>25 DEF DispatchDone, At, Goto
<1>26. CASE Deleted("client")
  BY <1>26 DEF Deleted, HangUp
<1> QED
  BY <1>1, <1>2, <1>3, <1>4, <1>5, <1>6, <1>7, <1>8, <1>9, <1>10, <1>11, <1>12, <1>13, <1>14,
     <1>15, <1>16, <1>17, <1>18, <1>19, <1>20, <1>21, <1>22, <1>23, <1>24, <1>25, <1>26,
     StepCases

-----------------------------------------------------------------------------
(* The classes of steps of the client, by what they do to the streams.     *)

\* At most one more item waits to be sent, and it is no pong.
Queues ==
  \/ UNCHANGED mTransmitBuffer
  \/ \E f \in Seq(Unit) :
       /\ Item(f) /\ ~Ponging(f)
       /\ mTransmitBuffer' = [mTransmitBuffer EXCEPT !["client"] = @ \o f]

inboxVars == <<mReceiveBuffer, mReceivedData, delivered>>

Stays == Queues /\ UNCHANGED <<inboxVars, netVars>> /\ Bound <= Bound'

Receives ==
  /\ wire["client"] # <<>>
  /\ mReceiveBuffer' = [mReceiveBuffer EXCEPT !["client"] = Append(@, Head(wire["client"]))]
  /\ wire' = [wire EXCEPT !["client"] = Tail(@)]
  /\ UNCHANGED <<mReceivedData, delivered, eof, mTransmitBuffer>> /\ Bound <= Bound'

Sends ==
  /\ mTransmitBuffer["client"] # <<>>
  /\ wire' = [wire EXCEPT !["server"] = Append(@, Head(mTransmitBuffer["client"]))]
  /\ mTransmitBuffer' = [mTransmitBuffer EXCEPT !["client"] = Tail(@)]
  /\ UNCHANGED <<inboxVars, eof>> /\ Bound <= Bound'

Loses ==
  /\ eof["client"] /\ mTransmitBuffer["client"] # <<>>
  /\ mTransmitBuffer' = [mTransmitBuffer EXCEPT !["client"] = Tail(@)]
  /\ UNCHANGED <<inboxVars, netVars>> /\ Bound <= Bound'

HangsUp ==
  /\ wire' = [wire EXCEPT !["client"] = <<>>]
  /\ eof' = [eof EXCEPT !["server"] = TRUE]
  /\ UNCHANGED <<inboxVars, mTransmitBuffer>> /\ Bound <= Bound'

TakesLine ==
  /\ wire["client"] # <<>> /\ wire["client"][1].kind = "line"
  /\ mReceiveBuffer["client"] = <<>>
  /\ wire' = [wire EXCEPT !["client"] = Tail(@)]
  /\ UNCHANGED <<inboxVars, eof, mTransmitBuffer>> /\ Bound <= Bound' + 1

\* What each opcode's frame does.
Took(h, body) ==
  \/ /\ h.op \in MessageOps /\ h.fin
     /\ delivered' = [delivered EXCEPT !["client"] =
          Append(@, [text |-> h.op = "TEXT", body |-> mReceivedData["client"] \o body])]
     /\ mReceivedData' = [mReceivedData EXCEPT !["client"] = <<>>]
     /\ Queues
  \/ /\ h.op \in MessageOps /\ ~h.fin
     /\ mReceivedData' = [mReceivedData EXCEPT !["client"] = @ \o body]
     /\ UNCHANGED <<delivered, mTransmitBuffer>>
  \/ /\ h.op = "PING"
     /\ mTransmitBuffer' = [mTransmitBuffer EXCEPT !["client"] =
          IF ClosingOrClosed("client") THEN @ ELSE @ \o Frame("PONG", TRUE, body)]
     /\ UNCHANGED <<delivered, mReceivedData>>
  \/ /\ h.op = "PONG"
     /\ UNCHANGED <<delivered, mReceivedData, mTransmitBuffer>>

Dispatches ==
  /\ nonblocking["client"] /\ nonblocking'["client"] /\ HasFrame("client")
  /\ mReceiveBuffer' = Consumed("client")
  /\ Took(Rx("client")[1], FramePayload("client"))
  /\ UNCHANGED netVars

Class == Stays \/ Receives \/ Sends \/ Loses \/ HangsUp \/ TakesLine \/ Dispatches

\* The number of lines that may come is a number.
LEMMA BoundNat ==
  ASSUME Control
  PROVE  Bound \in Nat
<1>1. CASE mReadyState["client"] = "CONNECTING"
  <2>1. mConnectionPhase["client"] \in DOMAIN LinesLeft
    BY <1>1 DEF Control
  <2>2. LinesLeft[mConnectionPhase["client"]] \in Nat
    BY <2>1, LinesFacts
  <2> QED
    BY <2>2 DEF Bound
<1>2. CASE mReadyState["client"] # "CONNECTING"
  BY <1>2 DEF Bound
<1> QED
  BY <1>1, <1>2

\* The same in the next state.
LEMMA BoundNext ==
  ASSUME Control'
  PROVE  Bound' \in Nat
<1>1. CASE mReadyState'["client"] = "CONNECTING"
  <2>1. mConnectionPhase'["client"] \in DOMAIN LinesLeft
    BY <1>1 DEF Control
  <2>2. LinesLeft[mConnectionPhase'["client"]] \in Nat
    BY <2>1, LinesFacts
  <2> QED
    BY <2>2 DEF Bound
<1>2. CASE mReadyState'["client"] # "CONNECTING"
  BY <1>2 DEF Bound
<1> QED
  BY <1>1, <1>2

\* It does not become less unless a line is read.
LEMMA BoundKept ==
  ASSUME Control, Control', UNCHANGED connectionVars,
         mReadyState'["client"] = mReadyState["client"]
           \/ mReadyState'["client"] \in {"CLOSING", "CLOSED"}
  PROVE  Bound <= Bound'
<1>1. /\ nonblocking' = nonblocking /\ mConnectionPhase' = mConnectionPhase
  BY DEF connectionVars
<1>2. CASE mReadyState'["client"] = mReadyState["client"]
  <2>1. Bound' = Bound
    BY <1>1, <1>2 DEF Bound
  <2> QED
    BY <2>1, BoundNat
<1>3. CASE mReadyState'["client"] \in {"CLOSING", "CLOSED"}
  <2>1. Bound' = IF nonblocking["client"] THEN 0 ELSE 6
    BY <1>1, <1>3 DEF Bound
  <2>2. CASE mReadyState["client"] = "CONNECTING"
    <3>1. mConnectionPhase["client"] \in DOMAIN LinesLeft
      BY <2>2 DEF Control
    <3>2. LinesLeft[mConnectionPhase["client"]] \in 1 .. 6
      BY <3>1, LinesFacts
    <3> QED
      BY <2>1, <3>2 DEF Bound
  <2>3. CASE mReadyState["client"] # "CONNECTING"
    BY <2>1, <2>3 DEF Bound
  <2> QED
    BY <2>2, <2>3
<1> QED
  BY <1>2, <1>3

\* close() queues a close frame or has nothing to do.
LEMMA DoCloseQueues ==
  ASSUME StreamTypes, DoClose("client")
  PROVE  Queues
<1>1. mTransmitBuffer = [e \in Endpoint |-> mTransmitBuffer[e]]
  BY DEF StreamTypes
<1>2. mTransmitBuffer' = [mTransmitBuffer EXCEPT !["client"] =
                            IF ClosingOrClosed("client") THEN @ ELSE @ \o CloseFrame]
  BY DEF DoClose
<1>3. CloseFrame \in Seq(Unit)
  BY CloseFacts DEF Item
<1>4. CASE ClosingOrClosed("client")
  BY <1>1, <1>2, <1>4 DEF Queues
<1>5. CASE ~ClosingOrClosed("client")
  BY <1>2, <1>3, <1>5, CloseFacts DEF Queues
<1> QED
  BY <1>4, <1>5

\* sendData() queues a frame or refuses.
LEMMA SendDataQueues ==
  ASSUME StreamTypes, NEW op \in Op \ {"PONG"}, NEW body \in Seq(Unit),
         SendData("client", op, body)
  PROVE  Queues
<1> DEFINE f == Frame(op, TRUE, body)
<1>1. mTransmitBuffer = [e \in Endpoint |-> mTransmitBuffer[e]]
  BY DEF StreamTypes
<1>2. mTransmitBuffer' = [mTransmitBuffer EXCEPT !["client"] =
                            IF ClosingOrClosed("client") THEN @ ELSE @ \o f]
  BY DEF SendData
<1>3. Item(f) /\ f \in Seq(Unit) /\ f[1] = Header(op, TRUE, Len(body))
  BY FrameFacts
<1> HIDE DEF f
<1>4. ~Ponging(f)
  BY <1>3 DEF Ponging, Header
<1>5. CASE ClosingOrClosed("client")
  BY <1>1, <1>2, <1>5 DEF Queues
<1>6. CASE ~ClosingOrClosed("client")
  BY <1>2, <1>3, <1>4, <1>6 DEF Queues
<1> QED
  BY <1>5, <1>6

\* So does a message of the application, which is then counted as sent.
LEMMA SendMessageQueues ==
  ASSUME StreamTypes, NEW op \in {"TEXT", "BINARY"}, NEW len \in Nat,
         SendMessage("client", op, len)
  PROVE  Queues /\ sent' \in [Endpoint -> Seq(Messages)]
<1> DEFINE k == Len(sent["client"]) + 1
           body == Body(k, len)
           q == Append(sent["client"], [text |-> op = "TEXT", body |-> body])
<1>1. sent \in [Endpoint -> Seq(Messages)] /\ sent["client"] \in Seq(Messages) /\ k \in Int
  BY OneEnd DEF StreamTypes
<1>2. body \in Seq(Unit)
  <2>1. \A i \in 1 .. len : Piece(k, i) \in Unit
    BY <1>1 DEF Piece, DataUnit, Unit
  <2> QED
    BY <2>1 DEF Body
<1>3. op \in Op \ {"PONG"}
  BY DEF Op, MessageOps
<1>4. SendData("client", op, body)
      /\ sent' = IF ClosingOrClosed("client") THEN sent ELSE [sent EXCEPT !["client"] = q]
  BY DEF SendMessage
<1> HIDE DEF body
<1>5. q \in Seq(Messages)
  <2>1. [text |-> op = "TEXT", body |-> body] \in Messages
    BY <1>2 DEF Messages
  <2> QED
    BY <1>1, <2>1
<1> HIDE DEF q
<1>6. sent' \in [Endpoint -> Seq(Messages)]
  BY <1>1, <1>4, <1>5
<1> QED
  BY <1>2, <1>3, <1>4, <1>6, SendDataQueues

\* The frame that is dispatched.
LEMMA HeadFrame ==
  ASSUME StreamTypes, Control, NEW d \in Nat, Inbound(d), nonblocking["client"],
         HasFrame("client")
  PROVE  /\ Rx("client")[1] \in HeadUnit /\ Head(Rx("client")) = Rx("client")[1]
         /\ FramePayload("client") \in Seq(Unit)
         /\ PlaceOf(d) \in Place
<1> DEFINE rb == Rx("client")
<1>1. /\ rb \in Seq(Unit) /\ wire["client"] \in Seq(Unit) /\ remote \in Remotes
      /\ delivered["client"] \in Seq(Messages) /\ mReceivedData["client"] \in Seq(Unit)
  BY OneEnd DEF StreamTypes, Rx
<1>2. PlaceOf(d) \in Place
  BY <1>1 DEF PlaceOf, Place
<1>3. Down(rb, wire["client"], eof["server"], PlaceOf(d), remote, 0)
  BY DEF Inbound, Bound, Rx
<1>4. rb # <<>> /\ Len(rb) >= 1 + Head(rb).len
  BY DEF HasFrame
<1> HIDE DEF rb
<1>5. Head(rb) = rb[1]
  BY <1>1, <1>4
<1>6. rb[1] \in HeadUnit
  BY <1>1, <1>2, <1>3, <1>4, <1>5, DownFrame
<1>7. PICK n \in Nat : n = rb[1].len /\ 1 + n <= Len(rb)
  BY <1>4, <1>5, <1>6 DEF HeadUnit
<1>8. SubSeq(rb, 2, 1 + n) \in Seq(Unit)
  BY <1>1, <1>7
<1> QED
  BY <1>2, <1>5, <1>6, <1>7, <1>8 DEF rb, FramePayload

\* Every step is of one of the classes.
LEMMA StepClass ==
  ASSUME ControlTypes, StreamTypes, Control, NEW d \in Nat, Inbound(d),
         ProperStep
  PROVE  Class /\ sent' \in [Endpoint -> Seq(Messages)]
<1>a. /\ Control' /\ ControlTypes'
  BY ControlStep, ControlTypesStep
<1>b. /\ mReadyState \in [Endpoint -> States] /\ sent \in [Endpoint -> Seq(Messages)]
      /\ wire \in [Node -> Seq(Unit)] /\ eof \in [Node -> BOOLEAN]
      /\ wire["client"] \in Seq(Unit)
  BY OneEnd DEF ControlTypes, StreamTypes
<1>c. /\ pc["client"] \in {"send", "dispatch"} => nonblocking["client"]
      /\ mReadyState["client"] = "CONNECTING" =>
           mReceiveBuffer["client"] = <<>> /\ ~nonblocking["client"]
      /\ eof["server"] => wire["client"] = <<>>
  BY DEF Control
<1>d. ASSUME DoClose("client") PROVE mReadyState'["client"] = mReadyState["client"]
           \/ mReadyState'["client"] \in {"CLOSING", "CLOSED"}
  BY <1>b, <1>d, OneEnd DEF DoClose
<1>e. ASSUME mReadyState' = mReadyState, UNCHANGED connectionVars PROVE Bound <= Bound'
  BY <1>a, <1>e, BoundKept
<1>f. ASSUME DoClose("client"), UNCHANGED connectionVars PROVE Bound <= Bound' /\ Queues
  BY <1>a, <1>d, <1>f, BoundKept, DoCloseQueues
<1>g. ASSUME GiveUp("client") \/ Drop("client"), UNCHANGED connectionVars,
             UNCHANGED <<inboxVars, mTransmitBuffer>>
      PROVE  HangsUp
  <2>1. mReadyState'["client"] = "CLOSED"
    BY <1>b, <1>g, OneEnd DEF GiveUp, Drop
  <2>2. Bound <= Bound'
    BY <1>a, <1>g, <2>1, BoundKept
  <2> QED
    BY <1>b, <1>g, <2>2, OneEnd DEF HangsUp, GiveUp, Drop, HangUp
<1>1. CASE \E op \in Kinds, len \in Lengths : Send("client", op, len)
  <2>1. PICK op \in Kinds, len \in Lengths : Send("client", op, len)
    BY <1>1
  <2>2. op \in {"TEXT", "BINARY"} /\ len \in Nat
    BY EndpointAssumption
  <2>3. Queues /\ sent' \in [Endpoint -> Seq(Messages)]
    BY <2>1, <2>2, SendMessageQueues DEF Send
  <2>4. UNCHANGED <<inboxVars, netVars>> /\ UNCHANGED connectionVars /\ mReadyState' = mReadyState
    BY <2>1 DEF Send, inboxVars
  <2> QED
    BY <1>e, <2>3, <2>4 DEF Stays, Class
<1>2. CASE SendPing("client")
  <2>1. "PING" \in Op \ {"PONG"} /\ <<>> \in Seq(Unit)
    BY DEF Op
  <2>2. Queues
    BY <1>2, <2>1, SendDataQueues DEF SendPing
  <2>3. /\ UNCHANGED <<inboxVars, netVars>> /\ UNCHANGED connectionVars
        /\ mReadyState' = mReadyState /\ sent' = sent
    BY <1>2 DEF SendPing, inboxVars
  <2> QED
    BY <1>b, <1>e, <2>2, <2>3 DEF Stays, Class
<1>3. CASE Close("client")
  <2>1. /\ DoClose("client") /\ UNCHANGED <<inboxVars, netVars>> /\ UNCHANGED connectionVars
        /\ sent' = sent
    BY <1>3 DEF Close, inboxVars, historyVars
  <2> QED
    BY <1>b, <1>f, <2>1 DEF Stays, Class
<1>4. CASE Delete("client")
  <2>1. /\ DoClose("client") /\ UNCHANGED <<inboxVars, netVars>> /\ UNCHANGED connectionVars
        /\ sent' = sent
    BY <1>4 DEF Delete, inboxVars, historyVars
  <2> QED
    BY <1>b, <1>f, <2>1 DEF Stays, Class
<1>5. CASE ConnectTimeout("client")
  <2>1. /\ GiveUp("client") /\ UNCHANGED connectionVars /\ sent' = sent
        /\ UNCHANGED <<inboxVars, mTransmitBuffer>>
    BY <1>5 DEF ConnectTimeout, inboxVars, bufferVars, historyVars
  <2> QED
    BY <1>b, <1>g, <2>1 DEF Class
<1>6. CASE LongLine("client")
  <2>1. /\ GiveUp("client") /\ UNCHANGED connectionVars /\ sent' = sent
        /\ UNCHANGED <<inboxVars, mTransmitBuffer>>
    BY <1>6 DEF LongLine, inboxVars, bufferVars, historyVars
  <2> QED
    BY <1>b, <1>g, <2>1 DEF Class
<1>7. CASE AcceptStatus("client")
  <2>1. /\ wire["client"] # <<>> /\ wire["client"][1].kind = "line"
        /\ mReadyState["client"] = "CONNECTING" /\ mConnectionPhase["client"] = "HTTP_STATUS"
    BY <1>b, <1>7 DEF AcceptStatus, HasLine, AtLine, CanConnect
  <2>2. /\ wire' = [wire EXCEPT !["client"] = Tail(@)] /\ sent' = sent
        /\ mConnectionPhase' = [mConnectionPhase EXCEPT !["client"] = "HCONNECTION_UPGRADE"]
        /\ UNCHANGED <<inboxVars, eof, mTransmitBuffer, mReadyState, nonblocking>>
    BY <1>7 DEF AcceptStatus, inboxVars, bufferVars, historyVars
  <2>3. mConnectionPhase'["client"] = "HCONNECTION_UPGRADE"
    BY <2>2, OneEnd DEF ControlTypes
  <2>4. Bound = 6 /\ Bound' = 5
    BY <1>c, <2>1, <2>2, <2>3, LinesFacts DEF Bound
  <2>5. TakesLine
    BY <1>c, <2>1, <2>2, <2>4 DEF TakesLine
  <2> QED
    BY <1>b, <2>2, <2>5 DEF Class
<1>8. CASE RefuseLine("client")
  <2>1. /\ GiveUp("client") /\ UNCHANGED connectionVars /\ sent' = sent
        /\ UNCHANGED <<inboxVars, mTransmitBuffer>>
    BY <1>8 DEF RefuseLine, inboxVars, bufferVars, historyVars
  <2> QED
    BY <1>b, <1>g, <2>1 DEF Class
<1>9. CASE ServerLine("client")
  <2>1. mReadyState["client"] = "CONNECTING" /\ mConnectionPhase["client"] = "SERVER_CLIENT_STRINGS"
    BY <1>9 DEF ServerLine, HasLine, AtLine, CanConnect
  <2>2. "SERVER_CLIENT_STRINGS" \notin DOMAIN LinesLeft
    BY LinesFacts
  <2> QED
    BY <2>1, <2>2 DEF Control
<1>10. CASE ClientLine("client")
  <2>1. /\ wire["client"] # <<>> /\ wire["client"][1].kind = "line"
        /\ mReadyState["client"] = "CONNECTING"
    BY <1>b, <1>10 DEF ClientLine, HasLine, AtLine, CanConnect
  <2>2. /\ wire' = [wire EXCEPT !["client"] = Tail(@)] /\ sent' = sent
        /\ UNCHANGED <<inboxVars, eof, mTransmitBuffer>>
    BY <1>10 DEF ClientLine, inboxVars, bufferVars, historyVars
  <2>3. Bound <= Bound' + 1
    <3>1. CASE mConnectionPhase["client"] = "H"
      <4>1. Bound = 1
        BY <1>c, <2>1, <3>1, LinesFacts DEF Bound
      <4>2. PICK k \in Nat : Bound' = k
        BY <1>a, BoundNext
      <4> QED
        BY <4>1, <4>2
    <3>2. CASE mConnectionPhase["client"] # "H"
      <4>1. /\ mConnectionPhase["client"] \in DOMAIN NextPhase
            /\ mConnectionPhase' = [mConnectionPhase EXCEPT !["client"] = NextPhase[@]]
            /\ mReadyState' = mReadyState /\ nonblocking' = nonblocking
        BY <1>10, <3>2 DEF ClientLine
      <4>2. mConnectionPhase'["client"] = NextPhase[mConnectionPhase["client"]]
        BY <4>1, OneEnd DEF ControlTypes
      <4>3. /\ Bound = LinesLeft[mConnectionPhase["client"]]
            /\ Bound' = LinesLeft[mConnectionPhase'["client"]]
        BY <1>c, <2>1, <4>1 DEF Bound
      <4>4. PICK k \in Nat : Bound' = k
        BY <1>a, BoundNext
      <4>5. Bound = k + 1
        BY <4>1, <4>2, <4>3, <4>4, LinesFacts
      <4> QED
        BY <4>4, <4>5
    <3> QED
      BY <3>1, <3>2
  <2>4. TakesLine
    BY <1>c, <2>1, <2>2, <2>3 DEF TakesLine
  <2> QED
    BY <1>b, <2>2, <2>4 DEF Class
<1>11. CASE PollBegin("client")
  <2>1. /\ UNCHANGED <<inboxVars, netVars>> /\ UNCHANGED connectionVars /\ sent' = sent
        /\ mReadyState' = mReadyState /\ mTransmitBuffer' = mTransmitBuffer
    BY <1>11 DEF PollBegin, At, inboxVars, bufferVars, historyVars
  <2> QED
    BY <1>b, <1>e, <2>1 DEF Stays, Queues, Class
<1>12. CASE Receive("client")
  <2>1. UNCHANGED connectionVars /\ sent' = sent /\ mReadyState' = mReadyState
    BY <1>12 DEF Receive, At, historyVars
  <2>2. Bound <= Bound'
    BY <1>e, <2>1
  <2>3. Receives
    BY <1>12, <2>2, OneEnd DEF Receive, Receives, At, PeerClosed, inboxVars, historyVars
  <2> QED
    BY <1>b, <2>1, <2>3 DEF Class
<1>13. CASE ReceiveWouldBlock("client")
  <2>1. /\ UNCHANGED <<inboxVars, netVars>> /\ UNCHANGED connectionVars /\ sent' = sent
        /\ mReadyState' = mReadyState /\ mTransmitBuffer' = mTransmitBuffer
    BY <1>13 DEF ReceiveWouldBlock, At, inboxVars, bufferVars, historyVars
  <2> QED
    BY <1>b, <1>e, <2>1 DEF Stays, Queues, Class
<1>14. CASE ReceiveEnd("client")
  <2>1. /\ Drop("client") /\ UNCHANGED connectionVars /\ sent' = sent
        /\ UNCHANGED <<inboxVars, mTransmitBuffer>>
    BY <1>14 DEF ReceiveEnd, At, inboxVars, bufferVars, historyVars
  <2> QED
    BY <1>b, <1>g, <2>1 DEF Class
<1>15. CASE SendSome("client")
  <2>1. UNCHANGED connectionVars /\ sent' = sent /\ mReadyState' = mReadyState
    BY <1>15 DEF SendSome, At, historyVars
  <2>2. Bound <= Bound'
    BY <1>e, <2>1
  <2>3. Sends
    BY <1>15, <2>2, OneEnd DEF SendSome, Sends, At, PeerClosed, inboxVars, historyVars
  <2> QED
    BY <1>b, <2>1, <2>3 DEF Class
<1>16. CASE SendLost("client")
  <2>1. UNCHANGED connectionVars /\ sent' = sent /\ mReadyState' = mReadyState
    BY <1>16 DEF SendLost, At, historyVars
  <2>2. Bound <= Bound'
    BY <1>e, <2>1
  <2>3. Loses
    BY <1>16, <2>2, OneEnd DEF SendLost, Loses, At, PeerClosed, inboxVars, historyVars
  <2> QED
    BY <1>b, <2>1, <2>3 DEF Class
<1>17. CASE SendError("client")
  <2>1. /\ Drop("client") /\ UNCHANGED connectionVars /\ sent' = sent
        /\ UNCHANGED <<inboxVars, mTransmitBuffer>>
    BY <1>17 DEF SendError, At, inboxVars, bufferVars, historyVars
  <2> QED
    BY <1>b, <1>g, <2>1 DEF Class
<1>18. CASE SendWouldBlock("client")
  <2>1. /\ UNCHANGED <<inboxVars, netVars>> /\ UNCHANGED connectionVars /\ sent' = sent
        /\ mReadyState' = mReadyState /\ mTransmitBuffer' = mTransmitBuffer
    BY <1>18 DEF SendWouldBlock, At, inboxVars, bufferVars, historyVars
  <2> QED
    BY <1>b, <1>e, <2>1 DEF Stays, Queues, Class
<1>19. CASE SendDone("client")
  <2>1. /\ UNCHANGED connectionVars /\ sent' = sent
        /\ UNCHANGED <<inboxVars, mTransmitBuffer>>
        /\ Drop("client") \/ (UNCHANGED netVars /\ mReadyState' = mReadyState)
    BY <1>19 DEF SendDone, At, inboxVars, bufferVars, historyVars
  <2> QED
    BY <1>b, <1>e, <1>g, <2>1 DEF Stays, Queues, Class
<1>20. CASE \E reaction \in Reactions : DispatchMessage("client", reaction)
  <2>1. PICK reaction \in Reactions : DispatchMessage("client", reaction)
    BY <1>20
  <2>2. /\ nonblocking["client"] /\ nonblocking' = nonblocking /\ HasFrame("client")
    BY <1>c, <2>1 DEF DispatchMessage, Dispatching, At, connectionVars
  <2>3. /\ Rx("client")[1] \in HeadUnit /\ Head(Rx("client")) = Rx("client")[1]
        /\ FramePayload("client") \in Seq(Unit)
    BY <2>2, HeadFrame
  <2>4. /\ Rx("client")[1].op \in MessageOps /\ Rx("client")[1].fin
        /\ Rx("client")[1].len \in Nat
    BY <2>1, <2>3 DEF DispatchMessage, Dispatching, MessageOps, HeadUnit
  <2>5. /\ mReceiveBuffer' = Consumed("client") /\ UNCHANGED netVars
        /\ Reaction("client", reaction)
        /\ mReceivedData' = [mReceivedData EXCEPT !["client"] = <<>>]
        /\ delivered' = [delivered EXCEPT !["client"] =
             Append(@, [text |-> Rx("client")[1].op = "TEXT",
                        body |-> mReceivedData["client"] \o FramePayload("client")])]
    BY <2>1, <2>3 DEF DispatchMessage
  <2>6. Queues /\ sent' \in [Endpoint -> Seq(Messages)]
    <3>1. CASE reaction = "none"
      BY <1>b, <2>5, <3>1 DEF Reaction, Queues
    <3>2. CASE reaction = "close"
      BY <1>b, <2>5, <3>2, DoCloseQueues DEF Reaction
    <3>3. CASE reaction = "echo"
      BY <2>3, <2>4, <2>5, <3>3, SendMessageQueues DEF Reaction
    <3> QED
      BY <2>5, <3>1, <3>2, <3>3 DEF Reaction
  <2>7. Dispatches
    BY <2>2, <2>4, <2>5, <2>6 DEF Dispatches, Took
  <2> QED
    BY <2>6, <2>7 DEF Class
<1>21. CASE DispatchFragment("client")
  <2>1. nonblocking["client"] /\ nonblocking' = nonblocking /\ HasFrame("client")
    BY <1>c, <1>21 DEF DispatchFragment, Dispatching, At, connectionVars
  <2>2. Head(Rx("client")) = Rx("client")[1]
    BY <2>1, HeadFrame
  <2>3. Took(Rx("client")[1], FramePayload("client"))
    BY <1>21, <2>2 DEF DispatchFragment, Dispatching, Took, MessageOps, historyVars
  <2>4. mReceiveBuffer' = Consumed("client") /\ UNCHANGED netVars /\ sent' = sent
    BY <1>21 DEF DispatchFragment, historyVars
  <2> QED
    BY <1>b, <2>1, <2>3, <2>4 DEF Dispatches, Class
<1>22. CASE DispatchPing("client")
  <2>1. nonblocking["client"] /\ nonblocking' = nonblocking /\ HasFrame("client")
    BY <1>c, <1>22 DEF DispatchPing, Dispatching, At, connectionVars
  <2>2. Head(Rx("client")) = Rx("client")[1]
    BY <2>1, HeadFrame
  <2>3. Took(Rx("client")[1], FramePayload("client"))
    BY <1>22, <2>2 DEF DispatchPing, Dispatching, Took, MessageOps, historyVars, SendData
  <2>4. mReceiveBuffer' = Consumed("client") /\ UNCHANGED netVars /\ sent' = sent
    BY <1>22 DEF DispatchPing, historyVars
  <2> QED
    BY <1>b, <2>1, <2>3, <2>4 DEF Dispatches, Class
<1>23. CASE DispatchPong("client")
  <2>1. nonblocking["client"] /\ nonblocking' = nonblocking /\ HasFrame("client")
    BY <1>c, <1>23 DEF DispatchPong, Dispatching, At, connectionVars
  <2>2. Head(Rx("client")) = Rx("client")[1]
    BY <2>1, HeadFrame
  <2>3. Took(Rx("client")[1], FramePayload("client"))
    BY <1>23, <2>2 DEF DispatchPong, Dispatching, Took, MessageOps, historyVars
  <2>4. mReceiveBuffer' = Consumed("client") /\ UNCHANGED netVars /\ sent' = sent
    BY <1>23 DEF DispatchPong, historyVars
  <2> QED
    BY <1>b, <2>1, <2>3, <2>4 DEF Dispatches, Class
<1>24. CASE DispatchClose("client")
  <2>1. /\ DoClose("client") /\ UNCHANGED <<inboxVars, netVars>> /\ UNCHANGED connectionVars
        /\ sent' = sent
    BY <1>24 DEF DispatchClose, inboxVars, historyVars, Dispatching, At
  <2> QED
    BY <1>b, <1>f, <2>1 DEF Stays, Class
<1>25. CASE DispatchDone("client")
  <2>1. /\ UNCHANGED <<inboxVars, netVars>> /\ UNCHANGED connectionVars /\ sent' = sent
        /\ mReadyState' = mReadyState /\ mTransmitBuffer' = mTransmitBuffer
    BY <1>25 DEF DispatchDone, At, inboxVars, bufferVars, historyVars
  <2> QED
    BY <1>b, <1>e, <2>1 DEF Stays, Queues, Class
<1>26. CASE Deleted("client")
  <2>1. /\ UNCHANGED connectionVars /\ sent' = sent /\ mReadyState' = mReadyState
        /\ UNCHANGED <<inboxVars, mTransmitBuffer>>
    BY <1>26 DEF Deleted, inboxVars, bufferVars, historyVars
  <2>2. Bound <= Bound'
    BY <1>e, <2>1
  <2>3. HangsUp \/ Stays
    BY <1>26, <2>1, <2>2, OneEnd DEF Deleted, HangUp, HangsUp, Stays, Queues
  <2> QED
    BY <1>b, <2>1, <2>3 DEF Class
<1> QED
  BY <1>1, <1>2, <1>3, <1>4, <1>5, <1>6, <1>7, <1>8, <1>9, <1>10, <1>11, <1>12, <1>13, <1>14,
     <1>15, <1>16, <1>17, <1>18, <1>19, <1>20, <1>21, <1>22, <1>23, <1>24, <1>25, <1>26,
     StepCases

-----------------------------------------------------------------------------
(* The steps of the client keep the invariant.                             *)

\* The streams of the client.
LEMMA StreamFacts ==
  ASSUME StreamTypes
  PROVE  /\ mReceiveBuffer["client"] \in Seq(Unit) /\ mTransmitBuffer["client"] \in Seq(Unit)
         /\ mReceivedData["client"] \in Seq(Unit)
         /\ wire["client"] \in Seq(Unit) /\ wire["server"] \in Seq(Unit)
         /\ delivered["client"] \in Seq(Messages) /\ remote \in Remotes
         /\ \A d \in Nat : PlaceOf(d) \in Place
BY OneEnd DEF StreamTypes, PlaceOf, Place

\* What may wait to be sent keeps its type.
LEMMA QueuesTypes ==
  ASSUME StreamTypes, Queues
  PROVE  mTransmitBuffer' \in [Endpoint -> Seq(Unit)]
<1>1. mTransmitBuffer \in [Endpoint -> Seq(Unit)] /\ mTransmitBuffer["client"] \in Seq(Unit)
  BY OneEnd DEF StreamTypes
<1>2. CASE UNCHANGED mTransmitBuffer
  BY <1>1, <1>2
<1>3. CASE ~UNCHANGED mTransmitBuffer
  <2>1. PICK f \in Seq(Unit) :
          mTransmitBuffer' = [mTransmitBuffer EXCEPT !["client"] = mTransmitBuffer["client"] \o f]
    BY <1>3 DEF Queues
  <2>2. mTransmitBuffer["client"] \o f \in Seq(Unit)
    BY <1>1
  <2> QED
    BY <1>1, <2>1, <2>2
<1> QED
  BY <1>2, <1>3

\* Every step of the client keeps the types of the streams.
LEMMA StreamTypesStep ==
  ASSUME ControlTypes, StreamTypes, Control, NEW d \in Nat, Inbound(d), Class,
         remote' = remote, sent' \in [Endpoint -> Seq(Messages)]
  PROVE  StreamTypes'
<1>a. /\ mReceiveBuffer \in [Endpoint -> Seq(Unit)] /\ mTransmitBuffer \in [Endpoint -> Seq(Unit)]
      /\ mReceivedData \in [Endpoint -> Seq(Unit)] /\ wire \in [Node -> Seq(Unit)]
      /\ delivered \in [Endpoint -> Seq(Messages)]
      /\ remote' \in Remotes
  BY DEF StreamTypes
<1>b. /\ mReceiveBuffer["client"] \in Seq(Unit) /\ mTransmitBuffer["client"] \in Seq(Unit)
      /\ mReceivedData["client"] \in Seq(Unit) /\ delivered["client"] \in Seq(Messages)
      /\ wire["client"] \in Seq(Unit) /\ wire["server"] \in Seq(Unit)
  BY StreamFacts
<1>1. CASE Stays
  BY <1>a, <1>1, QueuesTypes DEF Stays, StreamTypes, inboxVars, netVars
<1>2. CASE Receives
  <2>1. Append(mReceiveBuffer["client"], Head(wire["client"])) \in Seq(Unit)
        /\ Tail(wire["client"]) \in Seq(Unit)
    BY <1>b, <1>2, MoveHead DEF Receives
  <2> QED
    BY <1>a, <1>2, <2>1 DEF Receives, StreamTypes
<1>3. CASE Sends
  <2>1. Append(wire["server"], Head(mTransmitBuffer["client"])) \in Seq(Unit)
        /\ Tail(mTransmitBuffer["client"]) \in Seq(Unit)
    BY <1>b, <1>3, MoveHead DEF Sends
  <2> QED
    BY <1>a, <1>3, <2>1, OneEnd DEF Sends, StreamTypes, inboxVars
<1>4. CASE Loses
  <2>1. Tail(mTransmitBuffer["client"]) \in Seq(Unit)
    BY <1>b, <1>4 DEF Loses
  <2> QED
    BY <1>a, <1>4, <2>1 DEF Loses, StreamTypes, inboxVars, netVars
<1>5. CASE HangsUp
  <2>1. <<>> \in Seq(Unit)
    OBVIOUS
  <2> QED
    BY <1>a, <1>5, <2>1 DEF HangsUp, StreamTypes, inboxVars
<1>6. CASE TakesLine
  <2>1. Tail(wire["client"]) \in Seq(Unit)
    BY <1>b, <1>6 DEF TakesLine
  <2> QED
    BY <1>a, <1>6, <2>1 DEF TakesLine, StreamTypes, inboxVars
<1>7. CASE Dispatches
  <2> DEFINE rb == mReceiveBuffer["client"]
             h == rb[1]
             body == FramePayload("client")
             got == mReceivedData["client"] \o body
             message == [text |-> h.op = "TEXT", body |-> got]
  <2>1. h \in HeadUnit /\ body \in Seq(Unit) /\ Head(rb) = h
    BY <1>7, HeadFrame DEF Dispatches, Rx
  <2>2. mReceiveBuffer' = [mReceiveBuffer EXCEPT !["client"] = SubSeq(rb, 2 + h.len, Len(rb))]
    BY <1>7, <2>1, OneEnd DEF Dispatches, Consumed
  <2>3. SubSeq(rb, 2 + h.len, Len(rb)) \in Seq(Unit)
    <3>1. PICK n \in Nat : n = h.len
      BY <2>1 DEF HeadUnit
    <3>2. PICK l \in Nat : l = Len(rb)
      BY <1>b
    <3>3. SubSeq(rb, 2 + n, l) \in Seq(Unit)
      BY <1>b, <3>2
    <3> QED
      BY <3>1, <3>2, <3>3
  <2>4. mReceiveBuffer' \in [Endpoint -> Seq(Unit)]
    BY <1>a, <2>2, <2>3
  <2>5. got \in Seq(Unit)
    <3> HIDE DEF body
    <3> QED
      BY <1>b, <2>1
  <2> HIDE DEF got
  <2>6. message \in Messages
    BY <2>5 DEF Messages
  <2> HIDE DEF message
  <2>7. Took(h, body) /\ UNCHANGED netVars
    BY <1>7 DEF Dispatches, Rx
  <2>8. /\ mReceivedData' \in [Endpoint -> Seq(Unit)] /\ delivered' \in [Endpoint -> Seq(Messages)]
        /\ mTransmitBuffer' \in [Endpoint -> Seq(Unit)]
    <3>1. CASE /\ delivered' = [delivered EXCEPT !["client"] = Append(@, message)]
               /\ mReceivedData' = [mReceivedData EXCEPT !["client"] = <<>>]
               /\ Queues
      <4>1. Append(delivered["client"], message) \in Seq(Messages) /\ <<>> \in Seq(Unit)
        BY <1>b, <2>6
      <4> QED
        BY <1>a, <3>1, <4>1, QueuesTypes
    <3>2. CASE /\ mReceivedData' = [mReceivedData EXCEPT !["client"] = got]
               /\ UNCHANGED <<delivered, mTransmitBuffer>>
      BY <1>a, <2>5, <3>2
    <3>3. CASE /\ mTransmitBuffer' = [mTransmitBuffer EXCEPT !["client"] =
                     IF ClosingOrClosed("client") THEN @ ELSE @ \o Frame("PONG", TRUE, body)]
               /\ UNCHANGED <<delivered, mReceivedData>>
      <4>1. Frame("PONG", TRUE, body) \in Seq(Unit)
        <5>1. "PONG" \in Op /\ TRUE \in BOOLEAN
          BY DEF Op
        <5> QED
          BY <2>1, <5>1, FrameFacts
      <4>2. mTransmitBuffer["client"] \o Frame("PONG", TRUE, body) \in Seq(Unit)
        <5> DEFINE f == Frame("PONG", TRUE, body)
        <5>1. f \in Seq(Unit)
          BY <4>1
        <5> HIDE DEF f
        <5>2. mTransmitBuffer["client"] \o f \in Seq(Unit)
          BY <1>b, <5>1
        <5> QED
          BY <5>2 DEF f
      <4> HIDE DEF body
      <4> QED
        BY <1>a, <1>b, <3>3, <4>2
    <3>4. CASE UNCHANGED <<delivered, mReceivedData, mTransmitBuffer>>
      BY <1>a, <3>4
    <3> QED
      BY <2>7, <3>1, <3>2, <3>3, <3>4 DEF Took, got, message
  <2> QED
    BY <1>7, <1>a, <2>4, <2>7, <2>8 DEF StreamTypes, netVars
<1> QED
  BY <1>1, <1>2, <1>3, <1>4, <1>5, <1>6, <1>7 DEF Class

\* What may be queued answers no ping.
LEMMA QueuesOutbound ==
  ASSUME StreamTypes, NEW d \in Nat, Outbound(d), Queues, wire'["server"] = wire["server"],
         remote' = remote, eof'["client"] = eof["client"],
         ClosingOrClosed("client") => ClosingOrClosed("client")'
  PROVE  Outbound(d)'
<1> SUFFICES ASSUME ~eof["client"]
             PROVE  \E m \in Nat : Up(Outgoing', remote, m)
                                   /\ (~ClosingOrClosed("client")' => m = d)
  BY DEF Outbound
<1>1. PICK m \in Nat : Up(Outgoing, remote, m) /\ (~ClosingOrClosed("client") => m = d)
  BY DEF Outbound
<1> DEFINE t == mTransmitBuffer["client"]
           w == wire["server"]
<1>2. t \in Seq(Unit) /\ w \in Seq(Unit) /\ DOMAIN mTransmitBuffer = Endpoint
  BY StreamFacts DEF StreamTypes
<1> HIDE DEF t, w
<1>3. Outgoing = w \o t /\ Outgoing' = w \o mTransmitBuffer'["client"]
  BY DEF Outgoing, t, w
<1>4. Up(Outgoing', remote, m)
  <2>1. CASE UNCHANGED mTransmitBuffer
    BY <1>1, <1>3, <2>1 DEF t
  <2>2. CASE ~UNCHANGED mTransmitBuffer
    <3>1. PICK f \in Seq(Unit) :
            /\ Item(f) /\ ~Ponging(f)
            /\ mTransmitBuffer' = [mTransmitBuffer EXCEPT !["client"] = t \o f]
      BY <2>2 DEF Queues, t
    <3>2. Outgoing' = w \o (t \o f)
      BY <1>2, <1>3, <3>1, OneEnd
    <3>3. Outgoing' = (w \o t) \o f
      BY <1>2, <3>1, <3>2, ConcatAssoc, SMTT(30)
    <3>4. w \o t \in Seq(Unit) /\ PongStep(remote, f, m, m)
      BY <1>2, <3>1 DEF PongStep
    <3> QED
      BY <1>1, <1>3, <3>1, <3>3, <3>4, UpAppend
  <2> QED
    BY <2>1, <2>2
<1> QED
  BY <1>1, <1>4

\* What does not touch the inbox leaves the client where it is.
LEMMA GotKept ==
  ASSUME Got, UNCHANGED <<mReceivedData, delivered>>, remote' = remote
  PROVE  Got' /\ \A d : PlaceOf(d)' = PlaceOf(d)
BY DEF Got, PlaceOf

\* The steps that dispatch nothing.
LEMMA StreamsKept ==
  ASSUME ControlTypes, StreamTypes, Control, Control', NEW d \in Nat, Inbound(d), Outbound(d),
         Stays \/ Receives \/ Sends \/ Loses \/ HangsUp \/ TakesLine,
         remote' = remote, eof'["client"] = eof["client"],
         ClosingOrClosed("client") => ClosingOrClosed("client")'
  PROVE  Inbound(d)' /\ Outbound(d)' /\ UNCHANGED <<mReceivedData, delivered>>
<1> DEFINE rb == mReceiveBuffer["client"]
           w == wire["client"]
           gone == eof["server"]
           x == PlaceOf(d)
           R == remote
<1>a. /\ rb \in Seq(Unit) /\ w \in Seq(Unit) /\ R \in Remotes /\ x \in Place
      /\ mTransmitBuffer["client"] \in Seq(Unit) /\ wire["server"] \in Seq(Unit)
  BY StreamFacts
<1>b. /\ wire = [n \in Node |-> wire[n]] /\ DOMAIN eof = Node /\ DOMAIN mTransmitBuffer = Endpoint
      /\ DOMAIN mReceiveBuffer = Endpoint /\ gone \in BOOLEAN
  BY OneEnd DEF StreamTypes, ControlTypes
<1>c. Down(rb, w, gone, x, R, Bound) /\ (gone => w = <<>>)
  BY DEF Inbound, Control
<1>d. PICK b \in Nat, c \in Nat : b = Bound /\ c = Bound'
  BY BoundNat, BoundNext
<1>e. ASSUME UNCHANGED <<mReceivedData, delivered>>
      PROVE  PlaceOf(d)' = x
  BY <1>e DEF PlaceOf
<1>f. \A s \in Seq(Unit) : \A v, g : Down(s, v, g, x, R, b) /\ b <= c => Down(s, v, g, x, R, c)
  BY <1>a, DownSame
<1>g. ASSUME UNCHANGED <<mReceivedData, delivered>>,
             Down(mReceiveBuffer'["client"], wire'["client"], eof'["server"], x, R, c)
      PROVE  Inbound(d)'
  BY <1>d, <1>e, <1>g DEF Inbound
<1>h. ASSUME Outgoing' = Outgoing PROVE Outbound(d)'
  BY <1>h DEF Outbound
<1> HIDE DEF rb, w, gone, x, R
<1>1. CASE Stays
  <2>1. b <= c /\ UNCHANGED <<mReceivedData, delivered, mReceiveBuffer, wire, eof>> /\ Queues
    BY <1>1, <1>d DEF Stays, inboxVars, netVars
  <2>2. Down(rb, w, gone, x, R, c)
    BY <1>a, <1>c, <1>d, <1>f, <2>1
  <2>3. Inbound(d)'
    BY <1>g, <2>1, <2>2 DEF rb, w, gone
  <2>4. Outbound(d)'
    BY <2>1, QueuesOutbound
  <2> QED
    BY <2>1, <2>3, <2>4
<1>2. CASE Receives
  <2>1. /\ b <= c /\ UNCHANGED <<mReceivedData, delivered, eof, mTransmitBuffer>>
        /\ mReceiveBuffer'["client"] = Append(rb, Head(w)) /\ wire'["client"] = Tail(w)
        /\ w # <<>> /\ wire'["server"] = wire["server"]
    BY <1>2, <1>b, <1>d, OneEnd DEF Receives, rb, w
  <2>2. ~gone
    BY <1>c, <2>1
  <2>3. Down(Append(rb, Head(w)), Tail(w), gone, x, R, b)
    BY <1>a, <1>c, <1>d, <2>1, <2>2, DownReceive
  <2>4. Append(rb, Head(w)) \in Seq(Unit)
    BY <1>a, <2>1, MoveHead
  <2>5. Down(Append(rb, Head(w)), Tail(w), gone, x, R, c)
    BY <1>f, <2>1, <2>3, <2>4
  <2>6. Inbound(d)'
    BY <1>g, <2>1, <2>5 DEF gone
  <2>7. Outgoing' = Outgoing
    BY <2>1 DEF Outgoing
  <2> QED
    BY <1>h, <2>1, <2>6, <2>7
<1>3. CASE Sends
  <2> DEFINE t == mTransmitBuffer["client"]
             v == wire["server"]
  <2>1. /\ b <= c /\ UNCHANGED <<mReceivedData, delivered, mReceiveBuffer, eof>>
        /\ wire'["client"] = w /\ wire'["server"] = Append(v, Head(t))
        /\ mTransmitBuffer'["client"] = Tail(t) /\ t # <<>>
    BY <1>3, <1>b, <1>d, OneEnd DEF Sends, inboxVars, w
  <2>2. Down(rb, w, gone, x, R, c)
    BY <1>a, <1>c, <1>d, <1>f, <2>1
  <2>3. Inbound(d)'
    BY <1>g, <2>1, <2>2 DEF rb, gone
  <2>4. t \in Seq(Unit) /\ v \in Seq(Unit)
    BY <1>a
  <2> HIDE DEF t, v
  <2>5. Append(v, Head(t)) \o Tail(t) = v \o t
    BY <2>1, <2>4, MoveHead
  <2>6. Outgoing' = Outgoing
    BY <2>1, <2>5 DEF Outgoing, t, v
  <2> QED
    BY <1>h, <2>1, <2>3, <2>6
<1>4. CASE Loses
  <2>1. b <= c /\ UNCHANGED <<mReceivedData, delivered, mReceiveBuffer, wire, eof>> /\ eof["client"]
    BY <1>4, <1>d DEF Loses, inboxVars, netVars
  <2>2. Down(rb, w, gone, x, R, c)
    BY <1>a, <1>c, <1>d, <1>f, <2>1
  <2>3. Inbound(d)'
    BY <1>g, <2>1, <2>2 DEF rb, w, gone
  <2>4. Outbound(d)'
    BY <2>1 DEF Outbound
  <2> QED
    BY <2>1, <2>3, <2>4
<1>5. CASE HangsUp
  <2>1. /\ b <= c /\ UNCHANGED <<mReceivedData, delivered, mReceiveBuffer, mTransmitBuffer>>
        /\ wire'["client"] = <<>> /\ wire'["server"] = wire["server"] /\ eof'["server"] = TRUE
    BY <1>5, <1>b, <1>d, OneEnd DEF HangsUp, inboxVars
  <2>2. Down(rb, <<>>, TRUE, x, R, b)
    BY <1>a, <1>c, <1>d, DownCut
  <2>3. Down(rb, <<>>, TRUE, x, R, c)
    BY <1>a, <1>f, <2>1, <2>2
  <2>4. Inbound(d)'
    BY <1>g, <2>1, <2>3 DEF rb
  <2>5. Outgoing' = Outgoing
    BY <2>1 DEF Outgoing
  <2> QED
    BY <1>h, <2>1, <2>4, <2>5
<1>6. CASE TakesLine
  <2>1. /\ b <= c + 1
        /\ UNCHANGED <<mReceivedData, delivered, mReceiveBuffer, eof, mTransmitBuffer>>
        /\ wire'["client"] = Tail(w) /\ rb = <<>>
        /\ w # <<>> /\ w[1].kind = "line" /\ wire'["server"] = wire["server"]
    BY <1>6, <1>b, <1>d, OneEnd DEF TakesLine, inboxVars, rb, w
  <2>2. ~gone
    BY <1>c, <2>1
  <2>3. Down(<<>>, Tail(w), gone, x, R, c)
    BY <1>a, <1>c, <1>d, <2>1, <2>2, DownLine
  <2>4. Inbound(d)'
    BY <1>g, <2>1, <2>3 DEF rb, gone
  <2>5. Outgoing' = Outgoing
    BY <2>1 DEF Outgoing
  <2> QED
    BY <1>h, <2>1, <2>4, <2>5
<1> QED
  BY <1>1, <1>2, <1>3, <1>4, <1>5, <1>6

\* What is joined of units, in one formula.
LEMMA UnitsJoined ==
  \A s, t \in Seq(Unit) :
    /\ s \o t \in Seq(Unit) /\ Len(s \o t) = Len(s) + Len(t)
    /\ \A i \in 1 .. Len(s) : (s \o t)[i] = s[i]
    /\ \A i \in 1 .. Len(t) : (s \o t)[Len(s) + i] = t[i]
BY ConcatFacts

\* A frame that completes a message: with what was kept its payload is the
\* server's message.
LEMMA WholeDelivered ==
  ASSUME NEW R \in Remotes, NEW f \in Seq(Unit), Item(f), f[1] \in HeadUnit,
         f[1].op \in MessageOps, NEW x \in Place, NEW y \in Place, Leads(R, f, x, y), Within(R, x),
         NEW got \in Seq(Unit), Len(got) = x.a,
         \A i \in 1 .. Len(got) : got[i] = BodyIn(R, x.n + 1)[i]
  PROVE  /\ y.p = x.p
         /\ f[1].fin => /\ y.n = x.n + 1 /\ y.a = 0
                        /\ got \o Carried(f) = R.sent[x.n + 1].body
         /\ ~f[1].fin =>
              /\ y.n = x.n /\ Len(got \o Carried(f)) = y.a
              /\ \A i \in 1 .. Len(got \o Carried(f)) :
                   (got \o Carried(f))[i] = BodyIn(R, x.n + 1)[i]
<1> DEFINE body == BodyIn(R, x.n + 1)
           c == Carried(f)
<1>1. f[1].kind = "head" /\ f[1].len \in Nat /\ Carrying(f) /\ ~Pinging(f)
  BY DEF HeadUnit, Carrying, Pinging, MessageOps
<1>2. MessageStep(R, f, x, y)
  BY <1>1 DEF Leads
<1>3. PICK a \in Nat, l \in Nat : a = x.a /\ l = f[1].len /\ Len(f) = 1 + l
  BY <1>1 DEF Place, Item
<1>4. /\ y.p = x.p /\ a + l <= Len(body) /\ \A i \in 1 .. l : f[1 + i] = body[a + i]
      /\ \/ /\ f[1].fin /\ y.n = x.n + 1 /\ y.a = 0 /\ y.n <= Len(R.sent) /\ a + l = Len(body)
         \/ ~f[1].fin /\ y.n = x.n /\ y.a = a + l
  BY <1>2, <1>3 DEF MessageStep
<1>5. body \in Seq(Unit) /\ Len(body) \in Nat
  <2>1. x.n \in Nat /\ Len(R.sent) \in Nat
    BY DEF Place, Remotes
  <2>2. x.n <= Len(R.sent)
    BY DEF Within
  <2>3. x.n + 1 \in Nat \ {0} /\ x.n + 1 <= Len(R.sent) + 1
    BY <2>1, <2>2
  <2> QED
    BY <2>3, EndFacts
<1> HIDE DEF body, c
<1>6. c \in Seq(Unit) /\ Len(c) = l /\ \A i \in 1 .. l : c[i] = f[1 + i]
  <2>1. 1 \in 0 .. Len(f) /\ 1 + 1 = 2 /\ Len(f) - 1 = l
    BY <1>3
  <2> QED
    BY <2>1, RestFacts DEF c, Carried
<1>7. /\ got \o c \in Seq(Unit) /\ Len(got \o c) = a + l
      /\ (\A i \in 1 .. a : (got \o c)[i] = got[i]) /\ \A i \in 1 .. l : (got \o c)[a + i] = c[i]
  <2>1. /\ got \o c \in Seq(Unit) /\ Len(got \o c) = Len(got) + Len(c)
        /\ (\A i \in 1 .. Len(got) : (got \o c)[i] = got[i])
        /\ \A i \in 1 .. Len(c) : (got \o c)[Len(got) + i] = c[i]
    <3>1. c \in Seq(Unit)
      BY <1>6
    <3> QED
      BY <3>1, UnitsJoined, Zenon
  <2> QED
    BY <1>3, <1>6, <2>1
<1>8. \A i \in 1 .. a + l : (got \o c)[i] = body[i]
  <2> TAKE i \in 1 .. a + l
  <2>1. CASE i <= a
    <3>1. i \in 1 .. a
      BY <2>1
    <3> QED
      BY <1>3, <1>7, <3>1 DEF body
  <2>2. CASE i > a
    <3>1. PICK j \in 1 .. l : i = a + j
      <4>1. i - a \in 1 .. l /\ i = a + (i - a)
        BY <2>2
      <4> QED
        BY <4>1
    <3>2. (got \o c)[a + j] = c[j] /\ c[j] = f[1 + j] /\ f[1 + j] = body[a + j]
      BY <1>4, <1>6, <1>7
    <3> QED
      BY <3>1, <3>2
  <2>3. i <= a \/ i > a
    OBVIOUS
  <2> QED
    BY <2>1, <2>2, <2>3
<1>9. CASE f[1].fin
  <2>1. y.n = x.n + 1 /\ y.a = 0 /\ y.n <= Len(R.sent) /\ a + l = Len(body)
    BY <1>4, <1>9
  <2>2. got \o c = body
    BY <1>5, <1>7, <1>8, <2>1, SameSeq
  <2>3. body = R.sent[x.n + 1].body
    BY <2>1 DEF body, BodyIn
  <2> QED
    BY <1>4, <1>9, <2>1, <2>2, <2>3 DEF c
<1>10. CASE ~f[1].fin
  BY <1>4, <1>7, <1>8, <1>10 DEF c, body
<1> QED
  BY <1>9, <1>10

\* The steps that dispatch a frame.
LEMMA StreamsDispatched ==
  ASSUME ControlTypes, StreamTypes, Control, Control', NEW d \in Nat, Inbound(d), Outbound(d),
         Got, Dispatches, remote' = remote, eof'["client"] = eof["client"],
         ClosingOrClosed("client") => ClosingOrClosed("client")'
  PROVE  Got' /\ \E m \in Nat : Inbound(m)' /\ Outbound(m)'
<1> DEFINE rb == mReceiveBuffer["client"]
           w == wire["client"]
           gone == eof["server"]
           x == PlaceOf(d)
           R == remote
           h == rb[1]
           body == FramePayload("client")
           rest == SubSeq(rb, 2 + h.len, Len(rb))
           got == mReceivedData["client"]
           seen == delivered["client"]
<1>a. /\ rb \in Seq(Unit) /\ w \in Seq(Unit) /\ R \in Remotes /\ x \in Place
      /\ mTransmitBuffer["client"] \in Seq(Unit) /\ wire["server"] \in Seq(Unit)
      /\ got \in Seq(Unit) /\ seen \in Seq(Messages)
  BY StreamFacts
<1>b. /\ nonblocking["client"] /\ nonblocking'["client"] /\ HasFrame("client")
      /\ mReceiveBuffer' = Consumed("client") /\ Took(h, body) /\ UNCHANGED netVars
  BY DEF Dispatches, Rx
<1>c. h \in HeadUnit /\ Head(rb) = h /\ body \in Seq(Unit)
  BY <1>b, HeadFrame DEF Rx
<1>d. Bound = 0 /\ Bound' = 0 /\ Down(rb, w, gone, x, R, 0)
  BY <1>b DEF Bound, Inbound
<1>e. rb # <<>> /\ Len(rb) >= 1 + h.len /\ body = SubSeq(rb, 2, 1 + h.len)
  BY <1>b, <1>c DEF HasFrame, FramePayload, Rx
<1>f. mReceiveBuffer'["client"] = rest
  BY <1>b, <1>c, OneEnd DEF Consumed, StreamTypes
<1>g. x.n = Len(seen) /\ x.a = Len(got) /\ x.p = d
  BY DEF PlaceOf
<1> HIDE DEF x
<1>h. PICK y \in Place, f \in Seq(Unit) :
        /\ Item(f) /\ f[1] = h /\ Carried(f) = body
        /\ Leads(R, f, x, y) /\ Within(R, x) /\ Within(R, y)
        /\ Down(rest, w, gone, y, R, 0)
  <2> HIDE DEF rb, w, gone, body
  <2> QED
    BY <1>a, <1>d, <1>e, DownFrame
<1>i. y = [n |-> y.n, a |-> y.a, p |-> y.p] /\ y.n \in Nat /\ y.a \in Nat /\ y.p \in Nat
  BY DEF Place
<1> HIDE DEF body
<1>j. ASSUME Len(delivered'["client"]) = y.n, Len(mReceivedData'["client"]) = y.a
      PROVE  Inbound(y.p)'
  <2>1. PlaceOf(y.p)' = y
    BY <1>i, <1>j DEF PlaceOf
  <2>2. Inbound(y.p)' <=> Down(rest, w, gone, PlaceOf(y.p)', R, 0)
    BY <1>b, <1>d, <1>f DEF Inbound, netVars
  <2> QED
    BY <1>h, <2>1, <2>2
<1>k. /\ \A k \in 1 .. Len(seen) : seen[k].body = R.sent[k].body
      /\ \A i \in 1 .. Len(got) : got[i] = BodyIn(R, x.n + 1)[i]
  BY <1>g DEF Got
<1>l. wire' = wire /\ eof' = eof /\ DOMAIN delivered = Endpoint /\ DOMAIN mReceivedData = Endpoint
      /\ DOMAIN mTransmitBuffer = Endpoint
  BY <1>b DEF netVars, StreamTypes
<1> HIDE DEF rb, w, gone, h, rest
<1>1. CASE h.op \in MessageOps
  <2>1. /\ y.p = d
        /\ h.fin => /\ y.n = x.n + 1 /\ y.a = 0
                    /\ got \o body = R.sent[x.n + 1].body
        /\ ~h.fin =>
             /\ y.n = x.n /\ Len(got \o body) = y.a
             /\ \A i \in 1 .. Len(got \o body) : (got \o body)[i] = BodyIn(R, x.n + 1)[i]
    <3>1. /\ f[1] \in HeadUnit /\ f[1].op \in MessageOps /\ Len(got) = x.a
      BY <1>1, <1>c, <1>g, <1>h
    <3>3. /\ R \in Remotes /\ x \in Place /\ got \in Seq(Unit) /\ Item(f)
          /\ Leads(R, f, x, y) /\ Within(R, x)
          /\ \A i \in 1 .. Len(got) : got[i] = BodyIn(R, x.n + 1)[i]
      BY <1>a, <1>h, <1>k
    <3> HIDE DEF got, R
    <3>2. /\ y.p = x.p
          /\ f[1].fin => /\ y.n = x.n + 1 /\ y.a = 0
                         /\ got \o Carried(f) = R.sent[x.n + 1].body
          /\ ~f[1].fin =>
               /\ y.n = x.n /\ Len(got \o Carried(f)) = y.a
               /\ \A i \in 1 .. Len(got \o Carried(f)) :
                    (got \o Carried(f))[i] = BodyIn(R, x.n + 1)[i]
      BY <3>1, <3>3, WholeDelivered
    <3> QED
      BY <1>g, <1>h, <3>2
  <2>2. h.op # "PING" /\ h.op # "PONG"
    BY <1>1 DEF MessageOps
  <2>3. Queues
    BY <1>b, <2>2 DEF Took, Queues
  <2>4. Outbound(d)'
    BY <1>l, <2>3, QueuesOutbound
  <2>5. CASE h.fin
    <3> DEFINE message == [text |-> h.op = "TEXT", body |-> got \o body]
    <3>1. /\ delivered' = [delivered EXCEPT !["client"] = Append(seen, message)]
          /\ mReceivedData' = [mReceivedData EXCEPT !["client"] = <<>>]
      BY <1>b, <2>2, <2>5 DEF Took
    <3>2. message.body = R.sent[x.n + 1].body /\ message \in Messages
      <4>1. got \o body \in Seq(Unit)
        BY <1>a, <1>c
      <4> QED
        BY <2>1, <2>5, <4>1 DEF Messages
    <3> HIDE DEF message
    <3>3. delivered'["client"] = Append(seen, message) /\ mReceivedData'["client"] = <<>>
      BY <1>l, <3>1, OneEnd
    <3>4. /\ Len(Append(seen, message)) = Len(seen) + 1
          /\ Append(seen, message)[Len(seen) + 1] = message
          /\ \A k \in 1 .. Len(seen) : Append(seen, message)[k] = seen[k]
      BY <1>a, <3>2
    <3>5. Inbound(d)'
      <4>1. Len(delivered'["client"]) = y.n /\ Len(mReceivedData'["client"]) = y.a
        BY <1>g, <2>1, <2>5, <3>3, <3>4
      <4> QED
        BY <1>j, <2>1, <4>1
    <3>6. \A k \in 1 .. Len(delivered'["client"]) :
            delivered'["client"][k].body = remote'.sent[k].body
      <4> TAKE k \in 1 .. Len(delivered'["client"])
      <4>1. k \in 1 .. Len(seen) \/ k = Len(seen) + 1
        BY <1>a, <3>3, <3>4
      <4> QED
        BY <1>g, <1>k, <3>2, <3>3, <3>4, <4>1
    <3>7. Got'
      BY <3>3, <3>6 DEF Got
    <3> QED
      BY <2>4, <3>5, <3>7
  <2>6. CASE ~h.fin
    <3>1. /\ mReceivedData' = [mReceivedData EXCEPT !["client"] = got \o body]
          /\ delivered' = delivered
      BY <1>b, <2>2, <2>6 DEF Took
    <3>2. mReceivedData'["client"] = got \o body
      BY <1>l, <3>1, OneEnd
    <3>3. Inbound(d)'
      <4>1. Len(delivered'["client"]) = y.n /\ Len(mReceivedData'["client"]) = y.a
        BY <1>g, <2>1, <2>6, <3>1, <3>2
      <4> QED
        BY <1>j, <2>1, <4>1
    <3>4. Got'
      BY <1>g, <1>k, <2>1, <2>6, <3>1, <3>2 DEF Got
    <3> QED
      BY <2>4, <3>3, <3>4
  <2> QED
    BY <2>5, <2>6
<1>2. CASE h.op = "PING"
  <2>1. Pinging(f) /\ ~Carrying(f)
    BY <1>2, <1>c, <1>h DEF Pinging, Carrying, MessageOps, HeadUnit
  <2>2. /\ y.n = x.n /\ y.a = x.a /\ y.p = d + 1 /\ y.p <= Len(R.pings) /\ body = R.pings[y.p]
    BY <1>g, <1>h, <2>1 DEF Leads, PingStep
  <2>3. /\ mTransmitBuffer' = [mTransmitBuffer EXCEPT !["client"] =
             IF ClosingOrClosed("client") THEN @ ELSE @ \o Frame("PONG", TRUE, body)]
        /\ UNCHANGED <<delivered, mReceivedData>>
    BY <1>b, <1>2 DEF Took, MessageOps
  <2>4. Got' /\ Inbound(y.p)'
    BY <1>g, <1>j, <2>2, <2>3, GotKept
  <2>5. Outbound(y.p)'
    <3> SUFFICES ASSUME ~eof["client"]
                 PROVE  \E m \in Nat : Up(Outgoing', remote, m)
                                       /\ (~ClosingOrClosed("client")' => m = y.p)
      BY DEF Outbound
    <3>1. PICK m \in Nat : Up(Outgoing, remote, m) /\ (~ClosingOrClosed("client") => m = d)
      BY DEF Outbound
    <3>2. CASE ClosingOrClosed("client")
      <4>1. Outgoing' = Outgoing
        BY <1>l, <2>3, <3>2, OneEnd DEF Outgoing
      <4> QED
        BY <3>1, <3>2, <4>1
    <3>3. CASE ~ClosingOrClosed("client")
      <4> DEFINE t == mTransmitBuffer["client"]
                 v == wire["server"]
                 pong == Frame("PONG", TRUE, body)
      <4>1. "PONG" \in Op /\ TRUE \in BOOLEAN
        BY DEF Op
      <4>2. /\ Item(pong) /\ pong \in Seq(Unit) /\ pong[1] = Header("PONG", TRUE, Len(body))
            /\ Carried(pong) = body
        BY <1>c, <4>1, FrameFacts
      <4>3. t \in Seq(Unit) /\ v \in Seq(Unit)
        BY <1>a
      <4>4. Outgoing = v \o t /\ Outgoing' = v \o (t \o pong)
        BY <1>l, <2>3, <3>3, OneEnd DEF Outgoing
      <4> HIDE DEF t, v, pong
      <4>5. Outgoing' = (v \o t) \o pong /\ v \o t \in Seq(Unit)
        BY <4>2, <4>3, <4>4, ConcatAssoc, SMTT(30)
      <4>6. PongStep(remote, pong, d, y.p)
        <5>1. Ponging(pong)
          BY <4>2 DEF Ponging, Header
        <5> QED
          BY <2>2, <4>2, <5>1 DEF PongStep
      <4>7. Up(Outgoing', remote, y.p)
        BY <1>i, <3>1, <3>3, <4>2, <4>4, <4>5, <4>6, UpAppend
      <4> QED
        BY <1>i, <4>7
    <3> QED
      BY <3>2, <3>3
  <2> QED
    BY <1>i, <2>4, <2>5
<1>3. CASE h.op = "PONG"
  <2>1. ~Pinging(f) /\ ~Carrying(f)
    BY <1>3, <1>c, <1>h DEF Pinging, Carrying, MessageOps, HeadUnit
  <2>2. y.n = x.n /\ y.a = x.a /\ y.p = d
    BY <1>g, <1>h, <2>1 DEF Leads, OtherStep
  <2>3. UNCHANGED <<delivered, mReceivedData, mTransmitBuffer>>
    BY <1>b, <1>3 DEF Took, MessageOps
  <2>4. Got' /\ Inbound(d)'
    BY <1>g, <1>j, <2>2, <2>3, GotKept
  <2>5. Outbound(d)'
    BY <1>l, <2>3, QueuesOutbound DEF Queues
  <2> QED
    BY <2>4, <2>5
<1> QED
  BY <1>1, <1>2, <1>3, <1>b DEF Took

\* The client's steps keep the invariant.
LEMMA ClientStep ==
  ASSUME IInv, ProperStep
  PROVE  IInv'
<1>1. ControlTypes /\ StreamTypes /\ Control /\ Got /\ PingsEchoed
  BY DEF IInv
<1>2. PICK d \in Nat : Inbound(d) /\ Outbound(d)
  BY DEF IInv
<1>3. /\ ControlTypes' /\ remote' = remote /\ eof'["client"] = eof["client"]
      /\ ClosingOrClosed("client") => ClosingOrClosed("client")'
  BY <1>1, ControlTypesStep
<1>4. Control'
  BY <1>1, ControlStep
<1>5. Class /\ sent' \in [Endpoint -> Seq(Messages)]
  BY <1>1, <1>2, StepClass
<1>6. StreamTypes'
  BY <1>1, <1>2, <1>3, <1>5, StreamTypesStep
<1>7. Got' /\ \E m \in Nat : Inbound(m)' /\ Outbound(m)'
  <2>1. CASE Dispatches
    BY <1>1, <1>2, <1>3, <1>4, <2>1, StreamsDispatched
  <2>2. CASE ~Dispatches
    <3>1. Inbound(d)' /\ Outbound(d)' /\ UNCHANGED <<mReceivedData, delivered>>
      BY <1>1, <1>2, <1>3, <1>4, <1>5, <2>2, StreamsKept DEF Class
    <3>2. Got'
      BY <1>1, <1>3, <3>1, GotKept
    <3> QED
      BY <3>1, <3>2
  <2> QED
    BY <2>1, <2>2
<1>8. PingsEchoed'
  BY <1>1, <1>3 DEF PingsEchoed
<1> QED
  BY <1>3, <1>4, <1>6, <1>7, <1>8 DEF IInv

-----------------------------------------------------------------------------
(* The steps of the server keep the invariant.                             *)

\* Lines are items.
LEMMA LinesLaid ==
  ASSUME NEW s \in Seq(Unit), \A i \in 1 .. Len(s) : s[i].kind = "line"
  PROVE  \E fs \in Seq(Seq(Unit)) :
           /\ Len(fs) = Len(s) /\ Laid(s, fs)
           /\ \A k \in 1 .. Len(fs) : Item(fs[k]) /\ fs[k][1].kind = "line"
<1>1. PICK n \in Nat : n = Len(s)
  OBVIOUS
<1> DEFINE fs == [k \in 1 .. n |-> <<s[k]>>]
           pos == [k \in 0 .. n |-> k]
<1>2. \A u \in Unit : <<u>> \in Seq(Unit) /\ Len(<<u>>) = 1 /\ <<u>>[1] = u
  OBVIOUS
<1>3. \A k \in 1 .. n : s[k] \in Unit /\ s[k].kind = "line"
  BY <1>1
<1>4. fs \in Seq(Seq(Unit)) /\ Len(fs) = n
  BY <1>2, <1>3
<1>5. \A k \in 1 .. n : fs[k] \in Seq(Unit) /\ Len(fs[k]) = 1 /\ fs[k][1] = s[k]
  BY <1>2, <1>3
<1>6. pos \in [0 .. n -> Nat] /\ \A k \in 0 .. n : pos[k] = k
  OBVIOUS
<1> HIDE DEF fs, pos
<1>7. LaidAt(s, fs, pos)
  <2>1. pos[0] = 0 /\ pos[n] = n
    BY <1>6
  <2>2. \A j, k \in 0 .. n : j <= k => pos[j] <= pos[k]
    BY <1>6
  <2>3. ASSUME NEW k \in 1 .. n
        PROVE  /\ pos[k] = pos[k - 1] + Len(fs[k])
               /\ \A i \in 1 .. Len(fs[k]) : s[pos[k - 1] + i] = fs[k][i]
    <3>1. pos[k] = k /\ pos[k - 1] = k - 1 /\ Len(fs[k]) = 1 /\ fs[k][1] = s[k]
      <4>1. k \in 0 .. n /\ k - 1 \in 0 .. n
        BY <1>1
      <4> QED
        BY <1>5, <1>6, <4>1
    <3>2. \A i \in 1 .. 1 : i = 1 /\ (k - 1) + i = k
      OBVIOUS
    <3>3. pos[k] = pos[k - 1] + Len(fs[k])
      BY <3>1
    <3>4. \A i \in 1 .. 1 : s[(k - 1) + i] = fs[k][i]
      BY <3>1, <3>2
    <3> QED
      BY <3>1, <3>3, <3>4
  <2> QED
    BY <1>1, <1>4, <1>6, <2>1, <2>2, <2>3 DEF LaidAt
<1>8. Laid(s, fs)
  BY <1>4, <1>6, <1>7 DEF Laid
<1>9. \A k \in 1 .. n : Item(fs[k]) /\ fs[k][1].kind = "line"
  <2> TAKE k \in 1 .. n
  <2>1. /\ fs[k] \in Seq(Unit) /\ Len(fs[k]) = 1 /\ Len(fs[k]) >= 1
        /\ fs[k][1].kind = "line" /\ fs[k][1].kind # "head"
    BY <1>3, <1>5
  <2> QED
    BY <2>1 DEF Item
<1> QED
  BY <1>1, <1>4, <1>8, <1>9

\* From where the server is, lines alone lead nowhere.
LEMMA WayLines ==
  ASSUME NEW R \in Remotes, NEW s \in Seq(Unit), \A i \in 1 .. Len(s) : s[i].kind = "line",
         NEW b \in Nat, Len(s) <= b
  PROVE  Way(s, End(R), R, b)
<1>1. PICK fs \in Seq(Seq(Unit)) :
        /\ Len(fs) = Len(s) /\ Laid(s, fs)
        /\ \A k \in 1 .. Len(fs) : Item(fs[k]) /\ fs[k][1].kind = "line"
  BY LinesLaid
<1>2. PICK n \in Nat : n = Len(fs) /\ n <= b
  BY <1>1
<1> DEFINE x == End(R)
           q == [k \in 1 .. n + 1 |-> x]
<1>3. x \in Place /\ Within(R, x)
  BY EndFacts
<1> HIDE DEF x
<1>4. q \in Seq(Place) /\ Len(q) = n + 1 /\ \A k \in 1 .. n + 1 : q[k] = x
  BY <1>3
<1> HIDE DEF q
<1>5. ASSUME NEW k \in 1 .. n PROVE Leads(R, fs[k], q[k], q[k + 1])
  <2>1. q[k] = x /\ q[k + 1] = x
    BY <1>4
  <2>2. fs[k][1].kind = "line"
    BY <1>1, <1>2
  <2> QED
    BY <2>1, <2>2 DEF Leads, Carrying, Pinging, OtherStep
<1>6. \A k \in 1 .. n : k <= b
  BY <1>2
<1>7. q[1] = x /\ q[n + 1] = x
  BY <1>4
<1>8. Path(s, fs, q, x, R, b)
  BY <1>1, <1>2, <1>3, <1>4, <1>5, <1>6, <1>7 DEF Path, x
<1> QED
  BY <1>4, <1>8 DEF Way, x

\* Lines answer no ping.
LEMMA UpLines ==
  ASSUME NEW R \in Remotes, NEW s \in Seq(Unit), \A i \in 1 .. Len(s) : s[i].kind = "line"
  PROVE  Up(s, R, Len(R.pongs))
<1>1. PICK fs \in Seq(Seq(Unit)) :
        /\ Len(fs) = Len(s) /\ Laid(s, fs)
        /\ \A k \in 1 .. Len(fs) : Item(fs[k]) /\ fs[k][1].kind = "line"
  BY LinesLaid
<1>2. PICK n \in Nat : n = Len(fs)
  BY <1>1
<1>3. PICK m \in Nat : m = Len(R.pongs)
  BY DEF Remotes
<1> DEFINE r == [k \in 1 .. n + 1 |-> m]
<1>4. r \in Seq(Nat) /\ Len(r) = n + 1 /\ \A k \in 1 .. n + 1 : r[k] = m
  OBVIOUS
<1> HIDE DEF r
<1>5. ASSUME NEW k \in 1 .. n PROVE PongStep(R, fs[k], r[k], r[k + 1])
  <2>1. r[k] = m /\ r[k + 1] = m
    BY <1>4
  <2>2. fs[k][1].kind = "line"
    BY <1>1, <1>2
  <2> QED
    BY <2>1, <2>2 DEF PongStep, Ponging
<1>6. r[1] = m /\ r[n + 1] = m
  <2>1. 1 \in 1 .. n + 1 /\ n + 1 \in 1 .. n + 1
    BY <1>2
  <2> QED
    BY <1>4, <2>1
<1>7. Back(s, fs, r, R, m)
  BY <1>1, <1>2, <1>3, <1>4, <1>5, <1>6 DEF Back
<1> QED
  BY <1>3, <1>4, <1>7 DEF Up

\* The client is at a place of the server.
LEMMA InboundWithin ==
  ASSUME StreamTypes, NEW d \in Nat, Inbound(d)
  PROVE  /\ Within(remote, PlaceOf(d)) /\ PlaceOf(d) \in Place
         /\ Len(delivered["client"]) \in Nat /\ Len(mReceivedData["client"]) \in Nat
         /\ Len(remote.sent) \in Nat
<1> DEFINE rb == mReceiveBuffer["client"]
<1>4. PICK v \in Seq(Unit) : Way(rb \o v, PlaceOf(d), remote, Bound)
  BY DEF Inbound, Down
<1>1. PICK fs \in Seq(Seq(Unit)), q \in Seq(Place) :
        Path(rb \o v, fs, q, PlaceOf(d), remote, Bound)
  BY <1>4 DEF Way
<1>2. Len(fs) \in Nat /\ 1 \in 1 .. Len(fs) + 1
  OBVIOUS
<1>3. Within(remote, q[1]) /\ q[1] = PlaceOf(d)
  BY <1>1, <1>2 DEF Path
<1> QED
  BY <1>3, StreamFacts, SMTT(30) DEF Remotes

\* What is got and which pings are answered does not change when the server
\* sends more.
LEMMA GotMore ==
  ASSUME StreamTypes, NEW d \in Nat, Inbound(d), Got, PingsEchoed,
         remote' \in Remotes, Extends(remote, remote'), remote'.pongs = remote.pongs,
         UNCHANGED <<mReceivedData, delivered>>
  PROVE  Got' /\ PingsEchoed'
<1> DEFINE R == remote
           S == remote'
           n == Len(delivered["client"])
           a == Len(mReceivedData["client"])
<1>1. /\ n \in Nat /\ a \in Nat /\ n <= Len(R.sent) /\ a <= Len(BodyIn(R, n + 1))
      /\ Len(R.sent) \in Nat /\ Len(R.pings) \in Nat /\ Len(S.sent) \in Nat /\ Len(R.pongs) \in Nat
      /\ Len(S.pings) \in Nat
  <2>1. n \in Nat /\ a \in Nat /\ Within(R, PlaceOf(d))
    BY InboundWithin
  <2>2. n <= Len(R.sent) /\ a <= Len(BodyIn(R, n + 1))
    BY <2>1 DEF Within, PlaceOf
  <2>3. /\ Len(R.sent) \in Nat /\ Len(R.pings) \in Nat /\ Len(S.sent) \in Nat
        /\ Len(R.pongs) \in Nat /\ Len(S.pings) \in Nat
    BY StreamFacts, SMTT(30) DEF Remotes
  <2> QED
    BY <2>1, <2>2, <2>3
<1>2. Len(BodyIn(R, n + 1)) \in Nat
  <2>1. n + 1 \in Nat \ {0} /\ n + 1 <= Len(R.sent) + 1 /\ R \in Remotes
    BY <1>1, StreamFacts, SMTT(30)
  <2> QED
    BY <2>1, EndFacts
<1>3. \A k \in 1 .. n : S.sent[k].body = R.sent[k].body
  <2> TAKE k \in 1 .. n
  <2>1. k \in 1 .. Len(R.sent) /\ k <= Len(S.sent) /\ k <= Len(R.sent)
    BY <1>1, SMTT(30) DEF Extends
  <2>2. BodyIn(S, k) = BodyIn(R, k)
    BY <2>1 DEF Extends
  <2> QED
    BY <2>1, <2>2 DEF BodyIn
<1>4. \A i \in 1 .. a : BodyIn(S, n + 1)[i] = BodyIn(R, n + 1)[i]
  <2>1. CASE n < Len(R.sent)
    <3>1. n + 1 \in 1 .. Len(R.sent)
      BY <1>1, <2>1
    <3>2. BodyIn(S, n + 1) = BodyIn(R, n + 1)
      BY <3>1 DEF Extends
    <3> QED
      BY <3>2
  <2>2. CASE n = Len(R.sent)
    <3>1. \A i \in 1 .. Len(BodyIn(R, n + 1)) : BodyIn(S, n + 1)[i] = BodyIn(R, n + 1)[i]
      BY <2>2 DEF Extends
    <3> QED
      BY <1>1, <1>2, <3>1
  <2> QED
    BY <1>1, <2>1, <2>2, SMTT(30)
<1>5. Got'
  BY <1>3, <1>4 DEF Got
<1>6. PingsEchoed'
  <2>1. Len(R.pongs) <= Len(R.pings) /\ Len(R.pings) <= Len(S.pings)
    BY DEF PingsEchoed, Extends
  <2>2. \A k \in 1 .. Len(R.pongs) : S.pongs[k] = S.pings[k]
    <3> TAKE k \in 1 .. Len(R.pongs)
    <3>1. k \in 1 .. Len(R.pings)
      BY <1>1, <2>1
    <3> QED
      BY <3>1 DEF PingsEchoed, Extends
  <2> QED
    BY <1>1, <2>1, <2>2 DEF PingsEchoed
<1> QED
  BY <1>5, <1>6

\* The steps in which the server sends a frame.
LEMMA ServerSends ==
  ASSUME IInv, RemoteUp, remote.answered, NEW f \in Seq(Unit), Adds(f), ToClient(f), eof' = eof
  PROVE  IInv'
<1> DEFINE w == wire["client"]
           gone == eof["server"]
<1>1. ControlTypes /\ StreamTypes /\ Control /\ Got /\ PingsEchoed
  BY DEF IInv
<1>2. PICK d \in Nat : Inbound(d) /\ Outbound(d)
  BY DEF IInv
<1>3. /\ UNCHANGED <<mReadyState, pc, mConnectionPhase, nonblocking, mReceiveBuffer,
                     mTransmitBuffer, mReceivedData, sent, delivered>>
  BY DEF RemoteUp, clientVars, connectionVars, bufferVars, historyVars
<1>4. /\ w \in Seq(Unit) /\ mReceiveBuffer["client"] \in Seq(Unit) /\ remote \in Remotes
      /\ gone \in BOOLEAN /\ wire \in [Node -> Seq(Unit)] /\ PlaceOf(d) \in Place
  BY <1>1, StreamFacts, OneEnd DEF StreamTypes, ControlTypes
<1>5. wire' = [wire EXCEPT !["client"] = IF gone THEN w ELSE w \o f]
  BY DEF ToClient
<1>6. /\ wire'["client"] = (IF gone THEN w ELSE w \o f) /\ wire'["server"] = wire["server"]
      /\ wire' \in [Node -> Seq(Unit)]
  <2>1. (IF gone THEN w ELSE w \o f) \in Seq(Unit)
    BY <1>4
  <2> QED
    BY <1>4, <1>5, <2>1, OneEnd
<1>7. /\ remote' \in Remotes /\ Extends(remote, remote') /\ remote'.pongs = remote.pongs
      /\ remote'.answered = remote.answered
      /\ Item(f) /\ f[1].kind # "line" /\ Leads(remote', f, End(remote), End(remote'))
  BY DEF Adds
<1>8. ControlTypes' /\ StreamTypes'
  BY <1>1, <1>3, <1>6, <1>7 DEF ControlTypes, StreamTypes
<1>9. Control'
  BY <1>1, <1>3, <1>6, <1>7 DEF Control
<1>10. Bound' = Bound /\ PlaceOf(d)' = PlaceOf(d) /\ Outgoing' = Outgoing
  BY <1>3, <1>6 DEF Bound, PlaceOf, Outgoing
<1>11. Inbound(d)'
  <2> DEFINE rb == mReceiveBuffer["client"]
  <2>1. PICK b \in Nat : b = Bound
    BY <1>1, BoundNat
  <2>2. Down(rb, w, gone, PlaceOf(d), remote, b)
    BY <1>2, <2>1 DEF Inbound
  <2>3. rb \in Seq(Unit)
    BY <1>4
  <2> HIDE DEF rb, w, gone
  <2>4. Down(rb, IF gone THEN w ELSE w \o f, gone, PlaceOf(d), remote', b)
    BY <1>4, <1>7, <2>2, <2>3, DownSend
  <2> QED
    BY <1>3, <1>6, <1>10, <2>1, <2>4 DEF Inbound, rb, gone
<1>12. Outbound(d)'
  <2> SUFFICES ASSUME ~eof["client"]
               PROVE  \E m \in Nat : Up(Outgoing, remote', m)
                                     /\ (~ClosingOrClosed("client") => m = d)
    BY <1>3, <1>10 DEF Outbound, ClosingOrClosed
  <2>1. PICK m \in Nat : Up(Outgoing, remote, m) /\ (~ClosingOrClosed("client") => m = d)
    BY <1>2 DEF Outbound
  <2>2. Up(Outgoing, remote', m)
    BY <1>4, <1>7, <2>1, UpMore
  <2> QED
    BY <2>1, <2>2
<1>13. Got' /\ PingsEchoed'
  BY <1>1, <1>2, <1>3, <1>7, GotMore
<1> QED
  BY <1>8, <1>9, <1>11, <1>12, <1>13 DEF IInv

\* The client is where the server is when nothing is under way.
LEMMA WayNothing ==
  ASSUME NEW R, NEW x, NEW b, Way(<<>>, x, R, b)
  PROVE  x = End(R)
<1>1. PICK fs \in Seq(Seq(Unit)), q \in Seq(Place) : Path(<<>>, fs, q, x, R, b)
  BY DEF Way
<1>2. Len(fs) = 0
  <2> SUFFICES ASSUME Len(fs) # 0 PROVE FALSE
    OBVIOUS
  <2>1. Len(fs) >= 1 /\ 1 \in 1 .. Len(fs) /\ Laid(<<>>, fs) /\ <<>> \in Seq(Unit)
    BY <1>1 DEF Path
  <2>2. Len(fs[1]) <= Len(<<>>)
    BY <2>1, LaidFirst
  <2>3. Item(fs[1])
    BY <1>1, <2>1 DEF Path
  <2>4. Len(fs[1]) >= 1 /\ Len(<<>>) = 0 /\ Len(fs[1]) \in Nat
    BY <2>3 DEF Item
  <2> QED
    BY <2>2, <2>4
<1> QED
  BY <1>1, <1>2 DEF Path

\* Nor does the answer to the handshake change which are answered.
LEMMA UpSame ==
  ASSUME NEW R, NEW S, S.pings = R.pings, S.pongs = R.pongs, NEW s, NEW m, Up(s, R, m)
  PROVE  Up(s, S, m)
<1>1. PICK gs \in Seq(Seq(Unit)), r \in Seq(Nat) : Back(s, gs, r, R, m)
  BY DEF Up
<1>2. \A f, k, l : PongStep(R, f, k, l) => PongStep(S, f, k, l)
  BY DEF PongStep
<1>3. Back(s, gs, r, S, m)
  BY <1>1, <1>2 DEF Back
<1> QED
  BY <1>3 DEF Up

\* The server answers the handshake.
LEMMA AnswerStep ==
  ASSUME IInv, NEW lines \in Answers, RemoteAnswer(lines)
  PROVE  IInv'
<1> DEFINE w == wire["client"]
           gone == eof["server"]
<1>1. ControlTypes /\ StreamTypes /\ Control /\ Got /\ PingsEchoed
  BY DEF IInv
<1>2. PICK d \in Nat : Inbound(d) /\ Outbound(d)
  BY DEF IInv
<1>3. /\ UNCHANGED <<mReadyState, pc, mConnectionPhase, nonblocking, mReceiveBuffer,
                     mTransmitBuffer, mReceivedData, sent, delivered, eof>>
      /\ ~remote.answered /\ ToClient(lines)
      /\ remote' = [remote EXCEPT !.answered = TRUE, !.short = ~Counted(lines)]
  BY DEF RemoteAnswer, RemoteUp, clientVars, connectionVars, bufferVars, historyVars
<1>4. /\ w = <<>> /\ mReceiveBuffer["client"] = <<>> /\ remote \in Remotes
      /\ gone \in BOOLEAN /\ wire \in [Node -> Seq(Unit)] /\ PlaceOf(d) \in Place
      /\ mConnectionPhase["client"] = "HTTP_STATUS" /\ nonblocking["client"] \in BOOLEAN
  BY <1>1, <1>3, StreamFacts, OneEnd DEF StreamTypes, ControlTypes, Control
<1>5. /\ lines \in Seq(Unit) /\ Len(lines) <= 6 /\ \A i \in 1 .. Len(lines) : lines[i].kind = "line"
  <2>0. lines \in Seq([kind : {"line"}, text : STRING]) /\ Len(lines) <= 6
    BY RemotePeerAssumption
  <2>1. lines \in Seq(LineUnit) /\ Len(lines) <= 6
    <3>1. \A t \in STRING : t \in Text
      BY DEF Text
    <3>2. \A u \in [kind : {"line"}, text : STRING] : u \in LineUnit
      BY <3>1 DEF LineUnit
    <3>3. lines \in [1 .. Len(lines) -> [kind : {"line"}, text : STRING]] /\ Len(lines) \in Nat
      <4> DEFINE T == [kind : {"line"}, text : STRING]
      <4>1. lines \in Seq(T)
        BY <2>0
      <4> HIDE DEF T
      <4>2. lines \in [1 .. Len(lines) -> T] /\ Len(lines) \in Nat
        BY <4>1
      <4> QED
        BY <4>2 DEF T
    <3>4. \A i \in 1 .. Len(lines) : lines[i] \in LineUnit
      BY <3>2, <3>3
    <3>5. lines \in [1 .. Len(lines) -> LineUnit]
      BY <3>3, <3>4
    <3> QED
      BY <2>0, <3>3, <3>5
  <2>2. \A u \in LineUnit : u \in Unit /\ u.kind = "line"
    BY DEF LineUnit, Unit
  <2>3. lines \in [1 .. Len(lines) -> LineUnit] /\ Len(lines) \in Nat
    BY <2>1
  <2>4. \A i \in 1 .. Len(lines) : lines[i] \in LineUnit
    BY <2>3
  <2>5. lines \in Seq(Unit)
    BY <2>1, <2>2, <2>4
  <2> QED
    BY <2>1, <2>2, <2>4, <2>5
<1>6. wire' = [wire EXCEPT !["client"] = IF gone THEN w ELSE w \o lines]
  BY <1>3 DEF ToClient
<1>7. w \o lines = lines
  BY <1>4, <1>5
<1>8. /\ wire'["client"] = (IF gone THEN <<>> ELSE lines) /\ wire'["server"] = wire["server"]
      /\ wire' \in [Node -> Seq(Unit)]
  <2>1. (IF gone THEN w ELSE w \o lines) \in Seq(Unit)
    BY <1>4, <1>5, <1>7
  <2> QED
    BY <1>4, <1>6, <1>7, <2>1, OneEnd
<1>9. /\ remote' \in Remotes /\ remote'.answered = TRUE
      /\ remote'.sent = remote.sent /\ remote'.open = remote.open
      /\ remote'.pings = remote.pings /\ remote'.pongs = remote.pongs
  <2>1. (~Counted(lines)) \in BOOLEAN
    BY Zenon DEF Counted
  <2> QED
    BY <1>3, <1>4, <2>1 DEF Remotes
<1>10. ControlTypes' /\ StreamTypes'
  BY <1>1, <1>3, <1>8, <1>9 DEF ControlTypes, StreamTypes
<1>11. Control'
  BY <1>1, <1>3, <1>8, <1>9 DEF Control
<1>12. Bound' = Bound /\ PlaceOf(d)' = PlaceOf(d) /\ Outgoing' = Outgoing
  BY <1>3, <1>8 DEF Bound, PlaceOf, Outgoing
<1>13. Bound = 6
  <2>1. ~nonblocking["client"]
    BY <1>1, <1>4 DEF Control
  <2>2. LinesLeft[mConnectionPhase["client"]] = 6
    BY <1>4, LinesFacts
  <2> QED
    BY <2>1, <2>2 DEF Bound
<1>14. Inbound(d)'
  <2>1. Down(<<>>, <<>>, gone, PlaceOf(d), remote, 6)
    BY <1>2, <1>4, <1>13 DEF Inbound
  <2>2. CASE gone
    <3>1. Down(<<>>, <<>>, gone, PlaceOf(d), remote', 6)
      <4>1. PICK v \in Seq(Unit) : (~gone => v = <<>>) /\ Way(<<>> \o v, PlaceOf(d), remote, 6)
        BY <2>1 DEF Down
      <4>2. Way(<<>> \o v, PlaceOf(d), remote', 6)
        BY <1>9, <4>1, WaySame
      <4> QED
        BY <4>1, <4>2 DEF Down
    <3> QED
      BY <1>3, <1>4, <1>8, <1>12, <1>13, <2>2, <3>1 DEF Inbound
  <2>3. CASE ~gone
    <3>1. Way(<<>> \o <<>>, PlaceOf(d), remote, 6)
      BY <2>1, <2>3 DEF Down
    <3>2. PlaceOf(d) = End(remote)
      <4>1. <<>> \o <<>> = <<>>
        OBVIOUS
      <4> QED
        BY <3>1, <4>1, WayNothing
    <3>3. Way(lines, PlaceOf(d), remote, 6)
      <4>1. 6 \in Nat
        OBVIOUS
      <4> QED
        BY <1>4, <1>5, <3>2, <4>1, WayLines
    <3>4. Way(lines, PlaceOf(d), remote', 6)
      BY <1>9, <3>3, WaySame
    <3>5. <<>> \o lines = lines
      BY <1>5
    <3>6. Down(<<>>, lines, gone, PlaceOf(d), remote', 6)
      BY <1>5, <3>4, <3>5 DEF Down
    <3> QED
      BY <1>3, <1>4, <1>8, <1>12, <1>13, <2>3, <3>6 DEF Inbound
  <2> QED
    BY <1>4, <2>2, <2>3
<1>15. Outbound(d)'
  <2> SUFFICES ASSUME ~eof["client"]
               PROVE  \E m \in Nat : Up(Outgoing, remote', m)
                                     /\ (~ClosingOrClosed("client") => m = d)
    BY <1>3, <1>12 DEF Outbound, ClosingOrClosed
  <2>1. PICK m \in Nat : Up(Outgoing, remote, m) /\ (~ClosingOrClosed("client") => m = d)
    BY <1>2 DEF Outbound
  <2>2. Up(Outgoing, remote', m)
    BY <1>9, <2>1, UpSame
  <2> QED
    BY <2>1, <2>2
<1>16. Got' /\ PingsEchoed'
  <2>1. \A k : BodyIn(remote', k) = BodyIn(remote, k)
    BY <1>9 DEF BodyIn
  <2>2. Got'
    BY <1>1, <1>3, <1>9, <2>1 DEF Got
  <2> QED
    BY <1>1, <1>9, <2>2 DEF PingsEchoed
<1> QED
  BY <1>10, <1>11, <1>14, <1>15, <1>16 DEF IInv

\* The server ends.
LEMMA HangUpStep ==
  ASSUME IInv, RemoteHangUp
  PROVE  IInv'
<1>1. ControlTypes /\ StreamTypes /\ Control /\ Got /\ PingsEchoed
  BY DEF IInv
<1>2. PICK d \in Nat : Inbound(d) /\ Outbound(d)
  BY DEF IInv
<1>3. /\ UNCHANGED <<mReadyState, pc, mConnectionPhase, nonblocking, mReceiveBuffer,
                     mTransmitBuffer, mReceivedData, sent, delivered, remote>>
      /\ eof' = [eof EXCEPT !["client"] = TRUE]
      /\ wire' = [wire EXCEPT !["server"] = <<>>]
  BY DEF RemoteHangUp, RemoteUp, clientVars, connectionVars, bufferVars, historyVars
<1>4. eof \in [Node -> BOOLEAN] /\ wire \in [Node -> Seq(Unit)]
  BY <1>1 DEF ControlTypes, StreamTypes
<1>5. /\ eof' \in [Node -> BOOLEAN] /\ eof'["client"] = TRUE /\ eof'["server"] = eof["server"]
      /\ wire' \in [Node -> Seq(Unit)] /\ wire'["client"] = wire["client"]
  BY <1>3, <1>4, OneEnd
<1>6. ControlTypes' /\ StreamTypes' /\ Control'
  BY <1>1, <1>3, <1>5 DEF ControlTypes, StreamTypes, Control
<1>7. Inbound(d)' /\ Outbound(d)'
  BY <1>2, <1>3, <1>5 DEF Inbound, Outbound, Bound, PlaceOf
<1>8. Got' /\ PingsEchoed'
  BY <1>1, <1>3 DEF Got, PingsEchoed
<1> QED
  BY <1>6, <1>7, <1>8 DEF IInv

\* The server reads a line or a frame.
LEMMA ReadStep ==
  ASSUME IInv, RemoteRead
  PROVE  IInv'
<1> DEFINE w == wire["server"]
           t == mTransmitBuffer["client"]
           unit == Head(w)
           size == IF unit.kind = "head" THEN 1 + unit.len ELSE 1
           rest == SubSeq(w, size + 1, Len(w))
           pong == unit.kind = "head" /\ unit.op = "PONG"
<1>1. ControlTypes /\ StreamTypes /\ Control /\ Got /\ PingsEchoed
  BY DEF IInv
<1>2. PICK d \in Nat : Inbound(d) /\ Outbound(d)
  BY DEF IInv
<1>3. /\ UNCHANGED <<mReadyState, pc, mConnectionPhase, nonblocking, mReceiveBuffer,
                     mTransmitBuffer, mReceivedData, sent, delivered, eof>>
      /\ ~eof["client"] /\ w # <<>> /\ Len(w) >= size
      /\ wire' = [wire EXCEPT !["server"] = rest]
      /\ remote' = IF pong THEN [remote EXCEPT !.pongs = Append(@, SubSeq(w, 2, size))]
                   ELSE remote
  BY DEF RemoteRead, RemoteUp, clientVars, connectionVars, bufferVars, historyVars
<1>4. /\ w \in Seq(Unit) /\ t \in Seq(Unit) /\ mReceiveBuffer["client"] \in Seq(Unit)
      /\ remote \in Remotes /\ wire \in [Node -> Seq(Unit)] /\ PlaceOf(d) \in Place
  BY <1>1, StreamFacts, OneEnd DEF StreamTypes
<1>5. PICK m \in Nat : Up(w \o t, remote, m) /\ (~ClosingOrClosed("client") => m = d)
  BY <1>2, <1>3 DEF Outbound, Outgoing
<1>6. w \o t \in Seq(Unit) /\ w \o t # <<>> /\ \A i \in 1 .. Len(w) : (w \o t)[i] = w[i]
  <2>1. w \in Seq(Unit) /\ t \in Seq(Unit) /\ w # <<>>
    BY <1>3, <1>4
  <2> HIDE DEF w, t
  <2>2. /\ w \o t \in Seq(Unit) /\ Len(w \o t) = Len(w) + Len(t)
        /\ \A i \in 1 .. Len(w) : (w \o t)[i] = w[i]
    BY <2>1, ConcatFacts
  <2>3. Len(w) \in Nat /\ Len(w) # 0 /\ Len(t) \in Nat
    BY <2>1
  <2>4. Len(w \o t) # 0
    BY <2>2, <2>3
  <2> QED
    BY <2>2, <2>4
<1>7. PICK f \in Seq(Unit), k \in Nat :
        /\ Item(f) /\ Len(f) <= Len(w \o t) /\ \A i \in 1 .. Len(f) : (w \o t)[i] = f[i]
        /\ PongStep(remote, f, Len(remote.pongs), k)
        /\ \A S : S.pings = remote.pings /\ Len(S.pongs) = k
                    => Up(SubSeq(w \o t, Len(f) + 1, Len(w \o t)), S, m)
  <2> DEFINE s == w \o t
  <2>1. s \in Seq(Unit) /\ s # <<>> /\ Up(s, remote, m)
    BY <1>5, <1>6
  <2> HIDE DEF s
  <2>2. \E f \in Seq(Unit), k \in Nat :
          /\ Item(f) /\ Len(f) <= Len(s) /\ \A i \in 1 .. Len(f) : s[i] = f[i]
          /\ PongStep(remote, f, Len(remote.pongs), k)
          /\ \A S : S.pings = remote.pings /\ Len(S.pongs) = k
                      => Up(SubSeq(s, Len(f) + 1, Len(s)), S, m)
    BY <2>1, UpFirst, SMTT(30)
  <2> QED
    BY <2>2 DEF s
<1>8. /\ unit = f[1] /\ Len(f) = size /\ size \in 1 .. Len(w)
  <2>1. Len(w) >= 1 /\ unit = w[1] /\ Len(w) \in Nat
    BY <1>3, <1>4
  <2>2. Len(f) >= 1 /\ Len(f) \in Nat
    BY <1>7 DEF Item
  <2>3. (w \o t)[1] = w[1] /\ (w \o t)[1] = f[1]
    <3>1. 1 \in 1 .. Len(w) /\ 1 \in 1 .. Len(f)
      BY <2>1, <2>2
    <3> HIDE DEF w, t
    <3> QED
      BY <1>6, <1>7, <3>1
  <2>4. Len(f) = size
    BY <1>7, <2>1, <2>3 DEF Item
  <2> QED
    BY <1>3, <2>1, <2>2, <2>3, <2>4
<1>9. \A i \in 1 .. size : w[i] = f[i]
  <2> TAKE i \in 1 .. size
  <2>1. i \in 1 .. Len(w) /\ i \in 1 .. Len(f)
    BY <1>4, <1>8
  <2> QED
    BY <1>6, <1>7, <2>1
<1>10. pong <=> Ponging(f)
  BY <1>8 DEF Ponging
<1>11. SubSeq(w, 2, size) = Carried(f)
  <2>1. PICK l \in Nat : l = size /\ l >= 1 /\ l <= Len(w) /\ l = Len(f)
    BY <1>4, <1>8
  <2>2. SubSeq(w, 2, l) \in Seq(Unit) /\ Len(SubSeq(w, 2, l)) = l - 1
        /\ \A i \in 1 .. l - 1 : SubSeq(w, 2, l)[i] = w[1 + i]
    <3>1. \A i \in 2 .. l : i \in 1 .. Len(w)
      BY <1>4, <2>1
    <3> QED
      BY <1>4, <2>1, <3>1
  <2>3. Carried(f) \in Seq(Unit) /\ Len(Carried(f)) = l - 1
        /\ \A i \in 1 .. l - 1 : Carried(f)[i] = f[1 + i]
    <3>1. 1 \in 0 .. Len(f) /\ 1 + 1 = 2 /\ Len(f) = l
      BY <2>1
    <3> QED
      BY <3>1, RestFacts DEF Carried
  <2>4. \A i \in 1 .. l - 1 : w[1 + i] = f[1 + i]
    <3> TAKE i \in 1 .. l - 1
    <3>1. 1 + i \in 1 .. size
      BY <2>1
    <3> QED
      BY <1>9, <3>1
  <2>5. SubSeq(w, 2, l) = Carried(f)
    <3> HIDE DEF w
    <3>1. \A i \in 1 .. Len(SubSeq(w, 2, l)) : SubSeq(w, 2, l)[i] = Carried(f)[i]
      BY <2>2, <2>3, <2>4
    <3> QED
      BY <2>2, <2>3, <3>1, SameSeq
  <2> QED
    BY <2>1, <2>5
<1>12. rest \in Seq(Unit) /\ SubSeq(w \o t, Len(f) + 1, Len(w \o t)) = rest \o t
  <2>1. size \in 0 .. Len(w)
    BY <1>8
  <2> HIDE DEF w, t, size
  <2>2. rest \in Seq(Unit)
    BY <1>4, <2>1, RestFacts
  <2>3. SubSeq(w \o t, size + 1, Len(w \o t)) = rest \o t
    BY <1>4, <2>1, TakeFront
  <2> QED
    BY <1>8, <2>2, <2>3
<1>13. Carried(f) \in Seq(Unit)
  <2>1. Len(f) \in Nat /\ Len(f) >= 1 /\ 1 + 1 = 2
    BY <1>7 DEF Item
  <2>2. 1 \in 0 .. Len(f)
    BY <2>1
  <2> QED
    BY <2>1, <2>2, RestFacts DEF Carried
<1> HIDE DEF rest
<1>14. /\ wire' \in [Node -> Seq(Unit)] /\ wire'["client"] = wire["client"]
       /\ wire'["server"] = rest
  BY <1>3, <1>4, <1>12, OneEnd
<1> HIDE DEF size, unit
<1>15. /\ remote' \in Remotes /\ remote'.answered = remote.answered
       /\ remote'.sent = remote.sent /\ remote'.open = remote.open
       /\ remote'.pings = remote.pings
       /\ remote'.pongs = IF pong THEN Append(remote.pongs, Carried(f)) ELSE remote.pongs
  <2>1. remote.pongs \in Seq(Seq(Unit))
    BY <1>4 DEF Remotes
  <2>2. Append(remote.pongs, Carried(f)) \in Seq(Seq(Unit))
    BY <1>13, <2>1
  <2>3. remote' = IF pong THEN [remote EXCEPT !.pongs = Append(remote.pongs, Carried(f))]
                  ELSE remote
    BY <1>3, <1>11
  <2> HIDE DEF pong
  <2> QED
    BY <1>4, <2>2, <2>3 DEF Remotes
<1>16. /\ Len(remote'.pongs) = k /\ PingsEchoed'
  <2>1. remote.pongs \in Seq(Seq(Unit)) /\ remote.pings \in Seq(Seq(Unit))
    BY <1>4 DEF Remotes
  <2>2. PICK n \in Nat : n = Len(remote.pongs)
    BY <2>1
  <2>3. n <= Len(remote.pings) /\ \A j \in 1 .. n : remote.pongs[j] = remote.pings[j]
    BY <1>1, <2>2 DEF PingsEchoed
  <2>4. CASE pong
    <3>1. k = n + 1 /\ k <= Len(remote.pings) /\ Carried(f) = remote.pings[k]
      BY <1>7, <1>10, <2>2, <2>4 DEF PongStep
    <3>2. /\ Len(Append(remote.pongs, Carried(f))) = n + 1
          /\ Append(remote.pongs, Carried(f))[n + 1] = Carried(f)
          /\ \A j \in 1 .. n : Append(remote.pongs, Carried(f))[j] = remote.pongs[j]
      BY <1>13, <2>1, <2>2
    <3>3. /\ Len(remote'.pongs) = n + 1 /\ remote'.pongs[n + 1] = Carried(f)
          /\ \A j \in 1 .. n : remote'.pongs[j] = remote.pongs[j]
      BY <1>15, <2>4, <3>2
    <3>4. \A j \in 1 .. n + 1 : j = n + 1 \/ j \in 1 .. n
      OBVIOUS
    <3>5. \A j \in 1 .. n + 1 : remote'.pongs[j] = remote.pings[j]
      BY <2>3, <3>1, <3>3, <3>4
    <3> QED
      BY <1>15, <3>1, <3>3, <3>5 DEF PingsEchoed
  <2>5. CASE ~pong
    <3>1. k = n
      BY <1>7, <1>10, <2>2, <2>5 DEF PongStep
    <3>2. remote'.pongs = remote.pongs
      BY <1>15, <2>5
    <3> QED
      BY <1>15, <2>2, <2>3, <3>1, <3>2 DEF PingsEchoed
  <2> QED
    BY <2>4, <2>5
<1>17. ControlTypes' /\ StreamTypes' /\ Control'
  BY <1>1, <1>3, <1>14, <1>15 DEF ControlTypes, StreamTypes, Control
<1>18. Bound' = Bound /\ PlaceOf(d)' = PlaceOf(d) /\ Outgoing' = rest \o t
  BY <1>3, <1>14 DEF Bound, PlaceOf, Outgoing
<1>19. Inbound(d)'
  <2>1. PICK b \in Nat : b = Bound
    BY <1>1, BoundNat
  <2>2. Down(mReceiveBuffer["client"], wire["client"], eof["server"], PlaceOf(d), remote, b)
    BY <1>2, <2>1 DEF Inbound
  <2>3. Down(mReceiveBuffer["client"], wire["client"], eof["server"], PlaceOf(d), remote', b)
    <3>1. b <= b
      BY <2>1
    <3> QED
      BY <1>4, <1>15, <2>2, <3>1, DownSame
  <2> QED
    BY <1>3, <1>14, <1>18, <2>1, <2>3 DEF Inbound
<1>20. Outbound(d)'
  <2>1. Up(rest \o t, remote', m)
    BY <1>7, <1>12, <1>15, <1>16
  <2>2. Up(Outgoing', remote', m)
    BY <1>18, <2>1
  <2>3. ClosingOrClosed("client")' = ClosingOrClosed("client")
    BY <1>3 DEF ClosingOrClosed
  <2> QED
    BY <1>5, <2>2, <2>3 DEF Outbound
<1>21. Got'
  <2>1. \A i : BodyIn(remote', i) = BodyIn(remote, i)
    BY <1>15 DEF BodyIn
  <2> QED
    BY <1>1, <1>3, <1>15, <2>1 DEF Got
<1> QED
  BY <1>16, <1>17, <1>19, <1>20, <1>21 DEF IInv

\* The server's steps keep the invariant.
LEMMA ServerStep ==
  ASSUME IInv, RemoteStep
  PROVE  IInv'
<1>1. remote \in Remotes
  BY StreamFacts DEF IInv
<1>2. CASE \E lines \in Answers : RemoteAnswer(lines)
  BY <1>2, AnswerStep
<1>3. CASE \E op \in Kinds \cup {"CONTINUATION"}, len \in Lengths, fin \in BOOLEAN :
             RemoteMessage(op, len, fin)
  <2>1. PICK op \in Kinds \cup {"CONTINUATION"}, len \in Lengths, fin \in BOOLEAN :
          RemoteMessage(op, len, fin)
    BY <1>3
  <2>2. \E f \in Seq(Unit) : Adds(f) /\ ToClient(f)
    BY <1>1, <2>1, MessageSent
  <2>3. RemoteUp /\ remote.answered /\ eof' = eof
    BY <2>1 DEF RemoteMessage, MaySend
  <2> QED
    BY <2>2, <2>3, ServerSends
<1>4. CASE \E len \in Lengths : RemotePing(len)
  <2>1. PICK len \in Lengths : RemotePing(len)
    BY <1>4
  <2>2. \E f \in Seq(Unit) : Adds(f) /\ ToClient(f)
    BY <1>1, <2>1, PingSent
  <2>3. RemoteUp /\ remote.answered /\ eof' = eof
    BY <2>1 DEF RemotePing, MaySend
  <2> QED
    BY <2>2, <2>3, ServerSends
<1>5. CASE RemoteClose
  <2>1. \E f \in Seq(Unit) : Adds(f) /\ ToClient(f)
    BY <1>1, <1>5, CloseSent
  <2>2. RemoteUp /\ remote.answered /\ eof' = eof
    BY <1>5 DEF RemoteClose, MaySend
  <2> QED
    BY <2>1, <2>2, ServerSends
<1> QED
  BY <1>2, <1>3, <1>4, <1>5, HangUpStep, ReadStep DEF RemoteStep

-----------------------------------------------------------------------------
(* The invariant holds at first and is kept.                               *)

\* The client's request is lines.
LEMMA RequestLines ==
  ASSUME NEW get \in Text
  PROVE  /\ Request(get) \in Seq(Unit)
         /\ \A i \in 1 .. Len(Request(get)) : Request(get)[i].kind = "line"
<1>1. \A text \in Text : Line(text) \in Unit /\ Line(text).kind = "line"
  BY DEF Line, LineUnit, Unit
<1>2. /\ "Host" \in Text /\ "Upgrade" \in Text /\ "Connection" \in Text
      /\ "Sec-WebSocket-Key" \in Text /\ "Sec-WebSocket-Version" \in Text /\ EmptyLine \in Text
  BY DEF Text
<1>3. /\ Line(get) \in Unit /\ Line("Host") \in Unit /\ Line("Upgrade") \in Unit
      /\ Line("Connection") \in Unit /\ Line("Sec-WebSocket-Key") \in Unit
      /\ Line("Sec-WebSocket-Version") \in Unit /\ Line(EmptyLine) \in Unit
  BY <1>1, <1>2
<1>4. /\ Line(get).kind = "line" /\ Line("Host").kind = "line" /\ Line("Upgrade").kind = "line"
      /\ Line("Connection").kind = "line" /\ Line("Sec-WebSocket-Key").kind = "line"
      /\ Line("Sec-WebSocket-Version").kind = "line" /\ Line(EmptyLine).kind = "line"
  BY <1>1, <1>2
<1>5. Request(get) \in Seq(Unit) /\ Len(Request(get)) = 7
  BY <1>3 DEF Request
<1>6. \A i \in 1 .. 7 : Request(get)[i].kind = "line"
  BY <1>4 DEF Request
<1> QED
  BY <1>5, <1>6

\* So is the one that asks for the root.
LEMMA RequestFacts ==
  /\ Request("GET /") \in Seq(Unit)
  /\ \A i \in 1 .. Len(Request("GET /")) : Request("GET /")[i].kind = "line"
<1>1. "GET /" \in Text
  BY DEF Text
<1> QED
  BY <1>1, RequestLines

\* The invariant holds at first: the request is on its way, or the client has
\* failed to connect and its close frame waits.
LEMMA InitIInv ==
  ASSUME Init
  PROVE  IInv
<1>1. PICK connected \in BOOLEAN :
        /\ mReadyState = [e \in Endpoint |-> IF connected THEN "CONNECTING" ELSE "CLOSING"]
        /\ mTransmitBuffer = [e \in Endpoint |-> IF connected THEN <<>> ELSE CloseFrame]
        /\ wire = [n \in Node |-> IF n = "server" /\ connected THEN Request("GET /") ELSE <<>>]
  BY DEF Init
<1>2. /\ mConnectionPhase = [e \in Endpoint |-> "HTTP_STATUS"]
      /\ nonblocking = [e \in Endpoint |-> FALSE]
      /\ mReceiveBuffer = [e \in Endpoint |-> <<>>]
      /\ mReceivedData = [e \in Endpoint |-> <<>>]
      /\ pc = [e \in Endpoint |-> "idle"]
      /\ eof = [n \in Node |-> FALSE]
      /\ sent = [e \in Endpoint |-> <<>>] /\ delivered = [e \in Endpoint |-> <<>>]
      /\ remote = RemoteStart
  BY DEF Init
<1>3. /\ remote \in Remotes /\ remote.answered = FALSE /\ remote.open = <<>>
      /\ remote.sent = <<>> /\ remote.pings = <<>> /\ remote.pongs = <<>>
  BY <1>2 DEF RemoteStart, Remotes
<1>4. CloseFrame \in Seq(Unit) /\ Request("GET /") \in Seq(Unit)
  BY CloseFacts, RequestFacts DEF Item
<1>5. ControlTypes
  BY <1>1, <1>2 DEF ControlTypes, States, Points, Phases
<1>6. StreamTypes
  <2>1. /\ \A e \in Endpoint : mTransmitBuffer[e] \in Seq(Unit)
        /\ \A n \in Node : wire[n] \in Seq(Unit)
    <3>0. <<>> \in Seq(Unit)
      OBVIOUS
    <3>1. (IF connected THEN <<>> ELSE CloseFrame) \in Seq(Unit)
      BY <1>4, <3>0, Zenon
    <3>2. \A n : (IF n = "server" /\ connected THEN Request("GET /") ELSE <<>>) \in Seq(Unit)
      BY <1>4, <3>0, Zenon
    <3> QED
      BY <1>1, <3>1, <3>2
  <2>2. mTransmitBuffer \in [Endpoint -> Seq(Unit)] /\ wire \in [Node -> Seq(Unit)]
    BY <1>1, <2>1
  <2>3. /\ mReceiveBuffer \in [Endpoint -> Seq(Unit)] /\ mReceivedData \in [Endpoint -> Seq(Unit)]
        /\ sent \in [Endpoint -> Seq(Messages)] /\ delivered \in [Endpoint -> Seq(Messages)]
    BY <1>2
  <2> QED
    BY <1>3, <2>2, <2>3 DEF StreamTypes
<1>7. /\ pc["client"] = "idle" /\ nonblocking["client"] = FALSE /\ eof["client"] = FALSE
      /\ eof["server"] = FALSE /\ mReceiveBuffer["client"] = <<>> /\ wire["client"] = <<>>
      /\ mConnectionPhase["client"] = "HTTP_STATUS" /\ mReceivedData["client"] = <<>>
      /\ delivered["client"] = <<>>
      /\ mReadyState["client"] = (IF connected THEN "CONNECTING" ELSE "CLOSING")
      /\ mTransmitBuffer["client"] = (IF connected THEN <<>> ELSE CloseFrame)
      /\ wire["server"] = (IF connected THEN Request("GET /") ELSE <<>>)
  BY <1>1, <1>2, OneEnd
<1>8. Control
  BY <1>3, <1>7, LinesFacts DEF Control, Phases
<1>9. Inbound(0)
  <2>1. PICK b \in Nat : b = Bound
    BY <1>8, BoundNat
  <2>2. End(remote) = PlaceOf(0)
    <3>1. Len(remote.sent) = 0 /\ Len(remote.pings) = 0 /\ BodyIn(remote, 1) = <<>>
      BY <1>3 DEF BodyIn
    <3> QED
      <4>1. Len(delivered["client"]) = 0 /\ Len(mReceivedData["client"]) = 0
        BY <1>7
      <4>2. Len(<<>>) = 0 /\ 0 + 1 = 1
        OBVIOUS
      <4>3. Len(BodyIn(remote, 1)) = 0
        BY <3>1, <4>2
      <4> QED
        BY <3>1, <4>1, <4>2, <4>3 DEF End, PlaceOf
  <2>3. Way(<<>>, End(remote), remote, b)
    <3>1. <<>> \in Seq(Unit) /\ Len(<<>>) <= b /\ \A i \in 1 .. Len(<<>>) : <<>>[i].kind = "line"
      BY <2>1
    <3> QED
      BY <1>3, <3>1, WayLines
  <2>4. <<>> \o <<>> = <<>> /\ <<>> \in Seq(Unit)
    OBVIOUS
  <2>5. Down(<<>>, <<>>, FALSE, PlaceOf(0), remote, b)
    BY <2>2, <2>3, <2>4 DEF Down
  <2> QED
    BY <1>7, <2>1, <2>5 DEF Inbound
<1>10. Outbound(0)
  <2>1. Len(remote.pongs) = 0
    BY <1>3
  <2>2. CASE connected
    <3>1. Outgoing = Request("GET /")
      <4>1. Outgoing = Request("GET /") \o <<>>
        BY <1>7, <2>2 DEF Outgoing
      <4>2. \A s \in Seq(Unit) : s \o <<>> = s
        OBVIOUS
      <4> QED
        BY <1>4, <4>1, <4>2
    <3>2. Up(Outgoing, remote, 0)
      BY <1>3, <2>1, <3>1, RequestFacts, UpLines
    <3> QED
      BY <3>2 DEF Outbound
  <2>3. CASE ~connected
    <3>1. <<>> \in Seq(Unit) /\ \A i \in 1 .. Len(<<>>) : <<>>[i].kind = "line"
      OBVIOUS
    <3>2. Up(<<>>, remote, 0)
      BY <1>3, <2>1, <3>1, UpLines
    <3>3. PongStep(remote, CloseFrame, 0, 0)
      BY CloseFacts DEF PongStep
    <3>4. Up(<<>> \o CloseFrame, remote, 0)
      BY <3>1, <3>2, <3>3, CloseFacts, UpAppend
    <3>5. Outgoing = <<>> \o CloseFrame
      BY <1>7, <2>3 DEF Outgoing
    <3> QED
      BY <3>4, <3>5 DEF Outbound
  <2> QED
    BY <2>2, <2>3
<1>11. Got /\ PingsEchoed
  <2>1. /\ Len(delivered["client"]) = 0 /\ Len(mReceivedData["client"]) = 0
        /\ Len(remote.pongs) = 0 /\ Len(remote.pings) = 0
    BY <1>3, <1>7
  <2> QED
    BY <2>1 DEF Got, PingsEchoed
<1> QED
  BY <1>5, <1>6, <1>8, <1>9, <1>10, <1>11 DEF IInv

\* Every step but that of SwallowFrame keeps the invariant.
LEMMA NextIInv ==
  ASSUME IInv, ProperStep \/ RemoteStep \/ UNCHANGED vars
  PROVE  IInv'
<1>1. CASE ProperStep
  BY <1>1, ClientStep
<1>2. CASE RemoteStep
  BY <1>2, ServerStep
<1>3. CASE UNCHANGED vars
  <2>1. UNCHANGED <<mReadyState, pc, mConnectionPhase, nonblocking, mReceiveBuffer,
                    mTransmitBuffer, mReceivedData, wire, eof, remote, sent, delivered>>
    BY <1>3 DEF vars, connectionVars, bufferVars, netVars, historyVars
  <2>2. ControlTypes' /\ StreamTypes' /\ Control' /\ Got' /\ PingsEchoed'
    BY <2>1 DEF IInv, ControlTypes, StreamTypes, Control, Got, PingsEchoed
  <2>3. \A d : Inbound(d)' = Inbound(d) /\ Outbound(d)' = Outbound(d)
    BY <2>1 DEF Inbound, Outbound, Bound, PlaceOf, Outgoing, ClosingOrClosed
  <2>4. \E d \in Nat : Inbound(d)' /\ Outbound(d)'
    BY <2>3 DEF IInv
  <2> QED
    BY <2>2, <2>4 DEF IInv
<1> QED
  BY <1>1, <1>2, <1>3

\* What the invariant says of the messages.
LEMMA IInvReassembled ==
  ASSUME IInv
  PROVE  MessagesReassembled
<1> DEFINE R == remote
           n == Len(delivered["client"])
           data == mReceivedData["client"]
<1>1. StreamTypes /\ Got
  BY DEF IInv
<1>2. PICK d \in Nat : Inbound(d)
  BY DEF IInv
<1>3. Within(R, PlaceOf(d)) /\ n \in Nat /\ Len(data) \in Nat /\ Len(R.sent) \in Nat
  BY <1>1, <1>2, InboundWithin
<1>4. n <= Len(R.sent) /\ Len(data) <= Len(BodyIn(R, n + 1))
  BY <1>3 DEF Within, PlaceOf
<1>5. BodyIn(R, n + 1) \in Seq(Unit) /\ data \in Seq(Unit)
  <2>1. n + 1 \in Nat \ {0} /\ n + 1 <= Len(R.sent) + 1 /\ R \in Remotes
    BY <1>1, <1>3, <1>4, StreamFacts
  <2> QED
    BY <1>1, <2>1, EndFacts, StreamFacts
<1>6. data = SubSeq(BodyIn(R, n + 1), 1, Len(data))
  <2> DEFINE body == BodyIn(R, n + 1)
             l == Len(data)
             front == SubSeq(body, 1, l)
  <2>1. \A i \in 1 .. l : data[i] = body[i]
    BY <1>1 DEF Got
  <2>2. body \in Seq(Unit) /\ data \in Seq(Unit) /\ l <= Len(body) /\ l \in Nat
    BY <1>3, <1>4, <1>5
  <2> HIDE DEF body, data, l
  <2>3. front \in Seq(Unit) /\ Len(front) = l /\ \A i \in 1 .. l : front[i] = body[i]
    BY <2>2
  <2> HIDE DEF front
  <2>4. Len(data) = Len(front) /\ \A i \in 1 .. Len(data) : data[i] = front[i]
    BY <2>1, <2>3 DEF l
  <2>5. data = front
    BY <2>2, <2>3, <2>4, SameSeq
  <2> QED
    BY <2>5 DEF front, body, l
<1>7. \A k \in 1 .. n : delivered["client"][k].body = R.sent[k].body
  BY <1>1 DEF Got
<1> HIDE DEF data
<1> QED
  BY <1>4, <1>6, <1>7, OneEnd DEF MessagesReassembled, BodyIn, data

-----------------------------------------------------------------------------
(* The handshake and the frames stay apart.                                *)

\* The client is done before the first unit of s that is no line: there are the
\* lines it waits for, or one at which it gives up.
EnoughLines(s, phase) ==
  \E k \in 1 .. Len(s) :
    /\ \A i \in 1 .. k : s[i].kind = "line"
    /\ \/ k >= LinesLeft[phase]
       \/ phase = "HTTP_STATUS" /\ s[1].text # "101"
       \/ \E i \in 1 .. k : s[i].text = TooLong

\* That is so of what is on its way to the client as long as it is connecting.
Ahead ==
  mReadyState["client"] = "CONNECTING" /\ remote.answered /\ ~eof["server"] =>
    EnoughLines(wire["client"], mConnectionPhase["client"])

\* What comes behind the lines does not matter.
LEMMA EnoughMore ==
  ASSUME NEW U, NEW s \in Seq(U), NEW f \in Seq(U), NEW phase, EnoughLines(s, phase)
  PROVE  EnoughLines(s \o f, phase)
<1>1. PICK k \in 1 .. Len(s) :
        /\ \A i \in 1 .. k : s[i].kind = "line"
        /\ \/ k >= LinesLeft[phase]
           \/ phase = "HTTP_STATUS" /\ s[1].text # "101"
           \/ \E i \in 1 .. k : s[i].text = TooLong
  BY DEF EnoughLines
<1> DEFINE t == s \o f
<1>2. \A i \in 1 .. Len(s) : t[i] = s[i]
  BY ConcatFacts
<1>3. Len(s) \in Nat /\ Len(f) \in Nat /\ Len(t) = Len(s) + Len(f)
  BY ConcatFacts
<1> HIDE DEF t
<1>4. k \in 1 .. Len(t) /\ 1 \in 1 .. k /\ \A i \in 1 .. k : i \in 1 .. Len(s)
  BY <1>3
<1>5. \A i \in 1 .. k : t[i] = s[i]
  BY <1>2, <1>4
<1> QED
  BY <1>1, <1>4, <1>5 DEF EnoughLines, t

\* Of the rest there are enough after a line that was one the client waits for.
LEMMA EnoughTail ==
  ASSUME NEW U, NEW s \in Seq(U), NEW phase \in DOMAIN LinesLeft, EnoughLines(s, phase),
         NEW next \in DOMAIN LinesLeft, LinesLeft[phase] = LinesLeft[next] + 1,
         s[1].text # TooLong, phase = "HTTP_STATUS" => s[1].text = "101"
  PROVE  EnoughLines(Tail(s), next)
<1>1. PICK k \in 1 .. Len(s) :
        /\ \A i \in 1 .. k : s[i].kind = "line"
        /\ k >= LinesLeft[phase] \/ \E i \in 1 .. k : s[i].text = TooLong
  BY DEF EnoughLines
<1> DEFINE t == Tail(s)
<1>2. Len(s) \in Nat /\ k \in Nat /\ Len(s) >= 1
  BY <1>1
<1>3. Len(t) = Len(s) - 1 /\ \A i \in 1 .. Len(s) - 1 : t[i] = s[i + 1]
  BY <1>2, TailFacts
<1> HIDE DEF t
<1>4. LinesLeft[next] \in 1 .. 6
  BY LinesFacts
<1>5. k >= 2
  <2>1. CASE k >= LinesLeft[phase]
    BY <1>2, <1>4, <2>1
  <2>2. CASE \E i \in 1 .. k : s[i].text = TooLong
    <3>1. PICK i \in 1 .. k : s[i].text = TooLong
      BY <2>2
    <3>2. i # 1
      BY <3>1
    <3> QED
      BY <1>2, <3>2
  <2> QED
    BY <1>1, <2>1, <2>2
<1>6. /\ k - 1 \in 1 .. Len(t)
      /\ \A i \in 1 .. k - 1 : i \in 1 .. Len(s) - 1 /\ i + 1 \in 1 .. k
  BY <1>2, <1>3, <1>5
<1>7. \A i \in 1 .. k - 1 : t[i] = s[i + 1] /\ t[i].kind = "line"
  BY <1>1, <1>3, <1>6
<1>8. k - 1 >= LinesLeft[next] \/ \E i \in 1 .. k - 1 : t[i].text = TooLong
  <2>1. CASE k >= LinesLeft[phase]
    BY <1>2, <1>4, <2>1
  <2>2. CASE \E i \in 1 .. k : s[i].text = TooLong
    <3>1. PICK i \in 1 .. k : s[i].text = TooLong
      BY <2>2
    <3>2. i # 1
      BY <3>1
    <3>3. i - 1 \in 1 .. k - 1 /\ (i - 1) + 1 = i
      BY <1>2, <3>2
    <3> QED
      BY <1>7, <3>1, <3>3
  <2> QED
    BY <1>1, <2>1, <2>2
<1> QED
  BY <1>6, <1>7, <1>8 DEF EnoughLines, t

\* The client's steps keep them ahead.
LEMMA AheadClient ==
  ASSUME IInv, Ahead, ProperStep
  PROVE  Ahead'
<1> DEFINE w == wire["client"]
           phase == mConnectionPhase["client"]
<1>1. /\ ControlTypes /\ Control /\ remote' = remote /\ w \in Seq(Unit)
      /\ mReadyState \in [Endpoint -> States] /\ eof \in [Node -> BOOLEAN]
      /\ wire \in [Node -> Seq(Unit)] /\ mConnectionPhase \in [Endpoint -> Phases]
  BY ControlTypesStep, StreamFacts, OneEnd DEF IInv, StreamTypes, ControlTypes
<1>2. CASE UNCHANGED <<mReadyState, mConnectionPhase, wire, eof>>
  BY <1>1, <1>2 DEF Ahead
<1>3. CASE mReadyState["client"]' # "CONNECTING" \/ eof["server"]'
  BY <1>3 DEF Ahead
<1>4. SUFFICES ASSUME mReadyState["client"]' = "CONNECTING", ~eof["server"]', remote.answered
               PROVE  Ahead'
  BY <1>1, <1>3 DEF Ahead
<1>5. CASE AcceptStatus("client")
  <2>1. /\ mReadyState["client"] = "CONNECTING" /\ w # <<>> /\ Head(w).text = "101"
        /\ Head(w).text # TooLong /\ phase = "HTTP_STATUS"
        /\ mConnectionPhase' = [mConnectionPhase EXCEPT !["client"] = "HCONNECTION_UPGRADE"]
        /\ wire' = [wire EXCEPT !["client"] = Tail(w)] /\ eof' = eof
    BY <1>5 DEF AcceptStatus, HasLine, AtLine, CanConnect, NextLine
  <2>2. EnoughLines(w, phase) /\ Head(w) = w[1]
    BY <1>1, <1>4, <2>1 DEF Ahead
  <2>3. /\ "HTTP_STATUS" \in DOMAIN LinesLeft /\ "HCONNECTION_UPGRADE" \in DOMAIN LinesLeft
        /\ LinesLeft["HTTP_STATUS"] = LinesLeft["HCONNECTION_UPGRADE"] + 1
    BY LinesFacts DEF Phases, NextPhase
  <2> HIDE DEF w
  <2>4. EnoughLines(Tail(w), "HCONNECTION_UPGRADE")
    BY <1>1, <2>1, <2>2, <2>3, EnoughTail
  <2>5. wire'["client"] = Tail(w) /\ mConnectionPhase'["client"] = "HCONNECTION_UPGRADE"
    BY <1>1, <2>1, OneEnd
  <2> QED
    BY <2>4, <2>5 DEF Ahead
<1>6. CASE ClientLine("client")
  <2>1. /\ mReadyState["client"] = "CONNECTING" /\ w # <<>> /\ Head(w).text # TooLong
        /\ wire' = [wire EXCEPT !["client"] = Tail(w)] /\ eof' = eof
    BY <1>6 DEF ClientLine, HasLine, AtLine, CanConnect, NextLine
  <2>2. phase # "H"
    BY <1>1, <1>4, <1>6, OneEnd DEF ClientLine, Opened
  <2>3. /\ phase \in DOMAIN NextPhase
        /\ mConnectionPhase' = [mConnectionPhase EXCEPT !["client"] = NextPhase[phase]]
    BY <1>6, <2>2 DEF ClientLine
  <2>4. EnoughLines(w, phase) /\ Head(w) = w[1]
    BY <1>1, <1>4, <2>1 DEF Ahead
  <2>5. /\ phase \in DOMAIN LinesLeft /\ NextPhase[phase] \in DOMAIN LinesLeft
        /\ LinesLeft[phase] = LinesLeft[NextPhase[phase]] + 1 /\ phase # "HTTP_STATUS"
    <3>1. "HTTP_STATUS" \notin DOMAIN NextPhase
      BY DEF NextPhase
    <3> QED
      BY <2>3, <3>1, LinesFacts
  <2> HIDE DEF w, phase
  <2>6. EnoughLines(Tail(w), NextPhase[phase])
    BY <1>1, <2>1, <2>4, <2>5, EnoughTail
  <2>7. wire'["client"] = Tail(w) /\ mConnectionPhase'["client"] = NextPhase[phase]
    BY <1>1, <2>1, <2>3, OneEnd
  <2> QED
    BY <2>6, <2>7 DEF Ahead
<1>7. CASE \/ \E op \in Kinds, len \in Lengths : Send("client", op, len)
           \/ SendPing("client")
  BY <1>2, <1>7 DEF Send, SendPing, connectionVars, netVars
<1>8. CASE Close("client") \/ Delete("client")
  <2>1. mReadyState["client"]' # "CONNECTING"
    BY <1>1, <1>8, OneEnd DEF Close, Delete, DoClose, ClosingOrClosed
  <2> QED
    BY <2>1, <1>3
<1>9. CASE ConnectTimeout("client") \/ LongLine("client") \/ RefuseLine("client")
  <2>1. mReadyState["client"]' # "CONNECTING"
    BY <1>1, <1>9, OneEnd DEF ConnectTimeout, LongLine, RefuseLine, GiveUp
  <2> QED
    BY <2>1, <1>3
<1>10. CASE Deleted("client")
  <2>1. eof["server"]' \/ UNCHANGED <<mReadyState, mConnectionPhase, wire, eof>>
    BY <1>1, <1>10, OneEnd DEF Deleted, HangUp, connectionVars, netVars
  <2> QED
    BY <1>2, <1>3, <2>1
<1>11. CASE ServerLine("client")
  <2>1. mConnectionPhase["client"] \in DOMAIN LinesLeft
    BY <1>1, <1>11 DEF ServerLine, HasLine, AtLine, CanConnect, Control
  <2> QED
    BY <1>11, <2>1, LinesFacts DEF ServerLine
<1>12. CASE PollBegin("client")
  BY <1>2, <1>12 DEF PollBegin, At, connectionVars, netVars
<1>13. CASE pc["client"] \in {"recv", "send", "dispatch"}
  <2>1. mReadyState["client"] # "CONNECTING"
    BY <1>1, <1>13 DEF Control
  <2>2. CASE UNCHANGED mReadyState
    BY <1>4, <2>1, <2>2
  <2>3. CASE Drop("client")
    BY <1>1, <1>4, <2>3, OneEnd DEF Drop
  <2>4. CASE DoClose("client")
    BY <1>1, <1>4, <2>1, <2>4, OneEnd DEF DoClose, ClosingOrClosed
  <2>5. CASE \/ Receive("client") \/ ReceiveWouldBlock("client") \/ SendSome("client")
             \/ SendLost("client") \/ SendWouldBlock("client")
    BY <2>2, <2>5 DEF Receive, ReceiveWouldBlock, SendSome, SendLost, SendWouldBlock
  <2>6. CASE ReceiveEnd("client") \/ SendError("client") \/ SendDone("client")
    BY <2>2, <2>3, <2>6 DEF ReceiveEnd, SendError, SendDone
  <2>7. CASE \E reaction \in Reactions : DispatchMessage("client", reaction)
    BY <2>2, <2>4, <2>7 DEF DispatchMessage, Reaction
  <2>8. CASE \/ DispatchFragment("client") \/ DispatchPing("client") \/ DispatchPong("client")
             \/ DispatchDone("client")
    BY <2>2, <2>8 DEF DispatchFragment, DispatchPing, DispatchPong, DispatchDone
  <2>9. CASE DispatchClose("client")
    BY <2>4, <2>9 DEF DispatchClose
  <2> QED
    BY <1>5, <1>6, <1>7, <1>8, <1>9, <1>10, <1>11, <1>12, <2>5, <2>6, <2>7, <2>8, <2>9, StepCases
<1>14. CASE pc["client"] \notin {"recv", "send", "dispatch"}
  <2>1. /\ ~Receive("client") /\ ~ReceiveWouldBlock("client") /\ ~ReceiveEnd("client")
        /\ ~SendSome("client") /\ ~SendLost("client") /\ ~SendError("client")
        /\ ~SendWouldBlock("client") /\ ~SendDone("client")
    BY <1>14 DEF Receive, ReceiveWouldBlock, ReceiveEnd, SendSome, SendLost, SendError,
       SendWouldBlock, SendDone, At
  <2>2. /\ \A reaction \in Reactions : ~DispatchMessage("client", reaction)
        /\ ~DispatchFragment("client") /\ ~DispatchPing("client") /\ ~DispatchPong("client")
        /\ ~DispatchClose("client") /\ ~DispatchDone("client")
    BY <1>14 DEF DispatchMessage, DispatchFragment, DispatchPing, DispatchPong, DispatchClose,
       DispatchDone, Dispatching, At
  <2> QED
    BY <1>5, <1>6, <1>7, <1>8, <1>9, <1>10, <1>11, <1>12, <2>1, <2>2, StepCases
<1> QED
  BY <1>13, <1>14

\* The server's steps do so as well, unless its answer is short.
LEMMA AheadServer ==
  ASSUME IInv, Ahead, RemoteStep, ~remote'.short
  PROVE  Ahead'
<1> DEFINE w == wire["client"]
<1>1. /\ w \in Seq(Unit) /\ remote \in Remotes /\ wire \in [Node -> Seq(Unit)]
      /\ eof \in [Node -> BOOLEAN] /\ Control
  BY StreamFacts DEF IInv, StreamTypes, ControlTypes
<1>2. UNCHANGED <<mReadyState, mConnectionPhase>>
  BY DEF RemoteStep, RemoteAnswer, RemoteMessage, RemotePing, RemoteClose, RemoteHangUp,
         RemoteRead, MaySend, RemoteUp, clientVars, connectionVars
<1>3. CASE \E lines \in Answers : RemoteAnswer(lines)
  <2>1. PICK lines \in Answers : RemoteAnswer(lines)
    BY <1>3
  <2>2. /\ ~remote.answered /\ ToClient(lines) /\ eof' = eof
        /\ remote' = [remote EXCEPT !.answered = TRUE, !.short = ~Counted(lines)]
    BY <2>1 DEF RemoteAnswer
  <2>3. remote'.short = ~Counted(lines)
    BY <1>1, <2>2 DEF Remotes
  <2>4. w = <<>> /\ mConnectionPhase["client"] = "HTTP_STATUS"
    BY <1>1, <2>2 DEF Control
  <2>5. /\ lines \in Seq([kind : {"line"}, text : STRING])
        /\ Len(lines) <= 6
    BY RemotePeerAssumption
  <2>6. EnoughLines(lines, "HTTP_STATUS")
    <3> DEFINE T == [kind : {"line"}, text : STRING]
    <3>1. lines \in Seq(T)
      BY <2>5
    <3>2. \A u \in T : u.kind = "line"
      OBVIOUS
    <3> HIDE DEF T
    <3>3. PICK n \in Nat : n = Len(lines)
      BY <3>1
    <3>4. \A i \in 1 .. n : lines[i].kind = "line"
      BY <3>1, <3>2, <3>3
    <3>5. DOMAIN lines = 1 .. n /\ (lines # <<>> => n >= 1)
      BY <3>1, <3>3
    <3>6. \/ n = 6
          \/ n >= 1 /\ lines[1].text # "101"
          \/ \E i \in 1 .. n : lines[i].text = TooLong
      BY <2>3, <3>3, <3>5 DEF Counted
    <3>7. n \in 1 .. Len(lines)
      BY <3>3, <3>6
    <3>8. LinesLeft["HTTP_STATUS"] = 6
      BY LinesFacts
    <3>9. \/ n >= LinesLeft["HTTP_STATUS"]
          \/ lines[1].text # "101"
          \/ \E i \in 1 .. n : lines[i].text = TooLong
      BY <3>6, <3>8
    <3> QED
      BY <3>4, <3>7, <3>9 DEF EnoughLines
  <2>7. eof["server"] \/ wire'["client"] = lines
    <3>1. <<>> \o lines = lines
      BY <2>5
    <3> QED
      BY <1>1, <2>2, <2>4, <3>1, OneEnd DEF ToClient
  <2> QED
    BY <1>2, <2>2, <2>4, <2>6, <2>7 DEF Ahead
<1>4. ASSUME NEW f \in Seq(Unit), ToClient(f), eof' = eof, remote.answered
      PROVE  Ahead'
  <2>1. SUFFICES ASSUME mReadyState["client"] = "CONNECTING", ~eof["server"]
                 PROVE  EnoughLines(wire'["client"], mConnectionPhase["client"])
    BY <1>2, <1>4 DEF Ahead
  <2>2. EnoughLines(w, mConnectionPhase["client"])
    BY <1>4, <2>1 DEF Ahead
  <2>3. EnoughLines(w \o f, mConnectionPhase["client"])
    BY <1>1, <2>2, EnoughMore
  <2>4. wire'["client"] = w \o f
    BY <1>1, <1>4, <2>1, OneEnd DEF ToClient
  <2> QED
    BY <2>3, <2>4
<1>5. CASE \E op \in Kinds \cup {"CONTINUATION"}, len \in Lengths, fin \in BOOLEAN :
             RemoteMessage(op, len, fin)
  <2>1. PICK op \in Kinds \cup {"CONTINUATION"}, len \in Lengths, fin \in BOOLEAN :
          RemoteMessage(op, len, fin)
    BY <1>5
  <2>2. \E f \in Seq(Unit) : Adds(f) /\ ToClient(f)
    BY <1>1, <2>1, MessageSent
  <2>3. remote.answered /\ eof' = eof
    BY <2>1 DEF RemoteMessage, MaySend
  <2> QED
    BY <1>4, <2>2, <2>3
<1>6. CASE \E len \in Lengths : RemotePing(len)
  <2>1. PICK len \in Lengths : RemotePing(len)
    BY <1>6
  <2>2. \E f \in Seq(Unit) : Adds(f) /\ ToClient(f)
    BY <1>1, <2>1, PingSent
  <2>3. remote.answered /\ eof' = eof
    BY <2>1 DEF RemotePing, MaySend
  <2> QED
    BY <1>4, <2>2, <2>3
<1>7. CASE RemoteClose
  <2>1. \E f \in Seq(Unit) : Adds(f) /\ ToClient(f)
    BY <1>1, <1>7, CloseSent
  <2>2. remote.answered /\ eof' = eof
    BY <1>7 DEF RemoteClose, MaySend
  <2> QED
    BY <1>4, <2>1, <2>2
<1>8. CASE RemoteHangUp \/ RemoteRead
  <2>1. /\ wire'["client"] = wire["client"] /\ eof'["server"] = eof["server"]
        /\ remote'.answered = remote.answered
    <3>1. /\ "client" \in Node /\ "server" \in Node /\ "client" # "server"
      BY OneEnd
    <3>2. CASE RemoteHangUp
      BY <1>1, <3>1, <3>2 DEF RemoteHangUp
    <3>3. CASE RemoteRead
      <4>1. /\ eof' = eof /\ \E v : wire' = [wire EXCEPT !["server"] = v]
            /\ remote' = remote \/ \E v : remote' = [remote EXCEPT !.pongs = v]
        BY <3>3 DEF RemoteRead
      <4> QED
        BY <1>1, <3>1, <4>1 DEF Remotes
    <3> QED
      BY <1>8, <3>2, <3>3
  <2> QED
    BY <1>2, <2>1 DEF Ahead
<1> QED
  BY <1>3, <1>5, <1>6, <1>7, <1>8 DEF RemoteStep

\* While it is connecting the client stands at a line.
LEMMA StandsAtLine ==
  ASSUME IInv, Ahead, mReadyState["client"] = "CONNECTING", wire["client"] # <<>>
  PROVE  Head(wire["client"]).kind = "line"
<1>1. Control /\ wire["client"] \in Seq(Unit) /\ eof \in [Node -> BOOLEAN]
      /\ remote \in Remotes
  BY StreamFacts DEF IInv, ControlTypes
<1>2. remote.answered /\ ~eof["server"]
  BY <1>1 DEF Control, Remotes
<1>3. EnoughLines(wire["client"], mConnectionPhase["client"])
  BY <1>2 DEF Ahead
<1> QED
  BY <1>1, <1>3 DEF EnoughLines

\* So that no frame is taken for a line.
LEMMA OnlyProperSteps ==
  ASSUME IInv, Ahead, EndpointStep("client")
  PROVE  ProperStep
<1>1. SUFFICES ASSUME SwallowFrame("client") PROVE FALSE
  BY DEF ProperStep
<1>2. /\ mReadyState["client"] = "CONNECTING" /\ wire["client"] # <<>>
      /\ Head(wire["client"]).kind = "head"
  BY <1>1 DEF SwallowFrame, CanConnect
<1> QED
  BY <1>2, StandsAtLine

\* The invariant of every server: behind a short answer it promises nothing.
AnyServer ==
  /\ {"answered", "short"} \subseteq DOMAIN remote
  /\ remote.answered \in BOOLEAN /\ remote.short \in BOOLEAN
  /\ remote.short => remote.answered
  /\ ~remote.short => IInv /\ Ahead

\* No step of the client changes the server.
LEMMA RemoteKept ==
  ASSUME EndpointStep("client")
  PROVE  remote' = remote
<1>1. CASE ProperStep
  <2>1. CASE \E op \in Kinds, len \in Lengths : Send("client", op, len)
    BY <2>1 DEF Send
  <2>2. CASE \E reaction \in Reactions : DispatchMessage("client", reaction)
    BY <2>2 DEF DispatchMessage, Dispatching, At
  <2>3. CASE SendPing("client") \/ Close("client") \/ Delete("client") \/ Deleted("client")
    BY <2>3 DEF SendPing, Close, Delete, Deleted
  <2>4. CASE \/ ConnectTimeout("client") \/ LongLine("client") \/ AcceptStatus("client")
             \/ RefuseLine("client") \/ ServerLine("client") \/ ClientLine("client")
    BY <2>4 DEF ConnectTimeout, LongLine, AcceptStatus, RefuseLine, ServerLine, ClientLine
  <2>5. CASE \/ PollBegin("client") \/ Receive("client") \/ ReceiveWouldBlock("client")
             \/ ReceiveEnd("client") \/ SendSome("client") \/ SendLost("client")
             \/ SendError("client") \/ SendWouldBlock("client") \/ SendDone("client")
    BY <2>5 DEF PollBegin, Receive, ReceiveWouldBlock, ReceiveEnd, SendSome, SendLost,
                SendError, SendWouldBlock, SendDone, At
  <2>6. CASE \/ DispatchFragment("client") \/ DispatchPing("client") \/ DispatchPong("client")
             \/ DispatchClose("client") \/ DispatchDone("client")
    BY <2>6 DEF DispatchFragment, DispatchPing, DispatchPong, DispatchClose, DispatchDone,
                Dispatching, At
  <2> QED
    BY <1>1, <2>1, <2>2, <2>3, <2>4, <2>5, <2>6, StepCases
<1>2. CASE SwallowFrame("client")
  BY <1>2 DEF SwallowFrame
<1> QED
  BY <1>1, <1>2 DEF ProperStep

\* Whether the server has answered is not forgotten, nor how.
LEMMA AnswerKept ==
  ASSUME AnyServer, [Next]_vars
  PROVE  /\ {"answered", "short"} \subseteq DOMAIN remote'
         /\ remote'.answered \in BOOLEAN /\ remote'.short \in BOOLEAN
         /\ remote'.short => remote'.answered
         /\ remote.short => remote'.short
<1>1. CASE remote' = remote
  BY <1>1 DEF AnyServer
<1>2. CASE \E lines \in Answers : RemoteAnswer(lines)
  <2>1. PICK lines \in Answers : RemoteAnswer(lines)
    BY <1>2
  <2>2. /\ ~remote.answered
        /\ remote' = [remote EXCEPT !.answered = TRUE, !.short = ~Counted(lines)]
    BY <2>1 DEF RemoteAnswer
  <2>3. DOMAIN remote' = DOMAIN remote
    BY <2>2
  <2>4. remote'.answered = TRUE /\ remote'.short = ~Counted(lines)
    BY <2>2 DEF AnyServer
  <2>5. (~Counted(lines)) \in BOOLEAN
    BY Zenon DEF Counted
  <2> QED
    BY <2>2, <2>3, <2>4, <2>5 DEF AnyServer
<1>3. CASE /\ DOMAIN remote' = DOMAIN remote
           /\ remote'.answered = remote.answered /\ remote'.short = remote.short
  BY <1>3 DEF AnyServer
<1>4. CASE \E op \in Kinds \cup {"CONTINUATION"}, len \in Lengths, fin \in BOOLEAN :
             RemoteMessage(op, len, fin)
  <2>1. PICK op \in Kinds \cup {"CONTINUATION"}, len \in Lengths, fin \in BOOLEAN :
          RemoteMessage(op, len, fin)
    BY <1>4
  <2> DEFINE first  == remote.open = <<>>
             number == Len(remote.sent) + 1
             before == IF first THEN <<>> ELSE remote.open[1].body
             part   == [i \in 1 .. len |-> Piece(number, Len(before) + i)]
             whole  == [text |-> IF first THEN op = "TEXT" ELSE remote.open[1].text,
                        body |-> before \o part]
  <2>2. remote' = [remote EXCEPT !.frames = @ + 1,
                                 !.open = IF fin THEN <<>> ELSE <<whole>>,
                                 !.sent = IF fin THEN Append(@, whole) ELSE @]
    BY <2>1 DEF RemoteMessage
  <2> HIDE DEF whole
  <2> QED
    BY <1>3, <2>2
<1>5. CASE \E len \in Lengths : RemotePing(len)
  <2>1. \E a, b : remote' = [remote EXCEPT !.frames = a, !.pings = b]
    BY <1>5, Zenon DEF RemotePing
  <2> QED
    BY <1>3, <2>1
<1>6. CASE RemoteClose
  <2>1. remote' = [remote EXCEPT !.frames = MaxFrames]
    BY <1>6 DEF RemoteClose
  <2> QED
    BY <1>3, <2>1
<1>7. CASE RemoteRead
  <2>1. remote' = remote \/ \E a : remote' = [remote EXCEPT !.pongs = a]
    BY <1>7 DEF RemoteRead
  <2>2. ASSUME NEW a, remote' = [remote EXCEPT !.pongs = a]
        PROVE  /\ DOMAIN remote' = DOMAIN remote
               /\ remote'.answered = remote.answered /\ remote'.short = remote.short
    BY <2>2
  <2> QED
    BY <1>1, <1>3, <2>1, <2>2
<1>8. CASE RemoteHangUp \/ Finished \/ UNCHANGED vars
  BY <1>1, <1>8 DEF RemoteHangUp, Finished, vars
<1>9. CASE \E e \in Endpoint : EndpointStep(e)
  BY <1>1, <1>9, OneEnd, RemoteKept
<1> QED
  BY <1>2, <1>4, <1>5, <1>6, <1>7, <1>8, <1>9 DEF Next, RemoteStep

\* Every step keeps it.
LEMMA NextAnyServer ==
  ASSUME AnyServer, [Next]_vars
  PROVE  AnyServer'
<1>1. /\ {"answered", "short"} \subseteq DOMAIN remote'
      /\ remote'.answered \in BOOLEAN /\ remote'.short \in BOOLEAN
      /\ remote'.short => remote'.answered
      /\ remote.short => remote'.short
  BY AnswerKept
<1>2. ASSUME ~remote'.short PROVE IInv' /\ Ahead'
  <2>1. IInv /\ Ahead
    BY <1>1, <1>2 DEF AnyServer
  <2>2. CASE \E e \in Endpoint : EndpointStep(e)
    <3>1. ProperStep
      BY <2>1, <2>2, OneEnd, OnlyProperSteps
    <3> QED
      BY <2>1, <3>1, NextIInv, AheadClient
  <2>3. CASE RemoteStep
    BY <1>2, <2>1, <2>3, NextIInv, AheadServer
  <2>4. CASE UNCHANGED vars
    <3>1. UNCHANGED <<mReadyState, remote, eof, wire, mConnectionPhase>>
      BY <2>4 DEF vars, connectionVars, netVars
    <3>2. Ahead'
      BY <2>1, <3>1 DEF Ahead
    <3> QED
      BY <2>1, <2>4, <3>2, NextIInv
  <2> QED
    BY <2>2, <2>3, <2>4 DEF Next, Finished
<1> QED
  BY <1>1, <1>2 DEF AnyServer

\* At first there is no answer.
LEMMA InitAnyServer == Init => AnyServer
<1> SUFFICES ASSUME Init PROVE AnyServer
  OBVIOUS
<1>1. remote = RemoteStart
  BY DEF Init
<1>2. /\ {"answered", "short"} \subseteq DOMAIN remote
      /\ remote.answered = FALSE /\ remote.short = FALSE
  BY <1>1 DEF RemoteStart
<1> QED
  BY <1>2, InitIInv DEF AnyServer, Ahead

\* It always holds.
LEMMA SpecAnyServer == Spec => []AnyServer
<1>1. AnyServer /\ [Next]_vars => AnyServer'
  BY NextAnyServer
<1> QED
  BY <1>1, InitAnyServer, PTL DEF Spec

\* What is first in the receive buffer once no more lines come.
LEMMA DownHead ==
  ASSUME NEW R, NEW rb \in Seq(Unit), NEW w, NEW gone, NEW x, Down(rb, w, gone, x, R, 0),
         rb # <<>>
  PROVE  rb[1].kind = "head"
<1>1. PICK v \in Seq(Unit) : Way(rb \o v, x, R, 0)
  BY DEF Down
<1> DEFINE s == rb \o v
<1>2. s \in Seq(Unit) /\ s # <<>> /\ s[1] = rb[1]
  <2>1. /\ s \in Seq(Unit) /\ Len(s) = Len(rb) + Len(v) /\ 1 \in 1 .. Len(rb)
        /\ \A i \in 1 .. Len(rb) : s[i] = rb[i]
    BY ConcatFacts
  <2>2. Len(s) >= 1
    BY <2>1
  <2> QED
    BY <2>1, <2>2
<1>3. PICK fs \in Seq(Seq(Unit)), q \in Seq(Place) : Path(s, fs, q, x, R, 0)
  BY <1>1 DEF Way
<1> HIDE DEF s
<1>4. Laid(s, fs) /\ \A k \in 1 .. Len(fs) : Item(fs[k]) /\ (fs[k][1].kind = "line" => k <= 0)
  BY <1>3 DEF Path
<1>5. Len(fs) >= 1
  BY <1>2, <1>4, LaidNone
<1>6. \A i \in 1 .. Len(fs[1]) : s[i] = fs[1][i]
  BY <1>2, <1>4, <1>5, LaidFirst
<1>7. 1 \in 1 .. Len(fs) /\ ~(1 <= 0)
  BY <1>5
<1>8. Item(fs[1]) /\ fs[1][1].kind # "line"
  BY <1>4, <1>7
<1>9. 1 \in 1 .. Len(fs[1]) /\ fs[1][1].kind = "head"
  BY <1>8 DEF Item
<1> QED
  BY <1>2, <1>6, <1>9

-----------------------------------------------------------------------------
(* The theorems.                                                           *)

\* Whatever the server sends at once behind an answer of six lines, the client
\* leaves the handshake at the first byte of a frame, and never takes a frame
\* for a line or a line for a frame (easywsclient.cpp:818-897).
THEOREM HandshakeKeptApart == Spec => []HandshakeApart
<1>1. ASSUME IInv, Ahead, CanConnect("client"), wire["client"] # <<>>
      PROVE  Head(wire["client"]).kind = "line"
  BY <1>1, StandsAtLine DEF CanConnect
<1>2. ASSUME IInv, nonblocking["client"], Rx("client") # <<>>
      PROVE  Head(Rx("client")).kind = "head"
  <2> DEFINE rb == Rx("client")
  <2>1. PICK d \in Nat : Inbound(d)
    BY <1>2 DEF IInv
  <2>2. rb \in Seq(Unit) /\ rb = mReceiveBuffer["client"]
    BY <1>2, StreamFacts DEF IInv, Rx
  <2>3. Down(rb, wire["client"], eof["server"], PlaceOf(d), remote, 0)
    BY <1>2, <2>1, <2>2 DEF Inbound, Bound
  <2>4. rb # <<>>
    BY <1>2
  <2> HIDE DEF rb
  <2>5. rb[1].kind = "head" /\ Head(rb) = rb[1]
    BY <2>2, <2>3, <2>4, DownHead
  <2> QED
    BY <2>5 DEF rb
<1>3. AnyServer => HandshakeApart
  BY <1>1, <1>2, OneEnd DEF AnyServer, HandshakeApart
<1> QED
  BY <1>3, SpecAnyServer, PTL

\* Of a server whose answer the client counts rightly, a message is delivered
\* with the payload of all its fragments, and what is kept of an unfinished one
\* is its beginning, however the server fragments and whatever it sends between
\* the fragments (easywsclient.cpp:440-462).
THEOREM ReassemblyCorrect == Spec => []Reassembled
<1>1. AnyServer => Reassembled
  BY IInvReassembled DEF AnyServer, Reassembled
<1> QED
  BY <1>1, SpecAnyServer, PTL

\* The pongs such a server reads carry the payloads of its pings, in their order
\* (easywsclient.cpp:463-472).
THEOREM PongsCorrect == Spec => []PongsEchoPings
<1>1. AnyServer => PongsEchoPings
  BY DEF AnyServer, IInv, PongsEchoPings
<1> QED
  BY <1>1, SpecAnyServer, PTL

=============================================================================
