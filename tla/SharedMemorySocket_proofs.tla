--------------------- MODULE SharedMemorySocket_proofs ---------------------
(***************************************************************************)
(* The invariants of the shared memory socket for any number of clients,   *)
(* of bytes and of starts: a server reads nothing of an earlier run,       *)
(* announces no connection that nobody made, and nothing that a running    *)
(* process sent is lost.  A file in view is not made anew, so a server     *)
(* that gets both its files has no client of an earlier run in them; and   *)
(* it clears what such a client left before it is ready.                   *)
(***************************************************************************)
EXTENDS SharedMemorySocket, TLAPS

Bytes == [by : Process, n : Nat, start : Nat]
Receipts == [byte : Bytes, in : Nat]

\* Places of a server that has both files, and of a client.
Initialising == {"write header", "read header", "indexes", "sequence", "ready"}
ServerPlaces ==
  Initialising \cup {"down", "server file", "client file", "check", "no socket"}
ClientPlaces == {"down", "server file", "client file", "client header",
                 "server header", "count", "ready", "gone"}

Types ==
  /\ views \in [File -> SUBSET Process] /\ sequence \in [File -> Nat]
  /\ ring \in [File -> Seq(Bytes)] /\ got \in [File -> Seq(Receipts)]
  /\ sPc \in ServerPlaces /\ sMapped \in SUBSET File
  /\ mFirst \in BOOLEAN /\ mSequenceNumber \in Nat
  /\ cPc \in [Client -> ClientPlaces]
  /\ cMapped \in [Client -> SUBSET File] /\ mHeader \in [Client -> SUBSET File]
  /\ starts \in Nat /\ sent \in [Process -> Nat] /\ counted \in [Client -> Nat]

\* A client that runs has in view what it mapped, and maps before it uses.
ClientInv ==
  \A c \in Client :
    /\ cPc[c] = "down" => cMapped[c] = {}
    /\ cPc[c] \notin {"down", "gone"} => \A f \in cMapped[c] : c \in views[f]
    /\ mHeader[c] # {} => cMapped[c] = File

\* Whoever may write a ring that this server made was counted in this run.
ServerInv ==
  /\ sPc \in Initialising => sMapped = File
  /\ sPc # "down" /\ "client" \in sMapped =>
       \A c \in Client :
         c \in views["client"] /\ cPc[c] = "ready" /\ "client" \in mHeader[c]
           => counted[c] = starts

\* A byte of a client that was counted, and will not be counted again.
OfClient(byte) == byte.by \in Client /\ cPc[byte.by] \in {"ready", "gone"}

RingInv ==
  \A i \in 1 .. Len(ring["client"]) :
    /\ OfClient(ring["client"][i])
    /\ sPc \in {"sequence", "ready"} => counted[ring["client"][i].by] = starts

GotInv ==
  \A i \in 1 .. Len(got["client"]) :
    /\ OfClient(got["client"][i].byte)
    /\ counted[got["client"][i].byte.by] = got["client"][i].in

IInv == Types /\ ClientInv /\ ServerInv /\ RingInv /\ GotInv

-----------------------------------------------------------------------------
\* The server is none of the clients.
LEMMA ServerIsNoClient == "server" \notin Client
BY SocketAssumption

\* What a sequence holds.
LEMMA ElementInSet ==
  ASSUME NEW S, NEW s \in Seq(S), NEW i \in 1 .. Len(s)
  PROVE  s[i] \in S
OBVIOUS

\* The empty ring ...
LEMMA EmptySeq == <<>> \in Seq(Bytes) /\ Len(<<>>) = 0
OBVIOUS

\* ... holds nothing.
LEMMA EmptyRange == \A i \in 1 .. 0 : FALSE
OBVIOUS

\* What the clients' ring holds and what was read from it are bytes.
LEMMA RingBytes ==
  ASSUME Types
  PROVE  /\ Len(ring["client"]) \in Nat /\ Len(got["client"]) \in Nat
         /\ \A i \in 1 .. Len(ring["client"]) : ring["client"][i] \in Bytes
         /\ \A i \in 1 .. Len(got["client"]) :
              got["client"][i] \in Receipts /\ got["client"][i].byte \in Bytes
<1>1. "client" \in File
  BY DEF File
<1>2. ring["client"] \in Seq(Bytes) /\ got["client"] \in Seq(Receipts)
  BY <1>1 DEF Types
<1>3. Len(ring["client"]) \in Nat /\ Len(got["client"]) \in Nat
  BY <1>2
<1>4. ASSUME NEW i \in 1 .. Len(got["client"])
      PROVE  got["client"][i] \in Receipts /\ got["client"][i].byte \in Bytes
  <2>1. got["client"][i] \in Receipts
    BY <1>2, <1>4, ElementInSet
  <2> QED
    BY <2>1 DEF Receipts
<1> QED
  BY <1>2, <1>3, <1>4, ElementInSet

\* The server's steps that lead on from one place to the next, and keep or
\* clear the clients' ring.
LEMMA ServerStepIInv ==
  ASSUME IInv, Types', UNCHANGED <<clientVars, starts, got, counted, views, sMapped>>,
         ring'["client"] = ring["client"] \/ ring'["client"] = <<>>,
         sPc \in Initialising \/ sPc = "check", sPc' \notin {"down"},
         sPc' \in Initialising => sMapped = File,
         sPc' \in {"sequence", "ready"} =>
           ring'["client"] = <<>> \/ (sPc \in {"sequence", "ready"} /\ ring' = ring)
  PROVE  IInv'
<1>1. ClientInv'
  BY DEF IInv, ClientInv, clientVars
<1>2. ServerInv'
  BY DEF IInv, ServerInv, clientVars, Initialising
<1>3. RingInv'
  BY DEF IInv, RingInv, OfClient, clientVars
<1>4. GotInv'
  BY DEF IInv, GotInv, OfClient, clientVars
<1> QED
  BY <1>1, <1>2, <1>3, <1>4 DEF IInv

\* The server checks its files, writes the headers and asks for a client.
LEMMA ServerIInv ==
  ASSUME IInv,
         CheckFiles \/ InitWriter \/ InitReader \/ InitIndexes \/ InitSequence \/ PollServer
  PROVE  IInv'
<1>1. CASE CheckFiles
  <2>1. Types'
    BY <1>1 DEF CheckFiles, IInv, Types, fileVars, ringVars, clientVars, history,
                ServerPlaces, Initialising
  <2> QED
    BY <1>1, <2>1, ServerStepIInv DEF CheckFiles, fileVars, ringVars, history, Initialising
<1>2. CASE InitWriter
  <2>1. Types'
    <3>1. ring' \in [File -> Seq(Bytes)]
      BY <1>2, EmptySeq DEF InitWriter, IInv, Types
    <3>2. sequence' \in [File -> Nat]
      BY <1>2 DEF InitWriter, IInv, Types
    <3> QED
      BY <1>2, <3>1, <3>2 DEF InitWriter, IInv, Types, clientVars, history, ServerPlaces,
                              Initialising
  <2>2. ring'["client"] = ring["client"]
    BY <1>2 DEF InitWriter, IInv, Types, File
  <2>3. sMapped = File
    BY <1>2 DEF InitWriter, IInv, ServerInv, Initialising
  <2> QED
    BY <1>2, <2>1, <2>2, <2>3, ServerStepIInv DEF InitWriter, history, Initialising
<1>3. CASE InitReader
  <2>1. Types'
    BY <1>3 DEF InitReader, IInv, Types, ringVars, clientVars, history, ServerPlaces, Initialising
  <2>2. sMapped = File
    BY <1>3 DEF InitReader, IInv, ServerInv, Initialising
  <2> QED
    BY <1>3, <2>1, <2>2, ServerStepIInv DEF InitReader, ringVars, history, Initialising
<1>4. CASE InitIndexes
  <2>1. Types' /\ ring'["client"] = <<>>
    BY <1>4 DEF InitIndexes, IInv, Types, fileVars, clientVars, history, File, ServerPlaces,
                Initialising
  <2>2. sMapped = File
    BY <1>4 DEF InitIndexes, IInv, ServerInv, Initialising
  <2> QED
    BY <1>4, <2>1, <2>2, ServerStepIInv DEF InitIndexes, fileVars, history, Initialising
<1>5. CASE InitSequence
  <2>1. Types'
    BY <1>5 DEF InitSequence, IInv, Types, fileVars, clientVars, history, File, ServerPlaces,
                Initialising
  <2>2. sMapped = File
    BY <1>5 DEF InitSequence, IInv, ServerInv, Initialising
  <2> QED
    BY <1>5, <2>1, <2>2, ServerStepIInv DEF InitSequence, fileVars, history, Initialising
<1>6. CASE PollServer
  <2>1. Types'
    BY <1>6 DEF PollServer, IInv, Types, fileVars, ringVars, clientVars, history, File
  <2>2. sMapped = File
    BY <1>6 DEF PollServer, IInv, ServerInv, Initialising
  <2> QED
    BY <1>6, <2>1, <2>2, ServerStepIInv DEF PollServer, fileVars, ringVars, history, Initialising
<1> QED
  BY <1>1, <1>2, <1>3, <1>4, <1>5, <1>6

\* A file is made anew only while nobody has it in view.
LEMMA CreateFileIInv ==
  ASSUME IInv, NEW f \in File, NEW here, NEW next \in {"client file", "check"},
         here \in {"server file", "client file"}, CreateFile(here, f, next)
  PROVE  IInv'
<1>1. /\ sPc = here /\ sPc' = next
      /\ UNCHANGED <<mFirst, mSequenceNumber, clientVars, history>>
  BY DEF CreateFile
<1>2. CASE UNCHANGED <<fileVars, ringVars, sMapped>>
  <2>1. Types'
    BY <1>1, <1>2 DEF IInv, Types, fileVars, ringVars, clientVars, history, ServerPlaces
  <2>2. ClientInv' /\ GotInv'
    BY <1>1, <1>2 DEF IInv, ClientInv, GotInv, OfClient, fileVars, clientVars, history
  <2>3. ServerInv' /\ RingInv'
    BY <1>1, <1>2 DEF IInv, ServerInv, RingInv, OfClient, fileVars, ringVars, clientVars,
                      history, Initialising
  <2> QED
    BY <2>1, <2>2, <2>3 DEF IInv
<1>3. CASE /\ MayCreate(f)
           /\ views' = [views EXCEPT ![f] = @ \cup {"server"}]
           /\ sMapped' = sMapped \cup {f}
           /\ Zeroed(f)
  <2>1. Types'
    <3>1. ring' \in [File -> Seq(Bytes)] /\ sequence' \in [File -> Nat]
      BY <1>3, EmptySeq DEF IInv, Types, Zeroed
    <3>2. views' \in [File -> SUBSET Process]
      BY <1>3 DEF IInv, Types, Process
    <3> QED
      BY <1>1, <1>3, <3>1, <3>2 DEF IInv, Types, clientVars, history, ServerPlaces
  <2>2. \A c \in Client, g \in File : c \in views'[g] <=> c \in views[g]
    BY <1>3, ServerIsNoClient DEF IInv, Types
  <2>3. ClientInv'
    BY <1>1, <2>2 DEF IInv, ClientInv, Types, clientVars
  <2>4. GotInv'
    BY <1>1 DEF IInv, GotInv, OfClient, clientVars, history
  <2>5. ServerInv'
    <3>1. sMapped' = sMapped \/ f = "server" \/ \A c \in Client : c \notin views'["client"]
      BY <1>3, <2>2 DEF MayCreate, File
    <3> QED
      BY <1>1, <1>3, <2>2, <3>1 DEF IInv, ServerInv, clientVars, history, Initialising, File
  <2>6. RingInv'
    <3>1. ring'["client"] = ring["client"] \/ ring'["client"] = <<>>
      BY <1>3 DEF Zeroed, IInv, Types, File
    <3> QED
      <4>1. CASE ring'["client"] = ring["client"]
        BY <1>1, <4>1 DEF IInv, RingInv, OfClient, clientVars, history
      <4>2. CASE ring'["client"] = <<>>
        <5>1. Len(ring'["client"]) = 0
          BY <4>2, EmptySeq
        <5> QED
          BY <5>1, EmptyRange, Zenon DEF RingInv
      <4> QED
        BY <3>1, <4>1, <4>2
  <2> QED
    BY <2>1, <2>3, <2>4, <2>5, <2>6 DEF IInv
<1> QED
  BY <1>2, <1>3 DEF CreateFile

\* The server's process starts, or ends.
LEMMA StartStopServerIInv ==
  ASSUME IInv, StartServer \/ StopServer
  PROVE  IInv'
<1>1. UNCHANGED <<clientVars, ringVars, got, counted>> /\ sPc' \in {"down", "server file"}
  BY DEF StartServer, StopServer, history
<1>2. Types'
  <2>1. CASE StartServer
    <3>1. sent' \in [Process -> Nat] /\ starts' \in Nat
      <4>1. sent \in [Process -> Nat] /\ sent' = [sent EXCEPT !["server"] = 0]
        BY <2>1 DEF StartServer, IInv, Types
      <4>2. starts \in Nat /\ starts' = starts + 1
        BY <2>1 DEF StartServer, IInv, Types
      <4>3. starts' \in Nat
        BY <4>2
      <4>4. sent' \in [Process -> Nat]
        BY <4>1
      <4> QED
        BY <4>3, <4>4
    <3>2. UNCHANGED <<views, sequence, ring, got, cPc, cMapped, mHeader, counted>>
      BY <2>1 DEF StartServer, fileVars, ringVars, clientVars
    <3>3. sPc' = "server file" /\ sMapped' = {} /\ mFirst' = TRUE /\ mSequenceNumber' = 0
      BY <2>1 DEF StartServer
    <3> QED
      BY <3>1, <3>2, <3>3 DEF IInv, Types, ServerPlaces
  <2>2. CASE StopServer
    BY <2>2, <1>1 DEF StopServer, IInv, Types, ringVars, clientVars, history, ServerPlaces
  <2> QED
    BY <2>1, <2>2
<1>3. \A c \in Client, g \in File : c \in views'[g] <=> c \in views[g]
  <2>1. CASE StartServer
    BY <2>1 DEF StartServer, fileVars
  <2>2. CASE StopServer
    BY <2>2, ServerIsNoClient DEF StopServer
  <2> QED
    BY <2>1, <2>2
<1>4. ClientInv'
  BY <1>1, <1>3 DEF IInv, ClientInv, Types, clientVars
<1>5. ServerInv'
  BY <1>1 DEF ServerInv, Initialising, StartServer, StopServer
<1>6. RingInv' /\ GotInv'
  BY <1>1 DEF IInv, RingInv, GotInv, OfClient, clientVars, ringVars
<1> QED
  BY <1>2, <1>4, <1>5, <1>6 DEF IInv

\* A step of a client that starts, up to where it is counted, or ends.
LEMMA ClientStepIInv ==
  ASSUME IInv, NEW c \in Client, UNCHANGED <<serverVars, starts, got, counted>>,
         ring' = ring, Types', cPc'[c] # "down",
         \/ cPc[c] \notin {"ready", "gone"} /\ cPc'[c] # "ready"
         \/ cPc'[c] = "gone",
         \A b \in Client : b # c => cPc'[b] = cPc[b] /\ cMapped'[b] = cMapped[b]
                                   /\ mHeader'[b] = mHeader[b],
         \A b \in Client, g \in File : b # c => (b \in views'[g] <=> b \in views[g]),
         cPc'[c] \notin {"down", "gone"} => \A g \in cMapped'[c] : c \in views'[g],
         mHeader'[c] # {} => cMapped'[c] = File
  PROVE  IInv'
<1>1. ClientInv'
  <2> SUFFICES ASSUME NEW b \in Client
               PROVE  /\ cPc'[b] = "down" => cMapped'[b] = {}
                      /\ cPc'[b] \notin {"down", "gone"} => \A g \in cMapped'[b] : b \in views'[g]
                      /\ mHeader'[b] # {} => cMapped'[b] = File
    BY DEF ClientInv
  <2>1. CASE b = c
    BY <2>1
  <2>2. CASE b # c
    <3>1. cMapped[b] \subseteq File
      BY DEF IInv, Types
    <3> QED
      BY <2>2, <3>1 DEF IInv, ClientInv
  <2> QED
    BY <2>1, <2>2
<1>2. ServerInv'
  BY DEF IInv, ServerInv, serverVars, File
<1>3. \A b \in Client : cPc[b] \in {"ready", "gone"} => cPc'[b] \in {"ready", "gone"}
  OBVIOUS
<1>4. RingInv' /\ GotInv'
  BY <1>3 DEF IInv, RingInv, GotInv, OfClient, serverVars
<1> QED
  BY <1>1, <1>2, <1>4 DEF IInv

\* A client starts, maps the files, takes over their headers, or ends.
LEMMA ClientIInv ==
  ASSUME IInv, NEW c \in Client, NEW f \in File,
         \/ StartClient(c) \/ StopClient(c)
         \/ OpenFile(c, "server file", f, "client file")
         \/ OpenFile(c, "client file", f, "client header")
         \/ InitRing(c, "client header", f, "server header")
         \/ InitRing(c, "server header", f, "count")
  PROVE  IInv'
<1>1. CASE StartClient(c)
  <2>1. Types' /\ cPc'[c] = "server file" /\ cPc[c] = "down"
    BY <1>1 DEF StartClient, IInv, Types, fileVars, ringVars, serverVars, history, ClientPlaces
  <2>2. UNCHANGED <<views, cMapped, mHeader>> /\ \A b \in Client : b # c => cPc'[b] = cPc[b]
    BY <1>1 DEF StartClient, fileVars, IInv, Types
  <2>3. mHeader[c] # {} => cMapped[c] = File
    BY DEF IInv, ClientInv
  <2>4. UNCHANGED <<serverVars, starts, got, counted, ring>>
    BY <1>1 DEF StartClient, ringVars, history
  <2>5. \A g \in cMapped[c] : c \in views[g]
    BY <2>1 DEF IInv, ClientInv
  <2> QED
    BY <2>1, <2>2, <2>3, <2>4, <2>5, ClientStepIInv
<1>2. CASE StopClient(c)
  <2>1. /\ cPc' = [cPc EXCEPT ![c] = "gone"] /\ views' = [g \in File |-> views[g] \ {c}]
        /\ UNCHANGED <<ringVars, serverVars, cMapped, mHeader, history>>
    BY <1>2 DEF StopClient
  <2>2. Types'
    BY <2>1 DEF IInv, Types, ringVars, serverVars, history, ClientPlaces
  <2>3. cPc'[c] = "gone" /\ \A b \in Client : b # c => cPc'[b] = cPc[b]
    BY <2>1 DEF IInv, Types
  <2>4. \A b \in Client, g \in File : b # c => (b \in views'[g] <=> b \in views[g])
    BY <2>1
  <2> QED
    BY <2>1, <2>2, <2>3, <2>4, ClientStepIInv DEF ringVars, history, IInv, ClientInv
<1>3. ASSUME NEW here, here \in {"server file", "client file"},
             NEW next \in {"client file", "client header"}, OpenFile(c, here, f, next)
      PROVE  IInv'
  <2>1. /\ cPc[c] = here /\ cPc' = [cPc EXCEPT ![c] = next]
        /\ UNCHANGED <<ringVars, serverVars, mHeader, history>>
    BY <1>3 DEF OpenFile
  <2>2. \/ UNCHANGED <<views, cMapped>>
        \/ /\ views' = [views EXCEPT ![f] = @ \cup {c}]
           /\ cMapped' = [cMapped EXCEPT ![c] = @ \cup {f}]
    BY <1>3 DEF OpenFile
  <2>3. views' \in [File -> SUBSET Process] /\ cMapped' \in [Client -> SUBSET File]
    <3>1. CASE UNCHANGED <<views, cMapped>>
      BY <3>1 DEF IInv, Types
    <3>2. CASE /\ views' = [views EXCEPT ![f] = @ \cup {c}]
               /\ cMapped' = [cMapped EXCEPT ![c] = @ \cup {f}]
      <4>1. c \in Process
        BY DEF Process
      <4>2. views' \in [File -> SUBSET Process]
        BY <3>2, <4>1 DEF IInv, Types
      <4>3. cMapped' \in [Client -> SUBSET File]
        BY <3>2 DEF IInv, Types
      <4> QED
        BY <4>2, <4>3
    <3> QED
      BY <2>2, <3>1, <3>2
  <2>4. Types'
    BY <2>1, <2>3 DEF IInv, Types, ringVars, serverVars, history, ClientPlaces
  <2>5. cPc'[c] = next /\ \A b \in Client : b # c => cPc'[b] = cPc[b] /\ cMapped'[b] = cMapped[b]
    BY <2>1, <2>2 DEF IInv, Types
  <2>6. \A b \in Client, g \in File : b # c => (b \in views'[g] <=> b \in views[g])
    <3>1. CASE UNCHANGED views
      BY <3>1
    <3>2. CASE views' = [views EXCEPT ![f] = @ \cup {c}]
      <4>1. \A g \in File : views'[g] = IF g = f THEN views[g] \cup {c} ELSE views[g]
        BY <3>2 DEF IInv, Types
      <4> QED
        BY <4>1
    <3> QED
      BY <2>2, <3>1, <3>2
  <2>7. \A g \in cMapped[c] : c \in views[g]
    BY <1>3, <2>1 DEF IInv, ClientInv
  <2>8. \A g \in cMapped'[c] : c \in views'[g]
    <3>1. CASE UNCHANGED <<views, cMapped>>
      BY <2>7, <3>1
    <3>2. CASE /\ views' = [views EXCEPT ![f] = @ \cup {c}]
               /\ cMapped' = [cMapped EXCEPT ![c] = @ \cup {f}]
      <4>1. cMapped'[c] = cMapped[c] \cup {f} /\ cMapped[c] \subseteq File
        BY <3>2 DEF IInv, Types
      <4>2. \A g \in File : views'[g] = IF g = f THEN views[g] \cup {c} ELSE views[g]
        BY <3>2 DEF IInv, Types
      <4> QED
        BY <2>7, <4>1, <4>2
    <3> QED
      BY <2>2, <3>1, <3>2
  <2>9. mHeader'[c] # {} => cMapped'[c] = File
    <3>1. mHeader[c] # {} => cMapped[c] = File
      BY DEF IInv, ClientInv
    <3>2. cMapped[c] \subseteq cMapped'[c] /\ cMapped'[c] \subseteq File
      BY <2>2, <2>3 DEF IInv, Types
    <3> QED
      BY <2>1, <3>1, <3>2
  <2> QED
    BY <1>3, <2>1, <2>4, <2>5, <2>6, <2>8, <2>9, ClientStepIInv DEF ringVars, history
<1>4. ASSUME NEW here, here \in {"client header", "server header"},
             NEW next \in {"server header", "count"}, InitRing(c, here, f, next)
      PROVE  IInv'
  <2>1. /\ cPc[c] = here /\ cPc' = [cPc EXCEPT ![c] = next] /\ cMapped[c] = File
        /\ UNCHANGED <<fileVars, ringVars, serverVars, cMapped, starts, sent, got, counted>>
    BY <1>4 DEF InitRing
  <2>2. /\ mHeader' \in [Client -> SUBSET File]
        /\ \A b \in Client : b # c => mHeader'[b] = mHeader[b]
    BY <1>4 DEF InitRing, IInv, Types
  <2>3. Types'
    BY <2>1, <2>2 DEF IInv, Types, fileVars, ringVars, serverVars, ClientPlaces
  <2>4. cPc'[c] = next /\ \A b \in Client : b # c => cPc'[b] = cPc[b]
    BY <2>1 DEF IInv, Types
  <2>5. \A g \in cMapped[c] : c \in views[g]
    BY <1>4, <2>1 DEF IInv, ClientInv
  <2> QED
    BY <1>4, <2>1, <2>2, <2>3, <2>4, <2>5, ClientStepIInv DEF fileVars, ringVars
<1> QED
  BY <1>1, <1>2, <1>3, <1>4

\* A client is counted once, and before it sends.
LEMMA CountIInv ==
  ASSUME IInv, NEW c \in Client, Count(c)
  PROVE  IInv'
<1>1. /\ cPc[c] = "count" /\ cPc' = [cPc EXCEPT ![c] = "ready"]
      /\ counted' = IF "client" \in mHeader[c] THEN [counted EXCEPT ![c] = starts] ELSE counted
      /\ UNCHANGED <<fileVars, ring, serverVars, cMapped, mHeader, starts, sent, got>>
  BY DEF Count, CountedRing
<1>2. sequence' \in [File -> Nat]
  BY DEF Count, CountedRing, IInv, Types, File
<1>3. Types'
  BY <1>1, <1>2 DEF IInv, Types, fileVars, serverVars, ClientPlaces
<1>4. \A b \in Client : /\ cPc'[b] = (IF b = c THEN "ready" ELSE cPc[b])
                         /\ counted'[b] = (IF b = c /\ "client" \in mHeader[c]
                                            THEN starts ELSE counted[b])
  BY <1>1 DEF IInv, Types
<1>5. ClientInv'
  BY <1>1, <1>4 DEF IInv, ClientInv, fileVars
<1>6. ServerInv'
  BY <1>1, <1>4 DEF IInv, ServerInv, fileVars, serverVars
<1>7. \A b \in Bytes : OfClient(b) => OfClient(b)' /\ counted'[b.by] = counted[b.by]
  BY <1>1, <1>4 DEF OfClient
<1>8. RingInv' /\ GotInv'
  BY <1>1, <1>7, RingBytes DEF IInv, RingInv, GotInv, serverVars
<1> QED
  BY <1>3, <1>5, <1>6, <1>8 DEF IInv

\* A process sends into the ring that it writes; a client that may was counted
\* in the run of the server that made the ring.
LEMMA SendIInv ==
  ASSUME IInv, NEW p \in Process, NEW f \in File, Send(p, f)
  PROVE  IInv'
<1> DEFINE byte == [by |-> p, n |-> sent[p] + 1, start |-> starts]
<1>1. /\ Writes(p, f)
      /\ ring' = [ring EXCEPT ![f] = Append(@, byte)]
      /\ sent' = [sent EXCEPT ![p] = @ + 1]
      /\ UNCHANGED <<fileVars, sequence, serverVars, clientVars, starts, got, counted>>
  BY DEF Send
<1>2. byte \in Bytes
  <2>1. sent[p] + 1 \in Nat /\ starts \in Nat
    BY DEF IInv, Types
  <2> QED
    BY <2>1 DEF Bytes
<1> HIDE DEF byte
<1>3. Types'
  <2>1. ring' \in [File -> Seq(Bytes)]
    BY <1>1, <1>2 DEF IInv, Types
  <2>2. sent' \in [Process -> Nat]
    BY <1>1 DEF IInv, Types
  <2> QED
    BY <1>1, <2>1, <2>2 DEF IInv, Types, fileVars, serverVars, clientVars
<1>4. ClientInv' /\ ServerInv' /\ GotInv'
  BY <1>1 DEF IInv, ClientInv, ServerInv, GotInv, OfClient, fileVars, serverVars, clientVars
<1>5. RingInv'
  <2>1. CASE p = "server"
    <3>1. ring'["client"] = ring["client"]
      BY <1>1, <2>1, ServerIsNoClient DEF Writes, IInv, Types, File
    <3> QED
      BY <1>1, <3>1 DEF IInv, RingInv, OfClient, serverVars, clientVars
  <2>2. CASE p \in Client
    <3>1. f = "client" /\ cPc[p] = "ready" /\ "client" \in mHeader[p]
      BY <1>1, <2>2, ServerIsNoClient DEF Writes
    <3>2. ring'["client"] = Append(ring["client"], byte) /\ ring["client"] \in Seq(Bytes)
      BY <1>1, <3>1 DEF IInv, Types, File
    <3>3. sPc \in {"sequence", "ready"} => counted[p] = starts
      <4>1. p \in views["client"]
        BY <2>2, <3>1 DEF IInv, ClientInv, File
      <4> QED
        BY <2>2, <3>1, <4>1 DEF IInv, ServerInv, Initialising, File
    <3>4. byte.by = p
      BY DEF byte
    <3> SUFFICES ASSUME NEW i \in 1 .. Len(ring'["client"])
                 PROVE  /\ OfClient(ring'["client"][i])
                        /\ sPc \in {"sequence", "ready"} =>
                             counted[ring'["client"][i].by] = starts
      BY <1>1 DEF RingInv, OfClient, serverVars, clientVars
    <3>5. CASE i \in 1 .. Len(ring["client"])
      <4>1. ring'["client"][i] = ring["client"][i]
        BY <3>2, <3>5
      <4> QED
        BY <3>5, <4>1 DEF IInv, RingInv
    <3>6. CASE i \notin 1 .. Len(ring["client"])
      <4>1. ring'["client"][i] = byte
        BY <3>2, <3>6
      <4> QED
        BY <2>2, <3>1, <3>3, <3>4, <4>1 DEF OfClient
    <3> QED
      BY <3>5, <3>6
  <2> QED
    BY <2>1, <2>2 DEF Process
<1> QED
  BY <1>3, <1>4, <1>5 DEF IInv

\* A part of a ring.
LEMMA PartOfRing ==
  ASSUME NEW s \in Seq(Bytes), NEW m \in 1 .. Len(s) + 1, NEW n \in 0 .. Len(s)
  PROVE  /\ SubSeq(s, m, n) \in Seq(Bytes)
         /\ \A i \in 1 .. Len(SubSeq(s, m, n)) : m + i - 1 \in 1 .. Len(s)
                                              /\ SubSeq(s, m, n)[i] = s[m + i - 1]
OBVIOUS

\* What a reader notes of a block.
LEMMA ReceiptElements ==
  ASSUME Types, NEW s \in Seq(Bytes)
  PROVE  /\ Receipt(s) \in Seq(Receipts) /\ Len(Receipt(s)) = Len(s)
         /\ \A i \in 1 .. Len(s) : Receipt(s)[i] = [byte |-> s[i], in |-> starts]
<1>1. starts \in Nat /\ DOMAIN s = 1 .. Len(s) /\ Len(s) \in Nat
  BY DEF Types
<1>2. \A i \in 1 .. Len(s) : [byte |-> s[i], in |-> starts] \in Receipts
  BY <1>1, ElementInSet DEF Receipts
<1>3. Receipt(s) = [i \in 1 .. Len(s) |-> [byte |-> s[i], in |-> starts]]
  BY <1>1 DEF Receipt
<1>4. Receipt(s) \in [1 .. Len(s) -> Receipts]
  BY <1>2, <1>3
<1> QED
  BY <1>1, <1>3, <1>4

\* A process reads part of the ring it reads; what the server reads, it reads
\* when it is ready.
LEMMA ReceiveIInv ==
  ASSUME IInv, NEW p \in Process, NEW f \in File, Receive(p, f)
  PROVE  IInv'
<1>1. PICK n \in 1 .. Len(ring[f]) :
        /\ got' = [got EXCEPT ![f] = @ \o Receipt(SubSeq(ring[f], 1, n))]
        /\ ring' = [ring EXCEPT ![f] = SubSeq(@, n + 1, Len(@))]
  BY DEF Receive
<1>2. /\ Reads(p, f)
      /\ UNCHANGED <<fileVars, sequence, serverVars, clientVars, starts, sent, counted>>
  BY DEF Receive
<1> DEFINE read == SubSeq(ring[f], 1, n)
           left == SubSeq(ring[f], n + 1, Len(ring[f]))
<1>3. ring[f] \in Seq(Bytes) /\ got[f] \in Seq(Receipts) /\ Len(ring[f]) \in Nat
  BY DEF IInv, Types
<1>4. /\ read \in Seq(Bytes)
      /\ \A i \in 1 .. Len(read) : i \in 1 .. Len(ring[f]) /\ read[i] = ring[f][i]
  <2>1. 1 \in 1 .. Len(ring[f]) + 1 /\ n \in 0 .. Len(ring[f])
    BY <1>3
  <2> QED
    BY <1>3, <2>1, PartOfRing
<1>5. /\ left \in Seq(Bytes)
      /\ \A i \in 1 .. Len(left) : n + i \in 1 .. Len(ring[f]) /\ left[i] = ring[f][n + i]
  <2>1. n + 1 \in 1 .. Len(ring[f]) + 1 /\ Len(ring[f]) \in 0 .. Len(ring[f])
    BY <1>3
  <2>2. /\ left \in Seq(Bytes)
        /\ \A i \in 1 .. Len(left) : n + 1 + i - 1 \in 1 .. Len(ring[f])
                                  /\ left[i] = ring[f][n + 1 + i - 1]
    BY <1>3, <2>1, PartOfRing
  <2>3. \A i \in 1 .. Len(left) : n + 1 + i - 1 = n + i
    BY <1>3, <2>2
  <2> QED
    BY <2>2, <2>3
<1>6. /\ Receipt(read) \in Seq(Receipts) /\ Len(Receipt(read)) = Len(read)
      /\ \A i \in 1 .. Len(read) : Receipt(read)[i] = [byte |-> read[i], in |-> starts]
  BY <1>4, ReceiptElements DEF IInv
<1>7. /\ got' = [got EXCEPT ![f] = @ \o Receipt(read)]
      /\ ring' = [ring EXCEPT ![f] = left]
  BY <1>1
<1> HIDE DEF read, left
<1>8. Types'
  <2>1. got[f] \o Receipt(read) \in Seq(Receipts)
    BY <1>3, <1>6
  <2>2. got' \in [File -> Seq(Receipts)] /\ ring' \in [File -> Seq(Bytes)]
    BY <1>5, <1>7, <2>1 DEF IInv, Types
  <2> QED
    BY <1>2, <2>2 DEF IInv, Types, fileVars, serverVars, clientVars
<1>9. ClientInv' /\ ServerInv'
  BY <1>2 DEF IInv, ClientInv, ServerInv, fileVars, serverVars, clientVars
<1>10. CASE f = "server"
  <2>1. ring'["client"] = ring["client"] /\ got'["client"] = got["client"]
    BY <1>7, <1>10 DEF IInv, Types, File
  <2>2. RingInv' /\ GotInv'
    BY <1>2, <2>1 DEF IInv, RingInv, GotInv, OfClient, serverVars, clientVars
  <2> QED
    BY <1>8, <1>9, <2>2 DEF IInv
<1>11. CASE f = "client"
  <2>1. ring'["client"] = left /\ got'["client"] = got["client"] \o Receipt(read)
    BY <1>7, <1>11 DEF IInv, Types, File
  <2>2. sPc = "ready"
    BY <1>2, <1>11 DEF Reads
  <2>3. \A i \in 1 .. Len(ring["client"]) : /\ OfClient(ring["client"][i])
                                            /\ counted[ring["client"][i].by] = starts
    BY <2>2 DEF IInv, RingInv
  <2>4. RingInv'
    <3> SUFFICES ASSUME NEW i \in 1 .. Len(left)
                 PROVE  OfClient(left[i]) /\ counted[left[i].by] = starts
      BY <1>2, <2>1 DEF RingInv, OfClient, serverVars, clientVars
    <3> QED
      BY <1>5, <1>11, <2>3
  <2>5. GotInv'
    <3> SUFFICES ASSUME NEW i \in 1 .. Len(got["client"] \o Receipt(read))
                 PROVE  LET r == (got["client"] \o Receipt(read))[i]
                        IN OfClient(r.byte) /\ counted[r.byte.by] = r.in
      BY <1>2, <2>1 DEF GotInv, OfClient, clientVars
    <3>1. CASE i \in 1 .. Len(got["client"])
      <4>1. (got["client"] \o Receipt(read))[i] = got["client"][i]
        BY <1>3, <1>6, <1>11, <3>1
      <4> QED
        BY <3>1, <4>1 DEF IInv, GotInv
    <3>2. CASE i \notin 1 .. Len(got["client"])
      <4>1. PICK j \in 1 .. Len(read) : (got["client"] \o Receipt(read))[i] = Receipt(read)[j]
        <5>1. /\ i - Len(got["client"]) \in 1 .. Len(Receipt(read))
              /\ (got["client"] \o Receipt(read))[i] = Receipt(read)[i - Len(got["client"])]
          BY <1>3, <1>6, <1>11, <3>2
        <5> QED
          BY <1>6, <5>1
      <4>2. Receipt(read)[j] = [byte |-> ring["client"][j], in |-> starts]
        BY <1>4, <1>6, <1>11
      <4>3. j \in 1 .. Len(ring["client"])
        BY <1>4, <1>11
      <4> QED
        BY <2>3, <4>1, <4>2, <4>3
    <3> QED
      BY <3>1, <3>2
  <2> QED
    BY <1>8, <1>9, <2>4, <2>5 DEF IInv
<1> QED
  BY <1>10, <1>11 DEF File
-----------------------------------------------------------------------------
\* Nothing is there at first.
LEMMA InitIInv ==
  ASSUME Init
  PROVE  IInv
<1>1. ring \in [File -> Seq(Bytes)] /\ got \in [File -> Seq(Receipts)]
  BY DEF Init
<1>2. Types
  BY <1>1 DEF Init, Types, ServerPlaces, ClientPlaces
<1>3. ClientInv /\ ServerInv
  BY DEF Init, ClientInv, ServerInv, Initialising
<1>4. Len(ring["client"]) = 0 /\ Len(got["client"]) = 0
  BY EmptySeq DEF Init, File
<1>5. RingInv /\ GotInv
  BY <1>4, EmptyRange, Zenon DEF RingInv, GotInv
<1> QED
  BY <1>2, <1>3, <1>5 DEF IInv

\* Every step keeps the invariant.
LEMMA NextIInv ==
  ASSUME IInv, [Next]_vars
  PROVE  IInv'
<1>1. CASE StartServer \/ StopServer
  BY <1>1, StartStopServerIInv
<1>2. CASE CheckFiles \/ InitWriter \/ InitReader \/ InitIndexes \/ InitSequence \/ PollServer
  BY <1>2, ServerIInv
<1>3. CASE \/ CreateFile("server file", "server", "client file")
           \/ CreateFile("client file", "client", "check")
  BY <1>3, CreateFileIInv DEF File
<1>4. ASSUME NEW c \in Client,
             \/ StartClient(c) \/ StopClient(c)
             \/ OpenFile(c, "server file", "server", "client file")
             \/ OpenFile(c, "client file", "client", "client header")
             \/ InitRing(c, "client header", "client", "server header")
             \/ InitRing(c, "server header", "server", "count")
      PROVE  IInv'
  BY <1>4, ClientIInv DEF File
<1>5. ASSUME NEW c \in Client, Count(c)
      PROVE  IInv'
  BY <1>5, CountIInv
<1>6. ASSUME NEW p \in Process, NEW f \in File, Send(p, f) \/ Receive(p, f)
      PROVE  IInv'
  BY <1>6, SendIInv, ReceiveIInv
<1>7. CASE UNCHANGED vars
  <2>1. UNCHANGED <<fileVars, ringVars, serverVars, clientVars, history>>
    BY <1>7 DEF vars
  <2> QED
    BY <2>1 DEF IInv, Types, ClientInv, ServerInv, RingInv, GotInv, OfClient,
                fileVars, ringVars, serverVars, clientVars, history
<1>8. CASE Finished
  BY <1>7, <1>8 DEF Finished
<1> QED
  BY <1>1, <1>2, <1>3, <1>4, <1>5, <1>6, <1>7, <1>8 DEF Next

\* A server is given no byte of an earlier run, whatever the clients do and
\* whenever either side ends or is started again (socketsharedmemory.cpp:34-35).
THEOREM ServerReadsThisRunCorrect == Spec => []ServerReadsThisRun
<1>1. Init => IInv
  BY InitIInv
<1>2. IInv /\ [Next]_vars => IInv'
  BY NextIInv
<1>3. IInv => ServerReadsThisRun
  <2> SUFFICES ASSUME IInv, NEW i \in DOMAIN got["client"]
               PROVE  LET r == got["client"][i] IN counted[r.byte.by] = r.in
    BY DEF ServerReadsThisRun
  <2>1. got["client"] \in Seq(Receipts)
    BY DEF IInv, Types, File
  <2>2. i \in 1 .. Len(got["client"])
    BY <2>1
  <2> QED
    BY <2>2 DEF IInv, GotInv
<1> QED
  BY <1>1, <1>2, <1>3, PTL DEF Spec
-----------------------------------------------------------------------------
\* The number in the clients' ring is not zero, or the connection was
\* announced, only when a client was counted in this run.
Counted == \E c \in Client : counted[c] = starts

FoundInv ==
  /\ mFirst => mSequenceNumber = 0
  /\ sPc \notin {"ready", "down"} => mFirst
  /\ sPc = "ready" /\ (sequence["client"] # 0 \/ ~mFirst) => Counted

\* Every step keeps the number true.
LEMMA NextFoundInv ==
  ASSUME IInv, FoundInv, [Next]_vars
  PROVE  FoundInv'
<1>1. CASE \/ StartServer \/ StopServer \/ CheckFiles \/ InitWriter \/ InitReader
           \/ InitIndexes
  <2>1. CASE StartServer
    BY <2>1 DEF StartServer, FoundInv
  <2>2. CASE StopServer
    BY <2>2 DEF StopServer, FoundInv
  <2>3. CASE CheckFiles
    <3>1. sPc = "check" /\ sPc' # "ready" /\ UNCHANGED <<mFirst, mSequenceNumber>>
      BY <2>3 DEF CheckFiles
    <3>2. mFirst /\ mFirst' /\ mSequenceNumber' = 0
      BY <3>1 DEF FoundInv
    <3> QED
      BY <3>1, <3>2 DEF FoundInv
  <2>4. CASE InitWriter \/ InitReader \/ InitIndexes
    BY <2>4 DEF InitWriter, InitReader, InitIndexes, FoundInv
  <2> QED
    BY <1>1, <2>1, <2>2, <2>3, <2>4
<1>2. ASSUME NEW here \in {"server file", "client file"}, NEW f \in File,
             NEW next \in {"client file", "check"}, CreateFile(here, f, next)
      PROVE  FoundInv'
  BY <1>2 DEF CreateFile, FoundInv
<1>3. CASE InitSequence
  <2>1. sequence'["client"] = 0 /\ mFirst' /\ UNCHANGED <<mFirst, mSequenceNumber>>
    BY <1>3 DEF InitSequence, FoundInv, IInv, Types, File
  <2> QED
    BY <1>3, <2>1 DEF FoundInv
<1>4. CASE PollServer
  <2>1. /\ sPc = "ready" /\ mFirst /\ sequence["client"] # mSequenceNumber /\ ~mFirst'
        /\ UNCHANGED <<counted, starts>>
    BY <1>4 DEF PollServer, Changed, history
  <2>2. Counted'
    BY <2>1 DEF FoundInv, Counted
  <2>3. sPc' = "ready"
    BY <1>4 DEF PollServer
  <2> QED
    BY <2>1, <2>2, <2>3 DEF FoundInv
<1>5. ASSUME NEW c \in Client, Count(c)
      PROVE  FoundInv'
  <2>1. UNCHANGED <<serverVars, starts>>
    BY <1>5 DEF Count
  <2>2. CASE "client" \in mHeader[c]
    <3>1. counted'[c] = starts'
      BY <1>5, <2>2 DEF Count, CountedRing, IInv, Types
    <3>2. Counted'
      BY <3>1 DEF Counted
    <3> QED
      BY <2>1, <3>2 DEF FoundInv, serverVars
  <2>3. CASE "client" \notin mHeader[c]
    <3>1. UNCHANGED <<sequence, counted>>
      BY <1>5, <2>3 DEF Count, CountedRing
    <3> QED
      BY <2>1, <3>1 DEF FoundInv, Counted, serverVars
  <2> QED
    BY <2>2, <2>3
<1>6. CASE UNCHANGED <<serverVars, sequence, counted, starts>>
  BY <1>6 DEF FoundInv, Counted, serverVars
<1>7. ASSUME NEW c \in Client,
             \/ StartClient(c) \/ StopClient(c)
             \/ OpenFile(c, "server file", "server", "client file")
             \/ OpenFile(c, "client file", "client", "client header")
             \/ InitRing(c, "client header", "client", "server header")
             \/ InitRing(c, "server header", "server", "count")
      PROVE  FoundInv'
  BY <1>6, <1>7 DEF StartClient, StopClient, OpenFile, InitRing, ringVars, history
<1>8. ASSUME NEW p \in Process, NEW f \in File, Send(p, f) \/ Receive(p, f)
      PROVE  FoundInv'
  BY <1>6, <1>8 DEF Send, Receive
<1>9. CASE UNCHANGED vars \/ Finished
  BY <1>6, <1>9 DEF Finished, vars, ringVars, history
<1> QED
  BY <1>1, <1>2, <1>3, <1>4, <1>5, <1>7, <1>8, <1>9 DEF Next, File

\* A connection is announced only when a client has come in this run of the
\* server (socketsharedmemory.cpp:62-80).
THEOREM FoundIsRealCorrect == Spec => []FoundIsReal
<1>1. Init => IInv /\ FoundInv
  BY InitIInv DEF Init, FoundInv
<1>2. IInv /\ FoundInv /\ [Next]_vars => (IInv /\ FoundInv)'
  BY NextIInv, NextFoundInv
<1>3. FoundInv => FoundIsReal
  BY DEF FoundInv, FoundIsReal, Counted
<1> QED
  BY <1>1, <1>2, <1>3, PTL DEF Spec
-----------------------------------------------------------------------------
(* Nothing that a running process sent is lost.  What was read and what    *)
(* waits is one sequence, which sending extends, reading leaves alone and  *)
(* clearing the ring cuts; its writer keeps the file in view, so that only *)
(* a server that has not yet sent can clear it.                            *)

\* The byte was sent by p, and by a server in its run s.
Mine(b, p, s) == b.by = p /\ (p = "server" => b.start = s)

\* Of p's bytes in this sequence the numbers are 1 to k, in order.
KeptIn(h, p, s, k) ==
  /\ \A i \in 1 .. Len(h) : Mine(h[i], p, s) => h[i].n \in 1 .. k
  /\ \A n \in 1 .. k : \E i \in 1 .. Len(h) : Mine(h[i], p, s) /\ h[i].n = n
  /\ \A i, j \in 1 .. Len(h) :
       Mine(h[i], p, s) /\ Mine(h[j], p, s) /\ i < j => h[i].n < h[j].n

\* A client's header is valid only once the server of this run has cleared the
\* ring, so who has it and is not early keeps the ring.
HeaderInv ==
  /\ valid \in [File -> BOOLEAN]
  /\ sPc \in {"server file", "client file"} => "client" \notin sMapped
  /\ sPc \in {"check", "no socket", "write header", "read header"} /\ "client" \in sMapped
       => ~valid["client"]
  /\ \A c \in Client :
       cPc[c] # "gone" /\ c \notin early /\ "client" \in mHeader[c] /\ "client" \in sMapped
         => sPc \in {"ready", "down"}

\* Only who is ready has sent something.
SentInv ==
  /\ sPc \notin {"ready", "down"} => sent["server"] = 0
  /\ \A c \in Client :
       /\ cPc[c] \notin {"ready", "gone"} => sent[c] = 0
       /\ sent[c] > 0 => "client" \in mHeader[c]

KeepInv ==
  /\ HeaderInv /\ SentInv
  /\ \A i \in 1 .. Len(Held("server")) : Held("server")[i].start <= starts
  /\ KeptIn(Held("server"), "server", starts, sent["server"])
  /\ \A c \in Client :
       cPc[c] # "gone" /\ c \notin early => KeptIn(Held("client"), c, starts, sent[c])

\* p's bytes are kept when the sequence gets one more of p's ...
LEMMA KeptWithOwn ==
  ASSUME NEW h \in Seq(Bytes), NEW b \in Bytes, NEW p, NEW s, NEW k \in Nat,
         KeptIn(h, p, s, k), Mine(b, p, s), b.n = k + 1
  PROVE  KeptIn(Append(h, b), p, s, k + 1)
<1> DEFINE t == Append(h, b)
<1>1. /\ Len(h) \in Nat /\ Len(t) = Len(h) + 1 /\ t[Len(h) + 1] = b
      /\ \A i \in 1 .. Len(h) : t[i] = h[i]
  OBVIOUS
<1>2. \A i \in 1 .. Len(h) : Mine(h[i], p, s) => h[i].n \in 1 .. k
  BY DEF KeptIn
<1>3. \A n \in 1 .. k : \E i \in 1 .. Len(h) : Mine(h[i], p, s) /\ h[i].n = n
  BY DEF KeptIn
<1>4. \A i, j \in 1 .. Len(h) :
        Mine(h[i], p, s) /\ Mine(h[j], p, s) /\ i < j => h[i].n < h[j].n
  BY DEF KeptIn
<1> HIDE DEF t
<1>5. \A i \in 1 .. Len(t) : i \in 1 .. Len(h) \/ i = Len(h) + 1
  BY <1>1
<1>6. \A i \in 1 .. Len(t) : Mine(t[i], p, s) => t[i].n \in 1 .. k + 1
  BY <1>1, <1>2, <1>5
<1>7. ASSUME NEW n \in 1 .. k + 1
      PROVE  \E i \in 1 .. Len(t) : Mine(t[i], p, s) /\ t[i].n = n
  <2>1. CASE n \in 1 .. k
    <3>1. PICK i \in 1 .. Len(h) : Mine(h[i], p, s) /\ h[i].n = n
      BY <1>3, <2>1
    <3>2. i \in 1 .. Len(t) /\ t[i] = h[i]
      BY <1>1, <3>1
    <3> QED
      BY <3>1, <3>2
  <2>2. CASE n = k + 1
    <3>1. Len(h) + 1 \in 1 .. Len(t)
      BY <1>1
    <3> QED
      BY <1>1, <2>2, <3>1
  <2> QED
    BY <2>1, <2>2
<1>8. ASSUME NEW i \in 1 .. Len(t), NEW j \in 1 .. Len(t),
             Mine(t[i], p, s), Mine(t[j], p, s), i < j
      PROVE  t[i].n < t[j].n
  <2>1. i \in 1 .. Len(h) /\ t[i] = h[i]
    BY <1>1, <1>8
  <2>2. CASE j \in 1 .. Len(h)
    BY <1>1, <1>4, <1>8, <2>1, <2>2
  <2>3. CASE j = Len(h) + 1
    <3>1. h[i].n \in 1 .. k
      BY <1>2, <1>8, <2>1
    <3> QED
      BY <1>1, <2>1, <2>3, <3>1
  <2> QED
    BY <1>5, <2>2, <2>3
<1> QED
  BY <1>6, <1>7, <1>8 DEF KeptIn, t

\* ... or one of somebody else.
LEMMA KeptWithOther ==
  ASSUME NEW h \in Seq(Bytes), NEW b \in Bytes, NEW p, NEW s, NEW k \in Nat,
         KeptIn(h, p, s, k), ~Mine(b, p, s)
  PROVE  KeptIn(Append(h, b), p, s, k)
<1> DEFINE t == Append(h, b)
<1>1. /\ Len(h) \in Nat /\ Len(t) = Len(h) + 1 /\ t[Len(h) + 1] = b
      /\ \A i \in 1 .. Len(h) : t[i] = h[i]
  OBVIOUS
<1> HIDE DEF t
<1>2. \A i \in 1 .. Len(t) : Mine(t[i], p, s) => i \in 1 .. Len(h) /\ t[i] = h[i]
  BY <1>1
<1>3. \A i \in 1 .. Len(h) : i \in 1 .. Len(t) /\ t[i] = h[i]
  BY <1>1
<1> QED
  BY <1>2, <1>3 DEF KeptIn, t

\* Who sent nothing loses nothing when the end is cut.
LEMMA KeptNothing ==
  ASSUME NEW h, NEW t, NEW p, NEW s, NEW r, KeptIn(h, p, s, 0),
         \A i \in 1 .. Len(t) : i \in 1 .. Len(h) /\ t[i] = h[i],
         \A i \in 1 .. Len(t) : Mine(t[i], p, r) => Mine(t[i], p, s)
  PROVE  KeptIn(t, p, r, 0)
<1>1. \A i \in 1 .. Len(t) : ~Mine(t[i], p, r)
  BY DEF KeptIn
<1> QED
  BY <1>1 DEF KeptIn

\* Two sequences, one behind the other.
LEMMA Joined ==
  ASSUME NEW S, NEW u \in Seq(S), NEW v \in Seq(S)
  PROVE  /\ u \o v \in Seq(S) /\ Len(u \o v) = Len(u) + Len(v)
         /\ Len(u) \in Nat /\ Len(v) \in Nat
         /\ \A i \in 1 .. Len(u) : (u \o v)[i] = u[i]
         /\ \A i \in 1 .. Len(v) : (u \o v)[Len(u) + i] = v[i]
OBVIOUS

\* Sequences with the same elements are the same.
LEMMA SameSequence ==
  ASSUME NEW S, NEW u \in Seq(S), NEW v \in Seq(S), Len(u) = Len(v),
         \A i \in 1 .. Len(v) : u[i] = v[i]
  PROVE  u = v
OBVIOUS

\* What was read of a ring, and what was read and what waits.
BytesOf(g) == [i \in DOMAIN g |-> g[i].byte]
Whole(g, r) == BytesOf(g) \o r

\* The bytes that were read, one by one.
LEMMA ReadBytes ==
  ASSUME NEW g \in Seq(Receipts)
  PROVE  /\ BytesOf(g) \in Seq(Bytes) /\ Len(BytesOf(g)) = Len(g)
         /\ \A i \in 1 .. Len(g) : BytesOf(g)[i] = g[i].byte
<1>1. \A i \in 1 .. Len(g) : g[i].byte \in Bytes
  <2> SUFFICES ASSUME NEW i \in 1 .. Len(g) PROVE g[i].byte \in Bytes
    OBVIOUS
  <2>1. g[i] \in Receipts
    BY ElementInSet
  <2> QED
    BY <2>1 DEF Receipts
<1>2. DOMAIN g = 1 .. Len(g) /\ Len(g) \in Nat
  OBVIOUS
<1>3. BytesOf(g) = [i \in 1 .. Len(g) |-> g[i].byte]
  BY <1>2 DEF BytesOf
<1>4. BytesOf(g) \in [1 .. Len(g) -> Bytes]
  BY <1>1, <1>3
<1> QED
  BY <1>2, <1>3, <1>4

\* What was read, and what waits, one by one.
LEMMA WholeBytes ==
  ASSUME NEW g \in Seq(Receipts), NEW r \in Seq(Bytes)
  PROVE  /\ Whole(g, r) \in Seq(Bytes) /\ Len(Whole(g, r)) = Len(g) + Len(r)
         /\ Len(g) \in Nat /\ Len(r) \in Nat
         /\ \A i \in 1 .. Len(g) : Whole(g, r)[i] = g[i].byte
         /\ \A i \in 1 .. Len(r) : Whole(g, r)[Len(g) + i] = r[i]
<1>1. PICK b \in Seq(Bytes) : b = BytesOf(g)
  BY ReadBytes
<1>2. /\ b \o r \in Seq(Bytes) /\ Len(b \o r) = Len(b) + Len(r)
      /\ Len(b) \in Nat /\ Len(r) \in Nat
      /\ \A i \in 1 .. Len(b) : (b \o r)[i] = b[i]
      /\ \A i \in 1 .. Len(r) : (b \o r)[Len(b) + i] = r[i]
  BY Joined
<1> QED
  BY <1>1, <1>2, ReadBytes DEF Whole

\* Reading moves bytes from what waits to what was read.
LEMMA WholeMoved ==
  ASSUME NEW g \in Seq(Receipts), NEW r \in Seq(Bytes), NEW n \in 1 .. Len(r),
         NEW x \in Seq(Receipts), Len(x) = n, \A i \in 1 .. n : x[i].byte = r[i]
  PROVE  Whole(g \o x, SubSeq(r, n + 1, Len(r))) = Whole(g, r)
<1>1. PICK b \in Seq(Bytes) : b = BytesOf(g)
  BY ReadBytes
<1>2. PICK y \in Seq(Receipts) : y = g \o x
  BY Joined
<1>3. n \in Nat /\ Len(r) \in Nat /\ n <= Len(r) /\ Len(g) \in Nat
  OBVIOUS
<1>4. /\ Len(y) = Len(g) + n /\ \A i \in 1 .. Len(g) : y[i] = g[i]
      /\ \A i \in 1 .. n : y[Len(g) + i] = x[i]
  BY <1>2, Joined
<1>5. PICK z \in Seq(Bytes) : z = SubSeq(r, n + 1, Len(r))
  <2>1. n + 1 \in 1 .. Len(r) + 1 /\ Len(r) \in 0 .. Len(r)
    BY <1>3
  <2> QED
    BY <2>1, PartOfRing
<1>6. Len(z) = Len(r) - n /\ \A i \in 1 .. Len(r) - n : z[i] = r[n + i]
  BY <1>3, <1>5
<1>7. PICK u \in Seq(Bytes) : u = Whole(g, r)
  BY WholeBytes
<1>8. PICK v \in Seq(Bytes) : v = Whole(y, z)
  BY WholeBytes
<1>9. /\ Len(u) = Len(g) + Len(r) /\ \A i \in 1 .. Len(g) : u[i] = g[i].byte
      /\ \A i \in 1 .. Len(r) : u[Len(g) + i] = r[i]
  BY <1>7, WholeBytes
<1>10. /\ Len(v) = Len(y) + Len(z) /\ \A i \in 1 .. Len(y) : v[i] = y[i].byte
       /\ \A i \in 1 .. Len(z) : v[Len(y) + i] = z[i]
  BY <1>8, WholeBytes
<1>11. PICK l \in Nat, m \in Nat : l = Len(g) /\ m = Len(r)
  BY <1>3
<1>12. Len(u) = l + m /\ Len(v) = l + m /\ Len(y) = l + n /\ Len(z) = m - n /\ n <= m
  BY <1>3, <1>4, <1>6, <1>9, <1>10, <1>11
<1>13. ASSUME NEW i \in 1 .. l + m PROVE v[i] = u[i]
  <2>1. CASE i <= l
    <3>1. i \in 1 .. l /\ i \in 1 .. l + n
      BY <1>3, <1>13, <2>1
    <3>2. v[i] = y[i].byte /\ y[i] = g[i]
      BY <1>4, <1>10, <1>11, <1>12, <3>1
    <3>3. u[i] = g[i].byte
      BY <1>9, <1>11, <3>1
    <3> QED
      BY <3>2, <3>3
  <2>2. CASE i > l /\ i <= l + n
    <3>1. PICK j \in 1 .. n : j = i - l
      BY <1>3, <1>13, <2>2
    <3>2. i = l + j /\ i \in 1 .. l + n /\ j \in 1 .. m
      BY <1>3, <1>12, <1>13, <2>2, <3>1
    <3>3. v[i] = x[j].byte /\ u[i] = r[j]
      BY <1>4, <1>9, <1>10, <1>11, <1>12, <3>2
    <3> QED
      BY <3>3
  <2>3. CASE i > l + n
    <3>1. PICK j \in 1 .. m - n : j = i - (l + n)
      BY <1>3, <1>12, <1>13, <2>3
    <3>2. n + j \in 1 .. m /\ i = l + (n + j) /\ i = l + n + j
      BY <1>3, <1>12, <1>13, <2>3, <3>1
    <3>3. u[i] = r[n + j]
      BY <1>9, <1>11, <3>2
    <3>4. v[i] = r[n + j]
      BY <1>6, <1>10, <1>11, <1>12, <3>2
    <3> QED
      BY <3>3, <3>4
  <2> QED
    BY <1>3, <1>13, <2>1, <2>2, <2>3
<1>14. v = u
  BY <1>12, <1>13, SameSequence
<1> QED
  BY <1>2, <1>5, <1>7, <1>8, <1>14

\* Sending puts one byte behind the others.
LEMMA WholeLonger ==
  ASSUME NEW g \in Seq(Receipts), NEW r \in Seq(Bytes), NEW b \in Bytes
  PROVE  Whole(g, Append(r, b)) = Append(Whole(g, r), b)
<1>1. PICK s \in Seq(Bytes) : s = BytesOf(g)
  BY ReadBytes
<1>2. s \o Append(r, b) = Append(s \o r, b)
  OBVIOUS
<1> QED
  BY <1>1, <1>2 DEF Whole

\* Clearing a ring leaves what was read.
LEMMA WholeCut ==
  ASSUME NEW g \in Seq(Receipts), NEW r \in Seq(Bytes)
  PROVE  \A i \in 1 .. Len(Whole(g, <<>>)) :
           i \in 1 .. Len(Whole(g, r)) /\ Whole(g, <<>>)[i] = Whole(g, r)[i]
<1>1. /\ Len(Whole(g, r)) = Len(g) + Len(r) /\ Len(g) \in Nat /\ Len(r) \in Nat
      /\ \A i \in 1 .. Len(g) : Whole(g, r)[i] = g[i].byte
  BY WholeBytes
<1>2. /\ Len(Whole(g, <<>>)) = Len(g) + 0
      /\ \A i \in 1 .. Len(g) : Whole(g, <<>>)[i] = g[i].byte
  BY EmptySeq, WholeBytes
<1> QED
  BY <1>1, <1>2

\* What a file held, before and after a step.
LEMMA HeldIsWhole ==
  ASSUME Types, Types', NEW f \in File
  PROVE  /\ Held(f) = Whole(got[f], ring[f]) /\ Held(f)' = Whole(got'[f], ring'[f])
         /\ got[f] \in Seq(Receipts) /\ got'[f] \in Seq(Receipts)
         /\ ring[f] \in Seq(Bytes) /\ ring'[f] \in Seq(Bytes)
         /\ Held(f) \in Seq(Bytes) /\ Held(f)' \in Seq(Bytes)
<1>1. /\ got[f] \in Seq(Receipts) /\ got'[f] \in Seq(Receipts)
      /\ ring[f] \in Seq(Bytes) /\ ring'[f] \in Seq(Bytes)
  BY DEF Types
<1>2. Held(f) = Whole(got[f], ring[f]) /\ Held(f)' = Whole(got'[f], ring'[f])
  BY Zenon DEF Held, Whole, BytesOf
<1> QED
  BY <1>1, <1>2, WholeBytes

\* Reading leaves what a ring held as it is.
LEMMA ReceiveHeld ==
  ASSUME IInv, IInv', NEW p \in Process, NEW f \in File, Receive(p, f), NEW e \in File
  PROVE  Held(e)' = Held(e)
<1>1. PICK n \in 1 .. Len(ring[f]) :
        /\ got' = [got EXCEPT ![f] = @ \o Receipt(SubSeq(ring[f], 1, n))]
        /\ ring' = [ring EXCEPT ![f] = SubSeq(@, n + 1, Len(@))]
  BY DEF Receive
<1>2. CASE e # f
  <2>1. got'[e] = got[e] /\ ring'[e] = ring[e]
    BY <1>1, <1>2 DEF IInv, Types
  <2> QED
    BY <2>1, HeldIsWhole DEF IInv
<1>3. CASE e = f
  <2>1. PICK g \in Seq(Receipts), r \in Seq(Bytes) : g = got[f] /\ r = ring[f]
    BY DEF IInv, Types
  <2>2. n \in 1 .. Len(r) /\ Len(r) \in Nat
    BY <1>1, <2>1
  <2>3. PICK s \in Seq(Bytes) : s = SubSeq(r, 1, n) /\ Len(s) = n /\ \A i \in 1 .. n : s[i] = r[i]
    <3>1. 1 \in 1 .. Len(r) + 1 /\ n \in 0 .. Len(r)
      BY <2>2
    <3>2. SubSeq(r, 1, n) \in Seq(Bytes)
      BY <3>1, PartOfRing
    <3>3. Len(SubSeq(r, 1, n)) = n /\ \A i \in 1 .. n : SubSeq(r, 1, n)[i] = r[i]
      BY <2>2
    <3> QED
      BY <3>2, <3>3
  <2>4. /\ Receipt(s) \in Seq(Receipts) /\ Len(Receipt(s)) = n
        /\ \A i \in 1 .. n : Receipt(s)[i] = [byte |-> s[i], in |-> starts]
    BY <2>3, ReceiptElements DEF IInv
  <2>5. PICK x \in Seq(Receipts) : x = Receipt(s)
    BY <2>4
  <2>6. Len(x) = n /\ \A i \in 1 .. n : x[i].byte = r[i]
    <3>1. \A i \in 1 .. n : x[i] = [byte |-> r[i], in |-> starts]
      BY <2>3, <2>4, <2>5
    <3>2. ASSUME NEW i \in 1 .. n PROVE x[i].byte = r[i]
      <4>1. x[i] = [byte |-> r[i], in |-> starts]
        BY <3>1
      <4> QED
        BY <4>1
    <3> QED
      BY <2>4, <2>5, <3>2
  <2>7. got'[f] = g \o x /\ ring'[f] = SubSeq(r, n + 1, Len(r))
    BY <1>1, <2>1, <2>3, <2>5 DEF IInv, Types
  <2>8. Whole(g \o x, SubSeq(r, n + 1, Len(r))) = Whole(g, r)
    BY <2>2, <2>6, WholeMoved
  <2> QED
    BY <1>3, <2>1, <2>7, <2>8, HeldIsWhole DEF IInv
<1> QED
  BY <1>2, <1>3

\* Sending puts one byte behind what the ring held.
LEMMA SendHeld ==
  ASSUME IInv, IInv', NEW f \in File, NEW b \in Bytes, got' = got,
         ring' = [ring EXCEPT ![f] = Append(@, b)]
  PROVE  /\ Held(f)' = Append(Held(f), b)
         /\ \A e \in File : e # f => Held(e)' = Held(e)
<1>1. \A e \in File : e # f => Held(e)' = Held(e)
  BY HeldIsWhole DEF IInv, Types
<1>2. ring'[f] = Append(ring[f], b) /\ got'[f] = got[f]
  BY DEF IInv, Types
<1> QED
  BY <1>1, <1>2, HeldIsWhole, WholeLonger DEF IInv

\* Clearing a ring cuts what waits in it.
LEMMA ClearHeld ==
  ASSUME IInv, IInv', NEW f \in File, got' = got, ring' = [ring EXCEPT ![f] = <<>>]
  PROVE  /\ \A i \in 1 .. Len(Held(f)') :
              i \in 1 .. Len(Held(f)) /\ Held(f)'[i] = Held(f)[i]
         /\ \A e \in File : e # f => Held(e)' = Held(e)
<1>1. \A e \in File : e # f => Held(e)' = Held(e)
  BY HeldIsWhole DEF IInv, Types
<1>2. ring'[f] = <<>> /\ got'[f] = got[f]
  BY DEF IInv, Types
<1> QED
  BY <1>1, <1>2, HeldIsWhole, WholeCut DEF IInv

\* Of a client's bytes it does not matter in which run of the server they were
\* sent; the server has sent none in a run that begins.
LEMMA KeptForOwner ==
  ASSUME NEW h, NEW s, NEW r, NEW k
  PROVE  /\ \A c \in Client : KeptIn(h, c, s, k) => KeptIn(h, c, r, k)
         /\ (\A i \in 1 .. Len(h) : h[i].start # s) => KeptIn(h, "server", s, 0)
<1>1. \A c \in Client : \A b : Mine(b, c, s) <=> Mine(b, c, r)
  BY ServerIsNoClient DEF Mine
<1>2. ASSUME NEW c \in Client, KeptIn(h, c, s, k) PROVE KeptIn(h, c, r, k)
  BY <1>1, <1>2 DEF KeptIn
<1>3. ASSUME \A i \in 1 .. Len(h) : h[i].start # s PROVE KeptIn(h, "server", s, 0)
  BY <1>3 DEF KeptIn, Mine
<1> QED
  BY <1>2, <1>3

\* Who uses a client's header has both files in view.
LEMMA UserHasView ==
  ASSUME IInv, NEW c \in Client, cPc[c] # "gone", mHeader[c] # {}
  PROVE  cPc[c] # "down" /\ \A f \in File : c \in views[f]
<1>1. cMapped[c] = File /\ File # {}
  BY DEF IInv, ClientInv, File
<1> QED
  BY <1>1 DEF IInv, ClientInv

\* A step that neither sends nor clears.
LEMMA QuietKeepInv ==
  ASSUME IInv, IInv', KeepInv, HeaderInv', SentInv', UNCHANGED <<sent, starts>>,
         \A f \in File : Held(f)' = Held(f),
         \A c \in Client : cPc'[c] # "gone" /\ c \notin early'
                             => cPc[c] # "gone" /\ c \notin early
  PROVE  KeepInv'
<1>1. "server" \in File /\ "client" \in File
  BY DEF File
<1>2. Held("server")' = Held("server") /\ Held("client")' = Held("client")
  BY <1>1
<1>3. (\A i \in 1 .. Len(Held("server")) : Held("server")[i].start <= starts)'
  BY <1>2 DEF KeepInv
<1>4. KeptIn(Held("server"), "server", starts, sent["server"])'
  <2>1. KeptIn(Held("server")', "server", starts', sent'["server"])
    BY <1>2 DEF KeepInv
  <2> QED
    BY <2>1, Zenon DEF KeptIn, Mine
<1>5. ASSUME NEW c \in Client, cPc'[c] # "gone", c \notin early'
      PROVE  KeptIn(Held("client"), c, starts, sent[c])'
  <2>1. KeptIn(Held("client")', c, starts', sent'[c])
    BY <1>2, <1>5 DEF KeepInv
  <2> QED
    BY <2>1, Zenon DEF KeptIn, Mine
<1> QED
  BY <1>3, <1>4, <1>5 DEF KeepInv

\* A step that clears a ring, whose writer has sent nothing.
LEMMA ClearKeepInv ==
  ASSUME IInv, IInv', KeepInv, HeaderInv', SentInv', UNCHANGED <<sent, starts, got, cPc, early>>,
         NEW f \in File, ring' = [ring EXCEPT ![f] = <<>>],
         f = "server" => sent["server"] = 0,
         f = "client" =>
           \A c \in Client : cPc[c] # "gone" /\ c \notin early => sent[c] = 0
  PROVE  KeepInv'
<1>1. /\ \A i \in 1 .. Len(Held(f)') : i \in 1 .. Len(Held(f)) /\ Held(f)'[i] = Held(f)[i]
      /\ \A e \in File : e # f => Held(e)' = Held(e)
  BY ClearHeld
<1>2. "server" \in File /\ "client" \in File /\ f \in {"server", "client"}
  BY DEF File
<1>3. (\A i \in 1 .. Len(Held("server")) : Held("server")[i].start <= starts)'
  <2>1. CASE f = "server"
    BY <1>1, <2>1 DEF KeepInv
  <2>2. CASE f # "server"
    <3>1. Held("server")' = Held("server")
      BY <1>1, <1>2, <2>2
    <3> QED
      BY <3>1 DEF KeepInv
  <2> QED
    BY <2>1, <2>2
<1>4. KeptIn(Held("server")', "server", starts, sent["server"])
  <2>1. KeptIn(Held("server"), "server", starts, sent["server"])
    BY DEF KeepInv
  <2>2. CASE f = "server"
    BY <1>1, <2>1, <2>2, KeptNothing
  <2>3. CASE f # "server"
    BY <1>1, <1>2, <2>1, <2>3
  <2> QED
    BY <2>2, <2>3
<1>5. ASSUME NEW c \in Client, cPc[c] # "gone", c \notin early
      PROVE  KeptIn(Held("client")', c, starts, sent[c])
  <2>1. KeptIn(Held("client"), c, starts, sent[c])
    BY <1>5 DEF KeepInv
  <2>2. CASE f = "client"
    <3>1. sent[c] = 0
      BY <1>5, <2>2
    <3> QED
      BY <1>1, <2>1, <2>2, <3>1, KeptNothing
  <2>3. CASE f # "client"
    BY <1>1, <1>2, <2>1, <2>3
  <2> QED
    BY <2>2, <2>3
<1>6. KeptIn(Held("server"), "server", starts, sent["server"])'
  BY <1>4, Zenon DEF KeptIn, Mine
<1>7. ASSUME NEW c \in Client, cPc'[c] # "gone", c \notin early'
      PROVE  KeptIn(Held("client"), c, starts, sent[c])'
  <2>1. KeptIn(Held("client")', c, starts', sent'[c])
    BY <1>5, <1>7
  <2> QED
    BY <2>1, Zenon DEF KeptIn, Mine
<1> QED
  BY <1>3, <1>6, <1>7 DEF KeepInv

\* The server's process starts, in a run of its own.
LEMMA StartServerKeepInv ==
  ASSUME IInv, IInv', KeepInv, StartServer
  PROVE  KeepInv'
<1>1. /\ starts \in Nat /\ starts' = starts + 1 /\ sPc' = "server file" /\ sMapped' = {}
      /\ sent' = [sent EXCEPT !["server"] = 0] /\ sent \in [Process -> Nat]
      /\ UNCHANGED <<valid, ring, got, cPc, mHeader, early>>
  BY DEF StartServer, IInv, Types, fileVars, ringVars, clientVars
<1>2. sent'["server"] = 0 /\ \A c \in Client : sent'[c] = sent[c]
  BY <1>1, ServerIsNoClient DEF Process
<1>3. Held("server")' = Held("server") /\ Held("client")' = Held("client")
  BY <1>1 DEF Held
<1>4. HeaderInv' /\ SentInv'
  <2>1. HeaderInv'
    BY <1>1 DEF KeepInv, HeaderInv
  <2>2. SentInv'
    BY <1>1, <1>2 DEF KeepInv, SentInv
  <2> QED
    BY <2>1, <2>2
<1>5. PICK h \in Seq(Bytes) : h = Held("server") /\ h = Held("server")'
  <2>1. "server" \in File
    BY DEF File
  <2> QED
    BY <1>3, <2>1, HeldIsWhole DEF IInv
<1>6. \A i \in 1 .. Len(h) : h[i].start <= starts' /\ h[i].start # starts'
  <2> SUFFICES ASSUME NEW i \in 1 .. Len(h)
               PROVE  h[i].start <= starts' /\ h[i].start # starts'
    OBVIOUS
  <2>1. h[i] \in Bytes
    BY ElementInSet
  <2>2. h[i].start \in Nat /\ h[i].start <= starts
    BY <1>5, <2>1 DEF Bytes, KeepInv
  <2>3. PICK x \in Nat, u \in Nat : x = h[i].start /\ u = starts
    BY <1>1, <2>2
  <2>4. x <= u /\ starts' = u + 1
    BY <1>1, <2>2, <2>3
  <2>5. x <= u + 1 /\ x # u + 1
    BY <2>4
  <2> QED
    BY <2>3, <2>4, <2>5
<1>7. KeptIn(Held("server"), "server", starts, sent["server"])'
  <2>1. KeptIn(h, "server", starts', 0)
    BY <1>6, KeptForOwner
  <2>2. KeptIn(Held("server")', "server", starts', sent'["server"])
    BY <1>2, <1>5, <2>1
  <2> QED
    BY <2>2, Zenon DEF KeptIn, Mine
<1>8. ASSUME NEW c \in Client, cPc'[c] # "gone", c \notin early'
      PROVE  KeptIn(Held("client"), c, starts, sent[c])'
  <2>1. KeptIn(Held("client"), c, starts, sent[c])
    BY <1>1, <1>8 DEF KeepInv
  <2>2. KeptIn(Held("client")', c, starts', sent'[c])
    BY <1>2, <1>3, <2>1, KeptForOwner
  <2> QED
    BY <2>2, Zenon DEF KeptIn, Mine
<1>9. (\A i \in 1 .. Len(Held("server")) : Held("server")[i].start <= starts)'
  BY <1>5, <1>6
<1> QED
  BY <1>4, <1>7, <1>8, <1>9 DEF KeepInv

\* A client without the header of its ring has sent nothing.
LEMMA SilentWithoutHeader ==
  ASSUME IInv, SentInv, NEW c \in Client, "client" \notin mHeader[c]
  PROVE  sent[c] = 0
<1>1. sent[c] \in Nat
  BY DEF IInv, Types, Process
<1>2. ~(sent[c] > 0)
  BY DEF SentInv
<1> QED
  BY <1>1, <1>2

\* The server's files are made, or not, and checked, and their headers written.
LEMMA ServerKeepInv ==
  ASSUME IInv, IInv', KeepInv,
         \/ CreateFile("server file", "server", "client file")
         \/ CreateFile("client file", "client", "check")
         \/ CheckFiles \/ InitWriter \/ InitReader \/ InitIndexes \/ InitSequence
         \/ PollServer \/ StopServer
  PROVE  KeepInv'
<1>1. UNCHANGED <<starts, sent, got, early, cPc, mHeader>>
  BY DEF CreateFile, CheckFiles, InitWriter, InitReader, InitIndexes, InitSequence,
         PollServer, StopServer, clientVars, history
<1>2. /\ valid \in [File -> BOOLEAN] /\ "client" \in File /\ "server" \in File
      /\ sMapped \subseteq File
  BY DEF KeepInv, HeaderInv, IInv, Types, File
<1>3. HeaderInv /\ SentInv
  BY DEF KeepInv
<1>4. ASSUME UNCHANGED ring, HeaderInv', SentInv' PROVE KeepInv'
  BY <1>1, <1>4, QuietKeepInv DEF Held
<1>5. ASSUME NEW f \in File, NEW here \in {"server file", "client file"},
             NEW next \in {"client file", "check"}, CreateFile(here, f, next),
             here = "server file" => f = "server" /\ next = "client file",
             here = "client file" => f = "client" /\ next = "check"
      PROVE  KeepInv'
  <2>1. /\ sPc = here /\ sPc' = next /\ \/ UNCHANGED <<fileVars, ringVars, sMapped>>
                                        \/ MayCreate(f) /\ sMapped' = sMapped \cup {f} /\ Zeroed(f)
    BY <1>5 DEF CreateFile
  <2>2. SentInv'
    BY <1>1, <1>3, <2>1 DEF SentInv
  <2>3. CASE UNCHANGED <<fileVars, ringVars, sMapped>>
    <3>1. HeaderInv'
      BY <1>1, <1>3, <1>5, <2>1, <2>3 DEF HeaderInv, fileVars
    <3> QED
      BY <1>4, <2>2, <2>3, <3>1 DEF ringVars
  <2>4. CASE MayCreate(f) /\ sMapped' = sMapped \cup {f} /\ Zeroed(f)
    <3>1. /\ views[f] = {} /\ ring' = [ring EXCEPT ![f] = <<>>]
          /\ valid' = [valid EXCEPT ![f] = FALSE]
      BY <2>4 DEF MayCreate, Zeroed
    <3>2. \A c \in Client : cPc[c] # "gone" => mHeader[c] = {}
      BY <3>1, UserHasView
    <3>3. \A c \in Client : cPc[c] # "gone" => sent[c] = 0
      BY <1>3, <3>2, SilentWithoutHeader
    <3>4. HeaderInv'
      BY <1>1, <1>2, <1>3, <1>5, <2>1, <2>4, <3>1, <3>2 DEF HeaderInv
    <3>5. sent["server"] = 0
      BY <1>3, <2>1 DEF SentInv
    <3> QED
      BY <1>1, <2>2, <3>1, <3>3, <3>4, <3>5, ClearKeepInv
  <2> QED
    BY <2>1, <2>3, <2>4
<1>6. CASE CheckFiles
  <2>1. HeaderInv' /\ SentInv'
    BY <1>1, <1>3, <1>6 DEF CheckFiles, HeaderInv, SentInv, fileVars
  <2> QED
    BY <1>4, <1>6, <2>1 DEF CheckFiles, ringVars
<1>7. CASE InitWriter
  <2>1. sMapped = File
    BY <1>7 DEF InitWriter, IInv, ServerInv, Initialising
  <2>2. HeaderInv'
    BY <1>1, <1>2, <1>3, <1>7, <2>1 DEF InitWriter, HeaderInv
  <2>3. SentInv'
    BY <1>1, <1>3, <1>7 DEF InitWriter, SentInv
  <2>4. ring' = [ring EXCEPT !["server"] = <<>>] /\ sent["server"] = 0
    BY <1>3, <1>7 DEF InitWriter, SentInv
  <2> QED
    BY <1>1, <1>2, <2>2, <2>3, <2>4, ClearKeepInv
<1>8. CASE InitReader
  <2>1. sMapped = File
    BY <1>8 DEF InitReader, IInv, ServerInv, Initialising
  <2>2. HeaderInv' /\ SentInv'
    BY <1>1, <1>2, <1>3, <1>8, <2>1 DEF InitReader, HeaderInv, SentInv
  <2> QED
    BY <1>4, <1>8, <2>2 DEF InitReader, ringVars
<1>9. CASE InitIndexes
  <2>1. /\ sMapped = File /\ sPc = "indexes" /\ sPc' = "sequence"
        /\ ring' = [ring EXCEPT !["client"] = <<>>] /\ UNCHANGED <<valid, sMapped>>
    BY <1>9 DEF InitIndexes, IInv, ServerInv, Initialising, fileVars
  <2>2. \A c \in Client : cPc[c] # "gone" /\ c \notin early => "client" \notin mHeader[c]
    BY <1>2, <1>3, <2>1 DEF HeaderInv
  <2>3. \A c \in Client : cPc[c] # "gone" /\ c \notin early => sent[c] = 0
    BY <1>3, <2>2, SilentWithoutHeader
  <2>4. HeaderInv' /\ SentInv'
    BY <1>1, <1>3, <2>1, <2>2 DEF HeaderInv, SentInv
  <2> QED
    BY <1>1, <1>2, <2>1, <2>3, <2>4, ClearKeepInv
<1>10. CASE InitSequence
  <2>1. HeaderInv' /\ SentInv'
    BY <1>1, <1>3, <1>10 DEF InitSequence, HeaderInv, SentInv, fileVars
  <2> QED
    BY <1>4, <1>10, <2>1 DEF InitSequence
<1>11. CASE PollServer
  <2>1. HeaderInv' /\ SentInv'
    BY <1>1, <1>3, <1>11 DEF PollServer, HeaderInv, SentInv, fileVars
  <2> QED
    BY <1>4, <1>11, <2>1 DEF PollServer, ringVars
<1>12. CASE StopServer
  <2>1. HeaderInv' /\ SentInv'
    BY <1>1, <1>3, <1>12 DEF StopServer, HeaderInv, SentInv
  <2> QED
    BY <1>4, <1>12, <2>1 DEF StopServer, ringVars
<1> QED
  BY <1>2, <1>5, <1>6, <1>7, <1>8, <1>9, <1>10, <1>11, <1>12

\* A client starts, maps the files, takes over the headers, is counted or ends.
LEMMA ClientKeepInv ==
  ASSUME IInv, IInv', KeepInv, NEW c \in Client,
         \/ StartClient(c) \/ StopClient(c) \/ Count(c)
         \/ OpenFile(c, "server file", "server", "client file")
         \/ OpenFile(c, "client file", "client", "client header")
         \/ InitRing(c, "client header", "client", "server header")
         \/ InitRing(c, "server header", "server", "count")
  PROVE  KeepInv'
<1>1. UNCHANGED <<starts, sent, got, ring, valid, sPc, sMapped>> /\ early \subseteq early'
  BY DEF StartClient, StopClient, Count, OpenFile, InitRing, fileVars, ringVars, serverVars,
         history
<1>2. /\ cPc[c] # "gone" /\ cPc \in [Client -> ClientPlaces]
      /\ \A b \in Client : b # c => cPc'[b] = cPc[b]
      /\ cPc'[c] \in {"ready", "gone"} \/ cPc[c] # "ready"
  BY DEF StartClient, StopClient, Count, OpenFile, InitRing, IInv, Types
<1>3. \A b \in Client : cPc'[b] # "gone" /\ b \notin early' => cPc[b] # "gone" /\ b \notin early
  BY <1>1, <1>2
<1>4. HeaderInv /\ SentInv /\ "client" # "server"
  BY DEF KeepInv
<1>5. \A b \in Client : b # c => mHeader'[b] = mHeader[b]
  BY DEF StartClient, StopClient, Count, OpenFile, InitRing, IInv, Types
<1>6. \/ mHeader'[c] = mHeader[c]
      \/ mHeader'[c] = mHeader[c] \cup {"server"}
      \/ /\ mHeader'[c] = mHeader[c] \cup {"client"} /\ valid["client"]
         /\ HeaderInTheMaking => c \in early'
  BY DEF StartClient, StopClient, Count, OpenFile, InitRing, IInv, Types
<1>7. HeaderInv'
  <2>1. ASSUME NEW b \in Client, cPc'[b] # "gone", b \notin early', "client" \in mHeader'[b],
               "client" \in sMapped
        PROVE  sPc \in {"ready", "down"}
    <3>1. CASE "client" \in mHeader[b]
      BY <1>3, <1>4, <2>1, <3>1 DEF HeaderInv
    <3>2. CASE "client" \notin mHeader[b]
      <4>1. b = c /\ valid["client"] /\ ~HeaderInTheMaking
        BY <1>4, <1>5, <1>6, <2>1, <3>2
      <4>2. /\ sPc \notin {"server file", "client file"} /\ sPc \in ServerPlaces
            /\ sPc \notin {"check", "no socket", "write header", "read header"}
        BY <1>4, <2>1, <4>1 DEF HeaderInv, IInv, Types
      <4> QED
        BY <4>1, <4>2 DEF HeaderInTheMaking, ServerPlaces, Initialising
    <3> QED
      BY <3>1, <3>2
  <2> QED
    BY <1>1, <1>4, <2>1 DEF HeaderInv
<1>8. SentInv'
  <2>1. \A b \in Client : mHeader[b] \subseteq mHeader'[b]
    BY <1>5, <1>6
  <2>2. \A b \in Client : cPc'[b] \notin {"ready", "gone"} => cPc[b] \notin {"ready", "gone"}
    BY <1>2
  <2> QED
    BY <1>1, <1>4, <2>1, <2>2 DEF SentInv
<1>9. \A f \in File : Held(f)' = Held(f)
  BY <1>1 DEF Held
<1> QED
  BY <1>1, <1>3, <1>7, <1>8, <1>9, QuietKeepInv

\* A process sends one byte more.
LEMMA SendKeepInv ==
  ASSUME IInv, IInv', KeepInv, NEW p \in Process, NEW f \in File, Send(p, f)
  PROVE  KeepInv'
<1> DEFINE byte == [by |-> p, n |-> sent[p] + 1, start |-> starts]
<1>1. /\ ring' = [ring EXCEPT ![f] = Append(@, byte)]
      /\ sent' = [sent EXCEPT ![p] = @ + 1] /\ Writes(p, f)
      /\ UNCHANGED <<valid, sPc, sMapped, cPc, mHeader, starts, got, early>>
  BY DEF Send, fileVars, serverVars, clientVars
<1>2. /\ sent \in [Process -> Nat] /\ starts \in Nat
      /\ byte \in Bytes /\ byte.by = p /\ byte.n = sent[p] + 1 /\ byte.start = starts
  <2>1. sent \in [Process -> Nat] /\ starts \in Nat
    BY DEF IInv, Types
  <2> QED
    BY <2>1 DEF Bytes
<1>3. PICK b \in Bytes : b = byte
  BY <1>2
<1>4. /\ ring' = [ring EXCEPT ![f] = Append(@, b)]
      /\ b.by = p /\ b.n = sent[p] + 1 /\ b.start = starts
  BY <1>1, <1>2, <1>3
<1> HIDE DEF byte
<1>5. /\ Held(f)' = Append(Held(f), b)
      /\ \A e \in File : e # f => Held(e)' = Held(e)
  BY <1>1, <1>4, SendHeld
<1>6. /\ "client" \in File /\ "server" \in File
      /\ \A e \in File : Held(e) \in Seq(Bytes)
      /\ sent'[p] = sent[p] + 1 /\ \A q \in Process : q # p => sent'[q] = sent[q]
      /\ "server" \in Process /\ Client \subseteq Process
  <2>1. \A e \in File : Held(e) \in Seq(Bytes)
    BY HeldIsWhole DEF IInv
  <2> QED
    BY <1>1, <1>2, <2>1 DEF File, Process
<1>7. \/ p = "server" /\ f = "server" /\ sPc = "ready"
      \/ p \in Client /\ p # "server" /\ f = "client" /\ cPc[p] = "ready" /\ "client" \in mHeader[p]
  BY <1>1, ServerIsNoClient DEF Writes
<1>8. HeaderInv'
  BY <1>1 DEF KeepInv, HeaderInv
<1>9. SentInv'
  <2>1. sPc \notin {"ready", "down"} => sent'["server"] = 0
    BY <1>6, <1>7 DEF KeepInv, SentInv
  <2>2. ASSUME NEW c \in Client
        PROVE  /\ cPc[c] \notin {"ready", "gone"} => sent'[c] = 0
               /\ sent'[c] > 0 => "client" \in mHeader[c]
    <3>1. CASE c = p
      BY <1>7, <3>1, ServerIsNoClient
    <3>2. CASE c # p
      BY <1>6, <3>2 DEF KeepInv, SentInv
    <3> QED
      BY <3>1, <3>2
  <2> QED
    BY <1>1, <2>1, <2>2 DEF SentInv
<1>10. (\A i \in 1 .. Len(Held("server")) : Held("server")[i].start <= starts)'
  <2>1. PICK h \in Seq(Bytes) : h = Held("server")
    BY <1>6
  <2>2. \A i \in 1 .. Len(h) : h[i].start <= starts
    BY <2>1 DEF KeepInv
  <2>3. CASE f = "server"
    <3>1. /\ Len(Append(h, b)) = Len(h) + 1 /\ Append(h, b)[Len(h) + 1] = b /\ Len(h) \in Nat
          /\ \A i \in 1 .. Len(h) : Append(h, b)[i] = h[i]
      OBVIOUS
    <3>2. \A i \in 1 .. Len(Append(h, b)) : Append(h, b)[i].start <= starts
      BY <1>2, <1>4, <2>2, <3>1
    <3> QED
      BY <1>1, <1>5, <2>1, <2>3, <3>2
  <2>4. CASE f # "server"
    BY <1>1, <1>5, <1>6, <2>1, <2>2, <2>4
  <2> QED
    BY <2>3, <2>4
<1>11. KeptIn(Held("server")', "server", starts', sent'["server"])
  <2>1. KeptIn(Held("server"), "server", starts, sent["server"])
    BY DEF KeepInv
  <2>2. CASE p = "server"
    <3>1. Mine(b, "server", starts) /\ f = "server"
      BY <1>4, <1>7, <2>2 DEF Mine
    <3> QED
      <4>1. PICK h \in Seq(Bytes), k \in Nat : h = Held("server") /\ k = sent["server"]
        BY <1>2, <1>6
      <4>2. KeptIn(Append(h, b), "server", starts, k + 1)
        BY <1>4, <2>1, <2>2, <3>1, <4>1, KeptWithOwn
      <4> QED
        BY <1>1, <1>5, <1>6, <2>2, <3>1, <4>1, <4>2
  <2>3. CASE p # "server"
    BY <1>1, <1>5, <1>6, <1>7, <2>1, <2>3
  <2> QED
    BY <2>2, <2>3
<1>12. ASSUME NEW c \in Client, cPc'[c] # "gone", c \notin early'
       PROVE  KeptIn(Held("client")', c, starts', sent'[c])
  <2>1. KeptIn(Held("client"), c, starts, sent[c]) /\ sent[c] \in Nat
    BY <1>1, <1>2, <1>6, <1>12 DEF KeepInv
  <2>2. CASE p = "server"
    BY <1>1, <1>5, <1>6, <1>7, <2>1, <2>2, ServerIsNoClient
  <2>3. CASE p = c
    <3>1. Mine(b, c, starts) /\ f = "client"
      BY <1>4, <1>7, <2>3, ServerIsNoClient DEF Mine
    <3> QED
      <4>1. PICK h \in Seq(Bytes), k \in Nat : h = Held("client") /\ k = sent[c]
        BY <1>6, <2>1
      <4>2. KeptIn(Append(h, b), c, starts, k + 1)
        BY <1>4, <2>1, <2>3, <3>1, <4>1, KeptWithOwn
      <4> QED
        BY <1>1, <1>5, <1>6, <2>3, <3>1, <4>1, <4>2
  <2>4. CASE p # c /\ p # "server"
    <3>1. ~Mine(b, c, starts) /\ f = "client"
      BY <1>4, <1>7, <2>4 DEF Mine
    <3> QED
      BY <1>1, <1>5, <1>6, <2>1, <2>4, <3>1, KeptWithOther
  <2> QED
    BY <2>2, <2>3, <2>4
<1>13. /\ KeptIn(Held("server"), "server", starts, sent["server"])'
       /\ \A c \in Client :
            cPc'[c] # "gone" /\ c \notin early' => KeptIn(Held("client"), c, starts, sent[c])'
  BY <1>11, <1>12, Zenon DEF KeptIn, Mine
<1> QED
  BY <1>8, <1>9, <1>10, <1>13, Zenon DEF KeepInv

\* A process reads.
LEMMA ReceiveKeepInv ==
  ASSUME IInv, IInv', KeepInv, NEW p \in Process, NEW f \in File, Receive(p, f)
  PROVE  KeepInv'
<1>1. UNCHANGED <<valid, sPc, sMapped, cPc, mHeader, starts, sent, early>>
  BY DEF Receive, fileVars, serverVars, clientVars
<1>2. HeaderInv' /\ SentInv'
  BY <1>1 DEF KeepInv, HeaderInv, SentInv
<1>3. \A e \in File : Held(e)' = Held(e)
  BY ReceiveHeld
<1> QED
  BY <1>1, <1>2, <1>3, QuietKeepInv

\* Every step keeps what running processes sent.
LEMMA NextKeepInv ==
  ASSUME IInv, KeepInv, [Next]_vars
  PROVE  KeepInv'
<1>1. IInv'
  BY NextIInv
<1>2. CASE UNCHANGED vars
  <2>1. UNCHANGED <<valid, sPc, sMapped, cPc, mHeader, starts, sent, early, got, ring>>
    BY <1>2 DEF vars, fileVars, ringVars, serverVars, clientVars, history
  <2>2. HeaderInv' /\ SentInv'
    BY <2>1 DEF KeepInv, HeaderInv, SentInv
  <2>3. \A f \in File : Held(f)' = Held(f)
    BY <2>1 DEF Held
  <2> QED
    BY <1>1, <2>1, <2>2, <2>3, QuietKeepInv
<1>3. CASE Finished
  BY <1>2, <1>3 DEF Finished
<1> QED
  BY <1>1, <1>2, <1>3, StartServerKeepInv, ServerKeepInv, ClientKeepInv, SendKeepInv,
     ReceiveKeepInv DEF Next

\* What a process that runs has sent was read once, in order, or still waits,
\* whatever the other process did, ended and was started again
\* (socketsharedmemory.cpp:30-36).
THEOREM KeptWhileRunningCorrect == Spec => []KeptWhileRunning
<1>1. Init => IInv /\ KeepInv
  <2> SUFFICES ASSUME Init PROVE KeepInv
    BY InitIInv
  <2>1. Held("server") = <<>> /\ Held("client") = <<>>
    <3>1. \A f \in File : got[f] = <<>> /\ ring[f] = <<>>
      BY DEF Init
    <3>2. Whole(<<>>, <<>>) = <<>>
      <4>1. /\ <<>> \in Seq(Receipts) /\ <<>> \in Seq(Bytes)
            /\ Len(<<>>) = 0 /\ 0 + 0 = 0
        OBVIOUS
      <4>2. Whole(<<>>, <<>>) \in Seq(Bytes) /\ Len(Whole(<<>>, <<>>)) = 0
        BY <4>1, WholeBytes
      <4> QED
        BY <4>2
    <3> QED
      BY <3>1, <3>2 DEF Held, Whole, BytesOf, File
  <2>2. \A p, s : KeptIn(<<>>, p, s, 0)
    BY EmptySeq DEF KeptIn
  <2>3. HeaderInv /\ SentInv
    BY DEF Init, HeaderInv, SentInv, Process
  <2>4. sent["server"] = 0 /\ \A c \in Client : sent[c] = 0
    BY DEF Init, Process
  <2> QED
    BY <2>1, <2>2, <2>3, <2>4, EmptySeq DEF KeepInv
<1>2. IInv /\ KeepInv /\ [Next]_vars => (IInv /\ KeepInv)'
  BY NextIInv, NextKeepInv
<1>3. ASSUME IInv, KeepInv PROVE KeptWhileRunning
  <2> SUFFICES ASSUME NEW p \in Process, NEW f \in File, Running(p),
                      p = "server" <=> f = "server", p \notin early
               PROVE  /\ {Held(f)[i].n : i \in Own(p, f)} = 1 .. sent[p]
                      /\ \A i, j \in Own(p, f) : i < j => Held(f)[i].n < Held(f)[j].n
    BY DEF KeptWhileRunning
  <2>1. KeptIn(Held(f), p, starts, sent[p])
    <3>1. CASE p = "server"
      BY <1>3, <3>1 DEF KeepInv
    <3>2. CASE p \in Client
      <4>1. f = "client" /\ cPc[p] = "ready"
        BY <3>2, ServerIsNoClient DEF Running, File
      <4> QED
        BY <1>3, <3>2, <4>1 DEF KeepInv
    <3> QED
      BY <3>1, <3>2 DEF Process
  <2>2. Held(f) \in Seq(Bytes)
    <3>1. got[f] \in Seq(Receipts) /\ ring[f] \in Seq(Bytes)
      BY <1>3 DEF IInv, Types
    <3> QED
      BY <3>1, WholeBytes DEF Held, Whole, BytesOf
  <2>3. PICK h \in Seq(Bytes) : h = Held(f)
    BY <2>2
  <2>4. Own(p, f) = {i \in 1 .. Len(h) : Mine(h[i], p, starts)}
    <3>1. DOMAIN h = 1 .. Len(h)
      OBVIOUS
    <3> QED
      BY <2>3, <3>1 DEF Own, Mine
  <2>5. KeptIn(h, p, starts, sent[p])
    BY <2>1, <2>3
  <2>6. {h[i].n : i \in Own(p, f)} = 1 .. sent[p]
    BY <2>4, <2>5 DEF KeptIn
  <2>7. \A i, j \in Own(p, f) : i < j => h[i].n < h[j].n
    BY <2>4, <2>5 DEF KeptIn
  <2> QED
    BY <2>3, <2>6, <2>7
<1> QED
  BY <1>1, <1>2, <1>3, PTL DEF Spec
=============================================================================
