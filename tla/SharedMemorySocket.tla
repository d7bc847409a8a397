------------------------- MODULE SharedMemorySocket -------------------------
(***************************************************************************)
(* Wsocket over shared memory (socketsharedmemory.cpp): a server process   *)
(* makes two files, each a ring of SPSC, and writes one and reads the      *)
(* other; a client process maps them and does the reverse.  A counter in   *)
(* the clients' ring tells pollServer() that somebody came.  Processes     *)
(* start, end or crash at any time; the files stay.                        *)
(*                                                                         *)
(* The rings are what SPSC.tla shows of them, bytes in order.  The files   *)
(* are those of MemoryMap.cpp for Windows, the system it can write on:     *)
(* a file that a process has in view cannot be made anew, and a view ends  *)
(* with its process only (MemoryMap.cpp:119-129 closes handles).           *)
(***************************************************************************)
EXTENDS Integers, Sequences

CONSTANTS
  Client,      \* client processes; one runs at a time, as SPSC.h:11 demands
  Capacity,    \* bytes a ring accepts
  MaxBytes,    \* bound on the bytes a process sends
  MaxStarts    \* bound on how often the server is started

ASSUME SocketAssumption ==
  "server" \notin Client /\ {Capacity, MaxBytes, MaxStarts} \subseteq Nat

VARIABLES
  exists, views,         \* per file: whether it is there, who has it in view
  valid,                 \* per file: its header holds version and size
  ring,                  \* per file: the bytes between its indexes
  sequence,              \* per file: mSequenceNumber of the header
  sPc, sMapped,          \* the server process, and the files it has mapped
  mFirst, mSequenceNumber,
  cPc, cMapped,          \* the same of the client processes
  mHeader,               \* per client: the files whose mHeader is not null
  starts,                \* history: how often the server was started
  sent,                  \* history, per process: the bytes it sent
  got,                   \* history, per file: bytes read, and in which start
  counted,               \* history, per client: the start it was counted in
  early                  \* history: clients that came while a header was made

File == {"server", "client"}
Process == Client \cup {"server"}

fileVars == <<exists, views, valid>>
ringVars == <<ring, sequence>>
serverVars == <<sPc, sMapped, mFirst, mSequenceNumber>>
clientVars == <<cPc, cMapped, mHeader>>
history == <<starts, sent, got, counted, early>>
vars == <<fileVars, ringVars, serverVars, clientVars, history>>

Init ==
  /\ exists = [f \in File |-> FALSE] /\ views = [f \in File |-> {}]
  /\ valid = [f \in File |-> FALSE]
  /\ ring = [f \in File |-> <<>>] /\ sequence = [f \in File |-> 0]
  /\ sPc = "down" /\ sMapped = {} /\ mFirst = TRUE /\ mSequenceNumber = 0
  /\ cPc = [c \in Client |-> "down"] /\ cMapped = [c \in Client |-> {}]
  /\ mHeader = [c \in Client |-> {}]
  /\ starts = 0 /\ sent = [p \in Process |-> 0] /\ got = [f \in File |-> <<>>]
  /\ counted = [c \in Client |-> 0] /\ early = {}
-----------------------------------------------------------------------------
(* The server process.                                                     *)

StartServer ==
  /\ sPc = "down" /\ starts < MaxStarts
  /\ sPc' = "server file" /\ starts' = starts + 1
  /\ sMapped' = {} /\ mFirst' = TRUE /\ mSequenceNumber' = 0
  /\ sent' = [sent EXCEPT !["server"] = 0]
  /\ UNCHANGED <<fileVars, ringVars, clientVars, got, counted, early>>

\* A mutant: a file in view is made anew all the same.
MayCreate_Viewed(f) == TRUE

\* Whether CREATE_ALWAYS succeeds.
MayCreate(f) == views[f] = {}

\* The file is made anew and filled with zeros.
Zeroed(f) ==
  /\ valid' = [valid EXCEPT ![f] = FALSE]
  /\ ring' = [ring EXCEPT ![f] = <<>>]
  /\ sequence' = [sequence EXCEPT ![f] = 0]

\* createMemoryMap() of one file, and of the other whether it fails or not.  The
\* file is made, filled, opened again and mapped (MemoryMap.cpp:54-112) in one
\* step: who opens it while it is being filled finds no header in it that is
\* valid, just as after this step.
CreateFile(here, f, next) ==
  /\ sPc = here
  /\ IF MayCreate(f)
     THEN /\ exists' = [exists EXCEPT ![f] = TRUE]
          /\ views' = [views EXCEPT ![f] = @ \cup {"server"}]
          /\ sMapped' = sMapped \cup {f}
          /\ Zeroed(f)
     ELSE UNCHANGED <<fileVars, ringVars, sMapped>>
  /\ sPc' = next
  /\ UNCHANGED <<mFirst, mSequenceNumber, clientVars, history>>

\* isValid(): without both files there is no socket, and the process goes on.
CheckFiles ==
  /\ sPc = "check"
  /\ sPc' = IF sMapped = File THEN "write header" ELSE "no socket"
  /\ UNCHANGED <<fileVars, ringVars, sMapped, mFirst, mSequenceNumber, clientVars, history>>

\* init() of mWriter, in a file no client trusts yet.
InitWriter ==
  /\ sPc = "write header"
  /\ valid' = [valid EXCEPT !["server"] = TRUE]
  /\ ring' = [ring EXCEPT !["server"] = <<>>]
  /\ sequence' = [sequence EXCEPT !["server"] = 0]
  /\ sPc' = "read header"
  /\ UNCHANGED <<exists, views, sMapped, mFirst, mSequenceNumber, clientVars, history>>

\* init() of mReader: version and size, which a client may trust at once ...
InitReader ==
  /\ sPc = "read header"
  /\ valid' = [valid EXCEPT !["client"] = TRUE]
  /\ sPc' = "indexes"
  /\ UNCHANGED <<exists, views, ringVars, sMapped, mFirst, mSequenceNumber, clientVars, history>>

\* ... then the indexes ...
InitIndexes ==
  /\ sPc = "indexes"
  /\ ring' = [ring EXCEPT !["client"] = <<>>]
  /\ sPc' = "sequence"
  /\ UNCHANGED <<fileVars, sequence, sMapped, mFirst, mSequenceNumber, clientVars, history>>

\* ... then the sequence number.
InitSequence ==
  /\ sPc = "sequence"
  /\ sequence' = [sequence EXCEPT !["client"] = 0]
  /\ sPc' = "ready"
  /\ UNCHANGED <<fileVars, ring, sMapped, mFirst, mSequenceNumber, clientVars, history>>

\* A mutant: the number is not looked at.
Changed_Always == TRUE

Changed == sequence["client"] # mSequenceNumber

\* pollServer(): this object is the connection, once.
PollServer ==
  /\ sPc = "ready" /\ Changed /\ mFirst
  /\ mSequenceNumber' = sequence["client"]
  /\ mFirst' = FALSE
  /\ UNCHANGED <<fileVars, ringVars, sPc, sMapped, clientVars, history>>

\* The process ends, in any way; its views end with it.
StopServer ==
  /\ sPc # "down"
  /\ sPc' = "down"
  /\ views' = [f \in File |-> views[f] \ {"server"}]
  /\ UNCHANGED <<exists, valid, ringVars, sMapped, mFirst, mSequenceNumber, clientVars,
                 history>>
-----------------------------------------------------------------------------
(* A client process.                                                       *)

StartClient(c) ==
  /\ cPc[c] = "down" /\ \A d \in Client : cPc[d] \in {"down", "gone"}
  /\ cPc' = [cPc EXCEPT ![c] = "server file"]
  /\ UNCHANGED <<fileVars, ringVars, serverVars, cMapped, mHeader, history>>

\* createMemoryMap() of a file that must be there.
OpenFile(c, here, f, next) ==
  /\ cPc[c] = here
  /\ IF exists[f]
     THEN /\ views' = [views EXCEPT ![f] = @ \cup {c}]
          /\ cMapped' = [cMapped EXCEPT ![c] = @ \cup {f}]
     ELSE UNCHANGED <<views, cMapped>>
  /\ cPc' = [cPc EXCEPT ![c] = next]
  /\ UNCHANGED <<exists, valid, ringVars, serverVars, mHeader, history>>

\* The server may still clear what this client stores.
HeaderInTheMaking == sPc \in {"indexes", "sequence"}

\* init() of one ring; its result is ignored, a header that is not valid is
\* null from now on.
InitRing(c, here, f, next) ==
  /\ cPc[c] = here /\ cMapped[c] = File
  /\ mHeader' = [mHeader EXCEPT ![c] = IF valid[f] THEN @ \cup {f} ELSE @]
  /\ early' = IF HeaderInTheMaking THEN early \cup {c} ELSE early
  /\ cPc' = [cPc EXCEPT ![c] = next]
  /\ UNCHANGED <<fileVars, ringVars, serverVars, cMapped, starts, sent, got, counted>>

\* A mutant: the number of the ring that the client reads.
CountedRing_Reader == "server"

CountedRing == "client"

\* incrementSequenceNumber(): a header that is null counts nobody.
Count(c) ==
  /\ cPc[c] = "count"
  /\ IF CountedRing \in mHeader[c]
     THEN /\ sequence' = [sequence EXCEPT ![CountedRing] = @ + 1]
          /\ counted' = [counted EXCEPT ![c] = starts]
     ELSE UNCHANGED <<sequence, counted>>
  /\ cPc' = [cPc EXCEPT ![c] = "ready"]
  /\ UNCHANGED <<fileVars, ring, serverVars, cMapped, mHeader, starts, sent, got, early>>

\* The process ends; so it does when it uses a header that is null.
StopClient(c) ==
  /\ cPc[c] \notin {"down", "gone"}
  /\ cPc' = [cPc EXCEPT ![c] = "gone"]
  /\ views' = [f \in File |-> views[f] \ {c}]
  /\ UNCHANGED <<exists, valid, ringVars, serverVars, cMapped, mHeader, history>>
-----------------------------------------------------------------------------
(* send() and receive() of either side.                                    *)

\* p may write ring f, or read it; the server's application has the connection
\* once pollServer() returned it.
Writes(p, f) ==
  \/ p = "server" /\ f = "server" /\ sPc = "ready" /\ ~mFirst
  \/ p \in Client /\ f = "client" /\ cPc[p] = "ready" /\ f \in mHeader[p]

Reads(p, f) ==
  \/ p = "server" /\ f = "client" /\ sPc = "ready" /\ ~mFirst
  \/ p \in Client /\ f = "server" /\ cPc[p] = "ready" /\ f \in mHeader[p]

HasRoom(f) == Len(ring[f]) < Capacity

Send(p, f) ==
  /\ Writes(p, f)
  /\ HasRoom(f) /\ sent[p] < MaxBytes
  /\ ring' = [ring EXCEPT ![f] = Append(@, [by |-> p, n |-> sent[p] + 1, start |-> starts])]
  /\ sent' = [sent EXCEPT ![p] = @ + 1]
  /\ UNCHANGED <<fileVars, sequence, serverVars, clientVars, starts, got, counted, early>>

\* What a reader got, with the start it got it in.
Receipt(block) == [i \in DOMAIN block |-> [byte |-> block[i], in |-> starts]]

Receive(p, f) ==
  /\ Reads(p, f)
  /\ \E n \in 1 .. Len(ring[f]) :
       /\ got' = [got EXCEPT ![f] = @ \o Receipt(SubSeq(ring[f], 1, n))]
       /\ ring' = [ring EXCEPT ![f] = SubSeq(@, n + 1, Len(@))]
  /\ UNCHANGED <<fileVars, sequence, serverVars, clientVars, starts, sent, counted, early>>
-----------------------------------------------------------------------------
\* A bound: the server is started no more, and nobody is left.
Finished ==
  /\ sPc = "down" /\ starts = MaxStarts /\ \A c \in Client : cPc[c] = "gone"
  /\ UNCHANGED vars

Next ==
  \/ StartServer \/ CreateFile("server file", "server", "client file")
  \/ CreateFile("client file", "client", "check")
  \/ CheckFiles \/ InitWriter \/ InitReader \/ InitIndexes \/ InitSequence
  \/ PollServer \/ StopServer
  \/ \E c \in Client :
       \/ StartClient(c)
       \/ OpenFile(c, "server file", "server", "client file")
       \/ OpenFile(c, "client file", "client", "client header")
       \/ InitRing(c, "client header", "client", "server header")
       \/ InitRing(c, "server header", "server", "count")
       \/ Count(c) \/ StopClient(c)
  \/ \E p \in Process, f \in File : Send(p, f) \/ Receive(p, f)
  \/ Finished

\* A server that runs keeps asking pollServer().
Spec == Init /\ [][Next]_vars /\ WF_vars(PollServer)
-----------------------------------------------------------------------------
Running(p) == IF p = "server" THEN sPc = "ready" ELSE cPc[p] = "ready"

\* What was read from a ring and what waits in it, in the order it was sent in.
Held(f) == [i \in DOMAIN got[f] |-> got[f][i].byte] \o ring[f]

\* Where in it the bytes are that p sent since it was started.
Own(p, f) ==
  {i \in DOMAIN Held(f) : Held(f)[i].by = p /\ (p = "server" => Held(f)[i].start = starts)}

\* While a process runs, every byte its send() accepted was read once, in
\* order, or still waits, whatever the other process did, ended and was
\* started again: no start clears a ring in use (socketsharedmemory.cpp:30-36).
\* Not so for a client that came while its ring's header was made.
KeptWhileRunning ==
  \A p \in Process, f \in File :
    Running(p) /\ (p = "server" <=> f = "server") /\ p \notin early
      => /\ {Held(f)[i].n : i \in Own(p, f)} = 1 .. sent[p]
         /\ \A i, j \in Own(p, f) : i < j => Held(f)[i].n < Held(f)[j].n

\* A server is not given bytes of an earlier run: what it reads was sent by a
\* client that was counted in this one (socketsharedmemory.cpp:34-35, 97-108).
\* A client may be: it maps the files of a server that is gone.
ServerReadsThisRun ==
  \A i \in DOMAIN got["client"] :
    LET r == got["client"][i] IN counted[r.byte.by] = r.in

\* A connection is announced only when a client has counted itself in, in this
\* run of the server (socketsharedmemory.cpp:62-80).
FoundIsReal == sPc = "ready" /\ ~mFirst => \E c \in Client : counted[c] = starts

\* The first client of a run is found, unless it came while the header was made
\* ("If a new connection is found, then we return an instance of a Wsocket",
\* socketsharedmemory.cpp:59-60).
ClientIsFound ==
  \A c \in Client :
    (sPc = "ready" /\ cPc[c] = "ready" /\ "client" \in mHeader[c] /\ c \notin early)
      ~> (~mFirst \/ sPc # "ready" \/ cPc[c] # "ready")

\* Checked by no run, since it is false of a client that is `early':
\* "If we are a server, we poll for new connections.  If a new connection is
\* found, then we return an instance of a Wsocket with that connection"
\* (socketsharedmemory.cpp:59-60): so for every client whose rings are set up.
EveryClientIsFound ==
  \A c \in Client :
    (sPc = "ready" /\ cPc[c] = "ready" /\ mHeader[c] = File)
      ~> (~mFirst \/ sPc # "ready" \/ cPc[c] # "ready")
=============================================================================
