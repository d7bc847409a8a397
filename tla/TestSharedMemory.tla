-------------------------- MODULE TestSharedMemory --------------------------
(***************************************************************************)
(* The shared memory test of the client (TestSharedMemory.cpp): a thread   *)
(* writes strings, each followed by a line end, into the ring of SPSC.tla  *)
(* whenever capacity() says that the whole string has room, while the main *)
(* thread reads blocks of any size.  A string takes two calls of write().  *)
(***************************************************************************)
EXTENDS SPSC

CONSTANT Strings   \* lengths of gSampleStrings, which are not empty

VARIABLES
  call,       \* "none", or the write() that comes next or is running
  slen,       \* length of the string being written
  accepted    \* bytes of it, line end included, that write() has accepted

stringVars == <<call, slen, accepted>>
testVars == <<vars, stringVars>>

TestInit == Init /\ call = "none" /\ slen = 0 /\ accepted = 0
-----------------------------------------------------------------------------
\* writeString(): there is room for the string and its line end.
BeginString(n) ==
  /\ call = "none" /\ n + 2 <= StreamLength - sent
  /\ Room(Size) >= n + 2
  /\ call' = "text" /\ slen' = n /\ accepted' = 0
  /\ UNCHANGED vars

\* write(str, slen), then write("\r\n", 2).
BeginWrite ==
  /\ \/ call = "text" /\ WriteBegin(slen) /\ call' = "writing text"
     \/ call = "line end" /\ WriteBegin(2) /\ call' = "writing line end"
  /\ UNCHANGED <<slen, accepted>>

CopyByte == (\E k \in Cell : WriteCopy(k)) /\ UNCHANGED stringVars

EndWrite ==
  /\ WriteCommit
  /\ accepted' = accepted + wLen
  /\ call' = IF call = "writing text" THEN "line end" ELSE "none"
  /\ UNCHANGED slen

\* run(): the other thread reads.
ReadBlock == Reader /\ UNCHANGED stringVars

\* The stream's bound leaves no room for another string.
TestFinished ==
  /\ call = "none" /\ rpc = "idle" /\ Size = 0
  /\ \A n \in Strings : n + 2 > StreamLength - sent
  /\ UNCHANGED testVars

TestNext ==
  \/ \E n \in Strings : BeginString(n)
  \/ BeginWrite \/ CopyByte \/ EndWrite
  \/ ReadBlock
  \/ TestFinished

TestSpec == TestInit /\ [][TestNext]_testVars
-----------------------------------------------------------------------------
\* "Don't write the string unless we have room to write the *whole* thing"
\* (TestSharedMemory.cpp:66): a finished string has its line end.
StringIsWhole == call = "none" => accepted \in {0, slen + 2}
=============================================================================
