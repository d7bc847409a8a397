------------------------------ MODULE InputLine ------------------------------
(***************************************************************************)
(* inputline::InputLineImpl (InputLine.cpp): a thread waits for a line of  *)
(* the console and leaves it in mInputBuffer; the application asks for it  *)
(* in its loop.  Nothing but mHaveNewData says whose turn the buffer is:   *)
(* the mutex is taken by one side only.                                    *)
(***************************************************************************)
EXTENDS Sequences, Naturals

\* What the calls of fgets() return, without the newline that ends it: the lines
\* a user types, each in pieces if it has MAX_INPUT characters or more.
CONSTANT Script

\* mInputBuffer without a line; no line is it, for it holds a newline.
Blank == "\n"

ASSUME ScriptAssumption ==
  Script \in Seq(STRING) /\ \A i \in DOMAIN Script : Script[i] # Blank

VARIABLES
  mInputBuffer,   \* what fgets() left, Blank while it is being filled
  mHaveNewData,
  worker,         \* the thread: "check", "read", "gone"
  copied,         \* what strcpy() got into mResultBuffer, while in the call
  typed,          \* history: how many lines fgets() returned
  taken           \* history: the lines getInputLine() returned

inputVars == <<mInputBuffer, mHaveNewData, worker, copied, typed, taken>>

InputInit ==
  /\ mInputBuffer = Blank /\ copied = Blank
  /\ mHaveNewData = FALSE
  /\ worker = "check"
  /\ typed = 0 /\ taken = <<>>
-----------------------------------------------------------------------------
\* A mutant: a new line is begun whether the last one was taken or not.
CheckFlag_Always ==
  /\ worker = "check"
  /\ mInputBuffer' = Blank /\ worker' = "read"
  /\ UNCHANGED <<mHaveNewData, copied, typed, taken>>

\* The thread begins a line when the last one was taken; else it sleeps.
CheckFlag ==
  /\ worker = "check" /\ ~mHaveNewData
  /\ mInputBuffer' = Blank /\ worker' = "read"
  /\ UNCHANGED <<mHaveNewData, copied, typed, taken>>

\* fgets() returns a line, which is then announced; until it is, nobody looks
\* at the buffer.  At the end of the input fgets() fails again and again.
Fgets ==
  /\ worker = "read" /\ typed < Len(Script)
  /\ typed' = typed + 1 /\ mInputBuffer' = Script[typed']
  /\ mHaveNewData' = TRUE /\ worker' = "check"
  /\ UNCHANGED <<copied, taken>>
-----------------------------------------------------------------------------
(* getInputLine(), called by the application's thread.                     *)

NoLine == ~mHaveNewData /\ UNCHANGED inputVars

\* The flag is set: the line is copied out.
CopyLine ==
  /\ mHaveNewData
  /\ copied' = mInputBuffer
  /\ UNCHANGED <<mInputBuffer, mHaveNewData, worker, typed, taken>>

\* The line is what the call returns; the buffer is the thread's again.
TakeLine ==
  /\ taken' = Append(taken, copied)
  /\ copied' = Blank /\ mHaveNewData' = FALSE
  /\ UNCHANGED <<mInputBuffer, worker, typed>>

\* The destructor: the thread is told to end, and detached.
ReleaseInput ==
  /\ worker' = "gone"
  /\ UNCHANGED <<mInputBuffer, mHaveNewData, copied, typed, taken>>
-----------------------------------------------------------------------------
\* The application gets the lines of the console as they were typed, each of
\* them once, whole and in order (InputLine.cpp:23-39, 53-71).
LinesInOrder ==
  /\ Len(taken) <= typed
  /\ taken = SubSeq(Script, 1, Len(taken))
=============================================================================
