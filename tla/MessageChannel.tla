--------------------------- MODULE MessageChannel ---------------------------
(***************************************************************************)
(* What a WebSocket connection promises its two applications: each gives   *)
(* messages and is given those of the other, whole, once and in order, in  *)
(* calls of poll() from which a callback may answer or close at once; an   *)
(* end only moves on from CONNECTING to CLOSED, and takes messages as long *)
(* as it is not closing.                                                   *)
(***************************************************************************)
EXTENDS Integers, Sequences

CONSTANTS End, Peer(_), Message

VARIABLES
  state,      \* of each end
  accepted,   \* per end: messages its application gave
  received    \* per end: messages its application was given

channelVars == <<state, accepted, received>>

Rank == [CONNECTING |-> 0, OPEN |-> 1, CLOSING |-> 2, CLOSED |-> 3]

Init ==
  /\ state = [e \in End |-> "CONNECTING"]
  /\ accepted = [e \in End |-> <<>>]
  /\ received = [e \in End |-> <<>>]

Accept(e) ==
  /\ Rank[state[e]] < Rank["CLOSING"]
  /\ \E m \in Message : accepted' = [accepted EXCEPT ![e] = Append(@, m)]
  /\ UNCHANGED state

Advance(e) ==
  /\ \E s \in DOMAIN Rank :
       Rank[s] > Rank[state[e]] /\ state' = [state EXCEPT ![e] = s]
  /\ UNCHANGED accepted

\* The next message, also in the call of poll() that closed; what the callback
\* does is part of the step.
Deliver(e) ==
  /\ Len(received[e]) < Len(accepted[Peer(e)])
  /\ received' =
       [received EXCEPT ![e] = Append(@, accepted[Peer(e)][Len(@) + 1])]
  /\ Accept(e) \/ Advance(e) \/ UNCHANGED <<state, accepted>>

Next ==
  \E e \in End :
    \/ (Accept(e) \/ Advance(e)) /\ UNCHANGED received
    \/ Deliver(e)

Spec == Init /\ [][Next]_channelVars
=============================================================================
