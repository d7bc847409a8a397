---------------------------- MODULE MCChatServer ----------------------------
(***************************************************************************)
(* The values TLC checks ChatServer with: what is typed at the server,     *)
(* an empty line first.                                                    *)
(***************************************************************************)
EXTENDS ChatServer

MCScript == <<"", "bye">>
=============================================================================
