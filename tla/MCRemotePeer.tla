---------------------------- MODULE MCRemotePeer ----------------------------
(* Values of RemotePeer's constants for model checking.                    *)
EXTENDS RemotePeer

\* A server that answers in the six lines the client counts, in the five that
\* RFC 6455 asks for, or refuses, or sends a header line too long for the client.
AllAnswers ==
  { Response,
    << Line("101"), Line("Upgrade"), Line("Connection"), Line("Sec-WebSocket-Accept"),
       Line(EmptyLine) >>,
    << Line("404"), Line(EmptyLine) >>,
    << Line("101"), Line(TooLong) >> }
=============================================================================
