-------------------------- MODULE MCServerConnection --------------------------
(***************************************************************************)
(* Clients for model checking ServerConnection.                            *)
(***************************************************************************)
EXTENDS ServerConnection

\* A client that runs two requests at once, repeats packets, acknowledges what
\* it was not sent, aborts a request, pings and breaks the framing.
UnrulyClient ==
  {Header(0, 1), Header(1, 2), Data(0, 1), Data(1, 1), Eof(0), Eof(1),
   Txerr(1, 1), Txerr(0, 0), Ack(0, 1), Ping(7), Pong(7), Bad}
=============================================================================
