------------------------------ MODULE BeepishLink ------------------------------
(***************************************************************************)
(* A client connection and the server connection at its other end: the     *)
(* calls of ClientConnection, its reader and writer tasks, and the task of *)
(* ServerConnection, joined by the two directions of one byte stream.      *)
(* Instead of an arbitrary peer each end has the other.                    *)
(***************************************************************************)
EXTENDS ClientConnection

CONSTANT Replies   \* the lengths a handler's reply body may have

ASSUME LinkAssumption == Replies \subseteq Nat

VARIABLES
  \* the variables of ServerConnection
  server, srvAnswer, srvRequest, srvReply, srvIncoming, srvOutgoing,
  srvNextIn, srvNextOut, served

serverVars == <<server, srvAnswer, srvRequest, srvReply, srvIncoming,
                srvOutgoing, srvNextIn, srvNextOut, served>>
linkVars == <<vars, serverVars>>

\* The client's end of the stream is dropped with its last task.
clientGone == reader = "gone" /\ writer = "ended"

S == INSTANCE ServerConnection WITH
  answer <- srvAnswer, request <- srvRequest, reply <- srvReply,
  incoming <- srvIncoming, outgoing <- srvOutgoing,
  next_incoming_msg_no <- srvNextIn, next_outgoing_msg_no <- srvNextOut,
  serverClosed <- peerClosed, clientClosed <- clientGone,
  ClientPackets <- {}, MaxRequest <- 0, MaxServed <- 0

\* What a step of the server leaves alone at the client's end.
clientOnly == <<callVars, slot, countVars, pending, outgoing, closed, notifyVars,
                readerVars, writer, chan>>

LinkInit ==
  /\ Init
  /\ server = "reading"
  /\ srvAnswer = S!NoPacket /\ srvRequest = S!NoRequest /\ srvReply = S!NoReply
  /\ srvIncoming = EmptyMap /\ srvOutgoing = EmptyMap
  /\ srvNextIn = 0 /\ srvNextOut = 0
  /\ served = <<>>

LinkClientStep == ClientStep /\ UNCHANGED serverVars

LinkServerStep == UNCHANGED clientOnly /\ S!ServerStep

LinkNext == LinkClientStep \/ LinkServerStep

LinkSpec == LinkInit /\ [][LinkNext]_linkVars

\* Every task runs: those of the client as in ClientConnection, and the server's,
\* whose handlers return in the end.  The idle timeout is not forced.
LinkFairness ==
  /\ \A c \in Calls : SF_linkVars(CallStep(c) /\ UNCHANGED serverVars)
  /\ SF_linkVars(ReaderStep /\ UNCHANGED serverVars)
  /\ WF_linkVars(WriterStep /\ UNCHANGED serverVars)
  /\ WF_linkVars(LinkServerStep)

FairLink == LinkSpec /\ LinkFairness

-----------------------------------------------------------------------------
(* Properties.                                                             *)

\* The requests dispatched under an id.
ServedAs(i) == {k \in DOMAIN served : served[k].id = i}

\* A reply is the whole reply to the whole request: the server dispatched the
\* call's request once, with every byte of its body, and the call was handed
\* every byte of the reply, though the DATA of several requests, their replies
\* and the ACKs of both share the connection.
RepliesComplete ==
  \A c \in Calls : slot[c].kind = "reply" =>
    \E k \in DOMAIN served :
      /\ ServedAs(rid[c]) = {k}
      /\ served[k].received = len[c]
      /\ served[k].reply = slot[c].n

\* A request runs at most once, and never in part: also those whose caller has
\* given up.
RequestsRunWhole ==
  \A k \in DOMAIN served :
    \E c \in Calls : /\ rid[c] = served[k].id
                     /\ served[k].received = len[c]
                     /\ ServedAs(rid[c]) = {k}

\* The bytes of the request of call c that the server has counted: none before
\* its HEADER is read, all once it is dispatched.
Counted(c) ==
  IF mno[c] \in DOMAIN srvIncoming THEN srvIncoming[mno[c]].received
  ELSE IF mno[c] >= srvNextIn THEN 0 ELSE len[c]

\* Flow control as the receiver sees it: the ACKs never run ahead of what the
\* server has read, so less than Watermark + Chunk bytes of a request are
\* buffered between the two ends.
BacklogBounded ==
  ~peerClosed => \A c \in Calls : pc[c] \in Tracked =>
    Handed(c) - Counted(c) < Watermark + Chunk

\* The answer to call c is on its way: the end of its request has not reached
\* the server, or the server is at work on it, or the end of its reply has not
\* reached the reader.
UnderWay(c) ==
  \/ \E i \in DOMAIN Stream : Stream[i] = Eof(mno[c])
  \/ server \in {"checking", "handling"} /\ srvRequest.id = rid[c]
  \/ server \in {"header", "data", "eof"} /\ srvReply.id = rid[c]
  \/ \E i \in DOMAIN s2c, k \in ServedAs(rid[c]) : s2c[i] = Eof(k - 1)

\* No call waits for nothing.  Each end drops what it cannot place (a HEADER out
\* of sequence, DATA or EOF of a message it does not know): as long as both ends
\* are up, none of that is ever part of a request or of a reply somebody waits
\* for.
WaitersUnderWay ==
  (~peerClosed /\ writer = "running" /\ reader \in {"reading", "answering"}) =>
    \A c \in Calls : (pc[c] = "await" /\ slot[c] = NoResponse) => UnderWay(c)

-----------------------------------------------------------------------------
(* What the repository says of this code and the code does not do.         *)

\* connection_tests.rs:76, "Server that accepts but never responds" and then
\* "timed out": a call ends, if not by a reply then by its time-out.
CallsEndOrLinkDoes == \A c \in Calls : (pc[c] = "id") ~> (pc[c] = "done" \/ peerClosed)
=============================================================================
