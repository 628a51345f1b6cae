--------------------------- MODULE ServerConnection ---------------------------
(***************************************************************************)
(* One server connection: handle_connection of                             *)
(* service/server_connection.rs and send_reply of service/server_reply.rs. *)
(*                                                                         *)
(* A single task reads a packet, routes it to the end, and only then reads *)
(* the next: the ticket check, the handler and the whole reply run between *)
(* two reads.  There is one step per await; the writer's lock has no other *)
(* taker.  `served` is a history variable: the requests dispatched so far. *)
(*                                                                         *)
(* The client is not assumed to follow the protocol; BeepishLink replaces  *)
(* it by ClientConnection.                                                 *)
(*                                                                         *)
(* A definition named ...Mutant is the definition after it with a bug; it  *)
(* is used by no other, and shows which property notices.                  *)
(***************************************************************************)
EXTENDS Integers, Sequences, FiniteSets, HashMap, BeepishPacket

CONSTANTS
  Chunk,          \* DATA_CHUNK_SIZE
  PipeCap,        \* packets a direction of the byte stream can hold
  Replies,        \* the lengths a handler's reply body may have
  ClientPackets,  \* what the client may send
  MaxRequest,     \* bound on the bytes of one request
  MaxServed       \* bound on the requests of a connection

ASSUME ServerAssumption ==
  /\ Chunk \in Nat \ {0} /\ PipeCap \in Nat \ {0}
  /\ Replies \subseteq Nat /\ MaxRequest \in Nat /\ MaxServed \in Nat
  /\ ClientPackets \subseteq Packet

VARIABLES
  server,    \* where the task is
  answer,    \* the ACK or PONG it is writing
  request,   \* the request it is dispatching
  reply,     \* the reply it is writing
  incoming, outgoing, next_incoming_msg_no, next_outgoing_msg_no,
  served,
  c2s, s2c, serverClosed, clientClosed

taskVars  == <<answer, request, reply>>
tableVars == <<incoming, outgoing, next_incoming_msg_no, next_outgoing_msg_no>>
wireVars  == <<c2s, s2c, serverClosed, clientClosed>>
vars == <<server, taskVars, tableVars, served, wireVars>>

NoPacket  == [type |-> "PONG", msgno |-> 0, id |-> 0, n |-> 0]
NoRequest == [id |-> 0, received |-> 0]
NoReply   == [msgno |-> 0, id |-> 0, len |-> 0, offset |-> 0]

Places == {"reading", "answering", "checking", "handling",
           "header", "data", "eof", "ended"}

Init ==
  /\ server = "reading"
  /\ answer = NoPacket /\ request = NoRequest /\ reply = NoReply
  /\ incoming = EmptyMap /\ outgoing = EmptyMap
  /\ next_incoming_msg_no = 0 /\ next_outgoing_msg_no = 0
  /\ served = <<>>
  /\ c2s = <<>> /\ s2c = <<>>
  /\ serverClosed = FALSE /\ clientClosed = FALSE

-----------------------------------------------------------------------------
(* Reading and routing.                                                    *)

\* The task returns: both halves of the stream are dropped.
End ==
  /\ server' = "ended"
  /\ serverClosed' = TRUE
  /\ c2s' = <<>>
  /\ UNCHANGED <<taskVars, tableVars, served, s2c, clientClosed>>

\* The task has parsed a packet p of type t.
Reads(p, t) ==
  /\ server = "reading"
  /\ c2s # <<>>
  /\ p = Head(c2s)
  /\ p.type = t

\* A packet is consumed and the task goes on at a place of its own.
Consumes(place) ==
  /\ c2s' = Tail(c2s)
  /\ server' = place
  /\ UNCHANGED <<s2c, serverClosed, clientClosed>>

\* An out-of-sequence HEADER is fatal.
RouteHeader(p) ==
  /\ Reads(p, "HEADER")
  /\ p.msgno = next_incoming_msg_no
  /\ next_incoming_msg_no' = next_incoming_msg_no + 1
  /\ incoming' = Insert(incoming, p.msgno, [id |-> p.id, received |-> 0])
  /\ Consumes("reading")
  /\ UNCHANGED <<taskVars, outgoing, next_outgoing_msg_no, served>>

RejectHeader(p) ==
  /\ Reads(p, "HEADER")
  /\ p.msgno # next_incoming_msg_no
  /\ End

\* The bytes go to whatever request came last.
RouteDataMutant(p) ==
  /\ Reads(p, "DATA")
  /\ p.msgno \in DOMAIN incoming
  /\ LET m == next_incoming_msg_no - 1
         k == IF m \in DOMAIN incoming THEN m ELSE p.msgno
         total == incoming[k].received + p.n
     IN  /\ incoming' = [incoming EXCEPT ![k].received = total]
         /\ answer' = Ack(p.msgno, total)
  /\ Consumes("answering")
  /\ UNCHANGED <<request, reply, outgoing, next_incoming_msg_no,
                 next_outgoing_msg_no, served>>

RouteData(p) ==
  /\ Reads(p, "DATA")
  /\ p.msgno \in DOMAIN incoming
  /\ LET total == incoming[p.msgno].received + p.n IN
       /\ incoming' = [incoming EXCEPT ![p.msgno].received = total]
       /\ answer' = Ack(p.msgno, total)
  /\ Consumes("answering")
  /\ UNCHANGED <<request, reply, outgoing, next_incoming_msg_no,
                 next_outgoing_msg_no, served>>

\* The request is dispatched and stays in the table.
RouteEofMutant(p) ==
  /\ Reads(p, "EOF")
  /\ p.n = 0 /\ p.msgno \in DOMAIN incoming
  /\ request' = incoming[p.msgno]
  /\ Consumes("checking")
  /\ UNCHANGED <<answer, reply, tableVars, served>>

RouteEof(p) ==
  /\ Reads(p, "EOF")
  /\ p.n = 0 /\ p.msgno \in DOMAIN incoming
  /\ incoming' = Without(incoming, p.msgno)
  /\ request' = incoming[p.msgno]
  /\ Consumes("checking")
  /\ UNCHANGED <<answer, reply, outgoing, next_incoming_msg_no,
                 next_outgoing_msg_no, served>>

RouteTxerr(p) ==
  /\ Reads(p, "TXERR")
  /\ p.n > 0
  /\ incoming' = Without(incoming, p.msgno)
  /\ Consumes("reading")
  /\ UNCHANGED <<taskVars, outgoing, next_incoming_msg_no,
                 next_outgoing_msg_no, served>>

RouteAck(p) ==
  /\ Reads(p, "ACK")
  /\ p.n > 0 /\ p.msgno \in DOMAIN outgoing
  /\ p.n > outgoing[p.msgno].acknowledged
  /\ p.n <= outgoing[p.msgno].sent
  /\ outgoing' = [outgoing EXCEPT ![p.msgno].acknowledged = p.n]
  /\ Consumes("reading")
  /\ UNCHANGED <<taskVars, incoming, next_incoming_msg_no,
                 next_outgoing_msg_no, served>>

RoutePing(p) ==
  /\ Reads(p, "PING")
  /\ answer' = Pong(p.msgno)
  /\ Consumes("answering")
  /\ UNCHANGED <<request, reply, tableVars, served>>

\* A packet that is logged and dropped: PONG, or one that fits no request.
Ignores(p) ==
  /\ \/ Reads(p, "PONG")
     \/ Reads(p, "DATA") /\ p.msgno \notin DOMAIN incoming
     \/ Reads(p, "EOF") /\ ~(p.n = 0 /\ p.msgno \in DOMAIN incoming)
     \/ Reads(p, "TXERR") /\ p.n = 0
     \/ /\ Reads(p, "ACK")
        /\ p.msgno \in DOMAIN outgoing =>
             p.n <= outgoing[p.msgno].acknowledged \/ p.n > outgoing[p.msgno].sent
  /\ Consumes("reading")
  /\ UNCHANGED <<taskVars, tableVars, served>>

\* ParseResult::Fatal, or more buffered than a packet may have.
RouteBad(p) == Reads(p, "BAD") /\ End

Route ==
  /\ server = "reading" /\ c2s # <<>>
  /\ LET p == Head(c2s) IN
       \/ RouteHeader(p) \/ RejectHeader(p) \/ RouteData(p) \/ RouteEof(p)
       \/ RouteTxerr(p) \/ RouteAck(p) \/ RoutePing(p) \/ RouteBad(p)
       \/ Ignores(p)

\* End of stream, or a read error.
ReadEnds == server = "reading" /\ clientClosed /\ End

is_busy == incoming # EmptyMap \/ outgoing # EmptyMap

\* 120 s without a byte, unless a request or a reply is in progress.
IdleTimeout == server = "reading" /\ ~is_busy /\ End

-----------------------------------------------------------------------------
(* Writing.                                                                *)

\* The packet is written, or waits for room in the stream.
Writes(p) ==
  /\ Len(s2c) < PipeCap
  /\ s2c' = Append(s2c, p)
  /\ UNCHANGED <<c2s, serverClosed, clientClosed>>

Answer ==
  /\ server = "answering"
  /\ Writes(answer)
  /\ server' = "reading"
  /\ UNCHANGED <<taskVars, tableVars, served>>

\* A failed ACK or PONG ends the connection.
AnswerFails == server = "answering" /\ clientClosed /\ End

\* The reply goes out under the number of the latest request.
BeginReplyMutant(n) ==
  LET m == next_incoming_msg_no - 1 IN
  /\ reply' = [msgno |-> m, id |-> request.id, len |-> n, offset |-> 0]
  /\ next_outgoing_msg_no' = next_outgoing_msg_no + 1
  /\ outgoing' = Insert(outgoing, m, [sent |-> 0, acknowledged |-> 0])
  /\ served' = Append(served, [id |-> request.id, received |-> request.received, reply |-> n])
  /\ server' = "header"
  /\ UNCHANGED <<answer, request, incoming, next_incoming_msg_no, wireVars>>

\* send_reply up to its first await.
BeginReply(n) ==
  /\ reply' = [msgno |-> next_outgoing_msg_no, id |-> request.id, len |-> n, offset |-> 0]
  /\ next_outgoing_msg_no' = next_outgoing_msg_no + 1
  /\ outgoing' = Insert(outgoing, next_outgoing_msg_no, [sent |-> 0, acknowledged |-> 0])
  /\ served' = Append(served, [id |-> request.id, received |-> request.received, reply |-> n])
  /\ server' = "header"
  /\ UNCHANGED <<answer, request, incoming, next_incoming_msg_no, wireVars>>

\* No ticket, no privilege, or no such action: an error reply, which is empty.
Refuse == server = "checking" /\ BeginReply(0)

\* The ticket is good, or none is needed, and there is a handler.
Admit ==
  /\ server = "checking"
  /\ server' = "handling"
  /\ UNCHANGED <<taskVars, tableVars, served, wireVars>>

HandlerReturns == server = "handling" /\ \E n \in Replies : BeginReply(n)

\* A panic of the handler ends the task.
HandlerPanics == server = "handling" /\ End

\* A reply whose bytes are all written goes on with empty DATA packets.
NextDataOrEofMutant(offset) == IF offset <= reply.len THEN "data" ELSE "eof"

NextDataOrEof(offset) == IF offset < reply.len THEN "data" ELSE "eof"

WriteHeader ==
  /\ server = "header"
  /\ Writes(Header(reply.msgno, reply.id))
  /\ server' = NextDataOrEof(0)
  /\ UNCHANGED <<taskVars, tableVars, served>>

\* The last chunk is measured from the wrong end of the body.
DataLenMutant == IF reply.len - reply.offset < Chunk THEN reply.len - Chunk ELSE Chunk

\* The number of bytes of the next DATA packet of the reply.
DataLen == IF reply.len - reply.offset < Chunk THEN reply.len - reply.offset ELSE Chunk

\* A short last chunk is left out.
WriteDataMutant ==
  /\ server = "data"
  /\ Writes(Data(reply.msgno, DataLen))
  /\ outgoing' = [outgoing EXCEPT ![reply.msgno].sent = @ + DataLen]
  /\ reply' = [reply EXCEPT !.offset = @ + DataLen]
  /\ server' = IF reply.offset + DataLen + Chunk <= reply.len THEN "data" ELSE "eof"
  /\ UNCHANGED <<answer, request, incoming, next_incoming_msg_no,
                 next_outgoing_msg_no, served>>

WriteData ==
  /\ server = "data"
  /\ Writes(Data(reply.msgno, DataLen))
  /\ outgoing' = [outgoing EXCEPT ![reply.msgno].sent = @ + DataLen]
  /\ reply' = [reply EXCEPT !.offset = @ + DataLen]
  /\ server' = NextDataOrEof(reply.offset + DataLen)
  /\ UNCHANGED <<answer, request, incoming, next_incoming_msg_no,
                 next_outgoing_msg_no, served>>

FinishReply ==
  /\ server' = "reading"
  /\ outgoing' = Without(outgoing, reply.msgno)
  /\ UNCHANGED <<taskVars, incoming, next_incoming_msg_no, next_outgoing_msg_no, served>>

WriteEof == server = "eof" /\ Writes(Eof(reply.msgno)) /\ FinishReply

\* A failed write leaves its reply behind.
ReplyFailsMutant ==
  /\ server \in {"header", "data", "eof"}
  /\ clientClosed
  /\ server' = "reading"
  /\ UNCHANGED <<taskVars, tableVars, served, wireVars>>

\* A failed write ends the reply, not the connection.
ReplyFails ==
  /\ server \in {"header", "data", "eof"}
  /\ clientClosed
  /\ FinishReply
  /\ UNCHANGED wireVars

ServerStep ==
  \/ Route \/ ReadEnds \/ IdleTimeout \/ Answer \/ AnswerFails
  \/ Refuse \/ Admit \/ HandlerReturns \/ HandlerPanics
  \/ WriteHeader \/ WriteData \/ WriteEof \/ ReplyFails

-----------------------------------------------------------------------------
(* The client.                                                             *)

ClientSends ==
  /\ ~clientClosed /\ ~serverClosed
  /\ Len(c2s) < PipeCap
  /\ \E p \in ClientPackets :
       /\ (p.type = "DATA" /\ p.msgno \in DOMAIN incoming)
            => incoming[p.msgno].received + p.n <= MaxRequest
       /\ p.type = "HEADER" => next_incoming_msg_no < MaxServed
       /\ c2s' = Append(c2s, p)
  /\ UNCHANGED <<server, taskVars, tableVars, served, s2c, serverClosed, clientClosed>>

ClientReads ==
  /\ ~clientClosed /\ s2c # <<>>
  /\ s2c' = Tail(s2c)
  /\ UNCHANGED <<server, taskVars, tableVars, served, c2s, serverClosed, clientClosed>>

ClientCloses ==
  /\ ~clientClosed
  /\ clientClosed' = TRUE
  /\ s2c' = <<>>
  /\ UNCHANGED <<server, taskVars, tableVars, served, c2s, serverClosed>>

Next == ServerStep \/ ClientSends \/ ClientReads \/ ClientCloses

Spec == Init /\ [][Next]_vars

\* The task runs, a handler returns in the end, and the client reads what it is
\* sent until it closes.
Fairness == WF_vars(ServerStep) /\ WF_vars(ClientReads)

FairSpec == Spec /\ Fairness

-----------------------------------------------------------------------------
(* Properties.                                                             *)

\* The type of every variable, in all reachable states.
TaskTypes ==
  /\ server \in Places
  /\ answer \in Packet
  /\ request \in [id: Nat, received: Nat]
  /\ reply \in [msgno: Nat, id: Nat, len: Nat, offset: Nat]
  /\ served \in Seq([id: Nat, received: Nat, reply: Nat])
TableTypes ==
  /\ IsMap(incoming) /\ DOMAIN incoming \subseteq Nat
  /\ \A m \in DOMAIN incoming : incoming[m] \in [id: Nat, received: Nat]
  /\ IsMap(outgoing) /\ DOMAIN outgoing \subseteq Nat
  /\ \A m \in DOMAIN outgoing : outgoing[m] \in [sent: Nat, acknowledged: Nat]
  /\ next_incoming_msg_no \in Nat /\ next_outgoing_msg_no \in Nat
StreamTypes == c2s \in Seq(Packet) /\ s2c \in Seq(Packet)
FlagTypes == serverClosed \in BOOLEAN /\ clientClosed \in BOOLEAN
TypeOK == TaskTypes /\ TableTypes /\ StreamTypes /\ FlagTypes

\* Replies reach the stream whole and in turn: the reply number k answers the
\* k-th request dispatched, and between its HEADER and its EOF nothing else is
\* written, no ACK, no PONG and no other reply.
RepliesInTurn ==
  ~clientClosed => \A i \in DOMAIN s2c :
    /\ s2c[i].type \in {"HEADER", "DATA", "EOF"} => s2c[i].msgno < Len(served)
    /\ s2c[i].type = "HEADER" => s2c[i].id = served[s2c[i].msgno + 1].id
    /\ (s2c[i].type \in {"HEADER", "DATA"} /\ i < Len(s2c)) =>
         s2c[i + 1].type \in {"DATA", "EOF"} /\ s2c[i + 1].msgno = s2c[i].msgno
    /\ (s2c[i].type \in {"ACK", "PONG", "EOF"} /\ i < Len(s2c)) =>
         s2c[i + 1].type \in {"ACK", "PONG", "HEADER"}

\* No reply stays behind in outgoing, where it would keep the connection busy
\* and its idle timeout off for good: the table holds the reply being written.
RepliesReleased ==
  DOMAIN outgoing = IF server \in {"header", "data", "eof"} THEN {reply.msgno} ELSE {}

\* A message number is dispatched once, even if the client repeats its packets:
\* those dispatched and those still coming in are different ones.
DispatchedOnce ==
  Len(served) + (IF server \in {"checking", "handling"} THEN 1 ELSE 0)
    + Cardinality(DOMAIN incoming) <= next_incoming_msg_no

\* A complete request is done with, one way or another, as long as the client
\* reads or closes.
RequestsFinish == (server = "checking") ~> (server \in {"reading", "ended"})
=============================================================================
