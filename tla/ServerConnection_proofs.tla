------------------------ MODULE ServerConnection_proofs ------------------------
(***************************************************************************)
(* Theorems about one server connection, for any chunk size, any replies,  *)
(* any capacity of the stream and any client.                              *)
(***************************************************************************)
EXTENDS ServerConnection, DataTheorems, FiniteSetTheorems, TLAPS

USE ServerAssumption DEF taskVars, tableVars, wireVars, vars

-----------------------------------------------------------------------------
(* Facts about the operators.                                              *)

\* Every packet the code builds is a packet.
LEMMA PacketTypes ==
  ASSUME NEW m \in Nat, NEW k \in Nat
  PROVE  /\ Header(m, k) \in Packet /\ Data(m, k) \in Packet
         /\ Eof(m) \in Packet /\ Ack(m, k) \in Packet /\ Pong(m) \in Packet
         /\ NoPacket \in Packet
  BY DEF Header, Data, Eof, Ack, Pong, NoPacket, Packet, PacketType

\* A queue stays a queue when its head is taken or something is added.
LEMMA QueueFacts ==
  ASSUME NEW S, NEW q \in Seq(S)
  PROVE  /\ q # <<>> => Head(q) \in S /\ Tail(q) \in Seq(S)
         /\ \A e \in S : Append(q, e) \in Seq(S)
         /\ <<>> \in Seq(S)
  OBVIOUS

-----------------------------------------------------------------------------
(* Type correctness.                                                       *)

\* The types of the tables of messages and of everything but the flags.
DataTypes == TaskTypes /\ TableTypes /\ StreamTypes

\* The step of reading and routing one packet keeps the types.
LEMMA RouteKeepsTypes ==
  ASSUME DataTypes, Route
  PROVE  DataTypes'
<1> DEFINE p == Head(c2s)
<1> USE DEF DataTypes, TaskTypes, TableTypes, StreamTypes
<1>1. c2s # <<>> /\ p \in Packet /\ Tail(c2s) \in Seq(Packet) /\ <<>> \in Seq(Packet)
  BY QueueFacts DEF Route
<1>2. p.msgno \in Nat /\ p.id \in Nat /\ p.n \in Nat
  BY <1>1 DEF Packet
<1> HIDE DEF p
<1>3. CASE RouteHeader(p)
  <2> DEFINE entry == [id |-> p.id, received |-> 0]
  <2>1. incoming' = Insert(incoming, p.msgno, entry)
    BY <1>3 DEF RouteHeader
  <2>2. /\ IsMap(incoming') /\ DOMAIN incoming' = DOMAIN incoming \cup {p.msgno}
        /\ incoming'[p.msgno] = entry
        /\ \A k \in DOMAIN incoming : k # p.msgno => incoming'[k] = incoming[k]
    BY <2>1 DEF Insert, IsMap
  <2>3. /\ \A m \in DOMAIN incoming' : incoming'[m] \in [id: Nat, received: Nat]
        /\ DOMAIN incoming' \subseteq Nat
    <3>1. entry \in [id: Nat, received: Nat]
      BY <1>2
    <3>2. /\ DOMAIN incoming \subseteq Nat
          /\ \A m \in DOMAIN incoming : incoming[m] \in [id: Nat, received: Nat]
      OBVIOUS
    <3> HIDE DEF entry, DataTypes
    <3> QED BY <1>2, <2>2, <3>1, <3>2
  <2> HIDE DEF entry
  <2>4. TableTypes'
    <3>1. /\ next_incoming_msg_no' = next_incoming_msg_no + 1
          /\ UNCHANGED <<outgoing, next_outgoing_msg_no>>
      BY <1>3 DEF RouteHeader
    <3> QED BY <2>2, <2>3, <3>1
  <2>5. TaskTypes'
    BY <1>3 DEF RouteHeader, Consumes, Places
  <2>6. StreamTypes'
    BY <1>1, <1>3 DEF RouteHeader, Consumes
  <2> QED BY <2>4, <2>5, <2>6
<1>4. CASE RejectHeader(p)
  BY <1>1, <1>4 DEF RejectHeader, End, Places
<1>5. CASE RouteData(p)
  <2> DEFINE total == incoming[p.msgno].received + p.n
             entry == [incoming[p.msgno] EXCEPT !.received = total]
  <2>0. p.msgno \in DOMAIN incoming /\ incoming[p.msgno] \in [id: Nat, received: Nat]
    BY <1>5 DEF RouteData
  <2>1. p.msgno \in DOMAIN incoming /\ total \in Nat /\ entry \in [id: Nat, received: Nat]
    <3> HIDE DEF DataTypes
    <3>1. total \in Nat
      BY <1>2, <2>0
    <3> HIDE DEF total
    <3> QED BY <2>0, <3>1
  <2>2. incoming' = [incoming EXCEPT ![p.msgno] = entry]
    BY <1>5 DEF RouteData
  <2>3. /\ IsMap(incoming') /\ DOMAIN incoming' = DOMAIN incoming
        /\ \A k \in DOMAIN incoming :
             incoming'[k] = IF k = p.msgno THEN entry ELSE incoming[k]
    <3> HIDE DEF entry
    <3> QED BY <2>2, UpdateFacts
  <2>4. answer' \in Packet
    BY <1>2, <1>5, <2>1, PacketTypes DEF RouteData
  <2> HIDE DEF entry, total
  <2> QED BY <1>1, <1>5, <2>1, <2>3, <2>4 DEF RouteData, Consumes, Places
<1>6. CASE RouteEof(p)
  <2>1. /\ IsMap(incoming') /\ DOMAIN incoming' = DOMAIN incoming \ {p.msgno}
        /\ \A k \in DOMAIN incoming' : incoming'[k] = incoming[k]
    <3>1. incoming' = Without(incoming, p.msgno)
      BY <1>6 DEF RouteEof
    <3> HIDE DEF DataTypes
    <3> QED BY <3>1, WithoutFacts
  <2> QED BY <1>1, <1>6, <2>1 DEF RouteEof, Consumes, Places
<1>7. CASE RouteTxerr(p)
  <2>1. /\ IsMap(incoming') /\ DOMAIN incoming' = DOMAIN incoming \ {p.msgno}
        /\ \A k \in DOMAIN incoming' : incoming'[k] = incoming[k]
    <3>1. incoming' = Without(incoming, p.msgno)
      BY <1>7 DEF RouteTxerr
    <3> HIDE DEF DataTypes
    <3> QED BY <3>1, WithoutFacts
  <2>2. TableTypes'
    <3>1. UNCHANGED <<outgoing, next_incoming_msg_no, next_outgoing_msg_no>>
      BY <1>7 DEF RouteTxerr
    <3> QED BY <2>1, <3>1
  <2>3. TaskTypes'
    <3>1. server' = "reading" /\ UNCHANGED <<answer, request, reply, served>>
      BY <1>7 DEF RouteTxerr, Consumes
    <3> QED BY <3>1 DEF Places
  <2>4. StreamTypes'
    BY <1>1, <1>7 DEF RouteTxerr, Consumes
  <2> QED BY <2>2, <2>3, <2>4
<1>8. CASE RouteAck(p)
  <2> DEFINE entry == [outgoing[p.msgno] EXCEPT !.acknowledged = p.n]
  <2>1. p.msgno \in DOMAIN outgoing /\ entry \in [sent: Nat, acknowledged: Nat]
    BY <1>2, <1>8 DEF RouteAck
  <2>2. outgoing' = [outgoing EXCEPT ![p.msgno] = entry]
    BY <1>8 DEF RouteAck
  <2>3. /\ IsMap(outgoing') /\ DOMAIN outgoing' = DOMAIN outgoing
        /\ \A k \in DOMAIN outgoing :
             outgoing'[k] = IF k = p.msgno THEN entry ELSE outgoing[k]
    <3> HIDE DEF entry
    <3> QED BY <2>2, UpdateFacts
  <2> HIDE DEF entry
  <2> QED BY <1>1, <1>8, <2>1, <2>3 DEF RouteAck, Consumes, Places
<1>9. CASE RoutePing(p)
  BY <1>1, <1>2, <1>9, PacketTypes DEF RoutePing, Consumes, Places
<1>10. CASE RouteBad(p)
  BY <1>1, <1>10 DEF RouteBad, End, Places
<1>11. CASE Ignores(p)
  BY <1>1, <1>11 DEF Ignores, Consumes, Places
<1> QED BY <1>3, <1>4, <1>5, <1>6, <1>7, <1>8, <1>9, <1>10, <1>11 DEF Route, p

\* So does beginning a reply.
LEMMA BeginReplyKeepsTypes ==
  ASSUME DataTypes, NEW n \in Nat, BeginReply(n)
  PROVE  DataTypes'
<1> DEFINE entry == [sent |-> 0, acknowledged |-> 0]
<1> USE DEF DataTypes, TaskTypes, TableTypes, StreamTypes
<1>1. /\ IsMap(outgoing') /\ DOMAIN outgoing' = DOMAIN outgoing \cup {next_outgoing_msg_no}
      /\ outgoing'[next_outgoing_msg_no] = entry
      /\ \A k \in DOMAIN outgoing : k # next_outgoing_msg_no => outgoing'[k] = outgoing[k]
  BY DEF BeginReply, Insert, IsMap
<1>2. /\ DOMAIN outgoing' \subseteq Nat
      /\ \A m \in DOMAIN outgoing' : outgoing'[m] \in [sent: Nat, acknowledged: Nat]
  BY <1>1
<1>3. served' \in Seq([id: Nat, received: Nat, reply: Nat])
  BY DEF BeginReply
<1> HIDE DEF entry
<1>4. TableTypes'
  <2>1. /\ next_outgoing_msg_no' = next_outgoing_msg_no + 1
        /\ UNCHANGED <<incoming, next_incoming_msg_no>>
    BY DEF BeginReply
  <2> QED BY <1>1, <1>2, <2>1
<1>5. TaskTypes'
  BY <1>3 DEF BeginReply, Places
<1>6. StreamTypes'
  BY DEF BeginReply
<1> QED BY <1>4, <1>5, <1>6

\* The reply is written up to some point of its body, short of its end while
\* chunks go out.
InBody ==
  /\ reply.offset <= reply.len
  /\ server = "header" => reply.offset = 0
  /\ server = "data" => reply.offset < reply.len

\* A chunk is a number, and it ends within the body.
LEMMA DataLenBound ==
  ASSUME reply \in [msgno: Nat, id: Nat, len: Nat, offset: Nat], InBody
  PROVE  DataLen \in Nat /\ reply.offset + DataLen <= reply.len
<1>1. reply.len \in Nat /\ reply.offset \in Nat
  OBVIOUS
<1> QED BY <1>1 DEF DataLen, InBody

\* The packets of a reply are written, and its state updated and removed,
\* within the types.
LEMMA ReplyStepsKeepTypes ==
  ASSUME DataTypes, RepliesReleased, InBody,
         Answer \/ WriteHeader \/ WriteData \/ WriteEof \/ ReplyFails
  PROVE  DataTypes'
<1> USE DEF DataTypes, TaskTypes, TableTypes, StreamTypes
<1>1. CASE Answer
  BY <1>1, QueueFacts DEF Answer, Writes, Places
<1>2. CASE WriteHeader
  <2>1. Header(reply.msgno, reply.id) \in Packet
    BY PacketTypes
  <2>2. s2c' \in Seq(Packet)
    BY <1>2, <2>1, QueueFacts DEF WriteHeader, Writes
  <2> QED BY <1>2, <2>2 DEF WriteHeader, Writes, Places, NextDataOrEof
<1>3. CASE WriteData
  <2> DEFINE entry == [outgoing[reply.msgno] EXCEPT
                         !.sent = outgoing[reply.msgno].sent + DataLen]
  <2>1. reply.msgno \in DOMAIN outgoing
    BY <1>3 DEF WriteData, RepliesReleased
  <2>2. DataLen \in Nat
    BY DataLenBound
  <2> HIDE DEF DataTypes
  <2>3. entry \in [sent: Nat, acknowledged: Nat]
    <3>1. outgoing[reply.msgno] \in [sent: Nat, acknowledged: Nat]
      BY <2>1 DEF DataTypes
    <3> QED BY <2>2, <3>1
  <2> USE DEF DataTypes
  <2>4. outgoing' = [outgoing EXCEPT ![reply.msgno] = entry]
    BY <1>3 DEF WriteData
  <2>5. /\ IsMap(outgoing') /\ DOMAIN outgoing' = DOMAIN outgoing
        /\ \A k \in DOMAIN outgoing :
             outgoing'[k] = IF k = reply.msgno THEN entry ELSE outgoing[k]
    <3> HIDE DEF entry
    <3> QED BY <2>4, UpdateFacts
  <2>6. Data(reply.msgno, DataLen) \in Packet
    BY <2>2, PacketTypes
  <2>7. s2c' \in Seq(Packet)
    BY <1>3, <2>6, QueueFacts DEF WriteData, Writes
  <2>8. reply' \in [msgno: Nat, id: Nat, len: Nat, offset: Nat]
    <3> HIDE DEF DataTypes
    <3>1. reply \in [msgno: Nat, id: Nat, len: Nat, offset: Nat]
      BY DEF DataTypes
    <3>2. reply' = [reply EXCEPT !.offset = reply.offset + DataLen]
      BY <1>3 DEF WriteData
    <3> QED BY <2>2, <3>1, <3>2
  <2>9. server' \in Places
    BY <1>3 DEF WriteData, NextDataOrEof, Places
  <2>10. UNCHANGED <<answer, request, served, incoming, next_incoming_msg_no,
                     next_outgoing_msg_no, c2s>>
    BY <1>3 DEF WriteData, Writes
  <2> HIDE DEF entry
  <2>11. TaskTypes'
    BY <2>8, <2>9, <2>10
  <2>12. TableTypes'
    BY <2>3, <2>5, <2>10
  <2> QED BY <2>7, <2>10, <2>11, <2>12
<1>4. CASE WriteEof
  <2>1. Eof(reply.msgno) \in Packet
    BY PacketTypes
  <2>2. s2c' \in Seq(Packet)
    BY <1>4, <2>1, QueueFacts DEF WriteEof, Writes
  <2>3. /\ IsMap(outgoing') /\ DOMAIN outgoing' = DOMAIN outgoing \ {reply.msgno}
        /\ \A k \in DOMAIN outgoing' : outgoing'[k] = outgoing[k]
    <3>1. outgoing' = Without(outgoing, reply.msgno)
      BY <1>4 DEF WriteEof, FinishReply
    <3> HIDE DEF DataTypes
    <3> QED BY <3>1, WithoutFacts
  <2>4. TableTypes'
    <3>1. UNCHANGED <<incoming, next_incoming_msg_no, next_outgoing_msg_no>>
      BY <1>4 DEF WriteEof, FinishReply
    <3> QED BY <2>3, <3>1
  <2>5. TaskTypes'
    BY <1>4 DEF WriteEof, FinishReply, Places
  <2>6. StreamTypes'
    BY <1>4, <2>2 DEF WriteEof, Writes
  <2> QED BY <2>4, <2>5, <2>6
<1>5. CASE ReplyFails
  <2>1. /\ IsMap(outgoing') /\ DOMAIN outgoing' = DOMAIN outgoing \ {reply.msgno}
        /\ \A k \in DOMAIN outgoing' : outgoing'[k] = outgoing[k]
    <3>1. outgoing' = Without(outgoing, reply.msgno)
      BY <1>5 DEF ReplyFails, FinishReply
    <3> HIDE DEF DataTypes
    <3> QED BY <3>1, WithoutFacts
  <2>2. TableTypes'
    <3>1. UNCHANGED <<incoming, next_incoming_msg_no, next_outgoing_msg_no>>
      BY <1>5 DEF ReplyFails, FinishReply
    <3> QED BY <2>1, <3>1
  <2>3. TaskTypes' /\ StreamTypes'
    BY <1>5 DEF ReplyFails, FinishReply, Places
  <2> QED BY <2>2, <2>3
<1> QED BY <1>1, <1>2, <1>3, <1>4, <1>5

\* Both together, with the flags: the types and the table of replies need each
\* other, since a write looks its reply up in the table.
Typed == DataTypes /\ FlagTypes /\ RepliesReleased /\ InBody

\* The initial state is typed.
LEMMA InitTyped == Init => Typed
<1> SUFFICES ASSUME Init PROVE Typed
  OBVIOUS
<1>1. TaskTypes /\ StreamTypes
  BY PacketTypes DEF Init, TaskTypes, StreamTypes, NoRequest, NoReply, Places
<1>2. TableTypes
  BY EmptyMapFacts DEF Init, TableTypes
<1>3. FlagTypes
  BY Zenon DEF Init, FlagTypes
<1>4. RepliesReleased /\ InBody
  BY EmptyMapFacts DEF Init, RepliesReleased, InBody, NoReply
<1> QED BY <1>1, <1>2, <1>3, <1>4 DEF Typed, DataTypes

\* Every step keeps the types of everything but the flags.
LEMMA StepKeepsData ==
  ASSUME DataTypes, RepliesReleased, InBody, [Next]_vars
  PROVE  DataTypes'
<1>0. <<>> \in Seq(Packet) /\ (s2c \in Seq(Packet) /\ s2c # <<>> => Tail(s2c) \in Seq(Packet))
  BY QueueFacts
<1>1. CASE Route
  BY <1>1, RouteKeepsTypes
<1>2. CASE ReadEnds \/ IdleTimeout \/ AnswerFails \/ HandlerPanics
  BY <1>0, <1>2 DEF ReadEnds, IdleTimeout, AnswerFails, HandlerPanics, End, DataTypes,
     TaskTypes, TableTypes, StreamTypes, Places
<1>3. CASE Answer \/ WriteHeader \/ WriteData \/ WriteEof \/ ReplyFails
  BY <1>3, ReplyStepsKeepTypes
<1>4. CASE Refuse \/ HandlerReturns
  BY <1>4, BeginReplyKeepsTypes DEF Refuse, HandlerReturns
<1>5. CASE Admit \/ UNCHANGED vars
  BY <1>5 DEF Admit, DataTypes, TaskTypes, TableTypes, StreamTypes, Places
<1>6. CASE ClientSends
  BY <1>6, QueueFacts DEF ClientSends, DataTypes, TaskTypes, TableTypes, StreamTypes
<1>7. CASE ClientReads \/ ClientCloses
  BY <1>0, <1>7 DEF ClientReads, ClientCloses, DataTypes, TaskTypes,
     TableTypes, StreamTypes
<1> QED BY <1>1, <1>2, <1>3, <1>4, <1>5, <1>6, <1>7 DEF Next, ServerStep

\* And of the flags.
LEMMA StepKeepsFlags ==
  ASSUME FlagTypes, [Next]_vars
  PROVE  FlagTypes'
<1>1. CASE ClientCloses
  BY <1>1, Zenon DEF ClientCloses, FlagTypes
<1>2. CASE ~ClientCloses
  <2>1. /\ clientClosed' = clientClosed
        /\ serverClosed' = serverClosed \/ serverClosed' = TRUE
    BY <1>2 DEF Next, ServerStep, Route, RouteHeader, RejectHeader, RouteData,
       RouteEof, RouteTxerr, RouteAck, RoutePing, RouteBad, Ignores, Consumes, End,
       ReadEnds, IdleTimeout, Answer, AnswerFails, Writes, Refuse, Admit,
       HandlerReturns, HandlerPanics, BeginReply, WriteHeader, WriteData, WriteEof,
       ReplyFails, FinishReply, ClientSends, ClientReads
  <2> QED BY <2>1, Zenon DEF FlagTypes
<1> QED BY <1>1, <1>2

\* outgoing holds the reply being written and nothing else: on no path is one
\* left behind.
LEMMA StepReleases ==
  ASSUME RepliesReleased, InBody, DataTypes, [Next]_vars
  PROVE  RepliesReleased' /\ InBody'
<1>1. CASE Route
  <2>1. /\ server = "reading"
        /\ server' \in {"reading", "answering", "checking", "ended"}
        /\ DOMAIN outgoing' = DOMAIN outgoing
        /\ reply' = reply
    BY <1>1 DEF Route, RouteHeader, RejectHeader, RouteData, RouteEof, RouteTxerr,
       RouteAck, RoutePing, RouteBad, Ignores, Consumes, End
  <2> QED BY <2>1 DEF RepliesReleased, InBody
<1>2. CASE ReadEnds \/ IdleTimeout \/ AnswerFails \/ HandlerPanics
  BY <1>2 DEF ReadEnds, IdleTimeout, AnswerFails, HandlerPanics, End,
     RepliesReleased, InBody
<1>3. CASE Answer
  BY <1>3 DEF Answer, RepliesReleased, InBody
<1>4. CASE Refuse \/ HandlerReturns
  <2>1. PICK n \in Nat : BeginReply(n)
    BY <1>4 DEF Refuse, HandlerReturns
  <2>2. server \in {"checking", "handling"}
    BY <1>4 DEF Refuse, HandlerReturns
  <2>3. DOMAIN outgoing' = DOMAIN outgoing \cup {next_outgoing_msg_no}
    BY <2>1 DEF BeginReply, Insert
  <2>4. DOMAIN outgoing = {} /\ server' = "header"
    BY <2>1, <2>2 DEF BeginReply, RepliesReleased
  <2>5. reply'.msgno = next_outgoing_msg_no /\ reply'.len = n /\ reply'.offset = 0
    BY <2>1 DEF BeginReply
  <2> QED BY <2>3, <2>4, <2>5 DEF RepliesReleased, InBody
<1>5. CASE Admit \/ UNCHANGED vars
  BY <1>5 DEF Admit, RepliesReleased, InBody
<1>6. CASE WriteHeader
  <2>1. reply.len \in Nat /\ reply.offset \in Nat
    BY DEF DataTypes, TaskTypes
  <2>2. reply.offset = 0
    BY <1>6 DEF WriteHeader, InBody
  <2> QED BY <1>6, <2>1, <2>2 DEF WriteHeader, NextDataOrEof, RepliesReleased, InBody
<1>7. CASE WriteData
  <2>1. DOMAIN outgoing' = DOMAIN outgoing
    BY <1>7 DEF WriteData
  <2>2. /\ reply \in [msgno: Nat, id: Nat, len: Nat, offset: Nat]
        /\ DataLen \in Nat /\ reply.offset + DataLen <= reply.len
    BY DataLenBound DEF DataTypes, TaskTypes
  <2>3. /\ reply'.msgno = reply.msgno /\ reply'.len = reply.len
        /\ reply'.offset = reply.offset + DataLen
    BY <1>7, <2>2 DEF WriteData
  <2>4. /\ server = "data"
        /\ server' = IF reply'.offset < reply'.len THEN "data" ELSE "eof"
    BY <1>7, <2>3 DEF WriteData, NextDataOrEof
  <2> QED BY <2>1, <2>2, <2>3, <2>4 DEF RepliesReleased, InBody
<1>8. CASE WriteEof \/ ReplyFails
  <2>1. DOMAIN outgoing' = DOMAIN outgoing \ {reply.msgno}
    BY <1>8 DEF WriteEof, ReplyFails, FinishReply, Without
  <2> QED BY <1>8, <2>1 DEF WriteEof, ReplyFails, FinishReply, RepliesReleased, InBody
<1>9. CASE ClientSends \/ ClientReads \/ ClientCloses
  BY <1>9 DEF ClientSends, ClientReads, ClientCloses, RepliesReleased, InBody
<1> QED BY <1>1, <1>2, <1>3, <1>4, <1>5, <1>6, <1>7, <1>8, <1>9 DEF Next, ServerStep

\* Every step keeps all of it.
LEMMA StepTyped ==
  ASSUME Typed, [Next]_vars
  PROVE  Typed'
  BY StepKeepsData, StepKeepsFlags, StepReleases DEF Typed

\* Every variable of a server connection keeps its type, whatever the client
\* sends.
THEOREM TypeCorrect == Spec => []TypeOK
<1>1. Typed => TypeOK
  BY DEF Typed, DataTypes, TypeOK
<1> QED BY <1>1, InitTyped, StepTyped, PTL DEF Spec

\* No reply stays behind in outgoing: the entry of a reply goes when it is
\* written or has failed.
THEOREM Released == Spec => []RepliesReleased
<1>1. Typed => RepliesReleased
  BY DEF Typed
<1> QED BY <1>1, InitTyped, StepTyped, PTL DEF Spec

-----------------------------------------------------------------------------
(* A request is dispatched once.                                           *)

\* The requests the task is working on: the one it dispatches, if any.
Dispatching == IF server \in {"checking", "handling"} THEN 1 ELSE 0

\* The numbers of the requests coming in are below the next one, so that a
\* HEADER adds one, and there are finitely many.
Numbered == DOMAIN incoming \subseteq 0..(next_incoming_msg_no - 1)
Counted == Numbered /\ DispatchedOnce

\* A message number is counted with those coming in, or with those dispatched.
LEMMA StepCounts ==
  ASSUME Typed, Counted, [Next]_vars
  PROVE  Counted'
<1> DEFINE open == DOMAIN incoming
<1>1. /\ next_incoming_msg_no \in Nat /\ Len(served) \in Nat
      /\ served \in Seq([id: Nat, received: Nat, reply: Nat])
  BY DEF Typed, DataTypes, TaskTypes, TableTypes
<1>2. IsFiniteSet(open) /\ Cardinality(open) \in Nat
  <2>1. IsFiniteSet(0..(next_incoming_msg_no - 1))
    BY <1>1, FS_Interval
  <2>2. open \subseteq 0..(next_incoming_msg_no - 1)
    BY DEF Counted, Numbered
  <2> HIDE DEF open
  <2> QED BY <2>1, <2>2, FS_Subset, FS_CardinalityType
<1>3. Len(served) + Dispatching + Cardinality(open) <= next_incoming_msg_no
  BY DEF Counted, DispatchedOnce, Dispatching
<1>4. SUFFICES /\ DOMAIN incoming' \subseteq 0..(next_incoming_msg_no' - 1)
               /\ Len(served') + Dispatching' + Cardinality(DOMAIN incoming')
                    <= next_incoming_msg_no'
  BY DEF Counted, Numbered, DispatchedOnce, Dispatching
<1>5. CASE UNCHANGED <<server, served, next_incoming_msg_no>> /\ DOMAIN incoming' = open
  BY <1>3, <1>5 DEF Counted, Numbered, Dispatching
\* Those that end the work on a request, or leave the tables alone.
<1>6. CASE /\ UNCHANGED <<served, next_incoming_msg_no>>
           /\ DOMAIN incoming' = open
           /\ server' \notin {"checking", "handling"}
  BY <1>1, <1>2, <1>3, <1>6 DEF Counted, Numbered, Dispatching
<1>7. CASE \E p \in Packet : RouteHeader(p)
  <2>1. PICK p \in Packet : RouteHeader(p)
    BY <1>7
  <2>2. DOMAIN incoming' = open \cup {next_incoming_msg_no}
    BY <2>1 DEF RouteHeader, Insert
  <2>3. next_incoming_msg_no \notin open
    BY <1>1 DEF Counted, Numbered
  <2>4. Cardinality(DOMAIN incoming') = Cardinality(open) + 1
    BY <1>2, <2>2, <2>3, FS_AddElement
  <2>5. /\ next_incoming_msg_no' = next_incoming_msg_no + 1 /\ served' = served
        /\ Dispatching' = 0 /\ Dispatching = 0
    BY <2>1 DEF RouteHeader, Reads, Consumes, Dispatching
  <2>6. DOMAIN incoming' \subseteq 0..(next_incoming_msg_no' - 1)
    BY <1>1, <2>2, <2>5 DEF Counted, Numbered
  <2> QED BY <1>1, <1>2, <1>3, <2>4, <2>5, <2>6
<1>8. CASE \E p \in Packet : RouteEof(p)
  <2>1. PICK p \in Packet : RouteEof(p)
    BY <1>8
  <2>2. DOMAIN incoming' = open \ {p.msgno} /\ p.msgno \in open
    BY <2>1 DEF RouteEof, Without
  <2>3. Cardinality(DOMAIN incoming') = Cardinality(open) - 1
    BY <1>2, <2>2, FS_RemoveElement
  <2>4. /\ next_incoming_msg_no' = next_incoming_msg_no /\ served' = served
        /\ Dispatching' = 1 /\ Dispatching = 0
    BY <2>1 DEF RouteEof, Reads, Consumes, Dispatching
  <2> QED BY <1>1, <1>2, <1>3, <2>2, <2>3, <2>4 DEF Counted, Numbered
<1>9. CASE \E p \in Packet : RouteTxerr(p)
  <2>1. PICK p \in Packet : RouteTxerr(p)
    BY <1>9
  <2>2. DOMAIN incoming' \subseteq open
    BY <2>1 DEF RouteTxerr, Without
  <2>3. Cardinality(DOMAIN incoming') <= Cardinality(open) /\ Cardinality(DOMAIN incoming') \in Nat
    BY <1>2, <2>2, FS_Subset, FS_CardinalityType
  <2>4. /\ next_incoming_msg_no' = next_incoming_msg_no /\ served' = served
        /\ Dispatching' = 0 /\ Dispatching = 0
    BY <2>1 DEF RouteTxerr, Reads, Consumes, Dispatching
  <2> QED BY <1>1, <1>2, <1>3, <2>2, <2>3, <2>4 DEF Counted, Numbered
<1>10. CASE Refuse \/ HandlerReturns
  <2>1. PICK n \in Nat : BeginReply(n)
    BY <1>10 DEF Refuse, HandlerReturns
  <2>2. Len(served') = Len(served) + 1
    BY <1>1, <2>1 DEF BeginReply
  <2>3. /\ UNCHANGED <<incoming, next_incoming_msg_no>>
        /\ Dispatching' = 0 /\ Dispatching = 1
    BY <1>10, <2>1 DEF Refuse, HandlerReturns, BeginReply, Dispatching
  <2> QED BY <1>1, <1>2, <1>3, <2>2, <2>3 DEF Counted, Numbered
<1>11. CASE Admit
  BY <1>3, <1>11 DEF Admit, Counted, Numbered, Dispatching
<1>12. CASE Route
  <2> DEFINE p == Head(c2s)
  <2>1. p \in Packet
    BY <1>12, QueueFacts DEF Route, Typed, DataTypes, StreamTypes
  <2> HIDE DEF p
  <2>2. CASE RouteData(p) \/ RouteAck(p) \/ RoutePing(p) \/ Ignores(p)
             \/ RejectHeader(p) \/ RouteBad(p)
    <3>1. /\ UNCHANGED <<served, next_incoming_msg_no>>
          /\ DOMAIN incoming' = open
          /\ server' \notin {"checking", "handling"}
      BY <2>2 DEF RouteData, RouteAck, RoutePing, Ignores, RejectHeader, RouteBad,
         Consumes, End
    <3> QED BY <1>6, <3>1
  <2> QED BY <1>7, <1>8, <1>9, <1>12, <2>1, <2>2 DEF Route, p
<1>13. CASE \/ ReadEnds \/ IdleTimeout \/ AnswerFails \/ HandlerPanics \/ Answer
            \/ WriteHeader \/ WriteData \/ WriteEof \/ ReplyFails
  <2>1. /\ UNCHANGED <<served, next_incoming_msg_no, incoming>>
        /\ server' \notin {"checking", "handling"}
    BY <1>13 DEF ReadEnds, IdleTimeout, AnswerFails, HandlerPanics, Answer,
       WriteHeader, WriteData, WriteEof, ReplyFails, FinishReply, NextDataOrEof, End
  <2> QED BY <1>6, <2>1
<1>14. CASE ClientSends \/ ClientReads \/ ClientCloses \/ UNCHANGED vars
  BY <1>5, <1>14 DEF ClientSends, ClientReads, ClientCloses
<1> QED BY <1>10, <1>11, <1>12, <1>13, <1>14 DEF Next, ServerStep

\* In the beginning there is nothing to count.
LEMMA InitCounted == Init => Counted
  BY EmptyMapFacts, FS_EmptySet DEF Init, Counted, Numbered, DispatchedOnce

\* A message number is dispatched once, whatever the client repeats.
THEOREM Once == Spec => []DispatchedOnce
<1>1. Counted => DispatchedOnce
  BY DEF Counted
<1> QED BY <1>1, InitCounted, InitTyped, StepTyped, StepCounts, PTL DEF Spec

-----------------------------------------------------------------------------
(* Replies are whole and in turn.                                          *)

Served == Seq([id: Nat, received: Nat, reply: Nat])
OfReply == {"HEADER", "DATA", "EOF"}

\* Packet b may follow packet a.
Follows(a, b) ==
  /\ a.type \in {"HEADER", "DATA"} => b.type \in {"DATA", "EOF"} /\ b.msgno = a.msgno
  /\ a.type \in {"ACK", "PONG", "EOF"} => b.type \in {"ACK", "PONG", "HEADER"}

\* Packet a belongs to a reply that the requests sv account for.
Accounted(a, sv) ==
  /\ a.type \in OfReply => a.msgno < Len(sv)
  /\ a.type = "HEADER" => a.id = sv[a.msgno + 1].id

\* The stream q holds replies to sv, whole and in turn.
Whole(q, sv) ==
  /\ \A i \in 1..Len(q) : Accounted(q[i], sv)
  /\ \A i \in 1..(Len(q) - 1) : Follows(q[i], q[i + 1])

\* This is what RepliesInTurn says of the stream.
LEMMA WholeIsInTurn == ASSUME s2c \in Seq(Packet)
                       PROVE  RepliesInTurn <=> (~clientClosed => Whole(s2c, served))
<1>1. /\ DOMAIN s2c = 1..Len(s2c) /\ Len(s2c) \in Nat
      /\ \A i \in 1..Len(s2c) : i < Len(s2c) <=> i \in 1..(Len(s2c) - 1)
  OBVIOUS
<1> QED BY <1>1 DEF RepliesInTurn, Whole, Accounted, Follows, OfReply

\* The stream stays so when its end is taken on by a packet that may follow,
LEMMA WholeAppend ==
  ASSUME NEW q \in Seq(Packet), NEW sv, NEW b \in Packet, Whole(q, sv),
         Accounted(b, sv), q # <<>> => Follows(q[Len(q)], b)
  PROVE  Whole(Append(q, b), sv)
<1> DEFINE r == Append(q, b)
<1>1. /\ r \in Seq(Packet) /\ Len(r) = Len(q) + 1 /\ Len(q) \in Nat /\ r[Len(q) + 1] = b
      /\ \A i \in 1..Len(q) : r[i] = q[i]
      /\ Len(q) > 0 => q # <<>>
  OBVIOUS
<1> HIDE DEF r
<1>2. ASSUME NEW i \in 1..Len(r) PROVE Accounted(r[i], sv)
  <2>1. CASE i = Len(q) + 1
    BY <1>1, <2>1
  <2>2. CASE i # Len(q) + 1
    <3>1. i \in 1..Len(q)
      BY <1>1, <2>2
    <3> QED BY <1>1, <3>1 DEF Whole
  <2> QED BY <2>1, <2>2
<1>3. ASSUME NEW i \in 1..(Len(r) - 1) PROVE Follows(r[i], r[i + 1])
  <2>1. CASE i = Len(q)
    <3>1. r[i] = q[i] /\ r[i + 1] = b /\ q # <<>>
      BY <1>1, <2>1
    <3> QED BY <2>1, <3>1
  <2>2. CASE i # Len(q)
    <3>1. i \in 1..(Len(q) - 1) /\ i \in 1..Len(q) /\ i + 1 \in 1..Len(q)
      BY <1>1, <2>2
    <3>2. r[i] = q[i] /\ r[i + 1] = q[i + 1]
      BY <1>1, <3>1
    <3> QED BY <3>1, <3>2 DEF Whole
  <2> QED BY <2>1, <2>2
<1> QED BY <1>2, <1>3 DEF Whole, r

\* when its head is read,
LEMMA WholeTail ==
  ASSUME NEW q \in Seq(Packet), NEW sv, Whole(q, sv), q # <<>>
  PROVE  Whole(Tail(q), sv)
<1>1. /\ Len(Tail(q)) = Len(q) - 1 /\ Len(q) \in Nat /\ Len(q) > 0
      /\ \A i \in 1..(Len(q) - 1) : Tail(q)[i] = q[i + 1]
  OBVIOUS
<1> DEFINE t == Tail(q)
<1> HIDE DEF t
<1>2. ASSUME NEW i \in 1..Len(t) PROVE Accounted(t[i], sv)
  <2>1. i + 1 \in 1..Len(q) /\ t[i] = q[i + 1]
    BY <1>1 DEF t
  <2> QED BY <2>1 DEF Whole
<1>3. ASSUME NEW i \in 1..(Len(t) - 1) PROVE Follows(t[i], t[i + 1])
  <2>1. i + 1 \in 1..(Len(q) - 1) /\ t[i] = q[i + 1] /\ t[i + 1] = q[(i + 1) + 1]
    BY <1>1 DEF t
  <2> QED BY <2>1 DEF Whole
<1> QED BY <1>2, <1>3 DEF Whole, t

\* and when another request is dispatched.
LEMMA WholeServed ==
  ASSUME NEW q \in Seq(Packet), NEW sv \in Served,
         NEW s \in [id: Nat, received: Nat, reply: Nat], Whole(q, sv)
  PROVE  Whole(q, Append(sv, s))
<1>1. /\ Len(Append(sv, s)) = Len(sv) + 1 /\ Len(sv) \in Nat
      /\ \A k \in 1..Len(sv) : Append(sv, s)[k] = sv[k]
  BY DEF Served
<1>2. ASSUME NEW i \in 1..Len(q) PROVE Accounted(q[i], Append(sv, s))
  <2>0. q[i] \in Packet
    OBVIOUS
  <2>1. Accounted(q[i], sv) /\ q[i].msgno \in Nat
    BY <2>0 DEF Whole, Packet
  <2>2. q[i].type \in OfReply =>
          q[i].msgno < Len(sv) + 1 /\ q[i].msgno + 1 \in 1..Len(sv)
    BY <1>1, <2>1 DEF Accounted
  <2>3. q[i].type = "HEADER" => q[i].type \in OfReply
    BY DEF OfReply
  <2> QED BY <1>1, <2>1, <2>2, <2>3 DEF Accounted
<1> QED BY <1>2 DEF Whole

\* The reply in hand answers the latest request, and the last packet of the
\* stream is one that the next may follow.
Writing == {"header", "data", "eof"}
InHand ==
  /\ Len(served) = next_outgoing_msg_no
  /\ server \in Writing => /\ reply.msgno + 1 = Len(served)
                           /\ reply.id = served[Len(served)].id
  /\ server = "answering" => answer.type \in {"ACK", "PONG"}
EndsIn(q) ==
  q # <<>> => IF server \in {"data", "eof"}
              THEN q[Len(q)].type \in {"HEADER", "DATA"} /\ q[Len(q)].msgno = reply.msgno
              ELSE q[Len(q)].type \in {"ACK", "PONG", "EOF"}
InTurn == InHand /\ (~clientClosed => Whole(s2c, served) /\ EndsIn(s2c))

\* A step that leaves the stream and the work on a reply alone keeps it.
LEMMA QuietStep ==
  ASSUME InTurn,
         UNCHANGED <<served, next_outgoing_msg_no, reply>>,
         clientClosed' = clientClosed, s2c' = s2c,
         server' \notin Writing, server \notin {"data", "eof"},
         server' = "answering" => answer'.type \in {"ACK", "PONG"}
  PROVE  InTurn'
  BY DEF InTurn, InHand, EndsIn, Writing

\* A packet of the reply, or an answer, is written after one it may follow.
LEMMA WriteStep ==
  ASSUME Typed, InTurn, NEW b \in Packet, Writes(b), InHand', served' = served,
         Accounted(b, served),
         EndsIn(s2c) => (s2c # <<>> => Follows(s2c[Len(s2c)], b)),
         IF server' \in {"data", "eof"}
         THEN b.type \in {"HEADER", "DATA"} /\ b.msgno = reply'.msgno
         ELSE b.type \in {"ACK", "PONG", "EOF"}
  PROVE  InTurn'
<1>1. s2c \in Seq(Packet) /\ s2c' = Append(s2c, b) /\ clientClosed' = clientClosed
  BY DEF Typed, DataTypes, StreamTypes, Writes
<1>2. ASSUME ~clientClosed PROVE Whole(s2c', served)
  BY <1>1, <1>2, WholeAppend DEF InTurn
<1>3. s2c'[Len(s2c')] = b
  BY <1>1
<1>4. EndsIn(s2c)'
  BY <1>3 DEF EndsIn
<1> QED BY <1>1, <1>2, <1>4 DEF InTurn

\* Every step keeps the replies in turn.
LEMMA StepInTurn ==
  ASSUME Typed, InTurn, [Next]_vars
  PROVE  InTurn'
<1>0. /\ s2c \in Seq(Packet) /\ c2s \in Seq(Packet) /\ served \in Served
      /\ reply \in [msgno: Nat, id: Nat, len: Nat, offset: Nat] /\ answer \in Packet
      /\ next_outgoing_msg_no \in Nat /\ request \in [id: Nat, received: Nat]
  BY DEF Typed, DataTypes, StreamTypes, TaskTypes, TableTypes, Served
<1>1. CASE Route
  <2> DEFINE p == Head(c2s)
  <2>1. \/ RouteHeader(p) \/ RejectHeader(p) \/ RouteData(p) \/ RouteEof(p)
        \/ RouteTxerr(p) \/ RouteAck(p) \/ RoutePing(p) \/ RouteBad(p) \/ Ignores(p)
    BY <1>1 DEF Route
  <2> HIDE DEF p
  <2>2. /\ UNCHANGED <<served, next_outgoing_msg_no, reply, s2c>>
        /\ server = "reading" /\ server' \notin Writing
    BY <1>1, <2>1 DEF Route, RouteHeader, RejectHeader, RouteData, RouteEof, RouteTxerr,
       RouteAck, RoutePing, RouteBad, Ignores, Consumes, End, Writing
  <2>3. clientClosed' = clientClosed
    BY <2>1 DEF RouteHeader, RejectHeader, RouteData, RouteEof, RouteTxerr,
       RouteAck, RoutePing, RouteBad, Ignores, Consumes, End
  <2>4. server' = "answering" => answer'.type \in {"ACK", "PONG"}
    BY <2>1 DEF RouteHeader, RejectHeader, RouteData, RouteEof, RouteTxerr,
       RouteAck, RoutePing, RouteBad, Ignores, Consumes, End, Ack, Pong
  <2> QED BY <2>2, <2>3, <2>4, QuietStep
<1>2. CASE ReadEnds \/ IdleTimeout \/ AnswerFails \/ HandlerPanics
  <2>1. /\ UNCHANGED <<served, next_outgoing_msg_no, reply, s2c>>
        /\ clientClosed' = clientClosed
        /\ server' = "ended" /\ server \notin {"data", "eof"}
    BY <1>2 DEF ReadEnds, IdleTimeout, AnswerFails, HandlerPanics, End
  <2> QED BY <2>1, QuietStep DEF Writing
<1>3. CASE Admit
  <2>1. /\ UNCHANGED <<served, next_outgoing_msg_no, reply, s2c>>
        /\ clientClosed' = clientClosed
        /\ server' = "handling" /\ server \notin {"data", "eof"}
    BY <1>3 DEF Admit
  <2> QED BY <2>1, QuietStep DEF Writing
<1>4. CASE Answer
  <2>1. Writes(answer) /\ server = "answering" /\ server' = "reading"
        /\ UNCHANGED <<served, next_outgoing_msg_no>>
    BY <1>4 DEF Answer
  <2>2. answer.type \in {"ACK", "PONG"}
    BY <2>1 DEF InTurn, InHand
  <2>3. InHand'
    BY <2>1 DEF InTurn, InHand, Writing
  <2>4. Accounted(answer, served)
    BY <2>2 DEF Accounted, OfReply
  <2>5. EndsIn(s2c) => (s2c # <<>> => Follows(s2c[Len(s2c)], answer))
    BY <2>1, <2>2 DEF EndsIn, Follows
  <2> QED BY <1>0, <2>1, <2>2, <2>3, <2>4, <2>5, WriteStep
<1>5. CASE Refuse \/ HandlerReturns
  <2>1. PICK n \in Nat : BeginReply(n)
    BY <1>5 DEF Refuse, HandlerReturns
  <2> DEFINE s == [id |-> request.id, received |-> request.received, reply |-> n]
  <2>2. s \in [id: Nat, received: Nat, reply: Nat] /\ served' = Append(served, s)
    BY <1>0, <2>1 DEF BeginReply
  <2>3. /\ Len(served') = Len(served) + 1 /\ served'[Len(served')] = s
        /\ Len(served) \in Nat
    BY <1>0, <2>2 DEF Served
  <2>4. /\ server \in {"checking", "handling"} /\ server' = "header"
        /\ s2c' = s2c /\ clientClosed' = clientClosed
        /\ next_outgoing_msg_no' = next_outgoing_msg_no + 1
        /\ reply' = [msgno |-> next_outgoing_msg_no, id |-> request.id,
                     len |-> n, offset |-> 0]
    BY <1>5, <2>1 DEF Refuse, HandlerReturns, BeginReply
  <2>5. InHand'
    <3>1. Len(served') = next_outgoing_msg_no' /\ reply'.msgno + 1 = Len(served')
      BY <2>3, <2>4 DEF InTurn, InHand
    <3>2. reply'.id = served'[Len(served')].id
      BY <2>3, <2>4
    <3> QED BY <2>4, <3>1, <3>2 DEF InHand
  <2>6. ASSUME ~clientClosed PROVE Whole(s2c, served') /\ EndsIn(s2c)'
    <3>1. Whole(s2c, served) /\ EndsIn(s2c)
      BY <2>6 DEF InTurn
    <3>2. Whole(s2c, served')
      <4> HIDE DEF s
      <4> QED BY <1>0, <2>2, <3>1, WholeServed
    <3> QED BY <2>4, <3>1, <3>2 DEF EndsIn
  <2> QED BY <2>4, <2>5, <2>6 DEF InTurn
<1>6. CASE WriteHeader
  <2> DEFINE b == Header(reply.msgno, reply.id)
  <2>1. /\ Writes(b) /\ server = "header" /\ server' \in {"data", "eof"}
        /\ UNCHANGED <<served, next_outgoing_msg_no, reply>>
    BY <1>6 DEF WriteHeader, NextDataOrEof
  <2>2. b \in Packet /\ b.type = "HEADER" /\ b.msgno = reply.msgno /\ b.id = reply.id
    BY <1>0, PacketTypes DEF Header
  <2> HIDE DEF b
  <2>3. InHand'
    BY <2>1 DEF InTurn, InHand, Writing
  <2>4. reply.msgno + 1 = Len(served) /\ reply.id = served[Len(served)].id
    BY <2>1 DEF InTurn, InHand, Writing
  <2>5. Accounted(b, served)
    BY <1>0, <2>2, <2>4 DEF Accounted, Served
  <2>6. EndsIn(s2c) => (s2c # <<>> => Follows(s2c[Len(s2c)], b))
    BY <2>1, <2>2 DEF EndsIn, Follows
  <2> QED BY <2>1, <2>2, <2>3, <2>5, <2>6, WriteStep
<1>7. CASE WriteData
  <2> DEFINE b == Data(reply.msgno, DataLen)
  <2>1. /\ Writes(b) /\ server = "data" /\ server' \in {"data", "eof"}
        /\ UNCHANGED <<served, next_outgoing_msg_no>>
        /\ reply' = [reply EXCEPT !.offset = @ + DataLen]
    BY <1>7 DEF WriteData, NextDataOrEof
  <2>2. b \in Packet /\ b.type = "DATA" /\ b.msgno = reply.msgno
    BY <1>0, PacketTypes, DataLenBound DEF Data, Typed
  <2> HIDE DEF b
  <2>3. reply'.msgno = reply.msgno /\ reply'.id = reply.id
    BY <1>0, <2>1
  <2>4. InHand'
    BY <2>1, <2>3 DEF InTurn, InHand, Writing
  <2>5. reply.msgno + 1 = Len(served)
    BY <2>1 DEF InTurn, InHand, Writing
  <2>6. Accounted(b, served)
    BY <1>0, <2>2, <2>5 DEF Accounted, Served
  <2>7. EndsIn(s2c) => (s2c # <<>> => Follows(s2c[Len(s2c)], b))
    BY <2>1, <2>2 DEF EndsIn, Follows
  <2> QED BY <2>1, <2>2, <2>3, <2>4, <2>6, <2>7, WriteStep
<1>8. CASE WriteEof
  <2> DEFINE b == Eof(reply.msgno)
  <2>1. /\ Writes(b) /\ server = "eof" /\ server' = "reading"
        /\ UNCHANGED <<served, next_outgoing_msg_no>>
    BY <1>8 DEF WriteEof, FinishReply
  <2>2. b \in Packet /\ b.type = "EOF" /\ b.msgno = reply.msgno
    BY <1>0, PacketTypes DEF Eof
  <2> HIDE DEF b
  <2>3. InHand'
    BY <2>1 DEF InTurn, InHand, Writing
  <2>4. reply.msgno + 1 = Len(served)
    BY <2>1 DEF InTurn, InHand, Writing
  <2>5. Accounted(b, served)
    BY <1>0, <2>2, <2>4 DEF Accounted, Served
  <2>6. EndsIn(s2c) => (s2c # <<>> => Follows(s2c[Len(s2c)], b))
    BY <2>1, <2>2 DEF EndsIn, Follows
  <2> QED BY <2>1, <2>2, <2>3, <2>5, <2>6, WriteStep
<1>9. CASE ReplyFails
  <2>1. /\ clientClosed /\ clientClosed' = clientClosed /\ server' = "reading"
        /\ UNCHANGED <<served, next_outgoing_msg_no>>
    BY <1>9 DEF ReplyFails, FinishReply
  <2> QED BY <2>1 DEF InTurn, InHand, Writing
<1>10. CASE ClientSends \/ UNCHANGED vars
  <2>1. /\ UNCHANGED <<server, served, next_outgoing_msg_no, reply, answer, s2c>>
        /\ clientClosed' = clientClosed
    BY <1>10 DEF ClientSends
  <2> QED BY <2>1 DEF InTurn, InHand, EndsIn
<1>11. CASE ClientReads
  <2>1. /\ UNCHANGED <<server, served, next_outgoing_msg_no, reply, answer>>
        /\ clientClosed' = clientClosed /\ s2c' = Tail(s2c) /\ s2c # <<>>
    BY <1>11 DEF ClientReads
  <2>2. InHand'
    BY <2>1 DEF InTurn, InHand
  <2>3. s2c' # <<>> => s2c'[Len(s2c')] = s2c[Len(s2c)]
    BY <1>0, <2>1
  <2>4. EndsIn(s2c) => EndsIn(s2c)'
    BY <2>1, <2>3 DEF EndsIn
  <2>5. Whole(s2c, served) => Whole(s2c', served)
    BY <1>0, <2>1, WholeTail
  <2> QED BY <2>1, <2>2, <2>4, <2>5 DEF InTurn
<1>12. CASE ClientCloses
  <2>1. /\ UNCHANGED <<server, served, next_outgoing_msg_no, reply, answer>>
        /\ clientClosed' = TRUE
    BY <1>12 DEF ClientCloses
  <2> QED BY <2>1 DEF InTurn, InHand
<1> QED BY <1>1, <1>2, <1>3, <1>4, <1>5, <1>6, <1>7, <1>8, <1>9, <1>10, <1>11, <1>12
        DEF Next, ServerStep

\* They are in the beginning.
LEMMA InitInTurn == Init => InTurn
  BY DEF Init, InTurn, InHand, Whole, EndsIn, Writing

\* The k-th reply answers the k-th request dispatched, and nothing else is
\* written between its HEADER and its EOF.
THEOREM TurnsKept == Spec => []RepliesInTurn
<1>1. Typed /\ InTurn => RepliesInTurn
  BY WholeIsInTurn DEF Typed, DataTypes, StreamTypes, InTurn
<1> QED BY <1>1, InitInTurn, InitTyped, StepTyped, StepInTurn, PTL DEF Spec
=============================================================================
