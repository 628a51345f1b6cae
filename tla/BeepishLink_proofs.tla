-------------------------- MODULE BeepishLink_proofs --------------------------
(***************************************************************************)
(* Theorems about a client and a server joined: for any number of calls,   *)
(* any lengths of requests and replies, chunk size, watermark and          *)
(* capacities.                                                             *)
(*                                                                         *)
(* What is known of either end alone is taken over: the client's steps are *)
(* steps of ClientConnection, the server's are steps of ServerConnection,  *)
(* and the steps of the other end change nothing but the stream.           *)
(***************************************************************************)
EXTENDS BeepishLink, ClientConnection_proofs

SP == INSTANCE ServerConnection_proofs WITH
  answer <- srvAnswer, request <- srvRequest, reply <- srvReply,
  incoming <- srvIncoming, outgoing <- srvOutgoing,
  next_incoming_msg_no <- srvNextIn, next_outgoing_msg_no <- srvNextOut,
  serverClosed <- peerClosed, clientClosed <- clientGone,
  ClientPackets <- {}, MaxRequest <- 0, MaxServed <- 0

USE ClientAssumption, LinkAssumption
USE DEF callVars, countVars, notifyVars, readerVars, wireVars, vars

-----------------------------------------------------------------------------
(* The steps of the two ends.                                              *)

\* The server's constants are as its module assumes.
LEMMA ServerConstants == SP!ServerAssumption
  OBVIOUS

\* The server of BeepishLink is the one of the theorems.
LEMMA SameServer == S!ServerStep <=> SP!ServerStep
  BY DEF S!ServerStep, SP!ServerStep, S!Route, SP!Route, S!RouteHeader,
    SP!RouteHeader, S!RejectHeader, SP!RejectHeader, S!RouteData, SP!RouteData,
    S!RouteEof, SP!RouteEof, S!RouteTxerr, SP!RouteTxerr, S!RouteAck,
    SP!RouteAck, S!RoutePing, SP!RoutePing, S!Ignores, SP!Ignores, S!RouteBad,
    SP!RouteBad, S!ReadEnds, SP!ReadEnds, S!IdleTimeout, SP!IdleTimeout,
    S!Answer, SP!Answer, S!AnswerFails, SP!AnswerFails, S!Refuse, SP!Refuse,
    S!Admit, SP!Admit, S!HandlerReturns, SP!HandlerReturns, S!HandlerPanics,
    SP!HandlerPanics, S!WriteHeader, SP!WriteHeader, S!WriteData, SP!WriteData,
    S!WriteEof, SP!WriteEof, S!ReplyFails, SP!ReplyFails, S!End, SP!End,
    S!Reads, SP!Reads, S!Consumes, SP!Consumes, S!Writes, SP!Writes, S!is_busy,
    SP!is_busy, S!BeginReply, SP!BeginReply, S!NextDataOrEof, SP!NextDataOrEof,
    S!DataLen, SP!DataLen, S!FinishReply, SP!FinishReply, S!taskVars,
    SP!taskVars, S!tableVars, SP!tableVars, S!wireVars, SP!wireVars, S!Insert,
    SP!Insert, S!Without, SP!Without, S!EmptyMap, SP!EmptyMap, S!Header,
    SP!Header, S!Data, SP!Data, S!Eof, SP!Eof, S!Ack, SP!Ack, S!Pong, SP!Pong

\* What the server does, in the names of this module.  It takes a packet off the
\* stream,
ServerTakes(p) ==
  /\ server = "reading" /\ c2s # <<>> /\ p = Head(c2s)
  /\ c2s' = Tail(c2s) /\ server' \in {"reading", "answering", "checking"}
  /\ UNCHANGED <<s2c, peerClosed, srvReply, srvNextOut, served>>
  /\ server' # "checking" => UNCHANGED srvRequest
OpensRequest(p) ==
  /\ p.type = "HEADER" /\ p.msgno = srvNextIn
  /\ srvNextIn' = srvNextIn + 1
  /\ srvIncoming' = Insert(srvIncoming, p.msgno, [id |-> p.id, received |-> 0])
  /\ server' = "reading"
AddsToRequest(p) ==
  /\ p.type = "DATA" /\ p.msgno \in DOMAIN srvIncoming /\ UNCHANGED srvNextIn
  /\ srvIncoming' = [srvIncoming EXCEPT
       ![p.msgno].received = srvIncoming[p.msgno].received + p.n]
  /\ server' = "answering"
  /\ srvAnswer' = Ack(p.msgno, srvIncoming[p.msgno].received + p.n)
ClosesRequest(p) ==
  /\ p.msgno \in DOMAIN srvIncoming /\ UNCHANGED srvNextIn
  /\ srvIncoming' = Without(srvIncoming, p.msgno)
  /\ \/ p.type = "EOF" /\ server' = "checking" /\ srvRequest' = srvIncoming[p.msgno]
     \/ p.type = "TXERR" /\ server' = "reading"
PassesOver(p) ==
  /\ UNCHANGED <<srvIncoming, srvNextIn>>
  /\ p.type # "HEADER"
  /\ p.type = "DATA" => p.msgno \notin DOMAIN srvIncoming
  /\ (p.type = "EOF" /\ p.n = 0) => p.msgno \notin DOMAIN srvIncoming
  /\ server' # "checking"
  /\ server' = "answering" => srvAnswer'.type = "PONG"
ServerReads(p) ==
  /\ ServerTakes(p)
  /\ OpensRequest(p) \/ AddsToRequest(p) \/ ClosesRequest(p) \/ PassesOver(p)

\* or appends one,
ServerWrites(p) ==
  /\ s2c' = Append(s2c, p)
  /\ UNCHANGED <<c2s, peerClosed, srvIncoming, srvNextIn, srvNextOut, srvRequest, served>>
  /\ \/ /\ server = "answering" /\ p = srvAnswer
        /\ server' = "reading" /\ UNCHANGED srvReply
     \/ /\ server = "header" /\ p = Header(srvReply.msgno, srvReply.id)
        /\ server' = IF 0 < srvReply.len THEN "data" ELSE "eof"
        /\ UNCHANGED srvReply
     \/ /\ server = "data" /\ p = Data(srvReply.msgno, SP!DataLen)
        /\ srvReply' = [srvReply EXCEPT !.offset = @ + SP!DataLen]
        /\ server' = IF srvReply.offset + SP!DataLen < srvReply.len THEN "data" ELSE "eof"
     \/ /\ server = "eof" /\ p = Eof(srvReply.msgno)
        /\ server' = "reading" /\ UNCHANGED srvReply

\* or goes from a request to its reply,
ServerBegins(n) ==
  /\ server \in {"checking", "handling"}
  /\ srvReply' = [msgno |-> srvNextOut, id |-> srvRequest.id, len |-> n, offset |-> 0]
  /\ srvNextOut' = srvNextOut + 1
  /\ served' = Append(served, [id |-> srvRequest.id, received |-> srvRequest.received,
                               reply |-> n])
  /\ server' = "header"
  /\ UNCHANGED <<c2s, s2c, peerClosed, srvRequest, srvIncoming, srvNextIn>>

\* or gives up a reply, or is about to run the handler,
ServerMovesOn ==
  /\ \/ server = "checking" /\ server' = "handling"
     \/ server \in {"header", "data", "eof"} /\ clientGone /\ server' = "reading"
  /\ UNCHANGED <<c2s, s2c, peerClosed, srvRequest, srvReply, srvIncoming, srvNextIn,
                 srvNextOut, served>>

\* or ends.
ServerEnds ==
  /\ server' = "ended" /\ peerClosed' = TRUE /\ c2s' = <<>>
  /\ UNCHANGED <<s2c, srvRequest, srvReply, srvIncoming, srvNextIn, srvNextOut, served>>

\* Every step of the server is one of these.
LEMMA ServerActs ==
  ASSUME SP!Typed, SP!ServerStep
  PROVE  \/ \E p \in Packet : ServerReads(p)
         \/ \E p \in Packet : ServerWrites(p)
         \/ \E n \in Nat : ServerBegins(n)
         \/ ServerMovesOn \/ ServerEnds
<1>0. /\ c2s \in Seq(Packet) /\ srvAnswer \in Packet
      /\ srvReply \in [msgno: Nat, id: Nat, len: Nat, offset: Nat]
      /\ SP!DataLen \in Nat
  BY SP!DataLenBound, ServerConstants
  DEF SP!Typed, SP!DataTypes, SP!StreamTypes, SP!TaskTypes, SP!Packet, Packet, SP!PacketType,
      PacketType
<1>1. CASE SP!Route
  <2> DEFINE p == Head(c2s)
  <2>0. p \in Packet /\ c2s # <<>>
    BY <1>0, <1>1, QueueFacts DEF SP!Route
  <2>1. CASE SP!RouteHeader(p)
    <3>1. ServerTakes(p) /\ OpensRequest(p)
      BY <2>1 DEF SP!RouteHeader, SP!Reads, SP!Consumes, SP!taskVars, ServerTakes,
         OpensRequest, SP!Insert, Insert
    <3> QED BY <2>0, <3>1 DEF ServerReads
  <2>2. CASE SP!RouteData(p)
    <3>1. ServerTakes(p) /\ AddsToRequest(p)
      BY <2>2 DEF SP!RouteData, SP!Reads, SP!Consumes, ServerTakes, AddsToRequest,
         SP!Ack, Ack
    <3> QED BY <2>0, <3>1 DEF ServerReads
  <2>3. CASE SP!RouteEof(p)
    <3>1. ServerTakes(p) /\ ClosesRequest(p)
      BY <2>3 DEF SP!RouteEof, SP!Reads, SP!Consumes, ServerTakes, ClosesRequest,
         SP!Without, Without
    <3> QED BY <2>0, <3>1 DEF ServerReads
  <2>4. CASE SP!RouteTxerr(p)
    <3>1. ServerTakes(p)
      BY <2>4 DEF SP!RouteTxerr, SP!Reads, SP!Consumes, SP!taskVars, ServerTakes
    <3>2. CASE p.msgno \in DOMAIN srvIncoming
      <4>1. ClosesRequest(p)
        BY <2>4, <3>2 DEF SP!RouteTxerr, SP!Reads, SP!Consumes, ClosesRequest,
           SP!Without, Without
      <4> QED BY <2>0, <3>1, <4>1 DEF ServerReads
    <3>3. CASE p.msgno \notin DOMAIN srvIncoming
      <4>0. IsMap(srvIncoming)
        BY DEF SP!Typed, SP!DataTypes, SP!TableTypes, SP!IsMap, IsMap
      <4>1. srvIncoming' = srvIncoming
        BY <2>4, <3>3, <4>0 DEF SP!RouteTxerr, SP!Without, IsMap
      <4>2. PassesOver(p)
        BY <2>4, <3>3, <4>1 DEF SP!RouteTxerr, SP!Reads, SP!Consumes, PassesOver
      <4> QED BY <2>0, <3>1, <4>2 DEF ServerReads
    <3> QED BY <3>2, <3>3
  <2>5. CASE SP!RouteAck(p) \/ SP!RoutePing(p) \/ SP!Ignores(p)
    <3>1. ServerTakes(p)
      BY <2>5 DEF SP!RouteAck, SP!RoutePing, SP!Ignores, SP!Reads, SP!Consumes,
         SP!taskVars, SP!tableVars, ServerTakes
    <3>2. PassesOver(p)
      BY <2>5 DEF SP!RouteAck, SP!RoutePing, SP!Ignores, SP!Reads, SP!Consumes,
         SP!taskVars, SP!tableVars, PassesOver, SP!Pong
    <3> QED BY <2>0, <3>1, <3>2 DEF ServerReads
  <2>6. CASE SP!RejectHeader(p) \/ SP!RouteBad(p)
    BY <2>6 DEF SP!RejectHeader, SP!RouteBad, SP!End, SP!taskVars, SP!tableVars, ServerEnds
  <2> QED BY <1>1, <2>1, <2>2, <2>3, <2>4, <2>5, <2>6 DEF SP!Route
<1>2. CASE SP!ReadEnds \/ SP!IdleTimeout \/ SP!AnswerFails \/ SP!HandlerPanics
  BY <1>2 DEF SP!ReadEnds, SP!IdleTimeout, SP!AnswerFails, SP!HandlerPanics, SP!End,
     SP!taskVars, SP!tableVars, ServerEnds
<1>3. CASE SP!Answer
  <2>1. ServerWrites(srvAnswer)
    BY <1>3 DEF SP!Answer, SP!Writes, SP!taskVars, SP!tableVars, ServerWrites
  <2> QED BY <1>0, <2>1
<1>4. CASE SP!WriteHeader
  <2>1. ServerWrites(Header(srvReply.msgno, srvReply.id))
    BY <1>4 DEF SP!WriteHeader, SP!Writes, SP!taskVars, SP!tableVars, ServerWrites,
       SP!NextDataOrEof, SP!Header, Header
  <2> QED BY <1>0, <2>1, PacketTypes
<1>5. CASE SP!WriteData
  <2>1. ServerWrites(Data(srvReply.msgno, SP!DataLen))
    BY <1>5 DEF SP!WriteData, SP!Writes, ServerWrites, SP!NextDataOrEof, SP!Data, Data
  <2> QED BY <1>0, <2>1, PacketTypes
<1>6. CASE SP!WriteEof
  <2>1. ServerWrites(Eof(srvReply.msgno))
    BY <1>6 DEF SP!WriteEof, SP!FinishReply, SP!Writes, SP!taskVars, ServerWrites, SP!Eof, Eof
  <2> QED BY <1>0, <2>1, PacketTypes
<1>7. CASE SP!Refuse
  <2>1. ServerBegins(0)
    BY <1>7 DEF SP!Refuse, SP!BeginReply, SP!wireVars, ServerBegins
  <2> QED BY <2>1
<1>8. CASE SP!HandlerReturns
  <2>1. PICK n \in Replies : SP!BeginReply(n)
    BY <1>8 DEF SP!HandlerReturns
  <2>2. n \in Nat /\ ServerBegins(n)
    BY <1>8, <2>1 DEF SP!HandlerReturns, SP!BeginReply, SP!wireVars, ServerBegins
  <2> QED BY <2>2
<1>9. CASE SP!Admit \/ SP!ReplyFails
  BY <1>9 DEF SP!Admit, SP!ReplyFails, SP!FinishReply, SP!taskVars, SP!tableVars,
     SP!wireVars, ServerMovesOn
<1> QED BY <1>1, <1>2, <1>3, <1>4, <1>5, <1>6, <1>7, <1>8, <1>9 DEF SP!ServerStep

-----------------------------------------------------------------------------
(* Each end's invariant holds of it in the link.                           *)

\* A step of the client, or none.
ClientPart == [ClientStep]_vars /\ UNCHANGED serverVars
ServerPart == SP!ServerStep /\ UNCHANGED clientOnly

\* Every step is one end's.
LEMMA LinkParts ==
  ASSUME [LinkNext]_linkVars
  PROVE  ClientPart \/ ServerPart
<1>1. CASE LinkClientStep \/ UNCHANGED linkVars
  BY <1>1 DEF LinkClientStep, linkVars, ClientPart
<1>2. CASE LinkServerStep
  BY <1>2, SameServer DEF LinkServerStep, ServerPart
<1> QED BY <1>1, <1>2 DEF LinkNext

\* A client's step is one of ClientConnection.
LEMMA ClientIsClient == ClientPart => [Next]_vars
  BY DEF ClientPart, Next

\* Of the wire, the client reads what comes and adds to what goes.
LEMMA ClientWire ==
  ASSUME Typed, ClientPart
  PROVE  /\ peerClosed' = peerClosed
         /\ \/ s2c' = s2c
            \/ reader = "reading" /\ s2c # <<>> /\ s2c' = Tail(s2c)
         /\ writer = "ended" => writer' = "ended"
         /\ reader = "gone" => reader' = "gone"
<1>1. CASE \E c \in Calls : Start(c) \/ CallStep(c)
  BY <1>1 DEF Start, CallStep, TakeRequestId, TakeMsgNo, Register, Track,
     SendHeader, CheckClosed, CheckWindow, Park, SendChunk, CountSent, SendEof,
     TakeResponse, TimeOut, Expire, Release, Unregister, Untrack, Enqueue
<1>2. CASE ReaderStep
  BY <1>2 DEF ReaderStep, Reads, RouteHeader, RouteData, RouteEof, RouteTxerr,
     RouteAck, RoutePing, RoutePong, RouteBad, ReaderAnswers, ReaderEnds,
     DrainPending, SetClosed
<1>3. CASE WriterStep \/ DropHandle \/ UNCHANGED vars
  BY <1>3 DEF WriterStep, WriterSends, WriterFails, DropHandle
<1> QED BY <1>1, <1>2, <1>3 DEF ClientPart, ClientStep

\* What the server leaves of the stream is part of it.
LEMMA ServerWire ==
  ASSUME Typed, SP!Typed, ServerPart
  PROVE  /\ Stream \in Seq(Packet)
         /\ \/ Stream' = Stream /\ c2s' = c2s
            \/ c2s # <<>> /\ Stream # <<>> /\ Stream' = Tail(Stream) /\ Head(Stream) = Head(c2s)
            \/ ServerEnds
         /\ PartOf(Stream', Stream)
<1>1. chan \in Seq(Packet) /\ c2s \in Seq(Packet) /\ Len(c2s) \in Nat /\ Len(chan) \in Nat
  BY LenProperties DEF Typed, TypeOK, WireTypes
<1>2. /\ Stream \in Seq(Packet) /\ Len(Stream) = Len(c2s) + Len(chan) /\ Len(Stream) \in Nat
      /\ \A i \in 1..Len(c2s) : Stream[i] = c2s[i]
      /\ \A i \in 1..Len(chan) : Stream[Len(c2s) + i] = chan[i]
  BY <1>1, ConcatFacts, LenProperties DEF Stream
<1>3. chan' = chan
  BY DEF ServerPart, clientOnly
<1>4. CASE c2s' = c2s
  <2>1. Stream' = Stream
    BY <1>3, <1>4 DEF Stream
  <2>2. /\ 0 \in Nat /\ 0 + Len(Stream') <= Len(Stream)
        /\ \A i \in 1..Len(Stream') : Stream'[i] = Stream[0 + i]
    BY <1>2, <2>1
  <2>3. PartOf(Stream', Stream)
    BY ONLY <2>2 DEF PartOf
  <2> QED BY <1>2, <1>4, <2>1, <2>3
<1>5. CASE ServerEnds
  <2>1. Stream' = chan
    BY <1>1, <1>3, <1>5, ConcatFacts DEF ServerEnds, Stream
  <2>2. /\ Len(c2s) + Len(Stream') <= Len(Stream)
        /\ \A i \in 1..Len(Stream') : Stream'[i] = Stream[Len(c2s) + i]
    BY <1>1, <1>2, <2>1
  <2>3. PartOf(Stream', Stream)
    BY ONLY <1>1, <2>2 DEF PartOf
  <2> QED BY <1>2, <1>5, <2>3
<1>6. CASE c2s # <<>> /\ c2s' = Tail(c2s)
  <2>1. Stream' = Tail(Stream) /\ Stream # <<>> /\ Head(Stream) = Head(c2s)
    BY <1>1, <1>3, <1>6, ConcatFacts DEF Stream
  <2>2. /\ Len(Stream') = Len(Stream) - 1 /\ Len(Stream) > 0
        /\ \A i \in 1..Len(Stream') : Stream'[i] = Stream[i + 1]
    BY <1>2, <2>1, HeadTailProperties, EmptySeq
  <2>3. 1 \in Nat /\ 1 + Len(Stream') <= Len(Stream)
    BY <1>2, <2>2
  <2>4. \A i \in 1..Len(Stream') : Stream'[i] = Stream[1 + i]
    BY <1>2, <2>2
  <2>5. PartOf(Stream', Stream)
    BY ONLY <2>3, <2>4 DEF PartOf
  <2> QED BY <1>2, <1>6, <2>1, <2>5
<1>7. \/ c2s' = c2s
      \/ ServerEnds
      \/ c2s # <<>> /\ c2s' = Tail(c2s)
  BY ServerActs DEF ServerPart, ServerReads, ServerTakes, ServerWrites, ServerBegins, ServerMovesOn
<1> QED BY <1>4, <1>5, <1>6, <1>7

\* What is known of the two ends.
Ends == Inv /\ SP!Typed /\ SP!InTurn /\ SP!Counted

\* The client's invariant does not depend on what the server does.
LEMMA InvKeptByServer ==
  ASSUME Inv, SP!Typed, ServerPart
  PROVE  Inv'
<1>1. UNCHANGED clientOnly
  BY DEF ServerPart
<1>2. SP!Typed'
  BY SP!StepTyped, ServerConstants DEF SP!Next, ServerPart
<1>3. c2s' \in Seq(Packet) /\ s2c' \in Seq(Packet) /\ peerClosed' \in BOOLEAN
  BY <1>2 DEF SP!Typed, SP!DataTypes, SP!StreamTypes, SP!FlagTypes, SP!Packet, Packet,
     SP!PacketType, PacketType
<1>4. Typed'
  <2>1. CallTypes' /\ HandleTypes' /\ ReaderTypes'
    BY <1>1 DEF Inv, Typed, TypeOK, clientOnly, CallTypes, HandleTypes, ReaderTypes
  <2>2. WireTypes'
    BY <1>1, <1>3 DEF Inv, Typed, TypeOK, clientOnly, WireTypes
  <2>3. FlagTypes'
    BY <1>1, <1>3, Zenon DEF Inv, Typed, TypeOK, clientOnly, FlagTypes
  <2>4. WaitersParked' /\ Offsets'
    BY <1>1 DEF Inv, Typed, clientOnly, WaitersParked, Offsets, Progress, InLoop
  <2> QED BY <2>1, <2>2, <2>3, <2>4 DEF Typed, TypeOK
<1>5. /\ IdsUnique' /\ MsgNosUnique' /\ PendingExact' /\ OutgoingExact'
      /\ WaitersParked' /\ ParkedWait'
  BY <1>1 DEF Inv, IInv, clientOnly, IdsUnique, MsgNosUnique, HasNumber, PendingExact,
     OutgoingExact, WaitersParked, ParkedWait
<1>6. WindowsUsed'
  BY <1>1 DEF Inv, IInv, clientOnly, WindowsUsed, Progress, WindowUse, InLoop
<1>7. PacketsOwned'
  <2>1. PartOf(Stream', Stream) /\ Stream \in Seq(Packet)
    BY ServerWire DEF Inv
  <2>2. PICK k \in Nat : /\ k + Len(Stream') <= Len(Stream)
                         /\ \A i \in 1..Len(Stream') : Stream'[i] = Stream[k + i]
    BY <2>1 DEF PartOf
  <2>3. Stream' \in Seq(Packet)
    BY <1>4, ConcatFacts DEF Stream, Typed, TypeOK, WireTypes
  <2>4. ASSUME NEW i \in DOMAIN Stream', IsRequestPacket(Stream[i])'
        PROVE  \E c \in Calls : IsOf(Stream[i], c)'
    <3>1. PICK p : p = Stream'[i]
      OBVIOUS
    <3>2. k + i \in DOMAIN Stream /\ p = Stream[k + i]
      <4>1. Len(Stream') \in Nat /\ Len(Stream) \in Nat /\ i \in 1..Len(Stream')
        BY <2>1, <2>3, LenProperties
      <4>2. k + i \in 1..Len(Stream) /\ p = Stream[k + i]
        BY <2>2, <3>1, <4>1
      <4> QED BY <2>1, <4>2, LenProperties
    <3>3. PICK c \in Calls : IsOf(p, c)
      BY <2>4, <3>1, <3>2 DEF PacketsOwned, IsRequestPacket, Inv, IInv
    <3> QED BY <1>1, <3>1, <3>3 DEF IsOf, HasNumber, clientOnly
  <2> QED BY <1>1, <2>4 DEF PacketsOwned, Inv, IInv, clientOnly, IsRequestPacket
<1> QED BY <1>4, <1>5, <1>6, <1>7 DEF Inv, IInv

\* Nor the server's on what the client does.
LEMMA ServerKeptByClient ==
  ASSUME Ends, ClientPart, Inv'
  PROVE  SP!Typed' /\ SP!InTurn' /\ SP!Counted'
<1>1. UNCHANGED serverVars
  BY DEF ClientPart
<1>2. /\ peerClosed' = peerClosed
      /\ s2c' = s2c \/ (s2c # <<>> /\ s2c' = Tail(s2c))
      /\ clientGone => clientGone'
  BY ClientWire DEF Ends, Inv, clientGone
<1>3. /\ c2s' \in Seq(SP!Packet) /\ s2c' \in Seq(SP!Packet) /\ s2c \in Seq(Packet)
      /\ peerClosed' \in BOOLEAN
  BY DEF Ends, Inv, Typed, TypeOK, WireTypes, FlagTypes, SP!Packet, Packet, SP!PacketType,
     PacketType
<1>4. SP!Typed'
  <2>1. SP!TaskTypes' /\ SP!TableTypes'
    BY <1>1 DEF Ends, SP!Typed, SP!DataTypes, SP!TaskTypes, SP!TableTypes, serverVars
  <2>2. SP!StreamTypes'
    BY <1>3 DEF SP!StreamTypes
  <2>3. SP!FlagTypes'
    BY <1>3 DEF SP!FlagTypes, clientGone
  <2>4. SP!RepliesReleased' /\ SP!InBody'
    BY <1>1 DEF Ends, SP!Typed, SP!RepliesReleased, SP!InBody, serverVars
  <2> QED BY <2>1, <2>2, <2>3, <2>4 DEF SP!Typed, SP!DataTypes
<1>5. SP!InTurn'
  <2>1. SP!InHand'
    BY <1>1 DEF Ends, SP!InTurn, SP!InHand, serverVars
  <2>2. ASSUME ~clientGone' PROVE SP!Whole(s2c, served)' /\ SP!EndsIn(s2c)'
    <3>1. SP!Whole(s2c, served) /\ SP!EndsIn(s2c)
      BY <1>2, <2>2 DEF Ends, SP!InTurn
    <3>2. CASE s2c' = s2c
      BY <1>1, <3>1, <3>2 DEF SP!Whole, SP!EndsIn, serverVars, SP!Accounted, SP!Follows
    <3>3. CASE s2c # <<>> /\ s2c' = Tail(s2c)
      <4>1. SP!Whole(Tail(s2c), served)
        BY <1>3, <3>1, <3>3, SP!WholeTail, ServerConstants
        DEF SP!Packet, Packet, SP!PacketType, PacketType
      <4>2. SP!Whole(s2c', served')
        BY <1>1, <3>3, <4>1 DEF serverVars
      <4>3. s2c' # <<>> => s2c'[Len(s2c')] = s2c[Len(s2c)]
        BY <1>3, <3>3
      <4>4. SP!EndsIn(s2c)'
        BY <1>1, <3>1, <3>3, <4>3 DEF SP!EndsIn, serverVars
      <4> QED BY <4>2, <4>4
    <3> QED BY <1>2, <3>2, <3>3
  <2> QED BY <2>1, <2>2 DEF SP!InTurn
<1>6. SP!Counted'
  BY <1>1 DEF Ends, SP!Counted, SP!Numbered, SP!DispatchedOnce, serverVars
<1> QED BY <1>4, <1>5, <1>6

\* So every step keeps both.
LEMMA EndsKept ==
  ASSUME Ends, [LinkNext]_linkVars
  PROVE  Ends'
<1>1. CASE ClientPart
  <2>1. Inv'
    BY <1>1, ClientIsClient, InvKept DEF Ends
  <2> QED BY <1>1, <2>1, ServerKeptByClient DEF Ends
<1>2. CASE ServerPart
  <2>1. Inv'
    BY <1>2, InvKeptByServer DEF Ends
  <2>2. SP!Typed' /\ SP!InTurn' /\ SP!Counted'
    BY <1>2, SP!StepTyped, SP!StepInTurn, SP!StepCounts, ServerConstants
    DEF SP!Next, ServerPart, Ends
  <2> QED BY <2>1, <2>2 DEF Ends
<1> QED BY <1>1, <1>2, LinkParts

\* They do in the beginning,
LEMMA EndsStart == LinkInit => Ends
<1> SUFFICES ASSUME LinkInit PROVE Ends
  OBVIOUS
<1>1. Inv
  BY InitTyped, InitInvariant DEF Inv, LinkInit
<1>2. SP!Init
  BY DEF LinkInit, Init, SP!Init, S!NoPacket, SP!NoPacket, S!NoRequest, SP!NoRequest,
     S!NoReply, SP!NoReply, EmptyMap, SP!EmptyMap, clientGone
<1>3. SP!Typed /\ SP!InTurn /\ SP!Counted
  BY <1>2, SP!InitTyped, SP!InitInTurn, SP!InitCounted, ServerConstants
<1> QED BY <1>1, <1>3 DEF Ends

\* hence always.
LEMMA EndsHold == LinkSpec => []Ends
  BY EndsStart, EndsKept, PTL DEF LinkSpec

\* The types of the server's variables, in the names of this module.
LEMMA ServerTypes ==
  ASSUME SP!Typed, SP!Counted
  PROVE  /\ srvAnswer \in Packet /\ srvRequest \in [id: Nat, received: Nat]
         /\ srvReply \in [msgno: Nat, id: Nat, len: Nat, offset: Nat]
         /\ served \in Seq([id: Nat, received: Nat, reply: Nat])
         /\ IsMap(srvIncoming) /\ DOMAIN srvIncoming \subseteq Nat
         /\ \A m \in DOMAIN srvIncoming : /\ srvIncoming[m] \in [id: Nat, received: Nat]
                                          /\ m < srvNextIn
         /\ srvNextIn \in Nat /\ srvNextOut \in Nat
         /\ c2s \in Seq(Packet) /\ s2c \in Seq(Packet)
<1>1. DOMAIN srvIncoming \subseteq 0..(srvNextIn - 1) /\ srvNextIn \in Nat
  BY DEF SP!Counted, SP!Numbered, SP!Typed, SP!DataTypes, SP!TableTypes
<1>2. srvAnswer \in Packet /\ c2s \in Seq(Packet) /\ s2c \in Seq(Packet)
  BY DEF SP!Typed, SP!DataTypes, SP!TaskTypes, SP!StreamTypes, SP!Packet, Packet,
     SP!PacketType, PacketType
<1>3. IsMap(srvIncoming)
  BY DEF SP!Typed, SP!DataTypes, SP!TableTypes, SP!IsMap, IsMap
<1>4. /\ srvRequest \in [id: Nat, received: Nat]
      /\ srvReply \in [msgno: Nat, id: Nat, len: Nat, offset: Nat]
      /\ served \in Seq([id: Nat, received: Nat, reply: Nat]) /\ srvNextOut \in Nat
      /\ \A m \in DOMAIN srvIncoming : srvIncoming[m] \in [id: Nat, received: Nat]
  BY DEF SP!Typed, SP!DataTypes, SP!TaskTypes, SP!TableTypes
<1>5. \A m \in DOMAIN srvIncoming : m \in Nat /\ m < srvNextIn
  BY <1>1
<1> QED BY <1>1, <1>2, <1>3, <1>4, <1>5

-----------------------------------------------------------------------------
(* Flow control as the receiver sees it.                                   *)

\* An ACK is of bytes the server has read, as long as it still counts them.
AckOk(p) ==
  p.type = "ACK" =>
    /\ p.msgno < srvNextIn
    /\ p.msgno \in DOMAIN srvIncoming => p.n <= srvIncoming[p.msgno].received

\* So it is of the ACKs on their way, and of what the calls were told.
AcksOk ==
  /\ \A i \in 1..Len(s2c) : AckOk(s2c[i])
  /\ server = "answering" => AckOk(srvAnswer)
  /\ \A m \in DOMAIN outgoing :
       outgoing[m].acknowledged > 0 => AckOk(Ack(m, outgoing[m].acknowledged))

\* The server never takes back what it has counted.
LEMMA AckStays ==
  ASSUME SP!Typed, SP!Counted, ServerPart, NEW p \in Packet, AckOk(p)
  PROVE  AckOk(p)'
<1>0. /\ p.msgno \in Nat /\ p.n \in Nat /\ srvNextIn \in Nat /\ IsMap(srvIncoming)
      /\ \A m \in DOMAIN srvIncoming : /\ srvIncoming[m] \in [id: Nat, received: Nat]
                                       /\ m < srvNextIn
  BY ServerTypes DEF Packet
<1>1. CASE UNCHANGED <<srvIncoming, srvNextIn>>
  BY <1>1 DEF AckOk
<1>2. ASSUME NEW q \in Packet, OpensRequest(q) PROVE AckOk(p)'
  <2>1. /\ DOMAIN srvIncoming' = DOMAIN srvIncoming \cup {srvNextIn}
        /\ \A k \in DOMAIN srvIncoming : k # srvNextIn => srvIncoming'[k] = srvIncoming[k]
        /\ srvNextIn' = srvNextIn + 1
    BY <1>2 DEF OpensRequest, Insert
  <2> QED BY <1>0, <2>1 DEF AckOk
<1>3. ASSUME NEW q \in Packet, AddsToRequest(q) PROVE AckOk(p)'
  <2>1. /\ DOMAIN srvIncoming' = DOMAIN srvIncoming /\ srvNextIn' = srvNextIn /\ q.n \in Nat
        /\ \A k \in DOMAIN srvIncoming :
             srvIncoming'[k].received = IF k = q.msgno
                                        THEN srvIncoming[k].received + q.n
                                        ELSE srvIncoming[k].received
    BY <1>0, <1>3 DEF AddsToRequest, IsMap, Packet
  <2> QED BY <1>0, <2>1 DEF AckOk
<1>4. ASSUME NEW q \in Packet, ClosesRequest(q) PROVE AckOk(p)'
  <2>1. /\ DOMAIN srvIncoming' \subseteq DOMAIN srvIncoming /\ srvNextIn' = srvNextIn
        /\ \A k \in DOMAIN srvIncoming' : srvIncoming'[k] = srvIncoming[k]
    BY <1>4 DEF ClosesRequest, Without
  <2> QED BY <1>0, <2>1 DEF AckOk
<1> QED BY <1>1, <1>2, <1>3, <1>4, ServerActs
        DEF ServerPart, ServerReads, PassesOver, ServerWrites, ServerBegins, ServerMovesOn,
            ServerEnds

\* The ACKs stay so, whoever takes a step.
LEMMA AcksKept ==
  ASSUME Ends, AcksOk, [LinkNext]_linkVars
  PROVE  AcksOk'
<1>0. /\ Typed /\ SP!Typed /\ SP!Counted /\ s2c \in Seq(Packet) /\ Len(s2c) \in Nat
      /\ \A i \in 1..Len(s2c) : s2c[i] \in Packet
      /\ srvAnswer \in Packet
      /\ \A m \in DOMAIN outgoing : outgoing[m] \in [sent: Nat, acknowledged: Nat] /\ m \in Nat
      /\ IsMap(outgoing)
  BY ServerTypes, LenProperties DEF Ends, Inv, Typed, TypeOK, HandleTypes
<1>1. CASE ClientPart
  <2>1. UNCHANGED <<server, srvAnswer, srvIncoming, srvNextIn>>
    BY <1>1 DEF ClientPart, serverVars
  <2>2. \A i \in 1..Len(s2c') : AckOk(s2c[i])'
    <3>1. s2c' = s2c \/ (s2c # <<>> /\ s2c' = Tail(s2c))
      BY <1>0, <1>1, ClientWire
    <3>2. \A i \in 1..Len(s2c') : \E j \in 1..Len(s2c) : s2c'[i] = s2c[j]
      BY <1>0, <3>1
    <3> QED BY <2>1, <3>2 DEF AcksOk, AckOk
  <2>3. ASSUME NEW m \in DOMAIN outgoing', outgoing'[m].acknowledged > 0
        PROVE  AckOk(Ack(m, outgoing[m].acknowledged))'
    <3>1. CASE m \in DOMAIN outgoing /\ outgoing'[m].acknowledged = outgoing[m].acknowledged
      BY <2>1, <2>3, <3>1 DEF AcksOk, AckOk, Ack
    <3>2. CASE \E c \in Calls : Track(c)
      <4>1. PICK c \in Calls : Track(c)
        BY <3>2
      <4>2. \/ outgoing'[m] = [sent |-> 0, acknowledged |-> 0]
            \/ m \in DOMAIN outgoing /\ outgoing'[m] = outgoing[m]
        BY <4>1 DEF Track, Insert
      <4> QED BY <2>3, <3>1, <4>2
    <3>3. CASE \E c \in Calls : CountSent(c) \/ Release(c) \/ Untrack(c)
      <4>1. m \in DOMAIN outgoing /\ outgoing'[m].acknowledged = outgoing[m].acknowledged
        <5>1. CASE \E c \in Calls : Release(c) \/ Untrack(c)
          BY <2>3, <5>1 DEF Release, Untrack, Without
        <5>2. CASE \E c \in Calls : CountSent(c)
          BY <1>0, <2>3, <5>2 DEF CountSent, IsMap
        <5> QED BY <3>3, <5>1, <5>2
      <4> QED BY <3>1, <4>1
    <3>4. CASE RouteAck
      <4>1. CASE UNCHANGED outgoing
        BY <3>1, <4>1
      <4>2. CASE /\ Head(s2c).msgno \in DOMAIN outgoing
                 /\ outgoing' = [outgoing EXCEPT ![Head(s2c).msgno].acknowledged = Head(s2c).n]
        <5>1. CASE m = Head(s2c).msgno
          <6>1. Head(s2c) = s2c[1] /\ 1 \in 1..Len(s2c) /\ Head(s2c).type = "ACK"
            BY <1>0, <3>4 DEF RouteAck, Reads
          <6>2. AckOk(Head(s2c))
            BY <6>1 DEF AcksOk
          <6>3. outgoing'[m].acknowledged = Head(s2c).n
            BY <1>0, <4>2, <5>1 DEF IsMap
          <6> QED BY <2>1, <5>1, <6>1, <6>2, <6>3 DEF AckOk, Ack
        <5>2. CASE m # Head(s2c).msgno
          <6>1. m \in DOMAIN outgoing /\ outgoing'[m] = outgoing[m]
            BY <1>0, <4>2, <5>2, <2>3 DEF IsMap
          <6> QED BY <3>1, <6>1
        <5> QED BY <5>1, <5>2
      <4> QED BY <3>4, <4>1, <4>2 DEF RouteAck, AckAccepted
    <3>5. CASE UNCHANGED outgoing
      BY <3>1, <3>5
    <3> QED BY <1>1, <3>2, <3>3, <3>4, <3>5, ClientIsClient, OutgoingWriters
  <2> QED BY <2>1, <2>2, <2>3 DEF AcksOk, AckOk
<1>2. CASE ServerPart
  <2>1. \A m \in DOMAIN outgoing' : m \in DOMAIN outgoing /\ outgoing'[m] = outgoing[m]
    BY <1>2 DEF ServerPart, clientOnly
  <2>2. ASSUME NEW m \in DOMAIN outgoing', outgoing'[m].acknowledged > 0
        PROVE  AckOk(Ack(m, outgoing[m].acknowledged))'
    <3>1. PICK p : p = Ack(m, outgoing[m].acknowledged)
      OBVIOUS
    <3>2. p \in Packet /\ AckOk(p)
      BY <1>0, <2>1, <2>2, <3>1, PacketTypes DEF AcksOk
    <3>3. AckOk(p)'
      BY <1>0, <1>2, <3>2, AckStays
    <3>4. p = Ack(m, outgoing'[m].acknowledged)
      BY <2>1, <2>2, <3>1
    <3> QED BY <3>3, <3>4 DEF AckOk
  <2>3. server' = "answering" => AckOk(srvAnswer)'
    <3> SUFFICES ASSUME server' = "answering" PROVE AckOk(srvAnswer)'
      OBVIOUS
    <3>1. PICK q \in Packet : AddsToRequest(q) \/ PassesOver(q)
      BY <1>0, <1>2, ServerActs
      DEF ServerPart, ServerReads, OpensRequest, ClosesRequest, ServerWrites, ServerBegins,
          ServerMovesOn, ServerEnds
    <3>2. CASE AddsToRequest(q)
      <4>1. /\ srvIncoming'[q.msgno].received = srvIncoming[q.msgno].received + q.n
            /\ srvNextIn' = srvNextIn
        BY <1>0, <3>2, ServerTypes DEF AddsToRequest, IsMap
      <4>0. q.msgno \in DOMAIN srvIncoming /\ q.n \in Nat
        BY <3>2 DEF AddsToRequest, Packet
      <4>2. q.msgno < srvNextIn /\ srvIncoming[q.msgno].received + q.n \in Nat
        <5>1. srvIncoming[q.msgno].received \in Nat
          BY <1>0, <4>0, ServerTypes
        <5>2. q.msgno < srvNextIn
          BY <1>0, <4>0, ServerTypes
        <5> QED BY <4>0, <5>1, <5>2
      <4> QED BY <3>2, <4>1, <4>2 DEF AddsToRequest, AckOk, Ack
    <3>3. CASE PassesOver(q)
      BY <3>3 DEF PassesOver, AckOk
    <3> QED BY <3>1, <3>2, <3>3
  <2>4. ASSUME NEW i \in 1..Len(s2c') PROVE AckOk(s2c[i])'
    <3>1. PICK p : p = s2c'[i]
      OBVIOUS
    <3>2. p \in Packet /\ AckOk(p)
      <4>1. CASE UNCHANGED s2c
        BY <1>0, <2>4, <3>1, <4>1 DEF AcksOk
      <4>2. CASE \E q \in Packet : ServerWrites(q)
        <5>1. PICK q \in Packet : ServerWrites(q)
          BY <4>2
        <5>2. p = q \/ \E j \in 1..Len(s2c) : p = s2c[j]
          BY <1>0, <3>1, <5>1 DEF ServerWrites
        <5>3. AckOk(q)
          BY <5>1 DEF ServerWrites, AcksOk, AckOk, Header, Data, Eof
        <5> QED BY <1>0, <5>2, <5>3 DEF AcksOk
      <4> QED BY <1>0, <1>2, <4>1, <4>2, ServerActs
              DEF ServerPart, ServerReads, ServerTakes, ServerBegins, ServerMovesOn, ServerEnds
    <3>3. AckOk(p)'
      BY <1>0, <1>2, <3>2, AckStays
    <3> QED BY <3>1, <3>3 DEF AckOk
  <2> QED BY <2>2, <2>3, <2>4 DEF AcksOk
<1> QED BY <1>1, <1>2, LinkParts

\* The ACKs never run ahead of what the server has read: less than Watermark +
\* Chunk bytes of a request are ever between the two ends.
THEOREM Backlog == LinkSpec => []BacklogBounded
<1>1. LinkInit => AcksOk
  BY EmptyMapFacts DEF LinkInit, Init, AcksOk
<1>2. ASSUME Ends, AcksOk, NEW c \in Calls, pc[c] \in Tracked
      PROVE  Handed(c) - Counted(c) < Watermark + Chunk
  <2>1. /\ mno[c] \in DOMAIN outgoing /\ mno[c] \in Nat /\ len[c] \in Nat
        /\ outgoing[mno[c]] \in [sent: Nat, acknowledged: Nat]
    BY <1>2 DEF Ends, Inv, Typed, TypeOK, CallTypes, HandleTypes, IInv, OutgoingExact
  <2>2. /\ Handed(c) <= len[c] /\ Handed(c) \in Nat
        /\ Handed(c) - outgoing[mno[c]].acknowledged < Watermark + Chunk
    <3>1. WindowBounded
      BY <1>2, InvWindow DEF Ends
    <3>2. Handed(c) \in Nat
      BY <1>2, HandedType DEF Ends, Inv
    <3> QED BY <1>2, <2>1, <3>1, <3>2 DEF WindowBounded
  <2>3. outgoing[mno[c]].acknowledged > 0 => AckOk(Ack(mno[c], outgoing[mno[c]].acknowledged))
    BY <1>2, <2>1 DEF AcksOk
  <2>4. /\ srvNextIn \in Nat
        /\ \A m \in DOMAIN srvIncoming : srvIncoming[m].received \in Nat /\ m < srvNextIn
    BY <1>2, ServerTypes DEF Ends
  <2>5. mno[c] \in DOMAIN srvIncoming =>
          outgoing[mno[c]].acknowledged <= srvIncoming[mno[c]].received
    BY <2>1, <2>3, <2>4 DEF AckOk, Ack
  <2>6. mno[c] >= srvNextIn => outgoing[mno[c]].acknowledged = 0
    BY <2>1, <2>3, <2>4 DEF AckOk, Ack
  <2> QED BY <2>1, <2>2, <2>4, <2>5, <2>6 DEF Counted
<1>3. Ends /\ AcksOk => BacklogBounded
  BY <1>2 DEF BacklogBounded
<1>4. Ends /\ AcksOk /\ [LinkNext]_linkVars => AcksOk'
  BY AcksKept
<1> QED BY <1>1, <1>3, <1>4, EndsHold, PTL DEF LinkSpec

-----------------------------------------------------------------------------
(* Counting the bytes of one message in a stream.                          *)

\* The bytes packet p adds to the body of message m.
BytesOf(p, m) == IF p.type = "DATA" /\ p.msgno = m THEN p.n ELSE 0

\* P counts the bytes of message m along the stream q, on top of what was read
\* before: P[i] is the count behind the i-th packet.  The body is empty where the
\* HEADER stands, and has its whole length where the EOF does.
Tallies(P, q, m, total) ==
  /\ P \in [0..Len(q) -> Nat]
  /\ \A i \in 1..Len(q) : /\ P[i] = P[i - 1] + BytesOf(q[i], m)
                          /\ (q[i].type = "HEADER" /\ q[i].msgno = m) => P[i] = 0
                          /\ (q[i].type = "EOF" /\ q[i].msgno = m) => P[i] = total

\* The message has no packet in the stream.
Silent(q, m) == \A i \in 1..Len(q) : IsRequestPacket(q[i]) => q[i].msgno # m

\* The bytes of a packet are a number.
LEMMA BytesOfType ==
  ASSUME NEW p \in Packet, NEW m
  PROVE  BytesOf(p, m) \in Nat
  BY DEF BytesOf, Packet

\* A stream without packets of the message counts nothing.
LEMMA TallySilent ==
  ASSUME NEW q \in Seq(Packet), NEW m, NEW total, Silent(q, m)
  PROVE  Tallies([i \in 0..Len(q) |-> 0], q, m, total)
<1>1. Len(q) \in Nat
  BY LenProperties
<1>2. \A i \in 1..Len(q) : BytesOf(q[i], m) = 0 /\ i - 1 \in 0..Len(q) /\ i \in 0..Len(q)
  BY <1>1 DEF Silent, IsRequestPacket, BytesOf
<1>3. \A i \in 1..Len(q) : ~(q[i].type \in {"HEADER", "EOF"} /\ q[i].msgno = m)
  BY DEF Silent, IsRequestPacket
<1> QED BY <1>1, <1>2, <1>3 DEF Tallies

\* r is what q holds from behind its k-th packet on.
PartFrom(r, q, k) == k + Len(r) <= Len(q) /\ \A i \in 1..Len(r) : r[i] = q[k + i]

\* A part of the stream is counted from where it starts.
LEMMA TallyPart ==
  ASSUME NEW q \in Seq(Packet), NEW r \in Seq(Packet), NEW m, NEW total, NEW P,
         Tallies(P, q, m, total), NEW k \in Nat, PartFrom(r, q, k)
  PROVE  \E R : /\ Tallies(R, r, m, total)
                /\ R[0] = P[k] /\ R[Len(r)] = P[k + Len(r)]
<1> DEFINE R == [i \in 0..Len(r) |-> P[k + i]]
<1>1. Len(q) \in Nat /\ Len(r) \in Nat
  BY LenProperties
<1>2. \A i \in 0..Len(r) : k + i \in 0..Len(q) /\ R[i] = P[k + i]
  BY <1>1 DEF PartFrom
<1>3. R \in [0..Len(r) -> Nat]
  BY <1>2 DEF Tallies
<1>4. ASSUME NEW i \in 1..Len(r)
      PROVE  /\ R[i] = R[i - 1] + BytesOf(r[i], m)
             /\ (r[i].type = "HEADER" /\ r[i].msgno = m) => R[i] = 0
             /\ (r[i].type = "EOF" /\ r[i].msgno = m) => R[i] = total
  <2>1. /\ k + i \in 1..Len(q) /\ i - 1 \in 0..Len(r) /\ i \in 0..Len(r)
        /\ k + (i - 1) = (k + i) - 1
    BY <1>1 DEF PartFrom
  <2>2. R[i] = P[k + i] /\ R[i - 1] = P[(k + i) - 1] /\ r[i] = q[k + i]
    BY <1>2, <2>1 DEF PartFrom
  <2> QED BY <2>1, <2>2 DEF Tallies
<1>5. R[0] = P[k] /\ R[Len(r)] = P[k + Len(r)]
  BY <1>1, <1>2
<1> HIDE DEF R
<1>6. Tallies(R, r, m, total)
  BY <1>3, <1>4 DEF Tallies
<1> QED BY <1>5, <1>6

\* A packet more is counted on top.
LEMMA TallyAppend ==
  ASSUME NEW q \in Seq(Packet), NEW m, NEW total, NEW P, Tallies(P, q, m, total),
         NEW p \in Packet,
         (p.type = "HEADER" /\ p.msgno = m) => P[Len(q)] = 0,
         (p.type = "EOF" /\ p.msgno = m) => P[Len(q)] = total
  PROVE  \E R : /\ Tallies(R, Append(q, p), m, total)
                /\ R[0] = P[0]
                /\ R[Len(Append(q, p))] = P[Len(q)] + BytesOf(p, m)
<1> DEFINE r == Append(q, p)
           R == [i \in 0..(Len(q) + 1) |-> IF i <= Len(q) THEN P[i] ELSE P[Len(q)] + BytesOf(p, m)]
<1>1. /\ Len(q) \in Nat /\ Len(r) = Len(q) + 1
      /\ \A i \in 1..Len(q) : r[i] = q[i]
      /\ r[Len(q) + 1] = p
  BY LenProperties, AppendProperties
<1> HIDE DEF r
<1>2. BytesOf(p, m) \in Nat /\ P \in [0..Len(q) -> Nat]
  BY BytesOfType DEF Tallies
<1>3. /\ R \in [0..Len(r) -> Nat]
      /\ \A i \in 0..Len(q) : R[i] = P[i]
      /\ R[Len(q) + 1] = P[Len(q)] + BytesOf(p, m)
  BY <1>1, <1>2
<1> HIDE DEF R
<1>4. ASSUME NEW i \in 1..Len(r)
      PROVE  /\ R[i] = R[i - 1] + BytesOf(r[i], m)
             /\ (r[i].type = "HEADER" /\ r[i].msgno = m) => R[i] = 0
             /\ (r[i].type = "EOF" /\ r[i].msgno = m) => R[i] = total
  <2>1. CASE i \in 1..Len(q)
    <3>1. R[i] = P[i] /\ R[i - 1] = P[i - 1] /\ r[i] = q[i]
      BY <1>1, <1>3, <2>1
    <3> QED BY <2>1, <3>1 DEF Tallies
  <2>2. CASE i = Len(q) + 1
    <3>1. R[i - 1] = P[Len(q)] /\ r[i] = p /\ R[i] = P[Len(q)] + BytesOf(p, m)
      BY <1>1, <1>3, <2>2
    <3>2. p.type \in {"HEADER", "EOF"} => BytesOf(p, m) = 0
      BY DEF BytesOf
    <3>3. P[Len(q)] \in Nat
      BY <1>1, <1>2
    <3> QED BY <3>1, <3>2, <3>3
  <2> QED BY <1>1, <2>1, <2>2
<1>5. Tallies(R, r, m, total)
  BY <1>3, <1>4 DEF Tallies
<1>6. R[0] = P[0] /\ R[Len(r)] = P[Len(q)] + BytesOf(p, m)
  BY <1>1, <1>3
<1> QED BY <1>5, <1>6 DEF r

-----------------------------------------------------------------------------
(* What has become of every request.                                       *)

\* The bytes of the request of c: those the server has counted, those in the
\* stream and those the call has handed out agree.
RequestTally(c, P) ==
  /\ Tallies(P, Stream, mno[c], len[c])
  /\ (mno[c] \in DOMAIN srvIncoming /\ server # "ended") => P[0] = srvIncoming[mno[c]].received
  /\ writer = "running" => P[Len(Stream)] = Handed(c)
RequestsTallied == \A c \in Calls : HasNumber(c) => \E P : RequestTally(c, P)

\* A request coming in is that of a call, under its id.
OpenOwned == \A m \in DOMAIN srvIncoming : \E c \in Calls : IsOf(Header(m, srvIncoming[m].id), c)

\* d is the whole request of a call that has nothing more to send of it.
Gone(c) ==
  /\ HasNumber(c) /\ pc[c] \in Answered
  /\ mno[c] \notin DOMAIN srvIncoming
  /\ Silent(Stream, mno[c])
IsWhole(d) == \E c \in Calls : Gone(c) /\ rid[c] = d.id /\ len[c] = d.received

\* So are the requests dispatched and the one in hand, and they are different.
InHandNow == server \in {"checking", "handling"}
Dispatches ==
  /\ \A k \in 1..Len(served) : IsWhole(served[k])
  /\ InHandNow => IsWhole(srvRequest)
  /\ \A k, l \in 1..Len(served) : served[k].id = served[l].id => k = l
  /\ InHandNow => \A k \in 1..Len(served) : served[k].id # srvRequest.id

\* Handed changes only with the stream.
LEMMA HandedKept ==
  ASSUME Typed, [Next]_vars, NEW c \in Calls, HasNumber(c), writer = "running", writer' = writer
  PROVE  \/ SendChunk(c) /\ chan' # chan /\ Handed(c)' = Handed(c) + ChunkLen(c)
         \/ Handed(c)' = Handed(c)
<1>1. /\ Placed /\ pc \in [Calls -> PCs] /\ offset \in [Calls -> Nat] /\ len \in [Calls -> Nat]
      /\ ChunkLen(c) \in Nat /\ chan \in Seq(Packet)
  BY TypedPlaced, ChunkLenBound DEF Typed, TypeOK, CallTypes, WireTypes, Offsets, Progress
<1>2. len'[c] = len[c]
  BY <1>1, LocalsWriters DEF Start, HasNumber, Numbered, Tracked
<1>3. CASE CountSent(c)
  BY <1>1, <1>3 DEF CountSent, Goto, Handed
<1>4. CASE SendChunk(c)
  <2>1. /\ chan' # chan /\ offset' = offset
        /\ pc[c] = "chunk" /\ pc' = [pc EXCEPT ![c] = "count"]
    BY <1>1, <1>4, AppendProperties DEF SendChunk, Enqueue, Goto
  <2>2. ChunkLen(c)' = ChunkLen(c)
    BY <1>2, <2>1 DEF ChunkLen
  <2> QED BY <1>1, <1>4, <2>1, <2>2 DEF Handed
<1>5. CASE ~CountSent(c) /\ ~SendChunk(c)
  <2>1. offset'[c] = offset[c]
    BY <1>1, <1>5, LocalsWriters DEF CountSent
  <2>2. pc'[c] = "count" <=> pc[c] = "count"
    BY <1>1, <1>5, CallMoves
    DEF Start, CallStep, TakeRequestId, TakeMsgNo, Register, Track, SendHeader, CheckClosed,
        CheckWindow, Park, CountSent, SendEof, TakeResponse, TimeOut, Expire, Release,
        Unregister, Untrack, Enqueue, NextChunkOrEof, Goto
  <2>3. ChunkLen(c)' = ChunkLen(c)
    BY <1>2, <2>1 DEF ChunkLen
  <2> QED BY <2>1, <2>2, <2>3 DEF Handed
<1> QED BY <1>3, <1>4, <1>5

\* A step of the client keeps the count of a call that has its number.
LEMMA TallyKept ==
  ASSUME Ends, ClientPart, NEW c \in Calls, HasNumber(c), ~TakeMsgNo(c),
         NEW P, RequestTally(c, P)
  PROVE  \E R : RequestTally(c, R)'
<1>0. /\ Typed /\ IdsUnique /\ [Next]_vars /\ UNCHANGED serverVars
      /\ Stream \in Seq(Packet) /\ c2s \in Seq(Packet) /\ chan \in Seq(Packet)
  BY ClientIsClient, ConcatFacts DEF Ends, Inv, IInv, ClientPart, Typed, TypeOK, WireTypes, Stream
<1>1. mno'[c] = mno[c] /\ len'[c] = len[c]
  BY <1>0, NumbersStay
<1>2. UNCHANGED <<server, srvIncoming>>
  BY <1>0 DEF serverVars
<1>3. /\ P \in [0..Len(Stream) -> Nat] /\ Len(Stream) \in Nat
      /\ Handed(c) \in Nat
  BY <1>0, LenProperties, HandedType DEF RequestTally, Tallies
<1>4. CASE writer' = writer /\ Stream' = Stream
  <2>1. writer = "running" => Handed(c)' = Handed(c)
    <3>1. ASSUME SendChunk(c), writer = "running", chan' # chan PROVE FALSE
      <4>1. PICK p \in Packet : p = Data(mno[c], ChunkLen(c))
        BY <1>0, <3>1, AddsPacket DEF Adds
      <4>2. c2s' = c2s /\ chan' = Append(chan, p)
        BY <3>1, <4>1 DEF SendChunk, Enqueue
      <4>3. Stream' = Append(Stream, p)
        BY <1>0, <4>2, ConcatFacts DEF Stream
      <4> QED BY <1>0, <1>3, <1>4, <4>3, AppendProperties
    <3> QED BY <1>0, <1>4, <3>1, HandedKept
  <2>2. RequestTally(c, P)'
    BY <1>1, <1>2, <1>4, <2>1 DEF RequestTally
  <2> QED BY <2>2
<1>5. CASE writer' = "ended" /\ Stream' = c2s
  <2>1. PartFrom(c2s, Stream, 0)
    <3>1. /\ Len(c2s) \in Nat /\ 0 + Len(c2s) <= Len(Stream)
          /\ \A i \in 1..Len(c2s) : c2s[i] = Stream[0 + i]
      BY <1>0, ConcatFacts, LenProperties DEF Stream
    <3> QED BY <3>1 DEF PartFrom
  <2>2. PICK R : Tallies(R, c2s, mno[c], len[c]) /\ R[0] = P[0]
    BY <1>0, <2>1, TallyPart DEF RequestTally
  <2>5. RequestTally(c, R)'
    BY <1>1, <1>2, <1>5, <2>2 DEF RequestTally
  <2> QED BY <2>5
<1>6. ASSUME NEW p \in Packet, Adds(p), writer = "running", writer' = "running",
             Stream' = Append(Stream, p)
      PROVE  \E R : RequestTally(c, R)'
  <2>1. P[Len(Stream)] = Handed(c)
    BY <1>6 DEF RequestTally
  <2>2. Progress(c)
    BY DEF Ends, Inv, Typed, Offsets
  <2>3. Stream' # Stream
    BY <1>0, <1>6, LenProperties
  <2>4. ~IsRequestPacket(answer)
    BY DEF Ends, Inv, IInv, PacketsOwned
  <2>5. /\ Handed(c)' = Handed(c) + BytesOf(p, mno[c])
        /\ (p.type = "HEADER" /\ p.msgno = mno[c]) => P[Len(Stream)] = 0
        /\ (p.type = "EOF" /\ p.msgno = mno[c]) => P[Len(Stream)] = len[c]
    <3>1. CASE ReaderAnswers /\ p = answer
      <4>1. ~SendChunk(c) \/ chan' = chan \/ pc'[c] = "count"
        BY <1>0 DEF SendChunk, Enqueue, Goto, Typed, TypeOK, CallTypes
      <4>2. Handed(c)' = Handed(c)
        BY <1>0, <1>6, <3>1, HandedKept DEF ReaderAnswers, SendChunk, Enqueue
      <4> QED BY <1>3, <2>4, <3>1, <4>2 DEF IsRequestPacket, BytesOf
    <3>2. CASE \E d \in Calls : \/ SendHeader(d) /\ p = Header(mno[d], rid[d])
                                \/ SendChunk(d) /\ p = Data(mno[d], ChunkLen(d))
                                \/ SendEof(d) /\ p = Eof(mno[d])
      <4>1. PICK d \in Calls : \/ SendHeader(d) /\ p = Header(mno[d], rid[d])
                               \/ SendChunk(d) /\ p = Data(mno[d], ChunkLen(d))
                               \/ SendEof(d) /\ p = Eof(mno[d])
        BY <3>2
      <4>2. HasNumber(d) /\ p.msgno = mno[d]
        BY <4>1 DEF SendHeader, SendChunk, SendEof, HasNumber, Numbered, Tracked, Header, Data, Eof
      <4>3. CASE d # c
        <5>1. mno[d] # mno[c]
          BY <4>2, <4>3 DEF Ends, Inv, IInv, MsgNosUnique
        <5>2. ~SendChunk(c)
          <6>1. pc \in [Calls -> PCs]
            BY <1>0 DEF Typed, TypeOK, CallTypes
          <6>2. pc'[c] = pc[c]
            <7>1. chan' # chan
              BY <1>6, <2>3, <4>1 DEF SendHeader, SendChunk, SendEof, Enqueue, Stream
            <7> QED BY <4>1, <4>3, <6>1, <7>1 DEF SendHeader, SendChunk, SendEof, Enqueue, Goto
          <6> QED BY <1>6, <6>1, <6>2 DEF SendChunk, Enqueue, Goto
        <5>3. Handed(c)' = Handed(c)
          BY <1>0, <1>6, <5>2, HandedKept
        <5> QED BY <1>3, <4>2, <5>1, <5>3 DEF BytesOf
      <4>4. CASE d = c
        <5>1. CASE SendHeader(c) /\ p = Header(mno[c], rid[c])
          <6>1. Handed(c)' = Handed(c) /\ Handed(c) = 0
            BY <1>0, <1>6, <2>2, <5>1, HandedKept DEF SendHeader, SendChunk, Progress, Handed
          <6> QED BY <1>3, <2>1, <5>1, <6>1 DEF Header, BytesOf
        <5>2. CASE SendChunk(c) /\ p = Data(mno[c], ChunkLen(c))
          <6>1. /\ pc[c] = "chunk" /\ pc'[c] = "count" /\ offset' = offset /\ len' = len
            BY <1>0, <1>6, <5>2 DEF SendChunk, Enqueue, Goto, Typed, TypeOK, CallTypes
          <6>2. Handed(c)' = Handed(c) + ChunkLen(c)
            <7>1. offset[c] \in Nat /\ ChunkLen(c)' = ChunkLen(c)
              BY <1>0, <6>1 DEF ChunkLen, Typed, TypeOK, CallTypes
            <7> QED BY <6>1, <7>1 DEF Handed
          <6> QED BY <5>2, <6>2 DEF Data, BytesOf
        <5>3. CASE SendEof(c) /\ p = Eof(mno[c])
          <6>1. Handed(c)' = Handed(c) /\ Handed(c) = len[c]
            <7>1. offset[c] \in Nat /\ offset[c] = len[c] /\ pc[c] = "eof"
              BY <1>0, <2>2, <5>3 DEF SendEof, Progress, Typed, TypeOK, CallTypes
            <7>2. Handed(c)' = Handed(c)
              BY <1>0, <1>6, <7>1, HandedKept DEF SendChunk
            <7> QED BY <7>1, <7>2 DEF Handed
          <6> QED BY <1>3, <2>1, <5>3, <6>1 DEF Eof, BytesOf
        <5> QED BY <4>1, <4>4, <5>1, <5>2, <5>3
      <4> QED BY <4>3, <4>4
    <3> QED BY <1>6, <3>1, <3>2 DEF Adds
  <2>6. PICK R : /\ Tallies(R, Append(Stream, p), mno[c], len[c])
                 /\ R[0] = P[0]
                 /\ R[Len(Append(Stream, p))] = P[Len(Stream)] + BytesOf(p, mno[c])
    BY <1>0, <2>5, TallyAppend DEF RequestTally
  <2>7. RequestTally(c, R)'
    BY <1>1, <1>2, <1>6, <2>1, <2>5, <2>6 DEF RequestTally
  <2> QED BY <2>7
<1>7. CASE UNCHANGED vars
  <2>1. writer' = writer /\ Stream' = Stream
    BY <1>7 DEF Stream
  <2> QED BY <1>4, <2>1
<1> QED BY <1>0, <1>4, <1>5, <1>6, <1>7, ClientStream DEF ClientPart

\* Nothing of a message has been sent before the message has its number.
LEMMA SilentNumber ==
  ASSUME Inv, OpenOwned
  PROVE  /\ Silent(Stream, next_outgoing_msg_no)
         /\ next_outgoing_msg_no \notin DOMAIN srvIncoming
<1>1. ASSUME NEW p, NEW c \in Calls, IsOf(p, c)
      PROVE  p.msgno # next_outgoing_msg_no
  <2>1. p.msgno = mno[c] /\ HasNumber(c)
    BY <1>1 DEF IsOf, Header, Eof
  <2>2. mno[c] < next_outgoing_msg_no /\ mno[c] \in Nat /\ next_outgoing_msg_no \in Nat
    BY <2>1 DEF Inv, IInv, MsgNosUnique, Typed, TypeOK, CallTypes, HandleTypes
  <2> QED BY <2>1, <2>2
<1>2. Stream \in Seq(Packet) /\ DOMAIN Stream = 1..Len(Stream)
  BY ConcatFacts, LenProperties DEF Stream, Inv, Typed, TypeOK, WireTypes
<1>3. Silent(Stream, next_outgoing_msg_no)
  BY <1>1, <1>2 DEF Silent, Inv, IInv, PacketsOwned
<1>4. next_outgoing_msg_no \notin DOMAIN srvIncoming
  <2> SUFFICES ASSUME NEW m \in DOMAIN srvIncoming PROVE m # next_outgoing_msg_no
    OBVIOUS
  <2>1. PICK c \in Calls : IsOf(Header(m, srvIncoming[m].id), c)
    BY DEF OpenOwned
  <2>2. Header(m, srvIncoming[m].id).msgno = m
    BY DEF Header
  <2> QED BY <1>1, <2>1, <2>2
<1> QED BY <1>3, <1>4

\* A call that takes its number starts with nothing counted.
LEMMA TallyStarts ==
  ASSUME Ends, OpenOwned, ClientPart, NEW c \in Calls, TakeMsgNo(c)
  PROVE  \E R : RequestTally(c, R)'
<1>0. /\ Typed /\ Stream \in Seq(Packet) /\ Len(Stream) \in Nat /\ UNCHANGED serverVars
  BY ConcatFacts, LenProperties DEF Ends, Inv, Typed, TypeOK, WireTypes, Stream, ClientPart
<1>1. /\ pc[c] = "msgno" /\ pc'[c] = "register" /\ mno'[c] = next_outgoing_msg_no
      /\ UNCHANGED <<len, offset, writer, chan, c2s>>
  BY <1>0 DEF TakeMsgNo, Goto, Typed, TypeOK, CallTypes
<1>2. Stream' = Stream /\ UNCHANGED <<server, srvIncoming>>
  BY <1>0, <1>1 DEF Stream, serverVars
<1>3. Handed(c)' = 0
  <2>1. Progress(c)
    BY <1>0 DEF Typed, Offsets
  <2> QED BY <1>1, <2>1 DEF Handed, Progress
<1>4. PICK R : R = [i \in 0..Len(Stream) |-> 0]
  OBVIOUS
<1>5. PICK m : m = next_outgoing_msg_no
  OBVIOUS
<1>6. Tallies(R, Stream, m, len[c]) /\ m \notin DOMAIN srvIncoming
  BY <1>0, <1>4, <1>5, SilentNumber, TallySilent DEF Ends
<1>7. R[Len(Stream)] = 0
  BY <1>0, <1>4
<1>8. RequestTally(c, R)'
  BY <1>1, <1>2, <1>3, <1>5, <1>6, <1>7 DEF RequestTally
<1> QED BY <1>8

\* So the client keeps all counts,
LEMMA TalliesKeptByClient ==
  ASSUME Ends, OpenOwned, RequestsTallied, ClientPart
  PROVE  RequestsTallied'
<1> SUFFICES ASSUME NEW c \in Calls, HasNumber(c)' PROVE (\E R : RequestTally(c, R))'
  BY DEF RequestsTallied
<1>1. CASE TakeMsgNo(c)
  BY <1>1, TallyStarts
<1>2. CASE ~TakeMsgNo(c)
  <2>1. HasNumber(c)
    BY <1>2, ClientIsClient, NumbersStay DEF Ends, Inv, IInv
  <2>2. PICK P : RequestTally(c, P)
    BY <2>1 DEF RequestsTallied
  <2> QED BY <1>2, <2>1, <2>2, TallyKept
<1> QED BY <1>1, <1>2

\* and so does the server: what it reads it counts.
LEMMA TalliesKeptByServer ==
  ASSUME Ends, RequestsTallied, ServerPart
  PROVE  RequestsTallied'
<1>0. /\ Typed /\ SP!Typed /\ UNCHANGED clientOnly
      /\ Stream \in Seq(Packet) /\ Stream' \in Seq(Packet)
      /\ Len(Stream) \in Nat /\ Len(Stream') \in Nat
      /\ IsMap(srvIncoming)
      /\ \A m \in DOMAIN srvIncoming : srvIncoming[m] \in [id: Nat, received: Nat]
  <2>1. Inv'
    BY InvKeptByServer DEF Ends
  <2> QED BY <2>1, ConcatFacts, LenProperties, ServerTypes
          DEF Ends, Inv, ServerPart, Typed, TypeOK, WireTypes, Stream
<1> SUFFICES ASSUME NEW c \in Calls, HasNumber(c)' PROVE \E R : RequestTally(c, R)'
  BY DEF RequestsTallied
<1>1. UNCHANGED <<mno, len, writer>> /\ Handed(c)' = Handed(c) /\ HasNumber(c)
  BY <1>0 DEF clientOnly, Handed, ChunkLen, HasNumber
<1>2. PICK P : RequestTally(c, P)
  BY <1>1 DEF RequestsTallied
<1>3. P \in [0..Len(Stream) -> Nat]
  BY <1>2 DEF RequestTally, Tallies
<1>4. CASE Stream' = Stream /\ UNCHANGED srvIncoming /\ (server' # "ended" => server # "ended")
  <2>1. RequestTally(c, P)'
    BY <1>1, <1>2, <1>4 DEF RequestTally
  <2> QED BY <2>1
<1>5. CASE ServerEnds
  <2>1. chan \in Seq(Packet) /\ Len(chan) \in Nat
    BY <1>0, LenProperties DEF Typed, TypeOK, WireTypes
  <2>3. /\ Stream' = chan /\ Len(Stream) = Len(c2s) + Len(chan)
        /\ \A i \in 1..Len(chan) : Stream[Len(c2s) + i] = chan[i]
        /\ Len(c2s) \in Nat
    BY <1>0, <1>5, ConcatFacts, LenProperties
    DEF ServerEnds, Stream, clientOnly, Typed, TypeOK, WireTypes
  <2>4. PICK k \in Nat : k = Len(c2s)
    BY <2>3
  <2>6. PartFrom(chan, Stream, k)
    BY <2>1, <2>3, <2>4 DEF PartFrom
  <2>5. PICK R : Tallies(R, chan, mno[c], len[c]) /\ R[Len(chan)] = P[k + Len(chan)]
    <3>1. Tallies(P, Stream, mno[c], len[c]) /\ Stream \in Seq(Packet)
      BY <1>0, <1>2 DEF RequestTally
    <3> QED BY <2>1, <2>6, <3>1, TallyPart
  <2>7. RequestTally(c, R)'
    BY <1>1, <1>2, <1>5, <2>3, <2>4, <2>5 DEF RequestTally, ServerEnds
  <2> QED BY <2>7
<1>6. ASSUME NEW p \in Packet, ServerReads(p)
      PROVE  \E R : RequestTally(c, R)'
  <2>1. /\ Stream # <<>> /\ Stream' = Tail(Stream) /\ p = Head(Stream) /\ server = "reading"
    <3>1. c2s # <<>> /\ p = Head(c2s) /\ c2s' = Tail(c2s)
      BY <1>6 DEF ServerReads, ServerTakes
    <3> QED BY <1>0, <1>6, <3>1, ConcatFacts DEF ServerReads, ServerTakes, Stream, clientOnly,
            Typed, TypeOK, WireTypes
  <2>2. /\ 1 + Len(Stream') <= Len(Stream) /\ Len(Stream') = Len(Stream) - 1
        /\ \A i \in 1..Len(Stream') : Stream'[i] = Stream[1 + i]
        /\ 1 \in 1..Len(Stream) /\ Stream[1] = p
    <3>1. /\ Len(Stream') = Len(Stream) - 1 /\ Len(Stream) > 0
          /\ \A i \in 1..Len(Stream') : Stream'[i] = Stream[i + 1]
      BY <1>0, <2>1, HeadTailProperties, EmptySeq
    <3> QED BY <1>0, <2>1, <3>1
  <2>3. PICK t \in Seq(Packet) : t = Stream'
    BY <1>0
  <2>4. PICK k \in Nat : k = 1
    OBVIOUS
  <2>5. PICK R : Tallies(R, t, mno[c], len[c]) /\ R[0] = P[k] /\ R[Len(t)] = P[k + Len(t)]
    <3>1. PartFrom(t, Stream, k)
      BY <2>2, <2>3, <2>4 DEF PartFrom
    <3> QED BY <1>0, <1>2, <2>3, <3>1, TallyPart DEF RequestTally
  <2>6. /\ R[0] = P[1] /\ R[Len(Stream')] = P[Len(Stream)]
        /\ P[1] = P[0] + BytesOf(p, mno[c]) /\ P[0] \in Nat
        /\ (p.type = "HEADER" /\ p.msgno = mno[c]) => P[1] = 0
    <3>1. /\ P[1] = P[1 - 1] + BytesOf(p, mno[c])
          /\ (p.type = "HEADER" /\ p.msgno = mno[c]) => P[1] = 0
      BY <1>2, <2>2 DEF RequestTally, Tallies
    <3>2. 1 + Len(Stream') = Len(Stream) /\ 0 \in 0..Len(Stream)
      BY <1>0, <2>2
    <3> QED BY <1>3, <2>3, <2>4, <2>5, <3>1, <3>2
  <2>7. mno[c] \in DOMAIN srvIncoming' => R[0] = srvIncoming'[mno[c]].received
    <3>0. mno[c] \in DOMAIN srvIncoming => P[0] = srvIncoming[mno[c]].received
      BY <1>2, <2>1 DEF RequestTally
    <3>1. CASE OpensRequest(p)
      <4>1. BytesOf(p, mno[c]) = 0
        BY <3>1 DEF OpensRequest, BytesOf
      <4>2. CASE p.msgno = mno[c]
        BY <2>6, <3>1, <4>2 DEF OpensRequest, Insert
      <4>3. CASE p.msgno # mno[c]
        <5>1. mno[c] \in DOMAIN srvIncoming' => /\ mno[c] \in DOMAIN srvIncoming
                                                /\ srvIncoming'[mno[c]] = srvIncoming[mno[c]]
          BY <3>1, <4>3 DEF OpensRequest, Insert
        <5> QED BY <2>6, <3>0, <4>1, <5>1
      <4> QED BY <4>2, <4>3
    <3>2. CASE AddsToRequest(p)
      <4>1. DOMAIN srvIncoming' = DOMAIN srvIncoming /\ p.n \in Nat
        BY <1>0, <3>2 DEF AddsToRequest, IsMap, Packet
      <4>2. CASE p.msgno = mno[c]
        <5>1. srvIncoming'[mno[c]].received = srvIncoming[mno[c]].received + p.n
          BY <1>0, <3>2, <4>2 DEF AddsToRequest, IsMap
        <5>2. BytesOf(p, mno[c]) = p.n
          BY <3>2, <4>2 DEF AddsToRequest, BytesOf
        <5> QED BY <2>6, <3>0, <4>1, <5>1, <5>2
      <4>3. CASE p.msgno # mno[c]
        <5>1. mno[c] \in DOMAIN srvIncoming => srvIncoming'[mno[c]] = srvIncoming[mno[c]]
          BY <1>0, <3>2, <4>3 DEF AddsToRequest, IsMap
        <5>2. BytesOf(p, mno[c]) = 0
          BY <4>3 DEF BytesOf
        <5> QED BY <2>6, <3>0, <4>1, <5>1, <5>2
      <4> QED BY <4>2, <4>3
    <3>3. CASE ClosesRequest(p)
      <4>1. BytesOf(p, mno[c]) = 0
        BY <3>3 DEF ClosesRequest, BytesOf
      <4>2. mno[c] \in DOMAIN srvIncoming' => /\ mno[c] \in DOMAIN srvIncoming
                                              /\ srvIncoming'[mno[c]] = srvIncoming[mno[c]]
        BY <3>3 DEF ClosesRequest, Without
      <4> QED BY <2>6, <3>0, <4>1, <4>2
    <3>4. CASE PassesOver(p)
      <4>1. srvIncoming' = srvIncoming
        BY <3>4 DEF PassesOver
      <4>2. mno[c] \in DOMAIN srvIncoming => BytesOf(p, mno[c]) = 0
        BY <3>4 DEF PassesOver, BytesOf
      <4> QED BY <2>6, <3>0, <4>1, <4>2
    <3> QED BY <1>6, <3>1, <3>2, <3>3, <3>4 DEF ServerReads
  <2>8. RequestTally(c, R)'
    BY <1>1, <1>2, <2>3, <2>5, <2>6, <2>7 DEF RequestTally
  <2> QED BY <2>8
<1>7. (\E p \in Packet : ServerReads(p)) \/ ServerEnds
      \/ (c2s' = c2s /\ UNCHANGED srvIncoming /\ (server' # "ended" => server # "ended"))
  BY <1>0, ServerActs DEF ServerPart, ServerWrites, ServerBegins, ServerMovesOn
<1>8. c2s' = c2s => Stream' = Stream
  BY <1>0 DEF Stream, clientOnly
<1> QED BY <1>4, <1>5, <1>6, <1>7, <1>8

\* What the server reads stands at the head of the stream.
LEMMA ServerReadsHead ==
  ASSUME Ends, ServerPart, NEW p \in Packet, ServerReads(p)
  PROVE  /\ server = "reading" /\ Stream \in Seq(Packet) /\ Stream # <<>>
         /\ p = Head(Stream) /\ Stream' = Tail(Stream)
         /\ 1 \in DOMAIN Stream /\ p = Stream[1]
<1>1. /\ UNCHANGED clientOnly /\ c2s \in Seq(Packet) /\ chan \in Seq(Packet)
  BY DEF Ends, Inv, ServerPart, Typed, TypeOK, WireTypes
<1>2. c2s # <<>> /\ p = Head(c2s) /\ c2s' = Tail(c2s) /\ server = "reading"
  BY DEF ServerReads, ServerTakes
<1>3. Stream \in Seq(Packet) /\ Stream # <<>> /\ p = Head(Stream) /\ Stream' = Tail(Stream)
  BY <1>1, <1>2, ConcatFacts DEF Stream, clientOnly
<1>4. 1 \in DOMAIN Stream /\ Stream[1] = Head(Stream)
  BY <1>3, HeadTailProperties, LenProperties, EmptySeq
<1> QED BY <1>2, <1>3, <1>4

\* A request that is not in the stream does not come into it from a part of it.
LEMMA SilentPart ==
  ASSUME NEW q \in Seq(Packet), NEW r \in Seq(Packet), NEW m, PartOf(r, q), Silent(q, m)
  PROVE  Silent(r, m)
<1>1. PICK k \in Nat : k + Len(r) <= Len(q) /\ \A i \in 1..Len(r) : r[i] = q[k + i]
  BY DEF PartOf
<1>2. \A i \in 1..Len(r) : k + i \in 1..Len(q) /\ r[i] = q[k + i]
  BY <1>1, LenProperties
<1> QED BY <1>2 DEF Silent

\* A call that has sent everything stays so, and its message stays silent.
LEMMA SilenceKept ==
  ASSUME Ends, [LinkNext]_linkVars, NEW c \in Calls, HasNumber(c), pc[c] \in Answered,
         Silent(Stream, mno[c])
  PROVE  /\ HasNumber(c)' /\ pc'[c] \in Answered
         /\ rid'[c] = rid[c] /\ len'[c] = len[c] /\ mno'[c] = mno[c]
         /\ Silent(Stream, mno[c])'
<1>0. /\ Typed /\ IdsUnique /\ Stream \in Seq(Packet) /\ Stream' \in Seq(Packet)
  BY EndsKept, ConcatFacts DEF Ends, Inv, IInv, Typed, TypeOK, WireTypes, Stream
<1>1. CASE ClientPart
  <2>1. [Next]_vars
    BY <1>1, ClientIsClient
  <2>2. /\ HasNumber(c)' /\ rid'[c] = rid[c] /\ len'[c] = len[c] /\ mno'[c] = mno[c]
    BY <1>0, <2>1, NumbersStay DEF TakeMsgNo, Answered
  <2>3. pc'[c] \in Answered
    BY <1>0, <2>1, ControlFlow, TypedPlaced DEF Edges, Answered
  <2>4. CASE PartOf(Stream', Stream)
    <3>1. PICK r \in Seq(Packet) : r = Stream'
      BY <1>0
    <3>2. Silent(r, mno[c])
      BY <1>0, <2>4, <3>1, SilentPart
    <3> QED BY <2>2, <2>3, <3>1, <3>2 DEF Silent
  <2>5. CASE \E p \in Packet : Adds(p) /\ Stream' = Append(Stream, p)
    <3>1. PICK p \in Packet : Adds(p) /\ Stream' = Append(Stream, p)
      BY <2>5
    <3>2. IsRequestPacket(p) => p.msgno # mno[c]
      <4>1. CASE ReaderAnswers /\ p = answer
        BY <4>1 DEF Ends, Inv, IInv, PacketsOwned
      <4>2. CASE \E d \in Calls : \/ SendHeader(d) /\ p = Header(mno[d], rid[d])
                                  \/ SendChunk(d) /\ p = Data(mno[d], ChunkLen(d))
                                  \/ SendEof(d) /\ p = Eof(mno[d])
        <5>1. PICK d \in Calls : \/ SendHeader(d) /\ p = Header(mno[d], rid[d])
                                 \/ SendChunk(d) /\ p = Data(mno[d], ChunkLen(d))
                                 \/ SendEof(d) /\ p = Eof(mno[d])
          BY <4>2
        <5>2. HasNumber(d) /\ p.msgno = mno[d] /\ pc[d] \in {"header", "chunk", "eof"}
          BY <5>1
          DEF SendHeader, SendChunk, SendEof, HasNumber, Numbered, Tracked, Header, Data, Eof
        <5>3. d # c
          BY <5>2 DEF Answered
        <5> QED BY <5>2, <5>3 DEF Ends, Inv, IInv, MsgNosUnique
      <4> QED BY <3>1, <4>1, <4>2 DEF Adds
    <3>3. /\ Len(Stream') = Len(Stream) + 1 /\ Len(Stream) \in Nat
          /\ \A i \in 1..Len(Stream) : Stream'[i] = Stream[i]
          /\ Stream'[Len(Stream) + 1] = p
      BY <1>0, <3>1, AppendProperties, LenProperties
    <3>4. ASSUME NEW i \in 1..Len(Stream')
          PROVE  IsRequestPacket(Stream'[i]) => Stream'[i].msgno # mno[c]
      <4>1. CASE i \in 1..Len(Stream)
        BY <3>3, <4>1 DEF Silent
      <4>2. CASE i = Len(Stream) + 1
        BY <3>2, <3>3, <4>2
      <4> QED BY <3>3, <4>1, <4>2
    <3> QED BY <2>2, <2>3, <3>4 DEF Silent, IsRequestPacket
  <2> QED BY <1>0, <2>1, <2>4, <2>5, StreamMoves
<1>2. CASE ServerPart
  <2>1. PartOf(Stream', Stream) /\ UNCHANGED clientOnly
    BY <1>2, ServerWire DEF Ends, Inv, ServerPart
  <2>2. PICK r \in Seq(Packet) : r = Stream'
    BY <1>0
  <2>3. Silent(r, mno[c])
    BY <1>0, <2>1, <2>2, SilentPart
  <2> QED BY <2>1, <2>2, <2>3 DEF clientOnly, HasNumber, Silent
<1> QED BY <1>1, <1>2, LinkParts

\* The order of what is in the stream is the same for what the server leaves of it.
LEMMA OrderKeptInLink ==
  ASSUME Ends, PacketsInOrder, [LinkNext]_linkVars
  PROVE  PacketsInOrder'
<1>1. CASE ClientPart
  BY <1>1, ClientIsClient, OrderKept DEF Ends
<1>2. CASE ServerPart
  <2>1. Stream \in Seq(Packet) /\ Stream' \in Seq(Packet)
    BY EndsKept, ConcatFacts DEF Stream, Ends, Inv, Typed, TypeOK, WireTypes
  <2>2. PICK k \in Nat : /\ k + Len(Stream') <= Len(Stream)
                         /\ \A n \in 1..Len(Stream') : Stream'[n] = Stream[k + n]
    BY <1>2, ServerWire DEF PartOf, Ends, Inv
  <2>3. \A i, j \in DOMAIN Stream : i < j => Before(Stream[i], Stream[j])
    BY DEF PacketsInOrder, Before
  <2>4. SUFFICES ASSUME NEW i \in DOMAIN Stream', NEW j \in DOMAIN Stream', i < j
                 PROVE  Before(Stream'[i], Stream'[j])
    BY <2>4 DEF PacketsInOrder, Before, IsRequestPacket, Rank
  <2>5. /\ k + i \in DOMAIN Stream /\ k + j \in DOMAIN Stream /\ k + i < k + j
        /\ Stream'[i] = Stream[k + i] /\ Stream'[j] = Stream[k + j]
    <3>1. /\ DOMAIN Stream = 1..Len(Stream) /\ DOMAIN Stream' = 1..Len(Stream')
          /\ Len(Stream) \in Nat /\ Len(Stream') \in Nat
      BY <2>1, LenProperties
    <3>2. i \in 1..Len(Stream') /\ j \in 1..Len(Stream')
      BY <2>4, <3>1
    <3>3. k + i \in 1..Len(Stream) /\ k + j \in 1..Len(Stream) /\ k + i < k + j
      BY <2>2, <2>4, <3>1, <3>2
    <3> QED BY <2>2, <3>1, <3>2, <3>3
  <2> QED BY <2>3, <2>5
<1> QED BY <1>1, <1>2, LinkParts

\* A request coming in stays its call's.
LEMMA OpenOwnedKept ==
  ASSUME Ends, OpenOwned, [LinkNext]_linkVars
  PROVE  OpenOwned'
<1>0. Typed /\ IdsUnique /\ Stream \in Seq(Packet) /\ IsMap(srvIncoming)
  BY ConcatFacts, ServerTypes DEF Ends, Inv, IInv, Typed, TypeOK, WireTypes, Stream
<1> SUFFICES ASSUME NEW m \in DOMAIN srvIncoming'
             PROVE  \E c \in Calls : IsOf(Header(m, srvIncoming[m].id), c)'
  BY DEF OpenOwned
<1>1. PICK p : p = Header(m, srvIncoming'[m].id)
  OBVIOUS
<1>2. (\E c \in Calls : IsOf(p, c)) \/ (\E c \in Calls : IsOf(p, c)')
  <2>1. CASE m \in DOMAIN srvIncoming /\ srvIncoming'[m].id = srvIncoming[m].id
    BY <1>1, <2>1 DEF OpenOwned
  <2>2. CASE ClientPart
    BY <2>1, <2>2 DEF ClientPart, serverVars
  <2>3. CASE ServerPart
    <3>1. ASSUME NEW q \in Packet, ServerReads(q) PROVE \E c \in Calls : IsOf(p, c)
      <4>1. CASE OpensRequest(q)
        <5>1. CASE m = q.msgno
          <6>1. srvIncoming'[m].id = q.id /\ q.type = "HEADER"
            BY <4>1, <5>1 DEF OpensRequest, Insert
          <6>2. PICK c \in Calls : IsOf(q, c)
            BY <2>3, <3>1, <6>1, ServerReadsHead DEF Ends, Inv, IInv, PacketsOwned, IsRequestPacket
          <6>3. q = Header(mno[c], rid[c])
            BY <6>1, <6>2 DEF IsOf, Eof
          <6>4. p = q
            BY <1>1, <5>1, <6>1, <6>3 DEF Header
          <6> QED BY <6>2, <6>4
        <5>2. CASE m # q.msgno
          <6>1. m \in DOMAIN srvIncoming /\ srvIncoming'[m] = srvIncoming[m]
            BY <4>1, <5>2 DEF OpensRequest, Insert
          <6> QED BY <2>1, <6>1, <1>1 DEF OpenOwned
        <5> QED BY <5>1, <5>2
      <4>2. CASE AddsToRequest(q)
        <5>1. m \in DOMAIN srvIncoming /\ srvIncoming'[m].id = srvIncoming[m].id
          BY <1>0, <4>2 DEF AddsToRequest, IsMap
        <5> QED BY <1>1, <5>1 DEF OpenOwned
      <4>3. CASE ClosesRequest(q)
        <5>1. m \in DOMAIN srvIncoming /\ srvIncoming'[m] = srvIncoming[m]
          BY <4>3 DEF ClosesRequest, Without
        <5> QED BY <1>1, <5>1 DEF OpenOwned
      <4>4. CASE PassesOver(q)
        BY <1>1, <4>4 DEF PassesOver, OpenOwned
      <4> QED BY <3>1, <4>1, <4>2, <4>3, <4>4 DEF ServerReads
    <3>2. CASE srvIncoming' = srvIncoming
      BY <2>1, <3>2
    <3> QED BY <2>3, <3>1, <3>2, ServerActs
            DEF Ends, ServerPart, ServerWrites, ServerBegins, ServerMovesOn, ServerEnds
  <2> QED BY <2>2, <2>3, LinkParts
<1>3. \A c \in Calls : IsOf(p, c) => IsOf(p, c)'
  <2>1. CASE ClientPart
    BY <1>0, <2>1, ClientIsClient, OwnedStays
  <2>2. CASE ServerPart
    BY <2>2 DEF ServerPart, clientOnly, IsOf, HasNumber
  <2> QED BY <2>1, <2>2, LinkParts
<1>4. PICK c \in Calls : IsOf(p, c)'
  BY <1>2, <1>3
<1> QED BY <1>1, <1>4 DEF IsOf

\* What is known of the requests of the link.
RequestsKnown == PacketsInOrder /\ OpenOwned /\ RequestsTallied /\ Dispatches

\* A whole request stays one: nobody sends or counts anything more of it.
LEMMA WholeStays ==
  ASSUME Ends, [LinkNext]_linkVars, NEW d, IsWhole(d)
  PROVE  IsWhole(d)'
<1>1. PICK c \in Calls : Gone(c) /\ rid[c] = d.id /\ len[c] = d.received
  BY DEF IsWhole
<1>2. /\ HasNumber(c)' /\ pc'[c] \in Answered
      /\ rid'[c] = rid[c] /\ len'[c] = len[c] /\ mno'[c] = mno[c]
      /\ Silent(Stream, mno[c])'
  BY <1>1, SilenceKept DEF Gone
<1>3. mno[c] \notin DOMAIN srvIncoming'
  <2>1. CASE ClientPart
    BY <1>1, <2>1 DEF ClientPart, serverVars, Gone
  <2>2. CASE ServerPart
    <3>1. ASSUME NEW p \in Packet, ServerReads(p) PROVE mno[c] \notin DOMAIN srvIncoming'
      <4>1. CASE OpensRequest(p)
        <5>1. p.msgno # mno[c]
          <6>1. /\ 1 \in 1..Len(Stream) /\ p = Stream[1]
            BY <2>2, <3>1, ServerReadsHead, LenProperties
          <6> QED BY <1>1, <4>1, <6>1 DEF Gone, Silent, OpensRequest, IsRequestPacket
        <5> QED BY <1>1, <4>1, <5>1 DEF OpensRequest, Insert, Gone
      <4>2. CASE AddsToRequest(p)
        <5>1. IsMap(srvIncoming)
          BY ServerTypes DEF Ends
        <5> QED BY <1>1, <4>2, <5>1 DEF AddsToRequest, IsMap, Gone
      <4>3. CASE ClosesRequest(p) \/ PassesOver(p)
        BY <1>1, <4>3 DEF ClosesRequest, PassesOver, Without, Gone
      <4> QED BY <3>1, <4>1, <4>2, <4>3 DEF ServerReads
    <3>2. CASE srvIncoming' = srvIncoming
      BY <1>1, <3>2 DEF Gone
    <3> QED BY <2>2, <3>1, <3>2, ServerActs
            DEF Ends, ServerPart, ServerWrites, ServerBegins, ServerMovesOn, ServerEnds
  <2> QED BY <2>1, <2>2, LinkParts
<1>4. Gone(c)'
  BY <1>2, <1>3 DEF Gone
<1> QED BY <1>1, <1>2, <1>4 DEF IsWhole

\* A request coming in carries its call's id.
LEMMA OpenIsOwn ==
  ASSUME Ends, OpenOwned, NEW c \in Calls, HasNumber(c), mno[c] \in DOMAIN srvIncoming
  PROVE  srvIncoming[mno[c]].id = rid[c]
<1>1. PICK d \in Calls : IsOf(Header(mno[c], srvIncoming[mno[c]].id), d)
  BY DEF OpenOwned
<1>2. /\ Header(mno[c], srvIncoming[mno[c]].id).msgno = mno[c]
      /\ Header(mno[c], srvIncoming[mno[c]].id).id = srvIncoming[mno[c]].id
      /\ Header(mno[c], srvIncoming[mno[c]].id).type = "HEADER"
  BY DEF Header
<1>3. d = c
  BY <1>1, <1>2, OneOwner DEF Ends, Inv, IInv
<1>4. Header(mno[c], srvIncoming[mno[c]].id) = Header(mno[c], rid[c])
  BY <1>1, <1>2, <1>3 DEF IsOf, Eof
<1> QED BY <1>2, <1>4 DEF Header

\* The request an EOF closes is whole, and no other has its id.
LEMMA WholeAtEof ==
  ASSUME Ends, RequestsKnown, ServerPart, NEW p \in Packet, ServerReads(p),
         ClosesRequest(p), p.type = "EOF"
  PROVE  /\ IsWhole(srvRequest)'
         /\ \A k \in 1..Len(served) : served[k].id # srvRequest'.id
<1>0. /\ Typed /\ Stream \in Seq(Packet) /\ DOMAIN Stream = 1..Len(Stream) /\ Len(Stream) \in Nat
      /\ UNCHANGED clientOnly /\ rid \in [Calls -> Nat]
  BY ConcatFacts, LenProperties
  DEF Ends, Inv, Typed, TypeOK, WireTypes, CallTypes, Stream, ServerPart
<1>1. /\ server = "reading" /\ 1 \in 1..Len(Stream) /\ p = Stream[1] /\ Stream' = Tail(Stream)
      /\ Stream # <<>>
  BY <1>0, ServerReadsHead
<1>2. PICK c \in Calls : IsOf(p, c)
  BY <1>0, <1>1 DEF Ends, Inv, IInv, PacketsOwned, IsRequestPacket
<1>3. HasNumber(c) /\ pc[c] \in Answered /\ p.msgno = mno[c]
  BY <1>2 DEF IsOf, Header, Eof
<1>4. mno[c] \in DOMAIN srvIncoming /\ srvRequest' = srvIncoming[mno[c]]
      /\ mno[c] \notin DOMAIN srvIncoming'
  BY <1>3 DEF ClosesRequest, Without
<1>5. srvIncoming[mno[c]].id = rid[c]
  BY <1>3, <1>4, OpenIsOwn DEF RequestsKnown
<1>6. srvIncoming[mno[c]].received = len[c]
  <2>1. PICK P : RequestTally(c, P)
    BY <1>3 DEF RequestsKnown, RequestsTallied
  <2>2. P[0] = srvIncoming[mno[c]].received /\ Tallies(P, Stream, mno[c], len[c])
    BY <1>1, <1>4, <2>1 DEF RequestTally
  <2>3. /\ P[1] = P[1 - 1] + BytesOf(p, mno[c]) /\ P[1] = len[c]
        /\ P \in [0..Len(Stream) -> Nat]
    BY <1>1, <1>3, <2>2 DEF Tallies
  <2>4. BytesOf(p, mno[c]) = 0 /\ 0 \in 0..Len(Stream)
    BY <1>0 DEF BytesOf
  <2> QED BY <2>2, <2>3, <2>4
<1>7. Silent(Stream', mno[c])
  <2>1. /\ Len(Stream') = Len(Stream) - 1 /\ Len(Stream) > 0
        /\ \A i \in 1..Len(Stream') : Stream'[i] = Stream[i + 1]
    BY <1>0, <1>1, HeadTailProperties, EmptySeq
  <2>2. SUFFICES ASSUME NEW i \in 1..Len(Stream'), IsRequestPacket(Stream'[i]),
                        Stream'[i].msgno = mno[c]
                 PROVE  FALSE
    BY DEF Silent
  <2>3. i + 1 \in DOMAIN Stream /\ Stream'[i] = Stream[i + 1] /\ 1 < i + 1
    BY <1>0, <2>1
  <2>4. Rank(Stream[1]) < Rank(Stream[i + 1])
    BY <1>0, <1>1, <1>3, <2>2, <2>3 DEF RequestsKnown, PacketsInOrder, IsRequestPacket
  <2>5. Rank(Stream[1]) = 2
    BY <1>1 DEF Rank
  <2>6. Rank(Stream[i + 1]) \in {0, 1, 2}
    BY DEF Rank
  <2> QED BY <2>4, <2>5, <2>6
<1>8. UNCHANGED <<pc, rid, mno, len>>
  BY <1>0 DEF clientOnly
<1>9. Gone(c)'
  BY <1>3, <1>4, <1>7, <1>8 DEF Gone, HasNumber, Silent, IsRequestPacket
<1>10. IsWhole(srvRequest)'
  BY <1>4, <1>5, <1>6, <1>8, <1>9 DEF IsWhole
<1>11. ASSUME NEW k \in 1..Len(served) PROVE served[k].id # srvRequest'.id
  <2>1. PICK d \in Calls : Gone(d) /\ rid[d] = served[k].id
    BY DEF RequestsKnown, Dispatches, IsWhole
  <2>2. d # c
    BY <1>4, <2>1 DEF Gone
  <2>3. rid[d] # rid[c]
    <3>1. rid[c] > 0
      BY <1>2 DEF IsOf, HasNumber, Ends, Inv, IInv, IdsUnique
    <3> QED BY <1>0, <2>2, <3>1 DEF Ends, Inv, IInv, IdsUnique
  <2> QED BY <1>4, <1>5, <2>1, <2>3
<1> QED BY <1>10, <1>11

\* So what has been dispatched is whole, and dispatched once, after every step.
LEMMA DispatchesKept ==
  ASSUME Ends, RequestsKnown, [LinkNext]_linkVars
  PROVE  Dispatches'
<1>0. /\ served \in Seq([id: Nat, received: Nat, reply: Nat]) /\ Len(served) \in Nat
      /\ Dispatches
  BY ServerTypes, LenProperties DEF Ends, RequestsKnown
<1>1. ASSUME UNCHANGED served, InHandNow' => InHandNow /\ UNCHANGED srvRequest
      PROVE  Dispatches'
  <2>1. ASSUME NEW k \in 1..Len(served) PROVE IsWhole(served[k])'
    <3>1. PICK d : d = served[k]
      OBVIOUS
    <3>2. IsWhole(d)'
      BY <1>0, <2>1, <3>1, WholeStays DEF Dispatches
    <3> QED BY <1>1, <3>1, <3>2 DEF IsWhole
  <2>2. InHandNow' => IsWhole(srvRequest)'
    <3>1. PICK d : d = srvRequest
      OBVIOUS
    <3>2. InHandNow => IsWhole(d)'
      BY <1>0, <3>1, WholeStays DEF Dispatches
    <3> QED BY <1>1, <3>1, <3>2 DEF IsWhole
  <2> QED BY <1>0, <1>1, <2>1, <2>2 DEF Dispatches
<1>2. CASE ClientPart
  BY <1>1, <1>2 DEF ClientPart, serverVars, InHandNow
<1>3. CASE ServerPart
  <2>1. ASSUME NEW p \in Packet, ServerReads(p) PROVE Dispatches'
    <3>1. CASE ClosesRequest(p) /\ p.type = "EOF"
      <4>1. /\ IsWhole(srvRequest)' /\ UNCHANGED served
            /\ \A k \in 1..Len(served) : served[k].id # srvRequest'.id
        BY <1>3, <2>1, <3>1, WholeAtEof DEF ServerReads, ServerTakes
      <4>2. ASSUME NEW k \in 1..Len(served) PROVE IsWhole(served[k])'
        <5>1. PICK d : d = served[k]
          OBVIOUS
        <5>2. IsWhole(d)'
          BY <1>0, <4>2, <5>1, WholeStays DEF Dispatches
        <5> QED BY <4>1, <5>1, <5>2 DEF IsWhole
      <4> QED BY <1>0, <4>1, <4>2 DEF Dispatches
    <3>2. CASE ~(ClosesRequest(p) /\ p.type = "EOF")
      <4>1. UNCHANGED served /\ ~InHandNow'
        BY <2>1, <3>2 DEF ServerReads, ServerTakes, OpensRequest, AddsToRequest, ClosesRequest,
           PassesOver, InHandNow
      <4> QED BY <1>1, <4>1
    <3> QED BY <3>1, <3>2
  <2>2. CASE (\E p \in Packet : ServerWrites(p)) \/ ServerMovesOn \/ ServerEnds
    BY <1>1, <2>2 DEF ServerWrites, ServerMovesOn, ServerEnds, InHandNow
  <2>3. ASSUME NEW n \in Nat, ServerBegins(n) PROVE Dispatches'
    <3>1. PICK s \in [id: Nat, received: Nat, reply: Nat] :
            s = [id |-> srvRequest.id, received |-> srvRequest.received, reply |-> n]
      BY <2>3, ServerTypes DEF Ends
    <3>2. /\ served' = Append(served, s) /\ InHandNow /\ ~InHandNow'
          /\ s.id = srvRequest.id /\ s.received = srvRequest.received
      BY <2>3, <3>1 DEF ServerBegins, InHandNow
    <3>3. /\ Len(served') = Len(served) + 1 /\ served'[Len(served) + 1] = s
          /\ \A k \in 1..Len(served) : served'[k] = served[k]
      BY <1>0, <3>2, AppendProperties
    <3>4. ASSUME NEW k \in 1..Len(served') PROVE IsWhole(served[k])'
      <4>1. PICK d : d = served'[k]
        OBVIOUS
      <4>2. IsWhole(d)
        <5>1. CASE k \in 1..Len(served)
          BY <1>0, <3>3, <4>1, <5>1 DEF Dispatches
        <5>2. CASE k = Len(served) + 1
          <6>1. d = s
            BY <3>3, <4>1, <5>2
          <6> QED BY <1>0, <3>2, <6>1 DEF Dispatches, IsWhole
        <5> QED BY <1>0, <3>3, <5>1, <5>2
      <4>3. IsWhole(d)'
        BY <4>2, WholeStays
      <4> QED BY <4>1, <4>3 DEF IsWhole
    <3>5. \A k, l \in 1..Len(served') : served'[k].id = served'[l].id => k = l
      <4>1. \A k \in 1..Len(served) : served[k].id # s.id
        BY <1>0, <3>2 DEF Dispatches
      <4>2. ASSUME NEW k \in 1..Len(served') PROVE k \in 1..Len(served) \/ k = Len(served) + 1
        <5>1. k \in Nat /\ 1 <= k /\ k <= Len(served) + 1 /\ Len(served) \in Nat
          BY <1>0, <3>3, <4>2
        <5> QED BY <5>1
      <4> QED BY <1>0, <3>3, <4>1, <4>2 DEF Dispatches
    <3> QED BY <3>2, <3>4, <3>5 DEF Dispatches
  <2> QED BY <1>3, <2>1, <2>2, <2>3, ServerActs DEF Ends, ServerPart
<1> QED BY <1>2, <1>3, LinkParts

\* Nothing is known of requests in the beginning, and every step keeps it.
LEMMA RequestsStart == LinkInit => RequestsKnown
<1> SUFFICES ASSUME LinkInit PROVE RequestsKnown
  OBVIOUS
<1>1. PacketsInOrder
  BY ConcatEmptySeq DEF LinkInit, Init, PacketsInOrder, Stream
<1>2. OpenOwned /\ RequestsTallied
  BY EmptyMapFacts DEF LinkInit, Init, OpenOwned, RequestsTallied, HasNumber, Numbered, Tracked
<1>3. Dispatches
  BY DEF LinkInit, Dispatches, InHandNow
<1> QED BY <1>1, <1>2, <1>3 DEF RequestsKnown

LEMMA RequestsKept ==
  ASSUME Ends, RequestsKnown, [LinkNext]_linkVars
  PROVE  RequestsKnown'
<1>1. PacketsInOrder' /\ OpenOwned'
  BY OrderKeptInLink, OpenOwnedKept DEF RequestsKnown
<1>2. RequestsTallied'
  BY TalliesKeptByClient, TalliesKeptByServer, LinkParts DEF RequestsKnown
<1> QED BY <1>1, <1>2, DispatchesKept DEF RequestsKnown

LEMMA RequestsHold == LinkSpec => []RequestsKnown
  BY RequestsStart, RequestsKept, EndsHold, PTL DEF LinkSpec

\* A request runs once, and only with the whole body its call had, also if the
\* caller has given up: DATA of other requests, ACKs and replies notwithstanding.
THEOREM RunWhole == LinkSpec => []RequestsRunWhole
<1>1. ASSUME Ends, RequestsKnown, NEW k \in DOMAIN served
      PROVE  \E c \in Calls : /\ rid[c] = served[k].id
                              /\ served[k].received = len[c]
                              /\ ServedAs(rid[c]) = {k}
  <2>1. DOMAIN served = 1..Len(served)
    BY <1>1, ServerTypes, LenProperties DEF Ends
  <2>2. PICK c \in Calls : rid[c] = served[k].id /\ len[c] = served[k].received
    BY <1>1, <2>1 DEF RequestsKnown, Dispatches, IsWhole
  <2>3. ServedAs(rid[c]) = {k}
    BY <1>1, <2>1, <2>2 DEF RequestsKnown, Dispatches, ServedAs
  <2> QED BY <2>2, <2>3
<1>2. Ends /\ RequestsKnown => RequestsRunWhole
  BY <1>1 DEF RequestsRunWhole
<1> QED BY <1>2, EndsHold, RequestsHold, PTL

-----------------------------------------------------------------------------
(* What has become of every reply.                                         *)

\* What the client's reader does with a packet p of the stream to it.
OpensReply(p) ==
  /\ p.type = "HEADER" /\ p.msgno = next_incoming_msg_no
  /\ next_incoming_msg_no' = next_incoming_msg_no + 1
  /\ incoming' = Insert(incoming, p.msgno, [id |-> p.id, received |-> 0])
  /\ UNCHANGED slot
AddsToReply(p) ==
  /\ p.type = "DATA" /\ p.msgno \in DOMAIN incoming
  /\ incoming' = [incoming EXCEPT ![p.msgno].received = @ + p.n]
  /\ UNCHANGED <<next_incoming_msg_no, slot>>
ClosesReply(p) ==
  /\ p.msgno \in DOMAIN incoming
  /\ incoming' = Without(incoming, p.msgno)
  /\ UNCHANGED next_incoming_msg_no
  /\ \/ /\ p.type = "EOF"
        /\ Deliver(incoming[p.msgno].id, ReplyOf(incoming[p.msgno]))
     \/ /\ p.type = "TXERR"
        /\ Deliver(incoming[p.msgno].id, TxerrOf(incoming[p.msgno]))
LeavesReplies(p) ==
  /\ UNCHANGED <<incoming, next_incoming_msg_no, slot>>
  /\ p.type = "HEADER" => p.msgno # next_incoming_msg_no
  /\ p.type = "DATA" => p.msgno \notin DOMAIN incoming \/ p.n = 0
  /\ (p.type = "EOF" /\ p.n = 0) => p.msgno \notin DOMAIN incoming
ReaderReads(p) ==
  /\ reader = "reading" /\ s2c # <<>> /\ p = Head(s2c) /\ s2c' = Tail(s2c)
  /\ OpensReply(p) \/ AddsToReply(p) \/ ClosesReply(p) \/ LeavesReplies(p)
ReadsNothing ==
  /\ UNCHANGED <<s2c, incoming, next_incoming_msg_no>>
  /\ UNCHANGED slot \/ DrainPending

\* Every step of the client is one of these.
LEMMA ClientActs ==
  ASSUME Typed, ClientPart
  PROVE  ReadsNothing \/ \E p \in Packet : ReaderReads(p)
<1>1. CASE \E c \in Calls : Start(c) \/ CallStep(c)
  BY <1>1 DEF Start, CallStep, TakeRequestId, TakeMsgNo, Register, Track, SendHeader,
     CheckClosed, CheckWindow, Park, SendChunk, CountSent, SendEof, TakeResponse, TimeOut,
     Expire, Release, Unregister, Untrack, Enqueue, ReadsNothing
<1>2. CASE WriterStep \/ DropHandle \/ UNCHANGED vars
  BY <1>2 DEF WriterStep, WriterSends, WriterFails, DropHandle, ReadsNothing
<1>3. CASE ReaderAnswers \/ ReaderEnds \/ DrainPending \/ SetClosed
  BY <1>3 DEF ReaderAnswers, ReaderEnds, DrainPending, SetClosed, ReadsNothing
<1>4. CASE \/ RouteHeader \/ RouteData \/ RouteEof \/ RouteTxerr
           \/ RouteAck \/ RoutePing \/ RoutePong \/ RouteBad
  <2>1. PICK p \in Packet : s2c # <<>> /\ p = Head(s2c)
    BY <1>4, QueueFacts DEF RouteHeader, RouteData, RouteEof, RouteTxerr, RouteAck, RoutePing,
       RoutePong, RouteBad, Reads, Typed, TypeOK, WireTypes
  <2>2. reader = "reading" /\ s2c' = Tail(s2c)
    BY <1>4 DEF RouteHeader, RouteData, RouteEof, RouteTxerr, RouteAck, RoutePing,
       RoutePong, RouteBad, Reads
  <2>3. CASE RouteHeader
    BY <2>1, <2>3 DEF RouteHeader, Reads, OpensReply, LeavesReplies, ReaderReads
  <2>4. CASE RouteData
    <3>1. p.type = "DATA" /\ p.n \in Nat /\ UNCHANGED <<next_incoming_msg_no, slot>>
      BY <2>1, <2>4 DEF RouteData, Reads, Packet
    <3>2. CASE p.msgno \in DOMAIN incoming /\ p.n > 0
      <4>1. incoming' = [incoming EXCEPT ![p.msgno].received = @ + p.n]
        BY <2>1, <2>4, <3>2 DEF RouteData
      <4> QED BY <2>1, <2>2, <3>1, <3>2, <4>1 DEF AddsToReply, ReaderReads
    <3>3. CASE ~(p.msgno \in DOMAIN incoming /\ p.n > 0)
      <4>1. UNCHANGED incoming /\ (p.msgno \notin DOMAIN incoming \/ p.n = 0)
        BY <2>1, <2>4, <3>1, <3>3 DEF RouteData
      <4> QED BY <2>1, <2>2, <3>1, <4>1 DEF LeavesReplies, ReaderReads
    <3> QED BY <3>2, <3>3
  <2>5. CASE RouteEof
    BY <2>1, <2>5 DEF RouteEof, Reads, ClosesReply, LeavesReplies, ReaderReads
  <2>6. CASE RouteTxerr
    BY <2>1, <2>6 DEF RouteTxerr, Reads, ClosesReply, LeavesReplies, ReaderReads
  <2>7. CASE RouteAck \/ RoutePing \/ RoutePong \/ RouteBad
    BY <2>1, <2>7 DEF RouteAck, RoutePing, RoutePong, RouteBad, Reads, LeavesReplies, ReaderReads
  <2> QED BY <1>4, <2>3, <2>4, <2>5, <2>6, <2>7
<1> QED BY <1>1, <1>2, <1>3, <1>4 DEF ClientPart, ClientStep, ReaderStep

\* The bytes of reply number m: those the reader has counted, those in the
\* stream and those the server has written agree.
Replying == server \in {"header", "data", "eof"}
ReplyTally(m, P) ==
  /\ Tallies(P, s2c, m, served[m + 1].reply)
  /\ m \in DOMAIN incoming => P[0] = incoming[m].received
  /\ (Replying /\ srvReply.msgno = m) => P[Len(s2c)] = srvReply.offset
RepliesTallied == \A m \in Nat : m < Len(served) => \E P : ReplyTally(m, P)

\* Every reply under way is one to a request dispatched, under its id.
Accounted(p) ==
  IsRequestPacket(p) => /\ p.msgno < Len(served)
                        /\ p.type = "HEADER" => p.id = served[p.msgno + 1].id
RepliesOwned ==
  /\ \A i \in 1..Len(s2c) : Accounted(s2c[i])
  /\ \A m \in DOMAIN incoming : m < Len(served) /\ incoming[m].id = served[m + 1].id
  /\ Replying => srvReply.len = served[Len(served)].reply
  /\ server = "eof" => srvReply.offset = srvReply.len

\* What a call was handed is the reply to a request, whole.
Delivered(s) == s.kind = "reply" =>
  \E k \in 1..Len(served) : served[k].id = s.id /\ served[k].reply = s.n
SlotsServed == \A c \in Calls : Delivered(slot[c])

RepliesKnown == RepliesTallied /\ RepliesOwned /\ SlotsServed

\* What the ends know of a reply being written.
LEMMA ReplyFacts ==
  ASSUME Ends
  PROVE  /\ srvReply \in [msgno: Nat, id: Nat, len: Nat, offset: Nat]
         /\ Len(served) = srvNextOut /\ Len(served) \in Nat
         /\ Replying => srvReply.msgno + 1 = Len(served) /\ srvReply.id = served[Len(served)].id
         /\ server = "answering" => srvAnswer.type \in {"ACK", "PONG"}
         /\ server = "header" => srvReply.offset = 0
         /\ server = "data" => /\ SP!DataLen \in Nat
                               /\ srvReply.offset + SP!DataLen <= srvReply.len
  BY ServerTypes, LenProperties, SP!DataLenBound, ServerConstants
  DEF Ends, SP!InTurn, SP!InHand, SP!Writing, Replying, SP!Typed, SP!InBody

\* What the client reads it counts.
LEMMA RepliesTalliedByClient ==
  ASSUME Ends, RepliesKnown, ClientPart
  PROVE  RepliesTallied'
<1>0. /\ Typed /\ s2c \in Seq(Packet) /\ Len(s2c) \in Nat /\ UNCHANGED serverVars
      /\ IsMap(incoming) /\ \A m \in DOMAIN incoming : incoming[m] \in [id: Nat, received: Nat]
  BY LenProperties DEF Ends, Inv, Typed, TypeOK, WireTypes, ReaderTypes, ClientPart
<1>1. UNCHANGED <<server, srvReply, served>> /\ Replying' = Replying
  BY <1>0 DEF serverVars, Replying
<1> SUFFICES ASSUME NEW m \in Nat, m < Len(served') PROVE \E R : ReplyTally(m, R)'
  BY DEF RepliesTallied
<1>2. PICK P : ReplyTally(m, P)
  BY <1>1 DEF RepliesKnown, RepliesTallied
<1>3. Tallies(P, s2c, m, served[m + 1].reply) /\ P \in [0..Len(s2c) -> Nat]
  BY <1>2 DEF ReplyTally, Tallies
<1>4. CASE ReadsNothing
  <2>1. ReplyTally(m, P)'
    BY <1>1, <1>2, <1>4 DEF ReplyTally, ReadsNothing
  <2> QED BY <2>1
<1>5. ASSUME NEW p \in Packet, ReaderReads(p) PROVE \E R : ReplyTally(m, R)'
  <2>1. /\ s2c # <<>> /\ s2c' = Tail(s2c) /\ p = Head(s2c)
    BY <1>5 DEF ReaderReads
  <2>2. PICK t \in Seq(Packet) : t = s2c'
    BY <1>0, <2>1, QueueFacts
  <2>3. PICK k \in Nat : k = 1
    OBVIOUS
  <2>4. /\ Len(t) = Len(s2c) - 1 /\ 1 \in 1..Len(s2c) /\ s2c[1] = p /\ Len(t) \in Nat
        /\ \A i \in 1..Len(t) : t[i] = s2c[i + 1]
    BY <1>0, <2>1, <2>2, HeadTailProperties, EmptySeq, LenProperties
  <2>5. PartFrom(t, s2c, k)
    BY <1>0, <2>3, <2>4 DEF PartFrom
  <2>6. PICK R : /\ Tallies(R, t, m, served[m + 1].reply)
                 /\ R[0] = P[k] /\ R[Len(t)] = P[k + Len(t)]
    BY <1>0, <1>3, <2>5, TallyPart
  <2>7. k + Len(t) = Len(s2c)
    BY <1>0, <2>3, <2>4
  <2>8. /\ P[1] = P[1 - 1] + BytesOf(p, m) /\ P[0] \in Nat
        /\ (p.type = "HEADER" /\ p.msgno = m) => P[1] = 0
    <3>1. 0 \in 0..Len(s2c)
      BY <1>0
    <3>2. s2c[1] = p /\ 1 \in 1..Len(s2c)
      BY <2>4
    <3> QED BY <1>3, <3>1, <3>2 DEF Tallies
  <2>9. m \in DOMAIN incoming' => R[0] = incoming'[m].received
    <3>0. m \in DOMAIN incoming => P[0] = incoming[m].received
      BY <1>2 DEF ReplyTally
    <3>1. CASE OpensReply(p)
      <4>1. BytesOf(p, m) = 0
        BY <3>1 DEF OpensReply, BytesOf
      <4>2. CASE p.msgno = m
        BY <2>3, <2>6, <2>8, <3>1, <4>2 DEF OpensReply, Insert
      <4>3. CASE p.msgno # m
        <5>1. m \in DOMAIN incoming' => m \in DOMAIN incoming /\ incoming'[m] = incoming[m]
          BY <3>1, <4>3 DEF OpensReply, Insert
        <5> QED BY <2>3, <2>6, <2>8, <3>0, <4>1, <5>1
      <4> QED BY <4>2, <4>3
    <3>2. CASE AddsToReply(p)
      <4>1. DOMAIN incoming' = DOMAIN incoming /\ p.n \in Nat
        BY <1>0, <3>2 DEF AddsToReply, IsMap, Packet
      <4>2. CASE p.msgno = m
        <5>1. incoming'[m].received = incoming[m].received + p.n
          BY <1>0, <3>2, <4>2 DEF AddsToReply, IsMap
        <5>2. BytesOf(p, m) = p.n
          BY <3>2, <4>2 DEF AddsToReply, BytesOf
        <5> QED BY <2>3, <2>6, <2>8, <3>0, <4>1, <5>1, <5>2
      <4>3. CASE p.msgno # m
        <5>1. m \in DOMAIN incoming => incoming'[m] = incoming[m]
          BY <1>0, <3>2, <4>3 DEF AddsToReply, IsMap
        <5>2. BytesOf(p, m) = 0
          BY <4>3 DEF BytesOf
        <5> QED BY <2>3, <2>6, <2>8, <3>0, <4>1, <5>1, <5>2
      <4> QED BY <4>2, <4>3
    <3>3. CASE ClosesReply(p)
      <4>1. BytesOf(p, m) = 0
        BY <3>3 DEF ClosesReply, BytesOf
      <4>2. m \in DOMAIN incoming' => m \in DOMAIN incoming /\ incoming'[m] = incoming[m]
        BY <3>3 DEF ClosesReply, Without
      <4> QED BY <2>3, <2>6, <2>8, <3>0, <4>1, <4>2
    <3>4. CASE LeavesReplies(p)
      <4>1. incoming' = incoming
        BY <3>4 DEF LeavesReplies
      <4>2. m \in DOMAIN incoming => BytesOf(p, m) = 0
        BY <3>4 DEF LeavesReplies, BytesOf
      <4> QED BY <2>3, <2>6, <2>8, <3>0, <4>1, <4>2
    <3> QED BY <1>5, <3>1, <3>2, <3>3, <3>4 DEF ReaderReads
  <2>10. ReplyTally(m, R)'
    BY <1>1, <1>2, <2>2, <2>6, <2>7, <2>9 DEF ReplyTally
  <2> QED BY <2>10
<1> QED BY <1>0, <1>4, <1>5, ClientActs

\* The server counts what it writes.
LEMMA RepliesTalliedByServer ==
  ASSUME Ends, RepliesKnown, ServerPart
  PROVE  RepliesTallied'
<1>0. /\ SP!Typed /\ s2c \in Seq(Packet) /\ Len(s2c) \in Nat /\ UNCHANGED incoming
      /\ served \in Seq([id: Nat, received: Nat, reply: Nat])
  BY ServerTypes, LenProperties DEF Ends, ServerPart, clientOnly
<1> SUFFICES ASSUME NEW m \in Nat, m < Len(served') PROVE \E R : ReplyTally(m, R)'
  BY DEF RepliesTallied
<1>1. ASSUME UNCHANGED <<s2c, served, srvReply>>, Replying' => Replying
      PROVE  \E R : ReplyTally(m, R)'
  <2>1. PICK P : ReplyTally(m, P)
    BY <1>1 DEF RepliesKnown, RepliesTallied
  <2>2. ReplyTally(m, P)'
    BY <1>0, <1>1, <2>1 DEF ReplyTally
  <2> QED BY <2>2
<1>2. ASSUME NEW p \in Packet, ServerWrites(p) PROVE \E R : ReplyTally(m, R)'
  <2>0. UNCHANGED served /\ s2c' = Append(s2c, p)
    BY <1>2 DEF ServerWrites
  <2>1. PICK P : ReplyTally(m, P)
    BY <2>0 DEF RepliesKnown, RepliesTallied
  <2>2. /\ Tallies(P, s2c, m, served[m + 1].reply) /\ P[Len(s2c)] \in Nat
    BY <1>0, <2>1 DEF ReplyTally, Tallies
  <2>3. (Replying /\ srvReply.msgno = m) =>
          P[Len(s2c)] = srvReply.offset /\ srvReply.len = served[m + 1].reply
    BY <2>1, ReplyFacts DEF ReplyTally, RepliesKnown, RepliesOwned
  <2>4. /\ (p.type = "HEADER" /\ p.msgno = m) => P[Len(s2c)] = 0
        /\ (p.type = "EOF" /\ p.msgno = m) => P[Len(s2c)] = served[m + 1].reply
        /\ (Replying' /\ srvReply'.msgno = m) =>
             P[Len(s2c)] + BytesOf(p, m) = srvReply'.offset
    <3>1. CASE server = "answering" /\ p = srvAnswer /\ server' = "reading"
      BY <3>1, ReplyFacts DEF Replying
    <3>2. CASE server = "header" /\ p = Header(srvReply.msgno, srvReply.id) /\ UNCHANGED srvReply
      <4>1. Replying /\ srvReply.offset = 0 /\ BytesOf(p, m) = 0
        BY <3>2, ReplyFacts DEF Replying, Header, BytesOf
      <4> QED BY <2>2, <2>3, <3>2, <4>1 DEF Header
    <3>3. CASE /\ server = "data" /\ p = Data(srvReply.msgno, SP!DataLen)
               /\ srvReply' = [srvReply EXCEPT !.offset = @ + SP!DataLen]
      <4>1. Replying /\ p.type = "DATA"
        BY <3>3 DEF Replying, Data
      <4>2. srvReply'.offset = srvReply.offset + SP!DataLen /\ srvReply'.msgno = srvReply.msgno
        BY <3>3, ReplyFacts
      <4>3. srvReply.msgno = m => BytesOf(p, m) = SP!DataLen
        BY <3>3 DEF Data, BytesOf
      <4> QED BY <2>3, <4>1, <4>2, <4>3
    <3>4. CASE server = "eof" /\ p = Eof(srvReply.msgno) /\ server' = "reading"
      <4>1. Replying /\ ~Replying' /\ srvReply.offset = srvReply.len
        BY <3>4 DEF Replying, RepliesKnown, RepliesOwned
      <4> QED BY <2>3, <3>4, <4>1 DEF Eof
    <3> QED BY <1>2, <3>1, <3>2, <3>3, <3>4 DEF ServerWrites
  <2>5. PICK R : /\ Tallies(R, Append(s2c, p), m, served[m + 1].reply)
                 /\ R[0] = P[0]
                 /\ R[Len(Append(s2c, p))] = P[Len(s2c)] + BytesOf(p, m)
    BY <1>0, <2>2, <2>4, TallyAppend
  <2>6. ReplyTally(m, R)'
    BY <1>0, <2>0, <2>1, <2>4, <2>5 DEF ReplyTally
  <2> QED BY <2>6
<1>3. ASSUME NEW n \in Nat, ServerBegins(n) PROVE \E R : ReplyTally(m, R)'
  <2>1. /\ UNCHANGED s2c /\ Len(served') = Len(served) + 1 /\ Len(served) \in Nat
        /\ \A k \in 1..Len(served) : served'[k] = served[k]
        /\ srvReply'.msgno = Len(served) /\ srvReply'.offset = 0
    <3>1. PICK s \in [id: Nat, received: Nat, reply: Nat] :
            s = [id |-> srvRequest.id, received |-> srvRequest.received, reply |-> n]
      BY ServerTypes DEF Ends
    <3>2. served' = Append(served, s)
      BY <1>3, <3>1 DEF ServerBegins
    <3>3. /\ Len(served') = Len(served) + 1 /\ Len(served) \in Nat
          /\ \A k \in 1..Len(served) : served'[k] = served[k]
      BY <1>0, <3>2, AppendProperties, LenProperties
    <3> QED BY <1>3, <3>3, ReplyFacts DEF ServerBegins
  <2>2. CASE m < Len(served)
    <3>1. PICK P : ReplyTally(m, P)
      BY <2>2 DEF RepliesKnown, RepliesTallied
    <3>2. served'[m + 1] = served[m + 1] /\ srvReply'.msgno # m
      BY <2>1, <2>2
    <3>3. ReplyTally(m, P)'
      BY <1>0, <2>1, <3>1, <3>2 DEF ReplyTally
    <3> QED BY <3>3
  <2>3. CASE m = Len(served)
    <3>1. Silent(s2c, m)
      <4> SUFFICES ASSUME NEW i \in 1..Len(s2c), IsRequestPacket(s2c[i])
                   PROVE  s2c[i].msgno # m
        BY DEF Silent
      <4>1. Accounted(s2c[i])
        BY DEF RepliesKnown, RepliesOwned
      <4>2. s2c[i].msgno < Len(served)
        BY <4>1 DEF Accounted
      <4>3. s2c[i].msgno \in Nat /\ Len(served) \in Nat
        <5>1. s2c[i] \in Packet
          BY <1>0
        <5> QED BY <2>1, <5>1 DEF Packet
      <4> QED BY <2>3, <4>2, <4>3
    <3>2. m \notin DOMAIN incoming
      BY <2>1, <2>3 DEF RepliesKnown, RepliesOwned
    <3>3. PICK R : R = [i \in 0..Len(s2c) |-> 0]
      OBVIOUS
    <3>4. PICK t : t = served'[m + 1].reply
      OBVIOUS
    <3>5. Tallies(R, s2c, m, t) /\ R[Len(s2c)] = 0
      BY <1>0, <3>1, <3>3, TallySilent
    <3>6. ReplyTally(m, R)'
      BY <1>0, <2>1, <3>2, <3>4, <3>5 DEF ReplyTally
    <3> QED BY <3>6
  <2> QED BY <2>1, <2>2, <2>3
<1>4. ASSUME NEW p \in Packet, ServerReads(p) PROVE \E R : ReplyTally(m, R)'
  <2>1. UNCHANGED <<s2c, served, srvReply>> /\ ~Replying'
    BY <1>4 DEF ServerReads, ServerTakes, Replying
  <2> QED BY <1>1, <2>1
<1>5. CASE ServerMovesOn \/ ServerEnds
  <2>1. UNCHANGED <<s2c, served, srvReply>> /\ ~Replying'
    BY <1>5 DEF ServerMovesOn, ServerEnds, Replying
  <2> QED BY <1>1, <2>1
<1> QED BY <1>0, <1>2, <1>3, <1>4, <1>5, ServerActs DEF ServerPart

\* A response the reader hands over is that of a request dispatched.
LEMMA DeliveredServes ==
  ASSUME Inv, SlotsServed, UNCHANGED served, NEW id, NEW response, Delivered(response),
         Deliver(id, response)
  PROVE  SlotsServed'
<1> SUFFICES ASSUME NEW c \in Calls PROVE Delivered(slot[c])'
  BY DEF SlotsServed
<1>1. slot \in [Calls -> Responses]
  BY DEF Inv, Typed, TypeOK, CallTypes
<1>2. slot'[c] = slot[c] \/ slot'[c] = response
  BY <1>1 DEF Deliver
<1>3. PICK s : s = slot'[c]
  OBVIOUS
<1>4. Delivered(s)
  BY <1>2, <1>3 DEF SlotsServed
<1>5. Delivered(s)'
  BY <1>4 DEF Delivered
<1> QED BY <1>3, <1>5 DEF Delivered

\* The reply an EOF closes is whole.
LEMMA ReplyAtEof ==
  ASSUME Ends, RepliesKnown, NEW p \in Packet, ReaderReads(p), ClosesReply(p), p.type = "EOF"
  PROVE  Delivered(ReplyOf(incoming[p.msgno]))
<1> DEFINE m == p.msgno
<1>0. /\ s2c \in Seq(Packet) /\ Len(s2c) \in Nat /\ s2c # <<>> /\ p = Head(s2c) /\ m \in Nat
      /\ m \in DOMAIN incoming /\ incoming[m] \in [id: Nat, received: Nat]
      /\ Len(served) \in Nat
  BY LenProperties, ReplyFacts
  DEF Ends, Inv, Typed, TypeOK, WireTypes, ReaderTypes, ClosesReply, ReaderReads, Packet
<1>1. 1 \in 1..Len(s2c) /\ s2c[1] = p
  BY <1>0, HeadTailProperties, EmptySeq
<1>2. m < Len(served) /\ incoming[m].id = served[m + 1].id
  BY <1>0 DEF RepliesKnown, RepliesOwned
<1>3. PICK P : ReplyTally(m, P)
  BY <1>0, <1>2 DEF RepliesKnown, RepliesTallied
<1>4. /\ P[1] = P[1 - 1] + BytesOf(p, m) /\ P[1] = served[m + 1].reply
      /\ P \in [0..Len(s2c) -> Nat]
  BY <1>1, <1>3 DEF ReplyTally, Tallies
<1>5. BytesOf(p, m) = 0 /\ 0 \in 0..Len(s2c)
  BY <1>0 DEF BytesOf
<1>6. P[0] = incoming[m].received /\ P[0] \in Nat
  BY <1>0, <1>3, <1>4, <1>5 DEF ReplyTally
<1>7. incoming[m].received = served[m + 1].reply
  BY <1>4, <1>5, <1>6
<1>8. m + 1 \in 1..Len(served)
  BY <1>0, <1>2
<1> QED BY <1>2, <1>7, <1>8 DEF Delivered, ReplyOf

\* What the client reads of the replies, and what it hands over, is accounted for.
LEMMA RepliesOwnedByClient ==
  ASSUME Ends, RepliesKnown, ClientPart
  PROVE  RepliesOwned' /\ SlotsServed'
<1>0. /\ Typed /\ s2c \in Seq(Packet) /\ Len(s2c) \in Nat
      /\ server' = server /\ srvReply' = srvReply /\ served' = served
      /\ IsMap(incoming) /\ \A m \in DOMAIN incoming : incoming[m] \in [id: Nat, received: Nat]
  BY LenProperties
  DEF Ends, Inv, Typed, TypeOK, WireTypes, ReaderTypes, ClientPart, serverVars
<1>1. /\ Replying' => srvReply'.len = served'[Len(served')].reply
      /\ server' = "eof" => srvReply'.offset = srvReply'.len
  BY <1>0 DEF RepliesKnown, RepliesOwned, Replying
<1>2. CASE ReadsNothing
  <2>1. RepliesOwned'
    BY <1>0, <1>1, <1>2
    DEF ReadsNothing, RepliesKnown, RepliesOwned, Accounted, IsRequestPacket
  <2>2. CASE UNCHANGED slot
    BY <1>0, <2>1, <2>2 DEF RepliesKnown, SlotsServed, Delivered
  <2>3. CASE DrainPending
    <3>1. ASSUME NEW c \in Calls PROVE slot'[c] = slot[c] \/ slot'[c].kind = "lost"
      <4>1. slot' = [d \in Calls |->
                       IF \E id \in DOMAIN pending : pending[id] = d THEN Lost ELSE slot[d]]
        BY <2>3 DEF DrainPending
      <4>2. slot'[c] = IF \E id \in DOMAIN pending : pending[id] = c THEN Lost ELSE slot[c]
        BY <4>1, Zenon
      <4> QED BY <4>2 DEF Lost
    <3> QED BY <1>0, <2>1, <3>1 DEF RepliesKnown, SlotsServed, Delivered
  <2> QED BY <1>2, <2>1, <2>2, <2>3 DEF ReadsNothing
<1>3. ASSUME NEW p \in Packet, ReaderReads(p) PROVE RepliesOwned' /\ SlotsServed'
  <2>1. /\ s2c # <<>> /\ s2c' = Tail(s2c) /\ p = Head(s2c)
    BY <1>3 DEF ReaderReads
  <2>2. /\ Len(s2c') = Len(s2c) - 1 /\ 1 \in 1..Len(s2c) /\ s2c[1] = p
        /\ \A i \in 1..Len(s2c') : s2c'[i] = s2c[i + 1]
    BY <1>0, <2>1, HeadTailProperties, EmptySeq, LenProperties
  <2>3. \A i \in 1..Len(s2c') : i + 1 \in 1..Len(s2c)
    BY <1>0, <2>2
  <2>4. Accounted(p) /\ \A i \in 1..Len(s2c') : Accounted(s2c'[i])
    BY <2>2, <2>3 DEF RepliesKnown, RepliesOwned
  <2>5. \A i \in 1..Len(s2c') : Accounted(s2c[i])'
    BY <1>0, <2>4 DEF Accounted, IsRequestPacket
  <2>6. \A m \in DOMAIN incoming' :
          m < Len(served) /\ incoming'[m].id = served[m + 1].id
    <3>1. CASE OpensReply(p)
      <4>1. p.msgno < Len(served) /\ p.id = served[p.msgno + 1].id
        BY <2>4, <3>1 DEF OpensReply, Accounted, IsRequestPacket
      <4> QED BY <3>1, <4>1 DEF OpensReply, Insert, RepliesKnown, RepliesOwned
    <3>2. CASE AddsToReply(p)
      <4>1. \A m \in DOMAIN incoming' : m \in DOMAIN incoming /\ incoming'[m].id = incoming[m].id
        BY <1>0, <3>2 DEF AddsToReply, IsMap
      <4> QED BY <4>1 DEF RepliesKnown, RepliesOwned
    <3>3. CASE ClosesReply(p) \/ LeavesReplies(p)
      <4>1. \A m \in DOMAIN incoming' : m \in DOMAIN incoming /\ incoming'[m] = incoming[m]
        BY <3>3 DEF ClosesReply, LeavesReplies, Without
      <4> QED BY <4>1 DEF RepliesKnown, RepliesOwned
    <3> QED BY <1>3, <3>1, <3>2, <3>3 DEF ReaderReads
  <2>7. RepliesOwned'
    BY <1>0, <1>1, <2>5, <2>6 DEF RepliesOwned
  <2>8. SlotsServed'
    <3>1. CASE UNCHANGED slot
      BY <1>0, <3>1 DEF RepliesKnown, SlotsServed, Delivered
    <3>2. CASE ClosesReply(p)
      <4> DEFINE m == incoming[p.msgno]
      <4>1. CASE p.type = "EOF"
        <5>1. Deliver(m.id, ReplyOf(m))
          BY <3>2, <4>1 DEF ClosesReply
        <5>2. Delivered(ReplyOf(m))
          BY <1>3, <3>2, <4>1, ReplyAtEof
        <5> QED BY <1>0, <5>1, <5>2, DeliveredServes DEF Ends, RepliesKnown
      <4>2. CASE p.type = "TXERR"
        <5>1. Deliver(m.id, TxerrOf(m))
          BY <3>2, <4>2 DEF ClosesReply
        <5>2. Delivered(TxerrOf(m))
          BY DEF Delivered, TxerrOf
        <5> QED BY <1>0, <5>1, <5>2, DeliveredServes DEF Ends, RepliesKnown
      <4> QED BY <3>2, <4>1, <4>2 DEF ClosesReply
    <3> QED BY <1>3, <3>1, <3>2 DEF ReaderReads, OpensReply, AddsToReply, LeavesReplies
  <2> QED BY <2>7, <2>8
<1> QED BY <1>0, <1>2, <1>3, ClientActs

\* So is what the server writes and dispatches.
LEMMA RepliesOwnedByServer ==
  ASSUME Ends, RepliesKnown, ServerPart
  PROVE  RepliesOwned' /\ SlotsServed'
<1>0. /\ SP!Typed /\ s2c \in Seq(Packet) /\ Len(s2c) \in Nat
      /\ incoming' = incoming /\ slot' = slot
      /\ DOMAIN incoming \subseteq Nat /\ \A i \in 1..Len(s2c) : s2c[i] \in Packet
      /\ served \in Seq([id: Nat, received: Nat, reply: Nat]) /\ Len(served) \in Nat
  BY ServerTypes, LenProperties
  DEF Ends, ServerPart, clientOnly, readerVars, Inv, Typed, TypeOK, ReaderTypes
<1>1. /\ \A i \in 1..Len(s2c) : Accounted(s2c[i])
      /\ \A m \in DOMAIN incoming : m < Len(served) /\ incoming[m].id = served[m + 1].id
      /\ Replying => srvReply.len = served[Len(served)].reply
      /\ server = "eof" => srvReply.offset = srvReply.len
      /\ SlotsServed
  BY DEF RepliesKnown, RepliesOwned
<1>2. ASSUME UNCHANGED <<s2c, served>>, ~Replying' PROVE RepliesOwned' /\ SlotsServed'
  BY <1>0, <1>1, <1>2 DEF RepliesOwned, Accounted, Replying, SlotsServed, Delivered
<1>3. CASE \E p \in Packet : ServerReads(p)
  BY <1>2, <1>3 DEF ServerReads, ServerTakes, Replying
<1>4. CASE ServerMovesOn \/ ServerEnds
  BY <1>2, <1>4 DEF ServerMovesOn, ServerEnds, Replying
<1>5. ASSUME NEW p \in Packet, ServerWrites(p) PROVE RepliesOwned' /\ SlotsServed'
  <2>1. UNCHANGED served /\ s2c' = Append(s2c, p)
    BY <1>5 DEF ServerWrites
  <2>2. Accounted(p)
    <3>1. CASE server = "answering" /\ p = srvAnswer
      BY <3>1, ReplyFacts DEF Accounted, IsRequestPacket
    <3>2. CASE Replying /\ p.msgno = srvReply.msgno /\ (p.type = "HEADER" => p.id = srvReply.id)
      <4>1. /\ srvReply.msgno \in Nat /\ srvReply.msgno + 1 = Len(served)
            /\ srvReply.id = served[Len(served)].id
        BY <3>2, ReplyFacts
      <4>2. srvReply.msgno < Len(served)
        BY <1>0, <4>1
      <4> QED BY <3>2, <4>1, <4>2 DEF Accounted
    <3> QED BY <1>5, <3>1, <3>2 DEF ServerWrites, Replying, Header, Data, Eof
  <2>3. ASSUME NEW i \in 1..Len(s2c') PROVE Accounted(s2c[i])'
    <3>1. s2c'[i] = p \/ \E j \in 1..Len(s2c) : s2c'[i] = s2c[j]
      BY <1>0, <2>1
    <3>2. Accounted(s2c'[i])
      BY <1>1, <2>2, <3>1
    <3> QED BY <2>1, <3>2 DEF Accounted, IsRequestPacket
  <2>4. (Replying /\ srvReply'.len = srvReply.len) \/ ~Replying'
    BY <1>5, ReplyFacts DEF ServerWrites, Replying
  <2>5. server' = "eof" => srvReply'.offset = srvReply'.len
    <3>1. CASE server = "header"
      BY <1>5, <3>1, ReplyFacts DEF ServerWrites
    <3>2. CASE server = "data"
      <4>1. /\ srvReply'.offset = srvReply.offset + SP!DataLen
            /\ srvReply'.len = srvReply.len
            /\ server' = "eof" => ~(srvReply.offset + SP!DataLen < srvReply.len)
        BY <1>5, <3>2, ReplyFacts DEF ServerWrites
      <4>2. /\ srvReply.offset + SP!DataLen <= srvReply.len
            /\ srvReply.offset \in Nat /\ srvReply.len \in Nat /\ SP!DataLen \in Nat
        BY <3>2, ReplyFacts
      <4> QED BY <4>1, <4>2
    <3> QED BY <1>5, <3>1, <3>2 DEF ServerWrites
  <2>6. RepliesOwned'
    BY <1>0, <1>1, <2>1, <2>3, <2>4, <2>5 DEF RepliesOwned
  <2> QED BY <1>0, <1>1, <2>1, <2>6 DEF SlotsServed, Delivered
<1>6. ASSUME NEW n \in Nat, ServerBegins(n) PROVE RepliesOwned' /\ SlotsServed'
  <2>1. PICK s \in [id: Nat, received: Nat, reply: Nat] :
          s = [id |-> srvRequest.id, received |-> srvRequest.received, reply |-> n]
    BY <1>6, ServerTypes DEF Ends
  <2>2. served' = Append(served, s) /\ s.reply = n
    BY <1>6, <2>1 DEF ServerBegins
  <2>3. /\ Len(served') = Len(served) + 1 /\ served'[Len(served) + 1] = s
        /\ \A k \in 1..Len(served) : served'[k] = served[k]
    BY <1>0, <2>2, AppendProperties
  <2>4. \A m \in Nat : m < Len(served) =>
          m < Len(served') /\ served'[m + 1] = served[m + 1]
    <3>1. \A m \in Nat : m < Len(served) => m + 1 \in 1..Len(served)
      BY <1>0
    <3> QED BY <1>0, <2>3, <3>1
  <2>5. ASSUME NEW i \in 1..Len(s2c') PROVE Accounted(s2c[i])'
    <3>1. PICK p \in Packet : p = s2c'[i] /\ Accounted(p)
      BY <1>0, <1>1, <1>6 DEF ServerBegins
    <3>2. p.msgno \in Nat
      BY DEF Packet
    <3>3. Accounted(p)'
      BY <2>4, <3>1, <3>2 DEF Accounted
    <3> QED BY <3>1, <3>3 DEF Accounted, IsRequestPacket
  <2>6. /\ srvReply'.len = served'[Len(served')].reply /\ server' = "header"
    BY <1>0, <1>6, <2>2, <2>3 DEF ServerBegins
  <2>7. RepliesOwned'
    BY <1>0, <1>1, <2>4, <2>5, <2>6 DEF RepliesOwned
  <2>8. ASSUME NEW c \in Calls PROVE Delivered(slot[c])'
    <3>1. PICK d : d = slot[c] /\ Delivered(d)
      BY <1>1 DEF SlotsServed
    <3>2. \A k \in 1..Len(served) : k \in 1..Len(served')
      BY <1>0, <2>3
    <3>3. Delivered(d)'
      BY <2>3, <3>1, <3>2 DEF Delivered
    <3> QED BY <1>0, <3>1, <3>3 DEF Delivered
  <2> QED BY <2>7, <2>8 DEF SlotsServed
<1> QED BY <1>0, <1>3, <1>4, <1>5, <1>6, ServerActs DEF ServerPart

\* Nothing is known of replies in the beginning, and every step keeps it.
LEMMA RepliesStart == LinkInit => RepliesKnown
<1> SUFFICES ASSUME LinkInit PROVE RepliesKnown
  OBVIOUS
<1>1. RepliesTallied
  BY DEF LinkInit, RepliesTallied
<1>2. RepliesOwned
  BY EmptyMapFacts DEF LinkInit, Init, RepliesOwned, Replying
<1>3. SlotsServed
  BY DEF LinkInit, Init, SlotsServed, Delivered, NoResponse
<1> QED BY <1>1, <1>2, <1>3 DEF RepliesKnown

LEMMA RepliesKept ==
  ASSUME Ends, RepliesKnown, [LinkNext]_linkVars
  PROVE  RepliesKnown'
  BY LinkParts, RepliesTalliedByClient, RepliesTalliedByServer, RepliesOwnedByClient,
     RepliesOwnedByServer DEF RepliesKnown

LEMMA RepliesHold == LinkSpec => []RepliesKnown
  BY RepliesStart, RepliesKept, EndsHold, PTL DEF LinkSpec

\* The correlation of ids is the client's own.
LEMMA CorrelationHolds == LinkSpec => []RepliesCorrelated
<1>1. LinkInit => RepliesCorrelated
  BY DEF LinkInit, Init, RepliesCorrelated, NoResponse
<1>2. Ends /\ RepliesCorrelated /\ [LinkNext]_linkVars => RepliesCorrelated'
  <2>1. ASSUME Ends, RepliesCorrelated, ClientPart PROVE RepliesCorrelated'
    BY <2>1, ClientIsClient, CorrelationKept DEF Ends
  <2>2. ASSUME RepliesCorrelated, ServerPart PROVE RepliesCorrelated'
    BY <2>2 DEF ServerPart, clientOnly, RepliesCorrelated
  <2> QED BY <2>1, <2>2, LinkParts
<1> QED BY <1>1, <1>2, EndsHold, PTL DEF LinkSpec

\* A reply handed to a call is the whole reply of its handler to the whole of its
\* request, which ran once.
THEOREM Complete == LinkSpec => []RepliesComplete
<1>1. ASSUME Ends, RequestsKnown, RepliesKnown, RepliesCorrelated,
             NEW c \in Calls, slot[c].kind = "reply"
      PROVE  \E k \in DOMAIN served : /\ ServedAs(rid[c]) = {k}
                                      /\ served[k].received = len[c]
                                      /\ served[k].reply = slot[c].n
  <2>1. DOMAIN served = 1..Len(served)
    BY <1>1, ServerTypes, LenProperties DEF Ends
  <2>2. PICK k \in 1..Len(served) : served[k].id = slot[c].id /\ served[k].reply = slot[c].n
    BY <1>1 DEF RepliesKnown, SlotsServed, Delivered
  <2>3. slot[c].id = rid[c]
    BY <1>1 DEF RepliesCorrelated
  <2>4. PICK d \in Calls : Gone(d) /\ rid[d] = served[k].id /\ len[d] = served[k].received
    BY <1>1 DEF RequestsKnown, Dispatches, IsWhole
  <2>5. d = c
    <3>1. rid[d] > 0
      BY <1>1, <2>4 DEF Gone, HasNumber, Ends, Inv, IInv, IdsUnique
    <3> QED BY <1>1, <2>2, <2>3, <2>4, <3>1 DEF Ends, Inv, IInv, IdsUnique
  <2>6. ServedAs(rid[c]) = {k}
    BY <1>1, <2>1, <2>2, <2>3 DEF RequestsKnown, Dispatches, ServedAs
  <2> QED BY <2>1, <2>2, <2>4, <2>5, <2>6
<1>2. Ends /\ RequestsKnown /\ RepliesKnown /\ RepliesCorrelated => RepliesComplete
  BY <1>1 DEF RepliesComplete
<1> QED BY <1>2, EndsHold, RequestsHold, RepliesHold, CorrelationHolds, PTL

-----------------------------------------------------------------------------
(* What a call waits for.                                                  *)

\* Both ends are up, and so are the client's tasks.
Up == ~peerClosed /\ writer = "running" /\ reader \in {"reading", "answering"}

In(p, q) == \E i \in 1..Len(q) : q[i] = p
IsHeader(p, m) == p.type = "HEADER" /\ p.msgno = m
Coming(m) == \E i \in 1..Len(s2c) : IsHeader(s2c[i], m)

\* Neither end sends a TXERR, which would end a message before its EOF.
NoErrors ==
  /\ answer.type \in {"ACK", "PONG"}
  /\ \A i \in 1..Len(Stream) : Stream[i].type # "TXERR"
  /\ \A i \in 1..Len(s2c) : /\ s2c[i].type # "TXERR"
                            /\ s2c[i].type = "EOF" => s2c[i] = Eof(s2c[i].msgno)

\* Of a request that has begun and whose EOF has not been read, the HEADER is on its way
\* or has been accepted.
Unfinished(c) ==
  HasNumber(c) /\ (pc[c] \in InLoop \cup {"eof"} \/ In(Eof(mno[c]), Stream))
Opened(c) == mno[c] \in DOMAIN srvIncoming \/ In(Header(mno[c], rid[c]), Stream)
RequestsOpen == \A c \in Calls : Unfinished(c) => Opened(c)

\* The HEADERs of replies on their way are those the reader expects next, in order.
HeadersNext ==
  /\ next_incoming_msg_no <= Len(served)
  /\ server = "header" => next_incoming_msg_no <= srvReply.msgno
  /\ \A m \in Nat : m < Len(served) =>
       \/ m < next_incoming_msg_no
       \/ Coming(m)
       \/ server = "header" /\ srvReply.msgno = m
  /\ \A i \in 1..Len(s2c) : s2c[i].type = "HEADER" =>
       /\ next_incoming_msg_no <= s2c[i].msgno
       /\ server = "header" => s2c[i].msgno < srvReply.msgno
       /\ \A j \in 1..Len(s2c) :
            (j < i /\ s2c[j].type = "HEADER") => s2c[j].msgno < s2c[i].msgno

\* Of a reply that has begun and whose EOF has not been read, too.
RepliesOpen ==
  /\ \A i \in 1..Len(s2c) : s2c[i].type = "EOF" =>
       /\ \/ s2c[i].msgno \in DOMAIN incoming
          \/ \E j \in 1..Len(s2c) : j < i /\ IsHeader(s2c[j], s2c[i].msgno)
       /\ Replying => s2c[i].msgno # srvReply.msgno
       /\ \A j \in 1..Len(s2c) :
            (j < i /\ s2c[j].type = "EOF") => s2c[j].msgno # s2c[i].msgno
  /\ server \in {"data", "eof"} =>
       srvReply.msgno \in DOMAIN incoming \/ Coming(srvReply.msgno)

\* What the first and the last of a queue are to the rest.
LEMMA TailOf ==
  ASSUME NEW T, NEW q \in Seq(T), q # <<>>
  PROVE  /\ Tail(q) \in Seq(T) /\ Len(q) \in Nat /\ Len(q) > 0 /\ Len(Tail(q)) = Len(q) - 1
         /\ q[1] = Head(q) /\ \A i \in 1..Len(Tail(q)) : Tail(q)[i] = q[i + 1]
  BY HeadTailProperties, EmptySeq, LenProperties

LEMMA AppendOf ==
  ASSUME NEW T, NEW q \in Seq(T), NEW e \in T
  PROVE  /\ Append(q, e) \in Seq(T) /\ Len(q) \in Nat /\ Len(Append(q, e)) = Len(q) + 1
         /\ Append(q, e)[Len(q) + 1] = e /\ \A i \in 1..Len(q) : Append(q, e)[i] = q[i]
  BY AppendProperties, LenProperties

LEMMA InTail ==
  ASSUME NEW T, NEW q \in Seq(T), q # <<>>, NEW p
  PROVE  In(p, q) <=> p = Head(q) \/ In(p, Tail(q))
<1>1. /\ Len(q) \in Nat /\ Len(q) > 0 /\ Len(Tail(q)) = Len(q) - 1
      /\ q[1] = Head(q) /\ \A i \in 1..Len(Tail(q)) : Tail(q)[i] = q[i + 1]
  BY TailOf
<1>2. ASSUME In(p, q), p # Head(q) PROVE In(p, Tail(q))
  <2>1. PICK i \in 1..Len(q) : q[i] = p
    BY <1>2 DEF In
  <2>2. i - 1 \in 1..Len(Tail(q)) /\ (i - 1) + 1 = i
    BY <1>1, <1>2, <2>1
  <2> QED BY <1>1, <2>1, <2>2 DEF In
<1>3. ASSUME In(p, Tail(q)) PROVE In(p, q)
  <2>1. PICK i \in 1..Len(Tail(q)) : Tail(q)[i] = p
    BY <1>3 DEF In
  <2>2. i + 1 \in 1..Len(q)
    BY <1>1
  <2> QED BY <1>1, <2>1, <2>2 DEF In
<1>4. p = Head(q) => In(p, q)
  <2>1. 1 \in 1..Len(q)
    BY <1>1
  <2> QED BY <1>1, <2>1 DEF In
<1> QED BY <1>2, <1>3, <1>4

LEMMA InAppend ==
  ASSUME NEW T, NEW q \in Seq(T), NEW e \in T, NEW p
  PROVE  In(p, Append(q, e)) <=> In(p, q) \/ p = e
<1>1. /\ Len(q) \in Nat /\ Len(Append(q, e)) = Len(q) + 1
      /\ Append(q, e)[Len(q) + 1] = e /\ \A i \in 1..Len(q) : Append(q, e)[i] = q[i]
  BY AppendOf
<1>2. \A i : i \in 1..(Len(q) + 1) <=> i \in 1..Len(q) \/ i = Len(q) + 1
  BY <1>1
<1> QED BY <1>1, <1>2 DEF In

\* An end that is down stays down.
LEMMA UpWas ==
  ASSUME Ends, [LinkNext]_linkVars, Up'
  PROVE  Up
<1>1. CASE ClientPart
  <2>1. ~peerClosed /\ writer = "running"
    BY <1>1, ClientWire DEF Up, Ends, Inv, Typed, TypeOK, WireTypes
  <2>2. reader \in {"reading", "answering"}
    <3>1. CASE ReaderStep
      BY <3>1 DEF ReaderStep, Reads, RouteHeader, RouteData, RouteEof, RouteTxerr, RouteAck,
         RoutePing, RoutePong, RouteBad, ReaderAnswers, ReaderEnds, DrainPending, SetClosed, Up
    <3>2. CASE reader' = reader
      BY <3>2 DEF Up
    <3>3. CASE \E c \in Calls : Start(c) \/ CallStep(c)
      BY <3>2, <3>3 DEF Start, CallStep, TakeRequestId, TakeMsgNo, Register, Track, SendHeader,
         CheckClosed, CheckWindow, Park, SendChunk, CountSent, SendEof, TakeResponse, TimeOut,
         Expire, Release, Unregister, Untrack, Enqueue, readerVars
    <3>4. CASE WriterStep \/ DropHandle
      BY <3>2, <3>4 DEF WriterStep, WriterSends, WriterFails, DropHandle, readerVars, Up
    <3> QED BY <1>1, <3>1, <3>2, <3>3, <3>4 DEF ClientPart, ClientStep, vars, readerVars
  <2> QED BY <2>1, <2>2 DEF Up
<1>2. CASE ServerPart
  <2>1. UNCHANGED <<reader, writer>>
    BY <1>2 DEF ServerPart, clientOnly, readerVars
  <2>2. peerClosed' = peerClosed \/ peerClosed' = TRUE
    BY <1>2, ServerActs DEF Ends, ServerPart, ServerReads, ServerTakes, ServerWrites,
       ServerBegins, ServerMovesOn, ServerEnds
  <2> QED BY <2>1, <2>2 DEF Up
<1> QED BY <1>1, <1>2, LinkParts

\* Neither end sends a TXERR, and an EOF of a reply is empty.
LEMMA NoErrorsKept ==
  ASSUME Ends, NoErrors, [LinkNext]_linkVars
  PROVE  NoErrors'
<1>0. /\ Typed /\ SP!Typed /\ Stream \in Seq(Packet) /\ c2s \in Seq(Packet) /\ chan \in Seq(Packet)
      /\ s2c \in Seq(Packet) /\ Len(Stream) \in Nat /\ Len(s2c) \in Nat
  BY ConcatFacts, LenProperties DEF Ends, Inv, Typed, TypeOK, WireTypes, Stream
<1> DEFINE Fine(p) == p.type # "TXERR"
           Closes(p) == p.type = "EOF" => p = Eof(p.msgno)
<1>1. CASE ClientPart
  <2>1. answer'.type \in {"ACK", "PONG"}
    <3>1. CASE UNCHANGED answer
      BY <3>1 DEF NoErrors
    <3>2. CASE ReaderStep
      BY <3>1, <3>2 DEF ReaderStep, Reads, RouteHeader, RouteData, RouteEof, RouteTxerr, RouteAck,
         RoutePing, RoutePong, RouteBad, ReaderAnswers, ReaderEnds, DrainPending, SetClosed,
         Ack, Pong, NoPacket, readerVars
    <3>3. CASE \E c \in Calls : Start(c) \/ CallStep(c)
      BY <3>1, <3>3 DEF Start, CallStep, TakeRequestId, TakeMsgNo, Register, Track, SendHeader,
         CheckClosed, CheckWindow, Park, SendChunk, CountSent, SendEof, TakeResponse, TimeOut,
         Expire, Release, Unregister, Untrack, Enqueue, readerVars
    <3>4. CASE WriterStep \/ DropHandle
      BY <3>1, <3>4 DEF WriterStep, WriterSends, WriterFails, DropHandle, readerVars
    <3> QED BY <1>1, <3>1, <3>2, <3>3, <3>4 DEF ClientPart, ClientStep, vars, readerVars
  <2>2. \A i \in 1..Len(Stream') : Fine(Stream'[i])
    <3>1. CASE Stream' = Stream
      BY <3>1 DEF NoErrors
    <3>2. CASE Stream' = c2s
      <4>1. \A i \in 1..Len(c2s) : i \in 1..Len(Stream) /\ Stream[i] = c2s[i]
        BY <1>0, ConcatFacts, LenProperties DEF Stream
      <4> QED BY <3>2, <4>1 DEF NoErrors
    <3>3. ASSUME NEW p \in Packet, Adds(p), Stream' = Append(Stream, p)
          PROVE  \A i \in 1..Len(Stream') : Fine(Stream'[i])
      <4>1. Fine(p)
        BY <3>3 DEF Adds, NoErrors, Header, Data, Eof
      <4>2. /\ Len(Stream') = Len(Stream) + 1 /\ Stream'[Len(Stream) + 1] = p
            /\ \A i \in 1..Len(Stream) : Stream'[i] = Stream[i]
        BY <1>0, <3>3, AppendOf
      <4>3. \A i \in 1..Len(Stream') : i \in 1..Len(Stream) \/ i = Len(Stream) + 1
        BY <1>0, <4>2
      <4> QED BY <4>1, <4>2, <4>3 DEF NoErrors
    <3> QED BY <1>0, <1>1, <3>1, <3>2, <3>3, ClientStream DEF ClientPart, Stream, vars, wireVars
  <2>3. \A i \in 1..Len(s2c') : Fine(s2c'[i]) /\ Closes(s2c'[i])
    <3>1. s2c' = s2c \/ (s2c # <<>> /\ s2c' = Tail(s2c))
      BY <1>0, <1>1, ClientWire
    <3>2. CASE s2c' = s2c
      BY <3>2 DEF NoErrors
    <3>3. CASE s2c # <<>> /\ s2c' = Tail(s2c)
      <4>1. /\ Len(s2c') = Len(s2c) - 1 /\ \A i \in 1..Len(s2c') : s2c'[i] = s2c[i + 1]
        BY <1>0, <3>3, TailOf
      <4>2. \A i \in 1..Len(s2c') : i + 1 \in 1..Len(s2c)
        BY <1>0, <4>1
      <4> QED BY <4>1, <4>2 DEF NoErrors
    <3> QED BY <3>1, <3>2, <3>3
  <2> QED BY <2>1, <2>2, <2>3 DEF NoErrors
<1>2. CASE ServerPart
  <2>1. UNCHANGED answer
    BY <1>2 DEF ServerPart, clientOnly, readerVars
  <2>2. \A i \in 1..Len(Stream') : Fine(Stream'[i])
    <3>1. PICK k \in Nat : /\ k + Len(Stream') <= Len(Stream)
                           /\ \A n \in 1..Len(Stream') : Stream'[n] = Stream[k + n]
      BY <1>0, <1>2, ServerWire DEF PartOf
    <3>2. Len(Stream') \in Nat
      BY <1>2, EndsKept, ConcatFacts, LenProperties DEF Ends, Inv, Typed, TypeOK, WireTypes, Stream
    <3>3. \A n \in 1..Len(Stream') : k + n \in 1..Len(Stream)
      BY <1>0, <3>1, <3>2
    <3> QED BY <3>1, <3>3 DEF NoErrors
  <2>3. \A i \in 1..Len(s2c') : Fine(s2c'[i]) /\ Closes(s2c'[i])
    <3>1. CASE s2c' = s2c
      BY <3>1 DEF NoErrors
    <3>2. ASSUME NEW p \in Packet, ServerWrites(p)
          PROVE  \A i \in 1..Len(s2c') : Fine(s2c'[i]) /\ Closes(s2c'[i])
      <4>1. Fine(p) /\ Closes(p)
        BY <3>2, ReplyFacts DEF ServerWrites, Header, Data, Eof
      <4>2. /\ Len(s2c') = Len(s2c) + 1 /\ s2c'[Len(s2c) + 1] = p
            /\ \A i \in 1..Len(s2c) : s2c'[i] = s2c[i]
        BY <1>0, <3>2, AppendOf DEF ServerWrites
      <4>3. \A i \in 1..Len(s2c') : i \in 1..Len(s2c) \/ i = Len(s2c) + 1
        BY <1>0, <4>2
      <4> QED BY <4>1, <4>2, <4>3 DEF NoErrors
    <3> QED BY <1>0, <1>2, <3>1, <3>2, ServerActs
            DEF ServerPart, ServerReads, ServerTakes, ServerBegins, ServerMovesOn, ServerEnds
  <2> QED BY <2>1, <2>2, <2>3 DEF NoErrors
<1> QED BY <1>1, <1>2, LinkParts

\* A call sends its HEADER before it goes on, and its EOF only then.
LEMMA RequestsOpenByClient ==
  ASSUME Ends, OpenOwned, RequestsOpen, Up, Up', ClientPart
  PROVE  RequestsOpen'
<1>0. /\ Typed /\ IdsUnique /\ MsgNosUnique /\ [Next]_vars /\ UNCHANGED srvIncoming
      /\ Stream \in Seq(Packet) /\ chan \in Seq(Packet) /\ c2s \in Seq(Packet)
      /\ ~IsRequestPacket(answer)
  BY ClientIsClient, ConcatFacts
  DEF Ends, Inv, IInv, ClientPart, Typed, TypeOK, WireTypes, Stream, serverVars, PacketsOwned
<1>1. \/ Stream' = Stream
      \/ \E p \in Packet : Adds(p) /\ Stream' = Append(Stream, p)
  BY <1>0, ClientStream DEF ClientPart, Up, Stream, vars, wireVars
<1> SUFFICES ASSUME NEW c \in Calls, Unfinished(c)' PROVE Opened(c)'
  BY DEF RequestsOpen
<1>2. ~TakeMsgNo(c)
  <2> SUFFICES ASSUME TakeMsgNo(c) PROVE FALSE
    OBVIOUS
  <2>1. /\ pc'[c] = "register" /\ mno'[c] = next_outgoing_msg_no
        /\ chan' = chan /\ c2s' = c2s
    BY <1>0 DEF TakeMsgNo, Goto, wireVars, Typed, TypeOK, CallTypes
  <2>2. In(Eof(next_outgoing_msg_no), Stream)
    BY <2>1 DEF Unfinished, InLoop, Stream
  <2>3. IsRequestPacket(Eof(next_outgoing_msg_no))
        /\ Eof(next_outgoing_msg_no).msgno = next_outgoing_msg_no
    BY DEF Eof, IsRequestPacket
  <2> QED BY <2>2, <2>3, SilentNumber DEF Ends, In, Silent
<1>3. /\ HasNumber(c) /\ mno'[c] = mno[c] /\ rid'[c] = rid[c]
  BY <1>0, <1>2, NumbersStay DEF Unfinished
<1>4. PICK eof, header : eof = Eof(mno[c]) /\ header = Header(mno[c], rid[c])
  OBVIOUS
<1>5. Opened(c) => Opened(c)'
  <2>1. In(header, Stream) => In(header, Stream')
    <3>1. ASSUME NEW p \in Packet, Stream' = Append(Stream, p)
          PROVE  In(header, Stream) => In(header, Stream')
      BY <1>0, <3>1, InAppend
    <3> QED BY <1>1, <3>1
  <2>2. mno[c] \in DOMAIN srvIncoming => mno'[c] \in DOMAIN srvIncoming'
    BY <1>0, <1>3
  <2>3. In(header, Stream') => Opened(c)'
    BY <1>3, <1>4 DEF Opened, In
  <2> QED BY <1>4, <2>1, <2>2, <2>3 DEF Opened
<1>6. CASE Unfinished(c)
  BY <1>5, <1>6 DEF RequestsOpen
<1>7. CASE ~Unfinished(c)
  <2>1. pc[c] \notin InLoop \cup {"eof"} /\ ~In(eof, Stream)
    BY <1>3, <1>4, <1>7 DEF Unfinished
  <2>2. ~In(eof, Stream')
    <3> SUFFICES ASSUME NEW p \in Packet, Adds(p), p = eof PROVE FALSE
      <4>1. ASSUME NEW p \in Packet, Adds(p), Stream' = Append(Stream, p), In(eof, Stream')
            PROVE  p = eof
        <5>1. In(eof, Append(Stream, p))
          BY <4>1
        <5> QED BY <1>0, <2>1, <5>1, InAppend
      <4> QED BY <1>1, <2>1, <4>1
    <3>1. p.type = "EOF" /\ p.msgno = mno[c]
      BY <1>4 DEF Eof
    <3>2. p # answer
      BY <1>0, <3>1 DEF IsRequestPacket
    <3>3. PICK d \in Calls : pc[d] = "eof" /\ p = Eof(mno[d])
      BY <3>1, <3>2 DEF Adds, SendEof, Header, Data
    <3>4. HasNumber(d) /\ mno[d] = mno[c]
      BY <3>1, <3>3 DEF HasNumber, Numbered, Tracked, Eof
    <3>5. d = c
      BY <1>0, <1>3, <3>4 DEF MsgNosUnique
    <3> QED BY <2>1, <3>3, <3>5
  <2>3. pc'[c] \in InLoop \cup {"eof"}
    <3>1. ~In(Eof(mno[c]), Stream)'
      BY <1>3, <1>4, <2>2 DEF In
    <3> QED BY <3>1 DEF Unfinished
  <2>4. pc[c] = "header"
    BY <1>0, <2>1, <2>3, ControlFlow, TypedPlaced DEF Edges, InLoop
  <2>5. SendHeader(c)
    BY <1>0, <2>3, <2>4, CallMoves, TypedPlaced
    DEF Start, CallStep, TakeRequestId, TakeMsgNo, Register, Track, CheckClosed, CheckWindow,
        Park, SendChunk, CountSent, SendEof, TakeResponse, TimeOut, Expire, Release, Unregister,
        Untrack, InLoop
  <2>6. chan' = Append(chan, header) /\ c2s' = c2s /\ header \in Packet
    <3>1. header \in Packet
      BY <1>0, <1>4 DEF Header, Packet, PacketType, Typed, TypeOK, CallTypes
    <3> QED BY <1>4, <2>5, <3>1 DEF SendHeader, Enqueue, Up
  <2>7. Stream' = Append(Stream, header)
    BY <1>0, <2>6, ConcatFacts DEF Stream
  <2>8. In(header, Stream')
    BY <1>0, <2>6, <2>7, InAppend
  <2> QED BY <1>3, <1>4, <2>8 DEF Opened, In
<1> QED BY <1>6, <1>7

\* The server accepts a HEADER or ends, and closes a request at its EOF only.
LEMMA RequestsOpenByServer ==
  ASSUME Ends, RequestsKnown, NoErrors, RequestsOpen, Up', ServerPart
  PROVE  RequestsOpen'
<1>0. /\ Typed /\ MsgNosUnique /\ UNCHANGED clientOnly /\ Stream \in Seq(Packet)
      /\ IsMap(srvIncoming) /\ SP!Typed
  BY ServerTypes, ConcatFacts
  DEF Ends, Inv, IInv, ServerPart, Typed, TypeOK, WireTypes, Stream
<1> SUFFICES ASSUME NEW c \in Calls, Unfinished(c)' PROVE Opened(c)'
  BY DEF RequestsOpen
<1>1. PICK eof, header : eof = Eof(mno[c]) /\ header = Header(mno[c], rid[c])
  OBVIOUS
<1>2. /\ HasNumber(c) /\ mno'[c] = mno[c] /\ rid'[c] = rid[c]
      /\ pc[c] \in InLoop \cup {"eof"} \/ In(eof, Stream')
  <2>1. pc' = pc /\ mno' = mno /\ rid' = rid
    BY <1>0 DEF clientOnly, callVars
  <2>2. Eof(mno[c])' = eof
    BY <1>1, <2>1 DEF Eof
  <2>3. In(Eof(mno[c]), Stream)' => In(eof, Stream')
    BY <2>2 DEF In
  <2> QED BY <2>1, <2>3 DEF Unfinished, HasNumber
<1>3. In(header, Stream') \/ mno[c] \in DOMAIN srvIncoming' => Opened(c)'
  BY <1>1, <1>2 DEF Opened, In
<1>4. ASSUME UNCHANGED <<c2s, srvIncoming>> PROVE Opened(c)'
  <2>1. Stream' = Stream
    BY <1>0, <1>4 DEF Stream, clientOnly
  <2> QED BY <1>1, <1>2, <1>3, <1>4, <2>1 DEF RequestsOpen, Unfinished, Opened
<1>5. ASSUME NEW p \in Packet, ServerReads(p) PROVE Opened(c)'
  <2>1. /\ Stream # <<>> /\ p = Head(Stream) /\ Stream' = Tail(Stream)
        /\ 1 \in DOMAIN Stream /\ p = Stream[1]
    BY <1>5, ServerReadsHead
  <2>2. \A x : In(x, Stream) <=> x = p \/ In(x, Stream')
    BY <1>0, <2>1, InTail
  <2>3. Opened(c)
    BY <1>1, <1>2, <2>2 DEF RequestsOpen, Unfinished
  <2>4. CASE In(header, Stream)
    <3>1. CASE p = header
      <4>1. p.type = "HEADER" /\ p.msgno = mno[c]
        BY <1>1, <3>1 DEF Header
      <4>2. OpensRequest(p)
        BY <1>5, <4>1 DEF ServerReads, AddsToRequest, ClosesRequest, PassesOver
      <4> QED BY <1>3, <4>1, <4>2 DEF OpensRequest, Insert
    <3> QED BY <1>3, <2>2, <2>4, <3>1
  <2>5. CASE mno[c] \in DOMAIN srvIncoming
    <3>1. CASE OpensRequest(p)
      BY <1>3, <2>5, <3>1 DEF OpensRequest, Insert
    <3>2. CASE AddsToRequest(p)
      BY <1>0, <1>3, <2>5, <3>2 DEF AddsToRequest, IsMap
    <3>3. CASE PassesOver(p)
      BY <1>3, <2>5, <3>3 DEF PassesOver
    <3>4. CASE ClosesRequest(p)
      <4>1. CASE p.msgno # mno[c]
        BY <1>3, <2>5, <3>4, <4>1 DEF ClosesRequest, Without
      <4>2. CASE p.msgno = mno[c]
        <5>1. p.type = "EOF"
          <6>1. 1 \in 1..Len(Stream)
            BY <1>0, <2>1, LenProperties
          <6> QED BY <2>1, <3>4, <6>1 DEF ClosesRequest, NoErrors
        <5>2. PICK d \in Calls : IsOf(p, d)
          BY <2>1, <5>1 DEF Ends, Inv, IInv, PacketsOwned, IsRequestPacket
        <5>3. d = c
          BY <1>0, <1>2, <4>2, <5>2, OneOwner
        <5>4. pc[c] \in Answered /\ p = eof
          BY <1>1, <5>1, <5>2, <5>3 DEF IsOf, Header
        <5>5. In(eof, Stream')
          BY <1>2, <5>4 DEF Answered, InLoop
        <5>6. PICK i \in 1..Len(Stream') : Stream'[i] = eof
          BY <5>5 DEF In
        <5>7. /\ i + 1 \in DOMAIN Stream /\ Stream[i + 1] = eof /\ 1 < i + 1
          <6>1. /\ Len(Stream') = Len(Stream) - 1 /\ Len(Stream) \in Nat
                /\ Stream'[i] = Stream[i + 1]
            BY <1>0, <2>1, TailOf
          <6>2. DOMAIN Stream = 1..Len(Stream)
            BY <1>0, LenProperties
          <6> QED BY <5>6, <6>1, <6>2
        <5>8. ~(Rank(p) < Rank(p)) /\ p.type # "DATA"
          BY <5>1 DEF Rank
        <5>9. Before(Stream[1], Stream[i + 1])
          BY <2>1, <5>7 DEF RequestsKnown, PacketsInOrder, Before
        <5> QED BY <2>1, <5>1, <5>4, <5>7, <5>8, <5>9 DEF Before, IsRequestPacket
      <4> QED BY <4>1, <4>2
    <3> QED BY <1>5, <3>1, <3>2, <3>3, <3>4 DEF ServerReads
  <2> QED BY <1>1, <2>3, <2>4, <2>5 DEF Opened
<1> QED BY <1>0, <1>4, <1>5, ServerActs
        DEF ServerPart, ServerWrites, ServerBegins, ServerMovesOn, ServerEnds, Up

\* What the reader leaves of the stream to it.
LEMMA ReadOff ==
  ASSUME Ends, NEW p \in Packet, ReaderReads(p)
  PROVE  /\ s2c \in Seq(Packet) /\ Len(s2c) \in Nat /\ 1 \in 1..Len(s2c) /\ s2c[1] = p
         /\ \A i \in 1..Len(s2c') : i + 1 \in 1..Len(s2c) /\ s2c'[i] = s2c[i + 1] /\ 1 < i + 1
         /\ \A i \in 1..Len(s2c) : i = 1 \/ (i - 1 \in 1..Len(s2c') /\ s2c'[i - 1] = s2c[i])
<1>1. s2c \in Seq(Packet) /\ s2c # <<>> /\ s2c' = Tail(s2c) /\ p = Head(s2c)
  BY DEF Ends, Inv, Typed, TypeOK, WireTypes, ReaderReads
<1>2. /\ Len(s2c) \in Nat /\ Len(s2c) > 0 /\ Len(s2c') = Len(s2c) - 1
      /\ s2c[1] = p /\ \A i \in 1..Len(s2c') : s2c'[i] = s2c[i + 1]
  BY <1>1, TailOf
<1>3. \A i \in 1..Len(s2c') : i + 1 \in 1..Len(s2c) /\ 1 < i + 1
  BY <1>2
<1>4. ASSUME NEW i \in 1..Len(s2c), i # 1
      PROVE  i - 1 \in 1..Len(s2c') /\ s2c'[i - 1] = s2c[i]
  <2>1. i - 1 \in 1..Len(s2c') /\ (i - 1) + 1 = i
    BY <1>2, <1>4
  <2> QED BY <1>2, <2>1
<1> QED BY <1>1, <1>2, <1>3, <1>4

\* What the server's writing leaves of it.
LEMMA WrittenOn ==
  ASSUME Ends, NEW p \in Packet, s2c' = Append(s2c, p)
  PROVE  /\ s2c \in Seq(Packet) /\ Len(s2c) \in Nat
         /\ Len(s2c') = Len(s2c) + 1 /\ s2c'[Len(s2c) + 1] = p
         /\ \A i \in 1..Len(s2c) : i \in 1..Len(s2c') /\ s2c'[i] = s2c[i]
         /\ \A i \in 1..Len(s2c') : i \in 1..Len(s2c) \/ i = Len(s2c) + 1
<1>1. s2c \in Seq(Packet)
  BY DEF Ends, Inv, Typed, TypeOK, WireTypes
<1>2. /\ Len(s2c) \in Nat /\ Len(s2c') = Len(s2c) + 1 /\ s2c'[Len(s2c) + 1] = p
      /\ \A i \in 1..Len(s2c) : s2c'[i] = s2c[i]
  BY <1>1, AppendOf
<1> QED BY <1>1, <1>2

\* The first HEADER on its way is the one the reader expects.
LEMMA NextHeader ==
  ASSUME Ends, RepliesKnown, HeadersNext, s2c # <<>>, Head(s2c).type = "HEADER"
  PROVE  Head(s2c).msgno = next_incoming_msg_no
<1>1. PICK p \in Packet : p = Head(s2c)
  BY QueueFacts DEF Ends, Inv, Typed, TypeOK, WireTypes
<1>2. /\ 1 \in 1..Len(s2c) /\ s2c[1] = p /\ p.msgno \in Nat /\ next_incoming_msg_no \in Nat
      /\ p.type = "HEADER" /\ Len(served) \in Nat /\ Len(s2c) \in Nat
  <2>1. s2c \in Seq(Packet) /\ next_incoming_msg_no \in Nat
    BY DEF Ends, Inv, Typed, TypeOK, WireTypes, ReaderTypes
  <2>2. Len(s2c) \in Nat /\ Len(s2c) > 0 /\ s2c[1] = Head(s2c)
    BY <2>1, TailOf
  <2>3. Len(served) \in Nat
    BY ReplyFacts
  <2>4. p.msgno \in Nat
    BY DEF Packet
  <2>5. 1 \in 1..Len(s2c)
    BY <2>2
  <2> QED BY <1>1, <2>1, <2>2, <2>3, <2>4, <2>5
<1>3. next_incoming_msg_no <= p.msgno /\ p.msgno < Len(served)
  BY <1>2 DEF HeadersNext, RepliesKnown, RepliesOwned, Accounted, IsRequestPacket
<1> SUFFICES ASSUME next_incoming_msg_no < p.msgno PROVE FALSE
  BY <1>1, <1>2, <1>3
<1>4. \/ Coming(next_incoming_msg_no)
      \/ server = "header" /\ srvReply.msgno = next_incoming_msg_no
  BY <1>2, <1>3 DEF HeadersNext
<1>5. ~(server = "header" /\ srvReply.msgno = next_incoming_msg_no)
  <2>1. server = "header" => p.msgno < srvReply.msgno
    BY <1>2 DEF HeadersNext
  <2> QED BY <1>2, <2>1
<1>6. PICK i \in 1..Len(s2c) : s2c[i].type = "HEADER" /\ s2c[i].msgno = next_incoming_msg_no
  BY <1>4, <1>5 DEF Coming, IsHeader
<1>7. i # 1 /\ 1 < i
  BY <1>2, <1>6
<1>8. s2c[1].msgno < s2c[i].msgno
  BY <1>2, <1>6, <1>7 DEF HeadersNext
<1> QED BY <1>2, <1>6, <1>8

\* The reader takes the HEADERs in turn.
LEMMA HeadersNextByClient ==
  ASSUME Ends, RepliesKnown, HeadersNext, ClientPart
  PROVE  HeadersNext'
<1>0. /\ Typed /\ UNCHANGED <<server, srvReply, served>>
      /\ next_incoming_msg_no \in Nat /\ Len(served) \in Nat /\ srvReply.msgno \in Nat
  BY ReplyFacts DEF ClientPart, serverVars, Ends, Inv, Typed, TypeOK, ReaderTypes
<1>1. CASE ReadsNothing
  BY <1>0, <1>1 DEF ReadsNothing, HeadersNext, Coming, IsHeader
<1>2. ASSUME NEW p \in Packet, ReaderReads(p) PROVE HeadersNext'
  <2>0. /\ 1 \in 1..Len(s2c) /\ s2c[1] = p /\ Len(s2c) \in Nat /\ s2c \in Seq(Packet)
        /\ \A i \in 1..Len(s2c') : i + 1 \in 1..Len(s2c) /\ s2c'[i] = s2c[i + 1] /\ 1 < i + 1
        /\ \A i \in 1..Len(s2c) : i = 1 \/ (i - 1 \in 1..Len(s2c') /\ s2c'[i - 1] = s2c[i])
        /\ s2c # <<>> /\ p = Head(s2c) /\ p.msgno \in Nat
        /\ \A i \in 1..Len(s2c) : s2c[i].msgno \in Nat
    <3>1. s2c \in Seq(Packet) /\ \A q \in Packet : q.msgno \in Nat
      BY <1>2, ReadOff DEF Packet
    <3>2. \A i \in 1..Len(s2c) : s2c[i] \in Packet
      BY <3>1
    <3> QED BY <1>2, <3>1, <3>2, ReadOff DEF ReaderReads
  <2>1. ASSUME NEW i \in 1..Len(s2c'), s2c'[i].type = "HEADER"
        PROVE  /\ server' = "header" => s2c'[i].msgno < srvReply'.msgno
               /\ \A j \in 1..Len(s2c') :
                    (j < i /\ s2c'[j].type = "HEADER") => s2c'[j].msgno < s2c'[i].msgno
    <3>1. server' = "header" => s2c'[i].msgno < srvReply'.msgno
      BY <1>0, <2>0, <2>1 DEF HeadersNext
    <3>2. ASSUME NEW j \in 1..Len(s2c'), j < i, s2c'[j].type = "HEADER"
          PROVE  s2c'[j].msgno < s2c'[i].msgno
      <4>1. /\ j + 1 \in 1..Len(s2c) /\ i + 1 \in 1..Len(s2c)
            /\ s2c'[j] = s2c[j + 1] /\ s2c'[i] = s2c[i + 1]
        BY <2>0
      <4>2. j + 1 < i + 1
        BY <3>2
      <4>3. s2c[j + 1].type = "HEADER" /\ s2c[i + 1].type = "HEADER"
        BY <2>1, <3>2, <4>1
      <4>4. s2c[j + 1].msgno < s2c[i + 1].msgno
        BY <4>1, <4>2, <4>3 DEF HeadersNext
      <4> QED BY <4>1, <4>4
    <3> QED BY <3>1, <3>2
  <2>2. CASE p.type = "HEADER"
    <3>1. p.msgno = next_incoming_msg_no
      BY <2>0, <2>2, NextHeader
    <3>2. next_incoming_msg_no' = next_incoming_msg_no + 1
      BY <1>2, <2>2, <3>1
      DEF ReaderReads, OpensReply, AddsToReply, ClosesReply, LeavesReplies
    <3>3. /\ next_incoming_msg_no' <= Len(served')
          /\ server' = "header" => next_incoming_msg_no' <= srvReply'.msgno
      <4>1. p.msgno < Len(served)
        BY <2>0, <2>2 DEF RepliesKnown, RepliesOwned, Accounted, IsRequestPacket
      <4>2. server = "header" => p.msgno < srvReply.msgno
        BY <2>0, <2>2 DEF HeadersNext
      <4> QED BY <1>0, <3>1, <3>2, <4>1, <4>2
    <3>4. ASSUME NEW m \in Nat, m < Len(served')
          PROVE  \/ m < next_incoming_msg_no' \/ Coming(m)'
                 \/ server' = "header" /\ srvReply'.msgno = m
      <4>1. CASE Coming(m)
        <5>1. PICK i \in 1..Len(s2c) : IsHeader(s2c[i], m)
          BY <4>1 DEF Coming
        <5>2. CASE i = 1
          BY <1>0, <2>0, <3>1, <3>2, <5>1, <5>2 DEF IsHeader
        <5>3. CASE i - 1 \in 1..Len(s2c') /\ s2c'[i - 1] = s2c[i]
          BY <5>1, <5>3 DEF Coming, IsHeader
        <5> QED BY <2>0, <5>2, <5>3
      <4>2. CASE m < next_incoming_msg_no
        BY <1>0, <3>2, <4>2
      <4> QED BY <1>0, <3>4, <4>1, <4>2 DEF HeadersNext
    <3>5. ASSUME NEW i \in 1..Len(s2c'), s2c'[i].type = "HEADER"
          PROVE  next_incoming_msg_no' <= s2c'[i].msgno
      <4>1. s2c[1].msgno < s2c[i + 1].msgno
        BY <2>0, <2>2, <3>5 DEF HeadersNext
      <4>2. s2c[1].msgno = next_incoming_msg_no /\ s2c'[i].msgno = s2c[i + 1].msgno
            /\ s2c[i + 1].msgno \in Nat
        BY <2>0, <3>1
      <4> QED BY <1>0, <3>2, <4>1, <4>2
    <3> QED BY <2>1, <3>3, <3>4, <3>5 DEF HeadersNext
  <2>3. CASE p.type # "HEADER"
    <3>1. next_incoming_msg_no' = next_incoming_msg_no
      BY <1>2, <2>3 DEF ReaderReads, OpensReply, AddsToReply, ClosesReply, LeavesReplies
    <3>2. ASSUME NEW m \in Nat, m < Len(served')
          PROVE  \/ m < next_incoming_msg_no' \/ Coming(m)'
                 \/ server' = "header" /\ srvReply'.msgno = m
      <4>1. CASE Coming(m)
        <5>1. PICK i \in 1..Len(s2c) : IsHeader(s2c[i], m)
          BY <4>1 DEF Coming
        <5>2. i # 1
          BY <2>0, <2>3, <5>1 DEF IsHeader
        <5> QED BY <2>0, <5>1, <5>2 DEF Coming, IsHeader
      <4> QED BY <1>0, <3>1, <3>2, <4>1 DEF HeadersNext
    <3>3. ASSUME NEW i \in 1..Len(s2c'), s2c'[i].type = "HEADER"
          PROVE  next_incoming_msg_no' <= s2c'[i].msgno
      BY <2>0, <3>1, <3>3 DEF HeadersNext
    <3>4. /\ next_incoming_msg_no' <= Len(served')
          /\ server' = "header" => next_incoming_msg_no' <= srvReply'.msgno
      BY <1>0, <3>1 DEF HeadersNext
    <3> QED BY <2>1, <3>2, <3>3, <3>4 DEF HeadersNext
  <2> QED BY <2>2, <2>3
<1> QED BY <1>0, <1>1, <1>2, ClientActs

\* What the server does while both ends are up: it reads, or writes, or begins a reply, or
\* goes on from its check.
LEMMA ServerActsUp ==
  ASSUME Ends, Up', ServerPart
  PROVE  /\ UNCHANGED <<incoming, next_incoming_msg_no, reader>>
         /\ \/ \E p \in Packet : ServerReads(p)
            \/ \E p \in Packet : ServerWrites(p)
            \/ \E n \in Nat : ServerBegins(n)
            \/ ServerMovesOn /\ server = "checking" /\ server' = "handling"
<1>1. UNCHANGED <<incoming, next_incoming_msg_no, reader>>
  BY DEF ServerPart, clientOnly, readerVars
<1>2. reader # "gone" /\ ~peerClosed'
  BY <1>1 DEF Up
<1>3. ~clientGone
  BY <1>2 DEF clientGone
<1> QED BY <1>1, <1>2, <1>3, ServerActs DEF Ends, ServerPart, ServerMovesOn, ServerEnds

\* The server numbers its replies in turn, and writes the HEADER of each.
LEMMA HeadersNextByServer ==
  ASSUME Ends, RepliesKnown, HeadersNext, Up', ServerPart
  PROVE  HeadersNext'
<1>0. /\ next_incoming_msg_no' = next_incoming_msg_no /\ next_incoming_msg_no \in Nat
      /\ Len(served) \in Nat /\ srvReply.msgno \in Nat /\ srvNextOut = Len(served)
      /\ Len(s2c) \in Nat
  BY ServerActsUp, ReplyFacts, LenProperties
  DEF Ends, Inv, Typed, TypeOK, ReaderTypes, WireTypes
<1>1. ASSUME UNCHANGED <<s2c, served>>, server # "header", server' # "header" PROVE HeadersNext'
  BY <1>0, <1>1 DEF HeadersNext, Coming, IsHeader
<1>2. CASE \E p \in Packet : ServerReads(p)
  BY <1>1, <1>2 DEF ServerReads, ServerTakes
<1>3. CASE ServerMovesOn /\ server = "checking" /\ server' = "handling"
  BY <1>1, <1>3 DEF ServerMovesOn
<1>4. ASSUME NEW p \in Packet, ServerWrites(p) PROVE HeadersNext'
  <2>0. /\ Len(s2c) \in Nat /\ Len(s2c') = Len(s2c) + 1 /\ s2c'[Len(s2c) + 1] = p
        /\ \A i \in 1..Len(s2c) : i \in 1..Len(s2c') /\ s2c'[i] = s2c[i]
        /\ \A i \in 1..Len(s2c') : i \in 1..Len(s2c) \/ i = Len(s2c) + 1
        /\ served' = served /\ server' # "header" /\ Len(s2c) + 1 \in 1..Len(s2c')
    <3>1. s2c' = Append(s2c, p) /\ served' = served /\ server' # "header"
      BY <1>4 DEF ServerWrites
    <3>2. \A n \in Nat : n + 1 \in 1..(n + 1)
      OBVIOUS
    <3> QED BY <3>1, <3>2, WrittenOn
  <2>1. \A m : Coming(m) => Coming(m)'
    BY <2>0 DEF Coming, IsHeader
  <2>2. \/ server # "header" /\ p.type # "HEADER"
        \/ server = "header" /\ p.type = "HEADER" /\ p.msgno = srvReply.msgno
    BY <1>4, ReplyFacts DEF ServerWrites, Header, Data, Eof
  <2>3. ASSUME NEW m \in Nat, m < Len(served')
        PROVE  m < next_incoming_msg_no' \/ Coming(m)'
    <3>1. CASE server = "header" /\ srvReply.msgno = m
      BY <2>0, <2>2, <3>1 DEF Coming, IsHeader
    <3> QED BY <1>0, <2>0, <2>1, <2>3, <3>1 DEF HeadersNext
  <2>4. ASSUME NEW i \in 1..Len(s2c'), s2c'[i].type = "HEADER"
        PROVE  /\ next_incoming_msg_no' <= s2c'[i].msgno
               /\ \A j \in 1..Len(s2c') :
                    (j < i /\ s2c'[j].type = "HEADER") => s2c'[j].msgno < s2c'[i].msgno
    <3>1. CASE i \in 1..Len(s2c)
      <4>1. \A j \in 1..Len(s2c') : j < i => j \in 1..Len(s2c)
        BY <2>0, <3>1
      <4>2. s2c'[i] = s2c[i] /\ next_incoming_msg_no' <= s2c'[i].msgno
        BY <1>0, <2>0, <2>4, <3>1 DEF HeadersNext
      <4>3. ASSUME NEW j \in 1..Len(s2c'), j < i, s2c'[j].type = "HEADER"
            PROVE  s2c'[j].msgno < s2c'[i].msgno
        <5>1. j \in 1..Len(s2c) /\ s2c'[j] = s2c[j]
          BY <2>0, <4>1, <4>3
        <5> QED BY <2>4, <3>1, <4>2, <4>3, <5>1 DEF HeadersNext
      <4> QED BY <4>2, <4>3
    <3>2. CASE i = Len(s2c) + 1
      <4>1. server = "header" /\ s2c'[i].msgno = srvReply.msgno
        BY <2>0, <2>2, <2>4, <3>2
      <4>2. ASSUME NEW j \in 1..Len(s2c'), j < i, s2c'[j].type = "HEADER"
            PROVE  s2c'[j].msgno < s2c'[i].msgno
        <5>1. j \in 1..Len(s2c) /\ s2c'[j] = s2c[j]
          BY <2>0, <3>2, <4>2
        <5> QED BY <4>1, <4>2, <5>1 DEF HeadersNext
      <4> QED BY <1>0, <4>1, <4>2 DEF HeadersNext
    <3> QED BY <2>0, <3>1, <3>2
  <2>5. next_incoming_msg_no' <= Len(served')
    BY <1>0, <2>0 DEF HeadersNext
  <2> QED BY <2>0, <2>3, <2>4, <2>5 DEF HeadersNext
<1>5. ASSUME NEW n \in Nat, ServerBegins(n) PROVE HeadersNext'
  <2>1. /\ s2c' = s2c /\ server # "header" /\ srvReply'.msgno = Len(served)
        /\ Len(served') = Len(served) + 1
    <3>1. served \in Seq([id: Nat, received: Nat, reply: Nat])
      BY ServerTypes DEF Ends
    <3>2. PICK d : served' = Append(served, d)
      BY <1>5 DEF ServerBegins
    <3>3. Len(served') = Len(served) + 1
      BY <3>1, <3>2
    <3> QED BY <1>0, <1>5, <3>3 DEF ServerBegins
  <2>2. server' = "header"
    BY <1>5 DEF ServerBegins
  <2>3. ASSUME NEW m \in Nat, m < Len(served')
        PROVE  m < next_incoming_msg_no' \/ Coming(m)' \/ srvReply'.msgno = m
    <3>1. CASE m < Len(served)
      BY <1>0, <2>1, <3>1 DEF HeadersNext, Coming, IsHeader
    <3>2. CASE m = Len(served)
      BY <2>1, <3>2
    <3> QED BY <1>0, <2>1, <2>3, <3>1, <3>2
  <2>4. ASSUME NEW i \in 1..Len(s2c'), s2c'[i].type = "HEADER"
        PROVE  /\ next_incoming_msg_no' <= s2c'[i].msgno
               /\ s2c'[i].msgno < srvReply'.msgno
    BY <1>0, <2>1, <2>4
    DEF HeadersNext, RepliesKnown, RepliesOwned, Accounted, IsRequestPacket
  <2>5. next_incoming_msg_no' <= Len(served') /\ next_incoming_msg_no' <= srvReply'.msgno
    BY <1>0, <2>1 DEF HeadersNext
  <2>6. \A i, j \in 1..Len(s2c') :
          (s2c'[i].type = "HEADER" /\ j < i /\ s2c'[j].type = "HEADER")
            => s2c'[j].msgno < s2c'[i].msgno
    BY <2>1 DEF HeadersNext
  <2> QED BY <2>2, <2>3, <2>4, <2>5, <2>6 DEF HeadersNext
<1> QED BY <1>2, <1>3, <1>4, <1>5, ServerActsUp

\* The reader keeps a reply it has begun until its EOF.
LEMMA RepliesOpenByClient ==
  ASSUME Ends, RepliesKnown, NoErrors, HeadersNext, RepliesOpen, ClientPart
  PROVE  RepliesOpen'
<1>0. /\ Typed /\ UNCHANGED <<server, srvReply>> /\ Replying' = Replying /\ IsMap(incoming)
  BY DEF ClientPart, serverVars, Ends, Inv, Typed, TypeOK, ReaderTypes, Replying
<1>1. CASE ReadsNothing
  BY <1>0, <1>1 DEF ReadsNothing, RepliesOpen, Coming, IsHeader
<1>2. ASSUME NEW p \in Packet, ReaderReads(p) PROVE RepliesOpen'
  <2>0. /\ 1 \in 1..Len(s2c) /\ s2c[1] = p /\ Len(s2c) \in Nat
        /\ \A i \in 1..Len(s2c') : i + 1 \in 1..Len(s2c) /\ s2c'[i] = s2c[i + 1] /\ 1 < i + 1
        /\ \A i \in 1..Len(s2c) : i = 1 \/ (i - 1 \in 1..Len(s2c') /\ s2c'[i - 1] = s2c[i])
        /\ s2c # <<>> /\ p = Head(s2c)
    BY <1>2, ReadOff DEF ReaderReads
  <2>1. p.type = "HEADER" => p.msgno \in DOMAIN incoming'
    <3>1. p.type = "HEADER" => p.msgno = next_incoming_msg_no
      BY <2>0, NextHeader
    <3>2. p.type = "HEADER" => OpensReply(p)
      BY <1>2, <3>1 DEF ReaderReads, AddsToReply, ClosesReply, LeavesReplies
    <3> QED BY <3>2 DEF OpensReply, Insert
  <2>2. ASSUME NEW m \in DOMAIN incoming
        PROVE  m \in DOMAIN incoming' \/ (p.type = "EOF" /\ p.msgno = m)
    <3>1. CASE OpensReply(p)
      BY <3>1 DEF OpensReply, Insert
    <3>2. CASE AddsToReply(p)
      BY <1>0, <3>2 DEF AddsToReply, IsMap
    <3>3. CASE ClosesReply(p)
      <4>1. p.type # "TXERR"
        BY <2>0 DEF NoErrors
      <4> QED BY <3>3, <4>1 DEF ClosesReply, Without
    <3>4. CASE LeavesReplies(p)
      BY <3>4 DEF LeavesReplies
    <3> QED BY <1>2, <3>1, <3>2, <3>3, <3>4 DEF ReaderReads
  <2>3. ASSUME NEW i \in 1..Len(s2c'), s2c'[i].type = "EOF"
        PROVE  /\ \/ s2c'[i].msgno \in DOMAIN incoming'
                  \/ \E j \in 1..Len(s2c') : j < i /\ IsHeader(s2c'[j], s2c'[i].msgno)
               /\ Replying' => s2c'[i].msgno # srvReply'.msgno
               /\ \A j \in 1..Len(s2c') :
                    (j < i /\ s2c'[j].type = "EOF") => s2c'[j].msgno # s2c'[i].msgno
    <3>1. i + 1 \in 1..Len(s2c) /\ s2c'[i] = s2c[i + 1] /\ s2c[i + 1].type = "EOF" /\ 1 < i + 1
      BY <2>0, <2>3
    <3>2. PICK m : m = s2c'[i].msgno
      OBVIOUS
    <3>3. /\ Replying' => m # srvReply'.msgno
          /\ \A j \in 1..Len(s2c') : (j < i /\ s2c'[j].type = "EOF") => s2c'[j].msgno # m
          /\ p.type = "EOF" => p.msgno # m
      <4>1. Replying => m # srvReply.msgno
        BY <3>1, <3>2 DEF RepliesOpen
      <4>2. p.type = "EOF" => p.msgno # m
        BY <2>0, <3>1, <3>2 DEF RepliesOpen
      <4>3. ASSUME NEW j \in 1..Len(s2c'), j < i, s2c'[j].type = "EOF" PROVE s2c'[j].msgno # m
        <5>1. j + 1 < i + 1 /\ j + 1 \in 1..Len(s2c) /\ s2c'[j] = s2c[j + 1]
          BY <2>0, <4>3
        <5> QED BY <3>1, <3>2, <4>3, <5>1 DEF RepliesOpen
      <4> QED BY <1>0, <4>1, <4>2, <4>3
    <3>4. m \in DOMAIN incoming' \/ \E j \in 1..Len(s2c') : j < i /\ IsHeader(s2c'[j], m)
      <4>1. CASE m \in DOMAIN incoming
        BY <2>2, <3>3, <4>1
      <4>2. CASE \E j \in 1..Len(s2c) : j < i + 1 /\ IsHeader(s2c[j], m)
        <5>1. PICK j \in 1..Len(s2c) : j < i + 1 /\ IsHeader(s2c[j], m)
          BY <4>2
        <5>2. CASE j = 1
          BY <2>0, <2>1, <5>1, <5>2 DEF IsHeader
        <5>3. CASE j - 1 \in 1..Len(s2c') /\ s2c'[j - 1] = s2c[j]
          <6>1. j - 1 < i
            BY <5>1, <2>0
          <6> QED BY <5>1, <5>3, <6>1
        <5> QED BY <2>0, <5>2, <5>3
      <4> QED BY <3>1, <3>2, <4>1, <4>2 DEF RepliesOpen
    <3> QED BY <3>2, <3>3, <3>4
  <2>4. server' \in {"data", "eof"} =>
          srvReply'.msgno \in DOMAIN incoming' \/ Coming(srvReply.msgno)'
    <3> SUFFICES ASSUME server' \in {"data", "eof"}
                 PROVE  srvReply'.msgno \in DOMAIN incoming' \/ Coming(srvReply.msgno)'
      OBVIOUS
    <3>1. Replying /\ server \in {"data", "eof"}
      BY <1>0 DEF Replying
    <3>2. PICK m : m = srvReply.msgno /\ srvReply'.msgno = m
      BY <1>0
    <3>3. CASE m \in DOMAIN incoming
      <4>1. p.type = "EOF" => p.msgno # m
        BY <2>0, <3>1, <3>2 DEF RepliesOpen
      <4> QED BY <2>2, <3>2, <3>3, <4>1
    <3>4. CASE Coming(m)
      <4>1. PICK j \in 1..Len(s2c) : IsHeader(s2c[j], m)
        BY <3>4 DEF Coming
      <4>2. CASE j = 1
        BY <2>0, <2>1, <3>2, <4>1, <4>2 DEF IsHeader
      <4>3. CASE j - 1 \in 1..Len(s2c') /\ s2c'[j - 1] = s2c[j]
        BY <3>2, <4>1, <4>3 DEF Coming, IsHeader
      <4> QED BY <2>0, <4>2, <4>3
    <3> QED BY <3>1, <3>2, <3>3, <3>4 DEF RepliesOpen
  <2> QED BY <2>3, <2>4 DEF RepliesOpen
<1> QED BY <1>1, <1>2, ClientActs DEF Ends, Inv

\* The server writes one EOF of each reply, after its HEADER.
LEMMA RepliesOpenByServer ==
  ASSUME Ends, RepliesKnown, RepliesOpen, Up', ServerPart
  PROVE  RepliesOpen'
<1>0. /\ incoming' = incoming /\ Len(served) \in Nat /\ srvReply.msgno \in Nat
      /\ srvNextOut = Len(served)
  BY ServerActsUp, ReplyFacts
<1>1. ASSUME s2c' = s2c, ~Replying \/ ~Replying', server' \notin {"header", "data", "eof"}
      PROVE  RepliesOpen'
  BY <1>0, <1>1 DEF RepliesOpen, Replying, IsHeader
<1>2. CASE \E p \in Packet : ServerReads(p)
  BY <1>1, <1>2 DEF ServerReads, ServerTakes, Replying
<1>3. CASE ServerMovesOn /\ server = "checking" /\ server' = "handling"
  BY <1>1, <1>3 DEF ServerMovesOn, Replying
<1>4. ASSUME NEW n \in Nat, ServerBegins(n) PROVE RepliesOpen'
  <2>1. s2c' = s2c /\ srvReply'.msgno = Len(served) /\ server' = "header"
    BY <1>0, <1>4 DEF ServerBegins
  <2>2. \A i \in 1..Len(s2c) : s2c[i].type = "EOF" => s2c[i].msgno < Len(served)
    BY DEF RepliesKnown, RepliesOwned, Accounted, IsRequestPacket
  <2>3. \A i \in 1..Len(s2c) : s2c[i].type = "EOF" => s2c[i].msgno # Len(served)
    BY <1>0, <2>2
  <2> QED BY <1>0, <2>1, <2>3 DEF RepliesOpen, IsHeader
<1>5. ASSUME NEW p \in Packet, ServerWrites(p) PROVE RepliesOpen'
  <2> DEFINE last == Len(s2c) + 1
             Begun(e, i, q) == \/ e \in DOMAIN incoming
                               \/ \E j \in 1..Len(q) : j < i /\ IsHeader(q[j], e)
  <2> PICK m \in Nat : m = srvReply.msgno
    BY <1>0
  <2>0. /\ Len(s2c) \in Nat /\ Len(s2c') = last /\ s2c'[last] = p /\ last \in 1..Len(s2c')
        /\ \A i \in 1..Len(s2c) : i \in 1..Len(s2c') /\ s2c'[i] = s2c[i] /\ i < last
        /\ \A i \in 1..Len(s2c') : i \in 1..Len(s2c) \/ i = last
    <3>1. s2c' = Append(s2c, p)
      BY <1>5 DEF ServerWrites
    <3>2. \A n \in Nat : n + 1 \in 1..(n + 1) /\ \A i \in 1..n : i < n + 1
      OBVIOUS
    <3> QED BY <3>1, <3>2, WrittenOn
  <2>1. srvReply'.msgno = m
    BY <1>5, ReplyFacts DEF ServerWrites
  <2>2. \/ server = "answering" /\ p.type \notin {"HEADER", "EOF"} /\ server' = "reading"
        \/ server = "header" /\ IsHeader(p, m) /\ Replying /\ server' \in {"data", "eof"}
        \/ /\ server = "data" /\ p.type \notin {"HEADER", "EOF"}
           /\ Replying /\ server' \in {"data", "eof"}
        \/ server = "eof" /\ p.type = "EOF" /\ p.msgno = m /\ Replying /\ server' = "reading"
    BY <1>5, ReplyFacts DEF ServerWrites, Header, Data, Eof, Replying, IsHeader
  <2>3. \A e : Coming(e) => Coming(e)'
    BY <2>0 DEF Coming, IsHeader
  <2>4. server' \in {"data", "eof"} => m \in DOMAIN incoming' \/ Coming(m)'
    <3>1. IsHeader(p, m) => Coming(m)'
      BY <2>0 DEF Coming, IsHeader
    <3> QED BY <1>0, <2>2, <2>3, <3>1 DEF RepliesOpen
  <2>5. \A i \in 1..Len(s2c) : s2c[i].type = "EOF" =>
          /\ Begun(s2c[i].msgno, i, s2c)
          /\ Replying => s2c[i].msgno # m
          /\ \A j \in 1..Len(s2c) :
               (j < i /\ s2c[j].type = "EOF") => s2c[j].msgno # s2c[i].msgno
    BY DEF RepliesOpen
  <2>6. ASSUME NEW i \in 1..Len(s2c'), s2c'[i].type = "EOF"
        PROVE  /\ Begun(s2c'[i].msgno, i, s2c')
               /\ Replying' => s2c'[i].msgno # m
               /\ \A j \in 1..Len(s2c') :
                    (j < i /\ s2c'[j].type = "EOF") => s2c'[j].msgno # s2c'[i].msgno
    <3>1. CASE i \in 1..Len(s2c)
      <4>1. \A j \in 1..Len(s2c') : j < i => j \in 1..Len(s2c)
        BY <2>0, <3>1
      <4>2. Begun(s2c'[i].msgno, i, s2c')
        <5>1. s2c'[i] = s2c[i] /\ s2c[i].type = "EOF" /\ Begun(s2c[i].msgno, i, s2c)
          BY <2>0, <2>5, <2>6, <3>1
        <5> QED BY <2>0, <5>1 DEF IsHeader
      <4>3. Replying' => s2c'[i].msgno # m
        BY <2>0, <2>2, <2>5, <2>6, <3>1 DEF Replying
      <4>4. \A j \in 1..Len(s2c') :
              (j < i /\ s2c'[j].type = "EOF") => s2c'[j].msgno # s2c'[i].msgno
        BY <2>0, <2>5, <2>6, <3>1, <4>1
      <4> QED BY <4>2, <4>3, <4>4
    <3>2. CASE i = last
      <4>1. server = "eof" /\ p.msgno = m /\ Replying /\ server' = "reading"
        BY <2>0, <2>2, <2>6, <3>2 DEF IsHeader
      <4>2. m \in DOMAIN incoming \/ Coming(m)
        BY <4>1 DEF RepliesOpen
      <4>3. Begun(m, last, s2c')
        BY <2>0, <4>2 DEF Coming, IsHeader
      <4>4. \A j \in 1..Len(s2c') : (j < last /\ s2c'[j].type = "EOF") => s2c'[j].msgno # m
        BY <2>0, <2>5, <4>1
      <4> QED BY <2>0, <3>2, <4>1, <4>3, <4>4 DEF Replying
    <3> QED BY <2>0, <3>1, <3>2
  <2> QED BY <1>0, <2>1, <2>4, <2>6 DEF RepliesOpen, IsHeader
<1> QED BY <1>2, <1>3, <1>4, <1>5, ServerActsUp

\* Where the answer to a call is that waits for it.
Waits(c) == pc[c] = "await" /\ slot[c] = NoResponse
OnItsWay(c) ==
  \/ In(Eof(mno[c]), Stream)
  \/ InHandNow /\ srvRequest.id = rid[c]
  \/ Replying /\ srvReply.id = rid[c]
  \/ \E k \in 1..Len(served) : served[k].id = rid[c] /\ In(Eof(k - 1), s2c)
WaitersServed == \A c \in Calls : Waits(c) => OnItsWay(c)

\* It is where the property says.
LEMMA WaysAgree ==
  ASSUME Ends, NEW c \in Calls
  PROVE  UnderWay(c) <=> OnItsWay(c)
<1>1. /\ DOMAIN Stream = 1..Len(Stream) /\ DOMAIN s2c = 1..Len(s2c)
      /\ DOMAIN served = 1..Len(served)
  BY ConcatFacts, LenProperties, ServerTypes
  DEF Ends, Inv, Typed, TypeOK, WireTypes, Stream
<1> QED BY <1>1 DEF UnderWay, OnItsWay, In, ServedAs, InHandNow, Replying

\* A call begins to wait when its EOF has left, and what the reader takes is handed
\* to it.
LEMMA WaitersByClient ==
  ASSUME Ends, RepliesKnown, RepliesOpen, WaitersServed, Up, Up', ClientPart
  PROVE  WaitersServed'
<1>0. /\ Typed /\ IdsUnique /\ PendingExact /\ [Next]_vars /\ pc \in [Calls -> PCs]
      /\ Stream \in Seq(Packet) /\ chan \in Seq(Packet) /\ c2s \in Seq(Packet)
      /\ s2c \in Seq(Packet) /\ slot \in [Calls -> Responses] /\ mno \in [Calls -> Nat]
      /\ UNCHANGED <<server, srvRequest, srvReply, served>>
  BY ClientIsClient, ConcatFacts
  DEF Ends, Inv, IInv, ClientPart, Typed, TypeOK, WireTypes, CallTypes, Stream, serverVars
<1> SUFFICES ASSUME NEW c \in Calls, Waits(c)' PROVE OnItsWay(c)'
  BY DEF WaitersServed
<1>1. pc[c] = "await" \/ SendEof(c)
  <2>1. pc'[c] = "await"
    BY DEF Waits
  <2>2. pc[c] = "await" \/ pc[c] = "eof"
    BY <1>0, <2>1, ControlFlow, TypedPlaced DEF Edges
  <2>3. pc[c] = "eof" => SendEof(c)
    BY <1>0, <2>1, CallMoves, TypedPlaced
    DEF Start, CallStep, TakeRequestId, TakeMsgNo, Register, Track, SendHeader, CheckClosed,
        CheckWindow, Park, SendChunk, CountSent, TakeResponse, TimeOut, Expire, Release,
        Unregister, Untrack
  <2> QED BY <2>2, <2>3
<1>2. mno'[c] = mno[c] /\ rid'[c] = rid[c]
  <2>1. ~TakeMsgNo(c) /\ HasNumber(c)
    BY <1>1 DEF SendEof, TakeMsgNo, HasNumber, Numbered, Tracked
  <2> QED BY <1>0, <2>1, NumbersStay
<1>3. PICK eof \in Packet : eof = Eof(mno[c])
  BY <1>0 DEF Eof, Packet, PacketType
<1>4. In(eof, Stream') => OnItsWay(c)'
  BY <1>2, <1>3 DEF OnItsWay, In
<1>5. CASE SendEof(c)
  <2>1. chan' = Append(chan, eof) /\ c2s' = c2s
    BY <1>3, <1>5 DEF SendEof, Enqueue, Up
  <2>2. Stream' = Append(Stream, eof)
    BY <1>0, <2>1, ConcatFacts DEF Stream
  <2> QED BY <1>0, <1>4, <2>2, InAppend
<1>6. CASE pc[c] = "await"
  <2>1. slot[c] = NoResponse
    <3>1. \/ slot' = slot
          \/ DrainPending
          \/ \E id, response : response.kind \in {"reply", "txerr"} /\ Deliver(id, response)
      <4>1. CASE ReadsNothing
        BY <4>1 DEF ReadsNothing
      <4>2. ASSUME NEW p \in Packet, ReaderReads(p)
            PROVE  slot' = slot \/ \E id, response :
                     response.kind \in {"reply", "txerr"} /\ Deliver(id, response)
        BY <4>2 DEF ReaderReads, OpensReply, AddsToReply, ClosesReply, LeavesReplies, ReplyOf,
           TxerrOf
      <4> QED BY <1>0, <4>1, <4>2, ClientActs
    <3>2. ~DrainPending
      BY DEF DrainPending, Up
    <3>3. ASSUME NEW id, NEW response, response.kind \in {"reply", "txerr"}, Deliver(id, response)
          PROVE  slot'[c] = slot[c]
      <4>1. slot'[c] = slot[c] \/ slot'[c] = response
        BY <1>0, <3>3 DEF Deliver
      <4>2. slot'[c].kind = "none"
        BY DEF Waits, NoResponse
      <4> QED BY <3>3, <4>1, <4>2
    <3> QED BY <3>1, <3>2, <3>3 DEF Waits, NoResponse
  <2>2. OnItsWay(c)
    BY <1>6, <2>1 DEF WaitersServed, Waits
  <2>3. CASE In(eof, Stream)
    <3>1. \/ Stream' = Stream
          \/ \E p \in Packet : Adds(p) /\ Stream' = Append(Stream, p)
      BY <1>0, ClientStream DEF ClientPart, Up, Stream, vars, wireVars
    <3>2. In(eof, Stream')
      <4>1. ASSUME NEW p \in Packet, Stream' = Append(Stream, p) PROVE In(eof, Stream')
        BY <1>0, <2>3, <4>1, InAppend
      <4> QED BY <2>3, <3>1, <4>1
    <3> QED BY <1>4, <3>2
  <2>4. CASE (InHandNow /\ srvRequest.id = rid[c]) \/ (Replying /\ srvReply.id = rid[c])
    BY <1>0, <1>2, <2>4 DEF OnItsWay, InHandNow, Replying
  <2>5. ASSUME NEW k \in 1..Len(served), served[k].id = rid[c], In(Eof(k - 1), s2c)
        PROVE  OnItsWay(c)'
    <3>1. PICK e : e = Eof(k - 1)
      OBVIOUS
    <3>2. In(e, s2c') => OnItsWay(c)'
      BY <1>0, <1>2, <2>5, <3>1 DEF OnItsWay, In
    <3>3. CASE ReadsNothing
      BY <2>5, <3>1, <3>2, <3>3 DEF ReadsNothing, In
    <3>4. ASSUME NEW p \in Packet, ReaderReads(p), p = e PROVE FALSE
      <4>1. p.type = "EOF" /\ p.msgno = k - 1 /\ p.n = 0
        BY <3>1, <3>4 DEF Eof
      <4>2. /\ 1 \in 1..Len(s2c) /\ s2c[1] = p /\ Len(s2c) \in Nat
        BY <3>4, ReadOff
      <4>3. p.msgno \in DOMAIN incoming
        <5>1. \A j \in 1..Len(s2c) : ~(j < 1)
          BY <4>2
        <5> QED BY <4>1, <4>2, <5>1 DEF RepliesOpen
      <4>4. ClosesReply(p)
        BY <3>4, <4>1, <4>3 DEF ReaderReads, OpensReply, AddsToReply, LeavesReplies
      <4>5. Deliver(rid[c], ReplyOf(incoming[p.msgno]))
        <5>1. incoming[p.msgno].id = served[p.msgno + 1].id /\ p.msgno + 1 = k
          BY <4>1, <4>3 DEF RepliesKnown, RepliesOwned
        <5> QED BY <2>5, <4>1, <4>4, <5>1 DEF ClosesReply
      <4>6. rid[c] \in DOMAIN pending /\ pending[rid[c]] = c
        BY <1>0, <1>6, <2>1 DEF PendingExact, Registered
      <4>7. slot'[c] = ReplyOf(incoming[p.msgno])
        BY <1>0, <4>5, <4>6 DEF Deliver
      <4> QED BY <4>7 DEF Waits, ReplyOf, NoResponse
    <3>5. ASSUME NEW p \in Packet, ReaderReads(p) PROVE In(e, s2c')
      BY <1>0, <2>5, <3>1, <3>4, <3>5, InTail DEF ReaderReads
    <3> QED BY <1>0, <3>2, <3>3, <3>5, ClientActs
  <2>6. CASE \E k \in 1..Len(served) : served[k].id = rid[c] /\ In(Eof(k - 1), s2c)
    BY <2>5, <2>6
  <2>7. In(Eof(mno[c]), Stream) => In(eof, Stream)
    BY <1>3
  <2> QED BY <2>2, <2>3, <2>4, <2>6, <2>7 DEF OnItsWay
<1> QED BY <1>1, <1>5, <1>6

\* The server reads the EOF of a request it has begun, works on the request, and writes
\* the EOF of its reply.
LEMMA WaitersByServer ==
  ASSUME Ends, RequestsKnown, RequestsOpen, WaitersServed, Up', ServerPart
  PROVE  WaitersServed'
<1>0. /\ UNCHANGED clientOnly /\ UNCHANGED <<pc, slot, mno, rid, chan>>
      /\ Stream \in Seq(Packet) /\ s2c \in Seq(Packet) /\ Len(served) \in Nat
      /\ served \in Seq([id: Nat, received: Nat, reply: Nat])
  <2>1. Typed /\ SP!Typed
    BY DEF Ends, Inv
  <2>2. UNCHANGED clientOnly /\ UNCHANGED <<pc, slot, mno, rid, chan>>
    BY DEF ServerPart, clientOnly, callVars
  <2>3. c2s \in Seq(Packet) /\ chan \in Seq(Packet) /\ s2c \in Seq(Packet)
    BY <2>1 DEF Typed, TypeOK, WireTypes
  <2>4. Stream \in Seq(Packet)
    BY <2>3, ConcatFacts DEF Stream
  <2>5. Len(served) \in Nat /\ served \in Seq([id: Nat, received: Nat, reply: Nat])
    BY <2>1, ServerTypes, ReplyFacts DEF Ends
  <2> QED BY <2>2, <2>3, <2>4, <2>5
<1> SUFFICES ASSUME NEW c \in Calls, Waits(c)' PROVE OnItsWay(c)'
  BY DEF WaitersServed
<1>1. PICK eof, header : eof = Eof(mno[c]) /\ header = Header(mno[c], rid[c])
  OBVIOUS
<1>2. Waits(c) /\ mno'[c] = mno[c] /\ rid'[c] = rid[c]
  BY <1>0 DEF Waits
<1>3. \/ In(eof, Stream)
      \/ InHandNow /\ srvRequest.id = rid[c]
      \/ Replying /\ srvReply.id = rid[c]
      \/ \E k \in 1..Len(served) : served[k].id = rid[c] /\ In(Eof(k - 1), s2c)
  BY <1>1, <1>2 DEF WaitersServed, OnItsWay
<1>4. /\ In(eof, Stream') => OnItsWay(c)'
      /\ (InHandNow' /\ srvRequest'.id = rid[c]) => OnItsWay(c)'
      /\ (Replying' /\ srvReply'.id = rid[c]) => OnItsWay(c)'
  BY <1>1, <1>2 DEF OnItsWay, In
<1>5. ASSUME NEW k \in 1..Len(served'), served'[k].id = rid[c], NEW e, e = Eof(k - 1), In(e, s2c')
      PROVE  OnItsWay(c)'
  BY <1>2, <1>5 DEF OnItsWay, In
<1>6. ASSUME c2s' = c2s PROVE Stream' = Stream
  BY <1>0, <1>6 DEF Stream
<1>7. ASSUME NEW p \in Packet, ServerReads(p) PROVE OnItsWay(c)'
  <2>1. /\ Stream # <<>> /\ p = Head(Stream) /\ Stream' = Tail(Stream)
        /\ 1 \in DOMAIN Stream /\ p = Stream[1] /\ DOMAIN Stream = 1..Len(Stream)
        /\ Len(Stream) \in Nat
    BY <1>0, <1>7, ServerReadsHead, LenProperties
  <2>2. server = "reading" /\ UNCHANGED <<s2c, served>>
    BY <1>7 DEF ServerReads, ServerTakes
  <2>3. ~InHandNow /\ ~Replying
    BY <2>2 DEF InHandNow, Replying
  <2>4. CASE \E k \in 1..Len(served) : served[k].id = rid[c] /\ In(Eof(k - 1), s2c)
    BY <1>5, <2>2, <2>4
  <2>5. CASE In(eof, Stream)
    <3>1. In(eof, Stream') \/ p = eof
      BY <1>0, <2>1, <2>5, InTail
    <3>2. CASE p = eof
      <4>1. p.type = "EOF" /\ p.msgno = mno[c] /\ p.n = 0
        BY <1>1, <3>2 DEF Eof
      <4>2. HasNumber(c) /\ Opened(c)
        <5>1. HasNumber(c)
          BY <1>2 DEF Waits, HasNumber, Numbered, Tracked
        <5> QED BY <1>1, <2>5, <5>1 DEF RequestsOpen, Unfinished
      <4>3. ~In(header, Stream)
        <5> SUFFICES ASSUME NEW j \in 1..Len(Stream), Stream[j] = header PROVE FALSE
          BY DEF In
        <5>1. header.type = "HEADER" /\ header.msgno = mno[c]
          BY <1>1 DEF Header
        <5>2. 1 < j
          BY <2>1, <4>1, <5>1
        <5>3. Rank(p) <= Rank(header)
          BY <2>1, <4>1, <5>1, <5>2 DEF RequestsKnown, PacketsInOrder, IsRequestPacket
        <5> QED BY <4>1, <5>1, <5>3 DEF Rank
      <4>4. p.msgno \in DOMAIN srvIncoming
        BY <1>1, <4>1, <4>2, <4>3 DEF Opened
      <4>5. server' = "checking" /\ srvRequest' = srvIncoming[mno[c]]
        BY <1>7, <4>1, <4>4
        DEF ServerReads, OpensRequest, AddsToRequest, ClosesRequest, PassesOver
      <4>6. srvIncoming[mno[c]].id = rid[c]
        BY <4>1, <4>2, <4>4, OpenIsOwn DEF RequestsKnown
      <4> QED BY <1>4, <4>5, <4>6 DEF InHandNow
    <3> QED BY <1>4, <3>1, <3>2
  <2> QED BY <1>3, <2>3, <2>4, <2>5
<1>8. ASSUME NEW p \in Packet, ServerWrites(p) PROVE OnItsWay(c)'
  <2>1. s2c' = Append(s2c, p) /\ Stream' = Stream /\ served' = served /\ ~InHandNow
    BY <1>6, <1>8 DEF ServerWrites, InHandNow
  <2>2. \A e : In(e, s2c') <=> In(e, s2c) \/ e = p
    BY <1>0, <2>1, InAppend
  <2>3. CASE \E k \in 1..Len(served) : served[k].id = rid[c] /\ In(Eof(k - 1), s2c)
    BY <1>5, <2>1, <2>2, <2>3
  <2>4. CASE Replying /\ srvReply.id = rid[c]
    <3>1. srvReply'.id = srvReply.id
      BY <1>8, ReplyFacts DEF ServerWrites
    <3>2. CASE Replying'
      BY <1>4, <2>4, <3>1, <3>2
    <3>3. CASE ~Replying'
      <4>1. p = Eof(srvReply.msgno)
        BY <1>8, <2>4, <3>3 DEF ServerWrites, Replying
      <4>2. PICK k : k = Len(served)
        OBVIOUS
      <4>3. srvReply.msgno + 1 = k /\ srvReply.msgno \in Nat /\ served[k].id = rid[c]
        BY <2>4, <4>2, ReplyFacts
      <4>4. k \in 1..Len(served) /\ k - 1 = srvReply.msgno
        <5>1. \A m \in Nat : m + 1 = k => k \in 1..k /\ k - 1 = m
          OBVIOUS
        <5> QED BY <4>2, <4>3, <5>1
      <4>5. In(p, s2c') /\ p = Eof(k - 1)
        BY <2>2, <4>1, <4>4
      <4> QED BY <1>5, <2>1, <4>3, <4>4, <4>5
    <3> QED BY <3>2, <3>3
  <2> QED BY <1>3, <1>4, <2>1, <2>3, <2>4
<1>9. ASSUME NEW n \in Nat, ServerBegins(n) PROVE OnItsWay(c)'
  <2>1. /\ Stream' = Stream /\ s2c' = s2c /\ ~Replying /\ Replying'
        /\ srvReply'.id = srvRequest.id
    BY <1>6, <1>9 DEF ServerBegins, Replying
  <2>2. \A k \in 1..Len(served) : k \in 1..Len(served') /\ served'[k] = served[k]
    <3>1. PICK s \in [id: Nat, received: Nat, reply: Nat] :
            s = [id |-> srvRequest.id, received |-> srvRequest.received, reply |-> n]
      BY ServerTypes DEF Ends
    <3>2. served' = Append(served, s)
      BY <1>9, <3>1 DEF ServerBegins
    <3> QED BY <1>0, <3>2, AppendOf
  <2>3. CASE \E k \in 1..Len(served) : served[k].id = rid[c] /\ In(Eof(k - 1), s2c)
    BY <1>5, <2>1, <2>2, <2>3
  <2> QED BY <1>3, <1>4, <2>1, <2>3
<1>10. CASE ServerMovesOn /\ server = "checking" /\ server' = "handling"
  <2>1. /\ Stream' = Stream /\ UNCHANGED <<s2c, served, srvRequest>>
        /\ ~Replying /\ InHandNow'
    BY <1>6, <1>10 DEF ServerMovesOn, Replying, InHandNow
  <2> QED BY <1>3, <1>4, <1>5, <2>1
<1> QED BY <1>7, <1>8, <1>9, <1>10, ServerActsUp

\* What is known of the messages under way.
MessagesOpen ==
  NoErrors /\ (Up => RequestsOpen /\ HeadersNext /\ RepliesOpen /\ WaitersServed)

\* Nothing is under way in the beginning, and every step keeps account of it.
LEMMA MessagesStart == LinkInit => MessagesOpen
<1> SUFFICES ASSUME LinkInit PROVE MessagesOpen
  OBVIOUS
<1>1. /\ Stream = <<>> /\ s2c = <<>> /\ served = <<>> /\ server = "reading"
      /\ answer.type = "PONG" /\ next_incoming_msg_no = 0
      /\ \A c \in Calls : pc[c] = "idle"
  BY DEF LinkInit, Init, Stream, NoPacket
<1>2. NoErrors
  BY <1>1 DEF NoErrors
<1>3. RequestsOpen /\ WaitersServed
  BY <1>1 DEF RequestsOpen, Unfinished, HasNumber, Numbered, Tracked, WaitersServed, Waits
<1>4. HeadersNext
  BY <1>1 DEF HeadersNext
<1>5. RepliesOpen
  BY <1>1 DEF RepliesOpen
<1> QED BY <1>2, <1>3, <1>4, <1>5 DEF MessagesOpen

LEMMA MessagesKept ==
  ASSUME Ends, RequestsKnown, RepliesKnown, MessagesOpen, [LinkNext]_linkVars
  PROVE  MessagesOpen'
<1>1. NoErrors /\ NoErrors'
  BY NoErrorsKept DEF MessagesOpen
<1> SUFFICES ASSUME Up' PROVE RequestsOpen' /\ HeadersNext' /\ RepliesOpen' /\ WaitersServed'
  BY <1>1 DEF MessagesOpen
<1>2. Up /\ RequestsOpen /\ HeadersNext /\ RepliesOpen /\ WaitersServed
  BY UpWas DEF MessagesOpen
<1>3. CASE ClientPart
  BY <1>1, <1>2, <1>3, RequestsOpenByClient, HeadersNextByClient, RepliesOpenByClient,
     WaitersByClient DEF RequestsKnown
<1>4. CASE ServerPart
  BY <1>1, <1>2, <1>4, RequestsOpenByServer, HeadersNextByServer, RepliesOpenByServer,
     WaitersByServer
<1> QED BY <1>3, <1>4, LinkParts

\* While both ends are up no call waits for nothing: what either end cannot place, and
\* drops, is never part of a request or of a reply somebody waits for.
THEOREM NoneForgotten == LinkSpec => []WaitersUnderWay
<1>1. ASSUME Ends, MessagesOpen PROVE WaitersUnderWay
  BY <1>1, WaysAgree DEF MessagesOpen, WaitersUnderWay, WaitersServed, Waits, Up
<1>2. LinkSpec => []MessagesOpen
  BY MessagesStart, MessagesKept, EndsHold, RequestsHold, RepliesHold, PTL DEF LinkSpec
<1> QED BY <1>1, <1>2, EndsHold, PTL
=============================================================================
