------------------------ MODULE ClientConnection_proofs ------------------------
(***************************************************************************)
(* Theorems about one client connection, for any number of calls, any body *)
(* lengths, chunk size, watermark and capacities, and any peer.            *)
(***************************************************************************)
EXTENDS ClientRpc, DataTheorems, SequenceTheorems, TLAPS

USE ClientAssumption DEF callVars, countVars, notifyVars, readerVars, wireVars, vars

-----------------------------------------------------------------------------
(* Facts about the operators.                                              *)

\* Every packet the code builds is a packet.
LEMMA PacketTypes ==
  ASSUME NEW m \in Nat, NEW k \in Nat
  PROVE  /\ Header(m, k) \in Packet /\ Data(m, k) \in Packet
         /\ Eof(m) \in Packet /\ Ack(m, k) \in Packet /\ Pong(m) \in Packet
         /\ NoPacket \in Packet
  BY DEF Header, Data, Eof, Ack, Pong, NoPacket, Packet, PacketType

\* What the reader puts into a slot is a response.
LEMMA ResponseTypes ==
  /\ NoResponse \in Responses /\ Lost \in Responses
  /\ \A m \in [id: Nat, received: Nat] : /\ ReplyOf(m) \in Responses
                                         /\ TxerrOf(m) \in Responses
                                         /\ ReplyOf(m).id = m.id
                                         /\ TxerrOf(m).id = m.id
                                         /\ ReplyOf(m) # NoResponse
                                         /\ TxerrOf(m) # NoResponse
  BY DEF NoResponse, Lost, ReplyOf, TxerrOf, Responses

\* A chunk is never longer than Chunk nor than what is left of the body, and
\* not empty while something is left.
LEMMA ChunkLenBound ==
  ASSUME NEW c \in Calls, len[c] \in Nat, offset[c] \in Nat, offset[c] <= len[c]
  PROVE  /\ ChunkLen(c) \in Nat
         /\ ChunkLen(c) <= Chunk
         /\ offset[c] + ChunkLen(c) <= len[c]
         /\ offset[c] < len[c] => ChunkLen(c) > 0
  BY DEF ChunkLen

\* A queue stays a queue when its head is taken or something is added.
LEMMA QueueFacts ==
  ASSUME NEW S, NEW q \in Seq(S)
  PROVE  /\ q # <<>> => Head(q) \in S /\ Tail(q) \in Seq(S)
         /\ \A e \in S : Append(q, e) \in Seq(S)
         /\ <<>> \in Seq(S)
  OBVIOUS

\* Two sequences one after the other: where the elements are, and what a step at
\* either end or at the joint does to the whole.
LEMMA ConcatFacts ==
  ASSUME NEW S, NEW q \in Seq(S), NEW r \in Seq(S)
  PROVE  /\ q \o r \in Seq(S)
         /\ DOMAIN (q \o r) = 1..(Len(q) + Len(r)) /\ Len(q \o r) = Len(q) + Len(r)
         /\ \A i \in 1..Len(q) : (q \o r)[i] = q[i]
         /\ \A i \in 1..Len(r) : (q \o r)[Len(q) + i] = r[i]
         /\ q \o <<>> = q /\ <<>> \o r = r
         /\ \A e \in S : q \o Append(r, e) = Append(q \o r, e)
         /\ r # <<>> => Append(q, Head(r)) \o Tail(r) = q \o r
         /\ q # <<>> => /\ Tail(q) \o r = Tail(q \o r)
                        /\ q \o r # <<>> /\ Head(q \o r) = Head(q)
<1>1. /\ q \o r \in Seq(S) /\ Len(q \o r) = Len(q) + Len(r)
      /\ \A i \in 1..Len(q) + Len(r) :
           (q \o r)[i] = IF i <= Len(q) THEN q[i] ELSE r[i - Len(q)]
      /\ Len(q) \in Nat /\ Len(r) \in Nat
  BY ConcatProperties, LenProperties
<1>2. DOMAIN (q \o r) = 1..(Len(q) + Len(r))
  BY <1>1, LenProperties
<1>3. \A i \in 1..Len(r) : (q \o r)[Len(q) + i] = r[i]
  <2> TAKE i \in 1..Len(r)
  <2>1. Len(q) + i \in 1..Len(q) + Len(r) /\ ~(Len(q) + i <= Len(q)) /\ (Len(q) + i) - Len(q) = i
    BY <1>1
  <2> QED BY <1>1, <2>1
<1>4. q \o <<>> = q /\ <<>> \o r = r
  BY ConcatEmptySeq
<1>5. ASSUME NEW e \in S PROVE q \o Append(r, e) = Append(q \o r, e)
  <2>1. Append(r, e) = r \o <<e>> /\ Append(q \o r, e) = (q \o r) \o <<e>> /\ <<e>> \in Seq(S)
    BY <1>1, AppendIsConcat
  <2> QED BY <2>1, ConcatAssociative
<1>6. ASSUME r # <<>> PROVE Append(q, Head(r)) \o Tail(r) = q \o r
  <2>1. Head(r) \in S /\ Tail(r) \in Seq(S) /\ r = <<Head(r)>> \o Tail(r) /\ <<Head(r)>> \in Seq(S)
    BY <1>6
  <2>2. Append(q, Head(r)) = q \o <<Head(r)>>
    BY <2>1, AppendIsConcat
  <2> QED BY <2>1, <2>2, ConcatAssociative
<1>7. ASSUME q # <<>>
      PROVE  Tail(q) \o r = Tail(q \o r) /\ q \o r # <<>> /\ Head(q \o r) = Head(q)
  <2>1. /\ Tail(q) \in Seq(S) /\ Len(Tail(q)) = Len(q) - 1 /\ Len(q) > 0 /\ Head(q) = q[1]
        /\ \A i \in 1..Len(q) - 1 : Tail(q)[i] = q[i + 1]
    BY <1>7, HeadTailProperties, EmptySeq
  <2>2. q \o r # <<>> /\ Head(q \o r) = Head(q)
    BY <1>1, <2>1
  <2>3. /\ Tail(q \o r) \in Seq(S) /\ Len(Tail(q \o r)) = Len(q) + Len(r) - 1
        /\ \A i \in 1..Len(q) + Len(r) - 1 : Tail(q \o r)[i] = (q \o r)[i + 1]
    BY <1>1, <2>2, HeadTailProperties
  <2>4. /\ Tail(q) \o r \in Seq(S) /\ Len(Tail(q) \o r) = Len(q) - 1 + Len(r)
        /\ \A i \in 1..Len(q) - 1 + Len(r) :
             (Tail(q) \o r)[i] = IF i <= Len(q) - 1 THEN Tail(q)[i] ELSE r[i - (Len(q) - 1)]
    BY <2>1, ConcatProperties
  <2>5. ASSUME NEW i \in 1..Len(Tail(q) \o r) PROVE (Tail(q) \o r)[i] = Tail(q \o r)[i]
    <3>1. /\ i \in 1..Len(q) - 1 + Len(r) /\ i + 1 \in 1..Len(q) + Len(r)
          /\ i - (Len(q) - 1) = (i + 1) - Len(q)
      BY <1>1, <2>1, <2>4
    <3>2. i <= Len(q) - 1 => i + 1 <= Len(q) /\ Tail(q)[i] = q[i + 1]
      BY <1>1, <2>1, <3>1
    <3>3. ~(i <= Len(q) - 1) => ~(i + 1 <= Len(q))
      BY <1>1, <3>1
    <3> QED BY <1>1, <2>3, <2>4, <3>1, <3>2, <3>3
  <2>6. Tail(q) \o r = Tail(q \o r)
    BY <1>1, <2>3, <2>4, <2>5, SeqEqual
  <2> QED BY <2>2, <2>6
<1>8. \A i \in 1..Len(q) : (q \o r)[i] = q[i]
  <2> TAKE i \in 1..Len(q)
  <2>1. i \in 1..Len(q) + Len(r) /\ i <= Len(q)
    BY <1>1
  <2> QED BY <1>1, <2>1
<1> QED BY <1>1, <1>2, <1>3, <1>4, <1>5, <1>6, <1>7, <1>8

-----------------------------------------------------------------------------
(* Who writes what: every step either leaves a variable alone or is one of  *)
(* the actions listed.  The proofs below look at those actions only.        *)

\* Only a call of its own, an answer or the drain changes pending.
LEMMA PendingWriters ==
  ASSUME [Next]_vars
  PROVE  \/ UNCHANGED pending
         \/ \E c \in Calls : Register(c) \/ Expire(c) \/ Unregister(c)
         \/ RouteEof \/ RouteTxerr \/ DrainPending
<1>1. CASE \E c \in Calls : Start(c) \/ CallStep(c)
  BY <1>1 DEF Start, CallStep, TakeRequestId, TakeMsgNo, Track, SendHeader,
     CheckClosed, CheckWindow, Park, SendChunk, CountSent, SendEof,
     TakeResponse, TimeOut, Release, Untrack, Enqueue
<1>2. CASE ReaderStep
  BY <1>2 DEF ReaderStep, RouteHeader, RouteData, RouteAck, RoutePing,
     RoutePong, RouteBad, ReaderAnswers, ReaderEnds, SetClosed
<1>3. CASE WriterStep \/ DropHandle \/ PeerStep \/ UNCHANGED vars
  BY <1>3 DEF WriterStep, WriterSends, WriterFails, DropHandle, PeerStep,
     PeerReads, PeerSends, PeerCloses
<1> QED BY <1>1, <1>2, <1>3 DEF Next, ClientStep

\* A slot is written by the reader: an EOF, a TXERR or the drain.
LEMMA SlotWriters ==
  ASSUME [Next]_vars
  PROVE  UNCHANGED slot \/ RouteEof \/ RouteTxerr \/ DrainPending
<1>1. CASE \E c \in Calls : Start(c) \/ CallStep(c)
  BY <1>1 DEF Start, CallStep, TakeRequestId, TakeMsgNo, Register, Track,
     SendHeader, CheckClosed, CheckWindow, Park, SendChunk, CountSent, SendEof,
     TakeResponse, TimeOut, Expire, Release, Unregister, Untrack, Enqueue
<1>2. CASE ReaderStep
  BY <1>2 DEF ReaderStep, RouteHeader, RouteData, RouteAck, RoutePing,
     RoutePong, RouteBad, ReaderAnswers, ReaderEnds, SetClosed
<1>3. CASE WriterStep \/ DropHandle \/ PeerStep \/ UNCHANGED vars
  BY <1>3 DEF WriterStep, WriterSends, WriterFails, DropHandle, PeerStep,
     PeerReads, PeerSends, PeerCloses
<1> QED BY <1>1, <1>2, <1>3 DEF Next, ClientStep

\* Only a call of its own or an ACK changes outgoing.
LEMMA OutgoingWriters ==
  ASSUME [Next]_vars
  PROVE  \/ UNCHANGED outgoing
         \/ \E c \in Calls : Track(c) \/ CountSent(c) \/ Release(c) \/ Untrack(c)
         \/ RouteAck
<1>1. CASE \E c \in Calls : Start(c) \/ CallStep(c)
  BY <1>1 DEF Start, CallStep, TakeRequestId, TakeMsgNo, Register, SendHeader,
     CheckClosed, CheckWindow, Park, SendChunk, SendEof,
     TakeResponse, TimeOut, Expire, Unregister, Enqueue
<1>2. CASE ReaderStep
  BY <1>2 DEF ReaderStep, RouteHeader, RouteData, RouteEof, RouteTxerr,
     RoutePing, RoutePong, RouteBad, ReaderAnswers, ReaderEnds, DrainPending,
     SetClosed
<1>3. CASE WriterStep \/ DropHandle \/ PeerStep \/ UNCHANGED vars
  BY <1>3 DEF WriterStep, WriterSends, WriterFails, DropHandle, PeerStep,
     PeerReads, PeerSends, PeerCloses
<1> QED BY <1>1, <1>2, <1>3 DEF Next, ClientStep

\* The wait queue of ack_notify grows by a call and shrinks by an ACK.
LEMMA WaitersWriters ==
  ASSUME [Next]_vars
  PROVE  UNCHANGED waiters \/ (\E c \in Calls : Park(c)) \/ RouteAck
<1>1. CASE \E c \in Calls : Start(c) \/ CallStep(c)
  BY <1>1 DEF Start, CallStep, TakeRequestId, TakeMsgNo, Register, Track,
     SendHeader, CheckClosed, CheckWindow, SendChunk, CountSent, SendEof,
     TakeResponse, TimeOut, Expire, Release, Unregister, Untrack, Enqueue
<1>2. CASE ReaderStep
  BY <1>2 DEF ReaderStep, RouteHeader, RouteData, RouteEof, RouteTxerr,
     RoutePing, RoutePong, RouteBad, ReaderAnswers, ReaderEnds, DrainPending,
     SetClosed
<1>3. CASE WriterStep \/ DropHandle \/ PeerStep \/ UNCHANGED vars
  BY <1>3 DEF WriterStep, WriterSends, WriterFails, DropHandle, PeerStep,
     PeerReads, PeerSends, PeerCloses
<1> QED BY <1>1, <1>2, <1>3 DEF Next, ClientStep

\* The reader's table of incoming messages changes only as it routes.
LEMMA IncomingWriters ==
  ASSUME [Next]_vars
  PROVE  \/ UNCHANGED <<incoming, next_incoming_msg_no>>
         \/ RouteHeader \/ RouteData \/ RouteEof \/ RouteTxerr
<1>1. CASE \E c \in Calls : Start(c) \/ CallStep(c)
  BY <1>1 DEF Start, CallStep, TakeRequestId, TakeMsgNo, Register, Track,
     SendHeader, CheckClosed, CheckWindow, Park, SendChunk, CountSent, SendEof,
     TakeResponse, TimeOut, Expire, Release, Unregister, Untrack, Enqueue
<1>2. CASE ReaderStep
  BY <1>2 DEF ReaderStep, RouteAck, RoutePing, RoutePong, RouteBad,
     ReaderAnswers, ReaderEnds, DrainPending, SetClosed
<1>3. CASE WriterStep \/ DropHandle \/ PeerStep \/ UNCHANGED vars
  BY <1>3 DEF WriterStep, WriterSends, WriterFails, DropHandle, PeerStep,
     PeerReads, PeerSends, PeerCloses
<1> QED BY <1>1, <1>2, <1>3 DEF Next, ClientStep

\* The packet the reader is sending is set by DATA and PING.
LEMMA AnswerWriters ==
  ASSUME [Next]_vars
  PROVE  UNCHANGED answer \/ RouteData \/ RoutePing \/ ReaderAnswers
<1>1. CASE \E c \in Calls : Start(c) \/ CallStep(c)
  BY <1>1 DEF Start, CallStep, TakeRequestId, TakeMsgNo, Register, Track,
     SendHeader, CheckClosed, CheckWindow, Park, SendChunk, CountSent, SendEof,
     TakeResponse, TimeOut, Expire, Release, Unregister, Untrack, Enqueue
<1>2. CASE ReaderStep
  BY <1>2 DEF ReaderStep, RouteHeader, RouteEof, RouteTxerr, RouteAck,
     RoutePong, RouteBad, ReaderEnds, DrainPending, SetClosed
<1>3. CASE WriterStep \/ DropHandle \/ PeerStep \/ UNCHANGED vars
  BY <1>3 DEF WriterStep, WriterSends, WriterFails, DropHandle, PeerStep,
     PeerReads, PeerSends, PeerCloses
<1> QED BY <1>1, <1>2, <1>3 DEF Next, ClientStep

\* The locals of the calls other than pc.
LEMMA LocalsWriters ==
  ASSUME [Next]_vars
  PROVE  /\ UNCHANGED <<rid, next_request_id>> \/ \E c \in Calls : TakeRequestId(c)
         /\ UNCHANGED <<mno, next_outgoing_msg_no>> \/ \E c \in Calls : TakeMsgNo(c)
         /\ UNCHANGED len \/ \E c \in Calls : Start(c)
         /\ UNCHANGED offset \/ \E c \in Calls : CountSent(c)
<1>1. CASE \E c \in Calls : Start(c) \/ CallStep(c)
  BY <1>1 DEF Start, CallStep, TakeRequestId, TakeMsgNo, Register, Track,
     SendHeader, CheckClosed, CheckWindow, Park, SendChunk, CountSent, SendEof,
     TakeResponse, TimeOut, Expire, Release, Unregister, Untrack, Enqueue
<1>2. CASE ReaderStep
  BY <1>2 DEF ReaderStep, Reads, RouteHeader, RouteData, RouteEof, RouteTxerr,
     RouteAck, RoutePing, RoutePong, RouteBad, ReaderAnswers, ReaderEnds,
     DrainPending, SetClosed
<1>3. CASE WriterStep \/ DropHandle \/ PeerStep \/ UNCHANGED vars
  BY <1>3 DEF WriterStep, WriterSends, WriterFails, DropHandle, PeerStep,
     PeerReads, PeerSends, PeerCloses
<1> QED BY <1>1, <1>2, <1>3 DEF Next, ClientStep

-----------------------------------------------------------------------------
(* The control flow of send_request.                                       *)

Edges ==
  {<<"idle", "id">>, <<"idle", "done">>, <<"id", "msgno">>, <<"msgno", "register">>,
   <<"register", "track">>, <<"track", "header">>, <<"header", "check">>,
   <<"header", "eof">>, <<"header", "unregister">>, <<"check", "unregister">>,
   <<"check", "window">>, <<"window", "park">>, <<"window", "chunk">>,
   <<"park", "check">>, <<"park", "parked">>, <<"parked", "check">>,
   <<"chunk", "count">>, <<"chunk", "unregister">>, <<"count", "check">>,
   <<"count", "eof">>, <<"eof", "await">>, <<"eof", "unregister">>,
   <<"await", "release">>, <<"await", "expire">>, <<"expire", "release">>,
   <<"release", "done">>, <<"unregister", "untrack">>, <<"untrack", "done">>}

\* What the calls' places rest on: the woken call was parked.
Placed == pc \in [Calls -> PCs] /\ waiters \in Seq(Calls) /\ WaitersParked

\* A call's place changes by a step of its own, or when an ACK wakes it.
LEMMA CallMoves ==
  ASSUME Placed, [Next]_vars, NEW d \in Calls
  PROVE  \/ pc'[d] = pc[d]
         \/ Start(d) \/ CallStep(d)
         \/ RouteAck /\ pc[d] = "parked" /\ pc'[d] = "check"
<1>1. CASE \E c \in Calls : Start(c) \/ CallStep(c)
  <2> PICK c \in Calls : Start(c) \/ CallStep(c)
    BY <1>1
  <2>1. pc[c] \in PCs /\ \E l \in PCs : pc' = [pc EXCEPT ![c] = l]
    BY DEF Start, CallStep, TakeRequestId, TakeMsgNo, Register, Track, SendHeader,
       CheckClosed, CheckWindow, Park, SendChunk, CountSent, SendEof,
       TakeResponse, TimeOut, Expire, Release, Unregister, Untrack, Enqueue,
       NextChunkOrEof, Goto, PCs, Placed
  <2>2. CASE c = d
    BY <2>2
  <2>3. CASE c # d
    BY <2>1, <2>3 DEF Placed
  <2> QED BY <2>2, <2>3
<1>2. CASE RouteAck
  <2>1. CASE UNCHANGED pc
    BY <2>1
  <2>2. CASE waiters # <<>> /\ Goto(Head(waiters), "check")
    <3>1. Head(waiters) = waiters[1] /\ 1 \in DOMAIN waiters
      BY <2>2 DEF Placed
    <3>2. pc[Head(waiters)] = "parked"
      BY <3>1 DEF Placed, WaitersParked
    <3> QED BY <1>2, <2>2, <3>2 DEF Goto, Placed
  <2> QED BY <1>2, <2>1, <2>2 DEF RouteAck, NotifyOne
<1>3. CASE ReaderStep /\ ~RouteAck
  BY <1>3 DEF ReaderStep, RouteHeader, RouteData, RouteEof, RouteTxerr,
     RoutePing, RoutePong, RouteBad, ReaderAnswers, ReaderEnds, DrainPending,
     SetClosed
<1>4. CASE WriterStep \/ DropHandle \/ PeerStep \/ UNCHANGED vars
  BY <1>4 DEF WriterStep, WriterSends, WriterFails, DropHandle, PeerStep,
     PeerReads, PeerSends, PeerCloses
<1> QED BY <1>1, <1>2, <1>3, <1>4 DEF Next, ClientStep, ReaderStep

\* A call goes through send_request along its edges only.
LEMMA ControlFlow ==
  ASSUME Placed, [Next]_vars, NEW d \in Calls
  PROVE  pc'[d] = pc[d] \/ <<pc[d], pc'[d]>> \in Edges
<1>1. CASE Start(d) \/ CallStep(d)
  BY <1>1 DEF Start, CallStep, TakeRequestId, TakeMsgNo, Register, Track, SendHeader,
     CheckClosed, CheckWindow, Park, SendChunk, CountSent, SendEof,
     TakeResponse, TimeOut, Expire, Release, Unregister, Untrack, Enqueue,
     NextChunkOrEof, Goto, Placed, Edges
<1>2. CASE pc[d] = "parked" /\ pc'[d] = "check"
  BY <1>2 DEF Edges
<1> QED BY <1>1, <1>2, CallMoves

\* A call is at one of the lines of PCs after every step.
LEMMA PcTyped ==
  ASSUME Placed, [Next]_vars
  PROVE  pc' \in [Calls -> PCs]
<1>1. CASE \E c \in Calls : Start(c) \/ CallStep(c)
  BY <1>1 DEF Start, CallStep, TakeRequestId, TakeMsgNo, Register, Track, SendHeader,
     CheckClosed, CheckWindow, Park, SendChunk, CountSent, SendEof,
     TakeResponse, TimeOut, Expire, Release, Unregister, Untrack, Enqueue,
     NextChunkOrEof, Goto, PCs, Placed
<1>2. CASE ReaderStep
  BY <1>2 DEF ReaderStep, RouteHeader, RouteData, RouteEof, RouteTxerr,
     RouteAck, NotifyOne, RoutePing, RoutePong, RouteBad, ReaderAnswers,
     ReaderEnds, DrainPending, SetClosed, Goto, PCs, Placed
<1>3. CASE WriterStep \/ DropHandle \/ PeerStep \/ UNCHANGED vars
  BY <1>3 DEF WriterStep, WriterSends, WriterFails, DropHandle, PeerStep,
     PeerReads, PeerSends, PeerCloses, Placed
<1> QED BY <1>1, <1>2, <1>3 DEF Next, ClientStep

\* notified() and notify_one keep the queue of waiters and the parked calls in
\* agreement: a woken call has left the queue, and none is in it twice.
LEMMA WaitersKept ==
  ASSUME Placed, [Next]_vars
  PROVE  Placed'
<1>1. pc' \in [Calls -> PCs]
  BY PcTyped
<1>2. CASE \E c \in Calls : Park(c)
  <2> PICK c \in Calls : Park(c)
    BY <1>2
  <2>1. pc[c] = "park" /\ \A i \in DOMAIN waiters : waiters[i] # c
    BY DEF Park, Placed, WaitersParked
  <2>2. \A d \in Calls : pc[d] = "parked" => pc'[d] = "parked"
    BY <2>1 DEF Park, Goto, Placed
  <2>3. CASE waiters' = waiters
    BY <1>1, <2>2, <2>3 DEF Placed, WaitersParked
  <2>4. CASE waiters' = Append(waiters, c) /\ pc'[c] = "parked"
    <3>1. /\ waiters' \in Seq(Calls)
          /\ DOMAIN waiters' = 1..Len(waiters) + 1
          /\ waiters'[Len(waiters) + 1] = c
          /\ \A i \in 1..Len(waiters) : waiters'[i] = waiters[i]
      BY <2>4 DEF Placed
    <3> QED BY <1>1, <2>1, <2>2, <2>4, <3>1 DEF Placed, WaitersParked
  <2> QED BY <2>3, <2>4 DEF Park, Goto, Placed
<1>3. CASE RouteAck
  <2>1. CASE UNCHANGED <<pc, waiters>>
    BY <2>1 DEF Placed, WaitersParked
  <2>2. CASE waiters # <<>> /\ waiters' = Tail(waiters) /\ Goto(Head(waiters), "check")
    <3>1. /\ waiters' \in Seq(Calls)
          /\ DOMAIN waiters' = 1..Len(waiters) - 1
          /\ Head(waiters) = waiters[1]
          /\ \A i \in 1..Len(waiters) - 1 : waiters'[i] = waiters[i + 1]
      BY <2>2 DEF Placed
    <3>2. \A i \in DOMAIN waiters' : i + 1 \in DOMAIN waiters /\ i + 1 # 1 /\ 1 \in DOMAIN waiters
      BY <3>1, <2>2 DEF Placed
    <3>3. \A i \in DOMAIN waiters' : waiters'[i] \in Calls /\ waiters'[i] # Head(waiters)
      BY <3>1, <3>2 DEF Placed, WaitersParked
    <3>4. \A i \in DOMAIN waiters' : pc'[waiters'[i]] = "parked"
      BY <2>2, <3>1, <3>2, <3>3 DEF Goto, Placed, WaitersParked
    <3>5. \A i, j \in DOMAIN waiters' : i # j => waiters'[i] # waiters'[j]
      BY <3>1, <3>2 DEF Placed, WaitersParked
    <3> QED BY <1>1, <3>1, <3>4, <3>5 DEF Placed, WaitersParked
  <2> QED BY <1>3, <2>1, <2>2 DEF RouteAck, NotifyOne
<1>4. CASE UNCHANGED waiters /\ ~RouteAck /\ ~\E c \in Calls : Park(c)
  <2>1. \A d \in Calls : pc[d] = "parked" => pc'[d] = "parked"
    <3> SUFFICES ASSUME NEW d \in Calls, pc[d] = "parked" PROVE pc'[d] = "parked"
      OBVIOUS
    <3>1. ~Start(d) /\ ~CallStep(d)
      BY DEF Start, CallStep, TakeRequestId, TakeMsgNo, Register, Track, SendHeader,
         CheckClosed, CheckWindow, Park, SendChunk, CountSent, SendEof,
         TakeResponse, TimeOut, Expire, Release, Unregister, Untrack
    <3> QED BY <1>4, <3>1, CallMoves
  <2> QED BY <1>1, <1>4, <2>1 DEF Placed, WaitersParked
<1> QED BY <1>2, <1>3, <1>4, WaitersWriters

-----------------------------------------------------------------------------
(* Type correctness.  The chunk lengths are natural numbers because the     *)
(* offset stays within the body, and a woken call has some body left        *)
(* because it was parked; so the typing invariant carries both facts.       *)

Offsets == \A c \in Calls : Progress(c)
Typed == TypeOK /\ WaitersParked /\ Offsets

\* The typing invariant says where calls are and who is parked.
LEMMA TypedPlaced == Typed => Placed
  BY DEF Typed, TypeOK, CallTypes, HandleTypes, Placed

\* A connection starts well typed.
LEMMA InitTyped == Init => Typed
<1> SUFFICES ASSUME Init PROVE Typed
  OBVIOUS
<1>1. CallTypes
  BY DEF Init, CallTypes, PCs, Outcomes, Responses, NoResponse
<1>2. HandleTypes
  BY EmptyMapFacts DEF Init, HandleTypes
<1>3. ReaderTypes
  BY EmptyMapFacts, PacketTypes DEF Init, ReaderTypes
<1>4. WireTypes
  BY DEF Init, WireTypes
<1>5. FlagTypes
  BY DEF Init, FlagTypes
<1>6. Offsets
  BY DEF Init, Offsets, Progress, InLoop
<1>7. WaitersParked
  BY DEF Init, WaitersParked
<1> QED BY <1>1, <1>2, <1>3, <1>4, <1>5, <1>6, <1>7 DEF Typed, TypeOK

\* Calls end up with the body they started with, and only CountSent advances
\* the offset, by a chunk that is still within the body.
LEMMA OffsetsKept ==
  ASSUME Typed, [Next]_vars
  PROVE  len' \in [Calls -> Nat] /\ offset' \in [Calls -> Nat] /\ Offsets'
<1>1. /\ len \in [Calls -> Nat] /\ offset \in [Calls -> Nat]
      /\ pc \in [Calls -> PCs] /\ Placed /\ Offsets
  BY TypedPlaced DEF Typed, TypeOK, CallTypes
<1>2. CASE \E c \in Calls : Start(c)
  <2> PICK c \in Calls : Start(c)
    BY <1>2
  <2>1. PICK n \in Nat : len' = [len EXCEPT ![c] = n]
    BY DEF Start
  <2>2. pc[c] = "idle" /\ offset[c] = 0 /\ offset' = offset
    BY <1>1 DEF Start, Offsets, Progress
  <2>3. /\ pc'[c] \in {"id", "done"}
        /\ \A d \in Calls : d # c => pc'[d] = pc[d]
    BY <1>1 DEF Start, Goto
  <2> QED BY <1>1, <2>1, <2>2, <2>3 DEF Offsets, Progress, InLoop
<1>3. CASE \E c \in Calls : CountSent(c)
  <2> PICK c \in Calls : CountSent(c)
    BY <1>3
  <2>1. /\ pc[c] = "count" /\ len' = len
        /\ offset' = [offset EXCEPT ![c] = offset[c] + ChunkLen(c)]
        /\ pc' = [pc EXCEPT ![c] =
                    IF offset[c] + ChunkLen(c) < len[c] THEN "check" ELSE "eof"]
    BY DEF CountSent, Goto
  <2>2. /\ ChunkLen(c) \in Nat
        /\ offset[c] + ChunkLen(c) <= len[c]
    BY <1>1, ChunkLenBound DEF Offsets, Progress
  <2> QED BY <1>1, <2>1, <2>2 DEF Offsets, Progress, InLoop
<1>4. CASE UNCHANGED <<len, offset>> /\ ~\E c \in Calls : Start(c) \/ CountSent(c)
  <2> SUFFICES ASSUME NEW d \in Calls PROVE Progress(d)'
    BY <1>1, <1>4 DEF Offsets
  <2>1. pc'[d] \in {"idle", "id", "msgno", "register", "track", "header"}
          => pc[d] \in {"idle", "id", "msgno", "register", "track", "header"}
    BY <1>1, ControlFlow DEF Edges
  <2>2. pc'[d] \in InLoop => pc[d] \in InLoop \/ (pc[d] = "header" /\ offset[d] < len[d])
    <3>1. CASE pc'[d] = pc[d] \/ pc[d] = "parked"
      BY <3>1 DEF InLoop
    <3>2. CASE CallStep(d)
      BY <1>1, <1>4, <3>2
      DEF CallStep, TakeRequestId, TakeMsgNo, Register, Track, SendHeader,
          CheckClosed, CheckWindow, Park, SendChunk, SendEof, TakeResponse,
          TimeOut, Expire, Release, Unregister, Untrack, Enqueue,
          NextChunkOrEof, Goto, InLoop
    <3> QED BY <1>1, <1>4, <3>1, <3>2, CallMoves
  <2>3. pc'[d] = "eof" => pc[d] = "eof" \/ (pc[d] = "header" /\ ~(offset[d] < len[d]))
    <3>1. CASE CallStep(d)
      BY <1>1, <1>4, <3>1
      DEF CallStep, TakeRequestId, TakeMsgNo, Register, Track, SendHeader,
          CheckClosed, CheckWindow, Park, SendChunk, SendEof, TakeResponse,
          TimeOut, Expire, Release, Unregister, Untrack, Enqueue,
          NextChunkOrEof, Goto
    <3> QED BY <1>1, <1>4, <3>1, CallMoves
  <2>4. offset[d] \in Nat /\ len[d] \in Nat
    BY <1>1
  <2> QED BY <1>1, <1>4, <2>1, <2>2, <2>3, <2>4 DEF Offsets, Progress
<1> QED BY <1>2, <1>3, <1>4, LocalsWriters

\* What a slot holds is a response after every step.
LEMMA SlotTyped ==
  ASSUME Typed, [Next]_vars
  PROVE  slot' \in [Calls -> Responses]
<1>1. slot \in [Calls -> Responses] /\ ReaderTypes
  BY DEF Typed, TypeOK, CallTypes
<1>2. CASE RouteEof
  <2>1. CASE UNCHANGED slot
    BY <1>1, <2>1
  <2>2. CASE /\ Head(s2c).msgno \in DOMAIN incoming
             /\ Deliver(incoming[Head(s2c).msgno].id, ReplyOf(incoming[Head(s2c).msgno]))
    <3>1. ReplyOf(incoming[Head(s2c).msgno]) \in Responses
      BY <1>1, <2>2, ResponseTypes DEF ReaderTypes
    <3> QED BY <1>1, <2>2, <3>1 DEF Deliver
  <2> QED BY <1>2, <2>1, <2>2 DEF RouteEof
<1>3. CASE RouteTxerr
  <2>1. CASE UNCHANGED slot
    BY <1>1, <2>1
  <2>2. CASE /\ Head(s2c).msgno \in DOMAIN incoming
             /\ Deliver(incoming[Head(s2c).msgno].id, TxerrOf(incoming[Head(s2c).msgno]))
    <3>1. TxerrOf(incoming[Head(s2c).msgno]) \in Responses
      BY <1>1, <2>2, ResponseTypes DEF ReaderTypes
    <3> QED BY <1>1, <2>2, <3>1 DEF Deliver
  <2> QED BY <1>3, <2>1, <2>2 DEF RouteTxerr
<1>4. CASE DrainPending
  <2>1. Lost \in Responses
    BY ResponseTypes
  <2> QED BY <1>1, <1>4, <2>1 DEF DrainPending
<1> QED BY <1>1, <1>2, <1>3, <1>4, SlotWriters

\* What a call is about to return is an outcome after every step.
LEMMA OutcomeTyped ==
  ASSUME Typed, [Next]_vars
  PROVE  outcome' \in [Calls -> Outcomes]
<1>1. outcome \in [Calls -> Outcomes] /\ slot \in [Calls -> Responses]
  BY DEF Typed, TypeOK, CallTypes
<1>2. CASE \E c \in Calls : TakeResponse(c)
  <2> PICK c \in Calls : TakeResponse(c)
    BY <1>2
  <2>1. slot[c].kind \in Outcomes
    BY <1>1 DEF Responses, Outcomes
  <2> QED BY <1>1, <2>1 DEF TakeResponse
<1>3. CASE \E c \in Calls : (Start(c) \/ CallStep(c)) /\ ~TakeResponse(c)
  BY <1>1, <1>3
  DEF Start, CallStep, TakeRequestId, TakeMsgNo, Register, Track, SendHeader,
      CheckClosed, CheckWindow, Park, SendChunk, CountSent, SendEof, TimeOut,
      Expire, Release, Unregister, Untrack, Enqueue, Outcomes
<1>4. CASE ReaderStep
  BY <1>1, <1>4 DEF ReaderStep, Reads, RouteHeader, RouteData, RouteEof, RouteTxerr,
     RouteAck, RoutePing, RoutePong, RouteBad, ReaderAnswers, ReaderEnds,
     DrainPending, SetClosed
<1>5. CASE WriterStep \/ DropHandle \/ PeerStep \/ UNCHANGED vars
  BY <1>1, <1>5 DEF WriterStep, WriterSends, WriterFails, DropHandle, PeerStep,
     PeerReads, PeerSends, PeerCloses
<1> QED BY <1>2, <1>3, <1>4, <1>5 DEF Next, ClientStep

\* The locals of the calls keep their types.
LEMMA CallTypesKept ==
  ASSUME Typed, [Next]_vars
  PROVE  CallTypes'
<1>1. CallTypes /\ HandleTypes
  BY DEF Typed, TypeOK
<1>2. rid' \in [Calls -> Nat] /\ mno' \in [Calls -> Nat]
  <2>1. rid \in [Calls -> Nat] /\ mno \in [Calls -> Nat]
        /\ next_request_id \in Nat /\ next_outgoing_msg_no \in Nat
    BY <1>1 DEF CallTypes, HandleTypes
  <2>2. rid' = rid \/ \E c \in Calls : rid' = [rid EXCEPT ![c] = next_request_id]
    BY LocalsWriters DEF TakeRequestId
  <2>3. mno' = mno \/ \E c \in Calls : mno' = [mno EXCEPT ![c] = next_outgoing_msg_no]
    BY LocalsWriters DEF TakeMsgNo
  <2>4. rid' \in [Calls -> Nat]
    BY <2>1, <2>2
  <2>5. mno' \in [Calls -> Nat]
    BY <2>1, <2>3
  <2> QED BY <2>4, <2>5
<1> QED BY <1>2, TypedPlaced, PcTyped, OffsetsKept, SlotTyped, OutcomeTyped DEF CallTypes

\* The fields of the handle keep their types.
LEMMA HandleTypesKept ==
  ASSUME Typed, [Next]_vars
  PROVE  HandleTypes'
<1>1. CallTypes /\ HandleTypes /\ ReaderTypes /\ WireTypes /\ Offsets
  BY DEF Typed, TypeOK
<1>2. next_request_id' \in Nat /\ next_outgoing_msg_no' \in Nat
  BY <1>1, LocalsWriters DEF HandleTypes, TakeRequestId, TakeMsgNo
<1>3. waiters' \in Seq(Calls)
  BY TypedPlaced, WaitersKept DEF Placed
<1>4. /\ IsMap(pending') /\ DOMAIN pending' \subseteq Nat
      /\ \A id \in DOMAIN pending' : pending'[id] \in Calls
  <2>1. CASE \E c \in Calls : Register(c)
    <3> PICK c \in Calls : Register(c)
      BY <2>1
    <3>1. pending' = Insert(pending, rid[c], c) /\ rid[c] \in Nat
      BY <1>1 DEF Register, CallTypes
    <3>2. /\ IsMap(pending') /\ DOMAIN pending' = DOMAIN pending \cup {rid[c]}
          /\ pending'[rid[c]] = c
          /\ \A id \in DOMAIN pending : id # rid[c] => pending'[id] = pending[id]
      BY <3>1 DEF Insert, IsMap
    <3> QED BY <1>1, <3>1, <3>2 DEF HandleTypes
  <2>2. CASE UNCHANGED pending
    BY <1>1, <2>2 DEF HandleTypes
  <2>4. CASE \E id : pending' = Without(pending, id)
    <3> PICK id : pending' = Without(pending, id)
      BY <2>4
    <3>1. /\ IsMap(pending') /\ DOMAIN pending' = DOMAIN pending \ {id}
          /\ \A k \in DOMAIN pending' : pending'[k] = pending[k]
      BY WithoutFacts
    <3> QED BY <1>1, <3>1 DEF HandleTypes
  <2>3. CASE pending' = EmptyMap
    BY <2>3, EmptyMapFacts
  <2> QED BY <2>1, <2>2, <2>3, <2>4, PendingWriters
          DEF Expire, Unregister, RouteEof, RouteTxerr, Deliver, DrainPending
<1>5. /\ IsMap(outgoing') /\ DOMAIN outgoing' \subseteq Nat
      /\ \A m \in DOMAIN outgoing' : outgoing'[m] \in [sent: Nat, acknowledged: Nat]
  <2>1. CASE \E c \in Calls : Track(c)
    <3> PICK c \in Calls : Track(c)
      BY <2>1
    <3>1. /\ outgoing' = Insert(outgoing, mno[c], [sent |-> 0, acknowledged |-> 0])
          /\ mno[c] \in Nat
      BY <1>1 DEF Track, CallTypes
    <3>2. /\ IsMap(outgoing') /\ DOMAIN outgoing' = DOMAIN outgoing \cup {mno[c]}
          /\ outgoing'[mno[c]] = [sent |-> 0, acknowledged |-> 0]
          /\ \A m \in DOMAIN outgoing : m # mno[c] => outgoing'[m] = outgoing[m]
      BY <3>1 DEF Insert, IsMap
    <3> QED BY <1>1, <3>1, <3>2 DEF HandleTypes
  <2>2. CASE \E c \in Calls : CountSent(c)
    <3> PICK c \in Calls : CountSent(c)
      BY <2>2
    <3>1. ChunkLen(c) \in Nat
      BY <1>1, ChunkLenBound DEF CallTypes, Offsets, Progress
    <3>2. CASE mno[c] \in DOMAIN outgoing
      <4> DEFINE new == [outgoing[mno[c]] EXCEPT !.sent = @ + ChunkLen(c)]
      <4>1. outgoing' = [outgoing EXCEPT ![mno[c]] = new]
        BY <3>2 DEF CountSent
      <4>2. new \in [sent: Nat, acknowledged: Nat]
        <5>1. outgoing[mno[c]] \in [sent: Nat, acknowledged: Nat]
          BY <1>1, <3>2 DEF HandleTypes
        <5> QED BY <3>1, <5>1
      <4> HIDE DEF new
      <4>3. /\ IsMap(outgoing) /\ DOMAIN outgoing \subseteq Nat
            /\ \A m \in DOMAIN outgoing : outgoing[m] \in [sent: Nat, acknowledged: Nat]
        BY <1>1 DEF HandleTypes
      <4>4. /\ IsMap(outgoing') /\ DOMAIN outgoing' = DOMAIN outgoing
            /\ \A m \in DOMAIN outgoing :
                 outgoing'[m] = IF m = mno[c] THEN new ELSE outgoing[m]
        BY <4>1, <4>3, UpdateFacts
      <4> QED BY <4>2, <4>3, <4>4
    <3>3. CASE outgoing' = outgoing
      BY <1>1, <3>3 DEF HandleTypes
    <3> QED BY <3>2, <3>3 DEF CountSent
  <2>3. CASE UNCHANGED outgoing
    BY <1>1, <2>3 DEF HandleTypes
  <2>5. CASE \E m : outgoing' = Without(outgoing, m)
    <3> PICK m : outgoing' = Without(outgoing, m)
      BY <2>5
    <3>1. /\ IsMap(outgoing') /\ DOMAIN outgoing' = DOMAIN outgoing \ {m}
          /\ \A k \in DOMAIN outgoing' : outgoing'[k] = outgoing[k]
      BY WithoutFacts
    <3> QED BY <1>1, <3>1 DEF HandleTypes
  <2>4. CASE RouteAck
    <3> DEFINE p == Head(s2c)
               new == [outgoing[p.msgno] EXCEPT !.acknowledged = p.n]
    <3>1. CASE AckAccepted(p)
      <4>1. outgoing' = [outgoing EXCEPT ![p.msgno] = new]
        BY <2>4, <3>1 DEF RouteAck
      <4>2. p \in Packet
        BY <1>1, <2>4 DEF RouteAck, Reads, WireTypes
      <4>3. p.n \in Nat /\ p.msgno \in DOMAIN outgoing
        BY <3>1, <4>2 DEF Packet, AckAccepted
      <4>4. new \in [sent: Nat, acknowledged: Nat]
        BY <1>1, <4>3 DEF HandleTypes
      <4> QED BY <1>1, <4>1, <4>4, UpdateFacts DEF HandleTypes
    <3>2. CASE outgoing' = outgoing
      BY <1>1, <3>2 DEF HandleTypes
    <3> QED BY <2>4, <3>1, <3>2 DEF RouteAck
  <2> QED BY <2>1, <2>2, <2>3, <2>4, <2>5, OutgoingWriters DEF Release, Untrack
<1> QED BY <1>2, <1>3, <1>4, <1>5 DEF HandleTypes

\* The reader's place and locals keep their types.
LEMMA ReaderTypesKept ==
  ASSUME Typed, [Next]_vars
  PROVE  ReaderTypes'
<1>1. ReaderTypes /\ WireTypes
  BY DEF Typed, TypeOK
<1>2. reader' \in {"reading", "answering", "draining", "closing", "gone"}
  <2>1. CASE \E c \in Calls : Start(c) \/ CallStep(c)
    BY <1>1, <2>1 DEF Start, CallStep, TakeRequestId, TakeMsgNo, Register, Track,
       SendHeader, CheckClosed, CheckWindow, Park, SendChunk, CountSent, SendEof,
       TakeResponse, TimeOut, Expire, Release, Unregister, Untrack, Enqueue,
       ReaderTypes
  <2>2. CASE ReaderStep
    BY <1>1, <2>2 DEF ReaderStep, RouteHeader, RouteData, RouteEof, RouteTxerr,
       RouteAck, RoutePing, RoutePong, RouteBad, ReaderAnswers, ReaderEnds,
       DrainPending, SetClosed, ReaderTypes
  <2>3. CASE WriterStep \/ DropHandle \/ PeerStep \/ UNCHANGED vars
    BY <1>1, <2>3 DEF WriterStep, WriterSends, WriterFails, DropHandle, PeerStep,
       PeerReads, PeerSends, PeerCloses, ReaderTypes
  <2> QED BY <2>1, <2>2, <2>3 DEF Next, ClientStep
<1>3. ASSUME RouteHeader \/ RouteData \/ RouteEof \/ RouteTxerr \/ RoutePing
      PROVE  /\ Head(s2c) \in Packet /\ Head(s2c).msgno \in Nat
             /\ Head(s2c).id \in Nat /\ Head(s2c).n \in Nat
  <2>1. s2c # <<>>
    BY <1>3 DEF RouteHeader, RouteData, RouteEof, RouteTxerr, RoutePing, Reads
  <2>2. Head(s2c) \in Packet
    BY <1>1, <2>1 DEF WireTypes
  <2> QED BY <2>2 DEF Packet
<1>4. /\ IsMap(incoming') /\ DOMAIN incoming' \subseteq Nat
      /\ \A m \in DOMAIN incoming' : incoming'[m] \in [id: Nat, received: Nat]
      /\ next_incoming_msg_no' \in Nat
  <2>1. CASE RouteHeader
    <3> DEFINE p == Head(s2c)
               new == [id |-> p.id, received |-> 0]
    <3>1. CASE incoming' = Insert(incoming, p.msgno, new)
      <4>1. new \in [id: Nat, received: Nat] /\ p.msgno \in Nat
        BY <1>3, <2>1
      <4>2. /\ IsMap(incoming') /\ DOMAIN incoming' = DOMAIN incoming \cup {p.msgno}
            /\ incoming'[p.msgno] = new
            /\ \A m \in DOMAIN incoming : m # p.msgno => incoming'[m] = incoming[m]
        BY <3>1 DEF Insert, IsMap
      <4>3. next_incoming_msg_no' \in Nat
        BY <1>1, <2>1 DEF RouteHeader, ReaderTypes
      <4> QED BY <1>1, <4>1, <4>2, <4>3 DEF ReaderTypes
    <3>2. CASE UNCHANGED <<next_incoming_msg_no, incoming>>
      BY <1>1, <3>2 DEF ReaderTypes
    <3> QED BY <2>1, <3>1, <3>2 DEF RouteHeader
  <2>2. CASE RouteData
    <3> DEFINE p == Head(s2c)
               new == [incoming[p.msgno] EXCEPT !.received = @ + p.n]
    <3>1. CASE p.msgno \in DOMAIN incoming /\ p.n > 0
      <4>1. incoming' = [incoming EXCEPT ![p.msgno] = new]
        BY <2>2, <3>1 DEF RouteData
      <4>2. new \in [id: Nat, received: Nat]
        BY <1>1, <1>3, <2>2, <3>1 DEF ReaderTypes
      <4>3. next_incoming_msg_no' \in Nat
        BY <1>1, <2>2 DEF RouteData, ReaderTypes
      <4> QED BY <1>1, <4>1, <4>2, <4>3, UpdateFacts DEF ReaderTypes
    <3>2. CASE UNCHANGED <<next_incoming_msg_no, incoming>>
      BY <1>1, <3>2 DEF ReaderTypes
    <3> QED BY <2>2, <3>1, <3>2 DEF RouteData
  <2>3. CASE RouteEof \/ RouteTxerr
    <3> DEFINE p == Head(s2c)
    <3>1. CASE incoming' = Without(incoming, p.msgno)
      <4>1. /\ IsMap(incoming') /\ DOMAIN incoming' = DOMAIN incoming \ {p.msgno}
            /\ \A m \in DOMAIN incoming' : incoming'[m] = incoming[m]
        BY <3>1, WithoutFacts
      <4> QED BY <1>1, <2>3, <4>1 DEF RouteEof, RouteTxerr, ReaderTypes
    <3>2. CASE UNCHANGED incoming
      BY <1>1, <2>3, <3>2 DEF RouteEof, RouteTxerr, ReaderTypes
    <3> QED BY <2>3, <3>1, <3>2 DEF RouteEof, RouteTxerr
  <2>4. CASE UNCHANGED <<incoming, next_incoming_msg_no>>
    BY <1>1, <2>4 DEF ReaderTypes
  <2> QED BY <2>1, <2>2, <2>3, <2>4, IncomingWriters
<1>5. answer' \in Packet
  <2>1. CASE RouteData
    <3> DEFINE p == Head(s2c)
    <3>1. CASE p.msgno \in DOMAIN incoming
      <4>1. p.msgno \in Nat /\ incoming[p.msgno].received + p.n \in Nat
        BY <1>1, <1>3, <2>1, <3>1 DEF ReaderTypes
      <4> QED BY <1>1, <2>1, <4>1, PacketTypes DEF RouteData, ReaderTypes
    <3>2. CASE UNCHANGED answer
      BY <1>1, <3>2 DEF ReaderTypes
    <3> QED BY <2>1, <3>1, <3>2 DEF RouteData
  <2>2. CASE RoutePing
    BY <1>3, <2>2, PacketTypes DEF RoutePing
  <2>3. CASE ReaderAnswers
    BY <2>3, PacketTypes DEF ReaderAnswers
  <2>4. CASE UNCHANGED answer
    BY <1>1, <2>4 DEF ReaderTypes
  <2> QED BY <2>1, <2>2, <2>3, <2>4, AnswerWriters
<1> QED BY <1>2, <1>4, <1>5 DEF ReaderTypes

\* Channel and stream carry packets, and the writer runs or has ended.
LEMMA WireTypesKept ==
  ASSUME Typed, [Next]_vars
  PROVE  WireTypes'
<1>1. CallTypes /\ HandleTypes /\ ReaderTypes /\ WireTypes /\ Offsets
  BY DEF Typed, TypeOK
<1>2. CASE \E c \in Calls, p \in Packet, next \in PCs : Enqueue(c, p, next)
  <2> PICK c \in Calls, p \in Packet, next \in PCs : Enqueue(c, p, next)
    BY <1>2
  <2>1. chan' = chan \/ chan' = Append(chan, p)
    BY DEF Enqueue
  <2>2. UNCHANGED <<writer, c2s, s2c>>
    BY DEF Enqueue
  <2>3. chan' \in Seq(Packet)
    <3>1. chan \in Seq(Packet)
      BY <1>1 DEF WireTypes
    <3> QED BY <2>1, <3>1, QueueFacts
  <2> QED BY <1>1, <2>2, <2>3 DEF WireTypes
<1>3. CASE \E c \in Calls : SendHeader(c) \/ SendChunk(c) \/ SendEof(c)
  <2> PICK c \in Calls : SendHeader(c) \/ SendChunk(c) \/ SendEof(c)
    BY <1>3
  <2>1. /\ ChunkLen(c) \in Nat /\ rid[c] \in Nat /\ mno[c] \in Nat
    BY <1>1, ChunkLenBound DEF CallTypes, Offsets, Progress
  <2>2. /\ Header(mno[c], rid[c]) \in Packet
        /\ Data(mno[c], ChunkLen(c)) \in Packet
        /\ Eof(mno[c]) \in Packet
    BY <2>1, PacketTypes
  <2>3. NextChunkOrEof(c) \in PCs /\ "count" \in PCs /\ "await" \in PCs
    BY DEF NextChunkOrEof, PCs
  <2> QED BY <1>2, <2>2, <2>3 DEF SendHeader, SendChunk, SendEof
<1>4. CASE \E c \in Calls : /\ Start(c) \/ CallStep(c)
                            /\ ~SendHeader(c) /\ ~SendChunk(c) /\ ~SendEof(c)
  <2>1. UNCHANGED <<writer, chan, c2s, s2c>>
    BY <1>4 DEF Start, CallStep, TakeRequestId, TakeMsgNo, Register, Track,
       CheckClosed, CheckWindow, Park, CountSent, TakeResponse, TimeOut, Expire,
       Release, Unregister, Untrack
  <2> QED BY <1>1, <2>1 DEF WireTypes
<1>5. CASE ReaderStep
  <2>1. UNCHANGED <<writer, c2s>>
    BY <1>5 DEF ReaderStep, Reads, RouteHeader, RouteData, RouteEof, RouteTxerr,
       RouteAck, RoutePing, RoutePong, RouteBad, ReaderAnswers, ReaderEnds,
       DrainPending, SetClosed
  <2>2. chan' = chan \/ chan' = Append(chan, answer)
    BY <1>5 DEF ReaderStep, Reads, RouteHeader, RouteData, RouteEof, RouteTxerr,
       RouteAck, RoutePing, RoutePong, RouteBad, ReaderAnswers, ReaderEnds,
       DrainPending, SetClosed
  <2>3. s2c' = s2c \/ (s2c # <<>> /\ s2c' = Tail(s2c))
    BY <1>5 DEF ReaderStep, Reads, RouteHeader, RouteData, RouteEof, RouteTxerr,
       RouteAck, RoutePing, RoutePong, RouteBad, ReaderAnswers, ReaderEnds,
       DrainPending, SetClosed
  <2>4. chan' \in Seq(Packet)
    BY <1>1, <2>2 DEF WireTypes, ReaderTypes
  <2>5. s2c' \in Seq(Packet)
    BY <1>1, <2>3, QueueFacts DEF WireTypes
  <2> QED BY <1>1, <2>1, <2>4, <2>5 DEF WireTypes
<1>6. CASE WriterStep \/ DropHandle
  <2>1. /\ writer' \in {"running", "ended"} /\ s2c' = s2c
    BY <1>1, <1>6 DEF WriterStep, WriterSends, WriterFails, DropHandle, WireTypes
  <2>2. \/ chan' = <<>> /\ c2s' = c2s
        \/ chan # <<>> /\ chan' = Tail(chan) /\ c2s' = Append(c2s, Head(chan))
    BY <1>6 DEF WriterStep, WriterSends, WriterFails, DropHandle
  <2>3. chan' \in Seq(Packet) /\ c2s' \in Seq(Packet)
    BY <1>1, <2>2, QueueFacts DEF WireTypes
  <2> QED BY <1>1, <2>1, <2>3 DEF WireTypes
<1>7. CASE PeerStep
  <2>1. UNCHANGED <<writer, chan>>
    BY <1>7 DEF PeerStep, PeerReads, PeerSends, PeerCloses
  <2>2. \/ c2s # <<>> /\ c2s' = Tail(c2s)
        \/ c2s' \in {<<>>, c2s}
    BY <1>7 DEF PeerStep, PeerReads, PeerSends, PeerCloses
  <2>3. s2c' = s2c \/ \E p \in Packet : s2c' = Append(s2c, p)
    BY <1>7 DEF PeerStep, PeerReads, PeerSends, PeerCloses
  <2>4. c2s' \in Seq(Packet)
    BY <1>1, <2>2, QueueFacts DEF WireTypes
  <2>5. s2c' \in Seq(Packet)
    <3>1. s2c \in Seq(Packet)
      BY <1>1 DEF WireTypes
    <3> QED BY <2>3, <3>1, QueueFacts
  <2> QED BY <1>1, <2>1, <2>4, <2>5 DEF WireTypes
<1>8. CASE UNCHANGED vars
  BY <1>1, <1>8 DEF WireTypes
<1> QED BY <1>3, <1>4, <1>5, <1>6, <1>7, <1>8 DEF Next, ClientStep

\* The flags stay Booleans.
LEMMA FlagTypesKept ==
  ASSUME Typed, [Next]_vars
  PROVE  FlagTypes'
<1>1. FlagTypes
  BY DEF Typed, TypeOK
<1>2. CASE \E c \in Calls : Start(c) \/ CallStep(c)
  <2>1. UNCHANGED <<closed, peerClosed>> /\ (permit' = permit \/ permit' = FALSE)
    BY <1>2 DEF Start, CallStep, TakeRequestId, TakeMsgNo, Register, Track,
       SendHeader, CheckClosed, CheckWindow, Park, SendChunk, CountSent, SendEof,
       TakeResponse, TimeOut, Expire, Release, Unregister, Untrack, Enqueue
  <2> QED BY <1>1, <2>1, Zenon DEF FlagTypes
<1>3. CASE ReaderStep \/ WriterStep \/ DropHandle \/ PeerStep \/ UNCHANGED vars
  <2>1. /\ closed' = closed \/ closed' = TRUE
        /\ permit' = permit \/ permit' = TRUE
        /\ peerClosed' = peerClosed \/ peerClosed' = TRUE
    BY <1>3 DEF ReaderStep, Reads, RouteHeader, RouteData, RouteEof, RouteTxerr,
       RouteAck, NotifyOne, RoutePing, RoutePong, RouteBad, ReaderAnswers,
       ReaderEnds, DrainPending, SetClosed, WriterStep, WriterSends, WriterFails,
       DropHandle, PeerStep, PeerReads, PeerSends, PeerCloses
  <2> QED BY <1>1, <2>1, Zenon DEF FlagTypes
<1> QED BY <1>2, <1>3 DEF Next, ClientStep

\* Every step keeps the typing invariant.
LEMMA TypedKept ==
  ASSUME Typed, [Next]_vars
  PROVE  Typed'
  BY TypedPlaced, WaitersKept, OffsetsKept, CallTypesKept, HandleTypesKept,
     ReaderTypesKept, WireTypesKept, FlagTypesKept DEF Typed, TypeOK, Placed

\* Every variable of a connection keeps its type, whatever the peer sends.
THEOREM TypeCorrect == Spec => []TypeOK
<1>1. Typed /\ [Next]_vars => Typed'
  BY TypedKept
<1>2. Typed => TypeOK
  BY DEF Typed
<1> QED BY InitTyped, <1>1, <1>2, PTL DEF Spec

-----------------------------------------------------------------------------
(* The inductive invariant: every call owns its numbers and its entries.   *)

\* A connection without calls satisfies the invariant.
LEMMA InitInvariant == Init => IInv
<1> SUFFICES ASSUME Init PROVE IInv
  OBVIOUS
<1> USE DEF Init
<1>1. IdsUnique /\ MsgNosUnique
  BY DEF IdsUnique, MsgNosUnique, HasNumber, Numbered, Tracked
<1>2. PendingExact /\ OutgoingExact
  BY EmptyMapFacts DEF PendingExact, OutgoingExact, Registered, Tracked
<1>3. WaitersParked /\ ParkedWait
  BY DEF WaitersParked, ParkedWait
<1>4. WindowsUsed
  BY DEF WindowsUsed, Progress, WindowUse, InLoop, Tracked
<1>5. PacketsOwned
  BY ConcatFacts DEF PacketsOwned, Stream, IsRequestPacket, NoPacket
<1> QED BY <1>1, <1>2, <1>3, <1>4, <1>5 DEF IInv

\* fetch_add hands out every request id once.
LEMMA IdsKept ==
  ASSUME Typed, IdsUnique, [Next]_vars
  PROVE  IdsUnique'
<1>1. /\ Placed /\ rid \in [Calls -> Nat] /\ next_request_id \in Nat
      /\ pc \in [Calls -> PCs]
  BY TypedPlaced DEF Typed, TypeOK, CallTypes, HandleTypes
<1>2. CASE \E c \in Calls : TakeRequestId(c)
  <2> PICK c \in Calls : TakeRequestId(c)
    BY <1>2
  <2>1. /\ pc[c] = "id" /\ pc' = [pc EXCEPT ![c] = "msgno"]
        /\ rid' = [rid EXCEPT ![c] = next_request_id]
        /\ next_request_id' = next_request_id + 1
    BY DEF TakeRequestId, Goto
  <2> QED BY <1>1, <2>1 DEF IdsUnique, Numbered, Tracked
<1>3. CASE UNCHANGED <<rid, next_request_id>> /\ ~\E c \in Calls : TakeRequestId(c)
  <2>1. \A d \in Calls : /\ pc'[d] \in {"idle", "id"} => pc[d] \in {"idle", "id"}
                         /\ pc'[d] \in Numbered \cup {"msgno"}
                              => pc[d] \in Numbered \cup {"msgno"}
    <3> TAKE d \in Calls
    <3>1. pc[d] = "id" => pc'[d] = "id"
      BY <1>1, <1>3, CallMoves
      DEF Start, CallStep, TakeMsgNo, Register, Track, SendHeader, CheckClosed,
          CheckWindow, Park, SendChunk, CountSent, SendEof, TakeResponse, TimeOut,
          Expire, Release, Unregister, Untrack
    <3> QED BY <1>1, <3>1, ControlFlow DEF Edges, Numbered, Tracked
  <2> QED BY <1>3, <2>1 DEF IdsUnique
<1> QED BY <1>2, <1>3, LocalsWriters

\* A call that has a number got it by TakeMsgNo, and it stays the same.
LEMMA NumbersStay ==
  ASSUME Typed, IdsUnique, [Next]_vars, NEW d \in Calls, ~TakeMsgNo(d)
  PROVE  /\ HasNumber(d)' => HasNumber(d)
         /\ mno'[d] = mno[d]
         /\ HasNumber(d) => HasNumber(d)' /\ rid'[d] = rid[d] /\ len'[d] = len[d]
<1>1. /\ Placed /\ mno \in [Calls -> Nat] /\ rid \in [Calls -> Nat] /\ len \in [Calls -> Nat]
      /\ pc \in [Calls -> PCs]
      /\ pc[d] \in {"idle", "id"} => rid[d] = 0
      /\ pc[d] \in Numbered => rid[d] > 0
  BY TypedPlaced DEF Typed, TypeOK, CallTypes, IdsUnique
<1>2. mno'[d] = mno[d]
  BY <1>1, LocalsWriters DEF TakeMsgNo
<1>3. /\ rid'[d] = rid[d] \/ TakeRequestId(d)
      /\ len'[d] = len[d] \/ Start(d)
  BY <1>1, LocalsWriters DEF TakeRequestId, Start
<1>4. HasNumber(d) => rid'[d] = rid[d] /\ len'[d] = len[d]
  BY <1>1, <1>3 DEF TakeRequestId, Start, HasNumber, Numbered, Tracked
<1>5. /\ pc[d] = "msgno" => pc'[d] = "msgno"
      /\ pc[d] \in {"idle", "done"} => rid'[d] = rid[d]
  <2>1. pc[d] = "msgno" => pc'[d] = "msgno"
    BY <1>1, CallMoves
    DEF Start, CallStep, TakeRequestId, Register, Track, SendHeader, CheckClosed,
        CheckWindow, Park, SendChunk, CountSent, SendEof, TakeResponse, TimeOut,
        Expire, Release, Unregister, Untrack
  <2> QED BY <1>3, <2>1 DEF TakeRequestId
<1>6. <<pc[d], pc'[d]>> \in Edges \/ pc'[d] = pc[d]
  BY <1>1, ControlFlow
<1>7. /\ pc'[d] \in Numbered => pc[d] \in Numbered
      /\ pc'[d] = "done" => pc[d] \in Numbered \cup {"idle", "done"}
      /\ pc[d] \in Numbered => pc'[d] \in Numbered \cup {"done"}
      /\ pc[d] = "done" => pc'[d] = "done"
  BY <1>5, <1>6 DEF Edges, Numbered, Tracked
<1> QED BY <1>1, <1>2, <1>4, <1>5, <1>7 DEF HasNumber

\* So does the counter of message numbers.
LEMMA MsgNosKept ==
  ASSUME Typed, IdsUnique, MsgNosUnique, [Next]_vars
  PROVE  MsgNosUnique'
<1>1. /\ Placed /\ mno \in [Calls -> Nat] /\ next_outgoing_msg_no \in Nat
      /\ pc \in [Calls -> PCs]
  BY TypedPlaced DEF Typed, TypeOK, CallTypes, HandleTypes
<1>2. CASE \E c \in Calls : TakeMsgNo(c)
  <2> PICK c \in Calls : TakeMsgNo(c)
    BY <1>2
  <2>1. /\ pc[c] = "msgno" /\ pc' = [pc EXCEPT ![c] = "register"]
        /\ mno' = [mno EXCEPT ![c] = next_outgoing_msg_no]
        /\ next_outgoing_msg_no' = next_outgoing_msg_no + 1 /\ rid' = rid
    BY DEF TakeMsgNo, Goto
  <2>2. \A d \in Calls : d # c => (HasNumber(d)' <=> HasNumber(d)) /\ mno'[d] = mno[d]
    BY <1>1, <2>1 DEF HasNumber
  <2> QED BY <1>1, <2>1, <2>2 DEF MsgNosUnique
<1>3. CASE UNCHANGED <<mno, next_outgoing_msg_no>> /\ ~\E c \in Calls : TakeMsgNo(c)
  BY <1>3, NumbersStay DEF MsgNosUnique
<1> QED BY <1>2, <1>3, LocalsWriters

\* Delivering a response takes the one entry of its call out of pending.
LEMMA DeliverKeepsPending ==
  ASSUME Typed, IdsUnique, PendingExact, NEW id, NEW response,
         response # NoResponse, Deliver(id, response), UNCHANGED <<pc, rid>>
  PROVE  PendingExact'
<1>1. CASE UNCHANGED <<slot, pending>>
  BY <1>1 DEF PendingExact
<1>2. CASE id \in DOMAIN pending
  <2> DEFINE e == pending[id]
  <2>1. /\ e \in Calls /\ rid[e] = id /\ pc[e] \in Registered
        /\ slot \in [Calls -> Responses]
    BY <1>2 DEF PendingExact, Typed, TypeOK, HandleTypes, CallTypes
  <2>2. slot' = [slot EXCEPT ![e] = response]
    BY <1>2 DEF Deliver
  <2>3. /\ DOMAIN pending' = DOMAIN pending \ {id}
        /\ \A k \in DOMAIN pending' : pending'[k] = pending[k]
    <3>1. pending' = Without(pending, id)
      BY <1>2 DEF Deliver
    <3> QED BY <3>1, WithoutFacts
  <2>4. \A k \in DOMAIN pending' : pending[k] \in Calls /\ pending[k] # e
    BY <2>1, <2>3 DEF PendingExact, Typed, TypeOK, HandleTypes
  <2>5. \A d \in Calls : (d # e /\ pc[d] \in Registered) => rid[d] # id
    BY <2>1 DEF IdsUnique, Registered, Numbered, Tracked
  <2>6. \A k \in DOMAIN pending' : /\ pc'[pending'[k]] \in Registered
                                   /\ rid'[pending'[k]] = k
                                   /\ slot'[pending'[k]] = NoResponse
    BY <2>1, <2>2, <2>3, <2>4 DEF PendingExact
  <2>7. \A d \in Calls : (pc'[d] \in Registered /\ slot'[d] = NoResponse)
                           => rid'[d] \in DOMAIN pending' /\ pending'[rid'[d]] = d
    BY <2>1, <2>2, <2>3, <2>5 DEF PendingExact
  <2>8. \A d \in Calls : pc'[d] \in {"idle", "id", "msgno", "register"}
                           => slot'[d] = NoResponse
    BY <2>1, <2>2 DEF PendingExact, Registered
  <2> QED BY <2>6, <2>7, <2>8 DEF PendingExact
<1> QED BY <1>1, <1>2 DEF Deliver

\* Registering, removing, delivering and draining keep pending in agreement
\* with the calls; every other step leaves registered calls registered.
LEMMA PendingKept ==
  ASSUME Typed, IdsUnique, PendingExact, [Next]_vars
  PROVE  PendingExact'
<1>1. /\ Placed /\ pc \in [Calls -> PCs] /\ rid \in [Calls -> Nat]
      /\ slot \in [Calls -> Responses] /\ ReaderTypes
      /\ \A id \in DOMAIN pending : pending[id] \in Calls
  BY TypedPlaced DEF Typed, TypeOK, CallTypes, HandleTypes
<1>2. CASE \E c \in Calls : Register(c)
  <2> PICK c \in Calls : Register(c)
    BY <1>2
  <2>1. /\ pc[c] = "register" /\ pc' = [pc EXCEPT ![c] = "track"]
        /\ pending' = Insert(pending, rid[c], c) /\ UNCHANGED <<rid, slot>>
    BY DEF Register, Goto
  <2>2. /\ DOMAIN pending' = DOMAIN pending \cup {rid[c]}
        /\ pending'[rid[c]] = c
        /\ \A id \in DOMAIN pending : id # rid[c] => pending'[id] = pending[id]
    BY <2>1 DEF Insert
  <2>3. \A id \in DOMAIN pending : pending[id] # c
    BY <2>1 DEF PendingExact, Registered
  <2>4. \A d \in Calls : (d # c /\ pc[d] \in Registered) => rid[d] # rid[c]
    BY <1>1, <2>1 DEF IdsUnique, Registered, Numbered, Tracked
  <2>5. slot[c] = NoResponse /\ "track" \in Registered
    BY <2>1 DEF PendingExact, Registered
  <2>6. \A id \in DOMAIN pending' : /\ pc'[pending'[id]] \in Registered
                                    /\ rid'[pending'[id]] = id
                                    /\ slot'[pending'[id]] = NoResponse
    BY <1>1, <2>1, <2>2, <2>3, <2>5 DEF PendingExact
  <2>7. \A d \in Calls : (pc'[d] \in Registered /\ slot'[d] = NoResponse)
                           => rid'[d] \in DOMAIN pending' /\ pending'[rid'[d]] = d
    BY <1>1, <2>1, <2>2, <2>4 DEF PendingExact
  <2>8. \A d \in Calls : pc'[d] \in {"idle", "id", "msgno", "register"}
                           => slot'[d] = NoResponse
    BY <1>1, <2>1 DEF PendingExact
  <2> QED BY <2>6, <2>7, <2>8 DEF PendingExact
<1>3. CASE \E c \in Calls : Expire(c) \/ Unregister(c)
  <2> PICK c \in Calls : Expire(c) \/ Unregister(c)
    BY <1>3
  <2>1. /\ pc[c] \in {"expire", "unregister"}
        /\ \E l \in {"release", "untrack"} : pc' = [pc EXCEPT ![c] = l]
        /\ pending' = Without(pending, rid[c]) /\ UNCHANGED <<rid, slot>>
    BY DEF Expire, Unregister, Goto
  <2>2. /\ DOMAIN pending' = DOMAIN pending \ {rid[c]}
        /\ \A id \in DOMAIN pending' : pending'[id] = pending[id]
    <3>1. pending' = Without(pending, rid[c])
      BY <2>1
    <3> QED BY <3>1, WithoutFacts, Zenon
  <2>3. \A id \in DOMAIN pending' : pending[id] # c
    BY <2>2 DEF PendingExact
  <2>4. \A d \in Calls : (d # c /\ pc[d] \in Registered) => rid[d] # rid[c]
    BY <1>1, <2>1 DEF IdsUnique, Registered, Numbered, Tracked
  <2>5. pc'[c] \notin Registered \cup {"idle", "id", "msgno", "register"}
    BY <1>1, <2>1 DEF Registered
  <2>6. \A id \in DOMAIN pending' : /\ pc'[pending'[id]] \in Registered
                                    /\ rid'[pending'[id]] = id
                                    /\ slot'[pending'[id]] = NoResponse
    BY <1>1, <2>1, <2>2, <2>3 DEF PendingExact
  <2>7. \A d \in Calls : (pc'[d] \in Registered /\ slot'[d] = NoResponse)
                           => rid'[d] \in DOMAIN pending' /\ pending'[rid'[d]] = d
    BY <1>1, <2>1, <2>2, <2>4, <2>5 DEF PendingExact
  <2>8. \A d \in Calls : pc'[d] \in {"idle", "id", "msgno", "register"}
                           => slot'[d] = NoResponse
    BY <1>1, <2>1, <2>5 DEF PendingExact
  <2> QED BY <2>6, <2>7, <2>8 DEF PendingExact
<1>4. CASE RouteEof
  <2> DEFINE m == incoming[Head(s2c).msgno]
  <2>1. UNCHANGED <<pc, rid>>
    BY <1>4 DEF RouteEof, Reads
  <2>2. CASE UNCHANGED <<slot, pending>>
    BY <2>1, <2>2 DEF PendingExact
  <2>3. CASE Head(s2c).msgno \in DOMAIN incoming /\ Deliver(m.id, ReplyOf(m))
    <3>1. ReplyOf(m) # NoResponse
      BY <1>1, <2>3, ResponseTypes DEF ReaderTypes
    <3> QED BY <2>1, <2>3, <3>1, DeliverKeepsPending
  <2> QED BY <1>4, <2>2, <2>3 DEF RouteEof
<1>5. CASE RouteTxerr
  <2> DEFINE m == incoming[Head(s2c).msgno]
  <2>1. UNCHANGED <<pc, rid>>
    BY <1>5 DEF RouteTxerr, Reads
  <2>2. CASE UNCHANGED <<slot, pending>>
    BY <2>1, <2>2 DEF PendingExact
  <2>3. CASE Head(s2c).msgno \in DOMAIN incoming /\ Deliver(m.id, TxerrOf(m))
    <3>1. TxerrOf(m) # NoResponse
      BY <1>1, <2>3, ResponseTypes DEF ReaderTypes
    <3> QED BY <2>1, <2>3, <3>1, DeliverKeepsPending
  <2> QED BY <1>5, <2>2, <2>3 DEF RouteTxerr
<1>6. CASE DrainPending
  <2>1. /\ UNCHANGED <<pc, rid>> /\ DOMAIN pending' = {}
        /\ \A d \in Calls : slot'[d] = IF \E id \in DOMAIN pending : pending[id] = d
                                       THEN Lost ELSE slot[d]
    BY <1>6, EmptyMapFacts DEF DrainPending
  <2>2. Lost # NoResponse
    BY DEF Lost, NoResponse
  <2>3. \A d \in Calls : pc[d] \in Registered => slot'[d] # NoResponse
    BY <2>1, <2>2 DEF PendingExact
  <2>4. \A d \in Calls : pc[d] \in {"idle", "id", "msgno", "register"}
                           => slot'[d] = NoResponse
    BY <2>1 DEF PendingExact, Registered
  <2> QED BY <2>1, <2>3, <2>4 DEF PendingExact
<1>7. CASE /\ UNCHANGED <<pending, slot>>
           /\ ~\E c \in Calls : Register(c) \/ Expire(c) \/ Unregister(c)
  <2>1. \A d \in Calls : pc[d] # "id" => rid'[d] = rid[d]
    BY <1>1, LocalsWriters DEF TakeRequestId
  <2>2. \A d \in Calls :
          /\ \/ pc'[d] \in Registered <=> pc[d] \in Registered
             \/ pc[d] = "await" /\ slot[d] # NoResponse /\ pc'[d] = "release"
          /\ pc'[d] \in {"idle", "id", "msgno", "register"}
               => pc[d] \in {"idle", "id", "msgno", "register"}
    <3> TAKE d \in Calls
    <3>1. pc[d] \in {"register", "expire", "unregister"} => pc'[d] = pc[d]
      BY <1>1, <1>7, CallMoves
      DEF Start, CallStep, TakeRequestId, TakeMsgNo, Track, SendHeader, CheckClosed,
          CheckWindow, Park, SendChunk, CountSent, SendEof, TakeResponse, TimeOut,
          Release, Untrack
    <3>2. (pc[d] = "await" /\ pc'[d] = "release") => slot[d] # NoResponse
      BY <1>1, CallMoves
      DEF Start, CallStep, TakeRequestId, TakeMsgNo, Register, Track, SendHeader,
          CheckClosed, CheckWindow, Park, SendChunk, CountSent, SendEof,
          TakeResponse, TimeOut, Expire, Release, Unregister, Untrack, Goto
    <3> QED BY <1>1, <3>1, <3>2, ControlFlow DEF Edges, Registered
  <2> QED BY <1>1, <1>7, <2>1, <2>2 DEF PendingExact, Registered
<1> QED BY <1>2, <1>3, <1>4, <1>5, <1>6, <1>7, PendingWriters, SlotWriters

\* The records of outgoing are the tracked calls', and each tells how far its
\* call is in its body and how much of that was acknowledged.
Windows == OutgoingExact /\ WindowsUsed

\* Every step keeps offsets within bodies and windows within the watermark.
LEMMA WindowsKept ==
  ASSUME Typed, MsgNosUnique, Windows, [Next]_vars
  PROVE  Windows'
<1>1. /\ Placed /\ pc \in [Calls -> PCs]
      /\ mno \in [Calls -> Nat] /\ offset \in [Calls -> Nat] /\ len \in [Calls -> Nat]
      /\ IsMap(outgoing)
      /\ \A m \in DOMAIN outgoing : outgoing[m] \in [sent: Nat, acknowledged: Nat]
      /\ Offsets /\ Offsets'
  BY TypedPlaced, OffsetsKept DEF Typed, TypeOK, CallTypes, HandleTypes
<1>2. \A d \in Calls : pc[d] # "msgno" => mno'[d] = mno[d]
  BY <1>1, LocalsWriters DEF TakeMsgNo
<1>3. SUFFICES OutgoingExact' /\ \A d \in Calls : WindowUse(d)'
  BY <1>1 DEF Windows, WindowsUsed, Offsets
<1>4. CASE \E c \in Calls : Track(c)
  <2> PICK c \in Calls : Track(c)
    BY <1>4
  <2>1. /\ pc[c] = "track" /\ pc' = [pc EXCEPT ![c] = "header"]
        /\ outgoing' = Insert(outgoing, mno[c], [sent |-> 0, acknowledged |-> 0])
        /\ UNCHANGED <<mno, len, offset>>
    BY DEF Track, Goto
  <2>2. /\ DOMAIN outgoing' = DOMAIN outgoing \cup {mno[c]}
        /\ outgoing'[mno[c]] = [sent |-> 0, acknowledged |-> 0]
        /\ \A m \in DOMAIN outgoing : m # mno[c] => outgoing'[m] = outgoing[m]
    BY <2>1 DEF Insert
  <2>3. \A d \in Calls : (d # c /\ pc[d] \in Tracked) => mno[d] # mno[c]
    BY <1>1, <2>1 DEF MsgNosUnique, HasNumber, Numbered
  <2>4. OutgoingExact'
    BY <1>1, <2>1, <2>2 DEF Windows, OutgoingExact, Tracked
  <2>5. ASSUME NEW d \in Calls PROVE WindowUse(d)'
    <3>1. CASE d = c
      <4>1. offset[c] = 0
        BY <1>1, <2>1 DEF Offsets, Progress
      <4> QED BY <1>1, <2>1, <2>2, <3>1, <4>1 DEF WindowUse
    <3>2. CASE d # c
      <4>1. pc[d] \in Tracked => outgoing'[mno[d]] = outgoing[mno[d]]
        BY <2>2, <2>3, <3>2 DEF Windows, OutgoingExact
      <4> QED BY <1>1, <2>1, <3>2, <4>1 DEF Windows, WindowsUsed, WindowUse
    <3> QED BY <3>1, <3>2
  <2> QED BY <2>4, <2>5
<1>5. CASE \E c \in Calls : Release(c) \/ Untrack(c)
  <2> PICK c \in Calls : Release(c) \/ Untrack(c)
    BY <1>5
  <2>1. /\ pc[c] \in Tracked /\ pc' = [pc EXCEPT ![c] = "done"]
        /\ outgoing' = Without(outgoing, mno[c])
        /\ UNCHANGED <<mno, len, offset>>
    BY DEF Release, Untrack, Goto, Tracked
  <2>2. /\ DOMAIN outgoing' = DOMAIN outgoing \ {mno[c]}
        /\ \A m \in DOMAIN outgoing' : outgoing'[m] = outgoing[m]
    BY <2>1, WithoutFacts
  <2>3. \A d \in Calls : (d # c /\ pc[d] \in Tracked) => mno[d] # mno[c]
    BY <1>1, <2>1 DEF MsgNosUnique, HasNumber, Numbered
  <2>4. OutgoingExact'
    BY <1>1, <2>1, <2>2, <2>3 DEF Windows, OutgoingExact, Tracked
  <2>5. ASSUME NEW d \in Calls PROVE WindowUse(d)'
    <3>1. CASE d = c
      BY <1>1, <2>1, <3>1 DEF WindowUse, Tracked
    <3>2. CASE d # c
      <4>1. pc[d] \in Tracked => outgoing'[mno[d]] = outgoing[mno[d]]
        BY <2>2, <2>3, <3>2 DEF Windows, OutgoingExact
      <4> QED BY <1>1, <2>1, <3>2, <4>1 DEF Windows, WindowsUsed, WindowUse
    <3> QED BY <3>1, <3>2
  <2> QED BY <2>4, <2>5
<1>6. CASE \E c \in Calls : CountSent(c)
  <2> PICK c \in Calls : CountSent(c)
    BY <1>6
  <2> DEFINE new == [outgoing[mno[c]] EXCEPT !.sent = @ + ChunkLen(c)]
  <2>1. /\ pc[c] = "count" /\ mno[c] \in DOMAIN outgoing
        /\ \E l \in {"check", "eof"} : pc' = [pc EXCEPT ![c] = l]
        /\ offset' = [offset EXCEPT ![c] = offset[c] + ChunkLen(c)]
        /\ UNCHANGED <<mno, len>>
    BY DEF CountSent, Goto, Windows, OutgoingExact, Tracked
  <2>2. outgoing' = [outgoing EXCEPT ![mno[c]] = new]
    BY <2>1 DEF CountSent
  <2>3. /\ DOMAIN outgoing' = DOMAIN outgoing
        /\ outgoing'[mno[c]] = new
        /\ \A m \in DOMAIN outgoing : m # mno[c] => outgoing'[m] = outgoing[m]
    BY <1>1, <2>1, <2>2, UpdateFacts
  <2>4. \A d \in Calls : (d # c /\ pc[d] \in Tracked) => mno[d] # mno[c]
    BY <1>1, <2>1 DEF MsgNosUnique, HasNumber, Numbered, Tracked
  <2>5. \A d \in Calls : pc'[d] \in Tracked <=> pc[d] \in Tracked
    BY <1>1, <2>1 DEF Tracked
  <2>6. OutgoingExact'
    BY <1>1, <2>1, <2>3, <2>5 DEF Windows, OutgoingExact
  <2>7. ASSUME NEW d \in Calls PROVE WindowUse(d)'
    <3>1. CASE d = c
      <4>1. ChunkLen(c) \in Nat /\ ChunkLen(c) <= Chunk
        BY <1>1, ChunkLenBound DEF Offsets, Progress
      <4>2. /\ outgoing[mno[c]].sent \in Nat /\ outgoing[mno[c]].acknowledged \in Nat
            /\ new.sent = outgoing[mno[c]].sent + ChunkLen(c)
            /\ new.acknowledged = outgoing[mno[c]].acknowledged
        BY <1>1, <2>1
      <4>3. /\ outgoing[mno[c]].sent = offset[c]
            /\ outgoing[mno[c]].acknowledged <= outgoing[mno[c]].sent
            /\ outgoing[mno[c]].sent - outgoing[mno[c]].acknowledged < Watermark
        BY <2>1 DEF Windows, WindowsUsed, WindowUse, Tracked
      <4>4. /\ pc'[c] \notin {"chunk", "count"} /\ mno'[c] = mno[c]
            /\ offset[c] \in Nat /\ offset'[c] = offset[c] + ChunkLen(c)
        BY <1>1, <2>1
      <4>5. /\ outgoing'[mno[c]].sent = outgoing[mno[c]].sent + ChunkLen(c)
            /\ outgoing'[mno[c]].acknowledged = outgoing[mno[c]].acknowledged
        BY <2>3, <4>2
      <4> HIDE DEF new
      <4> QED BY <3>1, <4>1, <4>2, <4>3, <4>4, <4>5 DEF WindowUse
    <3>2. CASE d # c
      <4>1. pc[d] \in Tracked => outgoing'[mno[d]] = outgoing[mno[d]]
        BY <2>3, <2>4, <3>2 DEF Windows, OutgoingExact
      <4> QED BY <1>1, <2>1, <3>2, <4>1 DEF Windows, WindowsUsed, WindowUse
    <3> QED BY <3>1, <3>2
  <2> QED BY <2>6, <2>7
<1>7. CASE RouteAck
  <2> DEFINE p == Head(s2c)
             new == [outgoing[p.msgno] EXCEPT !.acknowledged = p.n]
  <2>1. UNCHANGED <<mno, len, offset>>
    BY <1>7 DEF RouteAck, Reads
  <2>2. \A d \in Calls : pc'[d] = pc[d] \/ (pc[d] = "parked" /\ pc'[d] = "check")
    <3> TAKE d \in Calls
    <3>1. ~Start(d) /\ ~CallStep(d)
      BY <1>7 DEF RouteAck, Reads, Start, CallStep, TakeRequestId, TakeMsgNo, Register,
         Track, SendHeader, CheckClosed, CheckWindow, Park, SendChunk, CountSent,
         SendEof, TakeResponse, TimeOut, Expire, Release, Unregister, Untrack, Enqueue
    <3> QED BY <1>1, <3>1, CallMoves
  <2>3. CASE outgoing' = outgoing
    BY <1>1, <2>1, <2>2, <2>3
    DEF Windows, OutgoingExact, WindowsUsed, WindowUse, Tracked
  <2>4. CASE AckAccepted(p)
    <3>1. outgoing' = [outgoing EXCEPT ![p.msgno] = new] /\ p.msgno \in DOMAIN outgoing
      BY <1>7, <2>4 DEF RouteAck, AckAccepted
    <3>2. p \in Packet
      BY <1>7, QueueFacts DEF RouteAck, Reads, Typed, TypeOK, WireTypes
    <3>3. /\ p.n \in Nat /\ p.n <= outgoing[p.msgno].sent
          /\ p.n > outgoing[p.msgno].acknowledged
          /\ new.sent = outgoing[p.msgno].sent /\ new.acknowledged = p.n
          /\ outgoing[p.msgno].sent \in Nat /\ outgoing[p.msgno].acknowledged \in Nat
      BY <1>1, <2>4, <3>1, <3>2 DEF AckAccepted, Packet
    <3>4. /\ DOMAIN outgoing' = DOMAIN outgoing
          /\ outgoing'[p.msgno] = new
          /\ \A m \in DOMAIN outgoing : m # p.msgno => outgoing'[m] = outgoing[m]
      BY <1>1, <3>1, UpdateFacts
    <3>5. OutgoingExact'
      BY <2>1, <2>2, <3>4 DEF Windows, OutgoingExact, Tracked
    <3>6. ASSUME NEW d \in Calls PROVE WindowUse(d)'
      <4>1. CASE pc[d] \in Tracked /\ mno[d] = p.msgno
        <5>1. /\ outgoing'[mno[d]].sent = outgoing[mno[d]].sent
              /\ outgoing'[mno[d]].acknowledged = p.n
              /\ mno'[d] = mno[d] /\ offset'[d] = offset[d]
          BY <1>1, <2>1, <3>3, <3>4, <4>1
        <5>2. pc'[d] \in {"chunk", "count"} => pc[d] \in {"chunk", "count"}
          BY <2>2
        <5> QED BY <3>3, <4>1, <5>1, <5>2 DEF Windows, WindowsUsed, WindowUse
      <4>2. CASE pc[d] \in Tracked /\ mno[d] # p.msgno
        BY <1>1, <2>1, <2>2, <3>4, <4>2
        DEF Windows, WindowsUsed, WindowUse, OutgoingExact
      <4>3. CASE pc[d] \notin Tracked
        BY <2>2, <4>3 DEF WindowUse, Tracked
      <4> QED BY <4>1, <4>2, <4>3
    <3> QED BY <3>5, <3>6
  <2> QED BY <1>7, <2>3, <2>4 DEF RouteAck
<1>8. CASE /\ UNCHANGED outgoing
           /\ ~\E c \in Calls : Track(c) \/ CountSent(c) \/ Release(c) \/ Untrack(c)
  <2>1. UNCHANGED offset
    BY <1>8, LocalsWriters
  <2>2. ASSUME NEW d \in Calls
        PROVE  /\ pc'[d] \in Tracked <=> pc[d] \in Tracked
               /\ (pc'[d] \in {"chunk", "count"} /\ pc[d] \notin {"chunk", "count"})
                    => ~OverWatermark(d)
    <3>1. pc[d] \in {"track", "count", "release", "untrack"} => pc'[d] = pc[d]
      BY <1>1, <1>8, CallMoves
      DEF Start, CallStep, TakeRequestId, TakeMsgNo, Register, SendHeader,
          CheckClosed, CheckWindow, Park, SendChunk, SendEof, TakeResponse, TimeOut,
          Expire, Unregister
    <3>2. (pc[d] = "window" /\ pc'[d] = "chunk") => ~OverWatermark(d)
      BY <1>1, CallMoves
      DEF Start, CallStep, TakeRequestId, TakeMsgNo, Register, Track, SendHeader,
          CheckClosed, CheckWindow, Park, SendChunk, CountSent, SendEof,
          TakeResponse, TimeOut, Expire, Release, Unregister, Untrack, Goto
    <3> QED BY <1>1, <3>1, <3>2, ControlFlow DEF Edges, Tracked
  <2>3. OutgoingExact'
    BY <1>2, <1>8, <2>2 DEF Windows, OutgoingExact, Tracked
  <2>4. ASSUME NEW d \in Calls PROVE WindowUse(d)'
    <3>1. CASE pc[d] \in Tracked
      <4>1. /\ mno'[d] = mno[d] /\ mno[d] \in DOMAIN outgoing
            /\ outgoing[mno[d]] \in [sent: Nat, acknowledged: Nat]
        BY <1>1, <1>2, <3>1 DEF Tracked, Windows, OutgoingExact
      <4> QED BY <1>8, <2>1, <2>2, <3>1, <4>1
              DEF Windows, WindowsUsed, WindowUse, OverWatermark
    <3>2. CASE pc[d] \notin Tracked
      BY <2>2, <3>2 DEF WindowUse
    <3> QED BY <3>1, <3>2
  <2> QED BY <2>3, <2>4
<1> QED BY <1>4, <1>5, <1>6, <1>7, <1>8, OutgoingWriters

\* A parked call stays in the queue until it is woken.
LEMMA ParkedKept ==
  ASSUME Typed, ParkedWait, [Next]_vars
  PROVE  ParkedWait'
<1>1. Placed /\ waiters \in Seq(Calls) /\ pc \in [Calls -> PCs]
  BY TypedPlaced DEF Placed
<1> SUFFICES ASSUME NEW d \in Calls, pc'[d] = "parked"
             PROVE  \E i \in DOMAIN waiters' : waiters'[i] = d
  BY DEF ParkedWait
<1>2. pc[d] = "parked" \/ (Park(d) /\ ~permit)
  BY <1>1, CallMoves
  DEF Start, CallStep, TakeRequestId, TakeMsgNo, Register, Track, SendHeader,
      CheckClosed, CheckWindow, Park, SendChunk, CountSent, SendEof, TakeResponse,
      TimeOut, Expire, Release, Unregister, Untrack, Enqueue, NextChunkOrEof, Goto
<1>3. CASE Park(d) /\ ~permit
  <2>1. waiters' = Append(waiters, d)
    BY <1>3 DEF Park
  <2>2. Len(waiters) + 1 \in DOMAIN waiters' /\ waiters'[Len(waiters) + 1] = d
    BY <1>1, <2>1, AppendProperties, LenProperties
  <2> QED BY <2>2
<1>4. CASE pc[d] = "parked"
  <2>1. PICK i \in DOMAIN waiters : waiters[i] = d
    BY <1>4 DEF ParkedWait
  <2>2. CASE UNCHANGED waiters
    BY <2>1, <2>2
  <2>3. CASE \E c \in Calls : waiters' = Append(waiters, c)
    <3>1. i \in DOMAIN waiters' /\ waiters'[i] = waiters[i]
      BY <1>1, <2>1, <2>3, AppendProperties, LenProperties
    <3> QED BY <2>1, <3>1
  <2>4. CASE waiters # <<>> /\ waiters' = Tail(waiters) /\ Goto(Head(waiters), "check")
    <3>1. Head(waiters) = waiters[1] /\ Head(waiters) \in Calls
      BY <1>1, <2>4
    <3>2. Head(waiters) # d
      BY <1>1, <2>4, <3>1 DEF Goto
    <3>3. i \in 2..Len(waiters)
      BY <1>1, <2>1, <3>1, <3>2, LenProperties
    <3>4. i - 1 \in DOMAIN waiters' /\ waiters'[i - 1] = waiters[i]
      BY <1>1, <2>4, <3>3, HeadTailProperties, LenProperties
    <3> QED BY <2>1, <3>4
  <2> QED BY <2>2, <2>3, <2>4, WaitersWriters DEF Park, RouteAck, NotifyOne
<1> QED BY <1>2, <1>3, <1>4

-----------------------------------------------------------------------------
(* The stream: what was handed to the writer and not yet read.             *)

\* r is what is left of q when a beginning and an end of it are lost.
PartOf(r, q) ==
  \E k \in Nat : /\ k + Len(r) <= Len(q)
                 /\ \A i \in 1..Len(r) : r[i] = q[k + i]

\* Who adds to the stream: a call its next packet, the reader its answer.
Adds(p) ==
  \/ \E c \in Calls : \/ SendHeader(c) /\ p = Header(mno[c], rid[c])
                      \/ SendChunk(c) /\ p = Data(mno[c], ChunkLen(c))
                      \/ SendEof(c) /\ p = Eof(mno[c])
  \/ ReaderAnswers /\ p = answer

\* What is added is a packet.
LEMMA AddsPacket ==
  ASSUME Typed, NEW p, Adds(p)
  PROVE  p \in Packet
<1>1. \A c \in Calls : mno[c] \in Nat /\ rid[c] \in Nat /\ ChunkLen(c) \in Nat
  BY ChunkLenBound DEF Typed, TypeOK, CallTypes, Offsets, Progress
<1> QED BY <1>1, PacketTypes DEF Adds, Typed, TypeOK, ReaderTypes

\* A step of the client leaves the stream as it is, adds one packet, or drops
\* with the writer task what that had not written.
LEMMA ClientStream ==
  ASSUME Typed, ClientStep
  PROVE  \/ writer' = writer /\ Stream' = Stream
         \/ writer' = "ended" /\ c2s' = c2s /\ Stream' = c2s
         \/ \E p \in Packet : /\ Adds(p) /\ writer = "running" /\ writer' = "running"
                              /\ Stream' = Append(Stream, p)
<1>1. chan \in Seq(Packet) /\ c2s \in Seq(Packet)
  BY DEF Typed, TypeOK, WireTypes
<1>2. ASSUME NEW p \in Packet, Adds(p), writer = "running", writer' = writer,
             chan' = Append(chan, p), c2s' = c2s
      PROVE  /\ Adds(p) /\ writer = "running" /\ writer' = "running"
             /\ Stream' = Append(Stream, p)
  BY <1>1, <1>2, ConcatFacts DEF Stream
<1>3. CASE UNCHANGED <<writer, chan, c2s>>
  BY <1>3 DEF Stream
<1>4. CASE \E c \in Calls : SendHeader(c) \/ SendChunk(c) \/ SendEof(c)
  <2> PICK c \in Calls : SendHeader(c) \/ SendChunk(c) \/ SendEof(c)
    BY <1>4
  <2>1. PICK p : /\ Adds(p) /\ UNCHANGED <<writer, c2s>>
                 /\ \/ writer = "running" /\ chan' = Append(chan, p)
                    \/ UNCHANGED chan
    BY DEF SendHeader, SendChunk, SendEof, Enqueue, Adds
  <2> QED BY <1>2, <1>3, <2>1, AddsPacket
<1>5. CASE ReaderAnswers
  <2>1. /\ Adds(answer) /\ UNCHANGED <<writer, c2s>>
        /\ \/ writer = "running" /\ chan' = Append(chan, answer)
           \/ UNCHANGED chan
    BY <1>5 DEF ReaderAnswers, Adds
  <2> QED BY <1>2, <1>3, <2>1, AddsPacket
<1>6. CASE WriterSends
  BY <1>1, <1>6, ConcatFacts DEF WriterSends, Stream
<1>7. CASE WriterFails \/ DropHandle
  BY <1>1, <1>7, ConcatFacts DEF WriterFails, DropHandle, Stream
<1>8. CASE \E c \in Calls : Start(c)
  BY <1>3, <1>8 DEF Start
<1>9. CASE \E c \in Calls : CallStep(c)
             /\ ~(SendHeader(c) \/ SendChunk(c) \/ SendEof(c))
  BY <1>3, <1>9 DEF CallStep, TakeRequestId, TakeMsgNo, Register, Track,
     CheckClosed, CheckWindow, Park, CountSent, TakeResponse, TimeOut, Expire,
     Release, Unregister, Untrack
<1>10. CASE ReaderStep /\ ~ReaderAnswers
  BY <1>3, <1>10 DEF ReaderStep, Reads, RouteHeader, RouteData, RouteEof, RouteTxerr,
     RouteAck, RoutePing, RoutePong, RouteBad, ReaderEnds, DrainPending, SetClosed
<1> QED BY <1>4, <1>5, <1>6, <1>7, <1>8, <1>9, <1>10 DEF ClientStep, WriterStep

\* So whatever happens, the stream loses packets at its ends or gains one.
LEMMA StreamMoves ==
  ASSUME Typed, [Next]_vars
  PROVE  /\ Stream \in Seq(Packet)
         /\ \/ PartOf(Stream', Stream)
            \/ \E p \in Packet : Adds(p) /\ Stream' = Append(Stream, p)
<1>1. chan \in Seq(Packet) /\ c2s \in Seq(Packet) /\ Len(c2s) \in Nat /\ Len(chan) \in Nat
  BY LenProperties DEF Typed, TypeOK, WireTypes
<1>2. /\ Stream \in Seq(Packet) /\ Len(Stream) = Len(c2s) + Len(chan)
      /\ \A i \in 1..Len(c2s) : Stream[i] = c2s[i]
      /\ \A i \in 1..Len(chan) : Stream[Len(c2s) + i] = chan[i]
  BY <1>1, ConcatFacts DEF Stream
<1>3. CASE Stream' = Stream
  <2>1. Len(Stream) \in Nat
    BY <1>1, <1>2
  <2>2. /\ 0 \in Nat /\ 0 + Len(Stream) <= Len(Stream)
        /\ \A i \in 1..Len(Stream) : Stream[i] = Stream[0 + i]
    BY <2>1
  <2>3. PartOf(Stream, Stream)
    BY ONLY <2>2 DEF PartOf
  <2> QED BY <1>2, <1>3, <2>3
<1>4. CASE Stream' = c2s
  <2>1. /\ 0 \in Nat /\ 0 + Len(c2s) <= Len(Stream)
        /\ \A i \in 1..Len(c2s) : c2s[i] = Stream[0 + i]
    BY <1>1, <1>2
  <2>2. PartOf(c2s, Stream)
    BY ONLY <2>1 DEF PartOf
  <2> QED BY <1>2, <1>4, <2>2
<1>5. CASE PeerReads
  <2>1. c2s # <<>> /\ Stream' = Tail(Stream) /\ Stream # <<>>
    BY <1>1, <1>5, ConcatFacts DEF PeerReads, Stream
  <2>2. /\ Len(Stream') = Len(Stream) - 1 /\ Len(Stream) > 0
        /\ \A i \in 1..Len(Stream') : Stream'[i] = Stream[i + 1]
    BY <1>2, <2>1, HeadTailProperties, EmptySeq
  <2>3. 1 \in Nat /\ 1 + Len(Stream') <= Len(Stream)
    BY <1>1, <1>2, <2>2
  <2>4. \A i \in 1..Len(Stream') : Stream'[i] = Stream[1 + i]
    BY <1>1, <1>2, <2>2
  <2>5. PartOf(Stream', Stream)
    BY ONLY <2>3, <2>4 DEF PartOf
  <2> QED BY <1>2, <2>5
<1>6. CASE PeerCloses
  <2>1. Stream' = chan
    BY <1>1, <1>6, ConcatFacts DEF PeerCloses, Stream
  <2>2. /\ Len(c2s) \in Nat /\ Len(c2s) + Len(chan) <= Len(Stream)
        /\ \A i \in 1..Len(chan) : chan[i] = Stream[Len(c2s) + i]
    BY <1>1, <1>2
  <2>3. PartOf(chan, Stream)
    BY ONLY <2>2 DEF PartOf
  <2> QED BY <1>2, <2>1, <2>3
<1>7. CASE PeerSends \/ UNCHANGED vars
  BY <1>3, <1>7 DEF PeerSends, Stream
<1>8. CASE ClientStep
  BY <1>2, <1>3, <1>4, <1>8, ClientStream
<1> QED BY <1>2, <1>5, <1>6, <1>7, <1>8 DEF Next, PeerStep

\* A packet stays its call's, whatever happens.
LEMMA OwnedStays ==
  ASSUME Typed, IdsUnique, [Next]_vars, NEW p, NEW c \in Calls, IsOf(p, c)
  PROVE  IsOf(p, c)'
<1>1. HasNumber(c) /\ ~TakeMsgNo(c)
  BY DEF IsOf, HasNumber, TakeMsgNo, Numbered, Tracked
<1>2. HasNumber(c)' /\ mno'[c] = mno[c] /\ rid'[c] = rid[c]
  BY <1>1, NumbersStay
<1>3. <<pc[c], pc'[c]>> \in Edges \/ pc'[c] = pc[c]
  BY TypedPlaced, ControlFlow
<1>4. pc'[c] \notin {"register", "track", "header"}
  BY <1>1, <1>3 DEF Edges, IsOf, HasNumber, Numbered, Tracked
<1>5. pc[c] \in Answered => pc'[c] \in Answered
  BY <1>3 DEF Edges, Answered
<1> QED BY <1>2, <1>4, <1>5 DEF IsOf, Header, Eof

\* A request packet under the number of a call is that call's.
LEMMA OneOwner ==
  ASSUME MsgNosUnique, NEW p, NEW c \in Calls, NEW d \in Calls, HasNumber(c),
         IsOf(p, d), p.msgno = mno[c]
  PROVE  d = c
<1>1. HasNumber(d) /\ p.msgno = mno[d]
  BY DEF IsOf, Header, Eof
<1> QED BY <1>1 DEF MsgNosUnique

\* A call adds packets under its own number only, and its EOF last.
LEMMA OwnedAdded ==
  ASSUME Typed, IdsUnique, [Next]_vars, NEW p, Adds(p), Stream' # Stream,
         ~IsRequestPacket(answer)
  PROVE  IsRequestPacket(p) => \E c \in Calls : IsOf(p, c)'
<1>1. CASE ReaderAnswers /\ p = answer
  BY <1>1
<1>2. CASE \E c \in Calls : \/ SendHeader(c) /\ p = Header(mno[c], rid[c])
                            \/ SendChunk(c) /\ p = Data(mno[c], ChunkLen(c))
                            \/ SendEof(c) /\ p = Eof(mno[c])
  <2> PICK c \in Calls : \/ SendHeader(c) /\ p = Header(mno[c], rid[c])
                         \/ SendChunk(c) /\ p = Data(mno[c], ChunkLen(c))
                         \/ SendEof(c) /\ p = Eof(mno[c])
    BY <1>2
  <2>1. pc[c] \in {"header", "chunk", "eof"} /\ pc \in [Calls -> PCs]
    BY DEF SendHeader, SendChunk, SendEof, Typed, TypeOK, CallTypes
  <2>2. HasNumber(c)' /\ mno'[c] = mno[c] /\ rid'[c] = rid[c]
    BY <2>1, NumbersStay DEF HasNumber, TakeMsgNo, Numbered, Tracked
  <2>3. CASE UNCHANGED <<c2s, chan>>
    BY <2>3 DEF Stream
  <2>4. CASE SendHeader(c) /\ pc' = [pc EXCEPT ![c] = NextChunkOrEof(c)]
    BY <2>1, <2>2, <2>4 DEF SendHeader, SendChunk, SendEof, NextChunkOrEof, IsOf, Header
  <2>5. CASE SendChunk(c) /\ pc' = [pc EXCEPT ![c] = "count"]
    BY <2>1, <2>2, <2>5 DEF SendHeader, SendChunk, SendEof, IsOf, Data
  <2>6. CASE SendEof(c) /\ pc' = [pc EXCEPT ![c] = "await"]
    BY <2>1, <2>2, <2>6 DEF SendHeader, SendChunk, SendEof, IsOf, Eof, Answered
  <2> QED BY <2>3, <2>4, <2>5, <2>6 DEF SendHeader, SendChunk, SendEof, Enqueue, Goto
<1> QED BY <1>1, <1>2 DEF Adds

\* Every request packet in the stream keeps an owner.
LEMMA PacketsKept ==
  ASSUME Typed, IdsUnique, PacketsOwned, [Next]_vars
  PROVE  PacketsOwned'
<1>1. ~IsRequestPacket(answer)'
  <2>1. CASE UNCHANGED answer
    BY <2>1 DEF PacketsOwned, IsRequestPacket
  <2>2. CASE answer'.type \in {"ACK", "PONG"}
    BY <2>2 DEF IsRequestPacket
  <2>3. CASE RouteData \/ RoutePing \/ ReaderAnswers
    BY <2>1, <2>2, <2>3 DEF RouteData, RoutePing, ReaderAnswers, Ack, Pong, NoPacket
  <2> QED BY <2>1, <2>3, AnswerWriters
<1>2. CASE PartOf(Stream', Stream)
  <2>1. PICK k \in Nat : /\ k + Len(Stream') <= Len(Stream)
                         /\ \A i \in 1..Len(Stream') : Stream'[i] = Stream[k + i]
    BY <1>2 DEF PartOf
  <2>2. Stream' \in Seq(Packet) /\ Stream \in Seq(Packet)
    BY TypedKept, ConcatFacts DEF Stream, Typed, TypeOK, WireTypes
  <2>3. ASSUME NEW i \in DOMAIN Stream', IsRequestPacket(Stream[i])'
        PROVE  \E c \in Calls : IsOf(Stream[i], c)'
    <3>1. PICK p : p = Stream'[i]
      OBVIOUS
    <3>2. k + i \in DOMAIN Stream /\ p = Stream[k + i]
      BY <2>1, <2>2, <3>1, LenProperties
    <3>3. PICK c \in Calls : IsOf(p, c)
      BY <2>3, <3>1, <3>2 DEF PacketsOwned, IsRequestPacket
    <3>4. IsOf(p, c)'
      BY <3>3, OwnedStays
    <3> QED BY <3>1, <3>4 DEF IsOf
  <2> QED BY <1>1, <2>3 DEF PacketsOwned
<1>3. CASE \E p \in Packet : Adds(p) /\ Stream' = Append(Stream, p)
  <2> PICK p \in Packet : Adds(p) /\ Stream' = Append(Stream, p)
    BY <1>3
  <2>1. /\ Stream \in Seq(Packet) /\ Stream' # Stream
        /\ DOMAIN Stream' = DOMAIN Stream \cup {Len(Stream) + 1}
        /\ \A i \in DOMAIN Stream : Stream'[i] = Stream[i]
        /\ Stream'[Len(Stream) + 1] = p
    BY StreamMoves, LenProperties, AppendProperties
  <2>2. ASSUME NEW i \in DOMAIN Stream', IsRequestPacket(Stream[i])'
        PROVE  \E c \in Calls : IsOf(Stream[i], c)'
    <3>1. PICK q : q = Stream'[i]
      OBVIOUS
    <3>2. CASE i \in DOMAIN Stream
      <4>1. PICK c \in Calls : IsOf(q, c)
        BY <2>1, <2>2, <3>1, <3>2 DEF PacketsOwned, IsRequestPacket
      <4>2. IsOf(q, c)'
        BY <4>1, OwnedStays
      <4> QED BY <3>1, <4>2 DEF IsOf
    <3>3. CASE q = p
      <4>1. PICK c \in Calls : IsOf(p, c)'
        BY <2>1, <2>2, <3>1, <3>3, OwnedAdded DEF IsRequestPacket, PacketsOwned
      <4> QED BY <3>1, <3>3, <4>1 DEF IsOf
    <3> QED BY <2>1, <3>1, <3>2, <3>3
  <2> QED BY <1>1, <2>2 DEF PacketsOwned
<1> QED BY <1>2, <1>3, StreamMoves

-----------------------------------------------------------------------------
(* The theorems.                                                           *)

Inv == Typed /\ IInv

\* The invariant with the typing it needs is inductive.
LEMMA InvKept == Inv /\ [Next]_vars => Inv'
<1> SUFFICES ASSUME Inv, [Next]_vars PROVE Inv'
  OBVIOUS
<1>1. Typed' /\ IdsUnique' /\ MsgNosUnique' /\ PendingExact' /\ Windows'
  BY TypedKept, IdsKept, MsgNosKept, PendingKept, WindowsKept DEF Inv, IInv, Windows
<1>2. ParkedWait' /\ PacketsOwned'
  BY ParkedKept, PacketsKept DEF Inv, IInv
<1> QED BY <1>1, <1>2 DEF Inv, IInv, Windows, Typed

\* So it holds in every reachable state.
LEMMA InvHolds == Spec => []Inv
<1>1. Init => Inv
  BY InitTyped, InitInvariant DEF Inv
<1> QED BY <1>1, InvKept, PTL DEF Spec

\* Every call owns its request id, its message number and its entries in
\* pending and outgoing, which hold nothing else.
THEOREM OwnershipInvariant == Spec => []IInv
<1>1. Inv => IInv
  BY DEF Inv
<1> QED BY <1>1, InvHolds, PTL

\* The entries of pending and outgoing are those of calls that have not
\* returned, on every path out of send_request.
THEOREM NoLeak == Spec => []NothingLeaks
<1>1. Inv => NothingLeaks
  BY DEF Inv, IInv, PendingExact, OutgoingExact, NothingLeaks
<1> QED BY <1>1, InvHolds, PTL

\* A waiting call without a response can still be answered: it is in pending.
THEOREM WaitersReachable == Spec => []WaitersAreRegistered
<1>1. Inv => WaitersAreRegistered
  BY DEF Inv, IInv, PendingExact, WaitersAreRegistered, Registered
<1> QED BY <1>1, InvHolds, PTL

\* The bytes a call has handed out are a number.
LEMMA HandedType ==
  ASSUME Typed, NEW c \in Calls
  PROVE  Handed(c) \in Nat
<1>1. offset[c] \in Nat /\ len[c] \in Nat /\ offset[c] <= len[c]
  BY DEF Typed, TypeOK, CallTypes, Offsets, Progress
<1>2. ChunkLen(c) \in Nat
  BY <1>1, ChunkLenBound
<1> QED BY <1>1, <1>2 DEF Handed

\* The window of a call is bounded whenever the call has its entry.
LEMMA InvWindow == Inv => WindowBounded
<1>1. ASSUME Inv, NEW c \in Calls, pc[c] \in Tracked, mno[c] \in DOMAIN outgoing
      PROVE  /\ outgoing[mno[c]].acknowledged <= outgoing[mno[c]].sent
             /\ outgoing[mno[c]].sent <= Handed(c)
             /\ Handed(c) <= len[c]
             /\ Handed(c) - outgoing[mno[c]].acknowledged < Watermark + Chunk
  <2>1. /\ outgoing[mno[c]] \in [sent: Nat, acknowledged: Nat]
        /\ offset[c] \in Nat /\ len[c] \in Nat /\ offset[c] <= len[c]
    BY <1>1 DEF Inv, Typed, TypeOK, CallTypes, HandleTypes, Offsets, Progress
  <2>2. /\ ChunkLen(c) \in Nat /\ ChunkLen(c) <= Chunk
        /\ offset[c] + ChunkLen(c) <= len[c]
    BY <2>1, ChunkLenBound
  <2>3. WindowUse(c)
    BY <1>1 DEF Inv, IInv, WindowsUsed
  <2>4. outgoing[mno[c]].sent \in Nat /\ outgoing[mno[c]].acknowledged \in Nat
    BY <2>1
  <2>5. CASE pc[c] = "count"
    BY <1>1, <2>1, <2>2, <2>3, <2>4, <2>5 DEF WindowUse, Handed
  <2>6. CASE pc[c] # "count"
    BY <1>1, <2>1, <2>2, <2>3, <2>4, <2>6 DEF WindowUse, Handed
  <2> QED BY <2>5, <2>6
<1> QED BY <1>1 DEF WindowBounded

\* Flow control holds for every chunk size and watermark and any ACKs: less
\* than Watermark + Chunk bytes are handed out beyond the acknowledged ones.
THEOREM FlowControl == Spec => []WindowBounded
  BY InvWindow, InvHolds, PTL

\* The response handed to a call carries its request id.
LEMMA DeliverKeepsCorrelation ==
  ASSUME Inv, RepliesCorrelated, NEW response, NEW id, response.id = id,
         Deliver(id, response), UNCHANGED rid
  PROVE  RepliesCorrelated'
<1>1. CASE UNCHANGED slot
  BY <1>1 DEF RepliesCorrelated
<1>2. CASE id \in DOMAIN pending
  <2>1. slot' = [slot EXCEPT ![pending[id]] = response] /\ rid[pending[id]] = id
    BY <1>2 DEF Deliver, Inv, IInv, PendingExact
  <2>2. slot \in [Calls -> Responses]
    BY DEF Inv, Typed, TypeOK, CallTypes
  <2> QED BY <2>1, <2>2 DEF RepliesCorrelated
<1> QED BY <1>1, <1>2 DEF Deliver

\* No step puts a response into the slot of a call with another id.
LEMMA CorrelationKept ==
  ASSUME Inv, RepliesCorrelated, [Next]_vars
  PROVE  RepliesCorrelated'
<1>1. /\ slot \in [Calls -> Responses] /\ ReaderTypes /\ rid \in [Calls -> Nat]
      /\ \A d \in Calls : pc[d] = "id" => slot[d] = NoResponse
  BY DEF Inv, IInv, Typed, TypeOK, CallTypes, PendingExact
<1>2. CASE RouteEof
  <2> DEFINE m == incoming[Head(s2c).msgno]
  <2>1. UNCHANGED rid
    BY <1>2 DEF RouteEof, Reads
  <2>2. CASE UNCHANGED slot
    BY <2>1, <2>2 DEF RepliesCorrelated
  <2>3. CASE Head(s2c).msgno \in DOMAIN incoming /\ Deliver(m.id, ReplyOf(m))
    <3>1. ReplyOf(m).id = m.id
      BY <1>1, <2>3, ResponseTypes DEF ReaderTypes
    <3> QED BY <2>1, <2>3, <3>1, DeliverKeepsCorrelation
  <2> QED BY <1>2, <2>2, <2>3 DEF RouteEof
<1>3. CASE RouteTxerr
  <2> DEFINE m == incoming[Head(s2c).msgno]
  <2>1. UNCHANGED rid
    BY <1>3 DEF RouteTxerr, Reads
  <2>2. CASE UNCHANGED slot
    BY <2>1, <2>2 DEF RepliesCorrelated
  <2>3. CASE Head(s2c).msgno \in DOMAIN incoming /\ Deliver(m.id, TxerrOf(m))
    <3>1. TxerrOf(m).id = m.id
      BY <1>1, <2>3, ResponseTypes DEF ReaderTypes
    <3> QED BY <2>1, <2>3, <3>1, DeliverKeepsCorrelation
  <2> QED BY <1>3, <2>2, <2>3 DEF RouteTxerr
<1>4. CASE DrainPending
  <2>1. Lost.kind = "lost"
    BY DEF Lost
  <2> QED BY <1>1, <1>4, <2>1 DEF DrainPending, RepliesCorrelated
<1>5. CASE UNCHANGED slot
  <2>1. \A d \in Calls : pc[d] # "id" => rid'[d] = rid[d]
    BY <1>1, LocalsWriters DEF TakeRequestId
  <2>2. NoResponse.kind = "none"
    BY DEF NoResponse
  <2> QED BY <1>1, <1>5, <2>1, <2>2 DEF RepliesCorrelated
<1> QED BY <1>2, <1>3, <1>4, <1>5, SlotWriters

\* No call is ever handed a reply or an error meant for another request.
THEOREM Correlation == Spec => []RepliesCorrelated
<1>1. Init => RepliesCorrelated
  BY DEF Init, RepliesCorrelated, NoResponse
<1>2. Inv /\ RepliesCorrelated /\ [Next]_vars => RepliesCorrelated'
  BY CorrelationKept
<1> QED BY <1>1, <1>2, InvHolds, PTL DEF Spec

\* What a returned call holds is out of everybody's reach.
LEMMA ReturnedKept ==
  ASSUME Inv, [Next]_vars, NEW c \in Calls, pc[c] = "done"
  PROVE  pc'[c] = "done" /\ outcome'[c] = outcome[c] /\ slot'[c] = slot[c]
<1>1. /\ Placed /\ slot \in [Calls -> Responses] /\ outcome \in [Calls -> Outcomes]
      /\ \A id \in DOMAIN pending : pending[id] # c
  BY TypedPlaced DEF Inv, IInv, Typed, TypeOK, CallTypes, PendingExact, Registered
<1>2. pc'[c] = "done"
  BY <1>1, ControlFlow DEF Edges
<1>3. slot'[c] = slot[c]
  BY <1>1, SlotWriters DEF RouteEof, RouteTxerr, Deliver, DrainPending
<1>4. outcome'[c] = outcome[c]
  <2>1. CASE \E d \in Calls : Start(d) \/ CallStep(d)
    BY <1>1, <2>1 DEF Start, CallStep, TakeRequestId, TakeMsgNo, Register, Track,
       SendHeader, CheckClosed, CheckWindow, Park, SendChunk, CountSent, SendEof,
       TakeResponse, TimeOut, Expire, Release, Unregister, Untrack, Enqueue
  <2>2. CASE ReaderStep
    BY <2>2 DEF ReaderStep, Reads, RouteHeader, RouteData, RouteEof, RouteTxerr,
       RouteAck, RoutePing, RoutePong, RouteBad, ReaderAnswers, ReaderEnds,
       DrainPending, SetClosed
  <2>3. CASE WriterStep \/ DropHandle \/ PeerStep \/ UNCHANGED vars
    BY <2>3 DEF WriterStep, WriterSends, WriterFails, DropHandle, PeerStep,
       PeerReads, PeerSends, PeerCloses
  <2> QED BY <2>1, <2>2, <2>3 DEF Next, ClientStep
<1> QED BY <1>2, <1>3, <1>4

\* Once a call has returned, nothing that happens later changes its answer.
THEOREM Finality == Spec => ReturnedIsFinal
<1>1. Inv /\ [Next]_vars =>
        [\A c \in Calls : pc[c] = "done" =>
           /\ pc'[c] = "done"
           /\ outcome'[c] = outcome[c]
           /\ slot'[c] = slot[c]]_vars
  BY ReturnedKept
<1> QED BY <1>1, InvHolds, PTL DEF Spec, ReturnedIsFinal
\* What may stand before what in a message: PacketsInOrder for two packets.
Before(p, q) ==
  (IsRequestPacket(p) /\ IsRequestPacket(q) /\ p.msgno = q.msgno)
    => Rank(p) <= Rank(q) /\ (p.type = "DATA" \/ Rank(p) < Rank(q))

\* A packet is added after everything its message may have before it.
LEMMA AddedInOrder ==
  ASSUME Inv, NEW p \in Packet, Adds(p), NEW i \in DOMAIN Stream
  PROVE  Before(Stream[i], p)
<1> SUFFICES ASSUME IsRequestPacket(Stream[i]), IsRequestPacket(p), Stream[i].msgno = p.msgno
             PROVE  /\ Rank(Stream[i]) <= Rank(p)
                    /\ Stream[i].type = "DATA" \/ Rank(Stream[i]) < Rank(p)
  BY DEF Before
<1>1. PICK c \in Calls : \/ SendHeader(c) /\ p = Header(mno[c], rid[c])
                         \/ SendChunk(c) /\ p = Data(mno[c], ChunkLen(c))
                         \/ SendEof(c) /\ p = Eof(mno[c])
  BY DEF Adds, Inv, IInv, PacketsOwned
<1>2. PICK d \in Calls : IsOf(Stream[i], d)
  BY DEF Inv, IInv, PacketsOwned
<1>3. HasNumber(c) /\ pc[c] \in {"header", "chunk", "eof"} /\ p.msgno = mno[c]
  BY <1>1 DEF SendHeader, SendChunk, SendEof, HasNumber, Numbered, Tracked, Header, Data, Eof
<1>4. d = c
  BY <1>2, <1>3, OneOwner DEF Inv, IInv
<1>5. pc[c] # "header" /\ ~(pc[c] \in Answered)
  BY <1>2, <1>3, <1>4 DEF IsOf, Answered
<1>6. Stream[i].type \in {"HEADER", "DATA"} /\ p.type \in {"DATA", "EOF"}
  BY <1>1, <1>2, <1>4, <1>5 DEF IsOf, SendHeader, Header, Data, Eof
<1>7. /\ Stream[i].type = "HEADER" => Rank(Stream[i]) = 0
      /\ Stream[i].type = "DATA" => Rank(Stream[i]) = 1
      /\ p.type = "DATA" => Rank(p) = 1
      /\ p.type = "EOF" => Rank(p) = 2
  BY DEF Rank
<1> QED BY <1>6, <1>7

\* Losing packets at the ends does not disturb the order of the rest.
LEMMA OrderKept ==
  ASSUME Inv, PacketsInOrder, [Next]_vars
  PROVE  PacketsInOrder'
<1>1. Stream \in Seq(Packet) /\ Stream' \in Seq(Packet)
  BY InvKept, ConcatFacts DEF Stream, Inv, Typed, TypeOK, WireTypes
<1>2. \A i, j \in DOMAIN Stream : i < j => Before(Stream[i], Stream[j])
  BY DEF PacketsInOrder, Before
<1>3. SUFFICES ASSUME NEW i \in DOMAIN Stream', NEW j \in DOMAIN Stream', i < j
               PROVE  Before(Stream'[i], Stream'[j])
  BY <1>3 DEF PacketsInOrder, Before, IsRequestPacket, Rank
<1>4. CASE PartOf(Stream', Stream)
  <2>1. PICK k \in Nat : /\ k + Len(Stream') <= Len(Stream)
                         /\ \A n \in 1..Len(Stream') : Stream'[n] = Stream[k + n]
    BY <1>4 DEF PartOf
  <2>2. /\ k + i \in DOMAIN Stream /\ k + j \in DOMAIN Stream /\ k + i < k + j
        /\ Stream'[i] = Stream[k + i] /\ Stream'[j] = Stream[k + j]
    BY <1>1, <1>3, <2>1, LenProperties
  <2> QED BY <1>2, <2>2
<1>5. CASE \E p \in Packet : Adds(p) /\ Stream' = Append(Stream, p)
  <2> PICK p \in Packet : Adds(p) /\ Stream' = Append(Stream, p)
    BY <1>5
  <2>1. /\ Len(Stream) \in Nat /\ DOMAIN Stream = 1..Len(Stream)
        /\ DOMAIN Stream' = 1..Len(Stream) + 1
        /\ \A n \in DOMAIN Stream : Stream'[n] = Stream[n]
        /\ Stream'[Len(Stream) + 1] = p
    BY <1>1, LenProperties, AppendProperties
  <2>2. i \in DOMAIN Stream /\ Stream'[i] = Stream[i]
    BY <1>3, <2>1
  <2>3. CASE j \in DOMAIN Stream
    BY <1>2, <1>3, <2>1, <2>2, <2>3
  <2>4. CASE j = Len(Stream) + 1
    BY <2>1, <2>2, <2>4, AddedInOrder
  <2> QED BY <2>1, <2>3, <2>4
<1> QED BY <1>4, <1>5, StreamMoves DEF Inv

\* The packets of a message leave in order, whatever other calls and the reader
\* send in between, up to the end of the connection.
THEOREM Ordered == Spec => []PacketsInOrder
<1>1. Init => PacketsInOrder
  BY ConcatEmptySeq DEF Init, PacketsInOrder, Stream
<1>2. Inv /\ PacketsInOrder /\ [Next]_vars => PacketsInOrder'
  BY OrderKept
<1> QED BY <1>1, <1>2, InvHolds, PTL DEF Spec

\* A call on its own keeps its wake-up through one step.
WakeUp(c) ==
  Alone(c) => /\ (pc[c] = "park" /\ ~OverWatermark(c)) => permit
              /\ pc[c] = "parked" => OverWatermark(c)

LEMMA WakeUpKept ==
  ASSUME Inv, [Next]_vars, NEW c \in Calls, WakeUp(c)
  PROVE  WakeUp(c)'
<1>1. Placed /\ pc \in [Calls -> PCs] /\ waiters \in Seq(Calls)
  BY TypedPlaced DEF Inv, Placed
<1> SUFFICES ASSUME Alone(c)'
             PROVE  /\ (pc'[c] = "park" /\ ~OverWatermark(c)') => permit'
                    /\ pc'[c] = "parked" => OverWatermark(c)'
  BY DEF WakeUp
<1>2. Alone(c)
  BY <1>1, ControlFlow DEF Alone, Edges
<1>3. CASE RouteAck
  <2>1. CASE UNCHANGED <<outgoing, permit, pc>>
    <3>1. OverWatermark(c)' <=> OverWatermark(c)
      BY <1>3, <2>1 DEF OverWatermark, RouteAck, Reads
    <3> QED BY <1>2, <2>1, <3>1 DEF WakeUp
  <2>2. CASE NotifyOne
    <3>1. CASE waiters = <<>>
      <4>1. permit' = TRUE /\ pc' = pc
        BY <2>2, <3>1 DEF NotifyOne
      <4>2. pc[c] # "parked"
        BY <3>1 DEF Inv, IInv, ParkedWait
      <4> QED BY <4>1, <4>2
    <3>2. CASE waiters # <<>>
      <4>1. /\ Head(waiters) \in Calls /\ pc[Head(waiters)] = "parked"
            /\ pc' = [pc EXCEPT ![Head(waiters)] = "check"]
        BY <1>1, <2>2, <3>2 DEF NotifyOne, Goto, Placed, WaitersParked
      <4>2. Head(waiters) = c
        BY <1>2, <4>1 DEF Alone
      <4> QED BY <1>1, <4>1, <4>2
    <3> QED BY <3>1, <3>2
  <2> QED BY <1>3, <2>1, <2>2 DEF RouteAck
<1>4. CASE ~RouteAck
  <2>1. \A d \in Calls : (pc[d] = "idle" /\ d # c) => ~Start(d) /\ ~CallStep(d)
    <3> SUFFICES ASSUME NEW d \in Calls, pc[d] = "idle", d # c PROVE ~Start(d) /\ ~CallStep(d)
      OBVIOUS
    <3>1. ~CallStep(d)
      BY DEF CallStep, TakeRequestId, TakeMsgNo, Register, Track, SendHeader,
         CheckClosed, CheckWindow, Park, SendChunk, CountSent, SendEof,
         TakeResponse, TimeOut, Expire, Release, Unregister, Untrack
    <3>2. ~Start(d)
      BY <1>1 DEF Start, Goto, Alone
    <3> QED BY <3>1, <3>2
  <2>2. CASE Start(c) \/ CallStep(c)
    <3>1. CASE CheckWindow(c)
      <4>1. OverWatermark(c)' <=> OverWatermark(c)
        BY <3>1 DEF OverWatermark, CheckWindow
      <4> QED BY <1>1, <3>1, <4>1 DEF CheckWindow, Goto
    <3>2. CASE Park(c)
      <4>1. OverWatermark(c)' <=> OverWatermark(c)
        BY <3>2 DEF OverWatermark, Park
      <4>2. permit \/ OverWatermark(c)
        BY <1>2, <3>2 DEF WakeUp, Park
      <4> QED BY <1>1, <3>2, <4>1, <4>2 DEF Park, Goto
    <3>3. CASE ~CheckWindow(c) /\ ~Park(c)
      <4>1. pc'[c] \notin {"park", "parked"}
        BY <1>1, <2>2, <3>3
        DEF Start, CallStep, TakeRequestId, TakeMsgNo, Register, Track, SendHeader,
            CheckClosed, SendChunk, CountSent, SendEof, TakeResponse, TimeOut,
            Expire, Release, Unregister, Untrack, Enqueue, NextChunkOrEof, Goto
      <4> QED BY <4>1
    <3> QED BY <3>1, <3>2, <3>3
  <2>3. CASE ~\E d \in Calls : Start(d) \/ CallStep(d)
    <3>1. UNCHANGED <<pc, mno, permit, outgoing>>
      <4>1. CASE ReaderStep
        BY <1>4, <4>1 DEF ReaderStep, Reads, RouteHeader, RouteData, RouteEof,
           RouteTxerr, RoutePing, RoutePong, RouteBad, ReaderAnswers, ReaderEnds,
           DrainPending, SetClosed
      <4>2. CASE WriterStep \/ DropHandle \/ PeerStep \/ UNCHANGED vars
        BY <4>2 DEF WriterStep, WriterSends, WriterFails, DropHandle, PeerStep,
           PeerReads, PeerSends, PeerCloses
      <4> QED BY <2>3, <4>1, <4>2 DEF Next, ClientStep
    <3>2. OverWatermark(c)' <=> OverWatermark(c)
      BY <3>1 DEF OverWatermark
    <3> QED BY <1>2, <3>1, <3>2 DEF WakeUp
  <2>4. \A d \in Calls : d # c => pc[d] = "idle"
    BY <1>2 DEF Alone
  <2> QED BY <2>1, <2>2, <2>3, <2>4
<1> QED BY <1>3, <1>4

\* A call alone on its connection is not left waiting once an ACK has opened its
\* window, in whatever order the look, the ACK and the wait come.
THEOREM WokenUp == Spec => []NoLostWakeup
<1> DEFINE Woken == \A c \in Calls : WakeUp(c)
<1>1. Init => Woken
  BY DEF Init, WakeUp
<1>2. Inv /\ Woken /\ [Next]_vars => Woken'
  BY WakeUpKept
<1>3. Woken => NoLostWakeup
  BY DEF WakeUp, NoLostWakeup
<1> QED BY <1>1, <1>2, <1>3, InvHolds, PTL DEF Spec

-----------------------------------------------------------------------------
(* The refinement.                                                         *)

\* An empty slot looks empty: its kind tells.
SlotsMarked == \A c \in Calls : slot[c].kind = "none" => slot[c] = NoResponse

\* What the mapping needs to know of a state.
Ready == Inv /\ RepliesCorrelated /\ SlotsMarked /\ OutcomeTruthful

\* A slot is written at most once.
LEMMA SlotOnce ==
  ASSUME Inv, [Next]_vars, NEW c \in Calls, slot[c] # NoResponse
  PROVE  slot'[c] = slot[c]
<1>1. /\ slot \in [Calls -> Responses]
      /\ \A i \in DOMAIN pending : pending[i] # c
  BY DEF Inv, IInv, Typed, TypeOK, CallTypes, PendingExact
<1> QED BY <1>1, SlotWriters DEF RouteEof, RouteTxerr, Deliver, DrainPending

\* Delivering a marked response keeps the slots marked.
LEMMA DeliverMarks ==
  ASSUME Inv, SlotsMarked, NEW i, NEW response, response.kind # "none",
         Deliver(i, response)
  PROVE  SlotsMarked'
<1>1. slot \in [Calls -> Responses] /\ \A k \in DOMAIN pending : pending[k] \in Calls
  BY DEF Inv, Typed, TypeOK, CallTypes, HandleTypes
<1> QED BY <1>1 DEF Deliver, SlotsMarked

\* The reader puts marked responses into the slots.
LEMMA MarksKept ==
  ASSUME Inv, SlotsMarked, [Next]_vars
  PROVE  SlotsMarked'
<1>1. slot \in [Calls -> Responses]
  BY DEF Inv, Typed, TypeOK, CallTypes
<1>2. CASE RouteEof
  BY <1>2, DeliverMarks DEF RouteEof, ReplyOf, SlotsMarked
<1>3. CASE RouteTxerr
  BY <1>3, DeliverMarks DEF RouteTxerr, TxerrOf, SlotsMarked
<1>4. CASE DrainPending
  BY <1>1, <1>4 DEF DrainPending, Lost, SlotsMarked
<1> QED BY <1>2, <1>3, <1>4, SlotWriters DEF SlotsMarked

\* The outcome of a call is written by the call itself.
LEMMA OutcomeWriters ==
  ASSUME Inv, [Next]_vars, NEW c \in Calls
  PROVE  \/ outcome'[c] = outcome[c]
         \/ Start(c) \/ CheckClosed(c) \/ TakeResponse(c) \/ TimeOut(c)
         \/ SendHeader(c) \/ SendChunk(c) \/ SendEof(c)
<1>1. outcome \in [Calls -> Outcomes]
  BY DEF Inv, Typed, TypeOK, CallTypes
<1>2. CASE \E d \in Calls : Start(d) \/ CallStep(d)
  BY <1>1, <1>2 DEF Start, CallStep, TakeRequestId, TakeMsgNo, Register, Track,
     SendHeader, CheckClosed, CheckWindow, Park, SendChunk, CountSent, SendEof,
     TakeResponse, TimeOut, Expire, Release, Unregister, Untrack, Enqueue
<1>3. CASE ReaderStep
  BY <1>3 DEF ReaderStep, Reads, RouteHeader, RouteData, RouteEof, RouteTxerr,
     RouteAck, RoutePing, RoutePong, RouteBad, ReaderAnswers, ReaderEnds,
     DrainPending, SetClosed
<1>4. CASE WriterStep \/ DropHandle \/ PeerStep \/ UNCHANGED vars
  BY <1>4 DEF WriterStep, WriterSends, WriterFails, DropHandle, PeerStep,
     PeerReads, PeerSends, PeerCloses
<1> QED BY <1>2, <1>3, <1>4 DEF Next, ClientStep

\* A call that leaves the body of send_request has just set its outcome, and
\* keeps it until it returns.
LEMMA OutcomesKept ==
  ASSUME Inv, OutcomeTruthful, [Next]_vars
  PROVE  OutcomeTruthful'
<1> SUFFICES ASSUME NEW c \in Calls
             PROVE /\ pc'[c] = "expire" => outcome'[c] = "timeout"
                   /\ pc'[c] = "release" =>
                        \/ outcome'[c] = "timeout"
                        \/ slot'[c] # NoResponse /\ outcome'[c] = slot'[c].kind
                   /\ pc'[c] \in {"unregister", "untrack"}
                        => outcome'[c] \in {"sendfail", "flowclosed"}
  BY DEF OutcomeTruthful
<1>1. /\ Placed /\ pc \in [Calls -> PCs] /\ outcome \in [Calls -> Outcomes]
  BY TypedPlaced DEF Inv, Typed, TypeOK, CallTypes
<1>2. CASE Start(c) \/ CallStep(c)
  BY <1>1, <1>2, SlotOnce
  DEF OutcomeTruthful, Start, CallStep, TakeRequestId, TakeMsgNo, Register, Track,
      SendHeader, CheckClosed, CheckWindow, Park, SendChunk, CountSent, SendEof,
      TakeResponse, TimeOut, Expire, Release, Unregister, Untrack, Enqueue,
      NextChunkOrEof, Goto
<1>3. CASE ~(Start(c) \/ CallStep(c)) /\ pc'[c] = pc[c]
  <2>1. outcome'[c] = outcome[c]
    BY <1>3, OutcomeWriters DEF CallStep
  <2> QED BY <1>3, <2>1, SlotOnce DEF OutcomeTruthful
<1> QED BY <1>1, <1>2, <1>3, CallMoves

\* The mapping's assumptions hold throughout.
LEMMA ReadyHolds == Spec => []Ready
<1>1. Init => RepliesCorrelated /\ SlotsMarked /\ OutcomeTruthful
  BY DEF Init, RepliesCorrelated, SlotsMarked, OutcomeTruthful, NoResponse
<1>2. /\ Inv /\ RepliesCorrelated /\ SlotsMarked /\ OutcomeTruthful /\ [Next]_vars
      => RepliesCorrelated' /\ SlotsMarked' /\ OutcomeTruthful'
  BY CorrelationKept, MarksKept, OutcomesKept
<1> QED BY <1>1, <1>2, InvHolds, PTL DEF Spec, Ready

-----------------------------------------------------------------------------
(* The steps.                                                              *)

\* A step that moves no call in or out of send_request and fills no slot is
\* none for the callers.
LEMMA StutterStep ==
  ASSUME Ready, [Next]_vars, UNCHANGED <<rid, next_request_id, slot>>,
         \A c \in Calls : CallState(c)' = CallState(c)
  PROVE  UNCHANGED Rpc!vars
<1>1. \A c \in Calls : (pc'[c] = "done") = (pc[c] = "done")
  BY DEF CallState
<1>2. \A c \in Calls : pc[c] = "done" => outcome'[c] = outcome[c]
  BY ReturnedKept DEF Ready
<1> QED BY <1>1, <1>2 DEF Rpc!vars

\* A response from the peer answers one active call, which had no answer.
LEMMA DeliverAnswers ==
  ASSUME Ready, [Next]_vars, UNCHANGED <<pc, rid, next_request_id, outcome>>,
         NEW i, NEW response \in Responses, response.kind \in {"reply", "txerr"},
         response.id = i, i \in DOMAIN pending, Deliver(i, response)
  PROVE  Rpc!Next
<1> PICK e \in Calls : e = pending[i]
  BY DEF Ready, Inv, Typed, TypeOK, HandleTypes
<1>1. /\ rid[e] = i /\ pc[e] \in Registered /\ slot[e] = NoResponse
      /\ slot \in [Calls -> Responses]
  BY DEF Ready, Inv, IInv, PendingExact, Typed, TypeOK, HandleTypes, CallTypes
<1>2. slot' = [slot EXCEPT ![e] = response]
  BY DEF Deliver
<1>3. CallState(e) = "active" /\ \A c \in Calls : CallState(c)' = CallState(c)
  BY <1>1 DEF CallState, Registered
<1>4. [c \in Calls |-> [kind |-> slot'[c].kind, id |-> slot'[c].id]]
        = [[c \in Calls |-> [kind |-> slot[c].kind, id |-> slot[c].id]]
             EXCEPT ![e] = [kind |-> response.kind, id |-> rid[e]]]
  BY <1>1, <1>2
<1>5. [kind |-> slot[e].kind, id |-> slot[e].id] = Rpc!None
  BY <1>1 DEF NoResponse, Rpc!None
<1>6. Rpc!Answer(e)
  <2>1. [c \in Calls |-> CallState(c)'] = [c \in Calls |-> CallState(c)]
    BY <1>3
  <2>2. [c \in Calls |-> IF pc'[c] = "done" THEN outcome'[c] ELSE "none"]
          = [c \in Calls |-> IF pc[c] = "done" THEN outcome[c] ELSE "none"]
    OBVIOUS
  <2>3. [c \in Calls |-> CallState(c)][e] = "active"
    BY <1>3
  <2>4. [c \in Calls |-> [kind |-> slot[c].kind, id |-> slot[c].id]][e] = Rpc!None
    BY <1>5
  <2>5. rid' = rid /\ next_request_id' = next_request_id
    OBVIOUS
  <2> QED BY ONLY <1>4, <2>1, <2>2, <2>3, <2>4, <2>5, response.kind \in {"reply", "txerr"}
          DEF Rpc!Answer
<1> QED BY <1>1, <1>6 DEF Rpc!Next

\* An EOF or a TXERR of the peer is an answer or nothing.
LEMMA RouteAnswers ==
  ASSUME Ready, [Next]_vars, RouteEof \/ RouteTxerr
  PROVE  [Rpc!Next]_(Rpc!vars)
<1> DEFINE m == incoming[Head(s2c).msgno]
<1>1. UNCHANGED <<pc, rid, next_request_id, outcome>>
  BY DEF RouteEof, RouteTxerr, Reads
<1>2. \A c \in Calls : CallState(c)' = CallState(c)
  BY <1>1 DEF CallState
<1>3. CASE UNCHANGED slot
  BY <1>1, <1>2, <1>3, StutterStep
<1>4. CASE /\ Head(s2c).msgno \in DOMAIN incoming /\ m.id \in DOMAIN pending
           /\ Deliver(m.id, ReplyOf(m)) \/ Deliver(m.id, TxerrOf(m))
  <2>1. /\ ReplyOf(m) \in Responses /\ ReplyOf(m).id = m.id
        /\ TxerrOf(m) \in Responses /\ TxerrOf(m).id = m.id
    BY <1>4, ResponseTypes DEF Ready, Inv, Typed, TypeOK, ReaderTypes
  <2>2. ReplyOf(m).kind = "reply" /\ TxerrOf(m).kind = "txerr"
    BY DEF ReplyOf, TxerrOf
  <2>3. CASE Deliver(m.id, ReplyOf(m))
    BY <1>1, <1>4, <2>1, <2>2, <2>3, DeliverAnswers
  <2>4. CASE Deliver(m.id, TxerrOf(m))
    BY <1>1, <1>4, <2>1, <2>2, <2>4, DeliverAnswers
  <2> QED BY <1>4, <2>3, <2>4
<1> QED BY <1>3, <1>4 DEF RouteEof, RouteTxerr, Deliver

\* Draining pending tells all calls without an answer at once.
LEMMA DrainLoses ==
  ASSUME Ready, [Next]_vars, DrainPending
  PROVE  Rpc!Lose
<1> DEFINE S == {c \in Calls : \E i \in DOMAIN pending : pending[i] = c}
<1>1. UNCHANGED <<pc, rid, next_request_id, outcome>>
  BY DEF DrainPending
<1>2. \A c \in S : slot[c] = NoResponse /\ CallState(c) = "active"
  BY DEF Ready, Inv, IInv, PendingExact, CallState, Registered
<1>3. \A c \in Calls : slot'[c] = IF c \in S THEN Lost ELSE slot[c]
  BY DEF DrainPending
<1>4. \A c \in Calls : CallState(c)' = CallState(c)
  BY <1>1 DEF CallState
<1> DEFINE states == [c \in Calls |-> CallState(c)]
           answers == [c \in Calls |-> [kind |-> slot[c].kind, id |-> slot[c].id]]
           results == [c \in Calls |-> IF pc[c] = "done" THEN outcome[c] ELSE "none"]
<1>5. S \subseteq Calls /\ \A c \in S : states[c] = "active" /\ answers[c] = Rpc!None
  BY <1>2 DEF NoResponse, Rpc!None
<1>6. answers' = [c \in Calls |-> IF c \in S THEN Rpc!LostAnswer ELSE answers[c]]
  BY <1>3 DEF Rpc!LostAnswer, Lost
<1>7. UNCHANGED <<states, rid, next_request_id, results>>
  BY <1>1, <1>4
<1> HIDE DEF S, states, answers, results
<1>8. S \in SUBSET {c \in Calls : states[c] = "active" /\ answers[c] = Rpc!None}
  BY <1>5
<1>9. \E T \in SUBSET {c \in Calls : states[c] = "active" /\ answers[c] = Rpc!None} :
        answers' = [c \in Calls |-> IF c \in T THEN Rpc!LostAnswer ELSE answers[c]]
  BY <1>6, <1>8
<1> QED BY <1>7, <1>9 DEF Rpc!Lose, states, answers, results

\* A call begins, is refused, returns, or goes on.
LEMMA CallRefines ==
  ASSUME Ready, [Next]_vars, NEW c \in Calls, Start(c) \/ CallStep(c)
  PROVE  [Rpc!Next]_(Rpc!vars)
<1>1. /\ pc \in [Calls -> PCs] /\ outcome \in [Calls -> Outcomes]
      /\ rid \in [Calls -> Nat] /\ OutcomeTruthful /\ SlotsMarked
      /\ slot \in [Calls -> Responses]
  BY DEF Ready, Inv, Typed, TypeOK, CallTypes
<1>2. CASE Start(c) /\ closed
  <2>1. /\ CallState(c) = "new" /\ CallState(c)' = "returned"
        /\ \A d \in Calls : d # c => CallState(d)' = CallState(d)
    BY <1>1, <1>2 DEF Start, Goto, CallState
  <2>2. /\ pc'[c] = "done" /\ outcome'[c] = "refused"
        /\ \A d \in Calls : d # c => pc'[d] = pc[d] /\ outcome'[d] = outcome[d]
        /\ UNCHANGED <<rid, next_request_id, slot>>
    BY <1>1, <1>2 DEF Start, Goto
  <2>3. Rpc!Refuse(c)
    BY <2>1, <2>2 DEF Rpc!Refuse
  <2> QED BY <2>3 DEF Rpc!Next
<1>3. CASE TakeRequestId(c)
  <2>1. /\ CallState(c) = "new" /\ CallState(c)' = "active"
        /\ \A d \in Calls : d # c => CallState(d)' = CallState(d)
    BY <1>1, <1>3 DEF TakeRequestId, Goto, CallState
  <2>2. /\ pc[c] # "done" /\ pc'[c] # "done"
        /\ \A d \in Calls : d # c => pc'[d] = pc[d]
        /\ rid' = [rid EXCEPT ![c] = next_request_id]
        /\ next_request_id' = next_request_id + 1
        /\ UNCHANGED <<slot, outcome>>
    BY <1>1, <1>3 DEF TakeRequestId, Goto
  <2>3. Rpc!Begin(c)
    BY <2>1, <2>2 DEF Rpc!Begin
  <2> QED BY <2>3 DEF Rpc!Next
<1>4. CASE Release(c) \/ Untrack(c)
  <2>1. /\ CallState(c) = "active" /\ CallState(c)' = "returned"
        /\ \A d \in Calls : d # c => CallState(d)' = CallState(d)
    BY <1>1, <1>4 DEF Release, Untrack, Goto, CallState
  <2>2. /\ pc[c] # "done" /\ pc'[c] = "done"
        /\ \A d \in Calls : d # c => pc'[d] = pc[d]
        /\ UNCHANGED <<slot, outcome, rid, next_request_id>>
    BY <1>1, <1>4 DEF Release, Untrack, Goto
  <2>3. \/ outcome[c] \in {"timeout", "sendfail", "flowclosed"}
        \/ slot[c].kind # "none" /\ outcome[c] = slot[c].kind
    BY <1>1, <1>4 DEF Release, Untrack, OutcomeTruthful, SlotsMarked
  <2>4. Rpc!Return(c)
    BY <2>1, <2>2, <2>3 DEF Rpc!Return, Rpc!None
  <2> QED BY <2>4 DEF Rpc!Next
<1>5. CASE \/ Start(c) /\ ~closed
           \/ CallStep(c) /\ ~TakeRequestId(c) /\ ~Release(c) /\ ~Untrack(c)
  <2>1. UNCHANGED <<rid, next_request_id, slot>>
    BY <1>5 DEF Start, CallStep, TakeMsgNo, Register, Track, SendHeader, CheckClosed,
       CheckWindow, Park, SendChunk, CountSent, SendEof, TakeResponse, TimeOut,
       Expire, Unregister, Enqueue
  <2>2. \A d \in Calls : CallState(d)' = CallState(d)
    BY <1>1, <1>5 DEF Start, CallStep, TakeMsgNo, Register, Track, SendHeader,
       CheckClosed, CheckWindow, Park, SendChunk, CountSent, SendEof, TakeResponse,
       TimeOut, Expire, Unregister, Enqueue, NextChunkOrEof, Goto, CallState
  <2> QED BY <2>1, <2>2, StutterStep
<1> QED BY <1>2, <1>3, <1>4, <1>5

\* Everything else happens out of the callers' sight.
LEMMA OtherRefines ==
  ASSUME Ready, [Next]_vars, ~DrainPending, ~RouteEof, ~RouteTxerr,
         ~\E c \in Calls : Start(c) \/ CallStep(c)
  PROVE  UNCHANGED Rpc!vars
<1>1. UNCHANGED <<rid, next_request_id, slot>>
  BY SlotWriters, LocalsWriters DEF CallStep
<1>2. Placed
  BY TypedPlaced DEF Ready, Inv
<1>3. \A c \in Calls : CallState(c)' = CallState(c)
  BY <1>2, CallMoves DEF CallState
<1> QED BY <1>1, <1>3, StutterStep

\* The callers of send_request see what RpcCalls promises, whatever the peer
\* does and however the tasks of the connection interleave.
THEOREM Refinement == Spec => ImplementsRpcCalls
<1>1. Init => Rpc!Init
  BY DEF Init, Rpc!Init, Rpc!None, CallState, NoResponse
<1>2. Ready /\ [Next]_vars => [Rpc!Next]_(Rpc!vars)
  <2> SUFFICES ASSUME Ready, [Next]_vars PROVE [Rpc!Next]_(Rpc!vars)
    OBVIOUS
  <2>1. CASE DrainPending
    BY <2>1, DrainLoses DEF Rpc!Next
  <2>2. CASE RouteEof \/ RouteTxerr
    BY <2>2, RouteAnswers
  <2>3. CASE \E c \in Calls : Start(c) \/ CallStep(c)
    BY <2>3, CallRefines
  <2>4. CASE ~DrainPending /\ ~RouteEof /\ ~RouteTxerr
             /\ ~\E c \in Calls : Start(c) \/ CallStep(c)
    BY <2>4, OtherRefines
  <2> QED BY <2>1, <2>2, <2>3, <2>4
<1> QED BY <1>1, <1>2, ReadyHolds, PTL DEF Spec, ImplementsRpcCalls, Rpc!Spec
=============================================================================
