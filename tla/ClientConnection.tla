--------------------------- MODULE ClientConnection ---------------------------
(***************************************************************************)
(* One client connection: ConnectionHandle of                              *)
(* transport/beepish/client/connection.rs with its reader task             *)
(* (client/reader.rs) and its writer task, and any number of calls of      *)
(* send_request running on it at the same time.                            *)
(*                                                                         *)
(* A call is a process; its pc names the line it is about to execute, and  *)
(* there is one step per await or per atomic operation of the code, since  *)
(* the tasks run on a multi-threaded executor.  Critical sections of the   *)
(* two maps hold no await and are one step.  Body lengths are in units of  *)
(* bytes; Chunk and Watermark are DATA_CHUNK_SIZE and                      *)
(* FLOW_CONTROL_WATERMARK in that unit.                                    *)
(*                                                                         *)
(* The peer is not assumed to follow the protocol: it reads, sends any     *)
(* packet of PeerPackets at any time, and closes when it likes.  Module    *)
(* BeepishLink replaces it by the server of this repository.               *)
(*                                                                         *)
(* A definition named ...Mutant is the definition after it with a bug; it  *)
(* is used by no other, and shows which property notices.                  *)
(***************************************************************************)
EXTENDS Integers, Sequences, HashMap, BeepishPacket

CONSTANTS
  Calls,        \* the invocations of send_request on this connection
  Bodies,       \* the lengths a request body may have
  Chunk,        \* DATA_CHUNK_SIZE
  Watermark,    \* FLOW_CONTROL_WATERMARK
  ChanCap,      \* capacity of the mpsc channel to the writer task (256)
  PipeCap,      \* packets a direction of the byte stream can hold
  PeerPackets,  \* what the peer may send
  MaxReply      \* bound on the bytes the peer sends under one message number

ASSUME ClientAssumption ==
  /\ Bodies \subseteq Nat /\ MaxReply \in Nat
  /\ Chunk \in Nat \ {0} /\ Watermark \in Nat \ {0}
  /\ ChanCap \in Nat \ {0} /\ PipeCap \in Nat \ {0}
  /\ PeerPackets \subseteq Packet

VARIABLES
  \* the locals of each call
  pc, rid, mno, len, offset, outcome,
  \* the oneshot channel of each call: what the reader sent into it
  slot,
  \* the fields of ConnectionHandle
  next_request_id, next_outgoing_msg_no, pending, outgoing, closed,
  \* ack_notify: the stored permit, and the waiting calls in arrival order
  permit, waiters,
  \* the reader task: its place, the packet it is sending, its locals
  reader, answer, incoming, next_incoming_msg_no,
  \* the writer task, the channel into it, and the byte stream
  writer, chan, c2s, s2c, peerClosed

callVars   == <<pc, rid, mno, len, offset, outcome>>
countVars  == <<next_request_id, next_outgoing_msg_no>>
notifyVars == <<permit, waiters>>
readerVars == <<reader, answer, incoming, next_incoming_msg_no>>
wireVars   == <<writer, chan, c2s, s2c, peerClosed>>
vars == <<callVars, slot, countVars, pending, outgoing, closed, notifyVars,
          readerVars, wireVars>>

-----------------------------------------------------------------------------
\* What a response slot can hold: nothing yet, or what the reader sent.
NoResponse == [kind |-> "none", id |-> 0, n |-> 0]
Lost       == [kind |-> "lost", id |-> 0, n |-> 0]
ReplyOf(m)  == [kind |-> "reply", id |-> m.id, n |-> m.received]
TxerrOf(m)  == [kind |-> "txerr", id |-> m.id, n |-> m.received]

Responses == [kind: {"none", "reply", "txerr", "lost"}, id: Nat, n: Nat]
Outcomes  == {"none", "refused", "sendfail", "flowclosed", "timeout",
              "reply", "txerr", "lost"}

PCs == {"idle", "id", "msgno", "register", "track", "header", "check",
        "window", "park", "parked", "chunk", "count", "eof", "await",
        "expire", "release", "unregister", "untrack", "done"}

NoPacket == [type |-> "PONG", msgno |-> 0, id |-> 0, n |-> 0]

\* The rest of the body is measured backwards.
ChunkLenMutant(c) == IF len[c] - offset[c] < Chunk THEN offset[c] - len[c] ELSE Chunk

\* Bytes the next DATA packet of call c carries.
ChunkLen(c) == IF len[c] - offset[c] < Chunk THEN len[c] - offset[c] ELSE Chunk

Goto(c, label) == pc' = [pc EXCEPT ![c] = label]

\* The window is allowed to fill up to and including the watermark.
OverWatermarkMutant(c) ==
  /\ mno[c] \in DOMAIN outgoing
  /\ outgoing[mno[c]].sent - outgoing[mno[c]].acknowledged > Watermark

\* The chunk about to be sent is counted as if it had been.
OverWatermarkMutant2(c) ==
  /\ mno[c] \in DOMAIN outgoing
  /\ outgoing[mno[c]].sent + ChunkLen(c) - outgoing[mno[c]].acknowledged >= Watermark

OverWatermark(c) ==
  /\ mno[c] \in DOMAIN outgoing
  /\ outgoing[mno[c]].sent - outgoing[mno[c]].acknowledged >= Watermark

-----------------------------------------------------------------------------
Init ==
  /\ pc = [c \in Calls |-> "idle"]
  /\ rid = [c \in Calls |-> 0]
  /\ mno = [c \in Calls |-> 0]
  /\ len = [c \in Calls |-> 0]
  /\ offset = [c \in Calls |-> 0]
  /\ outcome = [c \in Calls |-> "none"]
  /\ slot = [c \in Calls |-> NoResponse]
  /\ next_request_id = 1
  /\ next_outgoing_msg_no = 0
  /\ pending = EmptyMap
  /\ outgoing = EmptyMap
  /\ closed = FALSE
  /\ permit = FALSE
  /\ waiters = <<>>
  /\ reader = "reading"
  /\ answer = NoPacket
  /\ incoming = EmptyMap
  /\ next_incoming_msg_no = 0
  /\ writer = "running"
  /\ chan = <<>>
  /\ c2s = <<>>
  /\ s2c = <<>>
  /\ peerClosed = FALSE

-----------------------------------------------------------------------------
(* The calls: send_request, one step per await.                            *)

\* A call enters send_request with some body and finds the connection open
\* or closed.
Start(c) ==
  /\ pc[c] = "idle"
  /\ \E n \in Bodies : len' = [len EXCEPT ![c] = n]
  /\ IF closed
     THEN Goto(c, "done") /\ outcome' = [outcome EXCEPT ![c] = "refused"]
     ELSE Goto(c, "id") /\ UNCHANGED outcome
  /\ UNCHANGED <<rid, mno, offset, slot, countVars, pending, outgoing, closed,
                 notifyVars, readerVars, wireVars>>

\* The id is read and the counter left where it was.
TakeRequestIdMutant(c) ==
  /\ pc[c] = "id"
  /\ rid' = [rid EXCEPT ![c] = next_request_id]
  /\ Goto(c, "msgno")
  /\ UNCHANGED <<mno, len, offset, outcome, slot, countVars, pending,
                 outgoing, closed, notifyVars, readerVars, wireVars>>

\* The two counters are separate atomics, so two calls may take them in
\* different orders.
TakeRequestId(c) ==
  /\ pc[c] = "id"
  /\ rid' = [rid EXCEPT ![c] = next_request_id]
  /\ next_request_id' = next_request_id + 1
  /\ Goto(c, "msgno")
  /\ UNCHANGED <<mno, len, offset, outcome, slot, next_outgoing_msg_no, pending,
                 outgoing, closed, notifyVars, readerVars, wireVars>>

\* The message number is read and the counter left where it was.
TakeMsgNoMutant(c) ==
  /\ pc[c] = "msgno"
  /\ mno' = [mno EXCEPT ![c] = next_outgoing_msg_no]
  /\ Goto(c, "register")
  /\ UNCHANGED <<rid, len, offset, outcome, slot, countVars, pending,
                 outgoing, closed, notifyVars, readerVars, wireVars>>

TakeMsgNo(c) ==
  /\ pc[c] = "msgno"
  /\ mno' = [mno EXCEPT ![c] = next_outgoing_msg_no]
  /\ next_outgoing_msg_no' = next_outgoing_msg_no + 1
  /\ Goto(c, "register")
  /\ UNCHANGED <<rid, len, offset, outcome, slot, next_request_id, pending,
                 outgoing, closed, notifyVars, readerVars, wireVars>>

\* pending is keyed by the message number.
RegisterMutant(c) ==
  /\ pc[c] = "register"
  /\ pending' = Insert(pending, mno[c], c)
  /\ Goto(c, "track")
  /\ UNCHANGED <<rid, mno, len, offset, outcome, slot, countVars, outgoing,
                 closed, notifyVars, readerVars, wireVars>>

\* The oneshot sender of the call goes into pending under its request id.
Register(c) ==
  /\ pc[c] = "register"
  /\ pending' = Insert(pending, rid[c], c)
  /\ Goto(c, "track")
  /\ UNCHANGED <<rid, mno, len, offset, outcome, slot, countVars, outgoing,
                 closed, notifyVars, readerVars, wireVars>>

Track(c) ==
  /\ pc[c] = "track"
  /\ outgoing' = Insert(outgoing, mno[c], [sent |-> 0, acknowledged |-> 0])
  /\ Goto(c, "header")
  /\ UNCHANGED <<rid, mno, len, offset, outcome, slot, countVars, pending,
                 closed, notifyVars, readerVars, wireVars>>

\* writer_tx.send(p).await: waits for room; fails once the writer task has
\* ended, which sends the call into cleanup_request.
Enqueue(c, p, next) ==
  /\ \/ /\ writer = "running"
        /\ Len(chan) < ChanCap
        /\ chan' = Append(chan, p)
        /\ Goto(c, next)
        /\ UNCHANGED outcome
     \/ /\ writer = "ended"
        /\ Goto(c, "unregister")
        /\ outcome' = [outcome EXCEPT ![c] = "sendfail"]
        /\ UNCHANGED chan
  /\ UNCHANGED <<rid, mno, len, offset, slot, countVars, pending, outgoing,
                 closed, notifyVars, readerVars, writer, c2s, s2c, peerClosed>>

NextChunkOrEof(c) == IF offset[c] < len[c] THEN "check" ELSE "eof"

SendHeader(c) ==
  /\ pc[c] = "header"
  /\ Enqueue(c, Header(mno[c], rid[c]), NextChunkOrEof(c))

\* The flow-control loop: the closed flag, the window under the lock of
\* outgoing, and the wait are three separate steps.
CheckClosed(c) ==
  /\ pc[c] = "check"
  /\ IF closed
     THEN /\ Goto(c, "unregister")
          /\ outcome' = [outcome EXCEPT ![c] = "flowclosed"]
     ELSE Goto(c, "window") /\ UNCHANGED outcome
  /\ UNCHANGED <<rid, mno, len, offset, slot, countVars, pending, outgoing,
                 closed, notifyVars, readerVars, wireVars>>

CheckWindow(c) ==
  /\ pc[c] = "window"
  /\ Goto(c, IF OverWatermark(c) THEN "park" ELSE "chunk")
  /\ UNCHANGED <<rid, mno, len, offset, outcome, slot, countVars, pending,
                 outgoing, closed, notifyVars, readerVars, wireVars>>

\* ack_notify.notified().await: takes the stored permit, or waits its turn.
Park(c) ==
  /\ pc[c] = "park"
  /\ IF permit
     THEN permit' = FALSE /\ Goto(c, "check") /\ UNCHANGED waiters
     ELSE waiters' = Append(waiters, c) /\ Goto(c, "parked") /\ UNCHANGED permit
  /\ UNCHANGED <<rid, mno, len, offset, outcome, slot, countVars, pending,
                 outgoing, closed, readerVars, wireVars>>

SendChunk(c) ==
  /\ pc[c] = "chunk"
  /\ Enqueue(c, Data(mno[c], ChunkLen(c)), "count")

\* sent is raised only after the packet is in the channel.
CountSent(c) ==
  /\ pc[c] = "count"
  /\ outgoing' = IF mno[c] \in DOMAIN outgoing
                 THEN [outgoing EXCEPT ![mno[c]].sent = @ + ChunkLen(c)]
                 ELSE outgoing
  /\ offset' = [offset EXCEPT ![c] = @ + ChunkLen(c)]
  /\ Goto(c, IF offset[c] + ChunkLen(c) < len[c] THEN "check" ELSE "eof")
  /\ UNCHANGED <<rid, mno, len, outcome, slot, countVars, pending, closed,
                 notifyVars, readerVars, wireVars>>

SendEof(c) ==
  /\ pc[c] = "eof"
  /\ Enqueue(c, Eof(mno[c]), "await")

\* timeout(..., response_rx): the response is polled before the timer.
TakeResponse(c) ==
  /\ pc[c] = "await"
  /\ slot[c] # NoResponse
  /\ outcome' = [outcome EXCEPT ![c] = slot[c].kind]
  /\ Goto(c, "release")
  /\ UNCHANGED <<rid, mno, len, offset, slot, countVars, pending, outgoing,
                 closed, notifyVars, readerVars, wireVars>>

TimeOut(c) ==
  /\ pc[c] = "await"
  /\ slot[c] = NoResponse
  /\ outcome' = [outcome EXCEPT ![c] = "timeout"]
  /\ Goto(c, "expire")
  /\ UNCHANGED <<rid, mno, len, offset, slot, countVars, pending, outgoing,
                 closed, notifyVars, readerVars, wireVars>>

\* The timed-out call leaves its entry in pending.
ExpireMutant(c) ==
  /\ pc[c] = "expire"
  /\ Goto(c, "release")
  /\ UNCHANGED <<rid, mno, len, offset, outcome, slot, countVars, pending,
                 outgoing, closed, notifyVars, readerVars, wireVars>>

\* pending.remove after the timer fired; a reply may have come in between.
Expire(c) ==
  /\ pc[c] = "expire"
  /\ pending' = Without(pending, rid[c])
  /\ Goto(c, "release")
  /\ UNCHANGED <<rid, mno, len, offset, outcome, slot, countVars, outgoing,
                 closed, notifyVars, readerVars, wireVars>>

Release(c) ==
  /\ pc[c] = "release"
  /\ outgoing' = Without(outgoing, mno[c])
  /\ Goto(c, "done")
  /\ UNCHANGED <<rid, mno, len, offset, outcome, slot, countVars, pending,
                 closed, notifyVars, readerVars, wireVars>>

\* cleanup_request: one lock after the other.
Unregister(c) ==
  /\ pc[c] = "unregister"
  /\ pending' = Without(pending, rid[c])
  /\ Goto(c, "untrack")
  /\ UNCHANGED <<rid, mno, len, offset, outcome, slot, countVars, outgoing,
                 closed, notifyVars, readerVars, wireVars>>

Untrack(c) ==
  /\ pc[c] = "untrack"
  /\ outgoing' = Without(outgoing, mno[c])
  /\ Goto(c, "done")
  /\ UNCHANGED <<rid, mno, len, offset, outcome, slot, countVars, pending,
                 closed, notifyVars, readerVars, wireVars>>

CallStep(c) ==
  \/ TakeRequestId(c) \/ TakeMsgNo(c) \/ Register(c) \/ Track(c)
  \/ SendHeader(c) \/ CheckClosed(c) \/ CheckWindow(c) \/ Park(c)
  \/ SendChunk(c) \/ CountSent(c) \/ SendEof(c) \/ TakeResponse(c)
  \/ TimeOut(c) \/ Expire(c) \/ Release(c) \/ Unregister(c) \/ Untrack(c)

-----------------------------------------------------------------------------
(* The reader task: route_packet, one step per packet, plus the awaits in  *)
(* which it sends an ACK or a PONG through the channel it shares with the  *)
(* calls.                                                                  *)

\* The reader has parsed a packet of type t off the stream.
Reads(t) ==
  /\ reader = "reading"
  /\ s2c # <<>>
  /\ Head(s2c).type = t
  /\ s2c' = Tail(s2c)
  /\ UNCHANGED <<rid, mno, len, offset, outcome, countVars, closed, writer, chan,
                 c2s, peerClosed>>

\* The number of the next HEADER is not moved on.
RouteHeaderMutant ==
  /\ Reads("HEADER")
  /\ LET p == Head(s2c) IN
     IF p.msgno = next_incoming_msg_no
     THEN incoming' = Insert(incoming, p.msgno, [id |-> p.id, received |-> 0])
     ELSE UNCHANGED incoming
  /\ UNCHANGED <<pc, slot, pending, outgoing, notifyVars, reader, answer,
                 next_incoming_msg_no>>

\* An out-of-sequence HEADER is logged and dropped.
RouteHeader ==
  /\ Reads("HEADER")
  /\ LET p == Head(s2c) IN
     IF p.msgno = next_incoming_msg_no
     THEN /\ next_incoming_msg_no' = next_incoming_msg_no + 1
          /\ incoming' = Insert(incoming, p.msgno, [id |-> p.id, received |-> 0])
     ELSE UNCHANGED <<next_incoming_msg_no, incoming>>
  /\ UNCHANGED <<pc, slot, pending, outgoing, notifyVars, reader, answer>>

\* DATA of an active message is added and acknowledged with the total.
RouteData ==
  /\ Reads("DATA")
  /\ LET p == Head(s2c) IN
     IF p.msgno \in DOMAIN incoming /\ p.n > 0
     THEN /\ incoming' = [incoming EXCEPT ![p.msgno].received = @ + p.n]
          /\ answer' = Ack(p.msgno, incoming[p.msgno].received + p.n)
          /\ reader' = "answering"
     ELSE UNCHANGED <<incoming, answer, reader>>
  /\ UNCHANGED <<pc, slot, pending, outgoing, notifyVars, next_incoming_msg_no>>

\* The entry stays in pending after the response has been sent.
DeliverMutant(id, response) ==
  IF id \in DOMAIN pending
  THEN /\ slot' = [slot EXCEPT ![pending[id]] = response]
       /\ UNCHANGED pending
  ELSE UNCHANGED <<slot, pending>>

\* The waiting call of a request id, if there is one, gets the response.
Deliver(id, response) ==
  IF id \in DOMAIN pending
  THEN /\ slot' = [slot EXCEPT ![pending[id]] = response]
       /\ pending' = Without(pending, id)
  ELSE UNCHANGED <<slot, pending>>

RouteEof ==
  /\ Reads("EOF")
  /\ LET p == Head(s2c) IN
     IF p.n = 0 /\ p.msgno \in DOMAIN incoming
     THEN /\ Deliver(incoming[p.msgno].id, ReplyOf(incoming[p.msgno]))
          /\ incoming' = Without(incoming, p.msgno)
     ELSE UNCHANGED <<slot, pending, incoming>>
  /\ UNCHANGED <<pc, outgoing, notifyVars, reader, answer, next_incoming_msg_no>>

RouteTxerr ==
  /\ Reads("TXERR")
  /\ LET p == Head(s2c) IN
     IF p.n > 0 /\ p.msgno \in DOMAIN incoming
     THEN /\ Deliver(incoming[p.msgno].id, TxerrOf(incoming[p.msgno]))
          /\ incoming' = Without(incoming, p.msgno)
     ELSE UNCHANGED <<slot, pending, incoming>>
  /\ UNCHANGED <<pc, outgoing, notifyVars, reader, answer, next_incoming_msg_no>>

\* notify_waiters instead of notify_one: no permit is stored.
NotifyOneMutant ==
  IF waiters = <<>>
  THEN UNCHANGED <<notifyVars, pc>>
  ELSE /\ waiters' = <<>>
       /\ pc' = [c \in Calls |-> IF pc[c] = "parked" THEN "check" ELSE pc[c]]
       /\ UNCHANGED permit

\* notify_one: the first waiter leaves the queue and goes back to its loop;
\* without a waiter one permit is stored.
NotifyOne ==
  IF waiters = <<>>
  THEN permit' = TRUE /\ UNCHANGED <<waiters, pc>>
  ELSE /\ waiters' = Tail(waiters)
       /\ Goto(Head(waiters), "check")
       /\ UNCHANGED permit

\* The check against what was sent is missing.
AckAcceptedMutant(p) ==
  /\ p.msgno \in DOMAIN outgoing
  /\ p.n > outgoing[p.msgno].acknowledged

\* An ACK is accepted when it moves forward and not past what was sent.
AckAccepted(p) ==
  /\ p.msgno \in DOMAIN outgoing
  /\ p.n > outgoing[p.msgno].acknowledged
  /\ p.n <= outgoing[p.msgno].sent

RouteAck ==
  /\ Reads("ACK")
  /\ LET p == Head(s2c) IN
     IF AckAccepted(p)
     THEN /\ outgoing' = [outgoing EXCEPT ![p.msgno].acknowledged = p.n]
          /\ NotifyOne
     ELSE UNCHANGED <<outgoing, notifyVars, pc>>
  /\ UNCHANGED <<slot, pending, readerVars>>

RoutePing ==
  /\ Reads("PING")
  /\ answer' = Pong(Head(s2c).msgno)
  /\ reader' = "answering"
  /\ UNCHANGED <<pc, slot, pending, outgoing, notifyVars, incoming,
                 next_incoming_msg_no>>

RoutePong ==
  /\ Reads("PONG")
  /\ UNCHANGED <<pc, slot, pending, outgoing, notifyVars, readerVars>>

\* ParseResult::Fatal leaves the loop.
RouteBad ==
  /\ Reads("BAD")
  /\ reader' = "draining"
  /\ UNCHANGED <<pc, slot, pending, outgoing, notifyVars, answer, incoming,
                 next_incoming_msg_no>>

\* writer_tx.send(ack).await; its error is ignored.
ReaderAnswers ==
  /\ reader = "answering"
  /\ \/ /\ writer = "running"
        /\ Len(chan) < ChanCap
        /\ chan' = Append(chan, answer)
     \/ writer = "ended" /\ UNCHANGED chan
  /\ reader' = "reading"
  /\ answer' = NoPacket
  /\ UNCHANGED <<callVars, slot, countVars, pending, outgoing, closed,
                 notifyVars, incoming, next_incoming_msg_no, writer, c2s, s2c,
                 peerClosed>>

\* End of stream or a read error, which may discard what was in flight.
ReaderEnds ==
  /\ reader = "reading"
  /\ peerClosed
  /\ reader' = "draining"
  /\ UNCHANGED <<callVars, slot, countVars, pending, outgoing, closed,
                 notifyVars, answer, incoming, next_incoming_msg_no, wireVars>>

\* pending.clear(): the oneshot senders are dropped without an error sent.
DrainPendingMutant ==
  /\ reader = "draining"
  /\ pending' = EmptyMap
  /\ reader' = "closing"
  /\ UNCHANGED <<callVars, slot, countVars, outgoing, closed, notifyVars, answer,
                 incoming, next_incoming_msg_no, wireVars>>

\* notify_all_pending.
DrainPending ==
  /\ reader = "draining"
  /\ slot' = [c \in Calls |->
                IF \E id \in DOMAIN pending : pending[id] = c THEN Lost ELSE slot[c]]
  /\ pending' = EmptyMap
  /\ reader' = "closing"
  /\ UNCHANGED <<callVars, countVars, outgoing, closed, notifyVars, answer,
                 incoming, next_incoming_msg_no, wireVars>>

\* D12: the closed flag, set by the wrapper once reader_task has returned.
SetClosed ==
  /\ reader = "closing"
  /\ closed' = TRUE
  /\ reader' = "gone"
  /\ UNCHANGED <<callVars, slot, countVars, pending, outgoing, notifyVars,
                 answer, incoming, next_incoming_msg_no, wireVars>>

ReaderStep ==
  \/ RouteHeader \/ RouteData \/ RouteEof \/ RouteTxerr \/ RouteAck
  \/ RoutePing \/ RoutePong \/ RouteBad
  \/ ReaderAnswers \/ ReaderEnds \/ DrainPending \/ SetClosed

-----------------------------------------------------------------------------
(* The writer task, the handle, and the byte stream.                       *)

\* recv, write, flush: the packet in the task's hand counts as in the pipe.
WriterSends ==
  /\ writer = "running"
  /\ chan # <<>>
  /\ Len(c2s) < PipeCap
  /\ chan' = Tail(chan)
  /\ c2s' = Append(c2s, Head(chan))
  /\ UNCHANGED <<callVars, slot, countVars, pending, outgoing, closed,
                 notifyVars, readerVars, writer, s2c, peerClosed>>

\* A write or flush error ends the task and drops the receiver.
WriterFails ==
  /\ writer = "running"
  /\ chan # <<>>
  /\ peerClosed
  /\ writer' = "ended"
  /\ chan' = <<>>
  /\ UNCHANGED <<callVars, slot, countVars, pending, outgoing, closed,
                 notifyVars, readerVars, c2s, s2c, peerClosed>>

\* Drop: every call holds the handle, so it goes after the last one of Calls.
DropHandle ==
  /\ \A c \in Calls : pc[c] = "done"
  /\ ~closed \/ writer = "running"
  /\ closed' = TRUE
  /\ reader' = "gone"
  /\ writer' = "ended"
  /\ chan' = <<>>
  /\ UNCHANGED <<callVars, slot, countVars, pending, outgoing, notifyVars,
                 answer, incoming, next_incoming_msg_no, c2s, s2c, peerClosed>>

WriterStep == WriterSends \/ WriterFails

-----------------------------------------------------------------------------
(* The peer.                                                               *)

PeerReads ==
  /\ ~peerClosed
  /\ c2s # <<>>
  /\ c2s' = Tail(c2s)
  /\ UNCHANGED <<callVars, slot, countVars, pending, outgoing, closed,
                 notifyVars, readerVars, writer, chan, s2c, peerClosed>>

\* The bytes received under a message number stay within MaxReply.
PeerSends ==
  /\ ~peerClosed
  /\ Len(s2c) < PipeCap
  /\ \E p \in PeerPackets :
       /\ (p.type = "DATA" /\ p.msgno \in DOMAIN incoming)
            => incoming[p.msgno].received + p.n <= MaxReply
       /\ s2c' = Append(s2c, p)
  /\ UNCHANGED <<callVars, slot, countVars, pending, outgoing, closed,
                 notifyVars, readerVars, writer, chan, c2s, peerClosed>>

\* The peer goes away, or the network does: what was on its way there is lost.
PeerCloses ==
  /\ ~peerClosed
  /\ peerClosed' = TRUE
  /\ c2s' = <<>>
  /\ UNCHANGED <<callVars, slot, countVars, pending, outgoing, closed,
                 notifyVars, readerVars, writer, chan, s2c>>

PeerStep == PeerReads \/ PeerSends \/ PeerCloses

-----------------------------------------------------------------------------
\* The steps of the code of this module, without the peer's.
ClientStep ==
  \/ \E c \in Calls : Start(c) \/ CallStep(c)
  \/ ReaderStep \/ WriterStep \/ DropHandle

Next == ClientStep \/ PeerStep

Spec == Init /\ [][Next]_vars

\* Every task of the code is scheduled again and again.  A send that waits
\* for room is served in turn (the channel's semaphore is a FIFO queue), hence
\* strong fairness; the timer of a waiting call fires if nothing else ends it.
\* The peer is only assumed to go on reading until it closes.
Fairness ==
  /\ \A c \in Calls : SF_vars(CallStep(c))
  /\ SF_vars(ReaderStep)
  /\ WF_vars(WriterStep)
  /\ WF_vars(PeerReads)

FairSpec == Spec /\ Fairness

-----------------------------------------------------------------------------
(* Properties.                                                             *)

\* The type of every variable, in all reachable states, task by task.
CallTypes ==
  /\ pc \in [Calls -> PCs]
  /\ rid \in [Calls -> Nat]
  /\ mno \in [Calls -> Nat]
  /\ len \in [Calls -> Nat]
  /\ offset \in [Calls -> Nat]
  /\ outcome \in [Calls -> Outcomes]
  /\ slot \in [Calls -> Responses]
HandleTypes ==
  /\ next_request_id \in Nat
  /\ next_outgoing_msg_no \in Nat
  /\ IsMap(pending) /\ DOMAIN pending \subseteq Nat
  /\ \A id \in DOMAIN pending : pending[id] \in Calls
  /\ IsMap(outgoing) /\ DOMAIN outgoing \subseteq Nat
  /\ \A m \in DOMAIN outgoing : outgoing[m] \in [sent: Nat, acknowledged: Nat]
  /\ waiters \in Seq(Calls)
ReaderTypes ==
  /\ reader \in {"reading", "answering", "draining", "closing", "gone"}
  /\ answer \in Packet
  /\ IsMap(incoming) /\ DOMAIN incoming \subseteq Nat
  /\ \A m \in DOMAIN incoming : incoming[m] \in [id: Nat, received: Nat]
  /\ next_incoming_msg_no \in Nat
WireTypes ==
  /\ writer \in {"running", "ended"}
  /\ chan \in Seq(Packet) /\ c2s \in Seq(Packet) /\ s2c \in Seq(Packet)
FlagTypes == closed \in BOOLEAN /\ permit \in BOOLEAN /\ peerClosed \in BOOLEAN
TypeOK == CallTypes /\ HandleTypes /\ ReaderTypes /\ WireTypes /\ FlagTypes

\* The points at which a call may have an entry in pending or in outgoing.
Registered == {"track", "header", "check", "window", "park", "parked", "chunk",
               "count", "eof", "await", "expire", "unregister"}
Tracked == {"header", "check", "window", "park", "parked", "chunk", "count",
            "eof", "await", "expire", "release", "unregister", "untrack"}

\* A call is only ever handed a reply or an error that carries its own request
\* id, whatever the peer sends (route_packet looks the id up in pending).
RepliesCorrelated ==
  \A c \in Calls : slot[c].kind \in {"reply", "txerr"} => slot[c].id = rid[c]

\* The entries of pending and outgoing belong to calls still in send_request:
\* every way out of it, time-out and failed send included, removes both.
NothingLeaks ==
  /\ \A id \in DOMAIN pending : /\ pc[pending[id]] \in Registered
                                /\ rid[pending[id]] = id
  /\ \A m \in DOMAIN outgoing : \E c \in Calls : pc[c] \in Tracked /\ mno[c] = m

\* A call that waits for its response without having one is still in pending,
\* so the "Connection lost" branch for a dropped oneshot sender cannot be taken.
WaitersAreRegistered ==
  \A c \in Calls :
    (pc[c] = "await" /\ slot[c] = NoResponse)
      => rid[c] \in DOMAIN pending /\ pending[rid[c]] = c

\* Bytes of call c given to the writer task, counted in sent or not yet.
Handed(c) == offset[c] + IF pc[c] = "count" THEN ChunkLen(c) ELSE 0

\* Flow control: whatever ACKs the peer sends, acknowledged stays within sent,
\* and the bytes handed out beyond the acknowledged ones never exceed the
\* watermark by a whole chunk.
WindowBounded ==
  \A c \in Calls : (pc[c] \in Tracked /\ mno[c] \in DOMAIN outgoing) =>
    /\ outgoing[mno[c]].acknowledged <= outgoing[mno[c]].sent
    /\ outgoing[mno[c]].sent <= Handed(c)
    /\ Handed(c) <= len[c]
    /\ Handed(c) - outgoing[mno[c]].acknowledged < Watermark + Chunk

\* What a call has been told stays what it was told: once it has returned, a
\* late reply, a drain or an ACK touches nothing of it.
ReturnedIsFinal ==
  [][\A c \in Calls : pc[c] = "done" =>
       /\ pc'[c] = "done"
       /\ outcome'[c] = outcome[c]
       /\ slot'[c] = slot[c]]_vars

\* A call alone on its connection misses no wake-up: when an ACK has opened its
\* window it is not left waiting, even if the ACK came between the look at the
\* window and the wait (the stored permit of Notify).  With a second call this
\* is lost: both wait on the one Notify, and the permit may go to the other.
Alone(c) == \A d \in Calls \ {c} : pc[d] = "idle"
NoLostWakeup ==
  \A c \in Calls : Alone(c) =>
    /\ (pc[c] = "park" /\ ~OverWatermark(c)) => permit
    /\ pc[c] = "parked" => OverWatermark(c)

\* A call whose body is within the watermark returns: the reply, the time-out
\* or an error ends it as long as the peer reads or closes.
CallsEnd == \A c \in Calls : (pc[c] = "id") ~> (pc[c] = "done")

\* The packets of one message leave in order: HEADER, its DATA, EOF, with
\* nothing before the one and nothing after the other.
Rank(p) == CASE p.type = "HEADER" -> 0 [] p.type = "DATA" -> 1 [] OTHER -> 2
IsRequestPacket(p) == p.type \in {"HEADER", "DATA", "EOF"}
Stream == c2s \o chan
PacketsInOrder ==
  \A i, j \in DOMAIN Stream :
    (/\ i < j
     /\ IsRequestPacket(Stream[i]) /\ IsRequestPacket(Stream[j])
     /\ Stream[i].msgno = Stream[j].msgno)
    => /\ Rank(Stream[i]) <= Rank(Stream[j])
       /\ Stream[i].type = "DATA" \/ Rank(Stream[i]) < Rank(Stream[j])

-----------------------------------------------------------------------------
(* The inductive invariant behind the properties above                     *)
(* (ClientConnection_proofs).                                              *)

\* A call holds a message number at these points, and keeps it when it returns.
Numbered == Tracked \cup {"register", "track"}
HasNumber(c) == pc[c] \in Numbered \/ (pc[c] = "done" /\ rid[c] > 0)

\* Request ids are handed out once; 0 stands for none yet.
IdsUnique ==
  /\ next_request_id > 0
  /\ \A c \in Calls : /\ rid[c] < next_request_id
                      /\ pc[c] \in {"idle", "id"} => rid[c] = 0
                      /\ pc[c] \in Numbered \cup {"msgno"} => rid[c] > 0
  /\ \A c, d \in Calls : (c # d /\ rid[c] = rid[d]) => rid[c] = 0

\* So are message numbers.
MsgNosUnique ==
  /\ \A c \in Calls : HasNumber(c) => mno[c] < next_outgoing_msg_no
  /\ \A c, d \in Calls :
       (c # d /\ HasNumber(c) /\ HasNumber(d)) => mno[c] # mno[d]

\* pending holds exactly the registered calls that have no response yet, but
\* for those that have just removed themselves.
PendingExact ==
  /\ \A id \in DOMAIN pending : /\ pc[pending[id]] \in Registered
                                /\ rid[pending[id]] = id
                                /\ slot[pending[id]] = NoResponse
  /\ \A c \in Calls : (pc[c] \in Registered /\ slot[c] = NoResponse)
                        => rid[c] \in DOMAIN pending /\ pending[rid[c]] = c
  /\ \A c \in Calls : pc[c] \in {"idle", "id", "msgno", "register"}
                        => slot[c] = NoResponse

\* outgoing holds exactly the tracked calls.
OutgoingExact ==
  /\ \A c \in Calls : pc[c] \in Tracked => mno[c] \in DOMAIN outgoing
  /\ \A m \in DOMAIN outgoing : \E c \in Calls : pc[c] \in Tracked /\ mno[c] = m

\* The waiters are the parked calls, each once.
WaitersParked ==
  /\ \A i \in DOMAIN waiters : pc[waiters[i]] = "parked"
  /\ \A i, j \in DOMAIN waiters : i # j => waiters[i] # waiters[j]
ParkedWait == \A c \in Calls : pc[c] = "parked" => \E i \in DOMAIN waiters : waiters[i] = c

\* Where a call is in its body, and how far its window is used.
InLoop == {"check", "window", "park", "parked", "chunk", "count"}
Progress(c) ==
  /\ pc[c] \in {"idle", "id", "msgno", "register", "track", "header"} => offset[c] = 0
  /\ offset[c] <= len[c]
  /\ pc[c] \in InLoop => offset[c] < len[c]
  /\ pc[c] = "eof" => offset[c] = len[c]
WindowUse(c) ==
  LET out == outgoing[mno[c]] IN
  pc[c] \in Tracked =>
    /\ out.sent = offset[c]
    /\ out.acknowledged <= out.sent
    /\ out.sent - out.acknowledged < Watermark + Chunk
    /\ pc[c] \in {"chunk", "count"} => out.sent - out.acknowledged < Watermark
WindowsUsed == \A c \in Calls : Progress(c) /\ WindowUse(c)

\* The request packets in the stream are those of a call that has come as far as
\* sending them; a call whose EOF has left sends no more.
Answered == {"await", "expire", "release", "done"}
IsOf(p, c) ==
  /\ HasNumber(c) /\ pc[c] \notin {"register", "track", "header"}
  /\ \/ p = Header(mno[c], rid[c])
     \/ p.type = "DATA" /\ p.msgno = mno[c]
     \/ p = Eof(mno[c]) /\ pc[c] \in Answered
PacketsOwned ==
  /\ \A i \in DOMAIN Stream : IsRequestPacket(Stream[i]) => \E c \in Calls : IsOf(Stream[i], c)
  /\ ~IsRequestPacket(answer)

\* Every call owns its request id, its message number, its packets and its
\* entries, and the maps and the wait queue hold nothing else: what all the tasks
\* of a connection rely on.
IInv ==
  /\ IdsUnique /\ MsgNosUnique /\ PendingExact /\ OutgoingExact
  /\ WaitersParked /\ ParkedWait /\ WindowsUsed /\ PacketsOwned

-----------------------------------------------------------------------------
(* What the repository says of this code and the code does not do.         *)

\* DEFICIENCIES.md:13, "sequential msgno from 0": HEADERs leave in the order of
\* their message numbers.
HeadersInSequence ==
  \A i, j \in DOMAIN chan :
    (i < j /\ chan[i].type = "HEADER" /\ chan[j].type = "HEADER")
      => chan[i].msgno < chan[j].msgno
=============================================================================
