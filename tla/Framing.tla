------------------------------- MODULE Framing -------------------------------
(***************************************************************************)
(* The packets of a connection as bytes: Packet::write and Packet::parse   *)
(* (proto/packet.rs), and the loop of both ends' readers that cuts the     *)
(* stream back into packets, however it comes in (client/reader.rs,        *)
(* service/server_connection.rs).  A byte is a token: a type's name, a     *)
(* digit, a byte of a body; "bad" stands for all that is not UTF-8.       *)
(***************************************************************************)
EXTENDS Text

CONSTANTS
  MaxPacketSize,   \* MAX_PACKET_SIZE, the longest body
  Slack,           \* what the read buffer may hold beyond it: 100
  LineMax,         \* the longest first line: 80
  MaxU64,          \* the greatest message number: 2^64 - 1
  ReadSize,        \* the most one read brings: 4096
  Written,         \* the sequences of packets the peer may write
  Garbage          \* what it may write after them that is no packet

VARIABLES
  written,         \* the packets the peer has written
  wire,            \* the bytes not read yet
  buf,             \* the read buffer
  received,        \* the packets routed
  reading          \* "open", or why the loop has ended: "fatal", "overflow", "ended"

framingVars == <<written, wire, buf, received, reading>>

CRLF == <<"\r", "\n">>
Trailer == <<"E", "N", "D">> \o CRLF
Digits == <<"0", "1", "2", "3", "4", "5", "6", "7", "8", "9">>
Types == {"HEADER", "DATA", "EOF", "TXERR", "ACK", "PING", "PONG"}

\* A number's decimal digits.
Decimal(n) ==
  LET last(k) == <<Digits[(k % 10) + 1]>>
      decimal[k \in 0..n] == IF k < 10 THEN last(k) ELSE decimal[k \div 10] \o last(k)
  IN  decimal[n]

\* str::parse of an unsigned number, which may have a plus sign.
Unsigned(text) == IF text # <<>> /\ text[1] = "+" THEN Tail(text) ELSE text
IsNumber(text) == Unsigned(text) # <<>> /\ ToSet(Unsigned(text)) \subseteq ToSet(Digits)
Digit(d) == CHOOSE i \in 0..9 : Digits[i + 1] = d
Number(text) ==
  LET number[i \in 0..Len(text)] == IF i = 0 THEN 0 ELSE 10 * number[i - 1] + Digit(text[i])
  IN  number[Len(text)]
Value(text) == Number(Unsigned(text))

\* The JSON of a HEADER: anything within braces.
IsJson(body) == Len(body) >= 2 /\ Head(body) = "{" /\ Last(body) = "}"

\* Packet::write.
FirstLine(p) ==
  <<p.type>> \o <<" ">> \o (Decimal(p.msgno) \o <<" ">> \o Decimal(Len(p.body)))

Bytes(p) == FirstLine(p) \o CRLF \o p.body \o Trailer

\* Packets written one after the other.
WireBytes(packets) == FlattenSeq([i \in DOMAIN packets |-> Bytes(packets[i])])

-----------------------------------------------------------------------------
(* Packet::parse.                                                          *)

\* split_whitespace.
Fields(line) ==
  LET spaced == [i \in DOMAIN line |-> IF line[i] \in {"\r", "\n"} THEN " " ELSE line[i]]
      pieces == Split(spaced, <<" ">>)
  IN  FlattenSeq([i \in DOMAIN pieces |-> IF pieces[i] = <<>> THEN <<>> ELSE <<pieces[i]>>])

FieldsOk(fields) ==
  /\ Len(fields) = 3
  /\ IsNumber(fields[2]) /\ Value(fields[2]) <= MaxU64
  /\ IsNumber(fields[3]) /\ Value(fields[3]) <= MaxPacketSize

PacketOk(type, body, trailer) ==
  /\ trailer = Trailer
  /\ type \in {<<t>> : t \in Types}
  /\ type = <<"HEADER">> => IsJson(body)

More  == [is |-> "more"]    \* TooShort and NeedBytes
Fatal == [is |-> "fatal"]

\* Where the bytes hold the end of a line.
LineEnds(bytes) == {i \in 1..(Len(bytes) - 1) : bytes[i] = "\r" /\ bytes[i + 1] = "\n"}

\* What follows a first line of three good fields that ends at start.
ParseBody(bytes, fields, start) ==
  LET end == start + Value(fields[3])
      body == SubSeq(bytes, start + 1, end)
  IN  IF end + 5 > Len(bytes) THEN More
      ELSE IF PacketOk(fields[1], body, SubSeq(bytes, end + 1, end + 5))
      THEN [is |-> "packet", used |-> end + 5,
            packet |-> [type |-> fields[1][1], msgno |-> Value(fields[2]), body |-> body]]
      ELSE Fatal

\* The first packet of the buffer.
Parse(bytes) ==
  LET scan == SubSeq(bytes, 1, Min({Len(bytes), LineMax}))
      cut == Min(LineEnds(scan)) - 1
      fields == Fields(SubSeq(bytes, 1, cut))
      hopeless == "\n" \in ToSet(scan) \/ Len(scan) >= LineMax
  IN  IF LineEnds(scan) = {} THEN IF hopeless THEN Fatal ELSE More
      ELSE IF "bad" \notin ToSet(SubSeq(bytes, 1, cut)) /\ FieldsOk(fields)
      THEN ParseBody(bytes, fields, cut + 2)
      ELSE Fatal

\* What a peer may write: its first line and its body are not too long.
Writable(p) ==
  /\ p \in [type : Types, msgno : 0..MaxU64, body : Seq(ToSet(p.body))]
  /\ Len(p.body) <= MaxPacketSize /\ Len(FirstLine(p) \o CRLF) <= LineMax
  /\ p.type = "HEADER" => IsJson(p.body)

\* And what no beginning of is a packet.
HoldsNoPacket(text) ==
  /\ text \in Seq(ToSet(text)) /\ Len(text) <= MaxPacketSize + Slack
  /\ \A n \in 0..Len(text) : Parse(SubSeq(text, 1, n)).is # "packet"

ASSUME FramingAssumption ==
  /\ MaxPacketSize \in Nat /\ Slack \in Nat /\ LineMax \in Nat /\ ReadSize \in Nat
  /\ MaxU64 \in Nat
  /\ \A packets \in Written :
       packets \in Seq(ToSet(packets)) /\ \A p \in ToSet(packets) : Writable(p)
  /\ \A text \in Garbage : HoldsNoPacket(text)

-----------------------------------------------------------------------------
(* The reader's loop.                                                      *)

\* Everything parsed is cleared away, the beginning of a packet with it.
UnparsedMutant(bytes, used) == <<>>

\* buf.drain(..consumed).
Unparsed(bytes, used) == SubSeq(bytes, used + 1, Len(bytes))

\* The packets at the front of the buffer, how many bytes they take, and
\* whether what follows is the beginning of a packet.
Packets(bytes) ==
  LET from[at \in 0..Len(bytes)] ==
        LET first == Parse(SubSeq(bytes, at + 1, Len(bytes)))
        IN  IF first.is = "packet"
            THEN LET rest == from[at + first.used]
                 IN  [rest EXCEPT !.packets = <<first.packet>> \o @]
            ELSE [packets |-> <<>>, used |-> at, is |-> first.is]
  IN  from[0]

FramingInit ==
  /\ written \in Written
  /\ \E garbage \in Garbage : wire = WireBytes(written) \o garbage
  /\ buf = <<>> /\ received = <<>>
  /\ reading = "open"

\* A read brings some of the bytes: all packets that are now whole are routed.
Read ==
  /\ reading = "open"
  /\ \E n \in 1..Min({ReadSize, Len(wire)}) :
       LET bytes == buf \o SubSeq(wire, 1, n)
           found == Packets(bytes)
       IN  /\ wire' = SubSeq(wire, n + 1, Len(wire))
           /\ IF Len(bytes) > MaxPacketSize + Slack
              THEN reading' = "overflow" /\ buf' = bytes /\ UNCHANGED received
              ELSE /\ received' = received \o found.packets
                   /\ IF found.is = "fatal"
                      THEN reading' = "fatal" /\ buf' = bytes
                      ELSE reading' = "open" /\ buf' = Unparsed(bytes, found.used)
  /\ UNCHANGED written

\* The peer closes, or the connection breaks, with bytes on their way.
ReadEnds ==
  /\ reading = "open"
  /\ reading' = "ended"
  /\ UNCHANGED <<written, wire, buf, received>>

FramingNext == Read \/ ReadEnds

FramingSpec == FramingInit /\ [][FramingNext]_framingVars

-----------------------------------------------------------------------------
(* Properties.                                                             *)

\* A packet that one more read cannot carry past the cap, whatever follows it:
\* the buffer held all but its last byte, and the read brings ReadSize bytes.
Fits(p) == Len(Bytes(p)) - 1 + ReadSize <= MaxPacketSize + Slack

\* However the stream is cut into reads, the reader routes the packets that were
\* written, each as soon as its last byte is there, and holds every byte after them:
\* no packet is lost, doubled or taken for another, not even when a body looks
\* like the end of a line or of a packet (packet.rs:57, reader.rs:48).  Only what is
\* no packet is fatal, and only a packet that does not fit can overflow the buffer.
PacketsAsWritten ==
  LET k == Len(received)
      left == SubSeq(written, k + 1, Len(written))
  IN  /\ IsPrefix(received, written)
      /\ reading = "open" =>
           /\ IsPrefix(WireBytes(left), buf \o wire)
           /\ left # <<>> => Len(buf) < Len(Bytes(Head(left)))
      /\ reading = "fatal" => left = <<>>
      /\ reading = "overflow" => left # <<>> /\ ~Fits(Head(left))
=============================================================================
