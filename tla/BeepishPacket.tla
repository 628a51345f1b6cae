---------------------------- MODULE BeepishPacket ----------------------------
(***************************************************************************)
(* The packets of the beepish wire protocol (proto/mod.rs, proto/packet.rs)*)
(* as the two ends of a connection tell them apart.  A packet is           *)
(*                                                                         *)
(*   type    what route_packet matches on; "BAD" stands for every byte     *)
(*           sequence Packet::parse answers with ParseResult::Fatal        *)
(*   msgno   the message number of the first line                          *)
(*   id      the request_id of a HEADER's JSON, 0 in the other packets     *)
(*   n       the length of a body (DATA, EOF, TXERR) or the decimal number *)
(*           in it (ACK); 0 is the empty body, and for TXERR also "0", for *)
(*           ACK also a body that is no number                             *)
(***************************************************************************)
EXTENDS Naturals

PacketType == {"HEADER", "DATA", "EOF", "TXERR", "ACK", "PING", "PONG", "BAD"}

Packet == [type: PacketType, msgno: Nat, id: Nat, n: Nat]

Header(m, i) == [type |-> "HEADER", msgno |-> m, id |-> i, n |-> 0]
Data(m, k)   == [type |-> "DATA",   msgno |-> m, id |-> 0, n |-> k]
Eof(m)       == [type |-> "EOF",    msgno |-> m, id |-> 0, n |-> 0]
Txerr(m, k)  == [type |-> "TXERR",  msgno |-> m, id |-> 0, n |-> k]
Ack(m, k)    == [type |-> "ACK",    msgno |-> m, id |-> 0, n |-> k]
Ping(m)      == [type |-> "PING",   msgno |-> m, id |-> 0, n |-> 0]
Pong(m)      == [type |-> "PONG",   msgno |-> m, id |-> 0, n |-> 0]
Bad          == [type |-> "BAD",    msgno |-> 0, id |-> 0, n |-> 0]
=============================================================================
