------------------------- MODULE MCClientConnection -------------------------
(***************************************************************************)
(* Peers and symmetry for model checking ClientConnection.                 *)
(***************************************************************************)
EXTENDS ClientRpc, TLC

\* A peer that answers one request twice or the two in turn, out of sequence
\* when it likes, with a byte of data or none, with EOF or TXERR.
RepliesPeer ==
  {Header(0, 1), Header(1, 1), Header(1, 2), Data(0, 1), Eof(0), Txerr(1, 1)}

\* A peer that acknowledges one or two chunks of the first message and two of
\* the second, at any time and in any order, answers pings nobody sent, and
\* breaks the framing.
AckPeer == {Ack(0, 2), Ack(0, 4), Ack(1, 4), Pong(7), Bad}

\* A peer that only pings.
PingPeer == {Ping(7)}

\* A peer that sends nothing.
SilentPeer == {}

CallSymmetry == Permutations(Calls)
=============================================================================
