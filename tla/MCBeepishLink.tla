----------------------------- MODULE MCBeepishLink -----------------------------
(***************************************************************************)
(* Model checking BeepishLink, and the framing below it: a behaviour is    *)
(* either one of the two ends, packet by packet, or one of the byte stream *)
(* between them.                                                           *)
(***************************************************************************)
EXTENDS BeepishLink, Framing, TLC

VARIABLE runs

CallSymmetry == Permutations(Calls)

\* Bodies of two bytes to as many as are allowed: one like the end of a packet,
\* one like many ends of a line, and one too long to fit with what may follow.
Newlines(n) == [i \in 1..n |-> IF i % 2 = 1 THEN "\r" ELSE "\n"]
SomePackets ==
  {[type |-> "HEADER", msgno |-> 0,  body |-> <<"{", "}">>],
   [type |-> "DATA",   msgno |-> 0,  body |-> <<"x">> \o Trailer],
   [type |-> "DATA",   msgno |-> 12, body |-> Newlines(10)],
   [type |-> "DATA",   msgno |-> 0,  body |-> Newlines(24)],
   [type |-> "EOF",    msgno |-> 0,  body |-> <<>>]}

\* The beginning of a packet, then each way not to be one.
NoPackets ==
  {<<>>,
   <<"DATA", " ", "0", " ", "9", "\r">>,
   <<"DATA", " ", "0", "\n">>,
   <<"1", "1", "1", "1", "1", "1", "1", "1", "1", "1", "1">>,
   <<"EOF", " ", "0", "\r", "\n">> \o Trailer,
   <<"EOF", " ", "bad", " ", "0", "\r", "\n">> \o Trailer,
   <<"EOF", " ", "+", " ", "0", "\r", "\n">> \o Trailer,
   <<"EOF", " ", "1", "0", "0", " ", "0", "\r", "\n">> \o Trailer,
   <<"DATA", " ", "0", " ", "2", "5", "\r", "\n">>,
   <<"DATA", " ", "0", " ", "1", "\r", "\n", "x", "y">> \o Trailer,
   <<"PUSH", " ", "0", " ", "0", "\r", "\n">> \o Trailer,
   <<"HEADER", " ", "0", " ", "0", "\r", "\n">> \o Trailer}

PacketRuns == UNION {[1..n -> SomePackets] : n \in 0..2}

MCInit ==
  /\ LinkInit
  /\ \/ /\ runs = "link"
        /\ written = <<>> /\ wire = <<>> /\ buf = <<>> /\ received = <<>>
        /\ reading = "open"
     \/ runs = "stream" /\ FramingInit

MCNext ==
  /\ \/ runs = "link" /\ LinkNext /\ UNCHANGED framingVars
     \/ runs = "stream" /\ FramingNext /\ UNCHANGED linkVars
  /\ UNCHANGED runs

MCSpec == MCInit /\ [][MCNext]_<<linkVars, framingVars, runs>>
=============================================================================
