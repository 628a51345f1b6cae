--------------------------- MODULE MCAccessChecks ---------------------------
(***************************************************************************)
(* Model checking AccessChecks, and tickets on many small texts: a         *)
(* behaviour either runs checks or only holds one text, in sample.         *)
(***************************************************************************)
EXTENDS AccessChecks

Holder(parts) == Issued("key", 0, 9, parts)
HolderTickets == {Holder(<<Number(1)>>), Issued("other", 0, 9, <<Number(1), Number(2)>>)}

Entry(word, hidden, value) == [word |-> word, hidden |-> hidden, value |-> value]
Requires(parts) == [is |-> "array", parts |-> parts]
Table(entries) == [entries |-> entries]

\* Open to the holder of 1 for what is no number, closed by a second spelling.
AuthTables ==
  {Table(<<Entry("get", FALSE, Requires({Junk, Number(1)})), Entry("get", TRUE, Requires({Number(2)}))>>),
   Table(<<Entry("get", FALSE, Requires({})), Entry("get", FALSE, Requires({Number(2)}))>>)}

\* Issued tickets, and what one change makes of them.
Genuine ==
  {Issued(k, s, t, p) : k \in {"key", "other"}, s \in {0, 2}, t \in {0, 1, 2, 9},
                        p \in {<<>>, <<Number(1), Number(2)>>}}
Parts == {Number(0), Number(1), Number(10), Junk, Privileges(<<Number(3)>>), Privileges(<<Junk>>),
          Signed("key", <<>>)}
Changed(fields) ==
  {fields} \cup {RemoveAt(fields, i) : i \in DOMAIN fields}
  \cup {[fields EXCEPT ![i] = p] : i \in DOMAIN fields, p \in Parts}
  \cup {InsertAt(fields, i, p) : i \in 1..8, p \in Parts}
TicketTexts == UNION {Changed(fields) : fields \in Genuine}

-----------------------------------------------------------------------------

VARIABLE sample

NoSample == <<>>

MCInit == AccessInit /\ sample \in {NoSample} \cup TicketTexts
MCNext == sample = NoSample /\ AccessNext /\ UNCHANGED sample

MCSpec == MCInit /\ [][MCNext]_<<accessVars, sample>> /\ AccessFairness

\* A ticket is accepted if it is as its issuer signed it, whichever of its parts is
\* exchanged, dropped or doubled otherwise, and from its start until, but not at, the
\* end of its lifetime (ticket.rs:67).  One whose end is beyond the largest u64 never is.
TicketsHonoured ==
  sample # NoSample =>
    \A time \in {0, 1, 2, 3, 4, 9} : Verify(sample, time).ok <=> Valid(sample, time)
=============================================================================
