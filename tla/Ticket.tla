------------------------------- MODULE Ticket -------------------------------
(***************************************************************************)
(* Tickets and the table of privileges: auth/ticket.rs, and                *)
(* parse_authz_response of auth/authz.rs.                                  *)
(*                                                                         *)
(* The text of a ticket is the sequence of what is between its commas: a   *)
(* number, a list of privileges (what is between the plus signs), a        *)
(* signature, or something else.  A signature says who has signed what.    *)
(* The names of actions are words; upper and lower case are one.           *)
(*                                                                         *)
(* A definition named ...Mutant is the definition after it with a bug.     *)
(***************************************************************************)
EXTENDS Integers, SequencesExt

CONSTANTS
  MaxU64,     \* the largest u64
  VerifyKey   \* of the issuer

ASSUME TicketAssumption == MaxU64 \in Nat

Number(n)           == [is |-> "number", of |-> n]
Privileges(parts)   == [is |-> "privileges", parts |-> parts]
Signed(key, fields) == [is |-> "signature", by |-> key, what |-> fields]
Junk                == [is |-> "junk"]
NoSignature         == [is |-> "none"]

Refused     == [ok |-> FALSE]
Accepted(t) == [ok |-> TRUE, ticket |-> t]

IsU64(part) == part.is = "number" /\ part.of \in 0..MaxU64

Numbers(parts) == {part.of : part \in {p \in parts : IsU64(p)}}

\* Ticket::parse
ParseTicket(fields) ==
  LET signature == IF Len(fields) > 6 THEN fields[7] ELSE NoSignature
  IN  IF \/ Len(fields) < 6
         \/ \E i \in 1..5 : ~IsU64(fields[i])
         \/ fields[1].of # 1
         \/ fields[6].is # "privileges"
         \/ \E i \in DOMAIN fields[6].parts : ~IsU64(fields[6].parts[i])
         \/ signature.is \notin {"signature", "none"}
      THEN Refused
      ELSE Accepted([start |-> fields[4].of, ttl |-> fields[5].of, signature |-> signature,
                     privileges |-> Numbers(Range(fields[6].parts))])

SignatureHolds(ticket, fields) == ticket.signature = Signed(VerifyKey, Front(fields))

\* A second too long.
InTimeMutant(ticket, time) ==
  ticket.start <= time /\ time <= (ticket.start + ticket.ttl) % (MaxU64 + 1)

\* The end of a lifetime wraps.
InTime(ticket, time) ==
  ticket.start <= time /\ time < (ticket.start + ticket.ttl) % (MaxU64 + 1)

\* Ticket::verify: all before the last comma is signed.
Verify(fields, time) ==
  LET parsed == ParseTicket(fields)
  IN  IF parsed.ok /\ SignatureHolds(parsed.ticket, fields) /\ InTime(parsed.ticket, time)
      THEN parsed ELSE Refused

-----------------------------------------------------------------------------
(* The table of privileges.  Its text is a JSON object, whose keys come in  *)
(* order; those that begin with _ are hidden.                              *)

Listed(answer) ==
  {i \in DOMAIN answer.entries : ~answer.entries[i].hidden /\ answer.entries[i].value.is = "array"}

\* parse_authz_response: a key in another spelling replaces the one before, and
\* what is no number is passed over.
PrivilegeTable(answer) ==
  LET of(word) == {i \in Listed(answer) : answer.entries[i].word = word}
  IN  [word \in {answer.entries[i].word : i \in Listed(answer)} |->
         Numbers(answer.entries[Max(of(word))].value.parts)]

\* check_access, from the table on.
Grants(table, action, privileges) ==
  action \in DOMAIN table /\ table[action] \subseteq privileges

-----------------------------------------------------------------------------

\* A ticket as it is issued.
Issued(key, start, ttl, parts) ==
  LET body == <<Number(1), Number(7), Number(8), Number(start), Number(ttl), Privileges(parts)>>
  IN  Append(body, Signed(key, body))

\* Whether fields is an issued ticket, unchanged, that is valid at time.
Valid(fields, time) ==
  /\ Len(fields) = 7 /\ fields[6].is = "privileges"
  /\ \E start, ttl \in 0..MaxU64 :
       /\ fields = Issued(VerifyKey, start, ttl, fields[6].parts)
       /\ start <= time /\ time < start + ttl /\ start + ttl <= MaxU64
=============================================================================
