---------------------------- MODULE AccessChecks ----------------------------
(***************************************************************************)
(* AuthzChecker::check_access by the connection tasks of a service, with   *)
(* the table fetched from the Auth service, cached, and fetched again when *)
(* it is too old (auth/authz.rs).  A fetch is a request (requester.rs)     *)
(* through the client's pool.                                              *)
(*                                                                         *)
(* A call is timed from the moment it has been sent, to the second: no     *)
(* answer is awaited longer than RpcTimeout.  Sending is not timed: HEADER,*)
(* DATA and EOF wait for a place in the connection's channel.              *)
(***************************************************************************)
EXTENDS ConnectionPool, Ticket

CONSTANTS
  Tickets,      \* texts that come with requests
  Actions,      \* that are asked for
  Answers,      \* texts of the Auth service's table
  Ttl,          \* seconds a table is used: 300
  RpcTimeout,   \* seconds an answer is awaited: 75, or what is announced and 5 more
  MaxTime       \* bound on the clock when a check begins

ASSUME AccessAssumption ==
  /\ Ttl \in Nat \ {0} /\ RpcTimeout \in Nat /\ MaxTime \in Nat
  /\ \A text \in Answers :
       Len(text.entries) \in Nat /\ DOMAIN text.entries = 1..Len(text.entries)

VARIABLES
  now,
  cached,       \* what has been parsed, and when it expires
  authTable,    \* the text the Auth service answers with
  lastCurrent,  \* when each text was that, last
  place,        \* where each check is
  action,       \* that it is about
  privileges,   \* of its ticket
  retried,      \* whether its request has been sent a second time
  asked,        \* when its request was sent
  answer        \* the text on its way to it

authVars  == <<authTable, lastCurrent>>
checkVars == <<place, action, privileges, retried, asked, answer>>
accessVars == <<poolVars, now, cached, authVars, checkVars>>

NoTable  == [table |-> EmptyMap, expires |-> 0 - 1]   \* never fresh
NoAction == "no action"
NoAnswer == [entries |-> <<>>]
Never    == 0 - Ttl - RpcTimeout

AccessInit ==
  /\ PoolInit
  /\ now = 0 /\ cached = NoTable
  /\ authTable \in Answers
  /\ lastCurrent = [a \in Answers |-> IF a = authTable THEN 0 ELSE Never]
  /\ place = [c \in Callers |-> "idle"]
  /\ action = [c \in Callers |-> NoAction]
  /\ privileges = [c \in Callers |-> {}]
  /\ retried = [c \in Callers |-> FALSE]
  /\ asked = [c \in Callers |-> 0]
  /\ answer = [c \in Callers |-> NoAnswer]

-----------------------------------------------------------------------------

Moves(c, from, to) == place[c] = from /\ place' = [place EXCEPT ![c] = to]

\* check_access returns, granted or not; what the check has kept is dropped.
Returns(c, verdict) ==
  /\ place' = [place EXCEPT ![c] = verdict]
  /\ action' = [action EXCEPT ![c] = NoAction]
  /\ privileges' = [privileges EXCEPT ![c] = {}]
  /\ retried' = [retried EXCEPT ![c] = FALSE]
  /\ asked' = [asked EXCEPT ![c] = 0]
  /\ answer' = [answer EXCEPT ![c] = NoAnswer]

Decides(c, table) ==
  Returns(c, IF Grants(table, action[c], privileges[c]) THEN "granted" ELSE "idle")

\* The ticket is verified once, here.
Begin(c, fields, a) ==
  /\ place[c] \in {"idle", "granted"} /\ now < MaxTime
  /\ IF Verify(fields, now).ok
     THEN /\ place' = [place EXCEPT ![c] = "verified"]
          /\ action' = [action EXCEPT ![c] = a]
          /\ privileges' = [privileges EXCEPT ![c] = Verify(fields, now).ticket.privileges]
          /\ UNCHANGED <<retried, asked, answer>>
     ELSE Returns(c, "idle")
  /\ UNCHANGED <<poolVars, now, cached, authVars>>

\* A second too long.
IsFreshMutant == now <= cached.expires

IsFresh == now < cached.expires

UsesCache(c) ==
  /\ place[c] = "verified" /\ IsFresh
  /\ Decides(c, cached.table)
  /\ UNCHANGED <<poolVars, now, cached, authVars>>

\* dispatch_once finds a service, and asks for a connection.
MissesCache(c, u) ==
  /\ ~IsFresh /\ Moves(c, "verified", "connecting") /\ Ask(c, u)
  /\ UNCHANGED <<now, cached, authVars, action, privileges, retried, asked, answer>>

-----------------------------------------------------------------------------
(* The request for the table.                                              *)

Retries(c, u) ==
  /\ Moves(c, "retrying", "connecting") /\ Ask(c, u)
  /\ UNCHANGED <<now, cached, authVars, action, privileges, retried, asked, answer>>

FindsNone(c) ==
  /\ place[c] = "retrying" \/ (place[c] = "verified" /\ ~IsFresh)
  /\ Returns(c, "idle")
  /\ UNCHANGED <<poolVars, now, cached, authVars>>

IsOpen(c) == handle[c] \in DOMAIN opened \ closed

\* The request is registered, and its packets are offered to the writer.
Sends(c) ==
  /\ at[c] = "served" /\ IsOpen(c)
  /\ Moves(c, "connecting", "sending")
  /\ UNCHANGED <<poolVars, now, cached, authVars, action, privileges, retried, asked, answer>>

\* The writer has taken the last of them, if only because the peer reads.
Sent(c) ==
  /\ Moves(c, "sending", "asking")
  /\ asked' = [asked EXCEPT ![c] = now]
  /\ UNCHANGED <<poolVars, now, cached, authVars, action, privileges, retried, answer>>

\* The writer has ended.
SendFails(c) ==
  /\ place[c] = "sending" /\ ~IsOpen(c)
  /\ Returns(c, "idle") /\ LetGo(c)
  /\ UNCHANGED <<now, cached, authVars>>

\* No connection, or one that has closed meanwhile.
CannotSend(c) ==
  /\ place[c] = "connecting"
  /\ at[c] = "failed" \/ (at[c] = "served" /\ ~IsOpen(c))
  /\ Returns(c, "idle") /\ LetGo(c)
  /\ UNCHANGED <<now, cached, authVars>>

AuthAnswers(c) ==
  /\ IsOpen(c) /\ Moves(c, "asking", "answered")
  /\ answer' = [answer EXCEPT ![c] = authTable]
  /\ UNCHANGED <<poolVars, now, cached, authVars, action, privileges, retried, asked>>

\* An error, or what is no table.
AuthErrs(c) ==
  /\ IsOpen(c) /\ place[c] = "asking"
  /\ Returns(c, "idle") /\ LetGo(c)
  /\ UNCHANGED <<now, cached, authVars>>

\* A dispatch failure, the first time; the second is an error like others.
DispatchFailure(c) ==
  /\ IsOpen(c) /\ ~retried[c] /\ Moves(c, "asking", "retrying")
  /\ retried' = [retried EXCEPT ![c] = TRUE]
  /\ asked' = [asked EXCEPT ![c] = 0]
  /\ LetGo(c)
  /\ UNCHANGED <<now, cached, authVars, action, privileges, answer>>

Awaits(c) == place[c] \in {"asking", "answered"}
Overdue(c) == Awaits(c) /\ now >= asked[c] + RpcTimeout

\* The connection is lost, or the request times out.
GetsNone(c) ==
  /\ Overdue(c) \/ (Awaits(c) /\ ~IsOpen(c))
  /\ Returns(c, "idle") /\ LetGo(c)
  /\ UNCHANGED <<now, cached, authVars>>

\* The answer is parsed, and takes the place of what was cached, be that newer.
Receives(c) ==
  LET table == PrivilegeTable(answer[c])
  IN  /\ place[c] = "answered"
      /\ cached' = [table |-> table, expires |-> now + Ttl]
      /\ Decides(c, table) /\ LetGo(c)
      /\ UNCHANGED <<now, authVars>>

-----------------------------------------------------------------------------

Dials(c) == Connecting(c) /\ UNCHANGED <<now, cached, authVars, checkVars>>

Closes == (\E h \in DOMAIN opened : Close(h)) /\ UNCHANGED <<now, cached, authVars, checkVars>>

\* The Auth service has another table.
AuthChanges(a) ==
  /\ authTable' = a /\ lastCurrent' = [lastCurrent EXCEPT ![a] = now]
  /\ UNCHANGED <<poolVars, now, cached, checkVars>>

\* An answer that is due is not awaited into the next second.
Tick ==
  /\ now < MaxTime \/ \E c \in Callers : Awaits(c)
  /\ \A c \in Callers : ~Overdue(c)
  /\ now' = now + 1
  /\ lastCurrent' = [lastCurrent EXCEPT ![authTable] = now + 1]
  /\ UNCHANGED <<poolVars, cached, authTable, checkVars>>

Looks(c) == UsesCache(c) \/ FindsNone(c) \/ \E u \in Uris : MissesCache(c, u) \/ Retries(c, u)
Uses(c) == Sends(c) \/ CannotSend(c)

Check(c) ==
  \/ \E fields \in Tickets, a \in Actions : Begin(c, fields, a)
  \/ Looks(c) \/ Dials(c) \/ Uses(c) \/ Sent(c) \/ SendFails(c)
  \/ AuthAnswers(c) \/ AuthErrs(c) \/ DispatchFailure(c) \/ GetsNone(c) \/ Receives(c)

AccessNext ==
  \/ \E c \in Callers : Check(c)
  \/ \E a \in Answers : AuthChanges(a)
  \/ Closes \/ Tick

\* The code's own steps, and its timers; not what the peer must read or answer for.
AccessFairness ==
  /\ WF_accessVars(Tick)
  /\ \A c \in Callers :
       /\ WF_accessVars(Looks(c)) /\ WF_accessVars(Dials(c))
       /\ WF_accessVars(Uses(c)) /\ WF_accessVars(GetsNone(c))

AccessSpec == AccessInit /\ [][AccessNext]_accessVars
FairAccessSpec == AccessSpec /\ AccessFairness

-----------------------------------------------------------------------------

TypeOK ==
  /\ PoolTypeOK
  /\ now \in Nat /\ cached.expires \in -1..(now + Ttl)
  /\ authTable \in Answers /\ lastCurrent \in [Answers -> Never..now]
  /\ place \in [Callers -> {"idle", "verified", "connecting", "retrying", "sending",
                            "asking", "answered", "granted"}]
  /\ action \in [Callers -> Actions \cup {NoAction}]
  /\ \A c \in Callers : privileges[c] \subseteq 0..MaxU64
  /\ retried \in [Callers -> BOOLEAN] /\ asked \in [Callers -> 0..now]
  /\ answer \in [Callers -> Answers \cup {NoAnswer}]
  /\ \A c \in Callers : place[c] \in {"connecting", "sending", "asking", "answered"} <=> at[c] # "idle"

\* What the text of a table says of an action, read by its last entry for it.
Justifies(text, a, held) ==
  \E i \in Listed(text) :
    /\ text.entries[i].word = a
    /\ \A j \in Listed(text) : j > i => text.entries[j].word # a
    /\ Numbers(text.entries[i].value.parts) \subseteq held

\* Access is only granted by a table the Auth service had not longer ago than the
\* cache's time and that of one request, however many checks fetch at once and
\* whichever of them writes the cache last (authz.rs:105).
GrantsJustified ==
  [][\A c \in Callers :
       place'[c] = "granted" /\ place[c] # "granted" =>
         \E text \in Answers :
           /\ lastCurrent[text] > now - Ttl - RpcTimeout
           /\ Justifies(text, action[c], privileges[c])]_accessVars

\* Every check ends, though all wait for the connection one of them makes, the
\* Auth service does not answer, or connections fail and close (connection.rs:55):
\* all but one whose request stays for ever in the sending, which has no time-out
\* (connection.rs:192), and that one keeps no other check.
ChecksEnd ==
  \A c \in Callers :
    place[c] = "verified" ~>
      (place[c] \in {"idle", "granted"} \/ [](place[c] = "sending"))
=============================================================================
