--------------------------- MODULE ConnectionPool ---------------------------
(***************************************************************************)
(* BeepishClient: the pool of connections that all calls of a client       *)
(* share (client/connection.rs).                                           *)
(*                                                                         *)
(* The pool's mutex is tokio's: first come, first served, and held across  *)
(* await; lock is its queue, the first in it holds it.  A handle is the    *)
(* number of its connection.  What a caller does with it is not said here; *)
(* any connection may close at any time.  TCP and TLS connect are one      *)
(* await, which ends in time either way.                                   *)
(*                                                                         *)
(* A definition named ...Mutant is the definition after it with a bug; it  *)
(* is used by no other, and shows which property notices.                  *)
(***************************************************************************)
EXTENDS Integers, FiniteSets, SequencesExt, HashMap

CONSTANTS
  Callers,      \* calls that may be going on
  Uris,         \* where services are
  MaxConnects   \* bound on the connections ever made

ASSUME PoolAssumption == MaxConnects \in Nat

VARIABLES
  connections,  \* uri -> handle
  lock,         \* callers that hold it or wait for it
  opened,       \* the uri of each connection made
  closed,       \* handles whose closed flag is set
  at,           \* where each caller is in get_connection
  uri,          \* that it has asked for
  handle        \* that it has been given

callerVars == <<at, uri, handle>>
poolVars == <<connections, lock, opened, closed, callerVars>>

NoUri == "no uri"
NoHandle == 0

PoolInit ==
  /\ connections = EmptyMap /\ lock = <<>>
  /\ opened = <<>> /\ closed = {}
  /\ at = [c \in Callers |-> "idle"]
  /\ uri = [c \in Callers |-> NoUri]
  /\ handle = [c \in Callers |-> NoHandle]

-----------------------------------------------------------------------------

\* The mutex lets several in.
HoldsMutant(c) == Contains(lock, c)

Holds(c) == lock # <<>> /\ Head(lock) = c

\* The first in the queue leaves it.
Release == lock' = Tail(lock)

Goes(c, from, to) == at[c] = from /\ at' = [at EXCEPT ![c] = to]

Live(u) == u \in DOMAIN connections /\ connections[u] \notin closed

\* get_connection is called.
Ask(c, u) ==
  /\ Goes(c, "idle", "queued")
  /\ lock' = Append(lock, c)
  /\ uri' = [uri EXCEPT ![c] = u]
  /\ UNCHANGED <<connections, opened, closed, handle>>

Reuse(c) ==
  /\ Holds(c) /\ Live(uri[c])
  /\ Goes(c, "queued", "served")
  /\ handle' = [handle EXCEPT ![c] = connections[uri[c]]]
  /\ Release
  /\ UNCHANGED <<connections, opened, closed, uri>>

Miss(c) ==
  /\ Holds(c) /\ ~Live(uri[c])
  /\ Goes(c, "queued", "dialing")
  /\ connections' = Without(connections, uri[c])
  /\ UNCHANGED <<lock, opened, closed, uri, handle>>

\* The error goes out with the lock.
ConnectFailsMutant(c) ==
  /\ Holds(c) /\ Goes(c, "dialing", "failed")
  /\ UNCHANGED <<connections, lock, opened, closed, uri, handle>>

\* A bad uri, a refusal, either of the two time-outs, another certificate than announced.
ConnectFails(c) ==
  /\ Holds(c) /\ Goes(c, "dialing", "failed")
  /\ Release
  /\ UNCHANGED <<connections, opened, closed, uri, handle>>

Connects(c) ==
  LET h == Len(opened) + 1
  IN  /\ Holds(c) /\ h <= MaxConnects
      /\ Goes(c, "dialing", "served")
      /\ opened' = Append(opened, uri[c])
      /\ connections' = Insert(connections, uri[c], h)
      /\ handle' = [handle EXCEPT ![c] = h]
      /\ Release
      /\ UNCHANGED <<closed, uri>>

\* The reader of a connection ends.
Close(h) ==
  /\ h \in DOMAIN opened \ closed
  /\ closed' = closed \cup {h}
  /\ UNCHANGED <<connections, lock, opened, callerVars>>

\* The caller is done with the handle, or with the error.
LetGo(c) ==
  /\ Goes(c, "served", "idle") \/ Goes(c, "failed", "idle")
  /\ uri' = [uri EXCEPT ![c] = NoUri]
  /\ handle' = [handle EXCEPT ![c] = NoHandle]
  /\ UNCHANGED <<connections, lock, opened, closed>>

-----------------------------------------------------------------------------

\* What get_connection does by itself.
Connecting(c) ==
  Reuse(c) \/ Miss(c) \/ Connects(c) \/ ConnectFails(c)

PoolNext ==
  \/ \E c \in Callers : Connecting(c) \/ LetGo(c) \/ \E u \in Uris : Ask(c, u)
  \/ \E h \in DOMAIN opened : Close(h)

PoolSpec == PoolInit /\ [][PoolNext]_poolVars

-----------------------------------------------------------------------------

InLock(c) == at[c] \in {"queued", "dialing"}

\* The queue of the mutex is made of those inside get_connection, once each.
PoolTypeOK ==
  /\ opened \in Seq(Uris) /\ closed \subseteq DOMAIN opened
  /\ DOMAIN connections \subseteq Uris
  /\ \A u \in DOMAIN connections : connections[u] \in DOMAIN opened
  /\ at \in [Callers -> {"idle", "queued", "dialing", "served", "failed"}]
  /\ uri \in [Callers -> Uris \cup {NoUri}]
  /\ handle \in [Callers -> DOMAIN opened \cup {NoHandle}]
  /\ lock \in Seq(Callers) /\ IsInjective(lock)
  /\ Range(lock) = {c \in Callers : InLock(c)}

\* A client has one live connection to a service at most: every connection that
\* is not closed is the one the pool hands out for its uri, whoever connects at the
\* same time and whatever fails or closes meanwhile (connection.rs:55).
OneLivePerUri ==
  \A h \in DOMAIN opened \ closed :
    opened[h] \in DOMAIN connections /\ connections[opened[h]] = h
=============================================================================
