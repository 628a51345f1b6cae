----------------------------- MODULE MCRequester -----------------------------
(***************************************************************************)
(* Model checking Requester and, below it, ServiceRegistry: two services   *)
(* that share an identity under different certificates, and a third.  A    *)
(* behaviour has the whole bus and a few requests, or one service and more *)
(* of them.                                                                *)
(***************************************************************************)
EXTENDS Requester

Get    == [key |-> "get", aliases |-> {"_read"}, envelopes |-> {"json"}]
List   == [key |-> "list", aliases |-> {}, envelopes |-> {"json", "jsonstore"}]

Packet(fingerprint, identity, timestamp, weight, actions) ==
  [fingerprint |-> fingerprint, identity |-> identity, timestamp |-> timestamp,
   interval |-> 1, weight |-> weight, valid |-> TRUE, actions |-> actions]

\* The first service at three times: it moves, and says goodbye in the same
\* second as it announces something else.
One1 == Packet("f", "one", 1, 1, {Get, List})
One2 == Packet("f", "one", 2, 1, {Get})
One3 == Packet("f", "one", 2, 0, {Get})
\* Another certificate under the same identity.
Twin == Packet("g", "one", 1, 1, {Get})
Two  == Packet("g", "two", 2, 1, {Get})
Forged == [One2 EXCEPT !.valid = FALSE, !.timestamp = 3]

Bus == {One1, One2, One3, Twin, Two, Forged}
Files == {<<One2, One1, Twin>>, <<Twin, Forged, Two>>}
Rights == {<<"f", "get">>, <<"g", "get">>, <<"f", "list">>}
\* By an alias, and by an envelope that only one service takes.
Lookups == {<<"_read", "json">>, <<"list", "jsonstore">>}

\* Two services of their own.
Pair == {One1, Two}
PairFile == {<<One1, Two>>}

-----------------------------------------------------------------------------

CONSTANT Few   \* the requests that are made of the whole bus

VARIABLE scene

\* A few requests of whatever the bus brings.
OnTheBus == \A r \in Requests \ Few : place'[r] = "new"

\* Or all of them, for one action of one service: more failures than the cap counts.
OfOneService ==
  /\ loading' = <<>>
  /\ \A s \in DOMAIN seen_timestamps' :
       s = ServiceOf(One1) /\ seen_timestamps'[s] = One1.timestamp
  /\ \A r \in Requests : wanted'[r] \in {Nothing, <<"_read", "json">>}

MCInit == RequesterInit /\ scene \in {"bus", "one service"}

MCNext ==
  /\ RequesterNext
  /\ IF scene = "bus" THEN OnTheBus ELSE OfOneService
  /\ UNCHANGED scene

MCSpec ==
  MCInit /\ [][MCNext]_<<requesterVars, scene>>
         /\ WF_requesterVars(Tick /\ UNCHANGED <<opened, requestVars>>)
=============================================================================
