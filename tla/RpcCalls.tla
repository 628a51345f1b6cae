------------------------------- MODULE RpcCalls -------------------------------
(***************************************************************************)
(* What a connection promises to those who call send_request on it: every  *)
(* call gets an id of its own, is answered at most once and only with an   *)
(* answer that carries this id, and returns once, with its answer or with  *)
(* a local error.  Nothing is said of packets, windows or tasks.           *)
(***************************************************************************)
EXTENDS Naturals

CONSTANT Calls

VARIABLES
  state,     \* of each call: "new", "active" or "returned"
  id,        \* the request id of each call, 0 before it has one
  next_id,   \* the next id
  answer,    \* what the connection has for the call: kind and id
  result     \* what the call returned

vars == <<state, id, next_id, answer, result>>

None == [kind |-> "none", id |-> 0]
LostAnswer == [kind |-> "lost", id |-> 0]

Init ==
  /\ state = [c \in Calls |-> "new"]
  /\ id = [c \in Calls |-> 0]
  /\ next_id = 1
  /\ answer = [c \in Calls |-> None]
  /\ result = [c \in Calls |-> "none"]

\* A closed connection takes no call.
Refuse(c) ==
  /\ state[c] = "new"
  /\ state' = [state EXCEPT ![c] = "returned"]
  /\ result' = [result EXCEPT ![c] = "refused"]
  /\ UNCHANGED <<id, next_id, answer>>

Begin(c) ==
  /\ state[c] = "new"
  /\ state' = [state EXCEPT ![c] = "active"]
  /\ id' = [id EXCEPT ![c] = next_id]
  /\ next_id' = next_id + 1
  /\ UNCHANGED <<answer, result>>

\* The peer's reply, or its error.
Answer(c) ==
  /\ state[c] = "active"
  /\ answer[c] = None
  /\ \E kind \in {"reply", "txerr"} :
       answer' = [answer EXCEPT ![c] = [kind |-> kind, id |-> id[c]]]
  /\ UNCHANGED <<state, id, next_id, result>>

\* The connection is lost: calls without an answer are told so, all at once.
Lose ==
  /\ \E S \in SUBSET {c \in Calls : state[c] = "active" /\ answer[c] = None} :
       answer' = [c \in Calls |-> IF c \in S THEN LostAnswer ELSE answer[c]]
  /\ UNCHANGED <<state, id, next_id, result>>

Return(c) ==
  /\ state[c] = "active"
  /\ state' = [state EXCEPT ![c] = "returned"]
  /\ \/ /\ answer[c] # None
        /\ result' = [result EXCEPT ![c] = answer[c].kind]
     \/ \E error \in {"timeout", "sendfail", "flowclosed"} :
          result' = [result EXCEPT ![c] = error]
  /\ UNCHANGED <<id, next_id, answer>>

Next ==
  \/ \E c \in Calls : Refuse(c) \/ Begin(c) \/ Answer(c) \/ Return(c)
  \/ Lose

Spec == Init /\ [][Next]_vars
=============================================================================
