------------------------------ MODULE ClientRpc ------------------------------
(***************************************************************************)
(* ClientConnection implements RpcCalls.                                   *)
(***************************************************************************)
EXTENDS ClientConnection

\* A call is active from the point where it takes its request id to the one
\* where it leaves send_request.
CallState(c) ==
  IF pc[c] \in {"idle", "id"} THEN "new"
  ELSE IF pc[c] = "done" THEN "returned" ELSE "active"

Rpc == INSTANCE RpcCalls WITH
  state   <- [c \in Calls |-> CallState(c)],
  id      <- rid,
  next_id <- next_request_id,
  answer  <- [c \in Calls |-> [kind |-> slot[c].kind, id |-> slot[c].id]],
  result  <- [c \in Calls |-> IF pc[c] = "done" THEN outcome[c] ELSE "none"]

\* Whatever the peer does and however the tasks interleave, the callers of
\* send_request see what RpcCalls promises: an id of their own, at most one
\* answer, which carries this id, and one return, with this answer or an error.
ImplementsRpcCalls == Rpc!Spec

\* On its way out a call carries the error or the answer it is about to return.
OutcomeTruthful ==
  \A c \in Calls :
    /\ pc[c] = "expire" => outcome[c] = "timeout"
    /\ pc[c] = "release" =>
         \/ outcome[c] = "timeout"
         \/ slot[c] # NoResponse /\ outcome[c] = slot[c].kind
    /\ pc[c] \in {"unregister", "untrack"} => outcome[c] \in {"sendfail", "flowclosed"}
=============================================================================
