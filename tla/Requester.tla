------------------------------ MODULE Requester ------------------------------
(***************************************************************************)
(* requester.rs: requests that choose a service, and after a dispatch      *)
(* failure mark a service failed and try once more.                        *)
(*                                                                         *)
(* from_config takes over a registry (here any that ServiceRegistry can    *)
(* produce) that nothing changes from then on but marks of failure.  The   *)
(* requests run on many threads: each look at the failures, each mark and  *)
(* each await is a step.  BeepishClient::request is external: it ends with *)
(* a response, a dispatch failure or an error.                             *)
(***************************************************************************)
EXTENDS ServiceRegistry

CONSTANTS
  Requests,
  Wanted     \* pairs of an index key and an envelope that requests ask for

VARIABLES
  opened,    \* from_config has returned
  place,     \* where each request is
  wanted,    \* what it asks for
  first,     \* the entry of its first dispatch
  blamed,    \* the entry whose identity it marks failed
  second,    \* the entry of its retry
  elsewhere  \* whether another service was healthy when the first failed

requestVars == <<place, wanted, first, blamed, second, elsewhere>>
requesterVars == <<registryVars, opened, requestVars>>

NoEntry == [identity |-> "none"]
Nothing == <<>>

RequesterInit ==
  /\ Init
  /\ opened = FALSE
  /\ place = [r \in Requests |-> "new"]
  /\ wanted = [r \in Requests |-> Nothing]
  /\ first = [r \in Requests |-> NoEntry]
  /\ blamed = [r \in Requests |-> NoEntry]
  /\ second = [r \in Requests |-> NoEntry]
  /\ elsewhere = [r \in Requests |-> FALSE]

FromConfig ==
  /\ ~opened
  /\ loading = <<>>
  /\ opened' = TRUE
  /\ UNCHANGED <<registryVars, requestVars>>

MayChoose(want) == Candidates(want[1], want[2])

\* find_action_with_envelope: NoEntry stands for None.
Find(want) == IF Pool(MayChoose(want)) = {} THEN {NoEntry} ELSE Pool(MayChoose(want))

At(r, here) == opened /\ place[r] = here

GoesTo(r, there) == place' = [place EXCEPT ![r] = there] /\ UNCHANGED opened

-----------------------------------------------------------------------------

\* dispatch_once, the first time.
Dispatch(r, want) ==
  /\ At(r, "new")
  /\ \E e \in Find(want) :
       /\ GoesTo(r, IF e = NoEntry THEN "not found" ELSE "waiting")
       /\ wanted' = [wanted EXCEPT ![r] = want]
       /\ first' = [first EXCEPT ![r] = e]
       /\ UNCHANGED <<registryVars, blamed, second, elsewhere>>

\* A response, or an error of the transport, is the result of the request;
\* after the retry so is a dispatch failure.
Return(r) ==
  /\ At(r, "waiting") \/ At(r, "waiting again")
  /\ GoesTo(r, "returned")
  /\ wanted' = [wanted EXCEPT ![r] = Nothing]
  /\ first' = [first EXCEPT ![r] = NoEntry]
  /\ second' = [second EXCEPT ![r] = NoEntry]
  /\ elsewhere' = [elsewhere EXCEPT ![r] = FALSE]
  /\ UNCHANGED <<registryVars, blamed>>

\* The service to blame is looked up anew.
DispatchFailure(r) ==
  /\ At(r, "waiting")
  /\ \E e \in Find(wanted[r]) :
       /\ GoesTo(r, IF e = NoEntry THEN "retrying" ELSE "marking")
       /\ blamed' = [blamed EXCEPT ![r] = e]
       /\ elsewhere' = [elsewhere EXCEPT ![r] =
            \E h \in MayChoose(wanted[r]) : /\ ServiceOf(h) # ServiceOf(first[r])
                                            /\ ~IsFailed(h.identity)]
       /\ UNCHANGED <<registryVars, wanted, first, second>>

\* HorizonBound: the clock can still go past the back-off.
HorizonBound == now + BackoffCap * BackoffUnit <= MaxTime

Mark(r) ==
  /\ HorizonBound
  /\ At(r, "marking")
  /\ GoesTo(r, "retrying")
  /\ MarkFailed(blamed[r].identity)
  /\ blamed' = [blamed EXCEPT ![r] = NoEntry]
  /\ UNCHANGED <<wanted, first, second, elsewhere>>

\* dispatch_once, the second time.
Retry(r) ==
  /\ At(r, "retrying")
  /\ \E e \in Find(wanted[r]) :
       /\ GoesTo(r, IF e = NoEntry THEN "not found" ELSE "waiting again")
       /\ second' = [second EXCEPT ![r] = e]
       /\ UNCHANGED <<registryVars, wanted, first, blamed, elsewhere>>

-----------------------------------------------------------------------------

Request(r) ==
  (\E want \in Wanted : Dispatch(r, want)) \/ Return(r) \/ DispatchFailure(r) \/ Mark(r) \/ Retry(r)

RequesterNext ==
  \/ ~opened /\ Updates /\ UNCHANGED <<opened, requestVars>>
  \/ FromConfig
  \/ \E r \in Requests : Request(r)
  \/ Tick /\ UNCHANGED <<opened, requestVars>>

RequesterSpec ==
  RequesterInit /\ [][RequesterNext]_requesterVars
                /\ WF_requesterVars(Tick /\ UNCHANGED <<opened, requestVars>>)

-----------------------------------------------------------------------------

\* A request that found its action finds it again for the retry, however many
\* services have been marked failed meanwhile: pick_healthy falls back to them
\* (service_registry.rs:247).
RetryFindsAction ==
  \A r \in Requests : place[r] = "not found" => first[r] = NoEntry

\* No service is avoided for ever: once marked failed it is healthy again after
\* its back-off, unless it fails again (service_registry.rs:274).
FailedReactivates ==
  \A i \in Identities : IsFailed(i) ~> ~IsFailed(i)

\* "Retries once on dispatch_failure with a different service instance"
\* (requester.rs:56): if another one was healthy when the first failed, the
\* retry goes to another.
RetryElsewhere ==
  \A r \in Requests :
    place[r] = "waiting again" /\ elsewhere[r] => ServiceOf(second[r]) # ServiceOf(first[r])
=============================================================================
