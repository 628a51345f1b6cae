--------------------------- MODULE ServiceRegistry ---------------------------
(***************************************************************************)
(* The registry of services: discovery/service_registry.rs, fed by the     *)
(* multicast observer (discovery/observer.rs) and by the cache file.       *)
(*                                                                         *)
(* The index maps keys to lists of entries; since an entry is chosen at    *)
(* random, actions_by_key is the set of pairs of key and entry.  A reload  *)
(* holds the registry from its first to its last record; only the clock    *)
(* goes on meanwhile.  The clock never runs backwards.                     *)
(*                                                                         *)
(* A definition named ...Mutant is the definition after it with a bug; it  *)
(* is used by no other, and shows which property notices.                  *)
(***************************************************************************)
EXTENDS Announcement, Sequences, FiniteSets, HashMap

CONSTANTS
  CacheFiles,     \* what the cache file may hold: sequences of announcements
  FailureWindow,  \* seconds a failure counts: 86400
  BackoffUnit,    \* seconds of back-off per failure: 60
  BackoffCap,     \* failures that make a difference: 60
  MaxTime         \* bound on the clock

ASSUME RegistryAssumption ==
  /\ CacheFiles \subseteq Seq(Announcements)
  /\ FailureWindow \in Nat /\ BackoffUnit \in Nat \ {0} /\ BackoffCap \in Nat \ {0}
  /\ MaxTime \in Nat

VARIABLES
  now,              \* now_secs()
  actions_by_key,
  seen_timestamps,  \* the timestamp of the last announcement of each service
  failures,         \* of each identity: failure_times and reactivate_at
  loading,          \* the records a reload has yet to read
  auth              \* the authorized services that reload works with

indexVars == <<actions_by_key, seen_timestamps>>
loadVars  == <<loading, auth>>
registryVars == <<now, indexVars, failures, loadVars>>

Init ==
  /\ now = 0
  /\ actions_by_key = {} /\ seen_timestamps = EmptyMap
  /\ failures = EmptyMap
  /\ loading = <<>> /\ auth = {}

-----------------------------------------------------------------------------
(* inject_packet.                                                          *)

Expired(a) == 10 * now > 10 * a.timestamp + 21 * a.interval

Newer(a) ==
  ServiceOf(a) \in DOMAIN seen_timestamps =>
    a.timestamp > seen_timestamps[ServiceOf(a)]

Accepts(a) == a.valid /\ ~Expired(a) /\ Newer(a)

\* Only the keys of the new announcement are cleaned up.
KeptMutant2(a) ==
  IF ServiceOf(a) \in DOMAIN seen_timestamps
  THEN {o \in actions_by_key :
          \/ ServiceOf(o.entry) # ServiceOf(a)
          \/ o.key \notin {p.key : p \in Offers(a, Authorized)}}
  ELSE actions_by_key

\* What stays in the index: nothing of a service that was seen before.
\* The mutant goes by identity alone.
KeptMutant(a) ==
  IF ServiceOf(a) \in DOMAIN seen_timestamps
  THEN {o \in actions_by_key : o.entry.identity # a.identity}
  ELSE actions_by_key

Kept(a) ==
  IF ServiceOf(a) \in DOMAIN seen_timestamps
  THEN {o \in actions_by_key : ServiceOf(o.entry) # ServiceOf(a)}
  ELSE actions_by_key

Inject(a, rights) ==
  /\ Accepts(a)
  /\ seen_timestamps' = Insert(seen_timestamps, ServiceOf(a), a.timestamp)
  /\ actions_by_key' = Kept(a) \cup Offers(a, rights)

\* process_packet: the observer has received a.  A packet that is not accepted
\* changes nothing.
Observe(a) ==
  /\ loading = <<>>
  /\ Inject(a, Authorized)
  /\ UNCHANGED <<now, failures, loadVars>>

-----------------------------------------------------------------------------
(* reload_from_cache.  A file that cannot be opened changes nothing.       *)

Reload(file, rights) ==
  /\ loading = <<>>
  /\ actions_by_key' = {} /\ seen_timestamps' = EmptyMap
  /\ loading' = file /\ auth' = rights
  /\ UNCHANGED <<now, failures>>

LoadRecord ==
  /\ loading # <<>>
  /\ Inject(Head(loading), auth)
  /\ loading' = Tail(loading)
  /\ UNCHANGED <<now, failures, auth>>

SkipRecord ==
  /\ loading # <<>>
  /\ ~Accepts(Head(loading))
  /\ loading' = Tail(loading)
  /\ UNCHANGED <<now, indexVars, failures, auth>>

-----------------------------------------------------------------------------
(* Choosing an entry, and remembering failures.                            *)

\* find_action_with_envelope, up to the choice.
Candidates(key, envelope) ==
  {o.entry : o \in {p \in actions_by_key :
     p.key = key /\ p.entry.weight > 0 /\ p.entry.authorized
                 /\ envelope \in p.entry.envelopes}}

\* A service that has failed has failed.
IsFailedMutant(identity) == identity \in DOMAIN failures

IsFailed(identity) ==
  identity \in DOMAIN failures /\ now < failures[identity].reactivate_at

\* pick_healthy: one of these, at random.  The mutant never falls back.
PoolMutant(candidates) == {e \in candidates : ~IsFailed(e.identity)}

Pool(candidates) ==
  LET healthy == {e \in candidates : ~IsFailed(e.identity)}
  IN  IF healthy = {} THEN candidates ELSE healthy

FailureTimes(identity) ==
  IF identity \in DOMAIN failures THEN failures[identity].failure_times ELSE <<>>

\* The cap is forgotten.
BackoffMutant(times) == Len(times) * BackoffUnit

Backoff(times) ==
  (IF Len(times) < BackoffCap THEN Len(times) ELSE BackoffCap) * BackoffUnit

\* Failures count for ever.
RetainedMutant(times, cutoff) == times

\* Vec::retain in mark_failed: the failures that still count, in their order.
Retained(times, cutoff) ==
  LET kept[i \in 0..Len(times)] ==
        IF i = 0 THEN <<>>
        ELSE IF times[i] >= cutoff THEN Append(kept[i - 1], times[i]) ELSE kept[i - 1]
  IN  kept[Len(times)]

\* The times recorded are those of reactivation.
MarkFailedMutant(identity) ==
  LET recent == Retained(FailureTimes(identity), now - FailureWindow)
      until  == now + Backoff(Append(recent, now))
  IN  /\ failures' = Insert(failures, identity,
            [failure_times |-> Append(recent, until), reactivate_at |-> until])
      /\ UNCHANGED <<now, indexVars, loadVars>>

MarkFailed(identity) ==
  LET recent == Retained(FailureTimes(identity), now - FailureWindow)
      times  == Append(recent, now)
  IN  /\ failures' = Insert(failures, identity,
            [failure_times |-> times, reactivate_at |-> now + Backoff(times)])
      /\ UNCHANGED <<now, indexVars, loadVars>>

-----------------------------------------------------------------------------

Tick ==
  /\ now < MaxTime
  /\ now' = now + 1
  /\ UNCHANGED <<indexVars, failures, loadVars>>

\* Every call of the registry's interface that changes it.
Updates ==
  \/ \E a \in Announcements : Observe(a)
  \/ \E file \in CacheFiles, rights \in Loads : Reload(file, rights)
  \/ LoadRecord
  \/ SkipRecord

Identities == {a.identity : a \in Announcements}

Next ==
  \/ Updates
  \/ \E identity \in Identities : loading = <<>> /\ MarkFailed(identity)
  \/ Tick

Spec == Init /\ [][Next]_registryVars

-----------------------------------------------------------------------------

IndexTypes ==
  /\ actions_by_key \subseteq AllOffers
  /\ IsMap(seen_timestamps)
  /\ \A s \in DOMAIN seen_timestamps : seen_timestamps[s] \in Timestamps
  /\ loading \in Seq(Announcements) /\ auth \in Loads
  /\ now \in Nat

FailureTypes ==
  /\ DOMAIN failures \subseteq Identities
  /\ \A i \in DOMAIN failures : /\ failures[i].failure_times \in Seq(0..now)
                                /\ failures[i].reactivate_at \in Nat

TypeOK == IndexTypes /\ FailureTypes

\* Every entry comes from the last announcement accepted from its service:
\* inject_packet (service_registry.rs:103) leaves no entry of an earlier one
\* under any key, and drops no time stamp whose entries stay.
EntriesCurrent ==
  \A o \in actions_by_key :
    /\ ServiceOf(o.entry) \in DOMAIN seen_timestamps
    /\ o.entry.timestamp = seen_timestamps[ServiceOf(o.entry)]

\* What a service's last failure may cost it: at least one unit, at most
\* BackoffCap, and no more than one for each failure in the window before it.
BackoffJustified(state) ==
  LET times   == state.failure_times
      last    == times[Len(times)]
      counted == {n \in DOMAIN times : times[n] >= last - FailureWindow}
      backoff == state.reactivate_at - last
  IN  /\ BackoffUnit <= backoff
      /\ backoff <= BackoffUnit * BackoffCap
      /\ backoff <= BackoffUnit * Cardinality(counted)

\* However often services fail, and whoever reports it, each is avoided for as
\* long as its recent failures justify and the cap allows (service_registry.rs:217).
BackoffBounded == \A i \in DOMAIN failures : BackoffJustified(failures[i])

\* The registry is LatestAnnouncements: what it knows of a service is its time
\* stamp and its entries under all keys.
Latest ==
  [s \in DOMAIN seen_timestamps |->
     [timestamp |-> seen_timestamps[s],
      offers |-> {o \in actions_by_key : ServiceOf(o.entry) = s}]]

L == INSTANCE LatestAnnouncements WITH latest <- Latest

\* The code implements the promise: a newer announcement replaces everything its
\* service offered and nothing else, an older one changes nothing, and only
\* the clearing of reload_from_cache (service_registry.rs:174) forgets.
ImplementsLatest == L!Spec
=============================================================================
