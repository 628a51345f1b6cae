--------------------------- MODULE Requester_proofs ---------------------------
(***************************************************************************)
(* The registry and the requester that uses it, proved for any             *)
(* announcements, cache files and rights, and any number of requests.      *)
(*                                                                         *)
(* The registry's index holds entries of each service's last accepted      *)
(* announcement only, and it implements LatestAnnouncements.  Only         *)
(* inject_packet and the start of a reload touch the index.  Both facts    *)
(* need that an entry's service is always among those with a time stamp:   *)
(* inject_packet cleans up after a service it has seen, and only after     *)
(* such a one.                                                             *)
(*                                                                         *)
(* What requests do to the registry they took over are marks of failure    *)
(* on services of the bus, which are steps of ServiceRegistry; and these   *)
(* leave the index alone, so whoever was a candidate stays one.            *)
(***************************************************************************)
EXTENDS Requester, DataTheorems, FiniteSetTheorems, TLAPS

-----------------------------------------------------------------------------
(* The registry.                                                           *)

\* What an announcement offers carries its service and its time stamp.
LEMMA OffersOwned ==
  ASSUME NEW a, NEW rights, NEW o \in Offers(a, rights)
  PROVE  /\ ServiceOf(o.entry) = ServiceOf(a)
         /\ o.entry.timestamp = a.timestamp
<1>1. \E action, key, authorized :
        o = [key |-> key, entry |-> EntryOf(a, action, authorized)]
  <2>1. ASSUME NEW action \in a.actions,
               o = [key |-> action.key,
                    entry |-> EntryOf(a, action, <<a.fingerprint, action.key>> \in rights)]
        PROVE  \E b, key, authorized : o = [key |-> key, entry |-> EntryOf(a, b, authorized)]
    BY <2>1
  <2>2. ASSUME NEW action \in a.actions, NEW alias \in action.aliases,
               o = [key |-> alias, entry |-> EntryOf(a, action, TRUE)]
        PROVE  \E b, key, authorized : o = [key |-> key, entry |-> EntryOf(a, b, authorized)]
    BY <2>2
  <2> QED BY <2>1, <2>2 DEF Offers
<1>2. PICK action, key, authorized :
        o = [key |-> key, entry |-> EntryOf(a, action, authorized)]
  BY <1>1
<1>3. o.entry = EntryOf(a, action, authorized)
  BY <1>2
<1> QED BY <1>3 DEF EntryOf, ServiceOf

\* Every step leaves the index alone, injects one announcement, or clears it.
LEMMA IndexSteps ==
  ASSUME Next, IndexTypes
  PROVE  \/ UNCHANGED indexVars
         \/ \E a \in Announcements, rights \in Loads : Inject(a, rights)
         \/ actions_by_key' = {} /\ seen_timestamps' = EmptyMap
<1>1. CASE \E a \in Announcements : Observe(a)
  BY <1>1 DEF Observe, Loads
<1>2. CASE \E file \in CacheFiles, rights \in Loads : Reload(file, rights)
  BY <1>2 DEF Reload
<1>3. CASE LoadRecord
  <2>1. Head(loading) \in Announcements /\ auth \in Loads
    BY <1>3 DEF LoadRecord, IndexTypes
  <2> QED BY <1>3, <2>1 DEF LoadRecord
<1>4. CASE SkipRecord
  BY <1>4 DEF SkipRecord, indexVars
<1>5. CASE \E i \in Identities : loading = <<>> /\ MarkFailed(i)
  BY <1>5 DEF MarkFailed, indexVars
<1>6. CASE Tick
  BY <1>6 DEF Tick, indexVars
<1> QED BY <1>1, <1>2, <1>3, <1>4, <1>5, <1>6 DEF Next, Updates

-----------------------------------------------------------------------------

\* The parts of the registry a reload and inject_packet work on keep their types.
LEMMA TypesStep ==
  ASSUME IndexTypes, [Next]_registryVars
  PROVE  IndexTypes'
<1>1. CASE UNCHANGED registryVars
  BY <1>1 DEF IndexTypes, registryVars, indexVars, loadVars
<1>2. CASE Next
  <2>1. actions_by_key' \subseteq AllOffers
    <3>1. ASSUME NEW a \in Announcements, NEW rights \in Loads, Inject(a, rights)
          PROVE  actions_by_key' \subseteq AllOffers
      <4>1. Offers(a, rights) \subseteq AllOffers
        BY DEF AllOffers
      <4>2. Kept(a) \subseteq actions_by_key
        BY DEF Kept
      <4> QED BY <3>1, <4>1, <4>2 DEF Inject, IndexTypes
    <3> QED BY <1>2, <3>1, IndexSteps DEF IndexTypes, indexVars
  <2>2. /\ IsMap(seen_timestamps)'
        /\ \A s \in DOMAIN seen_timestamps' : seen_timestamps'[s] \in Timestamps
    <3>1. ASSUME NEW a \in Announcements, NEW rights \in Loads, Inject(a, rights)
          PROVE  /\ IsMap(seen_timestamps)'
                 /\ \A s \in DOMAIN seen_timestamps' : seen_timestamps'[s] \in Timestamps
      <4>1. a.timestamp \in Timestamps
        BY DEF Timestamps
      <4>2. seen_timestamps' = Insert(seen_timestamps, ServiceOf(a), a.timestamp)
        BY <3>1 DEF Inject
      <4> QED BY <4>1, <4>2 DEF Insert, IsMap, IndexTypes
    <3>2. CASE seen_timestamps' = EmptyMap
      BY <3>2 DEF EmptyMap, IsMap
    <3> QED BY <1>2, <3>1, <3>2, IndexSteps DEF IndexTypes, indexVars
  <2>3. loading' \in Seq(Announcements) /\ auth' \in Loads /\ now' \in Nat
    <3>1. CASE \E a \in Announcements : Observe(a)
      BY <3>1 DEF Observe, loadVars, IndexTypes
    <3>2. CASE \E file \in CacheFiles, rights \in Loads : Reload(file, rights)
      BY <3>2, RegistryAssumption DEF Reload, IndexTypes
    <3>3. CASE LoadRecord \/ SkipRecord
      <4>1. loading # <<>> /\ loading' = Tail(loading) /\ UNCHANGED <<auth, now>>
        BY <3>3 DEF LoadRecord, SkipRecord
      <4>2. loading' \in Seq(Announcements)
        BY <4>1 DEF IndexTypes
      <4> QED BY <4>1, <4>2 DEF IndexTypes
    <3>4. CASE \E i \in Identities : loading = <<>> /\ MarkFailed(i)
      BY <3>4 DEF MarkFailed, loadVars, IndexTypes
    <3>5. CASE Tick
      BY <3>5 DEF Tick, loadVars, IndexTypes
    <3> QED BY <1>2, <3>1, <3>2, <3>3, <3>4, <3>5 DEF Next, Updates
  <2> QED BY <2>1, <2>2, <2>3 DEF IndexTypes
<1> QED BY <1>1, <1>2

LEMMA IndexTypedAtFirst == Init => IndexTypes
<1>1. <<>> \in Seq(Announcements)
  OBVIOUS
<1>2. IsMap(EmptyMap) /\ DOMAIN EmptyMap = {}
  BY EmptyMapFacts
<1> QED BY <1>1, <1>2 DEF Init, IndexTypes, Loads

\* So they are typed in every state.
THEOREM IndexTyped == Spec => []IndexTypes
<1>1. IndexTypes /\ [Next]_registryVars => IndexTypes'
  BY TypesStep
<1> QED BY <1>1, IndexTypedAtFirst, PTL DEF Spec

\* inject_packet and the clearing of a reload leave no entry whose service has a
\* newer announcement, or none.
LEMMA CurrentStep ==
  ASSUME IndexTypes, EntriesCurrent, [Next]_registryVars
  PROVE  EntriesCurrent'
<1>1. CASE UNCHANGED indexVars
  BY <1>1 DEF EntriesCurrent, indexVars
<1>2. ASSUME NEW a \in Announcements, NEW rights \in Loads, Inject(a, rights)
      PROVE  EntriesCurrent'
  <2> DEFINE s == ServiceOf(a)
  <2>1. /\ actions_by_key' = Kept(a) \cup Offers(a, rights)
        /\ seen_timestamps' = Insert(seen_timestamps, s, a.timestamp)
    BY <1>2 DEF Inject
  <2>2. /\ DOMAIN seen_timestamps' = DOMAIN seen_timestamps \cup {s}
        /\ seen_timestamps'[s] = a.timestamp
        /\ \A t \in DOMAIN seen_timestamps : t # s => seen_timestamps'[t] = seen_timestamps[t]
    BY <2>1 DEF Insert
  <2>3. ASSUME NEW o \in Kept(a)
        PROVE  /\ ServiceOf(o.entry) \in DOMAIN seen_timestamps'
               /\ o.entry.timestamp = seen_timestamps'[ServiceOf(o.entry)]
    <3>1. o \in actions_by_key /\ ServiceOf(o.entry) # s
      BY DEF Kept, EntriesCurrent
    <3> QED BY <3>1, <2>2 DEF EntriesCurrent
  <2>4. ASSUME NEW o \in Offers(a, rights)
        PROVE  /\ ServiceOf(o.entry) \in DOMAIN seen_timestamps'
               /\ o.entry.timestamp = seen_timestamps'[ServiceOf(o.entry)]
    BY <2>2, OffersOwned
  <2> QED BY <2>1, <2>3, <2>4 DEF EntriesCurrent
<1>3. CASE actions_by_key' = {} /\ seen_timestamps' = EmptyMap
  BY <1>3 DEF EntriesCurrent
<1>4. CASE UNCHANGED registryVars
  BY <1>1, <1>4 DEF registryVars, indexVars
<1> QED BY <1>1, <1>2, <1>3, <1>4, IndexSteps

\* Every entry of the index is of its service's last accepted announcement, for
\* any announcements in any order, any reloads and any clock.
THEOREM Current == Spec => []EntriesCurrent
<1>1. Init => EntriesCurrent
  BY DEF Init, EntriesCurrent
<1>2. IndexTypes /\ EntriesCurrent /\ [Next]_registryVars => EntriesCurrent'
  BY CurrentStep
<1> QED BY <1>1, <1>2, IndexTyped, PTL DEF Spec

-----------------------------------------------------------------------------
(* Failures.                                                               *)

\* What retain makes of a list is a list of those of its things that are not below
\* the cut-off.
LEMMA RetainedTyped ==
  ASSUME NEW T, NEW times \in Seq(T), NEW cutoff
  PROVE  Retained(times, cutoff) \in Seq({t \in T : t >= cutoff})
<1> DEFINE R == {t \in T : t >= cutoff}
           n == Len(times)
           upon(kept, i) == IF i = 0 THEN <<>>
                            ELSE IF times[i] >= cutoff THEN Append(kept[i - 1], times[i])
                            ELSE kept[i - 1]
           kept == CHOOSE g : g = [i \in 0..n |-> upon(g, i)]
           step == [i \in 1..n |-> [s \in Seq(R) |->
                      IF times[i] >= cutoff THEN Append(s, times[i]) ELSE s]]
<1>1. n \in Nat /\ <<>> \in Seq(R) /\ \A i \in 1..n : times[i] \in T
  OBVIOUS
<1>2. step \in [1..n -> [Seq(R) -> Seq(R)]]
  <2>1. ASSUME NEW i \in 1..n, NEW s \in Seq(R), times[i] >= cutoff
        PROVE  Append(s, times[i]) \in Seq(R)
    <3>1. times[i] \in R
      BY <1>1, <2>1
    <3> HIDE DEF R
    <3> QED BY <3>1
  <2> HIDE DEF R
  <2> QED BY <2>1
<1>3. PICK f \in FromStart(Seq(R), n, <<>>, step) : TRUE
  <2>1. PICK S, base : S = Seq(R) /\ base = <<>>
    OBVIOUS
  <2> HIDE DEF step, n
  <2>2. base \in S /\ step \in [1..n -> [S -> S]] /\ n \in Nat
    BY <1>1, <1>2, <2>1
  <2>3. FromStart(S, n, base, step) # {}
    BY ONLY <2>2, RecursionFromStart
  <2> QED BY <2>1, <2>3
<1>4. f = [i \in 0..n |-> upon(f, i)]
  <2>1. /\ f \in [0..n -> Seq(R)] /\ f[0] = <<>>
        /\ \A i \in 1..n : f[i] = step[i][f[i - 1]]
    BY <1>3 DEF FromStart
  <2>2. ASSUME NEW i \in 0..n PROVE f[i] = upon(f, i)
    <3>1. CASE i = 0
      BY <2>1, <3>1
    <3>2. CASE i # 0
      <4>1. i \in 1..n /\ i - 1 \in 0..n
        BY <1>1, <3>2
      <4>2. f[i - 1] \in Seq(R) /\ f[i] = step[i][f[i - 1]]
        BY <2>1, <4>1
      <4> QED BY <3>2, <4>1, <4>2
    <3> QED BY <3>1, <3>2
  <2> QED BY <2>1, <2>2
<1>5. kept = [i \in 0..n |-> upon(kept, i)]
  <2> HIDE DEF upon, n
  <2> QED BY <1>4
<1> DEFINE K == {i \in Nat : i <= n => kept[i] \in Seq(R)}
<1>6. 0 \in K
  <2> HIDE DEF kept
  <2> QED BY <1>1, <1>5
<1>7. ASSUME NEW i \in Nat, i \in K PROVE i + 1 \in K
  <2> HIDE DEF kept
  <2> SUFFICES ASSUME i + 1 <= n PROVE kept[i + 1] \in Seq(R)
    OBVIOUS
  <2>1. i + 1 \in 1..n /\ i <= n /\ i + 1 \in 0..n /\ (i + 1) - 1 = i /\ i + 1 # 0
    BY <1>1
  <2>2. kept[i] \in Seq(R) /\ times[i + 1] \in T
    BY <1>1, <1>7, <2>1
  <2>3. kept[i + 1] = IF times[i + 1] >= cutoff THEN Append(kept[i], times[i + 1])
                      ELSE kept[i]
    BY <1>5, <2>1
  <2> QED BY <2>2, <2>3
<1>8. n \in K
  <2> HIDE DEF K
  <2> QED BY <1>1, <1>6, <1>7, Induction
<1>9. kept[n] \in Seq(R)
  BY <1>1, <1>8
<1> QED BY <1>9 DEF Retained

\* mark_failed pushes the time it is, onto times that have passed, and sets a
\* time of reactivation that the failures in the window justify.
LEMMA MarkedFacts ==
  ASSUME FailureTypes, now \in Nat, NEW identity, MarkFailed(identity)
  PROVE  \E state : /\ failures' = Insert(failures, identity, state)
                    /\ state.failure_times \in Seq(0..now)
                    /\ state.reactivate_at \in Nat /\ BackoffJustified(state)
<1> DEFINE recent == Retained(FailureTimes(identity), now - FailureWindow)
           times == Append(recent, now)
           state == [failure_times |-> times, reactivate_at |-> now + Backoff(times)]
<1>1. FailureTimes(identity) \in Seq(0..now)
  <2>1. <<>> \in Seq(0..now)
    OBVIOUS
  <2>2. CASE identity \in DOMAIN failures
    BY <2>2 DEF FailureTimes, FailureTypes
  <2>3. CASE identity \notin DOMAIN failures
    BY <2>1, <2>3 DEF FailureTimes
  <2> QED BY <2>2, <2>3
<1>2. recent \in Seq({t \in 0..now : t >= now - FailureWindow})
  BY <1>1, RetainedTyped
<1>3. /\ times \in Seq({t \in 0..now : t >= now - FailureWindow})
      /\ Len(times) \in Nat \ {0} /\ times[Len(times)] = now
  <2> HIDE DEF recent
  <2>1. now \in {t \in 0..now : t >= now - FailureWindow}
    BY RegistryAssumption
  <2>2. PICK R : R = {t \in 0..now : t >= now - FailureWindow}
    OBVIOUS
  <2> QED BY <1>2, <2>1, <2>2
<1>4. /\ times \in Seq(0..now)
      /\ \A n \in 1..Len(times) : times[n] >= now - FailureWindow
  <2> HIDE DEF times
  <2> QED BY <1>3
<1>5. Cardinality({n \in DOMAIN times : times[n] >= now - FailureWindow}) = Len(times)
  <2> HIDE DEF times
  <2>1. {n \in DOMAIN times : times[n] >= now - FailureWindow} = 1..Len(times)
    BY <1>4
  <2>2. 1 \in Int /\ Len(times) \in Int /\ Len(times) >= 1
    BY <1>3
  <2>3. Cardinality(1..Len(times)) = Len(times)
    BY <2>2, FS_Interval
  <2> QED BY <2>1, <2>3
<1>6. PICK k \in Nat : /\ k >= 1 /\ k <= BackoffCap /\ k <= Len(times)
                       /\ Backoff(times) = k * BackoffUnit
  <2> HIDE DEF times
  <2>1. PICK k : k = IF Len(times) < BackoffCap THEN Len(times) ELSE BackoffCap
    OBVIOUS
  <2>2. k \in Nat /\ k >= 1 /\ k <= BackoffCap /\ k <= Len(times)
    BY <1>3, <2>1, RegistryAssumption
  <2>3. Backoff(times) = k * BackoffUnit
    BY <2>1 DEF Backoff
  <2> QED BY <2>2, <2>3
<1>7. /\ Backoff(times) \in Nat /\ BackoffUnit <= Backoff(times)
      /\ Backoff(times) <= BackoffUnit * BackoffCap
      /\ Backoff(times) <= BackoffUnit * Len(times)
  <2> HIDE DEF times
  <2>1. \A j, c, u \in Nat : j <= c => j * u \in Nat /\ j * u <= u * c
    OBVIOUS
  <2>2. \A j, u \in Nat : j >= 1 => u <= j * u
    OBVIOUS
  <2>3. /\ k * BackoffUnit \in Nat /\ k * BackoffUnit <= BackoffUnit * BackoffCap
        /\ BackoffUnit <= k * BackoffUnit
    BY <1>6, <2>1, <2>2, RegistryAssumption
  <2>4. k * BackoffUnit <= BackoffUnit * Len(times)
    BY <1>3, <1>6, <2>1, RegistryAssumption
  <2> QED BY <1>6, <2>3, <2>4
<1>8. failures' = Insert(failures, identity, state)
  BY DEF MarkFailed
<1>9. /\ state.failure_times = times /\ state.reactivate_at = now + Backoff(times)
      /\ state.reactivate_at - now = Backoff(times) /\ state.reactivate_at \in Nat
  <2> HIDE DEF times
  <2> QED BY <1>7
<1>10. BackoffJustified(state)
  <2> HIDE DEF times, state
  <2> QED BY <1>3, <1>5, <1>7, <1>9 DEF BackoffJustified
<1> HIDE DEF state, times
<1> QED BY <1>4, <1>8, <1>9, <1>10

\* Only mark_failed touches what is known of failures, and the clock only goes on.
LEMMA FailureSteps ==
  ASSUME IndexTypes, [Next]_registryVars
  PROVE  /\ now' \in Nat /\ now <= now'
         /\ \/ UNCHANGED failures
            \/ now' = now /\ \E identity \in Identities : MarkFailed(identity)
<1>1. CASE \E a \in Announcements : Observe(a)
  BY <1>1 DEF Observe, IndexTypes
<1>2. CASE \E file \in CacheFiles, rights \in Loads : Reload(file, rights)
  BY <1>2 DEF Reload, IndexTypes
<1>3. CASE LoadRecord \/ SkipRecord
  BY <1>3 DEF LoadRecord, SkipRecord, IndexTypes
<1>4. CASE \E identity \in Identities : loading = <<>> /\ MarkFailed(identity)
  BY <1>4 DEF MarkFailed, IndexTypes
<1>5. CASE Tick
  BY <1>5 DEF Tick, IndexTypes
<1>6. CASE UNCHANGED registryVars
  BY <1>6 DEF registryVars, IndexTypes
<1> QED BY <1>1, <1>2, <1>3, <1>4, <1>5, <1>6 DEF Next, Updates

LEMMA FailuresStep ==
  ASSUME IndexTypes, FailureTypes, BackoffBounded, [Next]_registryVars
  PROVE  FailureTypes' /\ BackoffBounded'
<1>1. /\ now \in Nat /\ now' \in Nat /\ now <= now'
      /\ \/ UNCHANGED failures
         \/ now' = now /\ \E identity \in Identities : MarkFailed(identity)
  BY FailureSteps DEF IndexTypes
<1>2. CASE UNCHANGED failures
  <2>1. Seq(0..now) \subseteq Seq(0..now')
    BY <1>1
  <2>2. FailureTypes'
    BY <1>2, <2>1 DEF FailureTypes
  <2>3. BackoffBounded'
    BY <1>2 DEF BackoffBounded
  <2> QED BY <2>2, <2>3
<1>3. ASSUME NEW identity \in Identities, MarkFailed(identity), now' = now
      PROVE  FailureTypes' /\ BackoffBounded'
  <2>1. PICK state : /\ failures' = Insert(failures, identity, state)
                     /\ state.failure_times \in Seq(0..now)
                     /\ state.reactivate_at \in Nat /\ BackoffJustified(state)
    BY <1>1, <1>3, MarkedFacts
  <2>2. /\ DOMAIN failures' = DOMAIN failures \cup {identity}
        /\ failures'[identity] = state
        /\ \A i \in DOMAIN failures : i # identity => failures'[i] = failures[i]
    BY <2>1 DEF Insert
  <2>3. FailureTypes'
    BY <1>3, <2>1, <2>2 DEF FailureTypes
  <2>4. BackoffBounded'
    <3>1. \A i \in DOMAIN failures' : BackoffJustified(failures'[i])
      BY <2>1, <2>2 DEF BackoffBounded
    <3> QED BY <3>1 DEF BackoffBounded, BackoffJustified
  <2> QED BY <2>3, <2>4
<1> QED BY <1>1, <1>2, <1>3

LEMMA NoFailuresYet == Init => FailureTypes /\ BackoffBounded
BY EmptyMapFacts DEF Init, FailureTypes, BackoffBounded

\* The registry keeps its types: in particular, what mark_failed remembers of a
\* service are times that have passed, however often it failed.
THEOREM RegistryTyped == Spec => []TypeOK
<1>1. IndexTypes /\ FailureTypes /\ BackoffBounded /\ [Next]_registryVars
        => IndexTypes' /\ FailureTypes' /\ BackoffBounded'
  BY TypesStep, FailuresStep
<1>2. IndexTypes /\ FailureTypes /\ BackoffBounded => TypeOK
  BY DEF TypeOK
<1> QED BY <1>1, <1>2, IndexTypedAtFirst, NoFailuresYet, PTL DEF Spec

\* A service is avoided for as long as its failures in the window justify and the
\* cap allows, for any number of failures at any times and any announcements
\* between them.
THEOREM Backoffs == Spec => []BackoffBounded
<1>1. IndexTypes /\ FailureTypes /\ BackoffBounded /\ [Next]_registryVars
        => IndexTypes' /\ FailureTypes' /\ BackoffBounded'
  BY TypesStep, FailuresStep
<1> QED BY <1>1, IndexTypedAtFirst, NoFailuresYet, PTL DEF Spec

-----------------------------------------------------------------------------
(* The refinement of LatestAnnouncements.                                  *)

\* The operators of the abstract module are those of this one.
LEMMA SameOperators ==
  /\ L!EmptyMap = EmptyMap /\ L!Loads = Loads
  /\ \A a : L!ServiceOf(a) = ServiceOf(a)
  /\ \A a, rights : L!Offers(a, rights) = Offers(a, rights)
  /\ \A map, key, value : L!Insert(map, key, value) = Insert(map, key, value)
BY DEF L!EmptyMap, EmptyMap, L!Loads, Loads, L!ServiceOf, ServiceOf, L!EntryOf, EntryOf,
       L!Offers, Offers, L!Insert, Insert

\* An accepted announcement is one step Accept: the entries of its service become
\* what it offers, those of any other stay.
LEMMA InjectAccepts ==
  ASSUME NEW a \in Announcements, NEW rights \in Loads,
         EntriesCurrent, Inject(a, rights)
  PROVE  L!Accept(a, rights)
<1> DEFINE s == ServiceOf(a)
           held(t) == {o \in actions_by_key : ServiceOf(o.entry) = t}
           after(t) == {o \in actions_by_key' : ServiceOf(o.entry) = t}
<1>1. /\ a.valid /\ Newer(a)
      /\ actions_by_key' = Kept(a) \cup Offers(a, rights)
      /\ seen_timestamps' = Insert(seen_timestamps, s, a.timestamp)
  BY DEF Inject, Accepts
<1>2. s \in DOMAIN Latest => a.timestamp > Latest[s].timestamp
  BY <1>1 DEF Newer, Latest
<1>3. \A o \in Kept(a) : o \in actions_by_key /\ ServiceOf(o.entry) # s
  BY DEF Kept, EntriesCurrent
<1>4. \A o \in actions_by_key : ServiceOf(o.entry) # s => o \in Kept(a)
  BY DEF Kept
<1>5. \A o \in Offers(a, rights) : ServiceOf(o.entry) = s
  BY OffersOwned
<1>6. after(s) = Offers(a, rights)
  BY <1>1, <1>3, <1>5
<1>7. \A t : t # s => after(t) = held(t)
  BY <1>1, <1>3, <1>4, <1>5
<1>8. Latest' = [t \in DOMAIN seen_timestamps' |->
                   [timestamp |-> seen_timestamps'[t], offers |-> after(t)]]
  BY DEF Latest
<1>9. Insert(Latest, s, [timestamp |-> a.timestamp, offers |-> Offers(a, rights)])
        = [t \in DOMAIN seen_timestamps \cup {s} |->
             IF t = s THEN [timestamp |-> a.timestamp, offers |-> Offers(a, rights)]
             ELSE [timestamp |-> seen_timestamps[t], offers |-> held(t)]]
  BY DEF Insert, Latest
<1>10. /\ DOMAIN seen_timestamps' = DOMAIN seen_timestamps \cup {s}
       /\ seen_timestamps'[s] = a.timestamp
       /\ \A t \in DOMAIN seen_timestamps : t # s => seen_timestamps'[t] = seen_timestamps[t]
  BY <1>1 DEF Insert
<1>11. Latest' = Insert(Latest, s, [timestamp |-> a.timestamp, offers |-> Offers(a, rights)])
  <2> HIDE DEF s, held, after
  <2> QED BY <1>6, <1>7, <1>8, <1>9, <1>10
<1>12. /\ L!ServiceOf(a) = s /\ L!Offers(a, rights) = Offers(a, rights)
       /\ \A map, key, value : L!Insert(map, key, value) = Insert(map, key, value)
  BY SameOperators
<1> HIDE DEF s
<1> QED BY <1>1, <1>2, <1>11, <1>12 DEF L!Accept

\* The registry implements LatestAnnouncements: an accepted packet maps to Accept,
\* the clearing of a reload to Forget, everything else to a stutter.
THEOREM Refinement == Spec => ImplementsLatest
<1>1. Init => L!Init
  BY SameOperators DEF Init, L!Init, Latest, EmptyMap
<1>2. IndexTypes /\ EntriesCurrent /\ [Next]_registryVars => [L!Next]_Latest
  <2> SUFFICES ASSUME IndexTypes, EntriesCurrent, [Next]_registryVars
               PROVE  [L!Next]_Latest
    OBVIOUS
  <2>1. CASE UNCHANGED indexVars
    BY <2>1 DEF indexVars, Latest
  <2>2. ASSUME NEW a \in Announcements, NEW rights \in Loads, Inject(a, rights)
        PROVE  L!Next
    BY <2>2, InjectAccepts, SameOperators DEF L!Next
  <2>3. CASE actions_by_key' = {} /\ seen_timestamps' = EmptyMap
    <3>1. Latest' = EmptyMap
      BY <2>3 DEF Latest, EmptyMap
    <3> QED BY <3>1, SameOperators DEF L!Next, L!Forget
  <2>4. CASE UNCHANGED registryVars
    BY <2>1, <2>4 DEF registryVars, indexVars
  <2> QED BY <2>1, <2>2, <2>3, <2>4, IndexSteps
<1> QED BY <1>1, <1>2, IndexTyped, Current, PTL DEF Spec, ImplementsLatest, L!Spec

-----------------------------------------------------------------------------
(* The requester.                                                          *)

Entries == {o.entry : o \in actions_by_key}

\* The state of each request and the index it looks into.
RequestInv(r) ==
  /\ place[r] \notin {"new", "not found"} => opened
  /\ place[r] \in {"new", "not found"} => first[r] = NoEntry
  /\ place[r] = "marking" => blamed[r] \in Entries
  /\ place[r] \in {"waiting", "marking", "retrying"} => MayChoose(wanted[r]) # {}

RequestDomains ==
  /\ DOMAIN place = Requests /\ DOMAIN wanted = Requests
  /\ DOMAIN first = Requests /\ DOMAIN blamed = Requests

RInv ==
  /\ opened => loading = <<>>
  /\ RequestDomains
  /\ \A r \in Requests : RequestInv(r)

\* An entry is of an announcement's identity, and is not NoEntry.
LEMMA EntriesReal ==
  ASSUME IndexTypes, NEW e \in Entries
  PROVE  e # NoEntry /\ e.identity \in Identities
<1>1. PICK o \in actions_by_key : e = o.entry
  BY DEF Entries
<1>2. PICK a \in Announcements, rights \in Loads : o \in Offers(a, rights)
  BY DEF IndexTypes, AllOffers
<1>3. PICK action, authorized : e = EntryOf(a, action, authorized)
  <2>1. ASSUME NEW action \in a.actions,
               o = [key |-> action.key,
                    entry |-> EntryOf(a, action, <<a.fingerprint, action.key>> \in rights)]
        PROVE  \E b, authorized : e = EntryOf(a, b, authorized)
    BY <1>1, <2>1
  <2>2. ASSUME NEW action \in a.actions, NEW alias \in action.aliases,
               o = [key |-> alias, entry |-> EntryOf(a, action, TRUE)]
        PROVE  \E b, authorized : e = EntryOf(a, b, authorized)
    BY <1>1, <2>2
  <2> QED BY <1>2, <2>1, <2>2 DEF Offers
<1>4. DOMAIN e # DOMAIN NoEntry
  BY <1>3 DEF EntryOf, NoEntry
<1> QED BY <1>3, <1>4 DEF EntryOf, Identities

\* Only entries are candidates, and there is a choice if there is a candidate.
LEMMA FindFacts ==
  ASSUME NEW want
  PROVE  /\ MayChoose(want) \subseteq Entries
         /\ MayChoose(want) # {} => Find(want) \subseteq MayChoose(want)
         /\ MayChoose(want) = {} => Find(want) = {NoEntry}
<1>1. MayChoose(want) \subseteq Entries
  BY DEF MayChoose, Candidates, Entries
<1>2. MayChoose(want) # {} => Pool(MayChoose(want)) # {}
  BY DEF Pool
<1>3. Pool(MayChoose(want)) \subseteq MayChoose(want)
  BY DEF Pool
<1> QED BY <1>1, <1>2, <1>3 DEF Find

\* The index decides who may be chosen.
LEMMA SameChoice ==
  ASSUME UNCHANGED actions_by_key
  PROVE  Entries' = Entries /\ \A want : MayChoose(want)' = MayChoose(want)
BY DEF Entries, MayChoose, Candidates

-----------------------------------------------------------------------------

\* The requester does to its registry only what ServiceRegistry allows.
LEMMA RegistryStep ==
  ASSUME IndexTypes, RInv, [RequesterNext]_requesterVars
  PROVE  [Next]_registryVars
<1>1. CASE UNCHANGED requesterVars
  BY <1>1 DEF requesterVars
<1>2. CASE Updates \/ Tick
  BY <1>2 DEF Next
<1>3. CASE FromConfig
  BY <1>3 DEF FromConfig
<1>4. ASSUME NEW r \in Requests, Mark(r)
      PROVE  Next
  <2>1. loading = <<>> /\ blamed[r] \in Entries /\ MarkFailed(blamed[r].identity)
    BY <1>4 DEF Mark, At, RInv, RequestInv
  <2>2. blamed[r].identity \in Identities
    BY <2>1, EntriesReal
  <2> QED BY <2>1, <2>2 DEF Next
<1>5. ASSUME NEW r \in Requests, Request(r), ~Mark(r)
      PROVE  UNCHANGED registryVars
  BY <1>5 DEF Request, Dispatch, Return, DispatchFailure, Retry
<1> QED BY <1>1, <1>2, <1>3, <1>4, <1>5 DEF RequesterNext

\* A request that does not move sees what it saw.
LEMMA RequestKept ==
  ASSUME UNCHANGED <<actions_by_key, opened>>, NEW r \in Requests, RequestInv(r),
         place'[r] = place[r], first'[r] = first[r],
         blamed'[r] = blamed[r], wanted'[r] = wanted[r]
  PROVE  RequestInv(r)'
BY SameChoice DEF RequestInv

\* What a request's own step does to it.
LEMMA RequestMoves ==
  ASSUME IndexTypes, RInv, NEW r \in Requests, Request(r)
  PROVE  RequestInv(r)'
<1>0. /\ RequestDomains /\ RequestInv(r)
      /\ UNCHANGED <<actions_by_key, opened>>
      /\ Entries' = Entries /\ \A want : MayChoose(want)' = MayChoose(want)
  <2>1. UNCHANGED <<actions_by_key, opened>>
    BY DEF Request, Dispatch, Return, DispatchFailure, Mark, Retry, MarkFailed, GoesTo,
           registryVars, indexVars
  <2> QED BY <2>1, SameChoice DEF RInv
<1>1. ASSUME NEW want \in Wanted, Dispatch(r, want)
      PROVE  RequestInv(r)'
  <2>1. PICK e \in Find(want) :
          /\ place' = [place EXCEPT ![r] = IF e = NoEntry THEN "not found" ELSE "waiting"]
          /\ wanted' = [wanted EXCEPT ![r] = want]
          /\ first' = [first EXCEPT ![r] = e]
    BY <1>1 DEF Dispatch, GoesTo
  <2>2. opened
    BY <1>1 DEF Dispatch, At
  <2>3. e # NoEntry => MayChoose(want) # {}
    BY FindFacts
  <2> QED BY <1>0, <2>1, <2>2, <2>3 DEF RequestInv, RequestDomains
<1>2. CASE Return(r)
  <2>1. opened /\ place' = [place EXCEPT ![r] = "returned"]
    BY <1>2 DEF Return, At, GoesTo
  <2>2. place'[r] = "returned"
    BY <1>0, <2>1 DEF RequestDomains
  <2> QED BY <1>0, <2>1, <2>2 DEF RequestInv
<1>3. CASE DispatchFailure(r)
  <2>1. PICK e \in Find(wanted[r]) :
          /\ place' = [place EXCEPT ![r] = IF e = NoEntry THEN "retrying" ELSE "marking"]
          /\ blamed' = [blamed EXCEPT ![r] = e]
          /\ UNCHANGED <<wanted, first>>
    BY <1>3 DEF DispatchFailure, GoesTo
  <2>2. opened /\ place[r] = "waiting" /\ MayChoose(wanted[r]) # {}
    BY <1>0, <1>3 DEF DispatchFailure, At, RequestInv
  <2>3. e \in Entries
    BY <2>2, FindFacts
  <2> QED BY <1>0, <2>1, <2>2, <2>3 DEF RequestInv, RequestDomains
<1>4. CASE Mark(r)
  BY <1>0, <1>4 DEF Mark, At, GoesTo, RequestInv, RequestDomains
<1>5. CASE Retry(r)
  <2>1. PICK e \in Find(wanted[r]) :
          place' = [place EXCEPT ![r] = IF e = NoEntry THEN "not found" ELSE "waiting again"]
    BY <1>5 DEF Retry, GoesTo
  <2>2. opened /\ MayChoose(wanted[r]) # {}
    BY <1>0, <1>5 DEF Retry, At, RequestInv
  <2>3. e \in Entries
    BY <2>2, FindFacts
  <2>4. e # NoEntry
    BY <2>3, EntriesReal
  <2>5. place'[r] = "waiting again"
    BY <1>0, <2>1, <2>4 DEF RequestDomains
  <2> QED BY <1>0, <2>2, <2>5 DEF RequestInv
<1> QED BY <1>1, <1>2, <1>3, <1>4, <1>5 DEF Request

LEMMA RInvStep ==
  ASSUME IndexTypes, RInv, [RequesterNext]_requesterVars
  PROVE  RInv'
<1>1. CASE UNCHANGED <<indexVars, loading, opened, requestVars>>
  <2>1. UNCHANGED <<actions_by_key, loading, opened, place, first, blamed, wanted>>
    BY <1>1 DEF indexVars, requestVars
  <2>2. \A r \in Requests : RequestInv(r)'
    BY <2>1, RequestKept DEF RInv
  <2> QED BY <2>1, <2>2 DEF RInv, RequestDomains
<1>2. CASE UNCHANGED requesterVars \/ (Tick /\ UNCHANGED <<opened, requestVars>>)
  BY <1>1, <1>2 DEF requesterVars, registryVars, Tick, loadVars
<1>3. CASE ~opened /\ Updates /\ UNCHANGED <<opened, requestVars>>
  <2>1. ~opened' /\ UNCHANGED <<place, first, blamed, wanted>>
    BY <1>3 DEF requestVars
  <2>2. ASSUME NEW r \in Requests
        PROVE  RequestInv(r)'
    <3>1. place[r] \in {"new", "not found"} /\ first[r] = NoEntry
      BY <1>3 DEF RInv, RequestInv
    <3> QED BY <2>1, <3>1 DEF RequestInv
  <2> QED BY <2>1, <2>2 DEF RInv, RequestDomains
<1>4. CASE FromConfig
  <2>1. opened' /\ loading' = <<>> /\ UNCHANGED <<actions_by_key, place, first, blamed, wanted>>
    BY <1>4 DEF FromConfig, registryVars, indexVars, loadVars, requestVars
  <2>2. ASSUME NEW r \in Requests
        PROVE  RequestInv(r)'
    BY <2>1, SameChoice DEF RInv, RequestInv
  <2> QED BY <2>1, <2>2 DEF RInv, RequestDomains
<1>5. ASSUME NEW r \in Requests, Request(r)
      PROVE  RInv'
  <2>1. RequestDomains' /\ UNCHANGED <<actions_by_key, loading, opened>>
    BY <1>5 DEF RInv, RequestDomains, Request, Dispatch, Return, DispatchFailure, Mark, Retry,
                MarkFailed, GoesTo, registryVars, indexVars, loadVars
  <2>2. \A q \in Requests \ {r} : /\ place'[q] = place[q] /\ first'[q] = first[q]
                                  /\ blamed'[q] = blamed[q] /\ wanted'[q] = wanted[q]
    BY <1>5 DEF RInv, RequestDomains, Request, Dispatch, Return, DispatchFailure, Mark, Retry,
                GoesTo
  <2>3. \A q \in Requests \ {r} : RequestInv(q)'
    BY <2>1, <2>2, RequestKept DEF RInv
  <2>4. RequestInv(r)'
    BY <1>5, RequestMoves
  <2> QED BY <2>1, <2>3, <2>4 DEF RInv
<1> QED BY <1>2, <1>3, <1>4, <1>5 DEF RequesterNext

\* Everything that is true of a registry is true of a requester's.
THEOREM RegistryKept == RequesterSpec => Spec
<1>1. RequesterInit => Init /\ IndexTypes /\ RInv
  <2>1. <<>> \in Seq(Announcements)
    OBVIOUS
  <2>2. IsMap(EmptyMap) /\ DOMAIN EmptyMap = {}
    BY EmptyMapFacts
  <2>3. Init => IndexTypes
    BY <2>1, <2>2 DEF Init, IndexTypes, Loads
  <2>4. RequesterInit => RInv
    BY DEF RequesterInit, Init, RInv, RequestDomains, RequestInv
  <2> QED BY <2>3, <2>4 DEF RequesterInit
<1>2. IndexTypes /\ RInv /\ [RequesterNext]_requesterVars
        => [Next]_registryVars /\ IndexTypes' /\ RInv'
  BY RegistryStep, TypesStep, RInvStep
<1> QED BY <1>1, <1>2, PTL DEF RequesterSpec, Spec

\* A request that found its action finds it for the retry too, however many other
\* requests mark services failed in between.
THEOREM RetryFinds == RequesterSpec => []RetryFindsAction
<1>1. RequesterInit => RInv
  BY DEF RequesterInit, Init, RInv, RequestDomains, RequestInv
<1>2. IndexTypes /\ RInv /\ [RequesterNext]_requesterVars => RInv'
  BY RInvStep
<1>3. RInv => RetryFindsAction
  BY DEF RInv, RequestInv, RetryFindsAction
<1> QED BY <1>1, <1>2, <1>3, RegistryKept, IndexTyped, PTL DEF RequesterSpec
=============================================================================
