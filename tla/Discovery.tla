------------------------------ MODULE Discovery ------------------------------
(***************************************************************************)
(* A service and a client's registry joined by multicast: what the         *)
(* announcer of ServiceLifecycle sends is built, read and checked as in    *)
(* AnnouncementCodec and entered as in ServiceRegistry                     *)
(* (discovery/observer.rs).  The network loses, repeats, delays and        *)
(* reorders packets: any packet sent so far may arrive.  Both hosts have   *)
(* the same clock.  zlib is left out, and so is the reload of a cache      *)
(* file.                                                                   *)
(***************************************************************************)
EXTENDS ServiceLifecycle, AnnouncementCodec, AuthorizedServices, HashMap

CONSTANTS
  TheService,   \* what the process announces
  AuthFile      \* the receiver's authorized services

\* A key has a size, a certificate file is a text, versions are i32.
ASSUME ServiceAssumption ==
  /\ TheService.key.size \in Nat
  /\ TheService.certificate
       \in Seq({TheService.certificate[i] : i \in DOMAIN TheService.certificate})
  /\ \A a \in TheService.actions : a.version \in Int /\ a.version <= MaxU32

VARIABLES
  actions_by_key,    \* of the receiver's registry
  seen_timestamps,
  heard              \* time of the latest goodbye that has arrived, or 0

indexVars == <<actions_by_key, seen_timestamps>>
vars == <<lifecycleVars, indexVars, heard>>

-----------------------------------------------------------------------------
(* From a packet to the announcement the registry sees.                    *)

\* cert_pem_fingerprint: a certificate is known by its key.
Fingerprint(certificate) == certificate[1].key

IndexKey(action) == <<action.sector, action.path, action.version>>

\* make_crud_alias_key
AliasKeys(action) ==
  {<<action.sector, <<action.path[1], "_", f.op>>, action.version>> :
     f \in {g \in action.flags : g.is = "CrudOp"}}

Announced(packet) ==
  [fingerprint |-> Fingerprint(packet.certificate), identity |-> packet.body.identity,
   timestamp |-> packet.body.timestamp, interval |-> packet.body.interval \div 1000,
   weight |-> packet.body.weight, valid |-> SignatureValid(packet),
   actions |-> {[key |-> IndexKey(a), aliases |-> AliasKeys(a), envelopes |-> a.envelopes] :
                  a \in packet.body.actions}]

Packets == [active : BOOLEAN, time : 0..(MaxTime + DrainTime)]

\* Every packet there can be that is parsed, with the announcement it holds.
Parsings ==
  LET texts == {<<p, Packet(TheService, p.active, p.time)>> : p \in Packets}
      reads == {<<t[1], ParsePacket(t[2])>> : t \in texts}
  IN  {[packet |-> r[1], announcement |-> Announced(r[2].value)] : r \in {x \in reads : x[2].ok}}

AnnouncementsIn(p) == {h.announcement : h \in {g \in Parsings : g.packet = p}}

Rights ==
  LET fingerprint == Fingerprint(TheService.certificate)
      keys == UNION {{a.key : a \in h.announcement.actions} : h \in Parsings}
      may(key) == IsAuthorized(Entries(AuthFile), fingerprint,
                               <<key[1]>>, <<key[2][1], ".", key[2][2]>>)
  IN  {<<fingerprint, key>> : key \in {k \in keys : may(k)}}

R == INSTANCE ServiceRegistry
       WITH Announcements <- UNION {AnnouncementsIn(p) : p \in Packets},
            Authorized <- Rights, CacheFiles <- {},
            FailureWindow <- 0, BackoffUnit <- 1, BackoffCap <- 1,
            failures <- EmptyMap, loading <- <<>>, auth <- {}

-----------------------------------------------------------------------------

DiscoveryInit ==
  /\ Init
  /\ actions_by_key = {} /\ seen_timestamps = EmptyMap
  /\ heard = 0

\* process_packet: what cannot be parsed, or is not accepted, is dropped.
Receive(p) ==
  /\ p \in wire
  /\ \/ \E a \in AnnouncementsIn(p) : R!Inject(a, Rights)
     \/ /\ \A a \in AnnouncementsIn(p) : ~R!Accepts(a)
        /\ UNCHANGED indexVars
  /\ heard' = IF p.active \/ p.time < heard THEN heard ELSE p.time
  /\ UNCHANGED lifecycleVars

DiscoveryNext ==
  \/ Next /\ UNCHANGED <<indexVars, heard>>
  \/ \E p \in wire : Receive(p)

DiscoverySpec ==
  DiscoveryInit /\ [][DiscoveryNext]_vars /\ Fairness

-----------------------------------------------------------------------------

\* What a client may choose of the service was announced while its port was
\* open, and is an action it had registered, under a name the client can look
\* up (announce.rs:47, service_registry.rs:113).
OffersServed ==
  \A o \in actions_by_key :
    /\ phase # "binding" /\ since <= o.entry.timestamp
    /\ phase = "exited" => o.entry.timestamp <= until
    /\ \E a \in TheService.actions :
         o.key[1] = TheService.sector /\ o.key[2][1] = a.namespace.word /\ o.key[3] = a.version

\* "Shutdown announcing: weight=0": once a goodbye has arrived nothing that was
\* announced before it can be chosen (announce.rs:117, parse.rs:158).
GoodbyeHeard ==
  \A o \in actions_by_key : o.entry.weight > 0 => o.entry.timestamp >= heard
=============================================================================
