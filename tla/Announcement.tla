---------------------------- MODULE Announcement ----------------------------
(***************************************************************************)
(* Announcements as the registry sees them once they are parsed, and what  *)
(* each one offers: the ActionEntry values it adds under each index key    *)
(* (discovery/service_registry.rs).                                        *)
(*                                                                         *)
(* An announcement is a record: fingerprint and identity of the service,   *)
(* timestamp and interval in seconds, weight, whether its signature is     *)
(* valid, and its actions, each with its index key, the alias keys of its  *)
(* CRUD flags and its envelopes.                                           *)
(***************************************************************************)
EXTENDS Integers

CONSTANTS
  Announcements,   \* the packets there may be
  Authorized       \* pairs of a fingerprint and an index key: authorized_services

ASSUME AnnouncementAssumption ==
  \A a \in Announcements :
    /\ a.timestamp \in Nat /\ a.interval \in Nat /\ a.weight \in Nat
    /\ a.valid \in BOOLEAN

\* What may have come of loading authorized_services: nothing, if it failed.
Loads == {Authorized, {}}

\* The dedup key of the registry.
ServiceOf(a) == <<a.fingerprint, a.identity>>

EntryOf(a, action, authorized) ==
  [fingerprint |-> a.fingerprint, identity |-> a.identity,
   timestamp |-> a.timestamp, weight |-> a.weight,
   action |-> action.key, envelopes |-> action.envelopes,
   authorized |-> authorized]

\* An action is entered under its own key, and under its alias keys, where it
\* counts as authorized.
Offers(a, rights) ==
  {[key |-> action.key,
    entry |-> EntryOf(a, action, <<a.fingerprint, action.key>> \in rights)] :
       action \in a.actions}
  \cup
  UNION {{[key |-> alias, entry |-> EntryOf(a, action, TRUE)] :
             alias \in action.aliases} : action \in a.actions}

AllOffers == UNION {Offers(a, rights) : a \in Announcements, rights \in Loads}
Timestamps == {a.timestamp : a \in Announcements}
=============================================================================
