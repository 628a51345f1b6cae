------------------------- MODULE LatestAnnouncements -------------------------
(***************************************************************************)
(* What the registry promises about announcements, which may be lost,      *)
(* repeated and reordered: of each service it knows the newest one it has  *)
(* accepted, offers exactly what this one offers, and forgets only         *)
(* everything at once.  Nothing is said of index keys, expiry, clocks or   *)
(* of how a reload goes about it.                                          *)
(***************************************************************************)
EXTENDS Announcement, HashMap

VARIABLE latest   \* of each known service: timestamp and offers

Init == latest = EmptyMap

\* A newer announcement replaces all that the service offered, and nothing
\* that another one does.
Accept(a, rights) ==
  /\ a.valid
  /\ ServiceOf(a) \in DOMAIN latest => a.timestamp > latest[ServiceOf(a)].timestamp
  /\ latest' = Insert(latest, ServiceOf(a),
                      [timestamp |-> a.timestamp, offers |-> Offers(a, rights)])

Forget == latest' = EmptyMap

Next ==
  \/ \E a \in Announcements, rights \in Loads : Accept(a, rights)
  \/ Forget

Spec == Init /\ [][Next]_latest
=============================================================================
