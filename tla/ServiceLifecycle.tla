-------------------------- MODULE ServiceLifecycle --------------------------
(***************************************************************************)
(* The process of a service, from binding its port to its exit: the        *)
(* listener with a task per connection (service/listener.rs), the          *)
(* announcer (service/multicast.rs) and what starts and ends them          *)
(* (scamp-cli/src/serve.rs).                                               *)
(*                                                                         *)
(* A connection is queued by the kernel, accepted, and served by a task    *)
(* of its own; the tasks that are left when the process exits end with it. *)
(* What the network does with an announcement is not said here: wire is    *)
(* everything sent so far.                                                 *)
(*                                                                         *)
(* A definition named ...Mutant is the definition after it with a bug; it  *)
(* is used by no other, and shows which property notices.                  *)
(***************************************************************************)
EXTENDS Integers, FiniteSets

CONSTANTS
  Clients,    \* connections that may come
  BindTries,  \* ports tried: 20
  DrainTime,  \* seconds a drain may last: 30
  Interval,   \* seconds between announcements: 5
  Rounds,     \* goodbyes: 10
  RoundGap,   \* seconds between goodbyes: 1
  MaxTime     \* bound on the clock, but for a drain

ASSUME LifecycleAssumption ==
  /\ IsFiniteSet(Clients)
  /\ \A n \in {BindTries, DrainTime, Interval, Rounds, RoundGap, MaxTime} : n \in Nat

VARIABLES
  now,        \* the time
  phase,      \* of the process: binding, accepting, draining, exited
  outcome,    \* how it exited: none (not yet), ok, error, crash
  tries,      \* ports tried so far
  conn,       \* state of each connection
  active,     \* active_connections
  signalled,  \* the shutdown flag of the watch channel
  deadline,   \* of the drain
  announcer,  \* state of the announcer's task
  wake,       \* when its sleep ends
  round,      \* of its goodbyes
  wire,       \* packets sent: whether active, and their time stamp
  since,      \* when the port was opened
  until       \* when the process exited

listenerVars  == <<conn, active>>
announcerVars == <<announcer, wake, round, wire>>
processVars   == <<phase, outcome, tries, deadline, since, until>>
lifecycleVars == <<now, signalled, listenerVars, announcerVars, processVars>>

Init ==
  /\ now = 0 /\ phase = "binding" /\ outcome = "none" /\ tries = 0
  /\ conn = [c \in Clients |-> "none"] /\ active = 0
  /\ signalled = FALSE /\ deadline = 0
  /\ announcer = "none" /\ wake = 0 /\ round = 0 /\ wire = {}
  /\ since = 0 /\ until = 0

-----------------------------------------------------------------------------
(* Binding and exit.                                                       *)

\* The port drawn is taken.
BindFails ==
  /\ phase = "binding" /\ tries < BindTries
  /\ tries' = tries + 1
  /\ UNCHANGED <<now, signalled, listenerVars, announcerVars,
                 phase, outcome, deadline, since, until>>

\* The port is open, the test packet built, the announcer spawned.
Bind ==
  /\ phase = "binding" /\ tries < BindTries
  /\ phase' = "accepting" /\ since' = now
  /\ announcer' = "starting"
  /\ UNCHANGED <<now, signalled, listenerVars, wake, round, wire,
                 outcome, tries, deadline, until>>

\* The announcer goes on.
ExitMutant(how) ==
  /\ phase' = "exited" /\ outcome' = how /\ until' = now
  /\ conn' = [c \in Clients |->
                IF conn[c] \in {"queued", "handshake", "served"} THEN "killed" ELSE conn[c]]
  /\ UNCHANGED <<now, active, announcer, signalled, tries, deadline, wake, round, wire, since>>

\* The process is gone, with every task it had.
Exit(how) ==
  /\ phase' = "exited" /\ outcome' = how /\ until' = now
  /\ conn' = [c \in Clients |->
                IF conn[c] \in {"queued", "handshake", "served"} THEN "killed" ELSE conn[c]]
  /\ announcer' = IF announcer \in {"done", "failed"} THEN announcer ELSE "killed"
  /\ UNCHANGED <<now, active, signalled, tries, deadline, wake, round, wire, since>>

\* No port found, a key or a certificate that is not usable.
StartFails == phase = "binding" /\ Exit("error")

Crash == phase \in {"accepting", "draining"} /\ Exit("crash")

\* Ctrl-C.
Signal ==
  /\ phase = "accepting" /\ ~signalled
  /\ signalled' = TRUE
  /\ UNCHANGED <<now, listenerVars, announcerVars, processVars>>

-----------------------------------------------------------------------------
(* ScampService::run.                                                      *)

Goes(c, from, to) == conn[c] = from /\ conn' = [conn EXCEPT ![c] = to]

RestOfConnections == UNCHANGED <<now, signalled, announcerVars, processVars>>

\* The port stays open during a drain.
Connect(c) ==
  /\ phase \in {"accepting", "draining"}
  /\ Goes(c, "none", "queued")
  /\ UNCHANGED active /\ RestOfConnections

\* The task counts itself, if it gets that far.
AcceptMutant(c) ==
  /\ phase = "accepting"
  /\ Goes(c, "queued", "handshake")
  /\ UNCHANGED active /\ RestOfConnections

Accept(c) ==
  /\ phase = "accepting"
  /\ Goes(c, "queued", "handshake")
  /\ active' = active + 1
  /\ RestOfConnections

\* An error of accept ends run at once.
AcceptFails(c) == phase = "accepting" /\ conn[c] = "queued" /\ Exit("error")

HandshakeDone(c) ==
  /\ phase \in {"accepting", "draining"}
  /\ Goes(c, "handshake", "served")
  /\ UNCHANGED active /\ RestOfConnections

\* A handshake that has failed is not counted out.
EndsMutant(c) ==
  /\ phase \in {"accepting", "draining"}
  /\ \/ Goes(c, "handshake", "gone") /\ UNCHANGED active
     \/ Goes(c, "served", "gone") /\ active' = active - 1
  /\ RestOfConnections

\* The handshake has failed, or handle_connection has returned.
Ends(c) ==
  /\ phase \in {"accepting", "draining"}
  /\ Goes(c, "handshake", "gone") \/ Goes(c, "served", "gone")
  /\ active' = active - 1
  /\ RestOfConnections

\* A panic of a handler ends the task before it counts itself out.
Panics(c) ==
  /\ phase \in {"accepting", "draining"}
  /\ Goes(c, "served", "panicked")
  /\ UNCHANGED active /\ RestOfConnections

StopAccepting ==
  /\ phase = "accepting" /\ signalled
  /\ IF active = 0 THEN Exit("ok")
     ELSE /\ phase' = "draining" /\ deadline' = now + DrainTime
          /\ UNCHANGED <<now, signalled, listenerVars, announcerVars,
                         outcome, tries, since, until>>

\* The drain ends when everything has.
DrainEndsMutant == phase = "draining" /\ active = 0 /\ Exit("ok")

DrainEnds == phase = "draining" /\ (active = 0 \/ now >= deadline) /\ Exit("ok")

-----------------------------------------------------------------------------
(* run_announcer.                                                          *)

RestOfAnnouncer == UNCHANGED <<now, signalled, listenerVars, processVars>>

AnnouncerStarts ==
  /\ announcer = "starting"
  /\ announcer' \in {"announcing", "failed"}
  /\ UNCHANGED <<wake, round, wire>> /\ RestOfAnnouncer

Send(isActive) == wire' = wire \cup {[active |-> isActive, time |-> now]}

Announce ==
  /\ announcer = "announcing"
  /\ Send(TRUE)
  /\ announcer' = "asleep" /\ wake' = now + Interval
  /\ UNCHANGED round /\ RestOfAnnouncer

AnnouncerWakes ==
  /\ announcer = "asleep" /\ now >= wake
  /\ announcer' = "announcing"
  /\ UNCHANGED <<wake, round, wire>> /\ RestOfAnnouncer

AnnouncerStops ==
  /\ announcer = "asleep" /\ signalled
  /\ announcer' = "goodbye" /\ round' = 1
  /\ UNCHANGED <<wake, wire>> /\ RestOfAnnouncer

Goodbye ==
  /\ announcer = "goodbye"
  /\ IF round > Rounds
     THEN announcer' = "done" /\ UNCHANGED <<wake, round, wire>>
     ELSE /\ Send(FALSE)
          /\ announcer' = "pausing" /\ wake' = now + RoundGap /\ round' = round + 1
  /\ RestOfAnnouncer

PauseEnds ==
  /\ announcer = "pausing" /\ now >= wake
  /\ announcer' = "goodbye"
  /\ UNCHANGED <<wake, round, wire>> /\ RestOfAnnouncer

-----------------------------------------------------------------------------

Tick ==
  /\ now < IF phase = "draining" THEN deadline ELSE MaxTime
  /\ now' = now + 1
  /\ UNCHANGED <<signalled, listenerVars, announcerVars, processVars>>

ConnectionStep(c) ==
  \/ Connect(c) \/ Accept(c) \/ AcceptFails(c) \/ HandshakeDone(c) \/ Ends(c) \/ Panics(c)

ListenerStep ==
  \/ \E c \in Clients : ConnectionStep(c)
  \/ BindFails \/ Bind \/ StartFails \/ Crash \/ Signal \/ StopAccepting \/ DrainEnds

AnnouncerStep ==
  \/ AnnouncerStarts \/ Announce \/ AnnouncerWakes \/ AnnouncerStops \/ Goodbye \/ PauseEnds

Next == ListenerStep \/ AnnouncerStep \/ Tick

Fairness ==
  /\ WF_lifecycleVars(Tick)
  /\ WF_lifecycleVars(StopAccepting)
  /\ WF_lifecycleVars(DrainEnds)

Spec == Init /\ [][Next]_lifecycleVars
FairSpec == Spec /\ Fairness

-----------------------------------------------------------------------------

ConnStates == {"none", "queued", "handshake", "served", "gone", "panicked", "killed"}

TypeOK ==
  /\ now \in Nat /\ tries \in 0..BindTries
  /\ phase \in {"binding", "accepting", "draining", "exited"}
  /\ outcome \in {"none", "ok", "error", "crash"}
  /\ outcome = "none" <=> phase # "exited"
  /\ conn \in [Clients -> ConnStates] /\ active \in Nat
  /\ signalled \in BOOLEAN /\ deadline \in Nat
  /\ announcer \in {"none", "starting", "failed", "announcing", "asleep",
                    "goodbye", "pausing", "done", "killed"}
  /\ wake \in Nat /\ round \in Nat
  /\ wire \subseteq [active : BOOLEAN, time : 0..now]
  /\ since \in 0..now /\ until \in 0..now

InTask == {c \in Clients : conn[c] \in {"handshake", "served"}}
Panicked == {c \in Clients : conn[c] = "panicked"}

\* As long as the service runs, active_connections is the number of connections
\* accepted and not done with; a panicked one counts for ever (listener.rs:206).
ActiveCounted ==
  phase # "exited" => active = Cardinality(InTask \cup Panicked)

\* An orderly exit cuts off no connection it has accepted, whether it is still in
\* the handshake or served, before the drain has had its time (listener.rs:216).
ExitsDrained ==
  [][outcome' = "ok" /\ outcome = "none" =>
       InTask = {} \/ (phase = "draining" /\ now >= deadline)]_lifecycleVars

\* After Ctrl-C the process exits, whatever its connections do, those that hang
\* and those that panicked included (listener.rs:218).
ShutdownEnds == signalled ~> phase = "exited"
=============================================================================
