--------------------------- MODULE Discovery_proofs ---------------------------
(***************************************************************************)
(* A service and those who hear of it, proved for any number of            *)
(* connections, any times, any service and any network.                    *)
(*                                                                         *)
(* The counter of active connections is exact, so an orderly exit cuts off *)
(* nobody before the drain has had its time.  A packet that is parsed      *)
(* holds what was written into it, so a receiver offers nothing but        *)
(* actions the service registered, as of a time its port was open.  What   *)
(* a certificate may announce is what its last line means, and the cache   *)
(* file is read as it was written.                                         *)
(***************************************************************************)
EXTENDS Discovery, CacheFile, DataTheorems, FiniteSetTheorems, TLAPS

-----------------------------------------------------------------------------
(* The process.                                                            *)

\* What the counter counts.
Counted == InTask \cup Panicked

\* Types and count together: that active - 1 is natural needs the count.
IInv == TypeOK /\ ActiveCounted

\* The connections counted are finitely many.
LEMMA CountedFinite == IsFiniteSet(Counted) /\ Cardinality(Counted) \in Nat
<1>1. Counted \subseteq Clients
  BY DEF Counted, InTask, Panicked
<1> QED
  BY <1>1, LifecycleAssumption, FS_Subset, FS_CardinalityType

LEMMA InitIInv == Init => IInv
<1> SUFFICES ASSUME Init PROVE IInv
  OBVIOUS
<1>1. TypeOK
  <2>1. BindTries \in Nat
    BY LifecycleAssumption
  <2>2. conn \in [Clients -> ConnStates]
    BY DEF Init, ConnStates
  <2>3. wire \subseteq [active : BOOLEAN, time : 0..now]
    BY DEF Init
  <2>4. now \in Nat /\ 0 \in 0..now /\ 0 \in 0..BindTries
    BY <2>1 DEF Init
  <2> QED
    BY <2>2, <2>3, <2>4 DEF Init, TypeOK
<1>2. Counted = {}
  BY DEF Init, Counted, InTask, Panicked
<1>3. ActiveCounted
  BY <1>2, FS_EmptySet DEF Init, ActiveCounted, Counted
<1> QED
  BY <1>1, <1>3 DEF IInv

\* A connection that moves between states that count alike, or do not.
LEMMA CountStays ==
  ASSUME TypeOK, NEW c \in Clients, NEW from, NEW to \in ConnStates, Goes(c, from, to),
         from \in {"handshake", "served", "panicked"} <=> to \in {"handshake", "served", "panicked"}
  PROVE  Counted' = Counted
BY DEF TypeOK, Goes, Counted, InTask, Panicked, ConnStates

\* An accepted connection is one more.
LEMMA CountGrows ==
  ASSUME TypeOK, NEW c \in Clients, Goes(c, "queued", "handshake")
  PROVE  Cardinality(Counted') = Cardinality(Counted) + 1
<1>1. Counted' = Counted \cup {c} /\ c \notin Counted
  BY DEF TypeOK, Goes, Counted, InTask, Panicked, ConnStates
<1> QED
  BY <1>1, CountedFinite, FS_AddElement

\* A connection that ends is one less.
LEMMA CountShrinks ==
  ASSUME TypeOK, NEW c \in Clients,
         Goes(c, "handshake", "gone") \/ Goes(c, "served", "gone")
  PROVE  /\ Cardinality(Counted') = Cardinality(Counted) - 1
         /\ Cardinality(Counted) - 1 \in Nat
<1>1. Counted' = Counted \ {c} /\ c \in Counted
  BY DEF TypeOK, Goes, Counted, InTask, Panicked, ConnStates
<1>2. Cardinality(Counted \ {c}) = Cardinality(Counted) - 1
  BY <1>1, CountedFinite, FS_RemoveElement
<1>3. Cardinality(Counted \ {c}) \in Nat
  BY CountedFinite, FS_RemoveElement, FS_CardinalityType
<1> QED
  BY <1>1, <1>2, <1>3

\* A move of one connection keeps the types.
LEMMA GoesTyped ==
  ASSUME TypeOK, NEW c \in Clients, NEW from, NEW to \in ConnStates, Goes(c, from, to),
         RestOfConnections, active' \in Nat
  PROVE  TypeOK'
BY DEF TypeOK, Goes, RestOfConnections, announcerVars, processVars

\* Leaving keeps everything; nothing is said of the count after it.
LEMMA ExitKeeps ==
  ASSUME TypeOK, NEW how \in {"ok", "error", "crash"}, Exit(how)
  PROVE  IInv'
BY DEF TypeOK, ActiveCounted, IInv, Exit, ConnStates

LEMMA ConnectionStepKeeps ==
  ASSUME IInv, NEW c \in Clients, ConnectionStep(c)
  PROVE  IInv'
<1> USE DEF IInv
<1>1. CASE Connect(c)
  <2>1. Goes(c, "none", "queued") /\ active' = active /\ RestOfConnections
    BY <1>1 DEF Connect
  <2>2. Counted' = Counted
    BY <2>1, CountStays DEF ConnStates
  <2>3. TypeOK'
    BY <2>1, GoesTyped DEF TypeOK, ConnStates
  <2> QED
    BY <2>1, <2>2, <2>3 DEF ActiveCounted, Counted, RestOfConnections, processVars
<1>2. CASE Accept(c)
  <2>1. Goes(c, "queued", "handshake") /\ active' = active + 1 /\ RestOfConnections
    BY <1>2 DEF Accept
  <2>2. Cardinality(Counted') = Cardinality(Counted) + 1
    BY <2>1, CountGrows
  <2>3. TypeOK'
    BY <2>1, GoesTyped DEF TypeOK, ConnStates
  <2> QED
    BY <2>1, <2>2, <2>3 DEF ActiveCounted, Counted, RestOfConnections, processVars
<1>3. CASE AcceptFails(c)
  BY <1>3, ExitKeeps DEF AcceptFails
<1>4. CASE HandshakeDone(c)
  <2>1. Goes(c, "handshake", "served") /\ active' = active /\ RestOfConnections
    BY <1>4 DEF HandshakeDone
  <2>2. Counted' = Counted
    BY <2>1, CountStays DEF ConnStates
  <2>3. TypeOK'
    BY <2>1, GoesTyped DEF TypeOK, ConnStates
  <2> QED
    BY <2>1, <2>2, <2>3 DEF ActiveCounted, Counted, RestOfConnections, processVars
<1>5. CASE Ends(c)
  <2>1. /\ Goes(c, "handshake", "gone") \/ Goes(c, "served", "gone")
        /\ active' = active - 1 /\ RestOfConnections /\ phase # "exited"
    BY <1>5 DEF Ends
  <2>2. /\ Cardinality(Counted') = Cardinality(Counted) - 1
        /\ Cardinality(Counted) - 1 \in Nat
    BY <2>1, CountShrinks
  <2>3. active = Cardinality(Counted)
    BY <2>1 DEF ActiveCounted, Counted
  <2>4. TypeOK'
    BY <2>1, <2>2, <2>3, GoesTyped DEF ConnStates
  <2> QED
    BY <2>1, <2>2, <2>3, <2>4 DEF ActiveCounted, Counted
<1>6. CASE Panics(c)
  <2>1. Goes(c, "served", "panicked") /\ active' = active /\ RestOfConnections
    BY <1>6 DEF Panics
  <2>2. Counted' = Counted
    BY <2>1, CountStays DEF ConnStates
  <2>3. TypeOK'
    BY <2>1, GoesTyped DEF TypeOK, ConnStates
  <2> QED
    BY <2>1, <2>2, <2>3 DEF ActiveCounted, Counted, RestOfConnections, processVars
<1> QED
  BY <1>1, <1>2, <1>3, <1>4, <1>5, <1>6 DEF ConnectionStep

\* Whatever leaves the connections alone and the process running keeps the count.
LEMMA CountUntouched ==
  ASSUME ActiveCounted, UNCHANGED listenerVars, phase' # "exited" => phase # "exited"
  PROVE  ActiveCounted'
BY DEF ActiveCounted, InTask, Panicked, listenerVars

LEMMA ListenerStepKeeps ==
  ASSUME IInv, ListenerStep
  PROVE  IInv'
<1>1. CASE \E c \in Clients : ConnectionStep(c)
  BY <1>1, ConnectionStepKeeps
<1>2. CASE BindFails
  <2>1. TypeOK'
    BY <1>2, LifecycleAssumption DEF BindFails, IInv, TypeOK, listenerVars, announcerVars
  <2> QED
    BY <1>2, <2>1, CountUntouched DEF BindFails, IInv
<1>3. CASE Bind
  <2>1. TypeOK'
    BY <1>3, LifecycleAssumption DEF Bind, IInv, TypeOK, listenerVars
  <2> QED
    BY <1>3, <2>1, CountUntouched DEF Bind, IInv
<1>4. CASE StartFails
  BY <1>4, ExitKeeps DEF StartFails, IInv
<1>5. CASE Crash
  BY <1>5, ExitKeeps DEF Crash, IInv
<1>6. CASE Signal
  <2>1. TypeOK'
    BY <1>6 DEF Signal, IInv, TypeOK, listenerVars, announcerVars, processVars
  <2> QED
    BY <1>6, <2>1, CountUntouched DEF Signal, IInv, processVars
<1>7. CASE StopAccepting
  <2>1. CASE active = 0
    BY <1>7, <2>1, ExitKeeps DEF StopAccepting, IInv
  <2>2. CASE active # 0
    <3>1. TypeOK'
      BY <1>7, <2>2, LifecycleAssumption DEF StopAccepting, IInv, TypeOK, listenerVars, announcerVars
    <3> QED
      BY <1>7, <2>2, <3>1, CountUntouched DEF StopAccepting, IInv
  <2> QED
    BY <2>1, <2>2
<1>8. CASE DrainEnds
  BY <1>8, ExitKeeps DEF DrainEnds, IInv
<1> QED
  BY <1>1, <1>2, <1>3, <1>4, <1>5, <1>6, <1>7, <1>8 DEF ListenerStep

LEMMA AnnouncerStepKeeps ==
  ASSUME IInv, AnnouncerStep
  PROVE  IInv'
<1> USE DEF RestOfAnnouncer, listenerVars, processVars
<1>1. UNCHANGED <<now, signalled, listenerVars, processVars>>
  BY DEF AnnouncerStep, AnnouncerStarts, Announce, AnnouncerWakes, AnnouncerStops, Goodbye, PauseEnds
<1>2. ActiveCounted'
  BY <1>1, CountUntouched DEF IInv
<1> USE DEF IInv, TypeOK
<1>3. wake' \in Nat /\ round' \in Nat
  <2>1. Interval \in Nat /\ RoundGap \in Nat
    BY LifecycleAssumption
  <2>2. CASE Announce
    BY <2>1, <2>2 DEF Announce
  <2>3. CASE Goodbye
    <3>1. \/ wake' = wake /\ round' = round
          \/ wake' = now + RoundGap /\ round' = round + 1
      BY <2>3 DEF Goodbye
    <3> QED
      BY <2>1, <3>1
  <2>4. CASE ~Announce /\ ~Goodbye
    BY <2>4 DEF AnnouncerStep, AnnouncerStarts, AnnouncerWakes, AnnouncerStops, PauseEnds
  <2> QED
    BY <2>2, <2>3, <2>4
<1>4. wire' \subseteq [active : BOOLEAN, time : 0..now]
  <2>1. wire' = wire \/ \E sent \in BOOLEAN : wire' = wire \cup {[active |-> sent, time |-> now]}
    BY DEF Send, AnnouncerStep, AnnouncerStarts, Announce, AnnouncerWakes, AnnouncerStops,
       Goodbye, PauseEnds
  <2>2. now \in 0..now
    OBVIOUS
  <2> QED
    BY <2>1, <2>2
<1>5. announcer' \in {"none", "starting", "failed", "announcing", "asleep",
                      "goodbye", "pausing", "done", "killed"}
  BY DEF AnnouncerStep, AnnouncerStarts, Announce,
     AnnouncerWakes, AnnouncerStops, Goodbye, PauseEnds
<1> QED
  BY <1>1, <1>2, <1>3, <1>4, <1>5

LEMMA NextIInv == IInv /\ [Next]_lifecycleVars => IInv'
<1> SUFFICES ASSUME IInv, [Next]_lifecycleVars PROVE IInv'
  OBVIOUS
<1>1. CASE ListenerStep
  BY <1>1, ListenerStepKeeps
<1>2. CASE AnnouncerStep
  BY <1>2, AnnouncerStepKeeps
<1>3. CASE Tick
  <2>1. now' \in Nat /\ 0..now \subseteq 0..now'
    BY <1>3 DEF Tick, IInv, TypeOK
  <2>2. wire' \subseteq [active : BOOLEAN, time : 0..now']
    BY <1>3, <2>1 DEF Tick, IInv, TypeOK, announcerVars
  <2>3. TypeOK'
    BY <1>3, <2>1, <2>2 DEF Tick, IInv, TypeOK, listenerVars, announcerVars, processVars
  <2> QED
    BY <1>3, <2>3, CountUntouched DEF Tick, IInv, processVars
<1>4. CASE UNCHANGED lifecycleVars
  BY <1>4 DEF lifecycleVars, listenerVars, announcerVars, processVars, IInv, TypeOK,
     ActiveCounted, InTask, Panicked
<1> QED
  BY <1>1, <1>2, <1>3, <1>4 DEF Next

\* Types and count are kept by every step (listener.rs:191).
THEOREM CountInvariant == Spec => []IInv
BY InitIInv, NextIInv, PTL DEF Spec

\* The types of the process, for any times and any connections (listener.rs:177).
THEOREM TypeCorrect == Spec => []TypeOK
<1>1. IInv => TypeOK
  BY DEF IInv
<1> QED
  BY <1>1, CountInvariant, PTL

\* active_connections is exact as long as the service runs (listener.rs:206).
THEOREM Counts == Spec => []ActiveCounted
<1>1. IInv => ActiveCounted
  BY DEF IInv
<1> QED
  BY <1>1, CountInvariant, PTL

\* Only the end of run makes an exit orderly, and the count tells it who is left.
LEMMA ExitStep ==
  ASSUME IInv, [Next]_lifecycleVars
  PROVE  [outcome' = "ok" /\ outcome = "none" =>
            InTask = {} \/ (phase = "draining" /\ now >= deadline)]_lifecycleVars
<1> SUFFICES ASSUME Next, outcome' = "ok", outcome = "none"
             PROVE  InTask = {} \/ (phase = "draining" /\ now >= deadline)
  BY DEF lifecycleVars, listenerVars, announcerVars, processVars
<1>1. active = 0 => InTask = {}
  <2>1. phase # "exited"
    BY DEF IInv, TypeOK
  <2>2. active = 0 => Counted = {}
    BY <2>1, CountedFinite, FS_EmptySet DEF IInv, ActiveCounted, Counted
  <2> QED
    BY <2>2 DEF Counted
<1>2. StopAccepting \/ DrainEnds
  BY DEF Next, ListenerStep, ConnectionStep, Connect, Accept, AcceptFails, HandshakeDone, Ends,
     Panics, RestOfConnections, BindFails, Bind, StartFails, Crash, Signal, Exit, AnnouncerStep,
     AnnouncerStarts, Announce, AnnouncerWakes, AnnouncerStops, Goodbye, PauseEnds,
     RestOfAnnouncer, Tick, processVars
<1>3. CASE StopAccepting
  BY <1>1, <1>3 DEF StopAccepting
<1>4. CASE DrainEnds
  BY <1>1, <1>4 DEF DrainEnds
<1> QED
  BY <1>2, <1>3, <1>4

\* An orderly exit cuts off nobody before the drain has had its time (listener.rs:216).
THEOREM Drains == Spec => ExitsDrained
BY CountInvariant, ExitStep, PTL DEF Spec, ExitsDrained

-----------------------------------------------------------------------------
(* A packet, built and taken apart.                                        *)

\* A text stays one when it is wrapped.
LEMMA WrappedTyped ==
  ASSUME NEW T, Newline \in T, NEW chars \in Seq(T)
  PROVE  Wrapped(chars) \in Seq(T)
<1> DEFINE line(i) == IF i > 1 /\ (i - 1) % LineWidth = 0
                      THEN <<Newline, chars[i]>> ELSE <<chars[i]>>
           seqs == [i \in DOMAIN chars |-> line(i)]
<1>1. seqs \in Seq(Seq(T))
  <2>1. DOMAIN chars = 1..Len(chars) /\ Len(chars) \in Nat
    OBVIOUS
  <2>2. ASSUME NEW i \in 1..Len(chars) PROVE line(i) \in Seq(T)
    <3>1. PICK c \in T : c = chars[i]
      OBVIOUS
    <3>2. PICK l \in T : l = Newline
      OBVIOUS
    <3>3. <<l, c>> \in Seq(T) /\ <<c>> \in Seq(T)
      OBVIOUS
    <3> QED BY <3>1, <3>2, <3>3
  <2> HIDE DEF line
  <2> QED BY <2>1, <2>2
<1>2. FlattenSeq(seqs) \in Seq(T)
  <2> HIDE DEF seqs
  <2> QED BY <1>1, FlattenTyped
<1>3. <<Newline>> \in Seq(T)
  <2>1. PICK l \in T : l = Newline
    OBVIOUS
  <2>2. <<l>> \in Seq(T)
    OBVIOUS
  <2> QED BY <2>1, <2>2
<1>4. Wrapped(chars) = FlattenSeq(seqs) \o <<Newline>>
  BY DEF Wrapped
<1> HIDE DEF seqs
<1> QED BY <1>2, <1>3, <1>4

\* What the texts of a service are made of.
IsServiceText(service) ==
  /\ service.certificate \in Seq({service.certificate[i] : i \in DOMAIN service.certificate})
  /\ service.key.size \in Nat

\* A packet is a text, and begins with its JSON.
LEMMA PacketBegins ==
  ASSUME NEW service, IsServiceText(service), NEW isActive, NEW time
  PROVE  \E T : /\ Newline \in T
                /\ Packet(service, isActive, time) \in Seq(T)
                /\ Packet(service, isActive, time)[1]
                     = [is |-> "json", of |-> Body(service, isActive, time)]
<1>1. PICK json : json = [is |-> "json", of |-> Body(service, isActive, time)]
  OBVIOUS
<1> DEFINE sig == Signature(service.key, json)
           C == {service.certificate[i] : i \in DOMAIN service.certificate}
           Z == {[is |-> "sig", by |-> service.key, of |-> json, at |-> i] : i \in 1..service.key.size}
           T == {json, Newline} \cup C \cup Z
<1>2. service.key.size \in Nat /\ service.certificate \in Seq(C)
  BY DEF IsServiceText
<1>3. sig \in Seq(T)
  <2>1. sig \in [1..service.key.size -> Z]
    BY DEF Signature
  <2>2. sig \in Seq(Z)
    <3> HIDE DEF sig, Z
    <3> QED BY <1>2, <2>1
  <2>3. Z \subseteq T
    OBVIOUS
  <2> HIDE DEF sig, Z, T
  <2> QED BY <2>2, <2>3
<1>4. service.certificate \in Seq(T)
  <2>1. C \subseteq T
    OBVIOUS
  <2> HIDE DEF C, T
  <2> QED BY <1>2, <2>1
<1>5. json \in T /\ Newline \in T
  OBVIOUS
<1> HIDE DEF sig, T
<1>6. PICK wrapped \in Seq(T) : wrapped = Wrapped(sig)
  BY <1>3, <1>5, WrappedTyped
<1>7. PICK certificate \in Seq(T) : certificate = service.certificate
  BY <1>4
<1>8. PICK l \in T : l = Newline
  BY <1>5
<1>9. PICK head, end \in Seq(T) : head = <<json, l, l>> /\ end = <<l>> /\ head[1] = json /\ Len(head) = 3
  <2>1. <<json, l, l>> \in Seq(T) /\ <<l>> \in Seq(T)
    BY <1>5
  <2>2. <<json, l, l>>[1] = json /\ Len(<<json, l, l>>) = 3
    OBVIOUS
  <2> QED BY <2>1, <2>2
<1>10. Packet(service, isActive, time) = head \o certificate \o end \o wrapped \o end
  BY <1>1, <1>6, <1>7, <1>8, <1>9 DEF Packet, sig
<1>11. \A s, t \in Seq(T) : Len(s) >= 3 =>
          s \o t \in Seq(T) /\ Len(s \o t) >= 3 /\ (s \o t)[1] = s[1]
  OBVIOUS
<1> DEFINE t1 == head \o certificate
           t2 == t1 \o end
           t3 == t2 \o wrapped
<1>12. t1 \in Seq(T) /\ Len(t1) >= 3 /\ t1[1] = json
  BY <1>9, <1>11
<1> HIDE DEF t1
<1>13. t2 \in Seq(T) /\ Len(t2) >= 3 /\ t2[1] = json
  BY <1>11, <1>12
<1> HIDE DEF t2
<1>14. t3 \in Seq(T) /\ Len(t3) >= 3 /\ t3[1] = json
  BY <1>11, <1>13
<1> HIDE DEF t3
<1>15. t3 \o end \in Seq(T) /\ (t3 \o end)[1] = json
  BY <1>11, <1>14
<1> QED BY <1>1, <1>5, <1>10, <1>15 DEF t1, t2, t3

\* A packet that is parsed holds what was written into its JSON.
LEMMA ParsedBody ==
  ASSUME NEW service, IsServiceText(service), NEW isActive, NEW time,
         ParsePacket(Packet(service, isActive, time)).ok
  PROVE  /\ ParseBody(Body(service, isActive, time)).ok
         /\ ParsePacket(Packet(service, isActive, time)).value.body
              = ParseBody(Body(service, isActive, time)).value
<1>1. PICK T : /\ Newline \in T
               /\ Packet(service, isActive, time) \in Seq(T)
               /\ Packet(service, isActive, time)[1]
                    = [is |-> "json", of |-> Body(service, isActive, time)]
  BY PacketBegins
<1>2. PICK text \in Seq(T) : text = Packet(service, isActive, time)
  BY <1>1
<1>3. PICK delimiter \in Seq(T) : delimiter = <<Newline, Newline>> /\ delimiter # <<>>
  <2>1. PICK l \in T : l = Newline
    BY <1>1
  <2>2. <<l, l>> \in Seq(T) /\ <<l, l>> # <<>>
    OBVIOUS
  <2> QED BY <2>1, <2>2
<1>4. PICK parts \in Seq(Seq(T)) : /\ parts = Split(text, delimiter)
                                   /\ \E k \in 0..Len(text) : parts[1] = SubSeq(text, 1, k)
  BY <1>3, SplitBegins
<1>5. PICK k \in 0..Len(text) : parts[1] = SubSeq(text, 1, k)
  BY <1>4
<1> DEFINE json == parts[1][1]
           body == ParseBody(json.of)
<1>6. ParsePacket(text) =
        IF Len(parts) < 3 THEN ParseError
        ELSE IF Len(parts) > 3 /\ parts[4] # <<>> THEN ParseError
        ELSE IF Len(parts[1]) # 1 \/ json.is # "json" THEN ParseError
        ELSE IF ~body.ok THEN body
        ELSE Parsed([json |-> json, body |-> body.value,
                     certificate |-> parts[2], signature |-> parts[3]])
  BY <1>3, <1>4 DEF ParsePacket
<1>7. ParsePacket(text).ok /\ ~ParseError.ok
  BY <1>2 DEF ParseError
<1>8. /\ Len(parts[1]) = 1 /\ body.ok
      /\ ParsePacket(text) = Parsed([json |-> json, body |-> body.value,
                                     certificate |-> parts[2], signature |-> parts[3]])
  <2> HIDE DEF json, body
  <2> QED BY <1>6, <1>7
<1>9. json = text[1]
  <2>1. SubSeq(text, 1, k) \in Seq(T) /\ Len(SubSeq(text, 1, k)) = k
        /\ (k >= 1 => SubSeq(text, 1, k)[1] = text[1])
    BY <1>5
  <2> QED BY <1>5, <1>8, <2>1
<1>10. json.of = Body(service, isActive, time)
  BY <1>1, <1>2, <1>9
<1>11. ParsePacket(text).value.body = body.value
  <2> HIDE DEF json, body
  <2> QED BY <1>8 DEF Parsed
<1> QED BY <1>2, <1>8, <1>10, <1>11

\* The columns of v4 are empty, and so is what is read out of them.
LEMMA NothingInV4 == V4Actions(NoV4) = Parsed({})
<1>1. Rle(<<>>) = Array(<<>>)
  <2> DEFINE chunk(i, n) == IF n > 1 THEN Array(<<n, <<>>[i]>>) ELSE Scalar(<<>>[i])
             upon(g, i) == IF i > 0 THEN <<>>
                           ELSE <<chunk(i, RunAt(<<>>, i))>> \o g[i + RunAt(<<>>, i)]
             encoded == CHOOSE g : g = [i \in 1..1 |-> upon(g, i)]
             f == [i \in 1..1 |-> <<>>]
  <2>1. f = [i \in 1..1 |-> upon(f, i)]
    OBVIOUS
  <2>2. encoded = [i \in 1..1 |-> upon(encoded, i)]
    <3> HIDE DEF upon, f
    <3> QED BY <2>1
  <2>3. encoded[1] = <<>>
    <3> HIDE DEF encoded
    <3> QED BY <2>2
  <2>4. Len(<<>>) = 0 /\ 0 + 1 = 1
    OBVIOUS
  <2>5. Rle(<<>>) = Array(encoded[1])
    BY <2>4 DEF Rle
  <2> HIDE DEF encoded
  <2> QED BY <2>3, <2>5
<1>2. Array(<<>>) # Missing /\ Array(<<>>).is = "array" /\ Array(<<>>).of = <<>>
  <2>1. "of" \in DOMAIN Array(<<>>) /\ "of" \notin DOMAIN Missing
    BY DEF Array, Missing
  <2>2. Array(<<>>).is = "array" /\ Array(<<>>).of = <<>>
    BY DEF Array
  <2> QED BY <2>1, <2>2
<1>3. ASSUME NEW required, NEW n, NEW default
      PROVE  Unrle(Array(<<>>), required, n, default) = Parsed(<<>>)
  <2>1. DOMAIN Array(<<>>).of = {}
    BY <1>2
  <2>2. [i \in DOMAIN Array(<<>>).of |-> Expand(Array(<<>>).of[i])] = <<>>
    BY <2>1
  <2>3. FlattenSeq(<<>>) = <<>>
    BY DEF FlattenSeq
  <2> QED BY <1>2, <2>1, <2>2, <2>3 DEF Unrle
<1>4. ASSUME NEW default
      PROVE  Unrle(Missing, FALSE, 0, default) = Parsed(<<>>)
  BY DEF Unrle
<1> DEFINE column(name)   == IF name \in DOMAIN NoV4 THEN NoV4[name] ELSE Missing
           required(name) == name \in {"acname", "acns", "acenv", "acsec"}
           names          == Unrle(column("acname"), TRUE, 0, 0)
           columns        == [name \in DOMAIN V4Default |->
                                Unrle(column(name), required(name), Len(names.value),
                                      V4Default[name])]
           at(name, i)    == columns[name].value[i]
           rows           == 1..Min({Len(columns[name].value) : name \in DOMAIN columns})
           compatible     == {i \in rows : at("accompat", i) = 1}
           action(i)      == ActionOf(Path(at("acns", i), at("acname", i)), at("acver", i),
                                at("acflag", i), at("acsec", i), at("acenv", i))
<1>5. V4Actions(NoV4) =
        IF ~names.ok \/ \E name \in DOMAIN columns : ~columns[name].ok THEN ParseError
        ELSE IF \E i \in compatible : \E f \in at("acflag", i) : FlagPanics(f) THEN ParsePanic
        ELSE Parsed({action(i) : i \in compatible})
  BY DEF V4Actions
<1>6. Parsed(<<>>).ok /\ Parsed(<<>>).value = <<>> /\ Len(<<>>) = 0
  BY DEF Parsed
<1>7. \A name \in DOMAIN V4Default :
        column(name) = Array(<<>>) \/ (column(name) = Missing /\ ~required(name))
  BY <1>1 DEF NoV4, V4Default
<1>8. names = Parsed(<<>>)
  <2>1. column("acname") = Array(<<>>)
    BY <1>1 DEF NoV4
  <2> QED BY <1>3, <2>1
<1>9. \A name \in DOMAIN V4Default : columns[name] = Parsed(<<>>)
  <2> SUFFICES ASSUME NEW name \in DOMAIN V4Default PROVE columns[name] = Parsed(<<>>)
    OBVIOUS
  <2>1. columns[name] = Unrle(column(name), required(name), 0, V4Default[name])
    <3> HIDE DEF column, required, names
    <3> QED BY <1>6, <1>8
  <2>2. required(name) \in BOOLEAN
    OBVIOUS
  <2> HIDE DEF column, required
  <2> QED BY <1>3, <1>4, <1>7, <2>1, <2>2
<1>10. DOMAIN columns = DOMAIN V4Default
  OBVIOUS
<1> HIDE DEF column, required, names, columns
<1>11. compatible = {}
  <2>1. {Len(columns[name].value) : name \in DOMAIN columns} = {0}
    <3>1. "acname" \in DOMAIN V4Default
      BY DEF V4Default
    <3> QED BY <1>6, <1>9, <1>10, <3>1
  <2>2. Min({0}) = 0
    BY DEF Min
  <2>3. rows = 1..Min({0})
    BY <2>1
  <2> HIDE DEF rows
  <2>4. rows = {}
    BY <2>2, <2>3
  <2> QED BY <2>4
<1>12. {action(i) : i \in compatible} = {}
  BY <1>11
<1>13. names.ok /\ \A name \in DOMAIN columns : columns[name].ok
  BY <1>6, <1>8, <1>9, <1>10
<1> HIDE DEF compatible, action, at
<1> QED BY <1>5, <1>11, <1>12, <1>13

\* What a v3 class says of an action.
MethodOf(a) ==
  [name |-> a.method, flags |-> {f \in a.flags : IsAnnounceable(f)},
   version |-> IF a.version = 1 THEN Missing ELSE Scalar(a.version)]

\* The actions of a service that are announced, as a receiver should learn of them.
Named(actions) == {a \in actions : a.namespace # NoNamespace}

Learned(a, sector, envelopes) ==
  ActionOf(Path(a.namespace, a.method), a.version, {f \in a.flags : IsAnnounceable(f)},
           sector, envelopes)

\* A version of 1 is left out and read back as 1; any other is read back.
LEMMA VersionRead ==
  ASSUME NEW a
  PROVE  (IF MethodOf(a).version.is = "scalar" THEN MethodOf(a).version.of ELSE 1) = a.version
<1>1. CASE a.version = 1
  BY <1>1 DEF MethodOf, Missing
<1>2. CASE a.version # 1
  <2>1. MethodOf(a).version = Scalar(a.version)
    BY <1>2 DEF MethodOf
  <2>2. Scalar(a.version).is = "scalar" /\ Scalar(a.version).of = a.version
    BY DEF Scalar
  <2> QED BY <2>1, <2>2
<1> QED BY <1>1, <1>2

\* The methods of the v3 classes are those of the actions that have a namespace.
LEMMA ClassMethods ==
  ASSUME NEW actions
  PROVE  UNION {{<<c.namespace, m>> : m \in c.methods} : c \in V3Classes(actions)}
           = {<<a.namespace, MethodOf(a)>> : a \in Named(actions)}
<1> DEFINE classes == V3Classes(actions)
           methods == UNION {{<<c.namespace, m>> : m \in c.methods} : c \in classes}
<1>1. classes = {[namespace |-> ns,
                  methods |-> {MethodOf(a) : a \in {b \in Named(actions) : b.namespace = ns}}] :
                   ns \in {a.namespace : a \in Named(actions)}}
  BY DEF V3Classes, MethodOf, Named
<1> HIDE DEF classes
<1>2. methods = {<<a.namespace, MethodOf(a)>> : a \in Named(actions)}
  <2>1. ASSUME NEW a \in Named(actions) PROVE <<a.namespace, MethodOf(a)>> \in methods
    <3> DEFINE class(ns) ==
                 [namespace |-> ns,
                  methods |-> {MethodOf(o) : o \in {b \in Named(actions) : b.namespace = ns}}]
    <3>1. PICK ns \in {o.namespace : o \in Named(actions)} : ns = a.namespace
      OBVIOUS
    <3>2. class(ns) \in classes
      BY <1>1
    <3>3. class(ns).namespace = a.namespace /\ MethodOf(a) \in class(ns).methods
      BY <3>1
    <3> HIDE DEF class
    <3> QED BY <3>2, <3>3
  <2>2. ASSUME NEW n \in methods
        PROVE  \E a \in Named(actions) : n = <<a.namespace, MethodOf(a)>>
    <3>1. PICK c \in classes : \E m \in c.methods : n = <<c.namespace, m>>
      OBVIOUS
    <3>2. PICK m \in c.methods : n = <<c.namespace, m>>
      BY <3>1
    <3>3. PICK a \in Named(actions) : a.namespace = c.namespace /\ m = MethodOf(a)
      BY <1>1
    <3> QED BY <3>2, <3>3
  <2> HIDE DEF methods
  <2> QED BY <2>1, <2>2
<1> QED BY <1>2 DEF classes

\* v3 classes are read back action by action.
LEMMA ClassesRead ==
  ASSUME NEW actions, NEW sector, NEW envelopes,
         \A a \in actions : a.version \in Int /\ a.version <= MaxU32,
         V3Actions(V3Classes(actions), sector, envelopes).ok
  PROVE  V3Actions(V3Classes(actions), sector, envelopes).value
           = {Learned(a, sector, envelopes) : a \in Named(actions)}
<1> DEFINE classes == V3Classes(actions)
           methods == UNION {{<<c.namespace, m>> : m \in c.methods} : c \in classes}
           version(m) == IF m.version.is = "scalar" THEN m.version.of ELSE 1
           action(n) == ActionOf(Path(n[1], n[2].name), AsU32(version(n[2])), n[2].flags,
                                 sector, envelopes)
           result == V3Actions(classes, sector, envelopes)
<1>1. result = IF \E n \in methods : version(n[2]) < 0 THEN ParseError
               ELSE IF \E n \in methods : \E f \in n[2].flags : FlagPanics(f) THEN ParsePanic
               ELSE Parsed({action(n) : n \in methods})
  BY DEF V3Actions
<1>3. methods = {<<a.namespace, MethodOf(a)>> : a \in Named(actions)}
  BY ClassMethods
<1> HIDE DEF classes
<1> HIDE DEF methods
<1>4. result.ok /\ ~ParseError.ok /\ ~ParsePanic.ok
  BY DEF ParseError, ParsePanic, classes
<1>5. /\ \A n \in methods : ~(version(n[2]) < 0)
      /\ result = Parsed({action(n) : n \in methods})
  <2> HIDE DEF result, version, action
  <2> QED BY <1>1, <1>4
<1>6. ASSUME NEW a \in Named(actions)
      PROVE  action(<<a.namespace, MethodOf(a)>>) = Learned(a, sector, envelopes)
  <2>1. PICK n \in methods : n = <<a.namespace, MethodOf(a)>>
    BY <1>3
  <2>2. n[1] = a.namespace /\ n[2] = MethodOf(a)
    BY <2>1
  <2>3. version(n[2]) = a.version
    BY <2>2, VersionRead
  <2>4. a.version \in Int /\ a.version <= MaxU32 /\ ~(a.version < 0) /\ MaxU32 \in Nat
    BY <1>5, <2>3, CodecAssumption DEF Named
  <2>5. AsU32(a.version) = a.version
    BY <2>4 DEF AsU32
  <2>6. n[2].name = a.method /\ n[2].flags = {f \in a.flags : IsAnnounceable(f)}
    BY <2>2 DEF MethodOf
  <2>7. action(n) = ActionOf(Path(a.namespace, a.method), a.version,
                             {f \in a.flags : IsAnnounceable(f)}, sector, envelopes)
    <3> HIDE DEF version
    <3> QED BY <2>2, <2>3, <2>5, <2>6
  <2> QED BY <2>1, <2>7 DEF Learned
<1>7. {action(n) : n \in methods} = {Learned(a, sector, envelopes) : a \in Named(actions)}
  <2> HIDE DEF action
  <2> QED BY <1>3, <1>6
<1>8. result.value = {action(n) : n \in methods}
  <2> HIDE DEF result, action
  <2> QED BY <1>5 DEF Parsed
<1> HIDE DEF action
<1> QED BY <1>7, <1>8 DEF classes

\* What is read out of a body, if anything is.
LEMMA BodyRead ==
  ASSUME NEW service, NEW isActive \in BOOLEAN, NEW time,
         \A a \in service.actions : a.version \in Int /\ a.version <= MaxU32,
         ParseBody(Body(service, isActive, time)).ok
  PROVE  /\ isActive
         /\ ParseBody(Body(service, isActive, time)).value.timestamp = time
         /\ ParseBody(Body(service, isActive, time)).value.actions
              = {Learned(a, service.sector, service.envelopes) : a \in Named(service.actions)}
<1> DEFINE classes == IF isActive THEN V3Classes(service.actions) ELSE {}
           body == Body(service, isActive, time)
           v4 == V4Actions(body.v4)
           v3 == V3Actions(body.v3.of, body.sector, body.envelopes)
           result == [identity |-> body.identity, uri |-> body.uri, weight |-> AsU32(body.weight),
                      interval |-> AsU32(body.interval), timestamp |-> body.timestamp,
                      actions |-> v4.value \cup v3.value]
<1>1. /\ body.v4 = NoV4 /\ body.sector = service.sector /\ body.envelopes = service.envelopes
      /\ body.timestamp = time
      /\ body.v3 = IF classes = {} THEN Null ELSE Array(classes)
  BY DEF Body
<1>2. ParseBody(body) = IF body.v3.is # "array" THEN ParseError
                        ELSE IF ~v4.ok THEN v4
                        ELSE IF ~v3.ok THEN v3
                        ELSE Parsed(result)
  BY DEF ParseBody
<1>3. ParseBody(body).ok /\ ~ParseError.ok
  BY DEF ParseError
<1> HIDE DEF body
<1>4. body.v3.is = "array" /\ v4.ok /\ v3.ok /\ ParseBody(body) = Parsed(result)
  <2> HIDE DEF v4, v3, result
  <2> QED BY <1>2, <1>3
<1>5. classes # {} /\ isActive
  <2>1. Null.is # "array"
    BY DEF Null
  <2> QED BY <1>1, <1>4, <2>1
<1>6. body.v3.of = V3Classes(service.actions)
  BY <1>1, <1>5 DEF Array
<1>7. v4.value = {}
  BY <1>1, NothingInV4 DEF Parsed
<1>8. v3.value = {Learned(a, service.sector, service.envelopes) : a \in Named(service.actions)}
  <2>1. v3 = V3Actions(V3Classes(service.actions), service.sector, service.envelopes)
    BY <1>1, <1>6
  <2> HIDE DEF v3
  <2> QED BY <1>4, <2>1, ClassesRead
<1>9. ParseBody(body).value.timestamp = time
      /\ ParseBody(body).value.actions = v4.value \cup v3.value
  <2>1. ParseBody(body).value = result
    <3> HIDE DEF result
    <3> QED BY <1>4 DEF Parsed
  <2>2. result.timestamp = time /\ result.actions = v4.value \cup v3.value
    <3> HIDE DEF v3, v4
    <3> QED BY <1>1
  <2> HIDE DEF result, v3, v4
  <2> QED BY <2>1, <2>2
<1>10. v4.value \cup v3.value = v3.value
  <2> HIDE DEF v4, v3
  <2> QED BY <1>7
<1> HIDE DEF v3, v4
<1> QED BY <1>5, <1>8, <1>9, <1>10 DEF body

-----------------------------------------------------------------------------
(* An announcement, understood.                                            *)

\* Two texts, one after the other, are joined one after the other.
LEMMA JoinedConcat ==
  ASSUME NEW T, NEW s \in Seq(T), NEW t \in Seq(T)
  PROVE  /\ Joined(s) \in Seq(T) /\ Joined(t) \in Seq(T)
         /\ Joined(s \o t) = Joined(s) \o Joined(t)
<1> DEFINE token(c) == IF c = Newline THEN <<>> ELSE <<c>>
           tokens(u) == [i \in DOMAIN u |-> token(u[i])]
<1>1. \A c \in T : token(c) \in Seq(T)
  <2>1. \A c \in T : <<c>> \in Seq(T) /\ <<>> \in Seq(T)
    OBVIOUS
  <2> QED BY <2>1
<1> HIDE DEF token
<1>2. ASSUME NEW u \in Seq(T) PROVE tokens(u) \in Seq(Seq(T)) /\ Len(tokens(u)) = Len(u)
  <2>1. Len(u) \in Nat /\ DOMAIN u = 1..Len(u) /\ \A i \in 1..Len(u) : u[i] \in T
    OBVIOUS
  <2>2. \A i \in 1..Len(u) : token(u[i]) \in Seq(T)
    BY <1>1, <2>1
  <2>3. PICK n \in Nat : n = Len(u)
    BY <2>1
  <2>4. tokens(u) \in [1..n -> Seq(T)]
    BY <2>1, <2>2, <2>3
  <2> HIDE DEF tokens
  <2>5. tokens(u) \in Seq(Seq(T)) /\ Len(tokens(u)) = n
    BY <2>4
  <2> QED BY <2>3, <2>5
<1>3. tokens(s \o t) = tokens(s) \o tokens(t)
  <2>1. PICK m, n \in Nat : m = Len(s) /\ n = Len(t)
    OBVIOUS
  <2>2. PICK u : u = s \o t
    OBVIOUS
  <2>7. /\ u \in Seq(T) /\ Len(u) = m + n /\ DOMAIN u = 1..(m + n)
        /\ \A i \in 1..m : u[i] = s[i]
        /\ \A i \in 1..n : u[m + i] = t[i]
    <3>1. /\ u \in Seq(T) /\ Len(u) = Len(s) + Len(t)
          /\ DOMAIN u = 1..(Len(s) + Len(t))
          /\ \A i \in 1..Len(s) : u[i] = s[i]
          /\ \A i \in 1..Len(t) : u[Len(s) + i] = t[i]
      BY ONLY s \in Seq(T), t \in Seq(T), <2>2, ConcatParts
    <3> QED BY ONLY <2>1, <3>1, Zenon
  <2>3. PICK a, b, c \in Seq(Seq(T)) : /\ a = tokens(s) /\ b = tokens(t) /\ c = tokens(u)
                                       /\ Len(a) = m /\ Len(b) = n /\ Len(c) = m + n
    BY <1>2, <2>1, <2>7
  <2>4. /\ \A i \in 1..m : a[i] = token(s[i])
        /\ \A i \in 1..n : b[i] = token(t[i])
        /\ \A i \in 1..(m + n) : c[i] = token(u[i])
    <3>1. DOMAIN s = 1..m /\ DOMAIN t = 1..n /\ DOMAIN u = 1..(m + n)
      BY <2>1, <2>7
    <3> QED BY <2>3, <3>1
  <2> HIDE DEF tokens
  <2>5. /\ \A i \in 1..m : c[i] = a[i]
        /\ \A i \in 1..n : c[m + i] = b[i]
    <3>1. ASSUME NEW i \in 1..m PROVE c[i] = a[i]
      <4>1. i \in 1..(m + n)
        OBVIOUS
      <4> QED BY <2>7, <2>4, <4>1
    <3>2. ASSUME NEW i \in 1..n PROVE c[m + i] = b[i]
      <4>1. m + i \in 1..(m + n)
        OBVIOUS
      <4> QED BY <2>7, <2>4, <4>1
    <3> QED BY <3>1, <3>2
  <2>6. c = a \o b
    <3>1. a \in Seq(Seq(T)) /\ b \in Seq(Seq(T)) /\ c \in Seq(Seq(T))
      OBVIOUS
    <3>2. /\ Len(c) = Len(a) + Len(b) /\ \A i \in 1..Len(a) : c[i] = a[i]
          /\ \A i \in 1..Len(b) : c[Len(a) + i] = b[i]
      BY ONLY <2>3, <2>5, Zenon
    <3> QED BY ONLY <3>1, <3>2, ConcatIs, Zenon
  <2> QED BY <2>2, <2>3, <2>6
<1>4. \A u : Joined(u) = FlattenSeq(tokens(u))
  BY DEF Joined, token
<1> HIDE DEF tokens
<1>5. FlattenSeq(tokens(s) \o tokens(t)) = FlattenSeq(tokens(s)) \o FlattenSeq(tokens(t))
  <2>1. PICK a, b \in Seq(Seq(T)) : a = tokens(s) /\ b = tokens(t)
    BY <1>2
  <2>2. FlattenSeq(a \o b) = FlattenSeq(a) \o FlattenSeq(b)
    BY FlattenConcat
  <2> QED BY <2>1, <2>2
<1>6. \A u \in Seq(T) : FlattenSeq(tokens(u)) \in Seq(T)
  BY <1>2, FlattenTyped
<1> QED BY <1>3, <1>4, <1>5, <1>6

\* A line break is left out, any other token stays.
LEMMA JoinedOne ==
  /\ Joined(<<>>) = <<>> /\ Joined(<<Newline>>) = <<>>
  /\ \A c : c # Newline => Joined(<<c>>) = <<c>>
<1> DEFINE token(c) == IF c = Newline THEN <<>> ELSE <<c>>
<1>1. ASSUME NEW c PROVE Joined(<<c>>) = token(c)
  <2>1. [i \in DOMAIN <<c>> |-> IF <<c>>[i] = Newline THEN <<>> ELSE <<<<c>>[i]>>] = <<token(c)>>
    OBVIOUS
  <2>2. token(c) \in Seq({c})
    <3>1. <<c>> \in Seq({c}) /\ <<>> \in Seq({c})
      OBVIOUS
    <3> QED BY <3>1
  <2> HIDE DEF token
  <2>3. FlattenSeq(<<token(c)>>) = token(c)
    BY <2>2, FlattenOne
  <2> QED BY <2>1, <2>3 DEF Joined
<1>2. Joined(<<>>) = <<>>
  BY DEF Joined, FlattenSeq
<1> QED BY <1>1, <1>2

\* What is in a text and no line break is in what it joins to.
LEMMA JoinedHas ==
  ASSUME NEW T, NEW s \in Seq(T), NEW i \in DOMAIN s, s[i] # Newline
  PROVE  \E j \in DOMAIN Joined(s) : Joined(s)[j] = s[i]
<1>1. PICK a, b, c \in Seq(T) : s = (a \o b) \o c /\ b = <<s[i]>>
  <2>1. i \in 1..Len(s) /\ s[i] \in T /\ i - 1 \in 0..Len(s) /\ i \in 0..Len(s)
        /\ (i - 1) + 1 = i /\ i - 1 < Len(s)
    OBVIOUS
  <2>2. PICK a \in Seq(T) : SubSeq(s, 1, i) = a \o <<s[i]>>
    <3>1. SubSeq(s, 1, (i - 1) + 1) = SubSeq(s, 1, i - 1) \o <<s[(i - 1) + 1]>>
      BY ONLY s \in Seq(T), <2>1, LongerHalf
    <3>2. SubSeq(s, 1, i - 1) \in Seq(T)
      BY ONLY s \in Seq(T), <2>1, Halves
    <3> QED BY ONLY <2>1, <3>1, <3>2, Zenon
  <2>3. PICK c \in Seq(T) : s = SubSeq(s, 1, i) \o c
    <3>1. /\ SubSeq(s, i + 1, Len(s)) \in Seq(T)
          /\ s = SubSeq(s, 1, i) \o SubSeq(s, i + 1, Len(s))
      BY ONLY s \in Seq(T), <2>1, Halves
    <3>2. PICK c \in Seq(T) : c = SubSeq(s, i + 1, Len(s))
      BY <3>1
    <3>3. s = SubSeq(s, 1, i) \o c
      BY ONLY <3>1, <3>2, Zenon
    <3> QED BY ONLY c \in Seq(T), <3>3, Zenon
  <2>4. PICK b \in Seq(T) : b = <<s[i]>>
    <3>1. PICK e \in T : e = s[i]
      BY <2>1
    <3>2. <<e>> \in Seq(T)
      OBVIOUS
    <3> QED BY <3>1, <3>2
  <2> QED BY <2>2, <2>3, <2>4
<1>2. /\ Joined(a) \in Seq(T) /\ Joined(b) \in Seq(T) /\ Joined(c) \in Seq(T)
      /\ Joined(s) = (Joined(a) \o Joined(b)) \o Joined(c)
  <2>1. PICK d \in Seq(T) : d = a \o b
    <3>1. a \o b \in Seq(T)
      BY ConcatTyped, Zenon
    <3> QED BY <3>1
  <2>2. Joined(d) = Joined(a) \o Joined(b) /\ Joined(a) \in Seq(T) /\ Joined(b) \in Seq(T)
    BY <2>1, JoinedConcat
  <2>3. Joined(d \o c) = Joined(d) \o Joined(c) /\ Joined(c) \in Seq(T)
    BY JoinedConcat
  <2> QED BY <1>1, <2>1, <2>2, <2>3
<1>3. Joined(b) = b
  BY <1>1, JoinedOne
<1>4. PICK x, z \in Seq(T) : x = Joined(a) /\ z = Joined(c)
  BY <1>2
<1>5. PICK y, u : y = x \o b /\ u = y \o z
  OBVIOUS
<1>6. 1 = Len(b) /\ b[1] = s[i]
  <2>1. Len(<<s[i]>>) = 1 /\ <<s[i]>>[1] = s[i]
    OBVIOUS
  <2> QED BY ONLY <1>1, <2>1, Zenon
<1>7. y \in Seq(T) /\ Len(y) = Len(x) + 1 /\ y[Len(x) + 1] = s[i]
  <2>1. /\ y \in Seq(T) /\ Len(y) = Len(x) + Len(b)
        /\ \A k \in 1..Len(b) : y[Len(x) + k] = b[k]
    BY ONLY x \in Seq(T), b \in Seq(T), <1>5, ConcatParts
  <2>2. 1 \in 1..1
    OBVIOUS
  <2> QED BY ONLY <1>6, <2>1, <2>2, Zenon
<1>8. /\ DOMAIN u = 1..(Len(y) + Len(z))
      /\ \A k \in 1..Len(y) : u[k] = y[k]
  BY ONLY <1>5, <1>7, z \in Seq(T), ConcatParts
<1>9. Len(x) + 1 \in 1..Len(y) /\ Len(x) + 1 \in 1..(Len(y) + Len(z))
  BY <1>7
<1>10. Len(x) + 1 \in DOMAIN u /\ u[Len(x) + 1] = s[i]
  BY ONLY <1>7, <1>8, <1>9, Zenon
<1>11. u = Joined(s)
  BY <1>2, <1>3, <1>4, <1>5
<1> QED BY <1>10, <1>11

\* Within a text no line is empty, and it ends in the middle of one.
NoBlank(text) ==
  \A j \in 1..Len(text) : text[j] = Newline => j < Len(text) /\ text[j + 1] # Newline

LEMMA NoBlankConcat ==
  ASSUME NEW T, NEW s \in Seq(T), NEW t \in Seq(T), NoBlank(s), NoBlank(t)
  PROVE  NoBlank(s \o t)
<1> SUFFICES ASSUME NEW j \in 1..Len(s \o t), (s \o t)[j] = Newline
             PROVE  j < Len(s \o t) /\ (s \o t)[j + 1] # Newline
  BY DEF NoBlank
<1>1. CASE j <= Len(s)
  <2>1. j \in 1..Len(s) /\ s[j] = Newline
    BY <1>1
  <2>2. j < Len(s) /\ s[j + 1] # Newline
    BY <2>1 DEF NoBlank
  <2> QED BY <2>1, <2>2
<1>2. CASE j > Len(s)
  <2>1. PICK i \in 1..Len(t) : j = Len(s) + i
    <3>1. j - Len(s) \in 1..Len(t) /\ j = Len(s) + (j - Len(s))
      BY <1>2
    <3> QED BY <3>1
  <2>2. t[i] = Newline
    BY <2>1
  <2>3. i < Len(t) /\ t[i + 1] # Newline
    BY <2>2 DEF NoBlank
  <2> QED BY <2>1, <2>3
<1> QED BY <1>1, <1>2

\* A wrapped signature has no empty line, and is the signature when it is joined.
LEMMA WrappedJoins ==
  ASSUME NEW T, Newline \in T, NEW chars \in Seq(T), \A i \in DOMAIN chars : chars[i] # Newline
  PROVE  \E w \in Seq(T) : /\ Wrapped(chars) = w \o <<Newline>>
                           /\ NoBlank(w) /\ Joined(w) = chars
<1> DEFINE line(i) == IF i > 1 /\ (i - 1) % LineWidth = 0
                      THEN <<Newline, chars[i]>> ELSE <<chars[i]>>
           seqs == [i \in DOMAIN chars |-> line(i)]
<1>1. Len(chars) \in Nat /\ DOMAIN chars = 1..Len(chars)
      /\ \A i \in 1..Len(chars) : chars[i] \in T
  OBVIOUS
<1>2. PICK l \in T : l = Newline
  OBVIOUS
<1>3. ASSUME NEW i \in 1..Len(chars)
      PROVE  /\ line(i) \in Seq(T) /\ Joined(line(i)) = <<chars[i]>>
             /\ NoBlank(line(i))
  <2>1. PICK c \in T : c = chars[i] /\ c # l
    BY <1>1, <1>2
  <2>2. line(i) = <<l, c>> \/ line(i) = <<c>>
    BY <1>2, <2>1
  <2> HIDE DEF line
  <2>3. <<l, c>> \in Seq(T) /\ <<c>> \in Seq(T) /\ <<l>> \in Seq(T) /\ <<l, c>> = <<l>> \o <<c>>
    OBVIOUS
  <2>4. Joined(<<c>>) = <<c>> /\ Joined(<<l>>) = <<>>
    BY <1>2, <2>1, JoinedOne
  <2>5. Joined(<<l, c>>) = <<c>>
    <3>1. Joined(<<l>> \o <<c>>) = Joined(<<l>>) \o Joined(<<c>>)
      BY <2>3, JoinedConcat
    <3>2. <<>> \o <<c>> = <<c>>
      OBVIOUS
    <3> QED BY <2>3, <2>4, <3>1, <3>2
  <2>6. NoBlank(<<c>>) /\ NoBlank(<<l, c>>)
    <3>1. c # Newline
      BY <1>2, <2>1
    <3> QED BY <3>1 DEF NoBlank
  <2> QED BY <2>1, <2>2, <2>3, <2>4, <2>5, <2>6
<1> HIDE DEF line
<1>4. seqs \in Seq(Seq(T)) /\ Len(seqs) = Len(chars) /\ \A i \in 1..Len(chars) : seqs[i] = line(i)
  <2>1. PICK n \in Nat : n = Len(chars)
    BY <1>1
  <2>2. seqs \in [1..n -> Seq(T)] /\ \A i \in 1..Len(chars) : seqs[i] = line(i)
    BY <1>1, <1>3, <2>1
  <2> HIDE DEF seqs
  <2>3. seqs \in Seq(Seq(T)) /\ Len(seqs) = n
    BY <2>2
  <2> QED BY <2>1, <2>2, <2>3
<1>5. Wrapped(chars) = FlattenSeq(seqs) \o <<Newline>>
  BY DEF Wrapped, line
<1> HIDE DEF seqs
<1>6. PICK f \in Partial(T, seqs) : FlattenSeq(seqs) = f[Len(chars)]
  BY <1>4, FlattenFacts
<1>7. /\ f[0] = <<>> /\ \A i \in 0..Len(chars) : f[i] \in Seq(T)
      /\ \A i \in 1..Len(chars) : f[i] = f[i - 1] \o line(i)
  BY <1>4 DEF Partial
<1> DEFINE K == {k \in Nat : k <= Len(chars) =>
                   NoBlank(f[k]) /\ Joined(f[k]) = SubSeq(chars, 1, k)}
<1>8. 0 \in K
  <2>1. NoBlank(<<>>) /\ Joined(<<>>) = <<>> /\ SubSeq(chars, 1, 0) = <<>>
    <3>1. SubSeq(chars, 1, 0) = <<>>
      OBVIOUS
    <3>2. NoBlank(<<>>)
      BY DEF NoBlank
    <3> QED BY <3>1, <3>2, JoinedOne
  <2> QED BY <1>7, <2>1
<1>9. ASSUME NEW k \in Nat, k \in K PROVE k + 1 \in K
  <2> SUFFICES ASSUME k + 1 <= Len(chars)
               PROVE  NoBlank(f[k + 1]) /\ Joined(f[k + 1]) = SubSeq(chars, 1, k + 1)
    OBVIOUS
  <2>1. k + 1 \in 1..Len(chars) /\ k \in 0..Len(chars) /\ (k + 1) - 1 = k /\ k <= Len(chars)
    BY <1>1
  <2>2. PICK s, t \in Seq(T) : s = f[k] /\ t = line(k + 1) /\ f[k + 1] = s \o t
    BY <1>3, <1>7, <2>1
  <2>3. NoBlank(s) /\ NoBlank(t) /\ Joined(s) = SubSeq(chars, 1, k) /\ Joined(t) = <<chars[k + 1]>>
    BY <1>3, <1>9, <2>1, <2>2
  <2>4. NoBlank(s \o t)
    BY <2>3, NoBlankConcat
  <2>5. Joined(s \o t) = SubSeq(chars, 1, k) \o <<chars[k + 1]>>
    <3>1. Joined(s \o t) = Joined(s) \o Joined(t)
      BY JoinedConcat
    <3> QED BY <2>3, <3>1
  <2>6. SubSeq(chars, 1, k) \o <<chars[k + 1]>> = SubSeq(chars, 1, k + 1)
    BY <2>1
  <2> QED BY <2>2, <2>4, <2>5, <2>6
<1>10. Len(chars) \in K
  <2> HIDE DEF K
  <2> QED BY <1>1, <1>8, <1>9, Induction
<1>11. f[Len(chars)] \in Seq(T) /\ NoBlank(f[Len(chars)]) /\ Joined(f[Len(chars)]) = chars
  <2>1. SubSeq(chars, 1, Len(chars)) = chars
    BY SubSeqAll
  <2>2. Len(chars) \in 0..Len(chars) /\ Len(chars) <= Len(chars)
    BY <1>1
  <2> QED BY <1>7, <1>10, <2>1, <2>2
<1> HIDE DEF K
<1> QED BY <1>5, <1>6, <1>11

\* Up to its first empty line is the first part of a text.
LEMMA SplitAtBlank ==
  ASSUME NEW T, Newline \in T, NEW a \in Seq(T), NEW rest \in Seq(T), NoBlank(a)
  PROVE  Split((a \o <<Newline, Newline>>) \o rest, <<Newline, Newline>>)
           = <<a>> \o Split(rest, <<Newline, Newline>>)
<1>1. PICK d \in Seq(T) : d = <<Newline, Newline>> /\ Len(d) = 2 /\ d # <<>>
                          /\ d[1] = Newline /\ d[2] = Newline
  <2>1. PICK l \in T : l = Newline
    OBVIOUS
  <2>2. <<l, l>> \in Seq(T) /\ Len(<<l, l>>) = 2 /\ <<l, l>> # <<>>
        /\ <<l, l>>[1] = l /\ <<l, l>>[2] = l
    OBVIOUS
  <2> QED BY <2>1, <2>2
<1>2. PICK b, text : b = a \o d /\ text = b \o rest
  OBVIOUS
<1>3. /\ b \in Seq(T) /\ Len(b) = Len(a) + Len(d)
      /\ \A i \in 1..Len(a) : b[i] = a[i]
  BY ONLY a \in Seq(T), d \in Seq(T), <1>2, ConcatParts
<1>4. /\ text \in Seq(T) /\ Len(text) = Len(b) + Len(rest)
      /\ \A i \in 1..Len(b) : text[i] = b[i]
  BY ONLY rest \in Seq(T), <1>2, <1>3, ConcatParts
<1>5. PICK e, n \in Nat : e = Len(a) /\ n = Len(rest)
  OBVIOUS
<1>6. Len(text) = e + 2 + n /\ \A i \in 1..e : text[i] = a[i]
  <2>1. Len(b) = e + 2 /\ \A i \in 1..e : b[i] = a[i]
    BY ONLY <1>1, <1>3, <1>5, Zenon
  <2>2. Len(text) = e + 2 + n /\ \A i \in 1..(e + 2) : text[i] = b[i]
    BY ONLY <1>4, <1>5, <2>1, Zenon
  <2>3. \A i \in 1..e : i \in 1..(e + 2)
    OBVIOUS
  <2> QED BY ONLY <2>1, <2>2, <2>3, Zenon
<1>7. ASSUME NEW j \in 1..e, SubSeq(text, j, j + 1) = d PROVE FALSE
  <2>1. SubSeq(text, j, j + 1)[1] = text[j] /\ SubSeq(text, j, j + 1)[2] = text[j + 1]
    BY <1>4, <1>6
  <2>2. a[j] = Newline /\ text[j + 1] = Newline
    BY <1>1, <1>6, <1>7, <2>1
  <2>3. j < e /\ a[j + 1] # Newline
    BY <1>5, <2>2 DEF NoBlank
  <2>4. j + 1 \in 1..e
    BY <2>3
  <2> QED BY <1>6, <2>2, <2>3, <2>4
<1>8. \A j \in 1..Len(a) : SubSeq(text, j, j + Len(d) - 1) # d
  <2>1. \A j \in 1..e : j + 2 - 1 = j + 1
    OBVIOUS
  <2> QED BY ONLY <1>1, <1>5, <1>7, <2>1, Zenon
<1>9. text = (a \o d) \o rest
  BY <1>2
<1>10. Split(text, d) = <<a>> \o Split(rest, d)
  <2>1. d # <<>>
    BY <1>1
  <2> QED
    BY ONLY a \in Seq(T), d \in Seq(T), rest \in Seq(T), <1>8, <1>9, <2>1, SplitFirst, Zenon
<1> QED BY <1>1, <1>9, <1>10

\* A packet falls into its JSON, its certificate, its signature and nothing.
LEMMA PacketSplits ==
  ASSUME NEW T, Newline \in T, NEW json \in T, json # Newline,
         NEW c \in Seq(T), NoBlank(c), NEW w \in Seq(T), NoBlank(w)
  PROVE  Split(<<json, Newline, Newline>> \o (c \o <<Newline>>) \o <<Newline>>
               \o (w \o <<Newline>>) \o <<Newline>>, <<Newline, Newline>>)
           = <<<<json>>, c, w, <<>>>>
<1>1. PICK j, l, d, h \in Seq(T) :
        /\ j = <<json>> /\ l = <<Newline>> /\ d = <<Newline, Newline>>
        /\ h = <<json, Newline, Newline>> /\ h = j \o d /\ d = l \o l /\ Len(d) = 2 /\ d # <<>>
  <2>1. PICK e \in T : e = Newline
    OBVIOUS
  <2>2. /\ <<json>> \in Seq(T) /\ <<e>> \in Seq(T) /\ <<e, e>> \in Seq(T)
        /\ <<json, e, e>> \in Seq(T)
    OBVIOUS
  <2>3. /\ <<json, e, e>> = <<json>> \o <<e, e>> /\ <<e, e>> = <<e>> \o <<e>>
        /\ Len(<<e, e>>) = 2 /\ <<e, e>> # <<>>
    OBVIOUS
  <2> QED BY <2>1, <2>2, <2>3
<1>2. \A x, y \in Seq(T) : x \o y \in Seq(T)
  BY ConcatTyped
<1>3. PICK r2, r1 \in Seq(T) : r2 = (w \o d) \o <<>> /\ r1 = (c \o d) \o r2
  <2>1. <<>> \in Seq(T)
    OBVIOUS
  <2>2. PICK x \in Seq(T) : x = (w \o d) \o <<>>
    BY <1>2, <2>1
  <2>3. PICK y \in Seq(T) : y = (c \o d) \o x
    BY <1>2
  <2> QED BY <2>2, <2>3
<1>4. r2 = w \o d
  <2>1. w \o d \in Seq(T)
    BY <1>2
  <2> QED BY <1>3, <2>1, ConcatEmpty
<1>5. h \o (c \o l) \o l \o (w \o l) \o l = h \o r1
  <2>1. TwoWritten(h, c, w, l) = TwoRead(h, c, w, l)
    BY ONLY h \in Seq(T), c \in Seq(T), w \in Seq(T), l \in Seq(T), EndedTwice
  <2>2. r1 = (c \o (l \o l)) \o (w \o (l \o l))
    BY ONLY <1>1, <1>3, <1>4, Zenon
  <2> QED BY ONLY <2>1, <2>2, Zenon DEF TwoWritten, TwoRead
<1>6. Split(<<>>, d) = <<<<>>>>
  <2>1. Len(<<>>) - Len(d) + 1 < 1
    BY <1>1
  <2>2. Finds(<<>>, d, 1) = {}
    BY <2>1 DEF Finds
  <2>3. <<>> \in Seq(T)
    OBVIOUS
  <2> QED BY ONLY d \in Seq(T), <1>1, <2>2, <2>3, SplitWhole, Zenon
<1>7. Split(r2, d) = <<w>> \o <<<<>>>>
  <2>1. <<>> \in Seq(T)
    OBVIOUS
  <2>2. Split((w \o <<Newline, Newline>>) \o <<>>, <<Newline, Newline>>)
          = <<w>> \o Split(<<>>, <<Newline, Newline>>)
    BY ONLY Newline \in T, w \in Seq(T), NoBlank(w), <2>1, SplitAtBlank, Zenon
  <2> QED BY ONLY <1>1, <1>3, <1>6, <2>2
<1>8. Split(r1, d) = <<c>> \o (<<w>> \o <<<<>>>>)
  <2>1. Split((c \o <<Newline, Newline>>) \o r2, <<Newline, Newline>>)
          = <<c>> \o Split(r2, <<Newline, Newline>>)
    BY ONLY Newline \in T, c \in Seq(T), r2 \in Seq(T), NoBlank(c), SplitAtBlank, Zenon
  <2> QED BY ONLY <1>1, <1>3, <1>7, <2>1, Zenon
<1>9. Split(h \o r1, d) = <<j>> \o (<<c>> \o (<<w>> \o <<<<>>>>))
  <2>1. NoBlank(j)
    BY <1>1 DEF NoBlank
  <2>2. Split((j \o <<Newline, Newline>>) \o r1, <<Newline, Newline>>)
          = <<j>> \o Split(r1, <<Newline, Newline>>)
    BY ONLY Newline \in T, j \in Seq(T), r1 \in Seq(T), <2>1, SplitAtBlank, Zenon
  <2> QED BY ONLY <1>1, <1>8, <2>2, Zenon
<1>10. <<j>> \o (<<c>> \o (<<w>> \o <<<<>>>>)) = <<j, c, w, <<>>>>
  <2>1. <<>> \in Seq(T)
    OBVIOUS
  <2>2. PICK e \in Seq(T) : e = <<>>
    BY ONLY <2>1, Zenon
  <2>3. <<j>> \o (<<c>> \o (<<w>> \o <<e>>)) = <<j, c, w, e>>
    BY ONLY j \in Seq(T), c \in Seq(T), w \in Seq(T), e \in Seq(T), FourParts
  <2> QED BY ONLY <2>2, <2>3, Zenon
<1> QED BY ONLY <1>1, <1>5, <1>9, <1>10, Zenon

\* Versions are u32 and no timeout is negative.
Announceable(actions) ==
  \A a \in actions : /\ a.version \in 0..MaxU32
                     /\ \A f \in a.flags : f.is = "timeout" => f.seconds \in Nat

\* v3 classes of such actions are read.
LEMMA ClassesTaken ==
  ASSUME NEW actions, NEW sector, NEW envelopes, Announceable(actions)
  PROVE  V3Actions(V3Classes(actions), sector, envelopes)
           = Parsed({Learned(a, sector, envelopes) : a \in Named(actions)})
<1> DEFINE methods == UNION {{<<c.namespace, m>> : m \in c.methods} : c \in V3Classes(actions)}
           version(m) == IF m.version.is = "scalar" THEN m.version.of ELSE 1
           action(n) == ActionOf(Path(n[1], n[2].name), AsU32(version(n[2])), n[2].flags,
                                 sector, envelopes)
           result == V3Actions(V3Classes(actions), sector, envelopes)
           learned == {action(n) : n \in methods}
<1>1. result = IF \E n \in methods : version(n[2]) < 0 THEN ParseError
               ELSE IF \E n \in methods : \E f \in n[2].flags : FlagPanics(f) THEN ParsePanic
               ELSE Parsed(learned)
  BY DEF V3Actions
<1>2. methods = {<<a.namespace, MethodOf(a)>> : a \in Named(actions)}
  BY ClassMethods
<1> HIDE DEF methods
<1>3. ASSUME NEW n \in methods
      PROVE  /\ ~(version(n[2]) < 0)
             /\ \A f \in n[2].flags : ~FlagPanics(f)
  <2>1. PICK a \in Named(actions) : n = <<a.namespace, MethodOf(a)>>
    BY <1>2
  <2>2. n[2] = MethodOf(a) /\ a \in actions
    BY <2>1 DEF Named
  <2>3. version(n[2]) = a.version /\ a.version \in 0..MaxU32 /\ MaxU32 \in Nat
    BY <2>2, VersionRead, CodecAssumption DEF Announceable
  <2>4. ASSUME NEW f \in n[2].flags PROVE ~FlagPanics(f)
    <3>1. f \in a.flags /\ IsAnnounceable(f)
      BY <2>2 DEF MethodOf
    <3> QED BY <2>2, <2>3, <3>1 DEF IsAnnounceable, FlagPanics, Announceable
  <2> QED
    <3> HIDE DEF version
    <3> QED BY <2>3, <2>4
<1>4. result = Parsed(learned)
  <2> HIDE DEF result, version, learned
  <2> QED BY <1>1, <1>3
<1>5. result.ok /\ result.value = learned
  <2> HIDE DEF result, learned
  <2> QED BY <1>4 DEF Parsed
<1>6. \A a \in actions : a.version \in Int /\ a.version <= MaxU32
  BY CodecAssumption DEF Announceable
<1> HIDE DEF learned, version, action
<1>7. result.value = {Learned(a, sector, envelopes) : a \in Named(actions)}
  BY ONLY <1>5, <1>6, ClassesRead
<1> HIDE DEF result
<1> QED BY <1>4, <1>5, <1>7 DEF result

\* What a service needs for its announcement to mean what it says.
HasNumbers(service) ==
  /\ Announceable(service.actions) /\ Named(service.actions) # {}
  /\ service.weight \in 0..MaxU32 /\ 1000 * service.interval \in 0..MaxU32

\* A body is read as it was meant.
LEMMA BodyTaken ==
  ASSUME NEW service, HasNumbers(service), NEW time
  PROVE  ParseBody(Body(service, TRUE, time)) = Parsed(Promised(service, time))
<1> DEFINE body == Body(service, TRUE, time)
           classes == V3Classes(service.actions)
           learned == {Learned(a, service.sector, service.envelopes) : a \in Named(service.actions)}
           v4 == V4Actions(body.v4)
           v3 == V3Actions(body.v3.of, body.sector, body.envelopes)
           result == [identity |-> body.identity, uri |-> body.uri, weight |-> AsU32(body.weight),
                      interval |-> AsU32(body.interval), timestamp |-> body.timestamp,
                      actions |-> v4.value \cup v3.value]
<1>1. ParseBody(body) = IF body.v3.is # "array" THEN ParseError
                        ELSE IF ~v4.ok THEN v4
                        ELSE IF ~v3.ok THEN v3
                        ELSE Parsed(result)
  BY DEF ParseBody
<1>2. classes # {}
  <2>1. PICK a : a \in Named(service.actions)
    BY DEF HasNumbers
  <2>2. a.namespace \in {b.namespace : b \in {c \in service.actions : c.namespace # NoNamespace}}
    BY <2>1 DEF Named
  <2> QED BY <2>2 DEF V3Classes
<1> HIDE DEF classes
<1>3. /\ body.v4 = NoV4 /\ body.sector = service.sector /\ body.envelopes = service.envelopes
      /\ body.identity = service.identity /\ body.uri = service.uri
      /\ body.weight = service.weight /\ body.interval = 1000 * service.interval
      /\ body.timestamp = time
      /\ body.v3 = IF classes = {} THEN Null ELSE Array(classes)
  BY DEF Body, classes
<1> HIDE DEF body
<1>4. body.v3.is = "array" /\ body.v3.of = classes
  BY <1>2, <1>3 DEF Array
<1>5. v4.ok /\ v4.value = {}
  BY <1>3, NothingInV4 DEF Parsed
<1>6. v3.ok /\ v3.value = learned
  <2>1. v3 = Parsed(learned)
    <3>1. V3Actions(V3Classes(service.actions), service.sector, service.envelopes) = Parsed(learned)
      BY ClassesTaken DEF HasNumbers
    <3> HIDE DEF learned
    <3> QED BY <1>3, <1>4, <3>1 DEF classes
  <2> HIDE DEF v3, learned
  <2> QED BY <2>1 DEF Parsed
<1>7. AsU32(body.weight) = service.weight /\ AsU32(body.interval) = 1000 * service.interval
  <2>1. \A n \in 0..MaxU32 : AsU32(n) = n
    BY CodecAssumption DEF AsU32
  <2> QED BY <1>3, <2>1 DEF HasNumbers
<1>8. ParseBody(body) = Parsed(result)
  <2> HIDE DEF v3, v4, result
  <2> QED BY <1>1, <1>4, <1>5, <1>6
<1>9. result = Promised(service, time)
  <2> DEFINE Learns(i, u, w, n, t, a) ==
               [identity |-> i, uri |-> u, weight |-> w, interval |-> n, timestamp |-> t,
                actions |-> a]
  <2>1. Promised(service, time)
          = Learns(service.identity, service.uri, service.weight, 1000 * service.interval, time,
                   learned)
    BY DEF Promised, Learned, Named
  <2>2. v4.value \cup v3.value = learned
    <3> HIDE DEF v3, v4, learned
    <3> QED BY <1>5, <1>6
  <2>3. PICK w, n, a : /\ w = AsU32(body.weight) /\ n = AsU32(body.interval)
                       /\ a = v4.value \cup v3.value
    OBVIOUS
  <2>4. result = Learns(body.identity, body.uri, w, n, body.timestamp, a)
    BY <2>3
  <2>5. w = service.weight /\ n = 1000 * service.interval /\ a = learned
    <3> HIDE DEF v3, v4, learned
    <3> QED BY ONLY <1>7, <2>2, <2>3
  <2> HIDE DEF v3, v4, learned, result, Learns
  <2>6. result = Learns(service.identity, service.uri, w, n, time, a)
    BY ONLY <1>3, <2>4, Zenon
  <2> QED BY ONLY <2>1, <2>5, <2>6
<1> QED BY <1>8, <1>9 DEF body

\* The lines of a certificate file end its last line, none before is empty, and
\* one of them is of the service's key.
HasCertificate(service) ==
  \E lines \in Seq({service.certificate[i] : i \in DOMAIN service.certificate}) :
    /\ service.certificate = lines \o <<Newline>> /\ NoBlank(lines)
    /\ \E i \in DOMAIN lines : lines[i] # Newline /\ lines[i].key = service.key

\* An announcement is parsed and believed, and read as it was meant: the packet is
\* taken apart where it was put together, the certificate's key has made the
\* signature, and what is read is what the service registered (announce.rs:22,
\* packet.rs:45, parse.rs:158).
THEOREM Understands ==
  ASSUME NEW service, IsServiceText(service), HasNumbers(service), HasCertificate(service)
  PROVE  Understood(service)
<1>1. PICK json : json = [is |-> "json", of |-> Body(service, TRUE, 1)]
  OBVIOUS
<1> DEFINE sig == Signature(service.key, json)
           C == {service.certificate[i] : i \in DOMAIN service.certificate}
           Z == {[is |-> "sig", by |-> service.key, of |-> json, at |-> i] : i \in 1..service.key.size}
           T == {json, Newline} \cup C \cup Z
<1>2. PICK lines \in Seq(C) :
        /\ service.certificate = lines \o <<Newline>> /\ NoBlank(lines)
        /\ \E i \in DOMAIN lines : lines[i] # Newline /\ lines[i].key = service.key
  BY DEF HasCertificate
<1>3. json \in T /\ Newline \in T /\ C \subseteq T /\ Z \subseteq T
  OBVIOUS
<1>4. json # Newline /\ json.is = "json" /\ json.of = Body(service, TRUE, 1)
  <2>1. json.is = "json" /\ json.of = Body(service, TRUE, 1)
    BY <1>1
  <2>2. Newline.is # "json"
    BY DEF Newline
  <2> QED BY <2>1, <2>2
<1>5. sig \in Seq(T) /\ \A i \in DOMAIN sig : sig[i] # Newline
  <2>1. sig \in [1..service.key.size -> Z]
    BY DEF Signature
  <2>2. \A z \in Z : z # Newline
    <3>1. \A z \in Z : z.is = "sig"
      OBVIOUS
    <3>2. Newline.is # "sig"
      BY DEF Newline
    <3> QED BY <3>1, <3>2
  <2>3. sig \in Seq(Z)
    <3>1. service.key.size \in Nat
      BY DEF IsServiceText
    <3> HIDE DEF sig, Z
    <3> QED BY <2>1, <3>1
  <2> HIDE DEF sig, Z, T
  <2> QED BY <1>3, <2>1, <2>2, <2>3
<1>6. lines \in Seq(T)
  <2> HIDE DEF C, T
  <2> QED BY <1>2, <1>3
<1> HIDE DEF sig, T, C, Z
<1>7. PICK w \in Seq(T) : Wrapped(sig) = w \o <<Newline>> /\ NoBlank(w) /\ Joined(w) = sig
  BY <1>3, <1>5, WrappedJoins
<1>8. PICK text : text = Packet(service, TRUE, 1)
  OBVIOUS
<1>9. PICK parts : parts = Split(text, <<Newline, Newline>>)
  OBVIOUS
<1>10. parts = <<<<json>>, lines, w, <<>>>>
  <2>1. text = <<json, Newline, Newline>> \o (lines \o <<Newline>>) \o <<Newline>>
               \o (w \o <<Newline>>) \o <<Newline>>
    BY <1>1, <1>2, <1>7, <1>8, Zenon DEF Packet, sig
  <2>2. Split(<<json, Newline, Newline>> \o (lines \o <<Newline>>) \o <<Newline>>
              \o (w \o <<Newline>>) \o <<Newline>>, <<Newline, Newline>>)
          = <<<<json>>, lines, w, <<>>>>
    BY <1>2, <1>3, <1>4, <1>6, <1>7, PacketSplits, Zenon
  <2> QED BY <1>9, <2>1, <2>2, Zenon
<1>11. /\ Len(parts) = 4 /\ parts[1] = <<json>> /\ parts[2] = lines /\ parts[3] = w
       /\ parts[4] = <<>> /\ Len(parts[1]) = 1 /\ parts[1][1] = json
  <2>1. \A x, y, z, o : /\ Len(<<x, y, z, o>>) = 4 /\ <<x, y, z, o>>[1] = x /\ <<x, y, z, o>>[2] = y
                        /\ <<x, y, z, o>>[3] = z /\ <<x, y, z, o>>[4] = o
    OBVIOUS
  <2>2. \A x : Len(<<x>>) = 1 /\ <<x>>[1] = x
    OBVIOUS
  <2> QED BY <1>10, <2>1, <2>2, Zenon
<1> DEFINE promised == Promised(service, 1)
           read == [json |-> json, body |-> promised, certificate |-> lines, signature |-> w]
<1>12. ParsePacket(text) = Parsed(read)
  <2> DEFINE first == parts[1][1]
             body == ParseBody(first.of)
  <2>1. ParsePacket(text) =
          IF Len(parts) < 3 THEN ParseError
          ELSE IF Len(parts) > 3 /\ parts[4] # <<>> THEN ParseError
          ELSE IF Len(parts[1]) # 1 \/ first.is # "json" THEN ParseError
          ELSE IF ~body.ok THEN body
          ELSE Parsed([json |-> first, body |-> body.value,
                       certificate |-> parts[2], signature |-> parts[3]])
    BY <1>9 DEF ParsePacket
  <2>2. first = json
    BY <1>11
  <2>3. body = Parsed(promised)
    BY <1>4, <2>2, BodyTaken
  <2> HIDE DEF first, body, promised
  <2>4. body.ok /\ body.value = promised
    BY <2>3 DEF Parsed
  <2>5. ~(Len(parts) < 3) /\ ~(Len(parts) > 3 /\ parts[4] # <<>>)
        /\ ~(Len(parts[1]) # 1 \/ first.is # "json")
    BY <1>4, <1>11, <2>2
  <2> QED BY <1>11, <2>1, <2>2, <2>4, <2>5
<1> HIDE DEF promised
<1>13. SignatureValid(read)
  <2>1. PICK i \in DOMAIN lines : lines[i] # Newline /\ lines[i].key = service.key
    BY <1>2
  <2>2. PICK j \in DOMAIN Joined(lines) : Joined(lines)[j] = lines[i]
    BY <1>6, <2>1, JoinedHas
  <2>3. service.key \in {Joined(lines)[k].key : k \in DOMAIN Joined(lines)}
    BY <2>1, <2>2
  <2>4. read.certificate = lines /\ read.signature = w /\ read.json = json
    OBVIOUS
  <2>5. Joined(w) = Signature(service.key, json)
    BY <1>7 DEF sig
  <2> HIDE DEF read
  <2> QED BY <2>3, <2>4, <2>5 DEF SignatureValid
<1>14. Parsed(read).ok /\ Parsed(read).value = read /\ read.body = promised
  <2>1. read.body = promised
    OBVIOUS
  <2> HIDE DEF read
  <2> QED BY <2>1 DEF Parsed
<1> HIDE DEF read
<1> QED BY <1>8, <1>12, <1>13, <1>14 DEF Understood, promised

-----------------------------------------------------------------------------
(* Run-length coding.                                                      *)

\* The chunks of a column of such items.
Chunks(T) == {Scalar(x) : x \in T} \cup UNION {{Array(<<k, x>>) : x \in T} : k \in Nat}

Expanded(chunks) == FlattenSeq([k \in DOMAIN chunks |-> Expand(chunks[k])])

LEMMA ChunkKinds ==
  ASSUME NEW T
  PROVE  /\ \A k \in Nat, x \in T : Array(<<k, x>>) \in Chunks(T)
         /\ \A x \in T : Scalar(x) \in Chunks(T)
         /\ \A c \in Chunks(T) : \/ \E k \in Nat, x \in T : c = Array(<<k, x>>)
                               \/ \E x \in T : c = Scalar(x)
<1>1. ASSUME NEW k \in Nat, NEW x \in T PROVE Array(<<k, x>>) \in Chunks(T)
  <2>1. Array(<<k, x>>) \in {Array(<<k, y>>) : y \in T}
    OBVIOUS
  <2> QED BY <2>1 DEF Chunks
<1>2. \A x \in T : Scalar(x) \in Chunks(T)
  BY DEF Chunks
<1>3. ASSUME NEW c \in Chunks(T)
      PROVE  (\E k \in Nat, x \in T : c = Array(<<k, x>>)) \/ (\E x \in T : c = Scalar(x))
  <2>1. CASE c \in {Scalar(x) : x \in T}
    BY <2>1
  <2>2. CASE c \in UNION {{Array(<<k, x>>) : x \in T} : k \in Nat}
    <3>1. PICK k \in Nat : c \in {Array(<<k, x>>) : x \in T}
      BY <2>2
    <3> QED BY <3>1
  <2> QED BY <2>1, <2>2 DEF Chunks
<1> QED BY <1>1, <1>2, <1>3

\* A chunk is expanded to as many of its item as it counts.
LEMMA ExpandChunk ==
  ASSUME NEW T, NEW x \in T
  PROVE  /\ \A k \in Nat : Expand(Array(<<k, x>>)) = [i \in 1..k |-> x]
         /\ Expand(Scalar(x)) = <<x>>
<1>1. ASSUME NEW k \in Nat PROVE Expand(Array(<<k, x>>)) = [i \in 1..k |-> x]
  <2>1. PICK pair : pair = <<k, x>>
    OBVIOUS
  <2>3. pair[1] = k /\ pair[2] = x
    BY <2>1
  <2>2. Array(pair).is = "array" /\ Array(pair).of = pair
    BY DEF Array
  <2> QED BY <2>1, <2>2, <2>3 DEF Expand
<1>2. Scalar(x).is # "array" /\ Scalar(x).of = x
  BY DEF Scalar
<1> QED BY <1>1, <1>2 DEF Expand

LEMMA ExpandTyped ==
  ASSUME NEW T, NEW c \in Chunks(T)
  PROVE  Expand(c) \in Seq(T)
<1>1. CASE \E k \in Nat, x \in T : c = Array(<<k, x>>)
  <2>1. PICK k \in Nat, x \in T : c = Array(<<k, x>>)
    BY <1>1
  <2>2. Expand(c) = [i \in 1..k |-> x]
    BY <2>1, ExpandChunk
  <2> QED BY <2>2
<1>2. CASE \E x \in T : c = Scalar(x)
  <2>1. PICK x \in T : c = Scalar(x)
    BY <1>2
  <2>2. Expand(c) = <<x>>
    BY <2>1, ExpandChunk
  <2> QED BY <2>2
<1> QED BY <1>1, <1>2, ChunkKinds

LEMMA ExpandFirst ==
  ASSUME NEW T, NEW c \in Chunks(T), NEW chunks \in Seq(Chunks(T))
  PROVE  Expanded(<<c>> \o chunks) = Expand(c) \o Expanded(chunks)
<1> DEFINE seqs == [k \in DOMAIN chunks |-> Expand(chunks[k])]
           all == <<c>> \o chunks
<1>1. /\ Len(chunks) \in Nat /\ DOMAIN chunks = 1..Len(chunks)
      /\ \A k \in 1..Len(chunks) : chunks[k] \in Chunks(T)
  OBVIOUS
<1>2. seqs \in Seq(Seq(T)) /\ Len(seqs) = Len(chunks) /\ Expand(c) \in Seq(T)
  <2>1. \A k \in 1..Len(chunks) : Expand(chunks[k]) \in Seq(T)
    BY <1>1, ExpandTyped
  <2> QED BY <1>1, <2>1, ExpandTyped
<1>3. /\ DOMAIN all = 1..(Len(chunks) + 1) /\ all[1] = c
      /\ \A k \in 1..Len(chunks) : all[k + 1] = chunks[k]
  OBVIOUS
<1> DEFINE these == [k \in DOMAIN all |-> Expand(all[k])]
           those == <<Expand(c)>> \o seqs
<1>4. those = these
  <2>1. PICK e \in Seq(T) : e = Expand(c)
    BY <1>2
  <2>2. PICK s \in Seq(Seq(T)) : s = seqs
    BY <1>2
  <2>3. /\ <<e>> \o s \in Seq(Seq(T)) /\ Len(<<e>> \o s) = Len(s) + 1
        /\ (<<e>> \o s)[1] = e /\ \A k \in 1..Len(s) : (<<e>> \o s)[k + 1] = s[k]
    OBVIOUS
  <2>4. those \in Seq(Seq(T)) /\ Len(those) = Len(chunks) + 1 /\ those[1] = Expand(c)
        /\ \A k \in 1..Len(chunks) : those[k + 1] = Expand(chunks[k])
    BY <1>1, <1>2, <2>1, <2>2, <2>3
  <2> HIDE DEF all, those
  <2>5. \A k \in 1..(Len(chunks) + 1) : those[k] = Expand(all[k])
    <3> SUFFICES ASSUME NEW k \in 1..(Len(chunks) + 1) PROVE those[k] = Expand(all[k])
      OBVIOUS
    <3>1. CASE k = 1
      BY <1>3, <2>4, <3>1
    <3>2. CASE k # 1
      <4>1. k - 1 \in 1..Len(chunks) /\ (k - 1) + 1 = k
        BY <1>1, <3>2
      <4> QED BY <1>3, <2>4, <4>1
    <3> QED BY <3>1, <3>2
  <2> QED BY <1>3, <2>4, <2>5
<1>5. FlattenSeq(those) = Expand(c) \o FlattenSeq(seqs)
  <2> HIDE DEF seqs
  <2> QED BY <1>2, FlattenFirst
<1> HIDE DEF those, these, all, seqs
<1> QED BY <1>4, <1>5 DEF Expanded, these, seqs, all

\* A run lies within its items, and all of it is alike.
LEMMA RunFacts ==
  ASSUME NEW T, NEW items \in Seq(T), NEW i \in 1..Len(items)
  PROVE  /\ RunAt(items, i) \in 1..(Len(items) - i + 1)
         /\ \A j \in i..(i + RunAt(items, i) - 1) : items[j] = items[i]
<1> DEFINE S == {n \in 1..(Len(items) - i + 1) : \A j \in i..(i + n - 1) : items[j] = items[i]}
<1>1. 1 \in S
  OBVIOUS
<1>2. Len(items) - i + 1 \in Nat /\ S \subseteq 1..(Len(items) - i + 1)
  OBVIOUS
<1> HIDE DEF S
<1>3. \E m \in S : \A n \in S : m >= n
  BY <1>1, <1>2, GreatestExists
<1>4. Max(S) \in S
  BY <1>3 DEF Max
<1>5. RunAt(items, i) = Max(S)
  BY DEF RunAt, S
<1> QED BY <1>4, <1>5 DEF S

\* What is run-length coded is a list of chunks that expand to it.
LEMMA RleExpands ==
  ASSUME NEW T, NEW items \in Seq(T)
  PROVE  \E chunks \in Seq(Chunks(T)) : Rle(items) = Array(chunks) /\ Expanded(chunks) = items
<1> DEFINE n == Len(items)
           r(i) == RunAt(items, i)
           chunk(i, k) == IF k > 1 THEN Array(<<k, items[i]>>) ELSE Scalar(items[i])
           upon(g, i) == IF i > n THEN <<>> ELSE <<chunk(i, r(i))>> \o g[i + r(i)]
           encoded == CHOOSE g : g = [i \in 1..(n + 1) |-> upon(g, i)]
           C == Seq(Chunks(T))
           next == [i \in 1..n |-> i + r(i)]
           step == [i \in 1..n |-> [s \in C |-> <<chunk(i, r(i))>> \o s]]
<1>1. n \in Nat /\ \A i \in 1..n : items[i] \in T
  OBVIOUS
<1>2. ASSUME NEW i \in 1..n
      PROVE  /\ r(i) \in 1..(n - i + 1) /\ i + r(i) \in (i + 1)..(n + 1)
             /\ \A j \in i..(i + r(i) - 1) : items[j] = items[i]
  <2>1. PICK k : k = r(i)
    OBVIOUS
  <2>2. k \in 1..(n - i + 1) /\ \A j \in i..(i + k - 1) : items[j] = items[i]
    BY <2>1, RunFacts
  <2>3. i + k \in (i + 1)..(n + 1)
    BY <1>1, <2>2
  <2> QED BY <2>1, <2>2, <2>3
<1>3. ASSUME NEW i \in 1..n
      PROVE  chunk(i, r(i)) \in Chunks(T) /\ Expand(chunk(i, r(i))) = SubSeq(items, i, i + r(i) - 1)
  <2>1. PICK k \in Nat : k = r(i) /\ k >= 1
    BY <1>1, <1>2
  <2>2. PICK x \in T : x = items[i]
    BY <1>1
  <2>3. i + k - 1 <= n /\ i + k - 1 >= i /\ \A j \in i..(i + k - 1) : items[j] = x
    <3>1. k \in 1..(n - i + 1) /\ \A j \in i..(i + k - 1) : items[j] = items[i]
      BY <1>2, <2>1
    <3> HIDE DEF n, r
    <3>2. i + k - 1 <= n /\ i + k - 1 >= i
      BY <1>1, <3>1
    <3> QED BY <2>2, <3>1, <3>2
  <2>4. SubSeq(items, i, i + k - 1) = [j \in 1..k |-> x]
    <3>1. SubSeq(items, i, i + k - 1) = [j \in 1..k |-> items[i + j - 1]]
      BY <1>1, <2>1, <2>3
    <3>2. \A j \in 1..k : i + j - 1 \in i..(i + k - 1)
      BY <2>1
    <3> QED BY <2>3, <3>1, <3>2
  <2>5. CASE k > 1
    <3>1. chunk(i, k) = Array(<<k, x>>)
      BY <2>2, <2>5
    <3>2. Array(<<k, x>>) \in Chunks(T)
      BY ChunkKinds
    <3>3. Expand(Array(<<k, x>>)) = [j \in 1..k |-> x]
      BY ExpandChunk
    <3> HIDE DEF chunk, r
    <3> QED BY <2>1, <2>4, <3>1, <3>2, <3>3
  <2>6. CASE ~(k > 1)
    <3>1. chunk(i, k) = Scalar(x) /\ k = 1
      BY <2>1, <2>2, <2>6
    <3>2. Scalar(x) \in Chunks(T)
      BY ChunkKinds
    <3>3. Expand(Scalar(x)) = <<x>> /\ <<x>> = [j \in 1..1 |-> x]
      BY ExpandChunk
    <3> HIDE DEF chunk, r
    <3> QED BY <2>1, <2>4, <3>1, <3>2, <3>3
  <2> QED BY <2>5, <2>6
<1>4. <<>> \in C /\ \A c \in Chunks(T), s \in C : <<c>> \o s \in C
  OBVIOUS
<1> HIDE DEF chunk, r, n, C
<1>5. step \in [1..n -> [C -> C]]
  <2>1. \A i \in 1..n, s \in C : <<chunk(i, r(i))>> \o s \in C
    BY <1>3, <1>4
  <2> QED BY <2>1
<1>6. next \in [1..n -> 1..(n + 1)] /\ \A i \in 1..n : i < next[i]
  <2>1. ASSUME NEW i \in 1..n PROVE i + r(i) \in 1..(n + 1) /\ i < i + r(i)
    <3>1. PICK k \in (i + 1)..(n + 1) : k = i + r(i)
      BY <1>2
    <3> QED BY <1>1, <3>1
  <2> QED BY <2>1
<1>7. PICK f \in FromEnd(C, n, <<>>, step, next) : TRUE
  <2>1. PICK base \in C : base = <<>>
    BY <1>4
  <2>2. n \in Nat /\ base \in C /\ step \in [1..n -> [C -> C]]
        /\ next \in [1..n -> 1..(n + 1)] /\ \A i \in 1..n : i < next[i]
    BY <1>1, <1>5, <1>6
  <2> HIDE DEF step, next
  <2>3. FromEnd(C, n, base, step, next) # {}
    BY ONLY <2>2, RecursionFromEnd
  <2> QED BY <2>1, <2>3
<1>8. f = [i \in 1..(n + 1) |-> upon(f, i)]
  <2>1. /\ f \in [1..(n + 1) -> C] /\ f[n + 1] = <<>>
        /\ \A i \in 1..n : f[i] = step[i][f[next[i]]]
    BY <1>7 DEF FromEnd
  <2>2. ASSUME NEW i \in 1..(n + 1) PROVE f[i] = upon(f, i)
    <3>1. CASE i = n + 1
      BY <1>1, <2>1, <3>1
    <3>2. CASE i # n + 1
      <4>1. i \in 1..n /\ ~(i > n)
        BY <1>1, <3>2
      <4>2. next[i] = i + r(i) /\ next[i] \in 1..(n + 1)
        BY <1>6, <4>1
      <4>3. f[next[i]] \in C
        BY <2>1, <4>2
      <4>4. f[i] = <<chunk(i, r(i))>> \o f[next[i]]
        <5> HIDE DEF next
        <5> QED BY <2>1, <4>1, <4>3
      <4> HIDE DEF next, step
      <4> QED BY <4>1, <4>2, <4>4
    <3> QED BY <3>1, <3>2
  <2> HIDE DEF upon
  <2> QED BY <2>1, <2>2
<1>9. encoded = [i \in 1..(n + 1) |-> upon(encoded, i)]
  <2> HIDE DEF upon
  <2> QED BY <1>8
<1> DEFINE K == {i \in Nat : encoded[i] \in C /\ Expanded(encoded[i]) = SubSeq(items, i, n)}
<1> HIDE DEF encoded, step, next
<1>10. n + 1 \in K
  <2>1. n + 1 \in 1..(n + 1) /\ n + 1 > n /\ n + 1 \in Nat
    BY <1>1
  <2>2. encoded[n + 1] = <<>>
    BY <1>9, <2>1
  <2>3. Expanded(<<>>) = <<>>
    <3>1. [k \in DOMAIN <<>> |-> Expand(<<>>[k])] = <<>>
      OBVIOUS
    <3> QED BY <3>1 DEF Expanded, FlattenSeq
  <2>4. SubSeq(items, n + 1, n) = <<>>
    BY <1>1
  <2> QED BY <1>4, <2>1, <2>2, <2>3, <2>4
<1>11. ASSUME NEW i \in 1..n, \A j \in (i + 1)..(n + 1) : j \in K PROVE i \in K
  <2>1. PICK k : k = i + r(i)
    OBVIOUS
  <2>2. k \in (i + 1)..(n + 1)
    BY <1>2, <2>1
  <2>3. i \in 1..(n + 1) /\ ~(i > n) /\ i \in Nat
    BY <1>1
  <2>4. PICK c \in Chunks(T) : c = chunk(i, r(i)) /\ Expand(c) = SubSeq(items, i, k - 1)
    <3>1. /\ chunk(i, r(i)) \in Chunks(T)
          /\ Expand(chunk(i, r(i))) = SubSeq(items, i, i + r(i) - 1)
      BY <1>3
    <3>2. PICK m : m = r(i) /\ m \in Int
      BY <1>1, <1>2
    <3>3. i + m - 1 = k - 1
      BY <2>1, <3>2
    <3> QED BY <3>1, <3>2, <3>3
  <2>5. PICK s \in C : s = encoded[k] /\ Expanded(s) = SubSeq(items, k, n)
    BY <1>11, <2>2
  <2>6. encoded[i] = <<c>> \o s
    BY <1>9, <2>1, <2>3, <2>4, <2>5
  <2>7. <<c>> \o s \in C /\ Expanded(<<c>> \o s) = SubSeq(items, i, k - 1) \o SubSeq(items, k, n)
    <3>1. Expanded(<<c>> \o s) = Expand(c) \o Expanded(s)
      BY ExpandFirst DEF C
    <3>2. <<c>> \o s \in C
      BY <1>4
    <3> QED BY <2>4, <2>5, <3>1, <3>2
  <2>8. SubSeq(items, i, k - 1) \o SubSeq(items, k, n) = SubSeq(items, i, n)
    BY <1>1, <2>2 DEF n
  <2> QED BY <2>3, <2>6, <2>7, <2>8
<1>12. 1 \in K
  <2>1. \A i \in 1..(n + 1) : i \in K
    <3> HIDE DEF K
    <3> QED BY <1>1, <1>10, <1>11, DownwardInduction
  <2>2. 1 \in 1..(n + 1)
    BY <1>1
  <2> QED BY <2>1, <2>2
<1>13. SubSeq(items, 1, n) = items
  BY DEF n
<1>14. Rle(items) = Array(encoded[1])
  BY DEF Rle, encoded, n, r, chunk
<1> QED BY <1>12, <1>13, <1>14 DEF C

\* What was run-length coded is read back (announce.rs:146, parse.rs:95).
LEMMA RunsReadBack ==
  ASSUME NEW T, NEW items \in Seq(T), NEW required, NEW len, NEW default
  PROVE  Unrle(Rle(items), required, len, default) = Parsed(items)
<1>1. PICK chunks \in Seq(Chunks(T)) : Rle(items) = Array(chunks) /\ Expanded(chunks) = items
  BY RleExpands
<1>2. PICK column : column = Array(chunks)
  OBVIOUS
<1>3. column # Missing /\ column.is = "array" /\ column.of = chunks
  <2>1. "of" \in DOMAIN Array(chunks) /\ "of" \notin DOMAIN Missing
    BY DEF Array, Missing
  <2>2. Array(chunks).is = "array" /\ Array(chunks).of = chunks
    BY DEF Array
  <2> QED BY <1>2, <2>1, <2>2
<1>4. ASSUME NEW i \in DOMAIN chunks PROVE ~(chunks[i].is = "array" /\ Len(chunks[i].of) # 2)
  <2>1. PICK c \in Chunks(T) : c = chunks[i]
    OBVIOUS
  <2>2. CASE \E k \in Nat, x \in T : c = Array(<<k, x>>)
    <3>1. PICK k \in Nat, x \in T : c = Array(<<k, x>>)
      BY <2>2
    <3>2. PICK pair : pair = <<k, x>>
      OBVIOUS
    <3>3. c.of = pair
      BY <3>1, <3>2 DEF Array
    <3>4. Len(pair) = 2
      BY <3>2
    <3> QED BY <2>1, <3>3, <3>4
  <2>3. CASE \E x \in T : c = Scalar(x)
    BY <2>1, <2>3 DEF Scalar
  <2> QED BY <2>2, <2>3, ChunkKinds
<1>5. Unrle(column, required, len, default)
        = Parsed(FlattenSeq([i \in DOMAIN chunks |-> Expand(chunks[i])]))
  BY <1>3, <1>4 DEF Unrle
<1> QED BY <1>1, <1>2, <1>5 DEF Expanded

\* The columns of a table, with what each holds of an action.
Field(a) == [acname |-> a.method, acns |-> a.namespace, acver |-> a.version, acflag |-> a.flags,
             acsec |-> a.sector, acenv |-> a.envelopes, accompat |-> a.compat]

ColumnNames == {"acname", "acns", "acver", "acflag", "acsec", "acenv", "accompat"}

\* A receiver reads back every row of a table whose flags it can read, whatever the
\* rows, their order and the runs in their columns (announce.rs:146, parse.rs:95).
THEOREM TablesKept ==
  ASSUME NEW T, NEW actions \in Seq(T),
         \A i \in DOMAIN actions : \A f \in actions[i].flags : ~FlagPanics(f)
  PROVE  ReadBack(actions)
<1> DEFINE v4 == V4Table(actions)
           n == Len(actions)
           column(name)   == IF name \in DOMAIN v4 THEN v4[name] ELSE Missing
           required(name) == name \in {"acname", "acns", "acenv", "acsec"}
           names          == Unrle(column("acname"), TRUE, 0, 0)
           columns        == [name \in DOMAIN V4Default |->
                                Unrle(column(name), required(name), Len(names.value),
                                      V4Default[name])]
           at(name, i)    == columns[name].value[i]
           rows           == 1..Min({Len(columns[name].value) : name \in DOMAIN columns})
           compatible     == {i \in rows : at("accompat", i) = 1}
           action(i)      == ActionOf(Path(at("acns", i), at("acname", i)), at("acver", i),
                                at("acflag", i), at("acsec", i), at("acenv", i))
           items(name) == [i \in DOMAIN actions |-> Field(actions[i])[name]]
<1>1. n \in Nat /\ DOMAIN actions = 1..n
  OBVIOUS
<1>2. DOMAIN v4 = ColumnNames /\ DOMAIN V4Default = ColumnNames
  BY DEF V4Table, V4Default, ColumnNames
<1>3. \A name \in ColumnNames : v4[name] = Rle(items(name))
  <2>1. v4["acname"] = Rle(items("acname"))
    <3>1. items("acname") = [i \in DOMAIN actions |-> actions[i].method]
      BY DEF Field
    <3>2. v4["acname"] = Rle([i \in DOMAIN actions |-> actions[i].method])
      BY DEF V4Table
    <3> QED BY <3>1, <3>2
  <2>2. v4["acns"] = Rle(items("acns"))
    <3>1. items("acns") = [i \in DOMAIN actions |-> actions[i].namespace]
      BY DEF Field
    <3>2. v4["acns"] = Rle([i \in DOMAIN actions |-> actions[i].namespace])
      BY DEF V4Table
    <3> QED BY <3>1, <3>2
  <2>3. v4["acver"] = Rle(items("acver"))
    <3>1. items("acver") = [i \in DOMAIN actions |-> actions[i].version]
      BY DEF Field
    <3>2. v4["acver"] = Rle([i \in DOMAIN actions |-> actions[i].version])
      BY DEF V4Table
    <3> QED BY <3>1, <3>2
  <2>4. v4["acflag"] = Rle(items("acflag"))
    <3>1. items("acflag") = [i \in DOMAIN actions |-> actions[i].flags]
      BY DEF Field
    <3>2. v4["acflag"] = Rle([i \in DOMAIN actions |-> actions[i].flags])
      BY DEF V4Table
    <3> QED BY <3>1, <3>2
  <2>5. v4["acsec"] = Rle(items("acsec"))
    <3>1. items("acsec") = [i \in DOMAIN actions |-> actions[i].sector]
      BY DEF Field
    <3>2. v4["acsec"] = Rle([i \in DOMAIN actions |-> actions[i].sector])
      BY DEF V4Table
    <3> QED BY <3>1, <3>2
  <2>6. v4["acenv"] = Rle(items("acenv"))
    <3>1. items("acenv") = [i \in DOMAIN actions |-> actions[i].envelopes]
      BY DEF Field
    <3>2. v4["acenv"] = Rle([i \in DOMAIN actions |-> actions[i].envelopes])
      BY DEF V4Table
    <3> QED BY <3>1, <3>2
  <2>7. v4["accompat"] = Rle(items("accompat"))
    <3>1. items("accompat") = [i \in DOMAIN actions |-> actions[i].compat]
      BY DEF Field
    <3>2. v4["accompat"] = Rle([i \in DOMAIN actions |-> actions[i].compat])
      BY DEF V4Table
    <3> QED BY <3>1, <3>2
  <2> HIDE DEF v4, items
  <2> QED BY <2>1, <2>2, <2>3, <2>4, <2>5, <2>6, <2>7 DEF ColumnNames
<1> HIDE DEF v4, n
<1>4. \A name \in ColumnNames : column(name) = Rle(items(name))
  BY <1>2, <1>3
<1>5. ASSUME NEW name \in ColumnNames
      PROVE  \E S : items(name) \in Seq(S) /\ Len(items(name)) = n
  <2>1. PICK of : of = [i \in 1..n |-> Field(actions[i])[name]]
    OBVIOUS
  <2> DEFINE S == {of[i] : i \in 1..n}
  <2>2. of \in Seq(S) /\ Len(of) = n
    BY <1>1, <2>1
  <2>3. items(name) = of
    BY <1>1, <2>1
  <2> HIDE DEF S
  <2> QED BY <2>2, <2>3
<1>6. ASSUME NEW name \in ColumnNames, NEW need, NEW len, NEW default
      PROVE  Unrle(column(name), need, len, default) = Parsed(items(name))
  <2> HIDE DEF items, column
  <2>1. PICK S : items(name) \in Seq(S)
    BY <1>5
  <2>2. Unrle(Rle(items(name)), need, len, default) = Parsed(items(name))
    BY <2>1, RunsReadBack
  <2> QED BY <1>4, <2>2
<1>7. /\ DOMAIN columns = ColumnNames
      /\ \A name \in ColumnNames : columns[name] = Parsed(items(name))
  <2> HIDE DEF column, required, names, items
  <2> QED BY <1>2, <1>6
<1>8. names = Parsed(items("acname"))
  <2>1. "acname" \in ColumnNames
    BY DEF ColumnNames
  <2> HIDE DEF column, items
  <2> QED BY <1>6, <2>1
<1>9. V4Actions(v4) =
        IF ~names.ok \/ \E name \in DOMAIN columns : ~columns[name].ok THEN ParseError
        ELSE IF \E i \in compatible : \E f \in at("acflag", i) : FlagPanics(f) THEN ParsePanic
        ELSE Parsed({action(i) : i \in compatible})
  BY DEF V4Actions
<1> HIDE DEF column, required, names, columns, items
<1>10. \A name \in ColumnNames : columns[name].ok /\ columns[name].value = items(name)
  BY <1>7 DEF Parsed
<1>11. names.ok
  BY <1>8 DEF Parsed
<1>12. rows = 1..n
  <2>1. \A name \in ColumnNames : Len(columns[name].value) = n
    BY <1>5, <1>10
  <2>2. "acname" \in ColumnNames
    BY DEF ColumnNames
  <2>3. {Len(columns[name].value) : name \in DOMAIN columns} = {n}
    BY <1>7, <2>1, <2>2
  <2>4. Min({n}) = n
    BY <1>1 DEF Min
  <2> QED BY <2>3, <2>4
<1> HIDE DEF rows
<1>13. ASSUME NEW i \in 1..n
       PROVE  /\ at("acname", i) = actions[i].method /\ at("acns", i) = actions[i].namespace
              /\ at("acver", i) = actions[i].version /\ at("acflag", i) = actions[i].flags
              /\ at("acsec", i) = actions[i].sector /\ at("acenv", i) = actions[i].envelopes
              /\ at("accompat", i) = actions[i].compat
  <2>1. \A name \in ColumnNames : at(name, i) = Field(actions[i])[name]
    <3>1. \A name \in ColumnNames : items(name)[i] = Field(actions[i])[name]
      BY <1>1 DEF items
    <3> QED BY <1>10, <3>1
  <2> HIDE DEF at
  <2> QED BY <2>1 DEF ColumnNames, Field
<1> HIDE DEF at
<1>14. compatible = {j \in DOMAIN actions : actions[j].compat = 1}
  BY <1>1, <1>12, <1>13
<1>15. \A i \in compatible :
         action(i) = ActionOf(Path(actions[i].namespace, actions[i].method), actions[i].version,
                              actions[i].flags, actions[i].sector, actions[i].envelopes)
  BY <1>1, <1>13, <1>14
<1>16. \A i \in compatible : \A f \in at("acflag", i) : ~FlagPanics(f)
  BY <1>1, <1>13, <1>14
<1> HIDE DEF compatible, action
<1>17. V4Actions(v4) = Parsed({action(i) : i \in compatible})
  BY <1>7, <1>9, <1>10, <1>11, <1>16
<1>18. {action(i) : i \in compatible} =
         {ActionOf(Path(actions[i].namespace, actions[i].method), actions[i].version,
                   actions[i].flags, actions[i].sector, actions[i].envelopes) :
            i \in {j \in DOMAIN actions : actions[j].compat = 1}}
  BY <1>14, <1>15
<1> QED BY <1>17, <1>18 DEF ReadBack, v4

-----------------------------------------------------------------------------
(* What a token covers.                                                    *)

\* A text begins with another, and goes on with a dot if it goes on.
Begins(p, s) == Len(p) <= Len(s) /\ \A i \in 1..Len(p) : s[i] = p[i]
CoversUpTo(p, s, dot) == Begins(p, s) /\ (Len(p) < Len(s) => s[Len(p) + 1] = dot)

\* A text about a token, and one without it.
Around(s, c, r) == (s \o <<c>>) \o r
Lacks(s, c) == \A i \in 1..Len(s) : s[i] # c

\* Where the first items of a pattern may end in a text, if ends is so.
EndsUpon(pattern, text, ends, i) ==
  IF i = 0 THEN {0}
  ELSE IF pattern[i] = "any" THEN {j \in 0..Len(text) : \E k \in ends[i - 1] : k <= j}
  ELSE {j \in 1..Len(text) : text[j] = pattern[i] /\ j - 1 \in ends[i - 1]}

\* The functions that say where the first items of a pattern may end: there is one.
PatternEnds(pattern, text) ==
  {ends \in [0..Len(pattern) -> SUBSET (0..Len(text))] :
     \A i \in 0..Len(pattern) : ends[i] = EndsUpon(pattern, text, ends, i)}

\* Matches by such a function: the one it defines is of the kind.
LEMMA MatchesByEnds ==
  ASSUME NEW T, NEW U, NEW pattern \in Seq(U), NEW text \in Seq(T)
  PROVE  \E ends \in PatternEnds(pattern, text) :
           Matches(pattern, text)
             <=> \E n \in ends[Len(pattern)] : n < Len(text) => text[n + 1] = "."
<1> DEFINE n == Len(pattern)
           S == SUBSET (0..Len(text))
           upon(g, i) == EndsUpon(pattern, text, g, i)
           ends == CHOOSE g : g = [i \in 0..n |-> upon(g, i)]
           step == [i \in 1..n |-> [J \in S |->
                      IF pattern[i] = "any" THEN {j \in 0..Len(text) : \E k \in J : k <= j}
                      ELSE {j \in 1..Len(text) : text[j] = pattern[i] /\ j - 1 \in J}]]
<1>1. n \in Nat /\ Len(text) \in Nat /\ {0} \in S /\ step \in [1..n -> [S -> S]]
  <2>1. n \in Nat /\ Len(text) \in Nat
    OBVIOUS
  <2>2. {0} \in S
    BY <2>1
  <2>3. ASSUME NEW i \in 1..n, NEW J \in S
        PROVE  (IF pattern[i] = "any" THEN {j \in 0..Len(text) : \E k \in J : k <= j}
                ELSE {j \in 1..Len(text) : text[j] = pattern[i] /\ j - 1 \in J}) \in S
    BY <2>1
  <2>4. step \in [1..n -> [S -> S]]
    <3> HIDE DEF S
    <3> QED BY <2>3
  <2> QED BY <2>1, <2>2, <2>4
<1>2. PICK f \in FromStart(S, n, {0}, step) : TRUE
  <2> HIDE DEF step, S, n
  <2>1. FromStart(S, n, {0}, step) # {}
    BY ONLY <1>1, RecursionFromStart
  <2> QED BY <2>1
<1>3. f \in [0..n -> S] /\ f[0] = {0} /\ \A i \in 1..n : f[i] = step[i][f[i - 1]]
  BY <1>2 DEF FromStart
<1>4. ASSUME NEW i \in 0..n PROVE f[i] = upon(f, i)
  <2>1. CASE i = 0
    BY <1>3, <2>1 DEF EndsUpon
  <2>2. CASE i # 0
    <3>1. i \in 1..n /\ i - 1 \in 0..n
      BY <1>1, <2>2
    <3>2. f[i] = step[i][f[i - 1]] /\ f[i - 1] \in S
      <4> HIDE DEF step, S
      <4> QED BY <1>3, <3>1
    <3>3. step[i][f[i - 1]]
            = IF pattern[i] = "any" THEN {j \in 0..Len(text) : \E k \in f[i - 1] : k <= j}
              ELSE {j \in 1..Len(text) : text[j] = pattern[i] /\ j - 1 \in f[i - 1]}
      <4> HIDE DEF S
      <4> QED BY <3>1, <3>2
    <3> HIDE DEF step, S
    <3> QED BY <2>2, <3>2, <3>3 DEF EndsUpon
  <2> QED BY <2>1, <2>2
<1> HIDE DEF S, upon, n
<1>5. f = [i \in 0..n |-> upon(f, i)]
  BY <1>3, <1>4
<1>6. ends = [i \in 0..n |-> upon(ends, i)]
  BY <1>5
<1> HIDE DEF ends
<1>7. \A i \in 0..n : ends[i] = upon(ends, i)
  BY <1>6
<1>8. \A i \in 0..n : ends[i] = f[i]
  <2> DEFINE K == {i \in Nat : i <= n => ends[i] = f[i]}
  <2>1. 0 \in K
    <3>1. 0 \in 0..n
      BY <1>1
    <3> QED BY <1>4, <1>7, <3>1 DEF upon, EndsUpon
  <2>2. ASSUME NEW i \in Nat, i \in K PROVE i + 1 \in K
    <3> SUFFICES ASSUME i + 1 <= n PROVE ends[i + 1] = f[i + 1]
      OBVIOUS
    <3>1. i + 1 \in 0..n /\ (i + 1) - 1 = i /\ ends[i] = f[i] /\ i + 1 # 0
      BY <1>1, <2>2
    <3>2. PICK k : k = i + 1
      OBVIOUS
    <3>3. upon(ends, k) = upon(f, k)
      BY ONLY <3>1, <3>2 DEF upon, EndsUpon
    <3> QED BY ONLY <1>4, <1>7, <3>1, <3>2, <3>3
  <2> HIDE DEF K
  <2>3. \A i \in Nat : i \in K
    BY ONLY <2>1, <2>2, Induction
  <2> QED BY <1>1, <2>3 DEF K
<1>9. ends \in PatternEnds(pattern, text)
  <2>1. ends \in [0..n -> S]
    <3>1. \A i \in 0..n : ends[i] \in S
      BY <1>3, <1>8
    <3> QED BY ONLY <1>6, <3>1
  <2> QED BY <1>7, <2>1 DEF PatternEnds, upon, n, S
<1>10. Matches(pattern, text) <=> \E k \in ends[n] : k < Len(text) => text[k + 1] = "."
  BY DEF Matches, ends, n, upon, EndsUpon
<1> QED BY <1>9, <1>10 DEF n

\* Without ALL, only its own length of a text that begins so ends a pattern.
LEMMA LiteralEnds ==
  ASSUME NEW T, NEW U, NEW pattern \in Seq(U), NEW text \in Seq(T),
         NEW ends \in PatternEnds(pattern, text),
         NEW n \in 0..Len(pattern), \A i \in 1..n : pattern[i] # "any"
  PROVE  \A j : j \in ends[n] <=> j = n /\ n <= Len(text) /\ \A i \in 1..n : text[i] = pattern[i]
<1> DEFINE Is(k) == \A j : j \in ends[k] <=> /\ j = k /\ k <= Len(text)
                                             /\ \A i \in 1..k : text[i] = pattern[i]
           K == {k \in Nat : k <= n => Is(k)}
<1>1. \A i \in 0..Len(pattern) : ends[i] = EndsUpon(pattern, text, ends, i)
  BY DEF PatternEnds
<1>2. PICK l, m \in Nat : l = Len(text) /\ m = Len(pattern) /\ n \in 0..m
  OBVIOUS
<1>3. 0 \in K
  <2>1. ends[0] = {0}
    <3>1. 0 \in 0..Len(pattern)
      BY <1>2
    <3>2. ends[0] = EndsUpon(pattern, text, ends, 0)
      BY ONLY <1>1, <3>1
    <3> QED BY ONLY <3>2 DEF EndsUpon
  <2>2. Is(0)
    BY <1>2, <2>1
  <2> QED BY <2>2
<1>4. ASSUME NEW k \in Nat, k \in K PROVE k + 1 \in K
  <2> SUFFICES ASSUME k + 1 <= n PROVE Is(k + 1)
    OBVIOUS
  <2>1. k + 1 \in 0..m /\ k + 1 \in 1..n /\ (k + 1) - 1 = k /\ k + 1 # 0
        /\ k <= n
    BY <1>2
  <2>2. Is(k)
    BY <1>4, <2>1
  <2>3. PICK q : q = k + 1
    OBVIOUS
  <2>4. ends[q] = EndsUpon(pattern, text, ends, q) /\ pattern[q] # "any" /\ q # 0 /\ q - 1 = k
    BY ONLY <1>1, <1>2, <2>1, <2>3, \A i \in 1..n : pattern[i] # "any"
  <2>5. ends[q] = {j \in 1..l : text[j] = pattern[q] /\ j - 1 \in ends[k]}
    BY ONLY <1>2, <2>4 DEF EndsUpon
  <2>6. \A j : j \in ends[q] <=> j \in 1..l /\ text[j] = pattern[q] /\ j - 1 \in ends[k]
    BY ONLY <2>5
  <2>7. ASSUME NEW j, j \in ends[q]
        PROVE  j = q /\ q <= l /\ \A i \in 1..q : text[i] = pattern[i]
    <3>1. j \in 1..l /\ text[j] = pattern[q] /\ j - 1 = k /\ \A i \in 1..k : text[i] = pattern[i]
      BY ONLY <2>2, <2>6, <2>7
    <3>2. j = q /\ q <= l
      BY ONLY <1>2, <2>3, <3>1, k \in Nat
    <3>3. \A i \in 1..q : i \in 1..k \/ i = q
      BY ONLY <2>3, k \in Nat
    <3> QED BY ONLY <3>1, <3>2, <3>3
  <2>8. ASSUME NEW j, j = q, q <= l, \A i \in 1..q : text[i] = pattern[i]
        PROVE  j \in ends[q]
    <3>1. q \in 1..q /\ q \in 1..l /\ k <= l /\ \A i \in 1..k : i \in 1..q
      BY ONLY <1>2, <2>3, <2>8, k \in Nat
    <3>2. k \in ends[k]
      BY ONLY <1>2, <2>2, <2>8, <3>1
    <3> QED BY ONLY <2>4, <2>6, <2>8, <3>1, <3>2
  <2> QED BY ONLY <1>2, <2>3, <2>7, <2>8
<1> HIDE DEF K
<1>5. \A k \in Nat : k \in K
  BY ONLY <1>3, <1>4, Induction
<1>6. Is(n)
  BY <1>2, <1>5 DEF K
<1> QED BY <1>6

\* A pattern without ALL matches what begins with it and goes on with a dot.
LEMMA MatchesLiteral ==
  ASSUME NEW T, NEW U, NEW pattern \in Seq(U), NEW text \in Seq(T),
         \A i \in 1..Len(pattern) : pattern[i] # "any"
  PROVE  Matches(pattern, text) <=> CoversUpTo(pattern, text, ".")
<1>1. PICK ends \in PatternEnds(pattern, text) :
        Matches(pattern, text)
          <=> \E n \in ends[Len(pattern)] : n < Len(text) => text[n + 1] = "."
  BY MatchesByEnds
<1>2. Len(pattern) \in 0..Len(pattern)
  OBVIOUS
<1>3. \A j : j \in ends[Len(pattern)]
        <=> /\ j = Len(pattern) /\ Len(pattern) <= Len(text)
            /\ \A i \in 1..Len(pattern) : text[i] = pattern[i]
  BY <1>2, LiteralEnds
<1> QED BY <1>1, <1>3 DEF CoversUpTo, Begins

\* A text of two parts about a token, item by item.
About(u, s, c, p) ==
  /\ Len(u) = Len(s) + 1 + Len(p) /\ u[Len(s) + 1] = c
  /\ \A i \in 1..Len(s) : u[i] = s[i]
  /\ \A i \in 1..Len(p) : u[Len(s) + 1 + i] = p[i]

\* Such a text is its parts, item by item.
LEMMA PartsAbout ==
  ASSUME NEW T, NEW c \in T, NEW s \in Seq(T), NEW p \in Seq(T)
  PROVE  Around(s, c, p) \in Seq(T) /\ About(Around(s, c, p), s, c, p)
<1>0. PICK u : u = Around(s, c, p)
  OBVIOUS
<1>1. PICK d \in Seq(T) : d = <<c>> /\ Len(d) = 1 /\ d[1] = c
  <2>1. <<c>> \in Seq(T) /\ Len(<<c>>) = 1 /\ <<c>>[1] = c
    OBVIOUS
  <2> QED BY <2>1
<1>2. PICK b : b = s \o d
  OBVIOUS
<1>3. /\ b \in Seq(T) /\ Len(b) = Len(s) + Len(d)
      /\ \A i \in 1..Len(s) : b[i] = s[i]
      /\ \A i \in 1..Len(d) : b[Len(s) + i] = d[i]
  BY ONLY s \in Seq(T), d \in Seq(T), <1>2, ConcatParts
<1> b \in Seq(T)
  BY <1>3
<1>4. u = b \o p
  BY <1>0, <1>1, <1>2 DEF Around
<1>5. /\ u \in Seq(T) /\ Len(u) = Len(b) + Len(p)
      /\ \A i \in 1..Len(b) : u[i] = b[i]
      /\ \A i \in 1..Len(p) : u[Len(b) + i] = p[i]
  BY ONLY b \in Seq(T), p \in Seq(T), <1>4, ConcatParts
<1>6. PICK n \in Nat : n = Len(s)
  OBVIOUS
<1>7. Len(b) = n + 1 /\ \A i \in 1..n : i \in 1..Len(b)
  BY <1>1, <1>3, <1>6
<1>8. u[n + 1] = c
  <2>1. n + 1 \in 1..Len(b) /\ 1 \in 1..Len(d)
    BY <1>1, <1>6, <1>7
  <2>2. b[Len(s) + 1] = d[1]
    BY ONLY <1>3, <2>1, Zenon
  <2> QED BY ONLY <1>1, <1>5, <1>6, <2>1, <2>2
<1>9. About(u, s, c, p)
  BY ONLY <1>3, <1>5, <1>6, <1>7, <1>8 DEF About
<1> QED BY ONLY <1>0, <1>5, <1>9

\* Only about the colon can two names be told apart.
ToldApart(s, c, p, t, a, dot) ==
  /\ Begins(s \o <<c>>, Around(t, c, a)) <=> s = t
  /\ CoversUpTo(Around(s, c, p), Around(t, c, a), dot) <=> s = t /\ CoversUpTo(p, a, dot)

LEMMA AtColon ==
  ASSUME NEW T, NEW c \in T, NEW s \in Seq(T), NEW p \in Seq(T), NEW t \in Seq(T), NEW a \in Seq(T),
         Lacks(s, c), Lacks(t, c),
         NEW dot
  PROVE  ToldApart(s, c, p, t, a, dot)
<1>0. PICK u, v : u = Around(s, c, p) /\ v = Around(t, c, a)
  OBVIOUS
<1>1. PICK m, n, k, l \in Nat : m = Len(s) /\ n = Len(t) /\ k = Len(p) /\ l = Len(a)
  OBVIOUS
<1>2. /\ Len(u) = m + 1 + k /\ u[m + 1] = c /\ \A i \in 1..m : u[i] = s[i]
      /\ \A i \in 1..k : u[m + 1 + i] = p[i]
  <2>1. About(u, s, c, p)
    BY ONLY c \in T, s \in Seq(T), p \in Seq(T), <1>0, PartsAbout
  <2> QED BY ONLY <1>1, <2>1 DEF About
<1>3. /\ Len(v) = n + 1 + l /\ v[n + 1] = c /\ \A i \in 1..n : v[i] = t[i]
      /\ \A i \in 1..l : v[n + 1 + i] = a[i]
  <2>1. About(v, t, c, a)
    BY ONLY c \in T, t \in Seq(T), a \in Seq(T), <1>0, PartsAbout
  <2> QED BY ONLY <1>1, <2>1 DEF About
<1>4. PICK b : b = s \o <<c>> /\ Len(b) = m + 1 /\ b[m + 1] = c /\ \A i \in 1..m : b[i] = s[i]
  <2>1. PICK e \in Seq(T) : e = <<>> /\ Len(e) = 0
    <3>1. <<>> \in Seq(T) /\ Len(<<>>) = 0
      OBVIOUS
    <3> QED BY <3>1
  <2>2. s \o <<c>> = Around(s, c, e)
    <3>1. s \o <<c>> \in Seq(T)
      OBVIOUS
    <3> QED BY ONLY <2>1, <3>1, ConcatEmpty DEF Around
  <2>3. /\ Len(s \o <<c>>) = m + 1 + Len(e) /\ (s \o <<c>>)[m + 1] = c
        /\ \A i \in 1..m : (s \o <<c>>)[i] = s[i]
    <3>1. About(s \o <<c>>, s, c, e)
      BY ONLY c \in T, s \in Seq(T), e \in Seq(T), <2>2, PartsAbout
    <3> QED BY ONLY <1>1, <3>1 DEF About
  <2>4. m + 1 + Len(e) = m + 1
    BY ONLY m \in Nat, <2>1
  <2> QED BY ONLY <2>3, <2>4
<1>5. (\A i \in 1..m : s[i] # c) /\ \A i \in 1..n : t[i] # c
  BY <1>1 DEF Lacks
<1>6. ASSUME NEW w, Len(w) \in Nat, m + 1 <= Len(w), w[m + 1] = c, \A i \in 1..m : w[i] = s[i], Begins(w, v)
      PROVE  s = t
  <2>1. /\ m + 1 \in 1..Len(w) /\ m + 1 \in 1..Len(v) /\ \A i \in 1..m : i \in 1..Len(w)
        /\ Len(w) <= Len(v)
    BY <1>1, <1>3, <1>6 DEF Begins
  <2>2. \A i \in 1..Len(w) : v[i] = w[i]
    BY <1>6 DEF Begins
  <2>3. v[m + 1] = c
    BY ONLY <1>6, <2>1, <2>2
  <2>4. m = n
    <3>1. CASE m < n
      <4>1. m + 1 \in 1..n
        BY <1>1, <3>1
      <4> QED BY ONLY <1>3, <1>5, <2>3, <4>1
    <3>2. CASE n < m
      <4>1. n + 1 \in 1..m
        BY <3>2
      <4>2. v[n + 1] = s[n + 1]
        BY ONLY <1>6, <2>1, <2>2, <4>1
      <4> QED BY ONLY <1>3, <1>5, <4>1, <4>2
    <3> QED BY <3>1, <3>2
  <2>5. \A i \in 1..m : s[i] = t[i]
    BY ONLY <1>3, <1>6, <2>1, <2>2, <2>4
  <2>6. Len(s) = Len(t) /\ \A i \in 1..Len(s) : s[i] = t[i]
    BY ONLY <1>1, <2>4, <2>5
  <2> QED BY ONLY s \in Seq(T), t \in Seq(T), <2>6, SameItems, Zenon
<1>7. Begins(b, v) <=> s = t
  <2>1. ASSUME Begins(b, v) PROVE s = t
    <3>1. Len(b) \in Nat /\ m + 1 <= Len(b)
      BY <1>4
    <3> QED BY ONLY <1>4, <1>6, <2>1, <3>1
  <2>2. ASSUME s = t PROVE Begins(b, v)
    <3>1. m = n /\ m + 1 <= Len(v) /\ \A i \in 1..(m + 1) : i \in 1..m \/ i = m + 1
      BY <1>1, <1>3, <2>2
    <3>2. \A i \in 1..(m + 1) : v[i] = b[i]
      BY ONLY <1>3, <1>4, <2>2, <3>1
    <3> QED BY ONLY <1>4, <3>1, <3>2 DEF Begins
  <2> QED BY <2>1, <2>2
<1>8. ASSUME CoversUpTo(u, v, dot) PROVE s = t
  <2>1. Begins(u, v) /\ Len(u) \in Nat /\ m + 1 <= Len(u)
    BY <1>2, <1>8 DEF CoversUpTo
  <2> QED BY ONLY <1>2, <1>6, <2>1
<1>9. ASSUME s = t PROVE CoversUpTo(u, v, dot) <=> CoversUpTo(p, a, dot)
  <2>1. m = n /\ (Len(u) <= Len(v) <=> k <= l) /\ (Len(u) < Len(v) <=> k < l)
        /\ Len(u) + 1 = m + 1 + (k + 1)
    BY <1>1, <1>2, <1>3, <1>9
  <2>2. ASSUME k <= l PROVE (\A i \in 1..Len(u) : v[i] = u[i]) <=> \A i \in 1..k : a[i] = p[i]
    <3>1. ASSUME \A i \in 1..Len(u) : v[i] = u[i], NEW i \in 1..k PROVE a[i] = p[i]
      <4>1. m + 1 + i \in 1..Len(u) /\ i \in 1..l
        BY <1>2, <2>2
      <4> QED BY ONLY <1>2, <1>3, <2>1, <3>1, <4>1
    <3>2. ASSUME \A i \in 1..k : a[i] = p[i], NEW i \in 1..Len(u) PROVE v[i] = u[i]
      <4>1. CASE i \in 1..m
        BY ONLY <1>2, <1>3, <1>9, <2>1, <4>1
      <4>2. CASE i = m + 1
        BY ONLY <1>2, <1>3, <2>1, <4>2
      <4>3. CASE i \notin 1..m /\ i # m + 1
        <5>1. PICK j \in 1..k : i = m + 1 + j /\ j \in 1..l
          <6>1. i \in 1..(m + 1 + k)
            BY <1>2
          <6>2. i - (m + 1) \in 1..k /\ i = m + 1 + (i - (m + 1)) /\ i - (m + 1) \in 1..l
            BY ONLY k \in Nat, l \in Nat, m \in Nat, <2>2, <4>3, <6>1
          <6> QED BY ONLY <6>2
        <5> QED BY ONLY <1>2, <1>3, <2>1, <3>2, <5>1
      <4> QED BY <4>1, <4>2, <4>3
    <3> QED BY <3>1, <3>2
  <2>3. ASSUME k < l PROVE v[Len(u) + 1] = a[k + 1]
    <3>1. k + 1 \in 1..l
      BY <2>3
    <3> QED BY ONLY <1>3, <2>1, <3>1
  <2> QED BY ONLY <1>1, <2>1, <2>2, <2>3 DEF CoversUpTo, Begins
<1> QED BY ONLY <1>0, <1>4, <1>7, <1>8, <1>9 DEF ToldApart

\* Two names before a token, and what follows one of them.
ApartBy(T, c, s, t, a) ==
  c \in T /\ s \in Seq(T) /\ t \in Seq(T) /\ a \in Seq(T) /\ Lacks(s, c) /\ Lacks(t, c)

\* A name and a colon begin a sector and a colon if it is the sector.
LEMMA BeginsAtColon ==
  ASSUME NEW T, NEW c, NEW s, NEW t, NEW a, ApartBy(T, c, s, t, a)
  PROVE  Begins(s \o <<c>>, Around(t, c, a)) <=> s = t
<1>1. c \in T /\ s \in Seq(T) /\ t \in Seq(T) /\ a \in Seq(T) /\ Lacks(s, c) /\ Lacks(t, c)
  BY DEF ApartBy
<1>2. ToldApart(s, c, a, t, a, c)
  BY ONLY <1>1, AtColon
<1> QED BY ONLY <1>2 DEF ToldApart

\* A name, a colon and a path cover a sector and an action if each covers its own.
LEMMA CoversAtColon ==
  ASSUME NEW T, NEW c \in T, NEW s \in Seq(T), NEW p \in Seq(T), NEW t \in Seq(T), NEW a \in Seq(T),
         Lacks(s, c), Lacks(t, c), NEW dot,
         NEW u, u = Around(s, c, p), NEW v, v = Around(t, c, a)
  PROVE  CoversUpTo(u, v, dot) <=> s = t /\ CoversUpTo(p, a, dot)
<1>1. ToldApart(s, c, p, t, a, dot)
  BY ONLY c \in T, s \in Seq(T), p \in Seq(T), t \in Seq(T), a \in Seq(T), Lacks(s, c), Lacks(t, c),
          AtColon
<1> QED BY ONLY u = Around(s, c, p), v = Around(t, c, a), <1>1 DEF ToldApart

\* A text has no token, or a first one.
LEMMA FirstToken ==
  ASSUME NEW T, NEW c \in T, NEW s \in Seq(T)
  PROVE  \/ Lacks(s, c)
         \/ \E a, r \in Seq(T) : /\ s = Around(a, c, r) /\ Lacks(a, c)
                                 /\ Len(s) = Len(a) + 1 + Len(r)
<1> SUFFICES ASSUME NEW x \in 1..Len(s), s[x] = c
             PROVE  \E a, r \in Seq(T) : /\ s = Around(a, c, r) /\ Lacks(a, c)
                                         /\ Len(s) = Len(a) + 1 + Len(r)
  BY DEF Lacks
<1>1. PICK j \in {i \in 1..Len(s) : s[i] = c} : \A i \in {k \in 1..Len(s) : s[k] = c} : j <= i
  <2>1. {i \in 1..Len(s) : s[i] = c} \subseteq Nat /\ x \in {i \in 1..Len(s) : s[i] = c}
    OBVIOUS
  <2> QED BY <2>1, LeastExists
<1>2. j \in 1..Len(s) /\ s[j] = c /\ \A i \in 1..Len(s) : s[i] = c => j <= i
  BY <1>1
<1>3. PICK a \in Seq(T) : a = SubSeq(s, 1, j - 1) /\ Len(a) = j - 1
                          /\ \A i \in 1..(j - 1) : a[i] = s[i]
  <2>1. /\ SubSeq(s, 1, j - 1) \in Seq(T) /\ Len(SubSeq(s, 1, j - 1)) = j - 1
        /\ \A i \in 1..(j - 1) : SubSeq(s, 1, j - 1)[i] = s[i]
    BY <1>2
  <2> QED BY <2>1
<1>4. PICK r \in Seq(T) : r = SubSeq(s, j + 1, Len(s)) /\ Len(r) = Len(s) - j
                          /\ \A i \in 1..(Len(s) - j) : r[i] = s[j + i]
  <2>1. /\ SubSeq(s, j + 1, Len(s)) \in Seq(T) /\ Len(SubSeq(s, j + 1, Len(s))) = Len(s) - j
        /\ \A i \in 1..(Len(s) - j) : SubSeq(s, j + 1, Len(s))[i] = s[j + i]
    BY <1>2
  <2> QED BY <2>1
<1>5. PICK u : u = Around(a, c, r)
  OBVIOUS
<1>6. PICK n \in Nat : n = Len(s)
  OBVIOUS
<1>7. /\ u \in Seq(T) /\ Len(u) = (j - 1) + 1 + (n - j)
      /\ \A i \in 1..(j - 1) : u[i] = a[i]
      /\ u[(j - 1) + 1] = c
      /\ \A i \in 1..(n - j) : u[(j - 1) + 1 + i] = r[i]
  <2>1. u \in Seq(T) /\ About(u, a, c, r)
    BY ONLY c \in T, a \in Seq(T), r \in Seq(T), <1>5, PartsAbout
  <2>2. Len(a) = j - 1 /\ Len(r) = n - j
    BY ONLY <1>3, <1>4, <1>6
  <2> QED BY ONLY <2>1, <2>2 DEF About
<1> u \in Seq(T)
  BY ONLY <1>7
<1>8. (j - 1) + 1 = j /\ (j - 1) + 1 + (n - j) = n
  BY <1>2, <1>6
<1>9. ASSUME NEW i \in 1..n PROVE u[i] = s[i]
  <2>1. CASE i \in 1..(j - 1)
    BY ONLY <1>3, <1>7, <2>1
  <2>2. CASE i = j
    BY ONLY <1>2, <1>7, <1>8, <2>2
  <2>3. CASE i \notin 1..(j - 1) /\ i # j
    <3>1. PICK k \in 1..(n - j) : i = j + k
      <4>1. i - j \in 1..(n - j) /\ i = j + (i - j)
        BY <1>2, <1>6, <2>3
      <4> QED BY <4>1
    <3> QED BY ONLY <1>4, <1>6, <1>7, <1>8, <3>1
  <2> QED BY <2>1, <2>2, <2>3
<1>10. Len(u) = Len(s) /\ \A i \in 1..Len(u) : u[i] = s[i]
  BY ONLY <1>6, <1>7, <1>8, <1>9
<1>11. u = s
  BY ONLY s \in Seq(T), u \in Seq(T), <1>10, SameItems, Zenon
<1>12. Lacks(a, c)
  <2>1. ASSUME NEW i \in 1..(j - 1) PROVE a[i] # c
    <3>1. i \in 1..Len(s) /\ ~(j <= i)
      BY <1>2
    <3> QED BY <1>2, <1>3, <3>1
  <2> QED BY <1>3, <2>1 DEF Lacks
<1> QED BY ONLY a \in Seq(T), r \in Seq(T), <1>3, <1>4, <1>5, <1>6, <1>7, <1>8, <1>10, <1>11, <1>12

\* The library's prefix, item by item.
LEMMA PrefixBegins ==
  ASSUME NEW T, NEW x \in Seq(T), NEW y \in Seq(T)
  PROVE  IsPrefix(x, y) <=> Begins(x, y)
<1> SUFFICES ASSUME Len(x) <= Len(y)
             PROVE  SubSeq(x, 1, Len(x)) = SubSeq(y, 1, Len(x))
                      <=> \A i \in 1..Len(x) : y[i] = x[i]
  BY DEF IsPrefix, Begins
<1>1. SubSeq(x, 1, Len(x)) = x
  BY SubSeqAll
<1>2. PICK z \in Seq(T) : /\ z = SubSeq(y, 1, Len(x)) /\ Len(z) = Len(x)
                          /\ \A i \in 1..Len(x) : z[i] = y[i]
  <2>1. /\ SubSeq(y, 1, Len(x)) \in Seq(T) /\ Len(SubSeq(y, 1, Len(x))) = Len(x)
        /\ \A i \in 1..Len(x) : SubSeq(y, 1, Len(x))[i] = y[i]
    OBVIOUS
  <2> QED BY <2>1
<1>3. (\A i \in 1..Len(x) : z[i] = x[i]) => z = x
  BY ONLY x \in Seq(T), z \in Seq(T), <1>2, SameItems
<1> QED BY ONLY <1>1, <1>2, <1>3

\* The parts of a text, when it has the token and when it has not.
LEMMA PartsPrefix ==
  ASSUME NEW T, NEW a \in T, NEW b \in T, NEW r \in Seq(T), NEW s \in Seq(T)
  PROVE  /\ IsPrefix(<<a>> \o r, <<b>> \o s) <=> a = b /\ IsPrefix(r, s)
         /\ IsPrefix(<<a>>, <<b>>) <=> a = b
         /\ IsPrefix(<<a>>, <<b>> \o s) <=> a = b
         /\ r # <<>> => ~IsPrefix(<<a>> \o r, <<b>>)
<1>1. \A x, y \in Seq(T) : IsPrefix(x, y) <=> Begins(x, y)
  BY PrefixBegins
<1>2. PICK k, l \in Nat : k = Len(r) /\ l = Len(s)
  OBVIOUS
<1>0. PICK p, q, x, y : p = <<a>> /\ q = <<b>> /\ x = <<a>> \o r /\ y = <<b>> \o s
  OBVIOUS
<1>3. /\ p \in Seq(T) /\ q \in Seq(T) /\ x \in Seq(T) /\ y \in Seq(T)
      /\ Len(p) = 1 /\ p[1] = a /\ Len(q) = 1 /\ q[1] = b
      /\ Len(x) = 1 + k /\ x[1] = a
      /\ \A i \in 1..k : x[1 + i] = r[i]
      /\ Len(y) = 1 + l /\ y[1] = b
      /\ \A i \in 1..l : y[1 + i] = s[i]
  <2>1. /\ <<a>> \in Seq(T) /\ Len(<<a>>) = 1 /\ <<a>>[1] = a
        /\ <<a>> \o r \in Seq(T) /\ Len(<<a>> \o r) = 1 + k /\ (<<a>> \o r)[1] = a
    BY <1>2
  <2>2. \A i \in 1..k : (<<a>> \o r)[1 + i] = r[i]
    BY <1>2
  <2>3. /\ <<b>> \in Seq(T) /\ Len(<<b>>) = 1 /\ <<b>>[1] = b
        /\ <<b>> \o s \in Seq(T) /\ Len(<<b>> \o s) = 1 + l /\ (<<b>> \o s)[1] = b
    BY <1>2
  <2>4. \A i \in 1..l : (<<b>> \o s)[1 + i] = s[i]
    BY <1>2
  <2> QED BY ONLY <1>0, <2>1, <2>2, <2>3, <2>4
<1>4. /\ Begins(p, q) <=> a = b
      /\ Begins(p, y) <=> a = b
      /\ k # 0 => ~Begins(x, q)
  <2>1. \A i : i \in 1..1 <=> i = 1
    OBVIOUS
  <2> 1 <= 1 /\ 1 <= 1 + l
    OBVIOUS
  <2> Len(p) = 1 /\ Len(q) = 1 /\ p[1] = a /\ q[1] = b /\ Len(y) = 1 + l /\ y[1] = b
    BY ONLY <1>3
  <2>2. Begins(p, q) <=> a = b
    BY ONLY Len(p) = 1, Len(q) = 1, p[1] = a, q[1] = b, <2>1, 1 <= 1 DEF Begins
  <2>3. Begins(p, y) <=> a = b
    BY ONLY Len(p) = 1, Len(y) = 1 + l, p[1] = a, y[1] = b, <2>1, 1 <= 1 + l DEF Begins
  <2>4. k # 0 => ~Begins(x, q)
    BY ONLY <1>3, k \in Nat DEF Begins
  <2> QED BY ONLY <2>2, <2>3, <2>4
<1>5. Begins(x, y) <=> a = b /\ Begins(r, s)
  <2>1. ASSUME Begins(x, y) PROVE a = b /\ Begins(r, s)
    <3>1. k <= l /\ \A i \in 1..(1 + k) : y[i] = x[i]
      BY ONLY <1>3, <2>1, k \in Nat, l \in Nat DEF Begins
    <3>2. 1 \in 1..(1 + k) /\ \A i \in 1..k : 1 + i \in 1..(1 + k) /\ i \in 1..l
      BY ONLY <3>1, k \in Nat, l \in Nat
    <3>3. \A i \in 1..k : s[i] = r[i]
      BY ONLY <1>3, <3>1, <3>2
    <3> QED BY ONLY <1>2, <1>3, <3>1, <3>2, <3>3 DEF Begins
  <2>2. ASSUME a = b, Begins(r, s) PROVE Begins(x, y)
    <3>1. k <= l /\ \A i \in 1..k : s[i] = r[i]
      BY ONLY <1>2, <2>2 DEF Begins
    <3>2. ASSUME NEW i \in 1..(1 + k) PROVE y[i] = x[i]
      <4>1. CASE i = 1
        BY ONLY <1>3, <2>2, <4>1
      <4>2. CASE i # 1
        <5>1. PICK j \in 1..k : i = 1 + j /\ j \in 1..l
          <6>1. i - 1 \in 1..k /\ i = 1 + (i - 1) /\ i - 1 \in 1..l
            BY <3>1, <4>2
          <6> QED BY <6>1
        <5> QED BY ONLY <1>3, <3>1, <5>1
      <4> QED BY <4>1, <4>2
    <3>3. 1 + k <= 1 + l
      BY ONLY <3>1, k \in Nat, l \in Nat
    <3> QED BY ONLY <1>3, <3>2, <3>3 DEF Begins
  <2> QED BY <2>1, <2>2
<1>6. r # <<>> => k # 0
  BY <1>2
<1> QED BY ONLY <1>0, <1>1, <1>3, <1>4, <1>5, <1>6, r \in Seq(T), s \in Seq(T)

\* What begins without a dot is all before the first dot, or all of it.
LEMMA CoversFirst ==
  ASSUME NEW T, NEW dot \in T, NEW p \in Seq(T), NEW b \in Seq(T), NEW r \in Seq(T),
         Lacks(p, dot), Lacks(b, dot)
  PROVE  /\ CoversUpTo(p, b, dot) <=> p = b
         /\ CoversUpTo(p, Around(b, dot, r), dot) <=> p = b
         /\ ~CoversUpTo(Around(b, dot, r), p, dot)
<1>0. PICK a : a = Around(b, dot, r)
  OBVIOUS
<1>1. PICK m, n, k \in Nat : m = Len(p) /\ n = Len(b) /\ k = Len(r)
  OBVIOUS
<1>2. /\ Len(a) = n + 1 + k /\ a[n + 1] = dot /\ \A i \in 1..n : a[i] = b[i]
  <2>1. About(a, b, dot, r)
    BY ONLY dot \in T, b \in Seq(T), r \in Seq(T), <1>0, PartsAbout
  <2> QED BY ONLY <1>1, <2>1 DEF About
<1>3. (\A i \in 1..m : p[i] # dot) /\ \A i \in 1..n : b[i] # dot
  BY <1>1 DEF Lacks
<1>4. ASSUME m = n, \A i \in 1..m : b[i] = p[i] PROVE p = b
  <2>1. Len(p) = Len(b) /\ \A i \in 1..Len(p) : p[i] = b[i]
    BY ONLY <1>1, <1>4
  <2> QED BY ONLY p \in Seq(T), b \in Seq(T), <2>1, SameItems, Zenon
<1>5. CoversUpTo(p, b, dot) <=> p = b
  <2>1. ASSUME CoversUpTo(p, b, dot) PROVE p = b
    <3>1. /\ m <= n /\ \A i \in 1..m : b[i] = p[i]
          /\ m < n => b[m + 1] = dot
      BY ONLY <1>1, <2>1 DEF CoversUpTo, Begins
    <3>2. m < n => m + 1 \in 1..n
      BY <1>1
    <3>3. m = n
      BY ONLY <1>3, <3>1, <3>2, m \in Nat, n \in Nat
    <3> QED BY ONLY <1>4, <3>1, <3>3
  <2>2. CoversUpTo(p, p, dot)
    BY DEF CoversUpTo, Begins
  <2> QED BY <2>1, <2>2
<1>6. CoversUpTo(p, a, dot) <=> p = b
  <2>1. ASSUME CoversUpTo(p, a, dot) PROVE p = b
    <3>1. /\ m <= Len(a) /\ \A i \in 1..m : a[i] = p[i]
          /\ m < Len(a) => a[m + 1] = dot
      BY ONLY <1>1, <2>1 DEF CoversUpTo, Begins
    <3>2. /\ n < m => n + 1 \in 1..m
          /\ m < n => m + 1 \in 1..n /\ m < Len(a)
      BY <1>1, <1>2
    <3>3. m = n
      BY ONLY <1>2, <1>3, <3>1, <3>2, m \in Nat, n \in Nat
    <3> QED BY ONLY <1>2, <1>4, <3>1, <3>3
  <2>2. ASSUME p = b PROVE CoversUpTo(p, a, dot)
    <3>1. m = n /\ m <= Len(a)
      BY <1>1, <1>2, <2>2
    <3> QED BY ONLY <1>1, <1>2, <2>2, <3>1 DEF CoversUpTo, Begins
  <2> QED BY <2>1, <2>2
<1>7. ~CoversUpTo(a, p, dot)
  <2> SUFFICES ASSUME CoversUpTo(a, p, dot) PROVE FALSE
    OBVIOUS
  <2>1. n + 1 \in 1..Len(a) /\ n + 1 \in 1..m /\ p[n + 1] = a[n + 1]
    BY <1>1, <1>2 DEF CoversUpTo, Begins
  <2> QED BY ONLY <1>2, <1>3, <2>1
<1> QED BY ONLY <1>0, <1>5, <1>6, <1>7

\* A text has at least one part.
LEMMA SplitParts ==
  ASSUME NEW T, NEW dot \in T, NEW s \in Seq(T)
  PROVE  Split(s, <<dot>>) \in Seq(Seq(T)) /\ Split(s, <<dot>>) # <<>>
<1>1. CASE Lacks(s, dot)
  <2>1. Split(s, <<dot>>) = <<s>>
    BY <1>1, SplitNowhere DEF Lacks
  <2>2. <<s>> \in Seq(Seq(T)) /\ <<s>> # <<>>
    OBVIOUS
  <2> QED BY ONLY <2>1, <2>2
<1>2. CASE ~Lacks(s, dot)
  <2>1. PICK a, r \in Seq(T) : s = Around(a, dot, r) /\ Lacks(a, dot)
    BY ONLY dot \in T, s \in Seq(T), <1>2, FirstToken
  <2>2. Split(s, <<dot>>) = <<a>> \o Split(r, <<dot>>)
    BY <2>1, SplitAtToken DEF Lacks, Around
  <2>3. PICK d \in Seq(T) : d = <<dot>> /\ d # <<>>
    <3>1. <<dot>> \in Seq(T) /\ <<dot>> # <<>>
      OBVIOUS
    <3> QED BY <3>1
  <2>4. PICK t \in Seq(Seq(T)) : t = Split(r, <<dot>>)
    BY <2>3, SplitBegins
  <2>5. <<a>> \o t \in Seq(Seq(T)) /\ <<a>> \o t # <<>>
    OBVIOUS
  <2> QED BY ONLY <2>2, <2>4, <2>5
<1> QED BY <1>1, <1>2

\* A name covers another segment by segment.
LEMMA SegmentsCover ==
  ASSUME NEW T, NEW dot \in T, NEW name \in Seq(T), NEW other \in Seq(T)
  PROVE  CoversUpTo(name, other, dot) <=> IsPrefix(Split(name, <<dot>>), Split(other, <<dot>>))
<1> DEFINE Same(p, a) == CoversUpTo(p, a, dot) <=> IsPrefix(Split(p, <<dot>>), Split(a, <<dot>>))
           K == {n \in Nat : \A p, a \in Seq(T) : Len(p) < n => Same(p, a)}
<1>0. \A s \in Seq(T) : Split(s, <<dot>>) \in Seq(Seq(T)) /\ Split(s, <<dot>>) # <<>>
  BY SplitParts
<1>1. 0 \in K
  OBVIOUS
<1>2. ASSUME NEW n \in Nat, n \in K PROVE n + 1 \in K
  <2> SUFFICES ASSUME NEW p \in Seq(T), NEW a \in Seq(T), Len(p) < n + 1 PROVE Same(p, a)
    OBVIOUS
  <2>1. CASE Lacks(p, dot) /\ Lacks(a, dot)
    <3>1. Split(p, <<dot>>) = <<p>> /\ Split(a, <<dot>>) = <<a>>
      BY <2>1, SplitNowhere DEF Lacks
    <3>2. IsPrefix(<<p>>, <<a>>) <=> p = a
      <4>1. <<>> \in Seq(Seq(T)) /\ <<>> \in Seq(T)
        OBVIOUS
      <4> QED BY <4>1, PartsPrefix
    <3>3. CoversUpTo(p, a, dot) <=> p = a
      <4>1. PICK e \in Seq(T) : TRUE
        <5>1. <<>> \in Seq(T)
          OBVIOUS
        <5> QED BY ONLY <5>1
      <4> QED
        BY ONLY dot \in T, p \in Seq(T), a \in Seq(T), e \in Seq(T), <2>1, <4>1, CoversFirst
    <3> QED BY ONLY <3>1, <3>2, <3>3
  <2>2. ASSUME Lacks(p, dot), NEW b \in Seq(T), NEW r \in Seq(T), a = Around(b, dot, r), Lacks(b, dot)
        PROVE  Same(p, a)
    <3>1. Split(p, <<dot>>) = <<p>> /\ Split(a, <<dot>>) = <<b>> \o Split(r, <<dot>>)
      BY <2>2, SplitNowhere, SplitAtToken DEF Lacks, Around
    <3>2. IsPrefix(<<p>>, <<b>> \o Split(r, <<dot>>)) <=> p = b
      <4>1. PICK S, t : S = Seq(T) /\ t = Split(r, <<dot>>)
        OBVIOUS
      <4>2. p \in S /\ b \in S /\ t \in Seq(S)
        BY ONLY <1>0, <4>1, p \in Seq(T), b \in Seq(T), r \in Seq(T)
      <4>3. IsPrefix(<<p>>, <<b>> \o t) <=> p = b
        BY ONLY <4>2, PartsPrefix, Zenon
      <4> QED BY ONLY <4>1, <4>3
    <3>3. CoversUpTo(p, a, dot) <=> p = b
      BY ONLY dot \in T, p \in Seq(T), b \in Seq(T), r \in Seq(T), <2>2, CoversFirst
    <3> QED BY ONLY <3>1, <3>2, <3>3
  <2>3. ASSUME Lacks(a, dot), NEW q \in Seq(T), NEW s \in Seq(T), p = Around(q, dot, s), Lacks(q, dot)
        PROVE  Same(p, a)
    <3>1. Split(a, <<dot>>) = <<a>> /\ Split(p, <<dot>>) = <<q>> \o Split(s, <<dot>>)
      BY <2>3, SplitNowhere, SplitAtToken DEF Lacks, Around
    <3>2. ~IsPrefix(<<q>> \o Split(s, <<dot>>), <<a>>)
      <4>1. PICK S, t : S = Seq(T) /\ t = Split(s, <<dot>>)
        OBVIOUS
      <4>2. q \in S /\ a \in S /\ t \in Seq(S) /\ t # <<>>
        BY ONLY <1>0, <4>1, q \in Seq(T), a \in Seq(T), s \in Seq(T)
      <4>3. ~IsPrefix(<<q>> \o t, <<a>>)
        BY ONLY <4>2, PartsPrefix, Zenon
      <4> QED BY ONLY <4>1, <4>3
    <3>3. ~CoversUpTo(p, a, dot)
      BY ONLY dot \in T, a \in Seq(T), q \in Seq(T), s \in Seq(T), <2>3, CoversFirst
    <3> QED BY ONLY <3>1, <3>2, <3>3
  <2>4. ASSUME NEW q \in Seq(T), NEW s \in Seq(T), p = Around(q, dot, s), Lacks(q, dot),
               Len(p) = Len(q) + 1 + Len(s),
               NEW b \in Seq(T), NEW r \in Seq(T), a = Around(b, dot, r), Lacks(b, dot)
        PROVE  Same(p, a)
    <3>1. /\ Split(p, <<dot>>) = <<q>> \o Split(s, <<dot>>)
          /\ Split(a, <<dot>>) = <<b>> \o Split(r, <<dot>>)
      <4>1. Split(p, <<dot>>) = <<q>> \o Split(s, <<dot>>)
        BY ONLY dot \in T, q \in Seq(T), s \in Seq(T), p = Around(q, dot, s), Lacks(q, dot), SplitAtToken
           DEF Lacks, Around
      <4>2. Split(a, <<dot>>) = <<b>> \o Split(r, <<dot>>)
        BY ONLY dot \in T, b \in Seq(T), r \in Seq(T), a = Around(b, dot, r), Lacks(b, dot), SplitAtToken
           DEF Lacks, Around
      <4> QED BY ONLY <4>1, <4>2
    <3>2. IsPrefix(<<q>> \o Split(s, <<dot>>), <<b>> \o Split(r, <<dot>>))
            <=> q = b /\ IsPrefix(Split(s, <<dot>>), Split(r, <<dot>>))
      <4>1. PICK S, t, u : S = Seq(T) /\ t = Split(s, <<dot>>) /\ u = Split(r, <<dot>>)
        OBVIOUS
      <4>2. q \in S /\ b \in S /\ t \in Seq(S) /\ u \in Seq(S)
        BY ONLY <1>0, <4>1, q \in Seq(T), b \in Seq(T), s \in Seq(T), r \in Seq(T)
      <4>3. IsPrefix(<<q>> \o t, <<b>> \o u) <=> q = b /\ IsPrefix(t, u)
        BY ONLY <4>2, PartsPrefix, Zenon
      <4> QED BY ONLY <4>1, <4>3
    <3>3. CoversUpTo(p, a, dot) <=> q = b /\ CoversUpTo(s, r, dot)
      BY ONLY dot \in T, q \in Seq(T), s \in Seq(T), b \in Seq(T), r \in Seq(T), <2>4, CoversAtColon
    <3>4. Same(s, r)
      <4>1. Len(s) < n
        BY <2>4
      <4> QED BY <1>2, <4>1
    <3> QED BY ONLY <3>1, <3>2, <3>3, <3>4
  <2>5. Lacks(p, dot) \/ \E q, s \in Seq(T) : /\ p = Around(q, dot, s) /\ Lacks(q, dot)
                                        /\ Len(p) = Len(q) + 1 + Len(s)
    BY ONLY dot \in T, p \in Seq(T), FirstToken
  <2>6. Lacks(a, dot) \/ \E b, r \in Seq(T) : a = Around(b, dot, r) /\ Lacks(b, dot)
    BY ONLY dot \in T, a \in Seq(T), FirstToken
  <2> QED BY ONLY <2>1, <2>2, <2>3, <2>4, <2>5, <2>6
<1> HIDE DEF K
<1>3. \A n \in Nat : n \in K
  BY ONLY <1>1, <1>2, Induction
<1>4. Len(name) + 1 \in K /\ Len(name) < Len(name) + 1
  BY <1>3
<1> QED BY ONLY <1>4, name \in Seq(T), other \in Seq(T) DEF K
\* What begins with a name and a dot has it for its first segment, and another.
LEMMA FirstSegment ==
  ASSUME NEW T, NEW dot \in T, NEW x \in T, x # dot, NEW s \in Seq(T)
  PROVE  IsPrefix(<<x, dot>>, s)
           <=> Split(s, <<dot>>)[1] = <<x>> /\ Len(Split(s, <<dot>>)) > 1
<1>1. PICK p, h \in Seq(T) : /\ p = <<x>> /\ h = <<x, dot>> /\ h = p \o <<dot>>
                             /\ Len(p) = 1 /\ p[1] = x /\ Len(h) = 2 /\ h[2] = dot
  <2>1. PICK p, h : p = <<x>> /\ h = <<x, dot>>
    OBVIOUS
  <2>2. /\ <<x>> \in Seq(T) /\ <<x, dot>> \in Seq(T) /\ Len(<<x>>) = 1 /\ <<x>>[1] = x
        /\ Len(<<x, dot>>) = 2 /\ <<x, dot>>[2] = dot
    OBVIOUS
  <2>3. <<x, dot>> = <<x>> \o <<dot>>
    BY TwoParts
  <2> QED BY ONLY <2>1, <2>2, <2>3
<1>2. Lacks(p, dot)
  BY <1>1 DEF Lacks
<1>3. IsPrefix(h, s) <=> Begins(h, s)
  BY PrefixBegins
<1>4. CASE Lacks(s, dot)
  <2>1. Split(s, <<dot>>) = <<s>>
    BY <1>4, SplitNowhere DEF Lacks
  <2>2. Len(<<s>>) = 1
    OBVIOUS
  <2>3. ~Begins(h, s)
    <3> SUFFICES ASSUME Begins(h, s) PROVE FALSE
      OBVIOUS
    <3>1. 2 \in 1..Len(s) /\ s[2] = h[2]
      BY <1>1 DEF Begins
    <3> QED BY ONLY <1>1, <1>4, <3>1 DEF Lacks
  <2>4. Len(Split(s, <<dot>>)) = 1
    BY ONLY <2>1, <2>2
  <2>5. ~IsPrefix(<<x, dot>>, s)
    BY ONLY <1>1, <1>3, <2>3
  <2>6. ~(Len(Split(s, <<dot>>)) > 1)
    <3>1. \A k : k = 1 => ~(k > 1)
      OBVIOUS
    <3>2. PICK k : k = Len(Split(s, <<dot>>))
      OBVIOUS
    <3> QED BY ONLY <2>4, <3>1, <3>2
  <2> QED BY ONLY <2>5, <2>6, Zenon
<1>5. CASE ~Lacks(s, dot)
  <2>1. PICK b, r \in Seq(T) : s = Around(b, dot, r) /\ Lacks(b, dot)
    BY ONLY dot \in T, s \in Seq(T), <1>5, FirstToken
  <2>2. Split(s, <<dot>>) = <<b>> \o Split(r, <<dot>>)
    BY <2>1, SplitAtToken DEF Lacks, Around
  <2>3. Begins(h, s) <=> p = b
    <3>1. h = p \o <<dot>>
      BY <1>1
    <3>2. s = Around(b, dot, r) /\ Lacks(b, dot)
      BY <2>1
    <3>3. ApartBy(T, dot, p, b, r)
      BY ONLY dot \in T, p \in Seq(T), b \in Seq(T), r \in Seq(T), <1>2, <3>2 DEF ApartBy
    <3>4. Begins(p \o <<dot>>, Around(b, dot, r)) <=> p = b
      BY ONLY <3>3, BeginsAtColon, Zenon
    <3> QED BY ONLY <3>1, <3>2, <3>4
  <2>4. PICK d \in Seq(T) : d = <<dot>> /\ d # <<>>
    <3>1. <<dot>> \in Seq(T) /\ <<dot>> # <<>>
      OBVIOUS
    <3> QED BY <3>1
  <2>5. PICK S : S = Seq(T)
    OBVIOUS
  <2>6. PICK t \in Seq(S) : t = Split(r, <<dot>>) /\ t # <<>>
    BY <2>4, <2>5, SplitParts
  <2>7. (<<b>> \o t)[1] = b /\ Len(<<b>> \o t) > 1
    <3>1. b \in S
      BY <2>5
    <3> QED BY ONLY <2>6, <3>1, t \in Seq(S)
  <2> QED BY ONLY <1>1, <1>3, <2>2, <2>3, <2>6, <2>7
<1> QED BY <1>4, <1>5

-----------------------------------------------------------------------------
(* A text cut at a delimiter.                                             *)

\* Three texts in a row.
InARow(s, t, u) == (s \o t) \o u = s \o (t \o u)

LEMMA RowFacts ==
  ASSUME NEW T, NEW s \in Seq(T), NEW t \in Seq(T), NEW u \in Seq(T)
  PROVE  InARow(s, t, u)
  BY ConcatAssociates DEF InARow

\* A text that is cut at its first delimiter.
CutAt(text, d, a, r) ==
  /\ text = (a \o d) \o r /\ Len(text) = Len(a) + Len(d) + Len(r)
  /\ \A j \in 1..Len(a) : SubSeq(text, j, j + Len(d) - 1) # d

\* A text that has the delimiter can be cut at the first one.
LEMMA FirstCut ==
  ASSUME NEW T, NEW text \in Seq(T), NEW d \in Seq(T), d # <<>>, Finds(text, d, 1) # {}
  PROVE  \E a, r \in Seq(T) : CutAt(text, d, a, r)
<1>1. PICK n, k \in Nat : n = Len(text) /\ k = Len(d) /\ k >= 1
  OBVIOUS
<1>2. PICK m : m = Min(Finds(text, d, 1))
  OBVIOUS
<1>3. /\ m \in 1..(n - k + 1) /\ m \in Finds(text, d, 1)
      /\ \A j \in Finds(text, d, 1) : m <= j
  <2>1. 1 \in 1..(Len(text) + 1)
    OBVIOUS
  <2> QED BY ONLY text \in Seq(T), d \in Seq(T), d # <<>>, Finds(text, d, 1) # {}, <1>1, <1>2, <2>1,
                  FindsNext
<1>4. m - 1 \in 0..Len(text) /\ (m - 1) + 1 = m /\ m - 1 \in Nat
  BY <1>1, <1>3
<1>5. PICK a, b \in Seq(T) : /\ a = SubSeq(text, 1, m - 1) /\ b = SubSeq(text, m, n)
                             /\ Len(a) = m - 1 /\ Len(b) = n - (m - 1) /\ text = a \o b
  <2>1. /\ SubSeq(text, 1, m - 1) \in Seq(T) /\ SubSeq(text, (m - 1) + 1, n) \in Seq(T)
        /\ Len(SubSeq(text, 1, m - 1)) = m - 1 /\ Len(SubSeq(text, (m - 1) + 1, n)) = n - (m - 1)
        /\ text = SubSeq(text, 1, m - 1) \o SubSeq(text, (m - 1) + 1, n)
    BY ONLY text \in Seq(T), <1>1, <1>4, Halves
  <2> QED BY ONLY <1>4, <2>1
<1> n \in Nat /\ k \in Nat /\ m \in Nat /\ k >= 1 /\ m >= 1 /\ m <= n - k + 1
  BY ONLY n \in Nat, k \in Nat, <1>1, <1>3
<1>e. PICK la, lb \in Nat : la = Len(a) /\ lb = Len(b) /\ la = m - 1 /\ lb = n - (m - 1)
  <2>1. Len(a) \in Nat /\ Len(b) \in Nat
    OBVIOUS
  <2> QED BY ONLY <1>5, <2>1
<1>6. SubSeq(b, 1, k) = d
  <2>1. SubSeq(text, m, m + k - 1) = d
    BY <1>1, <1>3 DEF Finds
  <2>2. 1 \in 1..(Len(b) + 1) /\ k \in (1 - 1)..Len(b)
    <3>1. 1 \in 1..(lb + 1) /\ k \in (1 - 1)..lb
      BY <1>e
    <3> QED BY ONLY <1>e, <3>1
  <2>3. SubSeq(a \o b, Len(a) + 1, Len(a) + k) = SubSeq(b, 1, k)
    BY ONLY a \in Seq(T), b \in Seq(T), <2>2, SubSeqRight
  <2>4. Len(a) + 1 = m /\ Len(a) + k = m + k - 1
    <3>1. la + 1 = m /\ la + k = m + k - 1
      BY <1>e
    <3> QED BY ONLY <1>e, <3>1
  <2> QED BY ONLY <1>5, <2>1, <2>3, <2>4
<1>7. PICK r \in Seq(T) : b = d \o r /\ Len(b) = k + Len(r)
  <2>1. k \in 0..Len(b) /\ Len(b) \in Nat
    <3>1. k \in 0..lb
      BY <1>e
    <3> QED BY ONLY <1>e, lb \in Nat, <3>1
  <2>2. SubSeq(b, k + 1, Len(b)) \in Seq(T) /\ Len(SubSeq(b, k + 1, Len(b))) = Len(b) - k
        /\ b = SubSeq(b, 1, k) \o SubSeq(b, k + 1, Len(b))
    BY ONLY b \in Seq(T), <2>1, Halves
  <2>3. PICK r \in Seq(T) : r = SubSeq(b, k + 1, Len(b)) /\ Len(r) = Len(b) - k /\ b = d \o r
    BY ONLY <1>6, <2>2
  <2>4. Len(b) = k + Len(r)
    BY ONLY k \in Nat, <2>1, <2>3
  <2> QED BY ONLY <2>3, <2>4
<1>8. text = (a \o d) \o r
  <2>1. (a \o d) \o r = a \o (d \o r)
    <3>1. InARow(a, d, r)
      BY ONLY a \in Seq(T), d \in Seq(T), r \in Seq(T), RowFacts
    <3> QED BY ONLY <3>1 DEF InARow
  <2> QED BY ONLY <1>5, <1>7, <2>1
<1>9. Len(text) = Len(a) + Len(d) + Len(r)
  <2>1. Len(r) \in Nat
    OBVIOUS
  <2>2. ASSUME NEW lr \in Nat, lb = k + lr PROVE n = la + k + lr
    BY <1>e, <2>2
  <2> QED BY ONLY <1>1, <1>e, <1>7, <2>1, <2>2
<1>10. ASSUME NEW j \in 1..Len(a) PROVE SubSeq(text, j, j + Len(d) - 1) # d
  <2>1. j \in 1..(n - k + 1) /\ ~(m <= j)
    <3>1. j \in 1..la
      BY <1>e
    <3> QED BY ONLY n \in Nat, k \in Nat, m \in Nat, <1>3, <1>e, <3>1
  <2> QED BY ONLY <1>1, <1>3, <2>1 DEF Finds
<1> QED BY ONLY a \in Seq(T), r \in Seq(T), <1>8, <1>9, <1>10 DEF CutAt

\* What is before the cut is the first part.
LEMMA CutSplits ==
  ASSUME NEW T, NEW d \in Seq(T), d # <<>>, NEW a \in Seq(T), NEW r \in Seq(T), NEW text,
         CutAt(text, d, a, r)
  PROVE  Split(text, d) = <<a>> \o Split(r, d)
<1>1. text = (a \o d) \o r /\ \A j \in 1..Len(a) : SubSeq(text, j, j + Len(d) - 1) # d
  BY DEF CutAt
<1> QED BY <1>1, SplitFirst

\* A text has a part.
LEMMA SplitSome ==
  ASSUME NEW T, NEW text \in Seq(T), NEW d \in Seq(T), d # <<>>
  PROVE  Split(text, d) \in Seq(Seq(T)) /\ Split(text, d) # <<>>
<1>1. Split(text, d) \in Seq(Seq(T))
  BY SplitBegins
<1>2. CASE Finds(text, d, 1) = {}
  <2>1. Split(text, d) = <<text>>
    BY ONLY text \in Seq(T), d \in Seq(T), d # <<>>, <1>2, SplitWhole
  <2>2. <<text>> # <<>>
    OBVIOUS
  <2> QED BY ONLY <1>1, <2>1, <2>2
<1>3. CASE Finds(text, d, 1) # {}
  <2>1. PICK a, r \in Seq(T) : CutAt(text, d, a, r)
    BY ONLY text \in Seq(T), d \in Seq(T), d # <<>>, <1>3, FirstCut
  <2>2. Split(text, d) = <<a>> \o Split(r, d)
    BY ONLY d \in Seq(T), d # <<>>, <2>1, a \in Seq(T), r \in Seq(T), CutSplits
  <2>3. PICK S, t : S = Seq(T) /\ t = Split(r, d)
    OBVIOUS
  <2>4. t \in Seq(S) /\ a \in S
    BY ONLY <2>3, d \in Seq(T), d # <<>>, r \in Seq(T), a \in Seq(T), SplitBegins
  <2>5. <<a>> \o t # <<>>
    BY ONLY <2>4
  <2> QED BY ONLY <1>1, <2>2, <2>3, <2>5
<1> QED BY <1>2, <1>3

-----------------------------------------------------------------------------
(* What a pattern with ALL matches.                                        *)

\* A text covers what follows a place in another.
CoversFrom(r, text, k, dot) ==
  /\ k + Len(r) <= Len(text) /\ \A i \in 1..Len(r) : text[k + i] = r[i]
  /\ k + Len(r) < Len(text) => text[k + Len(r) + 1] = dot

\* A pattern with ALL in it matches what begins as it does, and is from anywhere
\* on covered by what comes after ALL.
LEMMA MatchesAny ==
  ASSUME NEW T, NEW U, NEW text \in Seq(T), NEW h \in Seq(U), NEW r \in Seq(U),
         NEW pattern \in Seq(U), About(pattern, h, "any", r),
         \A i \in 1..Len(h) : h[i] # "any", \A i \in 1..Len(r) : r[i] # "any"
  PROVE  Matches(pattern, text)
           <=> Begins(h, text) /\ \E k \in Len(h)..Len(text) : CoversFrom(r, text, k, ".")
<1>0. PICK any, dot : any = "any" /\ dot = "."
  OBVIOUS
<1>1. PICK ends \in PatternEnds(pattern, text) :
        Matches(pattern, text)
          <=> \E n \in ends[Len(pattern)] : n < Len(text) => text[n + 1] = dot
  BY <1>0, MatchesByEnds
<1>2. PICK l, m, n \in Nat : l = Len(text) /\ m = Len(h) /\ n = Len(r)
  OBVIOUS
<1>3. /\ Len(pattern) = m + 1 + n /\ pattern[m + 1] = any
      /\ \A i \in 1..m : pattern[i] = h[i] /\ h[i] # any
      /\ \A i \in 1..n : pattern[m + 1 + i] = r[i] /\ r[i] # any
  BY ONLY <1>0, <1>2, About(pattern, h, "any", r), \A i \in 1..Len(h) : h[i] # "any",
          \A i \in 1..Len(r) : r[i] # "any" DEF About
<1>4. \A i \in 0..(m + 1 + n) : ends[i] = EndsUpon(pattern, text, ends, i)
  BY <1>3 DEF PatternEnds
<1>5. PICK B \in BOOLEAN : B <=> Begins(h, text)
  OBVIOUS
<1>6. \A j : j \in ends[m] <=> j = m /\ B
  <2>1. m \in 0..Len(pattern) /\ \A i \in 1..m : pattern[i] # "any"
    BY ONLY <1>0, <1>3, m \in Nat, n \in Nat
  <2>2. \A j : j \in ends[m] <=> /\ j = m /\ m <= Len(text)
                                 /\ \A i \in 1..m : text[i] = pattern[i]
    BY ONLY pattern \in Seq(U), text \in Seq(T), ends \in PatternEnds(pattern, text),
            <2>1, LiteralEnds
  <2>3. B <=> m <= Len(text) /\ \A i \in 1..m : text[i] = pattern[i]
    BY ONLY <1>2, <1>3, <1>5 DEF Begins
  <2> QED BY ONLY <2>2, <2>3
<1>7. \A j : j \in ends[m + 1] <=> B /\ j \in m..l
  <2>1. m + 1 \in 0..(m + 1 + n) /\ m + 1 # 0 /\ (m + 1) - 1 = m
    OBVIOUS
  <2>2. ends[m + 1] = {j \in 0..l : \E k \in ends[m] : k <= j}
    <3>1. PICK q : q = m + 1
      OBVIOUS
    <3>2. ends[q] = EndsUpon(pattern, text, ends, q) /\ pattern[q] = "any" /\ q # 0 /\ q - 1 = m
      BY ONLY <1>0, <1>3, <1>4, <2>1, <3>1
    <3> QED BY ONLY <1>2, <3>1, <3>2 DEF EndsUpon
  <2>3. \A j : j \in m..l <=> j \in 0..l /\ m <= j
    BY ONLY m \in Nat, l \in Nat
  <2> QED BY ONLY <1>6, <2>2, <2>3
<1> DEFINE Is(i) == \A j : j \in ends[m + 1 + i]
                             <=> B /\ j \in (m + i)..l /\ \A q \in 1..i : text[(j - i) + q] = r[q]
           K == {i \in Nat : i <= n => Is(i)}
<1>8. 0 \in K
  <2>1. m + 1 + 0 = m + 1 /\ m + 0 = m /\ 1..0 = {}
    OBVIOUS
  <2>2. Is(0)
    BY ONLY <1>7, <2>1
  <2> QED BY <2>2
<1>9. ASSUME NEW i \in Nat, i \in K PROVE i + 1 \in K
  <2> SUFFICES ASSUME i + 1 <= n PROVE Is(i + 1)
    OBVIOUS
  <2>0. PICK q, a, b : q = i + 1 /\ a = m + 1 + q /\ b = m + 1 + i
    OBVIOUS
  <2>1. /\ a \in 0..(m + 1 + n) /\ a # 0 /\ a - 1 = b /\ q \in 1..n /\ i <= n
        /\ m + 1 + q = a
    BY ONLY m \in Nat, n \in Nat, i \in Nat, i + 1 <= n, <2>0
  <2>2. ends[a] = {j \in 1..l : text[j] = r[q] /\ j - 1 \in ends[b]}
    <3>1. ends[a] = EndsUpon(pattern, text, ends, a) /\ pattern[a] = r[q] /\ pattern[a] # "any"
      BY ONLY <1>0, <1>3, <1>4, <2>1
    <3> QED BY ONLY <1>2, <2>1, <3>1 DEF EndsUpon
  <2>3. Is(i)
    BY <1>9, <2>1
  <2>4. ASSUME NEW j
        PROVE  j \in ends[a] <=> B /\ j \in (m + q)..l /\ \A p \in 1..q : text[(j - q) + p] = r[p]
    <3>1. j \in ends[a]
            <=> /\ j \in 1..l /\ text[j] = r[q] /\ B /\ j - 1 \in (m + i)..l
                /\ \A p \in 1..i : text[((j - 1) - i) + p] = r[p]
      BY ONLY <2>0, <2>2, <2>3
    <3>2. j \in (m + q)..l <=> j \in 1..l /\ j - 1 \in (m + i)..l
      BY ONLY m \in Nat, l \in Nat, i \in Nat, <2>0
    <3>3. ASSUME j \in 1..l
          PROVE  (\A p \in 1..q : text[(j - q) + p] = r[p])
                   <=> text[j] = r[q] /\ \A p \in 1..i : text[((j - 1) - i) + p] = r[p]
      <4>1. (j - 1) - i = j - q /\ (j - q) + q = j /\ j - q \in Int
        BY ONLY l \in Nat, <3>3, i \in Nat, <2>0
      <4>2. \A p : p \in 1..q <=> p \in 1..i \/ p = q
        BY ONLY i \in Nat, <2>0
      <4> QED BY ONLY <4>1, <4>2
    <3>4. PICK C, D \in BOOLEAN :
            /\ C <=> \A p \in 1..q : text[(j - q) + p] = r[p]
            /\ D <=> \A p \in 1..i : text[((j - 1) - i) + p] = r[p]
      OBVIOUS
    <3>5. j \in ends[a] <=> j \in 1..l /\ text[j] = r[q] /\ B /\ j - 1 \in (m + i)..l /\ D
      BY ONLY <3>1, <3>4, Zenon
    <3>6. j \in 1..l => (C <=> text[j] = r[q] /\ D)
      BY ONLY <3>3, <3>4, Zenon
    <3>7. j \in ends[a] <=> B /\ j \in (m + q)..l /\ C
      BY ONLY <3>2, <3>5, <3>6, Zenon
    <3> QED BY ONLY <3>4, <3>7, Zenon
  <2>5. m + 1 + (i + 1) = a
    BY ONLY <2>0
  <2> QED BY ONLY <2>0, <2>4, <2>5
<1> HIDE DEF K
<1>10. \A i \in Nat : i \in K
  BY ONLY <1>8, <1>9, Induction
<1>11. Is(n)
  <2>1. n \in K
    BY ONLY <1>10, n \in Nat
  <2> QED BY ONLY <2>1, n \in Nat DEF K
<1>12. (\E e \in ends[m + 1 + n] : e < l => text[e + 1] = dot)
         <=> B /\ \E k \in m..l : CoversFrom(r, text, k, dot)
  <2>1. ASSUME NEW e \in ends[m + 1 + n], e < l => text[e + 1] = dot
        PROVE  B /\ \E k \in m..l : CoversFrom(r, text, k, dot)
    <3>1. B /\ e \in (m + n)..l /\ \A q \in 1..n : text[(e - n) + q] = r[q]
      BY ONLY <1>11, <2>1
    <3>2. PICK k \in m..l : k = e - n /\ k + n = e
      BY ONLY m \in Nat, n \in Nat, l \in Nat, <3>1
    <3>3. e <= l
      BY ONLY m \in Nat, n \in Nat, l \in Nat, <3>1
    <3>4. CoversFrom(r, text, k, dot)
      BY ONLY <1>2, <2>1, <3>1, <3>2, <3>3 DEF CoversFrom
    <3> QED BY ONLY <3>1, <3>4
  <2>2. ASSUME B, NEW k \in m..l, CoversFrom(r, text, k, dot)
        PROVE  \E e \in ends[m + 1 + n] : e < l => text[e + 1] = dot
    <3>1. /\ k + n <= l /\ \A i \in 1..n : text[k + i] = r[i]
          /\ k + n < l => text[k + n + 1] = dot
      BY ONLY <1>2, <2>2 DEF CoversFrom
    <3>2. PICK e : e = k + n /\ e - n = k /\ e \in (m + n)..l
      BY ONLY m \in Nat, n \in Nat, l \in Nat, k \in m..l, <3>1
    <3>3. e \in ends[m + 1 + n]
      <4>1. \A q \in 1..n : text[(e - n) + q] = r[q]
        BY ONLY <3>1, <3>2
      <4> QED BY ONLY <1>11, <2>2, <3>2, <4>1
    <3> QED BY ONLY <3>1, <3>2, <3>3
  <2> QED BY <2>1, <2>2
<1> QED BY ONLY <1>0, <1>1, <1>2, <1>3, <1>5, <1>12

-----------------------------------------------------------------------------
(* Lower case, and what replaces a text in another.                        *)

\* In lower case a text is as long, and has the items that are no letters where they were.
InLower(S, s) ==
  /\ Lower(s) \in Seq(S) /\ Len(Lower(s)) = Len(s)
  /\ \A i \in 1..Len(s) : \A x \in {".", ":", "any"} : Lower(s)[i] = x <=> s[i] = x

\* It is.
LEMMA LowerFacts ==
  ASSUME NEW S, Range(Lowercase) \subseteq S, NEW s \in Seq(S)
  PROVE  InLower(S, s)
<1>1. PICK n \in Nat : n = Len(s) /\ DOMAIN s = 1..n
  OBVIOUS
<1>2. PICK t : t = Lower(s)
  OBVIOUS
<1>3. t = [i \in 1..n |-> IF s[i] \in DOMAIN Lowercase THEN Lowercase[s[i]] ELSE s[i]]
  BY ONLY <1>1, <1>2 DEF Lower
<1>4. \A x \in DOMAIN Lowercase : Lowercase[x] \in Range(Lowercase)
  BY DEF Range
<1>5. \A i \in 1..n : t[i] \in S
  BY ONLY <1>1, <1>3, <1>4, Range(Lowercase) \subseteq S, s \in Seq(S)
<1>6. t \in Seq(S) /\ Len(t) = n
  BY ONLY <1>3, <1>5, n \in Nat
<1>7. ASSUME NEW i \in 1..n, NEW x \in {".", ":", "any"} PROVE t[i] = x <=> s[i] = x
  <2>1. x \notin DOMAIN Lowercase /\ x \notin Range(Lowercase)
    BY LettersAssumption
  <2> QED BY ONLY <1>3, <1>4, <2>1, i \in 1..n
<1> QED BY ONLY <1>1, <1>2, <1>6, <1>7 DEF InLower

\* Item by item.
LEMMA LowerItems ==
  ASSUME NEW S, Range(Lowercase) \subseteq S, NEW s \in Seq(S), NEW t, t = Lower(s)
  PROVE  /\ t \in Seq(S) /\ Len(t) = Len(s)
         /\ \A i \in 1..Len(s) : t[i] = IF s[i] \in DOMAIN Lowercase THEN Lowercase[s[i]] ELSE s[i]
<1>1. DOMAIN s = 1..Len(s)
  OBVIOUS
<1>2. t \in Seq(S) /\ Len(t) = Len(s)
  BY ONLY Range(Lowercase) \subseteq S, s \in Seq(S), t = Lower(s), LowerFacts DEF InLower
<1> QED BY ONLY <1>1, <1>2, t = Lower(s) DEF Lower

\* Of two texts in a row each is put in lower case.
LEMMA LowerConcat ==
  ASSUME NEW S, Range(Lowercase) \subseteq S, NEW a \in Seq(S), NEW b \in Seq(S)
  PROVE  Lower(a \o b) = Lower(a) \o Lower(b)
<1> DEFINE low(x) == IF x \in DOMAIN Lowercase THEN Lowercase[x] ELSE x
<1>0. PICK ab \in Seq(S) : ab = a \o b
  <2>1. a \o b \in Seq(S)
    OBVIOUS
  <2> QED BY ONLY <2>1
<1>1. PICK u, v, w : u = Lower(a) /\ v = Lower(b) /\ w = Lower(ab)
  OBVIOUS
<1>2. /\ ab \in Seq(S) /\ Len(ab) = Len(a) + Len(b)
      /\ \A i \in 1..Len(a) : ab[i] = a[i]
      /\ \A i \in 1..Len(b) : ab[Len(a) + i] = b[i]
  BY ONLY a \in Seq(S), b \in Seq(S), <1>0, ConcatParts
<1>3. u \in Seq(S) /\ Len(u) = Len(a) /\ \A i \in 1..Len(a) : u[i] = low(a[i])
  BY ONLY Range(Lowercase) \subseteq S, a \in Seq(S), <1>1, LowerItems
<1>4. v \in Seq(S) /\ Len(v) = Len(b) /\ \A i \in 1..Len(b) : v[i] = low(b[i])
  BY ONLY Range(Lowercase) \subseteq S, b \in Seq(S), <1>1, LowerItems
<1>5. w \in Seq(S) /\ Len(w) = Len(ab) /\ \A i \in 1..Len(ab) : w[i] = low(ab[i])
  BY ONLY Range(Lowercase) \subseteq S, ab \in Seq(S), <1>1, LowerItems
<1> HIDE DEF low
<1>6. PICK m, n \in Nat : m = Len(a) /\ n = Len(b)
  OBVIOUS
<1>7. (\A i \in 1..m : i \in 1..(m + n)) /\ \A i \in 1..n : m + i \in 1..(m + n)
  OBVIOUS
<1>8. /\ Len(w) = Len(u) + Len(v) /\ \A i \in 1..Len(u) : w[i] = u[i]
      /\ \A i \in 1..Len(v) : w[Len(u) + i] = v[i]
  BY ONLY <1>2, <1>3, <1>4, <1>5, <1>6, <1>7
<1>9. w = u \o v
  BY ONLY <1>3, <1>4, <1>5, <1>8, ConcatIs
<1> QED BY ONLY <1>0, <1>1, <1>9

\* And of a part of one.
LEMMA LowerPart ==
  ASSUME NEW S, Range(Lowercase) \subseteq S, NEW s \in Seq(S), NEW k \in 1..(Len(s) + 1)
  PROVE  Lower(SubSeq(s, k, Len(s))) = SubSeq(Lower(s), k, Len(s))
<1> DEFINE low(x) == IF x \in DOMAIN Lowercase THEN Lowercase[x] ELSE x
<1>1. PICK n \in Nat : n = Len(s)
  OBVIOUS
<1>0. PICK u \in Seq(S) : u = SubSeq(s, k, n)
  <2>1. SubSeq(s, k, n) \in Seq(S)
    BY <1>1
  <2> QED BY ONLY <2>1
<1>2. PICK t, v, w : t = Lower(s) /\ v = Lower(u) /\ w = SubSeq(t, k, n)
  OBVIOUS
<1>3. t \in Seq(S) /\ Len(t) = n /\ \A i \in 1..n : t[i] = low(s[i])
  BY ONLY Range(Lowercase) \subseteq S, s \in Seq(S), <1>1, <1>2, LowerItems
<1>4. \A x \in Seq(S) : Len(x) = n =>
        /\ SubSeq(x, k, n) \in Seq(S) /\ Len(SubSeq(x, k, n)) = n - k + 1
        /\ \A i \in 1..(n - k + 1) : SubSeq(x, k, n)[i] = x[k + i - 1]
  <2> SUFFICES ASSUME NEW x \in Seq(S), Len(x) = n
               PROVE  /\ SubSeq(x, k, n) \in Seq(S) /\ Len(SubSeq(x, k, n)) = n - k + 1
                      /\ \A i \in 1..(n - k + 1) : SubSeq(x, k, n)[i] = x[k + i - 1]
    OBVIOUS
  <2> QED BY <1>1
<1>5. u \in Seq(S) /\ Len(u) = n - k + 1 /\ \A i \in 1..(n - k + 1) : u[i] = s[k + i - 1]
  BY ONLY s \in Seq(S), <1>0, <1>1, <1>4
<1>6. w \in Seq(S) /\ Len(w) = n - k + 1 /\ \A i \in 1..(n - k + 1) : w[i] = t[k + i - 1]
  BY ONLY <1>2, <1>3, <1>4
<1>7. v \in Seq(S) /\ Len(v) = n - k + 1 /\ \A i \in 1..(n - k + 1) : v[i] = low(u[i])
  <2>1. v \in Seq(S) /\ Len(v) = Len(u) /\ \A i \in 1..Len(u) : v[i] = low(u[i])
    BY ONLY Range(Lowercase) \subseteq S, u \in Seq(S), <1>2, LowerItems
  <2> HIDE DEF low
  <2> QED BY ONLY <1>5, <2>1
<1> HIDE DEF low
<1>8. \A i \in 1..(n - k + 1) : k + i - 1 \in 1..n
  BY <1>1
<1>9. Len(v) = Len(w) /\ \A i \in 1..Len(v) : v[i] = w[i]
  BY ONLY <1>3, <1>5, <1>6, <1>7, <1>8
<1>10. v = w
  BY ONLY <1>6, <1>7, <1>9, SameItems
<1> QED BY ONLY <1>0, <1>1, <1>2, <1>10

\* A token that is no letter stays.
LEMMA LowerOne ==
  ASSUME NEW x \in {".", ":", "any"}
  PROVE  Lower(<<x>>) = <<x>>
<1>1. x \notin DOMAIN Lowercase
  BY LettersAssumption
<1>2. DOMAIN <<x>> = 1..1 /\ <<x>>[1] = x
  OBVIOUS
<1>3. PICK d : d = <<x>>
  OBVIOUS
<1>4. Lower(d) = [i \in 1..1 |-> x]
  BY ONLY <1>1, <1>2, <1>3 DEF Lower
<1>5. [i \in 1..1 |-> x] = <<x>>
  OBVIOUS
<1> QED BY ONLY <1>3, <1>4, <1>5

\* So it is with a text about such a token.
LEMMA LowerAround ==
  ASSUME NEW S, Range(Lowercase) \subseteq S, NEW s \in Seq(S), NEW p \in Seq(S),
         NEW x \in S, x \in {".", ":", "any"}
  PROVE  Lower(Around(s, x, p)) = Around(Lower(s), x, Lower(p))
<1>1. PICK d \in Seq(S) : d = <<x>> /\ Lower(d) = d
  <2>1. <<x>> \in Seq(S)
    OBVIOUS
  <2> QED BY <2>1, LowerOne
<1>2. PICK b \in Seq(S) : b = s \o d
  <2>1. s \o d \in Seq(S)
    OBVIOUS
  <2> QED BY ONLY <2>1
<1>3. Lower(b) = Lower(s) \o d
  BY ONLY Range(Lowercase) \subseteq S, s \in Seq(S), d \in Seq(S), <1>1, <1>2, LowerConcat
<1>4. Lower(b \o p) = Lower(b) \o Lower(p)
  BY ONLY Range(Lowercase) \subseteq S, b \in Seq(S), p \in Seq(S), LowerConcat
<1> QED BY ONLY <1>1, <1>2, <1>3, <1>4 DEF Around

\* Where a text is found in another, item by item.
FoundAt(T, text, d, j) ==
  /\ text \in Seq(T) /\ d \in Seq(T) /\ j \in Nat /\ j >= 1
  /\ j + Len(d) - 1 <= Len(text) /\ SubSeq(text, j, j + Len(d) - 1) = d

\* There are its items.
LEMMA FoundItems ==
  ASSUME NEW T, NEW text, NEW d, NEW j, FoundAt(T, text, d, j)
  PROVE  \A i \in 1..Len(d) : text[j + i - 1] = d[i]
<1> text \in Seq(T) /\ d \in Seq(T) /\ j \in Nat /\ j >= 1
  BY DEF FoundAt
<1>0. j + Len(d) - 1 <= Len(text) /\ SubSeq(text, j, j + Len(d) - 1) = d
  BY DEF FoundAt
<1>1. PICK n, k \in Nat : n = Len(text) /\ k = Len(d)
  BY ONLY text \in Seq(T), d \in Seq(T)
<1>2. \A i \in 1..k : SubSeq(text, j, j + k - 1)[i] = text[j + i - 1]
  <2>1. j + k - 1 <= n /\ (j + k - 1) - j + 1 = k /\ \A i \in 1..k : j + i - 1 \in 1..n
    BY ONLY <1>0, <1>1, j \in Nat, j >= 1, k \in Nat, n \in Nat
  <2> SUFFICES ASSUME NEW i \in 1..k PROVE SubSeq(text, j, j + k - 1)[i] = text[j + i - 1]
    OBVIOUS
  <2> QED BY ONLY <1>1, <2>1, i \in 1..k, text \in Seq(T), j \in Nat, k \in Nat, n \in Nat
<1> QED BY ONLY <1>0, <1>1, <1>2

\* Nothing is replaced where nothing is found.
LEMMA ReplacedNowhere ==
  ASSUME NEW T, NEW text \in Seq(T), NEW old \in Seq(T), old # <<>>, NEW new \in Seq(T),
         Finds(text, old, 1) = {}
  PROVE  Replaced(text, old, new) = text
<1>1. PICK parts : parts = Split(text, old)
  OBVIOUS
<1>2. parts = <<text>>
  BY ONLY text \in Seq(T), old \in Seq(T), old # <<>>, Finds(text, old, 1) = {}, <1>1, SplitWhole
<1>3. DOMAIN parts = 1..1 /\ parts[1] = text
  BY ONLY <1>2
<1>4. [i \in DOMAIN parts |-> IF i = 1 THEN parts[i] ELSE new \o parts[i]] = <<text>>
  <2>1. [i \in DOMAIN parts |-> IF i = 1 THEN parts[i] ELSE new \o parts[i]] = [i \in 1..1 |-> text]
    BY ONLY <1>3
  <2>2. [i \in 1..1 |-> text] = <<text>>
    OBVIOUS
  <2> QED BY ONLY <2>1, <2>2
<1>5. FlattenSeq(<<text>>) = text
  BY FlattenOne
<1> QED BY ONLY <1>1, <1>4, <1>5 DEF Replaced

\* The parts with the new text before each of them, and before all but the first.
Preceded(new, parts) == [i \in DOMAIN parts |-> new \o parts[i]]
Parting(new, parts) == [i \in DOMAIN parts |-> IF i = 1 THEN parts[i] ELSE new \o parts[i]]

\* So many texts, and these.
LEMMA PrecededFacts ==
  ASSUME NEW T, NEW new \in Seq(T), NEW t \in Seq(Seq(T))
  PROVE  /\ Preceded(new, t) \in Seq(Seq(T)) /\ Len(Preceded(new, t)) = Len(t)
         /\ \A i \in 1..Len(t) : Preceded(new, t)[i] = new \o t[i]
<1>1. PICK n \in Nat : n = Len(t) /\ DOMAIN t = 1..n
  OBVIOUS
<1>2. \A i \in 1..n : new \o t[i] \in Seq(T)
  <2> SUFFICES ASSUME NEW i \in 1..n PROVE new \o t[i] \in Seq(T)
    OBVIOUS
  <2>1. t[i] \in Seq(T)
    BY <1>1
  <2> QED BY <2>1
<1>3. PICK S : S = Seq(T)
  OBVIOUS
<1>4. PICK y : y = [i \in 1..n |-> new \o t[i]]
  OBVIOUS
<1>5. \A i \in 1..n : y[i] \in S /\ y[i] = new \o t[i]
  BY ONLY <1>2, <1>3, <1>4
<1>6. y \in [1..n -> S]
  BY ONLY <1>2, <1>3, <1>4
<1>7. y \in Seq(S) /\ Len(y) = n
  BY ONLY <1>6, n \in Nat
<1>8. Preceded(new, t) = y
  BY ONLY <1>1, <1>4 DEF Preceded
<1> QED BY ONLY <1>1, <1>3, <1>5, <1>7, <1>8

\* The first stays, and the rest is preceded.
LEMMA PartingFirst ==
  ASSUME NEW T, NEW new \in Seq(T), NEW a \in Seq(T), NEW t \in Seq(Seq(T))
  PROVE  Parting(new, <<a>> \o t) = <<a>> \o Preceded(new, t)
<1>1. PICK S : S = Seq(T)
  OBVIOUS
<1>2. PICK n \in Nat : n = Len(t)
  OBVIOUS
<1>3. PICK d \in Seq(S) : d = <<a>> /\ Len(d) = 1 /\ d[1] = a
  <2>1. <<a>> \in Seq(S) /\ Len(<<a>>) = 1 /\ <<a>>[1] = a
    BY <1>1
  <2> QED BY <2>1
<1>4. PICK p : p = Preceded(new, t)
  OBVIOUS
<1>5. p \in Seq(S) /\ Len(p) = n /\ \A i \in 1..n : p[i] = new \o t[i]
  BY ONLY new \in Seq(T), t \in Seq(Seq(T)), <1>1, <1>2, <1>4, PrecededFacts
<1>6. PICK y : y = d \o t
  OBVIOUS
<1>7. t \in Seq(S)
  BY <1>1
<1>8. /\ DOMAIN y = 1..(1 + n) /\ \A i \in 1..1 : y[i] = d[i]
      /\ \A i \in 1..n : y[1 + i] = t[i]
  BY ONLY d \in Seq(S), <1>2, <1>3, <1>6, <1>7, ConcatParts
<1>9. PICK z : z = [i \in 1..(1 + n) |-> IF i = 1 THEN y[i] ELSE new \o y[i]]
  OBVIOUS
<1>10. z = Parting(new, y)
  BY ONLY <1>8, <1>9 DEF Parting
<1>11. /\ 1 \in 1..1 /\ 1 \in 1..(1 + n)
       /\ \A i \in 1..n : 1 + i \in 1..(1 + n) /\ 1 + i # 1
       /\ \A i \in 1..(1 + n) : i = 1 \/ \E k \in 1..n : i = 1 + k
  <2>1. \A i \in 1..(1 + n) : i = 1 \/ (i - 1 \in 1..n /\ i = 1 + (i - 1))
    OBVIOUS
  <2>2. \A i \in 1..(1 + n) : i = 1 \/ \E k \in 1..n : i = 1 + k
    BY ONLY <2>1
  <2> QED BY <2>2
<1>12. z[1] = a /\ \A i \in 1..n : z[1 + i] = p[i]
  <2>1. y[1] = a
    BY ONLY <1>3, <1>8, <1>11
  <2>2. z[1] = a
    BY ONLY <1>9, <1>11, <2>1
  <2>3. ASSUME NEW i \in 1..n PROVE z[1 + i] = p[i]
    <3>1. z[1 + i] = new \o y[1 + i]
      BY ONLY <1>9, <1>11, i \in 1..n
    <3>2. y[1 + i] = t[i] /\ p[i] = new \o t[i]
      BY ONLY <1>5, <1>8, i \in 1..n
    <3> QED BY ONLY <3>1, <3>2
  <2> QED BY ONLY <2>2, <2>3
<1>13. \A i \in 1..n : p[i] \in S
  BY ONLY <1>5, n \in Nat
<1>14. \A i \in 1..(1 + n) : z[i] \in S
  BY ONLY <1>1, <1>11, <1>12, <1>13, a \in Seq(T)
<1>15. z \in Seq(S) /\ Len(z) = 1 + n
  <2>1. z \in [1..(1 + n) -> S]
    BY ONLY <1>9, <1>14
  <2> QED BY ONLY <2>1, n \in Nat
<1>16. /\ Len(z) = Len(d) + Len(p) /\ \A i \in 1..Len(d) : z[i] = d[i]
       /\ \A i \in 1..Len(p) : z[Len(d) + i] = p[i]
  <2>1. \A i \in 1..1 : i = 1
    OBVIOUS
  <2> QED BY ONLY <1>3, <1>5, <1>12, <1>15, <2>1
<1>17. z = d \o p
  BY ONLY d \in Seq(S), <1>5, <1>15, <1>16, ConcatIs
<1> QED BY ONLY <1>3, <1>4, <1>6, <1>10, <1>17

\* A text that is cut where another is to be replaced.
ReplacesAt(T, text, old, new, a, r) ==
  /\ text \in Seq(T) /\ old \in Seq(T) /\ old # <<>> /\ new \in Seq(T)
  /\ a \in Seq(T) /\ r \in Seq(T) /\ CutAt(text, old, a, r)

\* It is replaced at this first place, and then in the rest.
ReplacedThere(T, text, old, new, a, r) ==
  /\ Replaced(text, old, new) = a \o (new \o Replaced(r, old, new))
  /\ Replaced(r, old, new) \in Seq(T)

LEMMA ReplacedFirst ==
  ASSUME NEW T, NEW text, NEW old, NEW new, NEW a, NEW r, ReplacesAt(T, text, old, new, a, r)
  PROVE  ReplacedThere(T, text, old, new, a, r)
<1> /\ text \in Seq(T) /\ old \in Seq(T) /\ old # <<>> /\ new \in Seq(T)
    /\ a \in Seq(T) /\ r \in Seq(T) /\ CutAt(text, old, a, r)
  BY DEF ReplacesAt
<1>1. PICK S : S = Seq(T)
  OBVIOUS
<1>2. PICK t \in Seq(S) : t = Split(r, old) /\ t # <<>>
  <2>1. Split(r, old) \in Seq(Seq(T)) /\ Split(r, old) # <<>>
    BY ONLY r \in Seq(T), old \in Seq(T), old # <<>>, SplitSome
  <2> QED BY ONLY <1>1, <2>1
<1>3. Split(text, old) = <<a>> \o t
  BY ONLY a \in Seq(T), r \in Seq(T), old \in Seq(T), old # <<>>, CutAt(text, old, a, r), <1>2, CutSplits
<1>4. PICK h \in S, u \in Seq(S) : t = <<h>> \o u
  <2>1. 1 \in 0..Len(t) /\ Len(t) >= 1
    BY <1>2
  <2>2. /\ SubSeq(t, 1, 1) \in Seq(S) /\ SubSeq(t, 2, Len(t)) \in Seq(S)
        /\ Len(SubSeq(t, 1, 1)) = 1
        /\ t = SubSeq(t, 1, 1) \o SubSeq(t, 1 + 1, Len(t))
    <3>1. 1 + 1 = 2
      OBVIOUS
    <3> QED BY ONLY t \in Seq(S), <2>1, <3>1, Halves
  <2>3. PICK b \in Seq(S) : b = SubSeq(t, 1, 1) /\ Len(b) = 1
    BY ONLY <2>2
  <2>4. b = <<b[1]>> /\ b[1] \in S
    <3>1. PICK x \in S : x = b[1]
      BY ONLY <2>3, b \in Seq(S)
    <3>2. PICK e \in Seq(S) : e = <<x>> /\ Len(e) = 1 /\ e[1] = x
      <4>1. <<x>> \in Seq(S) /\ Len(<<x>>) = 1 /\ <<x>>[1] = x
        OBVIOUS
      <4> QED BY ONLY <4>1
    <3>3. Len(b) = Len(e) /\ \A i \in 1..Len(b) : b[i] = e[i]
      <4>1. \A i \in 1..1 : i = 1
        OBVIOUS
      <4> QED BY ONLY <2>3, <3>1, <3>2, <4>1
    <3>4. b = e
      BY ONLY b \in Seq(S), e \in Seq(S), <3>3, SameItems
    <3> QED BY ONLY <3>1, <3>2, <3>4
  <2>5. 1 + 1 = 2
    OBVIOUS
  <2> QED BY ONLY <2>2, <2>3, <2>4, <2>5
<1>5. Replaced(text, old, new) = FlattenSeq(Parting(new, <<a>> \o t))
  BY ONLY <1>3 DEF Replaced, Parting
<1>6. Replaced(r, old, new) = FlattenSeq(Parting(new, <<h>> \o u))
  BY ONLY <1>2, <1>4 DEF Replaced, Parting
<1>7. PICK p, q \in Seq(Seq(T)) : p = Preceded(new, t) /\ q = Preceded(new, u)
  BY ONLY new \in Seq(T), t \in Seq(S), u \in Seq(S), <1>1, PrecededFacts
<1>8. Replaced(text, old, new) = a \o FlattenSeq(p)
  <2>1. Parting(new, <<a>> \o t) = <<a>> \o p
    BY ONLY new \in Seq(T), a \in Seq(T), t \in Seq(S), <1>1, <1>7, PartingFirst
  <2>2. FlattenSeq(<<a>> \o p) = a \o FlattenSeq(p)
    BY ONLY a \in Seq(T), p \in Seq(Seq(T)), FlattenFirst
  <2> QED BY ONLY <1>5, <2>1, <2>2
<1>9. Replaced(r, old, new) = h \o FlattenSeq(q)
  <2>1. Parting(new, <<h>> \o u) = <<h>> \o q
    BY ONLY new \in Seq(T), h \in S, u \in Seq(S), <1>1, <1>7, PartingFirst
  <2>2. FlattenSeq(<<h>> \o q) = h \o FlattenSeq(q)
    BY ONLY h \in S, <1>1, q \in Seq(Seq(T)), FlattenFirst
  <2> QED BY ONLY <1>6, <2>1, <2>2
<1>10. FlattenSeq(p) = (new \o h) \o FlattenSeq(q)
  <2>1. p = <<new \o h>> \o q
    <3>1. PICK n \in Nat : n = Len(u)
      OBVIOUS
    <3>2. PICK d \in Seq(S) : d = <<new \o h>> /\ Len(d) = 1 /\ d[1] = new \o h
      <4>1. new \o h \in S
        BY <1>1
      <4>2. PICK x \in S : x = new \o h
        BY <4>1
      <4>3. <<x>> \in Seq(S) /\ Len(<<x>>) = 1 /\ <<x>>[1] = x
        OBVIOUS
      <4> QED BY ONLY <4>2, <4>3
    <3>3. PICK e \in Seq(S) : e = <<h>> /\ Len(e) = 1 /\ e[1] = h
      <4>1. <<h>> \in Seq(S) /\ Len(<<h>>) = 1 /\ <<h>>[1] = h
        OBVIOUS
      <4> QED BY <4>1
    <3>4. Len(t) = 1 + n /\ (\A i \in 1..1 : t[i] = e[i]) /\ \A i \in 1..n : t[1 + i] = u[i]
      BY ONLY e \in Seq(S), u \in Seq(S), <1>4, <3>1, <3>3, ConcatParts
    <3>5. p \in Seq(S) /\ Len(p) = 1 + n /\ \A i \in 1..(1 + n) : p[i] = new \o t[i]
      <4>1. p \in Seq(S) /\ Len(p) = Len(t) /\ \A i \in 1..Len(t) : p[i] = new \o t[i]
        BY ONLY new \in Seq(T), t \in Seq(S), <1>1, <1>7, PrecededFacts
      <4> QED BY ONLY <3>4, <4>1
    <3>6. q \in Seq(S) /\ Len(q) = n /\ \A i \in 1..n : q[i] = new \o u[i]
      BY ONLY new \in Seq(T), u \in Seq(S), <1>1, <1>7, <3>1, PrecededFacts
    <3>7. 1 \in 1..1 /\ 1 \in 1..(1 + n) /\ (\A i \in 1..n : 1 + i \in 1..(1 + n)) /\ \A i \in 1..1 : i = 1
      OBVIOUS
    <3>8. p[1] = d[1]
      BY ONLY <3>2, <3>3, <3>4, <3>5, <3>7
    <3>9. ASSUME NEW i \in 1..n PROVE p[1 + i] = q[i]
      <4>1. p[1 + i] = new \o t[1 + i]
        BY ONLY <3>5, <3>7, i \in 1..n
      <4>2. t[1 + i] = u[i] /\ q[i] = new \o u[i]
        BY ONLY <3>4, <3>6, i \in 1..n
      <4> QED BY ONLY <4>1, <4>2
    <3>10. Len(p) = Len(d) + Len(q) /\ (\A i \in 1..Len(d) : p[i] = d[i])
           /\ \A i \in 1..Len(q) : p[Len(d) + i] = q[i]
      BY ONLY <3>2, <3>5, <3>6, <3>7, <3>8, <3>9
    <3>11. p = d \o q
      BY ONLY d \in Seq(S), <3>5, <3>6, <3>10, ConcatIs
    <3> QED BY ONLY <3>2, <3>11
  <2>2. new \o h \in Seq(T)
    BY <1>1
  <2>3. FlattenSeq(<<new \o h>> \o q) = (new \o h) \o FlattenSeq(q)
    BY ONLY <2>2, q \in Seq(Seq(T)), FlattenFirst
  <2> QED BY ONLY <2>1, <2>3
<1>11. PICK f \in Seq(T) : f = FlattenSeq(q)
  BY FlattenTyped
<1>12. (new \o h) \o f = new \o (h \o f) /\ h \o f \in Seq(T)
  <2>1. h \in Seq(T)
    BY <1>1
  <2>2. h \o f \in Seq(T)
    BY ONLY <2>1, f \in Seq(T), ConcatTyped
  <2>3. (new \o h) \o f = new \o (h \o f)
    <3>1. InARow(new, h, f)
      BY ONLY new \in Seq(T), <2>1, f \in Seq(T), RowFacts
    <3> QED BY ONLY <3>1 DEF InARow
  <2> QED BY ONLY <2>2, <2>3
<1> QED BY ONLY <1>8, <1>9, <1>10, <1>11, <1>12 DEF ReplacedThere

\* What comes of it is a text in the same letters.
LEMMA ReplacedTyped ==
  ASSUME NEW T, NEW text \in Seq(T), NEW old \in Seq(T), old # <<>>, NEW new \in Seq(T)
  PROVE  Replaced(text, old, new) \in Seq(T)
<1>1. CASE Finds(text, old, 1) = {}
  BY ONLY text \in Seq(T), old \in Seq(T), old # <<>>, new \in Seq(T), <1>1, ReplacedNowhere
<1>2. CASE Finds(text, old, 1) # {}
  <2>1. PICK a, r \in Seq(T) : CutAt(text, old, a, r)
    BY ONLY text \in Seq(T), old \in Seq(T), old # <<>>, <1>2, FirstCut
  <2>2. /\ Replaced(text, old, new) = a \o (new \o Replaced(r, old, new))
        /\ Replaced(r, old, new) \in Seq(T)
    <3>1. ReplacesAt(T, text, old, new, a, r)
      BY <2>1 DEF ReplacesAt
    <3>2. ReplacedThere(T, text, old, new, a, r)
      BY ONLY <3>1, ReplacedFirst
    <3> QED BY ONLY <3>2 DEF ReplacedThere
  <2>3. PICK x, y \in Seq(T) : x = Replaced(r, old, new) /\ y = new \o x
    <3>1. \A x \in Seq(T) : new \o x \in Seq(T)
      OBVIOUS
    <3> QED BY ONLY <2>2, <3>1
  <2>4. a \o y \in Seq(T)
    OBVIOUS
  <2> QED BY ONLY <2>2, <2>3, <2>4
<1> QED BY ONLY <1>1, <1>2

-----------------------------------------------------------------------------
(* What a line authorizes.                                                 *)

\* A sector and an action, and the name of a sector, and what is after ALL.
SectorAndAction(T, s, p, sector, action) ==
  /\ ":" \in T /\ "." \in T /\ "any" \notin T
  /\ s \in Seq(T) /\ p \in Seq(T) /\ sector \in Seq(T) /\ action \in Seq(T)
  /\ Lacks(s, ":") /\ Lacks(sector, ":")

\* A pattern without ALL matches the sector, and the action segment by segment.
LEMMA LiteralNames ==
  ASSUME NEW T, NEW s, NEW p, NEW sector, NEW action, SectorAndAction(T, s, p, sector, action)
  PROVE  Matches(Around(s, ":", p), Around(sector, ":", action))
           <=> s = sector /\ IsPrefix(Segments(p), Segments(action))
<1>1. PICK c, dot, any : c = ":" /\ dot = "." /\ any = "any"
  OBVIOUS
<1>2. /\ c \in T /\ dot \in T /\ any \notin T
      /\ s \in Seq(T) /\ p \in Seq(T) /\ sector \in Seq(T) /\ action \in Seq(T)
      /\ Lacks(s, c) /\ Lacks(sector, c)
  BY <1>1 DEF SectorAndAction
<1>3. PICK u, text \in Seq(T) : u = Around(s, c, p) /\ text = Around(sector, c, action)
  BY ONLY <1>2, PartsAbout
<1>4. \A i \in 1..Len(u) : u[i] # any
  BY ONLY <1>2, u \in Seq(T)
<1>5. Matches(u, text) <=> CoversUpTo(u, text, dot)
  BY ONLY <1>1, <1>4, u \in Seq(T), text \in Seq(T), MatchesLiteral
<1>6. CoversUpTo(u, text, dot) <=> s = sector /\ CoversUpTo(p, action, dot)
  BY ONLY <1>2, <1>3, CoversAtColon
<1>7. CoversUpTo(p, action, dot) <=> IsPrefix(Split(p, <<dot>>), Split(action, <<dot>>))
  BY ONLY <1>2, SegmentsCover
<1> QED BY ONLY <1>1, <1>3, <1>5, <1>6, <1>7 DEF Segments

\* One with ALL matches the sector, and from anywhere on the action.
LEMMA AnyNames ==
  ASSUME NEW T, NEW s, NEW p, NEW sector, NEW action, SectorAndAction(T, s, p, sector, action)
  PROVE  Matches(Around(s \o <<":">>, "any", p), Around(sector, ":", action))
           <=> /\ s = sector
               /\ \E k \in 1..(Len(action) + 1) :
                    IsPrefix(Segments(p), Segments(SubSeq(action, k, Len(action))))
<1>1. PICK c, dot, any : c = ":" /\ dot = "." /\ any = "any"
  OBVIOUS
<1>2. /\ c \in T /\ dot \in T /\ any \notin T
      /\ s \in Seq(T) /\ p \in Seq(T) /\ sector \in Seq(T) /\ action \in Seq(T)
      /\ Lacks(s, c) /\ Lacks(sector, c)
  BY <1>1 DEF SectorAndAction
<1> s \in Seq(T) /\ p \in Seq(T) /\ sector \in Seq(T) /\ action \in Seq(T)
  BY ONLY <1>2
<1>3. PICK U : U = T \cup {any}
  OBVIOUS
<1>4. any \in U /\ T \subseteq U
  BY ONLY <1>3
<1>5. PICK h \in Seq(T) : h = s \o <<c>> /\ Len(h) = Len(s) + 1
  <2>1. s \o <<c>> \in Seq(T) /\ Len(s \o <<c>>) = Len(s) + 1
    BY ONLY <1>2
  <2> QED BY ONLY <2>1
<1>6. PICK text \in Seq(T) : text = Around(sector, c, action) /\ About(text, sector, c, action)
  BY ONLY <1>2, PartsAbout
<1>7. h \in Seq(U) /\ p \in Seq(U)
  BY ONLY <1>4, h \in Seq(T), p \in Seq(T), SeqWider
<1>8. PICK u \in Seq(U) : u = Around(h, any, p) /\ About(u, h, any, p)
  BY ONLY <1>4, <1>7, PartsAbout
<1>9. (\A i \in 1..Len(h) : h[i] # any) /\ \A i \in 1..Len(p) : p[i] # any
  BY ONLY <1>2, h \in Seq(T), p \in Seq(T)
<1>10. Matches(u, text)
         <=> Begins(h, text) /\ \E k \in Len(h)..Len(text) : CoversFrom(p, text, k, dot)
  BY ONLY <1>1, <1>7, <1>8, <1>9, u \in Seq(U), text \in Seq(T), MatchesAny
<1>11. Begins(h, text) <=> s = sector
  <2>1. ApartBy(T, c, s, sector, action)
    BY ONLY <1>2 DEF ApartBy
  <2>2. Begins(s \o <<c>>, Around(sector, c, action)) <=> s = sector
    BY ONLY <2>1, BeginsAtColon, Zenon
  <2> QED BY ONLY <1>5, <1>6, <2>2
<1>12. PICK m, n, l \in Nat : m = Len(sector) + 1 /\ n = Len(action) /\ l = Len(p)
  OBVIOUS
<1>13. Len(text) = m + n /\ \A i \in 1..n : text[m + i] = action[i]
  BY ONLY <1>6, <1>12 DEF About
<1>14. ASSUME NEW k \in 1..(n + 1), NEW q, q = m + k - 1
       PROVE  CoversFrom(p, text, q, dot)
                <=> IsPrefix(Segments(p), Segments(SubSeq(action, k, n)))
  <2>1. PICK a \in Seq(T) : /\ a = SubSeq(action, k, n) /\ Len(a) = n - k + 1
                            /\ \A i \in 1..(n - k + 1) : a[i] = action[k + i - 1]
    <3>1. /\ SubSeq(action, k, n) \in Seq(T) /\ Len(SubSeq(action, k, n)) = n - k + 1
          /\ \A i \in 1..(n - k + 1) : SubSeq(action, k, n)[i] = action[k + i - 1]
      BY <1>12
    <3> QED BY <3>1
  <2>2. CoversUpTo(p, a, dot) <=> IsPrefix(Split(p, <<dot>>), Split(a, <<dot>>))
    BY ONLY <1>2, a \in Seq(T), SegmentsCover
  <2>3. ASSUME NEW i \in 1..(n - k + 1) PROVE text[q + i] = a[i]
    <3>1. k + i - 1 \in 1..n /\ m + (k + i - 1) = q + i
      BY ONLY <1>14, m \in Nat, n \in Nat, i \in 1..(n - k + 1)
    <3> QED BY ONLY <1>13, <2>1, <3>1, i \in 1..(n - k + 1)
  <2>4. q + l <= m + n <=> l <= n - k + 1
    BY ONLY <1>14, m \in Nat, n \in Nat, l \in Nat
  <2>5. q + l < m + n <=> l < n - k + 1
    BY ONLY <1>14, m \in Nat, n \in Nat, l \in Nat
  <2>6. l <= n - k + 1 => ((\A i \in 1..l : text[q + i] = p[i]) <=> \A i \in 1..l : a[i] = p[i])
    <3>1. l <= n - k + 1 => \A i \in 1..l : i \in 1..(n - k + 1)
      BY ONLY n \in Nat, l \in Nat, k \in 1..(n + 1)
    <3> QED BY ONLY <2>3, <3>1
  <2>7. l < n - k + 1 => text[q + l + 1] = a[l + 1]
    <3>1. l < n - k + 1 => l + 1 \in 1..(n - k + 1) /\ q + (l + 1) = q + l + 1
      BY ONLY <1>14, m \in Nat, n \in Nat, l \in Nat, k \in 1..(n + 1)
    <3> QED BY ONLY <2>3, <3>1
  <2>8. CoversFrom(p, text, q, dot)
          <=> /\ q + l <= m + n /\ \A i \in 1..l : text[q + i] = p[i]
              /\ q + l < m + n => text[q + l + 1] = dot
    BY ONLY <1>12, <1>13 DEF CoversFrom
  <2>9. CoversUpTo(p, a, dot)
          <=> /\ l <= n - k + 1 /\ \A i \in 1..l : a[i] = p[i]
              /\ l < n - k + 1 => a[l + 1] = dot
    BY ONLY <1>12, <2>1 DEF CoversUpTo, Begins
  <2>10. CoversFrom(p, text, q, dot) <=> CoversUpTo(p, a, dot)
    BY ONLY <2>4, <2>5, <2>6, <2>7, <2>8, <2>9, Zenon
  <2> QED BY ONLY <1>1, <2>1, <2>2, <2>10 DEF Segments
<1>15. (\E q \in m..(m + n) : CoversFrom(p, text, q, dot))
         <=> \E k \in 1..(n + 1) : IsPrefix(Segments(p), Segments(SubSeq(action, k, n)))
  <2>1. \A q \in m..(m + n) : \E k \in 1..(n + 1) : q = m + k - 1
    <3>1. \A q \in m..(m + n) : q - m + 1 \in 1..(n + 1) /\ q = m + (q - m + 1) - 1
      OBVIOUS
    <3> QED BY ONLY <3>1
  <2>2. \A k \in 1..(n + 1) : \E q \in m..(m + n) : q = m + k - 1
    OBVIOUS
  <2> QED BY ONLY <1>14, <2>1, <2>2
<1>16. s = sector => Len(h) = m
  BY ONLY <1>5, <1>12
<1>17. Matches(u, text)
         <=> s = sector /\ \E k \in 1..(n + 1) : IsPrefix(Segments(p), Segments(SubSeq(action, k, n)))
  <2>1. CASE s = sector
    BY ONLY <1>10, <1>11, <1>13, <1>15, <1>16, <2>1
  <2>2. CASE s # sector
    BY ONLY <1>10, <1>11, <2>2
  <2> QED BY ONLY <2>1, <2>2
<1> QED BY ONLY <1>1, <1>5, <1>6, <1>8, <1>12, <1>17

\* A text about a token is split at it.
SplitsAt(s, c, p) == Split(Around(s, c, p), <<c>>) = <<s>> \o Split(p, <<c>>)

LEMMA SplitAround ==
  ASSUME NEW T, NEW c \in T, NEW s \in Seq(T), NEW p \in Seq(T), Lacks(s, c)
  PROVE  SplitsAt(s, c, p)
<1>1. \A j \in 1..Len(s) : s[j] # c
  BY DEF Lacks
<1>2. Split((s \o <<c>>) \o p, <<c>>) = <<s>> \o Split(p, <<c>>)
  BY ONLY <1>1, c \in T, s \in Seq(T), p \in Seq(T), SplitAtToken
<1> QED BY ONLY <1>2 DEF SplitsAt, Around

\* A text has a token twice.
Twice(s, c) == \E i, j \in 1..Len(s) : i < j /\ s[i] = c /\ s[j] = c

\* In two texts in a row it is in the first, in the second, or in each.
LEMMA InEither ==
  ASSUME NEW T, NEW a \in Seq(T), NEW b \in Seq(T), NEW c
  PROVE  /\ Lacks(a \o b, c) <=> Lacks(a, c) /\ Lacks(b, c)
         /\ Twice(a \o b, c) <=> Twice(a, c) \/ Twice(b, c) \/ (~Lacks(a, c) /\ ~Lacks(b, c))
<1>1. PICK u : u = a \o b
  OBVIOUS
<1>2. PICK m, n \in Nat : m = Len(a) /\ n = Len(b)
  OBVIOUS
<1>3. /\ Len(u) = m + n /\ \A i \in 1..m : u[i] = a[i]
      /\ \A i \in 1..n : u[m + i] = b[i]
  BY ONLY a \in Seq(T), b \in Seq(T), <1>1, <1>2, ConcatParts
<1>4. /\ \A i \in 1..m : i \in 1..(m + n)
      /\ \A i \in 1..n : m + i \in 1..(m + n)
      /\ \A i \in 1..(m + n) : i \in 1..m \/ \E k \in 1..n : i = m + k
  <2>1. \A i \in 1..(m + n) : i \in 1..m \/ (i - m \in 1..n /\ i = m + (i - m))
    OBVIOUS
  <2>2. \A i \in 1..(m + n) : i \in 1..m \/ \E k \in 1..n : i = m + k
    BY ONLY <2>1
  <2> QED BY <2>2
<1>5. Lacks(u, c) <=> Lacks(a, c) /\ Lacks(b, c)
  <2>1. ASSUME Lacks(u, c) PROVE Lacks(a, c) /\ Lacks(b, c)
    BY ONLY <1>2, <1>3, <1>4, <2>1 DEF Lacks
  <2>2. ASSUME Lacks(a, c), Lacks(b, c) PROVE Lacks(u, c)
    <3>1. ASSUME NEW i \in 1..(m + n) PROVE u[i] # c
      <4>1. CASE i \in 1..m
        BY ONLY <1>2, <1>3, <2>2, <4>1 DEF Lacks
      <4>2. CASE \E k \in 1..n : i = m + k
        BY ONLY <1>2, <1>3, <2>2, <4>2 DEF Lacks
      <4> QED BY ONLY <1>4, <4>1, <4>2, i \in 1..(m + n)
    <3> QED BY ONLY <1>3, <3>1 DEF Lacks
  <2> QED BY ONLY <2>1, <2>2
<1>6. ASSUME Twice(u, c) PROVE Twice(a, c) \/ Twice(b, c) \/ (~Lacks(a, c) /\ ~Lacks(b, c))
  <2>1. PICK i, j \in 1..(m + n) : i < j /\ u[i] = c /\ u[j] = c
    BY ONLY <1>3, <1>6 DEF Twice
  <2>2. CASE j \in 1..m
    <3>1. i \in 1..m
      BY <2>1, <2>2
    <3>2. i < j /\ a[i] = c /\ a[j] = c
      BY ONLY <1>3, <2>1, <2>2, <3>1
    <3>3. Twice(a, c) <=> \E x, y \in 1..m : x < y /\ a[x] = c /\ a[y] = c
      BY ONLY <1>2 DEF Twice
    <3> QED BY ONLY <2>2, <3>1, <3>2, <3>3
  <2>3. CASE i \in 1..m /\ j \notin 1..m
    <3>1. PICK k \in 1..n : j = m + k
      BY ONLY <1>4, <2>3, j \in 1..(m + n)
    <3> QED BY ONLY <1>2, <1>3, <2>1, <2>3, <3>1 DEF Lacks
  <2>4. CASE i \notin 1..m
    <3>1. j \notin 1..m
      BY <2>1, <2>4
    <3>2. PICK k, q \in 1..n : i = m + k /\ j = m + q
      BY ONLY <1>4, <2>4, <3>1, i \in 1..(m + n), j \in 1..(m + n)
    <3>3. k < q
      BY ONLY <2>1, <3>2, m \in Nat, n \in Nat, k \in 1..n, q \in 1..n
    <3>4. b[k] = c /\ b[q] = c
      BY ONLY <1>3, <2>1, <3>2, k \in 1..n, q \in 1..n
    <3>5. Twice(b, c) <=> \E x, y \in 1..n : x < y /\ b[x] = c /\ b[y] = c
      BY ONLY <1>2 DEF Twice
    <3> QED BY ONLY <3>3, <3>4, <3>5, k \in 1..n, q \in 1..n
  <2> QED BY ONLY <2>2, <2>3, <2>4
<1>7. ASSUME Twice(a, c) PROVE Twice(u, c)
  BY ONLY <1>2, <1>3, <1>4, <1>7 DEF Twice
<1>8. ASSUME Twice(b, c) PROVE Twice(u, c)
  <2>1. PICK i, j \in 1..n : i < j /\ b[i] = c /\ b[j] = c
    BY ONLY <1>2, <1>8 DEF Twice
  <2>2. m + i < m + j
    BY <2>1
  <2> QED BY ONLY <1>3, <1>4, <2>1, <2>2, i \in 1..n, j \in 1..n DEF Twice
<1>9. ASSUME ~Lacks(a, c), ~Lacks(b, c) PROVE Twice(u, c)
  <2>1. PICK i \in 1..m, j \in 1..n : a[i] = c /\ b[j] = c
    BY ONLY <1>2, <1>9 DEF Lacks
  <2>2. i < m + j
    OBVIOUS
  <2> QED BY ONLY <1>3, <1>4, <2>1, <2>2, i \in 1..m, j \in 1..n DEF Twice
<1> QED BY ONLY <1>1, <1>5, <1>6, <1>7, <1>8, <1>9

\* A pattern with two colons does not match a text with one.
LEMMA TwiceNever ==
  ASSUME NEW T, NEW U, NEW pattern \in Seq(U), NEW text \in Seq(T), NEW c, c # "any",
         Twice(pattern, c), ~Twice(text, c)
  PROVE  ~Matches(pattern, text)
<1>1. PICK ends \in PatternEnds(pattern, text) :
        Matches(pattern, text)
          <=> \E n \in ends[Len(pattern)] : n < Len(text) => text[n + 1] = "."
  BY MatchesByEnds
<1>2. PICK n, l \in Nat : n = Len(pattern) /\ l = Len(text)
  OBVIOUS
<1>3. \A i \in 0..n : ends[i] = EndsUpon(pattern, text, ends, i)
  BY <1>2 DEF PatternEnds
<1>4. \A i \in 0..n : ends[i] \subseteq 0..l
  BY <1>2 DEF PatternEnds
<1>5. ASSUME NEW i \in 1..n, NEW j \in ends[i]
      PROVE  /\ j \in 0..l /\ \E k \in ends[i - 1] : k \in 0..l /\ k <= j
             /\ pattern[i] = c => j \in 1..l /\ text[j] = c /\ \E k \in ends[i - 1] : k \in 0..l /\ k < j
  <2>1. i \in 0..n /\ i - 1 \in 0..n /\ i # 0
    OBVIOUS
  <2>2. ends[i] = IF pattern[i] = "any" THEN {x \in 0..l : \E k \in ends[i - 1] : k <= x}
                  ELSE {x \in 1..l : text[x] = pattern[i] /\ x - 1 \in ends[i - 1]}
    BY ONLY <1>2, <1>3, <2>1 DEF EndsUpon
  <2>3. \A k \in ends[i - 1] : k \in 0..l
    BY ONLY <1>4, <2>1
  <2>4. CASE pattern[i] = "any"
    BY ONLY <2>2, <2>3, <2>4, j \in ends[i], c # "any"
  <2>5. CASE pattern[i] # "any"
    <3>1. j \in 1..l /\ text[j] = pattern[i] /\ j - 1 \in ends[i - 1]
      BY ONLY <2>2, <2>5, j \in ends[i]
    <3>2. j - 1 < j /\ j - 1 <= j /\ j \in 0..l
      BY ONLY l \in Nat, <3>1
    <3> QED BY ONLY <2>3, <3>1, <3>2
  <2> QED BY ONLY <2>4, <2>5
\* Whatever ends later items, an earlier colon is before it.
<1> DEFINE Seen(i, j) == \E k \in 1..l : k <= j /\ text[k] = c /\ k \in ends[i]
           K(i) == {d \in Nat : i + d <= n => \A j \in ends[i + d] : Seen(i, j)}
<1>6. ASSUME NEW i \in 1..n, pattern[i] = c, NEW d \in Nat PROVE d \in K(i)
  <2>1. 0 \in K(i)
    <3>1. ASSUME NEW j \in ends[i] PROVE Seen(i, j)
      <4>1. j \in 1..l /\ text[j] = c /\ j <= j
        BY ONLY <1>5, <1>6, i \in 1..n, j \in ends[i], l \in Nat
      <4> QED BY ONLY <4>1, j \in ends[i]
    <3>2. i + 0 = i
      OBVIOUS
    <3> QED BY <3>1, <3>2
  <2>2. ASSUME NEW e \in Nat, e \in K(i) PROVE e + 1 \in K(i)
    <3> SUFFICES ASSUME i + (e + 1) <= n, NEW j \in ends[i + (e + 1)] PROVE Seen(i, j)
      OBVIOUS
    <3>1. PICK q : q = i + (e + 1) /\ q \in 1..n /\ q - 1 = i + e /\ i + e <= n
      <4>1. i + (e + 1) \in 1..n /\ (i + (e + 1)) - 1 = i + e /\ i + e <= n
        BY ONLY i \in 1..n, e \in Nat, n \in Nat, i + (e + 1) <= n
      <4> QED BY ONLY <4>1
    <3>2. PICK x \in ends[i + e] : x \in 0..l /\ x <= j /\ j \in 0..l
      <4>1. j \in ends[q]
        BY <3>1
      <4> QED BY ONLY <1>5, <3>1, <4>1
    <3>3. Seen(i, x)
      BY ONLY <2>2, <3>1, x \in ends[i + e]
    <3>4. PICK k \in 1..l : k <= x /\ text[k] = c /\ k \in ends[i]
      BY ONLY <3>3
    <3>5. k <= j
      BY ONLY l \in Nat, <3>2, <3>4, k \in 1..l
    <3> QED BY ONLY <3>4, <3>5
  <2> HIDE DEF K
  <2>3. \A e \in Nat : e \in K(i)
    BY ONLY <2>1, <2>2, Induction
  <2> QED BY <2>3
<1>7. ASSUME NEW i \in 1..n, pattern[i] = c, NEW q \in i..n, NEW j \in ends[q] PROVE Seen(i, j)
  <2>1. PICK d \in Nat : q = i + d /\ i + d <= n
    <3>1. q - i \in Nat /\ q = i + (q - i) /\ i + (q - i) <= n
      OBVIOUS
    <3> QED BY ONLY <3>1
  <2>2. d \in K(i)
    BY ONLY <1>6, <1>7, i \in 1..n, d \in Nat
  <2> QED BY ONLY <2>1, <2>2, j \in ends[q]
<1> SUFFICES ASSUME Matches(pattern, text) PROVE FALSE
  OBVIOUS
<1>e. PICK e \in ends[n] : TRUE
  BY ONLY <1>1, <1>2, Matches(pattern, text)
<1>8. PICK i, j \in 1..n : i < j /\ pattern[i] = c /\ pattern[j] = c
  BY ONLY <1>2, Twice(pattern, c) DEF Twice
<1>9. j \in 1..n /\ n \in j..n /\ j - 1 \in i..n
  BY <1>8
<1>10. PICK y \in 1..l : text[y] = c /\ y \in ends[j]
  <2>1. Seen(j, e)
    BY ONLY <1>7, <1>8, <1>9, e \in ends[n]
  <2> QED BY ONLY <2>1
<1>11. PICK k \in ends[j - 1] : k \in 0..l /\ k < y
  BY ONLY <1>5, <1>8, <1>9, <1>10
<1>12. PICK x \in 1..l : x <= k /\ text[x] = c
  <2>1. Seen(i, k)
    BY ONLY <1>7, <1>8, <1>9, <1>11, i \in 1..n
  <2> QED BY ONLY <2>1
<1>13. x < y
  BY ONLY <1>10, <1>11, <1>12, l \in Nat, x \in 1..l, y \in 1..l
<1> QED BY ONLY <1>2, <1>10, <1>12, <1>13, x \in 1..l, y \in 1..l, ~Twice(text, c) DEF Twice

\* A colon is not replaced away.
LEMMA ReplacedKeeps ==
  ASSUME NEW T, NEW c, NEW text \in Seq(T), NEW old \in Seq(T), old # <<>>, NEW new \in Seq(T),
         ~Lacks(new, c), ~Twice(old, c)
  PROVE  /\ ~Lacks(text, c) => ~Lacks(Replaced(text, old, new), c)
         /\ Twice(text, c) => Twice(Replaced(text, old, new), c)
<1>1. ASSUME NEW s \in Seq(T), ~Lacks(s, c) PROVE ~Lacks(Replaced(s, old, new), c)
  <2>1. CASE Finds(s, old, 1) = {}
    <3>1. Replaced(s, old, new) = s
      BY ONLY s \in Seq(T), old \in Seq(T), old # <<>>, new \in Seq(T), <2>1, ReplacedNowhere
    <3> QED BY ONLY <1>1, <3>1
  <2>2. CASE Finds(s, old, 1) # {}
    <3>1. PICK a, r \in Seq(T) : CutAt(s, old, a, r)
      BY ONLY s \in Seq(T), old \in Seq(T), old # <<>>, <2>2, FirstCut
    <3>2. PICK x \in Seq(T) : x = Replaced(r, old, new) /\ Replaced(s, old, new) = a \o (new \o x)
      <4>1. /\ Replaced(s, old, new) = a \o (new \o Replaced(r, old, new))
            /\ Replaced(r, old, new) \in Seq(T)
        <5>1. ReplacesAt(T, s, old, new, a, r)
          BY <3>1 DEF ReplacesAt
        <5>2. ReplacedThere(T, s, old, new, a, r)
          BY ONLY <5>1, ReplacedFirst
        <5> QED BY ONLY <5>2 DEF ReplacedThere
      <4> QED BY ONLY <4>1
    <3>3. PICK y \in Seq(T) : y = new \o x /\ ~Lacks(y, c)
      <4>1. new \o x \in Seq(T)
        BY ONLY new \in Seq(T), x \in Seq(T)
      <4>2. ~Lacks(new \o x, c)
        BY ONLY new \in Seq(T), x \in Seq(T), ~Lacks(new, c), InEither
      <4> QED BY ONLY <4>1, <4>2
    <3>4. ~Lacks(a \o y, c)
      BY ONLY a \in Seq(T), y \in Seq(T), <3>3, InEither
    <3> QED BY ONLY <3>2, <3>3, <3>4
  <2> QED BY ONLY <2>1, <2>2
<1>2. ASSUME Twice(text, c) PROVE Twice(Replaced(text, old, new), c)
  <2>1. CASE Finds(text, old, 1) = {}
    <3>1. Replaced(text, old, new) = text
      BY ONLY text \in Seq(T), old \in Seq(T), old # <<>>, new \in Seq(T), <2>1, ReplacedNowhere
    <3> QED BY ONLY <1>2, <3>1
  <2>2. CASE Finds(text, old, 1) # {}
    <3>1. PICK a, r \in Seq(T) : CutAt(text, old, a, r)
      BY ONLY text \in Seq(T), old \in Seq(T), old # <<>>, <2>2, FirstCut
    <3>2. PICK x \in Seq(T) : x = Replaced(r, old, new) /\ Replaced(text, old, new) = a \o (new \o x)
      <4>1. /\ Replaced(text, old, new) = a \o (new \o Replaced(r, old, new))
            /\ Replaced(r, old, new) \in Seq(T)
        <5>1. ReplacesAt(T, text, old, new, a, r)
          BY <3>1 DEF ReplacesAt
        <5>2. ReplacedThere(T, text, old, new, a, r)
          BY ONLY <5>1, ReplacedFirst
        <5> QED BY ONLY <5>2 DEF ReplacedThere
      <4> QED BY ONLY <4>1
    <3>3. PICK y \in Seq(T) : y = new \o x /\ ~Lacks(y, c) /\ (~Lacks(x, c) => Twice(y, c))
      <4>1. new \o x \in Seq(T)
        BY ONLY new \in Seq(T), x \in Seq(T)
      <4>2. ~Lacks(new \o x, c) /\ (~Lacks(x, c) => Twice(new \o x, c))
        BY ONLY new \in Seq(T), x \in Seq(T), ~Lacks(new, c), InEither
      <4> QED BY ONLY <4>1, <4>2
    <3>4. Twice(a \o y, c) <=> Twice(a, c) \/ Twice(y, c) \/ (~Lacks(a, c) /\ ~Lacks(y, c))
      BY ONLY a \in Seq(T), y \in Seq(T), InEither
    <3>5. ~Lacks(a, c) \/ ~Lacks(r, c)
      <4>1. PICK b \in Seq(T) : b = a \o old /\ text = b \o r
        <5>1. a \o old \in Seq(T)
          BY ONLY a \in Seq(T), old \in Seq(T)
        <5> QED BY ONLY <3>1, <5>1 DEF CutAt
      <4>2. Twice(b \o r, c) <=> Twice(b, c) \/ Twice(r, c) \/ (~Lacks(b, c) /\ ~Lacks(r, c))
        BY ONLY b \in Seq(T), r \in Seq(T), InEither
      <4>3. Twice(a \o old, c) <=> Twice(a, c) \/ Twice(old, c) \/ (~Lacks(a, c) /\ ~Lacks(old, c))
        BY ONLY a \in Seq(T), old \in Seq(T), InEither
      <4>4. (Twice(a, c) => ~Lacks(a, c)) /\ (Twice(r, c) => ~Lacks(r, c))
        BY DEF Twice, Lacks
      <4> QED BY ONLY <1>2, <4>1, <4>2, <4>3, <4>4, ~Twice(old, c), Zenon
    <3>6. ~Lacks(r, c) => ~Lacks(x, c)
      BY ONLY <1>1, <3>2, r \in Seq(T)
    <3> QED BY ONLY <3>2, <3>3, <3>4, <3>5, <3>6, Zenon
  <2> QED BY ONLY <2>1, <2>2
<1> QED BY ONLY <1>1, <1>2, text \in Seq(T)

\* The letters of the names, in either case, and those of a token's sector.
Letters(T) == T \cup Range(Lowercase) \cup {"main", "A", "L"}

\* A pattern matches what its token names.
LEMMA TokenNames ==
  ASSUME NEW T, ":" \in T, "." \in T, "any" \notin T,
         NEW token \in Seq(T), NEW sector \in Seq(T), NEW action \in Seq(T),
         Lacks(sector, ":"), Lacks(action, ":")
  PROVE  Matches(Lower(Pattern(token)), Lower(Around(sector, ":", action)))
           <=> Names(token, sector, action)
<1>1. PICK c, any : c = ":" /\ any = "any"
  OBVIOUS
<1>2. PICK V : V = Letters(T)
  OBVIOUS
<1>3. /\ c \in V /\ "." \in V /\ any \notin V /\ T \subseteq V /\ Range(Lowercase) \subseteq V
      /\ "main" \in V /\ "A" \in V /\ "L" \in V /\ c # any
  <2>1. any \notin Range(Lowercase)
    BY <1>1, LettersAssumption
  <2> QED BY ONLY <1>1, <1>2, <2>1, ":" \in T, "." \in T, "any" \notin T DEF Letters
<1>4. token \in Seq(V) /\ sector \in Seq(V) /\ action \in Seq(V)
  BY ONLY <1>3, token \in Seq(T), sector \in Seq(T), action \in Seq(T), SeqWider
<1> token \in Seq(V) /\ sector \in Seq(V) /\ action \in Seq(V)
  BY ONLY <1>4
<1>5. Lacks(sector, c) /\ Lacks(action, c)
  BY <1>1
<1>6. PICK u, v \in Seq(V) : u = Lower(sector) /\ v = Lower(action) /\ Lacks(u, c) /\ Lacks(v, c)
                             /\ Len(v) = Len(action)
  <2>1. InLower(V, sector) /\ InLower(V, action)
    BY ONLY <1>3, sector \in Seq(V), action \in Seq(V), LowerFacts
  <2>2. c \in {".", ":", "any"}
    BY <1>1
  <2> QED BY ONLY <1>5, <2>1, <2>2 DEF InLower, Lacks
<1>7. PICK text \in Seq(V) : text = Around(u, c, v) /\ text = Lower(Around(sector, ":", action))
  <2>1. Lower(Around(sector, c, action)) = Around(u, c, v)
    BY ONLY <1>1, <1>3, <1>6, sector \in Seq(V), action \in Seq(V), LowerAround
  <2>2. Around(u, c, v) \in Seq(V)
    BY ONLY <1>3, u \in Seq(V), v \in Seq(V), PartsAbout
  <2> QED BY ONLY <1>1, <2>1, <2>2
\* A pattern without ALL: a sector and what is below its path.
<1>8. ASSUME NEW s \in Seq(V), NEW p \in Seq(V), Lacks(s, c)
      PROVE  Matches(Lower(Around(s, c, p)), text)
               <=> u = Lower(s) /\ Covers(p, action)
  <2>1. PICK x, y \in Seq(V) : x = Lower(s) /\ y = Lower(p) /\ Lacks(x, c)
    <3>1. InLower(V, s) /\ InLower(V, p)
      BY ONLY <1>3, s \in Seq(V), p \in Seq(V), LowerFacts
    <3>2. c \in {".", ":", "any"}
      BY <1>1
    <3> QED BY ONLY <1>8, <3>1, <3>2 DEF InLower, Lacks
  <2>2. Lower(Around(s, c, p)) = Around(x, c, y)
    <3>1. c \in {".", ":", "any"} /\ c \in V /\ Range(Lowercase) \subseteq V
      BY ONLY <1>1, <1>3
    <3>2. Lower(Around(s, c, p)) = Around(Lower(s), c, Lower(p))
      BY ONLY <3>1, s \in Seq(V), p \in Seq(V), LowerAround
    <3> QED BY ONLY <2>1, <3>2
  <2>3. SectorAndAction(V, x, y, u, v)
    BY ONLY <1>1, <1>3, <1>6, <2>1, x \in Seq(V), y \in Seq(V), u \in Seq(V), v \in Seq(V) DEF SectorAndAction
  <2>4. Matches(Around(x, ":", y), Around(u, ":", v)) <=> x = u /\ IsPrefix(Segments(y), Segments(v))
    BY ONLY <2>3, LiteralNames
  <2>5. Covers(p, action) <=> IsPrefix(Segments(y), Segments(v))
    BY ONLY <1>6, <2>1 DEF Covers
  <2> QED BY ONLY <1>1, <1>7, <2>1, <2>2, <2>4, <2>5
\* A pattern with one: from anywhere on.
<1>9. ASSUME NEW s \in Seq(V), NEW r \in Seq(V), Lacks(s, c)
      PROVE  Matches(Lower(Around(s \o <<c>>, any, r)), text)
               <=> /\ u = Lower(s)
                   /\ \E k \in 1..(Len(action) + 1) : Covers(r, SubSeq(action, k, Len(action)))
  <2>1. PICK x, y \in Seq(V) : x = Lower(s) /\ y = Lower(r) /\ Lacks(x, c)
    <3>1. InLower(V, s) /\ InLower(V, r)
      BY ONLY <1>3, s \in Seq(V), r \in Seq(V), LowerFacts
    <3>2. c \in {".", ":", "any"}
      BY <1>1
    <3> QED BY ONLY <1>9, <3>1, <3>2 DEF InLower, Lacks
  <2>2. Lower(Around(s \o <<c>>, any, r)) = Around(x \o <<c>>, any, y)
    <3>1. PICK W : W = V \cup {any}
      OBVIOUS
    <3>2. any \in W /\ V \subseteq W /\ Range(Lowercase) \subseteq W
      BY ONLY <1>3, <3>1
    <3>3. PICK d \in Seq(V) : d = <<c>>
      <4>1. <<c>> \in Seq(V)
        BY ONLY <1>3
      <4> QED BY ONLY <4>1
    <3>4. PICK h \in Seq(V) : h = s \o d
      <4>1. s \o d \in Seq(V)
        BY ONLY s \in Seq(V), d \in Seq(V)
      <4> QED BY ONLY <4>1
    <3>5. h \in Seq(W) /\ r \in Seq(W)
      BY ONLY <3>2, h \in Seq(V), r \in Seq(V), SeqWider
    <3>6. Lower(Around(h, any, r)) = Around(Lower(h), any, y)
      BY ONLY <1>1, <2>1, <3>2, <3>5, LowerAround
    <3>7. Lower(h) = x \o Lower(d)
      BY ONLY <1>3, <2>1, <3>4, s \in Seq(V), d \in Seq(V), LowerConcat
    <3>8. Lower(d) = d
      BY ONLY <1>1, <3>3, LowerOne
    <3> QED BY ONLY <3>3, <3>4, <3>6, <3>7, <3>8
  <2>3. SectorAndAction(V, x, y, u, v)
    BY ONLY <1>1, <1>3, <1>6, <2>1, x \in Seq(V), y \in Seq(V), u \in Seq(V), v \in Seq(V) DEF SectorAndAction
  <2>4. Matches(Around(x \o <<":">>, "any", y), Around(u, ":", v))
          <=> /\ x = u
              /\ \E k \in 1..(Len(v) + 1) : IsPrefix(Segments(y), Segments(SubSeq(v, k, Len(v))))
    BY ONLY <2>3, AnyNames
  <2>5. ASSUME NEW k \in 1..(Len(action) + 1)
        PROVE  Covers(r, SubSeq(action, k, Len(action)))
                 <=> IsPrefix(Segments(y), Segments(SubSeq(v, k, Len(v))))
    <3>1. Lower(SubSeq(action, k, Len(action))) = SubSeq(v, k, Len(v))
      BY ONLY <1>3, <1>6, action \in Seq(V), k \in 1..(Len(action) + 1), LowerPart
    <3> QED BY ONLY <2>1, <3>1 DEF Covers
  <2> QED BY ONLY <1>1, <1>6, <1>7, <2>1, <2>2, <2>4, <2>5
\* What is replaced, and by what.
<1>10. PICK all, old, new :
         /\ all \in Seq(V) /\ all = AllLetters /\ Len(all) = 3 /\ Lacks(all, c)
         /\ old \in Seq(V) /\ old = <<":">> \o AllLetters /\ old = <<c>> \o all
         /\ Len(old) = 4 /\ old[1] = c /\ \A i \in 1..3 : old[1 + i] = all[i]
         /\ new = <<":", "any">> /\ new = <<c>> \o <<any>>
  <2>1. AllLetters \in Seq(V) /\ Len(AllLetters) = 3 /\ \A i \in 1..3 : AllLetters[i] # c
    <3>1. PICK a, l : a = "A" /\ l = "L" /\ a # c /\ l # c
      BY <1>1
    <3>2. <<a, l, l>> \in Seq(V) /\ Len(<<a, l, l>>) = 3
          /\ <<a, l, l>>[1] = a /\ <<a, l, l>>[2] = l /\ <<a, l, l>>[3] = l
      BY ONLY <1>3, <3>1
    <3>3. \A i \in 1..3 : i = 1 \/ i = 2 \/ i = 3
      OBVIOUS
    <3>4. \A i \in 1..3 : <<a, l, l>>[i] # c
      BY ONLY <3>1, <3>2, <3>3
    <3> QED BY ONLY <3>1, <3>2, <3>4 DEF AllLetters
  <2>2. PICK all \in Seq(V) : all = AllLetters
    BY ONLY <2>1
  <2>3. PICK d \in Seq(V) : d = <<c>> /\ Len(d) = 1 /\ d[1] = c
    <3>1. <<c>> \in Seq(V) /\ Len(<<c>>) = 1 /\ <<c>>[1] = c
      BY ONLY <1>3
    <3> QED BY ONLY <3>1
  <2>4. PICK old : old = d \o all
    OBVIOUS
  <2>5. /\ old \in Seq(V) /\ Len(old) = 1 + 3 /\ \A i \in 1..1 : old[i] = d[i]
        /\ \A i \in 1..3 : old[1 + i] = all[i]
    <3>1. /\ old \in Seq(V) /\ Len(old) = Len(d) + Len(all) /\ \A i \in 1..Len(d) : old[i] = d[i]
          /\ \A i \in 1..Len(all) : old[Len(d) + i] = all[i]
      BY ONLY <2>4, all \in Seq(V), d \in Seq(V), ConcatParts
    <3> QED BY ONLY <2>1, <2>2, <2>3, <3>1
  <2>6. 1 + 3 = 4 /\ 1 \in 1..1
    OBVIOUS
  <2>7. old[1] = c
    BY ONLY <2>3, <2>5, <2>6
  <2>8. <<c, any>> = <<c>> \o <<any>>
    <3>1. PICK W : W = {c, any}
      OBVIOUS
    <3>2. c \in W /\ any \in W
      BY ONLY <3>1
    <3> QED BY ONLY <3>2, TwoParts
  <2>9. Lacks(all, c)
    BY ONLY <2>1, <2>2 DEF Lacks
  <2>10. /\ old \in Seq(V) /\ old = <<":">> \o AllLetters /\ old = <<c>> \o all
         /\ Len(old) = 4 /\ \A i \in 1..3 : old[1 + i] = all[i]
    BY ONLY <1>1, <2>2, <2>3, <2>4, <2>5, <2>6
  <2>11. PICK new : new = <<":", "any">> /\ new = <<c>> \o <<any>>
    BY ONLY <1>1, <2>8
  <2> QED BY ONLY <2>1, <2>2, <2>7, <2>9, <2>10, <2>11
<1> all \in Seq(V) /\ old \in Seq(V)
  BY ONLY <1>10
<1>11. old # <<>>
  <2>1. Len(<<>>) = 0
    OBVIOUS
  <2>2. 0 # 4
    OBVIOUS
  <2> QED BY ONLY <1>10, <2>1, <2>2
<1>12. CASE Lacks(token, c)
  <2>1. PICK s \in Seq(V) : s = <<"main">> /\ Lacks(s, c)
    <3>1. <<"main">> \in Seq(V) /\ Len(<<"main">>) = 1 /\ <<"main">>[1] = "main"
      BY ONLY <1>3
    <3>2. "main" # c /\ \A i \in 1..1 : i = 1
      BY <1>1
    <3>3. PICK s \in Seq(V) : s = <<"main">> /\ Len(s) = 1 /\ s[1] = "main"
      BY ONLY <3>1
    <3> QED BY ONLY <3>2, <3>3 DEF Lacks
  <2>2. Pattern(token) = Around(s, c, token)
    <3>1. c \notin Range(token)
      <4>1. DOMAIN token = 1..Len(token) /\ \A i \in 1..Len(token) : token[i] # c
        BY <1>12 DEF Lacks
      <4> QED BY ONLY <4>1 DEF Range
    <3>2. Pattern(token) = <<"main", c>> \o token
      BY ONLY <1>1, <3>1 DEF Pattern
    <3>3. <<"main", c>> = <<"main">> \o <<c>>
      BY ONLY <1>3, TwoParts
    <3> QED BY ONLY <2>1, <3>2, <3>3 DEF Around
  <2>3. Split(token, <<c>>) = <<token>>
    BY ONLY <1>3, <1>12, token \in Seq(V), SplitNowhere DEF Lacks
  <2>4. Names(token, sector, action) <=> u = Lower(s) /\ Covers(token, action)
    <3>1. Len(<<token>>) = 1 /\ Last(<<token>>) = token /\ 1 <= 2 /\ 1 # 2
      BY DEF Last
    <3>2. PICK parts : parts = <<token>>
      OBVIOUS
    <3>3. Len(parts) = 1 /\ Last(parts) = token /\ Split(token, <<":">>) = parts
      BY ONLY <1>1, <2>3, <3>1, <3>2
    <3>4. Len(parts) <= 2 /\ Len(parts) # 2
      BY ONLY <3>1, <3>3
    <3>5. PICK z : z = IF Len(parts) = 1 THEN <<"main">> ELSE parts[1]
      OBVIOUS
    <3>6. z = s
      BY ONLY <2>1, <3>3, <3>5
    <3>7. Names(token, sector, action) <=> Lower(sector) = Lower(z) /\ Covers(token, action)
      BY ONLY <3>3, <3>4, <3>5 DEF Names
    <3> QED BY ONLY <1>6, <3>6, <3>7
  <2>5. Matches(Lower(Around(s, c, token)), text) <=> u = Lower(s) /\ Covers(token, action)
    BY ONLY <1>8, <2>1, s \in Seq(V), token \in Seq(V)
  <2> QED BY ONLY <1>7, <2>2, <2>4, <2>5
<1>13. ASSUME NEW s \in Seq(V), NEW p \in Seq(V), token = Around(s, c, p), Lacks(s, c),
              About(token, s, c, p)
       PROVE  /\ Pattern(token) = Replaced(token, old, new)
              /\ Split(token, <<c>>) = <<s>> \o Split(p, <<c>>)
  <2>1. c \in Range(token)
    <3>1. Len(s) + 1 \in DOMAIN token
      <4>1. \A x : x = Len(s) + 1 + Len(p) => Len(s) + 1 \in 1..x
        OBVIOUS
      <4> QED BY ONLY <1>13, <4>1, token \in Seq(V) DEF About
    <3> QED BY ONLY <1>13, <3>1 DEF About, Range
  <2>2. Pattern(token) = Replaced(token, old, new)
    BY ONLY <1>1, <1>10, <2>1 DEF Pattern
  <2>3. Split(token, <<c>>) = <<s>> \o Split(p, <<c>>)
    <3>1. SplitsAt(s, c, p)
      BY ONLY <1>3, <1>13, s \in Seq(V), p \in Seq(V), SplitAround
    <3> QED BY ONLY <1>13, <3>1 DEF SplitsAt
  <2> QED BY ONLY <2>2, <2>3
<1>14. ASSUME NEW s \in Seq(V), NEW p \in Seq(V), token = Around(s, c, p), Lacks(s, c), Lacks(p, c)
       PROVE  Matches(Lower(Pattern(token)), text) <=> Names(token, sector, action)
  <2>1. About(token, s, c, p)
    BY ONLY <1>3, <1>14, s \in Seq(V), p \in Seq(V), PartsAbout
  <2>2. Pattern(token) = Replaced(token, old, new)
    BY ONLY <1>13, <1>14, <2>1, s \in Seq(V), p \in Seq(V)
  <2>3. Split(token, <<c>>) = <<s, p>>
    <3>1. Split(token, <<c>>) = <<s>> \o Split(p, <<c>>)
      BY ONLY <1>13, <1>14, <2>1, s \in Seq(V), p \in Seq(V)
    <3>2. Split(p, <<c>>) = <<p>>
      BY ONLY <1>3, <1>14, p \in Seq(V), SplitNowhere DEF Lacks
    <3>3. PICK S : S = Seq(V)
      OBVIOUS
    <3>4. <<s, p>> = <<s>> \o <<p>>
      BY ONLY <3>3, s \in Seq(V), p \in Seq(V), TwoParts
    <3> QED BY ONLY <3>1, <3>2, <3>4
  <2>4. Names(token, sector, action)
          <=> /\ u = Lower(s)
              /\ IF IsPrefix(all, p)
                 THEN \E k \in 1..(Len(action) + 1) :
                        Covers(SubSeq(p, 4, Len(p)), SubSeq(action, k, Len(action)))
                 ELSE Covers(p, action)
    <3>1. Len(<<s, p>>) = 2 /\ Last(<<s, p>>) = p /\ <<s, p>>[1] = s /\ 2 <= 2 /\ 2 # 1
      BY DEF Last
    <3>2. PICK parts : parts = <<s, p>>
      OBVIOUS
    <3>3. Len(parts) = 2 /\ Last(parts) = p /\ parts[1] = s /\ Split(token, <<":">>) = parts
      BY ONLY <1>1, <2>3, <3>1, <3>2
    <3>4. Len(parts) <= 2 /\ Len(parts) # 1
      BY ONLY <3>1, <3>3
    <3> QED BY ONLY <1>6, <1>10, <3>3, <3>4 DEF Names
  <2>5. PICK m, n \in Nat : m = Len(s) /\ n = Len(p)
    OBVIOUS
  <2>6. /\ Len(token) = m + 1 + n /\ token[m + 1] = c
        /\ \A i \in 1..m : token[i] = s[i] /\ s[i] # c
        /\ \A i \in 1..n : token[m + 1 + i] = p[i] /\ p[i] # c
    BY ONLY <1>14, <2>1, <2>5 DEF About, Lacks
  <2>7. \A j \in 1..(m + 1 + n) : token[j] = c => j = m + 1
    <3> SUFFICES ASSUME NEW j \in 1..(m + 1 + n), j # m + 1 PROVE token[j] # c
      OBVIOUS
    <3>1. CASE j \in 1..m
      BY ONLY <2>6, <3>1
    <3>2. CASE j \notin 1..m
      <4>1. j - (m + 1) \in 1..n /\ j = m + 1 + (j - (m + 1))
        BY ONLY <3>2, j \in 1..(m + 1 + n), j # m + 1, m \in Nat, n \in Nat
      <4>2. PICK i \in 1..n : j = m + 1 + i
        BY ONLY <4>1
      <4> QED BY ONLY <2>6, <4>2
    <3> QED BY ONLY <3>1, <3>2
\* Only at the colon can it be replaced.
  <2>8. ASSUME NEW j \in Nat, j >= 1, j + 4 - 1 <= m + 1 + n, SubSeq(token, j, j + 4 - 1) = old
        PROVE  j = m + 1 /\ IsPrefix(all, p)
    <3>1. \A i \in 1..4 : token[j + i - 1] = old[i]
      <4>1. j + Len(old) - 1 <= Len(token) /\ SubSeq(token, j, j + Len(old) - 1) = old
        BY ONLY <1>10, <2>6, <2>8
      <4>2. \A i \in 1..Len(old) : token[j + i - 1] = old[i]
        <5>1. FoundAt(V, token, old, j)
          BY ONLY token \in Seq(V), old \in Seq(V), j \in Nat, <2>8, <4>1 DEF FoundAt
        <5> QED BY ONLY <5>1, FoundItems
      <4> QED BY ONLY <1>10, <4>2
    <3>2. 1 \in 1..4 /\ j + 1 - 1 = j /\ j \in 1..(m + 1 + n)
      BY ONLY <2>8, m \in Nat, n \in Nat, j \in Nat
    <3>3. token[j] = c
      BY ONLY <1>10, <3>1, <3>2
    <3>4. j = m + 1
      BY ONLY <2>7, <3>2, <3>3
    <3>5. 3 <= n
      BY ONLY <2>8, <3>4, m \in Nat, n \in Nat
    <3>6. ASSUME NEW i \in 1..3 PROVE p[i] = all[i]
      <4>1. 1 + i \in 1..4 /\ j + (1 + i) - 1 = m + 1 + i /\ i \in 1..n
        BY ONLY <3>4, <3>5, i \in 1..3, n \in Nat, m \in Nat
      <4>2. token[m + 1 + i] = old[1 + i]
        BY ONLY <3>1, <4>1
      <4> QED BY ONLY <1>10, <2>6, <4>1, <4>2, i \in 1..3
    <3>7. Begins(all, p)
      BY ONLY <1>10, <2>5, <3>5, <3>6 DEF Begins
    <3>8. IsPrefix(all, p)
      BY ONLY <3>7, all \in Seq(V), p \in Seq(V), PrefixBegins
    <3> QED BY ONLY <3>4, <3>8
  <2>9. CASE ~IsPrefix(all, p)
    <3>1. Finds(token, old, 1) = {}
      <4> SUFFICES ASSUME NEW j \in Finds(token, old, 1) PROVE FALSE
        OBVIOUS
      <4>1. j \in 1..((m + 1 + n) - 4 + 1) /\ SubSeq(token, j, j + 4 - 1) = old
        BY ONLY <1>10, <2>6, j \in Finds(token, old, 1) DEF Finds
      <4>2. j \in Nat /\ j >= 1 /\ j + 4 - 1 <= m + 1 + n
        BY ONLY <4>1, m \in Nat, n \in Nat
      <4> QED BY ONLY <2>8, <2>9, <4>1, <4>2
    <3>2. PICK W : W = V \cup {any}
      OBVIOUS
    <3>3. V \subseteq W /\ c \in W /\ any \in W
      BY ONLY <1>3, <3>2
    <3>4. token \in Seq(W) /\ old \in Seq(W)
      BY ONLY <3>3, token \in Seq(V), old \in Seq(V), SeqWider
    <3>5. new \in Seq(W)
      <4>1. <<c, any>> \in Seq(W)
        BY ONLY <3>3
      <4> QED BY ONLY <1>1, <1>10, <4>1
    <3>6. Replaced(token, old, new) = token
      BY ONLY <1>11, <3>1, <3>4, <3>5, ReplacedNowhere
    <3>7. Matches(Lower(token), text) <=> u = Lower(s) /\ Covers(p, action)
      BY ONLY <1>8, <1>14, s \in Seq(V), p \in Seq(V)
    <3> QED BY ONLY <2>2, <2>4, <2>9, <3>6, <3>7
  <2>10. CASE IsPrefix(all, p)
    <3>1. 3 <= n /\ SubSeq(p, 1, 3) = all
      <4>1. IsPrefix(all, p) => Len(all) <= Len(p) /\ SubSeq(all, 1, Len(all)) = SubSeq(p, 1, Len(all))
        BY ONLY all \in Seq(V), p \in Seq(V) DEF IsPrefix
      <4>2. SubSeq(all, 1, Len(all)) = all
        BY ONLY all \in Seq(V), SubSeqAll
      <4> QED BY ONLY <1>10, <2>5, <2>10, <4>1, <4>2
    <3>2. PICK r \in Seq(V) : r = SubSeq(p, 4, n) /\ p = all \o r /\ Len(r) = n - 3
      <4>1. 3 \in 0..Len(p) /\ 3 + 1 = 4
        BY ONLY <2>5, <3>1
      <4>2. /\ SubSeq(p, 3 + 1, Len(p)) \in Seq(V) /\ Len(SubSeq(p, 3 + 1, Len(p))) = Len(p) - 3
            /\ p = SubSeq(p, 1, 3) \o SubSeq(p, 3 + 1, Len(p))
        BY ONLY <4>1, p \in Seq(V), Halves
      <4> QED BY ONLY <2>5, <3>1, <4>1, <4>2
    <3>3. token = (s \o old) \o r
      <4>1. PICK d \in Seq(V) : d = <<c>>
        <5>1. <<c>> \in Seq(V)
          BY ONLY <1>3
        <5> QED BY ONLY <5>1
      <4>2. (s \o d) \o (all \o r) = s \o (d \o (all \o r))
        <5>1. all \o r \in Seq(V)
          BY ONLY all \in Seq(V), r \in Seq(V)
        <5>2. InARow(s, d, all \o r)
          BY ONLY s \in Seq(V), d \in Seq(V), <5>1, RowFacts
        <5> QED BY ONLY <5>2 DEF InARow
      <4>3. (d \o all) \o r = d \o (all \o r)
        <5>1. InARow(d, all, r)
          BY ONLY d \in Seq(V), all \in Seq(V), r \in Seq(V), RowFacts
        <5> QED BY ONLY <5>1 DEF InARow
      <4>4. (s \o old) \o r = s \o (old \o r)
        <5>1. InARow(s, old, r)
          BY ONLY s \in Seq(V), old \in Seq(V), r \in Seq(V), RowFacts
        <5> QED BY ONLY <5>1 DEF InARow
      <4> QED BY ONLY <1>10, <1>14, <3>2, <4>1, <4>2, <4>3, <4>4 DEF Around
    <3>4. CutAt(token, old, s, r)
      <4>1. Len(token) = Len(s) + Len(old) + Len(r)
        <5>1. m + 1 + n = m + 4 + (n - 3)
          OBVIOUS
        <5> QED BY ONLY <1>10, <2>5, <2>6, <3>2, <5>1
      <4>2. ASSUME NEW j \in 1..Len(s) PROVE SubSeq(token, j, j + Len(old) - 1) # old
        <5> SUFFICES ASSUME SubSeq(token, j, j + Len(old) - 1) = old PROVE FALSE
          OBVIOUS
        <5>1. j \in Nat /\ j >= 1 /\ j + 4 - 1 <= m + 1 + n /\ j # m + 1
          BY ONLY <2>5, <3>1, j \in 1..Len(s), m \in Nat, n \in Nat
        <5>2. SubSeq(token, j, j + 4 - 1) = old
          BY ONLY <1>10, SubSeq(token, j, j + Len(old) - 1) = old
        <5> QED BY ONLY <2>8, <5>1, <5>2
      <4> QED BY ONLY <3>3, <4>1, <4>2 DEF CutAt
    <3>5. Lacks(r, c)
      <4>1. Lacks(all \o r, c) <=> Lacks(all, c) /\ Lacks(r, c)
        BY ONLY all \in Seq(V), r \in Seq(V), InEither
      <4> QED BY ONLY <1>14, <3>2, <4>1
    <3>6. Finds(r, old, 1) = {}
      <4> SUFFICES ASSUME NEW j \in Finds(r, old, 1) PROVE FALSE
        OBVIOUS
      <4>1. PICK k \in Nat : k = Len(r)
        BY ONLY r \in Seq(V)
      <4>2. j \in 1..(k - 4 + 1) /\ SubSeq(r, j, j + Len(old) - 1) = old
        BY ONLY <1>10, <4>1, j \in Finds(r, old, 1) DEF Finds
      <4>3. j \in Nat /\ j >= 1 /\ j + 4 - 1 <= k /\ j \in 1..k /\ 1 \in 1..4 /\ j + 1 - 1 = j
        BY ONLY <4>2, k \in Nat
      <4>4. j + Len(old) - 1 <= Len(r)
        BY ONLY <1>10, <4>1, <4>3
      <4>5. \A i \in 1..Len(old) : r[j + i - 1] = old[i]
        <5>1. FoundAt(V, r, old, j)
          BY ONLY r \in Seq(V), old \in Seq(V), <4>2, <4>3, <4>4 DEF FoundAt
        <5> QED BY ONLY <5>1, FoundItems
      <4>6. r[j] = c
        BY ONLY <1>10, <4>3, <4>5
      <4> QED BY ONLY <3>5, <4>1, <4>3, <4>6 DEF Lacks
    <3>7. PICK W : W = V \cup {any}
      OBVIOUS
    <3>8. V \subseteq W /\ c \in W /\ any \in W
      BY ONLY <1>3, <3>7
    <3>9. token \in Seq(W) /\ old \in Seq(W) /\ s \in Seq(W) /\ r \in Seq(W)
      BY ONLY <3>8, token \in Seq(V), old \in Seq(V), s \in Seq(V), r \in Seq(V), SeqWider
    <3>10. PICK e, f \in Seq(W) : e = <<c>> /\ f = <<any>> /\ new = e \o f /\ new \in Seq(W)
      <4>1. PICK e, f \in Seq(W) : e = <<c>> /\ f = <<any>>
        <5>1. <<c>> \in Seq(W) /\ <<any>> \in Seq(W)
          BY ONLY <3>8
        <5> QED BY ONLY <5>1
      <4>2. e \o f \in Seq(W)
        BY ONLY e \in Seq(W), f \in Seq(W)
      <4> QED BY ONLY <1>10, <4>1, <4>2
    <3>11. Replaced(r, old, new) = r
      BY ONLY <1>11, <3>6, <3>9, <3>10, ReplacedNowhere
    <3>12. Replaced(token, old, new) = s \o (new \o r)
      <4>1. Replaced(token, old, new) = s \o (new \o Replaced(r, old, new))
        <5>1. ReplacesAt(W, token, old, new, s, r)
          BY ONLY <1>11, <3>4, <3>9, <3>10 DEF ReplacesAt
        <5>2. ReplacedThere(W, token, old, new, s, r)
          BY ONLY <5>1, ReplacedFirst
        <5> QED BY ONLY <5>2 DEF ReplacedThere
      <4> QED BY ONLY <3>11, <4>1
    <3>13. s \o (new \o r) = Around(s \o <<c>>, any, r)
      <4>1. (e \o f) \o r = e \o (f \o r)
        <5>1. InARow(e, f, r)
          BY ONLY e \in Seq(W), f \in Seq(W), <3>9, RowFacts
        <5> QED BY ONLY <5>1 DEF InARow
      <4>2. PICK x \in Seq(W) : x = f \o r
        <5>1. f \o r \in Seq(W)
          BY ONLY f \in Seq(W), <3>9
        <5> QED BY ONLY <5>1
      <4>3. PICK h \in Seq(W) : h = s \o e
        <5>1. s \o e \in Seq(W)
          BY ONLY e \in Seq(W), <3>9
        <5> QED BY ONLY <5>1
      <4>4. (s \o e) \o x = s \o (e \o x)
        <5>1. InARow(s, e, x)
          BY ONLY e \in Seq(W), x \in Seq(W), <3>9, RowFacts
        <5> QED BY ONLY <5>1 DEF InARow
      <4>5. (h \o f) \o r = h \o (f \o r)
        <5>1. InARow(h, f, r)
          BY ONLY h \in Seq(W), f \in Seq(W), <3>9, RowFacts
        <5> QED BY ONLY <5>1 DEF InARow
      <4> QED BY ONLY <3>10, <4>1, <4>2, <4>3, <4>4, <4>5 DEF Around
    <3>14. Matches(Lower(Around(s \o <<c>>, any, r)), text)
             <=> /\ u = Lower(s)
                 /\ \E k \in 1..(Len(action) + 1) : Covers(r, SubSeq(action, k, Len(action)))
      BY ONLY <1>9, <1>14, s \in Seq(V), r \in Seq(V)
    <3> QED BY ONLY <2>2, <2>4, <2>5, <2>10, <3>2, <3>12, <3>13, <3>14
  <2> QED BY ONLY <2>9, <2>10
\* With another colon it matches nothing, and names nothing.
<1>15. ASSUME NEW s \in Seq(V), NEW p \in Seq(V), token = Around(s, c, p), Lacks(s, c), ~Lacks(p, c)
       PROVE  Matches(Lower(Pattern(token)), text) <=> Names(token, sector, action)
  <2>1. About(token, s, c, p)
    BY ONLY <1>3, <1>15, s \in Seq(V), p \in Seq(V), PartsAbout
  <2>2. Pattern(token) = Replaced(token, old, new) /\ Split(token, <<c>>) = <<s>> \o Split(p, <<c>>)
    BY ONLY <1>13, <1>15, <2>1, s \in Seq(V), p \in Seq(V)
  <2>3. ~Names(token, sector, action)
    <3>1. PICK q, r \in Seq(V) : p = Around(q, c, r) /\ Lacks(q, c)
      BY ONLY <1>3, <1>15, p \in Seq(V), FirstToken
    <3>2. Split(p, <<c>>) = <<q>> \o Split(r, <<c>>)
      <4>1. SplitsAt(q, c, r)
        BY ONLY <1>3, <3>1, q \in Seq(V), r \in Seq(V), SplitAround
      <4> QED BY ONLY <3>1, <4>1 DEF SplitsAt
    <3>3. PICK S, t : S = Seq(V) /\ t = Split(r, <<c>>)
      OBVIOUS
    <3>4. t \in Seq(S) /\ t # <<>> /\ s \in S /\ q \in S
      BY ONLY <1>3, <3>3, s \in Seq(V), q \in Seq(V), r \in Seq(V), SplitParts
    <3>5. PICK x \in Seq(S) : x = <<q>> \o t /\ Len(x) >= 2
      <4>1. <<q>> \o t \in Seq(S) /\ Len(<<q>> \o t) >= 2
        BY ONLY <3>4
      <4> QED BY ONLY <4>1
    <3>6. Len(<<s>> \o x) = 1 + Len(x)
      BY ONLY <3>4, x \in Seq(S)
    <3>7. PICK parts : parts = Split(token, <<":">>)
      OBVIOUS
    <3>8. parts = <<s>> \o x
      BY ONLY <1>1, <2>2, <3>2, <3>3, <3>5, <3>7
    <3>9. ~(1 + Len(x) <= 2)
      BY ONLY <3>5, x \in Seq(S)
    <3>10. ~(Len(parts) <= 2)
      BY ONLY <3>6, <3>8, <3>9
    <3> QED BY ONLY <3>7, <3>10 DEF Names
  <2>4. PICK W : W = V \cup {any}
    OBVIOUS
  <2>5. V \subseteq W /\ c \in W /\ any \in W /\ Range(Lowercase) \subseteq W
    BY ONLY <1>3, <2>4
  <2>6. token \in Seq(W) /\ old \in Seq(W)
    BY ONLY <2>5, token \in Seq(V), old \in Seq(V), SeqWider
  <2>7. new \in Seq(W) /\ ~Lacks(new, c)
    <3>1. <<c, any>> \in Seq(W) /\ Len(<<c, any>>) = 2 /\ <<c, any>>[1] = c /\ 1 \in 1..2
      BY ONLY <2>5
    <3> QED BY ONLY <1>1, <1>10, <3>1 DEF Lacks
  <2>8. ~Twice(old, c)
    <3>1. ASSUME NEW j \in 1..4, old[j] = c PROVE j = 1
      <4> SUFFICES ASSUME j # 1 PROVE FALSE
        OBVIOUS
      <4>1. j - 1 \in 1..3 /\ j = 1 + (j - 1)
        BY ONLY j \in 1..4, j # 1
      <4>2. old[j] = all[j - 1]
        BY ONLY <1>10, <4>1
      <4> QED BY ONLY <1>10, <3>1, <4>1, <4>2 DEF Lacks
    <3>2. \A i, j \in 1..4 : i < j => j # 1
      OBVIOUS
    <3> QED BY ONLY <1>10, <3>1, <3>2 DEF Twice
  <2>9. Twice(token, c)
    <3>1. PICK d, b \in Seq(V) : d = <<c>> /\ b = s \o d
      <4>1. <<c>> \in Seq(V)
        BY ONLY <1>3
      <4>2. \A d \in Seq(V) : s \o d \in Seq(V)
        OBVIOUS
      <4> QED BY ONLY <4>1, <4>2
    <3>2. ~Lacks(d, c)
      <4>1. Len(<<c>>) = 1 /\ <<c>>[1] = c /\ 1 \in 1..1
        OBVIOUS
      <4> QED BY ONLY <3>1, <4>1 DEF Lacks
    <3>3. ~Lacks(b, c)
      BY ONLY <3>1, <3>2, s \in Seq(V), d \in Seq(V), InEither
    <3>4. Twice(b \o p, c)
      BY ONLY <1>15, <3>3, b \in Seq(V), p \in Seq(V), InEither
    <3> QED BY ONLY <1>15, <3>1, <3>4 DEF Around
  <2>10. PICK x \in Seq(W) : x = Replaced(token, old, new) /\ Twice(x, c)
    <3>1. Twice(Replaced(token, old, new), c)
      BY ONLY <1>11, <2>6, <2>7, <2>8, <2>9, ReplacedKeeps
    <3>2. Replaced(token, old, new) \in Seq(W)
      BY ONLY <1>11, <2>6, <2>7, ReplacedTyped
    <3> QED BY ONLY <3>1, <3>2
  <2>11. PICK y \in Seq(W) : y = Lower(x) /\ Twice(y, c)
    <3>1. InLower(W, x)
      BY ONLY <2>5, x \in Seq(W), LowerFacts
    <3>2. c \in {".", ":", "any"}
      BY <1>1
    <3>3. PICK i, j \in 1..Len(x) : i < j /\ x[i] = c /\ x[j] = c
      BY ONLY <2>10 DEF Twice
    <3>4. PICK y \in Seq(W) : y = Lower(x) /\ Len(y) = Len(x) /\ y[i] = c /\ y[j] = c
      BY ONLY <3>1, <3>2, <3>3, i \in 1..Len(x), j \in 1..Len(x) DEF InLower
    <3>5. Twice(y, c)
      BY ONLY <3>3, <3>4, i \in 1..Len(x), j \in 1..Len(x) DEF Twice
    <3> QED BY ONLY <3>4, <3>5
  <2>12. ~Twice(text, c)
    <3>1. PICK d, b \in Seq(V) : d = <<c>> /\ b = u \o d /\ text = b \o v
      <4>1. <<c>> \in Seq(V)
        BY ONLY <1>3
      <4>2. \A d \in Seq(V) : u \o d \in Seq(V)
        OBVIOUS
      <4>3. text = (u \o <<c>>) \o v
        BY ONLY <1>7 DEF Around
      <4> QED BY ONLY <4>1, <4>2, <4>3
    <3>2. ~Twice(d, c)
      <4>1. Len(<<c>>) = 1 /\ \A i, j \in 1..1 : ~(i < j)
        OBVIOUS
      <4> QED BY ONLY <3>1, <4>1 DEF Twice
    <3>3. ~Twice(u, c) /\ ~Twice(v, c)
      BY ONLY <1>6 DEF Twice, Lacks
    <3>4. ~Twice(b, c)
      BY ONLY <1>6, <3>1, <3>2, <3>3, u \in Seq(V), d \in Seq(V), InEither
    <3> QED BY ONLY <1>6, <3>1, <3>3, <3>4, b \in Seq(V), v \in Seq(V), InEither
  <2>13. ~Matches(y, text)
    BY ONLY <1>1, <1>3, <2>11, <2>12, y \in Seq(W), text \in Seq(V), TwiceNever
  <2> QED BY ONLY <2>2, <2>3, <2>10, <2>11, <2>13
<1>16. CASE ~Lacks(token, c)
  <2>1. PICK s, p \in Seq(V) : token = Around(s, c, p) /\ Lacks(s, c)
    BY ONLY <1>3, <1>16, token \in Seq(V), FirstToken
  <2>2. CASE Lacks(p, c)
    BY ONLY <1>7, <1>14, <2>1, <2>2, s \in Seq(V), p \in Seq(V)
  <2>3. CASE ~Lacks(p, c)
    BY ONLY <1>7, <1>15, <2>1, <2>3, s \in Seq(V), p \in Seq(V)
  <2> QED BY ONLY <2>2, <2>3
<1> QED BY ONLY <1>7, <1>12, <1>16

\* Of the entries of a certificate the last one counts.
EntriesOf(content, fp) ==
  {i \in DOMAIN content : content[i].is = "entry" /\ content[i].fingerprint = fp}

LEMMA LastEntry ==
  ASSUME NEW U, NEW content \in Seq(U), NEW fingerprint,
         NEW mine, mine = EntriesOf(content, fingerprint), mine # {}
  PROVE  \E i \in mine : /\ \A j \in mine : j <= i
                         /\ \A k \in mine : (\A j \in mine : j <= k) => k = i
                         /\ fingerprint \in DOMAIN Entries(content)
                         /\ Entries(content)[fingerprint] = {Pattern(token) : token \in content[i].tokens}
<1>1. mine \subseteq 1..Len(content) /\ Len(content) \in Nat
  BY DEF EntriesOf
<1>2. Max(mine) \in mine /\ \A j \in mine : j <= Max(mine)
  BY ONLY <1>1, mine # {}, MaxOf
<1>3. PICK i \in mine : i = Max(mine)
  BY ONLY <1>2
<1>4. \A k \in mine : (\A j \in mine : j <= k) => k = i
  <2> SUFFICES ASSUME NEW k \in mine, \A j \in mine : j <= k PROVE k = i
    OBVIOUS
  <2>1. k \in Nat /\ i \in Nat
    BY ONLY <1>1, k \in mine, i \in mine
  <2>2. i <= k /\ k <= i
    BY <1>2, <1>3
  <2> QED BY ONLY <2>1, <2>2
<1>5. PICK all : all = {content[j].fingerprint : j \in {k \in DOMAIN content : content[k].is = "entry"}}
  OBVIOUS
<1>6. fingerprint \in all
  BY <1>5 DEF EntriesOf
<1>7. Entries(content)
        = [fp \in all |-> {Pattern(token) : token \in content[Max(EntriesOf(content, fp))].tokens}]
  BY ONLY <1>5 DEF Entries, EntriesOf
<1>8. DOMAIN Entries(content) = all
  BY ONLY <1>7
<1>9. Entries(content)[fingerprint] = {Pattern(token) : token \in content[Max(mine)].tokens}
  BY ONLY <1>6, <1>7, mine = EntriesOf(content, fingerprint)
<1> QED BY ONLY <1>2, <1>3, <1>4, <1>6, <1>8, <1>9

\* An action is authorized as the last line of its certificate means, for every file and
\* every token in it, with ALL or without and whatever goes on after ALL
\* (authorized_services.rs:107-150).
THEOREM AuthorizedAsMeant ==
  ASSUME NEW T, ":" \in T, "." \in T, "_meta" \in T, "any" \notin T,
         NEW U, NEW content \in Seq(U),
         \A i \in DOMAIN content : content[i].is = "entry" => content[i].tokens \subseteq Seq(T),
         NEW fingerprint, NEW sector \in Seq(T), NEW action \in Seq(T),
         ":" \notin Range(sector) \cup Range(action)
  PROVE  IsAuthorized(Entries(content), fingerprint, sector, action)
           <=> Meant(content, fingerprint, sector, action)
<1>1. PICK mine : mine = EntriesOf(content, fingerprint)
  OBVIOUS
<1>2. PICK text : text = Lower(Around(sector, ":", action))
  OBVIOUS
<1>3. IsPrefix(<<"_meta", ".">>, action)
        <=> Segments(action)[1] = <<"_meta">> /\ Len(Segments(action)) > 1
  <2>1. PICK c, dot, meta : c = ":" /\ dot = "." /\ meta = "_meta"
    OBVIOUS
  <2>2. dot \in T /\ meta \in T /\ meta # dot
    BY <2>1
  <2>3. IsPrefix(<<meta, dot>>, action)
          <=> Split(action, <<dot>>)[1] = <<meta>> /\ Len(Split(action, <<dot>>)) > 1
    BY ONLY <2>2, action \in Seq(T), FirstSegment
  <2> QED BY ONLY <2>1, <2>3 DEF Segments
<1>4. Lacks(sector, ":") /\ Lacks(action, ":")
  <2>1. DOMAIN sector = 1..Len(sector) /\ DOMAIN action = 1..Len(action)
    OBVIOUS
  <2> QED BY ONLY <2>1, ":" \notin Range(sector) \cup Range(action) DEF Lacks, Range
<1>5. PICK entries : entries = Entries(content)
  OBVIOUS
<1>6. IsAuthorized(entries, fingerprint, sector, action)
        <=> \/ IsPrefix(<<"_meta", ".">>, action)
            \/ /\ fingerprint \in DOMAIN entries
               /\ \E p \in entries[fingerprint] : Matches(Lower(p), text)
  BY ONLY <1>2, ":" \notin Range(sector) \cup Range(action) DEF IsAuthorized, Around
<1>7. Meant(content, fingerprint, sector, action)
        <=> \/ Segments(action)[1] = <<"_meta">> /\ Len(Segments(action)) > 1
            \/ \E i \in mine : /\ \A j \in mine : j <= i
                               /\ \E token \in content[i].tokens : Names(token, sector, action)
  BY ONLY <1>1 DEF Meant, EntriesOf
<1>8. (fingerprint \in DOMAIN entries /\ \E p \in entries[fingerprint] : Matches(Lower(p), text))
      <=> \E i \in mine : /\ \A j \in mine : j <= i
                          /\ \E token \in content[i].tokens : Names(token, sector, action)
  <2>1. CASE mine = {}
    <3>1. fingerprint \notin DOMAIN entries
      BY ONLY <1>1, <1>5, <2>1 DEF Entries, EntriesOf
    <3> QED BY ONLY <2>1, <3>1
  <2>2. CASE mine # {}
    <3>1. PICK i \in mine :
            /\ \A j \in mine : j <= i
            /\ \A k \in mine : (\A j \in mine : j <= k) => k = i
            /\ fingerprint \in DOMAIN entries
            /\ entries[fingerprint] = {Pattern(token) : token \in content[i].tokens}
      BY ONLY content \in Seq(U), <1>1, <1>5, <2>2, LastEntry
    <3>2. content[i].tokens \subseteq Seq(T)
      BY <1>1 DEF EntriesOf
    <3>3. \A token \in content[i].tokens :
            Matches(Lower(Pattern(token)), text) <=> Names(token, sector, action)
      <4> SUFFICES ASSUME NEW token \in content[i].tokens
                   PROVE  Matches(Lower(Pattern(token)), text) <=> Names(token, sector, action)
        OBVIOUS
      <4>1. token \in Seq(T)
        BY ONLY <3>2, token \in content[i].tokens
      <4> QED BY ONLY <1>2, <1>4, <4>1, ":" \in T, "." \in T, "any" \notin T,
                      sector \in Seq(T), action \in Seq(T), TokenNames
    <3> QED BY ONLY <3>1, <3>3
  <2> QED BY <2>1, <2>2
<1> QED BY ONLY <1>3, <1>5, <1>6, <1>7, <1>8

-----------------------------------------------------------------------------
(* The records of a file.                                                  *)

\* A delimiter in two texts is in the one or in the other, if none is in between.
Parted(a, b, d) ==
  \A i \in 1..(Len(a \o b) - Len(d) + 1) :
    SubSeq(a \o b, i, i + Len(d) - 1) = d => Len(a) \notin i..(i + Len(d) - 2)

\* Where it is found in the two together it is found in one of them.
LEMMA FoundInPart ==
  ASSUME NEW T, NEW a \in Seq(T), NEW b \in Seq(T), NEW d \in Seq(T), d # <<>>, Parted(a, b, d),
         NEW i \in 1..(Len(a) + Len(b) - Len(d) + 1), SubSeq(a \o b, i, i + Len(d) - 1) = d
  PROVE  i \in Finds(a, d, 1) \/ i - Len(a) \in Finds(b, d, 1)
<1>1. PICK n, m, k \in Nat : n = Len(a) /\ m = Len(b) /\ k = Len(d) /\ k >= 1
  <2>1. Len(a) \in Nat /\ Len(b) \in Nat /\ Len(d) \in Nat /\ Len(d) >= 1
    OBVIOUS
  <2> QED BY ONLY <2>1
<1>2. Len(a \o b) = n + m
  BY <1>1
<1>3. n \notin i..(i + k - 2) /\ i \in 1..(n + m - k + 1)
  <2>1. i \in 1..(Len(a \o b) - Len(d) + 1)
    BY ONLY <1>1, <1>2, i \in 1..(Len(a) + Len(b) - Len(d) + 1)
  <2>2. Len(a) \notin i..(i + Len(d) - 2)
    BY ONLY <2>1, Parted(a, b, d), SubSeq(a \o b, i, i + Len(d) - 1) = d DEF Parted
  <2> QED BY ONLY <1>1, <1>2, <2>1, <2>2
<1>4. CASE i + k - 1 <= n
  <2>1. i \in 1..(Len(a) + 1) /\ i + k - 1 \in (i - 1)..Len(a) /\ i \in 1..(n - k + 1)
    BY <1>1, <1>3, <1>4
  <2>2. SubSeq(a, i, i + k - 1) = d
    BY ONLY a \in Seq(T), b \in Seq(T), <1>1, <2>1, SubSeq(a \o b, i, i + Len(d) - 1) = d, SubSeqLeft
  <2> QED BY ONLY <1>1, <2>1, <2>2 DEF Finds
<1>5. CASE n < i
  <2>1. PICK j : j = i - n
    OBVIOUS
  <2>2. /\ j \in 1..(Len(b) + 1) /\ j + k - 1 \in (j - 1)..Len(b) /\ j \in 1..(m - k + 1)
        /\ Len(a) + j = i /\ Len(a) + (j + k - 1) = i + k - 1
    BY <1>1, <1>3, <1>5, <2>1
  <2>3. SubSeq(a \o b, Len(a) + j, Len(a) + (j + k - 1)) = SubSeq(b, j, j + k - 1)
    BY ONLY a \in Seq(T), b \in Seq(T), <2>2, SubSeqRight
  <2>4. SubSeq(b, j, j + k - 1) = d
    BY ONLY <1>1, <2>2, <2>3, SubSeq(a \o b, i, i + Len(d) - 1) = d
  <2> QED BY ONLY <1>1, <2>1, <2>2, <2>4 DEF Finds
<1>6. i + k - 1 <= n \/ n < i
  BY ONLY n \in Nat, m \in Nat, k \in Nat, <1>1, <1>3
<1> QED BY <1>4, <1>5, <1>6

\* What comes before a sequence, and what is before its last item.
Headed(y, x, t) ==
  y = <<x>> \o t /\ Len(y) = 1 + Len(t) /\ y[1] = x /\ \A i \in 1..Len(t) : y[1 + i] = t[i]

\* One item before others.
LEMMA HeadFirst ==
  ASSUME NEW S, NEW x \in S, NEW t \in Seq(S)
  PROVE  \E y \in Seq(S) : Headed(y, x, t)
<1>1. <<x>> \o t \in Seq(S) /\ Len(<<x>> \o t) = 1 + Len(t) /\ (<<x>> \o t)[1] = x
      /\ \A i \in 1..Len(t) : (<<x>> \o t)[1 + i] = t[i]
  OBVIOUS
<1> QED BY ONLY <1>1 DEF Headed

\* All but the last item.
LEMMA FrontFacts ==
  ASSUME NEW S, NEW t \in Seq(S), Len(t) >= 1
  PROVE  \E f \in Seq(S) : f = Front(t) /\ Len(f) = Len(t) - 1 /\ \A i \in 1..(Len(t) - 1) : f[i] = t[i]
<1>1. PICK k \in Nat : k = Len(t) - 1 /\ k \in 0..Len(t)
  <2>1. Len(t) - 1 \in Nat /\ Len(t) - 1 \in 0..Len(t)
    OBVIOUS
  <2> QED BY ONLY <2>1
<1>2. SubSeq(t, 1, k) \in Seq(S) /\ Len(SubSeq(t, 1, k)) = k /\ \A i \in 1..k : SubSeq(t, 1, k)[i] = t[i]
  BY ONLY t \in Seq(S), <1>1
<1> QED BY ONLY <1>1, <1>2 DEF Front

\* A list of one text, and a longer one, with what follows.
ContinuesOne(a, x, t) == Continued(<<a>>, <<x>> \o t) = <<a \o x>> \o t
ContinuesMore(a, s, t) == Continued(<<a>> \o s, t) = <<a>> \o Continued(s, t)

\* The first of the texts that follow goes on with the last one.
LEMMA ContinuedOne ==
  ASSUME NEW T, NEW a \in Seq(T), NEW x \in Seq(T), NEW t \in Seq(Seq(T))
  PROVE  ContinuesOne(a, x, t)
<1>1. PICK S : S = Seq(T)
  OBVIOUS
<1>2. PICK l \in S : l = a \o x
  <2>1. a \o x \in Seq(T)
    OBVIOUS
  <2> QED BY ONLY <1>1, <2>1
<1>3. a \in S /\ x \in S /\ t \in Seq(S)
  BY <1>1
<1>4. Front(<<a>>) = <<>> /\ Last(<<a>>) = a
  BY ONLY <1>3 DEF Front, Last
<1>5. Head(<<x>> \o t) = x /\ Tail(<<x>> \o t) = t
  <2>1. PICK y \in Seq(S) : y = <<x>> \o t /\ Len(y) = 1 + Len(t) /\ y[1] = x
                            /\ \A i \in 1..Len(t) : y[1 + i] = t[i]
    <3>1. \E y \in Seq(S) : Headed(y, x, t)
      BY ONLY <1>3, HeadFirst
    <3> QED BY ONLY <3>1 DEF Headed
  <2>2. Head(y) = x
    BY <2>1
  <2>3. Tail(y) = t
    BY ONLY <1>3, <2>1, y \in Seq(S)
  <2> QED BY <2>1, <2>2, <2>3
<1>6. <<>> \o <<l>> \o t = <<l>> \o t
  BY ONLY <1>3, l \in S
<1> QED BY ONLY <1>2, <1>4, <1>5, <1>6 DEF Continued, ContinuesOne

\* The texts before the last stay as they are.
LEMMA ContinuedMore ==
  ASSUME NEW T, NEW a \in Seq(T), NEW s \in Seq(Seq(T)), NEW t \in Seq(Seq(T)), s # <<>>, t # <<>>
  PROVE  ContinuesMore(a, s, t)
<1>1. PICK S : S = Seq(T)
  OBVIOUS
<1>2. a \in S /\ s \in Seq(S) /\ t \in Seq(S) /\ Len(s) \in Nat /\ Len(s) >= 1
  BY <1>1
<1>3. Last(s) \in S /\ Head(t) \in S
  BY <1>2, t # <<>> DEF Last
<1>4. PICK l \in S : l = Last(s) \o Head(t)
  <2>1. PICK u, v \in Seq(T) : u = Last(s) /\ v = Head(t)
    BY ONLY <1>1, <1>3
  <2>2. u \o v \in Seq(T)
    BY ONLY u \in Seq(T), v \in Seq(T)
  <2> QED BY ONLY <1>1, <2>1, <2>2
<1>5. PICK z \in Seq(S) : z = <<a>> \o s /\ Len(z) = 1 + Len(s) /\ z[1] = a
                          /\ \A i \in 1..Len(s) : z[1 + i] = s[i]
  <2>1. \E z \in Seq(S) : Headed(z, a, s)
    BY ONLY <1>2, HeadFirst
  <2> QED BY ONLY <2>1 DEF Headed
<1>6. Last(z) = Last(s)
  BY ONLY <1>2, <1>5 DEF Last
<1>7. PICK f \in Seq(S) : f = Front(s) /\ Len(f) = Len(s) - 1 /\ \A i \in 1..(Len(s) - 1) : f[i] = s[i]
  BY ONLY <1>2, FrontFacts
<1>8. Front(z) = <<a>> \o f
  <2>1. PICK g \in Seq(S) : g = Front(z) /\ Len(g) = Len(s) /\ \A i \in 1..Len(s) : g[i] = z[i]
    <3>1. Len(z) >= 1 /\ Len(z) - 1 = Len(s)
      BY ONLY <1>2, <1>5
    <3>2. \E g \in Seq(S) : g = Front(z) /\ Len(g) = Len(z) - 1 /\ \A i \in 1..(Len(z) - 1) : g[i] = z[i]
      BY ONLY z \in Seq(S), <3>1, FrontFacts, Zenon
    <3> QED BY ONLY <3>1, <3>2
  <2>2. PICK h \in Seq(S) : h = <<a>> \o f /\ Len(h) = 1 + Len(f) /\ h[1] = a
                            /\ \A i \in 1..Len(f) : h[1 + i] = f[i]
    <3>1. \E h \in Seq(S) : Headed(h, a, f)
      BY ONLY <1>2, f \in Seq(S), HeadFirst
    <3> QED BY ONLY <3>1 DEF Headed
  <2>3. ASSUME NEW i \in 1..Len(g) PROVE g[i] = h[i]
    <3>1. CASE i = 1
      BY ONLY <1>5, <2>1, <2>2, <3>1, i \in 1..Len(g)
    <3>2. CASE i # 1
      <4>1. PICK j \in 1..(Len(s) - 1) : i = 1 + j /\ j \in 1..Len(s)
        <5>1. i - 1 \in 1..(Len(s) - 1) /\ i = 1 + (i - 1) /\ i - 1 \in 1..Len(s)
          BY ONLY <1>2, <2>1, <3>2, i \in 1..Len(g)
        <5> QED BY ONLY <5>1
      <4>2. j \in 1..Len(f) /\ i \in 1..Len(s)
        BY ONLY <1>7, <2>1, <4>1, i \in 1..Len(g)
      <4>3. g[i] = s[j]
        <5>1. g[i] = z[i]
          BY ONLY <2>1, <4>2
        <5>2. z[1 + j] = s[j]
          BY ONLY <1>5, <4>1
        <5> QED BY ONLY <4>1, <5>1, <5>2
      <4>4. h[i] = f[j] /\ f[j] = s[j]
        <5>1. h[1 + j] = f[j]
          BY ONLY <2>2, <4>2
        <5>2. f[j] = s[j]
          BY ONLY <1>7, j \in 1..(Len(s) - 1)
        <5> QED BY ONLY <4>1, <5>1, <5>2
      <4> QED BY ONLY <4>3, <4>4
    <3> QED BY <3>1, <3>2
  <2>4. Len(g) = Len(h)
    BY ONLY <1>2, <1>7, <2>1, <2>2
  <2>5. g = h
    BY ONLY g \in Seq(S), h \in Seq(S), <2>3, <2>4, SameItems
  <2> QED BY ONLY <2>1, <2>2, <2>5
<1>9. PICK e \in Seq(S) : e = Tail(t)
  <2>1. Tail(t) \in Seq(S)
    BY ONLY <1>2, t # <<>>
  <2> QED BY ONLY <2>1
<1>10. (<<a>> \o f) \o <<l>> \o e = <<a>> \o (f \o <<l>> \o e)
  <2>1. PICK u, v \in Seq(S) : u = <<a>> /\ v = <<l>>
    <3>1. <<a>> \in Seq(S) /\ <<l>> \in Seq(S)
      BY ONLY <1>2, l \in S
    <3> QED BY <3>1
  <2>2. (u \o f) \o v = u \o (f \o v)
    <3>1. InARow(u, f, v)
      BY ONLY u \in Seq(S), f \in Seq(S), v \in Seq(S), RowFacts
    <3> QED BY ONLY <3>1 DEF InARow
  <2>3. f \o v \in Seq(S)
    BY ONLY f \in Seq(S), v \in Seq(S)
  <2>4. (u \o (f \o v)) \o e = u \o ((f \o v) \o e)
    <3>1. PICK w \in Seq(S) : w = f \o v
      BY ONLY <2>3
    <3>2. (u \o w) \o e = u \o (w \o e)
      <4>1. InARow(u, w, e)
        BY ONLY u \in Seq(S), w \in Seq(S), e \in Seq(S), RowFacts
      <4> QED BY ONLY <4>1 DEF InARow
    <3> QED BY ONLY <3>1, <3>2
  <2> QED BY ONLY <2>1, <2>2, <2>4
<1> QED BY ONLY <1>4, <1>5, <1>6, <1>7, <1>8, <1>9, <1>10 DEF Continued, ContinuesMore

\* Two texts that no delimiter is in between of are split as one.
Together(a, b, d) == Split(a \o b, d) = Continued(Split(a, d), Split(b, d))

\* So it is if the first has no delimiter.
LEMMA TogetherWhole ==
  ASSUME NEW T, NEW a \in Seq(T), NEW b \in Seq(T), NEW d \in Seq(T), d # <<>>, Parted(a, b, d),
         Finds(a, d, 1) = {}
  PROVE  Together(a, b, d)
<1>1. PICK n, m, k \in Nat : n = Len(a) /\ m = Len(b) /\ k = Len(d) /\ k >= 1
  <2>1. Len(a) \in Nat /\ Len(b) \in Nat /\ Len(d) \in Nat /\ Len(d) >= 1
    OBVIOUS
  <2> QED BY ONLY <2>1
<1>2. PICK u \in Seq(T) : u = a \o b /\ Len(u) = n + m
  <2>1. a \o b \in Seq(T) /\ Len(a \o b) = Len(a) + Len(b)
    OBVIOUS
  <2> QED BY ONLY <1>1, <2>1
<1>3. Split(a, d) = <<a>>
  BY ONLY a \in Seq(T), d \in Seq(T), d # <<>>, Finds(a, d, 1) = {}, SplitWhole
<1>4. ASSUME NEW i \in 1..(n + m - k + 1), SubSeq(u, i, i + k - 1) = d
      PROVE  i - n \in Finds(b, d, 1)
  <2>1. i \in 1..(Len(a) + Len(b) - Len(d) + 1) /\ SubSeq(a \o b, i, i + Len(d) - 1) = d
    BY ONLY <1>1, <1>2, <1>4
  <2>2. i \in Finds(a, d, 1) \/ i - Len(a) \in Finds(b, d, 1)
    BY ONLY <2>1, a \in Seq(T), b \in Seq(T), d \in Seq(T), d # <<>>, Parted(a, b, d), FoundInPart
  <2> QED BY ONLY <1>1, <2>2, Finds(a, d, 1) = {}
<1>5. CASE Finds(b, d, 1) = {}
  <2>1. Finds(u, d, 1) = {}
    <3> SUFFICES ASSUME NEW i \in Finds(u, d, 1) PROVE FALSE
      OBVIOUS
    <3>1. i \in 1..(n + m - k + 1) /\ SubSeq(u, i, i + k - 1) = d
      BY ONLY <1>1, <1>2, i \in Finds(u, d, 1) DEF Finds
    <3> QED BY ONLY <1>4, <1>5, <3>1
  <2>2. Split(u, d) = <<u>> /\ Split(b, d) = <<b>>
    BY ONLY u \in Seq(T), b \in Seq(T), d \in Seq(T), d # <<>>, <1>5, <2>1, SplitWhole
  <2>3. PICK S, e : S = Seq(T) /\ e = <<>>
    OBVIOUS
  <2>4. e \in Seq(S) /\ \A x \in S : <<x>> \o e = <<x>>
    BY ONLY <2>3
  <2>5. Continued(<<a>>, <<b>> \o e) = <<u>> \o e
    <3>1. e \in Seq(Seq(T))
      BY ONLY <2>3, <2>4
    <3>2. ContinuesOne(a, b, e)
      BY ONLY <3>1, a \in Seq(T), b \in Seq(T), ContinuedOne
    <3> QED BY ONLY <1>2, <3>2 DEF ContinuesOne
  <2>6. <<b>> \o e = <<b>> /\ <<u>> \o e = <<u>>
    BY ONLY <2>3, <2>4, b \in Seq(T), u \in Seq(T)
  <2> QED BY ONLY <1>2, <1>3, <2>2, <2>5, <2>6 DEF Together
<1>6. CASE Finds(b, d, 1) # {}
  <2>1. PICK x, r \in Seq(T) : CutAt(b, d, x, r)
    BY ONLY b \in Seq(T), d \in Seq(T), d # <<>>, <1>6, FirstCut
  <2>2. Split(b, d) = <<x>> \o Split(r, d)
    BY ONLY d \in Seq(T), d # <<>>, <2>1, x \in Seq(T), r \in Seq(T), CutSplits
  <2>3. PICK y \in Seq(T) : y = a \o x /\ Len(y) = n + Len(x)
    <3>1. a \o x \in Seq(T) /\ Len(a \o x) = Len(a) + Len(x)
      OBVIOUS
    <3> QED BY ONLY <1>1, <3>1
  <2>4. u = (y \o d) \o r
    <3>1. b = (x \o d) \o r
      BY ONLY <2>1 DEF CutAt
    <3>2. a \o ((x \o d) \o r) = ((a \o x) \o d) \o r
      <4>1. PICK w \in Seq(T) : w = x \o d
        <5>1. x \o d \in Seq(T)
          OBVIOUS
        <5> QED BY ONLY <5>1
      <4>2. a \o (w \o r) = (a \o w) \o r
        <5>1. InARow(a, w, r)
          BY ONLY a \in Seq(T), w \in Seq(T), r \in Seq(T), RowFacts
        <5> QED BY ONLY <5>1 DEF InARow
      <4>3. a \o (x \o d) = (a \o x) \o d
        <5>1. InARow(a, x, d)
          BY ONLY a \in Seq(T), x \in Seq(T), d \in Seq(T), RowFacts
        <5> QED BY ONLY <5>1 DEF InARow
      <4> QED BY ONLY <4>1, <4>2, <4>3
    <3> QED BY ONLY <1>2, <2>3, <3>1, <3>2
  <2>5. PICK l, q \in Nat : l = Len(x) /\ q = Len(r) /\ m = l + k + q
    <3>1. Len(x) \in Nat /\ Len(r) \in Nat
      OBVIOUS
    <3>2. Len(b) = Len(x) + Len(d) + Len(r)
      BY ONLY <2>1 DEF CutAt
    <3> QED BY ONLY <1>1, <3>1, <3>2
  <2>6. \A j \in 1..Len(y) : SubSeq(u, j, j + Len(d) - 1) # d
    <3> SUFFICES ASSUME NEW j \in 1..Len(y), SubSeq(u, j, j + Len(d) - 1) = d PROVE FALSE
      OBVIOUS
    <3>1. j \in 1..(n + l) /\ j \in 1..(n + m - k + 1)
      <4>1. j \in 1..(n + l)
        BY ONLY <2>3, <2>5, j \in 1..Len(y)
      <4> QED BY ONLY <2>5, <4>1, n \in Nat, m \in Nat, k \in Nat, l \in Nat, q \in Nat, <1>1
    <3>2. j - n \in Finds(b, d, 1)
      BY ONLY <1>1, <1>4, <3>1, SubSeq(u, j, j + Len(d) - 1) = d
    <3>3. j - n \in 1..l /\ SubSeq(b, j - n, (j - n) + Len(d) - 1) = d
      <4>1. j - n >= 1 /\ j - n \in Int /\ SubSeq(b, j - n, (j - n) + Len(d) - 1) = d
        BY ONLY <1>1, <3>2 DEF Finds
      <4> QED BY ONLY <3>1, <4>1, n \in Nat, l \in Nat
    <3> QED BY ONLY <2>1, <2>5, <3>3 DEF CutAt
  <2>7. Split(u, d) = <<y>> \o Split(r, d)
    <3>1. Len(u) = Len(y) + Len(d) + Len(r)
      BY ONLY <1>1, <1>2, <2>3, <2>5, n \in Nat, m \in Nat
    <3>2. CutAt(u, d, y, r)
      BY ONLY <2>4, <2>6, <3>1 DEF CutAt
    <3> QED BY ONLY y \in Seq(T), d \in Seq(T), d # <<>>, r \in Seq(T), <3>2, CutSplits
  <2>8. PICK S, t : S = Seq(T) /\ t = Split(r, d)
    OBVIOUS
  <2>9. t \in Seq(S)
    BY ONLY <2>8, d \in Seq(T), d # <<>>, r \in Seq(T), SplitBegins
  <2>10. Continued(<<a>>, <<x>> \o t) = <<y>> \o t
    <3>1. t \in Seq(Seq(T))
      BY ONLY <2>8, <2>9
    <3>2. ContinuesOne(a, x, t)
      BY ONLY <3>1, a \in Seq(T), x \in Seq(T), ContinuedOne
    <3> QED BY ONLY <2>3, <3>2 DEF ContinuesOne
  <2> QED BY ONLY <1>2, <1>3, <2>2, <2>7, <2>8, <2>10 DEF Together
<1> QED BY <1>5, <1>6

\* What follows a delimiter is parted from the next text as all of it was.
LEMMA PartedRest ==
  ASSUME NEW T, NEW a \in Seq(T), NEW b \in Seq(T), NEW d \in Seq(T), NEW x \in Seq(T), NEW r \in Seq(T),
         d # <<>>, Parted(a, b, d), a = (x \o d) \o r, Len(a) = Len(x) + Len(d) + Len(r)
  PROVE  Parted(r, b, d)
<1>1. PICK n, m, k, q \in Nat : n = Len(x) /\ m = Len(b) /\ k = Len(d) /\ q = Len(r) /\ k >= 1
  <2>1. Len(x) \in Nat /\ Len(b) \in Nat /\ Len(d) \in Nat /\ Len(r) \in Nat /\ Len(d) >= 1
    OBVIOUS
  <2> QED BY ONLY <2>1
<1>2. PICK h \in Seq(T) : h = x \o d /\ Len(h) = n + k
  <2>1. x \o d \in Seq(T) /\ Len(x \o d) = Len(x) + Len(d)
    OBVIOUS
  <2> QED BY ONLY <1>1, <2>1
<1>3. PICK v \in Seq(T) : v = r \o b /\ Len(v) = q + m
  <2>1. r \o b \in Seq(T) /\ Len(r \o b) = Len(r) + Len(b)
    OBVIOUS
  <2> QED BY ONLY <1>1, <2>1
<1>4. a \o b = h \o v /\ Len(a \o b) = n + k + q + m /\ Len(a) = n + k + q
  <2>1. (h \o r) \o b = h \o (r \o b)
    <3>1. InARow(h, r, b)
      BY ONLY h \in Seq(T), r \in Seq(T), b \in Seq(T), RowFacts
    <3> QED BY ONLY <3>1 DEF InARow
  <2>2. Len(a \o b) = Len(a) + Len(b)
    OBVIOUS
  <2> QED BY ONLY <1>1, <1>2, <1>3, <2>1, <2>2, a = (x \o d) \o r, Len(a) = Len(x) + Len(d) + Len(r)
<1> SUFFICES ASSUME NEW i \in 1..(Len(r \o b) - Len(d) + 1),
                    SubSeq(r \o b, i, i + Len(d) - 1) = d, Len(r) \in i..(i + Len(d) - 2)
             PROVE  FALSE
  BY DEF Parted
<1> i \in 1..(q + m - k + 1) /\ SubSeq(v, i, i + k - 1) = d /\ q \in i..(i + k - 2)
  BY ONLY <1>1, <1>3, i \in 1..(Len(r \o b) - Len(d) + 1), SubSeq(r \o b, i, i + Len(d) - 1) = d,
          Len(r) \in i..(i + Len(d) - 2)
<1>5. PICK j \in Nat : j = n + k + i
  OBVIOUS
<1>6. SubSeq(h \o v, j, j + k - 1) = d
  <2>1. i \in 1..(Len(v) + 1) /\ i + k - 1 \in (i - 1)..Len(v)
    <3>1. i \in 1..(q + m + 1) /\ i + k - 1 \in (i - 1)..(q + m)
      BY ONLY <1>1, q \in Nat, m \in Nat, k \in Nat, i \in 1..(q + m - k + 1)
    <3> QED BY ONLY <1>3, <3>1
  <2>2. SubSeq(h \o v, Len(h) + i, Len(h) + (i + k - 1)) = SubSeq(v, i, i + k - 1)
    BY ONLY h \in Seq(T), v \in Seq(T), <2>1, SubSeqRight
  <2>3. Len(h) + i = j /\ Len(h) + (i + k - 1) = j + k - 1
    BY ONLY <1>2, <1>5, n \in Nat, k \in Nat, i \in 1..(q + m - k + 1), q \in Nat, m \in Nat
  <2> QED BY ONLY <2>2, <2>3, SubSeq(v, i, i + k - 1) = d
<1>7. j \in 1..(n + k + q + m - k + 1) /\ n + k + q \in j..(j + k - 2)
  BY ONLY <1>1, <1>5, n \in Nat, m \in Nat, k \in Nat, q \in Nat, i \in 1..(q + m - k + 1),
          q \in i..(i + k - 2)
<1>8. j \in 1..(Len(a \o b) - Len(d) + 1) /\ Len(a) \in j..(j + Len(d) - 2)
  BY ONLY <1>1, <1>4, <1>7
<1>9. SubSeq(a \o b, j, j + Len(d) - 1) = d
  BY ONLY <1>1, <1>4, <1>6
<1> QED BY ONLY <1>8, <1>9, Parted(a, b, d) DEF Parted

\* And always, by induction on the first text.
LEMMA SplitTogether ==
  ASSUME NEW T, NEW a \in Seq(T), NEW b \in Seq(T), NEW d \in Seq(T), d # <<>>, Parted(a, b, d)
  PROVE  Together(a, b, d)
<1> DEFINE K == {n \in Nat : \A s \in Seq(T) : Len(s) < n /\ Parted(s, b, d) => Together(s, b, d)}
<1>1. 0 \in K
  OBVIOUS
<1>2. ASSUME NEW n \in Nat, n \in K PROVE n + 1 \in K
  <2> SUFFICES ASSUME NEW s \in Seq(T), Len(s) < n + 1, Parted(s, b, d) PROVE Together(s, b, d)
    OBVIOUS
  <2>1. CASE Finds(s, d, 1) = {}
    BY ONLY <2>1, s \in Seq(T), b \in Seq(T), d \in Seq(T), d # <<>>, Parted(s, b, d), TogetherWhole
  <2>2. CASE Finds(s, d, 1) # {}
    <3>1. PICK x, r \in Seq(T) : CutAt(s, d, x, r)
      BY ONLY s \in Seq(T), d \in Seq(T), d # <<>>, <2>2, FirstCut
    <3>2. s = (x \o d) \o r /\ Len(s) = Len(x) + Len(d) + Len(r)
      BY ONLY <3>1 DEF CutAt
    <3>3. Parted(r, b, d)
      BY ONLY <3>2, s \in Seq(T), b \in Seq(T), d \in Seq(T), x \in Seq(T), r \in Seq(T), d # <<>>,
              Parted(s, b, d), PartedRest
    <3>4. Len(r) < n /\ Len(x) \in Nat /\ Len(d) \in Nat /\ Len(d) >= 1 /\ Len(r) \in Nat
      <4>1. Len(x) \in Nat /\ Len(d) \in Nat /\ Len(d) >= 1 /\ Len(r) \in Nat
        OBVIOUS
      <4> QED BY ONLY <3>2, <4>1, n \in Nat, Len(s) < n + 1
    <3>5. Together(r, b, d)
      BY ONLY <1>2, <3>3, <3>4, r \in Seq(T)
    <3>6. Split(s, d) = <<x>> \o Split(r, d)
      BY ONLY d \in Seq(T), d # <<>>, <3>1, x \in Seq(T), r \in Seq(T), CutSplits
    <3>7. Split(s \o b, d) = <<x>> \o Split(r \o b, d)
      <4>1. PICK v \in Seq(T) : v = r \o b
        <5>1. r \o b \in Seq(T)
          OBVIOUS
        <5> QED BY ONLY <5>1
      <4>2. PICK u \in Seq(T) : u = s \o b
        <5>1. s \o b \in Seq(T)
          OBVIOUS
        <5> QED BY ONLY <5>1
      <4>3. u = (x \o d) \o v
        <5>1. PICK h \in Seq(T) : h = x \o d
          <6>1. x \o d \in Seq(T)
            OBVIOUS
          <6> QED BY ONLY <6>1
        <5>2. (h \o r) \o b = h \o (r \o b)
          <6>1. InARow(h, r, b)
            BY ONLY h \in Seq(T), r \in Seq(T), b \in Seq(T), RowFacts
          <6> QED BY ONLY <6>1 DEF InARow
        <5> QED BY ONLY <3>2, <4>1, <4>2, <5>1, <5>2
      <4>4. \A j \in 1..Len(x) : SubSeq(u, j, j + Len(d) - 1) # d
        <5> SUFFICES ASSUME NEW j \in 1..Len(x) PROVE SubSeq(u, j, j + Len(d) - 1) # d
          OBVIOUS
        <5>1. j \in 1..(Len(s) + 1) /\ j + Len(d) - 1 \in (j - 1)..Len(s)
          BY ONLY <3>2, <3>4, j \in 1..Len(x)
        <5>2. SubSeq(s \o b, j, j + Len(d) - 1) = SubSeq(s, j, j + Len(d) - 1)
          BY ONLY s \in Seq(T), b \in Seq(T), <5>1, SubSeqLeft
        <5>3. SubSeq(s, j, j + Len(d) - 1) # d
          BY ONLY <3>1, j \in 1..Len(x) DEF CutAt
        <5> QED BY ONLY <4>2, <5>2, <5>3
      <4>5. Split(u, d) = <<x>> \o Split(v, d)
        <5>1. Len(u) = Len(x) + Len(d) + Len(v)
          <6>1. Len(u) = Len(s) + Len(b) /\ Len(v) = Len(r) + Len(b) /\ Len(b) \in Nat
            BY ONLY <4>1, <4>2, s \in Seq(T), b \in Seq(T), r \in Seq(T)
          <6> QED BY ONLY <3>2, <3>4, <6>1
        <5>2. CutAt(u, d, x, v)
          BY ONLY <4>3, <4>4, <5>1 DEF CutAt
        <5> QED BY ONLY x \in Seq(T), d \in Seq(T), d # <<>>, v \in Seq(T), <5>2, CutSplits
      <4> QED BY ONLY <4>1, <4>2, <4>5
    <3>8. PICK S : S = Seq(T)
      OBVIOUS
    <3>9. PICK t, w \in Seq(S) : t = Split(r, d) /\ w = Split(b, d) /\ t # <<>> /\ w # <<>>
      <4>1. Split(r, d) \in Seq(Seq(T)) /\ Split(r, d) # <<>>
        BY ONLY r \in Seq(T), d \in Seq(T), d # <<>>, SplitSome
      <4>2. Split(b, d) \in Seq(Seq(T)) /\ Split(b, d) # <<>>
        BY ONLY b \in Seq(T), d \in Seq(T), d # <<>>, SplitSome
      <4> QED BY ONLY <3>8, <4>1, <4>2
    <3>10. Continued(<<x>> \o t, w) = <<x>> \o Continued(t, w)
      <4>1. t \in Seq(Seq(T)) /\ w \in Seq(Seq(T)) /\ t # <<>> /\ w # <<>>
        BY ONLY <3>8, <3>9, t \in Seq(S), w \in Seq(S)
      <4>2. ContinuesMore(x, t, w)
        BY ONLY <4>1, x \in Seq(T), ContinuedMore
      <4> QED BY ONLY <4>2 DEF ContinuesMore
    <3> QED BY ONLY <3>5, <3>6, <3>7, <3>9, <3>10 DEF Together
  <2> QED BY <2>1, <2>2
<1>3. \A n \in Nat : n \in K
  <2> HIDE DEF K
  <2> QED BY ONLY <1>1, <1>2, Induction
<1>4. Len(a) \in Nat /\ Len(a) + 1 \in Nat /\ Len(a) < Len(a) + 1
  OBVIOUS
<1>5. Len(a) + 1 \in K
  BY ONLY <1>3, <1>4
<1> QED BY ONLY <1>4, <1>5, a \in Seq(T), Parted(a, b, d)
\* What has been read after some reads.
Upto(reads, k) == FlattenSeq(SubSeq(reads, 1, k))

\* It grows by one read each time, to the whole file.
LEMMA UptoFacts ==
  ASSUME NEW T, NEW reads \in Seq(Seq(T))
  PROVE  /\ \A k \in 0..Len(reads) : Upto(reads, k) \in Seq(T)
         /\ Upto(reads, 0) = <<>> /\ Upto(reads, Len(reads)) = FlattenSeq(reads)
         /\ \A k \in 0..(Len(reads) - 1) : Upto(reads, k + 1) = Upto(reads, k) \o reads[k + 1]
<1>1. PICK S : S = Seq(T)
  OBVIOUS
<1>2. reads \in Seq(S) /\ Len(reads) \in Nat
  BY <1>1
<1>3. ASSUME NEW k \in 0..Len(reads) PROVE Upto(reads, k) \in Seq(T)
  <2>1. SubSeq(reads, 1, k) \in Seq(S)
    BY ONLY <1>2, k \in 0..Len(reads), Halves
  <2>2. SubSeq(reads, 1, k) \in Seq(Seq(T))
    BY ONLY <1>1, <2>1
  <2> QED BY ONLY <2>2, FlattenTyped DEF Upto
<1>4. Upto(reads, 0) = <<>>
  <2>1. SubSeq(reads, 1, 0) = <<>>
    BY ONLY <1>2
  <2> QED BY ONLY <2>1 DEF Upto, FlattenSeq
<1>5. Upto(reads, Len(reads)) = FlattenSeq(reads)
  <2>1. SubSeq(reads, 1, Len(reads)) = reads
    BY ONLY <1>2, SubSeqAll
  <2> QED BY ONLY <2>1 DEF Upto
<1>6. ASSUME NEW k \in 0..(Len(reads) - 1) PROVE Upto(reads, k + 1) = Upto(reads, k) \o reads[k + 1]
  <2>1. k \in 0..Len(reads) /\ k < Len(reads) /\ k + 1 \in 1..Len(reads)
    BY ONLY <1>2, k \in 0..(Len(reads) - 1)
  <2>2. PICK first \in Seq(S) : first = SubSeq(reads, 1, k)
    <3>1. SubSeq(reads, 1, k) \in Seq(S)
      BY ONLY <1>2, <2>1, Halves
    <3> QED BY ONLY <3>1
  <2>3. PICK piece \in Seq(T) : piece = reads[k + 1]
    BY ONLY <1>1, <1>2, <2>1
  <2>4. SubSeq(reads, 1, k + 1) = first \o <<piece>>
    BY ONLY <1>2, <2>1, <2>2, <2>3, LongerHalf
  <2>5. <<piece>> \in Seq(Seq(T)) /\ FlattenSeq(<<piece>>) = piece
    BY ONLY piece \in Seq(T), FlattenOne
  <2>6. first \in Seq(Seq(T))
    BY ONLY <1>1, <2>2
  <2>7. FlattenSeq(first \o <<piece>>) = FlattenSeq(first) \o FlattenSeq(<<piece>>)
    BY ONLY <2>5, <2>6, FlattenConcat, Zenon
  <2> QED BY ONLY <2>2, <2>3, <2>4, <2>5, <2>7 DEF Upto
<1> QED BY <1>3, <1>4, <1>5, <1>6

\* And the rest of the file.
LEMMA UptoRest ==
  ASSUME NEW T, NEW reads \in Seq(Seq(T)), NEW k \in 0..Len(reads)
  PROVE  \E rest \in Seq(T) : FlattenSeq(reads) = Upto(reads, k) \o rest
<1>1. PICK S : S = Seq(T)
  OBVIOUS
<1>2. reads \in Seq(S)
  BY <1>1
<1>3. PICK first, others \in Seq(S) : first = SubSeq(reads, 1, k) /\ reads = first \o others
  <2>1. /\ SubSeq(reads, 1, k) \in Seq(S) /\ SubSeq(reads, k + 1, Len(reads)) \in Seq(S)
        /\ reads = SubSeq(reads, 1, k) \o SubSeq(reads, k + 1, Len(reads))
    BY ONLY <1>2, k \in 0..Len(reads), Halves
  <2> QED BY ONLY <2>1
<1>4. first \in Seq(Seq(T)) /\ others \in Seq(Seq(T))
  BY ONLY <1>1, first \in Seq(S), others \in Seq(S)
<1>5. FlattenSeq(first \o others) = FlattenSeq(first) \o FlattenSeq(others)
  BY ONLY <1>4, FlattenConcat, Zenon
<1>6. FlattenSeq(others) \in Seq(T)
  BY ONLY <1>4, FlattenTyped
<1> QED BY ONLY <1>3, <1>5, <1>6 DEF Upto

\* Each read goes on where no delimiter is cut through.
LEMMA ReadsParted ==
  ASSUME NEW T, NEW reads \in Seq(Seq(T)), Delimiter \in Seq(T), Delimiter # <<>>, Apart(reads),
         NEW k \in 0..(Len(reads) - 1)
  PROVE  Parted(Upto(reads, k), reads[k + 1], Delimiter)
<1>1. PICK d \in Seq(T) : d = Delimiter /\ d # <<>>
  OBVIOUS
<1>2. PICK c \in Nat : c = Len(d) /\ c >= 1
  <2>1. Len(d) \in Nat /\ Len(d) >= 1
    BY <1>1
  <2> QED BY ONLY <2>1
<1>3. Len(reads) \in Nat /\ k \in 0..Len(reads) /\ k + 1 \in 0..Len(reads)
  <2>1. Len(reads) \in Nat
    OBVIOUS
  <2> QED BY ONLY <2>1, k \in 0..(Len(reads) - 1)
<1>4. PICK a, u \in Seq(T) : a = Upto(reads, k) /\ u = Upto(reads, k + 1) /\ u = a \o reads[k + 1]
  BY ONLY reads \in Seq(Seq(T)), k \in 0..(Len(reads) - 1), <1>3, UptoFacts
<1>5. PICK rest \in Seq(T) : FlattenSeq(reads) = u \o rest
  BY ONLY reads \in Seq(Seq(T)), <1>3, <1>4, UptoRest
<1>6. PICK n, m, q \in Nat : n = Len(u) /\ m = Len(rest) /\ n + m = Len(u \o rest) /\ q = Len(a)
  <2>1. Len(u) \in Nat /\ Len(rest) \in Nat /\ Len(u \o rest) = Len(u) + Len(rest) /\ Len(a) \in Nat
    OBVIOUS
  <2> QED BY ONLY <2>1
<1> SUFFICES ASSUME NEW i \in 1..(Len(u) - Len(d) + 1), SubSeq(u, i, i + Len(d) - 1) = d,
                    Len(a) \in i..(i + Len(d) - 2)
             PROVE  FALSE
  <2>1. PICK b : b = reads[k + 1]
    OBVIOUS
  <2> SUFFICES Parted(a, b, d)
    BY ONLY <1>1, <1>4, <2>1, Parted(a, b, d)
  <2>2. u = a \o b
    BY ONLY <1>4, <2>1
  <2>3. Parted(a, b, d) <=> \A i \in 1..(Len(u) - Len(d) + 1) :
                              SubSeq(u, i, i + Len(d) - 1) = d => Len(a) \notin i..(i + Len(d) - 2)
    BY ONLY <2>2 DEF Parted
  <2> QED BY <2>3
<1>7. i \in 1..(n - c + 1) /\ q \in i..(i + c - 2)
  BY ONLY <1>2, <1>6, i \in 1..(Len(u) - Len(d) + 1), Len(a) \in i..(i + Len(d) - 2)
<1>8. SubSeq(u \o rest, i, i + c - 1) = d
  <2>1. i \in 1..(Len(u) + 1) /\ i + c - 1 \in (i - 1)..Len(u)
    BY ONLY <1>2, <1>6, <1>7, c \in Nat, n \in Nat
  <2>2. SubSeq(u \o rest, i, i + c - 1) = SubSeq(u, i, i + c - 1)
    BY ONLY u \in Seq(T), rest \in Seq(T), <2>1, SubSeqLeft
  <2> QED BY ONLY <1>2, <2>2, SubSeq(u, i, i + Len(d) - 1) = d
<1>9. k # 0
  <2> SUFFICES ASSUME k = 0 PROVE FALSE
    OBVIOUS
  <2>1. Upto(reads, 0) = <<>>
    BY ONLY reads \in Seq(Seq(T)), UptoFacts
  <2>2. a = <<>>
    BY ONLY <1>4, <2>1, k = 0
  <2>3. Len(a) = 0
    BY ONLY <2>2
  <2> QED BY ONLY <1>6, <1>7, <2>3
<1>10. k \in DOMAIN reads
  BY <1>3, <1>9
<1>11. i \in 1..(Len(FlattenSeq(reads)) - Len(d) + 1)
  BY ONLY <1>2, <1>5, <1>6, <1>7, n \in Nat, m \in Nat, c \in Nat
<1>12. SubSeq(FlattenSeq(reads), i, i + Len(d) - 1) = d
  BY ONLY <1>2, <1>5, <1>8
<1>13. Len(FlattenSeq(SubSeq(reads, 1, k))) \notin i..(i + Len(d) - 2)
  BY ONLY <1>1, <1>10, <1>11, <1>12, Apart(reads) DEF Apart
<1> QED BY ONLY <1>4, <1>13, Len(a) \in i..(i + Len(d) - 2) DEF Upto

\* The records of a file do not depend on how it comes in: they are the texts between
\* its delimiters, whatever the file, the reads and the delimiter, as long as no read ends
\* within a delimiter (cache_file.rs:45).
THEOREM RecordsAsWritten ==
  ASSUME NEW T, NEW reads \in Seq(Seq(T)), Delimiter \in Seq(T), Delimiter # <<>>
  PROVE  ReadWhole(reads)
<1> SUFFICES ASSUME Apart(reads)
             PROVE  Records(reads) = NonEmpty(Split(FlattenSeq(reads), Delimiter))
  BY DEF ReadWhole
<1> DEFINE n == Len(reads)
           upon(g, i) == IF i = 0 THEN <<<<>>>> ELSE Continued(g[i - 1], Split(reads[i], Delimiter))
           held == CHOOSE g : g = [i \in 0..n |-> upon(g, i)]
           f == [i \in 0..n |-> Split(Upto(reads, i), Delimiter)]
<1>1. n \in Nat
  OBVIOUS
<1>2. f[0] = <<<<>>>>
  <2>1. PICK e \in Seq(T) : e = <<>> /\ Len(e) = 0
    <3>1. <<>> \in Seq(T) /\ Len(<<>>) = 0
      OBVIOUS
    <3> QED BY <3>1
  <2>2. PICK d \in Seq(T) : d = Delimiter /\ d # <<>> /\ Len(d) >= 1 /\ Len(d) \in Nat
    OBVIOUS
  <2>3. Finds(e, d, 1) = {}
    BY ONLY <2>1, <2>2 DEF Finds
  <2>4. Split(e, d) = <<e>>
    BY ONLY e \in Seq(T), d \in Seq(T), <2>2, <2>3, SplitWhole
  <2>5. Upto(reads, 0) = e
    BY ONLY reads \in Seq(Seq(T)), <2>1, UptoFacts
  <2>6. f[0] = Split(Upto(reads, 0), Delimiter)
    BY <1>1
  <2> QED BY ONLY <2>1, <2>2, <2>4, <2>5, <2>6
<1>3. ASSUME NEW k \in 0..(n - 1)
      PROVE  f[k + 1] = Continued(f[k], Split(reads[k + 1], Delimiter))
  <2>1. /\ k \in 0..n /\ k + 1 \in 0..n
        /\ k \in 0..(Len(reads) - 1) /\ k \in 0..Len(reads) /\ k + 1 \in 1..Len(reads)
    BY <1>1
  <2>2. f[k] = Split(Upto(reads, k), Delimiter) /\ f[k + 1] = Split(Upto(reads, k + 1), Delimiter)
    BY <2>1
  <2>3. Parted(Upto(reads, k), reads[k + 1], Delimiter)
    BY ONLY reads \in Seq(Seq(T)), Delimiter \in Seq(T), Delimiter # <<>>, Apart(reads), <2>1, ReadsParted
  <2>4. Upto(reads, k) \in Seq(T) /\ Upto(reads, k + 1) = Upto(reads, k) \o reads[k + 1]
    BY ONLY reads \in Seq(Seq(T)), <2>1, UptoFacts
  <2>5. reads[k + 1] \in Seq(T)
    BY <2>1
  <2>6. Together(Upto(reads, k), reads[k + 1], Delimiter)
    BY ONLY <2>3, <2>4, <2>5, Delimiter \in Seq(T), Delimiter # <<>>, SplitTogether
  <2> QED BY ONLY <2>2, <2>4, <2>6 DEF Together
<1> HIDE DEF f
<1>4. \A i \in 0..n : f[i] = upon(f, i)
  <2> SUFFICES ASSUME NEW i \in 0..n PROVE f[i] = upon(f, i)
    OBVIOUS
  <2>1. CASE i = 0
    BY <1>2, <2>1
  <2>2. CASE i # 0
    <3>1. PICK k : k = i - 1
      OBVIOUS
    <3>2. k \in 0..(n - 1) /\ k + 1 = i
      BY ONLY <1>1, <2>2, <3>1, i \in 0..n
    <3>3. f[i] = Continued(f[k], Split(reads[i], Delimiter))
      BY ONLY <1>3, <3>2
    <3> QED BY ONLY <2>2, <3>1, <3>3
  <2> QED BY <2>1, <2>2
<1>5. f = [i \in 0..n |-> f[i]]
  BY DEF f
<1> HIDE DEF upon, n
<1>6. f = [i \in 0..n |-> upon(f, i)]
  BY ONLY <1>4, <1>5
<1>7. held = [i \in 0..n |-> upon(held, i)]
  BY ONLY <1>6
<1> HIDE DEF held
<1>8. \A i \in 0..n : held[i] = upon(held, i)
  BY ONLY <1>7
<1>9. \A i \in 0..n : held[i] = f[i]
  <2> DEFINE K == {i \in Nat : i <= n => held[i] = f[i]}
  <2>1. 0 \in K
    <3>1. 0 \in 0..n
      BY ONLY <1>1
    <3>2. upon(held, 0) = upon(f, 0)
      BY DEF upon
    <3>3. held[0] = f[0]
      BY ONLY <1>4, <1>8, <3>1, <3>2
    <3> QED BY ONLY <3>3
  <2>2. ASSUME NEW i \in Nat, i \in K PROVE i + 1 \in K
    <3> SUFFICES ASSUME i + 1 <= n PROVE held[i + 1] = f[i + 1]
      OBVIOUS
    <3>1. i + 1 \in 0..n /\ (i + 1) - 1 = i /\ held[i] = f[i] /\ i + 1 # 0
      BY <1>1, <2>2
    <3>2. PICK k : k = i + 1
      OBVIOUS
    <3>3. upon(held, k) = upon(f, k)
      BY ONLY <3>1, <3>2 DEF upon
    <3> QED BY ONLY <1>4, <1>8, <3>1, <3>2, <3>3
  <2> HIDE DEF K
  <2>3. \A i \in Nat : i \in K
    BY ONLY <2>1, <2>2, Induction
  <2> QED BY <1>1, <2>3 DEF K
<1>10. held[n] = Split(FlattenSeq(reads), Delimiter)
  <2>1. n \in 0..n /\ n = Len(reads)
    BY <1>1 DEF n
  <2>2. f[n] = Split(Upto(reads, n), Delimiter)
    BY ONLY <2>1 DEF f
  <2>3. Upto(reads, Len(reads)) = FlattenSeq(reads)
    BY ONLY reads \in Seq(Seq(T)), UptoFacts
  <2> QED BY ONLY <1>9, <2>1, <2>2, <2>3
<1>11. Records(reads) = NonEmpty(held[n])
  BY DEF Records, held, n, upon
<1> QED BY ONLY <1>10, <1>11

-----------------------------------------------------------------------------
(* What a receiver may choose.                                             *)

\* What is parsed out of the service's packet at a time carries that time, and
\* actions the service has registered.
LEMMA HeardOfService ==
  ASSUME NEW p, NEW h \in AnnouncementsIn(p)
  PROVE  /\ h.timestamp = p.time
         /\ \A x \in h.actions : \E a \in TheService.actions :
              \E y : /\ x.key = IndexKey(y) /\ x.aliases = AliasKeys(y)
                     /\ y = Learned(a, TheService.sector, TheService.envelopes)
<1> DEFINE read(q) == ParsePacket(Packet(TheService, q.active, q.time))
<1>1. p \in Packets /\ read(p).ok /\ h = Announced(read(p).value)
  <2>1. PICK g \in Parsings : g.packet = p /\ h = g.announcement
    BY DEF AnnouncementsIn
  <2>2. PICK q \in Packets : read(q).ok /\ g = [packet |-> q, announcement |-> Announced(read(q).value)]
    BY <2>1 DEF Parsings
  <2>3. q = p /\ h = Announced(read(q).value)
    BY <2>1, <2>2
  <2> HIDE DEF read
  <2> QED BY <2>2, <2>3
<1>2. p.active \in BOOLEAN
  BY <1>1 DEF Packets
<1>3. IsServiceText(TheService) /\ \A a \in TheService.actions : a.version \in Int /\ a.version <= MaxU32
  BY ServiceAssumption DEF IsServiceText
<1>4. /\ ParseBody(Body(TheService, p.active, p.time)).ok
      /\ read(p).value.body = ParseBody(Body(TheService, p.active, p.time)).value
  BY <1>1, <1>3, ParsedBody
<1>5. /\ read(p).value.body.timestamp = p.time
      /\ read(p).value.body.actions
           = {Learned(a, TheService.sector, TheService.envelopes) : a \in Named(TheService.actions)}
  BY <1>2, <1>3, <1>4, BodyRead
<1>6. PICK packet : packet = read(p).value
  OBVIOUS
<1>7. /\ h.timestamp = packet.body.timestamp
      /\ h.actions = {[key |-> IndexKey(a), aliases |-> AliasKeys(a), envelopes |-> a.envelopes] :
                        a \in packet.body.actions}
  BY <1>1, <1>6 DEF Announced
<1>8. \A y \in packet.body.actions : \E a \in TheService.actions :
        y = Learned(a, TheService.sector, TheService.envelopes)
  BY <1>5, <1>6 DEF Named
<1> HIDE DEF read
<1> QED BY <1>5, <1>6, <1>7, <1>8

\* A key of the service: of an action it registered.
IsServed(key) ==
  \E a \in TheService.actions :
    key[1] = TheService.sector /\ key[2][1] = a.namespace.word /\ key[3] = a.version

\* An action is found under its name, and under that of its namespace.
LEMMA KeysServed ==
  ASSUME NEW a \in TheService.actions, NEW y,
         y = Learned(a, TheService.sector, TheService.envelopes)
  PROVE  IsServed(IndexKey(y)) /\ \A key \in AliasKeys(y) : IsServed(key)
<1>1. /\ y.sector = TheService.sector /\ y.version = a.version
      /\ y.path = <<a.namespace.word, a.method.word>>
  BY DEF Learned, ActionOf, Path
<1>2. y.path[1] = a.namespace.word
  BY <1>1
<1>3. IsServed(IndexKey(y))
  BY <1>1, <1>2 DEF IsServed, IndexKey
<1>4. ASSUME NEW key \in AliasKeys(y) PROVE IsServed(key)
  <2>1. PICK f : key = <<y.sector, <<y.path[1], "_", f.op>>, y.version>>
    BY DEF AliasKeys
  <2> QED BY <1>1, <1>2, <2>1 DEF IsServed
<1> QED BY <1>3, <1>4

LEMMA OffersOfService ==
  ASSUME NEW p, NEW h \in AnnouncementsIn(p), NEW rights, NEW o \in R!Offers(h, rights)
  PROVE  o.entry.timestamp = p.time /\ IsServed(o.key)
<1>1. \E x \in h.actions : /\ o.key = x.key \/ o.key \in x.aliases
                           /\ \E authorized : o.entry = R!EntryOf(h, x, authorized)
  <2>1. ASSUME NEW x \in h.actions,
               o = [key |-> x.key,
                    entry |-> R!EntryOf(h, x, <<h.fingerprint, x.key>> \in rights)]
        PROVE  /\ o.key = x.key
               /\ \E authorized : o.entry = R!EntryOf(h, x, authorized)
    BY <2>1
  <2>2. ASSUME NEW x \in h.actions, NEW alias \in x.aliases,
               o = [key |-> alias, entry |-> R!EntryOf(h, x, TRUE)]
        PROVE  /\ o.key \in x.aliases
               /\ \E authorized : o.entry = R!EntryOf(h, x, authorized)
    BY <2>2
  <2> QED BY <2>1, <2>2 DEF R!Offers
<1>2. PICK x \in h.actions : /\ o.key = x.key \/ o.key \in x.aliases
                             /\ \E authorized : o.entry = R!EntryOf(h, x, authorized)
  BY <1>1
<1>3. o.entry.timestamp = h.timestamp
  BY <1>2 DEF R!EntryOf
<1>4. PICK a \in TheService.actions :
        \E y : /\ x.key = IndexKey(y) /\ x.aliases = AliasKeys(y)
               /\ y = Learned(a, TheService.sector, TheService.envelopes)
  BY HeardOfService
<1>5. PICK y : /\ x.key = IndexKey(y) /\ x.aliases = AliasKeys(y)
               /\ y = Learned(a, TheService.sector, TheService.envelopes)
  BY <1>4
<1>6. IsServed(IndexKey(y)) /\ \A key \in AliasKeys(y) : IsServed(key)
  BY <1>5, KeysServed
<1>7. h.timestamp = p.time
  BY HeardOfService
<1> QED BY <1>2, <1>3, <1>5, <1>6, <1>7

\* The announcer runs while the process does, and not before the port is open.
AnnouncerRuns ==
  /\ phase = "binding" => announcer = "none"
  /\ phase = "exited" => announcer \in {"done", "failed", "killed"}

\* A time at which the port was open.
OpenAt(time) ==
  /\ phase # "binding" /\ since <= time /\ time <= now
  /\ phase = "exited" => time <= until

\* What was sent was sent while the port was open, and what is offered was
\* announced then.
SentOpen   == \A p \in wire : OpenAt(p.time)
OffersOpen == \A o \in actions_by_key :
                o.entry.timestamp \in Nat /\ OpenAt(o.entry.timestamp) /\ IsServed(o.key)

DInv == IInv /\ AnnouncerRuns /\ SentOpen /\ OffersOpen

\* What a step does to the process and to what it sends.
LEMMA ProcessSteps ==
  ASSUME Next
  PROVE  \/ UNCHANGED processVars
         \/ BindFails \/ Bind
         \/ phase # "exited" /\ \E how : Exit(how)
         \/ /\ phase = "accepting" /\ phase' = "draining"
            /\ UNCHANGED <<now, announcerVars, since, until>>
<1>1. CASE \E c \in Clients : ConnectionStep(c)
  BY <1>1 DEF ConnectionStep, Connect, Accept, AcceptFails, HandshakeDone, Ends, Panics,
     RestOfConnections
<1>2. CASE BindFails \/ Bind
  BY <1>2
<1>3. CASE StartFails \/ Crash \/ DrainEnds
  BY <1>3 DEF StartFails, Crash, DrainEnds
<1>4. CASE Signal
  BY <1>4 DEF Signal
<1>5. CASE StopAccepting
  BY <1>5 DEF StopAccepting
<1>6. CASE AnnouncerStep
  BY <1>6 DEF AnnouncerStep, AnnouncerStarts, Announce, AnnouncerWakes, AnnouncerStops, Goodbye,
     PauseEnds, RestOfAnnouncer
<1>7. CASE Tick
  BY <1>7 DEF Tick
<1> QED BY <1>1, <1>2, <1>3, <1>4, <1>5, <1>6, <1>7 DEF Next, ListenerStep

\* The clock does not go back.
LEMMA ClockStep ==
  ASSUME IInv, [Next]_lifecycleVars
  PROVE  now \in Nat /\ now' \in Nat /\ now <= now'
<1>1. now \in Nat
  BY DEF IInv, TypeOK
<1>2. now' = now \/ Tick
  <2>1. CASE \E c \in Clients : ConnectionStep(c)
    BY <2>1 DEF ConnectionStep, Connect, Accept, AcceptFails, HandshakeDone, Ends, Panics,
       RestOfConnections, Exit
  <2>2. CASE BindFails \/ Bind \/ StartFails \/ Crash \/ Signal \/ StopAccepting \/ DrainEnds
    BY <2>2 DEF BindFails, Bind, StartFails, Crash, Signal, StopAccepting, DrainEnds, Exit
  <2>3. CASE AnnouncerStep
    BY <2>3 DEF AnnouncerStep, AnnouncerStarts, Announce, AnnouncerWakes, AnnouncerStops,
       Goodbye, PauseEnds, RestOfAnnouncer
  <2> QED BY <2>1, <2>2, <2>3 DEF Next, ListenerStep, lifecycleVars
<1>3. CASE Tick
  BY <1>1, <1>3 DEF Tick
<1> QED BY <1>1, <1>2, <1>3

\* A time at which the port was open stays one, whatever the process does.
LEMMA OpenStays ==
  ASSUME IInv, NEW time \in Int, OpenAt(time), [Next]_lifecycleVars
  PROVE  OpenAt(time)'
<1>1. now \in Nat /\ now' \in Nat /\ now <= now'
  BY ClockStep
<1>2. CASE UNCHANGED processVars
  BY <1>1, <1>2 DEF OpenAt, processVars
<1>3. CASE phase # "exited" /\ \E how : Exit(how)
  BY <1>1, <1>3 DEF OpenAt, Exit
<1>4. CASE phase = "accepting" /\ phase' = "draining" /\ UNCHANGED <<now, announcerVars, since, until>>
  BY <1>1, <1>4 DEF OpenAt
<1>5. ~BindFails /\ ~Bind
  BY DEF OpenAt, BindFails, Bind
<1>6. CASE UNCHANGED lifecycleVars
  BY <1>2, <1>6 DEF lifecycleVars
<1> QED BY <1>2, <1>3, <1>4, <1>5, <1>6, ProcessSteps

\* The announcer is started with the port open, and ends with the process.
LEMMA AnnouncerRunsStep ==
  ASSUME IInv, AnnouncerRuns, [Next]_lifecycleVars
  PROVE  AnnouncerRuns'
<1>1. CASE AnnouncerStep
  <2>1. announcer \notin {"none", "done", "failed", "killed"} /\ UNCHANGED processVars
    BY <1>1 DEF AnnouncerStep, AnnouncerStarts, Announce, AnnouncerWakes, AnnouncerStops, Goodbye,
       PauseEnds, RestOfAnnouncer
  <2> QED BY <2>1 DEF AnnouncerRuns, processVars
<1>2. CASE \E how : Exit(how)
  BY <1>2 DEF Exit, AnnouncerRuns
<1>3. CASE Bind
  BY <1>3 DEF Bind, AnnouncerRuns
<1>4. CASE BindFails
  BY <1>4 DEF BindFails, AnnouncerRuns, announcerVars
<1>5. CASE phase = "accepting" /\ phase' = "draining" /\ UNCHANGED <<now, announcerVars, since, until>>
  BY <1>5 DEF AnnouncerRuns, announcerVars
<1>6. CASE UNCHANGED <<announcerVars, processVars>>
  BY <1>6 DEF AnnouncerRuns, announcerVars, processVars
<1>7. CASE \E c \in Clients : ConnectionStep(c)
  BY <1>2, <1>6, <1>7 DEF ConnectionStep, Connect, Accept, AcceptFails, HandshakeDone, Ends, Panics,
     RestOfConnections
<1>8. CASE StartFails \/ Crash \/ DrainEnds \/ StopAccepting
  BY <1>2, <1>5, <1>8 DEF StartFails, Crash, DrainEnds, StopAccepting
<1>9. CASE Signal \/ Tick
  BY <1>6, <1>9 DEF Signal, Tick
<1>10. CASE UNCHANGED lifecycleVars
  BY <1>6, <1>10 DEF lifecycleVars
<1> QED BY <1>1, <1>3, <1>4, <1>7, <1>8, <1>9, <1>10 DEF Next, ListenerStep

\* A packet is sent by the announcer, with the time it is.
LEMMA WireStep ==
  ASSUME [Next]_lifecycleVars
  PROVE  \/ UNCHANGED wire
         \/ /\ \E sent \in BOOLEAN : wire' = wire \cup {[active |-> sent, time |-> now]}
            /\ announcer \in {"announcing", "goodbye"} /\ UNCHANGED <<now, processVars>>
<1>1. CASE AnnouncerStep
  BY <1>1 DEF AnnouncerStep, AnnouncerStarts, Announce, AnnouncerWakes, AnnouncerStops, Goodbye,
     PauseEnds, RestOfAnnouncer, Send
<1>2. CASE \E c \in Clients : ConnectionStep(c)
  BY <1>2 DEF ConnectionStep, Connect, Accept, AcceptFails, HandshakeDone, Ends, Panics,
     RestOfConnections, Exit, announcerVars
<1>3. CASE BindFails \/ Bind \/ StartFails \/ Crash \/ Signal \/ StopAccepting \/ DrainEnds
  BY <1>3 DEF BindFails, Bind, StartFails, Crash, Signal, StopAccepting, DrainEnds, Exit,
     announcerVars
<1>4. CASE Tick \/ UNCHANGED lifecycleVars
  BY <1>4 DEF Tick, lifecycleVars, announcerVars
<1> QED BY <1>1, <1>2, <1>3, <1>4 DEF Next, ListenerStep

LEMMA SentOpenStep ==
  ASSUME IInv, AnnouncerRuns, SentOpen, [Next]_lifecycleVars
  PROVE  SentOpen'
<1>1. \A p \in wire : p.time \in Int
  BY DEF IInv, TypeOK
<1>2. \A p \in wire : OpenAt(p.time)'
  <2> SUFFICES ASSUME NEW p \in wire PROVE OpenAt(p.time)'
    OBVIOUS
  <2>1. PICK time \in Int : time = p.time
    BY <1>1
  <2>2. OpenAt(time)'
    BY <2>1, OpenStays DEF SentOpen
  <2> QED BY <2>1, <2>2
<1>3. CASE UNCHANGED wire
  BY <1>2, <1>3 DEF SentOpen
<1>4. ASSUME NEW sent \in BOOLEAN, wire' = wire \cup {[active |-> sent, time |-> now]},
             announcer \in {"announcing", "goodbye"}, UNCHANGED <<now, processVars>>
      PROVE  SentOpen'
  <2>1. phase' \notin {"binding", "exited"} /\ now' = now /\ since' = since
    BY <1>4 DEF AnnouncerRuns, processVars
  <2>2. since <= now
    BY DEF IInv, TypeOK
  <2>3. \A p : p = [active |-> sent, time |-> now] => OpenAt(p.time)'
    BY <2>1, <2>2 DEF OpenAt, IInv, TypeOK
  <2> QED BY <1>2, <1>4, <2>3 DEF SentOpen
<1> QED BY <1>3, <1>4, WireStep

\* A packet received adds entries of its own time, and loses some of before.
LEMMA ReceiveStep ==
  ASSUME DInv, NEW p \in wire, Receive(p)
  PROVE  OffersOpen'
<1>1. UNCHANGED lifecycleVars
  BY DEF Receive
<1>2. p.time \in Nat /\ OpenAt(p.time)
  BY DEF DInv, IInv, TypeOK, SentOpen
<1>3. ASSUME NEW o, o.entry.timestamp \in Nat, OpenAt(o.entry.timestamp) PROVE OpenAt(o.entry.timestamp)'
  BY <1>1, <1>3 DEF OpenAt, lifecycleVars, processVars
<1>4. CASE UNCHANGED indexVars
  BY <1>3, <1>4 DEF DInv, OffersOpen, indexVars
<1>5. ASSUME NEW h \in AnnouncementsIn(p), R!Inject(h, Rights)
      PROVE  OffersOpen'
  <2>1. actions_by_key' = R!Kept(h) \cup R!Offers(h, Rights)
    BY <1>5 DEF R!Inject
  <2>2. R!Kept(h) \subseteq actions_by_key
    BY DEF R!Kept
  <2>3. \A o \in R!Offers(h, Rights) : o.entry.timestamp = p.time /\ IsServed(o.key)
    BY OffersOfService
  <2>4. \A o \in actions_by_key' :
          o.entry.timestamp \in Nat /\ OpenAt(o.entry.timestamp) /\ IsServed(o.key)
    BY <1>2, <2>1, <2>2, <2>3 DEF DInv, OffersOpen
  <2> QED BY <1>3, <2>4 DEF OffersOpen, IsServed
<1> QED BY <1>4, <1>5 DEF Receive

LEMMA DiscoveryStep == DInv /\ [DiscoveryNext]_vars => DInv'
<1> SUFFICES ASSUME DInv, [DiscoveryNext]_vars PROVE DInv'
  OBVIOUS
<1>1. [Next]_lifecycleVars
  BY DEF DiscoveryNext, Receive, vars
<1>2. IInv' /\ AnnouncerRuns' /\ SentOpen'
  BY <1>1, NextIInv, AnnouncerRunsStep, SentOpenStep DEF DInv
<1>3. CASE UNCHANGED indexVars
  <2>1. ASSUME NEW o \in actions_by_key
        PROVE  o.entry.timestamp \in Nat /\ OpenAt(o.entry.timestamp)' /\ IsServed(o.key)
    <3>1. PICK time \in Int : time = o.entry.timestamp /\ OpenAt(time)
      BY DEF DInv, OffersOpen
    <3>2. OpenAt(time)'
      BY <1>1, <3>1, OpenStays DEF DInv
    <3> QED BY <3>1, <3>2 DEF DInv, OffersOpen
  <2>2. OffersOpen'
    BY <1>3, <2>1 DEF OffersOpen, indexVars, IsServed
  <2> QED BY <1>2, <2>2 DEF DInv
<1>4. ASSUME NEW p \in wire, Receive(p) PROVE DInv'
  BY <1>2, <1>4, ReceiveStep DEF DInv
<1> QED BY <1>3, <1>4 DEF DiscoveryNext, vars

\* The receiver does nothing to the process, so what holds of it in ServiceLifecycle
\* holds of it here (observer.rs:72).
THEOREM ProcessKept == DiscoverySpec => Spec
<1>1. DiscoveryInit => Init
  BY DEF DiscoveryInit
<1>2. [DiscoveryNext]_vars => [Next]_lifecycleVars
  BY DEF DiscoveryNext, Receive, vars
<1> QED BY <1>1, <1>2, PTL DEF DiscoverySpec, Spec

\* Whatever the network does, a receiver offers only actions the service has
\* registered, as of a time at which its port was open (announce.rs:47).
THEOREM Served == DiscoverySpec => []OffersServed
<1>1. DiscoveryInit => DInv
  BY InitIInv DEF DiscoveryInit, Init, DInv, AnnouncerRuns, SentOpen, OffersOpen
<1>2. DInv => OffersServed
  BY DEF DInv, OffersOpen, OpenAt, IsServed, OffersServed
<1> QED BY <1>1, <1>2, DiscoveryStep, PTL DEF DiscoverySpec

=============================================================================
