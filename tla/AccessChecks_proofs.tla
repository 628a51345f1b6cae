------------------------- MODULE AccessChecks_proofs -------------------------
(***************************************************************************)
(* Proofs about ConnectionPool and AccessChecks, for any number of callers *)
(* and services, any times and any tables: one live connection per         *)
(* service, no access granted by a table out of date, and no ticket taken  *)
(* for what its issuer has not signed.                                     *)
(***************************************************************************)
EXTENDS AccessChecks, DataTheorems, SequenceTheorems, TLAPS

-----------------------------------------------------------------------------
(* The pool.                                                               *)

\* Whoever connects holds the lock, and the pool has nothing for its uri.
DialingAlone ==
  \A c \in Callers : at[c] = "dialing" => Holds(c) /\ uri[c] \notin DOMAIN connections

\* What OneLivePerUri rests on.
PoolInv ==
  /\ opened \in Seq(Uris) /\ lock \in Seq(Callers)
  /\ at \in [Callers -> {"idle", "queued", "dialing", "served", "failed"}]
  /\ uri \in [Callers -> Uris \cup {NoUri}]
  /\ \A c \in Callers : InLock(c) => uri[c] \in Uris
  /\ DialingAlone /\ OneLivePerUri

LEMMA PoolInitInv == PoolInit => PoolInv
<1> SUFFICES ASSUME PoolInit PROVE PoolInv
  OBVIOUS
<1>1. opened = <<>> /\ lock = <<>> /\ <<>> \in Seq(Uris) /\ <<>> \in Seq(Callers)
  BY DEF PoolInit
<1>2. DOMAIN opened = {}
  BY <1>1
<1>3. DialingAlone /\ OneLivePerUri
  BY <1>2 DEF PoolInit, DialingAlone, OneLivePerUri
<1> QED
  BY <1>1, <1>3 DEF PoolInit, PoolInv, InLock

LEMMA AskInv ==
  ASSUME PoolInv, NEW c \in Callers, NEW u \in Uris, Ask(c, u)
  PROVE  PoolInv'
<1> USE DEF PoolInv
<1>1. /\ lock' \in Seq(Callers)
      /\ at' = [at EXCEPT ![c] = "queued"] /\ uri' = [uri EXCEPT ![c] = u]
      /\ at[c] = "idle"
  BY DEF Ask, Goes
<1>2. DialingAlone'
  <2> SUFFICES ASSUME NEW d \in Callers, at'[d] = "dialing"
               PROVE  Holds(d)' /\ uri'[d] \notin DOMAIN connections'
    BY DEF DialingAlone
  <2>1. d # c /\ at[d] = "dialing" /\ uri'[d] = uri[d]
    BY <1>1
  <2>2. lock # <<>> /\ Head(lock) = d /\ uri[d] \notin DOMAIN connections
    BY <2>1 DEF DialingAlone, Holds
  <2>3. Head(lock') = d /\ lock' # <<>>
    BY <2>2 DEF Ask
  <2> QED
    BY <2>1, <2>2, <2>3 DEF Ask, Holds
<1>3. OneLivePerUri'
  BY DEF Ask, OneLivePerUri
<1>4. \A d \in Callers : InLock(d)' => uri'[d] \in Uris
  BY <1>1 DEF InLock
<1> QED
  BY <1>1, <1>2, <1>3, <1>4 DEF Ask

LEMMA ReuseInv ==
  ASSUME PoolInv, NEW c \in Callers, Reuse(c)
  PROVE  PoolInv'
<1> USE DEF PoolInv
<1>1. /\ lock # <<>> /\ Head(lock) = c
      /\ at[c] = "queued" /\ at' = [at EXCEPT ![c] = "served"] /\ lock' = Tail(lock)
  BY DEF Reuse, Goes, Holds, Release
<1>2. \A d \in Callers : at'[d] # "dialing"
  BY <1>1 DEF DialingAlone, Holds
<1>3. OneLivePerUri' /\ DialingAlone'
  BY <1>2 DEF Reuse, OneLivePerUri, DialingAlone
<1>4. \A d \in Callers : InLock(d)' => uri'[d] \in Uris
  BY <1>1 DEF InLock, Reuse
<1>5. lock' \in Seq(Callers)
  BY <1>1
<1> QED
  BY <1>1, <1>3, <1>4, <1>5 DEF Reuse

LEMMA MissInv ==
  ASSUME PoolInv, NEW c \in Callers, Miss(c)
  PROVE  PoolInv'
<1> USE DEF PoolInv
<1>1. /\ lock # <<>> /\ Head(lock) = c /\ at[c] = "queued"
      /\ at' = [at EXCEPT ![c] = "dialing"]
      /\ UNCHANGED <<lock, opened, closed, uri>>
      /\ connections' = Without(connections, uri[c])
  BY DEF Miss, Goes, Holds
<1>2. \A d \in Callers : at'[d] = "dialing" => d = c
  BY <1>1 DEF DialingAlone, Holds
<1>3. DialingAlone'
  BY <1>1, <1>2 DEF DialingAlone, Holds, Without
<1>4. OneLivePerUri'
  <2> SUFFICES ASSUME NEW h \in DOMAIN opened \ closed
               PROVE  opened[h] \in DOMAIN connections' /\ connections'[opened[h]] = h
    BY <1>1 DEF OneLivePerUri
  <2>1. opened[h] \in DOMAIN connections /\ connections[opened[h]] = h
    BY DEF OneLivePerUri
  <2>2. opened[h] # uri[c]
    BY <2>1 DEF Miss, Live
  <2> QED
    BY <1>1, <2>1, <2>2 DEF Without
<1>5. \A d \in Callers : InLock(d)' => uri'[d] \in Uris
  BY <1>1 DEF InLock
<1> QED
  BY <1>1, <1>3, <1>4, <1>5

LEMMA ConnectFailsInv ==
  ASSUME PoolInv, NEW c \in Callers, ConnectFails(c)
  PROVE  PoolInv'
<1> USE DEF PoolInv
<1>1. /\ lock # <<>> /\ Head(lock) = c /\ lock' = Tail(lock)
      /\ at' = [at EXCEPT ![c] = "failed"]
      /\ UNCHANGED <<connections, opened, closed, uri>>
  BY DEF ConnectFails, Goes, Holds, Release
<1>2. \A d \in Callers : at'[d] # "dialing"
  BY <1>1 DEF DialingAlone, Holds
<1>3. OneLivePerUri' /\ DialingAlone'
  BY <1>1, <1>2 DEF OneLivePerUri, DialingAlone
<1>4. \A d \in Callers : InLock(d)' => uri'[d] \in Uris
  BY <1>1 DEF InLock
<1>5. lock' \in Seq(Callers)
  BY <1>1
<1> QED
  BY <1>1, <1>3, <1>4, <1>5

LEMMA ConnectsInv ==
  ASSUME PoolInv, NEW c \in Callers, Connects(c)
  PROVE  PoolInv'
<1> USE DEF PoolInv
<1> DEFINE new == Len(opened) + 1
<1>1. /\ lock # <<>> /\ Head(lock) = c /\ lock' = Tail(lock)
      /\ at[c] = "dialing" /\ at' = [at EXCEPT ![c] = "served"]
      /\ opened' = Append(opened, uri[c])
      /\ connections' = Insert(connections, uri[c], new)
      /\ UNCHANGED <<closed, uri>>
  BY DEF Connects, Goes, Holds, Release
<1>2. uri[c] \in Uris /\ uri[c] \notin DOMAIN connections
  BY <1>1 DEF InLock, DialingAlone
<1>3. \A d \in Callers : at'[d] # "dialing"
  BY <1>1 DEF DialingAlone, Holds
<1>4. OneLivePerUri'
  <2> SUFFICES ASSUME NEW h \in DOMAIN opened' \ closed
               PROVE  opened'[h] \in DOMAIN connections' /\ connections'[opened'[h]] = h
    BY <1>1 DEF OneLivePerUri
  <2>1. CASE h = new
    <3>1. opened'[h] = uri[c]
      BY <1>1, <1>2, <2>1
    <3> QED
      BY <1>1, <2>1, <3>1 DEF Insert
  <2>2. CASE h # new
    <3>1. h \in DOMAIN opened \ closed /\ opened'[h] = opened[h]
      BY <1>1, <1>2, <2>2
    <3>2. opened[h] \in DOMAIN connections /\ connections[opened[h]] = h
      BY <3>1 DEF OneLivePerUri
    <3>3. opened[h] # uri[c]
      BY <1>2, <3>2
    <3> QED
      BY <1>1, <3>1, <3>2, <3>3 DEF Insert
  <2> QED
    BY <2>1, <2>2
<1>5. \A d \in Callers : InLock(d)' => uri'[d] \in Uris
  BY <1>1 DEF InLock
<1>6. lock' \in Seq(Callers) /\ opened' \in Seq(Uris)
  BY <1>1, <1>2
<1>7. DialingAlone'
  BY <1>3 DEF DialingAlone
<1> QED
  BY <1>1, <1>4, <1>5, <1>6, <1>7

LEMMA CloseInv ==
  ASSUME PoolInv, NEW h \in DOMAIN opened, Close(h)
  PROVE  PoolInv'
<1> USE DEF PoolInv, Close, callerVars
<1>1. OneLivePerUri' /\ DialingAlone'
  BY DEF OneLivePerUri, DialingAlone, Holds
<1> QED
  BY <1>1 DEF InLock

LEMMA LetGoInv ==
  ASSUME PoolInv, NEW c \in Callers, LetGo(c)
  PROVE  PoolInv'
<1> USE DEF PoolInv
<1>1. /\ at[c] \in {"served", "failed"}
      /\ at' = [at EXCEPT ![c] = "idle"] /\ uri' = [uri EXCEPT ![c] = NoUri]
      /\ UNCHANGED <<connections, lock, opened, closed>>
  BY DEF LetGo, Goes
<1>2. DialingAlone'
  BY <1>1 DEF DialingAlone, Holds
<1>3. OneLivePerUri'
  BY <1>1 DEF OneLivePerUri
<1>4. \A d \in Callers : InLock(d)' => uri'[d] \in Uris
  BY <1>1 DEF InLock
<1> QED
  BY <1>1, <1>2, <1>3, <1>4

LEMMA PoolStepInv == PoolInv /\ [PoolNext]_poolVars => PoolInv'
<1> SUFFICES ASSUME PoolInv, [PoolNext]_poolVars PROVE PoolInv'
  OBVIOUS
<1>1. CASE UNCHANGED poolVars
  BY <1>1 DEF PoolInv, poolVars, callerVars, DialingAlone, OneLivePerUri, Holds, InLock
<1>2. ASSUME NEW c \in Callers, Connecting(c) PROVE PoolInv'
  BY <1>2, ReuseInv, MissInv, ConnectsInv, ConnectFailsInv DEF Connecting
<1>3. ASSUME NEW c \in Callers, LetGo(c) PROVE PoolInv'
  BY <1>3, LetGoInv
<1>4. ASSUME NEW c \in Callers, NEW u \in Uris, Ask(c, u) PROVE PoolInv'
  BY <1>4, AskInv
<1>5. ASSUME NEW h \in DOMAIN opened, Close(h) PROVE PoolInv'
  BY <1>5, CloseInv
<1> QED
  BY <1>1, <1>2, <1>3, <1>4, <1>5 DEF PoolNext

\* Whatever callers do with their handles, the pool has at most one live connection
\* per service, the one it hands out.
THEOREM OneLive == PoolSpec => []OneLivePerUri
<1>1. PoolInv => OneLivePerUri
  BY DEF PoolInv
<1> QED
  BY PoolInitInv, PoolStepInv, <1>1, PTL DEF PoolSpec

-----------------------------------------------------------------------------
(* Checks and the pool.                                                    *)

LEMMA AccessStepPool == AccessNext => [PoolNext]_poolVars
<1> SUFFICES ASSUME AccessNext PROVE [PoolNext]_poolVars
  OBVIOUS
<1>1. ASSUME NEW c \in Callers, Check(c) PROVE [PoolNext]_poolVars
  <2>1. CASE \E fields \in Tickets, a \in Actions : Begin(c, fields, a)
    BY <2>1 DEF Begin
  <2>2. CASE UsesCache(c) \/ FindsNone(c)
    BY <2>2 DEF UsesCache, FindsNone
  <2>3. CASE \E u \in Uris : MissesCache(c, u) \/ Retries(c, u)
    BY <2>3 DEF MissesCache, Retries, PoolNext
  <2>4. CASE Dials(c)
    BY <2>4 DEF Dials, PoolNext
  <2>5. CASE Sends(c) \/ Sent(c)
    BY <2>5 DEF Sends, Sent
  <2>6. CASE CannotSend(c) \/ SendFails(c)
    BY <2>6 DEF CannotSend, SendFails, PoolNext
  <2>7. CASE AuthAnswers(c)
    BY <2>7 DEF AuthAnswers
  <2>8. CASE AuthErrs(c) \/ DispatchFailure(c) \/ GetsNone(c) \/ Receives(c)
    BY <2>8 DEF AuthErrs, DispatchFailure, GetsNone, Receives, PoolNext
  <2> QED
    BY <1>1, <2>1, <2>2, <2>3, <2>4, <2>5, <2>6, <2>7, <2>8 DEF Check, Looks, Uses
<1>2. ASSUME NEW a \in Answers, AuthChanges(a) PROVE [PoolNext]_poolVars
  BY <1>2 DEF AuthChanges
<1>3. CASE Closes
  BY <1>3 DEF Closes, PoolNext
<1>4. CASE Tick
  BY <1>4 DEF Tick
<1> QED
  BY <1>1, <1>2, <1>3, <1>4 DEF AccessNext

\* Access checks do to the pool only what ConnectionPool allows.
THEOREM PoolKept == AccessSpec => PoolSpec
<1>1. AccessInit => PoolInit
  BY DEF AccessInit
<1>2. [AccessNext]_accessVars => [PoolNext]_poolVars
  BY AccessStepPool DEF accessVars
<1> QED
  BY <1>1, <1>2, PTL DEF AccessSpec, PoolSpec

-----------------------------------------------------------------------------
(* What a table grants.                                                    *)

LEMMA GrantsJustifies ==
  ASSUME NEW text \in Answers, NEW a, NEW held, Grants(PrivilegeTable(text), a, held)
  PROVE  Justifies(text, a, held)
<1> DEFINE S == {i \in Listed(text) : text.entries[i].word = a}
<1>1. /\ a \in {text.entries[i].word : i \in Listed(text)}
      /\ Numbers(text.entries[Max(S)].value.parts) \subseteq held
  BY DEF Grants, PrivilegeTable
<1>2. Len(text.entries) \in Nat /\ S \subseteq 1..Len(text.entries) /\ S # {}
  BY <1>1, AccessAssumption DEF Listed
<1>3. Max(S) \in S /\ \A i \in S : i <= Max(S)
  <2> HIDE DEF S
  <2> QED
    BY <1>2, MaxOf
<1>4. Max(S) \in 1..Len(text.entries) /\ Listed(text) \subseteq 1..Len(text.entries)
  BY <1>2, <1>3, AccessAssumption DEF Listed
<1>5. \A j \in Listed(text) : j > Max(S) => text.entries[j].word # a
  BY <1>3, <1>4
<1> QED
  BY <1>1, <1>3, <1>5 DEF Justifies

-----------------------------------------------------------------------------
(* The age of a table.                                                     *)

Places ==
  {"idle", "verified", "connecting", "retrying", "sending", "asking", "answered", "granted"}

ChecksTyped ==
  /\ place \in [Callers -> Places]
  /\ asked \in [Callers -> Nat]
  /\ answer \in [Callers -> Answers \cup {NoAnswer}]

ClockTyped ==
  /\ now \in Nat /\ authTable \in Answers
  /\ lastCurrent \in [Answers -> Int] /\ lastCurrent[authTable] = now
  /\ \A text \in Answers : lastCurrent[text] <= now

\* A request is awaited for RpcTimeout at most, and its answer is not older.
InTimeFor(c) ==
  /\ Awaits(c) => asked[c] <= now /\ now <= asked[c] + RpcTimeout
  /\ place[c] = "answered" => answer[c] \in Answers /\ lastCurrent[answer[c]] >= asked[c]

ChecksInTime == \A c \in Callers : InTimeFor(c)

\* What is cached was current when its request was sent, or later.
CacheInTime ==
  cached = NoTable \/
  \E text \in Answers :
    /\ cached.table = PrivilegeTable(text) /\ cached.expires \in Int
    /\ lastCurrent[text] >= cached.expires - Ttl - RpcTimeout

AgeInv == ChecksTyped /\ ClockTyped /\ ChecksInTime /\ CacheInTime

LEMMA InitAge == AccessInit => AgeInv
<1> SUFFICES ASSUME AccessInit PROVE AgeInv
  OBVIOUS
<1>1. ChecksTyped
  BY DEF AccessInit, ChecksTyped, Places
<1>2. ClockTyped
  BY AccessAssumption DEF AccessInit, ClockTyped, Never
<1>3. ChecksInTime
  BY DEF AccessInit, ChecksInTime, InTimeFor, Awaits
<1> QED
  BY <1>1, <1>2, <1>3 DEF AccessInit, AgeInv, CacheInTime

\* A step that moves one check, and not to where it awaits an answer.
LEMMA LeavesAge ==
  ASSUME AgeInv, NEW c \in Callers, NEW p \in Places \ {"asking", "answered"},
         place' = [place EXCEPT ![c] = p],
         NEW t \in Nat, asked' = asked \/ asked' = [asked EXCEPT ![c] = t],
         answer' = answer \/ answer' = [answer EXCEPT ![c] = NoAnswer],
         UNCHANGED <<now, authVars>>
  PROVE  ChecksTyped' /\ ClockTyped' /\ ChecksInTime'
<1> USE DEF AgeInv, authVars
<1>1. ChecksTyped'
  BY DEF ChecksTyped
<1>2. ClockTyped'
  BY DEF ClockTyped
<1>3. ASSUME NEW d \in Callers PROVE InTimeFor(d)'
  <2>1. CASE d = c
    BY <2>1 DEF InTimeFor, Awaits, ChecksTyped
  <2>2. CASE d # c
    <3>1. place'[d] = place[d] /\ asked'[d] = asked[d] /\ answer'[d] = answer[d]
      BY <2>2 DEF ChecksTyped
    <3>2. InTimeFor(d)
      BY DEF ChecksInTime
    <3> QED
      BY <3>1, <3>2 DEF InTimeFor, Awaits
  <2> QED
    BY <2>1, <2>2
<1> QED
  BY <1>1, <1>2, <1>3 DEF ChecksInTime

LEMMA ReturnsAge ==
  ASSUME AgeInv, NEW c \in Callers, NEW p \in {"idle", "granted"}, Returns(c, p),
         UNCHANGED <<now, authVars>>
  PROVE  ChecksTyped' /\ ClockTyped' /\ ChecksInTime'
<1>1. p \in Places \ {"asking", "answered"} /\ 0 \in Nat
  BY DEF Places
<1>2. /\ place' = [place EXCEPT ![c] = p] /\ asked' = [asked EXCEPT ![c] = 0]
      /\ answer' = [answer EXCEPT ![c] = NoAnswer]
  BY DEF Returns
<1> QED
  BY <1>1, <1>2, LeavesAge

LEMMA DecidesAge ==
  ASSUME AgeInv, NEW c \in Callers, NEW table, Decides(c, table), UNCHANGED <<now, authVars>>
  PROVE  ChecksTyped' /\ ClockTyped' /\ ChecksInTime'
<1>1. PICK p \in {"idle", "granted"} : Returns(c, p)
  BY DEF Decides
<1> QED
  BY <1>1, ReturnsAge

LEMMA BeginAge ==
  ASSUME AgeInv, NEW c \in Callers, NEW fields \in Tickets, NEW a \in Actions, Begin(c, fields, a)
  PROVE  AgeInv'
<1>1. CacheInTime' /\ UNCHANGED <<now, authVars>>
  BY DEF AgeInv, CacheInTime, Begin, authVars
<1>2. CASE Verify(fields, now).ok
  <2>1. /\ place' = [place EXCEPT ![c] = "verified"]
        /\ UNCHANGED <<asked, answer>>
    BY <1>2 DEF Begin
  <2>2. "verified" \in Places \ {"asking", "answered"} /\ 0 \in Nat
    BY DEF Places
  <2> QED
    BY <1>1, <2>1, <2>2, LeavesAge DEF AgeInv
<1>3. CASE ~Verify(fields, now).ok
  BY <1>1, <1>3, ReturnsAge DEF Begin, AgeInv
<1> QED
  BY <1>2, <1>3

\* The steps by which a check looks for a connection, begins to use it, or gives up.
LEMMA LooksAge ==
  ASSUME AgeInv, NEW c \in Callers,
         \/ Looks(c) \/ Uses(c) \/ SendFails(c)
         \/ AuthErrs(c) \/ DispatchFailure(c) \/ GetsNone(c)
  PROVE  AgeInv'
<1>1. CacheInTime' /\ UNCHANGED <<now, authVars>>
  BY DEF AgeInv, CacheInTime, authVars, Looks, UsesCache, FindsNone, MissesCache, Retries,
         Uses, Sends, CannotSend, SendFails, AuthErrs, DispatchFailure, GetsNone
<1>2. {"connecting", "retrying", "sending"} \subseteq Places \ {"asking", "answered"}
  BY DEF Places
<1>3. CASE UsesCache(c)
  BY <1>1, <1>3, DecidesAge DEF UsesCache, AgeInv
<1>4. CASE FindsNone(c) \/ CannotSend(c) \/ SendFails(c) \/ AuthErrs(c) \/ GetsNone(c)
  BY <1>1, <1>4, ReturnsAge
  DEF FindsNone, CannotSend, SendFails, AuthErrs, GetsNone, AgeInv
<1>5. CASE \E u \in Uris : MissesCache(c, u) \/ Retries(c, u)
  <2>1. place' = [place EXCEPT ![c] = "connecting"] /\ UNCHANGED <<asked, answer>>
    BY <1>5 DEF MissesCache, Retries, Moves
  <2> QED
    BY <1>1, <1>2, <2>1, LeavesAge DEF AgeInv
<1>6. CASE DispatchFailure(c)
  <2>1. /\ place' = [place EXCEPT ![c] = "retrying"]
        /\ asked' = [asked EXCEPT ![c] = 0] /\ answer' = answer
    BY <1>6 DEF DispatchFailure, Moves
  <2> QED
    BY <1>1, <1>2, <2>1, LeavesAge DEF AgeInv
<1>7. CASE Sends(c)
  <2>1. place' = [place EXCEPT ![c] = "sending"] /\ UNCHANGED <<asked, answer>>
    BY <1>7 DEF Sends, Moves
  <2> QED
    BY <1>1, <1>2, <2>1, LeavesAge DEF AgeInv
<1> QED
  BY <1>3, <1>4, <1>5, <1>6, <1>7 DEF Looks, Uses

LEMMA SentAge ==
  ASSUME AgeInv, NEW c \in Callers, Sent(c)
  PROVE  AgeInv'
<1> USE DEF AgeInv
<1>1. /\ place' = [place EXCEPT ![c] = "asking"] /\ asked' = [asked EXCEPT ![c] = now]
      /\ UNCHANGED <<now, cached, authTable, lastCurrent, answer>>
  BY DEF Sent, Moves, authVars
<1>2. ChecksTyped' /\ ClockTyped' /\ CacheInTime'
  BY <1>1 DEF ChecksTyped, ClockTyped, CacheInTime, Places
<1>3. ASSUME NEW d \in Callers PROVE InTimeFor(d)'
  <2>1. CASE d = c
    BY <1>1, <2>1, AccessAssumption DEF InTimeFor, Awaits, ChecksTyped, ClockTyped
  <2>2. CASE d # c
    BY <1>1, <2>2 DEF ChecksInTime, InTimeFor, Awaits, ChecksTyped
  <2> QED
    BY <2>1, <2>2
<1> QED
  BY <1>2, <1>3 DEF ChecksInTime

LEMMA AuthAnswersAge ==
  ASSUME AgeInv, NEW c \in Callers, AuthAnswers(c)
  PROVE  AgeInv'
<1> USE DEF AgeInv
<1>1. /\ place[c] = "asking" /\ place' = [place EXCEPT ![c] = "answered"]
      /\ answer' = [answer EXCEPT ![c] = authTable]
      /\ UNCHANGED <<now, cached, authTable, lastCurrent, asked>>
  BY DEF AuthAnswers, Moves, authVars
<1>2. ChecksTyped' /\ ClockTyped' /\ CacheInTime'
  BY <1>1 DEF ChecksTyped, ClockTyped, CacheInTime, Places
<1>3. ASSUME NEW d \in Callers PROVE InTimeFor(d)'
  <2>1. CASE d = c
    BY <1>1, <2>1 DEF ChecksInTime, InTimeFor, Awaits, ChecksTyped, ClockTyped
  <2>2. CASE d # c
    BY <1>1, <2>2 DEF ChecksInTime, InTimeFor, Awaits, ChecksTyped
  <2> QED
    BY <2>1, <2>2
<1> QED
  BY <1>2, <1>3 DEF ChecksInTime

LEMMA ReceivesAge ==
  ASSUME AgeInv, NEW c \in Callers, Receives(c)
  PROVE  AgeInv'
<1>1. ChecksTyped' /\ ClockTyped' /\ ChecksInTime'
  BY DecidesAge DEF Receives
<1>2. /\ answer[c] \in Answers /\ lastCurrent[answer[c]] >= asked[c]
      /\ now <= asked[c] + RpcTimeout
  BY DEF Receives, AgeInv, ChecksInTime, InTimeFor, Awaits
<1>3. /\ cached'.table = PrivilegeTable(answer[c]) /\ cached'.expires = now + Ttl
      /\ lastCurrent' = lastCurrent
  BY DEF Receives, authVars
<1>4. lastCurrent[answer[c]] >= (now + Ttl) - Ttl - RpcTimeout /\ now + Ttl \in Int
  BY <1>2, AccessAssumption DEF AgeInv, ChecksTyped, ClockTyped
<1> QED
  BY <1>1, <1>2, <1>3, <1>4 DEF AgeInv, CacheInTime

\* The clock and the Auth service make no text older than it was.
LEMMA NoOlder ==
  ASSUME AgeInv, UNCHANGED <<cached, checkVars>>, ClockTyped',
         \A text \in Answers : lastCurrent'[text] >= lastCurrent[text],
         \A c \in Callers : Awaits(c) => asked[c] <= now' /\ now' <= asked[c] + RpcTimeout
  PROVE  AgeInv'
<1> USE DEF AgeInv, checkVars
<1>1. ChecksTyped'
  BY DEF ChecksTyped
<1>2. ChecksInTime'
  BY DEF ChecksInTime, InTimeFor, Awaits, ClockTyped, ChecksTyped
<1>3. CacheInTime'
  BY AccessAssumption DEF CacheInTime, ClockTyped
<1> QED
  BY <1>1, <1>2, <1>3

LEMMA TickAge == AgeInv /\ Tick => AgeInv'
<1> SUFFICES ASSUME AgeInv, Tick PROVE AgeInv'
  OBVIOUS
<1>1. ClockTyped' /\ \A text \in Answers : lastCurrent'[text] >= lastCurrent[text]
  BY DEF AgeInv, ClockTyped, Tick
<1>2. \A c \in Callers : Awaits(c) => asked[c] <= now' /\ now' <= asked[c] + RpcTimeout
  BY AccessAssumption
  DEF AgeInv, Tick, Overdue, ChecksInTime, InTimeFor, ChecksTyped, ClockTyped
<1> QED
  BY <1>1, <1>2, NoOlder DEF Tick

LEMMA AuthChangesAge ==
  ASSUME AgeInv, NEW a \in Answers, AuthChanges(a)
  PROVE  AgeInv'
<1>1. ClockTyped' /\ \A text \in Answers : lastCurrent'[text] >= lastCurrent[text]
  BY DEF AgeInv, ClockTyped, AuthChanges
<1>2. \A c \in Callers : Awaits(c) => asked[c] <= now' /\ now' <= asked[c] + RpcTimeout
  BY DEF AgeInv, AuthChanges, ChecksInTime, InTimeFor
<1> QED
  BY <1>1, <1>2, NoOlder DEF AuthChanges

LEMMA StillAge ==
  ASSUME AgeInv, UNCHANGED <<now, cached, authVars, checkVars>>
  PROVE  AgeInv'
BY DEF AgeInv, authVars, checkVars, ChecksTyped, ClockTyped, ChecksInTime, InTimeFor, Awaits,
       CacheInTime

LEMMA StepAge == AgeInv /\ [AccessNext]_accessVars => AgeInv'
<1> SUFFICES ASSUME AgeInv, [AccessNext]_accessVars PROVE AgeInv'
  OBVIOUS
<1>1. ASSUME NEW c \in Callers, Check(c) PROVE AgeInv'
  <2>1. ASSUME NEW fields \in Tickets, NEW a \in Actions, Begin(c, fields, a) PROVE AgeInv'
    BY <2>1, BeginAge
  <2>2. CASE Dials(c)
    BY <2>2, StillAge DEF Dials
  <2>3. CASE \/ Looks(c) \/ Uses(c) \/ SendFails(c)
             \/ AuthErrs(c) \/ DispatchFailure(c) \/ GetsNone(c)
    BY <2>3, LooksAge
  <2>4. CASE Sent(c) \/ AuthAnswers(c) \/ Receives(c)
    BY <2>4, SentAge, AuthAnswersAge, ReceivesAge
  <2> QED
    BY <1>1, <2>1, <2>2, <2>3, <2>4 DEF Check, Uses
<1>2. CASE Closes \/ UNCHANGED accessVars
  BY <1>2, StillAge DEF Closes, accessVars
<1> QED
  BY <1>1, <1>2, TickAge, AuthChangesAge DEF AccessNext

\* What a step that grants relies on.
GrantStep ==
  \A c \in Callers :
    place'[c] = "granted" /\ place[c] # "granted" =>
      \E text \in Answers :
        /\ lastCurrent[text] > now - Ttl - RpcTimeout
        /\ Justifies(text, action[c], privileges[c])

LEMMA DecidesGrants ==
  ASSUME AgeInv, NEW c \in Callers, NEW text \in Answers,
         Decides(c, PrivilegeTable(text)), lastCurrent[text] > now - Ttl - RpcTimeout
  PROVE  GrantStep
<1> SUFFICES ASSUME NEW d \in Callers, place'[d] = "granted", place[d] # "granted"
             PROVE  \E x \in Answers :
                      /\ lastCurrent[x] > now - Ttl - RpcTimeout
                      /\ Justifies(x, action[d], privileges[d])
  BY DEF GrantStep
<1>1. d = c
  BY DEF Decides, Returns, AgeInv, ChecksTyped
<1>2. Grants(PrivilegeTable(text), action[c], privileges[c])
  BY <1>1 DEF Decides, Returns, AgeInv, ChecksTyped
<1> QED
  BY <1>1, <1>2, GrantsJustifies

LEMMA NoGrant ==
  ASSUME AgeInv,
         \/ place' = place
         \/ \E c \in Callers, p \in Places \ {"granted"} : place' = [place EXCEPT ![c] = p]
  PROVE  GrantStep
BY DEF GrantStep, AgeInv, ChecksTyped

LEMMA CheckGrants ==
  ASSUME AgeInv, NEW c \in Callers, Check(c)
  PROVE  GrantStep
<1> USE DEF AgeInv
<1>1. CASE UsesCache(c)
  <2>1. now < cached.expires /\ now \in Nat /\ cached # NoTable
    BY <1>1 DEF UsesCache, IsFresh, NoTable, ClockTyped
  <2>2. PICK text \in Answers :
          /\ cached.table = PrivilegeTable(text) /\ cached.expires \in Int
          /\ lastCurrent[text] >= cached.expires - Ttl - RpcTimeout
    BY <2>1 DEF CacheInTime
  <2>3. lastCurrent[text] > now - Ttl - RpcTimeout
    BY <2>1, <2>2, AccessAssumption DEF ClockTyped
  <2> QED
    BY <1>1, <2>2, <2>3, DecidesGrants DEF UsesCache
<1>2. CASE Receives(c)
  <2>1. /\ answer[c] \in Answers /\ lastCurrent[answer[c]] >= asked[c]
        /\ now <= asked[c] + RpcTimeout
    BY <1>2 DEF Receives, ChecksInTime, InTimeFor, Awaits
  <2>2. lastCurrent[answer[c]] > now - Ttl - RpcTimeout
    BY <2>1, AccessAssumption DEF ChecksTyped, ClockTyped
  <2> QED
    BY <1>2, <2>1, <2>2, DecidesGrants DEF Receives
<1>3. CASE Dials(c)
  BY <1>3, NoGrant DEF Dials, checkVars
<1>4. CASE \E fields \in Tickets, a \in Actions : Begin(c, fields, a)
  BY <1>4, NoGrant DEF Begin, Returns, Places
<1>5. CASE \E u \in Uris : MissesCache(c, u) \/ Retries(c, u)
  BY <1>5, NoGrant DEF MissesCache, Retries, Moves, Places
<1>6. CASE FindsNone(c) \/ CannotSend(c) \/ SendFails(c) \/ AuthErrs(c) \/ GetsNone(c)
  BY <1>6, NoGrant DEF FindsNone, CannotSend, SendFails, AuthErrs, GetsNone, Returns, Places
<1>7. CASE Sends(c) \/ Sent(c) \/ AuthAnswers(c) \/ DispatchFailure(c)
  BY <1>7, NoGrant DEF Sends, Sent, AuthAnswers, DispatchFailure, Moves, Places
<1> QED
  BY <1>1, <1>2, <1>3, <1>4, <1>5, <1>6, <1>7 DEF Check, Looks, Uses

LEMMA StepGrants == AgeInv /\ [AccessNext]_accessVars => GrantStep
<1> SUFFICES ASSUME AgeInv, [AccessNext]_accessVars PROVE GrantStep
  OBVIOUS
<1>1. CASE Closes \/ Tick \/ UNCHANGED accessVars \/ \E a \in Answers : AuthChanges(a)
  BY <1>1, NoGrant DEF Closes, Tick, AuthChanges, accessVars, checkVars
<1> QED
  BY <1>1, CheckGrants DEF AccessNext

\* For any number of concurrent checks, any table and any times: nothing is granted
\* that no table of the last Ttl + RpcTimeout seconds allows.
THEOREM GrantsAreJustified == AccessSpec => GrantsJustified
<1>1. AgeInv /\ [AccessNext]_accessVars => [GrantStep]_accessVars
  BY StepGrants
<1> QED
  BY InitAge, StepAge, <1>1, PTL DEF AccessSpec, GrantsJustified, GrantStep

-----------------------------------------------------------------------------
(* Tickets.                                                                *)

\* What the issuer signs: the first six fields of a ticket.
Body(start, ttl, parts) ==
  <<Number(1), Number(7), Number(8), Number(start), Number(ttl), Privileges(parts)>>

\* The issuer's key is used for nothing else.
IssuerSigns(part) ==
  part.is = "signature" /\ part.by = VerifyKey =>
    \E start, ttl \in 0..MaxU64, parts \in Seq({Number(n) : n \in 0..MaxU64}) :
      part.what = Body(start, ttl, parts)

\* What the issuer has signed is a body.
LEMMA SignedBody ==
  ASSUME NEW body, IssuerSigns(Signed(VerifyKey, body))
  PROVE  \E start, ttl \in 0..MaxU64, parts \in Seq({Number(n) : n \in 0..MaxU64}) :
           body = Body(start, ttl, parts)
<1>1. PICK part : part = Signed(VerifyKey, body)
  OBVIOUS
<1>2. part.is = "signature" /\ part.by = VerifyKey /\ part.what = body
  BY <1>1 DEF Signed
<1> QED BY <1>1, <1>2, Zenon DEF IssuerSigns

\* u64 addition that wraps: beyond the largest, the sum is less than what was added to.
LEMMA WrapsBelow ==
  ASSUME NEW start \in 0..MaxU64, NEW ttl \in 0..MaxU64
  PROVE  /\ start + ttl <= MaxU64 => (start + ttl) % (MaxU64 + 1) = start + ttl
         /\ start + ttl > MaxU64 => (start + ttl) % (MaxU64 + 1) < start
<1> USE TicketAssumption
<1>1. PICK m \in Nat : m = MaxU64 + 1
  OBVIOUS
<1>2. ASSUME NEW x \in Nat, x < m PROVE x % m = x
  BY <1>1, <1>2
<1>3. ASSUME NEW x \in Nat, m <= x, x < m + m PROVE x % m = x - m
  BY <1>1, <1>3
<1> QED BY <1>1, <1>2, <1>3

\* All but the last, with the last, make the whole.
LEMMA FrontAndLast ==
  ASSUME NEW S, NEW s \in Seq(S)
  PROVE  /\ s # <<>> => Len(Front(s)) = Len(s) - 1 /\ s = Append(Front(s), s[Len(s)])
         /\ \A e \in S : Front(Append(s, e)) = s
<1>1. ASSUME NEW t \in Seq(S), t # <<>>
      PROVE  /\ Front(t) \in Seq(S) /\ Len(Front(t)) = Len(t) - 1
             /\ \A i \in 1..(Len(t) - 1) : Front(t)[i] = t[i]
  <2>1. Len(t) \in Nat \ {0} /\ \A i \in 1..Len(t) : t[i] \in S
    BY <1>1
  <2>2. PICK n \in Nat : n = Len(t) - 1
    BY <2>1
  <2>3. \A i \in 1..n : t[i] \in S
    BY <2>1, <2>2
  <2>4. /\ SubSeq(t, 1, n) \in Seq(S) /\ Len(SubSeq(t, 1, n)) = IF 1 <= n THEN n - 1 + 1 ELSE 0
        /\ \A i \in 1..(n - 1 + 1) : SubSeq(t, 1, n)[i] = t[1 + i - 1]
    <3>1. \A a \in Int, b \in Int : (\A i \in a..b : t[i] \in S) =>
            /\ SubSeq(t, a, b) \in Seq(S)
            /\ Len(SubSeq(t, a, b)) = IF a <= b THEN b - a + 1 ELSE 0
            /\ \A i \in 1..(b - a + 1) : SubSeq(t, a, b)[i] = t[a + i - 1]
      BY SubSeqProperties
    <3> QED BY <2>2, <2>3, <3>1
  <2> QED BY <2>2, <2>4 DEF Front
<1>2. ASSUME s # <<>> PROVE s = Append(Front(s), s[Len(s)])
  <2>1. Len(s) \in Nat \ {0} /\ s[Len(s)] \in S
    BY <1>2
  <2> DEFINE t == Append(Front(s), s[Len(s)])
  <2>2. /\ t \in Seq(S) /\ Len(t) = Len(Front(s)) + 1 /\ t[Len(Front(s)) + 1] = s[Len(s)]
        /\ \A i \in 1..Len(Front(s)) : t[i] = Front(s)[i]
    BY <1>1, <1>2, <2>1, AppendProperties
  <2>3. Len(t) = Len(s) /\ \A i \in 1..Len(s) : t[i] = s[i]
    BY <1>1, <1>2, <2>1, <2>2
  <2> QED BY <2>2, <2>3, SeqEqual
<1>3. ASSUME NEW e \in S PROVE Front(Append(s, e)) = s
  <2> DEFINE t == Append(s, e)
  <2>1. /\ t \in Seq(S) /\ t # <<>> /\ Len(t) = Len(s) + 1 /\ Len(s) \in Nat
        /\ \A i \in 1..Len(s) : t[i] = s[i]
    BY AppendProperties
  <2>2. Front(t) \in Seq(S) /\ Len(Front(t)) = Len(s) /\ \A i \in 1..Len(s) : Front(t)[i] = s[i]
    <3> HIDE DEF t
    <3> QED BY <1>1, <2>1
  <2> QED BY <2>2, SeqEqual
<1> QED BY <1>1, <1>2, <1>3

\* What Append adds, and what it leaves.
LEMMA AppendOf ==
  ASSUME NEW T, NEW q \in Seq(T), NEW e \in T
  PROVE  /\ Len(Append(q, e)) = Len(q) + 1 /\ Append(q, e)[Len(q) + 1] = e
         /\ \A i \in 1..Len(q) : Append(q, e)[i] = q[i]
  BY AppendProperties

\* A ticket is its body and the signature of it.
LEMMA IssuedFacts ==
  ASSUME NEW key, NEW start, NEW ttl, NEW parts
  PROVE  /\ Issued(key, start, ttl, parts) =
              Append(Body(start, ttl, parts), Signed(key, Body(start, ttl, parts)))
         /\ Front(Issued(key, start, ttl, parts)) = Body(start, ttl, parts)
         /\ Len(Issued(key, start, ttl, parts)) = 7
         /\ Issued(key, start, ttl, parts)[7] = Signed(key, Body(start, ttl, parts))
         /\ \A i \in 1..6 : Issued(key, start, ttl, parts)[i] = Body(start, ttl, parts)[i]
<1> DEFINE body == Body(start, ttl, parts)
           last == Signed(key, body)
           S == {body[i] : i \in 1..6} \cup {last}
<1>1. body \in Seq(S)
  BY DEF Body
<1>2. Issued(key, start, ttl, parts) = Append(body, last)
  BY Zenon DEF Issued, Body
<1> HIDE DEF body, last, S
<1>3. last \in S
  BY DEF S
<1>4. Front(Append(body, last)) = body
  BY <1>1, <1>3, FrontAndLast
<1>5. PICK t, n : t = Append(body, last) /\ n = Len(body)
  OBVIOUS
<1>6. Len(t) = n + 1 /\ t[n + 1] = last /\ \A i \in 1..n : t[i] = body[i]
  BY <1>1, <1>3, <1>5, AppendOf
<1>7. n = 6
  BY <1>5 DEF body, Body
<1>8. Len(t) = 7 /\ t[7] = last /\ \A i \in 1..6 : t[i] = body[i]
  BY <1>6, <1>7
<1> QED BY <1>2, <1>4, <1>5, <1>8 DEF body, last

\* A ticket is accepted if and only if it is as its issuer signed it, and from its
\* start until its end, which is not beyond the largest u64; it then carries the
\* privileges that have been signed (ticket.rs:67).
THEOREM TicketsMeant ==
  ASSUME NEW S, NEW fields \in Seq(S), NEW time \in Nat, 8 <= MaxU64,
         \A i \in DOMAIN fields : IssuerSigns(fields[i])
  PROVE  /\ Verify(fields, time).ok <=> Valid(fields, time)
         /\ Verify(fields, time).ok =>
              Verify(fields, time).ticket.privileges =
                {part.of : part \in Range(fields[6].parts)}
<1> USE TicketAssumption
<1> DEFINE Part == {Number(n) : n \in 0..MaxU64}
<1>1. \A n \in 0..MaxU64 : IsU64(Number(n))
  BY DEF IsU64, Number
<1>2. ASSUME NEW start \in 0..MaxU64, NEW ttl \in 0..MaxU64, NEW parts \in Seq(Part),
             fields = Issued(VerifyKey, start, ttl, parts)
      PROVE  /\ Verify(fields, time).ok <=>
                  start <= time /\ time < start + ttl /\ start + ttl <= MaxU64
             /\ Verify(fields, time).ok =>
                  Verify(fields, time).ticket.privileges = Numbers(Range(fields[6].parts))
  <2> DEFINE ticket == [start |-> start, ttl |-> ttl, signature |-> fields[7],
                        privileges |-> Numbers(Range(parts))]
  <2>1. /\ Len(fields) = 7 /\ fields[1] = Number(1) /\ fields[2] = Number(7)
        /\ fields[3] = Number(8) /\ fields[4] = Number(start) /\ fields[5] = Number(ttl)
        /\ fields[6] = Privileges(parts)
        /\ fields[7] = Signed(VerifyKey, Front(fields))
    <3>1. /\ Len(fields) = 7 /\ Front(fields) = Body(start, ttl, parts)
          /\ fields[7] = Signed(VerifyKey, Body(start, ttl, parts))
          /\ \A i \in 1..6 : fields[i] = Body(start, ttl, parts)[i]
      BY <1>2, IssuedFacts
    <3> QED BY <3>1 DEF Body
  <2>2. \A i \in DOMAIN parts : IsU64(parts[i])
    BY <1>1
  <2>3. \A i \in 1..5 : IsU64(fields[i])
    BY <1>1, <2>1
  <2>4. ParseTicket(fields) = Accepted(ticket)
    BY <2>1, <2>2, <2>3 DEF ParseTicket, Privileges, Number, Signed
  <2>5. SignatureHolds(ticket, fields)
    BY <2>1 DEF SignatureHolds
  <2>6. InTime(ticket, time) <=>
          start <= time /\ time < start + ttl /\ start + ttl <= MaxU64
    <3>1. PICK end : end = (start + ttl) % (MaxU64 + 1)
      OBVIOUS
    <3>2. InTime(ticket, time) <=> start <= time /\ time < end
      BY <3>1 DEF InTime
    <3>3. /\ start + ttl <= MaxU64 => end = start + ttl
          /\ start + ttl > MaxU64 => end < start
      BY <3>1, WrapsBelow
    <3>4. end \in Int
      BY <3>1
    <3> QED BY <3>2, <3>3, <3>4
  <2>7. Verify(fields, time) = IF InTime(ticket, time) THEN Accepted(ticket) ELSE Refused
    BY <2>4, <2>5 DEF Verify, Accepted
  <2> QED BY <2>1, <2>6, <2>7 DEF Accepted, Refused, Privileges
<1>3. ASSUME Verify(fields, time).ok
      PROVE  \E start, ttl \in 0..MaxU64, parts \in Seq(Part) :
               fields = Issued(VerifyKey, start, ttl, parts)
  <2>1. /\ ParseTicket(fields).ok
        /\ SignatureHolds(ParseTicket(fields).ticket, fields)
    BY <1>3 DEF Verify, Refused
  <2>2. Len(fields) > 6 /\ fields[7] = Signed(VerifyKey, Front(fields))
    BY <2>1 DEF ParseTicket, SignatureHolds, Refused, Accepted, Signed, NoSignature
  <2>3. PICK start \in 0..MaxU64, ttl \in 0..MaxU64, parts \in Seq(Part) :
          Front(fields) = Body(start, ttl, parts)
    <3>1. 7 \in DOMAIN fields /\ IssuerSigns(fields[7])
      BY <2>2
    <3>2. fields[7].is = "signature" /\ fields[7].by = VerifyKey /\ fields[7].what = Front(fields)
      BY <2>2 DEF Signed
    <3> QED BY <3>1, <3>2, Zenon DEF IssuerSigns
  <2>4. Len(fields) = 7 /\ fields = Append(Front(fields), fields[7])
    <3>1. Len(Front(fields)) = 6
      BY <2>3 DEF Body
    <3>2. Len(Front(fields)) = Len(fields) - 1
      BY <2>2, FrontAndLast
    <3>3. 6 = Len(fields) - 1
      BY <3>1, <3>2, Zenon
    <3>4. Len(fields) = 7
      BY <3>3
    <3>5. fields = Append(Front(fields), fields[Len(fields)])
      BY <2>2, FrontAndLast
    <3> QED BY <3>4, <3>5
  <2>5. fields = Issued(VerifyKey, start, ttl, parts)
    <3>1. Issued(VerifyKey, start, ttl, parts) =
            Append(Body(start, ttl, parts), Signed(VerifyKey, Body(start, ttl, parts)))
      BY Zenon DEF Issued, Body
    <3>2. fields[7] = Signed(VerifyKey, Body(start, ttl, parts))
      BY <2>2, <2>3
    <3> QED BY <2>3, <2>4, <3>1, <3>2
  <2> QED BY <2>5
<1>4. ASSUME Valid(fields, time)
      PROVE  \E start, ttl \in 0..MaxU64, parts \in Seq(Part) :
               fields = Issued(VerifyKey, start, ttl, parts)
  <2>1. PICK start \in 0..MaxU64, ttl \in 0..MaxU64 :
          fields = Issued(VerifyKey, start, ttl, fields[6].parts)
    BY <1>4 DEF Valid
  <2> DEFINE p == fields[6].parts
  <2>2. /\ 7 \in DOMAIN fields /\ IssuerSigns(fields[7])
        /\ fields[7] = Signed(VerifyKey, Body(start, ttl, p))
    <3>1. Len(fields) = 7 /\ fields[7] = Signed(VerifyKey, Body(start, ttl, p))
      BY <2>1, IssuedFacts
    <3> QED BY <3>1
  <2>3. PICK s \in 0..MaxU64, t \in 0..MaxU64, q \in Seq(Part) :
          Body(start, ttl, p) = Body(s, t, q)
    BY ONLY <2>2, SignedBody, Zenon
  <2>4. p = q
    BY <2>3 DEF Body, Privileges
  <2> QED BY <2>1, <2>4
<1>5. ASSUME NEW start \in 0..MaxU64, NEW ttl \in 0..MaxU64, NEW parts \in Seq(Part),
             fields = Issued(VerifyKey, start, ttl, parts)
      PROVE  /\ Len(fields) = 7 /\ fields[6] = Privileges(parts)
             /\ fields[4].of = start /\ fields[5].of = ttl
             /\ Numbers(Range(fields[6].parts)) = {part.of : part \in Range(fields[6].parts)}
  <2>1. Len(fields) = 7 /\ fields[6] = Privileges(parts)
        /\ fields[4] = Number(start) /\ fields[5] = Number(ttl)
    <3>1. /\ Len(fields) = 7 /\ \A i \in 1..6 : fields[i] = Body(start, ttl, parts)[i]
      BY <1>5, IssuedFacts
    <3> QED BY <3>1 DEF Body
  <2>2. \A part \in Range(parts) : IsU64(part)
    BY <1>1 DEF Range
  <2> QED BY <2>1, <2>2 DEF Numbers, Privileges, Number
<1>6. ASSUME Verify(fields, time).ok
      PROVE  Valid(fields, time)
  <2>1. PICK start \in 0..MaxU64, ttl \in 0..MaxU64, parts \in Seq(Part) :
          fields = Issued(VerifyKey, start, ttl, parts)
    BY <1>3, <1>6
  <2>2. fields[6].is = "privileges" /\ fields[6].parts = parts /\ Len(fields) = 7
    <3>1. Len(fields) = 7 /\ fields[6] = Privileges(parts)
      BY <1>5, <2>1
    <3> QED BY <3>1 DEF Privileges
  <2>3. start <= time /\ time < start + ttl /\ start + ttl <= MaxU64
    BY <1>2, <1>6, <2>1
  <2> QED BY <2>1, <2>2, <2>3 DEF Valid
<1>7. ASSUME Valid(fields, time)
      PROVE  Verify(fields, time).ok
  <2>1. PICK start \in 0..MaxU64, ttl \in 0..MaxU64, parts \in Seq(Part) :
          fields = Issued(VerifyKey, start, ttl, parts)
    BY <1>4, <1>7
  <2>2. PICK s \in 0..MaxU64, t \in 0..MaxU64 :
          /\ fields = Issued(VerifyKey, s, t, fields[6].parts)
          /\ s <= time /\ time < s + t /\ s + t <= MaxU64
    BY <1>7 DEF Valid
  <2>3. fields[6].parts = parts
    <3>1. fields[6] = Privileges(parts)
      BY <1>5, <2>1
    <3> QED BY <3>1 DEF Privileges
  <2>4. fields = Issued(VerifyKey, s, t, parts)
    BY <2>2, <2>3
  <2> QED BY <1>2, <2>2, <2>4
<1>8. ASSUME Verify(fields, time).ok
      PROVE  Verify(fields, time).ticket.privileges =
               {part.of : part \in Range(fields[6].parts)}
  <2>1. PICK start \in 0..MaxU64, ttl \in 0..MaxU64, parts \in Seq(Part) :
          fields = Issued(VerifyKey, start, ttl, parts)
    BY <1>3, <1>8
  <2> QED BY <1>2, <1>5, <1>8, <2>1
<1> QED BY <1>6, <1>7, <1>8
=============================================================================
