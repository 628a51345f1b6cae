-------------------------- MODULE AnnouncementCodec --------------------------
(***************************************************************************)
(* What a service writes into an announcement (service/announce.rs) and    *)
(* what a receiver reads out of it (discovery/packet.rs,                   *)
(* discovery/service_info/parse.rs).                                       *)
(*                                                                         *)
(* A JSON value is a record whose field is says what it is.  A text is a   *)
(* sequence of tokens, one of which is the newline; the JSON of a packet   *)
(* is one token, a line of a certificate another, and so is a character of *)
(* a signature.  A name is a word in some spelling: "lower" or "upper"     *)
(* case, or with a "slash" for its dots.  Sets stand for lists whose order *)
(* nothing reads.                                                          *)
(***************************************************************************)
EXTENDS Integers, Text

CONSTANTS
  MaxU32,     \* the largest u32
  LineWidth   \* characters of a signature per line: 76

ASSUME CodecAssumption ==
  MaxU32 \in Nat /\ LineWidth \in Nat \ {0}

Missing     == [is |-> "missing"]
Null        == [is |-> "null"]
Scalar(x)   == [is |-> "scalar", of |-> x]
Array(x)    == [is |-> "array", of |-> x]
Newline     == [is |-> "newline"]
NoNamespace == [word |-> "none", spelling |-> "lower"]

AsU32(n) == n % (MaxU32 + 1)

ParseError == [ok |-> FALSE, panics |-> FALSE]
ParsePanic == [ok |-> FALSE, panics |-> TRUE]
Parsed(x)  == [ok |-> TRUE, value |-> x]

Joined(text) ==
  FlattenSeq([i \in DOMAIN text |-> IF text[i] = Newline THEN <<>> ELSE <<text[i]>>])

-----------------------------------------------------------------------------
(* listener.rs, announce.rs                                                *)

ActionKey(action) ==
  <<action.namespace.word, action.namespace.spelling = "slash", action.method.word, action.version>>

\* register_with_flags, called in turn: of two actions with a key the later stays.
Registered(calls) ==
  {calls[i] : i \in {j \in DOMAIN calls :
     \A k \in DOMAIN calls : k > j => ActionKey(calls[k]) # ActionKey(calls[j])}}

Flag(name)       == [is |-> "flag", name |-> name]
TimeoutFlag(sec) == [is |-> "timeout", seconds |-> sec]

IsAnnounceable(flag) ==
  IF flag.is = "timeout" THEN flag.seconds <= MaxU32
  ELSE flag.name \in {"create", "destroy", "noauth", "read", "secret", "update"}

\* A run that reaches the end is a value too long.
RunAtMutant(items, i) ==
  Max({n \in 1..(Len(items) - i + 1) :
         \A j \in i..(i + n - 2) : items[j] = items[i]})

\* How many items from the i-th on equal it.
RunAt(items, i) ==
  Max({n \in 1..(Len(items) - i + 1) :
         \A j \in i..(i + n - 1) : items[j] = items[i]})

Rle(items) ==
  LET chunk(i, n) == IF n > 1 THEN Array(<<n, items[i]>>) ELSE Scalar(items[i])
      encoded[i \in 1..(Len(items) + 1)] ==
        IF i > Len(items) THEN <<>>
        ELSE <<chunk(i, RunAt(items, i))>> \o encoded[i + RunAt(items, i)]
  IN  Array(encoded[1])

V3Classes(actions) ==
  LET named == {a \in actions : a.namespace # NoNamespace}
      method(a) == [name |-> a.method,
                    flags |-> {f \in a.flags : IsAnnounceable(f)},
                    version |-> IF a.version = 1 THEN Missing ELSE Scalar(a.version)]
  IN  {[namespace |-> ns, methods |-> {method(a) : a \in {b \in named : b.namespace = ns}}] :
         ns \in {a.namespace : a \in named}}

\* All actions are in the v3 classes; the columns of v4 are empty.
NoV4 == [c \in {"acname", "acns", "acflag", "acsec", "acenv", "acver"} |-> Rle(<<>>)]

Body(service, isActive, time) ==
  LET classes == IF isActive THEN V3Classes(service.actions) ELSE {}
  IN  [identity |-> service.identity, sector |-> service.sector, uri |-> service.uri,
       weight |-> IF isActive THEN service.weight ELSE 0,
       interval |-> 1000 * service.interval, timestamp |-> time,
       envelopes |-> service.envelopes, v4 |-> NoV4,
       v3 |-> IF classes = {} THEN Null ELSE Array(classes)]

\* RSA: what a key makes of a message, as many characters as the key is long.
Signature(key, message) ==
  [i \in 1..key.size |-> [is |-> "sig", by |-> key, of |-> message, at |-> i]]

\* Every line but the last is broken twice.
WrappedMutant(chars) ==
  FlattenSeq([i \in DOMAIN chars |->
    IF i > 1 /\ (i - 1) % LineWidth = 0 THEN <<Newline, Newline, chars[i]>> ELSE <<chars[i]>>])
  \o <<Newline>>

\* base64_encode_wrapped
Wrapped(chars) ==
  FlattenSeq([i \in DOMAIN chars |->
    IF i > 1 /\ (i - 1) % LineWidth = 0 THEN <<Newline, chars[i]>> ELSE <<chars[i]>>])
  \o <<Newline>>

\* build_announcement_packet
Packet(service, isActive, time) ==
  LET json == [is |-> "json", of |-> Body(service, isActive, time)]
  IN  <<json, Newline, Newline>> \o service.certificate \o <<Newline>>
      \o Wrapped(Signature(service.key, json)) \o <<Newline>>

-----------------------------------------------------------------------------
(* parse.rs                                                                *)

\* parse_flag: a number of seconds that is no u32 panics.
FlagPanics(flag) == flag.is = "timeout" /\ flag.seconds > MaxU32

ParseFlag(flag) ==
  IF flag.is = "timeout" THEN [is |-> "Timeout", seconds |-> flag.seconds]
  ELSE IF flag.name = "noauth" THEN [is |-> "NoAuth"]
  ELSE IF flag.name \in {"create", "read", "update", "destroy"}
       THEN [is |-> "CrudOp", op |-> flag.name]
  ELSE [is |-> "Other", name |-> flag.name]

\* The path of an action, in lower case and with dots.
Path(namespace, name) == <<namespace.word, name.word>>

ActionOf(path, version, flags, sector, envelopes) ==
  [path |-> path, version |-> version, flags |-> {ParseFlag(f) : f \in flags},
   sector |-> sector, envelopes |-> envelopes]

\* A class or a method that is no such record is refused too, and left out here.
V3Actions(classes, sector, envelopes) ==
  LET methods == UNION {{<<c.namespace, m>> : m \in c.methods} : c \in classes}
      version(m) == IF m.version.is = "scalar" THEN m.version.of ELSE 1
      action(n) == ActionOf(Path(n[1], n[2].name), AsU32(version(n[2])), n[2].flags, sector, envelopes)
  IN  IF \E n \in methods : version(n[2]) < 0 THEN ParseError
      ELSE IF \E n \in methods : \E f \in n[2].flags : FlagPanics(f) THEN ParsePanic
      ELSE Parsed({action(n) : n \in methods})

Expand(chunk) ==
  IF chunk.is = "array" THEN [i \in 1..chunk.of[1] |-> chunk.of[2]] ELSE <<chunk.of>>

\* Of the shapes refused, those of another type than the column's are left out.
Unrle(column, required, len, default) ==
  IF column = Missing
  THEN IF required THEN ParseError ELSE Parsed([i \in 1..len |-> default])
  ELSE IF column.is = "array"
  THEN IF \E i \in DOMAIN column.of : column.of[i].is = "array" /\ Len(column.of[i].of) # 2
       THEN ParseError
       ELSE Parsed(FlattenSeq([i \in DOMAIN column.of |-> Expand(column.of[i])]))
  ELSE Parsed([i \in 1..len |-> column.of])

V4Default == [acname |-> 0, acns |-> 0, acenv |-> 0, acsec |-> 0,
              accompat |-> 0, acver |-> 0, acflag |-> {}]

\* Only actions that say they are compatible count; the shortest column ends all.
V4Actions(v4) ==
  LET column(name)   == IF name \in DOMAIN v4 THEN v4[name] ELSE Missing
      required(name) == name \in {"acname", "acns", "acenv", "acsec"}
      names          == Unrle(column("acname"), TRUE, 0, 0)
      columns        == [name \in DOMAIN V4Default |->
                           Unrle(column(name), required(name), Len(names.value), V4Default[name])]
      at(name, i)    == columns[name].value[i]
      rows           == 1..Min({Len(columns[name].value) : name \in DOMAIN columns})
      compatible     == {i \in rows : at("accompat", i) = 1}
      action(i)      == ActionOf(Path(at("acns", i), at("acname", i)), at("acver", i),
                                 at("acflag", i), at("acsec", i), at("acenv", i))
  IN  IF ~names.ok \/ \E name \in DOMAIN columns : ~columns[name].ok THEN ParseError
      ELSE IF \E i \in compatible : \E f \in at("acflag", i) : FlagPanics(f) THEN ParsePanic
      ELSE Parsed({action(i) : i \in compatible})

\* parse_announcement_body
ParseBody(body) ==
  LET v4 == V4Actions(body.v4)
      v3 == V3Actions(body.v3.of, body.sector, body.envelopes)
  IN  IF body.v3.is # "array" THEN ParseError
      ELSE IF ~v4.ok THEN v4
      ELSE IF ~v3.ok THEN v3
      ELSE Parsed([identity |-> body.identity, uri |-> body.uri, weight |-> AsU32(body.weight),
                   interval |-> AsU32(body.interval), timestamp |-> body.timestamp,
                   actions |-> v4.value \cup v3.value])

\* AnnouncementPacket::parse
ParsePacket(text) ==
  LET parts == Split(text, <<Newline, Newline>>)
      json  == parts[1][1]
      body  == ParseBody(json.of)
  IN  IF Len(parts) < 3 THEN ParseError
      ELSE IF Len(parts) > 3 /\ parts[4] # <<>> THEN ParseError
      ELSE IF Len(parts[1]) # 1 \/ json.is # "json" THEN ParseError
      ELSE IF ~body.ok THEN body
      ELSE Parsed([json |-> json, body |-> body.value,
                   certificate |-> parts[2], signature |-> parts[3]])

\* verify_rsa_sha256: the certificate's key has signed the JSON.
SignatureValid(packet) ==
  \E key \in {Joined(packet.certificate)[i].key : i \in DOMAIN Joined(packet.certificate)} :
    Joined(packet.signature) = Signature(key, packet.json)

-----------------------------------------------------------------------------
(* What the two sides owe each other.                                      *)

V4Table(actions) ==
  LET column(Of(_)) == Rle([i \in DOMAIN actions |-> Of(actions[i])])
  IN  [acname |-> column(LAMBDA a : a.method), acns |-> column(LAMBDA a : a.namespace),
       acver |-> column(LAMBDA a : a.version), acflag |-> column(LAMBDA a : a.flags),
       acsec |-> column(LAMBDA a : a.sector), acenv |-> column(LAMBDA a : a.envelopes),
       accompat |-> column(LAMBDA a : a.compat)]

\* A table is read back row by row, less the rows not compatible.
ReadBack(actions) ==
  V4Actions(V4Table(actions)) =
    Parsed({ActionOf(Path(actions[i].namespace, actions[i].method), actions[i].version,
                     actions[i].flags, actions[i].sector, actions[i].envelopes) :
              i \in {j \in DOMAIN actions : actions[j].compat = 1}})

\* What a receiver should learn of a service.
Promised(service, time) ==
  [identity |-> service.identity, uri |-> service.uri, weight |-> service.weight,
   interval |-> 1000 * service.interval, timestamp |-> time,
   actions |-> {ActionOf(Path(a.namespace, a.method), a.version,
                         {f \in a.flags : IsAnnounceable(f)},
                         service.sector, service.envelopes) :
                  a \in {b \in service.actions : b.namespace # NoNamespace}}]

\* The packet of a service is accepted, believed, and read as it was meant.
Understood(service) ==
  LET packet == ParsePacket(Packet(service, TRUE, 1))
  IN  /\ packet.ok /\ SignatureValid(packet.value)
      /\ packet.value.body = Promised(service, 1)
=============================================================================
