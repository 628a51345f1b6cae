----------------------------- MODULE MCDiscovery -----------------------------
(***************************************************************************)
(* Model checking Discovery, and the pure algorithms below it on all small *)
(* inputs: a behaviour either runs the system or only holds one input, in  *)
(* sample.                                                                 *)
(***************************************************************************)
EXTENDS Discovery, CacheFile

Name(w, s) == [word |-> w, spelling |-> s]
Act(ns, m, v, flags) ==
  [namespace |-> Name("orders", ns), method |-> Name(m, "lower"), version |-> v, flags |-> flags]

\* Actions of several spellings, versions and flags: one replaces another, one
\* has no namespace, one a timeout too long to announce.
ManyFlags ==
  <<Act("lower", "get", 1, {Flag("read"), Flag("noauth")}),
    Act("upper", "get", 2, {Flag("read"), Flag("secret")}),
    Act("upper", "put", 0, {Flag("custom"), TimeoutFlag(5), TimeoutFlag(70000)}),
    [Act("lower", "ping", 1, {}) EXCEPT !.namespace = NoNamespace]>>
OneName ==
  <<Act("slash", "get", 1, {}),
    Act("upper", "get", 1, {Flag("update")}),
    Act("lower", "get", 1, {Flag("destroy")})>>

\* Certificates of one to three lines, keys that fill their last line or not.
Key(n) == [name |-> "key", size |-> n]
Certificate(key, n) ==
  FlattenSeq([i \in 1..n |-> <<[is |-> "cert", key |-> key, line |-> i], Newline>>])
Service(calls, key, lines) ==
  [identity |-> "one", sector |-> "main", uri |-> "uri", weight |-> 1, interval |-> 1,
   envelopes |-> {"json"}, actions |-> Registered(calls),
   key |-> key, certificate |-> Certificate(key, lines)]
Services == {Service(c, Key(n), l) : c \in {ManyFlags, OneName}, n \in 1..5, l \in 1..3}

\* TLC evaluates a definition of its own once, the value of a constant each time.
FourActions == Service(ManyFlags, Key(3), 1)
TheOne == FourActions

Row(m, v, flags, compat) ==
  [namespace |-> Name("orders", "lower"), method |-> Name(m, "lower"), version |-> v,
   flags |-> flags, sector |-> "main", envelopes |-> {"json"}, compat |-> compat]
Rows == {Row("get", 1, {}, 1), Row("get", 2, {Flag("read")}, 1), Row("put", 1, {Flag("read")}, 0)}
Tables == UNION {[1..n -> Rows] : n \in 0..4}

\* Two certificates, tokens that begin alike: some end in ALL, one goes on after it,
\* one has it in lower case, one has a colon too many.
UpperCase == [A |-> "a", L |-> "l", S |-> "s"]
Sector(name, path) == <<name, ":">> \o path
Tokens == {<<"a">>, <<"A", ".", "b">>, Sector("s", AllLetters), Sector("S", <<"a">>),
           Sector("s", AllLetters \o <<"b">>), Sector("s", <<"a", "l", "l">>),
           Sector("s", Sector("a", AllLetters))}
Entry(fp, tokens) == [is |-> "entry", fingerprint |-> fp, tokens |-> tokens]
Lines == {Entry("f", {t}) : t \in Tokens} \cup {Entry("f", {}), Entry("g", Tokens)}
         \cup {[is |-> "bare", fingerprint |-> "f"]}
Contents == UNION {[1..n -> Lines] : n \in 0..2}
Paths == UNION {[1..n -> {"a", "A", "b", ".", "_meta"}] : n \in 1..3} \cup {<<"a", "L", "l">>}
Lookups == {"f", "g"} \X {<<"main">>, <<"s">>} \X Paths

OneLine == <<Entry(Key(3), {<<"orders", ".", "get">>})>>
File == OneLine

Delim == <<"newline", "percents", "newline">>
SmallFiles == UNION {[1..n -> {"newline", "percents", "x"}] : n \in 0..6}

\* All ways to read them, in pieces that end at cuts.
InPieces(file, cuts) ==
  LET ends == SetToSortSeq(cuts \cup {Len(file)}, <)
  IN  [i \in DOMAIN ends |-> SubSeq(file, IF i = 1 THEN 1 ELSE ends[i - 1] + 1, ends[i])]
SmallReads ==
  {<<>>} \cup UNION {{InPieces(f, cuts) : cuts \in SUBSET (1..(Len(f) - 1))} : f \in SmallFiles \ {<<>>}}

-----------------------------------------------------------------------------

VARIABLE sample

NoSample == [is |-> "none"]

MCInit ==
  /\ DiscoveryInit
  /\ \/ sample = NoSample
     \/ \E t \in Tables : sample = [is |-> "table", of |-> t]
     \/ \E s \in Services : sample = [is |-> "service", of |-> s]
     \/ \E c \in Contents : sample = [is |-> "content", of |-> c]
     \/ \E reads \in SmallReads : sample = [is |-> "file", of |-> reads]

MCNext == sample = NoSample /\ DiscoveryNext /\ UNCHANGED sample

MCSpec == MCInit /\ [][MCNext]_<<vars, sample>> /\ Fairness

\* Run-length coding loses nothing (announce.rs:146, parse.rs:95): a table of
\* actions in any order, with runs anywhere in its columns, is read back.
TablesReadBack == sample.is = "table" => ReadBack(sample.of)

\* What is built is understood and believed (announce.rs:22, packet.rs:45): the
\* receiver takes a packet apart where the service has put it together, checks
\* the signature and reads what the service registered, whatever its names,
\* versions, flags and certificate.  It needs an action with a namespace, a
\* certificate file that ends its last line and has no empty one before, and
\* the certificate's own key.
AnnouncementsUnderstood == sample.is = "service" => Understood(sample.of)

\* A certificate may announce the actions its last line in the file names, segment
\* by segment, those below them and _meta, and nothing else: no action whose name
\* merely begins alike, no other sector, no other certificate's, in upper or lower
\* case (authorized_services.rs:119).  A name that begins with ALL stands for
\* every one that has what follows ALL in it, as :ALLOWED does for x.owed (111).
AuthorizedBySegments ==
  sample.is = "content" =>
    \A <<fingerprint, sector, action>> \in Lookups :
      IsAuthorized(Entries(sample.of), fingerprint, sector, action)
        <=> Meant(sample.of, fingerprint, sector, action)

\* However the file comes in, the texts between its delimiters are read, as long as
\* no read ends within a delimiter (cache_file.rs:45).
RecordsWhole == sample.is = "file" => ReadWhole(sample.of)
=============================================================================
