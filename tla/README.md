# A model of scamp-rs

scamp-rs is a Rust implementation of SCAMP, a service bus: services announce
signed lists of actions by multicast, clients keep a registry of what they have
heard (or read from a cache file), open one TLS connection per service, and run
many request/response calls over it at once in the *beepish* packet protocol.

This directory holds TLA+ modules that model the program, TLC configurations
that check them on small instances, and proofs that TLAPS checks for all
instances. Every definition is a translation of the source under `src/`;
`PROJECT.json` maps each one to its lines. Paths below are relative to
`src/scamp/src/`.

## 1. Inventory of the system

| Component | Source | State it keeps | Operations | What is hard |
|---|---|---|---|---|
| Client connection | `transport/beepish/client/connection.rs`, `client/reader.rs` | `pending` (request id → waiting call), `outgoing` (message number → sent, acknowledged), two counters, `closed`, one `Notify` for flow control, a bounded channel to the writer task | `send_request`, `reader_task` and `route_packet`, `writer_task`, `notify_all_pending`, `cleanup_request`, `Drop` | any number of calls and two tasks interleave; time-outs race answers; the connection may end at any await |
| Connection pool | `client/connection.rs:54-81,126-158` | map uri → handle, under one lock | `get_connection`, `connect` | the lock is held while connecting; the closed check is stale when used |
| Packets | `transport/beepish/proto/` | the read buffer of each end | `Packet::parse`, `Packet::write` | packets straddle reads; limits on sizes |
| Server connection | `service/server_connection.rs`, `service/server_reply.rs` | `incoming`, `outgoing`, two counters | `handle_connection`, `route_packet`, `dispatch_and_reply`, `send_reply` | several requests multiplexed; replies and ACKs on one stream; nothing is read while a handler or a reply runs |
| Service lifecycle | `service/listener.rs`, `service/multicast.rs`, `../../scamp-cli/src/serve.rs` | active connections, the shutdown flag, the announcer's rounds | `bind_pem`, `run`, `run_announcer`, `serve` | shutdown: drain, announcer and exit of the process race |
| Announcements | `service/announce.rs`, `discovery/packet.rs`, `discovery/service_info/` | none | build, sign, run-length encode; parse, decode, verify | what is built must be what is parsed, for every input |
| Registry | `discovery/service_registry.rs` | entries by action key, time stamps seen, failure states | `inject_packet`, `reload_from_cache`, `get_action`, `find_action_with_envelope`, `mark_failed` | loss, repetition and reordering of announcements; expiry; back-off |
| Observer, cache file | `discovery/observer.rs`, `discovery/cache_file.rs` | a read buffer | `process_packet`, the iterator | a delimiter that straddles two reads |
| Requester | `requester.rs` | a registry and a pool | `request_with_opts`, `dispatch_once` | the retry after a failure chooses again |
| Authorization | `auth/authz.rs`, `auth/ticket.rs`, `auth/authorized_services.rs` | the cached privilege table; the patterns of authorized services | `check_access`, `get_table`, `Ticket::verify`, `is_authorized`, `reload` | refreshes race; times at the boundary |
| Configuration, bus information, cryptography, command line, macros, samples | `config.rs`, `bus_info.rs`, `crypto.rs`, `../../scamp-cli`, `../../scamp-macros` | none that outlives a call | reading files and interfaces, library calls, printing | — |

How they interact. A `Requester` looks an action up in its registry, takes a
connection from the pool and awaits `send_request`. Calls hand packets to the
writer task through a channel of 256; the reader task completes them through
oneshot channels and puts ACKs and PONGs into the same channel. The server's
task does everything itself: it reads a packet, and for an EOF it checks the
ticket (which may itself be a request of a `Requester`), runs the handler and
writes the whole reply before it reads again. The announcer and the listener of
a service share a watch channel that `serve` sets on Ctrl-C.

What makes each component correct, and where it is hard to test, is listed as
`hazards` in `PROJECT.json`, each at its line; the properties below are there
for them.

## 2. The modules

| Module | Models | Kind |
|---|---|---|
| `HashMap` | `std::collections::HashMap` on functions | operators |
| `BeepishPacket` | packets as the two ends tell them apart | operators |
| `ClientConnection` | `ConnectionHandle`, its calls, reader and writer task, against any peer | state machine |
| `RpcCalls` | what a client connection promises: an id of its own per call, at most one answer, which carries that id, and one return | abstract specification |
| `ClientRpc` | the refinement mapping from `ClientConnection` to `RpcCalls` | refinement |
| `ServerConnection` | `handle_connection` and `send_reply`, against any client | state machine |
| `BeepishLink` | the two connections joined by one stream of packets | composition |
| `Framing` | `Packet::write`, `Packet::parse` and the loop around it, over a stream of bytes | state machine |
| `Announcement` | an announcement as the registry sees it, and the entries it makes | operators |
| `ServiceRegistry` | the registry: `inject_packet`, `reload_from_cache`, choice, failures, the clock | state machine |
| `LatestAnnouncements` | what the registry promises: the newest accepted announcement of each service, all of it and nothing else | abstract specification |
| `Requester` | `request_with_opts` and `dispatch_once` of concurrent requests, over a registry | state machine |
| `Text` | texts as sequences of tokens, and how they are split | operators |
| `AnnouncementCodec` | building, signing, run-length coding, parsing and checking an announcement | pure functions |
| `AuthorizedServices` | which certificate may announce which action | pure functions |
| `CacheFile` | the records of the cache file, however it is read | pure functions |
| `ServiceLifecycle` | the process of a service: port, connections, Ctrl-C, drain, announcer, exit or crash | state machine |
| `Discovery` | a service process, its packets on a network that loses, repeats, delays and reorders, and a client's registry | composition |
| `ConnectionPool` | `BeepishClient`: its map, its lock, and who waits for it | state machine |
| `Ticket` | parsing and verifying tickets, the privilege table and what it grants | pure functions |
| `AccessChecks` | `check_access` of concurrent requests: ticket, cached table, fetch through requester and pool, expiry | state machine over `ConnectionPool` and `Ticket` |
| `MC...` | peers, clients and symmetry for TLC | model checking |
| `DataTheorems`, `ClientConnection_proofs`, `ServerConnection_proofs`, `BeepishLink_proofs`, `Framing_proofs`, `Requester_proofs`, `Discovery_proofs`, `AccessChecks_proofs` | theorems | proofs |

### How state and actions correspond to the code

*ClientConnection.* One call of `send_request` is a process with a `pc` that
names the line it is about to execute; `rid`, `mno`, `len`, `offset` are its
locals and `slot` is its oneshot channel. There is **one step per await or per
atomic operation**: taking each of the two counters, each lock of `pending` or
`outgoing`, each send into the channel, the look at `closed`, the look at the
window, and `notified()` are separate steps, because the tasks run on a
multi-threaded executor. `ack_notify` is modelled as tokio implements it: one
stored permit and a FIFO queue of waiters. The reader takes a packet off the
stream and routes it in one step; an ACK or PONG it has to send is a second
step, since it awaits room in the channel. A packet in the writer task's hand is
counted as part of the stream. `DropHandle` stands for `Drop`, which can happen
only when no call holds the handle.

*ServerConnection.* One task; `server` says where it is, with one step per
await. `Refuse` and `Admit` are the outcomes of the ticket and privilege check,
`HandlerReturns` and `HandlerPanics` those of the handler. `served` is a history
variable. `RouteAck` is translated although no state enables it: `outgoing` is
empty whenever the task reads, so the validation of ACKs
(`server_connection.rs:189`) is dead code.

*BeepishLink* extends the first and instantiates the second. Each end sees the
other as closed when its last task is gone.

*Framing* is what lies below: `Bytes` is `Packet::write`, `Parse` is
`Packet::parse`, and `Read` is one turn of the reader's loop, which client and
server have alike: any number of bytes up to `ReadSize` arrives, the cap is
checked, every packet that is now whole is routed, the rest stays in `buf`. A
byte is a token; a type's name and what is not UTF-8 are one each, and the JSON of a
HEADER is what stands in braces. What routing does, and how the task goes on
then, is in the other modules. `Written` is what peers may write, packets with a first
line, a message number and a body that are legal (`Writable`), and `Garbage` what
may follow them, a text no beginning of which is a packet (`HoldsNoPacket`) and which alone
does not overflow the buffer. A number is read as Rust does: a plus sign may precede it,
and one above `MaxU64` is none.

*ServiceRegistry.* `actions_by_key` is the set of pairs of index key and entry:
the order in a list and repetitions only weigh the random choice. `Observe` is
`process_packet`; `Reload`, `LoadRecord` and `SkipRecord` are one call of
`reload_from_cache`, during which only the clock moves, since it holds the
registry exclusively. A packet that is refused changes nothing and is no step of
its own. Time stamps and intervals are whole seconds (the code's are floats),
and 2.1 intervals are compared as 21 tenths. The clock does not run backwards;
the program's may, when the system's time is set.

*Requester.* `from_config` takes over a registry that nothing changes afterwards
but marks of failure; the model lets that registry be any that `ServiceRegistry`
can produce. A look-up, a mark and each await are separate steps, since the
failures' lock is taken and released for each. `first`, `blamed` and `second` are
what the three look-ups of a request return; `elsewhere` is a history variable.

*ServiceLifecycle.* `phase` is where `serve` is: choosing a port (`bind_pem`),
in the accept loop of `run`, in its drain, or out. `conn` is the state of each
connection from the kernel's queue to the end of its task; `active` is
`active_connections`, counted up before the task is spawned and down by its last
statement, which a panic skips. The announcer is a process with a state of its
own; `StopAccepting` and `AnnouncerStops` see the watch channel independently.
`Exit` ends every task, on all ways out: an orderly end, an error of `accept`, a
crash. `since`, `until` and `wire` are history.

*Discovery* extends it. A packet on the wire is (active or goodbye, time); what
is in it is what `AnnouncementCodec` builds, parses and checks, and what enters
the registry is the action `Inject` of an instance of `ServiceRegistry`, with
the rights `AuthorizedServices` computes. Any packet ever sent may arrive at any
time. `heard` is a history variable.

*AnnouncementCodec*, *AuthorizedServices*, *CacheFile*, *Ticket* are the pure
algorithms. A text is a sequence of tokens: one for the JSON, one for a line of a
certificate, one for a character of a signature, and the newlines between them,
since splitting at newlines is what may go wrong. A signature says who signed
what. Each has a reference definition beside the translation (`ReadBack`,
`Understood`, `Meant`, `ReadWhole`, `Valid`), which the properties compare it with.
Of authorized services a token is a text as well: `Pattern` replaces `:ALL` wherever it
stands in it, in upper case only, as the code does before any segment is told from
another, and `Lower` is the case that the regular expression ignores. `Names` says what a
token then stands for: behind `:ALL`, every action that has in it what follows.

*ConnectionPool.* The mutex is tokio's: `lock` is its queue, its head the holder,
who keeps it while it connects. `Miss`, `Connects` and `ConnectFails` are
the steps of a holder; TCP, TLS and the fingerprint check are one await with two
outcomes, as nothing but the lock is shared meanwhile.

*AccessChecks.* A check is a process; `at` is its place inside `get_connection`,
`place` its place outside. Sending is a place of its own, between the look at `closed` and
the wait for the answer, since HEADER, DATA and EOF wait for room in the connection's
channel without a time-out; what the channel holds is `ClientConnection`. The Auth service may answer with its table, with an
error, with a dispatch failure (which the requester retries once), or never, and
may change its table at any time; `lastCurrent` is the history of that. A write of
the cache is a step of its own, so a slow answer may replace a newer one.

What is abstracted: outside `Framing` bodies are lengths, a header is its request id
and the bytes of packets are left out; JSON and TLS are nowhere; `Bad` stands for every byte sequence the
parser calls fatal. `Unrle` and `V3Actions` leave out the errors for elements of a column
or a class that are of another JSON type than any announcer writes. A packet of a peer is a member of a small set that each MC
module names.

## 3. The runs

| Run | Question | Bounds |
|---|---|---|
| `client_replies` | do answers reach the call they are for, is every entry removed, is a returned call left alone, and does the connection refine `RpcCalls`? | two calls with empty bodies; a peer that answers twice, out of sequence, with a byte of data or none, with EOF or TXERR; channel and stream of one packet |
| `client_window` | is the window's bookkeeping exact under any ACKs, do packets leave in order, is no wake-up of a lone call lost? | two calls of 5 bytes in chunks of 2 with a watermark of 4; ACKs of 2 and 4 bytes for one message and 4 for the other at any time, whether sent so far or not, PONGs nobody asked for, and framing errors |
| `client_ends` | does every call return? | two calls whose bodies fit the watermark, pings competing for a channel of one; `FairSpec` |
| `server_unruly` | are replies whole and in turn, is nothing dispatched twice or left behind, and is every dispatched request finished? | a client that multiplexes two requests, repeats packets, aborts, acknowledges nonsense, pings and breaks the framing; replies of one and two chunks; `FairSpec` |
| `link_replies` | do requests run whole and once, do replies come back whole to their own calls, is the backlog bounded, and is every answer a call waits for on its way? and do the bytes between them come back as packets, however they are cut? | two calls of two chunks, replies of one and two chunks, watermark of one chunk, channel and stream of one packet; up to two packets of five and, after them, eleven ways to write what is no packet, or the beginning of one |
| `registry_requests` | does the registry hold exactly the newest accepted announcements under loss, repetition, reordering, expiry and reloads, does a retry find its action, does back-off grow with the failures that count, no further than the cap, and end? | three services, two of them under one identity with different certificates, six packets (a move, a goodbye, an unsigned one), two cache files, a clock of six instants, two requests; or one of the services and four requests that may each report it, with a window of one second, a unit of one and a cap of three |
| `service_discovery` | are connections counted and drained, does the process end after Ctrl-C, was served what a client may choose, and are announcements, authorizations and cache files read as they were written? | two connections, a clock of two seconds and a drain of two, announcements every second, two goodbyes; 121 tables, 30 services, 111 files of authorizations with 624 look-ups each, all 1093 cache files of up to six tokens in all ways to read them |
| `access_checks` | is one connection per service live, is nothing granted by a table out of date, does every check end, are only genuine tickets accepted? | two checks, one service, two connections ever made, two tables, a cache of one second, a time-out of one; 6705 texts of tickets at six times |
| `client_headers`, `link_wedge`, `retry_elsewhere`, `goodbye` | disagreements, section 5 | the smallest instance that shows each |

Why the bounds are enough: two calls show every race between calls, since the
code distinguishes only "mine" and "another's" id, message number or place in
the queue. A window of two chunks and a body of two and a half show a window
that fills, opens by part and ends with a short chunk; the real numbers are 32
chunks of 2048 bytes. Channel and stream of one packet are the hardest case for
waiting: every send may block. Bounds that are in no code: `MaxReply`,
`MaxRequest` and `MaxServed` bound what a peer sends, `PipeCap` the stream.
`MaxTime` bounds the
clock (a drain that has begun may still run to its end), `MaxConnects` the
connections ever made, and `HorizonBound` keeps marks of failure early enough for the back-off to
end within it. With four requests, three failures at once reach the cap, the fourth would
go beyond it, and a failure later than the window no longer counts those before: without the
cap, and without the pruning, `BackoffBounded` fails. Connections of a service
are alike and interact through one counter, so two show every order; a cache and
a time-out of one second show an answer that is stored as late as it can be and
used until the last moment.

The framing has bodies of up to 24 bytes, a buffer of 15 more, reads of up to 16 and
first lines of up to 9 (the real numbers are 131072, 100, 4096 and 80): a read may
end anywhere in a packet and may bring the end of one and the whole of the next, and
bodies on both sides of the cap occur. `MCBeepishLink` runs either the link or the
stream: they share no state. `MCRequester` has either the whole bus and two requests or one
service and four (`scene`).

The pure algorithms have no steps. In `MCDiscovery` and `MCAccessChecks` a
behaviour either runs the system or only holds one input, in `sample`, and an
invariant compares the algorithm with its reference on that input. The inputs are
all small ones or, for tickets, genuine ones with one part changed,
dropped or doubled. `RecordsWhole` leaves out reads that end inside a delimiter
(`Apart`), for which it does not hold; `AnnouncementsUnderstood` takes a service
with a named action and a certificate file that ends its last line.

`CHECK_DEADLOCK FALSE` is said where the system may stop: all calls have
returned and the connection is closed.

Fairness. `FairSpec` of `ClientConnection` assumes that every task is scheduled
(weak fairness of the writer), that a send waiting for room is served in its turn
(strong fairness of calls and reader; the channel's semaphore is FIFO), that the
timer of a waiting call fires, and that the peer reads until it closes. The
server's assumes that its task runs, that a handler returns and that the client
reads until it closes. No fairness is assumed of what a peer sends, of closing,
nor of the idle timeout. `RequesterSpec` assumes that the clock goes on, and nothing
of requests or announcements. `ServiceLifecycle` assumes that the clock goes on
and that `run` is scheduled (it sees Ctrl-C, the last connection or the deadline),
nothing of connections or of the announcer. `AccessChecks` assumes that the clock
goes on and that a check is scheduled: it looks, connecting ends one way or the
other (both connects have time-outs), it begins to send, and a request that is overdue or
lost ends. That its packets are sent depends on a peer that reads, and nothing is
assumed of the Auth service or of connections: no fairness of `Sent` nor of `SendFails`. So
`ChecksEnd` excepts a check that stays in the sending for ever, and says that it
keeps no other check from ending.

Every property has a mutant: a definition `...Mutant` beside the one it replaces,
with a bug one could make there, which violates the property under the same
configuration.

## 4. What is proved

All theorems hold for any sets of calls and bodies, any chunk size and
watermark, any capacities and any peer, any announcements, cache files and rights;
the assumptions are `ClientAssumption`, `ServerAssumption`,
`AnnouncementAssumption`, `RegistryAssumption`, `LifecycleAssumption`,
`ServiceAssumption`, `PoolAssumption`, `AccessAssumption`, `LettersAssumption` and
`FramingAssumption` (sizes
positive, lengths and times natural, cache files made of announcements, finitely many
connections, a certificate that is a text and versions that are i32, tables that are
lists, a cache that is used for a second at least, only letters have a case, peers that write legal packets and then
what is none).

*Data* (`DataTheorems`). The induction theorems of the library take an operator as a
parameter, which none of the provers can instantiate. The ones here take a *set*:
a set of naturals that holds 0 and with each number the next one holds all (`Induction`,
from `LeastExists`), and likewise downwards. That a recursive function is what its
definition says is then shown by the set of functions that obey it up to a length
not being empty (`RecursionFromStart`, `RecursionFromEnd`). So what `Retained`,
`Split`, `FlattenSeq`, run-length coding, the decimal digits of a number and the loop over
a buffer's packets compute is proved for every input, where a theorem needs it.

*Client connection* (`ClientConnection_proofs`). `RepliesCorrelated`,
`NothingLeaks`, `WaitersAreRegistered` and `WindowBounded` are not inductive:
that a slot holds one's own id depends on ids being unique and on `pending`
mapping an id to the call that drew it, and that in turn on every path removing
what it registered. `IInv` collects this as ownership: ids and message numbers
are handed out once (`IdsUnique`, `MsgNosUnique`), `pending` holds exactly the
registered calls without a response (`PendingExact`), `outgoing` exactly the
calls in the loop or waiting (`OutgoingExact`), waiters are parked once each
(`WaitersParked`, `ParkedWait`), windows are used as the loop allows
(`WindowsUsed`), and the request packets under way are those of calls that have come
as far as sending them (`PacketsOwned`). The
proof first says which actions write which variable, then preserves each conjunct
by those actions only. `OwnershipInvariant` is `Spec => []IInv`; `NoLeak`,
`WaitersReachable`, `FlowControl`, `Correlation` and `Finality` follow from it.
`Ordered` and `WokenUp` are inductive beside it: a packet is appended only by the call
that owns its number, behind what that call has sent (`AddedInOrder`), and a call that
is alone is woken by the very step that opens its window (`WakeUpKept`).

*Refinement* (`ClientConnection_proofs`). `Refinement` is
`Spec => ImplementsRpcCalls`: taking the request id, delivering a response and
leaving `send_request` map to the three steps of `RpcCalls`, every other step to
a stutter.

*Server connection* (`ServerConnection_proofs`). Types and `RepliesReleased` are
proved together, since a write looks its reply up in `outgoing`. `Once` counts a
message number with the open requests, with the one in hand or with those
served. `TurnsKept` needs to know what the last packet of the stream is
(`EndsIn`): while chunks go out it belongs to the reply in hand, else it is one
after which a new reply or an answer may start.

*Client and server joined* (`BeepishLink_proofs`). The invariants of either end
(`Ends`) are kept by the other, which changes nothing of it but the stream: the client
meets nothing but one of the peers its module allows, and the server nothing but one of the
clients. `Backlog` adds that an ACK on its way, and what a call was told by one, is of
bytes the server has read (`AcksOk`). For `RunWhole` every request has a *tally*: a
function that counts its bytes along the stream, which begins with what the server
has counted, ends with what the call has handed out, is 0 at the HEADER and the
whole length at the EOF (`RequestsTallied`). A step at either end makes the tally longer
at its end or shorter at its beginning (`TallyAppend`, `TallyPart`), whatever
else shares the stream. So what an EOF closes is whole, and as nothing more of it is
in the stream then (`Gone`, from `PacketsInOrder`), it is not dispatched again
(`Dispatches`). `Complete` does the same for the other direction, where the message
number of a reply is its place in `served` (`RepliesTallied`, `RepliesOwned`), and
`RepliesCorrelated` leads from the id back to the call. `NoneForgotten` says where an
answer is while both ends are up. That no end drops a packet of it needs that a message whose EOF is
still to be read has its HEADER on the way or accepted (`RequestsOpen`, `RepliesOpen`), that the
HEADERs of the replies under way are the ones the reader expects, in order (`HeadersNext`,
hence `NextHeader`), and that nobody ends a message by a TXERR (`NoErrors`). Then the EOF of a
request, read, becomes the request in hand, that its reply, and the EOF of the reply, read,
is handed to the call, which `PendingExact` finds by its id.

*Framing* (`Framing_proofs`). `WrittenIsRouted` is `PacketsAsWritten` for any stream and
any reads. Below it are the facts of the two conversions: a number is read back from its
digits (`DecimalFacts`), a first line splits into the three fields it was made of
(`FirstLineFacts`), and so a buffer that begins with a whole packet parses as that packet,
whatever follows, and one that holds a beginning of it waits for more (`ParseBytes`): its
body is measured, never searched. `PacketsCut` follows the loop through a piece of the
stream: from the end of a packet it finds exactly the packets whose last byte is in the
piece, by induction from the last packet back. The invariant (`FramingInv`) then needs
one number, how far the reader has come: the packets routed are the first `k`, the buffer
begins where packet `k` ends, and packet `k + 1` is not whole in it. That is also why
only a packet that does not fit can overflow the buffer: all but its last byte and one
read are the most that can be there.

*Registry* (`Requester_proofs`). `EntriesCurrent` is inductive with the types:
`inject_packet` cleans up only after a service it has a time stamp of, which is
enough because every entry's service has one. `RegistryTyped` needs that `retain`
keeps only what was in the list (`RetainedTyped`, by induction), and `Backoffs` that
the list a mark leaves behind has, but for its new last time, only times of the window before
it, so that its length counts them: the back-off is one unit at least, and no more than the
cap or that count. `Refinement` maps a service to its
time stamp and its entries under all keys; an accepted packet is `Accept` of
`LatestAnnouncements`, the clearing of a reload `Forget`.

*Requester* (`Requester_proofs`). `RegistryKept` is `RequesterSpec => Spec`, so the
above holds of a requester's registry; it needs that whoever is blamed is an
entry (`RInv`). `RetryFinds` follows from the index being still while
requests run and from the fall-back of `pick_healthy`.

*Discovery* (`Discovery_proofs`). `active` is typed as a natural number
only because a task counts down what was counted up for it: types and
`ActiveCounted` are one inductive invariant, `CountInvariant`. `Drains` follows:
an orderly exit needs `active = 0`, hence no connection in its task, or the deadline.
`ProcessKept` is `DiscoverySpec => Spec`, so all this holds with a network and a receiver.
`Served` has two halves. A packet that is parsed holds what was written: the JSON is
what comes before the first separator (`PacketBegins`), a split begins with it
(`SplitBegins`), so the body that is parsed is the one that was built (`ParsedBody`);
its v4 columns are empty (`NothingInV4`), and its v3 classes give back what was
registered (`VersionRead`, `ClassesRead`). And the announcer is up only
while the port is (`AnnouncerRuns`), so every packet sent as active carries a time the
port was open (`SentOpen`), and so does what a receiver has indexed (`OffersOpen`).
`Understands` is `AnnouncementsUnderstood` for every service whose certificate file
ends its last line and has no empty one, names the service's own key, and whose
numbers fit (`HasCertificate`, `HasNumbers`): a split cuts at the first empty line
(`SplitAtBlank`), wrapping a signature makes none and loses no character
(`WrappedJoins`), so a packet falls into the four parts it was made of
(`PacketSplits`); the body is then read as it was meant (`BodyTaken`).
`TablesKept` is `ReadBack` of every table: the encoder works from the front, the
decoder expands chunk by chunk, and induction from the last run down shows that
expanding the chunks of a rest gives the rest.
`AuthorizedAsMeant` is `AuthorizedBySegments` for every file, whatever its tokens, and for
every sector and action without a colon. What the regular expression may have read after
each item of the pattern is a recursive function. Without a wildcard it is the one place the
pattern itself ends at (`LiteralEnds`), so a token matches what it begins, up to a dot or
the end; the colon lines up in both (`AtColon`), and behind it the same holds segment by
segment (`SegmentsCover`, by induction on the length). With one, what is before `:ALL`
has to begin the text, and what is behind it is found from anywhere on (`MatchesAny`,
`AnyNames`); what the replacement makes of a token is followed from its first place on
(`ReplacedFirst`, `ReplacedNowhere`). Replacing takes no colon away
(`ReplacedKeeps`), so a token with two of them matches nothing (`TwiceNever`). It assumes
that `any`, the model's name of `.*`, is no letter of a name.
`RecordsAsWritten` is `RecordsWhole` for every file, every way to read it and every
delimiter. Its lemma is `SplitTogether`: two texts that no delimiter is in between of are
split together as they are split each, the last part of the one going on with the first of
the other, by induction on the delimiters of the first. It is used for what has been read
so far and the next read, which is where reads that cut a delimiter are needed to be out.

*Pool and checks* (`AccessChecks_proofs`). `OneLive` rests on `DialingAlone`: who
connects is at the head of the lock's queue and the map has nothing for its uri.
`PoolKept` is `AccessSpec => PoolSpec`. `GrantsAreJustified` follows what a table's
age can be (`AgeInv`): a request is awaited for `RpcTimeout` at most, its answer was
current when it was sent or later, and the cache keeps it for `Ttl` more. That what
is granted is what the text of the table says needs the last entry of
several spellings to exist (`MaxOf`), from the well-ordering of the naturals.
`TicketsMeant` is `TicketsHonoured` for every text and time: a ticket is accepted
exactly if it is as issued and within its lifetime. It assumes that the issuer's key
signs only bodies of tickets, with which the signature's body has six fields, so
that nothing fits between it and the seventh; that a lifetime that wraps around u64
is never in force is arithmetic (`WrapsBelow`).

Only model-checked: everything under fairness (`CallsEnd`, `RequestsFinish`,
`FailedReactivates`, `ShutdownEnds`, `ChecksEnd`), which is outside the prover. Every
invariant of the passing runs has a theorem.

## 5. Where code and documentation disagree

- `HeadersInSequence` (`client_headers`): message numbers are taken several awaits
  before the HEADER is enqueued, so concurrent calls may send HEADERs out of
  sequence, which this repository's server answers by closing.
- `CallsEndOrLinkDoes` (`link_wedge`): with a long reply the server waits to
  write, the client's reader to acknowledge and its writer to be read, in a
  circle, and no time-out covers the wait.
- `RetryElsewhere` (`retry_elsewhere`): the service to mark failed is looked up anew
  and may be another than the one that failed; the retry then goes back to the
  one that failed.
- `GoodbyeHeard` (`goodbye`): a goodbye carries null where the parser wants a list,
  so every receiver refuses it, and the service stays choosable until its last
  announcement expires.

Seen while modelling, without a run of their own: the read buffer's cap of
`MAX_PACKET_SIZE + 100` counts what follows a packet, and a read brings up to 4096
bytes, so a packet of a legal size above some 127000 bytes closes the connection when
more follows it at once, though `proto/mod.rs:18` says that all receivers handle up to
`MAX_PACKET_SIZE` (`PacketsAsWritten` names the packets that fit); a first line with a bare newline is fatal or not
depending on where the read ends; a call that waits for its window
when the connection ends is never told, though `connection.rs:213` has an error for
it; `sent` is raised after the packet is with the writer, so a fast ACK is rejected
as past the end, and if no other follows the window never opens; a cache file whose
delimiter straddles two reads loses two announcements; a token is searched
for the text `:ALL`, so `main:ALLOWED` becomes a wildcard and authorizes `main:x.owed`, while
`main:all` names an action `all`, though the match ignores case; a ticket is verified before
the table is fetched and may have expired when access is granted; a certificate file
without a last newline makes every announcement unreadable; an ACK wakes the first waiter,
which need not be the call it is for (with two waiting calls the other one stays
behind its open window until another ACK comes); a reload forgets the time stamps,
so a file older than what multicast brought takes the registry back; a call that registers after the
drain of a closing connection waits out its time-out; the server sends replies
without regard for ACKs, and its validation of them never runs.

## 6. The plan

In this order, the most important behaviour first:

1. *Done:* the connection core above, with its proofs.
2. *Done:* `ServiceRegistry`, `Requester`, with their proofs.
3. *Done:* `ServiceLifecycle`, `Discovery`, `ConnectionPool`, `AccessChecks`, with
   proofs of their safety.
4. *Done:* the pure algorithms: run-length coding, announcements, the cache file's
   records, authorized services, tickets.
5. *Done:* framing at the level of bytes.
6. *Done:* proofs of `RequestsRunWhole`, `RepliesComplete`, `BacklogBounded`,
   `WaitersUnderWay`, of tickets, of `AnnouncementsUnderstood` and of `PacketsAsWritten`.

Not to be modelled: the JSON, TLS, RSA and zlib libraries (choices of outcome),
reading of configuration and interfaces, the command line's printing, the macros
(generated code), the mock transport (a test double).
