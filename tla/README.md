# TLA+ specifications of the OPC UA to MQTT/TCP bridge

The repository builds one program, the bridge of `src/open62541_mqtt/mqtt`, on
top of three libraries that it carries as source: the OPC UA library open62541
(`src/open62541_mqtt/src` and `plugins`), json-c and paho.mqtt.embedded-c.  The
bridge is an OPC UA client: it reads or subscribes to the nodes its configuration
names and passes their values on to an MQTT broker and to a TCP peer.  The
library also contains an OPC UA server, which the sample programs use.

This directory models the parts in which order, failure, sharing or a limit
decide whether the program is correct.  Paths below are relative to
`src/open62541_mqtt/` unless they begin with `json-c` or `paho`, which lie beside
it under `src/`.

## Inventory

| Component | State it keeps | Operations | Hard behaviour |
|---|---|---|---|
| OPC UA client: connection, channel, session (`src/client/ua_client.c`) | client state READY / CONNECTED / FAULTED / ERRORED, the connection and its socket, session token, renewal time | connect (HEL, OPN, endpoints, session, activate), getEndpoints, disconnect, reset, delete, renewal, any service | every step can fail; the client state and the connection state are two variables that drift apart |
| Client TCP connection (`plugins/ua_network_tcp.c`, client half) | socket number, OPENING / ESTABLISHED / CLOSED | open, get buffer, write, receive, close | numbers are reused; 0 is standard input |
| Chunks of the secure channel (`src/ua_securechannel.c`, `ua_connection.c`) | incomplete chunks, message parts by request, sequence numbers, tokens | cut, send, collect, join, check | portions of TCP, late answers, renewal, roll-over at 2^32 |
| OPC UA client: subscriptions (`ua_client_highlevel_subscriptions.c`) | subscriptions, monitored items, pending acknowledgements | create, delete, publish round | lost answers; acknowledgements by position |
| Types and binary encoding (`src/ua_types.c`, `ua_types_encoding_binary.c`) | a write position and the end of the buffer | encode, decode, size, ranges | the buffer is exchanged in the middle of a value |
| Bridge: main thread (`mqtt/client-main.cpp`, `client-connection.c`) | the client pointer, `beStop` | connect loop, start of threads, publish loop, shutdown | a failed connect frees the client; a signal at any moment |
| Bridge: poll threads, event callback (`mqtt/client-monitoring.cpp`) | the shared client pointer, static buffers | read all nodes, reconnect, put a record together, publish, rest | no lock; nobody joins the threads |
| Bridge: configuration loader, node id parser (`mqtt/client-config.cpp`, `client-nodeid.cpp`) | the configuration | read once at the start | fields carried over, keys matched by prefix, parts left undefined |
| MQTT sink (`mqtt/client-mqtt.c`, `transport.c`) | `sock`, `mysock` | connect loop, publish, close | a descriptor per attempt; publishing before or after the connection |
| TCP sink (`mqtt/client-tcp.c`, `client-trans-tcp.cpp`) | `sock`, `tcpsock` | connect, publish, reopen per message (singleshot), close | the number is kept twice and used by several threads |
| Server: connections, secure channels, sessions (`src/server/ua_securechannel_manager.c`, `ua_session_manager.c`, `ua_services_session.c`, `ua_server_binary.c`, `src/ua_session.c`) | three kinds of structs that point at each other, two lists with counters | HEL, OPN (issue, renew), CLO, MSG, create / activate / close session, cleanup, close of a connection, shutdown | everything can end in any order; freeing is delayed |
| Server: worker, network layer, timer (`ua_server_worker.c`, `ua_network_tcp.c`, `src/ua_timer.c`) | delayed callbacks, sockets, repeated callbacks | one iteration: timer, jobs, delayed callbacks | a job removed while a round runs still runs in it |
| Server: subscriptions (`ua_subscription.c`, `ua_services_subscription.c`) | subscriptions and items of a session, their queues, counters and jobs, the stored publish requests | create, modify, delete, publish, republish, set mode, sample, publish callback | queues at their limit; lifetime and keep-alive; requests nobody answers; jobs on freed memory |
| Server: node store (`ua_nodestore.c`) | an open-addressing hash table, working copies | insert, remove, get, copy, replace, iterate | tombstones, growth, stale copies |
| Server: node management (`ua_services_nodemanagement.c`, `ua_server_utils.c`) | nodes and two-sided references | add, instantiate, undo, delete | memory that runs out in the middle |
| Server: attributes (`ua_services_attribute.c`) | type, rank, dimensions and value of variables and their types | read, write, ranges, data sources | attributes that must agree, each written on its own |
| Server: view service, method call (`ua_services_view.c`, `ua_services_call.c`) | continuation points of a session | Browse, BrowseNext, paths, Call | changes between two calls |
| Server: discovery and mDNS (`ua_services_discovery.c`, `ua_services_discovery_multicast.c`, `ua_mdns.c`, `ua_server_discovery.c`) | registered servers, published records, servers heard of, retry jobs | register, find, clean up, receive a record | retries, timeouts, records in any order |
| json-c: text, objects (`json-c/json_tokener.c`, `json_object.c`, `linkhash.c`, `arraylist.c`) | the state of a tokener; reference counts, tables and arrays | parse in pieces, write; add, delete, get, put, copy | a piece may end anywhere; references shared between objects |
| MQTT packets, MQTT client (`paho.mqtt.embedded-c/MQTTPacket`, `MQTTClient-C`) | a reader's position; handlers, packet ids, ping timer | serialise, deserialise, read; connect, subscribe, publish, cycle | packets in portions; answers that come late |
| AMQP sink, sample programs, high-level client calls | | | not modelled, see below |

How they interact: main reads the configuration, creates a `UA_Client` and hands
the same pointer to every poll thread; both call the client's functions directly.
A failed `opcua_server_connect` frees that client.  The poll threads and the
event callback (called inside main's publish round) put records together with
json-c and call `mqtt_publish` and `tcp_publish`, which use the socket numbers
that the sink threads have stored in global variables.  All sockets of the
process come from one descriptor table.  A signal handler sets `beStop`.  Two
loops do not look at it: the poll threads' reconnect loop, and the loop of a
publish call that repeats while the server says that more notifications wait
(`src/client/ua_client_highlevel_subscriptions.c:310`).  On the server, the network layer turns socket events into jobs; a job creates or changes channels,
sessions, subscriptions or nodes; lists are changed at once and memory is freed by
delayed callbacks after all jobs of the iteration; the timer runs the jobs of
subscriptions, items, registration and cleanup.

What makes each part correct is stated by the properties below.  The places
where the code can go wrong in a way that a test would hardly reach are listed
in `PROJECT.json` under `hazards`, each with its line and its properties.

## Modules

| Module | Contents |
|---|---|
| `ClientOps` (`ClientOps_proofs`) | The client API as operators: a client is a record, a call maps it to the set of its possible outcomes, and the operators nest the way the C functions do |
| `UAClient` (`ClientSide_proofs`) | A program that makes any sequence of calls on one client |
| `Channel` (`ClientSide_proofs`) | An answer's way through chunks, TCP and the client's buffers to the call that waits |
| `ClientSubscriptions` (`ClientSide_proofs`) | The client's lists against a server that expires, repeats and loses answers |
| `Bridge` (`Bridge_proofs`) | Main and the poll threads on one client, built from the calls of `ClientOps` |
| `Records` (`Bridge_proofs`) | From the configuration file to the published record |
| `Sinks` (`Sinks_proofs`) | The MQTT thread, the TCP thread, the publishers and the descriptor table |
| `ServerSessions` (`Server_proofs`) | The server's connections, channels, sessions and main loop |
| `Subscriptions` (`Subscriptions_proofs`) | The subscriptions, items and publish requests of one session, and the jobs that drive them |
| `NodeMap`, `NodeStore` (`Nodes_proofs`) | The map from ids to nodes, with what becomes of each node, and the hash table that implements it |
| `References`, `AddressSpace` | Two-sided references, and the services that change, browse and call nodes, built on them |
| `Variants`, `VariableAttributes` (`Nodes_proofs`) | Variants and index ranges, and the attributes of a variable and its type, built on them |
| `Discovery`, `Mdns` (`Server_proofs`) | Registration with a discovery server, and what the multicast daemon makes of its records; the servers heard of on the network |
| `Codec` | Encoding, decoding and size of the builtin types, with the exchange of buffers |
| `JsonText`, `JsonObjects` | json-c's tokener and serializer; its objects and containers |
| `MqttPackets`, `MqttClient` (`Sinks_proofs`) | Packets on a stream; the client with a broker |
| `Numbers_proofs` | What the proofs about descriptors, tables and lists share: least numbers, induction up to a bound, and that a loop of any length computes something |
| `MC*` | The instances TLC checks, with their inputs and symmetry sets |

A definition whose name ends in a suffix such as `_kept` or `_forever` and whose
comment begins with "Mutant" is a wrong version of the definition that follows
it: a dropped guard, a missing reset, a swapped order.  No specification uses
it.  `PROJECT.json` pairs each property with one, and TLC finds the property
violated once it takes the place of the real definition.

### ClientOps and UAClient

`ClientOps` describes `__UA_Client_connect`, its handshakes, `UA_Client_disconnect`,
`UA_Client_reset`, `__UA_Client_Service`, the renewal of the channel, the creation
of a subscription and the publish round, together with the socket functions
below them.  The record holds the client's and the connection's state, the
socket number, whether there is a session token and a subscription, whether the
channel must be renewed, and the open descriptors of the process.  An exchange
over the network has every outcome the code distinguishes: an answer, a refusal,
a timeout, a close before or after the send.  The content of messages is left
out.  `UAClient` has one action per API call, plus the passing of a token's
lifetime.  Its variable `last` remembers the call and its status.

### Channel and ClientSubscriptions

`Channel` opens the exchange that `ClientOps` treats as one outcome.  A chunk is a
header unit and its body units; `recv` returns any prefix of what was sent, so
chunks are cut and joined everywhere.  The server answers in any order and as late
as it likes.  It only logs a request with an unknown token or another number and
keeps the connection; it issues a next token when none is pending, and makes it
the current one when a request uses it or the cleanup comes by.  One allocation
of a receive may fail: that of the buffer for an incomplete chunk, of the entry for
a message's parts, or of the parts joined.  `SeqRange` stands for 2^32 and `SeqHigh` and `SeqLow` for the two
numbers of the roll-over rule; the numbers start low or just below the end.  The
call has the places the code can wait at: for its answer, and for a new token
before it.  `sent`, `given` and `left` are histories; `left.torn` remembers that a
chunk found no memory.

`ClientSubscriptions` keeps the client's lists beside the server's, as far as a
client can observe it; `Subscriptions` is that server in detail.  Each service may
be refused before it acts or lose its answer afterwards.

### Bridge and Records

The threads' program counters name the network waits of `client-main.cpp`,
`client-connection.c` and `client-monitoring.cpp`; a step of a thread is the work
between two of them, and threads interleave there.  A publish call is one exchange
after another while the server announces more notifications (`more`).  What one thread can do to
the other's exchange (take its answer, close its socket) is among the outcomes
of every exchange.  `alive` says whether the client's memory is allocated.  A step
that uses it after that sets `crashed`, and the model knows nothing more of the
process.  `Cancel` is nondeterministic because `pthread_cancel` and `pthread_join`
on the id 0 are undefined.  `mode` stands for `method` and `asycRequestSupported`
of the configuration.  Lost descriptors are forgotten here (`Settled`), since
`UAClient` is about them.

`Records` takes a file as json-c delivers it (`MCRecords` holds them: whole ones,
the example of `src/README.md`, and odd ones).  `load` and `make_group` read it,
with keys compared by prefix (`Abbreviations`), the node that is not reset between
two nodes, and fields nobody set; a file that makes the program use an undefined
field ends the behaviour.  Then the poll threads read their nodes one by one and
publish; the static buffers `skv`, `topic` and `value` are variables, so that the
threads can meet in them.

### Sinks

`fd` says who opened each descriptor; `socket()` takes the lowest free one.
`transport_open` and `tcp_open` are split at their system calls, `tcp_open` for
every thread that can be inside it.  `rc` and `arg` are the locals that live
across these steps.  The OPC UA client is present with its open and close.
`foreign` and `clash` are history variables: the first records that a sink has
written to or closed a descriptor of another part, the second that two threads
were in the TCP transport together or that the number in `sock` was taken by
somebody else.  `config` is one of the configurations in `Configs`.

### ServerSessions

The constants `Conns`, `Channels` and `Sessions` are the addresses the allocator
can return, so a freed address comes back.  A struct is `free`, `listed` by its
manager or `removed` from the list with a delayed callback pending.  The phases
are the parts of `UA_Server_run_iterate`: the timer with the cleanup, the jobs of
the network layer, the delayed callbacks.  A message job keeps the channel
pointer it took at its beginning, as `UA_SecureChannel_processChunks` does.  Each
allocation that can fail does so in some behaviour (`oom`).  `fault` is the use of
freed memory.  The lists are sets: where the code takes the first entry the
model takes any.

### Subscriptions

The module follows one session.  `live`, `sub`, `items` and `mon` are its
subscriptions and monitored items; ids are never used twice and both lists
insert at the head, so walking a list is going through the ids downwards.  A
notification is its item and the number of the sample, which is what the
properties about order and loss need; of a value only the comparison with
`lastSampledValue` matters.  The monitoring modes SAMPLING and DISABLED are one,
because the code treats them alike.  Each service of
`ua_services_subscription.c` is an action, called with one list entry
(DeleteSubscriptions with a set, because its last entry is special).

`timers` counts the repeated jobs registered for a callback.  The phases are
those of `UA_Server_run_iterate`: `due` holds the jobs that the iteration has
taken off the list, and keeps one that is removed meanwhile, because
`UA_RepeatedJobsList_process` applies changes only after its round.  The publish
callback is called by its job, by a publish request for a late subscription and
by itself when there are more notifications; `calling` is the subscription of
such a call, and nothing else happens until it returns.  `delayed` are the
delayed callbacks, the latest first, as the list inserts at its head: the end of
a channel, the end of the session, and the answer to the requests left over when
the last subscription is deleted.

`stale` is the job that ran on freed memory and `fault` any other fatal step; the
model stops after either.  `sent`, `acked`, `answers`, `expired` and `missed` are
history variables.  The other end of the session (removal, timeout, a new
channel) is what `ServerSessions` models in full; here it is reduced to
`session` and `channel`.

### NodeMap and NodeStore

`NodeMap` is the abstract specification: a set of ids, the editable copies in the
hands of callers, what each operation returns, and whether the node it was given
is stored, deleted or kept.  `NodeStore` has the table slot by slot, with both hash
steps, tombstones, growth and shrinking; an allocation may fail in each operation
that makes one, and an id that was freed may come back at the same address.  The
refinement mapping gives `stored` the ids a lookup finds, `drafts` the copies and
`holes` whether there are tombstones.  Nothing is asked of the callers: they insert
ids that are stored already, as AddNodes does with one its client chose
(`ua_services_nodemanagement.c:686`), and nodes without an id, among them copies
(line 383).  `NodeMap` therefore says less than `ua_nodestore.h` in four places,
listed at its head: a node is kept when an insertion finds no memory
(`ua_nodestore.c:231`; the header, lines 66 and 67, says it is deleted) and when
the node to be replaced is gone (`ua_nodestore.c:272`; the header, lines 80 and 81);
a copy of a replaced node may be taken for one of a later node at the same address;
and an id that is stored may be inserted again over a tombstone.  After the last,
which `exact` records, it promises nothing more.

### References, AddressSpace, Variants, VariableAttributes

`References` holds `addReference`, `deleteReference` and the deletion of a node
as operators on a world: the nodes, the memory that is left, a status, and the
handles given to constructors and destructors.  `AddressSpace` puts them together
to AddNodes with its instantiation of a type (a list of tasks, so that the
recursion of the code is a fold), its undo, method nodes, the two halves
`AddNode_begin` and `AddNode_finish` a program may call itself, deletion, Browse,
BrowseNext, paths and Call.  A service runs to its end before the next one starts,
as in the build without threads.  Of the allocations, those whose memory stays in
use (nodes, copies, references) are counted, and in a service memory runs out after
one of the numbers in `Shortages` or not at all; a temporary one (the result of a
browse, the type hierarchy) fails if memory has run out by then.  Setters and the
translation of paths always find memory.  `loose` remembers the references of
which a client deleted one direction only, `lost` and `copied` the handles that
`HandlesOwned` excepts.

`Variants` has ranges as texts and variants as their elements with dimensions,
reading and writing of a range by the strides of the code.  `VariableAttributes`
has one variable and its type with every write the attribute service makes, a data
source that changes, and sessions with different rights.

### Discovery, Mdns, Codec, JsonText, JsonObjects, MqttPackets, MqttClient

`Discovery` has a clock, the list of registrations, the semaphore files, the jobs
of a server that registers itself, and the records published.  The vendored daemon
(`deps/mdnsd`) keeps those in a table of lists and gives out a whole list
(`Bucket`), of which the code compares no names; a withdrawn record stays, ending,
until its end has been sent; a unique one is probed for first, and withdrawn when
somebody else uses its name (`Claimed`).  `astray` marks the domains that lost their
service to one of the two.  `Mdns` is the receiving end.  Sockets, messages and the
daemon's cache are external.

`Codec` encodes into buffers of a given size that are exchanged when full, cuts
the bytes anywhere and decodes them.  `JsonText` gives a text to the tokener in
any pieces and character by character follows `json_tokener_parse_ex`, strict or
not; `Item` are texts its own serializer wrote, and `others` what a text may
also be read as when a piece ends inside it.  `JsonObjects` is a program that makes,
shares, copies, replaces and drops objects, with keys, larger tables and arrays,
and the objects of a copy for which there may be no memory; `want` is what each ought
to contain, for a copy what its source contains.  `MqttPackets`
sends packets as bytes to each of the two readers, a receive call giving any part
of what it asked for or nothing.  `MqttClient` is a program's calls, the task that
reads between them and a broker that answers late or not at all; a call waits by
reading packets one at a time.

## Runs

| Run | Instance | Properties and what they show |
|---|---|---|
| `clientside` | three parts beside each other: the calls (descriptors 0..3); the channel (4 calls, answers of 1, 3 or 5 units in chunks of 2, numbers modulo 32, two renewals, or one failed allocation, or a roll-over); the lists (2 subscriptions, 2 items, one lost answer) | `NoWriteAfterClose`: with working lookups nothing is written to a closed number; `ConnectGoodIsConnected`: a connect that returns GOOD has an open socket and a session, except on a client that is CONNECTED already; `WholeAndInOrder`: what reaches the call are messages in order, and whole unless a chunk found no memory for its parts; `GoodIsOwnAnswer`; `NothingRefused`: both ends agree about the roll-over; `NotificationsMatch`: nothing is forgotten by the server before it was handled, and each handler gets its own item |
| `server` | one connection, two channels, one session, one channel at a time, fairness | `SessionLinks`, `NoUseAfterFree`, `FreedOnce`, `NothingLeft`: the web of pointers stays consistent and everything is freed once; `DeadChannelFreed`, `DeadSessionFreed` |
| `subs` | one subscription, one item, 3 samples, 3 requests, queue sizes 1 and 2, two messages kept; session and channel end in any order | `DeliveryExact`: samples go out in order and once, and Republish serves the newest messages; `JobsMatch`: one job per subscription and reporting item, none left over, the lifetime counted only while late |
| `subs_memory` | one item, 3 samples, queue sizes 1 and 2 that are changed in between, a message of two, one request, every allocation may fail | `NewestKept`: a full queue and a failed allocation never lose the newest sample |
| `subs_requests` | two subscriptions, 3 requests, fairness; session and channel end in any order | `RequestsExact`: a request is stored or answered, never both or neither, and somebody will answer it; `RequestsAnswered` |
| `subs_channel` | one subscription, 2 requests | expected violation of `DanglingAnswersHaveChannel` (finding 1) |
| `bridge` | main and one poll group in each of the three modes, fairness | `NoFaultBeforeLoss`: no freed client is used before a read fails or a stop comes; `ReconnectLoses`: a poll thread cannot get a lost server back, and a reconnect ends the events; `StopEnds`: a signal ends the process, unless the server announces more notifications for ever |
| `sinks` | one publisher, descriptors 0..2, fairness; both sinks with a lasting TCP connection, or the TCP sink alone in singleshot mode | `SocketsKept`: the sinks use only their own descriptors, and a stale number loses a bounded number of sockets; `SinksStop` |
| `nodes` | three ids in tables of 3, 7 and 11 slots with colliding hashes, two copies, every allocation may fail; one variable and its type with six descriptions | `ImplementsMap`: the table refines the map; `AttributesAgree`, `ErrorsChangeNothing` |
| `space` | a type with a mandatory variable, a mandatory method and an optional object; five changes, memory that runs out after 3, 9 or 11 allocations, one continuation point | `TwoSided`, `HandlesOwned`, `FailedAddLeavesNodes`, `ViewExact` |
| `libraries` | the parts that share nothing, each on its own | `RecordsOwn`, `PublishesConfigured` (eleven files); `RegistrationsExact` (6 requests; 5 ticks with the daemon standing still, and one tick with all the daemon does); `NetworkExact` (two servers whose names begin alike); `RoundTrip`, `ChunksJoin` (values of every builtin type, buffers of 8 to 44 bytes, every cut); `JsonRoundTrip` (every text in every two or more pieces, also inside escapes, surrogates and numbers); `ObjectsExact` (5 calls); `ReadsWhatWasSent`; `AnswerIsOwn`, `MessagesReach` (4 calls, topics with empty levels) |
| `config_readme` | the files of `MCRecords` | expected violation of `ReadmeExampleLoads` (finding 2) |

Three instances (`MCClientSide`, `MCNodes`, `MCLibraries`) put parts beside each
other that share no variable: a behaviour is one of one part, chosen at the start,
and the others stay as they begin.  They could be runs of their own.

Bounds.  The number of descriptors is the only bound of the client: it must
exceed the sockets one call can open (two, in getEndpoints followed by connect)
by enough for a lost one to be seen and the table to be full.  In `Bridge` one
number beside standard input is enough, because lost ones are forgotten; one group
gives a thread that reconnects while main publishes, and the proofs cover any
number.  In `Sinks` three descriptors let every party hold one, be closed and find
its number taken.  In `ServerSessions` two channels are needed for a session to
move and for a purge at the limit; the address sets being finite bounds nothing
else.  In `Channel` two chunks with a window of units at the roll-over are the
shortest answers that can be cut, refused for their count, or arrive late.
`Subscriptions` has bounds of its own: `MaxSubs` and `MaxItems` (ids),
`MaxSamples` (changes of an item's value), `MaxRequests` (publish requests),
`MaxJobs` (jobs of one callback, to be exceeded only by an unbounded repetition of
failed removals) and `MaxDelayed` (waiting ends of the session).  Three samples
overflow a queue of two, in `subs_memory` too, and a message of one; three requests let two messages go
out and one be stored; two subscriptions compete for a request.  The keep-alive
limits are 1 and the lifetime limit 3, the smallest the code accepts for it.  The
tables of `NodeStore` are the smallest primes that still grow twice and shrink, and
`MaxDrafts` two copies are one that is replaced and one that is stale; three ids
suffice for one behind a tombstone to be doubled.
`AddressSpace` has `MaxChanges`, `MaxRefs`, `MaxTasks` and `MaxHandles`: the
instantiation of the type takes fewer than 40 tasks, five changes add, attach,
detach and delete a node while two browses go on, and three handles are the one of
the type's own child, one of its owner and one more.  Memory that runs out after 3,
9 or 11 allocations does so in the middle of a copied variable, between the
constructor and the reference to the type, and in the reference to the parent.  In the libraries, `MaxObjects`,
`MaxSteps`, `MaxHeld`, `MaxIndex` and `MaxBlocks` bound the program of `JsonObjects` (a
table and an array of two entries grow in five calls, of which the first finds one
object made; no call takes more than eight allocations), `MaxTime` and `MaxJobs` the
clock and the jobs of `Discovery` (more than one interval of three ticks after the
server answers again; `Stretch` says which half of the module is looked at over which
time), `MaxRecords` the numbers of `Mdns`,
`MaxPolls` the receive calls without bytes (four are what the reader allows),
`MaxCalls`, `MaxMessages` and `MaxPending` the conversation of `MqttClient`,
`MaxRounds` the rounds and events of `Records`.

Deadlock is checked in the bridge and sinks runs; the bridge ends in the explicit
stutter `Terminated`.  The other runs switch it off: a deleted server, one that
has used freed memory, a program that has made all the calls its bound allows, and
a message that has arrived take no more steps.

Fairness.  `Bridge`: weak fairness of main and of each poll thread; every call
on the client ends by its timeout (5 s by default), every sleep is finite, and
threads are scheduled by the kernel.  Nothing is assumed about the signal, the
server or the peers.  `Sinks`: weak fairness of the two sink threads, whose reads
have a timeout of one second; publishers, peers and `pthread_cancel` are not
fair.  `ServerSessions`: weak fairness of the loop's phases, since it has one
thread which always goes on; strong fairness of the end of the jobs, since one
batch and one buffer are finite; and strong fairness of a cleanup that gets its
memory, because it is registered as a repeated callback and an allocator that
fails for ever would keep every dead entry.  `Subscriptions`: weak fairness of
the loop's phases, of the due jobs and of the delayed callbacks, for the same
reason, and strong fairness of each publish job coming due, since its interval
passes again and again.  Nothing is assumed about clients.  The other modules have
no liveness property: their services run to the end, and what a client, a broker or
a network does next is its own affair.

## Refinement

`NodeStore!ImplementsMap` is `Map!AbsSpec` with `Map == INSTANCE NodeMap WITH stored
<- ..., drafts <- copies, reply <- answer, holes <- ~NoTombstones, exact <- ~doubled`.
Every operation's return value and the fate of its node are part of the abstract
state, so an operation that hides a node, doubles one without a tombstone, replaces one
that changed meanwhile, loses or frees a node it does not say so of, or reports the
wrong status is not a step of the map.

## Proofs

`Server_proofs`, first part, about `ServerSessions`, for any finite sets of addresses and any limits.  The
inductive invariant `IInv` is the conjunction of the type invariant, all safety
properties and four facts the runs do not list.  `JobOK`: a message job runs only
in the jobs phase, on a connection that is there, which is needed because the
step that frees a connection must not take it from under a job.  `BackLinks`: as
long as no client opens a second channel over a connection, the pointers between
the two are inverse, which is what makes `NoUseAfterFree` inductive.  `Quiet`: no
callback waits outside the jobs and delayed phases, which is needed because
shutdown and deletion free the lists and would otherwise meet entries twice.
`Ending`: what shutdown and deletion have already emptied.  There is one lemma per
conjunct, with a case per action; the counters rest on the cardinality facts of
`FiniteSetTheorems`.  Theorems: `Invariance`, `TypeCorrect`, `LinksConsistent`,
`UseAfterFree`, `FreeExactlyOnce`, `Capacity`, `AssertionHolds`, `DeletedIsEmpty`.
Assumptions: the address sets are finite and disjoint from the null pointer,
channels and sessions are different addresses, the limits are natural numbers.

`Server_proofs`, second part, about `Mdns`, for any names, buckets and records.
`NetworkInv`: what is kept of a server is put together from its own records, whichever
came first and however often (`EntryWhole`), and the entries are numbered downwards
below the counter (`Known`).  The lookup compares names by prefix within a bucket, so
this is said of the names it can tell from the others (`Apart`), which is the
condition of the property too.  The search is a loop over the list; since the numbers
fall, an unlimited one never has as many as it wants before the end of the list
(`Collecting`).  Theorems: `NetworkInvariance`, `NetworkStaysExact`.

Third part, about `Discovery`, for any servers, requests, files and times, and any lists
of the daemon's table.  `RegistrationInv`: one entry per server, as many as the counter
says (`Roster`); every pointer that is not withdrawn leads to a service that is not,
unless its domain is marked as astray (`Served`), which must be shown of the adding and
the removing of records, url by url, and of each step of the daemon; and that
FindServers writes no more pointers than there is room for, unless a uri is asked for
twice, is the pigeonhole of the uris asked for in the list.  That a server stays registered is a claim
about its jobs, of which the property says nothing: `Waits` says that the periodic job
is pending and not overdue, and that its last run shows in the server's own entry if
the discovery server has answered since before it (`Repeating`); the cleanup then
finds no entry too old.  Theorems: `RegistrationInvariance`, `RegistrationsStayExact`.

`ClientOps_proofs`, for any number of descriptors, has no theorem of its own but
one lemma per call of the client API: what each outcome leaves of the client.
`Sound` is what every call keeps: the client owns the descriptor it names, so that
it is open unless the connection is closed, or it has never been connected, names
descriptor 0 and has a renewal due that keeps service calls away from it.  `Kept`
adds what a call leaves alone.  The lemmas nest as the C functions do, from the
sockets to `UA_Client_connect`.

`ClientSide_proofs`, first part, about `UAClient`: `ClientInv` is `Sound` with the
property of connect, and each action is a call.  Theorems: `ClientInvariance`,
`ClientOwnsItsSocket`, `GoodConnectConnects`.  Second part, about
`ClientSubscriptions`, for any bounds: `HandlesInv` says that every handle on either
side was given out by the client's counter, so that the next one is new, whatever
became of the requests before it.  `AcksInv` is about the time before an answer is
lost.  `NothingLost`: one publish call is under way at most (`OneCall`); the client
has every subscription and item of the server with the same handle (`Mirrored`), so
the handlers for a message are there (`ReplyIsHandled`); what the server still
retains was handled or is the message on its way (`RetainedAreHandled`), so
acknowledging it frees nothing unseen, even though the client acknowledges the
numbers of keep-alives too.  Each is needed: without the mirror a message may
find no handler, and with two calls a keep-alive's number could meet a message that
is on its way.  Theorems: `ListsInvariance`, `NotificationsStayMatched`.

Third part, about `Channel`, for any sizes, limits, range of numbers and portions.
`ChannelInv` holds whatever is lost: each piece collected under a request is a piece of
its answer (`Owned`), so that `ProcessResponse`, which takes only the request id of
the call, can hand out nothing else.  `StreamInv` holds as long as no token was
renewed, so that the server has none to issue (`server.next = 0`), and memory sufficed: what is buffered followed by what is on the wire is a
`Stream` of whole chunks, and there is a state between every two of them such that
each chunk carries the client from one to the next without being refused; the first of
these states is the client's own and the last one says what the server has counted and
sent (`Flow`).  A receive moves the border between client and stream over as many
chunks as are complete, wherever `recv` cut; an answer extends the stream at its end,
with an induction over its chunks.  The numbers of the two ends are related through all the chunks between
them, which is why neither end's number alone would do.  Theorems:
`ChannelInvariance`, `AnswerIsToOwnRequest`, `StreamInvariance`, `NothingIsRefused` and
`IntactIsWhole`, which is `WholeAndInOrder` as long as nothing is lost.  The other half of that
property stays with TLC: within the window of the roll-over the receiver accepts a gap,
so whether a message with a hole is given out after a loss depends on how many chunks
an answer may have.

`Bridge_proofs`, for any finite set of poll groups and any mode.  The invariant
`ClientInv` says where each thread can be and when the client is allocated:
`Healthy`, as long as no read has failed and no stop was asked for, the client is
allocated except between two attempts of main, when no poll thread exists;
`Unconnected`, a main thread that has left its connect loop without a connection
has a freed client and cannot get past its use.  Here only the place a thread goes
to after a call matters, which `OnTargets`, `ToTargets`, `OpenTargets`, `AtMoves` and
`ConnectMoves` say once.  `ReconnectInv` needs what the calls do to the record as
well, from `ClientOps_proofs`: `Begun`, before main starts the threads nothing was
lost or reconnected; `NoMoreEvents`, from the reset inside a reconnect on there is no
subscription; `Stuck`, a lone thread that found the connection lost has a closed
connection until it deletes the client.  Theorems: `ClientInvariance`,
`FaultNeedsLoss`, `ExitNeedsConnection`, `ReconnectInvariance`, `ReconnectIsLossy`.

Second part, about `Records`, for any configuration file, readings and number of
rounds.  `RecordsInv`: in the middle of a round the object of a thread is what the
values it has read in this round make of it (`Gathered`), and what a lone thread finds
in the shared buffers is its own (`Undisturbed`): between the write of a text and its
copy the text is in the buffer and not yet in the list, which is why the property alone
is not inductive.  `ConfiguredInv` relates threads and records to the file: a group
written in full has the nodes written, though one variable serves for all of them
(`Loaded`; `GroupLoads` and `NodesAreGiven` follow the loops of `make_group`, `IdOfTwo`
those of `getUA_NodeID`); every id watched is known, or the behaviour has ended
(`IdsKnown`); and what is read belongs to a node of the group (`ReadFrom`).
`MembersHold` says that a later value never takes away a member an earlier one made.
Theorems: `RecordsInvariance`, `RecordsStayOwn`, `ConfiguredIsPublished`.

`Sinks_proofs`, for any finite set of publishers and any number of descriptors.
`Lasting` and `Home` say for the lasting connections that each number a thread holds,
also in its locals between two system calls, is none, standard input, or a
descriptor it opened; `Singleshot` says that without a clash one thread at a time is
in the TCP transport (`Alone`) and what the attempt under way may still have open
(`PerMessage`).  `socket()` gives the lowest free number, which exists by
`LeastNumber`; that is why a number lost by the singleshot scheme lies below the one
in `sock`.  Theorems: `SinksInvariance`, `SinksKeepSockets`.

Second part, about `MqttClient`, for any filters, topics, limits and table sizes.
`AnswersInv`: every answer under way, or that a packet under way will lead to, is one
that some call gave up or the one the present call expects, and this one is under way
at most once (`Tracked`).  Identifiers are used again, and `waitfor` compares none, so
a call may take the answer of an earlier one and leave its own behind; `owed`
remembers these.  It is never emptied while the connection lasts: two calls given up may have had the same
identifier, and one answer must not settle for both.  `CallOK` pairs each kind of call
with the answer it waits for.  Theorems: `AnswersInvariance`, `AnswersStayOwn`.

`Subscriptions_proofs`, for any bounds and limits of the configuration.
`RequestsInv`: the queue holds requests in the order they came, and answers carry
their handles.  `JobsInv`: the shapes of subscriptions and items; nothing that is
deleted has the flag of a job (`Absent`), a flag stands for exactly one job
(`Flags`), and a job of the round under way has its data or belongs to an item of a
subscription that expired in it (`Rounds`).  There is one lemma per service.

`DeliveryExact` and `NewestKept` need to know what an item's queue is, beside what
the client was told: `DeliveryInv`.  For each item, the queue holds some of its
samples in their order, the newest last, and everything told of the item comes
before everything queued (`EverySub`, with its parts); the newest sample was told if
the queue is empty; nothing was told of an item that does not exist yet.  The
retransmission queue is the newest part of what was sent and not acknowledged.  An
item that reports has its job on the list even when an allocation failed on the way
(`Modes`), and the number of samples taken counts them (`Counted`).  `JobsInv` is
needed because a sample job that runs on an item of a deleted subscription would add
to a queue nobody empties, and `RequestsInv` because an answer sent must be the one
of the oldest request.  The delicate step is the message: `prepareNotificationMessage`
takes from the queues in the order of the items until the message is full, so
`QueuedUpTo` counts what the items before one have queued, and `LeftFor` what is left
to take from it; the lemmas about these two are an induction over the items.
Theorems: `RequestsInvariance`, `RequestsStayExact`, `JobsInvariance`,
`JobsStayMatched`, `DeliveryInvariance`, `DeliveriesExact`, `NewestStaysKept`.

`Nodes_proofs`, first part, about `NodeStore`, for any ids, any hash function and any
table of sizes, and whatever its callers do.  `StoreInv`, until an id is doubled: the
table has one of the sizes, holds no id twice,
and for every id in it the probing gets to its slot before it meets one that was never
used (`Reached`); `count` is the number of ids held, which decides when the table is
rehashed.  So a lookup finds exactly the ids held.  Removal leaves a tombstone, so
paths stay; rehashing is a loop over the old slots, and `Moved` keeps the invariant
with the ids of one slot more (`Looped` and `UpTo` of `Numbers_proofs`).  Then each
operation is a step of the map with the same answer, or nothing happened.
Theorems: `StoreInvariance`, `StoreImplementsMap`.  A probing that never ends
leaves the store stuck, which is a stutter of the map: that prime sizes make every
path visit every slot is arithmetic the proof neither uses nor shows.

`Nodes_proofs`, second part, about `VariableAttributes`, for any data types, values,
descriptions and writes.  `AttributesAgree` is not inductive as it stands, since it
says nothing of variants without data; `Agree` is: the description is within the type
(`Describes`), and a value that is there passes the checks of type and shape (`Fits`).
What makes it delicate is that each attribute is checked against what the others are
at that moment: taking the dimensions away makes the rank the check of the value
again, which is why the rank must still be known to admit the dimensions that go.
There is one lemma per write: what is refused returns the nodes it was given, and
what is done keeps `Agree` (`Behaves`); a range written into an array changes neither
the number of elements nor the dimensions, so the shape stays.  `Checking` follows
AddNodes through its repairs of rank, value and data type: the last check may look
at the value of the type while the node holds a converted copy of it, and the two
are related by the write in between, not by the check.  `FittingValue` derives the
property.  Theorems: `AttributeInvariance`, `DescriptionsAgree`,
`FailedServicesChangeNothing`.

Assumptions: the sets of addresses, threads, publishers and ids are finite; names
of different parts differ (addresses and the null pointer, main and the poll
groups, the two sink threads and the publishers); bounds, limits and the last
descriptor are natural numbers, a message carries at least one notification; modes
and configurations are those the loader can produce.  For the node store: sizes
exceed 2, as the second hash step divides by the size less 2, and one of them
reaches twice the number of ids (`SizesSuffice`), as the code's largest is 4294967291.
For the attributes: a variant has a type the stack knows, and a scalar is one element
without dimensions, as the setters make it and as the decoder reads it, which skips
the dimensions of a scalar (`src/ua_types_encoding_binary.c:1127`); every attribute
is written with a value of its type, which the service checks before.
For discovery: a request has a list of urls and a uri; a server's application name is
set, its own requests are in order, nobody else sends one in its name, and the timeout
of the cleanup is none or at least the interval of the registrations (`OwnConstants`).  For mDNS: the record a search starts at and
its maximum are natural numbers.  For the channel: the window of the roll-over lies within the range of
the numbers, a buffer takes a header and a body unit, and answers are not empty
(`ChannelConstants`).  For the records: a file is a list of objects, each with a key at
most once, as json-c delivers it (`DocumentConstants`), and no name of a field is a
prefix of another's (`FieldConstants`), which is so of the names in the code.
TLC evaluates each on every run of its module.

Everything else is only model-checked:

- liveness (`StopEnds`, `SinksStop`, `DeadChannelFreed`, `DeadSessionFreed`,
  `RequestsAnswered`), which is out of the prover's reach;
- the modules that reach a recursive operator (`Codec`, `JsonObjects`, `JsonText`,
  `MqttPackets`), for which the prover has no arithmetic;
- properties that rest on what a fold or a filter of the community modules
  computes over a sequence of any length (`TwoSided`, `HandlesOwned`,
  `FailedAddLeavesNodes`, `ViewExact`): these operators are opaque to the provers.
  Where a proof needed one, the model says the loop as a recursive function instead
  (`Unsettled`, `Rehashed`, `QueuedUpTo`, `UpdatedFor`, `CleanedUpTo`, `Filtered`,
  `OnWire`, `completeChunksUntil`, `processChunks`, `NodesOf`, `make_group`,
  `getUA_NodeID`, `MembersOf`);
- the half of `WholeAndInOrder` about the time after a loss, for the reason above;
- `MessagesReach`: what the walk of `isTopicMatched` over a filter and a topic computes
  is an induction over both (here `Matched` and `Levels`, recursive functions).

## Findings

1. `subs_channel`: when the last subscription is deleted and the channel closed in
   one batch of messages, the stored publish requests are answered on a channel
   that is already NULL (`src/server/ua_subscription.c:615`); the publish callback
   checks for that (line 456).
2. `config_readme`: the configuration `README.md:62-91` gives as an example has no
   `amqpRabbit`, without which `load` returns -1 (`mqtt/client-config.cpp:362`).

## Observations

Many properties hold only under a condition, stated in the property, in an action
or in the inputs an instance enumerates, and the condition marks a weakness a
reader should know of.  Others below were met in the code the definitions translate.  Paths are below
`src/open62541_mqtt/` unless they begin with `json-c/`.

The bridge and its sinks:

- `ConnectGoodIsConnected`: `UA_Client_connect` answers GOOD for a client whose
  state is CONNECTED although a disconnect or the loss of the connection has
  closed it (`src/client/ua_client.c:577`).  In the bridge this is why a poll
  thread cannot recover: getEndpoints fails on the closed connection and the
  client is freed.  `ReconnectLoses` says this of every reconnect, and that events
  do not survive one.
- The renewal of the channel sets CONNECTED whatever the state was
  (`src/client/ua_client.c:640`), so an ERRORED client is CONNECTED again without
  the reinitialization `include/ua_client.h:66-69` asks for.
- `NoFaultBeforeLoss`: a failed read and a stop lead to the use of a freed client.
- `StopEnds`: a publish call goes on as long as the server says that more
  notifications wait, and does not look at `beStop`
  (`src/client/ua_client_highlevel_subscriptions.c:310-339`), so the end of the process
  needs a server that stops saying so.
- `SocketsKept`: only without a clash of two threads in the TCP transport, whose
  static variable is meant for one (`mqtt/client-trans-tcp.cpp:82`).  `tcp_open`
  returns 0 when `socket()` fails (line 209), which its comment (line 127) and its
  caller take for a descriptor.  The retries of the MQTT thread leave their
  sockets open.
- Configuration: a file with invalid JSON is reported as loaded; keys are compared
  by prefix, and so are some values (`mqtt/client-config.cpp:462`, 473); what a group does not say about its sinks stays uninitialised; what a
  node does not say is taken from the node before, and an alias before its topic
  takes the topic before.  Unsigned values are published as signed ones.  The
  records of all poll threads are built in the same static buffers.

The OPC UA client:

- `GoodIsOwnAnswer`, `WholeAndInOrder`: a call that timed out leaves its answer in
  the stream, and every later call then takes the answer before its own, which the
  request id detects and refuses for ever.  When there is no memory to join a part
  (`src/ua_securechannel.c:273-276`, 303-305), the parts that came are dropped, the
  client goes on collecting, and the tail of the message is given to the callback as if
  it were whole.  A server that meets a token it does not know only logs it
  (`src/server/ua_server_binary.c:596-601`).  After a renewal a jump of the sequence number is
  accepted once.
- `NotificationsMatch`: acknowledgements of removed subscriptions never leave the
  list; the numbers of keep-alives are acknowledged; the removal of an item asks
  for `resultsSize > 1`; an expired subscription that has items cannot be removed.

The server:

- `NoUseAfterFree`, `Limits`: a second ISSUE over one connection, and a purge that
  finds no memory.
- `JobsMatch`: a subscription that expires during a round of the timer frees items
  whose sample jobs the round still runs (`src/ua_timer.c:220`).
- `RequestsExact`: a publish request for which there is no memory is answered with
  its request id and its handle exchanged
  (`src/server/ua_services_subscription.c:427` and 442); requests left to a session
  that has timed out, and was used again after that, wait for a new subscription.
- `ImplementsMap`: an insertion stops at the first tombstone and may put an id in
  twice (`src/server/ua_nodestore.c:122-144`), which a client reaches by AddNodes with an
  id of its own choice, since nothing looks the id up before
  (`src/server/ua_services_nodemanagement.c:686`), and null ids reach (line 383);
  growing then meets the assertion at line 172; a lookup does not end in a table that
  has no slot that was never used.  An insertion that cannot grow the table, and a
  replacement of an id that is not there, leave the node with their caller
  (`src/server/ua_nodestore.c:231-232`, 272-273), although
  `src/server/ua_nodestore.h:66-67` and 80-81 say that it is deleted.
- `TwoSided`, `FailedAddLeavesNodes`, `HandlesOwned`: a node that refers to itself
  keeps half of the pair; a deletion that leaves the references leaves them
  dangling; a failed instantiation leaves the children that were made; memory that
  runs out between the constructor and the reference to the type
  (`src/server/ua_services_nodemanagement.c:472-492`, 1385-1393) loses the handle;
  copied children share one; adding a method replaces the status of its insertion.
- `ViewExact`: a browse in pieces misses references when others were removed
  meanwhile, BrowseNext keeps its continuation point after an error, and the walk
  up a hierarchy does not end on a cycle.
- `AttributesAgree`, `ErrorsChangeNothing`: arrays of several dimensions count as
  one for the value rank; the stride of the third dimension is wrong; a range may
  be written with elements of another type; a range of an empty variant reads
  through NULL; reads ignore the access level.
- `RegistrationsExact`: the daemon gives out a whole bucket of its table, and neither
  the search for a record nor its removal compares the names
  (`src/server/ua_services_discovery_multicast.c:372`, 541), so a collision withdraws or
  keeps the record of another server; a server that registers again while its pointer
  is still ending is left with a service that no pointer leads to; a FindServers
  request that names a uri twice overflows the array of its answer
  (`src/server/ua_services_discovery.c:120-135`); a conflict of names is only logged;
  the fallback registration uses another name than the first
  (`src/server/ua_server_discovery.c:60`, 90).
- `RegistrationsExact`, `NetworkExact`: the TXT and A records of a server are never
  removed, the second address of a host cannot be, and a server that is deleted
  leaves its records; a filter by server capability is alternative to the others;
  the retry jobs of a periodic registration add up and compare seconds with
  milliseconds; names are compared by prefix within a bucket.
- `RoundTrip`: the encoder of a DiagnosticInfo and its decoder disagree about its
  fields; arrays of empty variants are refused; an array whose length falls at the
  end of a buffer is not taken up again; a position kept over an exchange points
  into the old buffer.

The libraries, as they are vendored and used here:

- `JsonRoundTrip`: a comment that ends in `**/` is not ended, in one piece or several; a
  high surrogate at the end of a piece is lost, and "1-2" or "1e1e" become a number
  when they come in pieces, which the model has as the other outcomes (`others`) of such
  a cut; an unterminated comment after a value is success.
- `ObjectsExact`: after a deletion the array's storage keeps old pointers, which a
  later write past the length exposes; a double set anew keeps its old text; the copy
  of a key is lost when the table cannot grow (`json_object.c:497-500`).
- `ReadsWhatWasSent`: receive calls without bytes are counted as bytes of the
  length by one reader; the other ignores that a blocking call found nothing within the
  length and returns the type of the packet with the length it has so far
  (`MQTTPacket.c:72-74`, 303-313; `shortened` in the model); the checks of the smallest acknowledgements are too weak; a packet
  without a body is never returned by the reader that does not block.
- `AnswerIsOwn`, `MessagesReach`: a call takes any packet of the kind it waits for,
  so an unsubscription takes another's acknowledgement; a lost connection leaves
  the client connected with its keep-alive pending; PUBREL is not answered; the
  filter `a/#` does not match `a`, and a wildcard does not match where the topic has an
  empty level (`+/b` and `/b`, `a/+` and `a/`, `a/#` and `a//b`, `#` and `/a`); a full table of
  handlers is not reported.

## Not modelled

The AMQP sink (its thread is commented out in main), the sample programs, the
client's high-level calls (wrappers around the service call), the multicast
daemon's sockets, cache and messages, the generated type tables (data), logging and
printing, and everything of the multithreaded build of the server, which is off by
default (worker threads, `ua_nodestore_concurrent.c`).

Of the components marked `partly` these parts are left out: floating point
numbers, arrays of ranges inside variants, the inner fields of a DiagnosticInfo,
and copying and deleting by the type table (types and encoding); namespaces, the
external node store and the setters of callbacks (node management); access masks
other than the user's (attributes); the check of each argument's type (method
call); the order of the list, the times and the queue of changes (timer); the
array of sockets (network layer).

One hazard of `PROJECT.json` has no property: the single sends and receives of two
threads on one client, which would need `ClientOps` cut into its calls of the
network.  The code promises no subscription a share of the stored requests
(`src/server/ua_services_subscription.c:473`), so there is nothing to check there.

## Plan

1. Done: `ClientOps`, `UAClient` (proofs), `Bridge` (proofs), `Sinks` (proofs), `ServerSessions`
   (proofs), `Subscriptions` (proofs), `Channel` (proofs), `ClientSubscriptions` (proofs), `Records` (proofs),
   `NodeMap`, `NodeStore` (refinement, proofs), `References`, `AddressSpace`, `Variants`,
   `VariableAttributes` (proofs), `Discovery` (proofs), `Mdns` (proofs), `Codec`, `JsonText`,
   `JsonObjects`, `MqttPackets`, `MqttClient` (proofs).
2. Shared client: the single sends and receives of two threads on one client and
   their request ids (`src/client/ua_client.c:762`).
3. Timer: the sorted list and the queue of its changes, shown to implement the job
   counts of `Subscriptions`.
4. An abstract specification of an item's queue that `Subscriptions` implements,
   and the composition of `Subscriptions` with `ServerSessions`.
5. Proofs: `TwoSided`, with the folds of `References` and `AddressSpace` as
   recursive functions; and lemmas about the exchange of buffers of `Codec`, if its
   recursion can be written as functions.
