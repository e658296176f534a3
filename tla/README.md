# A verification project for the TGDB Go client

The repository is the client side of TIBCO Graph Database: a Go client
(`src/client/goAPI`), which is its subject, an older Java client with the same
architecture, and the server's distribution without its source. This directory
holds TLA+ models of the Go client, the TLC runs that check them on small
instances, and TLAPS proofs of the properties that matter most.

Paths below are relative to `src/client/goAPI`. AC stands for
`channel/AbstractChannel.go`, TC for `channel/TcpChannel.go`, CR for
`channel/ChannelReader.go`, BR for `channel/BlockingChannelResponse.go`, CI for
`connection/ConnectionImpl.go`, CP for `connection/ConnectionPoolImpl.go`, AE for
`model/AbstractEntity.go`.

## 1. Inventory

### The parts

| part | state | operations | what makes it correct |
|---|---|---|---|
| **Channel** (AC, TC, BR) | link state, `sendLock`, `exceptionLock`, socket, map of responses by request id, number of connections | Connect, Start, SendRequest, SendMessage, Disconnect, Stop, exception handling, reconnection over attempts and URLs, request/reply of the handshake | an answer reaches the request it answers; a request is executed at most once; locks are released by their holders; every call returns |
| **Channel reader** (CR) | `isRunning`, one goroutine per Start (and one per Stop) | Start, Stop, `readAndProcessLoop` | it goes on reading while the channel is connected; when it cannot, everyone who waits is told |
| **Connection pool** (CP) | `adminLock` (RWMutex), `chanPool` (Go channel of idle connections), `consumers` (map of those in use), pool state | Get, ReleaseConnection, Connect, Disconnect | a connection is lent to one goroutine at a time; none is lost; Get refuses only when none is free |
| **Connection counter** (AC) | `ConnectionsToChannel` (one per process), `numOfConnections` (one per channel) | channelConnect, channelDisConnect, channelStop | a channel is closed with its last connection and not before |
| **Connection, transactions** (CI) | three lists by virtual id (added, changed, removed), link to pool and channel | Insert/Update/DeleteEntity, Commit, Rollback, GetEntity, queries | what is marked is sent; after an answer objects agree with the server; nothing is stored twice |
| **Graph model** (`model/`) | entity id, version, flags, attributes with dirty flags | setters, ReadExternal, WriteExternal, resetModifiedAttributes | an object that differs from its entity counts as modified |
| **Attributes** (`model/*Attribute.go`) | a typed value, a dirty flag, the entity's list of modified attributes | SetValue of each class, WriteExternal, ReadExternal | what is accepted takes effect; what is not flagged is what the server has; a commit can write what is flagged |
| **Metadata** (`model/GraphMetadataImpl.go`) | types and attribute descriptors by name and by id | registration, initMetadata, what a commit sends of them | an attribute is sent under the id the server knows |
| **Result sets** (CI:203-547, `query/ResultSetImpl.go`) | cursor over a slice, map of entities by id while an answer is read | populateResultSet, Next, Prev, Skip, Close | one object for every entity of the answer, and each result once |
| **Queries** (`query/QueryOptionImpl.go`, `QueryImpl.go`, CI:861-1075) | options, prepared queries by hash id | setters, execute, create, close | a request carries limits that were accepted and that its fields can hold |
| **PDUs** (`pdu/`, `admin/`) | a header and a payload per class, 31 classes | ToBytes, FromBytes, the factory | a frame becomes the message that was sent, or none |
| **Streams** (`iostream/`) | a buffer and a position | writers and readers of primitive values, growth | no write past the buffer; reading returns what was written |
| **URLs, settings** (`channel/LinkUrl.go`, `utils/SortedProperties.go`, `connection/DefaultConnectionFactory.go`) | parts of a URL, sorted names and values | parsing, AddProperty, GetProperty, creation of a connection or a pool | a URL is read as it was meant; of several sources of a setting one rule says which counts |
| **TLS, logging, errors** (`SslChannel.go`, `logging/`, `exception/`) | ciphers, records | key exchange, look-ups | |

### How they interact

A pool makes its connections with **one** channel (CP:94-146), which they share.
An application goroutine gets a connection from the pool, calls an operation on
it; the operation takes the pool's read lock, makes a request and a
`BlockingChannelResponse`, and calls `Channel.SendRequest`. That takes `sendLock`,
puts the response into the map, writes the socket and *polls* the response, the
lock still held, until the reader goroutine finds the response in the map and
gives it a reply. When a read fails the reader takes `exceptionLock`, reconnects
if fault tolerance is configured, and answers every response in the map with an
exception. A sender whose write fails takes the same lock and sleeps until
somebody else has connected or closed the channel. A connection's Disconnect
gives up its share of the channel and stops it if no share is left; Stop starts a
second reader loop before it clears `isRunning`.

### What is hard

* two mutexes that are not reentrant, taken by senders, the reader, connecting and
  stopping goroutines in different orders, on error paths inside error paths;
* a map and a link state that the reader uses without a lock;
* faults of the network at any moment, timeouts, messages delivered together, a
  server that ends the session, and reconnection in the middle of requests;
* a `RWMutex` whose writer waits for connections that need the read lock to come
  back, and readers that take it twice;
* one atomic counter for all channels, added to and stored in two steps;
* commits whose answer is lost, whose request is refused, or that race with commits
  of the same entity through another object; dirty flags kept in two places;
* pairs of methods that must agree although nothing compares them: what each class
  writes and what its peer reads, when a write grows its buffer and by how much;
* entities of an answer that name each other before and after they come;
* settings that come from five sources under two names each.

`PROJECT.json` lists the hazards at their lines, with the properties that would
catch them.

## 2. Modules

    Channel ---- refines ----> RequestService     ChannelProofs
       | (same protocol: SendRequest)
    Transaction                                   TransactionProofs
    ConnectionPool -- refines --> Leases          ConnectionPoolProofs
       | uses RWMutex
    ConnectionCount                               ConnectionCountProofs

    Streams <-- OutputStream                      OutputStreamProofs
       ^
    Layouts <-- Externals, AdminPayloads <-- Messages <-- Exchange
    EntityStream                                  QueryProofs (with Queries)
    Attributes                                    AttributesProofs
    Metadata
    SortedProperties <-- ChannelUrl <-- Settings  SettingsProofs
                     <-- Queries

`MCChannel`, `MCConnectionPool` and `MCTransaction` extend the modules for TLC.
`MCClient` extends ConnectionCount, Transaction, OutputStream, Attributes,
EntityStream, Queries and Settings, the last with the samples of `MCSettings`, and
instantiates Exchange with those of `MCMessages`: in a behaviour one of these eight parts
moves, which `part` says, and the others stay as they began, in one of their initial
states (Exchange, which is an instance, has no state then). They share no state in the code
either; the run checks each part on its own, exhaustively.

**Channel** models AC, TC, CR and BR. Its processes are goroutines: `Apps` call the
channel, `Readers` are slots for the goroutines that Start and Stop spawn. `pc[p]`
names the next statement of `p` that touches shared state, and everything up to
the following one is a single action, so that goroutines interleave where the
code lets them. `sendLock` and `exceptionLock` hold the goroutine that has them;
an action that locks is enabled when the lock is free, also for the goroutine
that has it, which is what a `sync.Mutex` does. `responses` is the key set of the
map, `reply[r]` the status and reply of request r's BlockingChannelResponse,
`socket` the number of the open socket (0: `isSocketClosed`), `readSock[p]` the
socket a goroutine blocks on, so that a read on a closed socket fails although a
new one is open. The server keeps the requests it has read (`received`) and not
yet answered (`inflight`), and `wire` is what it has sent. A panic (a failed type
assertion, a nil message) is a program counter that stops everything. `Unwritable` are
the requests whose message `ToBytes` cannot write (a text too long for WriteUTF, an
array in a blob; 0 stands for the messages without an answer), and `CredentialsFit`
says whether the message of the handshake with the user's name can be written: for
those Send fails, whatever the socket is.

| actions | code |
|---|---|
| SendRequest ... TakeReply | channelSendRequest, channelSendMessage, AC:474-611; Await, BR:70-101 |
| LockException, WaitForLink | channelHandleException(err, false), AC:296-338 |
| Connect, ChannelConnect, ChannelStart | CI:735-753, AC:251-275, AC:613-626 |
| Disconnect, ChannelDisConnect, ForceStop, Stop* | CI:878-893, AC:277-294, AC:628-678 |
| Reconnect ... TryConnectFailed | channelReconnect, channelTryRepeatConnect, channelRequestReply, OnConnect, AC:380-471, 720-771, TC:540-655 |
| Reader*, Notify*, ProcessMessage | CR:73-194, AC:358-378, AC:679-693 |
| Answer, ServerSends, PeerGone, `Event(...)` | the server and the network |

**RequestService** is the abstract specification of SendRequest: a request is
submitted, read by the server at most once and only while its caller waits, and
ends once, well only if the server has read it. `Channel` implements it under the
mapping that reads a request's status off `outcome` and `nextReq` (`ServiceSpec`).

**ConnectionPool** models CP and the lock that operations take (CI). `RWMutex` is
Go's: Lock announces itself and then waits for the readers it found; RLock blocks
from the announcement on. `lease` is what goroutines have got and not released.
The constructor may fail to make some connections (CP:113-141), which is why
`connList` is any subset. The shared channel is up or down. **Leases** is its
abstract specification.

**ConnectionCount** models the counter with several channels in a process, each
connection on one of them in every assignment; `overlap` says whether two
connections make calls at the same time in a behaviour. Connections may be connected
though they are open, and disconnected though they are not: the code does not look, and
Disconnect of a pool does so (CP:277). `paired` remembers that neither has happened.

**Transaction** models the lists, flags, ids and versions of CI and `model/`.
Objects are nodes and edges in memory; several objects may stand for one entity,
because every GetEntity makes a new one (`Fetch`). An object has one attribute,
with `isModified` (`modified`) and whether it is among `modifiedAttributes`
(`listed`), two things the code changes in different places. `home` is the
connection an object is used through: objects are not shared between connections,
entities are. A commit is three steps: `Commit` puts the end nodes of edges into
the changed list and sends the request, the server applies or refuses it, and
`CommitReturns` fixes up ids, versions and flags, or `CommitFails` or `AnswerLost`
end it with an error. That the server executes a commit at most once and that an
error tells nothing is what `RequestService` says; a transaction that the server
refuses cannot be read by the client (`pdu/CommitTransactionResponse.go:442`), and
breaks the channel like a failure of the network. `Setters[o]` says in which ways
an application changes an object: `SetOrCreateAttribute`, `SetValue` on the
attribute, or `SetAttribute` with a new attribute.

**Streams** defines what the writers of `iostream/` append and what its readers make
of the bytes they find, as operators; bytes are numbers below `Radix`. **OutputStream**
is the buffer: each writer with its own condition for growing, the writes at a
position, strings that are too long. `fault` is an index out of range.

**Layouts** is a small language in which a WritePayload or ReadPayload method is the
sequence of its calls: fields, constants, counts with what is repeated, sections,
errors of its own. Two interpreters give it meaning, one that writes (`WriteAll`) and
one that reads (`ParseAll`). **Externals** (`model/`), **AdminPayloads** (`admin/`) and
**Messages** (`pdu/`) translate the methods of every class, each of the two
separately from its own lines. **Exchange** adds the header, ToBytes and FromBytes, the
factory, and a socket that returns parts of frames, or several at once, to
ReadWireMsg (TC:657-702), which takes each Read for one frame. What the server writes
for answers the client only reads (`ServerWrites`) is derived from what it reads.

**Attributes** models one attribute of an entity: which kinds of Go values each class
accepts, refuses or panics on and what it stores, the flag, the list, a commit, a
rollback and reading. `byHand` says that the application changed the attribute past
its entity, by SetValue or SetAttribute. An attribute that is given to SetAttribute may
have been made without a value or with one (`CreateAttributeWithDesc`), which its
constructor stores and does not flag.

**EntityStream** models the three functions of CI that turn an answer into objects: the
reference map, the shells ReadExternal puts into it, which entities become results,
where the code panics; and the cursor of the result set. `content` says of each entity
whether its attributes can be read: a null one ends the program, one without a class ends
the call, after one that is read too far the rest is anything.

**Metadata** models the descriptors of a connection and where their ids come from:
the counter of the process, the server's ids, and what a commit selects as new.

**SortedProperties** models the sorted list as a function from names in lower case to a
value and to whether the exact spelling is among the entries. **ChannelUrl** parses
the text of a URL, a sequence of words and signs, as LinkUrl.go does, where an index
that a split has not got is the outcome "panic". **Settings** is
CreateConnectionPoolWithType: defaults, the application's map in any order, the URL's
properties, user and password.

**Queries** models the options object, prepared queries and the six commands that send
a request, with both filters every limit passes. `accepted` keeps what the application
last gave for each option and whether it was added as a property, which no setter sees.

External to the code, and modelled from how it is used: the server's optimistic
check of versions (`Current`, `Joined`, `Written`, `NewEntity`), the RWMutex, the
network.

## 3. Runs

| run | module | question | bounds |
|---|---|---|---|
| Healthy | Channel | two goroutines, requests, one of which cannot be written, a Connect, an orderly Disconnect: one exchange at a time, map races, leaks, every other call returns | 2 requests, 1 Connect, 1 Disconnect, 1 socket |
| Shutdown | Channel | forced stops, pings, terminated sessions and broken sockets without fault tolerance: who releases which lock, who waits for himself | 1 request, 2 Connects, 2 stops, 1 event |
| Failover | Channel | requests, messages without an answer and a Connect with fault tolerance, two of seven kinds of faults | 2 requests, 2 sockets, 2 attempts, 2 URLs |
| Pool | ConnectionPool | three goroutines on two connections, Connect and Disconnect, any part of the pool missing | 1 pool Connect |
| Client: count | ConnectionCount | three connections on one or two channels, overlapping or not, connected and disconnected in turn or not | out of turn only on one channel without overlap; a counter from -1 to one more than the connections |
| Client: transaction | Transaction | two nodes and an edge on one or two connections | 2 entities stored, 2 versions, 1 answer lost, and none with two connections |
| Client: output | OutputStream | every order of three writes and of writes over them, from buffers of 0 to 9 bytes | 3 values, 4 digits in a byte |
| Client: exchange | Exchange | every class of message, with every branch of its payload, followed by another, in pieces and together | 2 messages, 16 digits in a byte |
| Client: attributes | Attributes | every class, values of all 15 kinds, inside and outside the ranges | none: finite |
| Client: entities | EntityStream | every answer of two nodes and two edges, one of them a loop, every set of results, every walk of the cursor | 4 entities, one of them unreadable |
| Client: settings | Settings | every URL of the documented form with up to two properties, other texts, environments of up to two entries | 5 settings |
| Client: queries | Queries | options set and added in any order, every command | 2 changes of the options |
| NewDescriptor | Metadata | two attributes, with and without a type, on a client and on the server | 6 local ids, 2 of the server |
| RetryUnderLock, ReaderAfterRetry, OperationTimeout, PoolNested, UpdateReplaced, DocumentedUser | | with NewDescriptor, the disagreements of section 6 | as above, smaller |

What they show:

* **LockDiscipline**: whatever path a goroutine takes into or out of the channel,
  it unlocks only what it has locked, writes the socket only with `sendLock`, and is
  alone in the exception handler. **NoSelfDeadlock**: it never waits for a mutex
  it has, except in the case of RetryUnderLock and, nested, of a reconnection that
  fails in its handshake (the reader stops in `RequestReplyHandle` for ever), for
  which the property is not claimed under fault tolerance.
* **ReplyIntegrity**, **OneOutstanding**, **ServiceSpec**: late,
  repeated and lost answers never meet the wrong request, and a request is read by
  the server at most once.
* **NoLeakedResponse**, **NoMapRace** hold where the network and the server do not fail,
  as long as nobody has stopped the link. They are checked without faults only, because
  they do not hold with them (section 6). A response stays in the map as long as its call,
  which is for ever if its request cannot be written.
* **CallsReturn**: with a healthy server, and with an orderly Disconnect, every
  call comes back, but for that of a message which cannot be written, which is tried
  again as long as the link is connected. It does not keep the others from returning.
* **GetAlone**, **OnePlace**, **RefusedOnlyWhenBusy**, **LeasesSpec**,
  **PoolCallsReturn** for the pool, the last as long as no operation decrypts.
* **CounterCoversOpen**, **NeverCutOff**, **NumberOfConnections** for the counter: the
  first two as long as connections are connected and disconnected in turn, because
  otherwise they do not hold (section 6).
* **Coherent**, **WriterIsCurrent**, **StoredOnce** for transactions.
* **InBounds**: no writer stores past the buffer, although each has its own condition
  for growing it. **ReadsBack**: what is read is what was written, whatever grew,
  was refused or was written over; with three exceptions that the property
  names (section 6). **TruncationNoticed**: a stream that was cut does not read well.
* **NeverTorn**: whatever the socket returns, a message that comes out is one that
  went in. **FactoryFindsClass**: no frame becomes a message of another class.
  **Understood**: every field that a class reads has the value its peer wrote.
* **CommitCanWrite**, **NothingUnsent**, **ResentIsByHand**, **AcceptedTakes** for
  attributes: no sequence of sets, commits, rollbacks and reads leaves a value that
  ends the program when it is written, is never sent, or is sent for ever, except by
  the calls the properties name (SetValue on the attribute, SetAttribute).
* **OneObjectEach**, **ResultsOnce**, **CursorOnResult** for answers in any order.
  **ReadToItsEnd**: only an edge that comes before its nodes and an attribute that cannot be
  read end the reading of an answer.
* **DocumentedUrls**, **EndsOnlyWhere**: a URL of the documented form is read as it was
  meant, and ends the program only because of ftHosts or an IPv6 host. **UserRule**,
  **SourceCounts**: which source of a setting counts; where a map has a name in two
  spellings, either may come last.
* **LimitsSent**: a query carries what was last accepted for each of its options, set or
  added as a property, if that can be found.
* Where the documentation says something else than the code does, these four take no side:
  they say nothing of the port of a URL that names none (DocumentedUrls), of a user named
  by a property of the URL or, next to a URL, by the environment (UserRule; the first of
  the two is the run DocumentedUser), of a setting that the URL and the environment both
  have and of aliases that are not heard (SourceCounts), of SetEdgeLimit(0) and of a batch
  size that was not added as a property (LimitsSent). Section 6 has each of them.

Why the bounds are enough. Two application goroutines and two reader slots are
the smallest channel in which a request meets a reconnection that another
goroutine's request caused, or a second reader; two requests let a late answer
meet a different one; two sockets let a goroutine read a dead one; two events let
a fault hit the handling of a fault; with two stops (`MaxStops`) the second meets what the
first has left. In Healthy one of the two requests cannot be written, so that its endless
tries meet the other's exchange. `RetryCount` 2 and `UrlCount` 2 take both
branches of the loop over attempts. Three goroutines on two connections leave one
to find the pool empty while two others hold, release or use connections. Two
objects for one entity, through one connection and through two, and an edge
between them give every conflict of versions and every collision in the changed
list. Three writes let a third meet a buffer that the first filled and the second
grew; the digits of a byte are a parameter, as TLC's integers have 32 bits, and
everything the streams do with bytes is division by it. Two messages are enough for
a Read to return one and a part of another. Two nodes, an edge and a loop are the
smallest graph in which an entity is named by a node and by an edge, before it comes
and after. Two properties of a URL are enough for one to be overwritten by the other,
under either of its names. The passing runs fire, between them, every action and every disjunct. Symmetry is used only over goroutines, connections and
channels, that is, sets whose elements the specification does not tell apart, and
never with liveness.

CHECK_DEADLOCK FALSE stands where the program may really stop: after a panic, in
the deadlocks of section 6, and where the bounds on calls are used up.

**Fairness.** A goroutine that can go on does (weak fairness: the Go scheduler).
A lock that becomes free again and again is got in the end (strong fairness: a
`sync.Mutex` hands itself over to a starving waiter, and so does the mutex inside
`RWMutex`). A server that is up answers. Nothing makes an application call
anything, a network fail, or an operation decrypt.

## 4. Proofs

All for any number of goroutines, requests, connections, channels, objects and faults,
for any answer, any values and any length of a buffer.

| theorem | says | rests on |
|---|---|---|
| `LocksHeld` | Spec => []LockDiscipline | `LockInv` |
| `AnswersAreGenuine` | Spec => []ReplyIntegrity | `ReplyInv` |
| `ChannelImplementsService` | Spec => ServiceSpec | `ReplyInv`, step by step |
| `StateIsTyped` | Spec => []TypeOK | `LockInv`, `CallInv`, `AnswerInv`, `RestType` |
| `NobodyWaitsForHimself` | ~HasFT => (Spec => []NoSelfDeadlock) | `HeldInside`, `NothingRetried` |
| `OneExchangeAtATime`, `NothingLeaks`, `MapIsNotRaced` | NothingFails: Spec /\ []ConnectsAlone => []OneOutstanding, []NoLeakedResponse, []NoMapRace | `HealthInv` |
| `OneConnectIsAlone` | MaxConnects <= 1 => (Spec => []ConnectsAlone) | `ConnectInv` |
| `GetIsAlone` | Spec => []GetAlone | `LockShape` |
| `NothingLost` | Spec => []OnePlace | `PoolInv` |
| `PoolImplementsLeases` | Spec => LeasesSpec | `PoolInv` |
| `RefusesOnlyWhenBusy` | Spec => RefusedOnlyWhenBusy | `PoolInv` |
| `CounterCovers` | Spec => []CounterCoversOpen | `CounterInv` |
| `NeverClosedUnderAnother` | Spec => []NeverCutOff | `CounterInv`, `ChannelInv` |
| `NumberIsExact` | Spec => []NumberOfConnections | `CounterInv`, `ChannelInv`, `OneChannelInv` |
| `UnmodifiedAgrees` | TransactionSpec => []Coherent | `TransactionInv` |
| `NeverStoredTwice` | TransactionSpec => []StoredOnce | `TransactionInv` |
| `WriterKnows` | TransactionSpec => []WriterIsCurrent | `TransactionInv` |
| `OneObjectForEach`, `ResultsInOrder`, `ReadNodesFirst`, `CursorStaysInside` | StreamSpec => []OneObjectEach, []ResultsOnce, []ReadToItsEnd, []CursorOnResult | `StreamInv` |
| `LimitsAreSent` | QueriesSpec => []LimitsSent | `OptionInv` |
| `CommitNeverPanics`, `UnflaggedIsSent`, `ForgottenFlagsAreByHand` | AttributesSpec => []CommitCanWrite, []NothingUnsent, []ResentIsByHand | `AttInv` |
| `AcceptedReplaces` | AttributesSpec => AcceptedTakes | `SetValueTakes` |
| `WritesInside` | OutputSpec => []InBounds | `BufferInv`, `StringBytesFit` |
| `ReaderGetsWhatWasWritten`, `ReaderNoticesMissingByte` | OutputSpec => []ReadsBack, []TruncationNoticed | `StreamInv`, `ReadBack`, `ReadFails` |
| `UserIsChosen` | SettingsSpec => []UserRule | `SettingsInv` |
| `SourceIsChosen` | UrlsReadAsSaid: SettingsSpec => []SourceCounts | `SettingsInv` |

*Channel.* LockDiscipline is not inductive: an application goroutine may run the
exception handler inside its own handshake, and would then break the discipline
if it got past the lock it already holds. `LockInv` adds that such a goroutine is
in one of four places. `ReplyInv` adds that a request has one goroutine whose call
has not returned while the outcome is open (`CallInv`), and that every answer on
its way, on the wire, in a reader or in a response, answers a request that the
server has read (`AnswerInv`). The refinement maps every action to Submit,
Receive, Finish or a stutter.

*Who waits for himself.* With fault tolerance NoSelfDeadlock is false, which is the run
RetryUnderLock; the theorem says that this is the only way. Without fault tolerance no
handler ever says that an operation may be retried (`NothingRetried`), so that nobody
goes back to ChannelLock with the lock in his hand, and who holds a lock is inside the
code that it protects (`HeldInside`).

*Exchanges.* OneOutstanding, NoLeakedResponse and NoMapRace hold only while nothing
fails: `NothingFails` says that the network keeps the socket, the server answers and
pings, the credentials can be written, and nobody disconnects, which are values of the
constants. Requests and messages may be any that cannot be written (`Unwritable`): their
senders go round and round, under sendLock only while they try, and leave nothing but
their own response in the map. `HealthInv` says what is then possible: the channel is `Starting`, in the hands
of the one goroutine that makes the handshake, or `Running`, with a socket that stays;
and an answer is in exactly one of the server, the wire and a reader, while the
goroutine it is for awaits it, holding `sendLock` (`Exchanges`); and who is on the way to
another try has a link that stays connected, so that a response is only that of a call that
goes on (`ResponsesKept`). That Disconnect is harmless until the link is
stopped is checked in run Healthy, not proved. The other hypothesis,
`ConnectsAlone`, says that no two goroutines are inside channelConnect's search for a
socket at once: it is a fact about the callers that the code needs and does not ensure
(section 6, AC:251). Without it the three are false, as TLC shows with two Connects.
The pool meets it, which connects its connections one after another, and so does a
program that connects once (`OneConnectIsAlone`, with whatever faults).

*Pool.* `LockShape` ties program counters to the RWMutex. `Places` adds to OnePlace
that leased connections are in the consumers map, that no two goroutines have a
lease on the same one, and that a connection being released is leased to nobody:
without these a step of Get, which looks only at the Go channel, could lend what
somebody has. That Get refuses by the size of the consumers map, and never a
connection that is idle, follows by counting: the map with PoolSize keys has every
connection, and what is idle is not in it.

*Counter.* `CounterInv` counts, while `paired` holds, the connections that have added their
share and are not open yet; nothing is claimed once a connection was disconnected out of
turn, but that a single channel is up exactly while it counts connections. `ChannelInv` adds, for behaviours without overlap, that a sum is
still the counter's value when it is stored, so that each channel's own number
covers its open connections, although it came from a counter others change too.
`OneChannelInv` makes the number exact where there is one channel.

*Transactions.* Between the commit at the server and the return of Commit an object
is behind its entity, and Coherent alone is not inductive: the answer must bring what
was promised. The invariant speaks of each object as it is and as it is `Settled`, as
it will be when the answer that is on its way has been brought into it. In both forms
it keeps the `Promise`: at the version of its entity, and not modified, it has its
value. An object that is not on a list of the connection that commits is not touched
by its answer (`FixedElsewhere`), which is why lists must be keyed by the ids of
their objects (`ListsKeyed`). The objects through which an entity was stored and last
written are, once settled, the entity's (`SourcesKnown`, `WritersKnown`); after a lost
answer this is false, and the two theorems are for the time before.

*Results.* `StreamInv` says what the loop of populateResultSet has done when it is at
place `next`: the reference map has the entities read or named so far, the read ones
initialized (`MapFollows`), and the list has those that are returned (`ListFollows`);
it stops short of the end only at an edge whose nodes were not named or an entity that
cannot be read.

*Options.* `OptionInv` says that whatever can be found in the options object is what was
accepted last, or what a new object is preloaded with (`Follows`). A request is then a
function of the options (`LimitsCarried`, `OrderCarried`), and keeps what was accepted
when it was made.

*Attributes.* The induction over sets, commits, rollbacks and fetches needs only what
`ClassFacts` says of each of the fifteen classes: what SetValue stores and ReadValue
makes, WriteValue can write, and which keep their first value. The values themselves
are arbitrary numbers; the sizes of bytes, shorts and ints are any.

*Buffer.* Only lengths matter, but the length of a string's encoding is defined by
a fold over the string. `SetInduction` proves induction for sets of naturals from the
library's fact that a one-to-one map of a finite set to itself is onto; with it
`StringBytesFit` shows that the encoding has at most two bytes for one, and the
three that WriteUTF reserves for each are enough.

*Writing and reading back.* `StreamInv` adds to `BufferInv` that the buffer has, up to
`count`, the encodings of the logged values one behind the other (`Encoded`). An append
puts the next one behind them, whether or not the buffer grew (`EncodedAppends`); a write at
a position that is not refused replaces one by another of the same length
(`EncodedReplaces`); a write that is refused leaves them (`EncodedStays`). Of each kind it
is proved that a read operation at the encoding of a value returns what `ReadValue` says
and stops behind it (`ReadBack`), and that it fails when the encoding is cut off
(`ReadFails`). The numbers rest on `DigitsBack`, `SignedBack` and `LongBack`: the digits of
a number, also of a negative one, add up to it again. The strings rest on `StringBack`:
decoding a character undoes its encoding, wherever in the bytes it begins. Both are
inductions, over the number of digits and over the length of the string, which are done
with `SetInduction`. `ReadsOn` then follows the reader from value to value. What is
assumed is `WritableAssumption`, that the values have the types of the Go arguments,
and `RadixAssumption`, that there is an even number of bytes, so that there are
as many negative numbers as others; that of the code is 256.

*Settings.* Two names are asked for, a configuration's full name and its alias, and the
value under each depends on what was added last under it, in any spelling, and on whether
its exact spelling ever was. What is proved of both rules (`UserChosen`, `ValueChosen`) is
what the code does in every case; the two properties leave out those of section 6. `SettingsInv` says both of the list, once the properties
of the environment that do not wait any more were added (`AfterEnvironment`: one step adds
one, whichever comes next, by `OneMoreAdded`), and once those of the URL were
(`AfterUrl`). The user's rule then needs of the URL only that its user is a property of
it, under the full name (`UrlHasUser`); it also needs that the user has no default
and that his alias is sorted behind his full name (`SettingsAssumption`). The other
settings need what the properties of the URL are: `UrlsReadAsSaid`, that those of a
documented URL that can be read are the pairs that it says, is the theorem's hypothesis.

Assumptions: those named in the modules (`ProcsAssumption`, `BoundsAssumption`,
`PoolAssumption`, `CountAssumption`, `ObjsAssumption`, `StreamAssumption`,
`AttributesAssumption`, `OutputAssumption`, `WritableAssumption`, `RadixAssumption`,
`QueriesAssumption`, `SettingsAssumption`), which say that sets
are disjoint, that bounds and values are numbers, that edges have nodes for ends,
that a pool is finite and what the table of configurations has for the user. In
`Transaction`, `EntityStream`, `Attributes`, `OutputStream`, `Queries` and `Settings`
they are definitions that the theorems assume; `MCClient` assumes them of
its instance, so that TLC evaluates them.

*Only model-checked:* liveness (CallsReturn, PoolCallsReturn); NoSelfDeadlock under
fault tolerance, where it holds for some bounds only; NeverTorn, FactoryFindsClass and Understood, because the layouts of messages are read
and written by RECURSIVE operators (`Layouts`), in whose modules nothing can be proved;
and DocumentedUrls, EndsOnlyWhere and the hypothesis UrlsReadAsSaid, which compare what the
client makes of a text, split and folded word by word, with what was meant by it, so that
a proof would be an induction over the text.

## 5. Not modelled

* which of the fault-tolerance URLs an attempt goes to (AC:708-761): what counts is that
  it goes to some server, and when the search ends;
* the ping: `EnablePing` starts nothing;
* `SslChannel.go`, which repeats TC over a TLS connection, `DataCryptoGrapher.go` and
  `TGCipherSuite.go`: calls of Go's crypto library;
* ReadVarLong and WriteVarLong, which nothing calls, SkipBytes;
* encrypted attributes (ConversionUtils.go and the bytes behind DecryptBuffer), the
  arithmetic of TGDecimal, the formatting of dates;
* the registries of node and edge types, the selections over a node's edges, GraphImpl;
* logging and error values, the accessors of records, the printing of the
  administration's results;
* the Java client, samples, tests and the server's distribution.

## 6. Where code and documentation disagree

With a run:

* **RetryUnderLock** (AC:600): the branch that retries does `continue` with
  `sendLock` held; the lock is called reentrant (AC:97) and is not.
* **ReaderAfterRetry** (CR:109): the reader compares a TGError code with a channel
  constant and leaves its loop after a successful reconnection.
* **OperationTimeout** (BR:84): nothing ends the wait for an answer of a server that
  terminated the session; Await
  never looks at the timeout it is given (`utils/ConfigName.go:91`).
* **PoolNested** (CI:829): reading an encrypted attribute takes `adminLock.RLock` a
  second time; with a Get in between, both wait for ever.
* **UpdateReplaced** (CI:629): the end node of an edge replaces, in the changed list,
  another object for the same entity that UpdateEntity had put there; that
  object's changes are not sent, and Commit reports success.
* **DocumentedUser** (`channel/LinkUrl.go:102`): `connection/DefaultConnectionFactory.go:74`
  documents that userID=value in the URL is considered when no user is given and none is in
  front of the host. NewLinkUrl adds the part in front of the host, also an empty one, under the
  full name, which is found first: the default user is taken.
* **NewDescriptor** (`model/AttributeDescriptorImpl.go:62`): descriptors made by the
  client count up from 1, while `GraphMetadataImpl.go:77`, AE:500 and
  `pdu/CommitTransactionRequest.go:339` take negative ids for the new ones: none is sent,
  and the attribute is written under an id that is unknown to the server, or that of
  another attribute.

Without a run of their own, in the channel, the pool and transactions:

* CP:315: releases delete from the consumers map under the read lock, together
  with each other and with Connect's iteration, although the lock is "for
  synchronizing read-n-update" (CP:60).
* CP:240-244: the pool's Connect visits the connections in use, not those of the
  pool, and compares their ids with pool states; a fresh pool reports Connected
  without having connected anything (CP:224).
* CP:204-208: a connection that is in the consumers map already is lent all the
  same: one released twice is lent to two goroutines. The model's goroutines
  release what they got once.
* CP:316: a connection goes back to the pool with its three lists.
* AC:251-275: channelConnect looks at the link without a lock. Two Connects that
  overlap each open a socket, and the second replaces the first one's; when the
  handshake of the second fails, for example because it reads a ping for an answer,
  it closes the socket of the channel that the first has connected. A request that
  goes out then fails, and leaves its response in the map. The pool connects its
  connections one after another (CP:240), applications may not.
* AC:255/291: AddInt32 and SetNoOfConnections are two steps, the first without a
  lock: with overlapping calls a channel's number may be stale, and a stop may
  skip or come early. `overlap` confines the two properties it breaks.
* AC:277-291: a channel that is terminated or closed by force gives back no
  share, so that the counter stays too high, and another channel open.
* AC:558/566: a Send that fails leaves its response in the map; with an
  orderly Disconnect racing, the reader iterates the map while requests change it.
* CI:702: `HasException` is never true, and Commit would report success if it were.
* CI:690: after a lost answer the lists are as they were; the next Commit stores the
  new entities a second time. WriterIsCurrent and StoredOnce are stated for the
  time in which no answer was lost.
* CI:1294: the same entity can be updated on several connections; nothing refuses.
* AE:237: SetAttribute puts an attribute on the list of modified ones without its
  flag: it is not sent (AE:510), although CI:1291 says that "Entity.setAttribute
  calls make the entity dirty". The action is in the model; Coherent excludes the
  objects on which it is used.
* CI:641-644: an edge that was fetched has no vertices (below); committing its
  update or deletion dereferences one.
* AC:564-582: a message that cannot be written (TC:324: ToBytes returns an error, for
  example for a text too long for WriteUTF, `pdu/QueryRequest.go:461`) is not told from a
  network that failed. channelHandleException finds the link connected and answers
  Retry, so that SendRequest tries the same message for ever, with its response in the
  map; SendMessage likewise, which "returns immediately" (`types/TGChannel.go`). AC:580 asks "Should
  we not throw an error?".
* CP:277-279 disconnects every connection of the pool, Connect (CP:240-253) connects those
  in use; neither AC:255 nor AC:286-291 looks whether the connection has a share. With a and
  b of a pool and c on another channel, a and c connected: Disconnect of the pool subtracts
  for a and for b, and the counter is 0 while c is open; Connect and Disconnect of another
  connection on c's channel then close it under c. A second Connect of an open connection adds again,
  and one Disconnect then leaves the channel open.
* AC:752-761: with several ftHosts only the first is tried, as the next index differs
  from the connection's and ends the search; with exactly one the next index is the
  same, and the search never ends without a connection. With any, the primary URL is
  never connected to.

In streams and messages:

* `iostream/ProtocolDataOutputStream.go:526`: the string that is being written is in a
  variable of the package, which all channels share.
* `ProtocolDataOutputStream.go:516-548` writes each *byte* of a string as a character,
  the reader (`ProtocolDataInputStream.go:330-376`) reads characters: what is not
  ASCII comes back as two bytes for one ("é" as "Ã©"). Nothing has three bytes.
* `ProtocolDataInputStream.go:191`: ReadInt is unsigned; a negative descriptor id that
  the server returns could not match.
* `ProtocolDataInputStream.go:493-496`: ReadBytes returns zeros, of the right length.
* `ProtocolDataOutputStream.go:455`: the writes at a position refuse the last one that
  fits.
* TC:677-698: one Read is one message; TC:683 panics when more than half of the buffer
  is read.
* `pdu/AuthenticateRequest.go`: ReadPayload does not read what WritePayload writes.
* `pdu/DecryptBufferRequest.go:49`: the request's verb is that of the response.
* `pdu/ProtocolMessageFactory.go:92-101`: the verbs of administration get the message
  for metadata, which refuses them: no AdminResponse can be decoded.
  `ProtocolMessageFactory_test.go` leaves these verbs, and ten others, out.
* The comment on the header (`pdu/AbstractProtocolMessage.go`) has an int where the code
  writes a short; UpdateSequenceAndTimeStamp is only called with -1 (TC:167).
* `admin/AdminRequest.go:331`: KillConnection carries the session id of the requester.

In the model:

* `model/AbstractAttribute.go:285`: every null attribute that is read ends the program.
  One whose type has no class ends the call with an error.
* `model/AttributeFactory.go:149-209`: an attribute that is
  made with a value is not flagged; given to SetAttribute it is listed and never sent. The
  constructor does not look at the value's type either: a Boolean made with a text panics
  when it is set (`model/BooleanAttribute.go:78`).
* nil is a value for most classes; Byte, Char and the numbers panic on it
  (`model/ByteAttribute.go:131`, `model/NumberAttribute.go:168`).
* `model/TimestampAttribute.go:247`: a timestamp without a zone is read two bytes too far.
* `model/NodeImpl.go:345`: a node writes its own id for each of its new edges.
* `model/ClobAttribute.go`: WriteValue leaves out the id that BlobAttribute writes.
* ByteAttribute:77, TimestampAttribute:76, BlobAttribute:194: every value after the first
  is ignored, without an error.
* NumberAttribute:282 writes by an assertion to string, ReadValue stores a TGDecimal;
  NumberAttribute:84 changes precision and scale of the descriptor that all entities share.
* SetValue of several classes panics on kinds of values that it tests for (a failed
  assertion); Timestamp refuses time.Time, and Blob refuses []byte.
* AE:151-157 panics for a name without an attribute; AE:361-368 does nothing.
* An attribute that is changed by its own SetValue is flagged, and in no list: it is sent
  again with every commit of its entity.
* `model/NodeTypeImpl.go:102`: UpdateMetadata's test for an error is inverted.
* `model/GraphMetadataImpl.go:175`: a value of a Go type that has no attribute type leaves
  an invalid descriptor under the name; CreateAttributeDescriptor replaces by name and
  not by id. CI:129-132: an error while metadata is read is not reported.
* `model/NodeImpl.go:113-120`: edges of type nil and any direction are all edges; the
  direction given to NewEdgeWithDirection is not what GetDirectionType returns.
* ObjectToByteArray and ObjectFromByteArray (`model/ConversionUtils.go`) do not agree.

In queries and result sets:

* CI:262, CI:290: an entity is read into a copy of its struct. Id, version and attributes
  are behind pointers; the edges of a node and the ends of an edge are in the copy:
  a fetched edge has two nil vertices (`types/TGEdge.go:84`).
* CI:412: GetEntity and GetEntities panic on an edge that comes before its nodes.
* CI:257: currResultCount is never incremented: every entity no earlier one has named is
  a result, and no other.
* `query/ResultSetImpl.go:154` documents position 0 for a new result set, which has -1.
* `query/QueryOptionImpl.go:85`: the batch size is not preloaded, so SetBatchSize has no
  effect, and a request has 1000 where the documented default is 50 (:126). SetEdgeLimit(0),
  documented as no limit (:201), sends 1000, the untouched default sends 0, and so does a 0 that is added
  as a property.
* CI:993 says that null means the default options; it sends another batch size and
  another sort limit. AddProperty changes an immutable option. Parameters are not sent.
* CI:1062: the answer to a prepared query is dropped. CreateQuery returns nil and no
  error for a query the server refuses; ExecuteGremlinQuery returns its argument.

In URLs and settings:

* `channel/LinkUrl.go:194` (IndexAny): any ':' or '/' counts as "://". A text with one of
  them and without "://" panics, which includes each "<host:port>" of the documented
  ftHosts. `LinkUrl.go:71-80`: with ftHosts in the operating system's environment the
  constructor calls itself without end.
* IPv6 hosts are split at their first colon, so that most of the documented ones end the
  program: `[::1]` at a slice `[1:0]` (`channel/LinkUrl.go:298`), `[2001:db8::1]` because
  db8 is no port, which makes the URL nil. A property without '=' and a trailing ';'
  panic; what follows a second '=' or '/' is cut. A malformed URL becomes nil, which is
  dereferenced.
* `channel/LinkUrl.go:39`: a URL without a port has 8222; tgdb.channel.defaultPort is
  documented as 8700 (`connection/DefaultConnectionFactory.go:98-100`).
* `connection/DefaultConnectionFactory.go:79` and :310 document that the application's
  environment overrides all others; the URL overrides it. :66-68 document verifyDBName in the
  URL, which is not heard under this name.
* `utils/SortedProperties.go:177-183`: the first of full name and alias in the order of
  sorting counts. Aliases that sort after "tgdb" (userID, tls..., verifyDBName) are never
  heard, those before it (password, ftHosts, sendSize) beat the full name, and the
  password argument.
* CP:88-102: a pool takes sizes and timeouts from the defaults, not from its properties.

## 7. Plan

Written so far, in this order: Channel with RequestService and its proofs;
ConnectionPool with RWMutex and Leases and its proofs; ConnectionCount and its
proofs; Transaction; Streams, OutputStream, Layouts, Externals, Messages and
Exchange; Attributes; EntityStream; Metadata; Settings and Queries; then the proofs
about Transaction, EntityStream, Queries, Attributes, OutputStream, the exchanges of
Channel and Settings.
Next:

1. Proofs: `NeverTorn` and `FactoryFindsClass` of Exchange for any classes and
   payloads, once the interpreters of Layouts are recursive functions; DocumentedUrls,
   with UrlsReadAsSaid, by induction over the signs of a URL; the types of the smaller
   modules. They go into the modules of proofs that exist.
2. Composition: Transaction over ConnectionPool (connections lent with their lists);
   Exchange as the wire of Channel, in place of its events.
3. The registries of types, with UpdateMetadata of node and edge types.
