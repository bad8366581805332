# Verification of EventDance

EventDance is a C library, on GLib and GIO, for peer-to-peer communication
between processes and web pages. This directory holds TLA+ models of its
components, the TLC configurations that check them on small instances, and
proofs, checked by TLAPS, of the properties that matter most. `PROJECT.json`
indexes all of it: which definition models which lines, what each run asks, the
hazards of the code and where they bite, and the theorems.

All of the library runs on GLib main loops. Apart from the thread of `EvdPoll`
there is little parallelism; what makes the code hard is *reentrancy* (signals
and callbacks run application code in the middle of a function, and that code
calls back), *sources* left in the main loop that point to objects, and manual
reference counts. The default build compiles with `-DG_DISABLE_ASSERT
-DG_DISABLE_CHECKS` (`evd/Makefile.am:27`), so `g_assert` and
`g_return_if_fail` guard nothing, and the models give them no effect.

## 1. The system and its modules

| Part | Hard behaviour | Module | Proofs |
|---|---|---|---|
| `EvdPoll` | two threads; deletion against delivery; edge-triggered wake-ups | `EvdPoll` | `EvdPoll_proofs` |
| `EvdSocket`, `EvdResolver` | stale lookups, calls from the status handler | `EvdSocket` | `EvdSocket_proofs` |
| `EvdStreamThrottle` | arithmetic over the turn of a second | `EvdStreamThrottle` | `EvdSocket_proofs` |
| `EvdConnection`, its streams, `EvdTlsSession` | close in four ways, locks, timers, handshake with data buffered | `EvdConnection` | `EvdConnectionStreams_proofs`, `EvdConnection_proofs` |
| `EvdConnectionPool` | connects, upgrades, requests, breaks in any order | `EvdConnectionPool` | `EvdConnectionPool_proofs` |
| `EvdIoStream`, `EvdIoStreamGroup`, `EvdService`, `EvdWebService`, `EvdWebSelector` | a connection between owners that die, validation by several handlers | `EvdWebService` | `EvdWebService_proofs` |
| `EvdHttpConnection`, chunked decoder | input cut anywhere | `EvdHttpConnection` | |
| `EvdLongpollingServer`, backlog of `EvdPeer` | failing writes, clients that leave, sends from a handler | `EvdLongpollingServer` | `EvdTransports_proofs` |
| `EvdPeerManager`, life of `EvdPeer`, handshake of `EvdWebTransportServer` | three objects close a peer by calling each other; timeouts during validation | `EvdPeerManager` | `EvdTransports_proofs` |
| WebSocket protocol, client, server | frames in pieces, closing handshake of two ends, grace period | `EvdWebsocket`, which implements `EvdMessageChannel` | |
| `EvdJsonFilter` | texts cut into buffers anywhere | `EvdJsonFilter` | |
| `EvdPromise`, `EvdDeferred` | listeners that attach, complete, release | `EvdPromise` | `EvdPromise_proofs` |
| `EvdJsonrpc` and its HTTP client and server, `EvdIpcMechanism` | responses out of order, transport errors | `EvdJsonrpc` | |
| D-Bus bridge and agent | shared connections, completions after a release | `EvdDBusBridge` | |

How they interact: a socket is watched by a poll session; a connection wraps a
socket in streams; a service accepts connections as a stream group and the
selector hands them on; the web transport gives them to the long-polling or the
WebSocket server, which carry the messages of peers; JSON-RPC and the D-Bus
bridge run over transports, or JSON-RPC over HTTP with connections of a pool.

A module meets its neighbours as what they promise: `EvdSocket` sees a poll
whose registered sessions report edges and whose removed ones are silent, which
is what `EvdPoll` is checked and proved to keep (`NoLostCondition`,
`NoFreedSessionUsed`); `EvdConnection` sees a socket that is connected;
`EvdConnectionPool`, `EvdLongpollingServer` and `EvdWebsocket` contain what the
group, stream and transport functions do inside their calls.

**Conventions.** Definitions keep the names of the functions they model. An
action is a whole handler: everything the code does before it returns to the
main loop (or, in `EvdPoll`, before it waits for a mutex or lets one go). Where
functions call each other deeply the state is one record and each function is an
operator from state to state, so that an action composes them in the order of
the code. A definition introduced by *Deviation* is a plausible wrong version of
the one below it; `PROJECT.json` pairs each property with one that breaks it.

**`EvdPoll`** (`evd-poll.c`). Any number of caller threads and the poll thread:
`epoll_mutex`, `interrupt_mutex`, the pipe and its edge, the array of fetched
events, the sessions with `ref_count`, `callback`, `src_id` and conditions, and
the idle sources. A section run with `epoll_mutex` held and without waiting is
one action; `evd_poll_del` is split where it waits for `interrupt_mutex`, the
poll thread where it waits in `epoll_wait`. The kernel may report a condition,
or close a descriptor, at any time. `g_source_remove` looks only in the default
main context, as GLib does. A poll that was never started has descriptors that
are zero, and closes descriptor 0 when it is finalized (`stdin`); the pipe of the
next poll then gets smaller numbers. `owed` is a history variable: the conditions the
kernel reported and the callback has not been given. Left out: priorities, the
destruction of `user_data`, the creation race of `evd_poll_get_default`.

**`EvdSocket`** (`evd-socket.c` and the lookups of `evd-resolver.c`). One socket,
the operations an application starts on it (listen, bind and connect, by address
or by name), lookups in flight, the poll session and a listener's backlog. In an
action, `r` is the first system call that fails and `closes` says whether the
application closes the socket from its "state-changed" handler. `sock.ops` keeps
the answers of each operation.

**`EvdStreamThrottle`** (`evd-stream-throttle.c`). The arithmetic on `GTimeVal`
as it stands, with a clock that moves between a grant and its report.

**`EvdConnection`** (`evd-connection.c`, the socket, throttled and buffered
streams, `evd-tls-session.c`). Data are numbered units, so order and loss can be
seen: the receive queue, the byte read ahead, the buffers, the send buffer with
its free room, and the edges of the poll. Close locks, delayed close, flush and
shutdown, read and write timers, the idle close, references; the handshake and
its wait for credentials.

**`EvdConnectionPool`** (`evd-connection-pool.c`, with what
`evd-io-stream-group.c`, `evd-io-stream.c` and `evd-connection.c` do in its
calls). Idle connections, waiting requests, retry sources, upgrades. The group's
recursion guard is modelled: a remove made inside an add is dropped and reported
as done.

**`EvdWebService`** (`evd-io-stream.c`, `evd-io-stream-group.c`,
`evd-service.c`, `evd-web-service.c`, `evd-web-selector.c`). Three services (a
selector, a web service and a service of another kind) and a plain group between
which connections move; the application may move one at any time, also in the
middle of a handshake, a read or a response (`torn`), since neither the group nor
the stream looks at what is under way. `v` carries what the application and the socket answer
while a function runs. In C the selector's request handler is called by the
functions of `EvdWebService` and calls them again for the service it chose. After
these calls the functions change nothing more, so the model lets them return
first, with the request to route in `route`, and runs the handler then
(`Routed`); between two actions `route` is always empty.

**`EvdHttpConnection`** (`evd-http-connection.c`, `evd-http-chunked-decoder.c`).
Two ends of a connection; the bytes of headers, chunk headers and contents are
kept by kind, every read may return a piece, and either end may break off in the
middle. **`EvdJsonFilter`** (`evd-json-filter.c`) is the whole automaton over
character classes, compared with a grammar of JSON texts; the bytes above 127,
of which UTF-8 is made, are a class of their own, which the code refuses
everywhere.

**`EvdLongpollingServer`** (`evd-longpolling-server.c`, `evd-peer.c`,
`send_frame` of `evd-transport.c`, the return of a connection in
`evd-web-service.c`). One peer, its client's connections, and the messages
numbered in the order sent. `Outcome` is what `actual_send` may do: headers fail,
frame k + 1 fails, all is written. The handler of a POST runs application code
before the request is answered, so it is two actions between which only the
application acts. The web transport has no `peer_closed`, so `evd_peer_close`
leaves held requests alone.

**`EvdPeerManager`** (`evd-peer-manager.c`, `evd-peer.c`,
`evd_transport_close_peer`, handshake, accept and reject of
`evd-web-transport-server.c`). References are counted as in the code and a peer
whose count reaches zero is freed; `misuse` records a use after that. The calls
that close a peer are mutually recursive in C; `PEER_CLOSING_KEY` and `closed`
stop the recursion after one level, and the operators spell out that level. The
application may have a reference to a peer it closes or only a pointer, which is
all that `evd_peer_manager_lookup_peer` gives it.

**`EvdWebsocket`** (`evd-websocket-protocol.c`, `evd-websocket-client.c`,
`evd-websocket-server.c`, the calls of `evd-transport.c` that reach them). Both
ends; frames are bytes with lengths, masks and fragments, and are cut into reads
anywhere; messages may be empty, the request of the handshake may be lost before
it is written, and an application may close a peer while it validates it.
**`EvdMessageChannel`** is the abstract promise of a transport:
messages arrive whole, in order and once, and none from a peer that was closed.

**`EvdPromise`** (`evd-promise.c`). One deferred and its promise. While a
listener is on the stack the application may do anything it may do from the main
loop, which includes to let go of the deferred before it has completed (`early`):
the idle source of `complete_in_idle` has no reference to it. Where that leads to
the use of a freed object the behaviour ends (`undefined`). Histories `added` and
`called` record attachments and calls.
**`EvdJsonrpc`** (`evd-jsonrpc.c`, `evd-jsonrpc-http-client.c`,
`evd-jsonrpc-http-server.c`, `evd-ipc-mechanism.c`): two sides over the peers of
a transport, or over HTTP, with the table of invocations and the filter; HTTP
connections may hang up in order or break, and contents may be cut short.
**`EvdDBusBridge`** (`evd-dbus-bridge.c`, `evd-dbus-agent.c`): the commands of
peers, the agent's cache of bus connections, proxies, names and registered
objects, and the completions that arrive after anything else has happened, the
end of the peer included. In both modules a use of freed memory ends the
behaviour (`undefined`), and a property says how it can come about. The bridge
itself is assumed to outlive its commands.

## 2. Runs

An `MC` module puts several components together that share no state; the
variable `part` says which of them a behaviour is about and the others stay as
they began. Each property is about one part and holds trivially in the others,
and `Parts` in the `.cfg` says which parts an instance has.

| Run | What is in it | What it shows |
|---|---|---|
| `poll` | `EvdPoll`: 2 threads, 2 sessions | no session is used after it is freed, `ref_count` equals the holders, no session is taken for the pipe, `evd_poll_del` never waits for a thread that nothing will wake, no reported condition is lost on its way to the callback |
| `sockets` | `EvdSocket`: 2 operations, backlog 2, handlers that close and that do not; `EvdStreamThrottle`: with and without limits, over 3 seconds; `EvdPoll`: 1 session, fair | every operation is answered once and remembered until then, a closed socket stays closed, a listener does not sleep on its backlog; bandwidth, latency within a second, waits long enough; every operation ends, every condition is delivered, `evd_poll_del` returns |
| `connections` | `EvdConnection`: 10 setups (plain, throttled, locked, TLS client and server) of up to 3 units each way; `EvdConnectionPool`: 2 connections, 2 requests, limit 1, three modes | data in order both ways, no lost wake-up, closing gives back all references and loses nothing that was flushed or read for; the pool's queues, owners, bounds and sources agree; hang-ups close, handshakes end, every request for a connection is answered |
| `transports` | `EvdLongpollingServer`: 3 connections, 3 messages, every set of faults; `EvdPeerManager`: 2 peers, 4 modes; `EvdWebsocket`: 10 setups | long-polling messages stay in order and none is lost that the code could keep; peers are referenced exactly and closed once; a WebSocket implements `EvdMessageChannel`, closes once and completely; what is sent arrives and closing ends |
| `web` | `EvdWebService`: 1 connection, 3 requests, 1 move; `EvdHttpConnection`: 5 exchanges read in pieces of 1, 2, 5 or all bytes; `EvdJsonFilter`: 4 alphabets, 6 characters | a connection has one reader, requests are answered once and only after validation; messages pass whole and exchanges end however the bytes are cut; the filter cuts a stream exactly into its texts |
| `calls` | `EvdPromise`: 3 listeners, 2 values; `EvdJsonrpc`: 8 setups; `EvdDBusBridge`: 8 setups, 2 objects | listeners called once and in order, exact references; calls answered once with their own result; the agent's tables agree with what is alive; everything is answered |

Three modules have an *environment* chosen in the initial state that never
changes, so that one run covers several and each property says under which it
holds. `EvdConnectionPool`: no TLS (`plain`), TLS whose handshakes succeed
(`tls`), and ones that fail or are cut short (`tls_fails`).
`EvdLongpollingServer`: the set of faults, of failing frame writes (`write`) and
clients that close connections (`leave`). `EvdPeerManager`: an application that
closes peers that were announced, once (`regular`) or again (`again`), and has a
reference to those it closes through `evd_peer_manager_close_peer`; one that may
have none (`borrow`); one that closes peers at any time and validates slowly
(`early`); and, in `peers_expire`, one that only validates slowly (`slow`).

Runs that find a disagreement between the code and what the repository says of
it; `PROJECT.json` quotes the line.

| Run | What TLC finds |
|---|---|
| `poll_contexts` | a session of a thread with its own main context is freed with its source attached |
| `promise_user_data` | a late listener can find another's `user_data` |
| `pool_retry` | a retry source outlives the pool |
| `longpolling_leave` | a client that closed its request stays in the list messages go to |
| `peers_expire` | a peer validated for longer than its timeout is freed while its announcement is pending |
| `websocket_peer` | a message crosses the client's close frame and finds no peer, against the assertion |

Some properties except a case in which the code does less; the exception is a
named field or conjunct, and without it TLC shows the case.

- `EvdPoll`: after a poll that was never started was finalized, the next one's
  pipe may get descriptor 3, the reference count of a session with a pending
  source: that session's event is taken for the pipe's and lost (`stdin`).
- `EvdSocket`: the operation of `evd_socket_connect_addr` is noted after the
  handlers of CONNECTING ran, so one that closes leaves it unanswered (`closes`
  with `connect_addr`); a listener whose `accept` fails stops with connections
  waiting (`gave_up`).
- `EvdConnection`: a flush that blocks is followed by the shutdown all the same; a
  TLS server started after its first input waits for ever (`deaf`).
- `EvdWebService`: a connection put into a web service by setting its "group"
  property is not read there, nor is one whose request the selector cannot put
  back into the stream for a service of another kind, because its headers are
  longer than the stream's buffer (`unserved`); headers that are too long leave
  the connection pending, and its close is refused (`stuck`). Of a connection
  moved while a service reads or answers it only the references hold: the end of
  a flush reads the connection's group anew and may return it to the wrong
  service, or not at all (`torn`).
- `EvdHttpConnection`: headers whose first read is one or two bytes miss their end
  (`late`); a content that is not chunked and breaks off is told without an error,
  as far as it came (`cut`).
- `EvdJsonFilter`: a byte above 127 makes any text malformed, against "It can
  accept UTF-8" (`evd-json-filter.c:311`).
- `EvdPeerManager`: `evd_peer_manager_close_peer` frees a peer to which nobody has a
  reference before it closes it (`CloseBorrowed`).
- `EvdWebsocket`: a peer that the server's application closes while it validates
  it, and then accepts, is closed again with its connection (`reopened`);
  `evd_transport_open` is not answered when the connection was refused, or lost
  before the request was written (`refused`, `unsent`); a process ends for want of a
  callback in the cases that `CallbackMissing` lists.
- `EvdPromise`: an owner that lets go of its deferred before the completion is over
  has it used after it is freed (`early`).
- `EvdJsonrpc`: a call over HTTP is not answered when its connection hung up in
  order while its close was locked (`Hung`), and after a content was cut short its
  piece stays in the filter that all requests share (`cut`, `pieced`); a response
  may go to a peer that was freed, once one was closed (`undefined`, `closed`).
- `EvdDBusBridge`: a proxy that was being made when its connection was closed stays
  (`late`); freed memory is used when a peer goes away with a command under way, or
  names a connection it was not told of yet (`gone`, `guessed`); of two calls to an
  object that are pending only the later can be returned (`overtaken`).

A few statements of the code are defined, refuted by TLC and have no run:
`LatencyKept` (over the turn of a second, `evd-stream-throttle.c:217` against line
93), `ForbiddenCloses` (`evd-web-selector.c:197`), `PacketIsJson`
(`evd-jsonrpc.c:401`), `CallOnProxy` (`evd-dbus-bridge.c:1470`),
`InvocationReturned` (`evd-dbus-agent.c:609`). What the properties do not reach: how
the answers of several validation handlers are joined (they enter as one value),
and that a lookup of `EvdSocket` is used for the operation it was started for.

**Bounds.** Two threads are enough for every pair of critical sections, two
sessions for one being deleted while the other is fetched; they are a symmetry
set, and `OneAsks` limits the conditions (not the hang-ups) to one session at a
time. Two operations allow one to be answered while a lookup of the other is in
flight. The setups of a connection have one unit of room, so that writes
block, and more units than a throttled second lets through. The pool has more
connections and requests than `MaxConns`, so both queues fill. Three client
connections allow one held, one posting and one broken; three messages allow a
backlog that fails in the middle. One move is enough to tear a connection from
any state and see every service take it on; the proof is for any number. Peers
interact only through one cleanup. The
WebSocket's three length formats are kept with small limits (`MAX_LEN7` 1,
`MAXUINT16` 3, `MAX_FRAGMENT_SIZE` 4), so that all of them and fragments occur.
Three listeners allow one running, one attached before and one after completion.
The bounds that cap what the code leaves unbounded are `MaxOps`, `MaxBacklog`,
`MaxRef`, `MaxTimers`, `MaxMsg`, `MaxSources`, `MaxUse`, `MaxBytes` and
`LastSecond`.

**Deadlock** is not checked: every one of these systems may really stop (a
promise that was released, a pool that was freed, a closed connection, a client
whose requests are all held for a closed peer). That nothing stops too early is
what the liveness properties say.

**Fairness.** Weak fairness of the poll thread and of every source and callback
that is due, and strong fairness of the idle sources of `EvdPoll`, which stay
attached while their loop is busy elsewhere: the kernel schedules threads and
GLib dispatches sources of one priority in turn. Beyond the library: lookups,
connection attempts and handshakes end; a host that is tried again and again
accepts at some time; the kernel sends; applications let go of connections they
were given, release locks they took and answer calls and validations; the bus
answers; the long-polling client asks again when it has a connection with no
request, as the JavaScript client does. The library's own JSON-RPC client does not always meet the assumption
on locks: it locks the close of a connection while it waits for a response and,
when the other end hangs up in order, releases it only in a callback that never
comes (`evd-jsonrpc-http-client.c:357`, 421). `ConnectionsProgress` says nothing of
that connection; `EvdJsonrpc` models the client as it is. Where the action is
large, weak fairness is written `[]<>~guard \/ []<><<A>>_v`, with the guard that enables `A`.

## 3. Proofs

TLAPS proves the following for every value of the constants: any threads,
sessions, setups, connections, requests, messages, peers, listeners and bounds,
where the runs have two or three.

| Module | Theorems on properties that a run checks |
|---|---|
| `EvdPoll_proofs` | `TypeOK`, `NoFreedSessionUsed`, `RefAccounting`, `SessionNotTakenForPipe`, `DelWakesPoller`, `NoLostCondition` |
| `EvdSocket_proofs` | `OperationsKept`, `NoResurrection` (an action property); `LimitsKept` of `EvdStreamThrottle` |
| `EvdConnection_proofs`, on `EvdConnectionStreams_proofs` | `DataKept`, `NoLostWakeup`, `CloseIsClean` |
| `EvdConnectionPool_proofs` | `PoolKept` |
| `EvdWebService_proofs` | `OwnersKept`, `RequestsKept`, `AdmissionKept` |
| `EvdTransports_proofs` | `MessagesKept`, `LogOnlyGrows` (an action property) of `EvdLongpollingServer`; `PeersKept` of `EvdPeerManager` |
| `EvdPromise_proofs` | `CallsInOrder`, `ReferencesKept` |

Every module also has its type invariant as a theorem or as part of `IInv`. The
assumptions are those on the constants, named in the module that declares them
(`PollAssumption`, `SocketAssumption`, `ThrottleAssumption`, `PoolAssumption`,
`WebAssumption` and so on), and two hypotheses of theorems. `HomeDefaultOnly`,
that all callers of `EvdPoll` are of the default main context: `poll_contexts`
shows that it is needed. `"slow" \notin Modes`, that a peer's validation does not
outlast its timeout, for `PeersSafe`: `peers_expire` shows that it is needed; what
`PeersLife` says of references and signals holds without it. The exceptions
listed in section 2 are part of the properties, and so of the theorems. The
fairness conjuncts of a specification play no part in these theorems.

The inductive invariants:

- **`EvdPoll`**: who holds which mutex by where the threads are (`LockInv`), the
  reference behind every pointer to a session (`SessionInv`: the fetched events,
  the source and the callback each imply a live session), that only the main
  thread deletes and dispatches (`ThreadInv`), that a byte in the pipe has been
  or will be reported (`PipeInv`), and what is there before the thread starts
  (`StartInv`). Without `PipeInv` a wake-up could be lost: the pipe is
  edge-triggered and only a write to an empty pipe is sure to be seen.
- **Delivery** adds `DInv`: a condition that is owed is in epoll, in the fetched
  events, collected in `cond_out`, or the argument of a callback; collected
  conditions have a source, and a noted source is attached or being dispatched.
- **`EvdSocket`**: `Base(s, e)`, where `e` is an operation started and not yet
  remembered (0 for none), because the calls with an address note the operation
  last; then where the remembered operation stands (`Waiting`), what a closed or
  listening socket has not (`Quiet`), what lookups are for (`Looking`). Each
  function of `evd-socket.c` has a lemma with `Base` before and after, with any
  handler that closes; actions compose them. The delicate case is closing while
  accepting: the edge is used up although connections wait, and the invariant is
  restored only because the close empties the backlog.
- **`EvdStreamThrottle`**: the clock, the second the bytes were counted in and
  the time of the retry (`CountInv`). `ElapsedNeverShort` says that the time
  computed between two transfers, wrong as it is over the turn of a second, is
  never less than the real one.
- **`EvdConnection`**: the functions of the connection and of its streams call
  each other while the state is in between, so there is a lemma for each
  function rather than for each action: what it makes of a connection that
  satisfies `Sound(c, n)`. Here `n` counts the references that the callback on
  the stack has still to drop. `Sound` says that the references match their
  owners (`Refs`), that a closed connection has no socket, source, read or flush
  (`QuietInv`), that output is held back only during a handshake (`StackInv`),
  what was flushed before the socket was shut (`EndInv`), and that an
  application that always reads has a read pending until it got everything
  (`TailInv`). `Data` is the order of the units; a read has some of them in its
  hands for a while. `ReadInv` and `WriteInv`, the wake-ups, may be broken while
  a condition or a timer is handled, and each lemma says whether its function
  keeps or restores them: the functions that manage a condition restore them,
  because a read or a write that stops early has re-armed the condition it used
  up, or has started the throttle's timer. The timers of the two throttles and
  the flush that runs inside a close are the delicate cases.
  `EvdConnectionStreams_proofs` has the streams and the close,
  `EvdConnection_proofs` TLS, conditions, timers and the peer, and the theorems.
- **`EvdWebService`**: an invariant of each connection, `ConnInv(x, D)`, where `D`
  are the groups that have died. Its core is that at most one thing is under way
  with a connection (`Lone`): a decision, a handshake, a read, a handler or a
  flush; that the service it is under way for is the one whose group the
  connection is in (`Reading`, `Serving`), so that whoever goes on with it is
  the one that let it in; and how many answers are owed at each of these stages
  (`Books`). An action ends what is under way, which leaves the connection
  `Quiet`, and the function it calls begins the next thing: the lemma on each
  function takes a quiet connection that has come to a service (`At`,
  `Arriving`, `Answered`) and gives one that satisfies `ConnInv` again or waits
  for the selector (`Done`). `Used` says that a connection that is lent is with
  its borrower and in use; without it a connection could be returned to the
  selector while the selector has it, and be read twice. The groups' weak
  references (`Refs`) tell a dying group exactly whom to notify, and a service
  dies only when it neither reads nor shakes hands. A connection that was torn
  from a service at work satisfies `Torn` instead: two things may be under way
  with it, for two services, so of `Lone`, `Reading` and `Books` nothing is left;
  what is left are the references to groups and lenders and that nothing is under
  way for a service that is gone (`Manned`). The invariant is that every
  connection satisfies one or the other, and each function has a lemma for both.
- **`EvdPeerManager`**: an invariant `PeersInv` of each peer's *view*, `Core(s, p, n)`: its
  references are the table's, the pending handshake's, the application's and the
  `n` of the handler that runs (`Owned`); what is planned for it (`Announced`);
  how often it was signalled, by whether it is closed and in the table
  (`Signalled`); and, for an application that waits for the announcement and
  validates in time, that a peer about to be announced is in the table and not
  idle, so that its source finds it alive (`Promised`). A function changes the
  view of one peer, except the clean-up, which does to every peer at once what
  closing does to one: it is defined peer by peer, since the closes do not touch
  each other's views.
- **`EvdConnectionPool`**: `Core(p)`, kept by every function of the pool: no
  element twice in a queue, never both queues filled (`QueuesInv`), what idle
  connections are (`QueuedInv`), one answered request for each connection given
  (`GivenInv`), upgrades (`UpgradeInv`), the bound (`PlainInv`) and freeing
  (`FreedInv`); with `RetryInv` and `SourceInv`, that waiting requests have
  something that leads to a connection, which hold between actions only.
- **`EvdLongpollingServer`**: the argument is about the log, the frames written
  followed by the backlog. Whatever an action writes, puts back or pushes, the
  log stays as it is or has one more message. `NotBothWaiting` needs that the
  connection a handler looks at is not one a message can be sent to
  (`ReceivingPosts`).
- **`EvdPromise`**: `OrderInv`, that what was attached is what was called, then
  the list, then the late sources; and `OwnerInv`, that while a completion is due
  or under way the deferred is alive unless it was let go of early.

In each proof one step of `NextInv` treats one action (or one lemma treats the
functions it calls), and the theorems follow by temporal reasoning.

**Only model-checked.** Liveness (`OpsAnswered`, `DeliveryEnds`,
`ConnectionsProgress`, `TransportsProgress`, `ExchangesEnd`, `AllAnswered`) needs
fairness and ENABLED, which the prover does not handle. `EvdHttpConnection`,
`EvdJsonFilter` and `EvdWebsocket` use recursive operators (and the last one
bitwise exclusive-or), with which the prover loses its SMT backend:
`MessagesWhole`, `FilterExact`, `ClosingKept` and the refinement
`IsMessageChannel`. `FilterExact` also compares
an automaton with a grammar over all texts, which is induction over data.
`CallsServed` and `BridgeKept` have no proof yet. The `TypesOK` of the other `MC`
modules join the type invariants of their parts, some of which are among the
modules above.

## 4. Not modelled

TLS credentials, certificates and keys (GnuTLS; that they become ready at any
time is an input of `EvdConnection`), HTTP message objects (data without
control), `EvdDBusDaemon`, `EvdDaemon` and the utilities (calls of the operating
system), and the JavaScript client, which appears as what the other end may send.
`EvdReproxy` and `EvdWebDir` are built on the pool, the connections and the web
service that are modelled, and are left out: their own state is a queue of
waiting clients and one file being written. `PROJECT.json` says for each modelled
part which operations are left out.
