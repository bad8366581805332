------------------------- MODULE EvdConnectionPool -------------------------
(***************************************************************************)
(* EvdConnectionPool (evd-connection-pool.c) on top of EvdIoStreamGroup    *)
(* and EvdIoStream: a pool keeps min_conns sockets connected or            *)
(* connecting, answers requests for a connection in order, and takes       *)
(* connections back up to max_conns.                                       *)
(*                                                                         *)
(* Handlers call each other deeply here, so the state is one record and    *)
(* each function of the code is an operator from state to state.  An       *)
(* action is what the main loop, the network or the application starts.    *)
(***************************************************************************)
EXTENDS Integers, Sequences

CONSTANTS
  Conn,           \* connections; one that is gone may come again as a new one
  Request,        \* pending calls of evd_connection_pool_get_connection
  None,           \* no connection
  MinConns,       \* DEFAULT_MIN_CONNS
  MaxConns,       \* DEFAULT_MAX_CONNS
  MaxTimers,      \* bound on pending retry sources; 0: connecting never fails
  Modes,          \* the kinds of application and target that are considered
  OwnerReleases   \* whether the application drops its reference to the pool: a set

ASSUME PoolAssumption ==
  /\ None \notin Conn
  /\ MinConns \in Nat \ {0} /\ MaxConns \in Nat /\ MinConns <= MaxConns
  /\ MaxTimers \in Nat
  /\ Modes \subseteq {"plain", "tls", "tls_fails"}
  /\ OwnerReleases \subseteq BOOLEAN

VARIABLE pool

\* The application sets tls-autostart.
UseTls == pool.mode # "plain"

\* Handshakes fail, or the peer closes during one.
TlsMayFail == pool.mode = "tls_fails"

Upgrade == {"no", "handshake", "ok", "error"}

\* at: who has the connection; group: its group is the pool; watched:
\* connection_on_close is connected; upgrade: of evd_connection_starttls.
ConnState == [at : {"none", "pool", "given", "user"}, open : BOOLEAN,
              group : BOOLEAN, watched : BOOLEAN, tls : BOOLEAN,
              upgrade : Upgrade]

NoConn == [at |-> "none", open |-> FALSE, group |-> FALSE,
           watched |-> FALSE, tls |-> FALSE, upgrade |-> "no"]

\* "answered": the result waits in its idle source.
ResState == [st : {"none", "waiting", "answered"}, conn : Conn \cup {None}]

NoResult == [st |-> "none", conn |-> None]

TOTAL_SOCKETS(p) == p.connecting + Len(p.conns)

\* q without the first occurrence of c: g_queue_remove.
Without(q, c) ==
  IF \E i \in DOMAIN q : q[i] = c
  THEN LET i == CHOOSE i \in DOMAIN q : q[i] = c /\ \A j \in 1..(i-1) : q[j] # c
       IN  [j \in 1..(Len(q) - 1) |-> IF j < i THEN q[j] ELSE q[j + 1]]
  ELSE q

-----------------------------------------------------------------------------
\* The retry source, if any, loses its name here and stays in the main loop.
evd_connection_pool_create_min_conns(p) ==
  [p EXCEPT !.retry = FALSE,
            !.connecting = IF TOTAL_SOCKETS(p) < MinConns
                           THEN MinConns - Len(p.conns) ELSE @]

\* Through evd_io_stream_group_remove, which does nothing while the pool's own
\* add or remove is on the stack, and evd_io_stream_set_group, which fails
\* when the stream is not in a group.
group_remove_stream(p, c, recursed) ==
  IF recursed \/ ~p.conn[c].group
  THEN p
  ELSE [p EXCEPT !.conn[c].group = FALSE, !.conn[c].watched = FALSE,
                 !.conns = Without(@, c)]

evd_connection_pool_finish_request(p, c, r, recursed) ==
  group_remove_stream(
    [p EXCEPT !.res[r] = [st |-> "answered", conn |-> c],
              !.conn[c].at = "given"], c, recursed)

TakeRequest(p) == [p EXCEPT !.requests = Tail(@)]

\* Deviation: a connection becomes idle whoever waits.
Shelved(p, c, recursed) ==
  [p EXCEPT !.conn[c].watched = TRUE, !.conns = Append(@, c)]

connection_available(p, c, recursed) ==
  IF p.requests # <<>>
  THEN evd_connection_pool_create_min_conns(
         evd_connection_pool_finish_request(
           TakeRequest(p), c, Head(p.requests), recursed))
  ELSE [p EXCEPT !.conn[c].watched = TRUE, !.conns = Append(@, c)]

\* evd_connection_starttls refuses a connection that has TLS already.
connection_starttls(p, c) ==
  [p EXCEPT !.conn[c].tls = TRUE,
            !.conn[c].upgrade = IF p.conn[c].tls THEN "error" ELSE "handshake"]

\* Through evd_io_stream_group_add: recursed from here on.  It fails when the
\* stream is in the pool's group already.
group_add_stream(p, c) ==
  LET q == [p EXCEPT !.conn[c].group = TRUE, !.conn[c].at = "pool"]
  IN  IF p.conn[c].group THEN p
      ELSE IF p.tls_autostart /\ ~p.conn[c].tls
      THEN connection_starttls(q, c)
      ELSE connection_available(q, c, TRUE)

\* Pending connects, upgrades, requests and results hold the pool.
Referenced(p) ==
  \/ p.owned
  \/ p.connecting > 0
  \/ p.requests # <<>>
  \/ \E r \in Request : p.res[r].st = "answered"
  \/ \E c \in Conn : p.conn[c].upgrade # "no"

\* Deviation: a source is removed whether there is one or not.
RemovedUnchecked(p) == [p EXCEPT !.retry = FALSE, !.timers = @ - 1]

\* g_source_remove of retry_src_id, if it is set.
RetryRemoved(p) ==
  [p EXCEPT !.retry = FALSE, !.timers = IF p.retry THEN @ - 1 ELSE @]

\* Idle connections are freed and their handlers disconnected; others only
\* learn that their group is gone (on_group_destroyed).
dispose(p) ==
  [RetryRemoved(p) EXCEPT
            !.freed = TRUE, !.conns = <<>>,
            !.conn = [c \in Conn |->
                        IF \E i \in DOMAIN p.conns : p.conns[i] = c THEN NoConn
                        ELSE [@[c] EXCEPT !.group = FALSE]]]

g_object_unref(p) == IF Referenced(p) THEN p ELSE dispose(p)

connection_on_close(p, c) ==
  evd_connection_pool_create_min_conns(group_remove_stream(p, c, FALSE))

\* The end of a connection nobody has any more.
Forgotten(p, c) ==
  IF p.conn[c].at = "pool" /\ p.conn[c].upgrade = "no" /\ ~p.conn[c].watched
  THEN [p EXCEPT !.conn[c] = NoConn] ELSE p

\* evd_connection_close_internal: an upgrade under way fails at once (in
\* connection_on_tls_started, which drops its reference to the pool), then
\* "close" is emitted and the stream leaves its group.
connection_close(p, c) ==
  LET aborted == p.conn[c].upgrade = "handshake"
      p1 == IF aborted THEN g_object_unref([p EXCEPT !.conn[c].upgrade = "no"])
            ELSE p
      p2 == [p1 EXCEPT !.conn[c].open = FALSE, !.conn[c].tls = FALSE]
      p3 == IF p2.conn[c].watched /\ ~p2.freed THEN connection_on_close(p2, c)
            ELSE p2
  IN  Forgotten([p3 EXCEPT !.conn[c].group = FALSE], c)

-----------------------------------------------------------------------------
\* evd_connection_pool_new: constructed creates the first sockets.
Init ==
  \E mode \in Modes, leaves \in OwnerReleases :
    pool = evd_connection_pool_create_min_conns(
           [mode |-> mode, leaves |-> leaves, conns |-> <<>>, requests |-> <<>>, connecting |-> 0,
            retry |-> FALSE, timers |-> 0, tls_autostart |-> FALSE,
            owned |-> TRUE, freed |-> FALSE,
            conn |-> [c \in Conn |-> NoConn],
            res |-> [r \in Request |-> NoResult]])

evd_connection_pool_get_connection(r) ==
  /\ pool.owned /\ pool.res[r].st = "none"
  /\ pool' = evd_connection_pool_create_min_conns(
       IF pool.conns # <<>>
       THEN evd_connection_pool_finish_request(
              [pool EXCEPT !.conns = Tail(@)], Head(pool.conns), r, FALSE)
       ELSE [pool EXCEPT !.requests = Append(@, r),
                         !.res[r].st = "waiting"])

\* The idle source of a result runs the caller's callback.
get_connection_ready(r) ==
  /\ pool.res[r].st = "answered"
  /\ pool' = g_object_unref([pool EXCEPT !.res[r] = NoResult,
                                         !.conn[pool.res[r].conn].at = "user"])

\* evd_connection_pool_socket_on_connect with a stream.
socket_on_connect(c) ==
  /\ pool.connecting > 0 /\ pool.conn[c] = NoConn
  /\ pool' = g_object_unref(
       group_add_stream(
         [RetryRemoved(pool) EXCEPT !.connecting = @ - 1,
                                    !.conn[c].open = TRUE], c))

\* The retry source has no reference to the pool.
Retry(p) == [p EXCEPT !.retry = TRUE, !.timers = @ + 1]

\* evd_connection_pool_socket_on_connect with an error.
socket_on_connect_error ==
  /\ pool.connecting > 0 /\ pool.timers < MaxTimers
  /\ pool' = g_object_unref(Retry([pool EXCEPT !.connecting = @ - 1]))

retry_timeout ==
  /\ ~pool.freed /\ pool.timers > 0
  /\ pool' = evd_connection_pool_create_min_conns([pool EXCEPT !.timers = @ - 1])

\* The application has set tls-autostart: idle connections are upgraded.
\* (g_queue_pop_head until the queue is empty; every one keeps its handler.)
evd_connection_pool_set_tls_autostart(autostart) ==
  /\ UseTls /\ pool.owned
  /\ pool' = IF ~autostart THEN [pool EXCEPT !.tls_autostart = FALSE]
             ELSE [pool EXCEPT
                     !.tls_autostart = TRUE, !.conns = <<>>,
                     !.conn = [c \in Conn |->
                       IF \E i \in DOMAIN pool.conns : pool.conns[i] = c
                       THEN connection_starttls(pool, c).conn[c] ELSE @[c]]]

\* evd_connection_tls_handshake ends: the result goes to an idle source, and
\* a connection that failed is closed before that runs.
tls_handshake(c, ok) ==
  /\ pool.conn[c].upgrade = "handshake"
  /\ pool' = IF ok THEN [pool EXCEPT !.conn[c].upgrade = "ok"]
             ELSE connection_close([pool EXCEPT !.conn[c].upgrade = "error"], c)

connection_on_tls_started(c) ==
  LET p == [pool EXCEPT !.conn[c].upgrade = "no"]
  IN  \/ /\ pool.conn[c].upgrade = "ok"
         /\ pool' = g_object_unref(connection_available(p, c, FALSE))
      \/ /\ pool.conn[c].upgrade = "error"
         /\ pool' = g_object_unref(IF p.conn[c].open THEN connection_close(p, c)
                                   ELSE Forgotten(p, c))

\* The peer closes, or the connection breaks.  A finished upgrade is reported
\* first: its idle source is older than the one that closes the connection.
connection_broken(c) ==
  /\ ~pool.freed /\ pool.conn[c].open
  /\ pool.conn[c].upgrade # "ok"
  /\ pool.conn[c].upgrade = "handshake" => TlsMayFail
  /\ pool' = connection_close(pool, c)

HasRoom(p) == TOTAL_SOCKETS(p) < MaxConns

\* The caller lets go of a connection that was taken.
evd_connection_pool_recycle(p, c) ==
  IF p.conn[c].open /\ HasRoom(p) THEN group_add_stream(p, c) ELSE p

recycle(c) ==
  /\ pool.owned /\ pool.conn[c].at = "user"
  /\ pool' = evd_connection_pool_recycle(pool, c)

\* The caller closes and drops its connection.
drop(c) ==
  /\ ~pool.freed /\ pool.conn[c].at = "user"
  /\ pool' = Forgotten([connection_close(pool, c) EXCEPT !.conn[c].at = "pool"], c)

release ==
  /\ pool.leaves /\ pool.owned
  /\ pool' = g_object_unref([pool EXCEPT !.owned = FALSE])

Next ==
  \/ \E r \in Request : \/ evd_connection_pool_get_connection(r)
                        \/ get_connection_ready(r)
  \/ \E c \in Conn : \/ socket_on_connect(c)
                     \/ tls_handshake(c, TRUE)
                     \/ TlsMayFail /\ tls_handshake(c, FALSE)
                     \/ connection_on_tls_started(c)
                     \/ connection_broken(c)
                     \/ recycle(c)
                     \/ drop(c)
  \/ socket_on_connect_error
  \/ retry_timeout
  \/ \E b \in BOOLEAN : evd_connection_pool_set_tls_autostart(b)
  \/ release

Spec == Init /\ [][Next]_pool

-----------------------------------------------------------------------------
InQueue(c) == \E i \in DOMAIN pool.conns : pool.conns[i] = c

PoolState ==
  [mode : Modes, leaves : BOOLEAN, conns : Seq(Conn), requests : Seq(Request), connecting : Nat,
   retry : BOOLEAN, timers : Nat, tls_autostart : BOOLEAN,
   owned : BOOLEAN, freed : BOOLEAN, conn : [Conn -> ConnState],
   res : [Request -> ResState]]

\* The fields have their types.
TypeOK == pool \in PoolState

\* get_connection and connection_available together: while a request waits no
\* connection is idle, whatever order connects, upgrades, recycling and
\* requests come in.
IdleOrWaiting == pool.requests = <<>> \/ pool.conns = <<>>

\* Every connection has one place: once in the queue of idle ones, with one
\* answered request, in an upgrade, or with one caller.  The queue of requests
\* holds exactly the ones that wait, once each.
OnePlace ==
  /\ \A i, j \in DOMAIN pool.conns : pool.conns[i] = pool.conns[j] => i = j
  /\ \A i, j \in DOMAIN pool.requests :
       pool.requests[i] = pool.requests[j] => i = j
  /\ \A r \in Request : pool.res[r].st = "waiting" <=>
       \E i \in DOMAIN pool.requests : pool.requests[i] = r
  /\ \A c \in Conn :
       /\ InQueue(c) => pool.conn[c].at = "pool" /\ pool.conn[c].upgrade = "no"
       /\ pool.conn[c].at = "given" <=>
            \E r \in Request : pool.res[r] = [st |-> "answered", conn |-> c]
       /\ \A r, q \in Request :
            /\ pool.res[r].st = "answered" /\ pool.res[q].st = "answered"
            /\ pool.res[r].conn = c /\ pool.res[q].conn = c
            => r = q

\* A connection in the queue is open, and the pool will hear of its end: a
\* request is never answered from the queue with a connection that is closed.
IdleReady ==
  \A c \in Conn : InQueue(c) =>
    pool.conn[c].open /\ pool.conn[c].watched /\ pool.conn[c].group

\* The sockets that are connecting or idle never exceed max_conns, whatever is
\* recycled while connects are pending.  (Without TLS: evd_connection_pool
\* does not count connections that are being upgraded.)
SocketsBounded == ~UseTls => TOTAL_SOCKETS(pool) <= MaxConns

\* While a request waits something is under way that leads to a connection: a
\* connect, an upgrade, or a retry source in the main loop.  (A handshake that
\* fails takes its connection away and leaves nothing.)
WaitingHasSource ==
  pool.requests # <<>> /\ ~TlsMayFail =>
    \/ pool.connecting > 0
    \/ pool.timers > 0
    \/ \E c \in Conn : pool.conn[c].upgrade # "no"

\* The queues, the connections and the sources of a pool agree after any order
\* of connects, failures, upgrades, requests, recycling and closes.
PoolKept == IdleOrWaiting /\ OnePlace /\ IdleReady /\ SocketsBounded /\ WaitingHasSource

\* No source and no signal handler refers to a pool that was freed
\* (evd_connection_pool_dispose, evd_connection_pool_finalize).
NoFreedPoolUsed ==
  pool.freed => pool.timers = 0 /\ \A c \in Conn : ~pool.conn[c].watched

\* Every request is answered, after any number of failed connects, if no
\* handshake fails.
RequestsAnswered ==
  \A r \in Request :
    pool.res[r].st = "waiting" ~> pool.res[r].st = "answered" \/ TlsMayFail
=============================================================================
