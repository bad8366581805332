----------------------- MODULE EvdConnectionPool_proofs -----------------------
(***************************************************************************)
(* Proofs about EvdConnectionPool, for any connections, requests and       *)
(* limits, with and without TLS.                                           *)
(*                                                                         *)
(* The functions of the pool call each other, so there is a lemma for each *)
(* of them: what it makes of a state that satisfies Core.  The actions are *)
(* then compositions of these.                                             *)
(***************************************************************************)
EXTENDS EvdConnectionPool, TLAPS

\* c is in the queue of idle connections of p.
Queued(p, c) == \E i \in DOMAIN p.conns : p.conns[i] = c

\* No connection and no request is queued twice, and never both kinds.
QueuesInv(p) ==
  /\ p.requests = <<>> \/ p.conns = <<>>
  /\ \A i, j \in DOMAIN p.conns : p.conns[i] = p.conns[j] => i = j
  /\ \A i, j \in DOMAIN p.requests : p.requests[i] = p.requests[j] => i = j
  /\ \A r \in Request :
       p.res[r].st = "waiting" <=> \E i \in DOMAIN p.requests : p.requests[i] = r

\* What is known of an idle connection.
QueuedInv(p) ==
  \A c \in Conn : Queued(p, c) =>
    /\ p.conn[c].at = "pool" /\ p.conn[c].upgrade = "no"
    /\ p.conn[c].open /\ p.conn[c].watched /\ p.conn[c].group

\* Answered requests and the connections given to them.
GivenInv(p) ==
  /\ \A c \in Conn : p.conn[c].at = "given" =>
       \E r \in Request : p.res[r] = [st |-> "answered", conn |-> c]
  /\ \A r \in Request : p.res[r].st = "answered" =>
       p.res[r].conn \in Conn /\ p.conn[p.res[r].conn].at = "given"
  /\ \A r, q \in Request :
       p.res[r].st = "answered" /\ p.res[q].st = "answered" /\ p.res[r].conn = p.res[q].conn
       => r = q

\* A connection that is being upgraded is the pool's, and open and in its group
\* unless the upgrade failed.
UpgradeInv(p) ==
  \A c \in Conn :
    /\ p.conn[c].upgrade # "no" => p.conn[c].at = "pool"
    /\ p.conn[c].upgrade \in {"handshake", "ok"} => p.conn[c].open /\ p.conn[c].group

\* Without TLS nothing is upgraded, and every socket is counted.
PlainInv(p) ==
  p.mode = "plain" =>
    /\ ~p.tls_autostart /\ \A c \in Conn : p.conn[c].upgrade = "no"
    /\ TOTAL_SOCKETS(p) <= MaxConns

RetryInv(p) == p.retry => p.timers > 0

\* A pool is freed when nothing refers to it, and has nothing left.
FreedInv(p) == p.freed => ~Referenced(p) /\ p.conns = <<>>

\* What leads to a connection: a connect, a retry source, an upgrade that may
\* succeed, or a connection whose end makes the pool connect again.
SourceInv(p) ==
  p.requests # <<>> /\ p.mode # "tls_fails" =>
    \/ p.connecting > 0
    \/ p.timers > 0
    \/ \E c \in Conn : \/ p.conn[c].upgrade \in {"handshake", "ok"}
                       \/ p.conn[c].upgrade = "error" /\ p.conn[c].open /\ p.conn[c].watched

\* What the functions of the pool rely on and keep.
Core(p) ==
  /\ p \in PoolState /\ QueuesInv(p) /\ QueuedInv(p) /\ GivenInv(p)
  /\ UpgradeInv(p) /\ PlainInv(p) /\ FreedInv(p)

IInv == Core(pool) /\ RetryInv(pool) /\ SourceInv(pool)

-----------------------------------------------------------------------------
\* g_queue_remove of an element that is there at most once.
LEMMA WithoutOnce ==
  ASSUME NEW q \in Seq(Conn), NEW c \in Conn,
         \A i, j \in DOMAIN q : q[i] = q[j] => i = j
  PROVE  /\ Without(q, c) \in Seq(Conn) /\ Len(Without(q, c)) <= Len(q)
         /\ \A i, j \in DOMAIN Without(q, c) : Without(q, c)[i] = Without(q, c)[j] => i = j
         /\ \A i \in DOMAIN Without(q, c) :
              Without(q, c)[i] # c /\ \E j \in DOMAIN q : q[j] = Without(q, c)[i]
<1>1. CASE ~\E i \in DOMAIN q : q[i] = c
  BY <1>1 DEF Without
<1>2. CASE \E i \in DOMAIN q : q[i] = c
  <2> DEFINE First(i) == i \in DOMAIN q /\ q[i] = c /\ \A j \in 1..(i-1) : q[j] # c
             k == CHOOSE i \in DOMAIN q : q[i] = c /\ \A j \in 1..(i-1) : q[j] # c
  <2>1. PICK i \in DOMAIN q : q[i] = c
    BY <1>2, Zenon
  <2>2. \A j \in 1..(i-1) : j \in DOMAIN q /\ j # i
    BY <2>1
  <2>3. \A j \in 1..(i-1) : q[j] # c
    BY <2>1, <2>2, Zenon
  <2>4. k \in DOMAIN q /\ q[k] = c
    BY <2>1, <2>3, Zenon
  <2>5. Without(q, c) = [j \in 1..(Len(q) - 1) |-> IF j < k THEN q[j] ELSE q[j + 1]]
    BY <1>2, Zenon DEF Without
  <2> HIDE DEF k
  <2> DEFINE w == [j \in 1..(Len(q) - 1) |-> IF j < k THEN q[j] ELSE q[j + 1]]
  <2>6. k \in 1..Len(q) /\ Len(q) \in Nat /\ DOMAIN q = 1..Len(q)
    BY <2>4
  <2>7. w \in Seq(Conn) /\ Len(w) = Len(q) - 1 /\ DOMAIN w = 1..(Len(q) - 1)
    BY <2>6
  <2>8. \A j \in DOMAIN w : \E l \in DOMAIN q : l # k /\ w[j] = q[l] /\ l = IF j < k THEN j ELSE j + 1
    BY <2>6, <2>7
  <2>9. \A j \in DOMAIN w : w[j] # c /\ \E l \in DOMAIN q : q[l] = w[j]
    BY <2>4, <2>8, Zenon
  <2>10. ASSUME NEW j \in DOMAIN w, NEW l \in DOMAIN w, w[j] = w[l] PROVE j = l
    <3>1. PICK x \in DOMAIN q : x # k /\ w[j] = q[x] /\ x = IF j < k THEN j ELSE j + 1
      BY <2>8, Zenon
    <3>2. PICK y \in DOMAIN q : y # k /\ w[l] = q[y] /\ y = IF l < k THEN l ELSE l + 1
      BY <2>8, Zenon
    <3>3. x = y
      BY <2>10, <3>1, <3>2, Zenon
    <3> QED BY <2>6, <2>7, <3>1, <3>2, <3>3, SMTT(40)
  <2> HIDE DEF w
  <2>11. Without(q, c) = w
    BY <2>5, Zenon DEF w
  <2> QED BY <2>6, <2>7, <2>9, <2>10, <2>11
<1> QED BY <1>1, <1>2, Zenon

-----------------------------------------------------------------------------
\* What evd_connection_pool_create_min_conns changes.
LEMMA MinFields ==
  ASSUME NEW p \in PoolState, NEW q, q = evd_connection_pool_create_min_conns(p)
  PROVE  /\ q \in PoolState
         /\ q.mode = p.mode /\ q.leaves = p.leaves /\ q.conns = p.conns /\ q.requests = p.requests
         /\ q.retry = FALSE /\ q.timers = p.timers /\ q.tls_autostart = p.tls_autostart
         /\ q.owned = p.owned /\ q.freed = p.freed /\ q.conn = p.conn /\ q.res = p.res
         /\ q.connecting >= p.connecting
         /\ q.connecting + Len(q.conns) >= MinConns
         /\ q.connecting = p.connecting \/ q.connecting + Len(q.conns) = MinConns
<1>1. Len(p.conns) \in Nat /\ p.connecting \in Nat
  BY DEF PoolState
<1> DEFINE n == IF TOTAL_SOCKETS(p) < MinConns THEN MinConns - Len(p.conns) ELSE p.connecting
<1>2. n \in Nat /\ n >= p.connecting /\ n + Len(p.conns) >= MinConns
      /\ (n = p.connecting \/ n + Len(p.conns) = MinConns)
  BY <1>1, PoolAssumption DEF TOTAL_SOCKETS
<1>3. q = [p EXCEPT !.retry = FALSE, !.connecting = n]
  BY Zenon DEF evd_connection_pool_create_min_conns
<1> HIDE DEF n
<1> QED BY <1>2, <1>3, Zenon DEF PoolState

\* It keeps Core, and a request that waits then has a connect to wait for: no
\* connection is idle, and there is to be at least one.
LEMMA MinKeeps ==
  ASSUME NEW p, Core(p), ~p.freed, NEW q, q = evd_connection_pool_create_min_conns(p)
  PROVE  Core(q) /\ ~q.freed /\ RetryInv(q) /\ SourceInv(q)
<1>1. p \in PoolState
  BY Zenon DEF Core
<1>2. /\ q \in PoolState
      /\ q.mode = p.mode /\ q.conns = p.conns /\ q.requests = p.requests
      /\ q.retry = FALSE /\ q.tls_autostart = p.tls_autostart
      /\ q.freed = p.freed /\ q.conn = p.conn /\ q.res = p.res
  BY <1>1, MinFields, ZenonT(40)
<1>3. /\ q.connecting + Len(q.conns) >= MinConns
      /\ q.connecting = p.connecting \/ q.connecting + Len(q.conns) = MinConns
  BY <1>1, MinFields, Zenon
<1>4. QueuesInv(q) /\ QueuedInv(q) /\ GivenInv(q) /\ UpgradeInv(q)
  BY <1>2 DEF Core, QueuesInv, QueuedInv, Queued, GivenInv, UpgradeInv
<1>5. PlainInv(q)
  BY <1>2, <1>3, PoolAssumption, Zenon DEF Core, PlainInv, TOTAL_SOCKETS
<1>6. FreedInv(q) /\ ~q.freed /\ RetryInv(q)
  BY <1>2, Zenon DEF FreedInv, RetryInv
<1>7. SourceInv(q)
  <2>1. CASE q.requests # <<>>
    <3>1. q.conns = <<>> /\ Len(q.conns) = 0
      BY <1>4, <2>1, Zenon DEF QueuesInv
    <3>2. q.connecting \in Nat
      BY <1>2, Zenon DEF PoolState
    <3> QED BY <1>3, <3>1, <3>2, PoolAssumption DEF SourceInv
  <2>2. CASE q.requests = <<>>
    BY <2>2, Zenon DEF SourceInv
  <2> QED BY <2>1, <2>2, Zenon
<1> QED BY <1>2, <1>4, <1>5, <1>6, <1>7, Zenon DEF Core

\* What group_remove_stream changes.
Removed(p, c, recursed, q) ==
  /\ q.mode = p.mode /\ q.leaves = p.leaves /\ q.requests = p.requests
  /\ q.connecting = p.connecting /\ q.retry = p.retry /\ q.timers = p.timers
  /\ q.tls_autostart = p.tls_autostart /\ q.owned = p.owned /\ q.freed = p.freed
  /\ q.res = p.res
  /\ \/ q = p /\ (recursed \/ ~p.conn[c].group)
     \/ /\ ~recursed /\ p.conn[c].group
        /\ q.conns = Without(p.conns, c)
        /\ q.conn = [p.conn EXCEPT ![c] = [@ EXCEPT !.group = FALSE, !.watched = FALSE]]
        /\ q = [p EXCEPT !.conns = q.conns, !.conn = q.conn]

\* evd_io_stream_group_remove takes the connection out of the pool once.
LEMMA RemoveFields ==
  ASSUME NEW p \in PoolState, NEW c \in Conn, NEW recursed \in BOOLEAN,
         NEW q, q = group_remove_stream(p, c, recursed)
  PROVE  Removed(p, c, recursed, q)
<1> USE DEF Removed
<1>1. CASE recursed \/ ~p.conn[c].group
  BY <1>1, Zenon DEF group_remove_stream
<1>2. CASE ~recursed /\ p.conn[c].group
  <2>1. q = [p EXCEPT !.conn = [p.conn EXCEPT ![c] = [@ EXCEPT !.group = FALSE, !.watched = FALSE]],
                      !.conns = Without(p.conns, c)]
    BY <1>2, Zenon DEF group_remove_stream, PoolState, ConnState
  <2> QED BY <1>2, <2>1, Zenon DEF PoolState
<1> QED BY <1>1, <1>2, Zenon

\* A connection is handed to the request r, which is in neither state of the
\* queues any more.
LEMMA FinishKeeps ==
  ASSUME NEW p \in PoolState, NEW c \in Conn, NEW r \in Request, NEW recursed \in BOOLEAN,
         NEW q, q = evd_connection_pool_finish_request(p, c, r, recursed),
         p.requests = <<>> \/ p.conns = <<>>,
         \A i, j \in DOMAIN p.conns : p.conns[i] = p.conns[j] => i = j,
         \A i, j \in DOMAIN p.requests : p.requests[i] = p.requests[j] => i = j,
         \A x \in Request \ {r} :
           p.res[x].st = "waiting" <=> \E i \in DOMAIN p.requests : p.requests[i] = x,
         \A i \in DOMAIN p.requests : p.requests[i] # r,
         p.res[r].st # "answered",
         QueuedInv(p), GivenInv(p), UpgradeInv(p), PlainInv(p), ~p.freed,
         ~Queued(p, c), p.conn[c].at = "pool", p.conn[c].upgrade = "no"
  PROVE  Core(q) /\ ~q.freed
<1> DEFINE a == [st |-> "answered", conn |-> c]
           g == [p EXCEPT !.res[r] = a, !.conn[c].at = "given"]
<1>1. /\ g \in PoolState
      /\ g.mode = p.mode /\ g.conns = p.conns /\ g.requests = p.requests
      /\ g.connecting = p.connecting /\ g.tls_autostart = p.tls_autostart /\ g.freed = p.freed
      /\ g.res = [p.res EXCEPT ![r] = a]
      /\ g.conn = [p.conn EXCEPT ![c] = [@ EXCEPT !.at = "given"]]
  <2> DEFINE R == [p.res EXCEPT ![r] = a]
             K == [p.conn EXCEPT ![c] = [@ EXCEPT !.at = "given"]]
  <2>1. R \in [Request -> ResState]
    BY Zenon DEF PoolState, ResState
  <2>2. K \in [Conn -> ConnState]
    BY ONLY SMTT(40) DEF PoolState, ConnState
  <2>3. g = [p EXCEPT !.res = R, !.conn = K]
    BY Zenon DEF PoolState
  <2> HIDE DEF R, K, g
  <2>4. /\ g \in PoolState
        /\ g.mode = p.mode /\ g.conns = p.conns /\ g.requests = p.requests
        /\ g.connecting = p.connecting /\ g.tls_autostart = p.tls_autostart /\ g.freed = p.freed
        /\ g.res = R /\ g.conn = K
    BY <2>1, <2>2, <2>3, Zenon DEF PoolState
  <2> QED BY <2>4, Zenon DEF R, K
<1>2. q = group_remove_stream(g, c, recursed)
  BY Zenon DEF evd_connection_pool_finish_request
<1> HIDE DEF g
<1>3. /\ q.mode = p.mode /\ q.requests = p.requests /\ q.connecting = p.connecting
      /\ q.tls_autostart = p.tls_autostart /\ q.freed = p.freed /\ q.res = g.res
      /\ \/ q = g
         \/ /\ q.conns = Without(g.conns, c)
            /\ q.conn = [g.conn EXCEPT ![c] = [@ EXCEPT !.group = FALSE, !.watched = FALSE]]
            /\ q = [g EXCEPT !.conns = q.conns, !.conn = q.conn]
  <2>1. Removed(g, c, recursed, q)
    BY <1>1, <1>2, RemoveFields
  <2> QED BY <1>1, <2>1, Zenon DEF Removed
<1>4. p.conns \in Seq(Conn) /\ p.conn \in [Conn -> ConnState] /\ p.res \in [Request -> ResState]
  BY Zenon DEF PoolState
<1>5. /\ q.conns \in Seq(Conn) /\ Len(q.conns) <= Len(p.conns)
      /\ \A i, j \in DOMAIN q.conns : q.conns[i] = q.conns[j] => i = j
      /\ \A i \in DOMAIN q.conns : q.conns[i] # c /\ \E j \in DOMAIN p.conns : p.conns[j] = q.conns[i]
  <2>1. CASE q = g
    BY <1>1, <1>4, <2>1 DEF Queued
  <2>2. CASE q.conns = Without(g.conns, c)
    BY <1>1, <1>4, <2>2, WithoutOnce
  <2> QED BY <1>3, <2>1, <2>2, Zenon
<1>6. /\ q.conn \in [Conn -> ConnState]
      /\ \A x \in Conn \ {c} : q.conn[x] = p.conn[x]
      /\ q.conn[c].at = "given" /\ q.conn[c].upgrade = "no" /\ q.conn[c].open = p.conn[c].open
  <2> DEFINE Fine(m) == /\ m \in [Conn -> ConnState]
                        /\ \A x \in Conn \ {c} : m[x] = p.conn[x]
                        /\ m[c].at = "given" /\ m[c].upgrade = "no" /\ m[c].open = p.conn[c].open
  <2>1. Fine(g.conn)
    BY ONLY <1>1, <1>4, c \in Conn, p.conn[c].upgrade = "no" DEF ConnState
  <2>2. Fine([g.conn EXCEPT ![c] = [@ EXCEPT !.group = FALSE, !.watched = FALSE]])
    BY ONLY <2>1, c \in Conn, ZenonT(40) DEF ConnState
  <2> HIDE DEF Fine
  <2>3. Fine(q.conn)
    BY <1>3, <2>1, <2>2, Zenon
  <2> QED BY <2>3, Zenon DEF Fine
<1>7. q \in PoolState
  <2>1. CASE q = g
    BY <1>1, <2>1, Zenon
  <2>2. CASE q = [g EXCEPT !.conns = q.conns, !.conn = q.conn]
    BY <1>1, <1>5, <1>6, <2>2, ZenonT(40) DEF PoolState
  <2> QED BY <1>3, <2>1, <2>2, Zenon
<1>8. /\ q.res \in [Request -> ResState] /\ q.res[r] = a
      /\ \A x \in Request \ {r} : q.res[x] = p.res[x]
  BY <1>1, <1>3, <1>4 DEF ResState
<1>9. QueuesInv(q)
  <2>1. q.requests = <<>> \/ q.conns = <<>>
    <3>1. CASE p.requests = <<>>
      BY <1>3, <3>1, Zenon
    <3>2. CASE p.conns = <<>>
      BY <1>4, <1>5, <3>2
    <3> QED BY <3>1, <3>2, Zenon
  <2>2. \A x \in Request :
          q.res[x].st = "waiting" <=> \E i \in DOMAIN q.requests : q.requests[i] = x
    BY <1>3, <1>8, SMTT(40)
  <2> QED BY <1>3, <1>5, <2>1, <2>2 DEF QueuesInv
<1>10. QueuedInv(q)
  BY <1>5, <1>6, SMTT(40) DEF QueuedInv, Queued
<1>11. GivenInv(q)
  <2>1. ASSUME NEW x \in Conn, q.conn[x].at = "given"
        PROVE  \E y \in Request : q.res[y] = [st |-> "answered", conn |-> x]
    <3>1. CASE x = c
      BY <1>8, <3>1, Zenon
    <3>2. CASE x # c
      <4>1. PICK y \in Request : p.res[y] = [st |-> "answered", conn |-> x]
        BY <1>6, <2>1, <3>2 DEF GivenInv
      <4>2. y # r
        BY <4>1, SMTT(40)
      <4> QED BY <1>8, <4>1, <4>2, Zenon
    <3> QED BY <3>1, <3>2, Zenon
  <2>2. ASSUME NEW y \in Request \ {r}, q.res[y].st = "answered"
        PROVE  q.res[y].conn \in Conn \ {c} /\ q.conn[q.res[y].conn].at = "given"
    <3>1. p.res[y].conn \in Conn /\ p.conn[p.res[y].conn].at = "given" /\ q.res[y] = p.res[y]
      BY <1>8, <2>2, ZenonT(40) DEF GivenInv
    <3> QED BY <1>6, <3>1, SMTT(40)
  <2>3. ASSUME NEW x \in Request, NEW y \in Request, q.res[x].st = "answered",
               q.res[y].st = "answered", q.res[x].conn = q.res[y].conn
        PROVE  x = y
    <3>1. CASE x # r /\ y # r
      BY <1>8, <2>3, <3>1, SMTT(20) DEF GivenInv
    <3>2. CASE x = r \/ y = r
      BY <1>8, <2>2, <2>3, <3>2, SMTT(40)
    <3> QED BY <3>1, <3>2, Zenon
  <2> QED BY ONLY <1>6, <1>8, <2>1, <2>2, <2>3, SMTT(40) DEF GivenInv
<1>12. UpgradeInv(q)
  <2> SUFFICES ASSUME NEW x \in Conn
               PROVE  /\ q.conn[x].upgrade # "no" => q.conn[x].at = "pool"
                      /\ q.conn[x].upgrade \in {"handshake", "ok"} => q.conn[x].open /\ q.conn[x].group
    BY Zenon DEF UpgradeInv
  <2>1. CASE x = c
    BY <1>6, <2>1, Zenon
  <2>2. CASE x # c
    BY <1>6, <2>2, SMTT(40) DEF UpgradeInv
  <2> QED BY <2>1, <2>2, Zenon
<1>13. PlainInv(q)
  <2>1. q.connecting \in Nat /\ Len(q.conns) \in Nat /\ Len(p.conns) \in Nat
    BY <1>4, <1>7 DEF PoolState
  <2> QED BY <1>3, <1>5, <1>6, <2>1, PoolAssumption, SMTT(40) DEF PlainInv, TOTAL_SOCKETS
<1> QED BY <1>3, <1>7, <1>9, <1>10, <1>11, <1>12, <1>13, Zenon DEF Core, FreedInv

\* g_queue_push_tail.
LEMMA Appended ==
  ASSUME NEW S, NEW s \in Seq(S), NEW x \in S
  PROVE  /\ Append(s, x) \in Seq(S) /\ Len(Append(s, x)) = Len(s) + 1
         /\ \A i \in DOMAIN Append(s, x) :
              (i \in DOMAIN s /\ Append(s, x)[i] = s[i]) \/ (i = Len(s) + 1 /\ Append(s, x)[i] = x)
         /\ \A i \in DOMAIN s : i \in DOMAIN Append(s, x) /\ Append(s, x)[i] = s[i]
         /\ Len(s) + 1 \in DOMAIN Append(s, x) /\ Append(s, x)[Len(s) + 1] = x
         /\ Len(s) + 1 \notin DOMAIN s
  OBVIOUS

\* A connection the pool has goes to the first request, or becomes idle.
LEMMA AvailableKeeps ==
  ASSUME NEW p, Core(p), ~p.freed, NEW c \in Conn, NEW recursed \in BOOLEAN,
         NEW q, q = connection_available(p, c, recursed),
         ~Queued(p, c), p.conn[c].at = "pool", p.conn[c].upgrade = "no",
         p.conn[c].open, p.conn[c].group, p.mode = "plain" => TOTAL_SOCKETS(p) < MaxConns
  PROVE  Core(q) /\ ~q.freed /\ SourceInv(q) /\ (RetryInv(p) => RetryInv(q))
<1>1. /\ p \in PoolState /\ p.conns \in Seq(Conn) /\ p.requests \in Seq(Request)
      /\ p.conn \in [Conn -> ConnState] /\ p.connecting \in Nat
  BY Zenon DEF Core, PoolState
<1>2. CASE p.requests # <<>>
  <2> DEFINE r == Head(p.requests)
             t == [p EXCEPT !.requests = Tail(@)]
             f == evd_connection_pool_finish_request(t, c, r, recursed)
  <2>1. r \in Request /\ Tail(p.requests) \in Seq(Request)
    BY <1>1, <1>2
  <2>2. /\ t \in PoolState /\ t.requests = Tail(p.requests)
        /\ t.mode = p.mode /\ t.conns = p.conns /\ t.connecting = p.connecting
        /\ t.tls_autostart = p.tls_autostart /\ t.freed = p.freed /\ t.conn = p.conn /\ t.res = p.res
    BY <1>1, <2>1, Zenon DEF PoolState
  <2>3. q = evd_connection_pool_create_min_conns(f)
    BY <1>2, Zenon DEF connection_available, TakeRequest
  <2> HIDE DEF t
  <2>4. p.conns = <<>>
    BY <1>2, Zenon DEF Core, QueuesInv
  <2>5. /\ \A i \in DOMAIN t.requests : i + 1 \in DOMAIN p.requests /\ t.requests[i] = p.requests[i + 1]
        /\ \A i \in DOMAIN p.requests : i # 1 => i - 1 \in DOMAIN t.requests /\ t.requests[i - 1] = p.requests[i]
        /\ DOMAIN t.requests \subseteq Nat \ {0} /\ 1 \in DOMAIN p.requests /\ p.requests[1] = r
    BY <1>1, <1>2, <2>2, SMTT(20)
  <2>6. \A i, j \in DOMAIN t.requests : t.requests[i] = t.requests[j] => i = j
    <3> TAKE i, j \in DOMAIN t.requests
    <3> HAVE t.requests[i] = t.requests[j]
    <3>1. i + 1 = j + 1
      BY <2>5 DEF Core, QueuesInv
    <3> QED BY <2>5, <3>1
  <2>7. \A i \in DOMAIN t.requests : t.requests[i] # r
    <3> TAKE i \in DOMAIN t.requests
    <3>1. i + 1 # 1
      BY <2>5
    <3> QED BY <2>5, <3>1 DEF Core, QueuesInv
  <2>8. \A x \in Request \ {r} :
          t.res[x].st = "waiting" <=> \E i \in DOMAIN t.requests : t.requests[i] = x
    <3> TAKE x \in Request \ {r}
    <3>1. p.res[x].st = "waiting" <=> \E i \in DOMAIN p.requests : p.requests[i] = x
      BY Zenon DEF Core, QueuesInv
    <3>2. (\E i \in DOMAIN p.requests : p.requests[i] = x) <=> \E i \in DOMAIN t.requests : t.requests[i] = x
      BY <2>5
    <3> QED BY <2>2, <3>1, <3>2, Zenon
  <2>9. t.res[r].st # "answered"
    <3>1. p.res[r].st = "waiting"
      BY <2>1, <2>5, ZenonT(40) DEF Core, QueuesInv
    <3> QED BY <2>2, <3>1, Zenon
  <2>10. QueuedInv(t) /\ GivenInv(t) /\ UpgradeInv(t) /\ PlainInv(t) /\ ~t.freed /\ ~Queued(t, c)
    BY <2>2, SMTT(40) DEF Core, QueuedInv, Queued, GivenInv, UpgradeInv, PlainInv, TOTAL_SOCKETS
  <2>11. /\ t.requests = <<>> \/ t.conns = <<>>
         /\ \A i, j \in DOMAIN t.conns : t.conns[i] = t.conns[j] => i = j
         /\ t.conn[c].at = "pool" /\ t.conn[c].upgrade = "no"
    BY <2>2, <2>4, SMTT(20) DEF Core, QueuesInv
  <2> HIDE DEF r
  <2>12. Core(f) /\ ~f.freed
    BY <2>1, <2>2, <2>6, <2>7, <2>8, <2>9, <2>10, <2>11, FinishKeeps, ZenonT(80)
  <2> HIDE DEF f
  <2> QED BY <2>3, <2>12, MinKeeps, Zenon
<1>3. CASE p.requests = <<>>
  <2> DEFINE K == [p.conn EXCEPT ![c] = [@ EXCEPT !.watched = TRUE]]
  <2>1. K \in [Conn -> ConnState]
    BY <1>1, ZenonT(40) DEF ConnState
  <2>2. q = [p EXCEPT !.conn = K, !.conns = Append(p.conns, c)]
    BY <1>1, <1>3, Zenon DEF connection_available, PoolState
  <2>3. /\ \A x \in Conn \ {c} : K[x] = p.conn[x]
        /\ K[c].at = "pool" /\ K[c].upgrade = "no" /\ K[c].open /\ K[c].group /\ K[c].watched
    BY <1>1, Zenon DEF ConnState
  <2> HIDE DEF K
  <2>4. /\ q \in PoolState /\ q.conn = K /\ q.conns = Append(p.conns, c)
        /\ q.mode = p.mode /\ q.requests = p.requests /\ q.connecting = p.connecting
        /\ q.retry = p.retry /\ q.timers = p.timers /\ q.tls_autostart = p.tls_autostart
        /\ q.freed = p.freed /\ q.res = p.res
    <3>1. Append(p.conns, c) \in Seq(Conn)
      BY <1>1
    <3> QED BY <1>1, <2>1, <2>2, <3>1, ZenonT(40) DEF PoolState
  <2>5. /\ \A i \in DOMAIN q.conns :
             (i \in DOMAIN p.conns /\ q.conns[i] = p.conns[i]) \/ (i = Len(p.conns) + 1 /\ q.conns[i] = c)
        /\ Len(q.conns) = Len(p.conns) + 1
    BY <1>1, <2>4, Appended
  <2>6. QueuesInv(q)
    <3>1. \A i, j \in DOMAIN q.conns : q.conns[i] = q.conns[j] => i = j
      BY <2>5, SMTT(40) DEF Core, QueuesInv, Queued
    <3> QED BY <1>3, <2>4, <3>1 DEF Core, QueuesInv
  <2>7. QueuedInv(q)
    BY <2>3, <2>4, <2>5, SMTT(20) DEF Core, QueuedInv, Queued
  <2>8. GivenInv(q)
    <3>1. \A x \in Conn : q.conn[x].at = "given" <=> p.conn[x].at = "given"
      BY <2>3, <2>4, ZenonT(80)
    <3> QED BY <2>4, <3>1 DEF Core, GivenInv
  <2>9. UpgradeInv(q)
    <3> SUFFICES ASSUME NEW x \in Conn
                 PROVE  /\ q.conn[x].upgrade # "no" => q.conn[x].at = "pool"
                        /\ q.conn[x].upgrade \in {"handshake", "ok"} => q.conn[x].open /\ q.conn[x].group
      BY Zenon DEF UpgradeInv
    <3>1. CASE x = c
      BY <2>3, <2>4, <3>1, Zenon
    <3>2. CASE x # c
      BY <2>3, <2>4, <3>2 DEF Core, UpgradeInv
    <3> QED BY <3>1, <3>2, Zenon
  <2>10. PlainInv(q)
    <3>1. Len(p.conns) \in Nat
      BY <1>1
    <3>2. \A x \in Conn : q.conn[x].upgrade = p.conn[x].upgrade
      BY <2>3, <2>4, ZenonT(40)
    <3>3. TOTAL_SOCKETS(q) = TOTAL_SOCKETS(p) + 1 /\ TOTAL_SOCKETS(p) \in Nat
      BY <1>1, <2>4, <2>5, <3>1 DEF TOTAL_SOCKETS
    <3> QED BY <2>4, <3>2, <3>3, PoolAssumption DEF Core, PlainInv
  <2>11. FreedInv(q) /\ ~q.freed /\ SourceInv(q) /\ (RetryInv(p) => RetryInv(q))
    BY <1>3, <2>4, Zenon DEF FreedInv, SourceInv, RetryInv
  <2> QED BY <2>4, <2>6, <2>7, <2>8, <2>9, <2>10, <2>11, Zenon DEF Core
<1> QED BY <1>2, <1>3, Zenon

\* q is p but for the state of c and the queue of idle connections.
OnlyConn(p, q, c) ==
  /\ q \in PoolState
  /\ q.mode = p.mode /\ q.leaves = p.leaves /\ q.requests = p.requests
  /\ q.connecting = p.connecting /\ q.retry = p.retry /\ q.timers = p.timers
  /\ q.tls_autostart = p.tls_autostart /\ q.owned = p.owned /\ q.freed = p.freed
  /\ q.res = p.res /\ \A x \in Conn \ {c} : q.conn[x] = p.conn[x]

\* p with c in the state k, and with the idle connections w.
With(p, c, k, w) == [p EXCEPT !.conn = [p.conn EXCEPT ![c] = k], !.conns = w]

\* p with c in the state k.
WithConn(p, c, k) == [p EXCEPT !.conn = [p.conn EXCEPT ![c] = k]]

\* c may be in the state k.
MayBe(p, c, k) ==
  /\ k.at = "given" <=> p.conn[c].at = "given"
  /\ k.upgrade # "no" => k.at = "pool"
  /\ k.upgrade \in {"handshake", "ok"} => k.open /\ k.group
  /\ p.mode = "plain" \/ p.freed => k.upgrade = "no"

\* w has elements of s, each once, and not c.
SomeOf(w, s, c) ==
  /\ Len(w) <= Len(s)
  /\ \A i, j \in DOMAIN w : w[i] = w[j] => i = j
  /\ \A i \in DOMAIN w : w[i] # c /\ \E j \in DOMAIN s : s[j] = w[i]

\* A connection that is not idle, or not any more, may change as long as it is
\* given to whom it was and its upgrade is in order.
LEMMA ChangeKeeps ==
  ASSUME NEW p, Core(p), NEW c \in Conn, NEW k \in ConnState, NEW w \in Seq(Conn),
         SomeOf(w, p.conns, c),
         MayBe(p, c, k),
         NEW q, q = With(p, c, k, w)
  PROVE  Core(q) /\ OnlyConn(p, q, c) /\ q.conn[c] = k /\ q.conns = w
<1>1. /\ p \in PoolState /\ p.conns \in Seq(Conn) /\ p.conn \in [Conn -> ConnState]
      /\ p.connecting \in Nat
  BY Zenon DEF Core, PoolState
<1> DEFINE K == [p.conn EXCEPT ![c] = k]
<1>2. K \in [Conn -> ConnState] /\ K[c] = k /\ \A x \in Conn \ {c} : K[x] = p.conn[x]
  BY <1>1, Zenon
<1> HIDE DEF K
<1>3. /\ q \in PoolState /\ q.conn = K /\ q.conns = w
      /\ q.mode = p.mode /\ q.leaves = p.leaves /\ q.requests = p.requests
      /\ q.connecting = p.connecting /\ q.retry = p.retry /\ q.timers = p.timers
      /\ q.tls_autostart = p.tls_autostart /\ q.owned = p.owned /\ q.freed = p.freed
      /\ q.res = p.res
  <2>1. q = [p EXCEPT !.conn = K, !.conns = w]
    BY Zenon DEF K, With
  <2> QED BY <1>1, <1>2, <2>1, ZenonT(40) DEF PoolState
<1>4. OnlyConn(p, q, c) /\ q.conn[c] = k /\ q.conns = w
  BY <1>2, <1>3, Zenon DEF OnlyConn
<1>5. QueuesInv(q)
  <2>1. p.conns = <<>> => w = <<>>
    BY <1>1, SMTT(40) DEF SomeOf
  <2> QED BY <1>3, <2>1 DEF Core, QueuesInv, SomeOf
<1>6. QueuedInv(q)
  BY <1>2, <1>3, SMTT(40) DEF Core, QueuedInv, Queued, SomeOf
<1>7. GivenInv(q)
  <2>1. q.conn[c].at = "given" <=> p.conn[c].at = "given"
    BY <1>2, <1>3, Zenon DEF MayBe
  <2>2. \A x \in Conn : q.conn[x].at = "given" <=> p.conn[x].at = "given"
    BY <1>2, <1>3, <2>1, ZenonT(40)
  <2> QED BY <1>3, <2>2 DEF Core, GivenInv
<1>8. UpgradeInv(q)
  <2> SUFFICES ASSUME NEW x \in Conn
               PROVE  /\ q.conn[x].upgrade # "no" => q.conn[x].at = "pool"
                      /\ q.conn[x].upgrade \in {"handshake", "ok"} => q.conn[x].open /\ q.conn[x].group
    BY Zenon DEF UpgradeInv
  <2>1. CASE x = c
    BY <1>2, <1>3, <2>1, Zenon DEF MayBe
  <2>2. CASE x # c
    BY <1>2, <1>3, <2>2 DEF Core, UpgradeInv
  <2> QED BY <2>1, <2>2, Zenon
<1>9. PlainInv(q)
  <2>1. ASSUME p.mode = "plain", NEW x \in Conn PROVE q.conn[x].upgrade = "no"
    <3>1. CASE x = c
      BY <1>2, <1>3, <2>1, <3>1, Zenon DEF MayBe
    <3>2. CASE x # c
      BY <1>2, <1>3, <2>1, <3>2 DEF Core, PlainInv
    <3> QED BY <3>1, <3>2, Zenon
  <2>2. Len(p.conns) \in Nat /\ Len(w) \in Nat
    BY <1>1
  <2> QED BY <1>1, <1>3, <2>1, <2>2, PoolAssumption DEF Core, PlainInv, TOTAL_SOCKETS, SomeOf
<1>10. FreedInv(q)
  <2> SUFFICES ASSUME p.freed PROVE ~Referenced(q) /\ q.conns = <<>>
    BY <1>3, Zenon DEF FreedInv
  <2>1. ~Referenced(p) /\ p.conns = <<>>
    BY Zenon DEF Core, FreedInv
  <2>2. w = <<>>
    BY <1>1, <2>1 DEF SomeOf
  <2>3. ASSUME NEW x \in Conn PROVE q.conn[x].upgrade = "no"
    <3>1. CASE x = c
      BY <1>2, <1>3, <3>1, Zenon DEF MayBe
    <3>2. CASE x # c
      BY <1>2, <1>3, <2>1, <3>2 DEF Referenced
    <3> QED BY <3>1, <3>2, Zenon
  <2> QED BY <1>3, <2>1, <2>2, <2>3, ZenonT(40) DEF Referenced
<1> QED BY <1>3, <1>4, <1>5, <1>6, <1>7, <1>8, <1>9, <1>10, Zenon DEF Core

\* So for a change of c alone when c is not idle.
LEMMA ConnKeeps ==
  ASSUME NEW p, Core(p), NEW c \in Conn, NEW k \in ConnState, ~Queued(p, c),
         MayBe(p, c, k),
         NEW q, q = WithConn(p, c, k)
  PROVE  Core(q) /\ OnlyConn(p, q, c) /\ q.conn[c] = k /\ q.conns = p.conns
<1>1. p \in PoolState /\ p.conns \in Seq(Conn) /\ Len(p.conns) <= Len(p.conns)
  BY DEF Core, PoolState
<1>2. q = With(p, c, k, p.conns)
  BY <1>1, Zenon DEF PoolState, With, WithConn
<1>3. SomeOf(p.conns, p.conns, c)
  BY <1>1, Zenon DEF Core, QueuesInv, Queued, SomeOf
<1> QED BY <1>1, <1>2, <1>3, ChangeKeeps

\* A connection that is not the pool's joins it.
LEMMA AddKeeps ==
  ASSUME NEW p, Core(p), ~p.freed, NEW c \in Conn, p.conn[c].at \in {"none", "user"},
         p.conn[c].upgrade = "no", p.conn[c].open,
         p.mode = "plain" => TOTAL_SOCKETS(p) < MaxConns,
         NEW q, q = group_add_stream(p, c)
  PROVE  /\ Core(q) /\ ~q.freed /\ (RetryInv(p) => RetryInv(q))
         /\ SourceInv(p) \/ ~p.conn[c].group => SourceInv(q)
<1>1. p \in PoolState /\ p.conn \in [Conn -> ConnState]
  BY Zenon DEF Core, PoolState
<1> DEFINE k == [p.conn[c] EXCEPT !.group = TRUE, !.at = "pool"]
           p1 == [p EXCEPT !.conn[c].group = TRUE, !.conn[c].at = "pool"]
<1>2. ~Queued(p, c)
  BY Zenon DEF Core, QueuedInv
<1>3. /\ k \in ConnState /\ k.at = "pool" /\ k.upgrade = "no" /\ k.open /\ k.group
      /\ k.tls = p.conn[c].tls
  BY <1>1, Zenon DEF ConnState
<1>4. p1 = WithConn(p, c, k)
  BY <1>1, Zenon DEF PoolState, ConnState, WithConn
<1>5. Core(p1) /\ OnlyConn(p, p1, c) /\ p1.conn[c] = k /\ p1.conns = p.conns
  <2>1. MayBe(p, c, k)
    BY <1>3, Zenon DEF MayBe
  <2> HIDE DEF k, p1
  <2> QED BY <1>2, <1>3, <1>4, <2>1, ConnKeeps
<1>6. CASE p.conn[c].group
  BY <1>6, Zenon DEF group_add_stream
<1>7. CASE ~p.conn[c].group /\ p.tls_autostart /\ ~p.conn[c].tls
  <2> DEFINE k2 == [k EXCEPT !.tls = TRUE, !.upgrade = "handshake"]
  <2>1. q = connection_starttls(p1, c)
    BY <1>7, Zenon DEF group_add_stream
  <2> HIDE DEF p1
  <2>2. k2 \in ConnState /\ k2.at = "pool" /\ k2.open /\ k2.group /\ k2.upgrade = "handshake"
    BY <1>3, Zenon DEF ConnState, Upgrade
  <2>3. ~p1.conn[c].tls /\ p1 \in PoolState /\ p1.conn \in [Conn -> ConnState]
    BY <1>3, <1>5, <1>7, Zenon DEF OnlyConn, PoolState
  <2> HIDE DEF k
  <2>4. q = WithConn(p1, c, k2)
    BY <1>5, <2>1, <2>3, ZenonT(40) DEF connection_starttls, PoolState, ConnState, WithConn
  <2>5. p1.mode # "plain" /\ ~p1.freed
    BY <1>5, <1>7, Zenon DEF Core, PlainInv, OnlyConn
  <2>6. ~Queued(p1, c)
    BY <1>2, <1>5, Zenon DEF Queued
  <2>7. MayBe(p1, c, k2)
    BY <1>3, <1>5, <2>2, <2>5, Zenon DEF MayBe
  <2> HIDE DEF k2
  <2>8. Core(q) /\ OnlyConn(p1, q, c) /\ q.conn[c] = k2
    BY <1>5, <2>2, <2>4, <2>6, <2>7, ConnKeeps
  <2> QED BY <1>5, <2>2, <2>5, <2>8 DEF OnlyConn, SourceInv, RetryInv
<1>8. CASE ~p.conn[c].group /\ ~(p.tls_autostart /\ ~p.conn[c].tls)
  <2>1. q = connection_available(p1, c, TRUE)
    BY <1>8, Zenon DEF group_add_stream
  <2> HIDE DEF p1, k
  <2>2. ~Queued(p1, c) /\ ~p1.freed /\ (p1.mode = "plain" => TOTAL_SOCKETS(p1) < MaxConns)
    BY <1>2, <1>5, Zenon DEF Queued, OnlyConn, TOTAL_SOCKETS
  <2>3. Core(q) /\ ~q.freed /\ SourceInv(q) /\ (RetryInv(p1) => RetryInv(q))
    BY <1>3, <1>5, <2>1, <2>2, AvailableKeeps, Zenon
  <2> QED BY <1>5, <2>3, Zenon DEF OnlyConn, RetryInv
<1> QED BY <1>6, <1>7, <1>8, Zenon

\* What is left when q is p after its last reference is gone.
Disposed(p, q) ==
  /\ ~Referenced(p) /\ q.freed /\ q.mode = p.mode
  /\ \A c \in Conn : ~Queued(p, c) => q.conn[c] = [p.conn[c] EXCEPT !.group = FALSE]

\* Dropping a reference keeps the pool in order, the last one included.
LEMMA UnrefKeeps ==
  ASSUME NEW p, Core(p), RetryInv(p), ~p.freed, NEW q, q = g_object_unref(p)
  PROVE  /\ Core(q) /\ RetryInv(q) /\ (SourceInv(p) => SourceInv(q))
         /\ q = p \/ Disposed(p, q)
<1>1. CASE Referenced(p)
  BY <1>1, Zenon DEF g_object_unref
<1>2. CASE ~Referenced(p)
  <2>1. /\ p \in PoolState /\ p.conn \in [Conn -> ConnState] /\ p.timers \in Nat
        /\ p.connecting \in Nat /\ p.requests = <<>> /\ p.connecting = 0
        /\ \A r \in Request : p.res[r].st # "answered"
        /\ \A c \in Conn : p.conn[c].upgrade = "no"
    BY <1>2 DEF Core, PoolState, Referenced
  <2> DEFINE K == [c \in Conn |-> IF Queued(p, c) THEN NoConn ELSE [p.conn[c] EXCEPT !.group = FALSE]]
             t == IF p.retry THEN p.timers - 1 ELSE p.timers
  <2>2. K \in [Conn -> ConnState]
    BY <2>1, ZenonT(40) DEF NoConn, ConnState, Upgrade
  <2>3. t \in Nat
    BY <2>1 DEF RetryInv
  <2>4. /\ \A c \in Conn : Queued(p, c) => K[c] = NoConn
        /\ \A c \in Conn : ~Queued(p, c) => K[c] = [p.conn[c] EXCEPT !.group = FALSE]
    BY Zenon
  <2>5. \A c \in Conn : K[c].upgrade = "no" /\ (K[c].at = "given" <=> p.conn[c].at = "given")
    <3> TAKE c \in Conn
    <3>1. CASE Queued(p, c)
      BY <2>4, <3>1, Zenon DEF NoConn, Core, QueuedInv
    <3>2. CASE ~Queued(p, c)
      BY <2>1, <2>4, <3>2 DEF ConnState
    <3> QED BY <3>1, <3>2, Zenon
  <2>6. q = [p EXCEPT !.retry = FALSE, !.timers = t, !.freed = TRUE, !.conns = <<>>, !.conn = K]
    BY <1>2, <2>1, Zenon DEF g_object_unref, dispose, RetryRemoved, Queued, PoolState
  <2> HIDE DEF K, t
  <2>7. /\ q \in PoolState /\ q.conn = K /\ q.conns = <<>> /\ q.requests = <<>> /\ q.freed
        /\ q.mode = p.mode /\ q.connecting = 0 /\ q.retry = FALSE
        /\ q.tls_autostart = p.tls_autostart /\ q.owned = p.owned /\ q.res = p.res
    <3>1. /\ q.conn = K /\ q.conns = <<>> /\ q.requests = <<>> /\ q.freed
          /\ q.mode = p.mode /\ q.connecting = 0 /\ q.retry = FALSE
          /\ q.tls_autostart = p.tls_autostart /\ q.owned = p.owned /\ q.res = p.res
      BY <2>1, <2>6, Zenon DEF PoolState
    <3>2. <<>> \in Seq(Conn) /\ TRUE \in BOOLEAN /\ FALSE \in BOOLEAN
      OBVIOUS
    <3>3. q \in PoolState
      BY <2>1, <2>2, <2>3, <2>6, <3>2, ZenonT(40) DEF PoolState
    <3> QED BY <3>1, <3>3, Zenon
  <2>8. QueuesInv(q) /\ QueuedInv(q)
    BY <2>1, <2>7, SMTT(20) DEF Core, QueuesInv, QueuedInv, Queued
  <2>9. GivenInv(q)
    BY <2>1, <2>5, <2>7 DEF Core, GivenInv
  <2>10. UpgradeInv(q)
    BY <2>5, <2>7, Zenon DEF UpgradeInv
  <2>11. PlainInv(q)
    <3>1. Len(q.conns) = 0
      BY <2>7, Zenon
    <3> QED BY <2>5, <2>7, <3>1, PoolAssumption, SMTT(40) DEF Core, PlainInv, TOTAL_SOCKETS
  <2>12. FreedInv(q)
    BY <1>2, <2>1, <2>5, <2>7, Zenon DEF FreedInv, Referenced
  <2>13. RetryInv(q) /\ SourceInv(q)
    BY <2>7, Zenon DEF RetryInv, SourceInv
  <2>14. Disposed(p, q)
    BY <1>2, <2>4, <2>7, Zenon DEF Disposed
  <2> QED BY <2>7, <2>8, <2>9, <2>10, <2>11, <2>12, <2>13, <2>14, Zenon DEF Core
<1> QED BY <1>1, <1>2, Zenon

\* A connection nobody has any more may be forgotten.
LEMMA ForgetKeeps ==
  ASSUME NEW p, Core(p), NEW c \in Conn, ~Queued(p, c), NEW q, q = Forgotten(p, c)
  PROVE  /\ Core(q) /\ OnlyConn(p, q, c) /\ q.conns = p.conns
         /\ \/ q = p
            \/ /\ q.conn[c] = NoConn
               /\ p.conn[c].at = "pool" /\ p.conn[c].upgrade = "no" /\ ~p.conn[c].watched
<1>1. p \in PoolState
  BY Zenon DEF Core
<1>2. CASE p.conn[c].at = "pool" /\ p.conn[c].upgrade = "no" /\ ~p.conn[c].watched
  <2>1. q = WithConn(p, c, NoConn)
    BY <1>1, <1>2, Zenon DEF Forgotten, WithConn, PoolState
  <2>2. NoConn \in ConnState /\ MayBe(p, c, NoConn)
    BY <1>2, Zenon DEF NoConn, ConnState, Upgrade, MayBe
  <2> QED BY <1>2, <2>1, <2>2, ConnKeeps
<1>3. CASE ~(p.conn[c].at = "pool" /\ p.conn[c].upgrade = "no" /\ ~p.conn[c].watched)
  BY <1>1, <1>3, Zenon DEF Forgotten, OnlyConn
<1> QED BY <1>2, <1>3, Zenon

\* A request that does not wait for c has the same to wait for when only c
\* changes.
LEMMA SourceStays ==
  ASSUME NEW p, NEW q, NEW c \in Conn, OnlyConn(p, q, c), SourceInv(p),
         p.conn[c].upgrade \notin {"handshake", "ok"},
         ~(p.conn[c].upgrade = "error" /\ p.conn[c].open /\ p.conn[c].watched)
  PROVE  SourceInv(q)
<1>1. ASSUME NEW x \in Conn,
             \/ p.conn[x].upgrade \in {"handshake", "ok"}
             \/ p.conn[x].upgrade = "error" /\ p.conn[x].open /\ p.conn[x].watched
      PROVE  x # c /\ q.conn[x] = p.conn[x]
  BY <1>1, Zenon DEF OnlyConn
<1> QED BY <1>1, Zenon DEF SourceInv, OnlyConn

\* evd_connection_close of any connection, at any point of its life but between
\* the end of its upgrade and the report of it.
LEMMA CloseKeeps ==
  ASSUME NEW p, Core(p), RetryInv(p), ~p.freed, NEW c \in Conn,
         SourceInv(p) \/ p.conn[c].watched,
         p.conn[c].upgrade # "ok", p.conn[c].upgrade = "handshake" => p.mode = "tls_fails",
         NEW q, q = connection_close(p, c)
  PROVE  /\ Core(q) /\ RetryInv(q) /\ SourceInv(q) /\ ~Queued(q, c)
         /\ q.freed => p.conn[c].upgrade = "handshake"
         /\ p.conn[c].at # "pool" => q.conn[c].at = p.conn[c].at
         /\ p.conn[c].upgrade = "no" => q.conn[c].upgrade = "no"
<1> DEFINE aborted == p.conn[c].upgrade = "handshake"
           p0 == [p EXCEPT !.conn[c].upgrade = "no"]
           p1 == IF aborted THEN g_object_unref(p0) ELSE p
           p2 == [p1 EXCEPT !.conn[c].open = FALSE, !.conn[c].tls = FALSE]
           p3 == IF p2.conn[c].watched /\ ~p2.freed THEN connection_on_close(p2, c) ELSE p2
           p4 == [p3 EXCEPT !.conn[c].group = FALSE]
<1>1. p \in PoolState /\ p.conn \in [Conn -> ConnState]
  BY Zenon DEF Core, PoolState
<1>2. q = Forgotten(p4, c)
  BY Zenon DEF connection_close
<1>3. /\ Core(p1) /\ RetryInv(p1) /\ (SourceInv(p) => SourceInv(p1))
      /\ p1.freed => aborted
      /\ p1.conn[c].at = p.conn[c].at /\ p1.conn[c].watched = p.conn[c].watched
      /\ p1.conn[c].upgrade \in {"no", "error"}
      /\ p.conn[c].upgrade = "no" => p1.conn[c].upgrade = "no"
  <2>1. CASE ~aborted
    <3>1. p.conn[c].upgrade \in {"no", "error"}
      BY <1>1, <2>1, Zenon DEF ConnState, Upgrade
    <3> QED BY <2>1, <3>1, Zenon
  <2>2. CASE aborted
    <3> DEFINE k == [p.conn[c] EXCEPT !.upgrade = "no"]
    <3>1. /\ k \in ConnState /\ k.upgrade = "no" /\ k.at = p.conn[c].at
          /\ k.watched = p.conn[c].watched
      BY <1>1, Zenon DEF ConnState, Upgrade
    <3>2. ~Queued(p, c)
      BY <2>2, Zenon DEF Core, QueuedInv
    <3>3. p0 = WithConn(p, c, k)
      BY <1>1, Zenon DEF WithConn, PoolState
    <3>4. MayBe(p, c, k)
      BY <3>1, Zenon DEF MayBe
    <3> HIDE DEF k, p0
    <3>5. Core(p0) /\ OnlyConn(p, p0, c) /\ p0.conn[c] = k /\ p0.conns = p.conns
      BY <3>1, <3>2, <3>3, <3>4, ConnKeeps
    <3>6. RetryInv(p0) /\ ~p0.freed /\ ~Queued(p0, c) /\ p0.mode = "tls_fails"
      BY <2>2, <3>2, <3>5, Zenon DEF RetryInv, OnlyConn, Queued
    <3>7. Core(p1) /\ RetryInv(p1) /\ (p1 = p0 \/ Disposed(p0, p1))
      BY <2>2, <3>5, <3>6, UnrefKeeps, Zenon
    <3>8. /\ p1.conn[c].at = k.at /\ p1.conn[c].watched = k.watched
          /\ p1.conn[c].upgrade = k.upgrade /\ p1.mode = "tls_fails"
      <4> HIDE DEF p1
      <4>1. CASE p1 = p0
        BY <3>5, <3>6, <4>1, Zenon
      <4>2. CASE Disposed(p0, p1)
        <5>1. p1.conn[c] = [k EXCEPT !.group = FALSE]
          BY <3>5, <3>6, <4>2, Zenon DEF Disposed
        <5> QED BY <3>1, <3>6, <4>2, <5>1, Zenon DEF Disposed, ConnState
      <4> QED BY <3>7, <4>1, <4>2, Zenon
    <3>9. SourceInv(p1)
      BY <3>8, ZenonT(40) DEF SourceInv
    <3> HIDE DEF p1
    <3> QED BY <2>2, <3>1, <3>7, <3>8, <3>9, Zenon
  <2> QED BY <2>1, <2>2, Zenon
<1> HIDE DEF p1
<1> DEFINE k2 == [p1.conn[c] EXCEPT !.open = FALSE, !.tls = FALSE]
<1>4. p1 \in PoolState /\ p1.conn \in [Conn -> ConnState] /\ p1.conns \in Seq(Conn)
  BY <1>3, Zenon DEF Core, PoolState
<1>5. /\ k2 \in ConnState /\ k2.open = FALSE /\ k2.at = p1.conn[c].at
      /\ k2.upgrade = p1.conn[c].upgrade /\ k2.watched = p1.conn[c].watched
      /\ k2.group = p1.conn[c].group
  BY <1>4, ZenonT(40) DEF ConnState
<1>6. p2 = WithConn(p1, c, k2)
  BY <1>4, Zenon DEF WithConn, PoolState
<1>7. MayBe(p1, c, k2)
  <2>1. k2.upgrade # "no" => k2.at = "pool" /\ ~p1.freed /\ p1.mode # "plain"
    BY <1>3, <1>5, Zenon DEF Core, UpgradeInv, PlainInv, FreedInv, Referenced
  <2> QED BY <1>3, <1>5, <2>1, Zenon DEF MayBe
<1>8. p2 \in PoolState /\ p2.conn[c] = k2 /\ p2.freed = p1.freed /\ p2.conns = p1.conns
  BY <1>4, <1>5, <1>6, Zenon DEF PoolState, WithConn
<1> HIDE DEF k2, p2
<1>9. /\ Core(p3) /\ RetryInv(p3) /\ SourceInv(p3) /\ ~Queued(p3, c) /\ p3.freed = p1.freed
      /\ p3.conn[c].at = k2.at /\ p3.conn[c].upgrade = k2.upgrade /\ p3.conn[c].open = FALSE
  <2>1. CASE k2.watched /\ ~p1.freed
    <3> DEFINE rm == group_remove_stream(p2, c, FALSE)
    <3>1. p3 = evd_connection_pool_create_min_conns(rm)
      BY <1>8, <2>1, Zenon DEF connection_on_close
    <3>2. /\ Core(rm) /\ ~rm.freed /\ ~Queued(rm, c)
          /\ rm.conn[c].at = k2.at /\ rm.conn[c].upgrade = k2.upgrade /\ rm.conn[c].open = FALSE
      <4>1. CASE k2.group
        <5> DEFINE k3 == [k2 EXCEPT !.group = FALSE, !.watched = FALSE]
                   w == Without(p1.conns, c)
        <5>1. rm = With(p1, c, k3, w)
          BY <1>4, <1>6, <1>8, <4>1, ZenonT(40) DEF group_remove_stream, With, WithConn, PoolState
        <5>2. /\ k3 \in ConnState /\ k3.at = k2.at /\ k3.upgrade = k2.upgrade /\ k3.open = FALSE
          BY <1>5, Zenon DEF ConnState
        <5>3. MayBe(p1, c, k3)
          <6>1. k2.upgrade \notin {"handshake", "ok"}
            BY <1>3, <1>5, Zenon
          <6> QED BY <1>7, <5>2, <6>1, Zenon DEF MayBe
        <5>4. w \in Seq(Conn) /\ SomeOf(w, p1.conns, c)
          <6>1. \A i, j \in DOMAIN p1.conns : p1.conns[i] = p1.conns[j] => i = j
            BY <1>3, Zenon DEF Core, QueuesInv
          <6> QED BY <1>4, <6>1, WithoutOnce, Zenon DEF SomeOf
        <5> HIDE DEF k3, w, rm
        <5>5. Core(rm) /\ OnlyConn(p1, rm, c) /\ rm.conn[c] = k3 /\ rm.conns = w
          BY <1>3, <5>1, <5>2, <5>3, <5>4, ChangeKeeps, SMTT(20)
        <5>6. ~Queued(rm, c)
          BY <5>4, <5>5, Zenon DEF Queued, SomeOf
        <5> QED BY <2>1, <5>2, <5>5, <5>6, Zenon DEF OnlyConn
      <4>2. CASE ~k2.group
        <5>1. rm = p2
          BY <1>8, <4>2, Zenon DEF group_remove_stream
        <5>2. ~Queued(p1, c)
          BY <1>3, <1>5, <4>2, Zenon DEF Core, QueuedInv
        <5> HIDE DEF rm
        <5>3. Core(p2) /\ OnlyConn(p1, p2, c) /\ p2.conn[c] = k2 /\ p2.conns = p1.conns
          BY <1>3, <1>5, <1>6, <1>7, <5>2, ConnKeeps
        <5> QED BY <1>5, <2>1, <5>1, <5>2, <5>3, Zenon DEF OnlyConn, Queued
      <4> QED BY <4>1, <4>2, Zenon
    <3> HIDE DEF rm, p3
    <3>3. Core(p3) /\ ~p3.freed /\ RetryInv(p3) /\ SourceInv(p3)
      BY <3>1, <3>2, MinKeeps, Zenon
    <3>4. p3.conn = rm.conn /\ p3.conns = rm.conns
      BY <3>1, <3>2, MinFields, ZenonT(40) DEF Core
    <3>5. p3.freed = p1.freed
      BY <1>4, <2>1, <3>3, Zenon DEF Core, PoolState
    <3>6. ~Queued(p3, c)
      BY <3>2, <3>4, Zenon DEF Queued
    <3> QED BY <3>2, <3>3, <3>4, <3>5, <3>6, Zenon
  <2>2. CASE ~(k2.watched /\ ~p1.freed)
    <3>1. p3 = p2
      BY <1>8, <2>2, Zenon
    <3>2. ~Queued(p1, c)
      BY <1>3, <1>5, <2>2, SMTT(40) DEF Core, QueuedInv, FreedInv, Queued
    <3>3. Core(p2) /\ OnlyConn(p1, p2, c) /\ p2.conns = p1.conns
      BY <1>3, <1>5, <1>6, <1>7, <3>2, ConnKeeps
    <3>4. SourceInv(p2)
      <4>1. CASE p1.freed
        BY <1>3, <3>3, <4>1, Zenon DEF Core, FreedInv, Referenced, SourceInv, OnlyConn
      <4>2. CASE ~k2.watched
        BY <1>3, <1>5, <3>3, <4>2, SourceStays, ZenonT(40)
      <4> QED BY <2>2, <4>1, <4>2, Zenon
    <3> HIDE DEF p3
    <3> QED BY <1>3, <1>5, <1>8, <3>1, <3>2, <3>3, <3>4, SMTT(40) DEF OnlyConn, RetryInv, Queued
  <2> QED BY <2>1, <2>2, Zenon
<1> HIDE DEF p3
<1> DEFINE k4 == [p3.conn[c] EXCEPT !.group = FALSE]
<1>10. p3 \in PoolState /\ p3.conn \in [Conn -> ConnState]
  BY <1>9, Zenon DEF Core, PoolState
<1>11. /\ k4 \in ConnState /\ k4.at = p3.conn[c].at /\ k4.upgrade = p3.conn[c].upgrade
       /\ k4.open = FALSE
  BY <1>9, <1>10, ZenonT(40) DEF ConnState
<1>12. p4 = WithConn(p3, c, k4)
  BY <1>10, Zenon DEF WithConn, PoolState
<1>13. MayBe(p3, c, k4)
  <2>1. k4.upgrade \notin {"handshake", "ok"}
    BY <1>3, <1>5, <1>9, <1>11, Zenon
  <2>2. k4.upgrade # "no" => k4.at = "pool" /\ ~p3.freed /\ p3.mode # "plain"
    BY <1>9, <1>11, Zenon DEF Core, UpgradeInv, PlainInv, FreedInv, Referenced
  <2> QED BY <1>11, <2>1, <2>2, Zenon DEF MayBe
<1> HIDE DEF k4, p4
<1>14. Core(p4) /\ OnlyConn(p3, p4, c) /\ p4.conn[c] = k4 /\ p4.conns = p3.conns
  BY <1>9, <1>11, <1>12, <1>13, ConnKeeps
<1>15. SourceInv(p4) /\ RetryInv(p4) /\ ~Queued(p4, c)
  <2>1. SourceInv(p4)
    BY <1>3, <1>5, <1>9, <1>14, SourceStays, ZenonT(40)
  <2> QED BY <1>9, <1>14, <2>1, Zenon DEF OnlyConn, RetryInv, Queued
<1>16. /\ Core(q) /\ OnlyConn(p4, q, c) /\ q.conns = p4.conns
       /\ \/ q = p4
          \/ q.conn[c] = NoConn /\ p4.conn[c].at = "pool"
  BY <1>2, <1>14, <1>15, ForgetKeeps, SMTT(20)
<1>17. SourceInv(q)
  BY <1>3, <1>5, <1>9, <1>11, <1>14, <1>15, <1>16, SourceStays, Zenon
<1>18. RetryInv(q) /\ ~Queued(q, c) /\ q.freed = p1.freed
  BY <1>9, <1>14, <1>15, <1>16, SMTT(40) DEF OnlyConn, RetryInv, Queued
<1>19. /\ p.conn[c].at # "pool" => q.conn[c].at = p.conn[c].at
       /\ p.conn[c].upgrade = "no" => q.conn[c].upgrade = "no"
  BY <1>3, <1>5, <1>9, <1>11, <1>14, <1>16, SMTT(40) DEF NoConn
<1> QED BY <1>3, <1>16, <1>17, <1>18, <1>19, Zenon

\* q is p but for references, sources and fewer pending connects.
SameConns(p, q) ==
  /\ q \in PoolState
  /\ q.mode = p.mode /\ q.conns = p.conns /\ q.requests = p.requests /\ q.conn = p.conn
  /\ q.res = p.res /\ q.freed = p.freed
  /\ q.connecting <= p.connecting /\ (q.tls_autostart => p.tls_autostart)

\* The counters of attempts may fall without disturbing the connections.
LEMMA CountersKeep ==
  ASSUME NEW p, Core(p), ~p.freed, NEW q, SameConns(p, q)
  PROVE  Core(q) /\ ~q.freed
<1>1. p \in PoolState
  BY Zenon DEF Core
<1>2. QueuesInv(q)
  BY SMTT(20) DEF Core, SameConns, QueuesInv
<1>3. QueuedInv(q)
  BY ZenonT(40) DEF Core, SameConns, QueuedInv, Queued
<1>4. GivenInv(q)
  BY SMTT(20) DEF Core, SameConns, GivenInv
<1>5. UpgradeInv(q)
  BY Zenon DEF Core, SameConns, UpgradeInv
<1>6. PlainInv(q)
  <2>1. /\ p.connecting \in Nat /\ q.connecting \in Nat /\ Len(p.conns) \in Nat
        /\ q.connecting <= p.connecting /\ q.conns = p.conns
    BY <1>1 DEF SameConns, PoolState
  <2>2. TOTAL_SOCKETS(p) <= MaxConns => TOTAL_SOCKETS(q) <= MaxConns
    BY <2>1, PoolAssumption DEF TOTAL_SOCKETS
  <2> QED BY <2>2, Zenon DEF Core, SameConns, PlainInv
<1> QED BY <1>2, <1>3, <1>4, <1>5, <1>6, Zenon DEF Core, SameConns, FreedInv

\* The upgrade of a connection makes progress, fails or ends.
LEMMA UpgradeKeeps ==
  ASSUME NEW p, Core(p), NEW c \in Conn, p.conn[c].upgrade # "no", NEW u \in Upgrade,
         u \in {"handshake", "ok"} => p.conn[c].upgrade \in {"handshake", "ok"},
         NEW q, q = [p EXCEPT !.conn[c].upgrade = u]
  PROVE  /\ Core(q) /\ OnlyConn(p, q, c) /\ q.conns = p.conns /\ ~Queued(q, c)
         /\ ~p.freed /\ p.mode # "plain" /\ p.conn[c].at = "pool"
         /\ q.conn[c].upgrade = u /\ q.conn[c].at = "pool"
         /\ q.conn[c].open = p.conn[c].open /\ q.conn[c].watched = p.conn[c].watched
         /\ q.conn[c].group = p.conn[c].group
<1> DEFINE k == [p.conn[c] EXCEPT !.upgrade = u]
<1>1. p \in PoolState /\ p.conn \in [Conn -> ConnState]
  BY Zenon DEF Core, PoolState
<1>2. /\ k \in ConnState /\ k.upgrade = u /\ k.at = p.conn[c].at /\ k.open = p.conn[c].open
      /\ k.watched = p.conn[c].watched /\ k.group = p.conn[c].group
  BY <1>1, Zenon DEF ConnState
<1>3. ~Queued(p, c) /\ p.conn[c].at = "pool" /\ ~p.freed /\ p.mode # "plain"
  BY Zenon DEF Core, QueuedInv, UpgradeInv, FreedInv, Referenced, PlainInv
<1>4. q = WithConn(p, c, k)
  BY <1>1, Zenon DEF WithConn, PoolState
<1> HIDE DEF k
<1>5. MayBe(p, c, k)
  BY <1>2, <1>3, Zenon DEF MayBe, Core, UpgradeInv
<1> DEFINE v == WithConn(p, c, k)
<1> HIDE DEF v
<1>6. Core(v) /\ OnlyConn(p, v, c) /\ v.conn[c] = k /\ v.conns = p.conns
  <2>1. v = WithConn(p, c, k)
    BY Zenon DEF v
  <2> QED BY ONLY Core(p), c \in Conn, <1>2, <1>3, <1>5, <2>1, ConnKeeps
<1>7. q = v
  BY <1>4, Zenon DEF v
<1> QED BY <1>2, <1>3, <1>6, <1>7, ZenonT(40) DEF Queued

-----------------------------------------------------------------------------
\* A new pool is in order.
LEMMA InitInv == Init => IInv
<1> SUFFICES ASSUME Init PROVE IInv
  BY Zenon
<1> DEFINE First(mode, leaves) ==
             [mode |-> mode, leaves |-> leaves, conns |-> <<>>, requests |-> <<>>, connecting |-> 0,
              retry |-> FALSE, timers |-> 0, tls_autostart |-> FALSE,
              owned |-> TRUE, freed |-> FALSE,
              conn |-> [c \in Conn |-> NoConn],
              res |-> [r \in Request |-> NoResult]]
<1>1. PICK mode \in Modes, leaves \in OwnerReleases :
        pool = evd_connection_pool_create_min_conns(First(mode, leaves))
  BY Zenon DEF Init
<1> DEFINE p == First(mode, leaves)
<1>2. p \in PoolState
  BY PoolAssumption DEF PoolState, NoConn, NoResult, ConnState, ResState, Upgrade
<1>3. QueuesInv(p) /\ QueuedInv(p)
  BY DEF QueuesInv, QueuedInv, Queued, NoResult
<1>4. GivenInv(p)
  BY Zenon DEF GivenInv, NoConn, NoResult
<1>5. UpgradeInv(p) /\ FreedInv(p)
  BY Zenon DEF UpgradeInv, FreedInv, NoConn
<1>6. PlainInv(p)
  BY PoolAssumption DEF PlainInv, TOTAL_SOCKETS, NoConn
<1>7. ~p.freed
  BY Zenon
<1> HIDE DEF First
<1>8. Core(p)
  BY <1>2, <1>3, <1>4, <1>5, <1>6, Zenon DEF Core
<1> QED BY <1>1, <1>7, <1>8, MinKeeps, Zenon DEF IInv

\* A request takes an idle connection or waits.
LEMMA GetKeeps ==
  ASSUME IInv, NEW r \in Request, evd_connection_pool_get_connection(r)
  PROVE  IInv'
<1> DEFINE c == Head(pool.conns)
           t == [pool EXCEPT !.conns = Tail(@)]
           f == evd_connection_pool_finish_request(t, c, r, FALSE)
           w == [pool EXCEPT !.requests = Append(@, r), !.res[r].st = "waiting"]
<1>1. /\ Core(pool) /\ pool \in PoolState /\ pool.conns \in Seq(Conn)
      /\ pool.requests \in Seq(Request) /\ pool.conn \in [Conn -> ConnState]
      /\ pool.res \in [Request -> ResState] /\ pool.connecting \in Nat
  BY Zenon DEF IInv, Core, PoolState
<1>2. ~pool.freed /\ pool.res[r].st = "none" /\ ~\E i \in DOMAIN pool.requests : pool.requests[i] = r
  BY <1>1, Zenon DEF evd_connection_pool_get_connection, Core, FreedInv, Referenced, QueuesInv
<1>3. CASE pool.conns # <<>>
  <2>1. /\ c \in Conn /\ Tail(pool.conns) \in Seq(Conn)
        /\ Len(Tail(pool.conns)) = Len(pool.conns) - 1
        /\ 1 \in DOMAIN pool.conns /\ c = pool.conns[1]
        /\ \A i \in DOMAIN Tail(pool.conns) :
             /\ i + 1 \in DOMAIN pool.conns /\ i + 1 # 1
             /\ Tail(pool.conns)[i] = pool.conns[i + 1]
    BY ONLY <1>1, <1>3, SMTT(40)
  <2>2. /\ t \in PoolState /\ t.conns = Tail(pool.conns) /\ t.requests = pool.requests
        /\ t.conn = pool.conn /\ t.res = pool.res /\ t.mode = pool.mode
        /\ t.tls_autostart = pool.tls_autostart /\ t.freed = pool.freed
        /\ t.connecting = pool.connecting
    BY <1>1, <2>1, ZenonT(40) DEF PoolState
  <2> HIDE DEF t, c
  <2>3. t.requests = <<>>
    BY <1>1, <1>3, <2>2, Zenon DEF Core, QueuesInv
  <2>4. \A i, j \in DOMAIN t.conns : t.conns[i] = t.conns[j] => i = j
    <3> SUFFICES ASSUME NEW i \in DOMAIN t.conns, NEW j \in DOMAIN t.conns,
                        t.conns[i] = t.conns[j]
                 PROVE  i = j
      BY Zenon
    <3>1. i + 1 = j + 1
      BY <1>1, <2>1, <2>2, SMTT(20) DEF Core, QueuesInv
    <3>2. i \in Nat /\ j \in Nat
      BY <2>1, <2>2, SMTT(40)
    <3> QED BY <3>1, <3>2
  <2>5. ~Queued(t, c) /\ Queued(pool, c)
    BY <1>1, <2>1, <2>2, SMTT(40) DEF Core, QueuesInv, Queued
  <2>6. QueuedInv(t)
    BY ONLY <1>1, <2>1, <2>2, SMTT(40) DEF Core, QueuedInv, Queued
  <2>7. GivenInv(t)
    BY <1>1, <2>2, SMTT(20) DEF Core, GivenInv
  <2>8. UpgradeInv(t)
    BY <1>1, <2>2, ZenonT(40) DEF Core, UpgradeInv
  <2>9. PlainInv(t)
    <3>1. TOTAL_SOCKETS(pool) <= MaxConns => TOTAL_SOCKETS(t) <= MaxConns
      BY <1>1, <2>1, <2>2, PoolAssumption, SMTT(20) DEF TOTAL_SOCKETS
    <3> QED BY <1>1, <2>2, <3>1, Zenon DEF Core, PlainInv
  <2>10. t.conn[c].at = "pool" /\ t.conn[c].upgrade = "no"
    BY <1>1, <2>1, <2>2, <2>5, ZenonT(40) DEF Core, QueuedInv
  <2>11. \A x \in Request \ {r} :
           t.res[x].st = "waiting" <=> \E i \in DOMAIN t.requests : t.requests[i] = x
    BY <1>1, <2>2, SMTT(20) DEF Core, QueuesInv
  <2>12. /\ \A i, j \in DOMAIN t.requests : t.requests[i] = t.requests[j] => i = j
         /\ \A i \in DOMAIN t.requests : t.requests[i] # r
         /\ t.res[r].st # "answered" /\ ~t.freed
    BY <1>2, <2>2, <2>3
  <2> HIDE DEF f
  <2>13. f = evd_connection_pool_finish_request(t, c, r, FALSE)
    BY Zenon DEF f
  <2>14. Core(f) /\ ~f.freed
    BY <2>1, <2>2, <2>3, <2>4, <2>5, <2>6, <2>7, <2>8, <2>9, <2>10, <2>11, <2>12, <2>13, FinishKeeps, ZenonT(40)
  <2>15. pool' = evd_connection_pool_create_min_conns(f)
    BY <1>3, Zenon DEF evd_connection_pool_get_connection, f, t, c
  <2> QED BY <2>14, <2>15, MinKeeps, Zenon DEF IInv
<1>4. CASE pool.conns = <<>>
  <2> DEFINE a == [pool.res[r] EXCEPT !.st = "waiting"]
  <2>1. a \in ResState /\ a.st = "waiting"
    BY <1>1, Zenon DEF ResState
  <2>2. w = [pool EXCEPT !.requests = Append(pool.requests, r), !.res = [pool.res EXCEPT ![r] = a]]
    BY <1>1, Zenon DEF PoolState
  <2> HIDE DEF a
  <2>3. /\ w \in PoolState /\ w.conns = pool.conns /\ w.requests = Append(pool.requests, r)
        /\ w.conn = pool.conn /\ w.res = [pool.res EXCEPT ![r] = a] /\ w.mode = pool.mode
        /\ w.tls_autostart = pool.tls_autostart /\ w.freed = pool.freed
        /\ w.connecting = pool.connecting
    <3>1. Append(pool.requests, r) \in Seq(Request) /\ [pool.res EXCEPT ![r] = a] \in [Request -> ResState]
      BY <1>1, <2>1
    <3> QED BY <1>1, <2>2, <3>1, Zenon DEF PoolState
  <2> HIDE DEF w
  <2>4. w.res[r] = a /\ \A x \in Request \ {r} : w.res[x] = pool.res[x]
    BY <1>1, <2>3, Zenon
  <2>5. QueuesInv(w)
    <3>1. \A i, j \in DOMAIN w.requests : w.requests[i] = w.requests[j] => i = j
      BY <1>1, <1>2, <2>3, Appended DEF Core, QueuesInv
    <3>2. \A x \in Request : w.res[x].st = "waiting" <=> \E i \in DOMAIN w.requests : w.requests[i] = x
      <4> SUFFICES ASSUME NEW x \in Request
                   PROVE  w.res[x].st = "waiting" <=> \E i \in DOMAIN w.requests : w.requests[i] = x
        BY ZenonT(40)
      <4>1. CASE x = r
        BY <1>1, <2>1, <2>3, <2>4, <4>1, Appended, SMTT(40)
      <4>2. CASE x # r
        <5>1. pool.res[x].st = "waiting" <=> \E i \in DOMAIN pool.requests : pool.requests[i] = x
          BY <1>1, Zenon DEF Core, QueuesInv
        <5>2. (\E i \in DOMAIN w.requests : w.requests[i] = x)
              <=> \E i \in DOMAIN pool.requests : pool.requests[i] = x
          BY <1>1, <2>3, <4>2, Appended, SMTT(40)
        <5> QED BY <2>4, <4>2, <5>1, <5>2, Zenon
      <4> QED BY <4>1, <4>2, Zenon
    <3> QED BY ONLY <1>4, <2>3, <3>1, <3>2, SMTT(40) DEF QueuesInv
  <2>6. QueuedInv(w)
    BY ONLY <1>1, <2>3, SMTT(40) DEF Core, QueuedInv, Queued
  <2>7. GivenInv(w)
    <3>1. \A x \in Request : w.res[x].st = "answered" => x # r /\ w.res[x] = pool.res[x]
      BY <2>1, <2>4, Zenon
    <3>2. \A y \in Conn : y \in Conn /\ pool.conn[y].at = "given" =>
            \E x \in Request : w.res[x] = [st |-> "answered", conn |-> y]
      <4> SUFFICES ASSUME NEW y \in Conn, pool.conn[y].at = "given"
                   PROVE  \E x \in Request : w.res[x] = [st |-> "answered", conn |-> y]
        BY Zenon
      <4>1. PICK x \in Request : pool.res[x] = [st |-> "answered", conn |-> y]
        BY <1>1, Zenon DEF Core, GivenInv
      <4>2. x # r
        BY <1>2, <4>1
      <4> QED BY <2>4, <4>1, <4>2, Zenon
    <3> QED BY <1>1, <2>3, <3>1, <3>2, SMTT(20) DEF Core, GivenInv
  <2>8. UpgradeInv(w)
    BY <1>1, <2>3, ZenonT(40) DEF Core, UpgradeInv
  <2>9. PlainInv(w) /\ FreedInv(w) /\ ~w.freed
    BY <1>1, <1>2, <2>3, Zenon DEF Core, PlainInv, FreedInv, TOTAL_SOCKETS
  <2>10. Core(w)
    BY <2>3, <2>5, <2>6, <2>7, <2>8, <2>9, Zenon DEF Core
  <2>11. pool' = evd_connection_pool_create_min_conns(w)
    BY <1>4, Zenon DEF evd_connection_pool_get_connection, w
  <2> QED BY <2>9, <2>10, <2>11, MinKeeps, Zenon DEF IInv
<1> QED BY <1>3, <1>4, ZenonT(40)

\* The caller of a request is told which connection it has.
LEMMA ReadyKeeps ==
  ASSUME IInv, NEW r \in Request, get_connection_ready(r)
  PROVE  IInv'
<1> DEFINE c == pool.res[r].conn
           k == [pool.conn[c] EXCEPT !.at = "user"]
           p == [pool EXCEPT !.res[r] = NoResult, !.conn[pool.res[r].conn].at = "user"]
<1>1. /\ Core(pool) /\ pool \in PoolState /\ pool.conn \in [Conn -> ConnState]
      /\ pool.res \in [Request -> ResState] /\ RetryInv(pool) /\ SourceInv(pool)
  BY Zenon DEF IInv, Core, PoolState
<1>2. /\ pool.res[r].st = "answered" /\ c \in Conn /\ pool.conn[c].at = "given" /\ ~pool.freed
      /\ pool' = g_object_unref(p)
  BY <1>1, ZenonT(40) DEF get_connection_ready, Core, GivenInv, FreedInv, Referenced
<1>3. /\ k \in ConnState /\ k.at = "user" /\ k.upgrade = pool.conn[c].upgrade
      /\ k.open = pool.conn[c].open /\ k.watched = pool.conn[c].watched
      /\ k.group = pool.conn[c].group
  BY <1>1, <1>2, Zenon DEF ConnState
<1>4. NoResult \in ResState /\ NoResult.st = "none"
  BY Zenon DEF NoResult, ResState
<1>5. /\ pool.conn[c].upgrade = "no" /\ ~Queued(pool, c)
  BY <1>1, <1>2, Zenon DEF Core, UpgradeInv, QueuedInv
<1>6. p = [pool EXCEPT !.res = [pool.res EXCEPT ![r] = NoResult], !.conn = [pool.conn EXCEPT ![c] = k]]
  BY <1>1, Zenon DEF PoolState
<1> HIDE DEF k, p, c
<1>7. [pool.res EXCEPT ![r] = NoResult] \in [Request -> ResState] /\ [pool.conn EXCEPT ![c] = k] \in [Conn -> ConnState]
  BY <1>1, <1>2, <1>3, <1>4, Zenon
<1>8. /\ p \in PoolState /\ p.conns = pool.conns /\ p.requests = pool.requests
      /\ p.conn = [pool.conn EXCEPT ![c] = k] /\ p.res = [pool.res EXCEPT ![r] = NoResult]
      /\ p.mode = pool.mode /\ p.tls_autostart = pool.tls_autostart /\ p.freed = pool.freed
      /\ p.connecting = pool.connecting /\ p.timers = pool.timers /\ p.retry = pool.retry
  BY <1>1, <1>6, <1>7, Zenon DEF PoolState
<1>9. /\ p.res[r] = NoResult /\ p.conn[c] = k
      /\ \A x \in Request \ {r} : p.res[x] = pool.res[x]
      /\ \A y \in Conn \ {c} : p.conn[y] = pool.conn[y]
  BY <1>1, <1>2, <1>8, ZenonT(40)
<1>10. QueuesInv(p)
  <2>1. \A x \in Request : p.res[x].st = "waiting" <=> pool.res[x].st = "waiting"
    BY <1>2, <1>4, <1>9, ZenonT(40)
  <2> QED BY <1>1, <1>8, <2>1 DEF Core, QueuesInv
<1>11. QueuedInv(p)
  BY ONLY <1>1, <1>5, <1>8, <1>9, SMTT(40) DEF Core, QueuedInv, Queued
<1>12. GivenInv(p)
  <2>1. ASSUME NEW y \in Conn, p.conn[y].at = "given"
        PROVE  \E x \in Request : p.res[x] = [st |-> "answered", conn |-> y]
    <3>1. y # c /\ pool.conn[y].at = "given"
      BY <1>3, <1>9, <2>1, ZenonT(40)
    <3>2. PICK x \in Request : pool.res[x] = [st |-> "answered", conn |-> y]
      BY <1>1, <3>1, Zenon DEF Core, GivenInv
    <3>3. x # r
      BY <3>1, <3>2, SMTT(20) DEF c
    <3> QED BY <1>9, <3>2, <3>3, Zenon
  <2>2. ASSUME NEW x \in Request, p.res[x].st = "answered"
        PROVE  /\ x # r /\ p.res[x] = pool.res[x] /\ p.res[x].conn \in Conn
               /\ p.conn[p.res[x].conn].at = "given"
    <3>1. x # r /\ p.res[x] = pool.res[x]
      BY <1>4, <1>9, <2>2, Zenon
    <3>2. pool.res[x].conn \in Conn /\ pool.conn[pool.res[x].conn].at = "given"
      BY <1>1, <2>2, <3>1, Zenon DEF Core, GivenInv
    <3>3. pool.res[x].conn # c
      BY <1>1, <1>2, <2>2, <3>1, Zenon DEF Core, GivenInv, c
    <3> QED BY <1>9, <3>1, <3>2, <3>3, Zenon
  <2>3. ASSUME NEW x \in Request, NEW y \in Request, p.res[x].st = "answered",
               p.res[y].st = "answered", p.res[x].conn = p.res[y].conn
        PROVE  x = y
    <3>1. p.res[x] = pool.res[x] /\ p.res[y] = pool.res[y]
      BY <2>2, <2>3, Zenon
    <3>2. GivenInv(pool)
      BY <1>1, Zenon DEF Core
    <3> QED BY ONLY <2>3, <3>1, <3>2 DEF GivenInv
  <2> QED BY ONLY <2>1, <2>2, <2>3, Zenon DEF GivenInv
<1>13. UpgradeInv(p)
  BY <1>1, <1>3, <1>5, <1>9, ZenonT(40) DEF Core, UpgradeInv
<1>14. PlainInv(p) /\ FreedInv(p) /\ ~p.freed
  <2>1. \A y \in Conn : p.conn[y].upgrade = pool.conn[y].upgrade
    BY <1>3, <1>9, Zenon
  <2> QED BY <1>1, <1>2, <1>8, <2>1, Zenon DEF Core, PlainInv, FreedInv, TOTAL_SOCKETS
<1>15. RetryInv(p) /\ SourceInv(p)
  <2>1. \A y \in Conn : /\ p.conn[y].upgrade = pool.conn[y].upgrade
                        /\ p.conn[y].open = pool.conn[y].open
                        /\ p.conn[y].watched = pool.conn[y].watched
    BY <1>3, <1>9, Zenon
  <2> QED BY <1>1, <1>8, <2>1, Zenon DEF RetryInv, SourceInv
<1>16. Core(p)
  BY <1>8, <1>10, <1>11, <1>12, <1>13, <1>14, Zenon DEF Core
<1> QED BY <1>2, <1>14, <1>15, <1>16, UnrefKeeps, Zenon DEF IInv

\* A socket has connected.
LEMMA ConnectKeeps ==
  ASSUME IInv, NEW c \in Conn, socket_on_connect(c)
  PROVE  IInv'
<1> DEFINE p1 == [RetryRemoved(pool) EXCEPT !.connecting = @ - 1]
           p2 == [RetryRemoved(pool) EXCEPT !.connecting = @ - 1, !.conn[c].open = TRUE]
           p3 == group_add_stream(p2, c)
           k == [NoConn EXCEPT !.open = TRUE]
           t == IF pool.retry THEN pool.timers - 1 ELSE pool.timers
<1>1. /\ Core(pool) /\ pool \in PoolState /\ pool.conn \in [Conn -> ConnState] /\ RetryInv(pool)
      /\ pool.connecting \in Nat /\ pool.timers \in Nat
  BY Zenon DEF IInv, Core, PoolState
<1>2. /\ pool.connecting > 0 /\ pool.conn[c] = NoConn /\ ~pool.freed
      /\ pool' = g_object_unref(p3)
  BY <1>1, Zenon DEF socket_on_connect, Core, FreedInv, Referenced
<1>3. t \in Nat /\ pool.connecting - 1 \in Nat
  BY <1>1, <1>2 DEF RetryInv
<1>4. p1 = [pool EXCEPT !.retry = FALSE, !.timers = t, !.connecting = pool.connecting - 1]
  BY <1>1, Zenon DEF RetryRemoved, PoolState
<1>5. p2 = WithConn(p1, c, k)
  BY <1>1, <1>2, Zenon DEF RetryRemoved, WithConn, PoolState
<1> HIDE DEF p1, p2, p3, t
<1>6. SameConns(pool, p1) /\ p1.connecting = pool.connecting - 1 /\ p1.retry = FALSE
  <2>1. /\ p1 \in PoolState /\ p1.connecting = pool.connecting - 1 /\ p1.retry = FALSE
        /\ p1.mode = pool.mode /\ p1.conns = pool.conns /\ p1.requests = pool.requests
        /\ p1.conn = pool.conn /\ p1.res = pool.res /\ p1.freed = pool.freed
        /\ p1.tls_autostart = pool.tls_autostart
    BY <1>1, <1>3, <1>4, Zenon DEF PoolState
  <2>2. p1.connecting <= pool.connecting
    BY <1>1, <2>1, SMTT(20)
  <2> QED BY <2>1, <2>2, Zenon DEF SameConns
<1>7. Core(p1) /\ ~p1.freed /\ ~Queued(p1, c) /\ p1.conn[c] = NoConn
  <2>1. Core(p1) /\ ~p1.freed
    BY <1>1, <1>2, <1>6, CountersKeep, Zenon
  <2>2. p1.conn[c] = NoConn
    BY <1>2, <1>6, Zenon DEF SameConns
  <2> QED BY <2>1, <2>2, SMTT(20) DEF Core, QueuedInv, NoConn
<1>8. k \in ConnState /\ k.at = "none" /\ k.open /\ k.upgrade = "no" /\ k.group = FALSE
  BY Zenon DEF NoConn, ConnState, Upgrade
<1>9. MayBe(p1, c, k)
  BY <1>7, <1>8, Zenon DEF MayBe, NoConn
<1> HIDE DEF k
<1>10. Core(p2) /\ OnlyConn(p1, p2, c) /\ p2.conn[c] = k /\ p2.conns = p1.conns
  BY ONLY <1>5, <1>7, <1>8, <1>9, ConnKeeps, SMTT(20)
<1>11. p2.mode = "plain" => TOTAL_SOCKETS(p2) < MaxConns
  <2>1. Len(pool.conns) \in Nat
    BY <1>1, SMTT(20) DEF PoolState
  <2>2. /\ p2.connecting = pool.connecting - 1 /\ p2.conns = pool.conns /\ p2.mode = pool.mode
    BY <1>6, <1>10, Zenon DEF SameConns, OnlyConn
  <2>3. TOTAL_SOCKETS(pool) <= MaxConns => TOTAL_SOCKETS(p2) < MaxConns
    BY <1>1, <2>1, <2>2, PoolAssumption DEF TOTAL_SOCKETS
  <2> QED BY <1>1, <2>2, <2>3, Zenon DEF Core, PlainInv
<1>12. ~p2.freed /\ RetryInv(p2)
  BY <1>6, <1>7, <1>10, Zenon DEF OnlyConn, RetryInv
<1>13. p3 = group_add_stream(p2, c)
  BY Zenon DEF p3
<1>14. Core(p3) /\ ~p3.freed /\ RetryInv(p3) /\ SourceInv(p3)
  BY <1>8, <1>10, <1>11, <1>12, <1>13, AddKeeps, Zenon
<1> QED BY <1>2, <1>14, UnrefKeeps, ZenonT(40) DEF IInv

\* A connect has failed and is tried again later.
LEMMA ConnectErrorKeeps ==
  ASSUME IInv, socket_on_connect_error
  PROVE  IInv'
<1> DEFINE p == [pool EXCEPT !.connecting = pool.connecting - 1, !.retry = TRUE,
                             !.timers = pool.timers + 1]
<1>1. /\ Core(pool) /\ pool \in PoolState /\ pool.connecting \in Nat /\ pool.timers \in Nat
  BY Zenon DEF IInv, Core, PoolState
<1>2. pool.connecting > 0 /\ ~pool.freed
  BY <1>1, Zenon DEF socket_on_connect_error, Core, FreedInv, Referenced
<1>3. pool' = g_object_unref(p)
  BY <1>1, Zenon DEF socket_on_connect_error, Retry, PoolState
<1>4. pool.connecting - 1 \in Nat /\ pool.timers + 1 \in Nat /\ pool.timers + 1 > 0
  BY <1>1, <1>2
<1>5. SameConns(pool, p) /\ p.timers = pool.timers + 1
  <2>1. /\ p \in PoolState
        /\ p.mode = pool.mode /\ p.conns = pool.conns /\ p.requests = pool.requests
        /\ p.conn = pool.conn /\ p.res = pool.res /\ p.freed = pool.freed
        /\ p.tls_autostart = pool.tls_autostart /\ p.timers = pool.timers + 1
        /\ p.connecting = pool.connecting - 1
    BY <1>1, <1>4, Zenon DEF PoolState
  <2>2. p.connecting <= pool.connecting
    BY <1>1, <2>1
  <2> QED BY <2>1, <2>2, Zenon DEF SameConns
<1> HIDE DEF p
<1>6. Core(p) /\ ~p.freed
  BY <1>1, <1>2, <1>5, CountersKeep, Zenon
<1>7. RetryInv(p) /\ SourceInv(p)
  BY <1>4, <1>5, Zenon DEF RetryInv, SourceInv
<1> QED BY <1>3, <1>6, <1>7, UnrefKeeps, ZenonT(40) DEF IInv

\* The retry source of a pool that is alive runs.
LEMMA RetryKeeps ==
  ASSUME IInv, retry_timeout
  PROVE  IInv'
<1> DEFINE p == [pool EXCEPT !.timers = pool.timers - 1]
<1>1. /\ Core(pool) /\ pool \in PoolState /\ pool.connecting \in Nat /\ pool.timers \in Nat
      /\ ~pool.freed /\ pool.timers > 0 /\ pool' = evd_connection_pool_create_min_conns(p)
  BY Zenon DEF IInv, Core, PoolState, retry_timeout
<1>2. pool.timers - 1 \in Nat
  BY <1>1
<1>3. SameConns(pool, p)
  BY <1>1, <1>2 DEF SameConns, PoolState
<1> HIDE DEF p
<1>4. Core(p) /\ ~p.freed
  BY <1>1, <1>3, CountersKeep, Zenon
<1> QED BY <1>1, <1>4, MinKeeps, Zenon DEF IInv

\* The owner lets go of the pool.
LEMMA ReleaseKeeps ==
  ASSUME IInv, release
  PROVE  IInv'
<1> DEFINE p == [pool EXCEPT !.owned = FALSE]
<1>1. /\ Core(pool) /\ pool \in PoolState /\ RetryInv(pool) /\ SourceInv(pool)
      /\ pool.connecting \in Nat
      /\ ~pool.freed /\ pool' = g_object_unref(p)
  BY Zenon DEF IInv, Core, PoolState, release, FreedInv, Referenced
<1>2. SameConns(pool, p) /\ p.connecting = pool.connecting /\ p.timers = pool.timers /\ p.retry = pool.retry
  <2>1. /\ p \in PoolState
        /\ p.mode = pool.mode /\ p.conns = pool.conns /\ p.requests = pool.requests
        /\ p.conn = pool.conn /\ p.res = pool.res /\ p.freed = pool.freed
        /\ p.tls_autostart = pool.tls_autostart /\ p.timers = pool.timers
        /\ p.connecting = pool.connecting /\ p.retry = pool.retry
    BY <1>1, Zenon DEF PoolState
  <2>2. p.connecting <= pool.connecting
    BY <1>1, <2>1
  <2> QED BY <2>1, <2>2, Zenon DEF SameConns
<1> HIDE DEF p
<1>3. Core(p) /\ ~p.freed
  BY <1>1, <1>2, CountersKeep, ZenonT(40)
<1>4. RetryInv(p) /\ SourceInv(p)
  BY <1>1, <1>2, Zenon DEF RetryInv, SourceInv, SameConns
<1> QED BY <1>1, <1>3, <1>4, UnrefKeeps, Zenon DEF IInv

\* tls-autostart is cleared, or set and every idle connection upgraded.
LEMMA AutostartKeeps ==
  ASSUME IInv, NEW b \in BOOLEAN, evd_connection_pool_set_tls_autostart(b)
  PROVE  IInv'
<1>1. /\ Core(pool) /\ pool \in PoolState /\ RetryInv(pool) /\ SourceInv(pool)
      /\ pool.connecting \in Nat /\ pool.conn \in [Conn -> ConnState]
      /\ ~pool.freed /\ pool.mode # "plain"
  BY Zenon DEF IInv, Core, PoolState, evd_connection_pool_set_tls_autostart, FreedInv, Referenced, UseTls
<1>2. CASE ~b
  <2> DEFINE p == [pool EXCEPT !.tls_autostart = FALSE]
  <2>1. pool' = p
    BY <1>2, Zenon DEF evd_connection_pool_set_tls_autostart
  <2>2. /\ p \in PoolState /\ p.connecting = pool.connecting /\ p.timers = pool.timers
        /\ p.retry = pool.retry /\ p.mode = pool.mode /\ p.conns = pool.conns
        /\ p.requests = pool.requests /\ p.conn = pool.conn /\ p.res = pool.res
        /\ p.freed = pool.freed /\ p.tls_autostart = FALSE
    BY <1>1, Zenon DEF PoolState
  <2> HIDE DEF p
  <2>3. p.connecting <= pool.connecting
    BY <1>1, <2>2
  <2>4. SameConns(pool, p)
    BY <2>2, <2>3, Zenon DEF SameConns
  <2>5. Core(p)
    BY <1>1, <2>4, CountersKeep, Zenon
  <2>6. RetryInv(p) /\ SourceInv(p)
    BY <1>1, <2>2, ZenonT(40) DEF RetryInv, SourceInv
  <2> QED BY <2>1, <2>5, <2>6, Zenon DEF IInv
<1>3. CASE b
  <2> DEFINE k(c) == IF Queued(pool, c)
                     THEN [pool.conn[c] EXCEPT !.tls = TRUE,
                             !.upgrade = IF pool.conn[c].tls THEN "error" ELSE "handshake"]
                     ELSE pool.conn[c]
             m == [c \in Conn |-> k(c)]
             p == [pool EXCEPT !.tls_autostart = TRUE, !.conns = <<>>, !.conn = m]
  <2>1. \A c \in Conn : connection_starttls(pool, c).conn[c] =
          [pool.conn[c] EXCEPT !.tls = TRUE,
             !.upgrade = IF pool.conn[c].tls THEN "error" ELSE "handshake"]
    BY <1>1, Zenon DEF connection_starttls, PoolState, ConnState
  <2>2. m = [c \in Conn |-> IF \E i \in DOMAIN pool.conns : pool.conns[i] = c
                            THEN connection_starttls(pool, c).conn[c] ELSE pool.conn[c]]
    BY <2>1, Zenon DEF Queued
  <2>3. pool' = p
    BY <1>3, <2>2, Zenon DEF evd_connection_pool_set_tls_autostart
  <2>4. ASSUME NEW c \in Conn
        PROVE  /\ k(c) \in ConnState /\ k(c).at = pool.conn[c].at /\ k(c).open = pool.conn[c].open
               /\ k(c).group = pool.conn[c].group /\ k(c).watched = pool.conn[c].watched
               /\ Queued(pool, c) => k(c).upgrade \in {"handshake", "error"}
               /\ ~Queued(pool, c) => k(c) = pool.conn[c]
    <3>1. CASE Queued(pool, c)
      BY <1>1, <3>1, ZenonT(80) DEF ConnState, Upgrade
    <3>2. CASE ~Queued(pool, c)
      BY <1>1, <3>2, Zenon
    <3> QED BY <3>1, <3>2, Zenon
  <2> HIDE DEF k
  <2>5. m \in [Conn -> ConnState] /\ \A c \in Conn : m[c] = k(c)
    BY <2>4, Zenon
  <2> HIDE DEF m
  <2>6. /\ p \in PoolState /\ p.connecting = pool.connecting /\ p.timers = pool.timers
        /\ p.retry = pool.retry /\ p.mode = pool.mode /\ p.conns = <<>>
        /\ p.requests = pool.requests /\ p.conn = m /\ p.res = pool.res
        /\ p.freed = pool.freed
    <3> DEFINE e == <<>>
    <3>1. e \in Seq(Conn)
      OBVIOUS
    <3>2. p = [pool EXCEPT !.tls_autostart = TRUE, !.conns = e, !.conn = m]
      BY Zenon
    <3>3. e = <<>>
      BY Zenon
    <3> HIDE DEF e, p
    <3> QED BY <1>1, <2>5, <3>1, <3>2, <3>3, Zenon DEF PoolState
  <2> HIDE DEF p
  <2>7. QueuesInv(p) /\ QueuedInv(p)
    BY ONLY <1>1, <2>6, SMTT(40) DEF Core, QueuesInv, QueuedInv, Queued
  <2>8. GivenInv(p)
    <3>1. \A c \in Conn : p.conn[c].at = pool.conn[c].at
      BY <2>4, <2>5, <2>6, Zenon
    <3> QED BY <1>1, <2>6, <3>1, SMTT(20) DEF Core, GivenInv
  <2>9. UpgradeInv(p)
    <3> SUFFICES ASSUME NEW c \in Conn
                 PROVE  /\ p.conn[c].upgrade # "no" => p.conn[c].at = "pool"
                        /\ p.conn[c].upgrade \in {"handshake", "ok"} => p.conn[c].open /\ p.conn[c].group
      BY Zenon DEF UpgradeInv
    <3>1. CASE Queued(pool, c)
      BY <1>1, <2>4, <2>5, <2>6, <3>1, ZenonT(40) DEF Core, QueuedInv
    <3>2. CASE ~Queued(pool, c)
      BY <1>1, <2>4, <2>5, <2>6, <3>2, ZenonT(80) DEF Core, UpgradeInv
    <3> QED BY <3>1, <3>2, Zenon
  <2>10. PlainInv(p) /\ FreedInv(p) /\ RetryInv(p)
    BY <1>1, <2>6, Zenon DEF PlainInv, FreedInv, RetryInv
  <2>11. SourceInv(p)
    <3> SUFFICES ASSUME pool.requests # <<>> PROVE SourceInv(p)
      BY <2>6, ZenonT(40) DEF SourceInv
    <3>1. pool.conns = <<>>
      BY <1>1, Zenon DEF Core, QueuesInv
    <3>2. \A c \in Conn : ~Queued(pool, c)
      BY <3>1 DEF Queued
    <3>3. \A c \in Conn : p.conn[c] = pool.conn[c]
      BY <2>4, <2>5, <2>6, <3>2, Zenon
    <3> QED BY <1>1, <2>6, <3>3, Zenon DEF SourceInv
  <2> QED BY <2>3, <2>6, <2>7, <2>8, <2>9, <2>10, <2>11, Zenon DEF IInv, Core
<1> QED BY <1>2, <1>3, Zenon

\* A handshake succeeds.
LEMMA HandshakeKeeps ==
  ASSUME IInv, NEW c \in Conn, tls_handshake(c, TRUE)
  PROVE  IInv'
<1> DEFINE p == [pool EXCEPT !.conn[c].upgrade = "ok"]
<1>1. pool' = p /\ pool.conn[c].upgrade = "handshake"
  BY Zenon DEF tls_handshake
<1>2. Core(pool) /\ RetryInv(pool) /\ SourceInv(pool)
  BY Zenon DEF IInv
<1>3. p = [pool EXCEPT !.conn[c].upgrade = "ok"]
  BY Zenon
<1> HIDE DEF p
<1>4. Core(p) /\ OnlyConn(pool, p, c) /\ p.conn[c].upgrade = "ok"
  BY ONLY <1>1, <1>2, <1>3, UpgradeKeeps, SMTT(40) DEF Upgrade
<1>5. RetryInv(p) /\ SourceInv(p)
  BY <1>2, <1>4, Zenon DEF RetryInv, SourceInv, OnlyConn
<1> QED BY <1>1, <1>4, <1>5, Zenon DEF IInv

\* A handshake fails and its connection is closed.
LEMMA HandshakeFailKeeps ==
  ASSUME IInv, NEW c \in Conn, TlsMayFail, tls_handshake(c, FALSE)
  PROVE  IInv'
<1> DEFINE p == [pool EXCEPT !.conn[c].upgrade = "error"]
<1>1. pool' = connection_close(p, c) /\ pool.conn[c].upgrade = "handshake"
  BY Zenon DEF tls_handshake
<1>2. Core(pool) /\ RetryInv(pool) /\ pool.mode = "tls_fails"
  BY Zenon DEF IInv, TlsMayFail
<1>3. p = [pool EXCEPT !.conn[c].upgrade = "error"]
  BY Zenon
<1> HIDE DEF p
<1>4. /\ Core(p) /\ OnlyConn(pool, p, c) /\ p.conn[c].upgrade = "error" /\ ~pool.freed
  BY <1>1, <1>2, <1>3, UpgradeKeeps, SMTT(20) DEF Upgrade
<1>5. RetryInv(p) /\ SourceInv(p) /\ ~p.freed
  BY <1>2, <1>4, Zenon DEF RetryInv, SourceInv, OnlyConn
<1> QED BY <1>1, <1>4, <1>5, CloseKeeps, Zenon DEF IInv

\* The end of an upgrade is reported.
LEMMA StartedKeeps ==
  ASSUME IInv, NEW c \in Conn, connection_on_tls_started(c)
  PROVE  IInv'
<1> DEFINE p == [pool EXCEPT !.conn[c].upgrade = "no"]
<1>1. Core(pool) /\ RetryInv(pool) /\ SourceInv(pool)
  BY Zenon DEF IInv
<1>2. pool.conn[c].upgrade \in {"ok", "error"}
  BY Zenon DEF connection_on_tls_started
<1>3. p = [pool EXCEPT !.conn[c].upgrade = "no"]
  BY Zenon
<1>4. \/ /\ pool.conn[c].upgrade = "ok"
         /\ pool' = g_object_unref(connection_available(p, c, FALSE))
      \/ /\ pool.conn[c].upgrade = "error" /\ p.conn[c].open
         /\ pool' = g_object_unref(connection_close(p, c))
      \/ /\ pool.conn[c].upgrade = "error" /\ ~p.conn[c].open
         /\ pool' = g_object_unref(Forgotten(p, c))
  BY Zenon DEF connection_on_tls_started
<1> HIDE DEF p
<1>5. /\ Core(p) /\ OnlyConn(pool, p, c) /\ p.conns = pool.conns /\ ~Queued(p, c)
      /\ ~pool.freed /\ pool.mode # "plain"
      /\ p.conn[c].upgrade = "no" /\ p.conn[c].at = "pool"
      /\ p.conn[c].open = pool.conn[c].open /\ p.conn[c].watched = pool.conn[c].watched
      /\ p.conn[c].group = pool.conn[c].group
  BY <1>1, <1>2, <1>3, UpgradeKeeps, SMTT(40) DEF Upgrade
<1>6. ~p.freed /\ RetryInv(p) /\ p.mode # "plain"
  BY <1>1, <1>5, Zenon DEF OnlyConn, RetryInv
<1>7. CASE pool.conn[c].upgrade = "ok" /\ pool' = g_object_unref(connection_available(p, c, FALSE))
  <2> DEFINE a == connection_available(p, c, FALSE)
  <2>1. p.conn[c].open /\ p.conn[c].group
    BY <1>1, <1>5, <1>7, Zenon DEF Core, UpgradeInv
  <2>2. a = connection_available(p, c, FALSE) /\ pool' = g_object_unref(a)
    BY <1>7, Zenon
  <2> HIDE DEF a
  <2>3. Core(a) /\ ~a.freed /\ SourceInv(a) /\ RetryInv(a)
    BY <1>5, <1>6, <2>1, <2>2, AvailableKeeps, Zenon
  <2> QED BY <2>2, <2>3, UnrefKeeps, Zenon DEF IInv
<1>8. CASE /\ pool.conn[c].upgrade = "error" /\ p.conn[c].open
           /\ pool' = g_object_unref(connection_close(p, c))
  <2> DEFINE a == connection_close(p, c)
  <2>1. SourceInv(p) \/ p.conn[c].watched
    BY <1>1, <1>5, <1>8, SourceStays, Zenon
  <2>2. a = connection_close(p, c) /\ pool' = g_object_unref(a)
    BY <1>8, Zenon
  <2> HIDE DEF a
  <2>3. Core(a) /\ ~a.freed /\ SourceInv(a) /\ RetryInv(a)
    BY <1>5, <1>6, <2>1, <2>2, CloseKeeps, Zenon
  <2> QED BY <2>2, <2>3, UnrefKeeps, ZenonT(40) DEF IInv
<1>9. CASE /\ pool.conn[c].upgrade = "error" /\ ~p.conn[c].open
           /\ pool' = g_object_unref(Forgotten(p, c))
  <2> DEFINE a == Forgotten(p, c)
  <2>1. SourceInv(p)
    BY <1>1, <1>5, <1>9, SourceStays, Zenon
  <2>2. a = Forgotten(p, c) /\ pool' = g_object_unref(a)
    BY <1>9, Zenon
  <2> HIDE DEF a
  <2>3. Core(a) /\ OnlyConn(p, a, c)
    BY <1>5, <2>2, ForgetKeeps, ZenonT(40)
  <2>4. SourceInv(a)
    BY <1>5, <2>1, <2>3, SourceStays, Zenon
  <2>5. ~a.freed /\ RetryInv(a)
    BY <1>6, <2>3, Zenon DEF OnlyConn, RetryInv
  <2> QED BY <2>2, <2>3, <2>4, <2>5, UnrefKeeps, Zenon DEF IInv
<1> QED BY <1>4, <1>7, <1>8, <1>9, Zenon

\* A connection ends on the network.
LEMMA BrokenKeeps ==
  ASSUME IInv, NEW c \in Conn, connection_broken(c)
  PROVE  IInv'
  BY CloseKeeps, Zenon DEF IInv, connection_broken, TlsMayFail

\* A connection comes back from its user.
LEMMA RecycleKeeps ==
  ASSUME IInv, NEW c \in Conn, recycle(c)
  PROVE  IInv'
<1>1. /\ Core(pool) /\ RetryInv(pool) /\ SourceInv(pool) /\ ~pool.freed
      /\ pool.conn[c].at = "user" /\ pool.conn[c].upgrade = "no"
      /\ pool' = evd_connection_pool_recycle(pool, c)
  BY Zenon DEF IInv, recycle, Core, FreedInv, Referenced, UpgradeInv
<1>2. CASE pool.conn[c].open /\ HasRoom(pool)
  <2>1. pool' = group_add_stream(pool, c) /\ TOTAL_SOCKETS(pool) < MaxConns
    BY <1>1, <1>2, Zenon DEF evd_connection_pool_recycle, HasRoom
  <2> QED BY <1>1, <1>2, <2>1, AddKeeps, Zenon DEF IInv
<1>3. CASE ~(pool.conn[c].open /\ HasRoom(pool))
  BY <1>1, <1>3, Zenon DEF IInv, evd_connection_pool_recycle
<1> QED BY <1>2, <1>3, Zenon

\* A user closes and drops its connection.
LEMMA DropKeeps ==
  ASSUME IInv, NEW c \in Conn, drop(c)
  PROVE  IInv'
<1> DEFINE p == connection_close(pool, c)
           k == [p.conn[c] EXCEPT !.at = "pool"]
           d == [p EXCEPT !.conn[c].at = "pool"]
<1>1. /\ Core(pool) /\ RetryInv(pool) /\ SourceInv(pool) /\ ~pool.freed
      /\ pool.conn[c].at = "user" /\ pool.conn[c].upgrade = "no"
      /\ pool' = Forgotten(d, c) /\ p = connection_close(pool, c)
  BY Zenon DEF IInv, drop, Core, UpgradeInv
<1> HIDE DEF p
<1>2. /\ Core(p) /\ RetryInv(p) /\ SourceInv(p) /\ ~Queued(p, c) /\ ~p.freed
      /\ p.conn[c].at = "user" /\ p.conn[c].upgrade = "no"
  BY ONLY <1>1, CloseKeeps, SMTT(40)
<1>3. p \in PoolState /\ p.conn \in [Conn -> ConnState]
  BY <1>2, Zenon DEF Core, PoolState
<1>4. k \in ConnState /\ k.at = "pool" /\ k.upgrade = "no"
  BY <1>2, <1>3, Zenon DEF ConnState
<1>5. d = WithConn(p, c, k)
  BY <1>3, Zenon DEF WithConn, PoolState
<1>6. MayBe(p, c, k)
  BY <1>2, <1>4, ZenonT(40) DEF MayBe
<1> HIDE DEF d, k
<1>7. Core(d) /\ OnlyConn(p, d, c) /\ d.conn[c] = k /\ d.conns = p.conns
  BY <1>2, <1>4, <1>5, <1>6, ConnKeeps
<1>8. ~Queued(d, c)
  BY <1>2, <1>7, Zenon DEF Queued
<1>9. SourceInv(d)
  BY <1>2, <1>7, SourceStays, Zenon
<1>10. Core(pool') /\ OnlyConn(d, pool', c)
  BY <1>1, <1>7, <1>8, ForgetKeeps, Zenon
<1>11. SourceInv(pool')
  BY <1>4, <1>7, <1>9, <1>10, SourceStays, ZenonT(40)
<1>12. RetryInv(pool')
  BY <1>2, <1>7, <1>10, Zenon DEF OnlyConn, RetryInv
<1> QED BY <1>10, <1>11, <1>12, Zenon DEF IInv

-----------------------------------------------------------------------------
\* Every callback, timer and call keeps the invariant.
LEMMA NextInv == IInv /\ [Next]_pool => IInv'
<1> SUFFICES ASSUME IInv, [Next]_pool PROVE IInv'
  BY Zenon
<1>1. CASE UNCHANGED pool
  BY <1>1, Zenon DEF IInv
<1>2. ASSUME NEW r \in Request,
             evd_connection_pool_get_connection(r) \/ get_connection_ready(r)
      PROVE  IInv'
  BY <1>2, GetKeeps, ReadyKeeps, Zenon
<1>3. ASSUME NEW c \in Conn,
             \/ socket_on_connect(c) \/ tls_handshake(c, TRUE)
             \/ (TlsMayFail /\ tls_handshake(c, FALSE))
             \/ connection_on_tls_started(c) \/ connection_broken(c)
             \/ recycle(c) \/ drop(c)
      PROVE  IInv'
  BY <1>3, ConnectKeeps, HandshakeKeeps, HandshakeFailKeeps, StartedKeeps, BrokenKeeps,
     RecycleKeeps, DropKeeps, Zenon
<1>4. CASE socket_on_connect_error
  BY <1>4, ConnectErrorKeeps, Zenon
<1>5. CASE retry_timeout
  BY <1>5, RetryKeeps, Zenon
<1>6. ASSUME NEW b \in BOOLEAN, evd_connection_pool_set_tls_autostart(b) PROVE IInv'
  BY <1>6, AutostartKeeps, Zenon
<1>7. CASE release
  BY <1>7, ReleaseKeeps
<1> QED BY <1>1, <1>2, <1>3, <1>4, <1>5, <1>6, <1>7, Zenon DEF Next

\* The invariant holds in every state of the pool.
LEMMA InvAlways == Spec => []IInv
  BY InitInv, NextInv, PTL DEF Spec

\* The fields of a pool keep their types, through every composition of the
\* handlers in evd-connection-pool.c: connecting_sockets and the number of
\* retry sources never go below zero.
THEOREM TypeCorrect == Spec => []TypeOK
<1>1. IInv => TypeOK
  BY Zenon DEF IInv, Core, TypeOK
<1> QED BY <1>1, InvAlways, PTL

\* The invariant says all that PoolKept promises.
LEMMA InvKept == IInv => PoolKept
<1> SUFFICES ASSUME IInv PROVE PoolKept
  BY Zenon
<1>1. Core(pool) /\ SourceInv(pool)
  BY Zenon DEF IInv
<1>2. IdleOrWaiting
  BY <1>1, ZenonT(40) DEF Core, QueuesInv, IdleOrWaiting
<1>3. OnePlace
  <2>1. \A c \in Conn : InQueue(c) => pool.conn[c].at = "pool" /\ pool.conn[c].upgrade = "no"
    BY <1>1, Zenon DEF Core, QueuedInv, Queued, InQueue
  <2>2. \A c \in Conn : pool.conn[c].at = "given" <=>
          \E r \in Request : pool.res[r] = [st |-> "answered", conn |-> c]
    <3>1. ASSUME NEW c \in Conn, NEW r \in Request, pool.res[r] = [st |-> "answered", conn |-> c]
          PROVE  pool.conn[c].at = "given"
      <4>1. pool.res[r].st = "answered" /\ pool.res[r].conn = c
        BY <3>1
      <4> QED BY <1>1, <4>1, Zenon DEF Core, GivenInv
    <3> QED BY <1>1, <3>1, ZenonT(40) DEF Core, GivenInv
  <2>3. QueuesInv(pool) /\ GivenInv(pool)
    BY <1>1, Zenon DEF Core
  <2>4. \A r, q \in Request :
          pool.res[r].st = "answered" /\ pool.res[q].st = "answered"
            /\ pool.res[r].conn = pool.res[q].conn => r = q
    BY ONLY <2>3, ZenonT(40), SMTT(40) DEF GivenInv
  <2>5. \A c \in Conn : \A r, q \in Request :
          /\ pool.res[r].st = "answered" /\ pool.res[q].st = "answered"
          /\ pool.res[r].conn = c /\ pool.res[q].conn = c
          => r = q
    BY ONLY <2>4, ZenonT(40), SMTT(40)
  <2>6. /\ \A i, j \in DOMAIN pool.conns : pool.conns[i] = pool.conns[j] => i = j
        /\ \A i, j \in DOMAIN pool.requests : pool.requests[i] = pool.requests[j] => i = j
        /\ \A r \in Request : pool.res[r].st = "waiting" <=>
             \E i \in DOMAIN pool.requests : pool.requests[i] = r
    BY ONLY <2>3, ZenonT(40), SMTT(40) DEF QueuesInv
  <2> QED BY ONLY <2>1, <2>2, <2>5, <2>6, ZenonT(40), SMTT(40) DEF OnePlace
<1>4. IdleReady
  BY <1>1, Zenon DEF Core, QueuedInv, Queued, InQueue, IdleReady
<1>5. SocketsBounded
  BY <1>1, Zenon DEF Core, PlainInv, SocketsBounded, UseTls
<1>6. WaitingHasSource
  BY <1>1, Zenon DEF SourceInv, WaitingHasSource, TlsMayFail
<1> QED BY <1>2, <1>3, <1>4, <1>5, <1>6, Zenon DEF PoolKept

\* For any number of connections and requests: no connection is idle while a
\* request waits, every connection has one place, an idle one is open and
\* watched, max_conns holds without TLS, and a request that waits has something
\* under way, whatever the order of evd_connection_pool_get_connection,
\* connects, failures, upgrades, evd_connection_pool_recycle, closes and the
\* owner's last unref.
THEOREM PoolAlwaysKept == Spec => []PoolKept
  BY InvKept, InvAlways, PTL
=============================================================================
