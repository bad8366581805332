--------------------------- MODULE MCConnections ---------------------------
(***************************************************************************)
(* Model checking of a single connection (EvdConnection) and of the pool   *)
(* (EvdConnectionPool).  They share no state; `part` says which of them a  *)
(* behaviour is about, and the other one stays as it began.                *)
(***************************************************************************)
EXTENDS EvdConnection, EvdConnectionPool

CONSTANT Parts

VARIABLE part

E(kind, eager, in, out, quits) ==
  [kind |-> kind, eager |-> eager, in |-> in, out |-> out, quits |-> quits]

MCSetups ==
  {E("plain", 0, 2, 3, FALSE), E("plain", 1, 3, 0, FALSE), E("plain", 2, 3, 1, FALSE),
   E("plain", 1, 1, 3, TRUE),
   E("throttled", 2, 3, 1, FALSE), E("throttled", 1, 1, 2, TRUE),
   E("locks", 1, 2, 1, TRUE), E("locks", 0, 1, 0, FALSE),
   E("client", 1, 1, 1, TRUE), E("server", 1, 1, 1, TRUE)}

MCInit ==
  /\ part \in Parts /\ Init /\ ConnectionInit
  /\ part = "pool" => conn.setup = CHOOSE s \in Setups : TRUE
  /\ part = "connection" => pool.mode = "plain" /\ pool.leaves

InPool == part = "pool"
InConnection == part = "connection"

MCNext ==
  \/ InPool /\ Next /\ UNCHANGED <<part, conn>>
  \/ InConnection /\ ConnectionNext /\ UNCHANGED <<part, pool>>

\* The main loop runs the callbacks that are due, the kernel sends, the peer
\* handshakes and the application unlocks what it locked.  Each disjunction is
\* weak fairness of its action, which is enabled exactly when the guard holds.
ConnectionFairness ==
  /\ ([]<>~(InConnection /\ conn.do_read) \/ []<><<do_read>>_conn)
  /\ ([]<>~(InConnection /\ conn.edge /\ conn.sock) \/ []<><<PollReports>>_conn)
  /\ ([]<>~(InConnection /\ conn.read_src) \/ []<><<evd_connection_read_wait_timeout>>_conn)
  /\ ([]<>~(InConnection /\ conn.write_src /\ WriteTimeout(conn) # conn) \/ []<><<evd_connection_write_wait_timeout>>_conn)
  /\ ([]<>~(InConnection /\ (conn.close_src \/ conn.orphan > 0)) \/ []<><<evd_connection_close_in_idle_cb>>_conn)
  /\ ([]<>~(InConnection /\ conn.flush = "base") \/ []<><<evd_buffered_output_stream_on_base_stream_flushed>>_conn)
  /\ ([]<>~(InConnection /\ conn.flush \in {"done", "failed"}) \/ []<><<evd_connection_shutdown_on_flush>>_conn)
  /\ ([]<>~(InConnection /\ conn.close_locked) \/ []<><<evd_connection_unlock_close>>_conn)
  /\ ([]<>~(InConnection /\ Tls(conn) /\ ~conn.cred) \/ []<><<evd_tls_session_on_credentials_ready>>_conn)
  /\ WF_conn(InConnection /\ PeerHandshakes) /\ WF_conn(InConnection /\ KernelSends)

\* The main loop dispatches every source that stays ready; a target that can
\* be reached is reached by some attempt (strong fairness of a connect); a
\* handshake that cannot fail ends; callers let go of their connections.
PoolFairness ==
  /\ ([]<>~(InPool /\ ~pool.freed /\ pool.timers > 0) \/ []<><<retry_timeout>>_pool)
  /\ \A r \in Request :
       []<>~(InPool /\ pool.res[r].st = "answered") \/ []<><<get_connection_ready(r)>>_pool
  /\ \/ <>[]~(InPool /\ pool.connecting > 0 /\ \E c \in Conn : pool.conn[c] = NoConn)
     \/ []<><<\E c \in Conn : socket_on_connect(c)>>_pool
  /\ \A c \in Conn :
       /\ ([]<>~(InPool /\ pool.conn[c].upgrade = "handshake") \/ []<><<tls_handshake(c, TRUE)>>_pool)
       /\ ([]<>~(InPool /\ pool.conn[c].upgrade \in {"ok", "error"}) \/ []<><<connection_on_tls_started(c)>>_pool)
       /\ ([]<>~(InPool /\ ~pool.freed /\ pool.conn[c].at = "user") \/ []<><<drop(c)>>_pool)

MCSpec == MCInit /\ [][MCNext]_<<part, conn, pool>> /\ ConnectionFairness /\ PoolFairness

\* Both parts keep their types.
TypesOK == TypeOK /\ ConnectionTypeOK

\* Under fairness hang-ups close, handshakes end, all input is read and all
\* output written (EvdConnection), and every request for a connection is
\* answered (EvdConnectionPool).
ConnectionsProgress ==
  HupCloses /\ HandshakeEnds /\ AllRead /\ AllWritten /\ RequestsAnswered
=============================================================================
