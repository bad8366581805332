--------------------------- MODULE EvdConnection ---------------------------
(***************************************************************************)
(* EvdConnection (src/evd/evd-connection.c) with the streams stacked on    *)
(* its socket: socket, throttled and buffered input and output streams,    *)
(* and the TLS handshake that replaces the top of the stack.               *)
(*                                                                         *)
(* One connection whose EvdSocket is CONNECTED.  The kernel side is a      *)
(* receive queue rx, a send buffer with `room` free units and an edge-     *)
(* triggered poll.  Data are numbered units, so order and loss can be      *)
(* seen.  Every function is an operator from states to states; what runs   *)
(* from the main loop (poll report, timer, idle source) or is called by    *)
(* the application is one action.                                          *)
(***************************************************************************)
EXTENDS Integers, Sequences

CONSTANTS Room,       \* capacity of the kernel's send buffer
          Bandwidth,  \* units per second a throttle allows
          Setups      \* what happens around the connection, see Setup

VARIABLE conn

\* kind: throttled, close-locked by the application, or TLS as client or server;
\* eager = n > 0: the application reads n units, and again in each callback;
\* in, out: bounds on the units the peer sends and the application writes;
\* quits: the application, or an error of the socket, ends the connection.
Setup == [kind : {"plain", "throttled", "locks", "client", "server"},
          eager : 0..2, in : Nat, out : Nat, quits : BOOLEAN]

ASSUME ConnectionAssumption ==
  Setups \subseteq Setup /\ Room \in Nat /\ Bandwidth \in Nat

Least(a, b) == IF a < b THEN a ELSE b
Front(s, n) == SubSeq(s, 1, n)
Rest(s, n) == SubSeq(s, n + 1, Len(s))
Count(b) == IF b THEN 1 ELSE 0

Throttled(c) == c.setup.kind = "throttled"
Tls(c) == c.setup.kind \in {"client", "server"}

\* The streams on a connected socket.  With TLS nothing is read in the clear.
evd_connection_setup_streams(c, st) ==
  LET reads == st.kind \notin {"client", "server"} /\ st.eager > 0
  IN [c EXCEPT !.reading = IF reads THEN st.eager ELSE 0, !.do_read = reads,
               !.connected = TRUE]

\* The object as it is created, the streams and the kernel's side of its socket
\* at rest.
evd_connection_init(st) ==
  [ setup |-> st, forced |-> FALSE, closed |-> FALSE, cond |-> {},
    delayed_close |-> FALSE, close_locked |-> FALSE,
    read_src |-> FALSE, write_src |-> FALSE, close_src |-> FALSE, orphan |-> 0,
    tls |-> "off", session |-> FALSE, cred |-> FALSE, flights |-> 2, hs_rx |-> 0,
    hello |-> FALSE, deaf |-> FALSE, ref |-> 1, held |-> TRUE,
    bag |-> <<>>, ibuf |-> <<>>, got |-> <<>>, reading |-> 0, do_read |-> FALSE,
    frozen |-> FALSE, connected |-> FALSE,
    obuf |-> <<>>, written |-> 0, auto_flush |-> TRUE, flush |-> "none",
    in_budget |-> Bandwidth, out_budget |-> Bandwidth,
    sock |-> TRUE, s_cond |-> {}, edge |-> TRUE, hup |-> FALSE,
    rx |-> <<>>, sent |-> 0, room |-> Room, wire |-> <<>>,
    shut |-> FALSE, blocked |-> FALSE ]

\* evd_connection_set_socket, on a socket whose conditions are still to come.
ConnectionInit ==
  \E st \in Setups :
    conn = evd_connection_setup_streams(evd_connection_init(st), st)

(***************************************************************************)
(* Signals of the lower streams.                                           *)
(***************************************************************************)

evd_connection_close_in_idle(c) ==
  [c EXCEPT !.connected = FALSE, !.close_src = TRUE,
            !.ref = @ + Count(~c.close_src)]

\* evd_socket_watch_condition with the complement of the conditions kept: the
\* socket will not take the ones left out for old ones.
Rearm(c) == IF c.sock THEN [c EXCEPT !.s_cond = c.cond] ELSE c

\* Deviation: the condition is forgotten here but not in the socket.
NotRearmed(c) ==
  IF c.closed THEN c
  ELSE IF c.delayed_close /\ ~c.close_locked THEN evd_connection_close_in_idle(c)
  ELSE [c EXCEPT !.cond = @ \ {"in"}]

evd_connection_socket_input_stream_drained(c) ==
  IF c.closed THEN c
  ELSE IF c.delayed_close /\ ~c.close_locked THEN evd_connection_close_in_idle(c)
  ELSE Rearm([c EXCEPT !.cond = @ \ {"in"}])

evd_connection_socket_output_stream_filled(c) ==
  IF c.closed THEN c ELSE Rearm([c EXCEPT !.cond = @ \ {"out"}])

evd_connection_delay_read(c) ==
  [c EXCEPT !.read_src = TRUE, !.ref = @ + Count(~c.read_src)]

evd_connection_delay_write(c) ==
  [c EXCEPT !.write_src = TRUE, !.ref = @ + Count(~c.write_src)]

(***************************************************************************)
(* Input: socket, throttled and buffered streams.  A read returns the new  *)
(* state and the data; <<>> stands for "would block" and for end of file,  *)
(* which do_read treats alike.                                             *)
(***************************************************************************)

Read(c, data) == [c |-> c, data |-> data]

\* Deviation: the unit read ahead is dropped when the socket is drained.
DropsBag(c, n) ==
  LET k == Least(Len(c.rx), n + 1)
  IN IF k <= n
     THEN Read(evd_connection_socket_input_stream_drained(
                 [c EXCEPT !.rx = <<>>, !.bag = <<>>]), c.rx)
     ELSE Read([c EXCEPT !.rx = Rest(@, k), !.bag = <<c.rx[k]>>],
               c.bag \o Front(c.rx, k - 1))

\* One unit more than asked for is received, and kept in the bag: if it
\* arrives the socket is not drained yet.
evd_socket_input_stream_read(c, n) ==
  LET want == IF c.bag = <<>> THEN n + 1 ELSE n
      k == Least(Len(c.rx), want)
  IN IF ~c.sock THEN Read(c, <<>>)
     ELSE IF k < want
     THEN Read(evd_connection_socket_input_stream_drained(
                 [c EXCEPT !.rx = <<>>, !.bag = <<>>]),
               c.bag \o c.rx)
     ELSE Read([c EXCEPT !.rx = Rest(@, k), !.bag = <<c.rx[k]>>],
               c.bag \o Front(c.rx, k - 1))

evd_throttled_input_stream_get_max_readable_priv(c, n) ==
  IF Throttled(c) THEN Least(n, c.in_budget) ELSE n

evd_throttled_input_stream_read(c, n) ==
  LET limited == evd_throttled_input_stream_get_max_readable_priv(c, n)
      r == IF limited > 0 THEN evd_socket_input_stream_read(c, limited)
           ELSE Read(c, <<>>)
      t == [r.c EXCEPT !.in_budget = IF Throttled(c) THEN @ - Len(r.data) ELSE @]
  IN Read(IF limited < n THEN evd_connection_delay_read(t) ELSE t, r.data)

\* What was pushed back comes first.
evd_buffered_input_stream_read(c, n) ==
  LET k == Least(Len(c.ibuf), n)
      r == IF k < n THEN evd_throttled_input_stream_read(c, n - k)
           ELSE Read(c, <<>>)
  IN IF c.frozen THEN Read(c, <<>>)
     ELSE Read([r.c EXCEPT !.ibuf = Rest(@, k)], Front(c.ibuf, k) \o r.data)

\* A pending read gets its idle source back.
evd_buffered_input_stream_thaw(c) ==
  [c EXCEPT !.frozen = FALSE, !.do_read = @ \/ c.reading > 0]

\* The read is answered with data, or with an error if the socket is gone;
\* otherwise it stays pending.  The callback of an eager application reads on.
do_read ==
  /\ conn.do_read
  /\ LET r == evd_buffered_input_stream_read([conn EXCEPT !.do_read = FALSE],
                                             conn.reading)
     IN conn' = IF r.data = <<>> /\ r.c.sock THEN r.c
                ELSE IF r.data = <<>> THEN [r.c EXCEPT !.reading = 0]
                ELSE [r.c EXCEPT !.reading = conn.setup.eager,
                                 !.do_read = conn.setup.eager > 0,
                                 !.got = @ \o r.data]

evd_buffered_input_stream_read_async ==
  /\ conn.held /\ ~conn.closed /\ conn.reading = 0
  /\ Tls(conn) => conn.tls # "off"
  /\ \E n \in 1..2 :
       conn' = [conn EXCEPT !.reading = n, !.do_read = ~conn.frozen]

\* The application pushes the last unit it got back.
evd_buffered_input_stream_unread ==
  /\ conn.held /\ ~conn.closed /\ conn.setup.eager = 0
  /\ conn.got # <<>> /\ conn.ibuf = <<>> /\ ~conn.frozen
  /\ conn' = evd_buffered_input_stream_thaw(
               [conn EXCEPT !.ibuf = <<conn.got[Len(conn.got)]>>,
                            !.got = Front(@, Len(@) - 1)])

(***************************************************************************)
(* Output.  A write returns the new state and how much was taken; 0 stands *)
(* for the errors, "would block" among them.                               *)
(***************************************************************************)

evd_socket_output_stream_write(c, data) ==
  LET k == Least(c.room, Len(data))
      t == [c EXCEPT !.room = @ - k, !.wire = @ \o Front(data, k)]
  IN IF ~c.sock \/ c.shut THEN [c |-> c, n |-> 0]
     ELSE [c |-> IF k < Len(data) THEN evd_connection_socket_output_stream_filled(t)
                 ELSE t,
           n |-> k]

evd_throttled_output_stream_get_max_writable_priv(c, n) ==
  IF Throttled(c) THEN Least(n, c.out_budget) ELSE n

\* During a handshake the TLS stream in between refuses data.
evd_throttled_output_stream_write(c, data) ==
  LET limited == evd_throttled_output_stream_get_max_writable_priv(c, Len(data))
      d == IF limited < Len(data) THEN evd_connection_delay_write(c) ELSE c
      w == evd_socket_output_stream_write(d, Front(data, limited))
  IN IF c.tls = "handshaking" THEN [c |-> c, n |-> 0]
     ELSE IF limited = 0 THEN [c |-> d, n |-> 0]
     ELSE [w EXCEPT !.c.out_budget = IF Throttled(c) THEN @ - w.n ELSE @]

\* The buffer grows as needed.
evd_buffered_output_stream_fill(c, data) == [c EXCEPT !.obuf = @ \o data]

evd_buffered_output_stream_write(c, data) ==
  IF c.obuf # <<>> \/ ~c.auto_flush THEN evd_buffered_output_stream_fill(c, data)
  ELSE LET w == evd_throttled_output_stream_write(c, data)
       IN evd_buffered_output_stream_fill(w.c, Rest(data, w.n))

\* ok is FALSE when nothing at all could be written: "would block" is an
\* error here, and a flush that waits ends with it.
evd_buffered_output_stream_flush(c) ==
  LET w == evd_throttled_output_stream_write(c, c.obuf)
      t == [w.c EXCEPT !.obuf = Rest(@, w.n)]
  IN IF c.obuf = <<>> THEN [c |-> c, ok |-> TRUE]
     ELSE IF w.n = 0
     THEN [c |-> [w.c EXCEPT !.flush = IF @ = "waiting" THEN "failed" ELSE @],
           ok |-> FALSE]
     ELSE [c |-> [t EXCEPT !.flush = IF @ = "waiting" /\ t.obuf = <<>>
                                     THEN "base" ELSE @],
           ok |-> TRUE]

evd_buffered_output_stream_notify_write(c) ==
  IF c.flush = "waiting" \/ (c.auto_flush /\ c.obuf # <<>>)
  THEN evd_buffered_output_stream_flush(c).c ELSE c

\* An asynchronous flush holds the stream: GIO refuses writes meanwhile.
Write ==
  /\ conn.held /\ conn.sock /\ ~conn.closed /\ ~conn.shut /\ conn.flush = "none"
  /\ \E n \in 1..Least(2, conn.setup.out - conn.written) :
       conn' = [evd_buffered_output_stream_write(
                  conn, [i \in 1..n |-> conn.written + i])
                 EXCEPT !.written = @ + n]

evd_buffered_output_stream_flush_async(c) ==
  LET f == evd_buffered_output_stream_flush(c)
  IN [f.c EXCEPT !.flush = IF ~f.ok THEN "failed"
                           ELSE IF f.c.obuf # <<>> THEN "waiting"
                           ELSE "base"]

\* The streams below have nothing to flush and answer later.
evd_buffered_output_stream_on_base_stream_flushed ==
  /\ conn.flush = "base"
  /\ conn' = [conn EXCEPT !.flush = "done"]

\* The flush holds the connection.
evd_connection_flush_and_shutdown ==
  /\ conn.setup.quits /\ conn.held /\ ~conn.closed /\ conn.flush = "none"
  /\ ~conn.shut
  /\ conn' = [evd_buffered_output_stream_flush_async(conn)
                EXCEPT !.ref = @ + 1, !.forced = TRUE]

(***************************************************************************)
(* Closing.                                                                *)
(***************************************************************************)

Sources(c) == Count(c.read_src) + Count(c.write_src) + Count(c.close_src)

\* One reference for each source evd_connection_close_internal removes.
SourceRefs(c) == Sources(c)

\* A read that is pending is answered with an error;
evd_buffered_input_stream_close(c) == [c EXCEPT !.do_read = FALSE, !.reading = 0]

\* so is a flush, whose callback drops its reference.
evd_buffered_output_stream_close(c) ==
  IF c.flush \in {"waiting", "base"}
  THEN [c EXCEPT !.flush = "none", !.ref = @ - 1] ELSE c

\* GIO flushes the stream it closes.  A handshake is answered with an error,
\* and the socket is closed.
evd_connection_close_internal(c) ==
  LET f == evd_buffered_output_stream_flush(
             [c EXCEPT !.ref = @ - SourceRefs(c), !.write_src = TRUE]).c
      g == evd_buffered_input_stream_close(evd_buffered_output_stream_close(f))
  IN IF c.closed THEN c
     ELSE [g EXCEPT !.closed = TRUE, !.connected = FALSE, !.sock = FALSE,
                    !.close_src = FALSE, !.read_src = FALSE, !.write_src = FALSE,
                    !.tls = "off"]

\* evd_connection_close_in_idle_cb called directly: a source that waits to
\* call it loses its id, but not its reference.
CloseNow(c) ==
  evd_connection_close_internal(
    [c EXCEPT !.orphan = @ + Count(c.close_src), !.close_src = FALSE])

\* g_object_unref; the last one disposes of the stream, which closes it.
Unref(c) ==
  LET t == [c EXCEPT !.ref = @ - 1]
  IN IF t.ref = 0 THEN evd_connection_close_internal(t) ELSE t

evd_connection_close_in_idle_cb ==
  \/ /\ conn.close_src
     /\ conn' = Unref(evd_connection_close_internal([conn EXCEPT !.close_src = FALSE]))
  \/ /\ conn.orphan > 0
     /\ conn' = Unref([conn EXCEPT !.orphan = @ - 1])

\* The callback runs whether the flush succeeded or not.
evd_connection_shutdown_on_flush ==
  /\ conn.flush \in {"done", "failed"}
  /\ conn' = Unref([conn EXCEPT !.flush = "none", !.shut = TRUE,
                                !.blocked = conn.flush = "failed",
                                !.hup = TRUE, !.edge = TRUE])

(***************************************************************************)
(* TLS (src/evd/evd-tls-session.c).  GnuTLS needs two flights of the peer; *)
(* hs_rx of them have arrived.                                             *)
(***************************************************************************)

\* 0 while more is needed, 1 when done, -1 when failed.  End of file is fatal.
evd_tls_session_handshake_internal(c, fails) ==
  LET u == evd_connection_socket_input_stream_drained(
             [c EXCEPT !.flights = @ - c.hs_rx, !.hs_rx = 0, !.hello = TRUE])
  IN [c |-> u, result |-> IF fails \/ (u.hup /\ u.flights > 0) THEN -1
                          ELSE IF u.flights = 0 THEN 1 ELSE 0]

\* Until the credentials are ready GnuTLS is not called.
evd_tls_session_handshake(c, fails) ==
  LET t == [c EXCEPT !.session = TRUE]
  IN IF c.cred THEN evd_tls_session_handshake_internal(t, fails)
     ELSE [c |-> t, result |-> 0]

evd_connection_tls_handshake(c, fails) ==
  LET h == evd_tls_session_handshake(c, fails)
  IN IF c.session /\ c.read_src THEN c
     ELSE CASE h.result = 0 -> h.c
            [] h.result = 1 -> evd_buffered_input_stream_thaw(
                 evd_buffered_output_stream_notify_write(
                   [h.c EXCEPT !.tls = "on", !.auto_flush = TRUE]))
            [] h.result = -1 -> CloseNow(h.c)

\* The top of both stacks is replaced and what the old buffers hold goes with
\* them: the application starts TLS on empty buffers and between reads.  A
\* server waits for the next condition, `deaf` to one reported already.
evd_connection_starttls ==
  /\ conn.held /\ Tls(conn) /\ conn.connected /\ conn.tls = "off"
  /\ ~conn.session /\ ~conn.closed /\ conn.reading = 0 /\ conn.obuf = <<>>
  /\ conn.flush = "none"
  /\ \E fails \in BOOLEAN :
       LET c == [conn EXCEPT !.tls = "handshaking", !.frozen = TRUE,
                             !.auto_flush = FALSE, !.reading = conn.setup.eager,
                             !.deaf = conn.setup.kind = "server" /\ "in" \in conn.cond]
       IN conn' = IF conn.setup.kind = "client" /\ "out" \in c.cond
                  THEN evd_connection_tls_handshake(c, fails) ELSE c

\* The session goes on by itself and tells the connection nothing.
evd_tls_session_on_credentials_ready ==
  /\ Tls(conn) /\ ~conn.cred
  /\ LET c == [conn EXCEPT !.cred = TRUE]
     IN conn' = IF c.session /\ c.tls = "handshaking"
                THEN evd_tls_session_handshake_internal(c, FALSE).c ELSE c

(***************************************************************************)
(* Conditions and timers.                                                  *)
(***************************************************************************)

evd_connection_manage_read_condition(c, fails) ==
  IF c.tls = "handshaking" THEN evd_connection_tls_handshake(c, fails)
  ELSE evd_buffered_input_stream_thaw(c)

\* With a throttle, asking how much may be written starts the write timer.
evd_connection_manage_write_condition(c, fails) ==
  LET t == IF c.tls = "handshaking" THEN evd_connection_tls_handshake(c, fails)
           ELSE evd_buffered_output_stream_notify_write(c)
  IN IF t.closed \/ t.tls = "handshaking" \/ "out" \notin t.cond
        \/ ~Throttled(t) THEN t
     ELSE evd_connection_delay_write(t)

READ_PENDING(c) == c.reading > 0

\* Deviation: a hang-up closes although a read is pending.
ClosesOnHup(c, condition, fails) ==
  LET t == [c EXCEPT !.cond = condition]
      u == IF "in" \in condition /\ ~t.read_src
           THEN evd_connection_manage_read_condition(t, fails) ELSE t
  IN IF c.closed THEN c
     ELSE IF "hup" \in condition THEN evd_connection_close_in_idle(u)
     ELSE IF "out" \in condition /\ ~u.write_src
     THEN evd_connection_manage_write_condition(u, fails) ELSE u

\* Deviation: a hang-up is left to the read that is pending.
ForgetsHup(c, condition, fails) ==
  LET t == [c EXCEPT !.cond = condition]
      u == IF "in" \in condition /\ ~t.read_src
           THEN evd_connection_manage_read_condition(t, fails) ELSE t
  IN IF c.closed THEN c
     ELSE IF "hup" \in condition
     THEN IF u.close_locked \/ u.read_src \/ READ_PENDING(u) THEN u
          ELSE evd_connection_close_in_idle(u)
     ELSE IF "out" \in condition /\ ~u.write_src
     THEN evd_connection_manage_write_condition(u, fails) ELSE u

evd_connection_socket_on_condition(c, condition, fails) ==
  LET t == [c EXCEPT !.cond = condition]
      u == IF "in" \in condition /\ ~t.read_src
           THEN evd_connection_manage_read_condition(t, fails) ELSE t
  IN IF c.closed THEN c
     ELSE IF "hup" \in condition
     THEN IF u.close_locked \/ u.read_src \/ READ_PENDING(u)
          THEN [u EXCEPT !.delayed_close = TRUE]
          ELSE evd_connection_close_in_idle(u)
     ELSE IF "out" \in condition /\ ~u.write_src
     THEN evd_connection_manage_write_condition(u, fails) ELSE u

\* What the kernel would report now.
Level(c) ==
  {x \in {"in", "out", "hup"} :
     CASE x = "in" -> c.rx # <<>> \/ c.hs_rx > 0 \/ c.hup
       [] x = "out" -> c.room > 0 \/ c.shut
       [] x = "hup" -> c.hup}

\* EvdPoll reports an edge; evd_socket_handle_condition drops a condition
\* equal to the last.
PollReports ==
  /\ conn.edge /\ conn.sock
  /\ \E fails \in IF conn.tls = "handshaking" THEN BOOLEAN ELSE {FALSE} :
       LET c == [conn EXCEPT !.edge = FALSE]
       IN conn' = IF Level(c) = c.s_cond THEN c
                  ELSE evd_connection_socket_on_condition(
                         [c EXCEPT !.s_cond = Level(c)], Level(c), fails)

\* A throttle's timer outlasts the second it waits for.
evd_connection_read_wait_timeout ==
  /\ conn.read_src
  /\ LET c == evd_connection_manage_read_condition(
                [conn EXCEPT !.read_src = FALSE, !.in_budget = Bandwidth],
                FALSE)
     IN conn' = Unref(IF c.delayed_close /\ ~READ_PENDING(c) THEN CloseNow(c) ELSE c)

WriteTimeout(c) ==
  Unref(evd_connection_manage_write_condition(
          [c EXCEPT !.write_src = FALSE, !.out_budget = Bandwidth], FALSE))

evd_connection_write_wait_timeout == conn.write_src /\ conn' = WriteTimeout(conn)

(***************************************************************************)
(* The application, the socket, the peer and the kernel.                   *)
(***************************************************************************)

evd_connection_lock_close ==
  /\ conn.setup.kind = "locks" /\ conn.held /\ ~conn.close_locked /\ ~conn.closed
  /\ conn' = [conn EXCEPT !.close_locked = TRUE, !.forced = TRUE]

evd_connection_unlock_close ==
  /\ conn.close_locked
  /\ LET c == [conn EXCEPT !.close_locked = FALSE]
     IN conn' = IF c.delayed_close THEN evd_connection_close_in_idle(c) ELSE c

AppCloses ==
  /\ conn.setup.quits /\ conn.held /\ ~conn.closed
  /\ conn' = [evd_connection_close_internal(conn) EXCEPT !.forced = TRUE]

\* The application drops its reference, the lock it held released before.
AppUnrefs ==
  /\ conn.setup.quits /\ conn.held /\ ~conn.close_locked
  /\ conn' = Unref([conn EXCEPT !.held = FALSE, !.forced = TRUE])

\* The socket closes itself after an error.
evd_connection_socket_on_status_changed ==
  /\ conn.setup.quits /\ conn.sock
  /\ LET c == [conn EXCEPT !.sock = FALSE, !.forced = TRUE]
     IN conn' = IF c.connected THEN evd_connection_close_in_idle(c) ELSE c

PeerSends ==
  /\ conn.sock /\ ~conn.hup /\ conn.sent < conn.setup.in
  /\ Tls(conn) => conn.tls = "on"
  /\ conn' = [conn EXCEPT !.sent = @ + 1, !.rx = Append(@, conn.sent + 1),
                          !.edge = TRUE]

\* A client opens by itself, every other flight answers one of ours.
PeerHandshakes ==
  /\ Tls(conn) /\ conn.sock /\ ~conn.hup /\ conn.hs_rx = 0
  /\ conn.flights > 0
  /\ (conn.setup.kind = "server" /\ conn.flights = 2) \/ conn.hello
  /\ conn' = [conn EXCEPT !.hs_rx = 1, !.edge = TRUE]

PeerCloses ==
  /\ conn.sock /\ ~conn.hup
  /\ conn' = [conn EXCEPT !.hup = TRUE, !.edge = TRUE]

\* The kernel sends: the whole send buffer becomes free again.
KernelSends ==
  /\ conn.sock /\ conn.room < Room
  /\ conn' = [conn EXCEPT !.room = Room, !.edge = TRUE]

ConnectionNext ==
  \/ do_read \/ evd_buffered_input_stream_read_async
  \/ evd_buffered_input_stream_unread
  \/ Write \/ evd_connection_flush_and_shutdown
  \/ evd_buffered_output_stream_on_base_stream_flushed
  \/ evd_connection_shutdown_on_flush \/ evd_connection_close_in_idle_cb
  \/ evd_connection_starttls \/ evd_tls_session_on_credentials_ready
  \/ PollReports \/ evd_connection_read_wait_timeout
  \/ evd_connection_write_wait_timeout
  \/ evd_connection_lock_close \/ evd_connection_unlock_close
  \/ AppCloses \/ AppUnrefs \/ evd_connection_socket_on_status_changed
  \/ PeerSends \/ PeerHandshakes \/ PeerCloses \/ KernelSends

ConnectionSpec == ConnectionInit /\ [][ConnectionNext]_conn

(***************************************************************************)
(* Properties.                                                             *)
(***************************************************************************)

Numbers(n) == [i \in 1..n |-> i]

ConnectionState ==
  [ setup : Setup, forced : BOOLEAN, closed : BOOLEAN, cond : SUBSET {"in", "out", "hup"},
    delayed_close : BOOLEAN, close_locked : BOOLEAN,
    read_src : BOOLEAN, write_src : BOOLEAN, close_src : BOOLEAN, orphan : Nat,
    tls : {"off", "handshaking", "on"}, session : BOOLEAN, cred : BOOLEAN,
    flights : 0..2, hs_rx : 0..1, hello : BOOLEAN, deaf : BOOLEAN, ref : Int, held : BOOLEAN,
    bag : Seq(Nat), ibuf : Seq(Nat), got : Seq(Nat), reading : 0..2, do_read : BOOLEAN,
    frozen : BOOLEAN, connected : BOOLEAN,
    obuf : Seq(Nat), written : Nat, auto_flush : BOOLEAN,
    flush : {"none", "waiting", "base", "done", "failed"},
    in_budget : Nat, out_budget : Nat,
    sock : BOOLEAN, s_cond : SUBSET {"in", "out", "hup"}, edge : BOOLEAN, hup : BOOLEAN,
    rx : Seq(Nat), sent : Nat, room : 0..Room, wire : Seq(Nat),
    shut : BOOLEAN, blocked : BOOLEAN ]

ConnectionTypeOK == conn \in ConnectionState /\ conn.ref >= 0

\* Through look-ahead, throttling, push-back and TLS the application gets the
\* peer's data in order, without loss and without repetition.
InputInOrder == conn.got \o conn.ibuf \o conn.bag \o conn.rx = Numbers(conn.sent)

\* Whatever was refused by the kernel or the throttle, the wire carries the
\* data in the order they were written and the rest is still buffered.
OutputInOrder == conn.wire \o conn.obuf = Numbers(conn.written)

\* Both directions of the stream.
DataKept == InputInOrder /\ OutputInOrder

\* The poll is edge-triggered and the socket drops repeated conditions, yet a
\* pending read is never left alone with data: its idle source, the throttle's
\* timer, or a condition the socket will not drop is on its way.
NoLostRead ==
  conn.reading > 0 /\ conn.tls # "handshaking" /\ conn.sock
    /\ conn.rx \o conn.bag \o conn.ibuf # <<>>
  => \/ conn.do_read \/ conn.read_src
     \/ (conn.edge /\ Level(conn) # conn.s_cond)

\* The same for data that wait in the output buffer while the kernel has room.
NoLostWrite ==
  conn.obuf # <<>> /\ conn.tls # "handshaking" /\ conn.sock
    /\ ~conn.hup /\ conn.room > 0
  => conn.write_src \/ (conn.edge /\ Level(conn) # conn.s_cond)

\* Nobody waits for a condition that was used up (evd_connection_socket_on_condition
\* and the drained and filled callbacks of the socket streams).
NoLostWakeup == NoLostRead /\ NoLostWrite

\* Every timer, idle source and flush in flight holds one reference, closing
\* included, so no callback finds the connection freed and none leaks it.
RefsMatch ==
  conn.ref = Count(conn.held) + Sources(conn) + conn.orphan
             + Count(conn.flush # "none")

\* A closed connection has no timer left and has answered every operation; at
\* most an idle source that closes it again is still to run.
ClosedIsQuiet ==
  conn.closed => /\ ~conn.read_src /\ ~conn.write_src /\ ~conn.do_read /\ conn.reading = 0
                 /\ conn.flush \notin {"waiting", "base"} /\ conn.tls = "off"

\* evd_connection_flush_and_shutdown shuts down an empty buffer, unless the
\* flush failed: see "blocked" (a socket that takes nothing fails it).
FlushedFirst == conn.shut /\ ~conn.blocked /\ ~conn.closed => conn.obuf = <<>>

\* An application that always has a read pending gets everything the peer
\* sent before it hung up, although the hang-up is reported with the data.
TailDelivered ==
  conn.closed /\ conn.hup /\ conn.setup.eager > 0 /\ ~conn.forced /\ ~Tls(conn)
  => Len(conn.got) = conn.sent

\* However a connection comes to its end, nothing is left running, referenced,
\* unflushed or unread that should not be.
CloseIsClean == RefsMatch /\ ClosedIsQuiet /\ FlushedFirst /\ TailDelivered

\* A hang-up that was put off (lock, timer or pending read) closes in the end.
HupCloses == (conn.hup /\ conn.setup.eager > 0 /\ ~conn.deaf) ~> conn.closed

\* A handshake ends, whenever the credentials become ready, unless the server
\* was started on a condition reported before.
HandshakeEnds ==
  (conn.tls = "handshaking" /\ ~conn.deaf) ~> conn.tls # "handshaking"

\* What the peer sends gets to an application that keeps reading.
AllRead ==
  (Len(conn.got) < conn.sent /\ conn.setup.eager > 0)
    ~> (Len(conn.got) = conn.sent \/ conn.closed)

\* What is written leaves the buffer for the wire, unless the connection ends.
AllWritten ==
  (conn.obuf # <<>> /\ ~conn.deaf)
    ~> (conn.obuf = <<>> \/ conn.closed \/ conn.shut \/ conn.hup)
=============================================================================
