--------------------------- MODULE EvdWebsocket ---------------------------
(***************************************************************************)
(* A WebSocket connection between an EvdWebsocketClient and an             *)
(* EvdWebsocketServer: framing and closing handshake                       *)
(* (evd-websocket-protocol.c), the two transports (evd-websocket-client.c, *)
(* evd-websocket-server.c) and the calls of EvdTransport that reach them   *)
(* (evd-transport.c).  Peers are the applications' handles of the other    *)
(* end; each is linked with the connection in both directions.             *)
(*                                                                         *)
(* Frames are sequences of bytes; a read returns all that has arrived or   *)
(* one of the sizes in Pieces.  The HTTP part of the handshake is one      *)
(* request and one response (see EvdHttpConnection).                       *)
(***************************************************************************)
EXTENDS Integers, Sequences, SequencesExt, Bitwise

CONSTANTS
  MAX_LEN7,            \* 125: longest payload with its length in the header
  MAXUINT16,           \* G_MAXUINT16
  MAX_FRAGMENT_SIZE,
  Keys,                \* masking keys, of four bytes
  Setups               \* see Setup

VARIABLE ws

Ends == {"client", "server"}
Other(e) == IF e = "client" THEN "server" ELSE "client"

\* msgs: lengths of the messages each application sends (an empty one is taken
\* and no frame is made of it, see Fragments); pieces: sizes of short reads; verdict: how each application validates its peer; names: the request
\* names a peer that the server has ("known") or has not ("unknown"), or none
\* and the server takes new peers ("standalone"); closes: the ends whose
\* application closes its peer; faults: "cut", the network may fail; "refused",
\* there is no connection.
Setup == [msgs : [Ends -> Seq(Nat \ {0})], pieces : SUBSET Nat,
          verdict : [Ends -> {"ACCEPT", "REJECT", "PENDING"}],
          names : {"known", "unknown", "standalone"},
          closes : SUBSET Ends, faults : SUBSET {"cut", "refused"}]

\* The n-th message, if it is len bytes long.
Message(n, len) == [k \in 1..len |-> (n + k) % 4]

(***************************************************************************)
(* Frames.                                                                 *)
(***************************************************************************)

OPCODE_CONTINUATION == 0
OPCODE_BINARY_FRAME == 2
OPCODE_CLOSE == 8

apply_masking(frame, key) == [i \in 1..Len(frame) |-> frame[i] ^^ key[((i - 1) % 4) + 1]]

\* n < 2^16 as `size' bytes, the most significant first.
BigEndian(n, size) ==
  [i \in 1..size |-> CASE i = size -> n % 256 [] i = size - 1 -> n \div 256 [] OTHER -> 0]
FromBigEndian(bytes) == FoldLeft(LAMBDA v, b : 256 * v + b, 0, bytes)

\* A masked frame has the key of its own.
build_frame(fin, opcode, key, payload) ==
  LET len == Len(payload)
      masked == key # <<>>
      len7 == IF len <= MAX_LEN7 THEN len ELSE IF len < MAXUINT16 THEN 126 ELSE 127
  IN <<(IF fin THEN 128 ELSE 0) + opcode, (IF masked THEN 128 ELSE 0) + len7>>
     \o (CASE len7 = 126 -> BigEndian(len, 2) [] len7 = 127 -> BigEndian(len, 8) [] OTHER -> <<>>)
     \o key \o (IF masked THEN apply_masking(payload, key) ELSE payload)

\* The frames of a message from position `done' on.
RECURSIVE Fragments(_, _, _)
Fragments(msg, done, key) ==
  LET left == Len(msg) - done
      n == Min({MAX_FRAGMENT_SIZE, left})
  IN IF left = 0 THEN <<>>
     ELSE build_frame(n >= left, IF done = 0 THEN OPCODE_BINARY_FRAME ELSE OPCODE_CONTINUATION,
                      key, SubSeq(msg, done + 1, done + n))
          \o Fragments(msg, done + n, key)

(***************************************************************************)
(* One end.  data of the protocol: state to timer; conn: the stream;       *)
(* watch: the client's handler of "close" is connected; peer: "none",      *)
(* "validating", "known", "closed" or "rejected"; link: the peer has the   *)
(* connection (PEER_DATA_KEY); back: the connection has the peer           *)
(* (CONN_DATA_KEY); closes: emissions of peer-closed; told: calls of       *)
(* close_cb; reopened: the server's application accepted a peer it had     *)
(* closed; lost: a message was written to a closed stream; noPeer,         *)
(* noCallback: the process ended for want of a peer or of a callback.      *)
(***************************************************************************)

setup_connection ==
  [ state |-> "NONE", reading_state |-> "IDLE", reading |-> FALSE, bound |-> FALSE,
    buf |-> <<>>, fin |-> FALSE, opcode |-> 0, masked |-> FALSE, payload_len |-> 0,
    masking_key |-> <<>>, close_frame_sent |-> FALSE, close_frame_received |-> FALSE,
    timer |-> FALSE, flushing |-> FALSE, conn |-> "none", watch |-> FALSE,
    validating |-> FALSE, open |-> "none", peer |-> "none", link |-> FALSE, back |-> FALSE, backlog |-> <<>>,
    sent |-> <<>>, got |-> <<>>, closes |-> 0, told |-> 0, graceful |-> FALSE, reopened |-> FALSE,
    lost |-> FALSE, noPeer |-> FALSE, noCallback |-> FALSE ]

Init ==
  \E st \in Setups :
    ws = [ setup |-> st, http |-> "none", cut |-> FALSE, pipe |-> [e \in Ends |-> <<>>],
           end |-> [e \in Ends |-> [setup_connection EXCEPT !.peer =
                      IF e = "server" /\ st.names = "known" THEN "known" ELSE "none"]] ]

(***************************************************************************)
(* Closing.  The operators take the state and an end and give the state.   *)
(***************************************************************************)

Set(w, e, d) == [w EXCEPT !.end[e] = d]
Write(w, e, bytes) ==
  IF w.end[e].conn # "open" \/ w.cut \/ w.end[Other(e)].conn = "closed" THEN w
  ELSE [w EXCEPT !.pipe[Other(e)] = @ \o bytes]

\* The process of e ends, and its connections with it.
Alive(w, e) == ~w.end[e].noPeer /\ ~w.end[e].noCallback
Crash(w, e, why) ==
  [w EXCEPT !.end[e] = [@ EXCEPT ![why] = TRUE, !.conn = "closed", !.reading = FALSE],
            !.pipe[e] = <<>>]

\* The key of a client's frame.
KeyOf(e, key) == IF e = "client" THEN key ELSE <<>>

\* The frame is answered within the grace period, or answers one.
evd_websocket_protocol_close(w, e, key) ==
  LET d == w.end[e]
      t == [d EXCEPT !.state = "CLOSING", !.close_frame_sent = TRUE,
                     !.flushing = d.close_frame_received, !.timer = ~d.close_frame_received]
  IN IF d.state \in {"CLOSING", "CLOSED"} THEN w
     ELSE Write(Set(w, e, t), e, build_frame(TRUE, OPCODE_CLOSE, KeyOf(e, key), <<>>))

\* peer_closed of the client, evd_websocket_server_peer_closed.
peer_closed(w, e, key) ==
  LET v == IF w.end[e].conn = "open" THEN evd_websocket_protocol_close(w, e, key) ELSE w
  IN IF ~w.end[e].link THEN w
     ELSE [v EXCEPT !.end[e].link = FALSE, !.end[e].back = FALSE]

\* The peer is closed in between, in its manager and by evd_peer_close.
evd_transport_close_peer(w, e, key) ==
  LET v == peer_closed([w EXCEPT !.end[e].peer = "closed"], e, key)
  IN [v EXCEPT !.end[e].closes = @ + 1]

\* on_close_requested of the server: a peer that was not closed gracefully may
\* come back with another connection.
ServerCloseRequested(w, gracefully) ==
  IF ~w.end["server"].back THEN w
  ELSE IF gracefully
  THEN evd_transport_close_peer([w EXCEPT !.end["server"].graceful = TRUE], "server", <<>>)
  ELSE [w EXCEPT !.end["server"].link = FALSE]

\* on_close_requested of the client.  retry_connection is still to be written.
ClientCloseRequested(w, gracefully, key) ==
  LET v == [w EXCEPT !.end["client"].watch = FALSE]
  IN IF ~w.end["client"].back \/ ~gracefully THEN v
     ELSE evd_transport_close_peer([v EXCEPT !.end["client"].graceful = TRUE], "client", key)

close_cb(w, e, gracefully, key) ==
  LET v == [w EXCEPT !.end[e].told = @ + 1]
  IN IF e = "client" THEN ClientCloseRequested(v, gracefully, key)
     ELSE ServerCloseRequested(v, gracefully)

\* on_connection_closed of the client, with evd_websocket_protocol_unbind.  In
\* the server evd_websocket_server_remove finds the connection without a group,
\* and does nothing.
io_stream_group_remove(w, e, key) ==
  LET d == w.end[e]
      v == [w EXCEPT !.end[e].bound = FALSE, !.end[e].watch = FALSE]
  IN IF ~d.back THEN v
     ELSE evd_transport_close_peer([v EXCEPT !.end[e].link = FALSE, !.end[e].back = FALSE], e, key)

\* evd_http_connection_close: a read is answered with an error, which is not
\* looked at, and "close" emitted.
g_io_stream_close(w, e, key) ==
  LET v == [w EXCEPT !.end[e].conn = "closed", !.end[e].reading = FALSE, !.pipe[e] = <<>>]
  IN IF w.end[e].conn # "open" THEN w
     ELSE IF w.end[e].watch THEN io_stream_group_remove(v, e, key) ELSE v

\* Deviation: the stream is left to the other end.
LeavesStream(w, e, key) ==
  LET v == [w EXCEPT !.end[e].state = "CLOSED", !.end[e].timer = FALSE]
  IN IF v.end[e].bound THEN close_cb(v, e, TRUE, key) ELSE v

\* The frame that was received had no status: the close is graceful.
finish_close_handshake(w, e, key) ==
  LET v == [w EXCEPT !.end[e].state = "CLOSED", !.end[e].timer = FALSE]
  IN g_io_stream_close(IF v.end[e].bound THEN close_cb(v, e, TRUE, key) ELSE v, e, key)

\* Deviation: the answer to a close frame is not flushed, but followed by the
\* close of the stream.
NeverAnswers(w, e, key) ==
  finish_close_handshake([w EXCEPT !.end[e].close_frame_received = TRUE], e, key)

on_close_frame_received(w, e, key) ==
  LET v == [w EXCEPT !.end[e].close_frame_received = TRUE]
  IN IF v.end[e].state = "CLOSING" THEN finish_close_handshake(v, e, key)
     ELSE evd_websocket_protocol_close(v, e, key)

(***************************************************************************)
(* Reading.  buf has what follows data->offset.                            *)
(***************************************************************************)

Skip(d, n) == [d EXCEPT !.buf = SubSeq(d.buf, n + 1, Len(d.buf))]

read_header(d) ==
  LET len == d.buf[2] % 128
      masked == d.buf[2] >= 128
  IN [Skip(d, 2) EXCEPT !.fin = d.buf[1] >= 128, !.opcode = d.buf[1] % 16,
                        !.masked = masked, !.payload_len = len,
                        !.reading_state = IF len > MAX_LEN7 THEN "PAYLOAD_LEN"
                                          ELSE IF masked THEN "MASKING_KEY" ELSE "PAYLOAD"]

LenSize(d) == IF d.payload_len = 126 THEN 2 ELSE 8

\* Deviation: the key is forgotten after a long length.
ForgetsKey(d) ==
  [Skip(d, LenSize(d)) EXCEPT !.payload_len = FromBigEndian(SubSeq(d.buf, 1, LenSize(d))),
                              !.reading_state = "PAYLOAD"]

read_payload_len(d) ==
  [Skip(d, LenSize(d)) EXCEPT !.payload_len = FromBigEndian(SubSeq(d.buf, 1, LenSize(d))),
                              !.reading_state = IF d.masked THEN "MASKING_KEY" ELSE "PAYLOAD"]

read_masking_key(d) ==
  [Skip(d, 4) EXCEPT !.masking_key = SubSeq(d.buf, 1, 4), !.reading_state = "PAYLOAD"]

evd_transport_receive_internal(w, e, frame) == [w EXCEPT !.end[e].got = Append(@, frame)]

\* on_frame_received of the client, which takes the peer for granted, and of
\* the server, which does not.
ClientReceives(w, frame) ==
  IF ~w.end["client"].back THEN Crash(w, "client", "noPeer")
  ELSE evd_transport_receive_internal(w, "client", frame)
ServerReceives(w, frame) ==
  IF ~w.end["server"].back \/ w.end["server"].peer = "closed" THEN w
  ELSE evd_transport_receive_internal(w, "server", frame)

frame_cb(w, e, frame) ==
  IF e = "client" THEN ClientReceives(w, frame) ELSE ServerReceives(w, frame)

\* A fragment, a ping or a pong ends the connection.
read_payload(w, e, key) ==
  LET d == w.end[e]
      raw == SubSeq(d.buf, 1, d.payload_len)
      frame == IF d.masked THEN apply_masking(raw, d.masking_key) ELSE raw
      v == Set(w, e, [Skip(d, d.payload_len) EXCEPT !.reading_state = "IDLE"])
  IN IF d.opcode = OPCODE_CLOSE THEN on_close_frame_received(v, e, key)
     ELSE IF d.opcode < OPCODE_CLOSE /\ d.fin THEN frame_cb(v, e, frame)
     ELSE g_io_stream_close([v EXCEPT !.end[e].state = "CLOSED"], e, key)

\* What the current reading state waits for.
Needs(d) == CASE d.reading_state = "IDLE" -> 2
              [] d.reading_state = "PAYLOAD_LEN" -> LenSize(d)
              [] d.reading_state = "MASKING_KEY" -> 4
              [] d.reading_state = "PAYLOAD" -> d.payload_len

\* An empty payload is there as soon as the header or the key is.
RECURSIVE process_data(_, _, _)
process_data(w, e, key) ==
  LET d == w.end[e]
      r == CASE d.reading_state = "IDLE" -> read_header(d)
             [] d.reading_state = "PAYLOAD_LEN" -> read_payload_len(d)
             [] d.reading_state = "MASKING_KEY" -> read_masking_key(d)
  IN IF ~Alive(w, e) \/ d.state = "CLOSED" \/ Len(d.buf) < Needs(d) THEN w
     ELSE process_data(IF d.reading_state = "PAYLOAD" THEN read_payload(w, e, key) ELSE Set(w, e, r),
                       e, key)

on_connection_read(w, e, data, key) ==
  LET v == process_data([w EXCEPT !.end[e].buf = @ \o data, !.end[e].reading = FALSE], e, key)
      d == v.end[e]
  IN [v EXCEPT !.end[e].reading = d.state # "CLOSED" /\ d.conn = "open"]

(***************************************************************************)
(* Sending.                                                                *)
(***************************************************************************)

\* evd_websocket_protocol_send: whether it takes the message.
Takes(d) == d.link /\ d.state \notin {"CLOSING", "CLOSED"}

\* A write that fails passes for one that does not.
send_data_frame(w, e, msg, key) ==
  IF w.end[e].conn = "open" THEN Write(w, e, Fragments(msg, 0, KeyOf(e, key)))
  ELSE [w EXCEPT !.end[e].lost = TRUE]

evd_peer_push_message(w, e, msg) == [w EXCEPT !.end[e].backlog = Append(@, msg)]

\* evd_transport_send: what the transport does not take goes to the backlog.
send_frame(w, e, msg, key) ==
  LET v == [w EXCEPT !.end[e].sent = Append(@, msg)]
  IN IF Takes(w.end[e]) THEN send_data_frame(v, e, msg, key)
     ELSE evd_peer_push_message(v, e, msg)

(***************************************************************************)
(* Peers.                                                                  *)
(***************************************************************************)

\* evd_websocket_protocol_bind
Bind(w, e) == [w EXCEPT !.end[e].bound = TRUE, !.end[e].reading = w.end[e].conn = "open"]

\* Only the server has a backlog for a peer that connects.  Nothing looks
\* whether the peer was closed while it was validated, and it is linked all the
\* same (if the application keeps it).
on_websocket_connection_ready(w, e, key) ==
  LET v == Bind([w EXCEPT !.end[e].peer = IF @ = "closed" THEN @ ELSE "known",
                          !.end[e].reopened = w.end[e].peer = "closed",
                          !.end[e].link = TRUE, !.end[e].back = TRUE], e)
  IN IF e = "client" \/ ~Takes(v.end[e]) THEN v
     ELSE FoldLeft(LAMBDA u, msg : send_data_frame(u, e, msg, key),
                   [v EXCEPT !.end[e].backlog = <<>>], v.end[e].backlog)

\* transport_reject_peer of the client.
Reject(w, e, key) ==
  evd_websocket_protocol_close([w EXCEPT !.end[e].peer = "rejected", !.end[e].link = FALSE,
                                         !.end[e].back = FALSE], e, key)

\* The client's peer has the connection while it is validated.
resolve_peer_and_validate(w, key) ==
  LET verdict == w.setup.verdict["client"]
      v == [w EXCEPT !.end["client"].link = TRUE, !.end["client"].back = TRUE]
  IN CASE verdict = "ACCEPT" -> on_websocket_connection_ready(v, "client", key)
       [] verdict = "REJECT" -> Reject(v, "client", key)
       [] verdict = "PENDING" -> [v EXCEPT !.end["client"].validating = TRUE]

\* The end of the server's request handler.  A rejected peer is answered with a
\* second response, which is not followed further.
ServerValidates(w) ==
  IF w.setup.verdict["server"] = "ACCEPT" THEN on_websocket_connection_ready(w, "server", <<>>)
  ELSE [w EXCEPT !.end["server"].validating = TRUE]

(***************************************************************************)
(* Steps.                                                                  *)
(***************************************************************************)

\* transport_open, and the connection of the pool.
Open ==
  /\ ws.end["client"].open = "none"
  /\ ws' = [ws EXCEPT !.end["client"].open = "opening"]

\* on_connection, start_opening_handshake: the request is written.  Without a
\* connection nothing more is done (retry_connection).
on_connection ==
  /\ ws.end["client"].open = "opening" /\ ws.http = "none"
  /\ \/ "refused" \in ws.setup.faults /\ ws' = [ws EXCEPT !.http = "refused"]
     \/ ws' = [ws EXCEPT !.http = "sending", !.end["client"].conn = "open",
                         !.end["client"].watch = TRUE, !.end["server"].conn = "open"]

\* The request was written and its response is awaited, or the connection was
\* lost before: then nothing more is done (retry_connection), and the caller of
\* evd_transport_open is not told.  What is written to a network that failed may
\* pass for sent.
on_handshake_sent ==
  LET open == ws.end["client"].conn = "open"
  IN /\ ws.http = "sending"
     /\ \/ open /\ ws' = [ws EXCEPT !.http = IF ws.cut THEN "done" ELSE "request"]
        \/ (~open \/ ws.cut) /\ ws' = [ws EXCEPT !.http = "unsent"]

\* evd_websocket_server_request_handler
request_handler ==
  LET v == [ws EXCEPT !.http = "switching", !.end["server"].state = "OPENED"]
      lookup_peer == ws.setup.names = "known" /\ ws.end["server"].peer # "closed"
  IN /\ ws.http = "request" /\ ws.end["server"].conn = "open"
     /\ ws' = IF ~lookup_peer /\ ws.setup.names # "standalone" THEN [ws EXCEPT !.http = "error"]
              ELSE ServerValidates(v)

\* evd_websocket_protocol_handle_handshake_response in between.
on_handshake_response(key) ==
  LET v == [ws EXCEPT !.http = "done"]
      u == resolve_peer_and_validate([v EXCEPT !.end["client"].state = "OPENED"], key)
  IN /\ ws.http \in {"switching", "error"} /\ ws.end["client"].conn = "open"
     /\ ws' = IF ws.http = "error" THEN [v EXCEPT !.end["client"].open = "failed"]
              ELSE [u EXCEPT !.end["client"].open = "opened"]

Deciding(w, e) ==
  Alive(w, e) /\ w.end[e].validating /\ (e = "client" => w.end[e].link)

\* evd_transport_accept_peer and evd_transport_reject_peer, by the application.
\* The server's peer has no connection before; the client's may have lost its.
ClientDecides(key) ==
  LET v == [ws EXCEPT !.end["client"].validating = FALSE]
  IN /\ Deciding(ws, "client")
     /\ ws' \in {on_websocket_connection_ready(v, "client", key), Reject(v, "client", key)}
ServerDecides ==
  /\ Deciding(ws, "server")
  /\ ws' = on_websocket_connection_ready([ws EXCEPT !.end["server"].validating = FALSE], "server", <<>>)

AppDecides(e, key) == IF e = "client" THEN ClientDecides(key) ELSE ServerDecides

\* evd_peer_send, by the application.
AppSends(e, key) ==
  LET n == Len(ws.end[e].sent) + 1
  IN /\ Alive(ws, e) /\ ws.end[e].peer \in {"known", "closed"}
     /\ n <= Len(ws.setup.msgs[e])
     /\ ws' = send_frame(ws, e, Message(n, ws.setup.msgs[e][n]), key)

\* evd_peer_close, by the application, which knows a peer that it validates.
AppCloses(e, key) ==
  /\ Alive(ws, e) /\ e \in ws.setup.closes
  /\ ws.end[e].peer = "known" \/ (ws.end[e].peer = "none" /\ ws.end[e].validating)
  /\ ws' = evd_transport_close_peer(ws, e, key)

\* The stream has bytes for a pending read.
Read(e, key) ==
  LET in == ws.pipe[e]
  IN /\ ws.end[e].reading /\ in # <<>>
     /\ \E n \in {k \in ws.setup.pieces : k < Len(in)} \cup {Len(in)} :
          ws' = on_connection_read([ws EXCEPT !.pipe[e] = SubSeq(in, n + 1, Len(in))],
                                   e, SubSeq(in, 1, n), key)

on_connection_flushed(e, key) ==
  /\ Alive(ws, e) /\ ws.end[e].flushing
  /\ ws' = finish_close_handshake([ws EXCEPT !.end[e].flushing = FALSE], e, key)

\* Unbound, the end has no callback to call.
close_timeout(e, key) ==
  LET v == [ws EXCEPT !.end[e].timer = FALSE, !.end[e].state = "CLOSED"]
  IN /\ Alive(ws, e) /\ ws.end[e].timer
     /\ ws' = IF ~ws.end[e].bound THEN Crash(v, e, "noCallback")
              ELSE g_io_stream_close(close_cb(v, e, FALSE, key), e, key)

\* The stream of e ends when the other was closed and all was read, or when
\* the network fails.
HungUp(w, e) ==
  /\ w.end[e].conn = "open"
  /\ \/ w.cut
     \/ /\ w.end[Other(e)].conn = "closed" /\ (w.pipe[e] = <<>> \/ ~w.end[e].reading)
        /\ ~(e = "client" /\ w.http \in {"switching", "error"})

\* evd_connection_close.  The client's read of the response is answered with an
\* error, and so is the write of its request (on_handshake_sent).
HangUp(e, key) ==
  LET v == IF e = "client" /\ ws.end[e].open = "opening" /\ ws.http \notin {"sending", "unsent"}
           THEN [ws EXCEPT !.end[e].open = "failed", !.http = "done"] ELSE ws
  IN /\ HungUp(ws, e)
     /\ ws' = g_io_stream_close(v, e, key)

\* The network fails, and what was under way is lost.
Cut ==
  /\ "cut" \in ws.setup.faults /\ ~ws.cut /\ \E e \in Ends : ws.end[e].conn = "open"
  /\ ws' = [ws EXCEPT !.cut = TRUE, !.http = IF @ \in {"none", "sending"} THEN @ ELSE "done", !.pipe = [e \in Ends |-> <<>>]]

EndStep(e, key) ==
  \/ Read(e, key) \/ on_connection_flushed(e, key) \/ HangUp(e, key)
  \/ (e = "client" /\ on_handshake_response(key)) \/ (e = "server" /\ request_handler)

Next ==
  \/ Open \/ on_connection \/ on_handshake_sent \/ Cut
  \/ \E e \in Ends, key \in Keys :
       EndStep(e, key) \/ close_timeout(e, key) \/ AppDecides(e, key) \/ AppSends(e, key)
       \/ AppCloses(e, key)

Spec == Init /\ [][Next]_ws

\* When the loop of e has something to do.
Busy(e) ==
  LET d == ws.end[e]
  IN \/ d.reading /\ ws.pipe[e] # <<>>
     \/ Alive(ws, e) /\ d.flushing
     \/ HungUp(ws, e)
     \/ d.conn = "open" /\ ws.http \in (IF e = "client" THEN {"switching", "error"} ELSE {"request"})

\* The main loops run and the network delivers or fails for good; the timer
\* fires; the application decides about its peer sooner or later.  The guards
\* are those of the actions, written out.
Fairness ==
  /\ []<>~(ws.end["client"].open = "opening" /\ ws.http = "none") \/ []<><<on_connection>>_ws
  /\ []<>~(ws.http = "sending") \/ []<><<on_handshake_sent>>_ws
  /\ \A e \in Ends :
       /\ []<>~Busy(e) \/ []<><<\E key \in Keys : EndStep(e, key)>>_ws
       /\ []<>~(Alive(ws, e) /\ ws.end[e].timer) \/ []<><<\E key \in Keys : close_timeout(e, key)>>_ws
       /\ []<>~Deciding(ws, e) \/ []<><<\E key \in Keys : AppDecides(e, key)>>_ws

(***************************************************************************)
(* Properties.                                                             *)
(***************************************************************************)

EndStates ==
  [state : {"NONE", "OPENED", "CLOSING", "CLOSED"},
   reading_state : {"IDLE", "PAYLOAD_LEN", "MASKING_KEY", "PAYLOAD"},
   peer : {"none", "known", "closed", "rejected"}, conn : {"none", "open", "closed"},
   open : {"none", "opening", "opened", "failed"}]

\* Each end is in one of the states of evd-websocket-protocol.h, a timer or a
\* flush is pending only while it closes, and a read only on an open stream.
TypeOK ==
  \A e \in Ends :
    LET d == ws.end[e]
    IN /\ [f \in {"state", "reading_state", "peer", "conn", "open"} |-> d[f]] \in EndStates
       /\ d.timer \/ d.flushing => d.state = "CLOSING" \/ ~Alive(ws, e)
       /\ d.reading => d.conn = "open"

\* What a transport promises.
Channel == INSTANCE EvdMessageChannel WITH
             sent <- [e \in Ends |-> ws.end[e].sent], got <- [e \in Ends |-> ws.end[e].got],
             closed <- [e \in Ends |-> ws.end[e].peer = "closed"]

\* However frames are cut into reads, masked, fragmented or kept in a backlog,
\* each application receives the other's messages whole, in order and once, and
\* none from a peer that was closed (read_payload, on_frame_received).
IsMessageChannel == Channel!Spec

\* An application is told once that its peer is closed, whether it closes the
\* peer, the other end does or the connection breaks off: the close frame, the
\* answer to it and the end of the stream all lead to evd_transport_close_peer.
\* A peer that the server's application closes while it validates it, and then
\* accepts, is closed once more with its connection.
ClosedOnce ==
  \A e \in Ends :
    LET d == ws.end[e]
    IN d.closes <= (IF d.reopened THEN 2 ELSE 1) /\ d.told <= 1 /\ (d.reopened => e = "server")

\* When the protocol closes a peer gracefully (on_close_requested), both ends
\* have sent their close frames, and the application has received every message
\* that the other end's transport took before, unless it had closed the peer
\* already.
GracefulIsComplete ==
  \A e \in Ends :
    LET o == ws.end[Other(e)]
    IN ws.end[e].graceful =>
         /\ ws.end[e].close_frame_sent /\ o.close_frame_sent
         /\ ws.end[e].reopened \/ Len(ws.end[e].got) = Len(o.sent) - Len(o.backlog)

\* A connection has a peer exactly when the peer has the connection: neither is
\* left with a pointer to the other (peer_closed, io_stream_group_remove).
LinkedBothWays == \A e \in Ends : ws.end[e].link = ws.end[e].back

\* A process ends for want of a callback only when the client rejected its
\* peer or closed it while it validated it, or lost the connection while it was
\* closing (close_timeout).
CallbackMissing ==
  \A e \in Ends : ws.end[e].noCallback =>
    e = "client" /\ (ws.end[e].peer = "rejected" \/ ws.end[e].validating \/ ws.cut \/ ~Alive(ws, "server")
                     \/ ws.end["server"].state = "CLOSED")

\* Nothing in the setup stands in the way of a message.
Untroubled(st) ==
  /\ st.closes = {} /\ st.faults = {} /\ st.names # "unknown" /\ st.verdict["client"] = "ACCEPT"
  /\ \A e \in Ends : \A i \in 1..Len(st.msgs[e]) : st.msgs[e][i] <= MAX_FRAGMENT_SIZE

\* The end of a WebSocket, from whichever side and however disturbed.
ClosingKept == ClosedOnce /\ GracefulIsComplete /\ LinkedBothWays /\ CallbackMissing

\* Once the client opens, what an application sends arrives, also what it sent
\* while the server had no connection or had not decided about the peer.
AllArrive ==
  \A e \in Ends : \A n \in 1..2 :
    (Untroubled(ws.setup) /\ ws.end["client"].open # "none" /\ Len(ws.end[e].sent) >= n)
      ~> (Len(ws.end[Other(e)].got) >= n)

\* An end that closes, answers a close or rejects has its stream closed in the
\* end, by the handshake or by the grace period, whatever becomes of the other
\* end (evd_websocket_protocol_close).
ClosingEnds == \A e \in Ends : (ws.end[e].state = "CLOSING") ~> (ws.end[e].conn = "closed")

\* evd_transport_open is answered, unless there was no connection, or it was lost
\* before the request was written: where retry_connection is still to be written.
OpenIsAnswered ==
  (ws.end["client"].open = "opening")
    ~> (ws.end["client"].open \in {"opened", "failed"} \/ ws.http \in {"refused", "unsent"})

\* The client has a peer for every message that it reads: on_frame_received says
\* g_assert (conn_data->peer != NULL).  It has none when its application closed
\* the peer while the message was under way.
MessageHasPeer == ~ws.end["client"].noPeer
=============================================================================
