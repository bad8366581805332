----------------------- MODULE EvdLongpollingServer -----------------------
(***************************************************************************)
(* The messages of one peer of an EvdLongpollingServer: the HTTP requests  *)
(* of the client (evd-longpolling-server.c), the sending half of           *)
(* EvdTransport (evd-transport.c) and the backlog of EvdPeer (evd-peer.c). *)
(*                                                                         *)
(* The client keeps "receive" requests open; a message goes out as the     *)
(* response of one of them, or waits in the backlog for the next request.  *)
(***************************************************************************)
EXTENDS Integers, Sequences

CONSTANTS
  Conn,           \* HTTP connections of the client
  None,           \* no connection
  MaxMsg,         \* bound: messages the application sends, 1 to MaxMsg
  Environments    \* sets of faults, each a network to consider

ASSUME LongpollingAssumption ==
  /\ None \notin Conn
  /\ MaxMsg \in Nat
  /\ Environments \subseteq SUBSET {"write", "leave"}

VARIABLES
  faults,      \* what may go wrong, from the start
  closed,      \* the peer was closed
  conns,       \* PEER_DATA_KEY: connections with a "receive" to answer
  backlog,     \* of the EvdPeer
  conn,        \* what each connection is doing
  receiving,   \* the connection whose content is in the "receive" signal
  sent,        \* messages sent so far; message i is the i-th
  delivered    \* history: frames written to a connection, in order

vars == <<faults, closed, conns, backlog, conn, receiving, sent, delivered>>

\* The write of a frame may fail on an open connection.
WriteMayFail == "write" \in faults

\* A connection may be closed at any time.
ClientMayLeave == "leave" \in faults

\* idle: no request; waiting: "receive" held; posting: the content of a "send"
\* is being read; flushing: answered; gone: closed by the client.
ConnState == {"idle", "waiting", "posting", "flushing", "gone"}

Init ==
  /\ faults \in Environments
  /\ closed = FALSE /\ conns = <<>> /\ backlog = <<>>
  /\ conn = [c \in Conn |-> "idle"]
  /\ receiving = None
  /\ sent = 0 /\ delivered = <<>>

-----------------------------------------------------------------------------
evd_peer_push_message(b, m) == Append(b, m)

\* Deviation: a frame whose write failed is not put back.
NotUnshifted(b, m) == b

evd_peer_unshift_message(b, m) == <<m>> \o b

\* Deviation: the backlog is emptied before the headers are written.
TakenBeforeHeaders ==
  [delivered |-> delivered, backlog |-> <<>>, result |-> TRUE, conn |-> "gone"]

\* The headers of the response cannot be written: nothing else is done.
HeadersFail ==
  [delivered |-> delivered, backlog |-> backlog, result |-> TRUE, conn |-> "gone"]

\* What evd_longpolling_server_actual_send may do with the frames of the
\* backlog and then msg, a sequence of one message or none.  When the response
\* headers cannot be written, as on a connection that is gone, it returns TRUE.
\* delivered has the frames whose write succeeded.
Outcome(c, msg) ==
  LET all == backlog \o msg
      Wrote(k) == delivered \o SubSeq(all, 1, k)
      AllWritten == {[delivered |-> Wrote(Len(all)), backlog |-> <<>>,
                      result |-> TRUE, conn |-> "flushing"]}
      FrameFails(k) ==   \* frame k + 1 does
        [delivered |-> Wrote(k),
         backlog |-> IF k < Len(backlog)
                     THEN evd_peer_unshift_message(
                            SubSeq(backlog, k + 2, Len(backlog)), backlog[k + 1])
                     ELSE <<>>,
         result |-> FALSE, conn |-> "flushing"]
  IN  IF conn[c] = "gone" THEN {HeadersFail}
      ELSE AllWritten \cup
           (IF WriteMayFail THEN {FrameFails(k) : k \in 0..(Len(all) - 1)} ELSE {})
           \cup (IF ClientMayLeave THEN {HeadersFail} ELSE {})

\* Deviation: the connection a message goes to stays in conns.
PeekConn == conns

\* The connections left when the head of conns is taken to send to.
PopConn == Tail(conns)

\* evd_transport_send: the transport first, and the backlog if it could not.
\* (The transport picks the connection that has waited longest.)
evd_transport_send ==
  /\ sent < MaxMsg
  /\ sent' = sent + 1
  /\ \/ /\ conns = <<>>
        /\ backlog' = evd_peer_push_message(backlog, sent')
        /\ UNCHANGED <<conns, conn, delivered>>
     \/ /\ conns # <<>>
        /\ conns' = PopConn
        /\ \E o \in Outcome(Head(conns), <<sent'>>) :
             /\ delivered' = o.delivered
             /\ backlog' = IF o.result THEN o.backlog
                           ELSE evd_peer_push_message(o.backlog, sent')
             /\ conn' = [conn EXCEPT ![Head(conns)] = o.conn]
  /\ UNCHANGED <<faults, closed, receiving>>

\* A response with the frames of the backlog and no other.
SendBacklog(c) ==
  \E o \in Outcome(c, <<>>) :
    /\ delivered' = o.delivered
    /\ backlog' = o.backlog
    /\ conn' = [conn EXCEPT ![c] = o.conn]

\* ACTION_RECEIVE: answered from the backlog, or held.
Receive(c) ==
  \/ /\ backlog # <<>>
     /\ SendBacklog(c)
     /\ UNCHANGED conns
  \/ /\ backlog = <<>>
     /\ conns' = Append(conns, c)
     /\ conn' = [conn EXCEPT ![c] = "waiting"]
     /\ UNCHANGED <<backlog, delivered>>

request_receive(c) ==
  /\ ~closed /\ receiving = None /\ conn[c] = "idle"
  /\ Receive(c)
  /\ UNCHANGED <<faults, closed, receiving, sent>>

\* ACTION_SEND: the content is read asynchronously.
request_send(c) ==
  /\ ~closed /\ receiving = None /\ conn[c] = "idle"
  /\ conn' = [conn EXCEPT ![c] = "posting"]
  /\ UNCHANGED <<faults, closed, conns, backlog, receiving, sent, delivered>>

\* evd_longpolling_server_conn_on_content_read: the messages go to the
\* application, which may send or close from its handler ...
conn_on_content_read(c) ==
  /\ receiving = None /\ conn[c] = "posting"
  /\ receiving' = c
  /\ UNCHANGED <<faults, closed, conns, backlog, conn, sent, delivered>>

\* ... and then the request is answered, with the backlog too.
conn_on_content_read_end ==
  /\ receiving # None
  /\ SendBacklog(receiving)
  /\ receiving' = None
  /\ UNCHANGED <<faults, closed, conns, sent>>

Held(c) == \E i \in DOMAIN conns : conns[i] = c

\* ACTION_CLOSE: evd_transport_close_peer of this transport, and so
\* evd_longpolling_server_peer_closed, which answers every held "receive".
request_close(c) ==
  /\ ~closed /\ receiving = None /\ conn[c] = "idle"
  /\ closed' = TRUE
  /\ conns' = <<>>
  /\ conn' = [d \in Conn |-> IF conn[d] # "gone" /\ (d = c \/ Held(d))
                             THEN "flushing" ELSE conn[d]]
  /\ UNCHANGED <<faults, backlog, receiving, sent, delivered>>

\* Any request when the peer is not found: SOUP_STATUS_NOT_FOUND.
request_not_found(c) ==
  /\ closed /\ receiving = None /\ conn[c] = "idle"
  /\ conn' = [conn EXCEPT ![c] = "flushing"]
  /\ UNCHANGED <<faults, closed, conns, backlog, receiving, sent, delivered>>

\* The application closes the peer, or it times out.  The transport of the
\* peer is the EvdWebTransportServer, which has no peer_closed: what is held
\* stays held.
evd_peer_close ==
  /\ ~closed
  /\ closed' = TRUE
  /\ UNCHANGED <<faults, conns, backlog, conn, receiving, sent, delivered>>

\* evd_web_service_connection_on_flush and return_connection: a kept-alive
\* connection reads its next request.
connection_on_flush(c) ==
  /\ receiving = None /\ conn[c] = "flushing"
  /\ conn' = [conn EXCEPT ![c] = "idle"]
  /\ UNCHANGED <<faults, closed, conns, backlog, receiving, sent, delivered>>

\* The client closes a connection.  evd_longpolling_server_remove is called by
\* evd_io_stream_set_group when the stream has no group any more, so the
\* remove of its parent class fails and it returns before it takes the
\* connection out of conns.  (A content that was being read then fails, and so
\* does the answer to it.)
connection_closed(c) ==
  /\ ClientMayLeave
  /\ receiving = None /\ conn[c] # "gone"
  /\ conn' = [conn EXCEPT ![c] = "gone"]
  /\ UNCHANGED <<faults, closed, conns, backlog, receiving, sent, delivered>>

\* The client connects again.
connection_new(c) ==
  /\ receiving = None /\ conn[c] = "gone" /\ ~Held(c)
  /\ conn' = [conn EXCEPT ![c] = "idle"]
  /\ UNCHANGED <<faults, closed, conns, backlog, receiving, sent, delivered>>

Next ==
  \/ evd_transport_send
  \/ evd_peer_close
  \/ conn_on_content_read_end
  \/ \E c \in Conn :
       \/ request_receive(c)
       \/ request_send(c)
       \/ request_close(c)
       \/ request_not_found(c)
       \/ conn_on_content_read(c)
       \/ connection_on_flush(c)
       \/ connection_closed(c)
       \/ connection_new(c)

Spec == Init /\ [][Next]_vars

-----------------------------------------------------------------------------
Written == {delivered[i] : i \in DOMAIN delivered}
Waiting == {backlog[i] : i \in DOMAIN backlog}

\* The frames written to the client, and then the ones still to be written.
Log == delivered \o backlog

\* What a step does to the log: nothing, or it appends the message being sent,
\* or it drops that message with a connection the client left.
LogGrows ==
  \/ sent' = sent /\ Log' = Log
  \/ sent' = sent + 1 /\ Log' = Append(Log, sent + 1)
  \/ sent' = sent + 1 /\ Log' = Log /\ ClientMayLeave

\* The state is well formed, and conns has each connection once, each of them
\* waiting or left by the client (request_handler and select_conn_and_send).
TypeOK ==
  /\ faults \in Environments /\ closed \in BOOLEAN
  /\ conns \in Seq(Conn)
  /\ backlog \in Seq(1..sent)
  /\ conn \in [Conn -> ConnState]
  /\ receiving \in Conn \cup {None}
  /\ sent \in 0..MaxMsg
  /\ delivered \in Seq(1..sent)
  /\ \A i, j \in DOMAIN conns : conns[i] = conns[j] => i = j
  /\ \A i \in DOMAIN conns : conn[conns[i]] \in {"waiting", "gone"}

\* The frames written to the client and then those in the backlog are in the
\* order the application sent them, and none is there twice, whatever fails
\* (actual_send's backlog first, its unshift, and send_frame's push).
InOrder == \A i, j \in DOMAIN Log : i < j => Log[i] < Log[j]

\* A message evd_transport_send accepted was written or is in the backlog, if
\* no connection breaks while it is waiting: a frame whose write fails is put
\* back (actual_send) or pushed (send_frame).
NoneLost == ~ClientMayLeave => Written \cup Waiting = 1..sent

\* A "receive" is never held while there is a backlog, if no write fails: the
\* client would wait for messages that wait for the client (request_handler).
NotBothWaiting == faults = {} => (conns = <<>> \/ backlog = <<>>)

\* What the server owes to the messages of a peer.
MessagesKept == InOrder /\ NoneLost /\ NotBothWaiting

\* No step reorders, repeats or takes back a message, whichever write fails:
\* the frames written and then the backlog stay as they are or get the message
\* being sent at their end (evd_peer_unshift_message, evd_peer_push_message).
LogOnlyGrows == [][LogGrows]_vars

\* "remove conn from Peer's list of conns" (evd_longpolling_server_remove): no
\* connection the client closed is left for a message to be sent to.
ClosedRemoved == \A i \in DOMAIN conns : conn[conns[i]] # "gone"

\* Every message gets to the client, or the peer is closed, if nothing fails.
Delivery ==
  \A m \in 1..MaxMsg :
    faults = {} /\ sent >= m ~> (m \in Written \/ closed)
=============================================================================
