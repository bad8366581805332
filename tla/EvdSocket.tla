----------------------------- MODULE EvdSocket -----------------------------
(***************************************************************************)
(* EvdSocket (src/evd/evd-socket.c) and the lookups it asks of EvdResolver *)
(* (src/evd/evd-resolver.c): one socket object, the operations an          *)
(* application starts on it, the name lookups still in flight, the poll    *)
(* session and the backlog of a listener.                                  *)
(*                                                                         *)
(* Every function is an operator from states to states, every callback     *)
(* and every public call one action.  The first system call that fails in  *)
(* a call is the parameter r ("ok" if none does); `closes` says whether    *)
(* the application closes the socket from its "state-changed" handler.     *)
(* EvdPoll appears as its promise: a registered session reports edges and  *)
(* a removed one is silent.                                                *)
(***************************************************************************)
EXTENDS Integers, Sequences, FiniteSets

CONSTANTS MaxOps,       \* bound on the operations the application starts
          MaxBacklog,   \* bound on the connections the kernel queues
          Handlers      \* may a "state-changed" handler close the socket?

ASSUME SocketAssumption == MaxOps \in Nat /\ MaxBacklog \in Nat

VARIABLE sock

Family == {"v4", "v6"}
Failure == {"ok", "setup", "bind", "listen", "connect", "watch"}
Conds == {"in", "out", "err"}
AllBits == Conds \cup {"other"}   \* a GIOCondition word, for the complement

SocketInit ==
  \E udp, cl \in BOOLEAN :
    /\ cl \in Handlers
    /\ sock = [ status |-> "CLOSED", sub_status |-> "CLOSED", udp |-> udp,
                family |-> "none", fd |-> FALSE, session |-> FALSE,
                cond |-> {}, has_pending |-> FALSE, async_result |-> 0,
                polled |-> FALSE, lookups |-> {}, ops |-> <<>>,
                backlog |-> 0, edge |-> FALSE, accepted |-> 0,
                gave_up |-> FALSE, closes |-> cl, held |-> TRUE,
                disposed |-> FALSE ]

(***************************************************************************)
(* Helpers: completing an operation, status, cleanup, close.               *)
(***************************************************************************)

SOCKET_ACTIVE(s) == s.status = "CONNECTED" \/ (s.status = "BOUND" /\ s.udp)

\* GSimpleAsyncResult: operation i hears that it ended, well or badly.
Complete(s, i, ok) == [s EXCEPT !.ops[i].answers = Append(@, ok)]

evd_socket_unwatch(s) == IF s.session THEN [s EXCEPT !.polled = FALSE] ELSE s

evd_socket_cleanup_internal(s) ==
  LET t == IF s.fd THEN [evd_socket_unwatch(s) EXCEPT !.fd = FALSE,
                                                      !.backlog = 0, !.edge = FALSE]
                   ELSE s
  IN [t EXCEPT !.family = "none", !.cond = {}, !.session = FALSE,
               !.has_pending = FALSE]

evd_socket_close(s) ==
  LET t == IF s.async_result = 0 THEN s
           ELSE Complete([s EXCEPT !.async_result = 0], s.async_result, FALSE)
  IN IF t.status = "CLOSED" THEN t
     ELSE [evd_socket_cleanup_internal(t) EXCEPT !.status = "CLOSED"]

\* The handler of "state-changed" runs inside the call and may close.
evd_socket_set_status(s, status) ==
  IF s.status = status THEN s
  ELSE LET t == [s EXCEPT !.status = status]
       IN IF s.closes THEN evd_socket_close(t) ELSE t

evd_socket_check_availability(s) == ~s.has_pending /\ ~SOCKET_ACTIVE(s)

evd_socket_check_address(s, f) == s.family \in {"none", f}

\* A new session, or the conditions and priority of the present one changed.
evd_socket_watch(s) == [s EXCEPT !.cond = {}, !.session = TRUE, !.polled = TRUE]

Result(s, ok, error) == [s |-> s, ok |-> ok, error |-> error]
Fails(s) == Result(s, FALSE, TRUE)

(***************************************************************************)
(* The internal operations.                                                *)
(***************************************************************************)

evd_socket_setup(s, f) == [s EXCEPT !.family = f, !.fd = TRUE]

evd_socket_bind_addr_internal(s, f, r) ==
  IF ~evd_socket_check_address(s, f) THEN Fails(s)
  ELSE IF r = "setup" /\ ~s.fd THEN Fails([s EXCEPT !.family = f])
  ELSE LET t == evd_socket_setup(s, f)
       IN IF r = "bind" THEN Fails(evd_socket_cleanup_internal(t))
          ELSE Result(evd_socket_set_status(t, "BOUND"), TRUE, FALSE)

\* f = "none": no address, the socket must have been bound before.  When
\* g_socket_listen fails the function still answers TRUE, with the error set
\* if there is a GSocket at all: after a failed watch or bind the status may
\* be BOUND without one.
evd_socket_listen_addr_internal(s, f, r) ==
  LET b == IF f = "none" THEN Result(s, TRUE, FALSE)
           ELSE evd_socket_bind_addr_internal(s, f, r)
  IN IF ~b.ok THEN b
     ELSE IF b.s.status # "BOUND" THEN Fails(b.s)
     ELSE IF r = "listen" \/ b.s.udp \/ ~b.s.fd THEN Result(b.s, TRUE, b.s.fd)
     ELSE IF r = "watch" THEN Fails(evd_socket_cleanup_internal(b.s))
     ELSE Result(evd_socket_set_status(evd_socket_watch(b.s), "LISTENING"),
                 TRUE, FALSE)

evd_socket_connect_addr_internal(s, f, r) ==
  IF ~evd_socket_check_address(s, f) THEN Fails(s)
  ELSE IF r = "setup" /\ ~s.fd THEN Fails([s EXCEPT !.family = f])
  ELSE LET t == evd_socket_setup(s, f)
       IN IF r = "connect" THEN Fails(t)
          ELSE IF r = "watch" THEN Fails([t EXCEPT !.cond = {}])
          ELSE Result(evd_socket_set_status(evd_socket_watch(t), "CONNECTING"),
                      TRUE, FALSE)

\* On success a pending listen or bind is answered at once; a connect waits
\* for the connection.
AnswerNow(s) ==
  IF s.async_result = 0 THEN s
  ELSE Complete([s EXCEPT !.has_pending = FALSE, !.async_result = 0],
                s.async_result, TRUE)

\* Deviation: the operation that heard of the error stays the pending one.
AnswersAgain(s) ==
  LET t == IF s.async_result = 0 THEN s ELSE Complete(s, s.async_result, FALSE)
  IN evd_socket_close(t)

\* evd_socket_deliver_async_result_error, evd_socket_throw_error and close.
Abort(s) ==
  LET t == IF s.async_result = 0 THEN s
           ELSE Complete([s EXCEPT !.async_result = 0], s.async_result, FALSE)
  IN evd_socket_close(t)

(***************************************************************************)
(* EvdResolver: a lookup ends with an error ({}), or with a list of        *)
(* addresses of these families.                                            *)
(***************************************************************************)

\* Deviation: an answer is used whatever happened to the socket meanwhile.
IgnoresStatus(s, fams, r) ==
  LET t == [s EXCEPT !.sub_status = "CLOSED"]
      op == IF s.sub_status = "CONNECTING"
            THEN evd_socket_connect_addr_internal(t, "v4", r)
            ELSE Result(t, TRUE, FALSE)
  IN IF op.error THEN {Abort(op.s)} ELSE {op.s}

\* Deviation: a lookup that fails is not reported.
DropsFailure(s, fams, r) ==
  IF s.status # "RESOLVING" \/ fams = {} THEN {s}
  ELSE {Abort(s)}

evd_socket_on_address_resolved(s, fams, r) ==
  IF s.status # "RESOLVING" THEN {s}
  ELSE LET match == {f \in fams : evd_socket_check_address(s, f)}
           t == [s EXCEPT !.sub_status = "CLOSED"]
           op(f) ==
             CASE s.sub_status = "LISTENING" ->
                    evd_socket_listen_addr_internal(t, f, r)
               [] s.sub_status = "BOUND" -> evd_socket_bind_addr_internal(t, f, r)
               [] s.sub_status = "CONNECTING" ->
                    evd_socket_connect_addr_internal(t, f, r)
           done(f) ==
             LET u == IF op(f).ok /\ s.sub_status # "CONNECTING"
                      THEN AnswerNow(op(f).s) ELSE op(f).s
             IN IF op(f).error THEN Abort(u) ELSE u
       IN IF match = {} THEN {Abort(s)} ELSE {done(f) : f \in match}

ResolverAnswers ==
  \E i \in sock.lookups, fams \in SUBSET Family, r \in Failure :
    \E s \in evd_socket_on_address_resolved(sock, fams, r) :
      sock' = [s EXCEPT !.lookups = @ \ {i}]

(***************************************************************************)
(* Public calls.                                                           *)
(***************************************************************************)

NewOp(s, how) == [s EXCEPT !.ops = Append(@, [how |-> how, answers |-> <<>>])]

\* evd_socket_connect_to, evd_socket_listen and evd_socket_bind: the address
\* is a name, resolved first.
StartByName(how, action) ==
  LET s == NewOp(sock, how)
      i == Len(s.ops)
  IN sock' = IF ~evd_socket_check_availability(s) THEN Complete(s, i, FALSE)
             ELSE LET t == evd_socket_set_status(
                             [s EXCEPT !.async_result = i, !.has_pending = TRUE],
                             "RESOLVING")
                  IN [t EXCEPT !.sub_status = action, !.lookups = @ \cup {i}]

evd_socket_connect_to == StartByName("connect_to", "CONNECTING")
evd_socket_listen == StartByName("listen", "LISTENING")
evd_socket_bind == StartByName("bind", "BOUND")

\* The operation is noted as pending after the socket began to connect.
evd_socket_connect_addr(f, r) ==
  LET s == NewOp(sock, "connect_addr")
      i == Len(s.ops)
      c == evd_socket_connect_addr_internal(s, f, r)
  IN sock' = IF ~evd_socket_check_availability(s) THEN Complete(s, i, FALSE)
             ELSE IF ~c.ok THEN Complete(c.s, i, FALSE)
             ELSE [c.s EXCEPT !.has_pending = TRUE, !.async_result = i]

evd_socket_listen_addr(f, r) ==
  LET s == NewOp(sock, "listen_addr")
      l == evd_socket_listen_addr_internal([s EXCEPT !.has_pending = TRUE], f, r)
      i == Len(s.ops)
  IN sock' = IF ~evd_socket_check_availability(s) THEN Complete(s, i, FALSE)
             ELSE Complete([l.s EXCEPT !.has_pending = FALSE], i, l.ok)

evd_socket_bind_addr(f, r) ==
  LET s == NewOp(sock, "bind_addr")
      b == evd_socket_bind_addr_internal([s EXCEPT !.has_pending = TRUE], f, r)
      i == Len(s.ops)
  IN sock' = IF ~evd_socket_check_availability(s) THEN Complete(s, i, FALSE)
             ELSE Complete([b.s EXCEPT !.has_pending = FALSE], i, b.ok)

StartOp ==
  /\ sock.held /\ Len(sock.ops) < MaxOps
  /\ \/ evd_socket_connect_to
     \/ evd_socket_listen
     \/ evd_socket_bind
     \/ \E f \in Family, r \in Failure :
          \/ evd_socket_connect_addr(f, r)
          \/ evd_socket_bind_addr(f, r)
     \/ \E f \in Family \cup {"none"}, r \in Failure : evd_socket_listen_addr(f, r)

AppCloses == sock.held /\ sock' = evd_socket_close(sock)

\* evd_socket_watch_condition: the complement of the conditions asked for.
evd_socket_watch_condition ==
  /\ sock.held /\ SOCKET_ACTIVE(sock)
  /\ \E c \in SUBSET Conds : sock' = [sock EXCEPT !.cond = AllBits \ c]

\* The application drops its reference; a lookup or a pending result holds
\* the object until it ends.
Unref == sock.held /\ sock' = [sock EXCEPT !.held = FALSE]

evd_socket_dispose ==
  /\ ~sock.held /\ ~sock.disposed
  /\ sock.lookups = {} /\ sock.async_result = 0
  /\ sock' = [evd_socket_cleanup_internal([sock EXCEPT !.status = "CLOSED"])
                EXCEPT !.disposed = TRUE]

(***************************************************************************)
(* Conditions the poll reports.                                            *)
(***************************************************************************)

ClearIn(s) == [s EXCEPT !.cond = @ \ {"in"}]

\* Deviation: a failing accept takes one connection more from the queue.
TakesTwo(s, how) ==
  LET t == ClearIn(s)
  IN CASE how = "all" -> [t EXCEPT !.accepted = @ + t.backlog, !.backlog = 0]
       [] how = "error" -> [t EXCEPT !.gave_up = TRUE, !.backlog = @ - 2]
       [] how = "close" -> evd_socket_close([t EXCEPT !.accepted = @ + 1])

\* A listener accepts until the kernel has no more ("all"), until a call
\* fails ("error": a client that cannot be watched is lost as well), or until
\* the handler of "new-connection" closes the listener ("close").
Accept(s, how) ==
  LET t == ClearIn(s)
  IN CASE how = "all" -> [t EXCEPT !.accepted = @ + t.backlog, !.backlog = 0]
       [] how = "error" -> [t EXCEPT !.gave_up = TRUE, !.backlog = @ - 1]
       [] how = "close" -> evd_socket_close([t EXCEPT !.accepted = @ + 1])

Connected(s) ==
  LET t == evd_socket_set_status([s EXCEPT !.has_pending = FALSE], "CONNECTED")
  IN IF t.async_result = 0 THEN t
     ELSE Complete([t EXCEPT !.async_result = 0], t.async_result, TRUE)

\* A condition equal to the last one is dropped.  What an active socket then
\* tells its EvdConnection is the subject of the module EvdConnection.
evd_socket_handle_condition(s, condition, how) ==
  LET t == [s EXCEPT !.cond = condition]
  IN IF condition = s.cond THEN s
     ELSE IF t.status = "LISTENING" THEN Accept(t, how)
     ELSE IF "err" \in condition
     THEN IF t.status = "CONNECTING" THEN Abort(t) ELSE evd_socket_close(t)
     ELSE IF "out" \in condition /\ t.status = "CONNECTING" THEN Connected(t)
     ELSE t

evd_socket_on_condition ==
  /\ sock.polled
  /\ IF sock.status = "LISTENING"
     THEN /\ sock.edge
          /\ \E how \in {"all", "error", "close"} :
               sock' = evd_socket_handle_condition([sock EXCEPT !.edge = FALSE],
                                                   {"in"}, how)
     ELSE \E c \in (SUBSET Conds) \ {{}} :
            sock' = evd_socket_handle_condition(sock, c, "all")

\* Kernel: a peer connects to the listener; an edge is due.
PeerConnects ==
  /\ sock.status = "LISTENING" /\ sock.polled
  /\ sock.backlog < MaxBacklog /\ sock.accepted < MaxBacklog
  /\ sock' = [sock EXCEPT !.backlog = @ + 1, !.edge = TRUE]

SocketNext ==
  \/ StartOp
  \/ AppCloses
  \/ evd_socket_watch_condition
  \/ Unref
  \/ evd_socket_dispose
  \/ ResolverAnswers
  \/ evd_socket_on_condition
  \/ PeerConnects

SocketSpec == SocketInit /\ [][SocketNext]_sock

\* The kernel ends a connection attempt, one way or the other.
AttemptEnds ==
  /\ sock.polled /\ sock.status = "CONNECTING"
  /\ \E c \in {{"out"}, {"err", "out"}, {"in", "out"}} :
       sock' = evd_socket_handle_condition(sock, c, "all")

\* A lookup ends, an attempt ends, and a released object is disposed of.
Progress == ResolverAnswers \/ AttemptEnds \/ evd_socket_dispose

(***************************************************************************)
(* Properties.                                                             *)
(***************************************************************************)

Status == {"CLOSED", "CONNECTED", "CONNECTING", "LISTENING", "BOUND", "RESOLVING"}

Op == [how : {"connect_to", "listen", "bind", "connect_addr", "listen_addr", "bind_addr"},
       answers : Seq(BOOLEAN)]

SocketState ==
  [status : Status, sub_status : Status, udp : BOOLEAN, family : Family \cup {"none"},
   fd : BOOLEAN, session : BOOLEAN, cond : SUBSET AllBits, has_pending : BOOLEAN,
   async_result : Nat, polled : BOOLEAN, lookups : SUBSET Nat, ops : Seq(Op), backlog : Nat,
   edge : BOOLEAN, accepted : Nat, gave_up : BOOLEAN, closes : BOOLEAN, held : BOOLEAN,
   disposed : BOOLEAN]

\* The socket's fields have the types of evd-socket.c's private structure; what
\* is pending and looked up was started, and the bounds hold.
SocketTypeOK ==
  /\ sock \in SocketState
  /\ sock.async_result \in 0..Len(sock.ops) /\ Len(sock.ops) \in 0..MaxOps
  /\ sock.lookups \subseteq 1..Len(sock.ops)
  /\ sock.backlog \in 0..MaxBacklog

\* Pending(i): operation i was started and has not been answered.
Pending(i) == i \in 1..Len(sock.ops) /\ sock.ops[i].answers = <<>>

\* No operation's callback runs twice, whatever order lookup answers,
\* conditions, failures and closes come in (async_result is handed over and
\* cleared before each completion).
AnsweredOnce == \A i \in 1..Len(sock.ops) : Len(sock.ops[i].answers) <= 1

\* An operation that still waits is the one the socket remembers, and the
\* socket is in a state whose next event answers it.  evd_socket_connect_addr
\* with a handler that closes is the exception: it notes the operation after
\* the socket has already been closed.
PendingRemembered ==
  \A i \in 1..Len(sock.ops) :
    Pending(i) /\ ~(sock.closes /\ sock.ops[i].how = "connect_addr")
      => /\ sock.async_result = i /\ sock.has_pending
         /\ \/ sock.status = "RESOLVING"
            \/ sock.status = "CONNECTING" /\ sock.polled

\* The poll has a session of this socket exactly while the socket has one, and
\* never of a closed or disposed one: the session carries a bare pointer.
SessionOwned ==
  /\ sock.polled = sock.session
  /\ sock.session => sock.fd /\ sock.status # "CLOSED" /\ ~sock.disposed

\* A connection that waits in a listener's backlog is announced by an edge
\* still to come, unless accepting stopped on an error (evd-socket.c:995).
NoStuckConnection ==
  sock.status = "LISTENING" /\ sock.backlog > 0 => sock.edge \/ sock.gave_up

\* What a socket owes to the operations started on it and to the poll: each is
\* answered once and remembered until then, the poll session follows the
\* status, and a listener does not sleep on its backlog.
OperationsKept == AnsweredOnce /\ PendingRemembered /\ SessionOwned /\ NoStuckConnection

\* The status leaves CLOSED only with a new operation.
RevivedByOperation ==
  sock.status = "CLOSED" /\ sock'.status # "CLOSED" => Len(sock'.ops) > Len(sock.ops)

\* A closed socket stays closed until the application starts an operation: no
\* late lookup answer (evd_socket_on_address_resolved) or condition brings it
\* back.
NoResurrection == [][RevivedByOperation]_sock

\* Every operation is answered (with the exception of PendingRemembered).
OpsAnswered ==
  \A i \in 1..MaxOps :
    Pending(i) /\ ~(sock.closes /\ sock.ops[i].how = "connect_addr") ~> ~Pending(i)
=============================================================================
