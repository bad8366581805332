----------------------------- MODULE MCSockets -----------------------------
(***************************************************************************)
(* Model checking of the lowest parts: EvdSocket with its lookups and poll *)
(* session, EvdStreamThrottle, and the delivery of conditions by EvdPoll   *)
(* under fair scheduling.  They share no state; `part` says which of them  *)
(* a behaviour is about, and the others stay as they began.                *)
(***************************************************************************)
EXTENDS EvdStreamThrottle, EvdSocket

CONSTANT Parts

VARIABLE part

CONSTANTS Thread, Main, Home, Session, Cond, Hup, Fd, StartMayFail, Poller, Nobody

VARIABLES epoll_mutex, interrupt_mutex, started, stdin, interrupt_fd, pp, main_loop, running, dispatch_src,
          pipe, pipe_edge, pipe_event, events, kernel, ready, life, ref_count, callback,
          home, src_id, cond_in, cond_out, sources, pc, cur, arg, owed

L == INSTANCE EvdPoll

pollVars == <<epoll_mutex, interrupt_mutex, started, stdin, interrupt_fd, pp, main_loop, running, dispatch_src,
              pipe, pipe_edge, pipe_event, events, kernel, ready, life, ref_count, callback,
              home, src_id, cond_in, cond_out, sources, pc, cur, arg, owed>>

\* All sessions belong to the default main context.
HomeDefault == [t \in Thread |-> Main]

MCInit ==
  /\ part \in Parts /\ Init /\ SocketInit /\ L!Init
  /\ part # "throttle" => bandwidth = 0 /\ latency = 0
  /\ part # "socket" => ~sock.udp /\ ~sock.closes

MCNext ==
  \/ part = "socket" /\ SocketNext /\ UNCHANGED <<part, thrVars, pollVars>>
  \/ part = "throttle" /\ Next /\ UNCHANGED <<part, sock, pollVars>>
  \/ part = "poll" /\ L!Next /\ UNCHANGED <<part, sock, thrVars>>

\* Lookups and connection attempts end, released sockets are disposed of; the
\* fairness of EvdPoll, which waits for nothing before it is started.
MCSpec ==
  /\ MCInit /\ [][MCNext]_<<part, sock, thrVars, pollVars>>
  /\ WF_sock(part = "socket" /\ Progress) /\ L!Fairness

\* All parts keep their types.
TypesOK == TypeOK /\ SocketTypeOK /\ L!TypeOK

\* EvdPoll under fair scheduling: evd_poll_del returns, and a condition reaches
\* the callback of its session.
DeliveryEnds == L!DelReturns /\ L!ConditionDelivered
=============================================================================
