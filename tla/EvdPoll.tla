------------------------------ MODULE EvdPoll ------------------------------
(***************************************************************************)
(* EvdPoll (evd-poll.c): one thread sits in epoll_wait on behalf of every  *)
(* watched descriptor and turns the conditions it reports into idle        *)
(* sources of the main context that watched the descriptor.                *)
(*                                                                         *)
(* Threads synchronise with two mutexes.  epoll_mutex protects sessions;   *)
(* interrupt_mutex is held by the poll thread while it is inside           *)
(* epoll_wait and protects the array of fetched events.  evd_poll_del      *)
(* needs both, and wakes the poll thread by writing to a pipe.             *)
(*                                                                         *)
(* A section of code that runs with epoll_mutex held and waits for nothing *)
(* is one action: no other action reads or writes what it touches.         *)
(***************************************************************************)
EXTENDS Naturals, FiniteSets

CONSTANTS
  Thread,       \* threads that call EvdPoll
  Main,         \* the one that runs the default main context
  Home,         \* Home[t] runs the context that is t's thread default
  Session,      \* EvdPollSession objects; an identity is never reused
  Cond,         \* the conditions a caller can ask for
  Hup,          \* a condition the kernel reports unasked (EPOLLHUP, EPOLLERR)
  Fd,           \* numbers the descriptor of the pipe's read end may have
  StartMayFail, \* whether epoll_create, pipe or thread creation may fail
  Poller,       \* the poll thread, as a holder of a mutex
  Nobody        \* a mutex that is free

ASSUME PollAssumption ==
  /\ Main \in Thread
  /\ Home \in [Thread -> Thread]
  /\ Hup \notin Cond
  /\ Session # {}
  /\ Fd \subseteq Nat
  /\ StartMayFail \in BOOLEAN
  /\ Poller \notin Thread /\ Nobody \notin Thread /\ Poller # Nobody

VARIABLES
  epoll_mutex, interrupt_mutex,
  started,      \* priv->started
  stdin,        \* descriptor 0 is still the one the program began with
  interrupt_fd, \* priv->interrupt_fds[0]
  pp,           \* where the poll thread is
  main_loop,    \* priv->main_loop is not NULL
  running,      \* the poll thread's GMainLoop is_running
  dispatch_src, \* evd_poll_dispatch is still a source of that loop
  pipe,         \* bytes in the interrupt pipe
  pipe_edge,    \* epoll has an edge to report for the pipe
  pipe_event,   \* priv->events holds the pipe's event
  events,       \* priv->events: fetched conditions, {} once NULLed
  kernel,       \* the descriptor in the epoll set: "no", "in", "closed"
  ready,        \* conditions epoll has to report for a descriptor
  life,         \* the session's memory
  ref_count, callback, home, src_id, cond_in, cond_out,
  sources,      \* sessions with an idle source attached to their context
  pc, cur, arg, \* each caller thread: its place, its session, its cond_out
  owed          \* conditions reported since the callback last got them

locks == <<epoll_mutex, interrupt_mutex>>
fds == <<stdin, interrupt_fd>>
loop == <<started, pp, main_loop, running, dispatch_src>>
wake == <<pipe, pipe_edge, pipe_event>>
epoll == <<kernel, ready>>
session == <<life, ref_count, callback, home, src_id, cond_in, cond_out>>
thread == <<pc, cur, arg>>
vars == <<locks, fds, loop, wake, events, epoll, session, sources, thread, owed>>

Reported == Cond \cup {Hup}
B(p) == IF p THEN 1 ELSE 0

Init ==
  /\ epoll_mutex = Nobody /\ interrupt_mutex = Nobody
  /\ stdin = TRUE /\ interrupt_fd = 0
  /\ started = FALSE /\ pp = "none" /\ main_loop = FALSE
  /\ running = FALSE /\ dispatch_src = FALSE
  /\ pipe = 0 /\ pipe_edge = FALSE /\ pipe_event = FALSE
  /\ events = [s \in Session |-> {}]
  /\ kernel = [s \in Session |-> "no"]
  /\ ready = [s \in Session |-> {}]
  /\ life = [s \in Session |-> "unused"]
  /\ ref_count = [s \in Session |-> 0]
  /\ callback = [s \in Session |-> FALSE]
  /\ home = [s \in Session |-> Main]
  /\ src_id = [s \in Session |-> FALSE]
  /\ cond_in = [s \in Session |-> {}]
  /\ cond_out = [s \in Session |-> {}]
  /\ sources = {}
  /\ pc = [t \in Thread |-> "loop"]
  /\ cur = [t \in Thread |-> CHOOSE s \in Session : TRUE]
  /\ arg = [t \in Thread |-> {}]
  /\ owed = [s \in Session |-> {}]

-----------------------------------------------------------------------------
(* What GLib and the kernel do.                                            *)

\* g_source_remove looks the id up in the default main context only.  For a
\* session of another context it finds nothing, or a source that happens to
\* have the same id there.
g_source_remove(s) ==
  IF home[s] = Main
  THEN {sources \ {s}}
  ELSE {sources} \cup {sources \ {x} : x \in {y \in sources : home[y] = Main}}

\* The descriptor of s becomes ready: an edge for epoll to report.
Raise(s, c) ==
  /\ kernel[s] = "in"
  /\ c \in cond_in[s] \cup {Hup}
  /\ ready' = [ready EXCEPT ![s] = @ \cup {c}]
  /\ owed' = [owed EXCEPT ![s] = @ \cup {c}]
  /\ UNCHANGED <<fds, locks, loop, wake, events, kernel, session, sources, thread>>

\* The descriptor is closed under the session: the kernel forgets it.
FdClosed(s) ==
  /\ kernel[s] = "in" /\ callback[s]
  /\ kernel' = [kernel EXCEPT ![s] = "closed"]
  /\ ready' = [ready EXCEPT ![s] = {}]
  /\ UNCHANGED <<fds, locks, loop, wake, events, session, sources, thread, owed>>

\* Deviation: evd_poll_del takes interrupt_mutex without waking anyone.
NoInterrupt == UNCHANGED wake

\* One byte into the pipe.  Only a write to an empty pipe is sure to be
\* reported, as the comment in check_and_consume_interrupt_event says.
evd_poll_interrupt_epoll_wait ==
  /\ pipe' = pipe + 1
  /\ pipe_edge' = (pipe_edge \/ pipe = 0)
  /\ UNCHANGED pipe_event

-----------------------------------------------------------------------------
(* The poll thread.                                                        *)

evd_poll_thread_loop_new ==
  /\ pp = "created"
  /\ pp' = "ready" /\ main_loop' = TRUE /\ dispatch_src' = TRUE
  /\ UNCHANGED <<fds, locks, started, running, wake, events, epoll, session,
                 sources, thread, owed>>

\* g_main_loop_run sets is_running, whatever g_main_loop_quit did before.
evd_poll_thread_loop_run ==
  /\ pp = "ready"
  /\ pp' = "iterate" /\ running' = TRUE
  /\ UNCHANGED <<fds, locks, started, main_loop, dispatch_src, wake, events, epoll,
                 session, sources, thread, owed>>

evd_poll_thread_loop_end ==
  /\ pp = "iterate" /\ ~running
  /\ pp' = "done" /\ main_loop' = FALSE
  /\ UNCHANGED <<fds, locks, started, running, dispatch_src, wake, events, epoll,
                 session, sources, thread, owed>>

evd_poll_dispatch_lock ==
  /\ pp = "iterate" /\ running /\ dispatch_src
  /\ interrupt_mutex = Nobody
  /\ interrupt_mutex' = Poller /\ pp' = "wait"
  /\ UNCHANGED <<fds, epoll_mutex, started, main_loop, running, dispatch_src, wake,
                 events, epoll, session, sources, thread, owed>>

Reportable == pipe_edge \/ \E s \in Session : ready[s] # {}

\* epoll_wait returns every reported condition once (EPOLLET), or nothing
\* when a signal interrupts it.
evd_poll_dispatch_wait ==
  /\ pp = "wait"
  /\ Reportable
  /\ events' = ready /\ pipe_event' = pipe_edge
  /\ ready' = [s \in Session |-> {}] /\ pipe_edge' = FALSE
  /\ pp' = "got"
  /\ UNCHANGED <<fds, locks, started, main_loop, running, dispatch_src, pipe,
                 kernel, session, sources, thread, owed>>

evd_poll_dispatch_eintr ==
  /\ pp = "wait"
  /\ ~Reportable
  /\ events' = [s \in Session |-> {}] /\ pipe_event' = FALSE
  /\ pp' = "got"
  /\ UNCHANGED <<fds, locks, started, main_loop, running, dispatch_src, pipe,
                 pipe_edge, epoll, session, sources, thread, owed>>

evd_poll_dispatch_unlock ==
  /\ pp = "got"
  /\ interrupt_mutex' = Nobody /\ pp' = "fetched"
  /\ UNCHANGED <<fds, epoll_mutex, started, main_loop, running, dispatch_src, wake,
                 events, epoll, session, sources, thread, owed>>

\* evd_poll_check_and_consume_interrupt_event takes an entry whose first int is
\* the number of the pipe's descriptor for the pipe's, also a session's.
Taken == {s \in Session : events[s] # {} /\ ref_count[s] = interrupt_fd}

\* Deviation: the byte is left in the pipe.
PipeNotRead == pipe

\* It reads the pipe until it is empty.
PipeAfterRead == IF pipe_event \/ Taken # {} THEN 0 ELSE pipe

\* The pipe is not non-blocking: a read of the empty pipe, the second one of a
\* batch or that of a session with no byte there, does not return.
Blocks ==
  /\ Taken # {}
  /\ pipe = 0 \/ pipe_event \/ \E s, x \in Taken : s # x

\* Deviation: a source, and its reference, for every event.
SourcePerEvent(s) == TRUE

\* A session with a pending source gets no second one.
NeedsSource(s) == ~src_id[s]

\* session->cond_out |= conditions of the event
Collected(s) == cond_out[s] \cup events[s]

\* The entries of the fetched events that are sessions'.
Hit == {s \in Session : events[s] # {}} \ Taken

\* The loop over the fetched events: a session that dies of the unref is
\* skipped, the others get their conditions and a source.
evd_poll_dispatch_events(hit) ==
  LET kept == {s \in hit : ref_count[s] > 1}
      new == {s \in kept : NeedsSource(s)}
  IN /\ cond_out' = [s \in Session |->
                       IF s \in kept THEN Collected(s) ELSE cond_out[s]]
     /\ ref_count' = [s \in Session |->
                        IF s \in new THEN ref_count[s] + 1
                        ELSE IF s \in hit \ kept THEN 0 ELSE ref_count[s]]
     /\ life' = [s \in Session |->
                   IF s \in hit \ kept THEN "freed" ELSE life[s]]
     /\ src_id' = [s \in Session |-> src_id[s] \/ s \in new]
     /\ sources' = sources \cup new

\* priv->nr_events = 0
Forget == events' = [s \in Session |-> {}] /\ pipe_event' = FALSE

evd_poll_dispatch_process ==
  /\ pp = "fetched" /\ epoll_mutex = Nobody
  /\ \/ /\ started /\ ~Blocks
        /\ evd_poll_dispatch_events(Hit)
        /\ pipe' = PipeAfterRead /\ pipe_edge' = (pipe_edge /\ Taken = {})
     \/ /\ ~started
        /\ UNCHANGED <<cond_out, ref_count, life, src_id, sources, pipe, pipe_edge>>
  /\ Forget
  /\ dispatch_src' = started /\ pp' = "iterate"
  /\ UNCHANGED <<fds, locks, started, main_loop, running, epoll, callback, home,
                 cond_in, thread, owed>>

\* The poll thread stays in the read, with epoll_mutex, having come through a
\* part of the events.
evd_poll_dispatch_blocks ==
  /\ pp = "fetched" /\ epoll_mutex = Nobody
  /\ started /\ Blocks
  /\ \E hit \in SUBSET Hit : evd_poll_dispatch_events(hit)
  /\ Forget
  /\ epoll_mutex' = Poller /\ pp' = "stuck"
  /\ pipe' = 0 /\ pipe_edge' = FALSE
  /\ UNCHANGED <<fds, interrupt_mutex, started, main_loop, running, dispatch_src,
                 epoll, callback, home, cond_in, thread, owed>>

-----------------------------------------------------------------------------
(* The callers.                                                            *)

Idle(t) == pc[t] = "loop"
Finalizing == \E t \in Thread : pc[t] \in {"join", "stopped"}

\* The session evd_poll_add fills in, and CTL_ADD.
NewSession(t, s, cond, added) ==
  /\ life[s] = "unused"
  /\ life' = [life EXCEPT ![s] = IF added THEN "live" ELSE "freed"]
  /\ ref_count' = [ref_count EXCEPT ![s] = IF added THEN 2 ELSE 0]
  /\ callback' = [callback EXCEPT ![s] = added]
  /\ home' = [home EXCEPT ![s] = Home[t]]
  /\ cond_in' = [cond_in EXCEPT ![s] = cond]
  /\ kernel' = [kernel EXCEPT ![s] = IF added THEN "in" ELSE "no"]
  /\ UNCHANGED <<src_id, cond_out>>

\* evd_poll_start, which evd_poll_add calls with epoll_mutex held.  A descriptor
\* gets the lowest number that is free: that of the epoll set is above the
\* standard streams, or 0 where that has been closed, and the pipe's is above it.
evd_poll_start ==
  /\ interrupt_fd' \in {n \in Fd : n > IF stdin THEN 3 ELSE 2}
  /\ started' = TRUE /\ pp' = "created" /\ UNCHANGED stdin
  /\ UNCHANGED <<main_loop, running, dispatch_src>>

evd_poll_add(t, s, cond) ==
  /\ Idle(t) /\ ~Finalizing
  /\ epoll_mutex = Nobody
  /\ IF started THEN UNCHANGED <<fds, loop>> ELSE evd_poll_start
  /\ \E added \in BOOLEAN : NewSession(t, s, cond, added)
  /\ UNCHANGED <<locks, wake, events, ready, sources, thread, owed>>

\* The early return when evd_poll_start fails: epoll_mutex is not released.
evd_poll_add_start_failed(t) ==
  /\ Idle(t) /\ ~Finalizing
  /\ epoll_mutex = Nobody
  /\ ~started /\ StartMayFail
  /\ started' = TRUE
  /\ epoll_mutex' = t
  /\ UNCHANGED <<fds, interrupt_mutex, pp, main_loop, running, dispatch_src, wake,
                 events, epoll, session, sources, thread, owed>>

\* The caller that owns a session changes the conditions it wants.
evd_poll_mod(t, s, cond) ==
  /\ Idle(t) /\ callback[s] /\ home[s] = t
  /\ epoll_mutex = Nobody
  /\ cond_in[s] # cond
  /\ cond_in' = [cond_in EXCEPT ![s] = cond]
  /\ ready' = [ready EXCEPT ![s] = @ \cap (cond \cup {Hup})]
  /\ owed' = [owed EXCEPT ![s] = @ \cap (cond \cup {Hup})]
  /\ UNCHANGED <<fds, locks, loop, wake, events, kernel, life, ref_count, callback,
                 home, src_id, cond_out, sources, thread>>

\* Deviation: the fetched events keep pointing to the session.
EventsKept(s) == events

\* The fetched events that point to the session are NULLed.
EventsNulled(s) == [events EXCEPT ![s] = {}]

\* Deviation: the reference of a pending source is not given back.
DropsWithoutSource(s) == B(kernel[s] = "in") + 1

\* The references evd_poll_del gives back.
Drops(s) == B(src_id[s]) + B(kernel[s] = "in") + 1

\* Deviation: the count is decremented whatever it is.
DropUnchecked(n, drops) == n - drops - 1

\* evd_poll_session_unref, applied so many times.
evd_poll_session_unref(n, drops) == IF drops < n THEN n - drops ELSE 0

\* evd_poll_del once it has both mutexes.
evd_poll_del_body(s) ==
  LET drops == Drops(s)
      freed == drops >= ref_count[s]
  IN /\ events' = EventsNulled(s)
     /\ sources' \in IF src_id[s] THEN g_source_remove(s) ELSE {sources}
     /\ src_id' = [src_id EXCEPT ![s] = FALSE]
     /\ callback' = [callback EXCEPT ![s] = FALSE]
     /\ kernel' = [kernel EXCEPT ![s] = IF @ = "in" THEN "no" ELSE @]
     /\ ready' = [ready EXCEPT ![s] = {}]
     /\ ref_count' = [ref_count EXCEPT ![s] = evd_poll_session_unref(@, drops)]
     /\ life' = [life EXCEPT ![s] = IF freed THEN "freed" ELSE @]
     /\ cond_in' = [cond_in EXCEPT ![s] = IF freed THEN {} ELSE @]
     /\ cond_out' = [cond_out EXCEPT ![s] = IF freed THEN {} ELSE @]
     /\ owed' = [owed EXCEPT ![s] = {}]
     /\ UNCHANGED home

evd_poll_del(t, s) ==
  /\ Idle(t) /\ callback[s] /\ home[s] = t
  /\ epoll_mutex = Nobody
  /\ \/ /\ interrupt_mutex = Nobody
        /\ evd_poll_del_body(s)
        /\ UNCHANGED <<epoll_mutex, pc, cur>>
     \/ /\ interrupt_mutex # Nobody
        /\ epoll_mutex' = t
        /\ pc' = [pc EXCEPT ![t] = "interrupt"]
        /\ cur' = [cur EXCEPT ![t] = s]
        /\ UNCHANGED <<events, epoll, session, sources, owed>>
  /\ UNCHANGED <<fds, interrupt_mutex, loop, wake, arg>>

evd_poll_del_interrupt(t) ==
  /\ pc[t] = "interrupt"
  /\ evd_poll_interrupt_epoll_wait
  /\ pc' = [pc EXCEPT ![t] = "wait"]
  /\ UNCHANGED <<fds, locks, loop, events, epoll, session, sources, cur, arg, owed>>

evd_poll_del_finish(t) ==
  /\ pc[t] = "wait" /\ interrupt_mutex = Nobody
  /\ evd_poll_del_body(cur[t])
  /\ epoll_mutex' = Nobody
  /\ pc' = [pc EXCEPT ![t] = "loop"]
  /\ UNCHANGED <<fds, interrupt_mutex, loop, wake, cur, arg>>

\* The main loop of t dispatches the idle source of s.
evd_poll_callback_wrapper(t, s) ==
  /\ Idle(t) /\ s \in sources /\ home[s] = t
  /\ sources' = sources \ {s}
  /\ pc' = [pc EXCEPT ![t] = "wrapper"]
  /\ cur' = [cur EXCEPT ![t] = s]
  /\ UNCHANGED <<fds, locks, loop, wake, events, epoll, session, arg, owed>>

\* session->src_id = 0
SourceDone(s) == [src_id EXCEPT ![s] = FALSE]

\* ... which takes the conditions with epoll_mutex held,
evd_poll_callback_wrapper_locked(t) ==
  LET s == cur[t]
      kept == ref_count[s] > 1
  IN /\ pc[t] = "wrapper" /\ epoll_mutex = Nobody
     /\ src_id' = SourceDone(s)
     /\ ref_count' = [ref_count EXCEPT ![s] = evd_poll_session_unref(@, 1)]
     /\ life' = [life EXCEPT ![s] = IF kept THEN @ ELSE "freed"]
     /\ cond_out' = [cond_out EXCEPT ![s] = IF kept THEN {} ELSE @]
     /\ arg' = [arg EXCEPT ![t] = IF kept THEN cond_out[s] ELSE {}]
     /\ pc' = [pc EXCEPT ![t] = IF kept /\ callback[s] THEN "callback" ELSE "loop"]
     /\ UNCHANGED <<fds, locks, loop, wake, events, epoll, callback, home, cond_in,
                    sources, cur, owed>>

\* Deviation: the conditions are cleared when the callback has returned.
ClearsAgain(t) ==
  /\ pc[t] = "callback"
  /\ owed' = [owed EXCEPT ![cur[t]] = @ \ arg[t]]
  /\ arg' = [arg EXCEPT ![t] = {}]
  /\ cond_out' = [cond_out EXCEPT ![cur[t]] = {}]
  /\ pc' = [pc EXCEPT ![t] = "loop"]
  /\ UNCHANGED <<fds, locks, loop, wake, events, epoll, life, ref_count, callback, home,
                 src_id, cond_in, sources, cur>>

\* ... and calls the callback with no mutex held.
evd_poll_callback_wrapper_call(t) ==
  /\ pc[t] = "callback"
  /\ owed' = [owed EXCEPT ![cur[t]] = @ \ arg[t]]
  /\ arg' = [arg EXCEPT ![t] = {}]
  /\ pc' = [pc EXCEPT ![t] = "loop"]
  /\ UNCHANGED <<fds, locks, loop, wake, events, epoll, session, sources, cur>>

\* Every owner has deleted its sessions and the last reference goes.
evd_poll_finalize ==
  /\ \A u \in Thread : Idle(u)
  /\ \A s \in Session : ~callback[s]
  /\ epoll_mutex = Nobody

evd_poll_stop(t) ==
  /\ evd_poll_finalize /\ started
  /\ started' = FALSE
  /\ evd_poll_interrupt_epoll_wait
  /\ running' = (running /\ ~main_loop)
  /\ pc' = [pc EXCEPT ![t] = "join"]
  /\ UNCHANGED <<fds, locks, pp, main_loop, dispatch_src, events, epoll, session,
                 sources, cur, arg, owed>>

\* A poll nothing was added to has no thread and its descriptors are 0, which is
\* what it closes.  evd_poll_get_default makes another one.
evd_poll_stop_unused ==
  /\ evd_poll_finalize /\ ~started
  /\ stdin' = FALSE
  /\ UNCHANGED <<locks, interrupt_fd, loop, wake, events, epoll, session, sources,
                 thread, owed>>

evd_poll_stop_joined(t) ==
  /\ pc[t] = "join" /\ pp = "done"
  /\ pc' = [pc EXCEPT ![t] = "stopped"]
  /\ UNCHANGED <<fds, locks, loop, wake, events, epoll, session, sources, cur, arg,
                 owed>>

-----------------------------------------------------------------------------
PollThread ==
  \/ evd_poll_thread_loop_new
  \/ evd_poll_thread_loop_run
  \/ evd_poll_thread_loop_end
  \/ evd_poll_dispatch_lock
  \/ evd_poll_dispatch_wait
  \/ evd_poll_dispatch_unlock
  \/ evd_poll_dispatch_process
  \/ evd_poll_dispatch_blocks

Call(t, s) ==
  \/ \E cond \in SUBSET Cond : evd_poll_add(t, s, cond)
  \/ \E cond \in SUBSET Cond : evd_poll_mod(t, s, cond)
  \/ evd_poll_del(t, s)

Return(t) ==
  \/ evd_poll_del_interrupt(t)
  \/ evd_poll_del_finish(t)
  \/ evd_poll_callback_wrapper_locked(t)
  \/ evd_poll_callback_wrapper_call(t)
  \/ evd_poll_stop_joined(t)

Next ==
  \/ PollThread
  \/ evd_poll_dispatch_eintr
  \/ \E t \in Thread, s \in Session : Call(t, s)
  \/ \E t \in Thread : Return(t)
  \/ \E t \in Thread, s \in Session : evd_poll_callback_wrapper(t, s)
  \/ \E t \in Thread : evd_poll_add_start_failed(t)
  \/ \E t \in Thread : evd_poll_stop(t)
  \/ evd_poll_stop_unused
  \/ \E s \in Session, c \in Reported : Raise(s, c)
  \/ \E s \in Session : FdClosed(s)

Spec == Init /\ [][Next]_vars

\* The kernel runs every thread that can run.  A main loop dispatches every
\* idle source that stays attached, however often it is busy in between.
Fairness ==
  /\ WF_vars(PollThread)
  /\ \A t \in Thread : WF_vars(Return(t))
  /\ \A t \in Thread, s \in Session : SF_vars(evd_poll_callback_wrapper(t, s))

FairSpec == Spec /\ Fairness

-----------------------------------------------------------------------------
(* Properties.                                                             *)

TypeOK ==
  /\ epoll_mutex \in Thread \cup {Poller, Nobody}
  /\ interrupt_mutex \in {Poller, Nobody}
  /\ stdin \in BOOLEAN /\ interrupt_fd \in Nat
  /\ started \in BOOLEAN /\ main_loop \in BOOLEAN
  /\ running \in BOOLEAN /\ dispatch_src \in BOOLEAN
  /\ pp \in {"none", "created", "ready", "iterate", "wait", "got", "fetched",
             "stuck", "done"}
  /\ pipe \in Nat /\ pipe_edge \in BOOLEAN /\ pipe_event \in BOOLEAN
  /\ events \in [Session -> SUBSET Reported]
  /\ kernel \in [Session -> {"no", "in", "closed"}]
  /\ ready \in [Session -> SUBSET Reported]
  /\ life \in [Session -> {"unused", "live", "freed"}]
  /\ ref_count \in [Session -> Nat]
  /\ callback \in [Session -> BOOLEAN]
  /\ home \in [Session -> Thread]
  /\ src_id \in [Session -> BOOLEAN]
  /\ cond_in \in [Session -> SUBSET Cond]
  /\ cond_out \in [Session -> SUBSET Reported]
  /\ sources \in SUBSET Session
  /\ pc \in [Thread -> {"loop", "interrupt", "wait", "wrapper", "callback",
                        "join", "stopped"}]
  /\ cur \in [Thread -> Session]
  /\ arg \in [Thread -> SUBSET Reported]
  /\ owed \in [Session -> SUBSET Reported]

\* No freed EvdPollSession is ever dereferenced: not through the array of
\* fetched events, through the epoll set, through an idle source that is
\* attached or being dispatched, or by the callback's arguments, which
\* evd_poll_callback_wrapper reads from the session after it unlocks.  And
\* no callback is called once evd_poll_del has returned.
NoFreedSessionUsed ==
  /\ \A s \in Session :
       (events[s] # {} \/ kernel[s] = "in" \/ s \in sources) => life[s] = "live"
  /\ \A t \in Thread :
       pc[t] \in {"interrupt", "wait", "wrapper", "callback"}
         => life[cur[t]] = "live"
  /\ \A t \in Thread : pc[t] = "callback" => callback[cur[t]]

\* A live session has one reference for the caller that added it, one for
\* the epoll set and one for a pending source, and dies with the last: none
\* leaks and none is dropped twice (evd_poll_session_ref and _unref).
RefAccounting ==
  \A s \in Session :
    IF life[s] = "live"
    THEN /\ ref_count[s] > 0
         /\ ref_count[s] = B(callback[s]) + B(kernel[s] # "no") + B(src_id[s])
    ELSE ref_count[s] = 0

\* evd_poll_check_and_consume_interrupt_event tells the pipe from a session
\* by comparing the first int an event points to, a session's ref_count,
\* with the number of the pipe's descriptor.  No fetched session has that
\* many references, as long as no poll was dropped unused: evd_poll_stop then
\* closes descriptor 0, and a pipe that gets 3 has the count of a session with
\* a pending source.
SessionNotTakenForPipe ==
  stdin => \A s \in Session : events[s] # {} => ref_count[s] # interrupt_fd

\* Every condition the kernel reported for a watched descriptor is still on
\* its way to the callback: in epoll, in the fetched events, collected in
\* cond_out behind a pending source, or an argument of a running callback.  A
\* session taken for the pipe, see SessionNotTakenForPipe, loses its event.
NoLostCondition ==
  stdin => \A s \in Session :
    /\ callback[s] /\ kernel[s] = "in" =>
         owed[s] \subseteq ready[s] \cup events[s] \cup cond_out[s]
             \cup UNION {arg[t] : t \in {u \in Thread : pc[u] = "callback"
                                                     /\ cur[u] = s}}
    /\ callback[s] /\ cond_out[s] # {} =>
         src_id[s] /\ (s \in sources \/ \E t \in Thread : pc[t] = "wrapper"
                                                        /\ cur[t] = s)

\* evd_poll_del never sleeps on interrupt_mutex while the poll thread sleeps
\* in epoll_wait with nothing to report: the byte it wrote is an edge that
\* epoll still has, because every earlier byte has been read.
DelWakesPoller ==
  \A t \in Thread : pc[t] = "wait" /\ pp = "wait" => pipe_edge

\* evd_poll_del returns, unless the poll thread may have been stuck in the pipe.
DelReturns ==
  \A t \in Thread : pc[t] = "interrupt" ~> pc[t] = "loop" \/ ~stdin

\* A condition reported for a session is passed to its callback, unless the
\* session is deleted, its descriptor closed or the condition unwatched, or
\* sessions may be taken for the pipe.
ConditionDelivered ==
  \A s \in Session, c \in Reported :
    c \in owed[s] ~> (c \notin owed[s] \/ kernel[s] # "in" \/ ~stdin)
=============================================================================
