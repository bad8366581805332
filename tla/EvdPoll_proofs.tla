--------------------------- MODULE EvdPoll_proofs ---------------------------
(***************************************************************************)
(* Proofs about EvdPoll, for any number of threads, sessions and           *)
(* conditions, when every session belongs to the default main context.     *)
(***************************************************************************)
EXTENDS EvdPoll, TLAPS

HomeDefaultOnly == \A t \in Thread : Home[t] = Main

\* Who holds which mutex, by where the threads are.
LockInv ==
  /\ interrupt_mutex = Poller <=> pp \in {"wait", "got"}
  /\ \A t \in Thread : pc[t] \in {"interrupt", "wait"} =>
       epoll_mutex = t /\ callback[cur[t]]
  /\ \A s \in Session : callback[s] => started

\* What refers to a session, and the reference that keeps it alive.
SessionInv ==
  /\ \A s \in Session :
       /\ home[s] = Main
       /\ life[s] = "live" <=> ref_count[s] > 0
       /\ ref_count[s] = B(callback[s]) + B(kernel[s] # "no") + B(src_id[s])
       /\ life[s] = "unused" =>
            ~callback[s] /\ kernel[s] = "no" /\ ~src_id[s]
       /\ kernel[s] = "in" => callback[s]
       /\ callback[s] => kernel[s] # "no"
       /\ src_id[s] => callback[s]
       /\ s \in sources => src_id[s]
       /\ ready[s] # {} => kernel[s] = "in"
       /\ events[s] # {} => callback[s]

\* Only the main thread deletes and dispatches, one session at a time.
ThreadInv ==
  \A t \in Thread :
    /\ pc[t] \in {"interrupt", "wait", "wrapper", "callback"} => t = Main
    /\ pc[t] = "wrapper" => src_id[cur[t]] /\ cur[t] \notin sources
    /\ pc[t] = "callback" => callback[cur[t]]

\* A byte in the pipe has been reported to the poll thread, or will be.
PipeInv ==
  /\ started /\ pipe > 0 => pipe_edge \/ pipe_event
  /\ pipe_event => pp \in {"got", "fetched"}
  /\ \A t \in Thread : pc[t] = "wait" => pipe > 0

\* Before evd_poll_add starts it there is no poll thread and an empty pipe.
StartInv ==
  started \/ Finalizing \/ (pp = "none" /\ pipe = 0)

\* A poll thread has a pipe, with a number above 3 while descriptor 0 is open;
\* where it could not be started the mutex is never free again.
FdInv ==
  /\ stdin /\ pp # "none" => interrupt_fd > 3
  /\ \A s \in Session : callback[s] => pp # "none"
  /\ started /\ pp = "none" => epoll_mutex # Nobody

IInv == TypeOK /\ LockInv /\ SessionInv /\ ThreadInv /\ PipeInv /\ StartInv /\ FdInv

\* The initial state satisfies the inductive invariant.
LEMMA InitInv == Init => IInv
<1> SUFFICES ASSUME Init PROVE IInv
  BY Zenon
<1> USE PollAssumption DEF Init
<1>1. TypeOK
  <2>1. (CHOOSE s \in Session : TRUE) \in Session
    BY Zenon
  <2> QED BY <2>1, ZenonT(40) DEF TypeOK
<1>2. LockInv /\ SessionInv
  BY DEF LockInv, SessionInv, B
<1>3. ThreadInv /\ PipeInv /\ StartInv /\ FdInv
  BY Zenon DEF ThreadInv, PipeInv, StartInv, FdInv
<1> QED BY <1>1, <1>2, <1>3, Zenon DEF IInv

\* The loop over the fetched events, as far as it came, gives every session a
\* reference for the source it attaches.
LEMMA EventsStep ==
  ASSUME IInv, NEW hit \in SUBSET Hit, evd_poll_dispatch_events(hit), Forget,
         UNCHANGED <<home, kernel, callback, ready>>
  PROVE  /\ cond_out' \in [Session -> SUBSET Reported]
         /\ ref_count' \in [Session -> Nat]
         /\ life' \in [Session -> {"unused", "live", "freed"}]
         /\ src_id' \in [Session -> BOOLEAN]
         /\ sources' \in SUBSET Session
         /\ \A s \in Session : src_id[s] => src_id'[s] /\ (s \in sources' => s \in sources)
         /\ SessionInv'
<1> DEFINE kept == {s \in hit : ref_count[s] > 1}
           new == {s \in kept : NeedsSource(s)}
           dead == hit \ kept
<1> USE DEF IInv
<1>1. /\ cond_out' = [s \in Session |-> IF s \in kept THEN Collected(s) ELSE cond_out[s]]
      /\ ref_count' = [s \in Session |-> IF s \in new THEN ref_count[s] + 1
                                        ELSE IF s \in dead THEN 0 ELSE ref_count[s]]
      /\ life' = [s \in Session |-> IF s \in dead THEN "freed" ELSE life[s]]
      /\ src_id' = [s \in Session |-> src_id[s] \/ s \in new]
      /\ sources' = sources \cup new
  BY Zenon DEF evd_poll_dispatch_events
<1>2. kept \in SUBSET Session /\ new \in SUBSET kept
  BY Zenon DEF Hit
<1>3. \A s \in new : ~src_id[s]
  BY Zenon DEF NeedsSource
<1>4. \A s \in hit : s \in Session /\ events[s] # {}
  BY Zenon DEF Hit
<1>5. dead = {}
  <2>1. \A s \in hit : callback[s] /\ kernel[s] # "no"
    BY <1>4, Zenon DEF SessionInv
  <2>2. \A s \in hit : ref_count[s] > 1
    BY <1>4, <2>1, SMTT(30) DEF SessionInv, TypeOK, B
  <2> QED BY <2>2, Zenon
<1>6. \A s \in new : callback[s]
  BY <1>2, <1>4, Zenon DEF SessionInv
<1> HIDE DEF kept, new, dead
<1>7. cond_out' \in [Session -> SUBSET Reported]
  <2>1. \A s \in Session : Collected(s) \in SUBSET Reported
    BY Zenon DEF Collected, TypeOK
  <2> QED BY <1>1, <2>1, Zenon DEF TypeOK
<1>8. ref_count' \in [Session -> Nat]
  BY <1>1 DEF TypeOK
<1>9. life' \in [Session -> {"unused", "live", "freed"}] /\ src_id' \in [Session -> BOOLEAN]
  BY <1>1, Zenon DEF TypeOK
<1>10. sources' \in SUBSET Session
  BY <1>1, <1>2, Zenon DEF TypeOK
<1>11. \A s \in Session : src_id[s] => src_id'[s] /\ (s \in sources' => s \in sources)
  BY <1>1, <1>3, Zenon
<1>12. SessionInv'
  <2>1. \A s \in Session : events'[s] = {}
    BY Zenon DEF Forget
  <2>2. \A s \in Session : /\ ref_count'[s] = IF s \in new THEN ref_count[s] + 1 ELSE ref_count[s]
                           /\ life'[s] = life[s] /\ src_id'[s] = (src_id[s] \/ s \in new)
                           /\ s \in sources' <=> (s \in sources \/ s \in new)
    BY <1>1, <1>5, Zenon
  <2>3. UNCHANGED <<home, kernel, callback, ready>>
    OBVIOUS
  <2> QED BY ONLY <1>3, <1>6, <2>1, <2>2, <2>3, SessionInv, TypeOK, SMTT(30)
          DEF SessionInv, TypeOK, B
<1> QED BY ONLY <1>7, <1>8, <1>9, <1>10, <1>11, <1>12, Zenon

\* Every step preserves the inductive invariant.
LEMMA NextInv ==
  ASSUME HomeDefaultOnly, IInv, [Next]_vars
  PROVE  IInv'
<1> USE PollAssumption DEF IInv, locks, fds, loop, wake, epoll, session, thread
<1>1. ASSUME evd_poll_thread_loop_new
      PROVE  IInv'
  <2>1. TypeOK'
    BY <1>1, Zenon DEF evd_poll_thread_loop_new, TypeOK
  <2>2. LockInv'
    BY <1>1, Zenon DEF evd_poll_thread_loop_new, LockInv
  <2>3. SessionInv'
    BY <1>1, Zenon DEF evd_poll_thread_loop_new, SessionInv
  <2>4. ThreadInv'
    BY <1>1, Zenon DEF evd_poll_thread_loop_new, ThreadInv
  <2>5. PipeInv'
    BY <1>1, Zenon DEF evd_poll_thread_loop_new, PipeInv
  <2>6. StartInv'
    BY <1>1, Zenon DEF evd_poll_thread_loop_new, StartInv, Finalizing
  <2>7. FdInv'
    BY <1>1, Zenon DEF evd_poll_thread_loop_new, FdInv
  <2> QED BY <2>1, <2>2, <2>3, <2>4, <2>5, <2>6, <2>7, Zenon
<1>2. ASSUME evd_poll_thread_loop_run
      PROVE  IInv'
  <2>1. TypeOK'
    BY <1>2, Zenon DEF evd_poll_thread_loop_run, TypeOK
  <2>2. LockInv'
    BY <1>2, Zenon DEF evd_poll_thread_loop_run, LockInv
  <2>3. SessionInv'
    BY <1>2, Zenon DEF evd_poll_thread_loop_run, SessionInv
  <2>4. ThreadInv'
    BY <1>2, Zenon DEF evd_poll_thread_loop_run, ThreadInv
  <2>5. PipeInv'
    BY <1>2, Zenon DEF evd_poll_thread_loop_run, PipeInv
  <2>6. StartInv'
    BY <1>2, Zenon DEF evd_poll_thread_loop_run, StartInv, Finalizing
  <2>7. FdInv'
    BY <1>2, Zenon DEF evd_poll_thread_loop_run, FdInv
  <2> QED BY <2>1, <2>2, <2>3, <2>4, <2>5, <2>6, <2>7
<1>3. ASSUME evd_poll_thread_loop_end
      PROVE  IInv'
  <2>1. TypeOK'
    BY <1>3, ZenonT(40) DEF evd_poll_thread_loop_end, TypeOK
  <2>2. LockInv'
    BY <1>3, Zenon DEF evd_poll_thread_loop_end, LockInv
  <2>3. SessionInv'
    BY <1>3, Zenon DEF evd_poll_thread_loop_end, SessionInv
  <2>4. ThreadInv'
    BY <1>3, Zenon DEF evd_poll_thread_loop_end, ThreadInv
  <2>5. PipeInv'
    BY <1>3, Zenon DEF evd_poll_thread_loop_end, PipeInv
  <2>6. StartInv'
    BY <1>3, Zenon DEF evd_poll_thread_loop_end, StartInv, Finalizing
  <2>7. FdInv'
    BY <1>3, Zenon DEF evd_poll_thread_loop_end, FdInv
  <2> QED BY <2>1, <2>2, <2>3, <2>4, <2>5, <2>6, <2>7
<1>4. ASSUME evd_poll_dispatch_lock
      PROVE  IInv'
  <2>1. TypeOK'
    BY <1>4, Zenon DEF evd_poll_dispatch_lock, TypeOK
  <2>2. LockInv'
    BY <1>4, Zenon DEF evd_poll_dispatch_lock, LockInv
  <2>3. SessionInv'
    BY <1>4, Zenon DEF evd_poll_dispatch_lock, SessionInv
  <2>4. ThreadInv'
    BY <1>4, Zenon DEF evd_poll_dispatch_lock, ThreadInv
  <2>5. PipeInv'
    BY <1>4, Zenon DEF evd_poll_dispatch_lock, PipeInv
  <2>6. StartInv'
    BY <1>4, Zenon DEF evd_poll_dispatch_lock, StartInv, Finalizing
  <2>7. FdInv'
    BY <1>4, Zenon DEF evd_poll_dispatch_lock, FdInv
  <2> QED BY <2>1, <2>2, <2>3, <2>4, <2>5, <2>6, <2>7
<1>5. ASSUME evd_poll_dispatch_wait
      PROVE  IInv'
  <2>1. TypeOK'
    BY <1>5, ZenonT(40) DEF evd_poll_dispatch_wait, Reportable, TypeOK
  <2>2. LockInv'
    BY <1>5, Zenon DEF evd_poll_dispatch_wait, Reportable, LockInv
  <2>3. SessionInv'
    BY <1>5, Zenon DEF evd_poll_dispatch_wait, Reportable, SessionInv
  <2>4. ThreadInv'
    BY <1>5, Zenon DEF evd_poll_dispatch_wait, Reportable, ThreadInv
  <2>5. PipeInv'
    BY <1>5, Zenon DEF evd_poll_dispatch_wait, Reportable, PipeInv
  <2>6. StartInv'
    BY <1>5, Zenon DEF evd_poll_dispatch_wait, Reportable, StartInv, Finalizing
  <2>7. FdInv'
    BY <1>5, Zenon DEF evd_poll_dispatch_wait, FdInv
  <2> QED BY <2>1, <2>2, <2>3, <2>4, <2>5, <2>6, <2>7
<1>6. ASSUME evd_poll_dispatch_eintr
      PROVE  IInv'
  <2>1. TypeOK'
    BY <1>6, ZenonT(40) DEF evd_poll_dispatch_eintr, Reportable, TypeOK
  <2>2. LockInv'
    BY <1>6, Zenon DEF evd_poll_dispatch_eintr, Reportable, LockInv
  <2>3. SessionInv'
    BY <1>6, Zenon DEF evd_poll_dispatch_eintr, Reportable, SessionInv
  <2>4. ThreadInv'
    BY <1>6, Zenon DEF evd_poll_dispatch_eintr, Reportable, ThreadInv
  <2>5. PipeInv'
    BY <1>6, Zenon DEF evd_poll_dispatch_eintr, Reportable, PipeInv
  <2>6. StartInv'
    BY <1>6, Zenon DEF evd_poll_dispatch_eintr, Reportable, StartInv, Finalizing
  <2>7. FdInv'
    BY <1>6, Zenon DEF evd_poll_dispatch_eintr, FdInv
  <2> QED BY <2>1, <2>2, <2>3, <2>4, <2>5, <2>6, <2>7
<1>7. ASSUME evd_poll_dispatch_unlock
      PROVE  IInv'
  <2>1. TypeOK'
    BY <1>7, Zenon DEF evd_poll_dispatch_unlock, TypeOK
  <2>2. LockInv'
    BY <1>7, Zenon DEF evd_poll_dispatch_unlock, LockInv
  <2>3. SessionInv'
    BY <1>7, Zenon DEF evd_poll_dispatch_unlock, SessionInv
  <2>4. ThreadInv'
    BY <1>7, Zenon DEF evd_poll_dispatch_unlock, ThreadInv
  <2>5. PipeInv'
    BY <1>7, Zenon DEF evd_poll_dispatch_unlock, PipeInv
  <2>6. StartInv'
    BY <1>7, Zenon DEF evd_poll_dispatch_unlock, StartInv, Finalizing
  <2>7. FdInv'
    BY <1>7, Zenon DEF evd_poll_dispatch_unlock, FdInv
  <2> QED BY <2>1, <2>2, <2>3, <2>4, <2>5, <2>6, <2>7
<1>8. ASSUME evd_poll_dispatch_process
      PROVE  IInv'
  <2>0. CASE started
    <3>1. /\ evd_poll_dispatch_events(Hit) /\ Forget
          /\ pipe' = PipeAfterRead /\ pipe_edge' = (pipe_edge /\ Taken = {})
          /\ pp = "fetched" /\ pp' = "iterate" /\ dispatch_src' = started
          /\ UNCHANGED <<fds, locks, started, main_loop, running, epoll, callback, home,
                         cond_in, thread, owed>>
      BY <1>8, <2>0, Zenon DEF evd_poll_dispatch_process
    <3>2. /\ cond_out' \in [Session -> SUBSET Reported]
          /\ ref_count' \in [Session -> Nat]
          /\ life' \in [Session -> {"unused", "live", "freed"}]
          /\ src_id' \in [Session -> BOOLEAN]
          /\ sources' \in SUBSET Session
          /\ \A s \in Session : src_id[s] => src_id'[s] /\ (s \in sources' => s \in sources)
          /\ SessionInv'
      BY <3>1, EventsStep, Zenon
    <3>3. pipe' \in Nat /\ pipe_edge' \in BOOLEAN /\ pipe' \in {0, pipe}
      BY <3>1 DEF PipeAfterRead, TypeOK
    <3>4. TypeOK'
      BY <3>1, <3>2, <3>3, ZenonT(40) DEF Forget, TypeOK
    <3>5. LockInv'
      BY <3>1, Zenon DEF LockInv
    <3>6. ThreadInv'
      BY <3>1, <3>2, ZenonT(40) DEF ThreadInv, TypeOK
    <3>7. PipeInv'
      <4>1. \A t \in Thread : pc'[t] # "wait"
        BY <1>8, <3>1, Zenon DEF evd_poll_dispatch_process, LockInv
      <4>2. pipe' > 0 => pipe_edge'
        <5>1. CASE pipe_event \/ Taken # {}
          BY <3>1, <5>1 DEF PipeAfterRead
        <5>2. CASE ~(pipe_event \/ Taken # {})
          BY <2>0, <3>1, <5>2, Zenon DEF PipeAfterRead, PipeInv
        <5> QED BY <5>1, <5>2, Zenon
      <4> QED BY <3>1, <4>1, <4>2, Zenon DEF PipeInv, Forget
    <3>8. StartInv' /\ FdInv'
      BY <2>0, <3>1, Zenon DEF StartInv, FdInv
    <3> QED BY <3>2, <3>4, <3>5, <3>6, <3>7, <3>8, Zenon
  <2>1. CASE ~started
    <3>1. /\ Forget /\ pp = "fetched" /\ pp' = "iterate" /\ dispatch_src' = started
          /\ UNCHANGED <<fds, locks, started, main_loop, running, epoll, callback, home, pipe,
                         pipe_edge, cond_in, cond_out, ref_count, life, src_id, sources,
                         thread, owed>>
      BY <1>8, <2>1, Zenon DEF evd_poll_dispatch_process
    <3>2. TypeOK'
      BY <3>1, ZenonT(40) DEF Forget, TypeOK
    <3>3. LockInv' /\ ThreadInv'
      BY <3>1, Zenon DEF LockInv, ThreadInv
    <3>4. SessionInv'
      BY <3>1, Zenon DEF Forget, SessionInv
    <3>5. PipeInv'
      BY <2>1, <3>1, Zenon DEF Forget, PipeInv
    <3>6. StartInv' /\ FdInv'
      BY <2>1, <3>1, Zenon DEF StartInv, FdInv, Finalizing
    <3> QED BY <3>2, <3>3, <3>4, <3>5, <3>6, Zenon
  <2> QED BY <2>0, <2>1, Zenon
<1>23. ASSUME evd_poll_dispatch_blocks
       PROVE  IInv'
  <2>1. /\ \E hit \in SUBSET Hit : evd_poll_dispatch_events(hit)
        /\ Forget /\ pipe' = 0 /\ pipe_edge' = FALSE
        /\ pp = "fetched" /\ pp' = "stuck" /\ epoll_mutex = Nobody /\ epoll_mutex' = Poller
        /\ started
        /\ UNCHANGED <<fds, interrupt_mutex, started, main_loop, running, dispatch_src,
                       epoll, callback, home, cond_in, thread, owed>>
    BY <1>23, Zenon DEF evd_poll_dispatch_blocks
  <2>2. /\ cond_out' \in [Session -> SUBSET Reported]
        /\ ref_count' \in [Session -> Nat]
        /\ life' \in [Session -> {"unused", "live", "freed"}]
        /\ src_id' \in [Session -> BOOLEAN]
        /\ sources' \in SUBSET Session
        /\ \A s \in Session : src_id[s] => src_id'[s] /\ (s \in sources' => s \in sources)
        /\ SessionInv'
    BY <2>1, EventsStep, Zenon
  <2>3. TypeOK'
    BY <2>1, <2>2, ZenonT(40) DEF Forget, TypeOK
  <2>4. \A t \in Thread : pc[t] \notin {"interrupt", "wait"}
    BY <2>1, Zenon DEF LockInv
  <2>5. LockInv'
    BY <2>1, <2>4, Zenon DEF LockInv
  <2>6. ThreadInv'
    BY <2>1, <2>2, ZenonT(40) DEF ThreadInv, TypeOK
  <2>7. PipeInv'
    BY <2>1, <2>4, SMTT(30) DEF Forget, PipeInv
  <2>8. StartInv' /\ FdInv'
    BY <2>1, Zenon DEF StartInv, FdInv
  <2> QED BY <2>2, <2>3, <2>5, <2>6, <2>7, <2>8, Zenon
<1>24. ASSUME evd_poll_stop_unused
       PROVE  IInv'
  <2>1. /\ stdin' = FALSE
        /\ UNCHANGED <<locks, interrupt_fd, loop, wake, events, epoll, session, sources,
                       thread, owed>>
    BY <1>24, Zenon DEF evd_poll_stop_unused
  <2>2. TypeOK'
    BY <2>1, ZenonT(40) DEF TypeOK
  <2>3. LockInv' /\ ThreadInv'
    BY <2>1, Zenon DEF LockInv, ThreadInv
  <2>4. SessionInv' /\ PipeInv'
    BY <2>1, Zenon DEF SessionInv, PipeInv
  <2>5. StartInv' /\ FdInv'
    BY <2>1, Zenon DEF StartInv, FdInv, Finalizing
  <2> QED BY <2>2, <2>3, <2>4, <2>5, Zenon
<1>9. ASSUME NEW t \in Thread, NEW s \in Session, NEW c \in SUBSET Cond, evd_poll_add(t, s, c)
      PROVE  IInv'
  <2>1. TypeOK'
    <3>1. PICK added \in BOOLEAN : NewSession(t, s, c, added)
      BY <1>9, Zenon DEF evd_poll_add
    <3>2. callback' \in [Session -> BOOLEAN]
      BY <3>1, Zenon DEF NewSession, TypeOK
    <3>3. /\ life' \in [Session -> {"unused", "live", "freed"}]
          /\ ref_count' \in [Session -> Nat]
          /\ kernel' \in [Session -> {"no", "in", "closed"}]
      BY <3>1, Zenon DEF NewSession, TypeOK
    <3>4. /\ home' \in [Session -> Thread]
          /\ cond_in' \in [Session -> SUBSET Cond]
          /\ UNCHANGED <<src_id, cond_out>>
      BY <3>1, Zenon DEF NewSession, TypeOK
    <3>5. /\ started' \in BOOLEAN /\ main_loop' \in BOOLEAN
          /\ running' \in BOOLEAN /\ dispatch_src' \in BOOLEAN
          /\ pp' \in {pp, "created"}
      BY <1>9, ZenonT(40) DEF evd_poll_add, evd_poll_start, TypeOK
    <3>6. stdin' \in BOOLEAN /\ interrupt_fd' \in Nat
      BY <1>9, Zenon DEF evd_poll_add, evd_poll_start, TypeOK
    <3> QED
      BY <1>9, <3>2, <3>3, <3>4, <3>5, <3>6, Zenon DEF evd_poll_add, TypeOK
  <2>2. LockInv'
    BY <1>9, SMTT(30) DEF evd_poll_add, NewSession, evd_poll_start, Idle, LockInv,
      TypeOK, SessionInv, ThreadInv, PipeInv, StartInv, B, Finalizing
  <2>3. SessionInv'
    BY <1>9, SMTT(30) DEF evd_poll_add, NewSession, evd_poll_start, Idle, SessionInv,
      TypeOK, B, HomeDefaultOnly
  <2>4. ThreadInv'
    BY <1>9, SMTT(30) DEF evd_poll_add, NewSession, evd_poll_start, Idle, ThreadInv,
      TypeOK, SessionInv, B
  <2>5. PipeInv'
    BY <1>9, SMTT(30) DEF evd_poll_add, NewSession, evd_poll_start, Idle, PipeInv,
      TypeOK, LockInv, SessionInv, ThreadInv, StartInv, B, Finalizing
  <2>6. StartInv'
    BY <1>9, Zenon DEF evd_poll_add, NewSession, evd_poll_start, Idle, StartInv,
      Finalizing
  <2>7. FdInv'
    BY <1>9, SMTT(30) DEF evd_poll_add, FdInv, NewSession, evd_poll_start, StartInv, Finalizing, TypeOK
  <2> QED BY <2>1, <2>2, <2>3, <2>4, <2>5, <2>6, <2>7, Zenon
<1>10. ASSUME NEW t \in Thread, NEW s \in Session, NEW c \in SUBSET Cond, evd_poll_mod(t, s, c)
      PROVE  IInv'
  <2>1. TypeOK'
    BY <1>10, ZenonT(80) DEF evd_poll_mod, Idle, TypeOK
  <2>2. LockInv'
    BY <1>10, Zenon DEF evd_poll_mod, Idle, LockInv
  <2>3. SessionInv'
    BY <1>10, SMTT(30) DEF evd_poll_mod, Idle, SessionInv
  <2>4. ThreadInv'
    BY <1>10, Zenon DEF evd_poll_mod, Idle, ThreadInv
  <2>5. PipeInv'
    BY <1>10, Zenon DEF evd_poll_mod, Idle, PipeInv
  <2>6. StartInv'
    BY <1>10, Zenon DEF evd_poll_mod, Idle, StartInv, Finalizing
  <2>7. FdInv'
    BY <1>10, Zenon DEF evd_poll_mod, FdInv
  <2> QED BY <2>1, <2>2, <2>3, <2>4, <2>5, <2>6, <2>7
<1>11. ASSUME NEW t \in Thread, NEW s \in Session, evd_poll_del(t, s)
      PROVE  IInv'
  <2>1. TypeOK'
    <3>1. CASE interrupt_mutex = Nobody
      <4>1. Drops(s) \in Nat
        BY SMTT(40) DEF Drops, B
      <4>2. ref_count' \in [Session -> Nat]
        <5>1. ref_count' = [ref_count EXCEPT ![s] = evd_poll_session_unref(@, Drops(s))]
          BY <1>11, <3>1, Zenon DEF evd_poll_del, evd_poll_del_body
        <5> QED BY <4>1, <5>1 DEF evd_poll_session_unref, TypeOK
      <4>3. sources' \in SUBSET Session
        BY <1>11, <3>1, SMTT(30) DEF evd_poll_del, evd_poll_del_body, g_source_remove,
          TypeOK
      <4>4. /\ src_id' \in [Session -> BOOLEAN]
            /\ callback' \in [Session -> BOOLEAN]
            /\ kernel' \in [Session -> {"no", "in", "closed"}]
            /\ life' \in [Session -> {"unused", "live", "freed"}]
        BY <1>11, <3>1, ZenonT(60) DEF evd_poll_del, evd_poll_del_body, TypeOK
      <4>5. /\ events' \in [Session -> SUBSET Reported]
            /\ ready' \in [Session -> SUBSET Reported]
            /\ owed' \in [Session -> SUBSET Reported]
            /\ UNCHANGED home
        <5>1. evd_poll_del_body(s)
          BY <1>11, <3>1, ZenonT(40) DEF evd_poll_del
        <5>2. events' \in [Session -> SUBSET Reported]
          BY <5>1, Zenon DEF evd_poll_del_body, EventsNulled, TypeOK
        <5>3. ready' \in [Session -> SUBSET Reported]
          BY <5>1, Zenon DEF evd_poll_del_body, TypeOK
        <5>4. owed' \in [Session -> SUBSET Reported] /\ UNCHANGED home
          BY <5>1, Zenon DEF evd_poll_del_body, TypeOK
        <5> QED BY <5>2, <5>3, <5>4, Zenon
      <4>7. cond_in' \in [Session -> SUBSET Cond]
        BY <1>11, <3>1, Zenon DEF evd_poll_del, evd_poll_del_body, TypeOK
      <4>8. cond_out' \in [Session -> SUBSET Reported]
        BY <1>11, <3>1, ZenonT(40) DEF evd_poll_del, evd_poll_del_body, TypeOK
      <4>6. UNCHANGED <<locks, fds, loop, wake, thread>>
        BY <1>11, <3>1, ZenonT(40) DEF evd_poll_del
      <4> QED
        BY <4>2, <4>3, <4>4, <4>5, <4>6, <4>7, <4>8 DEF TypeOK
    <3>2. CASE interrupt_mutex # Nobody
      <4>1. /\ epoll_mutex' = t
            /\ pc' = [pc EXCEPT ![t] = "interrupt"]
            /\ cur' = [cur EXCEPT ![t] = s]
            /\ UNCHANGED <<fds, interrupt_mutex, loop, wake, arg, events, epoll,
                           session, sources, owed>>
        BY <1>11, <3>2, Zenon DEF evd_poll_del
      <4> QED BY <4>1, SMTT(40) DEF TypeOK
    <3> QED BY <3>1, <3>2, Zenon
  <2>2. LockInv'
    BY <1>11, SMTT(30) DEF evd_poll_del, Idle, evd_poll_del_body, EventsNulled, Drops,
      evd_poll_session_unref, g_source_remove, LockInv, TypeOK
  <2>3. SessionInv'
    BY <1>11, SMTT(30) DEF evd_poll_del, Idle, evd_poll_del_body, EventsNulled, Drops,
      evd_poll_session_unref, g_source_remove, SessionInv, TypeOK, B
  <2>4. ThreadInv'
    BY <1>11, SMTT(30) DEF evd_poll_del, Idle, evd_poll_del_body, EventsNulled, Drops,
      evd_poll_session_unref, g_source_remove, ThreadInv, TypeOK, SessionInv, B
  <2>5. PipeInv'
    BY <1>11, ZenonT(40) DEF evd_poll_del, Idle, evd_poll_del_body, EventsNulled, Drops,
      evd_poll_session_unref, g_source_remove, PipeInv, TypeOK
  <2>6. StartInv'
    BY <1>11, ZenonT(40) DEF evd_poll_del, Idle, evd_poll_del_body, EventsNulled, Drops,
      evd_poll_session_unref, g_source_remove, StartInv, TypeOK, Finalizing
  <2>7. FdInv'
    BY <1>11, SMTT(30) DEF evd_poll_del, FdInv, evd_poll_del_body, Idle, TypeOK
  <2> QED BY <2>1, <2>2, <2>3, <2>4, <2>5, <2>6, <2>7, Zenon
<1>12. ASSUME NEW t \in Thread, evd_poll_del_interrupt(t)
      PROVE  IInv'
  <2>1. TypeOK'
    BY <1>12, SMTT(30) DEF evd_poll_del_interrupt, evd_poll_interrupt_epoll_wait,
      TypeOK, B
  <2>2. LockInv'
    BY <1>12, SMTT(30) DEF evd_poll_del_interrupt, evd_poll_interrupt_epoll_wait,
      LockInv
  <2>3. SessionInv'
    BY <1>12, ZenonT(40) DEF evd_poll_del_interrupt, evd_poll_interrupt_epoll_wait,
      SessionInv
  <2>4. ThreadInv'
    BY <1>12, SMTT(30) DEF evd_poll_del_interrupt, evd_poll_interrupt_epoll_wait,
      ThreadInv
  <2>5. PipeInv'
    BY <1>12, SMTT(40) DEF evd_poll_del_interrupt, evd_poll_interrupt_epoll_wait,
      PipeInv, TypeOK
  <2>6. StartInv'
    BY <1>12, ZenonT(40) DEF evd_poll_del_interrupt, evd_poll_interrupt_epoll_wait,
      StartInv, TypeOK, LockInv, Finalizing
  <2>7. FdInv'
    BY <1>12, Zenon DEF evd_poll_del_interrupt, FdInv
  <2> QED BY <2>1, <2>2, <2>3, <2>4, <2>5, <2>6, <2>7, Zenon
<1>13. ASSUME NEW t \in Thread, evd_poll_del_finish(t)
      PROVE  IInv'
  <2>1. TypeOK'
    BY <1>13, SMTT(30) DEF evd_poll_del_finish, evd_poll_del_body, EventsNulled, Drops,
      evd_poll_session_unref, g_source_remove, TypeOK, B
  <2>2. LockInv'
    BY <1>13, ZenonT(40) DEF evd_poll_del_finish, evd_poll_del_body, EventsNulled, Drops,
      evd_poll_session_unref, g_source_remove, LockInv, TypeOK
  <2>3. SessionInv'
    BY <1>13, SMTT(30) DEF evd_poll_del_finish, evd_poll_del_body, EventsNulled, Drops,
      evd_poll_session_unref, g_source_remove, SessionInv, TypeOK, LockInv, B
  <2>4. ThreadInv'
    BY <1>13, SMTT(30) DEF evd_poll_del_finish, evd_poll_del_body, EventsNulled, Drops,
      evd_poll_session_unref, g_source_remove, ThreadInv
  <2>5. PipeInv'
    BY <1>13, Zenon DEF evd_poll_del_finish, evd_poll_del_body, EventsNulled, Drops,
      evd_poll_session_unref, g_source_remove, PipeInv
  <2>6. StartInv'
    BY <1>13, SMTT(30) DEF evd_poll_del_finish, evd_poll_del_body, EventsNulled, Drops,
      evd_poll_session_unref, g_source_remove, StartInv, Finalizing
  <2>7. FdInv'
    BY <1>13, SMTT(30) DEF evd_poll_del_finish, FdInv, evd_poll_del_body, LockInv, TypeOK
  <2> QED BY <2>1, <2>2, <2>3, <2>4, <2>5, <2>6, <2>7, SMTT(40)
<1>14. ASSUME NEW t \in Thread, evd_poll_callback_wrapper_locked(t)
      PROVE  IInv'
  <2>1. TypeOK'
    BY <1>14, SMTT(30) DEF evd_poll_callback_wrapper_locked, SourceDone,
      evd_poll_session_unref, TypeOK
  <2>2. LockInv'
    BY <1>14, SMTT(30) DEF evd_poll_callback_wrapper_locked, SourceDone,
      evd_poll_session_unref, LockInv
  <2>3. SessionInv'
    BY <1>14, SMTT(30) DEF evd_poll_callback_wrapper_locked, SourceDone,
      evd_poll_session_unref, SessionInv, TypeOK, ThreadInv, B
  <2>4. ThreadInv'
    BY <1>14, ZenonT(40) DEF evd_poll_callback_wrapper_locked, SourceDone,
      evd_poll_session_unref, ThreadInv, TypeOK
  <2>5. PipeInv'
    BY <1>14, SMTT(40) DEF evd_poll_callback_wrapper_locked, SourceDone,
      evd_poll_session_unref, PipeInv
  <2>6. StartInv'
    BY <1>14, SMTT(40) DEF evd_poll_callback_wrapper_locked, SourceDone,
      evd_poll_session_unref, StartInv, Finalizing
  <2>7. FdInv'
    BY <1>14, Zenon DEF evd_poll_callback_wrapper_locked, FdInv
  <2> QED BY <2>1, <2>2, <2>3, <2>4, <2>5, <2>6, <2>7
<1>15. ASSUME NEW t \in Thread, evd_poll_callback_wrapper_call(t)
      PROVE  IInv'
  <2>1. TypeOK'
    BY <1>15, SMTT(30) DEF evd_poll_callback_wrapper_call, TypeOK
  <2>2. LockInv'
    BY <1>15, SMTT(30) DEF evd_poll_callback_wrapper_call, LockInv
  <2>3. SessionInv'
    BY <1>15, ZenonT(40) DEF evd_poll_callback_wrapper_call, SessionInv
  <2>4. ThreadInv'
    BY <1>15, SMTT(30) DEF evd_poll_callback_wrapper_call, ThreadInv
  <2>5. PipeInv'
    BY <1>15, SMTT(40) DEF evd_poll_callback_wrapper_call, PipeInv
  <2>6. StartInv'
    BY <1>15, SMTT(30) DEF evd_poll_callback_wrapper_call, StartInv, Finalizing
  <2>7. FdInv'
    BY <1>15, Zenon DEF evd_poll_callback_wrapper_call, FdInv
  <2> QED BY <2>1, <2>2, <2>3, <2>4, <2>5, <2>6, <2>7
<1>16. ASSUME NEW t \in Thread, evd_poll_stop_joined(t)
      PROVE  IInv'
  <2>1. TypeOK'
    BY <1>16, SMTT(30) DEF evd_poll_stop_joined, TypeOK
  <2>2. LockInv'
    BY <1>16, SMTT(40) DEF evd_poll_stop_joined, LockInv
  <2>3. SessionInv'
    BY <1>16, ZenonT(40) DEF evd_poll_stop_joined, SessionInv
  <2>4. ThreadInv'
    BY <1>16, SMTT(30) DEF evd_poll_stop_joined, ThreadInv
  <2>5. PipeInv'
    BY <1>16 DEF evd_poll_stop_joined, PipeInv
  <2>6. StartInv'
    BY <1>16, SMTT(40) DEF evd_poll_stop_joined, StartInv, Finalizing
  <2>7. FdInv'
    BY <1>16, Zenon DEF evd_poll_stop_joined, FdInv
  <2> QED BY <2>1, <2>2, <2>3, <2>4, <2>5, <2>6, <2>7
<1>17. ASSUME NEW t \in Thread, NEW s \in Session, evd_poll_callback_wrapper(t, s)
      PROVE  IInv'
  <2>1. TypeOK'
    BY <1>17, SMTT(30) DEF evd_poll_callback_wrapper, Idle, TypeOK
  <2>2. LockInv'
    BY <1>17, SMTT(30) DEF evd_poll_callback_wrapper, Idle, LockInv
  <2>3. SessionInv'
    BY <1>17, ZenonT(40) DEF evd_poll_callback_wrapper, Idle, SessionInv
  <2>4. ThreadInv'
    BY <1>17, SMTT(30) DEF evd_poll_callback_wrapper, Idle, ThreadInv, TypeOK,
      SessionInv
  <2>5. PipeInv'
    BY <1>17, SMTT(30) DEF evd_poll_callback_wrapper, Idle, PipeInv
  <2>6. StartInv'
    BY <1>17, SMTT(30) DEF evd_poll_callback_wrapper, Idle, StartInv, Finalizing
  <2>7. FdInv'
    BY <1>17, Zenon DEF evd_poll_callback_wrapper, FdInv
  <2> QED BY <2>1, <2>2, <2>3, <2>4, <2>5, <2>6, <2>7, SMTT(40)
<1>18. ASSUME NEW t \in Thread, evd_poll_add_start_failed(t)
      PROVE  IInv'
  <2>1. TypeOK'
    BY <1>18, ZenonT(40) DEF evd_poll_add_start_failed, Idle, TypeOK
  <2>2. LockInv'
    BY <1>18, ZenonT(40) DEF evd_poll_add_start_failed, Idle, LockInv
  <2>3. SessionInv'
    BY <1>18, ZenonT(40) DEF evd_poll_add_start_failed, Idle, SessionInv
  <2>4. ThreadInv'
    BY <1>18, Zenon DEF evd_poll_add_start_failed, Idle, ThreadInv
  <2>5. PipeInv'
    BY <1>18, SMTT(30) DEF evd_poll_add_start_failed, Idle, PipeInv, TypeOK, LockInv,
      SessionInv, ThreadInv, StartInv, Finalizing
  <2>6. StartInv'
    BY <1>18, Zenon DEF evd_poll_add_start_failed, Idle, StartInv, Finalizing
  <2>7. FdInv'
    BY <1>18, SMTT(30) DEF evd_poll_add_start_failed, FdInv, StartInv, Finalizing, TypeOK
  <2> QED BY <2>1, <2>2, <2>3, <2>4, <2>5, <2>6, <2>7
<1>19. ASSUME NEW t \in Thread, evd_poll_stop(t)
      PROVE  IInv'
  <2>1. TypeOK'
    <3>1. running' \in BOOLEAN
      BY <1>19, Zenon DEF evd_poll_stop, evd_poll_finalize
    <3>2. pipe' \in Nat /\ pipe_edge' \in BOOLEAN /\ pipe_event' \in BOOLEAN
      BY <1>19, SMTT(40) DEF evd_poll_stop, evd_poll_finalize, evd_poll_interrupt_epoll_wait, TypeOK
    <3> QED BY <1>19, <3>1, <3>2, ZenonT(40) DEF evd_poll_stop, evd_poll_finalize, TypeOK
  <2>2. LockInv'
    BY <1>19, ZenonT(40) DEF evd_poll_stop, evd_poll_finalize, Idle, evd_poll_interrupt_epoll_wait, TypeOK,
      LockInv
  <2>3. SessionInv'
    BY <1>19, Zenon DEF evd_poll_stop, evd_poll_finalize, Idle, evd_poll_interrupt_epoll_wait,
      SessionInv
  <2>4. ThreadInv'
    BY <1>19, Zenon DEF evd_poll_stop, evd_poll_finalize, Idle, evd_poll_interrupt_epoll_wait, TypeOK,
      ThreadInv
  <2>5. PipeInv'
    BY <1>19, Zenon DEF evd_poll_stop, evd_poll_finalize, Idle, evd_poll_interrupt_epoll_wait, TypeOK,
      PipeInv
  <2>6. StartInv'
    BY <1>19, Zenon DEF evd_poll_stop, evd_poll_finalize, Idle, evd_poll_interrupt_epoll_wait, StartInv,
      TypeOK, Finalizing
  <2>7. FdInv'
    BY <1>19, SMTT(30) DEF evd_poll_stop, evd_poll_finalize, FdInv, TypeOK
  <2> QED BY <2>1, <2>2, <2>3, <2>4, <2>5, <2>6, <2>7
<1>20. ASSUME NEW s \in Session, NEW c \in Reported, Raise(s, c)
      PROVE  IInv'
  <2>1. TypeOK'
    BY <1>20, SMTT(30) DEF Raise, TypeOK, Reported
  <2>2. LockInv'
    BY <1>20, ZenonT(40) DEF Raise, LockInv
  <2>3. SessionInv'
    BY <1>20, SMTT(30) DEF Raise, SessionInv
  <2>4. ThreadInv'
    BY <1>20, ZenonT(40) DEF Raise, ThreadInv
  <2>5. PipeInv'
    BY <1>20, Zenon DEF Raise, PipeInv
  <2>6. StartInv'
    BY <1>20, Zenon DEF Raise, StartInv, Finalizing
  <2>7. FdInv'
    BY <1>20, Zenon DEF Raise, FdInv
  <2> QED BY <2>1, <2>2, <2>3, <2>4, <2>5, <2>6, <2>7, ZenonT(40)
<1>21. ASSUME NEW s \in Session, FdClosed(s)
      PROVE  IInv'
  <2>1. TypeOK'
    BY <1>21, SMTT(30) DEF FdClosed, TypeOK
  <2>2. LockInv'
    BY <1>21, ZenonT(40) DEF FdClosed, LockInv
  <2>3. SessionInv'
    BY <1>21, ZenonT(40) DEF FdClosed, SessionInv, TypeOK, B
  <2>4. ThreadInv'
    BY <1>21, ZenonT(40) DEF FdClosed, ThreadInv
  <2>5. PipeInv'
    BY <1>21, Zenon DEF FdClosed, PipeInv
  <2>6. StartInv'
    BY <1>21, Zenon DEF FdClosed, StartInv, Finalizing
  <2>7. FdInv'
    BY <1>21, Zenon DEF FdClosed, FdInv
  <2> QED BY <2>1, <2>2, <2>3, <2>4, <2>5, <2>6, <2>7, Zenon
<1>22. ASSUME UNCHANGED vars PROVE IInv'
  <2> USE <1>22 DEF vars, locks, fds, loop, wake, epoll, session, thread
  <2>1. TypeOK'
    BY SMTT(30) DEF TypeOK
  <2>2. LockInv'
    BY ZenonT(40) DEF LockInv
  <2>3. SessionInv'
    BY Zenon DEF SessionInv, B
  <2>4. ThreadInv'
    BY ZenonT(40) DEF ThreadInv
  <2>5. PipeInv'
    BY Zenon DEF PipeInv
  <2>6. StartInv'
    BY Zenon DEF StartInv, Finalizing
  <2>7. FdInv'
    BY Zenon DEF FdInv
  <2> QED BY <2>1, <2>2, <2>3, <2>4, <2>5, <2>6, <2>7, Zenon
<1> QED
  BY <1>1, <1>2, <1>3, <1>4, <1>5, <1>6, <1>7, <1>8, <1>9, <1>10, <1>11,
      <1>12, <1>13, <1>14, <1>15, <1>16, <1>17, <1>18, <1>19, <1>20, <1>21,
      <1>22, <1>23, <1>24, ZenonT(40) DEF Next, PollThread, Call, Return

\* IInv holds in every reachable state: of any behaviour of EvdPoll whose
\* threads leave their thread default main context alone.
THEOREM Invariance ==
  ASSUME HomeDefaultOnly
  PROVE  Spec => []IInv
<1>1. IInv /\ [Next]_vars => IInv'
  BY NextInv, Zenon
<1> QED BY InitInv, <1>1, PTL DEF Spec

\* The state of every component stays in its type.
THEOREM TypeCorrect ==
  ASSUME HomeDefaultOnly
  PROVE  Spec => []TypeOK
<1>1. IInv => TypeOK
  BY ZenonT(40) DEF IInv
<1> QED BY Invariance, <1>1, PTL

\* evd_poll_del, the poll thread and the callback wrapper never dereference a
\* freed session, and no callback is called after evd_poll_del has returned.
THEOREM FreedSessionsUnused ==
  ASSUME HomeDefaultOnly
  PROVE  Spec => []NoFreedSessionUsed
<1>1. IInv => NoFreedSessionUsed
  BY SMTT(30) DEF IInv, TypeOK, LockInv, SessionInv, ThreadInv, NoFreedSessionUsed, B
<1> QED BY Invariance, <1>1, PTL

\* A session's ref_count is the number of its holders: the caller, the epoll
\* set and a pending source.
THEOREM ReferencesCounted ==
  ASSUME HomeDefaultOnly
  PROVE  Spec => []RefAccounting
<1>1. IInv => RefAccounting
  BY SMTT(30) DEF IInv, TypeOK, SessionInv, RefAccounting
<1> QED BY Invariance, <1>1, PTL

\* The test that tells the pipe's event from a session's never confuses them,
\* whatever number the pipe's descriptor gets, as long as no poll that was never
\* used has closed descriptor 0.
THEOREM PipeRecognised ==
  ASSUME HomeDefaultOnly
  PROVE  Spec => []SessionNotTakenForPipe
<1>1. IInv => SessionNotTakenForPipe
  BY SMTT(30) DEF IInv, TypeOK, SessionInv, FdInv, SessionNotTakenForPipe, B
<1> QED BY Invariance, <1>1, PTL

\* evd_poll_del and the poll thread never wait for one another: while the one
\* waits for interrupt_mutex, epoll has an edge to wake the other with.
THEOREM PollerWoken ==
  ASSUME HomeDefaultOnly
  PROVE  Spec => []DelWakesPoller
<1>1. IInv => DelWakesPoller
  BY Zenon DEF IInv, TypeOK, LockInv, PipeInv, DelWakesPoller
<1> QED BY Invariance, <1>1, PTL

-----------------------------------------------------------------------------
\* EvdPoll loses no condition between the kernel and the callback.

\* The poll thread has fetched events only until it has processed them.
FetchedInv ==
  \A s \in Session : events[s] # {} => pp \in {"got", "fetched"}

\* A session that was never added has no conditions.
FreshInv ==
  \A s \in Session : life[s] = "unused" => owed[s] = {} /\ cond_out[s] = {}

\* A source that is noted in the session is attached or being dispatched.
SourceInv ==
  \A s \in Session : src_id[s] =>
    s \in sources \/ \E t \in Thread : pc[t] = "wrapper" /\ cur[t] = s

\* Collected conditions have a source.
CollectedInv ==
  \A s \in Session : callback[s] /\ cond_out[s] # {} => src_id[s]

\* c is in epoll, in the fetched events, collected, or an argument of a callback.
OnItsWay(s, c) ==
  \/ c \in ready[s] \/ c \in events[s] \/ c \in cond_out[s]
  \/ \E t \in Thread : pc[t] = "callback" /\ cur[t] = s /\ c \in arg[t]

OwedInv ==
  stdin => \A s \in Session : callback[s] /\ kernel[s] = "in" =>
    \A c \in owed[s] : OnItsWay(s, c)

DInv == FetchedInv /\ FreshInv /\ SourceInv /\ CollectedInv /\ OwedInv

\* No session has been added initially.
LEMMA InitDelivery == Init => DInv
BY Zenon DEF Init, DInv, FetchedInv, FreshInv, SourceInv, CollectedInv, OwedInv

\* Nothing is left of session s, and all of the others.
Deleted(s) ==
  /\ ~callback'[s] /\ ~src_id'[s] /\ events'[s] = {} /\ owed'[s] = {}
  /\ cond_out'[s] \in {cond_out[s], {}} /\ life'[s] \in {life[s], "freed"}
  /\ \A x \in Session \ {s} :
       /\ events'[x] = events[x] /\ ready'[x] = ready[x]
       /\ kernel'[x] = kernel[x] /\ life'[x] = life[x]
       /\ callback'[x] = callback[x] /\ src_id'[x] = src_id[x]
       /\ cond_out'[x] = cond_out[x] /\ owed'[x] = owed[x]
       /\ x \in sources => x \in sources'

\* evd_poll_del takes its session away.
LEMMA DelBody ==
  ASSUME IInv, NEW s \in Session, evd_poll_del_body(s)
  PROVE  Deleted(s)
<1> USE DEF IInv, TypeOK, evd_poll_del_body
<1>1. ~callback'[s] /\ ~src_id'[s] /\ events'[s] = {} /\ owed'[s] = {}
  BY Zenon DEF EventsNulled
<1>2. cond_out'[s] \in {cond_out[s], {}} /\ life'[s] \in {life[s], "freed"}
  BY Zenon
<1>3. ASSUME NEW x \in Session \ {s}
      PROVE  /\ events'[x] = events[x] /\ ready'[x] = ready[x]
             /\ kernel'[x] = kernel[x] /\ life'[x] = life[x]
             /\ callback'[x] = callback[x] /\ src_id'[x] = src_id[x]
             /\ cond_out'[x] = cond_out[x] /\ owed'[x] = owed[x]
  BY Zenon DEF EventsNulled
<1>4. ASSUME NEW x \in Session \ {s}, x \in sources
      PROVE  x \in sources'
  BY <1>4, ZenonT(40) DEF g_source_remove, SessionInv
<1> QED BY ONLY <1>1, <1>2, <1>3, <1>4, Zenon DEF Deleted

\* The loop over the fetched events, as far as it came, attaches a source with
\* the conditions it collects.
LEMMA EventsDelivery ==
  ASSUME IInv, DInv, NEW hit \in SUBSET Hit, evd_poll_dispatch_events(hit),
         UNCHANGED <<callback, pc, cur, owed>>
  PROVE  FreshInv' /\ SourceInv' /\ CollectedInv'
<1> DEFINE kept == {s \in hit : ref_count[s] > 1}
<1>1. \A s \in Session :
        /\ cond_out'[s] = IF s \in kept THEN cond_out[s] \cup events[s] ELSE cond_out[s]
        /\ src_id'[s] = (src_id[s] \/ s \in kept)
        /\ life'[s] \in {life[s], "freed"}
        /\ s \in sources' <=> s \in sources \/ (s \in kept /\ ~src_id[s])
  BY Zenon DEF IInv, evd_poll_dispatch_events, NeedsSource, Collected, TypeOK, Hit
<1>2. \A s \in Session : s \in kept => life[s] # "unused"
  BY Zenon DEF IInv, SessionInv, Hit
<1> HIDE DEF kept
<1> USE DEF DInv
<1>3. FreshInv'
  BY <1>1, <1>2, ZenonT(40) DEF FreshInv
<1>4. SourceInv'
  BY <1>1, ZenonT(40) DEF SourceInv
<1>5. CollectedInv'
  BY <1>1, ZenonT(40) DEF CollectedInv
<1> QED BY <1>3, <1>4, <1>5, Zenon

\* Every step preserves the delivery invariant.
LEMMA NextDelivery ==
  ASSUME HomeDefaultOnly, IInv, DInv, [Next]_vars
  PROVE  DInv'
<1> USE PollAssumption DEF IInv, DInv, locks, fds, loop, wake, epoll, session, thread
<1>1. ASSUME evd_poll_thread_loop_new
      PROVE  DInv'
  BY <1>1 DEF evd_poll_thread_loop_new, FetchedInv, FreshInv, SourceInv,
    CollectedInv, OwedInv, OnItsWay
<1>2. ASSUME evd_poll_thread_loop_run
      PROVE  DInv'
  BY <1>2 DEF evd_poll_thread_loop_run, FetchedInv, FreshInv, SourceInv,
    CollectedInv, OwedInv, OnItsWay
<1>3. ASSUME evd_poll_thread_loop_end
      PROVE  DInv'
  BY <1>3 DEF evd_poll_thread_loop_end, FetchedInv, FreshInv, SourceInv,
    CollectedInv, OwedInv, OnItsWay
<1>4. ASSUME evd_poll_dispatch_lock
      PROVE  DInv'
  BY <1>4 DEF evd_poll_dispatch_lock, FetchedInv, FreshInv, SourceInv,
    CollectedInv, OwedInv, OnItsWay
<1>5. ASSUME evd_poll_dispatch_wait
      PROVE  DInv'
  <2>1. FetchedInv'
    BY <1>5, Zenon DEF evd_poll_dispatch_wait, Reportable, FetchedInv, TypeOK
  <2>2. FreshInv'
    BY <1>5, Zenon DEF evd_poll_dispatch_wait, Reportable, FreshInv
  <2>3. SourceInv'
    BY <1>5, Zenon DEF evd_poll_dispatch_wait, Reportable, SourceInv
  <2>4. CollectedInv'
    BY <1>5, Zenon DEF evd_poll_dispatch_wait, Reportable, CollectedInv
  <2>5. OwedInv'
    BY <1>5, SMTT(40) DEF evd_poll_dispatch_wait, Reportable, OwedInv, OnItsWay,
      FetchedInv, TypeOK
  <2> QED BY <2>1, <2>2, <2>3, <2>4, <2>5, Zenon
<1>6. ASSUME evd_poll_dispatch_eintr
      PROVE  DInv'
  <2>1. FetchedInv'
    BY <1>6, Zenon DEF evd_poll_dispatch_eintr, Reportable, FetchedInv
  <2>2. FreshInv'
    BY <1>6, Zenon DEF evd_poll_dispatch_eintr, Reportable, FreshInv
  <2>3. SourceInv'
    BY <1>6, Zenon DEF evd_poll_dispatch_eintr, Reportable, SourceInv
  <2>4. CollectedInv'
    BY <1>6, Zenon DEF evd_poll_dispatch_eintr, Reportable, CollectedInv
  <2>5. OwedInv'
    <3> SUFFICES ASSUME stdin', NEW s \in Session, callback'[s], kernel'[s] = "in",
                        NEW c \in owed'[s]
                 PROVE  OnItsWay(s, c)'
      BY Zenon DEF OwedInv
    <3>1. OnItsWay(s, c)
      BY <1>6, Zenon DEF evd_poll_dispatch_eintr, OwedInv
    <3>2. c \notin events[s]
      BY <1>6, SMTT(40) DEF evd_poll_dispatch_eintr, FetchedInv
    <3> QED BY <1>6, <3>1, <3>2, Zenon DEF evd_poll_dispatch_eintr, OnItsWay
  <2> QED BY <2>1, <2>2, <2>3, <2>4, <2>5
<1>7. ASSUME evd_poll_dispatch_unlock
      PROVE  DInv'
  <2>1. FetchedInv'
    BY <1>7, Zenon DEF evd_poll_dispatch_unlock, FetchedInv
  <2>2. FreshInv'
    BY <1>7, Zenon DEF evd_poll_dispatch_unlock, FreshInv
  <2>3. SourceInv'
    BY <1>7, Zenon DEF evd_poll_dispatch_unlock, SourceInv
  <2>4. CollectedInv'
    BY <1>7, Zenon DEF evd_poll_dispatch_unlock, CollectedInv
  <2>5. OwedInv'
    <3> SUFFICES ASSUME stdin', NEW s \in Session, callback'[s], kernel'[s] = "in",
                        NEW c \in owed'[s]
                 PROVE  OnItsWay(s, c)'
      BY Zenon DEF OwedInv
    <3>1. OnItsWay(s, c)
      BY <1>7, Zenon DEF evd_poll_dispatch_unlock, OwedInv
    <3> QED BY <1>7, <3>1, Zenon DEF evd_poll_dispatch_unlock, OnItsWay
  <2> QED BY <2>1, <2>2, <2>3, <2>4, <2>5, Zenon
<1>8. ASSUME evd_poll_dispatch_process
      PROVE  DInv'
  <2>1. FetchedInv'
    BY <1>8, Zenon DEF evd_poll_dispatch_process, Forget, FetchedInv
  <2>2. CASE ~started
    <3>1. \A s \in Session : ~callback[s] /\ ~src_id[s]
      BY <2>2, Zenon DEF LockInv, SessionInv
    <3> QED
      BY <1>8, <2>1, <2>2, <3>1, ZenonT(40) DEF evd_poll_dispatch_process, FreshInv,
        SourceInv, CollectedInv, OwedInv, TypeOK
  <2>3. CASE started
    <3>1. evd_poll_dispatch_events(Hit) /\ UNCHANGED <<fds, ready, kernel, callback, pc, cur, arg, owed>>
      BY <1>8, <2>3, Zenon DEF evd_poll_dispatch_process
    <3>2. FreshInv' /\ SourceInv' /\ CollectedInv'
      BY <3>1, EventsDelivery, Zenon
    <3>3. ASSUME stdin, NEW s \in Session, callback[s], kernel[s] = "in",
                 NEW c \in owed[s], OnItsWay(s, c)
          PROVE  OnItsWay(s, c)'
      <4>1. c \in events[s] => s \in Hit /\ ref_count[s] > 1
        BY <3>3, SMTT(40) DEF SessionInv, FdInv, Hit, Taken, TypeOK, B
      <4>2. cond_out'[s] = IF s \in Hit /\ ref_count[s] > 1 THEN cond_out[s] \cup events[s] ELSE cond_out[s]
        BY <3>1, Zenon DEF evd_poll_dispatch_events, Collected
      <4>3. c \in cond_out[s] \/ c \in events[s] => c \in cond_out'[s]
        BY <4>1, <4>2, Zenon
      <4> QED BY <3>1, <3>3, <4>3, Zenon DEF OnItsWay
    <3>4. OwedInv'
      BY <3>1, <3>3, Zenon DEF OwedInv
    <3> QED BY <2>1, <3>2, <3>4, Zenon
  <2> QED BY <2>2, <2>3, Zenon DEF TypeOK
<1>23. ASSUME evd_poll_dispatch_blocks
       PROVE  DInv'
  <2>1. /\ \E hit \in SUBSET Hit : evd_poll_dispatch_events(hit)
        /\ UNCHANGED <<fds, ready, kernel, callback, pc, cur, arg, owed>>
    BY <1>23, Zenon DEF evd_poll_dispatch_blocks
  <2>2. FreshInv' /\ SourceInv' /\ CollectedInv'
    BY <2>1, EventsDelivery, Zenon
  <2>3. FetchedInv'
    BY <1>23, Zenon DEF evd_poll_dispatch_blocks, Forget, FetchedInv
  <2>4. ~stdin
    <3>1. PICK s \in Session : events[s] # {} /\ ref_count[s] = interrupt_fd
      BY <1>23, Zenon DEF evd_poll_dispatch_blocks, Blocks, Taken
    <3> QED BY <3>1, SMTT(40) DEF SessionInv, FdInv, TypeOK, B
  <2>5. OwedInv'
    BY <2>1, <2>4, Zenon DEF OwedInv
  <2> QED BY <2>2, <2>3, <2>5, Zenon
<1>24. ASSUME evd_poll_stop_unused
       PROVE  DInv'
  <2>1. /\ stdin' = FALSE
        /\ UNCHANGED <<pp, events, life, owed, cond_out, src_id, sources, pc, cur, callback>>
    BY <1>24, Zenon DEF evd_poll_stop_unused
  <2> QED BY <2>1, Zenon DEF FetchedInv, FreshInv, SourceInv, CollectedInv, OwedInv
<1>9. ASSUME NEW t \in Thread, NEW s \in Session, NEW c \in SUBSET Cond, evd_poll_add(t, s, c)
      PROVE  DInv'
  <2>1. /\ pp' = pp \/ (pp' = "created" /\ ~started)
        /\ UNCHANGED <<stdin, events, ready, src_id, cond_out, sources, pc, cur, arg, owed>>
    BY <1>9, Zenon DEF evd_poll_add, evd_poll_start, NewSession
  <2>2. /\ life[s] = "unused" /\ life'[s] # "unused"
        /\ \A x \in Session \ {s} :
             life'[x] = life[x] /\ callback'[x] = callback[x] /\ kernel'[x] = kernel[x]
    BY <1>9, SMTT(40) DEF evd_poll_add, NewSession, TypeOK
  <2>3. FetchedInv'
    BY <2>1, Zenon DEF FetchedInv, SessionInv, LockInv
  <2>4. FreshInv' /\ SourceInv'
    <3>1. FreshInv'
      BY ONLY <2>1, <2>2, FreshInv, s \in Session, ZenonT(40) DEF FreshInv
    <3>2. SourceInv'
      BY ONLY <2>1, SourceInv, ZenonT(40) DEF SourceInv
    <3> QED BY ONLY <3>1, <3>2, Zenon
  <2>5. CollectedInv'
    BY <2>1, <2>2, Zenon DEF CollectedInv, FreshInv
  <2>6. OwedInv'
    BY <2>1, <2>2 DEF OwedInv, OnItsWay, FreshInv
  <2> QED BY <2>3, <2>4, <2>5, <2>6, Zenon
<1>10. ASSUME NEW t \in Thread, NEW s \in Session, NEW c \in SUBSET Cond, evd_poll_mod(t, s, c)
      PROVE  DInv'
  <2>1. FetchedInv'
    BY <1>10, Zenon DEF evd_poll_mod, Idle, FetchedInv, TypeOK
  <2>2. FreshInv'
    BY <1>10, ZenonT(40) DEF evd_poll_mod, Idle, FreshInv, TypeOK
  <2>3. SourceInv'
    BY <1>10, Zenon DEF evd_poll_mod, Idle, SourceInv, TypeOK
  <2>4. CollectedInv'
    BY <1>10, Zenon DEF evd_poll_mod, Idle, CollectedInv, TypeOK
  <2>5. OwedInv'
    BY <1>10 DEF evd_poll_mod, Idle, OwedInv, OnItsWay, TypeOK
  <2> QED BY <2>1, <2>2, <2>3, <2>4, <2>5, Zenon
<1>11. ASSUME NEW t \in Thread, NEW s \in Session, evd_poll_del(t, s)
      PROVE  DInv'
  <2>1. CASE interrupt_mutex = Nobody
    <3>1. evd_poll_del_body(s) /\ UNCHANGED <<stdin, pp, pc, cur, arg>>
      BY <1>11, <2>1, Zenon DEF evd_poll_del
    <3> DEFINE Rest == UNCHANGED <<stdin, pp, pc, cur, arg>>
    <3>2. Deleted(s) /\ Rest
      BY <3>1, DelBody, Zenon
    <3>3. FetchedInv' /\ FreshInv'
      <4>1. FetchedInv'
        BY ONLY <3>2, s \in Session, FetchedInv, ZenonT(40) DEF Deleted, FetchedInv
      <4>2. FreshInv'
        BY ONLY <3>2, s \in Session, FreshInv, ZenonT(40) DEF Deleted, FreshInv
      <4> QED BY ONLY <4>1, <4>2, Zenon
    <3>4. SourceInv' /\ CollectedInv'
      <4>1. SourceInv'
        BY ONLY <3>2, s \in Session, SourceInv, ZenonT(40) DEF Deleted, SourceInv
      <4>2. CollectedInv'
        BY ONLY <3>2, s \in Session, CollectedInv, ZenonT(40) DEF Deleted, CollectedInv
      <4> QED BY ONLY <4>1, <4>2, Zenon
    <3>5. OwedInv'
      BY ONLY <3>2, s \in Session, OwedInv, SMTT(40) DEF Deleted, OwedInv, OnItsWay
    <3> QED BY <3>3, <3>4, <3>5, Zenon
  <2>2. CASE interrupt_mutex # Nobody
    <3>1. /\ pc[t] = "loop" /\ pc' = [pc EXCEPT ![t] = "interrupt"]
          /\ \A u \in Thread \ {t} : cur'[u] = cur[u]
          /\ UNCHANGED <<stdin, pp, arg, events, epoll, session, sources, owed>>
      BY <1>11, <2>2, ZenonT(40) DEF evd_poll_del, Idle, TypeOK
    <3>2. FetchedInv' /\ FreshInv' /\ CollectedInv'
      BY <3>1, Zenon DEF FetchedInv, FreshInv, CollectedInv
    <3>3. SourceInv'
      <4>1. \A u \in Thread : pc[u] = "wrapper" => pc'[u] = "wrapper" /\ cur'[u] = cur[u]
        BY <3>1, Zenon DEF TypeOK
      <4>2. src_id' = src_id /\ sources' = sources
        BY <3>1, Zenon
      <4> QED BY ONLY <4>1, <4>2, SourceInv, Zenon DEF SourceInv
    <3>4. OwedInv'
      BY <3>1, SMTT(40) DEF OwedInv, OnItsWay, TypeOK
    <3> QED BY <3>2, <3>3, <3>4, Zenon
  <2> QED BY <2>1, <2>2, Zenon
<1>12. ASSUME NEW t \in Thread, evd_poll_del_interrupt(t)
      PROVE  DInv'
  BY <1>12 DEF evd_poll_del_interrupt, evd_poll_interrupt_epoll_wait,
    FetchedInv, FreshInv, SourceInv, CollectedInv, OwedInv, OnItsWay, TypeOK
<1>13. ASSUME NEW t \in Thread, evd_poll_del_finish(t)
      PROVE  DInv'
  <2>1. /\ evd_poll_del_body(cur[t]) /\ cur[t] \in Session /\ pc[t] = "wait"
        /\ pc' = [pc EXCEPT ![t] = "loop"] /\ UNCHANGED <<stdin, pp, cur, arg>>
    BY <1>13, Zenon DEF evd_poll_del_finish, TypeOK
  <2>2. /\ Deleted(cur[t]) /\ UNCHANGED <<stdin, pp, cur, arg>>
        /\ \A u \in Thread : pc[u] \in {"wrapper", "callback"} => pc'[u] = pc[u]
    <3>1. Deleted(cur[t])
      BY <2>1, DelBody, Zenon
    <3>2. \A u \in Thread : pc[u] \in {"wrapper", "callback"} => pc'[u] = pc[u]
      BY <2>1, Zenon DEF TypeOK
    <3> QED BY <2>1, <3>1, <3>2, Zenon
  <2>3. FetchedInv' /\ FreshInv' /\ CollectedInv'
    <3>1. FetchedInv'
      BY ONLY <2>1, <2>2, FetchedInv, ZenonT(40) DEF Deleted, FetchedInv
    <3>2. FreshInv'
      BY ONLY <2>1, <2>2, FreshInv, ZenonT(40) DEF Deleted, FreshInv
    <3>3. CollectedInv'
      BY ONLY <2>1, <2>2, CollectedInv, ZenonT(40) DEF Deleted, CollectedInv
    <3> QED BY ONLY <3>1, <3>2, <3>3, Zenon
  <2>4. SourceInv'
    BY ONLY <2>1, <2>2, SourceInv, SMTT(60) DEF Deleted, SourceInv
  <2>5. OwedInv'
    BY ONLY <2>1, <2>2, OwedInv, SMTT(40) DEF Deleted, OwedInv, OnItsWay
  <2> QED BY <2>3, <2>4, <2>5, Zenon
<1>14. ASSUME NEW t \in Thread, evd_poll_callback_wrapper_locked(t)
      PROVE  DInv'
  <2>1. FetchedInv'
    BY <1>14, Zenon DEF evd_poll_callback_wrapper_locked, SourceDone,
      evd_poll_session_unref, FetchedInv, TypeOK
  <2>2. FreshInv'
    BY <1>14, Zenon DEF evd_poll_callback_wrapper_locked, SourceDone,
      evd_poll_session_unref, FreshInv, TypeOK
  <2>3. SourceInv'
    BY <1>14, ZenonT(40) DEF evd_poll_callback_wrapper_locked, SourceDone,
      evd_poll_session_unref, SourceInv, TypeOK
  <2>4. CollectedInv'
    BY <1>14, SMTT(40) DEF evd_poll_callback_wrapper_locked, SourceDone,
      evd_poll_session_unref, CollectedInv, TypeOK, ThreadInv, SessionInv, B
  <2>5. OwedInv'
    BY <1>14, SMTT(40) DEF evd_poll_callback_wrapper_locked, SourceDone,
      evd_poll_session_unref, OwedInv, OnItsWay, TypeOK, ThreadInv, SessionInv,
      B
  <2> QED BY <2>1, <2>2, <2>3, <2>4, <2>5, Zenon
<1>15. ASSUME NEW t \in Thread, evd_poll_callback_wrapper_call(t)
      PROVE  DInv'
  <2>1. FetchedInv'
    BY <1>15, Zenon DEF evd_poll_callback_wrapper_call, FetchedInv, TypeOK
  <2>2. FreshInv'
    BY <1>15, ZenonT(40) DEF evd_poll_callback_wrapper_call, FreshInv, TypeOK
  <2>3. SourceInv'
    BY <1>15, Zenon DEF evd_poll_callback_wrapper_call, SourceInv, TypeOK
  <2>4. CollectedInv'
    BY <1>15, Zenon DEF evd_poll_callback_wrapper_call, CollectedInv, TypeOK
  <2>5. OwedInv'
    BY <1>15, SMTT(40) DEF evd_poll_callback_wrapper_call, OwedInv, OnItsWay, TypeOK
  <2> QED BY <2>1, <2>2, <2>3, <2>4, <2>5
<1>16. ASSUME NEW t \in Thread, evd_poll_stop_joined(t)
      PROVE  DInv'
  BY <1>16 DEF evd_poll_stop_joined, FetchedInv, FreshInv, SourceInv,
    CollectedInv, OwedInv, OnItsWay, TypeOK
<1>17. ASSUME NEW t \in Thread, NEW s \in Session, evd_poll_callback_wrapper(t, s)
      PROVE  DInv'
  <2>1. FetchedInv'
    BY <1>17, Zenon DEF evd_poll_callback_wrapper, Idle, FetchedInv, TypeOK
  <2>2. FreshInv'
    BY <1>17, Zenon DEF evd_poll_callback_wrapper, Idle, FreshInv, TypeOK
  <2>3. SourceInv'
    BY <1>17, Zenon DEF evd_poll_callback_wrapper, Idle, SourceInv, TypeOK
  <2>4. CollectedInv'
    BY <1>17, Zenon DEF evd_poll_callback_wrapper, Idle, CollectedInv, TypeOK
  <2>5. OwedInv'
    BY <1>17, SMTT(40) DEF evd_poll_callback_wrapper, Idle, OwedInv, OnItsWay, TypeOK
  <2> QED BY <2>1, <2>2, <2>3, <2>4, <2>5, Zenon
<1>18. ASSUME NEW t \in Thread, evd_poll_add_start_failed(t)
      PROVE  DInv'
  BY <1>18, SMTT(40) DEF evd_poll_add_start_failed, Idle, FetchedInv, FreshInv,
    SourceInv, CollectedInv, OwedInv, OnItsWay, TypeOK
<1>19. ASSUME NEW t \in Thread, evd_poll_stop(t)
      PROVE  DInv'
  BY <1>19, Zenon DEF evd_poll_stop, evd_poll_finalize, Idle, evd_poll_interrupt_epoll_wait, FetchedInv,
    FreshInv, SourceInv, CollectedInv, OwedInv, OnItsWay, TypeOK
<1>20. ASSUME NEW s \in Session, NEW r \in Reported, Raise(s, r)
      PROVE  DInv'
  <2>1. FetchedInv'
    BY <1>20, Zenon DEF Raise, FetchedInv, TypeOK
  <2>2. FreshInv'
    BY <1>20, Zenon DEF Raise, FreshInv, TypeOK, SessionInv
  <2>3. SourceInv'
    BY <1>20, Zenon DEF Raise, SourceInv, TypeOK
  <2>4. CollectedInv'
    BY <1>20, Zenon DEF Raise, CollectedInv, TypeOK
  <2>5. OwedInv'
    BY <1>20 DEF Raise, OwedInv, OnItsWay, TypeOK
  <2> QED BY <2>1, <2>2, <2>3, <2>4, <2>5, Zenon
<1>21. ASSUME NEW s \in Session, FdClosed(s)
      PROVE  DInv'
  <2>1. FetchedInv'
    BY <1>21, Zenon DEF FdClosed, FetchedInv, TypeOK
  <2>2. FreshInv'
    BY <1>21, Zenon DEF FdClosed, FreshInv, TypeOK
  <2>3. SourceInv'
    BY <1>21, Zenon DEF FdClosed, SourceInv, TypeOK
  <2>4. CollectedInv'
    BY <1>21, Zenon DEF FdClosed, CollectedInv, TypeOK
  <2>5. OwedInv'
    BY <1>21, SMTT(40) DEF FdClosed, OwedInv, OnItsWay, TypeOK
  <2> QED BY <2>1, <2>2, <2>3, <2>4, <2>5, Zenon
<1>22. ASSUME UNCHANGED vars PROVE DInv'
  BY <1>22 DEF vars, fds, FetchedInv, FreshInv, SourceInv, CollectedInv, OwedInv,
    OnItsWay
<1> QED
    BY <1>1, <1>2, <1>3, <1>4, <1>5, <1>6, <1>7, <1>8, <1>9, <1>10, <1>11,
    <1>12, <1>13, <1>14, <1>15, <1>16, <1>17, <1>18, <1>19, <1>20, <1>21, <1>22,
    <1>23, <1>24, ZenonT(40)
    DEF Next, PollThread, Call, Return

\* Conditions the kernel reported for a watched descriptor stay on their way to
\* its callback: evd_poll_dispatch, evd_poll_mod and evd_poll_callback_wrapper
\* drop none, in any interleaving.
THEOREM ConditionsKept ==
  ASSUME HomeDefaultOnly
  PROVE  Spec => []NoLostCondition
<1>1. IInv /\ DInv /\ [Next]_vars => DInv'
  BY NextDelivery, ZenonT(40)
<1>2. DInv => NoLostCondition
  <2> SUFFICES ASSUME DInv, stdin, NEW s \in Session, callback[s]
               PROVE  /\ kernel[s] = "in" =>
                           owed[s] \subseteq ready[s] \cup events[s] \cup cond_out[s]
                             \cup UNION {arg[t] : t \in {u \in Thread : pc[u] = "callback"
                                                                     /\ cur[u] = s}}
                      /\ cond_out[s] # {} =>
                           src_id[s] /\ (s \in sources \/ \E t \in Thread : pc[t] = "wrapper"
                                                                        /\ cur[t] = s)
    BY Zenon DEF NoLostCondition
  <2>1. ASSUME kernel[s] = "in", NEW c \in owed[s]
        PROVE  c \in ready[s] \cup events[s] \cup cond_out[s]
                      \cup UNION {arg[t] : t \in {u \in Thread : pc[u] = "callback" /\ cur[u] = s}}
    <3>1. OnItsWay(s, c)
      BY <2>1, Zenon DEF DInv, OwedInv
    <3> QED BY <3>1, Zenon DEF OnItsWay
  <2>2. cond_out[s] # {} =>
          src_id[s] /\ (s \in sources \/ \E t \in Thread : pc[t] = "wrapper" /\ cur[t] = s)
    BY Zenon DEF DInv, SourceInv, CollectedInv
  <2> QED BY <2>1, <2>2, Zenon
<1> QED BY Invariance, InitDelivery, <1>1, <1>2, PTL DEF Spec
=============================================================================
