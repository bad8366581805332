--------------------------- MODULE EvdSocket_proofs ---------------------------
(***************************************************************************)
(* Proofs about EvdSocket, for any number of operations and any backlog,   *)
(* and, at the end, about EvdStreamThrottle, for every bandwidth, latency, *)
(* size and course of the clock.                                           *)
(*                                                                         *)
(* The functions of evd-socket.c call each other, so there is a lemma for  *)
(* each: what it makes of a socket that satisfies Base.  Base allows for   *)
(* one operation e that is started and not yet remembered (0 for none),    *)
(* because the calls with an address note the operation last.              *)
(***************************************************************************)
EXTENDS EvdSocket, EvdStreamThrottle, TLAPS

\* The operation evd_socket_connect_addr notes too late when a handler closes.
Late(s, i) == s.closes /\ s.ops[i].how = "connect_addr"

Typed(s) ==
  /\ s \in SocketState
  /\ s.async_result \in 0..Len(s.ops) /\ Len(s.ops) <= MaxOps
  /\ s.lookups \subseteq 1..Len(s.ops)

\* Answers are given once, the operation that is remembered has none, and no
\* other one waits.
AnsInv(s, e) ==
  /\ \A i \in 1..Len(s.ops) : Len(s.ops[i].answers) <= 1
  /\ s.async_result # 0 => s.ops[s.async_result].answers = <<>>
  /\ \A i \in 1..Len(s.ops) :
       s.ops[i].answers = <<>> /\ ~Late(s, i) /\ i # e => s.async_result = i
  /\ e # 0 => e \in 1..Len(s.ops) /\ s.ops[e].answers = <<>> /\ s.async_result # e

PollInv(s) == s.polled = s.session /\ (s.session => s.fd)

QueueInv(s) ==
  /\ s.backlog > 0 => s.edge \/ s.gave_up
  /\ s.edge => s.backlog > 0
  /\ s.backlog <= MaxBacklog

Base(s, e) == Typed(s) /\ AnsInv(s, e) /\ PollInv(s) /\ QueueInv(s)

\* A closed socket has no session, and a listener has dealt with its condition.
Quiet(s) ==
  /\ s.session => s.status # "CLOSED"
  /\ s.status = "LISTENING" => s.cond = {}

\* Where the operation that is remembered stands between two callbacks.
Waiting(s) ==
  /\ s.async_result # 0 => s.has_pending /\ s.status \in {"RESOLVING", "CONNECTING", "CLOSED"}
  /\ s.async_result # 0 /\ ~Late(s, s.async_result) =>
       s.status = "RESOLVING" \/ (s.status = "CONNECTING" /\ s.polled)

\* A lookup knows what it is for, and a socket that is gone is not used.
Looking(s) ==
  /\ s.status = "RESOLVING" => s.sub_status \in {"LISTENING", "BOUND", "CONNECTING"}
  /\ s.disposed => ~s.session /\ ~s.held /\ s.lookups = {}

Good(s) == Base(s, 0) /\ Quiet(s) /\ Waiting(s) /\ Looking(s)

IInv == Good(sock)

\* What no internal function changes.
Frame(s, t) ==
  /\ t.sub_status = s.sub_status /\ t.lookups = s.lookups /\ t.closes = s.closes
  /\ t.held = s.held /\ t.disposed = s.disposed /\ Len(t.ops) = Len(s.ops)
  /\ \A i \in 1..Len(s.ops) : t.ops[i].how = s.ops[i].how

\* And none of them starts a lookup.
Same(s, t) == Frame(s, t) /\ (t.status = "RESOLVING" => s.status = "RESOLVING")

-----------------------------------------------------------------------------
\* The operations are as they were, and the rest is in order.
LEMMA BaseSame ==
  ASSUME NEW s, NEW e, Base(s, e), NEW t, t \in SocketState, t.ops = s.ops,
         t.async_result = s.async_result, t.lookups = s.lookups, t.closes = s.closes,
         PollInv(t), QueueInv(t)
  PROVE  Base(t, e)
<1>1. Typed(t)
  BY Zenon DEF Base, Typed
<1>2. AnsInv(t, e)
  BY Zenon DEF Base, AnsInv, Late
<1> QED BY <1>1, <1>2, Zenon DEF Base

\* The operation that is remembered is answered and forgotten.
Answered(s, ok) == Complete([s EXCEPT !.async_result = 0], s.async_result, ok)

\* The fields that answering does not touch.
OnlyOps(s, t) ==
  /\ t \in SocketState /\ Same(s, t)
  /\ t.status = s.status /\ t.family = s.family /\ t.fd = s.fd /\ t.session = s.session
  /\ t.cond = s.cond /\ t.has_pending = s.has_pending /\ t.polled = s.polled
  /\ t.backlog = s.backlog /\ t.edge = s.edge /\ t.accepted = s.accepted
  /\ t.gave_up = s.gave_up /\ t.udp = s.udp

\* One more answer for operation i.
LEMMA CompleteFields ==
  ASSUME NEW s, s \in SocketState, NEW i \in 1..Len(s.ops), s.ops[i].answers = <<>>,
         NEW ok \in BOOLEAN, NEW t, t = Complete(s, i, ok)
  PROVE  /\ OnlyOps(s, t) /\ t.async_result = s.async_result
         /\ t.ops \in Seq(Op) /\ Len(t.ops) = Len(s.ops)
         /\ t.ops[i].answers # <<>> /\ Len(t.ops[i].answers) = 1
         /\ \A j \in 1..Len(s.ops) : t.ops[j].how = s.ops[j].how /\ (j # i => t.ops[j] = s.ops[j])
<1> DEFINE a == <<ok>>
           o == [s.ops[i] EXCEPT !.answers = a]
           m == [s.ops EXCEPT ![i] = o]
<1>1. s.ops \in Seq(Op) /\ s.ops[i] \in Op
  BY DEF SocketState
<1>2. a \in Seq(BOOLEAN) /\ Len(a) = 1 /\ a # <<>>
  OBVIOUS
<1>3. t = [s EXCEPT !.ops = m]
  <2>1. Append(s.ops[i].answers, ok) = a
    OBVIOUS
  <2>2. t = [s EXCEPT !.ops[i].answers = Append(@, ok)]
    BY Zenon DEF Complete
  <2>3. t = [s EXCEPT !.ops[i].answers = a]
    BY <2>1, <2>2, Zenon
  <2> HIDE DEF a
  <2> QED BY <2>3, Zenon DEF SocketState
<1> HIDE DEF a
<1>4. o \in Op /\ o.answers = a /\ o.how = s.ops[i].how
  BY <1>1, <1>2, Zenon DEF Op
<1> HIDE DEF o
<1>5. m \in Seq(Op) /\ Len(m) = Len(s.ops) /\ m[i] = o
      /\ \A j \in 1..Len(s.ops) : j # i => m[j] = s.ops[j]
  BY <1>1, <1>4
<1> HIDE DEF m
<1>6. /\ t \in SocketState /\ t.ops = m /\ t.async_result = s.async_result
      /\ t.status = s.status /\ t.family = s.family /\ t.fd = s.fd /\ t.session = s.session
      /\ t.cond = s.cond /\ t.has_pending = s.has_pending /\ t.polled = s.polled
      /\ t.backlog = s.backlog /\ t.edge = s.edge /\ t.accepted = s.accepted
      /\ t.gave_up = s.gave_up /\ t.udp = s.udp /\ t.sub_status = s.sub_status
      /\ t.lookups = s.lookups /\ t.closes = s.closes /\ t.held = s.held
      /\ t.disposed = s.disposed
  BY <1>3, <1>5, ZenonT(40) DEF SocketState
<1>7. \A j \in 1..Len(s.ops) : t.ops[j].how = s.ops[j].how /\ (j # i => t.ops[j] = s.ops[j])
  BY <1>4, <1>5, <1>6, Zenon
<1>8. OnlyOps(s, t)
  BY <1>5, <1>6, <1>7, Zenon DEF OnlyOps, Same, Frame
<1> QED BY <1>2, <1>4, <1>5, <1>6, <1>7, <1>8, Zenon

\* Answering the remembered operation leaves the rest of the socket alone.
LEMMA AnsweredKeeps ==
  ASSUME NEW s, NEW e, Base(s, e), s.async_result # 0, NEW ok \in BOOLEAN,
         NEW t, t = Answered(s, ok)
  PROVE  Base(t, e) /\ OnlyOps(s, t) /\ t.async_result = 0
<1> DEFINE i == s.async_result
           u == [s EXCEPT !.async_result = 0]
<1>1. /\ s \in SocketState /\ i \in 1..Len(s.ops) /\ s.ops \in Seq(Op)
      /\ s.ops[i].answers = <<>> /\ Len(s.ops) \in Nat
  BY DEF Base, Typed, AnsInv, SocketState
<1>2. /\ u \in SocketState /\ u.ops = s.ops /\ u.async_result = 0 /\ OnlyOps(s, u)
  BY <1>1, Zenon DEF SocketState, OnlyOps, Same, Frame
<1>3. t = Complete(u, i, ok)
  BY Zenon DEF Answered
<1> HIDE DEF u
<1>4. /\ OnlyOps(u, t) /\ t.async_result = 0
      /\ t.ops \in Seq(Op) /\ Len(t.ops) = Len(s.ops)
      /\ t.ops[i].answers # <<>> /\ Len(t.ops[i].answers) = 1
      /\ \A j \in 1..Len(s.ops) : t.ops[j].how = s.ops[j].how /\ (j # i => t.ops[j] = s.ops[j])
  BY <1>1, <1>2, <1>3, CompleteFields, SMTT(40)
<1>5. OnlyOps(s, t)
  BY <1>2, <1>4, ZenonT(40) DEF OnlyOps, Same, Frame
<1>6. Typed(t)
  BY <1>1, <1>4, <1>5 DEF Base, Typed, OnlyOps, Same, Frame
<1>7. AnsInv(t, e)
  <2>1. \A j \in 1..Len(t.ops) : Late(t, j) <=> Late(s, j)
    BY <1>4, <1>5 DEF Late, OnlyOps, Same, Frame
  <2>2. ASSUME NEW j \in 1..Len(t.ops) PROVE Len(t.ops[j].answers) <= 1
    <3>1. CASE j = i
      <4>1. Len(t.ops[j].answers) = 1
        BY <1>4, <3>1, Zenon
      <4> QED BY ONLY <4>1
    <3>2. CASE j # i
      <4>1. j \in 1..Len(s.ops) /\ t.ops[j] = s.ops[j]
        BY <1>4, <3>2, Zenon
      <4> QED BY <4>1, Zenon DEF Base, AnsInv
    <3> QED BY <3>1, <3>2, Zenon
  <2>3. ASSUME NEW j \in 1..Len(t.ops), t.ops[j].answers = <<>>, ~Late(t, j), j # e PROVE FALSE
    <3>1. j # i
      BY <1>4, <2>3, Zenon
    <3>2. s.ops[j].answers = <<>> /\ ~Late(s, j) /\ j \in 1..Len(s.ops)
      BY <1>4, <2>1, <2>3, <3>1, Zenon
    <3> QED BY <2>3, <3>1, <3>2, Zenon DEF Base, AnsInv
  <2>4. e # 0 => e \in 1..Len(t.ops) /\ t.ops[e].answers = <<>> /\ t.async_result # e
    BY <1>1, <1>4, Zenon DEF Base, AnsInv
  <2> QED BY <1>4, <2>2, <2>3, <2>4, Zenon DEF AnsInv
<1>8. PollInv(t) /\ QueueInv(t)
  BY <1>5, Zenon DEF Base, OnlyOps, PollInv, QueueInv
<1> QED BY <1>4, <1>5, <1>6, <1>7, <1>8, Zenon DEF Base

\* evd_socket_cleanup_internal: neither session nor descriptor is left.
LEMMA CleanupKeeps ==
  ASSUME NEW s, NEW e, Base(s, e), NEW t, t = evd_socket_cleanup_internal(s)
  PROVE  /\ Base(t, e) /\ Same(s, t) /\ t.async_result = s.async_result /\ t.ops = s.ops
         /\ t.status = s.status /\ t.session = FALSE /\ t.cond = {}
         /\ t.udp = s.udp /\ t.has_pending = FALSE
<1>1. s \in SocketState /\ PollInv(s) /\ QueueInv(s)
  BY Zenon DEF Base, Typed
<1>2. CASE s.fd
  <2> DEFINE v == [s EXCEPT !.polled = FALSE, !.fd = FALSE, !.backlog = 0, !.edge = FALSE,
                            !.family = "none", !.cond = {}, !.session = FALSE,
                            !.has_pending = FALSE]
  <2>1. t = v
    <3>1. CASE s.session
      BY <1>1, <1>2, <3>1, Zenon DEF evd_socket_cleanup_internal, evd_socket_unwatch, SocketState
    <3>2. CASE ~s.session
      <4>1. s.polled = FALSE
        BY <1>1, <3>2, Zenon DEF PollInv, SocketState
      <4> QED BY <1>1, <1>2, <3>2, <4>1, ZenonT(40) DEF evd_socket_cleanup_internal, evd_socket_unwatch, SocketState
    <3> QED BY <3>1, <3>2, Zenon
  <2>2. /\ v \in SocketState /\ v.async_result = s.async_result /\ v.ops = s.ops
        /\ v.status = s.status /\ v.session = FALSE /\ v.cond = {} /\ v.udp = s.udp
        /\ v.has_pending = FALSE /\ v.polled = FALSE /\ v.backlog = 0 /\ v.edge = FALSE
        /\ Same(s, v)
    BY <1>1, ZenonT(40) DEF SocketState, Same, Frame
  <2> HIDE DEF v
  <2>3. PollInv(v) /\ QueueInv(v)
    <3>1. v.polled = v.session /\ ~v.session /\ ~v.edge
      BY <2>2, Zenon
    <3>2. ~(v.backlog > 0) /\ v.backlog <= MaxBacklog
      BY <2>2, SocketAssumption
    <3> QED BY <3>1, <3>2, Zenon DEF PollInv, QueueInv
  <2>4. Base(v, e)
    BY <2>2, <2>3, BaseSame, Zenon DEF Same, Frame
  <2> QED BY <2>1, <2>2, <2>4, Zenon
<1>3. CASE ~s.fd
  <2> DEFINE v == [s EXCEPT !.family = "none", !.cond = {}, !.session = FALSE,
                            !.has_pending = FALSE]
  <2>1. t = v
    BY <1>3, Zenon DEF evd_socket_cleanup_internal
  <2>2. /\ v \in SocketState /\ v.async_result = s.async_result /\ v.ops = s.ops
        /\ v.status = s.status /\ v.session = FALSE /\ v.cond = {} /\ v.udp = s.udp
        /\ v.has_pending = FALSE /\ v.polled = s.polled /\ v.backlog = s.backlog
        /\ v.edge = s.edge /\ v.gave_up = s.gave_up /\ Same(s, v)
    BY <1>1, Zenon DEF SocketState, Same, Frame
  <2> HIDE DEF v
  <2>3. PollInv(v) /\ QueueInv(v)
    BY <1>1, <1>3, <2>2, Zenon DEF PollInv, QueueInv, SocketState
  <2>4. Base(v, e)
    BY <2>2, <2>3, BaseSame, Zenon DEF Same, Frame
  <2> QED BY <2>1, <2>2, <2>4, Zenon
<1> QED BY <1>2, <1>3, Zenon

\* A closed socket that owes nothing to an operation but e.
ClosedNow(t, e) ==
  /\ Base(t, e) /\ t.status = "CLOSED" /\ t.async_result = 0 /\ t.session = FALSE

\* evd_socket_close answers what is pending and takes the session away.
LEMMA CloseKeeps ==
  ASSUME NEW s, NEW e, Base(s, e), s.session => s.status # "CLOSED",
         NEW t, t = evd_socket_close(s)
  PROVE  ClosedNow(t, e) /\ Same(s, t)
<1> DEFINE u == IF s.async_result = 0 THEN s ELSE Answered(s, FALSE)
           c == evd_socket_cleanup_internal(u)
<1>1. t = IF u.status = "CLOSED" THEN u ELSE [c EXCEPT !.status = "CLOSED"]
  BY Zenon DEF evd_socket_close, Answered
<1>2. s \in SocketState
  BY Zenon DEF Base, Typed
<1>3. /\ Base(u, e) /\ Same(s, u) /\ u.async_result = 0 /\ u.status = s.status
      /\ u.session = s.session
  <2>1. CASE s.async_result = 0
    BY <2>1, Zenon DEF Same, Frame
  <2>2. CASE s.async_result # 0
    BY <2>2, AnsweredKeeps, ZenonT(80) DEF OnlyOps
  <2> QED BY <2>1, <2>2, Zenon
<1> HIDE DEF u
<1>4. CASE u.status = "CLOSED"
  <2>1. u.session = FALSE
    BY <1>2, <1>3, <1>4, Zenon DEF SocketState
  <2> QED BY <1>1, <1>3, <1>4, <2>1, Zenon DEF ClosedNow
<1>5. CASE u.status # "CLOSED"
  <2>1. c = evd_socket_cleanup_internal(u)
    BY Zenon
  <2>2. t = [c EXCEPT !.status = "CLOSED"]
    BY <1>1, <1>5, Zenon
  <2> HIDE DEF c
  <2>3. /\ Base(c, e) /\ Same(u, c) /\ c.async_result = 0 /\ c.ops = u.ops /\ c.session = FALSE
    BY <1>3, <2>1, CleanupKeeps, ZenonT(40)
  <2>4. c \in SocketState /\ PollInv(c) /\ QueueInv(c)
    BY <2>3, Zenon DEF Base, Typed
  <2>5. /\ t \in SocketState /\ t.status = "CLOSED" /\ t.ops = c.ops /\ t.async_result = c.async_result
        /\ t.session = c.session /\ t.polled = c.polled /\ t.fd = c.fd /\ t.backlog = c.backlog
        /\ t.edge = c.edge /\ t.gave_up = c.gave_up /\ Same(c, t)
    BY <2>2, <2>4, ZenonT(40) DEF SocketState, Status, Same, Frame
  <2>6. PollInv(t) /\ QueueInv(t)
    BY <2>4, <2>5, Zenon DEF PollInv, QueueInv
  <2>7. Base(t, e)
    BY <2>3, <2>5, <2>6, BaseSame, Zenon DEF Same, Frame
  <2> QED BY <1>3, <2>3, <2>5, <2>7 DEF ClosedNow, Same, Frame
<1> QED BY <1>4, <1>5, Zenon

\* t is s with the status X.
Becomes(s, t, X) ==
  /\ t.status = X /\ t.async_result = s.async_result /\ t.ops = s.ops
  /\ t.has_pending = s.has_pending /\ t.polled = s.polled /\ t.session = s.session
  /\ t.cond = s.cond /\ t.udp = s.udp /\ t.fd = s.fd

\* The status is set, unless a handler of "state-changed" closes the socket.
LEMMA SetStatusKeeps ==
  ASSUME NEW s, NEW e, Base(s, e), NEW X \in Status, X # "CLOSED",
         NEW t, t = evd_socket_set_status(s, X)
  PROVE  /\ Base(t, e) /\ Frame(s, t)
         /\ \/ Becomes(s, t, X) /\ (s.closes => s.status = X)
            \/ s.closes /\ ClosedNow(t, e)
<1> DEFINE u == [s EXCEPT !.status = X]
<1>1. s \in SocketState /\ PollInv(s) /\ QueueInv(s)
  BY Zenon DEF Base, Typed
<1>2. CASE s.status = X
  BY <1>2, Zenon DEF evd_socket_set_status, Becomes, Frame
<1>3. CASE s.status # X
  <2>1. t = IF s.closes THEN evd_socket_close(u) ELSE u
    BY <1>3, Zenon DEF evd_socket_set_status
  <2>2. /\ u \in SocketState /\ Frame(s, u) /\ Becomes(s, u, X) /\ u.lookups = s.lookups
        /\ u.closes = s.closes /\ u.fd = s.fd /\ u.backlog = s.backlog
        /\ u.edge = s.edge /\ u.gave_up = s.gave_up
    BY <1>1, Zenon DEF SocketState, Frame, Becomes
  <2> HIDE DEF u
  <2>3. PollInv(u) /\ QueueInv(u)
    BY <1>1, <2>2, Zenon DEF PollInv, QueueInv, Becomes
  <2>4. Base(u, e)
    BY <2>2, <2>3, BaseSame, Zenon DEF Becomes
  <2>5. CASE s.closes
    <3>1. t = evd_socket_close(u) /\ u.status # "CLOSED"
      BY <2>1, <2>2, <2>5, Zenon DEF Becomes
    <3>2. ClosedNow(t, e) /\ Same(u, t)
      BY <2>4, <3>1, CloseKeeps, Zenon
    <3> QED BY <2>2, <2>5, <3>2, ZenonT(40) DEF ClosedNow, Same, Frame
  <2>6. CASE ~s.closes
    BY <2>1, <2>2, <2>4, <2>6, Zenon
  <2> QED BY <2>5, <2>6, Zenon
<1> QED BY <1>2, <1>3, Zenon

\* Preparing the descriptor.
LEMMA SetupKeeps ==
  ASSUME NEW s, NEW e, Base(s, e), Quiet(s), NEW f \in Family, NEW u,
         u = [s EXCEPT !.family = f] \/ u = evd_socket_setup(s, f)
  PROVE  /\ Base(u, e) /\ Quiet(u) /\ Same(s, u) /\ u.async_result = s.async_result
         /\ u.ops = s.ops /\ u.status = s.status /\ u.udp = s.udp /\ u.closes = s.closes
         /\ u.has_pending = s.has_pending
         /\ u = evd_socket_setup(s, f) => u.fd
<1>1. s \in SocketState /\ PollInv(s) /\ QueueInv(s)
  BY Zenon DEF Base, Typed
<1>2. /\ u \in SocketState /\ Same(s, u) /\ u.async_result = s.async_result
      /\ u.ops = s.ops /\ u.status = s.status /\ u.udp = s.udp /\ u.closes = s.closes
      /\ u.lookups = s.lookups /\ u.session = s.session /\ u.polled = s.polled
      /\ u.backlog = s.backlog /\ u.edge = s.edge /\ u.gave_up = s.gave_up /\ u.cond = s.cond
      /\ u.has_pending = s.has_pending
      /\ u.fd = s.fd \/ u.fd
      /\ u = evd_socket_setup(s, f) => u.fd
  <2>1. CASE u = [s EXCEPT !.family = f] /\ u # evd_socket_setup(s, f)
    BY <1>1, <2>1, Zenon DEF SocketState, Same, Frame
  <2>2. CASE u = evd_socket_setup(s, f)
    BY <1>1, <2>2, Zenon DEF evd_socket_setup, SocketState, Same, Frame
  <2> QED BY <2>1, <2>2, Zenon
<1>3. PollInv(u) /\ QueueInv(u)
  BY <1>1, <1>2, Zenon DEF PollInv, QueueInv
<1>4. Base(u, e)
  BY <1>2, <1>3, BaseSame, Zenon
<1>5. Quiet(u)
  BY <1>2, Zenon DEF Quiet
<1> QED BY <1>2, <1>4, <1>5, Zenon

\* A session, and a status that has one.
LEMMA WatchKeeps ==
  ASSUME NEW s, NEW e, Base(s, e), s.fd, NEW X \in {"LISTENING", "CONNECTING"},
         NEW t, t = evd_socket_set_status(evd_socket_watch(s), X)
  PROVE  /\ Base(t, e) /\ Quiet(t) /\ Same(s, t) /\ t.status # "RESOLVING"
         /\ s.async_result = 0 => t.async_result = 0
         /\ \/ s.closes /\ ClosedNow(t, e)
            \/ /\ t.status = X /\ t.polled /\ t.async_result = s.async_result /\ t.ops = s.ops
               /\ t.has_pending = s.has_pending
<1> DEFINE w == evd_socket_watch(s)
<1>1. s \in SocketState /\ QueueInv(s)
  BY Zenon DEF Base, Typed
<1>2. /\ w \in SocketState /\ Frame(s, w) /\ w.async_result = s.async_result
      /\ w.ops = s.ops /\ w.status = s.status /\ w.closes = s.closes
      /\ w.lookups = s.lookups /\ w.session = TRUE /\ w.polled = TRUE /\ w.fd = s.fd
      /\ w.backlog = s.backlog /\ w.edge = s.edge /\ w.gave_up = s.gave_up /\ w.cond = {}
      /\ w.has_pending = s.has_pending
  BY <1>1, Zenon DEF evd_socket_watch, SocketState, Frame
<1>3. t = evd_socket_set_status(w, X)
  BY Zenon
<1> HIDE DEF w
<1>4. PollInv(w) /\ QueueInv(w)
  BY <1>1, <1>2, Zenon DEF PollInv, QueueInv
<1>5. Base(w, e)
  BY <1>2, <1>4, BaseSame, Zenon
<1>6. X \in Status /\ X # "CLOSED" /\ X # "RESOLVING"
  BY Zenon DEF Status
<1>7. /\ Base(t, e) /\ Frame(w, t)
      /\ \/ Becomes(w, t, X)
         \/ w.closes /\ ClosedNow(t, e)
  BY <1>3, <1>5, <1>6, SetStatusKeeps, Zenon
<1>8. CASE Becomes(w, t, X)
  <2>1. Quiet(t)
    BY <1>2, <1>6, <1>8, Zenon DEF Quiet, Becomes
  <2> QED BY <1>2, <1>6, <1>7, <1>8, <2>1, ZenonT(40) DEF Becomes, Same, Frame
<1>9. CASE w.closes /\ ClosedNow(t, e)
  <2>1. Quiet(t)
    BY <1>9, Zenon DEF Quiet, ClosedNow
  <2> QED BY <1>2, <1>7, <1>9, <2>1 DEF ClosedNow, Same, Frame
<1> QED BY <1>7, <1>8, <1>9, Zenon

-----------------------------------------------------------------------------
\* The outcome of an internal operation on s: a lookup does not survive one
\* that ends without an error.
Kept(s, e, res) ==
  /\ Base(res.s, e) /\ Quiet(res.s) /\ Same(s, res.s)
  /\ res.ok \in BOOLEAN /\ res.error \in BOOLEAN
  /\ s.async_result = 0 => res.s.async_result = 0
  /\ ~res.error => res.ok /\ res.s.status # "RESOLVING"

\* An internal operation that fails, leaving t.
LEMMA FailsKept ==
  ASSUME NEW s, NEW e, NEW t, Base(t, e), Quiet(t), Same(s, t),
         s.async_result = 0 => t.async_result = 0
  PROVE  Kept(s, e, Fails(t)) /\ ~Fails(t).ok
  BY Zenon DEF Kept, Fails, Result

\* An internal operation that returns TRUE, leaving t.
LEMMA SucceedsKept ==
  ASSUME NEW s, NEW e, NEW t, Base(t, e), Quiet(t), Same(s, t),
         s.async_result = 0 => t.async_result = 0, NEW error \in BOOLEAN,
         t.status # "RESOLVING"
  PROVE  Kept(s, e, Result(t, TRUE, error)) /\ Result(t, TRUE, error).s = t
  BY Zenon DEF Kept, Result

\* evd_socket_bind_addr_internal, with every failure it may meet.
LEMMA BindKeeps ==
  ASSUME NEW s, NEW e, Base(s, e), Quiet(s), NEW f \in Family, NEW r,
         NEW res, res = evd_socket_bind_addr_internal(s, f, r)
  PROVE  Kept(s, e, res)
<1> DEFINE a == [s EXCEPT !.family = f]
           t == evd_socket_setup(s, f)
           c == evd_socket_cleanup_internal(t)
           b == evd_socket_set_status(t, "BOUND")
<1>1. \/ res = Fails(s)
      \/ res = Fails(a)
      \/ res = Fails(c)
      \/ res = Result(b, TRUE, FALSE)
  BY Zenon DEF evd_socket_bind_addr_internal
<1>2. Base(a, e) /\ Quiet(a) /\ Same(s, a) /\ a.async_result = s.async_result
  BY SetupKeeps
<1>3. /\ Base(t, e) /\ Quiet(t) /\ Same(s, t) /\ t.async_result = s.async_result
      /\ t.status = s.status
  BY SetupKeeps
<1> HIDE DEF a, t
<1>4. Base(c, e) /\ Quiet(c) /\ Same(s, c) /\ c.async_result = s.async_result
  <2>1. /\ Base(c, e) /\ Same(t, c) /\ c.async_result = t.async_result
        /\ c.session = FALSE /\ c.cond = {}
    BY <1>3, CleanupKeeps, Zenon
  <2> QED BY <1>3, <2>1, Zenon DEF Quiet, Same, Frame
<1>5. /\ Base(b, e) /\ Quiet(b) /\ Same(s, b) /\ (s.async_result = 0 => b.async_result = 0)
      /\ b.status # "RESOLVING"
  <2>1. /\ Base(b, e) /\ Frame(t, b)
        /\ Becomes(t, b, "BOUND") \/ ClosedNow(b, e)
    BY <1>3, SetStatusKeeps, Zenon DEF Status
  <2> HIDE DEF b
  <2>2. b.status \in {"BOUND", "CLOSED"} /\ (s.async_result = 0 => b.async_result = 0)
    BY <1>3, <2>1, Zenon DEF Becomes, ClosedNow
  <2>3. Quiet(b)
    BY <2>1, <2>2, Zenon DEF Quiet, Becomes, ClosedNow
  <2> QED BY <1>3, <2>1, <2>2, <2>3, Zenon DEF Same, Frame
<1> HIDE DEF b, c
<1>6. Same(s, s)
  BY Zenon DEF Same, Frame
<1>7. Kept(s, e, Fails(s)) /\ Kept(s, e, Fails(a)) /\ Kept(s, e, Fails(c))
  BY <1>2, <1>4, <1>6, FailsKept, Zenon
<1>8. Kept(s, e, Result(b, TRUE, FALSE))
  BY <1>5, SucceedsKept, Zenon
<1> QED BY <1>1, <1>7, <1>8, Zenon

\* evd_socket_listen_addr_internal, bound before or now.
LEMMA ListenKeeps ==
  ASSUME NEW s, NEW e, Base(s, e), Quiet(s), NEW f \in Family \cup {"none"}, NEW r,
         NEW res, res = evd_socket_listen_addr_internal(s, f, r)
  PROVE  Kept(s, e, res)
<1> DEFINE b == IF f = "none" THEN Result(s, TRUE, FALSE)
                ELSE evd_socket_bind_addr_internal(s, f, r)
           c == evd_socket_cleanup_internal(b.s)
           w == evd_socket_set_status(evd_socket_watch(b.s), "LISTENING")
<1>1. \/ ~b.ok /\ res = b
      \/ b.ok /\ res = Fails(b.s)
      \/ b.s.status = "BOUND" /\ res = Result(b.s, TRUE, b.s.fd)
      \/ res = Fails(c)
      \/ b.s.fd /\ res = Result(w, TRUE, FALSE)
  BY Zenon DEF evd_socket_listen_addr_internal
<1>2. /\ Base(b.s, e) /\ Quiet(b.s) /\ Same(s, b.s) /\ (s.async_result = 0 => b.s.async_result = 0)
      /\ ~b.ok => Kept(s, e, b)
  <2>1. CASE f = "none"
    <3>1. b.s = s /\ b.ok
      BY <2>1, Zenon DEF Result
    <3> QED BY <3>1, Zenon DEF Same, Frame
  <2>2. CASE f # "none"
    <3>1. b = evd_socket_bind_addr_internal(s, f, r) /\ f \in Family
      BY <2>2, Zenon
    <3> HIDE DEF b
    <3>2. Kept(s, e, b)
      BY <3>1, BindKeeps, Zenon
    <3> QED BY <3>2, Zenon DEF Kept
  <2> QED BY <2>1, <2>2, Zenon
<1> HIDE DEF b
<1>3. Base(c, e) /\ Quiet(c) /\ Same(s, c) /\ (s.async_result = 0 => c.async_result = 0)
  <2>1. /\ Base(c, e) /\ Same(b.s, c) /\ c.async_result = b.s.async_result
        /\ c.session = FALSE /\ c.cond = {}
    BY <1>2, CleanupKeeps, ZenonT(40)
  <2> QED BY <1>2, <2>1, Zenon DEF Quiet, Same, Frame
<1>4. b.s.fd => /\ Base(w, e) /\ Quiet(w) /\ Same(s, w) /\ w.status # "RESOLVING"
                /\ s.async_result = 0 => w.async_result = 0
  <2> SUFFICES ASSUME b.s.fd
               PROVE  /\ Base(w, e) /\ Quiet(w) /\ Same(s, w) /\ w.status # "RESOLVING"
                      /\ s.async_result = 0 => w.async_result = 0
    BY Zenon
  <2>1. /\ Base(w, e) /\ Quiet(w) /\ Same(b.s, w) /\ w.status # "RESOLVING"
        /\ b.s.async_result = 0 => w.async_result = 0
    BY <1>2, WatchKeeps
  <2> QED BY <1>2, <2>1, Zenon DEF Same, Frame
<1>5. b.s.fd \in BOOLEAN
  BY <1>2, Zenon DEF Base, Typed, SocketState
<1> HIDE DEF c, w
<1>6. Kept(s, e, Fails(b.s)) /\ Kept(s, e, Fails(c))
  BY <1>2, <1>3, FailsKept, Zenon
<1>7. b.s.status = "BOUND" => Kept(s, e, Result(b.s, TRUE, b.s.fd))
  BY <1>2, <1>5, SucceedsKept, Zenon
<1>8. b.s.fd => Kept(s, e, Result(w, TRUE, FALSE))
  BY <1>4, SucceedsKept, Zenon
<1> QED BY <1>1, <1>2, <1>6, <1>7, <1>8, Zenon

\* A connection attempt is under way for s, or a handler has ended it.
Attempts(s, e, t) ==
  \/ s.closes /\ ClosedNow(t, e)
  \/ /\ t.status = "CONNECTING" /\ t.polled /\ t.async_result = s.async_result
     /\ t.ops = s.ops /\ t.has_pending = s.has_pending

\* evd_socket_connect_addr_internal: without an error the attempt is watched.
LEMMA ConnectKeeps ==
  ASSUME NEW s, NEW e, Base(s, e), Quiet(s), NEW f \in Family, NEW r,
         NEW res, res = evd_socket_connect_addr_internal(s, f, r)
  PROVE  /\ Kept(s, e, res)
         /\ ~res.error <=> res.ok
         /\ res.ok => Attempts(s, e, res.s)
<1> DEFINE a == [s EXCEPT !.family = f]
           t == evd_socket_setup(s, f)
           c == [t EXCEPT !.cond = {}]
           w == evd_socket_set_status(evd_socket_watch(t), "CONNECTING")
<1>1. \/ res = Fails(s)
      \/ res = Fails(a)
      \/ res = Fails(t)
      \/ res = Fails(c)
      \/ res = Result(w, TRUE, FALSE)
  BY Zenon DEF evd_socket_connect_addr_internal
<1>2. Base(a, e) /\ Quiet(a) /\ Same(s, a) /\ a.async_result = s.async_result
  BY SetupKeeps
<1>3. /\ Base(t, e) /\ Quiet(t) /\ Same(s, t) /\ t.async_result = s.async_result
      /\ t.status = s.status /\ t.fd /\ t.ops = s.ops /\ t.closes = s.closes
      /\ t.has_pending = s.has_pending
  BY SetupKeeps
<1> HIDE DEF a, t
<1>4. Base(c, e) /\ Quiet(c) /\ Same(s, c) /\ c.async_result = s.async_result
  <2>1. t \in SocketState /\ PollInv(t) /\ QueueInv(t)
    BY <1>3, Zenon DEF Base, Typed
  <2>2. /\ c \in SocketState /\ Same(t, c) /\ c.async_result = t.async_result
        /\ c.ops = t.ops /\ c.status = t.status /\ c.closes = t.closes
        /\ c.lookups = t.lookups /\ c.session = t.session /\ c.polled = t.polled
        /\ c.backlog = t.backlog /\ c.edge = t.edge /\ c.gave_up = t.gave_up /\ c.cond = {}
        /\ c.fd = t.fd
    BY <2>1, Zenon DEF SocketState, Same, Frame
  <2> HIDE DEF c
  <2>3. PollInv(c) /\ QueueInv(c)
    BY <2>1, <2>2, Zenon DEF PollInv, QueueInv
  <2>4. Base(c, e)
    BY <1>3, <2>2, <2>3, BaseSame, Zenon
  <2>5. Quiet(c)
    BY <1>3, <2>2, Zenon DEF Quiet
  <2> QED BY <1>3, <2>2, <2>4, <2>5, Zenon DEF Same, Frame
<1>5. /\ Base(w, e) /\ Quiet(w) /\ Same(s, w) /\ w.status # "RESOLVING"
      /\ s.async_result = 0 => w.async_result = 0
      /\ Attempts(s, e, w)
  <2>1. /\ Base(w, e) /\ Quiet(w) /\ Same(t, w) /\ w.status # "RESOLVING"
        /\ t.async_result = 0 => w.async_result = 0
        /\ \/ t.closes /\ ClosedNow(w, e)
           \/ /\ w.status = "CONNECTING" /\ w.polled /\ w.async_result = t.async_result
              /\ w.ops = t.ops /\ w.has_pending = t.has_pending
    BY <1>3, WatchKeeps
  <2> HIDE DEF w
  <2>2. Attempts(s, e, w)
    BY <1>3, <2>1, Zenon DEF Attempts
  <2> QED BY <1>3, <2>1, <2>2, ZenonT(40) DEF Same, Frame
<1> HIDE DEF c, w
<1>6. Same(s, s)
  BY DEF Same, Frame
<1>7. /\ Kept(s, e, Fails(s)) /\ Kept(s, e, Fails(a)) /\ Kept(s, e, Fails(c)) /\ Kept(s, e, Fails(t))
  BY <1>2, <1>3, <1>4, <1>6, FailsKept, Zenon
<1>8. Kept(s, e, Result(w, TRUE, FALSE))
  BY <1>5, SucceedsKept, Zenon
<1>9. CASE res = Result(w, TRUE, FALSE)
  <2>1. res.s = w /\ res.ok = TRUE /\ res.error = FALSE
    BY <1>9 DEF Result
  <2> QED BY <1>5, <1>8, <1>9, <2>1, Zenon
<1>10. CASE res # Result(w, TRUE, FALSE)
  <2>1. res.ok = FALSE /\ res.error = TRUE
    BY <1>1, <1>10 DEF Fails, Result
  <2> QED BY <1>1, <1>7, <1>10, <2>1, Zenon
<1> QED BY <1>9, <1>10, Zenon

\* The pending operation hears of success.
LEMMA AnswerNowKeeps ==
  ASSUME NEW s, NEW e, Base(s, e), Quiet(s), NEW t, t = AnswerNow(s)
  PROVE  /\ Base(t, e) /\ Quiet(t) /\ Same(s, t) /\ t.async_result = 0 /\ t.status = s.status
<1> DEFINE u == [s EXCEPT !.has_pending = FALSE]
<1>1. s \in SocketState /\ PollInv(s) /\ QueueInv(s)
  BY Zenon DEF Base, Typed
<1>2. CASE s.async_result = 0
  BY <1>2, Zenon DEF AnswerNow, Same, Frame
<1>3. CASE s.async_result # 0
  <2>1. /\ u \in SocketState /\ Same(s, u) /\ u.async_result = s.async_result
        /\ u.ops = s.ops /\ u.status = s.status /\ u.closes = s.closes
        /\ u.lookups = s.lookups /\ u.session = s.session /\ u.polled = s.polled
        /\ u.backlog = s.backlog /\ u.edge = s.edge /\ u.gave_up = s.gave_up /\ u.cond = s.cond
        /\ u.fd = s.fd
    BY <1>1, Zenon DEF SocketState, Same, Frame
  <2>2. t = Answered(u, TRUE)
    <3>1. [u EXCEPT !.async_result = 0] = [s EXCEPT !.has_pending = FALSE, !.async_result = 0]
      BY <1>1, Zenon DEF SocketState
    <3> QED BY <1>3, <2>1, <3>1, Zenon DEF AnswerNow, Answered
  <2> HIDE DEF u
  <2>3. PollInv(u) /\ QueueInv(u)
    BY <1>1, <2>1, Zenon DEF PollInv, QueueInv
  <2>4. Base(u, e)
    BY <2>1, <2>3, BaseSame, Zenon
  <2>5. Base(t, e) /\ OnlyOps(u, t) /\ t.async_result = 0
    BY <1>3, <2>1, <2>2, <2>4, AnsweredKeeps, Zenon
  <2>6. Quiet(t)
    BY <2>1, <2>5, Zenon DEF Quiet, OnlyOps
  <2> QED BY <2>1, <2>5, <2>6, ZenonT(40) DEF OnlyOps, Same, Frame
<1> QED BY <1>2, <1>3, Zenon

\* The pending operation hears of an error and the socket is closed.
LEMMA AbortKeeps ==
  ASSUME NEW s, NEW e, Base(s, e), s.session => s.status # "CLOSED", NEW t, t = Abort(s)
  PROVE  ClosedNow(t, e) /\ Same(s, t)
<1> DEFINE u == IF s.async_result = 0 THEN s ELSE Answered(s, FALSE)
<1>1. t = evd_socket_close(u)
  BY Zenon DEF Abort, Answered
<1>2. /\ Base(u, e) /\ Same(s, u) /\ u.status = s.status /\ u.session = s.session
  <2>1. CASE s.async_result = 0
    BY <2>1, Zenon DEF Same, Frame
  <2>2. CASE s.async_result # 0
    BY <2>2, AnsweredKeeps, ZenonT(80) DEF OnlyOps
  <2> QED BY <2>1, <2>2, Zenon
<1> HIDE DEF u
<1>3. ClosedNow(t, e) /\ Same(u, t)
  BY <1>1, <1>2, CloseKeeps, Zenon
<1> QED BY <1>2, <1>3, Zenon DEF Same, Frame

-----------------------------------------------------------------------------
How == {"connect_to", "listen", "bind", "connect_addr", "listen_addr", "bind_addr"}

\* n is s with a new operation, number k.
Begun(s, n, k, how) ==
  /\ Base(n, k) /\ Quiet(n) /\ k = Len(s.ops) + 1 /\ k # 0 /\ n.ops[k].how = how
  /\ n.status = s.status /\ n.sub_status = s.sub_status /\ n.has_pending = s.has_pending
  /\ n.async_result = s.async_result /\ n.lookups = s.lookups /\ n.closes = s.closes
  /\ n.held = s.held /\ n.disposed = s.disposed /\ n.polled = s.polled
  /\ n.session = s.session
  /\ \A i \in 1..Len(s.ops) : n.ops[i] = s.ops[i]

\* A new operation waits beside the one that is remembered.
LEMMA NewOpKeeps ==
  ASSUME NEW s, Base(s, 0), Quiet(s), Len(s.ops) < MaxOps,
         NEW how \in How,
         NEW n, n = NewOp(s, how), NEW k, k = Len(n.ops)
  PROVE  Begun(s, n, k, how)
<1> DEFINE a == <<>>
           o == [how |-> how, answers |-> a]
           m == Append(s.ops, o)
<1>1. s \in SocketState /\ PollInv(s) /\ QueueInv(s) /\ s.ops \in Seq(Op) /\ Len(s.ops) \in Nat
  BY DEF Base, Typed, SocketState
<1>2. n = [s EXCEPT !.ops = m]
  BY Zenon DEF NewOp
<1>3. a \in Seq(BOOLEAN) /\ Len(a) = 0 /\ a = <<>>
  OBVIOUS
<1> HIDE DEF a
<1>4. o \in Op /\ o.answers = a /\ o.how = how
  BY <1>3, Zenon DEF Op, How
<1> HIDE DEF o
<1>5. /\ m \in Seq(Op) /\ Len(m) = Len(s.ops) + 1 /\ m[Len(s.ops) + 1] = o
      /\ \A i \in 1..Len(s.ops) : m[i] = s.ops[i]
  BY <1>1, <1>4
<1> HIDE DEF m
<1>6. /\ n \in SocketState /\ n.ops = m
      /\ n.status = s.status /\ n.sub_status = s.sub_status /\ n.has_pending = s.has_pending
      /\ n.async_result = s.async_result /\ n.lookups = s.lookups /\ n.closes = s.closes
      /\ n.held = s.held /\ n.disposed = s.disposed /\ n.polled = s.polled
      /\ n.session = s.session /\ n.fd = s.fd /\ n.cond = s.cond /\ n.backlog = s.backlog
      /\ n.edge = s.edge /\ n.gave_up = s.gave_up
  BY <1>1, <1>2, <1>5, ZenonT(40) DEF SocketState
<1>7. k = Len(s.ops) + 1 /\ k # 0 /\ n.ops[k] = o /\ k \in 1..Len(n.ops)
  BY <1>1, <1>5, <1>6
<1>8. \A i \in 1..Len(n.ops) : i # k => i \in 1..Len(s.ops) /\ n.ops[i] = s.ops[i]
  BY <1>1, <1>5, <1>6, <1>7
<1>9. Typed(n)
  <2>1. s.async_result \in 0..Len(s.ops) /\ s.lookups \subseteq 1..Len(s.ops)
    BY Zenon DEF Base, Typed
  <2>2. n.async_result \in 0..Len(n.ops) /\ n.lookups \subseteq 1..Len(n.ops) /\ Len(n.ops) <= MaxOps
    BY <1>1, <1>5, <1>6, <2>1, SocketAssumption, SMTT(40)
  <2> QED BY <1>6, <2>2, Zenon DEF Typed
<1>10. AnsInv(n, k)
  <2>1. ASSUME NEW i \in 1..Len(n.ops) PROVE Len(n.ops[i].answers) <= 1
    <3>1. CASE i = k
      <4>1. Len(n.ops[i].answers) = 0
        BY <1>3, <1>4, <1>7, <3>1, Zenon
      <4> QED BY ONLY <4>1
    <3>2. CASE i # k
      BY <1>8, <3>2, Zenon DEF Base, AnsInv
    <3> QED BY <3>1, <3>2, Zenon
  <2>2. n.async_result # k /\ (n.async_result # 0 => n.async_result \in 1..Len(s.ops))
    <3>1. s.async_result \in 0..Len(s.ops)
      BY Zenon DEF Base, Typed
    <3> QED BY <1>1, <1>6, <1>7, <3>1
  <2>3. n.async_result # 0 => n.ops[n.async_result].answers = <<>>
    BY <1>5, <1>6, <2>2, ZenonT(40) DEF Base, AnsInv
  <2>4. ASSUME NEW i \in 1..Len(n.ops), n.ops[i].answers = <<>>, ~Late(n, i), i # k
        PROVE  n.async_result = i
    <3>1. i \in 1..Len(s.ops) /\ n.ops[i] = s.ops[i] /\ i # 0
      BY <1>1, <1>8, <2>4
    <3>2. s.ops[i].answers = <<>> /\ ~Late(s, i)
      BY <1>6, <2>4, <3>1, Zenon DEF Late
    <3> QED BY <1>6, <3>1, <3>2, Zenon DEF Base, AnsInv
  <2>5. n.ops[k].answers = <<>>
    BY <1>3, <1>4, <1>7, Zenon
  <2> QED BY <1>7, <2>1, <2>2, <2>3, <2>4, <2>5, Zenon DEF AnsInv
<1>11. PollInv(n) /\ QueueInv(n) /\ Quiet(n)
  BY <1>1, <1>6, Zenon DEF PollInv, QueueInv, Quiet
<1>12. \A i \in 1..Len(s.ops) : n.ops[i] = s.ops[i]
  BY <1>5, <1>6, Zenon
<1>13. n.ops[k].how = how
  BY <1>4, <1>7, Zenon
<1>14. Base(n, k)
  BY <1>9, <1>10, <1>11, Zenon DEF Base
<1> QED BY <1>6, <1>7, <1>11, <1>12, <1>13, <1>14, Zenon DEF Begun

\* The new operation is answered in the call that started it.
LEMMA CompleteNewKeeps ==
  ASSUME NEW s, NEW e, Base(s, e), e # 0, NEW ok \in BOOLEAN, NEW t, t = Complete(s, e, ok)
  PROVE  /\ Base(t, 0) /\ OnlyOps(s, t) /\ t.async_result = s.async_result
<1>1. /\ s \in SocketState /\ e \in 1..Len(s.ops) /\ s.ops \in Seq(Op)
      /\ s.ops[e].answers = <<>> /\ Len(s.ops) \in Nat /\ s.async_result # e
  BY DEF Base, Typed, AnsInv, SocketState
<1>2. /\ OnlyOps(s, t) /\ t.async_result = s.async_result
      /\ t.ops \in Seq(Op) /\ Len(t.ops) = Len(s.ops)
      /\ t.ops[e].answers # <<>> /\ Len(t.ops[e].answers) = 1
      /\ \A j \in 1..Len(s.ops) : t.ops[j].how = s.ops[j].how /\ (j # e => t.ops[j] = s.ops[j])
  BY <1>1, CompleteFields, SMTT(40)
<1>3. Typed(t)
  BY <1>1, <1>2, Zenon DEF Base, Typed, OnlyOps, Same, Frame
<1>4. AnsInv(t, 0)
  <2>1. \A j \in 1..Len(t.ops) : Late(t, j) <=> Late(s, j)
    BY <1>2, Zenon DEF Late, OnlyOps, Same, Frame
  <2>2. ASSUME NEW j \in 1..Len(t.ops) PROVE Len(t.ops[j].answers) <= 1
    <3>1. CASE j = e
      <4>1. Len(t.ops[j].answers) = 1
        BY <1>2, <3>1, Zenon
      <4> QED BY ONLY <4>1
    <3>2. CASE j # e
      <4>1. j \in 1..Len(s.ops) /\ t.ops[j] = s.ops[j]
        BY <1>2, <3>2, Zenon
      <4> QED BY <4>1, Zenon DEF Base, AnsInv
    <3> QED BY <3>1, <3>2, Zenon
  <2>3. ASSUME NEW j \in 1..Len(t.ops), t.ops[j].answers = <<>>, ~Late(t, j)
        PROVE  t.async_result = j
    <3>1. j # e
      BY <1>2, <2>3, Zenon
    <3>2. s.ops[j].answers = <<>> /\ ~Late(s, j) /\ j \in 1..Len(s.ops)
      BY <1>2, <2>1, <2>3, <3>1, Zenon
    <3> QED BY <1>2, <3>1, <3>2, Zenon DEF Base, AnsInv
  <2>4. t.async_result # 0 => t.ops[t.async_result].answers = <<>>
    <3>1. s.async_result # 0 => s.async_result \in 1..Len(s.ops) /\ s.ops[s.async_result].answers = <<>>
      BY <1>1 DEF Base, Typed, AnsInv
    <3> QED BY <1>1, <1>2, <3>1, Zenon
  <2> QED BY <2>2, <2>3, <2>4, Zenon DEF AnsInv
<1>5. PollInv(t) /\ QueueInv(t)
  BY <1>2, Zenon DEF Base, OnlyOps, PollInv, QueueInv
<1> QED BY <1>2, <1>3, <1>4, <1>5, Zenon DEF Base

Noted(s, e, t) ==
  /\ Base(t, 0) /\ Same(s, t) /\ t.async_result = e /\ t.has_pending = TRUE
  /\ t.status = s.status /\ t.session = s.session /\ t.polled = s.polled
  /\ t.cond = s.cond /\ t.ops = s.ops

\* The new operation becomes the one that is remembered.
LEMMA NotedKeeps ==
  ASSUME NEW s, NEW e, Base(s, e), e # 0, s.async_result = 0,
         NEW t, t = [s EXCEPT !.async_result = e, !.has_pending = TRUE]
  PROVE  Noted(s, e, t)
<1>1. /\ s \in SocketState /\ e \in 1..Len(s.ops) /\ s.ops \in Seq(Op)
      /\ s.ops[e].answers = <<>> /\ Len(s.ops) \in Nat /\ PollInv(s) /\ QueueInv(s)
      /\ Typed(s) /\ AnsInv(s, e)
  BY DEF Base, Typed, AnsInv, SocketState
<1>2. e \in Nat /\ e \in 0..Len(s.ops)
  BY <1>1
<1>3. /\ t \in SocketState /\ Same(s, t) /\ t.async_result = e /\ t.has_pending = TRUE
      /\ t.status = s.status /\ t.session = s.session /\ t.polled = s.polled
      /\ t.cond = s.cond /\ t.ops = s.ops /\ t.fd = s.fd /\ t.backlog = s.backlog
      /\ t.edge = s.edge /\ t.gave_up = s.gave_up /\ t.lookups = s.lookups
      /\ t.closes = s.closes
  BY <1>1, <1>2, Zenon DEF SocketState, Same, Frame
<1>4. Typed(t)
  BY <1>1, <1>2, <1>3, Zenon DEF Typed
<1>5. AnsInv(t, 0)
  <2>1. \A j : Late(t, j) <=> Late(s, j)
    BY <1>3, Zenon DEF Late
  <2>2. \A j \in 1..Len(t.ops) : t.ops[j].answers = <<>> /\ ~Late(t, j) => t.async_result = j
    BY <1>1, <1>3, <2>1 DEF AnsInv
  <2> QED BY <1>1, <1>3, <2>2, Zenon DEF AnsInv
<1>6. PollInv(t) /\ QueueInv(t)
  BY <1>1, <1>3, Zenon DEF PollInv, QueueInv
<1> QED BY <1>3, <1>4, <1>5, <1>6, Zenon DEF Base, Noted

-----------------------------------------------------------------------------
\* A socket that has just been closed is in order.
LEMMA ClosedGood ==
  ASSUME NEW s, Looking(s), NEW t, ClosedNow(t, 0), Same(s, t)
  PROVE  Good(t)
<1>1. Quiet(t) /\ Waiting(t)
  BY Zenon DEF ClosedNow, Quiet, Waiting
<1>2. Looking(t)
  BY Zenon DEF ClosedNow, Looking, Same, Frame
<1> QED BY <1>1, <1>2, Zenon DEF ClosedNow, Good

\* So is a socket that no operation waits for.
LEMMA SettledGood ==
  ASSUME NEW s, Looking(s), ~s.disposed, NEW t, Base(t, 0), Quiet(t), Same(s, t),
         t.async_result = 0
  PROVE  Good(t)
<1>1. Waiting(t)
  BY Zenon DEF Waiting
<1>2. Looking(t)
  BY Zenon DEF Looking, Same, Frame
<1> QED BY <1>1, <1>2, Zenon DEF Good

-----------------------------------------------------------------------------
\* What every step from s to t does.
Step(s, t) ==
  Good(t) /\ (s.status = "CLOSED" /\ t.status # "CLOSED" => Len(t.ops) > Len(s.ops))

\* An operation is refused: the pending one goes on as before.
LEMMA RefusedGood ==
  ASSUME NEW s, Good(s), s.held, Len(s.ops) < MaxOps,
         NEW how \in How,
         NEW n, n = NewOp(s, how), NEW t, t = Complete(n, Len(n.ops), FALSE)
  PROVE  Good(t) /\ Len(t.ops) = Len(s.ops) + 1
<1> DEFINE k == Len(n.ops)
<1>1. Base(s, 0) /\ Quiet(s) /\ Waiting(s) /\ Looking(s)
  BY Zenon DEF Good
<1>0. k = Len(n.ops)
  BY Zenon
<1> HIDE DEF k
<1>2. Begun(s, n, k, how)
  BY <1>0, <1>1, NewOpKeeps, Zenon
<1>20. /\ Base(n, k) /\ Quiet(n) /\ k = Len(s.ops) + 1 /\ k # 0
      /\ n.status = s.status /\ n.sub_status = s.sub_status /\ n.has_pending = s.has_pending
      /\ n.async_result = s.async_result /\ n.lookups = s.lookups /\ n.closes = s.closes
      /\ n.held = s.held /\ n.disposed = s.disposed /\ n.polled = s.polled
      /\ n.session = s.session
      /\ \A i \in 1..Len(s.ops) : n.ops[i] = s.ops[i]
  BY <1>2, Zenon DEF Begun
<1>3. Base(t, 0) /\ OnlyOps(n, t) /\ t.async_result = n.async_result
  BY <1>0, <1>20, CompleteNewKeeps, Zenon
<1>4. Quiet(t)
  BY <1>20, <1>3, Zenon DEF Quiet, OnlyOps
<1>5. t.async_result # 0 => (Late(t, t.async_result) <=> Late(s, s.async_result))
  <2>1. s.async_result \in 0..Len(s.ops) /\ Len(s.ops) \in Nat
    BY <1>1 DEF Base, Typed, SocketState
  <2>2. s.async_result # 0 => s.async_result \in 1..Len(s.ops) /\ s.async_result \in 1..Len(n.ops)
    BY <1>0, <1>20, <2>1
  <2>3. \A i \in 1..Len(n.ops) : t.ops[i].how = n.ops[i].how
    BY <1>3, Zenon DEF OnlyOps, Same, Frame
  <2>4. t.closes = n.closes
    BY <1>3, Zenon DEF OnlyOps, Same, Frame
  <2>5. s.async_result # 0 => t.ops[s.async_result].how = s.ops[s.async_result].how
    <3> SUFFICES ASSUME s.async_result # 0
                 PROVE  t.ops[s.async_result].how = s.ops[s.async_result].how
      BY Zenon
    <3>1. t.ops[s.async_result].how = n.ops[s.async_result].how
      BY <2>2, <2>3, Zenon
    <3>2. n.ops[s.async_result] = s.ops[s.async_result]
      BY <1>20, <2>2, Zenon
    <3> QED BY <3>1, <3>2, Zenon
  <2>6. t.async_result = s.async_result /\ t.closes = s.closes
    BY <1>20, <1>3, <2>4, Zenon
  <2> QED BY <2>5, <2>6, Zenon DEF Late
<1>6. Waiting(t)
  BY <1>1, <1>20, <1>3, <1>5, ZenonT(40) DEF Waiting, OnlyOps
<1>7. Looking(t)
  BY <1>1, <1>20, <1>3, ZenonT(40) DEF Looking, OnlyOps, Same, Frame
<1> QED BY <1>0, <1>20, <1>3, <1>4, <1>6, <1>7, Zenon DEF Good, OnlyOps, Same, Frame

Taken(s, n, k, how) ==
  /\ Base(n, k) /\ Quiet(n) /\ k # 0 /\ k = Len(s.ops) + 1 /\ n.async_result = 0
  /\ n.ops[k].how = how /\ Looking(n) /\ ~n.disposed /\ k \in 1..Len(n.ops)

\* An operation is taken on: nothing else was pending.
LEMMA Available ==
  ASSUME NEW s, Good(s), s.held, Len(s.ops) < MaxOps,
         NEW how \in How,
         NEW n, n = NewOp(s, how), NEW k, k = Len(n.ops), evd_socket_check_availability(n)
  PROVE  Taken(s, n, k, how)
<1>1. Base(s, 0) /\ Quiet(s) /\ Waiting(s) /\ Looking(s)
  BY Zenon DEF Good
<1>20. Begun(s, n, k, how)
  BY <1>1, NewOpKeeps, Zenon
<1>2. /\ Base(n, k) /\ Quiet(n) /\ k = Len(s.ops) + 1 /\ k # 0 /\ n.ops[k].how = how
      /\ n.status = s.status /\ n.sub_status = s.sub_status /\ n.has_pending = s.has_pending
      /\ n.async_result = s.async_result /\ n.lookups = s.lookups
      /\ n.held = s.held /\ n.disposed = s.disposed /\ n.session = s.session
  BY <1>20, Zenon DEF Begun
<1>3. n.async_result = 0
  BY <1>1, <1>2, Zenon DEF Waiting, evd_socket_check_availability
<1>4. Looking(n) /\ ~n.disposed
  BY <1>1, <1>2, Zenon DEF Looking
<1>5. k \in 1..Len(n.ops)
  BY <1>2, Zenon DEF Base, AnsInv
<1> QED BY <1>2, <1>3, <1>4, <1>5, Zenon DEF Taken

\* The calls with a name: the operation is remembered and looked up.
LEMMA StartByNameKeeps ==
  ASSUME NEW how \in {"connect_to", "listen", "bind"},
         NEW action \in {"LISTENING", "BOUND", "CONNECTING"},
         Good(sock), sock.held, Len(sock.ops) < MaxOps, StartByName(how, action)
  PROVE  Good(sock') /\ Len(sock'.ops) = Len(sock.ops) + 1
<1> DEFINE n == NewOp(sock, how)
           k == Len(n.ops)
           a == [n EXCEPT !.async_result = k, !.has_pending = TRUE]
           t == evd_socket_set_status(a, "RESOLVING")
<1>1. CASE ~evd_socket_check_availability(n)
  <2>1. sock' = Complete(n, Len(n.ops), FALSE)
    BY <1>1, Zenon DEF StartByName
  <2>2. n = NewOp(sock, how) /\ how \in How
    BY Zenon DEF How
  <2> HIDE DEF n
  <2> QED BY <2>1, <2>2, RefusedGood, Zenon
<1>2. CASE evd_socket_check_availability(n)
  <2>1. sock' = [t EXCEPT !.sub_status = action, !.lookups = @ \cup {k}]
    BY <1>2, Zenon DEF StartByName
  <2>20. Taken(sock, n, k, how)
    <3>1. n = NewOp(sock, how) /\ k = Len(n.ops) /\ how \in How
      BY Zenon DEF How
    <3> HIDE DEF n, k
    <3> QED BY <1>2, <3>1, Available, Zenon
  <2>2. /\ Base(n, k) /\ Quiet(n) /\ k # 0 /\ k = Len(sock.ops) + 1 /\ n.async_result = 0
        /\ Looking(n) /\ ~n.disposed /\ k \in 1..Len(n.ops)
    BY <2>20, Zenon DEF Taken
  <2> HIDE DEF n
  <2>3. /\ Base(a, 0) /\ Same(n, a) /\ a.async_result = k /\ a.has_pending = TRUE
        /\ a.status = n.status /\ a.session = n.session
    <3>1. a = [n EXCEPT !.async_result = k, !.has_pending = TRUE]
      BY Zenon
    <3> HIDE DEF k, a
    <3>2. Noted(n, k, a)
      BY <2>2, <3>1, NotedKeeps, Zenon
    <3> QED BY <3>2, Zenon DEF Noted
  <2> HIDE DEF a
  <2>4. /\ Base(t, 0) /\ Frame(a, t)
        /\ Becomes(a, t, "RESOLVING") \/ ClosedNow(t, 0)
    BY <2>3, SetStatusKeeps, Zenon DEF Status
  <2> HIDE DEF t
  <2>5. /\ t \in SocketState /\ k \in 1..Len(t.ops) /\ Len(t.ops) = Len(n.ops)
        /\ t.lookups \subseteq 1..Len(t.ops) /\ ~t.disposed /\ PollInv(t) /\ QueueInv(t)
        /\ Len(t.ops) \in Nat
    BY <2>2, <2>3, <2>4, SMTT(40) DEF Base, Typed, Same, Frame, SocketState
  <2>6. k \in Nat
    BY <2>5, Zenon
  <2> DEFINE u == [t EXCEPT !.sub_status = action, !.lookups = t.lookups \cup {k}]
  <2>7. sock' = u
    BY <2>1, Zenon
  <2> HIDE DEF k
  <2>8. /\ u \in SocketState /\ u.lookups = t.lookups \cup {k} /\ u.sub_status = action
        /\ u.ops = t.ops /\ u.async_result = t.async_result /\ u.closes = t.closes
        /\ u.status = t.status /\ u.session = t.session /\ u.polled = t.polled
        /\ u.cond = t.cond /\ u.has_pending = t.has_pending /\ u.disposed = t.disposed
        /\ u.fd = t.fd /\ u.backlog = t.backlog /\ u.edge = t.edge /\ u.gave_up = t.gave_up
    BY <2>5, <2>6, ZenonT(40) DEF SocketState, Status
  <2> HIDE DEF u
  <2>9. Typed(u) /\ AnsInv(u, 0)
    BY <2>4, <2>5, <2>8, ZenonT(40) DEF Base, Typed, AnsInv, Late
  <2>10. PollInv(u) /\ QueueInv(u)
    BY <2>5, <2>8, Zenon DEF PollInv, QueueInv
  <2>11. Quiet(u)
    BY <2>4, <2>8, Zenon DEF Quiet, Becomes, ClosedNow
  <2>12. Waiting(u)
    BY <2>3, <2>4, <2>8, Zenon DEF Waiting, Becomes, ClosedNow
  <2>13. Looking(u)
    BY <2>5, <2>8, Zenon DEF Looking
  <2>14. Good(u)
    BY <2>9, <2>10, <2>11, <2>12, <2>13, Zenon DEF Good, Base
  <2> QED BY <2>2, <2>5, <2>7, <2>8, <2>14, Zenon DEF k
<1> QED BY <1>1, <1>2, Zenon

\* evd_socket_connect_addr, which remembers the operation last.
LEMMA ConnectAddrKeeps ==
  ASSUME NEW f \in Family, NEW r, Good(sock), sock.held, Len(sock.ops) < MaxOps,
         evd_socket_connect_addr(f, r)
  PROVE  Good(sock') /\ Len(sock'.ops) = Len(sock.ops) + 1
<1> DEFINE n == NewOp(sock, "connect_addr")
           k == Len(n.ops)
           c == evd_socket_connect_addr_internal(n, f, r)
<1>1. CASE ~evd_socket_check_availability(n)
  <2>1. sock' = Complete(n, Len(n.ops), FALSE)
    BY <1>1, Zenon DEF evd_socket_connect_addr
  <2>2. n = NewOp(sock, "connect_addr") /\ "connect_addr" \in How
    BY Zenon DEF How
  <2> HIDE DEF n
  <2> QED BY <2>1, <2>2, RefusedGood, Zenon
<1>2. CASE evd_socket_check_availability(n)
  <2>1. sock' = IF ~c.ok THEN Complete(c.s, k, FALSE)
                ELSE [c.s EXCEPT !.has_pending = TRUE, !.async_result = k]
    BY <1>2, Zenon DEF evd_socket_connect_addr
  <2>20. Taken(sock, n, k, "connect_addr")
    <3>1. n = NewOp(sock, "connect_addr") /\ k = Len(n.ops) /\ "connect_addr" \in How
      BY Zenon DEF How
    <3> HIDE DEF n, k
    <3> QED BY <1>2, <3>1, Available, Zenon
  <2>2. /\ Base(n, k) /\ Quiet(n) /\ k # 0 /\ k = Len(sock.ops) + 1 /\ n.async_result = 0
        /\ n.ops[k].how = "connect_addr" /\ Looking(n) /\ ~n.disposed /\ k \in 1..Len(n.ops)
    BY <2>20, Zenon DEF Taken
  <2>3. Len(n.ops) = k
    BY Zenon
  <2> HIDE DEF n, k
  <2>4. /\ Kept(n, k, c)
        /\ c.ok => Attempts(n, k, c.s)
    BY <2>2, ConnectKeeps, Zenon
  <2> HIDE DEF c
  <2>5. /\ Base(c.s, k) /\ Quiet(c.s) /\ Same(n, c.s) /\ c.s.async_result = 0
    BY <2>2, <2>4, Zenon DEF Kept
  <2>6. Len(c.s.ops) = k
    BY <2>3, <2>5, Zenon DEF Same, Frame
  <2>7. CASE ~c.ok
    <3>1. sock' = Complete(c.s, k, FALSE)
      BY <2>1, <2>7, Zenon
    <3>2. Base(sock', 0) /\ OnlyOps(c.s, sock') /\ sock'.async_result = 0
      <4>1. FALSE \in BOOLEAN
        BY Zenon
      <4>2. Base(sock', 0) /\ OnlyOps(c.s, sock') /\ sock'.async_result = c.s.async_result
        BY <2>2, <2>5, <3>1, <4>1, CompleteNewKeeps, Zenon
      <4> QED BY <2>5, <4>2, Zenon
    <3>3. Quiet(sock') /\ Same(n, sock') /\ Len(sock'.ops) = k
      BY <2>5, <2>6, <3>2, Zenon DEF Quiet, OnlyOps, Same, Frame
    <3> QED BY <2>2, <3>2, <3>3, SettledGood, Zenon
  <2>8. CASE c.ok
    <3> DEFINE t == [c.s EXCEPT !.async_result = k, !.has_pending = TRUE]
    <3>1. sock' = t
      <4>1. sock' = [c.s EXCEPT !.has_pending = TRUE, !.async_result = k]
        BY <2>1, <2>8, Zenon
      <4>2. c.s \in SocketState
        BY <2>5, Zenon DEF Base, Typed
      <4> QED BY <4>1, <4>2, Zenon DEF SocketState
    <3>2. /\ Base(t, 0) /\ Same(c.s, t) /\ t.async_result = k /\ t.has_pending = TRUE
          /\ t.status = c.s.status /\ t.session = c.s.session /\ t.polled = c.s.polled
          /\ t.cond = c.s.cond /\ t.ops = c.s.ops
      <4>1. t = [c.s EXCEPT !.async_result = k, !.has_pending = TRUE]
        BY Zenon
      <4> HIDE DEF t
      <4>2. Noted(c.s, k, t)
        BY <2>2, <2>5, <4>1, NotedKeeps, Zenon
      <4> QED BY <4>2, Zenon DEF Noted
    <3> HIDE DEF t
    <3>3. Quiet(t) /\ Same(n, t) /\ Len(t.ops) = k
      BY <2>5, <2>6, <3>2, Zenon DEF Quiet, Same, Frame
    <3>4. t.ops[k].how = "connect_addr" /\ t.closes = n.closes
      BY <2>2, <3>3, Zenon DEF Same, Frame
    <3>5. \/ t.status = "CONNECTING" /\ t.polled
          \/ t.status = "CLOSED" /\ Late(t, k)
      BY <2>4, <2>8, <3>2, <3>4, Zenon DEF Attempts, ClosedNow, Late
    <3>6. Waiting(t)
      BY <3>2, <3>5, Zenon DEF Waiting
    <3>7. Looking(t)
      BY <2>2, <3>3, Zenon DEF Looking, Same, Frame
    <3> QED BY <2>2, <3>1, <3>2, <3>3, <3>6, <3>7, Zenon DEF Good
  <2> QED BY <2>7, <2>8, Zenon
<1> QED BY <1>1, <1>2, Zenon

\* A call with an address that is answered before it returns.
LEMMA AnsweredCall ==
  ASSUME NEW n, NEW k, Base(n, k), k # 0, Quiet(n), n.async_result = 0, Looking(n), ~n.disposed,
         NEW m, m = [n EXCEPT !.has_pending = TRUE],
         NEW res, Kept(m, k, res), NEW t, t = Complete([res.s EXCEPT !.has_pending = FALSE], k, res.ok)
  PROVE  Good(t) /\ Len(t.ops) = Len(n.ops)
<1> DEFINE u == [res.s EXCEPT !.has_pending = FALSE]
<1>1. n \in SocketState
  BY Zenon DEF Base, Typed
<1>2. Same(n, m) /\ m.async_result = 0
  BY <1>1, Zenon DEF SocketState, Same, Frame
<1>3. Base(res.s, k) /\ Quiet(res.s) /\ Same(m, res.s) /\ res.s.async_result = 0 /\ res.ok \in BOOLEAN
  BY <1>2, Zenon DEF Kept
<1>4. res.s \in SocketState /\ PollInv(res.s) /\ QueueInv(res.s)
  BY <1>3, Zenon DEF Base, Typed
<1>5. /\ u \in SocketState /\ Same(res.s, u) /\ u.async_result = 0 /\ u.ops = res.s.ops
      /\ u.lookups = res.s.lookups /\ u.closes = res.s.closes /\ u.status = res.s.status
      /\ u.session = res.s.session /\ u.polled = res.s.polled /\ u.fd = res.s.fd
      /\ u.cond = res.s.cond /\ u.backlog = res.s.backlog /\ u.edge = res.s.edge
      /\ u.gave_up = res.s.gave_up
  BY <1>3, <1>4, Zenon DEF SocketState, Same, Frame
<1>6. t = Complete(u, k, res.ok)
  BY Zenon
<1> HIDE DEF u
<1>7. PollInv(u) /\ QueueInv(u) /\ Quiet(u)
  BY <1>3, <1>4, <1>5, Zenon DEF PollInv, QueueInv, Quiet
<1>8. Base(u, k)
  BY <1>3, <1>5, <1>7, BaseSame, Zenon
<1>9. Base(t, 0) /\ OnlyOps(u, t) /\ t.async_result = 0
  BY <1>3, <1>5, <1>6, <1>8, CompleteNewKeeps
<1>10. Quiet(t)
  BY <1>7, <1>9, Zenon DEF Quiet, OnlyOps
<1>11. Same(n, t)
  <2>1. Same(n, res.s)
    BY <1>2, <1>3, Zenon DEF Same, Frame
  <2>2. Same(n, u)
    BY <1>5, <2>1, Zenon DEF Same, Frame
  <2> QED BY <1>9, <2>2, Zenon DEF Same, Frame, OnlyOps
<1> QED BY <1>9, <1>10, <1>11, SettledGood, Zenon DEF Same, Frame

\* Preparing that call.
LEMMA PendingCall ==
  ASSUME NEW n, NEW k, Base(n, k), Quiet(n), NEW m, m = [n EXCEPT !.has_pending = TRUE]
  PROVE  Base(m, k) /\ Quiet(m)
<1>1. n \in SocketState /\ PollInv(n) /\ QueueInv(n)
  BY Zenon DEF Base, Typed
<1>2. /\ m \in SocketState /\ m.async_result = n.async_result /\ m.ops = n.ops
      /\ m.lookups = n.lookups /\ m.closes = n.closes /\ m.status = n.status
      /\ m.session = n.session /\ m.polled = n.polled /\ m.fd = n.fd
      /\ m.cond = n.cond /\ m.backlog = n.backlog /\ m.edge = n.edge
      /\ m.gave_up = n.gave_up
  BY <1>1, Zenon DEF SocketState
<1>3. PollInv(m) /\ QueueInv(m) /\ Quiet(m)
  BY <1>1, <1>2, Zenon DEF PollInv, QueueInv, Quiet
<1> QED BY <1>2, <1>3, BaseSame, Zenon

\* evd_socket_listen_addr answers before it returns.
LEMMA ListenAddrKeeps ==
  ASSUME NEW f \in Family \cup {"none"}, NEW r, Good(sock), sock.held, Len(sock.ops) < MaxOps,
         evd_socket_listen_addr(f, r)
  PROVE  Good(sock') /\ Len(sock'.ops) = Len(sock.ops) + 1
<1> DEFINE n == NewOp(sock, "listen_addr")
           k == Len(n.ops)
           m == [n EXCEPT !.has_pending = TRUE]
           l == evd_socket_listen_addr_internal(m, f, r)
<1>1. CASE ~evd_socket_check_availability(n)
  <2>1. sock' = Complete(n, Len(n.ops), FALSE)
    BY <1>1, Zenon DEF evd_socket_listen_addr
  <2>2. n = NewOp(sock, "listen_addr") /\ "listen_addr" \in How
    BY Zenon DEF How
  <2> HIDE DEF n
  <2> QED BY <2>1, <2>2, RefusedGood, Zenon
<1>2. CASE evd_socket_check_availability(n)
  <2>1. sock' = Complete([l.s EXCEPT !.has_pending = FALSE], k, l.ok)
    BY <1>2, Zenon DEF evd_socket_listen_addr
  <2>20. Taken(sock, n, k, "listen_addr")
    <3>1. n = NewOp(sock, "listen_addr") /\ k = Len(n.ops) /\ "listen_addr" \in How
      BY Zenon DEF How
    <3> HIDE DEF n, k
    <3> QED BY <1>2, <3>1, Available, Zenon
  <2>2. /\ Base(n, k) /\ Quiet(n) /\ k # 0 /\ k = Len(sock.ops) + 1 /\ n.async_result = 0
        /\ Looking(n) /\ ~n.disposed
    BY <2>20, Zenon DEF Taken
  <2>3. Len(n.ops) = k
    BY Zenon
  <2> HIDE DEF n, k
  <2>4. m = [n EXCEPT !.has_pending = TRUE] /\ Base(m, k) /\ Quiet(m)
    BY <2>2, PendingCall, Zenon
  <2> HIDE DEF m
  <2>5. Kept(m, k, l)
    BY <2>4, ListenKeeps, Zenon
  <2> HIDE DEF l
  <2>6. Good(sock') /\ Len(sock'.ops) = Len(n.ops)
    BY <2>1, <2>2, <2>4, <2>5, AnsweredCall
  <2> QED BY <2>2, <2>3, <2>6, Zenon
<1> QED BY <1>1, <1>2, Zenon

\* So does evd_socket_bind_addr.
LEMMA BindAddrKeeps ==
  ASSUME NEW f \in Family, NEW r, Good(sock), sock.held, Len(sock.ops) < MaxOps,
         evd_socket_bind_addr(f, r)
  PROVE  Good(sock') /\ Len(sock'.ops) = Len(sock.ops) + 1
<1> DEFINE n == NewOp(sock, "bind_addr")
           k == Len(n.ops)
           m == [n EXCEPT !.has_pending = TRUE]
           b == evd_socket_bind_addr_internal(m, f, r)
<1>1. CASE ~evd_socket_check_availability(n)
  <2>1. sock' = Complete(n, Len(n.ops), FALSE)
    BY <1>1, Zenon DEF evd_socket_bind_addr
  <2>2. n = NewOp(sock, "bind_addr") /\ "bind_addr" \in How
    BY Zenon DEF How
  <2> HIDE DEF n
  <2> QED BY <2>1, <2>2, RefusedGood, Zenon
<1>2. CASE evd_socket_check_availability(n)
  <2>1. sock' = Complete([b.s EXCEPT !.has_pending = FALSE], k, b.ok)
    BY <1>2, Zenon DEF evd_socket_bind_addr
  <2>20. Taken(sock, n, k, "bind_addr")
    <3>1. n = NewOp(sock, "bind_addr") /\ k = Len(n.ops) /\ "bind_addr" \in How
      BY Zenon DEF How
    <3> HIDE DEF n, k
    <3> QED BY <1>2, <3>1, Available, Zenon
  <2>2. /\ Base(n, k) /\ Quiet(n) /\ k # 0 /\ k = Len(sock.ops) + 1 /\ n.async_result = 0
        /\ Looking(n) /\ ~n.disposed
    BY <2>20, Zenon DEF Taken
  <2>3. Len(n.ops) = k
    BY Zenon
  <2> HIDE DEF n, k
  <2>4. m = [n EXCEPT !.has_pending = TRUE] /\ Base(m, k) /\ Quiet(m)
    BY <2>2, PendingCall, Zenon
  <2> HIDE DEF m
  <2>5. Kept(m, k, b)
    BY <2>4, BindKeeps, Zenon
  <2> HIDE DEF b
  <2>6. Good(sock') /\ Len(sock'.ops) = Len(n.ops)
    BY <2>1, <2>2, <2>4, <2>5, AnsweredCall
  <2> QED BY <2>2, <2>3, <2>6, Zenon
<1> QED BY <1>1, <1>2, Zenon

-----------------------------------------------------------------------------
\* Every call that starts an operation adds one and keeps the rest in order.
LEMMA StartOpKeeps ==
  ASSUME Good(sock), StartOp
  PROVE  Good(sock') /\ Len(sock'.ops) = Len(sock.ops) + 1
<1>1. sock.held /\ Len(sock.ops) < MaxOps
  BY Zenon DEF StartOp
<1>2. CASE evd_socket_connect_to
  BY <1>1, <1>2, StartByNameKeeps, Zenon DEF evd_socket_connect_to
<1>3. CASE evd_socket_listen
  BY <1>1, <1>3, StartByNameKeeps, Zenon DEF evd_socket_listen
<1>4. CASE evd_socket_bind
  BY <1>1, <1>4, StartByNameKeeps, Zenon DEF evd_socket_bind
<1>5. CASE \E f \in Family, r \in Failure : evd_socket_connect_addr(f, r)
  BY <1>1, <1>5, ConnectAddrKeeps, Zenon
<1>6. CASE \E f \in Family, r \in Failure : evd_socket_bind_addr(f, r)
  BY <1>1, <1>6, BindAddrKeeps
<1>7. CASE \E f \in Family \cup {"none"}, r \in Failure : evd_socket_listen_addr(f, r)
  BY <1>1, <1>7, ListenAddrKeeps, Zenon
<1> QED BY <1>2, <1>3, <1>4, <1>5, <1>6, <1>7, Zenon DEF StartOp

\* The application closes.
LEMMA AppClosesKeeps ==
  ASSUME Good(sock), AppCloses
  PROVE  Step(sock, sock')
<1>1. ClosedNow(sock', 0) /\ Same(sock, sock')
  BY CloseKeeps, Zenon DEF AppCloses, Good, Quiet
<1> QED BY <1>1, ClosedGood, Zenon DEF Step, Good, ClosedNow

\* The application chooses what it waits for.
LEMMA WatchConditionKeeps ==
  ASSUME Good(sock), evd_socket_watch_condition
  PROVE  Step(sock, sock')
<1> DEFINE v == sock'
<1>1. sock \in SocketState /\ PollInv(sock) /\ QueueInv(sock)
  BY Zenon DEF Good, Base, Typed
<1>2. PICK c \in SUBSET Conds : v = [sock EXCEPT !.cond = AllBits \ c]
  BY Zenon DEF evd_socket_watch_condition
<1>3. sock.status \in {"CONNECTED", "BOUND"}
  BY Zenon DEF evd_socket_watch_condition, SOCKET_ACTIVE
<1>4. AllBits \ c \in SUBSET AllBits
  BY Zenon
<1>5. /\ v \in SocketState /\ Same(sock, v) /\ v.async_result = sock.async_result
      /\ v.ops = sock.ops /\ v.status = sock.status /\ v.closes = sock.closes
      /\ v.lookups = sock.lookups /\ v.session = sock.session /\ v.polled = sock.polled
      /\ v.backlog = sock.backlog /\ v.edge = sock.edge /\ v.gave_up = sock.gave_up
      /\ v.fd = sock.fd /\ v.has_pending = sock.has_pending
  BY <1>1, <1>2, <1>4, Zenon DEF SocketState, Same, Frame
<1> HIDE DEF v
<1>6. PollInv(v) /\ QueueInv(v)
  BY <1>1, <1>5, Zenon DEF PollInv, QueueInv
<1>7. Base(v, 0)
  BY <1>5, <1>6, BaseSame, Zenon DEF Good
<1>8. Quiet(v) /\ Waiting(v) /\ Looking(v)
  BY <1>3, <1>5, Zenon DEF Good, Quiet, Waiting, Looking, Late, Same, Frame
<1>9. Step(sock, v)
  BY <1>5, <1>7, <1>8, Zenon DEF Step, Good
<1> QED BY <1>9, Zenon DEF v

\* The application drops its reference.
LEMMA UnrefKeeps ==
  ASSUME Good(sock), Unref
  PROVE  Step(sock, sock')
<1> DEFINE v == sock'
<1>1. sock \in SocketState /\ PollInv(sock) /\ QueueInv(sock)
  BY DEF Good, Base, Typed
<1>2. v = [sock EXCEPT !.held = FALSE] /\ ~sock.disposed
  BY Zenon DEF Unref, Good, Looking
<1>3. /\ v \in SocketState /\ v.async_result = sock.async_result
      /\ v.ops = sock.ops /\ v.status = sock.status /\ v.closes = sock.closes
      /\ v.lookups = sock.lookups /\ v.session = sock.session /\ v.polled = sock.polled
      /\ v.backlog = sock.backlog /\ v.edge = sock.edge /\ v.gave_up = sock.gave_up
      /\ v.fd = sock.fd /\ v.has_pending = sock.has_pending /\ v.cond = sock.cond
      /\ v.sub_status = sock.sub_status /\ v.disposed = sock.disposed
  BY <1>1, <1>2, Zenon DEF SocketState
<1>4. ~v.disposed
  BY <1>2, <1>3, Zenon
<1> HIDE DEF v
<1>5. PollInv(v) /\ QueueInv(v)
  BY <1>1, <1>3, Zenon DEF PollInv, QueueInv
<1>6. Base(v, 0)
  BY <1>3, <1>5, BaseSame, Zenon DEF Good
<1>7. Quiet(v) /\ Waiting(v) /\ Looking(v)
  BY <1>3, <1>4, Zenon DEF Good, Quiet, Waiting, Looking, Late
<1>8. Step(sock, v)
  BY <1>3, <1>6, <1>7, Zenon DEF Step, Good
<1> QED BY <1>8, Zenon DEF v

\* The object is disposed of when nothing holds it.
LEMMA DisposeKeeps ==
  ASSUME Good(sock), evd_socket_dispose
  PROVE  Step(sock, sock')
<1> DEFINE v == sock'
           u == [sock EXCEPT !.status = "CLOSED"]
           c == evd_socket_cleanup_internal(u)
<1>1. /\ sock \in SocketState /\ PollInv(sock) /\ QueueInv(sock) /\ ~sock.held
      /\ sock.lookups = {} /\ sock.async_result = 0 /\ Base(sock, 0)
  BY Zenon DEF Good, Base, Typed, evd_socket_dispose
<1>2. v = [c EXCEPT !.disposed = TRUE]
  BY Zenon DEF evd_socket_dispose
<1>3. /\ u \in SocketState /\ u.status = "CLOSED" /\ u.async_result = sock.async_result
      /\ u.ops = sock.ops /\ u.closes = sock.closes
      /\ u.lookups = sock.lookups /\ u.session = sock.session /\ u.polled = sock.polled
      /\ u.backlog = sock.backlog /\ u.edge = sock.edge /\ u.gave_up = sock.gave_up
      /\ u.fd = sock.fd /\ u.held = sock.held
  BY <1>1, Zenon DEF SocketState, Status
<1> HIDE DEF u
<1>4. PollInv(u) /\ QueueInv(u)
  BY <1>1, <1>3, Zenon DEF PollInv, QueueInv
<1>5. Base(u, 0)
  BY <1>1, <1>3, <1>4, BaseSame, Zenon
<1>6. /\ Base(c, 0) /\ Same(u, c) /\ c.async_result = u.async_result
      /\ c.status = u.status /\ c.session = FALSE
  BY <1>5, CleanupKeeps, Zenon
<1> HIDE DEF c
<1>7. c \in SocketState /\ PollInv(c) /\ QueueInv(c)
  BY <1>6, Zenon DEF Base, Typed
<1>8. /\ v \in SocketState /\ v.async_result = c.async_result
      /\ v.ops = c.ops /\ v.status = c.status /\ v.closes = c.closes
      /\ v.lookups = c.lookups /\ v.session = c.session /\ v.polled = c.polled
      /\ v.backlog = c.backlog /\ v.edge = c.edge /\ v.gave_up = c.gave_up
      /\ v.fd = c.fd /\ v.held = c.held
  BY <1>2, <1>7, Zenon DEF SocketState
<1> HIDE DEF v
<1>9. PollInv(v) /\ QueueInv(v)
  BY <1>7, <1>8, Zenon DEF PollInv, QueueInv
<1>10. Base(v, 0)
  BY <1>6, <1>8, <1>9, BaseSame, Zenon
<1>11. /\ v.status = "CLOSED" /\ v.session = FALSE /\ v.async_result = 0 /\ v.lookups = {}
       /\ ~v.held
  BY <1>1, <1>3, <1>6, <1>8, Zenon DEF Same, Frame
<1>12. Quiet(v) /\ Waiting(v) /\ Looking(v)
  BY <1>11, Zenon DEF Quiet, Waiting, Looking
<1>13. Step(sock, v)
  BY <1>10, <1>11, <1>12, Zenon DEF Step, Good
<1> QED BY <1>13 DEF v

\* Kernel and listener.
LEMMA PeerConnectsKeeps ==
  ASSUME Good(sock), PeerConnects
  PROVE  Step(sock, sock')
<1> DEFINE v == sock'
<1>1. /\ sock \in SocketState /\ PollInv(sock) /\ QueueInv(sock) /\ Base(sock, 0)
      /\ sock.backlog \in Nat
  BY Zenon DEF Good, Base, Typed, SocketState
<1>2. v = [sock EXCEPT !.backlog = sock.backlog + 1, !.edge = TRUE] /\ sock.backlog < MaxBacklog
  BY Zenon DEF PeerConnects
<1> DEFINE k == sock.backlog + 1
<1>3. k \in Nat /\ k <= MaxBacklog /\ k > 0
  BY <1>1, <1>2, SocketAssumption
<1> HIDE DEF k
<1>4. v = [sock EXCEPT !.backlog = k, !.edge = TRUE]
  BY <1>2, Zenon DEF k
<1>5. /\ v \in SocketState /\ v.async_result = sock.async_result
      /\ v.ops = sock.ops /\ v.status = sock.status /\ v.closes = sock.closes
      /\ v.lookups = sock.lookups /\ v.session = sock.session /\ v.polled = sock.polled
      /\ v.backlog = k /\ v.edge = TRUE /\ v.held = sock.held
      /\ v.fd = sock.fd /\ v.has_pending = sock.has_pending /\ v.cond = sock.cond
      /\ v.sub_status = sock.sub_status /\ v.disposed = sock.disposed
  BY <1>1, <1>3, <1>4, Zenon DEF SocketState
<1> HIDE DEF v
<1>6. PollInv(v)
  BY <1>1, <1>5, Zenon DEF PollInv
<1>7. QueueInv(v)
  BY <1>3, <1>5, Zenon DEF QueueInv
<1>8. Base(v, 0)
  BY <1>1, <1>5, <1>6, <1>7, BaseSame, Zenon
<1>9. Quiet(v) /\ Waiting(v) /\ Looking(v)
  BY <1>5, Zenon DEF Good, Quiet, Waiting, Looking, Late
<1>10. Step(sock, v)
  BY <1>5, <1>8, <1>9, Zenon DEF Step, Good
<1> QED BY <1>10 DEF v

-----------------------------------------------------------------------------
\* A lookup has ended.
LEMMA LookupEnds ==
  ASSUME NEW s, Good(s), NEW i, NEW t, t = [s EXCEPT !.lookups = @ \ {i}]
  PROVE  Good(t) /\ t.status = s.status
<1>1. s \in SocketState /\ PollInv(s) /\ QueueInv(s) /\ Typed(s) /\ AnsInv(s, 0)
  BY Zenon DEF Good, Base, Typed
<1>2. /\ t \in SocketState /\ t.async_result = s.async_result
      /\ t.ops = s.ops /\ t.status = s.status /\ t.closes = s.closes
      /\ t.lookups = s.lookups \ {i} /\ t.session = s.session /\ t.polled = s.polled
      /\ t.backlog = s.backlog /\ t.edge = s.edge /\ t.gave_up = s.gave_up
      /\ t.fd = s.fd /\ t.has_pending = s.has_pending /\ t.cond = s.cond
      /\ t.sub_status = s.sub_status /\ t.disposed = s.disposed /\ t.held = s.held
  BY <1>1, Zenon DEF SocketState
<1>3. PollInv(t) /\ QueueInv(t)
  BY <1>1, <1>2, Zenon DEF PollInv, QueueInv
<1>4. Typed(t)
  BY <1>1, <1>2, Zenon DEF Typed
<1>5. AnsInv(t, 0)
  BY <1>1, <1>2, ZenonT(40) DEF AnsInv, Late
<1>6. Quiet(t) /\ Waiting(t) /\ Looking(t)
  BY <1>2, Zenon DEF Good, Quiet, Waiting, Looking, Late
<1> QED BY <1>2, <1>3, <1>4, <1>5, <1>6, Zenon DEF Good, Base

\* The operation the lookup was for has run on t, the socket without its note
\* of what to do: the socket is closed, or the operation was answered, or the
\* connection is on its way.
LEMMA OperationEnds ==
  ASSUME NEW s, Good(s), ~s.disposed, NEW t, t = [s EXCEPT !.sub_status = "CLOSED"],
         NEW res, Kept(t, 0, res), NEW atOnce \in BOOLEAN,
         ~atOnce /\ res.ok => Attempts(t, 0, res.s),
         NEW u, u = IF res.ok /\ atOnce THEN AnswerNow(res.s) ELSE res.s,
         NEW d, d = IF res.error THEN Abort(u) ELSE u
  PROVE  Good(d)
<1>1. s \in SocketState /\ Waiting(s) /\ Looking(s)
  BY Zenon DEF Good, Base, Typed
<1>2. /\ t.disposed = s.disposed /\ t.async_result = s.async_result /\ t.has_pending = s.has_pending
      /\ t.held = s.held /\ t.lookups = s.lookups
  BY <1>1, Zenon DEF SocketState
<1>3. Base(res.s, 0) /\ Quiet(res.s) /\ Same(t, res.s)
  BY Zenon DEF Kept
<1>4. /\ Base(u, 0) /\ Quiet(u) /\ Same(t, u) /\ u.status = res.s.status
      /\ (res.ok /\ atOnce => u.async_result = 0) /\ (~(res.ok /\ atOnce) => u = res.s)
  <2>1. CASE res.ok /\ atOnce
    <3>1. u = AnswerNow(res.s)
      BY <2>1, Zenon
    <3>2. /\ Base(u, 0) /\ Quiet(u) /\ Same(res.s, u) /\ u.async_result = 0
          /\ u.status = res.s.status
      BY <1>3, <3>1, AnswerNowKeeps, Zenon
    <3> QED BY <1>3, <2>1, <3>2 DEF Same, Frame
  <2>2. CASE ~(res.ok /\ atOnce)
    <3>1. u = res.s
      BY <2>2, Zenon
    <3> QED BY <1>3, <2>2, <3>1, Zenon
  <2> QED BY <2>1, <2>2, Zenon
<1>5. CASE res.error
  <2>1. d = Abort(u)
    BY <1>5, Zenon
  <2>2. ClosedNow(d, 0) /\ Same(u, d)
    BY <1>4, <2>1, AbortKeeps, Zenon DEF Quiet
  <2>3. ~d.disposed
    BY <1>2, <1>4, <2>2, Zenon DEF Same, Frame
  <2>4. Quiet(d) /\ Waiting(d) /\ Looking(d)
    BY <2>2, <2>3, Zenon DEF ClosedNow, Quiet, Waiting, Looking
  <2> QED BY <2>2, <2>4, Zenon DEF Good, ClosedNow
<1>6. CASE ~res.error
  <2>1. d = u /\ res.ok /\ u.status # "RESOLVING"
    BY <1>4, <1>6, Zenon DEF Kept
  <2>2. ~u.disposed
    BY <1>2, <1>4, Zenon DEF Same, Frame
  <2>3. Looking(u)
    BY <2>1, <2>2, Zenon DEF Looking
  <2>4. Waiting(u)
    <3>1. CASE atOnce
      BY <1>4, <2>1, <3>1, Zenon DEF Waiting
    <3>2. CASE ~atOnce
      <4>1. u = res.s /\ Attempts(t, 0, u)
        BY <1>4, <2>1, <3>2, Zenon
      <4>2. CASE ClosedNow(u, 0)
        BY <4>2, Zenon DEF ClosedNow, Waiting
      <4>3. CASE /\ u.status = "CONNECTING" /\ u.polled /\ u.async_result = t.async_result
                 /\ u.has_pending = t.has_pending
        BY <1>1, <1>2, <4>3, Zenon DEF Waiting
      <4> QED BY <4>1, <4>2, <4>3, Zenon DEF Attempts
    <3> QED BY <3>1, <3>2, Zenon
  <2> QED BY <1>4, <2>1, <2>3, <2>4, Zenon DEF Good
<1> QED BY <1>5, <1>6, Zenon

\* The resolver answers a lookup, in time or late.
LEMMA ResolverAnswersKeeps ==
  ASSUME Good(sock), ResolverAnswers
  PROVE  Step(sock, sock')
<1>1. PICK i \in sock.lookups, fams \in SUBSET Family, r \in Failure :
        \E s \in evd_socket_on_address_resolved(sock, fams, r) :
          sock' = [s EXCEPT !.lookups = @ \ {i}]
  BY Zenon DEF ResolverAnswers
<1>2. PICK s \in evd_socket_on_address_resolved(sock, fams, r) :
        sock' = [s EXCEPT !.lookups = @ \ {i}]
  BY <1>1, Zenon
<1>3. ~sock.disposed /\ Looking(sock) /\ Base(sock, 0) /\ Quiet(sock) /\ sock \in SocketState
  BY Zenon DEF Good, Looking, Base, Typed
<1>4. Good(s) /\ (sock.status = "CLOSED" => s.status = "CLOSED")
  <2>1. CASE sock.status # "RESOLVING"
    <3>1. s = sock
      BY <2>1, Zenon DEF evd_socket_on_address_resolved
    <3> QED BY <3>1, Zenon
  <2>2. CASE sock.status = "RESOLVING"
    <3> DEFINE match == {f \in fams : evd_socket_check_address(sock, f)}
               t == [sock EXCEPT !.sub_status = "CLOSED"]
               op(f) ==
                 CASE sock.sub_status = "LISTENING" -> evd_socket_listen_addr_internal(t, f, r)
                   [] sock.sub_status = "BOUND" -> evd_socket_bind_addr_internal(t, f, r)
                   [] sock.sub_status = "CONNECTING" -> evd_socket_connect_addr_internal(t, f, r)
               u(f) == IF op(f).ok /\ sock.sub_status # "CONNECTING"
                       THEN AnswerNow(op(f).s) ELSE op(f).s
               done(f) == IF op(f).error THEN Abort(u(f)) ELSE u(f)
    <3>1. \/ s = Abort(sock)
          \/ \E f \in match : s = done(f)
      BY <2>2, Zenon DEF evd_socket_on_address_resolved
    <3>2. CASE s = Abort(sock)
      <4>1. ClosedNow(s, 0) /\ Same(sock, s)
        BY <1>3, <3>2, AbortKeeps, Zenon DEF Quiet
      <4> QED BY <1>3, <2>2, <4>1, ClosedGood, Zenon
    <3>3. CASE \E f \in match : s = done(f)
      <4>1. PICK f \in match : s = done(f)
        BY <3>3, Zenon
      <4>2. f \in Family
        BY <4>1, Zenon
      <4>3. Base(t, 0) /\ Quiet(t)
        <5>1. PollInv(sock) /\ QueueInv(sock)
          BY <1>3, Zenon DEF Base
        <5>2. /\ t \in SocketState /\ t.async_result = sock.async_result /\ t.ops = sock.ops
              /\ t.lookups = sock.lookups /\ t.closes = sock.closes /\ t.status = sock.status
              /\ t.session = sock.session /\ t.polled = sock.polled /\ t.fd = sock.fd
              /\ t.cond = sock.cond /\ t.backlog = sock.backlog /\ t.edge = sock.edge
              /\ t.gave_up = sock.gave_up
          BY <1>3, Zenon DEF SocketState, Status
        <5> HIDE DEF t
        <5>3. PollInv(t) /\ QueueInv(t) /\ Quiet(t)
          BY <1>3, <5>1, <5>2, Zenon DEF PollInv, QueueInv, Quiet
        <5> QED BY <1>3, <5>2, <5>3, BaseSame, Zenon
      <4>4. t = [sock EXCEPT !.sub_status = "CLOSED"]
        BY Zenon
      <4>5. PICK res : res = op(f)
        BY Zenon
      <4>6. PICK w : w = u(f)
        BY SMTT(20)
      <4>7. PICK atOnce \in BOOLEAN : atOnce = (sock.sub_status # "CONNECTING")
        BY Zenon
      <4>8. w = IF res.ok /\ atOnce THEN AnswerNow(res.s) ELSE res.s
        <5> HIDE DEF op
        <5>1. CASE atOnce
          <6>1. sock.sub_status # "CONNECTING"
            BY <4>7, <5>1, Zenon
          <6> QED BY <4>5, <4>6, <5>1, <6>1, Zenon
        <5>2. CASE ~atOnce
          <6>1. ~(sock.sub_status # "CONNECTING")
            BY <4>7, <5>2, Zenon
          <6> QED BY <4>5, <4>6, <5>2, <6>1, Zenon
        <5> QED BY <5>1, <5>2, Zenon
      <4>9. s = IF res.error THEN Abort(w) ELSE w
        BY <4>1, <4>5, <4>6, SMTT(40)
      <4>10. sock.sub_status \in {"LISTENING", "BOUND", "CONNECTING"}
        BY <1>3, <2>2, Zenon DEF Looking
      <4>11. \/ res = evd_socket_listen_addr_internal(t, f, r) /\ atOnce
             \/ res = evd_socket_bind_addr_internal(t, f, r) /\ atOnce
             \/ res = evd_socket_connect_addr_internal(t, f, r)
        BY <4>5, <4>7, <4>10, Zenon
      <4> HIDE DEF t, op, u, done
      <4>12. Kept(t, 0, res) /\ (~atOnce /\ res.ok => Attempts(t, 0, res.s))
        <5>1. CASE res = evd_socket_listen_addr_internal(t, f, r) /\ atOnce
          BY <4>2, <4>3, <5>1, ListenKeeps, Zenon
        <5>2. CASE res = evd_socket_bind_addr_internal(t, f, r) /\ atOnce
          BY <4>2, <4>3, <5>2, BindKeeps, Zenon
        <5>3. CASE res = evd_socket_connect_addr_internal(t, f, r)
          BY <4>2, <4>3, <5>3, ConnectKeeps, Zenon
        <5> QED BY <4>11, <5>1, <5>2, <5>3, Zenon
      <4>13. Good(s)
        BY <1>3, <4>4, <4>8, <4>9, <4>12, OperationEnds, Zenon
      <4> QED BY <2>2, <4>13, Zenon
    <3> QED BY <3>1, <3>2, <3>3, Zenon
  <2> QED BY <2>1, <2>2, Zenon
<1>5. Good(sock') /\ sock'.status = s.status
  BY <1>2, <1>4, LookupEnds, Zenon
<1> QED BY <1>4, <1>5, Zenon DEF Step

-----------------------------------------------------------------------------
\* s with another condition, before the condition is handled.
LEMMA ConditionSet ==
  ASSUME NEW s, Base(s, 0), NEW c \in SUBSET Conds, NEW t, t = [s EXCEPT !.cond = c]
  PROVE  /\ Base(t, 0) /\ Same(s, t) /\ t.status = s.status /\ t.session = s.session
         /\ t.async_result = s.async_result /\ t.has_pending = s.has_pending
         /\ t.polled = s.polled /\ t.ops = s.ops
<1>1. s \in SocketState /\ PollInv(s) /\ QueueInv(s) /\ c \in SUBSET AllBits
  BY Zenon DEF Base, Typed, AllBits
<1>2. /\ t \in SocketState /\ Same(s, t) /\ t.async_result = s.async_result /\ t.ops = s.ops
      /\ t.lookups = s.lookups /\ t.closes = s.closes /\ t.status = s.status
      /\ t.session = s.session /\ t.polled = s.polled /\ t.fd = s.fd
      /\ t.backlog = s.backlog /\ t.edge = s.edge /\ t.has_pending = s.has_pending
      /\ t.gave_up = s.gave_up
  BY <1>1, Zenon DEF SocketState, Same, Frame
<1>3. PollInv(t) /\ QueueInv(t)
  BY <1>1, <1>2, Zenon DEF PollInv, QueueInv
<1> QED BY <1>2, <1>3, BaseSame, Zenon

\* The connection is made, and the operation hears of it.
LEMMA ConnectedKeeps ==
  ASSUME NEW s, Base(s, 0), ~s.disposed, NEW t, t = Connected(s)
  PROVE  Good(t)
<1> DEFINE a == [s EXCEPT !.has_pending = FALSE]
           u == evd_socket_set_status(a, "CONNECTED")
<1>1. s \in SocketState /\ PollInv(s) /\ QueueInv(s)
  BY Zenon DEF Base, Typed
<1>2. /\ a \in SocketState /\ a.async_result = s.async_result /\ a.ops = s.ops
      /\ a.lookups = s.lookups /\ a.closes = s.closes /\ a.status = s.status
      /\ a.session = s.session /\ a.polled = s.polled /\ a.fd = s.fd
      /\ a.backlog = s.backlog /\ a.edge = s.edge
      /\ a.gave_up = s.gave_up /\ a.disposed = s.disposed
  BY <1>1, Zenon DEF SocketState
<1>3. t = IF u.async_result = 0 THEN u ELSE Answered(u, TRUE)
  BY Zenon DEF Connected, Answered
<1> HIDE DEF a
<1>4. PollInv(a) /\ QueueInv(a)
  BY <1>1, <1>2, Zenon DEF PollInv, QueueInv
<1>5. Base(a, 0)
  BY <1>2, <1>4, BaseSame, Zenon
<1>6. Base(u, 0) /\ Frame(a, u) /\ (Becomes(a, u, "CONNECTED") \/ ClosedNow(u, 0))
  BY <1>5, SetStatusKeeps, Zenon DEF Status
<1> HIDE DEF u
<1>7. /\ u.status \in {"CONNECTED", "CLOSED"} /\ (u.session => u.status # "CLOSED")
      /\ u.disposed = s.disposed
  BY <1>2, <1>6, Zenon DEF Becomes, ClosedNow, Frame
<1>8. /\ Base(t, 0) /\ t.async_result = 0 /\ t.status = u.status /\ t.session = u.session
      /\ t.disposed = u.disposed
  <2>1. CASE u.async_result = 0
    BY <1>3, <1>6, <2>1, Zenon
  <2>2. CASE u.async_result # 0
    <3>1. t = Answered(u, TRUE)
      BY <1>3, <2>2, Zenon
    <3>2. Base(t, 0) /\ OnlyOps(u, t) /\ t.async_result = 0
      BY <1>6, <2>2, <3>1, AnsweredKeeps, Zenon
    <3> QED BY <3>2, Zenon DEF OnlyOps, Same, Frame
  <2> QED BY <2>1, <2>2, Zenon
<1>9. Quiet(t) /\ Waiting(t) /\ Looking(t)
  BY <1>7, <1>8, Zenon DEF Quiet, Waiting, Looking
<1> QED BY <1>8, <1>9, Zenon DEF Good

\* The condition of a socket that does not listen.
LEMMA HandleConditionKeeps ==
  ASSUME NEW s, Good(s), s.polled, s.status # "LISTENING", NEW c \in SUBSET Conds, NEW how,
         NEW d, d = evd_socket_handle_condition(s, c, how)
  PROVE  Good(d)
<1> DEFINE t == [s EXCEPT !.cond = c]
<1>1. Base(s, 0) /\ Quiet(s) /\ Waiting(s) /\ Looking(s) /\ s.session /\ ~s.disposed
  BY Zenon DEF Good, Base, PollInv, Looking
<1>2. /\ Base(t, 0) /\ Same(s, t) /\ t.status = s.status /\ t.session = s.session
      /\ t.async_result = s.async_result /\ t.has_pending = s.has_pending
      /\ t.polled = s.polled /\ t.ops = s.ops
  BY <1>1, ConditionSet, ZenonT(40)
<1>3. \/ d = s
      \/ d = Abort(t)
      \/ d = evd_socket_close(t)
      \/ d = Connected(t)
      \/ d = t
  <2>1. t.status # "LISTENING"
    BY <1>2, Zenon
  <2> QED BY <2>1, Zenon DEF evd_socket_handle_condition
<1> HIDE DEF t
<1>4. t.session => t.status # "CLOSED"
  BY <1>1, <1>2, Zenon DEF Quiet
<1>5. Looking(t) /\ ~t.disposed
  BY <1>1, <1>2, Zenon DEF Looking, Same, Frame
<1>6. CASE d = Abort(t)
  <2>1. ClosedNow(d, 0) /\ Same(t, d)
    BY <1>2, <1>4, <1>6, AbortKeeps, Zenon
  <2> QED BY <1>5, <2>1, ClosedGood, Zenon
<1>7. CASE d = evd_socket_close(t)
  <2>1. ClosedNow(d, 0) /\ Same(t, d)
    BY <1>2, <1>4, <1>7, CloseKeeps, SMTT(40)
  <2> QED BY <1>5, <2>1, ClosedGood
<1>8. CASE d = Connected(t)
  BY <1>2, <1>5, <1>8, ConnectedKeeps, Zenon
<1>9. CASE d = t
  <2>1. Quiet(t)
    BY <1>1, <1>2, Zenon DEF Quiet
  <2>2. Waiting(t)
    BY <1>1, <1>2, Zenon DEF Waiting, Late, Same, Frame
  <2> QED BY <1>2, <1>5, <1>9, <2>1, <2>2, Zenon DEF Good
<1> QED BY <1>3, <1>6, <1>7, <1>8, <1>9, Zenon

\* A listener empties its queue, gives up, or is closed by a handler.
LEMMA AcceptKeeps ==
  ASSUME NEW s, Good(s), s.polled, s.status = "LISTENING", s.edge,
         NEW how \in {"all", "error", "close"},
         NEW d, d = evd_socket_handle_condition([s EXCEPT !.edge = FALSE], {"in"}, how)
  PROVE  Good(d)
<1> DEFINE one == {"in"}
           none == {}
           a == [s EXCEPT !.edge = FALSE]
           t == [s EXCEPT !.edge = FALSE, !.cond = none]
<1>1. /\ Base(s, 0) /\ Quiet(s) /\ Waiting(s) /\ Looking(s) /\ s.session /\ ~s.disposed
      /\ s \in SocketState /\ PollInv(s) /\ QueueInv(s) /\ s.cond = {} /\ s.async_result = 0
      /\ s.fd /\ s.backlog \in Nat /\ s.accepted \in Nat /\ s.backlog > 0
      /\ s.backlog <= MaxBacklog
  BY Zenon DEF Good, Base, Typed, PollInv, QueueInv, Looking, Quiet, Waiting, SocketState
<1>2. d = Accept([a EXCEPT !.cond = one], how)
  <2>1. a.cond = {} /\ a.status = "LISTENING"
    BY <1>1, Zenon DEF SocketState
  <2>2. [a EXCEPT !.cond = one].status = "LISTENING" /\ one # a.cond
    BY <1>1, <2>1, Zenon DEF SocketState
  <2> QED BY <2>1, <2>2, Zenon DEF evd_socket_handle_condition
<1>3. ClearIn([a EXCEPT !.cond = one]) = t
  <2>1. one \ {"in"} = none
    BY Zenon
  <2>2. [a EXCEPT !.cond = one].cond = one
    BY <1>1, Zenon DEF SocketState
  <2>3. ClearIn([a EXCEPT !.cond = one]) = [[a EXCEPT !.cond = one] EXCEPT !.cond = none]
    BY <2>1, <2>2, Zenon DEF ClearIn
  <2> HIDE DEF one, none
  <2> QED BY <1>1, <2>3, Zenon DEF SocketState
<1>4. \/ how = "all" /\ d = [t EXCEPT !.accepted = t.accepted + t.backlog, !.backlog = 0]
      \/ how = "error" /\ d = [t EXCEPT !.gave_up = TRUE, !.backlog = t.backlog - 1]
      \/ how = "close" /\ d = evd_socket_close([t EXCEPT !.accepted = t.accepted + 1])
  BY <1>2, <1>3, Zenon DEF Accept
<1>5. /\ t \in SocketState /\ t.async_result = 0 /\ t.ops = s.ops
      /\ t.lookups = s.lookups /\ t.closes = s.closes /\ t.status = "LISTENING"
      /\ t.session = TRUE /\ t.polled = s.polled /\ t.fd = s.fd
      /\ t.backlog = s.backlog /\ t.edge = FALSE /\ t.has_pending = s.has_pending
      /\ t.gave_up = s.gave_up /\ t.cond = {} /\ t.accepted = s.accepted
      /\ t.disposed = FALSE /\ t.sub_status = s.sub_status /\ t.held = s.held
  BY <1>1, Zenon DEF SocketState
<1> HIDE DEF t
<1>6. CASE how = "close"
  <2> DEFINE n == t.accepted + 1
             u == [t EXCEPT !.accepted = n]
             v == [t EXCEPT !.accepted = n, !.edge = TRUE]
  <2>1. n \in Nat
    BY <1>1, <1>5
  <2>2. d = evd_socket_close(u)
    BY <1>4, <1>6, Zenon
  <2> HIDE DEF n
  <2>3. /\ v \in SocketState /\ v.async_result = 0 /\ v.ops = s.ops
        /\ v.lookups = s.lookups /\ v.closes = s.closes /\ v.status = "LISTENING"
        /\ v.session = s.session /\ v.polled = s.polled /\ v.fd = s.fd
        /\ v.backlog = s.backlog /\ v.edge = s.edge
        /\ v.gave_up = s.gave_up /\ v.disposed = FALSE
    BY <1>1, <1>5, <2>1, ZenonT(40) DEF SocketState
  <2>4. /\ u \in SocketState /\ u.async_result = 0 /\ u.fd = TRUE /\ u.session = TRUE
        /\ u.status = "LISTENING"
    BY <1>1, <1>5, <2>1, Zenon DEF SocketState
  <2>5. evd_socket_close(u) = evd_socket_close(v)
    <3> DEFINE w == [t EXCEPT !.accepted = n, !.edge = FALSE, !.polled = FALSE, !.fd = FALSE,
                              !.backlog = 0, !.family = "none", !.cond = {}, !.session = FALSE,
                              !.has_pending = FALSE, !.status = "CLOSED"]
    <3>1. evd_socket_close(u) = w
      <4>1. evd_socket_close(u) = [evd_socket_cleanup_internal(u) EXCEPT !.status = "CLOSED"]
        BY <2>4, Zenon DEF evd_socket_close
      <4> QED BY <1>5, <2>1, <2>4, <4>1, ZenonT(40) DEF evd_socket_cleanup_internal, evd_socket_unwatch, SocketState
    <3>2. evd_socket_close(v) = w
      <4>1. evd_socket_close(v) = [evd_socket_cleanup_internal(v) EXCEPT !.status = "CLOSED"]
        BY <2>3, Zenon DEF evd_socket_close
      <4> QED BY <1>1, <1>5, <2>1, <2>3, <4>1, ZenonT(40) DEF evd_socket_cleanup_internal, evd_socket_unwatch, SocketState
    <3> QED BY <3>1, <3>2, Zenon
  <2> HIDE DEF u, v
  <2>6. PollInv(v) /\ QueueInv(v)
    BY <1>1, <2>3, Zenon DEF PollInv, QueueInv
  <2>7. Base(v, 0)
    BY <1>1, <2>3, <2>6, BaseSame, Zenon
  <2>8. ClosedNow(d, 0) /\ Same(v, d)
    BY <2>2, <2>3, <2>5, <2>7, CloseKeeps, Zenon
  <2>9. Looking(v)
    BY <2>3, Zenon DEF Looking
  <2> QED BY <2>8, <2>9, ClosedGood, Zenon
<1>7. CASE how \in {"all", "error"}
  <2>1. /\ d \in SocketState /\ d.async_result = 0 /\ d.ops = s.ops
        /\ d.lookups = s.lookups /\ d.closes = s.closes /\ d.status = "LISTENING"
        /\ d.session = TRUE /\ d.polled = s.polled /\ d.fd = s.fd
        /\ d.edge = FALSE /\ d.cond = {} /\ d.disposed = FALSE
        /\ (d.backlog = 0 \/ (d.backlog = s.backlog - 1 /\ d.gave_up = TRUE))
    <3>1. CASE how = "all"
      <4> DEFINE n == t.accepted + t.backlog
      <4>1. n \in Nat
        BY <1>1, <1>5
      <4>2. d = [t EXCEPT !.accepted = n, !.backlog = 0]
        BY <1>4, <3>1, Zenon
      <4> HIDE DEF n
      <4>3. /\ d \in SocketState /\ d.async_result = t.async_result /\ d.ops = t.ops
            /\ d.lookups = t.lookups /\ d.closes = t.closes /\ d.status = t.status
            /\ d.session = t.session /\ d.polled = t.polled /\ d.fd = t.fd
            /\ d.edge = t.edge /\ d.cond = t.cond /\ d.disposed = t.disposed
            /\ d.backlog = 0
        <5>1. t \in SocketState
          BY <1>5, Zenon
        <5> QED BY ONLY <4>1, <4>2, <5>1, Zenon DEF SocketState
      <4> QED BY <1>5, <4>3, ZenonT(40)
    <3>2. CASE how = "error"
      <4> DEFINE n == t.backlog - 1
      <4>1. n \in Nat /\ n = s.backlog - 1
        BY <1>1, <1>5
      <4>2. d = [t EXCEPT !.gave_up = TRUE, !.backlog = n]
        BY <1>4, <3>2, Zenon
      <4> HIDE DEF n
      <4>3. /\ d \in SocketState /\ d.async_result = t.async_result /\ d.ops = t.ops
            /\ d.lookups = t.lookups /\ d.closes = t.closes /\ d.status = t.status
            /\ d.session = t.session /\ d.polled = t.polled /\ d.fd = t.fd
            /\ d.edge = t.edge /\ d.cond = t.cond /\ d.disposed = t.disposed
            /\ d.backlog = n /\ d.gave_up = TRUE
        <5>1. t \in SocketState
          BY <1>5
        <5> QED BY ONLY <4>1, <4>2, <5>1, Zenon DEF SocketState
      <4> QED BY <1>5, <4>1, <4>3, ZenonT(40)
    <3> QED BY <1>7, <3>1, <3>2, Zenon
  <2>2. PollInv(d)
    BY <1>1, <2>1, Zenon DEF PollInv
  <2>3. QueueInv(d)
    <3>1. d.backlog <= MaxBacklog /\ (d.backlog > 0 => d.gave_up)
      BY <1>1, <2>1, SocketAssumption
    <3> QED BY <2>1, <3>1, Zenon DEF QueueInv
  <2>4. Base(d, 0)
    BY <1>1, <2>1, <2>2, <2>3, BaseSame, Zenon
  <2>5. Quiet(d) /\ Waiting(d) /\ Looking(d)
    BY <2>1, Zenon DEF Quiet, Waiting, Looking
  <2> QED BY <2>4, <2>5, Zenon DEF Good
<1> QED BY <1>6, <1>7, Zenon

\* The poll reports a condition.
LEMMA OnConditionKeeps ==
  ASSUME Good(sock), evd_socket_on_condition
  PROVE  Step(sock, sock')
<1>1. sock.polled /\ sock.status # "CLOSED"
  BY Zenon DEF evd_socket_on_condition, Good, Base, PollInv, Quiet
<1>2. CASE sock.status = "LISTENING"
  <2>1. PICK how \in {"all", "error", "close"} :
          sock' = evd_socket_handle_condition([sock EXCEPT !.edge = FALSE], {"in"}, how)
    BY <1>2, Zenon DEF evd_socket_on_condition
  <2>2. sock.edge
    BY <1>2, Zenon DEF evd_socket_on_condition
  <2>3. Good(sock')
    BY <1>1, <1>2, <2>1, <2>2, AcceptKeeps, Zenon
  <2> QED BY <1>1, <2>3, Zenon DEF Step
<1>3. CASE sock.status # "LISTENING"
  <2>1. PICK c \in (SUBSET Conds) \ {{}} : sock' = evd_socket_handle_condition(sock, c, "all")
    BY <1>3, Zenon DEF evd_socket_on_condition
  <2>2. Good(sock')
    BY <1>1, <1>3, <2>1, HandleConditionKeeps, Zenon
  <2> QED BY <1>1, <2>2, Zenon DEF Step
<1> QED BY <1>2, <1>3, Zenon

-----------------------------------------------------------------------------
\* A new socket is in order.
LEMMA InitGood ==
  ASSUME SocketInit
  PROVE  Good(sock)
<1>1. PICK udp \in BOOLEAN, cl \in BOOLEAN :
        sock = [ status |-> "CLOSED", sub_status |-> "CLOSED", udp |-> udp,
                 family |-> "none", fd |-> FALSE, session |-> FALSE,
                 cond |-> {}, has_pending |-> FALSE, async_result |-> 0,
                 polled |-> FALSE, lookups |-> {}, ops |-> <<>>,
                 backlog |-> 0, edge |-> FALSE, accepted |-> 0,
                 gave_up |-> FALSE, closes |-> cl, held |-> TRUE,
                 disposed |-> FALSE ]
  BY Zenon DEF SocketInit
<1> DEFINE e == <<>>
<1>2. e \in Seq(Op) /\ Len(e) = 0 /\ e = <<>>
  OBVIOUS
<1> HIDE DEF e
<1>3. /\ sock \in SocketState /\ sock.ops = e /\ sock.async_result = 0 /\ sock.lookups = {}
      /\ sock.status = "CLOSED" /\ sock.session = FALSE /\ sock.polled = FALSE
      /\ sock.backlog = 0 /\ sock.edge = FALSE /\ sock.disposed = FALSE
  BY <1>1, <1>2, Zenon DEF SocketState, Status
<1>4. Len(sock.ops) = 0
  BY <1>2, <1>3, Zenon
<1>5. Typed(sock)
  BY <1>3, <1>4, SocketAssumption, SMTT(40) DEF Typed
<1>6. AnsInv(sock, 0)
  <2>1. \A i : i \notin 1..Len(sock.ops)
    BY <1>4
  <2> QED BY <1>3, <2>1, Zenon DEF AnsInv
<1>7. PollInv(sock)
  BY <1>3, Zenon DEF PollInv
<1>8. QueueInv(sock)
  BY <1>3, SocketAssumption DEF QueueInv
<1>9. Quiet(sock) /\ Waiting(sock) /\ Looking(sock)
  BY <1>3, Zenon DEF Quiet, Waiting, Looking
<1> QED BY <1>5, <1>6, <1>7, <1>8, <1>9, Zenon DEF Good, Base

\* Every step keeps the invariant and revives nothing by itself.
LEMMA NextStep ==
  ASSUME Good(sock), SocketNext
  PROVE  Step(sock, sock')
<1>1. CASE StartOp
  <2>1. Good(sock') /\ Len(sock'.ops) = Len(sock.ops) + 1
    BY <1>1, StartOpKeeps, Zenon
  <2>2. Len(sock.ops) \in Nat
    BY DEF Good, Base, Typed, SocketState
  <2>3. Len(sock'.ops) > Len(sock.ops)
    BY <2>1, <2>2
  <2> QED BY <2>1, <2>3, Zenon DEF Step
<1> QED BY <1>1, AppClosesKeeps, WatchConditionKeeps, UnrefKeeps, DisposeKeeps,
           ResolverAnswersKeeps, OnConditionKeeps, PeerConnectsKeeps, Zenon DEF SocketNext

\* The invariant holds in every state of the socket.
LEMMA IInvAlways == SocketSpec => []IInv
<1>1. SocketInit => IInv
  BY InitGood, Zenon DEF IInv
<1>2. IInv /\ [SocketNext]_sock => IInv'
  <2> SUFFICES ASSUME IInv, [SocketNext]_sock PROVE IInv'
    BY Zenon
  <2>1. CASE SocketNext
    BY <2>1, NextStep, Zenon DEF IInv, Step
  <2>2. CASE UNCHANGED sock
    BY <2>2, Zenon DEF IInv
  <2> QED BY <2>1, <2>2, Zenon
<1> QED BY <1>1, <1>2, PTL DEF SocketSpec

\* The socket's fields keep the types of the private structure, what it
\* remembers and looks up are operations it was given, and its queue stays
\* within the backlog.
THEOREM TypeCorrect == SocketSpec => []SocketTypeOK
<1>1. IInv => SocketTypeOK
  <2> SUFFICES ASSUME IInv PROVE SocketTypeOK
    BY Zenon
  <2>1. Typed(sock) /\ QueueInv(sock) /\ sock \in SocketState
    BY Zenon DEF IInv, Good, Base, Typed
  <2>2. sock.backlog \in Nat /\ Len(sock.ops) \in Nat
    BY <2>1 DEF SocketState
  <2>3. sock.backlog \in 0..MaxBacklog /\ Len(sock.ops) \in 0..MaxOps
    BY <2>1, <2>2, SocketAssumption DEF Typed, QueueInv
  <2> QED BY <2>1, <2>3, Zenon DEF SocketTypeOK, Typed
<1> QED BY <1>1, IInvAlways, PTL

\* Every operation on a socket is answered at most once and is remembered
\* until then in a state that will answer it, the poll session follows the
\* status, and no connection is left in a listener's queue unannounced:
\* whatever lookups, conditions, failed calls, closing handlers and closes
\* evd-socket.c meets, and in whatever order.
THEOREM OperationsAlwaysKept == SocketSpec => []OperationsKept
<1>1. IInv => OperationsKept
  <2> SUFFICES ASSUME IInv PROVE OperationsKept
    OBVIOUS
  <2>1. /\ Typed(sock) /\ AnsInv(sock, 0) /\ PollInv(sock) /\ QueueInv(sock) /\ Quiet(sock)
        /\ Waiting(sock) /\ Looking(sock)
    BY Zenon DEF IInv, Good, Base
  <2>2. AnsweredOnce
    BY <2>1, Zenon DEF AnsInv, AnsweredOnce
  <2>3. PendingRemembered
    <3> SUFFICES ASSUME NEW i \in 1..Len(sock.ops), Pending(i), ~Late(sock, i)
                 PROVE  /\ sock.async_result = i /\ sock.has_pending
                        /\ \/ sock.status = "RESOLVING"
                           \/ sock.status = "CONNECTING" /\ sock.polled
      BY Zenon DEF PendingRemembered, Late
    <3>1. i # 0
      BY <2>1, SMTT(40) DEF Typed, SocketState
    <3>2. sock.async_result = i
      BY <2>1, <3>1, Zenon DEF AnsInv, Pending
    <3> QED BY <2>1, <3>1, <3>2, Zenon DEF Waiting
  <2>4. SessionOwned
    BY <2>1, Zenon DEF SessionOwned, PollInv, Quiet, Looking
  <2>5. NoStuckConnection
    BY <2>1, Zenon DEF NoStuckConnection, QueueInv
  <2> QED BY <2>2, <2>3, <2>4, <2>5, Zenon DEF OperationsKept
<1> QED BY <1>1, IInvAlways, PTL

\* A closed socket leaves CLOSED only in a call that starts an operation: an
\* answer of the resolver that comes after evd_socket_close, or a condition
\* reported late, does not bring it back.
THEOREM NeverResurrected == SocketSpec => NoResurrection
<1>1. IInv /\ [SocketNext]_sock => [RevivedByOperation]_sock
  <2> SUFFICES ASSUME IInv, SocketNext PROVE RevivedByOperation
    BY Zenon
  <2>1. Step(sock, sock')
    BY NextStep, Zenon DEF IInv
  <2> QED BY <2>1, Zenon DEF Step, RevivedByOperation
<1> QED BY <1>1, IInvAlways, PTL DEF SocketSpec, NoResurrection

-----------------------------------------------------------------------------
\* The throttle of a stream.

\* The clock does not go back; bytes of the current second were moved in it,
\* and a wait ends in a later second than it began: what RetryPasses
\* rests on.
CountInv ==
  /\ current_time.tv_sec <= now.tv_sec
  /\ \/ last.tv_sec < now.tv_sec
     \/ last.tv_sec = now.tv_sec /\ last.tv_usec <= now.tv_usec
  /\ bytes > 0 => last.tv_sec = current_time.tv_sec
  /\ latency = 0 /\ retry > 0 => retry > (since + 1) * G_USEC_PER_SEC

ThrottleInv == TypeOK /\ BandwidthKept /\ CountInv /\ LatencyInSecond

\* A second has microseconds.
LEMMA UsecNat == G_USEC_PER_SEC \in Nat /\ G_USEC_PER_SEC > 0
  BY ThrottleAssumption, SMT

\* Times compare as their seconds do.
LEMMA SecondsCompare ==
  ASSUME NEW s1 \in Nat, NEW s2 \in Nat, NEW u \in Nat,
         u < G_USEC_PER_SEC, s1 * G_USEC_PER_SEC + u > s2 * G_USEC_PER_SEC
  PROVE  s1 >= s2
  <1> SUFFICES ASSUME s1 < s2 PROVE FALSE
    BY SMT
  <1>1. PICK k \in Nat : s2 = s1 + 1 + k
    <2>1. s2 - s1 - 1 \in Nat /\ s2 = s1 + 1 + (s2 - s1 - 1)
      BY SMT
    <2> QED BY <2>1, SMT
  <1>2. s2 * G_USEC_PER_SEC
          = s1 * G_USEC_PER_SEC + G_USEC_PER_SEC + k * G_USEC_PER_SEC
    BY <1>1, UsecNat, SMT
  <1>3. k * G_USEC_PER_SEC >= 0 /\ s1 * G_USEC_PER_SEC >= 0
    BY UsecNat, SMT
  <1> QED BY <1>2, <1>3, UsecNat, SMT

\* The two ABS of g_timeval_get_diff_micro never make an interval too short:
\* what they get wrong, across a second, they get wrong upwards.
THEOREM ElapsedNeverShort ==
  ASSUME NEW t1 \in GTimeVal, NEW t2 \in GTimeVal
  PROVE  g_timeval_get_diff_micro(t1, t2) >= ABS(Micro(t2) - Micro(t1))
  BY UsecNat, SMT DEF g_timeval_get_diff_micro, ABS, Micro, GTimeVal

\* Within one second they are right.
LEMMA ElapsedInSecond ==
  ASSUME NEW t1 \in GTimeVal, NEW t2 \in GTimeVal, t1.tv_sec = t2.tv_sec
  PROVE  g_timeval_get_diff_micro(t1, t2) = ABS(Micro(t2) - Micro(t1))
  BY UsecNat, SMT DEF g_timeval_get_diff_micro, ABS, Micro, GTimeVal

\* A request grants a number of bytes that fits in what is left of the second.
LEMMA GrantedFits ==
  ASSUME TypeOK, BandwidthKept, NEW t \in GTimeVal, NEW size \in Nat
  PROVE  /\ Granted(t, size) \in Nat
         /\ Granted(t, size) <= size
         /\ bandwidth > 0 =>
              BytesAt(t, current_time, bytes) + Granted(t, size) <= bandwidth
  <1>1. BytesAt(t, current_time, bytes) \in Nat
    BY SMT DEF BytesAt, TypeOK
  <1>2. bandwidth > 0 => BytesAt(t, current_time, bytes) <= bandwidth
    BY SMT DEF BytesAt, TypeOK, BandwidthKept
  <1> QED BY <1>1, <1>2, SMT DEF Granted, MIN, MAX, TypeOK

\* The wait a request answers is a number, and one for bandwidth outlasts the
\* second.
LEMMA WaitOutlasts ==
  ASSUME TypeOK, BandwidthKept, NEW t \in GTimeVal, NEW size \in Nat
  PROVE  /\ Wait(t, size) \in Nat
         /\ ~TooSoon(t) /\ Wait(t, size) > 0 => 1000 * Wait(t, size) > G_USEC_PER_SEC + 1 - t.tv_usec
  <1>1. g_timeval_get_diff_micro(t, last) \in Nat
    BY UsecNat, SMT DEF g_timeval_get_diff_micro, ABS, GTimeVal, TypeOK
  <1>2. TooSoon(t) =>
          (latency - g_timeval_get_diff_micro(t, last)) \div 1000 + 2 \in Nat
    BY <1>1, SMT DEF TooSoon, TypeOK
  <1>3. /\ (G_USEC_PER_SEC + 1 - t.tv_usec) \div 1000 + 1 \in Nat
        /\ 1000 * ((G_USEC_PER_SEC + 1 - t.tv_usec) \div 1000 + 1) > G_USEC_PER_SEC + 1 - t.tv_usec
    BY UsecNat, SMT DEF GTimeVal
  <1> QED BY <1>2, <1>3, UsecNat, SMT DEF Wait

\* The inductive invariant: types, the bandwidth, and what the waits rest on.
THEOREM InvariantHolds == Spec => []ThrottleInv
<1>1. Init => ThrottleInv
  BY ThrottleAssumption, UsecNat, SMT
     DEF Init, ThrottleInv, TypeOK, BandwidthKept, CountInv, LatencyInSecond, GTimeVal, At
<1>2. ThrottleInv /\ [Next]_thrVars => ThrottleInv'
  <2> SUFFICES ASSUME ThrottleInv, [Next]_thrVars PROVE ThrottleInv'
    BY SMT
  <2> USE DEF ThrottleInv
  <2>1. ASSUME NEW size \in Sizes, evd_stream_throttle_request(size)
        PROVE  ThrottleInv'
    <3>1. size \in Nat /\ now \in GTimeVal
      BY ThrottleAssumption, SMT DEF TypeOK
    <3>2. /\ Granted(now, size) \in Nat
          /\ bandwidth > 0 =>
               BytesAt(now, current_time, bytes) + Granted(now, size) <= bandwidth
      BY <3>1, GrantedFits, SMT
    <3>3. /\ Wait(now, size) \in Nat
          /\ ~TooSoon(now) /\ Wait(now, size) > 0
             => 1000 * Wait(now, size) > G_USEC_PER_SEC + 1 - now.tv_usec
      BY <3>1, WaitOutlasts, UsecNat, SMT
    <3>4. BytesAt(now, current_time, bytes) \in Nat
      BY SMT DEF BytesAt, TypeOK
    <3>5. Micro(now) \in Nat
      BY <3>1, UsecNat, SMT DEF Micro, GTimeVal
    <3>6. TypeOK'
      BY <2>1, <3>1, <3>2, <3>3, <3>4, <3>5, UsecNat, SMT
         DEF evd_stream_throttle_request, TypeOK, GTimeVal
    <3>7. BandwidthKept'
      BY <2>1, <3>2, <3>4, SMT DEF evd_stream_throttle_request, BandwidthKept, TypeOK
    <3>8. CountInv'
      <4>1. bytes' > 0 => last'.tv_sec = current_time'.tv_sec
        BY <2>1, SMT DEF evd_stream_throttle_request, CountInv, BytesAt
      <4>2. ASSUME latency' = 0, retry' > 0
            PROVE  retry' > (since' + 1) * G_USEC_PER_SEC
        <5>1. ~TooSoon(now)
          BY <2>1, <4>2, SMT DEF evd_stream_throttle_request, TooSoon
        <5>2. Wait(now, size) > 0 /\ retry' = Micro(now) + 1000 * Wait(now, size)
          BY <2>1, <3>3, <4>2, SMT DEF evd_stream_throttle_request
        <5>3. since' = now.tv_sec
          BY <2>1, SMT DEF evd_stream_throttle_request
        <5> QED BY <3>1, <3>3, <5>1, <5>2, <5>3, UsecNat, SMT DEF Micro, GTimeVal
      <4>3. current_time'.tv_sec <= now'.tv_sec
        BY <2>1, <3>1, UsecNat, SMT DEF evd_stream_throttle_request, GTimeVal
      <4>4. UNCHANGED <<last, now>>
        BY <2>1, SMT DEF evd_stream_throttle_request
      <4> QED BY <4>1, <4>2, <4>3, <4>4, SMT DEF CountInv
    <3>9. LatencyInSecond'
      <4> SUFFICES ASSUME granted' > 0, latency' > 0,
                          current_time'.tv_sec = last'.tv_sec
                   PROVE  Micro(current_time') - Micro(last') >= latency'
        BY UsecNat, SMT DEF LatencyInSecond, Micro
      <4>1. current_time' = now /\ last' = last /\ latency' = latency
        BY <2>1, SMT DEF evd_stream_throttle_request
      <4>2. ~TooSoon(now)
        BY <2>1, <3>2, SMT DEF evd_stream_throttle_request, Granted
      <4> QED
        <5>1. last \in GTimeVal /\ now.tv_sec = last.tv_sec /\ last.tv_usec <= now.tv_usec
          BY <3>1, <4>1, UsecNat, SMT DEF TypeOK, CountInv, GTimeVal
        <5>2. g_timeval_get_diff_micro(now, last) >= latency
          BY <3>1, <4>1, <4>2, <5>1, UsecNat, SMT
             DEF TooSoon, TypeOK, g_timeval_get_diff_micro, ABS, GTimeVal
        <5>3. Micro(now) >= Micro(last) /\ Micro(now) \in Nat /\ Micro(last) \in Nat
          BY <3>1, <5>1, UsecNat, SMT DEF Micro, GTimeVal
        <5> QED
          BY <3>1, <4>1, <5>1, <5>2, <5>3, ElapsedInSecond, SMT DEF ABS
    <3> QED BY <3>6, <3>7, <3>8, <3>9, SMT
  <2>2. ASSUME NEW n \in 1..granted, evd_stream_throttle_report(n)
        PROVE  ThrottleInv'
    <3>1. TypeOK'
      BY <2>2, SMT DEF evd_stream_throttle_report, TypeOK, BytesAt
    <3>2. BandwidthKept'
      BY <2>2, SMT DEF evd_stream_throttle_report, BandwidthKept, TypeOK, BytesAt
    <3>3. CountInv'
      BY <2>2, UsecNat, SMT DEF evd_stream_throttle_report, CountInv, TypeOK, GTimeVal
    <3>4. LatencyInSecond'
      BY <2>2, SMT DEF evd_stream_throttle_report, LatencyInSecond
    <3> QED BY <3>1, <3>2, <3>3, <3>4, SMT
  <2>3. CASE NothingMoved
    BY <2>3, SMT DEF NothingMoved, TypeOK, BandwidthKept, CountInv, LatencyInSecond
  <2>4. ASSUME NEW d \in Steps, Tick(d)
        PROVE  ThrottleInv'
    <3>1. d \in 1..G_USEC_PER_SEC
      BY ThrottleAssumption, SMT
    <3>2. now \in GTimeVal /\ current_time \in GTimeVal
      BY SMT DEF TypeOK
    <3>3. /\ now' \in GTimeVal
          /\ now'.tv_sec >= now.tv_sec
          /\ now'.tv_sec = now.tv_sec => now'.tv_usec >= now.tv_usec
      BY <2>4, <3>1, <3>2, UsecNat, SMT DEF Tick, GTimeVal, At
    <3>4. UNCHANGED <<bandwidth, latency, current_time, last, bytes, granted, retry, since>>
      BY <2>4, SMT DEF Tick
    <3>5. TypeOK'
      BY <3>3, <3>4, SMT DEF TypeOK
    <3>6. CountInv'
      BY <3>2, <3>3, <3>4, UsecNat, SMT DEF CountInv, GTimeVal, TypeOK
    <3>7. LatencyInSecond'
      BY <3>4, UsecNat, SMT DEF LatencyInSecond, Micro
    <3>8. BandwidthKept'
      BY <3>2, <3>3, <3>4, UsecNat, SMT DEF BandwidthKept, CountInv, TypeOK, GTimeVal
    <3> QED BY <3>5, <3>6, <3>7, <3>8, SMT
  <2>5. CASE UNCHANGED thrVars
    BY <2>5, UsecNat, SMT DEF thrVars, TypeOK, BandwidthKept, CountInv, LatencyInSecond, Micro
  <2> QED BY <2>1, <2>2, <2>3, <2>4, <2>5, SMT DEF Next
<1> QED BY <1>1, <1>2, PTL DEF Spec

\* The bandwidth is kept in every second, for every bandwidth, every sequence
\* of sizes and every course of the clock (evd_stream_throttle_request_internal
\* and evd_stream_throttle_report).
THEOREM BandwidthAlwaysKept == Spec => []BandwidthKept
<1>1. ThrottleInv => BandwidthKept
  BY SMT DEF ThrottleInv
<1> QED BY <1>1, InvariantHolds, PTL

\* Within a second of the clock the latency is kept as well.
THEOREM LatencyKeptInSecond == Spec => []LatencyInSecond
<1>1. ThrottleInv => LatencyInSecond
  BY SMT DEF ThrottleInv
<1> QED BY <1>1, InvariantHolds, PTL

\* A retry after the wait the throttle answered is granted at least a byte.
THEOREM RetryAlwaysPasses == Spec => []RetryPasses
<1>1. ThrottleInv => RetryPasses
  <2> SUFFICES ASSUME ThrottleInv, bandwidth > 0, latency = 0, retry > 0,
                      Micro(now) >= retry, last.tv_sec <= since
               PROVE  Granted(now, 1) > 0
    BY SMT DEF RetryPasses
  <2>1. now \in GTimeVal /\ current_time \in GTimeVal /\ last \in GTimeVal
        /\ since \in Nat /\ retry \in Nat /\ bytes \in Nat /\ bandwidth \in Nat
    BY SMT DEF ThrottleInv, TypeOK
  <2>2. now.tv_sec > since
    <3>1. now.tv_sec \in Nat /\ now.tv_usec \in Nat /\ now.tv_usec < G_USEC_PER_SEC
      BY <2>1, UsecNat, SMT DEF GTimeVal
    <3>2. now.tv_sec * G_USEC_PER_SEC + now.tv_usec > (since + 1) * G_USEC_PER_SEC
      BY <2>1, <3>1, UsecNat, SMT DEF ThrottleInv, CountInv, Micro
    <3>3. since + 1 \in Nat
      BY <2>1, SMT
    <3>4. now.tv_sec >= since + 1
      BY <3>1, <3>2, <3>3, SecondsCompare, SMT
    <3> QED BY <2>1, <3>1, <3>4, SMT
  <2>3. BytesAt(now, current_time, bytes) = 0
    BY <2>1, <2>2, UsecNat, SMT DEF ThrottleInv, CountInv, BytesAt, GTimeVal
  <2> QED BY <2>1, <2>3, SMT DEF Granted, TooSoon, MIN, MAX
<1> QED BY <1>1, InvariantHolds, PTL

\* All a throttle promises, for every bandwidth and latency, every sequence of
\* requests and reports and every course of the clock.
THEOREM LimitsAlwaysKept == Spec => []LimitsKept
<1>1. BandwidthKept /\ RetryPasses /\ LatencyInSecond => LimitsKept
  BY Zenon DEF LimitsKept
<1> QED BY <1>1, BandwidthAlwaysKept, LatencyKeptInSecond, RetryAlwaysPasses, PTL
=============================================================================
