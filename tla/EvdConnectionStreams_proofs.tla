---------------------- MODULE EvdConnectionStreams_proofs ----------------------
(***************************************************************************)
(* Proofs about EvdConnection, for every setup and every size of the       *)
(* kernel's buffer and of the bandwidth: the invariant, the streams, and   *)
(* closing a connection and dropping it.  EvdConnection_proofs goes on     *)
(* with TLS, the socket's conditions and the steps of the specification.   *)
(*                                                                         *)
(* The functions of the streams and of the connection call each other, so  *)
(* there is a lemma for each: what it makes of a connection that satisfies *)
(* Good.  Good allows for n references that a callback still has to drop.  *)
(* ReadInv and WriteInv may be broken while a callback runs; a lemma says  *)
(* whether a function keeps them or restores them.                         *)
(***************************************************************************)
EXTENDS EvdConnection, TLAPS

-----------------------------------------------------------------------------
\* The types of the fields, in groups: input, output, TLS and the rest.

Fields ==
  {"setup", "forced", "closed", "cond", "delayed_close", "close_locked", "read_src",
   "write_src", "close_src", "orphan", "tls", "session", "cred", "flights", "hs_rx", "hello",
   "deaf", "ref", "held", "bag", "ibuf", "got", "reading", "do_read", "frozen", "connected",
   "obuf", "written", "auto_flush", "flush", "in_budget", "out_budget", "sock", "s_cond",
   "edge", "hup", "rx", "sent", "room", "wire", "shut", "blocked"}

Shape(c) == DOMAIN c = Fields /\ c = [f \in DOMAIN c |-> c[f]]

InTyped(c) ==
  /\ c.bag \in Seq(Nat) /\ c.ibuf \in Seq(Nat) /\ c.got \in Seq(Nat) /\ c.rx \in Seq(Nat)
  /\ c.sent \in Nat /\ c.reading \in 0..2 /\ c.do_read \in BOOLEAN /\ c.frozen \in BOOLEAN
  /\ c.in_budget \in Nat /\ c.read_src \in BOOLEAN

OutTyped(c) ==
  /\ c.obuf \in Seq(Nat) /\ c.wire \in Seq(Nat) /\ c.written \in Nat
  /\ c.auto_flush \in BOOLEAN /\ c.flush \in {"none", "waiting", "base", "done", "failed"}
  /\ c.out_budget \in Nat /\ c.room \in 0..Room /\ c.write_src \in BOOLEAN

TlsTyped(c) ==
  /\ c.tls \in {"off", "handshaking", "on"} /\ c.session \in BOOLEAN /\ c.cred \in BOOLEAN
  /\ c.flights \in 0..2 /\ c.hs_rx \in 0..1 /\ c.hello \in BOOLEAN /\ c.deaf \in BOOLEAN

EndTyped(c) ==
  /\ c.setup \in Setup /\ c.forced \in BOOLEAN /\ c.closed \in BOOLEAN
  /\ c.delayed_close \in BOOLEAN /\ c.close_locked \in BOOLEAN /\ c.orphan \in Nat
  /\ c.held \in BOOLEAN /\ c.shut \in BOOLEAN /\ c.blocked \in BOOLEAN /\ c.hup \in BOOLEAN
  /\ c.edge \in BOOLEAN /\ c.sock \in BOOLEAN

\* What closing in an idle source and the conditions touch.
IdleTyped(c) ==
  /\ c.connected \in BOOLEAN /\ c.close_src \in BOOLEAN /\ c.ref \in Int
  /\ c.cond \in SUBSET {"in", "out", "hup"} /\ c.s_cond \in SUBSET {"in", "out", "hup"}

Typed(c) ==
  Shape(c) /\ InTyped(c) /\ OutTyped(c) /\ TlsTyped(c) /\ EndTyped(c) /\ IdleTyped(c)

\* The groups, unchanged.
SameIn(c, d) ==
  /\ d.bag = c.bag /\ d.ibuf = c.ibuf /\ d.got = c.got /\ d.rx = c.rx /\ d.sent = c.sent
  /\ d.reading = c.reading /\ d.do_read = c.do_read /\ d.frozen = c.frozen
  /\ d.in_budget = c.in_budget /\ d.read_src = c.read_src

SameOut(c, d) ==
  /\ d.obuf = c.obuf /\ d.wire = c.wire /\ d.written = c.written
  /\ d.auto_flush = c.auto_flush /\ d.flush = c.flush /\ d.out_budget = c.out_budget
  /\ d.room = c.room /\ d.write_src = c.write_src

SameTls(c, d) ==
  /\ d.tls = c.tls /\ d.session = c.session /\ d.cred = c.cred /\ d.flights = c.flights
  /\ d.hs_rx = c.hs_rx /\ d.hello = c.hello /\ d.deaf = c.deaf

SameEnd(c, d) ==
  /\ d.setup = c.setup /\ d.forced = c.forced /\ d.closed = c.closed
  /\ d.delayed_close = c.delayed_close /\ d.close_locked = c.close_locked
  /\ d.orphan = c.orphan /\ d.held = c.held /\ d.shut = c.shut /\ d.blocked = c.blocked
  /\ d.hup = c.hup /\ d.edge = c.edge /\ d.sock = c.sock

SameCond(c, d) == d.cond = c.cond /\ d.s_cond = c.s_cond

SameIdle(c, d) == d.connected = c.connected /\ d.close_src = c.close_src

-----------------------------------------------------------------------------
\* The inductive invariant.

\* RefsMatch, with n references more.
Refs(c, n) ==
  c.ref = Count(c.held) + Sources(c) + c.orphan + Count(c.flush # "none") + n

\* InputInOrder and OutputInOrder; at most one unit was read ahead.
Data(c) ==
  /\ c.got \o c.ibuf \o c.bag \o c.rx = Numbers(c.sent)
  /\ c.wire \o c.obuf = Numbers(c.written)
  /\ Len(c.bag) <= 1

\* A closed connection has no socket, and nothing goes on in it.
QuietInv(c) ==
  c.closed => /\ ~c.sock /\ ~c.read_src /\ ~c.write_src /\ ~c.do_read /\ c.reading = 0
              /\ c.flush \notin {"waiting", "base"} /\ c.tls = "off"

\* The connection and its socket agree on the conditions; the streams are held
\* back only during a handshake.
StackInv(c) ==
  /\ c.sock => c.cond = c.s_cond
  /\ c.sock /\ (c.frozen \/ ~c.auto_flush) => c.tls = "handshaking"
  /\ c.hs_rx <= c.flights
  /\ c.tls # "off" => Tls(c)

\* Why a connection ends: a close that was put off has a hang-up behind it, and
\* flushes, shutdowns and locks are the application's.  What is shut down was
\* flushed, or the flush failed.
EndInv(c) ==
  /\ c.delayed_close => c.hup
  /\ c.shut => c.hup /\ c.forced /\ c.flush = "none"
  /\ c.flush # "none" => c.forced
  /\ c.close_locked => c.forced
  /\ c.flush \in {"base", "done"} => c.obuf = <<>>
  /\ c.shut /\ ~c.blocked => c.obuf = <<>>

\* An application that always reads, of a connection nobody ends by force.
Eager(c) == c.setup.eager > 0 /\ ~c.forced /\ ~Tls(c)

\* It has a read pending until the end, which comes when all data are read.
TailInv(c) ==
  Eager(c) =>
    /\ c.held /\ c.ibuf = <<>>
    /\ ~c.closed => c.sock /\ c.reading > 0
    /\ c.closed \/ c.close_src => c.hup /\ c.rx = <<>> /\ c.bag = <<>>

\* All but the data, which a read has in its hands for a while.
Sound(c, n) ==
  Typed(c) /\ Refs(c, n) /\ QuietInv(c) /\ StackInv(c) /\ EndInv(c) /\ TailInv(c)

Good(c, n) == Sound(c, n) /\ Data(c)

\* A read that waits without a callback has taken all there was, and what comes
\* next makes an edge the socket does not drop: NoLostRead.
ReadInv(c) ==
  c.reading > 0 /\ c.tls # "handshaking" /\ c.sock /\ ~c.do_read /\ ~c.read_src =>
    /\ c.bag = <<>> /\ c.ibuf = <<>>
    /\ c.rx # <<>> => c.edge /\ "in" \notin c.s_cond
    /\ ~c.hup => "in" \notin c.s_cond

\* Output that waits without a timer waits for room, and the room will make
\* such an edge: NoLostWrite.
WriteInv(c) ==
  c.obuf # <<>> /\ c.tls # "handshaking" /\ c.sock /\ ~c.hup /\ ~c.write_src =>
    "out" \notin c.s_cond /\ (c.room > 0 => c.edge)

Inv(c) == Good(c, 0) /\ ReadInv(c) /\ WriteInv(c)

IInv == Inv(conn)

\* A function that breaks neither of the two.
Keeps(c, d) == (ReadInv(c) => ReadInv(d)) /\ (WriteInv(c) => WriteInv(d))

-----------------------------------------------------------------------------
\* Sequences.

\* Concatenation is associative.
LEMMA ConcatAssoc ==
  ASSUME NEW a \in Seq(Nat), NEW b \in Seq(Nat), NEW c \in Seq(Nat)
  PROVE  (a \o b) \o c = a \o (b \o c)
  BY SMTT(40)

\* The same in predicates, which spares the provers the search for the three.
AreSeqs(a, b, c) == a \in Seq(Nat) /\ b \in Seq(Nat) /\ c \in Seq(Nat)

Regrouped(a, b, c) == (a \o b) \o c = a \o (b \o c)

\* Which gives the regrouping.
LEMMA Regroup ==
  ASSUME NEW a, NEW b, NEW c, AreSeqs(a, b, c)
  PROVE  Regrouped(a, b, c)
  BY ConcatAssoc, Zenon DEF AreSeqs, Regrouped

\* Two sequences are the same if their elements are.
LEMMA SameElements ==
  ASSUME NEW a \in Seq(Nat), NEW b \in Seq(Nat), Len(a) = Len(b),
         \A i \in 1..Len(a) : a[i] = b[i]
  PROVE  a = b
  BY SMTT(40)

\* The elements of a concatenation.
LEMMA ConcatAt ==
  ASSUME NEW a \in Seq(Nat), NEW b \in Seq(Nat), NEW i \in 1..(Len(a) + Len(b))
  PROVE  (a \o b)[i] = IF i <= Len(a) THEN a[i] ELSE b[i - Len(a)]
  OBVIOUS

\* A concatenation of data is data.
LEMMA ConcatSeq ==
  ASSUME NEW a \in Seq(Nat), NEW b \in Seq(Nat)
  PROVE  a \o b \in Seq(Nat) /\ Len(a \o b) = Len(a) + Len(b)
  OBVIOUS

\* The empty sequence is neutral.
LEMMA ConcatEmpty ==
  ASSUME NEW a \in Seq(Nat)
  PROVE  a \o <<>> = a /\ <<>> \o a = a
  OBVIOUS

\* Only the empty sequence has length 0.
LEMMA EmptyLen ==
  ASSUME NEW a \in Seq(Nat)
  PROVE  (a = <<>> <=> Len(a) = 0) /\ Len(a) \in Nat
  OBVIOUS

\* The empty sequence is data.
LEMMA EmptySeq == <<>> \in Seq(Nat) /\ Len(<<>>) = 0
  OBVIOUS

\* A sequence put together from two others.
LEMMA Glue ==
  ASSUME NEW s \in Seq(Nat), NEW a \in Seq(Nat), NEW b \in Seq(Nat),
         Len(s) = Len(a) + Len(b),
         \A i \in 1..Len(a) : a[i] = s[i],
         \A i \in 1..Len(b) : b[i] = s[Len(a) + i]
  PROVE  a \o b = s
<1>1. a \o b \in Seq(Nat) /\ Len(a \o b) = Len(s)
  BY ConcatSeq, Zenon
<1>2. ASSUME NEW i \in 1..Len(s)
      PROVE  (a \o b)[i] = s[i]
  <2>1. (a \o b)[i] = IF i <= Len(a) THEN a[i] ELSE b[i - Len(a)]
    BY ConcatAt, Zenon
  <2>2. CASE i <= Len(a)
    BY <2>1, <2>2
  <2>3. CASE ~(i <= Len(a))
    <3>1. i - Len(a) \in 1..Len(b) /\ Len(a) + (i - Len(a)) = i
      BY <2>3
    <3> QED BY <2>1, <2>3, <3>1, Zenon
  <2> QED BY <2>2, <2>3, Zenon
<1> QED BY <1>1, <1>2, SameElements, Zenon

\* Front and Rest cut a sequence in two.
LEMMA CutType ==
  ASSUME NEW s \in Seq(Nat), NEW k \in 0..Len(s)
  PROVE  /\ Front(s, k) \in Seq(Nat) /\ Len(Front(s, k)) = k
         /\ Rest(s, k) \in Seq(Nat) /\ Len(Rest(s, k)) = Len(s) - k
<1>1. Front(s, k) \in Seq(Nat) /\ Len(Front(s, k)) = k
  BY DEF Front
<1>2. Rest(s, k) \in Seq(Nat) /\ Len(Rest(s, k)) = Len(s) - k
  BY DEF Rest
<1> QED BY <1>1, <1>2, Zenon

\* Cutting a sequence in two loses nothing.
LEMMA Cut ==
  ASSUME NEW s \in Seq(Nat), NEW k \in 0..Len(s)
  PROVE  Front(s, k) \o Rest(s, k) = s
<1>1. \A i \in 1..k : Front(s, k)[i] = s[i]
  BY DEF Front
<1>2. \A i \in 1..(Len(s) - k) : Rest(s, k)[i] = s[k + i]
  BY DEF Rest
<1>3. /\ Front(s, k) \in Seq(Nat) /\ Len(Front(s, k)) = k
      /\ Rest(s, k) \in Seq(Nat) /\ Len(Rest(s, k)) = Len(s) - k
  BY CutType, Zenon
<1>4. Len(s) = Len(Front(s, k)) + Len(Rest(s, k))
  BY <1>3
<1>5. /\ \A i \in 1..Len(Front(s, k)) : Front(s, k)[i] = s[i]
      /\ \A i \in 1..Len(Rest(s, k)) : Rest(s, k)[i] = s[Len(Front(s, k)) + i]
  BY <1>1, <1>2, <1>3, Zenon
<1> QED BY <1>3, <1>4, <1>5, Glue, Zenon

\* A longer cut of a cut.
LEMMA CutCut ==
  ASSUME NEW s \in Seq(Nat), NEW m \in 0..Len(s), NEW k \in 0..m
  PROVE  Front(Front(s, m), k) = Front(s, k)
  BY DEF Front

\* Cutting at either end.
LEMMA CutNothing ==
  ASSUME NEW s \in Seq(Nat)
  PROVE  Rest(s, 0) = s /\ Front(s, 0) = <<>> /\ Rest(s, Len(s)) = <<>>
<1>1. Rest(s, 0) = s
  BY DEF Rest
<1>2. Front(s, 0) = <<>>
  BY DEF Front
<1>3. Rest(s, Len(s)) = <<>>
  BY DEF Rest
<1> QED BY <1>1, <1>2, <1>3, Zenon

\* The last element of the front part, by itself.
LEMMA CutLast ==
  ASSUME NEW s \in Seq(Nat), NEW k \in 1..Len(s)
  PROVE  /\ s[k] \in Nat /\ <<s[k]>> \in Seq(Nat) /\ Len(<<s[k]>>) = 1
         /\ Front(s, k) = Front(s, k - 1) \o <<s[k]>>
<1>1. s[k] \in Nat /\ <<s[k]>> \in Seq(Nat) /\ Len(<<s[k]>>) = 1
  OBVIOUS
<1>2. Front(s, k - 1) \in Seq(Nat) /\ Len(Front(s, k - 1)) = k - 1
  BY CutType, SMTT(40)
<1>3. Front(s, k) \in Seq(Nat) /\ Len(Front(s, k)) = k
  BY CutType
<1>4. \A i \in 1..(k - 1) : Front(s, k - 1)[i] = s[i]
  BY DEF Front
<1>5. \A i \in 1..k : Front(s, k)[i] = s[i]
  BY DEF Front
<1>6. Len(Front(s, k)) = Len(Front(s, k - 1)) + Len(<<s[k]>>)
  BY <1>1, <1>2, <1>3
<1>7. \A i \in 1..(k - 1) : i \in 1..k
  OBVIOUS
<1>8. \A i \in 1..Len(Front(s, k - 1)) : Front(s, k - 1)[i] = Front(s, k)[i]
  BY <1>2, <1>4, <1>5, <1>7, Zenon
<1>9. \A i \in 1..1 : <<s[k]>>[i] = s[k] /\ (k - 1) + i = k /\ k \in 1..k
  OBVIOUS
<1>10. \A i \in 1..Len(<<s[k]>>) : <<s[k]>>[i] = Front(s, k)[Len(Front(s, k - 1)) + i]
  BY <1>1, <1>2, <1>5, <1>9, Zenon
<1> QED BY <1>1, <1>2, <1>3, <1>6, <1>8, <1>10, Glue, Zenon

\* Moving the front of what comes second to the end of what comes first.
LEMMA Move ==
  ASSUME NEW a \in Seq(Nat), NEW s \in Seq(Nat), NEW k \in 0..Len(s)
  PROVE  (a \o Front(s, k)) \o Rest(s, k) = a \o s
<1>1. Front(s, k) \in Seq(Nat) /\ Rest(s, k) \in Seq(Nat)
  BY CutType, Zenon
<1>2. Front(s, k) \o Rest(s, k) = s
  BY Cut, Zenon
<1>3. (a \o Front(s, k)) \o Rest(s, k) = a \o (Front(s, k) \o Rest(s, k))
  BY <1>1, ConcatAssoc, Zenon
<1> QED BY <1>2, <1>3, Zenon

\* Numbers(n) is data of length n.
LEMMA NumbersSeq ==
  ASSUME NEW n \in Nat
  PROVE  Numbers(n) \in Seq(Nat) /\ Len(Numbers(n)) = n
  BY DEF Numbers

\* Data numbered on from the last continue the numbers.
LEMMA NumbersGrow ==
  ASSUME NEW n \in Nat, NEW m \in Nat
  PROVE  /\ [i \in 1..m |-> n + i] \in Seq(Nat) /\ Len([i \in 1..m |-> n + i]) = m
         /\ Numbers(n) \o [i \in 1..m |-> n + i] = Numbers(n + m)
<1> DEFINE s == [i \in 1..m |-> n + i]
<1>1. s \in Seq(Nat) /\ Len(s) = m /\ \A i \in 1..m : s[i] = n + i
  OBVIOUS
<1> HIDE DEF s
<1>2. /\ Numbers(n) \in Seq(Nat) /\ Len(Numbers(n)) = n
      /\ \A i \in 1..n : Numbers(n)[i] = i
  BY DEF Numbers
<1>3. /\ Numbers(n + m) \in Seq(Nat) /\ Len(Numbers(n + m)) = n + m
      /\ \A i \in 1..(n + m) : Numbers(n + m)[i] = i
  BY DEF Numbers
<1>4. Numbers(n) \o s = Numbers(n + m)
  BY <1>1, <1>2, <1>3, SMTT(60)
<1> QED BY <1>1, <1>4, Zenon DEF s

-----------------------------------------------------------------------------
\* Types.

\* Typed is membership in ConnectionState.
LEMMA TypedIsState ==
  ASSUME NEW c, Typed(c)
  PROVE  c \in ConnectionState
  BY Zenon DEF Typed, Shape, Fields, InTyped, OutTyped, TlsTyped, EndTyped, IdleTyped,
               ConnectionState

\* The types of the input depend on the fields of the input alone,
LEMMA InSame ==
  ASSUME NEW c, NEW d, SameIn(c, d), InTyped(c)
  PROVE  InTyped(d)
  BY Zenon DEF SameIn, InTyped

\* those of the output on the fields of the output,
LEMMA OutSame ==
  ASSUME NEW c, NEW d, SameOut(c, d), OutTyped(c)
  PROVE  OutTyped(d)
  BY Zenon DEF SameOut, OutTyped

\* those of TLS on the fields of TLS,
LEMMA TlsSame ==
  ASSUME NEW c, NEW d, SameTls(c, d), TlsTyped(c)
  PROVE  TlsTyped(d)
  BY Zenon DEF SameTls, TlsTyped

\* and those of the end on the fields of the end.
LEMMA EndSame ==
  ASSUME NEW c, NEW d, SameEnd(c, d), EndTyped(c)
  PROVE  EndTyped(d)
  BY Zenon DEF SameEnd, EndTyped

\* Count is 0 or 1.
LEMMA CountType ==
  ASSUME NEW b
  PROVE  Count(b) \in Int /\ Count(b) \in 0..1 /\ (b => Count(b) = 1) /\ (~b => Count(b) = 0)
<1>1. Count(b) = 1 \/ Count(b) = 0
  BY Zenon DEF Count
<1>2. (b => Count(b) = 1) /\ (~b => Count(b) = 0)
  BY Zenon DEF Count
<1> QED BY <1>1, <1>2

\* Least is the smaller of the two.
LEMMA LeastOf ==
  ASSUME NEW a \in Nat, NEW b \in Nat
  PROVE  Least(a, b) \in Nat /\ Least(a, b) <= a /\ Least(a, b) <= b
         /\ (Least(a, b) = a \/ Least(a, b) = b)
  BY DEF Least

-----------------------------------------------------------------------------
\* Output.

\* What the writing functions need.
OutReady(c) ==
  Typed(c) /\ (c.sock => c.cond = c.s_cond) /\ (c.closed => ~c.sock) /\ (c.shut => c.hup)

\* What they leave alone; a condition may be forgotten, a timer may start.
OutFrame(c, d) ==
  /\ Typed(d) /\ SameIn(c, d) /\ SameTls(c, d) /\ SameEnd(c, d) /\ SameIdle(c, d)
  /\ d.written = c.written /\ d.auto_flush = c.auto_flush
  /\ c.write_src => d.write_src
  /\ d.ref = c.ref + Count(d.write_src) - Count(c.write_src)
  /\ d.sock => d.cond = d.s_cond
  /\ d.s_cond \subseteq c.s_cond

\* Output that is left waits for the throttle's timer or for room.
Waits(d) == d.write_src \/ ("out" \notin d.s_cond /\ d.room = 0)

\* w.n units of the data are on the wire.
Wrote(c, w, data) ==
  /\ OutFrame(c, w.c)
  /\ w.n \in 0..Len(data)
  /\ w.c.obuf = c.obuf /\ w.c.flush = c.flush
  /\ w.c.wire = c.wire \o Front(data, w.n)
  /\ c.tls # "handshaking" /\ c.sock /\ ~c.hup /\ w.n < Len(data) => Waits(w.c)

\* Doing nothing is within the frame of a write.
LEMMA OutFrameRefl ==
  ASSUME NEW c, OutReady(c)
  PROVE  OutFrame(c, c)
<1>1. c.ref = c.ref + Count(c.write_src) - Count(c.write_src)
  BY CountType DEF OutReady, Typed, IdleTyped, OutTyped
<1> QED BY <1>1, Zenon DEF OutReady, OutFrame, SameIn, SameTls, SameEnd, SameIdle

\* Two writes are within the frame of one.
LEMMA OutFrameTrans ==
  ASSUME NEW c, NEW d, NEW e, OutReady(c), OutFrame(c, d), OutFrame(d, e)
  PROVE  OutFrame(c, e)
<1>1. e.ref = c.ref + Count(e.write_src) - Count(c.write_src)
  <2>1. c.ref \in Int /\ Count(c.write_src) \in Int /\ Count(d.write_src) \in Int
          /\ Count(e.write_src) \in Int
    BY CountType, Zenon DEF OutReady, Typed, IdleTyped
  <2> QED BY <2>1 DEF OutFrame
<1>2. SameIn(c, e) /\ SameTls(c, e)
  BY Zenon DEF OutFrame, SameIn, SameTls
<1>3. SameEnd(c, e) /\ SameIdle(c, e)
  BY Zenon DEF OutFrame, SameEnd, SameIdle
<1>4. e.s_cond \subseteq c.s_cond
  BY Zenon DEF OutFrame
<1> QED BY <1>1, <1>2, <1>3, <1>4, Zenon DEF OutFrame

\* After a write another may follow.
LEMMA OutFrameReady ==
  ASSUME NEW c, NEW d, OutReady(c), OutFrame(c, d)
  PROVE  OutReady(d)
  BY Zenon DEF OutReady, OutFrame, SameEnd

\* A full socket forgets its condition for writing.
LEMMA FilledStep ==
  ASSUME NEW c, OutReady(c)
  PROVE  LET d == evd_connection_socket_output_stream_filled(c)
         IN /\ OutFrame(c, d) /\ d.obuf = c.obuf /\ d.flush = c.flush /\ d.wire = c.wire
            /\ d.room = c.room /\ d.out_budget = c.out_budget /\ d.write_src = c.write_src
            /\ c.sock => "out" \notin d.s_cond
<1> DEFINE d == evd_connection_socket_output_stream_filled(c)
<1>1. CASE c.closed
  <2>1. d = c
    BY <1>1, Zenon DEF evd_connection_socket_output_stream_filled
  <2>2. ~c.sock
    BY <1>1, Zenon DEF OutReady
  <2> QED BY <2>1, <2>2, OutFrameRefl, Zenon
<1>2. CASE ~c.closed /\ ~c.sock
  <2>1. d = [c EXCEPT !.cond = c.cond \ {"out"}]
    BY <1>2 DEF evd_connection_socket_output_stream_filled, Rearm, OutReady, Typed, Shape, Fields
  <2> HIDE DEF d
  <2>2. Shape(d)
    BY <2>1 DEF OutReady, Typed, Shape, Fields
  <2>3. /\ SameIn(c, d) /\ SameOut(c, d) /\ SameTls(c, d) /\ SameEnd(c, d) /\ SameIdle(c, d)
        /\ d.cond = c.cond \ {"out"} /\ d.s_cond = c.s_cond /\ d.ref = c.ref
    BY <2>1 DEF OutReady, Typed, Shape, Fields, SameIn, SameOut, SameTls, SameEnd, SameIdle
  <2>4. Typed(d)
    <3>1. IdleTyped(d)
      BY <2>3, Zenon DEF OutReady, Typed, IdleTyped, SameIdle
    <3> QED BY <2>2, <2>3, <3>1, InSame, OutSame, TlsSame, EndSame, Zenon DEF OutReady, Typed
  <2>5. d.ref = c.ref + Count(d.write_src) - Count(c.write_src)
    BY <2>3, CountType DEF OutReady, Typed, IdleTyped, OutTyped, SameOut
  <2>6. OutFrame(c, d)
    BY <1>2, <2>3, <2>4, <2>5, Zenon DEF OutFrame, SameOut, SameEnd
  <2> QED BY <1>2, <2>3, <2>6, Zenon DEF SameOut, d
<1>3. CASE ~c.closed /\ c.sock
  <2>1. d = [c EXCEPT !.cond = c.cond \ {"out"}, !.s_cond = c.cond \ {"out"}]
    BY <1>3 DEF evd_connection_socket_output_stream_filled, Rearm, OutReady, Typed, Shape, Fields
  <2> HIDE DEF d
  <2>2. Shape(d)
    BY <2>1, ZenonT(60) DEF OutReady, Typed, Shape, Fields
  <2>3. /\ SameIn(c, d) /\ SameOut(c, d) /\ SameTls(c, d) /\ SameEnd(c, d) /\ SameIdle(c, d)
        /\ d.cond = c.cond \ {"out"} /\ d.s_cond = c.cond \ {"out"} /\ d.ref = c.ref
    BY <2>1 DEF OutReady, Typed, Shape, Fields, SameIn, SameOut, SameTls, SameEnd, SameIdle
  <2>4. Typed(d)
    <3>1. IdleTyped(d)
      BY <2>3, Zenon DEF OutReady, Typed, IdleTyped, SameIdle
    <3> QED BY <2>2, <2>3, <3>1, InSame, OutSame, TlsSame, EndSame, Zenon DEF OutReady, Typed
  <2>5. d.ref = c.ref + Count(d.write_src) - Count(c.write_src)
    BY <2>3, CountType DEF OutReady, Typed, IdleTyped, OutTyped, SameOut
  <2>6. OutFrame(c, d)
    BY <1>3, <2>3, <2>4, <2>5, Zenon DEF OutFrame, SameOut, SameEnd, OutReady
  <2> QED BY <1>3, <2>3, <2>6, Zenon DEF SameOut, d
<1> QED BY <1>1, <1>2, <1>3, Zenon

\* evd_connection_delay_write starts the timer and leaves the data alone.
LEMMA DelayWriteStep ==
  ASSUME NEW c, OutReady(c)
  PROVE  LET d == evd_connection_delay_write(c)
         IN /\ OutFrame(c, d) /\ d.write_src /\ d.obuf = c.obuf /\ d.flush = c.flush
            /\ d.wire = c.wire /\ d.room = c.room /\ d.out_budget = c.out_budget
            /\ SameCond(c, d)
<1> DEFINE d == evd_connection_delay_write(c)
<1>1. d = [c EXCEPT !.write_src = TRUE, !.ref = c.ref + Count(~c.write_src)]
  BY Zenon DEF evd_connection_delay_write
<1> HIDE DEF d
<1>2. Shape(d)
  BY <1>1, ZenonT(60) DEF OutReady, Typed, Shape, Fields
<1>3. /\ SameIn(c, d) /\ SameTls(c, d) /\ SameEnd(c, d) /\ SameIdle(c, d) /\ SameCond(c, d)
      /\ d.obuf = c.obuf /\ d.flush = c.flush /\ d.wire = c.wire /\ d.room = c.room
      /\ d.out_budget = c.out_budget /\ d.written = c.written /\ d.auto_flush = c.auto_flush
      /\ d.write_src = TRUE /\ d.ref = c.ref + Count(~c.write_src)
  BY <1>1 DEF OutReady, Typed, Shape, Fields, SameIn, SameTls, SameEnd, SameIdle, SameCond
<1>4. d.ref \in Int /\ d.ref = c.ref + Count(d.write_src) - Count(c.write_src)
  BY <1>3 DEF OutReady, Typed, IdleTyped, OutTyped, Count
<1>5. OutTyped(d) /\ IdleTyped(d)
  BY <1>3, <1>4, Zenon DEF OutReady, Typed, OutTyped, IdleTyped, SameIdle, SameCond
<1>6. Typed(d)
  BY <1>2, <1>3, <1>5, InSame, TlsSame, EndSame, Zenon DEF OutReady, Typed
<1>7. OutFrame(c, d)
  BY <1>3, <1>4, <1>6, Zenon DEF OutFrame, SameEnd, SameCond, OutReady
<1> QED BY <1>3, <1>7, Zenon DEF d

\* A few units go to the kernel.
Sends(c, d, k, s) == d = [c EXCEPT !.room = c.room - k, !.wire = c.wire \o s]

\* What the kernel takes goes to the end of the wire.
LEMMA SendStep ==
  ASSUME NEW c, OutReady(c), NEW s \in Seq(Nat), NEW k \in Nat, k <= c.room,
         NEW d, Sends(c, d, k, s)
  PROVE  /\ OutFrame(c, d) /\ d.room = c.room - k /\ d.wire = c.wire \o s
         /\ d.obuf = c.obuf /\ d.flush = c.flush /\ d.out_budget = c.out_budget
         /\ d.write_src = c.write_src /\ OutReady(d)
<1>2. Shape(d)
  BY ZenonT(60) DEF Sends, OutReady, Typed, Shape, Fields
<1>3. /\ SameIn(c, d) /\ SameTls(c, d) /\ SameEnd(c, d) /\ SameIdle(c, d) /\ SameCond(c, d)
      /\ d.obuf = c.obuf /\ d.flush = c.flush /\ d.wire = c.wire \o s /\ d.room = c.room - k
      /\ d.out_budget = c.out_budget /\ d.written = c.written /\ d.auto_flush = c.auto_flush
      /\ d.write_src = c.write_src /\ d.ref = c.ref
  BY DEF Sends, OutReady, Typed, Shape, Fields, SameIn, SameTls, SameEnd, SameIdle, SameCond
<1>4. d.ref = c.ref + Count(d.write_src) - Count(c.write_src)
  BY <1>3, CountType DEF OutReady, Typed, IdleTyped
<1>5. d.wire \in Seq(Nat)
  BY <1>3, ConcatSeq, Zenon DEF OutReady, Typed, OutTyped
<1>6. d.room \in 0..Room
  BY <1>3, ConnectionAssumption, SMTT(40) DEF OutReady, Typed, OutTyped
<1>7. OutTyped(d) /\ IdleTyped(d)
  BY <1>3, <1>5, <1>6, Zenon DEF OutReady, Typed, OutTyped, IdleTyped, SameIdle, SameCond
<1>8. Typed(d)
  BY <1>2, <1>3, <1>7, InSame, TlsSame, EndSame, Zenon DEF OutReady, Typed
<1>9. OutFrame(c, d)
  BY <1>3, <1>4, <1>8, Zenon DEF OutFrame, SameEnd, SameCond, OutReady
<1> QED BY <1>3, <1>9, OutFrameReady, Zenon

\* evd_socket_output_stream_write puts a front of the data on the wire.
LEMMA SocketWriteStep ==
  ASSUME NEW c, OutReady(c), NEW data \in Seq(Nat)
  PROVE  LET w == evd_socket_output_stream_write(c, data)
         IN /\ Wrote(c, w, data) /\ w.c.out_budget = c.out_budget
            /\ w = [c |-> w.c, n |-> w.n]
<1> DEFINE w == evd_socket_output_stream_write(c, data)
           k == Least(c.room, Len(data))
           t == [c EXCEPT !.room = c.room - k, !.wire = c.wire \o Front(data, k)]
           u == evd_connection_socket_output_stream_filled(t)
<1>1. k \in Nat /\ k <= c.room /\ k \in 0..Len(data) /\ (k < Len(data) => c.room - k = 0)
  <2>1. c.room \in Nat /\ Len(data) \in Nat
    BY EmptyLen, ConnectionAssumption DEF OutReady, Typed, OutTyped
  <2>2. k \in Nat /\ k <= c.room /\ k <= Len(data) /\ (k = c.room \/ k = Len(data))
    BY <2>1, LeastOf, Zenon
  <2> HIDE DEF k
  <2> QED BY <2>1, <2>2
<1> HIDE DEF k
<1>2. Front(data, k) \in Seq(Nat)
  BY <1>1, CutType, Zenon
<1>6. Sends(c, t, k, Front(data, k))
  BY DEF Sends
<1>3. CASE ~c.sock \/ c.shut
  <2>1. w = [c |-> c, n |-> 0]
    BY <1>3, Zenon DEF evd_socket_output_stream_write
  <2> HIDE DEF w
  <2>2. w.c = c /\ w.n = 0 /\ w = [c |-> w.c, n |-> w.n]
    BY <2>1
  <2>3. c.wire = c.wire \o Front(data, 0)
    BY CutNothing, ConcatEmpty, Zenon DEF OutReady, Typed, OutTyped
  <2>4. 0 \in 0..Len(data)
    BY EmptyLen
  <2>5. ~c.sock \/ c.hup
    BY <1>3, Zenon DEF OutReady
  <2> QED BY <2>2, <2>3, <2>4, <2>5, OutFrameRefl, Zenon DEF Wrote, w
<1>4. CASE c.sock /\ ~c.shut /\ k < Len(data)
  <2>1. w = [c |-> u, n |-> k]
    BY <1>4, Zenon DEF evd_socket_output_stream_write, k
  <2> HIDE DEF t
  <2>2. /\ OutFrame(c, t) /\ OutReady(t) /\ t.room = c.room - k
        /\ t.wire = c.wire \o Front(data, k)
        /\ t.obuf = c.obuf /\ t.flush = c.flush /\ t.out_budget = c.out_budget
        /\ t.write_src = c.write_src
    BY <1>1, <1>2, <1>6, SendStep
  <2>3. /\ OutFrame(t, u) /\ u.obuf = t.obuf /\ u.flush = t.flush /\ u.wire = t.wire
        /\ u.room = t.room /\ u.out_budget = t.out_budget /\ u.write_src = t.write_src
        /\ t.sock => "out" \notin u.s_cond
    BY <2>2, FilledStep, Zenon
  <2> HIDE DEF u, w
  <2>4. OutFrame(c, u)
    BY <2>2, <2>3, OutFrameTrans, Zenon
  <2>5. w.c = u /\ w.n = k /\ w = [c |-> w.c, n |-> w.n]
    BY <2>1
  <2>6. t.sock = c.sock
    BY <2>2, Zenon DEF OutFrame, SameEnd
  <2>7. Waits(u)
    BY <1>1, <1>4, <2>2, <2>3, <2>6, Zenon DEF Waits
  <2>8. Wrote(c, w, data) /\ w.c.out_budget = c.out_budget
    BY <1>1, <2>2, <2>3, <2>4, <2>5, <2>7, Zenon DEF Wrote
  <2> QED BY <2>5, <2>8, Zenon DEF w
<1>5. CASE c.sock /\ ~c.shut /\ ~(k < Len(data))
  <2>1. w = [c |-> t, n |-> k]
    BY <1>5, Zenon DEF evd_socket_output_stream_write, k
  <2> HIDE DEF t
  <2>2. /\ OutFrame(c, t) /\ t.wire = c.wire \o Front(data, k)
        /\ t.obuf = c.obuf /\ t.flush = c.flush /\ t.out_budget = c.out_budget
    BY <1>1, <1>2, <1>6, SendStep
  <2> HIDE DEF w
  <2>5. w.c = t /\ w.n = k /\ w = [c |-> w.c, n |-> w.n]
    BY <2>1
  <2>8. Wrote(c, w, data) /\ w.c.out_budget = c.out_budget
    BY <1>1, <1>5, <2>2, <2>5, Zenon DEF Wrote
  <2> QED BY <2>5, <2>8, Zenon DEF w
<1> QED BY <1>3, <1>4, <1>5, Zenon

\* The throttle's budget is charged.
Charges(c, d, n) == d = [c EXCEPT !.out_budget = n]

\* Charging the budget leaves the data alone.
LEMMA ChargeStep ==
  ASSUME NEW c, OutReady(c), NEW n \in Nat, NEW d, Charges(c, d, n)
  PROVE  /\ OutFrame(c, d) /\ d.obuf = c.obuf /\ d.flush = c.flush /\ d.wire = c.wire
         /\ d.room = c.room /\ d.write_src = c.write_src /\ SameCond(c, d)
<1>1. Shape(d)
  BY DEF Charges, OutReady, Typed, Shape, Fields
<1>2. /\ SameIn(c, d) /\ SameTls(c, d) /\ SameEnd(c, d) /\ SameIdle(c, d) /\ SameCond(c, d)
      /\ d.obuf = c.obuf /\ d.flush = c.flush /\ d.wire = c.wire /\ d.room = c.room
      /\ d.out_budget = n /\ d.written = c.written /\ d.auto_flush = c.auto_flush
      /\ d.write_src = c.write_src /\ d.ref = c.ref
  BY DEF Charges, OutReady, Typed, Shape, Fields, SameIn, SameTls, SameEnd, SameIdle, SameCond
<1>3. d.ref = c.ref + Count(d.write_src) - Count(c.write_src)
  BY <1>2, CountType DEF OutReady, Typed, IdleTyped
<1>4. OutTyped(d) /\ IdleTyped(d)
  BY <1>2, Zenon DEF OutReady, Typed, OutTyped, IdleTyped, SameIdle, SameCond
<1>5. Typed(d)
  BY <1>1, <1>2, <1>4, InSame, TlsSame, EndSame, Zenon DEF OutReady, Typed
<1>6. OutFrame(c, d)
  BY <1>2, <1>3, <1>5, Zenon DEF OutFrame, SameEnd, SameCond, OutReady
<1> QED BY <1>2, <1>6, Zenon

\* Nothing written.
LEMMA WroteNothing ==
  ASSUME NEW c, NEW d, NEW data \in Seq(Nat), NEW w, OutReady(c), OutFrame(c, d),
         d.obuf = c.obuf, d.flush = c.flush, d.wire = c.wire,
         c.tls = "handshaking" \/ d.write_src \/ ~c.sock \/ Len(data) = 0,
         w = [c |-> d, n |-> 0]
  PROVE  Wrote(c, w, data)
<1>1. w.c = d /\ w.n = 0
  OBVIOUS
<1>2. c.wire = c.wire \o Front(data, 0)
  BY CutNothing, ConcatEmpty, Zenon DEF OutReady, Typed, OutTyped
<1>3. 0 \in 0..Len(data) /\ ~(0 < 0)
  BY EmptyLen
<1> QED BY <1>1, <1>2, <1>3, Zenon DEF Wrote, Waits

\* evd_throttled_output_stream_write does so too, or starts the timer.
LEMMA ThrottledWriteStep ==
  ASSUME NEW c, OutReady(c), NEW data \in Seq(Nat)
  PROVE  LET w == evd_throttled_output_stream_write(c, data)
         IN Wrote(c, w, data) /\ w = [c |-> w.c, n |-> w.n]
<1> DEFINE limited == evd_throttled_output_stream_get_max_writable_priv(c, Len(data))
           d == IF limited < Len(data) THEN evd_connection_delay_write(c) ELSE c
           v == evd_socket_output_stream_write(d, Front(data, limited))
           w == evd_throttled_output_stream_write(c, data)
<1>1. Len(data) \in Nat /\ c.out_budget \in Nat
  BY EmptyLen, Zenon DEF OutReady, Typed, OutTyped
<1>2. /\ limited \in Nat /\ limited <= Len(data)
      /\ Throttled(c) => limited <= c.out_budget
  <2>1. CASE Throttled(c)
    <3>1. limited = Least(Len(data), c.out_budget)
      BY <2>1, Zenon DEF evd_throttled_output_stream_get_max_writable_priv
    <3> QED BY <1>1, <3>1, LeastOf, Zenon
  <2>2. CASE ~Throttled(c)
    <3>1. limited = Len(data)
      BY <2>2, Zenon DEF evd_throttled_output_stream_get_max_writable_priv
    <3>2. Len(data) <= Len(data)
      BY <1>1
    <3> QED BY <1>1, <2>2, <3>1, <3>2, Zenon
  <2> QED BY <2>1, <2>2, Zenon
<1>3. /\ OutFrame(c, d) /\ d.obuf = c.obuf /\ d.flush = c.flush /\ d.wire = c.wire
      /\ d.room = c.room /\ d.out_budget = c.out_budget
      /\ limited < Len(data) => d.write_src
  BY DelayWriteStep, OutFrameRefl, Zenon
<1>4. w = IF c.tls = "handshaking" THEN [c |-> c, n |-> 0]
          ELSE IF limited = 0 THEN [c |-> d, n |-> 0]
          ELSE [v EXCEPT !.c.out_budget = IF Throttled(c) THEN @ - v.n ELSE @]
  BY Zenon DEF evd_throttled_output_stream_write
<1> HIDE DEF limited, d, w
<1>5. CASE c.tls = "handshaking"
  <2>1. w = [c |-> c, n |-> 0]
    BY <1>4, <1>5, Zenon
  <2> QED BY <1>5, <2>1, OutFrameRefl, WroteNothing DEF w
<1>6. CASE c.tls # "handshaking" /\ limited = 0
  <2>1. w = [c |-> d, n |-> 0]
    BY <1>4, <1>6, Zenon
  <2>2. d.write_src \/ Len(data) = 0
    BY <1>1, <1>3, <1>6
  <2> QED BY <1>3, <2>1, <2>2, WroteNothing DEF w
<1>7. CASE c.tls # "handshaking" /\ limited # 0
  <2> DEFINE part == Front(data, limited)
             left == IF Throttled(c) THEN v.c.out_budget - v.n ELSE v.c.out_budget
             e == [v.c EXCEPT !.out_budget = left]
  <2>1. part \in Seq(Nat) /\ Len(part) = limited
    BY <1>1, <1>2, CutType
  <2>2. OutReady(d)
    BY <1>3, OutFrameReady, Zenon
  <2>3. v = evd_socket_output_stream_write(d, part)
    OBVIOUS
  <2> HIDE DEF v, part
  <2>4. Wrote(d, v, part) /\ v.c.out_budget = d.out_budget /\ v = [c |-> v.c, n |-> v.n]
    BY <2>1, <2>2, <2>3, SocketWriteStep, Zenon
  <2>5. v.n \in 0..limited
    BY <2>1, <2>4, Zenon DEF Wrote
  <2>6. w = [c |-> e, n |-> v.n]
    <3>1. w = [v EXCEPT !.c.out_budget = left]
      BY <1>4, <1>7
    <3> QED BY <2>4, <3>1
  <2>7. left \in Nat
    BY <1>1, <1>2, <1>3, <2>4, <2>5
  <2>8. Charges(v.c, e, left)
    BY Zenon DEF Charges
  <2> HIDE DEF left, e
  <2>9. OutReady(v.c)
    BY <2>2, <2>4, OutFrameReady, Zenon DEF Wrote
  <2>10. /\ OutFrame(v.c, e) /\ e.obuf = v.c.obuf /\ e.flush = v.c.flush /\ e.wire = v.c.wire
         /\ e.room = v.c.room /\ e.write_src = v.c.write_src /\ SameCond(v.c, e)
    BY <2>7, <2>8, <2>9, ChargeStep, Zenon
  <2>11. OutFrame(c, e)
    <3>1. OutFrame(c, v.c)
      BY <1>3, <2>4, OutFrameTrans, Zenon DEF Wrote
    <3> QED BY <2>10, <3>1, OutFrameTrans, Zenon
  <2>12. w.c = e /\ w.n = v.n
    BY <2>6
  <2>13. Front(part, v.n) = Front(data, v.n)
    BY <1>1, <1>2, <2>5, CutCut DEF part
  <2>14. e.wire = c.wire \o Front(data, w.n)
    BY <1>3, <2>4, <2>10, <2>12, <2>13, Zenon DEF Wrote
  <2>15. w.n \in 0..Len(data)
    BY <1>1, <1>2, <2>5, <2>12
  <2>16. c.sock /\ ~c.hup /\ w.n < Len(data) => Waits(e)
    <3>1. d.tls # "handshaking" /\ d.sock = c.sock /\ d.hup = c.hup
      BY <1>3, <1>7, Zenon DEF OutFrame, SameTls, SameEnd
    <3>2. CASE limited < Len(data)
      BY <1>3, <2>4, <2>10, <3>2, Zenon DEF Wrote, OutFrame, Waits
    <3>3. CASE ~(limited < Len(data))
      <4>1. w.n < Len(data) => v.n < Len(part)
        BY <1>1, <1>2, <2>1, <2>5, <2>12, <3>3
      <4> QED BY <2>4, <2>10, <3>1, <4>1, Zenon DEF Wrote, Waits, SameCond
    <3> QED BY <3>2, <3>3, Zenon
  <2>17. Wrote(c, w, data)
    BY <1>3, <2>4, <2>10, <2>11, <2>12, <2>14, <2>15, <2>16, Zenon DEF Wrote
  <2> QED BY <2>6, <2>12, <2>17, Zenon DEF w
<1> QED BY <1>5, <1>6, <1>7, Zenon

\* The buffer and the flush that waits for it.
Buffers(c, d, buf, flush) == d = [c EXCEPT !.obuf = buf, !.flush = flush]

\* Changing the buffer and the flush is within the frame of a write.
LEMMA BufferStep ==
  ASSUME NEW c, OutReady(c), NEW buf \in Seq(Nat),
         NEW flush \in {"none", "waiting", "base", "done", "failed"},
         NEW d, Buffers(c, d, buf, flush)
  PROVE  /\ OutFrame(c, d) /\ d.obuf = buf /\ d.flush = flush /\ d.wire = c.wire
         /\ d.room = c.room /\ d.write_src = c.write_src /\ SameCond(c, d)
<1>1. Shape(d)
  BY ZenonT(60) DEF Buffers, OutReady, Typed, Shape, Fields
<1>2. /\ SameIn(c, d) /\ SameTls(c, d) /\ SameEnd(c, d) /\ SameIdle(c, d) /\ SameCond(c, d)
      /\ d.obuf = buf /\ d.flush = flush /\ d.wire = c.wire /\ d.room = c.room
      /\ d.out_budget = c.out_budget /\ d.written = c.written /\ d.auto_flush = c.auto_flush
      /\ d.write_src = c.write_src /\ d.ref = c.ref
  BY DEF Buffers, OutReady, Typed, Shape, Fields, SameIn, SameTls, SameEnd, SameIdle, SameCond
<1>3. d.ref = c.ref + Count(d.write_src) - Count(c.write_src)
  BY <1>2, CountType DEF OutReady, Typed, IdleTyped
<1>4. OutTyped(d) /\ IdleTyped(d)
  BY <1>2, Zenon DEF OutReady, Typed, OutTyped, IdleTyped, SameIdle, SameCond
<1>5. Typed(d)
  BY <1>1, <1>2, <1>4, InSame, TlsSame, EndSame, Zenon DEF OutReady, Typed
<1>6. OutFrame(c, d)
  BY <1>2, <1>3, <1>5, Zenon DEF OutFrame, SameEnd, SameCond, OutReady
<1> QED BY <1>2, <1>6, Zenon

\* A flush moves data from the buffer to the wire, and may end one that waits.
Flushed(c, d) ==
  /\ OutFrame(c, d)
  /\ d.wire \o d.obuf = c.wire \o c.obuf
  /\ c.obuf = <<>> => d.obuf = <<>>
  /\ \/ d.flush = c.flush
     \/ c.flush = "waiting" /\ (d.flush = "failed" \/ (d.flush = "base" /\ d.obuf = <<>>))

\* What is left is sure to be tried again.
Sent(d) == d.obuf # <<>> /\ d.tls # "handshaking" /\ d.sock /\ ~d.hup => Waits(d)

\* Doing nothing is a flush.
LEMMA FlushedRefl ==
  ASSUME NEW c, OutReady(c)
  PROVE  Flushed(c, c)
  BY OutFrameRefl, Zenon DEF Flushed

\* evd_buffered_output_stream_flush leaves nothing that no one will send.
LEMMA FlushStep ==
  ASSUME NEW c, OutReady(c)
  PROVE  LET f == evd_buffered_output_stream_flush(c)
         IN Flushed(c, f.c) /\ Sent(f.c) /\ f.ok \in BOOLEAN
<1> DEFINE f == evd_buffered_output_stream_flush(c)
           w == evd_throttled_output_stream_write(c, c.obuf)
           t == [w.c EXCEPT !.obuf = Rest(@, w.n)]
           p == [w.c EXCEPT !.flush = IF @ = "waiting" THEN "failed" ELSE @]
           q == [t EXCEPT !.flush = IF @ = "waiting" /\ t.obuf = <<>> THEN "base" ELSE @]
<1>1. f = IF c.obuf = <<>> THEN [c |-> c, ok |-> TRUE]
          ELSE IF w.n = 0 THEN [c |-> p, ok |-> FALSE]
          ELSE [c |-> q, ok |-> TRUE]
  BY Zenon DEF evd_buffered_output_stream_flush
<1>2. c.obuf \in Seq(Nat) /\ c.wire \in Seq(Nat)
        /\ c.flush \in {"none", "waiting", "base", "done", "failed"}
  BY Zenon DEF OutReady, Typed, OutTyped
<1>3. Wrote(c, w, c.obuf)
  BY <1>2, ThrottledWriteStep, Zenon
<1>4. OutReady(w.c)
  BY <1>3, OutFrameReady, Zenon DEF Wrote
<1> HIDE DEF w, f
<1>5. /\ w.c.obuf = c.obuf /\ w.c.flush = c.flush /\ w.n \in 0..Len(c.obuf)
      /\ w.c.wire = c.wire \o Front(c.obuf, w.n) /\ OutFrame(c, w.c)
  BY <1>3, Zenon DEF Wrote
<1>6. CASE c.obuf = <<>>
  <2>1. f = [c |-> c, ok |-> TRUE]
    BY <1>1, <1>6, Zenon
  <2>2. f.c = c /\ f.ok = TRUE
    BY <2>1
  <2> QED BY <1>6, <2>2, FlushedRefl, Zenon DEF Sent, f
<1>7. CASE c.obuf # <<>> /\ w.n = 0
  <2> DEFINE fl == IF c.flush = "waiting" THEN "failed" ELSE c.flush
  <2>1. f = [c |-> p, ok |-> FALSE]
    BY <1>1, <1>7, Zenon
  <2>2. Buffers(w.c, p, c.obuf, fl)
    BY <1>4, <1>5, ZenonT(60) DEF Buffers, OutReady, Typed, Shape, Fields
  <2>3. fl \in {"none", "waiting", "base", "done", "failed"}
    BY <1>2, Zenon
  <2> HIDE DEF p, fl
  <2>4. /\ OutFrame(w.c, p) /\ p.obuf = c.obuf /\ p.flush = fl /\ p.wire = w.c.wire
        /\ p.room = w.c.room /\ p.write_src = w.c.write_src /\ SameCond(w.c, p)
    BY <1>2, <1>4, <2>2, <2>3, BufferStep
  <2>5. OutFrame(c, p)
    BY <1>5, <2>4, OutFrameTrans, Zenon
  <2>6. w.c.wire = c.wire
    BY <1>2, <1>5, <1>7, CutNothing, ConcatEmpty, Zenon
  <2>7. p.flush = c.flush \/ (c.flush = "waiting" /\ p.flush = "failed")
    BY <2>4, Zenon DEF fl
  <2>8. Flushed(c, p)
    BY <1>7, <2>4, <2>5, <2>6, <2>7, Zenon DEF Flushed
  <2>9. 0 < Len(c.obuf)
    BY <1>2, <1>7, EmptyLen
  <2>10. Sent(p)
    <3>1. p.tls = c.tls /\ p.sock = c.sock /\ p.hup = c.hup
      BY <2>5, Zenon DEF OutFrame, SameTls, SameEnd
    <3> QED BY <1>3, <1>7, <2>4, <2>9, <3>1, Zenon DEF Wrote, Sent, Waits, SameCond
  <2>11. f.c = p /\ f.ok = FALSE
    BY <2>1
  <2> QED BY <2>8, <2>10, <2>11, Zenon DEF f
<1>8. CASE c.obuf # <<>> /\ w.n # 0
  <2> DEFINE left == Rest(c.obuf, w.n)
             fl == IF c.flush = "waiting" /\ left = <<>> THEN "base" ELSE c.flush
  <2>1. f = [c |-> q, ok |-> TRUE]
    BY <1>1, <1>8, Zenon
  <2>2. left \in Seq(Nat)
    BY <1>2, <1>5, CutType, Zenon
  <2>3. Buffers(w.c, q, left, fl)
    <3>1. t = [w.c EXCEPT !.obuf = left]
      BY <1>5, Zenon
    <3>2. t.obuf = left /\ t.flush = c.flush
      BY <1>4, <1>5, <3>1 DEF OutReady, Typed, Shape, Fields
    <3>3. q = [t EXCEPT !.flush = fl]
      BY <3>2, Zenon
    <3> HIDE DEF t, q, left, fl
    <3> QED BY <1>4, <3>1, <3>3 DEF Buffers, OutReady, Typed, Shape, Fields
  <2>4. fl \in {"none", "waiting", "base", "done", "failed"}
    BY <1>2, Zenon
  <2> HIDE DEF q, fl, left
  <2>5. /\ OutFrame(w.c, q) /\ q.obuf = left /\ q.flush = fl /\ q.wire = w.c.wire
        /\ q.room = w.c.room /\ q.write_src = w.c.write_src /\ SameCond(w.c, q)
    BY <1>4, <2>2, <2>3, <2>4, BufferStep
  <2>6. OutFrame(c, q)
    BY <1>5, <2>5, OutFrameTrans, Zenon
  <2>7. q.wire \o q.obuf = c.wire \o c.obuf
    <3>1. (c.wire \o Front(c.obuf, w.n)) \o left = c.wire \o c.obuf
      BY <1>2, <1>5, Move, ZenonT(60) DEF left
    <3> QED BY <1>5, <2>5, <3>1, Zenon
  <2>8. q.flush = c.flush \/ (c.flush = "waiting" /\ q.flush = "base" /\ q.obuf = <<>>)
    BY <2>5, Zenon DEF fl
  <2>9. Flushed(c, q)
    BY <1>8, <2>5, <2>6, <2>7, <2>8, Zenon DEF Flushed
  <2>10. Sent(q)
    <3>1. q.tls = c.tls /\ q.sock = c.sock /\ q.hup = c.hup
      BY <2>6, Zenon DEF OutFrame, SameTls, SameEnd
    <3>2. w.n < Len(c.obuf) \/ w.n = Len(c.obuf)
      BY <1>2, <1>5, EmptyLen
    <3>3. w.n = Len(c.obuf) => left = <<>>
      BY <1>2, CutNothing, Zenon DEF left
    <3> QED BY <1>3, <2>5, <3>1, <3>2, <3>3, Zenon DEF Wrote, Sent, Waits, SameCond
  <2>11. f.c = q /\ f.ok = TRUE
    BY <2>1
  <2> QED BY <2>9, <2>10, <2>11, Zenon DEF f
<1> QED BY <1>6, <1>7, <1>8, Zenon

\* evd_buffered_output_stream_notify_write does so unless held back.
LEMMA NotifyWriteStep ==
  ASSUME NEW c, OutReady(c)
  PROVE  LET d == evd_buffered_output_stream_notify_write(c)
         IN Flushed(c, d) /\ (c.auto_flush => Sent(d))
<1>1. CASE c.flush = "waiting" \/ (c.auto_flush /\ c.obuf # <<>>)
  BY <1>1, FlushStep, Zenon DEF evd_buffered_output_stream_notify_write
<1>2. CASE ~(c.flush = "waiting" \/ (c.auto_flush /\ c.obuf # <<>>))
  BY <1>2, FlushedRefl, Zenon DEF evd_buffered_output_stream_notify_write, Sent
<1> QED BY <1>1, <1>2, Zenon

-----------------------------------------------------------------------------
\* What a flush does to the invariant.

\* A sound connection is ready to write.
LEMMA OutReadyOf ==
  ASSUME NEW c, NEW n, Sound(c, n)
  PROVE  OutReady(c)
  BY Zenon DEF Sound, OutReady, QuietInv, StackInv, EndInv

\* A flush keeps the types,
LEMMA FlushedTyped ==
  ASSUME NEW c, NEW d, Flushed(c, d)
  PROVE  Typed(d)
  BY Zenon DEF Flushed, OutFrame

\* the references, to which it adds the timer's,
LEMMA FlushedRefs ==
  ASSUME NEW c, NEW d, NEW n \in Int, Typed(c), Flushed(c, d), Refs(c, n)
  PROVE  Refs(d, n)
<1>1. /\ d.held = c.held /\ d.read_src = c.read_src /\ d.close_src = c.close_src
      /\ d.orphan = c.orphan /\ d.ref = c.ref + Count(d.write_src) - Count(c.write_src)
  BY Zenon DEF Flushed, OutFrame, SameEnd, SameIn, SameIdle
<1>2. (d.flush # "none") = (c.flush # "none")
  BY Zenon DEF Flushed
<1>3. /\ Count(c.held) \in Int /\ Count(c.read_src) \in Int /\ Count(c.write_src) \in Int
      /\ Count(c.close_src) \in Int /\ Count(c.flush # "none") \in Int
      /\ Count(d.write_src) \in Int /\ c.orphan \in Int
  <2>1. c.orphan \in Nat
    BY Zenon DEF Typed, EndTyped
  <2> QED BY <2>1, CountType
<1>4. Count(d.flush # "none") = Count(c.flush # "none")
  BY <1>2, Zenon
<1> QED BY <1>1, <1>3, <1>4 DEF Refs, Sources

\* the data and their order,
LEMMA FlushedData ==
  ASSUME NEW c, NEW d, Flushed(c, d), Data(c)
  PROVE  Data(d)
  BY Zenon DEF Flushed, OutFrame, SameIn, Data

\* that a closed connection is quiet,
LEMMA FlushedQuiet ==
  ASSUME NEW c, NEW d, Flushed(c, d), ~c.closed
  PROVE  QuietInv(d)
  BY Zenon DEF QuietInv, Flushed, OutFrame, SameEnd

\* what holds of the stack of streams,
LEMMA FlushedStack ==
  ASSUME NEW c, NEW d, Flushed(c, d), StackInv(c)
  PROVE  StackInv(d)
<1>1. /\ d.sock => d.cond = d.s_cond
      /\ d.sock = c.sock /\ d.frozen = c.frozen /\ d.auto_flush = c.auto_flush
      /\ d.tls = c.tls /\ d.hs_rx = c.hs_rx /\ d.flights = c.flights /\ d.setup = c.setup
  BY Zenon DEF Flushed, OutFrame, SameEnd, SameIn, SameTls
<1> QED BY <1>1, Zenon DEF StackInv, Tls

\* what holds of the end,
LEMMA FlushedEnd ==
  ASSUME NEW c, NEW d, Flushed(c, d), EndInv(c)
  PROVE  EndInv(d)
<1>1. /\ d.delayed_close = c.delayed_close /\ d.hup = c.hup /\ d.shut = c.shut
      /\ d.forced = c.forced /\ d.close_locked = c.close_locked /\ d.blocked = c.blocked
  BY Zenon DEF Flushed, OutFrame, SameEnd
<1>2. /\ (d.flush = "none") = (c.flush = "none")
      /\ d.flush \in {"base", "done"} => d.obuf = <<>>
      /\ c.obuf = <<>> => d.obuf = <<>>
  <2>1. CASE d.flush = c.flush
    BY <2>1, Zenon DEF Flushed, EndInv
  <2>2. CASE c.flush = "waiting" /\ (d.flush = "failed" \/ (d.flush = "base" /\ d.obuf = <<>>))
    BY <2>2, Zenon DEF Flushed
  <2> QED BY <2>1, <2>2, Zenon DEF Flushed
<1> QED BY <1>1, <1>2, Zenon DEF EndInv

\* the pending read of an eager application,
LEMMA FlushedTail ==
  ASSUME NEW c, NEW d, Flushed(c, d), TailInv(c)
  PROVE  TailInv(d)
<1>1. SameIn(c, d) /\ SameEnd(c, d) /\ SameIdle(c, d)
  BY Zenon DEF Flushed, OutFrame
<1>2. Eager(d) = Eager(c)
  BY <1>1, Zenon DEF SameEnd, Eager, Tls
<1> QED BY <1>1, <1>2, Zenon DEF TailInv, SameIn, SameEnd, SameIdle

\* and the wake-up of every pending read.
LEMMA FlushedReads ==
  ASSUME NEW c, NEW d, Flushed(c, d), ReadInv(c)
  PROVE  ReadInv(d)
<1>1. SameIn(c, d) /\ SameEnd(c, d) /\ d.tls = c.tls
  BY Zenon DEF Flushed, OutFrame, SameTls
<1>2. "in" \in d.s_cond => "in" \in c.s_cond
  BY Zenon DEF Flushed, OutFrame
<1> QED BY <1>1, <1>2, Zenon DEF ReadInv, SameIn, SameEnd

\* Output that is sure to be tried again has its wake-up.
LEMMA SentWrites ==
  ASSUME NEW d, Sent(d)
  PROVE  WriteInv(d)
<1>1. d.room = 0 => ~(d.room > 0)
  OBVIOUS
<1> QED BY <1>1, Zenon DEF Sent, Waits, WriteInv

\* Together: a flush keeps an open connection sound.
LEMMA FlushedSound ==
  ASSUME NEW c, NEW d, NEW n \in Int, Sound(c, n), Flushed(c, d), ~c.closed
  PROVE  Sound(d, n)
  BY FlushedTyped, FlushedRefs, FlushedQuiet, FlushedStack, FlushedEnd, FlushedTail, Zenon
     DEF Sound

\* evd_connection_manage_write_condition outside a handshake: what waited for the
\* condition is written, and what is left waits again.
LEMMA NotifyWriteSound ==
  ASSUME NEW c, NEW n \in Int, Sound(c, n), ~c.closed
  PROVE  LET d == evd_buffered_output_stream_notify_write(c)
         IN /\ Sound(d, n) /\ (Data(c) => Data(d)) /\ (ReadInv(c) => ReadInv(d))
            /\ c.tls # "handshaking" => WriteInv(d)
            /\ SameIn(c, d) /\ SameEnd(c, d) /\ SameTls(c, d) /\ SameIdle(c, d)
<1> DEFINE d == evd_buffered_output_stream_notify_write(c)
<1>1. Flushed(c, d) /\ (c.auto_flush => Sent(d))
  BY OutReadyOf, NotifyWriteStep, Zenon
<1> HIDE DEF d
<1>2. Sound(d, n) /\ (Data(c) => Data(d)) /\ (ReadInv(c) => ReadInv(d))
  BY <1>1, FlushedSound, FlushedData, FlushedReads, Zenon
<1>3. SameIn(c, d) /\ SameEnd(c, d) /\ SameTls(c, d) /\ SameIdle(c, d)
  BY <1>1, Zenon DEF Flushed, OutFrame
<1>4. c.tls # "handshaking" => WriteInv(d)
  <2>1. c.tls # "handshaking" => c.auto_flush \/ ~c.sock
    BY Zenon DEF Sound, StackInv
  <2>2. ~c.sock => WriteInv(d)
    BY <1>3, Zenon DEF WriteInv, SameEnd
  <2> QED BY <1>1, <2>1, <2>2, SentWrites, Zenon
<1> QED BY <1>2, <1>3, <1>4, Zenon DEF d

\* evd_connection_delay_write keeps the invariant, and restores WriteInv.
LEMMA DelayWriteSound ==
  ASSUME NEW c, NEW n \in Int, Sound(c, n), ~c.closed
  PROVE  LET d == evd_connection_delay_write(c)
         IN /\ Sound(d, n) /\ (Data(c) => Data(d)) /\ (ReadInv(c) => ReadInv(d)) /\ WriteInv(d)
            /\ SameIn(c, d) /\ SameEnd(c, d) /\ SameTls(c, d) /\ SameIdle(c, d)
<1> DEFINE d == evd_connection_delay_write(c)
<1>1. /\ OutFrame(c, d) /\ d.write_src /\ d.obuf = c.obuf /\ d.flush = c.flush
      /\ d.wire = c.wire
  BY OutReadyOf, DelayWriteStep, Zenon
<1> HIDE DEF d
<1>2. Flushed(c, d)
  BY <1>1, Zenon DEF Flushed
<1>3. Sound(d, n) /\ (Data(c) => Data(d)) /\ (ReadInv(c) => ReadInv(d))
  BY <1>2, FlushedSound, FlushedData, FlushedReads, Zenon
<1> QED BY <1>1, <1>3, Zenon DEF OutFrame, WriteInv, d

-----------------------------------------------------------------------------
\* Closing in an idle source, and the socket drained.

\* An eager application has everything it will ever get.
CanClose(c) == Eager(c) => c.hup /\ c.rx = <<>> /\ c.bag = <<>>

\* Only the idle source and the conditions may change.
IdleFrame(c, d) ==
  /\ Typed(d) /\ SameIn(c, d) /\ SameOut(c, d) /\ SameTls(c, d) /\ SameEnd(c, d)
  /\ c.close_src => d.close_src
  /\ d.close_src => c.close_src \/ CanClose(c)
  /\ d.ref = c.ref + Count(d.close_src) - Count(c.close_src)
  /\ c.sock /\ c.cond = c.s_cond => d.cond = d.s_cond
  /\ d.s_cond \subseteq c.s_cond

\* evd_connection_close_in_idle adds its source at most.
LEMMA CloseInIdleStep ==
  ASSUME NEW c, Typed(c), CanClose(c)
  PROVE  LET d == evd_connection_close_in_idle(c) IN IdleFrame(c, d) /\ SameCond(c, d)
<1> DEFINE d == evd_connection_close_in_idle(c)
<1>1. d = [c EXCEPT !.connected = FALSE, !.close_src = TRUE,
                    !.ref = c.ref + Count(~c.close_src)]
  BY Zenon DEF evd_connection_close_in_idle
<1> HIDE DEF d
<1>2. Shape(d)
  BY <1>1, ZenonT(60) DEF Typed, Shape, Fields
<1>3. /\ SameIn(c, d) /\ SameOut(c, d) /\ SameTls(c, d) /\ SameEnd(c, d) /\ SameCond(c, d)
      /\ d.connected = FALSE /\ d.close_src = TRUE /\ d.ref = c.ref + Count(~c.close_src)
  BY <1>1 DEF Typed, Shape, Fields, SameIn, SameOut, SameTls, SameEnd, SameCond
<1>4. d.ref \in Int /\ d.ref = c.ref + Count(d.close_src) - Count(c.close_src)
  BY <1>3 DEF Typed, IdleTyped, Count
<1>5. IdleTyped(d)
  BY <1>3, <1>4, Zenon DEF Typed, IdleTyped, SameCond
<1>6. Typed(d)
  BY <1>2, <1>3, <1>5, InSame, OutSame, TlsSame, EndSame, Zenon DEF Typed
<1>7. IdleFrame(c, d)
  BY <1>3, <1>4, <1>6, Zenon DEF IdleFrame, SameCond
<1> QED BY <1>3, <1>7, Zenon DEF d

\* Doing nothing is within that frame.
LEMMA IdleFrameRefl ==
  ASSUME NEW c, Typed(c)
  PROVE  IdleFrame(c, c)
<1>1. c.ref = c.ref + Count(c.close_src) - Count(c.close_src)
  BY CountType DEF Typed, IdleTyped
<1> QED BY <1>1, Zenon DEF IdleFrame, SameIn, SameOut, SameTls, SameEnd

\* A step within that frame keeps the connection sound,
LEMMA IdleSound ==
  ASSUME NEW c, NEW d, NEW n \in Int, Sound(c, n), IdleFrame(c, d)
  PROVE  Sound(d, n)
<1>0. SameIn(c, d) /\ SameOut(c, d) /\ SameTls(c, d) /\ SameEnd(c, d)
  BY Zenon DEF IdleFrame
<1>1. Refs(d, n)
  <2>1. /\ d.held = c.held /\ d.read_src = c.read_src /\ d.write_src = c.write_src
        /\ d.orphan = c.orphan /\ d.ref = c.ref + Count(d.close_src) - Count(c.close_src)
        /\ d.flush = c.flush
    BY <1>0, Zenon DEF IdleFrame, SameEnd, SameIn, SameOut
  <2>2. /\ Count(c.held) \in Int /\ Count(c.read_src) \in Int /\ Count(c.write_src) \in Int
        /\ Count(c.close_src) \in Int /\ Count(c.flush # "none") \in Int
        /\ Count(d.close_src) \in Int
    BY CountType, Zenon
  <2>3. c.orphan \in Int /\ Refs(c, n)
    BY DEF Sound, Typed, EndTyped
  <2> QED BY <2>1, <2>2, <2>3 DEF Refs, Sources
<1>2. QuietInv(d)
  <2>1. QuietInv(c)
    BY Zenon DEF Sound
  <2> QED BY <1>0, <2>1, Zenon DEF QuietInv, SameIn, SameOut, SameTls, SameEnd
<1>3. StackInv(d)
  <2>1. /\ d.sock = c.sock /\ d.frozen = c.frozen /\ d.auto_flush = c.auto_flush
        /\ d.tls = c.tls /\ d.hs_rx = c.hs_rx /\ d.flights = c.flights
        /\ d.setup = c.setup
    BY <1>0, Zenon DEF SameEnd, SameIn, SameTls, SameOut
  <2>2. d.sock => d.cond = d.s_cond
    BY <2>1, Zenon DEF Sound, StackInv, IdleFrame
  <2> QED BY <2>1, <2>2, Zenon DEF Sound, StackInv, Tls
<1>4. EndInv(d)
  <2>1. EndInv(c)
    BY Zenon DEF Sound
  <2> QED BY <1>0, <2>1, Zenon DEF EndInv, SameEnd, SameOut
<1>5. TailInv(d)
  <2>1. TailInv(c)
    BY Zenon DEF Sound
  <2>2. Eager(d) = Eager(c)
    BY <1>0, Zenon DEF SameEnd, Eager, Tls
  <2>3. d.close_src => c.close_src \/ CanClose(c)
    BY Zenon DEF IdleFrame
  <2> QED BY <1>0, <2>1, <2>2, <2>3, Zenon DEF TailInv, CanClose, SameIn, SameEnd
<1> QED BY <1>1, <1>2, <1>3, <1>4, <1>5, Zenon DEF Sound, IdleFrame

\* and the wake-ups and the data.
LEMMA IdleKeeps ==
  ASSUME NEW c, NEW d, IdleFrame(c, d)
  PROVE  Keeps(c, d) /\ (Data(c) => Data(d))
<1>0. SameIn(c, d) /\ SameOut(c, d) /\ d.tls = c.tls /\ SameEnd(c, d)
  BY Zenon DEF IdleFrame, SameTls
<1>1. /\ "in" \in d.s_cond => "in" \in c.s_cond
      /\ "out" \in d.s_cond => "out" \in c.s_cond
  BY Zenon DEF IdleFrame
<1>2. ReadInv(c) => ReadInv(d)
  BY <1>0, <1>1, Zenon DEF ReadInv, SameIn, SameEnd
<1>3. WriteInv(c) => WriteInv(d)
  BY <1>0, <1>1, Zenon DEF WriteInv, SameOut, SameEnd
<1>4. Data(c) => Data(d)
  BY <1>0, Zenon DEF Data, SameIn, SameOut
<1> QED BY <1>2, <1>3, <1>4, Zenon DEF Keeps

\* Either the connection will close, or the socket will report the next data.
LEMMA DrainedStep ==
  ASSUME NEW c, NEW n, Sound(c, n), Eager(c) => c.rx = <<>> /\ c.bag = <<>>
  PROVE  LET d == evd_connection_socket_input_stream_drained(c)
         IN IdleFrame(c, d) /\ (d.sock => "in" \notin d.s_cond \/ d.hup)
<1> DEFINE d == evd_connection_socket_input_stream_drained(c)
<1>0. Typed(c)
  BY Zenon DEF Sound
<1>1. CASE c.closed
  <2>1. d = c
    BY <1>1, Zenon DEF evd_connection_socket_input_stream_drained
  <2>2. ~c.sock
    BY <1>1, Zenon DEF Sound, QuietInv
  <2> QED BY <1>0, <2>1, <2>2, IdleFrameRefl, Zenon
<1>2. CASE ~c.closed /\ c.delayed_close /\ ~c.close_locked
  <2>1. d = evd_connection_close_in_idle(c)
    BY <1>2, Zenon DEF evd_connection_socket_input_stream_drained
  <2>2. c.hup
    BY <1>2, Zenon DEF Sound, EndInv
  <2>3. CanClose(c)
    BY <2>2, Zenon DEF CanClose
  <2>4. IdleFrame(c, d)
    BY <1>0, <2>1, <2>3, CloseInIdleStep, Zenon
  <2> QED BY <2>2, <2>4, Zenon DEF IdleFrame, SameEnd
<1>3. CASE ~c.closed /\ ~(c.delayed_close /\ ~c.close_locked) /\ c.sock
  <2>1. d = [c EXCEPT !.cond = c.cond \ {"in"}, !.s_cond = c.cond \ {"in"}]
    BY <1>0, <1>3 DEF evd_connection_socket_input_stream_drained, Rearm, Typed, Shape, Fields
  <2> HIDE DEF d
  <2>2. Shape(d)
    BY <1>0, <2>1, ZenonT(60) DEF Typed, Shape, Fields
  <2>3. /\ SameIn(c, d) /\ SameOut(c, d) /\ SameTls(c, d) /\ SameEnd(c, d) /\ SameIdle(c, d)
        /\ d.cond = c.cond \ {"in"} /\ d.s_cond = c.cond \ {"in"} /\ d.ref = c.ref
    BY <1>0, <2>1 DEF Typed, Shape, Fields, SameIn, SameOut, SameTls, SameEnd, SameIdle
  <2>4. IdleTyped(d)
    BY <1>0, <2>3, Zenon DEF Typed, IdleTyped, SameIdle
  <2>5. Typed(d)
    BY <1>0, <2>2, <2>3, <2>4, InSame, OutSame, TlsSame, EndSame, Zenon DEF Typed
  <2>6. d.ref = c.ref + Count(d.close_src) - Count(c.close_src)
    BY <1>0, <2>3, CountType DEF Typed, IdleTyped, SameIdle
  <2>7. c.cond = c.s_cond
    BY <1>3, Zenon DEF Sound, StackInv
  <2>8. IdleFrame(c, d)
    BY <2>3, <2>5, <2>6, <2>7, Zenon DEF IdleFrame, SameIdle
  <2> QED BY <2>3, <2>8, Zenon DEF d
<1>4. CASE ~c.closed /\ ~(c.delayed_close /\ ~c.close_locked) /\ ~c.sock
  <2>1. d = [c EXCEPT !.cond = c.cond \ {"in"}]
    BY <1>0, <1>4 DEF evd_connection_socket_input_stream_drained, Rearm, Typed, Shape, Fields
  <2> HIDE DEF d
  <2>2. Shape(d)
    BY <1>0, <2>1, ZenonT(60) DEF Typed, Shape, Fields
  <2>3. /\ SameIn(c, d) /\ SameOut(c, d) /\ SameTls(c, d) /\ SameEnd(c, d) /\ SameIdle(c, d)
        /\ d.cond = c.cond \ {"in"} /\ d.s_cond = c.s_cond /\ d.ref = c.ref
    BY <1>0, <2>1 DEF Typed, Shape, Fields, SameIn, SameOut, SameTls, SameEnd, SameIdle
  <2>4. IdleTyped(d)
    BY <1>0, <2>3, Zenon DEF Typed, IdleTyped, SameIdle
  <2>5. Typed(d)
    BY <1>0, <2>2, <2>3, <2>4, InSame, OutSame, TlsSame, EndSame, Zenon DEF Typed
  <2>6. d.ref = c.ref + Count(d.close_src) - Count(c.close_src)
    BY <1>0, <2>3, CountType DEF Typed, IdleTyped, SameIdle
  <2>7. IdleFrame(c, d)
    BY <1>4, <2>3, <2>5, <2>6, Zenon DEF IdleFrame, SameIdle
  <2> QED BY <1>4, <2>3, <2>7, Zenon DEF SameEnd, d
<1> QED BY <1>1, <1>2, <1>3, <1>4, Zenon

-----------------------------------------------------------------------------
\* Input.

\* A function of the input streams changes fields of the input only, and the
\* reference of its timer.
InFrame(c, d) ==
  /\ Typed(d) /\ SameOut(c, d) /\ SameTls(c, d) /\ SameEnd(c, d) /\ SameIdle(c, d)
  /\ SameCond(c, d)
  /\ d.ref = c.ref + Count(d.read_src) - Count(c.read_src)
  /\ d.frozen => c.frozen

\* What it must not do to an eager application.
EagerOk(c, d) ==
  Eager(c) => /\ d.ibuf = <<>> /\ d.reading > 0
              /\ c.close_src => d.rx = <<>> /\ d.bag = <<>>

\* A step of the input keeps the connection sound.
LEMMA InSound ==
  ASSUME NEW c, NEW d, NEW n \in Int, Sound(c, n), ~c.closed, InFrame(c, d), EagerOk(c, d)
  PROVE  Sound(d, n) /\ (WriteInv(c) => WriteInv(d)) /\ ~d.closed
<1>0. /\ SameOut(c, d) /\ SameTls(c, d) /\ SameEnd(c, d) /\ SameIdle(c, d) /\ SameCond(c, d)
      /\ Typed(d)
  BY Zenon DEF InFrame
<1>1. Refs(d, n)
  <2>1. /\ d.held = c.held /\ d.close_src = c.close_src /\ d.write_src = c.write_src
        /\ d.orphan = c.orphan /\ d.ref = c.ref + Count(d.read_src) - Count(c.read_src)
        /\ d.flush = c.flush
    BY <1>0, Zenon DEF InFrame, SameEnd, SameIdle, SameOut
  <2>2. /\ Count(c.held) \in Int /\ Count(c.read_src) \in Int /\ Count(c.write_src) \in Int
        /\ Count(c.close_src) \in Int /\ Count(c.flush # "none") \in Int
        /\ Count(d.read_src) \in Int
    BY CountType, Zenon
  <2>3. c.orphan \in Int /\ Refs(c, n)
    BY DEF Sound, Typed, EndTyped
  <2> QED BY <2>1, <2>2, <2>3 DEF Refs, Sources
<1>2. QuietInv(d) /\ ~d.closed
  BY <1>0, Zenon DEF QuietInv, SameEnd
<1>3. StackInv(d)
  <2>1. /\ d.sock = c.sock /\ d.auto_flush = c.auto_flush /\ d.cond = c.cond
        /\ d.s_cond = c.s_cond /\ d.tls = c.tls /\ d.hs_rx = c.hs_rx /\ d.flights = c.flights
        /\ d.setup = c.setup
    BY <1>0, Zenon DEF SameEnd, SameTls, SameOut, SameCond
  <2> QED BY <2>1, Zenon DEF Sound, StackInv, InFrame, Tls
<1>4. EndInv(d)
  <2>1. EndInv(c)
    BY Zenon DEF Sound
  <2> QED BY <1>0, <2>1, Zenon DEF EndInv, SameEnd, SameOut
<1>5. TailInv(d)
  <2>1. TailInv(c)
    BY Zenon DEF Sound
  <2>2. Eager(d) = Eager(c)
    BY <1>0, Zenon DEF SameEnd, Eager, Tls
  <2> QED BY <1>0, <1>2, <2>1, <2>2, Zenon DEF TailInv, EagerOk, SameEnd, SameIdle
<1>6. WriteInv(c) => WriteInv(d)
  BY <1>0, Zenon DEF WriteInv, SameOut, SameEnd, SameTls, SameCond
<1> QED BY <1>0, <1>1, <1>2, <1>3, <1>4, <1>5, <1>6, Zenon DEF Sound

\* The fields of the input that a read does not touch.
SameReader(c, d) ==
  /\ d.got = c.got /\ d.sent = c.sent /\ d.reading = c.reading /\ d.do_read = c.do_read
  /\ d.frozen = c.frozen

\* Receiving.
Takes(c, d, rx, bag) == d = [c EXCEPT !.rx = rx, !.bag = bag]

\* Receiving is a step of the input,
LEMMA TakeStep ==
  ASSUME NEW c, Typed(c), NEW rx \in Seq(Nat), NEW bag \in Seq(Nat), NEW d,
         Takes(c, d, rx, bag)
  PROVE  /\ InFrame(c, d) /\ SameReader(c, d) /\ d.rx = rx /\ d.bag = bag /\ d.ibuf = c.ibuf
         /\ d.in_budget = c.in_budget /\ d.read_src = c.read_src
<1>1. Shape(d)
  BY ZenonT(60) DEF Takes, Typed, Shape, Fields
<1>2. /\ SameOut(c, d) /\ SameTls(c, d) /\ SameEnd(c, d) /\ SameIdle(c, d) /\ SameCond(c, d)
      /\ SameReader(c, d) /\ d.rx = rx /\ d.bag = bag /\ d.ibuf = c.ibuf
      /\ d.in_budget = c.in_budget /\ d.read_src = c.read_src /\ d.ref = c.ref
  BY DEF Takes, Typed, Shape, Fields, SameOut, SameTls, SameEnd, SameIdle, SameCond, SameReader
<1>3. d.ref = c.ref + Count(d.read_src) - Count(c.read_src)
  BY <1>2, CountType DEF Typed, IdleTyped
<1>4. InTyped(d) /\ IdleTyped(d)
  BY <1>2, Zenon DEF Typed, InTyped, IdleTyped, SameIdle, SameCond, SameReader
<1>5. Typed(d)
  BY <1>1, <1>2, <1>4, OutSame, TlsSame, EndSame, Zenon DEF Typed
<1>6. InFrame(c, d)
  BY <1>2, <1>3, <1>5, Zenon DEF InFrame, SameReader
<1> QED BY <1>2, <1>6, Zenon

\* The budget, charged or renewed.
Spends(c, d, b) == d = [c EXCEPT !.in_budget = b]

\* so is charging the budget,
LEMMA SpendStep ==
  ASSUME NEW c, Typed(c), NEW b \in Nat, NEW d, Spends(c, d, b)
  PROVE  /\ InFrame(c, d) /\ SameReader(c, d) /\ d.rx = c.rx /\ d.bag = c.bag
         /\ d.ibuf = c.ibuf /\ d.read_src = c.read_src
<1>1. Shape(d)
  BY DEF Spends, Typed, Shape, Fields
<1>2. /\ SameOut(c, d) /\ SameTls(c, d) /\ SameEnd(c, d) /\ SameIdle(c, d) /\ SameCond(c, d)
      /\ SameReader(c, d) /\ d.rx = c.rx /\ d.bag = c.bag /\ d.ibuf = c.ibuf
      /\ d.in_budget = b /\ d.read_src = c.read_src /\ d.ref = c.ref
  BY DEF Spends, Typed, Shape, Fields, SameOut, SameTls, SameEnd, SameIdle, SameCond, SameReader
<1>3. d.ref = c.ref + Count(d.read_src) - Count(c.read_src)
  BY <1>2, CountType DEF Typed, IdleTyped
<1>4. InTyped(d) /\ IdleTyped(d)
  BY <1>2, Zenon DEF Typed, InTyped, IdleTyped, SameIdle, SameCond, SameReader
<1>5. Typed(d)
  BY <1>1, <1>2, <1>4, OutSame, TlsSame, EndSame, Zenon DEF Typed
<1>6. InFrame(c, d)
  BY <1>2, <1>3, <1>5, Zenon DEF InFrame, SameReader
<1> QED BY <1>2, <1>6, Zenon

\* and evd_connection_delay_read, which starts the timer.
LEMMA DelayReadStep ==
  ASSUME NEW c, Typed(c)
  PROVE  LET d == evd_connection_delay_read(c)
         IN /\ InFrame(c, d) /\ SameReader(c, d) /\ d.rx = c.rx /\ d.bag = c.bag
            /\ d.ibuf = c.ibuf /\ d.read_src = TRUE
<1> DEFINE d == evd_connection_delay_read(c)
<1>0. d = [c EXCEPT !.read_src = TRUE, !.ref = c.ref + Count(~c.read_src)]
  BY Zenon DEF evd_connection_delay_read
<1> HIDE DEF d
<1>1. Shape(d)
  BY <1>0, ZenonT(60) DEF Typed, Shape, Fields
<1>2. /\ SameOut(c, d) /\ SameTls(c, d) /\ SameEnd(c, d) /\ SameIdle(c, d) /\ SameCond(c, d)
      /\ SameReader(c, d) /\ d.rx = c.rx /\ d.bag = c.bag /\ d.ibuf = c.ibuf
      /\ d.in_budget = c.in_budget /\ d.read_src = TRUE /\ d.ref = c.ref + Count(~c.read_src)
  BY <1>0 DEF Typed, Shape, Fields, SameOut, SameTls, SameEnd, SameIdle, SameCond, SameReader
<1>3. d.ref \in Int /\ d.ref = c.ref + Count(d.read_src) - Count(c.read_src)
  BY <1>2 DEF Typed, IdleTyped, Count
<1>4. InTyped(d) /\ IdleTyped(d)
  BY <1>2, <1>3, Zenon DEF Typed, InTyped, IdleTyped, SameIdle, SameCond, SameReader
<1>5. Typed(d)
  BY <1>1, <1>2, <1>4, OutSame, TlsSame, EndSame, Zenon DEF Typed
<1>6. InFrame(c, d)
  BY <1>2, <1>3, <1>5, Zenon DEF InFrame, SameReader
<1> QED BY <1>2, <1>6, Zenon DEF d

\* The reader's side: what was pushed back, what was got, and what is pending.
Hands(c, d, ibuf, got, reading, doread, frozen) ==
  /\ ibuf \in Seq(Nat) /\ got \in Seq(Nat) /\ reading \in 0..2 /\ doread \in BOOLEAN
  /\ frozen \in BOOLEAN /\ (frozen => c.frozen)
  /\ d = [c EXCEPT !.ibuf = ibuf, !.got = got, !.reading = reading, !.do_read = doread,
                   !.frozen = frozen]

Handed(c, d, ibuf, got, reading, doread, frozen) ==
  /\ InFrame(c, d) /\ d.rx = c.rx /\ d.bag = c.bag /\ d.read_src = c.read_src
  /\ d.in_budget = c.in_budget /\ d.sent = c.sent
  /\ d.ibuf = ibuf /\ d.got = got /\ d.reading = reading /\ d.do_read = doread
  /\ d.frozen = frozen

\* Setting the fields of the reader leaves all else alone.
LEMMA HandStep ==
  ASSUME NEW c, NEW d, NEW ibuf, NEW got, NEW reading, NEW doread, NEW frozen,
         Typed(c), Hands(c, d, ibuf, got, reading, doread, frozen)
  PROVE  Handed(c, d, ibuf, got, reading, doread, frozen)
<1>0. d = [c EXCEPT !.ibuf = ibuf, !.got = got, !.reading = reading, !.do_read = doread,
                    !.frozen = frozen]
  BY Zenon DEF Hands
<1>1. Shape(d)
  BY <1>0, ZenonT(60) DEF Typed, Shape, Fields
<1>2. /\ SameOut(c, d) /\ SameTls(c, d) /\ SameEnd(c, d) /\ SameIdle(c, d) /\ SameCond(c, d)
      /\ d.rx = c.rx /\ d.bag = c.bag /\ d.ibuf = ibuf /\ d.got = got /\ d.reading = reading
      /\ d.do_read = doread /\ d.frozen = frozen /\ d.sent = c.sent
      /\ d.in_budget = c.in_budget /\ d.read_src = c.read_src /\ d.ref = c.ref
  BY <1>0 DEF Typed, Shape, Fields, SameOut, SameTls, SameEnd, SameIdle, SameCond
<1>3. d.ref = c.ref + Count(d.read_src) - Count(c.read_src)
  BY <1>2, CountType DEF Typed, IdleTyped
<1>4. InTyped(d) /\ IdleTyped(d)
  BY <1>2, Zenon DEF Hands, Typed, InTyped, IdleTyped, SameIdle, SameCond
<1>5. Typed(d)
  BY <1>1, <1>2, <1>4, OutSame, TlsSame, EndSame, Zenon DEF Typed
<1>6. InFrame(c, d)
  BY <1>2, <1>3, <1>5, Zenon DEF InFrame, Hands
<1> QED BY <1>2, <1>6, Zenon DEF Handed

\* A read that returned nothing has a timer, or the socket is drained and will
\* report the next data.
Dry(d) ==
  d.sock => d.read_src \/ (d.bag = <<>> /\ d.rx = <<>> /\ ("in" \notin d.s_cond \/ d.hup))

\* A read through the lower streams: the data come off the front of the bag and
\* the receive queue.
ReadCore(c, r, n) ==
  /\ Sound(r.c, n) /\ ~r.c.closed
  /\ SameOut(c, r.c) /\ SameTls(c, r.c) /\ SameEnd(c, r.c) /\ SameReader(c, r.c)
  /\ r.c.ibuf = c.ibuf
  /\ r.data \in Seq(Nat) /\ Len(r.c.bag) <= 1
  /\ r.data \o (r.c.bag \o r.c.rx) = c.bag \o c.rx
  /\ WriteInv(c) => WriteInv(r.c)

ReadOk(c, r, n) == ReadCore(c, r, n) /\ (r.data = <<>> => Dry(r.c))

\* The unit after the ones asked for goes to the bag.
LEMMA LookAhead ==
  ASSUME NEW bag \in Seq(Nat), NEW rx \in Seq(Nat), NEW k \in 1..Len(rx)
  PROVE  /\ bag \o Front(rx, k - 1) \in Seq(Nat)
         /\ Len(bag \o Front(rx, k - 1)) = Len(bag) + (k - 1)
         /\ (bag \o Front(rx, k - 1)) \o (<<rx[k]>> \o Rest(rx, k)) = bag \o rx
<1> DEFINE f == Front(rx, k - 1)
           x == <<rx[k]>>
           t == Rest(rx, k)
<1>1. k - 1 \in 0..Len(rx) /\ k \in 0..Len(rx)
  BY EmptyLen
<1>2. f \in Seq(Nat) /\ Len(f) = k - 1 /\ t \in Seq(Nat)
  BY <1>1, CutType, Zenon
<1>3. x \in Seq(Nat) /\ Front(rx, k) = f \o x
  BY CutLast, Zenon
<1>4. (f \o x) \o t = rx
  BY <1>1, <1>3, Cut, Zenon
<1> HIDE DEF f, x, t
<1>5. bag \o f \in Seq(Nat) /\ Len(bag \o f) = Len(bag) + Len(f) /\ x \o t \in Seq(Nat)
  BY <1>2, <1>3, ConcatSeq, Zenon
<1>6. (bag \o f) \o (x \o t) = bag \o (f \o (x \o t))
  BY <1>2, <1>5, ConcatAssoc, ZenonT(40)
<1>7. f \o (x \o t) = (f \o x) \o t
  BY <1>2, <1>3, ConcatAssoc, ZenonT(40)
<1> QED BY <1>2, <1>4, <1>5, <1>6, <1>7, Zenon DEF f, x, t

\* At most one is none or one.
LEMMA ZeroOrOne ==
  ASSUME NEW l \in Nat, l <= 1
  PROVE  l = 0 \/ l = 1
  OBVIOUS

\* A read that got less than it asked for stays in its bound.
LEMMA NotMore ==
  ASSUME NEW b \in Nat, NEW l \in Nat, NEW want \in Nat, NEW m \in Nat, l < want,
         b + want = m + 1
  PROVE  b + l <= m
  OBVIOUS

\* At most one unit was read ahead.
LEMMA BagLen ==
  ASSUME NEW bag \in Seq(Nat), Len(bag) <= 1
  PROVE  (bag = <<>> => Len(bag) = 0) /\ (bag # <<>> => Len(bag) = 1)
<1>1. Len(bag) \in Nat
  OBVIOUS
<1>2. Len(bag) = 0 \/ Len(bag) = 1
  BY <1>1, ZeroOrOne, Zenon
<1> QED BY <1>2, EmptyLen, Zenon

\* evd_socket_input_stream_read takes a front of the queue, and reads it dry
\* if it gets less than it asked for.
LEMMA SocketReadStep ==
  ASSUME NEW c, NEW n \in Int, Sound(c, n), ~c.closed, Len(c.bag) <= 1,
         NEW m \in Nat, m > 0
  PROVE  LET r == evd_socket_input_stream_read(c, m)
         IN /\ ReadOk(c, r, n) /\ Len(r.data) <= m /\ r.c.in_budget = c.in_budget
            /\ r.c.read_src = c.read_src
<1> DEFINE r == evd_socket_input_stream_read(c, m)
           want == IF c.bag = <<>> THEN m + 1 ELSE m
           k == Least(Len(c.rx), want)
           t == [c EXCEPT !.rx = <<>>, !.bag = <<>>]
           u == [c EXCEPT !.rx = Rest(@, k), !.bag = <<c.rx[k]>>]
           d == evd_connection_socket_input_stream_drained(t)
<1>1. r = IF ~c.sock THEN [c |-> c, data |-> <<>>]
          ELSE IF k < want THEN [c |-> d, data |-> c.bag \o c.rx]
          ELSE [c |-> u, data |-> c.bag \o Front(c.rx, k - 1)]
  BY Zenon DEF evd_socket_input_stream_read, Read
<1>2. Typed(c) /\ c.bag \in Seq(Nat) /\ c.rx \in Seq(Nat) /\ TailInv(c)
  BY Zenon DEF Sound, Typed, InTyped
<1>3. Len(c.bag) \in Nat /\ Len(c.rx) \in Nat /\ (c.bag = <<>> <=> Len(c.bag) = 0)
        /\ (c.rx = <<>> <=> Len(c.rx) = 0)
  BY <1>2, EmptyLen, Zenon
<1>4. want \in Nat /\ want > 0 /\ Len(c.bag) + want = m + 1
  <2>1. (c.bag = <<>> => want = m + 1) /\ (c.bag # <<>> => want = m)
    BY Zenon
  <2>2. (c.bag = <<>> => Len(c.bag) = 0) /\ (c.bag # <<>> => Len(c.bag) = 1)
    BY <1>2, BagLen, Zenon
  <2> HIDE DEF want
  <2> QED BY <2>1, <2>2
<1>5. k \in Nat /\ (k < want => k = Len(c.rx)) /\ (~(k < want) => k = want /\ k <= Len(c.rx))
  <2> HIDE DEF want
  <2>1. k \in Nat /\ k <= Len(c.rx) /\ k <= want /\ (k = Len(c.rx) \/ k = want)
    BY <1>3, <1>4, LeastOf, Zenon
  <2> HIDE DEF k
  <2> QED BY <1>3, <1>4, <2>1
<1> HIDE DEF want, k, r
<1>6. SameOut(c, c) /\ SameTls(c, c) /\ SameEnd(c, c) /\ SameReader(c, c)
  BY Zenon DEF SameOut, SameTls, SameEnd, SameReader
<1>7. CASE ~c.sock
  <2>1. r = [c |-> c, data |-> <<>>]
    BY <1>1, <1>7, Zenon
  <2>2. r.c = c /\ r.data = <<>>
    BY <2>1
  <2>3. <<>> \o (c.bag \o c.rx) = c.bag \o c.rx
    BY <1>2, ConcatSeq, ConcatEmpty, Zenon
  <2>4. Len(<<>>) <= m
    BY EmptySeq
  <2> QED BY <1>6, <1>7, <2>2, <2>3, <2>4, EmptySeq, Zenon DEF ReadOk, ReadCore, Dry, r
<1>8. CASE c.sock /\ k < want
  <2>1. r = [c |-> d, data |-> c.bag \o c.rx]
    BY <1>1, <1>8, Zenon
  <2> DEFINE none == <<>>
  <2>2. Takes(c, t, none, none) /\ none \in Seq(Nat)
    BY EmptySeq, Zenon DEF Takes
  <2> HIDE DEF t, none
  <2>3. /\ InFrame(c, t) /\ SameReader(c, t) /\ t.rx = <<>> /\ t.bag = <<>>
        /\ t.ibuf = c.ibuf /\ t.in_budget = c.in_budget /\ t.read_src = c.read_src
    <3>1. /\ InFrame(c, t) /\ SameReader(c, t) /\ t.rx = none /\ t.bag = none
          /\ t.ibuf = c.ibuf /\ t.in_budget = c.in_budget /\ t.read_src = c.read_src
      BY <1>2, <2>2, TakeStep
    <3> QED BY <3>1, Zenon DEF none
  <2>4. EagerOk(c, t)
    BY <1>2, <2>3, Zenon DEF EagerOk, TailInv, SameReader
  <2>5. Sound(t, n) /\ (WriteInv(c) => WriteInv(t)) /\ ~t.closed
    BY <2>3, <2>4, InSound, Zenon
  <2>6. IdleFrame(t, d) /\ (d.sock => "in" \notin d.s_cond \/ d.hup)
    BY <2>3, <2>5, DrainedStep, Zenon
  <2> HIDE DEF d
  <2>7. Sound(d, n) /\ (WriteInv(t) => WriteInv(d))
    BY <2>5, <2>6, IdleSound, IdleKeeps, Zenon DEF Keeps
  <2>8. SameIn(t, d) /\ SameOut(t, d) /\ SameTls(t, d) /\ SameEnd(t, d)
    BY <2>6, Zenon DEF IdleFrame
  <2>9. SameOut(c, d) /\ SameTls(c, d) /\ SameEnd(c, d)
    BY <2>3, <2>8, ZenonT(60) DEF InFrame, SameOut, SameTls, SameEnd
  <2>10. /\ SameReader(c, d) /\ d.rx = <<>> /\ d.bag = <<>> /\ d.ibuf = c.ibuf
         /\ d.in_budget = c.in_budget /\ d.read_src = c.read_src
    BY <2>3, <2>8, Zenon DEF SameIn, SameReader
  <2>11. r.c = d /\ r.data = c.bag \o c.rx
    BY <2>1, ZenonT(60)
  <2>12. /\ r.data \in Seq(Nat) /\ Len(r.data) = Len(c.bag) + Len(c.rx)
         /\ r.data \o (d.bag \o d.rx) = c.bag \o c.rx
    <3>1. d.bag \o d.rx = <<>>
      BY <2>10, EmptySeq, ConcatEmpty, Zenon
    <3>2. c.bag \o c.rx \in Seq(Nat) /\ Len(c.bag \o c.rx) = Len(c.bag) + Len(c.rx)
      BY <1>2, ConcatSeq, Zenon
    <3>3. (c.bag \o c.rx) \o <<>> = c.bag \o c.rx
      BY <3>2, ConcatEmpty, Zenon
    <3> QED BY <2>11, <3>1, <3>2, <3>3, Zenon
  <2>13. Len(r.data) <= m /\ Len(d.bag) <= 1
    <3>1. Len(d.bag) = 0
      BY <2>10, EmptySeq, Zenon
    <3>2. Len(c.bag) \in Nat /\ Len(c.rx) \in Nat
      BY <1>3, Zenon
    <3>3. k = Len(c.rx) /\ k < want
      BY <1>5, <1>8, Zenon
    <3>4. Len(r.data) = Len(c.bag) + Len(c.rx)
      BY <2>12, Zenon
    <3>5. 0 <= 1
      OBVIOUS
    <3> QED BY <1>4, <3>1, <3>2, <3>3, <3>4, <3>5, NotMore, Zenon
  <2>14. Dry(d)
    BY <2>6, <2>10, Zenon DEF Dry
  <2>15. ~d.closed
    BY <2>5, <2>8, Zenon DEF SameEnd
  <2>16. ReadOk(c, r, n)
    BY <2>5, <2>7, <2>9, <2>10, <2>11, <2>12, <2>13, <2>14, <2>15, Zenon DEF ReadOk, ReadCore
  <2> QED BY <2>10, <2>11, <2>13, <2>16, Zenon DEF r
<1>9. CASE c.sock /\ ~(k < want)
  <2>1. r = [c |-> u, data |-> c.bag \o Front(c.rx, k - 1)]
    BY <1>1, <1>9, Zenon
  <2>2. k \in 1..Len(c.rx) /\ k \in 0..Len(c.rx) /\ c.rx # <<>>
    BY <1>3, <1>4, <1>5, <1>9
  <2>3. <<c.rx[k]>> \in Seq(Nat) /\ Len(<<c.rx[k]>>) = 1
    BY <1>2, <2>2, CutLast, Zenon
  <2>4. Rest(c.rx, k) \in Seq(Nat)
    BY <1>2, <2>2, CutType, Zenon
  <2> DEFINE bag == <<c.rx[k]>>
  <2>5. Takes(c, u, Rest(c.rx, k), bag) /\ bag \in Seq(Nat)
    BY <2>3, Zenon DEF Takes
  <2> HIDE DEF u, bag
  <2>6. /\ InFrame(c, u) /\ SameReader(c, u) /\ u.rx = Rest(c.rx, k) /\ u.bag = <<c.rx[k]>>
        /\ u.ibuf = c.ibuf /\ u.in_budget = c.in_budget /\ u.read_src = c.read_src
    <3>1. /\ InFrame(c, u) /\ SameReader(c, u) /\ u.rx = Rest(c.rx, k) /\ u.bag = bag
          /\ u.ibuf = c.ibuf /\ u.in_budget = c.in_budget /\ u.read_src = c.read_src
      BY <1>2, <2>4, <2>5, TakeStep
    <3> QED BY <3>1, Zenon DEF bag
  <2>7. EagerOk(c, u)
    BY <1>2, <2>2, <2>6, Zenon DEF EagerOk, TailInv, SameReader
  <2>8. Sound(u, n) /\ (WriteInv(c) => WriteInv(u)) /\ ~u.closed
    BY <2>6, <2>7, InSound, Zenon
  <2>9. r.c = u /\ r.data = c.bag \o Front(c.rx, k - 1)
    BY <2>1, ZenonT(60)
  <2>10. /\ r.data \in Seq(Nat) /\ Len(r.data) = Len(c.bag) + (k - 1)
         /\ r.data \o (u.bag \o u.rx) = c.bag \o c.rx
    <3>1. LET f == c.bag \o Front(c.rx, k - 1)
          IN /\ f \in Seq(Nat) /\ Len(f) = Len(c.bag) + (k - 1)
             /\ f \o (<<c.rx[k]>> \o Rest(c.rx, k)) = c.bag \o c.rx
      BY <1>2, <2>2, LookAhead, ZenonT(60)
    <3> QED BY <2>6, <2>9, <3>1, Zenon
  <2>11. Len(r.data) <= m /\ Len(u.bag) <= 1 /\ Len(r.data) > 0
    BY <1>3, <1>4, <1>5, <1>9, <2>3, <2>6, <2>10, SMTT(40)
  <2>12. r.data # <<>>
    BY <2>10, <2>11, EmptyLen
  <2>13. ReadOk(c, r, n)
    BY <2>6, <2>8, <2>9, <2>10, <2>11, <2>12, Zenon DEF ReadOk, ReadCore, InFrame
  <2> QED BY <2>6, <2>9, <2>11, <2>13, Zenon DEF r
<1> QED BY <1>7, <1>8, <1>9, Zenon

\* The budget and the timer of the throttle do not disturb what was read.
LEMMA ReadThen ==
  ASSUME NEW c, NEW r, NEW d, NEW s, NEW n \in Int, ReadCore(c, r, n),
         InFrame(r.c, d), SameReader(r.c, d), d.rx = r.c.rx, d.bag = r.c.bag,
         d.ibuf = r.c.ibuf, s.c = d, s.data = r.data
  PROVE  ReadCore(c, s, n)
<1>1. EagerOk(r.c, d)
  <2>1. TailInv(r.c) /\ ~r.c.closed
    BY Zenon DEF ReadCore, Sound
  <2> QED BY <2>1, Zenon DEF EagerOk, TailInv, SameReader
<1>2. Sound(d, n) /\ (WriteInv(r.c) => WriteInv(d)) /\ ~d.closed
  BY <1>1, InSound, Zenon DEF ReadCore
<1>3. SameOut(c, d) /\ SameTls(c, d) /\ SameEnd(c, d)
  <2>1. SameOut(c, r.c) /\ SameTls(c, r.c) /\ SameEnd(c, r.c)
    BY Zenon DEF ReadCore
  <2>2. SameOut(r.c, d) /\ SameTls(r.c, d) /\ SameEnd(r.c, d)
    BY Zenon DEF InFrame
  <2> QED BY <2>1, <2>2, Zenon DEF SameOut, SameTls, SameEnd
<1>4. SameReader(c, d)
  BY Zenon DEF ReadCore, SameReader
<1> QED BY <1>2, <1>3, <1>4, Zenon DEF ReadCore

\* A read that returns nothing and changes nothing.
LEMMA ReadNothing ==
  ASSUME NEW c, NEW n, Sound(c, n), ~c.closed, Len(c.bag) <= 1, NEW r,
         r.c = c, r.data = <<>>
  PROVE  ReadCore(c, r, n)
<1>1. c.bag \in Seq(Nat) /\ c.rx \in Seq(Nat)
  BY Zenon DEF Sound, Typed, InTyped
<1>2. <<>> \o (c.bag \o c.rx) = c.bag \o c.rx
  BY <1>1, ConcatSeq, ConcatEmpty, Zenon
<1> QED BY <1>2, EmptySeq, Zenon DEF ReadCore, SameOut, SameTls, SameEnd, SameReader

\* evd_throttled_input_stream_read, which may read one unit ahead, loses none.
LEMMA ThrottledReadStep ==
  ASSUME NEW c, NEW n \in Int, Sound(c, n), ~c.closed, Len(c.bag) <= 1,
         NEW m \in Nat, m > 0
  PROVE  ReadOk(c, evd_throttled_input_stream_read(c, m), n)
<1> DEFINE s == evd_throttled_input_stream_read(c, m)
           limited == evd_throttled_input_stream_get_max_readable_priv(c, m)
           r == IF limited > 0 THEN evd_socket_input_stream_read(c, limited)
                ELSE [c |-> c, data |-> <<>>]
           left == IF Throttled(c) THEN r.c.in_budget - Len(r.data) ELSE r.c.in_budget
           t == [r.c EXCEPT !.in_budget = left]
           d == IF limited < m THEN evd_connection_delay_read(t) ELSE t
<1>1. s = [c |-> d, data |-> r.data]
  BY DEF evd_throttled_input_stream_read, Read
<1>2. c.in_budget \in Nat
  BY Zenon DEF Sound, Typed, InTyped
<1>3. limited \in Nat /\ (Throttled(c) => limited <= c.in_budget)
  <2>1. CASE Throttled(c)
    <3>1. limited = Least(m, c.in_budget)
      BY <2>1, Zenon DEF evd_throttled_input_stream_get_max_readable_priv
    <3> QED BY <1>2, <3>1, LeastOf, Zenon
  <2>2. CASE ~Throttled(c)
    BY <2>2, Zenon DEF evd_throttled_input_stream_get_max_readable_priv
  <2> QED BY <2>1, <2>2, Zenon
<1> HIDE DEF s, limited
<1>4. /\ ReadCore(c, r, n) /\ Len(r.data) <= limited /\ r.c.in_budget = c.in_budget
      /\ limited > 0 => (r.data = <<>> => Dry(r.c))
  <2>1. CASE limited > 0
    <3>1. r = evd_socket_input_stream_read(c, limited)
      BY <2>1, Zenon
    <3> HIDE DEF r
    <3> QED BY <1>3, <2>1, <3>1, SocketReadStep, Zenon DEF ReadOk
  <2>2. CASE ~(limited > 0)
    <3>1. r = [c |-> c, data |-> <<>>]
      BY <2>2, Zenon
    <3> HIDE DEF r
    <3>2. r.c = c /\ r.data = <<>>
      BY <3>1
    <3>3. Len(r.data) <= limited
      BY <1>3, <3>2, EmptySeq
    <3> QED BY <2>2, <3>2, <3>3, ReadNothing, Zenon
  <2> QED BY <2>1, <2>2, Zenon
<1> HIDE DEF r
<1>5. Len(r.data) \in Nat /\ Typed(r.c)
  BY <1>4, EmptyLen, Zenon DEF ReadCore, Sound
<1>6. left \in Nat
  BY <1>2, <1>3, <1>4, <1>5
<1>7. Spends(r.c, t, left)
  BY Zenon DEF Spends
<1> HIDE DEF left, t
<1>8. /\ InFrame(r.c, t) /\ SameReader(r.c, t) /\ t.rx = r.c.rx /\ t.bag = r.c.bag
      /\ t.ibuf = r.c.ibuf /\ t.read_src = r.c.read_src
  BY <1>5, <1>6, <1>7, SpendStep
<1>9. ReadCore(c, [c |-> t, data |-> r.data], n)
  <2> DEFINE v == [c |-> t, data |-> r.data]
  <2>1. v.c = t /\ v.data = r.data
    OBVIOUS
  <2> HIDE DEF v
  <2>2. ReadCore(c, v, n)
    BY <1>4, <1>8, <2>1, ReadThen, Zenon
  <2> QED BY <2>2, Zenon DEF v
<1>10. s.data = r.data /\ s.c = d
  BY <1>1
<1>11. CASE limited < m
  <2>1. d = evd_connection_delay_read(t)
    BY <1>11, Zenon
  <2> HIDE DEF d
  <2>2. Typed(t)
    BY <1>8, Zenon DEF InFrame
  <2>3. /\ InFrame(t, d) /\ SameReader(t, d) /\ d.rx = t.rx /\ d.bag = t.bag
        /\ d.ibuf = t.ibuf /\ d.read_src = TRUE
    BY <2>1, <2>2, DelayReadStep, Zenon
  <2> DEFINE v == [c |-> t, data |-> r.data]
  <2>4. v.c = t /\ v.data = r.data /\ ReadCore(c, v, n)
    BY <1>9
  <2> HIDE DEF v
  <2>5. ReadCore(c, s, n)
    BY <1>10, <2>3, <2>4, ReadThen, Zenon
  <2> QED BY <1>10, <2>3, <2>5, Zenon DEF ReadOk, Dry, s
<1>12. CASE ~(limited < m)
  <2>1. d = t
    BY <1>12, Zenon
  <2> HIDE DEF d
  <2>2. s = [c |-> t, data |-> r.data]
    BY <1>1, <2>1, Zenon
  <2>3. limited > 0
    BY <1>3, <1>12
  <2>4. Dry(r.c) => Dry(t)
    BY <1>8, Zenon DEF Dry, InFrame, SameEnd, SameCond
  <2> QED BY <1>4, <1>9, <1>10, <2>1, <2>2, <2>3, <2>4, Zenon DEF ReadOk, s
<1> QED BY <1>11, <1>12, Zenon

FourSeqs(g, i, b, x) ==
  g \in Seq(Nat) /\ i \in Seq(Nat) /\ b \in Seq(Nat) /\ x \in Seq(Nat)

FourRegrouped(g, i, b, x) == g \o i \o b \o x = g \o (i \o (b \o x))

\* Regrouping four.
LEMMA FourInOrder ==
  ASSUME NEW g, NEW i, NEW b, NEW x, FourSeqs(g, i, b, x)
  PROVE  FourRegrouped(g, i, b, x)
<1>1. /\ g \in Seq(Nat) /\ i \in Seq(Nat) /\ b \in Seq(Nat) /\ x \in Seq(Nat)
      /\ g \o i \in Seq(Nat) /\ b \o x \in Seq(Nat)
  BY ConcatSeq, Zenon DEF FourSeqs
<1>2. AreSeqs(g \o i, b, x) /\ AreSeqs(g, i, b \o x)
  BY <1>1, Zenon DEF AreSeqs
<1>3. Regrouped(g \o i, b, x) /\ Regrouped(g, i, b \o x)
  BY ONLY <1>2, Regroup, Zenon
<1> QED BY <1>3, Zenon DEF Regrouped, FourRegrouped

\* The application gets the data x that a read took off the three queues.
ReadOff(g, x, i, b, y, i0, b0, y0) ==
  /\ FourSeqs(g, i, b, y) /\ FourSeqs(g, i0, b0, y0) /\ x \in Seq(Nat)
  /\ x \o (i \o (b \o y)) = i0 \o (b0 \o y0)

NoneLost(g, x, i, b, y, i0, b0, y0) == (g \o x) \o i \o b \o y = g \o i0 \o b0 \o y0

\* What was read and what is left are what there was.
LEMMA ReadOffKeeps ==
  ASSUME NEW g, NEW x, NEW i, NEW b, NEW y, NEW i0, NEW b0, NEW y0,
         ReadOff(g, x, i, b, y, i0, b0, y0)
  PROVE  NoneLost(g, x, i, b, y, i0, b0, y0)
<1>1. /\ g \in Seq(Nat) /\ i \in Seq(Nat) /\ b \in Seq(Nat) /\ y \in Seq(Nat)
      /\ x \in Seq(Nat) /\ x \o (i \o (b \o y)) = i0 \o (b0 \o y0)
  BY Zenon DEF ReadOff, FourSeqs
<1>2. b \o y \in Seq(Nat) /\ g \o x \in Seq(Nat)
  BY <1>1, ConcatSeq, Zenon
<1>3. i \o (b \o y) \in Seq(Nat)
  BY <1>1, <1>2, ConcatSeq, Zenon
<1>4. FourSeqs(g \o x, i, b, y) /\ FourSeqs(g, i0, b0, y0) /\ AreSeqs(g, x, i \o (b \o y))
  BY <1>1, <1>2, <1>3, Zenon DEF FourSeqs, AreSeqs, ReadOff
<1>5. /\ FourRegrouped(g \o x, i, b, y) /\ FourRegrouped(g, i0, b0, y0)
      /\ Regrouped(g, x, i \o (b \o y))
  BY ONLY <1>4, FourInOrder, Regroup, Zenon
<1> QED BY ONLY <1>1, <1>5, Zenon DEF FourRegrouped, Regrouped, NoneLost

\* A read through all the streams, m units asked for.
BufferedOk(c, s, n, m) ==
  /\ Sound(s.c, n) /\ ~s.c.closed
  /\ SameOut(c, s.c) /\ SameTls(c, s.c) /\ SameEnd(c, s.c) /\ SameReader(c, s.c)
  /\ s.data \in Seq(Nat) /\ Len(s.c.bag) <= 1
  /\ s.data \o (s.c.ibuf \o (s.c.bag \o s.c.rx)) = c.ibuf \o (c.bag \o c.rx)
  /\ WriteInv(c) => WriteInv(s.c)
  /\ s.data = <<>> /\ m > 0 => c.frozen \/ (s.c.ibuf = <<>> /\ Dry(s.c))

\* The data below are read only when nothing is left of what was pushed back.
BelowLast(i, k, a, y, b) ==
  /\ i \in Seq(Nat) /\ k \in 0..Len(i) /\ a \in Seq(Nat) /\ y \in Seq(Nat)
  /\ a \o y = b /\ (i = Front(i, k) \/ a = <<>>)

InOrder(i, k, a, y, b) == (Front(i, k) \o a) \o (Rest(i, k) \o y) = i \o b

\* First what was pushed back, then what is below.
LEMMA Pushed ==
  ASSUME NEW i, NEW k, NEW a, NEW y, NEW b, BelowLast(i, k, a, y, b)
  PROVE  InOrder(i, k, a, y, b)
<1>0. /\ i \in Seq(Nat) /\ k \in 0..Len(i) /\ a \in Seq(Nat) /\ y \in Seq(Nat)
      /\ a \o y = b /\ (i = Front(i, k) \/ a = <<>>)
  BY Zenon DEF BelowLast
<1> DEFINE f == Front(i, k)
           r == Rest(i, k)
<1>1. f \in Seq(Nat) /\ r \in Seq(Nat) /\ f \o r = i /\ Len(f) = k /\ Len(r) = Len(i) - k
  BY <1>0, CutType, Cut, Zenon
<1>2. i = f \/ a = <<>>
  BY <1>0, Zenon
<1> HIDE DEF f, r
<1>3. CASE i = f
  <2>1. Len(r) = 0
    BY <1>0, <1>1, <1>3, EmptyLen
  <2>2. r = <<>>
    BY <1>1, <2>1, EmptyLen, Zenon
  <2>3. r \o y = y
    BY <1>0, <2>2, ConcatEmpty, Zenon
  <2>4. (f \o a) \o y = f \o (a \o y)
    <3>1. AreSeqs(f, a, y)
      BY <1>0, <1>1, Zenon DEF AreSeqs
    <3>2. Regrouped(f, a, y)
      BY ONLY <3>1, Regroup, Zenon
    <3> QED BY <3>2, Zenon DEF Regrouped
  <2> QED BY <1>0, <1>3, <2>3, <2>4, Zenon DEF InOrder, f, r
<1>4. CASE a = <<>>
  <2>1. f \o a = f /\ b = y
    BY <1>0, <1>1, <1>4, ConcatEmpty, Zenon
  <2>2. (f \o r) \o y = f \o (r \o y)
    <3>1. AreSeqs(f, r, y)
      BY <1>0, <1>1, Zenon DEF AreSeqs
    <3>2. Regrouped(f, r, y)
      BY ONLY <3>1, Regroup, Zenon
    <3> QED BY <3>2, Zenon DEF Regrouped
  <2> QED BY <1>1, <2>1, <2>2, Zenon DEF InOrder, f, r
<1> QED BY <1>2, <1>3, <1>4, Zenon

\* The whole of a sequence is its front.
LEMMA FrontAll ==
  ASSUME NEW i \in Seq(Nat)
  PROVE  Front(i, Len(i)) = i
  BY DEF Front

\* evd_buffered_input_stream_read returns the data in order.
LEMMA BufferedReadStep ==
  ASSUME NEW c, NEW n \in Int, Sound(c, n), ~c.closed, Len(c.bag) <= 1, NEW m \in Nat
  PROVE  BufferedOk(c, evd_buffered_input_stream_read(c, m), n, m)
<1> DEFINE s == evd_buffered_input_stream_read(c, m)
           k == Least(Len(c.ibuf), m)
           r == IF k < m THEN evd_throttled_input_stream_read(c, m - k)
                ELSE [c |-> c, data |-> <<>>]
           left == Rest(c.ibuf, k)
           d == [r.c EXCEPT !.ibuf = Rest(@, k)]
<1>1. s = IF c.frozen THEN [c |-> c, data |-> <<>>]
          ELSE [c |-> d, data |-> Front(c.ibuf, k) \o r.data]
  BY Zenon DEF evd_buffered_input_stream_read, Read
<1>2. /\ c.ibuf \in Seq(Nat) /\ Len(c.ibuf) \in Nat /\ c.bag \in Seq(Nat) /\ c.rx \in Seq(Nat)
      /\ TailInv(c)
  BY EmptyLen, Zenon DEF Sound, Typed, InTyped
<1>3. k \in Nat /\ k <= Len(c.ibuf) /\ k <= m /\ (k = Len(c.ibuf) \/ k = m)
  BY <1>2, LeastOf, Zenon
<1> HIDE DEF s, k
<1>4. k \in 0..Len(c.ibuf)
  BY <1>2, <1>3
<1>5. left \in Seq(Nat) /\ Front(c.ibuf, k) \in Seq(Nat) /\ Len(Front(c.ibuf, k)) = k
  BY <1>2, <1>4, CutType, Zenon
<1>6. ReadCore(c, r, n) /\ (k < m => (r.data = <<>> => Dry(r.c)))
        /\ (~(k < m) => r.data = <<>>)
  <2>1. CASE k < m
    <3>1. r = evd_throttled_input_stream_read(c, m - k)
      BY <2>1, Zenon
    <3>2. m - k \in Nat /\ m - k > 0
      BY <1>3, <2>1
    <3> HIDE DEF r
    <3> QED BY <2>1, <3>1, <3>2, ThrottledReadStep, Zenon DEF ReadOk
  <2>2. CASE ~(k < m)
    <3>1. r = [c |-> c, data |-> <<>>]
      BY <2>2, Zenon
    <3> HIDE DEF r
    <3>2. r.c = c /\ r.data = <<>>
      BY <3>1
    <3> QED BY <2>2, <3>2, ReadNothing, Zenon
  <2> QED BY <2>1, <2>2, Zenon
<1> HIDE DEF r
<1>7. CASE c.frozen
  <2>1. s = [c |-> c, data |-> <<>>]
    BY <1>1, <1>7, Zenon
  <2>2. s.c = c /\ s.data = <<>>
    BY <2>1
  <2>3. <<>> \o (c.ibuf \o (c.bag \o c.rx)) = c.ibuf \o (c.bag \o c.rx)
    BY <1>2, ConcatSeq, ConcatEmpty, Zenon
  <2>4. SameOut(c, c) /\ SameTls(c, c) /\ SameEnd(c, c) /\ SameReader(c, c)
    BY Zenon DEF SameOut, SameTls, SameEnd, SameReader
  <2> QED BY <1>7, <2>2, <2>3, <2>4, EmptySeq, Zenon DEF BufferedOk, s
<1>8. CASE ~c.frozen
  <2>1. s = [c |-> d, data |-> Front(c.ibuf, k) \o r.data]
    BY <1>1, <1>8, Zenon
  <2>2. Typed(r.c) /\ SameReader(c, r.c) /\ r.c.ibuf = c.ibuf /\ Sound(r.c, n) /\ ~r.c.closed
          /\ SameEnd(c, r.c) /\ SameOut(c, r.c) /\ SameTls(c, r.c) /\ TailInv(r.c)
    BY <1>6, Zenon DEF ReadCore, Sound
  <2>3. Hands(r.c, d, left, r.c.got, r.c.reading, r.c.do_read, r.c.frozen)
    <3>1. d = [r.c EXCEPT !.ibuf = left]
      BY <2>2, Zenon
    <3> HIDE DEF d, left
    <3>2. d = [r.c EXCEPT !.ibuf = left, !.got = r.c.got, !.reading = r.c.reading,
                          !.do_read = r.c.do_read, !.frozen = r.c.frozen]
      BY <2>2, <3>1, ZenonT(60) DEF Typed, Shape, Fields
    <3>3. /\ r.c.got \in Seq(Nat) /\ r.c.reading \in 0..2 /\ r.c.do_read \in BOOLEAN
          /\ r.c.frozen \in BOOLEAN
      BY <2>2, Zenon DEF Typed, InTyped
    <3> QED BY <1>5, <3>2, <3>3, Zenon DEF Hands
  <2> HIDE DEF d, left
  <2>4. /\ InFrame(r.c, d) /\ d.rx = r.c.rx /\ d.bag = r.c.bag /\ d.read_src = r.c.read_src
        /\ d.sent = r.c.sent /\ d.ibuf = left /\ d.got = r.c.got /\ d.reading = r.c.reading
        /\ d.do_read = r.c.do_read /\ d.frozen = r.c.frozen
    <3>1. Handed(r.c, d, left, r.c.got, r.c.reading, r.c.do_read, r.c.frozen)
      BY <2>2, <2>3, HandStep, Zenon
    <3> QED BY <3>1, Zenon DEF Handed
  <2>5. c.ibuf = <<>> => left = <<>>
    <3>1. c.ibuf = <<>> => k = 0
      BY <1>2, <1>3, EmptyLen
    <3> QED BY <1>2, <3>1, CutNothing, Zenon DEF left
  <2>6. EagerOk(r.c, d)
    BY <2>2, <2>4, <2>5, Zenon DEF EagerOk, TailInv
  <2>7. Sound(d, n) /\ (WriteInv(r.c) => WriteInv(d)) /\ ~d.closed
    BY <2>2, <2>4, <2>6, InSound, Zenon
  <2>8. SameOut(c, d) /\ SameTls(c, d) /\ SameEnd(c, d) /\ SameReader(c, d)
    <3>1. SameOut(r.c, d) /\ SameTls(r.c, d) /\ SameEnd(r.c, d) /\ SameReader(r.c, d)
      BY <2>4, Zenon DEF InFrame, SameReader
    <3>2. SameOut(c, d)
      BY <2>2, <3>1, Zenon DEF SameOut
    <3>3. SameTls(c, d) /\ SameReader(c, d)
      BY <2>2, <3>1, Zenon DEF SameTls, SameReader
    <3>4. SameEnd(c, d)
      BY <2>2, <3>1, Zenon DEF SameEnd
    <3> QED BY <3>2, <3>3, <3>4, Zenon
  <2>9. s.c = d /\ s.data = Front(c.ibuf, k) \o r.data
    BY <2>1, ZenonT(60)
  <2>10. /\ r.data \in Seq(Nat) /\ r.c.bag \o r.c.rx \in Seq(Nat) /\ Len(r.c.bag) <= 1
         /\ r.data \o (r.c.bag \o r.c.rx) = c.bag \o c.rx /\ c.bag \o c.rx \in Seq(Nat)
    <3>1. r.c.bag \in Seq(Nat) /\ r.c.rx \in Seq(Nat)
      BY <2>2, Zenon DEF Typed, InTyped
    <3> QED BY <1>2, <1>6, <3>1, ConcatSeq, Zenon DEF ReadCore
  <2>11. s.data \o (d.ibuf \o (d.bag \o d.rx)) = c.ibuf \o (c.bag \o c.rx)
    <3>1. c.ibuf = Front(c.ibuf, k) \/ r.data = <<>>
      BY <1>2, <1>3, <1>6, FrontAll
    <3>2. (Front(c.ibuf, k) \o r.data) \o (Rest(c.ibuf, k) \o (r.c.bag \o r.c.rx))
            = c.ibuf \o (c.bag \o c.rx)
      <4> DEFINE i == c.ibuf
                 a == r.data
                 y == r.c.bag \o r.c.rx
                 b == c.bag \o c.rx
      <4>1. BelowLast(i, k, a, y, b)
        BY <1>2, <1>4, <2>10, <3>1, Zenon DEF BelowLast
      <4> HIDE DEF i, a, y, b
      <4>2. InOrder(i, k, a, y, b)
        BY ONLY <4>1, Pushed, Zenon
      <4> QED BY <4>2, Zenon DEF InOrder, i, a, y, b
    <3> QED BY <2>4, <2>9, <3>2, Zenon DEF left
  <2>12. s.data \in Seq(Nat) /\ Len(s.data) = k + Len(r.data)
    BY <1>5, <2>9, <2>10, ConcatSeq, Zenon
  <2>13. s.data = <<>> /\ m > 0 => d.ibuf = <<>> /\ Dry(d)
    <3> SUFFICES ASSUME s.data = <<>>, m > 0
                 PROVE  d.ibuf = <<>> /\ Dry(d)
      BY Zenon
    <3>1. Len(r.data) \in Nat /\ Len(s.data) = 0
      BY <2>10, EmptyLen, EmptySeq, Zenon
    <3>2. k = 0 /\ Len(r.data) = 0
      BY <1>3, <2>12, <3>1
    <3>3. r.data = <<>> /\ k < m /\ Len(c.ibuf) = 0
      <4>1. r.data = <<>>
        BY <2>10, <3>2, EmptyLen, Zenon
      <4>2. k < m /\ Len(c.ibuf) = 0
        BY <1>2, <1>3, <3>2
      <4> QED BY <4>1, <4>2, Zenon
    <3>4. d.ibuf = <<>>
      BY <1>2, <2>4, <2>5, <3>3, EmptyLen, Zenon
    <3>5. Dry(r.c)
      BY <1>6, <3>3, Zenon
    <3> QED BY <2>4, <3>4, <3>5, Zenon DEF Dry, InFrame, SameEnd, SameCond
  <2>14. WriteInv(c) => WriteInv(d)
    BY <1>6, <2>7, Zenon DEF ReadCore
  <2> QED BY <2>4, <2>7, <2>8, <2>9, <2>10, <2>11, <2>12, <2>13, <2>14, Zenon
          DEF BufferedOk, s
<1> QED BY <1>7, <1>8, Zenon

-----------------------------------------------------------------------------
\* The actions of the reader.

EagerHand(c, ibuf, reading) == Eager(c) => ibuf = <<>> /\ reading > 0

\* Changes of the reader's side of a connection that is open.
LEMMA HandSound ==
  ASSUME NEW c, NEW d, NEW ibuf, NEW got, NEW reading, NEW doread, NEW frozen,
         NEW n \in Int, Sound(c, n), ~c.closed,
         Hands(c, d, ibuf, got, reading, doread, frozen),
         EagerHand(c, ibuf, reading)
  PROVE  /\ Handed(c, d, ibuf, got, reading, doread, frozen)
         /\ Sound(d, n) /\ (WriteInv(c) => WriteInv(d)) /\ ~d.closed
<1>1. Typed(c) /\ TailInv(c)
  BY Zenon DEF Sound
<1>2. Handed(c, d, ibuf, got, reading, doread, frozen)
  BY <1>1, HandStep, Zenon
<1>3. EagerOk(c, d)
  BY <1>1, <1>2, Zenon DEF EagerHand, EagerOk, TailInv, Handed
<1>4. Sound(d, n) /\ (WriteInv(c) => WriteInv(d)) /\ ~d.closed
  BY <1>2, <1>3, InSound, Zenon DEF Handed
<1> QED BY <1>2, <1>4, Zenon

\* The numbers from first to last, wherever they are.
SameInput(c, d) ==
  /\ d.sent = c.sent /\ Len(d.bag) <= 1
  /\ d.got \o d.ibuf \o d.bag \o d.rx = c.got \o c.ibuf \o c.bag \o c.rx

\* The order of the data depends on the input and the output alone.
LEMMA InData ==
  ASSUME NEW c, NEW d, Data(c), SameOut(c, d), SameInput(c, d)
  PROVE  Data(d)
  BY Zenon DEF Data, SameOut, SameInput

\* do_read: e and x are the state and the data that the read returns.
DoReads(c, c0, e, x, d) ==
  /\ c.do_read
  /\ c0 = [c EXCEPT !.do_read = FALSE]
  /\ e = evd_buffered_input_stream_read(c0, c.reading).c
  /\ x = evd_buffered_input_stream_read(c0, c.reading).data
  /\ d = IF x = <<>> /\ e.sock THEN e
         ELSE IF x = <<>> THEN [e EXCEPT !.reading = 0]
         ELSE [e EXCEPT !.reading = c.setup.eager, !.do_read = c.setup.eager > 0,
                        !.got = @ \o x]

\* do_read gets everything that is to be had or leaves the read to a callback.
LEMMA DoReadKeeps ==
  ASSUME NEW c, NEW c0, NEW e, NEW x, NEW d, Inv(c), DoReads(c, c0, e, x, d)
  PROVE  Inv(d)
<1>1. /\ Sound(c, 0) /\ Data(c) /\ WriteInv(c) /\ Typed(c) /\ ~c.closed /\ TailInv(c)
      /\ StackInv(c)
  BY Zenon DEF Inv, Good, Sound, QuietInv, DoReads
<1>2. /\ c.ibuf \in Seq(Nat) /\ c.got \in Seq(Nat) /\ c.reading \in 0..2
      /\ c.frozen \in BOOLEAN /\ c.setup \in Setup /\ c.bag \in Seq(Nat) /\ c.rx \in Seq(Nat)
  BY <1>1, Zenon DEF Typed, InTyped, EndTyped
<1>3. Hands(c, c0, c.ibuf, c.got, c.reading, FALSE, c.frozen)
  <2>1. c0 = [c EXCEPT !.ibuf = c.ibuf, !.got = c.got, !.reading = c.reading,
                       !.do_read = FALSE, !.frozen = c.frozen]
    BY <1>1, ZenonT(60) DEF DoReads, Typed, Shape, Fields
  <2> QED BY <1>2, <2>1, Zenon DEF Hands
<1>4. EagerHand(c, c.ibuf, c.reading)
  BY <1>1, Zenon DEF TailInv, EagerHand
<1>5. /\ Sound(c0, 0) /\ WriteInv(c0) /\ ~c0.closed
      /\ Handed(c, c0, c.ibuf, c.got, c.reading, FALSE, c.frozen)
  <2>1. 0 \in Int
    OBVIOUS
  <2> QED BY <1>1, <1>3, <1>4, <2>1, HandSound, Zenon
<1>6. LET r == evd_buffered_input_stream_read(c0, c.reading)
      IN BufferedOk(c0, r, 0, c.reading) /\ e = r.c /\ x = r.data
  <2>1. Len(c0.bag) <= 1
    BY <1>1, <1>5, Zenon DEF Data, Handed
  <2>2. c.reading \in Nat /\ 0 \in Int
    BY <1>2
  <2> QED BY <1>5, <2>1, <2>2, BufferedReadStep, Zenon DEF DoReads
<1>7. /\ Sound(e, 0) /\ ~e.closed /\ WriteInv(e) /\ Typed(e)
      /\ SameOut(c, e) /\ SameTls(c, e) /\ SameEnd(c, e)
      /\ e.got = c.got /\ e.sent = c.sent /\ e.reading = c.reading
      /\ e.do_read = FALSE /\ e.frozen = c.frozen
      /\ x \in Seq(Nat) /\ Len(e.bag) <= 1
  <2>1. SameOut(c0, e) /\ SameTls(c0, e) /\ SameEnd(c0, e) /\ SameReader(c0, e)
    BY <1>6, Zenon DEF BufferedOk
  <2>2. SameOut(c, c0) /\ SameTls(c, c0) /\ SameEnd(c, c0)
    BY <1>5, Zenon DEF Handed, InFrame
  <2>3. SameOut(c, e) /\ SameTls(c, e)
    BY <2>1, <2>2, Zenon DEF SameOut, SameTls
  <2>4. SameEnd(c, e)
    BY <2>1, <2>2, Zenon DEF SameEnd
  <2>5. /\ e.got = c.got /\ e.sent = c.sent /\ e.reading = c.reading
        /\ e.do_read = FALSE /\ e.frozen = c.frozen
    BY <1>5, <2>1, Zenon DEF Handed, SameReader
  <2> QED BY <1>5, <1>6, <2>3, <2>4, <2>5, Zenon DEF BufferedOk, Sound
<1>8. /\ e.ibuf \in Seq(Nat) /\ e.bag \in Seq(Nat) /\ e.rx \in Seq(Nat)
  BY <1>7, Zenon DEF Typed, InTyped
<1>9. (c.got \o x) \o e.ibuf \o e.bag \o e.rx = c.got \o c.ibuf \o c.bag \o c.rx
  <2>1. x \o (e.ibuf \o (e.bag \o e.rx)) = c.ibuf \o (c.bag \o c.rx)
    BY <1>5, <1>6, Zenon DEF BufferedOk, Handed
  <2>2. ReadOff(c.got, x, e.ibuf, e.bag, e.rx, c.ibuf, c.bag, c.rx)
    BY <1>2, <1>7, <1>8, <2>1, Zenon DEF ReadOff, FourSeqs
  <2>3. NoneLost(c.got, x, e.ibuf, e.bag, e.rx, c.ibuf, c.bag, c.rx)
    BY ONLY <2>2, ReadOffKeeps, Zenon
  <2> QED BY ONLY <2>3, Zenon DEF NoneLost
<1>10. CASE x = <<>> /\ e.sock
  <2>1. d = e
    BY <1>10, Zenon DEF DoReads
  <2>2. c.got \o x = e.got
    BY <1>2, <1>7, <1>10, ConcatEmpty, Zenon
  <2>3. SameInput(c, d)
    BY <1>7, <1>9, <2>1, <2>2, Zenon DEF SameInput
  <2>5. Data(d)
    BY <1>1, <1>7, <2>1, <2>3, InData, Zenon
  <2>4. ReadInv(d)
    <3> SUFFICES ASSUME d.reading > 0, d.tls # "handshaking", d.sock, ~d.read_src
                 PROVE  ReadInv(d)
      BY Zenon DEF ReadInv
    <3>1. ~c.frozen
      BY <1>1, <1>7, <2>1, Zenon DEF StackInv, SameTls, SameEnd
    <3>2. d.ibuf = <<>> /\ Dry(d)
      BY <1>5, <1>6, <1>7, <1>10, <2>1, <3>1, Zenon DEF BufferedOk, Handed
    <3> QED BY <3>2, Zenon DEF Dry, ReadInv
  <2> QED BY <1>7, <2>1, <2>4, <2>5, Zenon DEF Inv, Good
<1>11. CASE x = <<>> /\ ~e.sock
  <2>1. d = [e EXCEPT !.reading = 0]
    BY <1>11, Zenon DEF DoReads
  <2>2. Hands(e, d, e.ibuf, e.got, 0, FALSE, e.frozen)
    <3>1. d = [e EXCEPT !.ibuf = e.ibuf, !.got = e.got, !.reading = 0,
                          !.do_read = FALSE, !.frozen = e.frozen]
      BY <1>7, <2>1, ZenonT(60) DEF Typed, Shape, Fields
    <3>2. 0 \in 0..2
      OBVIOUS
    <3> QED BY <1>2, <1>7, <1>8, <3>1, <3>2, Zenon DEF Hands
  <2>3. EagerHand(e, e.ibuf, 0)
    BY <1>7, <1>11, Zenon DEF Sound, TailInv, EagerHand
  <2>4. /\ Sound(d, 0) /\ WriteInv(d)
        /\ Handed(e, d, e.ibuf, e.got, 0, FALSE, e.frozen)
    <3>1. 0 \in Int
      OBVIOUS
    <3> QED BY <1>7, <2>2, <2>3, <3>1, HandSound, Zenon
  <2>5. c.got \o x = d.got
    BY <1>2, <1>7, <1>11, <2>4, ConcatEmpty, Zenon DEF Handed
  <2>6. SameOut(c, d)
    <3>1. SameOut(c, e) /\ SameOut(e, d)
      BY <1>7, <2>4, Zenon DEF Handed, InFrame
    <3> QED BY ONLY <3>1, Zenon DEF SameOut
  <2>7. Data(d)
    <3>1. SameInput(c, d)
      BY <1>7, <1>9, <2>4, <2>5, Zenon DEF Handed, SameInput
    <3> QED BY <1>1, <2>6, <3>1, InData, Zenon
  <2>8. ReadInv(d)
    BY <1>11, <2>4, Zenon DEF ReadInv, Handed, InFrame, SameEnd
  <2> QED BY <2>4, <2>7, <2>8, Zenon DEF Inv, Good
<1>12. CASE x # <<>>
  <2>1. d = [e EXCEPT !.reading = c.setup.eager, !.do_read = c.setup.eager > 0,
                        !.got = e.got \o x]
    BY <1>12, Zenon DEF DoReads
  <2>2. c.setup.eager \in 0..2
    BY <1>2, Zenon DEF Setup
  <2>3. c.got \o x \in Seq(Nat)
    BY <1>2, <1>7, ConcatSeq, Zenon
  <2> DEFINE again == c.setup.eager > 0
  <2>4. Hands(e, d, e.ibuf, c.got \o x, c.setup.eager, again, e.frozen)
    <3>1. d = [e EXCEPT !.ibuf = e.ibuf, !.got = c.got \o x,
                        !.reading = c.setup.eager, !.do_read = again,
                        !.frozen = e.frozen]
      BY <1>7, <2>1, ZenonT(60) DEF Typed, Shape, Fields
    <3>2. again \in BOOLEAN
      BY <2>2
    <3> QED BY <1>2, <1>7, <1>8, <2>2, <2>3, <3>1, <3>2, Zenon DEF Hands
  <2>5. EagerHand(e, e.ibuf, c.setup.eager)
    BY <1>7, Zenon DEF Sound, TailInv, Eager, SameEnd, EagerHand
  <2> HIDE DEF again
  <2>6. /\ Sound(d, 0) /\ WriteInv(d)
        /\ Handed(e, d, e.ibuf, c.got \o x, c.setup.eager, again, e.frozen)
    <3>1. 0 \in Int
      OBVIOUS
    <3> QED BY <1>7, <2>4, <2>5, <3>1, HandSound, ZenonT(60)
  <2>7. SameOut(c, d)
    <3>1. SameOut(c, e) /\ SameOut(e, d)
      BY <1>7, <2>6, Zenon DEF Handed, InFrame
    <3> QED BY ONLY <3>1, Zenon DEF SameOut
  <2>8. Data(d)
    <3>1. SameInput(c, d)
      BY <1>7, <1>9, <2>6, Zenon DEF Handed, SameInput
    <3> QED BY <1>1, <2>7, <3>1, InData, Zenon
  <2>9. ReadInv(d)
    BY <2>6, Zenon DEF ReadInv, Handed, again
  <2> QED BY <2>6, <2>8, <2>9, Zenon DEF Inv, Good
<1> QED BY <1>10, <1>11, <1>12, Zenon

\* The idle source do_read keeps the invariant.
LEMMA DoReadAction ==
  ASSUME IInv, do_read
  PROVE  IInv'
<1>1. \E c0, e, x : DoReads(conn, c0, e, x, conn')
  BY Zenon DEF do_read, DoReads
<1>2. Inv(conn')
  BY <1>1, DoReadKeeps, Zenon DEF IInv
<1> QED BY <1>2, Zenon DEF IInv

\* evd_buffered_input_stream_thaw keeps the invariant, and restores ReadInv.
LEMMA ThawStep ==
  ASSUME NEW c, NEW n \in Int, Sound(c, n), ~c.closed
  PROVE  LET d == evd_buffered_input_stream_thaw(c)
         IN /\ Sound(d, n) /\ (Data(c) => Data(d)) /\ ReadInv(d) /\ (WriteInv(c) => WriteInv(d))
            /\ SameEnd(c, d) /\ SameOut(c, d) /\ SameIdle(c, d) /\ SameCond(c, d)
            /\ d.read_src = c.read_src /\ d.reading = c.reading
<1> DEFINE d == evd_buffered_input_stream_thaw(c)
           again == c.do_read \/ c.reading > 0
<1>1. Typed(c) /\ TailInv(c)
  BY Zenon DEF Sound
<1>2. /\ c.ibuf \in Seq(Nat) /\ c.got \in Seq(Nat) /\ c.reading \in 0..2
      /\ c.do_read \in BOOLEAN
  BY <1>1, Zenon DEF Typed, InTyped
<1>3. Hands(c, d, c.ibuf, c.got, c.reading, again, FALSE)
  <2>1. d = [c EXCEPT !.frozen = FALSE, !.do_read = again]
    BY Zenon DEF evd_buffered_input_stream_thaw
  <2>2. again \in BOOLEAN
    BY <1>2
  <2> HIDE DEF d, again
  <2>3. d = [c EXCEPT !.ibuf = c.ibuf, !.got = c.got, !.reading = c.reading,
                      !.do_read = again, !.frozen = FALSE]
    BY <1>1, <2>1, ZenonT(60) DEF Typed, Shape, Fields
  <2> QED BY <1>2, <2>2, <2>3, Zenon DEF Hands
<1>4. EagerHand(c, c.ibuf, c.reading)
  BY <1>1, Zenon DEF TailInv, EagerHand
<1> HIDE DEF d, again
<1>5. /\ Handed(c, d, c.ibuf, c.got, c.reading, again, FALSE)
      /\ Sound(d, n) /\ (WriteInv(c) => WriteInv(d))
  BY <1>3, <1>4, HandSound, Zenon
<1>6. /\ SameEnd(c, d) /\ SameOut(c, d) /\ SameIdle(c, d) /\ SameCond(c, d)
  BY <1>5, Zenon DEF Handed, InFrame
<1>7. ReadInv(d)
  BY <1>5, Zenon DEF ReadInv, Handed, again
<1>8. Data(c) => Data(d)
  BY <1>5, <1>6, Zenon DEF Data, Handed, SameOut
<1>9. d.read_src = c.read_src /\ d.reading = c.reading
  BY <1>5, Zenon DEF Handed
<1> QED BY <1>5, <1>6, <1>7, <1>8, <1>9, Zenon DEF d

\* What is handed was input in this order, and a read goes on unless frozen.
HandsInOrder(c, d, ibuf, got, reading, doread, frozen) ==
  /\ ~c.closed /\ Hands(c, d, ibuf, got, reading, doread, frozen)
  /\ EagerHand(c, ibuf, reading)
  /\ got \o ibuf \o c.bag \o c.rx = c.got \o c.ibuf \o c.bag \o c.rx
  /\ reading > 0 /\ ~doread => frozen

\* Data handed in order keep the invariant.
LEMMA HandInv ==
  ASSUME NEW c, NEW d, NEW ibuf, NEW got, NEW reading, NEW doread, NEW frozen,
         Inv(c), HandsInOrder(c, d, ibuf, got, reading, doread, frozen)
  PROVE  Inv(d)
<1>0. /\ ~c.closed /\ Hands(c, d, ibuf, got, reading, doread, frozen)
      /\ EagerHand(c, ibuf, reading)
      /\ got \o ibuf \o c.bag \o c.rx = c.got \o c.ibuf \o c.bag \o c.rx
      /\ reading > 0 /\ ~doread => frozen
  BY Zenon DEF HandsInOrder
<1>1. Sound(c, 0) /\ Data(c) /\ WriteInv(c) /\ StackInv(c) /\ 0 \in Int
  BY DEF Inv, Good, Sound
<1>2. /\ Handed(c, d, ibuf, got, reading, doread, frozen)
      /\ Sound(d, 0) /\ WriteInv(d)
  BY <1>0, <1>1, HandSound, Zenon
<1>3. SameOut(c, d) /\ SameEnd(c, d) /\ SameTls(c, d)
  BY <1>2, Zenon DEF Handed, InFrame
<1>4. Data(d)
  <2>1. Len(c.bag) <= 1
    BY <1>1, Zenon DEF Data
  <2>2. SameInput(c, d)
    BY <1>0, <1>2, <2>1, Zenon DEF Handed, SameInput
  <2> QED BY <1>1, <1>3, <2>2, InData, Zenon
<1>5. ReadInv(d)
  <2> SUFFICES ASSUME d.reading > 0, d.tls # "handshaking", d.sock, ~d.do_read
               PROVE  FALSE
    BY Zenon DEF ReadInv
  <2>1. d.frozen
    BY <1>0, <1>2, Zenon DEF Handed
  <2> QED BY <1>2, <2>1, Zenon DEF Sound, StackInv
<1> QED BY <1>2, <1>4, <1>5, Zenon DEF Inv, Good

\* evd_buffered_input_stream_read_async keeps the invariant.
LEMMA ReadAsyncAction ==
  ASSUME IInv, evd_buffered_input_stream_read_async
  PROVE  IInv'
<1>1. Sound(conn, 0) /\ Typed(conn) /\ TailInv(conn)
  BY Zenon DEF IInv, Inv, Good, Sound
<1>2. ~conn.closed /\ conn.reading = 0
  BY Zenon DEF evd_buffered_input_stream_read_async
<1>3. PICK n \in 1..2 : conn' = [conn EXCEPT !.reading = n, !.do_read = ~conn.frozen]
  BY Zenon DEF evd_buffered_input_stream_read_async
<1> DEFINE now == ~conn.frozen
<1>4. conn' = [conn EXCEPT !.ibuf = conn.ibuf, !.got = conn.got, !.reading = n,
                           !.do_read = now, !.frozen = conn.frozen]
  BY <1>1, <1>3, ZenonT(60) DEF Typed, Shape, Fields
<1>5. /\ conn.ibuf \in Seq(Nat) /\ conn.got \in Seq(Nat) /\ conn.frozen \in BOOLEAN
      /\ n \in 0..2 /\ now \in BOOLEAN
  <2>1. conn.ibuf \in Seq(Nat) /\ conn.got \in Seq(Nat) /\ conn.frozen \in BOOLEAN
    BY <1>1, Zenon DEF Typed, InTyped
  <2>2. n \in 0..2
    OBVIOUS
  <2>3. now \in BOOLEAN
    BY <2>1, Zenon
  <2> QED BY <2>1, <2>2, <2>3, Zenon
<1>6. now => ~conn.frozen
  BY Zenon
<1>7. ~now => conn.frozen
  BY Zenon
<1> HIDE DEF now
<1>8. Hands(conn, conn', conn.ibuf, conn.got, n, now, conn.frozen)
  BY <1>4, <1>5, Zenon DEF Hands
<1>9. EagerHand(conn, conn.ibuf, n)
  <2>1. ~(conn.reading > 0)
    BY <1>2
  <2> QED BY <1>1, <1>2, <2>1, Zenon DEF TailInv, EagerHand
<1>10. HandsInOrder(conn, conn', conn.ibuf, conn.got, n, now, conn.frozen)
  BY <1>2, <1>7, <1>8, <1>9, Zenon DEF HandsInOrder
<1>11. Inv(conn')
  BY <1>10, HandInv, Zenon DEF IInv
<1> QED BY <1>11, Zenon DEF IInv

\* The application pushes back what it got last.
Unreads(c, d, l, again) ==
  d = [c EXCEPT !.ibuf = <<c.got[l]>>, !.got = Front(c.got, l - 1), !.frozen = FALSE,
                !.do_read = again]

\* Pushing back what was got last keeps the invariant.
LEMMA UnreadKeeps ==
  ASSUME NEW c, NEW d, NEW l, NEW again, Inv(c), ~c.closed, c.setup.eager = 0,
         c.got # <<>>, c.ibuf = <<>>, l = Len(c.got), Unreads(c, d, l, again),
         again = (c.do_read \/ c.reading > 0)
  PROVE  Inv(d)
<1>1. Typed(c)
  BY Zenon DEF Inv, Good, Sound
<1>2. /\ c.got \in Seq(Nat) /\ c.reading \in 0..2 /\ c.do_read \in BOOLEAN
      /\ c.bag \in Seq(Nat) /\ c.rx \in Seq(Nat) /\ c.ibuf \in Seq(Nat)
  BY <1>1, Zenon DEF Typed, InTyped
<1>3. l \in 1..Len(c.got)
  BY <1>2, EmptyLen
<1>4. /\ Front(c.got, l - 1) \in Seq(Nat) /\ <<c.got[l]>> \in Seq(Nat)
      /\ Front(c.got, l - 1) \o <<c.got[l]>> = c.got
  <2>1. Front(c.got, l) = Front(c.got, l - 1) \o <<c.got[l]>> /\ <<c.got[l]>> \in Seq(Nat)
    BY <1>2, <1>3, CutLast, Zenon
  <2>2. l - 1 \in 0..Len(c.got)
    BY <1>2, <1>3, EmptyLen
  <2>3. Front(c.got, l) = c.got
    BY <1>2, FrontAll, Zenon
  <2> QED BY <1>2, <2>1, <2>2, <2>3, CutType, Zenon
<1>5. again \in BOOLEAN
  BY <1>2
<1> DEFINE x == <<c.got[l]>>
           g == Front(c.got, l - 1)
<1>6. d = [c EXCEPT !.ibuf = x, !.got = g, !.reading = c.reading, !.do_read = again,
                    !.frozen = FALSE]
  BY <1>1, ZenonT(60) DEF Unreads, Typed, Shape, Fields
<1>7. x \in Seq(Nat) /\ g \in Seq(Nat) /\ g \o x = c.got
  BY <1>4, Zenon
<1> HIDE DEF x, g
<1>8. Hands(c, d, x, g, c.reading, again, FALSE)
  BY <1>2, <1>5, <1>6, <1>7, Zenon DEF Hands
<1>9. EagerHand(c, x, c.reading)
  <2>1. ~(c.setup.eager > 0)
    OBVIOUS
  <2> QED BY <2>1, Zenon DEF EagerHand, Eager
<1>10. g \o x \o c.bag \o c.rx = c.got \o c.ibuf \o c.bag \o c.rx
  BY <1>2, <1>7, ConcatEmpty, Zenon
<1>11. c.reading > 0 => again
  BY Zenon
<1>12. HandsInOrder(c, d, x, g, c.reading, again, FALSE)
  BY <1>8, <1>9, <1>10, <1>11, Zenon DEF HandsInOrder
<1> QED BY <1>12, HandInv, Zenon

\* evd_buffered_input_stream_unread keeps the invariant.
LEMMA UnreadAction ==
  ASSUME IInv, evd_buffered_input_stream_unread
  PROVE  IInv'
<1> DEFINE c == [conn EXCEPT !.ibuf = <<conn.got[Len(conn.got)]>>,
                             !.got = Front(conn.got, Len(conn.got) - 1)]
           again == conn.do_read \/ conn.reading > 0
<1>1. /\ ~conn.closed /\ conn.setup.eager = 0 /\ conn.got # <<>> /\ conn.ibuf = <<>>
      /\ conn' = evd_buffered_input_stream_thaw(c)
  BY Zenon DEF evd_buffered_input_stream_unread
<1>2. Typed(conn)
  BY Zenon DEF IInv, Inv, Good, Sound
<1>3. conn' = [c EXCEPT !.frozen = FALSE, !.do_read = c.do_read \/ c.reading > 0]
  BY <1>1, Zenon DEF evd_buffered_input_stream_thaw
<1>4. c.do_read = conn.do_read /\ c.reading = conn.reading
  BY <1>2 DEF Typed, Shape, Fields
<1>5. conn' = [c EXCEPT !.frozen = FALSE, !.do_read = again]
  BY <1>3, <1>4, Zenon
<1> HIDE DEF again
<1>6. Unreads(conn, conn', Len(conn.got), again)
  BY <1>2, <1>5 DEF Unreads, Typed, Shape, Fields
<1>7. Inv(conn')
  BY <1>1, <1>6, UnreadKeeps, Zenon DEF IInv, again
<1> QED BY <1>7, Zenon DEF IInv

-----------------------------------------------------------------------------
\* Steps on the way to the end: flushing, shutting down, locking, hanging up.

\* What such a step sets, by name.
Ends(c, d, flush, forced, delayed, locked, orphan, held, shut, blocked, hup, edge, sock, csrc, ref) ==
  /\ flush \in {"none", "waiting", "base", "done", "failed"} /\ forced \in BOOLEAN
  /\ delayed \in BOOLEAN /\ locked \in BOOLEAN /\ orphan \in Nat /\ held \in BOOLEAN
  /\ shut \in BOOLEAN /\ blocked \in BOOLEAN /\ hup \in BOOLEAN /\ edge \in BOOLEAN
  /\ sock \in BOOLEAN /\ csrc \in BOOLEAN /\ ref \in Int
  /\ d = [c EXCEPT !.flush = flush, !.forced = forced, !.delayed_close = delayed,
                   !.close_locked = locked, !.orphan = orphan, !.held = held, !.shut = shut,
                   !.blocked = blocked, !.hup = hup, !.edge = edge, !.sock = sock,
                   !.close_src = csrc, !.ref = ref]

\* What it leaves alone.
EndFrame(c, d) ==
  /\ Typed(d) /\ SameIn(c, d) /\ SameTls(c, d) /\ SameCond(c, d)
  /\ d.connected = c.connected /\ d.setup = c.setup /\ d.closed = c.closed
  /\ d.obuf = c.obuf /\ d.wire = c.wire /\ d.written = c.written
  /\ d.auto_flush = c.auto_flush /\ d.out_budget = c.out_budget /\ d.room = c.room
  /\ d.write_src = c.write_src

Ended(c, d, flush, forced, delayed, locked, orphan, held, shut, blocked, hup, edge, sock, csrc, ref) ==
  /\ EndFrame(c, d)
  /\ d.flush = flush /\ d.forced = forced /\ d.delayed_close = delayed
  /\ d.close_locked = locked /\ d.orphan = orphan /\ d.held = held /\ d.shut = shut
  /\ d.blocked = blocked /\ d.hup = hup /\ d.edge = edge /\ d.sock = sock
  /\ d.close_src = csrc /\ d.ref = ref

\* Setting the fields of the end leaves all else alone.
LEMMA EndStep ==
  ASSUME NEW c, NEW d, NEW flush, NEW forced, NEW delayed, NEW locked, NEW orphan, NEW held,
         NEW shut, NEW blocked, NEW hup, NEW edge, NEW sock, NEW csrc, NEW ref, Typed(c),
         Ends(c, d, flush, forced, delayed, locked, orphan, held, shut, blocked, hup, edge,
              sock, csrc, ref)
  PROVE  Ended(c, d, flush, forced, delayed, locked, orphan, held, shut, blocked, hup, edge,
               sock, csrc, ref)
<1>0. d = [c EXCEPT !.flush = flush, !.forced = forced, !.delayed_close = delayed,
                   !.close_locked = locked, !.orphan = orphan, !.held = held, !.shut = shut,
                   !.blocked = blocked, !.hup = hup, !.edge = edge, !.sock = sock,
                   !.close_src = csrc, !.ref = ref]
  BY Zenon DEF Ends
<1>1. Shape(d)
  <2>1. DOMAIN d = Fields
    BY <1>0, Zenon DEF Typed, Shape
  <2>2. d = [f \in DOMAIN d |-> d[f]]
    BY <1>0, Zenon DEF Typed, Shape
  <2> QED BY <2>1, <2>2, Zenon DEF Shape
<1>2. /\ SameIn(c, d) /\ SameTls(c, d) /\ SameCond(c, d)
      /\ d.connected = c.connected /\ d.setup = c.setup /\ d.closed = c.closed
  BY <1>0 DEF Typed, Shape, Fields, SameIn, SameTls, SameCond
<1>3. /\ d.obuf = c.obuf /\ d.wire = c.wire /\ d.written = c.written
      /\ d.auto_flush = c.auto_flush /\ d.out_budget = c.out_budget /\ d.room = c.room
      /\ d.write_src = c.write_src
  BY <1>0 DEF Typed, Shape, Fields
<1>4. /\ d.flush = flush /\ d.forced = forced /\ d.delayed_close = delayed
      /\ d.close_locked = locked /\ d.orphan = orphan /\ d.held = held /\ d.shut = shut
      /\ d.blocked = blocked /\ d.hup = hup /\ d.edge = edge /\ d.sock = sock
      /\ d.close_src = csrc /\ d.ref = ref
  BY <1>0 DEF Typed, Shape, Fields
<1>5. OutTyped(d) /\ EndTyped(d) /\ IdleTyped(d)
  BY <1>2, <1>3, <1>4, ZenonT(60) DEF Ends, Typed, OutTyped, EndTyped, IdleTyped, SameCond
<1>6. Typed(d)
  BY <1>1, <1>2, <1>5, InSame, TlsSame, Zenon DEF Typed
<1> QED BY <1>2, <1>3, <1>4, <1>6, Zenon DEF Ended, EndFrame

\* The step leads on, never back, and what the eager application relies on only
\* changes when the connection is ended by force.
Onward(c, d) ==
  /\ d.sock => c.sock
  /\ c.hup => d.hup
  /\ c.edge => d.edge
  /\ c.forced => d.forced
  /\ ~d.forced => d.held = c.held /\ d.sock = c.sock
  /\ d.close_src => c.close_src \/ CanClose(c)
  /\ d.flush \in {"waiting", "base"} => c.flush \in {"waiting", "base"} \/ ~c.closed

\* A step of the end keeps the connection sound if the references match,
LEMMA FirmEndSound ==
  ASSUME NEW c, NEW d, NEW m, QuietInv(c), StackInv(c), TailInv(c) \/ d.forced,
         EndFrame(c, d), Onward(c, d), Refs(d, m), EndInv(d)
  PROVE  Sound(d, m) /\ (Data(c) => Data(d)) /\ Keeps(c, d)
<1>1. Typed(d) /\ SameIn(c, d) /\ SameTls(c, d) /\ SameCond(c, d)
  BY Zenon DEF EndFrame
<1>2. QuietInv(d)
  <2>1. QuietInv(c) /\ d.closed = c.closed /\ d.write_src = c.write_src
    BY Zenon DEF EndFrame
  <2>2. d.sock => c.sock
    BY Zenon DEF Onward
  <2>3. d.flush \in {"waiting", "base"} => c.flush \in {"waiting", "base"} \/ ~c.closed
    BY Zenon DEF Onward
  <2> QED BY <1>1, <2>1, <2>2, <2>3, Zenon DEF QuietInv, SameIn, SameTls
<1>3. StackInv(d)
  <2>1. StackInv(c) /\ d.auto_flush = c.auto_flush /\ (d.sock => c.sock)
        /\ d.setup = c.setup
    BY Zenon DEF EndFrame, Onward
  <2>2. d.hs_rx <= d.flights
    BY <1>1, <2>1, Zenon DEF StackInv, SameTls
  <2> QED BY <1>1, <2>1, <2>2, Zenon DEF StackInv, SameIn, SameTls, SameCond, Tls
<1>4. TailInv(d)
  <2> SUFFICES ASSUME Eager(d)
               PROVE  /\ d.held /\ d.ibuf = <<>>
                      /\ ~d.closed => d.sock /\ d.reading > 0
                      /\ d.closed \/ d.close_src => d.hup /\ d.rx = <<>> /\ d.bag = <<>>
    BY Zenon DEF TailInv
  <2>1. ~d.forced /\ d.setup = c.setup /\ d.closed = c.closed
    BY Zenon DEF Eager, EndFrame
  <2>2. /\ ~c.forced /\ d.held = c.held /\ d.sock = c.sock /\ (c.hup => d.hup)
        /\ d.close_src => c.close_src \/ CanClose(c)
    BY <2>1, Zenon DEF Onward
  <2>3. Eager(c)
    BY <2>1, <2>2, Zenon DEF Eager, Tls
  <2>4. TailInv(c)
    BY <2>1, Zenon
  <2> QED BY <1>1, <2>1, <2>2, <2>3, <2>4, Zenon DEF TailInv, CanClose, SameIn
<1>5. Data(c) => Data(d)
  BY Zenon DEF Data, EndFrame, SameIn
<1>6. Keeps(c, d)
  <2>1. (d.sock => c.sock) /\ (c.hup => d.hup) /\ (c.edge => d.edge)
    BY Zenon DEF Onward
  <2>2. ReadInv(c) => ReadInv(d)
    BY <1>1, <2>1, Zenon DEF ReadInv, SameIn, SameTls, SameCond
  <2>3. WriteInv(c) => WriteInv(d)
    <3>1. d.obuf = c.obuf /\ d.room = c.room /\ d.write_src = c.write_src
      BY Zenon DEF EndFrame
    <3> QED BY <1>1, <2>1, <3>1, Zenon DEF WriteInv, SameTls, SameCond
  <2> QED BY <2>2, <2>3, Zenon DEF Keeps
<1> QED BY <1>1, <1>2, <1>3, <1>4, <1>5, <1>6, Zenon DEF Sound

\* the same from Sound.
LEMMA EndSound ==
  ASSUME NEW c, NEW d, NEW n, NEW m, Sound(c, n), EndFrame(c, d), Onward(c, d),
         Refs(d, m), EndInv(d)
  PROVE  Sound(d, m) /\ (Data(c) => Data(d)) /\ Keeps(c, d)
  BY FirmEndSound, Zenon DEF Sound

\* The references, in numbers.
LEMMA RefsSum ==
  ASSUME NEW c, NEW d, NEW n \in Int, NEW m \in Int, Typed(c), Typed(d), Refs(c, n),
         SameIn(c, d), d.write_src = c.write_src,
         d.ref = c.ref + Count(d.held) - Count(c.held) + Count(d.close_src)
                 - Count(c.close_src) + d.orphan - c.orphan
                 + Count(d.flush # "none") - Count(c.flush # "none") + m - n
  PROVE  Refs(d, m)
<1>1. d.read_src = c.read_src /\ c.ref \in Int /\ d.ref \in Int
  BY Zenon DEF SameIn, Typed, IdleTyped
<1>2. /\ Count(c.held) \in Int /\ Count(c.read_src) \in Int /\ Count(c.write_src) \in Int
      /\ Count(c.close_src) \in Int /\ Count(c.flush # "none") \in Int
      /\ Count(d.held) \in Int /\ Count(d.close_src) \in Int
      /\ Count(d.flush # "none") \in Int
  BY CountType, Zenon
<1>3. c.orphan \in Nat /\ d.orphan \in Nat
  BY Zenon DEF Typed, EndTyped
<1> QED BY <1>1, <1>2, <1>3 DEF Refs, Sources

-----------------------------------------------------------------------------
\* Writing and flushing.

\* A write leaves the data on the wire or at the end of the buffer.
Written(c, m, data) ==
  /\ OutFrame(c, m) /\ m.flush = c.flush
  /\ m.wire \o m.obuf = (c.wire \o c.obuf) \o data
  /\ (c.sock /\ ~c.auto_flush => c.tls = "handshaking") /\ WriteInv(c) => WriteInv(m)

\* evd_buffered_output_stream_write, with or without a flush.
LEMMA BufferedWriteStep ==
  ASSUME NEW c, OutReady(c), NEW data \in Seq(Nat), NEW m,
         m = evd_buffered_output_stream_write(c, data)
  PROVE  Written(c, m, data)
<1>1. c.obuf \in Seq(Nat) /\ c.wire \in Seq(Nat)
        /\ c.flush \in {"none", "waiting", "base", "done", "failed"}
  BY Zenon DEF OutReady, Typed, OutTyped
<1>2. CASE c.obuf # <<>> \/ ~c.auto_flush
  <2> DEFINE buf == c.obuf \o data
  <2>1. m = [c EXCEPT !.obuf = buf]
    BY <1>2, Zenon DEF evd_buffered_output_stream_write, evd_buffered_output_stream_fill
  <2>2. buf \in Seq(Nat)
    BY <1>1, ConcatSeq, Zenon
  <2>3. (c.wire \o c.obuf) \o data = c.wire \o buf
    <3>1. AreSeqs(c.wire, c.obuf, data)
      BY <1>1, Zenon DEF AreSeqs
    <3>2. Regrouped(c.wire, c.obuf, data)
      BY ONLY <3>1, Regroup, Zenon
    <3> QED BY <3>2, Zenon DEF Regrouped
  <2> HIDE DEF buf
  <2>4. Buffers(c, m, buf, c.flush)
    BY <2>1, ZenonT(60) DEF Buffers, OutReady, Typed, Shape, Fields
  <2>5. /\ OutFrame(c, m) /\ m.obuf = buf /\ m.flush = c.flush /\ m.wire = c.wire
        /\ m.room = c.room /\ m.write_src = c.write_src /\ SameCond(c, m)
    BY <1>1, <2>2, <2>4, BufferStep
  <2>6. SameEnd(c, m) /\ SameTls(c, m)
    BY <2>5, Zenon DEF OutFrame
  <2>7. (c.sock /\ ~c.auto_flush => c.tls = "handshaking") /\ WriteInv(c) => WriteInv(m)
    BY <1>2, <2>5, <2>6, Zenon DEF WriteInv, SameEnd, SameTls, SameCond
  <2> QED BY <2>3, <2>5, <2>7, Zenon DEF Written
<1>3. CASE c.obuf = <<>> /\ c.auto_flush
  <2> DEFINE w == evd_throttled_output_stream_write(c, data)
             left == Rest(data, w.n)
  <2>1. m = [w.c EXCEPT !.obuf = w.c.obuf \o left]
    BY <1>3, Zenon DEF evd_buffered_output_stream_write, evd_buffered_output_stream_fill
  <2>2. Wrote(c, w, data)
    BY ThrottledWriteStep, Zenon
  <2> HIDE DEF w
  <2>3. /\ OutFrame(c, w.c) /\ w.n \in 0..Len(data) /\ w.c.obuf = <<>> /\ w.c.flush = c.flush
        /\ w.c.wire = c.wire \o Front(data, w.n)
    BY <1>3, <2>2, Zenon DEF Wrote
  <2>4. OutReady(w.c)
    BY <2>3, OutFrameReady, Zenon
  <2>5. left \in Seq(Nat)
    BY <2>3, CutType, Zenon
  <2>6. (c.wire \o Front(data, w.n)) \o left = c.wire \o data
    BY <1>1, <2>3, Move, ZenonT(60)
  <2>7. w.n = Len(data) => left = <<>>
    BY CutNothing, Zenon
  <2> HIDE DEF left
  <2>8. w.c.obuf \o left = left
    BY <2>3, <2>5, ConcatEmpty, Zenon
  <2>9. Buffers(w.c, m, left, c.flush)
    <3>1. m = [w.c EXCEPT !.obuf = left]
      BY <2>1, <2>8, Zenon
    <3>2. m = [w.c EXCEPT !.obuf = left, !.flush = w.c.flush]
      BY <2>4, <3>1, ZenonT(60) DEF OutReady, Typed, Shape, Fields
    <3> QED BY <2>3, <3>2, Zenon DEF Buffers
  <2>10. /\ OutFrame(w.c, m) /\ m.obuf = left /\ m.flush = c.flush /\ m.wire = w.c.wire
         /\ m.room = w.c.room /\ m.write_src = w.c.write_src /\ SameCond(w.c, m)
    BY <1>1, <2>4, <2>5, <2>9, BufferStep
  <2>11. OutFrame(c, m)
    BY <2>3, <2>10, OutFrameTrans, Zenon
  <2>12. m.wire \o m.obuf = (c.wire \o c.obuf) \o data
    BY <1>1, <1>3, <2>3, <2>6, <2>10, ConcatEmpty, Zenon
  <2>13. Sent(m)
    <3>1. m.tls = c.tls /\ m.sock = c.sock /\ m.hup = c.hup
      BY <2>11, Zenon DEF OutFrame, SameTls, SameEnd
    <3>2. w.n < Len(data) \/ w.n = Len(data)
      BY <2>3, EmptyLen
    <3> QED BY <2>2, <2>7, <2>10, <3>1, <3>2, Zenon DEF Wrote, Sent, Waits, SameCond
  <2> QED BY <2>10, <2>11, <2>12, <2>13, SentWrites, Zenon DEF Written
<1>4. c.auto_flush \in BOOLEAN
  BY Zenon DEF OutReady, Typed, OutTyped
<1> QED BY <1>2, <1>3, <1>4, Zenon

\* What the output functions leave of the invariant.
LEMMA OutSound ==
  ASSUME NEW c, NEW d, NEW n \in Int, Sound(c, n), OutFrame(c, d), ~c.closed, EndInv(d),
         d.flush = c.flush
  PROVE  Sound(d, n) /\ (ReadInv(c) => ReadInv(d))
<1>0. Typed(c) /\ Typed(d) /\ Refs(c, n) /\ StackInv(c) /\ TailInv(c)
  BY Zenon DEF Sound, OutFrame
<1>1. SameIn(c, d) /\ SameTls(c, d) /\ SameEnd(c, d) /\ SameIdle(c, d)
  BY Zenon DEF OutFrame
<1>2. Refs(d, n)
  <2>1. /\ d.held = c.held /\ d.read_src = c.read_src /\ d.close_src = c.close_src
        /\ d.orphan = c.orphan /\ d.ref = c.ref + Count(d.write_src) - Count(c.write_src)
    BY <1>1, Zenon DEF OutFrame, SameEnd, SameIn, SameIdle
  <2>2. /\ Count(c.held) \in Int /\ Count(c.read_src) \in Int /\ Count(c.write_src) \in Int
        /\ Count(c.close_src) \in Int /\ Count(c.flush # "none") \in Int
        /\ Count(d.write_src) \in Int
    BY CountType, Zenon
  <2>3. c.orphan \in Int
    BY <1>0 DEF Typed, EndTyped
  <2> QED BY <1>0, <2>1, <2>2, <2>3 DEF Refs, Sources
<1>3. QuietInv(d)
  BY <1>1, Zenon DEF QuietInv, SameEnd
<1>4. StackInv(d)
  <2>1. d.sock => d.cond = d.s_cond
    BY Zenon DEF OutFrame
  <2>2. d.auto_flush = c.auto_flush
    BY Zenon DEF OutFrame
  <2> QED BY <1>0, <1>1, <2>1, <2>2, Zenon DEF StackInv, SameEnd, SameIn, SameTls, Tls
<1>5. TailInv(d)
  <2>1. Eager(d) = Eager(c)
    BY <1>1, Zenon DEF SameEnd, Eager, Tls
  <2> QED BY <1>0, <1>1, <2>1, Zenon DEF TailInv, SameIn, SameEnd, SameIdle
<1>6. ReadInv(c) => ReadInv(d)
  <2>1. "in" \in d.s_cond => "in" \in c.s_cond
    BY Zenon DEF OutFrame
  <2> QED BY <1>1, <2>1, Zenon DEF ReadInv, SameIn, SameEnd, SameTls
<1> QED BY <1>0, <1>2, <1>3, <1>4, <1>5, <1>6, Zenon DEF Sound

\* The units written are counted.
Counts(m, d, k) == d = [m EXCEPT !.written = k]

\* Counting the units written is in no other invariant.
LEMMA CountStep ==
  ASSUME NEW m, NEW d, NEW k \in Nat, NEW n, Sound(m, n), Counts(m, d, k)
  PROVE  Sound(d, n) /\ Keeps(m, d) /\ SameIn(m, d) /\ d.written = k /\ d.wire = m.wire
         /\ d.obuf = m.obuf
<1>0. Typed(m) /\ Refs(m, n) /\ QuietInv(m) /\ StackInv(m) /\ EndInv(m) /\ TailInv(m)
  BY Zenon DEF Sound
<1>1. Shape(d)
  BY <1>0, Zenon DEF Counts, Typed, Shape
<1>2. /\ SameIn(m, d) /\ SameTls(m, d) /\ SameEnd(m, d) /\ SameIdle(m, d) /\ SameCond(m, d)
      /\ d.ref = m.ref
  BY <1>0 DEF Counts, Typed, Shape, Fields, SameIn, SameTls, SameEnd, SameIdle, SameCond
<1>3. /\ d.obuf = m.obuf /\ d.wire = m.wire /\ d.auto_flush = m.auto_flush
      /\ d.flush = m.flush /\ d.out_budget = m.out_budget /\ d.room = m.room
      /\ d.write_src = m.write_src /\ d.written = k
  BY <1>0 DEF Counts, Typed, Shape, Fields
<1>4. OutTyped(d) /\ IdleTyped(d)
  BY <1>0, <1>2, <1>3, Zenon DEF Typed, OutTyped, IdleTyped, SameIdle, SameCond
<1>5. Typed(d)
  BY <1>0, <1>1, <1>2, <1>4, InSame, TlsSame, EndSame, Zenon DEF Typed
<1>6. Refs(d, n)
  BY <1>0, <1>2, <1>3, Zenon DEF Refs, Sources, SameIn, SameEnd, SameIdle
<1>7. QuietInv(d)
  BY <1>0, <1>2, <1>3, Zenon DEF QuietInv, SameIn, SameEnd, SameTls
<1>8. StackInv(d)
  BY <1>0, <1>2, <1>3, Zenon DEF StackInv, SameIn, SameEnd, SameTls, SameCond, Tls
<1>9. EndInv(d)
  BY <1>0, <1>2, <1>3, Zenon DEF EndInv, SameEnd
<1>10. TailInv(d)
  <2>1. Eager(d) = Eager(m)
    BY <1>2, Zenon DEF SameEnd, Eager, Tls
  <2> QED BY <1>0, <1>2, <2>1, Zenon DEF TailInv, SameIn, SameEnd, SameIdle
<1>11. Keeps(m, d)
  BY <1>2, <1>3, Zenon DEF Keeps, ReadInv, WriteInv, SameIn, SameEnd, SameTls, SameCond
<1> QED BY <1>2, <1>3, <1>5, <1>6, <1>7, <1>8, <1>9, <1>10, <1>11, Zenon DEF Sound

\* A write keeps the invariant.
LEMMA WriteKeeps ==
  ASSUME NEW c, NEW m, NEW d, NEW data, NEW n \in Nat, Inv(c), ~c.closed, ~c.shut,
         c.flush = "none", data = [i \in 1..n |-> c.written + i],
         m = evd_buffered_output_stream_write(c, data), Counts(m, d, m.written + n)
  PROVE  Inv(d)
<1>1. Sound(c, 0) /\ Data(c) /\ ReadInv(c) /\ WriteInv(c) /\ StackInv(c) /\ EndInv(c)
  BY Zenon DEF Inv, Good, Sound
<1>2. c.written \in Nat /\ OutReady(c) /\ 0 \in Int
  <2>1. c.written \in Nat
    BY <1>1, Zenon DEF Sound, Typed, OutTyped
  <2> QED BY <1>1, <2>1, OutReadyOf
<1>3. data \in Seq(Nat) /\ Numbers(c.written) \o data = Numbers(c.written + n)
  BY <1>2, NumbersGrow, ZenonT(60)
<1>4. Written(c, m, data)
  BY <1>2, <1>3, BufferedWriteStep, Zenon
<1>5. /\ OutFrame(c, m) /\ m.flush = c.flush
      /\ m.wire \o m.obuf = Numbers(c.written + n)
  BY <1>1, <1>3, <1>4, Zenon DEF Written, Data
<1>6. SameEnd(c, m) /\ SameIn(c, m) /\ m.written = c.written
  BY <1>5, Zenon DEF OutFrame
<1>7. EndInv(m)
  BY <1>1, <1>5, <1>6, Zenon DEF EndInv, SameEnd
<1>8. Sound(m, 0) /\ ReadInv(m)
  BY <1>1, <1>2, <1>5, <1>7, OutSound, Zenon
<1>9. WriteInv(m)
  BY <1>1, <1>4, Zenon DEF Written, StackInv
<1>10. m.written + n \in Nat
  BY <1>2, <1>6
<1>11. /\ Sound(d, 0) /\ Keeps(m, d) /\ SameIn(m, d) /\ d.written = m.written + n
       /\ d.wire = m.wire /\ d.obuf = m.obuf
  <2> DEFINE k == m.written + n
  <2>1. k \in Nat /\ Counts(m, d, k)
    BY <1>10, Zenon
  <2> HIDE DEF k
  <2>2. Sound(d, 0) /\ Keeps(m, d) /\ SameIn(m, d) /\ d.written = k /\ d.wire = m.wire
        /\ d.obuf = m.obuf
    BY <1>8, <2>1, CountStep, ZenonT(60)
  <2> QED BY <2>2, Zenon DEF k
<1>12. Data(d)
  <2>1. d.wire \o d.obuf = Numbers(d.written)
    BY <1>5, <1>6, <1>11, Zenon
  <2> QED BY <1>1, <1>6, <1>11, <2>1, Zenon DEF Data, SameIn
<1> QED BY <1>8, <1>9, <1>11, <1>12, Zenon DEF Inv, Good, Keeps

\* The application's write keeps the invariant.
LEMMA WriteAction ==
  ASSUME IInv, Write
  PROVE  IInv'
<1>1. ~conn.closed /\ ~conn.shut /\ conn.flush = "none"
  BY Zenon DEF Write
<1>2. PICK n \in 1..Least(2, conn.setup.out - conn.written) :
        conn' = [evd_buffered_output_stream_write(
                   conn, [i \in 1..n |-> conn.written + i]) EXCEPT !.written = @ + n]
  BY Zenon DEF Write
<1> DEFINE data == [i \in 1..n |-> conn.written + i]
           m == evd_buffered_output_stream_write(conn, data)
<1>3. n \in Nat
  OBVIOUS
<1>4. Counts(m, conn', m.written + n)
  BY <1>2, Zenon DEF Counts
<1>5. Inv(conn')
  <2>1. data = [i \in 1..n |-> conn.written + i]
    BY Zenon
  <2>2. m = evd_buffered_output_stream_write(conn, data)
    BY Zenon
  <2> HIDE DEF data, m
  <2> QED BY <1>1, <1>3, <1>4, <2>1, <2>2, WriteKeeps, Zenon DEF IInv
<1> QED BY <1>5, Zenon DEF IInv

\* The flush is the application's own end of the connection.
FlushesAndShuts(c, d) ==
  d = [evd_buffered_output_stream_flush_async(c) EXCEPT !.ref = @ + 1, !.forced = TRUE]

\* A flush before the shutdown keeps the invariant.
LEMMA FlushAndShutdownKeeps ==
  ASSUME NEW c, NEW d, Inv(c), ~c.closed, c.flush = "none", ~c.shut, FlushesAndShuts(c, d)
  PROVE  Inv(d)
<1> DEFINE g == evd_buffered_output_stream_flush(c)
           f == g.c
           fl == IF ~g.ok THEN "failed" ELSE IF f.obuf # <<>> THEN "waiting" ELSE "base"
<1>1. Sound(c, 0) /\ Data(c) /\ ReadInv(c) /\ 0 \in Int
  BY DEF Inv, Good
<1>2. Flushed(c, f) /\ Sent(f)
  BY <1>1, OutReadyOf, FlushStep, Zenon
<1>3. d = [[f EXCEPT !.flush = fl] EXCEPT !.ref = @ + 1, !.forced = TRUE]
  BY Zenon DEF FlushesAndShuts, evd_buffered_output_stream_flush_async
<1>4. fl \in {"waiting", "base", "failed"} /\ (fl = "base" => f.obuf = <<>>)
  BY Zenon
<1> HIDE DEF f, fl
<1>5. Sound(f, 0) /\ Data(f) /\ ReadInv(f) /\ WriteInv(f)
  BY <1>1, <1>2, FlushedSound, FlushedData, FlushedReads, SentWrites, Zenon
<1>6. f.flush = "none" /\ ~f.shut /\ ~f.closed
  BY <1>2, Zenon DEF Flushed, OutFrame, SameEnd
<1>7. Typed(f) /\ EndTyped(f) /\ EndInv(f) /\ f.ref \in Int /\ f.close_src \in BOOLEAN
  BY <1>5, Zenon DEF Sound, Typed, IdleTyped
<1> DEFINE r == f.ref + 1
<1>8. r \in Int
  BY <1>7
<1>9. d = [[f EXCEPT !.flush = fl] EXCEPT !.ref = r, !.forced = TRUE]
  <2>1. [f EXCEPT !.flush = fl].ref = f.ref
    BY <1>7 DEF Typed, Shape, Fields
  <2> QED BY <1>3, <2>1, Zenon
<1> HIDE DEF r
<1>10. Ends(f, d, fl, TRUE, f.delayed_close, f.close_locked, f.orphan, f.held, f.shut,
            f.blocked, f.hup, f.edge, f.sock, f.close_src, r)
  <2>1. d = [f EXCEPT !.flush = fl, !.forced = TRUE, !.delayed_close = f.delayed_close,
                   !.close_locked = f.close_locked, !.orphan = f.orphan, !.held = f.held,
                   !.shut = f.shut, !.blocked = f.blocked, !.hup = f.hup, !.edge = f.edge,
                   !.sock = f.sock, !.close_src = f.close_src, !.ref = r]
    BY <1>7, <1>9, ZenonT(60) DEF Typed, Shape, Fields
  <2> QED BY <1>4, <1>7, <1>8, <2>1, Zenon DEF Ends, EndTyped
<1>11. Ended(f, d, fl, TRUE, f.delayed_close, f.close_locked, f.orphan, f.held, f.shut,
            f.blocked, f.hup, f.edge, f.sock, f.close_src, r)
  BY <1>7, <1>10, EndStep, Zenon
<1>12. EndFrame(f, d) /\ Onward(f, d)
  BY <1>6, <1>11, Zenon DEF Ended, Onward
<1>13. EndInv(d)
  <2>1. d.obuf = f.obuf
    BY <1>12, Zenon DEF EndFrame
  <2> QED BY <1>4, <1>6, <1>7, <1>11, <2>1, Zenon DEF Ended, EndInv
<1>14. Refs(d, 0)
  <2>1. Count(f.flush # "none") = 0 /\ Count(d.flush # "none") = 1
    BY <1>4, <1>6, <1>11, Zenon DEF Ended, Count
  <2>2. d.ref = f.ref + 1 /\ d.held = f.held /\ d.close_src = f.close_src /\ d.orphan = f.orphan
    BY <1>11, Zenon DEF Ended, r
  <2>3. Count(f.held) \in Int /\ Count(f.close_src) \in Int /\ f.orphan \in Int
    BY <1>7, CountType DEF EndTyped
  <2>4. d.ref = f.ref + Count(d.held) - Count(f.held) + Count(d.close_src)
                 - Count(f.close_src) + d.orphan - f.orphan
                 + Count(d.flush # "none") - Count(f.flush # "none") + 0 - 0
    BY <1>7, <2>1, <2>2, <2>3
  <2>5. SameIn(f, d) /\ Typed(d) /\ d.write_src = f.write_src /\ Refs(f, 0)
    BY <1>5, <1>12, Zenon DEF EndFrame, Sound
  <2> QED BY <1>1, <1>7, <2>4, <2>5, RefsSum, Zenon
<1>15. Sound(d, 0) /\ Data(d) /\ Keeps(f, d)
  BY <1>5, <1>12, <1>13, <1>14, EndSound, Zenon
<1> QED BY <1>5, <1>15, Zenon DEF Inv, Good, Keeps

\* evd_connection_flush_and_shutdown keeps the invariant.
LEMMA FlushAndShutdownAction ==
  ASSUME IInv, evd_connection_flush_and_shutdown
  PROVE  IInv'
<1>1. ~conn.closed /\ conn.flush = "none" /\ ~conn.shut /\ FlushesAndShuts(conn, conn')
  BY Zenon DEF evd_connection_flush_and_shutdown, FlushesAndShuts
<1>2. Inv(conn')
  BY <1>1, FlushAndShutdownKeeps, Zenon DEF IInv
<1> QED BY <1>2, Zenon DEF IInv

\* A step of the end, as a whole action.
LEMMA EndKeeps ==
  ASSUME NEW c, NEW d, Inv(c), EndFrame(c, d), Onward(c, d), EndInv(d), Refs(d, 0)
  PROVE  Inv(d)
<1>1. Sound(c, 0) /\ Data(c) /\ ReadInv(c) /\ WriteInv(c)
  BY Zenon DEF Inv, Good
<1>2. Sound(d, 0) /\ Data(d) /\ Keeps(c, d)
  BY <1>1, EndSound, Zenon
<1> QED BY <1>1, <1>2, Zenon DEF Inv, Good, Keeps

\* References that no one takes or drops still match.
LEMMA RefsSame ==
  ASSUME NEW c, NEW d, NEW n, Refs(c, n), EndFrame(c, d), d.held = c.held,
         d.close_src = c.close_src, d.orphan = c.orphan, d.ref = c.ref,
         (d.flush # "none") = (c.flush # "none")
  PROVE  Refs(d, n)
<1>1. d.read_src = c.read_src /\ d.write_src = c.write_src
  BY Zenon DEF EndFrame, SameIn
<1>2. Count(d.flush # "none") = Count(c.flush # "none")
  BY Zenon
<1> QED BY <1>1, <1>2, Zenon DEF Refs, Sources

\* evd_connection_close_in_idle keeps the invariant.
LEMMA IdleInv ==
  ASSUME NEW c, Inv(c), CanClose(c)
  PROVE  Inv(evd_connection_close_in_idle(c))
<1> DEFINE d == evd_connection_close_in_idle(c)
<1>1. Sound(c, 0) /\ Data(c) /\ ReadInv(c) /\ WriteInv(c) /\ Typed(c) /\ 0 \in Int
  BY DEF Inv, Good, Sound
<1>2. IdleFrame(c, d)
  BY <1>1, CloseInIdleStep, Zenon
<1> HIDE DEF d
<1>3. Sound(d, 0) /\ Data(d) /\ Keeps(c, d)
  BY <1>1, <1>2, IdleSound, IdleKeeps, Zenon
<1>4. Inv(d)
  BY <1>1, <1>3, Zenon DEF Inv, Good, Keeps
<1> QED BY <1>4, Zenon DEF d

\* The streams below answer the flush.
BaseFlushed(c, d) == d = [c EXCEPT !.flush = "done"]

\* The answer of the streams below keeps the invariant.
LEMMA BaseFlushedKeeps ==
  ASSUME NEW c, NEW d, Inv(c), BaseFlushed(c, d), c.flush = "base"
  PROVE  Inv(d)
<1>1. Typed(c) /\ EndTyped(c) /\ EndInv(c) /\ Refs(c, 0) /\ c.ref \in Int
      /\ c.close_src \in BOOLEAN /\ c.flush \in {"none", "waiting", "base", "done", "failed"}
  BY Zenon DEF Inv, Good, Sound, Typed, IdleTyped, OutTyped
<1>2. Ends(c, d, "done", c.forced, c.delayed_close, c.close_locked, c.orphan, c.held, c.shut,
           c.blocked, c.hup, c.edge, c.sock, c.close_src, c.ref)
  <2>1. d = [c EXCEPT !.flush = "done", !.forced = c.forced, !.delayed_close = c.delayed_close,
                      !.close_locked = c.close_locked, !.orphan = c.orphan,
                      !.held = c.held, !.shut = c.shut, !.blocked = c.blocked,
                      !.hup = c.hup, !.edge = c.edge, !.sock = c.sock,
                      !.close_src = c.close_src, !.ref = c.ref]
    BY <1>1, ZenonT(60) DEF BaseFlushed, Typed, Shape, Fields
  <2> QED BY <1>1, <2>1, Zenon DEF Ends, EndTyped
<1>3. Ended(c, d, "done", c.forced, c.delayed_close, c.close_locked, c.orphan, c.held, c.shut,
           c.blocked, c.hup, c.edge, c.sock, c.close_src, c.ref)
  BY <1>1, <1>2, EndStep, Zenon
<1>4. EndFrame(c, d) /\ Onward(c, d)
  BY <1>3, Zenon DEF Ended, Onward
<1>5. d.obuf = c.obuf
  BY <1>4, Zenon DEF EndFrame
<1>6. EndInv(d)
  BY <1>1, <1>3, <1>5, Zenon DEF Ended, EndInv
<1>7. Refs(d, 0)
  <2>1. /\ d.held = c.held /\ d.close_src = c.close_src /\ d.orphan = c.orphan
        /\ d.ref = c.ref /\ (d.flush # "none") = (c.flush # "none")
    BY <1>3, Zenon DEF Ended
  <2> QED BY <1>1, <1>4, <2>1, RefsSame, Zenon
<1> QED BY <1>4, <1>6, <1>7, EndKeeps, Zenon

\* The application locks the close, which is a use of force,
Locks(c, d) == d = [c EXCEPT !.forced = TRUE, !.close_locked = TRUE]

\* Locking the close keeps the invariant.
LEMMA LockKeeps ==
  ASSUME NEW c, NEW d, Inv(c), Locks(c, d), ~c.closed
  PROVE  Inv(d)
<1>1. Typed(c) /\ EndTyped(c) /\ EndInv(c) /\ Refs(c, 0) /\ c.ref \in Int
      /\ c.close_src \in BOOLEAN /\ c.flush \in {"none", "waiting", "base", "done", "failed"}
  BY Zenon DEF Inv, Good, Sound, Typed, IdleTyped, OutTyped
<1>2. Ends(c, d, c.flush, TRUE, c.delayed_close, TRUE, c.orphan, c.held, c.shut, c.blocked,
           c.hup, c.edge, c.sock, c.close_src, c.ref)
  <2>1. d = [c EXCEPT !.flush = c.flush, !.forced = TRUE, !.delayed_close = c.delayed_close,
                      !.close_locked = TRUE, !.orphan = c.orphan, !.held =
                      c.held, !.shut = c.shut, !.blocked = c.blocked, !.hup =
                      c.hup, !.edge = c.edge, !.sock = c.sock, !.close_src =
                      c.close_src, !.ref = c.ref]
    BY <1>1, ZenonT(60) DEF Locks, Typed, Shape, Fields
  <2> QED BY <1>1, <2>1, Zenon DEF Ends, EndTyped
<1>3. Ended(c, d, c.flush, TRUE, c.delayed_close, TRUE, c.orphan, c.held, c.shut, c.blocked,
           c.hup, c.edge, c.sock, c.close_src, c.ref)
  BY <1>1, <1>2, EndStep, Zenon
<1>4. EndFrame(c, d) /\ Onward(c, d)
  BY <1>3, Zenon DEF Ended, Onward
<1>5. d.obuf = c.obuf
  BY <1>4, Zenon DEF EndFrame
<1>6. EndInv(d)
  BY <1>1, <1>3, <1>5, Zenon DEF Ended, EndInv
<1>7. Refs(d, 0)
  <2>1. /\ d.held = c.held /\ d.close_src = c.close_src /\ d.orphan = c.orphan
        /\ d.ref = c.ref /\ (d.flush # "none") = (c.flush # "none")
    BY <1>3, Zenon DEF Ended
  <2> QED BY <1>1, <1>4, <2>1, RefsSame, Zenon
<1> QED BY <1>4, <1>6, <1>7, EndKeeps, Zenon

\* and unlocks it.
Unlocks(c, d) == d = [c EXCEPT !.close_locked = FALSE]

\* Unlocking it keeps the invariant.
LEMMA UnlockKeeps ==
  ASSUME NEW c, NEW d, Inv(c), Unlocks(c, d), c.close_locked
  PROVE  Inv(d)
<1>1. Typed(c) /\ EndTyped(c) /\ EndInv(c) /\ Refs(c, 0) /\ c.ref \in Int
      /\ c.close_src \in BOOLEAN /\ c.flush \in {"none", "waiting", "base", "done", "failed"}
  BY Zenon DEF Inv, Good, Sound, Typed, IdleTyped, OutTyped
<1>2. Ends(c, d, c.flush, c.forced, c.delayed_close, FALSE, c.orphan, c.held, c.shut, c.blocked,
           c.hup, c.edge, c.sock, c.close_src, c.ref)
  <2>1. d = [c EXCEPT !.flush = c.flush, !.forced = c.forced, !.delayed_close = c.delayed_close,
                      !.close_locked = FALSE, !.orphan = c.orphan, !.held =
                      c.held, !.shut = c.shut, !.blocked = c.blocked, !.hup =
                      c.hup, !.edge = c.edge, !.sock = c.sock, !.close_src =
                      c.close_src, !.ref = c.ref]
    BY <1>1, ZenonT(60) DEF Unlocks, Typed, Shape, Fields
  <2> QED BY <1>1, <2>1, Zenon DEF Ends, EndTyped
<1>3. Ended(c, d, c.flush, c.forced, c.delayed_close, FALSE, c.orphan, c.held, c.shut, c.blocked,
           c.hup, c.edge, c.sock, c.close_src, c.ref)
  BY <1>1, <1>2, EndStep, Zenon
<1>4. EndFrame(c, d) /\ Onward(c, d)
  BY <1>3, Zenon DEF Ended, Onward
<1>5. d.obuf = c.obuf
  BY <1>4, Zenon DEF EndFrame
<1>6. EndInv(d)
  BY <1>1, <1>3, <1>5, Zenon DEF Ended, EndInv
<1>7. Refs(d, 0)
  <2>1. /\ d.held = c.held /\ d.close_src = c.close_src /\ d.orphan = c.orphan
        /\ d.ref = c.ref /\ (d.flush # "none") = (c.flush # "none")
    BY <1>3, Zenon DEF Ended
  <2> QED BY <1>1, <1>4, <2>1, RefsSame, Zenon
<1> QED BY <1>4, <1>6, <1>7, EndKeeps, Zenon

\* The socket is gone.
SocketGone(c, d) == d = [c EXCEPT !.forced = TRUE, !.sock = FALSE]

\* Losing the socket keeps the invariant.
LEMMA SocketGoneKeeps ==
  ASSUME NEW c, NEW d, Inv(c), SocketGone(c, d), c.sock
  PROVE  Inv(d)
<1>1. Typed(c) /\ EndTyped(c) /\ EndInv(c) /\ Refs(c, 0) /\ c.ref \in Int
      /\ c.close_src \in BOOLEAN /\ c.flush \in {"none", "waiting", "base", "done", "failed"}
  BY Zenon DEF Inv, Good, Sound, Typed, IdleTyped, OutTyped
<1>2. Ends(c, d, c.flush, TRUE, c.delayed_close, c.close_locked, c.orphan, c.held, c.shut,
           c.blocked, c.hup, c.edge, FALSE, c.close_src, c.ref)
  <2>1. d = [c EXCEPT !.flush = c.flush, !.forced = TRUE, !.delayed_close = c.delayed_close,
                      !.close_locked = c.close_locked, !.orphan = c.orphan,
                      !.held = c.held, !.shut = c.shut, !.blocked = c.blocked,
                      !.hup = c.hup, !.edge = c.edge, !.sock = FALSE,
                      !.close_src = c.close_src, !.ref = c.ref]
    BY <1>1, ZenonT(60) DEF SocketGone, Typed, Shape, Fields
  <2> QED BY <1>1, <2>1, Zenon DEF Ends, EndTyped
<1>3. Ended(c, d, c.flush, TRUE, c.delayed_close, c.close_locked, c.orphan, c.held, c.shut,
           c.blocked, c.hup, c.edge, FALSE, c.close_src, c.ref)
  BY <1>1, <1>2, EndStep, Zenon
<1>4. EndFrame(c, d) /\ Onward(c, d)
  BY <1>3, Zenon DEF Ended, Onward
<1>5. d.obuf = c.obuf
  BY <1>4, Zenon DEF EndFrame
<1>6. EndInv(d)
  BY <1>1, <1>3, <1>5, Zenon DEF Ended, EndInv
<1>7. Refs(d, 0)
  <2>1. /\ d.held = c.held /\ d.close_src = c.close_src /\ d.orphan = c.orphan
        /\ d.ref = c.ref /\ (d.flush # "none") = (c.flush # "none")
    BY <1>3, Zenon DEF Ended
  <2> QED BY <1>1, <1>4, <2>1, RefsSame, Zenon
<1> QED BY <1>4, <1>6, <1>7, EndKeeps, Zenon

\* The peer hangs up.
HangsUp(c, d) == d = [c EXCEPT !.hup = TRUE, !.edge = TRUE]

\* The peer's hang-up keeps the invariant.
LEMMA HangsUpKeeps ==
  ASSUME NEW c, NEW d, Inv(c), HangsUp(c, d), c.sock
  PROVE  Inv(d)
<1>1. Typed(c) /\ EndTyped(c) /\ EndInv(c) /\ Refs(c, 0) /\ c.ref \in Int
      /\ c.close_src \in BOOLEAN /\ c.flush \in {"none", "waiting", "base", "done", "failed"}
  BY Zenon DEF Inv, Good, Sound, Typed, IdleTyped, OutTyped
<1>2. Ends(c, d, c.flush, c.forced, c.delayed_close, c.close_locked, c.orphan, c.held, c.shut,
           c.blocked, TRUE, TRUE, c.sock, c.close_src, c.ref)
  <2>1. d = [c EXCEPT !.flush = c.flush, !.forced = c.forced, !.delayed_close = c.delayed_close,
                      !.close_locked = c.close_locked, !.orphan = c.orphan,
                      !.held = c.held, !.shut = c.shut, !.blocked = c.blocked,
                      !.hup = TRUE, !.edge = TRUE, !.sock = c.sock, !.close_src
                      = c.close_src, !.ref = c.ref]
    BY <1>1, ZenonT(60) DEF HangsUp, Typed, Shape, Fields
  <2> QED BY <1>1, <2>1, Zenon DEF Ends, EndTyped
<1>3. Ended(c, d, c.flush, c.forced, c.delayed_close, c.close_locked, c.orphan, c.held, c.shut,
           c.blocked, TRUE, TRUE, c.sock, c.close_src, c.ref)
  BY <1>1, <1>2, EndStep, Zenon
<1>4. EndFrame(c, d) /\ Onward(c, d)
  BY <1>3, Zenon DEF Ended, Onward
<1>5. d.obuf = c.obuf
  BY <1>4, Zenon DEF EndFrame
<1>6. EndInv(d)
  BY <1>1, <1>3, <1>5, Zenon DEF Ended, EndInv
<1>7. Refs(d, 0)
  <2>1. /\ d.held = c.held /\ d.close_src = c.close_src /\ d.orphan = c.orphan
        /\ d.ref = c.ref /\ (d.flush # "none") = (c.flush # "none")
    BY <1>3, Zenon DEF Ended
  <2> QED BY <1>1, <1>4, <2>1, RefsSame, Zenon
<1> QED BY <1>4, <1>6, <1>7, EndKeeps, Zenon

\* evd_buffered_output_stream_on_base_stream_flushed keeps the invariant.
LEMMA BaseFlushedAction ==
  ASSUME IInv, evd_buffered_output_stream_on_base_stream_flushed
  PROVE  IInv'
<1>1. Inv(conn')
  BY BaseFlushedKeeps, Zenon
     DEF IInv, BaseFlushed, evd_buffered_output_stream_on_base_stream_flushed
<1> QED BY <1>1, Zenon DEF IInv

\* evd_connection_lock_close keeps the invariant.
LEMMA LockAction ==
  ASSUME IInv, evd_connection_lock_close
  PROVE  IInv'
<1>1. ~conn.closed /\ conn' = [conn EXCEPT !.forced = TRUE, !.close_locked = TRUE]
  <2>1. Typed(conn)
    BY Zenon DEF IInv, Inv, Good, Sound
  <2> QED BY <2>1, ZenonT(60) DEF evd_connection_lock_close, Typed, Shape, Fields
<1>2. Inv(conn')
  BY <1>1, LockKeeps, Zenon DEF IInv, Locks
<1> QED BY <1>2, Zenon DEF IInv

\* evd_connection_unlock_close, with the close put off, keeps the invariant.
LEMMA UnlockAction ==
  ASSUME IInv, evd_connection_unlock_close
  PROVE  IInv'
<1> DEFINE c == [conn EXCEPT !.close_locked = FALSE]
<1>1. conn.close_locked /\ Typed(conn) /\ EndInv(conn)
  BY Zenon DEF evd_connection_unlock_close, IInv, Inv, Good, Sound
<1>2. conn' = IF c.delayed_close THEN evd_connection_close_in_idle(c) ELSE c
  BY Zenon DEF evd_connection_unlock_close
<1>3. c.forced = conn.forced
  BY <1>1 DEF Typed, Shape, Fields
<1>4. Unlocks(conn, c)
  BY Zenon DEF Unlocks
<1> HIDE DEF c
<1>5. Inv(c)
  BY <1>1, <1>4, UnlockKeeps, Zenon DEF IInv
<1>6. CanClose(c)
  BY <1>1, <1>3, Zenon DEF EndInv, CanClose, Eager
<1>7. Inv(conn')
  BY <1>2, <1>5, <1>6, IdleInv, Zenon
<1> QED BY <1>7, Zenon DEF IInv

\* evd_connection_socket_on_status_changed keeps the invariant.
LEMMA StatusChangedAction ==
  ASSUME IInv, evd_connection_socket_on_status_changed
  PROVE  IInv'
<1> DEFINE c == [conn EXCEPT !.sock = FALSE, !.forced = TRUE]
<1>1. conn.sock /\ Typed(conn)
  BY Zenon DEF evd_connection_socket_on_status_changed, IInv, Inv, Good, Sound
<1>2. conn' = IF c.connected THEN evd_connection_close_in_idle(c) ELSE c
  BY Zenon DEF evd_connection_socket_on_status_changed
<1>3. c.forced /\ SocketGone(conn, c)
  BY <1>1, ZenonT(60) DEF Typed, Shape, Fields, SocketGone
<1> HIDE DEF c
<1>4. Inv(c)
  BY <1>1, <1>3, SocketGoneKeeps, Zenon DEF IInv
<1>5. CanClose(c)
  BY <1>3, Zenon DEF CanClose, Eager
<1>6. Inv(conn')
  BY <1>2, <1>4, <1>5, IdleInv, Zenon
<1> QED BY <1>6, Zenon DEF IInv

\* The peer's close keeps the invariant.
LEMMA PeerClosesAction ==
  ASSUME IInv, PeerCloses
  PROVE  IInv'
<1>1. Inv(conn')
  BY HangsUpKeeps, Zenon DEF IInv, PeerCloses, HangsUp
<1> QED BY <1>1, Zenon DEF IInv

-----------------------------------------------------------------------------
\* Closing.

\* evd_connection_close_internal before it flushes, and after.
Unsourced(c, x) == x = [c EXCEPT !.ref = c.ref - Sources(c), !.write_src = TRUE]

Shuts(f, d, fl, r) ==
  d = [f EXCEPT !.flush = fl, !.ref = r, !.do_read = FALSE, !.reading = 0, !.closed = TRUE,
                !.connected = FALSE, !.sock = FALSE, !.close_src = FALSE, !.read_src = FALSE,
                !.write_src = FALSE, !.tls = "off"]

\* A close drops the timers and their references first,
LEMMA UnsourcedStep ==
  ASSUME NEW c, NEW x, OutReady(c), Unsourced(c, x)
  PROVE  /\ OutReady(x) /\ SameIn(c, x) /\ SameTls(c, x) /\ SameEnd(c, x) /\ SameIdle(c, x)
         /\ x.obuf = c.obuf /\ x.wire = c.wire /\ x.written = c.written /\ x.flush = c.flush
         /\ x.write_src = TRUE /\ x.ref = c.ref - Sources(c)
<1>0. Typed(c)
  BY Zenon DEF OutReady
<1>1. Shape(x)
  BY <1>0, Zenon DEF Unsourced, Typed, Shape
<1>2. /\ SameIn(c, x) /\ SameTls(c, x) /\ SameEnd(c, x) /\ SameIdle(c, x) /\ SameCond(c, x)
  BY <1>0 DEF Unsourced, Typed, Shape, Fields, SameIn, SameTls, SameEnd, SameIdle, SameCond
<1>3. /\ x.obuf = c.obuf /\ x.wire = c.wire /\ x.written = c.written /\ x.flush = c.flush
      /\ x.auto_flush = c.auto_flush /\ x.out_budget = c.out_budget /\ x.room = c.room
      /\ x.write_src = TRUE /\ x.ref = c.ref - Sources(c)
  BY <1>0 DEF Unsourced, Typed, Shape, Fields
<1>4. x.ref \in Int
  <2>1. Count(c.read_src) \in Int /\ Count(c.write_src) \in Int /\ Count(c.close_src) \in Int
    BY CountType, Zenon
  <2>2. c.ref \in Int
    BY <1>0, Zenon DEF Typed, IdleTyped
  <2> QED BY <1>3, <2>1, <2>2 DEF Sources
<1>5. OutTyped(x) /\ IdleTyped(x)
  BY <1>0, <1>2, <1>3, <1>4, Zenon DEF Typed, OutTyped, IdleTyped, SameIdle, SameCond
<1>6. Typed(x)
  BY <1>0, <1>1, <1>2, <1>5, InSame, TlsSame, EndSame, Zenon DEF Typed
<1>7. OutReady(x)
  BY <1>2, <1>6, Zenon DEF OutReady, SameEnd, SameCond
<1> QED BY <1>2, <1>3, <1>7, Zenon

\* What is left of a connection, and what is gone.
Shut(f, d, fl, r) ==
  /\ Typed(d)
  /\ d.bag = f.bag /\ d.ibuf = f.ibuf /\ d.got = f.got /\ d.rx = f.rx /\ d.sent = f.sent
  /\ d.obuf = f.obuf /\ d.wire = f.wire /\ d.written = f.written
  /\ d.hs_rx = f.hs_rx /\ d.flights = f.flights
  /\ d.setup = f.setup /\ d.forced = f.forced /\ d.delayed_close = f.delayed_close
  /\ d.close_locked = f.close_locked /\ d.orphan = f.orphan /\ d.held = f.held
  /\ d.shut = f.shut /\ d.blocked = f.blocked /\ d.hup = f.hup
  /\ d.closed = TRUE /\ d.sock = FALSE /\ d.close_src = FALSE /\ d.read_src = FALSE
  /\ d.write_src = FALSE /\ d.do_read = FALSE /\ d.reading = 0 /\ d.tls = "off"
  /\ d.flush = fl /\ d.ref = r

\* lets go of the socket last,
LEMMA ShutStep ==
  ASSUME NEW f, NEW d, NEW fl, NEW r, Typed(f), Shuts(f, d, fl, r), r \in Int,
         fl \in {"none", "waiting", "base", "done", "failed"}
  PROVE  Shut(f, d, fl, r)
<1>1. Shape(d)
  BY Zenon DEF Shuts, Typed, Shape
<1>2. /\ d.bag = f.bag /\ d.ibuf = f.ibuf /\ d.got = f.got /\ d.rx = f.rx /\ d.sent = f.sent
      /\ d.frozen = f.frozen /\ d.in_budget = f.in_budget
      /\ d.read_src = FALSE /\ d.do_read = FALSE /\ d.reading = 0
  BY DEF Shuts, Typed, Shape, Fields
<1>3. /\ d.obuf = f.obuf /\ d.wire = f.wire /\ d.written = f.written
      /\ d.auto_flush = f.auto_flush /\ d.out_budget = f.out_budget /\ d.room = f.room
      /\ d.write_src = FALSE /\ d.flush = fl
  BY DEF Shuts, Typed, Shape, Fields
<1>4. /\ d.hs_rx = f.hs_rx /\ d.flights = f.flights /\ d.session = f.session
      /\ d.cred = f.cred /\ d.hello = f.hello /\ d.deaf = f.deaf /\ d.tls = "off"
  BY DEF Shuts, Typed, Shape, Fields
<1>5. /\ d.setup = f.setup /\ d.forced = f.forced /\ d.delayed_close = f.delayed_close
      /\ d.close_locked = f.close_locked /\ d.orphan = f.orphan /\ d.held = f.held
      /\ d.shut = f.shut /\ d.blocked = f.blocked /\ d.hup = f.hup /\ d.edge = f.edge
      /\ d.closed = TRUE /\ d.sock = FALSE
  BY DEF Shuts, Typed, Shape, Fields
<1>6. /\ d.connected = FALSE /\ d.close_src = FALSE /\ d.cond = f.cond /\ d.s_cond = f.s_cond
      /\ d.ref = r
  BY DEF Shuts, Typed, Shape, Fields
<1>7. InTyped(d)
  <2>1. 0 \in 0..2
    OBVIOUS
  <2> QED BY <1>2, <2>1, Zenon DEF Typed, InTyped
<1>8. OutTyped(d)
  BY <1>3, Zenon DEF Typed, OutTyped
<1>9. TlsTyped(d)
  BY <1>4, Zenon DEF Typed, TlsTyped
<1>10. EndTyped(d) /\ IdleTyped(d)
  BY <1>5, <1>6, Zenon DEF Typed, EndTyped, IdleTyped
<1>11. Typed(d)
  BY <1>1, <1>7, <1>8, <1>9, <1>10, Zenon DEF Typed
<1> QED BY <1>2, <1>3, <1>4, <1>5, <1>6, <1>11, Zenon DEF Shut

\* The flush that waits is answered, and its callback drops its reference.
Answered(f, fl, r) ==
  IF f.flush \in {"waiting", "base"} THEN fl = "none" /\ r = f.ref - 1
  ELSE fl = f.flush /\ r = f.ref

\* and flushes in between.
LEMMA CloseSteps ==
  ASSUME NEW c, OutReady(c), ~c.closed
  PROVE  \E x, f, fl, r :
           /\ Unsourced(c, x) /\ Flushed(x, f) /\ Answered(f, fl, r)
           /\ Shuts(f, evd_connection_close_internal(c), fl, r)
<1> DEFINE x == [c EXCEPT !.ref = c.ref - Sources(c), !.write_src = TRUE]
           f == evd_buffered_output_stream_flush(x).c
           h == evd_buffered_output_stream_close(f)
           g == evd_buffered_input_stream_close(h)
           d == evd_connection_close_internal(c)
           fl == IF f.flush \in {"waiting", "base"} THEN "none" ELSE f.flush
           r == IF f.flush \in {"waiting", "base"} THEN f.ref - 1 ELSE f.ref
<1>1. Unsourced(c, x)
  BY Zenon DEF Unsourced
<1>2. d = [g EXCEPT !.closed = TRUE, !.connected = FALSE, !.sock = FALSE,
                    !.close_src = FALSE, !.read_src = FALSE, !.write_src = FALSE,
                    !.tls = "off"]
  BY Zenon DEF evd_connection_close_internal, SourceRefs
<1>3. g = [h EXCEPT !.do_read = FALSE, !.reading = 0]
  BY Zenon DEF evd_buffered_input_stream_close
<1> HIDE DEF x, d, g
<1>4. Flushed(x, f)
  BY <1>1, UnsourcedStep, FlushStep, Zenon
<1> HIDE DEF f
<1>5. Typed(f)
  BY <1>4, FlushedTyped, Zenon
<1>6. h = [f EXCEPT !.flush = fl, !.ref = r]
  <2>1. CASE f.flush \in {"waiting", "base"}
    BY <2>1, Zenon DEF evd_buffered_output_stream_close
  <2>2. CASE f.flush \notin {"waiting", "base"}
    <3>1. h = f /\ fl = f.flush /\ r = f.ref
      BY <2>2, Zenon DEF evd_buffered_output_stream_close
    <3> HIDE DEF h, fl, r
    <3>2. f = [f EXCEPT !.flush = f.flush, !.ref = f.ref]
      BY <1>5, ZenonT(60) DEF Typed, Shape, Fields
    <3> QED BY <3>1, <3>2, Zenon
  <2> QED BY <2>1, <2>2, Zenon
<1>7. Answered(f, fl, r)
  BY Zenon DEF Answered
<1> HIDE DEF h, fl, r
<1>8. Shuts(f, d, fl, r)
  BY <1>2, <1>3, <1>5, <1>6 DEF Shuts, Typed, Shape, Fields
<1> QED BY <1>1, <1>4, <1>7, <1>8, Zenon DEF d

\* What a close keeps.
ClosedFrame(c, d) ==
  /\ d.setup = c.setup /\ d.forced = c.forced /\ d.held = c.held /\ d.orphan = c.orphan
  /\ d.hup = c.hup /\ d.closed /\ ~d.sock

\* Closing by force leaves all of the invariant but what the eager application
\* relies on.
LEMMA FirmClose ==
  ASSUME NEW c, NEW n \in Int, Sound(c, n)
  PROVE  LET d == evd_connection_close_internal(c)
         IN /\ Typed(d) /\ Refs(d, n) /\ QuietInv(d) /\ StackInv(d) /\ EndInv(d)
            /\ CanClose(c) => TailInv(d)
            /\ (Data(c) => Data(d)) /\ ClosedFrame(c, d)
<1> DEFINE d == evd_connection_close_internal(c)
<1>0. Typed(c) /\ Refs(c, n) /\ QuietInv(c) /\ StackInv(c) /\ EndInv(c) /\ TailInv(c) /\ OutReady(c)
  BY OutReadyOf, Zenon DEF Sound
<1>1. CASE c.closed
  <2>1. d = c
    BY <1>1, Zenon DEF evd_connection_close_internal
  <2> QED BY <1>0, <1>1, <2>1, Zenon DEF ClosedFrame, QuietInv
<1>2. CASE ~c.closed
  <2>1. PICK x, f, fl, r : /\ Unsourced(c, x) /\ Flushed(x, f) /\ Answered(f, fl, r)
                           /\ Shuts(f, d, fl, r)
    BY <1>0, <1>2, CloseSteps, Zenon
  <2> HIDE DEF d
  <2>2. /\ OutReady(x) /\ SameIn(c, x) /\ SameTls(c, x) /\ SameEnd(c, x) /\ SameIdle(c, x)
        /\ x.obuf = c.obuf /\ x.wire = c.wire /\ x.written = c.written /\ x.flush = c.flush
        /\ x.write_src = TRUE /\ x.ref = c.ref - Sources(c)
    BY <1>0, <2>1, UnsourcedStep, Zenon
  <2>3. /\ Typed(f) /\ SameIn(x, f) /\ SameTls(x, f) /\ SameEnd(x, f)
        /\ f.written = x.written /\ f.write_src
        /\ f.ref = x.ref + Count(f.write_src) - Count(x.write_src)
    BY <2>1, <2>2, Zenon DEF Flushed, OutFrame
  <2>4. f.ref \in Int /\ x.ref \in Int
        /\ f.flush \in {"none", "waiting", "base", "done", "failed"}
    BY <2>2, <2>3, Zenon DEF OutReady, Typed, IdleTyped, OutTyped
  <2>5. f.ref = x.ref
    <3>1. Count(f.write_src) = 1 /\ Count(x.write_src) = 1
      BY <2>2, <2>3, CountType, Zenon
    <3>2. f.ref = x.ref + 1 - 1
      BY <2>3, <3>1, Zenon
    <3> QED BY <2>4, <3>2
  <2>6. r \in Int /\ fl \in {"none", "done", "failed"}
    BY <2>1, <2>4 DEF Answered
  <2>7. Shut(f, d, fl, r)
    <3>1. fl \in {"none", "waiting", "base", "done", "failed"}
      BY <2>6, Zenon
    <3> QED BY <2>1, <2>3, <2>6, <3>1, ShutStep, Zenon
  <2>8. EndInv(f)
    <3>1. EndInv(x)
      BY <1>0, <2>2, Zenon DEF EndInv, SameEnd
    <3> QED BY <2>1, <3>1, FlushedEnd, Zenon
  <2>9. (f.flush # "none") = (c.flush # "none")
    BY <2>1, <2>2, Zenon DEF Flushed
  <2>10. /\ d.setup = c.setup /\ d.forced = c.forced /\ d.held = c.held /\ d.orphan = c.orphan
         /\ d.hup = c.hup /\ d.closed /\ ~d.sock
    BY <2>2, <2>3, <2>7, ZenonT(60) DEF Shut, SameEnd
  <2>11. /\ d.bag = c.bag /\ d.ibuf = c.ibuf /\ d.got = c.got /\ d.rx = c.rx /\ d.sent = c.sent
    BY <2>2, <2>3, <2>7, ZenonT(60) DEF Shut, SameIn
  <2>12. Refs(d, n)
    <3>1. /\ Count(c.held) \in Int /\ Count(c.read_src) \in Int /\ Count(c.write_src) \in Int
          /\ Count(c.close_src) \in Int /\ Count(c.flush # "none") \in Int
      BY CountType, Zenon
    <3>2. c.orphan \in Int /\ c.ref \in Int
      BY <1>0 DEF Typed, EndTyped, IdleTyped
    <3>3. Count(d.read_src) = 0 /\ Count(d.write_src) = 0 /\ Count(d.close_src) = 0
      BY <2>7, Zenon DEF Shut, Count
    <3>4. d.ref = f.ref + Count(d.flush # "none") - Count(c.flush # "none")
      <4>1. d.flush = fl /\ d.ref = r
        BY <2>7, Zenon DEF Shut
      <4>2. CASE f.flush \in {"waiting", "base"}
        <5>1. d.flush = "none" /\ d.ref = f.ref - 1
          BY <2>1, <4>1, <4>2, Zenon DEF Answered
        <5>2. Count(d.flush # "none") = 0 /\ Count(c.flush # "none") = 1
          BY <2>9, <4>2, <5>1, Zenon DEF Count
        <5> QED BY <2>4, <5>1, <5>2
      <4>3. CASE f.flush \notin {"waiting", "base"}
        <5>1. d.flush = f.flush /\ d.ref = f.ref
          BY <2>1, <4>1, <4>3, Zenon DEF Answered
        <5>2. Count(d.flush # "none") = Count(c.flush # "none")
          BY <2>9, <5>1, Zenon
        <5> QED BY <2>4, <3>1, <5>1, <5>2, SMTT(40)
      <4> QED BY <4>2, <4>3, Zenon
    <3>5. Count(d.flush # "none") \in Int
      BY CountType, Zenon
    <3>6. d.held = c.held /\ d.orphan = c.orphan
      BY <2>10, Zenon
    <3> QED BY <1>0, <2>2, <2>5, <3>1, <3>2, <3>3, <3>4, <3>5, <3>6, SMTT(40) DEF Refs, Sources
  <2>13. QuietInv(d)
    BY <2>6, <2>7, Zenon DEF Shut, QuietInv
  <2>14. StackInv(d)
    <3>1. d.hs_rx = c.hs_rx /\ d.flights = c.flights /\ d.tls = "off"
      BY <2>2, <2>3, <2>7, Zenon DEF Shut, SameTls
    <3> QED BY <1>0, <2>10, <3>1, Zenon DEF StackInv
  <2>15. EndInv(d)
    <3>1. /\ d.delayed_close = f.delayed_close /\ d.hup = f.hup /\ d.shut = f.shut
          /\ d.forced = f.forced /\ d.close_locked = f.close_locked /\ d.blocked = f.blocked
          /\ d.obuf = f.obuf /\ d.flush = fl
      BY <2>7, Zenon DEF Shut
    <3>2. fl = "none" \/ fl = f.flush
      BY <2>1, Zenon DEF Answered
    <3> QED BY <2>8, <3>1, <3>2, Zenon DEF EndInv
  <2>16. CanClose(c) => TailInv(d)
    <3>1. Eager(d) = Eager(c)
      BY <2>10, Zenon DEF Eager, Tls
    <3> QED BY <1>0, <2>10, <2>11, <3>1, Zenon DEF TailInv, CanClose
  <2>17. Data(c) => Data(d)
    <3>1. d.wire \o d.obuf = c.wire \o c.obuf /\ d.written = c.written
      BY <2>1, <2>2, <2>3, <2>7, ZenonT(60) DEF Flushed, Shut
    <3> QED BY <2>11, <3>1, Zenon DEF Data
  <2>18. Typed(d)
    BY <2>7, Zenon DEF Shut
  <2>19. ClosedFrame(c, d)
    BY <2>10, Zenon DEF ClosedFrame
  <2> QED BY <2>12, <2>13, <2>14, <2>15, <2>16, <2>17, <2>18, <2>19, Zenon DEF d
<1>3. c.closed \in BOOLEAN
  BY <1>0, Zenon DEF Typed, EndTyped
<1> QED BY <1>1, <1>2, <1>3, Zenon

\* evd_connection_close_internal keeps the connection sound.
LEMMA CloseSound ==
  ASSUME NEW c, NEW n \in Int, Sound(c, n), CanClose(c)
  PROVE  LET d == evd_connection_close_internal(c)
         IN Sound(d, n) /\ (Data(c) => Data(d)) /\ ClosedFrame(c, d)
<1> DEFINE d == evd_connection_close_internal(c)
<1>1. /\ Typed(d) /\ Refs(d, n) /\ QuietInv(d) /\ StackInv(d) /\ EndInv(d) /\ TailInv(d)
      /\ (Data(c) => Data(d)) /\ ClosedFrame(c, d)
  BY FirmClose, Zenon
<1> HIDE DEF d
<1>2. Sound(d, n)
  BY <1>1, Zenon DEF Sound
<1> QED BY <1>1, <1>2, Zenon DEF d

\* Only references and sources change hands.
Releases(c, d, flush, orphan, csrc, ref) ==
  /\ flush \in {"none", "waiting", "base", "done", "failed"} /\ orphan \in Nat
  /\ csrc \in BOOLEAN /\ ref \in Int
  /\ d = [c EXCEPT !.flush = flush, !.orphan = orphan, !.close_src = csrc, !.ref = ref]

SameEndBut(c, d) ==
  /\ d.forced = c.forced /\ d.delayed_close = c.delayed_close
  /\ d.close_locked = c.close_locked /\ d.held = c.held /\ d.shut = c.shut
  /\ d.blocked = c.blocked /\ d.hup = c.hup /\ d.edge = c.edge /\ d.sock = c.sock

Released(c, d, flush, orphan, csrc, ref) ==
  /\ EndFrame(c, d) /\ SameEndBut(c, d)
  /\ d.flush = flush /\ d.orphan = orphan /\ d.close_src = csrc /\ d.ref = ref

\* Handing references over leaves all else alone,
LEMMA ReleaseStep ==
  ASSUME NEW c, NEW d, NEW flush, NEW orphan, NEW csrc, NEW ref, Typed(c),
         Releases(c, d, flush, orphan, csrc, ref)
  PROVE  Released(c, d, flush, orphan, csrc, ref)
<1>0. d = [c EXCEPT !.flush = flush, !.orphan = orphan, !.close_src = csrc, !.ref = ref]
  BY Zenon DEF Releases
<1>1. Shape(d)
  <2>1. DOMAIN d = Fields
    BY <1>0, Zenon DEF Typed, Shape
  <2>2. d = [f \in DOMAIN d |-> d[f]]
    BY <1>0, Zenon DEF Typed, Shape
  <2> QED BY <2>1, <2>2, Zenon DEF Shape
<1>2. /\ SameIn(c, d) /\ SameTls(c, d) /\ SameCond(c, d)
      /\ d.connected = c.connected /\ d.setup = c.setup /\ d.closed = c.closed
  BY <1>0 DEF Typed, Shape, Fields, SameIn, SameTls, SameCond
<1>3. /\ d.obuf = c.obuf /\ d.wire = c.wire /\ d.written = c.written
      /\ d.auto_flush = c.auto_flush /\ d.out_budget = c.out_budget /\ d.room = c.room
      /\ d.write_src = c.write_src
  BY <1>0 DEF Typed, Shape, Fields
<1>4. SameEndBut(c, d)
  BY <1>0 DEF Typed, Shape, Fields, SameEndBut
<1>5. d.flush = flush /\ d.orphan = orphan /\ d.close_src = csrc /\ d.ref = ref
  BY <1>0 DEF Typed, Shape, Fields
<1>6. OutTyped(d) /\ EndTyped(d) /\ IdleTyped(d)
  BY <1>2, <1>3, <1>4, <1>5, Zenon
  DEF Releases, Typed, OutTyped, EndTyped, IdleTyped, SameCond, SameEndBut
<1>7. Typed(d)
  BY <1>1, <1>2, <1>6, InSame, TlsSame, Zenon DEF Typed
<1> QED BY <1>2, <1>3, <1>4, <1>5, <1>7, Zenon DEF Released, EndFrame

\* The invariant afterwards, if the references add up.
Balanced(c, flush, orphan, csrc, ref, n, m) ==
  /\ flush = c.flush \/ (flush = "none" /\ c.flush # "none")
  /\ csrc => c.close_src
  /\ ref = c.ref + Count(csrc) - Count(c.close_src) + orphan - c.orphan
           + Count(flush # "none") - Count(c.flush # "none") + m - n

\* and keeps the connection sound if they add up.
LEMMA ReleaseSound ==
  ASSUME NEW c, NEW d, NEW flush, NEW orphan, NEW csrc, NEW ref, NEW n \in Int, NEW m \in Int,
         Sound(c, n), Releases(c, d, flush, orphan, csrc, ref),
         Balanced(c, flush, orphan, csrc, ref, n, m)
  PROVE  /\ Sound(d, m) /\ (Data(c) => Data(d)) /\ Keeps(c, d)
         /\ Released(c, d, flush, orphan, csrc, ref)
<1>1. Typed(c) /\ Refs(c, n) /\ EndInv(c)
  BY Zenon DEF Sound
<1>2. Released(c, d, flush, orphan, csrc, ref)
  BY <1>1, ReleaseStep, Zenon
<1>3. EndFrame(c, d) /\ SameEndBut(c, d) /\ d.flush = flush /\ d.orphan = orphan
      /\ d.close_src = csrc /\ d.ref = ref
  BY <1>2, Zenon DEF Released
<1>4. Onward(c, d)
  BY <1>3, Zenon DEF Onward, SameEndBut, Balanced
<1>5. EndInv(d)
  <2>1. d.obuf = c.obuf
    BY <1>3, Zenon DEF EndFrame
  <2> QED BY <1>1, <1>3, <2>1, Zenon DEF EndInv, SameEndBut, Balanced
<1>6. Refs(d, m)
  <2>1. Count(c.held) \in Int /\ d.held = c.held /\ c.ref \in Int
    BY <1>1, <1>3, CountType, Zenon DEF SameEndBut, Typed, IdleTyped
  <2>2. /\ Count(c.close_src) \in Int /\ Count(c.flush # "none") \in Int
        /\ Count(d.close_src) \in Int /\ Count(d.flush # "none") \in Int
        /\ Count(csrc) \in Int /\ Count(flush # "none") \in Int
    BY CountType, Zenon
  <2>3. c.orphan \in Int /\ orphan \in Int
    BY <1>1 DEF Typed, EndTyped, Releases
  <2>4. /\ Count(d.close_src) = Count(csrc) /\ Count(d.flush # "none") = Count(flush # "none")
        /\ Count(d.held) = Count(c.held)
    BY <1>3, <2>1, Zenon
  <2>5. d.ref = c.ref + Count(d.held) - Count(c.held) + Count(d.close_src)
                 - Count(c.close_src) + d.orphan - c.orphan
                 + Count(d.flush # "none") - Count(c.flush # "none") + m - n
    <3> DEFINE a == Count(flush # "none")
               b == Count(c.flush # "none")
               e == Count(csrc)
               h == Count(c.close_src)
               k == Count(c.held)
    <3>1. ref = c.ref + e - h + orphan - c.orphan + a - b + m - n
      BY Zenon DEF Balanced
    <3>2. a \in Int /\ b \in Int /\ e \in Int /\ h \in Int /\ k \in Int
      BY <2>1, <2>2, Zenon
    <3> HIDE DEF a, b, e, h, k
    <3>3. d.ref = c.ref + k - k + e - h + orphan - c.orphan + a - b + m - n
      BY <1>3, <2>1, <2>3, <3>1, <3>2, SMTT(40)
    <3> QED BY <1>3, <2>4, <3>3, Zenon DEF a, b, e, h, k
  <2>6. SameIn(c, d) /\ Typed(d) /\ d.write_src = c.write_src
    BY <1>3, Zenon DEF EndFrame
  <2> QED BY <1>1, <2>5, <2>6, RefsSum, Zenon
<1>7. Sound(d, m) /\ (Data(c) => Data(d)) /\ Keeps(c, d)
  BY <1>3, <1>4, <1>5, <1>6, EndSound, Zenon
<1> QED BY <1>2, <1>7, Zenon

\* The balance when the idle source becomes an orphan.
Numbered(r, a, b, o, n) == r \in Int /\ a \in Int /\ b \in Int /\ o \in Int /\ n \in Int

MovedOne(r, a, b, o, n) == r = r + 0 - b + (o + b) - o + a - a + n - n

\* The arithmetic of it.
LEMMA MoveOne ==
  ASSUME NEW r, NEW a, NEW b, NEW o, NEW n, Numbered(r, a, b, o, n)
  PROVE  MovedOne(r, a, b, o, n)
  BY DEF Numbered, MovedOne

\* CloseNow, which removes the idle source too, keeps the connection sound.
LEMMA CloseNowSound ==
  ASSUME NEW c, NEW n \in Int, Sound(c, n), CanClose(c)
  PROVE  LET d == CloseNow(c)
         IN /\ Sound(d, n) /\ (Data(c) => Data(d)) /\ d.closed /\ ~d.sock
            /\ d.setup = c.setup /\ d.forced = c.forced /\ d.held = c.held /\ d.hup = c.hup
<1> DEFINE k == c.orphan + Count(c.close_src)
           x == [c EXCEPT !.orphan = k, !.close_src = FALSE]
           d == CloseNow(c)
<1>1. d = evd_connection_close_internal(x)
  BY Zenon DEF CloseNow
<1>2. Typed(c) /\ c.orphan \in Nat /\ c.ref \in Int /\ c.close_src \in BOOLEAN
      /\ c.flush \in {"none", "waiting", "base", "done", "failed"}
  BY Zenon DEF Sound, Typed, IdleTyped, OutTyped, EndTyped
<1>3. Count(c.close_src) \in 0..1 /\ Count(FALSE) = 0
  BY CountType, Zenon DEF Count
<1>4. k \in Nat
  BY <1>2, <1>3
<1>5. Count(c.flush # "none") \in Int
  BY CountType, Zenon
<1>6. c.ref = c.ref + Count(FALSE) - Count(c.close_src) + k - c.orphan
               + Count(c.flush # "none") - Count(c.flush # "none") + n - n
  <2> DEFINE a == Count(c.flush # "none")
             b == Count(c.close_src)
             z == Count(FALSE)
  <2>1. a \in Int /\ b \in Int /\ z = 0 /\ k = c.orphan + b /\ c.orphan \in Int
    <3>1. c.orphan \in Int
      BY <1>2
    <3> QED BY <1>3, <1>5, <3>1, CountType, Zenon
  <2> HIDE DEF a, b, z, k
  <2>2. c.ref = c.ref + 0 - b + (c.orphan + b) - c.orphan + a - a + n - n
    <3>1. Numbered(c.ref, a, b, c.orphan, n)
      BY <1>2, <2>1, Zenon DEF Numbered
    <3>2. MovedOne(c.ref, a, b, c.orphan, n)
      BY ONLY <3>1, MoveOne, Zenon
    <3> QED BY <3>2, Zenon DEF MovedOne
  <2> QED BY <2>1, <2>2, Zenon DEF a, b, z
<1> HIDE DEF k
<1>7. Releases(c, x, c.flush, k, FALSE, c.ref)
  <2>1. x = [c EXCEPT !.flush = c.flush, !.orphan = k, !.close_src = FALSE, !.ref = c.ref]
    BY <1>2, ZenonT(60) DEF Typed, Shape, Fields
  <2> QED BY <1>2, <1>4, <2>1, Zenon DEF Releases
<1> HIDE DEF x, d
<1>8. Sound(x, n) /\ (Data(c) => Data(x)) /\ Released(c, x, c.flush, k, FALSE, c.ref)
  <2>1. Balanced(c, c.flush, k, FALSE, c.ref, n, n)
    BY <1>6, Zenon DEF Balanced
  <2> QED BY <1>7, <2>1, ReleaseSound, Zenon
<1>9. /\ x.setup = c.setup /\ x.forced = c.forced /\ x.held = c.held /\ x.hup = c.hup
      /\ x.rx = c.rx /\ x.bag = c.bag
  BY <1>8, Zenon DEF Released, EndFrame, SameEndBut, SameIn
<1>10. CanClose(x)
  BY <1>9, Zenon DEF CanClose, Eager, Tls
<1>11. Sound(d, n) /\ (Data(x) => Data(d)) /\ ClosedFrame(x, d)
  BY <1>1, <1>8, <1>10, CloseSound, Zenon
<1>12. /\ Sound(d, n) /\ (Data(c) => Data(d)) /\ d.closed /\ ~d.sock
       /\ d.setup = c.setup /\ d.forced = c.forced /\ d.held = c.held /\ d.hup = c.hup
  BY <1>8, <1>9, <1>11, Zenon DEF ClosedFrame
<1> QED BY <1>12, Zenon DEF d

\* Without a socket there is nobody to wake.
LEMMA GoneKeeps ==
  ASSUME NEW d, ~d.sock
  PROVE  ReadInv(d) /\ WriteInv(d)
  BY Zenon DEF ReadInv, WriteInv

\* There are as many references as owners, at least.
LEMMA RefsNotNegative ==
  ASSUME NEW c, NEW n \in Nat, Typed(c), Refs(c, n)
  PROVE  c.ref >= 0 /\ c.ref >= Count(c.held)
<1>1. /\ Count(c.read_src) \in 0..1 /\ Count(c.write_src) \in 0..1 /\ Count(c.held) \in 0..1
      /\ Count(c.close_src) \in 0..1 /\ Count(c.flush # "none") \in 0..1
  BY CountType, Zenon
<1>2. c.orphan \in Nat
  BY Zenon DEF Typed, EndTyped
<1> QED BY <1>1, <1>2 DEF Refs, Sources

\* The eager application holds a reference, so its connection is never disposed of.
LEMMA HeldCounts ==
  ASSUME NEW c, NEW n \in Nat, Typed(c), Refs(c, n), c.held
  PROVE  c.ref # 0
<1>1. Count(c.held) = 1
  BY CountType, Zenon
<1>2. c.ref >= 1 /\ c.ref \in Int
  BY <1>1, RefsNotNegative, Zenon DEF Typed, IdleTyped
<1> QED BY ONLY <1>2

\* Dropping the callback's reference: the last one closes.
LEMMA UnrefSound ==
  ASSUME NEW c, NEW n \in Nat, Sound(c, n + 1)
  PROVE  LET d == Unref(c) IN Sound(d, n) /\ (Data(c) => Data(d)) /\ Keeps(c, d)
<1> DEFINE r == c.ref - 1
           t == [c EXCEPT !.ref = r]
           d == Unref(c)
           m == n + 1
<1>1. Typed(c) /\ c.orphan \in Nat /\ c.ref \in Int /\ c.close_src \in BOOLEAN
      /\ c.flush \in {"none", "waiting", "base", "done", "failed"}
  BY Zenon DEF Sound, Typed, IdleTyped, OutTyped, EndTyped
<1>2. d = IF t.ref = 0 THEN evd_connection_close_internal(t) ELSE t
  BY Zenon DEF Unref
<1>3. r \in Int /\ m \in Int /\ n \in Int /\ Sound(c, m)
  BY <1>1
<1>4. r = c.ref + Count(c.close_src) - Count(c.close_src) + c.orphan - c.orphan
          + Count(c.flush # "none") - Count(c.flush # "none") + n - m
  <2> DEFINE a == Count(c.flush # "none")
             b == Count(c.close_src)
  <2>1. a \in Int /\ b \in Int
    BY CountType, Zenon
  <2> HIDE DEF a, b
  <2>2. r = c.ref + b - b + c.orphan - c.orphan + a - a + n - m
    BY <1>1, <2>1
  <2> QED BY <2>2, Zenon DEF a, b
<1> HIDE DEF r, m
<1>5. Releases(c, t, c.flush, c.orphan, c.close_src, r)
  <2>1. t = [c EXCEPT !.flush = c.flush, !.orphan = c.orphan, !.close_src = c.close_src,
                      !.ref = r]
    BY <1>1, ZenonT(60) DEF Typed, Shape, Fields
  <2> QED BY <1>1, <1>3, <2>1, Zenon DEF Releases
<1> HIDE DEF t, d
<1>6. Sound(t, n) /\ (Data(c) => Data(t)) /\ Keeps(c, t)
  <2>1. Balanced(c, c.flush, c.orphan, c.close_src, r, m, n)
    BY <1>4, Zenon DEF Balanced
  <2> QED BY <1>3, <1>5, <2>1, ReleaseSound, Zenon
<1>7. CASE t.ref = 0
  <2>1. d = evd_connection_close_internal(t)
    BY <1>2, <1>7, Zenon
  <2>2. CanClose(t)
    <3>1. ~t.held
      BY <1>6, <1>7, HeldCounts, Zenon DEF Sound
    <3> QED BY <1>6, <3>1, Zenon DEF Sound, TailInv, CanClose
  <2>3. Sound(d, n) /\ (Data(t) => Data(d)) /\ ~d.sock
    BY <1>3, <1>6, <2>1, <2>2, CloseSound, Zenon DEF ClosedFrame
  <2> QED BY <1>6, <2>3, GoneKeeps, Zenon DEF Keeps, d
<1>8. CASE t.ref # 0
  BY <1>2, <1>6, <1>8, Zenon DEF d
<1> QED BY <1>7, <1>8, Zenon

\* The same for the only one.
LEMMA UnrefOne ==
  ASSUME NEW c, Sound(c, 1)
  PROVE  LET d == Unref(c) IN Sound(d, 0) /\ (Data(c) => Data(d)) /\ Keeps(c, d)
<1>1. 0 + 1 = 1 /\ 0 \in Nat
  OBVIOUS
<1>2. Sound(c, 0 + 1)
  BY <1>1, Zenon
<1> QED BY <1>1, <1>2, UnrefSound, Zenon

\* The end of a callback that held a reference.
LEMMA UnrefInv ==
  ASSUME NEW c, Good(c, 1), ReadInv(c), WriteInv(c)
  PROVE  Inv(Unref(c))
<1> DEFINE d == Unref(c)
<1>1. Sound(c, 1) /\ Data(c)
  BY Zenon DEF Good
<1>2. Sound(d, 0) /\ Data(d) /\ Keeps(c, d)
  BY <1>1, UnrefOne, Zenon
<1> HIDE DEF d
<1>3. Inv(d)
  BY <1>2, Zenon DEF Inv, Good, Keeps
<1> QED BY <1>3, Zenon DEF d

\* Closing in the idle source and dropping its reference.
LEMMA CloseCallbackKeeps ==
  ASSUME NEW c, NEW x, Inv(c), c.close_src, x = [c EXCEPT !.close_src = FALSE]
  PROVE  Inv(Unref(evd_connection_close_internal(x)))
<1>1. Sound(c, 0) /\ Typed(c) /\ Data(c) /\ TailInv(c) /\ 0 \in Int /\ 1 \in Int
  BY DEF Inv, Good, Sound
<1>2. c.orphan \in Nat /\ c.ref \in Int
      /\ c.flush \in {"none", "waiting", "base", "done", "failed"}
  BY <1>1, Zenon DEF Typed, IdleTyped, OutTyped, EndTyped
<1>3. Releases(c, x, c.flush, c.orphan, FALSE, c.ref)
  <2>1. x = [c EXCEPT !.flush = c.flush, !.orphan = c.orphan, !.close_src = FALSE,
                      !.ref = c.ref]
    BY <1>1, ZenonT(60) DEF Typed, Shape, Fields
  <2> QED BY <1>2, <2>1, Zenon DEF Releases
<1>4. Balanced(c, c.flush, c.orphan, FALSE, c.ref, 0, 1)
  <2> DEFINE a == Count(c.flush # "none")
             b == Count(c.close_src)
             z == Count(FALSE)
  <2>1. a \in Int /\ b = 1 /\ z = 0
    BY CountType, Zenon DEF Count
  <2> HIDE DEF a, b, z
  <2>2. c.ref = c.ref + z - b + c.orphan - c.orphan + a - a + 1 - 0
    BY <1>2, <2>1
  <2> QED BY <2>2, Zenon DEF a, b, z, Balanced
<1>5. Sound(x, 1) /\ Data(x) /\ Released(c, x, c.flush, c.orphan, FALSE, c.ref)
  BY <1>1, <1>3, <1>4, ReleaseSound, Zenon
<1>6. /\ x.setup = c.setup /\ x.forced = c.forced /\ x.hup = c.hup
      /\ x.rx = c.rx /\ x.bag = c.bag
  BY <1>5, Zenon DEF Released, EndFrame, SameEndBut, SameIn
<1>7. CanClose(x)
  BY <1>1, <1>6, Zenon DEF CanClose, TailInv, Eager, Tls
<1> DEFINE y == evd_connection_close_internal(x)
<1>8. Sound(y, 1) /\ Data(y) /\ ~y.sock
  BY <1>1, <1>5, <1>7, CloseSound, Zenon DEF ClosedFrame
<1> HIDE DEF y
<1>9. Inv(Unref(y))
  BY <1>8, GoneKeeps, UnrefInv, Zenon DEF Good
<1> QED BY <1>9, Zenon DEF y

\* Dropping the reference of a source that was removed.
LEMMA OrphanKeeps ==
  ASSUME NEW c, NEW x, Inv(c), c.orphan > 0, x = [c EXCEPT !.orphan = c.orphan - 1]
  PROVE  Inv(Unref(x))
<1>1. Sound(c, 0) /\ Typed(c) /\ Data(c) /\ ReadInv(c) /\ WriteInv(c) /\ 0 \in Int /\ 1 \in Int
  BY DEF Inv, Good, Sound
<1>2. c.orphan \in Nat /\ c.ref \in Int /\ c.close_src \in BOOLEAN
      /\ c.flush \in {"none", "waiting", "base", "done", "failed"}
  BY <1>1, Zenon DEF Typed, IdleTyped, OutTyped, EndTyped
<1> DEFINE k == c.orphan - 1
<1>3. k \in Nat
  BY <1>2
<1>4. Balanced(c, c.flush, k, c.close_src, c.ref, 0, 1)
  <2> DEFINE a == Count(c.flush # "none")
             b == Count(c.close_src)
  <2>1. a \in Int /\ b \in Int
    BY CountType, Zenon
  <2> HIDE DEF a, b
  <2>2. c.ref = c.ref + b - b + k - c.orphan + a - a + 1 - 0
    BY <1>2, <2>1
  <2> QED BY <2>2, Zenon DEF a, b, Balanced
<1> HIDE DEF k
<1>5. Releases(c, x, c.flush, k, c.close_src, c.ref)
  <2>1. x = [c EXCEPT !.orphan = k]
    BY Zenon DEF k
  <2>2. x = [c EXCEPT !.flush = c.flush, !.orphan = k, !.close_src = c.close_src,
                      !.ref = c.ref]
    BY <1>1, <2>1, ZenonT(60) DEF Typed, Shape, Fields
  <2> QED BY <1>2, <1>3, <2>2, Zenon DEF Releases
<1>6. Sound(x, 1) /\ Data(x) /\ Keeps(c, x)
  BY <1>1, <1>4, <1>5, ReleaseSound, Zenon
<1> QED BY <1>1, <1>6, UnrefInv, Zenon DEF Good, Keeps

\* evd_connection_close_in_idle_cb keeps the invariant.
LEMMA CloseInIdleCbAction ==
  ASSUME IInv, evd_connection_close_in_idle_cb
  PROVE  IInv'
<1>1. CASE /\ conn.close_src
           /\ conn' = Unref(evd_connection_close_internal([conn EXCEPT !.close_src = FALSE]))
  <2>1. Inv(conn')
    BY <1>1, CloseCallbackKeeps, Zenon DEF IInv
  <2> QED BY <2>1, Zenon DEF IInv
<1>2. CASE conn.orphan > 0 /\ conn' = Unref([conn EXCEPT !.orphan = @ - 1])
  <2>1. Inv(conn')
    BY <1>2, OrphanKeeps, Zenon DEF IInv
  <2> QED BY <2>1, Zenon DEF IInv
<1> QED BY <1>1, <1>2, Zenon DEF evd_connection_close_in_idle_cb
=============================================================================
