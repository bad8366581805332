------------------------- MODULE EvdConnection_proofs -------------------------
(***************************************************************************)
(* EvdConnection keeps its invariant, and what follows from it.  The       *)
(* invariant and the lemmas on the streams and on closing are in           *)
(* EvdConnectionStreams_proofs; here are the TLS handshake, the socket's   *)
(* conditions, the timers and the peer, and at the end the theorems.       *)
(***************************************************************************)
EXTENDS EvdConnectionStreams_proofs

-----------------------------------------------------------------------------
\* The callback of the flush: it shuts the socket down.
ShutsDown(c, x, failed) ==
  x = [c EXCEPT !.flush = "none", !.shut = TRUE, !.blocked = failed, !.hup = TRUE,
                !.edge = TRUE]

\* Shutting down after the flush and dropping its reference.
LEMMA ShutdownKeeps ==
  ASSUME NEW c, NEW x, NEW failed \in BOOLEAN, Inv(c), c.flush \in {"done", "failed"},
         failed = (c.flush = "failed"), ShutsDown(c, x, failed)
  PROVE  Inv(Unref(x))
<1>1. /\ Sound(c, 0) /\ Typed(c) /\ EndTyped(c) /\ Data(c) /\ ReadInv(c) /\ WriteInv(c)
      /\ EndInv(c) /\ Refs(c, 0) /\ 0 \in Int /\ 1 \in Int
      /\ c.ref \in Int /\ c.close_src \in BOOLEAN
  BY DEF Inv, Good, Sound, Typed, IdleTyped
<1>2. Ends(c, x, "none", c.forced, c.delayed_close, c.close_locked, c.orphan, c.held, TRUE,
           failed, TRUE, TRUE, c.sock, c.close_src, c.ref)
  <2>1. x = [c EXCEPT !.flush = "none", !.forced = c.forced,
                      !.delayed_close = c.delayed_close, !.close_locked = c.close_locked,
                      !.orphan = c.orphan, !.held = c.held, !.shut = TRUE,
                      !.blocked = failed, !.hup = TRUE, !.edge = TRUE, !.sock = c.sock,
                      !.close_src = c.close_src, !.ref = c.ref]
    <3>1. Shape(c) /\ ShutsDown(c, x, failed)
      BY <1>1, Zenon DEF Typed
    <3> QED BY ONLY <3>1, ZenonT(60) DEF ShutsDown, Shape, Fields
  <2> QED BY <1>1, <2>1, Zenon DEF Ends, EndTyped
<1>3. Ended(c, x, "none", c.forced, c.delayed_close, c.close_locked, c.orphan, c.held, TRUE,
            failed, TRUE, TRUE, c.sock, c.close_src, c.ref)
  BY <1>1, <1>2, EndStep, Zenon
<1>4. EndFrame(c, x) /\ Onward(c, x)
  BY <1>3, Zenon DEF Ended, Onward
<1>5. EndInv(x)
  <2>1. x.obuf = c.obuf
    BY <1>4, Zenon DEF EndFrame
  <2>2. c.forced /\ (~failed => c.obuf = <<>>)
    BY <1>1, Zenon DEF EndInv
  <2> QED BY <1>1, <1>3, <2>1, <2>2, Zenon DEF Ended, EndInv
<1>6. Refs(x, 1)
  <2>1. Count(c.flush # "none") = 1 /\ Count(x.flush # "none") = 0
    BY <1>3, Zenon DEF Ended, Count
  <2>2. x.ref = c.ref /\ x.held = c.held /\ x.close_src = c.close_src /\ x.orphan = c.orphan
    BY <1>3, Zenon DEF Ended
  <2>3. Count(c.held) \in Int /\ Count(c.close_src) \in Int /\ c.orphan \in Int
    BY <1>1, CountType DEF EndTyped
  <2>4. x.ref = c.ref + Count(x.held) - Count(c.held) + Count(x.close_src)
                 - Count(c.close_src) + x.orphan - c.orphan
                 + Count(x.flush # "none") - Count(c.flush # "none") + 1 - 0
    BY <1>1, <2>1, <2>2, <2>3
  <2>5. SameIn(c, x) /\ Typed(x) /\ x.write_src = c.write_src
    BY <1>4, Zenon DEF EndFrame
  <2> QED BY <1>1, <2>4, <2>5, RefsSum, Zenon
<1>7. Sound(x, 1) /\ Data(x) /\ Keeps(c, x)
  BY <1>1, <1>4, <1>5, <1>6, EndSound, Zenon
<1> QED BY <1>1, <1>7, UnrefInv, Zenon DEF Good, Keeps

\* evd_connection_shutdown_on_flush keeps the invariant.
LEMMA ShutdownAction ==
  ASSUME IInv, evd_connection_shutdown_on_flush
  PROVE  IInv'
<1> DEFINE failed == conn.flush = "failed"
           x == [conn EXCEPT !.flush = "none", !.shut = TRUE, !.blocked = failed,
                             !.hup = TRUE, !.edge = TRUE]
<1>1. conn.flush \in {"done", "failed"} /\ conn' = Unref(x)
  BY Zenon DEF evd_connection_shutdown_on_flush
<1>2. failed \in BOOLEAN /\ failed = (conn.flush = "failed") /\ ShutsDown(conn, x, failed)
  BY Zenon DEF ShutsDown
<1> HIDE DEF failed, x
<1>3. Inv(conn')
  BY <1>1, <1>2, ShutdownKeeps, Zenon DEF IInv
<1> QED BY <1>3, Zenon DEF IInv

\* The application closes, whatever is still to be read.
Forces(y, d) == d = [y EXCEPT !.forced = TRUE]

\* A close whatever is still to be read keeps the invariant.
LEMMA AppClosesKeeps ==
  ASSUME NEW c, NEW y, NEW d, Inv(c), y = evd_connection_close_internal(c), Forces(y, d)
  PROVE  Inv(d)
<1>1. Sound(c, 0) /\ Data(c) /\ 0 \in Int
  BY DEF Inv, Good
<1>2. /\ Typed(y) /\ Refs(y, 0) /\ QuietInv(y) /\ StackInv(y) /\ EndInv(y)
      /\ Data(y) /\ ClosedFrame(c, y)
  BY <1>1, FirmClose, Zenon
<1>3. EndTyped(y) /\ y.ref \in Int /\ y.close_src \in BOOLEAN
      /\ y.flush \in {"none", "waiting", "base", "done", "failed"}
  BY <1>2, Zenon DEF Typed, IdleTyped, OutTyped
<1>4. Ends(y, d, y.flush, TRUE, y.delayed_close, y.close_locked, y.orphan, y.held, y.shut,
           y.blocked, y.hup, y.edge, y.sock, y.close_src, y.ref)
  <2>1. d = [y EXCEPT !.flush = y.flush, !.forced = TRUE,
                      !.delayed_close = y.delayed_close, !.close_locked = y.close_locked,
                      !.orphan = y.orphan, !.held = y.held, !.shut = y.shut,
                      !.blocked = y.blocked, !.hup = y.hup, !.edge = y.edge,
                      !.sock = y.sock, !.close_src = y.close_src, !.ref = y.ref]
    <3>1. Shape(y) /\ Forces(y, d)
      BY <1>2, Zenon DEF Typed
    <3> QED BY ONLY <3>1, ZenonT(60) DEF Forces, Shape, Fields
  <2> QED BY <1>3, <2>1, Zenon DEF Ends, EndTyped
<1>5. Ended(y, d, y.flush, TRUE, y.delayed_close, y.close_locked, y.orphan, y.held, y.shut,
           y.blocked, y.hup, y.edge, y.sock, y.close_src, y.ref)
  BY <1>2, <1>4, EndStep, Zenon
<1>6. EndFrame(y, d) /\ Onward(y, d) /\ d.forced
  BY <1>5, Zenon DEF Ended, Onward
<1>7. EndInv(d)
  <2>1. d.obuf = y.obuf
    BY <1>6, Zenon DEF EndFrame
  <2> QED BY <1>2, <1>5, <2>1, Zenon DEF Ended, EndInv
<1>8. Refs(d, 0)
  <2>1. /\ d.held = y.held /\ d.close_src = y.close_src /\ d.orphan = y.orphan
        /\ d.ref = y.ref /\ (d.flush # "none") = (y.flush # "none")
    BY <1>5, Zenon DEF Ended
  <2> QED BY <1>2, <1>6, <2>1, RefsSame, Zenon
<1>9. Sound(d, 0) /\ Data(d)
  BY <1>2, <1>6, <1>7, <1>8, FirmEndSound, Zenon
<1>10. ~d.sock
  BY <1>2, <1>5, Zenon DEF Ended, ClosedFrame
<1> QED BY <1>9, <1>10, GoneKeeps, Zenon DEF Inv, Good

\* The application's close keeps the invariant.
LEMMA AppClosesAction ==
  ASSUME IInv, AppCloses
  PROVE  IInv'
<1> DEFINE y == evd_connection_close_internal(conn)
<1>1. Forces(y, conn')
  BY Zenon DEF AppCloses, Forces
<1>2. Inv(conn')
  BY <1>1, AppClosesKeeps, Zenon DEF IInv
<1> QED BY <1>2, Zenon DEF IInv

\* The application lets go.
LetsGo(c, x) == x = [c EXCEPT !.held = FALSE, !.forced = TRUE]

\* Letting go keeps the invariant.
LEMMA AppUnrefsKeeps ==
  ASSUME NEW c, NEW x, Inv(c), c.held, LetsGo(c, x)
  PROVE  Inv(Unref(x))
<1>1. /\ Sound(c, 0) /\ Typed(c) /\ EndTyped(c) /\ Data(c) /\ ReadInv(c) /\ WriteInv(c)
      /\ EndInv(c) /\ Refs(c, 0) /\ 0 \in Int /\ 1 \in Int
      /\ c.ref \in Int /\ c.close_src \in BOOLEAN
      /\ c.flush \in {"none", "waiting", "base", "done", "failed"}
  BY SMTT(40) DEF Inv, Good, Sound, Typed, IdleTyped, OutTyped
<1>2. Ends(c, x, c.flush, TRUE, c.delayed_close, c.close_locked, c.orphan, FALSE, c.shut,
           c.blocked, c.hup, c.edge, c.sock, c.close_src, c.ref)
  <2>1. x = [c EXCEPT !.flush = c.flush, !.forced = TRUE,
                      !.delayed_close = c.delayed_close, !.close_locked = c.close_locked,
                      !.orphan = c.orphan, !.held = FALSE, !.shut = c.shut,
                      !.blocked = c.blocked, !.hup = c.hup, !.edge = c.edge,
                      !.sock = c.sock, !.close_src = c.close_src, !.ref = c.ref]
    BY <1>1, ZenonT(60) DEF LetsGo, Typed, Shape, Fields
  <2> QED BY <1>1, <2>1, Zenon DEF Ends, EndTyped
<1>3. Ended(c, x, c.flush, TRUE, c.delayed_close, c.close_locked, c.orphan, FALSE, c.shut,
           c.blocked, c.hup, c.edge, c.sock, c.close_src, c.ref)
  BY <1>1, <1>2, EndStep, Zenon
<1>4. EndFrame(c, x) /\ Onward(c, x)
  BY <1>3, Zenon DEF Ended, Onward
<1>5. EndInv(x)
  <2>1. x.obuf = c.obuf
    BY <1>4, Zenon DEF EndFrame
  <2> QED BY <1>1, <1>3, <2>1, Zenon DEF Ended, EndInv
<1>6. Refs(x, 1)
  <2>1. Count(c.held) = 1 /\ Count(x.held) = 0
    BY <1>3, Zenon DEF Ended, Count
  <2>2. /\ x.ref = c.ref /\ Count(x.flush # "none") = Count(c.flush # "none")
        /\ x.close_src = c.close_src /\ x.orphan = c.orphan
    BY <1>3, Zenon DEF Ended
  <2>3. Count(c.close_src) \in Int /\ c.orphan \in Int /\ Count(c.flush # "none") \in Int
    BY <1>1, CountType DEF EndTyped
  <2> DEFINE a == Count(c.held)
             b == Count(x.held)
             f == Count(c.flush # "none")
             g == Count(c.close_src)
  <2>4. a = 1 /\ b = 0 /\ f \in Int /\ g \in Int
    BY <2>1, <2>3, Zenon
  <2> HIDE DEF a, b, f, g
  <2>5. c.ref = c.ref + b - a + g - g + c.orphan - c.orphan + f - f + 1 - 0
    BY <1>1, <2>3, <2>4
  <2>6. x.ref = c.ref + Count(x.held) - Count(c.held) + Count(x.close_src)
                 - Count(c.close_src) + x.orphan - c.orphan
                 + Count(x.flush # "none") - Count(c.flush # "none") + 1 - 0
    BY <2>2, <2>5, Zenon DEF a, b, f, g
  <2>7. SameIn(c, x) /\ Typed(x) /\ x.write_src = c.write_src
    BY <1>4, Zenon DEF EndFrame
  <2> QED BY <1>1, <2>6, <2>7, RefsSum, Zenon
<1>7. Sound(x, 1) /\ Data(x) /\ Keeps(c, x)
  BY <1>1, <1>4, <1>5, <1>6, EndSound, Zenon
<1> QED BY <1>1, <1>7, UnrefInv, Zenon DEF Good, Keeps

\* The application's unref keeps the invariant.
LEMMA AppUnrefsAction ==
  ASSUME IInv, AppUnrefs
  PROVE  IInv'
<1> DEFINE x == [conn EXCEPT !.held = FALSE, !.forced = TRUE]
<1>1. conn.held /\ conn' = Unref(x) /\ LetsGo(conn, x)
  BY Zenon DEF AppUnrefs, LetsGo
<1> HIDE DEF x
<1>2. Inv(conn')
  BY <1>1, AppUnrefsKeeps, Zenon DEF IInv
<1> QED BY <1>2, Zenon DEF IInv

-----------------------------------------------------------------------------
\* The TLS handshake.

Shakes(c, t, session, cred, flights, hs, hello) ==
  /\ session \in BOOLEAN /\ cred \in BOOLEAN /\ flights \in 0..2 /\ hs \in 0..1
  /\ hello \in BOOLEAN
  /\ t = [c EXCEPT !.session = session, !.cred = cred, !.flights = flights, !.hs_rx = hs,
                   !.hello = hello]

\* A step of the handshake touches nothing else.
TlsFrame(c, t) ==
  /\ Typed(t) /\ SameIn(c, t) /\ SameOut(c, t) /\ SameEnd(c, t) /\ SameIdle(c, t)
  /\ SameCond(c, t) /\ t.ref = c.ref /\ t.tls = c.tls

Shaken(c, t, session, cred, flights, hs, hello) ==
  /\ TlsFrame(c, t) /\ t.session = session /\ t.cred = cred /\ t.flights = flights
  /\ t.hs_rx = hs /\ t.hello = hello

\* Setting the fields of TLS leaves all else alone,
LEMMA ShakeStep ==
  ASSUME NEW c, NEW t, NEW session, NEW cred, NEW flights, NEW hs, NEW hello, Typed(c),
         Shakes(c, t, session, cred, flights, hs, hello)
  PROVE  Shaken(c, t, session, cred, flights, hs, hello)
<1>0. /\ t = [c EXCEPT !.session = session, !.cred = cred, !.flights = flights,
                       !.hs_rx = hs, !.hello = hello]
      /\ Shape(c)
  BY Zenon DEF Shakes, Typed
<1>1. Shape(t)
  BY <1>0, Zenon DEF Shape
<1>2. SameIn(c, t) /\ SameOut(c, t) /\ SameEnd(c, t) /\ SameIdle(c, t) /\ SameCond(c, t)
      /\ t.ref = c.ref
  BY ONLY <1>0 DEF Shape, Fields, SameIn, SameOut, SameEnd, SameIdle, SameCond
<1>3. /\ t.session = session /\ t.cred = cred /\ t.flights = flights /\ t.hs_rx = hs
      /\ t.hello = hello /\ t.tls = c.tls /\ t.deaf = c.deaf
  BY ONLY <1>0 DEF Shape, Fields
<1>4. TlsTyped(t) /\ IdleTyped(t)
  BY <1>2, <1>3, Zenon DEF Typed, TlsTyped, IdleTyped, Shakes, SameIdle, SameCond
<1>5. Typed(t)
  BY <1>1, <1>2, <1>4, InSame, OutSame, EndSame, Zenon DEF Typed
<1> QED BY <1>2, <1>3, <1>5, Zenon DEF Shaken, TlsFrame

\* and keeps the connection sound.
LEMMA TlsSound ==
  ASSUME NEW c, NEW t, NEW n, Sound(c, n), TlsFrame(c, t), t.hs_rx <= t.flights
  PROVE  Sound(t, n) /\ (Data(c) => Data(t)) /\ Keeps(c, t)
<1>0. Typed(t) /\ SameIn(c, t) /\ SameOut(c, t) /\ SameEnd(c, t) /\ SameIdle(c, t)
      /\ SameCond(c, t) /\ t.ref = c.ref /\ t.tls = c.tls
  BY Zenon DEF TlsFrame
<1>1. Refs(c, n) /\ QuietInv(c) /\ StackInv(c) /\ EndInv(c) /\ TailInv(c)
  BY Zenon DEF Sound
<1>2. Refs(t, n)
  BY <1>0, <1>1, Zenon DEF Refs, Sources, SameIn, SameOut, SameEnd, SameIdle
<1>3. QuietInv(t)
  BY <1>0, <1>1, Zenon DEF QuietInv, SameIn, SameOut, SameEnd
<1>4. StackInv(t)
  BY <1>0, <1>1, Zenon DEF StackInv, SameIn, SameOut, SameEnd, SameCond, Tls
<1>5. EndInv(t)
  BY <1>0, <1>1, Zenon DEF EndInv, SameOut, SameEnd
<1>6. TailInv(t)
  <2>1. Eager(t) = Eager(c)
    BY <1>0, Zenon DEF SameEnd, Eager, Tls
  <2> QED BY <1>0, <1>1, <2>1, Zenon DEF TailInv, SameIn, SameEnd, SameIdle
<1>7. Keeps(c, t)
  BY <1>0, Zenon DEF Keeps, ReadInv, WriteInv, SameIn, SameOut, SameEnd, SameCond
<1>8. Data(c) => Data(t)
  BY <1>0, Zenon DEF Data, SameIn, SameOut
<1> QED BY <1>0, <1>2, <1>3, <1>4, <1>5, <1>6, <1>7, <1>8, Zenon DEF Sound

\* What a call of GnuTLS leaves alone.
ShakeFrame(c, d) ==
  SameIn(c, d) /\ SameOut(c, d) /\ SameEnd(c, d) /\ d.tls = c.tls

\* evd_tls_session_handshake_internal keeps the connection sound.
LEMMA HandshakeInternalStep ==
  ASSUME NEW c, NEW n \in Int, NEW fails, Sound(c, n), Tls(c)
  PROVE  LET h == evd_tls_session_handshake_internal(c, fails)
         IN /\ Sound(h.c, n) /\ (Data(c) => Data(h.c)) /\ ShakeFrame(c, h.c) /\ Keeps(c, h.c)
            /\ h.result \in {-1, 0, 1}
<1> DEFINE h == evd_tls_session_handshake_internal(c, fails)
           left == c.flights - c.hs_rx
           t == [c EXCEPT !.flights = left, !.hs_rx = 0, !.hello = TRUE]
           u == evd_connection_socket_input_stream_drained(t)
           res == IF fails \/ (u.hup /\ u.flights > 0) THEN -1 ELSE IF u.flights = 0 THEN 1 ELSE 0
<1>1. h = [c |-> u, result |-> res]
  BY Zenon DEF evd_tls_session_handshake_internal
<1>2. Typed(c) /\ c.session \in BOOLEAN /\ c.cred \in BOOLEAN /\ c.flights \in 0..2
      /\ c.hs_rx \in 0..1 /\ c.hs_rx <= c.flights
  BY Zenon DEF Sound, StackInv, Typed, TlsTyped
<1>3. left \in 0..2 /\ 0 \in 0..1
  BY <1>2
<1>4. res \in {-1, 0, 1}
  BY Zenon
<1> HIDE DEF left, res, h
<1>5. Shakes(c, t, c.session, c.cred, left, 0, TRUE)
  <2>1. t = [c EXCEPT !.session = c.session, !.cred = c.cred, !.flights = left, !.hs_rx = 0,
                      !.hello = TRUE]
    BY <1>2, ZenonT(60) DEF Typed, Shape, Fields
  <2> QED BY <1>2, <1>3, <2>1, Zenon DEF Shakes
<1> HIDE DEF t
<1>6. TlsFrame(c, t) /\ t.hs_rx = 0 /\ t.flights = left
  BY <1>2, <1>5, ShakeStep, Zenon DEF Shaken
<1>7. t.hs_rx <= t.flights
  BY <1>3, <1>6
<1>8. Sound(t, n) /\ (Data(c) => Data(t)) /\ Keeps(c, t)
  BY <1>6, <1>7, TlsSound, Zenon
<1>9. ~Eager(t)
  BY <1>6, Zenon DEF TlsFrame, SameEnd, Eager, Tls
<1>10. IdleFrame(t, u)
  BY <1>8, <1>9, DrainedStep, Zenon
<1> HIDE DEF u
<1>11. Sound(u, n) /\ Keeps(t, u) /\ (Data(t) => Data(u))
  BY <1>8, <1>10, IdleSound, IdleKeeps, Zenon
<1>12. ShakeFrame(c, u)
  BY <1>6, <1>10, ZenonT(60)
     DEF ShakeFrame, TlsFrame, IdleFrame, SameIn, SameOut, SameEnd, SameTls
<1>13. h.c = u /\ h.result = res
  BY <1>1
<1>14. Keeps(c, u)
  BY <1>8, <1>11, Zenon DEF Keeps
<1> QED BY <1>4, <1>8, <1>11, <1>12, <1>13, <1>14, Zenon DEF h

\* So does evd_tls_session_handshake, which waits for the credentials.
LEMMA HandshakeStep ==
  ASSUME NEW c, NEW n \in Int, NEW fails, Sound(c, n), Tls(c)
  PROVE  LET h == evd_tls_session_handshake(c, fails)
         IN /\ Sound(h.c, n) /\ (Data(c) => Data(h.c)) /\ ShakeFrame(c, h.c)
            /\ h.result \in {-1, 0, 1}
<1> DEFINE h == evd_tls_session_handshake(c, fails)
           t == [c EXCEPT !.session = TRUE]
<1>1. h = IF c.cred THEN evd_tls_session_handshake_internal(t, fails)
          ELSE [c |-> t, result |-> 0]
  BY Zenon DEF evd_tls_session_handshake
<1>2. Typed(c) /\ c.cred \in BOOLEAN /\ c.flights \in 0..2 /\ c.hs_rx \in 0..1
      /\ c.hello \in BOOLEAN /\ c.hs_rx <= c.flights
  BY Zenon DEF Sound, StackInv, Typed, TlsTyped
<1> HIDE DEF h
<1>3. Shakes(c, t, TRUE, c.cred, c.flights, c.hs_rx, c.hello)
  <2>1. t = [c EXCEPT !.session = TRUE, !.cred = c.cred, !.flights = c.flights,
                      !.hs_rx = c.hs_rx, !.hello = c.hello]
    BY <1>2, ZenonT(60) DEF Typed, Shape, Fields
  <2> QED BY <1>2, <2>1, Zenon DEF Shakes
<1> HIDE DEF t
<1>4. TlsFrame(c, t) /\ t.hs_rx <= t.flights
  BY <1>2, <1>3, ShakeStep, ZenonT(60) DEF Shaken
<1>5. Sound(t, n) /\ (Data(c) => Data(t))
  BY <1>4, TlsSound, Zenon
<1>6. Tls(t) /\ ShakeFrame(c, t)
  BY <1>4, Zenon DEF TlsFrame, ShakeFrame, SameEnd, Tls
<1>7. CASE c.cred
  <2> DEFINE i == evd_tls_session_handshake_internal(t, fails)
  <2>1. h = i
    BY <1>1, <1>7, Zenon
  <2>2. /\ Sound(i.c, n) /\ (Data(t) => Data(i.c)) /\ ShakeFrame(t, i.c)
        /\ i.result \in {-1, 0, 1}
    BY <1>5, <1>6, HandshakeInternalStep, Zenon
  <2> HIDE DEF i
  <2>3. ShakeFrame(c, i.c)
    BY <1>6, <2>2, Zenon DEF ShakeFrame, SameIn, SameOut, SameEnd
  <2> QED BY <1>5, <2>1, <2>2, <2>3, Zenon DEF h
<1>8. CASE ~c.cred
  <2>1. h = [c |-> t, result |-> 0]
    BY <1>1, <1>8, Zenon
  <2>2. h.c = t /\ h.result = 0
    BY <2>1
  <2> QED BY <1>5, <1>6, <2>2, Zenon DEF h
<1> QED BY <1>7, <1>8, Zenon

\* All of the invariant but that a frozen stream is one in a handshake.
Loose(c, n) ==
  /\ Typed(c) /\ Refs(c, n) /\ EndInv(c) /\ TailInv(c) /\ ~c.closed
  /\ c.sock => c.cond = c.s_cond
  /\ c.auto_flush /\ c.hs_rx <= c.flights /\ (c.tls # "off" => Tls(c))

\* The handshake is complete: output flows again,
Completes(c, x) == x = [c EXCEPT !.tls = "on", !.auto_flush = TRUE]

\* A complete handshake lets the output flow again.
LEMMA CompleteStep ==
  ASSUME NEW c, NEW x, NEW n, Sound(c, n), c.tls = "handshaking", Completes(c, x)
  PROVE  /\ Loose(x, n) /\ OutReady(x) /\ (Data(c) => Data(x)) /\ SameEnd(c, x) /\ SameIn(c, x)
         /\ x.tls = "on"
<1>0. /\ Typed(c) /\ Refs(c, n) /\ QuietInv(c) /\ StackInv(c) /\ EndInv(c) /\ TailInv(c)
      /\ Shape(c)
  BY Zenon DEF Sound, Typed
<1>1. x = [c EXCEPT !.tls = "on", !.auto_flush = TRUE]
  BY Zenon DEF Completes
<1>2. Shape(x)
  BY <1>0, <1>1, Zenon DEF Shape
<1>3. SameIn(c, x) /\ SameEnd(c, x) /\ SameIdle(c, x) /\ SameCond(c, x) /\ x.ref = c.ref
  BY ONLY <1>0, <1>1 DEF Shape, Fields, SameIn, SameEnd, SameIdle, SameCond
<1>4. /\ x.obuf = c.obuf /\ x.wire = c.wire /\ x.written = c.written /\ x.flush = c.flush
      /\ x.auto_flush = TRUE /\ x.out_budget = c.out_budget /\ x.room = c.room
      /\ x.write_src = c.write_src
  BY ONLY <1>0, <1>1 DEF Shape, Fields
<1>5. /\ x.session = c.session /\ x.cred = c.cred /\ x.flights = c.flights
      /\ x.hs_rx = c.hs_rx /\ x.hello = c.hello /\ x.tls = "on" /\ x.deaf = c.deaf
  BY ONLY <1>0, <1>1 DEF Shape, Fields
<1>6. OutTyped(x) /\ TlsTyped(x) /\ IdleTyped(x)
  BY <1>0, <1>3, <1>4, <1>5, Zenon
     DEF Typed, OutTyped, TlsTyped, IdleTyped, SameIdle, SameCond
<1>7. Typed(x)
  BY <1>0, <1>2, <1>3, <1>6, InSame, EndSame, Zenon DEF Typed
<1>8. Refs(x, n)
  BY <1>0, <1>3, <1>4, Zenon DEF Refs, Sources, SameIn, SameEnd, SameIdle
<1>9. EndInv(x)
  BY <1>0, <1>3, <1>4, Zenon DEF EndInv, SameEnd
<1>10. ~c.closed /\ Tls(c)
  BY <1>0, Zenon DEF QuietInv, StackInv
<1>11. TailInv(x) /\ Tls(x)
  BY <1>3, <1>10, Zenon DEF TailInv, Eager, Tls, SameEnd
<1>12. Loose(x, n) /\ OutReady(x)
  BY <1>0, <1>3, <1>4, <1>5, <1>7, <1>8, <1>9, <1>10, <1>11, Zenon
     DEF Loose, OutReady, StackInv, EndInv, SameEnd, SameCond
<1>13. Data(c) => Data(x)
  BY <1>3, <1>4, Zenon DEF Data, SameIn
<1> QED BY <1>3, <1>5, <1>12, <1>13, Zenon

\* A flush keeps what is left of the invariant meanwhile.
LEMMA LooseFlush ==
  ASSUME NEW x, NEW y, NEW n \in Int, Loose(x, n), Flushed(x, y)
  PROVE  Loose(y, n) /\ SameEnd(x, y) /\ SameIn(x, y) /\ y.tls = x.tls
<1>1. Typed(y) /\ Refs(y, n) /\ EndInv(y) /\ TailInv(y)
  BY FlushedTyped, FlushedRefs, FlushedEnd, FlushedTail, Zenon DEF Loose
<1>2. /\ SameEnd(x, y) /\ SameIn(x, y) /\ SameTls(x, y) /\ y.auto_flush = x.auto_flush
      /\ y.sock => y.cond = y.s_cond
  BY Zenon DEF Flushed, OutFrame
<1>3. /\ y.closed = x.closed /\ y.setup = x.setup /\ y.tls = x.tls
      /\ y.hs_rx = x.hs_rx /\ y.flights = x.flights
  BY <1>2, Zenon DEF SameEnd, SameTls
<1> QED BY <1>1, <1>2, <1>3, Zenon DEF Loose, Tls

\* and then input.
LEMMA LooseThaw ==
  ASSUME NEW y, NEW n \in Int, Loose(y, n), Sent(y), y.tls = "on"
  PROVE  LET d == evd_buffered_input_stream_thaw(y)
         IN /\ Sound(d, n) /\ (Data(y) => Data(d)) /\ ReadInv(d) /\ WriteInv(d)
            /\ SameEnd(y, d) /\ d.tls = "on"
<1> DEFINE d == evd_buffered_input_stream_thaw(y)
           again == y.do_read \/ y.reading > 0
<1>0. /\ Typed(y) /\ Refs(y, n) /\ EndInv(y) /\ TailInv(y) /\ ~y.closed /\ Tls(y)
      /\ y.sock => y.cond = y.s_cond
      /\ y.auto_flush /\ y.hs_rx <= y.flights
  BY Zenon DEF Loose
<1>1. y.ibuf \in Seq(Nat) /\ y.got \in Seq(Nat) /\ y.reading \in 0..2 /\ y.do_read \in BOOLEAN
  BY <1>0, Zenon DEF Typed, InTyped
<1>2. Hands(y, d, y.ibuf, y.got, y.reading, again, FALSE)
  <2>1. d = [y EXCEPT !.frozen = FALSE, !.do_read = again]
    BY Zenon DEF evd_buffered_input_stream_thaw
  <2>2. again \in BOOLEAN
    BY <1>1
  <2> HIDE DEF d, again
  <2>3. d = [y EXCEPT !.ibuf = y.ibuf, !.got = y.got, !.reading = y.reading,
                      !.do_read = again, !.frozen = FALSE]
    BY <1>0, <2>1, ZenonT(60) DEF Typed, Shape, Fields
  <2> QED BY <1>1, <2>2, <2>3, Zenon DEF Hands
<1>3. y.reading > 0 => again
  BY Zenon
<1> HIDE DEF d, again
<1>4. Handed(y, d, y.ibuf, y.got, y.reading, again, FALSE)
  BY <1>0, <1>2, HandStep, Zenon
<1>5. /\ Typed(d) /\ SameOut(y, d) /\ SameTls(y, d) /\ SameEnd(y, d) /\ SameIdle(y, d)
      /\ SameCond(y, d) /\ d.ref = y.ref + Count(d.read_src) - Count(y.read_src)
      /\ d.rx = y.rx /\ d.bag = y.bag /\ d.read_src = y.read_src /\ d.sent = y.sent
      /\ d.ibuf = y.ibuf /\ d.got = y.got /\ d.reading = y.reading /\ d.do_read = again
      /\ d.frozen = FALSE
  BY <1>4, Zenon DEF Handed, InFrame
<1>6. d.ref = y.ref
  <2>1. Count(y.read_src) \in Int /\ y.ref \in Int
    BY <1>0, CountType, Zenon DEF Typed, IdleTyped
  <2> QED BY <1>5, <2>1
<1>7. Refs(d, n)
  BY <1>0, <1>5, <1>6, Zenon DEF Refs, Sources, SameOut, SameEnd, SameIdle
<1>8. QuietInv(d)
  BY <1>0, <1>5, Zenon DEF QuietInv, SameEnd
<1>9. StackInv(d)
  BY <1>0, <1>5, Zenon DEF StackInv, SameEnd, SameOut, SameTls, SameCond, Tls
<1>10. EndInv(d)
  BY <1>0, <1>5, Zenon DEF EndInv, SameEnd, SameOut
<1>11. TailInv(d)
  BY <1>0, <1>5, Zenon DEF TailInv, Eager, Tls, SameEnd
<1>12. ReadInv(d)
  BY <1>3, <1>5, Zenon DEF ReadInv
<1>13. WriteInv(d)
  <2>1. WriteInv(y)
    BY SentWrites, Zenon
  <2> QED BY <1>5, <2>1, Zenon DEF WriteInv, SameOut, SameTls, SameEnd, SameCond
<1>14. Data(y) => Data(d)
  BY <1>5, Zenon DEF Data, SameOut
<1>15. Sound(d, n) /\ d.tls = "on"
  BY <1>5, <1>7, <1>8, <1>9, <1>10, <1>11, Zenon DEF Sound, SameTls
<1> QED BY <1>5, <1>12, <1>13, <1>14, <1>15, Zenon DEF d

\* A handshake either goes on, or ends with both streams running or with the
\* connection closed; nobody is left waiting for a condition.
Shook(c, d, n) ==
  /\ Sound(d, n) /\ (Data(c) => Data(d)) /\ ReadInv(d) /\ WriteInv(d)
  /\ d.setup = c.setup /\ d.forced = c.forced /\ d.hup = c.hup /\ d.held = c.held

\* evd_connection_tls_handshake, whatever its result.
LEMMA TlsHandshakeStep ==
  ASSUME NEW c, NEW n \in Int, NEW fails, Sound(c, n), c.tls = "handshaking"
  PROVE  Shook(c, evd_connection_tls_handshake(c, fails), n)
<1> DEFINE h == evd_tls_session_handshake(c, fails)
           x == [h.c EXCEPT !.tls = "on", !.auto_flush = TRUE]
           y == evd_buffered_output_stream_notify_write(x)
           z == evd_buffered_input_stream_thaw(y)
           d == evd_connection_tls_handshake(c, fails)
<1>0. Tls(c)
  BY Zenon DEF Sound, StackInv
<1>1. d = IF c.session /\ c.read_src THEN c
          ELSE CASE h.result = 0 -> h.c
                 [] h.result = 1 -> z
                 [] h.result = -1 -> CloseNow(h.c)
  BY Zenon DEF evd_connection_tls_handshake
<1>2. /\ Sound(h.c, n) /\ (Data(c) => Data(h.c)) /\ ShakeFrame(c, h.c)
      /\ h.result \in {-1, 0, 1}
  BY <1>0, HandshakeStep, Zenon
<1> HIDE DEF h, d
<1>3. h.c.tls = "handshaking" /\ h.c.setup = c.setup /\ h.c.forced = c.forced
      /\ h.c.hup = c.hup /\ h.c.held = c.held
  BY <1>2, Zenon DEF ShakeFrame, SameEnd
<1>4. CASE c.session /\ c.read_src
  <2>1. d = c
    BY <1>1, <1>4, Zenon
  <2> QED BY <2>1, Zenon DEF Shook, ReadInv, WriteInv, d
<1>5. CASE ~(c.session /\ c.read_src) /\ h.result = 0
  <2>1. d = h.c
    BY <1>1, <1>5
  <2> QED BY <1>2, <1>3, <2>1, Zenon DEF Shook, ReadInv, WriteInv, d
<1>6. CASE ~(c.session /\ c.read_src) /\ h.result = 1
  <2>1. d = z
    <3> HIDE DEF z
    <3> QED BY <1>1, <1>6
  <2>2. Completes(h.c, x)
    BY Zenon DEF Completes
  <2> HIDE DEF x
  <2>3. Loose(x, n) /\ OutReady(x) /\ (Data(h.c) => Data(x)) /\ SameEnd(h.c, x) /\ x.tls = "on"
    BY <1>2, <1>3, <2>2, CompleteStep, Zenon
  <2>4. Flushed(x, y) /\ Sent(y)
    BY <2>3, NotifyWriteStep, Zenon DEF Loose
  <2> HIDE DEF y
  <2>5. Loose(y, n) /\ SameEnd(x, y) /\ y.tls = "on" /\ (Data(x) => Data(y))
    BY <2>3, <2>4, LooseFlush, FlushedData, Zenon
  <2>6. Sound(z, n) /\ (Data(y) => Data(z)) /\ ReadInv(z) /\ WriteInv(z) /\ SameEnd(y, z)
    BY <2>4, <2>5, LooseThaw, Zenon
  <2> HIDE DEF z
  <2>7. z.setup = c.setup /\ z.forced = c.forced /\ z.hup = c.hup /\ z.held = c.held
    BY <1>3, <2>3, <2>5, <2>6, ZenonT(60) DEF SameEnd
  <2> QED BY <1>2, <2>1, <2>3, <2>5, <2>6, <2>7, Zenon DEF Shook, d
<1>7. CASE ~(c.session /\ c.read_src) /\ h.result = -1
  <2> DEFINE e == CloseNow(h.c)
  <2>1. d = e
    <3> HIDE DEF z
    <3> QED BY <1>1, <1>7
  <2>2. CanClose(h.c)
    BY <1>0, <1>3, Zenon DEF CanClose, Eager, Tls
  <2>3. /\ Sound(e, n) /\ (Data(h.c) => Data(e)) /\ ~e.sock
        /\ e.setup = h.c.setup /\ e.forced = h.c.forced /\ e.held = h.c.held /\ e.hup = h.c.hup
    BY <1>2, <2>2, CloseNowSound, Zenon
  <2> HIDE DEF e
  <2>4. ReadInv(e) /\ WriteInv(e)
    BY <2>3, GoneKeeps, Zenon
  <2> QED BY <1>2, <1>3, <2>1, <2>3, <2>4, Zenon DEF Shook, d
<1> QED BY <1>2, <1>4, <1>5, <1>6, <1>7, Zenon

\* The stack is replaced and held back.
Starts(c, x, eager, deaf) ==
  x = [c EXCEPT !.tls = "handshaking", !.frozen = TRUE, !.auto_flush = FALSE,
                !.reading = eager, !.deaf = deaf]

\* Replacing the stack by that of TLS keeps the invariant.
LEMMA StartStep ==
  ASSUME NEW c, NEW x, NEW eager \in 0..2, NEW deaf \in BOOLEAN, Inv(c), ~c.closed, Tls(c),
         Starts(c, x, eager, deaf)
  PROVE  Inv(x) /\ x.tls = "handshaking"
<1>0. /\ Typed(c) /\ Refs(c, 0) /\ StackInv(c) /\ EndInv(c) /\ Data(c) /\ Shape(c)
  BY Zenon DEF Inv, Good, Sound, Typed
<1>1. x = [c EXCEPT !.tls = "handshaking", !.frozen = TRUE, !.auto_flush = FALSE,
                    !.reading = eager, !.deaf = deaf]
  BY Zenon DEF Starts
<1>2. Shape(x)
  BY <1>0, <1>1, Zenon DEF Shape
<1>3. SameEnd(c, x) /\ SameIdle(c, x) /\ SameCond(c, x) /\ x.ref = c.ref
  BY ONLY <1>0, <1>1 DEF Shape, Fields, SameEnd, SameIdle, SameCond
<1>4. /\ x.bag = c.bag /\ x.ibuf = c.ibuf /\ x.got = c.got /\ x.rx = c.rx /\ x.sent = c.sent
      /\ x.reading = eager /\ x.do_read = c.do_read /\ x.frozen = TRUE
      /\ x.in_budget = c.in_budget /\ x.read_src = c.read_src
  BY ONLY <1>0, <1>1 DEF Shape, Fields
<1>5. /\ x.obuf = c.obuf /\ x.wire = c.wire /\ x.written = c.written /\ x.flush = c.flush
      /\ x.auto_flush = FALSE /\ x.out_budget = c.out_budget /\ x.room = c.room
      /\ x.write_src = c.write_src
  BY ONLY <1>0, <1>1 DEF Shape, Fields
<1>6. /\ x.session = c.session /\ x.cred = c.cred /\ x.flights = c.flights
      /\ x.hs_rx = c.hs_rx /\ x.hello = c.hello /\ x.tls = "handshaking" /\ x.deaf = deaf
  BY ONLY <1>0, <1>1 DEF Shape, Fields
<1>7. InTyped(x) /\ OutTyped(x)
  BY <1>0, <1>4, <1>5, Zenon DEF Typed, InTyped, OutTyped
<1>8. TlsTyped(x) /\ IdleTyped(x)
  BY <1>0, <1>3, <1>6, Zenon DEF Typed, TlsTyped, IdleTyped, SameIdle, SameCond
<1>9. Typed(x)
  BY <1>0, <1>2, <1>3, <1>7, <1>8, EndSame, Zenon DEF Typed
<1>10. Refs(x, 0)
  BY <1>0, <1>3, <1>4, <1>5, Zenon DEF Refs, Sources, SameEnd, SameIdle
<1>11. EndInv(x)
  BY <1>0, <1>3, <1>5, Zenon DEF EndInv, SameEnd
<1>12. Tls(x) /\ QuietInv(x) /\ TailInv(x)
  BY <1>3, Zenon DEF Tls, QuietInv, TailInv, Eager, SameEnd
<1>13. StackInv(x)
  BY <1>0, <1>3, <1>6, <1>12, Zenon DEF StackInv, SameEnd, SameCond
<1>14. Data(x)
  BY <1>0, <1>4, <1>5, Zenon DEF Data
<1>15. ReadInv(x) /\ WriteInv(x)
  BY <1>6, Zenon DEF ReadInv, WriteInv
<1> QED BY <1>6, <1>9, <1>10, <1>11, <1>12, <1>13, <1>14, <1>15, Zenon DEF Inv, Good, Sound

\* After the handshake the invariant holds again.
LEMMA ShookInv ==
  ASSUME NEW c, NEW d, Data(c), Shook(c, d, 0)
  PROVE  Inv(d)
  BY Zenon DEF Shook, Inv, Good

\* evd_connection_starttls keeps the invariant.
LEMMA StarttlsAction ==
  ASSUME IInv, evd_connection_starttls
  PROVE  IInv'
<1> DEFINE deaf == conn.setup.kind = "server" /\ "in" \in conn.cond
           c == [conn EXCEPT !.tls = "handshaking", !.frozen = TRUE, !.auto_flush = FALSE,
                             !.reading = conn.setup.eager, !.deaf = deaf]
<1>1. Tls(conn) /\ ~conn.closed
  BY Zenon DEF evd_connection_starttls
<1>2. PICK fails \in BOOLEAN :
        conn' = IF conn.setup.kind = "client" /\ "out" \in c.cond
                THEN evd_connection_tls_handshake(c, fails) ELSE c
  BY Zenon DEF evd_connection_starttls
<1>3. deaf \in BOOLEAN /\ Starts(conn, c, conn.setup.eager, deaf)
  BY Zenon DEF Starts
<1>4. conn.setup.eager \in 0..2
  BY DEF IInv, Inv, Good, Sound, Typed, EndTyped, Setup
<1> HIDE DEF deaf, c
<1>5. Inv(c) /\ c.tls = "handshaking"
  BY <1>1, <1>3, <1>4, StartStep, Zenon DEF IInv
<1>6. Sound(c, 0) /\ Data(c) /\ 0 \in Int
  BY <1>5 DEF Inv, Good
<1>7. Shook(c, evd_connection_tls_handshake(c, fails), 0)
  BY <1>5, <1>6, TlsHandshakeStep, Zenon
<1>8. Inv(conn')
  BY <1>2, <1>5, <1>6, <1>7, ShookInv, Zenon
<1> QED BY <1>8, Zenon DEF IInv

\* Credentials that are ready let the handshake go on.
LEMMA CredentialsKeep ==
  ASSUME NEW c, NEW t, Inv(c), Tls(c), t = [c EXCEPT !.cred = TRUE]
  PROVE  Inv(t) /\ Inv(evd_tls_session_handshake_internal(t, FALSE).c)
<1>0. /\ Sound(c, 0) /\ Typed(c) /\ Shape(c) /\ Data(c) /\ ReadInv(c) /\ WriteInv(c) /\ 0 \in Int
  BY DEF Inv, Good, Sound, Typed
<1>1. c.session \in BOOLEAN /\ c.flights \in 0..2 /\ c.hs_rx \in 0..1
      /\ c.hello \in BOOLEAN /\ c.hs_rx <= c.flights
  BY <1>0, Zenon DEF Sound, StackInv, Typed, TlsTyped
<1>2. Shakes(c, t, c.session, TRUE, c.flights, c.hs_rx, c.hello)
  <2>1. t = [c EXCEPT !.session = c.session, !.cred = TRUE, !.flights = c.flights,
                      !.hs_rx = c.hs_rx, !.hello = c.hello]
    BY <1>0, ZenonT(60) DEF Shape, Fields
  <2> QED BY <1>1, <2>1, Zenon DEF Shakes
<1>3. TlsFrame(c, t) /\ t.hs_rx <= t.flights
  <2>1. Typed(c)
    BY <1>0, Zenon
  <2>2. Shaken(c, t, c.session, TRUE, c.flights, c.hs_rx, c.hello)
    BY ONLY <1>2, <2>1, ShakeStep, Zenon
  <2> QED BY ONLY <1>1, <2>2, Zenon DEF Shaken
<1>4. Sound(t, 0) /\ Data(t) /\ Keeps(c, t) /\ Tls(t)
  <2>1. Tls(t)
    BY <1>3, Zenon DEF TlsFrame, SameEnd, Tls
  <2> QED BY <1>0, <1>3, <2>1, TlsSound, Zenon
<1>5. Inv(t)
  BY <1>0, <1>4, Zenon DEF Inv, Good, Keeps
<1> DEFINE u == evd_tls_session_handshake_internal(t, FALSE).c
<1>6. Sound(u, 0) /\ Data(u) /\ Keeps(t, u)
  BY <1>0, <1>4, HandshakeInternalStep, Zenon
<1> HIDE DEF u
<1>7. Inv(u)
  BY <1>5, <1>6, Zenon DEF Inv, Good, Keeps
<1> QED BY <1>5, <1>7, Zenon DEF u

\* evd_tls_session_on_credentials_ready keeps the invariant.
LEMMA CredentialsReadyAction ==
  ASSUME IInv, evd_tls_session_on_credentials_ready
  PROVE  IInv'
<1> DEFINE c == [conn EXCEPT !.cred = TRUE]
<1>1. /\ Tls(conn)
      /\ conn' = IF c.session /\ c.tls = "handshaking"
                 THEN evd_tls_session_handshake_internal(c, FALSE).c ELSE c
  BY Zenon DEF evd_tls_session_on_credentials_ready
<1>2. Inv(c) /\ Inv(evd_tls_session_handshake_internal(c, FALSE).c)
  BY <1>1, CredentialsKeep, Zenon DEF IInv
<1>3. Inv(conn')
  BY <1>1, <1>2, Zenon
<1> QED BY <1>3, Zenon DEF IInv

-----------------------------------------------------------------------------
\* Conditions and timers.

\* After a condition for reading every pending read is served.
ReadManaged(c, d, n) ==
  /\ Sound(d, n) /\ (Data(c) => Data(d)) /\ ReadInv(d)
  /\ c.tls = "handshaking" \/ WriteInv(c) => WriteInv(d)
  /\ d.setup = c.setup /\ d.forced = c.forced /\ d.hup = c.hup
  /\ d.closed => Tls(d)

\* evd_connection_manage_read_condition restores ReadInv.
LEMMA ManageReadStep ==
  ASSUME NEW c, NEW n \in Int, NEW fails, Sound(c, n), ~c.closed
  PROVE  ReadManaged(c, evd_connection_manage_read_condition(c, fails), n)
<1> DEFINE d == evd_connection_manage_read_condition(c, fails)
<1>1. CASE c.tls = "handshaking"
  <2>1. d = evd_connection_tls_handshake(c, fails)
    BY <1>1, Zenon DEF evd_connection_manage_read_condition
  <2>2. Shook(c, d, n)
    BY <1>1, <2>1, TlsHandshakeStep, Zenon
  <2>3. Tls(c)
    BY <1>1, Zenon DEF Sound, StackInv
  <2> HIDE DEF d
  <2> QED BY <2>2, <2>3, Zenon DEF Shook, ReadManaged, Tls, d
<1>2. CASE c.tls # "handshaking"
  <2>1. d = evd_buffered_input_stream_thaw(c)
    BY <1>2, Zenon DEF evd_connection_manage_read_condition
  <2>2. /\ Sound(d, n) /\ (Data(c) => Data(d)) /\ ReadInv(d) /\ (WriteInv(c) => WriteInv(d))
        /\ SameEnd(c, d)
    BY <2>1, ThawStep, Zenon
  <2> HIDE DEF d
  <2> QED BY <1>2, <2>2, Zenon DEF ReadManaged, SameEnd, d
<1> QED BY <1>1, <1>2, Zenon

\* Without throttle and socket a write does nothing, and starts no timer.
LEMMA NoTimer ==
  ASSUME NEW c, OutReady(c), ~Throttled(c), ~c.sock, NEW data \in Seq(Nat)
  PROVE  evd_throttled_output_stream_write(c, data).c.write_src = c.write_src
<1> DEFINE w == evd_throttled_output_stream_write(c, data)
           limited == evd_throttled_output_stream_get_max_writable_priv(c, Len(data))
           d == IF limited < Len(data) THEN evd_connection_delay_write(c) ELSE c
           part == Front(data, limited)
           v == evd_socket_output_stream_write(d, part)
<1>1. w = IF c.tls = "handshaking" THEN [c |-> c, n |-> 0]
          ELSE IF limited = 0 THEN [c |-> d, n |-> 0]
          ELSE [v EXCEPT !.c.out_budget = IF Throttled(c) THEN @ - v.n ELSE @]
  BY Zenon DEF evd_throttled_output_stream_write
<1>2. limited = Len(data)
  BY Zenon DEF evd_throttled_output_stream_get_max_writable_priv
<1>3. ~(Len(data) < Len(data))
  BY EmptyLen
<1> HIDE DEF limited, part
<1>4. d = c
  BY <1>2, <1>3, Zenon
<1> HIDE DEF d
<1>5. v = [c |-> c, n |-> 0]
  BY <1>4, Zenon DEF evd_socket_output_stream_write
<1>6. Shape(c)
  BY Zenon DEF OutReady, Typed
<1> HIDE DEF v, w
<1>7. CASE c.tls = "handshaking" \/ limited = 0
  <2>1. w = [c |-> c, n |-> 0]
    BY <1>1, <1>4, <1>7, Zenon
  <2>2. w.c = c
    BY ONLY <2>1
  <2> QED BY <2>2, Zenon DEF w
<1>8. CASE ~(c.tls = "handshaking" \/ limited = 0)
  <2>1. w = [v EXCEPT !.c.out_budget = v.c.out_budget]
    BY <1>1, <1>8, Zenon
  <2>2. w.c.write_src = c.write_src
    BY ONLY <1>5, <1>6, <2>1 DEF Shape, Fields
  <2> QED BY <2>2, Zenon DEF w
<1> QED BY <1>7, <1>8, Zenon

\* Without a throttle no timer starts.
LEMMA NoTimerNotify ==
  ASSUME NEW c, OutReady(c), ~Throttled(c), ~c.sock
  PROVE  evd_buffered_output_stream_notify_write(c).write_src = c.write_src
<1> DEFINE f == evd_buffered_output_stream_flush(c)
           w == evd_throttled_output_stream_write(c, c.obuf)
           t == [w.c EXCEPT !.obuf = Rest(@, w.n)]
           p == [w.c EXCEPT !.flush = IF @ = "waiting" THEN "failed" ELSE @]
           q == [t EXCEPT !.flush = IF @ = "waiting" /\ t.obuf = <<>> THEN "base" ELSE @]
<1>1. f = IF c.obuf = <<>> THEN [c |-> c, ok |-> TRUE]
          ELSE IF w.n = 0 THEN [c |-> p, ok |-> FALSE]
          ELSE [c |-> q, ok |-> TRUE]
  BY Zenon DEF evd_buffered_output_stream_flush
<1>2. c.obuf \in Seq(Nat)
  BY Zenon DEF OutReady, Typed, OutTyped
<1>3. w.c.write_src = c.write_src
  BY <1>2, NoTimer, Zenon
<1>4. Shape(w.c)
  BY <1>2, ThrottledWriteStep, Zenon DEF Wrote, OutFrame, Typed
<1> HIDE DEF w, f
<1>5. p.write_src = c.write_src /\ q.write_src = c.write_src
  BY ONLY <1>3, <1>4 DEF Shape, Fields
<1> HIDE DEF p, q
<1>6. f.c = c \/ f.c = p \/ f.c = q
  BY ONLY <1>1
<1> QED BY <1>5, <1>6, Zenon DEF evd_buffered_output_stream_notify_write, f

\* A closed connection is told of a condition once more when its handshake failed.
LEMMA ClosedNotify ==
  ASSUME NEW c, NEW n \in Int, Sound(c, n), c.closed, Tls(c)
  PROVE  LET d == evd_buffered_output_stream_notify_write(c)
         IN Sound(d, n) /\ (Data(c) => Data(d)) /\ SameEnd(c, d)
<1> DEFINE d == evd_buffered_output_stream_notify_write(c)
<1>0. /\ Typed(c) /\ Refs(c, n) /\ QuietInv(c) /\ StackInv(c) /\ EndInv(c) /\ TailInv(c)
      /\ OutReady(c) /\ ~c.sock
  BY OutReadyOf, Zenon DEF Sound, QuietInv
<1>1. ~Throttled(c)
  BY DEF Throttled, Tls
<1>2. Flushed(c, d) /\ d.write_src = c.write_src
  BY <1>0, <1>1, NotifyWriteStep, NoTimerNotify, Zenon
<1> HIDE DEF d
<1>3. SameEnd(c, d) /\ SameIn(c, d) /\ SameTls(c, d)
  BY <1>2, Zenon DEF Flushed, OutFrame
<1>4. d.flush = c.flush
  BY <1>0, <1>2, Zenon DEF Flushed, QuietInv
<1>5. QuietInv(d)
  BY <1>0, <1>2, <1>3, <1>4, Zenon DEF QuietInv, SameEnd, SameIn, SameTls
<1>6. Sound(d, n) /\ (Data(c) => Data(d))
  BY <1>0, <1>2, <1>5, FlushedTyped, FlushedRefs, FlushedStack, FlushedEnd, FlushedTail,
     FlushedData, Zenon DEF Sound
<1> QED BY <1>3, <1>6, Zenon DEF d

\* After a condition for writing the output goes on or waits for the next one.
WriteManaged(c, d, n) ==
  /\ Sound(d, n) /\ (Data(c) => Data(d)) /\ WriteInv(d)
  /\ c.tls = "handshaking" \/ ReadInv(c) => ReadInv(d)

\* evd_connection_manage_write_condition restores WriteInv.
LEMMA ManageWriteStep ==
  ASSUME NEW c, NEW n \in Int, NEW fails, Sound(c, n), c.closed => Tls(c)
  PROVE  WriteManaged(c, evd_connection_manage_write_condition(c, fails), n)
<1> DEFINE t == IF c.tls = "handshaking" THEN evd_connection_tls_handshake(c, fails)
                ELSE evd_buffered_output_stream_notify_write(c)
           d == evd_connection_manage_write_condition(c, fails)
<1>1. d = IF t.closed \/ t.tls = "handshaking" \/ "out" \notin t.cond \/ ~Throttled(t) THEN t
          ELSE evd_connection_delay_write(t)
  BY Zenon DEF evd_connection_manage_write_condition
<1>2. WriteManaged(c, t, n)
  <2>1. CASE c.tls = "handshaking"
    <3>1. t = evd_connection_tls_handshake(c, fails)
      BY <2>1, Zenon
    <3>2. Shook(c, t, n)
      BY <2>1, <3>1, TlsHandshakeStep, Zenon
    <3> QED BY <3>2, Zenon DEF Shook, WriteManaged
  <2>2. CASE c.tls # "handshaking" /\ c.closed
    <3>1. t = evd_buffered_output_stream_notify_write(c)
      BY <2>2, Zenon
    <3>2. Sound(t, n) /\ (Data(c) => Data(t)) /\ SameEnd(c, t)
      BY <2>2, <3>1, ClosedNotify, Zenon
    <3>3. ~t.sock
      BY <2>2, <3>2, Zenon DEF Sound, QuietInv, SameEnd
    <3> QED BY <3>2, <3>3, GoneKeeps, Zenon DEF WriteManaged
  <2>3. CASE c.tls # "handshaking" /\ ~c.closed
    <3>1. t = evd_buffered_output_stream_notify_write(c)
      BY <2>3, Zenon
    <3>2. Sound(t, n) /\ (Data(c) => Data(t)) /\ (ReadInv(c) => ReadInv(t)) /\ WriteInv(t)
      BY <2>3, <3>1, NotifyWriteSound, Zenon
    <3> QED BY <2>3, <3>2, Zenon DEF WriteManaged
  <2> QED BY <2>1, <2>2, <2>3, Zenon
<1> HIDE DEF t, d
<1>3. CASE d = t
  BY <1>2, <1>3, Zenon DEF d
<1>4. CASE ~t.closed /\ d = evd_connection_delay_write(t)
  <2>1. Sound(d, n) /\ (Data(t) => Data(d)) /\ (ReadInv(t) => ReadInv(d)) /\ WriteInv(d)
    BY <1>2, <1>4, DelayWriteSound, Zenon DEF WriteManaged
  <2> QED BY <1>2, <2>1, Zenon DEF WriteManaged, d
<1> QED BY <1>1, <1>3, <1>4, Zenon

\* What the kernel reports.
Reports(c, L) ==
  /\ L \in SUBSET {"in", "out", "hup"}
  /\ c.rx # <<>> => "in" \in L
  /\ c.room > 0 => "out" \in L
  /\ "hup" \in L => c.hup
  /\ c.hup => "hup" \in L /\ "in" \in L

\* The level of the socket is what the kernel reports.
LEMMA LevelReports ==
  ASSUME NEW c
  PROVE  Reports(c, Level(c))
<1>1. Level(c) \in SUBSET {"in", "out", "hup"}
  BY ZenonT(60) DEF Level
<1>2. ("in" \in Level(c)) = (c.rx # <<>> \/ c.hs_rx > 0 \/ c.hup)
  BY DEF Level
<1>3. ("out" \in Level(c)) = (c.room > 0 \/ c.shut)
  BY DEF Level
<1>4. "hup" \in Level(c) <=> c.hup
  BY Zenon DEF Level
<1> QED BY <1>1, <1>2, <1>3, <1>4, Zenon DEF Reports

\* The report is taken in.
Hears(c, t, L) == t = [c EXCEPT !.edge = FALSE, !.s_cond = L, !.cond = L]

Heard(c, t, L) ==
  /\ Sound(t, 0) /\ Data(t) /\ ~t.closed /\ t.setup = c.setup
  /\ t.hup = c.hup /\ t.read_src = c.read_src
  /\ "in" \notin L \/ t.read_src => ReadInv(t)
  /\ "out" \notin L => WriteInv(t)
  /\ L = c.s_cond => ReadInv(t) /\ WriteInv(t)

\* Taking a report in may break ReadInv and WriteInv alone.
LEMMA HearStep ==
  ASSUME NEW c, NEW t, NEW L, Inv(c), c.sock, Reports(c, L), Hears(c, t, L)
  PROVE  Heard(c, t, L)
<1>0. /\ Typed(c) /\ Refs(c, 0) /\ QuietInv(c) /\ StackInv(c) /\ EndInv(c) /\ TailInv(c)
      /\ Shape(c) /\ Data(c) /\ ReadInv(c) /\ WriteInv(c)
  BY Zenon DEF Inv, Good, Sound, Typed
<1>1. t = [c EXCEPT !.edge = FALSE, !.s_cond = L, !.cond = L]
  BY Zenon DEF Hears
<1>2. Shape(t)
  BY <1>0, <1>1, Zenon DEF Shape
<1>3. SameIn(c, t) /\ SameOut(c, t) /\ SameTls(c, t) /\ SameIdle(c, t) /\ t.ref = c.ref
  BY ONLY <1>0, <1>1 DEF Shape, Fields, SameIn, SameOut, SameTls, SameIdle
<1>4. /\ t.setup = c.setup /\ t.forced = c.forced /\ t.delayed_close = c.delayed_close
      /\ t.close_locked = c.close_locked /\ t.orphan = c.orphan /\ t.held = c.held
      /\ t.shut = c.shut /\ t.blocked = c.blocked /\ t.hup = c.hup /\ t.edge = FALSE
      /\ t.closed = c.closed /\ t.sock = c.sock /\ t.s_cond = L /\ t.cond = L
  BY ONLY <1>0, <1>1 DEF Shape, Fields
<1>5. EndTyped(t) /\ IdleTyped(t)
  BY <1>0, <1>3, <1>4, Zenon DEF Typed, EndTyped, IdleTyped, SameIdle, Reports
<1>6. Typed(t)
  BY <1>0, <1>2, <1>3, <1>5, InSame, OutSame, TlsSame, Zenon DEF Typed
<1>7. Refs(t, 0)
  BY <1>0, <1>3, <1>4, Zenon DEF Refs, Sources, SameIn, SameOut, SameIdle
<1>8. ~t.closed /\ QuietInv(t)
  BY <1>0, <1>4, Zenon DEF QuietInv
<1>9. StackInv(t)
  BY <1>0, <1>3, <1>4, Zenon DEF StackInv, SameIn, SameOut, SameTls, Tls
<1>10. EndInv(t)
  BY <1>0, <1>3, <1>4, Zenon DEF EndInv, SameOut
<1>11. TailInv(t)
  <2>1. Eager(t) = Eager(c)
    BY <1>4, Zenon DEF Eager, Tls
  <2> QED BY <1>0, <1>3, <1>4, <2>1, Zenon DEF TailInv, SameIn, SameIdle
<1>12. Data(t)
  BY <1>0, <1>3, Zenon DEF Data, SameIn, SameOut
<1>13. "in" \notin L \/ t.read_src => ReadInv(t)
  BY <1>0, <1>3, <1>4, Zenon DEF ReadInv, SameIn, SameTls, Reports
<1>14. "out" \notin L => WriteInv(t)
  BY <1>0, <1>3, <1>4, Zenon DEF WriteInv, SameOut, SameTls, Reports
<1>15. L = c.s_cond => ReadInv(t)
  BY <1>0, <1>3, <1>4, Zenon DEF ReadInv, SameIn, SameTls, Reports
<1>16. L = c.s_cond => WriteInv(t)
  BY <1>0, <1>3, <1>4, Zenon DEF WriteInv, SameOut, SameTls, Reports
<1>17. Sound(t, 0) /\ t.read_src = c.read_src
  BY <1>3, <1>6, <1>7, <1>8, <1>9, <1>10, <1>11, Zenon DEF Sound, SameIn
<1> QED BY <1>4, <1>8, <1>12, <1>13, <1>14, <1>15, <1>16, <1>17, Zenon DEF Heard

\* An eager application always has a read pending while the connection is open.
LEMMA NotPendingCloses ==
  ASSUME NEW c, NEW n, Sound(c, n), ~READ_PENDING(c)
  PROVE  CanClose(c)
  BY Zenon DEF Sound, TailInv, CanClose, READ_PENDING

\* The close is put off.
PutsOff(u, d) == d = [u EXCEPT !.delayed_close = TRUE]

\* Putting the close off keeps the invariant.
LEMMA PutOffKeeps ==
  ASSUME NEW u, NEW d, Inv(u), u.hup, PutsOff(u, d)
  PROVE  Inv(d)
<1>1. Typed(u) /\ EndTyped(u) /\ EndInv(u) /\ Refs(u, 0) /\ u.ref \in Int /\ Shape(u)
      /\ u.close_src \in BOOLEAN /\ u.flush \in {"none", "waiting", "base", "done", "failed"}
  BY Zenon DEF Inv, Good, Sound, Typed, IdleTyped, OutTyped
<1>2. Ends(u, d, u.flush, u.forced, TRUE, u.close_locked, u.orphan, u.held, u.shut,
           u.blocked, u.hup, u.edge, u.sock, u.close_src, u.ref)
  <2>1. d = [u EXCEPT !.flush = u.flush, !.forced = u.forced,
                      !.delayed_close = TRUE, !.close_locked = u.close_locked,
                      !.orphan = u.orphan, !.held = u.held, !.shut = u.shut,
                      !.blocked = u.blocked, !.hup = u.hup, !.edge = u.edge,
                      !.sock = u.sock, !.close_src = u.close_src, !.ref = u.ref]
    <3>1. PutsOff(u, d)
      BY Zenon
    <3> QED BY ONLY <1>1, <3>1, ZenonT(60) DEF PutsOff, Shape, Fields
  <2> QED BY <1>1, <2>1, Zenon DEF Ends, EndTyped
<1>3. Ended(u, d, u.flush, u.forced, TRUE, u.close_locked, u.orphan, u.held, u.shut,
           u.blocked, u.hup, u.edge, u.sock, u.close_src, u.ref)
  BY <1>1, <1>2, EndStep, Zenon
<1>4. EndFrame(u, d) /\ Onward(u, d)
  BY <1>3, Zenon DEF Ended, Onward
<1>5. EndInv(d)
  <2>1. d.obuf = u.obuf
    BY <1>4, Zenon DEF EndFrame
  <2> QED BY <1>1, <1>3, <2>1, Zenon DEF Ended, EndInv
<1>6. Refs(d, 0)
  <2>1. /\ d.held = u.held /\ d.close_src = u.close_src /\ d.orphan = u.orphan
        /\ d.ref = u.ref /\ (d.flush # "none") = (u.flush # "none")
    BY <1>3, Zenon DEF Ended
  <2> QED BY <1>1, <1>4, <2>1, RefsSame, Zenon
<1> QED BY <1>4, <1>5, <1>6, EndKeeps, Zenon

\* The rest of evd_connection_socket_on_condition, on a connection that has heard
\* the report.
Responds(t, L, fails, d) ==
  LET u == IF "in" \in L /\ ~t.read_src
           THEN evd_connection_manage_read_condition(t, fails) ELSE t
  IN d = IF "hup" \in L
         THEN IF u.close_locked \/ u.read_src \/ READ_PENDING(u)
              THEN [u EXCEPT !.delayed_close = TRUE]
              ELSE evd_connection_close_in_idle(u)
         ELSE IF "out" \in L /\ ~u.write_src
         THEN evd_connection_manage_write_condition(u, fails) ELSE u

\* After the response to a report the invariant holds again.
LEMMA RespondStep ==
  ASSUME NEW c, NEW t, NEW L, NEW fails, NEW d, Heard(c, t, L), Reports(c, L),
         Responds(t, L, fails, d)
  PROVE  Inv(d)
<1> DEFINE u == IF "in" \in L /\ ~t.read_src
                THEN evd_connection_manage_read_condition(t, fails) ELSE t
<1>1. d = IF "hup" \in L
          THEN IF u.close_locked \/ u.read_src \/ READ_PENDING(u)
               THEN [u EXCEPT !.delayed_close = TRUE]
               ELSE evd_connection_close_in_idle(u)
          ELSE IF "out" \in L /\ ~u.write_src
          THEN evd_connection_manage_write_condition(u, fails) ELSE u
  BY Zenon DEF Responds
<1>2. /\ Sound(t, 0) /\ Data(t) /\ ~t.closed /\ t.setup = c.setup /\ t.hup = c.hup
      /\ "in" \notin L \/ t.read_src => ReadInv(t)
      /\ "out" \notin L => WriteInv(t)
      /\ 0 \in Int
  BY DEF Heard
<1>3. /\ Sound(u, 0) /\ Data(u) /\ ReadInv(u) /\ u.hup = c.hup /\ (u.closed => Tls(u))
      /\ "out" \notin L => WriteInv(u)
  <2>1. CASE "in" \in L /\ ~t.read_src
    <3>1. u = evd_connection_manage_read_condition(t, fails)
      BY <2>1, Zenon
    <3>2. ReadManaged(t, u, 0)
      BY <1>2, <3>1, ManageReadStep, Zenon
    <3> QED BY <1>2, <3>2, Zenon DEF ReadManaged
  <2>2. CASE ~("in" \in L /\ ~t.read_src)
    <3>1. u = t
      BY <2>2, Zenon
    <3> QED BY <1>2, <2>2, <3>1, Zenon
  <2> QED BY <2>1, <2>2, Zenon
<1> HIDE DEF u
<1>4. CASE "hup" \in L
  <2>1. u.hup
    BY <1>3, <1>4, Zenon DEF Reports
  <2>2. Inv(u)
    BY <1>3, <2>1, Zenon DEF Inv, Good, WriteInv
  <2>3. CASE u.close_locked \/ u.read_src \/ READ_PENDING(u)
    <3>1. PutsOff(u, d)
      BY <1>1, <1>4, <2>3, Zenon DEF PutsOff
    <3> QED BY <2>1, <2>2, <3>1, PutOffKeeps, Zenon
  <2>4. CASE ~(u.close_locked \/ u.read_src \/ READ_PENDING(u))
    <3>1. d = evd_connection_close_in_idle(u)
      BY <1>1, <1>4, <2>4, Zenon
    <3>2. CanClose(u)
      BY <1>3, <2>4, NotPendingCloses, Zenon
    <3> QED BY <2>2, <3>1, <3>2, IdleInv, Zenon
  <2> QED BY <2>3, <2>4, Zenon
<1>5. CASE "hup" \notin L /\ "out" \in L /\ ~u.write_src
  <2>1. d = evd_connection_manage_write_condition(u, fails)
    BY <1>1, <1>5, Zenon
  <2>2. WriteManaged(u, d, 0)
    BY <1>2, <1>3, <2>1, ManageWriteStep, Zenon
  <2> QED BY <1>3, <2>2, Zenon DEF WriteManaged, Inv, Good
<1>6. CASE "hup" \notin L /\ ~("out" \in L /\ ~u.write_src)
  <2>1. d = u
    BY <1>1, <1>6, Zenon
  <2>2. WriteInv(u)
    BY <1>3, <1>6, Zenon DEF WriteInv
  <2> QED BY <1>3, <2>1, <2>2, Zenon DEF Inv, Good
<1> QED BY <1>4, <1>5, <1>6, Zenon

\* evd_connection_socket_on_condition keeps the invariant.
LEMMA PollReportsAction ==
  ASSUME IInv, PollReports
  PROVE  IInv'
<1> DEFINE c == [conn EXCEPT !.edge = FALSE]
           L == Level(c)
           e == [c EXCEPT !.s_cond = L]
           t == [conn EXCEPT !.edge = FALSE, !.s_cond = L, !.cond = L]
<1>1. conn.sock /\ Inv(conn)
  BY Zenon DEF PollReports, IInv
<1>2. PICK fails \in IF conn.tls = "handshaking" THEN BOOLEAN ELSE {FALSE} :
        conn' = IF L = c.s_cond THEN c ELSE evd_connection_socket_on_condition(e, L, fails)
  BY Zenon DEF PollReports
<1>3. Shape(conn) /\ ~conn.closed /\ conn.cond = conn.s_cond
  BY <1>1, Zenon DEF Inv, Good, Sound, Typed, QuietInv, StackInv
<1>4. /\ c.rx = conn.rx /\ c.room = conn.room /\ c.hup = conn.hup
      /\ c.s_cond = conn.s_cond
  BY ONLY <1>3 DEF Shape, Fields
<1>5. Reports(conn, L)
  BY <1>4, LevelReports, Zenon DEF Reports
<1> HIDE DEF L
<1>6. Hears(conn, t, L) /\ Heard(conn, t, L)
  <2>1. Hears(conn, t, L)
    BY Zenon DEF Hears
  <2> HIDE DEF t
  <2> QED BY <1>1, <1>5, <2>1, HearStep, Zenon
<1>7. CASE L = c.s_cond
  <2>1. conn' = t
    <3>1. conn' = c
      BY <1>2, <1>7, Zenon
    <3>2. L = conn.s_cond /\ L = conn.cond
      BY <1>3, <1>4, <1>7, Zenon
    <3> QED BY ONLY <1>3, <3>1, <3>2, ZenonT(60) DEF Shape, Fields
  <2>2. Inv(t)
    BY <1>4, <1>6, <1>7, Zenon DEF Heard, Inv, Good
  <2>3. Inv(conn')
    BY <2>1, <2>2, Zenon
  <2> QED BY <2>3, Zenon DEF IInv
<1>8. CASE L # c.s_cond
  <2>1. conn' = evd_connection_socket_on_condition(e, L, fails)
    BY <1>2, <1>8, Zenon
  <2>2. [e EXCEPT !.cond = L] = t /\ e.closed = conn.closed
    BY ONLY <1>3 DEF Shape, Fields
  <2> HIDE DEF t, e
  <2>3. Responds(t, L, fails, conn')
    BY <1>3, <2>1, <2>2, Zenon DEF Responds, evd_connection_socket_on_condition
  <2>4. Inv(conn')
    BY ONLY <1>5, <1>6, <2>3, RespondStep, Zenon
  <2> QED BY <2>4, Zenon DEF IInv
<1> QED BY <1>7, <1>8, Zenon

\* A timer of the throttle expires and goes; its reference is still to be dropped.
ReadExpires(c, d) == d = [c EXCEPT !.read_src = FALSE, !.in_budget = Bandwidth]

WriteExpires(c, d) == d = [c EXCEPT !.write_src = FALSE, !.out_budget = Bandwidth]

\* One source less, one reference more to drop.
OneSourceLess(c, d) ==
  /\ c.close_src = d.close_src /\ c.held = d.held /\ c.orphan = d.orphan
  /\ c.flush = d.flush /\ c.ref = d.ref
  /\ \/ c.read_src /\ ~d.read_src /\ c.write_src = d.write_src
     \/ c.write_src /\ ~d.write_src /\ c.read_src = d.read_src

\* The references match, with the timer's still to be dropped.
LEMMA OneSourceLessRefs ==
  ASSUME NEW c, NEW d, Typed(c), Refs(c, 0), OneSourceLess(c, d)
  PROVE  Refs(d, 1)
<1> DEFINE h == Count(c.held)
           r == Count(c.read_src)
           w == Count(c.write_src)
           i == Count(c.close_src)
           f == Count(c.flush # "none")
           r2 == Count(d.read_src)
           w2 == Count(d.write_src)
<1>1. /\ h \in Int /\ r \in Int /\ w \in Int /\ i \in Int /\ f \in Int /\ r2 \in Int
      /\ w2 \in Int
  BY CountType, Zenon
<1>2. (r = 1 /\ r2 = 0 /\ w2 = w) \/ (w = 1 /\ w2 = 0 /\ r2 = r)
  BY CountType, Zenon DEF OneSourceLess
<1>3. c.orphan \in Int
  BY DEF Typed, EndTyped
<1>4. c.ref = h + (r + w + i) + c.orphan + f + 0
  BY Zenon DEF Refs, Sources
<1>5. Refs(d, 1) <=> c.ref = h + (r2 + w2 + i) + c.orphan + f + 1
  BY Zenon DEF Refs, Sources, OneSourceLess
<1> HIDE DEF h, r, w, i, f, r2, w2
<1>6. c.ref = h + (r2 + w2 + i) + c.orphan + f + 1
  BY <1>1, <1>2, <1>3, <1>4, SMTT(40)
<1> QED BY <1>5, <1>6, Zenon

\* The read timer's end may break ReadInv alone,
LEMMA ReadExpiresStep ==
  ASSUME NEW c, NEW d, Inv(c), c.read_src, ReadExpires(c, d)
  PROVE  Sound(d, 1) /\ Data(d) /\ WriteInv(d) /\ ~d.closed
<1>0. /\ Typed(c) /\ Refs(c, 0) /\ QuietInv(c) /\ StackInv(c) /\ EndInv(c) /\ TailInv(c)
      /\ Shape(c) /\ Data(c) /\ WriteInv(c) /\ ~c.closed
  BY Zenon DEF Inv, Good, Sound, Typed, QuietInv
<1>1. d = [c EXCEPT !.read_src = FALSE, !.in_budget = Bandwidth]
  BY Zenon DEF ReadExpires
<1>2. Shape(d)
  BY <1>0, <1>1, Zenon DEF Shape
<1>3. SameOut(c, d) /\ SameTls(c, d) /\ SameEnd(c, d) /\ SameIdle(c, d) /\ SameCond(c, d)
  BY ONLY <1>0, <1>1 DEF Shape, Fields, SameOut, SameTls, SameEnd, SameIdle, SameCond
<1>4. /\ d.bag = c.bag /\ d.ibuf = c.ibuf /\ d.got = c.got /\ d.rx = c.rx /\ d.sent = c.sent
      /\ d.reading = c.reading /\ d.do_read = c.do_read /\ d.frozen = c.frozen
      /\ d.in_budget = Bandwidth /\ d.read_src = FALSE /\ d.ref = c.ref
  BY ONLY <1>0, <1>1 DEF Shape, Fields
<1>5. InTyped(d) /\ IdleTyped(d)
  BY <1>0, <1>3, <1>4, ConnectionAssumption, Zenon DEF Typed, InTyped, IdleTyped, SameIdle,
     SameCond
<1>6. Typed(d)
  BY <1>0, <1>2, <1>3, <1>5, OutSame, TlsSame, EndSame, Zenon DEF Typed
<1>7. Refs(d, 1)
  <2>1. OneSourceLess(c, d)
    BY <1>3, <1>4, Zenon DEF OneSourceLess, SameOut, SameEnd, SameIdle
  <2> QED BY <1>0, <2>1, OneSourceLessRefs, Zenon
<1>8. QuietInv(d) /\ EndInv(d) /\ StackInv(d) /\ ~d.closed
  BY <1>0, <1>3, <1>4, ZenonT(60) DEF QuietInv, EndInv, StackInv, Tls, SameOut, SameEnd, SameTls,
     SameCond
<1>9. TailInv(d)
  <2>1. Eager(d) = Eager(c)
    BY <1>3, Zenon DEF Eager, Tls, SameEnd
  <2> QED BY <1>0, <1>3, <1>4, <2>1, Zenon DEF TailInv, SameEnd, SameIdle
<1>10. Data(d) /\ WriteInv(d)
  BY <1>0, <1>3, <1>4, ZenonT(60) DEF Data, WriteInv, SameOut, SameEnd, SameTls, SameCond
<1> QED BY <1>6, <1>7, <1>8, <1>9, <1>10, Zenon DEF Sound

\* and the write timer's end WriteInv alone.
LEMMA WriteExpiresStep ==
  ASSUME NEW c, NEW d, Inv(c), c.write_src, WriteExpires(c, d)
  PROVE  Sound(d, 1) /\ Data(d) /\ ReadInv(d) /\ ~d.closed
<1>0. /\ Typed(c) /\ Refs(c, 0) /\ QuietInv(c) /\ StackInv(c) /\ EndInv(c) /\ TailInv(c)
      /\ Shape(c) /\ Data(c) /\ ReadInv(c) /\ ~c.closed
  BY Zenon DEF Inv, Good, Sound, Typed, QuietInv
<1>1. d = [c EXCEPT !.write_src = FALSE, !.out_budget = Bandwidth]
  BY Zenon DEF WriteExpires
<1>2. Shape(d)
  BY <1>0, <1>1, Zenon DEF Shape
<1>3. SameIn(c, d) /\ SameTls(c, d) /\ SameEnd(c, d) /\ SameIdle(c, d) /\ SameCond(c, d)
  BY ONLY <1>0, <1>1 DEF Shape, Fields, SameIn, SameTls, SameEnd, SameIdle, SameCond
<1>4. /\ d.obuf = c.obuf /\ d.wire = c.wire /\ d.written = c.written
      /\ d.auto_flush = c.auto_flush /\ d.flush = c.flush /\ d.room = c.room
      /\ d.out_budget = Bandwidth /\ d.write_src = FALSE /\ d.ref = c.ref
  BY ONLY <1>0, <1>1 DEF Shape, Fields
<1>5. OutTyped(d) /\ IdleTyped(d)
  BY <1>0, <1>3, <1>4, ConnectionAssumption, Zenon DEF Typed, OutTyped, IdleTyped, SameIdle,
     SameCond
<1>6. Typed(d)
  BY <1>0, <1>2, <1>3, <1>5, InSame, TlsSame, EndSame, Zenon DEF Typed
<1>7. Refs(d, 1)
  <2>1. OneSourceLess(c, d)
    BY <1>3, <1>4, Zenon DEF OneSourceLess, SameIn, SameEnd, SameIdle
  <2> QED BY <1>0, <2>1, OneSourceLessRefs, Zenon
<1>8. QuietInv(d) /\ EndInv(d) /\ StackInv(d) /\ ~d.closed
  BY <1>0, <1>3, <1>4, ZenonT(60) DEF QuietInv, EndInv, StackInv, Tls, SameIn, SameEnd, SameTls,
     SameCond
<1>9. TailInv(d)
  <2>1. Eager(d) = Eager(c)
    BY <1>3, Zenon DEF Eager, Tls, SameEnd
  <2> QED BY <1>0, <1>3, <2>1, Zenon DEF TailInv, SameIn, SameEnd, SameIdle
<1>10. Data(d) /\ ReadInv(d)
  BY <1>0, <1>3, <1>4, ZenonT(60) DEF Data, ReadInv, SameIn, SameEnd, SameTls, SameCond
<1> QED BY <1>6, <1>7, <1>8, <1>9, <1>10, Zenon DEF Sound

\* evd_connection_read_wait_timeout keeps the invariant.
LEMMA ReadTimeoutAction ==
  ASSUME IInv, evd_connection_read_wait_timeout
  PROVE  IInv'
<1> DEFINE x == [conn EXCEPT !.read_src = FALSE, !.in_budget = Bandwidth]
           c == evd_connection_manage_read_condition(x, FALSE)
           d == IF c.delayed_close /\ ~READ_PENDING(c) THEN CloseNow(c) ELSE c
<1>1. conn.read_src /\ conn' = Unref(d) /\ Inv(conn)
  BY Zenon DEF evd_connection_read_wait_timeout, IInv
<1>2. Sound(x, 1) /\ Data(x) /\ WriteInv(x) /\ ~x.closed
  <2>1. ReadExpires(conn, x)
    BY Zenon DEF ReadExpires
  <2> HIDE DEF x
  <2> QED BY ONLY <1>1, <2>1, ReadExpiresStep, Zenon
<1> HIDE DEF x
<1>3. 1 \in Int
  OBVIOUS
<1>4. Sound(c, 1) /\ Data(c) /\ ReadInv(c) /\ WriteInv(c)
  <2>1. ReadManaged(x, c, 1)
    BY <1>2, <1>3, ManageReadStep, Zenon
  <2> HIDE DEF c
  <2> QED BY <1>2, <2>1, Zenon DEF ReadManaged
<1> HIDE DEF c
<1>5. Good(d, 1) /\ ReadInv(d) /\ WriteInv(d)
  <2>1. CASE c.delayed_close /\ ~READ_PENDING(c)
    <3>1. d = CloseNow(c) /\ CanClose(c)
      BY <1>4, <2>1, NotPendingCloses, Zenon
    <3>2. Sound(d, 1) /\ Data(d) /\ ~d.sock
      BY <1>3, <1>4, <3>1, CloseNowSound, Zenon
    <3> QED BY <3>2, GoneKeeps, Zenon DEF Good
  <2>2. CASE ~(c.delayed_close /\ ~READ_PENDING(c))
    BY <1>4, <2>2, Zenon DEF Good
  <2> QED BY <2>1, <2>2, Zenon
<1> HIDE DEF d
<1>6. Inv(conn')
  BY <1>1, <1>5, UnrefInv, Zenon
<1> QED BY <1>6, Zenon DEF IInv

\* evd_connection_write_wait_timeout keeps the invariant.
LEMMA WriteTimeoutAction ==
  ASSUME IInv, evd_connection_write_wait_timeout
  PROVE  IInv'
<1> DEFINE x == [conn EXCEPT !.write_src = FALSE, !.out_budget = Bandwidth]
           c == evd_connection_manage_write_condition(x, FALSE)
<1>1. conn.write_src /\ conn' = Unref(c) /\ Inv(conn)
  BY Zenon DEF evd_connection_write_wait_timeout, WriteTimeout, IInv
<1>2. Sound(x, 1) /\ Data(x) /\ ReadInv(x) /\ ~x.closed
  <2>1. WriteExpires(conn, x)
    BY Zenon DEF WriteExpires
  <2> HIDE DEF x
  <2> QED BY ONLY <1>1, <2>1, WriteExpiresStep, Zenon
<1> HIDE DEF x
<1>3. 1 \in Int
  OBVIOUS
<1>4. Good(c, 1) /\ ReadInv(c) /\ WriteInv(c)
  <2>1. WriteManaged(x, c, 1)
    BY <1>2, <1>3, ManageWriteStep, Zenon
  <2> HIDE DEF c
  <2> QED BY <1>2, <2>1, Zenon DEF WriteManaged, Good
<1> HIDE DEF c
<1>5. Inv(conn')
  BY <1>1, <1>4, UnrefInv, Zenon
<1> QED BY <1>5, Zenon DEF IInv

-----------------------------------------------------------------------------
\* The peer and the kernel.

\* Something arrives at the socket, or leaves it.
Arrives(c, d, sent, rx, hs, room) ==
  d = [c EXCEPT !.sent = sent, !.rx = rx, !.hs_rx = hs, !.room = room, !.edge = TRUE]

\* What may arrive while the peer has not hung up.
Arrival(c, sent, rx, hs, room) ==
  /\ sent \in Nat /\ rx \in Seq(Nat) /\ hs \in 0..1 /\ room \in 0..Room /\ hs <= c.flights
  /\ rx = c.rx \/ ~c.hup
  /\ c.got \o c.ibuf \o c.bag \o rx = Numbers(sent)

\* What arrives or leaves makes an edge where one is awaited.
LEMMA ArriveStep ==
  ASSUME NEW c, NEW d, NEW sent, NEW rx, NEW hs, NEW room, Inv(c), c.sock,
         Arrival(c, sent, rx, hs, room), Arrives(c, d, sent, rx, hs, room)
  PROVE  Inv(d)
<1>0. /\ Typed(c) /\ Refs(c, 0) /\ QuietInv(c) /\ StackInv(c) /\ EndInv(c) /\ TailInv(c)
      /\ Shape(c) /\ Data(c) /\ ReadInv(c) /\ WriteInv(c) /\ ~c.closed
  BY Zenon DEF Inv, Good, Sound, Typed, QuietInv
<1>1. d = [c EXCEPT !.sent = sent, !.rx = rx, !.hs_rx = hs, !.room = room, !.edge = TRUE]
  BY Zenon DEF Arrives
<1>2. Shape(d)
  BY <1>0, <1>1, Zenon DEF Shape
<1>3. /\ d.bag = c.bag /\ d.ibuf = c.ibuf /\ d.got = c.got /\ d.rx = rx /\ d.sent = sent
      /\ d.reading = c.reading /\ d.do_read = c.do_read /\ d.frozen = c.frozen
      /\ d.in_budget = c.in_budget /\ d.read_src = c.read_src
  BY ONLY <1>0, <1>1, SMTT(40) DEF Shape, Fields
<1>4. /\ d.obuf = c.obuf /\ d.wire = c.wire /\ d.written = c.written
      /\ d.auto_flush = c.auto_flush /\ d.flush = c.flush /\ d.out_budget = c.out_budget
      /\ d.room = room /\ d.write_src = c.write_src
  BY ONLY <1>0, <1>1 DEF Shape, Fields
<1>5. /\ d.tls = c.tls /\ d.session = c.session /\ d.cred = c.cred /\ d.flights = c.flights
      /\ d.hs_rx = hs /\ d.hello = c.hello /\ d.deaf = c.deaf
  BY ONLY <1>0, <1>1 DEF Shape, Fields
<1>6. /\ d.setup = c.setup /\ d.forced = c.forced /\ d.delayed_close = c.delayed_close
      /\ d.close_locked = c.close_locked /\ d.orphan = c.orphan /\ d.held = c.held
      /\ d.shut = c.shut /\ d.blocked = c.blocked /\ d.hup = c.hup /\ d.edge = TRUE
      /\ d.closed = c.closed /\ d.sock = c.sock
  BY ONLY <1>0, <1>1 DEF Shape, Fields
<1>7. SameIdle(c, d) /\ SameCond(c, d) /\ d.ref = c.ref
  BY ONLY <1>0, <1>1 DEF Shape, Fields, SameIdle, SameCond
<1>8. InTyped(d) /\ OutTyped(d) /\ TlsTyped(d)
  BY <1>0, <1>3, <1>4, <1>5, Zenon DEF Typed, InTyped, OutTyped, TlsTyped, Arrival
<1>9. EndTyped(d) /\ IdleTyped(d)
  BY <1>0, <1>6, <1>7, Zenon DEF Typed, EndTyped, IdleTyped, SameIdle, SameCond
<1>10. Typed(d)
  BY <1>2, <1>8, <1>9, Zenon DEF Typed
<1>11. Refs(d, 0)
  BY <1>0, <1>3, <1>4, <1>6, <1>7, Zenon DEF Refs, Sources, SameIdle
<1>12. QuietInv(d)
  BY <1>0, <1>6, Zenon DEF QuietInv
<1>13. StackInv(d)
  BY <1>0, <1>3, <1>4, <1>5, <1>6, <1>7, Zenon DEF StackInv, Tls, SameCond, Arrival
<1>14. EndInv(d)
  BY <1>0, <1>4, <1>6, Zenon DEF EndInv
<1>15. TailInv(d)
  <2>1. Eager(d) = Eager(c)
    BY <1>6, Zenon DEF Eager, Tls
  <2> QED BY <1>0, <1>3, <1>6, <1>7, <2>1, Zenon DEF TailInv, SameIdle, Arrival
<1>16. Data(d)
  BY <1>0, <1>3, <1>4, Zenon DEF Data, Arrival
<1>17. ReadInv(d)
  BY <1>0, <1>3, <1>5, <1>6, <1>7, Zenon DEF ReadInv, SameCond, Arrival
<1>18. WriteInv(d)
  BY <1>0, <1>4, <1>5, <1>6, <1>7, Zenon DEF WriteInv, SameCond
<1> QED BY <1>10, <1>11, <1>12, <1>13, <1>14, <1>15, <1>16, <1>17, <1>18, Zenon
        DEF Inv, Good, Sound

\* The next unit continues the numbers.
LEMMA NumbersNext ==
  ASSUME NEW n \in Nat
  PROVE  Numbers(n) \o <<n + 1>> = Numbers(n + 1) /\ <<n + 1>> \in Seq(Nat)
<1>1. <<n + 1>> \in Seq(Nat) /\ Len(<<n + 1>>) = 1 /\ <<n + 1>>[1] = n + 1
  OBVIOUS
<1>2. /\ Numbers(n) \in Seq(Nat) /\ Len(Numbers(n)) = n
      /\ \A i \in 1..n : Numbers(n)[i] = i
  BY DEF Numbers
<1>3. /\ Numbers(n + 1) \in Seq(Nat) /\ Len(Numbers(n + 1)) = n + 1
      /\ \A i \in 1..(n + 1) : Numbers(n + 1)[i] = i
  BY DEF Numbers
<1>4. \A i \in 1..Len(<<n + 1>>) : <<n + 1>>[i] = Numbers(n + 1)[Len(Numbers(n)) + i]
  BY <1>1, <1>2, <1>3, SMTT(40)
<1>5. \A i \in 1..Len(Numbers(n)) : Numbers(n)[i] = Numbers(n + 1)[i]
  BY <1>2, <1>3, SMTT(40)
<1>6. Len(Numbers(n + 1)) = Len(Numbers(n)) + Len(<<n + 1>>)
  BY <1>1, <1>2, <1>3, SMTT(40)
<1>7. Numbers(n) \o <<n + 1>> = Numbers(n + 1)
  BY ONLY <1>1, <1>2, <1>3, <1>4, <1>5, <1>6, Glue, Zenon
<1> QED BY <1>1, <1>7, Zenon

\* One more unit at the end of what was received.
LEMMA DataGrows ==
  ASSUME NEW a \in Seq(Nat), NEW rx \in Seq(Nat), NEW n \in Nat, a \o rx = Numbers(n)
  PROVE  a \o Append(rx, n + 1) = Numbers(n + 1) /\ Append(rx, n + 1) \in Seq(Nat)
<1>1. Numbers(n) \o <<n + 1>> = Numbers(n + 1) /\ <<n + 1>> \in Seq(Nat)
  BY NumbersNext, Zenon
<1>2. Append(rx, n + 1) = rx \o <<n + 1>> /\ Append(rx, n + 1) \in Seq(Nat)
  OBVIOUS
<1>3. (a \o rx) \o <<n + 1>> = a \o (rx \o <<n + 1>>)
  BY <1>1, ConcatAssoc, Zenon
<1> QED BY <1>1, <1>2, <1>3, Zenon

\* Data of the peer keep the invariant.
LEMMA PeerSendsAction ==
  ASSUME IInv, PeerSends
  PROVE  IInv'
<1> DEFINE sent == conn.sent + 1
           rx == Append(conn.rx, conn.sent + 1)
<1>1. /\ Inv(conn) /\ conn.sock /\ ~conn.hup
      /\ conn' = [conn EXCEPT !.sent = sent, !.rx = rx, !.edge = TRUE]
  BY Zenon DEF PeerSends, IInv
<1>2. /\ Shape(conn) /\ InTyped(conn) /\ OutTyped(conn) /\ TlsTyped(conn) /\ StackInv(conn)
      /\ Data(conn)
  BY <1>1, Zenon DEF Inv, Good, Sound, Typed
<1>3. /\ conn.sent \in Nat /\ conn.rx \in Seq(Nat) /\ conn.got \in Seq(Nat)
      /\ conn.ibuf \in Seq(Nat) /\ conn.bag \in Seq(Nat)
      /\ conn.got \o conn.ibuf \o conn.bag \o conn.rx = Numbers(conn.sent)
  BY <1>2, Zenon DEF InTyped, Data
<1>4. conn.got \o conn.ibuf \o conn.bag \in Seq(Nat)
  BY <1>3, ConcatSeq, Zenon
<1>5. rx \in Seq(Nat) /\ conn.got \o conn.ibuf \o conn.bag \o rx = Numbers(sent)
  BY <1>3, <1>4, DataGrows, ZenonT(60)
<1>6. sent \in Nat
  BY <1>3
<1> HIDE DEF sent, rx
<1>7. Arrival(conn, sent, rx, conn.hs_rx, conn.room)
  BY <1>1, <1>2, <1>5, <1>6, Zenon DEF Arrival, OutTyped, TlsTyped, StackInv
<1>8. Arrives(conn, conn', sent, rx, conn.hs_rx, conn.room)
  <2>1. conn' = [conn EXCEPT !.sent = sent, !.rx = rx, !.hs_rx = conn.hs_rx,
                             !.room = conn.room, !.edge = TRUE]
    BY ONLY <1>1, <1>2, ZenonT(60) DEF Shape, Fields
  <2> QED BY <2>1, Zenon DEF Arrives
<1>9. Inv(conn')
  BY ONLY <1>1, <1>7, <1>8, ArriveStep, Zenon
<1> QED BY <1>9, Zenon DEF IInv

\* A flight of the peer's handshake keeps the invariant.
LEMMA PeerHandshakesAction ==
  ASSUME IInv, PeerHandshakes
  PROVE  IInv'
<1>1. /\ Inv(conn) /\ conn.sock /\ conn.flights > 0
      /\ conn' = [conn EXCEPT !.hs_rx = 1, !.edge = TRUE]
  BY Zenon DEF PeerHandshakes, IInv
<1>2. /\ Shape(conn) /\ InTyped(conn) /\ OutTyped(conn) /\ TlsTyped(conn) /\ Data(conn)
  BY <1>1, Zenon DEF Inv, Good, Sound, Typed
<1>3. 1 <= conn.flights /\ 1 \in 0..1
  BY <1>1, <1>2, SMTT(40) DEF TlsTyped
<1>4. Arrival(conn, conn.sent, conn.rx, 1, conn.room)
  BY <1>2, <1>3, Zenon DEF Arrival, OutTyped, InTyped, Data
<1>5. Arrives(conn, conn', conn.sent, conn.rx, 1, conn.room)
  <2>1. conn' = [conn EXCEPT !.sent = conn.sent, !.rx = conn.rx, !.hs_rx = 1,
                             !.room = conn.room, !.edge = TRUE]
    BY ONLY <1>1, <1>2, ZenonT(60) DEF Shape, Fields
  <2> QED BY <2>1, Zenon DEF Arrives
<1>6. Inv(conn')
  BY ONLY <1>1, <1>4, <1>5, ArriveStep, Zenon
<1> QED BY <1>6, Zenon DEF IInv

\* Data that leave the kernel's buffer keep the invariant.
LEMMA KernelSendsAction ==
  ASSUME IInv, KernelSends
  PROVE  IInv'
<1>1. /\ Inv(conn) /\ conn.sock
      /\ conn' = [conn EXCEPT !.room = Room, !.edge = TRUE]
  BY Zenon DEF KernelSends, IInv
<1>2. /\ Shape(conn) /\ InTyped(conn) /\ StackInv(conn) /\ TlsTyped(conn) /\ Data(conn)
  BY <1>1, Zenon DEF Inv, Good, Sound, Typed
<1>3. Room \in 0..Room
  BY ConnectionAssumption
<1>4. Arrival(conn, conn.sent, conn.rx, conn.hs_rx, Room)
  BY <1>2, <1>3, Zenon DEF Arrival, InTyped, Data, TlsTyped, StackInv
<1>5. Arrives(conn, conn', conn.sent, conn.rx, conn.hs_rx, Room)
  <2>1. conn' = [conn EXCEPT !.sent = conn.sent, !.rx = conn.rx, !.hs_rx = conn.hs_rx,
                             !.room = Room, !.edge = TRUE]
    BY ONLY <1>1, <1>2, ZenonT(60) DEF Shape, Fields
  <2> QED BY <2>1, Zenon DEF Arrives
<1>6. Inv(conn')
  BY ONLY <1>1, <1>4, <1>5, ArriveStep, Zenon
<1> QED BY <1>6, Zenon DEF IInv

-----------------------------------------------------------------------------
\* The invariant holds.

\* A new connection satisfies the invariant.
LEMMA StartsSound ==
  ASSUME NEW st \in Setups, NEW c,
         c = evd_connection_setup_streams(evd_connection_init(st), st)
  PROVE  Inv(c)
<1> DEFINE reads == st.kind \notin {"client", "server"} /\ st.eager > 0
           i == evd_connection_init(st)
           k == IF reads THEN st.eager ELSE 0
<1>1. c = [i EXCEPT !.reading = k, !.do_read = reads, !.connected = TRUE]
  BY Zenon DEF evd_connection_setup_streams
<1>2. st \in Setup /\ Room \in Nat /\ Bandwidth \in Nat
  BY ConnectionAssumption, Zenon
<1>3. st.eager \in 0..2
  BY <1>2 DEF Setup
<1>4. k \in 0..2 /\ reads \in BOOLEAN /\ (reads => k > 0 /\ k = st.eager)
  BY <1>3
<1>5. reads \/ ~(st.kind \notin {"client", "server"} /\ st.eager > 0)
  BY Zenon
<1> HIDE DEF reads, k
<1>6. Shape(i)
  BY ZenonT(60) DEF evd_connection_init, Shape, Fields
<1>7. /\ i.bag = <<>> /\ i.ibuf = <<>> /\ i.got = <<>> /\ i.rx = <<>> /\ i.sent = 0
      /\ i.frozen = FALSE /\ i.in_budget = Bandwidth /\ i.read_src = FALSE
      /\ i.obuf = <<>> /\ i.wire = <<>> /\ i.written = 0 /\ i.auto_flush = TRUE
      /\ i.flush = "none" /\ i.out_budget = Bandwidth /\ i.room = Room
      /\ i.write_src = FALSE
  BY SMTT(40) DEF evd_connection_init
<1>8. /\ i.tls = "off" /\ i.session = FALSE /\ i.cred = FALSE /\ i.flights = 2
      /\ i.hs_rx = 0 /\ i.hello = FALSE /\ i.deaf = FALSE
      /\ i.setup = st /\ i.forced = FALSE /\ i.closed = FALSE /\ i.delayed_close = FALSE
      /\ i.close_locked = FALSE /\ i.orphan = 0 /\ i.held = TRUE /\ i.shut = FALSE
      /\ i.blocked = FALSE /\ i.hup = FALSE /\ i.edge = TRUE /\ i.sock = TRUE
      /\ i.close_src = FALSE /\ i.ref = 1 /\ i.cond = {} /\ i.s_cond = {}
  BY DEF evd_connection_init
<1> HIDE DEF i
<1>9. Shape(c)
  BY <1>1, <1>6, Zenon DEF Shape
<1>10. /\ c.bag = i.bag /\ c.ibuf = i.ibuf /\ c.got = i.got /\ c.rx = i.rx /\ c.sent = i.sent
       /\ c.reading = k /\ c.do_read = reads /\ c.frozen = i.frozen
       /\ c.in_budget = i.in_budget /\ c.read_src = i.read_src /\ c.connected = TRUE
  BY ONLY <1>1, <1>6, SMTT(40) DEF Shape, Fields
<1>11. /\ SameOut(i, c) /\ SameTls(i, c) /\ SameEnd(i, c) /\ SameCond(i, c)
       /\ c.close_src = i.close_src /\ c.ref = i.ref
  BY ONLY <1>1, <1>6, SMTT(40) DEF Shape, Fields, SameOut, SameTls, SameEnd, SameCond
<1>12. /\ 0 \in Nat /\ Room \in 0..Room /\ 2 \in 0..2 /\ 0 \in 0..1 /\ 1 \in Int /\ 0 <= 2
       /\ <<>> \in Seq(Nat)
  BY <1>2
<1>13. InTyped(c)
  BY <1>2, <1>4, <1>7, <1>10, <1>12, Zenon DEF InTyped
<1>14. OutTyped(c)
  BY <1>2, <1>7, <1>11, <1>12, Zenon DEF OutTyped, SameOut
<1>15. TlsTyped(c)
  BY <1>8, <1>11, <1>12, Zenon DEF TlsTyped, SameTls
<1>16. EndTyped(c)
  BY <1>2, <1>8, <1>11, <1>12, ZenonT(60) DEF EndTyped, SameEnd
<1>17. IdleTyped(c)
  BY <1>8, <1>10, <1>11, <1>12, Zenon DEF IdleTyped, SameCond
<1>18. Typed(c)
  BY <1>9, <1>13, <1>14, <1>15, <1>16, <1>17, Zenon DEF Typed
<1>19. Refs(c, 0)
  <2>1. /\ Count(c.held) = 1 /\ Count(c.read_src) = 0 /\ Count(c.write_src) = 0
        /\ Count(c.close_src) = 0 /\ Count(c.flush # "none") = 0
    <3>1. c.held /\ ~c.read_src /\ ~c.write_src /\ ~c.close_src /\ ~(c.flush # "none")
      BY <1>7, <1>8, <1>10, <1>11, Zenon DEF SameOut, SameEnd
    <3> QED BY <3>1, CountType, Zenon
  <2>2. c.ref = 1 /\ c.orphan = 0
    BY <1>8, <1>11, Zenon DEF SameEnd
  <2>3. 1 = 1 + (0 + 0 + 0) + 0 + 0 + 0
    OBVIOUS
  <2> QED BY <2>1, <2>2, <2>3, Zenon DEF Refs, Sources
<1>20. QuietInv(c) /\ EndInv(c)
  BY <1>7, <1>8, <1>11, Zenon DEF QuietInv, EndInv, SameEnd, SameOut
<1>21. StackInv(c)
  <2>1. c.cond = {} /\ c.s_cond = {} /\ c.frozen = FALSE /\ c.auto_flush = TRUE
        /\ c.tls = "off"
    BY <1>7, <1>8, <1>10, <1>11, SMTT(40) DEF SameOut, SameTls, SameCond
  <2>2. c.hs_rx <= c.flights
    BY <1>8, <1>11, <1>12, Zenon DEF SameTls
  <2> QED BY <2>1, <2>2, Zenon DEF StackInv
<1>22. TailInv(c)
  <2>1. Eager(c) => reads
    BY <1>5, <1>8, <1>11, Zenon DEF Eager, Tls, SameEnd
  <2> QED BY <1>4, <1>7, <1>8, <1>10, <1>11, <2>1, Zenon DEF TailInv, SameEnd
<1>23. Data(c)
  <2>1. Numbers(0) = <<>> /\ <<>> \o <<>> = <<>> /\ Len(<<>>) <= 1
    BY NumbersSeq, EmptyLen, EmptySeq, SMTT(40)
  <2>2. /\ c.got = <<>> /\ c.ibuf = <<>> /\ c.bag = <<>> /\ c.rx = <<>> /\ c.sent = 0
        /\ c.wire = <<>> /\ c.obuf = <<>> /\ c.written = 0
    BY <1>7, <1>10, <1>11, Zenon DEF SameOut
  <2>3. c.got \o c.ibuf \o c.bag \o c.rx = <<>> /\ c.wire \o c.obuf = <<>>
    BY ONLY <2>1, <2>2, SMTT(40)
  <2>4. Len(c.bag) <= 1
    BY ONLY <2>1, <2>2, SMTT(40)
  <2> QED BY <2>1, <2>2, <2>3, <2>4, Zenon DEF Data
<1>24. ReadInv(c)
  <2>1. ~reads => ~(k > 0)
    BY DEF k
  <2> QED BY <1>10, <2>1, Zenon DEF ReadInv
<1>25. WriteInv(c)
  BY <1>7, <1>11, Zenon DEF WriteInv, SameOut
<1> QED BY <1>18, <1>19, <1>20, <1>21, <1>22, <1>23, <1>24, <1>25, Zenon DEF Inv, Good, Sound

\* The invariant holds initially.
LEMMA InitHolds == ConnectionInit => IInv
<1> SUFFICES ASSUME ConnectionInit PROVE IInv
  OBVIOUS
<1>1. PICK st \in Setups : conn = evd_connection_setup_streams(evd_connection_init(st), st)
  BY Zenon DEF ConnectionInit
<1> QED BY <1>1, StartsSound, Zenon DEF IInv

\* Every step keeps the invariant.
LEMMA NextKeeps == IInv /\ [ConnectionNext]_conn => IInv'
<1> SUFFICES ASSUME IInv, [ConnectionNext]_conn PROVE IInv'
  OBVIOUS
<1>1. CASE UNCHANGED conn
  BY <1>1, Zenon DEF IInv
<1>2. CASE ConnectionNext
  BY <1>2, DoReadAction, ReadAsyncAction, UnreadAction, WriteAction, FlushAndShutdownAction,
     BaseFlushedAction, ShutdownAction, CloseInIdleCbAction, StarttlsAction,
     CredentialsReadyAction, PollReportsAction, ReadTimeoutAction, WriteTimeoutAction,
     LockAction, UnlockAction, AppClosesAction, AppUnrefsAction, StatusChangedAction,
     PeerSendsAction, PeerHandshakesAction, PeerClosesAction, KernelSendsAction, Zenon
     DEF ConnectionNext
<1> QED BY <1>1, <1>2

\* The invariant that the theorems rest on: types, references, data, quiet after the
\* close, the conditions the socket knows, the reasons to end, and what a pending
\* read or a filled buffer waits for.
THEOREM ConnectionInvariant == ConnectionSpec => []IInv
  BY InitHolds, NextKeeps, PTL DEF ConnectionSpec

-----------------------------------------------------------------------------
\* What it says.

\* The invariant implies the types,
LEMMA TypeFollows == IInv => ConnectionTypeOK
<1> SUFFICES ASSUME Inv(conn) PROVE ConnectionTypeOK
  BY Zenon DEF IInv
<1>1. Typed(conn) /\ Refs(conn, 0)
  BY Zenon DEF Inv, Good, Sound
<1>2. 0 \in Nat
  OBVIOUS
<1> QED BY <1>1, <1>2, TypedIsState, RefsNotNegative, ZenonT(40) DEF ConnectionTypeOK

\* the order of the data,
LEMMA DataFollow == IInv => DataKept
  BY Zenon DEF IInv, Inv, Good, Data, DataKept, InputInOrder, OutputInOrder

\* (three empty queues hold nothing)
LEMMA NothingLeft ==
  ASSUME NEW c, InTyped(c), c.rx = <<>>, c.bag = <<>>, c.ibuf = <<>>
  PROVE  c.rx \o c.bag \o c.ibuf = <<>>
  OBVIOUS

\* the wake-ups,
LEMMA WakeupFollows == IInv => NoLostWakeup
<1> SUFFICES ASSUME Inv(conn) PROVE NoLostRead /\ NoLostWrite
  BY Zenon DEF IInv, NoLostWakeup
<1>1. InTyped(conn) /\ ReadInv(conn) /\ WriteInv(conn)
  BY Zenon DEF Inv, Good, Sound, Typed
<1>2. Reports(conn, Level(conn))
  BY LevelReports, Zenon
<1>3. NoLostRead
  <2> SUFFICES ASSUME conn.reading > 0, conn.tls # "handshaking", conn.sock, ~conn.do_read,
                      ~conn.read_src, conn.rx \o conn.bag \o conn.ibuf # <<>>
               PROVE  conn.edge /\ Level(conn) # conn.s_cond
    BY Zenon DEF NoLostRead
  <2>1. conn.bag = <<>> /\ conn.ibuf = <<>>
    BY <1>1, Zenon DEF ReadInv
  <2>2. conn.rx # <<>>
    BY <1>1, <2>1, NothingLeft, Zenon
  <2> QED BY <1>1, <1>2, <2>2, Zenon DEF ReadInv, Reports
<1>4. NoLostWrite
  BY <1>1, <1>2, Zenon DEF NoLostWrite, WriteInv, Reports
<1> QED BY <1>3, <1>4, Zenon

\* and what is promised of the close.
LEMMA CloseFollows == IInv => CloseIsClean
<1> SUFFICES ASSUME Inv(conn) PROVE CloseIsClean
  BY Zenon DEF IInv
<1>1. /\ Typed(conn) /\ InTyped(conn) /\ Refs(conn, 0) /\ QuietInv(conn) /\ EndInv(conn)
      /\ TailInv(conn) /\ Data(conn)
  BY Zenon DEF Inv, Good, Sound, Typed
<1>2. RefsMatch
  <2> DEFINE r == Count(conn.held) + Sources(conn) + conn.orphan + Count(conn.flush # "none")
  <2>1. conn.ref = r + 0
    BY <1>1, Zenon DEF Refs
  <2>2. r \in Int
    <3> DEFINE f == Count(conn.flush # "none")
    <3>1. /\ Count(conn.held) \in Int /\ Count(conn.read_src) \in Int
          /\ Count(conn.write_src) \in Int /\ Count(conn.close_src) \in Int /\ f \in Int
      BY CountType, Zenon
    <3>2. conn.orphan \in Int
      BY <1>1 DEF Typed, EndTyped
    <3> HIDE DEF f
    <3>3. Sources(conn) \in Int
      BY <3>1 DEF Sources
    <3>4. Count(conn.held) + Sources(conn) + conn.orphan + f \in Int
      BY <3>1, <3>2, <3>3, SMTT(40)
    <3> QED BY <3>4, Zenon DEF f
  <2> HIDE DEF r
  <2>3. conn.ref = r
    BY <2>1, <2>2
  <2> QED BY <2>3, Zenon DEF RefsMatch, r
<1>3. ClosedIsQuiet /\ FlushedFirst
  BY <1>1, Zenon DEF QuietInv, EndInv, ClosedIsQuiet, FlushedFirst
<1>4. TailDelivered
  <2> SUFFICES ASSUME conn.closed, Eager(conn) PROVE Len(conn.got) = conn.sent
    BY Zenon DEF TailDelivered, Eager
  <2>1. conn.rx = <<>> /\ conn.bag = <<>> /\ conn.ibuf = <<>>
    BY <1>1, Zenon DEF TailInv
  <2>2. conn.got \in Seq(Nat) /\ conn.sent \in Nat
    BY <1>1, Zenon DEF InTyped
  <2>3. conn.got \o <<>> \o <<>> \o <<>> = Numbers(conn.sent)
    BY <1>1, <2>1, Zenon DEF Data
  <2>4. conn.got = Numbers(conn.sent)
    BY <2>2, <2>3, ConcatEmpty, Zenon
  <2> QED BY <2>2, <2>4, NumbersSeq, Zenon
<1> QED BY <1>2, <1>3, <1>4, Zenon DEF CloseIsClean

\* The connection and its streams keep their types, and no reference too many is
\* dropped.
THEOREM ConnectionTypes == ConnectionSpec => []ConnectionTypeOK
  BY ConnectionInvariant, TypeFollows, PTL

\* Through look-ahead, throttle, push-back, TLS and the kernel's refusals both
\* directions of the connection's streams deliver in order, without loss and without
\* repetition.
THEOREM ConnectionData == ConnectionSpec => []DataKept
  BY ConnectionInvariant, DataFollow, PTL

\* Although the poll is edge-triggered and evd_socket_handle_condition drops a
\* repeated condition, no pending read and no buffered output is left waiting for a
\* condition that was used up.
THEOREM ConnectionWakeups == ConnectionSpec => []NoLostWakeup
  BY ConnectionInvariant, WakeupFollows, PTL

\* However evd_connection_close_internal is reached, every source and every flush
\* holds exactly one reference, nothing goes on after it, a shutdown waited for the
\* flush, and an application that always reads got all that was sent.
THEOREM ConnectionCloses == ConnectionSpec => []CloseIsClean
  BY ConnectionInvariant, CloseFollows, PTL
=============================================================================
