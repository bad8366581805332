------------------------- MODULE EvdWebService_proofs -------------------------
(***************************************************************************)
(* Proofs about EvdWebService, for any connections, requests, policies and *)
(* any number of moves.                                                    *)
(*                                                                         *)
(* At most one thing is under way with a connection: a decision, a         *)
(* handshake, a read, a handler or a flush.  A step ends it, which leaves  *)
(* the connection Quiet, and the function it calls begins the next one.    *)
(* The lemmas on the functions say of a quiet connection that it is kept   *)
(* again when the function returns, or waits for the selector's handler.   *)
(*                                                                         *)
(* A connection the application tore from a service at work may have       *)
(* several things under way and any service as its group; of it only the   *)
(* references, and that who is at work is alive, are kept (Torn).          *)
(***************************************************************************)
EXTENDS EvdWebService, TLAPS

-----------------------------------------------------------------------------
\* The fields of a connection, in parts.

Fields == {"open", "group", "weak", "throt", "tls", "starter", "hint", "vrefs", "pending", "reads",
           "request", "keep", "ret", "retweak", "connweak", "handler", "more", "route", "flushes",
           "shut", "stuck", "moved", "torn", "unserved", "refused", "asked", "replies"}

Shape(x) == DOMAIN x = Fields /\ x = [f \in DOMAIN x |-> x[f]]

Reader == [by : WebLike, ans : {"wait", "ok", "bad", "closed", "busy"}, req : Requests \cup {NULL}]

Typed(x) ==
  /\ Shape(x)
  /\ x.open \in BOOLEAN /\ x.group \in Group \cup {NULL}
  /\ x.tls \in BOOLEAN /\ x.starter \in Service \cup {NULL}
  /\ x.hint \in Service \cup {NULL}
  /\ x.pending \in BOOLEAN /\ x.reads \in SUBSET Reader
  /\ x.handler \in Service \cup {NULL} /\ x.flushes \in Nat /\ x.shut \in BOOLEAN
  /\ x.request \in Requests \cup {NULL} /\ x.asked \in Int /\ x.replies \in Int
  /\ x.stuck \in BOOLEAN /\ x.moved \in BOOLEAN /\ x.unserved \in BOOLEAN

SameGroup(x, y) ==
  y.open = x.open /\ y.group = x.group /\ y.weak = x.weak /\ y.throt = x.throt
SameLoan(x, y) == y.ret = x.ret /\ y.retweak = x.retweak /\ y.connweak = x.connweak
SameHint(x, y) == y.hint = x.hint /\ y.vrefs = x.vrefs /\ y.more = x.more
SameTls(x, y) == y.tls = x.tls /\ y.starter = x.starter
SameRead(x, y) == y.pending = x.pending /\ y.reads = x.reads
SameAnswer(x, y) ==
  y.handler = x.handler /\ y.flushes = x.flushes /\ y.shut = x.shut /\ y.replies = x.replies
SameRequest(x, y) == y.request = x.request /\ y.asked = x.asked
SameFlags(x, y) ==
  /\ y.stuck = x.stuck /\ y.moved = x.moved /\ y.torn = x.torn /\ y.unserved = x.unserved
  /\ y.route = x.route

-----------------------------------------------------------------------------
\* The invariant of a connection; D are the groups that have died.

Quiet(x) ==
  x.hint = NULL /\ x.starter = NULL /\ x.handler = NULL /\ x.reads = {} /\ x.flushes = 0

\* References are those of OwnersKept; only the selector lends connections.
Refs(x, D) ==
  /\ x.group \notin D
  /\ x.weak = {x.group} \ {NULL}
  /\ {x.group} \ {NULL} \subseteq x.throt /\ x.throt \subseteq {x.group} \cup D
  /\ x.ret # NULL => x.ret = "sel" /\ "sel" \notin D /\ x.connweak = 1
  /\ x.retweak = {x.ret} \ {NULL} /\ x.connweak \in {0, 1}
  /\ x.ret = NULL /\ x.connweak = 1 => "sel" \in D

\* One decision is due at most, and one answer.
Votes(x) == x.vrefs = (IF x.hint # NULL THEN 1 ELSE 0) /\ x.more = 0

\* One thing at a time.
Lone(x) ==
  /\ x.hint # NULL => x.starter = NULL /\ x.handler = NULL /\ x.reads = {} /\ x.flushes = 0
  /\ x.starter # NULL => x.handler = NULL /\ x.reads = {} /\ x.flushes = 0
  /\ x.handler # NULL => x.reads = {} /\ x.flushes = 0
  /\ x.reads # {} => x.flushes = 0
  /\ x.flushes \in {0, 1}
  /\ \A r1, r2 \in x.reads : r1 = r2
  /\ x.shut => Quiet(x)

\* A reader is the service that has the connection.
Reading(x, D) ==
  \A rd \in x.reads :
    /\ rd.by \notin D
    /\ rd.ans = "wait" => x.open /\ x.pending
    /\ rd.ans = "ok" => ~x.pending /\ rd.req = x.request /\ x.request # NULL
    /\ rd.ans = "closed" => ~x.open
    /\ rd.ans = "busy" => x.stuck
    /\ x.open => x.group = rd.by /\ (rd.by \in Autostart => x.tls)

\* So is the one that decides, shakes hands or answers.
Serving(x, D) ==
  /\ x.hint # NULL /\ x.hint \notin D /\ x.open => x.group = x.hint
  /\ x.starter # NULL => x.starter \notin D /\ (x.open => x.group = x.starter)
  /\ x.handler # NULL => /\ x.handler = "web" /\ x.request # NULL
                         /\ x.open => x.group = "web" /\ ("web" \in Autostart => x.tls)
                         /\ "web" \in DenyCross => ~x.request.cross
  /\ x.flushes # 0 /\ x.open /\ x.group \in Autostart => x.tls

\* The pending flag is left over from long headers or a closed connection.
Flagged(x) == x.pending /\ ~x.stuck => x.reads # {} \/ (Quiet(x) /\ ~x.open)

\* Answers do not run ahead of requests.
Books(x) ==
  ~x.moved =>
    /\ x.replies <= x.asked
    /\ x.handler # NULL => x.replies = x.asked - 1
    /\ x.flushes # 0 => x.replies = x.asked
    /\ x.hint # NULL \/ x.starter # NULL =>
         x.replies = IF x.request # NULL THEN x.asked - 1 ELSE x.asked
    /\ \A rd \in x.reads : /\ rd.ans = "wait" => x.replies = x.asked
                           /\ rd.ans = "ok" => x.replies = x.asked - 1

\* A connection that is lent is with its borrower and in use.
Used(x) ==
  /\ x.open /\ x.group \in WebLike /\ ~x.unserved /\ ~x.stuck => ~Quiet(x) \/ x.shut
  /\ x.ret # NULL /\ x.open /\ ~x.stuck => x.group = "web" /\ (~Quiet(x) \/ x.shut)

ConnInv(x, D) ==
  /\ Typed(x) /\ Refs(x, D) /\ Votes(x) /\ Lone(x) /\ Reading(x, D) /\ Serving(x, D)
  /\ Flagged(x) /\ Books(x) /\ Used(x) /\ x.route = NULL

\* What is quiet keeps most of it.
Resting(x, D) ==
  /\ Typed(x) /\ Refs(x, D) /\ Votes(x) /\ Quiet(x)
  /\ ~x.moved => x.replies <= x.asked

\* A quiet connection is kept if it is closed, or used no more.
LEMMA RestKept ==
  ASSUME NEW x, NEW D, Resting(x, D), x.route = NULL, Flagged(x), Used(x)
  PROVE  ConnInv(x, D)
<1>1. 0 # 1 /\ x.flushes = 0 /\ x.hint = NULL /\ x.starter = NULL /\ x.handler = NULL /\ x.reads = {}
  BY DEF Resting, Quiet
<1>2. Lone(x) /\ Reading(x, D) /\ Serving(x, D)
  BY <1>1, Zenon DEF Resting, Lone, Quiet, Reading, Serving
<1>3. Books(x)
  BY <1>1, Zenon DEF Resting, Books
<1> QED BY <1>2, <1>3, Zenon DEF ConnInv, Resting

-----------------------------------------------------------------------------
\* What the services make of a quiet connection.

\* x has come to service s and nothing is under way with it; if a request was
\* read, it is still to be answered.
At(x, s, D) ==
  /\ Resting(x, D) /\ ~x.shut /\ (x.pending => x.stuck)
  /\ s \in Service /\ s \notin D
  /\ x.open => x.group = s
  /\ x.ret # NULL /\ x.open /\ ~x.stuck => s = "web"
  /\ ~x.moved => x.replies = IF x.request # NULL THEN x.asked - 1 ELSE x.asked

\* The service has the TLS it insists on.
Secure(x, s) == x.open /\ s \in Autostart => x.tls

\* A connection in use is where it should be.
LEMMA BusyUsed ==
  ASSUME NEW x, NEW y, NEW s, NEW D, At(x, s, D), SameGroup(x, y), SameLoan(x, y),
         y.stuck = x.stuck, ~Quiet(y) \/ y.shut
  PROVE  Used(y)
  BY Zenon DEF At, SameGroup, SameLoan, Used

\* References depend on the group and the loan.
LEMMA RefsSame ==
  ASSUME NEW x, NEW y, NEW D, Refs(x, D), SameGroup(x, y), SameLoan(x, y)
  PROVE  Refs(y, D)
  BY Zenon DEF Refs, SameGroup, SameLoan

\* The connection is read by s alone.
ReadBy(x, y, s, ans) ==
  /\ y.reads = {[by |-> s, ans |-> ans, req |-> NULL]}
  /\ Shape(y) /\ SameGroup(x, y) /\ SameLoan(x, y) /\ SameHint(x, y) /\ SameTls(x, y)
  /\ SameAnswer(x, y) /\ SameRequest(x, y) /\ SameFlags(x, y)

\* evd_http_connection_read_headers_async answers when there is something to
\* answer: an error if the connection is closed or was not released.
LEMMA ReadStep ==
  ASSUME NEW x, NEW s, Typed(x), x.reads = {}
  PROVE  LET y == evd_http_connection_read_headers_async(x, s)
         IN  \/ x.pending /\ y.pending /\ ReadBy(x, y, s, "busy")
             \/ ~x.pending /\ x.open /\ y.pending /\ ReadBy(x, y, s, "wait")
             \/ ~x.pending /\ ~x.open /\ y.pending /\ ReadBy(x, y, s, "closed")
<1> DEFINE y == evd_http_connection_read_headers_async(x, s)
           Rd(ans) == {[by |-> s, ans |-> ans, req |-> NULL]}
<1>1. ASSUME x.pending
      PROVE  y.pending /\ ReadBy(x, y, s, "busy")
  <2>1. y = [x EXCEPT !.reads = Rd("busy")]
    BY <1>1, Zenon DEF evd_http_connection_read_headers_async
  <2>2. Shape(y)
    BY <2>1, Zenon DEF Typed, Shape
  <2>3. y.reads = Rd("busy") /\ y.pending = x.pending
    BY <2>1 DEF Typed, Shape, Fields
  <2>4. SameGroup(x, y) /\ SameLoan(x, y) /\ SameHint(x, y) /\ SameTls(x, y)
        /\ SameAnswer(x, y) /\ SameRequest(x, y) /\ SameFlags(x, y)
    BY <2>1 DEF Typed, Shape, Fields, SameGroup, SameLoan, SameHint, SameTls, SameAnswer,
                SameRequest, SameFlags
  <2> QED BY <1>1, <2>2, <2>3, <2>4, Zenon DEF ReadBy
<1>2. ASSUME NEW ans, ~x.pending, ans = IF x.open THEN "wait" ELSE "closed"
      PROVE  y.pending /\ ReadBy(x, y, s, ans)
  <2>1. y = [x EXCEPT !.pending = TRUE, !.keep = FALSE, !.reads = Rd(ans)]
    BY <1>2, Zenon DEF evd_http_connection_read_headers_async
  <2>2. Shape(y)
    BY <2>1, Zenon DEF Typed, Shape
  <2>3. y.reads = Rd(ans) /\ y.pending = TRUE
    BY <2>1 DEF Typed, Shape, Fields
  <2>4. SameGroup(x, y) /\ SameLoan(x, y) /\ SameHint(x, y) /\ SameTls(x, y)
        /\ SameAnswer(x, y) /\ SameRequest(x, y) /\ SameFlags(x, y)
    BY <2>1 DEF Typed, Shape, Fields, SameGroup, SameLoan, SameHint, SameTls, SameAnswer,
                SameRequest, SameFlags
  <2> QED BY <2>2, <2>3, <2>4, Zenon DEF ReadBy
<1> HIDE DEF y
<1>3. \/ x.pending /\ y.pending /\ ReadBy(x, y, s, "busy")
      \/ ~x.pending /\ x.open /\ y.pending /\ ReadBy(x, y, s, "wait")
      \/ ~x.pending /\ ~x.open /\ y.pending /\ ReadBy(x, y, s, "closed")
  BY <1>1, <1>2, Zenon DEF Typed
<1> QED BY <1>3, Zenon DEF y

\* A service without a request reads one.
LEMMA ReadKept ==
  ASSUME NEW x, NEW s, NEW D, At(x, s, D), s \in WebLike, x.request = NULL, Secure(x, s),
         x.route = NULL
  PROVE  ConnInv(evd_http_connection_read_headers_async(x, s), D)
<1> DEFINE y == evd_http_connection_read_headers_async(x, s)
<1>1. Typed(x) /\ Quiet(x)
  BY Zenon DEF At, Resting
<1>2. \/ x.pending /\ y.pending /\ ReadBy(x, y, s, "busy")
      \/ ~x.pending /\ x.open /\ y.pending /\ ReadBy(x, y, s, "wait")
      \/ ~x.pending /\ ~x.open /\ y.pending /\ ReadBy(x, y, s, "closed")
  BY <1>1, ReadStep, Zenon DEF Quiet
<1> HIDE DEF y
<1>3. PICK ans \in {"wait", "closed", "busy"} :
        /\ ReadBy(x, y, s, ans) /\ y.pending
        /\ ans = "wait" => x.open
        /\ ans = "closed" => ~x.open
        /\ ans = "busy" => x.pending
  BY <1>2, Zenon
<1> DEFINE rd == [by |-> s, ans |-> ans, req |-> NULL]
<1>4. rd.by = s /\ rd.ans = ans /\ rd \in Reader
  BY <1>3 DEF At, Reader, WebLike
<1> HIDE DEF rd
<1>5. /\ y.reads = {rd} /\ Shape(y) /\ SameGroup(x, y) /\ SameLoan(x, y) /\ SameHint(x, y)
      /\ SameTls(x, y) /\ SameAnswer(x, y) /\ SameRequest(x, y) /\ SameFlags(x, y)
  BY <1>3, Zenon DEF ReadBy, rd
<1>6. Typed(y)
  BY <1>1, <1>3, <1>4, <1>5, Zenon DEF Typed, SameGroup, SameTls, SameHint, SameAnswer, SameRequest, SameFlags
<1>7. Quiet(x) /\ ~x.shut /\ ~Quiet(y)
  BY <1>1, <1>5, Zenon DEF At, Quiet
<1>8. Refs(y, D) /\ Votes(y) /\ y.route = NULL
  BY <1>5, RefsSame, Zenon DEF At, Resting, Votes, SameHint, SameFlags
<1>9. Lone(y)
  BY <1>5, <1>7, Zenon DEF Quiet, Lone, SameHint, SameTls, SameAnswer
<1>10. Reading(y, D)
  BY <1>3, <1>4, <1>5, Zenon DEF Reading, At, Secure, SameGroup, SameTls, SameFlags
<1>11. y.hint = NULL /\ y.starter = NULL /\ y.handler = NULL /\ y.flushes = 0 /\ 0 # 1
  BY <1>5, <1>7 DEF Quiet, SameHint, SameTls, SameAnswer
<1>12. Serving(y, D) /\ Flagged(y)
  BY <1>5, <1>11, Zenon DEF Serving, Flagged
<1>13. Books(y)
  <2>1. y.moved = x.moved /\ y.replies = x.replies /\ y.asked = x.asked
    BY <1>5, Zenon DEF SameFlags, SameAnswer, SameRequest
  <2>2. ~x.moved => x.replies = x.asked /\ x.replies <= x.asked
    BY Zenon DEF At, Resting
  <2>3. rd.ans # "ok"
    BY <1>3, <1>4
  <2> QED BY <1>5, <1>11, <2>1, <2>2, <2>3, Zenon DEF Books
<1>14. Used(y)
  BY <1>5, <1>7, BusyUsed, Zenon DEF SameFlags
<1>15. ConnInv(y, D)
  BY <1>6, <1>8, <1>9, <1>10, <1>12, <1>13, <1>14, Zenon DEF ConnInv
<1> QED BY <1>15, Zenon DEF y

-----------------------------------------------------------------------------
\* Responding.

\* A response is flushed, or the socket shut down.
Responded(x, y, sent) ==
  /\ Shape(y) /\ y.handler = x.handler
  /\ y.flushes = (IF sent THEN x.flushes + 1 ELSE x.flushes)
  /\ y.replies = (IF sent THEN x.replies + 1 ELSE x.replies)
  /\ y.shut = (IF sent THEN x.shut ELSE TRUE)
  /\ SameGroup(x, y) /\ SameLoan(x, y) /\ SameHint(x, y) /\ SameTls(x, y)
  /\ SameRead(x, y) /\ SameRequest(x, y) /\ SameFlags(x, y)

\* evd_web_service_respond_internal writes to an open connection.
LEMMA RespondStep ==
  ASSUME NEW x, NEW v, Typed(x)
  PROVE  LET y == evd_web_service_respond_internal(x, v)
         IN  (Responded(x, y, TRUE) /\ x.open) \/ Responded(x, y, FALSE)
<1> DEFINE y == evd_web_service_respond_internal(x, v)
<1>1. ASSUME v.ok /\ x.open PROVE Responded(x, y, TRUE)
  <2>1. y = [x EXCEPT !.flushes = x.flushes + 1, !.replies = x.replies + 1]
    BY <1>1, Zenon DEF evd_web_service_respond_internal
  <2>2. Shape(y)
    BY <2>1, Zenon DEF Typed, Shape
  <2>3. y.flushes = x.flushes + 1 /\ y.replies = x.replies + 1 /\ y.handler = x.handler /\ y.shut = x.shut
    BY <2>1 DEF Typed, Shape, Fields
  <2>4. SameGroup(x, y) /\ SameLoan(x, y) /\ SameHint(x, y) /\ SameTls(x, y)
        /\ SameRead(x, y) /\ SameRequest(x, y) /\ SameFlags(x, y)
    BY <2>1 DEF Typed, Shape, Fields, SameGroup, SameLoan, SameHint, SameTls, SameRead,
                SameRequest, SameFlags
  <2> QED BY <2>2, <2>3, <2>4, Zenon DEF Responded
<1>2. ASSUME ~(v.ok /\ x.open) PROVE Responded(x, y, FALSE)
  <2>1. y = [x EXCEPT !.shut = TRUE]
    BY <1>2, Zenon DEF evd_web_service_respond_internal
  <2>2. Shape(y)
    BY <2>1, Zenon DEF Typed, Shape
  <2>3. y.flushes = x.flushes /\ y.replies = x.replies /\ y.handler = x.handler /\ y.shut = TRUE
    BY <2>1 DEF Typed, Shape, Fields
  <2>4. SameGroup(x, y) /\ SameLoan(x, y) /\ SameHint(x, y) /\ SameTls(x, y)
        /\ SameRead(x, y) /\ SameRequest(x, y) /\ SameFlags(x, y)
    BY <2>1 DEF Typed, Shape, Fields, SameGroup, SameLoan, SameHint, SameTls, SameRead,
                SameRequest, SameFlags
  <2> QED BY <2>2, <2>3, <2>4, Zenon DEF Responded
<1> QED BY <1>1, <1>2, Zenon

\* A request is to be answered, with or without the handler.
Answerable(x, D) ==
  /\ Typed(x) /\ Refs(x, D) /\ Votes(x)
  /\ x.hint = NULL /\ x.starter = NULL /\ x.reads = {} /\ x.flushes = 0 /\ ~x.shut
  /\ x.handler = NULL
  /\ x.pending => x.stuck
  /\ x.open /\ x.group \in Autostart => x.tls
  /\ x.ret # NULL /\ x.open /\ ~x.stuck => x.group = "web"
  /\ ~x.moved => x.replies = x.asked - 1

\* The invariant says no more of a response than what Responded does.
LEMMA RespondedKept ==
  ASSUME NEW x, NEW y, NEW D, NEW sent \in BOOLEAN, Answerable(x, D), Responded(x, y, sent),
         y.route = NULL
  PROVE  ConnInv(y, D)
<1>1. Typed(x) /\ x.flushes = 0 /\ x.replies \in Int /\ x.asked \in Int /\ x.shut = FALSE
  BY Zenon DEF Answerable, Typed
<1>2. /\ sent => y.flushes = 1 /\ y.replies = x.replies + 1 /\ y.shut = FALSE
      /\ ~sent => y.flushes = 0 /\ y.replies = x.replies /\ y.shut = TRUE
  BY <1>1 DEF Responded
<1>3. Typed(y)
  <2>1. 0 \in Nat /\ 1 \in Nat /\ x.replies + 1 \in Int
    BY <1>1
  <2>2. y.flushes \in Nat /\ y.replies \in Int /\ y.shut \in BOOLEAN /\ y.handler = NULL
    BY <1>1, <1>2, <2>1, Zenon DEF Responded, Answerable
  <2> QED BY <1>1, <2>2, Zenon DEF Typed, Responded, SameGroup, SameTls, SameHint, SameRead,
                              SameRequest, SameFlags
<1>4. Refs(y, D) /\ Votes(y)
  BY RefsSame, Zenon DEF Answerable, Responded, Votes, SameHint
<1>5. /\ y.hint = NULL /\ y.starter = NULL /\ y.handler = NULL /\ y.reads = {} /\ 0 # 1
      /\ (sent => ~Quiet(y)) /\ (~sent => Quiet(y))
  BY <1>2 DEF Answerable, Responded, SameHint, SameTls, SameRead, Quiet
<1>6. Lone(y) /\ Reading(y, D)
  BY <1>2, <1>5, Zenon DEF Lone, Reading
<1>7. Serving(y, D)
  BY <1>5, Zenon DEF Serving, Answerable, Responded, SameGroup, SameTls
<1>8. Flagged(y)
  BY Zenon DEF Flagged, Answerable, Responded, SameRead, SameFlags
<1>9. Books(y)
  <2>1. ~y.moved => y.replies <= y.asked /\ (sent => y.replies = y.asked)
    BY <1>1, <1>2 DEF Answerable, Responded, SameFlags, SameRequest
  <2> QED BY <1>2, <1>5, <2>1, Zenon DEF Books
<1>10. Used(y)
  BY <1>2, <1>5, Zenon DEF Used, Answerable, Responded, SameGroup, SameLoan, SameFlags
<1> QED BY <1>3, <1>4, <1>6, <1>7, <1>8, <1>9, <1>10, Zenon DEF ConnInv

\* An answer keeps the connection, whether it can be written or not.
LEMMA RespondKept ==
  ASSUME NEW x, NEW v, NEW D, Answerable(x, D), x.route = NULL
  PROVE  ConnInv(evd_web_service_respond_internal(x, v), D)
<1> DEFINE y == evd_web_service_respond_internal(x, v)
<1>1. Responded(x, y, TRUE) \/ Responded(x, y, FALSE)
  BY RespondStep, Zenon DEF Answerable
<1> HIDE DEF y
<1>2. y.route = NULL
  BY <1>1, Zenon DEF Responded, SameFlags
<1>3. ConnInv(y, D)
  BY <1>1, <1>2, RespondedKept, Zenon
<1> QED BY <1>3, Zenon DEF y

\* So does the answer of a selector that knows no service for the request.
LEMMA RefuseKept ==
  ASSUME NEW x, NEW v, NEW D, Answerable(x, D), x.route = NULL
  PROVE  ConnInv([evd_web_service_respond_internal(x, v) EXCEPT !.refused = TRUE], D)
<1> DEFINE z == evd_web_service_respond_internal(x, v)
           y == [z EXCEPT !.refused = TRUE]
<1>1. PICK sent \in BOOLEAN : Responded(x, z, sent)
  BY RespondStep, Zenon DEF Answerable
<1> HIDE DEF z
<1>2. Shape(y)
  BY <1>1, Zenon DEF Responded, Shape
<1>3. Shape(z)
  BY <1>1, Zenon DEF Responded
<1>4. SameGroup(z, y) /\ SameLoan(z, y) /\ SameHint(z, y) /\ SameTls(z, y) /\ SameAnswer(z, y)
      /\ SameRead(z, y) /\ SameRequest(z, y) /\ SameFlags(z, y)
  BY <1>3 DEF Shape, Fields, SameGroup, SameLoan, SameHint, SameTls, SameRead, SameAnswer,
              SameRequest, SameFlags
<1> HIDE DEF y
<1>5. Responded(x, y, sent)
  BY <1>1, <1>2, <1>4, Zenon DEF Responded, SameGroup, SameLoan, SameHint, SameTls, SameRead,
                             SameAnswer, SameRequest, SameFlags
<1>6. y.route = NULL
  BY <1>5, Zenon DEF Responded, SameFlags
<1>7. ConnInv(y, D)
  BY <1>5, <1>6, RespondedKept, Zenon
<1> QED BY <1>7, Zenon DEF y, z

-----------------------------------------------------------------------------
\* The path of a request.

\* A request waits for the handler of the selector.
Routing(x, D) ==
  /\ At(x, "sel", D) /\ Secure(x, "sel") /\ x.request # NULL /\ x.route = x.request

\* What comes of a connection at s: only the selector routes.
Done(y, s, D) == ConnInv(y, D) \/ (s = "sel" /\ Routing(y, D))

\* A connection at s can be answered there.
LEMMA AtAnswerable ==
  ASSUME NEW x, NEW s, NEW D, At(x, s, D), Secure(x, s), x.request # NULL
  PROVE  Answerable(x, D)
<1>1. x.hint = NULL /\ x.starter = NULL /\ x.reads = {} /\ x.flushes = 0 /\ x.handler = NULL
  BY Zenon DEF At, Resting, Quiet
<1>2. Typed(x) /\ Refs(x, D) /\ Votes(x) /\ ~x.shut /\ (x.pending => x.stuck)
  BY Zenon DEF At, Resting
<1>3. (x.open /\ x.group \in Autostart => x.tls)
      /\ (x.ret # NULL /\ x.open /\ ~x.stuck => x.group = "web")
  BY Zenon DEF At, Secure
<1>4. ~x.moved => x.replies = x.asked - 1
  BY Zenon DEF At
<1> QED BY <1>1, <1>2, <1>3, <1>4, Zenon DEF Answerable

\* The application's handler takes over.
LEMMA HandlerKept ==
  ASSUME NEW x, NEW D, At(x, "web", D), Secure(x, "web"), x.request # NULL, x.route = NULL,
         "web" \in DenyCross => ~x.request.cross
  PROVE  ConnInv([x EXCEPT !.handler = "web"], D)
<1> DEFINE y == [x EXCEPT !.handler = "web"]
<1>1. Typed(x) /\ Shape(x) /\ Quiet(x) /\ ~x.shut
  BY Zenon DEF At, Resting, Typed
<1>2. Shape(y)
  BY <1>1, Zenon DEF Shape
<1>3. y.handler = "web" /\ y.flushes = x.flushes /\ y.shut = x.shut /\ y.replies = x.replies
  BY <1>1 DEF Shape, Fields
<1>4. SameGroup(x, y) /\ SameLoan(x, y) /\ SameHint(x, y) /\ SameTls(x, y)
      /\ SameRead(x, y) /\ SameRequest(x, y) /\ SameFlags(x, y)
  BY <1>1 DEF Shape, Fields, SameGroup, SameLoan, SameHint, SameTls, SameRead,
              SameRequest, SameFlags
<1> HIDE DEF y
<1>5. "web" \in Service /\ "web" # NULL /\ 0 # 1
  BY WebAssumption DEF Service
<1>6. Typed(y)
  BY <1>1, <1>2, <1>3, <1>4, <1>5, Zenon
     DEF Typed, SameGroup, SameTls, SameHint, SameRead, SameRequest, SameFlags
<1>7. Refs(y, D) /\ Votes(y) /\ y.route = NULL
  BY <1>4, RefsSame, Zenon DEF At, Resting, Votes, SameHint, SameFlags
<1>8. y.hint = NULL /\ y.starter = NULL /\ y.reads = {} /\ y.flushes = 0 /\ ~y.shut /\ ~Quiet(y)
  BY <1>1, <1>3, <1>4, <1>5, Zenon DEF Quiet, SameHint, SameTls, SameRead
<1>9. Lone(y) /\ Reading(y, D)
  BY <1>8, Zenon DEF Lone, Reading
<1>10. Serving(y, D)
  BY <1>3, <1>4, <1>8, Zenon DEF Serving, At, Secure, SameGroup, SameTls, SameRequest
<1>11. Flagged(y)
  BY <1>4, Zenon DEF Flagged, At, SameRead, SameFlags
<1>12. Books(y)
  <2>1. ~y.moved => y.replies <= y.asked /\ y.replies = y.asked - 1
    BY <1>3, <1>4, Zenon DEF At, Resting, SameFlags, SameRequest
  <2> QED BY <1>8, <2>1, Zenon DEF Books
<1>13. Used(y)
  BY <1>4, <1>8, BusyUsed, Zenon DEF SameFlags
<1>14. ConnInv(y, D)
  BY <1>6, <1>7, <1>9, <1>10, <1>11, <1>12, <1>13, Zenon DEF ConnInv
<1> QED BY <1>14, Zenon DEF y

\* The route is no part of what At and Secure say.
LEMMA RouteAside ==
  ASSUME NEW x, NEW s, NEW D, NEW r, At(x, s, D)
  PROVE  LET y == [x EXCEPT !.route = r]
         IN  At(y, s, D) /\ (Secure(x, s) => Secure(y, s)) /\ y.route = r /\ y.request = x.request
<1> DEFINE y == [x EXCEPT !.route = r]
<1>1. Typed(x) /\ Shape(x)
  BY Zenon DEF At, Resting, Typed
<1>2. Shape(y)
  BY <1>1, Zenon DEF Shape
<1>3. y.route = r /\ y.stuck = x.stuck /\ y.moved = x.moved /\ y.unserved = x.unserved
  BY <1>1 DEF Shape, Fields
<1>4. SameGroup(x, y) /\ SameLoan(x, y) /\ SameHint(x, y) /\ SameTls(x, y)
      /\ SameRead(x, y) /\ SameRequest(x, y) /\ SameAnswer(x, y)
  BY <1>1 DEF Shape, Fields, SameGroup, SameLoan, SameHint, SameTls, SameRead,
              SameRequest, SameAnswer
<1> HIDE DEF y
<1>5. Typed(y)
  BY <1>1, <1>2, <1>3, <1>4, Zenon
     DEF Typed, SameGroup, SameTls, SameHint, SameRead, SameRequest, SameAnswer
<1>6. Refs(y, D) /\ Votes(y) /\ Quiet(y)
  BY <1>4, RefsSame, Zenon DEF At, Resting, Votes, Quiet, SameHint, SameTls, SameRead, SameAnswer
<1>7. ~y.moved => y.replies <= y.asked
  BY <1>3, <1>4, Zenon DEF At, Resting, SameAnswer, SameRequest
<1>8. Resting(y, D)
  BY <1>5, <1>6, <1>7, Zenon DEF Resting
<1>9. At(y, s, D)
  BY <1>3, <1>4, <1>8, Zenon DEF At, SameGroup, SameLoan, SameRead, SameAnswer, SameRequest
<1>10. (Secure(x, s) => Secure(y, s)) /\ y.request = x.request
  BY <1>4, Zenon DEF Secure, SameGroup, SameTls, SameRequest
<1>11. At(y, s, D) /\ (Secure(x, s) => Secure(y, s)) /\ y.route = r /\ y.request = x.request
  BY <1>3, <1>9, <1>10, Zenon
<1> QED BY <1>11, Zenon DEF y

\* A request is answered, handled or routed.
LEMMA ValidateRequestDone ==
  ASSUME NEW x, NEW s, NEW D, NEW v, At(x, s, D), s \in WebLike, Secure(x, s),
         x.request # NULL, x.route = NULL
  PROVE  Done(evd_web_service_validate_request(x, s, x.request, v), s, D)
<1> DEFINE r == x.request
           y == evd_web_service_validate_request(x, s, r, v)
<1>1. CASE r.cross /\ (~evd_web_service_origin_allowed(s) \/ r.preflight)
  <2>1. y = evd_web_service_respond_internal(x, v)
    BY <1>1, Zenon DEF evd_web_service_validate_request
  <2> QED BY <2>1, AtAnswerable, RespondKept, Zenon DEF Done
<1>2. CASE ~(r.cross /\ (~evd_web_service_origin_allowed(s) \/ r.preflight))
  <2>1. y = evd_web_service_invoke_request_handler(x, s, r, v)
    BY <1>2, Zenon DEF evd_web_service_validate_request
  <2>2. CASE s = "sel"
    <3>1. y = [x EXCEPT !.route = r]
      BY <2>1, <2>2, Zenon DEF evd_web_service_invoke_request_handler
    <3> HIDE DEF y, r
    <3>2. At(y, s, D) /\ Secure(y, s) /\ y.route = r /\ y.request = x.request
      BY <3>1, RouteAside, ZenonT(60)
    <3>3. Done(y, s, D)
      BY <2>2, <3>2, Zenon DEF Done, Routing, r
    <3> QED BY <3>3, Zenon DEF y, r
  <2>3. CASE s # "sel"
    <3>1. s = "web"
      BY <2>3, Zenon DEF WebLike
    <3>2. y = [x EXCEPT !.handler = "web"]
      BY <2>1, <2>3, <3>1, Zenon DEF evd_web_service_invoke_request_handler, At, Resting, Quiet
    <3>3. "web" \in DenyCross => ~x.request.cross
      BY <1>2, <3>1, Zenon DEF evd_web_service_origin_allowed
    <3> QED BY <3>1, <3>2, <3>3, HandlerKept, Zenon DEF Done
  <2> QED BY <2>2, <2>3, Zenon
<1> QED BY <1>1, <1>2, Zenon

\* A web service goes on with the request it has, or reads one.
LEMMA AcceptedDone ==
  ASSUME NEW x, NEW s, NEW D, NEW v, At(x, s, D), s \in WebLike, Secure(x, s), x.route = NULL
  PROVE  Done(evd_web_service_connection_accepted(x, s, v), s, D)
<1>1. CASE x.request # NULL
  BY <1>1, ValidateRequestDone, Zenon DEF evd_web_service_connection_accepted
<1>2. CASE x.request = NULL
  BY <1>2, ReadKept, Zenon DEF evd_web_service_connection_accepted, Done
<1> QED BY <1>1, <1>2, Zenon

\* A handshake begins.
LEMMA HandshakeKept ==
  ASSUME NEW x, NEW s, NEW D, At(x, s, D), x.route = NULL
  PROVE  ConnInv([x EXCEPT !.tls = TRUE, !.starter = s], D)
<1> DEFINE y == [x EXCEPT !.tls = TRUE, !.starter = s]
<1>1. Typed(x) /\ Shape(x) /\ Quiet(x) /\ ~x.shut
  BY Zenon DEF At, Resting, Typed
<1>2. Shape(y)
  BY <1>1, Zenon DEF Shape
<1>3. y.tls = TRUE /\ y.starter = s
  BY <1>1 DEF Shape, Fields
<1>4. SameGroup(x, y) /\ SameLoan(x, y) /\ SameHint(x, y) /\ SameAnswer(x, y)
      /\ SameRead(x, y) /\ SameRequest(x, y) /\ SameFlags(x, y)
  BY <1>1 DEF Shape, Fields, SameGroup, SameLoan, SameHint, SameAnswer, SameRead,
              SameRequest, SameFlags
<1> HIDE DEF y
<1>5. s \in Service /\ s # NULL
  BY WebAssumption DEF Service, At
<1>6. Typed(y)
  BY <1>1, <1>2, <1>3, <1>4, <1>5, Zenon
     DEF Typed, SameGroup, SameAnswer, SameHint, SameRead, SameRequest, SameFlags
<1>7. Refs(y, D) /\ Votes(y) /\ y.route = NULL
  BY <1>4, RefsSame, Zenon DEF At, Resting, Votes, SameHint, SameFlags
<1>8. y.hint = NULL /\ y.handler = NULL /\ y.reads = {} /\ y.flushes = 0 /\ ~y.shut /\ ~Quiet(y)
  BY <1>1, <1>3, <1>4, <1>5, Zenon DEF Quiet, SameHint, SameRead, SameAnswer
<1>9. Lone(y) /\ Reading(y, D)
  BY <1>8, Zenon DEF Lone, Reading
<1>10. Serving(y, D)
  BY <1>3, <1>4, <1>8, Zenon DEF Serving, At, SameGroup
<1>11. Flagged(y)
  BY <1>4, Zenon DEF Flagged, At, SameRead, SameFlags
<1>12. Books(y)
  BY <1>4, <1>8, Zenon DEF Books, At, Resting, SameFlags, SameRequest, SameAnswer
<1>13. Used(y)
  BY <1>4, <1>8, BusyUsed, Zenon DEF SameFlags
<1>14. ConnInv(y, D)
  BY <1>6, <1>7, <1>9, <1>10, <1>11, <1>12, <1>13, Zenon DEF ConnInv
<1> QED BY <1>14, Zenon DEF y

\* A connection is accepted: after a handshake if there must be one.
LEMMA AcceptDone ==
  ASSUME NEW x, NEW s, NEW D, NEW v, At(x, s, D), x.route = NULL
  PROVE  Done(accept_connection_priv(x, s, v), s, D)
<1>1. CASE s \in Autostart /\ ~x.tls
  BY <1>1, HandshakeKept, Zenon DEF accept_connection_priv, Done
<1>2. CASE ~(s \in Autostart /\ ~x.tls) /\ s \in WebLike
  BY <1>2, AcceptedDone, Zenon DEF accept_connection_priv, Secure
<1>3. CASE ~(s \in Autostart /\ ~x.tls) /\ s \notin WebLike
  <2>1. accept_connection_priv(x, s, v) = x
    BY <1>3, Zenon DEF accept_connection_priv
  <2>2. s # "web"
    BY <1>3, Zenon DEF WebLike
  <2>3. Resting(x, D) /\ Flagged(x) /\ Used(x)
    BY <1>3, <2>2, Zenon DEF At, Flagged, Used
  <2> QED BY <2>1, <2>3, RestKept, Zenon DEF Done
<1> QED BY <1>1, <1>2, <1>3, Zenon

-----------------------------------------------------------------------------
\* Groups and closing.

\* The connection is in group g, with the group's throttles.
Joined(x, y, g) ==
  /\ Shape(y) /\ y.open = x.open /\ y.group = g
  /\ y.weak = (IF g = x.group THEN x.weak ELSE (x.weak \ {x.group}) \cup ({g} \ {NULL}))
  /\ y.throt = (IF g = x.group THEN x.throt ELSE (x.throt \ {x.group}) \cup ({g} \ {NULL}))
  /\ SameLoan(x, y) /\ SameHint(x, y) /\ SameTls(x, y) /\ SameRead(x, y) /\ SameAnswer(x, y)
  /\ SameRequest(x, y) /\ SameFlags(x, y)

\* evd_io_stream_set_group does nothing if the group is the same.
LEMMA JoinStep ==
  ASSUME NEW x, NEW g, Typed(x)
  PROVE  Joined(x, evd_io_stream_set_group(x, g), g)
<1> DEFINE y == evd_io_stream_set_group(x, g)
<1>0. Shape(x)
  BY Zenon DEF Typed
<1>1. CASE g = x.group
  <2>1. y = x
    BY <1>1, Zenon DEF evd_io_stream_set_group
  <2> QED BY <1>0, <1>1, <2>1, Zenon DEF Joined, SameLoan, SameHint, SameTls, SameRead, SameAnswer,
                                  SameRequest, SameFlags
<1>2. CASE g # x.group
  <2> DEFINE w == (x.weak \ {x.group}) \cup ({g} \ {NULL})
             t == (x.throt \ {x.group}) \cup ({g} \ {NULL})
             z == [x EXCEPT !.group = g, !.weak = w]
  <2>1. y = [z EXCEPT !.throt = (z.throt \ {x.group}) \cup ({g} \ {NULL})]
    BY <1>2, Zenon DEF evd_io_stream_set_group, on_group_changed
  <2>2. Shape(z)
    BY <1>0, Zenon DEF Shape
  <2> HIDE DEF w
  <2>3. z.throt = x.throt
    BY <1>0 DEF Shape, Fields
  <2>4. y = [z EXCEPT !.throt = t]
    BY <2>1, <2>3, Zenon
  <2> HIDE DEF y, t
  <2>5. Shape(y)
    BY <2>2, <2>4, Zenon DEF Shape
  <2>6. y.group = g /\ y.weak = w /\ y.throt = t /\ y.open = x.open
    BY <1>0, <2>4 DEF Shape, Fields
  <2>7. SameLoan(x, y) /\ SameHint(x, y) /\ SameTls(x, y) /\ SameRead(x, y) /\ SameAnswer(x, y)
        /\ SameRequest(x, y) /\ SameFlags(x, y)
    BY <1>0, <2>4 DEF Shape, Fields, SameLoan, SameHint, SameTls, SameRead, SameAnswer,
                      SameRequest, SameFlags
  <2>8. Joined(x, y, g)
    BY <1>2, <2>5, <2>6, <2>7, Zenon DEF Joined, w, t
  <2> QED BY <2>8, Zenon DEF y
<1> QED BY <1>1, <1>2, Zenon

\* The group it has joined is the one it refers to.
LEMMA JoinedRefs ==
  ASSUME NEW x, NEW y, NEW g, NEW D, Refs(x, D), Joined(x, y, g), g \notin D
  PROVE  Refs(y, D)
<1>1. /\ y.ret # NULL => y.ret = "sel" /\ "sel" \notin D /\ y.connweak = 1
      /\ y.retweak = {y.ret} \ {NULL} /\ y.connweak \in {0, 1}
      /\ y.ret = NULL /\ y.connweak = 1 => "sel" \in D
  BY Zenon DEF Refs, Joined, SameLoan
<1>2. CASE g = x.group
  BY <1>1, <1>2, Zenon DEF Refs, Joined
<1>3. CASE g # x.group
  <2>1. /\ y.group = g /\ y.weak = (x.weak \ {x.group}) \cup ({g} \ {NULL})
        /\ y.throt = (x.throt \ {x.group}) \cup ({g} \ {NULL})
    BY <1>3, Zenon DEF Joined
  <2>2. x.weak = {x.group} \ {NULL} /\ x.throt \subseteq {x.group} \cup D
    BY Zenon DEF Refs
  <2>3. y.weak = {g} \ {NULL} /\ {g} \ {NULL} \subseteq y.throt /\ y.throt \subseteq {g} \cup D
    BY <2>1, <2>2, Zenon
  <2> QED BY <1>1, <2>1, <2>3, Zenon DEF Refs
<1> QED BY <1>2, <1>3, Zenon

\* The rest of a connection does not depend on its group.
LEMMA JoinedTyped ==
  ASSUME NEW x, NEW y, NEW g, Typed(x), Joined(x, y, g), g \in Group \cup {NULL}
  PROVE  Typed(y)
  BY Zenon DEF Typed, Joined, SameHint, SameTls, SameRead, SameAnswer, SameRequest, SameFlags

\* A reader that waits is told that the connection is closed.
Told(R) == {[r EXCEPT !.ans = IF r.ans = "wait" THEN "closed" ELSE r.ans] : r \in R}

\* What is left of a closed connection.
Closed(x, y) ==
  /\ Shape(y) /\ y.open = FALSE /\ y.pending = FALSE /\ y.tls = FALSE /\ y.starter = NULL
  /\ y.reads = Told(x.reads) /\ y.group = NULL
  /\ y.weak = (IF x.group = NULL THEN x.weak ELSE (x.weak \ {x.group}) \cup ({NULL} \ {NULL}))
  /\ y.throt = (IF x.group = NULL THEN x.throt ELSE (x.throt \ {x.group}) \cup ({NULL} \ {NULL}))
  /\ SameLoan(x, y) /\ SameHint(x, y) /\ SameAnswer(x, y)
  /\ SameRequest(x, y) /\ SameFlags(x, y)

\* evd_http_connection_close leaves the group first.
LEMMA CloseStep ==
  ASSUME NEW x, Typed(x)
  PROVE  Closed(x, evd_http_connection_close(x))
<1> DEFINE z == evd_io_stream_set_group(x, NULL)
           t == Told(x.reads)
           y == [z EXCEPT !.open = FALSE, !.pending = FALSE, !.tls = FALSE, !.starter = NULL,
                          !.reads = t]
<1>1. evd_http_connection_close(x) = y
  BY Zenon DEF evd_http_connection_close, Told
<1>2. Joined(x, z, NULL)
  BY JoinStep, Zenon
<1> HIDE DEF z, t
<1>3. Shape(z)
  BY <1>2, Zenon DEF Joined
<1>4. Shape(y)
  BY <1>3, Zenon DEF Shape
<1>5. /\ y.open = FALSE /\ y.pending = FALSE /\ y.tls = FALSE /\ y.starter = NULL /\ y.reads = t
      /\ y.group = z.group /\ y.weak = z.weak /\ y.throt = z.throt
  BY <1>3 DEF Shape, Fields
<1>6. SameLoan(z, y) /\ SameHint(z, y) /\ SameAnswer(z, y) /\ SameRequest(z, y) /\ SameFlags(z, y)
  BY <1>3 DEF Shape, Fields, SameLoan, SameHint, SameAnswer, SameRequest, SameFlags
<1> HIDE DEF y
<1>7. Closed(x, y)
  <2>1. SameLoan(x, y) /\ SameHint(x, y) /\ SameAnswer(x, y) /\ SameRequest(x, y) /\ SameFlags(x, y)
    BY <1>2, <1>6, Zenon DEF Joined, SameLoan, SameHint, SameAnswer, SameRequest, SameFlags
  <2>2. /\ y.group = NULL
        /\ y.weak = (IF x.group = NULL THEN x.weak ELSE (x.weak \ {x.group}) \cup ({NULL} \ {NULL}))
        /\ y.throt = (IF x.group = NULL THEN x.throt
                      ELSE (x.throt \ {x.group}) \cup ({NULL} \ {NULL}))
    BY <1>2, <1>5, Zenon DEF Joined
  <2> QED BY <1>4, <1>5, <2>1, <2>2, Zenon DEF Closed, t
<1> QED BY <1>1, <1>7, Zenon

\* Dead groups are groups.
LEMMA NullAlive ==
  ASSUME NEW D, D \subseteq Group
  PROVE  NULL \notin D /\ NULL \notin Service /\ NULL \notin Group
  BY WebAssumption, Zenon DEF Group, Service

\* rd is r, that was told.
ToldOne(r, rd) ==
  /\ rd.by = r.by /\ rd.req = r.req /\ rd.ans # "wait"
  /\ rd.ans = "closed" \/ rd.ans = r.ans

\* The readers in S are those in R, told.
ToldAll(R, S) ==
  /\ S \in SUBSET Reader
  /\ \A rd \in S : \E r \in R : ToldOne(r, rd)
  /\ (\A r1, r2 \in R : r1 = r2) => \A r1, r2 \in S : r1 = r2
  /\ S = {} <=> R = {}

\* Readers that are told have what they had.
LEMMA ToldReads ==
  ASSUME NEW R, R \in SUBSET Reader
  PROVE  ToldAll(R, Told(R))
<1> DEFINE Tell(r) == [r EXCEPT !.ans = IF r.ans = "wait" THEN "closed" ELSE r.ans]
<1>1. Told(R) = {Tell(r) : r \in R}
  BY Zenon DEF Told
<1>2. ASSUME NEW r \in R
      PROVE  Tell(r) \in Reader /\ ToldOne(r, Tell(r))
  BY DEF Reader, ToldOne
<1> HIDE DEF Tell
<1> QED BY <1>1, <1>2, Zenon DEF ToldAll

\* A connection may be closed at any time.
LEMMA ClosedKept ==
  ASSUME NEW x, NEW y, NEW D, D \subseteq Group, Typed(x), Refs(x, D), Votes(x), Lone(x),
         Reading(x, D), Serving(x, D), Books(x), x.route = NULL, Closed(x, y)
  PROVE  ConnInv(y, D)
<1>1. /\ y.reads = Told(x.reads) /\ ~y.open /\ ~y.pending /\ y.starter = NULL
      /\ y.hint = x.hint /\ y.handler = x.handler /\ y.flushes = x.flushes
      /\ y.replies = x.replies /\ y.asked = x.asked /\ y.moved = x.moved
      /\ y.request = x.request /\ y.stuck = x.stuck /\ y.shut = x.shut /\ y.route = NULL
  BY Zenon DEF Closed, SameHint, SameAnswer, SameRequest, SameFlags
<1>2. ToldAll(x.reads, y.reads)
  BY <1>1, ToldReads, Zenon DEF Typed
<1>3. Typed(y)
  BY <1>1, <1>2, Zenon DEF Typed, ToldAll, Closed, SameAnswer, SameRequest, SameFlags
<1>4. Refs(y, D)
  <2>1. NULL \notin D
    BY NullAlive, Zenon
  <2>2. y.group = NULL /\ y.weak = {} /\ y.throt \subseteq {NULL} \cup D
    BY Zenon DEF Refs, Closed
  <2> QED BY <2>1, <2>2, Zenon DEF Refs, Closed, SameLoan
<1>5. Votes(y)
  BY Zenon DEF Votes, Closed, SameHint
<1>6. Quiet(x) => Quiet(y)
  BY <1>1, <1>2, Zenon DEF Quiet, ToldAll
<1>7. Lone(y)
  BY <1>1, <1>2, <1>6, Zenon DEF Lone, ToldAll
<1>8. Reading(y, D)
  <2> SUFFICES ASSUME NEW rd \in y.reads
               PROVE  /\ rd.by \notin D
                      /\ rd.ans = "wait" => y.open /\ y.pending
                      /\ rd.ans = "ok" => ~y.pending /\ rd.req = y.request /\ y.request # NULL
                      /\ rd.ans = "closed" => ~y.open
                      /\ rd.ans = "busy" => y.stuck
                      /\ y.open => y.group = rd.by /\ (rd.by \in Autostart => y.tls)
    BY Zenon DEF Reading
  <2>1. PICK r \in x.reads : ToldOne(r, rd)
    BY <1>2, Zenon DEF ToldAll
  <2>2. "closed" # "ok" /\ "closed" # "busy"
    OBVIOUS
  <2> QED BY <1>1, <2>1, <2>2, Zenon DEF Reading, ToldOne
<1>9. Serving(y, D) /\ Flagged(y) /\ Used(y)
  BY <1>1, Zenon DEF Serving, Flagged, Used
<1>10. Books(y)
  <2>1. ASSUME NEW rd \in y.reads, ~x.moved
        PROVE  rd.ans # "wait" /\ (rd.ans = "ok" => y.replies = y.asked - 1)
    <3>1. PICK r \in x.reads : ToldOne(r, rd)
      BY <1>2, Zenon DEF ToldAll
    <3>2. "closed" # "ok"
      OBVIOUS
    <3> QED BY <1>1, <2>1, <3>1, <3>2, Zenon DEF Books, ToldOne
  <2> QED BY <1>1, <2>1, Zenon DEF Books
<1> QED BY <1>1, <1>3, <1>4, <1>5, <1>7, <1>8, <1>9, <1>10, Zenon DEF ConnInv

\* A quiet connection satisfies the hypotheses of ClosedKept.
LEMMA RestingLone ==
  ASSUME NEW x, NEW D, Resting(x, D)
  PROVE  Lone(x) /\ Reading(x, D) /\ Serving(x, D) /\ Books(x)
<1>1. 0 # 1 /\ x.flushes = 0 /\ x.hint = NULL /\ x.starter = NULL /\ x.handler = NULL /\ x.reads = {}
  BY DEF Resting, Quiet
<1>2. Lone(x) /\ Reading(x, D) /\ Serving(x, D)
  BY <1>1, Zenon DEF Resting, Lone, Quiet, Reading, Serving
<1> QED BY <1>1, <1>2, Zenon DEF Resting, Books

\* g_io_stream_close closes a quiet connection, unless it is closed or was not
\* released by its last reader.
LEMMA IoCloseKept ==
  ASSUME NEW x, NEW D, D \subseteq Group, Resting(x, D), x.route = NULL
  PROVE  ConnInv(g_io_stream_close(x), D)
<1>0. Typed(x) /\ Shape(x)
  BY Zenon DEF Resting, Typed
<1>1. CASE ~x.open
  <2>1. g_io_stream_close(x) = x
    BY <1>1, Zenon DEF g_io_stream_close
  <2>2. Flagged(x) /\ Used(x)
    BY <1>1, Zenon DEF Flagged, Used, Resting
  <2> QED BY <2>1, <2>2, RestKept, Zenon
<1>2. CASE x.open /\ x.pending
  <2> DEFINE y == [x EXCEPT !.stuck = TRUE]
  <2>1. g_io_stream_close(x) = y
    BY <1>2, Zenon DEF g_io_stream_close
  <2>2. Shape(y)
    BY <1>0, Zenon DEF Shape
  <2>3. y.stuck = TRUE /\ y.moved = x.moved /\ y.unserved = x.unserved /\ y.route = x.route
    BY <1>0 DEF Shape, Fields
  <2>4. SameGroup(x, y) /\ SameLoan(x, y) /\ SameHint(x, y) /\ SameTls(x, y)
        /\ SameRead(x, y) /\ SameRequest(x, y) /\ SameAnswer(x, y)
    BY <1>0 DEF Shape, Fields, SameGroup, SameLoan, SameHint, SameTls, SameRead,
                SameRequest, SameAnswer
  <2> HIDE DEF y
  <2>5. Typed(y)
    BY <1>0, <2>2, <2>3, <2>4, Zenon
       DEF Typed, SameGroup, SameTls, SameHint, SameRead, SameRequest, SameAnswer
  <2>6. Resting(y, D)
    BY <2>3, <2>4, <2>5, RefsSame, Zenon DEF Resting, Votes, Quiet, SameHint, SameTls, SameRead,
                                        SameAnswer, SameRequest
  <2>7. Flagged(y) /\ Used(y) /\ y.route = NULL
    BY <2>3, Zenon DEF Flagged, Used
  <2> QED BY <2>1, <2>6, <2>7, RestKept, Zenon
<1>3. CASE x.open /\ ~x.pending
  <2>1. g_io_stream_close(x) = evd_http_connection_close(x)
    BY <1>3, Zenon DEF g_io_stream_close
  <2> QED BY <1>0, <2>1, CloseStep, RestingLone, ClosedKept, Zenon DEF Resting
<1> QED BY <1>1, <1>2, <1>3, Zenon

-----------------------------------------------------------------------------
\* Adding a connection to a service.

\* The application is asked and will decide later.
LEMMA AskedKept ==
  ASSUME NEW x, NEW s, NEW D, At(x, s, D), x.route = NULL
  PROVE  ConnInv([x EXCEPT !.hint = s, !.vrefs = x.vrefs + 1], D)
<1> DEFINE n == x.vrefs + 1
           y == [x EXCEPT !.hint = s, !.vrefs = n]
<1>1. Typed(x) /\ Shape(x) /\ Quiet(x) /\ ~x.shut
  BY Zenon DEF At, Resting, Typed
<1>2. n = 1
  BY DEF At, Resting, Quiet, Votes
<1> HIDE DEF n
<1>3. Shape(y)
  BY <1>1, Zenon DEF Shape
<1>4. y.hint = s /\ y.vrefs = n /\ y.more = x.more
  BY <1>1 DEF Shape, Fields
<1>5. SameGroup(x, y) /\ SameLoan(x, y) /\ SameTls(x, y) /\ SameAnswer(x, y)
      /\ SameRead(x, y) /\ SameRequest(x, y) /\ SameFlags(x, y)
  BY <1>1 DEF Shape, Fields, SameGroup, SameLoan, SameTls, SameAnswer, SameRead,
              SameRequest, SameFlags
<1> HIDE DEF y
<1>6. s \in Service /\ s # NULL
  BY WebAssumption DEF Service, At
<1>7. Typed(y)
  BY <1>1, <1>3, <1>4, <1>5, <1>6, Zenon
     DEF Typed, SameGroup, SameAnswer, SameTls, SameRead, SameRequest, SameFlags
<1>8. Refs(y, D) /\ Votes(y) /\ y.route = NULL
  BY <1>2, <1>4, <1>5, <1>6, RefsSame, Zenon DEF At, Resting, Votes, SameFlags
<1>9. y.starter = NULL /\ y.handler = NULL /\ y.reads = {} /\ y.flushes = 0 /\ ~y.shut /\ ~Quiet(y)
  BY <1>1, <1>4, <1>5, <1>6, Zenon DEF Quiet, SameTls, SameRead, SameAnswer
<1>10. Lone(y) /\ Reading(y, D)
  BY <1>9, Zenon DEF Lone, Reading
<1>11. Serving(y, D)
  BY <1>4, <1>5, <1>9, Zenon DEF Serving, At, SameGroup
<1>12. Flagged(y)
  BY <1>5, Zenon DEF Flagged, At, SameRead, SameFlags
<1>13. Books(y)
  BY <1>5, <1>9, Zenon DEF Books, At, Resting, SameFlags, SameRequest, SameAnswer
<1>14. Used(y)
  BY <1>5, <1>9, BusyUsed, Zenon DEF SameFlags
<1>15. ConnInv(y, D)
  BY <1>7, <1>8, <1>10, <1>11, <1>12, <1>13, <1>14, Zenon DEF ConnInv
<1> QED BY <1>15, Zenon DEF y, n

\* The application accepts, rejects or defers.
LEMMA ValidateDone ==
  ASSUME NEW x, NEW s, NEW D, NEW v, D \subseteq Group, At(x, s, D), x.route = NULL
  PROVE  Done(evd_service_validate_connection(x, s, v), s, D)
<1>0. ACCEPT # REJECT
  BY DEF ACCEPT, REJECT
<1>1. CASE v.valid = ACCEPT
  BY <1>0, <1>1, AcceptDone, Zenon DEF evd_service_validate_connection
<1>2. CASE v.valid = REJECT
  <2>1. evd_service_validate_connection(x, s, v) = g_io_stream_close(x)
    BY <1>0, <1>2, Zenon DEF evd_service_validate_connection
  <2> QED BY <2>1, IoCloseKept, Zenon DEF Done, At
<1>3. CASE v.valid # ACCEPT /\ v.valid # REJECT
  <2>1. evd_service_validate_connection(x, s, v) = [x EXCEPT !.hint = s, !.vrefs = x.vrefs + 1]
    BY <1>3, Zenon DEF evd_service_validate_connection
  <2> QED BY <2>1, AskedKept, Zenon DEF Done
<1> QED BY <1>1, <1>2, <1>3, Zenon

\* x is on its way to s, and not there yet.
Arriving(x, s, D) ==
  /\ Resting(x, D) /\ ~x.shut /\ (x.pending => x.stuck)
  /\ s \in Service /\ s \notin D
  /\ x.open /\ x.group = s => x.stuck
  /\ x.ret # NULL /\ x.open /\ ~x.stuck => s = "web"
  /\ ~x.moved => x.replies = IF x.request # NULL THEN x.asked - 1 ELSE x.asked

\* Once in the group of s it is at s.
LEMMA JoinedAt ==
  ASSUME NEW x, NEW y, NEW s, NEW D, Arriving(x, s, D), Joined(x, y, s)
  PROVE  At(y, s, D) /\ y.route = x.route
<1>1. Typed(x) /\ Refs(x, D) /\ s \in Group \cup {NULL} /\ s \notin D
  BY Zenon DEF Arriving, Resting, Group
<1>2. Typed(y) /\ Refs(y, D)
  BY <1>1, JoinedTyped, JoinedRefs, Zenon
<1>3. SameLoan(x, y) /\ SameHint(x, y) /\ SameTls(x, y) /\ SameRead(x, y) /\ SameAnswer(x, y)
      /\ SameRequest(x, y) /\ SameFlags(x, y) /\ y.group = s /\ y.open = x.open
  BY Zenon DEF Joined
<1>4. Votes(y) /\ Quiet(y)
  BY <1>3, Zenon DEF Arriving, Resting, Votes, Quiet, SameHint, SameTls, SameRead, SameAnswer
<1>5. ~y.moved => y.replies <= y.asked
  BY <1>3, Zenon DEF Arriving, Resting, SameFlags, SameAnswer, SameRequest
<1>6. Resting(y, D)
  BY <1>2, <1>4, <1>5, Zenon DEF Resting
<1>7. At(y, s, D)
  BY <1>3, <1>6, Zenon DEF Arriving, At, SameLoan, SameRead, SameAnswer, SameRequest, SameFlags
<1> QED BY <1>3, <1>7, Zenon DEF SameFlags

\* evd_service_add leaves closed connections alone, and its own.
LEMMA AddDone ==
  ASSUME NEW x, NEW s, NEW D, NEW v, D \subseteq Group, Arriving(x, s, D), x.route = NULL
  PROVE  Done(evd_service_add(x, s, v), s, D)
<1>1. CASE ~x.open \/ x.group = s
  <2>1. evd_service_add(x, s, v) = x
    BY <1>1, Zenon DEF evd_service_add
  <2>2. Flagged(x) /\ Used(x)
    BY <1>1, Zenon DEF Arriving, Resting, Flagged, Used
  <2> QED BY <2>1, <2>2, RestKept, Zenon DEF Arriving, Done
<1>2. CASE ~(~x.open \/ x.group = s)
  <2> DEFINE y == evd_io_stream_set_group(x, s)
  <2>1. evd_service_add(x, s, v) = evd_service_validate_connection(y, s, v)
    BY <1>2, Zenon DEF evd_service_add
  <2>2. At(y, s, D) /\ y.route = NULL
    BY JoinStep, JoinedAt, Zenon DEF Arriving, Resting
  <2> QED BY <2>1, <2>2, ValidateDone, Zenon
<1> QED BY <1>1, <1>2, Zenon

-----------------------------------------------------------------------------
\* The selector's handler, and returning a connection.

\* Only these groups can die.
Mortal == {"sel", "grp"}

\* The request and the loan of a connection change.
Lends(x, y, r, ret, retweak, connweak) ==
  y = [x EXCEPT !.request = r, !.ret = ret, !.retweak = retweak, !.connweak = connweak]

\* Nothing else does.
Lent(x, y, r, ret, retweak, connweak) ==
  /\ Shape(y) /\ y.request = r /\ y.ret = ret /\ y.retweak = retweak /\ y.connweak = connweak
  /\ y.asked = x.asked
  /\ SameGroup(x, y) /\ SameHint(x, y) /\ SameTls(x, y) /\ SameRead(x, y) /\ SameAnswer(x, y)
  /\ SameFlags(x, y)

\* The fields that Lends leaves.
LEMMA LendStep ==
  ASSUME NEW x, NEW y, NEW r, NEW ret, NEW retweak, NEW connweak, Shape(x),
         Lends(x, y, r, ret, retweak, connweak)
  PROVE  Lent(x, y, r, ret, retweak, connweak)
<1>1. Shape(y)
  BY Zenon DEF Lends, Shape
<1>2. /\ y.request = r /\ y.ret = ret /\ y.retweak = retweak /\ y.connweak = connweak
      /\ y.asked = x.asked
  BY DEF Lends, Shape, Fields
<1>3. SameGroup(x, y) /\ SameHint(x, y) /\ SameTls(x, y) /\ SameRead(x, y) /\ SameAnswer(x, y)
      /\ SameFlags(x, y)
  BY DEF Lends, Shape, Fields, SameGroup, SameHint, SameTls, SameRead, SameAnswer, SameFlags
<1> QED BY <1>1, <1>2, <1>3, Zenon DEF Lent

\* A quiet connection stays so.
LEMMA LentRests ==
  ASSUME NEW x, NEW y, NEW r, NEW ret, NEW retweak, NEW connweak, NEW D, Resting(x, D),
         Lent(x, y, r, ret, retweak, connweak), r \in Requests \cup {NULL},
         ret # NULL => ret = "sel" /\ "sel" \notin D /\ connweak = 1,
         retweak = {ret} \ {NULL}, connweak \in {0, 1}, ret = NULL /\ connweak = 1 => "sel" \in D
  PROVE  Resting(y, D)
<1>1. Typed(y)
  BY Zenon DEF Resting, Typed, Lent, SameGroup, SameHint, SameTls, SameRead, SameAnswer, SameFlags
<1>2. Refs(y, D)
  BY Zenon DEF Resting, Refs, Lent, SameGroup
<1>3. Votes(y) /\ Quiet(y)
  BY Zenon DEF Resting, Votes, Quiet, Lent, SameHint, SameTls, SameRead, SameAnswer
<1>4. ~y.moved => y.replies <= y.asked
  BY Zenon DEF Resting, Lent, SameAnswer, SameFlags
<1> QED BY <1>1, <1>2, <1>3, <1>4, Zenon DEF Resting

\* The selector lends a connection to the service that its request is for.
LEMMA LendKept ==
  ASSUME NEW x, NEW D, NEW v, D \subseteq Mortal, At(x, "sel", D), x.request # NULL, x.route = NULL
  PROVE  ConnInv(evd_web_service_add_connection_with_request(x, "web", x.request, "sel", v), D)
<1> DEFINE r == x.request
           z == [x EXCEPT !.request = r]
           y == IF x.ret # NULL THEN z
                ELSE [z EXCEPT !.ret = "sel", !.retweak = z.retweak \cup {"sel"},
                               !.connweak = z.connweak + 1]
<1>1. evd_web_service_add_connection_with_request(x, "web", r, "sel", v)
        = evd_service_add(y, "web", v)
  BY Zenon DEF evd_web_service_add_connection_with_request
<1>2. /\ Resting(x, D) /\ Typed(x) /\ Shape(x) /\ r \in Requests /\ Refs(x, D)
      /\ "sel" \notin D /\ "sel" # NULL
  BY WebAssumption, Zenon DEF At, Resting, Typed
<1>3. z.retweak = x.retweak /\ z.connweak = x.connweak /\ z.ret = x.ret
  BY <1>2 DEF Shape, Fields
<1>4. PICK ret, retweak, connweak :
        /\ Lends(x, y, r, ret, retweak, connweak)
        /\ ret = "sel" /\ connweak = 1 /\ retweak = {ret} \ {NULL}
  <2>1. CASE x.ret # NULL
    <3>1. x.ret = "sel" /\ x.connweak = 1 /\ x.retweak = {x.ret} \ {NULL}
      BY <1>2, <2>1, Zenon DEF Refs
    <3>2. y = [x EXCEPT !.request = r, !.ret = x.ret, !.retweak = x.retweak, !.connweak = x.connweak]
      <4>1. y = z
        BY <2>1, Zenon
      <4> HIDE DEF y
      <4> QED BY <1>2, <4>1, Zenon DEF Shape, Fields
    <3> HIDE DEF y
    <3> QED BY <3>1, <3>2, Zenon DEF Lends
  <2>2. CASE x.ret = NULL
    <3> DEFINE w == x.retweak \cup {"sel"}
               n == x.connweak + 1
    <3>1. n = 1 /\ w = {"sel"} \ {NULL}
      <4>1. x.connweak \in {0, 1} /\ x.connweak # 1 /\ x.retweak = {}
        BY <1>2, <2>2, Zenon DEF Refs
      <4> QED BY <1>2, <4>1
    <3>2. y = [z EXCEPT !.ret = "sel", !.retweak = w, !.connweak = n]
      BY <1>3, <2>2, Zenon
    <3> HIDE DEF w, n, y
    <3>3. y = [x EXCEPT !.request = r, !.ret = "sel", !.retweak = w, !.connweak = n]
      BY <3>2, Zenon
    <3> QED BY <3>1, <3>3, Zenon DEF Lends
  <2> QED BY <2>1, <2>2, Zenon
<1> HIDE DEF y, r
<1>5. Lent(x, y, r, ret, retweak, connweak)
  BY <1>2, <1>4, LendStep, Zenon
<1>6. Resting(y, D)
  BY <1>2, <1>4, <1>5, LentRests, Zenon
<1>7. "web" \in Service /\ "web" \notin D /\ "web" # "sel" /\ D \subseteq Group
  BY DEF Service, Mortal, Group
<1>8. Arriving(y, "web", D) /\ y.route = NULL
  <2>1. y.open /\ y.group = "web" => y.stuck
    BY <1>5, <1>7, Zenon DEF At, Lent, SameGroup
  <2>2. ~y.shut /\ (y.pending => y.stuck) /\ y.route = NULL
    BY <1>5, Zenon DEF At, Lent, SameAnswer, SameRead, SameFlags
  <2>3. ~y.moved => y.replies = IF y.request # NULL THEN y.asked - 1 ELSE y.asked
    BY <1>5, Zenon DEF At, Lent, SameAnswer, SameFlags, r
  <2> QED BY <1>6, <1>7, <2>1, <2>2, <2>3, Zenon DEF Arriving
<1>9. Done(evd_service_add(y, "web", v), "web", D)
  BY <1>7, <1>8, AddDone, Zenon
<1> QED BY <1>1, <1>7, <1>9, Zenon DEF Done, r, y

\* The selector passes a connection on to a service of another kind.
LEMMA PassKept ==
  ASSUME NEW x, NEW D, NEW v, D \subseteq Mortal, At(x, "sel", D), x.route = NULL
  PROVE  ConnInv(evd_service_add(x, "svc", v), D)
<1>1. "svc" \in Service /\ "svc" \notin D /\ "svc" # "sel" /\ "web" # "sel" /\ D \subseteq Group
  BY DEF Service, Mortal, Group
<1>2. Arriving(x, "svc", D)
  BY <1>1, Zenon DEF Arriving, At
<1> QED BY <1>1, <1>2, AddDone, Zenon DEF Done

\* A connection that cannot be passed on stays, and nobody serves it.
LEMMA LeftKept ==
  ASSUME NEW x, NEW D, At(x, "sel", D), x.route = NULL
  PROVE  ConnInv([x EXCEPT !.unserved = TRUE], D)
<1> DEFINE y == [x EXCEPT !.unserved = TRUE]
<1>1. Resting(x, D) /\ Typed(x) /\ Shape(x)
  BY Zenon DEF At, Resting, Typed
<1>2. Shape(y)
  BY <1>1, Zenon DEF Shape
<1>3. y.unserved = TRUE /\ y.stuck = x.stuck /\ y.moved = x.moved /\ y.route = x.route
  BY <1>1 DEF Shape, Fields
<1>4. SameGroup(x, y) /\ SameLoan(x, y) /\ SameHint(x, y) /\ SameTls(x, y) /\ SameRead(x, y)
      /\ SameAnswer(x, y) /\ SameRequest(x, y)
  BY <1>1 DEF Shape, Fields, SameGroup, SameLoan, SameHint, SameTls, SameRead, SameAnswer, SameRequest
<1> HIDE DEF y
<1>5. Typed(y)
  BY <1>1, <1>2, <1>3, <1>4, Zenon
     DEF Typed, SameGroup, SameHint, SameTls, SameRead, SameAnswer, SameRequest
<1>6. Resting(y, D)
  BY <1>1, <1>3, <1>4, <1>5, RefsSame, Zenon
     DEF Resting, Votes, Quiet, SameHint, SameTls, SameRead, SameAnswer, SameRequest
<1>7. "sel" # "web"
  OBVIOUS
<1>8. Flagged(y) /\ Used(y) /\ y.route = NULL
  BY <1>3, <1>4, <1>7, Zenon DEF At, Flagged, Used, SameGroup, SameLoan, SameRead
<1>9. ConnInv(y, D)
  BY <1>6, <1>8, RestKept, Zenon
<1> QED BY <1>9, Zenon DEF y

\* The selector's handler deals with the request that waits for it.
LEMMA RoutedKept ==
  ASSUME NEW y, NEW s, NEW D, NEW v, D \subseteq Mortal, Done(y, s, D)
  PROVE  ConnInv(Routed(y, v), D)
<1>1. CASE ConnInv(y, D)
  BY <1>1, Zenon DEF ConnInv, Routed
<1>2. CASE Routing(y, D)
  <2> DEFINE x == [y EXCEPT !.route = NULL]
             r == y.request
  <2>1. At(y, "sel", D) /\ Secure(y, "sel") /\ r # NULL /\ y.route = r
    BY <1>2, Zenon DEF Routing
  <2>2. Routed(y, v) = evd_web_selector_request_handler(x, r, v)
    BY <2>1, Zenon DEF Routed
  <2>3. At(x, "sel", D) /\ (Secure(y, "sel") => Secure(x, "sel")) /\ x.route = NULL /\ x.request = r
    BY <2>1, RouteAside, Zenon
  <2> HIDE DEF x, r
  <2>4. CASE r.target = "web"
    <3>1. Routed(y, v) = evd_web_service_add_connection_with_request(x, "web", x.request, "sel", v)
      BY <2>2, <2>3, <2>4, Zenon DEF evd_web_selector_request_handler
    <3> QED BY <2>1, <2>3, <3>1, LendKept, Zenon
  <2>5. CASE r.target = "svc"
    <3>1. Routed(y, v) = IF v.fits THEN evd_service_add(x, "svc", v) ELSE [x EXCEPT !.unserved = TRUE]
      BY <2>2, <2>5, Zenon DEF evd_web_selector_request_handler
    <3>2. ConnInv(evd_service_add(x, "svc", v), D)
      BY <2>3, PassKept, Zenon
    <3>3. ConnInv([x EXCEPT !.unserved = TRUE], D)
      BY <2>3, LeftKept, Zenon
    <3> QED BY <3>1, <3>2, <3>3, Zenon
  <2>6. CASE r.target # "web" /\ r.target # "svc"
    <3>1. Routed(y, v) = [evd_web_service_respond_internal(x, v) EXCEPT !.refused = TRUE]
      BY <2>2, <2>6, Zenon DEF evd_web_selector_request_handler
    <3>2. Answerable(x, D)
      BY <2>1, <2>3, AtAnswerable, Zenon
    <3> QED BY <2>3, <3>1, <3>2, RefuseKept, ZenonT(60)
  <2> QED BY <2>4, <2>5, <2>6, Zenon
<1> QED BY <1>1, <1>2, Zenon DEF Done

\* The response is flushed, and the connection still in the web service s.
Answered(x, s, D) ==
  /\ Resting(x, D) /\ ~x.shut /\ (x.pending => x.stuck) /\ x.route = NULL
  /\ s \in WebLike /\ x.group = s /\ Secure(x, s)
  /\ x.ret # NULL /\ x.open /\ ~x.stuck => s = "web"
  /\ ~x.moved => x.replies = x.asked

\* The request is over.
LEMMA OverRests ==
  ASSUME NEW x, NEW s, NEW D, Answered(x, s, D)
  PROVE  LET y == [x EXCEPT !.request = NULL]
         IN  Resting(y, D) /\ Lent(x, y, NULL, x.ret, x.retweak, x.connweak)
<1> DEFINE y == [x EXCEPT !.request = NULL]
<1>1. Resting(x, D) /\ Refs(x, D) /\ Shape(x)
  BY Zenon DEF Answered, Resting, Typed
<1>2. y = [x EXCEPT !.request = NULL, !.ret = x.ret, !.retweak = x.retweak, !.connweak = x.connweak]
  BY <1>1, Zenon DEF Shape, Fields
<1> HIDE DEF y
<1>3. Lent(x, y, NULL, x.ret, x.retweak, x.connweak)
  BY <1>1, <1>2, LendStep, Zenon DEF Lends
<1>4. Resting(y, D)
  BY <1>1, <1>3, LentRests, Zenon DEF Refs
<1>5. Resting(y, D) /\ Lent(x, y, NULL, x.ret, x.retweak, x.connweak)
  BY <1>3, <1>4, Zenon
<1> QED BY <1>5, Zenon DEF y

\* A connection that is not persistent is shut down.
LEMMA ShutKept ==
  ASSUME NEW x, NEW s, NEW D, Answered(x, s, D)
  PROVE  ConnInv([[x EXCEPT !.request = NULL] EXCEPT !.shut = TRUE], D)
<1> DEFINE z == [x EXCEPT !.request = NULL]
           y == [z EXCEPT !.shut = TRUE]
<1>1. Resting(z, D) /\ Lent(x, z, NULL, x.ret, x.retweak, x.connweak)
  BY OverRests, Zenon
<1> HIDE DEF z
<1>2. Typed(z) /\ Shape(z)
  BY <1>1, Zenon DEF Resting, Typed
<1>3. Shape(y)
  BY <1>2, Zenon DEF Shape
<1>4. y.shut = TRUE /\ y.handler = z.handler /\ y.flushes = z.flushes /\ y.replies = z.replies
  BY <1>2 DEF Shape, Fields
<1>5. SameGroup(z, y) /\ SameLoan(z, y) /\ SameHint(z, y) /\ SameTls(z, y)
      /\ SameRead(z, y) /\ SameRequest(z, y) /\ SameFlags(z, y)
  BY <1>2 DEF Shape, Fields, SameGroup, SameLoan, SameHint, SameTls, SameRead,
              SameRequest, SameFlags
<1> HIDE DEF y
<1>6. Typed(y)
  BY <1>2, <1>3, <1>4, <1>5, Zenon
     DEF Typed, SameGroup, SameTls, SameHint, SameRead, SameRequest, SameFlags
<1>7. Resting(y, D)
  BY <1>1, <1>4, <1>5, <1>6, RefsSame, Zenon
     DEF Resting, Votes, Quiet, SameHint, SameTls, SameRead, SameRequest, SameFlags
<1>8. Flagged(y)
  BY <1>1, <1>5, Zenon DEF Answered, Lent, Flagged, SameRead, SameFlags
<1>9. Used(y) /\ y.route = NULL
  BY <1>1, <1>4, <1>5, Zenon DEF Answered, Lent, Used, SameGroup, SameLoan, SameFlags
<1>10. ConnInv(y, D)
  BY <1>7, <1>8, <1>9, RestKept, Zenon
<1> QED BY <1>10, Zenon DEF y, z

\* A connection that was lent goes back to the selector.
LEMMA BackDone ==
  ASSUME NEW x, NEW s, NEW D, NEW v, D \subseteq Mortal, Answered(x, s, D), x.ret # NULL
  PROVE  LET y == [x EXCEPT !.request = NULL]
             z == [y EXCEPT !.ret = NULL, !.retweak = y.retweak \ {x.ret}, !.connweak = y.connweak - 1]
         IN  Done(evd_service_add(z, x.ret, v), x.ret, D)
<1> DEFINE y == [x EXCEPT !.request = NULL]
           z == [y EXCEPT !.ret = NULL, !.retweak = y.retweak \ {x.ret}, !.connweak = y.connweak - 1]
           w == x.retweak \ {x.ret}
           n == x.connweak - 1
<1>1. Resting(x, D) /\ Refs(x, D) /\ Shape(x)
  BY Zenon DEF Answered, Resting, Typed
<1>2. x.ret = "sel" /\ "sel" \notin D /\ n = 0 /\ w = {NULL} \ {NULL}
  <2>1. x.ret = "sel" /\ "sel" \notin D /\ x.connweak = 1 /\ w = {NULL} \ {NULL}
    BY <1>1, Zenon DEF Refs
  <2> QED BY <2>1
<1>3. y.retweak = x.retweak /\ y.connweak = x.connweak
  BY <1>1 DEF Shape, Fields
<1>4. z = [y EXCEPT !.ret = NULL, !.retweak = w, !.connweak = n]
  BY <1>3, Zenon
<1> HIDE DEF z, w, n
<1>5. Lends(x, z, NULL, NULL, w, n)
  BY <1>4, Zenon DEF Lends
<1>6. Lent(x, z, NULL, NULL, w, n)
  BY <1>1, <1>5, LendStep, Zenon
<1>7. 0 # 1
  OBVIOUS
<1>8. Resting(z, D)
  BY <1>1, <1>2, <1>6, <1>7, LentRests, Zenon
<1>9. "sel" \in Service /\ D \subseteq Group /\ "sel" # "web"
  BY DEF Service, Mortal, Group
<1>10. Arriving(z, "sel", D) /\ z.route = NULL
  <2>1. z.open /\ z.group = "sel" => z.stuck
    BY <1>6, <1>9, Zenon DEF Answered, Lent, SameGroup, SameFlags
  <2>2. ~z.shut /\ (z.pending => z.stuck) /\ z.route = NULL /\ z.ret = NULL /\ z.request = NULL
    BY <1>6, Zenon DEF Answered, Lent, SameAnswer, SameRead, SameFlags
  <2>3. ~z.moved => z.replies = z.asked
    BY <1>6, Zenon DEF Answered, Lent, SameAnswer, SameFlags
  <2> QED BY <1>2, <1>8, <1>9, <2>1, <2>2, <2>3, Zenon DEF Arriving
<1>11. Done(evd_service_add(z, x.ret, v), x.ret, D)
  BY <1>2, <1>9, <1>10, AddDone, Zenon
<1> QED BY <1>11, Zenon DEF z

\* After a response the connection is shut down, goes back or is read again.
LEMMA ReturnDone ==
  ASSUME NEW x, NEW s, NEW D, NEW v, D \subseteq Mortal, Answered(x, s, D)
  PROVE  \E t : Done(evd_web_service_return_connection(x, s, v), t, D)
<1> DEFINE y == [x EXCEPT !.request = NULL]
<1>1. CASE ~x.open
  <2>1. evd_web_service_return_connection(x, s, v) = x
    BY <1>1, Zenon DEF evd_web_service_return_connection
  <2>2. Resting(x, D) /\ Flagged(x) /\ Used(x) /\ x.route = NULL
    BY <1>1, Zenon DEF Answered, Flagged, Used
  <2> QED BY <2>1, <2>2, RestKept, Zenon DEF Done
<1>2. CASE x.open /\ ~x.keep
  <2>1. evd_web_service_return_connection(x, s, v) = [y EXCEPT !.shut = TRUE]
    BY <1>2, Zenon DEF evd_web_service_return_connection
  <2> QED BY <2>1, ShutKept, Zenon DEF Done
<1>3. CASE x.open /\ x.keep /\ x.ret # NULL
  <2> DEFINE z == [y EXCEPT !.ret = NULL, !.retweak = y.retweak \ {x.ret}, !.connweak = y.connweak - 1]
  <2>1. evd_web_service_return_connection(x, s, v) = evd_service_add(z, x.ret, v)
    BY <1>3, Zenon DEF evd_web_service_return_connection
  <2>2. Done(evd_service_add(z, x.ret, v), x.ret, D)
    BY <1>3, BackDone, Zenon
  <2> QED BY <2>1, <2>2, Zenon
<1>4. CASE x.open /\ x.keep /\ x.ret = NULL
  <2>1. evd_web_service_return_connection(x, s, v) = evd_web_service_connection_accepted(y, s, v)
    BY <1>4, Zenon DEF evd_web_service_return_connection
  <2>2. Resting(y, D) /\ Lent(x, y, NULL, x.ret, x.retweak, x.connweak)
    BY OverRests, Zenon
  <2> HIDE DEF y
  <2>3. s \in Service /\ s \notin D /\ s \in WebLike
    BY Zenon DEF Answered, Resting, Refs, WebLike, Service
  <2>4. y.open = x.open /\ y.group = x.group /\ y.tls = x.tls /\ y.route = NULL /\ y.ret = NULL
    BY <1>4, <2>2, Zenon DEF Answered, Lent, SameGroup, SameTls, SameFlags
  <2>5. ~y.shut /\ (y.pending => y.stuck) /\ y.request = NULL
    BY <2>2, Zenon DEF Answered, Lent, SameAnswer, SameRead, SameFlags
  <2>6. ~y.moved => y.replies = y.asked
    BY <2>2, Zenon DEF Answered, Lent, SameAnswer, SameFlags
  <2>7. At(y, s, D) /\ Secure(y, s)
    BY <2>2, <2>3, <2>4, <2>5, <2>6, Zenon DEF At, Secure, Answered
  <2>8. Done(evd_web_service_connection_accepted(y, s, v), s, D)
    BY <2>3, <2>4, <2>7, AcceptedDone, Zenon
  <2>9. evd_web_service_return_connection(x, s, v) = evd_web_service_connection_accepted(y, s, v)
    BY <2>1, Zenon DEF y
  <2> QED BY <2>8, <2>9, Zenon
<1> QED BY <1>1, <1>2, <1>3, <1>4, Zenon

-----------------------------------------------------------------------------
\* What the actions make of a connection.  An action ends what is under way.

\* A new connection, or what is left of one; t are throttles of dead groups.
Blank(x, open, t) ==
  x = [Free EXCEPT !.open = open, !.weak = {}, !.throt = t, !.retweak = {}]

\* Nobody refers to a new connection.
LEMMA FreeShape == Shape(Free)
<1>1. DOMAIN Free = Fields
  BY DEF Free, Fields
<1>2. Free = [f \in DOMAIN Free |-> Free[f]]
  BY Zenon DEF Free
<1> QED BY <1>1, <1>2, Zenon DEF Shape

\* A blank connection rests.
LEMMA BlankRests ==
  ASSUME NEW x, NEW open \in BOOLEAN, NEW t, NEW D, D \subseteq Mortal, t \subseteq D,
         Blank(x, open, t)
  PROVE  /\ Resting(x, D) /\ x.open = open /\ ~x.pending /\ ~x.shut /\ x.route = NULL
         /\ x.ret = NULL /\ x.request = NULL /\ x.group = NULL /\ x.replies = x.asked
<1>1. Shape(x)
  BY FreeShape, Zenon DEF Blank, Shape
<1>2. /\ x.open = open /\ x.group = NULL /\ x.weak = {} /\ x.throt = t /\ x.tls = FALSE
      /\ x.starter = NULL /\ x.hint = NULL /\ x.vrefs = 0 /\ x.pending = FALSE /\ x.reads = {}
  BY DEF Blank, Free
<1>3. /\ x.request = NULL /\ x.ret = NULL /\ x.retweak = {} /\ x.connweak = 0 /\ x.handler = NULL
      /\ x.route = NULL /\ x.flushes = 0 /\ x.shut = FALSE /\ x.stuck = FALSE
      /\ x.moved = FALSE /\ x.unserved = FALSE /\ x.asked = 0 /\ x.replies = 0 /\ x.more = 0
  BY DEF Blank, Free
<1>4. 0 \in Int /\ 0 \in Nat /\ 0 <= 0 /\ 0 # 1
  OBVIOUS
<1>5. D \subseteq Group /\ NULL \notin D
  <2>1. D \subseteq Group
    BY DEF Mortal, Group, Service
  <2> QED BY <2>1, NullAlive, Zenon
<1>6. Typed(x)
  BY <1>1, <1>2, <1>3, <1>4, Zenon DEF Typed
<1>7. Refs(x, D)
  BY <1>2, <1>3, <1>4, <1>5, Zenon DEF Refs
<1>8. Votes(x) /\ Quiet(x) /\ x.replies <= x.asked
  BY <1>2, <1>3, <1>4, Zenon DEF Votes, Quiet
<1> QED BY <1>2, <1>3, <1>6, <1>7, <1>8, Zenon DEF Resting

\* A closed one needs nothing.
LEMMA BlankKept ==
  ASSUME NEW x, NEW t, NEW D, D \subseteq Mortal, t \subseteq D, Blank(x, FALSE, t)
  PROVE  ConnInv(x, D)
<1>1. Resting(x, D) /\ ~x.open /\ ~x.pending /\ x.route = NULL
  BY BlankRests, Zenon
<1> QED BY <1>1, RestKept, Zenon DEF Flagged, Used

\* A listener gives a connection to the selector.
LEMMA NewKept ==
  ASSUME NEW D, NEW v, D \subseteq Mortal, "sel" \notin D
  PROVE  ConnInv(Routed(evd_service_add(Free, "sel", v), v), D)
<1>1. Blank(Free, TRUE, {})
  <2>1. Free.open = TRUE /\ Free.weak = {} /\ Free.throt = {} /\ Free.retweak = {}
    BY DEF Free
  <2>2. Free = [Free EXCEPT !.open = TRUE, !.weak = {}, !.throt = {}, !.retweak = {}]
    BY ONLY <2>1, FreeShape, Zenon DEF Shape, Fields
  <2> QED BY <2>2, Zenon DEF Blank
<1>2. /\ Resting(Free, D) /\ Free.open /\ ~Free.pending /\ ~Free.shut /\ Free.route = NULL
      /\ Free.ret = NULL /\ Free.request = NULL /\ Free.group = NULL /\ Free.replies = Free.asked
  <2>1. {} \subseteq D /\ TRUE \in BOOLEAN
    OBVIOUS
  <2>2. ASSUME NEW open \in BOOLEAN, NEW t, open = TRUE, t = {}
        PROVE  /\ Resting(Free, D) /\ Free.open = open /\ ~Free.pending /\ ~Free.shut
               /\ Free.route = NULL /\ Free.ret = NULL /\ Free.request = NULL
               /\ Free.group = NULL /\ Free.replies = Free.asked
    <3>1. Blank(Free, open, t) /\ t \subseteq D
      BY <1>1, <2>1, <2>2, Zenon
    <3> QED BY <3>1, BlankRests, Zenon
  <2> QED BY <2>1, <2>2, Zenon
<1>3. "sel" \in Service /\ "sel" # NULL /\ D \subseteq Group
  BY WebAssumption DEF Service, Mortal, Group
<1>4. Arriving(Free, "sel", D)
  BY <1>2, <1>3, Zenon DEF Arriving
<1>5. Done(evd_service_add(Free, "sel", v), "sel", D)
  BY <1>2, <1>3, <1>4, AddDone, Zenon
<1> QED BY <1>5, RoutedKept, Zenon

\* What was under way with x is over in y.
Ended(x, y) ==
  /\ Typed(y) /\ Quiet(y) /\ Votes(y)
  /\ SameGroup(x, y) /\ SameLoan(x, y) /\ SameRequest(x, y) /\ SameFlags(x, y)
  /\ y.tls = x.tls /\ y.pending = x.pending /\ y.shut = x.shut /\ y.replies = x.replies

\* All that may be under way, but a handler, is taken off.
Ends(x, y) ==
  y = [x EXCEPT !.reads = {}, !.flushes = 0, !.hint = NULL, !.vrefs = 0, !.starter = NULL]

\* Nothing else changes.
LEMMA EndStep ==
  ASSUME NEW x, NEW y, Typed(x), Votes(x), x.handler = NULL, Ends(x, y)
  PROVE  Ended(x, y)
<1>1. Shape(x)
  BY Zenon DEF Typed
<1>2. Shape(y)
  BY <1>1, Zenon DEF Ends, Shape
<1>3. y.reads = {} /\ y.flushes = 0 /\ y.hint = NULL /\ y.vrefs = 0 /\ y.starter = NULL
  BY <1>1 DEF Ends, Shape, Fields
<1>4. y.tls = x.tls /\ y.pending = x.pending /\ y.shut = x.shut /\ y.replies = x.replies
      /\ y.handler = x.handler /\ y.more = x.more
  BY <1>1 DEF Ends, Shape, Fields
<1>5. SameGroup(x, y) /\ SameLoan(x, y) /\ SameRequest(x, y) /\ SameFlags(x, y)
  BY <1>1 DEF Ends, Shape, Fields, SameGroup, SameLoan, SameRequest, SameFlags
<1>6. 0 \in Nat
  OBVIOUS
<1>7. Typed(y)
  BY <1>2, <1>3, <1>4, <1>5, <1>6, Zenon DEF Typed, SameGroup, SameRequest, SameFlags
<1>8. Quiet(y) /\ Votes(y)
  BY <1>3, <1>4, Zenon DEF Quiet, Votes
<1> QED BY <1>4, <1>5, <1>7, <1>8, Zenon DEF Ended

\* What is over leaves the connection quiet, and where it was.
LEMMA EndedRests ==
  ASSUME NEW x, NEW y, NEW D, ConnInv(x, D), ~Quiet(x), Ended(x, y)
  PROVE  /\ Resting(y, D) /\ ~y.shut /\ y.route = NULL
         /\ x.reads = {} => (y.pending => y.stuck)
         /\ y.ret # NULL /\ y.open /\ ~y.stuck => y.group = "web"
<1>1. Refs(y, D)
  BY RefsSame, Zenon DEF ConnInv, Ended
<1>2. ~y.moved => y.replies <= y.asked
  BY Zenon DEF ConnInv, Books, Ended, SameRequest, SameFlags
<1>3. ~y.shut /\ y.route = NULL
  BY Zenon DEF ConnInv, Lone, Ended, SameFlags
<1>4. x.reads = {} => (y.pending => y.stuck)
  BY Zenon DEF ConnInv, Flagged, Ended, SameFlags
<1>5. y.ret # NULL /\ y.open /\ ~y.stuck => y.group = "web"
  BY Zenon DEF ConnInv, Used, Ended, SameFlags, SameGroup, SameLoan
<1> QED BY <1>1, <1>2, <1>3, <1>4, <1>5, Zenon DEF Resting, Ended

\* Who reads is alone.
LEMMA ReaderAlone ==
  ASSUME NEW x, NEW D, NEW rd, ConnInv(x, D), rd \in x.reads
  PROVE  /\ x.reads = {rd} /\ rd \in Reader /\ ~Quiet(x) /\ ~x.shut
         /\ x.hint = NULL /\ x.starter = NULL /\ x.handler = NULL /\ x.flushes = 0 /\ x.vrefs = 0
<1>1. Lone(x) /\ Votes(x) /\ x.reads \in SUBSET Reader
  BY Zenon DEF ConnInv, Typed
<1>2. x.reads = {rd} /\ rd \in Reader
  BY <1>1, Zenon DEF Lone
<1>3. ~Quiet(x) /\ x.hint = NULL /\ x.starter = NULL /\ x.handler = NULL /\ x.flushes = 0 /\ ~x.shut
  BY <1>1, <1>2, Zenon DEF Lone, Quiet
<1> QED BY <1>1, <1>2, <1>3, Zenon DEF Votes

\* The reader is told.
Notified(x, y, rd) ==
  /\ Shape(y) /\ y.reads = {rd} /\ rd \in Reader
  /\ y.pending \in BOOLEAN /\ y.request \in Requests \cup {NULL} /\ y.asked \in Int
  /\ SameGroup(x, y) /\ SameLoan(x, y) /\ SameHint(x, y) /\ SameTls(x, y) /\ SameAnswer(x, y)
  /\ SameFlags(x, y)

\* What it is told must be true of the connection.
LEMMA NotifiedKept ==
  ASSUME NEW x, NEW y, NEW D, NEW rd \in x.reads, NEW r2, ConnInv(x, D), Notified(x, y, r2),
         r2.by = rd.by, r2.ans # "wait", r2.ans # "closed", r2.ans # "busy",
         r2.ans = "ok" => ~y.pending /\ r2.req = y.request /\ y.request # NULL,
         ~y.moved => y.replies <= y.asked /\ (r2.ans = "ok" => y.replies = y.asked - 1)
  PROVE  ConnInv(y, D)
<1>1. /\ x.reads = {rd} /\ ~Quiet(x) /\ ~x.shut
      /\ x.hint = NULL /\ x.starter = NULL /\ x.handler = NULL /\ x.flushes = 0
  BY ReaderAlone, Zenon
<1>2. /\ y.reads = {r2} /\ y.hint = NULL /\ y.starter = NULL /\ y.handler = NULL /\ y.flushes = 0
      /\ ~y.shut /\ ~Quiet(y) /\ y.route = NULL
  BY <1>1, Zenon DEF Notified, SameHint, SameTls, SameAnswer, SameFlags, Quiet, ConnInv
<1>3. Typed(y)
  BY <1>2, Zenon DEF ConnInv, Typed, Notified, SameGroup, SameHint, SameTls, SameAnswer, SameFlags
<1>4. Refs(y, D) /\ Votes(y)
  BY RefsSame, Zenon DEF ConnInv, Notified, Votes, SameHint
<1>5. Lone(y)
  BY <1>2, Zenon DEF Lone
<1>6. Reading(y, D)
  <2>1. Reading(x, D)
    BY Zenon DEF ConnInv
  <2>2. r2.by \notin D /\ (x.open => x.group = r2.by /\ (r2.by \in Autostart => x.tls))
    BY <2>1, Zenon DEF Reading
  <2> QED BY <1>2, <2>2, Zenon DEF Reading, Notified, SameGroup, SameTls
<1>7. 0 # 1
  OBVIOUS
<1>8. Serving(y, D) /\ Flagged(y)
  BY <1>2, <1>7, Zenon DEF Serving, Flagged
<1>9. Books(y)
  BY <1>2, Zenon DEF Books
<1>10. Used(y)
  BY <1>2, Zenon DEF ConnInv, Used, Notified, SameGroup, SameLoan, SameFlags
<1> QED BY <1>2, <1>3, <1>4, <1>5, <1>6, <1>8, <1>9, <1>10, Zenon DEF ConnInv

\* A request is read.
LEMMA HeadersKept ==
  ASSUME NEW x, NEW D, NEW rd \in x.reads, NEW r \in Requests, ConnInv(x, D), rd.ans = "wait"
  PROVE  ConnInv([x EXCEPT !.pending = FALSE, !.request = r, !.keep = r.keep,
                           !.asked = x.asked + 1,
                           !.reads = (x.reads \ {rd}) \cup {[rd EXCEPT !.ans = "ok", !.req = r]}], D)
<1> DEFINE r2 == [rd EXCEPT !.ans = "ok", !.req = r]
           n == x.asked + 1
           k == r.keep
           y == [x EXCEPT !.pending = FALSE, !.request = r, !.keep = k, !.asked = n,
                          !.reads = (x.reads \ {rd}) \cup {r2}]
<1>1. x.reads = {rd} /\ rd \in Reader /\ Typed(x) /\ Shape(x)
  BY ReaderAlone, Zenon DEF ConnInv, Typed
<1>2. r2 \in Reader /\ r2.by = rd.by /\ r2.ans = "ok" /\ r2.req = r
  BY <1>1, Zenon DEF Reader
<1>3. x.asked \in Int /\ x.replies \in Int
  BY <1>1, Zenon DEF Typed
<1>4. n \in Int /\ (x.replies = x.asked => x.replies <= n /\ x.replies = n - 1)
  BY <1>3
<1>5. (x.reads \ {rd}) \cup {r2} = {r2}
  BY <1>1, Zenon
<1>6. y = [x EXCEPT !.pending = FALSE, !.request = r, !.keep = k, !.asked = n, !.reads = {r2}]
  BY <1>5, Zenon
<1> HIDE DEF r2, n, k, y
<1>7. Shape(y)
  BY <1>1, <1>6, Zenon DEF Shape
<1>8. y.pending = FALSE /\ y.request = r /\ y.asked = n /\ y.reads = {r2}
  BY <1>1, <1>6 DEF Shape, Fields
<1>9. SameGroup(x, y) /\ SameLoan(x, y) /\ SameHint(x, y) /\ SameTls(x, y) /\ SameAnswer(x, y)
      /\ SameFlags(x, y)
  BY <1>1, <1>6 DEF Shape, Fields, SameGroup, SameLoan, SameHint, SameTls, SameAnswer, SameFlags
<1>10. Notified(x, y, r2)
  BY <1>2, <1>4, <1>7, <1>8, <1>9, Zenon DEF Notified
<1>11. ~y.moved => y.replies <= y.asked /\ y.replies = y.asked - 1
  BY <1>4, <1>8, <1>9, Zenon DEF ConnInv, Books, SameAnswer, SameFlags
<1>12. r # NULL
  BY WebAssumption, Zenon
<1>13. ConnInv(y, D)
  BY <1>2, <1>8, <1>10, <1>11, <1>12, NotifiedKept, Zenon
<1> QED BY <1>13, Zenon DEF r2, n, k, y

\* A request cannot be read.
LEMMA HeadersFailKept ==
  ASSUME NEW x, NEW D, NEW rd \in x.reads, NEW long \in BOOLEAN, ConnInv(x, D), rd.ans = "wait"
  PROVE  ConnInv([x EXCEPT !.pending = long,
                           !.reads = (x.reads \ {rd}) \cup {[rd EXCEPT !.ans = "bad"]}], D)
<1> DEFINE r2 == [rd EXCEPT !.ans = "bad"]
           y == [x EXCEPT !.pending = long, !.reads = (x.reads \ {rd}) \cup {r2}]
<1>1. x.reads = {rd} /\ rd \in Reader /\ Typed(x) /\ Shape(x)
  BY ReaderAlone, Zenon DEF ConnInv, Typed
<1>2. r2 \in Reader /\ r2.by = rd.by /\ r2.ans = "bad"
  BY <1>1 DEF Reader
<1>3. (x.reads \ {rd}) \cup {r2} = {r2}
  BY <1>1, Zenon
<1>4. y = [x EXCEPT !.pending = long, !.reads = {r2}]
  BY <1>3, Zenon
<1> HIDE DEF r2, y
<1>5. Shape(y)
  BY <1>1, <1>4, Zenon DEF Shape
<1>6. y.pending = long /\ y.reads = {r2}
  BY <1>1, <1>4 DEF Shape, Fields
<1>7. SameGroup(x, y) /\ SameLoan(x, y) /\ SameHint(x, y) /\ SameTls(x, y) /\ SameAnswer(x, y)
      /\ SameRequest(x, y) /\ SameFlags(x, y)
  BY <1>1, <1>4 DEF Shape, Fields, SameGroup, SameLoan, SameHint, SameTls, SameAnswer,
                    SameRequest, SameFlags
<1>8. Notified(x, y, r2)
  BY <1>1, <1>2, <1>5, <1>6, <1>7, Zenon DEF Typed, SameRequest, Notified
<1>9. ~y.moved => y.replies <= y.asked
  BY <1>7, Zenon DEF ConnInv, Books, SameRequest, SameAnswer, SameFlags
<1>10. r2.ans # "ok" /\ r2.ans # "wait" /\ r2.ans # "closed" /\ r2.ans # "busy"
  BY <1>2
<1>11. ConnInv(y, D)
  BY <1>2, <1>8, <1>9, <1>10, NotifiedKept, Zenon
<1> QED BY <1>11, Zenon DEF r2, y

\* The reader goes on with the request, or gives the connection up.
LEMMA HeadersReadKept ==
  ASSUME NEW x, NEW D, NEW v, NEW rd \in x.reads, D \subseteq Mortal, ConnInv(x, D), rd.ans # "wait"
  PROVE  LET y == [x EXCEPT !.reads = x.reads \ {rd}]
         IN  ConnInv(CASE rd.ans = "ok" ->
                            Routed(evd_web_service_validate_request(y, rd.by, rd.req, v), v)
                       [] rd.ans = "closed" -> y
                       [] OTHER -> g_io_stream_close(y), D)
<1> DEFINE y == [x EXCEPT !.reads = x.reads \ {rd}]
<1>1. /\ x.reads = {rd} /\ rd \in Reader /\ ~Quiet(x)
      /\ x.hint = NULL /\ x.starter = NULL /\ x.handler = NULL /\ x.flushes = 0 /\ x.vrefs = 0
  BY ReaderAlone, Zenon
<1>2. Typed(x) /\ Shape(x) /\ Votes(x) /\ Reading(x, D) /\ Books(x)
  BY Zenon DEF ConnInv, Typed
<1>3. Ended(x, y)
  <2>1. x.reads \ {rd} = {}
    BY <1>1, Zenon
  <2>2. y = [x EXCEPT !.reads = {}]
    BY <2>1, Zenon
  <2>3. Ends(x, y)
    BY ONLY <1>1, <1>2, <2>2, Zenon DEF Ends, Shape, Fields
  <2> QED BY <1>1, <1>2, <2>3, EndStep, Zenon
<1> HIDE DEF y
<1>4. /\ Resting(y, D) /\ ~y.shut /\ y.route = NULL
      /\ y.ret # NULL /\ y.open /\ ~y.stuck => y.group = "web"
  BY <1>1, <1>3, EndedRests, Zenon
<1>5. D \subseteq Group
  BY DEF Mortal, Group, Service
<1>6. /\ y.open = x.open /\ y.group = x.group /\ y.tls = x.tls /\ y.pending = x.pending
      /\ y.request = x.request /\ y.replies = x.replies /\ y.asked = x.asked /\ y.moved = x.moved
  BY <1>3, Zenon DEF Ended, SameGroup, SameRequest, SameFlags
<1>7. CASE rd.ans = "ok"
  <2>1. /\ ~x.pending /\ rd.req = x.request /\ x.request # NULL /\ rd.by \notin D
        /\ x.open => x.group = rd.by /\ (rd.by \in Autostart => x.tls)
    BY <1>2, <1>7, Zenon DEF Reading
  <2>2. rd.by \in WebLike /\ rd.by \in Service
    <3>1. rd.by \in WebLike
      BY <1>1 DEF Reader
    <3> QED BY <3>1, Zenon DEF WebLike, Service
  <2>3. ~x.moved => x.replies = x.asked - 1
    BY <1>2, <1>7, Zenon DEF Books
  <2>4. At(y, rd.by, D) /\ Secure(y, rd.by) /\ y.request # NULL /\ rd.req = y.request
    BY <1>4, <1>6, <2>1, <2>2, <2>3, Zenon DEF At, Secure
  <2>5. Done(evd_web_service_validate_request(y, rd.by, rd.req, v), rd.by, D)
    BY <1>4, <2>2, <2>4, ValidateRequestDone, Zenon
  <2>6. ConnInv(Routed(evd_web_service_validate_request(y, rd.by, rd.req, v), v), D)
    BY <2>5, RoutedKept, Zenon
  <2> QED BY <1>7, <2>6, Zenon DEF y
<1>8. CASE rd.ans = "closed"
  <2>1. ~y.open
    BY <1>2, <1>6, <1>8, Zenon DEF Reading
  <2>2. ConnInv(y, D)
    BY <1>4, <2>1, RestKept, Zenon DEF Flagged, Used, Resting
  <2>3. rd.ans # "ok"
    BY <1>8
  <2> QED BY <1>8, <2>2, <2>3, Zenon DEF y
<1>9. CASE rd.ans # "ok" /\ rd.ans # "closed"
  <2>1. ConnInv(g_io_stream_close(y), D)
    BY <1>4, <1>5, IoCloseKept, Zenon
  <2> QED BY <1>9, <2>1, Zenon DEF y
<1> QED BY <1>7, <1>8, <1>9, Zenon

\* The response is out.
LEMMA FlushKept ==
  ASSUME NEW x, NEW D, NEW v, D \subseteq Mortal, ConnInv(x, D), x.flushes > 0
  PROVE  LET y == [x EXCEPT !.flushes = x.flushes - 1]
         IN  ConnInv(IF x.group \in WebLike
                     THEN Routed(evd_web_service_return_connection(y, x.group, v), v) ELSE y, D)
<1> DEFINE n == x.flushes - 1
           y == [x EXCEPT !.flushes = n]
<1>1. Typed(x) /\ Shape(x) /\ Lone(x) /\ Votes(x) /\ Serving(x, D) /\ Books(x) /\ x.flushes \in {0, 1}
  BY Zenon DEF ConnInv, Typed, Lone
<1>2. n = 0 /\ x.flushes # 0
  BY <1>1
<1>3. /\ x.reads = {} /\ ~Quiet(x)
      /\ x.hint = NULL /\ x.starter = NULL /\ x.handler = NULL /\ x.vrefs = 0
  BY <1>1, <1>2, Zenon DEF Lone, Quiet, Votes
<1> HIDE DEF n
<1>4. Ended(x, y)
  <2>1. Ends(x, y)
    BY ONLY <1>1, <1>2, <1>3, Zenon DEF Ends, Shape, Fields
  <2> QED BY <1>1, <1>3, <2>1, EndStep, Zenon
<1> HIDE DEF y
<1>5. /\ Resting(y, D) /\ ~y.shut /\ y.route = NULL /\ (y.pending => y.stuck)
      /\ y.ret # NULL /\ y.open /\ ~y.stuck => y.group = "web"
  BY <1>3, <1>4, EndedRests, Zenon
<1>6. /\ y.open = x.open /\ y.group = x.group /\ y.tls = x.tls
      /\ y.replies = x.replies /\ y.asked = x.asked /\ y.moved = x.moved
  BY <1>4, Zenon DEF Ended, SameGroup, SameRequest, SameFlags
<1>7. CASE x.group \in WebLike
  <2>1. Secure(y, x.group) /\ (~y.moved => y.replies = y.asked)
    BY <1>1, <1>2, <1>6, Zenon DEF Serving, Secure, Books
  <2>2. Answered(y, x.group, D)
    BY <1>5, <1>6, <1>7, <2>1, Zenon DEF Answered
  <2>3. PICK t : Done(evd_web_service_return_connection(y, x.group, v), t, D)
    BY <2>2, ReturnDone, Zenon
  <2>4. ConnInv(Routed(evd_web_service_return_connection(y, x.group, v), v), D)
    BY <2>3, RoutedKept, Zenon
  <2> QED BY <1>7, <2>4, Zenon DEF y, n
<1>8. CASE x.group \notin WebLike
  <2>1. "web" \in WebLike
    BY DEF WebLike
  <2>2. ConnInv(y, D)
    BY <1>5, <1>6, <1>8, <2>1, RestKept, Zenon DEF Flagged, Used
  <2> QED BY <1>8, <2>2, Zenon DEF y, n
<1> QED BY <1>7, <1>8, Zenon

\* The application answers.
LEMMA AnswerKept ==
  ASSUME NEW x, NEW D, NEW v, ConnInv(x, D), x.handler # NULL
  PROVE  ConnInv(evd_web_service_respond_internal([x EXCEPT !.handler = NULL], v), D)
<1> DEFINE y == [x EXCEPT !.handler = NULL]
<1>1. /\ Typed(x) /\ Refs(x, D) /\ Votes(x) /\ Lone(x) /\ Serving(x, D) /\ Flagged(x) /\ Books(x)
      /\ Used(x) /\ x.route = NULL
  BY Zenon DEF ConnInv
<1>2. /\ x.hint = NULL /\ x.starter = NULL /\ x.reads = {} /\ x.flushes = 0 /\ ~Quiet(x) /\ ~x.shut
  BY <1>1, Zenon DEF Lone, Quiet
<1>3. Shape(x)
  BY <1>1, Zenon DEF Typed
<1>4. Ended(x, y)
  <2>1. Shape(y)
    BY <1>3, Zenon DEF Shape
  <2>2. y.handler = NULL /\ y.flushes = x.flushes /\ y.shut = x.shut /\ y.replies = x.replies
    BY <1>3 DEF Shape, Fields
  <2>3. SameGroup(x, y) /\ SameLoan(x, y) /\ SameHint(x, y) /\ SameTls(x, y)
        /\ SameRead(x, y) /\ SameRequest(x, y) /\ SameFlags(x, y)
    BY <1>3 DEF Shape, Fields, SameGroup, SameLoan, SameHint, SameTls, SameRead,
                SameRequest, SameFlags
  <2> HIDE DEF y
  <2>4. Typed(y)
    BY <1>1, <2>1, <2>2, <2>3, Zenon
       DEF Typed, SameGroup, SameTls, SameHint, SameRead, SameRequest, SameFlags
  <2>5. Quiet(y) /\ Votes(y)
    BY <1>1, <1>2, <2>2, <2>3, Zenon DEF Quiet, Votes, SameHint, SameTls, SameRead
  <2> QED BY <2>2, <2>3, <2>4, <2>5, Zenon DEF Ended, SameTls, SameRead
<1> HIDE DEF y
<1>5. /\ Resting(y, D) /\ ~y.shut /\ y.route = NULL /\ (y.pending => y.stuck)
      /\ y.ret # NULL /\ y.open /\ ~y.stuck => y.group = "web"
  BY <1>2, <1>4, EndedRests, Zenon
<1>6. (~y.moved => y.replies = y.asked - 1) /\ (y.open /\ y.group \in Autostart => y.tls)
  <2>1. (~x.moved => x.replies = x.asked - 1) /\ (x.open /\ x.group \in Autostart => x.tls)
    BY <1>1, Zenon DEF Books, Serving
  <2> QED BY <1>4, <2>1, Zenon DEF Ended, SameGroup, SameRequest, SameFlags
<1>7. Answerable(y, D)
  BY <1>5, <1>6, Zenon DEF Answerable, Resting, Quiet
<1>8. ConnInv(evd_web_service_respond_internal(y, v), D)
  BY <1>5, <1>7, RespondKept, Zenon
<1> QED BY <1>8, Zenon DEF y

\* A decision is made: the connection is with the service that asked.
LEMMA DecidedAt ==
  ASSUME NEW x, NEW D, D \subseteq Group, ConnInv(x, D), x.hint \in Service \ D
  PROVE  LET y == [x EXCEPT !.hint = NULL, !.vrefs = x.vrefs - 1]
         IN  At(y, x.hint, D) /\ y.route = NULL
<1> DEFINE n == x.vrefs - 1
           y == [x EXCEPT !.hint = NULL, !.vrefs = n]
<1>1. Typed(x) /\ Shape(x) /\ Lone(x) /\ Votes(x) /\ Serving(x, D) /\ Books(x)
  BY Zenon DEF ConnInv, Typed
<1>2. x.hint # NULL /\ x.hint \in Service /\ x.hint \notin D
  BY NullAlive, Zenon
<1>3. n = 0
  BY <1>1, <1>2 DEF Votes
<1>4. x.reads = {} /\ x.starter = NULL /\ x.handler = NULL /\ x.flushes = 0 /\ ~Quiet(x)
  BY <1>1, <1>2, Zenon DEF Lone, Quiet
<1> HIDE DEF n
<1>5. Ended(x, y)
  <2>1. Ends(x, y)
    BY ONLY <1>1, <1>3, <1>4, Zenon DEF Ends, Shape, Fields
  <2> QED BY <1>1, <1>4, <2>1, EndStep, Zenon
<1> HIDE DEF y
<1>6. /\ Resting(y, D) /\ ~y.shut /\ y.route = NULL /\ (y.pending => y.stuck)
      /\ y.ret # NULL /\ y.open /\ ~y.stuck => y.group = "web"
  BY <1>4, <1>5, EndedRests, Zenon
<1>7. /\ y.open = x.open /\ y.group = x.group /\ y.request = x.request
      /\ y.replies = x.replies /\ y.asked = x.asked /\ y.moved = x.moved
  BY <1>5, Zenon DEF Ended, SameGroup, SameRequest, SameFlags
<1>8. y.open => y.group = x.hint
  BY <1>1, <1>2, <1>7, Zenon DEF Serving
<1>9. ~y.moved => y.replies = IF y.request # NULL THEN y.asked - 1 ELSE y.asked
  BY <1>1, <1>2, <1>7, Zenon DEF Books
<1>10. At(y, x.hint, D) /\ y.route = NULL
  BY <1>2, <1>6, <1>8, <1>9, Zenon DEF At
<1> QED BY <1>10, Zenon DEF y, n

\* The service that asked takes the connection...
LEMMA AcceptKept ==
  ASSUME NEW x, NEW D, NEW v, D \subseteq Mortal, ConnInv(x, D), x.hint \in Service \ D
  PROVE  ConnInv(Routed(accept_connection_priv([x EXCEPT !.hint = NULL, !.vrefs = x.vrefs - 1],
                                               x.hint, v), v), D)
<1> DEFINE y == [x EXCEPT !.hint = NULL, !.vrefs = x.vrefs - 1]
<1>1. D \subseteq Group
  BY DEF Mortal, Group, Service
<1>2. At(y, x.hint, D) /\ y.route = NULL
  BY <1>1, DecidedAt, Zenon
<1> HIDE DEF y
<1>3. Done(accept_connection_priv(y, x.hint, v), x.hint, D)
  BY <1>2, AcceptDone, Zenon
<1>4. ConnInv(Routed(accept_connection_priv(y, x.hint, v), v), D)
  BY <1>3, RoutedKept, Zenon
<1> QED BY <1>4, Zenon DEF y

\* ...or closes it.
LEMMA RejectKept ==
  ASSUME NEW x, NEW D, D \subseteq Mortal, ConnInv(x, D), x.hint \in Service \ D
  PROVE  ConnInv(g_io_stream_close([x EXCEPT !.hint = NULL, !.vrefs = x.vrefs - 1]), D)
<1> DEFINE y == [x EXCEPT !.hint = NULL, !.vrefs = x.vrefs - 1]
<1>1. D \subseteq Group
  BY DEF Mortal, Group, Service
<1>2. At(y, x.hint, D) /\ y.route = NULL
  BY <1>1, DecidedAt, Zenon
<1> HIDE DEF y
<1>3. ConnInv(g_io_stream_close(y), D)
  BY <1>1, <1>2, IoCloseKept, Zenon DEF At
<1> QED BY <1>3, Zenon DEF y

\* A handshake is over.
LEMMA TlsKept ==
  ASSUME NEW x, NEW D, NEW v, NEW ok \in BOOLEAN, D \subseteq Mortal, ConnInv(x, D), x.starter # NULL
  PROVE  LET y == [x EXCEPT !.starter = NULL]
         IN  ConnInv(IF ok THEN Routed(evd_service_validate_connection(y, x.starter, v), v)
                     ELSE g_io_stream_close(y), D)
<1> DEFINE y == [x EXCEPT !.starter = NULL]
<1>1. Typed(x) /\ Shape(x) /\ Lone(x) /\ Votes(x) /\ Serving(x, D) /\ Books(x)
  BY Zenon DEF ConnInv, Typed
<1>2. x.starter \in Service /\ x.starter \notin D
  BY <1>1, Zenon DEF Typed, Serving
<1>3. x.reads = {} /\ x.hint = NULL /\ x.handler = NULL /\ x.flushes = 0 /\ ~Quiet(x) /\ x.vrefs = 0
  BY <1>1, Zenon DEF Lone, Quiet, Votes
<1>4. Ended(x, y)
  <2>1. Ends(x, y)
    BY ONLY <1>1, <1>3, Zenon DEF Ends, Shape, Fields
  <2> QED BY <1>1, <1>3, <2>1, EndStep, Zenon
<1> HIDE DEF y
<1>5. /\ Resting(y, D) /\ ~y.shut /\ y.route = NULL /\ (y.pending => y.stuck)
      /\ y.ret # NULL /\ y.open /\ ~y.stuck => y.group = "web"
  BY <1>3, <1>4, EndedRests, Zenon
<1>6. /\ y.open = x.open /\ y.group = x.group /\ y.request = x.request
      /\ y.replies = x.replies /\ y.asked = x.asked /\ y.moved = x.moved
  BY <1>4, Zenon DEF Ended, SameGroup, SameRequest, SameFlags
<1>7. y.open => y.group = x.starter
  BY <1>1, <1>6, Zenon DEF Serving
<1>8. ~y.moved => y.replies = IF y.request # NULL THEN y.asked - 1 ELSE y.asked
  BY <1>1, <1>6, Zenon DEF Books
<1>9. At(y, x.starter, D)
  BY <1>2, <1>5, <1>7, <1>8, Zenon DEF At
<1>10. D \subseteq Group
  BY DEF Mortal, Group, Service
<1>11. Done(evd_service_validate_connection(y, x.starter, v), x.starter, D)
  BY <1>5, <1>9, <1>10, ValidateDone, Zenon
<1>12. ConnInv(Routed(evd_service_validate_connection(y, x.starter, v), v), D)
  BY <1>11, RoutedKept, Zenon
<1>13. ConnInv(g_io_stream_close(y), D)
  BY <1>5, <1>10, IoCloseKept, Zenon
<1> QED BY <1>12, <1>13, Zenon DEF y

\* The peer hangs up.
LEMMA HangUpKept ==
  ASSUME NEW x, NEW D, D \subseteq Mortal, ConnInv(x, D)
  PROVE  ConnInv(evd_http_connection_close(x), D)
<1>1. D \subseteq Group
  BY DEF Mortal, Group, Service
<1>2. Closed(x, evd_http_connection_close(x))
  BY CloseStep, Zenon DEF ConnInv
<1> QED BY <1>1, <1>2, ClosedKept, Zenon DEF ConnInv

\* A connection that no service is busy with rests.
LEMMA IdleRests ==
  ASSUME NEW x, NEW D, ConnInv(x, D), x.open, Idle(x)
  PROVE  Resting(x, D) /\ (x.pending => x.stuck) /\ (x.ret # NULL => x.stuck)
<1>1. Quiet(x)
  BY Zenon DEF Idle, Quiet
<1>2. (x.pending => x.stuck) /\ (x.ret # NULL => x.stuck)
  BY <1>1, Zenon DEF ConnInv, Flagged, Used, Idle
<1>3. ~x.moved => x.replies <= x.asked
  BY Zenon DEF ConnInv, Books
<1> QED BY <1>1, <1>2, <1>3, Zenon DEF Resting, ConnInv

\* The marks of a move.
LEMMA MoveStep ==
  ASSUME NEW x, NEW b \in BOOLEAN, Typed(x)
  PROVE  LET y == Moved(x, b)
         IN  /\ Typed(y) /\ SameGroup(x, y) /\ SameLoan(x, y) /\ SameHint(x, y) /\ SameTls(x, y)
             /\ SameRead(x, y) /\ SameAnswer(x, y) /\ SameRequest(x, y)
             /\ y.moved = TRUE /\ (x.torn \/ ~Idle(x) => y.torn = TRUE) /\ y.unserved = b
             /\ y.stuck = x.stuck /\ y.route = x.route
<1> DEFINE t == x.torn \/ ~Idle(x)
           y == [x EXCEPT !.moved = TRUE, !.torn = t, !.unserved = b]
<1>1. Moved(x, b) = y
  BY Zenon DEF Moved
<1> HIDE DEF t
<1>2. Shape(x) /\ Shape(y)
  BY Zenon DEF Typed, Shape
<1>3. y.moved = TRUE /\ y.torn = t /\ y.unserved = b /\ y.stuck = x.stuck /\ y.route = x.route
  BY <1>2 DEF Shape, Fields
<1>4. SameGroup(x, y) /\ SameLoan(x, y) /\ SameHint(x, y) /\ SameTls(x, y) /\ SameRead(x, y)
      /\ SameAnswer(x, y) /\ SameRequest(x, y)
  BY <1>2 DEF Shape, Fields, SameGroup, SameLoan, SameHint, SameTls, SameRead, SameAnswer, SameRequest
<1> HIDE DEF y
<1>5. Typed(y)
  BY <1>2, <1>3, <1>4, Zenon
     DEF Typed, SameGroup, SameHint, SameTls, SameRead, SameAnswer, SameRequest
<1>6. /\ Typed(y) /\ SameGroup(x, y) /\ SameLoan(x, y) /\ SameHint(x, y) /\ SameTls(x, y)
      /\ SameRead(x, y) /\ SameAnswer(x, y) /\ SameRequest(x, y)
      /\ y.moved = TRUE /\ (t => y.torn = TRUE) /\ y.unserved = b /\ y.stuck = x.stuck
      /\ y.route = x.route
  <2>1. t \in BOOLEAN
    BY Zenon DEF t
  <2>2. t => y.torn = TRUE
    BY <1>3, <2>1
  <2> QED BY <1>3, <1>4, <1>5, <2>2, Zenon
<1> QED BY <1>1, <1>6, Zenon DEF t

\* They do not disturb a connection at rest.
LEMMA MarkedRests ==
  ASSUME NEW x, NEW D, NEW b \in BOOLEAN, Resting(x, D)
  PROVE  LET y == Moved(x, b)
         IN  /\ Resting(y, D) /\ SameGroup(x, y) /\ SameLoan(x, y) /\ SameRead(x, y)
             /\ y.moved /\ y.unserved = b /\ y.stuck = x.stuck /\ y.route = x.route /\ y.shut = x.shut
<1> DEFINE y == Moved(x, b)
<1>1. Typed(x)
  BY Zenon DEF Resting
<1>2. /\ Typed(y) /\ SameGroup(x, y) /\ SameLoan(x, y) /\ SameHint(x, y) /\ SameTls(x, y)
      /\ SameRead(x, y) /\ SameAnswer(x, y)
      /\ y.moved = TRUE /\ y.unserved = b /\ y.stuck = x.stuck /\ y.route = x.route
  BY <1>1, MoveStep, Zenon
<1> HIDE DEF y
<1>3. Resting(y, D)
  BY <1>2, RefsSame, Zenon
     DEF Resting, Votes, Quiet, SameHint, SameTls, SameRead, SameAnswer
<1>4. /\ Resting(y, D) /\ SameGroup(x, y) /\ SameLoan(x, y) /\ SameRead(x, y)
      /\ y.moved /\ y.unserved = b /\ y.stuck = x.stuck /\ y.route = x.route /\ y.shut = x.shut
  BY <1>2, <1>3, Zenon DEF SameAnswer
<1> QED BY <1>4, Zenon DEF y

\* In another group it rests, too.
LEMMA JoinedRests ==
  ASSUME NEW x, NEW y, NEW g, NEW D, Resting(x, D), Joined(x, y, g), g \in Group \cup {NULL}, g \notin D
  PROVE  Resting(y, D)
<1>1. Typed(y) /\ Refs(y, D)
  BY JoinedTyped, JoinedRefs, Zenon DEF Resting
<1>2. Votes(y) /\ Quiet(y) /\ (~y.moved => y.replies <= y.asked)
  BY Zenon DEF Resting, Joined, Votes, Quiet, SameHint, SameTls, SameRead, SameAnswer, SameRequest,
               SameFlags
<1> QED BY <1>1, <1>2, Zenon DEF Resting

\* The application adds a connection to a group or a service.
LEMMA GroupAddKept ==
  ASSUME NEW x, NEW D, NEW v, NEW g \in Group, D \subseteq Mortal, ConnInv(x, D), x.open,
         Idle(x), g \notin D, g # x.group
  PROVE  LET y == Moved(x, FALSE)
         IN  ConnInv(IF g = "grp" THEN evd_io_stream_set_group(y, g)
                     ELSE Routed(evd_service_add(y, g, v), v), D)
<1> DEFINE y == Moved(x, FALSE)
<1>1. Resting(x, D) /\ (x.pending => x.stuck) /\ (x.ret # NULL => x.stuck) /\ ~x.shut
  BY IdleRests, Zenon DEF Idle
<1>2. FALSE \in BOOLEAN
  OBVIOUS
<1>3. /\ Resting(y, D) /\ SameGroup(x, y) /\ SameLoan(x, y) /\ SameRead(x, y)
      /\ y.moved /\ y.stuck = x.stuck /\ y.route = x.route /\ y.shut = x.shut
  BY <1>1, <1>2, MarkedRests, Zenon
<1> HIDE DEF y
<1>4. /\ y.group = x.group /\ ~y.shut /\ y.route = NULL
      /\ (y.pending => y.stuck) /\ (y.ret # NULL => y.stuck)
  BY <1>1, <1>3, Zenon DEF ConnInv, SameGroup, SameLoan, SameRead
<1>5. CASE g = "grp"
  <2> DEFINE z == evd_io_stream_set_group(y, g)
  <2>1. Joined(y, z, g)
    BY <1>3, JoinStep, Zenon DEF Resting
  <2> HIDE DEF z
  <2>2. Resting(z, D)
    BY <1>3, <2>1, JoinedRests, Zenon
  <2>3. z.group \notin WebLike
    BY <1>5, <2>1 DEF Joined, WebLike
  <2>4. z.route = NULL /\ (z.pending => z.stuck) /\ (z.ret # NULL => z.stuck)
    BY <1>4, <2>1, Zenon DEF Joined, SameLoan, SameRead, SameFlags
  <2>5. ConnInv(z, D)
    BY <2>2, <2>3, <2>4, RestKept, Zenon DEF Flagged, Used
  <2> QED BY <1>5, <2>5, Zenon DEF y, z
<1>6. CASE g # "grp"
  <2>1. g \in Service /\ D \subseteq Group
    BY <1>6 DEF Group, Mortal, Service
  <2>2. Arriving(y, g, D)
    BY <1>3, <1>4, <2>1, Zenon DEF Arriving
  <2>3. Done(evd_service_add(y, g, v), g, D)
    BY <1>4, <2>1, <2>2, AddDone, Zenon
  <2>4. ConnInv(Routed(evd_service_add(y, g, v), v), D)
    BY <2>3, RoutedKept, Zenon
  <2> QED BY <1>6, <2>4, Zenon DEF y
<1> QED BY <1>5, <1>6, Zenon

\* The application sets the group.
LEMMA SetPropertyKept ==
  ASSUME NEW x, NEW D, NEW g \in Group \cup {NULL}, ConnInv(x, D), x.open, Idle(x), g \notin D
  PROVE  ConnInv(evd_io_stream_set_group(Moved(x, TRUE), g), D)
<1> DEFINE y == Moved(x, TRUE)
           z == evd_io_stream_set_group(y, g)
<1>1. Resting(x, D) /\ (x.pending => x.stuck) /\ (x.ret # NULL => x.stuck)
  BY IdleRests, Zenon
<1>2. TRUE \in BOOLEAN
  OBVIOUS
<1>3. /\ Resting(y, D) /\ SameLoan(x, y) /\ SameRead(x, y) /\ y.unserved = TRUE
      /\ y.stuck = x.stuck /\ y.route = x.route
  BY <1>1, <1>2, MarkedRests, Zenon
<1> HIDE DEF y
<1>4. Joined(y, z, g)
  BY <1>3, JoinStep, Zenon DEF Resting
<1> HIDE DEF z
<1>5. Resting(z, D)
  BY <1>3, <1>4, JoinedRests, Zenon
<1>6. z.route = NULL /\ (z.pending => z.stuck) /\ (z.ret # NULL => z.stuck) /\ z.unserved
  BY <1>1, <1>3, <1>4, Zenon DEF ConnInv, Joined, SameLoan, SameRead, SameFlags
<1>7. ConnInv(z, D)
  BY <1>5, <1>6, RestKept, Zenon DEF Flagged, Used
<1> QED BY <1>7, Zenon DEF y, z

\* The last reference is dropped.
LEMMA DisposeKept ==
  ASSUME NEW x, NEW D, D \subseteq Mortal, Refs(x, D)
  PROVE  ConnInv([Free EXCEPT !.open = FALSE, !.weak = x.weak \ {x.group},
                              !.throt = x.throt \ {x.group}, !.retweak = x.retweak \ {x.ret}], D)
<1> DEFINE t == x.throt \ {x.group}
           y == [Free EXCEPT !.open = FALSE, !.weak = x.weak \ {x.group},
                             !.throt = t, !.retweak = x.retweak \ {x.ret}]
<1>1. x.weak \ {x.group} = {} /\ x.retweak \ {x.ret} = {} /\ t \subseteq D
  BY Zenon DEF Refs
<1> HIDE DEF t
<1>2. Blank(y, FALSE, t)
  BY <1>1, Zenon DEF Blank
<1> HIDE DEF y
<1>3. ConnInv(y, D)
  BY <1>1, <1>2, BlankKept, Zenon
<1> QED BY <1>3, Zenon DEF y, t

\* A connection loses the group and the lender g, if it had it.
Orphaned(x, y, g) ==
  /\ Shape(y) /\ y.open = x.open
  /\ \/ x.group # g /\ y.group = x.group /\ y.weak = x.weak /\ y.throt = x.throt
     \/ x.group = g /\ y.group = NULL /\ y.weak = x.weak \ {g} /\ y.throt = x.throt \ {NULL}
  /\ \/ x.ret # g /\ y.ret = x.ret /\ y.retweak = x.retweak
     \/ x.ret = g /\ y.ret = NULL /\ y.retweak = x.retweak \ {g}
  /\ y.connweak = x.connweak
  /\ SameHint(x, y) /\ SameTls(x, y) /\ SameRead(x, y) /\ SameAnswer(x, y)
  /\ SameRequest(x, y) /\ SameFlags(x, y)

\* The weak references tell.
LEMMA FinalizeStep ==
  ASSUME NEW x, NEW D, NEW g \in Mortal, Typed(x), Refs(x, D)
  PROVE  LET y == IF g \in x.weak THEN on_group_destroyed(x) ELSE x
             z == IF g \in x.retweak THEN [y EXCEPT !.ret = NULL, !.retweak = y.retweak \ {g}] ELSE y
         IN  Orphaned(x, z, g)
<1> DEFINE y == IF g \in x.weak THEN on_group_destroyed(x) ELSE x
           z == IF g \in x.retweak THEN [y EXCEPT !.ret = NULL, !.retweak = y.retweak \ {g}] ELSE y
<1>1. Shape(x) /\ g # NULL
  BY WebAssumption DEF Typed, Mortal
<1>2. (g \in x.weak <=> x.group = g) /\ (g \in x.retweak <=> x.ret = g)
  BY <1>1, Zenon DEF Refs
<1>3. /\ Shape(y) /\ y.open = x.open /\ SameLoan(x, y)
      /\ \/ x.group # g /\ y.group = x.group /\ y.weak = x.weak /\ y.throt = x.throt
         \/ x.group = g /\ y.group = NULL /\ y.weak = x.weak \ {g} /\ y.throt = x.throt \ {NULL}
      /\ SameHint(x, y) /\ SameTls(x, y) /\ SameRead(x, y) /\ SameAnswer(x, y)
      /\ SameRequest(x, y) /\ SameFlags(x, y)
  <2>1. CASE x.group # g
    <3>1. y = x
      BY <1>2, <2>1, Zenon
    <3> HIDE DEF y
    <3> QED BY <1>1, <2>1, <3>1, Zenon
            DEF SameLoan, SameHint, SameTls, SameRead, SameAnswer, SameRequest, SameFlags
  <2>2. CASE x.group = g
    <3> DEFINE w == x.weak \ {g}
               t == x.throt \ {NULL}
               u == [x EXCEPT !.group = NULL, !.weak = w]
    <3>1. y = [u EXCEPT !.throt = (u.throt \ {NULL}) \cup ({NULL} \ {NULL})]
      BY <1>2, <2>2, Zenon DEF on_group_destroyed, on_group_changed
    <3>2. u.throt = x.throt
      BY <1>1 DEF Shape, Fields
    <3>3. (u.throt \ {NULL}) \cup ({NULL} \ {NULL}) = t
      BY <3>2, Zenon
    <3>4. y = [u EXCEPT !.throt = t]
      BY <3>1, <3>3, Zenon
    <3> HIDE DEF w, t, y
    <3>5. y = [x EXCEPT !.group = NULL, !.weak = w, !.throt = t]
      BY ONLY <1>1, <3>4 DEF Shape, Fields
    <3>6. Shape(y)
      BY <1>1, <3>5, Zenon DEF Shape
    <3>7. y.open = x.open /\ y.group = NULL /\ y.weak = w /\ y.throt = t
      BY <1>1, <3>5 DEF Shape, Fields
    <3>8. SameLoan(x, y) /\ SameHint(x, y) /\ SameTls(x, y) /\ SameRead(x, y) /\ SameAnswer(x, y)
          /\ SameRequest(x, y) /\ SameFlags(x, y)
      BY <1>1, <3>5 DEF Shape, Fields, SameLoan, SameHint, SameTls, SameRead, SameAnswer,
                        SameRequest, SameFlags
    <3> QED BY <2>2, <3>6, <3>7, <3>8, Zenon DEF w, t
  <2> QED BY <2>1, <2>2, Zenon
<1> HIDE DEF y
<1>4. Orphaned(x, z, g)
  <2>1. CASE x.ret # g
    <3>1. z = y
      BY <1>2, <2>1, Zenon
    <3> HIDE DEF z
    <3> QED BY <1>3, <2>1, <3>1, Zenon DEF Orphaned, SameLoan
  <2>2. CASE x.ret = g
    <3> DEFINE w == x.retweak \ {g}
    <3>1. z = [y EXCEPT !.ret = NULL, !.retweak = w]
      BY <1>2, <1>3, <2>2, Zenon DEF SameLoan
    <3> HIDE DEF w, z
    <3>2. Shape(z)
      BY <1>3, <3>1, Zenon DEF Shape
    <3>3. Shape(y)
      BY <1>3, Zenon
    <3>4. z.ret = NULL /\ z.retweak = w /\ z.connweak = y.connweak
      BY <3>1, <3>3 DEF Shape, Fields
    <3>5. SameGroup(y, z) /\ SameHint(y, z) /\ SameTls(y, z) /\ SameRead(y, z) /\ SameAnswer(y, z)
          /\ SameRequest(y, z) /\ SameFlags(y, z)
      BY <3>1, <3>3 DEF Shape, Fields, SameGroup, SameHint, SameTls, SameRead, SameAnswer,
                        SameRequest, SameFlags
    <3>6. /\ z.open = x.open
          /\ \/ x.group # g /\ z.group = x.group /\ z.weak = x.weak /\ z.throt = x.throt
             \/ x.group = g /\ z.group = NULL /\ z.weak = x.weak \ {g} /\ z.throt = x.throt \ {NULL}
      BY <1>3, <3>5, Zenon DEF SameGroup
    <3>7. SameHint(x, z) /\ SameTls(x, z) /\ SameRead(x, z) /\ SameAnswer(x, z)
          /\ SameRequest(x, z) /\ SameFlags(x, z)
      BY <1>3, <3>5, Zenon DEF SameHint, SameTls, SameRead, SameAnswer, SameRequest, SameFlags
    <3>8. z.connweak = x.connweak
      BY <1>3, <3>4, Zenon DEF SameLoan
    <3> QED BY <2>2, <3>2, <3>4, <3>6, <3>7, <3>8, Zenon DEF Orphaned, w
  <2> QED BY <2>1, <2>2, Zenon
<1> QED BY <1>4, Zenon DEF y

\* What refers to g is gone.
LEMMA OrphanedRefs ==
  ASSUME NEW x, NEW z, NEW D, NEW g \in Mortal, D \subseteq Mortal, g \notin D, Refs(x, D),
         Orphaned(x, z, g)
  PROVE  Refs(z, D \cup {g})
<1> DEFINE E == D \cup {g}
<1>1. g # NULL /\ NULL \notin E
  <2>1. D \subseteq Group /\ g \in Group
    BY DEF Mortal, Group, Service
  <2> QED BY <2>1, NullAlive, Zenon
<1>2. /\ z.group \notin E /\ z.weak = {z.group} \ {NULL}
      /\ {z.group} \ {NULL} \subseteq z.throt /\ z.throt \subseteq {z.group} \cup E
  <2>1. CASE x.group # g
    <3>1. z.group = x.group /\ z.weak = x.weak /\ z.throt = x.throt
      BY <2>1, Zenon DEF Orphaned
    <3> QED BY <2>1, <3>1, Zenon DEF Refs
  <2>2. CASE x.group = g
    <3>1. z.group = NULL /\ z.weak = x.weak \ {g} /\ z.throt = x.throt \ {NULL}
      BY <2>2, Zenon DEF Orphaned
    <3> QED BY <1>1, <2>2, <3>1, Zenon DEF Refs
  <2> QED BY <2>1, <2>2, Zenon
<1>3. /\ z.ret # NULL => z.ret = "sel" /\ "sel" \notin E /\ z.connweak = 1
      /\ z.retweak = {z.ret} \ {NULL} /\ z.connweak \in {0, 1}
      /\ z.ret = NULL /\ z.connweak = 1 => "sel" \in E
  <2>1. CASE x.ret # g
    <3>1. z.ret = x.ret /\ z.retweak = x.retweak /\ z.connweak = x.connweak
      BY <2>1, Zenon DEF Orphaned
    <3> QED BY <2>1, <3>1, Zenon DEF Refs
  <2>2. CASE x.ret = g
    <3>1. z.ret = NULL /\ z.retweak = x.retweak \ {g} /\ z.connweak = x.connweak
      BY <2>2, Zenon DEF Orphaned
    <3> QED BY <1>1, <2>2, <3>1, Zenon DEF Refs
  <2> QED BY <2>1, <2>2, Zenon
<1> QED BY <1>2, <1>3, Zenon DEF Refs

\* What the connection had of g is gone, and g was not at work on it.
LEMMA OrphanedKept ==
  ASSUME NEW x, NEW z, NEW D, NEW g \in Mortal, D \subseteq Mortal, g \notin D, ConnInv(x, D),
         g # x.starter, \A rd \in x.reads : rd.by # g, Orphaned(x, z, g)
  PROVE  ConnInv(z, D \cup {g})
<1> DEFINE E == D \cup {g}
<1>1. /\ g # NULL /\ NULL \notin D /\ NULL \notin E /\ NULL \notin Autostart /\ NULL \notin WebLike
      /\ g # "web" /\ "web" # NULL
  <2>1. D \subseteq Group /\ g \in Group /\ g # "web"
    BY DEF Mortal, Group, Service
  <2>2. NULL \notin D /\ NULL \notin Group /\ NULL \notin Service
    BY <2>1, NullAlive, Zenon
  <2>3. Autostart \subseteq Service /\ WebLike \subseteq Service /\ "web" \in Service
    BY WebAssumption DEF Service, WebLike
  <2> QED BY <2>1, <2>2, <2>3, Zenon
<1>2. /\ Typed(x) /\ Refs(x, D) /\ Votes(x) /\ Lone(x) /\ Reading(x, D) /\ Serving(x, D)
      /\ Flagged(x) /\ Books(x) /\ Used(x) /\ x.route = NULL
  BY Zenon DEF ConnInv
<1>3. (z.group = x.group /\ x.group # g) \/ (z.group = NULL /\ x.group = g)
  BY Zenon DEF Orphaned
<1>4. /\ z.open = x.open /\ z.hint = x.hint /\ z.vrefs = x.vrefs /\ z.more = x.more
      /\ z.starter = x.starter
      /\ z.tls = x.tls /\ z.pending = x.pending /\ z.reads = x.reads /\ z.handler = x.handler
      /\ z.flushes = x.flushes /\ z.shut = x.shut /\ z.replies = x.replies
  BY Zenon DEF Orphaned, SameHint, SameTls, SameRead, SameAnswer
<1>5. /\ z.request = x.request /\ z.asked = x.asked /\ z.stuck = x.stuck /\ z.moved = x.moved
      /\ z.unserved = x.unserved /\ z.route = x.route /\ Shape(z)
  BY Zenon DEF Orphaned, SameRequest, SameFlags
<1>6. Typed(z)
  BY <1>2, <1>3, <1>4, <1>5, Zenon DEF Typed
<1>7. Refs(z, E)
  BY <1>2, OrphanedRefs, Zenon
<1>8. Votes(z) /\ Lone(z) /\ Books(z) /\ Flagged(z)
  BY <1>2, <1>4, <1>5, Zenon DEF Votes, Lone, Books, Flagged, Quiet
<1>9. Reading(z, E)
  <2>1. ASSUME NEW rd \in x.reads
        PROVE  rd.by \notin E /\ (x.open => z.group = rd.by)
    BY <1>2, <1>3, Zenon DEF Reading
  <2> QED BY <1>2, <1>4, <1>5, <2>1, Zenon DEF Reading
<1>10. Serving(z, E)
  <2>1. z.hint # NULL /\ z.hint \notin E /\ z.open => z.group = z.hint
    BY <1>2, <1>3, <1>4, Zenon DEF Serving
  <2>2. z.starter # NULL => z.starter \notin E /\ (z.open => z.group = z.starter)
    BY <1>2, <1>3, <1>4, Zenon DEF Serving
  <2>3. z.handler # NULL => /\ z.handler = "web" /\ z.request # NULL
                            /\ z.open => z.group = "web" /\ ("web" \in Autostart => z.tls)
                            /\ "web" \in DenyCross => ~z.request.cross
    BY <1>1, <1>2, <1>3, <1>4, <1>5, Zenon DEF Serving
  <2>4. z.flushes # 0 /\ z.open /\ z.group \in Autostart => z.tls
    BY <1>1, <1>2, <1>3, <1>4, Zenon DEF Serving
  <2> QED BY <2>1, <2>2, <2>3, <2>4, Zenon DEF Serving
<1>11. Used(z)
  <2>1. Quiet(z) <=> Quiet(x)
    BY <1>4, Zenon DEF Quiet
  <2>2. z.ret # NULL => x.ret # NULL
    BY Zenon DEF Orphaned
  <2> QED BY <1>1, <1>2, <1>3, <1>4, <1>5, <2>1, <2>2, Zenon DEF Used
<1> QED BY <1>2, <1>5, <1>6, <1>7, <1>8, <1>9, <1>10, <1>11, Zenon DEF ConnInv

-----------------------------------------------------------------------------
\* A connection that was torn from a service at work: several things may be
\* under way with it, and only its references are still in order.

\* A decision that is due has its reference.
Owed(x) == x.vrefs \in Nat /\ (x.hint # NULL => x.vrefs > 0)

\* Who reads from it or shakes hands is alive.
Manned(x, D) == x.starter \notin D /\ \A rd \in x.reads : rd.by \notin D

Torn(x, D) ==
  Typed(x) /\ Refs(x, D) /\ Owed(x) /\ Manned(x, D) /\ x.moved = TRUE /\ x.torn = TRUE

\* What service s makes of it: only the selector routes.
Tossed(x, y, s, D) ==
  Torn(y, D) /\ (y.route = x.route \/ (s = "sel" /\ y.route \in Requests \cup {NULL}))

\* The references stay if the group and the loan do.
LEMMA TornSame ==
  ASSUME NEW x, NEW y, NEW D, Torn(x, D), Typed(y), SameGroup(x, y), SameLoan(x, y), Owed(y),
         Manned(y, D), y.moved = x.moved, y.torn = x.torn
  PROVE  Torn(y, D)
  BY RefsSame, Zenon DEF Torn

\* Decisions and readers stay.
LEMMA ManSame ==
  ASSUME NEW x, NEW y, NEW D, Torn(x, D), SameHint(x, y), SameTls(x, y), SameRead(x, y)
  PROVE  Owed(y) /\ Manned(y, D)
  BY Zenon DEF Torn, Owed, Manned, SameHint, SameTls, SameRead

\* One more reader.
LEMMA ReadTorn ==
  ASSUME NEW x, NEW s, NEW D, Torn(x, D), s \in WebLike, s \notin D
  PROVE  Tossed(x, evd_http_connection_read_headers_async(x, s), s, D)
<1> DEFINE y == evd_http_connection_read_headers_async(x, s)
           Rd(ans) == x.reads \cup {[by |-> s, ans |-> ans, req |-> NULL]}
<1>0. Typed(x) /\ Shape(x)
  BY Zenon DEF Torn, Typed
<1>1. ASSUME NEW ans \in {"wait", "closed", "busy"}
      PROVE  Rd(ans) \in SUBSET Reader /\ \A rd \in Rd(ans) : rd.by \notin D
  <2> DEFINE new == [by |-> s, ans |-> ans, req |-> NULL]
  <2>1. new \in Reader /\ new.by = s
    BY DEF Reader
  <2> HIDE DEF new
  <2>2. x.reads \in SUBSET Reader /\ \A rd \in x.reads : rd.by \notin D
    BY <1>0, Zenon DEF Torn, Manned, Typed
  <2>3. x.reads \cup {new} \in SUBSET Reader /\ \A rd \in x.reads \cup {new} : rd.by \notin D
    BY <2>1, <2>2, Zenon
  <2> QED BY <2>3, Zenon DEF new
<1>2. ASSUME NEW p \in BOOLEAN, NEW k, NEW R, R \in SUBSET Reader, \A rd \in R : rd.by \notin D,
             y = [x EXCEPT !.pending = p, !.keep = k, !.reads = R]
      PROVE  Tossed(x, y, s, D)
  <2> HIDE DEF y
  <2>1. Shape(y)
    BY <1>0, <1>2, Zenon DEF Shape
  <2>2. y.pending = p /\ y.reads = R
    BY <1>0, <1>2 DEF Shape, Fields
  <2>3. SameGroup(x, y) /\ SameLoan(x, y) /\ SameHint(x, y) /\ SameTls(x, y) /\ SameAnswer(x, y)
        /\ SameRequest(x, y) /\ SameFlags(x, y)
    BY <1>0, <1>2 DEF Shape, Fields, SameGroup, SameLoan, SameHint, SameTls, SameAnswer,
                      SameRequest, SameFlags
  <2>4. Typed(y)
    BY <1>0, <1>2, <2>1, <2>2, <2>3, Zenon
       DEF Typed, SameGroup, SameHint, SameTls, SameAnswer, SameRequest, SameFlags
  <2>5. Owed(y) /\ Manned(y, D)
    BY <1>2, <2>2, <2>3, Zenon DEF Torn, Owed, Manned, SameHint, SameTls
  <2>6. Torn(y, D)
    BY <2>3, <2>4, <2>5, TornSame, Zenon DEF SameFlags
  <2> QED BY <2>3, <2>6, Zenon DEF Tossed, SameFlags
<1>3. CASE x.pending
  <2>1. y = [x EXCEPT !.reads = Rd("busy")]
    BY <1>3, Zenon DEF evd_http_connection_read_headers_async
  <2> DEFINE R == Rd("busy")
  <2>2. R \in SUBSET Reader /\ \A rd \in R : rd.by \notin D
    BY <1>1, Zenon
  <2> HIDE DEF R, Rd
  <2>3. y = [x EXCEPT !.pending = x.pending, !.keep = x.keep, !.reads = R]
    <3>1. y = [x EXCEPT !.reads = R]
      BY <2>1, Zenon DEF R
    <3> HIDE DEF y
    <3> QED BY ONLY <1>0, <3>1, Zenon DEF Shape, Fields
  <2>4. x.pending \in BOOLEAN
    BY <1>0, Zenon DEF Typed
  <2> HIDE DEF y
  <2>5. Tossed(x, y, s, D)
    BY <1>2, <2>2, <2>3, <2>4, Zenon
  <2> QED BY <2>5, Zenon DEF y
<1>4. CASE ~x.pending
  <2> DEFINE ans == IF x.open THEN "wait" ELSE "closed"
             R == Rd(ans)
  <2>1. y = [x EXCEPT !.pending = TRUE, !.keep = FALSE, !.reads = R]
    BY <1>4, Zenon DEF evd_http_connection_read_headers_async
  <2>2. ans \in {"wait", "closed", "busy"}
    OBVIOUS
  <2> HIDE DEF ans
  <2>3. R \in SUBSET Reader /\ \A rd \in R : rd.by \notin D
    BY <1>1, <2>2, Zenon
  <2>4. TRUE \in BOOLEAN
    OBVIOUS
  <2> HIDE DEF R, y
  <2>5. Tossed(x, y, s, D)
    BY <1>2, <2>1, <2>3, <2>4, Zenon
  <2> QED BY <2>5, Zenon DEF y
<1> QED BY <1>3, <1>4, Zenon

\* One more response, or the shutdown.
LEMMA RespondTorn ==
  ASSUME NEW x, NEW v, NEW D, Torn(x, D)
  PROVE  LET y == evd_web_service_respond_internal(x, v)
         IN  Torn(y, D) /\ y.route = x.route
<1> DEFINE y == evd_web_service_respond_internal(x, v)
<1>1. Typed(x)
  BY Zenon DEF Torn
<1>2. PICK sent \in BOOLEAN : Responded(x, y, sent)
  BY <1>1, RespondStep, Zenon
<1> HIDE DEF y
<1>3. y.flushes \in Nat /\ y.replies \in Int /\ y.shut \in BOOLEAN
  <2>1. /\ x.flushes \in Nat /\ x.replies \in Int /\ x.shut \in BOOLEAN
        /\ y.flushes = (IF sent THEN x.flushes + 1 ELSE x.flushes)
        /\ y.replies = (IF sent THEN x.replies + 1 ELSE x.replies)
        /\ y.shut = (IF sent THEN x.shut ELSE TRUE)
    BY <1>1, <1>2, Zenon DEF Typed, Responded
  <2>2. y.flushes \in Nat /\ y.replies \in Int
    BY <2>1
  <2> QED BY <2>1, <2>2, Zenon
<1>4. Shape(y) /\ SameGroup(x, y) /\ SameLoan(x, y) /\ SameHint(x, y) /\ SameTls(x, y)
      /\ SameRead(x, y) /\ SameRequest(x, y) /\ SameFlags(x, y) /\ y.handler = x.handler
  BY <1>2, Zenon DEF Responded
<1>5. Typed(y)
  BY <1>1, <1>3, <1>4, Zenon DEF Typed, SameGroup, SameHint, SameTls, SameRead, SameRequest, SameFlags
<1>6. Torn(y, D) /\ y.route = x.route
  BY <1>4, <1>5, TornSame, ManSame, Zenon DEF SameFlags
<1> QED BY <1>6, Zenon DEF y

\* Another group.
LEMMA JoinTorn ==
  ASSUME NEW x, NEW g \in Group \cup {NULL}, NEW D, Torn(x, D), g \notin D
  PROVE  LET y == evd_io_stream_set_group(x, g)
         IN  Torn(y, D) /\ y.route = x.route
<1> DEFINE y == evd_io_stream_set_group(x, g)
<1>1. Typed(x) /\ Refs(x, D)
  BY Zenon DEF Torn
<1>2. Joined(x, y, g)
  BY <1>1, JoinStep, Zenon
<1> HIDE DEF y
<1>3. Typed(y) /\ Refs(y, D)
  BY <1>1, <1>2, JoinedTyped, JoinedRefs, Zenon
<1>4. Owed(y) /\ Manned(y, D) /\ y.moved = x.moved /\ y.torn = x.torn /\ y.route = x.route
  BY <1>2, ManSame, Zenon DEF Joined, SameFlags
<1>5. Torn(y, D) /\ y.route = x.route
  BY <1>3, <1>4, Zenon DEF Torn
<1> QED BY <1>5, Zenon DEF y

\* The end of it.
LEMMA CloseTorn ==
  ASSUME NEW x, NEW D, D \subseteq Group, Torn(x, D)
  PROVE  LET y == evd_http_connection_close(x)
         IN  Torn(y, D) /\ y.route = x.route
<1> DEFINE y == evd_http_connection_close(x)
<1>1. Typed(x) /\ Refs(x, D) /\ NULL \notin D
  BY NullAlive, Zenon DEF Torn
<1>2. Closed(x, y)
  BY <1>1, CloseStep, Zenon
<1> HIDE DEF y
<1>3. ToldAll(x.reads, y.reads)
  BY <1>1, <1>2, ToldReads, Zenon DEF Typed, Closed
<1>4. Typed(y)
  BY <1>1, <1>2, <1>3, Zenon DEF Typed, ToldAll, Closed, SameHint, SameAnswer, SameRequest, SameFlags
<1>5. Refs(y, D)
  <2>1. y.group = NULL /\ y.weak = {} /\ y.throt \subseteq {NULL} \cup D
    BY <1>1, <1>2, Zenon DEF Refs, Closed
  <2> QED BY <1>1, <1>2, <2>1, Zenon DEF Refs, Closed, SameLoan
<1>6. Owed(y)
  BY <1>2, Zenon DEF Torn, Owed, Closed, SameHint
<1>7. Manned(y, D)
  <2>1. ASSUME NEW rd \in y.reads PROVE rd.by \notin D
    <3>1. PICK q \in x.reads : ToldOne(q, rd)
      BY <1>3, Zenon DEF ToldAll
    <3> QED BY <3>1, Zenon DEF ToldOne, Torn, Manned
  <2> QED BY <1>1, <1>2, <2>1, Zenon DEF Manned, Closed
<1>8. Torn(y, D) /\ y.route = x.route
  BY <1>2, <1>4, <1>5, <1>6, <1>7, Zenon DEF Torn, Closed, SameFlags
<1> QED BY <1>8, Zenon DEF y

\* g_io_stream_close, refused or not.
LEMMA IoCloseTorn ==
  ASSUME NEW x, NEW D, D \subseteq Group, Torn(x, D)
  PROVE  LET y == g_io_stream_close(x)
         IN  Torn(y, D) /\ y.route = x.route
<1>1. CASE ~x.open
  BY <1>1, Zenon DEF g_io_stream_close
<1>2. CASE x.open /\ x.pending
  <2> DEFINE y == [x EXCEPT !.stuck = TRUE]
  <2>1. g_io_stream_close(x) = y
    BY <1>2, Zenon DEF g_io_stream_close
  <2>2. Typed(x) /\ Shape(x) /\ Shape(y)
    BY Zenon DEF Torn, Typed, Shape
  <2>3. y.stuck = TRUE /\ y.moved = x.moved /\ y.torn = x.torn /\ y.unserved = x.unserved
        /\ y.route = x.route
    BY <2>2 DEF Shape, Fields
  <2>4. SameGroup(x, y) /\ SameLoan(x, y) /\ SameHint(x, y) /\ SameTls(x, y)
        /\ SameRead(x, y) /\ SameRequest(x, y) /\ SameAnswer(x, y)
    BY <2>2 DEF Shape, Fields, SameGroup, SameLoan, SameHint, SameTls, SameRead,
                SameRequest, SameAnswer
  <2> HIDE DEF y
  <2>5. Typed(y)
    BY <2>2, <2>3, <2>4, Zenon
       DEF Typed, SameGroup, SameTls, SameHint, SameRead, SameRequest, SameAnswer
  <2> QED BY <2>1, <2>3, <2>4, <2>5, TornSame, ManSame, Zenon
<1>3. CASE x.open /\ ~x.pending
  BY <1>3, CloseTorn, Zenon DEF g_io_stream_close
<1> QED BY <1>1, <1>2, <1>3, Zenon

\* One more handler, or the selector's.
LEMMA InvokeTorn ==
  ASSUME NEW x, NEW s, NEW D, NEW r \in Requests \cup {NULL}, NEW v, Torn(x, D), s \in WebLike
  PROVE  Tossed(x, evd_web_service_invoke_request_handler(x, s, r, v), s, D)
<1> DEFINE y == evd_web_service_invoke_request_handler(x, s, r, v)
<1>1. Typed(x) /\ Shape(x) /\ s \in Service
  BY Zenon DEF Torn, Typed, WebLike, Service
<1>2. ASSUME NEW route, NEW more, NEW h \in Service \cup {NULL},
             y = [x EXCEPT !.route = route, !.more = more, !.handler = h],
             route = x.route \/ (s = "sel" /\ route = r)
      PROVE  Tossed(x, y, s, D)
  <2> HIDE DEF y
  <2>1. Shape(y)
    BY <1>1, <1>2, Zenon DEF Shape
  <2>2. y.route = route /\ y.handler = h
    BY <1>1, <1>2 DEF Shape, Fields
  <2>3. /\ y.hint = x.hint /\ y.vrefs = x.vrefs /\ y.stuck = x.stuck /\ y.moved = x.moved
        /\ y.torn = x.torn /\ y.unserved = x.unserved
        /\ y.flushes = x.flushes /\ y.shut = x.shut /\ y.replies = x.replies
    BY <1>1, <1>2 DEF Shape, Fields
  <2>4. SameGroup(x, y) /\ SameLoan(x, y) /\ SameTls(x, y) /\ SameRead(x, y) /\ SameRequest(x, y)
    BY <1>1, <1>2 DEF Shape, Fields, SameGroup, SameLoan, SameTls, SameRead, SameRequest
  <2>5. Typed(y)
    BY <1>1, <2>1, <2>2, <2>3, <2>4, Zenon DEF Typed, SameGroup, SameTls, SameRead, SameRequest
  <2>6. Owed(y) /\ Manned(y, D)
    BY <2>3, <2>4, Zenon DEF Torn, Owed, Manned, SameTls, SameRead
  <2>7. Torn(y, D)
    BY <2>3, <2>4, <2>5, <2>6, TornSame, Zenon
  <2> QED BY <1>2, <2>2, <2>7, Zenon DEF Tossed
<1>3. x.handler \in Service \cup {NULL}
  BY <1>1, Zenon DEF Typed
<1>4. CASE s = "sel"
  <2>1. y = [x EXCEPT !.route = r]
    BY <1>4, Zenon DEF evd_web_service_invoke_request_handler
  <2>2. y = [x EXCEPT !.route = r, !.more = x.more, !.handler = x.handler]
    <3> HIDE DEF y
    <3> QED BY ONLY <1>1, <2>1, Zenon DEF Shape, Fields
  <2> HIDE DEF y
  <2>3. Tossed(x, y, s, D)
    BY <1>2, <1>3, <1>4, <2>2, Zenon
  <2> QED BY <2>3, Zenon DEF y
<1>5. CASE s # "sel" /\ x.handler # NULL
  <2> DEFINE n == x.more + 1
  <2>1. y = [x EXCEPT !.more = n]
    BY <1>5, Zenon DEF evd_web_service_invoke_request_handler
  <2> HIDE DEF n
  <2>2. y = [x EXCEPT !.route = x.route, !.more = n, !.handler = x.handler]
    <3> HIDE DEF y
    <3> QED BY ONLY <1>1, <2>1, Zenon DEF Shape, Fields
  <2> HIDE DEF y
  <2>3. Tossed(x, y, s, D)
    BY <1>2, <1>3, <2>2, Zenon
  <2> QED BY <2>3, Zenon DEF y
<1>6. CASE s # "sel" /\ x.handler = NULL
  <2>1. y = [x EXCEPT !.handler = s]
    BY <1>6, Zenon DEF evd_web_service_invoke_request_handler
  <2>2. y = [x EXCEPT !.route = x.route, !.more = x.more, !.handler = s]
    <3> HIDE DEF y
    <3> QED BY ONLY <1>1, <2>1, Zenon DEF Shape, Fields
  <2> HIDE DEF y
  <2>3. Tossed(x, y, s, D)
    BY <1>1, <1>2, <2>2, Zenon
  <2> QED BY <2>3, Zenon DEF y
<1> QED BY <1>4, <1>5, <1>6, Zenon

\* A request is answered, handled or routed.
LEMMA RequestTorn ==
  ASSUME NEW x, NEW s, NEW D, NEW r \in Requests \cup {NULL}, NEW v, Torn(x, D), s \in WebLike
  PROVE  Tossed(x, evd_web_service_validate_request(x, s, r, v), s, D)
<1>1. CASE r.cross /\ (~evd_web_service_origin_allowed(s) \/ r.preflight)
  <2>1. evd_web_service_validate_request(x, s, r, v) = evd_web_service_respond_internal(x, v)
    BY <1>1, Zenon DEF evd_web_service_validate_request
  <2> QED BY <2>1, RespondTorn, Zenon DEF Tossed
<1>2. CASE ~(r.cross /\ (~evd_web_service_origin_allowed(s) \/ r.preflight))
  <2>1. evd_web_service_validate_request(x, s, r, v)
          = evd_web_service_invoke_request_handler(x, s, r, v)
    BY <1>2, Zenon DEF evd_web_service_validate_request
  <2> QED BY <2>1, InvokeTorn, Zenon
<1> QED BY <1>1, <1>2, Zenon

\* The service goes on with the request the connection has, or reads one.
LEMMA AcceptedTorn ==
  ASSUME NEW x, NEW s, NEW D, NEW v, Torn(x, D), s \in WebLike, s \notin D
  PROVE  Tossed(x, evd_web_service_connection_accepted(x, s, v), s, D)
<1>1. x.request \in Requests \cup {NULL}
  BY Zenon DEF Torn, Typed
<1>2. CASE x.request # NULL
  BY <1>1, <1>2, RequestTorn, Zenon DEF evd_web_service_connection_accepted
<1>3. CASE x.request = NULL
  BY <1>3, ReadTorn, Zenon DEF evd_web_service_connection_accepted
<1> QED BY <1>2, <1>3, Zenon

\* After a handshake if there must be one.
LEMMA AcceptTorn ==
  ASSUME NEW x, NEW s, NEW D, NEW v, Torn(x, D), s \in Service, s \notin D
  PROVE  Tossed(x, accept_connection_priv(x, s, v), s, D)
<1>1. CASE s \in Autostart /\ ~x.tls
  <2> DEFINE y == [x EXCEPT !.tls = TRUE, !.starter = s]
  <2>1. accept_connection_priv(x, s, v) = y
    BY <1>1, Zenon DEF accept_connection_priv
  <2>2. Typed(x) /\ Shape(x) /\ Shape(y)
    BY Zenon DEF Torn, Typed, Shape
  <2>3. y.tls = TRUE /\ y.starter = s
    BY <2>2 DEF Shape, Fields
  <2>4. SameGroup(x, y) /\ SameLoan(x, y) /\ SameHint(x, y) /\ SameFlags(x, y)
        /\ SameRead(x, y) /\ SameRequest(x, y) /\ SameAnswer(x, y)
    BY <2>2 DEF Shape, Fields, SameGroup, SameLoan, SameHint, SameFlags, SameRead,
                SameRequest, SameAnswer
  <2> HIDE DEF y
  <2>5. Typed(y)
    BY <2>2, <2>3, <2>4, Zenon
       DEF Typed, SameGroup, SameHint, SameRead, SameRequest, SameAnswer, SameFlags
  <2>6. Owed(y) /\ Manned(y, D)
    BY <2>3, <2>4, Zenon DEF Torn, Owed, Manned, SameHint, SameRead
  <2>7. Torn(y, D)
    BY <2>4, <2>5, <2>6, TornSame, Zenon DEF SameFlags
  <2> QED BY <2>1, <2>4, <2>7, Zenon DEF Tossed, SameFlags
<1>2. CASE ~(s \in Autostart /\ ~x.tls) /\ s \in WebLike
  BY <1>2, AcceptedTorn, Zenon DEF accept_connection_priv
<1>3. CASE ~(s \in Autostart /\ ~x.tls) /\ s \notin WebLike
  BY <1>3, Zenon DEF accept_connection_priv, Tossed
<1> QED BY <1>1, <1>2, <1>3, Zenon

\* The hint and the reference of a decision change.
LEMMA HintTorn ==
  ASSUME NEW x, NEW y, NEW D, NEW h \in Service \cup {NULL}, NEW n \in Nat, Torn(x, D),
         h # NULL => n > 0, y = [x EXCEPT !.hint = h, !.vrefs = n]
  PROVE  Torn(y, D) /\ y.route = x.route
<1>1. Typed(x) /\ Shape(x) /\ Shape(y)
  BY Zenon DEF Torn, Typed, Shape
<1>2. y.hint = h /\ y.vrefs = n
  BY <1>1 DEF Shape, Fields
<1>3. SameGroup(x, y) /\ SameLoan(x, y) /\ SameTls(x, y) /\ SameFlags(x, y)
      /\ SameRead(x, y) /\ SameRequest(x, y) /\ SameAnswer(x, y)
  BY <1>1 DEF Shape, Fields, SameGroup, SameLoan, SameTls, SameFlags, SameRead,
              SameRequest, SameAnswer
<1>4. Typed(y)
  BY <1>1, <1>2, <1>3, Zenon
     DEF Typed, SameGroup, SameTls, SameRead, SameRequest, SameAnswer, SameFlags
<1>5. Owed(y) /\ Manned(y, D)
  BY <1>2, <1>3, Zenon DEF Torn, Owed, Manned, SameTls, SameRead
<1> QED BY <1>3, <1>4, <1>5, TornSame, Zenon DEF SameFlags

\* The application accepts, rejects or defers.
LEMMA ValidateTorn ==
  ASSUME NEW x, NEW s, NEW D, NEW v, D \subseteq Group, Torn(x, D), s \in Service, s \notin D
  PROVE  Tossed(x, evd_service_validate_connection(x, s, v), s, D)
<1>0. ACCEPT # REJECT
  BY DEF ACCEPT, REJECT
<1>1. CASE v.valid = ACCEPT
  BY <1>0, <1>1, AcceptTorn, Zenon DEF evd_service_validate_connection
<1>2. CASE v.valid = REJECT
  <2>1. evd_service_validate_connection(x, s, v) = g_io_stream_close(x)
    BY <1>0, <1>2, Zenon DEF evd_service_validate_connection
  <2> QED BY <2>1, IoCloseTorn, Zenon DEF Tossed
<1>3. CASE v.valid # ACCEPT /\ v.valid # REJECT
  <2> DEFINE n == x.vrefs + 1
             y == [x EXCEPT !.hint = s, !.vrefs = n]
  <2>1. evd_service_validate_connection(x, s, v) = y
    BY <1>3, Zenon DEF evd_service_validate_connection
  <2>2. n \in Nat /\ n > 0
    BY DEF Torn, Owed
  <2> HIDE DEF n
  <2>3. Torn(y, D) /\ y.route = x.route
    BY <2>2, HintTorn, Zenon
  <2> QED BY <2>1, <2>3, Zenon DEF Tossed
<1> QED BY <1>1, <1>2, <1>3, Zenon

\* Into the group, then.
LEMMA AddTorn ==
  ASSUME NEW x, NEW s, NEW D, NEW v, D \subseteq Group, Torn(x, D), s \in Service, s \notin D
  PROVE  Tossed(x, evd_service_add(x, s, v), s, D)
<1>1. CASE ~x.open \/ x.group = s
  BY <1>1, Zenon DEF evd_service_add, Tossed
<1>2. CASE ~(~x.open \/ x.group = s)
  <2> DEFINE y == evd_io_stream_set_group(x, s)
  <2>1. evd_service_add(x, s, v) = evd_service_validate_connection(y, s, v)
    BY <1>2, Zenon DEF evd_service_add
  <2>2. Torn(y, D) /\ y.route = x.route
    BY JoinTorn, Zenon DEF Group
  <2> HIDE DEF y
  <2>3. Tossed(y, evd_service_validate_connection(y, s, v), s, D)
    BY <2>2, ValidateTorn, Zenon
  <2> QED BY <2>1, <2>2, <2>3, Zenon DEF Tossed
<1> QED BY <1>1, <1>2, Zenon

\* The request and the loan change.
LEMMA LentTorn ==
  ASSUME NEW x, NEW y, NEW r, NEW ret, NEW retweak, NEW connweak, NEW D, Torn(x, D),
         Lends(x, y, r, ret, retweak, connweak), r \in Requests \cup {NULL},
         ret # NULL => ret = "sel" /\ "sel" \notin D /\ connweak = 1,
         retweak = {ret} \ {NULL}, connweak \in {0, 1}, ret = NULL /\ connweak = 1 => "sel" \in D
  PROVE  Torn(y, D) /\ y.route = x.route
<1>1. Typed(x) /\ Shape(x) /\ Refs(x, D)
  BY Zenon DEF Torn, Typed
<1>2. Lent(x, y, r, ret, retweak, connweak)
  BY <1>1, LendStep, Zenon
<1>3. Typed(y)
  BY <1>1, <1>2, Zenon
     DEF Typed, Lent, SameGroup, SameHint, SameTls, SameRead, SameAnswer, SameFlags
<1>4. Refs(y, D)
  BY <1>1, <1>2, Zenon DEF Refs, Lent, SameGroup
<1>5. Owed(y) /\ Manned(y, D)
  BY <1>2, ManSame, Zenon DEF Lent
<1> QED BY <1>2, <1>3, <1>4, <1>5, Zenon DEF Torn, Lent, SameFlags

\* The selector lends it, if it was not lent before.
LEMMA LendTorn ==
  ASSUME NEW x, NEW D, NEW v, NEW r \in Requests \cup {NULL}, D \subseteq Mortal, Torn(x, D),
         "sel" \notin D
  PROVE  Tossed(x, evd_web_service_add_connection_with_request(x, "web", r, "sel", v), "web", D)
<1> DEFINE z == [x EXCEPT !.request = r]
           y == IF x.ret # NULL THEN z
                ELSE [z EXCEPT !.ret = "sel", !.retweak = z.retweak \cup {"sel"},
                               !.connweak = z.connweak + 1]
<1>1. evd_web_service_add_connection_with_request(x, "web", r, "sel", v) = evd_service_add(y, "web", v)
  BY Zenon DEF evd_web_service_add_connection_with_request
<1>2. Shape(x) /\ Refs(x, D) /\ "sel" # NULL
  BY WebAssumption, Zenon DEF Torn, Typed
<1>3. z.retweak = x.retweak /\ z.connweak = x.connweak /\ z.ret = x.ret
  BY <1>2 DEF Shape, Fields
<1>4. PICK ret, retweak, connweak :
        /\ Lends(x, y, r, ret, retweak, connweak)
        /\ ret = "sel" /\ connweak = 1 /\ retweak = {ret} \ {NULL}
  <2>1. CASE x.ret # NULL
    <3>1. x.ret = "sel" /\ x.connweak = 1 /\ x.retweak = {x.ret} \ {NULL}
      BY <1>2, <2>1, Zenon DEF Refs
    <3>2. y = [x EXCEPT !.request = r, !.ret = x.ret, !.retweak = x.retweak, !.connweak = x.connweak]
      <4>1. y = z
        BY <2>1, Zenon
      <4> HIDE DEF y
      <4> QED BY <1>2, <4>1, Zenon DEF Shape, Fields
    <3> HIDE DEF y
    <3> QED BY <3>1, <3>2, Zenon DEF Lends
  <2>2. CASE x.ret = NULL
    <3> DEFINE w == x.retweak \cup {"sel"}
               n == x.connweak + 1
    <3>1. n = 1 /\ w = {"sel"} \ {NULL}
      <4>1. x.connweak \in {0, 1} /\ x.connweak # 1 /\ x.retweak = {}
        BY <1>2, <2>2, Zenon DEF Refs
      <4> QED BY <1>2, <4>1
    <3>2. y = [z EXCEPT !.ret = "sel", !.retweak = w, !.connweak = n]
      BY <1>3, <2>2, Zenon
    <3> HIDE DEF w, n, y
    <3>3. y = [x EXCEPT !.request = r, !.ret = "sel", !.retweak = w, !.connweak = n]
      BY <3>2, Zenon
    <3> QED BY <3>1, <3>3, Zenon DEF Lends
  <2> QED BY <2>1, <2>2, Zenon
<1> HIDE DEF y
<1>5. Torn(y, D) /\ y.route = x.route
  BY <1>2, <1>4, LentTorn, Zenon
<1>6. "web" \in Service /\ "web" \notin D /\ D \subseteq Group
  BY DEF Service, Mortal, Group
<1>7. Tossed(y, evd_service_add(y, "web", v), "web", D)
  BY <1>5, <1>6, AddTorn, Zenon
<1> QED BY <1>1, <1>5, <1>7, Zenon DEF Tossed, y

\* The route is no part of what Torn says, nor are these marks.
Marks(x, y, route, unserved, refused) ==
  /\ unserved \in BOOLEAN
  /\ y = [x EXCEPT !.route = route, !.unserved = unserved, !.refused = refused]

LEMMA MarkTorn ==
  ASSUME NEW x, NEW y, NEW D, NEW route, NEW b, NEW refused, Torn(x, D),
         Marks(x, y, route, b, refused)
  PROVE  Torn(y, D) /\ y.route = route
<1>1. Typed(x) /\ Shape(x) /\ Shape(y)
  BY Zenon DEF Torn, Typed, Shape, Marks
<1>2. y.route = route /\ y.unserved = b /\ y.stuck = x.stuck /\ y.moved = x.moved /\ y.torn = x.torn
  BY <1>1 DEF Shape, Fields, Marks
<1>3. SameGroup(x, y) /\ SameLoan(x, y) /\ SameHint(x, y) /\ SameTls(x, y)
      /\ SameRead(x, y) /\ SameRequest(x, y) /\ SameAnswer(x, y)
  BY <1>1 DEF Shape, Fields, Marks, SameGroup, SameLoan, SameHint, SameTls, SameRead, SameRequest,
              SameAnswer
<1>4. Typed(y)
  BY <1>1, <1>2, <1>3, Zenon
     DEF Typed, Marks, SameGroup, SameHint, SameTls, SameRead, SameRequest, SameAnswer
<1>5. Owed(y) /\ Manned(y, D)
  BY <1>3, ManSame, Zenon
<1> QED BY <1>2, <1>3, <1>4, <1>5, TornSame, Zenon

\* The selector's handler deals with the request that waits for it.
LEMMA RoutedTorn ==
  ASSUME NEW y, NEW D, NEW v, D \subseteq Mortal, Torn(y, D),
         y.route = NULL \/ ("sel" \notin D /\ y.route \in Requests \cup {NULL})
  PROVE  Torn(Routed(y, v), D) /\ Routed(y, v).route = NULL
<1>1. CASE y.route = NULL
  BY <1>1, Zenon DEF Routed
<1>2. CASE y.route # NULL
  <2> DEFINE x == [y EXCEPT !.route = NULL]
             r == y.route
  <2>1. Routed(y, v) = evd_web_selector_request_handler(x, r, v)
    BY <1>2, Zenon DEF Routed
  <2>2. Shape(y) /\ y.unserved \in BOOLEAN
    BY Zenon DEF Torn, Typed
  <2>3. Marks(y, x, NULL, y.unserved, y.refused)
    BY ONLY <2>2, Zenon DEF Shape, Fields, Marks
  <2> HIDE DEF x, r
  <2>4. Torn(x, D) /\ x.route = NULL
    BY <2>2, <2>3, MarkTorn, Zenon
  <2>5. r \in Requests \cup {NULL} /\ "sel" \notin D
    BY <1>2, Zenon DEF r
  <2>6. "web" # "sel" /\ "svc" # "sel" /\ "svc" \in Service /\ "svc" \notin D /\ D \subseteq Group
    BY DEF Service, Mortal, Group
  <2>7. CASE r.target = "web"
    <3>1. Routed(y, v) = evd_web_service_add_connection_with_request(x, "web", r, "sel", v)
      BY <2>1, <2>7, Zenon DEF evd_web_selector_request_handler
    <3>2. Tossed(x, Routed(y, v), "web", D)
      BY <2>4, <2>5, <3>1, LendTorn, Zenon
    <3> QED BY <2>4, <2>6, <3>2, Zenon DEF Tossed
  <2>8. CASE r.target = "svc"
    <3>1. Routed(y, v) = IF v.fits THEN evd_service_add(x, "svc", v) ELSE [x EXCEPT !.unserved = TRUE]
      BY <2>1, <2>8, Zenon DEF evd_web_selector_request_handler
    <3>2. Tossed(x, evd_service_add(x, "svc", v), "svc", D)
      BY <2>4, <2>6, AddTorn, Zenon
    <3>3. Torn([x EXCEPT !.unserved = TRUE], D) /\ [x EXCEPT !.unserved = TRUE].route = NULL
      <4>1. Shape(x) /\ TRUE \in BOOLEAN
        BY <2>4, Zenon DEF Torn, Typed
      <4>2. Marks(x, [x EXCEPT !.unserved = TRUE], NULL, TRUE, x.refused)
        BY ONLY <2>4, <4>1, Zenon DEF Shape, Fields, Marks
      <4> QED BY <2>4, <4>1, <4>2, MarkTorn, Zenon
    <3> QED BY <2>4, <2>6, <3>1, <3>2, <3>3, Zenon DEF Tossed
  <2>9. CASE r.target # "web" /\ r.target # "svc"
    <3> DEFINE z == evd_web_service_respond_internal(x, v)
    <3>1. Routed(y, v) = [z EXCEPT !.refused = TRUE]
      BY <2>1, <2>9, Zenon DEF evd_web_selector_request_handler
    <3>2. Torn(z, D) /\ z.route = NULL
      BY <2>4, RespondTorn, Zenon
    <3> HIDE DEF z
    <3>3. Shape(z) /\ z.unserved \in BOOLEAN
      BY <3>2, Zenon DEF Torn, Typed
    <3>4. Marks(z, [z EXCEPT !.refused = TRUE], NULL, z.unserved, TRUE)
      BY ONLY <3>2, <3>3, Zenon DEF Shape, Fields, Marks
    <3>5. Torn([z EXCEPT !.refused = TRUE], D) /\ [z EXCEPT !.refused = TRUE].route = NULL
      BY <3>2, <3>3, <3>4, MarkTorn, Zenon
    <3> QED BY <3>1, <3>5, Zenon
  <2> QED BY <2>7, <2>8, <2>9, Zenon
<1> QED BY <1>1, <1>2, Zenon

\* A torn connection between two steps.
Astray(x, D) == Torn(x, D) /\ x.route = NULL

\* What service s, that is alive, makes of the connection is routed.
LEMMA TossedRouted ==
  ASSUME NEW x, NEW y, NEW s, NEW D, NEW v, D \subseteq Mortal, Tossed(x, y, s, D), x.route = NULL,
         s \notin D
  PROVE  Astray(Routed(y, v), D)
<1>1. Torn(y, D) /\ (y.route = NULL \/ ("sel" \notin D /\ y.route \in Requests \cup {NULL}))
  BY Zenon DEF Tossed
<1> QED BY <1>1, RoutedTorn, Zenon DEF Astray

\* After a response it is shut down, goes back or is read again.
LEMMA ReturnTorn ==
  ASSUME NEW x, NEW s, NEW D, NEW v, D \subseteq Mortal, Torn(x, D), s \in WebLike, s \notin D
  PROVE  \E t : t \notin D /\ Tossed(x, evd_web_service_return_connection(x, s, v), t, D)
<1> DEFINE y == [x EXCEPT !.request = NULL]
           z == [y EXCEPT !.ret = NULL, !.retweak = y.retweak \ {x.ret}, !.connweak = y.connweak - 1]
<1>1. Shape(x) /\ Refs(x, D) /\ s \in Service /\ D \subseteq Group
  <2>1. s \in Service
    BY Zenon DEF WebLike, Service
  <2>2. D \subseteq Group
    BY DEF Mortal, Group, Service
  <2> QED BY <2>1, <2>2, Zenon DEF Torn, Typed
<1>2. Torn(y, D) /\ y.route = x.route
  <2>1. y = [x EXCEPT !.request = NULL, !.ret = x.ret, !.retweak = x.retweak, !.connweak = x.connweak]
    BY ONLY <1>1, Zenon DEF Shape, Fields
  <2> HIDE DEF y
  <2>2. Lends(x, y, NULL, x.ret, x.retweak, x.connweak)
    BY <2>1, Zenon DEF Lends
  <2> QED BY <1>1, <2>2, LentTorn, Zenon DEF Refs
<1>3. CASE ~x.open
  BY <1>3, Zenon DEF evd_web_service_return_connection, Tossed
<1>4. CASE x.open /\ ~x.keep
  <2> DEFINE w == [y EXCEPT !.shut = TRUE]
  <2>1. evd_web_service_return_connection(x, s, v) = w
    BY <1>4, Zenon DEF evd_web_service_return_connection
  <2> HIDE DEF y
  <2>2. Typed(y) /\ Shape(y) /\ Shape(w)
    BY <1>2, Zenon DEF Torn, Typed, Shape
  <2>3. w.shut = TRUE /\ w.handler = y.handler /\ w.flushes = y.flushes /\ w.replies = y.replies
    BY <2>2 DEF Shape, Fields
  <2>4. SameGroup(y, w) /\ SameLoan(y, w) /\ SameHint(y, w) /\ SameTls(y, w)
        /\ SameRead(y, w) /\ SameRequest(y, w) /\ SameFlags(y, w)
    BY <2>2 DEF Shape, Fields, SameGroup, SameLoan, SameHint, SameTls, SameRead,
                SameRequest, SameFlags
  <2> HIDE DEF w
  <2>5. Typed(w)
    BY <2>2, <2>3, <2>4, Zenon
       DEF Typed, SameGroup, SameTls, SameHint, SameRead, SameRequest, SameFlags
  <2>6. Torn(w, D) /\ w.route = x.route
    BY <1>2, <2>4, <2>5, TornSame, ManSame, Zenon DEF SameFlags
  <2> QED BY <2>1, <2>6, Zenon DEF Tossed
<1>5. CASE x.open /\ x.keep /\ x.ret # NULL
  <2> DEFINE w == x.retweak \ {x.ret}
             n == x.connweak - 1
  <2>1. evd_web_service_return_connection(x, s, v) = evd_service_add(z, x.ret, v)
    BY <1>5, Zenon DEF evd_web_service_return_connection
  <2>2. x.ret = "sel" /\ "sel" \notin D /\ n = 0 /\ w = {NULL} \ {NULL}
    <3>1. x.ret = "sel" /\ "sel" \notin D /\ x.connweak = 1 /\ w = {NULL} \ {NULL}
      BY <1>1, <1>5, Zenon DEF Refs
    <3> QED BY <3>1
  <2>3. y.retweak = x.retweak /\ y.connweak = x.connweak
    BY <1>1 DEF Shape, Fields
  <2>4. z = [y EXCEPT !.ret = NULL, !.retweak = w, !.connweak = n]
    BY <2>3, Zenon
  <2> HIDE DEF z, w, n
  <2>5. Lends(x, z, NULL, NULL, w, n)
    BY <2>4, Zenon DEF Lends
  <2>6. 0 # 1 /\ "sel" \in Service
    BY DEF Service
  <2>7. Torn(z, D) /\ z.route = x.route
    BY <2>2, <2>5, <2>6, LentTorn, Zenon
  <2>8. Tossed(z, evd_service_add(z, x.ret, v), x.ret, D)
    BY <1>1, <2>2, <2>6, <2>7, AddTorn, Zenon
  <2> QED BY <2>1, <2>2, <2>7, <2>8, Zenon DEF Tossed
<1>6. CASE x.open /\ x.keep /\ x.ret = NULL
  <2>1. evd_web_service_return_connection(x, s, v) = evd_web_service_connection_accepted(y, s, v)
    BY <1>6, Zenon DEF evd_web_service_return_connection
  <2> HIDE DEF y
  <2>2. Tossed(y, evd_web_service_connection_accepted(y, s, v), s, D)
    BY <1>2, AcceptedTorn, Zenon
  <2> QED BY <1>2, <2>1, <2>2, Zenon DEF Tossed, y
<1> QED BY <1>3, <1>4, <1>5, <1>6, Zenon

\* Readers and what they have read change.
Reread(x, y, p, r, k, n, R, D) ==
  /\ p \in BOOLEAN /\ r \in Requests \cup {NULL} /\ n \in Int
  /\ R \in SUBSET Reader /\ \A rd \in R : rd.by \notin D
  /\ y = [x EXCEPT !.pending = p, !.request = r, !.keep = k, !.asked = n, !.reads = R]

LEMMA RereadTorn ==
  ASSUME NEW x, NEW y, NEW p, NEW r, NEW k, NEW n, NEW R, NEW D, Torn(x, D), Reread(x, y, p, r, k, n, R, D)
  PROVE  Torn(y, D) /\ y.route = x.route
<1>1. Typed(x) /\ Shape(x) /\ Shape(y)
  BY Zenon DEF Torn, Typed, Shape, Reread
<1>2. y.pending = p /\ y.request = r /\ y.asked = n /\ y.reads = R
  BY <1>1 DEF Shape, Fields, Reread
<1>3. SameGroup(x, y) /\ SameLoan(x, y) /\ SameHint(x, y) /\ SameTls(x, y) /\ SameAnswer(x, y)
      /\ SameFlags(x, y)
  BY <1>1 DEF Shape, Fields, Reread, SameGroup, SameLoan, SameHint, SameTls, SameAnswer, SameFlags
<1>4. Typed(y)
  BY <1>1, <1>2, <1>3, Zenon DEF Typed, Reread, SameGroup, SameHint, SameTls, SameAnswer, SameFlags
<1>5. Owed(y) /\ Manned(y, D)
  BY <1>2, <1>3, Zenon DEF Torn, Owed, Manned, Reread, SameHint, SameTls
<1> QED BY <1>3, <1>4, <1>5, TornSame, Zenon DEF SameFlags

\* Answers and handshakes end.
Ending(x, y, s, h, m, n, D) ==
  /\ s \in Service \cup {NULL} /\ s \notin D /\ h \in Service \cup {NULL} /\ n \in Nat
  /\ y = [x EXCEPT !.starter = s, !.handler = h, !.more = m, !.flushes = n]

LEMMA EndingTorn ==
  ASSUME NEW x, NEW y, NEW s, NEW h, NEW m, NEW n, NEW D, Torn(x, D), Ending(x, y, s, h, m, n, D)
  PROVE  Torn(y, D) /\ y.route = x.route
<1>1. Typed(x) /\ Shape(x) /\ Shape(y)
  BY Zenon DEF Torn, Typed, Shape, Ending
<1>2. y.starter = s /\ y.handler = h /\ y.flushes = n /\ y.tls = x.tls /\ y.hint = x.hint
      /\ y.vrefs = x.vrefs /\ y.shut = x.shut /\ y.replies = x.replies
  BY <1>1 DEF Shape, Fields, Ending
<1>3. SameGroup(x, y) /\ SameLoan(x, y) /\ SameRead(x, y) /\ SameRequest(x, y) /\ SameFlags(x, y)
  BY <1>1 DEF Shape, Fields, Ending, SameGroup, SameLoan, SameRead, SameRequest, SameFlags
<1>4. Typed(y)
  BY <1>1, <1>2, <1>3, Zenon DEF Typed, Ending, SameGroup, SameRead, SameRequest, SameFlags
<1>5. Owed(y) /\ Manned(y, D)
  BY <1>2, <1>3, Zenon DEF Torn, Owed, Manned, Ending, SameRead
<1> QED BY <1>3, <1>4, <1>5, TornSame, Zenon DEF SameFlags

\* A reader is told.
LEMMA HeadersTorn ==
  ASSUME NEW x, NEW D, NEW rd \in x.reads, NEW r \in Requests, Astray(x, D)
  PROVE  Astray([x EXCEPT !.pending = FALSE, !.request = r, !.keep = r.keep, !.asked = x.asked + 1,
                          !.reads = (x.reads \ {rd}) \cup {[rd EXCEPT !.ans = "ok", !.req = r]}], D)
<1> DEFINE r2 == [rd EXCEPT !.ans = "ok", !.req = r]
           n == x.asked + 1
           k == r.keep
           R == (x.reads \ {rd}) \cup {r2}
           y == [x EXCEPT !.pending = FALSE, !.request = r, !.keep = k, !.asked = n, !.reads = R]
<1>1. Torn(x, D) /\ x.route = NULL /\ rd \in Reader /\ rd.by \notin D
  BY Zenon DEF Astray, Torn, Typed, Manned
<1>2. r2 \in Reader /\ r2.by = rd.by
  BY <1>1, Zenon DEF Reader
<1>3. n \in Int
  <2>1. x.asked \in Int
    BY <1>1, Zenon DEF Torn, Typed
  <2> QED BY <2>1
<1> HIDE DEF r2, n, k
<1>4. R \in SUBSET Reader /\ \A q \in R : q.by \notin D
  BY <1>1, <1>2, Zenon DEF Torn, Typed, Manned
<1> HIDE DEF R
<1>5. FALSE \in BOOLEAN /\ r \in Requests \cup {NULL}
  BY Zenon
<1>6. Reread(x, y, FALSE, r, k, n, R, D)
  BY <1>3, <1>4, <1>5, Zenon DEF Reread
<1> HIDE DEF y
<1>7. Astray(y, D)
  BY <1>1, <1>6, RereadTorn, Zenon DEF Astray
<1> QED BY <1>7, Zenon DEF r2, n, k, R, y

\* The request cannot be read.
LEMMA HeadersFailTorn ==
  ASSUME NEW x, NEW D, NEW rd \in x.reads, NEW long \in BOOLEAN, Astray(x, D)
  PROVE  Astray([x EXCEPT !.pending = long,
                          !.reads = (x.reads \ {rd}) \cup {[rd EXCEPT !.ans = "bad"]}], D)
<1> DEFINE r2 == [rd EXCEPT !.ans = "bad"]
           R == (x.reads \ {rd}) \cup {r2}
           y == [x EXCEPT !.pending = long, !.reads = R]
<1>1. Torn(x, D) /\ x.route = NULL /\ rd \in Reader /\ rd.by \notin D
      /\ Shape(x) /\ x.request \in Requests \cup {NULL} /\ x.asked \in Int
  BY Zenon DEF Astray, Torn, Typed, Manned
<1>2. r2 \in Reader /\ r2.by = rd.by
  BY <1>1 DEF Reader
<1> HIDE DEF r2
<1>3. R \in SUBSET Reader /\ \A q \in R : q.by \notin D
  BY <1>1, <1>2, Zenon DEF Torn, Typed, Manned
<1> HIDE DEF R
<1>4. y = [x EXCEPT !.pending = long, !.request = x.request, !.keep = x.keep, !.asked = x.asked,
                    !.reads = R]
  BY ONLY <1>1, Zenon DEF Shape, Fields
<1> HIDE DEF y
<1>5. Reread(x, y, long, x.request, x.keep, x.asked, R, D)
  BY <1>1, <1>3, <1>4, Zenon DEF Reread
<1>6. Astray(y, D)
  BY <1>1, <1>5, RereadTorn, Zenon DEF Astray
<1> QED BY <1>6, Zenon DEF r2, R, y

\* The reader goes on with the request, or gives the connection up.
LEMMA HeadersReadTorn ==
  ASSUME NEW x, NEW D, NEW v, NEW rd \in x.reads, D \subseteq Mortal, Astray(x, D)
  PROVE  LET y == [x EXCEPT !.reads = x.reads \ {rd}]
         IN  Astray(CASE rd.ans = "ok" ->
                           Routed(evd_web_service_validate_request(y, rd.by, rd.req, v), v)
                      [] rd.ans = "closed" -> y
                      [] OTHER -> g_io_stream_close(y), D)
<1> DEFINE R == x.reads \ {rd}
           y == [x EXCEPT !.reads = R]
<1>1. Torn(x, D) /\ x.route = NULL /\ rd \in Reader /\ rd.by \notin D /\ Shape(x)
      /\ x.pending \in BOOLEAN /\ x.request \in Requests \cup {NULL} /\ x.asked \in Int
  BY Zenon DEF Astray, Torn, Typed, Manned
<1>2. R \in SUBSET Reader /\ \A q \in R : q.by \notin D
  BY <1>1, Zenon DEF Torn, Typed, Manned
<1>3. y = [x EXCEPT !.pending = x.pending, !.request = x.request, !.keep = x.keep, !.asked = x.asked,
                    !.reads = R]
  BY ONLY <1>1, Zenon DEF Shape, Fields
<1> HIDE DEF R, y
<1>4. Reread(x, y, x.pending, x.request, x.keep, x.asked, R, D)
  BY <1>1, <1>2, <1>3, Zenon DEF Reread
<1>5. Torn(y, D) /\ y.route = NULL
  BY <1>1, <1>4, RereadTorn, Zenon
<1>6. rd.by \in WebLike /\ rd.req \in Requests \cup {NULL}
  BY <1>1 DEF Reader
<1>7. Tossed(y, evd_web_service_validate_request(y, rd.by, rd.req, v), rd.by, D)
  BY <1>5, <1>6, RequestTorn, Zenon
<1>8. Astray(Routed(evd_web_service_validate_request(y, rd.by, rd.req, v), v), D)
  BY <1>1, <1>5, <1>7, TossedRouted, Zenon
<1>9. D \subseteq Group
  BY DEF Mortal, Group, Service
<1>10. Astray(y, D) /\ Astray(g_io_stream_close(y), D)
  BY <1>5, <1>9, IoCloseTorn, Zenon DEF Astray
<1> QED BY <1>8, <1>10, Zenon DEF R, y

\* A response is out.
LEMMA FlushTorn ==
  ASSUME NEW x, NEW D, NEW v, D \subseteq Mortal, Astray(x, D), x.flushes > 0
  PROVE  LET y == [x EXCEPT !.flushes = x.flushes - 1]
         IN  Astray(IF x.group \in WebLike
                    THEN Routed(evd_web_service_return_connection(y, x.group, v), v) ELSE y, D)
<1> DEFINE n == x.flushes - 1
           y == [x EXCEPT !.flushes = n]
<1>1. Torn(x, D) /\ x.route = NULL /\ Shape(x) /\ x.flushes \in Nat /\ x.group \notin D
      /\ x.starter \in Service \cup {NULL} /\ x.starter \notin D /\ x.handler \in Service \cup {NULL}
  BY Zenon DEF Astray, Torn, Typed, Manned, Refs
<1>2. n \in Nat
  BY <1>1
<1> HIDE DEF n
<1>3. y = [x EXCEPT !.starter = x.starter, !.handler = x.handler, !.more = x.more, !.flushes = n]
  BY ONLY <1>1, Zenon DEF Shape, Fields
<1> HIDE DEF y
<1>4. Ending(x, y, x.starter, x.handler, x.more, n, D)
  BY <1>1, <1>2, <1>3, Zenon DEF Ending
<1>5. Torn(y, D) /\ y.route = NULL
  BY <1>1, <1>4, EndingTorn, Zenon
<1>6. ASSUME x.group \in WebLike
      PROVE  Astray(Routed(evd_web_service_return_connection(y, x.group, v), v), D)
  <2>1. PICK t : t \notin D /\ Tossed(y, evd_web_service_return_connection(y, x.group, v), t, D)
    BY <1>1, <1>5, <1>6, ReturnTorn, Zenon
  <2> QED BY <1>5, <2>1, TossedRouted, Zenon
<1> QED BY <1>5, <1>6, Zenon DEF Astray, y, n

\* The application answers one of its requests.
LEMMA AnswerTorn ==
  ASSUME NEW x, NEW D, NEW v, D \subseteq Mortal, Astray(x, D)
  PROVE  Astray(evd_web_service_respond_internal(
                  IF x.more > 0 THEN [x EXCEPT !.more = x.more - 1] ELSE [x EXCEPT !.handler = NULL], v), D)
<1> DEFINE m == x.more - 1
           y == IF x.more > 0 THEN [x EXCEPT !.more = m] ELSE [x EXCEPT !.handler = NULL]
<1> HIDE DEF m
<1>1. Torn(x, D) /\ x.route = NULL /\ Shape(x) /\ x.flushes \in Nat
      /\ x.starter \in Service \cup {NULL} /\ x.starter \notin D /\ x.handler \in Service \cup {NULL}
  BY Zenon DEF Astray, Torn, Typed, Manned
<1>2. Torn(y, D) /\ y.route = NULL
  <2>1. CASE x.more > 0
    <3>1. y = [x EXCEPT !.more = m]
      BY <2>1, Zenon
    <3> HIDE DEF y
    <3>2. y = [x EXCEPT !.starter = x.starter, !.handler = x.handler, !.more = m, !.flushes = x.flushes]
      BY ONLY <1>1, <3>1, Zenon DEF Shape, Fields
    <3>3. Ending(x, y, x.starter, x.handler, m, x.flushes, D)
      BY <1>1, <3>2, Zenon DEF Ending
    <3> QED BY <1>1, <3>3, EndingTorn, Zenon
  <2>2. CASE ~(x.more > 0)
    <3>1. y = [x EXCEPT !.handler = NULL]
      BY <2>2, Zenon
    <3> HIDE DEF y
    <3>2. y = [x EXCEPT !.starter = x.starter, !.handler = NULL, !.more = x.more, !.flushes = x.flushes]
      BY ONLY <1>1, <3>1, Zenon DEF Shape, Fields
    <3>3. Ending(x, y, x.starter, NULL, x.more, x.flushes, D)
      BY <1>1, <3>2, Zenon DEF Ending
    <3> QED BY <1>1, <3>3, EndingTorn, Zenon
  <2> QED BY <2>1, <2>2, Zenon
<1> HIDE DEF y
<1>3. Astray(evd_web_service_respond_internal(y, v), D)
  BY <1>2, RespondTorn, Zenon DEF Astray
<1> QED BY <1>3, Zenon DEF m, y

\* It decides on the connection.
LEMMA DecideTorn ==
  ASSUME NEW x, NEW D, NEW v, D \subseteq Mortal, Astray(x, D), x.hint \in Service \ D
  PROVE  LET y == [x EXCEPT !.hint = NULL, !.vrefs = x.vrefs - 1]
         IN  /\ Astray(Routed(accept_connection_priv(y, x.hint, v), v), D)
             /\ Astray(g_io_stream_close(y), D)
<1> DEFINE n == x.vrefs - 1
           y == [x EXCEPT !.hint = NULL, !.vrefs = n]
<1>1. Torn(x, D) /\ x.route = NULL /\ x.vrefs \in Nat /\ (x.hint # NULL => x.vrefs > 0)
  BY Zenon DEF Astray, Torn, Owed
<1>2. D \subseteq Group
  BY DEF Mortal, Group, Service
<1>3. x.hint # NULL
  BY <1>2, NullAlive, Zenon
<1>4. n \in Nat
  BY <1>1, <1>3
<1>5. NULL \in Service \cup {NULL} /\ (NULL # NULL => n > 0) /\ y = [x EXCEPT !.hint = NULL, !.vrefs = n]
  BY Zenon
<1> HIDE DEF n, y
<1>6. Torn(y, D) /\ y.route = NULL
  BY <1>1, <1>4, <1>5, HintTorn, ZenonT(30)
<1>7. Tossed(y, accept_connection_priv(y, x.hint, v), x.hint, D)
  BY <1>6, AcceptTorn, Zenon
<1>8. Astray(Routed(accept_connection_priv(y, x.hint, v), v), D)
  BY <1>6, <1>7, TossedRouted, Zenon
<1>9. Astray(g_io_stream_close(y), D)
  BY <1>2, <1>6, IoCloseTorn, Zenon DEF Astray
<1> QED BY <1>8, <1>9, Zenon DEF n, y

\* A handshake ends.
LEMMA TlsTorn ==
  ASSUME NEW x, NEW D, NEW v, NEW ok \in BOOLEAN, D \subseteq Mortal, Astray(x, D), x.starter # NULL
  PROVE  LET y == [x EXCEPT !.starter = NULL]
         IN  Astray(IF ok THEN Routed(evd_service_validate_connection(y, x.starter, v), v)
                    ELSE g_io_stream_close(y), D)
<1> DEFINE y == [x EXCEPT !.starter = NULL]
<1>1. Torn(x, D) /\ x.route = NULL /\ Shape(x) /\ x.flushes \in Nat
      /\ x.starter \in Service /\ x.starter \notin D /\ x.handler \in Service \cup {NULL}
  BY Zenon DEF Astray, Torn, Typed, Manned
<1>2. D \subseteq Group
  BY DEF Mortal, Group, Service
<1>3. y = [x EXCEPT !.starter = NULL, !.handler = x.handler, !.more = x.more, !.flushes = x.flushes]
  BY ONLY <1>1, Zenon DEF Shape, Fields
<1> HIDE DEF y
<1>4. NULL \notin D
  BY <1>2, NullAlive, Zenon
<1>5. Ending(x, y, NULL, x.handler, x.more, x.flushes, D)
  BY <1>1, <1>3, <1>4, Zenon DEF Ending
<1>6. Torn(y, D) /\ y.route = NULL
  BY <1>1, <1>5, EndingTorn, Zenon
<1>7. Tossed(y, evd_service_validate_connection(y, x.starter, v), x.starter, D)
  BY <1>1, <1>2, <1>6, ValidateTorn, Zenon
<1>8. Astray(Routed(evd_service_validate_connection(y, x.starter, v), v), D)
  BY <1>1, <1>6, <1>7, TossedRouted, Zenon
<1>9. Astray(g_io_stream_close(y), D)
  BY <1>2, <1>6, IoCloseTorn, Zenon DEF Astray
<1> QED BY <1>8, <1>9, Zenon DEF y

\* What is under way with a connection in order, too, has its references.
LEMMA ManLoose ==
  ASSUME NEW x, NEW D, D \subseteq Mortal, ConnInv(x, D)
  PROVE  Owed(x) /\ Manned(x, D)
<1>1. Typed(x) /\ Votes(x) /\ Reading(x, D) /\ Serving(x, D)
  BY Zenon DEF ConnInv
<1>2. Owed(x)
  BY <1>1 DEF Owed, Votes
<1>3. D \subseteq Group
  BY DEF Mortal, Group, Service
<1>4. NULL \notin D
  BY <1>3, NullAlive, Zenon
<1>5. Manned(x, D)
  BY <1>1, <1>4, Zenon DEF Manned, Reading, Serving
<1> QED BY <1>2, <1>5, Zenon

\* The application tears it from a service at work, or moves it once more.
LEMMA MovedTorn ==
  ASSUME NEW x, NEW D, NEW b \in BOOLEAN, D \subseteq Mortal,
         Astray(x, D) \/ (ConnInv(x, D) /\ ~Idle(x))
  PROVE  Astray(Moved(x, b), D) /\ Moved(x, b).group = x.group
<1> DEFINE y == Moved(x, b)
<1>1. /\ Typed(x) /\ Refs(x, D) /\ Owed(x) /\ Manned(x, D) /\ x.route = NULL
      /\ x.torn \/ ~Idle(x)
  BY ManLoose, Zenon DEF Astray, Torn, ConnInv
<1>2. /\ Typed(y) /\ SameGroup(x, y) /\ SameLoan(x, y) /\ SameHint(x, y) /\ SameTls(x, y)
      /\ SameRead(x, y) /\ y.moved = TRUE /\ y.route = x.route
      /\ x.torn \/ ~Idle(x) => y.torn = TRUE
  <2>1. Typed(x)
    BY <1>1, Zenon
  <2> QED BY ONLY <2>1, b \in BOOLEAN, MoveStep, Zenon
<1> HIDE DEF y
<1>3. Refs(y, D)
  BY <1>1, <1>2, RefsSame, Zenon
<1>4. Owed(y) /\ Manned(y, D)
  BY <1>1, <1>2, Zenon DEF Owed, Manned, SameHint, SameTls, SameRead
<1>5. y.torn = TRUE /\ y.route = NULL
  BY <1>1, <1>2
<1>6. Astray(y, D) /\ y.group = x.group
  BY <1>2, <1>3, <1>4, <1>5, Zenon DEF Astray, Torn, SameGroup
<1> QED BY <1>6, Zenon DEF y

\* Through the group...
LEMMA GroupAddTorn ==
  ASSUME NEW y, NEW D, NEW v, NEW g \in Group, D \subseteq Mortal, Astray(y, D), g \notin D
  PROVE  Astray(IF g = "grp" THEN evd_io_stream_set_group(y, g)
                ELSE Routed(evd_service_add(y, g, v), v), D)
<1>1. Torn(y, D) /\ y.route = NULL
  BY Zenon DEF Astray
<1>2. D \subseteq Group /\ (g # "grp" => g \in Service)
  BY DEF Mortal, Group, Service
<1>3. Astray(evd_io_stream_set_group(y, g), D)
  BY <1>1, JoinTorn, Zenon DEF Astray
<1>4. ASSUME g # "grp" PROVE Astray(Routed(evd_service_add(y, g, v), v), D)
  <2>1. Tossed(y, evd_service_add(y, g, v), g, D)
    BY <1>1, <1>2, <1>4, AddTorn, Zenon
  <2> QED BY <1>1, <2>1, TossedRouted, Zenon
<1> QED BY <1>3, <1>4, Zenon

\* A group goes away.
LEMMA OrphanedTorn ==
  ASSUME NEW x, NEW z, NEW D, NEW g \in Mortal, D \subseteq Mortal, g \notin D, Astray(x, D),
         g # x.starter, \A rd \in x.reads : rd.by # g, Orphaned(x, z, g)
  PROVE  Astray(z, D \cup {g})
<1> DEFINE E == D \cup {g}
<1>1. Typed(x) /\ Refs(x, D) /\ Owed(x) /\ Manned(x, D) /\ x.moved = TRUE /\ x.torn = TRUE /\ x.route = NULL
  BY Zenon DEF Astray, Torn
<1>2. z.group \in {x.group, NULL} /\ z.open = x.open /\ Shape(z) /\ SameHint(x, z) /\ SameTls(x, z)
      /\ SameRead(x, z) /\ SameAnswer(x, z) /\ SameRequest(x, z) /\ SameFlags(x, z)
  BY Zenon DEF Orphaned
<1>3. Typed(z)
  BY <1>1, <1>2, Zenon DEF Typed, SameHint, SameTls, SameRead, SameAnswer, SameRequest, SameFlags
<1>4. Refs(z, E)
  BY <1>1, OrphanedRefs, Zenon
<1>5. Owed(z) /\ Manned(z, E)
  BY <1>1, <1>2, Zenon DEF Owed, Manned, SameHint, SameTls, SameRead
<1> QED BY <1>1, <1>2, <1>3, <1>4, <1>5, Zenon DEF Astray, Torn, SameFlags

-----------------------------------------------------------------------------
\* The state: connections by themselves, and the groups that have died.

Frame(w) ==
  /\ DOMAIN w = {"c", "new", "dead", "moves"} /\ w = [f \in DOMAIN w |-> w[f]]
  /\ w.c = [k \in Conn |-> w.c[k]]

\* A connection is in order or was torn from a service at work.
Kept(x, D) == ConnInv(x, D) \/ Astray(x, D)

IInv ==
  /\ Frame(web) /\ web.dead \subseteq Mortal /\ web.new \subseteq Conn /\ web.moves \in 0..MaxMoves
  /\ \A k \in Conn : Kept(web.c[k], web.dead)

\* Connections do not share anything that changes.
Puts(k, x, n, m) ==
  web' = [web EXCEPT !.c = [web.c EXCEPT ![k] = x], !.new = n, !.moves = m]

\* An action on one connection keeps the others.
LEMMA PutsKept ==
  ASSUME NEW k \in Conn, NEW x, NEW n, NEW m, IInv, Kept(x, web.dead), n \subseteq Conn,
         m \in 0..MaxMoves, Puts(k, x, n, m)
  PROVE  IInv'
<1> DEFINE d == [web.c EXCEPT ![k] = x]
<1>1. Frame(web)
  BY Zenon DEF IInv
<1>2. d = [j \in Conn |-> IF j = k THEN x ELSE web.c[j]]
  BY ONLY <1>1, k \in Conn, Zenon DEF Frame
<1> HIDE DEF d
<1>3. web' = [web EXCEPT !.c = d, !.new = n, !.moves = m]
  BY Zenon DEF Puts, d
<1>4. /\ web'.c = d /\ web'.new = n /\ web'.moves = m /\ web'.dead = web.dead
      /\ DOMAIN web' = {"c", "new", "dead", "moves"}
  BY ONLY <1>1, <1>3 DEF Frame
<1>5. web' = [f \in DOMAIN web' |-> web'[f]]
  BY ONLY <1>1, <1>3, Zenon DEF Frame
<1>6. d = [j \in Conn |-> d[j]] /\ \A j \in Conn : d[j] = IF j = k THEN x ELSE web.c[j]
  BY <1>2
<1>7. Frame(web)'
  BY <1>4, <1>5, <1>6, Zenon DEF Frame
<1>8. \A j \in Conn : Kept(web'.c[j], web'.dead)
  BY <1>4, <1>6, Zenon DEF IInv
<1> QED BY <1>4, <1>7, <1>8, Zenon DEF IInv

\* Put leaves the rest of the state.
LEMMA PutKept ==
  ASSUME NEW k \in Conn, NEW x, IInv, Kept(x, web.dead), Put(k, x)
  PROVE  IInv'
<1>1. Frame(web) /\ web.new \subseteq Conn /\ web.moves \in 0..MaxMoves
  BY Zenon DEF IInv
<1> DEFINE d == [web.c EXCEPT ![k] = x]
<1>2. web' = [web EXCEPT !.c = d]
  BY Zenon DEF Put
<1> HIDE DEF d
<1>3. web' = [web EXCEPT !.c = d, !.new = web.new, !.moves = web.moves]
  BY ONLY <1>1, <1>2, Zenon DEF Frame
<1>4. Puts(k, x, web.new, web.moves)
  BY <1>3, Zenon DEF Puts, d
<1> QED BY <1>1, <1>4, PutsKept, Zenon

\* So does a move, but for the count.
LEMMA MoveKept ==
  ASSUME NEW k \in Conn, NEW x, IInv, Kept(x, web.dead), Move(k, x)
  PROVE  IInv'
<1>1. Frame(web) /\ web.new \subseteq Conn /\ web.moves \in 0..MaxMoves
  BY Zenon DEF IInv
<1> DEFINE d == [web.c EXCEPT ![k] = x]
           m == web.moves + 1
<1>2. web' = [web EXCEPT !.moves = m, !.c = d]
  BY Zenon DEF Move
<1>3. m \in 0..MaxMoves
  BY <1>1, WebAssumption DEF Move
<1> HIDE DEF d, m
<1>4. web' = [web EXCEPT !.c = d, !.new = web.new, !.moves = m]
  BY ONLY <1>1, <1>2, Zenon DEF Frame
<1>5. Puts(k, x, web.new, m)
  BY <1>4, Zenon DEF Puts, d
<1> QED BY <1>1, <1>3, <1>5, PutsKept, Zenon

\* The program starts without connections.
LEMMA InitHolds ==
  ASSUME Init
  PROVE  IInv
<1> DEFINE b == [Free EXCEPT !.open = FALSE]
           d == [k \in Conn |-> b]
<1>1. web = [c |-> d, new |-> Conn, dead |-> {}, moves |-> 0]
  BY Zenon DEF Init
<1>2. \A k \in Conn : d[k] = b
  BY Zenon
<1>3. Blank(b, FALSE, {})
  <2>1. Free.weak = {} /\ Free.throt = {} /\ Free.retweak = {}
    BY DEF Free
  <2>2. b = [Free EXCEPT !.open = FALSE, !.weak = {}, !.throt = {}, !.retweak = {}]
    BY ONLY <2>1, FreeShape, Zenon DEF Shape, Fields
  <2> QED BY <2>2, Zenon DEF Blank
<1> HIDE DEF b
<1>4. d = [k \in Conn |-> d[k]]
  BY Zenon
<1> HIDE DEF d
<1>5. /\ web.c = d /\ web.new = Conn /\ web.dead = {} /\ web.moves = 0
      /\ DOMAIN web = {"c", "new", "dead", "moves"}
  BY <1>1
<1>6. web = [f \in DOMAIN web |-> web[f]]
  BY <1>1, Zenon
<1>7. 0 \in 0..MaxMoves
  BY WebAssumption
<1>8. ConnInv(b, {})
  <2>1. ASSUME NEW t, t = {} PROVE ConnInv(b, t)
    <3>1. t \subseteq Mortal /\ t \subseteq t /\ Blank(b, FALSE, t)
      BY <1>3, <2>1, Zenon
    <3> QED BY <3>1, BlankKept, Zenon
  <2> QED BY <2>1, Zenon
<1>9. Frame(web) /\ web.dead \subseteq Mortal /\ web.new \subseteq Conn
  BY <1>4, <1>5, <1>6, Zenon DEF Frame
<1> QED BY <1>2, <1>5, <1>7, <1>8, <1>9, Zenon DEF IInv, Kept

\* A group goes away.
LEMMA FinalizeKept ==
  ASSUME NEW g, IInv, Finalize(g)
  PROVE  IInv'
<1> DEFINE One(x) == IF g \in x.weak THEN on_group_destroyed(x) ELSE x
           Two(x) == IF g \in x.retweak
                     THEN [One(x) EXCEPT !.ret = NULL, !.retweak = One(x).retweak \ {g}] ELSE One(x)
           d == [k \in Conn |-> Two(web.c[k])]
           E == web.dead \cup {g}
<1>1. /\ Frame(web) /\ web.dead \subseteq Mortal /\ web.new \subseteq Conn /\ web.moves \in 0..MaxMoves
      /\ \A k \in Conn : Kept(web.c[k], web.dead)
  BY Zenon DEF IInv
<1>2. /\ g \in Mortal /\ g \notin web.dead
      /\ \A k \in Conn : g # web.c[k].starter /\ \A rd \in web.c[k].reads : rd.by # g
  BY Zenon DEF Finalize, Mortal
<1>3. web' = [web EXCEPT !.dead = E, !.c = d]
  BY Zenon DEF Finalize
<1>4. \A k \in Conn : d[k] = Two(web.c[k])
  BY Zenon
<1>5. d = [k \in Conn |-> d[k]]
  BY Zenon
<1>6. ASSUME NEW k \in Conn
      PROVE  Kept(d[k], E)
  <2> DEFINE x == web.c[k]
  <2>1. Kept(x, web.dead) /\ Typed(x) /\ Refs(x, web.dead)
    BY <1>1, Zenon DEF Kept, ConnInv, Astray, Torn
  <2>2. Orphaned(x, Two(x), g)
    <3> HIDE DEF x
    <3> QED BY <1>2, <2>1, FinalizeStep, Zenon
  <2> HIDE DEF One, Two, d
  <2>3. g # x.starter /\ \A rd \in x.reads : rd.by # g
    BY <1>2, Zenon
  <2>4. Kept(Two(x), E)
    BY <1>1, <1>2, <2>1, <2>2, <2>3, OrphanedKept, OrphanedTorn, Zenon DEF Kept
  <2> QED BY <1>4, <2>4, Zenon
<1> HIDE DEF d, E
<1>7. /\ web'.c = d /\ web'.new = web.new /\ web'.moves = web.moves /\ web'.dead = E
      /\ DOMAIN web' = {"c", "new", "dead", "moves"}
  BY ONLY <1>1, <1>3 DEF Frame
<1>8. web' = [f \in DOMAIN web' |-> web'[f]]
  BY ONLY <1>1, <1>3, Zenon DEF Frame
<1>9. E \subseteq Mortal
  BY <1>1, <1>2, Zenon DEF E
<1>10. Frame(web)'
  BY <1>5, <1>7, <1>8, Zenon DEF Frame
<1>11. \A k \in Conn : Kept(web'.c[k], web'.dead)
  BY <1>6, <1>7, Zenon
<1> QED BY <1>1, <1>7, <1>9, <1>10, <1>11, Zenon DEF IInv

\* Every step keeps the invariant.
LEMMA NextKeeps ==
  ASSUME IInv, [Next]_web
  PROVE  IInv'
<1>1. web.dead \subseteq Mortal /\ Frame(web) /\ web.new \subseteq Conn /\ web.moves \in 0..MaxMoves
  BY Zenon DEF IInv
<1>2. CASE UNCHANGED web
  BY <1>2, Zenon DEF IInv, Frame
<1>3. ASSUME NEW k \in Conn, NEW v \in Env, evd_service_listener_on_new_connection(k, v)
      PROVE  IInv'
  <2> DEFINE x == Routed(evd_service_add(Free, "sel", v), v)
             d == [web.c EXCEPT ![k] = x]
             n == web.new \ {k}
  <2>1. "sel" \notin web.dead /\ web' = [web EXCEPT !.new = n, !.c = d]
    BY <1>3, Zenon DEF evd_service_listener_on_new_connection
  <2>2. Kept(x, web.dead)
    BY <1>1, <2>1, NewKept, Zenon DEF Kept
  <2>3. n \subseteq Conn
    BY <1>1, Zenon
  <2> HIDE DEF d, n, x
  <2>4. web' = [web EXCEPT !.c = d, !.new = n, !.moves = web.moves]
    BY ONLY <1>1, <2>1, Zenon DEF Frame
  <2>5. Puts(k, x, n, web.moves)
    BY <2>4, Zenon DEF Puts, d
  <2> QED BY <1>1, <2>2, <2>3, <2>5, PutsKept, Zenon
<1>4. ASSUME NEW k \in Conn, NEW r \in Requests, evd_http_connection_on_read_headers(k, r)
      PROVE  IInv'
  <2> DEFINE x == web.c[k]
  <2>1. Kept(x, web.dead)
    BY Zenon DEF IInv
  <2>2. PICK rd \in x.reads :
          /\ rd.ans = "wait"
          /\ Put(k, [x EXCEPT !.pending = FALSE, !.request = r, !.keep = r.keep, !.asked = x.asked + 1,
                              !.reads = (x.reads \ {rd}) \cup {[rd EXCEPT !.ans = "ok", !.req = r]}])
    BY <1>4, Zenon DEF evd_http_connection_on_read_headers
  <2> HIDE DEF x
  <2> DEFINE y == [x EXCEPT !.pending = FALSE, !.request = r, !.keep = r.keep, !.asked = x.asked + 1,
                            !.reads = (x.reads \ {rd}) \cup {[rd EXCEPT !.ans = "ok", !.req = r]}]
  <2>3. Kept(y, web.dead)
    BY <2>1, <2>2, HeadersKept, HeadersTorn, Zenon DEF Kept
  <2> HIDE DEF y
  <2>4. Put(k, y)
    BY <2>2, Zenon DEF y
  <2> QED BY <2>3, <2>4, PutKept, Zenon
<1>5. ASSUME NEW k \in Conn, NEW long \in BOOLEAN, HeadersFail(k, long)
      PROVE  IInv'
  <2> DEFINE x == web.c[k]
  <2>1. Kept(x, web.dead)
    BY Zenon DEF IInv
  <2>2. PICK rd \in x.reads :
          /\ rd.ans = "wait"
          /\ Put(k, [x EXCEPT !.pending = long,
                              !.reads = (x.reads \ {rd}) \cup {[rd EXCEPT !.ans = "bad"]}])
    BY <1>5, Zenon DEF HeadersFail
  <2> HIDE DEF x
  <2> DEFINE y == [x EXCEPT !.pending = long, !.reads = (x.reads \ {rd}) \cup {[rd EXCEPT !.ans = "bad"]}]
  <2>3. Kept(y, web.dead)
    BY <2>1, <2>2, HeadersFailKept, HeadersFailTorn, Zenon DEF Kept
  <2> HIDE DEF y
  <2>4. Put(k, y)
    BY <2>2, Zenon DEF y
  <2> QED BY <2>3, <2>4, PutKept, Zenon
<1>6. ASSUME NEW k \in Conn, NEW v \in Env, evd_web_service_conn_on_headers_read(k, v)
      PROVE  IInv'
  <2> DEFINE x == web.c[k]
             y(rd) == [x EXCEPT !.reads = x.reads \ {rd}]
             z(rd) == CASE rd.ans = "ok" ->
                             Routed(evd_web_service_validate_request(y(rd), rd.by, rd.req, v), v)
                        [] rd.ans = "closed" -> y(rd)
                        [] OTHER -> g_io_stream_close(y(rd))
  <2>1. Kept(x, web.dead)
    BY Zenon DEF IInv
  <2>2. PICK rd \in x.reads : rd.ans # "wait" /\ Put(k, z(rd))
    BY <1>6, Zenon DEF evd_web_service_conn_on_headers_read
  <2> HIDE DEF x
  <2>3. Kept(z(rd), web.dead)
    BY <1>1, <2>1, <2>2, HeadersReadKept, HeadersReadTorn, Zenon DEF Kept
  <2> HIDE DEF z
  <2> QED BY <2>2, <2>3, PutKept, Zenon
<1>7. ASSUME NEW k \in Conn, NEW v \in Env, evd_web_service_connection_on_flush(k, v)
      PROVE  IInv'
  <2> DEFINE x == web.c[k]
             y == [x EXCEPT !.flushes = x.flushes - 1]
             z == IF x.group \in WebLike
                  THEN Routed(evd_web_service_return_connection(y, x.group, v), v) ELSE y
  <2>1. Kept(x, web.dead)
    BY Zenon DEF IInv
  <2>2. x.flushes > 0 /\ Put(k, z)
    BY <1>7, Zenon DEF evd_web_service_connection_on_flush
  <2> HIDE DEF x
  <2>3. Kept(z, web.dead)
    BY <1>1, <2>1, <2>2, FlushKept, FlushTorn, Zenon DEF Kept
  <2> HIDE DEF z
  <2> QED BY <2>2, <2>3, PutKept, Zenon
<1>8. ASSUME NEW k \in Conn, NEW v \in Env, evd_web_service_respond(k, v)
      PROVE  IInv'
  <2> DEFINE x == web.c[k]
             y == IF x.more > 0 THEN [x EXCEPT !.more = x.more - 1] ELSE [x EXCEPT !.handler = NULL]
  <2>1. ConnInv(x, web.dead) \/ Astray(x, web.dead)
    BY Zenon DEF IInv, Kept
  <2>2. x.handler # NULL /\ Put(k, evd_web_service_respond_internal(y, v))
    BY <1>8, Zenon DEF evd_web_service_respond
  <2> HIDE DEF x
  <2>3. CASE ConnInv(x, web.dead)
    <3>1. x.more = 0
      BY <2>3, Zenon DEF ConnInv, Votes
    <3>2. ~(x.more > 0)
      BY <3>1
    <3>3. y = [x EXCEPT !.handler = NULL]
      BY <3>2, Zenon
    <3>4. ConnInv(evd_web_service_respond_internal(y, v), web.dead)
      BY <2>2, <2>3, <3>3, AnswerKept, Zenon
    <3> QED BY <2>2, <3>4, PutKept, Zenon DEF Kept
  <2>4. CASE Astray(x, web.dead)
    <3>1. Astray(evd_web_service_respond_internal(y, v), web.dead)
      BY <1>1, <2>4, AnswerTorn, Zenon
    <3> HIDE DEF y
    <3> QED BY <2>2, <3>1, PutKept, Zenon DEF Kept
  <2> QED BY <2>1, <2>3, <2>4, Zenon
<1>9. ASSUME NEW k \in Conn, NEW v \in Env, evd_service_accept_connection(k, v)
      PROVE  IInv'
  <2> DEFINE x == web.c[k]
             y == Routed(accept_connection_priv([x EXCEPT !.hint = NULL, !.vrefs = x.vrefs - 1],
                                                x.hint, v), v)
  <2>1. Kept(x, web.dead) /\ x.hint \in Service \ web.dead /\ Put(k, y)
    BY <1>9, Zenon DEF IInv, evd_service_accept_connection
  <2> HIDE DEF x
  <2>2. Kept(y, web.dead)
    BY <1>1, <2>1, AcceptKept, DecideTorn, Zenon DEF Kept
  <2> HIDE DEF y
  <2> QED BY <2>1, <2>2, PutKept, Zenon
<1>10. ASSUME NEW k \in Conn, evd_service_reject_connection(k)
       PROVE  IInv'
  <2> DEFINE x == web.c[k]
             y == g_io_stream_close([x EXCEPT !.hint = NULL, !.vrefs = x.vrefs - 1])
  <2>1. Kept(x, web.dead) /\ x.hint \in Service \ web.dead /\ Put(k, y)
    BY <1>10, Zenon DEF IInv, evd_service_reject_connection
  <2> HIDE DEF x
  <2>2. Kept(y, web.dead)
    BY <1>1, <2>1, RejectKept, DecideTorn, Zenon DEF Kept
  <2> HIDE DEF y
  <2> QED BY <2>1, <2>2, PutKept, Zenon
<1>11. ASSUME NEW k \in Conn, NEW v \in Env, NEW ok \in BOOLEAN,
              evd_service_connection_on_tls_started(k, ok, v)
       PROVE  IInv'
  <2> DEFINE x == web.c[k]
             y == [x EXCEPT !.starter = NULL]
             z == IF ok THEN Routed(evd_service_validate_connection(y, x.starter, v), v)
                  ELSE g_io_stream_close(y)
  <2>1. Kept(x, web.dead) /\ x.starter # NULL /\ Put(k, z)
    BY <1>11, Zenon DEF IInv, evd_service_connection_on_tls_started
  <2> HIDE DEF x
  <2>2. Kept(z, web.dead)
    BY <1>1, <2>1, TlsKept, TlsTorn, Zenon DEF Kept
  <2> HIDE DEF z
  <2> QED BY <2>1, <2>2, PutKept, Zenon
<1>12. ASSUME NEW k \in Conn, HangUp(k)
       PROVE  IInv'
  <2>1. Kept(web.c[k], web.dead) /\ Put(k, evd_http_connection_close(web.c[k]))
    BY <1>12, Zenon DEF IInv, HangUp
  <2>2. web.dead \subseteq Group
    BY <1>1 DEF Mortal, Group, Service
  <2>3. Kept(evd_http_connection_close(web.c[k]), web.dead)
    BY <1>1, <2>1, <2>2, HangUpKept, CloseTorn, Zenon DEF Kept, Astray
  <2> QED BY <2>1, <2>3, PutKept, Zenon
<1>13. ASSUME NEW k \in Conn, NEW v \in Env, NEW g \in Group, evd_io_stream_group_add(k, g, v)
       PROVE  IInv'
  <2> DEFINE x == web.c[k]
             y == Moved(x, FALSE)
             z == IF g = "grp" THEN evd_io_stream_set_group(y, g)
                  ELSE Routed(evd_service_add(y, g, v), v)
  <2>1. ConnInv(x, web.dead) \/ Astray(x, web.dead)
    BY Zenon DEF IInv, Kept
  <2>2. g \notin web.dead \cup {y.group} /\ Move(k, z)
    BY <1>13, Zenon DEF evd_io_stream_group_add
  <2>3. x.open
    BY <2>2, Zenon DEF Move
  <2> HIDE DEF x
  <2>4. Typed(x)
    BY <2>1, Zenon DEF ConnInv, Astray, Torn
  <2>5. y.group = x.group
    BY <2>4, MoveStep, Zenon DEF SameGroup
  <2>6. Kept(z, web.dead)
    <3>1. CASE ConnInv(x, web.dead) /\ Idle(x)
      <4>1. ConnInv(z, web.dead)
        BY <1>1, <2>2, <2>3, <2>5, <3>1, GroupAddKept, Zenon
      <4> QED BY <4>1, Zenon DEF Kept
    <3>2. CASE Astray(x, web.dead) \/ (ConnInv(x, web.dead) /\ ~Idle(x))
      <4>1. Astray(y, web.dead)
        BY <1>1, <3>2, MovedTorn, Zenon
      <4> HIDE DEF y
      <4>2. Astray(z, web.dead)
        BY <1>1, <2>2, <4>1, GroupAddTorn, Zenon
      <4> QED BY <4>2, Zenon DEF Kept
    <3> QED BY <2>1, <3>1, <3>2, Zenon
  <2> HIDE DEF z
  <2> QED BY <2>2, <2>6, MoveKept, Zenon
<1>14. ASSUME NEW k \in Conn, NEW g \in Group \cup {NULL}, evd_io_stream_set_property(k, g)
       PROVE  IInv'
  <2> DEFINE x == web.c[k]
             y == Moved(x, TRUE)
             z == evd_io_stream_set_group(y, g)
  <2>1. ConnInv(x, web.dead) \/ Astray(x, web.dead)
    BY Zenon DEF IInv, Kept
  <2>2. g \notin web.dead /\ Move(k, z)
    BY <1>14, Zenon DEF evd_io_stream_set_property
  <2>3. x.open
    BY <2>2, Zenon DEF Move
  <2> HIDE DEF x
  <2>4. Kept(z, web.dead)
    <3>1. CASE ConnInv(x, web.dead) /\ Idle(x)
      <4>1. ConnInv(z, web.dead)
        BY <2>2, <2>3, <3>1, SetPropertyKept, Zenon
      <4> QED BY <4>1, Zenon DEF Kept
    <3>2. CASE Astray(x, web.dead) \/ (ConnInv(x, web.dead) /\ ~Idle(x))
      <4>1. Astray(y, web.dead)
        BY <1>1, <3>2, MovedTorn, Zenon
      <4> HIDE DEF y
      <4>2. Astray(z, web.dead)
        BY <2>2, <4>1, JoinTorn, Zenon DEF Astray
      <4> QED BY <4>2, Zenon DEF Kept
    <3> QED BY <2>1, <3>1, <3>2, Zenon
  <2> HIDE DEF z
  <2> QED BY <2>2, <2>4, MoveKept, Zenon
<1>15. ASSUME NEW k \in Conn, evd_io_stream_dispose(k)
       PROVE  IInv'
  <2> DEFINE x == web.c[k]
             z == [Free EXCEPT !.open = FALSE, !.weak = x.weak \ {x.group},
                               !.throt = x.throt \ {x.group}, !.retweak = x.retweak \ {x.ret}]
  <2>1. Refs(x, web.dead) /\ Put(k, z)
    BY <1>15, Zenon DEF IInv, Kept, ConnInv, Astray, Torn, evd_io_stream_dispose
  <2> HIDE DEF x
  <2>2. Kept(z, web.dead)
    BY <1>1, <2>1, DisposeKept, Zenon DEF Kept
  <2> HIDE DEF z
  <2> QED BY <2>1, <2>2, PutKept, Zenon
<1>16. ASSUME NEW g \in Group, Finalize(g)
       PROVE  IInv'
  BY <1>16, FinalizeKept, Zenon
<1> QED BY <1>2, <1>3, <1>4, <1>5, <1>6, <1>7, <1>8, <1>9, <1>10, <1>11, <1>12, <1>13, <1>14,
           <1>15, <1>16, Zenon DEF Next

-----------------------------------------------------------------------------
\* The theorems.

\* At most one thing is under way with a connection, the service that has to go
\* on with it is the one whose group it is in, and requests and answers are
\* counted right, unless the application tore it from a service at work; its
\* references are in order even then: the inductive invariant.
THEOREM WebInvariant == Spec => []IInv
<1>1. Init => IInv
  BY InitHolds, Zenon
<1>2. IInv /\ [Next]_web => IInv'
  BY NextKeeps, Zenon
<1> QED BY <1>1, <1>2, PTL DEF Spec

\* The invariant implies the types...
LEMMA TypeFollows ==
  ASSUME IInv
  PROVE  TypeOK
<1>1. /\ web.dead \subseteq Mortal /\ web.new \subseteq Conn /\ web.moves \in 0..MaxMoves
      /\ \A k \in Conn : Kept(web.c[k], web.dead)
  BY Zenon DEF IInv
<1>2. web.dead \subseteq Group
  BY <1>1 DEF Mortal, Group, Service
<1>3. ASSUME NEW k \in Conn
      PROVE  LET x == web.c[k]
             IN  /\ DOMAIN x = DOMAIN Free
                 /\ x.group \in (Group \ web.dead) \cup {NULL}
                 /\ x.ret \in (WebLike \ web.dead) \cup {NULL}
                 /\ x.request \in Requests \cup {NULL}
                 /\ x.vrefs \in Nat /\ x.connweak \in Nat /\ x.flushes \in Nat
                 /\ \A rd \in x.reads : rd.ans \in {"wait", "ok", "bad", "closed", "busy"}
  <2> DEFINE x == web.c[k]
  <2>1. Typed(x) /\ Refs(x, web.dead) /\ (Votes(x) \/ Owed(x)) /\ Shape(x)
    BY <1>1, Zenon DEF Kept, ConnInv, Astray, Torn, Typed
  <2> HIDE DEF x
  <2>2. DOMAIN x = DOMAIN Free
    BY <2>1, FreeShape, Zenon DEF Shape
  <2>3. x.group \in (Group \ web.dead) \cup {NULL} /\ x.request \in Requests \cup {NULL}
        /\ x.flushes \in Nat /\ x.reads \in SUBSET Reader
    BY <2>1, Zenon DEF Typed, Refs
  <2>4. x.ret \in (WebLike \ web.dead) \cup {NULL}
    BY <2>1, Zenon DEF Refs, WebLike
  <2>5. x.vrefs \in Nat /\ x.connweak \in Nat
    BY <2>1 DEF Votes, Owed, Refs
  <2>6. \A rd \in x.reads : rd.ans \in {"wait", "ok", "bad", "closed", "busy"}
    BY <2>3 DEF Reader
  <2> QED BY <2>2, <2>3, <2>4, <2>5, <2>6, Zenon DEF x
<1> QED BY <1>1, <1>2, <1>3, Zenon DEF TypeOK

\* The state is well formed, and no connection is in, or goes back to, a group
\* that is gone.
THEOREM WebTypes == Spec => []TypeOK
<1>1. IInv => TypeOK
  BY TypeFollows, Zenon
<1> QED BY <1>1, WebInvariant, PTL

\* Connections, groups and lenders refer to each other exactly as long as they
\* should, whatever dies first and whatever the application moves
\* (evd_io_stream_set_group, on_group_destroyed, evd_web_service_on_conn_destroyed);
\* a pending decision of a torn connection is not counted.
THEOREM WebOwners == Spec => []OwnersKept
<1>1. IInv => OwnersKept
  <2> SUFFICES ASSUME IInv PROVE OwnersKept
    OBVIOUS
  <2>1. ASSUME NEW k \in Conn
        PROVE  Refs(web.c[k], web.dead) /\ (web.c[k].torn \/ Votes(web.c[k]))
    BY Zenon DEF IInv, Kept, ConnInv, Astray, Torn
  <2>2. GroupRefs
    BY <2>1, Zenon DEF GroupRefs, Holds, Refs
  <2>3. ThrottlesFollow
    BY <2>1, Zenon DEF ThrottlesFollow, Holds, Refs
  <2>4. ReturnRefs
    BY <2>1, Zenon DEF ReturnRefs, Holds, Refs
  <2>5. PendingRefs
    BY <2>1, Zenon DEF PendingRefs, Whole, Votes
  <2> QED BY <2>2, <2>3, <2>4, <2>5, Zenon DEF OwnersKept
<1> QED BY <1>1, WebInvariant, PTL

\* Every request is read by one service and answered once, and no connection a
\* web service has is forgotten, unless the application tore it from a service at
\* work (evd_web_service_return_connection).
THEOREM WebRequests == Spec => []RequestsKept
<1>1. IInv => RequestsKept
  <2> SUFFICES ASSUME IInv PROVE RequestsKept
    OBVIOUS
  <2>1. ASSUME NEW k \in Conn
        PROVE  /\ Typed(web.c[k]) /\ Books(web.c[k])
               /\ web.c[k].torn \/ (Reading(web.c[k], web.dead) /\ Used(web.c[k]))
    BY Zenon DEF IInv, Kept, ConnInv, Astray, Torn, Books
  <2>2. NoDoubleRead
    BY <2>1, Zenon DEF NoDoubleRead, Whole, Reading
  <2>3. ASSUME NEW k \in Conn PROVE web.c[k].flushes # 0 => web.c[k].flushes > 0
    BY <2>1 DEF Typed
  <2>4. NeverForgotten
    BY <2>1, <2>3, Zenon DEF NeverForgotten, Whole, Used, Quiet
  <2>5. OneAnswerEach
    BY <2>1, Zenon DEF OneAnswerEach, Holds, Books
  <2> QED BY <2>2, <2>4, <2>5, Zenon DEF RequestsKept
<1> QED BY <1>1, WebInvariant, PTL

\* No service reads from a connection it has not let in, or in the clear if it
\* insists on TLS, and no handler sees a request of an origin its service
\* denies (evd_service_validate_connection, evd_web_service_validate_request),
\* unless the application tore the connection from a service at work.
THEOREM WebAdmission == Spec => []AdmissionKept
<1>1. IInv => AdmissionKept
  <2> SUFFICES ASSUME IInv PROVE AdmissionKept
    OBVIOUS
  <2>1. ASSUME NEW k \in Conn
        PROVE  \/ web.c[k].torn
               \/ Lone(web.c[k]) /\ Reading(web.c[k], web.dead) /\ Serving(web.c[k], web.dead)
    BY Zenon DEF IInv, Kept, ConnInv, Astray, Torn
  <2>2. NotBeforeValidated
    BY <2>1, Zenon DEF NotBeforeValidated, Whole, Lone, Reading
  <2>3. NULL \notin DenyCross
    BY WebAssumption, Zenon
  <2>4. OriginsKept
    BY <2>1, <2>3, Zenon DEF OriginsKept, Whole, Serving
  <2> QED BY <2>2, <2>4, Zenon DEF AdmissionKept
<1> QED BY <1>1, WebInvariant, PTL
=============================================================================
