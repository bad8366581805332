--------------------------- MODULE EvdWebService ---------------------------
(***************************************************************************)
(* How an HTTP connection travels between services: EvdIoStream and        *)
(* EvdIoStreamGroup (membership, weak references, throttles), EvdService   *)
(* (validation, TLS upgrade), EvdWebService (reading requests, responding, *)
(* returning connections) and EvdWebSelector (routing), all under src/evd. *)
(*                                                                         *)
(* Three services: "sel", an EvdWebSelector with candidates "web", an      *)
(* EvdWebService of the application, and "svc", an EvdService of another   *)
(* kind; "grp" is a plain EvdIoStreamGroup.  The selector holds references *)
(* on its candidates, so only "sel" and "grp" can go away.  A function of  *)
(* the code is an operator from states to states; v carries what the       *)
(* application and the socket answer while it runs.                        *)
(***************************************************************************)
EXTENDS Integers

CONSTANTS Conn,         \* connections
          Requests,     \* set of Request records
          Autostart,    \* services with "tls-autostart"
          DenyCross,    \* services whose policy denies foreign origins
          MaxRequests,  \* requests per connection
          MaxMoves,     \* connections the application moves itself
          NULL

ASSUME WebAssumption ==
  /\ Requests \subseteq [cross : BOOLEAN, preflight : BOOLEAN, keep : BOOLEAN,
                         target : {"web", "svc", NULL}]
  /\ NULL \notin Requests /\ NULL \notin {"sel", "web", "svc", "grp"}
  /\ Autostart \subseteq {"sel", "web", "svc"} /\ DenyCross \subseteq {"sel", "web", "svc"}
  /\ MaxRequests \in Nat /\ MaxMoves \in Nat

VARIABLE web

Service == {"sel", "web", "svc"}
WebLike == {"sel", "web"}
Group == Service \cup {"grp"}

\* cross: from a foreign origin; preflight: CORS OPTIONS; keep: persistent
\* connection asked for; target: what the selector's patterns match.
Request == [cross : BOOLEAN, preflight : BOOLEAN, keep : BOOLEAN,
            target : {"web", "svc", NULL}]

\* EvdValidateEnum (evd-utils.h).
ACCEPT == 0
REJECT == 1
PENDING == 2

\* Answers given while a function runs: what the handlers of the validation
\* signals return, whether the response can be written, and whether the headers
\* of the request fit into the buffer of the input stream.
Env == [valid : {ACCEPT, REJECT, PENDING}, ok : BOOLEAN, fits : BOOLEAN]

Free == [ open |-> TRUE, group |-> NULL, weak |-> {}, throt |-> {},
          tls |-> FALSE, starter |-> NULL, hint |-> NULL, vrefs |-> 0,
          pending |-> FALSE, reads |-> {}, request |-> NULL, keep |-> FALSE,
          ret |-> NULL, retweak |-> {}, connweak |-> 0,
          handler |-> NULL, more |-> 0, route |-> NULL, flushes |-> 0, shut |-> FALSE,
          stuck |-> FALSE, moved |-> FALSE, torn |-> FALSE, unserved |-> FALSE, refused |-> FALSE,
          asked |-> 0, replies |-> 0 ]

Init == web = [c |-> [k \in Conn |-> [Free EXCEPT !.open = FALSE]],
               new |-> Conn, dead |-> {}, moves |-> 0]

(***************************************************************************)
(* EvdIoStream and EvdIoStreamGroup.  The `recursed` flag of a group makes *)
(* the nested add and remove calls of evd_io_stream_set_group no-ops.      *)
(***************************************************************************)

\* EvdConnection takes over the throttles of its group.
on_group_changed(x, new, old) == [x EXCEPT !.throt = (@ \ {old}) \cup ({new} \ {NULL})]

evd_io_stream_set_group(x, g) ==
  IF g = x.group THEN x
  ELSE on_group_changed([x EXCEPT !.group = g,
                                  !.weak = (@ \ {x.group}) \cup ({g} \ {NULL})], g, x.group)

\* Deviation: the stream goes on pointing to the group.
PointsToDead(x) == [x EXCEPT !.weak = @ \ {x.group}]

\* The group is gone and cannot be asked for its throttles: they stay.
on_group_destroyed(x) ==
  on_group_changed([x EXCEPT !.group = NULL, !.weak = @ \ {x.group}], NULL, NULL)

(***************************************************************************)
(* Closing.  g_io_stream_close is refused while an operation is pending;   *)
(* EvdConnection clears the flag before it closes after a hang-up.  A      *)
(* reader of headers learns from an idle source.                           *)
(***************************************************************************)

evd_http_connection_close(x) ==
  [evd_io_stream_set_group(x, NULL) EXCEPT
     !.open = FALSE, !.pending = FALSE, !.tls = FALSE, !.starter = NULL,
     !.reads = {[r EXCEPT !.ans = IF r.ans = "wait" THEN "closed" ELSE r.ans] : r \in x.reads}]

g_io_stream_close(x) ==
  IF ~x.open THEN x
  ELSE IF x.pending THEN [x EXCEPT !.stuck = TRUE]
  ELSE evd_http_connection_close(x)

(***************************************************************************)
(* EvdHttpConnection, as far as services use it.                           *)
(***************************************************************************)

\* A second reader is refused (G_IO_ERROR_PENDING), also in an idle source.
evd_http_connection_read_headers_async(x, s) ==
  LET Read(ans) == x.reads \cup {[by |-> s, ans |-> ans, req |-> NULL]}
  IN  IF x.pending THEN [x EXCEPT !.reads = Read("busy")]
      ELSE [x EXCEPT !.pending = TRUE, !.keep = FALSE,
                     !.reads = Read(IF x.open THEN "wait" ELSE "closed")]

\* respond_internal: a response written is flushed, one that fails shuts the
\* socket down after what was buffered.
evd_web_service_respond_internal(x, v) ==
  IF v.ok /\ x.open THEN [x EXCEPT !.flushes = @ + 1, !.replies = @ + 1]
  ELSE [x EXCEPT !.shut = TRUE]

(***************************************************************************)
(* The path of a request through EvdService, EvdWebService and             *)
(* EvdWebSelector.  After a function has called another it changes nothing *)
(* more, and the handler of the selector calls those of its candidates:    *)
(* the request it is to route is kept in `route` until the others have     *)
(* returned, see Routed.                                                   *)
(***************************************************************************)

\* A handler of the application answers later, see evd_web_service_respond;
\* `more` counts those that have to, besides one.
evd_web_service_invoke_request_handler(x, s, r, v) ==
  IF s = "sel" THEN [x EXCEPT !.route = r]
  ELSE IF x.handler # NULL THEN [x EXCEPT !.more = @ + 1] ELSE [x EXCEPT !.handler = s]

\* A service has its own policy and exceptions to it.
evd_web_service_origin_allowed(s) == s \notin DenyCross

\* Foreign origins are refused by the service's policy, CORS preflights are
\* answered here; everything else goes to the handler.
evd_web_service_validate_request(x, s, r, v) ==
  IF r.cross /\ (~evd_web_service_origin_allowed(s) \/ r.preflight)
  THEN evd_web_service_respond_internal(x, v)
  ELSE evd_web_service_invoke_request_handler(x, s, r, v)

evd_web_service_connection_accepted(x, s, v) ==
  IF x.request # NULL THEN evd_web_service_validate_request(x, s, x.request, v)
  ELSE evd_http_connection_read_headers_async(x, s)

\* An EvdService that is no web service leaves the connection to its owner.
accept_connection_priv(x, s, v) ==
  IF s \in Autostart /\ ~x.tls
  THEN [x EXCEPT !.tls = TRUE, !.starter = s]
  ELSE IF s \in WebLike THEN evd_web_service_connection_accepted(x, s, v) ELSE x

\* Deviation: a connection that is to be validated later is accepted meanwhile.
AcceptsPending(x, s, v) ==
  CASE v.valid = ACCEPT -> accept_connection_priv(x, s, v)
    [] v.valid = REJECT -> g_io_stream_close(x)
    [] OTHER -> accept_connection_priv([x EXCEPT !.hint = s, !.vrefs = @ + 1], s, v)

\* The hint on a connection does not say which service set it; the application
\* answers to the one that asked.  evd_service_validate_tls_connection does
\* the same after the handshake.
evd_service_validate_connection(x, s, v) ==
  CASE v.valid = ACCEPT -> accept_connection_priv(x, s, v)
    [] v.valid = REJECT -> g_io_stream_close(x)
    [] OTHER -> [x EXCEPT !.hint = s, !.vrefs = @ + 1]

evd_service_add(x, s, v) ==
  IF ~x.open \/ x.group = s THEN x
  ELSE evd_service_validate_connection(evd_io_stream_set_group(x, s), s, v)

evd_web_service_add_connection_with_request(x, s, r, back, v) ==
  LET y == [x EXCEPT !.request = r]
  IN  evd_service_add(
        IF x.ret # NULL THEN y
        ELSE [y EXCEPT !.ret = back, !.retweak = @ \cup {back}, !.connweak = @ + 1],
        s, v)

\* find_match and the branches of the handler; a service of another kind
\* reads the request again from the stream.  A request that cannot be put back
\* there is left alone, and so is its connection.
evd_web_selector_request_handler(x, r, v) ==
  CASE r.target = "web" ->
         evd_web_service_add_connection_with_request(x, "web", r, "sel", v)
    [] r.target = "svc" ->
         IF v.fits THEN evd_service_add(x, "svc", v) ELSE [x EXCEPT !.unserved = TRUE]
    [] OTHER -> [evd_web_service_respond_internal(x, v) EXCEPT !.refused = TRUE]

\* The handler of the selector runs; its candidates are no selectors.
Routed(x, v) ==
  IF x.route = NULL THEN x
  ELSE evd_web_selector_request_handler([x EXCEPT !.route = NULL], x.route, v)

\* Deviation: a persistent connection goes back without being taken off the
\* return list.
StaysListed(x, s, v) ==
  IF ~x.open THEN x
  ELSE LET y == [x EXCEPT !.request = NULL]
       IN  IF ~x.keep THEN [y EXCEPT !.shut = TRUE]
           ELSE IF x.ret # NULL THEN evd_service_add([y EXCEPT !.ret = NULL], x.ret, v)
           ELSE evd_web_service_connection_accepted(y, s, v)

\* Deviation: the connection is returned and read here as well.
ReadsToo(x, s, v) ==
  IF ~x.open THEN x
  ELSE LET y == [x EXCEPT !.request = NULL]
       IN  IF ~x.keep THEN [y EXCEPT !.shut = TRUE]
           ELSE evd_web_service_connection_accepted(
                  IF x.ret = NULL THEN y
                  ELSE evd_service_add([y EXCEPT !.ret = NULL, !.retweak = @ \ {x.ret},
                                                 !.connweak = @ - 1], x.ret, v), s, v)

evd_web_service_return_connection(x, s, v) ==
  IF ~x.open THEN x
  ELSE LET y == [x EXCEPT !.request = NULL]
       IN  IF ~x.keep THEN [y EXCEPT !.shut = TRUE]
           ELSE IF x.ret # NULL
                THEN evd_service_add([y EXCEPT !.ret = NULL, !.retweak = @ \ {x.ret},
                                               !.connweak = @ - 1], x.ret, v)
                ELSE evd_web_service_connection_accepted(y, s, v)

(***************************************************************************)
(* Actions.                                                                *)
(***************************************************************************)

Put(k, x) == web' = [web EXCEPT !.c[k] = x]

\* A listener of the selector accepts a connection.
evd_service_listener_on_new_connection(k, v) ==
  /\ k \in web.new /\ "sel" \notin web.dead
  /\ web' = [web EXCEPT !.new = @ \ {k}, !.c[k] = Routed(evd_service_add(Free, "sel", v), v)]

\* The block that completes the headers arrives: the request is parsed and the
\* reader told in an idle source.  Headers that cannot be parsed are an error;
\* headers that are too long are one, too, but leave the flag set.
evd_http_connection_on_read_headers(k, r) ==
  LET x == web.c[k] IN
  /\ x.asked < MaxRequests
  /\ \E rd \in x.reads :
       /\ rd.ans = "wait"
       /\ Put(k, [x EXCEPT !.pending = FALSE, !.request = r, !.keep = r.keep, !.asked = @ + 1,
                           !.reads = (@ \ {rd}) \cup {[rd EXCEPT !.ans = "ok", !.req = r]}])

HeadersFail(k, long) ==
  LET x == web.c[k] IN
  \E rd \in x.reads :
    /\ rd.ans = "wait"
    /\ Put(k, [x EXCEPT !.pending = long,
                        !.reads = (@ \ {rd}) \cup {[rd EXCEPT !.ans = "bad"]}])

evd_web_service_conn_on_headers_read(k, v) ==
  LET x == web.c[k] IN
  \E rd \in x.reads :
    /\ rd.ans # "wait"
    /\ LET y == [x EXCEPT !.reads = @ \ {rd}]
       IN  Put(k, CASE rd.ans = "ok" ->
                         Routed(evd_web_service_validate_request(y, rd.by, rd.req, v), v)
                    [] rd.ans = "closed" -> y
                    [] OTHER -> g_io_stream_close(y))

\* The flush ends, with or without an error; the service the connection is in
\* by now takes it back.
evd_web_service_connection_on_flush(k, v) ==
  LET x == web.c[k]
      y == [x EXCEPT !.flushes = @ - 1]
  IN  /\ x.flushes > 0
      /\ Put(k, IF x.group \in WebLike
                THEN Routed(evd_web_service_return_connection(y, x.group, v), v) ELSE y)

\* The application answers a request, once (evd_web_service_respond).
evd_web_service_respond(k, v) ==
  LET x == web.c[k] IN
  /\ x.handler # NULL
  /\ Put(k, evd_web_service_respond_internal(
              IF x.more > 0 THEN [x EXCEPT !.more = @ - 1] ELSE [x EXCEPT !.handler = NULL], v))

\* The application decides on a pending connection.
evd_service_accept_connection(k, v) ==
  LET x == web.c[k] IN
  /\ x.hint \in Service \ web.dead
  /\ Put(k, Routed(accept_connection_priv([x EXCEPT !.hint = NULL, !.vrefs = @ - 1], x.hint, v), v))

evd_service_reject_connection(k) ==
  LET x == web.c[k] IN
  /\ x.hint \in Service \ web.dead
  /\ Put(k, g_io_stream_close([x EXCEPT !.hint = NULL, !.vrefs = @ - 1]))

\* The handshake ends; an error closes the connection.
evd_service_connection_on_tls_started(k, ok, v) ==
  LET x == web.c[k]
      y == [x EXCEPT !.starter = NULL]
  IN  /\ x.starter # NULL
      /\ Put(k, IF ok THEN Routed(evd_service_validate_connection(y, x.starter, v), v)
                ELSE g_io_stream_close(y))

\* The peer hangs up, or the shutdown comes back as a hang-up.
HangUp(k) == web.c[k].open /\ Put(k, evd_http_connection_close(web.c[k]))

\* No service is busy with the connection.
Idle(x) ==
  x.reads = {} /\ x.flushes = 0 /\ ~x.shut /\ x.handler = NULL /\ x.hint = NULL /\ x.starter = NULL

\* The application moves an open connection: through the group, or by setting
\* the "group" property, which skips the group's own add.  Neither looks at
\* what is under way; `torn`: something was, and its end finds the connection in
\* another group (the flush of a response, evd_web_service_connection_on_flush).
Move(k, x) ==
  /\ web.c[k].open /\ web.moves < MaxMoves
  /\ web' = [web EXCEPT !.moves = @ + 1, !.c[k] = x]

Moved(x, unserved) ==
  [x EXCEPT !.moved = TRUE, !.torn = x.torn \/ ~Idle(x), !.unserved = unserved]

evd_io_stream_group_add(k, g, v) ==
  LET x == Moved(web.c[k], FALSE) IN
  /\ g \notin web.dead \cup {x.group}
  /\ Move(k, IF g = "grp" THEN evd_io_stream_set_group(x, g)
             ELSE Routed(evd_service_add(x, g, v), v))

evd_io_stream_set_property(k, g) ==
  /\ g \notin web.dead
  /\ Move(k, evd_io_stream_set_group(Moved(web.c[k], TRUE), g))

\* The last reference to a closed connection is dropped: it leaves its group and
\* the service it was to go back to (evd_web_service_on_conn_destroyed).
evd_io_stream_dispose(k) ==
  LET x == web.c[k] IN
  /\ ~x.open /\ k \notin web.new
  /\ x.vrefs = 0 /\ x.reads = {} /\ x.flushes = 0 /\ x.handler = NULL
  /\ Put(k, [Free EXCEPT !.open = FALSE, !.weak = x.weak \ {x.group},
                          !.throt = x.throt \ {x.group},
                          !.retweak = x.retweak \ {x.ret}])

\* A group is finalized.  A service is kept alive by those that read for it;
\* the application keeps one with handshakes under way.
Finalize(g) ==
  /\ g \in {"sel", "grp"} \ web.dead
  /\ \A k \in Conn : g # web.c[k].starter /\ \A rd \in web.c[k].reads : rd.by # g
  /\ web' = [web EXCEPT !.dead = @ \cup {g},
       !.c = [k \in Conn |->
                LET x == web.c[k]
                    y == IF g \in x.weak THEN on_group_destroyed(x) ELSE x
                IN  IF g \in x.retweak THEN [y EXCEPT !.ret = NULL, !.retweak = @ \ {g}]
                    ELSE y]]

Next ==
  \E k \in Conn :
    \/ \E v \in Env :
         \/ evd_service_listener_on_new_connection(k, v)
         \/ evd_web_service_conn_on_headers_read(k, v)
         \/ evd_web_service_connection_on_flush(k, v)
         \/ evd_web_service_respond(k, v)
         \/ evd_service_accept_connection(k, v)
         \/ \E ok \in BOOLEAN : evd_service_connection_on_tls_started(k, ok, v)
         \/ \E g \in Group : evd_io_stream_group_add(k, g, v)
    \/ \E r \in Requests : evd_http_connection_on_read_headers(k, r)
    \/ \E long \in BOOLEAN : HeadersFail(k, long)
    \/ evd_service_reject_connection(k)
    \/ HangUp(k)
    \/ evd_io_stream_dispose(k)
    \/ \E g \in Group \cup {NULL} : evd_io_stream_set_property(k, g)
    \/ \E g \in Group : Finalize(g)

Spec == Init /\ [][Next]_web

(***************************************************************************)
(* Properties.                                                             *)
(***************************************************************************)

TypeOK ==
  /\ web.dead \subseteq Group /\ web.new \subseteq Conn /\ web.moves \in 0..MaxMoves
  /\ \A k \in Conn :
       LET x == web.c[k] IN
       /\ DOMAIN x = DOMAIN Free
       /\ x.group \in (Group \ web.dead) \cup {NULL}
       /\ x.ret \in (WebLike \ web.dead) \cup {NULL}
       /\ x.request \in Requests \cup {NULL}
       /\ x.vrefs \in Nat /\ x.connweak \in Nat /\ x.flushes \in Nat
       /\ \A rd \in x.reads : rd.ans \in {"wait", "ok", "bad", "closed", "busy"}

Holds(P(_)) == \A k \in Conn : P(web.c[k])

\* P of the connections the application did not tear from a service at work; of
\* a torn one these properties do not hold.
Whole(P(_)) == \A k \in Conn : web.c[k].torn \/ P(web.c[k])

\* A stream has a weak reference on exactly the group it is in: a group that
\* goes away never notifies a stream that has left it, and always notifies
\* its members (evd_io_stream_set_group, dispose, on_group_destroyed).
GroupRefs == Holds(LAMBDA x : x.weak = {x.group} \ {NULL})

\* The throttles in force are those of the group the connection is in; only
\* those of a group that died may be left over (on_group_changed).
ThrottlesFollow ==
  Holds(LAMBDA x : {x.group} \ {NULL} \subseteq x.throt /\ x.throt \subseteq {x.group} \cup web.dead)

\* The service a connection goes back to holds exactly one weak reference for
\* it, and the connection one while it is lent and not yet returned; that one
\* stays behind only when the lender dies.
ReturnRefs ==
  Holds(LAMBDA x : /\ x.retweak = {x.ret} \ {NULL}
                   /\ x.connweak \in {0, 1}
                   /\ x.ret # NULL => x.connweak = 1
                   /\ x.ret = NULL /\ x.connweak = 1 => "sel" \in web.dead)

\* No reader finds another one at work, unless a close was refused before: a
\* connection is returned once per request.  Excepted: a torn connection, which
\* its new service reads while the old one still does or answers.
NoDoubleRead ==
  Whole(LAMBDA x : (\E rd \in x.reads : rd.ans = "busy") => x.stuck)

\* A connection in a web service is never forgotten: it is being read, its
\* request is being handled or answered, or a decision, a handshake or its
\* end is due.  Excepted: it was put there behind the service's back or could
\* not be handed on (unserved), its close was refused (stuck), or the flush that
\* was to bring it back ended in another group (torn).
NeverForgotten ==
  Whole(LAMBDA x : x.open /\ x.group \in WebLike /\ ~x.unserved /\ ~x.stuck =>
          \/ x.reads # {} \/ x.handler # NULL \/ x.flushes > 0
          \/ x.hint # NULL \/ x.starter # NULL \/ x.shut)

\* Every response answers the last request read, once: a handler runs with all
\* earlier requests answered, and nothing more is read before that.  A
\* connection the application took over may bring a request answered before.
OneAnswerEach ==
  Holds(LAMBDA x : ~x.moved =>
          /\ x.replies <= x.asked
          /\ x.handler # NULL => x.replies = x.asked - 1
          /\ (\E rd \in x.reads : rd.ans = "wait") => x.replies = x.asked)

\* While the decision on a connection, or its handshake, is under way nobody
\* reads from it; a service with "tls-autostart" reads nothing in the clear.
\* Excepted: a connection torn from its reader is still read while it is decided on.
NotBeforeValidated ==
  Whole(LAMBDA x : \A rd \in x.reads : rd.ans = "wait" =>
          /\ x.hint = NULL /\ x.starter = NULL
          /\ rd.by \in Autostart => x.tls)

\* The references for pending decisions are given back; a second decision on a
\* torn connection takes the place of the first, whose reference is left over.
PendingRefs == Whole(LAMBDA x : x.vrefs = IF x.hint # NULL THEN 1 ELSE 0)

\* A handler never sees a request of an origin its service denies, whichever
\* selector let it pass.  Excepted: on a torn connection another request may be
\* read while the handler is at work.
OriginsKept ==
  Whole(LAMBDA x : x.handler \in DenyCross /\ x.request # NULL => ~x.request.cross)

\* Connections, groups, lenders and pending decisions refer to each other
\* exactly as long as they should.
OwnersKept == GroupRefs /\ ThrottlesFollow /\ ReturnRefs /\ PendingRefs

\* Every request is read by one service and answered once, and no connection
\* is left over.
RequestsKept == NoDoubleRead /\ NeverForgotten /\ OneAnswerEach

\* Nothing is read from a connection, and no request handled, that the service
\* has not let in.
AdmissionKept == NotBeforeValidated /\ OriginsKept

\* "no service found, respond with a 403 Forbidden message and close the
\* connection" (evd-web-selector.c:197): once the response is flushed the
\* connection is on its way out.
ForbiddenCloses ==
  Holds(LAMBDA x : x.refused => x.flushes > 0 \/ x.shut \/ ~x.open)
=============================================================================
