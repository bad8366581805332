----------------------------- MODULE EvdJsonrpc -----------------------------
(***************************************************************************)
(* JSON-RPC: EvdJsonrpc (evd-jsonrpc.c) with its table of invocations and  *)
(* its filter, on two sides that call each other through the peers of a    *)
(* transport (EvdIpcMechanism, evd-ipc-mechanism.c), or as the client and  *)
(* the server of HTTP requests (evd-jsonrpc-http-client.c and              *)
(* evd-jsonrpc-http-server.c).                                             *)
(*                                                                         *)
(* The state is one record: what a C function does to it is an operator    *)
(* from states to states.  Of a message its kind, its id and the call it   *)
(* is about (tag) are kept, of the filter whether it is within a text and  *)
(* of which message, and whether an error left a piece in its cache.       *)
(***************************************************************************)
EXTENDS Integers, Sequences, FiniteSets, Functions, TLC

CONSTANTS
  Setups,    \* how the two sides are used, see Init
  MaxUse     \* changes of the transports in use at most

VARIABLE rpc

Sides == {"a", "b"}
Other(e) == CHOOSE o \in Sides : o # e
None == "none"
Peer == 0          \* a context that is a peer; else it is the number of a request
Error == <<"error">>
Garbage == [kind |-> "garbage", id |-> 0, tag |-> <<>>]
NoMessage == [kind |-> None, id |-> 0, tag |-> <<>>]
Filter(at, held) == [at |-> at, held |-> held]

(***************************************************************************)
(* rpc.at[e] is the EvdJsonrpc of side e: counter and invocations of the   *)
(* source; a local invocation has the number of its call, a remote one the *)
(* id of the caller, what it was called with (tag) and the context.        *)
(* calls[n] is what came of the n-th call of e, served the tags that       *)
(* reached method_call_cb, unparsed that a packet was no JSON text and     *)
(* confused that a result was for a remote invocation.                     *)
(***************************************************************************)

evd_jsonrpc_init ==
  [ counter |-> 0, invocations |-> <<>>, filter |-> Filter("clean", NoMessage), calls |-> <<>>, served |-> <<>>,
    noted |-> 0, unparsed |-> FALSE, confused |-> FALSE, transports |-> 1, uses |-> 0 ]

Without(f, i) == Restrict(f, DOMAIN f \ {i})

\* The call with number n is completed.
Complete(s, e, n, outcome) == [s EXCEPT !.at[e].calls[n] = Append(@, outcome)]

\* Deviation: the invocation stays.
ReportsOnly(s, e, id) ==
  LET known == s.at[e].invocations
  IN IF id \notin DOMAIN known \/ ~known[id].local THEN s
     ELSE Complete(s, e, known[id].call, Error)

\* A remote call is only forgotten: its caller learns nothing.
evd_jsonrpc_transport_error(s, e, id) ==
  LET known == s.at[e].invocations
      gone == [s EXCEPT !.at[e].invocations = Without(@, id)]
  IN IF id \notin DOMAIN known THEN s
     ELSE IF known[id].local THEN Complete(gone, e, known[id].call, Error) ELSE gone

(***************************************************************************)
(* Sending.  evd_peer_send_text takes any message: it is delivered, or     *)
(* kept for ever when the peer is gone.                                    *)
(***************************************************************************)

evd_jsonrpc_build_message(kind, id, tag) == [kind |-> kind, id |-> id, tag |-> tag]

\* jsonrpc_on_send of the client: the request waits for a connection.
ClientSends(s, n, msg, id) ==
  [s EXCEPT !.http[n] = [@ EXCEPT !.stage = "connecting", !.msg = msg, !.id = id]]

\* evd_web_service_respond: fails when the connection is closed.
Respond(s, n, status, msg) ==
  [s EXCEPT !.http[n].responses = Append(@, [status |-> status, body |-> "whole", msg |-> msg])]

\* jsonrpc_on_send of the server.
ServerSends(s, e, n, msg, id) ==
  IF s.http[n].broken # "no" THEN evd_jsonrpc_transport_error(s, e, id)
  ELSE Respond(s, n, 200, msg)

evd_jsonrpc_transport_write(s, e, msg, context, id) ==
  IF context = Peer THEN [s EXCEPT !.link[e] = Append(@, msg)]
  ELSE IF e = "a" THEN ClientSends(s, context, msg, id)
  ELSE ServerSends(s, e, context, msg, id)

evd_jsonrpc_call_method(s, e, context) ==
  LET id == s.at[e].counter + 1
      n == Len(s.at[e].calls) + 1
      added == [s EXCEPT !.at[e].counter = id, !.at[e].calls = Append(@, <<>>),
                         !.at[e].invocations = @ @@ (id :> [local |-> TRUE, call |-> n])]
  IN evd_jsonrpc_transport_write(added, e, evd_jsonrpc_build_message("call", id, <<e, n>>), context, id)

evd_jsonrpc_send_notification(s, e) ==
  evd_jsonrpc_transport_write(s, e, evd_jsonrpc_build_message("notification", 0, <<e, 0>>), Peer, 0)

evd_jsonrpc_respond_full(s, e, id) ==
  LET inv == s.at[e].invocations[id]
  IN IF id \notin DOMAIN s.at[e].invocations THEN s
     ELSE evd_jsonrpc_transport_write([s EXCEPT !.at[e].invocations = Without(@, id)], e,
            evd_jsonrpc_build_message("result", inv.remote_id, inv.tag), inv.context, id)

(***************************************************************************)
(* Receiving.                                                              *)
(***************************************************************************)

\* jsonrpc_on_method_call of the server, and the callback of a peer: a server
\* without one refuses, and keeps the invocation.
MethodCallback(s, e, id, tag, context) ==
  IF s.setup.server = "deaf" THEN Respond(s, context, 500, NoMessage)
  ELSE [s EXCEPT !.at[e].served = Append(@, [id |-> id, tag |-> tag])]

evd_jsonrpc_on_method_called(s, e, msg, context) ==
  LET id == s.at[e].counter + 1
      inv == [local |-> FALSE, remote_id |-> msg.id, tag |-> msg.tag, context |-> context]
  IN MethodCallback([s EXCEPT !.at[e].counter = id,
                              !.at[e].invocations = @ @@ (id :> inv)], e, id, msg.tag, context)

\* Deviation: answers come in the order of the calls.
AnswersOldest(s, e, msg) ==
  LET known == s.at[e].invocations
      ids == {id \in DOMAIN known : known[id].local}
      id == CHOOSE i \in ids : \A j \in ids : i <= j
  IN IF ids = {} THEN s
     ELSE Complete([s EXCEPT !.at[e].invocations = Without(@, id)], e, known[id].call, msg.tag)

evd_jsonrpc_on_method_result(s, e, msg) ==
  LET known == s.at[e].invocations
      gone == [s EXCEPT !.at[e].invocations = Without(@, msg.id)]
  IN IF msg.id \notin DOMAIN known THEN s
     ELSE IF ~known[msg.id].local THEN [gone EXCEPT !.at[e].confused = TRUE]
     ELSE Complete(gone, e, known[msg.id].call, msg.tag)

evd_jsonrpc_on_notification(s, e) == [s EXCEPT !.at[e].noted = @ + 1]

\* What is neither is reported and dropped.
evd_jsonrpc_on_json_packet(s, e, msg, context) ==
  CASE msg.kind = "result" -> evd_jsonrpc_on_method_result(s, e, msg)
    [] msg.kind = "call" -> evd_jsonrpc_on_method_called(s, e, msg, context)
    [] msg.kind = "notification" -> evd_jsonrpc_on_notification(s, e)
    [] OTHER -> s

\* What evd_json_filter_feed_len makes of the body of msg: "whole", "part" (it
\* ends within the text), "bad" (no JSON), and a whole one with more behind it
\* that is refused ("junk") or begins another text ("tail").  Within a text, what
\* comes goes on in it, is refused, or ends it: a message pieced together is the
\* one that was begun, or some other.  An error leaves the piece in the cache:
\* it is put before the next text, which is no JSON then.
evd_json_filter_feed_len(filter, msg, body) ==
  LET Out(to, text, refused, pieced) ==
        [filter |-> to, text |-> text, refused |-> refused, pieced |-> pieced]
      clean == Filter("clean", NoMessage)
      inside == Filter("inside", [NoMessage EXCEPT !.kind = "other"])
      text == IF filter.at = "stale" THEN Garbage ELSE msg
      begun == {filter.held, inside.held}
  IN CASE body = "empty" -> {Out(filter, NoMessage, FALSE, FALSE)}
       [] filter.at = "inside" ->
            {Out(filter, NoMessage, FALSE, FALSE), Out(Filter("stale", NoMessage), NoMessage, TRUE, FALSE)}
            \cup {Out(to, held, FALSE, TRUE) : to \in {clean, inside}, held \in begun}
            \cup {Out(clean, held, TRUE, TRUE) : held \in begun}
       [] body = "whole" -> {Out(clean, text, FALSE, FALSE)}
       [] body = "part" -> {Out(Filter("inside", text), NoMessage, FALSE, FALSE)}
       [] body = "bad" -> {Out(filter, NoMessage, TRUE, FALSE)}
       [] body = "junk" -> {Out(clean, text, TRUE, FALSE)}
       [] body = "tail" -> {Out(inside, text, FALSE, FALSE)}

\* The states after a message, and whether it was refused.
evd_jsonrpc_transport_receive(s, e, msg, body, context, id) ==
  {LET fed == [s EXCEPT !.at[e].filter = out.filter,
                        !.at[e].unparsed = @ \/ out.text = Garbage,
                        !.http = [n \in DOMAIN @ |->
                                   [@[n] EXCEPT !.pieced = @ \/ (n = context /\ out.pieced)]]]
       got == evd_jsonrpc_on_json_packet(fed, e, out.text, context)
   IN [state |-> IF out.refused THEN evd_jsonrpc_transport_error(got, e, id) ELSE got,
       refused |-> out.refused]
   : out \in evd_json_filter_feed_len(s.at[e].filter, msg, body)}

(***************************************************************************)
(* Peers: each handler that is connected gets a message once.              *)
(***************************************************************************)

evd_ipc_mechanism_use_transport(s, e) == [s EXCEPT !.at[e].transports = IF @ > 0 THEN @ ELSE 1]
evd_ipc_mechanism_unuse_transport(s, e) == [s EXCEPT !.at[e].transports = 0]

transport_on_receive(s, e, msg, body) ==
  {r.state : r \in evd_jsonrpc_transport_receive(s, e, msg, body, Peer, 0)}

Use(e) ==
  /\ rpc.setup.kind = "peers" /\ rpc.setup.faults /\ rpc.at[e].uses < MaxUse
  /\ LET s == [rpc EXCEPT !.at[e].uses = @ + 1]
     IN rpc' \in {evd_ipc_mechanism_use_transport(s, e), evd_ipc_mechanism_unuse_transport(s, e)}

PeerCall(e) ==
  /\ rpc.setup.kind = "peers" /\ Len(rpc.at[e].calls) < rpc.setup.calls[e]
  /\ rpc' = evd_jsonrpc_call_method(rpc, e, Peer)

Notify(e) ==
  /\ rpc.setup.kind = "peers" /\ rpc.at[e].counter = 0 /\ rpc.link[e] = <<>>
  /\ rpc.at[Other(e)].noted = 0 /\ ~rpc.closed
  /\ rpc' = evd_jsonrpc_send_notification(rpc, e)

Deliver(e) ==
  /\ rpc.setup.kind = "peers" /\ ~rpc.closed /\ rpc.link[Other(e)] # <<>>
  /\ LET msg == Head(rpc.link[Other(e)])
         s == [rpc EXCEPT !.link[Other(e)] = Tail(@)]
     IN \E body \in rpc.setup.bodies :
          LET once == transport_on_receive(s, e, msg, body)
              twice == UNION {transport_on_receive(t, e, msg, body) : t \in once}
          IN rpc' \in CASE s.at[e].transports = 0 -> {s}
                        [] s.at[e].transports = 1 -> once
                        [] OTHER -> twice

\* The peer is closed: nothing more gets through, and unless somebody keeps it
\* it is freed.
PeerCloses ==
  /\ rpc.setup.kind = "peers" /\ rpc.setup.faults /\ ~rpc.closed
  /\ rpc' = [rpc EXCEPT !.closed = TRUE]

\* The application answers a call it got, at any time, or again.  The invocation
\* has no reference to its peer: an answer to one that was freed is undefined.
Answer(e) ==
  \E i \in 1..Len(rpc.at[e].served) :
    LET id == rpc.at[e].served[i].id
        known == rpc.at[e].invocations
    IN \/ rpc' = evd_jsonrpc_respond_full(rpc, e, id)
       \/ /\ id \in DOMAIN known /\ known[id].context = Peer /\ rpc.closed
          /\ rpc' = [rpc EXCEPT !.undefined = TRUE]

(***************************************************************************)
(* HTTP.  http[n] is the n-th request: stage is where the client is with   *)
(* it, locked that the connection may not close under it, broken whether   *)
(* the other end hung up or the connection was lost, request what has      *)
(* become of it at the server, responses what the server wrote, cut that a *)
(* content ended early and nobody was told, pieced that it ended the text  *)
(* of an earlier one.                                                      *)
(***************************************************************************)

Request == [ stage |-> "idle", msg |-> NoMessage, id |-> 0, locked |-> FALSE, broken |-> "no",
             request |-> None, body |-> "whole", post |-> TRUE, responses |-> <<>>,
             recycled |-> FALSE, cut |-> FALSE, pieced |-> FALSE ]

Failed(s, n) ==
  [evd_jsonrpc_transport_error(s, "a", s.http[n].id) EXCEPT !.http[n].stage = "done"]

evd_jsonrpc_http_client_call_method ==
  /\ rpc.setup.kind = "http" /\ Len(rpc.at["a"].calls) < rpc.setup.calls["a"]
  /\ rpc' = evd_jsonrpc_call_method(rpc, "a", Len(rpc.at["a"].calls) + 1)

do_request(s, n) == [s EXCEPT !.http[n].stage = "sending", !.http[n].locked = TRUE]

on_connection(n) ==
  /\ rpc.http[n].stage = "connecting"
  /\ \/ rpc' = do_request(rpc, n)
     \/ rpc' = Failed(rpc, n)

\* The headers and then the content are written: the connection stays locked
\* when one of them fails.  On a broken one they may still be taken.
on_request_sent(n) ==
  /\ rpc.http[n].stage = "sending"
  /\ \/ rpc.http[n].broken # "no" /\ rpc' = Failed(rpc, n)
     \/ rpc' = [rpc EXCEPT !.http[n].stage = "waiting",
                           !.http[n].request = IF rpc.http[n].broken = "no" THEN "sent" ELSE None]

evd_connection_unlock_close(s, n) == [s EXCEPT !.http[n].locked = FALSE]

\* Locked, the connection only remembers that the other end hung up: reading
\* ends with a response or when the connection is lost, and else never.
on_response_headers(n) ==
  LET r == rpc.http[n]
      After(s) == evd_connection_unlock_close(s, n)
  IN /\ r.stage = "waiting" /\ r.locked
     /\ \/ r.broken = "lost" /\ rpc' = After(Failed(rpc, n))
        \/ /\ r.responses # <<>>
           /\ rpc' = After(IF Head(r.responses).status = 200
                           THEN [rpc EXCEPT !.http[n].stage = "reading"] ELSE Failed(rpc, n))

\* The contents a reader may get for body, and whether they were cut: on a broken
\* connection what was read so far is taken for all
\* (evd_http_connection_process_read_content).
Contents(n, body) ==
  LET begins == IF body \in {"junk", "tail"} THEN {"part", "whole"} ELSE {"part"}
  IN {<<body, FALSE>>}
     \cup IF rpc.http[n].broken = "no" \/ body = "empty" THEN {} ELSE begins \X {TRUE}

\* Deviation: a response that is no JSON is dropped.
IgnoresContent(n) ==
  LET r == rpc.http[n]
      s == [rpc EXCEPT !.http[n].stage = "done", !.http[n].recycled = rpc.setup.keepalive]
      response == Head(r.responses)
  IN /\ r.stage = "reading"
     /\ rpc' \in {x.state : x \in evd_jsonrpc_transport_receive(
                                    s, "a", response.msg, response.body, n, 0)}

\* The content, or none when the connection broke under it.
on_content_read(n) ==
  LET r == rpc.http[n]
      s == [rpc EXCEPT !.http[n].stage = "done", !.http[n].recycled = rpc.setup.keepalive]
      response == Head(r.responses)
  IN /\ r.stage = "reading"
     /\ \/ r.broken # "no" /\ rpc' = evd_jsonrpc_transport_error(s, "a", r.id)
        \/ \E c \in Contents(n, response.body) :
             rpc' \in {x.state : x \in evd_jsonrpc_transport_receive(
                          [s EXCEPT !.http[n].cut = @ \/ c[2]], "a", response.msg, c[1], n, r.id)}

\* A client of another kind: any method and any content.
OtherClient(n) ==
  /\ rpc.setup.kind = "server" /\ rpc.http[n].stage = "idle"
  /\ \E body \in rpc.setup.bodies, post \in BOOLEAN :
       rpc' = [rpc EXCEPT !.http[n] = [@ EXCEPT !.stage = "waiting", !.request = "sent",
                 !.msg = evd_jsonrpc_build_message("call", 1, <<"a", n>>),
                 !.body = body, !.post = post]]

\* evd_web_service_respond with an error: nobody learns when it fails.
Refuse(s, n) == IF s.http[n].broken # "no" THEN s ELSE Respond(s, n, 500, NoMessage)

\* on_request_headers and on_content_read of the server.
on_request_headers(n) ==
  LET r == rpc.http[n]
      s == [rpc EXCEPT !.http[n].request = "read"]
  IN /\ rpc.setup.server # "other" /\ r.request = "sent"
     /\ \/ ~r.post /\ rpc' = Refuse(s, n)
        \/ r.post /\ r.broken # "no" /\ rpc' = s
        \/ /\ r.post
           /\ \E c \in Contents(n, r.body) :
                rpc' \in {IF x.refused THEN Refuse(x.state, n) ELSE x.state :
                          x \in evd_jsonrpc_transport_receive(
                                  [s EXCEPT !.http[n].cut = @ \/ c[2]], "b", r.msg, c[1], n, 0)}

\* A server of another kind: any status, any content, and with a result the
\* one for the request, or for another.
OtherServer(n) ==
  /\ rpc.setup.server = "other" /\ rpc.http[n].request = "sent"
  /\ rpc.http[n].broken = "no"
  /\ \E status \in {200, 500}, body \in rpc.setup.bodies, kind \in rpc.setup.answers :
       rpc' = [rpc EXCEPT !.http[n].request = "read",
                 !.http[n].responses =
                   <<[status |-> status, body |-> body,
                      msg |-> evd_jsonrpc_build_message(kind, rpc.http[n].msg.id, <<"a", n>>)]>>]

Break(n) ==
  /\ rpc.setup.kind # "peers" /\ rpc.http[n].stage \notin {"idle", "connecting", "done"}
  /\ \E how \in {"hangup", "lost"} \ {rpc.http[n].broken} :
       /\ rpc.http[n].broken # "lost"
       /\ rpc' = [rpc EXCEPT !.http[n].broken = how]

(***************************************************************************)
(* The system.  A setup: kind, the calls of a side, whether a peer may go  *)
(* and the transports in use change (faults), what is behind the messages  *)
(* or in the contents (bodies, answers), and the server.                   *)
(***************************************************************************)

Init ==
  \E setup \in Setups :
    rpc = [ setup |-> setup, at |-> [e \in Sides |-> evd_jsonrpc_init], link |-> [e \in Sides |-> <<>>],
            closed |-> FALSE, undefined |-> FALSE, http |-> [n \in 1..setup.calls["a"] |-> Request] ]

Requests == DOMAIN rpc.http

Progress ==
  /\ ~rpc.undefined
  /\ \/ \E e \in Sides : Deliver(e) \/ Answer(e)
     \/ \E n \in Requests : on_connection(n) \/ on_request_sent(n) \/ on_response_headers(n)
                            \/ on_content_read(n) \/ on_request_headers(n) \/ OtherServer(n)

Next ==
  \/ Progress
  \/ /\ ~rpc.undefined
     /\ \/ \E e \in Sides : Use(e) \/ PeerCall(e) \/ Notify(e)
        \/ PeerCloses
        \/ evd_jsonrpc_http_client_call_method
        \/ \E n \in Requests : OtherClient(n) \/ Break(n)

Spec == Init /\ [][Next]_rpc

\* The main loops run, applications answer what they are asked, and so do
\* other servers.
FairSpec == Spec /\ WF_rpc(Progress)

(***************************************************************************)
(* Properties.                                                             *)
(***************************************************************************)

CallsOf(e) == DOMAIN rpc.at[e].calls
Local(e) == {id \in DOMAIN rpc.at[e].invocations : rpc.at[e].invocations[id].local}

\* Ids are the counter's, and a call is without an answer exactly as long as it
\* is in the table, once (evd_jsonrpc_call_method, evd_jsonrpc_transport_error).
TypeOK ==
  \A e \in Sides :
    /\ DOMAIN rpc.at[e].invocations \subseteq 1..rpc.at[e].counter
    /\ rpc.at[e].filter.at \in {"clean", "inside", "stale"}
    /\ \A n \in CallsOf(e) :
         Cardinality({id \in Local(e) : rpc.at[e].invocations[id].call = n})
           = IF rpc.at[e].calls[n] = <<>> THEN 1 ELSE 0

\* A call is answered once, with the result of that very call or with an error,
\* whatever the order of answers, errors and late responses.
AnsweredOnce ==
  \A e \in Sides : \A n \in CallsOf(e) :
    Len(rpc.at[e].calls[n]) <= 1 /\ Range(rpc.at[e].calls[n]) \subseteq {Error, <<e, n>>}

\* A method is called once for a call, through whatever was done with the
\* transports (evd_ipc_mechanism_use_transport).
ServedOnce ==
  \A e \in Sides : \A i, j \in DOMAIN rpc.at[e].served :
    rpc.at[e].served[i].tag = rpc.at[e].served[j].tag => i = j

\* The calls of both sides share one table, but a result never finds the
\* invocation of a remote call there: it has no result to complete
\* (evd_jsonrpc_on_method_result refs it).
ResultForCall == \A e \in Sides : ~rpc.at[e].confused

\* The server answers a request once, and a result goes to the connection the
\* call came from, unless the content was refused after a call was read from it,
\* or ended the text of an earlier request: the filter is one for all of them.
RespondsOnce ==
  rpc.setup.server # "other" =>
    \A n \in Requests :
      ~rpc.http[n].pieced =>
      /\ rpc.http[n].body # "junk" => Len(rpc.http[n].responses) <= 1
      /\ \A i \in DOMAIN rpc.http[n].responses :
           rpc.http[n].responses[i].status = 200 => rpc.http[n].responses[i].msg.tag = <<"a", n>>

\* A connection goes back to the pool unlocked, and a lock is left only on one
\* that broke (evd_connection_lock_close, do_request).
LockReleased ==
  \A n \in Requests :
    rpc.http[n].stage = "done" =>
      /\ rpc.http[n].recycled => ~rpc.http[n].locked
      /\ rpc.http[n].locked => rpc.http[n].broken # "no"

\* An answer goes to a peer that is there, unless it was closed before: the
\* context of an invocation has no reference (evd_jsonrpc_on_method_called).
PeersThere == rpc.undefined => rpc.closed

\* Calls, results and connections are matched one to one.
CallsServed == AnsweredOnce /\ ServedOnce /\ ResultForCall /\ RespondsOnce /\ LockReleased
               /\ PeersThere

\* A request on a connection that was locked when the other end hung up, with no
\* response: nothing ends its reading, and there is no timeout.
Hung(n) ==
  rpc.http[n].stage = "waiting" /\ rpc.http[n].broken = "hangup" /\ rpc.http[n].responses = <<>>

\* Every call is answered where peers stay and messages are whole, and by HTTP
\* whatever breaks, as long as a content is not empty or about something else:
\* there comes a time when none is left without an answer.  Except a call whose
\* connection hung up while it was locked, and all of them after a content that
\* was cut short: its piece stays in the filter they share.
CallsAnswered ==
  <>[](rpc.setup.reliable =>
         \A e \in Sides : \A n \in CallsOf(e) :
           \/ rpc.at[e].calls[n] # <<>>
           \/ rpc.setup.kind = "http" /\ (Hung(n) \/ \E m \in Requests : rpc.http[m].cut))

\* "g_assert (root != NULL);" (evd-jsonrpc.c:401): what the filter hands over
\* is JSON.
PacketIsJson == \A e \in Sides : ~rpc.at[e].unparsed
=============================================================================
