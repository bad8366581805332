--------------------------- MODULE EvdDBusBridge ---------------------------
(***************************************************************************)
(* D-Bus for peers: the bridge (evd-dbus-bridge.c) takes the commands of a *)
(* peer and answers them by their serial; the agent (evd-dbus-agent.c)     *)
(* keeps for each object, here a peer, the connections, proxies, names and *)
(* registered objects it has on a bus, and shares bus connections between  *)
(* objects through a global cache.                                         *)
(*                                                                         *)
(* The state is one record: what a C function does to it is an operator    *)
(* from states to states.  All connections are to one address, and all     *)
(* objects are registered at one path with one interface.                  *)
(***************************************************************************)
EXTENDS Integers, Sequences, FiniteSets, FiniteSetsExt, Functions, TLC

CONSTANTS
  Objects,    \* the peers
  Setups      \* what happens at most: see Command, BusCalls and Fault

VARIABLE dbus

Without(f, S) == Restrict(f, DOMAIN f \ S)

(***************************************************************************)
(* dbus.conn_data[c]: a ConnData, open while the bus connection is.        *)
(* dbus.at[o]: the ObjectData of o.  A proxy, a name and a registered      *)
(* object have the id of their connection and its ConnData.  reg_objs is   *)
(* keyed by bus connection and path, here by the ConnData.                 *)
(*                                                                         *)
(* registered: what the bus connections have registered.  asked: calls of  *)
(* registered objects that came from the bus, what became of the peer's    *)
(* return of each (is) and the call whose return the caller got (got).     *)
(* pending: completions the main loop is yet to deliver.  sent: the        *)
(* commands of a peer; answers[n]: the answers to the nth; told: the ids   *)
(* that it knows; early: an event came before the id it is about; called:  *)
(* the proxies that method calls were for, and the proxies that were       *)
(* called; guessed: a peer named a connection before it was told of it;    *)
(* undefined: something freed was used, and anything may follow.           *)
(***************************************************************************)

setup_object_data ==
  [ conns |-> <<>>, conn_counter |-> 0, proxies |-> <<>>, proxy_counter |-> 0,
    owned_names |-> <<>>, reg_objs |-> <<>>, reg_objs_by_id |-> <<>>, gone |-> FALSE,
    sent |-> <<>>, answers |-> <<>>, told |-> {} ]

\* The cache is asked to forget the address, whoever has it there.
evd_dbus_agent_conn_data_unref(s, c) ==
  LET t == [s EXCEPT !.conn_data[c].ref_count = @ - 1]
  IN IF t.conn_data[c].ref_count > 0 THEN t
     ELSE [t EXCEPT !.conn_cache = 0, !.conn_data[c].freed = TRUE, !.conn_data[c].open = FALSE]

\* reg_objs is asked for another key than the one it has, and keeps its entry.
evd_dbus_agent_free_reg_obj_data(s, o, id) ==
  [s EXCEPT !.registered = Without(@, {s.at[o].reg_objs_by_id[id].bus}),
            !.at[o].reg_objs_by_id = Without(@, {id})]

\* The entries of a table that are over a bus connection.
Over(table, c) == {id \in DOMAIN table : table[id].bus = c}

\* Deviation: only what was made with this very connection id goes.
FreesOwnOnly(s, o, id) ==
  LET c == s.at[o].conns[id]
      Mine(f) == {i \in DOMAIN f : f[i].conn = id}
      t == FoldSet(LAMBDA i, x : evd_dbus_agent_free_reg_obj_data(x, o, i), s,
                   Mine(s.at[o].reg_objs_by_id))
  IN evd_dbus_agent_conn_data_unref(
       [t EXCEPT !.at[o].conns = Without(@, {id}),
                 !.at[o].proxies = Without(@, Mine(@))], c)

\* What is over the same bus connection goes with it, whatever its id.
evd_dbus_agent_free_obj_conn_data(s, o, id) ==
  LET c == s.at[o].conns[id]
      t == FoldSet(LAMBDA i, x : evd_dbus_agent_free_reg_obj_data(x, o, i), s,
                   Over(s.at[o].reg_objs_by_id, c))
  IN evd_dbus_agent_conn_data_unref(
       [t EXCEPT !.at[o].conns = Without(@, {id}),
                 !.at[o].proxies = Without(@, Over(@, c)),
                 !.at[o].owned_names = Without(@, Over(@, c))], c)

evd_dbus_agent_bind_connection_to_object(s, o, c) ==
  LET id == s.at[o].conn_counter + 1
  IN [s EXCEPT !.at[o].conn_counter = id, !.at[o].conns = @ @@ (id :> c),
               !.conn_data[c].ref_count = @ + 1]

(***************************************************************************)
(* Messages to a peer.                                                     *)
(***************************************************************************)

\* evd_dbus_bridge_send of an answer: what it is, with the connection and the
\* subject it is about, and for a reply the id it tells.
Message(kind, serial, conn, subject, type, id) ==
  [kind |-> kind, serial |-> serial, conn |-> conn, subject |-> subject, type |-> type, id |-> id]
Reply(serial, conn, subject, type, id) == Message("reply", serial, conn, subject, type, id)
Bad(serial, conn, subject) == Message("error", serial, conn, subject, "none", 0)

evd_dbus_bridge_send(s, o, m) ==
  [s EXCEPT !.at[o].answers[m.serial] = Append(@, [kind |-> m.kind, conn |-> m.conn]),
            !.at[o].told = IF m.id = 0 THEN @ ELSE @ \cup {<<m.type, m.id>>}]

\* The closure has no reference to the peer.
evd_dbus_bridge_send_in_idle(s, o, m) ==
  [s EXCEPT !.pending = @ \cup {[op |-> "idle", object |-> o, message |-> m]}]

\* A name acquired or lost, a signal of a proxy, a call of a registered object.
Event(s, o, type, id) == [s EXCEPT !.early = @ \/ <<type, id>> \notin s.at[o].told]

(***************************************************************************)
(* The commands: serial is m.serial, conn and subject are what the message *)
(* has there.                                                              *)
(***************************************************************************)

Wait(s, op, o, m, bus) ==
  [s EXCEPT !.pending = @ \cup {[op |-> op, object |-> o, message |-> m, bus |-> bus]}]

\* evd_dbus_agent_get_connection, _get_proxy and _get_registered_object_data.
Held(s, o, conn) == conn \in DOMAIN s.at[o].conns
HasProxy(s, o, id) == id \in DOMAIN s.at[o].proxies
Registered(s, o, id) == id \in DOMAIN s.at[o].reg_objs_by_id

evd_dbus_bridge_on_new_connection(s, o, serial, id) ==
  evd_dbus_bridge_send(s, o, IF id = 0 THEN Bad(serial, 0, 0) ELSE Reply(serial, 0, 0, "conn", id))

evd_dbus_agent_new_connection(s, o, m) ==
  LET c == Len(s.conn_data) + 1
      t == [s EXCEPT !.conn_data = Append(@, [ref_count |-> 0, reuse |-> m.reuse,
                                              open |-> FALSE, freed |-> FALSE, dropped |-> FALSE])]
      bound == evd_dbus_agent_bind_connection_to_object(s, o, s.conn_cache)
  IN IF m.reuse /\ s.conn_cache # 0
     THEN Wait(bound, "reused", o, [serial |-> m.serial, id |-> bound.at[o].conn_counter],
               s.conn_cache)
     ELSE Wait(t, "connect", o, m, c)

evd_dbus_bridge_new_connection(s, o, m) ==
  IF m.valid THEN evd_dbus_agent_new_connection(s, o, m)
  ELSE evd_dbus_bridge_send_in_idle(s, o, Bad(m.serial, m.conn, 0))

evd_dbus_agent_close_connection(s, o, conn) ==
  IF Held(s, o, conn) THEN evd_dbus_agent_free_obj_conn_data(s, o, conn) ELSE s

evd_dbus_bridge_close_connection(s, o, m) ==
  evd_dbus_bridge_send_in_idle(evd_dbus_agent_close_connection(s, o, m.conn), o,
    IF Held(s, o, m.conn) THEN Reply(m.serial, m.conn, m.subject, "none", 0)
    ELSE Bad(m.serial, m.conn, m.subject))

Entry(s, o, m) == [conn |-> m.conn, bus |-> s.at[o].conns[m.conn]]

evd_dbus_agent_own_name(s, o, m) ==
  [s EXCEPT !.ids = @ + 1, !.at[o].owned_names = @ @@ (s.ids + 1 :> Entry(s, o, m))]

evd_dbus_bridge_own_name(s, o, m) ==
  IF ~m.valid \/ ~Held(s, o, m.conn) THEN evd_dbus_bridge_send(s, o, Bad(m.serial, m.conn, 0))
  ELSE evd_dbus_bridge_send(evd_dbus_agent_own_name(s, o, m), o,
         Reply(m.serial, m.conn, m.subject, "name", s.ids + 1))

\* Any id is taken.
evd_dbus_agent_unown_name(s, o, id) == [s EXCEPT !.at[o].owned_names = Without(@, {id})]

evd_dbus_bridge_unown_name(s, o, m) ==
  evd_dbus_bridge_send(evd_dbus_agent_unown_name(s, o, m.subject), o,
    Reply(m.serial, m.conn, m.subject, "none", 0))

evd_dbus_agent_register_object(s, o, m) ==
  LET id == s.ids + 1
      c == s.at[o].conns[m.conn]
  IN [s EXCEPT !.ids = id, !.registered = @ @@ (c :> [object |-> o, id |-> id]),
               !.at[o].reg_objs = (c :> id) @@ @,
               !.at[o].reg_objs_by_id =
                 @ @@ (id :> [conn |-> m.conn, bus |-> c, serial |-> 0, invocations |-> <<>>])]

evd_dbus_bridge_register_object(s, o, m) ==
  IF ~m.valid \/ ~Held(s, o, m.conn) \/ s.at[o].conns[m.conn] \in DOMAIN s.registered
  THEN evd_dbus_bridge_send(s, o, Bad(m.serial, m.conn, m.subject))
  ELSE evd_dbus_bridge_send(evd_dbus_agent_register_object(s, o, m), o,
         Reply(m.serial, m.conn, m.subject, "object", s.ids + 1))

evd_dbus_agent_unregister_object(s, o, id) ==
  IF Registered(s, o, id) THEN evd_dbus_agent_free_reg_obj_data(s, o, id) ELSE s

evd_dbus_bridge_unregister_object(s, o, m) ==
  evd_dbus_bridge_send(evd_dbus_agent_unregister_object(s, o, m.subject), o,
    IF Registered(s, o, m.subject) THEN Reply(m.serial, m.conn, m.subject, "none", 0)
    ELSE Bad(m.serial, m.conn, m.subject))

\* Without the connection the operation fails in idle.
evd_dbus_agent_new_proxy(s, o, m) ==
  IF Held(s, o, m.conn) THEN Wait(s, "proxy", o, m, s.at[o].conns[m.conn])
  ELSE Wait(s, "no_proxy", o, m, 0)

evd_dbus_bridge_new_proxy(s, o, m) ==
  IF m.valid THEN evd_dbus_agent_new_proxy(s, o, m)
  ELSE evd_dbus_bridge_send(s, o, Bad(m.serial, m.conn, 0))

evd_dbus_agent_close_proxy(s, o, id) == [s EXCEPT !.at[o].proxies = Without(@, {id})]

evd_dbus_bridge_close_proxy(s, o, m) ==
  evd_dbus_bridge_send(evd_dbus_agent_close_proxy(s, o, m.subject), o,
    IF HasProxy(s, o, m.subject) THEN Reply(m.serial, m.conn, m.subject, "none", 0)
    ELSE Bad(m.serial, m.conn, m.subject))

\* Called with the connection and the subject the other way round: it asks for
\* the proxy with the id of the connection, and answers for a connection with
\* the id of the proxy.  called is what was asked for and what was called.
evd_dbus_bridge_call_method(s, o, m) ==
  LET answer(kind) == Message(kind, m.serial, m.subject, m.conn, "none", 0)
  IN IF ~m.valid \/ ~HasProxy(s, o, m.conn)
     THEN evd_dbus_bridge_send(s, o, answer("error"))
     ELSE Wait([s EXCEPT !.called = @ \cup {<<m.subject, m.conn>>}],
               "call", o, answer("return"), s.at[o].proxies[m.conn].bus)

evd_dbus_agent_emit_signal(s, o, id) ==
  Registered(s, o, id) /\ s.conn_data[s.at[o].reg_objs_by_id[id].bus].open

\* A signal that is emitted is not answered.
evd_dbus_bridge_emit_signal(s, o, m) ==
  IF ~m.valid THEN evd_dbus_bridge_send(s, o, Bad(m.serial, m.conn, 0))
  ELSE IF evd_dbus_agent_emit_signal(s, o, m.subject) THEN s
  ELSE evd_dbus_bridge_send(s, o, Bad(m.serial, m.conn, m.subject))

evd_dbus_bridge_process_msg(s, o, m) ==
  CASE m.cmd = "new_connection" -> evd_dbus_bridge_new_connection(s, o, m)
    [] m.cmd = "close_connection" -> evd_dbus_bridge_close_connection(s, o, m)
    [] m.cmd = "own_name" -> evd_dbus_bridge_own_name(s, o, m)
    [] m.cmd = "unown_name" -> evd_dbus_bridge_unown_name(s, o, m)
    [] m.cmd = "register_object" -> evd_dbus_bridge_register_object(s, o, m)
    [] m.cmd = "unregister_object" -> evd_dbus_bridge_unregister_object(s, o, m)
    [] m.cmd = "new_proxy" -> evd_dbus_bridge_new_proxy(s, o, m)
    [] m.cmd = "close_proxy" -> evd_dbus_bridge_close_proxy(s, o, m)
    [] m.cmd = "call_method" -> evd_dbus_bridge_call_method(s, o, m)
    [] m.cmd = "emit_signal" -> evd_dbus_bridge_emit_signal(s, o, m)
    [] OTHER -> evd_dbus_bridge_send_in_idle(s, o, Bad(m.serial, m.conn, 0))

(***************************************************************************)
(* Completions.                                                            *)
(***************************************************************************)

evd_dbus_agent_on_new_dbus_connection(s, p, ok) ==
  LET t == evd_dbus_agent_bind_connection_to_object(
             [s EXCEPT !.conn_data[p.bus].open = TRUE], p.object, p.bus)
      u == IF p.message.reuse THEN [t EXCEPT !.conn_cache = p.bus] ELSE t
  IN IF ok
     THEN evd_dbus_bridge_on_new_connection(u, p.object, p.message.serial,
                                            u.at[p.object].conn_counter)
     ELSE evd_dbus_bridge_on_new_connection(evd_dbus_agent_conn_data_unref(s, p.bus), p.object,
                                            p.message.serial, 0)

evd_dbus_bridge_on_new_proxy(s, o, m, id) ==
  evd_dbus_bridge_send(s, o, IF id = 0 THEN Bad(m.serial, m.conn, m.subject)
                             ELSE Reply(m.serial, m.conn, m.subject, "proxy", id))

\* The connection may have been closed since: late is whether it was.
evd_dbus_agent_on_new_dbus_proxy(s, p, ok) ==
  LET o == p.object
      id == s.at[o].proxy_counter + 1
      late == ~Held(s, o, p.message.conn)
      t == [s EXCEPT !.at[o].proxy_counter = id,
                     !.at[o].proxies =
                       @ @@ (id :> [conn |-> p.message.conn, bus |-> p.bus, late |-> late])]
  IN IF ok THEN evd_dbus_bridge_on_new_proxy(t, o, p.message, id)
     ELSE evd_dbus_bridge_on_new_proxy(s, o, p.message, 0)

evd_dbus_proxy_on_call_method_return(s, p, ok) ==
  evd_dbus_bridge_send(s, p.object, [p.message EXCEPT !.kind = IF ok THEN @ ELSE "error"])

Completed(s, p, ok) ==
  CASE p.op = "connect" -> evd_dbus_agent_on_new_dbus_connection(s, p, ok)
    [] p.op = "proxy" -> evd_dbus_agent_on_new_dbus_proxy(s, p, ok)
    [] p.op = "call" -> evd_dbus_proxy_on_call_method_return(s, p, ok)
    [] p.op = "reused" ->
         evd_dbus_bridge_on_new_connection(s, p.object, p.message.serial, p.message.id)
    [] p.op = "no_proxy" -> evd_dbus_bridge_on_new_proxy(s, p.object, p.message, 0)
    [] OTHER -> evd_dbus_bridge_send(s, p.object, p.message)

\* The completion has something that was freed: the peer, to which the closure of
\* a message or of a method call has no reference, or the id of a shared
\* connection, which is the key of the table and goes when it is closed.
HasFreed(s, p) ==
  s.at[p.object].gone \/ (p.op = "reused" /\ ~Held(s, p.object, p.message.id))

\* What is over a bus connection that is closed, or cannot be opened, fails;
\* a proxy that asks nothing of the bus can still be made.
MayComplete(s, p, ok) ==
  CASE p.op = "connect" -> ok \/ s.faults > 0
    [] p.op = "proxy" -> ok \/ ~s.conn_data[p.bus].open
    [] p.op = "call" -> ok = s.conn_data[p.bus].open
    [] OTHER -> ok

(***************************************************************************)
(* Calls of registered objects.                                            *)
(***************************************************************************)

\* The invocation is kept under a key that is the serial of the object itself.
evd_dbus_agent_method_called(s, c) ==
  LET o == s.registered[c].object
      id == s.at[o].reg_objs[c]
      serial == s.at[o].reg_objs_by_id[id].serial + 1
  IN Event([s EXCEPT !.at[o].reg_objs_by_id[id].serial = serial,
                     !.at[o].reg_objs_by_id[id].invocations = (serial :> Len(s.asked) + 1) @@ @,
                     !.asked = Append(@, [object |-> o, id |-> id, serial |-> serial,
                                          is |-> "pending", got |-> 0])],
           o, "object", id)

\* Found when its serial is the one the object has now, which the key is: the
\* call it is of, or 0.
evd_dbus_agent_get_method_invocation(s, o, id, serial) ==
  LET obj == s.at[o].reg_objs_by_id[id]
  IN IF Registered(s, o, id) /\ serial \in DOMAIN obj.invocations /\ serial = obj.serial
     THEN obj.invocations[serial] ELSE 0

Found(s, i) ==
  evd_dbus_agent_get_method_invocation(s, s.asked[i].object, s.asked[i].id, s.asked[i].serial)

evd_dbus_agent_method_call_return(s, i) ==
  LET a == s.asked[i]
  IN [s EXCEPT !.asked[Found(s, i)].got = i,
               !.at[a.object].reg_objs_by_id[a.id].invocations = Without(@, {a.serial})]

\* A return that does not fit the method is refused, and may be tried again.
evd_dbus_bridge_call_method_return(s, i, valid) ==
  LET Is(t, what) == [t EXCEPT !.asked[i].is = what]
  IN IF Found(s, i) = 0 THEN Is(s, "refused")
     ELSE IF ~valid THEN Is(s, "invalid")
     ELSE Is(evd_dbus_agent_method_call_return(s, i), "returned")

evd_dbus_agent_on_object_destroyed(s, o) ==
  LET t == FoldSet(LAMBDA id, x : evd_dbus_agent_free_obj_conn_data(x, o, id), s,
                   DOMAIN s.at[o].conns)
  IN [t EXCEPT !.at[o].proxies = <<>>, !.at[o].owned_names = <<>>,
               !.at[o].reg_objs = <<>>, !.at[o].reg_objs_by_id = <<>>, !.at[o].gone = TRUE]

(***************************************************************************)
(* What happens.                                                           *)
(***************************************************************************)

\* The ids a peer names: those it was told of, which may be gone since; but they
\* are counted up, and a peer that guesses names any.
Named(s, o, type) ==
  LET counter == CASE type = "conn" -> s.at[o].conn_counter
                   [] type = "proxy" -> s.at[o].proxy_counter
                   [] OTHER -> s.ids
  IN {id \in 1..counter : s.guess \/ <<type, id>> \in s.at[o].told}

About(cmd) ==
  CASE cmd = "unown_name" -> "name"
    [] cmd \in {"unregister_object", "emit_signal"} -> "object"
    [] cmd \in {"close_proxy", "call_method"} -> "proxy"
    [] OTHER -> "none"

Messages(s, o) ==
  UNION {{[cmd |-> cmd, serial |-> Len(s.at[o].sent) + 1, conn |-> conn, subject |-> subject,
           valid |-> valid, reuse |-> reuse] :
             conn \in IF cmd \in {"new_connection", "unknown"} THEN {0} ELSE Named(s, o, "conn"),
             subject \in IF About(cmd) = "none" THEN {0} ELSE Named(s, o, About(cmd)),
             valid \in s.valid,
             reuse \in IF cmd = "new_connection" THEN BOOLEAN ELSE {FALSE}}
         : cmd \in s.kinds}

Command(o) ==
  /\ ~dbus.at[o].gone
  /\ Len(dbus.at[o].sent) < dbus.commands[o]
  /\ \E m \in Messages(dbus, o) :
       dbus' = evd_dbus_bridge_process_msg(
                 [dbus EXCEPT !.at[o].sent = Append(@, [cmd |-> m.cmd, conn |-> m.conn]),
                              !.at[o].answers = Append(@, <<>>),
                              !.guessed = @ \/ (m.conn # 0 /\ <<"conn", m.conn>> \notin dbus.at[o].told)],
                 o, m)

Complete(p) ==
  \/ HasFreed(dbus, p) /\ dbus' = [dbus EXCEPT !.pending = @ \ {p}, !.undefined = TRUE]
  \/ /\ ~HasFreed(dbus, p)
     /\ \E ok \in BOOLEAN :
          /\ MayComplete(dbus, p, ok)
          /\ dbus' = [Completed([dbus EXCEPT !.pending = @ \ {p}], p, ok)
                      EXCEPT !.faults = IF p.op = "connect" /\ ~ok THEN @ - 1 ELSE @]

\* The bus calls the method of an object that is registered.
BusCalls(c) ==
  /\ Len(dbus.asked) < dbus.calls
  /\ c \in DOMAIN dbus.registered
  /\ dbus.conn_data[c].open
  /\ dbus' = evd_dbus_agent_method_called(dbus, c)

\* The peer returns a call.
Return(i) ==
  /\ dbus.asked[i].is \in {"pending", "invalid"}
  /\ ~dbus.at[dbus.asked[i].object].gone
  /\ \E valid \in dbus.valid : dbus' = evd_dbus_bridge_call_method_return(dbus, i, valid)

\* The bus gives or takes a name; a proxy has a signal.
evd_dbus_agent_name_acquired(o) ==
  \E id \in DOMAIN dbus.at[o].owned_names : dbus' = Event(dbus, o, "name", id)
evd_dbus_agent_on_proxy_signal(o) ==
  \E id \in DOMAIN dbus.at[o].proxies : dbus' = Event(dbus, o, "proxy", id)

\* The bus closes a connection.  The objects that hold it look for it in their
\* tables as what it is not, and keep it.
evd_dbus_agent_on_object_connection_closed(c) ==
  /\ dbus.faults > 0
  /\ dbus.conn_data[c].open
  /\ dbus' = [dbus EXCEPT !.faults = @ - 1, !.conn_data[c].open = FALSE,
                          !.conn_data[c].dropped = TRUE]

\* A peer goes, unless an operation of the agent still refers to it.
Destroyed(o) ==
  /\ dbus.faults > 0
  /\ ~dbus.at[o].gone
  /\ ~\E p \in dbus.pending : p.object = o /\ p.op \in {"connect", "reused", "proxy", "no_proxy"}
  /\ dbus' = evd_dbus_agent_on_object_destroyed([dbus EXCEPT !.faults = @ - 1], o)

Init ==
  \E e \in Setups :
    dbus = [ conn_data |-> <<>>, conn_cache |-> 0, ids |-> 0,
             at |-> [o \in Objects |-> setup_object_data],
             registered |-> <<>>, asked |-> <<>>, pending |-> {}, early |-> FALSE,
             called |-> {}, guessed |-> FALSE, undefined |-> FALSE, guess |-> e.guess, kinds |-> e.kinds, valid |-> e.valid, commands |-> e.commands,
             calls |-> e.calls, faults |-> e.faults ]

\* The main loop gets to every completion, and D-Bus answers.
Completion == ~dbus.undefined /\ \E p \in dbus.pending : Complete(p)

Next ==
  \/ Completion
  \/ /\ ~dbus.undefined
     /\ \/ \E o \in Objects : \/ Command(o)
                             \/ evd_dbus_agent_name_acquired(o)
                             \/ evd_dbus_agent_on_proxy_signal(o)
                             \/ Destroyed(o)
        \/ \E c \in DOMAIN dbus.conn_data :
             BusCalls(c) \/ evd_dbus_agent_on_object_connection_closed(c)
        \/ \E i \in DOMAIN dbus.asked : Return(i)

Spec == Init /\ [][Next]_dbus

(***************************************************************************)
(* Properties.                                                             *)
(***************************************************************************)

Pending(s, op) == {p \in s.pending : p.op = op}
Holders(s, c) == {<<o, id>> \in UNION {{o} \X DOMAIN s.at[o].conns : o \in Objects} :
                    s.at[o].conns[id] = c}
Entries == {"proxies", "owned_names", "reg_objs_by_id"}

\* The tables hold what they are declared to hold.
TypeOK ==
  /\ dbus.conn_cache \in 0..Len(dbus.conn_data)
  /\ \A c \in DOMAIN dbus.conn_data :
       /\ dbus.conn_data[c].ref_count \in Int
       /\ {dbus.conn_data[c].open, dbus.conn_data[c].freed, dbus.conn_data[c].dropped} \subseteq BOOLEAN
  /\ \A o \in Objects :
       /\ \A id \in DOMAIN dbus.at[o].conns :
            id \in 1..dbus.at[o].conn_counter /\ dbus.at[o].conns[id] \in DOMAIN dbus.conn_data
       /\ \A table \in Entries : \A id \in DOMAIN dbus.at[o][table] :
            /\ id \in 1..(IF table = "proxies" THEN dbus.at[o].proxy_counter ELSE dbus.ids)
            /\ dbus.at[o][table][id].bus \in DOMAIN dbus.conn_data

\* conn_data_ref and conn_data_unref count the connections of objects that are
\* over a bus connection, and it is freed, and closed, when the last one goes.
RefsExact ==
  \A c \in DOMAIN dbus.conn_data :
    LET data == dbus.conn_data[c]
        waited == \E p \in Pending(dbus, "connect") : p.bus = c
    IN /\ ~data.freed => data.ref_count = Cardinality(Holders(dbus, c))
       /\ data.freed = (Holders(dbus, c) = {} /\ ~waited)
       /\ Holders(dbus, c) # {} /\ ~data.open => data.dropped

\* The cache has connections that are in use and were made for reuse: no other
\* object is given a ConnData that was freed (evd_dbus_agent_new_connection).
CacheLive ==
  dbus.conn_cache # 0 =>
    /\ ~dbus.conn_data[dbus.conn_cache].freed
    /\ dbus.conn_data[dbus.conn_cache].reuse

\* When a connection of an object is closed, what it made over it goes with it;
\* only a proxy that was still being made then comes later.
NothingLeftBehind ==
  \A o \in Objects : \A table \in Entries : \A id \in DOMAIN dbus.at[o][table] :
    LET e == dbus.at[o][table][id]
    IN \/ \E conn \in DOMAIN dbus.at[o].conns : dbus.at[o].conns[conn] = e.bus
       \/ table = "proxies" /\ e.late

\* evd_dbus_agent_method_called finds the object that is registered, although
\* reg_objs keeps entries of objects that were freed.
CallsFindObject ==
  \A c \in DOMAIN dbus.registered :
    LET r == dbus.registered[c]
    IN /\ r.id \in DOMAIN dbus.at[r.object].reg_objs_by_id
       /\ c \in DOMAIN dbus.at[r.object].reg_objs
       /\ dbus.at[r.object].reg_objs[c] = r.id

\* A caller on the bus gets what the peer returned for its very call; a return
\* is refused, other than for what it returns, only when the object is gone or
\* another call of it came meanwhile; and until then it would find its call
\* (evd_dbus_agent_get_method_invocation).
ReturnsItsCall ==
  \A i \in DOMAIN dbus.asked :
    LET a == dbus.asked[i]
        overtaken == \/ ~Registered(dbus, a.object, a.id)
                     \/ \E j \in DOMAIN dbus.asked : j > i /\ dbus.asked[j].id = a.id
    IN /\ a.got \in {0, i} /\ (a.is = "returned" => a.got = i)
       /\ a.is = "refused" => overtaken
       /\ a.is \in {"pending", "invalid"} /\ ~overtaken => Found(dbus, i) = i

\* No event (a name acquired or lost, a signal, a call) is about an id that the
\* peer was not told yet.
EventsAfterReply == ~dbus.early

\* No command is answered twice, and an answer is for the connection that the
\* command was for, with the exception of method calls.
AnsweredOnce ==
  \A o \in Objects : \A n \in DOMAIN dbus.at[o].sent :
    LET command == dbus.at[o].sent[n]
        answers == dbus.at[o].answers[n]
    IN /\ Len(answers) <= 1
       /\ command.cmd # "call_method" => \A i \in DOMAIN answers : answers[i].conn = command.conn

\* A completion has nothing that was freed, as long as no peer went away with an
\* answer or a method call of it underway (evd_dbus_bridge_new_msg_closure takes
\* no reference), and none names a connection it was not told of yet
\* (evd_dbus_agent_new_connection_finish reads the key of the table).
NothingFreedUsed == dbus.undefined => dbus.guessed \/ \E o \in Objects : dbus.at[o].gone

\* The tables of the agent and the answers of the bridge agree, whatever is
\* closed while something else is being made.
BridgeKept ==
  /\ RefsExact /\ CacheLive /\ NothingLeftBehind /\ CallsFindObject
  /\ ReturnsItsCall /\ EventsAfterReply /\ AnsweredOnce /\ NothingFreedUsed

\* Every command is answered, unless it is a signal that was emitted, the peer is
\* gone, or something freed was used: there comes a time when none is left
\* without an answer.
CommandsAnswered ==
  <>[](dbus.undefined \/ \A o \in Objects : \A n \in DOMAIN dbus.at[o].sent :
         \/ dbus.at[o].answers[n] # <<>>
         \/ dbus.at[o].sent[n].cmd = "emit_signal" \/ dbus.at[o].gone)

\* A call on a proxy is made on the proxy it is for.
CallOnProxy == \A pair \in dbus.called : pair[1] = pair[2]

\* A peer that returns a call of a registered object has it returned: the
\* invocation is bound to the serial.
InvocationReturned ==
  \A i \in DOMAIN dbus.asked :
    dbus.asked[i].is = "refused" =>
      dbus.asked[i].id \notin DOMAIN dbus.at[dbus.asked[i].object].reg_objs_by_id

=============================================================================
