------------------------------ MODULE MCCalls ------------------------------
(***************************************************************************)
(* Model checking of what is called and answered later: promises           *)
(* (EvdPromise), JSON-RPC calls (EvdJsonrpc) and the commands of the D-Bus *)
(* bridge (EvdDBusBridge).  They share no state; `part` says which of them *)
(* a behaviour is about, and the others stay as they began.                *)
(***************************************************************************)
EXTENDS EvdPromise, TLC

CONSTANTS Parts, Setups, MaxUse, Objects, BusSetups

VARIABLES part, rpc, dbus

R == INSTANCE EvdJsonrpc
D == INSTANCE EvdDBusBridge WITH Setups <- BusSetups

Setup(kind, a, b, faults, bodies, answers, server, keepalive, reliable) ==
  [ kind |-> kind, calls |-> [a |-> a, b |-> b], faults |-> faults, bodies |-> bodies, answers |-> answers,
    server |-> server, keepalive |-> keepalive, reliable |-> reliable ]

\* Three calls of the two sides, with the peers going and the transports in use
\* changing, or without; two requests of the client, to EventDance's server
\* with and without a handler, and to another that answers well or not; two
\* requests of another client.
MCSetups ==
  { Setup("peers", 2, 1, FALSE, {"whole", "junk"}, {}, "evd", FALSE, TRUE),
    Setup("peers", 1, 1, TRUE, {"whole"}, {}, "evd", FALSE, FALSE),
    Setup("peers", 1, 1, FALSE, {"whole", "part", "tail"}, {}, "evd", FALSE, FALSE),
    Setup("http", 2, 0, FALSE, {}, {}, "evd", TRUE, TRUE),
    Setup("http", 2, 0, FALSE, {}, {}, "deaf", FALSE, TRUE),
    Setup("http", 2, 0, FALSE, {"whole", "bad", "junk"}, {"result"}, "other", TRUE, TRUE),
    Setup("http", 2, 0, FALSE, {"whole", "part", "empty"}, {"result", "other"}, "other", FALSE, FALSE),
    Setup("server", 2, 0, FALSE, {"whole", "part", "bad", "junk"}, {}, "evd", FALSE, FALSE) }

\* At most n and k commands of the two peers.
BusSetup(kinds, valid, guess, n, k, calls, faults) ==
  [kinds |-> kinds, valid |-> valid, guess |-> guess, commands |-> (1 :> n @@ 2 :> k),
   calls |-> calls, faults |-> faults]

\* Two peers that share connections; one peer that makes and drops proxies,
\* names and objects; and one whose registered object is called.  Peers name the
\* ids they were told, and in three setups any.
MCBusSetups ==
  { BusSetup({"new_connection", "close_connection"}, {TRUE}, FALSE, 2, 2, 0, 1),
    BusSetup({"new_connection", "close_connection"}, {TRUE}, TRUE, 3, 1, 0, 0),
    BusSetup({"new_connection", "close_connection", "new_proxy", "own_name"}, {TRUE}, FALSE, 4, 0, 0, 0),
    BusSetup({"new_connection", "close_connection", "register_object"}, {TRUE}, FALSE, 4, 0, 2, 0),
    BusSetup({"new_connection", "register_object", "unregister_object"}, BOOLEAN, TRUE, 4, 0, 2, 0),
    BusSetup({"new_connection", "register_object", "emit_signal"}, {TRUE}, FALSE, 3, 0, 1, 1),
    BusSetup({"new_connection", "new_proxy", "call_method", "close_proxy"}, {TRUE}, TRUE, 4, 0, 0, 1),
    BusSetup({"new_connection", "own_name", "unown_name", "register_object", "new_proxy",
              "emit_signal", "unknown"}, BOOLEAN, FALSE, 3, 0, 0, 0) }

MCInit ==
  /\ part \in Parts /\ Init /\ R!Init /\ D!Init
  /\ part # "rpc" => rpc.setup = CHOOSE st \in Setups : TRUE
  /\ part # "dbus" => LET st == CHOOSE st \in BusSetups : TRUE
                     IN \A f \in DOMAIN st : dbus[f] = st[f]

MCNext ==
  \/ part = "promise" /\ Next /\ UNCHANGED <<part, rpc, dbus>>
  \/ part = "rpc" /\ R!Next /\ UNCHANGED <<part, vars, dbus>>
  \/ part = "dbus" /\ D!Next /\ UNCHANGED <<part, vars, rpc>>

\* A main loop runs its idle sources and listeners return; the main loops of
\* the two sides run, and applications and servers answer what they are asked;
\* the main loop gets to every completion, and D-Bus answers.
MCSpec ==
  /\ MCInit /\ [][MCNext]_<<part, vars, rpc, dbus>>
  /\ WF_vars(part = "promise" /\ MainLoop) /\ WF_rpc(part = "rpc" /\ R!Progress)
  /\ WF_dbus(part = "dbus" /\ D!Completion)

\* All parts keep their types.
TypesOK == TypeOK /\ R!TypeOK /\ D!TypeOK

\* EvdJsonrpc: calls, results and connections are matched one to one.
CallsServed == R!CallsServed

\* EvdDBusBridge: what the agent keeps and what the bridge answers agree.
BridgeKept == D!BridgeKept

\* Under fairness every listener is called (EvdPromise), every JSON-RPC call and
\* every command of the bridge is answered.
AllAnswered == AllNotified /\ R!CallsAnswered /\ D!CommandsAnswered
=============================================================================
