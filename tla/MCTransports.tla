---------------------------- MODULE MCTransports ----------------------------
(***************************************************************************)
(* Model checking of the two web transports, EvdLongpollingServer and      *)
(* EvdWebsocket, and of the life of their peers, EvdPeerManager.  They     *)
(* share no state; `part` says which of them a behaviour is about, and the *)
(* others stay as they began.                                              *)
(***************************************************************************)
EXTENDS EvdLongpollingServer, EvdPeerManager

CONSTANTS Parts,
          MAX_LEN7, MAXUINT16, MAX_FRAGMENT_SIZE, Keys, Setups

VARIABLES part, ws

W == INSTANCE EvdWebsocket

\* Nothing fails, writes fail, the client leaves, or both.
EveryEnvironment == SUBSET {"write", "leave"}

\* No write fails on an open connection; the client may close one.
ClientLeaves == {{"leave"}}

Plain == [msgs |-> [client |-> <<1, 2>>, server |-> <<3>>], pieces |-> {1, 3},
          verdict |-> [client |-> "ACCEPT", server |-> "ACCEPT"], names |-> "standalone",
          closes |-> {}, faults |-> {}]

MCKeys == {<<1, 2, 4, 7>>}

\* The limits of the length encodings are small, so that messages of one to
\* three bytes use each of them and one of five bytes is fragmented.
MCSetups ==
  { Plain,
    [Plain EXCEPT !.closes = {"client", "server"}, !.pieces = {3}],
    [Plain EXCEPT !.closes = {"client"}, !.faults = {"cut"}, !.pieces = {}],
    [Plain EXCEPT !.names = "known", !.verdict["server"] = "PENDING", !.closes = {"server"},
                  !.msgs["server"] = <<3, 1>>, !.pieces = {2}],
    [Plain EXCEPT !.names = "known", !.verdict["server"] = "PENDING", !.msgs["server"] = <<3, 1>>,
                  !.pieces = {}],
    [Plain EXCEPT !.names = "known", !.verdict["server"] = "PENDING", !.closes = {"client", "server"},
                  !.pieces = {}],
    [Plain EXCEPT !.verdict["client"] = "PENDING", !.closes = {"client"},
                  !.faults = {"cut", "refused"}, !.pieces = {}],
    [Plain EXCEPT !.verdict["client"] = "REJECT", !.pieces = {}],
    [Plain EXCEPT !.names = "unknown"],
    [Plain EXCEPT !.msgs["client"] = <<1, 5, 1>>, !.pieces = {}] }

MCInit ==
  /\ part \in Parts /\ Init /\ PeersInit /\ W!Init
  /\ part # "longpolling" => faults = CHOOSE f \in Environments : TRUE
  /\ part # "peers" => m.mode = CHOOSE mode \in Modes : TRUE
  /\ part # "websocket" => ws.setup = CHOOSE st \in Setups : TRUE

MCNext ==
  \/ part = "longpolling" /\ Next /\ UNCHANGED <<part, m, ws>>
  \/ part = "peers" /\ PeersNext /\ UNCHANGED <<part, vars, ws>>
  \/ part = "websocket" /\ W!Next /\ UNCHANGED <<part, vars, m>>

\* The main loop of the long-polling server runs the callbacks that are due,
\* and the client asks again for messages when it has a connection with no
\* request.  Each disjunction is weak fairness of its action, which is enabled
\* exactly when the guard holds.
Ready(c, state) == part = "longpolling" /\ receiving = None /\ conn[c] = state
LongpollingFairness ==
  /\ ([]<>(receiving = None) \/ []<><<conn_on_content_read_end>>_vars)
  /\ \A c \in Conn :
       /\ ([]<>~Ready(c, "flushing") \/ []<><<connection_on_flush(c)>>_vars)
       /\ ([]<>~Ready(c, "posting") \/ []<><<conn_on_content_read(c)>>_vars)
       /\ ([]<>~(Ready(c, "idle") /\ ~closed) \/ []<><<request_receive(c)>>_vars)

\* A WebSocket nobody has opened waits for nothing.
MCSpec == MCInit /\ [][MCNext]_<<part, m, ws, vars>> /\ LongpollingFairness /\ W!Fairness

\* All parts keep their types.
TypesOK == TypeOK /\ PeersTypeOK /\ W!TypeOK

\* EvdWebsocket implements EvdMessageChannel.
IsMessageChannel == W!IsMessageChannel

\* A WebSocket is closed once, completely, and on both sides.
ClosingKept == W!ClosingKept

\* Under fairness what was sent arrives, by long polling (Delivery) or WebSocket,
\* closing ends, and evd_transport_open is answered.
TransportsProgress == Delivery /\ W!AllArrive /\ W!ClosingEnds /\ W!OpenIsAnswered

\* The client has a peer for each message it reads.
MessageHasPeer == W!MessageHasPeer
=============================================================================
