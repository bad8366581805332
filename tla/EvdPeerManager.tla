--------------------------- MODULE EvdPeerManager ---------------------------
(***************************************************************************)
(* The life of the peers of an EvdWebTransportServer: the handshake that    *)
(* creates them (evd-web-transport-server.c), the table of EvdPeerManager   *)
(* (evd-peer-manager.c), EvdPeer (evd-peer.c) and the closing of a peer by  *)
(* EvdTransport (evd-transport.c).  All of it runs in one thread; the three *)
(* objects close a peer by calling each other.                              *)
(*                                                                         *)
(* A function of the code that others call is an operator from states to   *)
(* states; the state is one record.                                        *)
(***************************************************************************)
EXTENDS Integers

CONSTANTS
  Peer,
  MaxSources,          \* bound: cleanup sources in the main loop
  Modes                \* of "regular", "slow", "early", "borrow" and "again", see
                       \* below

ASSUME PeersAssumption == Peer # {} /\ MaxSources \in Nat

VARIABLE m

\* mode: what the application does, from the start
\* obj: the object of each peer        refs: its reference count
\* table: priv->peers                  closed: priv->closed of each peer
\* pending: peers being validated, with a reference of the "close" handler
\* held: peers the application has a reference to
\* notify: the sources of notify_new_peer
\* idle: peers whose timer has elapsed and that are not connected
\* elapsed: peer_cleanup_timer has     sources: of cleanup_peers_cb
\* added, news, closes, lasts: how often a peer was added to the table, and
\*   emitted in "new-peer" and "peer-closed" of the manager and "peer-closed"
\*   of the transport
\* A peer may be closed before "new-peer" has been emitted.
CloseUnannounced == m.mode = "early"

\* A peer may be closed through evd_peer_manager_close_peer by an application
\* that has no reference to it: evd_peer_manager_lookup_peer hands out none.
CloseBorrowed == m.mode \in {"early", "borrow"}

\* A validation may take longer than the peer's timeout.
PendingMayExpire == m.mode \in {"early", "slow"}

\* Bound: calls of evd_transport_close_peer for a peer.
MaxCloses == IF m.mode = "again" THEN 2 ELSE 1

PeersInit ==
  \E mode \in Modes :
  m = [mode |-> mode, obj |-> [p \in Peer |-> "none"], refs |-> [p \in Peer |-> 0],
       closed |-> {}, table |-> {}, pending |-> {}, held |-> {}, notify |-> {},
       idle |-> {}, elapsed |-> FALSE, sources |-> 0, misuse |-> FALSE,
       added |-> {}, news |-> [p \in Peer |-> 0],
       closes |-> [p \in Peer |-> 0], lasts |-> [p \in Peer |-> 0]]

-----------------------------------------------------------------------------
g_object_ref(s, p) == [s EXCEPT !.refs[p] = @ + 1]

g_object_unref(s, p) ==
  IF s.refs[p] = 1 THEN [s EXCEPT !.refs[p] = 0, !.obj[p] = "freed"]
  ELSE [s EXCEPT !.refs[p] = @ - 1]

\* The code uses the peer: misuse, if it was freed.
Use(s, p) == [s EXCEPT !.misuse = @ \/ s.obj[p] = "freed"]

\* g_hash_table_remove of a peer in the table.
TableRemove(s, p) == g_object_unref([s EXCEPT !.table = @ \ {p}], p)

\* evd_peer_close inside evd_transport_close_peer: PEER_CLOSING_KEY stops the
\* call it makes back.
MarkClosed(s, p) == [s EXCEPT !.closed = @ \cup {p}]

\* evd_peer_manager_close_peer inside evd_transport_close_peer, which has a
\* reference.
ManagerClosePeer(s, p) ==
  IF p \notin s.table THEN s
  ELSE [MarkClosed(TableRemove(s, p), p) EXCEPT !.closes[p] = @ + 1]

\* (The iface->peer_closed of EvdWebTransportServer is NULL.)
evd_transport_close_peer(s, p) ==
  LET done == MarkClosed(ManagerClosePeer(g_object_ref(s, p), p), p)
  IN  g_object_unref([done EXCEPT !.lasts[p] = @ + 1], p)

\* evd_peer_close.
PeerClose(s, p) ==
  IF p \in s.closed THEN s
  ELSE evd_transport_close_peer(MarkClosed(s, p), p)

close_peer_internal(s, p) ==
  [PeerClose(s, p) EXCEPT !.closes[p] = @ + 1]

\* Called by the application: the reference of the table may be the last.
evd_peer_manager_close_peer(s, p) ==
  IF p \notin s.table THEN s
  ELSE LET removed == Use(TableRemove(s, p), p)
       IN  IF removed.misuse THEN removed ELSE close_peer_internal(removed, p)

evd_peer_is_alive(s, p) == p \notin s.closed /\ p \notin s.idle

\* A peer of the removal list, whose reference was the table's.
CloseRemoved(s, p) == g_object_unref(close_peer_internal(s, p), p)

\* The end of a removed peer changes only what is its own, so that the order of
\* the removal list does not matter.
evd_peer_manager_cleanup_peers(s) ==
  LET dead == {p \in s.table : ~evd_peer_is_alive(s, p)}
      swept == [s EXCEPT !.elapsed = FALSE, !.table = @ \ dead]
      After(p) == IF p \in dead THEN CloseRemoved(swept, p) ELSE swept
  IN  IF ~s.elapsed THEN s
      ELSE [swept EXCEPT !.closed = @ \cup dead,
                         !.obj = [p \in Peer |-> After(p).obj[p]],
                         !.refs = [p \in Peer |-> After(p).refs[p]],
                         !.closes = [p \in Peer |-> After(p).closes[p]],
                         !.lasts = [p \in Peer |-> After(p).lasts[p]]]

\* Deviation: the table takes no reference.
AddedWithoutRef(s, p) ==
  evd_peer_manager_cleanup_peers(
    [s EXCEPT !.table = @ \cup {p}, !.added = @ \cup {p}, !.notify = @ \cup {p}])

evd_peer_manager_add_peer(s, p) ==
  evd_peer_manager_cleanup_peers(
    [g_object_ref(s, p) EXCEPT !.table = @ \cup {p}, !.added = @ \cup {p},
                               !.notify = @ \cup {p}])

\* Every lookup adds a source that cleans up.
Looked(s) == [s EXCEPT !.sources = @ + 1]

\* evd_web_transport_server_accept_peer up to the response.  "new-peer" of the
\* transport is emitted, and its handler may close the peer.
Accepted(s, p, close) ==
  LET added == evd_peer_manager_add_peer(Looked(s), p)
  IN  IF close THEN PeerClose(added, p) ELSE added

-----------------------------------------------------------------------------
\* The handlers of "new-peer" that may close the peer.
Closing == IF CloseUnannounced THEN BOOLEAN ELSE {FALSE}

\* evd_web_transport_handshake, by the result of "validate-peer".
handshake(p) ==
  LET created == [m EXCEPT !.obj[p] = "live", !.refs[p] = 1]
  IN  /\ m.obj[p] = "none"
      /\ \/ /\ m.sources < MaxSources
            /\ \E close \in Closing :
                 m' = g_object_unref(Accepted(created, p, close), p)
         \/ m' = g_object_unref(created, p)
         \/ m' = [created EXCEPT !.pending = @ \cup {p}]

\* evd_web_transport_server_accept_peer of a peer that was pending.
accept_peer(p) ==
  /\ p \in m.pending /\ m.sources < MaxSources
  /\ \E close \in Closing :
       m' = g_object_unref([Accepted(m, p, close) EXCEPT !.pending = @ \ {p}], p)

\* evd_web_transport_server_reject_peer, or its connection is closed.
reject_peer(p) ==
  /\ p \in m.pending
  /\ m' = g_object_unref([m EXCEPT !.pending = @ \ {p}], p)

\* evd_peer_manager_notify_new_peer, which uses the peer after the handlers too.
notify_new_peer(p) ==
  /\ p \in m.notify
  /\ \E close \in Closing :
       LET used == Use([m EXCEPT !.notify = @ \ {p}, !.news[p] = @ + 1], p)
       IN  m' = IF close /\ ~used.misuse THEN Use(PeerClose(used, p), p)
                ELSE used

\* evd_peer_manager_lookup_peer, and the touch of a peer that is found.
lookup_peer(p) ==
  /\ m.sources < MaxSources
  /\ m' = [Looked(m) EXCEPT !.idle = @ \ (m.table \cap {p})]

cleanup_peers_cb ==
  /\ m.sources > 0
  /\ m' = evd_peer_manager_cleanup_peers([m EXCEPT !.sources = @ - 1])

evd_peer_manager_get_all_peers ==
  m' = evd_peer_manager_cleanup_peers(m)

\* The application takes and drops a reference.
ref_peer(p) ==
  /\ p \in (m.table \cup m.pending) \ m.held
  /\ m' = g_object_ref([m EXCEPT !.held = @ \cup {p}], p)

unref_peer(p) ==
  /\ p \in m.held
  /\ m' = g_object_unref([m EXCEPT !.held = @ \ {p}], p)

\* Peers the application may close: ones it knows, announced if it waits.
Closable == {p \in m.table \cup m.held \cup m.pending :
               p \in m.notify \cup m.pending => CloseUnannounced}

close_peer(p) ==
  /\ p \in Closable
  /\ \/ m' = PeerClose(m, p)
     \/ /\ p \in m.closed => m.lasts[p] < MaxCloses
        /\ m' = evd_transport_close_peer(m, p)
     \/ /\ p \in m.held \/ CloseBorrowed
        /\ m' = evd_peer_manager_close_peer(m, p)

\* Time: a peer that is not connected times out; the sources of
\* notify_new_peer are due at once, and so before that.
timeout(p) ==
  /\ m.obj[p] = "live" /\ p \notin m.notify \cup m.idle
  /\ p \in m.pending => PendingMayExpire
  /\ m' = [m EXCEPT !.idle = @ \cup {p}]

interval ==
  /\ ~m.elapsed
  /\ m' = [m EXCEPT !.elapsed = TRUE]

PeersNext ==
  \/ cleanup_peers_cb
  \/ evd_peer_manager_get_all_peers
  \/ interval
  \/ \E p \in Peer :
       \/ handshake(p) \/ accept_peer(p) \/ reject_peer(p)
       \/ notify_new_peer(p) \/ lookup_peer(p)
       \/ ref_peer(p) \/ unref_peer(p) \/ close_peer(p)
       \/ timeout(p)

PeersSpec == PeersInit /\ [][PeersNext]_m

-----------------------------------------------------------------------------
Count(b) == IF b THEN 1 ELSE 0

\* The state is well formed, and the peers in the sets of the manager, the
\* handshake and the application exist.
PeersTypeOK ==
  /\ m.mode \in Modes
  /\ m.obj \in [Peer -> {"none", "live", "freed"}]
  /\ m.refs \in [Peer -> 0..4]
  /\ m.table \cup m.pending \cup m.held \subseteq {p \in Peer : m.obj[p] = "live"}
  /\ m.closed \cup m.notify \cup m.idle \cup m.added \subseteq Peer
  /\ m.elapsed \in BOOLEAN /\ m.misuse \in BOOLEAN
  /\ m.sources \in 0..MaxSources
  /\ m.news \in [Peer -> 0..1]

\* Between two events the references to a peer are those of the table, of the
\* handshake that waits for its validation and of the application: the calls
\* of the three objects into each other neither lose nor keep one.
RefsOwned ==
  \A p \in Peer : m.refs[p] = Count(p \in m.table) + Count(p \in m.pending)
                                + Count(p \in m.held)

\* However a peer comes to its end (evd_peer_close, evd_transport_close_peer,
\* evd_peer_manager_close_peer or a timeout, which each call the others), the
\* manager and the transport emit "peer-closed" for it once each, unless the
\* application calls evd_transport_close_peer again.
ClosedOnce ==
  m.mode # "again" => \A p \in Peer :
    /\ m.closes[p] <= 1 /\ m.lasts[p] <= 1
    /\ p \in m.added \ m.table /\ ~m.misuse => m.closes[p] = 1 /\ m.lasts[p] = 1

\* A lookup never finds a peer that was closed after it was announced.
ClosedNotFound == ~CloseUnannounced => m.table \cap m.closed = {}

\* No code uses a peer that was freed, and one that notify_new_peer is to use is
\* not freed: "By design, only EvdPeerManager should hold a reference to a peer"
\* (evd-transport.c).  It takes an application that closes only peers that were
\* announced to it, and that has a reference to the ones it closes through
\* evd_peer_manager_close_peer, which removes a peer from the table, and so may
\* free it, before it closes it.
NoFreedPeerUsed ==
  ~CloseUnannounced /\ ~CloseBorrowed =>
    ~m.misuse /\ \A p \in m.notify : m.obj[p] = "live"

\* The life of a peer between the manager, its transport and the application.
PeersKept == RefsOwned /\ ClosedOnce /\ ClosedNotFound /\ NoFreedPeerUsed
=============================================================================
