------------------------------- MODULE Peers -------------------------------
(***************************************************************************)
(* The peer list and the details of single peers                           *)
(* (qml/models/peerlistmodel.cpp, peerdetailsmodel.cpp,                    *)
(* peerlistsortproxy.cpp, nodemodel.cpp).  A timer replaces the list with  *)
(* what the node reports; a details object keeps a row of the list and a   *)
(* pointer into the data of that row, which the next refresh replaces.     *)
(***************************************************************************)
EXTENDS Integers, Sequences, SequencesExt

CONSTANTS MaxPeers,    \* bound on connections over the program's life
          MaxRefreshes \* bound on refreshes of the list

VARIABLES connections, \* the node: [peers, last]: connected node ids in its order, last id given
          peerList,    \* PeerListModel: [ids, version, ready, requested, timer, stopping]
          details,     \* m_detail_models: records [id, row, version]
          leaving      \* details reported disconnected, deleted later

peerVars == <<connections, peerList, details, leaving>>

PeersInit ==
  /\ connections = [peers |-> << >>, last |-> 0]
  /\ peerList = [ids |-> << >>, version |-> 0, ready |-> FALSE, requested |-> FALSE, timer |-> FALSE, stopping |-> FALSE]
  /\ details = {} /\ leaving = {}

----------------------------------------------------------------------------
(* The node (external) *)

PeerConnects ==
  /\ connections.last < MaxPeers
  /\ connections' = [peers |-> Append(connections.peers, connections.last + 1), last |-> connections.last + 1]
  /\ UNCHANGED <<peerList, details, leaving>>
PeerLeaves(i) ==
  /\ connections' = [connections EXCEPT !.peers = RemoveAt(@, i)]
  /\ UNCHANGED <<peerList, details, leaving>>

----------------------------------------------------------------------------
(* A new list and the details *)

\* onModelReset: the row is searched again.
ResetKeepsRow(d, ids, version) == {[d EXCEPT !.version = version]}
OnModelReset(d, ids, version) ==
  {[d EXCEPT !.row = row, !.version = version] : row \in {i \in DOMAIN ids : ids[i] = d.id}}
\* onModelDataChanged: the row is kept if it still is the peer's.
OnModelDataChanged(d, ids, version) ==
  IF d.row \in DOMAIN ids /\ ids[d.row] = d.id THEN {[d EXCEPT !.version = version]} ELSE {}

\* refresh: a list of the same peers in the same order is not a reset.  Every
\* open details object hears of the new list before refresh returns.
Refreshed(ids) ==
  LET version == peerList.version + 1
      follow(d) == IF ids # peerList.ids THEN OnModelReset(d, ids, version) ELSE OnModelDataChanged(d, ids, version)
      notified == ids # peerList.ids \/ ids # << >>
      gone == {d \in details : follow(d) = {}}
  IN /\ peerList' = [peerList EXCEPT !.ids = ids, !.version = version, !.ready = TRUE, !.timer = @ \/ peerList.requested]
     /\ details' = IF notified THEN UNION {follow(d) : d \in details} ELSE details
     /\ leaving' = IF notified THEN leaving \cup gone ELSE leaving

\* getNodesStats may fail to take the node's lock: the timer tries again.
RefreshPeers ==
  /\ peerList.timer /\ peerList.version < MaxRefreshes
  /\ Refreshed(connections.peers)
  /\ UNCHANGED connections

\* disconnectPeer, and banPeer of a peer's address, which may have left already.
\* The page then refreshes the list itself; the peer may still be in it, and
\* the refresh may fail.
DisconnectPeer(d) ==
  LET rest == Remove(connections.peers, d.id)
  IN /\ peerList.ready /\ ~peerList.stopping /\ peerList.version < MaxRefreshes
     /\ connections' = [connections EXCEPT !.peers = rest]
     /\ \/ \E ids \in {rest, connections.peers} : Refreshed(ids)
        \/ UNCHANGED <<peerList, details, leaving>>

BackendReady ==
  /\ ~peerList.ready /\ ~peerList.stopping
  /\ \/ Refreshed(connections.peers)
     \/ peerList' = [peerList EXCEPT !.ready = TRUE, !.timer = peerList.requested] /\ UNCHANGED <<details, leaving>>
  /\ UNCHANGED connections

StartAutoRefresh ==
  /\ ~peerList.stopping /\ ~peerList.requested
  /\ peerList' = [peerList EXCEPT !.requested = TRUE, !.timer = peerList.ready]
  /\ UNCHANGED <<connections, details, leaving>>
StopAutoRefresh ==
  /\ peerList.requested
  /\ peerList' = [peerList EXCEPT !.requested = FALSE, !.timer = FALSE]
  /\ UNCHANGED <<connections, details, leaving>>
BeginPeersShutdown ==
  /\ ~peerList.stopping
  /\ peerList' = [peerList EXCEPT !.stopping = TRUE, !.requested = FALSE, !.timer = FALSE]
  /\ UNCHANGED <<connections, details, leaving>>

\* peerDetailsAt: one object for each peer of the list.
PeerDetailsAt(row) ==
  /\ \A d \in details : d.id # peerList.ids[row]
  /\ details' = details \cup {[id |-> peerList.ids[row], row |-> row, version |-> peerList.version]}
  /\ UNCHANGED <<connections, peerList, leaving>>
DeleteLater(d) ==
  /\ leaving' = leaving \ {d}
  /\ UNCHANGED <<connections, peerList, details>>

PeersNext ==
  \/ PeerConnects \/ RefreshPeers \/ BackendReady \/ StartAutoRefresh \/ StopAutoRefresh \/ BeginPeersShutdown
  \/ \E i \in DOMAIN connections.peers : PeerLeaves(i)
  \/ \E row \in DOMAIN peerList.ids : PeerDetailsAt(row)
  \/ \E d \in details : DisconnectPeer(d)
  \/ \E d \in leaving : DeleteLater(d)

----------------------------------------------------------------------------
(* Properties *)

\* The details of a peer that is not reported disconnected point at that peer's
\* row of the newest list: an older pointer is freed memory, another row is
\* another peer to disconnect or ban.
DetailsFollowPeer ==
  \A d \in details : /\ d.version = peerList.version
                     /\ d.row \in DOMAIN peerList.ids /\ peerList.ids[d.row] = d.id
=============================================================================
