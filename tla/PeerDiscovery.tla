---------------------------- MODULE PeerDiscovery ----------------------------
(***************************************************************************)
(* How a node finds and keeps its peers (p2p/src/libp2p): the event loop   *)
(* of P2PServer, the DiscoveryStatus that it consults for the next address *)
(* to dial, and the PeerLists of that status.  A list relates addresses to *)
(* peer ids both ways; the id of a manual address is learnt when the       *)
(* connection to it is established.                                        *)
(*                                                                         *)
(* The environment connects, fails and closes.  A peer generates a new id  *)
(* when it starts, it may be reachable under several addresses, and it may *)
(* dial this node.  The operator adds and removes peers.                   *)
(***************************************************************************)
EXTENDS Collections, FiniteSets, Sequences

CONSTANTS
    Addrs, Peers,
    Hosts,          \* which peers may be at the addresses at first
    ManualAddrs,    \* addresses of the configuration
    out_peers,      \* of P2PConfig
    MaxOfType,      \* of P2PConfig: peers of a type, 0 when the type is disabled
    MaxFound,       \* bound on the peers that one discovery reports
    MaxRestarts,    \* bound on restarts of peers
    MaxDisturbances \* bound on the operator's commands, the connections that
                    \* peers open, the dials of the swarm's own, and the dials
                    \* that fail for a reason other than the transport, together

Types == <<"Manual", "MDns", "Kademlia">>   \* by priority
FoundTypes == {"Manual", "MDns", "Kademlia"}

ASSUME DiscoveryAssumption ==
    /\ ManualAddrs \subseteq Addrs
    /\ Hosts \subseteq [Addrs -> Peers]
    /\ out_peers \in Nat /\ MaxOfType \in [FoundTypes -> Nat]
    /\ MaxFound \in Nat \ {0}
    /\ MaxRestarts \in Nat /\ MaxDisturbances \in Nat

VARIABLES
    connected,  \* connected_peers: the addresses in use
    found,      \* found_..._peers: the list of every type
    cooldown,   \* addresses whose cooldown period has not ended
    query,      \* Kademlia looks for closer peers
    dialing,    \* number of dials of an address by the search that have no outcome yet
    strays,     \* the same for dials that Kademlia or gossipsub make by themselves
    links,      \* number of connections to a peer that were dialled at an address
    inbound,    \* number of connections that a peer has opened
    host,       \* the id of the peer at an address
    past,       \* the ids that the peer at an address had before it restarted
    halted,     \* the event loop has panicked
    restarts, disturbances  \* how many so far

status == <<connected, found, cooldown>>
swarm == <<query, dialing, strays>>
vars == <<status, swarm, links, inbound, host, past, halted, restarts, disturbances>>

-----------------------------------------------------------------------------
(* PeerList.                                                               *)

EmptyList == [addrs |-> EmptyMap, peers |-> EmptyMap]

\* An id is <<>> as long as it is not known.
from_vec(addrs) == [addrs |-> [a \in addrs |-> [peer |-> <<>>, type |-> "Manual"]], peers |-> EmptyMap]

add_peer(list, a, peer, type) ==
    [addrs |-> insert(list.addrs, a, [peer |-> peer, type |-> type]),
     peers |-> IF peer = <<>> THEN list.peers ELSE insert(list.peers, peer[1], a)]

\* The addresses that a discovery reports are added one after the other: an
\* id that is reported at several addresses is found under the last of them.
add_peers(list, addrs, type) ==
    LET ids == {host[a] : a \in Range(addrs)}
        LastOf(p) == CHOOSE k \in DOMAIN addrs :
                        /\ host[addrs[k]] = p
                        /\ \A j \in DOMAIN addrs : host[addrs[j]] = p => j <= k
    IN  [addrs |-> [a \in DOMAIN list.addrs \cup Range(addrs) |->
                        IF a \in Range(addrs) THEN [peer |-> <<host[a]>>, type |-> type]
                        ELSE list.addrs[a]],
         peers |-> [p \in DOMAIN list.peers \cup ids |->
                        IF p \in ids THEN addrs[LastOf(p)] ELSE list.peers[p]]]

\* The address must be listed: its entry is unwrapped.
set_peer_id(list, a, p) == add_peer(list, a, <<p>>, list.addrs[a].type)

remove_peer_by_addr(list, a) ==
    [addrs |-> remove(list.addrs, a),
     peers |-> IF a \in DOMAIN list.addrs /\ list.addrs[a].peer # <<>>
               THEN remove(list.peers, list.addrs[a].peer[1]) ELSE list.peers]

\* Mutant: the address of the id stays in the list.
KeepsAddr(list, p) == [addrs |-> list.addrs, peers |-> remove(list.peers, p)]

remove_peer_by_id(list, p) ==
    [addrs |-> IF p \in DOMAIN list.peers THEN remove(list.addrs, list.peers[p]) ELSE list.addrs,
     peers |-> remove(list.peers, p)]

-----------------------------------------------------------------------------
(* DiscoveryStatus.                                                        *)

get_connected_len_by_type(list, type) == Cardinality({a \in DOMAIN list.addrs : list.addrs[a].type = type})

\* Mutant: an address may be dialled before its cooldown has ended.
UnusedOrCooling(list, cool, a) == a \notin DOMAIN list.addrs
is_unused_addr(list, cool, a) == a \notin DOMAIN list.addrs /\ a \notin cool

Allows(list, type) == get_connected_len_by_type(list, type) < MaxOfType[type]

Full(list) == Cardinality(DOMAIN list.peers) >= out_peers

Usable(list, f, cool, type) ==
    IF Allows(list, type) THEN {a \in DOMAIN f[type].addrs : is_unused_addr(list, cool, a)} ELSE {}

\* The types are tried by priority, and those without a usable address skipped.
Reached(list, f, cool, k) == \A i \in 1..(k - 1) : Usable(list, f, cool, Types[i]) = {}

\* Mutant: manual addresses are forgotten as well.
ForgetAll(f, type, list) == [f EXCEPT ![type] = list]

\* A found list forgets what was removed from it; manual addresses stay.
Forget(f, type, list) == IF type = "Manual" THEN f ELSE [f EXCEPT ![type] = list]

remove_connected_by_id(list, f, p) ==
    IF p \in DOMAIN list.peers /\ list.peers[p] \in DOMAIN list.addrs
    THEN LET type == list.addrs[list.peers[p]].type
         IN  Forget(f, type, remove_peer_by_id(f[type], p))
    ELSE f

remove_connected_by_addr(list, f, a) ==
    IF a \in DOMAIN list.addrs
    THEN LET type == list.addrs[a].type
         IN  Forget(f, type, remove_peer_by_addr(f[type], a))
    ELSE f

-----------------------------------------------------------------------------
(* The event loop.  Every event ends with search_new_peer, given here the  *)
(* status, the outstanding dials and the disturbances that the event       *)
(* leaves.  A dial that is refused at once leaves its address in           *)
(* connected_peers.                                                        *)

search_new_peer(list, f, cool, dials, n) ==
    /\ found' = f /\ cooldown' = cool
    /\ \/ \E k \in DOMAIN Types :
             /\ ~Full(list) /\ Reached(list, f, cool, k)
             /\ \E a \in Usable(list, f, cool, Types[k]) :
                   /\ connected' = add_peer(list, a, f[Types[k]].addrs[a].peer, Types[k])
                   /\ \/ dialing' = [dials EXCEPT ![a] = @ + 1] /\ disturbances' = n
                      \/ n < MaxDisturbances /\ dialing' = dials /\ disturbances' = n + 1
             /\ query' = query
       \/ /\ Full(list) \/ Reached(list, f, cool, 4)
          /\ connected' = list /\ dialing' = dials /\ disturbances' = n
          /\ query' = (query \/ (~Full(list) /\ Allows(list, "Kademlia")))

Init ==
    /\ connected = EmptyList
    /\ found = [t \in FoundTypes |-> IF t = "Manual" THEN from_vec(ManualAddrs) ELSE EmptyList]
    /\ cooldown = {} /\ query = FALSE
    /\ dialing = [a \in Addrs |-> 0] /\ strays = [a \in Addrs |-> 0]
    /\ links = [a \in Addrs |-> [p \in Peers |-> 0]]
    /\ inbound = [p \in Peers |-> 0]
    /\ host \in Hosts /\ past = [a \in Addrs |-> {}]
    /\ halted = FALSE
    /\ restarts = 0 /\ disturbances = 0

\* The timer, or the operator's command to discover peers.
DiscoverPeers ==
    /\ ~halted
    /\ search_new_peer(connected, found, cooldown, dialing, disturbances)
    /\ UNCHANGED <<strays, links, inbound, host, past, halted, restarts>>

\* A dial of the search or of a behaviour has an outcome; dials is what remains
\* of the search's.
Answered(a, dials) ==
    \/ dialing[a] > 0 /\ dials = [dialing EXCEPT ![a] = @ - 1] /\ UNCHANGED strays
    \/ strays[a] > 0 /\ dials = dialing /\ strays' = [strays EXCEPT ![a] = @ - 1]

Remaining(a) == {dialing, [dialing EXCEPT ![a] = @ - 1]}

\* The handler does not ask who dialled: an address that is not listed panics.
ConnectionEstablished(a) ==
    /\ ~halted
    /\ links' = [links EXCEPT ![a][host[a]] = @ + 1]
    /\ \E dials \in Remaining(a) :
          /\ Answered(a, dials)
          /\ \/ /\ a \in DOMAIN connected.addrs
                /\ search_new_peer(set_peer_id(connected, a, host[a]), found, cooldown, dials, disturbances)
                /\ UNCHANGED halted
             \/ /\ a \notin DOMAIN connected.addrs
                /\ halted' = TRUE /\ dialing' = dials
                /\ UNCHANGED <<status, query, disturbances>>
    /\ UNCHANGED <<inbound, host, past, restarts>>

\* remove_connected_peer for a peer id, and the search that follows.
remove_connected_peer(p, n) ==
    search_new_peer(remove_peer_by_id(connected, p), remove_connected_by_id(connected, found, p),
                    cooldown, dialing, n)

ConnectionClosed(p) ==
    /\ ~halted
    /\ \/ /\ \E a \in Addrs : links[a][p] > 0 /\ links' = [links EXCEPT ![a][p] = @ - 1]
          /\ UNCHANGED inbound
       \/ inbound[p] > 0 /\ inbound' = [inbound EXCEPT ![p] = @ - 1] /\ UNCHANGED links
    /\ remove_connected_peer(p, disturbances)
    /\ UNCHANGED <<strays, host, past, halted, restarts>>

\* A dial fails; only an error of the transport changes the status.
OutgoingConnectionError(a) ==
    /\ ~halted
    /\ \E dials \in Remaining(a) :
          /\ Answered(a, dials)
          /\ \/ search_new_peer(remove_peer_by_addr(connected, a),
                                remove_connected_by_addr(connected, found, a),
                                cooldown \cup {a}, dials, disturbances)
             \/ /\ disturbances < MaxDisturbances
                /\ search_new_peer(connected, found, cooldown, dials, disturbances + 1)
    /\ UNCHANGED <<links, inbound, host, past, halted, restarts>>

Discoveries == UNION {[1..n -> Addrs] : n \in 1..MaxFound}

MdnsDiscovered(list) ==
    /\ ~halted
    /\ search_new_peer(connected, [found EXCEPT !["MDns"] = add_peers(@, list, "MDns")],
                       cooldown, dialing, disturbances)
    /\ UNCHANGED <<strays, links, inbound, host, past, halted, restarts>>

\* A query ends, with peers or with none; no search follows.
KademliaProgressed ==
    /\ ~halted /\ query
    /\ query' = FALSE
    /\ \/ UNCHANGED found
       \/ \E list \in Discoveries :
             found' = [found EXCEPT !["Kademlia"] = add_peers(@, list, "Kademlia")]
    /\ UNCHANGED <<connected, cooldown, dialing, strays, links, inbound, host, past, halted, restarts,
                   disturbances>>

\* The operator adds a peer: it goes to the list of Kademlia.
AddPeer(a) ==
    /\ ~halted /\ disturbances < MaxDisturbances
    /\ search_new_peer(connected, [found EXCEPT !["Kademlia"] = add_peer(@, a, <<>>, "Kademlia")],
                       cooldown, dialing, disturbances + 1)
    /\ UNCHANGED <<strays, links, inbound, host, past, halted, restarts>>

\* The operator removes a peer; its connections are told to close.
RemovePeer(p) ==
    /\ ~halted /\ disturbances < MaxDisturbances
    /\ remove_connected_peer(p, disturbances + 1)
    /\ UNCHANGED <<strays, links, inbound, host, past, halted, restarts>>

\* The environment: a peer dials this node, a peer starts again with a new
\* id (bounded to the case that all have one address), time goes by.
Accept(p) ==
    /\ ~halted /\ disturbances < MaxDisturbances
    /\ disturbances' = disturbances + 1
    /\ inbound' = [inbound EXCEPT ![p] = @ + 1]
    /\ UNCHANGED <<status, swarm, links, host, past, halted, restarts>>

\* The query of Kademlia dials the peers that it learns of, and gossipsub the
\* explicit peers that it has lost: any address, at any time.
BehaviourDials(a) ==
    /\ ~halted /\ disturbances < MaxDisturbances
    /\ disturbances' = disturbances + 1
    /\ strays' = [strays EXCEPT ![a] = @ + 1]
    /\ UNCHANGED <<status, query, dialing, links, inbound, host, past, halted, restarts>>

PeerRestarts(p) ==
    /\ ~halted /\ restarts < MaxRestarts /\ IsInjective(host)
    /\ restarts' = restarts + 1
    /\ p \in Range(host)
    /\ \E q \in Peers \ (Range(host) \cup UNION Range(past)) :
            host' = [a \in Addrs |-> IF host[a] = p THEN q ELSE host[a]]
    /\ past' = [a \in Addrs |-> IF host[a] = p THEN past[a] \cup {p} ELSE past[a]]
    /\ UNCHANGED <<status, swarm, links, inbound, halted, disturbances>>

CooldownEnds(a) ==
    /\ a \in cooldown
    /\ cooldown' = cooldown \ {a}
    /\ UNCHANGED <<connected, found, swarm, links, inbound, host, past, halted, restarts, disturbances>>

Dialled(a) == ConnectionEstablished(a) \/ OutgoingConnectionError(a)

Next ==
    \/ DiscoverPeers \/ KademliaProgressed
    \/ \E list \in Discoveries : MdnsDiscovered(list)
    \/ \E a \in Addrs : \/ ConnectionEstablished(a) \/ OutgoingConnectionError(a)
                        \/ AddPeer(a) \/ BehaviourDials(a) \/ CooldownEnds(a)
    \/ \E p \in Peers : ConnectionClosed(p) \/ RemovePeer(p) \/ Accept(p) \/ PeerRestarts(p)

\* The timer fires, dials have an outcome and cooldowns end.
Spec ==
    /\ Init /\ [][Next]_vars
    /\ WF_vars(DiscoverPeers)
    /\ \A a \in Addrs : WF_vars(Dialled(a)) /\ WF_vars(CooldownEnds(a))

-----------------------------------------------------------------------------
(* Properties.                                                             *)

Busy(a) == dialing[a] > 0 \/ \E p \in Peers : links[a][p] > 0

\* An address that has failed is left alone until its cooldown has ended, by
\* whichever list it is found again (discovery_status.rs:59-77).
CooldownRespected == [][\A a \in cooldown' : dialing'[a] <= dialing[a]]_vars

\* Every peer has one address, and neither the operator nor a peer that dials
\* this node nor a dial of Kademlia's or gossipsub's own nor an error other than
\* the transport's has interfered so far.
Undisturbed == IsInjective(host) /\ disturbances = 0

\* As long as nothing interferes, connected_peers is what the swarm does: its
\* addresses are the ones that are dialled or connected, each once, and a
\* connected one is listed under its peer's id (mod.rs:163-201,
\* peer_list.rs:82-110).
StatusMatchesSwarm ==
    Undisturbed =>
        /\ ~halted
        /\ DOMAIN connected.addrs = {a \in Addrs : Busy(a)}
        /\ \A a \in Addrs, p \in Peers :
              links[a][p] > 0 => /\ links[a][p] = 1 /\ dialing[a] = 0
                                 /\ connected.addrs[a].peer = <<p>>
                                 /\ p \in DOMAIN connected.peers /\ connected.peers[p] = a

\* The limits leave room for one more manual peer.  Ids that restarted peers
\* have left behind count towards out_peers (discovery_status.rs:86).
RoomForManual == ~Full(connected) /\ Allows(connected, "Manual")

\* A manual peer that is not connected is dialled again, unless something
\* interferes or the limits leave no room for it: "We are expecting them to maybe
\* be available again" (discovery_status.rs:133).
ManualPeersRetried ==
    \A a \in ManualAddrs :
        ~Busy(a) /\ Undisturbed /\ RoomForManual ~> Busy(a) \/ ~Undisturbed \/ ~RoomForManual
=============================================================================
