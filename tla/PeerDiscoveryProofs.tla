------------------------ MODULE PeerDiscoveryProofs ------------------------
(***************************************************************************)
(* Proofs about PeerDiscovery, for any addresses, peers, limits and number *)
(* of restarts.                                                            *)
(*                                                                         *)
(* That connected_peers matches the swarm rests on what the lists may hold *)
(* about an id: an id is only ever listed under the address whose peer has *)
(* it or had it before a restart.  A list may well be out of date, but an  *)
(* entry that is out of date then never stands for the connection of       *)
(* another address, and removing it forgets no other connection.           *)
(***************************************************************************)
EXTENDS PeerDiscovery, TLAPS

-----------------------------------------------------------------------------
\* Who has, or had, an id.
Own == {o \in Addrs \X Peers : host[o[1]] = o[2] \/ o[2] \in past[o[1]]}

\* An entry of addr_to_peer: without an id, or with one of the address.
Entry(info, a, own) == info.peer = <<>> \/ \E p \in Peers : info.peer = <<p>> /\ <<a, p>> \in own

\* A list that holds nothing else.
Known(list, own) ==
    /\ DOMAIN list.addrs \subseteq Addrs
    /\ \A a \in DOMAIN list.addrs : Entry(list.addrs[a], a, own)
    /\ \A p \in DOMAIN list.peers : <<list.peers[p], p>> \in own

\* No id belongs to two addresses.
Apart(own) == \A a, b \in Addrs, p \in Peers : <<a, p>> \in own /\ <<b, p>> \in own => a = b

\* The first part of the inductive invariant: types and what lists may hold.
ListsKnown ==
    /\ Known(connected, Own)
    /\ DOMAIN found = FoundTypes
    /\ \A t \in FoundTypes : Known(found[t], Own)
    /\ cooldown \subseteq Addrs
    /\ dialing \in [Addrs -> Nat]
    /\ links \in [Addrs -> [Peers -> Nat]]
    /\ inbound \in [Peers -> Nat]
    /\ host \in [Addrs -> Peers]
    /\ past \in [Addrs -> SUBSET Peers]
    /\ disturbances \in Nat

\* A list matches the dials and the connections.
Matches(list, dials, conns) ==
    /\ DOMAIN list.addrs = {a \in Addrs : dials[a] > 0 \/ \E p \in Peers : conns[a][p] > 0}
    /\ \A a \in Addrs : dials[a] <= 1
    /\ \A a \in Addrs, p \in Peers :
          conns[a][p] > 0 => /\ conns[a][p] = 1 /\ dials[a] = 0
                             /\ list.addrs[a].peer = <<p>>
                             /\ p \in DOMAIN list.peers /\ list.peers[p] = a

\* The second part, as long as nothing interferes.
SwarmInv ==
    Undisturbed =>
        /\ ~halted
        /\ Apart(Own)
        /\ \A p \in Peers : inbound[p] = 0
        /\ \A a \in Addrs : strays[a] = 0
        /\ Matches(connected, dialing, links)

-----------------------------------------------------------------------------
\* The operations of a list.

LEMMA EmptyKnown == \A own : Known(EmptyList, own)
BY DEF EmptyList, EmptyMap, Known

LEMMA AddKnown ==
    ASSUME NEW own, NEW list, Known(list, own), NEW a \in Addrs, NEW peer, NEW type,
           Entry([peer |-> peer, type |-> type], a, own)
    PROVE  Known(add_peer(list, a, peer, type), own)
<1> DEFINE info == [peer |-> peer, type |-> type]
           new == add_peer(list, a, peer, type)
<1>1. /\ new.addrs = insert(list.addrs, a, info)
      /\ new.peers = IF peer = <<>> THEN list.peers ELSE insert(list.peers, peer[1], a)
  BY Zenon DEF add_peer
<1>2. peer = <<>> \/ <<a, peer[1]>> \in own
  <2>1. peer = <<>> \/ \E p \in Peers : peer = <<p>> /\ <<a, p>> \in own
    BY DEF Entry
  <2>2. ASSUME NEW p, peer = <<p>>
        PROVE  peer[1] = p
    BY <2>2
  <2> QED BY <2>1, <2>2, Zenon
<1> HIDE DEF info, new
<1>3. /\ DOMAIN new.addrs \subseteq Addrs
      /\ \A x \in DOMAIN new.addrs : Entry(new.addrs[x], x, own)
  BY <1>1 DEF Known, insert, info
<1>4. \A p \in DOMAIN new.peers : <<new.peers[p], p>> \in own
  BY <1>1, <1>2 DEF Known, insert
<1> QED BY <1>3, <1>4, Zenon DEF Known, new

LEMMA RemoveKnown ==
    ASSUME NEW own, NEW list, Known(list, own)
    PROVE  /\ \A a : Known(remove_peer_by_addr(list, a), own)
           /\ \A p : Known(remove_peer_by_id(list, p), own)
<1>1. ASSUME NEW a
      PROVE  Known(remove_peer_by_addr(list, a), own)
  BY Zenon DEF Known, remove_peer_by_addr, remove, Restrict
<1>2. ASSUME NEW p
      PROVE  Known(remove_peer_by_id(list, p), own)
  BY Zenon DEF Known, remove_peer_by_id, remove, Restrict
<1> QED BY <1>1, <1>2

\* A set of positions that is not empty has a last one (LastExists).
LastPositions == \A n \in Nat : \A S \in SUBSET (1..n) : S # {} => \E k \in S : \A j \in S : j <= k

\* An address that a discovery reports is reported with the id of its peer.
LEMMA AddAllKnown ==
    ASSUME LastPositions, ListsKnown, NEW list, Known(list, Own), NEW addrs \in Discoveries,
           NEW type
    PROVE  Known(add_peers(list, addrs, type), Own)
<1> DEFINE ids == {host[a] : a \in Range(addrs)}
           LastOf(p) == CHOOSE k \in DOMAIN addrs :
                            /\ host[addrs[k]] = p
                            /\ \A j \in DOMAIN addrs : host[addrs[j]] = p => j <= k
           new == add_peers(list, addrs, type)
<1>1. PICK n \in 1..MaxFound : addrs \in [1..n -> Addrs]
  BY DEF Discoveries
<1>2. n \in Nat /\ DOMAIN addrs = 1..n /\ Range(addrs) \subseteq Addrs
  BY <1>1, DiscoveryAssumption DEF Range
<1>3. /\ new.addrs = [a \in DOMAIN list.addrs \cup Range(addrs) |->
                          IF a \in Range(addrs) THEN [peer |-> <<host[a]>>, type |-> type]
                          ELSE list.addrs[a]]
      /\ new.peers = [p \in DOMAIN list.peers \cup ids |->
                          IF p \in ids THEN addrs[LastOf(p)] ELSE list.peers[p]]
  BY Zenon DEF add_peers
<1>4. \A a \in Addrs : host[a] \in Peers /\ <<a, host[a]>> \in Own
  BY DEF ListsKnown, Own
<1>5. ASSUME NEW p \in ids
      PROVE  <<addrs[LastOf(p)], p>> \in Own
  <2> DEFINE S == {k \in 1..n : host[addrs[k]] = p}
  <2>1. PICK k0 \in 1..n : host[addrs[k0]] = p
    BY <1>2, <1>5 DEF Range
  <2>2. \E k \in S : \A j \in S : j <= k
    BY <1>2, <2>1, Zenon DEF LastPositions
  <2>3. LastOf(p) \in DOMAIN addrs /\ host[addrs[LastOf(p)]] = p
    BY <1>2, <2>2
  <2> HIDE DEF LastOf
  <2> QED BY <1>1, <1>2, <1>4, <2>3, Zenon
<1> HIDE DEF ids, LastOf, new
<1>6. /\ DOMAIN new.addrs \subseteq Addrs
      /\ \A a \in DOMAIN new.addrs : Entry(new.addrs[a], a, Own)
  <2>1. \A a \in Range(addrs) : Entry([peer |-> <<host[a]>>, type |-> type], a, Own)
    BY <1>2, <1>4, Zenon DEF Entry
  <2> QED BY <1>2, <1>3, <2>1, Zenon DEF Known
<1>7. \A p \in DOMAIN new.peers : <<new.peers[p], p>> \in Own
  BY <1>3, <1>5, Zenon DEF Known
<1> QED BY <1>6, <1>7, Zenon DEF Known, new


-----------------------------------------------------------------------------
\* What search_new_peer does: nothing to the list, or one address more that is
\* neither in use nor cooling down, which is dialled unless that fails at once.
Dials(list, cool, dials, n, own, a, peer, type) ==
    /\ a \in Addrs /\ a \notin DOMAIN list.addrs /\ a \notin cool
    /\ Entry([peer |-> peer, type |-> type], a, own)
    /\ connected' = add_peer(list, a, peer, type)
    /\ \/ dialing' = [dials EXCEPT ![a] = @ + 1] /\ disturbances' = n
       \/ dialing' = dials /\ disturbances' = n + 1

Searched(list, cool, dials, n, own) ==
    \/ connected' = list /\ dialing' = dials /\ disturbances' = n
    \/ \E a, peer, type : Dials(list, cool, dials, n, own, a, peer, type)

LEMMA SearchDials ==
    ASSUME NEW own, NEW list, NEW f, \A t \in FoundTypes : Known(f[t], own),
           NEW cool, NEW dials, NEW n, search_new_peer(list, f, cool, dials, n)
    PROVE  found' = f /\ cooldown' = cool /\ Searched(list, cool, dials, n, own)
<1>1. found' = f /\ cooldown' = cool
  BY Zenon DEF search_new_peer
<1>2. ASSUME NEW k \in DOMAIN Types, NEW a \in Usable(list, f, cool, Types[k]),
             connected' = add_peer(list, a, f[Types[k]].addrs[a].peer, Types[k]),
             \/ dialing' = [dials EXCEPT ![a] = @ + 1] /\ disturbances' = n
             \/ n < MaxDisturbances /\ dialing' = dials /\ disturbances' = n + 1
      PROVE  Searched(list, cool, dials, n, own)
  <2> DEFINE t == Types[k]
             peer == f[t].addrs[a].peer
  <2>1. t \in FoundTypes
    BY DEF Types, FoundTypes
  <2>2. a \in DOMAIN f[t].addrs /\ a \notin DOMAIN list.addrs /\ a \notin cool
    BY <1>2, Zenon DEF Usable, is_unused_addr
  <2>3. a \in Addrs /\ Entry(f[t].addrs[a], a, own)
    BY <2>1, <2>2, Zenon DEF Known
  <2>4. Entry([peer |-> peer, type |-> t], a, own)
    BY <2>3, Zenon DEF Entry
  <2>5. Dials(list, cool, dials, n, own, a, peer, t)
    BY <1>2, <2>2, <2>3, <2>4, Zenon DEF Dials
  <2> QED BY <2>5, Zenon DEF Searched
<1>3. \/ \E k \in DOMAIN Types : \E a \in Usable(list, f, cool, Types[k]) :
            /\ connected' = add_peer(list, a, f[Types[k]].addrs[a].peer, Types[k])
            /\ \/ dialing' = [dials EXCEPT ![a] = @ + 1] /\ disturbances' = n
               \/ n < MaxDisturbances /\ dialing' = dials /\ disturbances' = n + 1
      \/ connected' = list /\ dialing' = dials /\ disturbances' = n
  BY Zenon DEF search_new_peer
<1>4. Searched(list, cool, dials, n, own)
  BY <1>2, <1>3, Zenon DEF Searched
<1> QED BY <1>1, <1>4

\* The search keeps the lists, the dials and the count of disturbances in order.
LEMMA SearchKeeps ==
    ASSUME NEW own, NEW list, Known(list, own), NEW cool, NEW dials \in [Addrs -> Nat],
           NEW n \in Nat, Searched(list, cool, dials, n, own)
    PROVE  /\ Known(connected', own)
           /\ dialing' \in [Addrs -> Nat]
           /\ disturbances' \in Nat
           /\ \A x \in Addrs : x \in cool => dialing'[x] = dials[x]
<1>1. CASE connected' = list /\ dialing' = dials /\ disturbances' = n
  BY <1>1
<1>2. ASSUME NEW a, NEW peer, NEW type, Dials(list, cool, dials, n, own, a, peer, type)
      PROVE  /\ Known(connected', own)
             /\ dialing' \in [Addrs -> Nat]
             /\ disturbances' \in Nat
             /\ \A x \in Addrs : x \in cool => dialing'[x] = dials[x]
  <2>1. Known(connected', own)
    BY <1>2, AddKnown DEF Dials
  <2>2. dialing' \in [Addrs -> Nat] /\ disturbances' \in Nat
    BY <1>2 DEF Dials
  <2>3. \A x \in Addrs : x \in cool => dialing'[x] = dials[x]
    BY <1>2 DEF Dials
  <2> QED BY <2>1, <2>2, <2>3
<1> QED BY <1>1, <1>2 DEF Searched


-----------------------------------------------------------------------------
\* No address is dialled that cools down after the step.
Rested == \A a \in cooldown' : dialing'[a] <= dialing[a]

LEMMA OwnSame ==
    ASSUME UNCHANGED <<host, past>>
    PROVE  Own' = Own
BY DEF Own

\* An event of the loop, which leaves a list, found lists, cooldowns, dials and
\* a count of disturbances to the search.
LEMMA EventKeeps ==
    ASSUME ListsKnown, NEW list, Known(list, Own), NEW f, DOMAIN f = FoundTypes,
           \A t \in FoundTypes : Known(f[t], Own), NEW cool \in SUBSET Addrs,
           NEW dials \in [Addrs -> Nat], \A x \in Addrs : dials[x] <= dialing[x], NEW n \in Nat,
           search_new_peer(list, f, cool, dials, n), UNCHANGED <<host, past>>,
           links' \in [Addrs -> [Peers -> Nat]], inbound' \in [Peers -> Nat]
    PROVE  ListsKnown' /\ Rested
<1>1. found' = f /\ cooldown' = cool /\ Searched(list, cool, dials, n, Own)
  BY SearchDials, Zenon
<1>2. /\ Known(connected', Own) /\ dialing' \in [Addrs -> Nat] /\ disturbances' \in Nat
      /\ \A x \in Addrs : x \in cool => dialing'[x] = dials[x]
  BY <1>1, SearchKeeps
<1>3. Own' = Own
  BY OwnSame, Zenon
<1>4. ListsKnown'
  BY <1>1, <1>2, <1>3, Zenon DEF ListsKnown
<1>5. Rested
  BY <1>1, <1>2, Zenon DEF Rested
<1> QED BY <1>4, <1>5

\* What a found list forgets.
LEMMA ForgetKnown ==
    ASSUME ListsKnown
    PROVE  /\ \A p : LET f == remove_connected_by_id(connected, found, p)
                     IN  DOMAIN f = FoundTypes /\ \A t \in FoundTypes : Known(f[t], Own)
           /\ \A a : LET f == remove_connected_by_addr(connected, found, a)
                     IN  DOMAIN f = FoundTypes /\ \A t \in FoundTypes : Known(f[t], Own)
<1>1. ASSUME NEW type, NEW list, type \in FoundTypes => Known(list, Own)
      PROVE  /\ DOMAIN Forget(found, type, list) = FoundTypes
             /\ \A t \in FoundTypes : Known(Forget(found, type, list)[t], Own)
  BY <1>1 DEF Forget, ListsKnown
<1>2. ASSUME NEW type \in FoundTypes
      PROVE  /\ \A p : Known(remove_peer_by_id(found[type], p), Own)
             /\ \A a : Known(remove_peer_by_addr(found[type], a), Own)
  BY RemoveKnown DEF ListsKnown
<1>3. ASSUME NEW p
      PROVE  LET f == remove_connected_by_id(connected, found, p)
             IN  DOMAIN f = FoundTypes /\ \A t \in FoundTypes : Known(f[t], Own)
  <2>1. CASE p \in DOMAIN connected.peers /\ connected.peers[p] \in DOMAIN connected.addrs
    <3> DEFINE type == connected.addrs[connected.peers[p]].type
               list == remove_peer_by_id(found[type], p)
    <3>1. remove_connected_by_id(connected, found, p) = Forget(found, type, list)
      BY <2>1 DEF remove_connected_by_id
    <3>2. type \in FoundTypes => Known(list, Own)
      BY <1>2, Zenon
    <3> HIDE DEF type, list
    <3> QED BY <1>1, <3>1, <3>2
  <2>2. CASE ~(p \in DOMAIN connected.peers /\ connected.peers[p] \in DOMAIN connected.addrs)
    BY <2>2, Zenon DEF remove_connected_by_id, ListsKnown
  <2> QED BY <2>1, <2>2
<1>4. ASSUME NEW a
      PROVE  LET f == remove_connected_by_addr(connected, found, a)
             IN  DOMAIN f = FoundTypes /\ \A t \in FoundTypes : Known(f[t], Own)
  <2>1. CASE a \in DOMAIN connected.addrs
    <3> DEFINE type == connected.addrs[a].type
               list == remove_peer_by_addr(found[type], a)
    <3>1. remove_connected_by_addr(connected, found, a) = Forget(found, type, list)
      BY <2>1 DEF remove_connected_by_addr
    <3>2. type \in FoundTypes => Known(list, Own)
      BY <1>2
    <3> HIDE DEF type, list
    <3> QED BY <1>1, <3>1, <3>2
  <2>2. CASE a \notin DOMAIN connected.addrs
    BY <2>2 DEF remove_connected_by_addr, ListsKnown
  <2> QED BY <2>1, <2>2
<1> QED BY <1>3, <1>4, Zenon


\* A dial of an address that has an outcome.
LEMMA DialEnds ==
    ASSUME ListsKnown, NEW a \in Addrs, NEW dials, Answered(a, dials)
    PROVE  dials \in [Addrs -> Nat] /\ \A x \in Addrs : dials[x] <= dialing[x]
<1>1. dialing \in [Addrs -> Nat]
  BY DEF ListsKnown
<1>2. CASE dialing[a] > 0 /\ dials = [dialing EXCEPT ![a] = @ - 1]
  BY <1>1, <1>2
<1>3. CASE dials = dialing
  BY <1>1, <1>3
<1> QED BY <1>2, <1>3 DEF Answered

LEMMA EstablishedKnown ==
    ASSUME ListsKnown, NEW a \in Addrs, a \in DOMAIN connected.addrs
    PROVE  Known(set_peer_id(connected, a, host[a]), Own)
<1>1. host[a] \in Peers /\ <<a, host[a]>> \in Own
  BY DEF ListsKnown, Own
<1>2. Entry([peer |-> <<host[a]>>, type |-> connected.addrs[a].type], a, Own)
  BY <1>1 DEF Entry
<1> QED BY <1>2, AddKnown DEF set_peer_id, ListsKnown

LEMMA RestartsKnown ==
    ASSUME ListsKnown, NEW p \in Peers, PeerRestarts(p)
    PROVE  ListsKnown'
<1>1. PICK q \in Peers : host' = [a \in Addrs |-> IF host[a] = p THEN q ELSE host[a]]
  BY DEF PeerRestarts
<1>2. /\ past' = [a \in Addrs |-> IF host[a] = p THEN past[a] \cup {p} ELSE past[a]]
      /\ UNCHANGED <<connected, found, cooldown, dialing, links, inbound, disturbances>>
  BY DEF PeerRestarts, status, swarm
<1>3. host' \in [Addrs -> Peers] /\ past' \in [Addrs -> SUBSET Peers]
  BY <1>1, <1>2 DEF ListsKnown
<1>4. Own \subseteq Own'
  <2> SUFFICES ASSUME NEW a \in Addrs, NEW x \in Peers, host[a] = x \/ x \in past[a]
               PROVE  host'[a] = x \/ x \in past'[a]
    BY DEF Own
  <2> QED BY <1>1, <1>2, Zenon
<1>5. ASSUME NEW list, Known(list, Own)
      PROVE  Known(list, Own')
  BY <1>4, <1>5, Zenon DEF Known, Entry
<1>6. Known(connected, Own') /\ \A t \in FoundTypes : Known(found[t], Own')
  BY <1>5 DEF ListsKnown
<1> QED BY <1>2, <1>3, <1>6 DEF ListsKnown

\* Every step keeps the lists in order and leaves alone what cools down.
LEMMA KnownStep ==
    ASSUME LastPositions, ListsKnown, [Next]_vars
    PROVE  ListsKnown' /\ Rested
<1>1. /\ Known(connected, Own) /\ DOMAIN found = FoundTypes
      /\ \A t \in FoundTypes : Known(found[t], Own)
      /\ cooldown \in SUBSET Addrs /\ dialing \in [Addrs -> Nat] /\ disturbances \in Nat
      /\ links \in [Addrs -> [Peers -> Nat]] /\ inbound \in [Peers -> Nat]
      /\ \A x \in Addrs : dialing[x] <= dialing[x]
  BY DEF ListsKnown
<1>2. disturbances + 1 \in Nat
  BY <1>1
<1>3. CASE DiscoverPeers
  BY <1>1, <1>3, EventKeeps, Zenon DEF DiscoverPeers
<1>4. CASE KademliaProgressed
  <2>1. UNCHANGED <<connected, cooldown, dialing, links, inbound, host, past, disturbances>>
    BY <1>4 DEF KademliaProgressed
  <2>2. DOMAIN found' = FoundTypes /\ \A t \in FoundTypes : Known(found'[t], Own)
    <3>1. ASSUME NEW list \in Discoveries,
                 found' = [found EXCEPT !["Kademlia"] = add_peers(@, list, "Kademlia")]
          PROVE  DOMAIN found' = FoundTypes /\ \A t \in FoundTypes : Known(found'[t], Own)
      <4>1. Known(add_peers(found["Kademlia"], list, "Kademlia"), Own)
        BY <1>1, AddAllKnown DEF FoundTypes
      <4> QED BY <1>1, <3>1, <4>1
    <3> QED BY <1>1, <1>4, <3>1 DEF KademliaProgressed
  <2>3. Own' = Own
    BY <2>1, OwnSame
  <2> QED BY <1>1, <2>1, <2>2, <2>3 DEF ListsKnown, Rested
<1>5. ASSUME NEW list \in Discoveries, MdnsDiscovered(list)
      PROVE  ListsKnown' /\ Rested
  <2> DEFINE f == [found EXCEPT !["MDns"] = add_peers(@, list, "MDns")]
  <2>1. Known(add_peers(found["MDns"], list, "MDns"), Own)
    BY <1>1, AddAllKnown DEF FoundTypes
  <2>2. DOMAIN f = FoundTypes /\ \A t \in FoundTypes : Known(f[t], Own)
    BY <1>1, <2>1
  <2>3. search_new_peer(connected, f, cooldown, dialing, disturbances)
    BY <1>5 DEF MdnsDiscovered
  <2>4. UNCHANGED <<links, inbound, host, past>>
    BY <1>5 DEF MdnsDiscovered
  <2> HIDE DEF f
  <2> QED BY <1>1, <2>2, <2>3, <2>4, EventKeeps, Zenon
<1>6. ASSUME NEW a \in Addrs, ConnectionEstablished(a)
      PROVE  ListsKnown' /\ Rested
  <2> DEFINE list == set_peer_id(connected, a, host[a])
  <2>0. PICK dials :
            /\ Answered(a, dials)
            /\ \/ /\ a \in DOMAIN connected.addrs
                  /\ search_new_peer(list, found, cooldown, dials, disturbances)
               \/ /\ a \notin DOMAIN connected.addrs
                  /\ dialing' = dials /\ UNCHANGED <<status, query, disturbances>>
    BY <1>6, Zenon DEF ConnectionEstablished
  <2>1. /\ dials \in [Addrs -> Nat] /\ \A x \in Addrs : dials[x] <= dialing[x]
        /\ UNCHANGED <<inbound, host, past>> /\ links' = [links EXCEPT ![a][host[a]] = @ + 1]
    BY <1>6, <2>0, DialEnds DEF ConnectionEstablished
  <2>2. links' \in [Addrs -> [Peers -> Nat]]
    BY <1>1, <2>1 DEF ListsKnown
  <2>3. CASE a \in DOMAIN connected.addrs
    <3>1. Known(list, Own) /\ search_new_peer(list, found, cooldown, dials, disturbances)
      BY <2>0, <2>3, EstablishedKnown
    <3> HIDE DEF list
    <3> QED BY <1>1, <2>1, <2>2, <3>1, EventKeeps, Zenon
  <2>4. CASE a \notin DOMAIN connected.addrs
    <3>1. dialing' = dials /\ UNCHANGED <<connected, found, cooldown, disturbances>>
      BY <2>0, <2>4 DEF status
    <3>2. Own' = Own
      BY <2>1, OwnSame
    <3> QED BY <1>1, <2>1, <2>2, <3>1, <3>2 DEF ListsKnown, Rested
  <2> QED BY <2>3, <2>4
<1>7. ASSUME NEW a \in Addrs, OutgoingConnectionError(a)
      PROVE  ListsKnown' /\ Rested
  <2> DEFINE list == remove_peer_by_addr(connected, a)
             f == remove_connected_by_addr(connected, found, a)
  <2>0. PICK dials :
            /\ Answered(a, dials)
            /\ \/ search_new_peer(list, f, cooldown \cup {a}, dials, disturbances)
               \/ search_new_peer(connected, found, cooldown, dials, disturbances + 1)
    BY <1>7, Zenon DEF OutgoingConnectionError
  <2>1. /\ dials \in [Addrs -> Nat] /\ \A x \in Addrs : dials[x] <= dialing[x]
        /\ UNCHANGED <<links, inbound, host, past>>
    BY <1>7, <2>0, DialEnds DEF OutgoingConnectionError
  <2>2. /\ Known(list, Own) /\ DOMAIN f = FoundTypes /\ \A t \in FoundTypes : Known(f[t], Own)
        /\ cooldown \cup {a} \in SUBSET Addrs
    BY <1>1, RemoveKnown, ForgetKnown, Zenon
  <2>3. \/ search_new_peer(list, f, cooldown \cup {a}, dials, disturbances)
        \/ search_new_peer(connected, found, cooldown, dials, disturbances + 1)
    BY <2>0
  <2> HIDE DEF list, f
  <2>4. CASE search_new_peer(list, f, cooldown \cup {a}, dials, disturbances)
    BY <1>1, <2>1, <2>2, <2>4, EventKeeps, Zenon
  <2>5. CASE search_new_peer(connected, found, cooldown, dials, disturbances + 1)
    BY <1>1, <1>2, <2>1, <2>5, EventKeeps, Zenon
  <2> QED BY <2>3, <2>4, <2>5
<1>8. ASSUME NEW a \in Addrs, AddPeer(a)
      PROVE  ListsKnown' /\ Rested
  <2> DEFINE new == add_peer(found["Kademlia"], a, <<>>, "Kademlia")
             f == [found EXCEPT !["Kademlia"] = new]
  <2>1. Known(new, Own)
    <3>1. Entry([peer |-> <<>>, type |-> "Kademlia"], a, Own) /\ Known(found["Kademlia"], Own)
      BY <1>1 DEF Entry, FoundTypes
    <3> QED BY <3>1, AddKnown
  <2>2. DOMAIN f = FoundTypes /\ \A t \in FoundTypes : Known(f[t], Own)
    <3> HIDE DEF new
    <3> QED BY <1>1, <2>1
  <2>3. search_new_peer(connected, f, cooldown, dialing, disturbances + 1)
    BY <1>8 DEF AddPeer
  <2>4. UNCHANGED <<links, inbound, host, past>>
    BY <1>8 DEF AddPeer
  <2> HIDE DEF f
  <2> QED BY <1>1, <1>2, <2>2, <2>3, <2>4, EventKeeps, Zenon
<1>9. ASSUME NEW p \in Peers, ConnectionClosed(p) \/ RemovePeer(p)
      PROVE  ListsKnown' /\ Rested
  <2> DEFINE list == remove_peer_by_id(connected, p)
             f == remove_connected_by_id(connected, found, p)
  <2>1. Known(list, Own) /\ DOMAIN f = FoundTypes /\ \A t \in FoundTypes : Known(f[t], Own)
    BY <1>1, RemoveKnown, ForgetKnown, Zenon
  <2>2. PICK n \in Nat : search_new_peer(list, f, cooldown, dialing, n)
    BY <1>1, <1>2, <1>9, Zenon DEF ConnectionClosed, RemovePeer, remove_connected_peer
  <2>3. UNCHANGED <<host, past>>
    BY <1>9 DEF ConnectionClosed, RemovePeer
  <2>4. links' \in [Addrs -> [Peers -> Nat]] /\ inbound' \in [Peers -> Nat]
    <3>1. CASE ConnectionClosed(p)
      <4>1. CASE inbound[p] > 0 /\ inbound' = [inbound EXCEPT ![p] = @ - 1] /\ UNCHANGED links
        BY <1>1, <4>1
      <4>2. CASE UNCHANGED inbound /\ \E a \in Addrs :
                    links[a][p] > 0 /\ links' = [links EXCEPT ![a][p] = @ - 1]
        BY <1>1, <4>2
      <4> QED BY <3>1, <4>1, <4>2, Zenon DEF ConnectionClosed
    <3>2. CASE RemovePeer(p)
      BY <1>1, <3>2 DEF RemovePeer
    <3> QED BY <1>9, <3>1, <3>2, Zenon
  <2> HIDE DEF list, f
  <2> QED BY <1>1, <2>1, <2>2, <2>3, <2>4, EventKeeps, Zenon
<1>10. ASSUME NEW p \in Peers, PeerRestarts(p)
       PROVE  ListsKnown' /\ Rested
  <2>1. UNCHANGED <<cooldown, dialing>>
    BY <1>10 DEF PeerRestarts, status, swarm
  <2> QED BY <1>1, <1>10, <2>1, RestartsKnown DEF Rested
<1>11. ASSUME NEW p \in Peers, Accept(p)
       PROVE  ListsKnown' /\ Rested
  <2>1. /\ UNCHANGED <<connected, found, cooldown, dialing, links, host, past>>
        /\ inbound' \in [Peers -> Nat] /\ disturbances' \in Nat
    BY <1>1, <1>11 DEF Accept, status, swarm
  <2>2. Own' = Own
    BY <2>1, OwnSame
  <2> QED BY <1>1, <2>1, <2>2 DEF ListsKnown, Rested
<1>12. ASSUME NEW a \in Addrs, CooldownEnds(a)
       PROVE  ListsKnown' /\ Rested
  <2>1. /\ UNCHANGED <<connected, found, dialing, links, inbound, host, past, disturbances>>
        /\ cooldown' \in SUBSET cooldown
    BY <1>12 DEF CooldownEnds, swarm
  <2>2. Own' = Own
    BY <2>1, OwnSame
  <2> QED BY <1>1, <2>1, <2>2 DEF ListsKnown, Rested
<1>13. CASE UNCHANGED vars
  <2>1. UNCHANGED <<connected, found, cooldown, dialing, links, inbound, host, past, disturbances>>
    BY <1>13 DEF vars, status, swarm
  <2>2. Own' = Own
    BY <2>1, OwnSame
  <2> QED BY <1>1, <2>1, <2>2 DEF ListsKnown, Rested
<1>14. ASSUME NEW a \in Addrs, BehaviourDials(a)
       PROVE  ListsKnown' /\ Rested
  <2>1. /\ UNCHANGED <<connected, found, cooldown, dialing, links, inbound, host, past>>
        /\ disturbances' \in Nat
    BY <1>1, <1>14 DEF BehaviourDials, status
  <2>2. Own' = Own
    BY <2>1, OwnSame
  <2> QED BY <1>1, <2>1, <2>2 DEF ListsKnown, Rested
<1> QED BY <1>3, <1>4, <1>5, <1>6, <1>7, <1>8, <1>9, <1>10, <1>11, <1>12, <1>13, <1>14, Zenon
       DEF Next


LEMMA KnownInit ==
    ASSUME Init
    PROVE  ListsKnown
<1>1. /\ connected = EmptyList /\ cooldown = {} /\ dialing = [a \in Addrs |-> 0]
      /\ links = [a \in Addrs |-> [p \in Peers |-> 0]] /\ inbound = [p \in Peers |-> 0]
      /\ host \in [Addrs -> Peers] /\ past = [a \in Addrs |-> {}] /\ disturbances = 0
      /\ found = [t \in FoundTypes |-> IF t = "Manual" THEN from_vec(ManualAddrs) ELSE EmptyList]
  BY DiscoveryAssumption DEF Init
<1>2. Known(from_vec(ManualAddrs), Own)
  BY DiscoveryAssumption DEF from_vec, Known, Entry, EmptyMap
<1>3. DOMAIN found = FoundTypes /\ \A t \in FoundTypes : Known(found[t], Own)
  BY <1>1, <1>2, EmptyKnown
<1> QED BY <1>1, <1>3, EmptyKnown DEF ListsKnown

-----------------------------------------------------------------------------
\* The list and the swarm.

\* A connection is one of an id that the address has or had.
LEMMA ConnsOwned ==
    ASSUME NEW own, NEW list, Known(list, own), NEW dials, NEW conns, Matches(list, dials, conns),
           NEW a \in Addrs, NEW p \in Peers, conns[a][p] > 0
    PROVE  <<a, p>> \in own
BY DEF Matches, Known

Counts(dials, conns) == dials \in [Addrs -> Nat] /\ conns \in [Addrs -> [Peers -> Nat]]

\* An address is dialled, or connected to one peer, or neither.
LEMMA OneConnection ==
    ASSUME NEW list, NEW dials, NEW conns, Counts(dials, conns), Matches(list, dials, conns),
           NEW a \in Addrs
    PROVE  /\ a \notin DOMAIN list.addrs => dials[a] = 0 /\ \A p \in Peers : conns[a][p] = 0
           /\ dials[a] > 0 => dials[a] = 1 /\ \A p \in Peers : conns[a][p] = 0
           /\ \A p \in Peers : conns[a][p] > 0 =>
                /\ conns[a][p] = 1 /\ dials[a] = 0
                /\ \A q \in Peers : q # p => conns[a][q] = 0
<1>1. dials[a] \in Nat /\ \A p \in Peers : conns[a][p] \in Nat
  BY DEF Counts
<1>2. a \notin DOMAIN list.addrs => dials[a] = 0 /\ \A p \in Peers : conns[a][p] = 0
  BY <1>1 DEF Matches
<1>3. dials[a] > 0 => dials[a] = 1 /\ \A p \in Peers : conns[a][p] = 0
  BY <1>1 DEF Matches
<1>4. ASSUME NEW p \in Peers, conns[a][p] > 0
      PROVE  /\ conns[a][p] = 1 /\ dials[a] = 0
             /\ \A q \in Peers : q # p => conns[a][q] = 0
  <2>1. conns[a][p] = 1 /\ dials[a] = 0 /\ list.addrs[a].peer = <<p>>
    BY <1>4 DEF Matches
  <2>2. ASSUME NEW q \in Peers, conns[a][q] > 0
        PROVE  q = p
    <3>1. list.addrs[a].peer = <<q>>
      BY <2>2 DEF Matches
    <3> QED BY <2>1, <3>1
  <2> QED BY <1>1, <2>1, <2>2
<1> QED BY <1>2, <1>3, <1>4, Zenon

\* The search keeps the match: it dials an address that was not in use, and the
\* id that comes with the address is not one of another connection.
LEMMA SearchMatches ==
    ASSUME NEW own, Apart(own), NEW list, Known(list, own), NEW cool, NEW n \in Nat,
           NEW dials \in [Addrs -> Nat], NEW conns \in [Addrs -> [Peers -> Nat]],
           Matches(list, dials, conns), Searched(list, cool, dials, n, own), disturbances' = n
    PROVE  Matches(connected', dialing', conns)
<1>1. CASE connected' = list /\ dialing' = dials
  BY <1>1
<1>2. ASSUME NEW a, NEW peer, NEW type, Dials(list, cool, dials, n, own, a, peer, type)
      PROVE  Matches(connected', dialing', conns)
  <2> DEFINE info == [peer |-> peer, type |-> type]
  <2>1. /\ a \in Addrs /\ a \notin DOMAIN list.addrs /\ Entry(info, a, own)
        /\ dialing' = [dials EXCEPT ![a] = @ + 1]
    BY <1>2 DEF Dials
  <2>2. /\ connected'.addrs = insert(list.addrs, a, info)
        /\ connected'.peers = IF peer = <<>> THEN list.peers ELSE insert(list.peers, peer[1], a)
    BY <1>2, Zenon DEF Dials, add_peer
  <2>3. dials[a] = 0 /\ \A p \in Peers : conns[a][p] = 0
    <3>1. dials[a] \in Nat /\ \A p \in Peers : conns[a][p] \in Nat
      BY <2>1
    <3>2. ~(dials[a] > 0 \/ \E p \in Peers : conns[a][p] > 0)
      BY <2>1, Zenon DEF Matches
    <3> QED BY <3>1, <3>2
  <2>4. dialing'[a] = 1 /\ \A x \in Addrs : x # a => dialing'[x] = dials[x]
    BY <2>1, <2>3
  <2>5. DOMAIN connected'.addrs
            = {x \in Addrs : dialing'[x] > 0 \/ \E p \in Peers : conns[x][p] > 0}
    <3>1. DOMAIN connected'.addrs = DOMAIN list.addrs \cup {a}
      BY <2>2, Zenon DEF insert
    <3>2. DOMAIN list.addrs = {x \in Addrs : dials[x] > 0 \/ \E p \in Peers : conns[x][p] > 0}
      BY Zenon DEF Matches
    <3> QED BY <2>1, <2>4, <3>1, <3>2
  <2>6. \A x \in Addrs : dialing'[x] <= 1
    BY <2>4 DEF Matches
  <2>7. ASSUME NEW x \in Addrs, NEW p \in Peers, conns[x][p] > 0
        PROVE  /\ conns[x][p] = 1 /\ dialing'[x] = 0
               /\ connected'.addrs[x].peer = <<p>>
               /\ p \in DOMAIN connected'.peers /\ connected'.peers[p] = x
    <3>1. x # a
      BY <2>3, <2>7
    <3>2. /\ conns[x][p] = 1 /\ dials[x] = 0 /\ list.addrs[x].peer = <<p>>
          /\ p \in DOMAIN list.peers /\ list.peers[p] = x /\ x \in DOMAIN list.addrs
      BY <2>7, Zenon DEF Matches
    <3>3. connected'.addrs[x].peer = <<p>> /\ dialing'[x] = 0
      BY <2>2, <2>4, <3>1, <3>2, Zenon DEF insert
    <3>4. CASE peer = <<>>
      BY <2>2, <3>2, <3>3, <3>4, Zenon
    <3>5. CASE peer # <<>>
      <4>1. PICK q \in Peers : peer = <<q>> /\ <<a, q>> \in own
        BY <2>1, <3>5, Zenon DEF Entry
      <4>2. <<x, p>> \in own
        BY <2>7, ConnsOwned
      <4>3. q # p /\ peer[1] = q
        BY <2>1, <3>1, <4>1, <4>2, Zenon DEF Apart
      <4>4. connected'.peers = insert(list.peers, q, a)
        BY <2>2, <3>5, <4>3, Zenon
      <4> QED BY <3>2, <3>3, <4>3, <4>4, Zenon DEF insert
    <3> QED BY <3>4, <3>5, Zenon
  <2> QED BY <2>5, <2>6, <2>7, Zenon DEF Matches
<1> QED BY <1>1, <1>2 DEF Searched


\* A dial succeeds: set_peer_id lists the connection under the id of the peer.
LEMMA EstablishedMatches ==
    ASSUME NEW own, Apart(own), NEW list, Known(list, own),
           NEW dials \in [Addrs -> Nat], NEW conns \in [Addrs -> [Peers -> Nat]],
           Matches(list, dials, conns), NEW a \in Addrs, NEW h \in Peers, dials[a] > 0,
           <<a, h>> \in own
    PROVE  /\ a \in DOMAIN list.addrs
           /\ Matches(set_peer_id(list, a, h), [dials EXCEPT ![a] = @ - 1],
                      [conns EXCEPT ![a][h] = @ + 1])
<1> DEFINE new == set_peer_id(list, a, h)
           dials2 == [dials EXCEPT ![a] = @ - 1]
           conns2 == [conns EXCEPT ![a][h] = @ + 1]
<1>1. a \in DOMAIN list.addrs
  BY DEF Matches
<1>2. dials[a] = 1 /\ \A p \in Peers : conns[a][p] = 0
  <2>1. Counts(dials, conns)
    BY DEF Counts
  <2> QED BY <2>1, OneConnection
<1>3. /\ dials2[a] = 0 /\ conns2[a][h] = 1
      /\ \A p \in Peers : p # h => conns2[a][p] = 0
      /\ \A x \in Addrs : x # a => dials2[x] = dials[x] /\ conns2[x] = conns[x]
  BY <1>2
<1>4. /\ DOMAIN new.addrs = DOMAIN list.addrs /\ new.addrs[a].peer = <<h>>
      /\ \A x \in DOMAIN list.addrs : x # a => new.addrs[x] = list.addrs[x]
  BY <1>1, Zenon DEF set_peer_id, add_peer, insert
<1>5. new.peers = insert(list.peers, h, a)
  BY Zenon DEF set_peer_id, add_peer
<1> HIDE DEF new, dials2, conns2
<1>6. DOMAIN new.addrs = {x \in Addrs : dials2[x] > 0 \/ \E p \in Peers : conns2[x][p] > 0}
  <2>1. DOMAIN list.addrs = {x \in Addrs : dials[x] > 0 \/ \E p \in Peers : conns[x][p] > 0}
    BY Zenon DEF Matches
  <2>2. conns2[a][h] > 0 /\ DOMAIN list.addrs \subseteq Addrs
    BY <1>3, <2>1
  <2>3. \A x \in Addrs : x \in DOMAIN list.addrs <=>
            (dials2[x] > 0 \/ \E p \in Peers : conns2[x][p] > 0)
    <3>1. ASSUME NEW x \in Addrs, x # a
          PROVE  x \in DOMAIN list.addrs <=> (dials2[x] > 0 \/ \E p \in Peers : conns2[x][p] > 0)
      <4>1. dials2[x] = dials[x] /\ conns2[x] = conns[x]
        BY <1>3, <3>1, Zenon
      <4> QED BY <2>1, <4>1, Zenon
    <3> QED BY <1>1, <2>2, <3>1, Zenon
  <2> QED BY <1>4, <2>2, <2>3, Zenon
<1>7. \A x \in Addrs : dials2[x] <= 1
  BY <1>3 DEF Matches
<1>8. ASSUME NEW x \in Addrs, NEW p \in Peers, conns2[x][p] > 0
      PROVE  /\ conns2[x][p] = 1 /\ dials2[x] = 0
             /\ new.addrs[x].peer = <<p>>
             /\ p \in DOMAIN new.peers /\ new.peers[p] = x
  <2>1. CASE x = a
    BY <1>3, <1>4, <1>5, <1>8, <2>1 DEF insert
  <2>2. CASE x # a
    <3>1. conns[x][p] > 0
      BY <1>3, <1>8, <2>2, Zenon
    <3>2. /\ conns[x][p] = 1 /\ dials[x] = 0 /\ list.addrs[x].peer = <<p>>
          /\ p \in DOMAIN list.peers /\ list.peers[p] = x /\ x \in DOMAIN list.addrs
      BY <3>1, Zenon DEF Matches
    <3>3. p # h
      BY <2>2, <3>1, ConnsOwned, Zenon DEF Apart
    <3> QED BY <1>3, <1>4, <1>5, <2>2, <3>2, <3>3, Zenon DEF insert
  <2> QED BY <2>1, <2>2, Zenon
<1>9. Matches(new, dials2, conns2)
  BY <1>6, <1>7, <1>8, Zenon DEF Matches
<1> QED BY <1>1, <1>9 DEF new, dials2, conns2

\* A connection closes: remove_peer_by_id finds its address under the id.
LEMMA ClosedMatches ==
    ASSUME NEW own, Apart(own), NEW list, Known(list, own),
           NEW dials \in [Addrs -> Nat], NEW conns \in [Addrs -> [Peers -> Nat]],
           Matches(list, dials, conns), NEW a \in Addrs, NEW h \in Peers, conns[a][h] > 0
    PROVE  Matches(remove_peer_by_id(list, h), dials, [conns EXCEPT ![a][h] = @ - 1])
<1> DEFINE new == remove_peer_by_id(list, h)
           conns2 == [conns EXCEPT ![a][h] = @ - 1]
<1>1. conns[a][h] = 1 /\ dials[a] = 0 /\ \A p \in Peers : p # h => conns[a][p] = 0
  <2>1. Counts(dials, conns)
    BY DEF Counts
  <2> QED BY <2>1, OneConnection
<1>2. /\ \A p \in Peers : conns2[a][p] = 0
      /\ \A x \in Addrs : x # a => conns2[x] = conns[x]
  BY <1>1
<1>3. h \in DOMAIN list.peers /\ list.peers[h] = a
  BY Zenon DEF Matches
<1>4. new.addrs = remove(list.addrs, a) /\ new.peers = remove(list.peers, h)
  BY <1>3, Zenon DEF remove_peer_by_id
<1> HIDE DEF new, conns2
<1>5. DOMAIN new.addrs = {x \in Addrs : dials[x] > 0 \/ \E p \in Peers : conns2[x][p] > 0}
  <2>1. DOMAIN list.addrs = {x \in Addrs : dials[x] > 0 \/ \E p \in Peers : conns[x][p] > 0}
    BY DEF Matches
  <2>2. DOMAIN new.addrs = DOMAIN list.addrs \ {a}
    BY <1>4 DEF remove, Restrict
  <2> QED BY <1>1, <1>2, <2>1, <2>2
<1>6. ASSUME NEW x \in Addrs, NEW p \in Peers, conns2[x][p] > 0
      PROVE  /\ conns2[x][p] = 1 /\ dials[x] = 0
             /\ new.addrs[x].peer = <<p>>
             /\ p \in DOMAIN new.peers /\ new.peers[p] = x
  <2>1. x # a /\ conns[x][p] > 0
    BY <1>2, <1>6
  <2>2. /\ conns[x][p] = 1 /\ dials[x] = 0 /\ list.addrs[x].peer = <<p>>
        /\ p \in DOMAIN list.peers /\ list.peers[p] = x /\ x \in DOMAIN list.addrs
    BY <2>1, Zenon DEF Matches
  <2>3. p # h
    BY <1>3, <2>1, <2>2, Zenon
  <2> QED BY <1>2, <1>4, <2>1, <2>2, <2>3, Zenon DEF remove, Restrict
<1>7. \A x \in Addrs : dials[x] <= 1
  BY DEF Matches
<1> QED BY <1>5, <1>6, <1>7, Zenon DEF Matches, new, conns2

\* A dial fails: remove_peer_by_addr forgets no id of another connection.
LEMMA FailedMatches ==
    ASSUME NEW own, Apart(own), NEW list, Known(list, own),
           NEW dials \in [Addrs -> Nat], NEW conns \in [Addrs -> [Peers -> Nat]],
           Matches(list, dials, conns), NEW a \in Addrs, dials[a] > 0
    PROVE  Matches(remove_peer_by_addr(list, a), [dials EXCEPT ![a] = @ - 1], conns)
<1> DEFINE new == remove_peer_by_addr(list, a)
           dials2 == [dials EXCEPT ![a] = @ - 1]
<1>1. dials[a] = 1 /\ \A p \in Peers : conns[a][p] = 0
  <2>1. Counts(dials, conns)
    BY DEF Counts
  <2> QED BY <2>1, OneConnection
<1>2. dials2[a] = 0 /\ \A x \in Addrs : x # a => dials2[x] = dials[x]
  BY <1>1
<1>3. /\ new.addrs = remove(list.addrs, a)
      /\ \/ new.peers = list.peers
         \/ \E q \in Peers : <<a, q>> \in own /\ new.peers = remove(list.peers, q)
  <2>1. /\ new.addrs = remove(list.addrs, a)
        /\ new.peers = IF a \in DOMAIN list.addrs /\ list.addrs[a].peer # <<>>
                       THEN remove(list.peers, list.addrs[a].peer[1]) ELSE list.peers
    BY Zenon DEF remove_peer_by_addr
  <2>2. ASSUME a \in DOMAIN list.addrs, list.addrs[a].peer # <<>>
        PROVE  \E q \in Peers : <<a, q>> \in own /\ list.addrs[a].peer[1] = q
    <3>1. PICK q \in Peers : list.addrs[a].peer = <<q>> /\ <<a, q>> \in own
      BY <2>2, Zenon DEF Known, Entry
    <3>2. list.addrs[a].peer[1] = q
      BY <3>1
    <3> QED BY <3>1, <3>2, Zenon
  <2> HIDE DEF new
  <2> QED BY <2>1, <2>2, Zenon
<1> HIDE DEF new, dials2
<1>4. DOMAIN new.addrs = {x \in Addrs : dials2[x] > 0 \/ \E p \in Peers : conns[x][p] > 0}
  <2>1. DOMAIN list.addrs = {x \in Addrs : dials[x] > 0 \/ \E p \in Peers : conns[x][p] > 0}
    BY Zenon DEF Matches
  <2>2. DOMAIN new.addrs = DOMAIN list.addrs \ {a}
    BY <1>3 DEF remove, Restrict
  <2> QED BY <1>1, <1>2, <2>1, <2>2
<1>5. \A x \in Addrs : dials2[x] <= 1
  BY <1>2 DEF Matches
<1>6. ASSUME NEW x \in Addrs, NEW p \in Peers, conns[x][p] > 0
      PROVE  /\ conns[x][p] = 1 /\ dials2[x] = 0
             /\ new.addrs[x].peer = <<p>>
             /\ p \in DOMAIN new.peers /\ new.peers[p] = x
  <2>1. x # a
    BY <1>1, <1>6
  <2>2. /\ conns[x][p] = 1 /\ dials[x] = 0 /\ list.addrs[x].peer = <<p>>
        /\ p \in DOMAIN list.peers /\ list.peers[p] = x /\ x \in DOMAIN list.addrs
    BY <1>6, Zenon DEF Matches
  <2>3. \A q \in Peers : <<a, q>> \in own => q # p
    BY <1>6, <2>1, ConnsOwned, Zenon DEF Apart
  <2>4. p \in DOMAIN new.peers /\ new.peers[p] = x
    BY <1>3, <2>2, <2>3, Zenon DEF remove, Restrict
  <2>5. new.addrs[x].peer = <<p>>
    BY <1>3, <2>1, <2>2, Zenon DEF remove, Restrict
  <2> QED BY <1>2, <2>1, <2>2, <2>4, <2>5, Zenon
<1> QED BY <1>4, <1>5, <1>6, Zenon DEF Matches, new, dials2


-----------------------------------------------------------------------------
\* Every step keeps the match.

\* An event without interference comes after none, and its search keeps the
\* match that the event itself has kept.
LEMMA EventMatches ==
    ASSUME ListsKnown, SwarmInv, Undisturbed', UNCHANGED <<host, past>>,
           NEW list, Known(list, Own), NEW f, \A t \in FoundTypes : Known(f[t], Own), NEW cool,
           NEW dials \in [Addrs -> Nat], NEW n \in Nat, n >= disturbances,
           search_new_peer(list, f, cool, dials, n), links' \in [Addrs -> [Peers -> Nat]]
    PROVE  /\ Undisturbed /\ n = disturbances /\ Apart(Own')
           /\ Matches(list, dials, links') => Matches(connected', dialing', links')
<1>1. Searched(list, cool, dials, n, Own)
  BY SearchDials, Zenon
<1>2. disturbances' = n \/ disturbances' = n + 1
  BY <1>1, Zenon DEF Searched, Dials
<1>3. disturbances' = 0 /\ IsInjective(host) /\ disturbances \in Nat
  <2>1. disturbances' = 0 /\ IsInjective(host)
    BY DEF Undisturbed, IsInjective
  <2>2. disturbances \in Nat
    BY Zenon DEF ListsKnown
  <2> QED BY <2>1, <2>2, Zenon
<1>4. n = 0 /\ disturbances = 0 /\ disturbances' = n
  BY <1>2, <1>3
<1>5. Undisturbed /\ Apart(Own)
  BY <1>3, <1>4, Zenon DEF Undisturbed, SwarmInv
<1>6. Own' = Own
  BY OwnSame, Zenon
<1>7. Matches(list, dials, links') => Matches(connected', dialing', links')
  <2> SUFFICES ASSUME Matches(list, dials, links')
               PROVE  Matches(connected', dialing', links')
    BY Zenon
  <2> QED BY <1>1, <1>4, <1>5, SearchMatches, Zenon
<1> QED BY <1>4, <1>5, <1>6, <1>7, Zenon

\* A restart gives an id to the address that none had before.
LEMMA RestartsApart ==
    ASSUME ListsKnown, Apart(Own), NEW p \in Peers, PeerRestarts(p)
    PROVE  Apart(Own')
<1>1. PICK q \in Peers \ (Range(host) \cup UNION Range(past)) :
          host' = [a \in Addrs |-> IF host[a] = p THEN q ELSE host[a]]
  BY DEF PeerRestarts
<1>2. past' = [a \in Addrs |-> IF host[a] = p THEN past[a] \cup {p} ELSE past[a]]
  BY DEF PeerRestarts
<1>3. \A a \in Addrs : host[a] # q /\ q \notin past[a]
  BY <1>1 DEF Range, ListsKnown
<1>4. IsInjective(host) /\ DOMAIN host = Addrs
  BY DEF PeerRestarts, ListsKnown
<1>5. ASSUME NEW a \in Addrs, NEW x \in Peers, <<a, x>> \in Own'
      PROVE  <<a, x>> \in Own \/ (x = q /\ host[a] = p)
  <2>1. host'[a] = x \/ x \in past'[a]
    BY <1>5 DEF Own
  <2>2. host[a] = x \/ x \in past[a] \/ (x = q /\ host[a] = p)
    BY <1>1, <1>2, <2>1
  <2> QED BY <2>2 DEF Own
<1>6. \A a \in Addrs : <<a, q>> \notin Own
  BY <1>3 DEF Own
<1>7. ASSUME NEW a \in Addrs, NEW b \in Addrs, NEW x \in Peers, <<a, x>> \in Own', <<b, x>> \in Own'
      PROVE  a = b
  <2>1. CASE x = q
    BY <1>4, <1>5, <1>6, <1>7, <2>1 DEF IsInjective
  <2>2. CASE x # q
    BY <1>5, <1>7, <2>2 DEF Apart
  <2> QED BY <2>1, <2>2
<1> QED BY <1>7 DEF Apart

LEMMA RestartsMatch ==
    ASSUME ListsKnown, SwarmInv, Undisturbed', NEW p \in Peers, PeerRestarts(p)
    PROVE  SwarmInv'
<1>1. /\ UNCHANGED <<connected, dialing, strays, links, inbound, halted, disturbances>>
      /\ IsInjective(host)
  BY DEF PeerRestarts, status, swarm
<1>2. Undisturbed
  BY <1>1 DEF Undisturbed
<1>3. Apart(Own')
  BY <1>2, RestartsApart DEF SwarmInv
<1> QED BY <1>1, <1>2, <1>3 DEF SwarmInv


\* Without strays, a dial that has an outcome is one of the search.
LEMMA OutcomeOfSearch ==
    ASSUME NEW a \in Addrs, strays[a] = 0, NEW dials, Answered(a, dials)
    PROVE  dialing[a] > 0 /\ dials = [dialing EXCEPT ![a] = @ - 1] /\ UNCHANGED strays
  BY DEF Answered

LEMMA SwarmStep ==
    ASSUME LastPositions, ListsKnown, ListsKnown', SwarmInv, [Next]_vars
    PROVE  SwarmInv'
<1> SUFFICES ASSUME Undisturbed' PROVE SwarmInv'
  BY Zenon DEF SwarmInv
<1>1. /\ Known(connected, Own) /\ \A t \in FoundTypes : Known(found[t], Own)
      /\ dialing \in [Addrs -> Nat] /\ disturbances \in Nat /\ disturbances >= disturbances
      /\ links \in [Addrs -> [Peers -> Nat]] /\ links' \in [Addrs -> [Peers -> Nat]]
      /\ disturbances + 1 \in Nat /\ disturbances + 1 >= disturbances
      /\ disturbances + 1 # disturbances
  BY DEF ListsKnown
<1>2. Undisturbed => /\ ~halted /\ Apart(Own) /\ \A p \in Peers : inbound[p] = 0
                     /\ \A x \in Addrs : strays[x] = 0
                     /\ Matches(connected, dialing, links)
  BY DEF SwarmInv
<1>3. ASSUME Undisturbed, Apart(Own'), UNCHANGED <<halted, inbound, strays>>,
             Matches(connected', dialing', links')
      PROVE  SwarmInv'
  BY <1>2, <1>3 DEF SwarmInv
<1>4. ASSUME UNCHANGED <<connected, dialing, strays, links, inbound, host, past, halted, disturbances>>
      PROVE  SwarmInv'
  <2>1. Undisturbed /\ Own' = Own
    BY <1>4, OwnSame DEF Undisturbed
  <2> QED BY <1>2, <1>3, <1>4, <2>1
<1>5. CASE DiscoverPeers
  <2>1. /\ search_new_peer(connected, found, cooldown, dialing, disturbances)
        /\ UNCHANGED <<strays, links, inbound, host, past, halted>>
    BY <1>5 DEF DiscoverPeers
  <2>2. /\ Undisturbed /\ Apart(Own')
        /\ Matches(connected, dialing, links') => Matches(connected', dialing', links')
    BY <1>1, <2>1, EventMatches, Zenon
  <2> QED BY <1>2, <1>3, <2>1, <2>2
<1>6. CASE KademliaProgressed
  BY <1>4, <1>6 DEF KademliaProgressed
<1>7. ASSUME NEW list \in Discoveries, MdnsDiscovered(list)
      PROVE  SwarmInv'
  <2> DEFINE f == [found EXCEPT !["MDns"] = add_peers(@, list, "MDns")]
  <2>1. Known(add_peers(found["MDns"], list, "MDns"), Own)
    BY <1>1, AddAllKnown DEF FoundTypes
  <2>2. \A t \in FoundTypes : Known(f[t], Own)
    BY <1>1, <2>1 DEF ListsKnown
  <2>3. /\ search_new_peer(connected, f, cooldown, dialing, disturbances)
        /\ UNCHANGED <<strays, links, inbound, host, past, halted>>
    BY <1>7 DEF MdnsDiscovered
  <2> HIDE DEF f
  <2>4. /\ Undisturbed /\ Apart(Own')
        /\ Matches(connected, dialing, links') => Matches(connected', dialing', links')
    BY <1>1, <2>2, <2>3, EventMatches, Zenon
  <2> QED BY <1>2, <1>3, <2>3, <2>4
<1>8. ASSUME NEW a \in Addrs, ConnectionEstablished(a)
      PROVE  SwarmInv'
  <2> DEFINE list == set_peer_id(connected, a, host[a])
  <2>0. PICK dials :
            /\ Answered(a, dials)
            /\ \/ /\ a \in DOMAIN connected.addrs /\ UNCHANGED halted
                  /\ search_new_peer(list, found, cooldown, dials, disturbances)
               \/ a \notin DOMAIN connected.addrs /\ UNCHANGED disturbances
    BY <1>8, Zenon DEF ConnectionEstablished
  <2>1. /\ dials \in [Addrs -> Nat]
        /\ links' = [links EXCEPT ![a][host[a]] = @ + 1] /\ UNCHANGED <<inbound, host, past>>
        /\ host[a] \in Peers /\ <<a, host[a]>> \in Own
    BY <1>8, <2>0, DialEnds, Zenon DEF ConnectionEstablished, ListsKnown, Own
  <2>2. Undisturbed => /\ a \in DOMAIN connected.addrs /\ Matches(list, dials, links')
                       /\ UNCHANGED strays
    <3> SUFFICES ASSUME Undisturbed
                 PROVE  /\ a \in DOMAIN connected.addrs /\ Matches(list, dials, links')
                        /\ UNCHANGED strays
      OBVIOUS
    <3>1. dialing[a] > 0 /\ dials = [dialing EXCEPT ![a] = @ - 1] /\ UNCHANGED strays
      BY <1>2, <2>0, OutcomeOfSearch
    <3> QED BY <1>1, <1>2, <2>1, <3>1, EstablishedMatches, Zenon
  <2>3. CASE a \in DOMAIN connected.addrs
    <3>1. /\ Known(list, Own) /\ search_new_peer(list, found, cooldown, dials, disturbances)
          /\ UNCHANGED halted
      BY <2>0, <2>3, EstablishedKnown
    <3> HIDE DEF list
    <3>2. /\ Undisturbed /\ Apart(Own')
          /\ Matches(list, dials, links') => Matches(connected', dialing', links')
      BY <1>1, <2>1, <3>1, EventMatches, Zenon
    <3> QED BY <1>3, <2>1, <2>2, <3>1, <3>2
  <2>4. CASE a \notin DOMAIN connected.addrs
    <3>1. UNCHANGED disturbances
      BY <2>0, <2>4
    <3>2. Undisturbed
      BY <2>1, <3>1 DEF Undisturbed
    <3> QED BY <2>2, <2>4, <3>2
  <2> QED BY <2>3, <2>4
<1>9. ASSUME NEW a \in Addrs, OutgoingConnectionError(a)
      PROVE  SwarmInv'
  <2> DEFINE list == remove_peer_by_addr(connected, a)
             f == remove_connected_by_addr(connected, found, a)
  <2>0. PICK dials :
            /\ Answered(a, dials)
            /\ \/ search_new_peer(list, f, cooldown \cup {a}, dials, disturbances)
               \/ search_new_peer(connected, found, cooldown, dials, disturbances + 1)
    BY <1>9, Zenon DEF OutgoingConnectionError
  <2>1. dials \in [Addrs -> Nat] /\ UNCHANGED <<links, inbound, host, past, halted>>
    BY <1>9, <2>0, DialEnds DEF OutgoingConnectionError
  <2>2. Known(list, Own) /\ \A t \in FoundTypes : Known(f[t], Own)
    BY <1>1, RemoveKnown, ForgetKnown, Zenon
  <2>3. \/ search_new_peer(list, f, cooldown \cup {a}, dials, disturbances)
        \/ search_new_peer(connected, found, cooldown, dials, disturbances + 1)
    BY <2>0
  <2>4. Undisturbed => Matches(list, dials, links) /\ UNCHANGED strays
    <3> SUFFICES ASSUME Undisturbed PROVE Matches(list, dials, links) /\ UNCHANGED strays
      OBVIOUS
    <3>1. dialing[a] > 0 /\ dials = [dialing EXCEPT ![a] = @ - 1] /\ UNCHANGED strays
      BY <1>2, <2>0, OutcomeOfSearch
    <3> QED BY <1>1, <1>2, <2>1, <3>1, FailedMatches, Zenon
  <2> HIDE DEF list, f
  <2>5. CASE search_new_peer(list, f, cooldown \cup {a}, dials, disturbances)
    <3>1. /\ Undisturbed /\ Apart(Own')
          /\ Matches(list, dials, links') => Matches(connected', dialing', links')
      BY <1>1, <2>1, <2>2, <2>5, EventMatches, Zenon
    <3> QED BY <1>3, <2>1, <2>4, <3>1
  <2>6. CASE search_new_peer(connected, found, cooldown, dials, disturbances + 1)
    <3>1. disturbances + 1 = disturbances
      BY <1>1, <2>1, <2>6, EventMatches, Zenon
    <3> QED BY <1>1, <3>1
  <2> QED BY <2>3, <2>5, <2>6
<1>10. ASSUME NEW a \in Addrs, AddPeer(a)
       PROVE  SwarmInv'
  <2> DEFINE new == add_peer(found["Kademlia"], a, <<>>, "Kademlia")
             f == [found EXCEPT !["Kademlia"] = new]
  <2>1. Known(new, Own)
    <3>1. Entry([peer |-> <<>>, type |-> "Kademlia"], a, Own) /\ Known(found["Kademlia"], Own)
      BY <1>1 DEF Entry, FoundTypes
    <3> QED BY <3>1, AddKnown
  <2>2. \A t \in FoundTypes : Known(f[t], Own)
    <3> HIDE DEF new
    <3> QED BY <1>1, <2>1, Zenon DEF ListsKnown
  <2>3. /\ search_new_peer(connected, f, cooldown, dialing, disturbances + 1)
        /\ UNCHANGED <<links, host, past>>
    BY <1>10 DEF AddPeer
  <2> HIDE DEF f
  <2>4. disturbances + 1 = disturbances
    BY <1>1, <2>2, <2>3, EventMatches, Zenon
  <2> QED BY <1>1, <2>4
<1>11. ASSUME NEW p \in Peers, RemovePeer(p)
       PROVE  SwarmInv'
  <2> DEFINE list == remove_peer_by_id(connected, p)
             f == remove_connected_by_id(connected, found, p)
  <2>1. Known(list, Own) /\ \A t \in FoundTypes : Known(f[t], Own)
    BY <1>1, RemoveKnown, ForgetKnown, Zenon
  <2>2. /\ search_new_peer(list, f, cooldown, dialing, disturbances + 1)
        /\ UNCHANGED <<links, host, past>>
    BY <1>11 DEF RemovePeer, remove_connected_peer
  <2> HIDE DEF list, f
  <2>3. disturbances + 1 = disturbances
    BY <1>1, <2>1, <2>2, EventMatches, Zenon
  <2> QED BY <1>1, <2>3
<1>12. ASSUME NEW p \in Peers, ConnectionClosed(p)
       PROVE  SwarmInv'
  <2> DEFINE list == remove_peer_by_id(connected, p)
             f == remove_connected_by_id(connected, found, p)
  <2>1. Known(list, Own) /\ \A t \in FoundTypes : Known(f[t], Own)
    BY <1>1, RemoveKnown, ForgetKnown, Zenon
  <2>2. /\ search_new_peer(list, f, cooldown, dialing, disturbances)
        /\ UNCHANGED <<strays, host, past, halted>>
    BY <1>12 DEF ConnectionClosed, remove_connected_peer
  <2>3. \/ /\ \E a \in Addrs : links[a][p] > 0 /\ links' = [links EXCEPT ![a][p] = @ - 1]
           /\ UNCHANGED inbound
        \/ inbound[p] > 0
    BY <1>12 DEF ConnectionClosed
  <2>4. Undisturbed => Matches(list, dialing, links') /\ UNCHANGED inbound
    <3> SUFFICES ASSUME Undisturbed PROVE Matches(list, dialing, links') /\ UNCHANGED inbound
      OBVIOUS
    <3>1. inbound[p] = 0
      BY <1>2
    <3>2. PICK a \in Addrs : links[a][p] > 0 /\ links' = [links EXCEPT ![a][p] = @ - 1]
      BY <2>3, <3>1
    <3>3. UNCHANGED inbound
      BY <2>3, <3>1
    <3> QED BY <1>1, <1>2, <3>2, <3>3, ClosedMatches, Zenon
  <2> HIDE DEF list, f
  <2>5. /\ Undisturbed /\ Apart(Own')
        /\ Matches(list, dialing, links') => Matches(connected', dialing', links')
    BY <1>1, <2>1, <2>2, EventMatches, Zenon
  <2> QED BY <1>3, <2>2, <2>4, <2>5
<1>13. ASSUME NEW p \in Peers, PeerRestarts(p)
       PROVE  SwarmInv'
  BY <1>13, RestartsMatch
<1>14. ASSUME NEW p \in Peers, Accept(p)
       PROVE  SwarmInv'
  <2>1. disturbances' = disturbances + 1
    BY <1>14 DEF Accept
  <2> QED BY <1>1, <2>1 DEF Undisturbed
<1>15. ASSUME NEW a \in Addrs, CooldownEnds(a)
       PROVE  SwarmInv'
  BY <1>4, <1>15 DEF CooldownEnds, swarm
<1>16. CASE UNCHANGED vars
  BY <1>4, <1>16 DEF vars, status, swarm
<1>17. ASSUME NEW a \in Addrs, BehaviourDials(a)
       PROVE  SwarmInv'
  <2>1. disturbances' = disturbances + 1
    BY <1>17 DEF BehaviourDials
  <2> QED BY <1>1, <2>1 DEF Undisturbed
<1> QED BY <1>5, <1>6, <1>7, <1>8, <1>9, <1>10, <1>11, <1>12, <1>13, <1>14, <1>15, <1>16, <1>17,
       Zenon DEF Next

-----------------------------------------------------------------------------
\* What rests on the library, which is brought in only here: facts about the
\* order of the natural numbers.
INSTANCE WellFoundedInduction

\* A set of positions that is not empty has a last one.
LEMMA LastExists ==
    ASSUME NEW n \in Nat, NEW S \in SUBSET (1..n), S # {}
    PROVE  \E k \in S : \A j \in S : j <= k
<1> DEFINE R == {n - k : k \in S}
<1>1. R \subseteq Nat /\ R # {}
  <2>1. \A k \in S : n - k \in Nat
    OBVIOUS
  <2> QED BY <2>1, Zenon
<1>2. PICK m \in R : \A y \in R : ~(<<y, m>> \in OpToRel(<, Nat))
  <2> HIDE DEF R
  <2> QED BY <1>1, NatLessThanWellFounded, WFMin, Zenon
<1>3. PICK k \in S : m = n - k
  BY <1>2, Zenon
<1>4. ASSUME NEW j \in S
      PROVE  j <= k
  <2>1. n - j \in R /\ n - j \in Nat /\ m \in Nat
    BY <1>1
  <2>2. ~(n - j < m)
    BY <1>2, <2>1, Zenon DEF OpToRel
  <2> QED BY <1>3, <2>1, <2>2
<1> QED BY <1>4, Zenon

LEMMA PositionsEnd == LastPositions
  BY LastExists, Zenon DEF LastPositions

LEMMA ListsStayKnown == Spec => []ListsKnown
<1>1. Init => ListsKnown
  BY KnownInit
<1>2. ListsKnown /\ [Next]_vars => ListsKnown'
  BY KnownStep, PositionsEnd
<1> QED BY <1>1, <1>2, PTL DEF Spec

\* No event makes the node dial an address that is cooling down, whichever list
\* the address is found in, and however often it is reported: see
\* CooldownRespected.
THEOREM CooldownStaysRespected == Spec => CooldownRespected
<1>1. ListsKnown /\ [Next]_vars => [\A a \in cooldown' : dialing'[a] <= dialing[a]]_vars
  BY KnownStep, PositionsEnd DEF Rested
<1> QED BY <1>1, ListsStayKnown, PTL DEF Spec, CooldownRespected

\* As long as the operator, the dials that fail at once or that the swarm makes by
\* itself and the peers that dial this node do not interfere, connected_peers is what the swarm does, however
\* often peers restart under new ids: see StatusMatchesSwarm.
THEOREM StatusStaysMatched == Spec => []StatusMatchesSwarm
<1>1. Init => SwarmInv
  <2> SUFFICES ASSUME Init, Undisturbed PROVE SwarmInv
    BY DEF SwarmInv
  <2>1. /\ connected = EmptyList /\ dialing = [a \in Addrs |-> 0] /\ halted = FALSE
        /\ links = [a \in Addrs |-> [p \in Peers |-> 0]] /\ inbound = [p \in Peers |-> 0]
        /\ past = [a \in Addrs |-> {}] /\ IsInjective(host) /\ host \in [Addrs -> Peers]
        /\ strays = [a \in Addrs |-> 0]
    BY DiscoveryAssumption DEF Init, Undisturbed
  <2>2. Matches(connected, dialing, links)
    BY <2>1 DEF Matches, EmptyList, EmptyMap
  <2>3. Apart(Own)
    BY <2>1 DEF Apart, Own, IsInjective
  <2> QED BY <2>1, <2>2, <2>3 DEF SwarmInv
<1>2. ListsKnown /\ ListsKnown' /\ SwarmInv /\ [Next]_vars => SwarmInv'
  BY SwarmStep, PositionsEnd
<1>3. SwarmInv => StatusMatchesSwarm
  BY DEF SwarmInv, StatusMatchesSwarm, Matches, Busy
<1> QED BY <1>1, <1>2, <1>3, ListsStayKnown, PTL DEF Spec
=============================================================================
