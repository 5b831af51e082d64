--------------------------- MODULE MCPeerDiscovery ---------------------------
(* Instances of PeerDiscovery.                                             *)
EXTENDS PeerDiscovery, TLC

CONSTANTS a1, a2, p1, p2

OneEach == [t \in FoundTypes |-> 1]

\* One peer per address; which peers these are makes no difference.
OnePeerEach == {a1 :> p1 @@ a2 :> p2}

\* A peer restarts, or something interferes, but not both.
RestartOrDisturbance == restarts + disturbances <= 1
=============================================================================
