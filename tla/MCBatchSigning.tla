--------------------------- MODULE MCBatchSigning ---------------------------
(***************************************************************************)
(* Instances of the signing of batches for TLC.                            *)
(***************************************************************************)
EXTENDS BatchSigning, TLC

CONSTANTS n1, n2, n3, w1, w2, w3

\* The first node runs two tasks at a time, as a node does by default; the
\* others run one.
FirstRunsTwo == [n \in Nodes |-> IF n = n1 THEN {w1, w2} ELSE {w3}]

\* No committee in the first slot, <<n1, n2>> in the later ones.
AfterBootstrap == [k \in 0..(Slots - 1) |-> IF k = 0 THEN <<>> ELSE <<n1, n2>>]

NoCommittee == [k \in 0..(Slots - 1) |-> <<>>]

\* Bounds on ticks.
FirstTwice == [n \in Nodes |-> IF n = n1 THEN 2 ELSE 1]
Once == [n \in Nodes |-> 1]

\* The other nodes leave their messages in the network: their stores are then
\* their own signatures, and the first node meets everything they may send.
OnlyFirstListens == \A n \in Nodes \ {n1} : net[n] \subseteq net'[n]

WorkerSymmetry == Permutations({w1, w2})
=============================================================================
