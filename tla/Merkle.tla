------------------------------- MODULE Merkle -------------------------------
(***************************************************************************)
(* merklize (merkle.rs), the root of the data requests of a batch, step by *)
(* step: the array of hashes is folded in place, level by level, over the  *)
(* next power of two of its length.                                        *)
(*                                                                         *)
(* SHA-256 is abstracted to an injective constructor: the hash of a leaf   *)
(* is a 1-tuple, the hash of two hashes a pair.  Leaves are numbered in    *)
(* the order of their hashes, which is all that sorting looks at.          *)
(***************************************************************************)
EXTENDS Integers, FiniteSets, Sequences

CONSTANTS
    Leaves,     \* requests, numbered in the order of their hashes
    MaxLeaves   \* bound on the length of the array

ASSUME MerkleAssumption == Leaves \subseteq Nat /\ MaxLeaves \in Nat

VARIABLES
    arr,        \* the argument
    hashes,     \* the array that is folded (indices from 0 in the code)
    len,        \* width of the level above, a power of two
    arr_len,    \* number of hashes of the current level
    i,          \* next position of the level above
    root        \* the result, or Unset

vars == <<arr, hashes, len, arr_len, i, root>>

Unset == <<0, 0, 0>>
DefaultHash == <<>>
hash_borsh(leaf) == <<leaf>>
combine_hash(hash1, hash2) == <<hash1, hash2>>

Inputs == UNION {[1..n -> Leaves] : n \in 0..MaxLeaves}
next_power_of_two[n \in Nat] == IF n <= 1 THEN 1 ELSE 2 * next_power_of_two[(n + 1) \div 2]

\* The leaves in ascending order: fewer than k of them are below the k-th, and
\* at least k are not above it.
Below(leaves, x) == Cardinality({k \in DOMAIN leaves : leaves[k] < x})
UpTo(leaves, x) == Cardinality({k \in DOMAIN leaves : leaves[k] <= x})
Sorted(leaves) ==
    [k \in 1..Len(leaves) |-> CHOOSE x \in Leaves : Below(leaves, x) < k /\ k <= UpTo(leaves, x)]

-----------------------------------------------------------------------------
\* Mutant: the hashes are folded in the order of the array.
HashesUnsorted(leaves) == [k \in 1..Len(leaves) |-> hash_borsh(leaves[k])]

\* The hashes are sorted before the tree is built.
SortedHashes(leaves) ==
    LET sorted == Sorted(leaves)
    IN  [k \in 1..Len(leaves) |-> hash_borsh(sorted[k])]

\* The call up to the first turn of the loop; no and one request return at once.
Init ==
    /\ arr \in Inputs
    /\ hashes = SortedHashes(arr)
    /\ len = next_power_of_two[Len(arr)] \div 2
    /\ arr_len = Len(arr)
    /\ i = 0
    /\ root = CASE Len(arr) = 0 -> DefaultHash
                [] Len(arr) = 1 -> hashes[1]
                [] OTHER -> Unset

\* Mutant: the last hash of an odd level is combined with itself.
PairedWithItself ==
    IF 2 * i + 1 >= arr_len
    THEN combine_hash(hashes[2 * i + 1], hashes[2 * i + 1])
    ELSE combine_hash(hashes[2 * i + 1], hashes[2 * i + 2])

\* The hash above positions 2i and 2i+1; a hash without a partner moves up.
HashAbove ==
    IF 2 * i + 1 >= arr_len
    THEN hashes[2 * i + 1]
    ELSE combine_hash(hashes[2 * i + 1], hashes[2 * i + 2])

\* One turn of the inner loop; positions past the end of the level are skipped.
Fold ==
    /\ root = Unset
    /\ i < len
    /\ hashes' = IF 2 * i >= arr_len THEN hashes ELSE [hashes EXCEPT ![i + 1] = HashAbove]
    /\ i' = i + 1
    /\ UNCHANGED <<arr, len, arr_len, root>>

\* Mutant: the next level goes on where this one ended.
PositionKept ==
    /\ root = Unset /\ i = len
    /\ arr_len' = (arr_len + 1) \div 2
    /\ \/ len > 1 /\ len' = len \div 2 /\ UNCHANGED <<i, root>>
       \/ len = 1 /\ root' = hashes[1] /\ UNCHANGED <<len, i>>
    /\ UNCHANGED <<arr, hashes>>

\* Mutant: the width of the level is not halved.
SameWidth ==
    /\ root = Unset /\ i = len
    /\ arr_len' = (arr_len + 1) \div 2
    /\ i' = 0
    /\ UNCHANGED <<arr, hashes, len, root>>

\* The end of a turn of the outer loop: on to the next level, or the result.
NextLevel ==
    /\ root = Unset /\ i = len
    /\ arr_len' = (arr_len + 1) \div 2
    /\ \/ len > 1 /\ len' = len \div 2 /\ i' = 0 /\ UNCHANGED root
       \/ len = 1 /\ root' = hashes[1] /\ UNCHANGED <<len, i>>
    /\ UNCHANGED <<arr, hashes>>

Next == Fold \/ NextLevel

\* merklize runs without interruption within one contract call.
Spec == Init /\ [][Next]_vars /\ WF_vars(Next)

-----------------------------------------------------------------------------
\* The balanced tree over n hashes, by recursion on the size of a subtree: its
\* left half is the largest complete subtree that leaves something for the right.
LeftSize(size) == next_power_of_two[size] \div 2
Tree(hs, n) ==
    LET tree[size \in 0..n] ==
            [first \in Nat |->
                IF size <= 1 THEN hs[first]
                ELSE combine_hash(tree[LeftSize(size)][first],
                                  tree[size - LeftSize(size)][first + LeftSize(size)])]
    IN  tree[n][1]

\* What merklize returns for an array, through the recursive tree.
RootOf(leaves) == IF leaves = <<>> THEN DefaultHash ELSE Tree(SortedHashes(leaves), Len(leaves))
Roots == [leaves \in Inputs |-> RootOf(leaves)]

\* How often a leaf is in an array.
Times(leaves, x) == Cardinality({k \in DOMAIN leaves : leaves[k] = x})

\* The variables stay in range: the array keeps its length, and a level that is
\* folded holds a hash and is not left behind by the position (merkle.rs:54-67).
TypeOK ==
    /\ arr \in Inputs
    /\ Len(hashes) = Len(arr)
    /\ i \in 0..len
    /\ root = Unset => arr_len \in 1..Len(arr)

\* Folding the array in place (merkle.rs:54-67) computes the balanced tree over
\* the sorted hashes: no write of a level destroys a hash the level still reads.
FoldsTheTree == root # Unset => root = RootOf(arr)

\* The root commits to the requests of the batch and to nothing else: two
\* arrays have one root exactly when they hold the same requests, each as often,
\* in whatever order (the sort at merkle.rs:46).
RootCommits ==
    root # Unset =>
        \A other \in Inputs :
            Roots[other] = root <=> \A x \in Leaves : Times(other, x) = Times(arr, x)

\* The loop ends for every array: the width is halved until it is one.
Returns == <>(root # Unset)
=============================================================================
