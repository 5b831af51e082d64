---------------------------- MODULE MerkleProofs ----------------------------
(***************************************************************************)
(* Proofs about merklize, for arrays of every length and any set of        *)
(* requests: the fold in place computes the balanced tree over the sorted  *)
(* hashes, and the root tells two arrays apart exactly when they do not    *)
(* hold the same requests as often.                                        *)
(*                                                                         *)
(* The tree and the next power of two are recursive functions.  What they  *)
(* compute is shown on the least counterexample (LeastExists): that the    *)
(* functions exist, that a level is folded to the level above it           *)
(* (LevelFolds), and that a tree determines its leaves (TreeDetermines).   *)
(***************************************************************************)
EXTENDS Merkle, WellFoundedInduction, TLAPS

\* Every set of naturals with an element has a least one.
LEMMA LeastExists ==
    ASSUME NEW S \in SUBSET Nat, S # {}
    PROVE  \E k \in S : \A l \in S : k <= l
<1>1. PICK k \in S : \A l \in S : ~(<<l, k>> \in OpToRel(<, Nat))
  BY NatLessThanWellFounded, WFMin, Zenon
<1>2. ASSUME NEW l \in S PROVE k <= l
  <2>1. ~(l < k)
    BY <1>1, Zenon DEF OpToRel
  <2> QED BY <2>1
<1> QED BY <1>2

-----------------------------------------------------------------------------
\* The next power of two.
Half(n) == (n + 1) \div 2

\* Half of a number rounded up.
LEMMA HalfProps ==
    ASSUME NEW n \in Nat
    PROVE  /\ Half(n) \in Nat
           /\ 2 * Half(n) = n \/ 2 * Half(n) = n + 1
           /\ n >= 2 => Half(n) < n /\ Half(n) >= 1
           /\ n >= 3 => Half(n) >= 2
BY DEF Half

\* g follows the recursion of next_power_of_two up to m.
Doubling(g, m) == \A n \in 0..m : g[n] = IF n <= 1 THEN 1 ELSE 2 * g[Half(n)]

LEMMA DoublingAgrees ==
    ASSUME NEW g, NEW h, NEW l \in Nat, NEW m \in Nat, Doubling(g, l), Doubling(h, m), l <= m
    PROVE  g[l] = h[l]
<1> DEFINE Bad == {n \in 0..l : g[n] # h[n]}
<1>1. SUFFICES ASSUME Bad # {} PROVE FALSE
  OBVIOUS
<1>2. PICK k \in Bad : \A n \in Bad : k <= n
  <2>1. Bad \in SUBSET Nat
    OBVIOUS
  <2> QED BY <1>1, <2>1, LeastExists, Zenon
<1>3. k \in 0..l /\ k \in 0..m /\ g[k] # h[k]
  BY <1>2
<1>4. /\ g[k] = IF k <= 1 THEN 1 ELSE 2 * g[Half(k)]
      /\ h[k] = IF k <= 1 THEN 1 ELSE 2 * h[Half(k)]
  BY <1>3 DEF Doubling
<1>5. CASE k <= 1
  BY <1>3, <1>4, <1>5
<1>6. CASE k > 1
  <2>1. Half(k) \in 0..l /\ Half(k) < k
    BY <1>3, <1>6, HalfProps
  <2>2. Half(k) \notin Bad
    BY <1>2, <1>3, <2>1
  <2>3. g[Half(k)] = h[Half(k)]
    BY <2>1, <2>2
  <2> QED BY <1>3, <1>4, <1>6, <2>3
<1> QED BY <1>3, <1>5, <1>6

LEMMA DoublingExists ==
    ASSUME NEW m \in Nat
    PROVE  \E g : Doubling(g, m)
<1> DEFINE Bad == {n \in Nat : ~\E g : Doubling(g, n)}
<1>1. SUFFICES ASSUME Bad # {} PROVE FALSE
  OBVIOUS
<1>2. PICK k \in Bad : \A l \in Bad : k <= l
  BY <1>1, LeastExists, Zenon
<1>3. CASE k = 0
  <2>1. Doubling([n \in 0..0 |-> 1], 0)
    BY DEF Doubling
  <2> QED BY <1>2, <1>3, <2>1
<1>4. CASE k # 0
  <2>1. k \in Nat /\ k - 1 \in Nat /\ k - 1 \notin Bad
    BY <1>2, <1>4
  <2>2. PICK g : Doubling(g, k - 1)
    BY <2>1
  <2> DEFINE h == [n \in 0..k |-> IF n = k THEN IF k <= 1 THEN 1 ELSE 2 * g[Half(k)] ELSE g[n]]
  <2>3. ASSUME NEW n \in 0..k PROVE h[n] = IF n <= 1 THEN 1 ELSE 2 * h[Half(n)]
    <3>1. n > 1 => Half(n) \in 0..(k - 1)
      BY <2>1, HalfProps
    <3>2. n > 1 => h[Half(n)] = g[Half(n)]
      BY <2>1, <3>1
    <3>3. CASE n = k
      BY <2>1, <3>2, <3>3
    <3>4. CASE n # k
      <4>1. n \in 0..(k - 1) /\ h[n] = g[n]
        BY <2>1, <3>4
      <4>2. g[n] = IF n <= 1 THEN 1 ELSE 2 * g[Half(n)]
        BY <2>2, <4>1 DEF Doubling
      <4> HIDE DEF h
      <4> QED BY <3>2, <4>1, <4>2
    <3> QED BY <3>3, <3>4
  <2>4. Doubling(h, k)
    BY <2>3 DEF Doubling
  <2> QED BY <1>2, <2>4
<1> QED BY <1>3, <1>4

\* The recursion of next_power_of_two has a solution, which the function follows.
LEMMA PowerUnfolds ==
    ASSUME NEW n \in Nat
    PROVE  next_power_of_two[n] = IF n <= 1 THEN 1 ELSE 2 * next_power_of_two[Half(n)]
<1> DEFINE G(m) == CHOOSE g : Doubling(g, m)
           f == [m \in Nat |-> G(m)[m]]
           Body(g) == [m \in Nat |-> IF m <= 1 THEN 1 ELSE 2 * g[(m + 1) \div 2]]
<1>1. ASSUME NEW m \in Nat PROVE Doubling(G(m), m)
  BY DoublingExists
<1>2. ASSUME NEW m \in Nat PROVE f[m] = IF m <= 1 THEN 1 ELSE 2 * f[Half(m)]
  <2>1. G(m)[m] = IF m <= 1 THEN 1 ELSE 2 * G(m)[Half(m)]
    <3> HIDE DEF G
    <3> QED BY <1>1 DEF Doubling
  <2>2. CASE m <= 1
    BY <2>1, <2>2
  <2>3. CASE m > 1
    <3>1. Half(m) \in Nat /\ Half(m) <= m
      BY <2>3, HalfProps
    <3>2. Doubling(G(Half(m)), Half(m)) /\ Doubling(G(m), Half(m))
      <4>1. Doubling(G(m), m) /\ Doubling(G(Half(m)), Half(m))
        BY <1>1, <3>1
      <4> HIDE DEF G
      <4> QED BY <3>1, <4>1 DEF Doubling
    <3>3. G(Half(m))[Half(m)] = G(m)[Half(m)]
      <4> HIDE DEF G
      <4> QED BY <3>1, <3>2, DoublingAgrees
    <3> QED BY <2>1, <2>3, <3>1, <3>3
  <2> QED BY <2>2, <2>3
<1> HIDE DEF G
<1>3. f = Body(f)
  <2>1. \A m \in Nat : f[m] = Body(f)[m]
    <3> HIDE DEF f
    <3> QED BY <1>2 DEF Half
  <2> QED BY <2>1
<1> HIDE DEF f
<1>4. next_power_of_two = CHOOSE g : g = Body(g)
  BY DEF next_power_of_two
<1>5. next_power_of_two = Body(next_power_of_two)
  <2> HIDE DEF Body
  <2> QED BY <1>3, <1>4
<1> QED BY <1>5 DEF Half


LEMMA EvenIsNotOdd ==
    ASSUME NEW p \in Nat, NEW q \in Nat
    PROVE  2 * p # 2 * q - 1
OBVIOUS

\* The next power of two is the first that is not below the number: it is less
\* than twice the number, one or even.
LEMMA PowerBounds ==
    ASSUME NEW n \in Nat \ {0}
    PROVE  /\ next_power_of_two[n] \in Nat
           /\ next_power_of_two[n] >= n
           /\ next_power_of_two[n] < 2 * n
           /\ n >= 2 => \E p \in Nat : next_power_of_two[n] = 2 * p
<1> DEFINE P(m) == next_power_of_two[m]
           Good(m) == /\ P(m) \in Nat /\ P(m) >= m /\ P(m) < 2 * m
                      /\ m >= 2 => \E p \in Nat : P(m) = 2 * p
           Bad == {m \in Nat : m >= 1 /\ ~Good(m)}
<1>1. SUFFICES ASSUME Bad # {} PROVE FALSE
  OBVIOUS
<1>2. PICK k \in Bad : \A l \in Bad : k <= l
  BY <1>1, LeastExists, Zenon
<1>3. k \in Nat /\ k >= 1 /\ ~Good(k)
  BY <1>2
<1>4. P(k) = IF k <= 1 THEN 1 ELSE 2 * P(Half(k))
  BY <1>3, PowerUnfolds
<1>5. CASE k = 1
  BY <1>3, <1>4, <1>5
<1>6. CASE k >= 2
  <2>1. /\ Half(k) \in Nat /\ Half(k) < k /\ Half(k) >= 1
        /\ 2 * Half(k) = k \/ 2 * Half(k) = k + 1
        /\ k >= 3 => Half(k) >= 2
    BY <1>3, <1>6, HalfProps
  <2>2. Half(k) \notin Bad
    BY <1>2, <1>3, <2>1
  <2>3. Good(Half(k))
    BY <2>1, <2>2
  <2>4. P(k) = 2 * P(Half(k)) /\ P(Half(k)) \in Nat
    BY <1>3, <1>4, <1>6, <2>3
  <2>5. P(Half(k)) < k
    <3>1. CASE 2 * Half(k) = k
      <4> HIDE DEF P
      <4> QED BY <2>1, <2>3, <2>4, <3>1
    <3>2. CASE 2 * Half(k) = k + 1
      <4>1. k >= 3
        BY <1>3, <1>6, <3>2, <2>1
      <4>2. PICK p \in Nat : P(Half(k)) = 2 * p
        BY <2>1, <2>3, <4>1
      <4> HIDE DEF P
      <4>3. P(Half(k)) <= k
        BY <1>3, <2>1, <2>3, <2>4, <3>2
      <4>4. k = 2 * Half(k) - 1
        BY <1>3, <2>1, <3>2
      <4>5. 2 * p # 2 * Half(k) - 1
        BY <2>1, EvenIsNotOdd
      <4> QED BY <1>3, <2>1, <2>4, <4>2, <4>3, <4>4, <4>5
    <3> QED BY <2>1, <3>1, <3>2
  <2>6. P(k) >= k
    <3> HIDE DEF P
    <3> QED BY <1>3, <2>1, <2>3, <2>4
  <2>7. \E p \in Nat : P(k) = 2 * p
    BY <2>4
  <2>8. P(k) \in Nat /\ P(k) < 2 * k
    <3> HIDE DEF P
    <3> QED BY <1>3, <2>4, <2>5
  <2> QED BY <1>3, <2>6, <2>7, <2>8
<1> QED BY <1>3, <1>5, <1>6

\* The left subtree is the next power of two of half the size; from three
\* hashes on it is twice the left subtree of the level above.
LEMMA LeftProps ==
    ASSUME NEW n \in Nat, n >= 2
    PROVE  /\ LeftSize(n) \in Nat /\ LeftSize(n) >= 1 /\ LeftSize(n) < n
           /\ LeftSize(n) >= Half(n)
           /\ LeftSize(n) = next_power_of_two[Half(n)]
           /\ n >= 3 => LeftSize(n) = 2 * LeftSize(Half(n))
           /\ LeftSize(n) = 1 <=> n = 2
<1> DEFINE p == next_power_of_two[Half(n)]
<1>1. /\ Half(n) \in Nat /\ Half(n) >= 1
      /\ 2 * Half(n) = n \/ 2 * Half(n) = n + 1
      /\ n >= 3 => Half(n) >= 2
  BY HalfProps
<1>2. p \in Nat /\ p >= Half(n) /\ p < 2 * Half(n)
  BY <1>1, PowerBounds
<1>3. next_power_of_two[n] = 2 * p
  BY PowerUnfolds
<1>4. next_power_of_two[n] < 2 * n
  BY PowerBounds
<1>5. n >= 3 => \E q \in Nat : p = 2 * q
  BY <1>1, PowerBounds
<1> HIDE DEF p
<1>6. LeftSize(n) = p
  BY <1>2, <1>3 DEF LeftSize
<1>7. p < n
  BY <1>2, <1>3, <1>4
<1>8. n >= 3 => p = 2 * LeftSize(Half(n))
  <2>1. SUFFICES ASSUME n >= 3 PROVE p = 2 * LeftSize(Half(n))
    OBVIOUS
  <2>2. PICK q \in Nat : p = 2 * q
    BY <2>1, <1>5
  <2>3. LeftSize(Half(n)) = p \div 2
    BY DEF LeftSize, p
  <2> QED BY <2>2, <2>3
<1>9. p = 1 <=> n = 2
  BY <1>1, <1>2, <1>7
<1> QED BY <1>1, <1>2, <1>6, <1>7, <1>8, <1>9 DEF p

-----------------------------------------------------------------------------
\* The tree.
Node(t, hs, size, first) ==
    IF size <= 1 THEN hs[first]
    ELSE combine_hash(t[LeftSize(size)][first], t[size - LeftSize(size)][first + LeftSize(size)])

\* t holds the subtrees of up to n of the hashes.
Subtrees(t, hs, n) == t = [size \in 0..n |-> [first \in Nat |-> Node(t, hs, size, first)]]

\* The subtrees below a size are of smaller sizes.
LEMMA NodeSame ==
    ASSUME NEW t, NEW u, NEW hs, NEW size \in Nat, NEW first \in Nat,
           \A l \in 0..(size - 1) : t[l] = u[l]
    PROVE  Node(t, hs, size, first) = Node(u, hs, size, first)
<1>1. CASE size <= 1
  BY <1>1 DEF Node
<1>2. CASE size >= 2
  <2> DEFINE left == LeftSize(size)
  <2>1. left \in 0..(size - 1) /\ size - left \in 0..(size - 1)
    BY <1>2, LeftProps
  <2>2. t[left] = u[left] /\ t[size - left] = u[size - left]
    BY <2>1
  <2> QED BY <2>2 DEF Node
<1> QED BY <1>1, <1>2

LEMMA SubtreesExist ==
    ASSUME NEW hs, NEW n \in Nat
    PROVE  \E t : Subtrees(t, hs, n)
<1> DEFINE Bad == {m \in Nat : ~\E t : Subtrees(t, hs, m)}
<1>1. SUFFICES ASSUME Bad # {} PROVE FALSE
  OBVIOUS
<1>2. PICK k \in Bad : \A l \in Bad : k <= l
  BY <1>1, LeastExists, Zenon
<1>3. k \in Nat
  BY <1>2
<1>4. \E t : \A size \in 0..(k - 1) : t[size] = [first \in Nat |-> Node(t, hs, size, first)]
  <2>1. CASE k = 0
    BY <2>1
  <2>2. CASE k # 0
    <3>1. k - 1 \in Nat /\ k - 1 \notin Bad
      BY <1>2, <1>3, <2>2
    <3>2. PICK t : Subtrees(t, hs, k - 1)
      BY <3>1
    <3> QED BY <3>2, Zenon DEF Subtrees
  <2> QED BY <2>1, <2>2
<1>5. PICK t : \A size \in 0..(k - 1) : t[size] = [first \in Nat |-> Node(t, hs, size, first)]
  BY <1>4
<1> DEFINE u == [size \in 0..k |-> [first \in Nat |-> Node(t, hs, size, first)]]
<1>6. ASSUME NEW size \in 0..k, NEW first \in Nat
      PROVE  Node(t, hs, size, first) = Node(u, hs, size, first)
  <2>1. \A l \in 0..(size - 1) : t[l] = u[l]
    BY <1>3, <1>5
  <2> HIDE DEF u
  <2>2. size \in Nat
    BY <1>3
  <2> QED BY <2>1, <2>2, NodeSame
<1>7. u = [size \in 0..k |-> [first \in Nat |-> Node(u, hs, size, first)]]
  <2>1. ASSUME NEW size \in 0..k
        PROVE  [first \in Nat |-> Node(t, hs, size, first)] = [first \in Nat |-> Node(u, hs, size, first)]
    <3> HIDE DEF u
    <3> QED BY <1>6
  <2>2. ASSUME NEW size \in 0..k PROVE u[size] = [first \in Nat |-> Node(u, hs, size, first)]
    <3>1. u[size] = [first \in Nat |-> Node(t, hs, size, first)]
      OBVIOUS
    <3> HIDE DEF u
    <3> QED BY <2>1, <3>1
  <2>3. u = [size \in 0..k |-> u[size]]
    OBVIOUS
  <2> HIDE DEF u
  <2> QED BY <2>2, <2>3
<1>8. Subtrees(u, hs, k)
  <2> HIDE DEF u
  <2> QED BY <1>7 DEF Subtrees
<1> QED BY <1>2, <1>8

\* The tree of n hashes is the subtree of all of them.
LEMMA TreeOf ==
    ASSUME NEW hs, NEW n \in Nat
    PROVE  \E t : Subtrees(t, hs, n) /\ Tree(hs, n) = t[n][1]
<1> DEFINE Body(t) == [size \in 0..n |-> [first \in Nat |->
                IF size <= 1 THEN hs[first]
                ELSE combine_hash(t[LeftSize(size)][first],
                                  t[size - LeftSize(size)][first + LeftSize(size)])]]
           tree == CHOOSE t : t = Body(t)
<1>1. Tree(hs, n) = tree[n][1]
  BY DEF Tree
<1>2. \E t : t = Body(t)
  <2>1. PICK t : Subtrees(t, hs, n)
    BY SubtreesExist
  <2>2. t = Body(t)
    BY <2>1, Zenon DEF Subtrees, Node
  <2> QED BY <2>2, Zenon
<1>3. tree = Body(tree)
  <2> HIDE DEF Body
  <2> QED BY <1>2
<1>4. Subtrees(tree, hs, n)
  <2> HIDE DEF tree
  <2> QED BY <1>3, Zenon DEF Subtrees, Node
<1> QED BY <1>1, <1>4, Zenon

\* A subtree of one hash, and of more.
LEMMA SubtreeOf ==
    ASSUME NEW t, NEW hs, NEW n \in Nat, Subtrees(t, hs, n),
           NEW size \in 0..n, NEW first \in Nat
    PROVE  /\ size <= 1 => t[size][first] = hs[first]
           /\ size >= 2 => t[size][first] =
                  <<t[LeftSize(size)][first], t[size - LeftSize(size)][first + LeftSize(size)]>>
<1>1. t[size][first] = Node(t, hs, size, first)
  <2> DEFINE F(s) == [f \in Nat |-> Node(t, hs, s, f)]
  <2>1. t = [s \in 0..n |-> F(s)]
    BY DEF Subtrees
  <2>2. t[size] = F(size)
    <3> HIDE DEF F
    <3> QED BY <2>1
  <2> QED BY <2>2
<1> QED BY <1>1 DEF Node, combine_hash

-----------------------------------------------------------------------------
\* The level above n hashes: a hash without a partner moves up, and a position
\* past the end of the level keeps what it held.
Above(hs, n, k) ==
    IF 2 * k - 2 >= n THEN hs[k]
    ELSE IF 2 * k - 1 >= n THEN hs[2 * k - 1]
    ELSE combine_hash(hs[2 * k - 1], hs[2 * k])

\* A subtree that starts at an even distance, and is even or the last, is the
\* subtree of half its size of the level above.
LEMMA SubtreeFolds ==
    ASSUME NEW hs, NEW up, NEW n \in Nat, n >= 2,
           \A k \in 1..Half(n) : up[k] = Above(hs, n, k),
           NEW t, Subtrees(t, hs, n), NEW u, Subtrees(u, up, Half(n))
    PROVE  \A size \in 1..n, a \in Nat :
               2 * a + size <= n /\ (size = 2 * Half(size) \/ 2 * a + size = n)
                   => t[size][2 * a + 1] = u[Half(size)][a + 1]
<1> DEFINE Good(size) == \A a \in Nat :
               2 * a + size <= n /\ (size = 2 * Half(size) \/ 2 * a + size = n)
                   => t[size][2 * a + 1] = u[Half(size)][a + 1]
           Bad == {size \in 1..n : ~Good(size)}
<1>1. SUFFICES ASSUME Bad # {} PROVE FALSE
  OBVIOUS
<1>2. PICK size \in Bad : \A l \in Bad : size <= l
  <2>1. Bad \in SUBSET Nat
    OBVIOUS
  <2> QED BY <1>1, <2>1, LeastExists, Zenon
<1>3. size \in 1..n /\ size \in Nat /\ size >= 1 /\ size <= n
  BY <1>2
<1>4. PICK a \in Nat : /\ 2 * a + size <= n /\ (size = 2 * Half(size) \/ 2 * a + size = n)
                       /\ t[size][2 * a + 1] # u[Half(size)][a + 1]
  BY <1>2
<1>5. ASSUME NEW l \in Nat, l >= 1, l < size PROVE Good(l)
  BY <1>2, <1>3, <1>5
<1> HIDE DEF Bad
<1>h. /\ Half(n) \in Nat /\ (2 * Half(n) = n \/ 2 * Half(n) = n + 1)
      /\ Half(size) \in Nat /\ (2 * Half(size) = size \/ 2 * Half(size) = size + 1)
  BY <1>3, HalfProps
<1>6. a + 1 \in 1..Half(n) /\ a + 1 \in Nat /\ 2 * a + 1 \in Nat /\ 2 * a + 2 \in Nat
  BY <1>3, <1>4, <1>h
<1>7. up[a + 1] = IF 2 * a + 1 >= n THEN hs[2 * a + 1] ELSE <<hs[2 * a + 1], hs[2 * a + 2]>>
  <2>1. 2 * (a + 1) - 2 = 2 * a /\ 2 * (a + 1) - 1 = 2 * a + 1 /\ 2 * (a + 1) = 2 * a + 2 /\ 2 * a < n
    BY <1>3, <1>4
  <2>2. up[a + 1] = Above(hs, n, a + 1)
    BY <1>6
  <2> QED BY <2>1, <2>2 DEF Above, combine_hash
<1>8. size <= 2 => u[Half(size)][a + 1] = up[a + 1]
  <2>1. SUFFICES ASSUME size <= 2 PROVE u[Half(size)][a + 1] = up[a + 1]
    OBVIOUS
  <2>2. Half(size) \in 0..Half(n) /\ Half(size) <= 1
    BY <1>3, <1>h, <2>1
  <2> QED BY <1>6, <1>h, <2>2, SubtreeOf
<1>9. CASE size = 1
  <2>1. t[size][2 * a + 1] = hs[2 * a + 1]
    BY <1>3, <1>6, <1>9, SubtreeOf
  <2>2. 2 * a + 1 >= n
    BY <1>3, <1>4, <1>9, <1>h
  <2> QED BY <1>4, <1>7, <1>8, <1>9, <2>1, <2>2
<1>10. CASE size = 2
  <2>1. LeftSize(size) = 1 /\ size - LeftSize(size) = 1
    BY <1>3, <1>10, LeftProps
  <2>2. t[size][2 * a + 1] = <<t[1][2 * a + 1], t[1][2 * a + 2]>>
    <3>1. (2 * a + 1) + 1 = 2 * a + 2
      OBVIOUS
    <3>2. size \in 0..n /\ size >= 2
      BY <1>3, <1>10
    <3> QED BY <1>6, <2>1, <3>1, <3>2, SubtreeOf
  <2>3. t[1][2 * a + 1] = hs[2 * a + 1] /\ t[1][2 * a + 2] = hs[2 * a + 2]
    <3>1. 1 \in 0..n
      OBVIOUS
    <3> QED BY <1>6, <3>1, SubtreeOf
  <2>4. ~(2 * a + 1 >= n)
    BY <1>4, <1>10
  <2> QED BY <1>4, <1>7, <1>8, <1>10, <2>2, <2>3, <2>4
<1>11. CASE size >= 3
  <2> DEFINE left == LeftSize(size)
             half == LeftSize(Half(size))
  <2>1. /\ left \in Nat /\ left >= 1 /\ left < size
        /\ left = 2 * half
    BY <1>3, <1>11, LeftProps
  <2>2. Half(size) >= 2 /\ half \in Nat /\ half >= 1 /\ half < Half(size)
    <3>1. Half(size) >= 2
      BY <1>3, <1>11, HalfProps
    <3> QED BY <1>h, <3>1, LeftProps
  <2>3. t[size][2 * a + 1] = <<t[left][2 * a + 1], t[size - left][2 * a + 1 + left]>>
    BY <1>3, <1>6, <1>11, SubtreeOf
  <2>4. u[Half(size)][a + 1] = <<u[half][a + 1], u[Half(size) - half][a + 1 + half]>>
    <3>1. Half(size) \in 0..Half(n)
      BY <1>3, <1>h
    <3> QED BY <1>6, <1>h, <2>2, <3>1, SubtreeOf
  <2> HIDE DEF left, half
  <2>5. Half(left) = half
    BY <2>1, <2>2 DEF Half
  <2>6. Half(size - left) = Half(size) - half
    BY <1>3, <2>1, <2>2 DEF Half
  <2>7. t[left][2 * a + 1] = u[half][a + 1]
    <3>1. Good(left)
      BY <1>5, <2>1
    <3>2. 2 * a + left <= n /\ left = 2 * Half(left)
      BY <1>3, <1>4, <2>1, <2>5
    <3> QED BY <2>5, <3>1, <3>2
  <2>8. t[size - left][2 * a + 1 + left] = u[Half(size) - half][a + 1 + half]
    <3>1. Good(size - left)
      <4>1. size - left \in Nat /\ size - left >= 1 /\ size - left < size
        BY <1>3, <2>1
      <4> QED BY <1>5, <4>1
    <3>2. a + half \in Nat /\ 2 * (a + half) + 1 = 2 * a + 1 + left /\ (a + half) + 1 = a + 1 + half
      BY <2>1, <2>2
    <3>3. /\ 2 * (a + half) + (size - left) <= n
          /\ size - left = 2 * Half(size - left) \/ 2 * (a + half) + (size - left) = n
      BY <1>3, <1>4, <1>h, <2>1, <2>2, <2>6
    <3>4. t[size - left][2 * (a + half) + 1] = u[Half(size - left)][(a + half) + 1]
      BY <3>1, <3>2, <3>3
    <3> QED BY <2>6, <3>2, <3>4
  <2> QED BY <1>4, <2>3, <2>4, <2>7, <2>8
<1> QED BY <1>3, <1>9, <1>10, <1>11

\* Folding a level keeps the tree.
LEMMA LevelFolds ==
    ASSUME NEW hs, NEW up, NEW n \in Nat, n >= 2,
           \A k \in 1..Half(n) : up[k] = Above(hs, n, k)
    PROVE  Tree(hs, n) = Tree(up, Half(n))
<1>1. Half(n) \in Nat /\ (2 * Half(n) = n \/ 2 * Half(n) = n + 1)
  BY HalfProps
<1>2. PICK t : Subtrees(t, hs, n) /\ Tree(hs, n) = t[n][1]
  BY TreeOf
<1>3. PICK u : Subtrees(u, up, Half(n)) /\ Tree(up, Half(n)) = u[Half(n)][1]
  BY <1>1, TreeOf
<1>4. \A size \in 1..n, a \in Nat :
          2 * a + size <= n /\ (size = 2 * Half(size) \/ 2 * a + size = n)
              => t[size][2 * a + 1] = u[Half(size)][a + 1]
  BY <1>2, <1>3, SubtreeFolds
<1>5. n \in 1..n /\ 0 \in Nat /\ 2 * 0 + n <= n /\ 2 * 0 + n = n
  OBVIOUS
<1>6. t[n][2 * 0 + 1] = u[Half(n)][0 + 1]
  BY <1>4, <1>5
<1> QED BY <1>2, <1>3, <1>6

-----------------------------------------------------------------------------
\* Hashes of leaves.
LeafHashes(hs, n) == \A k \in 1..n : \E x : hs[k] = <<x>>

\* A hash of a leaf and a hash of two hashes are apart.
LEMMA TuplesApart ==
    ASSUME NEW x, NEW y, NEW z
    PROVE  <<x>> # <<y, z>> /\ <<>> # <<x>> /\ <<>> # <<y, z>>
BY Len(<<x>>) = 1, Len(<<y, z>>) = 2, Len(<<>>) = 0

\* A subtree of the hashes hs that is equal to one of gs is over equal hashes.
SizeDetermines(t, hs, n, u, gs, m, size) ==
    \A other \in 1..m, a \in Nat, b \in Nat :
        a >= 1 /\ b >= 1 /\ a + size <= n + 1 /\ b + other <= m + 1 /\ t[size][a] = u[other][b]
            => size = other /\ \A j \in 0..(size - 1) : hs[a + j] = gs[b + j]

\* Two subtrees of leaf hashes that are equal are of one size, over equal hashes.
LEMMA SubtreeDetermines ==
    ASSUME NEW hs, NEW gs, NEW n \in Nat, NEW m \in Nat, LeafHashes(hs, n), LeafHashes(gs, m),
           NEW t, Subtrees(t, hs, n), NEW u, Subtrees(u, gs, m)
    PROVE  \A size \in 1..n : SizeDetermines(t, hs, n, u, gs, m, size)
<1> DEFINE Good(size) == SizeDetermines(t, hs, n, u, gs, m, size)
           Bad == {size \in 1..n : ~Good(size)}
<1>1. SUFFICES ASSUME Bad # {} PROVE FALSE
  OBVIOUS
<1>2. PICK size \in Bad : \A l \in Bad : size <= l
  <2>1. Bad \in SUBSET Nat
    OBVIOUS
  <2> QED BY <1>1, <2>1, LeastExists, Zenon
<1>3. size \in 1..n /\ size \in 0..n /\ size \in Nat /\ size >= 1 /\ size <= n
  BY <1>2
<1>4. PICK other \in 1..m, a \in Nat, b \in Nat :
          /\ a >= 1 /\ b >= 1 /\ a + size <= n + 1 /\ b + other <= m + 1 /\ t[size][a] = u[other][b]
          /\ ~(size = other /\ \A j \in 0..(size - 1) : hs[a + j] = gs[b + j])
  BY <1>2, Zenon DEF SizeDetermines
<1>5. ASSUME NEW l \in Nat, l >= 1, l < size PROVE Good(l)
  BY <1>2, <1>3, <1>5
<1> HIDE DEF Bad
<1>6. other \in 0..m /\ other \in Nat /\ other >= 1 /\ other <= m
  OBVIOUS
<1>7. /\ size = 1 => t[size][a] = hs[a] /\ \E x : hs[a] = <<x>>
      /\ size >= 2 => t[size][a] = <<t[LeftSize(size)][a], t[size - LeftSize(size)][a + LeftSize(size)]>>
  <2>1. a \in 1..n
    BY <1>3, <1>4
  <2> QED BY <1>3, <2>1, SubtreeOf DEF LeafHashes
<1>8. /\ other = 1 => u[other][b] = gs[b] /\ \E x : gs[b] = <<x>>
      /\ other >= 2 => u[other][b] = <<u[LeftSize(other)][b], u[other - LeftSize(other)][b + LeftSize(other)]>>
  <2>1. b \in 1..m
    BY <1>4, <1>6
  <2> QED BY <1>6, <2>1, SubtreeOf DEF LeafHashes
<1>9. size = 1 <=> other = 1
  <2>1. CASE size = 1 /\ other # 1
    <3>1. other >= 2
      BY <1>6, <2>1
    <3>2. PICK x : t[size][a] = <<x>>
      BY <1>7, <2>1
    <3> QED BY <1>4, <1>8, <3>1, <3>2, TuplesApart
  <2>2. CASE size # 1 /\ other = 1
    <3>1. size >= 2
      BY <1>3, <2>2
    <3>2. PICK x : u[other][b] = <<x>>
      BY <1>8, <2>2
    <3> QED BY <1>4, <1>7, <3>1, <3>2, TuplesApart
  <2> QED BY <2>1, <2>2
<1>10. CASE size = 1
  <2>1. hs[a] = gs[b]
    BY <1>4, <1>7, <1>8, <1>9, <1>10
  <2>2. \A j \in 0..(size - 1) : j = 0 /\ a + j = a /\ b + j = b
    BY <1>10
  <2> QED BY <1>4, <1>9, <1>10, <2>1, <2>2
<1>11. CASE size >= 2
  <2>1. other >= 2
    BY <1>6, <1>9, <1>11
  <2> DEFINE left == LeftSize(size)
             part == LeftSize(other)
  <2>2. /\ left \in Nat /\ left >= 1 /\ left < size
        /\ part \in Nat /\ part >= 1 /\ part < other
    BY <1>3, <1>6, <1>11, <2>1, LeftProps
  <2>3. t[left][a] = u[part][b] /\ t[size - left][a + left] = u[other - part][b + part]
    <3> DEFINE x1 == t[left][a]
               x2 == t[size - left][a + left]
               y1 == u[part][b]
               y2 == u[other - part][b + part]
    <3>1. <<x1, x2>> = <<y1, y2>>
      BY <1>4, <1>7, <1>8, <1>11, <2>1
    <3> HIDE DEF x1, x2, y1, y2
    <3>2. x1 = y1 /\ x2 = y2
      BY <3>1
    <3> QED BY <3>2 DEF x1, x2, y1, y2
  <2> HIDE DEF left, part
  <2>4. left = part /\ \A j \in 0..(left - 1) : hs[a + j] = gs[b + j]
    <3>1. Good(left)
      BY <1>5, <2>2
    <3>2. part \in 1..m /\ a + left <= n + 1 /\ b + part <= m + 1
      BY <1>3, <1>4, <1>6, <2>2
    <3> QED BY <1>4, <2>3, <3>1, <3>2 DEF SizeDetermines
  <2>5. size - left = other - part /\ \A j \in 0..(size - left - 1) : hs[a + left + j] = gs[b + part + j]
    <3>1. Good(size - left)
      <4>1. size - left \in Nat /\ size - left >= 1 /\ size - left < size
        BY <1>3, <2>2
      <4> QED BY <1>5, <4>1
    <3>2. /\ other - part \in 1..m /\ a + left \in Nat /\ b + part \in Nat /\ a + left >= 1 /\ b + part >= 1
          /\ a + left + (size - left) <= n + 1 /\ b + part + (other - part) <= m + 1
      BY <1>3, <1>4, <1>6, <2>2
    <3> QED BY <2>3, <3>1, <3>2 DEF SizeDetermines
  <2>6. ASSUME NEW j \in 0..(size - 1) PROVE hs[a + j] = gs[b + j]
    <3>1. CASE j < left
      BY <2>2, <2>4, <3>1
    <3>2. CASE j >= left
      <4>1. j - left \in 0..(size - left - 1) /\ a + left + (j - left) = a + j /\ b + part + (j - left) = b + j
        BY <1>3, <2>2, <2>4, <3>2
      <4> QED BY <2>5, <4>1
    <3> QED BY <2>2, <3>1, <3>2
  <2>7. size = other
    BY <1>3, <1>6, <2>2, <2>4, <2>5
  <2> QED BY <1>4, <2>6, <2>7, Zenon
<1> QED BY <1>3, <1>10, <1>11

\* The tree over leaf hashes determines how many there are, and each of them.
LEMMA TreeDetermines ==
    ASSUME NEW hs, NEW gs, NEW n \in Nat \ {0}, NEW m \in Nat \ {0}, LeafHashes(hs, n), LeafHashes(gs, m),
           Tree(hs, n) = Tree(gs, m)
    PROVE  n = m /\ \A k \in 1..n : hs[k] = gs[k]
<1>1. PICK t : Subtrees(t, hs, n) /\ Tree(hs, n) = t[n][1]
  BY TreeOf
<1>2. PICK u : Subtrees(u, gs, m) /\ Tree(gs, m) = u[m][1]
  BY TreeOf
<1>3. SizeDetermines(t, hs, n, u, gs, m, n)
  BY <1>1, <1>2, SubtreeDetermines
<1>4. n \in 1..n /\ m \in 1..m /\ 1 + n <= n + 1 /\ 1 + m <= m + 1
  OBVIOUS
<1>5. n = m /\ \A j \in 0..(n - 1) : hs[1 + j] = gs[1 + j]
  <2>1. t[n][1] = u[m][1]
    BY <1>1, <1>2, Zenon
  <2> QED BY <1>3, <1>4, <2>1 DEF SizeDetermines
<1>6. ASSUME NEW k \in 1..n PROVE hs[k] = gs[k]
  <2>1. k - 1 \in 0..(n - 1) /\ 1 + (k - 1) = k
    OBVIOUS
  <2> QED BY <1>5, <2>1
<1> QED BY <1>5, <1>6

-----------------------------------------------------------------------------
\* The root of an array.
LEMMA InputIs ==
    ASSUME NEW s \in Inputs
    PROVE  /\ s \in Seq(Leaves) /\ Len(s) \in 0..MaxLeaves /\ Len(s) \in Nat
           /\ DOMAIN s = 1..Len(s)
           /\ \A k \in DOMAIN s : s[k] \in Leaves /\ s[k] \in Nat
<1>1. PICK n \in 0..MaxLeaves : s \in [1..n -> Leaves]
  BY DEF Inputs
<1>2. n \in Nat
  BY <1>1, MerkleAssumption
<1>3. s \in Seq(Leaves)
  BY <1>1, <1>2
<1>4. Len(s) = n /\ DOMAIN s = 1..n
  BY <1>1, <1>2, <1>3
<1> QED BY <1>1, <1>2, <1>3, <1>4, MerkleAssumption, Zenon

LEMMA HashesAre ==
    ASSUME NEW s \in Inputs
    PROVE  /\ SortedHashes(s) = [k \in 1..Len(s) |-> <<Sorted(s)[k]>>]
           /\ LeafHashes(SortedHashes(s), Len(s))
           /\ s = <<>> <=> Len(s) = 0
<1>1. SortedHashes(s) = [k \in 1..Len(s) |-> <<Sorted(s)[k]>>]
  BY DEF SortedHashes, hash_borsh
<1>2. s = <<>> <=> Len(s) = 0
  BY InputIs
<1> QED BY <1>1, <1>2 DEF LeafHashes

\* A tree over leaf hashes is the hash of a leaf or of two hashes.
LEMMA TreeShape ==
    ASSUME NEW hs, NEW n \in Nat \ {0}, LeafHashes(hs, n)
    PROVE  (\E x : Tree(hs, n) = <<x>>) \/ (\E x, y : Tree(hs, n) = <<x, y>>)
<1>1. PICK t : Subtrees(t, hs, n) /\ Tree(hs, n) = t[n][1]
  BY TreeOf
<1>2. /\ n <= 1 => t[n][1] = hs[1]
      /\ n >= 2 => t[n][1] = <<t[LeftSize(n)][1], t[n - LeftSize(n)][1 + LeftSize(n)]>>
  BY <1>1, SubtreeOf
<1>3. CASE n <= 1
  BY <1>1, <1>2, <1>3 DEF LeafHashes
<1>4. CASE n >= 2
  BY <1>1, <1>2, <1>4
<1> QED BY <1>3, <1>4

\* The roots of two arrays are equal exactly when they are sorted to one array.
LEMMA RootSame ==
    ASSUME NEW s \in Inputs, NEW r \in Inputs
    PROVE  RootOf(s) = RootOf(r) <=> Sorted(s) = Sorted(r)
<1>1. /\ Len(s) \in Nat /\ Len(r) \in Nat
      /\ DOMAIN Sorted(s) = 1..Len(s) /\ DOMAIN Sorted(r) = 1..Len(r)
      /\ Sorted(s) = [k \in 1..Len(s) |-> Sorted(s)[k]] /\ Sorted(r) = [k \in 1..Len(r) |-> Sorted(r)[k]]
  BY InputIs DEF Sorted
<1>2. Sorted(s) = Sorted(r) => Len(s) = Len(r)
  <2>1. SUFFICES ASSUME 1..Len(s) = 1..Len(r) PROVE Len(s) = Len(r)
    BY <1>1
  <2>2. Len(s) \in Nat /\ Len(r) \in Nat
    BY InputIs
  <2>3. \A k \in Nat \ {0} : k <= Len(s) <=> k <= Len(r)
    BY <2>1, <2>2
  <2> QED BY <2>2, <2>3
<1>3. ASSUME Sorted(s) = Sorted(r) PROVE RootOf(s) = RootOf(r)
  <2>1. Len(s) = Len(r) /\ SortedHashes(s) = SortedHashes(r) /\ (s = <<>> <=> r = <<>>)
    BY <1>2, <1>3, HashesAre
  <2> QED BY <2>1 DEF RootOf
<1>4. ASSUME s # <<>>, r # <<>>, RootOf(s) = RootOf(r) PROVE Sorted(s) = Sorted(r)
  <2>1. /\ Len(s) \in Nat \ {0} /\ Len(r) \in Nat \ {0}
        /\ LeafHashes(SortedHashes(s), Len(s)) /\ LeafHashes(SortedHashes(r), Len(r))
    BY <1>1, <1>4, HashesAre
  <2>2. Tree(SortedHashes(s), Len(s)) = Tree(SortedHashes(r), Len(r))
    BY <1>4 DEF RootOf
  <2>3. Len(s) = Len(r) /\ \A k \in 1..Len(s) : SortedHashes(s)[k] = SortedHashes(r)[k]
    BY <2>1, <2>2, TreeDetermines
  <2>4. ASSUME NEW k \in 1..Len(s) PROVE Sorted(s)[k] = Sorted(r)[k]
    <3>1. SortedHashes(s)[k] = <<Sorted(s)[k]>> /\ SortedHashes(r)[k] = <<Sorted(r)[k]>>
      BY <2>3, HashesAre
    <3>2. <<Sorted(s)[k]>> = <<Sorted(r)[k]>>
      BY <2>3, <3>1
    <3> QED BY <3>2
  <2> QED BY <1>1, <2>3, <2>4
<1>5. ASSUME NEW a \in Inputs, NEW b \in Inputs, a = <<>>, b # <<>> PROVE RootOf(a) # RootOf(b)
  <2>1. RootOf(a) = <<>>
    BY <1>5 DEF RootOf, DefaultHash
  <2>2. Len(b) \in Nat \ {0} /\ LeafHashes(SortedHashes(b), Len(b))
    BY <1>5, InputIs, HashesAre
  <2>3. RootOf(b) = Tree(SortedHashes(b), Len(b))
    BY <1>5 DEF RootOf
  <2>4. (\E x : RootOf(b) = <<x>>) \/ (\E x, y : RootOf(b) = <<x, y>>)
    BY <2>2, <2>3, TreeShape
  <2>5. ASSUME NEW x PROVE <<>> # <<x>>
    BY TuplesApart
  <2>6. ASSUME NEW x, NEW y PROVE <<>> # <<x, y>>
    BY TuplesApart
  <2> QED BY <2>1, <2>4, <2>5, <2>6, Zenon
<1>6. CASE s = <<>> /\ r = <<>>
  BY <1>6
<1>7. CASE s # <<>> /\ r # <<>>
  BY <1>3, <1>4, <1>7
<1>8. CASE (s = <<>>) # (r = <<>>)
  BY <1>3, <1>5, <1>8
<1> QED BY <1>6, <1>7, <1>8

-----------------------------------------------------------------------------
\* The fold in place.  The positions before i hold the level above, the others
\* still the level s that is folded, whose tree is the tree of the array.
Folding(s) ==
    /\ Tree(s, arr_len) = RootOf(arr)
    /\ \A k \in 1..Len(arr) : hashes[k] = IF k <= i THEN Above(s, arr_len, k) ELSE s[k]

\* The inductive invariant: the width of the level above is that of the left
\* subtree, and no hash is the mark of a missing result.
FoldInv ==
    /\ arr \in Inputs
    /\ hashes = [k \in 1..Len(arr) |-> hashes[k]]
    /\ len \in Nat /\ i \in 0..len
    /\ root # Unset => root = RootOf(arr)
    /\ root = Unset =>
        /\ arr_len \in 2..Len(arr)
        /\ len = LeftSize(arr_len)
        /\ \A k \in 1..Len(arr) : hashes[k] # Unset
        /\ \E s : Folding(s)

LEMMA HashIsSet ==
    ASSUME NEW x, NEW y
    PROVE  <<x>> # Unset /\ <<x, y>> # Unset
BY Len(<<x>>) = 1, Len(<<x, y>>) = 2, Len(<<0, 0, 0>>) = 3 DEF Unset

LEMMA FoldInit == Init => FoldInv
<1> SUFFICES ASSUME Init PROVE FoldInv
  OBVIOUS
<1>1. /\ arr \in Inputs /\ hashes = SortedHashes(arr) /\ arr_len = Len(arr) /\ i = 0
      /\ len = next_power_of_two[Len(arr)] \div 2
  BY DEF Init
<1>2. Len(arr) \in Nat
  BY <1>1, InputIs
<1>3. /\ hashes = [k \in 1..Len(arr) |-> <<Sorted(arr)[k]>>]
      /\ arr = <<>> <=> Len(arr) = 0
  BY <1>1, HashesAre
<1>4. /\ hashes = [k \in 1..Len(arr) |-> hashes[k]]
      /\ \A k \in 1..Len(arr) : hashes[k] # Unset
  BY <1>3, HashIsSet
<1>5. CASE Len(arr) = 0
  <2>1. root = <<>> /\ RootOf(arr) = <<>>
    BY <1>3, <1>5 DEF Init, RootOf, DefaultHash
  <2>2. root # Unset
    BY <2>1, Len(<<>>) = 0, Len(<<0, 0, 0>>) = 3 DEF Unset
  <2>3. len = 0
    BY <1>1, <1>5, PowerUnfolds
  <2> QED BY <1>1, <1>4, <2>1, <2>2, <2>3 DEF FoldInv
<1>6. CASE Len(arr) = 1
  <2>1. root = hashes[1] /\ root # Unset
    BY <1>4, <1>6 DEF Init
  <2>2. RootOf(arr) = Tree(hashes, 1)
    BY <1>1, <1>3, <1>6 DEF RootOf
  <2>3. PICK t : Subtrees(t, hashes, 1) /\ Tree(hashes, 1) = t[1][1]
    BY TreeOf
  <2>4. t[1][1] = hashes[1]
    BY <2>3, SubtreeOf
  <2>5. len = 0
    BY <1>1, <1>6, PowerUnfolds
  <2> QED BY <1>1, <1>4, <2>1, <2>2, <2>3, <2>4, <2>5 DEF FoldInv
<1>7. CASE Len(arr) >= 2
  <2>1. root = Unset
    BY <1>2, <1>7 DEF Init
  <2>2. len = LeftSize(arr_len) /\ len \in Nat
    BY <1>1, <1>2, <1>7, LeftProps DEF LeftSize
  <2>3. Folding(hashes)
    BY <1>1, <1>2, <1>3, <1>7 DEF Folding, RootOf
  <2>4. arr_len \in 2..Len(arr)
    BY <1>1, <1>2, <1>7
  <2> QED BY <1>1, <1>4, <2>1, <2>2, <2>3, <2>4 DEF FoldInv
<1> QED BY <1>2, <1>5, <1>6, <1>7

\* What the invariant says while the array is folded.
LEMMA WhileFolding ==
    ASSUME FoldInv, root = Unset
    PROVE  /\ arr \in Inputs /\ Len(arr) \in Nat
           /\ arr_len \in Nat /\ arr_len >= 2 /\ arr_len <= Len(arr)
           /\ len \in Nat /\ len = LeftSize(arr_len) /\ len >= Half(arr_len) /\ len >= 1
           /\ i \in Nat /\ i <= len
           /\ hashes = [k \in 1..Len(arr) |-> hashes[k]]
           /\ \A k \in 1..Len(arr) : hashes[k] # Unset
           /\ \E s : Folding(s)
<1>1. /\ arr \in Inputs /\ len \in Nat /\ i \in 0..len
      /\ hashes = [k \in 1..Len(arr) |-> hashes[k]]
      /\ arr_len \in 2..Len(arr)
      /\ len = LeftSize(arr_len)
      /\ \A k \in 1..Len(arr) : hashes[k] # Unset
      /\ \E s : Folding(s)
  BY DEF FoldInv
<1>2. Len(arr) \in Nat
  BY <1>1, InputIs
<1>3. arr_len \in Nat /\ arr_len >= 2 /\ arr_len <= Len(arr)
  BY <1>1, <1>2
<1>4. len >= Half(arr_len) /\ len >= 1
  BY <1>1, <1>3, LeftProps
<1>5. i \in Nat /\ i <= len
  BY <1>1
<1> QED BY <1>1, <1>2, <1>3, <1>4, <1>5


\* A turn of the inner loop writes one position of the level above: what it
\* reads lies at or behind the position, which no turn has written before.
LEMMA FoldStep ==
    ASSUME FoldInv, Fold
    PROVE  FoldInv'
<1>1. /\ root = Unset /\ i < len /\ i' = i + 1
      /\ hashes' = IF 2 * i >= arr_len THEN hashes ELSE [hashes EXCEPT ![i + 1] = HashAbove]
      /\ arr' = arr /\ len' = len /\ arr_len' = arr_len /\ root' = root
  BY DEF Fold
<1>2. /\ arr \in Inputs /\ Len(arr) \in Nat
      /\ arr_len \in Nat /\ arr_len >= 2 /\ arr_len <= Len(arr)
      /\ len \in Nat /\ len = LeftSize(arr_len)
      /\ i \in Nat
      /\ hashes = [k \in 1..Len(arr) |-> hashes[k]]
      /\ \A k \in 1..Len(arr) : hashes[k] # Unset
      /\ \E s : Folding(s)
  BY <1>1, WhileFolding
<1>3. PICK s : Folding(s)
  BY <1>2
<1>4. /\ Tree(s, arr_len) = RootOf(arr)
      /\ \A k \in 1..Len(arr) : hashes[k] = IF k <= i THEN Above(s, arr_len, k) ELSE s[k]
  BY <1>3 DEF Folding
<1>5. \A k \in 1..Len(arr) : k # i + 1 => hashes'[k] = hashes[k]
  BY <1>1, <1>2
<1>6. hashes' = [k \in 1..Len(arr) |-> hashes'[k]]
  <2>1. CASE 2 * i >= arr_len
    BY <1>1, <1>2, <2>1
  <2>2. CASE ~(2 * i >= arr_len)
    <3>1. hashes' = [hashes EXCEPT ![i + 1] = HashAbove]
      BY <1>1, <2>2
    <3> QED BY <1>2, <3>1
  <2> QED BY <2>1, <2>2
<1>7. i + 1 \in 1..Len(arr) => hashes'[i + 1] = Above(s, arr_len, i + 1) /\ hashes'[i + 1] # Unset
  <2>1. SUFFICES ASSUME i + 1 \in 1..Len(arr)
                 PROVE  hashes'[i + 1] = Above(s, arr_len, i + 1) /\ hashes'[i + 1] # Unset
    OBVIOUS
  <2>2. hashes[i + 1] = s[i + 1] /\ hashes[i + 1] # Unset
    <3>1. ~(i + 1 <= i)
      BY <1>2
    <3> QED BY <1>2, <1>4, <2>1, <3>1
  <2>3. 2 * (i + 1) - 2 = 2 * i /\ 2 * (i + 1) - 1 = 2 * i + 1 /\ 2 * (i + 1) = 2 * i + 2
    BY <1>2
  <2>4. CASE 2 * i >= arr_len
    <3>1. hashes' = hashes
      BY <1>1, <2>4
    <3>2. Above(s, arr_len, i + 1) = s[i + 1]
      BY <2>3, <2>4 DEF Above
    <3> QED BY <2>2, <3>1, <3>2
  <2>5. CASE ~(2 * i >= arr_len)
    <3>1. hashes'[i + 1] = HashAbove
      BY <1>1, <1>2, <2>1, <2>5
    <3>2. 2 * i + 1 \in 1..Len(arr) /\ ~(2 * i + 1 <= i)
      BY <1>2, <2>5
    <3>3. hashes[2 * i + 1] = s[2 * i + 1] /\ hashes[2 * i + 1] # Unset
      BY <1>2, <1>4, <3>2
    <3>4. CASE 2 * i + 1 >= arr_len
      <4>1. HashAbove = hashes[2 * i + 1]
        BY <3>4 DEF HashAbove
      <4>2. Above(s, arr_len, i + 1) = s[2 * i + 1]
        BY <2>3, <2>5, <3>4 DEF Above
      <4> QED BY <3>1, <3>3, <4>1, <4>2
    <3>5. CASE ~(2 * i + 1 >= arr_len)
      <4>1. 2 * i + 2 \in 1..Len(arr) /\ ~(2 * i + 2 <= i)
        BY <1>2, <3>5
      <4>2. hashes[2 * i + 2] = s[2 * i + 2]
        BY <1>4, <4>1
      <4>3. HashAbove = <<hashes[2 * i + 1], hashes[2 * i + 2]>>
        BY <3>5 DEF HashAbove, combine_hash
      <4>4. Above(s, arr_len, i + 1) = <<s[2 * i + 1], s[2 * i + 2]>>
        BY <2>3, <2>5, <3>5 DEF Above, combine_hash
      <4>5. HashAbove # Unset
        BY <4>3, HashIsSet
      <4> QED BY <3>1, <3>3, <4>2, <4>3, <4>4, <4>5
    <3> QED BY <3>4, <3>5
  <2> QED BY <2>4, <2>5
<1>8. ASSUME NEW k \in 1..Len(arr)
      PROVE  /\ hashes'[k] = IF k <= i + 1 THEN Above(s, arr_len, k) ELSE s[k]
             /\ hashes'[k] # Unset
  <2>1. CASE k = i + 1
    BY <1>2, <1>7, <2>1
  <2>2. CASE k # i + 1
    <3>1. hashes'[k] = hashes[k] /\ hashes[k] # Unset
      BY <1>2, <1>5, <2>2
    <3>2. k <= i + 1 <=> k <= i
      BY <1>2, <2>2
    <3> QED BY <1>4, <3>1, <3>2
  <2> QED BY <2>1, <2>2
<1>9. Folding(s)'
  BY <1>1, <1>4, <1>8 DEF Folding
<1>10. /\ arr' \in Inputs /\ hashes' = [k \in 1..Len(arr') |-> hashes'[k]]
       /\ len' \in Nat /\ i' \in 0..len'
       /\ root' = Unset
       /\ arr_len' \in 2..Len(arr') /\ len' = LeftSize(arr_len')
       /\ \A k \in 1..Len(arr') : hashes'[k] # Unset
  BY <1>1, <1>2, <1>6, <1>8
<1> QED BY <1>9, <1>10 DEF FoldInv

\* The level is folded: what it holds is the level above, with the same tree.
LEMMA LevelFolded ==
    ASSUME FoldInv, root = Unset, i = len
    PROVE  Tree(hashes, Half(arr_len)) = RootOf(arr)
<1>1. /\ Len(arr) \in Nat
      /\ arr_len \in Nat /\ arr_len >= 2 /\ arr_len <= Len(arr)
      /\ len \in Nat /\ len >= Half(arr_len)
      /\ \E s : Folding(s)
  BY WhileFolding
<1>2. PICK s : Folding(s)
  BY <1>1
<1>3. Half(arr_len) \in Nat /\ Half(arr_len) < arr_len
  BY <1>1, HalfProps
<1>4. ASSUME NEW k \in 1..Half(arr_len) PROVE hashes[k] = Above(s, arr_len, k)
  <2>1. k \in 1..Len(arr) /\ k <= i
    BY <1>1, <1>3
  <2> QED BY <1>2, <2>1 DEF Folding
<1>5. Tree(s, arr_len) = Tree(hashes, Half(arr_len))
  BY <1>1, <1>4, LevelFolds
<1> QED BY <1>2, <1>5 DEF Folding

LEMMA NextLevelStep ==
    ASSUME FoldInv, NextLevel
    PROVE  FoldInv'
<1>1. /\ root = Unset /\ i = len /\ arr_len' = Half(arr_len) /\ arr' = arr /\ hashes' = hashes
      /\ \/ len > 1 /\ len' = len \div 2 /\ i' = 0 /\ root' = root
         \/ len = 1 /\ root' = hashes[1] /\ len' = len /\ i' = i
  BY DEF NextLevel, Half
<1>2. /\ arr \in Inputs /\ Len(arr) \in Nat
      /\ arr_len \in Nat /\ arr_len >= 2 /\ arr_len <= Len(arr)
      /\ len \in Nat /\ len = LeftSize(arr_len)
      /\ hashes = [k \in 1..Len(arr) |-> hashes[k]]
      /\ \A k \in 1..Len(arr) : hashes[k] # Unset
  BY <1>1, WhileFolding
<1>3. Tree(hashes, Half(arr_len)) = RootOf(arr)
  BY <1>1, LevelFolded
<1>4. /\ Half(arr_len) \in Nat /\ Half(arr_len) < arr_len
      /\ arr_len >= 3 => Half(arr_len) >= 2 /\ len = 2 * LeftSize(Half(arr_len))
      /\ len = 1 <=> arr_len = 2
  BY <1>2, HalfProps, LeftProps
<1>5. CASE len > 1
  <2>1. arr_len >= 3
    BY <1>2, <1>4, <1>5
  <2>2. /\ LeftSize(Half(arr_len)) \in Nat
        /\ len' = LeftSize(Half(arr_len)) /\ i' = 0 /\ root' = Unset
    <3>1. LeftSize(Half(arr_len)) \in Nat
      BY <1>4, <2>1, LeftProps
    <3> QED BY <1>1, <1>4, <1>5, <2>1, <3>1
  <2>3. Folding(hashes)'
    <3>1. \A k \in 1..Len(arr) : ~(k <= 0)
      BY <1>2
    <3> QED BY <1>1, <1>3, <2>2, <3>1 DEF Folding
  <2>4. \E s : Folding(s)'
    BY <2>3, <1>1 DEF Folding
  <2>5. arr_len' \in 2..Len(arr')
    BY <1>1, <1>2, <1>4, <2>1
  <2> QED BY <1>1, <1>2, <2>2, <2>4, <2>5 DEF FoldInv
<1>6. CASE len = 1
  <2>1. arr_len = 2 /\ Half(arr_len) = 1
    BY <1>4, <1>6 DEF Half
  <2>2. PICK t : Subtrees(t, hashes, 1) /\ Tree(hashes, 1) = t[1][1]
    BY TreeOf
  <2>3. t[1][1] = hashes[1]
    BY <2>2, SubtreeOf
  <2>4. root' = RootOf(arr') /\ root' # Unset
    BY <1>1, <1>2, <1>3, <1>6, <2>1, <2>2, <2>3
  <2>5. len' \in Nat /\ i' \in 0..len'
    BY <1>1, <1>6
  <2> QED BY <1>1, <1>2, <2>4, <2>5 DEF FoldInv
<1> QED BY <1>1, <1>5, <1>6

LEMMA FoldInvariant == Spec => []FoldInv
<1>1. Init => FoldInv
  BY FoldInit
<1>2. FoldInv /\ [Next]_vars => FoldInv'
  <2> SUFFICES ASSUME FoldInv, [Next]_vars PROVE FoldInv'
    OBVIOUS
  <2>1. CASE Fold
    BY <2>1, FoldStep
  <2>2. CASE NextLevel
    BY <2>2, NextLevelStep
  <2>3. CASE UNCHANGED vars
    BY <2>3 DEF vars, FoldInv, Folding
  <2> QED BY <2>1, <2>2, <2>3 DEF Next
<1> QED BY <1>1, <1>2, PTL DEF Spec

\* The types: the fold never leaves the array (merkle.rs:54-67).
THEOREM FoldStaysInRange == Spec => []TypeOK
<1>1. FoldInv => TypeOK
  <2> SUFFICES ASSUME FoldInv PROVE TypeOK
    OBVIOUS
  <2>1. /\ arr \in Inputs /\ i \in 0..len /\ Len(arr) \in Nat
        /\ hashes = [k \in 1..Len(arr) |-> hashes[k]]
    BY InputIs DEF FoldInv
  <2>2. hashes \in Seq({hashes[k] : k \in 1..Len(arr)})
    <3>1. hashes \in [1..Len(arr) -> {hashes[k] : k \in 1..Len(arr)}]
      BY <2>1
    <3> QED BY <2>1, <3>1
  <2>3. Len(hashes) = Len(arr)
    BY <2>1, <2>2
  <2>4. root = Unset => arr_len \in 1..Len(arr)
    BY <2>1 DEF FoldInv
  <2> QED BY <2>1, <2>3, <2>4 DEF TypeOK
<1> QED BY <1>1, FoldInvariant, PTL

\* Folding the array in place computes the balanced tree over the sorted hashes,
\* whatever the length of the array: no write of a level destroys a hash that
\* the level still reads (merkle.rs:54-67).
THEOREM FoldingBuildsTheTree == Spec => []FoldsTheTree
<1>1. FoldInv => FoldsTheTree
  BY DEF FoldInv, FoldsTheTree
<1> QED BY <1>1, FoldInvariant, PTL

-----------------------------------------------------------------------------
\* Sorting.  Only here the library is brought in: facts about finite sets.
INSTANCE FiniteSetTheorems

LEMMA InputFinite ==
    ASSUME NEW s \in Inputs
    PROVE  IsFiniteSet(DOMAIN s) /\ Cardinality(DOMAIN s) = Len(s)
<1>1. Len(s) \in Nat /\ DOMAIN s = 1..Len(s)
  BY InputIs
<1>2. ASSUME NEW n \in Nat PROVE IsFiniteSet(1..n) /\ Cardinality(1..n) = n
  BY FS_Interval
<1> QED BY <1>1, <1>2

\* The positions of an array that hold a leaf of a set.
At(s, V) == {k \in DOMAIN s : s[k] \in V}

LEMMA AtFinite ==
    ASSUME NEW s \in Inputs, NEW V
    PROVE  IsFiniteSet(At(s, V)) /\ Cardinality(At(s, V)) \in Nat /\ Cardinality(At(s, V)) <= Len(s)
<1>1. IsFiniteSet(DOMAIN s) /\ Cardinality(DOMAIN s) = Len(s)
  BY InputFinite
<1>2. At(s, V) \in SUBSET DOMAIN s
  BY DEF At
<1>3. IsFiniteSet(At(s, V)) /\ Cardinality(At(s, V)) <= Cardinality(DOMAIN s)
  BY <1>1, <1>2, FS_Subset
<1> QED BY <1>1, <1>3, FS_CardinalityType

\* The counts of the sort as counts of positions.
LEMMA CountsAt ==
    ASSUME NEW s \in Inputs, NEW x \in Nat
    PROVE  /\ Below(s, x) = Cardinality(At(s, 0..(x - 1)))
           /\ UpTo(s, x) = Cardinality(At(s, 0..x))
           /\ Times(s, x) = Cardinality(At(s, {x}))
<1>1. \A k \in DOMAIN s : s[k] \in Nat
  BY InputIs
<1>2. {k \in DOMAIN s : s[k] < x} = At(s, 0..(x - 1))
  BY <1>1 DEF At
<1>3. {k \in DOMAIN s : s[k] <= x} = At(s, 0..x)
  BY <1>1 DEF At
<1>4. {k \in DOMAIN s : s[k] = x} = At(s, {x})
  BY DEF At
<1> QED BY <1>2, <1>3, <1>4, Zenon DEF Below, UpTo, Times

LEMMA AtSubset ==
    ASSUME NEW s \in Inputs, NEW V, NEW W, V \subseteq W
    PROVE  Cardinality(At(s, V)) <= Cardinality(At(s, W))
<1>1. At(s, V) \in SUBSET At(s, W)
  BY DEF At
<1> QED BY <1>1, AtFinite, FS_Subset

\* How the counts hang together.
LEMMA CountsAre ==
    ASSUME NEW s \in Inputs, NEW x \in Nat
    PROVE  /\ Below(s, x) \in Nat /\ UpTo(s, x) \in Nat /\ Times(s, x) \in Nat
           /\ UpTo(s, x) = Below(s, x) + Times(s, x)
           /\ UpTo(s, x) <= Len(s)
           /\ Times(s, x) > 0 => \E k \in DOMAIN s : s[k] = x
           /\ x > 0 => Below(s, x) = UpTo(s, x - 1)
           /\ x = 0 => Below(s, x) = 0
           /\ \A y \in Nat : x < y => UpTo(s, x) <= Below(s, y)
<1>1. /\ Below(s, x) \in Nat /\ UpTo(s, x) \in Nat /\ Times(s, x) \in Nat
      /\ UpTo(s, x) <= Len(s)
  <2>1. /\ Cardinality(At(s, 0..(x - 1))) \in Nat
        /\ Cardinality(At(s, 0..x)) \in Nat /\ Cardinality(At(s, 0..x)) <= Len(s)
        /\ Cardinality(At(s, {x})) \in Nat
    BY AtFinite
  <2> QED BY <2>1, CountsAt
<1>2. UpTo(s, x) = Below(s, x) + Times(s, x)
  <2> DEFINE A == At(s, 0..(x - 1))
             B == At(s, {x})
  <2>1. At(s, 0..x) = A \cup B
    BY DEF At
  <2>2. A \cap B = {}
    BY DEF At
  <2>3. IsFiniteSet(A) /\ IsFiniteSet(B) /\ Cardinality(A) \in Nat /\ Cardinality(B) \in Nat
    BY AtFinite
  <2>4. Below(s, x) = Cardinality(A) /\ Times(s, x) = Cardinality(B) /\ UpTo(s, x) = Cardinality(A \cup B)
    BY <2>1, CountsAt, Zenon
  <2> HIDE DEF A, B
  <2>5. Cardinality(A \cup B) = Cardinality(A) + Cardinality(B) - Cardinality(A \cap B)
    BY <2>3, FS_Union
  <2>6. Cardinality(A \cap B) = 0
    BY <2>2, FS_EmptySet
  <2> QED BY <2>3, <2>4, <2>5, <2>6
<1>3. Times(s, x) > 0 => \E k \in DOMAIN s : s[k] = x
  <2>1. SUFFICES ASSUME At(s, {x}) = {} PROVE Times(s, x) = 0
    BY DEF At
  <2>2. Times(s, x) = Cardinality({})
    BY <2>1, CountsAt, Zenon
  <2> QED BY <2>2, FS_EmptySet
<1>4. x > 0 => Below(s, x) = UpTo(s, x - 1)
  <2>1. SUFFICES ASSUME x > 0 PROVE Below(s, x) = UpTo(s, x - 1)
    OBVIOUS
  <2>2. x - 1 \in Nat
    BY <2>1
  <2> QED BY <2>2, CountsAt, Zenon
<1>5. x = 0 => Below(s, x) = 0
  <2>1. SUFFICES ASSUME x = 0 PROVE Below(s, x) = 0
    OBVIOUS
  <2>2. At(s, 0..(x - 1)) = {}
    BY <2>1 DEF At
  <2>3. Below(s, x) = Cardinality({})
    BY <2>2, CountsAt, Zenon
  <2> QED BY <2>3, FS_EmptySet
<1>6. ASSUME NEW y \in Nat, x < y PROVE UpTo(s, x) <= Below(s, y)
  <2>1. 0..x \subseteq 0..(y - 1)
    BY <1>6
  <2>2. Cardinality(At(s, 0..x)) <= Cardinality(At(s, 0..(y - 1)))
    BY <2>1, AtSubset
  <2> QED BY <2>2, CountsAt, Zenon
<1> QED BY <1>1, <1>2, <1>3, <1>4, <1>5, <1>6


\* An array is bounded.
LEMMA InputBounded ==
    ASSUME NEW s \in Inputs
    PROVE  \E b \in Nat : \A k \in DOMAIN s : s[k] <= b
<1> DEFINE Bad == {n \in 0..Len(s) : ~\E b \in Nat : \A k \in 1..n : s[k] <= b}
<1>1. Len(s) \in Nat /\ DOMAIN s = 1..Len(s) /\ \A k \in 1..Len(s) : s[k] \in Nat
  BY InputIs
<1>2. SUFFICES ASSUME Bad # {} PROVE FALSE
  <2>1. Len(s) \in 0..Len(s)
    BY <1>1
  <2> QED BY <1>1, <2>1, Zenon
<1>3. PICK n \in Bad : \A l \in Bad : n <= l
  <2>1. Bad \in SUBSET Nat
    BY <1>1
  <2> QED BY <1>2, <2>1, LeastExists, Zenon
<1>4. n \in 0..Len(s) /\ n # 0
  BY <1>1, <1>3
<1>5. n \in Nat /\ n >= 1 /\ n <= Len(s) /\ n - 1 \in 0..Len(s)
  BY <1>1, <1>4
<1>6. n - 1 \notin Bad
  <2> HIDE DEF Bad
  <2>1. ~(n <= n - 1)
    BY <1>5
  <2> QED BY <1>3, <2>1
<1>7. PICK b \in Nat : \A k \in 1..(n - 1) : s[k] <= b
  BY <1>5, <1>6
<1> DEFINE last == s[n]
<1>8. last \in Nat
  <2>1. n \in 1..Len(s)
    BY <1>1, <1>5
  <2> QED BY <1>1, <2>1
<1>9. ASSUME NEW k \in 1..n PROVE s[k] <= b + last
  <2>1. k \in Nat /\ k \in 1..Len(s)
    BY <1>1, <1>5
  <2>2. s[k] \in Nat
    BY <1>1, <2>1
  <2>3. CASE k = n
    <3>1. s[k] = last
      BY <2>3
    <3> HIDE DEF last, Bad
    <3> QED BY <1>8, <3>1
  <2>4. CASE k # n
    <3>1. k \in 1..(n - 1)
      BY <1>5, <2>4
    <3>2. s[k] <= b
      BY <1>7, <3>1
    <3> HIDE DEF last, Bad
    <3> QED BY <1>8, <2>2, <3>2
  <2> QED BY <2>3, <2>4
<1> HIDE DEF last
<1>10. b + last \in Nat
  BY <1>7, <1>8
<1>11. \E c \in Nat : \A k \in 1..n : s[k] <= c
  BY <1>9, <1>10, Zenon
<1> QED BY <1>3, <1>11, Zenon

\* Every position of the sorted array has its leaf.
LEMMA SortedExists ==
    ASSUME NEW s \in Inputs, NEW k \in 1..Len(s)
    PROVE  \E x \in Leaves : Below(s, x) < k /\ k <= UpTo(s, x)
<1>1. Len(s) \in Nat /\ DOMAIN s = 1..Len(s) /\ \A l \in DOMAIN s : s[l] \in Leaves /\ s[l] \in Nat
  BY InputIs
<1>2. PICK b \in Nat : \A l \in DOMAIN s : s[l] <= b
  BY InputBounded
<1>3. UpTo(s, b) = Len(s)
  <2>1. {l \in DOMAIN s : s[l] <= b} = DOMAIN s
    BY <1>2, Zenon
  <2> QED BY <2>1, InputFinite DEF UpTo
<1> DEFINE High == {x \in Nat : UpTo(s, x) >= k}
<1>4. b \in High
  BY <1>1, <1>3
<1>5. PICK x \in High : \A y \in High : x <= y
  <2>1. High \in SUBSET Nat /\ High # {}
    BY <1>4
  <2> QED BY <2>1, LeastExists, Zenon
<1>6. x \in Nat /\ UpTo(s, x) >= k
  BY <1>5
<1>7. Below(s, x) < k
  <2>1. CASE x = 0
    BY <1>6, <2>1, CountsAre
  <2>2. CASE x > 0
    <3>1. x - 1 \in Nat /\ x - 1 \notin High
      BY <1>5, <1>6, <2>2
    <3>2. UpTo(s, x - 1) \in Nat /\ ~(UpTo(s, x - 1) >= k)
      BY <3>1, CountsAre
    <3>3. Below(s, x) = UpTo(s, x - 1)
      BY <1>6, <2>2, CountsAre
    <3> QED BY <3>2, <3>3
  <2> QED BY <1>6, <2>1, <2>2
<1>8. Below(s, x) \in Nat /\ Times(s, x) \in Nat /\ UpTo(s, x) = Below(s, x) + Times(s, x)
  BY <1>6, CountsAre
<1>9. Times(s, x) > 0
  BY <1>6, <1>7, <1>8
<1>10. PICK l \in DOMAIN s : s[l] = x
  BY <1>6, <1>9, CountsAre
<1>11. x \in Leaves
  BY <1>1, <1>10
<1> QED BY <1>6, <1>7, <1>8, <1>11

\* The sorted array holds a leaf at the positions that the counts name.
LEMMA SortedIs ==
    ASSUME NEW s \in Inputs
    PROVE  /\ DOMAIN Sorted(s) = 1..Len(s)
           /\ \A k \in 1..Len(s) :
                  /\ Sorted(s)[k] \in Leaves
                  /\ \A x \in Leaves : Sorted(s)[k] = x <=> Below(s, x) < k /\ k <= UpTo(s, x)
<1>1. DOMAIN Sorted(s) = 1..Len(s)
  BY DEF Sorted
<1>2. ASSUME NEW k \in 1..Len(s)
      PROVE  /\ Sorted(s)[k] \in Leaves
             /\ \A x \in Leaves : Sorted(s)[k] = x <=> Below(s, x) < k /\ k <= UpTo(s, x)
  <2> DEFINE Fits(x) == Below(s, x) < k /\ k <= UpTo(s, x)
             y == CHOOSE x \in Leaves : Fits(x)
  <2>1. Sorted(s)[k] = y
    BY DEF Sorted
  <2>2. \E x \in Leaves : Fits(x)
    BY SortedExists
  <2>3. y \in Leaves /\ Fits(y)
    <3> HIDE DEF Fits
    <3> QED BY <2>2
  <2> HIDE DEF y
  <2>4. Len(s) \in Nat /\ k \in Nat
    BY InputIs
  <2>5. ASSUME NEW x \in Leaves, Fits(x) PROVE y = x
    <3>1. x \in Nat /\ y \in Nat
      BY <2>3, MerkleAssumption
    <3>2. CASE x < y
      <4>1. UpTo(s, x) <= Below(s, y) /\ UpTo(s, x) \in Nat /\ Below(s, y) \in Nat
        BY <3>1, <3>2, CountsAre, Zenon
      <4> QED BY <2>3, <2>4, <2>5, <4>1
    <3>3. CASE y < x
      <4>1. UpTo(s, y) <= Below(s, x) /\ UpTo(s, y) \in Nat /\ Below(s, x) \in Nat
        BY <3>1, <3>3, CountsAre, Zenon
      <4> QED BY <2>3, <2>4, <2>5, <4>1
    <3> QED BY <3>1, <3>2, <3>3
  <2> QED BY <2>1, <2>3, <2>5
<1> QED BY <1>1, <1>2

\* Sorting keeps how often a leaf is in the array: equal sorted arrays hold the
\* same leaves as often.
LEMMA SortedCounts ==
    ASSUME NEW s \in Inputs, NEW x \in Leaves
    PROVE  Times(s, x) = Cardinality({k \in 1..Len(s) : Sorted(s)[k] = x})
<1>1. x \in Nat /\ Len(s) \in Nat
  BY InputIs, MerkleAssumption
<1> DEFINE low == Below(s, x)
           high == UpTo(s, x)
<1>2. low \in Nat /\ high \in Nat /\ high <= Len(s) /\ Times(s, x) \in Nat /\ high = low + Times(s, x)
  BY <1>1, CountsAre
<1>3. \A k \in 1..Len(s) : Sorted(s)[k] = x <=> low < k /\ k <= high
  BY SortedIs
<1> HIDE DEF low, high
<1>4. {k \in 1..Len(s) : Sorted(s)[k] = x} = (low + 1)..high
  BY <1>1, <1>2, <1>3
<1>5. low + 1 \in Int /\ high \in Int
  BY <1>2
<1>6. Cardinality((low + 1)..high) = IF low + 1 > high THEN 0 ELSE high - (low + 1) + 1
  BY <1>5, FS_Interval
<1> DEFINE times == Times(s, x)
<1>7. times \in Nat /\ high = low + times
  BY <1>2
<1> HIDE DEF times
<1>8. (IF low + 1 > high THEN 0 ELSE high - (low + 1) + 1) = times
  BY <1>2, <1>7
<1> QED BY <1>4, <1>6, <1>8, Zenon DEF times


\* Arrays that hold the same leaves as often are matched position by position.
LEMMA Matched ==
    ASSUME NEW s \in Inputs, NEW r \in Inputs, \A x \in Leaves : Times(s, x) = Times(r, x)
    PROVE  \E f \in Bijection(DOMAIN s, DOMAIN r) : \A k \in DOMAIN s : r[f[k]] = s[k]
<1> DEFINE B(x) == CHOOSE g : g \in Bijection(At(s, {x}), At(r, {x}))
           f == [k \in DOMAIN s |-> B(s[k])[k]]
<1>1. ASSUME NEW x \in Leaves PROVE B(x) \in Bijection(At(s, {x}), At(r, {x}))
  <2>1. Cardinality(At(s, {x})) = Cardinality(At(r, {x}))
    BY CountsAt, MerkleAssumption
  <2>2. ExistsBijection(At(s, {x}), At(r, {x}))
    BY <2>1, AtFinite, FS_SameCardinalityBij
  <2> QED BY <2>2 DEF ExistsBijection
<1> HIDE DEF B
<1>2. \A k \in DOMAIN s : s[k] \in Leaves /\ k \in At(s, {s[k]})
  BY InputIs DEF At
<1>3. \A k \in DOMAIN r : r[k] \in Leaves /\ k \in At(r, {r[k]})
  BY InputIs DEF At
<1>4. ASSUME NEW k \in DOMAIN s PROVE f[k] \in DOMAIN r /\ r[f[k]] = s[k]
  <2>1. B(s[k]) \in [At(s, {s[k]}) -> At(r, {s[k]})]
    BY <1>1, <1>2, Zenon DEF Bijection, Injection
  <2>2. B(s[k])[k] \in At(r, {s[k]})
    BY <1>2, <2>1
  <2> QED BY <2>2 DEF At
<1>5. ASSUME NEW k \in DOMAIN s, NEW l \in DOMAIN s, f[k] = f[l] PROVE k = l
  <2>1. s[k] = s[l]
    <3> HIDE DEF f
    <3> QED BY <1>4, <1>5
  <2>2. B(s[k])[k] = B(s[k])[l]
    BY <1>5, <2>1
  <2>3. k \in At(s, {s[k]}) /\ l \in At(s, {s[k]})
    BY <1>2, <2>1
  <2>4. IsInjective(B(s[k])) /\ DOMAIN B(s[k]) = At(s, {s[k]})
    BY <1>1, <1>2, Zenon DEF Bijection, Injection
  <2> QED BY <2>2, <2>3, <2>4 DEF IsInjective
<1>6. ASSUME NEW l \in DOMAIN r PROVE \E k \in DOMAIN s : f[k] = l
  <2>1. B(r[l]) \in Surjection(At(s, {r[l]}), At(r, {r[l]}))
    BY <1>1, <1>3 DEF Bijection
  <2>2. PICK k \in At(s, {r[l]}) : B(r[l])[k] = l
    BY <1>3, <2>1 DEF Surjection
  <2>3. k \in DOMAIN s /\ s[k] = r[l]
    BY <2>2 DEF At
  <2> QED BY <2>2, <2>3
<1>7. f \in [DOMAIN s -> DOMAIN r] /\ DOMAIN f = DOMAIN s
  BY <1>4
<1> HIDE DEF f
<1>8. f \in Bijection(DOMAIN s, DOMAIN r)
  <2>1. IsInjective(f)
    BY <1>5, <1>7 DEF IsInjective
  <2>2. f \in Injection(DOMAIN s, DOMAIN r)
    BY <1>7, <2>1 DEF Injection
  <2>3. f \in Surjection(DOMAIN s, DOMAIN r)
    BY <1>6, <1>7 DEF Surjection
  <2> QED BY <2>2, <2>3 DEF Bijection
<1> QED BY <1>4, <1>8

\* They hold as many leaves of every set.
LEMMA MatchedCounts ==
    ASSUME NEW s \in Inputs, NEW r \in Inputs, NEW V,
           NEW f \in Bijection(DOMAIN s, DOMAIN r), \A k \in DOMAIN s : r[f[k]] = s[k]
    PROVE  Cardinality(At(s, V)) = Cardinality(At(r, V))
<1> DEFINE g == [k \in At(s, V) |-> f[k]]
<1>1. /\ f \in [DOMAIN s -> DOMAIN r] /\ DOMAIN f = DOMAIN s
      /\ IsInjective(f)
      /\ \A l \in DOMAIN r : \E k \in DOMAIN s : f[k] = l
  BY DEF Bijection, Injection, Surjection
<1>2. g \in [At(s, V) -> At(r, V)] /\ DOMAIN g = At(s, V)
  BY <1>1 DEF At
<1>3. \A k \in At(s, V) : k \in DOMAIN s /\ g[k] = f[k]
  BY DEF At
<1>4. ASSUME NEW l \in At(r, V) PROVE \E k \in At(s, V) : g[k] = l
  <2>1. l \in DOMAIN r /\ r[l] \in V
    BY DEF At
  <2>2. PICK k \in DOMAIN s : f[k] = l
    BY <1>1, <2>1
  <2>3. k \in At(s, V)
    BY <2>1, <2>2 DEF At
  <2> QED BY <1>3, <2>2, <2>3
<1> HIDE DEF g
<1>5. IsInjective(g)
  BY <1>1, <1>2, <1>3 DEF IsInjective
<1>6. g \in Bijection(At(s, V), At(r, V))
  <2>1. g \in Injection(At(s, V), At(r, V))
    BY <1>2, <1>5 DEF Injection
  <2>2. g \in Surjection(At(s, V), At(r, V))
    BY <1>2, <1>4 DEF Surjection
  <2> QED BY <2>1, <2>2 DEF Bijection
<1>7. ExistsBijection(At(s, V), At(r, V))
  BY <1>6 DEF ExistsBijection
<1> QED BY <1>7, AtFinite, FS_Bijection

\* Two arrays are sorted to one exactly when they hold the same leaves as often.
LEMMA SortedSame ==
    ASSUME NEW s \in Inputs, NEW r \in Inputs
    PROVE  Sorted(s) = Sorted(r) <=> \A x \in Leaves : Times(s, x) = Times(r, x)
<1>1. Len(s) \in Nat /\ Len(r) \in Nat
  BY InputIs
<1>2. ASSUME Sorted(s) = Sorted(r), NEW x \in Leaves PROVE Times(s, x) = Times(r, x)
  <2>1. 1..Len(s) = 1..Len(r)
    BY <1>2, SortedIs
  <2>2. Times(s, x) = Cardinality({k \in 1..Len(s) : Sorted(s)[k] = x})
    BY SortedCounts
  <2>3. Times(r, x) = Cardinality({k \in 1..Len(r) : Sorted(r)[k] = x})
    BY SortedCounts
  <2> QED BY <1>2, <2>1, <2>2, <2>3, Zenon
<1>3. ASSUME \A x \in Leaves : Times(s, x) = Times(r, x) PROVE Sorted(s) = Sorted(r)
  <2>1. PICK f \in Bijection(DOMAIN s, DOMAIN r) : \A k \in DOMAIN s : r[f[k]] = s[k]
    BY <1>3, Matched
  <2>2. Len(s) = Len(r)
    <3>1. ExistsBijection(DOMAIN s, DOMAIN r)
      BY <2>1 DEF ExistsBijection
    <3>2. IsFiniteSet(DOMAIN s) /\ Cardinality(DOMAIN s) = Len(s) /\ Cardinality(DOMAIN r) = Len(r)
      BY InputFinite
    <3> QED BY <3>1, <3>2, FS_Bijection
  <2>3. ASSUME NEW x \in Leaves PROVE Below(s, x) = Below(r, x) /\ UpTo(s, x) = UpTo(r, x)
    <3>1. x \in Nat
      BY MerkleAssumption
    <3>2. /\ Cardinality(At(s, 0..(x - 1))) = Cardinality(At(r, 0..(x - 1)))
          /\ Cardinality(At(s, 0..x)) = Cardinality(At(r, 0..x))
      BY <2>1, MatchedCounts
    <3>3. Below(s, x) = Cardinality(At(s, 0..(x - 1))) /\ UpTo(s, x) = Cardinality(At(s, 0..x))
      BY <3>1, CountsAt, Zenon
    <3>4. Below(r, x) = Cardinality(At(r, 0..(x - 1))) /\ UpTo(r, x) = Cardinality(At(r, 0..x))
      BY <3>1, CountsAt, Zenon
    <3> QED BY <3>2, <3>3, <3>4
  <2>4. ASSUME NEW k \in 1..Len(s) PROVE Sorted(s)[k] = Sorted(r)[k]
    <3> DEFINE x == Sorted(r)[k]
    <3>1. x \in Leaves /\ Below(r, x) < k /\ k <= UpTo(r, x)
      BY <2>2, SortedIs
    <3>2. Below(s, x) < k /\ k <= UpTo(s, x)
      BY <2>3, <3>1
    <3> HIDE DEF x
    <3>3. Sorted(s)[k] = x
      BY <3>1, <3>2, SortedIs
    <3> QED BY <3>3 DEF x
  <2>5. Sorted(s) = [k \in 1..Len(s) |-> Sorted(s)[k]] /\ Sorted(r) = [k \in 1..Len(r) |-> Sorted(r)[k]]
    BY DEF Sorted
  <2> QED BY <2>2, <2>4, <2>5
<1> QED BY <1>2, <1>3

\* The root of an array commits to the leaves it holds.
LEMMA RootOfCommits ==
    ASSUME NEW s \in Inputs, NEW r \in Inputs
    PROVE  RootOf(s) = RootOf(r) <=> \A x \in Leaves : Times(s, x) = Times(r, x)
BY RootSame, SortedSame

\* The root of merklize commits to the requests of the batch: no two arrays
\* that differ in how often they hold a request have one root, and the order of
\* the requests does not count (merkle.rs:39-69).
THEOREM RootsDoCommit == Spec => []RootCommits
<1>1. FoldInv => RootCommits
  <2> SUFFICES ASSUME FoldInv, root # Unset, NEW other \in Inputs
               PROVE  Roots[other] = root <=> \A x \in Leaves : Times(other, x) = Times(arr, x)
    BY DEF RootCommits
  <2>1. arr \in Inputs /\ root = RootOf(arr)
    BY DEF FoldInv
  <2>2. Roots[other] = RootOf(other)
    BY DEF Roots
  <2> QED BY <2>1, <2>2, RootOfCommits
<1> QED BY <1>1, FoldInvariant, PTL
=============================================================================
