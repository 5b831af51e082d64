--------------------------- MODULE SigningProofs ---------------------------
(***************************************************************************)
(* Proofs about the signing of batches, for any nodes, committees, workers,*)
(* restarts and faults: the signature store of a node is that of one       *)
(* batch, and what the contract seals is signed by its whole committee.    *)
(* Nodes with one worker each lose no signature.                           *)
(***************************************************************************)
EXTENDS BatchSigning, FiniteSetTheorems, TLAPS

-----------------------------------------------------------------------------
\* The store of a batch: its fields, and what StoreConsistent says of them.
Fields(s) ==
    s = [header |-> s.header, slot |-> s.slot, signers |-> s.signers,
         signatures |-> s.signatures, aggregate |-> s.aggregate, p2p_message |-> s.p2p_message]

\* The aggregate of signatures of one root.
Sums(aggregate, signers, root) ==
    aggregate = [k \in DOMAIN signers |-> BatchMessage(signers[k], root)]

OneBatch(n, s) ==
    /\ Fields(s)
    /\ s.header \in 0..MaxPending
    /\ s.signers \in Seq(Nodes) /\ IsFiniteSet(s.signatures)
    /\ Range(s.signers) = s.signatures
    /\ Len(s.signers) = Cardinality(s.signatures)
    /\ Sums(s.aggregate, s.signers, s.header)
    /\ s.p2p_message = <<BatchMessage(n, s.header)>>
    /\ n \in s.signatures

GoodStore(n, s) == s = DefaultStore \/ OneBatch(n, s)

\* A transaction of as many signers as a committee has members, all different.
Complete(tx) == IsFiniteSet(Range(tx.signers)) /\ Cardinality(Range(tx.signers)) = CommitteeSize

LEMMA AppendedSet ==
    ASSUME NEW S, NEW q \in Seq(S), NEW x \in S
    PROVE  Range(Append(q, x)) = Range(q) \cup {x}
<1>1. /\ DOMAIN q = 1..Len(q) /\ Len(q) \in Nat
      /\ DOMAIN Append(q, x) = 1..(Len(q) + 1)
      /\ Append(q, x)[Len(q) + 1] = x
      /\ \A k \in 1..Len(q) : Append(q, x)[k] = q[k]
  OBVIOUS
<1>2. 1..(Len(q) + 1) = (1..Len(q)) \cup {Len(q) + 1}
  BY <1>1
<1> QED BY <1>1, <1>2, Zenon DEF Range

LEMMA NewStoreGood ==
    ASSUME NEW n \in Nodes, NEW b, NEW s, b.root \in 0..MaxPending
    PROVE  OneBatch(n, NewStore(n, b, s))
<1> DEFINE new == NewStore(n, b, s)
<1>1. /\ new.header = b.root /\ new.signers = <<n>> /\ new.signatures = {n}
      /\ new.aggregate = <<BatchMessage(n, b.root)>>
      /\ new.p2p_message = <<BatchMessage(n, b.root)>>
      /\ Fields(new)
  BY DEF NewStore, Fields
<1>2. IsFiniteSet({n}) /\ Cardinality({n}) = 1
  BY FS_Singleton, Zenon
<1>3. Range(<<n>>) = {n} /\ Len(<<n>>) = 1 /\ <<n>> \in Seq(Nodes)
  BY DEF Range
<1>4. Sums(<<BatchMessage(n, b.root)>>, <<n>>, b.root)
  BY DEF Sums
<1>5. OneBatch(n, new)
  <2> HIDE DEF new
  <2> QED BY <1>1, <1>2, <1>3, <1>4 DEF OneBatch
<1> QED BY <1>5

LEMMA SlotGood ==
    ASSUME NEW n \in Nodes, NEW s, OneBatch(n, s), NEW x
    PROVE  OneBatch(n, [s EXCEPT !.slot = x])
<1> DEFINE new == [s EXCEPT !.slot = x]
<1>1. /\ new.header = s.header /\ new.signers = s.signers /\ new.signatures = s.signatures
      /\ new.aggregate = s.aggregate /\ new.p2p_message = s.p2p_message
      /\ Fields(new)
  BY DEF OneBatch, Fields
<1>2. OneBatch(n, new)
  <2> HIDE DEF new
  <2> QED BY <1>1 DEF OneBatch
<1> QED BY <1>2

LEMMA WithSignatureGood ==
    ASSUME NEW n \in Nodes, NEW s, OneBatch(n, s), NEW m \in Messages,
           m.header = s.header, m.node \notin s.signatures
    PROVE  OneBatch(n, WithSignature(s, m))
<1> DEFINE new == WithSignature(s, m)
<1>1. /\ new.header = s.header /\ new.signers = Append(s.signers, m.node)
      /\ new.signatures = s.signatures \cup {m.node}
      /\ new.aggregate = Append(s.aggregate, m) /\ new.p2p_message = s.p2p_message
      /\ Fields(new)
  BY DEF OneBatch, Fields, WithSignature
<1>2. m.node \in Nodes /\ m = BatchMessage(m.node, s.header)
  BY DEF Messages, BatchMessage
<1>3. /\ IsFiniteSet(s.signatures \cup {m.node})
      /\ Cardinality(s.signatures \cup {m.node}) = Cardinality(s.signatures) + 1
  BY FS_AddElement, Zenon DEF OneBatch
<1>4. /\ Append(s.signers, m.node) \in Seq(Nodes)
      /\ Len(Append(s.signers, m.node)) = Len(s.signers) + 1
      /\ Range(Append(s.signers, m.node)) = s.signatures \cup {m.node}
  BY <1>2, AppendedSet DEF OneBatch
<1>5. Sums(Append(s.aggregate, m), Append(s.signers, m.node), s.header)
  <2> DEFINE f == [k \in DOMAIN s.signers |-> BatchMessage(s.signers[k], s.header)]
             q == Append(s.signers, m.node)
  <2>1. s.aggregate = f /\ s.signers \in Seq(Nodes) /\ Len(s.signers) \in Nat
    BY DEF OneBatch, Sums
  <2>2. f \in Seq(Messages) /\ Len(f) = Len(s.signers)
    <3>1. \A k \in 1..Len(s.signers) : BatchMessage(s.signers[k], s.header) \in Messages
      BY <2>1 DEF OneBatch, BatchMessage, Messages
    <3>2. DOMAIN s.signers = 1..Len(s.signers)
      BY <2>1
    <3> QED BY <2>1, <3>1, <3>2
  <2>3. Append(f, m) = [k \in 1..(Len(s.signers) + 1) |->
                           IF k = Len(s.signers) + 1 THEN m ELSE f[k]]
    BY <2>1, <2>2
  <2>4. DOMAIN q = 1..(Len(s.signers) + 1)
    BY <1>2, <2>1
  <2>5. \A k \in 1..(Len(s.signers) + 1) :
            BatchMessage(q[k], s.header) = IF k = Len(s.signers) + 1 THEN m ELSE f[k]
    BY <1>2, <2>1
  <2> HIDE DEF f, q
  <2>6. Append(f, m) = [k \in DOMAIN q |-> BatchMessage(q[k], s.header)]
    BY <2>3, <2>4, <2>5
  <2> QED BY <2>1, <2>6 DEF Sums, q
<1>6. OneBatch(n, new)
  <2> HIDE DEF new
  <2> QED BY <1>1, <1>2, <1>3, <1>4, <1>5 DEF OneBatch
<1> QED BY <1>6

\* The members of a committee are all different.
LEMMA CommitteeFinite ==
    ASSUME NEW c \in Injection(1..CommitteeSize, Nodes)
    PROVE  IsFiniteSet(Range(c)) /\ Cardinality(Range(c)) = CommitteeSize
<1>1. c \in Bijection(1..CommitteeSize, Range(c))
  BY DEF Injection, Bijection, Surjection, Range
<1>2. ExistsBijection(1..CommitteeSize, Range(c))
  BY <1>1, Zenon DEF ExistsBijection
<1>3. IsFiniteSet(1..CommitteeSize) /\ Cardinality(1..CommitteeSize) = CommitteeSize
  BY SigningAssumption, FS_Interval
<1> QED BY <1>2, <1>3, FS_Bijection

\* As many signers as a committee has members, all of them members, are all of it.
LEMMA AllMembers ==
    ASSUME NEW tx, Complete(tx), NEW c \in Injection(1..CommitteeSize, Nodes),
           Range(tx.signers) \subseteq Range(c)
    PROVE  Range(tx.signers) = Range(c)
  BY CommitteeFinite, FS_Subset DEF Complete

\* A store with as many signatures as a committee has members makes such a
\* transaction.
LEMMA FullStore ==
    ASSUME NEW n \in Nodes, NEW s, GoodStore(n, s), HasAllSignatures(s), NEW tx,
           tx.signers = s.signers
    PROVE  Complete(tx)
<1>1. s # DefaultStore
  <2>1. CommitteeSize # 0
    BY SigningAssumption
  <2>2. Cardinality({}) = 0
    BY FS_EmptySet
  <2>3. DefaultStore.signatures = {}
    BY DEF DefaultStore
  <2> QED BY <2>1, <2>2, <2>3, Zenon DEF HasAllSignatures
<1>2. OneBatch(n, s)
  BY <1>1 DEF GoodStore
<1> QED BY <1>2 DEF Complete, OneBatch, HasAllSignatures

-----------------------------------------------------------------------------
(* The jobs of the workers.                                                *)

BatchGood(batch) == batch = PromiseRejected \/ (batch = <<batch[1]>> /\ batch[1].root \in 0..MaxPending)
PromiseGood(p) == p.action = "post" => Complete(p.tx)
PromisesGood(ps) ==
    \/ ps = <<ps[1]>> /\ PromiseGood(ps[1])
    \/ ps = <<ps[1], ps[2]>> /\ PromiseGood(ps[1]) /\ PromiseGood(ps[2])

JobGood(n, j) ==
    /\ j.at \in {"random", "views", "step"} => BatchGood(j.batch)
    /\ j.at \in {"received", "compare"} => j.message \in Messages
    /\ j.at \in {"step", "compare"} => GoodStore(n, j.store)
    /\ j.at = "promises" => PromisesGood(j.promises)

\* What process_batch and process_slot_leader make of a good store.
LEMMA DefaultHeader == DefaultStore.header = -1
  BY DEF DefaultStore, NoHeader

LEMMA ProcessedGood ==
    ASSUME NEW n \in Nodes, NEW b, NEW s, GoodStore(n, s), b.root \in 0..MaxPending
    PROVE  GoodStore(n, Processed(n, b, s)) /\ GoodStore(n, LeaderStore(n, b, s))
<1>1. CASE b.root = s.header
  <2>1. OneBatch(n, s)
    BY <1>1, DefaultHeader, SigningAssumption DEF GoodStore
  <2> QED BY <1>1, <2>1, SlotGood DEF GoodStore, Processed, LeaderStore
<1>2. CASE b.root # s.header
  BY <1>2, NewStoreGood DEF GoodStore, Processed, LeaderStore
<1> QED BY <1>1, <1>2

LEMMA IdleGood ==
    ASSUME NEW n
    PROVE  JobGood(n, IdleJob)
  BY DEF JobGood, IdleJob

\* The promises of the batch task.
LEMMA BroadcastsOne ==
    ASSUME NEW n, NEW b, NEW s
    PROVE  \/ Broadcasts(n, b, s) = <<>>
           \/ \E p : Broadcasts(n, b, s) = <<p>> /\ PromiseGood(p)
<1> DEFINE p == [action |-> "broadcast", message |-> Processed(n, b, s).p2p_message[1]]
<1>1. p.action # "post"
  OBVIOUS
<1>2. Broadcasts(n, b, s) \in {<<>>, <<p>>}
  BY DEF Broadcasts
<1> HIDE DEF p
<1> QED BY <1>1, <1>2 DEF PromiseGood

LEMMA PostsOne ==
    ASSUME NEW n \in Nodes, NEW b, NEW s, GoodStore(n, s), NEW number
    PROVE  \/ Posts(n, b, s, number) = <<>>
           \/ \E p : Posts(n, b, s, number) = <<p>> /\ PromiseGood(p)
<1> DEFINE tx == [node |-> n, random |-> Head(number), signers |-> s.signers,
                  aggregate |-> s.aggregate]
           p == [action |-> "post", tx |-> tx]
<1>1. tx.signers = s.signers /\ p.tx = tx
  OBVIOUS
<1>2. Posts(n, b, s, number) = IF b.leader = <<n>> /\ HasAllSignatures(s) THEN <<p>> ELSE <<>>
  BY DEF Posts
<1> HIDE DEF p, tx
<1>3. HasAllSignatures(s) => Complete(tx)
  BY <1>1, FullStore
<1> QED BY <1>1, <1>2, <1>3 DEF PromiseGood

LEMMA EmptyAndOne ==
    ASSUME NEW p
    PROVE  <<p>> \o <<>> = <<p>> /\ <<>> \o <<p>> = <<p>>
<1>1. <<p>> \in Seq({p})
  OBVIOUS
<1> QED BY <1>1

LEMMA SameSequence ==
    ASSUME NEW S, NEW s \in Seq(S), NEW t \in Seq(S), Len(s) = Len(t),
           \A k \in 1..Len(s) : s[k] = t[k]
    PROVE  s = t
  OBVIOUS

LEMMA OneAndOne ==
    ASSUME NEW p, NEW q
    PROVE  <<p>> \o <<q>> = <<p, q>>
<1> DEFINE S == {p, q}
           both == <<p>> \o <<q>>
<1>1. <<p>> \in Seq(S) /\ <<q>> \in Seq(S) /\ <<p, q>> \in Seq(S)
  OBVIOUS
<1>2. Len(both) = 2 /\ both[1] = p /\ both[2] = q /\ both \in Seq(S)
  BY <1>1
<1>3. Len(<<p, q>>) = 2 /\ \A k \in 1..2 : both[k] = <<p, q>>[k]
  BY <1>2
<1> HIDE DEF S
<1> QED BY <1>1, <1>2, <1>3, SameSequence

LEMMA TailOfTwo ==
    ASSUME NEW p, NEW q
    PROVE  Tail(<<p>>) = <<>> /\ Tail(<<p, q>>) = <<q>> /\ Head(<<p>>) = p /\ Head(<<p, q>>) = p
<1> DEFINE S == {p, q}
<1>1. <<p>> \in Seq(S) /\ <<q>> \in Seq(S) /\ <<p, q>> \in Seq(S)
  OBVIOUS
<1>2. Tail(<<p, q>>) \in Seq(S) /\ Len(Tail(<<p, q>>)) = 1 /\ Tail(<<p, q>>)[1] = q
  BY <1>1
<1>3. Tail(<<p, q>>) = <<q>>
  BY <1>1, <1>2
<1>4. Tail(<<p>>) = <<>>
  BY <1>1
<1> QED BY <1>1, <1>3, <1>4

LEMMA PromisesOfTwo ==
    ASSUME NEW n, NEW ps, NEW qs,
           ps = <<>> \/ \E p : ps = <<p>> /\ PromiseGood(p),
           qs = <<>> \/ \E p : qs = <<p>> /\ PromiseGood(p)
    PROVE  JobGood(n, Promises(ps \o qs))
<1>1. ASSUME NEW all, PromisesGood(all)
      PROVE  JobGood(n, [at |-> "promises", promises |-> all])
  BY <1>1 DEF JobGood
<1>2. CASE ps = <<>> /\ qs = <<>>
  BY <1>2, IdleGood DEF Promises
<1>3. ASSUME NEW p, ps \o qs = <<p>>, PromiseGood(p) PROVE JobGood(n, Promises(ps \o qs))
  <2>1. PromisesGood(<<p>>) /\ <<p>> # <<>>
    BY <1>3 DEF PromisesGood
  <2> QED BY <1>1, <1>3, <2>1 DEF Promises
<1>4. ASSUME NEW p, NEW q, ps \o qs = <<p, q>>, PromiseGood(p), PromiseGood(q)
      PROVE  JobGood(n, Promises(ps \o qs))
  <2>1. PromisesGood(<<p, q>>) /\ <<p, q>> # <<>>
    BY <1>4 DEF PromisesGood
  <2> QED BY <1>1, <1>4, <2>1 DEF Promises
<1> QED BY <1>2, <1>3, <1>4, EmptyAndOne, OneAndOne, Zenon

\* The promises that are left after the first.
LEMMA PromisesLeft ==
    ASSUME NEW n, NEW ps, PromisesGood(ps)
    PROVE  PromiseGood(Head(ps)) /\ JobGood(n, Promises(Tail(ps)))
<1>1. CASE ps = <<ps[1]>> /\ PromiseGood(ps[1])
  <2>1. Head(ps) = ps[1] /\ Tail(ps) = <<>>
    BY <1>1, TailOfTwo, Zenon
  <2> QED BY <1>1, <2>1, IdleGood DEF Promises
<1>2. CASE ps = <<ps[1], ps[2]>> /\ PromiseGood(ps[1]) /\ PromiseGood(ps[2])
  <2> PICK q : q = ps[2]
    OBVIOUS
  <2>1. Head(ps) = ps[1] /\ Tail(ps) = <<q>>
    BY <1>2, TailOfTwo, Zenon
  <2>2. PromisesGood(<<q>>) /\ <<q>> # <<>>
    BY <1>2 DEF PromisesGood
  <2>3. JobGood(n, [at |-> "promises", promises |-> <<q>>])
    BY <2>2 DEF JobGood
  <2> QED BY <1>2, <2>1, <2>2, <2>3, Zenon DEF Promises
<1> QED BY <1>1, <1>2 DEF PromisesGood

-----------------------------------------------------------------------------
(* The invariant.                                                          *)

Events == {BatchTick} \cup {P2PEvent(m) : m \in Messages}

SigningInv ==
    /\ slot \in 0..(Slots - 1) /\ pending \in 0..MaxPending
    /\ store = [n \in Nodes |-> store[n]]
    /\ job = [n \in Nodes |-> [w \in Workers[n] |-> job[n][w]]]
    /\ events \in [Nodes -> Seq(Events)]
    /\ \A n \in Nodes : GoodStore(n, store[n])
    /\ \A n \in Nodes : \A w \in Workers[n] : JobGood(n, job[n][w])
    /\ \A tx \in mempool : Complete(tx)

LEMMA SigningInvInit == Init => SigningInv
<1> SUFFICES ASSUME Init PROVE SigningInv
  OBVIOUS
<1>1. slot \in 0..(Slots - 1) /\ pending \in 0..MaxPending
  BY SigningAssumption DEF Init
<1>2. store = [n \in Nodes |-> store[n]] /\ \A n \in Nodes : GoodStore(n, store[n])
  BY DEF Init, GoodStore
<1>3. /\ job = [n \in Nodes |-> [w \in Workers[n] |-> job[n][w]]]
      /\ \A n \in Nodes : \A w \in Workers[n] : JobGood(n, job[n][w])
  BY IdleGood DEF Init
<1>4. events \in [Nodes -> Seq(Events)] /\ \A tx \in mempool : Complete(tx)
  BY DEF Init
<1> QED BY <1>1, <1>2, <1>3, <1>4 DEF SigningInv

\* Worker w of node n goes on to job j.
LEMMA JobChanged ==
    ASSUME SigningInv, NEW n \in Nodes, NEW w \in Workers[n], NEW j, JobGood(n, j),
           job' = [job EXCEPT ![n][w] = j]
    PROVE  /\ job' = [m \in Nodes |-> [v \in Workers[m] |-> job'[m][v]]]
           /\ \A m \in Nodes : \A v \in Workers[m] : JobGood(m, job'[m][v])
<1>1. DOMAIN job = Nodes /\ \A m \in Nodes : DOMAIN job[m] = Workers[m]
  BY DEF SigningInv
<1>2. \A m \in Nodes : \A v \in Workers[m] : job'[m][v] = IF m = n /\ v = w THEN j ELSE job[m][v]
  BY <1>1
<1>3. job' = [m \in Nodes |-> [v \in Workers[m] |-> job'[m][v]]]
  <2>1. \A m \in Nodes : job[m] = [v \in Workers[m] |-> job[m][v]]
    BY DEF SigningInv
  <2>2. job' = [m \in Nodes |-> job'[m]]
    BY <1>1
  <2>3. job'[n] = [job[n] EXCEPT ![w] = j] /\ \A m \in Nodes \ {n} : job'[m] = job[m]
    BY <1>1
  <2>4. job'[n] = [v \in Workers[n] |-> job'[n][v]]
    BY <1>1, <2>1, <2>3
  <2>5. \A m \in Nodes : job'[m] = [v \in Workers[m] |-> job'[m][v]]
    BY <2>1, <2>3, <2>4
  <2> QED BY <2>2, <2>5, Zenon
<1> QED BY <1>2, <1>3 DEF SigningInv

\* Node n has store s.
LEMMA StoreChanged ==
    ASSUME SigningInv, NEW n \in Nodes, NEW s, GoodStore(n, s),
           store' = [store EXCEPT ![n] = s]
    PROVE  store' = [m \in Nodes |-> store'[m]] /\ \A m \in Nodes : GoodStore(m, store'[m])
<1>1. DOMAIN store = Nodes
  BY DEF SigningInv
<1>2. \A m \in Nodes : store'[m] = IF m = n THEN s ELSE store[m]
  BY <1>1
<1>3. store' = [m \in Nodes |-> store'[m]]
  BY <1>1, Zenon
<1> QED BY <1>2, <1>3 DEF SigningInv

\* A step that changes only the job of worker w of node n.
LEMMA JobStep ==
    ASSUME SigningInv, NEW n \in Nodes, NEW w \in Workers[n], NEW j, JobGood(n, j),
           job' = [job EXCEPT ![n][w] = j], UNCHANGED <<slot, pending, store, events, mempool>>
    PROVE  SigningInv'
  BY JobChanged, Zenon DEF SigningInv

-----------------------------------------------------------------------------
(* One lemma per action, or group of actions.                              *)

\* The chain, the network and the ticker leave stores and jobs alone.
LEMMA OutsideKeeps ==
    ASSUME SigningInv,
           \/ post_data_request \/ NextSlot \/ \E tx \in mempool : post_signed_batch(tx)
           \/ \E n \in Nodes, m \in Messages : Lose(n, m)
    PROVE  SigningInv'
<1>1. UNCHANGED <<store, job, events>> /\ mempool' \subseteq mempool
  BY DEF post_data_request, NextSlot, post_signed_batch, Lose
<1>2. slot' \in 0..(Slots - 1) /\ pending' \in 0..MaxPending
  <2>1. /\ slot \in 0..(Slots - 1) /\ Slots \in Nat
        /\ pending \in 0..MaxPending /\ MaxPending \in Nat
    BY SigningAssumption DEF SigningInv
  <2> QED BY <2>1 DEF post_data_request, NextSlot, post_signed_batch, Lose, chain
<1> QED BY <1>1, <1>2 DEF SigningInv

LEMMA EventAdded ==
    ASSUME SigningInv, NEW n \in Nodes, NEW e \in Events,
           events' \in {events, [events EXCEPT ![n] = Append(@, e)]},
           UNCHANGED <<slot, pending, store, job, mempool>>
    PROVE  SigningInv'
<1>1. events' \in [Nodes -> Seq(Events)]
  <2>1. events \in [Nodes -> Seq(Events)]
    BY DEF SigningInv
  <2>2. events[n] \in Seq(Events)
    BY <2>1
  <2> DEFINE new == Append(events[n], e)
  <2>3. new \in Seq(Events)
    BY <2>2
  <2>4. events' = events \/ events' = [events EXCEPT ![n] = new]
    OBVIOUS
  <2> HIDE DEF new
  <2> QED BY <2>1, <2>3, <2>4
<1> QED BY <1>1 DEF SigningInv

LEMMA ArrivalsKeep ==
    ASSUME SigningInv, NEW n \in Nodes,
           BatchTickManager(n) \/ \E m \in Messages : P2PMessageHandler(n, m)
    PROVE  SigningInv'
<1>1. CASE BatchTickManager(n)
  BY <1>1, EventAdded, Zenon DEF BatchTickManager, chain, Events
<1>2. ASSUME NEW m \in Messages, P2PMessageHandler(n, m) PROVE SigningInv'
  <2>1. P2PEvent(m) \in Events
    BY DEF Events
  <2> QED BY <1>2, <2>1, EventAdded, Zenon DEF P2PMessageHandler, chain
<1> QED BY <1>1, <1>2

LEMMA RestartKeeps ==
    ASSUME SigningInv, NEW n \in Nodes, Restart(n)
    PROVE  SigningInv'
<1>1. store' = [m \in Nodes |-> store'[m]] /\ \A m \in Nodes : GoodStore(m, store'[m])
  BY StoreChanged, Zenon DEF Restart, GoodStore
<1>2. DOMAIN job = Nodes /\ \A m \in Nodes : DOMAIN job[m] = Workers[m]
  BY DEF SigningInv
<1>3. /\ job' = [m \in Nodes |-> [v \in Workers[m] |-> job'[m][v]]]
      /\ \A m \in Nodes : \A v \in Workers[m] : JobGood(m, job'[m][v])
  <2>1. \A m \in Nodes : \A v \in Workers[m] : job'[m][v] = IF m = n THEN IdleJob ELSE job[m][v]
    BY <1>2 DEF Restart
  <2>2. job' = [m \in Nodes |-> [v \in Workers[m] |-> job'[m][v]]]
    BY <1>2, Zenon DEF Restart, SigningInv
  <2> QED BY <2>1, <2>2, IdleGood DEF SigningInv
<1>4. events' \in [Nodes -> Seq(Events)]
  BY DEF Restart, SigningInv
<1> QED BY <1>1, <1>3, <1>4 DEF Restart, chain, SigningInv

LEMMA StartKeeps ==
    ASSUME SigningInv, NEW n \in Nodes, NEW w \in Workers[n], StartJob(n, w)
    PROVE  SigningInv'
<1>1. Head(events[n]) \in Events /\ events' \in [Nodes -> Seq(Events)]
  BY DEF StartJob, SigningInv
<1> DEFINE e == Head(events[n])
           j == IF e = BatchTick THEN [at |-> "root"] ELSE [at |-> "received", message |-> e.message]
<1>2. JobGood(n, j)
  <2>1. CASE e = BatchTick
    BY <2>1 DEF JobGood
  <2>2. CASE e # BatchTick
    <3>1. PICK m \in Messages : e = P2PEvent(m)
      BY <1>1, <2>2 DEF Events
    <3>2. e.message \in Messages
      BY <3>1 DEF P2PEvent
    <3> HIDE DEF e
    <3> QED BY <2>2, <3>2 DEF JobGood
  <2> QED BY <2>1, <2>2
<1>3. job' = [job EXCEPT ![n][w] = j]
  BY DEF StartJob
<1> HIDE DEF j
<1> QED BY <1>1, <1>2, <1>3, JobChanged, Zenon DEF StartJob, SigningInv, chain

LEMMA ViewsKeep ==
    ASSUME SigningInv, NEW n \in Nodes, NEW w \in Workers[n], ViewRoot(n, w) \/ ViewRandom(n, w)
    PROVE  SigningInv'
<1>1. CASE ViewRoot(n, w)
  <2> DEFINE b == [root |-> pending, slot |-> slot, leader |-> get_current_slot_leader]
  <2>1. PICK result \in {<<b>>, <<>>} : job' = [job EXCEPT ![n][w] = [at |-> "random", batch |-> result]]
    BY <1>1, Zenon DEF ViewRoot, Fulfilled, PromiseRejected
  <2>2. BatchGood(result)
    BY DEF BatchGood, PromiseRejected, SigningInv
  <2>3. JobGood(n, [at |-> "random", batch |-> result])
    BY <2>2 DEF JobGood
  <2> QED BY <1>1, <2>1, <2>3, JobStep, Zenon DEF ViewRoot, chain
<1>2. CASE ViewRandom(n, w)
  <2>1. PICK result :
            job' = [job EXCEPT ![n][w] = [at |-> "views", batch |-> job[n][w].batch, random |-> result]]
    BY <1>2, Zenon DEF ViewRandom
  <2>2. BatchGood(job[n][w].batch)
    BY <1>2 DEF ViewRandom, SigningInv, JobGood
  <2>3. JobGood(n, [at |-> "views", batch |-> job[n][w].batch, random |-> result])
    BY <2>2 DEF JobGood
  <2> QED BY <1>2, <2>1, <2>3, JobStep, Zenon DEF ViewRandom, chain
<1> QED BY <1>1, <1>2

LEMMA ReadKeeps ==
    ASSUME SigningInv, NEW n \in Nodes, NEW w \in Workers[n],
           get_or_create_batch_signature_store(n, w)
    PROVE  SigningInv'
<1> DEFINE j == job[n][w]
<1>1. GoodStore(n, store[n]) /\ JobGood(n, j)
  BY DEF SigningInv
<1>2. CASE /\ j.at = "views"
           /\ job' = [job EXCEPT ![n][w] = [at |-> "step", batch |-> j.batch,
                                            random |-> j.random, store |-> store[n]]]
  <2>1. JobGood(n, [at |-> "step", batch |-> j.batch, random |-> j.random, store |-> store[n]])
    BY <1>1, <1>2 DEF JobGood
  <2> QED BY <1>2, <2>1, JobStep, Zenon DEF get_or_create_batch_signature_store, chain
<1>3. CASE /\ j.at = "received"
           /\ job' = [job EXCEPT ![n][w] = [at |-> "compare", message |-> j.message,
                                            store |-> store[n]]]
  <2>1. JobGood(n, [at |-> "compare", message |-> j.message, store |-> store[n]])
    BY <1>1, <1>3 DEF JobGood
  <2> QED BY <1>3, <2>1, JobStep, Zenon DEF get_or_create_batch_signature_store, chain
<1> QED BY <1>2, <1>3 DEF get_or_create_batch_signature_store

LEMMA EndKeeps ==
    ASSUME SigningInv, NEW n \in Nodes, NEW w \in Workers[n],
           send_tx(n, w) \/ shared_memory_read_fails(n, w)
    PROVE  SigningInv'
<1>1. job' = [job EXCEPT ![n][w] = IdleJob] /\ UNCHANGED <<slot, pending, store, events, mempool>>
  BY DEF send_tx, shared_memory_read_fails, chain
<1> QED BY <1>1, IdleGood, JobStep, Zenon

LEMMA PromisesKeep ==
    ASSUME SigningInv, NEW n \in Nodes, NEW w \in Workers[n],
           p2p_broadcast(n, w) \/ chain_call(n, w)
    PROVE  SigningInv'
<1> DEFINE ps == job[n][w].promises
<1>1. job[n][w].at = "promises"
  BY Zenon DEF p2p_broadcast, chain_call
<1>2. PromiseGood(Head(ps)) /\ JobGood(n, Promises(Tail(ps)))
  BY <1>1, PromisesLeft, Zenon DEF SigningInv, JobGood
<1>3. CASE p2p_broadcast(n, w)
  <2>1. job' = [job EXCEPT ![n][w] = Promises(Tail(ps))] /\ UNCHANGED <<slot, pending, store, events, mempool>>
    BY <1>3 DEF p2p_broadcast, chain
  <2> QED BY <1>2, <2>1, JobStep, Zenon
<1>4. CASE chain_call(n, w)
  <2>1. JobGood(n, [at |-> "sent"])
    BY DEF JobGood
  <2>2. Complete(Head(ps).tx)
    BY <1>2, <1>4 DEF chain_call, PromiseGood
  <2>3. /\ job' = [job EXCEPT ![n][w] = [at |-> "sent"]]
        /\ mempool' = mempool \cup {Head(ps).tx}
        /\ UNCHANGED <<slot, pending, store, events>>
    BY <1>4 DEF chain_call, chain
  <2> QED BY <2>1, <2>2, <2>3, JobChanged, Zenon DEF SigningInv
<1> QED BY <1>3, <1>4

LEMMA BatchStepKeeps ==
    ASSUME SigningInv, NEW n \in Nodes, NEW w \in Workers[n], batch_step_1(n, w)
    PROVE  SigningInv'
<1> DEFINE j == job[n][w]
           b == Head(j.batch)
           s == j.store
           ends == j.batch = PromiseRejected \/ (b.leader = <<n>> /\ j.random = PromiseRejected)
           all == Broadcasts(n, b, s) \o Posts(n, b, LeaderStore(n, b, s), j.random)
           next == IF ends THEN IdleJob ELSE Promises(all)
<1>1. JobGood(n, j) /\ j.at = "step"
  BY DEF batch_step_1, SigningInv
<1>2. GoodStore(n, s) /\ BatchGood(j.batch)
  BY <1>1 DEF JobGood
<1>3. j.batch # PromiseRejected => b.root \in 0..MaxPending
  BY <1>2, TailOfTwo DEF BatchGood
<1>4. j.batch # PromiseRejected =>
          GoodStore(n, Processed(n, b, s)) /\ GoodStore(n, LeaderStore(n, b, s))
  <2> HIDE DEF b, s
  <2> QED BY <1>2, <1>3, ProcessedGood
<1>5. JobGood(n, next)
  <2>1. CASE ends
    <3> HIDE DEF ends
    <3> QED BY <2>1, IdleGood
  <2>2. CASE ~ends
    <3>1. GoodStore(n, LeaderStore(n, b, s))
      BY <2>2, <1>4
    <3> HIDE DEF b, s
    <3>2. JobGood(n, Promises(all))
      BY <3>1, BroadcastsOne, PostsOne, PromisesOfTwo
    <3> HIDE DEF ends, all
    <3> QED BY <2>2, <3>2
  <2> QED BY <2>1, <2>2
<1>6. /\ store' = [m \in Nodes |-> store'[m]]
      /\ \A m \in Nodes : GoodStore(m, store'[m])
  <2>1. \/ store' = store
        \/ j.batch # PromiseRejected /\ store' = [store EXCEPT ![n] = Processed(n, b, s)]
    BY DEF batch_step_1
  <2> HIDE DEF j, b, s
  <2> QED BY <2>1, <1>4, StoreChanged DEF SigningInv
<1>7. job' = [job EXCEPT ![n][w] = next] /\ UNCHANGED <<slot, pending, events, mempool>>
  BY DEF batch_step_1, chain
<1> HIDE DEF next
<1> QED BY <1>5, <1>6, <1>7, JobChanged, Zenon DEF SigningInv

LEMMA P2PKeeps ==
    ASSUME SigningInv, NEW n \in Nodes, NEW w \in Workers[n], P2PHandle(n, w)
    PROVE  SigningInv'
<1> DEFINE m == job[n][w].message
           s == job[n][w].store
<1>1. GoodStore(n, s) /\ m \in Messages
  BY DEF P2PHandle, SigningInv, JobGood
<1>2. (~Unknown(m, s) /\ ~Duplicated(m, s)) => GoodStore(n, WithSignature(s, m))
  <2> HIDE DEF m, s
  <2>1. m.header \in 0..MaxPending
    BY <1>1 DEF Messages
  <2>2. ~Unknown(m, s) => OneBatch(n, s)
    BY <1>1, <2>1, DefaultHeader DEF GoodStore, Unknown
  <2> QED BY <1>1, <2>2, WithSignatureGood DEF GoodStore, Unknown, Duplicated
<1>3. /\ store' = [k \in Nodes |-> store'[k]]
      /\ \A k \in Nodes : GoodStore(k, store'[k])
  <2>1. \/ store' = store
        \/ ~Unknown(m, s) /\ ~Duplicated(m, s) /\ store' = [store EXCEPT ![n] = WithSignature(s, m)]
    BY DEF P2PHandle
  <2> HIDE DEF m, s
  <2> QED BY <2>1, <1>2, StoreChanged DEF SigningInv
<1>4. job' = [job EXCEPT ![n][w] = IdleJob] /\ UNCHANGED <<slot, pending, events, mempool>>
  BY DEF P2PHandle, chain
<1> QED BY <1>3, <1>4, IdleGood, JobChanged, Zenon DEF SigningInv

LEMMA SigningInvStep == SigningInv /\ [Next]_vars => SigningInv'
<1> SUFFICES ASSUME SigningInv, [Next]_vars PROVE SigningInv'
  OBVIOUS
<1>1. ASSUME NEW n \in Nodes, NEW w \in Workers[n], StartJob(n, w) \/ Task(n, w)
      PROVE  SigningInv'
  BY <1>1, StartKeeps, ViewsKeep, ReadKeeps, BatchStepKeeps, PromisesKeep, EndKeeps, P2PKeeps
     DEF Task
<1>2. CASE UNCHANGED vars
  BY <1>2 DEF vars, chain, SigningInv
<1> QED BY <1>1, <1>2, OutsideKeeps, ArrivalsKeep, RestartKeeps DEF Next

LEMMA SigningInvariant == Spec => []SigningInv
  BY SigningInvInit, SigningInvStep, PTL DEF Spec

\* The signature store of a node is that of one batch, for any committees and
\* however many workers read and write it between each other's steps
\* (batch.rs:166-205, p2p.rs:69-97).
THEOREM StoreStaysConsistent == Spec => []StoreConsistent
<1>1. SigningInv => StoreConsistent
  BY DEF SigningInv, GoodStore, OneBatch, Sums, StoreConsistent
<1> QED BY <1>1, SigningInvariant, PTL

\* A batch that the contract seals is signed by every member of the committee of
\* its slot, for any nodes inside and outside it, though the leader only counts
\* signatures and the contract only asks that the signers are members
\* (batch.rs:236-238, contracts/src/batch.rs:84-105).
THEOREM SealedStaysWhole == Spec => []SealedByWholeCommittee
<1>1. SigningInv => SealedByWholeCommittee
  <2> SUFFICES ASSUME SigningInv, NEW tx \in mempool, Accepted(tx)
               PROVE  Range(tx.signers) = Range(Committees[slot])
    BY DEF SealedByWholeCommittee
  <2>1. Complete(tx) /\ Range(tx.signers) \subseteq Range(Committees[slot])
    BY DEF SigningInv, Accepted
  <2>2. Committees[slot] # <<>>
    BY DEF Accepted, get_current_slot_leader
  <2>3. Committees[slot] \in Injection(1..CommitteeSize, Nodes)
    BY <2>2, SigningAssumption DEF SigningInv
  <2> QED BY <2>1, <2>3, AllMembers
<1> QED BY <1>1, SigningInvariant, PTL

-----------------------------------------------------------------------------
(* A node with one worker: nobody writes the store between the read and    *)
(* the write of a task, and no signature is lost.                          *)

OneWorker == \A n \in Nodes : \E w : Workers[n] = {w}

\* The store that a task has read is the one in the shared memory.
HasRead(j) == j.at \in {"step", "compare"}
ReadIsCurrent ==
    \A n \in Nodes : \A w \in Workers[n] : HasRead(job[n][w]) => job[n][w].store = store[n]

\* No step of one node changes the store of another.
OthersKept(n) == \A m \in Nodes \ {n} : store'[m] = store[m]

\* The store of one node goes on to s.
LEMMA OtherStoresKept ==
    ASSUME SigningInv, NEW n \in Nodes, NEW s,
           store' = store \/ store' = [store EXCEPT ![n] = s]
    PROVE  OthersKept(n) /\ (store' # store => store'[n] = s)
<1>1. store = [k \in Nodes |-> store[k]]
  BY DEF SigningInv
<1> QED BY <1>1 DEF OthersKept

\* The only worker of node n goes on to job j.
LEMMA ReadKept ==
    ASSUME SigningInv, ReadIsCurrent, OneWorker, NEW n \in Nodes, NEW w \in Workers[n], NEW j,
           job' = [job EXCEPT ![n][w] = j], OthersKept(n), HasRead(j) => j.store = store'[n]
    PROVE  ReadIsCurrent'
<1>1. job = [k \in Nodes |-> [v \in Workers[k] |-> job[k][v]]]
  BY DEF SigningInv
<1>2. Workers[n] = {w}
  BY DEF OneWorker
<1>3. job'[n][w] = j /\ \A m \in Nodes \ {n} : job'[m] = job[m]
  BY <1>1
<1>4. ASSUME NEW m \in Nodes, NEW v \in Workers[m], HasRead(job'[m][v])
      PROVE  job'[m][v].store = store'[m]
  <2>1. CASE m = n
    BY <1>2, <1>3, <1>4, <2>1
  <2>2. CASE m # n
    BY <1>3, <1>4, <2>2 DEF ReadIsCurrent, OthersKept
  <2> QED BY <2>1, <2>2
<1> QED BY <1>4 DEF ReadIsCurrent, HasRead

LEMMA PromisesRead ==
    ASSUME NEW ps
    PROVE  ~HasRead(Promises(ps)) /\ ~HasRead(IdleJob)
  BY DEF Promises, IdleJob, HasRead

\* The steps of a worker that only change its job.
LEMMA ReadsStep ==
    ASSUME SigningInv, ReadIsCurrent, OneWorker, NEW n \in Nodes, NEW w \in Workers[n],
           StartJob(n, w) \/ Task(n, w), ~batch_step_1(n, w), ~P2PHandle(n, w)
    PROVE  ReadIsCurrent' /\ store' = store
<1>1. \E j : /\ job' = [job EXCEPT ![n][w] = j]
             /\ HasRead(j) => j.store = store[n]
             /\ store' = store
  <2>1. CASE StartJob(n, w)
    <3> DEFINE event == Head(events[n])
               j == IF event = BatchTick THEN [at |-> "root"]
                    ELSE [at |-> "received", message |-> event.message]
    <3>1. job' = [job EXCEPT ![n][w] = j] /\ store' = store
      BY <2>1 DEF StartJob
    <3>2. ~HasRead(j)
      BY DEF HasRead
    <3> HIDE DEF j
    <3> QED BY <3>1, <3>2, Zenon
  <2>2. CASE ViewRoot(n, w)
    <3>1. PICK result : job' = [job EXCEPT ![n][w] = [at |-> "random", batch |-> result]]
                        /\ store' = store
      BY <2>2, Zenon DEF ViewRoot
    <3>2. ~HasRead([at |-> "random", batch |-> result])
      BY DEF HasRead
    <3> QED BY <3>1, <3>2, Zenon
  <2>3. CASE ViewRandom(n, w)
    <3>1. PICK result :
              /\ job' = [job EXCEPT ![n][w] = [at |-> "views", batch |-> @.batch, random |-> result]]
              /\ store' = store
      BY <2>3, Zenon DEF ViewRandom
    <3> DEFINE j == [at |-> "views", batch |-> job[n][w].batch, random |-> result]
    <3>2. ~HasRead(j)
      BY DEF HasRead
    <3>3. job' = [job EXCEPT ![n][w] = j]
      BY <3>1
    <3> HIDE DEF j
    <3> QED BY <3>1, <3>2, <3>3, Zenon
  <2>4. CASE get_or_create_batch_signature_store(n, w)
    <3> DEFINE step == [at |-> "step", batch |-> job[n][w].batch,
                        random |-> job[n][w].random, store |-> store[n]]
               compare == [at |-> "compare", message |-> job[n][w].message, store |-> store[n]]
    <3>1. /\ store' = store
          /\ job' = [job EXCEPT ![n][w] = step] \/ job' = [job EXCEPT ![n][w] = compare]
      BY <2>4 DEF get_or_create_batch_signature_store
    <3>2. step.store = store[n] /\ compare.store = store[n]
      OBVIOUS
    <3> HIDE DEF step, compare
    <3> QED BY <3>1, <3>2
  <2>5. CASE p2p_broadcast(n, w)
    <3>1. job' = [job EXCEPT ![n][w] = Promises(Tail(job[n][w].promises))] /\ store' = store
      BY <2>5 DEF p2p_broadcast
    <3> QED BY <3>1, PromisesRead, Zenon
  <2>6. CASE chain_call(n, w)
    <3> DEFINE j == [at |-> "sent"]
    <3>1. job' = [job EXCEPT ![n][w] = j] /\ store' = store
      BY <2>6 DEF chain_call
    <3>2. ~HasRead(j)
      BY DEF HasRead
    <3> HIDE DEF j
    <3> QED BY <3>1, <3>2, Zenon
  <2>7. CASE send_tx(n, w) \/ shared_memory_read_fails(n, w)
    <3>1. job' = [job EXCEPT ![n][w] = IdleJob] /\ store' = store
      BY <2>7 DEF send_tx, shared_memory_read_fails
    <3> QED BY <3>1, PromisesRead, Zenon
  <2> QED BY <2>1, <2>2, <2>3, <2>4, <2>5, <2>6, <2>7 DEF Task
<1>2. OthersKept(n)
  BY <1>1 DEF OthersKept
<1> QED BY <1>1, <1>2, ReadKept, Zenon


\* What a step keeps of the signatures of node n.
Keeps(n) == store'[n].header = store[n].header => store[n].signatures \subseteq store'[n].signatures

LEMMA UnchangedKeeps ==
    ASSUME NEW n \in Nodes, OthersKept(n), Keeps(n)
    PROVE  \A m \in Nodes : Keeps(m)
  BY DEF OthersKept, Keeps

LEMMA ProcessedKeeps ==
    ASSUME NEW n, NEW b, NEW s, GoodStore(n, s), Processed(n, b, s).header = s.header
    PROVE  s.signatures \subseteq Processed(n, b, s).signatures
<1>1. CASE b.root = s.header
  <2>1. s = DefaultStore \/ Fields(s)
    BY DEF GoodStore, OneBatch
  <2>2. [s EXCEPT !.slot = b.slot].signatures = s.signatures
    BY <2>1 DEF DefaultStore, Fields
  <2> QED BY <1>1, <2>2 DEF Processed
<1>2. CASE b.root # s.header
  BY <1>2 DEF Processed, NewStore
<1> QED BY <1>1, <1>2

LEMMA BatchStepSigns ==
    ASSUME SigningInv, ReadIsCurrent, OneWorker, NEW n \in Nodes, NEW w \in Workers[n], batch_step_1(n, w)
    PROVE  ReadIsCurrent' /\ \A m \in Nodes : Keeps(m)
<1> DEFINE j == job[n][w]
           b == Head(j.batch)
           s == j.store
           next == IF j.batch = PromiseRejected \/ (b.leader = <<n>> /\ j.random = PromiseRejected)
                   THEN IdleJob
                   ELSE Promises(Broadcasts(n, b, s) \o Posts(n, b, LeaderStore(n, b, s), j.random))
<1>1. s = store[n] /\ GoodStore(n, s)
  BY DEF batch_step_1, ReadIsCurrent, HasRead, SigningInv
<1>2. /\ job' = [job EXCEPT ![n][w] = next]
      /\ store' = store \/ store' = [store EXCEPT ![n] = Processed(n, b, s)]
  BY DEF batch_step_1
<1>3. ~HasRead(next)
  BY PromisesRead
<1> HIDE DEF j, b, s, next
<1>4. OthersKept(n) /\ (store' # store => store'[n] = Processed(n, b, s))
  BY <1>2, OtherStoresKept
<1>5. ReadIsCurrent'
  BY <1>2, <1>3, <1>4, ReadKept, Zenon
<1>6. Keeps(n)
  <2>1. CASE store' = store
    BY <2>1 DEF Keeps
  <2>2. CASE store' # store
    BY <1>1, <1>4, <2>2, ProcessedKeeps DEF Keeps
  <2> QED BY <2>1, <2>2
<1> QED BY <1>4, <1>5, <1>6, UnchangedKeeps

LEMMA P2PSigns ==
    ASSUME SigningInv, ReadIsCurrent, OneWorker, NEW n \in Nodes, NEW w \in Workers[n], P2PHandle(n, w)
    PROVE  ReadIsCurrent' /\ \A m \in Nodes : Keeps(m)
<1> DEFINE m == job[n][w].message
           s == job[n][w].store
<1>1. s = store[n]
  BY DEF P2PHandle, ReadIsCurrent, HasRead
<1>2. /\ job' = [job EXCEPT ![n][w] = IdleJob]
      /\ store' = store \/ store' = [store EXCEPT ![n] = WithSignature(s, m)]
  BY DEF P2PHandle
<1> HIDE DEF m, s
<1>3. OthersKept(n) /\ (store' # store => store'[n] = WithSignature(s, m))
  BY <1>2, OtherStoresKept
<1>4. ReadIsCurrent'
  BY <1>2, <1>3, PromisesRead, ReadKept, Zenon
<1>5. Keeps(n)
  <2>1. CASE store' = store
    BY <2>1 DEF Keeps
  <2>2. CASE store' # store
    BY <1>1, <1>3, <2>2, SMTT(20) DEF Keeps, WithSignature
  <2> QED BY <2>1, <2>2
<1> QED BY <1>3, <1>4, <1>5, UnchangedKeeps

\* A node that starts again has the store of no header.
LEMMA RestartSigns ==
    ASSUME SigningInv, ReadIsCurrent, NEW n \in Nodes, Restart(n)
    PROVE  ReadIsCurrent' /\ \A m \in Nodes : Keeps(m)
<1>1. store' = [store EXCEPT ![n] = DefaultStore] /\ store = [k \in Nodes |-> store[k]]
  BY DEF Restart, SigningInv
<1>2. OthersKept(n) /\ store'[n] = DefaultStore
  BY <1>1 DEF OthersKept
<1>3. Keeps(n)
  <2>1. OneBatch(n, store[n]) => store[n].header # DefaultStore.header
    BY DefaultHeader, SigningAssumption DEF OneBatch
  <2> QED BY <1>2, <2>1 DEF SigningInv, GoodStore, Keeps
<1>4. ReadIsCurrent'
  <2>1. /\ job' = [job EXCEPT ![n] = [w \in Workers[n] |-> IdleJob]]
        /\ job = [k \in Nodes |-> [v \in Workers[k] |-> job[k][v]]]
    BY DEF Restart, SigningInv
  <2>2. /\ \A w \in Workers[n] : job'[n][w] = IdleJob
        /\ \A m \in Nodes \ {n} : job'[m] = job[m]
    BY <2>1
  <2>3. ~HasRead(IdleJob)
    BY PromisesRead
  <2> QED BY <1>2, <2>2, <2>3 DEF ReadIsCurrent, OthersKept, HasRead
<1> QED BY <1>2, <1>3, <1>4, UnchangedKeeps

LEMMA SignsStep ==
    ASSUME SigningInv, ReadIsCurrent, OneWorker, [Next]_vars
    PROVE  ReadIsCurrent' /\ \A m \in Nodes : Keeps(m)
<1>1. ASSUME store' = store PROVE \A m \in Nodes : Keeps(m)
  BY <1>1 DEF Keeps
<1>2. ASSUME NEW n \in Nodes, NEW w \in Workers[n], StartJob(n, w) \/ Task(n, w)
      PROVE  ReadIsCurrent' /\ \A m \in Nodes : Keeps(m)
  BY <1>1, <1>2, ReadsStep, BatchStepSigns, P2PSigns
<1>3. ASSUME UNCHANGED <<store, job>>
      PROVE  ReadIsCurrent' /\ \A m \in Nodes : Keeps(m)
  BY <1>1, <1>3 DEF ReadIsCurrent, HasRead
<1>4. CASE NextSlot \/ (\E tx \in mempool : post_signed_batch(tx)) \/ post_data_request
  BY <1>3, <1>4 DEF NextSlot, post_signed_batch, post_data_request
<1>5. CASE \E n \in Nodes : BatchTickManager(n) \/ \E m \in Messages : P2PMessageHandler(n, m) \/ Lose(n, m)
  BY <1>3, <1>5 DEF BatchTickManager, P2PMessageHandler, Lose
<1>6. CASE UNCHANGED vars
  BY <1>3, <1>6 DEF vars
<1> QED BY <1>2, <1>4, <1>5, <1>6, RestartSigns DEF Next

\* Nodes with one worker each keep every signature that they have put in their
\* store while they work on the same header, whatever is lost, rejected or restarted:
\* with one worker nobody writes between the read and the write of a task, which
\* is what loses a signature with more (p2p.rs:69-97, batch.rs:166-205).
THEOREM SignaturesStayKept ==
    ASSUME OneWorker
    PROVE  Spec => SignaturesKept
<1>1. Init => ReadIsCurrent
  BY PromisesRead DEF Init, ReadIsCurrent
<1>2. SigningInv /\ ReadIsCurrent /\ [Next]_vars => ReadIsCurrent'
  BY SignsStep
<1>3. SigningInv /\ ReadIsCurrent /\ [Next]_vars
          => [\A n \in Nodes : store'[n].header = store[n].header
                  => store[n].signatures \subseteq store'[n].signatures]_store
  BY SignsStep DEF Keeps
<1> QED BY <1>1, <1>2, <1>3, SigningInvariant, PTL DEF Spec, SignaturesKept
=============================================================================
