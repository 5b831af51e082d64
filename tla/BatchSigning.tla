---------------------------- MODULE BatchSigning ----------------------------
(***************************************************************************)
(* How nodes agree on a batch (wasm/consensus/src): on every tick a node   *)
(* asks the main chain for the merkle root of the waiting data requests,   *)
(* signs it and broadcasts the signature; it adds the signatures of the    *)
(* others to the store in its shared memory; the slot leader posts the     *)
(* batch when its store holds as many signatures as a committee has        *)
(* members.  Nodes outside the committee sign, broadcast and are counted   *)
(* like its members: only the contract looks who has signed.               *)
(*                                                                         *)
(* A node runs its tasks on several workers (JobManager), which share the  *)
(* store: a task reads it and writes it back in separate steps.  The chain *)
(* moves on between the views of a task and the transaction it sends.      *)
(*                                                                         *)
(* All data requests are alike, so the root is the number of waiting ones. *)
(* A signature is identified by its node and the header it signs; the keys *)
(* of a node and its account are one value.  All nodes follow the code,    *)
(* and stay active in the registry of the contract.                        *)
(***************************************************************************)
EXTENDS Integers, FiniteSets, Sequences, Functions

CONSTANTS
    Nodes,
    Workers,        \* the runtime workers of every node
    CommitteeSize,  \* config.committee_size
    Committees,     \* the committee of the epoch of every slot, <<>> while bootstrapping
    RandomNumbers,  \* values of last_generated_random_number
    Slots,          \* number of slots
    Endless,        \* nodes without a bound on their ticks
    MaxPending,     \* bound on waiting data requests
    MaxRequests,    \* bound on data requests overall
    MaxQueue,       \* bound on the event queue of a node
    MaxTicks,       \* bound on the ticks of every node
    MaxFaults,      \* bound on restarts, lost messages and failed views
    CacheSlots      \* for how many slots the gossip protocol may remember a message

ASSUME SigningAssumption ==
    /\ CommitteeSize \in Nat \ {0}
    /\ Slots \in Nat \ {0} /\ Endless \subseteq Nodes
    /\ Committees \in [0..(Slots - 1) -> {<<>>} \cup Injection(1..CommitteeSize, Nodes)]
    /\ MaxPending \in Nat
    /\ RandomNumbers \subseteq Nat /\ RandomNumbers # {}
    /\ CacheSlots \subseteq Nat \ {0} /\ CacheSlots # {}

VARIABLES
    slot, pending, random,  \* the main chain: slot, waiting requests, random number
    requested,  \* data requests so far
    mempool,    \* transactions that were sent and not executed
    net,        \* messages on their way to a node
    recent,     \* for how many slots the gossip protocol of a node remembers a message
    events,     \* event queue of a node
    ticks,      \* ticks of a node so far
    store,      \* the BatchSignatureStore in the shared memory of a node
    job,        \* what a worker of a node does
    faults      \* how many so far

chain == <<slot, pending, random, requested>>
vars == <<chain, mempool, net, recent, events, ticks, store, job, faults>>

-----------------------------------------------------------------------------
(* Data.                                                                   *)

NoHeader == -1      \* EMPTY_SHA256, which is the root of no list of requests

\* What a node signs and broadcasts; its signature as part of an aggregate.
BatchMessage(n, root) == [header |-> root, node |-> n]
Messages == [header : 0..MaxPending, node : Nodes]

\* signers lists accounts, signatures is the set of keys of the map, aggregate
\* lists the signatures that were summed.
DefaultStore == [header |-> NoHeader, slot |-> 0, signers |-> <<>>,
                 signatures |-> {}, aggregate |-> <<>>, p2p_message |-> <<>>]

\* Mutant: the aggregate of the previous header is kept.
NewStoreKeepsAggregate(n, batch, old) ==
    [header |-> batch.root, slot |-> batch.slot, signers |-> <<n>>, signatures |-> {n},
     aggregate |-> Append(old.aggregate, BatchMessage(n, batch.root)),
     p2p_message |-> <<BatchMessage(n, batch.root)>>]

\* The store of a new batch holds the node's own signature and its message.
NewStore(n, batch, old) ==
    [header |-> batch.root, slot |-> batch.slot, signers |-> <<n>>, signatures |-> {n},
     aggregate |-> <<BatchMessage(n, batch.root)>>,
     p2p_message |-> <<BatchMessage(n, batch.root)>>]

\* The store with the signature of a message added.
WithSignature(s, m) ==
    [header |-> s.header, slot |-> s.slot, signers |-> Append(s.signers, m.node),
     signatures |-> s.signatures \cup {m.node}, aggregate |-> Append(s.aggregate, m),
     p2p_message |-> s.p2p_message]

\* The gossip protocol identifies a message by a hash of its contents and
\* remembers it for a minute, five slots.
Forgotten == [m \in Messages |-> 0]
Remembers(n, m) == recent[n][m] > 0
Remember(n, m) ==
    \/ Remembers(n, m) /\ UNCHANGED recent
    \/ ~Remembers(n, m) /\ \E k \in CacheSlots : recent' = [recent EXCEPT ![n][m] = k]

IdleJob == [at |-> "idle"]
BatchTick == [task |-> "batch"]
P2PEvent(m) == [task |-> "p2p", message |-> m]

\* The hash of the random number and the slot is abstracted to their sum; there
\* is no leader while there is no committee.
get_current_slot_leader ==
    IF Committees[slot] = <<>> THEN <<>>
    ELSE <<Committees[slot][((random + slot) % CommitteeSize) + 1]>>

\* The result of a view that may fail: <<>> when the promise is rejected.
Fulfilled(value) == <<value>>
PromiseRejected == <<>>

-----------------------------------------------------------------------------
(* The main chain.                                                         *)

Init ==
    /\ slot = 0 /\ pending = 0 /\ requested = 0
    /\ random \in RandomNumbers
    /\ mempool = {}
    /\ net = [n \in Nodes |-> {}]
    /\ recent = [n \in Nodes |-> Forgotten]
    /\ events = [n \in Nodes |-> <<>>]
    /\ ticks = [n \in Nodes |-> 0]
    /\ store = [n \in Nodes |-> DefaultStore]
    /\ job = [n \in Nodes |-> [w \in Workers[n] |-> IdleJob]]
    /\ faults = 0

post_data_request ==
    /\ requested < MaxRequests /\ pending < MaxPending
    /\ pending' = pending + 1
    /\ requested' = requested + 1
    /\ UNCHANGED <<slot, random, mempool, net, recent, events, ticks, store, job, faults>>

\* What post_signed_batch asserts: the leader of this slot sends it, with a
\* signature of the current random number; members of the committee signed,
\* and the aggregate is theirs and signs the current root.
Accepted(tx) ==
    /\ get_current_slot_leader = <<tx.node>>
    /\ tx.random = random
    /\ tx.signers # <<>> /\ Range(tx.signers) \subseteq Range(Committees[slot])
    /\ tx.aggregate = [k \in DOMAIN tx.signers |-> BatchMessage(tx.signers[k], pending)]

\* A transaction is executed; one that panics has no effect.
post_signed_batch(tx) ==
    /\ mempool' = mempool \ {tx}
    /\ \/ Accepted(tx) /\ pending' = 0 /\ random' \in RandomNumbers
       \/ ~Accepted(tx) /\ UNCHANGED <<pending, random>>
    /\ UNCHANGED <<slot, requested, net, recent, events, ticks, store, job, faults>>

\* Blocks go by until the next slot begins, whatever the nodes are doing.
NextSlot ==
    /\ slot + 1 < Slots
    /\ slot' = slot + 1
    /\ recent' = [n \in Nodes |-> [m \in Messages |-> IF Remembers(n, m) THEN recent[n][m] - 1 ELSE 0]]
    /\ UNCHANGED <<pending, random, requested, mempool, net, events, ticks, store, job, faults>>

-----------------------------------------------------------------------------
(* Events of a node.                                                       *)

\* Every ten seconds the ticker adds an event.
BatchTickManager(n) ==
    /\ Len(events[n]) < MaxQueue
    /\ IF n \in Endless THEN UNCHANGED ticks
       ELSE ticks[n] < MaxTicks[n] /\ ticks' = [ticks EXCEPT ![n] = @ + 1]
    /\ events' = [events EXCEPT ![n] = Append(@, BatchTick)]
    /\ UNCHANGED <<chain, mempool, net, recent, store, job, faults>>

\* A message of a peer arrives; the gossip protocol passes it on unless it
\* remembers the same contents.
P2PMessageHandler(n, m) ==
    /\ m \in net[n] /\ Len(events[n]) < MaxQueue
    /\ net' = [net EXCEPT ![n] = @ \ {m}]
    /\ Remember(n, m)
    /\ events' = IF Remembers(n, m) THEN events ELSE [events EXCEPT ![n] = Append(@, P2PEvent(m))]
    /\ UNCHANGED <<chain, mempool, ticks, store, job, faults>>

\* A message is lost.
Lose(n, m) ==
    /\ m \in net[n] /\ faults < MaxFaults
    /\ net' = [net EXCEPT ![n] = @ \ {m}]
    /\ faults' = faults + 1
    /\ UNCHANGED <<chain, mempool, recent, events, ticks, store, job>>

\* A node stops and starts again; its queue and its memory are not persistent.
Restart(n) ==
    /\ faults < MaxFaults
    /\ faults' = faults + 1
    /\ events' = [events EXCEPT ![n] = <<>>]
    /\ store' = [store EXCEPT ![n] = DefaultStore]
    /\ job' = [job EXCEPT ![n] = [w \in Workers[n] |-> IdleJob]]
    /\ recent' = [recent EXCEPT ![n] = Forgotten]
    /\ UNCHANGED <<chain, mempool, net, ticks>>

\* A free worker takes the next event.
StartJob(n, w) ==
    /\ job[n][w] = IdleJob /\ events[n] # <<>>
    /\ LET event == Head(events[n])
       IN  job' = [job EXCEPT ![n][w] =
                      IF event = BatchTick THEN [at |-> "root"]
                      ELSE [at |-> "received", message |-> event.message]]
    /\ events' = [events EXCEPT ![n] = Tail(@)]
    /\ UNCHANGED <<chain, mempool, net, recent, ticks, store, faults>>

-----------------------------------------------------------------------------
(* The batch task.                                                         *)

\* The promises of Batch::handle in turn: the view of the root, the slot and
\* the leader, and that of the random number (the configuration is constant).
\* Either may fail.
View(value, result) ==
    \/ result = Fulfilled(value) /\ UNCHANGED faults
    \/ result = PromiseRejected /\ faults < MaxFaults /\ faults' = faults + 1

ViewRoot(n, w) ==
    LET batch == [root |-> pending, slot |-> slot, leader |-> get_current_slot_leader]
    IN  \E result \in {Fulfilled(batch), PromiseRejected} :
            /\ job[n][w].at = "root"
            /\ View(batch, result)
            /\ job' = [job EXCEPT ![n][w] = [at |-> "random", batch |-> result]]
            /\ UNCHANGED <<chain, mempool, net, recent, events, ticks, store>>

ViewRandom(n, w) ==
    \E result \in {Fulfilled(random), PromiseRejected} :
        /\ job[n][w].at = "random"
        /\ View(random, result)
        /\ job' = [job EXCEPT ![n][w] = [at |-> "views", batch |-> @.batch, random |-> result]]
        /\ UNCHANGED <<chain, mempool, net, recent, events, ticks, store>>

\* Mutant: a new root in the slot of the last broadcast is not noticed.
SameSlot(b, s) == b.slot = s.slot

AlreadyProcessed(b, s) == b.root = s.header /\ b.slot = s.slot

\* The store that process_batch saves: of a known batch with the slot of its
\* last broadcast, or of a new batch.
Processed(n, b, s) == IF b.root = s.header THEN [s EXCEPT !.slot = b.slot] ELSE NewStore(n, b, s)

\* The message process_batch broadcasts, if this slot has not seen it.
Broadcasts(n, b, s) ==
    IF AlreadyProcessed(b, s) THEN <<>>
    ELSE <<[action |-> "broadcast", message |-> Processed(n, b, s).p2p_message[1]]>>

\* The store that process_slot_leader sees: process_batch updates the caller's
\* for a known batch only, the store of a new batch is a variable of its own.
LeaderStore(n, b, s) == IF b.root = s.header THEN Processed(n, b, s) ELSE s

\* Mutant: one signature may be missing.
AllButOne(s) == Cardinality(s.signatures) + 1 >= CommitteeSize

\* A number is compared, not who has signed: the signature of a node outside the
\* committee counts, and one too many is as bad as one too few.
HasAllSignatures(s) == Cardinality(s.signatures) = CommitteeSize

\* What the slot leader posts.
Posts(n, b, s, number) ==
    IF b.leader = <<n>> /\ HasAllSignatures(s)
    THEN <<[action |-> "post",
            tx |-> [node |-> n, random |-> Head(number), signers |-> s.signers,
                    aggregate |-> s.aggregate]]>>
    ELSE <<>>

\* The state of a worker that has promises left.
Promises(promises) == IF promises = <<>> THEN IdleJob ELSE [at |-> "promises", promises |-> promises]

\* batch_step_1 after it has read the store.  Its panics drop the promises it
\* has made, not what it has written.
batch_step_1(n, w) ==
    /\ job[n][w].at = "step"
    /\ LET j == job[n][w]
           b == Head(j.batch)
           s == j.store
       IN  /\ store' = IF j.batch = PromiseRejected \/ AlreadyProcessed(b, s) THEN store
                       ELSE [store EXCEPT ![n] = Processed(n, b, s)]
           /\ job' = [job EXCEPT ![n][w] =
                         IF j.batch = PromiseRejected \/ (b.leader = <<n>> /\ j.random = PromiseRejected)
                         THEN IdleJob
                         ELSE Promises(Broadcasts(n, b, s)
                                       \o Posts(n, b, LeaderStore(n, b, s), j.random))]
    /\ UNCHANGED <<chain, mempool, net, recent, events, ticks, faults>>

\* A message that the gossip protocol remembers is not published again.
p2p_broadcast(n, w) ==
    /\ job[n][w].at = "promises"
    /\ LET promise == Head(job[n][w].promises)
       IN  /\ promise.action = "broadcast"
           /\ Remember(n, promise.message)
           /\ net' = [m \in Nodes |-> IF m = n \/ Remembers(n, promise.message) THEN net[m]
                                     ELSE net[m] \cup {promise.message}]
    /\ job' = [job EXCEPT ![n][w] = Promises(Tail(@.promises))]
    /\ UNCHANGED <<chain, mempool, events, ticks, store, faults>>

\* The transaction is sent ...
chain_call(n, w) ==
    /\ job[n][w].at = "promises"
    /\ LET promise == Head(job[n][w].promises)
       IN  /\ promise.action = "post"
           /\ mempool' = mempool \cup {promise.tx}
           /\ job' = [job EXCEPT ![n][w] = [at |-> "sent"]]
    /\ UNCHANGED <<chain, net, recent, events, ticks, store, faults>>

\* ... and the worker waits until it was executed, or for a minute: the task
\* ends with or without the transaction.
send_tx(n, w) ==
    /\ job[n][w].at = "sent"
    /\ job' = [job EXCEPT ![n][w] = IdleJob]
    /\ UNCHANGED <<chain, mempool, net, recent, events, ticks, store, faults>>

-----------------------------------------------------------------------------
(* The peer-to-peer task, and the shared memory.                           *)

Unknown(m, s) == m.header # s.header
Duplicated(m, s) == m.node \in s.signatures

\* P2P::handle after it has read the store: a new signature is added, a
\* duplicate is ignored, and an unknown header panics.
P2PHandle(n, w) ==
    /\ job[n][w].at = "compare"
    /\ LET m == job[n][w].message
           s == job[n][w].store
       IN  store' = IF Unknown(m, s) \/ Duplicated(m, s) THEN store
                    ELSE [store EXCEPT ![n] = WithSignature(s, m)]
    /\ job' = [job EXCEPT ![n][w] = IdleJob]
    /\ UNCHANGED <<chain, mempool, net, recent, events, ticks, faults>>

\* Either task reads the store of the node.
get_or_create_batch_signature_store(n, w) ==
    /\ LET j == job[n][w]
       IN  \/ /\ j.at = "views"
              /\ job' = [job EXCEPT ![n][w] = [at |-> "step", batch |-> j.batch,
                                               random |-> j.random, store |-> store[n]]]
           \/ /\ j.at = "received"
              /\ job' = [job EXCEPT ![n][w] = [at |-> "compare", message |-> j.message,
                                               store |-> store[n]]]
    /\ UNCHANGED <<chain, mempool, net, recent, events, ticks, store, faults>>

\* Whether the next step of a worker writes the store.
WritesStore(n, w) ==
    LET j == job[n][w]
    IN  \/ j.at = "step" /\ j.batch # PromiseRejected /\ ~AlreadyProcessed(Head(j.batch), j.store)
        \/ j.at = "compare" /\ ~Unknown(j.message, j.store) /\ ~Duplicated(j.message, j.store)

\* Another worker writes between the reads of the length and of the value: the
\* lengths may differ, which ends the task.
shared_memory_read_fails(n, w) ==
    /\ job[n][w].at \in {"views", "received"}
    /\ \E v \in Workers[n] \ {w} : WritesStore(n, v)
    /\ job' = [job EXCEPT ![n][w] = IdleJob]
    /\ UNCHANGED <<chain, mempool, net, recent, events, ticks, store, faults>>

-----------------------------------------------------------------------------
Task(n, w) ==
    \/ ViewRoot(n, w) \/ ViewRandom(n, w) \/ get_or_create_batch_signature_store(n, w)
    \/ batch_step_1(n, w) \/ p2p_broadcast(n, w) \/ chain_call(n, w) \/ send_tx(n, w)
    \/ P2PHandle(n, w) \/ shared_memory_read_fails(n, w)

Next ==
    \/ NextSlot
    \/ \E tx \in mempool : post_signed_batch(tx)
    \/ post_data_request
    \/ \E n \in Nodes :
          \/ BatchTickManager(n) \/ Restart(n)
          \/ \E m \in Messages : P2PMessageHandler(n, m) \/ Lose(n, m)
          \/ \E w \in Workers[n] : StartJob(n, w) \/ Task(n, w)

\* Sent transactions are executed.  On a node that keeps running the tasks come
\* to an end, and the ticker and the network find room in the queue, which has
\* no bound, again and again.
Fairness ==
    /\ WF_vars(NextSlot) /\ WF_vars(\E tx \in mempool : post_signed_batch(tx))
    /\ \A n \in Endless :
          /\ SF_vars(BatchTickManager(n)) /\ SF_vars(\E m \in Messages : P2PMessageHandler(n, m))
          /\ WF_vars(\E w \in Workers[n] : StartJob(n, w))
          /\ \A w \in Workers[n] : WF_vars(Task(n, w))

Spec == Init /\ [][Next]_vars /\ Fairness

-----------------------------------------------------------------------------
(* Properties.                                                             *)

\* Whatever the workers of a node interleave, the store is that of one batch:
\* its lists agree, no signer counts twice, every summed signature is of its
\* header, and the message it broadcasts is the node's own for that header
\* (batch.rs:166-205, p2p.rs:69-97).
StoreConsistent ==
    \A n \in Nodes :
        LET s == store[n]
        IN  \/ s = DefaultStore
            \/ /\ Range(s.signers) = s.signatures
               /\ Len(s.signers) = Cardinality(s.signatures)
               /\ s.aggregate = [k \in DOMAIN s.signers |-> BatchMessage(s.signers[k], s.header)]
               /\ s.p2p_message = <<BatchMessage(n, s.header)>>
               /\ n \in s.signatures

\* A batch that the contract seals is signed by every member of the committee.
\* Neither side asks for that: the leader compares the number of signatures
\* with the size of a committee and not who gave them (batch.rs:238), and the
\* contract asks for no number of signers (contracts/src/batch.rs:84-105).
SealedByWholeCommittee ==
    \A tx \in mempool : Accepted(tx) => Range(tx.signers) = Range(Committees[slot])

\* Once the root no longer changes, every node comes to hold a store for it,
\* with its own signature, for good: whatever restarts, lost messages, failed
\* views, late tasks of an earlier root and tasks that read the store while
\* another writes it came before (batch.rs:122-208, p2p.rs:61-117).
StoresCatchUp ==
    \A root \in 0..MaxPending :
        <>[](pending = root)
            => <>[](\A n \in Endless : store[n].header = root /\ n \in store[n].signatures)

\* A signature in the store stays there as long as the node works on the same
\* header and is not restarted.
SignaturesKept ==
    [][\A n \in Nodes :
          store'[n].header = store[n].header => store[n].signatures \subseteq store'[n].signatures]_store
=============================================================================
