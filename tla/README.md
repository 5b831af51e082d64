# A TLA+ model of the SEDA node and main-chain contract

This directory specifies the SEDA system of this repository in TLA+: the contract
on the main chain, the consensus tasks of the nodes, the machinery that runs those
tasks, the peer-to-peer layer and the client of the chain. TLC checks the
specifications on small instances, and TLAPS proves every safety property of the runs
that pass for all instances, under the assumptions named below. `PROJECT.json` lists
the components, runs, findings, hazards and theorems and maps every definition to the
lines that it models.

## The system

Users post *data requests* to the contract `MainchainContract` (`contracts/`).
Nodes *register*, *stake* and, from an election delay on, are *active*. In each
epoch `process_epoch` draws, two epochs ahead, a *committee* of active nodes. The
members sign the Merkle root of the waiting requests, exchange their signatures
over gossip, and the leader of the slot posts the batch with the aggregate.

A node (`node/`) is a set of actors. Events (a tick every 10 s, messages of peers,
events of tasks) enter an event queue; the job manager hands one every 200 ms to a
pool of workers. A worker runs the consensus binary (`wasm/consensus/`) in a WASM
runtime (`runtime/`), which executes the *promises* that the binary makes: calls of
its own functions, HTTP fetches, database and chain calls, broadcasts. Workers
share one memory, in which the signatures of the current batch are collected.
`chains/` signs and sends transactions; `delegate-cli/` sends those of a node
operator; `p2p/` finds peers and keeps connections to them.

### Inventory

| Part | State | Who changes it | Module |
|---|---|---|---|
| token (`fungible_token.rs`) | balances, supply | users, staking | `Token` |
| registry (`node_registry.rs`, `dao.rs`) | active, inactive and pending nodes, key indices, deposits, withdrawal requests, configuration | operators, depositors, DAO | `NodeRegistry` |
| epochs (`epoch.rs`, `committee.rs`, `slot.rs`) | committees, last processed epoch, bootstrapping | anyone who calls `process_epoch` | `EpochCommittees` |
| requests and batches (`data_request.rs`, `batch.rs`) | accumulator, batches, random number | users, slot leader | `Mainchain`, which composes the contract |
| Merkle root (`merkle.rs`) | locals of `merklize` | the contract | `Merkle` |
| event queue, job manager, workers (`node/app`, `node/runtime_job.rs`) | queue, mailbox, busy workers | ticker, peers, RPC, tasks | `JobManager` |
| host actor, database, fetches, ticks (`node/host`) | mailbox, address of the app, rows, life of the actor | tasks, app, network | `Host` |
| channels to the peer-to-peer server (`node/lib.rs`, `p2p/libp2p`) | messages and commands under way, life of the event loop | peers, tasks, RPC | `P2PChannels` |
| the process | all of the above, restarts | operator | `Node`, which composes the three |
| promise runtime (`runtime/core`) | promise queues of one task | the task | `PromiseRuntime` |
| batch and p2p tasks (`wasm/consensus`) | signature store in shared memory | workers of every node | `BatchSigning` |
| bridge task, chain adapters, delegate CLI | nonces, transactions under way | workers, operator | `ChainClient` |
| peer discovery (`p2p/`) | peer lists, cooldowns, dials | swarm, operator | `PeerDiscovery` |
| storage fees, signature verification, key derivation, configuration, CLIs, logging | | | not modelled, see below |

The contract is `Mainchain` over `EpochCommittees` over `NodeRegistry` over `Token`;
it implements `RequestLedger`. The process is `Node` over `Host` over `JobManager`,
with `P2PChannels`; it implements `WorkerPool`. `PromiseRuntime` implements
`WorkList`. `BatchSigning` composes several nodes with the part of the contract that
they see. What remains is listed at the end.

## The modules

**Contract.** `Collections` has the maps of near-sdk. `Token`, `NodeRegistry` and
`EpochCommittees` each have one action per public method, with its assertions as
guards: a call that panics is reverted and so is no step. `Mainchain` adds data
requests, batches and block production. Integers have the widths `U128` and `U64`;
with `OverflowChecks` an overflow panics, as in the test profile, and without it
wraps, as in the release profile. SHA-256 is the parameter `Digest`, and the order in
which a map holds its nodes is open. `Draws` gives the runs of the two loops of
`select_committee`: a round draws with its own number and, as long as the index was
chosen before, with counters that go on from round to round. With too few active
nodes no run ends, nor does one with more than `MaxRerolls` rerolls: the transaction
runs out of gas, so it is no step. A signature is its signers and its message.
`RequestLedger` is what the contract
promises to users: every request enters exactly one batch, in order, for good.
`RequestsSealedOnce` says that `Mainchain` implements it.

**Merkle.** The loops of `merklize`, one step per parent. A hash is the tree that
was hashed, so two hashes are equal only if their inputs are. Sorting yields, at
position `k`, the leaf that fewer than `k` leaves are below and at least `k` are not
above. The reference is the recursive definition of the balanced tree over the sorted
hashes. `RootCommits` says that two arrays have one root exactly when they hold every
request equally often.

**JobManager, WorkerPool.** Queue, job manager and workers with one action per
handler; commands of the RPC server bypass the queue. A worker whose thread panics
(no consensus binary, a message that is not text, a closed channel) is not replaced.
That is so in a build that unwinds (`Unwinds`). The release profile has
`panic = "abort"` (`src/Cargo.toml:39`): there any panic, of a worker, the host or the
event loop, ends the process, which is the step `Restart` of `Node`.
`WorkerPool` is the promise: an event is started at most once, and events of one
origin in order of arrival.

**Host.** The actor with its mailbox: the address of the app, the first tick and the
calls of the workers are taken up in order; an answer comes later, from the thread of
the database or from the network. `db_set` adds a row and `db_get` reads the first
row of its key. A fetch that fails panics: the actor, its mailbox and the futures of
its callers are gone, and the database thread goes on with what it was handed. The
table outlives the process.

**P2PChannels.** The two channels of `node/lib.rs`, which hold `Capacity` messages: a
send to a full one waits. The event loop of the peer-to-peer server takes nothing
else up while it is sending, and ends when it panics.

**Node.** The steps in which the three meet: a tick or a trigger of the host adds an
event, a task on a worker calls the host or broadcasts, the listener moves messages
into the queue, the process is stopped and started again at any moment.

**PromiseRuntime, WorkList.** One run of a task: queues of promises, the status of
each, the queue that a call makes. The task is any code: a call makes any promises
or fails. `WorkList` is the promise: what is promised runs once and in order.

**BatchSigning.** Nodes inside and outside the committee, each with workers, an event
queue and a signature store, and the network and the contract between them. The tasks
do not ask who is a member: every node signs, broadcasts and adds what it receives,
the leader compares the number of signatures with the size of a committee, and only
the contract looks who has signed. The committee may change from slot to slot, and
there is none while the contract is bootstrapping. A task is a sequence of steps with
a view, a read or a write of the shared store, a broadcast or a post in each, so tasks
of two workers interleave as their host calls do. Data requests are alike, so the root
is the number of waiting ones. The contract is reduced to slot, waiting requests and
random number; views see final state, so a transaction that was sent may not be
visible yet. Slots go by whatever the nodes are doing. A task that has sent a
transaction waits for it for up to a minute, so it ends with or without the
transaction. Gossip loses messages (a fault) and remembers what it has seen for some
slots (`CacheSlots`); a minute is five slots. A restart empties store, queue and
workers.

**ChainClient.** Bridge tasks and runs of `seda-delegate setup` that send
transactions through `NearChain`: read the nonce, sign, broadcast, poll until the
outcome is known or 60 s are over. `register_node` is signed with the key with which
the workers sign, so their nonces collide. The chain executes a transaction whose
nonce is above the key's and refuses others; RPC nodes fail and lose transactions.

**PeerDiscovery.** The event loop of `P2PServer`, the discovery status with its
peer lists, and the swarm. Peers restart with ids that no peer has had before
(`past`), have several addresses and dial this node; the operator adds and removes
peers. Kademlia and gossipsub dial by themselves (`strays`), and the event loop handles
the outcome as that of its own dials: it panics when the address is not in its list.

`MCMainchain`, `MCBatchSigning` and `MCPeerDiscovery` give the constants their
values; the other modules are instantiated by their configuration files alone.

## What TLC checks

Runs that pass:

| Run | Properties | What it shows |
|---|---|---|
| `staking` | `TypeOK`, `NodesPartitioned`, `NodesIndexed`, `SupplyConserved`, `TotalBalanceTracked`, `StakeCoversDeposits`, `PagesCoverNodes` | two operators register, stake on each other, withdraw after the delay, cancel and unregister over three epochs; no order of these calls creates or loses stake or files a node twice, and the pages of the views show every node once |
| `release` | `TotalBalanceTracked`, `SupplyConserved` | the release build, in which balances wrap, while the DAO changes minimum stake and delay between the calls of the nodes: the identities hold modulo the width of a balance |
| `batches` | `BatchChain`, `CommitteeHorizon`, `CommitteesDrawnFromActive`, `CommitteesFixed`, `RequestsSealedOnce` | two nodes join, leave and take turns as slot leader; epochs are processed late, repeatedly or not at all, and every draw needs rerolls: committees have distinct members, stay within the lookahead and are never rewritten, and the contract implements `RequestLedger` |
| `merkle` | `TypeOK`, `FoldsTheTree`, `RootCommits`, `Returns` | the loops of `merklize` compute the balanced tree, whose root tells request lists apart |
| `node` | `TypeOK`, `ReadsFirstRow`, `AcknowledgedStored`, `TriggersReachApp`, `EventsRunOnceInOrder`, `EveryEventRuns`, `ChannelsDrain` | two workers whose tasks call the host and broadcast while the host or the event loop fails, workers end and the process restarts: queue, manager and workers implement `WorkerPool` and leave no event behind; what was read is the first row of its key and what was acknowledged is stored; full channels do not block task and event loop on each other |
| `promises` | `EarlierResultsKnown`, `PromisesRunInOrder`, `RunEnds` | tasks with one call per queue, on a limited runtime or not: the runtime implements `WorkList` and ends |
| `signing` | `StoreConsistent`, `SealedByWholeCommittee` | a committee of two, one of them with two workers, and a node outside it: a store is always that of one batch, and a batch that the contract would seal is signed by the whole committee |
| `recovery` | `StoresCatchUp` | a node with two workers that keeps running, with a restart, a lost message or a failed view: once the root no longer changes, the node comes to hold a store for it, with its own signature, for good |
| `peers` | `StatusMatchesSwarm`, `CooldownRespected`, `ManualPeersRetried` | two manual peers for one place, which restart, are found again or dial this node, dials of the behaviours, an operator who adds and removes peers: no address is dialled during its cooldown; until something interferes the list of connected peers is what the swarm does, and manual peers are dialled again while the limits leave room |
| `chain_client` | `TypeOK`, `OkMeansExecuted`, `SetupInOrder`, `RefusedOnlyForRival`, `CallsReturn` | bridge tasks and setups, three runs in all, on shared keys, with a fault: what is reported as completed was executed, setup skips nothing, only a nonce that another transaction used is refused, and every call returns |

Runs that end in a counterexample show where the code does something else than a
comment says (`findings` in `PROJECT.json` quotes the lines):

| Run | Property | What happens |
|---|---|---|
| `pending_nodes` | `PendingAreInactive` | a pending node can be unregistered; `process_epoch` then panics |
| `lost_signature` | `SignaturesKept` | with two workers, the default, a signature is overwritten |

### Other differences between code and comments

These were met while modelling. The models contain the behaviour, and the properties
above are stated so that they hold in spite of it.

- `contracts/src/epoch.rs:39`: a pending node whose stake was withdrawn is activated
  ("eligible to participate", `lib.rs:67`).
- `contracts/src/node_registry.rs:248`: an account that registers a second key can be
  active and inactive (`lib.rs:67`, `lib.rs:69`). `OneWalletPerAccount` excludes it.
- `contracts/src/node_registry.rs:72`: a member of the current committee can stop
  being active ("sub-set of active nodes", `lib.rs:73`).
- `contracts/src/epoch.rs:65`: an epoch without a call leaves the epoch two later
  without committee (`batch_test.rs:65`). `CommitteeHorizon` claims only the committee
  at the lookahead.
- `contracts/src/node_registry.rs:108`: a second deposit replaces the recorded amount
  and can leave a withdrawal request uncovered.
- `contracts/src/fungible_token.rs:14`: `burn` wraps in a release build.
- `contracts/src/node_registry.rs:192`: `PagesCoverNodes` is about pages that are read
  while no node comes or goes. A node that leaves between two pages is replaced by the
  last one, which can then be missed; an offset beyond the length fails the call.
- `node/src/app/job_manager.rs:33`: running ids are never recorded, so tasks with one
  id run at the same time ("checks if there is no thread currently running", l. 16).
- `node/src/host/http_fetch.rs:17`: a fetch that fails ends the host: ticks stop, and
  every later call of every task fails until the process is restarted.
- `node/src/host/db_set.rs:25`: writing a key again adds a row that no read returns.
  `ReadsFirstRow` states what a reader sees.
- `node/src/host/trigger_event.rs:26`: a command of the RPC server that runs before the
  app has started cannot trigger an event. `TriggersReachApp` is about the others.
- `runtime/core/src/runtime.rs:262`: when the event loop has panicked, every worker
  that broadcasts ends, until none is left; hence the second case of `EveryEventRuns`.
- `wasm/consensus/src/tasks/batch.rs:167`: a leader that sees a new root posts the
  aggregate of the previous one, which the contract refuses.
- `wasm/consensus/src/tasks/batch.rs:238`: signatures are counted, not attributed. With
  one of a node outside the committee the leader posts without a member, which the
  contract refuses, or has one too many and does not post.
- `wasm/consensus/src/tasks/p2p.rs:113`: a signature of an unseen root ends the task
  ("add to future batch list", l. 35).
- `wasm/consensus/src/tasks/batch.rs:152`: a broadcast that is repeated within a
  minute is refused as a duplicate.
- `runtime/core/src/runtime.rs:204`: of two calls in one queue the promises of the
  first are dropped. `SingleCall = FALSE` shows it as a violation of
  `PromisesRunInOrder`.
- `runtime/core/src/runtime.rs:260`: a broadcast stays pending
  ("We are processing the promise", `promise.rs:12`).
- `p2p/src/libp2p/discovery_status.rs:207`: a peer that the operator added is kept in
  the list of Kademlia and forgotten after a failed dial.
- `p2p/src/libp2p/peer_list.rs:83`: a connection to an address that was removed while
  it was dialled, or that Kademlia or gossipsub has dialled, panics the event loop
  (`halted`).
- `p2p/src/libp2p/discovery_status.rs:86`: ids from before a restart count as peers,
  and manual addresses under dial do not; with enough of them nothing is dialled any
  more. Hence `RoomForManual` in `ManualPeersRetried`.
- `p2p/src/libp2p/peer_list.rs:102`, `mod.rs:192`: one address of a peer with two, and
  an address whose dial fails outside the transport, stay in the list of connected
  peers and are not dialled again. Hence `Undisturbed`.
- `chains/src/near_chain.rs:155`: a post that timed out is reported as failed and may
  still be executed. `OkMeansExecuted` claims one direction only.
- `wasm/consensus/src/tasks/bridge.rs:82`: success is printed for a post that failed.
- Outside the models: `config/src/configs/node.rs:102` writes a generated key to the
  default path, not to `seda_sk_file_path` ("The path where you want to write to the
  generated secret key", l. 24), so with another path each start makes a new identity;
  the check of `ACCOUNT_SECRET_KEY` (l. 138) comes after that. The commands of the
  delegate CLI build a transaction with `rpc_url` and send it with `test_config()`
  (`register.rs:57`, `stake.rs:58`, `top_up.rs:35`).

### Bounds

- Contract: two accounts suffice for every property about pairs of nodes (staking
  on another node, handing over the slot); balances up to 7 and epochs up to 15 let
  every amount overflow once, and in `release` a width of 4 wraps at once; two blocks,
  each an epoch of its own in the passing runs, with delays of 1 and 2 let delays end,
  be missed and be repeated, and two epochs be processed. `release` has one operator:
  staking on others is the subject of `staking`. In `batches` nodes stake on themselves
  only (`OwnStakeOnly`), up to two requests wait and two batches are posted. The digest
  of the instance (`HalvedCounter`) lets the second seat of a committee of two take
  three rerolls, which is `MaxRerolls`. The contents of requests are interchangeable.
- Merkle: nine leaves of two values, so that there are levels of odd and even width
  up to a depth of four.
- Node: two workers, so that one is busy, waits or has ended while the other goes on.
  Two calls let a write and a read, two writes, or a call and a failing fetch meet.
  One key has an old row and gets a new one. Channels of capacity one are full with
  the second send. Commands come as first event, messages and later ticks as one of
  the first two (after a restart only as the first), and the first tick of each
  process and the events of tasks in addition. One restart comes at any moment. So
  workers are hardly kept busy by a flow of commands. `Unwinds` is true: every
  behaviour of the build that aborts is one of this build too, since it has fewer
  steps, and the step that fairness loses with it (`BroadcastFails`) needs an event
  loop that has ended.
- Promises: two per call and three queues deep, which has calls before and after other
  promises.
- Signing: a committee of two is the smallest with a leader who needs a signature of
  another, and a third node is outside it. There is no committee in the first slot
  and one in the second (`AfterBootstrap`). The first node ticks twice, the others once,
  and one request changes the root. Only the first node takes up messages
  (`OnlyFirstListens`): it meets everything that the others may send, and what would
  reach them is the subject of the proofs. `recovery` has two nodes, one slot without
  committee, and one restart, lost message or failed view at any step.
- Peers: two addresses, both manual, of two peers, one place for a peer of each type
  (`OneEach`) and two in all, so that the limits bind. A third id is for the peer that
  restarts. One discovery reports up to `MaxFound` addresses. `MaxDisturbances` bounds
  the commands of the operator, connections that peers open, dials of the behaviours
  and dials that fail outside the transport, together; a restart and a disturbance are
  not combined (`RestartOrDisturbance`). Peers with two addresses are left to the
  proofs.
- Chain calls: `TimeLimit` is the number of clock steps before the 60 s are over; only
  before and after matter. Three runs in all, so that a setup or a bridge task follows
  one whose transaction is still under way.

The deadlock check is off where calls, events or heights are bounded: the instance
then simply ends.

### Fairness

- `Node`: the actors, the listener, the database thread, the event loop and the workers
  take their next step when they have one (weak fairness of each); a task ends. A
  broadcast is strongly fair, because senders that wait for room in a tokio channel
  are served in turn. Nothing is assumed of the network, since no request of the host
  has a timeout: `EveryEventRuns` is about the behaviours in which no call waits for
  ever. Commands, messages, later ticks, failures and restarts may or may not come.
- `PromiseRuntime`, `Merkle`: the code runs to its end; host calls return.
- `BatchSigning`: blocks are produced and sent transactions executed. Of a node that
  keeps running (`Endless`) every worker goes on with its task, the queue is served, and
  ticks and messages get into the queue again and again: strong fairness, because the
  bound on the queue is one of the model and the queue of the code has none. Nothing
  is assumed of the other nodes, nor of how long a slot is compared with a task. That a
  batch is sealed in the end is not claimed: messages are lost, refused as duplicates
  or counted too often, and a slot can end before its leader has posted.
- `PeerDiscovery`: discovery is called on a timer, a dial has an outcome, a cooldown
  ends.
- `ChainClient`: RPC requests return, timers fire and time passes. Nothing is assumed
  of the chain, which may leave a transaction in its pool for ever.

## What is proved

All proofs are about the specifications that TLC runs, for every value of the
constants that satisfies the named assumptions of the modules.

`MainchainProofs` proves, for all accounts, keys, amounts, widths and delays, both
build profiles and all bounds, from the named assumptions of `Token`,
`NodeRegistry`, `EpochCommittees` and `Mainchain` (constants have the types of the
code, and slots and epochs are not empty):

- `TypeCorrect`: `Spec => []TypeOK`, one lemma per group of calls. Arithmetic stays
  within its width by `WrappedInWidth`.
- `HorizonKept`: `CommitteeHorizon` is inductive together with `TypeOK`; it needs that
  epochs never go back (`DivMonotone`) and what a call of `process_epoch` publishes
  (`PublishAddsOnly`).
- `CommitteesNeverChange`, `CommitteesAreDrawn`: action properties. A call publishes
  only epochs beyond those published, because of the horizon. For any digest, a round
  that ends has found an index that no earlier round chose (`SeatsAreDistinct`), and
  every index is that of an active node (`SeatsGoToNodes`), so that a committee has as
  many members as seats (`SelectedAreDistinct`).
- `NodesStayPartitioned`, `NodesStayIndexed`: when an account has one wallet. By
  themselves they are not inductive: `register_node` checks keys, not accounts. The
  inductive invariant `NodesOwned` adds that the account of each filed node is that of
  a wallet whose keys are indexed, so that a second registration is refused.
  With two keys per account the hypothesis fails, and so do both properties.
- `BatchesFormChain`: the stored batches form one chain linked by their ids.
- `RequestsStaySealed`: `Mainchain` implements `RequestLedger`: initial states map to
  initial states, and every step to a step or a stutter.

`StakeProofs` goes on from there, for the same constants; the first three are about
accounts with one wallet, as above:

- `SupplyStaysConserved`, `TotalBalanceStaysTracked`, in both builds. A sum over a map
  folds over its keys in an unknown order; `SumIsTotal` (in `MainchainProofs`) shows
  that it is the number of units in the map, a cardinality, from which follows what
  `insert`, `remove` and moving nodes between maps do to it. `SupplyInv` states both
  identities as congruences modulo the width of a balance: every call changes both
  sides by congruent amounts, whether or not one of them wraps.
- `DepositsStayCovered`, in a build with overflow checks: by itself
  `StakeCoversDeposits` is not inductive, since a call for one key could move the
  stake of a node that another key leads to. `KeysOwned` adds that a key was indexed
  by the wallet that holds it.
- `PagesDoCoverNodes`: for any number of nodes and any page size. Offsets grow page by
  page (`OffsetsGrow`), a page holds what lies between its offset and the next
  (`PageOf`), and a key is on the last page that does not begin after it.

`MerkleProofs` proves, for arrays of every length over any requests:

- `FoldStaysInRange`, `FoldingBuildsTheTree`: in the midst of a level, the hashes before
  `i` are those of the level above and the others still those of the level that is
  folded, and the tree over that level is the tree over the array (`FoldInv`).
  `LevelFolds` is the step: the tree over a level is the tree over the level above it,
  also when its width is odd and the last hash goes up alone.
- `RootsDoCommit`: a tree determines its leaves, the number of them included
  (`TreeDetermines`); two arrays with one root have the same sorted hashes, and these
  count every request as the array does (`SortedCounts`). Conversely arrays that agree
  in all counts have the same length and are sorted alike (`SortedSame`).

`NodeInvariants` states the invariants of the node on calls, messages and addresses and
proves that every step keeps them; `NodeProofs` goes on from there to the pool of
workers, the types and the bounds. For any workers, keys, values, capacities and bounds,
in builds that unwind and in builds that abort:

- `ReadsFirstRowHolds`, `AcknowledgedStoredHolds` and, as a consequence,
  `ReadsAgreeHolds`: two reads of a key give the same value. The invariant has to
  follow a value from the table to the task: `StoreInv` says that the outcome kept for
  a worker is a first row (of a read) or a row (of a write) already; it rests on
  `MailInv`, by which a worker has at most one message or closure under way.
- `TriggersReachAppHolds`: `AddressInv` says that the address of the app is known or
  in the mailbox before every call of a task of the queue, because the queue is served
  only once the app has started (`EventsInv`: what is in the mailbox of the
  workers or on a worker came after the start, or is a command).
- `EventsDoRunOnceInOrder`: `Node` implements `WorkerPool`. The queue of the pool is what
  the mailbox of the workers holds of the event queue, followed by that queue; the
  commands in the mailbox are a queue of their own (`WithIds`, of which the lemmas say
  what appending and taking the head do to it). `QueueInv` says that no id is ever
  recorded as running, so that the job manager takes the first event, and that no
  command is in the event queue.
- `NodeTypeCorrect`: channels stay within their capacity, and a write that was
  acknowledged is one of a task (`WriteInv`). That events stay below their bound needs
  `ArrivalInv`, which counts with the events that have arrived those that are sure to
  come: the first tick of the process and one for each worker whose call triggers one.

`TaskProofs` is about what a task runs on. For any number of promises and queues of the
runtime it proves:

- `EarlierResultsKnownHolds`, also of tasks with several calls per queue.
- `PromisesRunInOrderHolds`: with one call per queue `PromiseRuntime` implements
  `WorkList`. The list is what is left of the current queue followed by the next
  queue. A call replaces the next queue, so the invariant `CallInv` is needed: a call
  that is still to come is the only one of its queue and finds the next queue empty.

and for any callers, keys, faults and time limits of the chain client:

- `OkMeansExecutedHolds`: `ClientInv` ties every call that waits to the transaction
  that it has signed.
- `SetupInOrderHolds`: `OrderInv` adds that a run is at a step only after the steps
  before it have succeeded.
- `RefusedOnlyForRivalHolds`: `NonceInv` adds that no transaction is executed twice,
  that no nonce under way is ahead of the key by more than one, and that the nonces
  that a key has used leave no gap.
- `ClientTypeCorrect`: no caller goes past the end of its program or its time limit.
  `RangeInv` adds that a caller that is not idle has started a run; no caller exceeds the
  bound on the runs of all, because its own are among them (`BegunByOne`).

`SigningProofs` proves, for any nodes, committees that change from slot to slot, and any
number of workers:

- `StoreStaysConsistent`, `SealedStaysWhole`. Tasks hold copies of the store between
  a read and a write, so `SigningInv` says of every copy, too, that its signers, keys
  and aggregate are those of one header, and of every promise and transaction to post
  that it has as many signers as a committee has members, each once. The contract
  accepts signers of the committee only, and so these are all of its members
  (`AllMembers`).
- `SignaturesStayKept`, if a node has one worker (`OneWorker`): `ReadIsCurrent` says that
  the copy of a task is the store as it is, so that what is written back extends it.
  With two workers it fails, and so does the property (`lost_signature`).

`PeerDiscoveryProofs` proves, for any addresses, peers and limits:

- `CooldownStaysRespected`: whatever discovery dials was free, so not cooling down.
- `StatusStaysMatched`: `ListsKnown` says that a list relates an address only to ids that
  the peer there has or had. As long as nothing interferes no id belongs to two
  addresses, so an entry that is removed by its id is the one of the connection that
  ended; `SwarmInv` then says that the addresses of the list are those with one dial or
  one connection, and not both, and that no other dial is under way.

Where a proof is about something that is defined by recursion (the tree, the next power
of two, `WithIds`) or about a sum, the argument is one by the least counterexample:
every set of naturals that is not empty has a least element (`LeastExists`,
`NumbersFounded`), and so the set of sizes for which the claim fails is empty. That a
recursive function exists at all is shown in the same way.

The theorem library is brought into a proof module (`INSTANCE`) only where its facts
about finite sets and well-founded relations are used. A lemma above that place takes
such a fact as a hypothesis (`LeastElements`, `LastPositions`, `RunsInRange`), and a lemma
below discharges it (`NumbersFounded`, `PositionsEnd`, `RunsStayInRange`), so that the
theorems have none of them left.

The assumptions that the proofs use and that are not only types: slots and epochs are
not empty; workers of a node and callers of the chain are finitely many; no caller is
both a bridge task and an operator; no worker has the name of a message of the app; and
the id of a command is not that of another event (`NodeAssumption`). Some results have a
hypothesis of their own: one wallet per account (in the properties of the registry and
of stake), one call per queue (`PromisesRunInOrderHolds`), one worker per node
(`SignaturesStayKept`).

Only model-checked: liveness (`Returns`, `EveryEventRuns`, `ChannelsDrain`, `RunEnds`,
`StoresCatchUp`, `ManualPeersRetried`, `CallsReturn`), because the prover has no
fairness and no `ENABLED`; and the two counterexamples.

## What is not modelled

- Storage fees: callers attach what storage costs. The code measures the bytes that a
  call has added, which is a matter of the encoding of near-sdk.
- Signature verification and key derivation: signatures cannot be forged and are
  equal when signers and message are.
- `ft_transfer_call`, which is code of near-contract-standards and calls other
  contracts; its two halves change balances as `ft_transfer` and `storage_unregister`
  do. Hence the token is modelled in part.
- Copying between guest and host memory, serialisation, configuration files, command
  lines, logging, debugging tools, demonstration tasks; `AnotherChain`, all of whose
  methods are `unimplemented!()`.
