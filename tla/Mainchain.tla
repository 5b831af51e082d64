----------------------------- MODULE Mainchain -----------------------------
(***************************************************************************)
(* The main-chain contract as a whole: the token, the node registry, the   *)
(* epochs and committees, and the data requests that committees put into   *)
(* batches (data_request.rs, batch.rs).  A step is one transaction or the  *)
(* next block of the chain that hosts the contract.                        *)
(*                                                                         *)
(* Hashes are abstracted to what they identify: the merkle root of sorted  *)
(* leaves to the multiset of requests, a batch id to the chain of roots it *)
(* commits to.  A signature is abstracted to its signers and its message.  *)
(***************************************************************************)
EXTENDS EpochCommittees, Sequences

CONSTANTS
    DataRequests,   \* payloads of post_data_request
    MaxHeight,      \* bound on block_height
    MaxRequests,    \* bound on the requests waiting for a batch
    MaxBatches      \* bound on num_batches

ASSUME BoundAssumption ==
    /\ MaxHeight \in Nat
    /\ MaxRequests \in Nat
    /\ MaxBatches \in Nat

VARIABLES
    data_request_accumulator,
    num_batches,
    batch_ids_by_height,            \* height -> batch id
    batch_by_id                     \* batch id -> batch

batchVars == <<data_request_accumulator, num_batches, batch_ids_by_height, batch_by_id>>
vars == <<block_height, tokenVars, registryVars, epochVars, last_generated_random_number,
          batchVars>>

\* merklize sorts the hashes of the requests first, so the root identifies how
\* often each request occurs and nothing else; it is zero for no request.
merklize(requests) ==
    [d \in DataRequests |-> Cardinality({i \in DOMAIN requests : requests[i] = d})]

internal_compute_merkle_root == merklize(data_request_accumulator)

\* The id hashes the previous id, the height and the root of the batch.
\* The previous id of the first batch is the default one.
NoBatchId == <<>>
\* Mutant: the number of batches is taken for the index of the last one.
BatchIdBeforeLatest ==
    IF num_batches - 1 \in DOMAIN batch_ids_by_height
    THEN batch_ids_by_height[num_batches - 1]
    ELSE NoBatchId

get_latest_batch_id ==
    IF num_batches \in DOMAIN batch_ids_by_height
    THEN batch_ids_by_height[num_batches]
    ELSE NoBatchId
BatchId(prev_root, height, merkle_root) == <<prev_root, height, merkle_root>>

-----------------------------------------------------------------------------
post_data_request(data_request) ==
    /\ Len(data_request_accumulator) < MaxRequests
    /\ data_request_accumulator' = Append(data_request_accumulator, data_request)
    /\ UNCHANGED <<tokenVars, registryVars, epochVars, last_generated_random_number,
                   num_batches, batch_ids_by_height, batch_by_id>>

\* Mutant: the accumulator is not cleared.
StoreWithoutClear ==
    LET height == num_batches + 1
        batch_id == BatchId(get_latest_batch_id, height, internal_compute_merkle_root)
    IN  /\ num_batches' = height
        /\ batch_by_id' = insert(batch_by_id, batch_id,
                [height |-> height, transactions |-> data_request_accumulator])
        /\ batch_ids_by_height' = insert(batch_ids_by_height, height, batch_id)
        /\ UNCHANGED data_request_accumulator

\* The part of post_signed_batch that stores the batch and empties the
\* accumulator.
store_batch ==
    LET height == num_batches + 1
        batch_id == BatchId(get_latest_batch_id, height, internal_compute_merkle_root)
    IN  /\ num_batches' = height
        /\ batch_by_id' = insert(batch_by_id, batch_id,
                [height |-> height, transactions |-> data_request_accumulator])
        /\ batch_ids_by_height' = insert(batch_ids_by_height, height, batch_id)
        /\ data_request_accumulator' = <<>>

\* Everything after process_epoch() reads the state that call leaves behind.
\* signers are the accounts whose signatures of signed_root are aggregated.
post_signed_batch(caller, signers, signed_root) ==
    /\ process_epoch
    /\ HasCommittee(committees')
    /\ caller.account_id = get_current_slot_leader(committees')
    /\ caller.account_id \in DOMAIN active_nodes'
    /\ \E r \in RandomNumbers : last_generated_random_number' = r
    /\ signers # {}
    /\ signers \subseteq Range(committees'[get_current_epoch])
    /\ signers \subseteq DOMAIN active_nodes'
    /\ signed_root = internal_compute_merkle_root
    /\ num_batches < MaxBatches
    /\ store_batch
    /\ UNCHANGED <<tokenVars, configVars, indexVars, stakeVars, withdraw_requests>>

ProcessEpoch ==
    /\ process_epoch
    /\ UNCHANGED <<tokenVars, configVars, indexVars, stakeVars, withdraw_requests,
                   last_generated_random_number, batchVars>>

-----------------------------------------------------------------------------
\* new()
Init ==
    /\ block_height = 0
    /\ TokenInit
    /\ RegistryInit
    /\ EpochInit
    /\ data_request_accumulator = <<>>
    /\ num_batches = 0
    /\ batch_ids_by_height = EmptyMap
    /\ batch_by_id = EmptyMap

NextBlock ==
    /\ block_height < MaxHeight
    /\ block_height' = block_height + 1
    /\ UNCHANGED <<tokenVars, registryVars, epochVars, last_generated_random_number, batchVars>>

TokenCall ==
    /\ \E a \in Accounts :
        \/ storage_deposit(a)
        \/ storage_unregister(a)
        \/ \E b \in Accounts, amount \in Amounts : ft_transfer(a, b, amount)
    /\ UNCHANGED <<registryVars, epochVars, last_generated_random_number, batchVars>>

RegistryCall ==
    /\ \E caller \in Wallets :
        \/ \E addr \in MultiAddrs : register_node(caller, addr) \/ update_node(caller, addr)
        \/ unregister_node(caller)
        \/ \E key \in EdKeys :
            \/ cancel_withdraw_request(caller, key)
            \/ \E amount \in Amounts :
                \/ deposit(caller, amount, key)
                \/ request_withdraw(caller, amount, key)
                \/ withdraw(caller, amount, key)
        \/ \E key \in {"MinimumStake", "EpochDelayForElection"}, value \in ConfigValues :
                update_config(caller, key, value)
    /\ UNCHANGED <<epochVars, last_generated_random_number, batchVars>>

BatchCall ==
    \/ ProcessEpoch
    \/ \E d \in DataRequests : post_data_request(d)
    \/ \E caller \in Wallets, signers \in SUBSET Accounts :
            post_signed_batch(caller, signers, internal_compute_merkle_root)

Next ==
    \/ NextBlock
    \/ /\ TokenCall \/ RegistryCall \/ BatchCall
       /\ UNCHANGED block_height

Spec == Init /\ [][Next]_vars

-----------------------------------------------------------------------------
\* The state of the contract is well formed: maps hold what their types say,
\* and balances and epochs stay within their width.
TypeOK ==
    /\ block_height \in Nat
    /\ TokenTypeOK
    /\ RegistryTypeOK
    /\ EpochTypeOK
    /\ data_request_accumulator \in Seq(DataRequests)
    /\ num_batches \in Nat
    /\ DOMAIN batch_ids_by_height \subseteq Nat
    /\ \A id \in DOMAIN batch_by_id :
            batch_by_id[id] \in [height: Nat, transactions: Seq(DataRequests)]

-----------------------------------------------------------------------------
\* Staking.

\* Each account signs with one key and registers with one bn254 key, as the
\* implicit accounts do that the node and the delegate tool use.
OneWalletPerAccount ==
    \A v, w \in Wallets :
        v.account_id = w.account_id \/ v.ed25519 = w.ed25519 \/ v.bn254 = w.bn254 => v = w

\* handle_node_balance_update and process_epoch move a node between the maps
\* and never leave it in two of them: no node is active and inactive, and no
\* active node waits for activation.
NodesPartitioned ==
    OneWalletPerAccount =>
        /\ DOMAIN active_nodes \cap DOMAIN inactive_nodes = {}
        /\ DOMAIN active_nodes \cap DOMAIN pending_nodes = {}

\* register_node writes both key indices and no call ever removes from them:
\* every node is found under the keys it holds.
NodesIndexed ==
    OneWalletPerAccount =>
        \A a \in NodeAccounts :
            LET node == internal_get_node(a)
                ed == node.ed25519_public_key
                bn == node.bn254_public_key
            IN  /\ ed \in DOMAIN nodes_by_ed25519_public_key
                /\ nodes_by_ed25519_public_key[ed] = a
                /\ bn \in DOMAIN nodes_by_bn254_public_key
                /\ nodes_by_bn254_public_key[bn] = a

BalanceOf(nodes) == [a \in DOMAIN nodes |-> nodes[a].balance]
Staked == SumFunction(BalanceOf(active_nodes)) + SumFunction(BalanceOf(inactive_nodes))

\* deposit burns what it stakes and withdraw mints what it releases: held and
\* staked tokens add up to the total supply, whether or not the build checks
\* for overflow (without the checks the sum is one modulo 2^128).
SupplyConserved ==
    OneWalletPerAccount => (SumFunction(accounts) + Staked) % U128 = total_supply

\* last_total_balance is kept up to date by deposit and withdraw only, yet is
\* the sum of the stakes of all nodes.
TotalBalanceTracked == OneWalletPerAccount => last_total_balance = Staked % U128

\* The amounts recorded for depositors, which bound what they may withdraw,
\* never exceed the stake of the node, and a node that was unregistered owes
\* nothing (for the build with overflow checks).
StakeCoversDeposits ==
    OneWalletPerAccount /\ OverflowChecks =>
        \A key \in EdKeys :
            SumFunction(RestrictDomain(depositors, LAMBDA d : d[2] = key))
                <= IF NodeKnown(key)
                   THEN get_expect_node_by_ed25519_public_key(key).balance
                   ELSE 0

-----------------------------------------------------------------------------
\* The paged views.

\* The pages that can be asked for.
Pages(keys, limit) == {p \in 0..Len(keys) : p * limit <= Len(keys)}
Page(keys, limit, p) == internal_get_nodes(keys, limit, p * limit)

\* Every key is at one place of one page, the latest at the first.
ReadOnce(keys, limit) ==
    \A k \in 1..Len(keys) :
        \E p \in Pages(keys, limit) : \E j \in DOMAIN Page(keys, limit, p) :
            /\ Page(keys, limit, p)[j] = keys[k]
            /\ p * limit + j = Len(keys) + 1 - k
            /\ \A q \in Pages(keys, limit) : \A l \in DOMAIN Page(keys, limit, q) :
                    Page(keys, limit, q)[l] = keys[k] => q = p /\ l = j

\* Page p of a map that holds these keys shows a node.
Shows(keys, limit, p, node) ==
    p \in Pages(keys, limit) /\ \E j \in DOMAIN Page(keys, limit, p) : Page(keys, limit, p)[j] = node

\* Whoever reads one page of nodes after the other reads every node once, the
\* latest first, whatever the size of the pages and the order in which the map
\* holds the nodes.  A node that joins before page n hides none of those that
\* were there: it may only show one of them twice (node_registry.rs:185-209).
PagesCoverNodes ==
    \A nodes \in {active_nodes, inactive_nodes} :
    \A keys \in Orders(nodes), limit \in 1..(Cardinality(Accounts) + 1) :
        /\ ReadOnce(keys, limit)
        /\ \A joins \in Accounts \ DOMAIN nodes, n \in 0..Len(keys), k \in 1..Len(keys) :
               \/ \E p \in 0..(n - 1) : Shows(keys, limit, p, keys[k])
               \/ \E p \in n..(Len(keys) + 1) : Shows(Append(keys, joins), limit, p, keys[k])

-----------------------------------------------------------------------------
\* Epochs and committees.

\* process_epoch publishes a committee once: no later call changes or drops
\* the committee of an epoch.
CommitteesFixed ==
    [][\A e \in DOMAIN committees : e \in DOMAIN committees' /\ committees'[e] = committees[e]]_vars

\* process_epoch never runs ahead of the chain, publishes no committee beyond
\* the lookahead, always publishes the one at the lookahead, and publishes
\* none before the bootstrapping phase ends.
CommitteeHorizon ==
    /\ last_processed_epoch <= get_current_epoch
    /\ \A e \in DOMAIN committees : 0 < e /\ e <= last_processed_epoch + Lookahead
    /\ IF bootstrapping_phase
       THEN committees = EmptyMap /\ last_processed_epoch = 0
       ELSE last_processed_epoch + Lookahead \in DOMAIN committees

\* A committee is drawn from the nodes that are active when it is published,
\* and its members are distinct.
CommitteesDrawnFromActive ==
    [][\A e \in DOMAIN committees' \ DOMAIN committees :
            /\ Range(committees'[e]) \subseteq DOMAIN active_nodes'
            /\ Cardinality(Range(committees'[e])) = CommitteeSize]_vars

-----------------------------------------------------------------------------
\* Batches.

\* The stored batches form one chain: there is a batch for each height up to
\* num_batches and for no other, and its id commits to the batch before it,
\* to its height and to the requests it holds.
BatchChain ==
    /\ DOMAIN batch_ids_by_height = 1..num_batches
    /\ \A h \in 1..num_batches :
        LET id == batch_ids_by_height[h]
            prev == IF h = 1 THEN NoBatchId ELSE batch_ids_by_height[h - 1]
        IN  /\ id \in DOMAIN batch_by_id
            /\ batch_by_id[id].height = h
            /\ id = BatchId(prev, h, merklize(batch_by_id[id].transactions))

\* No request is lost, repeated or reordered on its way from
\* post_data_request into a batch, and no batch changes after it was posted.
SealedBatches == [h \in 1..num_batches |-> batch_by_id[batch_ids_by_height[h]].transactions]
Ledger == INSTANCE RequestLedger
            WITH waiting <- data_request_accumulator, sealed <- SealedBatches
RequestsSealedOnce == Ledger!Spec

-----------------------------------------------------------------------------
\* What a comment of the repository says, and the code does not do.

\* lib.rs calls pending_nodes a "sub-set of inactive nodes that are waiting to
\* be activated"; unregister_node leaves the entry behind.
PendingAreInactive == DOMAIN pending_nodes \subseteq DOMAIN inactive_nodes
=============================================================================
