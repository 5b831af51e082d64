---------------------------- MODULE NodeRegistry ----------------------------
(***************************************************************************)
(* The node registry of the main-chain contract (node_registry.rs) and the *)
(* DAO-controlled configuration it reads (dao.rs): who runs a node, how    *)
(* much is staked on it and by whom, and the delayed withdrawal of stake.  *)
(***************************************************************************)
EXTENDS Token, Sequences

CONSTANTS
    Wallets,        \* callers: an account, the ed25519 key it signs with and
                    \* the bn254 key it can sign its registration with
    EdKeys, BnKeys, \* public keys
    MultiAddrs,     \* the addresses nodes announce
    Amounts,        \* amounts callers ask to move
    ConfigValues,   \* values the DAO gives to a configuration key
    MinimumStake,   \* INIT_MINIMUM_STAKE
    ElectionDelay,  \* INIT_EPOCH_DELAY_FOR_ELECTION
    WithdrawDelay,  \* config.withdraw_delay, which no call changes
    BlocksPerSlot,  \* NEAR_BLOCKS_PER_SEDA_SLOT
    SlotsPerEpoch   \* SLOTS_PER_EPOCH

ASSUME RegistryAssumption ==
    /\ Wallets \subseteq [account_id: Accounts, ed25519: EdKeys, bn254: BnKeys]
    /\ Amounts \subseteq Balances
    /\ ConfigValues \subseteq Balances
    /\ MinimumStake \in Balances
    /\ ElectionDelay \in 0..(U64 - 1)
    /\ WithdrawDelay \in 0..(U64 - 1)
    /\ BlocksPerSlot \in Nat \ {0}
    /\ SlotsPerEpoch \in Nat \ {0}

VARIABLES
    block_height,
    minimum_stake, epoch_delay_for_election,     \* config
    active_nodes, inactive_nodes,                \* account -> Node
    pending_nodes,                               \* account -> epoch of activation
    nodes_by_ed25519_public_key,                 \* key -> account
    nodes_by_bn254_public_key,                   \* key -> account
    depositors,                                  \* <<depositor, node key>> -> amount
    withdraw_requests,                           \* <<node key, depositor>> -> request
    last_total_balance

configVars == <<minimum_stake, epoch_delay_for_election>>
nodeVars == <<active_nodes, inactive_nodes, pending_nodes>>
indexVars == <<nodes_by_ed25519_public_key, nodes_by_bn254_public_key>>
stakeVars == <<depositors, last_total_balance>>
registryVars == <<configVars, nodeVars, indexVars, stakeVars, withdraw_requests>>

Epochs == 0..(U64 - 1)
Node == [multi_addr: MultiAddrs, balance: Balances,
         ed25519_public_key: EdKeys, bn254_public_key: BnKeys]
WithBalance(node, balance) == [node EXCEPT !.balance = balance]
WithMultiAddr(node, multi_addr) == [node EXCEPT !.multi_addr = multi_addr]
WithdrawRequest == [amount: Balances, epoch: Epochs]

get_current_slot == block_height \div BlocksPerSlot
get_current_epoch == block_height \div (BlocksPerSlot * SlotsPerEpoch)

-----------------------------------------------------------------------------
NodeAccounts == DOMAIN active_nodes \cup DOMAIN inactive_nodes

internal_get_node(account_id) ==
    IF account_id \in DOMAIN active_nodes
    THEN active_nodes[account_id]
    ELSE inactive_nodes[account_id]

\* The lookup by key panics when the key or the node it names is unknown.
NodeKnown(key) ==
    /\ key \in DOMAIN nodes_by_ed25519_public_key
    /\ nodes_by_ed25519_public_key[key] \in NodeAccounts

get_expect_node_by_ed25519_public_key(key) ==
    internal_get_node(nodes_by_ed25519_public_key[key])

\* Mutant: a node that falls below the minimum stake stays among the active.
KeepsActiveBelowStake(account_id, node) ==
    LET staked == node.balance >= minimum_stake
        active == account_id \in DOMAIN active_nodes
        eligible == get_current_epoch + epoch_delay_for_election
    IN  /\ active_nodes' = IF staked /\ active THEN insert(active_nodes, account_id, node)
                           ELSE active_nodes
        /\ inactive_nodes' = IF staked /\ active THEN inactive_nodes
                             ELSE insert(inactive_nodes, account_id, node)
        /\ pending_nodes' = IF staked /\ ~active
                            THEN insert(pending_nodes, account_id, eligible)
                            ELSE pending_nodes

\* Mutant: a node that leaves the active nodes is filed with its old balance.
FilesStoredNode(account_id, node) ==
    IF account_id \in DOMAIN active_nodes
    THEN /\ active_nodes' = remove(active_nodes, account_id)
         /\ inactive_nodes' = insert(inactive_nodes, account_id, active_nodes[account_id])
         /\ UNCHANGED pending_nodes
    ELSE /\ inactive_nodes' = insert(inactive_nodes, account_id, node)
         /\ pending_nodes' = insert(pending_nodes, account_id,
                                    get_current_epoch + epoch_delay_for_election)
         /\ UNCHANGED active_nodes

\* Files a node under active or inactive after its balance changed.  A node
\* that has the minimum stake and is not active gets a (new) activation
\* epoch; the entry of a node that falls below it stays in pending_nodes.
handle_node_balance_update(account_id, node) ==
    LET staked == node.balance >= minimum_stake
        active == account_id \in DOMAIN active_nodes
        eligible == get_current_epoch + epoch_delay_for_election
    IN  /\ active_nodes' = IF ~active THEN active_nodes
                           ELSE IF staked THEN insert(active_nodes, account_id, node)
                           ELSE remove(active_nodes, account_id)
        /\ inactive_nodes' = IF staked /\ active THEN inactive_nodes
                             ELSE insert(inactive_nodes, account_id, node)
        /\ staked /\ ~active => NoPanic(eligible, U64)
        /\ pending_nodes' = IF staked /\ ~active
                            THEN insert(pending_nodes, account_id, Wrapped(eligible, U64))
                            ELSE pending_nodes

-----------------------------------------------------------------------------
\* Mutant: the uniqueness of the bn254 key is neither checked nor recorded.
RegisterByEdKeyOnly(caller, multi_addr) ==
    /\ caller.ed25519 \notin DOMAIN nodes_by_ed25519_public_key
    /\ inactive_nodes' = insert(inactive_nodes, caller.account_id,
                                [multi_addr |-> multi_addr, balance |-> 0,
                                 ed25519_public_key |-> caller.ed25519,
                                 bn254_public_key |-> caller.bn254])
    /\ nodes_by_ed25519_public_key' =
            insert(nodes_by_ed25519_public_key, caller.ed25519, caller.account_id)
    /\ UNCHANGED <<tokenVars, configVars, active_nodes, pending_nodes, stakeVars,
                   nodes_by_bn254_public_key, withdraw_requests>>

register_node(caller, multi_addr) ==
    /\ caller.bn254 \notin DOMAIN nodes_by_bn254_public_key
    /\ caller.ed25519 \notin DOMAIN nodes_by_ed25519_public_key
    /\ inactive_nodes' = insert(inactive_nodes, caller.account_id,
                                [multi_addr |-> multi_addr, balance |-> 0,
                                 ed25519_public_key |-> caller.ed25519,
                                 bn254_public_key |-> caller.bn254])
    /\ nodes_by_bn254_public_key' =
            insert(nodes_by_bn254_public_key, caller.bn254, caller.account_id)
    /\ nodes_by_ed25519_public_key' =
            insert(nodes_by_ed25519_public_key, caller.ed25519, caller.account_id)
    /\ UNCHANGED <<tokenVars, configVars, active_nodes, pending_nodes, stakeVars,
                   withdraw_requests>>

\* Mutant: a node is removed whatever is staked on it.
UnregisterWithStake(caller) ==
    /\ NodeKnown(caller.ed25519)
    /\ inactive_nodes' = remove(inactive_nodes, nodes_by_ed25519_public_key[caller.ed25519])
    /\ UNCHANGED <<tokenVars, configVars, active_nodes, pending_nodes, indexVars, stakeVars,
                   withdraw_requests>>

\* Only inactive_nodes forgets the node: its keys stay indexed, and so does
\* an activation that is still pending.
unregister_node(caller) ==
    /\ NodeKnown(caller.ed25519)
    /\ get_expect_node_by_ed25519_public_key(caller.ed25519).balance = 0
    /\ inactive_nodes' = remove(inactive_nodes, nodes_by_ed25519_public_key[caller.ed25519])
    /\ UNCHANGED <<tokenVars, configVars, active_nodes, pending_nodes, indexVars, stakeVars,
                   withdraw_requests>>

\* UpdateNode::SetSocketAddress, the only update command.
update_node(caller, new_multi_addr) ==
    LET account_id == caller.account_id
        node == WithMultiAddr(internal_get_node(account_id), new_multi_addr)
    IN  /\ account_id \in NodeAccounts
        /\ IF account_id \in DOMAIN active_nodes
           THEN /\ active_nodes' = insert(active_nodes, account_id, node)
                /\ UNCHANGED inactive_nodes
           ELSE /\ inactive_nodes' = insert(inactive_nodes, account_id, node)
                /\ UNCHANGED active_nodes
        /\ UNCHANGED <<tokenVars, configVars, pending_nodes, indexVars, stakeVars,
                       withdraw_requests>>

\* A second deposit of the same depositor replaces the recorded amount.
deposit(caller, amount, key) ==
    LET depositor == <<caller.account_id, key>>
        node == get_expect_node_by_ed25519_public_key(key)
    IN  /\ burn(caller.account_id, amount)
        /\ NodeKnown(key)
        /\ NoPanic(node.balance + amount, U128)
        /\ handle_node_balance_update(nodes_by_ed25519_public_key[key],
                WithBalance(node, Wrapped(node.balance + amount, U128)))
        /\ depositors' = insert(depositors, depositor, amount)
        /\ NoPanic(last_total_balance + amount, U128)
        /\ last_total_balance' = Wrapped(last_total_balance + amount, U128)
        /\ UNCHANGED <<configVars, indexVars, withdraw_requests>>

\* Mutant: the amount is compared with the node's balance only.
WithdrawableFromNode(caller, amount, key) ==
    /\ amount > 0
    /\ NodeKnown(key)
    /\ get_expect_node_by_ed25519_public_key(key).balance >= amount
    /\ <<caller.account_id, key>> \in DOMAIN depositors

\* What request_withdraw and withdraw both ask of the amount.
Withdrawable(caller, amount, key) ==
    LET depositor == <<caller.account_id, key>>
    IN  /\ amount > 0
        /\ NodeKnown(key)
        /\ get_expect_node_by_ed25519_public_key(key).balance >= amount
        /\ depositor \in DOMAIN depositors
        /\ depositors[depositor] >= amount

request_withdraw(caller, amount, key) ==
    LET request == <<key, caller.account_id>>
        epoch == get_current_epoch + WithdrawDelay
    IN  /\ Withdrawable(caller, amount, key)
        /\ request \notin DOMAIN withdraw_requests
        /\ NoPanic(epoch, U64)
        /\ withdraw_requests' = insert(withdraw_requests, request,
                                       [amount |-> amount, epoch |-> Wrapped(epoch, U64)])
        /\ UNCHANGED <<tokenVars, configVars, nodeVars, indexVars, stakeVars>>

cancel_withdraw_request(caller, key) ==
    /\ key \in DOMAIN nodes_by_ed25519_public_key
    /\ withdraw_requests' = remove(withdraw_requests, <<key, caller.account_id>>)
    /\ UNCHANGED <<tokenVars, configVars, nodeVars, indexVars, stakeVars>>

\* The amount paid out is not compared with the amount of the request.
withdraw(caller, amount, key) ==
    LET request == <<key, caller.account_id>>
        depositor == <<caller.account_id, key>>
        node == get_expect_node_by_ed25519_public_key(key)
    IN  /\ Withdrawable(caller, amount, key)
        /\ request \in DOMAIN withdraw_requests
        /\ withdraw_requests[request].epoch <= get_current_epoch
        /\ mint(caller.account_id, amount)
        /\ handle_node_balance_update(nodes_by_ed25519_public_key[key],
                WithBalance(node, node.balance - amount))
        /\ depositors' = insert(depositors, depositor, depositors[depositor] - amount)
        /\ NoPanic(last_total_balance - amount, U128)
        /\ last_total_balance' = Wrapped(last_total_balance - amount, U128)
        /\ withdraw_requests' = remove(withdraw_requests, request)
        /\ UNCHANGED <<configVars, indexVars>>

\* update_config: the DAO only; the delay is truncated to 64 bits.
update_config(caller, key, value) ==
    /\ caller.account_id = dao
    /\ \/ key = "MinimumStake" /\ minimum_stake' = value /\ UNCHANGED epoch_delay_for_election
       \/ key = "EpochDelayForElection" /\ epoch_delay_for_election' = value % U64
          /\ UNCHANGED minimum_stake
    /\ UNCHANGED <<tokenVars, nodeVars, indexVars, stakeVars, withdraw_requests>>

-----------------------------------------------------------------------------
\* Mutant: the loop ends before the first node of the map.
GetNodesButFirst(keys, limit, offset) ==
    LET index == Len(keys) - offset
        count == IF limit < index THEN limit ELSE index - 1
    IN  [k \in 1..count |-> keys[index - k + 1]]

\* A page of get_active_nodes or get_inactive_nodes, from the keys in the order
\* in which the map holds them: it counts back from the end, so that the first
\* node added is the last one read.  The offset is not above the number of keys.
internal_get_nodes(keys, limit, offset) ==
    LET index == Len(keys) - offset
        count == IF limit < index THEN limit ELSE index
    IN  [k \in 1..count |-> keys[index - k + 1]]

-----------------------------------------------------------------------------
RegistryInit ==
    /\ minimum_stake = MinimumStake
    /\ epoch_delay_for_election = ElectionDelay
    /\ active_nodes = EmptyMap
    /\ inactive_nodes = EmptyMap
    /\ pending_nodes = EmptyMap
    /\ nodes_by_ed25519_public_key = EmptyMap
    /\ nodes_by_bn254_public_key = EmptyMap
    /\ depositors = EmptyMap
    /\ withdraw_requests = EmptyMap
    /\ last_total_balance = 0

RegistryTypeOK ==
    /\ minimum_stake \in Balances
    /\ epoch_delay_for_election \in Epochs
    /\ IsMap(active_nodes, Accounts, Node)
    /\ IsMap(inactive_nodes, Accounts, Node)
    /\ IsMap(pending_nodes, Accounts, Epochs)
    /\ IsMap(nodes_by_ed25519_public_key, EdKeys, Accounts)
    /\ IsMap(nodes_by_bn254_public_key, BnKeys, Accounts)
    /\ IsMap(depositors, Accounts \X EdKeys, Balances)
    /\ IsMap(withdraw_requests, EdKeys \X Accounts, WithdrawRequest)
    /\ last_total_balance \in Balances
=============================================================================
