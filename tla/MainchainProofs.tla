-------------------------- MODULE MainchainProofs --------------------------
(***************************************************************************)
(* Proofs about the main-chain contract, for all values of its constants.  *)
(*                                                                         *)
(* The sums of the model fold over a set in whatever order CHOOSE takes    *)
(* its elements.  They are shown here to be the number of units that a map *)
(* holds: a fact about the cardinality of a set, which does not depend on  *)
(* the order.                                                              *)
(***************************************************************************)
EXTENDS Mainchain, TLAPS

-----------------------------------------------------------------------------
\* The maps of the contract.

\* insert and remove keep a map within its keys and values.
LEMMA InsertIsMap ==
    ASSUME NEW K, NEW V, NEW map, IsMap(map, K, V), NEW k \in K, NEW v \in V
    PROVE  IsMap(insert(map, k, v), K, V)
BY DEF IsMap, insert

LEMMA RemoveIsMap ==
    ASSUME NEW K, NEW V, NEW map, IsMap(map, K, V), NEW k
    PROVE  IsMap(remove(map, k), K, V)
BY DEF IsMap, remove, Restrict

LEMMA EmptyIsMap ==
    ASSUME NEW K, NEW V
    PROVE  IsMap(EmptyMap, K, V)
BY DEF IsMap, EmptyMap

\* An unsigned result stays within its width.
LEMMA WrappedInWidth ==
    ASSUME NEW x \in Int, NEW width \in Nat \ {0}
    PROVE  Wrapped(x, width) \in 0..(width - 1)
BY DEF Wrapped

LEMMA BalanceArithmetic ==
    ASSUME NEW x \in Balances, NEW y \in Balances
    PROVE  /\ Wrapped(x + y, U128) \in Balances
           /\ Wrapped(x - y, U128) \in Balances
           /\ x >= y => x - y \in Balances
           /\ x + y < U128 => x + y \in Balances
BY WrappedInWidth, TokenAssumption DEF Balances

LEMMA EpochArithmetic ==
    ASSUME NEW epoch \in Nat, NEW delay \in Epochs
    PROVE  Wrapped(epoch + delay, U64) \in Epochs
BY WrappedInWidth, TokenAssumption DEF Epochs

\* Epochs are natural numbers and never go back.
LEMMA DivMonotone ==
    ASSUME NEW n \in Nat, NEW k \in Nat \ {0}
    PROVE  /\ n \div k \in Nat
           /\ n \div k <= (n + 1) \div k
OBVIOUS

LEMMA MapValue ==
    ASSUME NEW K, NEW V, NEW map, IsMap(map, K, V), NEW k \in DOMAIN map
    PROVE  k \in K /\ map[k] \in V
BY DEF IsMap

-----------------------------------------------------------------------------
\* Type correctness.

\* The epoch and the slot of a block are natural numbers.
LEMMA EpochIsNat ==
    ASSUME block_height \in Nat
    PROVE  get_current_epoch \in Nat /\ get_current_slot \in Nat
<1>1. BlocksPerSlot * SlotsPerEpoch \in Nat \ {0}
    BY RegistryAssumption
<1> QED
    BY <1>1, DivMonotone, RegistryAssumption DEF get_current_epoch, get_current_slot

\* A node with another balance or address is a node.
LEMMA ChangedNode ==
    ASSUME NEW node \in Node
    PROVE  /\ node.balance \in Balances
           /\ \A b \in Balances : WithBalance(node, b) \in Node
           /\ \A addr \in MultiAddrs : WithMultiAddr(node, addr) \in Node
BY DEF Node, WithBalance, WithMultiAddr

\* A node found by account or by key is a node.
LEMMA FoundNode ==
    ASSUME RegistryTypeOK
    PROVE  /\ \A a \in NodeAccounts : a \in Accounts /\ internal_get_node(a) \in Node
           /\ \A key \in EdKeys : NodeKnown(key) =>
                /\ nodes_by_ed25519_public_key[key] \in Accounts
                /\ get_expect_node_by_ed25519_public_key(key) \in Node
<1>1. ASSUME NEW a \in NodeAccounts
      PROVE  a \in Accounts /\ internal_get_node(a) \in Node
    BY <1>1, MapValue DEF RegistryTypeOK, NodeAccounts, internal_get_node, IsMap
<1> QED
    BY <1>1 DEF NodeKnown, get_expect_node_by_ed25519_public_key

\* handle_node_balance_update files a node without leaving the types.
LEMMA BalanceUpdateType ==
    ASSUME RegistryTypeOK, block_height \in Nat, NEW a \in Accounts, NEW node \in Node,
           handle_node_balance_update(a, node)
    PROVE  /\ IsMap(active_nodes', Accounts, Node)
           /\ IsMap(inactive_nodes', Accounts, Node)
           /\ IsMap(pending_nodes', Accounts, Epochs)
<1>1. Wrapped(get_current_epoch + epoch_delay_for_election, U64) \in Epochs
    BY EpochIsNat, EpochArithmetic DEF RegistryTypeOK
<1>2. IsMap(active_nodes', Accounts, Node)
    BY InsertIsMap, RemoveIsMap DEF handle_node_balance_update, RegistryTypeOK
<1>3. IsMap(inactive_nodes', Accounts, Node)
    BY InsertIsMap DEF handle_node_balance_update, RegistryTypeOK
<1>4. IsMap(pending_nodes', Accounts, Epochs)
    BY <1>1, InsertIsMap DEF handle_node_balance_update, RegistryTypeOK
<1> QED
    BY <1>2, <1>3, <1>4

\* mint and burn keep the token's state well typed.
LEMMA MintBurnType ==
    ASSUME TokenTypeOK, NEW a, NEW amount \in Balances, mint(a, amount) \/ burn(a, amount)
    PROVE  TokenTypeOK'
<1>1. a \in DOMAIN accounts /\ a \in Accounts /\ accounts[a] \in Balances
    BY MapValue DEF mint, burn, TokenTypeOK
<1>2. /\ Wrapped(accounts[a] + amount, U128) \in Balances
      /\ Wrapped(accounts[a] - amount, U128) \in Balances
    BY <1>1, BalanceArithmetic
<1> QED
    BY <1>1, <1>2, InsertIsMap DEF mint, burn, TokenTypeOK

LEMMA TokenCallType ==
    ASSUME TypeOK, TokenCall, UNCHANGED block_height
    PROVE  TypeOK'
<1>1. TokenTypeOK'
  <2>1. ASSUME NEW a \in Accounts, storage_deposit(a)
        PROVE  TokenTypeOK'
    BY <2>1, InsertIsMap, TokenAssumption DEF storage_deposit, TypeOK, TokenTypeOK, Balances
  <2>2. ASSUME NEW a \in Accounts, storage_unregister(a)
        PROVE  TokenTypeOK'
    <3>1. total_supply' \in Balances
        BY <2>2, MapValue, BalanceArithmetic DEF storage_unregister, TypeOK, TokenTypeOK
    <3> QED
        BY <2>2, <3>1, RemoveIsMap DEF storage_unregister, TypeOK, TokenTypeOK
  <2>3. ASSUME NEW a \in Accounts, NEW b \in Accounts, NEW amount \in Amounts,
               ft_transfer(a, b, amount)
        PROVE  TokenTypeOK'
    <3>1. /\ {a, b} \subseteq DOMAIN accounts
          /\ accounts[a] \in Balances /\ accounts[b] \in Balances /\ amount \in Balances
        BY <2>3, MapValue, RegistryAssumption DEF ft_transfer, TypeOK, TokenTypeOK
    <3>2. accounts[a] - amount \in Balances /\ accounts[b] + amount \in Balances
        BY <2>3, <3>1, BalanceArithmetic, Zenon DEF ft_transfer, Balances
    <3> QED
        BY <2>3, <3>1, <3>2 DEF ft_transfer, TypeOK, TokenTypeOK, IsMap
  <2> QED
    BY <2>1, <2>2, <2>3 DEF TokenCall
<1> QED
    BY <1>1 DEF TokenCall, TypeOK, RegistryTypeOK, EpochTypeOK, registryVars, configVars,
        nodeVars, indexVars, stakeVars, epochVars, batchVars

LEMMA RegistrationType ==
    ASSUME TypeOK, NEW caller \in Wallets, NEW addr \in MultiAddrs,
           register_node(caller, addr) \/ update_node(caller, addr) \/ unregister_node(caller)
    PROVE  TokenTypeOK' /\ RegistryTypeOK'
<1>1. /\ caller.account_id \in Accounts
      /\ caller.ed25519 \in EdKeys
      /\ caller.bn254 \in BnKeys
    BY RegistryAssumption
<1> USE DEF TypeOK, tokenVars, configVars, nodeVars, indexVars, stakeVars
<1>2. CASE register_node(caller, addr)
  <2>1. [multi_addr |-> addr, balance |-> 0, ed25519_public_key |-> caller.ed25519,
         bn254_public_key |-> caller.bn254] \in Node
    BY <1>1, TokenAssumption DEF Node, Balances
  <2> QED
    BY <1>1, <1>2, <2>1, InsertIsMap DEF register_node, TokenTypeOK, RegistryTypeOK
<1>3. CASE update_node(caller, addr)
  <2>1. WithMultiAddr(internal_get_node(caller.account_id), addr) \in Node
    BY <1>3, FoundNode, ChangedNode DEF update_node
  <2> QED
    BY <1>1, <1>3, <2>1, InsertIsMap DEF update_node, TokenTypeOK, RegistryTypeOK
<1>4. CASE unregister_node(caller)
    BY <1>4, RemoveIsMap DEF unregister_node, TokenTypeOK, RegistryTypeOK
<1> QED
    BY <1>2, <1>3, <1>4

LEMMA StakingType ==
    ASSUME TypeOK, UNCHANGED block_height, NEW caller \in Wallets, NEW key \in EdKeys,
           NEW amount \in Amounts,
           \/ deposit(caller, amount, key)
           \/ request_withdraw(caller, amount, key)
           \/ cancel_withdraw_request(caller, key)
           \/ withdraw(caller, amount, key)
    PROVE  TokenTypeOK' /\ RegistryTypeOK'
<1>1. /\ caller.account_id \in Accounts
      /\ amount \in Balances
      /\ <<caller.account_id, key>> \in Accounts \X EdKeys
      /\ <<key, caller.account_id>> \in EdKeys \X Accounts
    BY RegistryAssumption, Zenon
<1> DEFINE node == get_expect_node_by_ed25519_public_key(key)
           owner == nodes_by_ed25519_public_key[key]
           depositor == <<caller.account_id, key>>
<1> USE DEF TypeOK, tokenVars, configVars, nodeVars, indexVars, stakeVars
<1>2. CASE deposit(caller, amount, key)
  <2>1. owner \in Accounts /\ node \in Node
    BY <1>2, FoundNode, Zenon DEF deposit
  <2>2. WithBalance(node, Wrapped(node.balance + amount, U128)) \in Node
    BY <1>1, <2>1, ChangedNode, BalanceArithmetic
  <2>3. /\ IsMap(active_nodes', Accounts, Node)
        /\ IsMap(inactive_nodes', Accounts, Node)
        /\ IsMap(pending_nodes', Accounts, Epochs)
    BY <1>2, <2>1, <2>2, BalanceUpdateType, Zenon DEF deposit
  <2>4. last_total_balance' \in Balances
    BY <1>1, <1>2, BalanceArithmetic, Zenon DEF deposit, RegistryTypeOK
  <2>5. TokenTypeOK'
    BY <1>1, <1>2, MintBurnType, Zenon DEF deposit
  <2>6. IsMap(depositors', Accounts \X EdKeys, Balances)
    BY <1>1, <1>2, InsertIsMap, Zenon DEF deposit, RegistryTypeOK
  <2> QED
    BY <1>2, <2>3, <2>4, <2>5, <2>6 DEF deposit, RegistryTypeOK
<1>3. CASE request_withdraw(caller, amount, key)
  <2>1. Wrapped(get_current_epoch + WithdrawDelay, U64) \in Epochs
    BY EpochIsNat, EpochArithmetic, RegistryAssumption, Zenon DEF Epochs
  <2>2. IsMap(withdraw_requests', EdKeys \X Accounts, WithdrawRequest)
    BY <1>1, <1>3, <2>1, InsertIsMap, Zenon DEF request_withdraw, RegistryTypeOK, WithdrawRequest
  <2> QED
    BY <1>3, <2>2 DEF request_withdraw, TokenTypeOK, RegistryTypeOK
<1>4. CASE cancel_withdraw_request(caller, key)
    BY <1>4, RemoveIsMap DEF cancel_withdraw_request, TokenTypeOK, RegistryTypeOK
<1>5. CASE withdraw(caller, amount, key)
  <2>1. owner \in Accounts /\ node \in Node /\ node.balance >= amount
    BY <1>5, FoundNode, Zenon DEF withdraw, Withdrawable
  <2>2. WithBalance(node, node.balance - amount) \in Node
    BY <1>1, <2>1, ChangedNode, BalanceArithmetic
  <2>3. /\ IsMap(active_nodes', Accounts, Node)
        /\ IsMap(inactive_nodes', Accounts, Node)
        /\ IsMap(pending_nodes', Accounts, Epochs)
    BY <1>5, <2>1, <2>2, BalanceUpdateType, Zenon DEF withdraw
  <2>4. last_total_balance' \in Balances
    BY <1>1, <1>5, BalanceArithmetic, Zenon DEF withdraw, RegistryTypeOK
  <2>5. TokenTypeOK'
    BY <1>1, <1>5, MintBurnType DEF withdraw
  <2>6. depositors[depositor] - amount \in Balances
    <3>1. depositor \in DOMAIN depositors /\ depositors[depositor] >= amount
        BY <1>5, Zenon DEF withdraw, Withdrawable
    <3>2. IsMap(depositors, Accounts \X EdKeys, Balances)
        BY DEF RegistryTypeOK
    <3>3. depositors[depositor] \in Balances
        BY <3>1, <3>2 DEF IsMap
    <3> QED
        BY <1>1, <3>1, <3>3, BalanceArithmetic, Zenon
  <2>7. IsMap(depositors', Accounts \X EdKeys, Balances)
    BY <1>1, <1>5, <2>6, InsertIsMap, Zenon DEF withdraw, RegistryTypeOK
  <2>8. IsMap(withdraw_requests', EdKeys \X Accounts, WithdrawRequest)
    BY <1>5, RemoveIsMap DEF withdraw, RegistryTypeOK
  <2> QED
    BY <1>5, <2>3, <2>4, <2>5, <2>7, <2>8, Zenon DEF withdraw, RegistryTypeOK
<1> QED
    BY <1>2, <1>3, <1>4, <1>5

LEMMA RegistryCallType ==
    ASSUME TypeOK, RegistryCall, UNCHANGED block_height
    PROVE  TypeOK'
<1>1. TokenTypeOK' /\ RegistryTypeOK'
  <2>1. ASSUME NEW caller \in Wallets, NEW key, NEW value \in ConfigValues,
               update_config(caller, key, value)
        PROVE  TokenTypeOK' /\ RegistryTypeOK'
    <3>1. value \in Balances /\ value % U64 \in Epochs
        BY RegistryAssumption, TokenAssumption DEF Epochs, Balances
    <3> QED
        BY <2>1, <3>1 DEF update_config, TypeOK, TokenTypeOK, RegistryTypeOK, tokenVars,
            nodeVars, indexVars, stakeVars
  <2>2. ASSUME NEW caller \in Wallets, unregister_node(caller)
        PROVE  TokenTypeOK' /\ RegistryTypeOK'
    BY <2>2, RemoveIsMap, Zenon DEF unregister_node, TypeOK, TokenTypeOK, RegistryTypeOK, tokenVars,
        configVars, indexVars, stakeVars
  <2>3. ASSUME NEW caller \in Wallets, NEW key \in EdKeys, cancel_withdraw_request(caller, key)
        PROVE  TokenTypeOK' /\ RegistryTypeOK'
    BY <2>3, RemoveIsMap DEF cancel_withdraw_request, TypeOK, TokenTypeOK, RegistryTypeOK,
        tokenVars, configVars, nodeVars, indexVars, stakeVars
  <2> QED
    BY <2>1, <2>2, <2>3, RegistrationType, StakingType DEF RegistryCall
<1> QED
    BY <1>1, Zenon DEF RegistryCall, TypeOK, EpochTypeOK, epochVars, batchVars

\* process_epoch activates nodes and publishes committees of the right types.
\* Every seat of a committee goes to one of the nodes it is drawn from.
LEMMA SeatsGoToNodes ==
    ASSUME NEW random, NEW nodes, NEW validators \in Orders(nodes),
           NEW c \in select_committee(random, validators)
    PROVE  c \in [1..CommitteeSize -> DOMAIN nodes]
<1>1. PICK run \in Draws(random, validators) :
            c = [m \in 1..CommitteeSize |-> validators[run[m - 1].index + 1]]
    BY Zenon DEF select_committee
<1>2. /\ DOMAIN validators \subseteq Int
      /\ \A k \in DOMAIN validators : validators[k] \in DOMAIN nodes
    BY DEF Orders, Injection
<1>3. ASSUME NEW m \in 1..CommitteeSize
      PROVE  run[m - 1].index + 1 \in DOMAIN validators
  <2>1. m - 1 \in Rounds
    BY CommitteeAssumption DEF Rounds
  <2>2. run[m - 1].index \in Indices(validators)
    BY <1>1, <2>1 DEF Draws
  <2> QED
    BY <1>2, <2>2 DEF Indices
<1> QED
    BY <1>1, <1>2, <1>3

LEMMA ProcessEpochType ==
    ASSUME TypeOK, process_epoch, last_generated_random_number' \in RandomNumbers
    PROVE  /\ IsMap(active_nodes', Accounts, Node)
           /\ IsMap(inactive_nodes', Accounts, Node)
           /\ IsMap(pending_nodes', Accounts, Epochs)
           /\ EpochTypeOK'
<1>1. get_current_epoch \in Nat
    BY EpochIsNat, Zenon DEF TypeOK
<1>2. CASE UNCHANGED <<nodeVars, epochVars>>
    BY <1>2 DEF TypeOK, RegistryTypeOK, EpochTypeOK, nodeVars, epochVars
<1>3. ASSUME activate_eligible
      PROVE  /\ IsMap(active_nodes', Accounts, Node)
             /\ IsMap(inactive_nodes', Accounts, Node)
             /\ IsMap(pending_nodes', Accounts, Epochs)
    BY <1>3 DEF activate_eligible, TypeOK, RegistryTypeOK, IsMap, Restrict, Eligible
<1>4. CASE activate_eligible /\ UNCHANGED epochVars
    BY <1>3, <1>4 DEF TypeOK, EpochTypeOK, epochVars
<1>5. CASE /\ activate_eligible
           /\ bootstrapping_phase' = FALSE
           /\ publish_committees
           /\ last_processed_epoch' = get_current_epoch
  <2> DEFINE epoch == get_current_epoch
             filled == IF bootstrapping_phase THEN epoch..(epoch + Lookahead)
                       ELSE {epoch + Lookahead}
  <2>1. PICK c \in Selected :
                committees' = [e \in DOMAIN committees \cup filled |->
                                    IF e \in filled THEN c ELSE committees[e]]
    BY <1>5 DEF publish_committees
  <2>2. c \in Committee
    BY <1>3, <1>5, SeatsGoToNodes DEF Selected, Committee, IsMap
  <2>3. filled \subseteq Nat
    BY <1>1 DEF Lookahead
  <2>4. IsMap(committees', Nat, Committee)
    BY <2>1, <2>2, <2>3 DEF TypeOK, EpochTypeOK, IsMap
  <2> QED
    BY <1>1, <1>3, <1>5, <2>4, Zenon DEF TypeOK, EpochTypeOK
<1> QED
    BY <1>2, <1>4, <1>5, Zenon DEF process_epoch

LEMMA BatchCallType ==
    ASSUME TypeOK, BatchCall, UNCHANGED block_height
    PROVE  TypeOK'
<1> USE DEF tokenVars, configVars, nodeVars, indexVars, stakeVars
<1>1. CASE ProcessEpoch
  <2>1. /\ IsMap(active_nodes', Accounts, Node)
        /\ IsMap(inactive_nodes', Accounts, Node)
        /\ IsMap(pending_nodes', Accounts, Epochs)
        /\ EpochTypeOK'
    BY <1>1, ProcessEpochType, Zenon DEF ProcessEpoch, TypeOK, EpochTypeOK
  <2> QED
    BY <1>1, <2>1 DEF ProcessEpoch, TypeOK, TokenTypeOK, RegistryTypeOK, batchVars
<1>2. ASSUME NEW d \in DataRequests, post_data_request(d)
      PROVE  TypeOK'
  <2>1. data_request_accumulator' \in Seq(DataRequests)
    <3>1. data_request_accumulator \in Seq(DataRequests)
        BY Zenon DEF TypeOK
    <3>2. data_request_accumulator' = Append(data_request_accumulator, d)
        BY <1>2, Zenon DEF post_data_request
    <3> QED
        BY <3>1, <3>2
  <2> QED
    BY <1>2, <2>1 DEF post_data_request, TypeOK, TokenTypeOK, RegistryTypeOK, EpochTypeOK,
        registryVars, epochVars
<1>3. ASSUME NEW caller \in Wallets, NEW signers, NEW root, post_signed_batch(caller, signers, root)
      PROVE  TypeOK'
  <2>1. /\ IsMap(active_nodes', Accounts, Node)
        /\ IsMap(inactive_nodes', Accounts, Node)
        /\ IsMap(pending_nodes', Accounts, Epochs)
        /\ EpochTypeOK'
    BY <1>3, ProcessEpochType DEF post_signed_batch
  <2>2. TokenTypeOK' /\ RegistryTypeOK'
    BY <1>3, <2>1 DEF post_signed_batch, TypeOK, TokenTypeOK, RegistryTypeOK
  <2>3. store_batch
    BY <1>3, Zenon DEF post_signed_batch
  <2>4. /\ num_batches' \in Nat
        /\ DOMAIN batch_ids_by_height' \subseteq Nat
        /\ data_request_accumulator' \in Seq(DataRequests)
    <3>1. /\ num_batches \in Nat
          /\ num_batches' = num_batches + 1
          /\ DOMAIN batch_ids_by_height \subseteq Nat
          /\ DOMAIN batch_ids_by_height' = DOMAIN batch_ids_by_height \cup {num_batches + 1}
          /\ data_request_accumulator' = <<>>
        BY <2>3, SMTT(20) DEF store_batch, insert, TypeOK
    <3>2. num_batches + 1 \in Nat
        BY <3>1
    <3>3. <<>> \in Seq(DataRequests)
        OBVIOUS
    <3> QED
        BY <3>1, <3>2, <3>3, Zenon
  <2>5. ASSUME NEW id \in DOMAIN batch_by_id'
        PROVE  batch_by_id'[id] \in [height: Nat, transactions: Seq(DataRequests)]
    BY <2>3 DEF store_batch, insert, TypeOK
  <2> QED
    BY <2>1, <2>2, <2>4, <2>5 DEF TypeOK
<1> QED
    BY <1>1, <1>2, <1>3 DEF BatchCall

\* The state of the contract always has its types: no transaction takes a
\* balance, an epoch or a map out of its range, with or without the overflow
\* checks of the build.
THEOREM TypeCorrect == Spec => []TypeOK
<1>1. Init => TypeOK
  <2> SUFFICES ASSUME Init PROVE TypeOK
    OBVIOUS
  <2>1. TokenTypeOK
    BY EmptyIsMap, InsertIsMap, TokenAssumption, Zenon DEF Init, TokenInit, TokenTypeOK, Balances
  <2>2. RegistryTypeOK
    BY EmptyIsMap, TokenAssumption, RegistryAssumption
    DEF Init, RegistryInit, RegistryTypeOK, Balances, Epochs
  <2>3. EpochTypeOK
    BY EmptyIsMap, CommitteeAssumption DEF Init, EpochInit, EpochTypeOK
  <2> QED
    BY <2>1, <2>2, <2>3 DEF Init, TypeOK, EmptyMap
<1>2. TypeOK /\ [Next]_vars => TypeOK'
  <2> SUFFICES ASSUME TypeOK, [Next]_vars PROVE TypeOK'
    BY Zenon
  <2>1. CASE NextBlock
    BY <2>1, SMTT(20) DEF NextBlock, TypeOK, TokenTypeOK, RegistryTypeOK, EpochTypeOK, tokenVars,
        registryVars, configVars, nodeVars, indexVars, stakeVars, epochVars, batchVars
  <2>2. CASE UNCHANGED vars
    BY <2>2 DEF vars, TypeOK, TokenTypeOK, RegistryTypeOK, EpochTypeOK, tokenVars,
        registryVars, configVars, nodeVars, indexVars, stakeVars, epochVars, batchVars
  <2> QED
    BY <2>1, <2>2, TokenCallType, RegistryCallType, BatchCallType DEF Next
<1> QED
    BY <1>1, <1>2, PTL DEF Spec

-----------------------------------------------------------------------------
\* Committees.

\* Only process_epoch changes the epoch variables, and only NextBlock the height.
LEMMA WhoChangesEpochs ==
    ASSUME [Next]_vars
    PROVE  \/ UNCHANGED epochVars /\ block_height' \in {block_height, block_height + 1}
           \/ process_epoch /\ UNCHANGED block_height
BY Zenon DEF Next, NextBlock, TokenCall, RegistryCall, BatchCall, ProcessEpoch, post_data_request,
    post_signed_batch, vars

\* What publishing does: it adds epochs that had no committee, the one at the
\* lookahead among them and none beyond, and draws them from the active nodes.
LEMMA PublishAddsOnly ==
    ASSUME TypeOK, CommitteeHorizon, get_current_epoch > last_processed_epoch,
           publish_committees
    PROVE  /\ \A e \in DOMAIN committees :
                    e \in DOMAIN committees' /\ committees'[e] = committees[e]
           /\ \A e \in DOMAIN committees' : 0 < e /\ e <= get_current_epoch + Lookahead
           /\ get_current_epoch + Lookahead \in DOMAIN committees'
           /\ \A e \in DOMAIN committees' \ DOMAIN committees :
                    committees'[e] \in Selected
<1> DEFINE epoch == get_current_epoch
           filled == IF bootstrapping_phase THEN epoch..(epoch + Lookahead)
                     ELSE {epoch + Lookahead}
<1>1. epoch \in Nat /\ last_processed_epoch \in Nat /\ DOMAIN committees \subseteq Nat
    BY EpochIsNat DEF TypeOK, EpochTypeOK, IsMap
<1>2. PICK c \in Selected :
            committees' = [e \in DOMAIN committees \cup filled |->
                                IF e \in filled THEN c ELSE committees[e]]
    BY DEF publish_committees
<1>3. filled \cap DOMAIN committees = {}
    BY <1>1 DEF CommitteeHorizon, EmptyMap, Lookahead
<1>4. /\ \A e \in filled : 0 < e /\ e <= epoch + Lookahead
      /\ epoch + Lookahead \in filled
    BY <1>1 DEF Lookahead
<1> QED
    BY <1>1, <1>2, <1>3, <1>4 DEF CommitteeHorizon, Lookahead

LEMMA HorizonStep ==
    ASSUME TypeOK, CommitteeHorizon, [Next]_vars
    PROVE  CommitteeHorizon'
<1>1. get_current_epoch \in Nat /\ last_processed_epoch \in Nat
    BY EpochIsNat DEF TypeOK, EpochTypeOK
<1>2. CASE UNCHANGED epochVars /\ block_height' \in {block_height, block_height + 1}
  <2>1. BlocksPerSlot * SlotsPerEpoch \in Nat \ {0}
    BY RegistryAssumption
  <2>2. get_current_epoch' \in Nat /\ get_current_epoch <= get_current_epoch'
    BY <1>2, <2>1, DivMonotone DEF get_current_epoch, TypeOK
  <2> QED
    BY <1>1, <1>2, <2>2 DEF CommitteeHorizon, epochVars
<1>3. CASE process_epoch /\ UNCHANGED block_height
  <2>1. get_current_epoch' = get_current_epoch
    BY <1>3 DEF get_current_epoch
  <2>2. CASE UNCHANGED epochVars
    BY <2>1, <2>2 DEF CommitteeHorizon, epochVars
  <2>3. CASE /\ get_current_epoch > last_processed_epoch
             /\ bootstrapping_phase' = FALSE
             /\ publish_committees
             /\ last_processed_epoch' = get_current_epoch
    BY <1>1, <2>1, <2>3, PublishAddsOnly DEF CommitteeHorizon
  <2> QED
    BY <1>3, <2>2, <2>3, Zenon DEF process_epoch
<1> QED
    BY <1>2, <1>3, WhoChangesEpochs

\* process_epoch stays within its horizon: see CommitteeHorizon.
THEOREM HorizonKept == Spec => []CommitteeHorizon
<1>1. Init => CommitteeHorizon
  <2> SUFFICES ASSUME Init PROVE CommitteeHorizon
    OBVIOUS
  <2>1. get_current_epoch \in Nat
    BY EpochIsNat DEF Init
  <2> QED
    BY <2>1 DEF Init, EpochInit, CommitteeHorizon, EmptyMap
<1> QED
    BY <1>1, HorizonStep, TypeCorrect, PTL DEF Spec

\* A committee once published by process_epoch never changes: see
\* CommitteesFixed.
THEOREM CommitteesNeverChange == Spec => CommitteesFixed
<1>1. ASSUME TypeOK, CommitteeHorizon, [Next]_vars
      PROVE  [\A e \in DOMAIN committees :
                e \in DOMAIN committees' /\ committees'[e] = committees[e]]_vars
  <2>1. CASE UNCHANGED epochVars
    BY <2>1 DEF epochVars
  <2>2. CASE /\ get_current_epoch > last_processed_epoch
             /\ publish_committees
    BY <1>1, <2>2, PublishAddsOnly
  <2> QED
    BY <1>1, <2>1, <2>2, WhoChangesEpochs, Zenon DEF process_epoch
<1> QED
    BY <1>1, TypeCorrect, HorizonKept, PTL DEF Spec, CommitteesFixed

-----------------------------------------------------------------------------
\* The node registry.

\* A wallet whose keys are indexed and lead to its account.
Indexed(w) ==
    /\ w.ed25519 \in DOMAIN nodes_by_ed25519_public_key
    /\ nodes_by_ed25519_public_key[w.ed25519] = w.account_id
    /\ w.bn254 \in DOMAIN nodes_by_bn254_public_key
    /\ nodes_by_bn254_public_key[w.bn254] = w.account_id

\* The node of account a was registered by a wallet, which is still indexed.
Owned(a, node) ==
    \E w \in Wallets :
        /\ w.account_id = a
        /\ w.ed25519 = node.ed25519_public_key
        /\ w.bn254 = node.bn254_public_key
        /\ Indexed(w)

\* The inductive invariant: register_node can only meet the account of a
\* wallet in one of the maps after it has indexed the keys of that wallet,
\* and then it refuses the wallet.
NodesOwned ==
    /\ \A a \in DOMAIN active_nodes : Owned(a, active_nodes[a])
    /\ \A a \in DOMAIN inactive_nodes : Owned(a, inactive_nodes[a])
    /\ \A a \in DOMAIN pending_nodes : \E w \in Wallets : w.account_id = a /\ Indexed(w)

\* As long as the indices stay, a state whose nodes are owned stays one.
LEMMA OwnedKept ==
    ASSUME UNCHANGED indexVars,
           \A a \in DOMAIN active_nodes' : Owned(a, active_nodes'[a]),
           \A a \in DOMAIN inactive_nodes' : Owned(a, inactive_nodes'[a]),
           \A a \in DOMAIN pending_nodes' : \E w \in Wallets : w.account_id = a /\ Indexed(w)
    PROVE  NodesOwned'
BY DEF indexVars, Indexed, Owned, NodesOwned

\* A change of balance or address keeps the keys of a node.
LEMMA ChangedNodeOwned ==
    ASSUME NEW a, NEW node \in Node, Owned(a, node)
    PROVE  /\ \A b : Owned(a, WithBalance(node, b))
           /\ \A addr : Owned(a, WithMultiAddr(node, addr))
BY DEF Owned, WithBalance, WithMultiAddr, Node

\* handle_node_balance_update keeps a node in one map.
LEMMA BalanceUpdateOwned ==
    ASSUME NodesOwned, NodesPartitioned, NEW a \in NodeAccounts, NEW node, Owned(a, node),
           handle_node_balance_update(a, node), UNCHANGED indexVars
    PROVE  NodesOwned' /\ NodesPartitioned'
<1>1. NodesPartitioned'
    BY DEF NodesPartitioned, handle_node_balance_update, NodeAccounts, insert, remove,
        Restrict, OneWalletPerAccount
<1>2. \E w \in Wallets : w.account_id = a /\ Indexed(w)
    BY DEF Owned
<1>3. \A x \in DOMAIN active_nodes' : Owned(x, active_nodes'[x])
    BY DEF NodesOwned, handle_node_balance_update, insert, remove, Restrict
<1>4. \A x \in DOMAIN inactive_nodes' : Owned(x, inactive_nodes'[x])
    BY DEF NodesOwned, handle_node_balance_update, insert
<1>5. \A x \in DOMAIN pending_nodes' : \E w \in Wallets : w.account_id = x /\ Indexed(w)
    BY <1>2 DEF NodesOwned, handle_node_balance_update, insert
<1> QED
    BY <1>1, <1>3, <1>4, <1>5, OwnedKept, Zenon

LEMMA RegisterOwned ==
    ASSUME NodesOwned, NodesPartitioned, NEW caller \in Wallets, NEW addr,
           register_node(caller, addr)
    PROVE  NodesOwned' /\ NodesPartitioned'
<1> USE DEF register_node, insert
<1>1. \A w \in Wallets : Indexed(w) => Indexed(w)'
    BY Zenon DEF Indexed
<1>2. \A a \in DOMAIN active_nodes' : Owned(a, active_nodes[a])'
    BY <1>1 DEF NodesOwned, Owned
<1>3. \A a \in DOMAIN inactive_nodes' : Owned(a, inactive_nodes[a])'
  <2> SUFFICES ASSUME NEW a \in DOMAIN inactive_nodes' PROVE Owned(a, inactive_nodes[a])'
    BY Zenon
  <2>1. CASE a = caller.account_id
    BY <2>1, Zenon DEF Owned, Indexed
  <2>2. CASE a # caller.account_id
    BY <1>1, <2>2, Zenon DEF NodesOwned, Owned
  <2> QED
    BY <2>1, <2>2, Zenon
<1>4. \A a \in DOMAIN pending_nodes' : \E w \in Wallets : w.account_id = a /\ Indexed(w)'
    BY <1>1, Zenon DEF NodesOwned
<1>5. NodesPartitioned'
  <2>1. ~ Indexed(caller)
    BY Zenon DEF Indexed
  <2>2. OneWalletPerAccount => caller.account_id \notin DOMAIN active_nodes
    <3>1. \A a \in DOMAIN active_nodes : \E w \in Wallets : w.account_id = a /\ Indexed(w)
        BY Zenon DEF NodesOwned, Owned
    <3> QED
        BY <2>1, <3>1, Zenon DEF OneWalletPerAccount
  <2>3. /\ DOMAIN inactive_nodes' = DOMAIN inactive_nodes \cup {caller.account_id}
        /\ UNCHANGED <<active_nodes, pending_nodes>>
    BY Zenon
  <2> HIDE DEF register_node, insert
  <2>4. OneWalletPerAccount =>
            /\ DOMAIN active_nodes' \cap DOMAIN inactive_nodes' = {}
            /\ DOMAIN active_nodes' \cap DOMAIN pending_nodes' = {}
    BY <2>2, <2>3 DEF NodesPartitioned
  <2> QED
    BY <2>4, Zenon DEF NodesPartitioned, OneWalletPerAccount
<1> QED
    BY <1>2, <1>3, <1>4, <1>5, Zenon DEF NodesOwned

LEMMA UpdateOwned ==
    ASSUME RegistryTypeOK, NodesOwned, NodesPartitioned, NEW caller \in Wallets, NEW addr,
           update_node(caller, addr) \/ unregister_node(caller)
    PROVE  NodesOwned' /\ NodesPartitioned'
<1>1. UNCHANGED <<indexVars, pending_nodes>>
    BY Zenon DEF update_node, unregister_node
<1>2. CASE update_node(caller, addr)
  <2> DEFINE a == caller.account_id
             node == WithMultiAddr(internal_get_node(a), addr)
  <2>1. a \in NodeAccounts /\ Owned(a, internal_get_node(a)) /\ internal_get_node(a) \in Node
    BY <1>2, FoundNode, Zenon DEF update_node, NodesOwned, NodeAccounts, internal_get_node
  <2>2. Owned(a, node)
    BY <2>1, ChangedNodeOwned
  <2>3. /\ \A x \in DOMAIN active_nodes' : Owned(x, active_nodes'[x])
        /\ \A x \in DOMAIN inactive_nodes' : Owned(x, inactive_nodes'[x])
    BY <1>2, <2>2 DEF NodesOwned, update_node, insert
  <2>4. NodesPartitioned'
    BY <1>1, <1>2 DEF NodesPartitioned, update_node, NodeAccounts, insert, OneWalletPerAccount
  <2> QED
    BY <1>1, <2>3, <2>4, OwnedKept, Zenon DEF NodesOwned
<1>3. CASE unregister_node(caller)
  <2>1. /\ \A x \in DOMAIN active_nodes' : Owned(x, active_nodes'[x])
        /\ \A x \in DOMAIN inactive_nodes' : Owned(x, inactive_nodes'[x])
    BY <1>3, Zenon DEF NodesOwned, unregister_node, remove, Restrict
  <2>2. NodesPartitioned'
    BY <1>1, <1>3 DEF NodesPartitioned, unregister_node, remove, Restrict, OneWalletPerAccount
  <2> QED
    BY <1>1, <2>1, <2>2, OwnedKept, Zenon DEF NodesOwned
<1> QED
    BY <1>2, <1>3

LEMMA StakeOwned ==
    ASSUME RegistryTypeOK, NodesOwned, NodesPartitioned, NEW caller, NEW key \in EdKeys,
           NEW amount, deposit(caller, amount, key) \/ withdraw(caller, amount, key)
    PROVE  NodesOwned' /\ NodesPartitioned'
<1> DEFINE node == get_expect_node_by_ed25519_public_key(key)
           owner == nodes_by_ed25519_public_key[key]
<1>1. NodeKnown(key) /\ UNCHANGED indexVars
    BY DEF deposit, withdraw, Withdrawable
<1>2. owner \in NodeAccounts /\ Owned(owner, node) /\ node \in Node
    BY <1>1, FoundNode, Zenon DEF NodeKnown, NodeAccounts, NodesOwned, internal_get_node,
        get_expect_node_by_ed25519_public_key
<1>3. PICK b : handle_node_balance_update(owner, WithBalance(node, b))
    BY Zenon DEF deposit, withdraw
<1>4. Owned(owner, WithBalance(node, b))
    BY <1>2, ChangedNodeOwned
<1> QED
    BY <1>1, <1>2, <1>3, <1>4, BalanceUpdateOwned, Zenon

\* process_epoch moves nodes from inactive and pending to active.
LEMMA ActivationOwned ==
    ASSUME NodesOwned, NodesPartitioned, process_epoch, UNCHANGED indexVars
    PROVE  NodesOwned' /\ NodesPartitioned'
<1>1. CASE UNCHANGED nodeVars
    BY <1>1, OwnedKept DEF nodeVars, NodesOwned, NodesPartitioned, OneWalletPerAccount
<1>2. CASE activate_eligible
  <2>1. /\ \A a \in DOMAIN active_nodes' : Owned(a, active_nodes'[a])
        /\ \A a \in DOMAIN inactive_nodes' : Owned(a, inactive_nodes'[a])
        /\ \A a \in DOMAIN pending_nodes' : \E w \in Wallets : w.account_id = a /\ Indexed(w)
    BY <1>2 DEF NodesOwned, activate_eligible, Restrict, Eligible
  <2>2. NodesPartitioned'
    BY <1>2 DEF NodesPartitioned, activate_eligible, Restrict, Eligible, OneWalletPerAccount
  <2> QED
    BY <2>1, <2>2, OwnedKept
<1> QED
    BY <1>1, <1>2, Zenon DEF process_epoch

LEMMA OwnedStep ==
    ASSUME TypeOK, NodesOwned, NodesPartitioned, [Next]_vars
    PROVE  NodesOwned' /\ NodesPartitioned'
<1>1. ASSUME UNCHANGED <<nodeVars, indexVars>>
      PROVE  NodesOwned' /\ NodesPartitioned'
    BY <1>1, OwnedKept DEF nodeVars, NodesOwned, NodesPartitioned, OneWalletPerAccount
<1>2. CASE RegistryCall
  <2>1. ASSUME NEW caller \in Wallets, NEW key \in EdKeys, NEW amount \in Amounts,
               request_withdraw(caller, amount, key)
        PROVE  UNCHANGED <<nodeVars, indexVars>>
    BY <2>1, Zenon DEF request_withdraw
  <2>2. ASSUME NEW caller \in Wallets, NEW key \in EdKeys, cancel_withdraw_request(caller, key)
        PROVE  UNCHANGED <<nodeVars, indexVars>>
    BY <2>2 DEF cancel_withdraw_request
  <2>3. ASSUME NEW caller \in Wallets, NEW key, NEW value, update_config(caller, key, value)
        PROVE  UNCHANGED <<nodeVars, indexVars>>
    BY <2>3, Zenon DEF update_config
  <2> QED
    BY <1>1, <1>2, <2>1, <2>2, <2>3, RegisterOwned, UpdateOwned, StakeOwned, Zenon
    DEF RegistryCall, TypeOK
<1>3. CASE BatchCall
    BY <1>1, <1>3, ActivationOwned, Zenon DEF BatchCall, ProcessEpoch, post_data_request,
        post_signed_batch, registryVars
<1>4. CASE NextBlock \/ TokenCall \/ UNCHANGED vars
    BY <1>1, <1>4 DEF NextBlock, TokenCall, vars, registryVars
<1> QED
    BY <1>2, <1>3, <1>4, Zenon DEF Next

LEMMA RegistryInvariant == Spec => [](NodesOwned /\ NodesPartitioned)
<1>1. Init => NodesOwned /\ NodesPartitioned
    BY DEF Init, RegistryInit, NodesOwned, NodesPartitioned, EmptyMap
<1>2. TypeOK /\ NodesOwned /\ NodesPartitioned /\ [Next]_vars
        => (NodesOwned /\ NodesPartitioned)'
    BY OwnedStep
<1> QED
    BY <1>1, <1>2, TypeCorrect, PTL DEF Spec

\* The contract never lists a node as active and inactive, nor an active node
\* as waiting for activation: see NodesPartitioned.
THEOREM NodesStayPartitioned == Spec => []NodesPartitioned
BY RegistryInvariant, PTL

\* Every node is found under both of its keys: see NodesIndexed.
THEOREM NodesStayIndexed == Spec => []NodesIndexed
<1>1. NodesOwned => NodesIndexed
    BY DEF NodesOwned, NodesIndexed, Owned, Indexed, NodeAccounts, internal_get_node
<1> QED
    BY <1>1, RegistryInvariant, PTL

-----------------------------------------------------------------------------
\* Batches.

\* A sequence with one more element is the appended one.
LEMMA AppendedSequence ==
    ASSUME NEW n \in Nat, NEW s, NEW t, NEW e,
           s = [h \in 1..n |-> s[h]], t = [h \in 1..(n + 1) |-> t[h]],
           \A h \in 1..n : t[h] = s[h], t[n + 1] = e
    PROVE  t = Append(s, e)
<1> DEFINE S == {s[h] : h \in 1..n} \cup {e}
<1>1. s \in Seq(S) /\ Len(s) = n /\ e \in S
    OBVIOUS
<1>2. t \in Seq(S) /\ Len(t) = n + 1
  <2>1. \A h \in 1..(n + 1) : h \in 1..n \/ h = n + 1
    OBVIOUS
  <2>2. \A h \in 1..(n + 1) : t[h] \in S
    BY <2>1, Zenon
  <2> HIDE DEF S
  <2> QED
    BY <2>2
<1> HIDE DEF S
<1>3. /\ Append(s, e) \in Seq(S) /\ Len(Append(s, e)) = n + 1
      /\ \A h \in 1..n : Append(s, e)[h] = s[h]
      /\ Append(s, e)[n + 1] = e
    BY <1>1
<1>4. ASSUME NEW h \in 1..(n + 1) PROVE t[h] = Append(s, e)[h]
  <2>1. h \in 1..n \/ h = n + 1
    OBVIOUS
  <2> QED
    BY <1>3, <2>1, Zenon
<1> QED
    BY <1>2, <1>3, <1>4

\* A batch id commits to the height of its batch.
LEMMA IdsDiffer ==
    ASSUME NEW p, NEW q, NEW h, NEW g, NEW m, NEW n, h # g
    PROVE  BatchId(p, h, m) # BatchId(q, g, n)
BY DEF BatchId

\* What storing a batch does to the chain of batches.
LEMMA StoreExtendsChain ==
    ASSUME TypeOK, BatchChain, store_batch
    PROVE  /\ BatchChain'
           /\ SealedBatches' = Append(SealedBatches, data_request_accumulator)
<1> DEFINE height == num_batches + 1
           prev == get_latest_batch_id
           id == BatchId(prev, height, merklize(data_request_accumulator))
           batch == [height |-> height, transactions |-> data_request_accumulator]
<1>1. /\ num_batches \in Nat
      /\ num_batches' = height
      /\ batch_ids_by_height' = insert(batch_ids_by_height, height, id)
      /\ batch_by_id' = insert(batch_by_id, id, batch)
    BY DEF TypeOK, store_batch, internal_compute_merkle_root
<1>2. /\ height = num_batches + 1
      /\ id = BatchId(prev, height, merklize(data_request_accumulator))
      /\ batch.height = height
      /\ batch.transactions = data_request_accumulator
    BY Zenon
<1>3. prev = IF num_batches = 0 THEN NoBatchId ELSE batch_ids_by_height[num_batches]
    BY <1>1, SMTT(20) DEF get_latest_batch_id, BatchChain
<1> HIDE DEF height, prev, id, batch
<1>4. DOMAIN batch_ids_by_height = 1..num_batches
    BY DEF BatchChain
<1>5. DOMAIN batch_ids_by_height' = 1..num_batches'
  <2>1. DOMAIN batch_ids_by_height' = 1..num_batches \cup {height}
    BY <1>1, <1>4 DEF insert
  <2>2. 1..num_batches \cup {num_batches + 1} = 1..(num_batches + 1)
    BY <1>1
  <2> QED
    BY <1>1, <1>2, <2>1, <2>2, Zenon
<1>6. ASSUME NEW h \in 1..num_batches
      PROVE  /\ batch_ids_by_height'[h] = batch_ids_by_height[h]
             /\ batch_by_id'[batch_ids_by_height[h]] = batch_by_id[batch_ids_by_height[h]]
             /\ batch_ids_by_height[h] \in DOMAIN batch_by_id'
  <2>1. h # height
    BY <1>1, <1>2
  <2>2. batch_ids_by_height[h] # id /\ batch_ids_by_height[h] \in DOMAIN batch_by_id
    BY <1>2, <2>1, IdsDiffer DEF BatchChain
  <2> QED
    BY <1>1, <1>4, <2>1, <2>2 DEF insert
<1>7. /\ batch_ids_by_height'[height] = id
      /\ batch_by_id'[id] = batch
      /\ id \in DOMAIN batch_by_id'
    BY <1>1 DEF insert
<1>8. prev = IF height = 1 THEN NoBatchId ELSE batch_ids_by_height'[height - 1]
  <2>1. CASE num_batches = 0
    BY <1>2, <1>3, <2>1
  <2>2. CASE num_batches # 0
    <3>1. num_batches \in 1..num_batches /\ height # 1 /\ height - 1 = num_batches
        BY <1>1, <1>2, <2>2
    <3> QED
        BY <1>6, <1>3, <2>2, <3>1
  <2> QED
    BY <2>1, <2>2
<1>9. BatchChain'
  <2> SUFFICES ASSUME NEW h \in 1..height
               PROVE  LET bid == batch_ids_by_height'[h]
                          before == IF h = 1 THEN NoBatchId ELSE batch_ids_by_height'[h - 1]
                      IN  /\ bid \in DOMAIN batch_by_id'
                          /\ batch_by_id'[bid].height = h
                          /\ bid = BatchId(before, h, merklize(batch_by_id'[bid].transactions))
    BY <1>1, <1>5, Zenon DEF BatchChain, merklize, BatchId, NoBatchId
  <2>1. CASE h = height
    BY <1>7, <1>8, <1>2, <2>1, SMTT(20)
  <2>2. CASE h \in 1..num_batches
    <3>1. h = 1 \/ h - 1 \in 1..num_batches
        BY <1>1, <2>2
    <3> QED
        BY <1>6, <2>2, <3>1, SMTT(20) DEF BatchChain
  <2>3. h = height \/ h \in 1..num_batches
    BY <1>1, <1>2
  <2> QED
    BY <2>1, <2>2, <2>3
<1>10. SealedBatches' = Append(SealedBatches, data_request_accumulator)
  <2>1. /\ SealedBatches = [h \in 1..num_batches |-> SealedBatches[h]]
        /\ SealedBatches' = [h \in 1..(num_batches + 1) |-> SealedBatches'[h]]
    BY <1>1, <1>2 DEF SealedBatches
  <2>2. SealedBatches'[num_batches + 1] = data_request_accumulator
    BY <1>1, <1>7, <1>2, SMTT(20) DEF SealedBatches
  <2>3. \A h \in 1..num_batches : SealedBatches'[h] = SealedBatches[h]
    BY <1>1, <1>6, <1>2, SMTT(30) DEF SealedBatches
  <2> QED
    BY <1>1, <2>1, <2>2, <2>3, AppendedSequence
<1> QED
    BY <1>9, <1>10, Zenon

\* A step posts a request, stores a batch, or does neither.
LEMMA WhoChangesBatches ==
    ASSUME [Next]_vars
    PROVE  \/ UNCHANGED batchVars
           \/ store_batch
           \/ /\ \E d \in DataRequests : post_data_request(d)
              /\ UNCHANGED <<num_batches, batch_ids_by_height, batch_by_id>>
BY Zenon DEF Next, NextBlock, TokenCall, RegistryCall, BatchCall, ProcessEpoch, post_data_request,
    post_signed_batch, vars

\* The batches form one chain: see BatchChain.
THEOREM BatchesFormChain == Spec => []BatchChain
<1>1. Init => BatchChain
    BY DEF Init, BatchChain, EmptyMap
<1>2. TypeOK /\ BatchChain /\ [Next]_vars => BatchChain'
  <2> SUFFICES ASSUME TypeOK, BatchChain, [Next]_vars PROVE BatchChain'
    OBVIOUS
  <2>1. CASE UNCHANGED <<num_batches, batch_ids_by_height, batch_by_id>>
    BY <2>1, SMTT(20) DEF BatchChain, BatchId, NoBatchId, merklize
  <2> QED
    BY <2>1, WhoChangesBatches, StoreExtendsChain DEF batchVars
<1> QED
    BY <1>1, <1>2, TypeCorrect, PTL DEF Spec

\* The contract implements the request ledger: every posted request enters
\* exactly one batch, in the order of posting, and batches never change.
THEOREM RequestsStaySealed == Spec => RequestsSealedOnce
<1>1. Init => Ledger!Init
    BY DEF Init, Ledger!Init, SealedBatches
<1>2. TypeOK /\ BatchChain /\ [Next]_vars => [Ledger!Next]_Ledger!ledgerVars
  <2> SUFFICES ASSUME TypeOK, BatchChain, [Next]_vars
               PROVE  [Ledger!Next]_Ledger!ledgerVars
    OBVIOUS
  <2>1. CASE store_batch
    <3>1. Ledger!Seal
        BY <2>1, StoreExtendsChain, Zenon DEF Ledger!Seal, store_batch
    <3> QED
        BY <3>1, Zenon DEF Ledger!Next
  <2>2. ASSUME NEW d \in DataRequests, post_data_request(d)
        PROVE  Ledger!Post(d)
    BY <2>2 DEF post_data_request, Ledger!Post, SealedBatches
  <2>3. CASE UNCHANGED batchVars
    BY <2>3 DEF batchVars, Ledger!ledgerVars, SealedBatches
  <2> QED
    BY <2>1, <2>2, <2>3, WhoChangesBatches DEF Ledger!Next
<1> QED
    BY <1>1, <1>2, TypeCorrect, BatchesFormChain, PTL DEF Spec, RequestsSealedOnce, Ledger!Spec

-----------------------------------------------------------------------------
\* Committees and pages.  Facts about finite sets and about the natural numbers
\* are used from here on.
INSTANCE FiniteSetTheorems

\* A round ends with an index that no earlier round has chosen, and the order
\* of the validators repeats none: no node gets two seats.
LEMMA SeatsAreDistinct ==
    ASSUME NEW random, NEW nodes, NEW validators \in Orders(nodes),
           NEW c \in select_committee(random, validators),
           NEW l \in 1..CommitteeSize, NEW m \in 1..CommitteeSize, l < m
    PROVE  c[l] # c[m]
<1>1. PICK run \in Draws(random, validators) :
            c = [k \in 1..CommitteeSize |-> validators[run[k - 1].index + 1]]
    BY Zenon DEF select_committee
<1>2. l - 1 \in Rounds /\ m - 1 \in Rounds /\ l - 1 \in 0..((m - 1) - 1)
    BY CommitteeAssumption DEF Rounds
<1>3. run[l - 1].index \in Indices(validators) /\ run[m - 1].index \in Indices(validators)
    BY <1>1, <1>2 DEF Draws
<1>4. run[m - 1].index \notin ChosenBefore(run, m - 1)
    BY <1>1, <1>2, Zenon DEF Draws, Round
<1>5. run[l - 1].index # run[m - 1].index
    BY <1>2, <1>4, Zenon DEF ChosenBefore
<1>6. \A j, k \in DOMAIN validators : validators[j] = validators[k] => j = k
    BY DEF Orders, Injection, IsInjective
<1>7. DOMAIN validators \subseteq Int
    BY DEF Orders, Injection
<1> QED
    BY <1>1, <1>3, <1>5, <1>6, <1>7 DEF Indices

\* So a committee has as many members as seats.
LEMMA SelectedAreDistinct ==
    ASSUME NEW random, NEW nodes, NEW validators \in Orders(nodes),
           NEW c \in select_committee(random, validators)
    PROVE  Range(c) \subseteq DOMAIN nodes /\ Cardinality(Range(c)) = CommitteeSize
<1>1. c \in [1..CommitteeSize -> DOMAIN nodes]
    BY SeatsGoToNodes, Zenon
<1>2. \A l, m \in 1..CommitteeSize : c[l] = c[m] => l = m
    BY SeatsAreDistinct, CommitteeAssumption
<1>3. c \in Bijection(1..CommitteeSize, Range(c))
    BY <1>1, <1>2 DEF Injection, Surjection, Bijection, Range, IsInjective
<1> QED
    BY <1>1, <1>3, FS_CountingElements, CommitteeAssumption DEF ExistsBijection, Range

\* A committee is drawn without repetition from the nodes that are active when
\* process_epoch publishes it: see CommitteesDrawnFromActive.
THEOREM CommitteesAreDrawn == Spec => CommitteesDrawnFromActive
<1>1. ASSUME TypeOK, CommitteeHorizon, [Next]_vars
      PROVE  [\A e \in DOMAIN committees' \ DOMAIN committees :
                /\ Range(committees'[e]) \subseteq DOMAIN active_nodes'
                /\ Cardinality(Range(committees'[e])) = CommitteeSize]_vars
  <2>1. CASE UNCHANGED epochVars
    BY <2>1, Zenon DEF epochVars
  <2>2. CASE /\ get_current_epoch > last_processed_epoch
             /\ publish_committees
    BY <1>1, <2>2, PublishAddsOnly, SelectedAreDistinct DEF Selected
  <2> QED
    BY <1>1, <2>1, <2>2, WhoChangesEpochs, Zenon DEF process_epoch
<1> QED
    BY <1>1, TypeCorrect, HorizonKept, PTL DEF Spec, CommitteesDrawnFromActive

-----------------------------------------------------------------------------
\* The paged views, for any keys and any size of the pages.

LEMMA LeastPage ==
    ASSUME NEW S \in SUBSET Nat, S # {}
    PROVE  \E k \in S : \A l \in S : k <= l
<1>1. PICK k \in S : \A l \in S : ~(<<l, k>> \in OpToRel(<, Nat))
  BY NatLessThanWellFounded, WFMin, Zenon
<1>2. ASSUME NEW l \in S PROVE k <= l
  <2>1. ~(l < k)
    BY <1>1, Zenon DEF OpToRel
  <2> QED BY <2>1
<1> QED BY <1>2

LEMMA OffsetsGrow ==
    ASSUME NEW p \in Nat, NEW q \in Nat, NEW limit \in Nat \ {0}
    PROVE  /\ p * limit \in Nat /\ p * limit >= p
           /\ (p + 1) * limit = p * limit + limit
           /\ q < p => q * limit + limit <= p * limit
<1>1. p * limit \in Nat /\ (p + 1) * limit = p * limit + limit
  OBVIOUS
<1>2. p * limit >= p
  <2>1. p * (limit - 1) \in Nat /\ p * limit = p * (limit - 1) + p
    OBVIOUS
  <2> QED BY <2>1
<1>3. q < p => q * limit + limit <= p * limit
  <2>1. SUFFICES ASSUME q < p PROVE q * limit + limit <= p * limit
    OBVIOUS
  <2>2. (p - q - 1) * limit \in Nat /\ p * limit = (p - q - 1) * limit + q * limit + limit
    BY <2>1
  <2>3. q * limit \in Nat
    OBVIOUS
  <2> QED BY <2>2, <2>3
<1> QED BY <1>1, <1>2, <1>3

\* The n-th key that is read is on one page.
LEMMA PageOf ==
    ASSUME NEW n \in Nat \ {0}, NEW limit \in Nat \ {0}
    PROVE  \E p \in 0..(n - 1) : p * limit < n /\ n <= p * limit + limit
<1> DEFINE S == {p \in Nat : n <= p * limit + limit}
<1>1. n \in S
  BY OffsetsGrow
<1>2. PICK p \in S : \A q \in S : p <= q
  BY <1>1, LeastPage, Zenon
<1>3. p \in Nat /\ n <= p * limit + limit /\ p * limit \in Nat /\ p * limit >= p
  BY <1>2, OffsetsGrow
<1>4. p * limit < n
  <2>1. CASE p = 0
    BY <2>1
  <2>2. CASE p # 0
    <3>1. p - 1 \in Nat /\ p - 1 \notin S
      <4>1. p - 1 \in Nat /\ ~(p <= p - 1)
        BY <1>3, <2>2
      <4> HIDE DEF S
      <4> QED BY <1>2, <4>1
    <3>2. ~(n <= (p - 1) * limit + limit)
      BY <3>1
    <3>3. (p - 1 + 1) * limit = (p - 1) * limit + limit
      BY <3>1, OffsetsGrow
    <3>4. p - 1 + 1 = p
      BY <1>3
    <3> QED BY <1>3, <3>2, <3>3, <3>4
  <2> QED BY <2>1, <2>2
<1>5. p \in 0..(n - 1)
  <2> DEFINE offset == p * limit
  <2>1. offset \in Nat /\ offset >= p /\ offset < n
    BY <1>3, <1>4
  <2> HIDE DEF offset, S
  <2> QED BY <1>3, <2>1
<1> QED BY <1>3, <1>4, <1>5

\* What a page shows, from its offset on.
PageFrom(keys, limit, p, size, offset) ==
    /\ \A j : j \in DOMAIN Page(keys, limit, p) <=> j \in 1..limit /\ offset + j <= size
    /\ \A j \in DOMAIN Page(keys, limit, p) :
           Page(keys, limit, p)[j] = keys[size + 1 - (offset + j)]

LEMMA PageShows ==
    ASSUME NEW keys, NEW size \in Nat, Len(keys) = size, NEW limit \in Nat \ {0},
           NEW p, NEW offset \in Nat, offset = p * limit, offset <= size
    PROVE  PageFrom(keys, limit, p, size, offset)
<1> DEFINE index == size - offset
           count == IF limit < index THEN limit ELSE index
<1>1. Page(keys, limit, p) = [k \in 1..count |-> keys[index - k + 1]]
  BY DEF Page, internal_get_nodes
<1>2. \A j : j \in 1..count <=> j \in 1..limit /\ offset + j <= size
  OBVIOUS
<1>3. \A j \in 1..count : index - j + 1 = size + 1 - (offset + j)
  OBVIOUS
<1> HIDE DEF index, count
<1> QED BY <1>1, <1>2, <1>3 DEF PageFrom

\* The pages that can be asked for.
LEMMA PagesAre ==
    ASSUME NEW keys, Len(keys) \in Nat, NEW limit \in Nat \ {0}, NEW p
    PROVE  p \in Pages(keys, limit) <=> p \in Nat /\ p * limit <= Len(keys)
<1>1. ASSUME p \in Nat, p * limit <= Len(keys) PROVE p \in 0..Len(keys)
  <2> DEFINE offset == p * limit
  <2>1. offset \in Nat /\ offset >= p /\ offset <= Len(keys)
    BY <1>1, OffsetsGrow, Zenon
  <2> HIDE DEF offset
  <2> QED BY <1>1, <2>1
<1> QED BY <1>1 DEF Pages

\* Pages of one map, read one after the other, show every key once.
LEMMA KeysReadOnce ==
    ASSUME NEW keys, Len(keys) \in Nat, NEW limit \in Nat \ {0},
           \A k, l \in 1..Len(keys) : keys[k] = keys[l] => k = l
    PROVE  ReadOnce(keys, limit)
<1> SUFFICES ASSUME NEW k \in 1..Len(keys)
             PROVE  \E p \in Pages(keys, limit) : \E j \in DOMAIN Page(keys, limit, p) :
                        /\ Page(keys, limit, p)[j] = keys[k]
                        /\ p * limit + j = Len(keys) + 1 - k
                        /\ \A q \in Pages(keys, limit) : \A l \in DOMAIN Page(keys, limit, q) :
                                Page(keys, limit, q)[l] = keys[k] => q = p /\ l = j
  BY DEF ReadOnce
<1> DEFINE size == Len(keys)
           n == size + 1 - k
<1>1. size \in Nat /\ n \in Nat \ {0} /\ n <= size /\ size + 1 - n = k
  OBVIOUS
<1> HIDE DEF n
<1>2. PICK p \in 0..(n - 1) : p * limit < n /\ n <= p * limit + limit
  BY <1>1, PageOf, Zenon
<1> DEFINE offset == p * limit
           j == n - offset
<1>3. p \in Nat /\ offset \in Nat /\ offset < n /\ n <= offset + limit
  BY <1>1, <1>2, OffsetsGrow
<1>4. p \in Pages(keys, limit)
  <2>1. offset <= size
    <3> HIDE DEF offset, size
    <3> QED BY <1>1, <1>3
  <2> QED BY <1>3, <2>1, PagesAre
<1>5. ASSUME NEW q \in Pages(keys, limit)
      PROVE  /\ q \in Nat /\ q * limit \in Nat /\ q * limit <= size
             /\ PageFrom(keys, limit, q, size, q * limit)
  <2> DEFINE other == q * limit
  <2>1. q \in Nat /\ other \in Nat /\ other <= size /\ other = q * limit
    BY PagesAre, OffsetsGrow
  <2> HIDE DEF other, size
  <2>2. PageFrom(keys, limit, q, size, other)
    <3>1. Len(keys) = size /\ size \in Nat
      BY <1>1 DEF size
    <3> QED BY <2>1, <3>1, PageShows, Zenon
  <2> QED BY <2>1, <2>2
<1>6. j \in 1..limit /\ offset + j = n /\ offset + j <= size /\ size + 1 - (offset + j) = k
  <2> HIDE DEF offset, size
  <2> QED BY <1>1, <1>3
<1>7. j \in DOMAIN Page(keys, limit, p) /\ Page(keys, limit, p)[j] = keys[k]
  <2> HIDE DEF j, size
  <2> QED BY <1>4, <1>5, <1>6, Zenon DEF PageFrom
<1>8. ASSUME NEW q \in Pages(keys, limit), NEW l \in DOMAIN Page(keys, limit, q),
             Page(keys, limit, q)[l] = keys[k]
      PROVE  q = p /\ l = j
  <2> DEFINE other == q * limit
  <2>1. /\ q \in Nat /\ other \in Nat /\ l \in 1..limit /\ other + l <= size
        /\ keys[size + 1 - (other + l)] = keys[k]
    BY <1>5, <1>8 DEF PageFrom
  <2>2. size + 1 - (other + l) = k
    <3>1. size + 1 - (other + l) \in 1..size
      <4> HIDE DEF other, size
      <4> QED BY <1>1, <2>1
    <3> HIDE DEF other
    <3> QED BY <2>1, <3>1
  <2>3. (q < p => other + limit <= offset) /\ (p < q => offset + limit <= other)
    BY <1>3, <2>1, OffsetsGrow
  <2>4. q = p => other = offset
    OBVIOUS
  <2> HIDE DEF offset, other, j, size
  <2>5. other + l = n
    BY <1>1, <2>1, <2>2
  <2>6. ~(q < p) /\ ~(p < q)
    <3>1. ~(other + limit <= offset) /\ ~(offset + limit <= other)
      BY <1>1, <1>3, <1>6, <2>1, <2>5
    <3> QED BY <2>3, <3>1
  <2>7. q = p
    BY <1>3, <2>1, <2>6
  <2>8. offset + l = offset + j
    BY <1>6, <2>4, <2>5, <2>7
  <2> QED BY <1>3, <1>6, <2>1, <2>7, <2>8
<1>9. offset + j = Len(keys) + 1 - k
  BY <1>6, Zenon DEF n
<1> HIDE DEF j
<1> QED BY <1>4, <1>7, <1>8, <1>9, Zenon


\* The n-th key from the end is on its page.
LEMMA PageHolds ==
    ASSUME NEW keys, NEW size \in Nat, Len(keys) = size, NEW limit \in Nat \ {0},
           NEW n \in 1..size, NEW p \in Nat, p * limit < n, n <= p * limit + limit
    PROVE  Shows(keys, limit, p, keys[size + 1 - n])
<1> DEFINE offset == p * limit
           j == n - offset
<1>1. offset \in Nat /\ offset < n /\ n <= offset + limit /\ offset = p * limit
  BY OffsetsGrow
<1>2. p \in Pages(keys, limit)
  <2>1. offset <= size
    <3> HIDE DEF offset
    <3> QED BY <1>1
  <2> QED BY <2>1, PagesAre
<1> HIDE DEF offset
<1>3. j \in 1..limit /\ offset + j <= size /\ offset <= size /\ size + 1 - (offset + j) = size + 1 - n
  BY <1>1
<1> HIDE DEF j
<1>4. PageFrom(keys, limit, p, size, offset)
  BY <1>1, <1>3, PageShows, Zenon
<1>5. j \in DOMAIN Page(keys, limit, p) /\ Page(keys, limit, p)[j] = keys[size + 1 - n]
  BY <1>3, <1>4 DEF PageFrom
<1> QED BY <1>2, <1>5 DEF Shows

\* A key that is added moves every other one place on, and so to the same page
\* or to the next: what the pages before n did not show, the later ones do.
LEMMA NoneHidden ==
    ASSUME NEW S, NEW keys \in Seq(S), NEW joins \in S, NEW limit \in Nat \ {0},
           NEW n \in 0..Len(keys), NEW k \in 1..Len(keys)
    PROVE  \/ \E p \in 0..(n - 1) : Shows(keys, limit, p, keys[k])
           \/ \E p \in n..(Len(keys) + 1) : Shows(Append(keys, joins), limit, p, keys[k])
<1> DEFINE size == Len(keys)
           later == Append(keys, joins)
           r == size + 1 - k
<1>1. size \in Nat /\ n \in Nat /\ n <= size /\ k \in 1..size
  OBVIOUS
<1>2. Len(later) = size + 1 /\ later[k] = keys[k]
  <2>1. Len(later) = size + 1
    OBVIOUS
  <2>2. \A l \in 1..size : later[l] = keys[l]
    OBVIOUS
  <2> QED BY <1>1, <2>1, <2>2
<1> HIDE DEF size, later
<1>3. /\ r \in Nat \ {0} /\ r \in 1..size /\ size + 1 - r = k
      /\ r + 1 \in Nat \ {0} /\ r + 1 \in 1..(size + 1) /\ size + 1 + 1 - (r + 1) = k
  BY <1>1
<1> HIDE DEF r
<1>4. PICK p \in 0..(r - 1) : p * limit < r /\ r <= p * limit + limit
  BY <1>3, PageOf, Zenon
<1>5. PICK q \in 0..((r + 1) - 1) : q * limit < r + 1 /\ r + 1 <= q * limit + limit
  BY <1>3, PageOf, Zenon
<1>6. p \in Nat /\ q \in Nat /\ q \in 0..(size + 1)
  BY <1>1, <1>3
<1>7. Shows(keys, limit, p, keys[k])
  <2>1. Shows(keys, limit, p, keys[size + 1 - r])
    BY <1>1, <1>3, <1>4, <1>6, PageHolds, Zenon DEF size
  <2> QED BY <1>3, <2>1
<1>8. Shows(later, limit, q, keys[k])
  <2>1. size + 1 \in Nat
    BY <1>1
  <2>2. Shows(later, limit, q, later[size + 1 + 1 - (r + 1)])
    BY <1>2, <1>3, <1>5, <1>6, <2>1, PageHolds, Zenon
  <2> QED BY <1>2, <1>3, <2>2, Zenon
<1>9. p <= q
  <2> DEFINE from == p * limit
             to == q * limit
  <2>1. /\ from \in Nat /\ to \in Nat /\ from < r /\ r + 1 <= to + limit
        /\ q < p => to + limit <= from
    BY <1>4, <1>5, <1>6, OffsetsGrow
  <2> HIDE DEF from, to
  <2> QED BY <1>3, <1>6, <2>1
<1>10. CASE p < n
  <2>1. p \in 0..(n - 1)
    BY <1>1, <1>6, <1>10
  <2> QED BY <1>7, <2>1
<1>11. CASE ~(p < n)
  <2>1. q \in n..(size + 1)
    BY <1>1, <1>6, <1>9, <1>11
  <2> QED BY <1>8, <2>1 DEF size, later
<1> QED BY <1>10, <1>11

-----------------------------------------------------------------------------
\* Sums.

\* A map of finitely many amounts.
Amounting(f) == IsFiniteSet(DOMAIN f) /\ \A x \in DOMAIN f : f[x] \in Nat

\* The units of the amounts of the elements of S, and their number.
UnitsOf(f, x) == {x} \X (1..f[x])
Units(f, S) == UNION {UnitsOf(f, x) : x \in S}
Total(f, S) == Cardinality(Units(f, S))

LEMMA UnitsOfOne ==
    ASSUME NEW f, NEW x, f[x] \in Nat
    PROVE  IsFiniteSet(UnitsOf(f, x)) /\ Cardinality(UnitsOf(f, x)) = f[x]
<1>1. IsFiniteSet(1..f[x]) /\ Cardinality(1..f[x]) = f[x]
  <2> PICK n \in Nat : n = f[x]
    OBVIOUS
  <2>1. IsFiniteSet(1..n) /\ Cardinality(1..n) = IF 1 > n THEN 0 ELSE n - 1 + 1
    BY 1 \in Int, n \in Int, FS_Interval, Zenon
  <2> QED BY <2>1
<1>2. IsFiniteSet({x}) /\ Cardinality({x}) = 1
  BY FS_Singleton, Zenon
<1>3. IsFiniteSet({x} \X (1..f[x])) /\ Cardinality({x} \X (1..f[x])) = 1 * f[x]
  BY <1>1, <1>2, FS_Product
<1> QED BY <1>3 DEF UnitsOf

LEMMA UnitsFinite ==
    ASSUME NEW f, Amounting(f), NEW S \in SUBSET DOMAIN f
    PROVE  IsFiniteSet(Units(f, S)) /\ Total(f, S) \in Nat
<1> DEFINE T == {UnitsOf(f, x) : x \in S}
           h == [x \in S |-> UnitsOf(f, x)]
<1>1. IsFiniteSet(S)
  BY FS_Subset DEF Amounting
<1>2. h \in Surjection(S, T)
  BY DEF Surjection
<1>3. IsFiniteSet(T)
  BY <1>1, <1>2, FS_Surjection
<1>4. \A U \in T : IsFiniteSet(U)
  BY UnitsOfOne DEF Amounting
<1> HIDE DEF T
<1>5. IsFiniteSet(UNION T)
  BY <1>3, <1>4, FS_UNION
<1>6. IsFiniteSet(Units(f, S))
  BY <1>5 DEF Units, T
<1> QED BY <1>6, FS_CardinalityType DEF Total

\* The elements of two disjoint sets have their units apart.
LEMMA TotalSplit ==
    ASSUME NEW f, Amounting(f), NEW A \in SUBSET DOMAIN f, NEW B \in SUBSET DOMAIN f,
           A \cap B = {}
    PROVE  Total(f, A \cup B) = Total(f, A) + Total(f, B)
<1> DEFINE U == Units(f, A)
           V == Units(f, B)
<1>1. IsFiniteSet(U) /\ IsFiniteSet(V) /\ Cardinality(U) \in Nat /\ Cardinality(V) \in Nat
  BY UnitsFinite DEF Total
<1>2. Units(f, A \cup B) = U \cup V
  BY DEF Units
<1>3. U \cap V = {}
  BY DEF Units, UnitsOf
<1> HIDE DEF U, V
<1>4. Cardinality(U \cup V) = Cardinality(U) + Cardinality(V) - Cardinality(U \cap V)
  BY <1>1, FS_Union
<1>5. Cardinality(U \cup V) = Cardinality(U) + Cardinality(V)
  BY <1>1, <1>3, <1>4, FS_EmptySet
<1> QED BY <1>2, <1>5 DEF Total, U, V

LEMMA TotalOfOne ==
    ASSUME NEW f, NEW x, f[x] \in Nat
    PROVE  Total(f, {x}) = f[x]
<1>1. Units(f, {x}) = UnitsOf(f, x)
  BY DEF Units
<1> QED BY <1>1, UnitsOfOne DEF Total

LEMMA TotalOfNone ==
    ASSUME NEW f
    PROVE  Total(f, {}) = 0
<1>1. Units(f, {}) = {}
  BY DEF Units
<1> QED BY <1>1, FS_EmptySet DEF Total

LEMMA TotalWithout ==
    ASSUME NEW f, Amounting(f), NEW S \in SUBSET DOMAIN f, NEW x \in S
    PROVE  Total(f, S) = f[x] + Total(f, S \ {x})
<1>1. S = {x} \cup (S \ {x}) /\ {x} \cap (S \ {x}) = {}
  OBVIOUS
<1>2. Total(f, {x} \cup (S \ {x})) = Total(f, {x}) + Total(f, S \ {x})
  BY <1>1, TotalSplit
<1>3. Total(f, {x}) = f[x]
  BY TotalOfOne DEF Amounting
<1> QED BY <1>1, <1>2, <1>3

\* Maps that agree on a set have the same total there.
LEMMA TotalSame ==
    ASSUME NEW f, NEW g, NEW S, \A x \in S : f[x] = g[x]
    PROVE  Total(f, S) = Total(g, S)
<1>1. Units(f, S) = Units(g, S)
  BY DEF Units, UnitsOf
<1> QED BY <1>1 DEF Total

\* What SumFunction folds: g gives the sum of every subset.
Any(s) == CHOOSE x \in s : TRUE
Unfolds(g, f, S) ==
    g = [s \in SUBSET S |-> IF s = {} THEN 0 ELSE f[Any(s)] + g[s \ {Any(s)}]]

LEMMA AnyIsIn ==
    ASSUME NEW s, s # {}
    PROVE  Any(s) \in s
BY DEF Any

LEMMA SumUnfolds ==
    ASSUME NEW f
    PROVE  SumFunction(f) = (CHOOSE g : Unfolds(g, f, DOMAIN f))[DOMAIN f]
BY Zenon DEF SumFunction, SumFunctionOnSet, FoldFunctionOnSet, MapThenFoldSet, Unfolds, Any

\* The totals unfold, so there is something to choose.
LEMMA TotalUnfolds ==
    ASSUME NEW f, Amounting(f)
    PROVE  Unfolds([s \in SUBSET DOMAIN f |-> Total(f, s)], f, DOMAIN f)
<1> DEFINE g == [s \in SUBSET DOMAIN f |-> Total(f, s)]
<1> SUFFICES ASSUME NEW s \in SUBSET DOMAIN f
             PROVE  g[s] = IF s = {} THEN 0 ELSE f[Any(s)] + g[s \ {Any(s)}]
  BY Zenon DEF Unfolds
<1>1. CASE s = {}
  BY <1>1, TotalOfNone
<1>2. CASE s # {}
  <2>1. Total(f, s) = f[Any(s)] + Total(f, s \ {Any(s)})
    BY <1>2, AnyIsIn, TotalWithout
  <2>2. s \ {Any(s)} \in SUBSET DOMAIN f
    BY Zenon
  <2> QED BY <1>2, <2>1, <2>2
<1> QED BY <1>1, <1>2

\* Nothing else unfolds: a smallest set on which g differs from the total
\* would have an element less than a set on which it does not.
LEMMA UnfoldsToTotal ==
    ASSUME NEW f, Amounting(f), NEW g, Unfolds(g, f, DOMAIN f)
    PROVE  g[DOMAIN f] = Total(f, DOMAIN f)
<1> DEFINE S == DOMAIN f
           bad == {s \in SUBSET S : g[s] # Total(f, s)}
           less == StrictSubsetOrdering(S)
<1> SUFFICES ASSUME bad # {} PROVE FALSE
  OBVIOUS
<1>1. IsWellFoundedOn(less, SUBSET S)
  BY FS_StrictSubsetOrderingWellFounded, FS_FiniteSubsetsOfFinite, Zenon DEF Amounting
<1>2. PICK s \in bad : \A t \in bad : <<t, s>> \notin less
  <2> HIDE DEF bad, less
  <2>1. bad \subseteq SUBSET S
    BY Zenon DEF bad
  <2> QED BY <1>1, <2>1, WFMin
<1>3. s \in SUBSET S /\ g[s] # Total(f, s)
  BY <1>2
<1>4. g[s] = IF s = {} THEN 0 ELSE f[Any(s)] + g[s \ {Any(s)}]
  BY <1>3, Zenon DEF Unfolds
<1>5. s # {}
  BY <1>3, <1>4, TotalOfNone, Zenon
<1>6. Any(s) \in s
  BY <1>5, AnyIsIn, Zenon
<1> DEFINE t == s \ {Any(s)}
<1>7. t \notin bad
  <2>1. <<t, s>> \in less
    BY <1>3, <1>6, Zenon DEF StrictSubsetOrdering
  <2> QED BY <1>2, <2>1, Zenon
<1>8. g[t] = Total(f, t)
  BY <1>3, <1>7, Zenon
<1>9. Total(f, s) = f[Any(s)] + Total(f, t)
  BY <1>3, <1>6, TotalWithout, Zenon
<1>10. g[s] = f[Any(s)] + g[t]
  BY <1>4, <1>5, Zenon
<1>11. g[s] = Total(f, s)
  BY <1>8, <1>9, <1>10, Zenon
<1> QED BY <1>3, <1>11, Zenon

\* SumFunction is the total of a map.
LEMMA SumIsTotal ==
    ASSUME NEW f, Amounting(f)
    PROVE  SumFunction(f) = Total(f, DOMAIN f) /\ SumFunction(f) \in Nat
<1> DEFINE g == CHOOSE h : Unfolds(h, f, DOMAIN f)
<1>1. Unfolds(g, f, DOMAIN f)
  BY TotalUnfolds, Zenon
<1>2. SumFunction(f) = g[DOMAIN f]
  BY SumUnfolds, Zenon
<1> HIDE DEF g
<1> QED BY <1>1, <1>2, UnfoldsToTotal, UnitsFinite

\* What a key counts for in a map.
AmountOf(f, k) == IF k \in DOMAIN f THEN f[k] ELSE 0

\* insert replaces what its key counts for.
LEMMA SumInsert ==
    ASSUME NEW f, Amounting(f), NEW k, NEW v \in Nat
    PROVE  /\ Amounting(insert(f, k, v))
           /\ SumFunction(insert(f, k, v)) = (SumFunction(f) - AmountOf(f, k)) + v
<1> DEFINE g == insert(f, k, v)
           rest == DOMAIN f \ {k}
<1>1. /\ DOMAIN g = rest \cup {k} /\ rest \cap {k} = {}
      /\ g[k] = v /\ \A x \in rest : g[x] = f[x]
  BY Zenon DEF insert
<1>2. Amounting(g)
  <2>1. IsFiniteSet(rest)
    BY FS_RemoveElement, Zenon DEF Amounting
  <2>2. IsFiniteSet(DOMAIN g)
    BY <1>1, <2>1, FS_AddElement
  <2> QED BY <1>1, <2>2, Zenon DEF Amounting
<1> HIDE DEF g
<1>3. SumFunction(g) = Total(g, rest) + v
  <2>1. Total(g, DOMAIN g) = v + Total(g, DOMAIN g \ {k})
    BY <1>1, <1>2, TotalWithout
  <2>2. DOMAIN g \ {k} = rest /\ Total(g, rest) \in Nat
    BY <1>1, <1>2, UnitsFinite, Zenon
  <2> QED BY <1>2, <2>1, <2>2, SumIsTotal
<1>4. Total(g, rest) = Total(f, rest) /\ Total(f, rest) \in Nat
  BY <1>1, TotalSame, UnitsFinite
<1>5. SumFunction(f) = Total(f, rest) + AmountOf(f, k) /\ AmountOf(f, k) \in Nat
  <2>1. CASE k \in DOMAIN f
    BY <1>4, <2>1, TotalWithout, SumIsTotal DEF AmountOf, Amounting
  <2>2. CASE k \notin DOMAIN f
    <3>1. rest = DOMAIN f
      BY <2>2
    <3> QED BY <1>4, <2>2, <3>1, SumIsTotal DEF AmountOf
  <2> QED BY <2>1, <2>2, Zenon
<1>6. SumFunction(g) = (SumFunction(f) - AmountOf(f, k)) + v
  BY <1>3, <1>4, <1>5
<1> QED BY <1>2, <1>6 DEF g

\* remove takes away what its key counts for.
LEMMA SumRemove ==
    ASSUME NEW f, Amounting(f), NEW k
    PROVE  /\ Amounting(remove(f, k))
           /\ SumFunction(remove(f, k)) = SumFunction(f) - AmountOf(f, k)
<1> DEFINE g == remove(f, k)
           rest == DOMAIN f \ {k}
<1>1. DOMAIN g = rest /\ \A x \in rest : g[x] = f[x]
  BY Zenon DEF remove, Restrict
<1>2. Amounting(g)
  <2>1. IsFiniteSet(rest)
    BY FS_RemoveElement DEF Amounting
  <2> QED BY <1>1, <2>1 DEF Amounting
<1> HIDE DEF g
<1>3. SumFunction(g) = Total(f, rest) /\ Total(f, rest) \in Nat
  BY <1>1, <1>2, SumIsTotal, TotalSame, UnitsFinite
<1>4. SumFunction(f) = Total(f, rest) + AmountOf(f, k) /\ AmountOf(f, k) \in Nat
  <2>1. CASE k \in DOMAIN f
    BY <1>3, <2>1, TotalWithout, SumIsTotal DEF AmountOf, Amounting
  <2>2. CASE k \notin DOMAIN f
    <3>1. rest = DOMAIN f
      BY <2>2
    <3> QED BY <1>3, <2>2, <3>1, SumIsTotal DEF AmountOf
  <2> QED BY <2>1, <2>2
<1>5. SumFunction(g) = SumFunction(f) - AmountOf(f, k)
  BY <1>3, <1>4
<1> QED BY <1>2, <1>5 DEF g

LEMMA SumEmpty == Amounting(EmptyMap) /\ SumFunction(EmptyMap) = 0
<1>1. DOMAIN EmptyMap = {}
  BY DEF EmptyMap
<1>2. Amounting(EmptyMap)
  BY <1>1, FS_EmptySet DEF Amounting
<1> QED BY <1>1, <1>2, SumIsTotal, TotalOfNone

\* Moving the entries of E from one map to another keeps the sum of both.
LEMMA SumMoved ==
    ASSUME NEW f, Amounting(f), NEW g, Amounting(g),
           NEW E \in SUBSET DOMAIN g, E \cap DOMAIN f = {},
           NEW f2, f2 = [x \in DOMAIN f \cup E |-> IF x \in E THEN g[x] ELSE f[x]],
           NEW g2, g2 = [x \in DOMAIN g \ E |-> g[x]]
    PROVE  /\ Amounting(f2) /\ Amounting(g2)
           /\ SumFunction(f2) + SumFunction(g2) = SumFunction(f) + SumFunction(g)
<1>1. IsFiniteSet(E) /\ IsFiniteSet(DOMAIN g \ E)
  BY FS_Subset DEF Amounting
<1>2. IsFiniteSet(DOMAIN f \cup E)
  BY <1>1, FS_Union, Zenon DEF Amounting
<1>3. Amounting(f2) /\ Amounting(g2)
  BY <1>1, <1>2 DEF Amounting
<1>4. /\ DOMAIN f2 = DOMAIN f \cup E /\ DOMAIN g2 = DOMAIN g \ E
      /\ \A x \in DOMAIN f : f2[x] = f[x]
      /\ \A x \in E : f2[x] = g[x]
      /\ \A x \in DOMAIN g \ E : g2[x] = g[x]
  BY Zenon
<1>5. SumFunction(f2) = Total(f2, DOMAIN f) + Total(f2, E)
  BY <1>3, <1>4, SumIsTotal, TotalSplit
<1>6. Total(f2, DOMAIN f) = Total(f, DOMAIN f) /\ Total(f2, E) = Total(g, E)
  BY <1>4, TotalSame
<1>7. SumFunction(g2) = Total(g, DOMAIN g \ E)
  BY <1>3, <1>4, SumIsTotal, TotalSame
<1>8. SumFunction(g) = Total(g, E) + Total(g, DOMAIN g \ E)
  <2>1. DOMAIN g = E \cup (DOMAIN g \ E) /\ E \cap (DOMAIN g \ E) = {}
    OBVIOUS
  <2>2. Total(g, E \cup (DOMAIN g \ E)) = Total(g, E) + Total(g, DOMAIN g \ E)
    BY <2>1, TotalSplit
  <2> QED BY <2>1, <2>2, SumIsTotal
<1>9. /\ Total(g, E) \in Nat /\ Total(g, DOMAIN g \ E) \in Nat
      /\ SumFunction(f) = Total(f, DOMAIN f) /\ SumFunction(f) \in Nat
  BY UnitsFinite, SumIsTotal, Zenon
<1>10. SumFunction(f2) + SumFunction(g2) = SumFunction(f) + SumFunction(g)
  BY <1>5, <1>6, <1>7, <1>8, <1>9
<1> QED BY <1>3, <1>10, Zenon

-----------------------------------------------------------------------------
\* Arithmetic modulo the width of a balance.

LEMMA BalancesAreNat == Balances \subseteq Nat
BY TokenAssumption DEF Balances

Congruent(x, y) == \E k \in Int : x = y + k * U128

\* Without the overflow checks a result is the right one modulo the width.
LEMMA WrappedCongruent ==
    ASSUME NEW x \in Int
    PROVE  Wrapped(x, U128) \in Balances /\ Congruent(Wrapped(x, U128), x)
<1>1. U128 \in Nat /\ U128 > 0
  BY TokenAssumption
<1>2. x = U128 * (x \div U128) + (x % U128) /\ x \div U128 \in Int /\ x % U128 \in Balances
  BY <1>1 DEF Balances
<1>3. x % U128 = x + (-(x \div U128)) * U128 /\ -(x \div U128) \in Int
  BY <1>1, <1>2
<1> QED BY <1>2, <1>3 DEF Wrapped, Congruent

LEMMA CongruentEqual ==
    ASSUME NEW x \in Int
    PROVE  Congruent(x, x)
<1>1. x = x + 0 * U128
  BY TokenAssumption
<1> QED BY <1>1 DEF Congruent

LEMMA CongruentSum ==
    ASSUME NEW x \in Int, NEW y \in Int, Congruent(x, y),
           NEW z \in Int, NEW w \in Int, Congruent(z, w)
    PROVE  Congruent(x + z, y + w) /\ Congruent(x - z, y - w)
<1>1. PICK k \in Int : x = y + k * U128
  BY DEF Congruent
<1>2. PICK l \in Int : z = w + l * U128
  BY DEF Congruent
<1>3. x + z = (y + w) + (k + l) * U128 /\ x - z = (y - w) + (k - l) * U128
  BY <1>1, <1>2, TokenAssumption
<1>4. k + l \in Int /\ k - l \in Int
  OBVIOUS
<1> QED BY <1>3, <1>4 DEF Congruent

LEMMA CongruentChain ==
    ASSUME NEW x \in Int, NEW y \in Int, NEW z \in Int, Congruent(x, y), Congruent(y, z)
    PROVE  Congruent(x, z) /\ Congruent(y, x)
<1>1. PICK k \in Int : x = y + k * U128
  BY DEF Congruent
<1>2. PICK l \in Int : y = z + l * U128
  BY DEF Congruent
<1>3. x = z + (k + l) * U128 /\ y = x + (-k) * U128
  BY <1>1, <1>2, TokenAssumption
<1>4. k + l \in Int /\ -k \in Int
  OBVIOUS
<1> QED BY <1>3, <1>4 DEF Congruent

\* What is congruent and changes alike stays congruent.
LEMMA CongruentAfter ==
    ASSUME NEW x \in Int, NEW y \in Int, NEW x2 \in Int, NEW y2 \in Int,
           Congruent(x, y), Congruent(x2 - x, y2 - y)
    PROVE  Congruent(x2, y2)
<1>1. x2 - x \in Int /\ y2 - y \in Int /\ x + (x2 - x) = x2 /\ y + (y2 - y) = y2
  OBVIOUS
<1>2. Congruent(x + (x2 - x), y + (y2 - y))
  BY <1>1, CongruentSum
<1> QED BY <1>1, <1>2

\* A counter that is moved by d moves by d modulo the width.
LEMMA WrappedMoves ==
    ASSUME NEW x \in Int, NEW d \in Int
    PROVE  /\ Congruent(Wrapped(x + d, U128) - x, d)
           /\ Congruent(d, Wrapped(x + d, U128) - x)
<1> DEFINE w == Wrapped(x + d, U128)
<1>1. x + d \in Int /\ (x + d) - x = d
  OBVIOUS
<1>2. w \in Balances /\ Congruent(w, x + d)
  BY <1>1, WrappedCongruent
<1>3. Congruent(x, x) /\ Congruent(d, d)
  BY CongruentEqual
<1> HIDE DEF w
<1>4. w \in Int
  BY <1>2, BalancesAreNat
<1>5. w - x \in Int /\ Congruent(w - x, (x + d) - x)
  BY <1>1, <1>2, <1>3, <1>4, CongruentSum
<1> QED BY <1>1, <1>3, <1>5, CongruentChain DEF w

\* A balance that is congruent to a sum is the sum modulo the width.
LEMMA CongruentMod ==
    ASSUME NEW x \in Int, NEW y \in Balances, Congruent(x, y)
    PROVE  x % U128 = y
<1>1. PICK k \in Int : x = y + k * U128
  BY DEF Congruent
<1>2. U128 \in Nat /\ U128 > 0
  BY TokenAssumption
<1> DEFINE q == x \div U128
           r == x % U128
<1>3. x = U128 * q + r /\ q \in Int /\ r \in 0..(U128 - 1)
  BY <1>2
<1> HIDE DEF q, r
<1>4. (k - q) * U128 = r - y /\ y \in 0..(U128 - 1)
  BY <1>1, <1>2, <1>3 DEF Balances
<1>5. k - q \in Int
  BY <1>3
<1>6. ~(k - q >= 1)
  <2> SUFFICES ASSUME k - q >= 1 PROVE FALSE
    OBVIOUS
  <2>1. (k - q) * U128 >= U128
    BY <1>2, <1>5
  <2> QED BY <1>2, <1>3, <1>4, <2>1
<1>7. ~(k - q <= -1)
  <2> SUFFICES ASSUME k - q <= -1 PROVE FALSE
    OBVIOUS
  <2>1. (k - q) * U128 <= -U128
    BY <1>2, <1>5
  <2> QED BY <1>2, <1>3, <1>4, <2>1
<1>8. k - q = 0
  BY <1>5, <1>6, <1>7
<1> QED BY <1>2, <1>3, <1>4, <1>8 DEF r
=============================================================================
