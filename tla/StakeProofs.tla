---------------------------- MODULE StakeProofs ----------------------------
(***************************************************************************)
(* Proofs about the tokens of the main-chain contract, held and staked,    *)
(* for all values of its constants and for both builds, and about the      *)
(* pages in which its views show the nodes.                                *)
(***************************************************************************)
EXTENDS MainchainProofs

-----------------------------------------------------------------------------
\* The maps of amounts.

\* All maps that are summed are finite: a call adds at most one entry.
MapsFinite ==
    /\ IsFiniteSet(DOMAIN accounts)
    /\ IsFiniteSet(DOMAIN active_nodes)
    /\ IsFiniteSet(DOMAIN inactive_nodes)
    /\ IsFiniteSet(DOMAIN depositors)

Held == SumFunction(accounts)

LEMMA MapAmounts ==
    ASSUME NEW K, NEW map, IsMap(map, K, Balances), IsFiniteSet(DOMAIN map)
    PROVE  Amounting(map)
BY BalancesAreNat DEF IsMap, Amounting

LEMMA NodeAmounts ==
    ASSUME NEW nodes, IsMap(nodes, Accounts, Node), IsFiniteSet(DOMAIN nodes)
    PROVE  Amounting(BalanceOf(nodes)) /\ DOMAIN BalanceOf(nodes) = DOMAIN nodes
<1>1. \A a \in DOMAIN nodes : nodes[a].balance \in Nat
  BY BalancesAreNat, ChangedNode DEF IsMap
<1> QED BY <1>1 DEF Amounting, BalanceOf

\* The balances of a map of nodes follow its entries.
LEMMA BalanceOfChanged ==
    ASSUME NEW nodes, NEW a, NEW node
    PROVE  /\ BalanceOf(insert(nodes, a, node)) = insert(BalanceOf(nodes), a, node.balance)
           /\ BalanceOf(remove(nodes, a)) = remove(BalanceOf(nodes), a)
BY DEF BalanceOf, insert, remove, Restrict

LEMMA DomainChanged ==
    ASSUME NEW map, NEW k, NEW v, IsFiniteSet(DOMAIN map)
    PROVE  IsFiniteSet(DOMAIN insert(map, k, v)) /\ IsFiniteSet(DOMAIN remove(map, k))
<1>1. DOMAIN insert(map, k, v) = DOMAIN map \cup {k} /\ DOMAIN remove(map, k) = DOMAIN map \ {k}
  BY DEF insert, remove, Restrict
<1> QED BY <1>1, FS_AddElement, FS_RemoveElement

\* The sums are natural numbers.
LEMMA SumsAreNat ==
    ASSUME TypeOK, MapsFinite
    PROVE  /\ Amounting(accounts) /\ Held \in Nat
           /\ Amounting(BalanceOf(active_nodes)) /\ SumFunction(BalanceOf(active_nodes)) \in Nat
           /\ Amounting(BalanceOf(inactive_nodes)) /\ SumFunction(BalanceOf(inactive_nodes)) \in Nat
           /\ Staked \in Nat
           /\ total_supply \in Nat /\ last_total_balance \in Nat
<1>1. Amounting(accounts)
  BY MapAmounts DEF TypeOK, TokenTypeOK, MapsFinite
<1>2. Amounting(BalanceOf(active_nodes)) /\ Amounting(BalanceOf(inactive_nodes))
  BY NodeAmounts DEF TypeOK, RegistryTypeOK, MapsFinite
<1>3. Held \in Nat /\ SumFunction(BalanceOf(active_nodes)) \in Nat
      /\ SumFunction(BalanceOf(inactive_nodes)) \in Nat
  BY <1>1, <1>2, SumIsTotal DEF Held
<1>4. total_supply \in Nat /\ last_total_balance \in Nat
  BY BalancesAreNat DEF TypeOK, TokenTypeOK, RegistryTypeOK
<1> QED BY <1>1, <1>2, <1>3, <1>4 DEF Staked

\* A call that sets one entry of accounts.
LEMMA HeldChanged ==
    ASSUME TypeOK, MapsFinite, NEW a \in DOMAIN accounts, NEW v \in Nat,
           accounts' = insert(accounts, a, v)
    PROVE  Held' = (Held - accounts[a]) + v /\ IsFiniteSet(DOMAIN accounts')
<1>1. Held' = (Held - AmountOf(accounts, a)) + v
  BY SumsAreNat, SumInsert DEF Held
<1> QED BY <1>1, DomainChanged DEF AmountOf, MapsFinite

\* handle_node_balance_update changes the stake by the change of the balance.
LEMMA BalanceUpdateStake ==
    ASSUME TypeOK, MapsFinite, NodesPartitioned, OneWalletPerAccount,
           NEW a \in NodeAccounts, NEW node \in Node, handle_node_balance_update(a, node)
    PROVE  Staked' = (Staked - internal_get_node(a).balance) + node.balance
<1> DEFINE act == BalanceOf(active_nodes)
           inact == BalanceOf(inactive_nodes)
           old == internal_get_node(a).balance
<1>1. /\ Amounting(act) /\ Amounting(inact)
      /\ SumFunction(act) \in Nat /\ SumFunction(inact) \in Nat
  BY SumsAreNat
<1>2. node.balance \in Nat /\ old \in Nat
  BY FoundNode, ChangedNode, BalancesAreNat, Zenon DEF TypeOK
<1>3. a \in DOMAIN active_nodes => a \notin DOMAIN inactive_nodes
  BY DEF NodesPartitioned
<1>4. CASE a \in DOMAIN active_nodes /\ node.balance >= minimum_stake
  <2>1. active_nodes' = insert(active_nodes, a, node) /\ inactive_nodes' = inactive_nodes
    BY <1>4 DEF handle_node_balance_update
  <2>2. AmountOf(act, a) = old
    BY <1>4 DEF AmountOf, BalanceOf, internal_get_node
  <2>3. SumFunction(BalanceOf(active_nodes')) = (SumFunction(act) - old) + node.balance
    BY <1>1, <1>2, <2>1, <2>2, BalanceOfChanged, SumInsert
  <2>4. Staked' = ((SumFunction(act) - old) + node.balance) + SumFunction(inact)
    BY <2>1, <2>3 DEF Staked, BalanceOf
  <2> QED BY <1>1, <1>2, <2>4 DEF Staked
<1>5. CASE a \in DOMAIN active_nodes /\ ~(node.balance >= minimum_stake)
  <2>1. active_nodes' = remove(active_nodes, a) /\ inactive_nodes' = insert(inactive_nodes, a, node)
    BY <1>5 DEF handle_node_balance_update
  <2>2. AmountOf(act, a) = old /\ AmountOf(inact, a) = 0
    BY <1>3, <1>5 DEF AmountOf, BalanceOf, internal_get_node
  <2>3. SumFunction(BalanceOf(active_nodes')) = SumFunction(act) - old
    BY <1>1, <2>1, <2>2, BalanceOfChanged, SumRemove, Zenon
  <2>4. SumFunction(BalanceOf(inactive_nodes')) = (SumFunction(inact) - 0) + node.balance
    BY <1>1, <1>2, <2>1, <2>2, BalanceOfChanged, SumInsert
  <2>5. Staked' = (SumFunction(act) - old) + ((SumFunction(inact) - 0) + node.balance)
    BY <2>3, <2>4 DEF Staked, BalanceOf
  <2> QED BY <1>1, <1>2, <2>5 DEF Staked
<1>6. CASE a \notin DOMAIN active_nodes
  <2>1. active_nodes' = active_nodes /\ inactive_nodes' = insert(inactive_nodes, a, node)
    BY <1>6 DEF handle_node_balance_update
  <2>2. AmountOf(inact, a) = old
    BY <1>6 DEF AmountOf, BalanceOf, internal_get_node, NodeAccounts
  <2>3. SumFunction(BalanceOf(inactive_nodes')) = (SumFunction(inact) - old) + node.balance
    BY <1>1, <1>2, <2>1, <2>2, BalanceOfChanged, SumInsert
  <2>4. Staked' = SumFunction(act) + ((SumFunction(inact) - old) + node.balance)
    BY <2>1, <2>3 DEF Staked, BalanceOf
  <2> QED BY <1>1, <1>2, <2>4 DEF Staked
<1> QED BY <1>4, <1>5, <1>6

-----------------------------------------------------------------------------
\* The supply.

\* The inductive invariant: what is held and staked is the total supply, and
\* what is staked is last_total_balance, modulo the width of a balance.
SupplyInv ==
    /\ MapsFinite
    /\ OneWalletPerAccount =>
          /\ Congruent(Held + Staked, total_supply)
          /\ Congruent(Staked, last_total_balance)

\* A step that changes the sums and the counters alike keeps the invariant.
LEMMA SupplyKept ==
    ASSUME TypeOK, TypeOK', SupplyInv, MapsFinite',
           OneWalletPerAccount =>
               /\ Congruent((Held' + Staked') - (Held + Staked), total_supply' - total_supply)
               /\ Congruent(Staked' - Staked, last_total_balance' - last_total_balance)
    PROVE  SupplyInv'
<1>1. /\ Held \in Nat /\ Staked \in Nat /\ total_supply \in Nat /\ last_total_balance \in Nat
      /\ Held' \in Nat /\ Staked' \in Nat /\ total_supply' \in Nat /\ last_total_balance' \in Nat
  <2>1. MapsFinite
    BY DEF SupplyInv
  <2>2. /\ Held \in Nat /\ Staked \in Nat /\ total_supply \in Nat /\ last_total_balance \in Nat
    BY <2>1, SumsAreNat
  <2>3. (TypeOK /\ MapsFinite => Held \in Nat /\ Staked \in Nat /\ total_supply \in Nat
            /\ last_total_balance \in Nat)'
    BY SumsAreNat, PTL
  <2> QED BY <2>2, <2>3
<1> SUFFICES ASSUME OneWalletPerAccount
             PROVE  /\ Congruent(Held' + Staked', total_supply')
                    /\ Congruent(Staked', last_total_balance')
  BY DEF SupplyInv, OneWalletPerAccount, Congruent
<1>2. Congruent(Held + Staked, total_supply) /\ Congruent(Staked, last_total_balance)
  BY DEF SupplyInv
<1>3. Held + Staked \in Int /\ Held' + Staked' \in Int
  BY <1>1
<1> QED BY <1>1, <1>2, <1>3, CongruentAfter

LEMMA SupplySame ==
    ASSUME TypeOK, TypeOK', SupplyInv, MapsFinite', UNCHANGED <<total_supply, last_total_balance>>,
           Held' = Held, OneWalletPerAccount => Staked' = Staked
    PROVE  SupplyInv'
<1>1. /\ Held \in Nat /\ Staked \in Nat /\ total_supply \in Nat /\ last_total_balance \in Nat
  BY SumsAreNat DEF SupplyInv
<1>2. ASSUME OneWalletPerAccount
      PROVE  /\ (Held' + Staked') - (Held + Staked) = 0 /\ total_supply' - total_supply = 0
             /\ Staked' - Staked = 0 /\ last_total_balance' - last_total_balance = 0
  BY <1>1, <1>2
<1>3. Congruent(0, 0)
  BY CongruentEqual
<1> QED BY <1>2, <1>3, SupplyKept

\* ft_transfer moves tokens from one account to another.
LEMMA TransferHeld ==
    ASSUME TypeOK, MapsFinite, NEW a \in Accounts, NEW b \in Accounts, NEW amount \in Nat,
           ft_transfer(a, b, amount)
    PROVE  Held' = Held /\ IsFiniteSet(DOMAIN accounts')
<1> DEFINE taken == insert(accounts, a, accounts[a] - amount)
<1>1. /\ a \in DOMAIN accounts /\ b \in DOMAIN accounts /\ a # b
      /\ accounts[a] \in Nat /\ accounts[b] \in Nat /\ amount <= accounts[a]
  BY MapValue, BalancesAreNat DEF ft_transfer, TypeOK, TokenTypeOK
<1>2. accounts' = insert(taken, b, accounts[b] + amount)
  <2>1. /\ accounts' = [accounts EXCEPT ![a] = accounts[a] - amount, ![b] = accounts[b] + amount]
        /\ accounts = [x \in DOMAIN accounts |-> accounts[x]]
    BY <1>1 DEF ft_transfer, TypeOK, TokenTypeOK, IsMap
  <2> QED BY <1>1, <2>1, Zenon DEF insert
<1>3. /\ Amounting(taken)
      /\ SumFunction(taken) = (Held - accounts[a]) + (accounts[a] - amount)
  <2>1. Amounting(accounts) /\ accounts[a] - amount \in Nat
    BY <1>1, SumsAreNat
  <2> QED BY <1>1, <2>1, SumInsert DEF AmountOf, Held
<1>4. AmountOf(taken, b) = accounts[b]
  BY <1>1 DEF AmountOf, insert
<1>5. IsFiniteSet(DOMAIN accounts')
  BY <1>2, <1>3, DomainChanged DEF Amounting
<1> HIDE DEF taken
<1>6. Held' = (SumFunction(taken) - accounts[b]) + (accounts[b] + amount)
  <2>1. accounts[b] + amount \in Nat
    BY <1>1
  <2> QED BY <1>2, <1>3, <1>4, <2>1, SumInsert DEF Held
<1>7. Held \in Nat
  BY SumsAreNat
<1> QED BY <1>1, <1>3, <1>5, <1>6, <1>7

LEMMA TokenCallSupply ==
    ASSUME TypeOK, TypeOK', SupplyInv, TokenCall
    PROVE  SupplyInv'
<1>1. MapsFinite /\ Amounting(accounts) /\ Held \in Nat /\ Staked \in Nat /\ total_supply \in Nat
  BY SumsAreNat DEF SupplyInv
<1>2. /\ UNCHANGED <<active_nodes, inactive_nodes, depositors, last_total_balance>>
      /\ Staked' = Staked
  BY DEF TokenCall, registryVars, nodeVars, stakeVars, Staked, BalanceOf
<1>3. Congruent(0, 0)
  BY CongruentEqual
<1>4. ASSUME Held' = Held, total_supply' = total_supply, IsFiniteSet(DOMAIN accounts')
      PROVE  SupplyInv'
  BY <1>1, <1>2, <1>4, SupplySame DEF MapsFinite
<1>5. ASSUME NEW a \in Accounts, storage_deposit(a)
      PROVE  SupplyInv'
  <2>1. Held' = (Held - AmountOf(accounts, a)) + 0 /\ AmountOf(accounts, a) = 0
    BY <1>1, <1>5, SumInsert DEF storage_deposit, Held, AmountOf
  <2>2. IsFiniteSet(DOMAIN accounts')
    BY <1>1, <1>5, DomainChanged DEF storage_deposit, MapsFinite
  <2>3. Held' = Held /\ total_supply' = total_supply
    BY <1>1, <1>5, <2>1 DEF storage_deposit
  <2> QED BY <1>4, <2>2, <2>3
<1>6. ASSUME NEW a \in Accounts, storage_unregister(a)
      PROVE  SupplyInv'
  <2> DEFINE b == accounts[a]
  <2>1. /\ a \in DOMAIN accounts /\ b \in Nat
        /\ total_supply' = Wrapped(total_supply - b, U128)
    BY <1>1, <1>6 DEF storage_unregister, Amounting
  <2>2. Held' = Held - b
    BY <1>1, <1>6, SumRemove DEF storage_unregister, Held, AmountOf
  <2>3. IsFiniteSet(DOMAIN accounts')
    BY <1>1, <1>6, DomainChanged DEF storage_unregister, MapsFinite
  <2> HIDE DEF b
  <2>4. total_supply - b = total_supply + (-b) /\ -b \in Int
    BY <1>1, <2>1
  <2>5. Congruent(-b, total_supply' - total_supply)
    BY <1>1, <2>1, <2>4, WrappedMoves
  <2>6. (Held' + Staked') - (Held + Staked) = -b
    BY <1>1, <1>2, <2>1, <2>2
  <2>7. Staked' - Staked = 0 /\ last_total_balance' - last_total_balance = 0
    BY <1>1, <1>2, SumsAreNat
  <2> QED BY <1>1, <1>2, <1>3, <2>3, <2>5, <2>6, <2>7, SupplyKept DEF MapsFinite
<1>7. ASSUME NEW a \in Accounts, NEW b \in Accounts, NEW amount \in Amounts,
             ft_transfer(a, b, amount)
      PROVE  SupplyInv'
  <2>1. amount \in Nat
    BY RegistryAssumption, BalancesAreNat
  <2>2. Held' = Held /\ IsFiniteSet(DOMAIN accounts')
    BY <1>1, <1>7, <2>1, TransferHeld
  <2> QED BY <1>4, <1>7, <2>2 DEF ft_transfer
<1> QED BY <1>5, <1>6, <1>7 DEF TokenCall

\* No call makes a map infinite.
LEMMA MapsFiniteStep ==
    ASSUME MapsFinite, [Next]_vars
    PROVE  MapsFinite'
<1>1. CASE UNCHANGED <<accounts, active_nodes, inactive_nodes, depositors>>
  BY <1>1 DEF MapsFinite
<1>2. ASSUME NEW a, NEW node, handle_node_balance_update(a, node)
      PROVE  IsFiniteSet(DOMAIN active_nodes') /\ IsFiniteSet(DOMAIN inactive_nodes')
  BY <1>2, DomainChanged DEF handle_node_balance_update, MapsFinite
<1>3. CASE TokenCall
  <2>1. UNCHANGED <<active_nodes, inactive_nodes, depositors>>
    BY <1>3 DEF TokenCall, registryVars, nodeVars, stakeVars
  <2>2. ASSUME NEW a, storage_deposit(a) \/ storage_unregister(a)
        PROVE  IsFiniteSet(DOMAIN accounts')
    BY <2>2, DomainChanged DEF storage_deposit, storage_unregister, MapsFinite
  <2>3. ASSUME NEW a, NEW b, NEW amount, ft_transfer(a, b, amount)
        PROVE  IsFiniteSet(DOMAIN accounts')
    BY <2>3 DEF ft_transfer, MapsFinite
  <2> QED BY <1>3, <2>1, <2>2, <2>3 DEF TokenCall, MapsFinite
<1>4. CASE RegistryCall
  <2>1. ASSUME NEW caller, NEW addr,
               register_node(caller, addr) \/ update_node(caller, addr) \/ unregister_node(caller)
        PROVE  MapsFinite'
    BY <2>1, DomainChanged, Zenon DEF register_node, update_node, unregister_node, MapsFinite,
        tokenVars, stakeVars
  <2>2. ASSUME NEW caller, NEW amount, NEW key,
               deposit(caller, amount, key) \/ withdraw(caller, amount, key)
        PROVE  MapsFinite'
    <3>1. IsFiniteSet(DOMAIN accounts')
      BY <2>2, DomainChanged, Zenon DEF deposit, withdraw, burn, mint, MapsFinite
    <3>2. IsFiniteSet(DOMAIN depositors')
      BY <2>2, DomainChanged, Zenon DEF deposit, withdraw, MapsFinite
    <3>3. IsFiniteSet(DOMAIN active_nodes') /\ IsFiniteSet(DOMAIN inactive_nodes')
      BY <1>2, <2>2, Zenon DEF deposit, withdraw
    <3> QED BY <3>1, <3>2, <3>3 DEF MapsFinite
  <2>3. ASSUME NEW caller, NEW amount, NEW key, NEW value,
               \/ request_withdraw(caller, amount, key) \/ cancel_withdraw_request(caller, key)
               \/ update_config(caller, key, value)
        PROVE  MapsFinite'
    BY <1>1, <2>3 DEF request_withdraw, cancel_withdraw_request, update_config, tokenVars,
        nodeVars, stakeVars
  <2> QED BY <1>4, <2>1, <2>2, <2>3 DEF RegistryCall
<1>5. CASE BatchCall
  <2>1. UNCHANGED <<accounts, depositors>>
    BY <1>5, Zenon DEF BatchCall, ProcessEpoch, post_data_request, post_signed_batch, tokenVars,
        registryVars, stakeVars
  <2>2. process_epoch \/ UNCHANGED nodeVars
    BY <1>5, Zenon DEF BatchCall, ProcessEpoch, post_data_request, post_signed_batch, registryVars
  <2>3. CASE UNCHANGED nodeVars
    BY <1>1, <2>1, <2>3 DEF nodeVars
  <2>4. CASE activate_eligible
    <3>1. /\ DOMAIN active_nodes' = DOMAIN active_nodes \cup Eligible
          /\ DOMAIN inactive_nodes' = DOMAIN inactive_nodes \ Eligible
          /\ Eligible \subseteq DOMAIN inactive_nodes
      BY <2>4 DEF activate_eligible, Restrict
    <3>2. IsFiniteSet(Eligible) /\ IsFiniteSet(DOMAIN inactive_nodes')
      BY <3>1, FS_Subset DEF MapsFinite
    <3>3. IsFiniteSet(DOMAIN active_nodes')
      BY <3>1, <3>2, FS_Union, Zenon DEF MapsFinite
    <3> QED BY <2>1, <3>2, <3>3 DEF MapsFinite
  <2> QED BY <2>2, <2>3, <2>4 DEF process_epoch
<1>6. CASE NextBlock \/ UNCHANGED vars
  BY <1>1, <1>6 DEF NextBlock, vars, tokenVars, registryVars, nodeVars, stakeVars
<1> QED BY <1>3, <1>4, <1>5, <1>6 DEF Next

\* Registering, unregistering or renaming a node moves no stake.
LEMMA RegistrationStake ==
    ASSUME TypeOK, MapsFinite, NodesOwned, NodesPartitioned, OneWalletPerAccount,
           NEW caller \in Wallets, NEW addr,
           register_node(caller, addr) \/ update_node(caller, addr) \/ unregister_node(caller)
    PROVE  Staked' = Staked
<1> DEFINE act == BalanceOf(active_nodes)
           inact == BalanceOf(inactive_nodes)
<1>1. /\ Amounting(act) /\ Amounting(inact)
      /\ SumFunction(act) \in Nat /\ SumFunction(inact) \in Nat
  BY SumsAreNat
<1>2. CASE register_node(caller, addr)
  <2> DEFINE a == caller.account_id
             node == [multi_addr |-> addr, balance |-> 0, ed25519_public_key |-> caller.ed25519,
                      bn254_public_key |-> caller.bn254]
  <2>1. /\ UNCHANGED active_nodes /\ inactive_nodes' = insert(inactive_nodes, a, node)
        /\ caller.ed25519 \notin DOMAIN nodes_by_ed25519_public_key /\ node.balance = 0
    BY <1>2, Zenon DEF register_node
  <2>2. a \notin DOMAIN inactive_nodes
    BY <2>1, Zenon DEF NodesOwned, Owned, Indexed, OneWalletPerAccount
  <2>3. AmountOf(inact, a) = 0
    BY <2>2 DEF AmountOf, BalanceOf
  <2> HIDE DEF node
  <2>4. BalanceOf(inactive_nodes') = insert(inact, a, 0)
    BY <2>1, BalanceOfChanged, Zenon
  <2>5. Staked = SumFunction(act) + SumFunction(inact)
        /\ Staked' = SumFunction(act) + SumFunction(BalanceOf(inactive_nodes'))
    BY <2>1 DEF Staked
  <2> HIDE DEF act, inact, a
  <2>6. SumFunction(BalanceOf(inactive_nodes')) = (SumFunction(inact) - 0) + 0
    BY <1>1, <2>3, <2>4, SumInsert
  <2> QED BY <1>1, <2>5, <2>6
<1>3. CASE update_node(caller, addr)
  <2> DEFINE a == caller.account_id
             node == WithMultiAddr(internal_get_node(a), addr)
  <2>1. a \in NodeAccounts /\ node.balance = internal_get_node(a).balance
    BY <1>3, FoundNode DEF update_node, WithMultiAddr, Node, TypeOK
  <2>2. \/ /\ a \in DOMAIN active_nodes /\ UNCHANGED inactive_nodes
           /\ active_nodes' = insert(active_nodes, a, node)
        \/ /\ a \notin DOMAIN active_nodes /\ UNCHANGED active_nodes
           /\ inactive_nodes' = insert(inactive_nodes, a, node)
    BY <1>3, Zenon DEF update_node
  <2> HIDE DEF node
  <2>3. BalanceOf(active_nodes') = act /\ BalanceOf(inactive_nodes') = inact
    BY <2>1, <2>2 DEF BalanceOf, insert, internal_get_node, NodeAccounts
  <2> QED BY <2>3 DEF Staked
<1>4. CASE unregister_node(caller)
  <2> DEFINE a == nodes_by_ed25519_public_key[caller.ed25519]
  <2>1. /\ UNCHANGED active_nodes /\ inactive_nodes' = remove(inactive_nodes, a)
        /\ a \in NodeAccounts /\ internal_get_node(a).balance = 0
    BY <1>4, Zenon DEF unregister_node, NodeKnown, get_expect_node_by_ed25519_public_key
  <2>2. AmountOf(inact, a) = 0
    BY <2>1, Zenon DEF AmountOf, BalanceOf, internal_get_node, NodeAccounts, NodesPartitioned
  <2>3. BalanceOf(inactive_nodes') = remove(inact, a)
    BY <2>1, BalanceOfChanged, Zenon
  <2>4. Staked = SumFunction(act) + SumFunction(inact)
        /\ Staked' = SumFunction(act) + SumFunction(BalanceOf(inactive_nodes'))
    BY <2>1 DEF Staked
  <2> HIDE DEF act, inact, a
  <2>5. SumFunction(BalanceOf(inactive_nodes')) = SumFunction(inact) - 0
    BY <1>1, <2>2, <2>3, SumRemove
  <2> QED BY <1>1, <2>4, <2>5
<1> QED BY <1>2, <1>3, <1>4

\* process_epoch moves nodes with their stake.
LEMMA ActivationStake ==
    ASSUME TypeOK, MapsFinite, NodesPartitioned, OneWalletPerAccount, process_epoch
    PROVE  Staked' = Staked
<1>1. CASE UNCHANGED nodeVars
  BY <1>1 DEF nodeVars, Staked, BalanceOf
<1>2. CASE activate_eligible
  <2> DEFINE act == BalanceOf(active_nodes)
             inact == BalanceOf(inactive_nodes)
  <2>1. Amounting(act) /\ Amounting(inact)
    BY SumsAreNat
  <2>2. /\ Eligible \in SUBSET DOMAIN inact /\ Eligible \cap DOMAIN act = {}
    BY <1>2 DEF activate_eligible, Eligible, BalanceOf, NodesPartitioned
  <2>3. /\ BalanceOf(active_nodes') =
              [x \in DOMAIN act \cup Eligible |-> IF x \in Eligible THEN inact[x] ELSE act[x]]
        /\ BalanceOf(inactive_nodes') = [x \in DOMAIN inact \ Eligible |-> inact[x]]
    BY <1>2 DEF activate_eligible, BalanceOf, Restrict
  <2> HIDE DEF act, inact
  <2>4. SumFunction(BalanceOf(active_nodes')) + SumFunction(BalanceOf(inactive_nodes'))
            = SumFunction(act) + SumFunction(inact)
    BY <2>1, <2>2, <2>3, SumMoved
  <2> QED BY <2>4 DEF Staked, act, inact
<1> QED BY <1>1, <1>2 DEF process_epoch

\* The arithmetic of deposit and withdraw: an account with h tokens moves by
\* -d, a node with b tokens by d, and the counter l of the stake by d.
LEMMA StakeMoves ==
    ASSUME NEW held \in Int, NEW held2 \in Int, NEW staked \in Int, NEW staked2 \in Int,
           NEW h \in Int, NEW b \in Int, NEW l \in Int, NEW d \in Int,
           NEW h2 \in Int, NEW b2 \in Int, NEW l2 \in Int,
           held2 = (held - h) + h2, staked2 = (staked - b) + b2,
           Congruent(h2 - h, -d), Congruent(b2 - b, d), Congruent(d, l2 - l)
    PROVE  /\ Congruent((held2 + staked2) - (held + staked), 0)
           /\ Congruent(staked2 - staked, l2 - l)
<1>1. /\ (held2 + staked2) - (held + staked) = (h2 - h) + (b2 - b)
      /\ staked2 - staked = b2 - b
      /\ (-d) + d = 0
      /\ h2 - h \in Int /\ b2 - b \in Int /\ l2 - l \in Int /\ -d \in Int
  OBVIOUS
<1>2. Congruent((h2 - h) + (b2 - b), (-d) + d)
  BY <1>1, CongruentSum
<1>3. Congruent(b2 - b, l2 - l)
  BY <1>1, CongruentChain
<1> QED BY <1>1, <1>2, <1>3

\* deposit and withdraw move tokens between an account and a node.
LEMMA StakingSupply ==
    ASSUME TypeOK, TypeOK', SupplyInv, MapsFinite', NodesPartitioned,
           NEW caller \in Wallets, NEW amount \in Amounts, NEW key \in EdKeys,
           deposit(caller, amount, key) \/ withdraw(caller, amount, key)
    PROVE  SupplyInv'
<1> DEFINE c == caller.account_id
           a == nodes_by_ed25519_public_key[key]
           node == internal_get_node(a)
           h == accounts[c]
           b == node.balance
<1>1. /\ MapsFinite /\ Held \in Nat /\ Staked \in Nat
      /\ total_supply \in Nat /\ last_total_balance \in Nat
  BY SumsAreNat DEF SupplyInv
<1>2. /\ c \in DOMAIN accounts /\ h \in Nat /\ amount \in Balances /\ amount \in Nat
  <2>1. c \in DOMAIN accounts
    BY Zenon DEF deposit, burn, withdraw, mint
  <2>2. h \in Balances
    BY <2>1, MapValue, Zenon DEF TypeOK, TokenTypeOK
  <2> QED BY <2>1, <2>2, RegistryAssumption, BalancesAreNat, Zenon
<1>3. a \in NodeAccounts /\ node \in Node /\ b \in Balances /\ b \in Nat
  <2>1. NodeKnown(key)
    BY Zenon DEF deposit, withdraw, Withdrawable
  <2>2. a \in NodeAccounts /\ node \in Node
    BY <2>1, FoundNode, Zenon DEF NodeKnown, TypeOK
  <2> QED BY <2>2, ChangedNode, BalancesAreNat, Zenon
<1>4. PICK d \in Int, h2 \in Nat, b2 \in Balances :
          /\ accounts' = insert(accounts, c, h2)
          /\ handle_node_balance_update(a, WithBalance(node, b2))
          /\ Congruent(h2 - h, -d) /\ Congruent(b2 - b, d)
          /\ Congruent(d, last_total_balance' - last_total_balance)
          /\ total_supply' = total_supply
  <2>1. CASE deposit(caller, amount, key)
    <3> DEFINE h2 == Wrapped(h - amount, U128)
               b2 == Wrapped(b + amount, U128)
    <3>1. /\ accounts' = insert(accounts, c, h2) /\ total_supply' = total_supply
          /\ handle_node_balance_update(a, WithBalance(node, b2))
          /\ last_total_balance' = Wrapped(last_total_balance + amount, U128)
      BY <2>1, Zenon DEF deposit, burn, get_expect_node_by_ed25519_public_key
    <3> HIDE DEF c, a, node, h, b
    <3>2. h - amount = h + (-amount) /\ -amount \in Int /\ h - amount \in Int /\ b + amount \in Int
      BY <1>2, <1>3
    <3>3. /\ h2 \in Balances /\ b2 \in Balances
      BY <3>2, WrappedCongruent
    <3>4. Congruent(h2 - h, -amount)
      <4>1. h \in Int /\ h2 = Wrapped(h + (-amount), U128)
        BY <1>2, <3>2
      <4> HIDE DEF h2
      <4> QED BY <3>2, <4>1, WrappedMoves
    <3>5. /\ Congruent(b2 - b, amount)
          /\ Congruent(amount, last_total_balance' - last_total_balance)
      <4>1. b \in Int /\ amount \in Int /\ last_total_balance \in Int
        BY <1>1, <1>2, <1>3
      <4>2. b2 = Wrapped(b + amount, U128)
        OBVIOUS
      <4> HIDE DEF b2
      <4> QED BY <3>1, <4>1, <4>2, WrappedMoves, Zenon
    <3> HIDE DEF h2, b2
    <3>6. h2 \in Nat /\ amount \in Int
      BY <1>2, <3>3, BalancesAreNat
    <3> QED BY <3>1, <3>3, <3>4, <3>5, <3>6
  <2>2. CASE withdraw(caller, amount, key)
    <3> DEFINE h2 == Wrapped(h + amount, U128)
               b2 == b - amount
    <3>1. /\ accounts' = insert(accounts, c, h2) /\ total_supply' = total_supply
          /\ handle_node_balance_update(a, WithBalance(node, b2)) /\ b >= amount
          /\ last_total_balance' = Wrapped(last_total_balance - amount, U128)
      BY <2>2, Zenon DEF withdraw, Withdrawable, mint, get_expect_node_by_ed25519_public_key
    <3> HIDE DEF c, a, node, h, b
    <3>2. /\ last_total_balance - amount = last_total_balance + (-amount) /\ -amount \in Int
          /\ h + amount \in Int /\ -(-amount) = amount
      BY <1>1, <1>2
    <3>3. h2 \in Balances
      BY <3>2, WrappedCongruent
    <3>4. b2 \in Balances /\ b2 - b = -amount
      BY <1>2, <1>3, <3>1, BalanceArithmetic
    <3>5. Congruent(h2 - h, -(-amount))
      BY <1>2, <3>2, WrappedMoves
    <3>6. Congruent(b2 - b, -amount)
      BY <3>2, <3>4, CongruentEqual
    <3>7. Congruent(-amount, last_total_balance' - last_total_balance)
      BY <1>1, <3>1, <3>2, WrappedMoves
    <3> HIDE DEF h2, b2
    <3>8. h2 \in Nat
      BY <3>3, BalancesAreNat
    <3> QED BY <3>1, <3>2, <3>4, <3>5, <3>6, <3>7, <3>8
  <2> QED BY <2>1, <2>2, Zenon
<1>5. Held' = (Held - h) + h2
  BY <1>1, <1>2, <1>4, HeldChanged, Zenon
<1>6. OneWalletPerAccount => Staked' = (Staked - b) + b2
  <2>1. WithBalance(node, b2) \in Node /\ WithBalance(node, b2).balance = b2
    BY <1>3, <1>4, ChangedNode DEF WithBalance, Node
  <2> QED BY <1>1, <1>3, <1>4, <2>1, BalanceUpdateStake, Zenon
<1>7. last_total_balance' \in Nat /\ b2 \in Nat /\ Held' \in Nat /\ Staked' \in Nat
  <2>1. (TypeOK /\ MapsFinite => Held \in Nat /\ Staked \in Nat /\ last_total_balance \in Nat)'
    BY SumsAreNat, PTL
  <2> QED BY <1>4, <2>1, BalancesAreNat, Zenon
<1> HIDE DEF c, a, node, h, b
<1>8. ASSUME OneWalletPerAccount
      PROVE  /\ Congruent((Held' + Staked') - (Held + Staked), 0)
             /\ Congruent(Staked' - Staked, last_total_balance' - last_total_balance)
  <2>1. /\ Held \in Int /\ Held' \in Int /\ Staked \in Int /\ Staked' \in Int
        /\ h \in Int /\ h2 \in Int /\ b \in Int /\ b2 \in Int
        /\ last_total_balance \in Int /\ last_total_balance' \in Int
    BY <1>1, <1>2, <1>3, <1>4, <1>7
  <2>2. Staked' = (Staked - b) + b2
    BY <1>6, <1>8
  <2> QED BY <1>4, <1>5, <2>1, <2>2, StakeMoves, ZenonT(40)
<1>9. total_supply' - total_supply = 0
  BY <1>1, <1>4
<1> QED BY <1>8, <1>9, SupplyKept

LEMMA SupplyStep ==
    ASSUME TypeOK, TypeOK', SupplyInv, NodesOwned, NodesPartitioned, [Next]_vars
    PROVE  SupplyInv'
<1>1. MapsFinite /\ MapsFinite'
  BY MapsFiniteStep DEF SupplyInv
<1>2. ASSUME UNCHANGED tokenVars, UNCHANGED last_total_balance,
             OneWalletPerAccount => Staked' = Staked
      PROVE  SupplyInv'
  <2>1. Held' = Held /\ UNCHANGED total_supply
    BY <1>2 DEF tokenVars, Held
  <2> QED BY <1>1, <1>2, <2>1, SupplySame
<1>3. ASSUME UNCHANGED nodeVars
      PROVE  Staked' = Staked
  BY <1>3 DEF nodeVars, Staked, BalanceOf
<1>4. CASE TokenCall
  BY <1>4, TokenCallSupply
<1>5. CASE RegistryCall
  <2>1. ASSUME NEW caller \in Wallets, NEW addr,
               register_node(caller, addr) \/ update_node(caller, addr) \/ unregister_node(caller)
        PROVE  SupplyInv'
    <3>1. UNCHANGED tokenVars /\ UNCHANGED last_total_balance
      BY <2>1, Zenon DEF register_node, update_node, unregister_node, stakeVars
    <3> QED BY <1>1, <1>2, <2>1, <3>1, RegistrationStake
  <2>2. ASSUME NEW caller \in Wallets, NEW amount \in Amounts, NEW key \in EdKeys,
               deposit(caller, amount, key) \/ withdraw(caller, amount, key)
        PROVE  SupplyInv'
    BY <1>1, <2>2, StakingSupply
  <2>3. ASSUME NEW caller, NEW amount, NEW key, NEW value,
               \/ request_withdraw(caller, amount, key) \/ cancel_withdraw_request(caller, key)
               \/ update_config(caller, key, value)
        PROVE  SupplyInv'
    <3>1. UNCHANGED <<tokenVars, nodeVars, last_total_balance>>
      BY <2>3, Zenon DEF request_withdraw, cancel_withdraw_request, update_config, stakeVars
    <3> QED BY <1>2, <1>3, <3>1
  <2> QED BY <1>5, <2>1, <2>2, <2>3 DEF RegistryCall
<1>6. CASE BatchCall
  <2>1. UNCHANGED <<tokenVars, last_total_balance>>
    BY <1>6 DEF BatchCall, ProcessEpoch, post_data_request, post_signed_batch, registryVars,
        stakeVars
  <2>2. process_epoch \/ UNCHANGED nodeVars
    BY <1>6 DEF BatchCall, ProcessEpoch, post_data_request, post_signed_batch, registryVars
  <2> QED BY <1>1, <1>2, <1>3, <2>1, <2>2, ActivationStake
<1>7. CASE NextBlock \/ UNCHANGED vars
  <2>1. UNCHANGED <<tokenVars, nodeVars, last_total_balance>>
    BY <1>7 DEF NextBlock, vars, registryVars, stakeVars
  <2> QED BY <1>2, <1>3, <2>1
<1> QED BY <1>4, <1>5, <1>6, <1>7 DEF Next

LEMMA SupplyInit ==
    ASSUME Init
    PROVE  SupplyInv
<1>1. /\ accounts = insert(EmptyMap, dao, InitialSupply) /\ total_supply = InitialSupply
      /\ active_nodes = EmptyMap /\ inactive_nodes = EmptyMap /\ depositors = EmptyMap
      /\ last_total_balance = 0
  BY DEF Init, TokenInit, RegistryInit
<1>2. InitialSupply \in Nat
  BY TokenAssumption, BalancesAreNat DEF Balances
<1>3. Amounting(EmptyMap) /\ SumFunction(EmptyMap) = 0 /\ AmountOf(EmptyMap, dao) = 0
  BY SumEmpty DEF AmountOf, EmptyMap
<1>4. Amounting(accounts) /\ Held = InitialSupply
  <2>1. Amounting(accounts) /\ Held = (0 - 0) + InitialSupply
    BY <1>1, <1>2, <1>3, SumInsert DEF Held
  <2> QED BY <1>2, <2>1
<1>5. Staked = 0
  <2>1. BalanceOf(EmptyMap) = EmptyMap
    BY DEF BalanceOf, EmptyMap
  <2> QED BY <1>1, <1>3, <2>1 DEF Staked
<1>6. Held + Staked = total_supply /\ Staked = last_total_balance
      /\ Held + Staked \in Int /\ Staked \in Int
  BY <1>1, <1>2, <1>4, <1>5
<1>7. Congruent(Held + Staked, total_supply) /\ Congruent(Staked, last_total_balance)
  BY <1>6, CongruentEqual
<1>8. MapsFinite
  BY <1>1, <1>3, <1>4 DEF MapsFinite, Amounting
<1> QED BY <1>7, <1>8 DEF SupplyInv

LEMMA SupplyInvariant == Spec => [](TypeOK /\ SupplyInv)
<1>1. Init => SupplyInv
  BY SupplyInit
<1>2. /\ TypeOK /\ TypeOK' /\ SupplyInv /\ NodesOwned /\ NodesPartitioned /\ [Next]_vars
      => SupplyInv'
  BY SupplyStep
<1> QED BY <1>1, <1>2, TypeCorrect, RegistryInvariant, PTL DEF Spec

\* Tokens are neither made nor lost: what the accounts hold and what is staked
\* on nodes add up to the total supply after any calls, as long as each
\* account has one wallet.  burn of deposit and mint of withdraw leave
\* total_supply alone for this reason.
THEOREM SupplyStaysConserved == Spec => []SupplyConserved
<1>1. TypeOK /\ SupplyInv => SupplyConserved
  <2> SUFFICES ASSUME TypeOK, SupplyInv, OneWalletPerAccount
               PROVE  (Held + Staked) % U128 = total_supply
    BY DEF SupplyConserved, Held
  <2>1. Held + Staked \in Int
    BY SumsAreNat DEF SupplyInv
  <2>2. Congruent(Held + Staked, total_supply) /\ total_supply \in Balances
    BY DEF SupplyInv, TypeOK, TokenTypeOK
  <2> QED BY <2>1, <2>2, CongruentMod
<1> QED BY <1>1, SupplyInvariant, PTL

\* last_total_balance, which only deposit and withdraw touch, is the sum of the
\* stakes of all nodes, although nodes are registered, removed, activated and
\* deactivated by other calls.
THEOREM TotalBalanceStaysTracked == Spec => []TotalBalanceTracked
<1>1. TypeOK /\ SupplyInv => TotalBalanceTracked
  <2> SUFFICES ASSUME TypeOK, SupplyInv, OneWalletPerAccount
               PROVE  Staked % U128 = last_total_balance
    BY DEF TotalBalanceTracked
  <2>1. Staked \in Int
    BY SumsAreNat DEF SupplyInv
  <2>2. Congruent(Staked, last_total_balance) /\ last_total_balance \in Balances
    BY DEF SupplyInv, TypeOK, RegistryTypeOK
  <2> QED BY <2>1, <2>2, CongruentMod
<1> QED BY <1>1, SupplyInvariant, PTL


-----------------------------------------------------------------------------
\* The deposits.

\* What is recorded for the depositors of a key, and the stake behind it.
Recorded(key) == [d \in {x \in DOMAIN depositors : x[2] = key} |-> depositors[d]]
Backing(key) == IF NodeKnown(key) THEN get_expect_node_by_ed25519_public_key(key).balance ELSE 0

\* The inductive invariant adds that every indexed key was put there by a
\* wallet that holds it: two keys then never lead to the same node, and a
\* call that moves the stake of one node leaves the others alone.
KeysOwned ==
    \A key \in DOMAIN nodes_by_ed25519_public_key :
        \E w \in Wallets : w.ed25519 = key /\ w.account_id = nodes_by_ed25519_public_key[key]

DepositsCovered ==
    OneWalletPerAccount /\ OverflowChecks =>
        \A key \in EdKeys : SumFunction(Recorded(key)) <= Backing(key)

LEMMA CoveredMeans == DepositsCovered => StakeCoversDeposits
BY DEF RestrictDomain, Restrict, Recorded, DepositsCovered, StakeCoversDeposits, Backing

LEMMA RecordedAmounts ==
    ASSUME TypeOK, MapsFinite, NEW key
    PROVE  Amounting(Recorded(key)) /\ SumFunction(Recorded(key)) \in Nat
<1>1. Amounting(depositors)
  BY MapAmounts DEF TypeOK, RegistryTypeOK, MapsFinite
<1>2. IsFiniteSet({x \in DOMAIN depositors : x[2] = key})
  BY FS_Subset DEF MapsFinite
<1>3. Amounting(Recorded(key))
  BY <1>1, <1>2 DEF Amounting, Recorded
<1> QED BY <1>3, SumIsTotal

LEMMA BackingIsNat ==
    ASSUME TypeOK, NEW key \in EdKeys
    PROVE  Backing(key) \in Nat
<1>1. CASE NodeKnown(key)
  BY <1>1, FoundNode, ChangedNode, BalancesAreNat, Zenon DEF Backing, TypeOK
<1>2. CASE ~NodeKnown(key)
  BY <1>2 DEF Backing
<1> QED BY <1>1, <1>2

\* Two keys of the index lead to two accounts.
LEMMA KeysLeadApart ==
    ASSUME KeysOwned, OneWalletPerAccount, NEW k1 \in DOMAIN nodes_by_ed25519_public_key,
           NEW k2 \in DOMAIN nodes_by_ed25519_public_key,
           nodes_by_ed25519_public_key[k1] = nodes_by_ed25519_public_key[k2]
    PROVE  k1 = k2
BY DEF KeysOwned, OneWalletPerAccount

LEMMA KeysOwnedStep ==
    ASSUME KeysOwned, [Next]_vars
    PROVE  KeysOwned'
<1>1. CASE UNCHANGED indexVars
  BY <1>1 DEF indexVars, KeysOwned
<1>2. CASE RegistryCall
  <2>1. ASSUME NEW caller \in Wallets, NEW addr, register_node(caller, addr)
        PROVE  KeysOwned'
    BY <2>1, Zenon DEF register_node, KeysOwned, insert
  <2>2. ASSUME NEW caller, NEW addr, NEW amount, NEW key, NEW value,
               \/ update_node(caller, addr) \/ unregister_node(caller)
               \/ deposit(caller, amount, key) \/ withdraw(caller, amount, key)
               \/ request_withdraw(caller, amount, key) \/ cancel_withdraw_request(caller, key)
               \/ update_config(caller, key, value)
        PROVE  UNCHANGED indexVars
    BY <2>2, Zenon DEF update_node, unregister_node, deposit, withdraw, request_withdraw,
        cancel_withdraw_request, update_config
  <2> QED BY <1>1, <1>2, <2>1, <2>2 DEF RegistryCall
<1>3. CASE BatchCall
  BY <1>1, <1>3, Zenon DEF BatchCall, ProcessEpoch, post_data_request, post_signed_batch, registryVars
<1>4. CASE NextBlock \/ TokenCall \/ UNCHANGED vars
  BY <1>1, <1>4 DEF NextBlock, TokenCall, vars, registryVars
<1> QED BY <1>2, <1>3, <1>4 DEF Next

\* A call that records no deposit and takes no stake from a node.
LEMMA CoveredKept ==
    ASSUME TypeOK, TypeOK', MapsFinite, DepositsCovered, UNCHANGED depositors,
           OneWalletPerAccount => \A key \in EdKeys : Backing(key) <= Backing(key)'
    PROVE  DepositsCovered'
<1> SUFFICES ASSUME OneWalletPerAccount, OverflowChecks, NEW key \in EdKeys
             PROVE  SumFunction(Recorded(key)') <= Backing(key)'
  BY DEF DepositsCovered, OneWalletPerAccount
<1>1. Recorded(key)' = Recorded(key)
  BY DEF Recorded
<1>2. SumFunction(Recorded(key)) \in Nat /\ Backing(key) \in Nat
  BY RecordedAmounts, BackingIsNat
<1>3. Backing(key)' \in Nat
  <2>1. (TypeOK => Backing(key) \in Nat)'
    BY BackingIsNat, PTL
  <2> QED BY <2>1
<1>4. SumFunction(Recorded(key)) <= Backing(key) /\ Backing(key) <= Backing(key)'
  BY DEF DepositsCovered
<1> QED BY <1>1, <1>2, <1>3, <1>4


LEMMA RegistrationBacking ==
    ASSUME TypeOK, TypeOK', NodesOwned, NodesPartitioned, KeysOwned, OneWalletPerAccount,
           NEW caller \in Wallets, NEW addr,
           register_node(caller, addr) \/ update_node(caller, addr) \/ unregister_node(caller),
           NEW key \in EdKeys
    PROVE  Backing(key) <= Backing(key)'
<1> DEFINE a == nodes_by_ed25519_public_key[key]
<1>1. Backing(key) \in Nat /\ Backing(key)' \in Nat
  <2>1. (TypeOK => Backing(key) \in Nat)'
    BY BackingIsNat, PTL
  <2> QED BY <2>1, BackingIsNat
<1>2. CASE ~NodeKnown(key)
  BY <1>1, <1>2 DEF Backing
<1>3. ASSUME NodeKnown(key), NodeKnown(key)',
             internal_get_node(a)'.balance = internal_get_node(a).balance
      PROVE  Backing(key) <= Backing(key)'
  <2>1. /\ Backing(key) = get_expect_node_by_ed25519_public_key(key).balance
        /\ Backing(key)' = get_expect_node_by_ed25519_public_key(key)'.balance
    BY <1>3, Zenon DEF Backing
  <2>2. Backing(key)' = Backing(key)
    BY <1>3, <2>1, Zenon DEF get_expect_node_by_ed25519_public_key
  <2> QED BY <1>1, <2>2
<1>4. CASE NodeKnown(key) /\ register_node(caller, addr)
  <2>1. key \in DOMAIN nodes_by_ed25519_public_key /\ a \in NodeAccounts /\ key # caller.ed25519
    BY <1>4, Zenon DEF NodeKnown, register_node
  <2>2. a # caller.account_id
    <3>1. PICK w \in Wallets : w.ed25519 = key /\ w.account_id = a
      BY <2>1, Zenon DEF KeysOwned
    <3>2. caller \in Wallets /\ w # caller
      BY <2>1, <3>1, Zenon
    <3> QED BY <3>1, <3>2, Zenon DEF OneWalletPerAccount
  <2>3. /\ nodes_by_ed25519_public_key' = insert(nodes_by_ed25519_public_key, caller.ed25519,
                                                 caller.account_id)
        /\ UNCHANGED active_nodes
        /\ \E node : inactive_nodes' = insert(inactive_nodes, caller.account_id, node)
    BY <1>4, Zenon DEF register_node
  <2>4. nodes_by_ed25519_public_key'[key] = a /\ key \in DOMAIN nodes_by_ed25519_public_key'
    BY <2>1, <2>3, Zenon DEF insert
  <2>5. a \in NodeAccounts' /\ internal_get_node(a)' = internal_get_node(a)
    BY <2>1, <2>2, <2>3, <2>4, Zenon DEF NodeAccounts, internal_get_node, insert
  <2> QED BY <1>3, <1>4, <2>4, <2>5 DEF NodeKnown
<1>5. CASE NodeKnown(key) /\ update_node(caller, addr)
  <2> DEFINE c == caller.account_id
             node == WithMultiAddr(internal_get_node(c), addr)
  <2>1. UNCHANGED nodes_by_ed25519_public_key /\ c \in NodeAccounts /\ a \in NodeAccounts
    BY <1>5, Zenon DEF update_node, indexVars, NodeKnown
  <2>2. node.balance = internal_get_node(c).balance
    BY <2>1, FoundNode DEF WithMultiAddr, Node, TypeOK
  <2>3. \/ /\ c \in DOMAIN active_nodes /\ UNCHANGED inactive_nodes
           /\ active_nodes' = insert(active_nodes, c, node)
        \/ /\ c \notin DOMAIN active_nodes /\ UNCHANGED active_nodes
           /\ inactive_nodes' = insert(inactive_nodes, c, node)
    BY <1>5, Zenon DEF update_node
  <2> HIDE DEF node, c
  <2>4. a \in NodeAccounts' /\ internal_get_node(a)' = IF a = c THEN node ELSE internal_get_node(a)
    BY <2>1, <2>3 DEF NodeAccounts, internal_get_node, insert
  <2> QED BY <1>3, <1>5, <2>1, <2>2, <2>4 DEF NodeKnown
<1>6. CASE NodeKnown(key) /\ unregister_node(caller)
  <2> DEFINE c == nodes_by_ed25519_public_key[caller.ed25519]
  <2>1. /\ UNCHANGED <<nodes_by_ed25519_public_key, active_nodes>> /\ NodeKnown(caller.ed25519)
        /\ Backing(caller.ed25519) = 0 /\ inactive_nodes' = remove(inactive_nodes, c)
    BY <1>6, Zenon DEF unregister_node, indexVars, Backing
  <2>2. CASE key = caller.ed25519
    <3>1. Backing(key) = 0
      BY <2>1, <2>2
    <3> QED BY <1>1, <3>1
  <2>3. CASE key # caller.ed25519
    <3>1. a # c /\ a \in NodeAccounts
      BY <1>6, <2>1, <2>3, KeysLeadApart, Zenon DEF NodeKnown
    <3>2. a \in NodeAccounts' /\ internal_get_node(a)' = internal_get_node(a)
      BY <2>1, <3>1, Zenon DEF NodeAccounts, internal_get_node, remove, Restrict
    <3> QED BY <1>3, <1>6, <2>1, <3>2, Zenon DEF NodeKnown
  <2> QED BY <2>2, <2>3
<1> QED BY <1>2, <1>4, <1>5, <1>6

LEMMA ActivationBacking ==
    ASSUME TypeOK, NodesPartitioned, OneWalletPerAccount, process_epoch, UNCHANGED indexVars,
           NEW key \in EdKeys
    PROVE  Backing(key)' = Backing(key)
<1> DEFINE a == nodes_by_ed25519_public_key[key]
<1>1. UNCHANGED nodes_by_ed25519_public_key
  BY DEF indexVars
<1>2. CASE UNCHANGED nodeVars
  BY <1>1, <1>2 DEF nodeVars, Backing, NodeKnown, NodeAccounts, internal_get_node,
      get_expect_node_by_ed25519_public_key
<1>3. CASE activate_eligible
  <2>1. NodeAccounts' = NodeAccounts
    BY <1>3 DEF activate_eligible, NodeAccounts, Restrict
  <2>2. \A x \in NodeAccounts : internal_get_node(x)' = internal_get_node(x)
    BY <1>3 DEF activate_eligible, NodeAccounts, Restrict, internal_get_node, NodesPartitioned
  <2> QED BY <1>1, <2>1, <2>2 DEF Backing, NodeKnown, get_expect_node_by_ed25519_public_key
<1> QED BY <1>2, <1>3 DEF process_epoch


\* insert into depositors is one into the deposits of the key.
LEMMA RecordedChanged ==
    ASSUME NEW d, NEW v, depositors' = insert(depositors, d, v), NEW key
    PROVE  /\ d[2] = key => Recorded(key)' = insert(Recorded(key), d, v)
           /\ d[2] # key => Recorded(key)' = Recorded(key)
BY DEF Recorded, insert

\* handle_node_balance_update changes the stake behind one key.
LEMMA BackingChanged ==
    ASSUME KeysOwned, OneWalletPerAccount, UNCHANGED indexVars, NEW key, NodeKnown(key),
           NEW node, handle_node_balance_update(nodes_by_ed25519_public_key[key], node)
    PROVE  /\ Backing(key)' = node.balance
           /\ \A k : k # key => Backing(k)' = Backing(k)
<1> DEFINE a == nodes_by_ed25519_public_key[key]
<1>1. UNCHANGED nodes_by_ed25519_public_key /\ a \in NodeAccounts
  BY DEF indexVars, NodeKnown
<1>2. NodeAccounts' = NodeAccounts /\ internal_get_node(a)' = node
  BY <1>1 DEF handle_node_balance_update, NodeAccounts, internal_get_node, insert, remove, Restrict
<1>3. \A x \in NodeAccounts : x # a => internal_get_node(x)' = internal_get_node(x)
  BY <1>1 DEF handle_node_balance_update, NodeAccounts, internal_get_node, insert, remove, Restrict
<1>4. ASSUME NEW k, k # key
      PROVE  Backing(k)' = Backing(k)
  <2>1. NodeKnown(k) => nodes_by_ed25519_public_key[k] # a
    BY <1>4, KeysLeadApart DEF NodeKnown
  <2> QED BY <1>1, <1>2, <1>3, <2>1 DEF Backing, NodeKnown, get_expect_node_by_ed25519_public_key
<1>5. Backing(key)' = node.balance
  BY <1>1, <1>2 DEF Backing, NodeKnown, get_expect_node_by_ed25519_public_key
<1> QED BY <1>4, <1>5

\* The arithmetic of deposit and withdraw: sum is recorded for a key, entry of
\* it for the caller, and balance is staked.
LEMMA CoverArithmetic ==
    ASSUME NEW sum \in Nat, NEW entry \in Nat, NEW balance \in Nat, NEW amount \in Nat,
           sum <= balance
    PROVE  /\ (sum - entry) + amount <= balance + amount
           /\ (sum - entry) + (entry - amount) <= balance - amount
OBVIOUS

LEMMA StakingCovered ==
    ASSUME TypeOK, TypeOK', MapsFinite, KeysOwned, DepositsCovered,
           NEW caller \in Wallets, NEW amount \in Amounts, NEW key \in EdKeys,
           deposit(caller, amount, key) \/ withdraw(caller, amount, key)
    PROVE  DepositsCovered'
<1> SUFFICES ASSUME OneWalletPerAccount, OverflowChecks, NEW k \in EdKeys
             PROVE  SumFunction(Recorded(k)') <= Backing(k)'
  BY DEF DepositsCovered, OneWalletPerAccount
<1> DEFINE d == <<caller.account_id, key>>
           a == nodes_by_ed25519_public_key[key]
           node == internal_get_node(a)
           sum == SumFunction(Recorded(key))
           entry == AmountOf(Recorded(key), d)
<1>1. NodeKnown(key) /\ UNCHANGED indexVars /\ d[2] = key
  BY Zenon DEF deposit, withdraw, Withdrawable
<1>2. node \in Node /\ Backing(key) = node.balance /\ node.balance \in Nat /\ amount \in Nat
  BY <1>1, FoundNode, ChangedNode, BalancesAreNat, RegistryAssumption, Zenon
  DEF TypeOK, Backing, get_expect_node_by_ed25519_public_key
<1>3. Amounting(Recorded(key)) /\ sum \in Nat /\ entry \in Nat
  BY RecordedAmounts, Zenon DEF AmountOf, Amounting
<1>4. sum <= node.balance /\ SumFunction(Recorded(k)) <= Backing(k)
  BY <1>2 DEF DepositsCovered
<1>5. PICK v \in Nat, b \in Nat :
          /\ depositors' = insert(depositors, d, v)
          /\ handle_node_balance_update(a, WithBalance(node, b))
          /\ \/ v = amount /\ b = node.balance + amount
             \/ v = entry - amount /\ b = node.balance - amount
  <2>1. CASE deposit(caller, amount, key)
    <3>1. /\ depositors' = insert(depositors, d, amount)
          /\ handle_node_balance_update(a,
                WithBalance(node, Wrapped(node.balance + amount, U128)))
          /\ node.balance + amount \in 0..(U128 - 1)
      BY <2>1 DEF deposit, NoPanic, get_expect_node_by_ed25519_public_key
    <3>2. Wrapped(node.balance + amount, U128) = node.balance + amount
      BY <3>1, TokenAssumption DEF Wrapped
    <3> QED BY <1>2, <3>1, <3>2
  <2>2. CASE withdraw(caller, amount, key)
    <3>1. /\ depositors' = insert(depositors, d, depositors[d] - amount)
          /\ handle_node_balance_update(a, WithBalance(node, node.balance - amount))
          /\ node.balance >= amount /\ depositors[d] >= amount /\ d \in DOMAIN depositors
      BY <2>2, Zenon DEF withdraw, Withdrawable, get_expect_node_by_ed25519_public_key
    <3>2. entry = depositors[d]
      BY <1>1, <3>1, Zenon DEF AmountOf, Recorded
    <3> HIDE DEF entry, node, sum, d, a
    <3>3. entry >= amount /\ entry - amount \in Nat
      BY <1>2, <1>3, <3>1, <3>2
    <3>4. node.balance - amount \in Nat
      BY <1>2, <3>1
    <3> QED BY <3>1, <3>2, <3>3, <3>4
  <2> QED BY <2>1, <2>2
<1>6. WithBalance(node, b).balance = b
  BY <1>2 DEF WithBalance, Node
<1>7. Backing(key)' = b /\ \A x : x # key => Backing(x)' = Backing(x)
  BY <1>1, <1>5, <1>6, BackingChanged, Zenon
<1>8. CASE k = key
  <2> HIDE DEF d, a, node
  <2>1. Recorded(key)' = insert(Recorded(key), d, v)
    BY <1>1, <1>5, RecordedChanged
  <2>2. SumFunction(Recorded(key)') = (sum - entry) + v
    BY <1>3, <1>5, <2>1, SumInsert
  <2> HIDE DEF sum, entry
  <2> QED BY <1>2, <1>3, <1>4, <1>5, <1>7, <1>8, <2>2, CoverArithmetic
<1>9. CASE k # key
  BY <1>1, <1>4, <1>5, <1>7, <1>9, RecordedChanged, Zenon
<1> QED BY <1>8, <1>9


LEMMA CoveredStep ==
    ASSUME TypeOK, TypeOK', MapsFinite, NodesOwned, NodesPartitioned, KeysOwned, DepositsCovered,
           [Next]_vars
    PROVE  DepositsCovered'
<1>1. ASSUME UNCHANGED <<nodeVars, indexVars, depositors>>
      PROVE  DepositsCovered'
  BY <1>1, Zenon DEF nodeVars, indexVars, DepositsCovered, Recorded, Backing, NodeKnown, NodeAccounts,
      internal_get_node, get_expect_node_by_ed25519_public_key, OneWalletPerAccount
<1>2. CASE RegistryCall
  <2>1. ASSUME NEW caller \in Wallets, NEW addr,
               register_node(caller, addr) \/ update_node(caller, addr) \/ unregister_node(caller)
        PROVE  DepositsCovered'
    <3>1. UNCHANGED depositors
      BY <2>1, Zenon DEF register_node, update_node, unregister_node, stakeVars
    <3>2. OneWalletPerAccount => \A key \in EdKeys : Backing(key) <= Backing(key)'
      BY <2>1, RegistrationBacking
    <3> QED BY <3>1, <3>2, CoveredKept
  <2>2. ASSUME NEW caller \in Wallets, NEW amount \in Amounts, NEW key \in EdKeys,
               deposit(caller, amount, key) \/ withdraw(caller, amount, key)
        PROVE  DepositsCovered'
    BY <2>2, StakingCovered
  <2>3. ASSUME NEW caller, NEW amount, NEW key, NEW value,
               \/ request_withdraw(caller, amount, key) \/ cancel_withdraw_request(caller, key)
               \/ update_config(caller, key, value)
        PROVE  DepositsCovered'
    <3>1. UNCHANGED <<nodeVars, indexVars, depositors>>
      BY <2>3, Zenon DEF request_withdraw, cancel_withdraw_request, update_config, stakeVars
    <3> QED BY <1>1, <3>1
  <2> QED BY <1>2, <2>1, <2>2, <2>3 DEF RegistryCall
<1>3. CASE BatchCall
  <2>1. UNCHANGED <<indexVars, depositors>>
    BY <1>3, Zenon DEF BatchCall, ProcessEpoch, post_data_request, post_signed_batch, registryVars,
        stakeVars
  <2>2. process_epoch \/ UNCHANGED nodeVars
    BY <1>3, Zenon DEF BatchCall, ProcessEpoch, post_data_request, post_signed_batch, registryVars
  <2>3. CASE process_epoch
    <3>1. ASSUME OneWalletPerAccount, NEW key \in EdKeys
          PROVE  Backing(key) <= Backing(key)'
      <4>1. Backing(key)' = Backing(key)
        BY <2>1, <2>3, <3>1, ActivationBacking
      <4> QED BY <4>1, BackingIsNat
    <3> QED BY <2>1, <3>1, CoveredKept
  <2> QED BY <1>1, <2>1, <2>2, <2>3
<1>4. CASE NextBlock \/ TokenCall \/ UNCHANGED vars
  BY <1>1, <1>4 DEF NextBlock, TokenCall, vars, registryVars, stakeVars
<1> QED BY <1>2, <1>3, <1>4 DEF Next

LEMMA CoveredInit ==
    ASSUME Init
    PROVE  KeysOwned /\ DepositsCovered
<1>1. /\ depositors = EmptyMap /\ nodes_by_ed25519_public_key = EmptyMap
  BY DEF Init, RegistryInit
<1>2. KeysOwned /\ \A key : Backing(key) = 0 /\ Recorded(key) = EmptyMap
  BY <1>1 DEF KeysOwned, Backing, NodeKnown, Recorded, EmptyMap
<1> QED BY <1>2, SumEmpty DEF DepositsCovered

\* What the contract recorded for the depositors of a key is always covered by
\* the stake of the node behind it, so that no check of withdraw passes and
\* leaves another depositor's amount uncovered: see StakeCoversDeposits.
THEOREM DepositsStayCovered == Spec => []StakeCoversDeposits
<1>1. Init => KeysOwned /\ DepositsCovered
  BY CoveredInit
<1>2. KeysOwned /\ [Next]_vars => KeysOwned'
  BY KeysOwnedStep
<1>3. SupplyInv => MapsFinite
  BY DEF SupplyInv
<1>4. /\ TypeOK /\ TypeOK' /\ MapsFinite /\ NodesOwned /\ NodesPartitioned /\ KeysOwned
      /\ DepositsCovered /\ [Next]_vars
      => DepositsCovered'
  BY CoveredStep
<1>5. Spec => []DepositsCovered
  BY <1>1, <1>2, <1>3, <1>4, SupplyInvariant, RegistryInvariant, PTL DEF Spec
<1> QED BY <1>5, CoveredMeans, PTL


-----------------------------------------------------------------------------
\* The paged views.

\* Reading the pages of get_active_nodes or get_inactive_nodes one after the
\* other gives every node once, the latest first, and a node that joins in
\* between hides none, whatever the number of nodes and the size of the pages.
THEOREM PagesDoCoverNodes == Spec => []PagesCoverNodes
<1>1. ASSUME TypeOK, MapsFinite PROVE PagesCoverNodes
  <2> SUFFICES ASSUME NEW nodes \in {active_nodes, inactive_nodes}, NEW keys \in Orders(nodes),
                      NEW limit \in 1..(Cardinality(Accounts) + 1)
               PROVE  /\ ReadOnce(keys, limit)
                      /\ \A joins \in Accounts \ DOMAIN nodes, n \in 0..Len(keys), k \in 1..Len(keys) :
                             \/ \E p \in 0..(n - 1) : Shows(keys, limit, p, keys[k])
                             \/ \E p \in n..(Len(keys) + 1) : Shows(Append(keys, joins), limit, p, keys[k])
    BY DEF PagesCoverNodes
  <2> DEFINE size == Cardinality(DOMAIN nodes)
  <2>1. IsFiniteSet(DOMAIN nodes) /\ DOMAIN nodes \subseteq Accounts
    BY <1>1 DEF MapsFinite, TypeOK, RegistryTypeOK, IsMap
  <2>2. size \in Nat
    BY <2>1, FS_CardinalityType
  <2>3. keys \in [1..size -> DOMAIN nodes] /\ IsInjective(keys)
    BY DEF Orders, Injection
  <2> HIDE DEF size
  <2>4. keys \in Seq(Accounts)
    <3>1. keys \in [1..size -> Accounts]
      BY <2>1, <2>3
    <3> QED BY <2>2, <3>1
  <2>5. Len(keys) = size /\ DOMAIN keys = 1..size /\ Len(keys) \in Nat
    BY <2>2, <2>3, <2>4
  <2>6. \A k, l \in 1..Len(keys) : keys[k] = keys[l] => k = l
    BY <2>3, <2>5 DEF IsInjective
  <2>7. limit \in Nat \ {0}
    OBVIOUS
  <2>8. ReadOnce(keys, limit)
    BY <2>5, <2>6, <2>7, KeysReadOnce
  <2> QED BY <2>4, <2>7, <2>8, NoneHidden, Zenon
<1>2. SupplyInv => MapsFinite
  BY DEF SupplyInv
<1> QED BY <1>1, <1>2, SupplyInvariant, PTL
=============================================================================
