------------------------------- MODULE Token -------------------------------
(***************************************************************************)
(* The staking token of the main-chain contract: the accounts and the      *)
(* total supply of near_contract_standards' FungibleToken, the contract's  *)
(* own mint and burn, and the entry points that the two macros of          *)
(* fungible_token.rs add (external code, modelled from its use here).      *)
(*                                                                         *)
(* A call that panics is rolled back as a whole, so the conditions under   *)
(* which a handler panics are the negation of its guard.                   *)
(***************************************************************************)
EXTENDS Collections, FiniteSets

CONSTANTS
    Accounts,       \* account ids that may hold tokens
    dao,            \* the account with admin privileges
    InitialSupply,  \* tokens given to the DAO by new()
    U128,           \* 2^128 in the code: Balance is a u128
    U64,            \* 2^64 in the code: EpochHeight is a u64
    OverflowChecks  \* TRUE for the dev profile (cargo test), FALSE for release

ASSUME TokenAssumption ==
    /\ dao \in Accounts
    /\ U128 \in Nat \ {0}
    /\ U64 \in Nat \ {0}
    /\ InitialSupply \in 0..(U128 - 1)
    /\ OverflowChecks \in BOOLEAN

VARIABLES
    accounts,       \* token.accounts: account -> balance, registered accounts only
    total_supply    \* token.total_supply

tokenVars == <<accounts, total_supply>>

Balances == 0..(U128 - 1)

\* Unsigned arithmetic of the build: with overflow checks a result outside
\* the width aborts the call, without them it is taken modulo the width.
NoPanic(result, width) == OverflowChecks => result \in 0..(width - 1)
\* Mutant: subtraction that saturates at zero instead of wrapping.
SaturatingResult(result, width) == IF result < 0 THEN 0 ELSE result % width
Wrapped(result, width) == result % width

-----------------------------------------------------------------------------
\* mint and burn move tokens into and out of an account; total_supply, which
\* counts staked tokens too, is left alone.
mint(account_id, amount) ==
    /\ account_id \in DOMAIN accounts
    /\ NoPanic(accounts[account_id] + amount, U128)
    /\ accounts' = insert(accounts, account_id, Wrapped(accounts[account_id] + amount, U128))
    /\ UNCHANGED total_supply

\* Mutant: a burn that lowers the total supply, as the standard token's does.
BurnFromSupply(account_id, amount) ==
    /\ account_id \in DOMAIN accounts
    /\ accounts[account_id] >= amount
    /\ accounts' = insert(accounts, account_id, accounts[account_id] - amount)
    /\ total_supply' = total_supply - amount

burn(account_id, amount) ==
    /\ account_id \in DOMAIN accounts
    /\ NoPanic(accounts[account_id] - amount, U128)
    /\ accounts' = insert(accounts, account_id, Wrapped(accounts[account_id] - amount, U128))
    /\ UNCHANGED total_supply

-----------------------------------------------------------------------------
\* ft_transfer of the standard token: checked in every build.
ft_transfer(sender, receiver, amount) ==
    /\ sender # receiver
    /\ {sender, receiver} \subseteq DOMAIN accounts
    /\ amount > 0
    /\ amount <= accounts[sender]
    /\ accounts[receiver] + amount < U128
    /\ accounts' = [accounts EXCEPT ![sender] = @ - amount, ![receiver] = @ + amount]
    /\ UNCHANGED total_supply

\* storage_deposit registers an account with a zero balance.
storage_deposit(account_id) ==
    /\ account_id \notin DOMAIN accounts
    /\ accounts' = insert(accounts, account_id, 0)
    /\ UNCHANGED total_supply

\* storage_unregister closes an account; what is left in it is burned from
\* the total supply (force = true; with a zero balance force is not needed).
storage_unregister(account_id) ==
    /\ account_id \in DOMAIN accounts
    /\ NoPanic(total_supply - accounts[account_id], U128)
    /\ accounts' = remove(accounts, account_id)
    /\ total_supply' = Wrapped(total_supply - accounts[account_id], U128)

-----------------------------------------------------------------------------
TokenInit ==
    /\ accounts = insert(EmptyMap, dao, InitialSupply)
    /\ total_supply = InitialSupply

TokenTypeOK ==
    /\ IsMap(accounts, Accounts, Balances)
    /\ total_supply \in Balances
=============================================================================
