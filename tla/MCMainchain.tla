---------------------------- MODULE MCMainchain ----------------------------
(***************************************************************************)
(* Instances of the main-chain contract for TLC.  A node's account is an   *)
(* implicit account: its id is its ed25519 public key, so one model value  *)
(* stands for the account and for its keys.                                *)
(***************************************************************************)
EXTENDS Mainchain, TLC

CONSTANT Operators  \* accounts that call the contract

ImplicitWallets == {[account_id |-> a, ed25519 |-> a, bn254 |-> a] : a \in Operators}

\* A digest whose draws collide: with two seats the second round needs three
\* rerolls, and the leader changes every other slot.
HalvedCounter(random, counter) == (random + counter) \div 2
RequestSymmetry == Permutations(DataRequests)

\* Steps of the run about batches: nodes stake only on themselves, and neither
\* close their token accounts nor cancel a withdrawal.
OwnStakeOnly ==
    /\ DOMAIN accounts \subseteq DOMAIN accounts'
    /\ \A d \in DOMAIN depositors' : d[1] = d[2]
    /\ \A r \in DOMAIN withdraw_requests \ DOMAIN withdraw_requests' : depositors' # depositors
=============================================================================
