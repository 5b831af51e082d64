---------------------------- MODULE ChainClient ----------------------------
(***************************************************************************)
(* The calls that change the main chain, as seen from the programs that    *)
(* make them: a node's workers, which bridge data requests (consensus      *)
(* binary, bridge.rs, through host/chain_call.rs), and the operator's      *)
(* seda-delegate setup (top up, register, stake).  Both go through         *)
(* NearChain (chains/near_chain.rs): read the nonce of the signer's access *)
(* key, sign with the next one, broadcast, and ask for the outcome until   *)
(* it is known or 60 seconds have passed.                                  *)
(*                                                                         *)
(* register_node is signed with the validator key, the one the node's      *)
(* workers sign with, so the operator and the workers share an account.    *)
(***************************************************************************)
EXTENDS Integers, FiniteSets, Sequences

CONSTANTS
    Bridges,      \* workers of the node that run a bridge task
    Operators,    \* terminals in which seda-delegate setup is run
    MaxRuns,      \* bound: how often callers start, together
    MaxFaults,    \* bound: RPC errors, lost answers and lost transactions
    TimeLimit     \* the 60 seconds of send_tx, in steps of the clock

ASSUME ChainClientAssumption ==
    /\ Bridges \cap Operators = {} /\ IsFiniteSet(Bridges \cup Operators)
    /\ MaxRuns \in Nat /\ MaxFaults \in Nat /\ TimeLimit \in Nat

VARIABLES
    pc,           \* what each caller waits for
    runs,         \* how often each caller has started
    step,         \* the step of its program each caller is at
    current,      \* the transaction each caller has signed, <<>> if none
    waited,       \* time since the caller's broadcast, up to TimeLimit + 1
    told,         \* what construct_signed_tx and send_tx returned, per call
    accounts,     \* the accounts that exist on the chain
    nonce,        \* the nonce of each account's access key
    pool,         \* transactions accepted by an RPC node, not yet processed
    succeeded,    \* transactions executed to a SuccessValue
    failed,       \* transactions executed to a Failure
    dropped,      \* transactions the chain refused for their nonce
    faults        \* faults so far

caller == <<pc, runs, step, current, waited>>
chain == <<accounts, nonce, pool, succeeded, failed, dropped>>
vars == <<caller, told, chain, faults>>

Callers == Bridges \cup Operators

\* The transactions: the method that is called, and the account that signs.
\* TopUp and Stake sign with the operator's account; Register and the calls of
\* the node with the implicit account of the validator's ed25519 key.
TopUp == [method |-> "transfer", signer |-> "operator"]
Register == [method |-> "register_node", signer |-> "node"]
Stake == [method |-> "deposit", signer |-> "operator"]
ChainCall == [method |-> "post_data_request", signer |-> "node"]

\* Setup::handle awaits its commands one after the other.
Setup == <<TopUp, Register, Stake>>

Program(c) == IF c \in Bridges THEN <<ChainCall>> ELSE Setup

Call(c) == [from |-> c, run |-> runs[c], step |-> step[c]]
Method(call) == Program(call.from)[call.step].method
Account(call) == Program(call.from)[call.step].signer

\* Any of the errors that a request to an RPC node ends in.
Fault == faults < MaxFaults /\ faults' = faults + 1

Init ==
    /\ pc = [c \in Callers |-> "idle"]
    /\ runs = [c \in Callers |-> 0]
    /\ step = [c \in Callers |-> 1]
    /\ current = [c \in Callers |-> <<>>]
    /\ waited = [c \in Callers |-> 0]
    /\ told = {}
    /\ accounts \in {{"operator"}, {"operator", "node"}}
    /\ nonce = [a \in {"operator", "node"} |-> 0]
    /\ pool = {} /\ succeeded = {} /\ failed = {} /\ dropped = {}
    /\ faults = 0
-----------------------------------------------------------------------------
(***************************************************************************)
(* What follows a call that returned Ok or Err.                            *)
(***************************************************************************)

GoTo(c, where) == pc' = [pc EXCEPT ![c] = where]

\* The locals of send_tx end with it.
Return(c) ==
    /\ current' = [current EXCEPT ![c] = <<>>]
    /\ waited' = [waited EXCEPT ![c] = 0]

\* The value or the error is passed on to the caller as it is.
Tell(c, ok) == told' = told \cup {[call |-> Call(c), ok |-> ok]}

\* Mutant: the end of the program is not noticed.
ProceedPastEnd(c) ==
    Return(c) /\ GoTo(c, "query") /\ step' = [step EXCEPT ![c] = @ + 1]

\* send_tx(..).await? gave a value: the next command of Setup::handle, or the
\* promise of the bridge task is fulfilled.
Proceed(c) ==
    /\ Return(c)
    /\ IF step[c] < Len(Program(c))
       THEN GoTo(c, "query") /\ step' = [step EXCEPT ![c] = @ + 1]
       ELSE GoTo(c, IF c \in Bridges THEN "step_2" ELSE "idle") /\ UNCHANGED step

\* Mutant: an error does not end the command.
StopNot(c) == Tell(c, FALSE) /\ Proceed(c)

\* An error: the ? operators end the command, or the promise is rejected.
Stop(c) ==
    /\ Tell(c, FALSE) /\ Return(c)
    /\ GoTo(c, IF c \in Bridges THEN "step_2" ELSE "idle")
    /\ UNCHANGED step
-----------------------------------------------------------------------------
(***************************************************************************)
(* The callers.                                                            *)
(***************************************************************************)

\* The runs that callers have started so far.
Begun == {run \in Callers \X (1..MaxRuns) : run[2] <= runs[run[1]]}

\* Bridge::handle starts the view of the other chain, Setup::handle the top-up.
Begin(c) ==
    /\ pc[c] = "idle" /\ Cardinality(Begun) < MaxRuns
    /\ GoTo(c, IF c \in Bridges THEN "view" ELSE "query")
    /\ runs' = [runs EXCEPT ![c] = @ + 1]
    /\ step' = [step EXCEPT ![c] = 1]
    /\ UNCHANGED <<current, waited, told, chain, faults>>

\* ChainView: the other chain answers, or the promise is rejected.
chain_view(c) ==
    /\ pc[c] = "view"
    /\ \/ GoTo(c, "viewed") /\ UNCHANGED faults
       \/ GoTo(c, "not_viewed") /\ Fault
    /\ UNCHANGED <<runs, step, current, waited, told, chain>>

\* bridge_step_1 posts the data of the view; without any it only logs an error.
bridge_step_1(c) ==
    /\ \/ pc[c] = "viewed" /\ GoTo(c, "query")
       \/ pc[c] = "not_viewed" /\ GoTo(c, "idle")
    /\ UNCHANGED <<runs, step, current, waited, told, chain, faults>>

\* bridge_step_2 prints success, whatever the promise became, and ends the task.
bridge_step_2(c) ==
    /\ pc[c] = "step_2"
    /\ GoTo(c, "idle")
    /\ UNCHANGED <<runs, step, current, waited, told, chain, faults>>

\* Mutant: the current nonce is used again.
UsedNonce(a) == nonce[a]

\* The nonce of the transaction that is signed.
NextNonce(a) == nonce[a] + 1

\* NearChain signs with the nonce that follows the latest of the access key.
SignedTransaction(c) == [call |-> Call(c), nonce |-> NextNonce(Account(Call(c)))]

\* The query for the nonce fails when the account does not exist or the RPC
\* node does not answer.
construct_signed_tx(c) ==
    LET a == Account(Call(c)) IN
    /\ pc[c] = "query"
    /\ \/ /\ a \in accounts
          /\ current' = [current EXCEPT ![c] = <<SignedTransaction(c)>>]
          /\ GoTo(c, "send")
          /\ UNCHANGED <<step, waited, told, faults>>
       \/ a \notin accounts /\ Stop(c) /\ UNCHANGED faults
       \/ Fault /\ Stop(c)
    /\ UNCHANGED <<runs, chain>>

\* send_tx, broadcast_tx_async: accepted and answered, accepted with the answer
\* lost, or refused.
broadcast(c) ==
    /\ pc[c] = "send"
    /\ \/ /\ pool' = pool \cup {current[c][1]}
          /\ GoTo(c, "poll")
          /\ UNCHANGED <<step, current, waited, told, faults>>
       \/ /\ Fault
          /\ pool' \in {pool, pool \cup {current[c][1]}}
          /\ Stop(c)
    /\ UNCHANGED <<runs, accounts, nonce, succeeded, failed, dropped>>

\* Time passes while send_tx waits for an answer or sleeps.
Elapse(c) ==
    /\ pc[c] = "poll" /\ waited[c] <= TimeLimit
    /\ waited' = [waited EXCEPT ![c] = @ + 1]
    /\ UNCHANGED <<pc, runs, step, current, told, chain, faults>>

\* Mutant: the loop has no time limit.
TimedOutNever(c) == FALSE

\* More than 60 seconds since the broadcast.
TimedOut(c) == waited[c] > TimeLimit

\* Mutant: any final status is a success.
AnyOutcome(t) == t \in succeeded \cup failed

\* The answer that send_tx takes for a success.
SuccessValue(t) == t \in succeeded

\* send_tx, the loop: the time limit is looked at before the answer.  While the
\* chain does not know the transaction the loop goes on, which changes nothing.
poll(c) ==
    LET t == current[c][1] IN
    /\ pc[c] = "poll"
    /\ \/ TimedOut(c) /\ Stop(c) /\ UNCHANGED faults
       \/ /\ ~TimedOut(c) /\ SuccessValue(t)
          /\ Tell(c, TRUE) /\ Proceed(c)
          /\ UNCHANGED faults
       \/ ~TimedOut(c) /\ t \in failed /\ Stop(c) /\ UNCHANGED faults
       \/ ~TimedOut(c) /\ Fault /\ Stop(c)
    /\ UNCHANGED <<runs, chain>>
-----------------------------------------------------------------------------
(***************************************************************************)
(* The chain.                                                              *)
(***************************************************************************)

\* A transaction whose nonce is above the access key's is executed, and its
\* call succeeds or fails; a transfer that succeeds creates its receiver.
Execute(t) ==
    LET a == Account(t.call) IN
    /\ t.nonce > nonce[a]
    /\ nonce' = [nonce EXCEPT ![a] = t.nonce]
    /\ \/ /\ succeeded' = succeeded \cup {t}
          /\ accounts' = accounts \cup IF Method(t.call) = "transfer" THEN {"node"} ELSE {}
          /\ UNCHANGED failed
       \/ /\ failed' = failed \cup {t}
          /\ UNCHANGED <<succeeded, accounts>>
    /\ UNCHANGED <<dropped, faults>>

\* Any other transaction is refused, and its outcome never becomes known.
Refuse(t) ==
    /\ t.nonce <= nonce[Account(t.call)]
    /\ dropped' = dropped \cup {t}
    /\ UNCHANGED <<accounts, nonce, succeeded, failed, faults>>

\* A transaction that was only handed to an RPC node can be lost.
Lose(t) ==
    /\ Fault
    /\ UNCHANGED <<accounts, nonce, succeeded, failed, dropped>>

Process ==
    \E t \in pool :
        /\ pool' = pool \ {t}
        /\ Execute(t) \/ Refuse(t) \/ Lose(t)
        /\ UNCHANGED <<caller, told>>
-----------------------------------------------------------------------------
Advance(c) ==
    \/ chain_view(c)
    \/ bridge_step_1(c)
    \/ bridge_step_2(c)
    \/ construct_signed_tx(c)
    \/ broadcast(c)
    \/ Elapse(c)
    \/ poll(c)

Next == Process \/ \E c \in Callers : Begin(c) \/ Advance(c)

\* RPC requests return, timers fire and the clock runs; the chain may be slow.
Spec == Init /\ [][Next]_vars /\ \A c \in Callers : WF_vars(Advance(c))
-----------------------------------------------------------------------------
Calls == {[from |-> c, run |-> r, step |-> k] : c \in Callers, r \in 1..MaxRuns, k \in 1..3}
Transactions == [call : Calls, nonce : Nat]

\* The state of the callers and of the chain is well formed; in particular no
\* caller is past the end of its program.
TypeOK ==
    /\ pc \in [Callers -> {"idle", "view", "viewed", "not_viewed", "query", "send", "poll", "step_2"}]
    /\ runs \in [Callers -> 0..MaxRuns]
    /\ \A c \in Callers : step[c] \in 1..Len(Program(c))
    /\ waited \in [Callers -> 0..(TimeLimit + 1)]
    /\ \A c \in Callers : pc[c] \in {"send", "poll"} => current[c] \in Seq(Transactions)
    /\ {r.call : r \in told} \subseteq Calls
    /\ accounts \subseteq {"operator", "node"}
    /\ pool \cup succeeded \cup failed \cup dropped \subseteq Transactions
    /\ faults \in 0..MaxFaults

\* "Transaction has been completed" (register.rs:61, stake.rs:62, top_up.rs:40)
\* and a fulfilled promise tell the truth: a call that returned Ok was executed
\* to success, whatever other calls of the same signer, faults and time-outs
\* came between.
OkMeansExecuted ==
    \A r \in told : r.ok => \E t \in succeeded : t.call = r.call

\* Setup::handle runs its three commands in order and only after each other:
\* when a transaction of a later command has been sent, the one before it in
\* the same run was executed to success (setup.rs:37-51).
SetupInOrder ==
    \A t \in pool \cup succeeded \cup failed \cup dropped : t.call.step > 1 =>
        \E u \in succeeded : u.call = [t.call EXCEPT !.step = @ - 1]

\* The nonce read before signing (near_chain.rs:50, 102) can be stale when the
\* transaction arrives.  A transaction is refused only then: another one of the
\* same signer was executed with exactly that nonce.
RefusedOnlyForRival ==
    \A t \in dropped : \E u \in succeeded \cup failed :
        /\ u.nonce = t.nonce
        /\ Account(u.call) = Account(t.call)
        /\ u # t

\* Every call returns, although the outcome of a refused or lost transaction
\* never becomes known: the loop of send_tx gives up (near_chain.rs:155).
CallsReturn == \A c \in Callers : pc[c] # "idle" ~> pc[c] = "idle"
=============================================================================
